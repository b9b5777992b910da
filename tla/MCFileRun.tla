------------------------------ MODULE MCFileRun ------------------------------
(* Instances of FileRun: what is there to check, and how. *)
EXTENDS FileRun

Fact(m, f, n, u) == [matches |-> m, found |-> f, named |-> n, used |-> u]

Nothing == Fact(FALSE, FALSE, FALSE, FALSE)
Quiet   == Fact(TRUE, FALSE, FALSE, FALSE)    \* a pattern only
Finding == Fact(TRUE, TRUE, FALSE, FALSE)     \* something to report
Needed  == Fact(TRUE, FALSE, TRUE, TRUE)      \* a needed comment
Useless == Fact(FALSE, FALSE, TRUE, FALSE)    \* a useless one where nothing matches
Stale   == Fact(TRUE, FALSE, TRUE, FALSE)     \* a useless one where something does

AllChecks == {"c", "r", Audit}

\* A cacheable check, one that depends on other files, and the audit
Same == [cacheable |-> {"c"}, rerun |-> {"r"}, derived |-> {"r"}, tracks |-> {}, fixable |-> {"c"},
         introduces |-> FALSE,
         selections |-> {[select |-> s, ignore |-> {}] : s \in {AllChecks, {"c", "r"}}},
         kinds |-> {Nothing, Finding, Needed, Useless, Stale}]

\* The check that is never cached has a fixer too.
Always == [Same EXCEPT !.derived = {}, !.fixable = {"c", "r"}]

\* Two cacheable checks, with every choice of ignored ones
Ignored == [Same EXCEPT !.cacheable = {"c", "d"}, !.kinds = {Nothing, Finding},
              !.selections = {[select |-> {"c", "d", "r"}, ignore |-> i] : i \in SUBSET {"c", "d", "r"}}
                               \cup {[select |-> {"c"}, ignore |-> {}]}]

\* Comments of a check become needed or useless with a fix of another; runs with the audit and without
Commented == [Same EXCEPT !.cacheable = {"c", "d"}, !.rerun = {}, !.derived = {},
                !.kinds = {Needed, Stale, Finding},
                !.selections = {[select |-> s, ignore |-> {}] : s \in {{"c", "d", Audit}, {"c", "d"}}}]

\* The check that is never cached has a fixer, beside two cacheable checks.
Beside == [Always EXCEPT !.cacheable = {"c", "d"}, !.kinds = {Nothing, Quiet, Finding},
             !.selections = {[select |-> {"c", "d", "r"}, ignore |-> {}]}]

MCSymmetry == Permutations(Texts)

MCSettings == [same |-> Same, always |-> Always, ignored |-> Ignored, commented |-> Commented,
                beside |-> Beside]

\* Where the code does not keep CacheComplete: the fix brings in the pattern of a check left out
Disagreements == [introduced |-> [Beside EXCEPT !.introduces = TRUE]]
=============================================================================
