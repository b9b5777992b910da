------------------------------- MODULE FileRun -------------------------------
(***************************************************************************)
(* What a run of the orchestrator does with one file, from the choice of   *)
(* the checks to the exit code (_orchestrator.py, _diagnostics.py): the    *)
(* prefilter and the ignored checks, the cached result and the checks that *)
(* are never cached, the audit of suppression comments, the second look    *)
(* after reconciliation.  Runs follow each other, each with its own choice *)
(* of checks, and share the cache; the file may be edited between them.    *)
(*                                                                         *)
(* What a check finds in a text is a fact of the text.  A fix is one step  *)
(* here: FixEngine has its interleavings, ResultCache those of the cache.  *)
(***************************************************************************)
EXTENDS Naturals, FiniteSets, TLC

CONSTANTS
  Texts,
  Settings,    \* by name, the checks there are and what they may find, see below
  MaxRuns

Audit == "unused-pytriage"

(* What a check makes of a text: whether its prefilter pattern matches it,  *)
(* whether it reports something, whether a comment names its code and       *)
(* whether that comment suppresses something.  A text without the pattern   *)
(* has nothing to report or to suppress.                                    *)
AllFacts == {f \in [matches : BOOLEAN, found : BOOLEAN, named : BOOLEAN, used : BOOLEAN] :
               (f.found \/ f.used => f.matches) /\ (f.used => f.named)}

ASSUME FileRunAssumption ==
  /\ MaxRuns \in Nat /\ "none" \notin Texts
  /\ \A s \in {Settings[n] : n \in DOMAIN Settings} :
       LET regular == s.cacheable \cup s.rerun
       IN  /\ s.cacheable \cap s.rerun = {} /\ s.derived \subseteq s.rerun /\ Audit \notin regular
           /\ s.derived \cap s.fixable = {} /\ s.introduces \in BOOLEAN
           /\ s.tracks \subseteq regular /\ s.fixable \subseteq regular /\ s.kinds \subseteq AllFacts
           /\ s.selections \subseteq [select : SUBSET (regular \cup {Audit}), ignore : SUBSET regular]

VARIABLES
  setting,  \* the setting of this behaviour
  text,     \* of the file
  facts,    \* facts[c][t]
  cache,    \* the stored results, by the checks in the hook's name
  run       \* the run under way

vars == <<setting, text, facts, cache, run>>

Cacheable  == Settings[setting].cacheable   \* checks whose results are cached
Rerun      == Settings[setting].rerun       \* checks whose results are never cached
Derived    == Settings[setting].derived     \* those of them that depend on other files and reconcile
Tracks     == Settings[setting].tracks      \* checks whose plain check() tells the suppressions it used too
Fixable    == Settings[setting].fixable     \* checks with a fixer, none of them in Derived
Introduces == Settings[setting].introduces  \* may a fix beside a hit bring in a cacheable check's pattern?
Selections == Settings[setting].selections  \* the choices of checks: sets of checks and of ignored ones

Regular == Cacheable \cup Rerun
Checks == Regular \cup {Audit}

(* What a check may find, per text *)
FactsOf(c) == [Texts -> Settings[setting].kinds]

-----------------------------------------------------------------------------
(* Definitions *)

States == {"open", "fixed", "indirect", "failed"}

(* What a check's fixer makes of its findings *)
Outcomes == {"open", "fixed", "failed"}

(* A violation of a regular check, or the audit's about a check's comment *)
Violation(c, state) == [check |-> c, about |-> c, state |-> state]
Unneeded(c) == [check |-> Audit, about |-> c, state |-> "open"]
Violations == [check : Regular \cup {Audit}, about : Regular, state : States]

(* A result of checks, with the suppressions they used.  A history variable *)
(* says why part of it may not be of the text: a fix was taken for none     *)
(* ("unseen"), open findings or the audit were not looked at again after a  *)
(* fix ("left", "audit"), or a text with comments was checked without the   *)
(* audit, which the usages stored are for ("untold").                       *)
Doubts == {"unseen", "left", "audit", "untold"}

Result(report, usages, doubt) == [report |-> report, usages |-> usages, doubt |-> doubt]
Clean == Result({}, {}, {})
NoEntry == [text |-> "none"]

IdleRun(n) == [pc |-> "idle", nr |-> n, select |-> {}, ignored |-> {}, checks |-> {}, only |-> {},
               fix |-> FALSE, got |-> Clean, kept |-> Clean, failed |-> {}, down |-> {},
               skipped |-> FALSE, changed |-> FALSE, exit |-> 0]

Init ==
  /\ setting \in DOMAIN Settings
  /\ text \in Texts
  /\ facts \in [Regular -> [Texts -> Settings[setting].kinds]]
  /\ cache = [h \in SUBSET Cacheable |-> NoEntry] /\ run = IdleRun(0)

FoundIn(cs, t) == {Violation(c, "open") : c \in {d \in cs : facts[d][t].found}}

(* check_with_suppression_tracking, or check *)
UsedIn(cs, t, tracking) == {c \in cs : facts[c][t].used /\ (tracking \/ c \in Tracks)}

(* check_with_suppression_usage: the codes of active checks that are named  *)
(* by a comment and suppress nothing                                        *)
Audited(active, usages, t) ==
  {Unneeded(c) : c \in {d \in active : facts[d][t].named /\ d \notin usages}}

(* Mutant: the name does not depend on what is ignored for the file. *)
HookOfAll == run.select \cap Cacheable

(* The hook name stands for the selected cacheable checks not ignored here. *)
Hook == (run.select \cap Cacheable) \ run.ignored

-----------------------------------------------------------------------------
(* _checks_by_file *)

Matches(c) == IF c = Audit THEN \E d \in Regular : facts[d][text].named ELSE facts[c][text].matches

(* Mutant: the audit does not ask for the checks it audits. *)
ApplicableMatched(select, ignored) == {c \in select : Matches(c)}

(* Mutant: the audit asks for checks that were not selected as well. *)
ApplicableUnselected(select, ignored) == {c \in Checks : Matches(c)}

(* A file with a suppression comment is given to every check the audit may  *)
(* speak about.                                                             *)
Applicable(select, ignored) ==
  LET audited == Audit \in select \ ignored /\ Matches(Audit)
  IN  {c \in select : Matches(c) \/ (audited /\ c \notin ignored)}

Start ==
  /\ run.pc = "idle" /\ run.nr < MaxRuns
  /\ \E s \in Selections, fix \in BOOLEAN :
       LET ignored == s.ignore \cap s.select
           as == Applicable(s.select, ignored)
       IN  run' = [IdleRun(run.nr + 1) EXCEPT
                     !.pc = IF as = {} /\ ignored = {} THEN "reconcile" ELSE "lookup",
                     !.select = s.select, !.ignored = ignored, !.fix = fix,
                     !.checks = as \ ignored, !.only = (as \cap ignored) \cap Derived]
  /\ UNCHANGED <<setting, text, facts, cache>>

-----------------------------------------------------------------------------
(* _check_file, by what fails in it *)

(* The checks that give a result, in a pass in which those of down are      *)
(* unavailable and those of failed raise                                    *)
Ran(checks, failed, down) == (checks \ {Audit}) \ (failed \cup down)

(* What the audit says, unless it raises *)
Verdicts(checks, failed, active, usages, t) ==
  IF Audit \in checks \ failed THEN Audited(active, usages, t) ELSE {}

(* The result of the first pass at the text it reads *)
Looked(checks, failed, down, usages, active) ==
  LET cs   == Ran(checks, failed, down)
      used == usages \cup UsedIn(cs, text, Audit \in checks)
  IN  Result(FoundIn(cs, text) \cup Verdicts(checks, failed, active \cup cs, used, text), used, {})

(* What the fixes of a pass made of their checks' findings, by after        *)
After(report, after) ==
  {IF v.check \in DOMAIN after THEN Violation(v.check, after[v.check]) ELSE v : v \in report}

(* What is looked at again when the text is new and known to be: findings   *)
(* that are still open, some left by the fixes of partly among them         *)
LeftOpen(report, after, partly) ==
  {c \in Regular : Violation(c, "open") \in After(report, after)} \cup partly

(* _apply_fixes then: such a finding is still there or has gone with a fix, *)
(* but for those of the checks in stale, which are not looked for.  The     *)
(* audit's are not found this way.                                          *)
Fixed(report, after, new, stale, partly) ==
  LET still(c) == c \in stale \/ (c # Audit /\ facts[c][new].found)
      gone(v) == v.state = "open" /\ ~still(v.check)
  IN  {IF gone(v) THEN [v EXCEPT !.state = "indirect"] ELSE v : v \in After(report, after)}
      \cup {Violation(c, "open") : c \in {d \in partly : still(d)}}

(* Mutant: the audit's first verdicts are kept. *)
RefreshedBesides(checks, failed, down, usages, active, got, new) ==
  LET cs   == Ran(checks, failed, down)
      used == usages \cup UsedIn(cs, new, TRUE)
      fresh == Verdicts(checks, failed, active \cup cs, used, new)
  IN  [got EXCEPT !.report = @ \cup fresh, !.usages = used]

(* _refresh_unused_pytriage: the audit's verdicts are replaced by those     *)
(* about the new text.                                                      *)
Refreshed(checks, failed, down, usages, active, got, new) ==
  LET cs   == Ran(checks, failed, down)
      used == usages \cup UsedIn(cs, new, TRUE)
      fresh == Verdicts(checks, failed, active \cup cs, used, new)
  IN  Result({v \in got.report : v.check # Audit} \cup fresh, used, got.doubt)

(* The run with the checks that raised or were unavailable in a pass *)
Begun(failed, down) ==
  [run EXCEPT !.failed = @ \cup (failed \ run.down), !.down = @ \cup down]

(* Where the setting says so, a fix beside a hit brings in no pattern. *)
BringsNothingIn(new) ==
  run.pc = "always" /\ ~Introduces =>
    \A c \in Cacheable : facts[c][new].matches => facts[c][text].matches

-----------------------------------------------------------------------------
(* _check_and_cache, _process_single_file: what a result is good for *)

Merge(r, s) == Result(r.report \cup s.report, r.usages \cup s.usages, r.doubt \cup s.doubt)

(* A hit is completed by the checks that are never cached; when one of them *)
(* changed the file, the others are run after all.                          *)
AfterAlways(got, r, broken) ==
  /\ run' = IF r.changed
            THEN [r EXCEPT !.pc = "others", !.changed = FALSE,
                    !.kept = Result({v \in got.report : v.check # Audit},
                                    got.usages \cap Ran(run.checks \cap Rerun, r.failed, r.down),
                                    got.doubt)]
            ELSE [r EXCEPT !.pc = "reconcile", !.got = Merge(run.kept, got)]
  /\ UNCHANGED cache

(* Mutant: a check that failed does not keep the result out of the cache. *)
IncompleteTerminal(r, broken) == broken

(* new failures, unavailable checks, failed fixes *)
Incomplete(r, broken) == (r.failed \ run.failed) \cup r.down \cup broken

(* The entry for a text, as the file has it when the result is stored *)
Filed(mine, got, checks, t) ==
  [text |-> t, report |-> {v \in got.report : v.check \in mine /\ v.state # "fixed"},
   usages |-> got.usages \cap mine,
   doubt |-> got.doubt \cup (IF Audit \notin checks /\ (\E c \in Regular : facts[c][t].named)
                             THEN {"untold"} ELSE {})]

(* _check_and_cache *)
Store(checks, got, r, broken) ==
  LET mine == checks \cap Cacheable
  IN  cache' = IF mine # {} /\ Incomplete(r, broken) \cap mine = {} /\ ~r.changed
               THEN [cache EXCEPT ![Hook] = Filed(mine, got, checks, text')]
               ELSE cache

AfterAll(got, r, broken) ==
  /\ run' = [r EXCEPT !.pc = "reconcile", !.got = got]
  /\ Store(run.checks, got, r, broken)

(* What was kept is not looked at again when this pass changed the file, and *)
(* the audit counts a check as active that may raise in it.                  *)
DoubtOthers(r) ==
  (IF r.changed THEN {"left"} ELSE {})
  \cup (IF r.changed \/ r.failed # run.failed THEN {"audit"} ELSE {})

AfterOthers(got, r, broken) ==
  /\ run' = [r EXCEPT !.pc = "reconcile",
                        !.got = Merge(got, [run.kept EXCEPT !.doubt = @ \cup DoubtOthers(r)])]
  /\ Store(run.checks \ Rerun, got, r, broken)

(* What becomes of the result of a pass *)
Use(got, r, broken) ==
  \/ run.pc = "always" /\ AfterAlways(got, r, broken)
  \/ run.pc = "all" /\ AfterAll(got, r, broken)
  \/ run.pc = "others" /\ AfterOthers(got, r, broken)

-----------------------------------------------------------------------------
(* _check_file *)

(* A pass after which the file counts as unchanged: no fix, fixes that      *)
(* decline or fail, or one that was not noticed because its count stayed    *)
(* the same, it raised, or the file could not be read again.                *)
Unnoticed(got, r, fixing) ==
  \E new \in Texts, after \in [fixing -> Outcomes] :
    LET broken == {c \in fixing : after[c] = "failed"}
        report == After(got.report, after)
    IN  /\ fixing = {} => new = text
        /\ \A c \in fixing : after[c] = "fixed" => new # text /\ facts[c][new].found
        /\ text' = new
        /\ \E raised \in SUBSET broken :
             Use(Result(report, got.usages, IF new = text THEN {} ELSE {"unseen"}),
                 [r EXCEPT !.failed = @ \cup raised], broken)

(* After a change the audit is made again, unless the file cannot be read;  *)
(* checks may raise or be unavailable in it.                                *)
Again(got, r, broken, checks, usages, active, new) ==
  \/ Audit \notin checks /\ Use(got, r, broken)
  \/ Audit \in checks /\ Use([got EXCEPT !.doubt = @ \cup {"audit"}], r, broken)
  \/ \E failed \in SUBSET checks : \E down \in SUBSET ((checks \cap Rerun) \ failed) :
       /\ Audit \in checks
       /\ Use(Refreshed(checks, failed, r.down \cup down, usages, active, got, new),
              [r EXCEPT !.failed = @ \cup (failed \ r.down), !.down = @ \cup down], broken)

(* A pass after which the file counts as changed.  It may be unreadable     *)
(* when the open findings are looked for again, and checks may raise then.  *)
Noticed(got, r, fixing, checks, usages, active) ==
  \E new \in Texts \ {text}, after \in [fixing -> Outcomes] :
    LET fixed  == {c \in fixing : after[c] = "fixed"}
        broken == {c \in fixing : after[c] = "failed"}
    IN  /\ fixed # {} /\ BringsNothingIn(new) /\ text' = new
        /\ \E partly \in SUBSET fixed, unread \in BOOLEAN, raised \in SUBSET broken :
             \E lost \in SUBSET (IF unread THEN {} ELSE LeftOpen(got.report, after, partly)) :
               LET stale == IF unread THEN Checks ELSE lost
               IN  Again(Result(Fixed(got.report, after, new, stale, partly), got.usages,
                                IF unread THEN {"left"} ELSE {}),
                         [r EXCEPT !.changed = TRUE, !.failed = @ \cup raised \cup lost],
                         broken, checks, usages, active, new)

(* A pass over the checks of which some raise or are unavailable *)
Pass(checks, usages, active, failed, down) ==
  LET got    == Looked(checks, failed, run.down \cup down, usages, active)
      fixing == IF run.fix THEN {c \in Fixable : Violation(c, "open") \in got.report} ELSE {}
  IN  \/ Unnoticed(got, Begun(failed, down), fixing)
      \/ Noticed(got, Begun(failed, down), fixing, checks, usages, active)

(* The file could not be read, parsed or locked. *)
NotChecked == run' = [run EXCEPT !.pc = "reconcile", !.skipped = TRUE] /\ UNCHANGED <<text, cache>>

(* A call of _check_file *)
CheckFile(checks, usages, active) ==
  \/ NotChecked
  \/ \E failed \in SUBSET checks : \E down \in SUBSET ((checks \cap Rerun) \ failed) :
       Pass(checks, usages, active, failed, down)

-----------------------------------------------------------------------------
(* _process_single_file *)

(* Mutant: a result of another text counts. *)
EntryOfAnyText ==
  IF cache[Hook] # NoEntry THEN Result(cache[Hook].report, cache[Hook].usages, cache[Hook].doubt)
  ELSE NoEntry

(* _get_cached_violations *)
Entry ==
  IF cache[Hook].text = text THEN Result(cache[Hook].report, cache[Hook].usages, cache[Hook].doubt)
  ELSE NoEntry

(* A cached result that leaves nothing to fix *)
Hit == Entry # NoEntry /\ (run.fix => Entry.report = {})

Lookup ==
  /\ run.pc = "lookup"
  /\ run' = [run EXCEPT
       !.kept = IF Entry # NoEntry THEN Entry ELSE Clean,
       !.pc = IF run.checks = {} THEN "record"
              ELSE IF run.checks \cap Cacheable = {} \/ ~Hit THEN "all"
              ELSE IF run.checks \subseteq Cacheable THEN "record"
              ELSE "always"]
  /\ UNCHANGED <<setting, text, facts, cache>>

(* Nothing is checked: the cached result, if any, is the result; the file   *)
(* is still read when a check wants to know of it.                          *)
RecordOnly ==
  /\ run.pc = "record"
  /\ \/ run' = [run EXCEPT !.pc = "reconcile", !.got = IF run.checks = {} THEN Clean ELSE run.kept]
     \/ (run.only # {} \/ run.checks = {}) /\ run' = [run EXCEPT !.pc = "reconcile", !.skipped = TRUE]
  /\ UNCHANGED <<setting, text, facts, cache>>

CheckAlways ==
  /\ run.pc = "always"
  /\ CheckFile(run.checks \ Cacheable, run.kept.usages, run.checks \cap Cacheable)
  /\ UNCHANGED <<setting, facts>>

CheckAll == run.pc = "all" /\ CheckFile(run.checks, {}, {}) /\ UNCHANGED <<setting, facts>>

CheckOthers ==
  /\ run.pc = "others"
  /\ CheckFile(run.checks \ Rerun, run.kept.usages, Ran(run.checks, run.failed, run.down))
  /\ UNCHANGED <<setting, facts>>

-----------------------------------------------------------------------------
(* _reconcile_direct_inputs *)

(* Mutant: the second result of a check is added to the first. *)
ReplaceAdded(report, c, new) == report \cup new

(* _replace_check_violations *)
Replace(report, c, new) == {v \in report : v.check # c} \cup new

Reconcilable == (run.select \cap Derived) \ run.down

(* A check names no file, is unavailable, raises, or names this file: what  *)
(* it finds in the file has changed with another file and it is run again,  *)
(* unless it is ignored there.                                              *)
Reconcile ==
  /\ run.pc = "reconcile"
  /\ \/ run' = [run EXCEPT !.pc = "report"] /\ UNCHANGED facts
     \/ \E c \in Reconcilable :
          \/ run' = [run EXCEPT !.pc = "report", !.down = @ \cup {c}] /\ UNCHANGED facts
          \/ run' = [run EXCEPT !.pc = "report", !.failed = @ \cup {c}] /\ UNCHANGED facts
          \/ \E f \in FactsOf(c) :
               /\ \A t \in Texts : f[t].matches = facts[c][t].matches /\ f[t].named = facts[c][t].named
               /\ facts' = [facts EXCEPT ![c] = f]
               /\ IF c \in run.ignored THEN run' = [run EXCEPT !.pc = "report"]
                  ELSE \E failed, skipped \in BOOLEAN :
                         run' = [run EXCEPT !.pc = "report",
                           !.failed = IF failed /\ ~skipped THEN @ \cup {c} ELSE @,
                           !.skipped = @ \/ skipped,
                           !.got.report = Replace(@, c,
                              IF f[text].found /\ ~failed /\ ~skipped
                              THEN {Violation(c, "open")} ELSE {})]
  /\ UNCHANGED <<setting, text, cache>>

(* report: any line printed makes the run fail. *)
Exit(r) == IF r.down = {} /\ ~r.skipped /\ r.failed = {} /\ r.got.report = {} THEN 0 ELSE 1

Report ==
  /\ run.pc = "report" /\ run' = [run EXCEPT !.pc = "end", !.exit = Exit(run)]
  /\ UNCHANGED <<setting, text, facts, cache>>

(* The next run, on the same text or after an edit *)
Edit ==
  /\ run.pc = "end" /\ run.nr < MaxRuns /\ run' = IdleRun(run.nr) /\ text' \in Texts
  /\ UNCHANGED <<setting, facts, cache>>

Finished == run.pc = "end" /\ UNCHANGED vars

Next ==
  \/ Start \/ Lookup \/ RecordOnly \/ CheckAlways \/ CheckAll \/ CheckOthers
  \/ Reconcile \/ Report \/ Edit \/ Finished

Spec == Init /\ [][Next]_vars

-----------------------------------------------------------------------------
(* Properties *)

Entries == [text : Texts, report : SUBSET Violations, usages : SUBSET Regular, doubt : SUBSET Doubts]

TypeOK ==
  /\ setting \in DOMAIN Settings
  /\ text \in Texts /\ facts \in [Regular -> [Texts -> AllFacts]]
  /\ \A h \in SUBSET Cacheable : cache[h] # NoEntry => cache[h] \in Entries
  /\ run.got.report \subseteq Violations /\ run.got.usages \subseteq Regular
  /\ run.got.doubt \subseteq Doubts
  /\ run.checks \subseteq run.select \ run.ignored /\ run.only \subseteq run.ignored
  /\ run.exit \in {0, 1}

(* Exit code 0 means that every selected check that is not ignored for the  *)
(* file has nothing to report about its text: whatever the prefilter, the   *)
(* cache, a failure or an unavailable check left out, the run says so       *)
(* (docs/behavioral_contract.md on exit codes); but for a hit on what an    *)
(* earlier run stored after a fix it did not notice.                        *)
ExitHonest ==
  run.pc = "end" /\ run.exit = 0 /\ "unseen" \notin run.got.doubt =>
    \A c \in (run.select \ run.ignored) \cap Regular : ~facts[c][text].found

(* What is stored for a text is all that the checks in its hook's name find *)
(* in it: never the result of a check that failed, was unavailable, whose   *)
(* fix failed, or that another selection left out; but for what is stored   *)
(* after a fix that was not noticed.                                        *)
CacheComplete ==
  \A h \in SUBSET Cacheable : cache[h] # NoEntry /\ "unseen" \notin cache[h].doubt =>
    cache[h].report = FoundIn(h, cache[h].text)

(* What is reported as open is in the text the run leaves, also when fixes  *)
(* changed it and when a check was run a second time: but for a check that  *)
(* is said to have raised, and for fixes after which the findings were not  *)
(* looked for again.                                                        *)
ReportTrue ==
  run.pc = "end" /\ run.got.doubt \cap {"unseen", "left"} = {} => \A v \in run.got.report :
    v.check # Audit /\ v.state = "open" /\ v.check \notin run.failed => facts[v.check][text].found

(* A suppression the audit calls unused suppresses nothing in the text the  *)
(* run leaves (docs/rules/unused-pytriage.md), whatever failed, but for     *)
(* checks that depend on other files: reconciliation does not repeat it;    *)
(* for fixes after which it was not made again, and for hits on a text with *)
(* comments that was checked without it: no usages are cached then.         *)
AuditTrue ==
  run.pc = "report" /\ run.got.doubt \cap {"unseen", "audit", "untold"} = {} =>
    \A v \in run.got.report : v.check = Audit /\ v.about \notin Derived =>
      facts[v.about][text].named /\ ~facts[v.about][text].used

(* And the audit misses none, when all the checks it asks gave a result, of *)
(* a check whose verdict another file cannot change.                        *)
AuditComplete ==
  /\ run.pc = "report" /\ Audit \in run.checks /\ run.got.doubt \cap {"unseen", "audit"} = {}
  /\ run.failed \cup run.down = {} /\ ~run.skipped
  => \A c \in ((run.select \ run.ignored) \cap Regular) \ Derived :
       facts[c][text].named /\ ~facts[c][text].used => Unneeded(c) \in run.got.report

(* What a run reports is what there is: findings of the checks that are in   *)
(* the text, and of the suppressions the unused ones, all of them.           *)
ReportExact == TypeOK /\ ReportTrue /\ AuditTrue /\ AuditComplete
=============================================================================
