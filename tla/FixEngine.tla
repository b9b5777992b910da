------------------------------- MODULE FixEngine -------------------------------
(***************************************************************************)
(* Checking and fixing ONE file in fix mode: _check_file_with_lifecycle,   *)
(* _check_file_locked, _apply_fixes and its helpers, _check_and_cache of   *)
(* ast_checks/_orchestrator.py, and atomic_write_text of ast_checks/_base. *)
(*                                                                         *)
(* A step is one access to the file.  What the checks find in a content is *)
(* a function `finds', fixed for a behaviour; what a fixer makes of a      *)
(* content, and which violations it claims to have fixed, is any choice.   *)
(* Editors write the file between any two steps; other fix-mode processes  *)
(* are kept away by the per-file fix lock only.                            *)
(***************************************************************************)
EXTENDS Naturals, Sequences, FiniteSets

CONSTANTS
  Procs,        \* fix-mode processes
  Order,        \* the fixing and reporting checks, in ALL_CHECKS order
  Multi,        \* checks whose fix() writes once per violation (validate-function-name)
  Keys,         \* identities of a violation: position and message
  MessageOf,    \* the message of a violation, which survives its moving
  Parsable,     \* contents Python parses
  Broken,       \* contents it does not
  Semantics,    \* possible values of `finds'
  MayRaise,     \* TRUE: checks, fixers and file operations may raise
  MaxEdits,     \* bound on the writes of editors
  None          \* no lock holder, no cached result

VARIABLES
  content,      \* the file
  finds,        \* finds[k][c][x]: what check k says of violation x in content c
  lock,         \* holder of the per-file fix lock
  run,          \* run[p]: the progress of process p
  cached,       \* the last result stored: the content hashed and the violations
  edits,        \* writes of editors so far
  late,         \* history: an editor has written since p's last comparison
  foreign,      \* history: somebody else has written since p checked the file
  decided,      \* history: the terminal outcomes p has recorded
  missed        \* history: what p has done to the file, or failed to do, unnoticed

vars == <<content, finds, lock, run, cached, edits, late, foreign, decided, missed>>

Contents == Parsable \cup Broken
Checks == {Order[i] : i \in DOMAIN Order}
Verdicts == {"absent", "open", "fixable"}
Terminal == {"rejected", "errored", "failed", "aborted"}
Outcomes == {"none", "applied", "declined", "indirect"} \cup Terminal
Entries == [check : Checks, key : Keys, fixable : BOOLEAN, outcome : Outcomes, initial : BOOLEAN]
Findings == [check : Checks, key : Keys, fixable : BOOLEAN]

ASSUME FixConstants ==
  /\ Order \in Seq(Checks) /\ Len(Order) > 0
  /\ DOMAIN MessageOf = Keys
  /\ Multi \subseteq Checks
  /\ Semantics \subseteq [Checks -> [Parsable -> [Keys -> Verdicts]]]
  /\ Parsable \cap Broken = {}
  /\ MayRaise \in BOOLEAN /\ MaxEdits \in Nat
  /\ None \notin Procs

\* ALL_CHECKS lists a check once, and a file has finitely many violations.
ASSUME FixCounts ==
  /\ \A i, j \in DOMAIN Order : Order[i] = Order[j] => i = j
  /\ IsFiniteSet(Keys)

--------------------------------------------------------------------------------
(* What the checks say *)

Fixables(k, c) == {x \in Keys : finds[k][c][x] = "fixable"}

Report(k, c) ==
  {[check |-> k, key |-> x, fixable |-> finds[k][c][x] = "fixable"] :
     x \in {y \in Keys : finds[k][c][y] # "absent"}}

Entry(f, o, i) ==
  [check |-> f.check, key |-> f.key, fixable |-> f.fixable, outcome |-> o, initial |-> i]

OfCheck(es, k) == {e \in es : e.check = k}
Finding(e) == [check |-> e.check, key |-> e.key, fixable |-> e.fixable]

\* The checks an exception may hit at a step; whether a read can fail to yield a tree.
Raising == IF MayRaise THEN SUBSET Checks ELSE {{}}
Unreadable == content \in Broken \/ MayRaise

--------------------------------------------------------------------------------
(* The decisions of the engine *)

Free_Ignored(p) == p \in Procs

\* fcntl grants the per-file fix lock to one process.
Free(p) == lock = None

Validates_Skipped(d) == d \in Contents

\* atomic_write_text compiles what it is about to write.
Validates(d) == d \in Parsable

Conflict_Ignored(r) == r.base \notin Contents

\* ... and compares the file with the source the fix was computed from.
Conflict(r) == content # r.base

Settled_Never(es) == es = {}

\* _has_terminal_fix_state of any of these entries.
Settled(es) == \E e \in es : e.outcome \in Terminal

\* The fixable entries of check k give way to those its fix was run on.
Place(es, k, fresh, outcome) ==
  {e \in es : e.check # k \/ ~ e.fixable}
    \cup {[check |-> k, key |-> x, fixable |-> TRUE, outcome |-> outcome[x], initial |-> FALSE] : x \in fresh}

\* The outer except, and the unreadable file: the fix of k failed as a whole.
Errored(es, k) ==
  {e \in es : e.check # k \/ ~ e.fixable}
    \cup {[e EXCEPT !.outcome = "errored"] : e \in {f \in OfCheck(es, k) : f.fixable}}

\* _refresh_stale_positions leaves alone a check with a terminal outcome, and one
\* whose violations are all fixed.
Stale(es) ==
  {k \in Checks : /\ ~ Settled(OfCheck(es, k))
                  /\ \E e \in OfCheck(es, k) : e.outcome # "applied"}

Refreshed_Never(es, ks, c) == es

\* ... and runs the others again on the final content.
Refreshed(es, ks, c) ==
  {e \in es : e.check \notin ks \/ e.outcome = "applied"}
    \cup {Entry(f, "none", FALSE) : f \in UNION {Report(k, c) : k \in ks}}

\* The initial violations of check k that are no longer listed, and their successors.
Dropped(es, initial, k) ==
  {f \in initial : f.check = k /\ ~ \E e \in es : e.initial /\ Finding(e) = f}
Replacements(es, k) == {e \in OfCheck(es, k) : ~ e.initial}

Excess(m, n) == IF m > n THEN m - n ELSE 0

SameMessage(es, m) == {e \in es : MessageOf[e.key] = m}

Missing_Zero(d, r) == 0

Missing(d, r) == Excess(Cardinality(d), Cardinality(r))

\* _record_indirect_resolutions: the surplus of the dropped violations over what
\* replaced them, taken from those no replacement shares a message with.
Attributions(es, initial) ==
  {S \in SUBSET UNION {Dropped(es, initial, k) : k \in Checks} :
     \A k \in Checks :
       LET d == Dropped(es, initial, k)
           r == Replacements(es, k)
           s == OfCheck(S, k)
       IN  /\ Cardinality(s) = Missing(d, r)
           /\ \A x \in Keys : LET m == MessageOf[x]
                              IN  Cardinality(SameMessage(s, m))
                                    <= Excess(Cardinality(SameMessage(d, m)), Cardinality(SameMessage(r, m)))}

Attributes_Always(r) == r.changed

\* Nothing is attributed when an external edit was detected.
Attributes(r) == r.changed /\ ~ r.external

Cacheable_Changed(r) == r.failed = {} /\ ~ Settled(r.entries)

\* _check_and_cache: every check is complete and no fix changed the file.
Cacheable(r) == r.failed = {} /\ ~ Settled(r.entries) /\ ~ r.changed

--------------------------------------------------------------------------------
(* One process at work on the file *)

NoOutcome == [x \in Keys |-> "none"]

Fresh ==
  [pc |-> "lock", at |-> 1, base |-> None, fresh |-> {}, outcome |-> NoOutcome,
   todo |-> {}, claim |-> {}, draft |-> None, raised |-> FALSE,
   entries |-> {}, initial |-> {}, changed |-> FALSE, external |-> FALSE, failed |-> {}]

Init ==
  /\ content \in Parsable
  /\ finds \in Semantics
  /\ lock = None
  /\ run = [p \in Procs |-> Fresh]
  /\ cached = None
  /\ edits = 0
  /\ late = [p \in Procs |-> FALSE]
  /\ foreign = [p \in Procs |-> FALSE]
  /\ decided = [p \in Procs |-> {}]
  /\ missed = [p \in Procs |-> {}]

At(p, pc) == run[p].pc = pc
Check(p) == Order[run[p].at]
Update(p, r) == run' = [run EXCEPT ![p] = r]

\* The same process, its per-check scratch cleared, at the next check.
NextCheck(r) ==
  [r EXCEPT !.pc = "select", !.at = @ + 1, !.base = None, !.fresh = {}, !.outcome = NoOutcome,
            !.todo = {}, !.claim = {}, !.draft = None, !.raised = FALSE]

\* Replace the entries of the current check and go on; remember what is final.
Record(p, r, es) ==
  /\ Update(p, NextCheck([r EXCEPT !.entries = es]))
  /\ decided' = [decided EXCEPT ![p] = @ \cup {e \in OfCheck(es, Check(p)) : e.outcome \in Terminal}]

PlaceFresh(p, r) == Record(p, r, Place(r.entries, Check(p), r.fresh, r.outcome))

\* One outcome for every violation handed to fix() (_set_fix_outcomes insists on it).
All(fresh, o) == [x \in Keys |-> IF x \in fresh THEN o ELSE "none"]
Some(outcome, claim, o) == [x \in Keys |-> IF x \in claim THEN o ELSE outcome[x]]

AfterWrite_Again(p, r) == Update(p, [r EXCEPT !.pc = IF Check(p) \in Multi THEN "compare" ELSE "verify",
                                             !.claim = {}, !.draft = None])

\* After a write, or instead of one: the next violation of a multi-write fixer, or
\* the verification that follows fix().
AfterWrite(p, r) == Update(p, [r EXCEPT !.pc = IF Check(p) \in Multi THEN "pick" ELSE "verify",
                                        !.claim = {}, !.draft = None])

\* Release the fix lock; a complete and untouched result goes to the cache.
Leave(p, r) ==
  /\ lock' = None
  /\ Update(p, [r EXCEPT !.pc = IF Cacheable(r) THEN "store" ELSE "done"])

Lock(p) ==
  /\ At(p, "lock") /\ Free(p)
  /\ lock' = p
  /\ Update(p, [run[p] EXCEPT !.pc = "check"])
  /\ UNCHANGED <<content, finds, cached, edits, late, foreign, decided, missed>>

\* The lock is not free within _FIX_LOCK_TIMEOUT_SECONDS, or its file cannot be made:
\* the source file is unprocessable.
LockTimeout(p) ==
  /\ At(p, "lock") /\ (lock # None \/ MayRaise)
  /\ Update(p, [run[p] EXCEPT !.pc = "unprocessable"])
  /\ UNCHANGED <<content, finds, lock, cached, edits, late, foreign, decided, missed>>

\* _check_file_locked: read, parse, run every check.
CheckFile(p) ==
  /\ At(p, "check")
  /\ \/ /\ Unreadable
        /\ lock' = None
        /\ Update(p, [run[p] EXCEPT !.pc = "unprocessable"])
     \/ /\ content \in Parsable
        /\ \E bad \in Raising :
             LET found == UNION {Report(k, content) : k \in Checks \ bad}
                 r == [run[p] EXCEPT !.entries = {Entry(f, "none", TRUE) : f \in found},
                                     !.initial = found, !.failed = bad]
             IN  IF found = {}
                 THEN Leave(p, r)
                 ELSE Update(p, [r EXCEPT !.pc = "select"]) /\ UNCHANGED lock
  /\ foreign' = [foreign EXCEPT ![p] = FALSE]
  /\ UNCHANGED <<content, finds, cached, edits, late, decided, missed>>

HasFixable(r, k) == \E f \in r.initial : f.check = k /\ f.fixable

\* The for loop of _apply_fixes skips a check without fixable violations.
Skip(p) ==
  /\ At(p, "select") /\ run[p].at <= Len(Order)
  /\ ~ HasFixable(run[p], Check(p))
  /\ Update(p, NextCheck(run[p]))
  /\ UNCHANGED <<content, finds, lock, cached, edits, late, foreign, decided, missed>>

\* ... and otherwise reads the file and asks the check again.
Select(p) ==
  /\ At(p, "select") /\ run[p].at <= Len(Order)
  /\ HasFixable(run[p], Check(p))
  /\ LET r == run[p]
         k == Check(p)
     IN  \/ /\ Unreadable
            /\ Record(p, [r EXCEPT !.failed = @ \cup {k}], Errored(r.entries, k))
         \/ /\ content \in Parsable /\ Fixables(k, content) = {}
            /\ Update(p, NextCheck(r))
            /\ UNCHANGED decided
         \/ /\ content \in Parsable /\ Fixables(k, content) # {}
            /\ Update(p, [r EXCEPT !.pc = IF k \in Multi THEN "pick" ELSE "fix",
                                   !.base = content, !.fresh = Fixables(k, content),
                                   !.todo = Fixables(k, content)])
            /\ UNCHANGED decided
  /\ UNCHANGED <<content, finds, lock, cached, edits, late, foreign, missed>>

\* fix() of a check that writes once, for all its violations.
Fix(p) ==
  /\ At(p, "fix")
  /\ LET r == run[p]
     IN  \/ Update(p, [r EXCEPT !.pc = "verify", !.outcome = All(r.fresh, "declined")])
            /\ UNCHANGED decided
         \/ /\ MayRaise
            /\ Update(p, [r EXCEPT !.pc = "verify", !.raised = TRUE])
            /\ UNCHANGED decided
         \/ \E d \in Contents :
              /\ ~ Validates(d)
              /\ PlaceFresh(p, [r EXCEPT !.outcome = All(r.fresh, "rejected")])
         \/ \E d \in Contents, S \in (SUBSET r.fresh) \ {{}} :
              /\ Validates(d)
              /\ Update(p, [r EXCEPT !.pc = "compare", !.draft = d, !.claim = S,
                                     !.outcome = All(r.fresh, "declined")])
              /\ UNCHANGED decided
  /\ UNCHANGED <<content, finds, lock, cached, edits, late, foreign, missed>>

\* fix() of validate-function-name: each rename reads, checks and writes the file anew
\* (should_autofix and apply_fix each read it; what is written rests on the second).
FixNext(p) ==
  /\ At(p, "pick") /\ run[p].todo # {}
  /\ LET r == run[p]
     IN  \/ /\ MayRaise
            /\ Update(p, [r EXCEPT !.pc = "verify", !.raised = TRUE, !.outcome = NoOutcome, !.todo = {}])
         \/ \E x \in r.todo :
              LET rest == [r EXCEPT !.todo = @ \ {x}]
                  is(o) == Update(p, [rest EXCEPT !.outcome[x] = o])
              IN  \/ Unreadable /\ is("failed")
                  \/ content \in Parsable /\ is("declined")
                  \/ MayRaise /\ is("errored")
                  \/ /\ content \in Parsable
                     /\ \E d \in Contents :
                          \/ ~ Validates(d) /\ is("rejected")
                          \/ /\ Validates(d)
                             /\ Update(p, [rest EXCEPT !.pc = "compare", !.base = content,
                                                       !.draft = d, !.claim = {x}])
  /\ UNCHANGED <<content, finds, lock, cached, edits, late, foreign, decided, missed>>

FixedAll(p) ==
  /\ At(p, "pick") /\ run[p].todo = {}
  /\ Update(p, [run[p] EXCEPT !.pc = "verify"])
  /\ UNCHANGED <<content, finds, lock, cached, edits, late, foreign, decided, missed>>

\* atomic_write_text: temporary file written, file read back and compared.
Compare(p) ==
  /\ At(p, "compare")
  /\ LET r == run[p]
     IN  \/ /\ ~ Conflict(r)
            /\ Update(p, [r EXCEPT !.pc = "rename"])
            /\ late' = [late EXCEPT ![p] = FALSE]
            /\ UNCHANGED decided
         \/ /\ MayRaise
            /\ AfterWrite(p, [r EXCEPT !.outcome = Some(@, r.claim, "failed")])
            /\ UNCHANGED <<late, decided>>
         \/ /\ Conflict(r) /\ Check(p) \notin Multi
            /\ PlaceFresh(p, [r EXCEPT !.outcome = All(r.fresh, "aborted"),
                                       !.changed = TRUE, !.external = TRUE])
            /\ UNCHANGED late
         \/ /\ Conflict(r) /\ Check(p) \in Multi
            /\ AfterWrite(p, [r EXCEPT !.outcome = Some(@, r.claim, "aborted")])
            /\ UNCHANGED <<late, decided>>
  /\ UNCHANGED <<content, finds, lock, cached, edits, foreign, missed>>

\* ... the temporary file takes the file's place, unless that fails.
Rename(p) ==
  /\ At(p, "rename")
  /\ LET r == run[p]
     IN  \/ /\ content' = r.draft
            /\ foreign' = [q \in Procs |-> q # p \/ foreign[q]]
            /\ missed' = [missed EXCEPT ![p] = @ \cup IF r.draft # content THEN {"write"} ELSE {}]
            /\ AfterWrite(p, [r EXCEPT !.outcome = Some(@, r.claim, "applied")])
         \/ /\ MayRaise
            /\ AfterWrite(p, [r EXCEPT !.outcome = Some(@, r.claim, "failed")])
            /\ UNCHANGED <<content, foreign, missed>>
  /\ UNCHANGED <<finds, lock, cached, edits, late, decided>>

\* _mark_resolved_and_get_still_present, per violation.
Marked(o, present) ==
  CASE o = "none" /\ ~ present -> "applied"
    [] o = "applied" /\ present -> "declined"
    [] OTHER -> o

\* A violation whose fixer raised is errored if it is still there.
Judged(r, still, compared) ==
  [x \in Keys |->
     LET o == IF compared THEN Marked(r.outcome[x], x \in still)
                          ELSE IF r.outcome[x] = "applied" THEN "declined" ELSE r.outcome[x]
     IN  IF x \notin r.fresh THEN "none"
         ELSE IF r.raised /\ x \in still THEN "errored" ELSE o]

\* A fix that wrote the file is over: it was noticed if it left fewer violations.
Observed(p, noticed) ==
  missed' = [missed EXCEPT ![p] = IF "write" \in @
                                  THEN (@ \ {"write"}) \cup IF noticed THEN {} ELSE {"fix"}
                                  ELSE @]

\* After fix(): run the check once more on what the file holds now.
Verify(p) ==
  /\ At(p, "verify")
  /\ LET r == run[p]
         k == Check(p)
         bad == IF r.raised THEN {k} ELSE {}
     IN  \/ /\ Unreadable
            /\ PlaceFresh(p, [r EXCEPT !.outcome = Judged(r, r.fresh, FALSE), !.failed = @ \cup bad])
            /\ Observed(p, FALSE)
         \/ /\ content \in Parsable
            /\ LET still == Fixables(k, content)
                   fewer == Cardinality(still) < Cardinality(r.fresh)
               IN  /\ PlaceFresh(p, [r EXCEPT !.outcome = Judged(r, still, TRUE), !.failed = @ \cup bad,
                                              !.changed = @ \/ fewer])
                   /\ Observed(p, fewer)
         \/ /\ MayRaise
            /\ Record(p, [r EXCEPT !.failed = @ \cup {k}], Errored(r.entries, k))
            /\ Observed(p, FALSE)
  /\ UNCHANGED <<content, finds, lock, cached, edits, late, foreign>>

\* The rest of _apply_fixes, after its loop.
Finish(p) ==
  /\ At(p, "select") /\ run[p].at > Len(Order)
  /\ LET r == run[p]
     IN  \E bad \in Raising, reread \in BOOLEAN :
           LET ks == IF reread THEN Stale(r.entries) ELSE {}
               now == IF reread THEN Refreshed(r.entries, ks \ bad, content) ELSE r.entries
               lost == IF Attributes(r) THEN Attributions(now, r.initial) ELSE {{}}
           IN  /\ reread => r.changed /\ content \in Parsable
               /\ ~ reread => ~ r.changed \/ Unreadable
               /\ \E S \in lost :
                    Leave(p, [r EXCEPT !.entries = now \cup {Entry(f, "indirect", TRUE) : f \in S},
                                       !.failed = @ \cup (bad \cap ks)])
               /\ missed' = IF r.changed /\ ~ reread
                            THEN [missed EXCEPT ![p] = @ \cup {"end"}] ELSE missed
  /\ UNCHANGED <<content, finds, cached, edits, late, foreign, decided>>

\* _cache_violations, after the lock is released: the file is hashed as it is now.
Store(p) ==
  /\ At(p, "store")
  /\ cached' = [content |-> content,
                violations |-> {Finding(e) : e \in {f \in run[p].entries : f.outcome # "applied"}}]
  /\ Update(p, [run[p] EXCEPT !.pc = "done"])
  /\ UNCHANGED <<content, finds, lock, edits, late, foreign, decided, missed>>

\* The process is killed; fcntl drops its lock, a temporary file may stay behind.
Crash(p) ==
  /\ run[p].pc \notin {"done", "unprocessable", "crashed"}
  /\ lock' = IF lock = p THEN None ELSE lock
  /\ Update(p, [Fresh EXCEPT !.pc = "crashed"])
  /\ UNCHANGED <<content, finds, cached, edits, late, foreign, decided, missed>>

\* An editor, or another tool, writes the file.
Edit ==
  /\ edits < MaxEdits
  /\ \E c \in Contents \ {content} : content' = c
  /\ edits' = edits + 1
  /\ late' = [p \in Procs |-> TRUE]
  /\ foreign' = [p \in Procs |-> TRUE]
  /\ UNCHANGED <<finds, lock, run, cached, decided, missed>>

\* Every process is through.
Over ==
  /\ \A p \in Procs : run[p].pc \in {"done", "unprocessable", "crashed"}
  /\ UNCHANGED vars

Step(p) ==
  \/ Lock(p) \/ LockTimeout(p) \/ CheckFile(p)
  \/ Skip(p) \/ Select(p)
  \/ Fix(p) \/ FixNext(p) \/ FixedAll(p)
  \/ Compare(p) \/ Rename(p) \/ Verify(p)
  \/ Finish(p) \/ Store(p) \/ Crash(p)

Next == (\E p \in Procs : Step(p)) \/ Edit \/ Over

Spec == Init /\ [][Next]_vars

--------------------------------------------------------------------------------
(* Properties *)

Working == {"check", "select", "fix", "pick", "compare", "rename", "verify"}
PCs == Working \cup {"lock", "store", "done", "unprocessable", "crashed"}

Runs ==
  [pc : PCs, at : 1 .. Len(Order) + 1, base : Contents \cup {None}, fresh : SUBSET Keys,
   outcome : [Keys -> Outcomes], todo : SUBSET Keys, claim : SUBSET Keys,
   draft : Contents \cup {None}, raised : BOOLEAN, entries : SUBSET Entries,
   initial : SUBSET Findings, changed : BOOLEAN, external : BOOLEAN, failed : SUBSET Checks]

\* A check is at hand wherever one is used, a fix has its source, and a comparison or
\* a rename has a text to write and a text to compare with.
Ready(r) ==
  /\ r.pc \in {"lock", "check", "fix", "pick", "compare", "rename", "verify"} => r.at \in DOMAIN Order
  /\ r.pc \in {"fix", "compare", "rename"} => r.base \in Contents
  /\ r.pc \in {"compare", "rename"} => r.draft \in Contents

\* Every variable has its type, and no step uses a field of a process that an earlier
\* step has not set (the locals of _apply_fixes and atomic_write_text).
TypeOK ==
  /\ content \in Contents
  /\ finds \in Semantics
  /\ lock \in Procs \cup {None}
  /\ run \in [Procs -> {r \in Runs : Ready(r)}]
  /\ cached = None \/ cached \in [content : Contents, violations : SUBSET Findings]
  /\ edits \in 0 .. MaxEdits
  /\ late \in [Procs -> BOOLEAN]
  /\ foreign \in [Procs -> BOOLEAN]
  /\ decided \in [Procs -> SUBSET Entries]
  /\ missed \in [Procs -> SUBSET {"write", "fix", "end"}]

\* The fix lock: whoever is between reading the file and its last write is alone, so
\* that the comparison before a write only ever has to catch writers that do not take
\* the lock (locked(...) around _check_file_locked).
OneFixer == \A p \in Procs : run[p].pc \in Working <=> lock = p

\* A fixer's write replaces the text its fix was computed from, unless an editor
\* wrote in the instant between the comparison and the rename: fixes of other
\* processes, and edits made while a fix is computed, are never overwritten
\* (atomic_write_text under the fix lock).
ReplacesItsSource ==
  content' # content /\ edits' = edits =>
    \E p \in Procs : At(p, "rename") /\ (run[p].base = content \/ late[p])
NoLostEdit == [][ReplacesItsSource]_vars

\* The same without the exception: a file that was changed after it was read is never
\* overwritten.
ReplacesOnlyItsSource ==
  content' # content /\ edits' = edits =>
    \E p \in Procs : At(p, "rename") /\ run[p].base = content
NothingOverwritten == [][ReplacesOnlyItsSource]_vars

\* Only an editor makes a file Python parses into one it does not, whatever the
\* fixers propose (compile() in atomic_write_text).
Breaks == content \in Parsable /\ content' \in Broken => edits' = edits + 1
FixKeepsValid == [][Breaks]_vars

Finished(p) == run[p].pc \in {"store", "done"}

\* A rejected, errored, failed or aborted fix is in the final report as such: no
\* later fixer, refresh or attribution replaces it (_refresh_stale_positions).
TerminalKept == \A p \in Procs : Finished(p) => decided[p] \subseteq run[p].entries

\* What the engine cannot notice: a write of the run landed in a fix after which the
\* check could not be asked again, or found no fewer violations than before, and no
\* other fix of the run was noticed (file_changed in _apply_fixes).
Unnoticed(p) == "fix" \in missed[p] /\ ~ run[p].changed

\* What a run without failures lists as open is in the file it leaves behind, at the
\* place it says, unless the check has a terminal outcome, somebody else wrote the
\* file, the run's writes went unnoticed, or the last read of the file, of which no
\* failure is recorded, failed (_refresh_stale_positions).
OpenIsPresent ==
  \A p \in Procs :
    LET r == run[p]
    IN  Finished(p) /\ r.failed = {} /\ ~ foreign[p] /\ ~ Unnoticed(p) /\ "end" \notin missed[p] =>
          \A k \in Checks : ~ Settled(OfCheck(r.entries, k)) =>
            \A e \in OfCheck(r.entries, k) :
              e.outcome \in {"none", "declined"} => Finding(e) \in Report(k, content)

\* No violation the run started with drops out of the report: it is listed as fixed,
\* open, failed or resolved by another fix, unless somebody else wrote the file or the
\* run's writes went unnoticed (_record_indirect_resolutions).
NoneVanishes ==
  \A p \in Procs :
    LET r == run[p]
    IN  Finished(p) /\ r.failed = {} /\ ~ foreign[p] /\ ~ Unnoticed(p) =>
          \A k \in Checks : Cardinality(OfCheck(r.entries, k)) >= Cardinality(OfCheck(r.initial, k))

\* A result is stored for the content it is the result of: nothing is stored after a
\* fix that was noticed, and what a process stores while nobody else has written, and
\* unless its own write went unnoticed, is what all checks find in the file
\* (_check_and_cache, _cache_violations).
Stores(p) == At(p, "store") /\ run'[p].pc = "done"
StoresFresh ==
  \A p \in Procs : Stores(p) /\ ~ foreign[p] /\ ~ Unnoticed(p) =>
    cached'.violations = UNION {Report(k, cached'.content) : k \in Checks}
CachedIsFresh == [][StoresFresh]_vars

\* A run that noticed an external edit attributes no resolution to its own fixes
\* (externally_modified in _apply_fixes).  A fixer that writes once per violation
\* keeps what it noticed to itself: a run may go on and attribute after its abort.
AbortAttributesNothing ==
  \A p \in Procs : Finished(p) =>
    ~ \E e, f \in run[p].entries :
        e.outcome = "aborted" /\ e.check \notin Multi /\ f.outcome = "indirect"
================================================================================
