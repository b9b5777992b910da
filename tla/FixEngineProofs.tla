---------------------------- MODULE FixEngineProofs ----------------------------
(* Theorems of FixEngine, for every value of its constants. *)
EXTENDS FixEngine, FiniteSetTheorems, TLAPS

--------------------------------------------------------------------------------
(* The operators of the engine *)

\* What a check reports is a set of findings.
LEMMA ReportType ==
  ASSUME NEW k \in Checks, NEW c
  PROVE  Report(k, c) \in SUBSET Findings
<1>1. \A x \in Keys, b \in BOOLEAN : [check |-> k, key |-> x, fixable |-> b] \in Findings
  BY DEF Findings
<1>2. \A x \in Keys : (finds[k][c][x] = "fixable") \in BOOLEAN
  OBVIOUS
<1>3. QED
  BY <1>1, <1>2, Zenon DEF Report

\* A finding becomes an entry, and an entry is a finding.
LEMMA EntryType ==
  /\ \A f \in Findings, o \in Outcomes, i \in BOOLEAN : Entry(f, o, i) \in Entries
  /\ \A e \in Entries : Finding(e) \in Findings
BY DEF Entry, Finding, Findings, Entries

\* Replacing the fixable entries of a check yields entries.
LEMMA PlaceType ==
  ASSUME NEW es \in SUBSET Entries, NEW k \in Checks, NEW fresh \in SUBSET Keys,
         NEW outcome \in [Keys -> Outcomes]
  PROVE  Place(es, k, fresh, outcome) \in SUBSET Entries
<1>1. ASSUME NEW x \in fresh
      PROVE  [check |-> k, key |-> x, fixable |-> TRUE, outcome |-> outcome[x], initial |-> FALSE] \in Entries
  BY DEF Entries
<1>2. QED
  BY <1>1, Zenon DEF Place

\* Marking the fixable entries of a check as errored yields entries.
LEMMA ErroredType ==
  ASSUME NEW es \in SUBSET Entries, NEW k
  PROVE  Errored(es, k) \in SUBSET Entries
BY DEF Errored, OfCheck, Entries, Outcomes, Terminal

\* Refreshing entries yields entries.
LEMMA RefreshedType ==
  ASSUME NEW es \in SUBSET Entries, NEW ks \in SUBSET Checks, NEW c
  PROVE  Refreshed(es, ks, c) \in SUBSET Entries
<1>1. \A f \in UNION {Report(k, c) : k \in ks} : Entry(f, "none", FALSE) \in Entries
  BY ReportType, EntryType DEF Outcomes
<1>2. QED
  BY <1>1 DEF Refreshed

\* Resolutions are attributed to violations of the start.
LEMMA AttributionsType ==
  ASSUME NEW es, NEW initial \in SUBSET Findings, NEW S \in Attributions(es, initial)
  PROVE  S \in SUBSET Findings
BY DEF Attributions, Dropped

--------------------------------------------------------------------------------
(* Type correctness *)

Good == {r \in Runs : Ready(r)}

\* Moving to a control point that needs nothing set keeps a record good.
LEMMA IdleType ==
  ASSUME NEW r \in Runs, NEW to \in {"select", "check", "verify", "store", "done", "unprocessable", "crashed"},
         to \in {"check", "verify"} => r.at \in DOMAIN Order
  PROVE  [r EXCEPT !.pc = to] \in Good
<1> DEFINE s == [r EXCEPT !.pc = to]
<1>1. to \in PCs
  BY DEF PCs, Working
<1>2. s \in Runs /\ s.pc = to /\ s.at = r.at
  BY <1>1 DEF Runs
<1>3. s.pc \in {"check", "verify"} => s.at \in DOMAIN Order
  <2> HIDE DEF s
  <2> QED
    BY <1>2
<1>4. s.pc \notin {"lock", "fix", "pick", "compare", "rename"}
  <2> HIDE DEF s
  <2> QED
    BY <1>2
<1>5. Ready(s)
  <2> HIDE DEF s
  <2> QED
    BY <1>3, <1>4 DEF Ready
<1>6. QED
  BY <1>2, <1>5 DEF Good

\* Giving a process another good record keeps all of them good.
LEMMA UpdateType ==
  ASSUME NEW p \in Procs, NEW r \in Good, run \in [Procs -> Good], Update(p, r)
  PROVE  run' \in [Procs -> Good]
BY DEF Update

\* The loop goes on with a good record.
LEMMA NextCheckType ==
  ASSUME NEW r \in Runs, r.at \in DOMAIN Order
  PROVE  NextCheck(r) \in Good
<1>1. r.at + 1 \in 1 .. Len(Order) + 1
  BY FixConstants
<1>2. NoOutcome \in [Keys -> Outcomes]
  BY DEF NoOutcome, Outcomes
<1>3. NextCheck(r) \in Runs
  BY <1>1, <1>2 DEF NextCheck, Runs, PCs, Working
<1>4. NextCheck(r).pc = "select"
  BY DEF NextCheck, Runs
<1>5. QED
  BY <1>3, <1>4 DEF Good, Ready

\* Recording what became of a check, and going on to the next, keeps the types.
LEMMA RecordType ==
  ASSUME TypeOK, NEW p \in Procs, NEW r \in Runs, r.at \in DOMAIN Order,
         NEW es \in SUBSET Entries, Record(p, r, es)
  PROVE  run' \in [Procs -> Good] /\ decided' \in [Procs -> SUBSET Entries]
<1>1. [r EXCEPT !.entries = es] \in Runs /\ [r EXCEPT !.entries = es].at = r.at
  BY DEF Runs
<1>2. NextCheck([r EXCEPT !.entries = es]) \in Good
  BY <1>1, NextCheckType
<1>3. run' \in [Procs -> Good]
  BY <1>2, UpdateType DEF Record, TypeOK, Good
<1>4. decided' \in [Procs -> SUBSET Entries]
  BY DEF Record, TypeOK, OfCheck
<1>5. QED
  BY <1>3, <1>4

\* The same for a check whose violations are placed with their outcomes.
LEMMA PlaceFreshType ==
  ASSUME TypeOK, NEW p \in Procs, NEW r \in Runs, r.at \in DOMAIN Order,
         run[p].at \in DOMAIN Order, PlaceFresh(p, r)
  PROVE  run' \in [Procs -> Good] /\ decided' \in [Procs -> SUBSET Entries]
<1>1. Check(p) \in Checks
  BY DEF Check, Checks
<1>2. Place(r.entries, Check(p), r.fresh, r.outcome) \in SUBSET Entries
  BY <1>1, PlaceType DEF Runs
<1>3. QED
  BY <1>2, RecordType DEF PlaceFresh

\* After a write a good record has its scratch of the write cleared.
LEMMA AfterWriteType ==
  ASSUME TypeOK, NEW p \in Procs, NEW r \in Runs, r.at \in DOMAIN Order, AfterWrite(p, r)
  PROVE  run' \in [Procs -> Good]
<1> DEFINE to == IF Check(p) \in Multi THEN "pick" ELSE "verify"
           s == [r EXCEPT !.pc = to, !.claim = {}, !.draft = None]
<1>1. to \in {"pick", "verify"}
  OBVIOUS
<1>2. s \in Runs /\ s.pc = to /\ s.at = r.at
  BY <1>1 DEF Runs, PCs, Working
<1>3. s \in Good
  BY <1>1, <1>2 DEF Good, Ready
<1>4. QED
  BY <1>3, UpdateType DEF AfterWrite, TypeOK, Good

\* Leaving _check_file_locked keeps the types.
LEMMA LeaveType ==
  ASSUME TypeOK, NEW p \in Procs, NEW r \in Runs, Leave(p, r)
  PROVE  run' \in [Procs -> Good] /\ lock' \in Procs \cup {None}
<1> DEFINE to == IF Cacheable(r) THEN "store" ELSE "done"
           s == [r EXCEPT !.pc = to]
<1>1. to \in {"store", "done"}
  OBVIOUS
<1>2. s \in Runs /\ s.pc = to
  BY <1>1 DEF Runs, PCs, Working
<1>3. s \in Good
  BY <1>1, <1>2 DEF Good, Ready
<1>4. QED
  BY <1>3, UpdateType DEF Leave, TypeOK, Good

\* The names of the outcomes.
LEMMA OutcomeNames ==
  {"none", "applied", "declined", "indirect", "rejected", "errored", "failed", "aborted"} \subseteq Outcomes
BY DEF Outcomes, Terminal

\* Outcomes of the violations of one fix.
LEMMA OutcomeType ==
  /\ \A fresh : \A o \in Outcomes : All(fresh, o) \in [Keys -> Outcomes]
  /\ \A claim : \A o \in Outcomes, f \in [Keys -> Outcomes] : Some(f, claim, o) \in [Keys -> Outcomes]
  /\ NoOutcome \in [Keys -> Outcomes]
BY DEF All, Some, NoOutcome, Outcomes

\* Outcomes after verification.
LEMMA JudgedType ==
  ASSUME NEW r \in Runs, NEW still, NEW compared \in BOOLEAN
  PROVE  Judged(r, still, compared) \in [Keys -> Outcomes]
<1>1. \A x \in Keys : r.outcome[x] \in Outcomes
  BY DEF Runs
<1> DEFINE o(x) == IF compared THEN Marked(r.outcome[x], x \in still)
                                ELSE IF r.outcome[x] = "applied" THEN "declined" ELSE r.outcome[x]
           j(x) == IF x \notin r.fresh THEN "none" ELSE IF r.raised /\ x \in still THEN "errored" ELSE o(x)
<1>3. ASSUME NEW x \in Keys
      PROVE  o(x) \in Outcomes
  <2>1. Marked(r.outcome[x], x \in still) \in Outcomes
    BY <1>1 DEF Marked, Outcomes
  <2>2. (IF r.outcome[x] = "applied" THEN "declined" ELSE r.outcome[x]) \in Outcomes
    BY <1>1 DEF Outcomes
  <2>3. QED
    BY <2>1, <2>2
<1>4. ASSUME NEW x \in Keys
      PROVE  j(x) \in Outcomes
  <2> HIDE DEF o
  <2> QED
    BY <1>3 DEF Outcomes, Terminal
<1>5. Judged(r, still, compared) = [x \in Keys |-> j(x)]
  BY DEF Judged
<1>6. QED
  <2> HIDE DEF j
  <2> QED
    BY <1>4, <1>5

\* A process begins with all its locals.
LEMMA FreshType == Fresh \in Runs /\ Ready(Fresh)
<1> USE FixConstants
<1>1. Len(Order) \in Nat /\ 1 \in DOMAIN Order /\ 1 \in 1 .. Len(Order) + 1
  OBVIOUS
<1>2. Fresh \in Runs
  BY <1>1, OutcomeType DEF Fresh, Runs, PCs
<1>3. Ready(Fresh)
  BY <1>1 DEF Ready, Fresh
<1>4. QED
  BY <1>2, <1>3

\* What is known of p's writes once a fix is over: that of one nobody noticed, and nothing
\* of the other processes.
LEMMA ObservedFields ==
  ASSUME TypeOK, NEW p \in Procs, NEW noticed, Observed(p, noticed)
  PROVE  /\ missed' \in [Procs -> SUBSET {"write", "fix", "end"}]
         /\ \A q \in Procs \ {p} : missed'[q] = missed[q]
         /\ "fix" \in missed[p] => "fix" \in missed'[p]
         /\ "write" \in missed[p] /\ ~ noticed => "fix" \in missed'[p]
<1> DEFINE m == missed[p]
           n == IF "write" \in m THEN (m \ {"write"}) \cup (IF noticed THEN {} ELSE {"fix"}) ELSE m
<1>1. m \in SUBSET {"write", "fix", "end"}
  BY DEF TypeOK
<1>2. /\ n \in SUBSET {"write", "fix", "end"} /\ ("fix" \in m => "fix" \in n)
      /\ "write" \in m /\ ~ noticed => "fix" \in n
  BY <1>1
<1>3. missed' = [missed EXCEPT ![p] = n]
  BY DEF Observed
<1> HIDE DEF n
<1>4. QED
  BY <1>2, <1>3 DEF TypeOK

\* A rename that changes the file is on record.
LEMMA RenameMisses ==
  ASSUME TypeOK, NEW p \in Procs, Rename(p)
  PROVE  /\ missed' \in [Procs -> SUBSET {"write", "fix", "end"}]
         /\ \A q \in Procs \ {p} : missed'[q] = missed[q]
         /\ missed[p] \subseteq missed'[p] /\ (content' # content => "write" \in missed'[p])
<1> DEFINE m == missed[p]
           n == m \cup IF run[p].draft # content THEN {"write"} ELSE {}
<1>1. m \in SUBSET {"write", "fix", "end"}
  BY DEF TypeOK
<1>2. n \in SUBSET {"write", "fix", "end"} /\ m \subseteq n /\ (run[p].draft # content => "write" \in n)
  BY <1>1
<1>3. CASE missed' = missed /\ content' = content
  BY <1>3 DEF TypeOK
<1>4. CASE missed' = [missed EXCEPT ![p] = n] /\ content' = run[p].draft
  <2> HIDE DEF n
  <2> QED
    BY <1>2, <1>4 DEF TypeOK
<1>5. QED
  BY <1>3, <1>4 DEF Rename

\* One step keeps every variable in its type.
LEMMA TypeStep == TypeOK /\ [Next]_vars => TypeOK'
<1> SUFFICES ASSUME TypeOK, [Next]_vars
             PROVE  TypeOK'
  OBVIOUS
<1> USE FixConstants DEF Good
<1>0. ASSUME run' \in [Procs -> Good], content' \in Contents, finds' = finds, lock' \in Procs \cup {None},
             cached' = None \/ cached' \in [content : Contents, violations : SUBSET Findings],
             edits' \in 0 .. MaxEdits, late' \in [Procs -> BOOLEAN], foreign' \in [Procs -> BOOLEAN], decided' \in [Procs -> SUBSET Entries],
             missed' \in [Procs -> SUBSET {"write", "fix", "end"}]
      PROVE  TypeOK'
  BY <1>0 DEF TypeOK
<1>1. ASSUME NEW p \in Procs, Lock(p)
      PROVE  TypeOK'
  <2>1. [run[p] EXCEPT !.pc = "check"] \in Good
    <3>1. run[p] \in Runs /\ run[p].at \in DOMAIN Order
      BY <1>1 DEF TypeOK, Lock, At, Ready
    <3>2. QED
      BY <3>1, IdleType
  <2>2. run' \in [Procs -> Good]
    BY <1>1, <2>1, UpdateType DEF TypeOK, Lock
  <2>3. QED
    BY <1>1, <2>2, <1>0 DEF TypeOK, Lock
<1>2. ASSUME NEW p \in Procs, LockTimeout(p)
      PROVE  TypeOK'
  <2>1. [run[p] EXCEPT !.pc = "unprocessable"] \in Good
    <3>1. run[p] \in Runs
      BY <1>2 DEF TypeOK
    <3>2. QED
      BY <3>1, IdleType
  <2>2. run' \in [Procs -> Good]
    BY <1>2, <2>1, UpdateType DEF TypeOK, LockTimeout
  <2>3. QED
    BY <1>2, <2>2, <1>0 DEF TypeOK, LockTimeout
<1>3. ASSUME NEW p \in Procs, CheckFile(p)
      PROVE  TypeOK'
  <2>1. run[p] \in Good /\ run[p].pc = "check" /\ run[p].at \in DOMAIN Order
    BY <1>3 DEF TypeOK, CheckFile, At, Ready
  <2>2. CASE lock' = None /\ Update(p, [run[p] EXCEPT !.pc = "unprocessable"])
    <3>1. [run[p] EXCEPT !.pc = "unprocessable"] \in Good
      BY <2>1, ZenonT(40) DEF Ready, Runs, PCs, Working
    <3>2. run' \in [Procs -> Good]
      BY <2>2, <3>1, UpdateType DEF TypeOK
    <3>3. QED
      BY <1>3, <2>2, <3>2, <1>0 DEF TypeOK, CheckFile
  <2>3. ASSUME NEW bad \in Raising,
               LET found == UNION {Report(k, content) : k \in Checks \ bad}
                   r == [run[p] EXCEPT !.entries = {Entry(f, "none", TRUE) : f \in found},
                                       !.initial = found, !.failed = bad]
               IN  IF found = {} THEN Leave(p, r)
                                 ELSE Update(p, [r EXCEPT !.pc = "select"]) /\ UNCHANGED lock
        PROVE  TypeOK'
    <3> DEFINE found == UNION {Report(k, content) : k \in Checks \ bad}
               es == {Entry(f, "none", TRUE) : f \in found}
               r == [run[p] EXCEPT !.entries = es, !.initial = found, !.failed = bad]
    <3>1. found \in SUBSET Findings
      BY ReportType
    <3>2. es \in SUBSET Entries
      <4> HIDE DEF found
      <4>1. \A f \in found : Entry(f, "none", TRUE) \in Entries
        BY <3>1, EntryType, OutcomeNames
      <4>2. QED
        BY <4>1
    <3>3. bad \in SUBSET Checks
      BY <2>3 DEF Raising
    <3>4. r \in Runs
      <4> HIDE DEF found, es
      <4> QED
        BY <2>1, <3>1, <3>2, <3>3 DEF Runs
    <3>5. [r EXCEPT !.pc = "select"] \in Good
      <4> HIDE DEF r
      <4> QED
        BY <3>4, ZenonT(40) DEF Ready, Runs, PCs, Working
    <3>6. CASE found = {}
      <4>1. Leave(p, r)
        BY <2>3, <3>6
      <4>2. run' \in [Procs -> Good] /\ lock' \in Procs \cup {None}
        <5> HIDE DEF r
        <5> QED
          BY <4>1, <3>4, LeaveType
      <4>3. QED
        BY <1>3, <4>2, <1>0 DEF TypeOK, CheckFile
    <3>7. CASE found # {}
      <4>1. Update(p, [r EXCEPT !.pc = "select"]) /\ UNCHANGED lock
        BY <2>3, <3>7
      <4>2. run' \in [Procs -> Good]
        <5> HIDE DEF r
        <5> QED
          BY <4>1, <3>5, UpdateType DEF TypeOK
      <4>3. QED
        BY <1>3, <4>1, <4>2, <1>0 DEF TypeOK, CheckFile
    <3>8. QED
      BY <3>6, <3>7
  <2>4. QED
    BY <1>3, <2>2, <2>3 DEF CheckFile
<1>4. ASSUME NEW p \in Procs, Skip(p)
      PROVE  TypeOK'
  <2>1. run[p] \in Runs /\ run[p].at \in DOMAIN Order
    BY <1>4 DEF TypeOK, Skip, Runs
  <2>2. run' \in [Procs -> Good]
    BY <1>4, <2>1, NextCheckType, UpdateType DEF TypeOK, Skip
  <2>3. QED
    BY <1>4, <2>2, <1>0 DEF TypeOK, Skip
<1>5. ASSUME NEW p \in Procs, Select(p)
      PROVE  TypeOK'
  <2> DEFINE r == run[p]
             k == Check(p)
             s == [r EXCEPT !.pc = IF k \in Multi THEN "pick" ELSE "fix", !.base = content,
                            !.fresh = Fixables(k, content), !.todo = Fixables(k, content)]
  <2>1. r \in Runs /\ r.at \in DOMAIN Order
    BY <1>5 DEF TypeOK, Select, Runs
  <2>2. k \in Checks
    BY <2>1 DEF Check, Checks
  <2>3. CASE Record(p, [r EXCEPT !.failed = @ \cup {k}], Errored(r.entries, k))
    <3>1. [r EXCEPT !.failed = @ \cup {k}] \in Runs /\ [r EXCEPT !.failed = @ \cup {k}].at = r.at
      <4> HIDE DEF k
      <4> QED
        BY <2>1, <2>2 DEF Runs
    <3>2. Errored(r.entries, k) \in SUBSET Entries
      BY <2>1, ErroredType DEF Runs
    <3>3. run' \in [Procs -> Good] /\ decided' \in [Procs -> SUBSET Entries]
      BY <2>1, <2>3, <3>1, <3>2, RecordType
    <3>4. QED
      BY <1>5, <3>3, <1>0 DEF TypeOK, Select
  <2>4. CASE Update(p, NextCheck(r)) /\ UNCHANGED decided
    <3>1. run' \in [Procs -> Good]
      BY <2>1, <2>4, NextCheckType, UpdateType DEF TypeOK
    <3>2. QED
      BY <1>5, <2>4, <3>1, <1>0 DEF TypeOK, Select
  <2>5. CASE Update(p, s) /\ UNCHANGED decided
    <3>1. Fixables(k, content) \in SUBSET Keys
      BY DEF Fixables
    <3>2. (IF k \in Multi THEN "pick" ELSE "fix") \in {"pick", "fix"}
      OBVIOUS
    <3>3. s \in Runs /\ s.at = r.at /\ s.pc \in {"pick", "fix"} /\ s.base \in Contents
      <4> DEFINE to == IF k \in Multi THEN "pick" ELSE "fix"
                 ks == Fixables(k, content)
      <4>1. to \in {"pick", "fix"} /\ to \in PCs
        BY <3>2 DEF PCs, Working
      <4>2. ks \in SUBSET Keys /\ content \in Contents
        BY <3>1 DEF TypeOK
      <4>3. s = [r EXCEPT !.pc = to, !.base = content, !.fresh = ks, !.todo = ks]
        OBVIOUS
      <4> HIDE DEF r, s, to, ks
      <4> QED
        BY <2>1, <4>1, <4>2, <4>3 DEF Runs
    <3>4. s \in Good
      <4> HIDE DEF s
      <4> QED
        BY <2>1, <3>3 DEF Ready
    <3>5. run' \in [Procs -> Good]
      BY <2>5, <3>4, UpdateType DEF TypeOK
    <3>6. QED
      BY <1>5, <2>5, <3>5, <1>0 DEF TypeOK, Select
  <2>6. QED
    BY <1>5, <2>3, <2>4, <2>5 DEF Select
<1>6. ASSUME NEW p \in Procs, Fix(p)
      PROVE  TypeOK'
  <2> DEFINE r == run[p]
  <2>1. r \in Runs /\ r.at \in DOMAIN Order
    BY <1>6 DEF TypeOK, Fix, At, Ready
  <2>2. CASE Update(p, [r EXCEPT !.pc = "verify", !.outcome = All(r.fresh, "declined")]) /\ UNCHANGED decided
    <3>1. All(r.fresh, "declined") \in [Keys -> Outcomes]
      BY OutcomeType, OutcomeNames
    <3>2. [r EXCEPT !.pc = "verify", !.outcome = All(r.fresh, "declined")] \in Good
      BY <2>1, <3>1, ZenonT(40) DEF Ready, Runs, PCs, Working
    <3>3. run' \in [Procs -> Good]
      BY <2>2, <3>2, UpdateType DEF TypeOK
    <3>4. QED
      BY <1>6, <2>2, <3>3, <1>0 DEF TypeOK, Fix
  <2>3. CASE Update(p, [r EXCEPT !.pc = "verify", !.raised = TRUE]) /\ UNCHANGED decided
    <3>1. [r EXCEPT !.pc = "verify", !.raised = TRUE] \in Good
      BY <2>1, ZenonT(40) DEF Ready, Runs, PCs, Working
    <3>2. run' \in [Procs -> Good]
      BY <2>3, <3>1, UpdateType DEF TypeOK
    <3>3. QED
      BY <1>6, <2>3, <3>2, <1>0 DEF TypeOK, Fix
  <2>4. CASE PlaceFresh(p, [r EXCEPT !.outcome = All(r.fresh, "rejected")])
    <3>1. All(r.fresh, "rejected") \in [Keys -> Outcomes]
      BY OutcomeType, OutcomeNames
    <3>2. [r EXCEPT !.outcome = All(r.fresh, "rejected")] \in Runs
          /\ [r EXCEPT !.outcome = All(r.fresh, "rejected")].at = r.at
      BY <2>1, <3>1 DEF Runs
    <3>3. run' \in [Procs -> Good] /\ decided' \in [Procs -> SUBSET Entries]
      BY <2>1, <2>4, <3>2, PlaceFreshType
    <3>4. QED
      BY <1>6, <3>3, <1>0 DEF TypeOK, Fix
  <2>5. ASSUME NEW d \in Contents, NEW S \in (SUBSET r.fresh) \ {{}},
               Update(p, [r EXCEPT !.pc = "compare", !.draft = d, !.claim = S,
                                   !.outcome = All(r.fresh, "declined")]),
               UNCHANGED decided
        PROVE  TypeOK'
    <3> DEFINE s == [r EXCEPT !.pc = "compare", !.draft = d, !.claim = S, !.outcome = All(r.fresh, "declined")]
    <3>1. All(r.fresh, "declined") \in [Keys -> Outcomes]
      BY OutcomeType, OutcomeNames
    <3>2. d \in Contents
      OBVIOUS
    <3>3. S \in SUBSET Keys
      BY <2>1 DEF Runs
    <3>4. r.base \in Contents
      <4>1. r.pc = "fix"
        BY <1>6 DEF Fix, At
      <4>2. QED
        BY <4>1 DEF TypeOK, Ready
    <3>5. s \in Runs /\ s.at = r.at /\ s.draft = d /\ s.base = r.base /\ s.pc = "compare"
      BY <2>1, <3>1, <3>2, <3>3 DEF Runs, PCs, Working
    <3>6. s \in Good
      <4> HIDE DEF s
      <4> QED
        BY <2>1, <3>2, <3>4, <3>5 DEF Ready
    <3>7. run' \in [Procs -> Good]
      BY <2>5, <3>6, UpdateType DEF TypeOK
    <3>8. QED
      BY <1>6, <2>5, <3>7, <1>0 DEF TypeOK, Fix
  <2>6. QED
    BY <1>6, <2>2, <2>3, <2>4, <2>5 DEF Fix
<1>7. ASSUME NEW p \in Procs, FixNext(p)
      PROVE  TypeOK'
  <2> DEFINE r == run[p]
  <2>1. r \in Runs /\ r.at \in DOMAIN Order /\ r.pc = "pick"
    BY <1>7 DEF TypeOK, FixNext, At, Ready
  <2>2. run' \in [Procs -> Good]
    <3>1. CASE Update(p, [r EXCEPT !.pc = "verify", !.raised = TRUE, !.outcome = NoOutcome, !.todo = {}])
      <4>1. [r EXCEPT !.pc = "verify", !.raised = TRUE, !.outcome = NoOutcome, !.todo = {}] \in Good
        BY <2>1, OutcomeType, ZenonT(40) DEF Ready, Runs, PCs, Working
      <4>2. QED
        BY <3>1, <4>1, UpdateType DEF TypeOK
    <3>2. ASSUME NEW x \in r.todo, NEW o \in Outcomes,
                 Update(p, [[r EXCEPT !.todo = @ \ {x}] EXCEPT !.outcome[x] = o])
          PROVE  run' \in [Procs -> Good]
      <4> DEFINE s == [[r EXCEPT !.todo = @ \ {x}] EXCEPT !.outcome[x] = o]
      <4>3. [r.outcome EXCEPT ![x] = o] \in [Keys -> Outcomes]
        BY <2>1 DEF Runs
      <4>4. s \in Runs /\ s.pc = r.pc /\ s.at = r.at
        <5>1. s = [r EXCEPT !.todo = r.todo \ {x}, !.outcome = [r.outcome EXCEPT ![x] = o]]
          BY <2>1 DEF Runs
        <5> DEFINE f == [r.outcome EXCEPT ![x] = o]
                   rest == r.todo \ {x}
        <5>2. f \in [Keys -> Outcomes] /\ rest \in SUBSET Keys
          BY <2>1, <4>3 DEF Runs
        <5>3. s = [r EXCEPT !.todo = rest, !.outcome = f]
          BY <5>1
        <5> HIDE DEF s, f, rest
        <5>4. QED
          BY <2>1, <5>2, <5>3 DEF Runs
      <4>1. s \in Good
        <5> HIDE DEF s
        <5> QED
          BY <2>1, <4>4 DEF Ready
      <4>2. QED
        BY <3>2, <4>1, UpdateType DEF TypeOK
    <3>3. ASSUME NEW x \in r.todo, NEW d \in Contents,
                 Update(p, [[r EXCEPT !.todo = @ \ {x}] EXCEPT !.pc = "compare", !.base = content,
                                                               !.draft = d, !.claim = {x}])
          PROVE  run' \in [Procs -> Good]
      <4> DEFINE s == [[r EXCEPT !.todo = @ \ {x}] EXCEPT !.pc = "compare", !.base = content,
                                                          !.draft = d, !.claim = {x}]
      <4>1. d \in Contents /\ content \in Contents /\ x \in Keys
        BY <2>1 DEF TypeOK, Runs
      <4>2. s \in Runs /\ s.at = r.at /\ s.draft = d /\ s.base = content
        BY <2>1, <4>1 DEF Runs, PCs, Working
      <4>3. s \in Good
        <5> HIDE DEF s
        <5> QED
          BY <2>1, <4>1, <4>2 DEF Ready
      <4>4. QED
        BY <3>3, <4>3, UpdateType DEF TypeOK
    <3>4. {"failed", "declined", "errored", "rejected"} \subseteq Outcomes
      BY DEF Outcomes, Terminal
    <3>5. QED
      BY <1>7, <3>1, <3>2, <3>3, <3>4 DEF FixNext
  <2>3. QED
    BY <1>7, <2>2, <1>0 DEF TypeOK, FixNext
<1>8. ASSUME NEW p \in Procs, FixedAll(p)
      PROVE  TypeOK'
  <2>1. [run[p] EXCEPT !.pc = "verify"] \in Good
    <3>1. run[p] \in Runs /\ run[p].at \in DOMAIN Order
      BY <1>8 DEF TypeOK, FixedAll, At, Ready
    <3>2. QED
      BY <3>1, IdleType
  <2>2. run' \in [Procs -> Good]
    BY <1>8, <2>1, UpdateType DEF TypeOK, FixedAll
  <2>3. QED
    BY <1>8, <2>2, <1>0 DEF TypeOK, FixedAll
<1>9. ASSUME NEW p \in Procs, Compare(p)
      PROVE  TypeOK'
  <2> DEFINE r == run[p]
  <2>1. r \in Runs /\ r.at \in DOMAIN Order /\ r.draft \in Contents /\ r.base \in Contents
    BY <1>9 DEF TypeOK, Compare, At, Ready
  <2>2. CASE Update(p, [r EXCEPT !.pc = "rename"]) /\ UNCHANGED decided /\ late' = [late EXCEPT ![p] = FALSE]
    <3>1. [r EXCEPT !.pc = "rename"] \in Good
      BY <2>1, ZenonT(40) DEF Ready, Runs, PCs, Working
    <3>2. run' \in [Procs -> Good] /\ late' \in [Procs -> BOOLEAN]
      BY <2>2, <3>1, UpdateType DEF TypeOK
    <3>3. QED
      BY <1>9, <2>2, <3>2, <1>0 DEF TypeOK, Compare
  <2>3. ASSUME NEW o \in {"failed", "aborted"}, UNCHANGED <<late, decided>>,
               AfterWrite(p, [r EXCEPT !.outcome = Some(@, r.claim, o)])
        PROVE  TypeOK'
    <3>1. Some(r.outcome, r.claim, o) \in [Keys -> Outcomes]
      BY <2>1, OutcomeType, OutcomeNames DEF Runs
    <3>2. [r EXCEPT !.outcome = Some(@, r.claim, o)] \in Runs
          /\ [r EXCEPT !.outcome = Some(@, r.claim, o)].at = r.at
      BY <2>1, <3>1 DEF Runs
    <3>3. run' \in [Procs -> Good]
      BY <2>1, <2>3, <3>2, AfterWriteType
    <3>4. QED
      BY <1>9, <2>3, <3>3, <1>0 DEF TypeOK, Compare
  <2>4. CASE PlaceFresh(p, [r EXCEPT !.outcome = All(r.fresh, "aborted"), !.changed = TRUE, !.external = TRUE])
             /\ UNCHANGED late
    <3> DEFINE s == [r EXCEPT !.outcome = All(r.fresh, "aborted"), !.changed = TRUE, !.external = TRUE]
    <3>1. All(r.fresh, "aborted") \in [Keys -> Outcomes]
      BY OutcomeType, OutcomeNames
    <3>2. s \in Runs /\ s.at = r.at
      BY <2>1, <3>1 DEF Runs
    <3>3. run' \in [Procs -> Good] /\ decided' \in [Procs -> SUBSET Entries]
      BY <2>1, <2>4, <3>2, PlaceFreshType
    <3>4. QED
      BY <1>9, <2>4, <3>3, <1>0 DEF TypeOK, Compare
  <2>5. QED
    BY <1>9, <2>2, <2>3, <2>4 DEF Compare
<1>10. ASSUME NEW p \in Procs, Rename(p)
       PROVE  TypeOK'
  <2> DEFINE r == run[p]
  <2>1. r \in Runs /\ r.at \in DOMAIN Order /\ r.draft \in Contents
    BY <1>10 DEF TypeOK, Rename, At, Ready
  <2>2. content' \in Contents
    BY <1>10, <2>1 DEF Rename, TypeOK
  <2>3. PICK o \in {"applied", "failed"} : AfterWrite(p, [r EXCEPT !.outcome = Some(@, r.claim, o)])
    BY <1>10 DEF Rename
  <2>4. Some(r.outcome, r.claim, o) \in [Keys -> Outcomes]
    BY <2>1, OutcomeType, OutcomeNames DEF Runs
  <2>5. [r EXCEPT !.outcome = Some(@, r.claim, o)] \in Runs
        /\ [r EXCEPT !.outcome = Some(@, r.claim, o)].at = r.at
    BY <2>1, <2>4 DEF Runs
  <2>6. run' \in [Procs -> Good]
    BY <2>1, <2>3, <2>5, AfterWriteType
  <2>7. QED
    <3>1. missed' \in [Procs -> SUBSET {"write", "fix", "end"}]
      BY <1>10, RenameMisses
    <3>2. foreign' \in [Procs -> BOOLEAN]
      BY <1>10 DEF TypeOK, Rename
    <3>3. /\ finds' = finds /\ lock' = lock /\ cached' = cached /\ edits' = edits
          /\ late' = late /\ decided' = decided
      BY <1>10 DEF Rename
    <3>4. QED
      BY <2>2, <2>6, <3>1, <3>2, <3>3, <1>0 DEF TypeOK
<1>11. ASSUME NEW p \in Procs, Verify(p)
       PROVE  TypeOK'
  <2> DEFINE r == run[p]
             k == Check(p)
             bad == IF r.raised THEN {k} ELSE {}
  <2>0. missed' \in [Procs -> SUBSET {"write", "fix", "end"}]
    BY <1>11, ObservedFields DEF Verify
  <2>1. r \in Runs /\ r.at \in DOMAIN Order
    BY <1>11 DEF TypeOK, Verify, At, Ready
  <2>2. k \in Checks
    BY <2>1 DEF Check, Checks
  <2>3. r.failed \cup bad \in SUBSET Checks
    <3> HIDE DEF k
    <3> QED
      BY <2>1, <2>2 DEF Runs
  <2>4. CASE PlaceFresh(p, [r EXCEPT !.outcome = Judged(r, r.fresh, FALSE), !.failed = @ \cup bad])
    <3> DEFINE s == [r EXCEPT !.outcome = Judged(r, r.fresh, FALSE), !.failed = @ \cup bad]
    <3>1. s \in Runs /\ s.at = r.at
      <4> HIDE DEF bad
      <4> QED
        BY <2>1, <2>3, JudgedType DEF Runs
    <3>2. run' \in [Procs -> Good] /\ decided' \in [Procs -> SUBSET Entries]
      BY <2>1, <2>4, <3>1, PlaceFreshType
    <3>3. QED
      BY <1>11, <2>0, <3>2, <1>0 DEF TypeOK, Verify
  <2>5. CASE PlaceFresh(p, [r EXCEPT !.outcome = Judged(r, Fixables(k, content), TRUE), !.failed = @ \cup bad,
                                     !.changed = @ \/ Cardinality(Fixables(k, content)) < Cardinality(r.fresh)])
    <3> DEFINE still == Fixables(k, content)
               s == [r EXCEPT !.outcome = Judged(r, still, TRUE), !.failed = @ \cup bad,
                              !.changed = @ \/ Cardinality(still) < Cardinality(r.fresh)]
    <3>1. (r.changed \/ Cardinality(still) < Cardinality(r.fresh)) \in BOOLEAN
      OBVIOUS
    <3>2. s \in Runs /\ s.at = r.at
      <4> HIDE DEF bad, still
      <4> QED
        BY <2>1, <2>3, <3>1, JudgedType, ZenonT(40) DEF Runs
    <3>3. run' \in [Procs -> Good] /\ decided' \in [Procs -> SUBSET Entries]
      BY <2>1, <2>5, <3>2, PlaceFreshType
    <3>4. QED
      BY <1>11, <2>0, <3>3, <1>0 DEF TypeOK, Verify
  <2>6. CASE Record(p, [r EXCEPT !.failed = @ \cup {k}], Errored(r.entries, k))
    <3>1. [r EXCEPT !.failed = @ \cup {k}] \in Runs /\ [r EXCEPT !.failed = @ \cup {k}].at = r.at
      <4> HIDE DEF k
      <4> QED
        BY <2>1, <2>2 DEF Runs
    <3>2. Errored(r.entries, k) \in SUBSET Entries
      BY <2>1, ErroredType DEF Runs
    <3>3. run' \in [Procs -> Good] /\ decided' \in [Procs -> SUBSET Entries]
      BY <2>1, <2>6, <3>1, <3>2, RecordType
    <3>4. QED
      BY <1>11, <2>0, <3>3, <1>0 DEF TypeOK, Verify
  <2>7. QED
    BY <1>11, <2>4, <2>5, <2>6 DEF Verify
<1>12. ASSUME NEW p \in Procs, Finish(p)
       PROVE  TypeOK'
  <2> DEFINE r == run[p]
  <2>1. r \in Runs
    BY <1>12 DEF TypeOK
  <2>2. PICK bad \in Raising, reread \in BOOLEAN :
          LET ks == IF reread THEN Stale(r.entries) ELSE {}
              now == IF reread THEN Refreshed(r.entries, ks \ bad, content) ELSE r.entries
              lost == IF Attributes(r) THEN Attributions(now, r.initial) ELSE {{}}
          IN  /\ \E S \in lost :
                   Leave(p, [r EXCEPT !.entries = now \cup {Entry(f, "indirect", TRUE) : f \in S},
                                      !.failed = @ \cup (bad \cap ks)])
              /\ missed' = IF r.changed /\ ~ reread THEN [missed EXCEPT ![p] = @ \cup {"end"}] ELSE missed
    BY <1>12 DEF Finish
  <2> DEFINE ks == IF reread THEN Stale(r.entries) ELSE {}
             now == IF reread THEN Refreshed(r.entries, ks \ bad, content) ELSE r.entries
             lost == IF Attributes(r) THEN Attributions(now, r.initial) ELSE {{}}
  <2>3. PICK S \in lost : Leave(p, [r EXCEPT !.entries = now \cup {Entry(f, "indirect", TRUE) : f \in S},
                                             !.failed = @ \cup (bad \cap ks)])
    BY <2>2
  <2>4. ks \in SUBSET Checks
    BY DEF Stale
  <2>5. now \in SUBSET Entries
    <3>1. ks \ bad \in SUBSET Checks
      BY <2>4
    <3> HIDE DEF ks
    <3>2. Refreshed(r.entries, ks \ bad, content) \in SUBSET Entries
      BY <2>1, <3>1, RefreshedType DEF Runs
    <3>3. QED
      BY <2>1, <3>2 DEF Runs
  <2>6. S \in SUBSET Findings
    <3>1. r.initial \in SUBSET Findings
      BY <2>1 DEF Runs
    <3> HIDE DEF now
    <3>2. CASE Attributes(r)
      BY <3>1, <3>2, AttributionsType
    <3>3. CASE ~ Attributes(r)
      BY <3>3
    <3>4. QED
      BY <3>2, <3>3
  <2> DEFINE added == {Entry(f, "indirect", TRUE) : f \in S}
             s == [r EXCEPT !.entries = now \cup added, !.failed = @ \cup (bad \cap ks)]
  <2>7. added \in SUBSET Entries
    <3>1. \A f \in S : Entry(f, "indirect", TRUE) \in Entries
      BY <2>6, EntryType, OutcomeNames
    <3>2. QED
      BY <3>1
  <2>8. s \in Runs
    <3> HIDE DEF now, ks, added
    <3> QED
      BY <2>1, <2>4, <2>5, <2>7 DEF Runs
  <2>9. Leave(p, s)
    BY <2>3
  <2>10. run' \in [Procs -> Good] /\ lock' \in Procs \cup {None}
    <3> HIDE DEF s
    <3> QED
      BY <2>8, <2>9, LeaveType
  <2>11. missed' \in [Procs -> SUBSET {"write", "fix", "end"}]
    BY <2>2 DEF TypeOK
  <2>12. QED
    BY <1>12, <2>10, <2>11, <1>0 DEF TypeOK, Finish
<1>13. ASSUME NEW p \in Procs, Store(p)
       PROVE  TypeOK'
  <2> DEFINE kept == {f \in run[p].entries : f.outcome # "applied"}
             found == {Finding(e) : e \in kept}
  <2>1. [run[p] EXCEPT !.pc = "done"] \in Good
    <3>1. run[p] \in Runs
      BY <1>13 DEF TypeOK
    <3>2. QED
      BY <3>1, IdleType
  <2>2. run' \in [Procs -> Good]
    BY <1>13, <2>1, UpdateType DEF TypeOK, Store
  <2>3. kept \in SUBSET Entries
    BY DEF TypeOK, Runs
  <2>4. found \in SUBSET Findings
    BY <2>3, EntryType
  <2>5. cached' \in [content : Contents, violations : SUBSET Findings]
    <3> HIDE DEF found
    <3>1. cached' = [content |-> content, violations |-> found]
      BY <1>13 DEF Store, found
    <3>2. QED
      BY <2>4, <3>1 DEF TypeOK
  <2>6. QED
    BY <1>13, <2>2, <2>5, <1>0 DEF TypeOK, Store
<1>14. ASSUME NEW p \in Procs, Crash(p)
       PROVE  TypeOK'
  <2>1. [Fresh EXCEPT !.pc = "crashed"] \in Good
    BY FreshType, IdleType
  <2>2. run' \in [Procs -> Good]
    BY <1>14, <2>1, UpdateType DEF TypeOK, Crash
  <2>3. QED
    BY <1>14, <2>2, <1>0 DEF TypeOK, Crash
<1>15. ASSUME Edit
       PROVE  TypeOK'
  BY <1>15 DEF TypeOK, Edit
<1>16. ASSUME UNCHANGED vars
       PROVE  TypeOK'
  BY <1>16 DEF TypeOK, vars
<1>17. QED
  BY <1>1, <1>2, <1>3, <1>4, <1>5, <1>6, <1>7, <1>8, <1>9, <1>10, <1>11, <1>12, <1>13, <1>14, <1>15, <1>16
  DEF Next, Step, Over

\* The types hold at the start.
LEMMA TypeInit == Init => TypeOK
<1> SUFFICES ASSUME Init
             PROVE  TypeOK
  OBVIOUS
<1> QED
  BY FreshType, FixConstants DEF Init, TypeOK, Contents

\* Every variable keeps its type, and every step finds what it needs in the locals of
\* its process, for any number of processes, checks, violations and contents.
THEOREM TypeCorrect == Spec => []TypeOK
BY TypeInit, TypeStep, PTL DEF Spec

--------------------------------------------------------------------------------
(* What a step does to the lock, the file and the other processes *)

\* p takes the lock,
Enters(p) == lock = None /\ lock' = p /\ run'[p].pc = "check"

\* p works on or stays out, and the lock is as it was,
Stays(p) == lock' = lock /\ (run[p].pc \in Working <=> run'[p].pc \in Working)

\* p stops working, and the lock is not its own any more.
Leaves(p) == lock' = (IF lock = p THEN None ELSE lock) /\ run'[p].pc \notin Working

\* The other processes are where they were.
Alone(p) == \A q \in Procs \ {p} : run'[q] = run[q] /\ late'[q] = late[q]

\* The file changes by a rename only, a rename comes after a comparison that found the
\* source unchanged, and what is compared was compiled.
Writes(p) ==
  /\ content' # content => run[p].pc = "rename" /\ content' = run[p].draft
  /\ run'[p].pc = "rename" => /\ content' = content /\ run'[p].base = content
                              /\ run[p].pc = "compare" /\ run'[p].draft = run[p].draft
  /\ run'[p].pc = "compare" => run'[p].draft \in Parsable

\* An updated process has the new record, the others keep theirs.
LEMMA UpdateMoves ==
  ASSUME TypeOK, NEW p \in Procs, NEW r, Update(p, r)
  PROVE  run'[p] = r /\ \A q \in Procs \ {p} : run'[q] = run[q]
BY DEF Update, TypeOK

\* Recording an outcome leads to the next check.
LEMMA RecordMoves ==
  ASSUME TypeOK, NEW p \in Procs, NEW r, "pc" \in DOMAIN r, NEW es, Record(p, r, es)
  PROVE  run'[p].pc = "select" /\ \A q \in Procs \ {p} : run'[q] = run[q]
<1> DEFINE s == NextCheck([r EXCEPT !.entries = es])
<1>1. "pc" \in DOMAIN [r EXCEPT !.entries = es]
  OBVIOUS
<1>2. s.pc = "select"
  BY <1>1 DEF NextCheck
<1>3. Update(p, s)
  BY DEF Record
<1>4. QED
  <2> HIDE DEF s
  <2> QED
    BY <1>2, <1>3, UpdateMoves

\* So does placing the outcomes of a fix.
LEMMA PlaceMoves ==
  ASSUME TypeOK, NEW p \in Procs, NEW r, "pc" \in DOMAIN r, PlaceFresh(p, r)
  PROVE  run'[p].pc = "select" /\ \A q \in Procs \ {p} : run'[q] = run[q]
BY RecordMoves DEF PlaceFresh

\* A write leads to the next violation or to the verification.
LEMMA AfterWriteMoves ==
  ASSUME TypeOK, NEW p \in Procs, NEW r, "pc" \in DOMAIN r, AfterWrite(p, r)
  PROVE  run'[p].pc \in {"pick", "verify"} /\ \A q \in Procs \ {p} : run'[q] = run[q]
<1> DEFINE to == IF Check(p) \in Multi THEN "pick" ELSE "verify"
           s == [r EXCEPT !.pc = to, !.claim = {}, !.draft = None]
<1>1. to \in {"pick", "verify"}
  OBVIOUS
<1>2. s.pc = to
  <2> HIDE DEF to
  <2> QED
    OBVIOUS
<1>3. Update(p, s)
  BY DEF AfterWrite
<1>4. QED
  <2> HIDE DEF s, to
  <2> QED
    BY <1>1, <1>2, <1>3, UpdateMoves

\* Leaving leads to the store or the end, and frees the lock.
LEMMA LeaveMoves ==
  ASSUME TypeOK, NEW p \in Procs, NEW r, "pc" \in DOMAIN r, Leave(p, r)
  PROVE  /\ run'[p].pc \in {"store", "done"} /\ lock' = None
         /\ \A q \in Procs \ {p} : run'[q] = run[q]
<1> DEFINE to == IF Cacheable(r) THEN "store" ELSE "done"
           s == [r EXCEPT !.pc = to]
<1>1. to \in {"store", "done"}
  OBVIOUS
<1>2. s.pc = to
  <2> HIDE DEF to
  <2> QED
    OBVIOUS
<1>3. Update(p, s) /\ lock' = None
  BY DEF Leave
<1>4. QED
  <2> HIDE DEF s, to
  <2> QED
    BY <1>1, <1>2, <1>3, UpdateMoves

\* A step that writes nothing, and leaves no text to write, has nothing to answer for.
LEMMA Quiet ==
  ASSUME NEW p \in Procs, content' = content, late' = late, run'[p].pc \notin {"compare", "rename"},
         \A q \in Procs \ {p} : run'[q] = run[q]
  PROVE  Alone(p) /\ Writes(p)
BY DEF Alone, Writes

\* What each step does.
LEMMA StepEffect ==
  ASSUME TypeOK, OneFixer, NEW p \in Procs, Step(p)
  PROVE  (Enters(p) \/ Stays(p) \/ Leaves(p)) /\ Alone(p) /\ Writes(p)
<1> DEFINE r == run[p]
<1>0. r \in Runs /\ "pc" \in DOMAIN r /\ (r.pc \in Working <=> lock = p)
  BY DEF TypeOK, Runs, OneFixer
<1>1. CASE Lock(p)
  <2>1. run'[p].pc = "check" /\ \A q \in Procs \ {p} : run'[q] = run[q]
    BY <1>0, <1>1, UpdateMoves DEF Lock
  <2>2. QED
    BY <1>1, <2>1, Quiet DEF Lock, Free, Enters
<1>2. CASE LockTimeout(p)
  <2>1. run'[p].pc = "unprocessable" /\ \A q \in Procs \ {p} : run'[q] = run[q]
    BY <1>0, <1>2, UpdateMoves DEF LockTimeout
  <2>2. QED
    BY <1>2, <2>1, Quiet DEF LockTimeout, At, Stays, Working
<1>3. CASE CheckFile(p)
  <2> DEFINE moved == \A q \in Procs \ {p} : run'[q] = run[q]
  <2>0. r.pc = "check" /\ content' = content /\ late' = late
    BY <1>3 DEF CheckFile, At
  <2>1. CASE lock' = None /\ Update(p, [r EXCEPT !.pc = "unprocessable"])
    <3>1. run'[p].pc = "unprocessable" /\ moved
      BY <1>0, <2>1, UpdateMoves
    <3>2. QED
      BY <1>0, <2>0, <2>1, <3>1, Quiet DEF Leaves, Working
  <2>2. ASSUME NEW es, NEW found, NEW bad,
               Leave(p, [r EXCEPT !.entries = es, !.initial = found, !.failed = bad])
        PROVE  Leaves(p) /\ Alone(p) /\ Writes(p)
    <3> DEFINE s == [r EXCEPT !.entries = es, !.initial = found, !.failed = bad]
    <3>1. "pc" \in DOMAIN s /\ Leave(p, s)
      BY <1>0, <2>2
    <3>3. run'[p].pc \in {"store", "done"} /\ lock' = None /\ moved
      <4> HIDE DEF s
      <4> QED
        BY <3>1, LeaveMoves
    <3>2. QED
      BY <1>0, <2>0, <3>3, Quiet DEF Leaves, Working
  <2>3. ASSUME NEW es, NEW found, NEW bad, UNCHANGED lock,
               Update(p, [[r EXCEPT !.entries = es, !.initial = found, !.failed = bad] EXCEPT !.pc = "select"])
        PROVE  Stays(p) /\ Alone(p) /\ Writes(p)
    <3> DEFINE s == [[r EXCEPT !.entries = es, !.initial = found, !.failed = bad] EXCEPT !.pc = "select"]
    <3>3. s.pc = "select" /\ Update(p, s)
      BY <1>0, <2>3
    <3>1. run'[p].pc = "select" /\ moved
      <4> HIDE DEF s
      <4> QED
        BY <3>3, UpdateMoves
    <3>2. QED
      BY <1>0, <2>0, <2>3, <3>1, Quiet DEF Stays, Working
  <2>4. QED
    BY <1>3, <2>1, <2>2, <2>3 DEF CheckFile
<1>4. CASE Skip(p)
  <2>1. NextCheck(r).pc = "select"
    BY <1>0 DEF NextCheck
  <2>2. run'[p].pc = "select" /\ \A q \in Procs \ {p} : run'[q] = run[q]
    BY <1>4, <2>1, UpdateMoves DEF Skip
  <2>3. QED
    BY <1>4, <2>2, Quiet DEF Skip, At, Stays, Working
<1>5. CASE Select(p)
  <2>1. NextCheck(r).pc = "select"
    BY <1>0 DEF NextCheck
  <2>2. ASSUME NEW ks, NEW es, Record(p, [r EXCEPT !.failed = ks], es)
        PROVE  run'[p].pc = "select" /\ \A q \in Procs \ {p} : run'[q] = run[q]
    <3> DEFINE s == [r EXCEPT !.failed = ks]
    <3>1. "pc" \in DOMAIN s
      BY <1>0
    <3> HIDE DEF s
    <3>2. QED
      BY <2>2, <3>1, RecordMoves DEF s
  <2>3. ASSUME NEW ks, NEW to \in {"pick", "fix"},
               Update(p, [r EXCEPT !.pc = to, !.base = content, !.fresh = ks, !.todo = ks])
        PROVE  run'[p].pc \in {"pick", "fix"} /\ \A q \in Procs \ {p} : run'[q] = run[q]
    <3> DEFINE s == [r EXCEPT !.pc = to, !.base = content, !.fresh = ks, !.todo = ks]
    <3>1. s.pc = to /\ Update(p, s)
      BY <1>0, <2>3
    <3> HIDE DEF s
    <3>2. QED
      BY <3>1, UpdateMoves
  <2>4. (IF Check(p) \in Multi THEN "pick" ELSE "fix") \in {"pick", "fix"}
    OBVIOUS
  <2>5. run'[p].pc \in {"select", "pick", "fix"} /\ \A q \in Procs \ {p} : run'[q] = run[q]
    <3>1. CASE Record(p, [r EXCEPT !.failed = @ \cup {Check(p)}], Errored(r.entries, Check(p)))
      <4> DEFINE ks == r.failed \cup {Check(p)}
                 es == Errored(r.entries, Check(p))
      <4>1. Record(p, [r EXCEPT !.failed = ks], es)
        BY <3>1
      <4> HIDE DEF ks, es
      <4> QED
        BY <2>2, <4>1
    <3>2. CASE Update(p, NextCheck(r))
      BY <2>1, <3>2, UpdateMoves
    <3>3. CASE Update(p, [r EXCEPT !.pc = IF Check(p) \in Multi THEN "pick" ELSE "fix",
                                   !.base = content, !.fresh = Fixables(Check(p), content),
                                   !.todo = Fixables(Check(p), content)])
      BY <2>3, <2>4, <3>3
    <3>4. QED
      BY <1>5, <3>1, <3>2, <3>3 DEF Select
  <2>6. QED
    BY <1>5, <2>5, Quiet DEF Select, At, Stays, Working
<1>6. CASE Fix(p)
  <2>0. r.pc = "fix" /\ content' = content /\ late' = late /\ lock' = lock
    BY <1>6 DEF Fix, At
  <2>1. ASSUME NEW o, Update(p, [r EXCEPT !.pc = "verify", !.outcome = o])
        PROVE  run'[p].pc = "verify" /\ \A q \in Procs \ {p} : run'[q] = run[q]
    <3> DEFINE s == [r EXCEPT !.pc = "verify", !.outcome = o]
    <3>1. s.pc = "verify" /\ Update(p, s)
      BY <1>0, <2>1
    <3> HIDE DEF s
    <3>2. QED
      BY <3>1, UpdateMoves
  <2>2. CASE Update(p, [r EXCEPT !.pc = "verify", !.raised = TRUE])
    <3> DEFINE s == [r EXCEPT !.pc = "verify", !.raised = TRUE]
    <3>1. s.pc = "verify" /\ Update(p, s)
      BY <1>0, <2>2
    <3>2. run'[p].pc = "verify" /\ \A q \in Procs \ {p} : run'[q] = run[q]
      <4> HIDE DEF s
      <4> QED
        BY <3>1, UpdateMoves
    <3>3. QED
      BY <2>0, <3>2, Quiet DEF Stays, Working
  <2>3. ASSUME NEW o, PlaceFresh(p, [r EXCEPT !.outcome = o])
        PROVE  run'[p].pc = "select" /\ \A q \in Procs \ {p} : run'[q] = run[q]
    <3> DEFINE s == [r EXCEPT !.outcome = o]
    <3>1. "pc" \in DOMAIN s /\ PlaceFresh(p, s)
      BY <1>0, <2>3
    <3> HIDE DEF s
    <3>2. QED
      BY <3>1, PlaceMoves
  <2>4. ASSUME NEW d \in Parsable, NEW S, NEW o,
               Update(p, [r EXCEPT !.pc = "compare", !.draft = d, !.claim = S, !.outcome = o])
        PROVE  Stays(p) /\ Alone(p) /\ Writes(p)
    <3> DEFINE s == [r EXCEPT !.pc = "compare", !.draft = d, !.claim = S, !.outcome = o]
    <3>0. "draft" \in DOMAIN r
      BY DEF TypeOK, Runs
    <3>1. s.pc = "compare" /\ s.draft = d /\ Update(p, s)
      BY <1>0, <2>4, <3>0
    <3>2. run'[p].pc = "compare" /\ run'[p].draft \in Parsable /\ \A q \in Procs \ {p} : run'[q] = run[q]
      <4> HIDE DEF s
      <4> QED
        BY <3>1, UpdateMoves
    <3>3. QED
      BY <2>0, <3>2 DEF Stays, Alone, Writes, Working
  <2>5. CASE Update(p, [r EXCEPT !.pc = "verify", !.outcome = All(r.fresh, "declined")])
    BY <2>0, <2>1, <2>5, Quiet DEF Stays, Working
  <2>6. CASE PlaceFresh(p, [r EXCEPT !.outcome = All(r.fresh, "rejected")])
    BY <2>0, <2>3, <2>6, Quiet DEF Stays, Working
  <2>7. QED
    BY <1>6, <2>2, <2>4, <2>5, <2>6 DEF Fix, Validates
<1>7. CASE FixNext(p)
  <2>0. r.pc = "pick" /\ content' = content /\ late' = late /\ lock' = lock
    BY <1>7 DEF FixNext, At
  <2>1. ASSUME NEW b, NEW o, NEW t, Update(p, [r EXCEPT !.pc = "verify", !.raised = b, !.outcome = o, !.todo = t])
        PROVE  Stays(p) /\ Alone(p) /\ Writes(p)
    <3> DEFINE s == [r EXCEPT !.pc = "verify", !.raised = b, !.outcome = o, !.todo = t]
    <3>1. s.pc = "verify" /\ Update(p, s)
      BY <1>0, <2>1
    <3>2. run'[p].pc = "verify" /\ \A q \in Procs \ {p} : run'[q] = run[q]
      <4> HIDE DEF s
      <4> QED
        BY <3>1, UpdateMoves
    <3>3. QED
      BY <2>0, <3>2, Quiet DEF Stays, Working
  <2>2. ASSUME NEW x, NEW o, Update(p, [[r EXCEPT !.todo = @ \ {x}] EXCEPT !.outcome[x] = o])
        PROVE  Stays(p) /\ Alone(p) /\ Writes(p)
    <3> DEFINE s == [[r EXCEPT !.todo = @ \ {x}] EXCEPT !.outcome[x] = o]
    <3>1. s.pc = "pick" /\ Update(p, s)
      BY <1>0, <2>0, <2>2
    <3>2. run'[p].pc = "pick" /\ \A q \in Procs \ {p} : run'[q] = run[q]
      <4> HIDE DEF s
      <4> QED
        BY <3>1, UpdateMoves
    <3>3. QED
      BY <2>0, <3>2, Quiet DEF Stays, Working
  <2>3. ASSUME NEW x, NEW d \in Parsable,
               Update(p, [[r EXCEPT !.todo = @ \ {x}] EXCEPT !.pc = "compare", !.base = content,
                                                             !.draft = d, !.claim = {x}])
        PROVE  Stays(p) /\ Alone(p) /\ Writes(p)
    <3> DEFINE s == [[r EXCEPT !.todo = @ \ {x}] EXCEPT !.pc = "compare", !.base = content,
                                                        !.draft = d, !.claim = {x}]
    <3>0. "draft" \in DOMAIN r
      BY DEF TypeOK, Runs
    <3>1. s.pc = "compare" /\ s.draft = d /\ Update(p, s)
      BY <1>0, <2>3, <3>0
    <3>2. run'[p].pc = "compare" /\ run'[p].draft \in Parsable /\ \A q \in Procs \ {p} : run'[q] = run[q]
      <4> HIDE DEF s
      <4> QED
        BY <3>1, UpdateMoves
    <3>3. QED
      BY <2>0, <3>2 DEF Stays, Alone, Writes, Working
  <2>4. QED
    BY <1>7, <2>1, <2>2, <2>3 DEF FixNext, Validates
<1>8. CASE FixedAll(p)
  <2>1. run'[p].pc = "verify" /\ \A q \in Procs \ {p} : run'[q] = run[q]
    BY <1>0, <1>8, UpdateMoves DEF FixedAll
  <2>2. QED
    BY <1>8, <2>1, Quiet DEF FixedAll, At, Stays, Working
<1>9. CASE Compare(p)
  <2>0. r.pc = "compare" /\ content' = content /\ lock' = lock
    BY <1>9 DEF Compare, At
  <2>1. ASSUME Update(p, [r EXCEPT !.pc = "rename"]), ~ Conflict(r), late' = [late EXCEPT ![p] = FALSE]
        PROVE  Stays(p) /\ Alone(p) /\ Writes(p)
    <3> DEFINE s == [r EXCEPT !.pc = "rename"]
    <3>1. s.pc = "rename" /\ s.base = content /\ s.draft = r.draft /\ Update(p, s)
      BY <1>0, <2>1 DEF Conflict, Runs
    <3>2. run'[p].pc = "rename" /\ run'[p].base = content /\ run'[p].draft = r.draft
          /\ \A q \in Procs \ {p} : run'[q] = run[q]
      <4> HIDE DEF s
      <4> QED
        BY <3>1, UpdateMoves
    <3>3. \A q \in Procs \ {p} : late'[q] = late[q]
      BY <2>1 DEF TypeOK
    <3>4. QED
      BY <2>0, <3>2, <3>3 DEF Stays, Alone, Writes, Working
  <2>2. ASSUME NEW o, AfterWrite(p, [r EXCEPT !.outcome = o]), late' = late
        PROVE  Stays(p) /\ Alone(p) /\ Writes(p)
    <3> DEFINE s == [r EXCEPT !.outcome = o]
    <3>1. "pc" \in DOMAIN s /\ AfterWrite(p, s)
      BY <1>0, <2>2
    <3>2. run'[p].pc \in {"pick", "verify"} /\ \A q \in Procs \ {p} : run'[q] = run[q]
      <4> HIDE DEF s
      <4> QED
        BY <3>1, AfterWriteMoves
    <3>3. QED
      BY <2>0, <2>2, <3>2, Quiet DEF Stays, Working
  <2>3. ASSUME NEW o, PlaceFresh(p, [r EXCEPT !.outcome = o, !.changed = TRUE, !.external = TRUE]), late' = late
        PROVE  Stays(p) /\ Alone(p) /\ Writes(p)
    <3> DEFINE s == [r EXCEPT !.outcome = o, !.changed = TRUE, !.external = TRUE]
    <3>1. "pc" \in DOMAIN s /\ PlaceFresh(p, s)
      BY <1>0, <2>3
    <3>2. run'[p].pc = "select" /\ \A q \in Procs \ {p} : run'[q] = run[q]
      <4> HIDE DEF s
      <4> QED
        BY <3>1, PlaceMoves
    <3>3. QED
      BY <2>0, <2>3, <3>2, Quiet DEF Stays, Working
  <2>4. QED
    BY <1>9, <2>1, <2>2, <2>3 DEF Compare
<1>10. CASE Rename(p)
  <2>0. r.pc = "rename" /\ late' = late /\ lock' = lock
    BY <1>10 DEF Rename, At
  <2>1. ASSUME NEW o, AfterWrite(p, [r EXCEPT !.outcome = o])
        PROVE  run'[p].pc \in {"pick", "verify"} /\ \A q \in Procs \ {p} : run'[q] = run[q]
    <3> DEFINE s == [r EXCEPT !.outcome = o]
    <3>1. "pc" \in DOMAIN s /\ AfterWrite(p, s)
      BY <1>0, <2>1
    <3> HIDE DEF s
    <3>2. QED
      BY <3>1, AfterWriteMoves
  <2>2. run'[p].pc \in {"pick", "verify"} /\ \A q \in Procs \ {p} : run'[q] = run[q]
    BY <1>10, <2>1 DEF Rename
  <2>3. content' = content \/ content' = r.draft
    BY <1>10 DEF Rename
  <2>4. QED
    BY <2>0, <2>2, <2>3 DEF Stays, Alone, Writes, Working
<1>11. CASE Verify(p)
  <2>0. r.pc = "verify" /\ content' = content /\ late' = late /\ lock' = lock
    BY <1>11 DEF Verify, At
  <2>1. ASSUME NEW o, NEW bad, PlaceFresh(p, [r EXCEPT !.outcome = o, !.failed = bad])
        PROVE  Stays(p) /\ Alone(p) /\ Writes(p)
    <3> DEFINE s == [r EXCEPT !.outcome = o, !.failed = bad]
    <3>1. "pc" \in DOMAIN s /\ PlaceFresh(p, s)
      BY <1>0, <2>1
    <3>2. run'[p].pc = "select" /\ \A q \in Procs \ {p} : run'[q] = run[q]
      <4> HIDE DEF s
      <4> QED
        BY <3>1, PlaceMoves
    <3>3. QED
      BY <2>0, <3>2, Quiet DEF Stays, Working
  <2>2. ASSUME NEW o, NEW bad, NEW c, PlaceFresh(p, [r EXCEPT !.outcome = o, !.failed = bad, !.changed = c])
        PROVE  Stays(p) /\ Alone(p) /\ Writes(p)
    <3> DEFINE s == [r EXCEPT !.outcome = o, !.failed = bad, !.changed = c]
    <3>1. "pc" \in DOMAIN s /\ PlaceFresh(p, s)
      BY <1>0, <2>2
    <3>2. run'[p].pc = "select" /\ \A q \in Procs \ {p} : run'[q] = run[q]
      <4> HIDE DEF s
      <4> QED
        BY <3>1, PlaceMoves
    <3>3. QED
      BY <2>0, <3>2, Quiet DEF Stays, Working
  <2>3. ASSUME NEW bad, NEW es, Record(p, [r EXCEPT !.failed = bad], es)
        PROVE  Stays(p) /\ Alone(p) /\ Writes(p)
    <3> DEFINE s == [r EXCEPT !.failed = bad]
    <3>1. "pc" \in DOMAIN s /\ Record(p, s, es)
      BY <1>0, <2>3
    <3>2. run'[p].pc = "select" /\ \A q \in Procs \ {p} : run'[q] = run[q]
      <4> HIDE DEF s
      <4> QED
        BY <3>1, RecordMoves
    <3>3. QED
      BY <2>0, <3>2, Quiet DEF Stays, Working
  <2>4. QED
    BY <1>11, <2>1, <2>2, <2>3 DEF Verify
<1>12. CASE Finish(p)
  <2>0. r.pc = "select" /\ content' = content /\ late' = late
    BY <1>12 DEF Finish, At
  <2>1. ASSUME NEW es, NEW bad, Leave(p, [r EXCEPT !.entries = es, !.failed = bad])
        PROVE  Leaves(p) /\ Alone(p) /\ Writes(p)
    <3> DEFINE s == [r EXCEPT !.entries = es, !.failed = bad]
    <3>1. "pc" \in DOMAIN s /\ Leave(p, s)
      BY <1>0, <2>1
    <3>2. run'[p].pc \in {"store", "done"} /\ lock' = None /\ \A q \in Procs \ {p} : run'[q] = run[q]
      <4> HIDE DEF s
      <4> QED
        BY <3>1, LeaveMoves
    <3>3. QED
      BY <1>0, <2>0, <3>2, Quiet DEF Leaves, Working
  <2>2. QED
    BY <1>12, <2>1 DEF Finish
<1>13. CASE Store(p)
  <2>1. run'[p].pc = "done" /\ \A q \in Procs \ {p} : run'[q] = run[q]
    BY <1>0, <1>13, UpdateMoves DEF Store
  <2>2. QED
    BY <1>13, <2>1, Quiet DEF Store, At, Stays, Working
<1>14. CASE Crash(p)
  <2>1. run'[p].pc = "crashed" /\ \A q \in Procs \ {p} : run'[q] = run[q]
    <3> DEFINE s == [Fresh EXCEPT !.pc = "crashed"]
    <3>1. s.pc = "crashed" /\ Update(p, s)
      BY <1>14 DEF Crash, Fresh
    <3> HIDE DEF s
    <3>2. QED
      BY <3>1, UpdateMoves
  <2>2. QED
    BY <1>14, <2>1, Quiet DEF Crash, Leaves, Working
<1>15. QED
  BY <1>1, <1>2, <1>3, <1>4, <1>5, <1>6, <1>7, <1>8, <1>9, <1>10, <1>11, <1>12, <1>13, <1>14 DEF Step

--------------------------------------------------------------------------------
(* The fix lock, and what is written under it *)

\* One step keeps the fixers alone.
LEMMA AloneStep == TypeOK /\ OneFixer /\ [Next]_vars => OneFixer'
<1> SUFFICES ASSUME TypeOK, OneFixer, [Next]_vars
             PROVE  OneFixer'
  OBVIOUS
<1>1. ASSUME NEW p \in Procs, Step(p)
      PROVE  OneFixer'
  <2>1. \A q \in Procs \ {p} : run'[q] = run[q]
    BY <1>1, StepEffect DEF Alone
  <2>2. CASE Enters(p)
    BY <2>1, <2>2, FixConstants DEF Enters, OneFixer, Working
  <2>3. CASE Stays(p)
    BY <2>1, <2>3 DEF Stays, OneFixer
  <2>4. CASE Leaves(p)
    BY <2>1, <2>4, FixConstants DEF Leaves, OneFixer
  <2>5. QED
    BY <1>1, <2>2, <2>3, <2>4, StepEffect
<1>2. CASE Edit
  BY <1>2 DEF Edit, OneFixer
<1>3. CASE UNCHANGED vars
  BY <1>3 DEF vars, OneFixer
<1>4. QED
  BY <1>1, <1>2, <1>3 DEF Next, Over

\* No one works at the start.
LEMMA AloneInit == Init => OneFixer
BY FixConstants DEF Init, OneFixer, Fresh, Working

\* The per-file fix lock keeps fixers apart: at any time the process between reading
\* the file and its last write is the one holder of the lock, for any number of
\* processes, with crashes and timeouts (locked(...) around _check_file_locked).
THEOREM FixersAreAlone == Spec => []OneFixer
<1>1. TypeOK /\ OneFixer /\ [Next]_vars => (TypeOK /\ OneFixer)'
  BY TypeStep, AloneStep
<1>2. Init => TypeOK /\ OneFixer
  BY TypeInit, AloneInit
<1>3. QED
  BY <1>1, <1>2, PTL DEF Spec

\* What NoLostEdit rests on: from the comparison on, the file holds the source of the
\* fix until an editor writes, and the text to write is one Python parses.
WriteInv ==
  \A p \in Procs :
    /\ run[p].pc = "rename" => late[p] \/ content = run[p].base
    /\ run[p].pc \in {"compare", "rename"} => run[p].draft \in Parsable

\* One step keeps it: no other process can rename, because fixers are alone.
LEMMA WriteStep == TypeOK /\ OneFixer /\ WriteInv /\ [Next]_vars => WriteInv'
<1> SUFFICES ASSUME TypeOK, OneFixer, WriteInv, [Next]_vars, NEW q \in Procs
             PROVE  /\ run'[q].pc = "rename" => late'[q] \/ content' = run'[q].base
                    /\ run'[q].pc \in {"compare", "rename"} => run'[q].draft \in Parsable
  BY DEF WriteInv
<1>1. ASSUME NEW p \in Procs, Step(p), q = p
      PROVE  /\ run'[q].pc = "rename" => late'[q] \/ content' = run'[q].base
             /\ run'[q].pc \in {"compare", "rename"} => run'[q].draft \in Parsable
  BY <1>1, StepEffect DEF Writes, WriteInv
<1>2. ASSUME NEW p \in Procs, Step(p), q # p
      PROVE  /\ run'[q].pc = "rename" => late'[q] \/ content' = run'[q].base
             /\ run'[q].pc \in {"compare", "rename"} => run'[q].draft \in Parsable
  <2>1. run'[q] = run[q] /\ late'[q] = late[q]
    BY <1>2, StepEffect DEF Alone
  <2>2. run[q].pc = "rename" => content' = content
    BY <1>2, StepEffect DEF Writes, OneFixer, Working
  <2>3. QED
    BY <2>1, <2>2 DEF WriteInv
<1>3. CASE Edit
  BY <1>3 DEF Edit, WriteInv
<1>4. CASE UNCHANGED vars
  BY <1>4 DEF vars, WriteInv
<1>5. QED
  BY <1>1, <1>2, <1>3, <1>4 DEF Next, Over

\* Nothing is about to be written at the start.
LEMMA WriteInit == Init => WriteInv
BY DEF Init, WriteInv, Fresh

\* The three together are inductive.
LEMMA WritesAreSafe == Spec => [](TypeOK /\ OneFixer /\ WriteInv)
<1>1. TypeOK /\ OneFixer /\ WriteInv /\ [Next]_vars => (TypeOK /\ OneFixer /\ WriteInv)'
  BY TypeStep, AloneStep, WriteStep
<1>2. Init => TypeOK /\ OneFixer /\ WriteInv
  BY TypeInit, AloneInit, WriteInit
<1>3. QED
  BY <1>1, <1>2, PTL DEF Spec

\* A fixer's write replaces the text its fix was computed from, unless an editor wrote
\* between the comparison and the rename: fixes of other processes, and edits made
\* while a fix is computed, are never overwritten (atomic_write_text under the lock).
THEOREM EditsAreKept == Spec => NoLostEdit
<1>1. TypeOK /\ OneFixer /\ WriteInv /\ [Next]_vars => [ReplacesItsSource]_vars
  <2> SUFFICES ASSUME TypeOK, OneFixer, WriteInv, [Next]_vars, content' # content, edits' = edits
               PROVE  \E p \in Procs : At(p, "rename") /\ (run[p].base = content \/ late[p])
    BY DEF ReplacesItsSource
  <2>1. PICK p \in Procs : Step(p)
    BY DEF Next, Edit, Over, vars, TypeOK
  <2>2. run[p].pc = "rename"
    BY <2>1, StepEffect DEF Writes
  <2>3. QED
    BY <2>2 DEF At, WriteInv
<1>2. QED
  BY <1>1, WritesAreSafe, PTL DEF Spec, NoLostEdit

\* Only an editor makes a file Python parses into one it does not (compile() in
\* atomic_write_text, which nothing between it and the rename can bypass).
THEOREM FixesKeepValidity == Spec => FixKeepsValid
<1>1. TypeOK /\ OneFixer /\ WriteInv /\ [Next]_vars => [Breaks]_vars
  <2> SUFFICES ASSUME TypeOK, OneFixer, WriteInv, [Next]_vars, content \in Parsable, content' \in Broken
               PROVE  edits' = edits + 1
    BY DEF Breaks
  <2>1. content' # content
    BY FixConstants
  <2>2. ASSUME NEW p \in Procs, Step(p)
        PROVE  FALSE
    <3>1. run[p].pc = "rename" /\ content' = run[p].draft
      BY <2>1, <2>2, StepEffect DEF Writes
    <3>2. QED
      BY <3>1, FixConstants DEF WriteInv
  <2>3. QED
    BY <2>1, <2>2 DEF Next, Edit, Over, vars
<1>2. QED
  BY <1>1, WritesAreSafe, PTL DEF Spec, FixKeepsValid

--------------------------------------------------------------------------------
(* What a step does to the report of its process *)

\* The fields the report is made of.
Kept(r, s) ==
  /\ s.entries = r.entries /\ s.initial = r.initial /\ s.failed = r.failed
  /\ s.changed = r.changed /\ s.external = r.external

\* The file, and whether p still knows who wrote it, are as they were.
Untouched(p) == content' = content /\ foreign'[p] = foreign[p]

\* p is at the next check, with entries es, its scratch cleared,
GoesOn(p, es) ==
  LET r == run[p]
      s == run'[p]
  IN  /\ r.at \in DOMAIN Order /\ s.at = r.at + 1
      /\ s.pc = "select" /\ s.outcome = NoOutcome /\ ~ s.raised
      /\ s.entries = es /\ s.initial = r.initial

\* and remembers what is final among those of the check it has been at.
Remembers(p, es) ==
  /\ GoesOn(p, es)
  /\ decided'[p] = decided[p] \cup {e \in OfCheck(es, Check(p)) : e.outcome \in Terminal}

\* p stops,
Stops(p) ==
  run'[p].pc \in {"unprocessable", "crashed"} /\ decided'[p] = decided[p]

\* takes the lock,
Starts(p) ==
  LET r == run[p]
      s == run'[p]
  IN  /\ r.pc = "lock" /\ s.pc = "check" /\ s.at = r.at
      /\ Kept(r, s) /\ s.raised = r.raised /\ s.outcome = r.outcome
      /\ Untouched(p) /\ decided'[p] = decided[p]

\* finds the violations of the start,
Finds(p) ==
  LET r == run[p]
      s == run'[p]
  IN  /\ r.pc = "check" /\ content \in Parsable /\ content' = content
      /\ decided'[p] = decided[p]
      /\ s.raised = r.raised /\ s.outcome = r.outcome /\ s.at = r.at
      /\ s.changed = r.changed /\ s.external = r.external
      /\ s.failed \in Raising
      /\ s.initial = UNION {Report(k, content) : k \in Checks \ s.failed}
      /\ s.entries = {Entry(f, "none", TRUE) : f \in s.initial}
      /\ s.pc \in {"select", "store", "done"} /\ (s.pc = "store" => Cacheable(s))

\* passes a check by,
Passes(p) ==
  LET r == run[p]
      s == run'[p]
  IN  /\ r.pc = "select" /\ GoesOn(p, r.entries) /\ Kept(r, s)
      /\ Untouched(p) /\ decided'[p] = decided[p] /\ missed'[p] = missed[p]

\* gives up on a check as a whole,
GivesUp(p) ==
  LET r == run[p]
      s == run'[p]
  IN  /\ r.pc \in {"select", "verify"} /\ Unreadable
      /\ Remembers(p, Errored(r.entries, Check(p)))
      /\ s.failed = r.failed \cup {Check(p)} /\ s.changed = r.changed /\ s.external = r.external
      /\ Untouched(p)

\* asks a check for its fixable violations,
Begins(p) ==
  LET r == run[p]
      s == run'[p]
  IN  /\ r.pc = "select" /\ content \in Parsable /\ r.at \in DOMAIN Order /\ s.at = r.at
      /\ s.pc \in {"fix", "pick"}
      /\ s.base = content /\ s.fresh = Fixables(Check(p), content)
      /\ Kept(r, s) /\ s.raised = r.raised /\ s.outcome = r.outcome
      /\ Untouched(p) /\ decided'[p] = decided[p] /\ missed'[p] = missed[p]

Fixing == {"fix", "pick", "compare", "rename", "verify"}

\* What fix() says of a violation without having written the file.
Says(k, o) ==
  \/ o \in {"none", "declined", "failed", "rejected", "errored"}
  \/ o = "aborted" /\ k \in Multi

\* fixes: the file is as it was or becomes the draft,
Works(p) ==
  LET r == run[p]
      s == run'[p]
  IN  /\ r.pc \in Fixing /\ s.pc \in Fixing \ {"fix"}
      /\ s.at = r.at /\ s.fresh = r.fresh /\ Kept(r, s)
      /\ decided'[p] = decided[p] /\ foreign'[p] = foreign[p]
      /\ missed[p] \subseteq missed'[p] /\ (content' # content => "write" \in missed'[p])
      /\ \/ content' = content
         \/ r.pc = "rename" /\ content' = r.draft /\ s.pc \notin {"compare", "rename"}
      /\ \A x \in Keys :
           \/ s.outcome[x] = r.outcome[x] \/ Says(Check(p), s.outcome[x])
           \/ s.outcome[x] = "applied" /\ r.pc = "rename" /\ content' = r.draft
      /\ s.pc = "compare" => /\ content \in Parsable \/ r.pc = "fix"
                             /\ s.base = IF r.pc = "fix" THEN r.base ELSE content
                             /\ s.draft \in Parsable
      /\ s.pc = "rename" => r.pc = "compare" /\ s.base = r.base /\ s.draft = r.draft

\* ends a fix, with the outcome of every violation,
Ends(p, o, gave, changed, external) ==
  LET r == run[p]
      s == run'[p]
  IN  /\ Remembers(p, Place(r.entries, Check(p), r.fresh, o))
      /\ s.failed = r.failed \cup gave /\ s.changed = changed /\ s.external = external
      /\ Untouched(p)

\* because the fixer proposed what does not compile,
Rejects(p) ==
  LET r == run[p]
  IN  /\ r.pc = "fix" /\ missed'[p] = missed[p]
      /\ Ends(p, All(r.fresh, "rejected"), {}, r.changed, r.external)

\* or the file is not the one the fix was computed from,
Aborts(p) ==
  LET r == run[p]
  IN  /\ r.pc = "compare" /\ content # r.base /\ Check(p) \notin Multi
      /\ Ends(p, All(r.fresh, "aborted"), {}, TRUE, TRUE)

\* or the check was run again, or could not be,
Verifies(p) ==
  LET r == run[p]
      gave == IF r.raised THEN {Check(p)} ELSE {}
      still == Fixables(Check(p), content)
  IN  /\ r.pc = "verify"
      /\ "fix" \in missed[p] => "fix" \in missed'[p]
      /\ "write" \in missed[p] => run'[p].changed \/ "fix" \in missed'[p]
      /\ \/ Unreadable /\ Ends(p, Judged(r, r.fresh, FALSE), gave, r.changed, r.external)
         \/ /\ content \in Parsable
            /\ Ends(p, Judged(r, still, TRUE), gave,
                    r.changed \/ Cardinality(still) < Cardinality(r.fresh), r.external)

\* closes the report,
Reports(p, bad, reread) ==
  LET r == run[p]
      s == run'[p]
      ks == IF reread THEN Stale(r.entries) ELSE {}
      now == IF reread THEN Refreshed(r.entries, ks \ bad, content) ELSE r.entries
  IN  /\ r.pc = "select" /\ r.at > Len(Order) /\ bad \in Raising
      /\ reread => r.changed /\ content \in Parsable
      /\ ~ reread => ~ r.changed \/ Unreadable
      /\ \E S \in IF Attributes(r) THEN Attributions(now, r.initial) ELSE {{}} :
           s.entries = now \cup {Entry(f, "indirect", TRUE) : f \in S}
      /\ s.initial = r.initial /\ s.failed = r.failed \cup (bad \cap ks)
      /\ s.changed = r.changed /\ s.external = r.external /\ s.raised = r.raised
      /\ s.pc \in {"store", "done"} /\ (s.pc = "store" => Cacheable(s))
      /\ Untouched(p) /\ decided'[p] = decided[p]
      /\ missed'[p] = IF r.changed /\ ~ reread THEN missed[p] \cup {"end"} ELSE missed[p]

Closes(p) == \E bad \in Raising, reread \in BOOLEAN : Reports(p, bad, reread)

\* or stores it.
Keeps(p) ==
  LET r == run[p]
      s == run'[p]
  IN  /\ r.pc = "store" /\ s.pc = "done" /\ Kept(r, s)
      /\ Untouched(p) /\ decided'[p] = decided[p] /\ missed'[p] = missed[p]
      /\ cached' = [content |-> content,
                    violations |-> {Finding(e) : e \in {f \in r.entries : f.outcome # "applied"}}]

Moves(p) ==
  \/ Stops(p) \/ Starts(p) \/ Finds(p) \/ Passes(p) \/ GivesUp(p) \/ Begins(p) \/ Works(p)
  \/ Rejects(p) \/ Aborts(p) \/ Verifies(p) \/ Closes(p) \/ Keeps(p)

\* The others keep their reports, and know of a write that is not theirs.
Elsewhere(p) ==
  \A q \in Procs \ {p} :
    /\ run'[q] = run[q] /\ decided'[q] = decided[q] /\ missed'[q] = missed[q]
    /\ foreign'[q] = foreign[q] \/ foreign'[q]
    /\ content' # content => foreign'[q]

\* The fields of a process.
Fields == {"pc", "at", "base", "fresh", "outcome", "todo", "claim", "draft", "raised",
           "entries", "initial", "changed", "external", "failed"}

LEMMA FieldNames == ASSUME NEW r \in Runs PROVE DOMAIN r = Fields
BY DEF Runs, Fields

\* Going to the next check clears the scratch and keeps the report.
LEMMA NextFields ==
  ASSUME NEW r, DOMAIN r = Fields
  PROVE  LET s == NextCheck(r)
         IN  /\ s.pc = "select" /\ s.at = r.at + 1 /\ s.outcome = NoOutcome /\ ~ s.raised
             /\ s.entries = r.entries /\ s.initial = r.initial /\ s.failed = r.failed
             /\ s.changed = r.changed /\ s.external = r.external
BY DEF NextCheck, Fields

\* Recording the entries of a check.
LEMMA RecordFields ==
  ASSUME TypeOK, NEW p \in Procs, run[p].at \in DOMAIN Order, NEW r, DOMAIN r = Fields, NEW es,
         r.at = run[p].at, r.initial = run[p].initial, Record(p, r, es)
  PROVE  /\ Remembers(p, es)
         /\ run'[p].failed = r.failed /\ run'[p].changed = r.changed /\ run'[p].external = r.external
         /\ \A q \in Procs \ {p} : run'[q] = run[q] /\ decided'[q] = decided[q]
<1> DEFINE w == [r EXCEPT !.entries = es]
           s == NextCheck(w)
<1>1. /\ DOMAIN w = Fields /\ w.at = r.at /\ w.entries = es /\ w.initial = r.initial
      /\ w.failed = r.failed /\ w.changed = r.changed /\ w.external = r.external
  BY DEF Fields
<1>2. /\ s.pc = "select" /\ s.at = w.at + 1 /\ s.outcome = NoOutcome /\ ~ s.raised
      /\ s.entries = w.entries /\ s.initial = w.initial /\ s.failed = w.failed
      /\ s.changed = w.changed /\ s.external = w.external
  <2> HIDE DEF w
  <2> QED
    BY <1>1, NextFields
<1>3. Update(p, s) /\ decided' = [decided EXCEPT ![p] = @ \cup {e \in OfCheck(es, Check(p)) : e.outcome \in Terminal}]
  BY DEF Record
<1>4. run'[p] = s /\ \A q \in Procs \ {p} : run'[q] = run[q]
  <2> HIDE DEF s
  <2> QED
    BY <1>3, UpdateMoves
<1>5. /\ decided'[p] = decided[p] \cup {e \in OfCheck(es, Check(p)) : e.outcome \in Terminal}
      /\ \A q \in Procs \ {p} : decided'[q] = decided[q]
  BY <1>3 DEF TypeOK
<1>6. QED
  <2> HIDE DEF s, w
  <2> QED
    BY <1>1, <1>2, <1>4, <1>5 DEF Remembers, GoesOn

\* Ending a fix with the outcomes o.
LEMMA PlaceFields ==
  ASSUME TypeOK, NEW p \in Procs, run[p].at \in DOMAIN Order, NEW r, DOMAIN r = Fields,
         r.at = run[p].at, r.initial = run[p].initial, r.entries = run[p].entries, r.fresh = run[p].fresh,
         NEW gave, r.failed = run[p].failed \cup gave, PlaceFresh(p, r), Untouched(p)
  PROVE  /\ Ends(p, r.outcome, gave, r.changed, r.external)
         /\ \A q \in Procs \ {p} : run'[q] = run[q] /\ decided'[q] = decided[q]
BY RecordFields DEF PlaceFresh, Ends

\* After a write the process fixes on, and has its report.
LEMMA AfterWriteFields ==
  ASSUME TypeOK, NEW p \in Procs, NEW r, DOMAIN r = Fields, AfterWrite(p, r)
  PROVE  LET s == run'[p]
         IN  /\ s.pc \in {"pick", "verify"} /\ s.at = r.at /\ s.fresh = r.fresh
             /\ s.outcome = r.outcome /\ s.raised = r.raised /\ Kept(r, s)
<1> DEFINE to == IF Check(p) \in Multi THEN "pick" ELSE "verify"
           s == [r EXCEPT !.pc = to, !.claim = {}, !.draft = None]
<1>1. to \in {"pick", "verify"}
  OBVIOUS
<1>2. /\ s.pc = to /\ s.at = r.at /\ s.fresh = r.fresh
      /\ s.outcome = r.outcome /\ s.raised = r.raised /\ Kept(r, s)
  <2> HIDE DEF to
  <2> QED
    BY DEF Fields, Kept
<1>3. Update(p, s)
  BY DEF AfterWrite
<1>4. run'[p] = s
  <2> HIDE DEF s, to
  <2> QED
    BY <1>3, UpdateMoves
<1>5. QED
  <2> HIDE DEF s, to
  <2> QED
    BY <1>1, <1>2, <1>4

\* Leaving ends the report; what is stored is cacheable.
LEMMA LeaveFields ==
  ASSUME TypeOK, NEW p \in Procs, NEW r, DOMAIN r = Fields, Leave(p, r)
  PROVE  LET s == run'[p]
         IN  /\ s.pc \in {"store", "done"} /\ (s.pc = "store" => Cacheable(s))
             /\ s.at = r.at /\ s.outcome = r.outcome /\ s.raised = r.raised /\ Kept(r, s)
<1> DEFINE to == IF Cacheable(r) THEN "store" ELSE "done"
           s == [r EXCEPT !.pc = to]
<1>1. to \in {"store", "done"} /\ (to = "store" => Cacheable(r))
  OBVIOUS
<1>2. s.pc = to /\ s.at = r.at /\ s.outcome = r.outcome /\ s.raised = r.raised /\ Kept(r, s)
  <2> HIDE DEF to
  <2> QED
    BY DEF Fields, Kept
<1>3. Update(p, s)
  BY DEF Leave
<1>4. run'[p] = s
  <2> HIDE DEF s, to
  <2> QED
    BY <1>3, UpdateMoves
<1>5. Cacheable(s) <=> Cacheable(r)
  <2> HIDE DEF s
  <2> QED
    BY <1>2 DEF Cacheable, Kept
<1>6. QED
  <2> HIDE DEF s, to
  <2> QED
    BY <1>1, <1>2, <1>4, <1>5

\* A step that leaves the file and the history of the others alone.
LEMMA Undisturbed ==
  ASSUME NEW p \in Procs, content' = content, decided' = decided, foreign' = foreign, missed' = missed,
         \A q \in Procs \ {p} : run'[q] = run[q]
  PROVE  Elsewhere(p) /\ Untouched(p) /\ decided'[p] = decided[p] /\ missed'[p] = missed[p]
BY DEF Elsewhere, Untouched

\* Stopping.
LEMMA StopFields ==
  ASSUME TypeOK, NEW p \in Procs, NEW s, s.pc \in {"unprocessable", "crashed"}, Update(p, s),
         decided' = decided
  PROVE  Stops(p) /\ \A q \in Procs \ {p} : run'[q] = run[q]
BY UpdateMoves DEF Stops

\* The checks find what they find.
LEMMA CheckFields ==
  ASSUME TypeOK, NEW p \in Procs, CheckFile(p)
  PROVE  (Stops(p) \/ Finds(p)) /\ Elsewhere(p)
<1> DEFINE r == run[p]
<1>1. r \in Runs /\ DOMAIN r = Fields /\ r.pc = "check" /\ content' = content /\ decided' = decided
      /\ missed' = missed /\ \A q \in Procs \ {p} : foreign'[q] = foreign[q]
  BY FieldNames DEF TypeOK, CheckFile, At
<1>2. ASSUME \A q \in Procs \ {p} : run'[q] = run[q]
      PROVE  Elsewhere(p)
  BY <1>1, <1>2 DEF Elsewhere
<1>3. ASSUME Update(p, [r EXCEPT !.pc = "unprocessable"])
      PROVE  Stops(p) /\ Elsewhere(p)
  <2> DEFINE v == [r EXCEPT !.pc = "unprocessable"]
  <2>1. v.pc = "unprocessable" /\ Update(p, v)
    BY <1>1, <1>3 DEF Fields
  <2> HIDE DEF v
  <2> QED
    BY <1>1, <1>2, <2>1, StopFields
<1>4. ASSUME content \in Parsable, NEW bad \in Raising,
             LET found == UNION {Report(k, content) : k \in Checks \ bad}
                 w == [r EXCEPT !.entries = {Entry(f, "none", TRUE) : f \in found},
                                !.initial = found, !.failed = bad]
             IN  IF found = {} THEN Leave(p, w)
                               ELSE Update(p, [w EXCEPT !.pc = "select"]) /\ UNCHANGED lock
      PROVE  Finds(p) /\ Elsewhere(p)
  <2> DEFINE found == UNION {Report(k, content) : k \in Checks \ bad}
             es == {Entry(f, "none", TRUE) : f \in found}
             w == [r EXCEPT !.entries = es, !.initial = found, !.failed = bad]
             v == [w EXCEPT !.pc = "select"]
             s == run'[p]
  <2>1. /\ DOMAIN w = Fields /\ w.entries = es /\ w.initial = found /\ w.failed = bad
        /\ w.raised = r.raised /\ w.outcome = r.outcome /\ w.at = r.at
        /\ w.changed = r.changed /\ w.external = r.external
    <3> HIDE DEF found, es
    <3> QED
      BY <1>1 DEF Fields
  <2>2. /\ v.pc = "select" /\ v.raised = w.raised /\ v.outcome = w.outcome /\ v.at = w.at /\ Kept(w, v)
    <3> HIDE DEF w
    <3> QED
      BY <2>1 DEF Fields, Kept
  <2>3. /\ s.pc \in {"select", "store", "done"} /\ (s.pc = "store" => Cacheable(s))
        /\ s.at = w.at /\ s.outcome = w.outcome /\ s.raised = w.raised /\ Kept(w, s)
        /\ \A q \in Procs \ {p} : run'[q] = run[q]
    <3>1. CASE found = {}
      <4>1. Leave(p, w)
        BY <1>4, <3>1
      <4> HIDE DEF w
      <4>2. "pc" \in DOMAIN w
        BY <2>1 DEF Fields
      <4>3. \A q \in Procs \ {p} : run'[q] = run[q]
        BY <4>1, <4>2, LeaveMoves
      <4> QED
        BY <2>1, <4>1, <4>3, LeaveFields
    <3>2. CASE found # {}
      <4>1. Update(p, v)
        BY <1>4, <3>2
      <4>2. s = v /\ \A q \in Procs \ {p} : run'[q] = run[q]
        <5> HIDE DEF v
        <5> QED
          BY <4>1, UpdateMoves
      <4> HIDE DEF v, w
      <4> QED
        BY <2>2, <4>2
    <3>3. QED
      BY <3>1, <3>2
  <2>4. QED
    <3>1. /\ s.initial = found /\ s.entries = es /\ s.failed = bad
      <4> HIDE DEF w, found, es
      <4> QED
        BY <2>1, <2>3 DEF Kept
    <3>2. /\ s.raised = r.raised /\ s.outcome = r.outcome /\ s.at = r.at
          /\ s.changed = r.changed /\ s.external = r.external
      <4> HIDE DEF w, found, es
      <4> QED
        BY <2>1, <2>3 DEF Kept
    <3>3. s.initial = UNION {Report(k, content) : k \in Checks \ s.failed}
      BY <3>1
    <3>4. s.entries = {Entry(f, "none", TRUE) : f \in s.initial}
      BY <3>1
    <3>5. decided'[p] = decided[p]
      BY <1>1
    <3> HIDE DEF found, es, w, v, s
    <3>6. Finds(p)
      BY <1>1, <1>4, <2>3, <3>1, <3>2, <3>3, <3>4, <3>5 DEF Finds, s, r
    <3>7. QED
      BY <1>2, <2>3, <3>6
<1>5. QED
  BY <1>2, <1>3, <1>4 DEF CheckFile

\* Skipping a check.
LEMMA SkipFields ==
  ASSUME TypeOK, NEW p \in Procs, run[p].pc = "select", run[p].at \in DOMAIN Order,
         Update(p, NextCheck(run[p])), content' = content, decided' = decided, foreign' = foreign, missed' = missed
  PROVE  Passes(p) /\ Elsewhere(p)
<1> DEFINE s == NextCheck(run[p])
<1>1. DOMAIN run[p] = Fields
  BY FieldNames DEF TypeOK
<1>2. /\ s.pc = "select" /\ s.at = run[p].at + 1 /\ s.outcome = NoOutcome /\ ~ s.raised
      /\ Kept(run[p], s)
  BY <1>1, NextFields DEF Kept
<1>3. run'[p] = s /\ \A q \in Procs \ {p} : run'[q] = run[q]
  <2> HIDE DEF s
  <2> QED
    BY UpdateMoves DEF s
<1>4. QED
  <2> HIDE DEF s
  <2> QED
    BY <1>2, <1>3, Undisturbed DEF Passes, GoesOn, Kept

\* Giving up on a check.
LEMMA GiveUpFields ==
  ASSUME TypeOK, NEW p \in Procs, run[p].pc \in {"select", "verify"}, run[p].at \in DOMAIN Order, Unreadable,
         NEW ks, ks = run[p].failed \cup {Check(p)},
         Record(p, [run[p] EXCEPT !.failed = ks], Errored(run[p].entries, Check(p))),
         content' = content, foreign' = foreign, \A q \in Procs \ {p} : missed'[q] = missed[q]
  PROVE  GivesUp(p) /\ Elsewhere(p)
<1> DEFINE w == [run[p] EXCEPT !.failed = ks]
           es == Errored(run[p].entries, Check(p))
<1>1. DOMAIN run[p] = Fields
  BY FieldNames DEF TypeOK
<1>2. /\ DOMAIN w = Fields /\ w.at = run[p].at /\ w.initial = run[p].initial
      /\ w.changed = run[p].changed /\ w.external = run[p].external /\ w.failed = ks
  BY <1>1 DEF Fields
<1>3. Record(p, w, es)
  OBVIOUS
<1>4. /\ Remembers(p, es)
      /\ run'[p].changed = w.changed /\ run'[p].external = w.external /\ run'[p].failed = w.failed
      /\ \A q \in Procs \ {p} : run'[q] = run[q] /\ decided'[q] = decided[q]
  <2> HIDE DEF w, es
  <2> QED
    BY <1>2, <1>3, RecordFields
<1>5. QED
  <2> HIDE DEF w
  <2> QED
    BY <1>2, <1>4 DEF GivesUp, Elsewhere, Untouched

\* Selecting a check.
LEMMA SelectFields ==
  ASSUME TypeOK, NEW p \in Procs, Select(p)
  PROVE  (Passes(p) \/ GivesUp(p) \/ Begins(p)) /\ Elsewhere(p)
<1> DEFINE r == run[p]
           k == Check(p)
           to == IF k \in Multi THEN "pick" ELSE "fix"
           v == [r EXCEPT !.pc = to, !.base = content, !.fresh = Fixables(k, content),
                          !.todo = Fixables(k, content)]
<1>1. r.pc = "select" /\ r.at \in DOMAIN Order /\ DOMAIN r = Fields
      /\ content' = content /\ foreign' = foreign /\ missed' = missed
  <2>1. r \in Runs
    BY DEF TypeOK
  <2>2. r.at \in 1 .. Len(Order) + 1 /\ r.at <= Len(Order)
    BY <2>1 DEF Runs, Select
  <2>3. r.at \in DOMAIN Order
    BY <2>2, FixConstants
  <2>4. QED
    BY <2>1, <2>3, FieldNames DEF Select, At
<1>2. ASSUME Unreadable, Record(p, [r EXCEPT !.failed = @ \cup {k}], Errored(r.entries, k))
      PROVE  GivesUp(p) /\ Elsewhere(p)
  <2> DEFINE ks == r.failed \cup {k}
  <2>1. Record(p, [run[p] EXCEPT !.failed = ks], Errored(run[p].entries, Check(p))) /\ ks = r.failed \cup {k}
    BY <1>2
  <2> HIDE DEF ks
  <2> QED
    BY <1>1, <1>2, <2>1, GiveUpFields
<1>3. CASE Update(p, NextCheck(r)) /\ decided' = decided
  BY <1>1, <1>3, SkipFields
<1>4. ASSUME content \in Parsable, Update(p, v), decided' = decided
      PROVE  Begins(p) /\ Elsewhere(p)
  <2>1. to \in {"fix", "pick"}
    OBVIOUS
  <2>2. /\ v.pc = to /\ v.at = r.at /\ v.base = content /\ v.fresh = Fixables(k, content)
        /\ Kept(r, v) /\ v.raised = r.raised /\ v.outcome = r.outcome
    <3> HIDE DEF to, k
    <3> QED
      BY <1>1 DEF Fields, Kept
  <2>3. run'[p] = v /\ \A q \in Procs \ {p} : run'[q] = run[q]
    <3> HIDE DEF v
    <3> QED
      BY <1>4, UpdateMoves
  <2> HIDE DEF v, to
  <2> QED
    BY <1>1, <1>4, <2>1, <2>2, <2>3, Undisturbed DEF Begins
<1>5. QED
  BY <1>2, <1>3, <1>4 DEF Select

\* Fixing goes on with record s, the file as it was.
LEMMA WorkFields ==
  ASSUME TypeOK, NEW p \in Procs, NEW s, Update(p, s),
         content' = content, decided' = decided, foreign' = foreign, missed' = missed,
         run[p].pc \in Fixing, s.pc \in Fixing \ {"fix"}, s.at = run[p].at, s.fresh = run[p].fresh,
         Kept(run[p], s),
         \A x \in Keys : s.outcome[x] = run[p].outcome[x] \/ Says(Check(p), s.outcome[x]),
         s.pc = "compare" => /\ content \in Parsable \/ run[p].pc = "fix"
                             /\ s.base = IF run[p].pc = "fix" THEN run[p].base ELSE content
                             /\ s.draft \in Parsable,
         s.pc = "rename" => run[p].pc = "compare" /\ s.base = run[p].base /\ s.draft = run[p].draft
  PROVE  Works(p) /\ Elsewhere(p)
<1>1. run'[p] = s /\ \A q \in Procs \ {p} : run'[q] = run[q]
  BY UpdateMoves
<1>2. Elsewhere(p) /\ foreign'[p] = foreign[p] /\ decided'[p] = decided[p] /\ missed'[p] = missed[p]
  BY <1>1 DEF Elsewhere
<1>3. QED
  BY <1>1, <1>2 DEF Works

\* Every violation of a fix has the outcome said of all, the others none.
LEMMA AllSays ==
  ASSUME NEW k, NEW fresh, NEW o, Says(k, o)
  PROVE  \A x \in Keys : Says(k, All(fresh, o)[x])
BY DEF All, Says

\* Fixing with a fixer that writes once.
LEMMA FixFields ==
  ASSUME TypeOK, NEW p \in Procs, Fix(p)
  PROVE  (Works(p) \/ Rejects(p)) /\ Elsewhere(p)
<1> DEFINE r == run[p]
           declined == All(r.fresh, "declined")
<1>1. /\ r.pc = "fix" /\ r.at \in DOMAIN Order /\ DOMAIN r = Fields
      /\ content' = content /\ foreign' = foreign /\ missed' = missed
  BY FieldNames DEF TypeOK, Fix, At, Ready
<1>2. \A x \in Keys : Says(Check(p), declined[x])
  BY AllSays DEF Says
<1>3. ASSUME Update(p, [r EXCEPT !.pc = "verify", !.outcome = declined]), decided' = decided
      PROVE  Works(p) /\ Elsewhere(p)
  <2> DEFINE s == [r EXCEPT !.pc = "verify", !.outcome = declined]
  <2>1. /\ s.pc = "verify" /\ s.at = r.at /\ s.fresh = r.fresh /\ Kept(r, s)
        /\ s.raised = r.raised /\ s.outcome = declined
    <3> HIDE DEF declined
    <3> QED
      BY <1>1 DEF Fields, Kept
  <2>2. Update(p, s)
    BY <1>3
  <2> HIDE DEF s, declined
  <2> QED
    BY <1>1, <1>2, <1>3, <2>1, <2>2, WorkFields DEF Fixing
<1>4. ASSUME MayRaise, Update(p, [r EXCEPT !.pc = "verify", !.raised = TRUE]), decided' = decided
      PROVE  Works(p) /\ Elsewhere(p)
  <2> DEFINE s == [r EXCEPT !.pc = "verify", !.raised = TRUE]
  <2>1. /\ s.pc = "verify" /\ s.at = r.at /\ s.fresh = r.fresh /\ Kept(r, s)
        /\ s.outcome = r.outcome
    BY <1>1 DEF Fields, Kept
  <2>2. Update(p, s)
    BY <1>4
  <2> HIDE DEF s
  <2> QED
    BY <1>1, <1>4, <2>1, <2>2, WorkFields DEF Fixing
<1>5. ASSUME PlaceFresh(p, [r EXCEPT !.outcome = All(r.fresh, "rejected")])
      PROVE  Rejects(p) /\ Elsewhere(p)
  <2> DEFINE rejected == All(r.fresh, "rejected")
             w == [r EXCEPT !.outcome = rejected]
  <2>1. /\ DOMAIN w = Fields /\ w.at = r.at /\ w.initial = r.initial /\ w.entries = r.entries
        /\ w.fresh = r.fresh /\ w.failed = r.failed \cup {} /\ w.outcome = rejected
        /\ w.changed = r.changed /\ w.external = r.external
    <3> HIDE DEF rejected
    <3> QED
      BY <1>1 DEF Fields
  <2>2. PlaceFresh(p, w) /\ Untouched(p)
    BY <1>1, <1>5 DEF Untouched
  <2>3. /\ Ends(p, w.outcome, {}, w.changed, w.external)
        /\ \A q \in Procs \ {p} : run'[q] = run[q] /\ decided'[q] = decided[q]
    <3> HIDE DEF w
    <3> QED
      BY <1>1, <2>1, <2>2, PlaceFields
  <2> HIDE DEF w
  <2> QED
    BY <1>1, <2>1, <2>3 DEF Rejects, Elsewhere
<1>6. ASSUME NEW d \in Contents, NEW S, d \in Parsable, decided' = decided,
             Update(p, [r EXCEPT !.pc = "compare", !.draft = d, !.claim = S, !.outcome = declined])
      PROVE  Works(p) /\ Elsewhere(p)
  <2> DEFINE s == [r EXCEPT !.pc = "compare", !.draft = d, !.claim = S, !.outcome = declined]
  <2>1. /\ s.pc = "compare" /\ s.at = r.at /\ s.fresh = r.fresh /\ Kept(r, s)
        /\ s.raised = r.raised /\ s.outcome = declined /\ s.base = r.base /\ s.draft = d
    <3> HIDE DEF declined
    <3> QED
      BY <1>1 DEF Fields, Kept
  <2>2. Update(p, s)
    BY <1>6
  <2>3. s.draft \in Parsable
    BY <1>6, <2>1
  <2> HIDE DEF s, declined
  <2> QED
    BY <1>1, <1>2, <1>6, <2>1, <2>2, <2>3, WorkFields DEF Fixing
<1>7. QED
  BY <1>3, <1>4, <1>5, <1>6 DEF Fix, Validates

\* Fixing with a fixer that writes once per violation.
LEMMA FixNextFields ==
  ASSUME TypeOK, NEW p \in Procs, FixNext(p)
  PROVE  Works(p) /\ Elsewhere(p)
<1> DEFINE r == run[p]
<1>1. /\ r.pc = "pick" /\ r.at \in DOMAIN Order /\ DOMAIN r = Fields /\ r.outcome \in [Keys -> Outcomes]
      /\ content' = content /\ foreign' = foreign /\ decided' = decided /\ missed' = missed
  BY FieldNames DEF TypeOK, FixNext, At, Ready, Runs
<1>2. ASSUME MayRaise, Update(p, [r EXCEPT !.pc = "verify", !.raised = TRUE, !.outcome = NoOutcome, !.todo = {}])
      PROVE  Works(p) /\ Elsewhere(p)
  <2> DEFINE s == [r EXCEPT !.pc = "verify", !.raised = TRUE, !.outcome = NoOutcome, !.todo = {}]
  <2>1. /\ s.pc = "verify" /\ s.at = r.at /\ s.fresh = r.fresh /\ Kept(r, s)
        /\ s.outcome = NoOutcome
    BY <1>1 DEF Fields, Kept
  <2>2. \A x \in Keys : Says(Check(p), NoOutcome[x])
    BY DEF NoOutcome, Says
  <2>3. Update(p, s)
    BY <1>2
  <2> HIDE DEF s
  <2> QED
    BY <1>1, <1>2, <2>1, <2>2, <2>3, WorkFields DEF Fixing
<1>3. ASSUME NEW x \in r.todo, NEW o \in {"failed", "declined", "errored", "rejected"},
             Update(p, [[r EXCEPT !.todo = @ \ {x}] EXCEPT !.outcome[x] = o])
      PROVE  Works(p) /\ Elsewhere(p)
  <2> DEFINE s == [[r EXCEPT !.todo = @ \ {x}] EXCEPT !.outcome[x] = o]
             out == [r.outcome EXCEPT ![x] = o]
  <2>1. /\ s.pc = "pick" /\ s.at = r.at /\ s.fresh = r.fresh /\ Kept(r, s)
        /\ s.raised = r.raised /\ s.outcome = out
    BY <1>1 DEF Fields, Kept
  <2>2. \A y \in Keys : out[y] = r.outcome[y] \/ Says(Check(p), out[y])
    BY <1>1 DEF Says
  <2>3. Update(p, s)
    BY <1>3
  <2> HIDE DEF s, out
  <2> QED
    BY <1>1, <2>1, <2>2, <2>3, WorkFields DEF Fixing
<1>4. ASSUME NEW x \in r.todo, NEW d \in Contents, content \in Parsable, d \in Parsable,
             Update(p, [[r EXCEPT !.todo = @ \ {x}] EXCEPT !.pc = "compare", !.base = content,
                                                           !.draft = d, !.claim = {x}])
      PROVE  Works(p) /\ Elsewhere(p)
  <2> DEFINE s == [[r EXCEPT !.todo = @ \ {x}] EXCEPT !.pc = "compare", !.base = content,
                                                       !.draft = d, !.claim = {x}]
  <2>1. /\ s.pc = "compare" /\ s.at = r.at /\ s.fresh = r.fresh /\ Kept(r, s)
        /\ s.raised = r.raised /\ s.outcome = r.outcome /\ s.base = content /\ s.draft = d
    BY <1>1 DEF Fields, Kept
  <2>2. Update(p, s)
    BY <1>4
  <2>3. s.draft \in Parsable
    BY <1>4, <2>1
  <2> HIDE DEF s
  <2> QED
    BY <1>1, <1>4, <2>1, <2>2, <2>3, WorkFields DEF Fixing
<1>5. QED
  BY <1>2, <1>3, <1>4 DEF FixNext, Validates

\* The last of them is done.
LEMMA FixedAllFields ==
  ASSUME TypeOK, NEW p \in Procs, FixedAll(p)
  PROVE  Works(p) /\ Elsewhere(p)
<1> DEFINE r == run[p]
           s == [r EXCEPT !.pc = "verify"]
<1>1. /\ r.pc = "pick" /\ DOMAIN r = Fields
      /\ content' = content /\ foreign' = foreign /\ decided' = decided /\ missed' = missed
  BY FieldNames DEF TypeOK, FixedAll, At
<1>2. /\ s.pc = "verify" /\ s.at = r.at /\ s.fresh = r.fresh /\ Kept(r, s)
      /\ s.raised = r.raised /\ s.outcome = r.outcome
  BY <1>1 DEF Fields, Kept
<1>3. Update(p, s)
  BY DEF FixedAll
<1> HIDE DEF s
<1> QED
  BY <1>1, <1>2, <1>3, WorkFields DEF Fixing

\* Comparing.
LEMMA CompareFields ==
  ASSUME TypeOK, NEW p \in Procs, Compare(p)
  PROVE  (Works(p) \/ Aborts(p)) /\ Elsewhere(p)
<1> DEFINE r == run[p]
<1>1. /\ r.pc = "compare" /\ r.at \in DOMAIN Order /\ DOMAIN r = Fields
      /\ content' = content /\ foreign' = foreign /\ missed' = missed
  BY FieldNames DEF TypeOK, Compare, At, Ready
<1>2. ASSUME Update(p, [r EXCEPT !.pc = "rename"]), decided' = decided
      PROVE  Works(p) /\ Elsewhere(p)
  <2> DEFINE s == [r EXCEPT !.pc = "rename"]
  <2>1. /\ s.pc = "rename" /\ s.at = r.at /\ s.fresh = r.fresh /\ Kept(r, s)
        /\ s.raised = r.raised /\ s.outcome = r.outcome /\ s.base = r.base /\ s.draft = r.draft
    BY <1>1 DEF Fields, Kept
  <2>2. Update(p, s)
    BY <1>2
  <2> HIDE DEF s
  <2> QED
    BY <1>1, <1>2, <2>1, <2>2, WorkFields DEF Fixing
<1>3. ASSUME NEW o, Says(Check(p), o), AfterWrite(p, [r EXCEPT !.outcome = Some(@, r.claim, o)]), decided' = decided
      PROVE  Works(p) /\ Elsewhere(p)
  <2> DEFINE out == Some(r.outcome, r.claim, o)
             w == [r EXCEPT !.outcome = out]
             s == run'[p]
  <2>1. /\ DOMAIN w = Fields /\ w.at = r.at /\ w.fresh = r.fresh /\ Kept(r, w)
        /\ w.raised = r.raised /\ w.outcome = out
    <3> HIDE DEF out
    <3> QED
      BY <1>1 DEF Fields, Kept
  <2>2. AfterWrite(p, w)
    BY <1>3
  <2>3. /\ s.pc \in {"pick", "verify"} /\ s.at = w.at /\ s.fresh = w.fresh
        /\ s.outcome = w.outcome /\ s.raised = w.raised /\ Kept(w, s)
    <3> HIDE DEF w
    <3> QED
      BY <2>1, <2>2, AfterWriteFields
  <2>4. \A q \in Procs \ {p} : run'[q] = run[q]
    <3> HIDE DEF w
    <3>1. "pc" \in DOMAIN w
      BY <2>1 DEF Fields
    <3> QED
      BY <2>2, <3>1, AfterWriteMoves
  <2>5. \A x \in Keys : out[x] = r.outcome[x] \/ Says(Check(p), out[x])
    BY <1>3 DEF Some
  <2> HIDE DEF w, out
  <2>6. Kept(r, s)
    BY <2>1, <2>3 DEF Kept
  <2>7. Works(p)
    BY <1>1, <1>3, <2>1, <2>3, <2>5, <2>6 DEF Works, Fixing
  <2>8. QED
    BY <1>1, <1>3, <2>4, <2>7, Undisturbed
<1>4. ASSUME Conflict(r), Check(p) \notin Multi,
             PlaceFresh(p, [r EXCEPT !.outcome = All(r.fresh, "aborted"), !.changed = TRUE, !.external = TRUE])
      PROVE  Aborts(p) /\ Elsewhere(p)
  <2> DEFINE aborted == All(r.fresh, "aborted")
             w == [r EXCEPT !.outcome = aborted, !.changed = TRUE, !.external = TRUE]
  <2>1. /\ DOMAIN w = Fields /\ w.at = r.at /\ w.initial = r.initial /\ w.entries = r.entries
        /\ w.fresh = r.fresh /\ w.failed = r.failed \cup {} /\ w.outcome = aborted
        /\ w.changed = TRUE /\ w.external = TRUE
    <3> HIDE DEF aborted
    <3> QED
      BY <1>1 DEF Fields
  <2>2. PlaceFresh(p, w) /\ Untouched(p)
    BY <1>1, <1>4 DEF Untouched
  <2>3. /\ Ends(p, w.outcome, {}, w.changed, w.external)
        /\ \A q \in Procs \ {p} : run'[q] = run[q] /\ decided'[q] = decided[q]
    <3> HIDE DEF w
    <3> QED
      BY <1>1, <2>1, <2>2, PlaceFields
  <2> HIDE DEF w
  <2> QED
    BY <1>1, <1>4, <2>1, <2>3 DEF Aborts, Elsewhere, Conflict
<1>5. Says(Check(p), "failed") /\ (Check(p) \in Multi => Says(Check(p), "aborted"))
  BY DEF Says
<1>6. QED
  BY <1>2, <1>3, <1>4, <1>5 DEF Compare

\* Renaming.
LEMMA RenameFields ==
  ASSUME TypeOK, NEW p \in Procs, Rename(p)
  PROVE  Works(p) /\ Elsewhere(p)
<1> DEFINE r == run[p]
           s == run'[p]
<1>1. /\ r.pc = "rename" /\ DOMAIN r = Fields /\ decided' = decided
      /\ foreign'[p] = foreign[p]
      /\ \A q \in Procs : foreign'[q] = foreign[q] \/ foreign'[q]
      /\ \A q \in Procs \ {p} : content' # content => foreign'[q]
      /\ content' = content \/ content' = r.draft
  BY FieldNames DEF TypeOK, Rename, At
<1>11. /\ missed[p] \subseteq missed'[p] /\ (content' # content => "write" \in missed'[p])
       /\ \A q \in Procs \ {p} : missed'[q] = missed[q]
  BY RenameMisses
<1>2. PICK o \in {"applied", "failed"} : /\ AfterWrite(p, [r EXCEPT !.outcome = Some(@, r.claim, o)])
                                         /\ o = "applied" => content' = r.draft
  BY DEF Rename
<1> DEFINE out == Some(r.outcome, r.claim, o)
           w == [r EXCEPT !.outcome = out]
<1>3. /\ DOMAIN w = Fields /\ w.at = r.at /\ w.fresh = r.fresh /\ Kept(r, w)
      /\ w.raised = r.raised /\ w.outcome = out
  <2> HIDE DEF out
  <2> QED
    BY <1>1 DEF Fields, Kept
<1>4. AfterWrite(p, w)
  BY <1>2
<1>5. /\ s.pc \in {"pick", "verify"} /\ s.at = w.at /\ s.fresh = w.fresh
      /\ s.outcome = w.outcome /\ s.raised = w.raised /\ Kept(w, s)
  <2> HIDE DEF w
  <2> QED
    BY <1>3, <1>4, AfterWriteFields
<1>6. \A q \in Procs \ {p} : run'[q] = run[q]
  <2> HIDE DEF w
  <2>1. "pc" \in DOMAIN w
    BY <1>3 DEF Fields
  <2> QED
    BY <1>4, <2>1, AfterWriteMoves
<1>7. \A x \in Keys : \/ out[x] = r.outcome[x] \/ Says(Check(p), out[x])
                      \/ out[x] = "applied" /\ content' = r.draft
  BY <1>2 DEF Some, Says
<1> HIDE DEF w, out
<1>8. Kept(r, s)
  BY <1>3, <1>5 DEF Kept
<1>9. Works(p)
  BY <1>1, <1>3, <1>5, <1>7, <1>8, <1>11 DEF Works, Fixing
<1>10. QED
  BY <1>1, <1>6, <1>9, <1>11 DEF Elsewhere

\* Verifying.
LEMMA VerifyFields ==
  ASSUME TypeOK, NEW p \in Procs, Verify(p)
  PROVE  (Verifies(p) \/ GivesUp(p)) /\ Elsewhere(p)
<1> DEFINE r == run[p]
           k == Check(p)
           gave == IF r.raised THEN {k} ELSE {}
           still == Fixables(k, content)
<1>1. /\ r.pc = "verify" /\ r.at \in DOMAIN Order /\ DOMAIN r = Fields
      /\ content' = content /\ foreign' = foreign
      /\ \A q \in Procs \ {p} : missed'[q] = missed[q]
      /\ "fix" \in missed[p] => "fix" \in missed'[p]
  BY FieldNames, ObservedFields DEF TypeOK, Verify, At, Ready
<1>2. Untouched(p)
  BY <1>1 DEF Untouched
<1>3. ASSUME NEW o, NEW ch, PlaceFresh(p, [r EXCEPT !.outcome = o, !.failed = r.failed \cup gave, !.changed = ch])
      PROVE  Ends(p, o, gave, ch, r.external) /\ Elsewhere(p)
  <2> DEFINE fl == r.failed \cup gave
             w == [r EXCEPT !.outcome = o, !.failed = fl, !.changed = ch]
  <2>1. /\ DOMAIN w = Fields /\ w.at = r.at /\ w.initial = r.initial /\ w.entries = r.entries
        /\ w.fresh = r.fresh /\ w.failed = fl /\ w.outcome = o
        /\ w.changed = ch /\ w.external = r.external
    <3> HIDE DEF gave
    <3> QED
      BY <1>1 DEF Fields
  <2>2. PlaceFresh(p, w)
    BY <1>3
  <2>3. /\ Ends(p, w.outcome, gave, w.changed, w.external)
        /\ \A q \in Procs \ {p} : run'[q] = run[q] /\ decided'[q] = decided[q]
    <3> HIDE DEF w, gave
    <3> QED
      BY <1>1, <1>2, <2>1, <2>2, PlaceFields
  <2> HIDE DEF w, gave
  <2> QED
    BY <1>1, <2>1, <2>3 DEF Elsewhere
<1>4. ASSUME Unreadable, Observed(p, FALSE),
             PlaceFresh(p, [r EXCEPT !.outcome = Judged(r, r.fresh, FALSE), !.failed = @ \cup gave])
      PROVE  Verifies(p) /\ Elsewhere(p)
  <2> DEFINE o == Judged(r, r.fresh, FALSE)
             fl == r.failed \cup gave
             w == [r EXCEPT !.outcome = o, !.failed = fl]
  <2>1. /\ DOMAIN w = Fields /\ w.at = r.at /\ w.initial = r.initial /\ w.entries = r.entries
        /\ w.fresh = r.fresh /\ w.failed = fl /\ w.outcome = o
        /\ w.changed = r.changed /\ w.external = r.external
    <3> HIDE DEF gave, o
    <3> QED
      BY <1>1 DEF Fields
  <2>2. PlaceFresh(p, w)
    BY <1>4
  <2>3. /\ Ends(p, w.outcome, gave, w.changed, w.external)
        /\ \A q \in Procs \ {p} : run'[q] = run[q] /\ decided'[q] = decided[q]
    <3> HIDE DEF w, gave, o
    <3> QED
      BY <1>1, <1>2, <2>1, <2>2, PlaceFields
  <2>4. Ends(p, o, gave, r.changed, r.external) /\ Elsewhere(p)
    <3> HIDE DEF w, gave, o
    <3> QED
      BY <1>1, <2>1, <2>3 DEF Elsewhere
  <2>5. "write" \in missed[p] => "fix" \in missed'[p]
    BY <1>4, ObservedFields
  <2>6. QED
    BY <1>1, <1>4, <2>4, <2>5 DEF Verifies
<1>5. ASSUME content \in Parsable, Observed(p, Cardinality(still) < Cardinality(r.fresh)),
             PlaceFresh(p, [r EXCEPT !.outcome = Judged(r, still, TRUE), !.failed = @ \cup gave,
                                     !.changed = @ \/ Cardinality(still) < Cardinality(r.fresh)])
      PROVE  Verifies(p) /\ Elsewhere(p)
  <2> DEFINE o == Judged(r, still, TRUE)
             ch == r.changed \/ Cardinality(still) < Cardinality(r.fresh)
  <2>1. PlaceFresh(p, [r EXCEPT !.outcome = o, !.failed = r.failed \cup gave, !.changed = ch])
    BY <1>5
  <2>2. Ends(p, o, gave, ch, r.external) /\ Elsewhere(p)
    <3> HIDE DEF o, ch, gave
    <3> QED
      BY <1>3, <2>1
  <2>3. "write" \in missed[p] => run'[p].changed \/ "fix" \in missed'[p]
    <3>1. run'[p].changed = ch
      BY <2>2 DEF Ends
    <3> DEFINE fewer == Cardinality(still) < Cardinality(r.fresh)
    <3>2. Observed(p, fewer)
      BY <1>5
    <3>3. fewer => ch
      OBVIOUS
    <3> HIDE DEF fewer, ch
    <3>4. "write" \in missed[p] /\ ~ fewer => "fix" \in missed'[p]
      BY <3>2, ObservedFields
    <3>5. QED
      BY <3>1, <3>3, <3>4
  <2>4. QED
    BY <1>1, <1>5, <2>2, <2>3 DEF Verifies
<1>6. ASSUME MayRaise, Record(p, [r EXCEPT !.failed = @ \cup {k}], Errored(r.entries, k))
      PROVE  GivesUp(p) /\ Elsewhere(p)
  <2> DEFINE ks == r.failed \cup {k}
  <2>1. Record(p, [run[p] EXCEPT !.failed = ks], Errored(run[p].entries, Check(p))) /\ ks = r.failed \cup {k}
    BY <1>6
  <2>2. Unreadable
    BY <1>6 DEF Unreadable
  <2> HIDE DEF ks
  <2> QED
    BY <1>1, <2>1, <2>2, GiveUpFields
<1>7. QED
  BY <1>4, <1>5, <1>6 DEF Verify

\* Finishing.
LEMMA FinishFields ==
  ASSUME TypeOK, NEW p \in Procs, Finish(p)
  PROVE  Closes(p) /\ Elsewhere(p)
<1> DEFINE r == run[p]
           s == run'[p]
<1>1. /\ r.pc = "select" /\ r.at > Len(Order) /\ DOMAIN r = Fields
      /\ content' = content /\ foreign' = foreign /\ decided' = decided
      /\ \A q \in Procs \ {p} : missed'[q] = missed[q]
  BY FieldNames DEF TypeOK, Finish, At
<1>2. PICK bad \in Raising, reread \in BOOLEAN :
        LET ks == IF reread THEN Stale(r.entries) ELSE {}
            now == IF reread THEN Refreshed(r.entries, ks \ bad, content) ELSE r.entries
            lost == IF Attributes(r) THEN Attributions(now, r.initial) ELSE {{}}
        IN  /\ reread => r.changed /\ content \in Parsable
            /\ ~ reread => ~ r.changed \/ Unreadable
            /\ \E S \in lost :
                 Leave(p, [r EXCEPT !.entries = now \cup {Entry(f, "indirect", TRUE) : f \in S},
                                    !.failed = @ \cup (bad \cap ks)])
            /\ missed' = IF r.changed /\ ~ reread THEN [missed EXCEPT ![p] = @ \cup {"end"}] ELSE missed
  BY DEF Finish
<1> DEFINE ks == IF reread THEN Stale(r.entries) ELSE {}
           now == IF reread THEN Refreshed(r.entries, ks \ bad, content) ELSE r.entries
           lost == IF Attributes(r) THEN Attributions(now, r.initial) ELSE {{}}
<1>3. PICK S \in lost : Leave(p, [r EXCEPT !.entries = now \cup {Entry(f, "indirect", TRUE) : f \in S},
                                           !.failed = @ \cup (bad \cap ks)])
  BY <1>2
<1> DEFINE es == now \cup {Entry(f, "indirect", TRUE) : f \in S}
           fl == r.failed \cup (bad \cap ks)
           w == [r EXCEPT !.entries = es, !.failed = fl]
<1>4. Leave(p, w)
  BY <1>3
<1>5. /\ DOMAIN w = Fields /\ w.entries = es /\ w.initial = r.initial /\ w.failed = fl
      /\ w.changed = r.changed /\ w.external = r.external /\ w.raised = r.raised
  <2> HIDE DEF es, fl
  <2> QED
    BY <1>1 DEF Fields
<1>6. /\ s.pc \in {"store", "done"} /\ (s.pc = "store" => Cacheable(s))
      /\ s.raised = w.raised /\ Kept(w, s)
  <2> HIDE DEF w
  <2> QED
    BY <1>4, <1>5, LeaveFields
<1>7. \A q \in Procs \ {p} : run'[q] = run[q]
  <2> HIDE DEF w
  <2>1. "pc" \in DOMAIN w
    BY <1>5 DEF Fields
  <2> QED
    BY <1>4, <2>1, LeaveMoves
<1>8. /\ s.entries = es /\ s.failed = fl /\ s.initial = r.initial
      /\ s.changed = r.changed /\ s.external = r.external /\ s.raised = r.raised
  <2> HIDE DEF w, es, fl
  <2> QED
    BY <1>5, <1>6 DEF Kept
<1>9. Elsewhere(p) /\ Untouched(p) /\ decided'[p] = decided[p]
  BY <1>1, <1>7 DEF Elsewhere, Untouched
<1>10. /\ reread => r.changed /\ content \in Parsable
       /\ ~ reread => ~ r.changed \/ Unreadable
       /\ missed'[p] = IF r.changed /\ ~ reread THEN missed[p] \cup {"end"} ELSE missed[p]
  BY <1>2 DEF TypeOK
<1>11. Reports(p, bad, reread)
  <2>1. \E T \in lost : s.entries = now \cup {Entry(f, "indirect", TRUE) : f \in T}
    <3> HIDE DEF lost, now
    <3> QED
      BY <1>3, <1>8
  <2> HIDE DEF w, es
  <2> QED
    BY <1>1, <1>6, <1>8, <1>9, <1>10, <2>1 DEF Reports
<1>12. QED
  BY <1>9, <1>11 DEF Closes

\* Storing.
LEMMA StoreFields ==
  ASSUME TypeOK, NEW p \in Procs, Store(p)
  PROVE  Keeps(p) /\ Elsewhere(p)
<1> DEFINE r == run[p]
           s == [r EXCEPT !.pc = "done"]
<1>1. /\ r.pc = "store" /\ DOMAIN r = Fields
      /\ content' = content /\ foreign' = foreign /\ decided' = decided /\ missed' = missed
  BY FieldNames DEF TypeOK, Store, At
<1>2. s.pc = "done" /\ Kept(r, s)
  BY <1>1 DEF Fields, Kept
<1>3. Update(p, s)
  BY DEF Store
<1>4. run'[p] = s /\ \A q \in Procs \ {p} : run'[q] = run[q]
  <2> HIDE DEF s
  <2> QED
    BY <1>3, UpdateMoves
<1>5. Elsewhere(p) /\ Untouched(p) /\ decided'[p] = decided[p] /\ missed'[p] = missed[p]
  BY <1>1, <1>4, Undisturbed
<1>6. cached' = [content |-> content,
                 violations |-> {Finding(e) : e \in {f \in r.entries : f.outcome # "applied"}}]
  BY <1>1 DEF Store, Untouched
<1> HIDE DEF s
<1>7. QED
  BY <1>1, <1>2, <1>4, <1>5, <1>6 DEF Keeps

\* Taking the lock.
LEMMA LockFields ==
  ASSUME TypeOK, NEW p \in Procs, Lock(p)
  PROVE  Starts(p) /\ Elsewhere(p)
<1> DEFINE r == run[p]
           s == [r EXCEPT !.pc = "check"]
<1>1. /\ r.pc = "lock" /\ DOMAIN r = Fields
      /\ content' = content /\ foreign' = foreign /\ decided' = decided /\ missed' = missed
  BY FieldNames DEF TypeOK, Lock, At
<1>2. s.pc = "check" /\ s.at = r.at /\ Kept(r, s) /\ s.raised = r.raised /\ s.outcome = r.outcome
  BY <1>1 DEF Fields, Kept
<1>3. Update(p, s)
  BY DEF Lock
<1>4. run'[p] = s /\ \A q \in Procs \ {p} : run'[q] = run[q]
  <2> HIDE DEF s
  <2> QED
    BY <1>3, UpdateMoves
<1>5. Elsewhere(p) /\ Untouched(p) /\ decided'[p] = decided[p] /\ missed'[p] = missed[p]
  BY <1>1, <1>4, Undisturbed
<1> HIDE DEF s
<1>6. QED
  BY <1>1, <1>2, <1>4, <1>5 DEF Starts

\* Every step of a process is one of these moves, and leaves the others' reports alone.
LEMMA StepMoves ==
  ASSUME TypeOK, NEW p \in Procs, Step(p)
  PROVE  Moves(p) /\ Elsewhere(p) /\ finds' = finds
<1>1. finds' = finds
  BY DEF Step, Lock, LockTimeout, CheckFile, Skip, Select, Fix, FixNext, FixedAll, Compare, Rename,
         Verify, Finish, Store, Crash
<1>2. CASE LockTimeout(p) \/ Crash(p)
  <2>1. PICK s : s.pc \in {"unprocessable", "crashed"} /\ Update(p, s)
    <3> DEFINE v == [run[p] EXCEPT !.pc = "unprocessable"]
               w == [Fresh EXCEPT !.pc = "crashed"]
    <3>1. DOMAIN run[p] = Fields /\ DOMAIN Fresh = Fields
      BY FieldNames DEF TypeOK, Fresh, Fields
    <3>2. v.pc = "unprocessable" /\ w.pc = "crashed"
      BY <3>1 DEF Fields
    <3>3. Update(p, v) \/ Update(p, w)
      BY <1>2 DEF LockTimeout, Crash
    <3> HIDE DEF v, w
    <3>4. QED
      BY <3>2, <3>3
  <2>2. content' = content /\ decided' = decided /\ foreign' = foreign /\ missed' = missed
    BY <1>2 DEF LockTimeout, Crash
  <2>3. Stops(p) /\ \A q \in Procs \ {p} : run'[q] = run[q]
    BY <2>1, <2>2, StopFields
  <2>4. QED
    BY <1>1, <2>2, <2>3, Undisturbed DEF Moves
<1>3. CASE Skip(p)
  <2>1. run[p].at \in 1 .. Len(Order) + 1 /\ run[p].at <= Len(Order) /\ run[p].pc = "select"
    BY <1>3 DEF Skip, At, TypeOK, Runs
  <2>2. run[p].at \in DOMAIN Order
    BY <2>1, FixConstants
  <2>3. Passes(p) /\ Elsewhere(p)
    BY <1>3, <2>1, <2>2, SkipFields DEF Skip
  <2>4. QED
    BY <1>1, <2>3 DEF Moves
<1>4. QED
  BY <1>1, <1>2, <1>3, LockFields, CheckFields, SelectFields, FixFields, FixNextFields, FixedAllFields,
     CompareFields, RenameFields, VerifyFields, FinishFields, StoreFields DEF Step, Moves

--------------------------------------------------------------------------------
(* What is final stays in the report *)

\* What p has decided is among its entries, final, and of a check it is through with.
Decided(p) ==
  LET r == run[p]
  IN  /\ r.pc \notin {"unprocessable", "crashed"} => decided[p] \subseteq r.entries
      /\ r.pc \in {"lock", "check"} => decided[p] = {}
      /\ \A e \in decided[p] :
           e.outcome \in Terminal /\ (r.pc \in Working => \E i \in DOMAIN Order : i < r.at /\ Order[i] = e.check)

\* Going on to the next check keeps what was decided, and adds what is decided now.
LEMMA RemembersDecided ==
  ASSUME TypeOK, NEW p \in Procs, Decided(p), run[p].pc \in Working, NEW es, Remembers(p, es),
         \A e \in run[p].entries : e.check # Check(p) => e \in es
  PROVE  Decided(p)'
<1> DEFINE k == Check(p)
<1>1. ASSUME NEW e \in decided[p]
      PROVE  /\ e \in es /\ e.outcome \in Terminal
             /\ \E i \in DOMAIN Order : i < run[p].at + 1 /\ Order[i] = e.check
  <2>1. PICK i \in DOMAIN Order : i < run[p].at /\ Order[i] = e.check
    BY DEF Decided
  <2>2. run[p].at \in DOMAIN Order
    BY DEF Remembers, GoesOn
  <2>3. i \in Nat /\ run[p].at \in Nat
    BY <2>2, FixConstants
  <2>4. e.check # k
    BY <2>1, <2>2, <2>3, FixCounts DEF Check
  <2>5. e \in es /\ e.outcome \in Terminal
    BY <2>4 DEF Decided, Working
  <2>6. QED
    BY <2>1, <2>3, <2>5
<1>2. ASSUME NEW e \in OfCheck(es, k)
      PROVE  e \in es /\ \E i \in DOMAIN Order : i < run[p].at + 1 /\ Order[i] = e.check
  <2>1. e \in es /\ e.check = Order[run[p].at] /\ run[p].at \in DOMAIN Order
    BY DEF OfCheck, Check, Remembers, GoesOn
  <2>2. run[p].at \in Nat
    BY <2>1, FixConstants
  <2>3. QED
    BY <2>1, <2>2
<1>3. /\ run'[p].entries = es /\ run'[p].pc = "select" /\ run'[p].at = run[p].at + 1
      /\ decided'[p] = decided[p] \cup {e \in OfCheck(es, k) : e.outcome \in Terminal}
  BY DEF Remembers, GoesOn
<1> HIDE DEF k
<1>4. QED
  BY <1>1, <1>2, <1>3 DEF Decided

\* Giving up on a check, or placing its outcomes, concerns no other check.
LEMMA OthersStay ==
  ASSUME NEW es, NEW k
  PROVE  /\ \A e \in es : e.check # k => e \in Errored(es, k)
         /\ \A fresh, o : \A e \in es : e.check # k => e \in Place(es, k, fresh, o)
BY DEF Errored, Place

\* The refresh leaves alone what is final: its check has settled.
LEMMA ReportsKeepFinal ==
  ASSUME NEW p, NEW bad, NEW reread \in BOOLEAN, Reports(p, bad, reread),
         NEW e \in run[p].entries, e.outcome \in Terminal
  PROVE  e \in run'[p].entries
<1> DEFINE es == run[p].entries
           ks == IF reread THEN Stale(es) ELSE {}
           now == IF reread THEN Refreshed(es, ks \ bad, content) ELSE es
<1>1. e.check \notin Stale(es)
  BY DEF Stale, Settled, OfCheck
<1>2. e \in now
  BY <1>1 DEF Refreshed
<1>3. now \subseteq run'[p].entries
  <2> HIDE DEF now
  <2> QED
    BY DEF Reports, now
<1>4. QED
  BY <1>2, <1>3

\* One step keeps what was decided.
LEMMA DecidedStep ==
  ASSUME TypeOK, OneFixer, \A p \in Procs : Decided(p), [Next]_vars, NEW q \in Procs
  PROVE  Decided(q)'
<1>1. ASSUME UNCHANGED <<run, decided>>
      PROVE  Decided(q)'
  BY <1>1 DEF Decided
<1>2. ASSUME NEW p \in Procs, Step(p), p # q
      PROVE  Decided(q)'
  <2>1. run'[q] = run[q] /\ decided'[q] = decided[q]
    BY <1>2, StepMoves DEF Elsewhere
  <2>2. QED
    BY <2>1 DEF Decided
<1>3. ASSUME Step(q)
      PROVE  Decided(q)'
  <2>0. Moves(q) /\ Decided(q)
    BY <1>3, StepMoves
  <2>1. CASE Stops(q)
    BY <2>0, <2>1 DEF Stops, Kept, Decided, Working
  <2>2. CASE Starts(q)
    BY <2>0, <2>2 DEF Starts, Kept, Decided
  <2>3. CASE Finds(q)
    <3>1. decided'[q] = {} /\ run'[q].pc \notin {"lock", "check"}
      BY <2>0, <2>3 DEF Finds, Decided
    <3>2. QED
      BY <3>1 DEF Decided
  <2>4. CASE Passes(q)
    <3>1. run'[q].entries = run[q].entries /\ run'[q].pc = "select" /\ run'[q].at = run[q].at + 1
          /\ run[q].at \in Nat /\ decided'[q] = decided[q] /\ run[q].pc = "select"
      BY <2>4, FixConstants DEF Passes, GoesOn
    <3>2. \A i \in DOMAIN Order : i \in Nat
      BY FixConstants
    <3>3. QED
      BY <2>0, <3>1, <3>2 DEF Decided, Working
  <2>5. CASE GivesUp(q)
    BY <2>0, <2>5, OthersStay, RemembersDecided DEF GivesUp, Working
  <2>6. CASE Begins(q)
    BY <2>0, <2>6 DEF Begins, Kept, Decided, Working
  <2>7. CASE Works(q)
    BY <2>0, <2>7 DEF Works, Kept, Decided, Working, Fixing
  <2>8. CASE Rejects(q)
    BY <2>0, <2>8, OthersStay, RemembersDecided DEF Rejects, Ends, Working
  <2>9. CASE Aborts(q)
    BY <2>0, <2>9, OthersStay, RemembersDecided DEF Aborts, Ends, Working
  <2>10. CASE Verifies(q)
    BY <2>0, <2>10, OthersStay, RemembersDecided DEF Verifies, Ends, Working
  <2>11. CASE Closes(q)
    <3>1. decided'[q] = decided[q] /\ run'[q].pc \notin {"lock", "check"} /\ run'[q].pc \notin Working
      BY <2>11 DEF Closes, Reports, Working
    <3>2. \A e \in decided[q] : e \in run'[q].entries /\ e.outcome \in Terminal
      <4>1. \A e \in decided[q] : e \in run[q].entries /\ e.outcome \in Terminal
        BY <2>0, <2>11 DEF Decided, Closes, Reports
      <4>2. QED
        BY <2>11, <4>1, ReportsKeepFinal DEF Closes
    <3>3. QED
      BY <3>1, <3>2 DEF Decided
  <2>12. CASE Keeps(q)
    BY <2>0, <2>12 DEF Keeps, Kept, Decided, Working
  <2>13. QED
    BY <2>0, <2>1, <2>2, <2>3, <2>4, <2>5, <2>6, <2>7, <2>8, <2>9, <2>10, <2>11, <2>12 DEF Moves
<1>4. QED
  BY <1>1, <1>2, <1>3 DEF Next, Edit, Over, vars

\* A rejected, errored, failed or aborted fix is in the final report as such, whatever
\* later fixers, the refresh and the attribution do, for any checks, violations and
\* processes (_refresh_stale_positions, _record_indirect_resolutions).
THEOREM DecisionsAreKept == Spec => []TerminalKept
<1> DEFINE Inv == TypeOK /\ OneFixer /\ \A p \in Procs : Decided(p)
<1>1. Inv /\ [Next]_vars => Inv'
  BY TypeStep, AloneStep, DecidedStep
<1>2. Init => Inv
  <2>1. Init => \A p \in Procs : Decided(p)
    BY DEF Init, Decided, Fresh
  <2>2. QED
    BY <2>1, TypeInit, AloneInit
<1>3. Inv => TerminalKept
  BY DEF Decided, TerminalKept, Finished
<1>4. QED
  BY <1>1, <1>2, <1>3, PTL DEF Spec

--------------------------------------------------------------------------------
(* What an abort means for the report *)

\* Until its report is closed p attributes nothing, and an abort it has recorded is one
\* it has noticed, or that of a fixer which writes once per violation.
Attributed(p) ==
  LET r == run[p]
  IN  /\ r.pc \in {"lock", "check"} => r.outcome = NoOutcome /\ r.entries = {}
      /\ r.pc = "select" => r.outcome = NoOutcome
      /\ r.pc \in Fixing => \A x \in Keys : Says(Check(p), r.outcome[x]) \/ r.outcome[x] = "applied"
      /\ r.pc \in Working => \A e \in r.entries : /\ e.outcome # "indirect"
                                                  /\ e.outcome = "aborted" => e.check \in Multi \/ r.external
      /\ Finished(p) => ~ \E e, f \in r.entries :
                            e.outcome = "aborted" /\ e.check \notin Multi /\ f.outcome = "indirect"

\* What the verification makes of an outcome nobody attributed.
LEMMA JudgedSays ==
  ASSUME NEW k, NEW r, NEW still, NEW compared \in BOOLEAN,
         \A x \in Keys : Says(k, r.outcome[x]) \/ r.outcome[x] = "applied"
  PROVE  \A x \in Keys : LET o == Judged(r, still, compared)[x] IN Says(k, o) \/ o = "applied"
<1> SUFFICES ASSUME NEW x \in Keys
             PROVE  LET o == Judged(r, still, compared)[x] IN Says(k, o) \/ o = "applied"
  OBVIOUS
<1> DEFINE m == IF compared THEN Marked(r.outcome[x], x \in still)
                            ELSE IF r.outcome[x] = "applied" THEN "declined" ELSE r.outcome[x]
<1>1. Says(k, m) \/ m = "applied"
  BY DEF Marked, Says
<1>2. Judged(r, still, compared)[x] \in {"none", "errored", m}
  <2>1. Judged(r, still, compared)[x] = IF x \notin r.fresh THEN "none"
                                        ELSE IF r.raised /\ x \in still THEN "errored" ELSE m
    BY DEF Judged
  <2> HIDE DEF m
  <2> QED
    BY <2>1
<1>3. QED
  <2> HIDE DEF m
  <2> QED
    BY <1>1, <1>2 DEF Says

\* Going on with entries nobody attributed.
LEMMA RemembersAttributed ==
  ASSUME NEW p, NEW es, Remembers(p, es),
         \A e \in es : /\ e.outcome # "indirect"
                       /\ e.outcome = "aborted" => e.check \in Multi \/ run'[p].external
  PROVE  Attributed(p)'
BY DEF Remembers, GoesOn, Attributed, Fixing, Finished

\* The entries with which a fix is placed.
LEMMA EndsAttributed ==
  ASSUME NEW p, run[p].pc \in Working, Attributed(p), NEW o, NEW gave, NEW ch, NEW ext,
         Ends(p, o, gave, ch, ext), run[p].external => ext, run[p].fresh \subseteq Keys,
         \A x \in Keys : Says(Check(p), o[x]) \/ o[x] = "applied" \/ (o[x] = "aborted" /\ ext)
  PROVE  Attributed(p)'
<1> DEFINE k == Check(p)
           es == Place(run[p].entries, k, run[p].fresh, o)
<1>1. ASSUME NEW e \in es
      PROVE  e.outcome # "indirect" /\ (e.outcome = "aborted" => e.check \in Multi \/ ext)
  <2>1. CASE e \in run[p].entries
    BY <2>1 DEF Attributed
  <2>2. CASE e \notin run[p].entries
    <3>1. PICK x \in run[p].fresh : e.check = k /\ e.outcome = o[x]
      <4> HIDE DEF k
      <4> QED
        BY <2>2 DEF Place
    <3>2. QED
      BY <3>1 DEF Says
  <2>3. QED
    BY <2>1, <2>2
<1>2. Remembers(p, es) /\ run'[p].external = ext
  BY DEF Ends
<1> HIDE DEF es
<1>3. QED
  BY <1>1, <1>2, RemembersAttributed

\* Closing a report: an external edit that was noticed attributes nothing.
LEMMA ReportsAttributed ==
  ASSUME NEW p, Attributed(p), NEW bad \in Raising, NEW reread \in BOOLEAN, Reports(p, bad, reread)
  PROVE  Attributed(p)'
<1> DEFINE r == run[p]
           s == run'[p]
           ks == IF reread THEN Stale(r.entries) ELSE {}
           now == IF reread THEN Refreshed(r.entries, ks \ bad, content) ELSE r.entries
           lost == IF Attributes(r) THEN Attributions(now, r.initial) ELSE {{}}
<1>1. PICK S \in lost : s.entries = now \cup {Entry(f, "indirect", TRUE) : f \in S}
  BY DEF Reports
<1>2. ASSUME NEW e \in now
      PROVE  e \in r.entries \/ e.outcome = "none"
  BY DEF Refreshed, Entry
<1>3. \A e \in r.entries : e.outcome # "indirect" /\ (e.outcome = "aborted" => e.check \in Multi \/ r.external)
  BY DEF Reports, Attributed, Working
<1>4. ASSUME NEW e \in s.entries, NEW f \in s.entries,
             e.outcome = "aborted", e.check \notin Multi, f.outcome = "indirect"
      PROVE  FALSE
  <2>1. e \in r.entries
    <3>1. \A g \in S : Entry(g, "indirect", TRUE).outcome = "indirect"
      BY DEF Entry
    <3> HIDE DEF now
    <3> QED
      BY <1>1, <1>2, <1>4, <3>1
  <2>2. r.external
    BY <1>3, <1>4, <2>1
  <2>3. S = {}
    <3> HIDE DEF now
    <3> QED
      BY <2>2 DEF Attributes
  <2>4. f \in now
    <3> HIDE DEF now
    <3> QED
      BY <1>1, <2>3
  <2>5. QED
    BY <1>2, <1>3, <1>4, <2>4
<1>5. s.pc \in {"store", "done"}
  BY DEF Reports
<1>6. QED
  BY <1>4, <1>5 DEF Attributed, Working, Fixing

\* One step keeps it.
LEMMA AttributedStep ==
  ASSUME TypeOK, OneFixer, \A p \in Procs : Attributed(p), [Next]_vars, NEW q \in Procs
  PROVE  Attributed(q)'
<1>1. ASSUME UNCHANGED run
      PROVE  Attributed(q)'
  BY <1>1 DEF Attributed, Finished, Says, Check
<1>2. ASSUME NEW p \in Procs, Step(p), p # q
      PROVE  Attributed(q)'
  <2>1. run'[q] = run[q]
    BY <1>2, StepMoves DEF Elsewhere
  <2>2. QED
    BY <2>1 DEF Attributed, Finished, Says, Check
<1>3. ASSUME Step(q)
      PROVE  Attributed(q)'
  <2> DEFINE r == run[q]
             s == run'[q]
  <2>0. Moves(q) /\ Attributed(q) /\ r.fresh \subseteq Keys
    BY <1>3, StepMoves DEF TypeOK, Runs
  <2>1. CASE Stops(q)
    BY <2>1 DEF Stops, Attributed, Finished, Working, Fixing
  <2>2. CASE Starts(q)
    <3>1. r.entries = {}
      BY <2>0, <2>2 DEF Starts, Attributed
    <3>2. QED
      BY <2>0, <2>2, <3>1 DEF Starts, Kept, Attributed, Finished, Working, Fixing
  <2>3. CASE Finds(q)
    <3>1. \A e \in s.entries : e.outcome = "none"
      BY <2>3 DEF Finds, Entry
    <3>2. s.outcome = NoOutcome /\ s.pc \in {"select", "store", "done"}
      BY <2>0, <2>3 DEF Finds, Attributed
    <3>3. QED
      BY <3>1, <3>2 DEF Attributed, Finished, Working, Fixing
  <2>4. CASE Passes(q)
    <3>1. s.pc = "select" /\ r.pc = "select" /\ s.outcome = NoOutcome /\ Kept(r, s)
      BY <2>4 DEF Passes, GoesOn
    <3>2. QED
      BY <2>0, <3>1 DEF Attributed, Kept, Finished, Working, Fixing
  <2>5. CASE GivesUp(q)
    <3>1. \A e \in Errored(r.entries, Check(q)) : e \in r.entries \/ e.outcome = "errored"
      BY <1>3 DEF Errored, OfCheck, TypeOK, Runs, Entries
    <3>2. QED
      BY <2>0, <2>5, <3>1, RemembersAttributed DEF GivesUp, Attributed, Working
  <2>6. CASE Begins(q)
    <3>1. \A x \in Keys : s.outcome[x] = "none"
      BY <2>0, <2>6 DEF Begins, Attributed, NoOutcome
    <3>2. s.pc \in {"fix", "pick"} /\ r.pc = "select" /\ Kept(r, s)
      BY <2>6 DEF Begins
    <3>3. QED
      BY <2>0, <3>1, <3>2 DEF Attributed, Kept, Says, Finished, Working, Fixing
  <2>7. CASE Works(q)
    <3>1. \A x \in Keys : Says(Check(q), s.outcome[x]) \/ s.outcome[x] = "applied"
      BY <2>0, <2>7 DEF Works, Attributed
    <3>2. r.pc \in Fixing /\ s.pc \in Fixing /\ Kept(r, s) /\ s.at = r.at
      BY <2>7 DEF Works
    <3>3. QED
      BY <2>0, <3>1, <3>2 DEF Attributed, Kept, Check, Finished, Working, Fixing
  <2>8. CASE Rejects(q)
    <3>1. \A x \in Keys : Says(Check(q), All(r.fresh, "rejected")[x])
      BY AllSays DEF Says
    <3>2. QED
      BY <2>0, <2>8, <3>1, EndsAttributed DEF Rejects, Working
  <2>9. CASE Aborts(q)
    <3> DEFINE o == All(r.fresh, "aborted")
    <3>1. \A x \in Keys : o[x] \in {"none", "aborted"}
      BY DEF All
    <3>2. r.pc \in Working /\ Ends(q, o, {}, TRUE, TRUE)
      BY <2>9 DEF Aborts, Working
    <3>3. \A x \in Keys : Says(Check(q), o[x]) \/ o[x] = "applied" \/ (o[x] = "aborted" /\ TRUE)
      BY <3>1 DEF Says
    <3> HIDE DEF o
    <3>4. QED
      BY <2>0, <3>2, <3>3, EndsAttributed
  <2>10. CASE Verifies(q)
    <3> DEFINE gave == IF r.raised THEN {Check(q)} ELSE {}
    <3>1. r.pc = "verify" /\ \A x \in Keys : Says(Check(q), r.outcome[x]) \/ r.outcome[x] = "applied"
      BY <2>0, <2>10 DEF Verifies, Attributed, Fixing
    <3>2. ASSUME NEW still, NEW compared \in BOOLEAN, NEW ch, Ends(q, Judged(r, still, compared), gave, ch, r.external)
          PROVE  Attributed(q)'
      <4> DEFINE o == Judged(r, still, compared)
                 k == Check(q)
      <4>1. \A x \in Keys : Says(k, o[x]) \/ o[x] = "applied"
        <5> HIDE DEF k, r
        <5> QED
          BY <3>1, JudgedSays DEF k
      <4>2. Ends(q, o, gave, ch, r.external)
        BY <3>2
      <4> HIDE DEF o, gave
      <4>3. QED
        BY <2>0, <3>1, <4>1, <4>2, EndsAttributed DEF Working
    <3>3. QED
      BY <2>10, <3>2 DEF Verifies
  <2>11. CASE Closes(q)
    BY <2>0, <2>11, ReportsAttributed DEF Closes
  <2>12. CASE Keeps(q)
    BY <2>0, <2>12 DEF Keeps, Kept, Attributed, Finished, Working, Fixing
  <2>13. QED
    BY <2>0, <2>1, <2>2, <2>3, <2>4, <2>5, <2>6, <2>7, <2>8, <2>9, <2>10, <2>11, <2>12 DEF Moves
<1>4. QED
  BY <1>1, <1>2, <1>3 DEF Next, Edit, Over, vars

\* A run that noticed an external edit attributes no resolution to its own fixes,
\* whatever else it met (externally_modified in _apply_fixes).
THEOREM AbortsStandAlone == Spec => []AbortAttributesNothing
<1> DEFINE Inv == TypeOK /\ OneFixer /\ \A p \in Procs : Attributed(p)
<1>1. Inv /\ [Next]_vars => Inv'
  BY TypeStep, AloneStep, AttributedStep
<1>2. Init => Inv
  <2>1. Init => \A p \in Procs : Attributed(p)
    BY DEF Init, Attributed, Fresh, Fixing, Working, Finished
  <2>2. QED
    BY <2>1, TypeInit, AloneInit
<1>3. Inv => AbortAttributesNothing
  BY DEF Attributed, AbortAttributesNothing
<1>4. QED
  BY <1>1, <1>2, <1>3, PTL DEF Spec

--------------------------------------------------------------------------------
(* Counting violations *)

\* There are finitely many checks, findings and entries.
LEMMA FiniteReports == IsFiniteSet(Keys) /\ IsFiniteSet(Checks) /\ IsFiniteSet(Entries) /\ IsFiniteSet(Findings)
<1>1. IsFiniteSet(Keys)
  BY FixCounts
<1>2. IsFiniteSet(Checks)
  <2>1. IsFiniteSet(DOMAIN Order)
    BY FS_Interval, FixConstants
  <2>2. Order \in Surjection(DOMAIN Order, Checks)
    BY FixConstants DEF Checks, Surjection
  <2>3. QED
    BY <2>1, <2>2, FS_Surjection
<1>3. IsFiniteSet(BOOLEAN) /\ IsFiniteSet(Outcomes)
  <2>1. \A S, x : IsFiniteSet(S) => IsFiniteSet(S \cup {x})
    BY FS_AddElement
  <2>2. IsFiniteSet({TRUE} \cup {FALSE})
    BY <2>1, FS_Singleton
  <2>3. BOOLEAN = {TRUE} \cup {FALSE}
    OBVIOUS
  <2>4. Outcomes = {"none"} \cup {"applied"} \cup {"declined"} \cup {"indirect"}
                     \cup {"rejected"} \cup {"errored"} \cup {"failed"} \cup {"aborted"}
    BY DEF Outcomes, Terminal
  <2>5. IsFiniteSet({"none"})
    BY FS_Singleton
  <2>6. IsFiniteSet(Outcomes)
    BY <2>1, <2>4, <2>5
  <2>7. QED
    BY <2>2, <2>3, <2>6
<1> DEFINE Pairs == Checks \X Keys
           Flags == BOOLEAN \X BOOLEAN
           Marks == Flags \X Outcomes
           Tuples == Pairs \X Marks
           f == [u \in Tuples |-> [check |-> u[1][1], key |-> u[1][2], fixable |-> u[2][1][1],
                                   outcome |-> u[2][2], initial |-> u[2][1][2]]]
           g == [e \in Entries |-> Finding(e)]
<1>4. IsFiniteSet(Tuples)
  BY <1>1, <1>2, <1>3, FS_Product
<1>5. f \in Surjection(Tuples, Entries)
  <2>1. f \in [Tuples -> Entries]
    BY DEF Entries
  <2>2. ASSUME NEW e \in Entries
        PROVE  \E u \in Tuples : f[u] = e
    <3> DEFINE t == <<<<e.check, e.key>>, <<<<e.fixable, e.initial>>, e.outcome>>>>
    <3>1. t \in Tuples
      BY DEF Entries
    <3>2. f[t] = e
      BY <3>1 DEF Entries
    <3>3. QED
      BY <3>1, <3>2
  <2>3. QED
    <3> HIDE DEF f, Tuples
    <3> QED
      BY <2>1, <2>2 DEF Surjection
<1>6. IsFiniteSet(Entries)
  <2> HIDE DEF f, Tuples
  <2> QED
    BY <1>4, <1>5, FS_Surjection
<1>7. g \in Surjection(Entries, Findings)
  <2>1. g \in [Entries -> Findings]
    BY EntryType
  <2>2. ASSUME NEW x \in Findings
        PROVE  \E e \in Entries : g[e] = x
    <3>1. Entry(x, "none", TRUE) \in Entries
      BY EntryType, OutcomeNames
    <3>2. Finding(Entry(x, "none", TRUE)) = x
      BY DEF Entry, Finding, Findings
    <3>3. QED
      BY <3>1, <3>2
  <2>3. QED
    <3> HIDE DEF g
    <3> QED
      BY <2>1, <2>2 DEF Surjection
<1>8. IsFiniteSet(Findings)
  <2> HIDE DEF g
  <2> QED
    BY <1>6, <1>7, FS_Surjection
<1>9. QED
  BY <1>1, <1>2, <1>6, <1>8

\* So they can be counted.
LEMMA Counts ==
  /\ \A S \in SUBSET Keys : IsFiniteSet(S) /\ Cardinality(S) \in Nat
  /\ \A S \in SUBSET Findings : IsFiniteSet(S) /\ Cardinality(S) \in Nat
  /\ \A S \in SUBSET Entries : IsFiniteSet(S) /\ Cardinality(S) \in Nat
BY FiniteReports, FS_Subset, FS_CardinalityType

\* Entries are no fewer than the findings they are entries of.
LEMMA NoFewerEntries ==
  ASSUME NEW es \in SUBSET Entries, NEW F \in SUBSET Findings, \A f \in F : \E e \in es : Finding(e) = f
  PROVE  Cardinality(es) >= Cardinality(F)
<1> DEFINE g == [f \in F |-> CHOOSE e \in es : Finding(e) = f]
<1>1. \A f \in F : g[f] \in es /\ Finding(g[f]) = f
  OBVIOUS
<1>2. g \in Injection(F, es)
  <2>1. g \in [F -> es]
    BY <1>1
  <2> HIDE DEF g
  <2>2. QED
    BY <1>1, <2>1 DEF Injection, IsInjective
<1>3. Cardinality(F) <= Cardinality(es)
  <2> HIDE DEF g
  <2> QED
    BY <1>2, Counts, FS_Injection
<1>4. QED
  BY <1>3, Counts

\* Findings make as many entries.
LEMMA AsManyEntries ==
  ASSUME NEW F \in SUBSET Findings, NEW o \in Outcomes, NEW i \in BOOLEAN
  PROVE  Cardinality({Entry(f, o, i) : f \in F}) >= Cardinality(F)
<1> DEFINE es == {Entry(f, o, i) : f \in F}
<1>1. es \in SUBSET Entries
  BY EntryType
<1>2. ASSUME NEW f \in F
      PROVE  \E e \in es : Finding(e) = f
  <2>1. Entry(f, o, i) \in es
    OBVIOUS
  <2>2. Finding(Entry(f, o, i)) = f
    BY DEF Entry, Finding, Findings
  <2>3. QED
    <3> HIDE DEF es
    <3> QED
      BY <2>1, <2>2
<1>3. Cardinality(es) >= Cardinality(F)
  <2> HIDE DEF es
  <2> QED
    BY <1>1, <1>2, NoFewerEntries
<1>4. QED
  BY <1>3

\* Two sets of entries without a common one.
LEMMA Apart ==
  ASSUME NEW A \in SUBSET Entries, NEW B \in SUBSET Entries, A \cap B = {}
  PROVE  Cardinality(A \cup B) = Cardinality(A) + Cardinality(B)
<1>1. Cardinality(A \cap B) = 0
  BY FS_EmptySet
<1>2. IsFiniteSet(A) /\ IsFiniteSet(B) /\ Cardinality(A) \in Nat /\ Cardinality(B) \in Nat
  BY Counts
<1>3. Cardinality(A \cup B) = Cardinality(A) + Cardinality(B) - Cardinality(A \cap B)
  BY <1>2, FS_Union
<1>4. QED
  BY <1>1, <1>2, <1>3

--------------------------------------------------------------------------------
(* What a report says of the file *)

\* What all checks find in a content.
Everything(c) == UNION {Report(k, c) : k \in Checks}

\* Nothing has changed what p found: its report is what the checks find in the file.
Same(p) ==
  LET r == run[p]
  IN  /\ {Finding(e) : e \in r.entries} = r.initial
      /\ r.initial = Everything(content)
      /\ \A e \in r.entries : e.outcome \notin {"applied", "indirect"}

\* What p lists as open is in the file.
Present(p) ==
  LET es == run[p].entries
  IN  \A k \in Checks : ~ Settled(OfCheck(es, k)) =>
        \A e \in OfCheck(es, k) : e.outcome \in {"none", "declined"} => Finding(e) \in Report(k, content)

\* No violation p started with is missing from its report.
Complete(p) ==
  \A k \in Checks : Cardinality(OfCheck(run[p].entries, k)) >= Cardinality(OfCheck(run[p].initial, k))

\* A finding in the report of all checks is one of its own check.
LEMMA ReportOfCheck ==
  ASSUME NEW c, NEW f \in Everything(c)
  PROVE  f.check \in Checks /\ f \in Report(f.check, c)
BY DEF Everything, Report

\* A report nothing has changed lists what is present, and all of it.
LEMMA SameIsExact ==
  ASSUME NEW es \in SUBSET Entries, NEW initial \in SUBSET Findings, NEW c, NEW k \in Checks,
         {Finding(e) : e \in es} = initial, initial = Everything(c)
  PROVE  /\ \A e \in OfCheck(es, k) : Finding(e) \in Report(k, c)
         /\ Cardinality(OfCheck(es, k)) >= Cardinality(OfCheck(initial, k))
<1>1. ASSUME NEW e \in OfCheck(es, k)
      PROVE  Finding(e) \in Report(k, c)
  <2>1. Finding(e) \in Everything(c)
    BY DEF OfCheck
  <2>2. Finding(e).check = k
    BY DEF Finding, OfCheck
  <2>3. QED
    BY <2>1, <2>2, ReportOfCheck
<1>2. OfCheck(es, k) \in SUBSET Entries /\ OfCheck(initial, k) \in SUBSET Findings
  BY DEF OfCheck
<1>3. ASSUME NEW f \in OfCheck(initial, k)
      PROVE  \E e \in OfCheck(es, k) : Finding(e) = f
  <2>1. f \in initial /\ f.check = k
    BY DEF OfCheck
  <2>2. PICK e \in es : Finding(e) = f
    BY <2>1
  <2>3. e.check = k
    BY <2>1, <2>2 DEF Finding
  <2>4. QED
    BY <2>2, <2>3 DEF OfCheck
<1>4. QED
  BY <1>1, <1>2, <1>3, NoFewerEntries

\* The violations of a check that was run on the file, as p's fix was: placing their
\* outcomes keeps the report what it was.
LEMMA PlaceIsSame ==
  ASSUME NEW es \in SUBSET Entries, NEW initial \in SUBSET Findings, NEW c, NEW k \in Checks, NEW o,
         {Finding(e) : e \in es} = initial, initial = Everything(c)
  PROVE  {Finding(e) : e \in Place(es, k, Fixables(k, c), o)} = initial
<1> DEFINE fresh == Fixables(k, c)
           new(x) == [check |-> k, key |-> x, fixable |-> TRUE, outcome |-> o[x], initial |-> FALSE]
           of(x) == [check |-> k, key |-> x, fixable |-> TRUE]
           news == {new(x) : x \in fresh}
           olds == {e \in es : e.check # k \/ ~ e.fixable}
           after == Place(es, k, fresh, o)
<1>1. \A x : Finding(new(x)) = of(x)
  BY DEF Finding
<1>2. \A f \in initial : f.check = k /\ f.fixable => \E x \in fresh : f = of(x)
  <2> SUFFICES ASSUME NEW f \in initial, f.check = k, f.fixable
               PROVE  \E x \in fresh : f = of(x)
    OBVIOUS
  <2>1. f \in Report(k, c)
    BY ReportOfCheck
  <2>2. PICK x \in Keys : f = [check |-> k, key |-> x, fixable |-> finds[k][c][x] = "fixable"]
    BY <2>1 DEF Report
  <2> DEFINE b == finds[k][c][x] = "fixable"
  <2>3. b
    <3>1. f = [check |-> k, key |-> x, fixable |-> b]
      BY <2>2
    <3> HIDE DEF b
    <3>2. QED
      BY <3>1
  <2>4. finds[k][c][x] = "fixable"
    BY <2>3
  <2>5. x \in fresh
    BY <2>4 DEF Fixables
  <2>6. QED
    BY <2>2, <2>4, <2>5
<1>3. \A x \in fresh : of(x) \in initial
  <2> SUFFICES ASSUME NEW x \in fresh
               PROVE  of(x) \in Everything(c)
    OBVIOUS
  <2>1. x \in Keys /\ finds[k][c][x] = "fixable"
    BY DEF Fixables
  <2>2. of(x) = [check |-> k, key |-> x, fixable |-> finds[k][c][x] = "fixable"]
    BY <2>1
  <2>3. of(x) \in Report(k, c)
    BY <2>1, <2>2 DEF Report
  <2>4. QED
    BY <2>3 DEF Everything
<1>4. after = olds \cup news
  BY DEF Place
<1>5. ASSUME NEW e \in after
      PROVE  Finding(e) \in initial
  <2>1. CASE e \in olds
    BY <2>1
  <2>2. CASE e \in news
    <3>1. PICK x \in fresh : e = new(x)
      BY <2>2
    <3> HIDE DEF new, of, fresh
    <3>2. QED
      BY <1>1, <1>3, <3>1
  <2>3. QED
    BY <1>4, <2>1, <2>2
<1>6. ASSUME NEW f \in initial
      PROVE  \E e \in after : Finding(e) = f
  <2>1. PICK e \in es : Finding(e) = f
    OBVIOUS
  <2>2. e.check = f.check /\ e.fixable = f.fixable
    BY <2>1 DEF Finding
  <2>3. CASE f.check # k \/ ~ f.fixable
    BY <1>4, <2>1, <2>2, <2>3
  <2>4. CASE f.check = k /\ f.fixable
    <3>1. PICK x \in fresh : f = of(x)
      BY <1>2, <2>4
    <3>2. new(x) \in after
      BY <1>4
    <3> HIDE DEF new, of, fresh, after
    <3>3. QED
      BY <1>1, <3>1, <3>2
  <2>5. QED
    BY <2>3, <2>4
<1>7. {Finding(e) : e \in after} = initial
  <2> HIDE DEF after
  <2> QED
    BY <1>5, <1>6
<1>8. QED
  BY <1>7

\* A refreshed report lists as open what is in the file, where nothing is final.
LEMMA RefreshedIsPresent ==
  ASSUME NEW es, NEW c, NEW S, NEW final,
         final = Refreshed(es, Stale(es), c) \cup {Entry(f, "indirect", TRUE) : f \in S},
         NEW k \in Checks, ~ Settled(OfCheck(final, k)),
         NEW e \in OfCheck(final, k), e.outcome \in {"none", "declined"}
  PROVE  Finding(e) \in Report(k, c)
<1> DEFINE now == Refreshed(es, Stale(es), c)
<1>1. e \in final /\ e.check = k
  BY DEF OfCheck
<1>2. \A f \in S : Entry(f, "indirect", TRUE).outcome = "indirect"
  BY DEF Entry
<1>3. e \in now
  <2>1. final = now \cup {Entry(f, "indirect", TRUE) : f \in S}
    OBVIOUS
  <2> HIDE DEF now
  <2>2. QED
    BY <1>1, <1>2, <2>1
<1>4. CASE e \in es /\ e.check \notin Stale(es)
  <2>1. Settled(OfCheck(es, k))
    BY <1>1, <1>4 DEF Stale, OfCheck
  <2>2. OfCheck(es, k) \subseteq OfCheck(final, k)
    BY <1>1, <1>4 DEF OfCheck, Refreshed
  <2>3. QED
    BY <2>1, <2>2 DEF Settled
<1>5. CASE \E f \in UNION {Report(j, c) : j \in Stale(es)} : e = Entry(f, "none", FALSE)
  <2>0. PICK j \in Stale(es) : \E f \in Report(j, c) : e = Entry(f, "none", FALSE)
    BY <1>5
  <2>1. PICK f \in Report(j, c) : e = Entry(f, "none", FALSE)
    BY <2>0
  <2>2. f.check = j /\ j \in Checks /\ f \in Findings
    BY <2>1, ReportType DEF Report, Stale
  <2>3. Finding(e) = f /\ e.check = f.check
    BY <2>1, <2>2 DEF Finding, Entry, Findings
  <2>4. QED
    BY <1>1, <2>1, <2>2, <2>3
<1>6. QED
  BY <1>3, <1>4, <1>5 DEF Refreshed

\* The arithmetic of an attribution: what is kept, what replaces, and what is attributed.
LEMMA Enough ==
  ASSUME NEW all \in Nat, NEW kept \in Nat, NEW d \in Nat, NEW r \in Nat, NEW s \in Nat,
         NEW a \in Nat, NEW i \in Nat,
         all = kept + d, s = Excess(d, r), a >= kept, i >= s
  PROVE  (a + r) + i >= all
BY DEF Excess

\* With the attributions no violation of the start is missing.
LEMMA AttributedIsComplete ==
  ASSUME NEW now \in SUBSET Entries, NEW initial \in SUBSET Findings,
         \A e \in now : e.outcome # "indirect",
         NEW S \in Attributions(now, initial), NEW k \in Checks
  PROVE  Cardinality(OfCheck(now \cup {Entry(f, "indirect", TRUE) : f \in S}, k))
           >= Cardinality(OfCheck(initial, k))
<1> DEFINE final == now \cup {Entry(f, "indirect", TRUE) : f \in S}
           all == OfCheck(initial, k)
           d == Dropped(now, initial, k)
           kept == all \ d
           A == {e \in OfCheck(now, k) : e.initial}
           R == Replacements(now, k)
           s == OfCheck(S, k)
           I == {Entry(f, "indirect", TRUE) : f \in s}
<1>1. S \in SUBSET Findings /\ s \in SUBSET Findings
  BY AttributionsType DEF OfCheck
<1>2. /\ all \in SUBSET Findings /\ d \in SUBSET Findings /\ kept \in SUBSET Findings /\ d \subseteq all
      /\ A \in SUBSET Entries /\ R \in SUBSET Entries
  BY DEF OfCheck, Dropped, Replacements
<1>3. I \in SUBSET Entries
  BY <1>1, EntryType, OutcomeNames
<1>4. final \in SUBSET Entries
  BY <1>1, EntryType, OutcomeNames
<1>5. Cardinality(s) = Excess(Cardinality(d), Cardinality(R))
  BY DEF Attributions, Missing
<1>6. Cardinality(I) >= Cardinality(s)
  BY <1>1, OutcomeNames, AsManyEntries
<1>7. Cardinality(A) >= Cardinality(kept)
  <2>1. ASSUME NEW f \in kept
        PROVE  \E e \in A : Finding(e) = f
    <3>1. f \in initial /\ f.check = k
      BY DEF OfCheck
    <3>2. PICK e \in now : e.initial /\ Finding(e) = f
      BY <3>1 DEF Dropped
    <3>3. e.check = k
      BY <3>1, <3>2 DEF Finding
    <3>4. QED
      BY <3>2, <3>3 DEF OfCheck
  <2> HIDE DEF A, kept
  <2>2. QED
    BY <1>2, <2>1, NoFewerEntries
<1>8. Cardinality(all) = Cardinality(kept) + Cardinality(d)
  <2> HIDE DEF all, d
  <2>1. all \cap d = d /\ IsFiniteSet(all) /\ Cardinality(all) \in Nat /\ Cardinality(d) \in Nat
    BY <1>2, Counts
  <2>2. Cardinality(kept) = Cardinality(all) - Cardinality(all \cap d)
    BY <2>1, FS_Difference
  <2>3. Cardinality(all \cap d) = Cardinality(d)
    BY <2>1
  <2> HIDE DEF kept
  <2>4. QED
    BY <2>1, <2>2, <2>3
<1>9. A \cap R = {} /\ (A \cup R) \cap I = {} /\ A \cup R \cup I \subseteq OfCheck(final, k)
  <2>1. A \cap R = {}
    BY DEF Replacements
  <2>2. A \cup R \subseteq OfCheck(now, k)
    BY DEF Replacements
  <2>3. \A f \in s : /\ Entry(f, "indirect", TRUE).outcome = "indirect"
                     /\ Entry(f, "indirect", TRUE).check = k /\ f \in S
    BY DEF Entry, OfCheck
  <2>4. (A \cup R) \cap I = {}
    <3> HIDE DEF A, R, s
    <3> QED
      BY <2>2, <2>3 DEF OfCheck
  <2>5. A \cup R \subseteq OfCheck(final, k)
    <3> HIDE DEF A, R, s
    <3> QED
      BY <2>2 DEF OfCheck
  <2>6. I \subseteq OfCheck(final, k)
    <3> HIDE DEF A, R, s
    <3> QED
      BY <2>3 DEF OfCheck
  <2>7. QED
    <3> HIDE DEF A, R, I, final
    <3> QED
      BY <2>1, <2>4, <2>5, <2>6
<1>10. Cardinality(A \cup R \cup I) = (Cardinality(A) + Cardinality(R)) + Cardinality(I)
  <2> HIDE DEF A, R, I
  <2>1. Cardinality(A \cup R) = Cardinality(A) + Cardinality(R)
    BY <1>2, <1>9, Apart
  <2>2. Cardinality((A \cup R) \cup I) = Cardinality(A \cup R) + Cardinality(I)
    BY <1>2, <1>3, <1>9, Apart
  <2>3. QED
    BY <2>1, <2>2
<1>11. Cardinality(OfCheck(final, k)) >= Cardinality(A \cup R \cup I)
  <2>1. OfCheck(final, k) \in SUBSET Entries
    BY <1>4 DEF OfCheck
  <2> DEFINE whole == OfCheck(final, k)
             part == A \cup R \cup I
  <2>2. IsFiniteSet(whole) /\ Cardinality(whole) \in Nat /\ part \in SUBSET whole
    BY <1>9, <2>1, Counts
  <2> HIDE DEF whole, part
  <2>3. Cardinality(part) <= Cardinality(whole) /\ Cardinality(part) \in Nat
    BY <2>2, FS_Subset, FS_CardinalityType
  <2>4. Cardinality(whole) >= Cardinality(part)
    BY <2>2, <2>3
  <2>5. QED
    BY <2>4 DEF whole, part
<1>12. /\ Cardinality(all) \in Nat /\ Cardinality(kept) \in Nat /\ Cardinality(d) \in Nat
       /\ Cardinality(R) \in Nat /\ Cardinality(s) \in Nat /\ Cardinality(A) \in Nat /\ Cardinality(I) \in Nat
  <2> HIDE DEF all, kept, d, R, s, A, I
  <2> QED
    BY <1>1, <1>2, <1>3, Counts
<1>13. (Cardinality(A) + Cardinality(R)) + Cardinality(I) >= Cardinality(all)
  <2> HIDE DEF all, kept, d, R, s, A, I
  <2> QED
    BY <1>5, <1>6, <1>7, <1>8, <1>12, Enough
<1>14. Cardinality(OfCheck(final, k)) >= Cardinality(all)
  <2>1. Cardinality(OfCheck(final, k)) \in Nat
    BY <1>4, Counts DEF OfCheck
  <2> HIDE DEF all, kept, d, R, s, A, I, final
  <2> QED
    BY <1>10, <1>11, <1>12, <1>13, <2>1
<1>15. QED
  BY <1>14

\* The fix p is at has not changed the file: its violations are those the check finds.
Unwritten(p) == Same(p) /\ run[p].fresh = Fixables(Check(p), content)

\* p takes the file for changed, or has changed it unnoticed: its report need not be exact.
Excused(p) == run[p].changed \/ "fix" \in missed[p]

\* What p knows of a file nobody else has written, if no check has failed on it.
Exact(p) ==
  LET r == run[p]
  IN  /\ r.pc = "select" => Excused(p) \/ Same(p)
      /\ r.pc = "fix" => Excused(p) \/ Unwritten(p)
      /\ r.pc \in Fixing => Excused(p) \/ Unwritten(p) \/ "write" \in missed[p]
      /\ r.pc = "store" => Same(p) \/ Unnoticed(p)
      /\ Finished(p) /\ ~ Unnoticed(p) => Complete(p) /\ ("end" \in missed[p] \/ Present(p))

\* ... and in any case.
Sound(p) ==
  LET r == run[p]
  IN  /\ content \in Parsable /\ ~ r.external
      /\ r.pc \in {"fix", "compare", "rename"} => r.base = content
      /\ r.pc = "store" => r.failed = {}
      /\ r.failed = {} => Exact(p)

Outside == {"lock", "check", "unprocessable", "crashed"}

\* The report is empty before the file is read, and sound until somebody else writes.
Faithful(p) ==
  LET r == run[p]
  IN  /\ r.pc \in {"lock", "check"} => ~ r.changed /\ ~ r.external /\ r.entries = {} /\ r.initial = {}
      /\ ~ foreign[p] /\ r.pc \notin Outside => Sound(p)

\* The checks say of a content what they said.
LEMMA SaidAgain ==
  ASSUME finds' = finds, content' = content
  PROVE  /\ Everything(content)' = Everything(content)
         /\ \A k \in Checks : /\ Report(k, content)' = Report(k, content)
                             /\ Fixables(k, content)' = Fixables(k, content)
<1>1. \A k : Report(k, content)' = Report(k, content) /\ Fixables(k, content)' = Fixables(k, content)
  BY DEF Report, Fixables
<1>2. Everything(content)' = Everything(content)
  BY <1>1 DEF Everything
<1>3. QED
  BY <1>1, <1>2

\* A report that is kept says the same of the same file.
LEMMA SaysTheSame ==
  ASSUME finds' = finds, content' = content, NEW p, Kept(run[p], run'[p])
  PROVE  (Same(p)' <=> Same(p)) /\ (Present(p)' <=> Present(p)) /\ (Complete(p)' <=> Complete(p))
<1>1. Same(p)' <=> Same(p)
  BY SaidAgain DEF Kept, Same
<1>2. Present(p)' <=> Present(p)
  BY SaidAgain DEF Kept, Present
<1>3. Complete(p)' <=> Complete(p)
  BY DEF Kept, Complete
<1>4. QED
  BY <1>1, <1>2, <1>3

\* A report that is kept, of a file that is kept, is as exact as it was.
LEMMA ExactStays ==
  ASSUME finds' = finds, content' = content, NEW p, Kept(run[p], run'[p]), missed'[p] = missed[p]
  PROVE  /\ Same(p)' <=> Same(p)
         /\ Excused(p)' <=> Excused(p)
         /\ Unnoticed(p)' <=> Unnoticed(p)
         /\ Complete(p)' <=> Complete(p)
         /\ Present(p)' <=> Present(p)
BY SaysTheSame DEF Kept, Excused, Unnoticed

\* Nothing changes for a process that takes no step while nobody writes the file.
LEMMA SoundElsewhere ==
  ASSUME NEW p, run'[p] = run[p], missed'[p] = missed[p], finds' = finds, content' = content, Sound(p)
  PROVE  Sound(p)'
<1>1. Kept(run[p], run'[p])
  BY DEF Kept
<1>2. Unwritten(p)' <=> Unwritten(p)
  BY <1>1, ExactStays DEF Unwritten, Fixables, Check
<1>3. Finished(p)' <=> Finished(p)
  BY DEF Finished
<1>4. Exact(p)' <=> Exact(p)
  BY <1>1, <1>2, <1>3, ExactStays DEF Exact
<1>5. QED
  BY <1>4 DEF Sound

\* A fix that changed the file says so, unless nobody noticed; one that did not leaves
\* the report what it was.
LEMMA EndsSound ==
  ASSUME TypeOK, NEW p \in Procs, finds' = finds, NEW o, NEW gave, NEW ch,
         Ends(p, o, gave, ch, run[p].external), content \in Parsable, ~ run[p].external,
         \/ run[p].failed # {} \/ ch \/ "fix" \in missed'[p]
         \/ Unwritten(p) /\ \A x \in run[p].fresh : o[x] \notin {"applied", "indirect"}
  PROVE  Sound(p)'
<1> DEFINE r == run[p]
           s == run'[p]
           k == Check(p)
           es == Place(r.entries, k, r.fresh, o)
<1>1. /\ s.pc = "select" /\ s.entries = es /\ s.initial = r.initial /\ s.failed = r.failed \cup gave
      /\ s.changed = ch /\ s.external = r.external /\ content' = content
      /\ r.at \in DOMAIN Order
  <2> HIDE DEF es
  <2> QED
    BY DEF Ends, Remembers, GoesOn, Untouched, es
<1>2. k \in Checks /\ r.entries \in SUBSET Entries /\ r.initial \in SUBSET Findings
  BY <1>1 DEF Check, Checks, TypeOK, Runs
<1>3. ASSUME Unwritten(p), \A x \in r.fresh : o[x] \notin {"applied", "indirect"}
      PROVE  Same(p)'
  <2>0. Same(p) /\ r.fresh = Fixables(k, content)
    BY <1>3 DEF Unwritten
  <2>1. {Finding(e) : e \in es} = r.initial
    BY <1>2, <2>0, PlaceIsSame DEF Same
  <2>2. \A e \in es : e.outcome \notin {"applied", "indirect"}
    BY <1>3, <2>0 DEF Same, Place
  <2> HIDE DEF es
  <2>3. QED
    BY <1>1, <2>0, <2>1, <2>2, SaidAgain DEF Same
<1>4. s.failed = {} => Excused(p)' \/ Same(p)'
  <2> HIDE DEF es
  <2> QED
    BY <1>1, <1>3 DEF Excused
<1>5. QED
  <2> HIDE DEF es
  <2> QED
    BY <1>1, <1>4 DEF Sound, Exact, Fixing, Finished

\* Fixing keeps the report sound: a write that changes the file is on record.
LEMMA WorksSound ==
  ASSUME TypeOK, WriteInv, NEW p \in Procs, finds' = finds, Works(p), Sound(p)
  PROVE  Sound(p)'
<1> DEFINE r == run[p]
           s == run'[p]
<1>1. /\ r.pc \in Fixing /\ s.pc \in Fixing \ {"fix"} /\ s.at = r.at /\ s.fresh = r.fresh /\ Kept(r, s)
      /\ Check(p)' = Check(p)
  BY DEF Works, Check
<1>2. ~ s.external /\ s.failed = r.failed /\ (s.changed <=> r.changed)
  BY <1>1 DEF Sound, Kept
<1>3. content' \in Parsable
  <2>1. r.pc = "rename" => r.draft \in Parsable
    BY DEF WriteInv
  <2>2. QED
    BY <2>1 DEF Works, Sound
<1>4. s.pc \in {"compare", "rename"} => s.base = content'
  BY DEF Works, Sound
<1>5. "write" \in missed[p] => "write" \in missed'[p]
  BY DEF Works
<1>6. Excused(p) => Excused(p)'
  BY <1>2 DEF Works, Excused
<1>7. ASSUME Unwritten(p), content' = content
      PROVE  Unwritten(p)'
  <2>1. Same(p)'
    BY <1>1, <1>7, SaysTheSame DEF Unwritten
  <2>2. Fixables(Check(p), content)' = Fixables(Check(p), content)
    BY <1>1, <1>7 DEF Fixables
  <2>3. QED
    BY <1>1, <1>7, <2>1, <2>2 DEF Unwritten
<1>8. content' = content \/ "write" \in missed'[p]
  BY DEF Works
<1>9. s.failed = {} => Excused(p)' \/ Unwritten(p)' \/ "write" \in missed'[p]
  BY <1>1, <1>2, <1>5, <1>6, <1>7, <1>8 DEF Sound, Exact
<1>10. QED
  BY <1>1, <1>2, <1>3, <1>4, <1>9 DEF Sound, Exact, Fixing, Finished

\* What the checks find at the start is what they find.
LEMMA FindsSound ==
  ASSUME TypeOK, TypeOK', NEW p \in Procs, finds' = finds, Finds(p),
         ~ run[p].changed, ~ run[p].external
  PROVE  Sound(p)'
<1> DEFINE s == run'[p]
<1>0. content' = content /\ content \in Parsable /\ ~ s.changed /\ ~ s.external
      /\ s.pc \in {"select", "store", "done"} /\ (s.pc = "store" => s.failed = {})
  BY DEF Finds, Cacheable
<1> SUFFICES ASSUME s.failed = {}
             PROVE  Exact(p)'
  BY <1>0 DEF Sound
<1>1. s.failed = {}
  OBVIOUS
<1>2. s.initial = Everything(content) /\ s.initial \in SUBSET Findings
  <2>1. s.initial = Everything(content)
    BY <1>1 DEF Finds, Everything
  <2>2. QED
    BY <2>1, ReportType DEF Everything
<1>3. s.entries = {Entry(f, "none", TRUE) : f \in s.initial}
  BY DEF Finds
<1>4. \A f \in s.initial : Finding(Entry(f, "none", TRUE)) = f /\ Entry(f, "none", TRUE).outcome = "none"
  BY <1>2 DEF Finding, Entry, Findings
<1>5. {Finding(e) : e \in s.entries} = s.initial
  <2> DEFINE E == s.entries
             I == s.initial
  <2>1. \A e \in E : \E f \in I : e = Entry(f, "none", TRUE)
    BY <1>3
  <2>2. \A f \in I : Entry(f, "none", TRUE) \in E
    BY <1>3
  <2>3. \A f \in I : Finding(Entry(f, "none", TRUE)) = f
    BY <1>4
  <2> HIDE DEF E, I
  <2>4. {Finding(e) : e \in E} = I
    BY <2>1, <2>2, <2>3
  <2>5. QED
    BY <2>4 DEF E, I
<1>6. \A e \in s.entries : e.outcome \notin {"applied", "indirect"}
  BY <1>3, <1>4
<1>7. content' = content /\ content \in Parsable /\ ~ s.changed /\ ~ s.external
      /\ s.pc \in {"select", "store", "done"}
  BY DEF Finds
<1>8. Same(p)'
  BY <1>2, <1>5, <1>6, <1>7, SaidAgain DEF Same
<1>9. Present(p)' /\ Complete(p)'
  <2>1. s.entries \in SUBSET Entries
    BY DEF TypeOK, Runs
  <2>2. \A k \in Checks : /\ \A e \in OfCheck(s.entries, k) : Finding(e) \in Report(k, content)
                          /\ Cardinality(OfCheck(s.entries, k)) >= Cardinality(OfCheck(s.initial, k))
    <3> HIDE DEF s
    <3> QED
      BY <1>2, <1>5, <2>1, SameIsExact
  <2>3. QED
    BY <1>7, <2>2, SaidAgain DEF Present, Complete
<1>10. QED
  BY <1>1, <1>7, <1>8, <1>9 DEF Exact, Fixing, Finished

\* Closing a report: untouched it is exact, otherwise refreshed and its losses attributed.
LEMMA ReportsSound ==
  ASSUME TypeOK, NEW p \in Procs, finds' = finds, Sound(p), Attributed(p),
         NEW bad \in Raising, NEW reread \in BOOLEAN, Reports(p, bad, reread)
  PROVE  Sound(p)'
<1> DEFINE r == run[p]
           s == run'[p]
           ks == IF reread THEN Stale(r.entries) ELSE {}
           now == IF reread THEN Refreshed(r.entries, ks \ bad, content) ELSE r.entries
           lost == IF Attributes(r) THEN Attributions(now, r.initial) ELSE {{}}
<1>0. /\ r.pc = "select" /\ content \in Parsable /\ content' = content
      /\ ~ r.external /\ ~ s.external /\ s.initial = r.initial /\ s.changed = r.changed
      /\ s.failed = r.failed \cup (bad \cap ks)
      /\ s.pc \in {"store", "done"} /\ (s.pc = "store" => Cacheable(s))
      /\ (reread => r.changed) /\ missed'[p] = IF r.changed /\ ~ reread THEN missed[p] \cup {"end"} ELSE missed[p]
  BY DEF Reports, Sound, Untouched
<1> SUFFICES ASSUME s.failed = {}
             PROVE  Exact(p)'
  BY <1>0 DEF Sound, Cacheable
<1>1. r.failed = {} /\ ks \ bad = ks /\ Exact(p)
  <2> HIDE DEF ks
  <2> QED
    BY <1>0 DEF Sound
<1>2. "fix" \in missed'[p] <=> "fix" \in missed[p]
  BY <1>0
<1>3. r.entries \in SUBSET Entries /\ r.initial \in SUBSET Findings
  BY DEF TypeOK, Runs
<1>4. PICK S \in lost : s.entries = now \cup {Entry(f, "indirect", TRUE) : f \in S}
  BY DEF Reports
<1>5. CASE ~ r.changed /\ "fix" \in missed[p]
  <2>1. Unnoticed(p)'
    BY <1>0, <1>2, <1>5 DEF Unnoticed
  <2>2. QED
    BY <1>0, <2>1 DEF Exact, Fixing
<1>6. CASE ~ r.changed /\ "fix" \notin missed[p]
  <2>1. Same(p)
    BY <1>0, <1>1, <1>6 DEF Exact, Excused
  <2>2. now = r.entries
    BY <1>0, <1>6
  <2>3. S = {}
    BY <1>6 DEF Attributes
  <2>4. s.entries = r.entries
    <3> HIDE DEF now, lost
    <3> QED
      BY <1>4, <2>2, <2>3
  <2>5. Same(p)'
    BY <1>0, <2>1, <2>4, SaidAgain DEF Same
  <2>6. \A k \in Checks : /\ \A e \in OfCheck(r.entries, k) : Finding(e) \in Report(k, content)
                          /\ Cardinality(OfCheck(r.entries, k)) >= Cardinality(OfCheck(r.initial, k))
    BY <1>3, <2>1, SameIsExact DEF Same
  <2>7. Present(p)' /\ Complete(p)'
    BY <1>0, <2>4, <2>6, SaidAgain DEF Present, Complete
  <2>8. QED
    BY <1>0, <2>5, <2>7 DEF Exact, Fixing, Finished
<1>7. CASE r.changed
  <2>1. now = IF reread THEN Refreshed(r.entries, Stale(r.entries), content) ELSE r.entries
    BY <1>1
  <2>2. S \in Attributions(now, r.initial)
    BY <1>0, <1>7 DEF Attributes
  <2>3. now \in SUBSET Entries
    <3>1. Stale(r.entries) \in SUBSET Checks
      BY DEF Stale
    <3>2. Refreshed(r.entries, Stale(r.entries), content) \in SUBSET Entries
      BY <1>3, <3>1, RefreshedType
    <3> HIDE DEF now
    <3>3. QED
      BY <1>3, <2>1, <3>2
  <2>4. \A e \in now : e.outcome # "indirect"
    <3>1. \A e \in r.entries : e.outcome # "indirect"
      BY <1>0 DEF Attributed, Working
    <3>2. \A e \in now : e \in r.entries \/ e.outcome = "none"
      BY DEF Refreshed, Entry
    <3> HIDE DEF now
    <3>3. QED
      BY <3>1, <3>2
  <2>5. \A k \in Checks : Cardinality(OfCheck(s.entries, k)) >= Cardinality(OfCheck(r.initial, k))
    <3> HIDE DEF now, lost
    <3> QED
      BY <1>3, <1>4, <2>2, <2>3, <2>4, AttributedIsComplete
  <2>6. ASSUME reread, NEW k \in Checks, ~ Settled(OfCheck(s.entries, k)),
               NEW e \in OfCheck(s.entries, k), e.outcome \in {"none", "declined"}
        PROVE  Finding(e) \in Report(k, content)
    <3>1. s.entries = Refreshed(r.entries, Stale(r.entries), content) \cup {Entry(f, "indirect", TRUE) : f \in S}
      <4> HIDE DEF now, lost
      <4> QED
        BY <1>4, <2>1, <2>6
    <3> HIDE DEF now, lost, r, s
    <3>2. QED
      BY <2>6, <3>1, RefreshedIsPresent
  <2>7. s.pc # "store"
    BY <1>0, <1>7 DEF Cacheable
  <2>8. Complete(p)'
    BY <1>0, <2>5 DEF Complete
  <2>9. reread => Present(p)'
    BY <1>0, <2>6, SaidAgain DEF Present
  <2>10. ~ reread => "end" \in missed'[p]
    BY <1>0, <1>7
  <2>11. QED
    BY <1>0, <2>7, <2>8, <2>9, <2>10 DEF Exact, Fixing, Finished
<1>8. QED
  BY <1>5, <1>6, <1>7

\* A step of p keeps its report sound while nobody else writes the file.
LEMMA SoundStep ==
  ASSUME TypeOK, TypeOK', WriteInv, NEW p \in Procs, Step(p),
         Attributed(p), Faithful(p), ~ foreign'[p], run'[p].pc \notin Outside
  PROVE  Sound(p)'
<1> DEFINE r == run[p]
           s == run'[p]
<1>1. Moves(p) /\ finds' = finds
  BY StepMoves
<1>2. CASE Finds(p)
  BY <1>1, <1>2, FindsSound DEF Finds, Faithful
<1>3. CASE Stops(p) \/ Starts(p)
  BY <1>3 DEF Stops, Starts, Outside
<1>4. CASE ~ (Finds(p) \/ Stops(p) \/ Starts(p))
  <2>1. foreign'[p] = foreign[p] /\ r.pc \notin Outside
    BY <1>1, <1>4 DEF Moves, Passes, GivesUp, Begins, Works, Rejects, Aborts, Verifies, Closes, Reports,
                      Keeps, Ends, Untouched, Fixing, Outside
  <2>2. Sound(p)
    BY <2>1 DEF Faithful
  <2>3. content \in Parsable /\ ~ r.external
    BY <2>2 DEF Sound
  <2>4. CASE Passes(p)
    <3>1. s.pc = "select" /\ r.pc = "select" /\ Kept(r, s) /\ content' = content /\ missed'[p] = missed[p]
      BY <2>4 DEF Passes, GoesOn, Untouched
    <3>2. r.failed = {} => Excused(p)' \/ Same(p)'
      BY <1>1, <2>2, <3>1, ExactStays DEF Sound, Exact
    <3>3. QED
      BY <2>3, <3>1, <3>2 DEF Sound, Exact, Kept, Fixing, Finished
  <2>5. CASE GivesUp(p)
    BY <2>3, <2>5 DEF GivesUp, Remembers, GoesOn, Untouched, Sound
  <2>6. CASE Begins(p)
    <3>1. /\ s.pc \in {"fix", "pick"} /\ r.pc = "select" /\ Kept(r, s) /\ content' = content
          /\ s.base = content /\ s.fresh = Fixables(Check(p), content) /\ s.at = r.at
          /\ missed'[p] = missed[p]
      BY <2>6 DEF Begins, Untouched
    <3>2. r.failed = {} => Excused(p)' \/ Same(p)'
      BY <1>1, <2>2, <3>1, ExactStays DEF Sound, Exact
    <3>3. Fixables(Check(p), content)' = Fixables(Check(p), content)
      BY <1>1, <3>1 DEF Fixables, Check
    <3>4. Same(p)' => Unwritten(p)'
      BY <3>1, <3>3 DEF Unwritten
    <3>5. QED
      BY <2>3, <3>1, <3>2, <3>4 DEF Sound, Exact, Kept, Fixing, Finished
  <2>7. CASE Works(p)
    BY <1>1, <2>2, <2>7, WorksSound
  <2>8. CASE Rejects(p)
    <3>1. r.pc = "fix" /\ missed'[p] = missed[p] /\ Ends(p, All(r.fresh, "rejected"), {}, r.changed, r.external)
      BY <2>8 DEF Rejects
    <3>2. \A x \in r.fresh : All(r.fresh, "rejected")[x] \notin {"applied", "indirect"}
      BY DEF All, TypeOK, Runs
    <3>3. r.failed # {} \/ r.changed \/ "fix" \in missed'[p] \/ Unwritten(p)
      BY <2>2, <3>1 DEF Sound, Exact, Excused
    <3>4. QED
      BY <1>1, <2>3, <3>1, <3>2, <3>3, EndsSound
  <2>9. CASE Aborts(p)
    BY <2>2, <2>9 DEF Aborts, Sound
  <2>10. CASE Verifies(p)
    <3> DEFINE still == Fixables(Check(p), content)
               gave == IF r.raised THEN {Check(p)} ELSE {}
               ch == r.changed \/ Cardinality(still) < Cardinality(r.fresh)
    <3>1. /\ r.pc = "verify" /\ ("fix" \in missed[p] => "fix" \in missed'[p])
          /\ "write" \in missed[p] => s.changed \/ "fix" \in missed'[p]
          /\ \/ Ends(p, Judged(r, r.fresh, FALSE), gave, r.changed, r.external)
             \/ Ends(p, Judged(r, still, TRUE), gave, ch, r.external)
      BY <2>10 DEF Verifies
    <3>2. r.failed # {} \/ r.changed \/ s.changed \/ "fix" \in missed'[p] \/ Unwritten(p)
      BY <2>2, <3>1 DEF Sound, Exact, Fixing, Excused
    <3>3. \A x \in r.fresh : Says(Check(p), r.outcome[x]) \/ r.outcome[x] = "applied"
      BY <3>1 DEF Attributed, Fixing, TypeOK, Runs
    <3>4. ASSUME Unwritten(p), NEW x \in r.fresh
          PROVE  /\ Judged(r, r.fresh, FALSE)[x] \notin {"applied", "indirect"}
                 /\ Judged(r, still, TRUE)[x] \notin {"applied", "indirect"}
      <4>1. x \in Keys /\ x \in still
        BY <3>4 DEF Unwritten, Fixables
      <4> HIDE DEF still
      <4>2. Judged(r, r.fresh, FALSE)[x] \in {"errored", IF r.outcome[x] = "applied" THEN "declined" ELSE r.outcome[x]}
        BY <3>4, <4>1 DEF Judged
      <4>3. Judged(r, still, TRUE)[x] \in {"errored", Marked(r.outcome[x], TRUE)}
        BY <3>4, <4>1 DEF Judged
      <4>4. QED
        BY <3>3, <3>4, <4>2, <4>3 DEF Marked, Says
    <3>5. ASSUME NEW o, NEW h, Ends(p, o, gave, h, r.external), r.changed => h,
                 Unwritten(p) => \A x \in r.fresh : o[x] \notin {"applied", "indirect"}
          PROVE  Sound(p)'
      <4> HIDE DEF gave
      <4>1. s.changed = h
        BY <3>5 DEF Ends
      <4>2. QED
        BY <1>1, <2>3, <3>2, <3>5, <4>1, EndsSound
    <3>6. QED
      <4> HIDE DEF gave, still
      <4> QED
        BY <3>1, <3>4, <3>5
  <2>11. CASE Closes(p)
    BY <1>1, <2>2, <2>11, ReportsSound DEF Closes
  <2>12. CASE Keeps(p)
    <3>1. s.pc = "done" /\ r.pc = "store" /\ Kept(r, s) /\ content' = content /\ missed'[p] = missed[p]
      BY <2>12 DEF Keeps, Untouched
    <3>2. r.failed = {} /\ ~ Unnoticed(p)' => Complete(p)' /\ ("end" \in missed'[p] \/ Present(p)')
      BY <1>1, <2>2, <3>1, ExactStays DEF Sound, Exact, Finished
    <3>3. QED
      BY <2>3, <3>1, <3>2 DEF Sound, Exact, Kept, Fixing, Finished
  <2>13. QED
    BY <1>1, <1>4, <2>4, <2>5, <2>6, <2>7, <2>8, <2>9, <2>10, <2>11, <2>12 DEF Moves
<1>5. QED
  BY <1>2, <1>3, <1>4

\* One step keeps every report faithful.
LEMMA FaithfulStep ==
  ASSUME TypeOK, TypeOK', WriteInv, [Next]_vars,
         \A p \in Procs : Attributed(p) /\ Faithful(p), NEW q \in Procs
  PROVE  Faithful(q)'
<1>1. ASSUME run'[q] = run[q], missed'[q] = missed[q], finds' = finds,
             ~ foreign'[q] => ~ foreign[q] /\ content' = content
      PROVE  Faithful(q)'
  <2>1. ASSUME ~ foreign'[q], run[q].pc \notin Outside
        PROVE  Sound(q)'
    BY <1>1, <2>1, SoundElsewhere DEF Faithful
  <2>2. QED
    BY <1>1, <2>1 DEF Faithful
<1>2. CASE UNCHANGED vars
  BY <1>1, <1>2 DEF vars
<1>3. CASE Edit
  BY <1>1, <1>3 DEF Edit
<1>4. ASSUME NEW p \in Procs, Step(p), p # q
      PROVE  Faithful(q)'
  BY <1>1, <1>4, StepMoves DEF Elsewhere, TypeOK
<1>5. ASSUME Step(q)
      PROVE  Faithful(q)'
  <2> DEFINE s == run'[q]
  <2>1. Moves(q) /\ Faithful(q)
    BY <1>5, StepMoves
  <2>2. ASSUME s.pc \in {"lock", "check"}
        PROVE  ~ s.changed /\ ~ s.external /\ s.entries = {} /\ s.initial = {}
    <3>1. Starts(q)
      BY <2>1, <2>2 DEF Moves, Stops, Finds, Passes, GivesUp, Begins, Works, Rejects, Aborts,
                        Verifies, Ends, Remembers, GoesOn, Closes, Reports, Keeps, Fixing
    <3>2. QED
      BY <2>1, <3>1 DEF Starts, Kept, Faithful
  <2>3. ASSUME ~ foreign'[q], s.pc \notin Outside
        PROVE  Sound(q)'
    BY <1>5, <2>1, <2>3, SoundStep
  <2>4. QED
    BY <2>2, <2>3 DEF Faithful
<1>6. QED
  BY <1>2, <1>3, <1>4, <1>5 DEF Next, Over

\* No report has begun at the start.
LEMMA FaithfulInit == Init => \A p \in Procs : Attributed(p) /\ Faithful(p)
BY DEF Init, Attributed, Faithful, Outside, Fresh, Fixing, Working, Finished

\* The invariant behind the three theorems on reports.
LEMMA ReportsAreFaithful == Spec => [](TypeOK /\ \A p \in Procs : Faithful(p))
<1> DEFINE Inv == /\ TypeOK /\ OneFixer /\ WriteInv
                  /\ \A p \in Procs : Attributed(p) /\ Faithful(p)
<1>1. Inv /\ [Next]_vars => Inv'
  <2> SUFFICES ASSUME Inv, [Next]_vars
               PROVE  Inv'
    OBVIOUS
  <2>1. TypeOK' /\ OneFixer' /\ WriteInv'
    BY TypeStep, AloneStep, WriteStep
  <2>2. \A p \in Procs : Attributed(p)'
    BY AttributedStep
  <2>3. \A p \in Procs : Faithful(p)'
    BY <2>1, FaithfulStep
  <2>4. QED
    BY <2>1, <2>2, <2>3
<1>2. Init => Inv
  BY TypeInit, AloneInit, WriteInit, FaithfulInit
<1>3. Inv => TypeOK /\ \A p \in Procs : Faithful(p)
  OBVIOUS
<1>4. QED
  BY <1>1, <1>2, <1>3, PTL DEF Spec

\* What a report without failures lists as open is in the file, at the place it says,
\* unless its check has a terminal outcome, somebody else wrote the file, the run's own
\* writes went unnoticed or its last read failed: for any checks, violations and fixers,
\* and whatever raises (_refresh_stale_positions).
THEOREM OpenIsThere == Spec => []OpenIsPresent
<1>1. TypeOK /\ (\A p \in Procs : Faithful(p)) => OpenIsPresent
  BY DEF Faithful, Sound, Exact, Present, OpenIsPresent, Finished, Outside
<1>2. QED
  BY <1>1, ReportsAreFaithful, PTL

\* No violation a run started with drops out of its report, unless a check failed,
\* somebody else wrote the file or the run's own writes went unnoticed: each is listed as
\* fixed, open or resolved by another fix (_record_indirect_resolutions).
THEOREM NothingVanishes == Spec => []NoneVanishes
<1>1. TypeOK /\ (\A p \in Procs : Faithful(p)) => NoneVanishes
  BY DEF Faithful, Sound, Exact, Complete, NoneVanishes, Finished, Outside
<1>2. QED
  BY <1>1, ReportsAreFaithful, PTL

\* What is stored while nobody else has written is what all checks find in the content
\* it is stored for, whatever the fixers write and whatever raises: the one exception is
\* a run whose own write went unnoticed (_check_and_cache, _cache_violations).
THEOREM StoredIsFresh == Spec => CachedIsFresh
<1>1. TypeOK /\ (\A p \in Procs : Faithful(p)) /\ [Next]_vars => [StoresFresh]_vars
  <2> SUFFICES ASSUME TypeOK, \A p \in Procs : Faithful(p), [Next]_vars,
                      NEW p \in Procs, Stores(p), ~ foreign[p], ~ Unnoticed(p)
               PROVE  cached'.violations = UNION {Report(k, cached'.content) : k \in Checks}
    BY DEF StoresFresh
  <2>1. run[p].pc = "store" /\ run'[p].pc = "done" /\ run'[p] # run[p]
    BY DEF Stores, At
  <2>2. PICK q \in Procs : Step(q)
    BY <2>1 DEF Next, Edit, Over, vars
  <2>3. q = p
    BY <2>1, <2>2, StepMoves DEF Elsewhere
  <2>4. Keeps(p)
    BY <2>1, <2>2, <2>3, StepMoves DEF Moves, Stops, Starts, Finds, Passes, GivesUp, Begins, Works, Rejects,
       Aborts, Verifies, Closes, Reports, Fixing
  <2>5. Same(p)
    BY <2>1, <2>4 DEF Faithful, Sound, Exact, Outside, Keeps
  <2>6. cached'.content = content
        /\ cached'.violations = {Finding(e) : e \in {f \in run[p].entries : f.outcome # "applied"}}
    BY <2>4 DEF Keeps, Untouched
  <2>7. {f \in run[p].entries : f.outcome # "applied"} = run[p].entries
    BY <2>5 DEF Same
  <2>8. QED
    BY <2>5, <2>6, <2>7 DEF Same, Everything
<1>2. QED
  BY <1>1, ReportsAreFaithful, PTL DEF Spec, CachedIsFresh

================================================================================
