---------------------------- MODULE FileRunProofs ----------------------------
(***************************************************************************)
(* Proofs about FileRun, for any checks, texts and number of runs: the     *)
(* types, that only complete results are stored, that exit code 0 is       *)
(* honest, and that what is reported is exact.                             *)
(***************************************************************************)
EXTENDS FileRun, TLAPS

Pcs == {"idle", "lookup", "record", "always", "all", "others", "reconcile", "report", "end"}

Results == [report : SUBSET Violations, usages : SUBSET Regular, doubt : SUBSET Doubts]

Runs == [pc : Pcs, nr : Nat, select : SUBSET Checks, ignored : SUBSET Regular,
         checks : SUBSET Checks, only : SUBSET Checks, fix : BOOLEAN, got : Results, kept : Results,
         failed : SUBSET Checks, down : SUBSET Rerun, skipped : BOOLEAN, changed : BOOLEAN,
         exit : {0, 1}]

TypeInv ==
  /\ setting \in DOMAIN Settings /\ text \in Texts
  /\ facts \in [Regular -> [Texts -> AllFacts]]
  /\ cache \in [SUBSET Cacheable -> Entries \cup {NoEntry}]
  /\ run \in Runs
  /\ run.checks \subseteq run.select \ run.ignored /\ run.only \subseteq run.ignored

-----------------------------------------------------------------------------
(* The setting of a behaviour *)

LEMMA SettingFacts ==
  ASSUME setting \in DOMAIN Settings
  PROVE  /\ Cacheable \cap Rerun = {} /\ Derived \subseteq Rerun /\ Audit \notin Regular
         /\ Derived \cap Fixable = {} /\ Tracks \subseteq Regular /\ Fixable \subseteq Regular
         /\ Settings[setting].kinds \subseteq AllFacts
         /\ Selections \subseteq [select : SUBSET Checks, ignore : SUBSET Regular]
         /\ Cacheable \subseteq Regular /\ Rerun \subseteq Regular /\ Regular \subseteq Checks
         /\ MaxRuns \in Nat /\ "none" \notin Texts
  BY FileRunAssumption DEF Cacheable, Rerun, Derived, Tracks, Fixable, Selections, Regular, Checks

LEMMA SettingStays ==
  ASSUME setting' = setting
  PROVE  /\ Cacheable' = Cacheable /\ Rerun' = Rerun /\ Derived' = Derived /\ Fixable' = Fixable
         /\ Regular' = Regular /\ Checks' = Checks /\ Violations' = Violations
         /\ Results' = Results /\ Runs' = Runs /\ Entries' = Entries /\ Introduces' = Introduces
  BY DEF Cacheable, Rerun, Derived, Fixable, Regular, Checks, Violations, Results, Runs, Entries,
         Introduces

(* A step that leaves the cache and the facts alone keeps the cache complete. *)
LEMMA CacheStays ==
  ASSUME CacheComplete, cache' = cache, facts' = facts, Cacheable' = Cacheable
  PROVE  CacheComplete'
  BY DEF CacheComplete, FoundIn

-----------------------------------------------------------------------------
(* Results *)

LEMMA ResultType ==
  ASSUME NEW report \in SUBSET Violations, NEW usages \in SUBSET Regular, NEW doubt \in SUBSET Doubts
  PROVE  /\ Result(report, usages, doubt) \in Results
         /\ Result(report, usages, doubt).report = report
         /\ Result(report, usages, doubt).usages = usages
         /\ Result(report, usages, doubt).doubt = doubt
  BY DEF Result, Results

LEMMA CleanType ==
  Clean \in Results /\ Clean.report = {} /\ Clean.usages = {} /\ Clean.doubt = {}
  BY ResultType DEF Clean

LEMMA MoreDoubt ==
  ASSUME NEW got \in Results, NEW more
  PROVE  [got EXCEPT !.doubt = @ \cup more] = Result(got.report, got.usages, got.doubt \cup more)
  BY DEF Result, Results

LEMMA ReportReplaced ==
  ASSUME NEW got \in Results, NEW report
  PROVE  [got EXCEPT !.report = report] = Result(report, got.usages, got.doubt)
  BY DEF Result, Results

LEMMA MergeType ==
  ASSUME NEW r \in Results, NEW s \in Results
  PROVE  /\ Merge(r, s) \in Results
         /\ Merge(r, s).report = r.report \cup s.report
         /\ Merge(r, s).usages = r.usages \cup s.usages
         /\ Merge(r, s).doubt = r.doubt \cup s.doubt
  BY DEF Merge, Result, Results

LEMMA ViolationType ==
  ASSUME TypeInv, NEW c \in Regular
  PROVE  /\ \A s \in States : Violation(c, s) \in Violations
         /\ Unneeded(c) \in Violations /\ c # Audit
  BY SettingFacts DEF TypeInv, Violations, Violation, Unneeded, States

LEMMA ViolationFields ==
  /\ \A c, s : Violation(c, s).check = c /\ Violation(c, s).state = s
  /\ \A c : Unneeded(c).check = Audit /\ Unneeded(c).about = c
  BY DEF Violation, Unneeded

-----------------------------------------------------------------------------
(* What a pass over some checks comes to *)

(* Only the failures, the unavailable checks and the flag of the run change. *)
RunEffect(checks, r) ==
  /\ r \in Runs /\ run.failed \subseteq r.failed /\ run.down \subseteq r.down
  /\ r.failed \subseteq run.failed \cup checks
  /\ r = [run EXCEPT !.failed = r.failed, !.down = r.down, !.changed = r.changed]

(* A pass that changes nothing reports what is found, in the checks' names. *)
PlainEffect(checks, got, r, broken) ==
  /\ text' = text /\ r.changed = run.changed
  /\ \A c \in checks \cap Regular : facts[c][text].found =>
       \/ Violation(c, "open") \in got.report
       \/ c \in r.failed \cup r.down
       \/ c \in broken /\ Violation(c, "failed") \in got.report
  /\ \A v \in got.report : v.check # Audit =>
       /\ v.check \in checks /\ facts[v.check][text].found
       /\ v = Violation(v.check, "open") \/ v.check \in broken

(* A pass that is not known to have changed something has told of it. *)
UnseenEffect(got, r) ==
  /\ text' \in Texts /\ r.changed = run.changed /\ "unseen" \in got.doubt
  /\ \E v \in got.report : v.check \in Fixable

(* A pass that fixes something says so. *)
FixEffect(got, r) ==
  /\ text' \in Texts /\ r.changed = TRUE
  /\ \E v \in got.report : v.check \in Fixable
  /\ run.pc = "always" /\ ~Introduces =>
       \A c \in Cacheable : facts[c][text'].matches => facts[c][text].matches

Effect(checks, got, r, broken) ==
  /\ got \in Results /\ RunEffect(checks, r)
  /\ PlainEffect(checks, got, r, broken) \/ UnseenEffect(got, r) \/ FixEffect(got, r)

(* The findings of a result were looked for in the text it is of; its audit *)
(* was made there.                                                          *)
Sure(doubt) == doubt \cap {"unseen", "left"} = {}
Judged(doubt) == doubt \cap {"unseen", "audit"} = {}

Named(checks, got) ==
  /\ \A v \in got.report : v.check # Audit => v.check \in checks
  /\ Audit \notin checks => \A v \in got.report : v.check # Audit

(* The open findings are in the text that is left. *)
Opens(got, r) ==
  Sure(got.doubt) => \A v \in got.report :
    v.check # Audit /\ v.state = "open" /\ v.check \notin r.failed => facts[v.check][text'].found

(* The audit judges the checks of active and of cs, those that gave a       *)
(* result at a text, by what is known to be used of them.                   *)
Judges(checks, usages, active, got, r, cs, t) ==
  /\ (checks \ {Audit}) \ (r.failed \cup r.down) \subseteq cs
  /\ got.usages = usages \cup {c \in cs : facts[c][t].used}
  /\ \A v \in got.report : v.check = Audit => \E c \in active \cup cs :
       v = Unneeded(c) /\ facts[c][t].named /\ c \notin got.usages
  /\ Audit \notin r.failed => \A c \in active \cup cs :
       facts[c][t].named /\ c \notin got.usages => Unneeded(c) \in got.report

Audits(checks, usages, active, got, r) ==
  Audit \in checks /\ Judged(got.doubt) =>
    \E cs \in SUBSET (checks \ {Audit}) : Judges(checks, usages, active, got, r, cs, text')

(* What is known of the usages without the audit *)
Uses(checks, usages, got, r) ==
  ~r.changed =>
    /\ got.doubt \subseteq {"unseen"}
    /\ Audit \notin checks /\ "unseen" \notin got.doubt =>
         \A c \in got.usages \ usages : c \in checks /\ facts[c][text'].used

(* What a pass says of the text it leaves *)
Seen(checks, usages, active, got, r) ==
  /\ Named(checks, got) /\ Opens(got, r)
  /\ Audits(checks, usages, active, got, r) /\ Uses(checks, usages, got, r)

LEMMA BegunEffect ==
  ASSUME TypeInv, NEW checks \in SUBSET Checks,
         NEW failed \in SUBSET checks, NEW down \in SUBSET ((checks \cap Rerun) \ failed)
  PROVE  RunEffect(checks, Begun(failed, down))
  BY SettingFacts DEF TypeInv, RunEffect, Begun, Runs, Checks

(* A run that goes on with more failures and unavailable checks, or changed *)
Grown(r, failed, down) == [r EXCEPT !.failed = @ \cup failed, !.down = @ \cup down]
Changed(r, failed) == [r EXCEPT !.changed = TRUE, !.failed = @ \cup failed]

LEMMA GrownEffect ==
  ASSUME TypeInv, NEW checks \in SUBSET Checks, NEW r, RunEffect(checks, r),
         NEW failed \in SUBSET checks, NEW down \in SUBSET Rerun
  PROVE  RunEffect(checks, Grown(r, failed, down))
  <1> DEFINE s == Grown(r, failed, down)
  <1>1. r \in Runs /\ run \in Runs
    BY DEF RunEffect, TypeInv
  <1>2. s.changed = r.changed /\ s.failed = r.failed \cup failed /\ s.down = r.down \cup down
    BY <1>1 DEF Runs, Grown
  <1>3. s \in Runs
    BY <1>1 DEF Runs, Grown
  <1>4. s = [run EXCEPT !.failed = s.failed, !.down = s.down, !.changed = s.changed]
    <2>1. r = [run EXCEPT !.failed = r.failed, !.down = r.down, !.changed = r.changed]
      BY DEF RunEffect
    <2> QED BY <1>1, <1>2, <2>1 DEF Runs, Grown
  <1> QED BY <1>2, <1>3, <1>4 DEF RunEffect

LEMMA ChangedEffect ==
  ASSUME TypeInv, NEW checks \in SUBSET Checks, NEW r, RunEffect(checks, r),
         NEW failed \in SUBSET checks
  PROVE  RunEffect(checks, Changed(r, failed))
  <1> DEFINE s == Changed(r, failed)
  <1>1. r \in Runs /\ run \in Runs
    BY DEF RunEffect, TypeInv
  <1>2. s.changed = TRUE /\ s.failed = r.failed \cup failed /\ s.down = r.down
    BY <1>1 DEF Runs, Changed
  <1>3. s \in Runs
    BY <1>1 DEF Runs, Changed
  <1>4. s = [run EXCEPT !.failed = s.failed, !.down = s.down, !.changed = s.changed]
    <2>1. r = [run EXCEPT !.failed = r.failed, !.down = r.down, !.changed = r.changed]
      BY DEF RunEffect
    <2> QED BY <1>1, <1>2, <2>1 DEF Runs, Changed
  <1> QED BY <1>2, <1>3, <1>4 DEF RunEffect

-----------------------------------------------------------------------------
(* The first look, and what fixes make of it *)

(* What a pass over checks finds, those of cs giving a result *)
Finds(checks, failed, usages, active, got, cs) ==
  /\ \A v \in got.report : v.check # Audit =>
       v.check \in cs /\ facts[v.check][text].found /\ v = Violation(v.check, "open")
  /\ \A c \in cs : facts[c][text].found => Violation(c, "open") \in got.report
  /\ \A v \in got.report : v.check = Audit =>
       /\ Audit \in checks
       /\ \E c \in active \cup cs : v = Unneeded(c) /\ facts[c][text].named /\ c \notin got.usages
  /\ Audit \in checks \ failed => \A c \in active \cup cs :
       facts[c][text].named /\ c \notin got.usages => Unneeded(c) \in got.report
  /\ got.usages = usages \cup UsedIn(cs, text, Audit \in checks)

LEMMA VerdictsAre ==
  ASSUME NEW checks, NEW failed, NEW active, NEW usages, NEW t
  PROVE  /\ \A v \in Verdicts(checks, failed, active, usages, t) :
              Audit \in checks \ failed
              /\ \E c \in active : v = Unneeded(c) /\ facts[c][t].named /\ c \notin usages
         /\ Audit \in checks \ failed => \A c \in active :
              facts[c][t].named /\ c \notin usages =>
                Unneeded(c) \in Verdicts(checks, failed, active, usages, t)
  BY DEF Verdicts, Audited

LEMMA RanType ==
  ASSUME TypeInv, NEW checks \in SUBSET Checks, NEW failed, NEW down
  PROVE  /\ Ran(checks, failed, down) \in SUBSET Regular
         /\ Ran(checks, failed, down) \in SUBSET (checks \ {Audit})
         /\ \A t, tracking : UsedIn(Ran(checks, failed, down), t, tracking) \in SUBSET Regular
  BY DEF Ran, Checks, UsedIn

LEMMA VerdictsType ==
  ASSUME TypeInv, NEW checks, NEW failed, NEW active \in SUBSET Regular, NEW usages, NEW t
  PROVE  Verdicts(checks, failed, active, usages, t) \in SUBSET Violations
  BY VerdictsAre, ViolationType

LEMMA LookedFinds ==
  ASSUME TypeInv, NEW checks \in SUBSET Checks, NEW usages \in SUBSET Regular,
         NEW active \in SUBSET Regular, NEW failed, NEW down
  PROVE  LET got == Looked(checks, failed, down, usages, active)
             cs  == Ran(checks, failed, down)
         IN  got \in Results /\ got.doubt = {} /\ Finds(checks, failed, usages, active, got, cs)
  <1> DEFINE got == Looked(checks, failed, down, usages, active)
             cs == Ran(checks, failed, down)
             used == usages \cup UsedIn(cs, text, Audit \in checks)
             said == Verdicts(checks, failed, active \cup cs, used, text)
             found == FoundIn(cs, text)
  <1>1. cs \in SUBSET Regular /\ used \in SUBSET Regular /\ Audit \notin cs
    <2>1. cs \in SUBSET Regular /\ Audit \notin cs
      BY RanType
    <2> HIDE DEF cs
    <2> QED BY <2>1 DEF UsedIn
  <1>2. got = Result(found \cup said, used, {})
    BY DEF Looked
  <1>3. used = usages \cup UsedIn(cs, text, Audit \in checks)
    OBVIOUS
  <1>4. /\ \A v \in found : v.check \in cs /\ facts[v.check][text].found /\ v = Violation(v.check, "open")
        /\ \A c \in cs : facts[c][text].found => Violation(c, "open") \in found
    BY ViolationFields DEF FoundIn
  <1>5. /\ \A v \in said : Audit \in checks \ failed
             /\ \E c \in active \cup cs : v = Unneeded(c) /\ facts[c][text].named /\ c \notin used
        /\ Audit \in checks \ failed => \A c \in active \cup cs :
             facts[c][text].named /\ c \notin used => Unneeded(c) \in said
    <2> HIDE DEF used, cs
    <2> QED BY VerdictsAre
  <1>6. said \in SUBSET Violations
    BY <1>1, VerdictsType
  <1> HIDE DEF got, cs, used, said, found
  <1>7. found \in SUBSET Violations
    BY <1>1, <1>4, ViolationType DEF States
  <1>8. got \in Results /\ got.report = found \cup said /\ got.usages = used /\ got.doubt = {}
    BY <1>1, <1>2, <1>6, <1>7, ResultType
  <1>9. \A v \in said : v.check = Audit
    BY <1>5, ViolationFields
  <1>10. Finds(checks, failed, usages, active, got, cs)
    BY <1>1, <1>3, <1>4, <1>5, <1>8, <1>9 DEF Finds
  <1> QED BY <1>8, <1>10 DEF got, cs

LEMMA AfterIs ==
  ASSUME TypeInv, NEW report \in SUBSET Violations, NEW fixing \in SUBSET Regular,
         NEW after \in [fixing -> Outcomes]
  PROVE  /\ After(report, after) \in SUBSET Violations
         /\ \A v \in After(report, after) : \E w \in report : v.check = w.check /\
              \/ w.check \notin fixing /\ v = w
              \/ w.check \in fixing /\ v = Violation(w.check, after[w.check])
         /\ \A w \in report : w.check \notin fixing => w \in After(report, after)
         /\ \A w \in report : w.check \in fixing =>
              Violation(w.check, after[w.check]) \in After(report, after)
  <1> DEFINE Is(w) == IF w.check \in DOMAIN after THEN Violation(w.check, after[w.check]) ELSE w
  <1>1. After(report, after) = {Is(w) : w \in report}
    BY DEF After
  <1>2. DOMAIN after = fixing
    OBVIOUS
  <1>3. \A c \in fixing : Violation(c, after[c]) \in Violations
    BY ViolationType DEF Outcomes, States
  <1>4. \A w \in report : /\ w.check \in fixing => Is(w) = Violation(w.check, after[w.check])
                          /\ w.check \notin fixing => Is(w) = w
    BY <1>2
  <1> HIDE DEF Is
  <1> QED BY <1>1, <1>3, <1>4, ViolationFields

-----------------------------------------------------------------------------
(* The ends of a pass *)

(* A fixer at work on what was found *)
Fixing(got) == IF run.fix THEN {c \in Fixable : Violation(c, "open") \in got.report} ELSE {}

LEMMA FixingIs ==
  ASSUME TypeInv, NEW got
  PROVE  /\ Fixing(got) \in SUBSET Regular /\ Fixing(got) \in SUBSET Fixable
         /\ \A c \in Fixing(got) : Violation(c, "open") \in got.report
  BY SettingFacts DEF TypeInv, Fixing

(* Those of it that fail *)
Broken(fixing, after) == {c \in fixing : after[c] = "failed"}

(* A pass at the end of which the text is the one it read *)
LEMMA SameTextPass ==
  ASSUME TypeInv, NEW checks \in SUBSET Checks, NEW usages \in SUBSET Regular,
         NEW active \in SUBSET Regular, NEW failed, NEW down,
         NEW got \in Results, NEW cs \in SUBSET (checks \ {Audit}),
         Finds(checks, failed, usages, active, got, cs), got.doubt = {},
         NEW r, RunEffect(checks, r), r.changed = run.changed,
         (checks \ {Audit}) \ (r.failed \cup r.down) \subseteq cs,
         Audit \in failed => Audit \in r.failed,
         NEW fixing \in SUBSET Regular, NEW after \in [fixing -> Outcomes],
         \A c \in fixing : after[c] # "fixed", text' = text,
         NEW res, res = Result(After(got.report, after), got.usages, {})
  PROVE  /\ Effect(checks, res, r, Broken(fixing, after))
         /\ Seen(checks, usages, active, res, r)
  <1> DEFINE broken == Broken(fixing, after)
             report == After(got.report, after)
  <1>1. got.report \in SUBSET Violations /\ got.usages \in SUBSET Regular
    BY DEF Results
  <1>2. /\ report \in SUBSET Violations
        /\ \A v \in report : \E w \in got.report : v.check = w.check /\
             \/ w.check \notin fixing /\ v = w
             \/ w.check \in fixing /\ v = Violation(w.check, after[w.check])
        /\ \A w \in got.report : w.check \notin fixing => w \in report
        /\ \A w \in got.report : w.check \in fixing => Violation(w.check, after[w.check]) \in report
    BY <1>1, AfterIs
  <1>3. \A c \in fixing : after[c] = "open" \/ (after[c] = "failed" /\ c \in broken)
    BY DEF Outcomes, Broken
  <1> HIDE DEF report, broken
  <1>4. res \in Results /\ res.report = report /\ res.usages = got.usages /\ res.doubt = {}
    BY <1>1, <1>2, ResultType DEF report
  <1>5. Audit \notin Regular
    BY SettingFacts DEF TypeInv
  <1>6. ASSUME NEW v \in report, v.check # Audit
        PROVE  /\ v.check \in cs /\ facts[v.check][text].found
               /\ v = Violation(v.check, "open") \/ v.check \in broken
    <2>1. PICK w \in got.report : v.check = w.check /\
            \/ w.check \notin fixing /\ v = w
            \/ w.check \in fixing /\ v = Violation(w.check, after[w.check])
      BY <1>2
    <2>2. w.check \in cs /\ facts[w.check][text].found /\ w = Violation(w.check, "open")
      BY <1>6, <2>1 DEF Finds
    <2> QED BY <1>3, <2>1, <2>2
  <1>7. ASSUME NEW c \in checks \cap Regular, facts[c][text].found
        PROVE  \/ Violation(c, "open") \in report
               \/ c \in r.failed \cup r.down
               \/ c \in broken /\ Violation(c, "failed") \in report
    <2>1. CASE c \in r.failed \cup r.down
      BY <2>1
    <2>2. CASE c \notin r.failed \cup r.down
      <3>1. c \in cs
        BY <1>5, <2>2
      <3>2. Violation(c, "open") \in got.report /\ Violation(c, "open").check = c
        BY <1>7, <3>1, ViolationFields DEF Finds
      <3> QED BY <1>2, <1>3, <3>2
    <2> QED BY <2>1, <2>2
  <1>8. PlainEffect(checks, res, r, broken)
    BY <1>4, <1>6, <1>7 DEF PlainEffect
  <1>9. \A v : v.check = Audit => (v \in report <=> v \in got.report)
    BY <1>2, <1>5
  <1>10. Named(checks, res)
    BY <1>4, <1>6, <1>9 DEF Named, Finds
  <1>11. Opens(res, r)
    BY <1>4, <1>6 DEF Opens
  <1>12. Uses(checks, usages, res, r)
    <2>1. \A c \in got.usages \ usages : c \in checks /\ facts[c][text'].used
      BY DEF Finds, UsedIn
    <2> QED BY <1>4, <2>1 DEF Uses
  <1>13. ASSUME Audit \in checks
         PROVE  Judges(checks, usages, active, res, r, cs, text)
    <2>1. got.usages = usages \cup {c \in cs : facts[c][text].used}
      BY <1>13 DEF Finds, UsedIn
    <2>2. /\ \A v \in got.report : v.check = Audit => \E c \in active \cup cs :
               v = Unneeded(c) /\ facts[c][text].named /\ c \notin got.usages
          /\ Audit \notin r.failed => \A c \in active \cup cs :
               facts[c][text].named /\ c \notin got.usages => Unneeded(c) \in got.report
      BY <1>13 DEF Finds
    <2>3. \A c : Unneeded(c) \in report <=> Unneeded(c) \in got.report
      BY <1>9, ViolationFields
    <2>4. \A v \in report : v.check = Audit => v \in got.report
      BY <1>9
    <2> QED BY <1>4, <2>1, <2>2, <2>3, <2>4 DEF Judges
  <1>14. Audits(checks, usages, active, res, r)
    BY <1>13 DEF Audits
  <1> QED BY <1>4, <1>8, <1>10, <1>11, <1>12, <1>14 DEF Effect, Seen, broken

(* A pass that left another text and is not known to *)
LEMMA UnseenPass ==
  ASSUME TypeInv, NEW checks \in SUBSET Checks, NEW usages \in SUBSET Regular,
         NEW active \in SUBSET Regular, NEW failed, NEW got \in Results,
         NEW cs \in SUBSET (checks \ {Audit}), Finds(checks, failed, usages, active, got, cs),
         NEW r, RunEffect(checks, r), r.changed = run.changed,
         NEW fixing \in (SUBSET Fixable) \ {{}}, \A c \in fixing : Violation(c, "open") \in got.report,
         NEW after \in [fixing -> Outcomes], text' \in Texts,
         NEW res, res = Result(After(got.report, after), got.usages, {"unseen"})
  PROVE  /\ Effect(checks, res, r, Broken(fixing, after))
         /\ Seen(checks, usages, active, res, r)
  <1> DEFINE report == After(got.report, after)
  <1>1. got.report \in SUBSET Violations /\ got.usages \in SUBSET Regular
    BY DEF Results
  <1>2. fixing \in SUBSET Regular
    BY SettingFacts DEF TypeInv
  <1>3. /\ report \in SUBSET Violations
        /\ \A v \in report : \E w \in got.report : v.check = w.check
        /\ \A w \in got.report : w.check \in fixing => Violation(w.check, after[w.check]) \in report
    BY <1>1, <1>2, AfterIs
  <1> HIDE DEF report
  <1>4. {"unseen"} \in SUBSET Doubts
    BY DEF Doubts
  <1>5. res \in Results /\ res.report = report /\ res.doubt = {"unseen"}
    BY <1>1, <1>3, <1>4, ResultType DEF report
  <1>6. \E v \in report : v.check \in Fixable
    <2>1. PICK c \in fixing : TRUE
      OBVIOUS
    <2>2. Violation(c, "open") \in got.report /\ Violation(c, "open").check = c
      BY ViolationFields
    <2>3. Violation(c, after[c]) \in report
      BY <1>3, <2>2
    <2> QED BY <2>3, ViolationFields
  <1>7. Named(checks, res)
    BY <1>3, <1>5 DEF Named, Finds
  <1>8. Opens(res, r) /\ Audits(checks, usages, active, res, r) /\ Uses(checks, usages, res, r)
    BY <1>5 DEF Opens, Sure, Audits, Judged, Uses
  <1> QED BY <1>5, <1>6, <1>7, <1>8 DEF Effect, UnseenEffect, Seen

LEMMA UnnoticedPass ==
  ASSUME TypeInv, NEW checks \in SUBSET Checks, NEW usages \in SUBSET Regular,
         NEW active \in SUBSET Regular, NEW failed, NEW down,
         NEW got \in Results, NEW cs \in SUBSET (checks \ {Audit}),
         Finds(checks, failed, usages, active, got, cs), got.doubt = {},
         NEW r, RunEffect(checks, r), r.changed = run.changed,
         (checks \ {Audit}) \ (r.failed \cup r.down) \subseteq cs,
         Audit \in failed => Audit \in r.failed, Unnoticed(got, r, Fixing(got))
  PROVE  \E res, s, broken :
           /\ Effect(checks, res, s, broken) /\ Seen(checks, usages, active, res, s)
           /\ Use(res, s, broken)
  <1> DEFINE fixing == Fixing(got)
  <1>1. PICK new \in Texts, after \in [fixing -> Outcomes] :
          LET broken == {c \in fixing : after[c] = "failed"}
              report == After(got.report, after)
          IN  /\ fixing = {} => new = text
              /\ \A c \in fixing : after[c] = "fixed" => new # text /\ facts[c][new].found
              /\ text' = new
              /\ \E raised \in SUBSET broken :
                   Use(Result(report, got.usages, IF new = text THEN {} ELSE {"unseen"}),
                       [r EXCEPT !.failed = @ \cup raised], broken)
    BY DEF Unnoticed
  <1> DEFINE broken == Broken(fixing, after)
             res == Result(After(got.report, after), got.usages, IF new = text THEN {} ELSE {"unseen"})
  <1>2. PICK raised \in SUBSET broken : Use(res, [r EXCEPT !.failed = @ \cup raised], broken)
    BY <1>1 DEF Broken
  <1> DEFINE s == [r EXCEPT !.failed = @ \cup raised]
  <1>3. fixing \in SUBSET Regular /\ fixing \in SUBSET Fixable
        /\ \A c \in fixing : Violation(c, "open") \in got.report
    BY FixingIs
  <1>4. fixing \subseteq checks
    BY <1>3, ViolationFields, SettingFacts DEF TypeInv, Finds
  <1>5. r \in Runs /\ r.changed \in BOOLEAN
    BY DEF RunEffect, Runs
  <1>6. raised \in SUBSET checks
    BY <1>4 DEF Broken
  <1>7. s = Grown(r, raised, {})
    BY <1>5 DEF Runs, Grown
  <1> HIDE DEF s, fixing, broken
  <1>8. RunEffect(checks, s) /\ s.changed = run.changed /\ s.failed = r.failed \cup raised
        /\ s.down = r.down
    <2>1. RunEffect(checks, Grown(r, raised, {}))
      BY <1>6, GrownEffect
    <2>2. /\ Grown(r, raised, {}).changed = r.changed
          /\ Grown(r, raised, {}).failed = r.failed \cup raised
          /\ Grown(r, raised, {}).down = r.down
      BY <1>5 DEF Runs, Grown
    <2> QED BY <1>7, <2>1, <2>2
  <1>9. (checks \ {Audit}) \ (s.failed \cup s.down) \subseteq cs /\ (Audit \in failed => Audit \in s.failed)
    BY <1>8
  <1>10. Effect(checks, res, s, broken) /\ Seen(checks, usages, active, res, s)
    <2>1. CASE new = text
      <3>1. res = Result(After(got.report, after), got.usages, {})
        BY <2>1
      <3>2. text' = text /\ \A c \in fixing : after[c] # "fixed"
        BY <1>1, <2>1
      <3> HIDE DEF res
      <3> QED BY <1>3, <1>8, <1>9, <3>1, <3>2, SameTextPass DEF broken
    <2>2. CASE new # text
      <3>1. res = Result(After(got.report, after), got.usages, {"unseen"})
        BY <2>2
      <3>2. text' \in Texts /\ fixing # {}
        BY <1>1, <2>2
      <3> HIDE DEF res
      <3> QED BY <1>3, <1>8, <3>1, <3>2, UnseenPass DEF broken
    <2> QED BY <2>1, <2>2
  <1> QED BY <1>2, <1>10 DEF s

(* What fixes that are known of leave: findings that are there, but for     *)
(* those of the checks in stale, and what says that there was a fix         *)
Leaves(checks, report, stale, new) ==
  /\ report \in SUBSET Violations
  /\ \A v \in report : v.check # Audit =>
       /\ v.check \in checks
       /\ v.state = "open" /\ v.check \notin stale => facts[v.check][new].found
  /\ Audit \notin checks => \A v \in report : v.check # Audit
  /\ \E v \in report : v.check \in Fixable

LEMMA FixedLeaves ==
  ASSUME TypeInv, NEW checks \in SUBSET Checks, NEW usages, NEW active, NEW failed,
         NEW got \in Results, NEW cs \in SUBSET (checks \ {Audit}),
         Finds(checks, failed, usages, active, got, cs),
         NEW fixing \in SUBSET Fixable, \A c \in fixing : Violation(c, "open") \in got.report,
         NEW after \in [fixing -> Outcomes], NEW c0 \in fixing, after[c0] = "fixed",
         NEW partly \in SUBSET fixing, NEW stale, NEW new \in Texts
  PROVE  Leaves(checks, Fixed(got.report, after, new, stale, partly), stale, new)
  <1> DEFINE was == After(got.report, after)
             still(c) == c \in stale \/ (c # Audit /\ facts[c][new].found)
             gone(v) == v.state = "open" /\ ~still(v.check)
             Left(v) == IF gone(v) THEN [v EXCEPT !.state = "indirect"] ELSE v
             left == {Left(v) : v \in was}
             more == {Violation(c, "open") : c \in {d \in partly : still(d)}}
  <1>1. Fixed(got.report, after, new, stale, partly) = left \cup more
    BY DEF Fixed
  <1>2. fixing \in SUBSET Regular /\ got.report \in SUBSET Violations
    BY SettingFacts DEF TypeInv, Results
  <1>3. /\ was \in SUBSET Violations
        /\ \A v \in was : \E w \in got.report : v.check = w.check
        /\ \A w \in got.report : w.check \in fixing => Violation(w.check, after[w.check]) \in was
    BY <1>2, AfterIs
  <1>4. \A c \in fixing : c \in checks /\ c \in Regular /\ c # Audit
    BY <1>2, ViolationFields, SettingFacts DEF TypeInv, Finds
  <1>5. /\ \A v \in was : v.check # Audit => v.check \in checks
        /\ Audit \notin checks => \A v \in was : v.check # Audit
    BY <1>3 DEF Finds
  <1> HIDE DEF was
  <1>6. ASSUME NEW v \in was
        PROVE  /\ Left(v) \in Violations /\ Left(v).check = v.check
               /\ Left(v).state = "open" /\ v.check # Audit => still(v.check)
    <2>1. v \in Violations
      BY <1>3
    <2>2. CASE gone(v)
      BY <2>1, <2>2 DEF Violations, States
    <2>3. CASE ~gone(v)
      BY <2>1, <2>3
    <2> QED BY <2>2, <2>3
  <1>7. ASSUME NEW v \in more
        PROVE  /\ v \in Violations /\ v.check \in fixing /\ still(v.check)
    <2>1. PICK c \in partly : still(c) /\ v = Violation(c, "open")
      OBVIOUS
    <2> QED BY <1>4, <2>1, ViolationFields, ViolationType DEF States
  <1>8. Violation(c0, "fixed") \in left
    <2>1. Violation(c0, "open") \in got.report /\ Violation(c0, "open").check = c0
      BY ViolationFields
    <2>2. Violation(c0, "fixed") \in was
      BY <1>3, <2>1
    <2>3. Left(Violation(c0, "fixed")) = Violation(c0, "fixed")
      BY ViolationFields
    <2> HIDE DEF Left
    <2> QED BY <2>2, <2>3
  <1>9. \A v \in left : \E w \in was : v = Left(w)
    OBVIOUS
  <1> DEFINE report == left \cup more
  <1> HIDE DEF Left, left, more
  <1>10. report \in SUBSET Violations
    BY <1>6, <1>7, <1>9
  <1>11. ASSUME NEW v \in report, v.check # Audit
         PROVE  /\ v.check \in checks
                /\ v.state = "open" /\ v.check \notin stale => facts[v.check][new].found
    BY <1>4, <1>5, <1>6, <1>7, <1>9, <1>11
  <1>12. ASSUME Audit \notin checks, NEW v \in report
         PROVE  v.check # Audit
    BY <1>4, <1>5, <1>6, <1>7, <1>9, <1>12
  <1>13. \E v \in report : v.check \in Fixable
    BY <1>8, ViolationFields
  <1> HIDE DEF report
  <1>14. Leaves(checks, report, stale, new)
    BY <1>10, <1>11, <1>12, <1>13 DEF Leaves
  <1> QED BY <1>1, <1>14 DEF report

LEMMA ChangedPass ==
  ASSUME TypeInv, NEW checks \in SUBSET Checks, NEW usages, NEW active, NEW res \in Results,
         NEW s, RunEffect(checks, s), s.changed = TRUE, NEW new \in Texts, text' = new,
         NEW stale, Leaves(checks, res.report, stale, new),
         Sure(res.doubt) => stale \subseteq s.failed,
         BringsNothingIn(new), Audits(checks, usages, active, res, s), NEW broken
  PROVE  Effect(checks, res, s, broken) /\ Seen(checks, usages, active, res, s)
  <1>1. FixEffect(res, s)
    BY DEF FixEffect, Leaves, BringsNothingIn
  <1>2. Named(checks, res)
    BY DEF Named, Leaves
  <1>3. Opens(res, s)
    BY DEF Opens, Leaves
  <1>4. Uses(checks, usages, res, s)
    BY DEF Uses
  <1> QED BY <1>1, <1>2, <1>3, <1>4 DEF Effect, Seen

(* The audit made again of the text a fix left *)
LEMMA RefreshedPass ==
  ASSUME TypeInv, NEW checks \in SUBSET Checks, NEW usages \in SUBSET Regular,
         NEW active \in SUBSET Regular, NEW got \in Results, NEW new \in Texts, text' = new,
         NEW stale, Leaves(checks, got.report, stale, new), Audit \in checks,
         NEW failed, NEW down, NEW s,
         (checks \ {Audit}) \ (s.failed \cup s.down) \subseteq Ran(checks, failed, down),
         Audit \in failed => Audit \in s.failed,
         NEW res, res = Refreshed(checks, failed, down, usages, active, got, new)
  PROVE  /\ res \in Results /\ res.doubt = got.doubt /\ Leaves(checks, res.report, stale, new)
         /\ Audits(checks, usages, active, res, s)
  <1> DEFINE cs == Ran(checks, failed, down)
             used == usages \cup UsedIn(cs, new, TRUE)
             fresh == Verdicts(checks, failed, active \cup cs, used, new)
             kept == {v \in got.report : v.check # Audit}
  <1>1. cs \in SUBSET (checks \ {Audit}) /\ cs \in SUBSET Regular
    BY RanType
  <1>2. res = Result(kept \cup fresh, used, got.doubt)
    BY DEF Refreshed
  <1>3. used = usages \cup {c \in cs : facts[c][new].used}
    BY DEF UsedIn
  <1>4. /\ \A v \in fresh : Audit \in checks \ failed
             /\ \E c \in active \cup cs : v = Unneeded(c) /\ facts[c][new].named /\ c \notin used
        /\ Audit \in checks \ failed => \A c \in active \cup cs :
             facts[c][new].named /\ c \notin used => Unneeded(c) \in fresh
    <2> HIDE DEF used, cs
    <2> QED BY VerdictsAre
  <1>5. fresh \in SUBSET Violations
    BY <1>1, VerdictsType
  <1>6. (checks \ {Audit}) \ (s.failed \cup s.down) \subseteq cs
    OBVIOUS
  <1> HIDE DEF cs, used, fresh
  <1>7. used \in SUBSET Regular /\ kept \in SUBSET Violations /\ got.doubt \in SUBSET Doubts
    BY <1>1, <1>3 DEF Results
  <1>8. \A v \in fresh : v.check = Audit
    BY <1>4, ViolationFields
  <1> DEFINE report == kept \cup fresh
  <1>9. report \in SUBSET Violations
    BY <1>5, <1>7
  <1>10. Leaves(checks, report, stale, new)
    <2>1. PICK v \in got.report : v.check \in Fixable
      BY DEF Leaves
    <2>2. v \in report /\ v.check \in Fixable
      BY <2>1, SettingFacts DEF TypeInv
    <2> QED BY <1>8, <1>9, <2>2 DEF Leaves
  <1>11. \A v \in report : v.check = Audit => v \in fresh
    OBVIOUS
  <1>12. \A v \in fresh : v \in report
    OBVIOUS
  <1> HIDE DEF report
  <1>13. /\ res \in Results /\ res.report = report /\ res.usages = used /\ res.doubt = got.doubt
    BY <1>2, <1>7, <1>9, ResultType DEF report
  <1>14. Judges(checks, usages, active, res, s, cs, text')
    BY <1>3, <1>4, <1>6, <1>11, <1>12, <1>13 DEF Judges
  <1> QED BY <1>1, <1>10, <1>13, <1>14 DEF Audits

LEMMA AgainPass ==
  ASSUME TypeInv, NEW checks \in SUBSET Checks, NEW usages \in SUBSET Regular,
         NEW active \in SUBSET Regular, NEW got \in Results,
         NEW r, RunEffect(checks, r), r.changed = TRUE, NEW new \in Texts, text' = new,
         NEW stale, Leaves(checks, got.report, stale, new),
         Sure(got.doubt) => stale \subseteq r.failed,
         BringsNothingIn(new), NEW broken, Again(got, r, broken, checks, usages, active, new)
  PROVE  \E res, s, b :
           /\ Effect(checks, res, s, b) /\ Seen(checks, usages, active, res, s)
           /\ Use(res, s, b)
  <1>1. CASE Audit \notin checks /\ Use(got, r, broken)
    <2>1. Audits(checks, usages, active, got, r)
      BY <1>1 DEF Audits
    <2> QED BY <1>1, <2>1, ChangedPass
  <1>2. CASE Audit \in checks /\ Use([got EXCEPT !.doubt = @ \cup {"audit"}], r, broken)
    <2> DEFINE res == [got EXCEPT !.doubt = @ \cup {"audit"}]
    <2>1. res = Result(got.report, got.usages, got.doubt \cup {"audit"})
      BY MoreDoubt
    <2>2. got.report \in SUBSET Violations /\ got.usages \in SUBSET Regular
          /\ got.doubt \cup {"audit"} \in SUBSET Doubts
      BY DEF Results, Doubts
    <2> HIDE DEF res
    <2>3. res \in Results /\ res.report = got.report /\ res.doubt = got.doubt \cup {"audit"}
      BY <2>1, <2>2, ResultType
    <2>4. Audits(checks, usages, active, res, r)
      BY <2>3 DEF Audits, Judged
    <2>5. Sure(res.doubt) => Sure(got.doubt)
      BY <2>3 DEF Sure
    <2>6. Leaves(checks, res.report, stale, new)
      BY <2>3
    <2>7. Effect(checks, res, r, broken) /\ Seen(checks, usages, active, res, r)
      BY <2>3, <2>4, <2>5, <2>6, ChangedPass
    <2> QED BY <1>2, <2>7 DEF res
  <1>3. ASSUME Audit \in checks, NEW failed \in SUBSET checks,
               NEW down \in SUBSET ((checks \cap Rerun) \ failed),
               Use(Refreshed(checks, failed, r.down \cup down, usages, active, got, new),
                   [r EXCEPT !.failed = @ \cup (failed \ r.down), !.down = @ \cup down], broken)
        PROVE  \E res, s, b :
                 /\ Effect(checks, res, s, b) /\ Seen(checks, usages, active, res, s)
                 /\ Use(res, s, b)
    <2> DEFINE fails == failed \ r.down
               s == [r EXCEPT !.failed = @ \cup fails, !.down = @ \cup down]
               res == Refreshed(checks, failed, r.down \cup down, usages, active, got, new)
    <2>1. r \in Runs
      BY DEF RunEffect
    <2>2. s.changed = TRUE /\ s.failed = r.failed \cup fails /\ s.down = r.down \cup down
      BY <2>1 DEF Runs
    <2>3. fails \in SUBSET checks /\ down \in SUBSET Rerun
      OBVIOUS
    <2>4. s = Grown(r, fails, down)
      BY DEF Grown
    <2>5. Use(res, s, broken)
      BY <1>3
    <2>6. (checks \ {Audit}) \ (s.failed \cup s.down) \subseteq Ran(checks, failed, r.down \cup down)
      BY <2>2 DEF Ran
    <2>7. Audit \in failed => Audit \in s.failed
      <3>1. Audit \notin r.down
        BY <2>1, SettingFacts DEF Runs, TypeInv
      <3> QED BY <2>2, <3>1
    <2> HIDE DEF s, res, fails
    <2>8. RunEffect(checks, s)
      BY <2>3, <2>4, GrownEffect
    <2>9. /\ res \in Results /\ res.doubt = got.doubt /\ Leaves(checks, res.report, stale, new)
          /\ Audits(checks, usages, active, res, s)
      BY <1>3, <2>6, <2>7, RefreshedPass DEF res
    <2>10. Effect(checks, res, s, broken) /\ Seen(checks, usages, active, res, s)
      BY <2>2, <2>8, <2>9, ChangedPass
    <2> QED BY <2>5, <2>10
  <1> QED BY <1>1, <1>2, <1>3 DEF Again

LEMMA NoticedPass ==
  ASSUME TypeInv, NEW checks \in SUBSET Checks, NEW usages \in SUBSET Regular,
         NEW active \in SUBSET Regular, NEW failed, NEW got \in Results,
         NEW cs \in SUBSET (checks \ {Audit}), Finds(checks, failed, usages, active, got, cs),
         NEW r, RunEffect(checks, r), Noticed(got, r, Fixing(got), checks, usages, active)
  PROVE  \E res, s, b :
           /\ Effect(checks, res, s, b) /\ Seen(checks, usages, active, res, s)
           /\ Use(res, s, b)
  <1> DEFINE fixing == Fixing(got)
  <1>1. PICK new \in Texts \ {text}, after \in [fixing -> Outcomes] :
          LET fixed  == {c \in fixing : after[c] = "fixed"}
              broken == {c \in fixing : after[c] = "failed"}
          IN  /\ fixed # {} /\ BringsNothingIn(new) /\ text' = new
              /\ \E partly \in SUBSET fixed, unread \in BOOLEAN, raised \in SUBSET broken :
                   \E lost \in SUBSET (IF unread THEN {} ELSE LeftOpen(got.report, after, partly)) :
                     LET stale == IF unread THEN Checks ELSE lost
                     IN  Again(Result(Fixed(got.report, after, new, stale, partly), got.usages,
                                      IF unread THEN {"left"} ELSE {}),
                               [r EXCEPT !.changed = TRUE, !.failed = @ \cup raised \cup lost],
                               broken, checks, usages, active, new)
    BY DEF Noticed
  <1> DEFINE fixed == {c \in fixing : after[c] = "fixed"}
             broken == {c \in fixing : after[c] = "failed"}
  <1>2. fixed # {} /\ BringsNothingIn(new) /\ text' = new
    BY <1>1
  <1>3. PICK partly \in SUBSET fixed, unread \in BOOLEAN, raised \in SUBSET broken :
          \E lost \in SUBSET (IF unread THEN {} ELSE LeftOpen(got.report, after, partly)) :
            LET stale == IF unread THEN Checks ELSE lost
            IN  Again(Result(Fixed(got.report, after, new, stale, partly), got.usages,
                             IF unread THEN {"left"} ELSE {}),
                      [r EXCEPT !.changed = TRUE, !.failed = @ \cup raised \cup lost],
                      broken, checks, usages, active, new)
    BY <1>1
  <1>4. PICK lost \in SUBSET (IF unread THEN {} ELSE LeftOpen(got.report, after, partly)) :
          LET stale == IF unread THEN Checks ELSE lost
          IN  Again(Result(Fixed(got.report, after, new, stale, partly), got.usages,
                           IF unread THEN {"left"} ELSE {}),
                    [r EXCEPT !.changed = TRUE, !.failed = @ \cup raised \cup lost],
                    broken, checks, usages, active, new)
    BY <1>3
  <1> DEFINE stale == IF unread THEN Checks ELSE lost
             doubt == IF unread THEN {"left"} ELSE {}
             report == Fixed(got.report, after, new, stale, partly)
             res == Result(report, got.usages, doubt)
             fails == raised \cup lost
             s == [r EXCEPT !.changed = TRUE, !.failed = @ \cup raised \cup lost]
  <1>5. Again(res, s, broken, checks, usages, active, new)
    BY <1>4
  <1>6. fixing \in SUBSET Regular /\ fixing \in SUBSET Fixable
        /\ \A c \in fixing : Violation(c, "open") \in got.report
    BY FixingIs
  <1>7. \A c \in fixing : c \in checks
    <2>1. Audit \notin Regular
      BY SettingFacts DEF TypeInv
    <2> HIDE DEF fixing
    <2> QED BY <1>6, <2>1, ViolationFields DEF Finds
  <1>8. PICK c0 \in fixing : after[c0] = "fixed"
    BY <1>2
  <1>9. r \in Runs
    BY DEF RunEffect
  <1>10. LeftOpen(got.report, after, partly) \subseteq checks
    <2>1. got.report \in SUBSET Violations
      BY DEF Results
    <2> HIDE DEF fixing
    <2>2. \A v \in After(got.report, after) : \E w \in got.report : v.check = w.check
      BY <1>6, <2>1, AfterIs
    <2>3. \A c \in Regular : Violation(c, "open") \in After(got.report, after) => c \in checks
      BY <2>2, ViolationFields, SettingFacts DEF TypeInv, Finds
    <2> QED BY <1>7, <2>3 DEF LeftOpen
  <1>11. fails \in SUBSET checks
    BY <1>7, <1>10
  <1>12. s = Changed(r, fails)
    BY <1>9 DEF Runs, Changed
  <1>13. s.changed = TRUE /\ s.failed = r.failed \cup fails
    BY <1>9 DEF Runs
  <1>14. Sure(doubt) => stale \subseteq s.failed
    BY <1>13 DEF Sure
  <1>15. doubt \in SUBSET Doubts /\ got.usages \in SUBSET Regular /\ partly \in SUBSET fixing
    BY DEF Doubts, Results
  <1> HIDE DEF fixing, fixed, broken, stale, doubt, res, fails, s
  <1>16. Leaves(checks, report, stale, new)
    BY <1>6, <1>8, <1>15, FixedLeaves
  <1>17. report \in SUBSET Violations
    BY <1>16 DEF Leaves
  <1> HIDE DEF report
  <1>18. res \in Results /\ res.report = report /\ res.doubt = doubt
    BY <1>15, <1>17, ResultType DEF res
  <1>19. RunEffect(checks, s)
    BY <1>11, <1>12, ChangedEffect
  <1>20. Leaves(checks, res.report, stale, new) /\ (Sure(res.doubt) => stale \subseteq s.failed)
    BY <1>14, <1>16, <1>18
  <1> QED BY <1>2, <1>5, <1>13, <1>18, <1>19, <1>20, AgainPass

(* A call of _check_file comes to one of these, or the file is not checked. *)
LEMMA CheckEffect ==
  ASSUME TypeInv, NEW checks \in SUBSET Checks, NEW usages \in SUBSET Regular,
         NEW active \in SUBSET Regular, CheckFile(checks, usages, active)
  PROVE  NotChecked \/ \E got, r, broken :
           /\ Effect(checks, got, r, broken) /\ Seen(checks, usages, active, got, r)
           /\ Use(got, r, broken)
  <1>1. CASE NotChecked
    BY <1>1
  <1>2. ASSUME NEW failed \in SUBSET checks, NEW down \in SUBSET ((checks \cap Rerun) \ failed),
               Pass(checks, usages, active, failed, down)
        PROVE  \E got, r, broken :
                 /\ Effect(checks, got, r, broken) /\ Seen(checks, usages, active, got, r)
                 /\ Use(got, r, broken)
    <2> DEFINE got == Looked(checks, failed, run.down \cup down, usages, active)
               cs == Ran(checks, failed, run.down \cup down)
               r == Begun(failed, down)
    <2>1. Unnoticed(got, r, Fixing(got)) \/ Noticed(got, r, Fixing(got), checks, usages, active)
      BY <1>2 DEF Pass, Fixing
    <2>2. got \in Results /\ got.doubt = {} /\ Finds(checks, failed, usages, active, got, cs)
      BY LookedFinds
    <2>3. cs \in SUBSET (checks \ {Audit})
      BY RanType
    <2>4. /\ RunEffect(checks, r) /\ r.changed = run.changed
          /\ r.failed = run.failed \cup (failed \ run.down) /\ r.down = run.down \cup down
      <3>1. RunEffect(checks, r)
        BY BegunEffect
      <3> QED BY <3>1 DEF Begun, TypeInv, Runs
    <2>5. (checks \ {Audit}) \ (r.failed \cup r.down) \subseteq cs
      BY <2>4 DEF Ran
    <2>6. Audit \in failed => Audit \in r.failed
      <3>1. Audit \notin run.down
        BY SettingFacts DEF TypeInv, Runs
      <3> QED BY <2>4, <3>1
    <2> HIDE DEF got, cs, r
    <2>7. CASE Unnoticed(got, r, Fixing(got))
      BY <2>2, <2>3, <2>4, <2>5, <2>6, <2>7, UnnoticedPass
    <2>8. CASE Noticed(got, r, Fixing(got), checks, usages, active)
      BY <2>2, <2>3, <2>4, <2>8, NoticedPass
    <2> QED BY <2>1, <2>7, <2>8
  <1> QED BY <1>1, <1>2 DEF CheckFile
-----------------------------------------------------------------------------
(* Types *)

LEMMA CheckType ==
  ASSUME TypeInv, setting' = setting, facts' = facts, NEW checks \in SUBSET run.checks,
         NEW usages \in SUBSET Regular, NEW active \in SUBSET Regular,
         CheckFile(checks, usages, active)
  PROVE  TypeInv'
  <1> USE SettingFacts DEF TypeInv
  <1>1. checks \in SUBSET Checks
    BY DEF Runs
  <1>2. CASE NotChecked
    BY <1>2, SettingStays DEF NotChecked, Runs, Pcs
  <1>3. ASSUME NEW got, NEW r, NEW broken, Effect(checks, got, r, broken), Use(got, r, broken)
        PROVE  TypeInv'
    <2>1. text' \in Texts /\ got \in Results /\ r \in Runs
      BY <1>3 DEF Effect, PlainEffect, UnseenEffect, FixEffect, RunEffect
    <2>2. r.checks = run.checks /\ r.select = run.select /\ r.ignored = run.ignored /\ r.only = run.only
      BY <1>3 DEF Effect, RunEffect, Runs
    <2>3. CASE AfterAlways(got, r, broken)
      <3> DEFINE said == {v \in got.report : v.check # Audit}
                 used == got.usages \cap Ran(run.checks \cap Rerun, r.failed, r.down)
      <3>1. run.kept \in Results
        BY DEF Runs
      <3>2. Merge(run.kept, got) \in Results
        BY <2>1, <3>1, MergeType
      <3>3. said \in SUBSET Violations /\ used \in SUBSET Regular /\ got.doubt \in SUBSET Doubts
        BY <2>1 DEF Results
      <3> HIDE DEF said, used
      <3>4. Result(said, used, got.doubt) \in Results
        BY <3>3, ResultType
      <3> QED BY <2>1, <2>2, <2>3, <3>2, <3>4, SettingStays, ZenonT(40) DEF AfterAlways, Runs, Pcs,
              said, used
    <2>4. ASSUME NEW cs \in SUBSET Checks, Store(cs, got, r, broken)
          PROVE  cache' \in [SUBSET Cacheable -> Entries \cup {NoEntry}]
      <3>1. Hook \in SUBSET Cacheable
        BY DEF Hook
      <3>2. Filed(cs \cap Cacheable, got, cs, text') \in Entries
        BY <2>1 DEF Filed, Entries, Results, Doubts
      <3> QED BY <2>4, <3>1, <3>2 DEF Store
    <2>5. CASE AfterAll(got, r, broken)
      BY <1>1, <2>1, <2>2, <2>4, <2>5, SettingStays DEF AfterAll, Runs, Pcs
    <2>6. CASE AfterOthers(got, r, broken)
      <3> DEFINE kept == [run.kept EXCEPT !.doubt = @ \cup DoubtOthers(r)]
      <3>1. kept \in Results
        BY DEF Runs, Results, DoubtOthers, Doubts
      <3> HIDE DEF kept
      <3>2. Merge(got, kept) \in Results
        BY <2>1, <3>1, MergeType
      <3>3. run.checks \ Rerun \in SUBSET Checks
        BY DEF Runs
      <3> QED BY <2>1, <2>2, <2>4, <2>6, <3>2, <3>3, SettingStays DEF AfterOthers, Runs, Pcs, kept
    <2> QED BY <1>3, <2>3, <2>5, <2>6 DEF Use
  <1> QED BY <1>1, <1>2, <1>3, CheckEffect

LEMMA IdleType ==
  ASSUME NEW n \in Nat
  PROVE  IdleRun(n) \in Runs
  BY CleanType DEF IdleRun, Runs, Pcs

(* Reconciliation: nothing is learnt, or what c finds has changed and       *)
(* replaces what was reported of it, unless the check fails.                *)
Reconciled(c, f, failed, skipped) ==
  /\ facts' = [facts EXCEPT ![c] = f]
  /\ \/ c \in run.ignored /\ run' = [run EXCEPT !.pc = "report"]
     \/ run' = [run EXCEPT !.pc = "report",
                  !.failed = IF failed /\ ~skipped THEN run.failed \cup {c} ELSE run.failed,
                  !.skipped = run.skipped \/ skipped,
                  !.got = Result(Replace(run.got.report, c,
                                         IF f[text].found /\ ~failed /\ ~skipped
                                         THEN {Violation(c, "open")} ELSE {}),
                                 run.got.usages, run.got.doubt)]

LEMMA ReconcileCases ==
  ASSUME TypeInv, Reconcile
  PROVE  \/ facts' = facts /\ run' = [run EXCEPT !.pc = "report"]
         \/ \E c \in Derived :
              /\ facts' = facts
              /\ \/ run' = [run EXCEPT !.pc = "report", !.down = run.down \cup {c}]
                 \/ run' = [run EXCEPT !.pc = "report", !.failed = run.failed \cup {c}]
         \/ \E c \in Derived, f \in [Texts -> AllFacts], failed, skipped \in BOOLEAN :
              Reconciled(c, f, failed, skipped)
  <1>1. ASSUME NEW c \in Derived, NEW f \in FactsOf(c), facts' = [facts EXCEPT ![c] = f],
               c \in run.ignored, run' = [run EXCEPT !.pc = "report"]
        PROVE  f \in [Texts -> AllFacts] /\ Reconciled(c, f, FALSE, FALSE)
    BY <1>1, SettingFacts DEF FactsOf, TypeInv, Reconciled
  <1> DEFINE Goal ==
        \/ facts' = facts /\ run' = [run EXCEPT !.pc = "report"]
        \/ \E c \in Derived :
             /\ facts' = facts
             /\ \/ run' = [run EXCEPT !.pc = "report", !.down = run.down \cup {c}]
                \/ run' = [run EXCEPT !.pc = "report", !.failed = run.failed \cup {c}]
        \/ \E c \in Derived, f \in [Texts -> AllFacts], failed, skipped \in BOOLEAN :
             Reconciled(c, f, failed, skipped)
  <1>2. CASE run' = [run EXCEPT !.pc = "report"] /\ UNCHANGED facts
    BY <1>2
  <1>3. ASSUME NEW c \in Reconcilable, facts' = facts,
               \/ run' = [run EXCEPT !.pc = "report", !.down = @ \cup {c}]
               \/ run' = [run EXCEPT !.pc = "report", !.failed = @ \cup {c}]
        PROVE  Goal
    BY <1>3 DEF Reconcilable
  <1>4. ASSUME NEW c \in Reconcilable, NEW f \in FactsOf(c), facts' = [facts EXCEPT ![c] = f],
               IF c \in run.ignored THEN run' = [run EXCEPT !.pc = "report"]
               ELSE \E failed, skipped \in BOOLEAN :
                      run' = [run EXCEPT !.pc = "report",
                        !.failed = IF failed /\ ~skipped THEN @ \cup {c} ELSE @,
                        !.skipped = @ \/ skipped,
                        !.got.report = Replace(@, c, IF f[text].found /\ ~failed /\ ~skipped
                                                     THEN {Violation(c, "open")} ELSE {})]
        PROVE  Goal
    <2>1. c \in Derived
      BY DEF Reconcilable
    <2>2. CASE c \in run.ignored
      <3>1. f \in [Texts -> AllFacts] /\ Reconciled(c, f, FALSE, FALSE)
        BY <1>1, <1>4, <2>1, <2>2
      <3> QED BY <2>1, <3>1
    <2>3. CASE c \notin run.ignored
      <3>1. PICK failed \in BOOLEAN, skipped \in BOOLEAN :
              run' = [run EXCEPT !.pc = "report",
                        !.failed = IF failed /\ ~skipped THEN @ \cup {c} ELSE @,
                        !.skipped = @ \/ skipped,
                        !.got.report = Replace(@, c, IF f[text].found /\ ~failed /\ ~skipped
                                                     THEN {Violation(c, "open")} ELSE {})]
        BY <1>4, <2>3
      <3> DEFINE new == Replace(run.got.report, c, IF f[text].found /\ ~failed /\ ~skipped
                                                   THEN {Violation(c, "open")} ELSE {})
      <3>2. [run.got EXCEPT !.report = new] = Result(new, run.got.usages, run.got.doubt)
        BY ReportReplaced DEF TypeInv, Runs
      <3>3. run' = [run EXCEPT !.pc = "report",
                      !.failed = IF failed /\ ~skipped THEN run.failed \cup {c} ELSE run.failed,
                      !.skipped = run.skipped \/ skipped, !.got = [run.got EXCEPT !.report = new]]
        BY <3>1, Zenon
      <3>4. Reconciled(c, f, failed, skipped)
        BY <1>4, <3>2, <3>3, Zenon DEF Reconciled
      <3>5. f \in [Texts -> AllFacts] /\ Reconciled(c, f, failed, skipped)
        BY <3>4, SettingFacts DEF FactsOf, TypeInv
      <3> QED BY <2>1, <3>5
    <2> QED BY <2>2, <2>3
  <1> QED BY <1>2, <1>3, <1>4, Zenon DEF Reconcile

LEMMA TypeInit == Init => TypeInv
  <1> SUFFICES ASSUME Init PROVE TypeInv
    OBVIOUS
  <1>1. [Texts -> Settings[setting].kinds] \subseteq [Texts -> AllFacts]
    BY SettingFacts DEF Init
  <1>2. facts \in [Regular -> [Texts -> AllFacts]]
    BY <1>1 DEF Init
  <1>3. run \in Runs
    <2>1. run = IdleRun(0) /\ 0 \in Nat
      BY DEF Init
    <2> QED BY <2>1, IdleType
  <1> QED BY <1>2, <1>3 DEF Init, TypeInv, IdleRun

LEMMA TypeStep == TypeInv /\ [Next]_vars => TypeInv'
  <1> SUFFICES ASSUME TypeInv, [Next]_vars PROVE TypeInv'
    OBVIOUS
  <1> USE SettingFacts DEF TypeInv
  <1>1. CASE Start
    <2>1. PICK s \in Selections, fix \in BOOLEAN :
            LET ignored == s.ignore \cap s.select
                as == Applicable(s.select, ignored)
            IN  run' = [IdleRun(run.nr + 1) EXCEPT
                          !.pc = IF as = {} /\ ignored = {} THEN "reconcile" ELSE "lookup",
                          !.select = s.select, !.ignored = ignored, !.fix = fix,
                          !.checks = as \ ignored, !.only = (as \cap ignored) \cap Derived]
      BY <1>1 DEF Start
    <2>2. Applicable(s.select, s.ignore \cap s.select) \subseteq s.select
      BY DEF Applicable
    <2>3. s.select \in SUBSET Checks /\ s.ignore \in SUBSET Regular
      BY <2>1
    <2> DEFINE ignored == s.ignore \cap s.select
               as == Applicable(s.select, ignored)
    <2>4. as \subseteq s.select /\ as \in SUBSET Checks /\ ignored \in SUBSET Regular
      BY <2>2, <2>3
    <2>5. IdleRun(run.nr + 1) \in Runs
      BY IdleType DEF Runs
    <2>6. run' = [IdleRun(run.nr + 1) EXCEPT
                    !.pc = IF as = {} /\ ignored = {} THEN "reconcile" ELSE "lookup",
                    !.select = s.select, !.ignored = ignored, !.fix = fix,
                    !.checks = as \ ignored, !.only = (as \cap ignored) \cap Derived]
      BY <2>1
    <2> HIDE DEF as, ignored
    <2>7. run' \in Runs /\ run'.checks = as \ ignored /\ run'.select = s.select /\ run'.ignored = ignored
          /\ run'.only = (as \cap ignored) \cap Derived
      BY <2>3, <2>4, <2>5, <2>6, ZenonT(40) DEF Runs, Pcs
    <2> QED BY <1>1, <2>4, <2>7, SettingStays DEF Start
  <1>2. CASE Lookup
    <2>1. Entry # NoEntry => Entry \in Results
      <3>1. Hook \in SUBSET Cacheable
        BY DEF Hook
      <3>2. cache[Hook].text = text => cache[Hook] \in Entries
        BY <3>1 DEF NoEntry
      <3> QED BY <3>2 DEF Entry, Entries, Results, Result
    <2>2. Clean \in Results
      BY CleanType
    <2> QED BY <1>2, <2>1, <2>2, SettingStays, ZenonT(40) DEF Lookup, Runs, Pcs
  <1>3. CASE RecordOnly
    <2>1. Clean \in Results
      BY CleanType
    <2> DEFINE got == IF run.checks = {} THEN Clean ELSE run.kept
    <2>2. got \in Results
      BY <2>1 DEF Runs
    <2>4. \/ run' = [run EXCEPT !.pc = "reconcile", !.got = got]
          \/ run' = [run EXCEPT !.pc = "reconcile", !.skipped = TRUE]
      BY <1>3 DEF RecordOnly
    <2> HIDE DEF got
    <2>3. run' \in Runs /\ run'.checks = run.checks /\ run'.select = run.select
          /\ run'.ignored = run.ignored /\ run'.only = run.only
      <3>1. CASE run' = [run EXCEPT !.pc = "reconcile", !.got = got]
        BY <2>2, <3>1 DEF Runs, Pcs
      <3>2. CASE run' = [run EXCEPT !.pc = "reconcile", !.skipped = TRUE]
        BY <3>2 DEF Runs, Pcs
      <3> QED BY <2>4, <3>1, <3>2
    <2> QED BY <1>3, <2>3, SettingStays DEF RecordOnly
  <1>4. CASE CheckAlways
    <2>1. run.kept.usages \in SUBSET Regular /\ run.checks \cap Cacheable \in SUBSET Regular
      BY DEF Runs, Results
    <2> QED BY <1>4, <2>1, CheckType DEF CheckAlways
  <1>5. CASE CheckAll
    BY <1>5, CheckType DEF CheckAll
  <1>6. CASE CheckOthers
    <2>1. run.kept.usages \in SUBSET Regular /\ Ran(run.checks, run.failed, run.down) \in SUBSET Regular
      BY DEF Runs, Results, Ran, Checks
    <2> QED BY <1>6, <2>1, CheckType DEF CheckOthers
  <1>7. CASE Reconcile
    <2>1. ASSUME NEW c \in Derived, NEW f \in [Texts -> AllFacts], NEW failed \in BOOLEAN,
                 NEW skipped \in BOOLEAN, Reconciled(c, f, failed, skipped)
          PROVE  /\ facts' \in [Regular -> [Texts -> AllFacts]]
                 /\ run' \in Runs /\ run'.checks = run.checks /\ run'.select = run.select
                 /\ run'.ignored = run.ignored /\ run'.only = run.only
      <3> DEFINE new == Replace(run.got.report, c, IF f[text].found /\ ~failed /\ ~skipped
                                                   THEN {Violation(c, "open")} ELSE {})
      <3>1. Violation(c, "open") \in Violations
        BY ViolationType DEF States
      <3>2. new \subseteq Violations
        BY <3>1 DEF Replace, Runs, Results
      <3>3. Result(new, run.got.usages, run.got.doubt) \in Results
        BY <3>2 DEF Runs, Results, Result
      <3>4. c \in Regular
        OBVIOUS
      <3> DEFINE got == Result(new, run.got.usages, run.got.doubt)
                 fails == IF failed /\ ~skipped THEN run.failed \cup {c} ELSE run.failed
                 skips == run.skipped \/ skipped
      <3>5. facts' \in [Regular -> [Texts -> AllFacts]]
        BY <2>1, <3>4 DEF Reconciled
      <3>6. fails \in SUBSET Checks /\ skips \in BOOLEAN
        BY <3>4 DEF Runs
      <3>7. \/ run' = [run EXCEPT !.pc = "report"]
            \/ run' = [run EXCEPT !.pc = "report", !.failed = fails, !.skipped = skips, !.got = got]
        BY <2>1 DEF Reconciled
      <3> HIDE DEF new, got, fails, skips
      <3>8. got \in Results /\ run \in Runs
        BY <3>3 DEF got
      <3>9. CASE run' = [run EXCEPT !.pc = "report"]
        BY <3>5, <3>8, <3>9 DEF Runs, Pcs
      <3>10. CASE run' = [run EXCEPT !.pc = "report", !.failed = fails, !.skipped = skips, !.got = got]
        BY <3>5, <3>6, <3>8, <3>10 DEF Runs, Pcs
      <3> QED BY <3>7, <3>9, <3>10
    <2>2. /\ facts' \in [Regular -> [Texts -> AllFacts]] /\ run' \in Runs
          /\ run'.checks = run.checks /\ run'.select = run.select
          /\ run'.ignored = run.ignored /\ run'.only = run.only
      <3>1. CASE facts' = facts /\ run' = [run EXCEPT !.pc = "report"]
        BY <3>1 DEF Runs, Pcs
      <3>2. ASSUME NEW c \in Derived, facts' = facts,
                   \/ run' = [run EXCEPT !.pc = "report", !.down = run.down \cup {c}]
                   \/ run' = [run EXCEPT !.pc = "report", !.failed = run.failed \cup {c}]
            PROVE  /\ facts' \in [Regular -> [Texts -> AllFacts]] /\ run' \in Runs
                   /\ run'.checks = run.checks /\ run'.select = run.select
                   /\ run'.ignored = run.ignored /\ run'.only = run.only
        <4>1. c \in Rerun /\ c \in Checks
          BY DEF Checks
        <4>2. CASE run' = [run EXCEPT !.pc = "report", !.down = run.down \cup {c}]
          BY <3>2, <4>1, <4>2 DEF Runs, Pcs
        <4>3. CASE run' = [run EXCEPT !.pc = "report", !.failed = run.failed \cup {c}]
          BY <3>2, <4>1, <4>3 DEF Runs, Pcs
        <4> QED BY <3>2, <4>2, <4>3
      <3>3. CASE \E c \in Derived, f \in [Texts -> AllFacts], failed, skipped \in BOOLEAN :
                   Reconciled(c, f, failed, skipped)
        BY <2>1, <3>3
      <3>4. TypeInv /\ Reconcile
        BY <1>7
      <3> QED BY <3>1, <3>2, <3>3, <3>4, ReconcileCases
    <2> QED BY <1>7, <2>2, SettingStays DEF Reconcile
  <1>8. CASE Report
    BY <1>8, SettingStays DEF Report, Exit, Runs, Pcs
  <1>9. CASE Edit
    <2>1. IdleRun(run.nr) \in Runs
      BY IdleType DEF Runs
    <2> QED BY <1>9, <2>1, SettingStays DEF Edit, IdleRun
  <1>10. CASE UNCHANGED vars
    BY <1>10, SettingStays DEF vars
  <1> QED BY <1>1, <1>2, <1>3, <1>4, <1>5, <1>6, <1>7, <1>8, <1>9, <1>10 DEF Next, Finished

-----------------------------------------------------------------------------
(* The invariant *)

(* The checks that must have a say about the file *)
Wanted == (run.select \ run.ignored) \cap Regular

(* Up to a fix beside a hit, what the prefilter left out has no pattern in  *)
(* the text; after it, that much is known of the cacheable checks.          *)
FreshInv ==
  /\ run.pc \in {"lookup", "record", "always", "all"} =>
       /\ run.failed = {} /\ run.down = {} /\ ~run.changed
       /\ \A c \in Wanted \ run.checks : ~facts[c][text].matches
  /\ run.pc = "others" =>
       /\ run.failed \subseteq Rerun \cup {Audit} /\ ~run.changed
       /\ \A c \in (Wanted \cap Cacheable) \ run.checks : ~facts[c][text].matches

(* What is kept of a hit is what its checks find, and what is kept of the   *)
(* checks beside it tells of the fix.                                       *)
HitInv ==
  /\ run.pc = "always" \/ (run.pc = "record" /\ run.checks # {}) =>
       ("unseen" \notin run.kept.doubt => run.kept.report = FoundIn(Hook, text))
  /\ run.pc = "record" => run.checks \subseteq Cacheable
  /\ run.pc = "others" => \E v \in run.kept.report : v.check \in Fixable

(* A run with nothing to tell but, perhaps, of checks whose report may yet  *)
(* be replaced                                                              *)
Silent ==
  /\ run.down = {} /\ run.failed = {} /\ ~run.skipped
  /\ \A v \in run.got.report : v.check \in Derived

ToldInv ==
  run.pc \in {"reconcile", "report"} /\ Silent /\ "unseen" \notin run.got.doubt =>
    \A c \in Wanted : facts[c][text].found => \E v \in run.got.report : v.check = c

Inv == TypeInv /\ CacheComplete /\ FreshInv /\ HitInv /\ ToldInv /\ ExitHonest

LEMMA FoundMatches ==
  ASSUME TypeInv, NEW c \in Regular, NEW t \in Texts, facts[c][t].found
  PROVE  facts[c][t].matches
  BY DEF TypeInv, AllFacts

LEMMA FoundReport ==
  ASSUME NEW h, NEW t
  PROVE  /\ \A c \in h : facts[c][t].found => Violation(c, "open") \in FoundIn(h, t)
         /\ \A c : Violation(c, "open").check = c
         /\ \A v \in FoundIn(h, t) : v.check \in h /\ facts[v.check][t].found
                                      /\ v = Violation(v.check, "open")
  BY ViolationFields DEF FoundIn

(* What a pass stores is all that the checks in the hook's name find.       *)
LEMMA StoreKeeps ==
  ASSUME TypeInv, CacheComplete, facts' = facts, setting' = setting, NEW checks \in SUBSET Checks,
         NEW got, NEW r, NEW broken, Effect(checks, got, r, broken), Store(checks, got, r, broken),
         ~run.changed, run.failed \cap Cacheable = {}, checks \subseteq run.select \ run.ignored,
         \A c \in (Wanted \cap Cacheable) \ checks : ~facts[c][text].matches
  PROVE  CacheComplete'
  <1> DEFINE mine == checks \cap Cacheable
             entry == Filed(mine, got, checks, text')
  <1> USE SettingFacts DEF TypeInv
  <1>1. Cacheable' = Cacheable /\ Hook \in SUBSET Cacheable
    BY SettingStays DEF Hook
  <1>2. CASE cache' = cache
    BY <1>1, <1>2, CacheStays
  <1>3. CASE /\ mine # {} /\ Incomplete(r, broken) \cap mine = {} /\ ~r.changed
             /\ cache' = [cache EXCEPT ![Hook] = entry]
    <2>1. /\ entry.text = text' /\ got.doubt \subseteq entry.doubt
          /\ entry.report = {v \in got.report : v.check \in mine /\ v.state # "fixed"}
      BY DEF Filed
    <2> HIDE DEF entry
    <2>2. ASSUME "unseen" \notin entry.doubt
          PROVE  entry.report = FoundIn(Hook, entry.text)
      <3>1. PlainEffect(checks, got, r, broken)
        BY <1>3, <2>1, <2>2 DEF Effect, FixEffect, UnseenEffect
      <3>2. text' = text
        BY <3>1 DEF PlainEffect
      <3>3. mine \cap (r.failed \cup r.down \cup broken) = {}
        BY <1>3 DEF Incomplete
      <3>4. ASSUME NEW v \in got.report, v.check \in mine
            PROVE  v \in FoundIn(Hook, text)
        <4>1. v.check # Audit /\ v.check \in Hook
          BY <3>4 DEF Hook
        <4>2. facts[v.check][text].found /\ v = Violation(v.check, "open")
          BY <3>1, <3>3, <3>4, <4>1 DEF PlainEffect
        <4> QED BY <4>1, <4>2, FoundReport
      <3>5. ASSUME NEW c \in Hook, facts[c][text].found
            PROVE  Violation(c, "open") \in got.report /\ c \in mine
        <4>1. c \in Wanted \cap Cacheable
          BY DEF Hook, Wanted
        <4>2. c \in mine
          BY <3>5, <4>1, FoundMatches DEF Wanted
        <4> QED BY <3>1, <3>3, <3>5, <4>1, <4>2 DEF PlainEffect, Wanted
      <3>6. ASSUME NEW v \in FoundIn(Hook, text)
            PROVE  v \in got.report /\ v.check \in mine /\ v.state # "fixed"
        <4>1. v.check \in Hook /\ facts[v.check][text].found /\ v = Violation(v.check, "open")
          BY FoundReport
        <4>2. Violation(v.check, "open") \in got.report /\ v.check \in mine
          BY <3>5, <4>1
        <4>3. Violation(v.check, "open").state = "open"
          BY ViolationFields
        <4> QED BY <4>1, <4>2, <4>3
      <3> QED BY <2>1, <3>2, <3>4, <3>6
    <2> SUFFICES ASSUME NEW h \in SUBSET Cacheable, cache'[h] # NoEntry, "unseen" \notin cache'[h].doubt
                 PROVE  cache'[h].report = FoundIn(h, cache'[h].text)
      BY <1>1 DEF CacheComplete, FoundIn, NoEntry
    <2>3. CASE h = Hook
      <3>1. cache'[h] = entry
        BY <1>1, <1>3, <2>3
      <3> QED BY <2>2, <2>3, <3>1
    <2>4. CASE h # Hook
      <3>1. cache'[h] = cache[h]
        BY <1>1, <1>3, <2>4
      <3> QED BY <3>1 DEF CacheComplete
    <2> QED BY <2>3, <2>4
  <1> QED BY <1>2, <1>3 DEF Store

(* After a pass a run has something to tell, or nothing was changed and     *)
(* what the checks find is reported.                                        *)
LEMMA PassTells ==
  ASSUME TypeInv, facts' = facts, setting' = setting, NEW checks \in SUBSET Checks,
         NEW got, NEW r, NEW broken, Effect(checks, got, r, broken),
         run'.failed = r.failed, run'.down = r.down, got.report \subseteq run'.got.report, Silent'
  PROVE  /\ text' = text
         /\ \A c \in checks \cap Regular : facts[c][text].found =>
              \E v \in run'.got.report : v.check = c
  <1>1. run'.down = {} /\ run'.failed = {} /\ \A v \in run'.got.report : v.check \in Derived
    BY SettingStays DEF Silent
  <1>2. ~FixEffect(got, r) /\ ~UnseenEffect(got, r)
    BY <1>1, SettingFacts DEF FixEffect, UnseenEffect, TypeInv
  <1>3. PlainEffect(checks, got, r, broken)
    BY <1>2 DEF Effect
  <1>4. \A c : Violation(c, "open").check = c /\ Violation(c, "failed").check = c
    BY ViolationFields
  <1> QED BY <1>1, <1>3, <1>4 DEF PlainEffect

-----------------------------------------------------------------------------
(* The steps *)

(* A step that leaves the run's choice, the text and the facts *)
LEMMA WantedStays ==
  ASSUME setting' = setting, run'.select = run.select, run'.ignored = run.ignored
  PROVE  Wanted' = Wanted /\ Hook' = Hook
  BY SettingStays DEF Wanted, Hook

LEMMA StartStep ==
  ASSUME Inv, Start
  PROVE  CacheComplete' /\ FreshInv' /\ HitInv' /\ ToldInv' /\ ExitHonest'
  <1> USE SettingFacts DEF Inv, TypeInv
  <1>1. setting' = setting /\ text' = text /\ facts' = facts /\ cache' = cache
    BY DEF Start
  <1>2. CacheComplete'
    BY <1>1, CacheStays, SettingStays
  <1>3. PICK s \in Selections, fix \in BOOLEAN :
          LET ignored == s.ignore \cap s.select
              as == Applicable(s.select, ignored)
          IN  run' = [IdleRun(run.nr + 1) EXCEPT
                        !.pc = IF as = {} /\ ignored = {} THEN "reconcile" ELSE "lookup",
                        !.select = s.select, !.ignored = ignored, !.fix = fix,
                        !.checks = as \ ignored, !.only = (as \cap ignored) \cap Derived]
    BY DEF Start
  <1> DEFINE ignored == s.ignore \cap s.select
             as == Applicable(s.select, ignored)
  <1>4. \A c \in s.select \cap Regular : c \notin as => ~facts[c][text].matches
    BY DEF Applicable, Matches
  <1>5. run' = [IdleRun(run.nr + 1) EXCEPT
                  !.pc = IF as = {} /\ ignored = {} THEN "reconcile" ELSE "lookup",
                  !.select = s.select, !.ignored = ignored, !.fix = fix,
                  !.checks = as \ ignored, !.only = (as \cap ignored) \cap Derived]
    BY <1>3
  <1> HIDE DEF as, ignored
  <1>6. /\ run'.pc = IF as = {} /\ ignored = {} THEN "reconcile" ELSE "lookup"
        /\ run'.select = s.select /\ run'.ignored = ignored /\ run'.checks = as \ ignored
        /\ run'.failed = {} /\ run'.down = {} /\ run'.changed = FALSE
    BY <1>5 DEF IdleRun
  <1>7. Wanted' = (s.select \ ignored) \cap Regular
    BY <1>1, <1>6, SettingStays DEF Wanted
  <1>8. FreshInv'
    BY <1>1, <1>4, <1>6, <1>7 DEF FreshInv
  <1>9. HitInv' /\ ExitHonest'
    BY <1>6 DEF HitInv, ExitHonest
  <1>10. ToldInv'
    <2>1. \A c \in Wanted' : as = {} /\ ignored = {} => ~facts[c][text].found
      BY <1>4, <1>7, FoundMatches
    <2> QED BY <1>1, <1>6, <2>1 DEF ToldInv
  <1> QED BY <1>2, <1>8, <1>9, <1>10

LEMMA LookupStep ==
  ASSUME Inv, Lookup
  PROVE  CacheComplete' /\ FreshInv' /\ HitInv' /\ ToldInv' /\ ExitHonest'
  <1> USE SettingFacts DEF Inv, TypeInv
  <1>1. setting' = setting /\ text' = text /\ facts' = facts /\ cache' = cache
    BY DEF Lookup
  <1>2. CacheComplete'
    BY <1>1, CacheStays, SettingStays
  <1> DEFINE pc == IF run.checks = {} THEN "record"
                   ELSE IF run.checks \cap Cacheable = {} \/ ~Hit THEN "all"
                   ELSE IF run.checks \subseteq Cacheable THEN "record"
                   ELSE "always"
             kept == IF Entry # NoEntry THEN Entry ELSE Clean
  <1>3. run' = [run EXCEPT !.kept = kept, !.pc = pc]
    BY DEF Lookup
  <1>4. pc \in {"record", "all", "always"}
    OBVIOUS
  <1>5. (pc = "always" \/ (pc = "record" /\ run.checks # {})) /\ "unseen" \notin kept.doubt =>
          kept.report = FoundIn(Hook, text)
    <2> SUFFICES ASSUME Hit, "unseen" \notin kept.doubt PROVE kept.report = FoundIn(Hook, text)
      OBVIOUS
    <2>1. Hook \in SUBSET Cacheable
      BY DEF Hook
    <2>2. cache[Hook].text = text
          /\ kept = Result(cache[Hook].report, cache[Hook].usages, cache[Hook].doubt)
      BY DEF Hit, Entry
    <2>3. cache[Hook] # NoEntry
      BY <2>2 DEF NoEntry
    <2>4. kept.report = cache[Hook].report /\ kept.doubt = cache[Hook].doubt
      BY <2>2 DEF Result
    <2> QED BY <2>1, <2>2, <2>3, <2>4 DEF CacheComplete
  <1>6. pc = "record" => run.checks \subseteq Cacheable
    OBVIOUS
  <1> HIDE DEF pc, kept
  <1>7. /\ run'.pc = pc /\ run'.kept = kept /\ run'.select = run.select /\ run'.ignored = run.ignored
        /\ run'.checks = run.checks /\ run'.failed = run.failed /\ run'.down = run.down
        /\ run'.changed = run.changed
    BY <1>3 DEF Runs
  <1>8. FreshInv'
    BY <1>1, <1>4, <1>7, WantedStays DEF FreshInv, Lookup
  <1>9. HitInv'
    <2>1. FoundIn(Hook, text)' = FoundIn(Hook, text)
      BY <1>1, <1>7, WantedStays DEF FoundIn
    <2> QED BY <1>1, <1>4, <1>5, <1>6, <1>7, <2>1, SettingStays DEF HitInv
  <1>10. ToldInv' /\ ExitHonest'
    BY <1>4, <1>7 DEF ToldInv, ExitHonest
  <1> QED BY <1>2, <1>8, <1>9, <1>10

LEMMA RecordStep ==
  ASSUME Inv, RecordOnly
  PROVE  CacheComplete' /\ FreshInv' /\ HitInv' /\ ToldInv' /\ ExitHonest'
  <1> USE SettingFacts DEF Inv, TypeInv
  <1>1. setting' = setting /\ text' = text /\ facts' = facts /\ cache' = cache
    BY DEF RecordOnly
  <1>2. CacheComplete'
    BY <1>1, CacheStays, SettingStays
  <1>3. /\ run'.pc = "reconcile" /\ run'.select = run.select /\ run'.ignored = run.ignored
        /\ run'.skipped = TRUE \/ run'.got = IF run.checks = {} THEN Clean ELSE run.kept
    BY DEF RecordOnly, Runs
  <1>4. FreshInv' /\ HitInv' /\ ExitHonest'
    BY <1>3 DEF FreshInv, HitInv, ExitHonest
  <1>5. ToldInv'
    <2> SUFFICES ASSUME Silent', "unseen" \notin run'.got.doubt, NEW c \in Wanted, facts[c][text].found
                 PROVE  \E v \in run'.got.report : v.check = c
      BY <1>1, <1>3, WantedStays DEF ToldInv
    <2>1. c \in run.checks /\ c \in Cacheable
      BY FoundMatches DEF Wanted, FreshInv, HitInv, RecordOnly
    <2>2. run'.got.report = FoundIn(Hook, text)
      BY <1>3, <2>1 DEF HitInv, RecordOnly, Silent
    <2>3. c \in Hook
      BY <2>1 DEF Wanted, Hook
    <2> QED BY <2>2, <2>3, FoundReport
  <1> QED BY <1>2, <1>4, <1>5

(* The steps that call _check_file when the file cannot be checked *)
LEMMA NotCheckedStep ==
  ASSUME Inv, NotChecked, setting' = setting, facts' = facts
  PROVE  CacheComplete' /\ FreshInv' /\ HitInv' /\ ToldInv' /\ ExitHonest'
  <1> USE SettingFacts DEF Inv, TypeInv
  <1>1. run'.pc = "reconcile" /\ run'.skipped = TRUE
    BY DEF NotChecked, Runs
  <1>2. CacheComplete'
    BY CacheStays, SettingStays DEF NotChecked
  <1> QED BY <1>1, <1>2 DEF FreshInv, HitInv, ToldInv, ExitHonest, Silent

LEMMA AlwaysStep ==
  ASSUME Inv, CheckAlways, ~Introduces \/ Rerun \cap Fixable = {}
  PROVE  CacheComplete' /\ FreshInv' /\ HitInv' /\ ToldInv' /\ ExitHonest'
  <1> USE SettingFacts DEF Inv, TypeInv
  <1> DEFINE checks == run.checks \ Cacheable
  <1>1. setting' = setting /\ facts' = facts /\ run.pc = "always" /\ checks \in SUBSET Checks
    BY DEF CheckAlways, Runs
  <1>2. run.kept.usages \in SUBSET Regular /\ run.checks \cap Cacheable \in SUBSET Regular
    BY DEF Runs, Results
  <1>3. CheckFile(checks, run.kept.usages, run.checks \cap Cacheable)
    BY DEF CheckAlways
  <1> HIDE DEF checks
  <1>4. ASSUME NEW got, NEW r, NEW broken, Effect(checks, got, r, broken),
               Seen(checks, run.kept.usages, run.checks \cap Cacheable, got, r),
               AfterAlways(got, r, broken)
        PROVE  CacheComplete' /\ FreshInv' /\ HitInv' /\ ToldInv' /\ ExitHonest'
    <2>1. CacheComplete'
      <3>1. cache' = cache
        BY <1>4 DEF AfterAlways
      <3> QED BY <1>1, <3>1, CacheStays, SettingStays
    <2>2. /\ r \in Runs /\ r.failed \subseteq checks /\ ~run.changed /\ got \in Results
          /\ r.select = run.select /\ r.ignored = run.ignored /\ r.checks = run.checks
      BY <1>1, <1>4 DEF Effect, RunEffect, Runs, FreshInv
    <2>3. CASE r.changed
      <3>1. FixEffect(got, r)
        BY <1>4, <2>2, <2>3 DEF Effect, PlainEffect, UnseenEffect
      <3>2. ~Introduces
        <4>1. PICK v \in got.report : v.check \in Fixable
          BY <3>1 DEF FixEffect
        <4>2. v.check \in checks
          BY <1>4, <4>1 DEF Seen, Named
        <4>3. v.check \in Rerun
          BY <4>1, <4>2 DEF checks, Regular
        <4> QED BY <4>1, <4>3
      <3> DEFINE kept == Result({v \in got.report : v.check # Audit},
                                got.usages \cap Ran(run.checks \cap Rerun, r.failed, r.down),
                                got.doubt)
      <3>3. run' = [r EXCEPT !.pc = "others", !.changed = FALSE, !.kept = kept]
        BY <1>4, <2>3 DEF AfterAlways
      <3>4. \E v \in kept.report : v.check \in Fixable
        BY <3>1 DEF FixEffect, Result
      <3> HIDE DEF kept
      <3>5. /\ run'.pc = "others" /\ run'.changed = FALSE /\ run'.kept = kept /\ run'.failed = r.failed
            /\ run'.select = run.select /\ run'.ignored = run.ignored /\ run'.checks = run.checks
        BY <2>2, <3>3 DEF Runs
      <3>6. HitInv'
        BY <1>1, <3>4, <3>5, SettingStays DEF HitInv
      <3>7. r.failed \subseteq Rerun \cup {Audit}
        BY <2>2 DEF checks, Checks, Regular, Runs
      <3>8. \A c \in (Wanted \cap Cacheable) \ run.checks : ~facts[c][text'].matches
        BY <1>1, <3>2, <3>1 DEF FixEffect, FreshInv
      <3>9. FreshInv'
        BY <1>1, <3>5, <3>7, <3>8, SettingStays, WantedStays DEF FreshInv
      <3> QED BY <2>1, <3>5, <3>6, <3>9 DEF ToldInv, ExitHonest
    <2>4. CASE ~r.changed
      <3>1. run' = [r EXCEPT !.pc = "reconcile", !.got = Merge(run.kept, got)]
        BY <1>4, <2>4 DEF AfterAlways
      <3>2. /\ run'.pc = "reconcile" /\ run'.got = Merge(run.kept, got) /\ run'.failed = r.failed
            /\ run'.down = r.down /\ run'.select = run.select /\ run'.ignored = run.ignored
        BY <2>2, <3>1 DEF Runs
      <3>3. run'.got.report = run.kept.report \cup got.report /\ run.kept.doubt \subseteq run'.got.doubt
        BY <3>2 DEF Merge, Result
      <3>4. ToldInv'
        <4> SUFFICES ASSUME Silent', "unseen" \notin run'.got.doubt, NEW c \in Wanted,
                            facts[c][text'].found
                     PROVE  \E v \in run'.got.report : v.check = c
          BY <1>1, <3>2, WantedStays DEF ToldInv
        <4>1. /\ text' = text
              /\ \A d \in checks \cap Regular : facts[d][text].found =>
                   \E v \in run'.got.report : v.check = d
          <5>1. got.report \subseteq run'.got.report
            BY <3>3
          <5> QED BY <1>1, <1>4, <3>2, <5>1, PassTells
        <4>2. CASE c \in Cacheable
          <5>1. c \in Hook
            BY <4>2 DEF Wanted, Hook
          <5> QED BY <1>1, <3>3, <4>1, <5>1, FoundReport DEF HitInv
        <4>3. CASE c \notin Cacheable
          <5>1. c \in checks
            BY <1>1, <4>1, <4>3, FoundMatches DEF FreshInv, Wanted, checks
          <5> QED BY <4>1, <5>1 DEF Wanted
        <4> QED BY <4>2, <4>3
      <3> QED BY <2>1, <3>2, <3>4 DEF FreshInv, HitInv, ExitHonest
    <2> QED BY <2>3, <2>4
  <1>5. NotChecked \/ \E got, r, broken :
          /\ Effect(checks, got, r, broken)
          /\ Seen(checks, run.kept.usages, run.checks \cap Cacheable, got, r) /\ Use(got, r, broken)
    BY <1>1, <1>2, <1>3, CheckEffect
  <1> QED BY <1>1, <1>4, <1>5, NotCheckedStep DEF Use

LEMMA AllStep ==
  ASSUME Inv, CheckAll
  PROVE  CacheComplete' /\ FreshInv' /\ HitInv' /\ ToldInv' /\ ExitHonest'
  <1> USE SettingFacts DEF Inv, TypeInv
  <1>1. setting' = setting /\ facts' = facts /\ run.pc = "all" /\ run.checks \in SUBSET Checks
    BY DEF CheckAll, Runs
  <1>2. ASSUME NEW got, NEW r, NEW broken, Effect(run.checks, got, r, broken), AfterAll(got, r, broken)
        PROVE  CacheComplete' /\ FreshInv' /\ HitInv' /\ ToldInv' /\ ExitHonest'
    <2>1. CacheComplete'
      BY <1>1, <1>2, StoreKeeps DEF AfterAll, FreshInv
    <2>2. r \in Runs /\ r.select = run.select /\ r.ignored = run.ignored
      BY <1>2 DEF Effect, RunEffect, Runs
    <2>3. /\ run'.pc = "reconcile" /\ run'.got = got /\ run'.failed = r.failed /\ run'.down = r.down
          /\ run'.select = run.select /\ run'.ignored = run.ignored
      BY <1>2, <2>2 DEF AfterAll, Runs
    <2>4. ToldInv'
      <3> SUFFICES ASSUME Silent', NEW c \in Wanted, facts[c][text'].found
                   PROVE  \E v \in run'.got.report : v.check = c
        BY <1>1, <2>3, WantedStays DEF ToldInv
      <3>1. /\ text' = text
            /\ \A d \in run.checks \cap Regular : facts[d][text].found =>
                 \E v \in run'.got.report : v.check = d
        BY <1>1, <1>2, <2>3, PassTells
      <3>2. c \in run.checks \cap Regular
        BY <1>1, <3>1, FoundMatches DEF FreshInv, Wanted
      <3> QED BY <3>1, <3>2
    <2> QED BY <2>1, <2>3, <2>4 DEF FreshInv, HitInv, ExitHonest
  <1>3. NotChecked \/ \E got, r, broken : Effect(run.checks, got, r, broken) /\ Use(got, r, broken)
    BY <1>1, CheckEffect DEF CheckAll
  <1> QED BY <1>1, <1>2, <1>3, NotCheckedStep DEF Use

LEMMA OthersStep ==
  ASSUME Inv, CheckOthers
  PROVE  CacheComplete' /\ FreshInv' /\ HitInv' /\ ToldInv' /\ ExitHonest'
  <1> USE SettingFacts DEF Inv, TypeInv
  <1> DEFINE checks == run.checks \ Rerun
  <1>1. setting' = setting /\ facts' = facts /\ run.pc = "others" /\ checks \in SUBSET Checks
    BY DEF CheckOthers, Runs
  <1>2. run.kept.usages \in SUBSET Regular /\ Ran(run.checks, run.failed, run.down) \in SUBSET Regular
    BY DEF Runs, Results, Ran, Checks
  <1>3. CheckFile(checks, run.kept.usages, Ran(run.checks, run.failed, run.down))
    BY DEF CheckOthers
  <1>4. checks \subseteq run.select \ run.ignored
        /\ \A c \in (Wanted \cap Cacheable) \ checks : ~facts[c][text].matches
    BY <1>1 DEF FreshInv
  <1>5. ASSUME NEW got, NEW r, NEW broken, Effect(checks, got, r, broken), AfterOthers(got, r, broken)
        PROVE  CacheComplete' /\ FreshInv' /\ HitInv' /\ ToldInv' /\ ExitHonest'
    <2>1. CacheComplete'
      <3>1. Store(checks, got, r, broken)
        BY <1>5 DEF AfterOthers
      <3>2. run.failed \cap Cacheable = {} /\ ~run.changed
        BY <1>1 DEF FreshInv
      <3> HIDE DEF checks
      <3> QED BY <1>1, <1>4, <1>5, <3>1, <3>2, StoreKeeps
    <2>2. r \in Runs
      BY <1>5 DEF Effect, RunEffect
    <2> DEFINE kept == [run.kept EXCEPT !.doubt = @ \cup DoubtOthers(r)]
    <2>3. run'.pc = "reconcile" /\ run'.got = Merge(got, kept) /\ kept.report = run.kept.report
      BY <1>5, <2>2 DEF AfterOthers, Runs, Results
    <2> HIDE DEF kept
    <2>4. \E v \in run'.got.report : v.check \in Fixable
      BY <1>1, <2>3 DEF HitInv, Merge, Result
    <2>5. ~Silent'
      BY <1>1, <2>4, SettingStays DEF Silent
    <2> QED BY <2>1, <2>3, <2>5 DEF FreshInv, HitInv, ToldInv, ExitHonest
  <1>6. NotChecked \/ \E got, r, broken : Effect(checks, got, r, broken) /\ Use(got, r, broken)
    BY <1>1, <1>2, <1>3, CheckEffect
  <1> QED BY <1>1, <1>5, <1>6, NotCheckedStep DEF Use

LEMMA ReconcileStep ==
  ASSUME Inv, Reconcile
  PROVE  CacheComplete' /\ FreshInv' /\ HitInv' /\ ToldInv' /\ ExitHonest'
  <1> USE SettingFacts DEF Inv, TypeInv
  <1>1. setting' = setting /\ text' = text /\ cache' = cache /\ run.pc = "reconcile"
    BY DEF Reconcile
  <1>2. run'.pc = "report"
    BY ReconcileCases DEF Runs, Reconciled
  <1>3. FreshInv' /\ HitInv' /\ ExitHonest'
    BY <1>2 DEF FreshInv, HitInv, ExitHonest
  <1>4. ASSUME facts' = facts, run'.got = run.got, run'.select = run.select,
               run'.ignored = run.ignored, Silent' => Silent
        PROVE  CacheComplete' /\ ToldInv'
    <2>1. CacheComplete'
      BY <1>1, <1>4, CacheStays, SettingStays
    <2> QED BY <1>1, <1>4, <2>1, WantedStays DEF ToldInv
  <1>5. CASE facts' = facts /\ run' = [run EXCEPT !.pc = "report"]
    <2>1. /\ run'.got = run.got /\ run'.select = run.select /\ run'.ignored = run.ignored
          /\ run'.down = run.down /\ run'.failed = run.failed /\ run'.skipped = run.skipped
      BY <1>5 DEF Runs
    <2>2. Silent' => Silent
      BY <1>1, <2>1, SettingStays DEF Silent
    <2> QED BY <1>3, <1>4, <1>5, <2>1, <2>2
  <1>6. ASSUME NEW c \in Derived, facts' = facts,
               \/ run' = [run EXCEPT !.pc = "report", !.down = run.down \cup {c}]
               \/ run' = [run EXCEPT !.pc = "report", !.failed = run.failed \cup {c}]
        PROVE  CacheComplete' /\ ToldInv'
    <2>1. run'.down # {} \/ run'.failed # {}
      <3>1. CASE run' = [run EXCEPT !.pc = "report", !.down = run.down \cup {c}]
        BY <3>1 DEF Runs
      <3>2. CASE run' = [run EXCEPT !.pc = "report", !.failed = run.failed \cup {c}]
        BY <3>2 DEF Runs
      <3> QED BY <1>6, <3>1, <3>2
    <2>2. run'.got = run.got /\ run'.select = run.select /\ run'.ignored = run.ignored
      BY <1>6 DEF Runs
    <2> QED BY <1>1, <1>4, <1>6, <2>1, <2>2 DEF Silent
  <1>7. ASSUME NEW c \in Derived, NEW f \in [Texts -> AllFacts], NEW failed \in BOOLEAN,
               NEW skipped \in BOOLEAN, Reconciled(c, f, failed, skipped)
        PROVE  CacheComplete' /\ ToldInv'
    <2>1. c \in Regular /\ c \notin Cacheable
      OBVIOUS
    <2>2. facts' = [facts EXCEPT ![c] = f]
      BY <1>7 DEF Reconciled
    <2>3. facts'[c] = f /\ \A d \in Regular : d # c => facts'[d] = facts[d]
      BY <2>1, <2>2
    <2>4. CacheComplete'
      <3> SUFFICES ASSUME NEW h \in SUBSET Cacheable, cache'[h] # NoEntry, "unseen" \notin cache'[h].doubt
                   PROVE  cache'[h].report =
                            {Violation(d, "open") : d \in {e \in h : facts'[e][cache'[h].text].found}}
        BY <1>1, SettingStays DEF CacheComplete, FoundIn, NoEntry
      <3>1. {e \in h : facts'[e][cache'[h].text].found} = {e \in h : facts[e][cache[h].text].found}
        BY <1>1, <2>1, <2>3
      <3> QED BY <1>1, <3>1 DEF CacheComplete, FoundIn
    <2>5. run'.select = run.select /\ run'.ignored = run.ignored
      BY <1>7 DEF Reconciled, Runs
    <2>6. ToldInv'
      <3> SUFFICES ASSUME Silent', "unseen" \notin run'.got.doubt, NEW d \in Wanted, facts'[d][text].found
                   PROVE  \E v \in run'.got.report : v.check = d
        BY <1>1, <2>5, WantedStays DEF ToldInv
      <3>1. /\ run'.down = {} /\ run'.failed = {} /\ ~run'.skipped
            /\ \A v \in run'.got.report : v.check \in Derived
        BY <1>1, SettingStays DEF Silent
      <3>2. CASE c \in run.ignored /\ run' = [run EXCEPT !.pc = "report"]
        <4>1. run'.got = run.got /\ Silent /\ d # c
          BY <3>1, <3>2 DEF Runs, Silent, Wanted
        <4>2. facts[d][text].found
          BY <2>3, <4>1 DEF Wanted
        <4> QED BY <1>1, <4>1, <4>2 DEF ToldInv
      <3>3. CASE run' = [run EXCEPT !.pc = "report",
                   !.failed = IF failed /\ ~skipped THEN run.failed \cup {c} ELSE run.failed,
                   !.skipped = run.skipped \/ skipped,
                   !.got = Result(Replace(run.got.report, c,
                                          IF f[text].found /\ ~failed /\ ~skipped
                                          THEN {Violation(c, "open")} ELSE {}),
                                  run.got.usages, run.got.doubt)]
        <4> DEFINE new == IF f[text].found /\ ~failed /\ ~skipped THEN {Violation(c, "open")} ELSE {}
        <4>1. /\ run'.failed = IF failed /\ ~skipped THEN run.failed \cup {c} ELSE run.failed
              /\ run'.skipped = (run.skipped \/ skipped) /\ run'.down = run.down
              /\ run'.got = Result(Replace(run.got.report, c, new), run.got.usages, run.got.doubt)
          BY <3>3 DEF Runs
        <4>2. run'.got.report = Replace(run.got.report, c, new) /\ run'.got.doubt = run.got.doubt
          BY <4>1 DEF Result
        <4>3. ~skipped /\ ~failed /\ run.failed = {} /\ ~run.skipped
          BY <3>1, <4>1 DEF Runs
        <4>4. Silent
          BY <3>1, <4>2, <4>1, <4>3 DEF Silent, Replace
        <4>5. CASE d = c
          <5>1. Violation(c, "open") \in run'.got.report
            BY <2>3, <4>2, <4>3, <4>5 DEF Replace
          <5> QED BY <4>5, <5>1, FoundReport
        <4>6. CASE d # c
          <5>1. PICK v \in run.got.report : v.check = d
            BY <1>1, <2>3, <4>2, <4>4, <4>6 DEF ToldInv, Wanted
          <5> QED BY <4>2, <4>6, <5>1 DEF Replace
        <4> QED BY <4>5, <4>6
      <3> QED BY <1>7, <3>2, <3>3 DEF Reconciled
    <2> QED BY <2>4, <2>6
  <1>8. CacheComplete' /\ ToldInv'
    <2> HIDE DEF Inv, TypeInv
    <2>1. TypeInv
      BY DEF Inv
    <2> QED BY <1>5, <1>6, <1>7, <2>1, ReconcileCases
  <1> QED BY <1>3, <1>8

LEMMA RestStep ==
  ASSUME Inv, Report \/ Edit \/ UNCHANGED vars
  PROVE  CacheComplete' /\ FreshInv' /\ HitInv' /\ ToldInv' /\ ExitHonest'
  <1> USE SettingFacts DEF Inv, TypeInv
  <1>1. setting' = setting /\ facts' = facts /\ cache' = cache
    BY DEF Report, Edit, vars
  <1>2. CacheComplete'
    BY <1>1, CacheStays, SettingStays
  <1>3. CASE Report
    <2>1. /\ run'.pc = "end" /\ run'.exit = Exit(run) /\ run'.select = run.select /\ run'.got = run.got
          /\ run'.ignored = run.ignored /\ text' = text /\ run.pc = "report"
      BY <1>3 DEF Report, Runs
    <2>2. ExitHonest'
      <3> SUFFICES ASSUME Exit(run) = 0, "unseen" \notin run.got.doubt, NEW c \in Wanted
                   PROVE  ~facts[c][text].found
        BY <1>1, <2>1, SettingStays DEF ExitHonest, Wanted
      <3>1. run.down = {} /\ run.failed = {} /\ ~run.skipped /\ run.got.report = {}
        BY DEF Exit
      <3> QED BY <2>1, <3>1 DEF Silent, ToldInv
    <2> QED BY <1>2, <2>1, <2>2 DEF FreshInv, HitInv, ToldInv
  <1>4. CASE Edit
    <2>1. run'.pc = "idle"
      BY <1>4 DEF Edit, IdleRun
    <2> QED BY <1>2, <2>1 DEF FreshInv, HitInv, ToldInv, ExitHonest
  <1>5. CASE UNCHANGED vars
    BY <1>2, <1>5, SettingStays DEF vars, FreshInv, HitInv, ToldInv, ExitHonest, Wanted, Hook,
       FoundIn, Silent
  <1> QED BY <1>3, <1>4, <1>5

-----------------------------------------------------------------------------
(* What a run says *)

(* Nothing before the end of its passes; then only of checks it was asked   *)
(* for, and as open only what is in the text.                               *)
SaidInv ==
  /\ run.pc \in {"idle", "lookup", "record", "always", "all", "others"} => run.got = Clean
  /\ run.pc = "others" /\ Sure(run.kept.doubt) => \A v \in run.kept.report :
       /\ v.check \in Wanted
       /\ v.state = "open" /\ v.check \notin run.failed => facts[v.check][text].found
  /\ run.pc = "reconcile" /\ Sure(run.got.doubt) =>
       \A v \in run.got.report : v.check # Audit => v.check \in Wanted
  /\ run.pc \in {"reconcile", "report", "end"} /\ Sure(run.got.doubt) => \A v \in run.got.report :
       v.check # Audit /\ v.state = "open" /\ v.check \notin run.failed => facts[v.check][text].found

(* A run with the audit gives it every check it may speak about. *)
ChoiceInv ==
  run.pc \in {"lookup", "record", "always", "all", "others"} /\ Audit \in run.checks =>
    Wanted \subseteq run.checks

(* The usages known of the checks in h at a text are some of those there    *)
(* are, and all unless comments were not judged.                            *)
UsedAt(usages, doubt, h, t) ==
  /\ usages \subseteq h
  /\ "unseen" \notin doubt =>
       /\ \A c \in usages : facts[c][t].used
       /\ "untold" \notin doubt => \A c \in h : facts[c][t].used => c \in usages

UsagesInv ==
  \A h \in SUBSET Cacheable : cache[h] # NoEntry =>
    UsedAt(cache[h].usages, cache[h].doubt, h, cache[h].text)

(* What is kept of the usages: those of a hit; after a fix beside it those  *)
(* of the checks beside it that gave a result.                              *)
KeptInv ==
  /\ run.pc = "always" => UsedAt(run.kept.usages, run.kept.doubt, Hook, text)
  /\ run.pc = "others" =>
       /\ run.kept.usages \subseteq Rerun
       /\ \A v \in run.kept.report : v.check # Audit
       /\ Audit \in run.checks /\ Judged(run.kept.doubt) =>
            run.kept.usages =
              {c \in Ran(run.checks \cap Rerun, run.failed, run.down) : facts[c][text].used}

(* The audit's part of a report *)
AuditedInv ==
  run.pc \in {"reconcile", "report"} /\ Judged(run.got.doubt) =>
    /\ "untold" \notin run.got.doubt =>
         \A v \in run.got.report : v.check = Audit /\ v.about \notin Derived =>
           facts[v.about][text].named /\ ~facts[v.about][text].used
    /\ Audit \in run.checks /\ run.failed \cup run.down = {} /\ ~run.skipped =>
         \A c \in Wanted \ Derived :
           facts[c][text].named /\ ~facts[c][text].used => Unneeded(c) \in run.got.report

SayInv == SaidInv /\ ChoiceInv /\ UsagesInv /\ KeptInv /\ AuditedInv

LEMMA UsagesStay ==
  ASSUME TypeInv, setting' = setting, cache' = cache, UsagesInv,
         \A c \in Cacheable : facts'[c] = facts[c]
  PROVE  UsagesInv'
  <1> SUFFICES ASSUME NEW h \in SUBSET Cacheable, cache[h] # NoEntry
               PROVE  /\ cache[h].usages \subseteq h
                      /\ "unseen" \notin cache[h].doubt =>
                           /\ \A c \in cache[h].usages : facts'[c][cache[h].text].used
                           /\ "untold" \notin cache[h].doubt =>
                                \A c \in h : facts'[c][cache[h].text].used => c \in cache[h].usages
    BY SettingStays DEF UsagesInv, UsedAt, NoEntry
  <1>1. UsedAt(cache[h].usages, cache[h].doubt, h, cache[h].text)
    BY DEF UsagesInv
  <1> QED BY <1>1 DEF UsedAt

(* The audit's part of a report is right, and complete if no check failed.  *)
AuditSays(report, doubt, r) ==
  Judged(doubt) =>
    /\ "untold" \notin doubt => \A v \in report : v.check = Audit =>
         facts[v.about][text'].named /\ ~facts[v.about][text'].used
    /\ Audit \in run.checks /\ r.failed \cup r.down = {} =>
         \A c \in Wanted : facts[c][text'].named /\ ~facts[c][text'].used => Unneeded(c) \in report

(* It is so after a pass, given what is known of the checks that are not    *)
(* run in it.                                                               *)
LEMMA PassAudits ==
  ASSUME TypeInv, NEW checks \in SUBSET Checks, NEW usages, NEW active, NEW got, NEW r, NEW doubt,
         Seen(checks, usages, active, got, r),
         Judged(doubt) => Judged(got.doubt) /\ \A c \in usages : facts[c][text'].used,
         Judged(doubt) /\ "untold" \notin doubt => \A c \in active : facts[c][text'].used =>
           c \in usages \cup ((checks \ {Audit}) \ (r.failed \cup r.down)),
         Audit \in run.checks =>
           Audit \in checks /\ (r.failed \cup r.down = {} => Wanted \subseteq active \cup checks)
  PROVE  AuditSays(got.report, doubt, r)
  <1> SUFFICES ASSUME Judged(doubt)
               PROVE  /\ "untold" \notin doubt => \A v \in got.report : v.check = Audit =>
                           facts[v.about][text'].named /\ ~facts[v.about][text'].used
                      /\ Audit \in run.checks /\ r.failed \cup r.down = {} =>
                           \A c \in Wanted : facts[c][text'].named /\ ~facts[c][text'].used =>
                             Unneeded(c) \in got.report
    BY DEF AuditSays
  <1>1. CASE Audit \in checks
    <2>1. PICK cs \in SUBSET (checks \ {Audit}) : Judges(checks, usages, active, got, r, cs, text')
      BY <1>1 DEF Seen, Audits
    <2>2. /\ (checks \ {Audit}) \ (r.failed \cup r.down) \subseteq cs
          /\ got.usages = usages \cup {c \in cs : facts[c][text'].used}
          /\ \A v \in got.report : v.check = Audit => \E c \in active \cup cs :
               v = Unneeded(c) /\ facts[c][text'].named /\ c \notin got.usages
          /\ Audit \notin r.failed => \A c \in active \cup cs :
               facts[c][text'].named /\ c \notin got.usages => Unneeded(c) \in got.report
      BY <2>1 DEF Judges
    <2>3. ASSUME "untold" \notin doubt, NEW v \in got.report, v.check = Audit
          PROVE  facts[v.about][text'].named /\ ~facts[v.about][text'].used
      <3>1. PICK c \in active \cup cs : v = Unneeded(c) /\ facts[c][text'].named /\ c \notin got.usages
        BY <2>2, <2>3
      <3>2. v.about = c
        BY <3>1, ViolationFields
      <3>3. ~facts[c][text'].used
        BY <2>2, <2>3, <3>1
      <3> QED BY <3>1, <3>2, <3>3
    <2>4. ASSUME r.failed \cup r.down = {}, NEW c \in Wanted, Audit \in run.checks,
                 facts[c][text'].named, ~facts[c][text'].used
          PROVE  Unneeded(c) \in got.report
      <3>1. c \in Regular /\ c # Audit
        BY SettingFacts DEF Wanted, TypeInv
      <3>2. c \in active \cup cs
        BY <2>2, <2>4, <3>1
      <3>3. c \notin got.usages
        BY <2>2, <2>4
      <3> QED BY <2>2, <2>4, <3>2, <3>3
    <2> QED BY <2>3, <2>4
  <1>2. CASE Audit \notin checks
    BY <1>2 DEF Seen, Named
  <1> QED BY <1>1, <1>2

LEMMA StartSays ==
  ASSUME Inv, SayInv, Start
  PROVE  SayInv'
  <1> USE SettingFacts DEF Inv, TypeInv
  <1>1. setting' = setting /\ text' = text /\ facts' = facts /\ cache' = cache
    BY DEF Start
  <1>2. PICK s \in Selections, fix \in BOOLEAN :
          LET ignored == s.ignore \cap s.select
              as == Applicable(s.select, ignored)
          IN  run' = [IdleRun(run.nr + 1) EXCEPT
                        !.pc = IF as = {} /\ ignored = {} THEN "reconcile" ELSE "lookup",
                        !.select = s.select, !.ignored = ignored, !.fix = fix,
                        !.checks = as \ ignored, !.only = (as \cap ignored) \cap Derived]
    BY DEF Start
  <1> DEFINE ignored == s.ignore \cap s.select
             as == Applicable(s.select, ignored)
  <1>3. ignored \in SUBSET Regular /\ Audit \notin ignored /\ s.select \in SUBSET Checks
    BY <1>2
  <1>4. Audit \in as => s.select \ ignored \subseteq as
    BY <1>3 DEF Applicable
  <1>5. run' = [IdleRun(run.nr + 1) EXCEPT
                  !.pc = IF as = {} /\ ignored = {} THEN "reconcile" ELSE "lookup",
                  !.select = s.select, !.ignored = ignored, !.fix = fix,
                  !.checks = as \ ignored, !.only = (as \cap ignored) \cap Derived]
    BY <1>2
  <1> HIDE DEF as, ignored
  <1>6. /\ run'.pc = IF as = {} /\ ignored = {} THEN "reconcile" ELSE "lookup"
        /\ run'.select = s.select /\ run'.ignored = ignored /\ run'.checks = as \ ignored
        /\ run'.got = Clean
    BY <1>5 DEF IdleRun
  <1>7. Wanted' = (s.select \ ignored) \cap Regular
    BY <1>1, <1>6, SettingStays DEF Wanted
  <1>8. SaidInv'
    BY <1>6, CleanType DEF SaidInv
  <1>9. ChoiceInv'
    BY <1>3, <1>4, <1>6, <1>7 DEF ChoiceInv
  <1>10. UsagesInv'
    BY <1>1, UsagesStay DEF SayInv
  <1>11. KeptInv'
    BY <1>6 DEF KeptInv
  <1>12. AuditedInv'
    <2>1. run'.pc = "reconcile" => run'.checks = {}
      BY <1>6
    <2> QED BY <1>6, <2>1, CleanType DEF AuditedInv
  <1> QED BY <1>8, <1>9, <1>10, <1>11, <1>12 DEF SayInv

LEMMA LookupSays ==
  ASSUME Inv, SayInv, Lookup
  PROVE  SayInv'
  <1> USE SettingFacts DEF Inv, TypeInv
  <1>1. setting' = setting /\ text' = text /\ facts' = facts /\ cache' = cache /\ run.pc = "lookup"
    BY DEF Lookup
  <1> DEFINE pc == IF run.checks = {} THEN "record"
                   ELSE IF run.checks \cap Cacheable = {} \/ ~Hit THEN "all"
                   ELSE IF run.checks \subseteq Cacheable THEN "record"
                   ELSE "always"
             kept == IF Entry # NoEntry THEN Entry ELSE Clean
  <1>2. run' = [run EXCEPT !.kept = kept, !.pc = pc]
    BY DEF Lookup
  <1>3. pc \in {"record", "all", "always"}
    OBVIOUS
  <1>4. pc = "always" => UsedAt(kept.usages, kept.doubt, Hook, text)
    <2> SUFFICES ASSUME Hit PROVE UsedAt(kept.usages, kept.doubt, Hook, text)
      OBVIOUS
    <2>1. Hook \in SUBSET Cacheable
      BY DEF Hook
    <2>2. cache[Hook].text = text
          /\ kept = Result(cache[Hook].report, cache[Hook].usages, cache[Hook].doubt)
      BY DEF Hit, Entry
    <2>3. cache[Hook] # NoEntry
      BY <2>2 DEF NoEntry
    <2>4. UsedAt(cache[Hook].usages, cache[Hook].doubt, Hook, text)
      BY <2>1, <2>2, <2>3 DEF UsagesInv, SayInv
    <2>5. kept.usages = cache[Hook].usages /\ kept.doubt = cache[Hook].doubt
      BY <2>2 DEF Result
    <2> QED BY <2>4, <2>5
  <1> HIDE DEF pc, kept
  <1>5. /\ run'.pc = pc /\ run'.kept = kept /\ run'.select = run.select /\ run'.ignored = run.ignored
        /\ run'.checks = run.checks /\ run'.got = run.got
    BY <1>2 DEF Runs
  <1>6. SaidInv'
    BY <1>1, <1>3, <1>5 DEF SaidInv, SayInv
  <1>7. ChoiceInv'
    BY <1>1, <1>3, <1>5, WantedStays DEF ChoiceInv, SayInv
  <1>8. UsagesInv'
    BY <1>1, UsagesStay DEF SayInv
  <1>9. KeptInv'
    BY <1>1, <1>3, <1>4, <1>5, WantedStays DEF KeptInv, UsedAt
  <1>10. AuditedInv'
    BY <1>3, <1>5 DEF AuditedInv
  <1> QED BY <1>6, <1>7, <1>8, <1>9, <1>10 DEF SayInv

LEMMA RecordSays ==
  ASSUME Inv, SayInv, RecordOnly
  PROVE  SayInv'
  <1> USE SettingFacts DEF Inv, TypeInv
  <1>1. setting' = setting /\ text' = text /\ facts' = facts /\ cache' = cache /\ run.pc = "record"
    BY DEF RecordOnly
  <1>2. /\ run'.pc = "reconcile" /\ run'.select = run.select /\ run'.ignored = run.ignored
        /\ run'.checks = run.checks
        /\ run'.got = run.got \/ run'.got = IF run.checks = {} THEN Clean ELSE run.kept
    BY DEF RecordOnly, Runs
  <1>3. Clean.report = {} /\ run.got = Clean
    BY <1>1, CleanType DEF SayInv, SaidInv
  <1>4. ASSUME "unseen" \notin run'.got.doubt, NEW v \in run'.got.report
        PROVE  v.check \in Hook /\ facts[v.check][text].found
    <2>1. run'.got.report = FoundIn(Hook, text)
      BY <1>1, <1>2, <1>3, <1>4 DEF HitInv
    <2> QED BY <1>4, <2>1, FoundReport
  <1>5. Hook \subseteq Wanted /\ Audit \notin Hook
    BY DEF Hook, Wanted
  <1>6. SaidInv'
    BY <1>1, <1>2, <1>4, <1>5, WantedStays DEF SaidInv, Sure
  <1>7. Audit \notin run.checks
    BY <1>1 DEF HitInv
  <1>8. AuditedInv'
    BY <1>1, <1>2, <1>4, <1>5, <1>7 DEF AuditedInv, Judged
  <1>9. UsagesInv'
    BY <1>1, UsagesStay DEF SayInv
  <1> QED BY <1>2, <1>6, <1>8, <1>9 DEF SayInv, ChoiceInv, KeptInv

LEMMA NotCheckedSays ==
  ASSUME Inv, SayInv, NotChecked, setting' = setting, facts' = facts,
         run.pc \in {"always", "all", "others"}
  PROVE  SayInv'
  <1>1. run \in Runs
    BY DEF Inv, TypeInv
  <1>2. run'.pc = "reconcile" /\ run'.skipped = TRUE /\ run'.got = run.got
    BY <1>1 DEF NotChecked, Runs
  <1>3. run.got = Clean /\ Clean.report = {}
    BY CleanType DEF SayInv, SaidInv
  <1>4. UsagesInv'
    BY UsagesStay DEF NotChecked, Inv, SayInv
  <1>5. SaidInv' /\ AuditedInv'
    BY <1>2, <1>3 DEF SaidInv, AuditedInv
  <1> QED BY <1>2, <1>4, <1>5 DEF SayInv, ChoiceInv, KeptInv

(* The usages a pass stores are those of the checks in the hook's name.     *)
LEMMA StoreUsages ==
  ASSUME Inv, UsagesInv, facts' = facts, setting' = setting,
         NEW checks \in SUBSET Checks, NEW usages, NEW active, usages \cap Cacheable = {},
         NEW got, NEW r, NEW broken, Effect(checks, got, r, broken),
         Seen(checks, usages, active, got, r), Store(checks, got, r, broken),
         checks \subseteq run.select \ run.ignored,
         ~run.changed, run.failed \cap Cacheable = {},
         \A c \in (Wanted \cap Cacheable) \ checks : ~facts[c][text].matches
  PROVE  UsagesInv'
  <1> DEFINE mine == checks \cap Cacheable
             entry == Filed(mine, got, checks, text')
  <1> USE SettingFacts DEF Inv, TypeInv
  <1>1. Cacheable' = Cacheable /\ Hook \in SUBSET Cacheable
    BY SettingStays DEF Hook
  <1>2. CASE cache' = cache
    BY <1>2, UsagesStay
  <1>3. CASE /\ mine # {} /\ Incomplete(r, broken) \cap mine = {} /\ ~r.changed
             /\ cache' = [cache EXCEPT ![Hook] = entry]
    <2>1. /\ entry.text = text' /\ got.doubt \subseteq entry.doubt /\ entry.usages = got.usages \cap mine
          /\ Audit \notin checks /\ "untold" \notin entry.doubt => \A c \in Regular : ~facts[c][text'].named
      BY DEF Filed
    <2>2. mine \subseteq Hook /\ mine \subseteq checks \ {Audit}
      BY DEF Hook
    <2>3. mine \cap (r.failed \cup r.down) = {}
      BY <1>3 DEF Incomplete
    <2> HIDE DEF entry, mine
    <2>4. ASSUME "unseen" \notin entry.doubt
          PROVE  /\ \A c \in entry.usages : facts[c][entry.text].used
                 /\ "untold" \notin entry.doubt =>
                      \A c \in Hook : facts[c][entry.text].used => c \in entry.usages
      <3>1. text' = text
        BY <1>3, <2>1, <2>4 DEF Effect, PlainEffect, FixEffect, UnseenEffect
      <3>2. got.doubt = {}
        BY <1>3, <2>1, <2>4 DEF Seen, Uses
      <3>3. \A c \in Hook : facts[c][text].used => c \in mine /\ facts[c][text].named
        <4>1. \A c \in Hook : c \in Wanted /\ c \in Cacheable
          BY DEF Hook, Wanted
        <4>2. \A c \in Regular : facts[c][text].used => facts[c][text].matches /\ facts[c][text].named
          BY DEF AllFacts
        <4> QED BY <4>1, <4>2 DEF mine
      <3>4. \A c \in mine : c \notin usages
        BY DEF mine
      <3>5. CASE Audit \in checks
        <4>1. PICK cs \in SUBSET (checks \ {Audit}) : Judges(checks, usages, active, got, r, cs, text')
          BY <3>2, <3>5 DEF Seen, Audits, Judged
        <4>2. mine \subseteq cs /\ got.usages = usages \cup {c \in cs : facts[c][text].used}
          BY <2>2, <2>3, <3>1, <4>1 DEF Judges
        <4> QED BY <2>1, <3>1, <3>3, <3>4, <4>2
      <3>6. CASE Audit \notin checks
        <4>1. \A c \in got.usages \ usages : facts[c][text].used
          BY <1>3, <3>1, <3>2, <3>6 DEF Seen, Uses
        <4>2. "untold" \notin entry.doubt => \A c \in Hook : ~facts[c][text].used
          BY <1>1, <2>1, <3>1, <3>3, <3>6
        <4> QED BY <2>1, <3>1, <3>4, <4>1, <4>2
      <3> QED BY <3>5, <3>6
    <2>5. UsedAt(entry.usages, entry.doubt, Hook, entry.text)
      BY <2>1, <2>2, <2>4 DEF UsedAt
    <2>6. ASSUME NEW h \in SUBSET Cacheable, cache'[h] # NoEntry
          PROVE  UsedAt(cache'[h].usages, cache'[h].doubt, h, cache'[h].text)
      <3>1. CASE h = Hook
        <4>1. cache'[h] = entry
          BY <1>1, <1>3, <3>1
        <4> QED BY <2>5, <3>1, <4>1
      <3>2. CASE h # Hook
        <4>1. cache'[h] = cache[h]
          BY <1>1, <1>3, <3>2
        <4>2. cache[h] # NoEntry
          BY <2>6, <4>1
        <4>3. UsedAt(cache[h].usages, cache[h].doubt, h, cache[h].text)
          BY <4>2 DEF UsagesInv
        <4> QED BY <4>1, <4>3
      <3> QED BY <3>1, <3>2
    <2> QED BY <1>1, <2>6 DEF UsagesInv, UsedAt, NoEntry
  <1> QED BY <1>2, <1>3 DEF Store

LEMMA AllSays ==
  ASSUME Inv, SayInv, CheckAll
  PROVE  SayInv'
  <1> USE SettingFacts DEF Inv, TypeInv
  <1>1. setting' = setting /\ facts' = facts /\ run.pc = "all" /\ run.checks \in SUBSET Checks
    BY DEF CheckAll, Runs
  <1>2. ~run.changed /\ run.failed = {} /\ \A c \in Wanted \ run.checks : ~facts[c][text].matches
    BY <1>1 DEF FreshInv
  <1> DEFINE none == {}
  <1>3. none \cap Cacheable = {}
    OBVIOUS
  <1>4. none \in SUBSET Regular
    OBVIOUS
  <1>5. CheckFile(run.checks, none, none)
    BY DEF CheckAll
  <1>6. \A c \in none : FALSE
    OBVIOUS
  <1> HIDE DEF none
  <1>7. ASSUME NEW got, NEW r, NEW broken, Effect(run.checks, got, r, broken),
               Seen(run.checks, none, none, got, r), AfterAll(got, r, broken)
        PROVE  SayInv'
    <2>1. r \in Runs /\ r.select = run.select /\ r.ignored = run.ignored /\ r.checks = run.checks
      BY <1>7 DEF Effect, RunEffect, Runs
    <2>2. /\ run'.pc = "reconcile" /\ run'.got = got /\ run'.failed = r.failed /\ run'.down = r.down
          /\ run'.select = run.select /\ run'.ignored = run.ignored /\ run'.checks = run.checks
      BY <1>7, <2>1 DEF AfterAll, Runs
    <2>3. SaidInv'
      <3>1. \A c \in run.checks : c # Audit => c \in Wanted
        BY <1>1 DEF Wanted, Checks
      <3>2. Named(run.checks, got) /\ Opens(got, r)
        BY <1>7 DEF Seen
      <3>3. \A v \in got.report : v.check # Audit => v.check \in Wanted
        BY <3>1, <3>2 DEF Named
      <3> QED BY <1>1, <2>2, <3>2, <3>3, WantedStays DEF SaidInv, Opens
    <2>4. Audit \in run.checks => Wanted \subseteq run.checks
      BY <1>1 DEF SayInv, ChoiceInv
    <2>5. AuditSays(got.report, got.doubt, r)
      BY <1>1, <1>6, <1>7, <2>4, PassAudits
    <2>6. AuditedInv'
      BY <1>1, <2>2, <2>5, SettingStays, WantedStays DEF AuditedInv, AuditSays
    <2>7. UsagesInv'
      <3>1. Store(run.checks, got, r, broken) /\ UsagesInv
        BY <1>7 DEF AfterAll, SayInv
      <3>2. /\ run.failed \cap Cacheable = {}
            /\ \A c \in (Wanted \cap Cacheable) \ run.checks : ~facts[c][text].matches
        BY <1>2
      <3> QED BY <1>1, <1>2, <1>3, <1>7, <3>1, <3>2, StoreUsages
    <2> QED BY <2>2, <2>3, <2>6, <2>7 DEF SayInv, ChoiceInv, KeptInv
  <1>8. NotChecked \/ \E got, r, broken :
          /\ Effect(run.checks, got, r, broken) /\ Seen(run.checks, none, none, got, r)
          /\ Use(got, r, broken)
    BY <1>1, <1>4, <1>5, CheckEffect
  <1> QED BY <1>1, <1>7, <1>8, NotCheckedSays DEF Use

LEMMA AlwaysSays ==
  ASSUME Inv, SayInv, CheckAlways
  PROVE  SayInv'
  <1> USE SettingFacts DEF Inv, TypeInv
  <1> DEFINE checks == run.checks \ Cacheable
             active == run.checks \cap Cacheable
             mine(r) == Ran(run.checks \cap Rerun, r.failed, r.down)
  <1>1. setting' = setting /\ facts' = facts /\ run.pc = "always" /\ checks \in SUBSET Checks
    BY DEF CheckAlways, Runs
  <1>2. run.kept.usages \in SUBSET Regular /\ active \in SUBSET Regular /\ run.kept \in Results
    BY DEF Runs, Results
  <1>3. CheckFile(checks, run.kept.usages, active)
    BY DEF CheckAlways
  <1>4. \A c \in checks : c # Audit => c \in Wanted
    BY DEF Wanted, Checks, Regular, Runs
  <1>5. run.checks \subseteq active \cup checks /\ (Audit \in run.checks => Audit \in checks)
    OBVIOUS
  <1>6. active \subseteq Hook /\ Hook \subseteq Wanted /\ Audit \notin Hook /\ Hook \subseteq Cacheable
    BY DEF Hook, Wanted
  <1>7. \A r : mine(r) \subseteq Rerun /\ mine(r) \subseteq (checks \ {Audit}) \ (r.failed \cup r.down)
    BY DEF Ran
  <1>8. UsedAt(run.kept.usages, run.kept.doubt, Hook, text)
    BY <1>1 DEF SayInv, KeptInv
  <1>9. /\ run.got = Clean /\ ~run.changed
        /\ "unseen" \notin run.kept.doubt => run.kept.report = FoundIn(Hook, text)
    BY <1>1 DEF SayInv, SaidInv, FreshInv, HitInv
  <1>10. Audit \in run.checks => Wanted \subseteq run.checks
    BY <1>1 DEF SayInv, ChoiceInv
  <1> HIDE DEF checks, active
  <1>11. ASSUME NEW got, NEW r, NEW broken, Effect(checks, got, r, broken),
                Seen(checks, run.kept.usages, active, got, r), AfterAlways(got, r, broken)
         PROVE  SayInv'
    <2>1. /\ r \in Runs /\ r.select = run.select /\ r.ignored = run.ignored /\ r.checks = run.checks
          /\ r.got = run.got /\ got \in Results
      BY <1>11 DEF Effect, RunEffect, Runs
    <2>2. Named(checks, got) /\ Opens(got, r) /\ Audits(checks, run.kept.usages, active, got, r)
      BY <1>11 DEF Seen
    <2>3. \A v \in got.report : v.check # Audit => v.check \in Wanted
      BY <1>4, <2>2 DEF Named
    <2>4. UsagesInv'
      BY <1>1, <1>11, UsagesStay DEF AfterAlways, SayInv
    <2>5. CASE r.changed
      <3> DEFINE kept == Result({v \in got.report : v.check # Audit}, got.usages \cap mine(r), got.doubt)
      <3>1. run' = [r EXCEPT !.pc = "others", !.changed = FALSE, !.kept = kept]
        BY <1>11, <2>5 DEF AfterAlways
      <3>2. /\ kept.report = {v \in got.report : v.check # Audit}
            /\ kept.usages = got.usages \cap mine(r) /\ kept.doubt = got.doubt
        BY DEF Result
      <3> HIDE DEF kept
      <3>3. /\ run'.pc = "others" /\ run'.kept = kept /\ run'.got = run.got /\ run'.failed = r.failed
            /\ run'.down = r.down /\ run'.checks = run.checks
            /\ run'.select = run.select /\ run'.ignored = run.ignored
        BY <2>1, <3>1 DEF Runs
      <3>4. SaidInv'
        <4>1. Clean' = Clean
          BY DEF Clean
        <4>2. Sure(kept.doubt) => \A v \in kept.report :
                v.state = "open" /\ v.check \notin r.failed => facts[v.check][text'].found
          BY <2>2, <3>2 DEF Opens
        <4> QED BY <1>1, <1>9, <2>3, <3>2, <3>3, <4>1, <4>2, WantedStays DEF SaidInv
      <3>5. ChoiceInv'
        BY <1>1, <1>10, <3>3, WantedStays DEF ChoiceInv
      <3>6. ASSUME Audit \in run.checks, Judged(got.doubt)
            PROVE  kept.usages = {c \in mine(r) : facts[c][text'].used}
        <4>1. PICK cs \in SUBSET (checks \ {Audit}) :
                Judges(checks, run.kept.usages, active, got, r, cs, text')
          BY <1>5, <2>2, <3>6 DEF Audits
        <4>2. mine(r) \subseteq cs
          BY <1>7, <4>1 DEF Judges
        <4>3. got.usages = run.kept.usages \cup {c \in cs : facts[c][text'].used}
          BY <4>1 DEF Judges
        <4>4. run.kept.usages \cap mine(r) = {}
          BY <1>6, <1>7, <1>8 DEF UsedAt
        <4> HIDE DEF mine
        <4> QED BY <3>2, <4>2, <4>3, <4>4
      <3>7. KeptInv'
        <4>1. Ran(run.checks \cap Rerun, run.failed, run.down)' = mine(r)
          BY <1>1, <3>3, SettingStays DEF Ran
        <4> HIDE DEF mine
        <4> QED BY <1>1, <1>7, <3>2, <3>3, <3>6, <4>1, SettingStays DEF KeptInv
      <3> QED BY <2>4, <3>3, <3>4, <3>5, <3>7 DEF SayInv, AuditedInv
    <2>6. CASE ~r.changed
      <3>1. run' = [r EXCEPT !.pc = "reconcile", !.got = Merge(run.kept, got)]
        BY <1>11, <2>6 DEF AfterAlways
      <3>2. /\ run'.pc = "reconcile" /\ run'.got = Merge(run.kept, got) /\ run'.failed = r.failed
            /\ run'.down = r.down /\ run'.select = run.select /\ run'.ignored = run.ignored
            /\ run'.checks = run.checks
        BY <2>1, <3>1 DEF Runs
      <3> DEFINE report == run.kept.report \cup got.report
                 doubt == run.kept.doubt \cup got.doubt
      <3>3. run'.got.report = report /\ run'.got.doubt = doubt
        BY <1>2, <2>1, <3>2, MergeType
      <3>4. ASSUME "unseen" \notin doubt
            PROVE  /\ text' = text /\ run.kept.report = FoundIn(Hook, text)
                   /\ \A v \in run.kept.report : v.check \in Hook /\ facts[v.check][text].found
        <4>1. PlainEffect(checks, got, r, broken)
          BY <1>11, <2>6, <3>4 DEF Effect, UnseenEffect, FixEffect
        <4> QED BY <1>9, <3>4, <4>1, FoundReport DEF PlainEffect
      <3> DEFINE open(v) == v.check # Audit /\ v.state = "open" /\ v.check \notin r.failed
      <3>5. ASSUME Sure(doubt), NEW v \in report
            PROVE  /\ v.check # Audit => v.check \in Wanted
                   /\ open(v) => facts[v.check][text'].found
        <4>1. "unseen" \notin doubt /\ Sure(got.doubt)
          BY <3>5 DEF Sure
        <4> QED BY <1>6, <2>2, <2>3, <3>4, <3>5, <4>1 DEF Opens
      <3> HIDE DEF report, doubt
      <3>6. SaidInv'
        BY <1>1, <3>2, <3>3, <3>5, WantedStays DEF SaidInv
      <3>7. AuditSays(got.report, doubt, r)
        <4>1. Judged(doubt) => Judged(got.doubt) /\ \A c \in run.kept.usages : facts[c][text'].used
          BY <1>8, <3>4 DEF UsedAt, Judged, doubt
        <4>2. Judged(doubt) /\ "untold" \notin doubt => \A c \in active : facts[c][text'].used =>
                c \in run.kept.usages
          BY <1>6, <1>8, <3>4 DEF UsedAt, Judged, doubt
        <4>3. Audit \in run.checks => Audit \in checks /\ Wanted \subseteq active \cup checks
          BY <1>5, <1>10
        <4> QED BY <1>1, <1>11, <4>1, <4>2, <4>3, PassAudits
      <3>8. Judged(doubt) => \A v \in report : v.check = Audit => v \in got.report
        BY <1>6, <3>4 DEF report, Judged
      <3>9. got.report \subseteq report
        BY DEF report
      <3>10. AuditedInv'
        BY <1>1, <3>2, <3>3, <3>7, <3>8, <3>9, SettingStays, WantedStays DEF AuditedInv, AuditSays
      <3> QED BY <2>4, <3>2, <3>6, <3>10 DEF SayInv, ChoiceInv, KeptInv
    <2> QED BY <2>5, <2>6
  <1>12. NotChecked \/ \E got, r, broken :
           /\ Effect(checks, got, r, broken) /\ Seen(checks, run.kept.usages, active, got, r)
           /\ Use(got, r, broken)
    BY <1>1, <1>2, <1>3, CheckEffect
  <1> QED BY <1>1, <1>11, <1>12, NotCheckedSays DEF Use

LEMMA OthersSays ==
  ASSUME Inv, SayInv, CheckOthers
  PROVE  SayInv'
  <1> USE SettingFacts DEF Inv, TypeInv
  <1> DEFINE checks == run.checks \ Rerun
             active == Ran(run.checks, run.failed, run.down)
  <1>1. setting' = setting /\ facts' = facts /\ run.pc = "others" /\ checks \in SUBSET Checks
    BY DEF CheckOthers, Runs
  <1>2. run.kept.usages \in SUBSET Regular /\ active \in SUBSET Regular /\ run.kept \in Results
    BY DEF Runs, Results, Ran, Checks
  <1>3. CheckFile(checks, run.kept.usages, active)
    BY DEF CheckOthers
  <1>4. /\ \A c \in checks : c # Audit => c \in Wanted
        /\ checks \subseteq run.select \ run.ignored
        /\ \A c \in (Wanted \cap Cacheable) \ checks : ~facts[c][text].matches
        /\ run.failed \cap Cacheable = {} /\ ~run.changed
    BY <1>1 DEF Wanted, Checks, Runs, FreshInv
  <1>5. ASSUME Sure(run.kept.doubt), NEW v \in run.kept.report
        PROVE  /\ v.check \in Wanted
               /\ v.state = "open" /\ v.check \notin run.failed => facts[v.check][text].found
    BY <1>1, <1>5 DEF SayInv, SaidInv
  <1>6. /\ run.kept.usages \subseteq Rerun /\ \A v \in run.kept.report : v.check # Audit
        /\ Audit \in run.checks /\ Judged(run.kept.doubt) =>
             run.kept.usages =
               {c \in Ran(run.checks \cap Rerun, run.failed, run.down) : facts[c][text].used}
    BY <1>1 DEF SayInv, KeptInv
  <1>7. Audit \in run.checks => Wanted \subseteq run.checks /\ Audit \in checks
    BY <1>1 DEF SayInv, ChoiceInv
  <1>8. \A c \in active : c \in run.checks /\ c # Audit /\ c \notin run.failed \cup run.down
    BY DEF Ran
  <1>9. run.failed \cup run.down = {} => run.checks \ {Audit} \subseteq active
    BY DEF Ran
  <1>10. \A c \in active \cap Rerun : c \in Ran(run.checks \cap Rerun, run.failed, run.down)
    BY DEF Ran
  <1>11. \A c \in run.checks : c \in Rerun \/ c \in checks
    OBVIOUS
  <1>12. Audit \notin run.checks => Audit \notin checks
    OBVIOUS
  <1> HIDE DEF checks, active
  <1>13. ASSUME NEW got, NEW r, NEW broken, Effect(checks, got, r, broken),
                Seen(checks, run.kept.usages, active, got, r), AfterOthers(got, r, broken)
         PROVE  SayInv'
    <2>1. /\ r \in Runs /\ r.select = run.select /\ r.ignored = run.ignored /\ r.checks = run.checks
          /\ run.failed \subseteq r.failed /\ run.down \subseteq r.down /\ r.down \subseteq Rerun
          /\ got \in Results
      BY <1>13 DEF Effect, RunEffect, Runs
    <2>2. Named(checks, got) /\ Opens(got, r)
      BY <1>13 DEF Seen
    <2>3. \A v \in got.report : v.check # Audit => v.check \in Wanted
      BY <1>4, <2>2 DEF Named
    <2> DEFINE report == got.report \cup run.kept.report
               doubt == got.doubt \cup (run.kept.doubt \cup DoubtOthers(r))
               kept == [run.kept EXCEPT !.doubt = @ \cup DoubtOthers(r)]
    <2>4. /\ run'.pc = "reconcile" /\ run'.got = Merge(got, kept) /\ run'.failed = r.failed
          /\ run'.down = r.down /\ run'.checks = run.checks
          /\ run'.select = run.select /\ run'.ignored = run.ignored
      <3> HIDE DEF kept
      <3>1. run' = [r EXCEPT !.pc = "reconcile", !.got = Merge(got, kept)]
        BY <1>13 DEF AfterOthers, kept
      <3> QED BY <2>1, <3>1 DEF Runs
    <2>5. kept \in Results /\ kept.report = run.kept.report
          /\ kept.doubt = run.kept.doubt \cup DoubtOthers(r)
      BY <1>2 DEF Results, DoubtOthers, Doubts
    <2> HIDE DEF kept
    <2>6. run'.got.report = report /\ run'.got.doubt = doubt
      BY <2>1, <2>4, <2>5, MergeType
    <2>7. ASSUME "unseen" \notin doubt, ~r.changed
          PROVE  text' = text
      <3>1. PlainEffect(checks, got, r, broken)
        BY <1>13, <2>7 DEF Effect, UnseenEffect, FixEffect
      <3> QED BY <3>1 DEF PlainEffect
    <2> DEFINE open(v) == v.check # Audit /\ v.state = "open" /\ v.check \notin r.failed
    <2>8. ASSUME Sure(doubt), NEW v \in report
          PROVE  /\ v.check # Audit => v.check \in Wanted
                 /\ open(v) => facts[v.check][text'].found
      <3>1. "unseen" \notin doubt /\ Sure(got.doubt) /\ Sure(run.kept.doubt) /\ ~r.changed
        BY <2>8 DEF Sure, DoubtOthers
      <3> QED BY <1>5, <2>1, <2>2, <2>3, <2>7, <2>8, <3>1 DEF Opens
    <2>9. ASSUME Judged(doubt)
          PROVE  /\ Judged(got.doubt) /\ Judged(run.kept.doubt)
                 /\ text' = text /\ r.failed = run.failed
      <3>1. /\ Judged(got.doubt) /\ Judged(run.kept.doubt) /\ "unseen" \notin doubt
            /\ ~r.changed /\ r.failed = run.failed
        BY <2>9 DEF Judged, DoubtOthers
      <3> QED BY <2>7, <3>1
    <2>10. got.report \subseteq report /\ \A v \in report : v.check = Audit => v \in got.report
      BY <1>6
    <2> HIDE DEF report, doubt
    <2>11. SaidInv'
      BY <1>1, <2>4, <2>6, <2>8, WantedStays DEF SaidInv
    <2>12. AuditSays(got.report, doubt, r)
      <3>1. CASE Audit \notin run.checks
        BY <1>12, <2>2, <3>1 DEF AuditSays, Named
      <3>2. CASE Audit \in run.checks
        <4>1. Judged(doubt) => Judged(got.doubt) /\ \A c \in run.kept.usages : facts[c][text'].used
          BY <1>6, <2>9, <3>2
        <4>2. ASSUME Judged(doubt), NEW c \in active, facts[c][text'].used
              PROVE  c \in run.kept.usages \cup ((checks \ {Audit}) \ (r.failed \cup r.down))
          <5>1. CASE c \in Rerun
            BY <1>6, <1>10, <2>9, <3>2, <4>2, <5>1
          <5>2. CASE c \notin Rerun
            BY <1>8, <1>11, <2>1, <2>9, <4>2, <5>2
          <5> QED BY <5>1, <5>2
        <4>3. Audit \in checks /\ (r.failed \cup r.down = {} => Wanted \subseteq active \cup checks)
          <5>1. r.failed \cup r.down = {} => run.failed \cup run.down = {}
            BY <2>1
          <5>2. Audit \notin Wanted
            BY DEF Wanted
          <5> QED BY <1>7, <1>9, <3>2, <5>1, <5>2
        <4> QED BY <1>1, <1>13, <4>1, <4>2, <4>3, PassAudits
      <3> QED BY <3>1, <3>2
    <2>13. AuditedInv'
      BY <1>1, <2>4, <2>6, <2>10, <2>12, SettingStays, WantedStays DEF AuditedInv, AuditSays
    <2>14. UsagesInv'
      <3>1. Store(checks, got, r, broken) /\ UsagesInv /\ run.kept.usages \cap Cacheable = {}
        BY <1>6, <1>13 DEF AfterOthers, SayInv, checks
      <3> QED BY <1>1, <1>4, <1>13, <3>1, StoreUsages
    <2> QED BY <2>4, <2>11, <2>13, <2>14 DEF SayInv, ChoiceInv, KeptInv
  <1>14. NotChecked \/ \E got, r, broken :
           /\ Effect(checks, got, r, broken) /\ Seen(checks, run.kept.usages, active, got, r)
           /\ Use(got, r, broken)
    BY <1>1, <1>2, <1>3, CheckEffect
  <1> QED BY <1>1, <1>13, <1>14, NotCheckedSays DEF Use

LEMMA ReconcileSays ==
  ASSUME Inv, SayInv, Reconcile
  PROVE  SayInv'
  <1> USE SettingFacts DEF Inv, TypeInv
  <1>1. setting' = setting /\ text' = text /\ cache' = cache /\ run.pc = "reconcile"
    BY DEF Reconcile
  <1>2. /\ run'.pc = "report" /\ run'.select = run.select /\ run'.ignored = run.ignored
        /\ run'.checks = run.checks
    BY ReconcileCases, ZenonT(40) DEF Runs, Reconciled
  <1>3. Sure(run.got.doubt) => \A v \in run.got.report : v.check # Audit =>
          /\ v.check \in Wanted
          /\ v.state = "open" /\ v.check \notin run.failed => facts[v.check][text].found
    BY <1>1 DEF SayInv, SaidInv
  <1>4. run.got.report \subseteq Violations
    BY DEF Runs, Results
  <1>5. ASSUME facts' = facts, run'.got = run.got, run.failed \subseteq run'.failed,
               run.down \subseteq run'.down, run'.skipped = run.skipped
        PROVE  SaidInv' /\ UsagesInv' /\ AuditedInv'
    <2>1. SaidInv'
      BY <1>1, <1>2, <1>3, <1>5 DEF SaidInv
    <2>2. UsagesInv'
      BY <1>1, <1>5, UsagesStay DEF SayInv
    <2>3. AuditedInv'
      <3>1. run'.failed \cup run'.down = {} => run.failed \cup run.down = {}
        BY <1>5
      <3> QED BY <1>1, <1>2, <1>5, <3>1, SettingStays, WantedStays DEF AuditedInv, SayInv
    <2> QED BY <2>1, <2>2, <2>3
  <1>6. ASSUME facts' = facts, run' = [run EXCEPT !.pc = "report"]
        PROVE  SaidInv' /\ UsagesInv' /\ AuditedInv'
    <2>1. /\ run'.got = run.got /\ run'.failed = run.failed /\ run'.down = run.down
          /\ run'.skipped = run.skipped
      BY <1>6 DEF Runs
    <2> QED BY <1>5, <1>6, <2>1
  <1>7. ASSUME NEW c \in Derived, facts' = facts,
               \/ run' = [run EXCEPT !.pc = "report", !.down = run.down \cup {c}]
               \/ run' = [run EXCEPT !.pc = "report", !.failed = run.failed \cup {c}]
        PROVE  SaidInv' /\ UsagesInv' /\ AuditedInv'
    <2>1. /\ run'.got = run.got /\ run.failed \subseteq run'.failed /\ run.down \subseteq run'.down
          /\ run'.skipped = run.skipped
      <3>1. CASE run' = [run EXCEPT !.pc = "report", !.down = run.down \cup {c}]
        BY <3>1 DEF Runs
      <3>2. CASE run' = [run EXCEPT !.pc = "report", !.failed = run.failed \cup {c}]
        BY <3>2 DEF Runs
      <3> QED BY <1>7, <3>1, <3>2
    <2> QED BY <1>5, <1>7, <2>1
  <1>8. ASSUME NEW c \in Derived, NEW f \in [Texts -> AllFacts], NEW failed \in BOOLEAN,
               NEW skipped \in BOOLEAN, Reconciled(c, f, failed, skipped)
        PROVE  SaidInv' /\ UsagesInv' /\ AuditedInv'
    <2>1. c \in Regular /\ c \notin Cacheable /\ c # Audit
      OBVIOUS
    <2>2. facts' = [facts EXCEPT ![c] = f]
      BY <1>8 DEF Reconciled
    <2>3. facts'[c] = f /\ \A d \in Regular : d # c => facts'[d] = facts[d]
      BY <2>1, <2>2
    <2>4. UsagesInv'
      BY <1>1, <2>1, <2>3, UsagesStay DEF SayInv
    <2> DEFINE new == IF f[text].found /\ ~failed /\ ~skipped THEN {Violation(c, "open")} ELSE {}
               replaced == Replace(run.got.report, c, new)
    <2>5. /\ \/ c \in run.ignored /\ run'.got.report = run.got.report
             \/ run'.got.report = replaced
          /\ run'.got.doubt = run.got.doubt
          /\ run.failed \subseteq run'.failed /\ run'.down = run.down /\ (run.skipped => run'.skipped)
      <3>1. CASE c \in run.ignored /\ run' = [run EXCEPT !.pc = "report"]
        BY <3>1 DEF Runs
      <3>2. CASE run' = [run EXCEPT !.pc = "report",
                   !.failed = IF failed /\ ~skipped THEN run.failed \cup {c} ELSE run.failed,
                   !.skipped = run.skipped \/ skipped,
                   !.got = Result(replaced, run.got.usages, run.got.doubt)]
        <4> DEFINE got == Result(replaced, run.got.usages, run.got.doubt)
        <4>1. got.report = replaced /\ got.doubt = run.got.doubt
          BY DEF Result
        <4> HIDE DEF replaced, got
        <4>2. run'.got = got /\ run.failed \subseteq run'.failed /\ run'.down = run.down
              /\ (run.skipped => run'.skipped)
          BY <3>2 DEF Runs, got
        <4> QED BY <4>1, <4>2
      <3> QED BY <1>8, <3>1, <3>2 DEF Reconciled
    <2>6. \A v \in run'.got.report : v \in run.got.report \/ (v = Violation(c, "open") /\ f[text].found)
      BY <2>5 DEF Replace
    <2>7. ASSUME Sure(run.got.doubt), NEW v \in run'.got.report, v.check # Audit, v.state = "open",
                 v.check \notin run'.failed
          PROVE  facts'[v.check][text].found
      <3>1. CASE v = Violation(c, "open") /\ f[text].found
        BY <2>3, <3>1 DEF Violation
      <3>2. CASE v \in run.got.report /\ v.check # c
        BY <1>3, <2>3, <2>5, <2>7, <3>2 DEF Wanted
      <3>3. CASE v \in run.got.report /\ v.check = c /\ ~(v = Violation(c, "open") /\ f[text].found)
        <4>1. c \in Wanted
          BY <1>3, <2>7, <3>3
        <4>2. v \in replaced
          BY <2>5, <2>7, <4>1 DEF Wanted
        <4> QED BY <3>3, <4>2 DEF Replace
      <3> QED BY <2>6, <2>7, <3>1, <3>2, <3>3
    <2>8. SaidInv'
      BY <1>1, <1>2, <2>5, <2>7 DEF SaidInv
    <2>9. \A v \in run.got.report : v.about \in Regular
      BY <1>4 DEF Violations
    <2>10. \A d \in Regular : Unneeded(d) \in run.got.report => Unneeded(d) \in run'.got.report
      <3>1. \A d : Unneeded(d).check = Audit
        BY DEF Unneeded
      <3> QED BY <2>1, <2>5, <3>1 DEF Replace
    <2>11. \A v \in run'.got.report : v.check = Audit => v \in run.got.report
      <3>1. Violation(c, "open").check = c
        BY DEF Violation
      <3> QED BY <2>1, <2>6, <3>1
    <2>12. AuditedInv'
      <3>1. ASSUME Judged(run.got.doubt), "untold" \notin run.got.doubt,
                   NEW v \in run'.got.report, v.check = Audit, v.about \notin Derived
            PROVE  facts'[v.about][text].named /\ ~facts'[v.about][text].used
        <4>1. v \in run.got.report /\ v.about \in Regular /\ v.about # c
          BY <2>9, <2>11, <3>1
        <4> QED BY <1>1, <2>3, <3>1, <4>1 DEF AuditedInv, SayInv
      <3>2. ASSUME Judged(run.got.doubt), Audit \in run.checks, run'.failed \cup run'.down = {},
                   ~run'.skipped, NEW d \in Wanted \ Derived,
                   facts'[d][text].named, ~facts'[d][text].used
            PROVE  Unneeded(d) \in run'.got.report
        <4>1. d \in Regular /\ d # c /\ run.failed \cup run.down = {} /\ ~run.skipped
          BY <2>5, <3>2 DEF Wanted
        <4> QED BY <1>1, <2>3, <2>10, <3>2, <4>1 DEF AuditedInv, SayInv
      <3> QED BY <1>1, <1>2, <2>5, <3>1, <3>2, SettingStays, WantedStays DEF AuditedInv
    <2> QED BY <2>4, <2>8, <2>12
  <1>9. SaidInv' /\ UsagesInv' /\ AuditedInv'
    <2> HIDE DEF Inv, TypeInv
    <2>1. TypeInv
      BY DEF Inv
    <2> QED BY <1>6, <1>7, <1>8, <2>1, ReconcileCases
  <1> QED BY <1>2, <1>9 DEF SayInv, ChoiceInv, KeptInv

LEMMA RestSays ==
  ASSUME Inv, SayInv, Report \/ Edit \/ UNCHANGED vars
  PROVE  SayInv'
  <1> USE SettingFacts DEF Inv, TypeInv
  <1>1. setting' = setting /\ facts' = facts /\ cache' = cache
    BY DEF Report, Edit, vars
  <1>2. UsagesInv'
    BY <1>1, UsagesStay DEF SayInv
  <1>3. CASE Report
    <2>1. /\ run'.pc = "end" /\ run'.got = run.got /\ run'.failed = run.failed /\ text' = text
          /\ run.pc = "report"
      BY <1>3 DEF Report, Runs
    <2>2. SaidInv'
      BY <1>1, <2>1 DEF SaidInv, SayInv
    <2> QED BY <1>2, <2>1, <2>2 DEF SayInv, ChoiceInv, KeptInv, AuditedInv
  <1>4. CASE Edit
    <2>1. run'.pc = "idle" /\ run'.got = Clean /\ Clean' = Clean
      BY <1>4 DEF Edit, IdleRun, Clean
    <2> QED BY <1>2, <2>1 DEF SayInv, SaidInv, ChoiceInv, KeptInv, AuditedInv
  <1>5. CASE UNCHANGED vars
    <2>1. text' = text /\ run' = run /\ Clean' = Clean
      BY <1>5 DEF vars, Clean
    <2>2. SaidInv' /\ ChoiceInv'
      BY <1>1, <2>1, WantedStays DEF SayInv, SaidInv, ChoiceInv
    <2>3. KeptInv' /\ AuditedInv'
      BY <1>1, <2>1, SettingStays, WantedStays DEF SayInv, KeptInv, UsedAt, AuditedInv, Ran
    <2> QED BY <1>2, <2>2, <2>3 DEF SayInv
  <1> QED BY <1>3, <1>4, <1>5

-----------------------------------------------------------------------------
(* Theorems *)

(* No fix of a never-cached check brings the pattern of a cacheable one     *)
(* into a text it was not in; for there is none, or by what it does.        *)
NothingIntroduced ==
  \A n \in DOMAIN Settings :
    Settings[n].introduces => Settings[n].rerun \cap Settings[n].fixable = {}

LEMMA InvInit == Init => Inv
  <1> SUFFICES ASSUME Init PROVE Inv
    OBVIOUS
  <1>1. run.pc = "idle"
    BY DEF Init, IdleRun
  <1>2. CacheComplete
    BY DEF Init, CacheComplete
  <1> QED BY <1>1, <1>2, TypeInit DEF Inv, FreshInv, HitInv, ToldInv, ExitHonest

LEMMA InvStep ==
  ASSUME NothingIntroduced
  PROVE  Inv /\ [Next]_vars => Inv'
  <1> SUFFICES ASSUME Inv, [Next]_vars PROVE Inv'
    OBVIOUS
  <1>1. TypeInv'
    BY TypeStep DEF Inv
  <1>2. ~Introduces \/ Rerun \cap Fixable = {}
    BY DEF NothingIntroduced, Introduces, Rerun, Fixable, Inv, TypeInv
  <1>3. CacheComplete' /\ FreshInv' /\ HitInv' /\ ToldInv' /\ ExitHonest'
    BY <1>2, StartStep, LookupStep, RecordStep, AlwaysStep, AllStep, OthersStep, ReconcileStep, RestStep
       DEF Next, Finished
  <1> QED BY <1>1, <1>3 DEF Inv

LEMMA SayInit == Init => SayInv
  <1> SUFFICES ASSUME Init PROVE SayInv
    OBVIOUS
  <1>1. run.pc = "idle" /\ run.got = Clean
    BY DEF Init, IdleRun
  <1>2. UsagesInv
    BY DEF Init, UsagesInv
  <1> QED BY <1>1, <1>2 DEF SayInv, SaidInv, ChoiceInv, KeptInv, AuditedInv

LEMMA SayStep == Inv /\ SayInv /\ [Next]_vars => SayInv'
  <1> SUFFICES ASSUME Inv, SayInv, [Next]_vars PROVE SayInv'
    OBVIOUS
  <1> QED BY StartSays, LookupSays, RecordSays, AlwaysSays, AllSays, OthersSays, ReconcileSays,
             RestSays DEF Next, Finished

(* In every state the variables have their types: the checks of a run are   *)
(* selected ones that are not ignored, and what is reported or stored is    *)
(* of these checks.                                                         *)
THEOREM TypeCorrect == Spec => []TypeOK
  <1>1. TypeInv => TypeOK
    BY DEF TypeInv, TypeOK, Runs, Results
  <1> QED BY <1>1, TypeInit, TypeStep, PTL DEF Spec

(* Whatever runs came before, a stored result is all that the checks in its *)
(* hook's name find in the text it is stored for (_check_and_cache), unless *)
(* it was stored after a fix that was not noticed.                          *)
THEOREM OnlyCompleteIsStored ==
  ASSUME NothingIntroduced
  PROVE  Spec => []CacheComplete
  <1>1. Inv => CacheComplete
    BY DEF Inv
  <1> QED BY <1>1, InvInit, InvStep, PTL DEF Spec

(* Exit code 0 means that no selected check that is not ignored for the     *)
(* file has anything to report of the text the run leaves: neither the      *)
(* prefilter nor the cache, a failure, a fix or reconciliation hides it;    *)
(* but for a hit on what was stored after a fix that was not noticed.       *)
THEOREM ZeroIsHonest ==
  ASSUME NothingIntroduced
  PROVE  Spec => []ExitHonest
  <1>1. Inv => ExitHonest
    BY DEF Inv
  <1> QED BY <1>1, InvInit, InvStep, PTL DEF Spec

(* What a run reports is what there is: as open what is in the text it      *)
(* leaves, and of the suppression comments the unused ones, all of them,    *)
(* also after a fix, from the cache or by a second look; whatever raises or *)
(* cannot be read, but for what was not looked at again after a fix.        *)
THEOREM ReportsAreExact ==
  ASSUME NothingIntroduced
  PROVE  Spec => []ReportExact
  <1>1. Init => Inv /\ SayInv
    BY InvInit, SayInit
  <1>2. Inv /\ SayInv /\ [Next]_vars => (Inv /\ SayInv)'
    BY InvStep, SayStep
  <1>3. Inv /\ SayInv => ReportExact
    <2> SUFFICES ASSUME Inv, SayInv PROVE ReportExact
      OBVIOUS
    <2>1. TypeOK
      BY DEF Inv, TypeInv, TypeOK, Runs, Results
    <2>2. ReportTrue
      BY DEF SayInv, SaidInv, ReportTrue, Sure
    <2>3. AuditTrue
      <3>1. run.got.doubt \cap {"unseen", "audit", "untold"} = {} =>
              Judged(run.got.doubt) /\ "untold" \notin run.got.doubt
        BY DEF Judged
      <3> QED BY <3>1 DEF SayInv, AuditedInv, AuditTrue
    <2>4. AuditComplete
      BY DEF SayInv, AuditedInv, AuditComplete, Wanted, Judged
    <2> QED BY <2>1, <2>2, <2>3, <2>4 DEF ReportExact
  <1> QED BY <1>1, <1>2, <1>3, PTL DEF Spec
=============================================================================
