--------------------------- MODULE TySessionProofs ---------------------------
(* Theorems of TySession, for any files, texts, dependencies and processes. *)
EXTENDS TySession, TLAPS

-----------------------------------------------------------------------------
(* Types *)

(* What can be found in a file. *)
ResultsOf(f) == [src : Texts, seen : [Deps[f] -> Texts \cup {Rewritten}], ctx : 0..MaxContexts]

Reports == UNION {[S -> Results] : S \in SUBSET Files}

Records ==
  [pc : ClientPcs, todo : SUBSET Files, file : Files \cup {NoText}, src : Texts \cup {NoText},
   base : Results \cup {NoResult}, ok : BOOLEAN, derived : BOOLEAN, runs : Nat, report : Reports]

(* Between taking a file and being through with it. *)
AtFile == InTransaction \cup {"lookup", "begin", "store", "record"}

(* ... and before the baseline. *)
BeforeBase == {"lookup", "begin", "baseline", "probe", "rebase"}

(* A process at a file has it and its text; it has a result where one is    *)
(* used, and none before; and every result is one of the file it is kept    *)
(* for.                                                                     *)
ClientType(r) ==
  /\ r.pc \in BeforeBase => r.base = NoResult
  /\ r.pc \in AtFile => r.file \in Files /\ r.src \in Texts
  /\ r.base \in ResultsOf(r.file) \cup {NoResult}
  /\ r.pc \in {"rewrite", "store"} \/ (r.pc \in {"finalize", "end"} /\ r.ok) => r.base # NoResult
  /\ \A f \in DOMAIN r.report : f \in Files /\ r.report[f] \in ResultsOf(f)

TypeInv ==
  /\ setting \in DOMAIN Settings
  /\ disk \in [Files -> Texts] /\ edits \in 0..MaxEdits /\ context \in 0..MaxContexts
  /\ doc \in [Files -> DocTexts] /\ known \in [Files -> Texts]
  /\ coming \subseteq Files /\ dirty \subseteq Files /\ changed \subseteq Files
  /\ cache \in [Files \X Keys -> Results \cup {NoResult}] /\ identity \in 0..MaxContexts
  /\ \A f \in Files, k \in Keys : cache[<<f, k>>] \in ResultsOf(f) \cup {NoResult}
  /\ direct \in [Files -> Texts \cup {NoText}] /\ reconciled \in [Files -> Texts \cup {NoText}]
  /\ lock \in Clients \cup {Nobody}
  /\ cl \in [Clients -> Records] /\ \A c \in Clients : ClientType(cl[c])

(* What the settings are made of. *)
LEMMA SettingFacts ==
  ASSUME setting \in DOMAIN Settings
  PROVE  /\ BatchOf \in [Clients -> SUBSET Files] /\ RunsOf \in [Clients -> Nat]
         /\ KeepOpen \in BOOLEAN /\ Flaky \in BOOLEAN /\ Mortal \subseteq Clients
         /\ MaxEdits \in Nat /\ MaxContexts \in Nat
         /\ KeepOpen \/ \E c \in Clients : \A d \in Clients \ {c} : RunsOf[d] = 0
  BY TySessionAssumption DEF BatchOf, RunsOf, KeepOpen, Flaky, Mortal, MaxEdits, MaxContexts

(* The texts are none of the markers, and no file depends on itself. *)
LEMMA Markers ==
  /\ NoText \notin Texts /\ Rewritten \notin Texts /\ Rewritten # NoText /\ Nobody \notin Clients
  /\ Deps \in [Files -> SUBSET Files] /\ \A f \in Files : f \notin Deps[f]
  BY TySessionAssumption DEF NoText, Rewritten

(* A result is no missing result. *)
LEMMA ResultIsOne ==
  /\ \A f : NoResult \notin ResultsOf(f)
  /\ \A f \in Files : ResultsOf(f) \subseteq Results
  /\ NoResult \notin Results
  <1>1. NoResult.src \notin Texts
    BY Markers DEF NoResult
  <1> QED BY <1>1 DEF ResultsOf, Results

(* The text of a document, or the file as ty knows it, is one. *)
LEMMA ViewType ==
  ASSUME TypeInv
  PROVE  \A g \in Files : View(g) \in Texts \cup {Rewritten}
  BY DEF TypeInv, DocTexts, View

(* What is found in the text now. *)
LEMMA FoundType ==
  ASSUME TypeInv, NEW f \in Files, NEW t \in Texts
  PROVE  /\ [src |-> t, seen |-> Seen(f), ctx |-> context] \in ResultsOf(f)
         /\ \A g \in Deps[f] : Seen(f)[g] = View(g)
  <1>1. Seen(f) \in [Deps[f] -> Texts \cup {Rewritten}]
    BY ViewType, Markers DEF Seen
  <1> QED BY <1>1 DEF ResultsOf, TypeInv, Seen

(* Putting a result into a report, and taking one out. *)
LEMMA ReportPut ==
  ASSUME NEW rep \in Reports, NEW f \in Files, NEW res \in Results
  PROVE  [g \in DOMAIN rep \cup {f} |-> IF g = f THEN res ELSE rep[g]] \in Reports
  <1>1. PICK S \in SUBSET Files : rep \in [S -> Results]
    BY DEF Reports
  <1>2. [g \in DOMAIN rep \cup {f} |-> IF g = f THEN res ELSE rep[g]] \in [S \cup {f} -> Results]
    BY <1>1
  <1> QED BY <1>2 DEF Reports

LEMMA ReportDrop ==
  ASSUME NEW rep \in Reports, NEW f
  PROVE  [g \in DOMAIN rep \ {f} |-> rep[g]] \in Reports
  <1>1. PICK S \in SUBSET Files : rep \in [S -> Results]
    BY DEF Reports
  <1>2. [g \in DOMAIN rep \ {f} |-> rep[g]] \in [S \ {f} -> Results]
    BY <1>1
  <1> QED BY <1>2 DEF Reports

LEMMA EmptyReport == [f \in {} |-> NoResult] \in Reports
  <1>1. [f \in {} |-> NoResult] \in [{} -> Results]
    OBVIOUS
  <1> QED BY <1>1 DEF Reports

-----------------------------------------------------------------------------
(* What a step makes of its process *)

(* The process c has these fields afterwards, and the others have theirs.   *)
Moves(c, pc, todo, file, src, base, ok, derived, runs, report) ==
  /\ cl' \in [Clients -> Records] /\ \A d \in Clients \ {c} : cl'[d] = cl[d]
  /\ cl'[c].pc = pc /\ cl'[c].todo = todo /\ cl'[c].file = file /\ cl'[c].src = src
  /\ cl'[c].base = base /\ cl'[c].ok = ok /\ cl'[c].derived = derived
  /\ cl'[c].runs = runs /\ cl'[c].report = report

LEMMA MovesTo ==
  ASSUME TypeInv, NEW c \in Clients, NEW r \in Records, cl' = [cl EXCEPT ![c] = r]
  PROVE  Moves(c, r.pc, r.todo, r.file, r.src, r.base, r.ok, r.derived, r.runs, r.report)
  BY DEF Moves, TypeInv

(* Only the place changes. *)
LEMMA GotoMoves ==
  ASSUME TypeInv, NEW c \in Clients, NEW pc \in ClientPcs, Goto(c, pc)
  PROVE  Moves(c, pc, cl[c].todo, cl[c].file, cl[c].src, cl[c].base, cl[c].ok, cl[c].derived,
               cl[c].runs, cl[c].report)
  <1> DEFINE r == [cl[c] EXCEPT !.pc = pc]
  <1>1. r \in Records /\ cl' = [cl EXCEPT ![c] = r]
    BY DEF Goto, Records, TypeInv
  <1>2. /\ r.pc = pc /\ r.todo = cl[c].todo /\ r.file = cl[c].file /\ r.src = cl[c].src
        /\ r.base = cl[c].base /\ r.ok = cl[c].ok /\ r.derived = cl[c].derived
        /\ r.runs = cl[c].runs /\ r.report = cl[c].report
    BY DEF Records, TypeInv
  <1> HIDE DEF r
  <1> QED BY <1>1, <1>2, MovesTo

LEMMA TakeMoves ==
  ASSUME TypeInv, NEW c \in Clients, Take(c)
  PROVE  \E f \in cl[c].todo :
           LET asked == <<f, disk[f]>> \in WithCandidates
           IN  Moves(c, IF asked THEN "lookup" ELSE "record", cl[c].todo \ {f}, f, disk[f], NoResult,
                     TRUE, cl[c].derived, cl[c].runs,
                     IF asked THEN cl[c].report ELSE [g \in DOMAIN cl[c].report \ {f} |-> cl[c].report[g]])
  <1>1. PICK f \in cl[c].todo :
          LET asked == <<f, disk[f]>> \in WithCandidates
          IN  cl' = [cl EXCEPT ![c].todo = @ \ {f}, ![c].file = f, ![c].src = disk[f],
                               ![c].base = NoResult, ![c].ok = TRUE,
                               ![c].pc = IF asked THEN "lookup" ELSE "record",
                               ![c].report = IF asked THEN @ ELSE [g \in DOMAIN @ \ {f} |-> @[g]]]
    BY DEF Take
  <1>2. cl[c] \in Records /\ f \in Files /\ disk[f] \in Texts
    BY DEF TypeInv, Records
  <1> DEFINE asked == <<f, disk[f]>> \in WithCandidates
             pc == IF asked THEN "lookup" ELSE "record"
             rep == IF asked THEN cl[c].report ELSE [g \in DOMAIN cl[c].report \ {f} |-> cl[c].report[g]]
             r == [cl[c] EXCEPT !.todo = @ \ {f}, !.file = f, !.src = disk[f], !.base = NoResult,
                                !.ok = TRUE, !.pc = pc, !.report = rep]
  <1>3. rep \in Reports /\ pc \in ClientPcs
    <2>1. cl[c].report \in Reports
      BY <1>2 DEF Records
    <2> QED BY <2>1, ReportDrop DEF ClientPcs
  <1>4. cl' = [cl EXCEPT ![c] = r]
    BY <1>1
  <1> HIDE DEF pc, rep, asked
  <1>5. r \in Records
    BY <1>2, <1>3 DEF Records
  <1>6. /\ r.pc = pc /\ r.todo = cl[c].todo \ {f} /\ r.file = f /\ r.src = disk[f]
        /\ r.base = NoResult /\ r.ok = TRUE /\ r.derived = cl[c].derived
        /\ r.runs = cl[c].runs /\ r.report = rep
    BY <1>2 DEF Records
  <1>7. Moves(c, pc, cl[c].todo \ {f}, f, disk[f], NoResult, TRUE, cl[c].derived, cl[c].runs, rep)
    <2> HIDE DEF r
    <2> QED BY <1>4, <1>5, <1>6, MovesTo
  <1> QED BY <1>7 DEF pc, rep, asked

LEMMA FieldsMove ==
  ASSUME TypeInv, NEW c \in Clients, NEW pc \in ClientPcs, NEW todo \in SUBSET Files,
         NEW base \in Results \cup {NoResult}, NEW ok \in BOOLEAN, NEW derived \in BOOLEAN,
         NEW report \in Reports,
         cl' = [cl EXCEPT ![c] = [@ EXCEPT !.pc = pc, !.todo = todo, !.base = base, !.ok = ok,
                                           !.derived = derived, !.report = report]]
  PROVE  Moves(c, pc, todo, cl[c].file, cl[c].src, base, ok, derived, cl[c].runs, report)
  <1> DEFINE r == [cl[c] EXCEPT !.pc = pc, !.todo = todo, !.base = base, !.ok = ok,
                                !.derived = derived, !.report = report]
  <1>1. r \in Records /\ cl' = [cl EXCEPT ![c] = r]
    BY ZenonT(40) DEF Records, TypeInv
  <1>2. /\ r.pc = pc /\ r.todo = todo /\ r.file = cl[c].file /\ r.src = cl[c].src
        /\ r.base = base /\ r.ok = ok /\ r.derived = derived
        /\ r.runs = cl[c].runs /\ r.report = report
    BY DEF Records, TypeInv
  <1> HIDE DEF r
  <1> QED BY <1>1, <1>2, MovesTo

(* The fields of a process. *)
LEMMA Fields ==
  ASSUME TypeInv, NEW c \in Clients
  PROVE  /\ cl[c].pc \in ClientPcs /\ cl[c].todo \in SUBSET Files /\ cl[c].ok \in BOOLEAN
         /\ cl[c].base \in Results \cup {NoResult} /\ cl[c].derived \in BOOLEAN
         /\ cl[c].runs \in Nat /\ cl[c].report \in Reports
         /\ cl[c].pc \in AtFile => /\ cl[c].file \in Files /\ cl[c].src \in Texts
                                   /\ cl[c].base \in ResultsOf(cl[c].file) \cup {NoResult}
  BY DEF TypeInv, Records, ClientType

LEMMA LookupMoves ==
  ASSUME TypeInv, NEW c \in Clients, Lookup(c)
  PROVE  LET r     == cl[c]
             entry == cache[<<r.file, KeyOf[c]>>]
             hit   == KeepOpen /\ context = identity /\ entry # NoResult /\ entry.src = r.src
         IN  /\ hit => entry \in ResultsOf(r.file)
             /\ Moves(c, IF hit THEN "record" ELSE "begin", r.todo, r.file, r.src, r.base, r.ok, r.derived,
                      r.runs, IF hit THEN Reported(c, entry) ELSE r.report)
  <1> DEFINE r     == cl[c]
             entry == cache[<<r.file, KeyOf[c]>>]
             hit   == KeepOpen /\ context = identity /\ entry # NoResult /\ entry.src = r.src
             pc    == IF hit THEN "record" ELSE "begin"
             rep   == IF hit THEN Reported(c, entry) ELSE r.report
  <1>1. r.pc \in AtFile
    BY DEF Lookup, AtFile
  <1>2. r.file \in Files /\ KeyOf[c] \in Keys
    BY <1>1, Fields DEF Keys
  <1>3. entry \in ResultsOf(r.file) \cup {NoResult}
    BY <1>2 DEF TypeInv
  <1>4. hit => entry \in ResultsOf(r.file) /\ entry \in Results
    BY <1>2, <1>3, ResultIsOne
  <1>5. rep \in Reports /\ pc \in ClientPcs
    <2>1. r.report \in Reports
      BY Fields
    <2> HIDE DEF entry
    <2> QED BY <1>2, <1>4, <2>1, ReportPut DEF Reported, ClientPcs
  <1>6. cl' = [cl EXCEPT ![c].pc = pc, ![c].report = rep]
    BY DEF Lookup
  <1> HIDE DEF rep, pc
  <1>7. cl' = [cl EXCEPT ![c] = [@ EXCEPT !.pc = pc, !.todo = r.todo, !.base = r.base, !.ok = r.ok,
                                          !.derived = r.derived, !.report = rep]]
    BY <1>6 DEF TypeInv, Records
  <1>8. Moves(c, pc, r.todo, r.file, r.src, r.base, r.ok, r.derived, r.runs, rep)
    <2>1. r.todo \in SUBSET Files /\ r.base \in Results \cup {NoResult} /\ r.ok \in BOOLEAN /\ r.derived \in BOOLEAN
      BY Fields
    <2> HIDE DEF entry, hit
    <2> QED BY <1>5, <1>7, <2>1, FieldsMove
  <1> QED BY <1>4, <1>8 DEF rep, pc

LEMMA FailedMoves ==
  ASSUME TypeInv, NEW c \in Clients, Failed(c)
  PROVE  Moves(c, "finalize", cl[c].todo, cl[c].file, cl[c].src, cl[c].base, FALSE, cl[c].derived,
               cl[c].runs, cl[c].report)
  <1>1. cl' = [cl EXCEPT ![c] = [@ EXCEPT !.pc = "finalize", !.todo = cl[c].todo, !.base = cl[c].base, !.ok = FALSE,
                                          !.derived = cl[c].derived, !.report = cl[c].report]]
    BY DEF Failed, TypeInv, Records
  <1> QED BY <1>1, Fields, FieldsMove DEF ClientPcs, InTransaction

(* A baseline is taken. *)
Base(c) == [src |-> cl[c].src, seen |-> Seen(cl[c].file), ctx |-> context]

LEMMA BaseMoves ==
  ASSUME TypeInv, NEW c \in Clients, cl[c].pc \in AtFile, NEW pc \in {"rewrite", "finalize"},
         cl' = [cl EXCEPT ![c].pc = pc, ![c].base = Base(c)]
  PROVE  /\ Base(c) \in ResultsOf(cl[c].file)
         /\ Moves(c, pc, cl[c].todo, cl[c].file, cl[c].src, Base(c), cl[c].ok, cl[c].derived,
                  cl[c].runs, cl[c].report)
  <1>1. Base(c) \in ResultsOf(cl[c].file) /\ Base(c) \in Results
    BY Fields, FoundType, ResultIsOne DEF Base
  <1> DEFINE r == [cl[c] EXCEPT !.pc = pc, !.base = Base(c)]
  <1>2. cl' = [cl EXCEPT ![c] = r]
    OBVIOUS
  <1> HIDE DEF Base
  <1>3. pc \in ClientPcs
    BY DEF ClientPcs, InTransaction
  <1>4. r \in Records
    BY <1>1, <1>3, ZenonT(40) DEF TypeInv, Records
  <1>5. /\ r.pc = pc /\ r.todo = cl[c].todo /\ r.file = cl[c].file /\ r.src = cl[c].src
        /\ r.base = Base(c) /\ r.ok = cl[c].ok /\ r.derived = cl[c].derived
        /\ r.runs = cl[c].runs /\ r.report = cl[c].report
    BY DEF TypeInv, Records
  <1> HIDE DEF r
  <1>6. Moves(c, r.pc, r.todo, r.file, r.src, r.base, r.ok, r.derived, r.runs, r.report)
    BY <1>2, <1>4, MovesTo
  <1> QED BY <1>1, <1>5, <1>6

LEMMA StoreMoves ==
  ASSUME TypeInv, NEW c \in Clients, Store(c)
  PROVE  /\ cl[c].base \in ResultsOf(cl[c].file)
         /\ Moves(c, "record", cl[c].todo, cl[c].file, cl[c].src, cl[c].base, cl[c].ok, cl[c].derived,
                  cl[c].runs, Reported(c, cl[c].base))
  <1>1. cl[c].pc \in AtFile /\ cl[c].pc = "store"
    BY DEF Store, AtFile
  <1>2. cl[c].base \in ResultsOf(cl[c].file) /\ cl[c].base \in Results /\ cl[c].file \in Files
    BY <1>1, Fields, ResultIsOne DEF TypeInv, ClientType
  <1>3. Reported(c, cl[c].base) \in Reports
    BY <1>2, Fields, ReportPut DEF Reported
  <1> DEFINE rep == Reported(c, cl[c].base)
  <1>4. cl' = [cl EXCEPT ![c].pc = "record", ![c].report = rep]
    BY DEF Store
  <1> HIDE DEF rep
  <1>5. cl' = [cl EXCEPT ![c] = [@ EXCEPT !.pc = "record", !.todo = cl[c].todo, !.base = cl[c].base, !.ok = cl[c].ok,
                                          !.derived = cl[c].derived, !.report = rep]]
    BY <1>4 DEF TypeInv, Records
  <1>6. rep \in Reports /\ "record" \in ClientPcs
    BY <1>3 DEF rep, ClientPcs
  <1>7. Moves(c, "record", cl[c].todo, cl[c].file, cl[c].src, cl[c].base, cl[c].ok, cl[c].derived,
              cl[c].runs, rep)
    <2>1. /\ cl[c].todo \in SUBSET Files /\ cl[c].ok \in BOOLEAN /\ cl[c].derived \in BOOLEAN
          /\ cl[c].base \in Results \cup {NoResult}
      BY Fields
    <2> QED BY <1>5, <1>6, <2>1, FieldsMove
  <1> QED BY <1>2, <1>7 DEF rep

LEMMA RunEndsMoves ==
  ASSUME TypeInv, NEW c \in Clients, NEW again \in SUBSET Files, RunEnds(c, again)
  PROVE  Moves(c, IF again = {} THEN "done" ELSE "next", again, cl[c].file, cl[c].src, cl[c].base,
               cl[c].ok, TRUE, cl[c].runs, cl[c].report)
  <1> DEFINE pc == IF again = {} THEN "done" ELSE "next"
  <1>1. cl' = [cl EXCEPT ![c] = [@ EXCEPT !.pc = pc, !.todo = again, !.base = cl[c].base, !.ok = cl[c].ok,
                                          !.derived = TRUE, !.report = cl[c].report]]
    BY DEF RunEnds, TypeInv, Records
  <1>2. pc \in ClientPcs
    BY DEF ClientPcs
  <1> HIDE DEF pc
  <1>3. Moves(c, pc, again, cl[c].file, cl[c].src, cl[c].base, cl[c].ok, TRUE, cl[c].runs, cl[c].report)
    BY <1>1, <1>2, Fields, FieldsMove
  <1> QED BY <1>3 DEF pc

LEMMA AbandonMoves ==
  ASSUME TypeInv, NEW c \in Clients, Abandon(c)
  PROVE  Moves(c, "done", cl[c].todo, cl[c].file, cl[c].src, cl[c].base, FALSE, cl[c].derived,
               cl[c].runs, [f \in {} |-> NoResult])
  <1> DEFINE none == [f \in {} |-> NoResult]
  <1>1. none \in Reports
    BY EmptyReport
  <1>2. cl' = [cl EXCEPT ![c].pc = "done", ![c].ok = FALSE, ![c].report = none]
    BY DEF Abandon
  <1> HIDE DEF none
  <1>3. cl' = [cl EXCEPT ![c] = [@ EXCEPT !.pc = "done", !.todo = cl[c].todo, !.base = cl[c].base, !.ok = FALSE,
                                          !.derived = cl[c].derived, !.report = none]]
    BY <1>2 DEF TypeInv, Records
  <1>4. Moves(c, "done", cl[c].todo, cl[c].file, cl[c].src, cl[c].base, FALSE, cl[c].derived,
               cl[c].runs, none)
    <2>1. /\ cl[c].todo \in SUBSET Files /\ cl[c].derived \in BOOLEAN
          /\ cl[c].base \in Results \cup {NoResult} /\ "done" \in ClientPcs
      BY Fields DEF ClientPcs
    <2> QED BY <1>1, <1>3, <2>1, FieldsMove
  <1> QED BY <1>4 DEF none

LEMMA RunAgainMoves ==
  ASSUME TypeInv, NEW c \in Clients, RunAgain(c)
  PROVE  Moves(c, "next", BatchOf[c], NoText, NoText, NoResult, TRUE, FALSE, cl[c].runs + 1,
               [f \in {} |-> NoResult])
  <1> DEFINE none == [f \in {} |-> NoResult]
             new == NewClient(c)
             r == [new EXCEPT !.runs = cl[c].runs + 1]
  <1>1. new = [pc |-> "next", todo |-> BatchOf[c], file |-> NoText, src |-> NoText,
               base |-> NoResult, ok |-> TRUE, derived |-> FALSE, runs |-> 1, report |-> none]
    BY DEF NewClient
  <1>2. BatchOf[c] \in SUBSET Files /\ cl[c].runs + 1 \in Nat /\ none \in Reports
    BY Fields, SettingFacts, EmptyReport DEF TypeInv
  <1>3. cl' = [cl EXCEPT ![c] = r]
    BY DEF RunAgain
  <1> HIDE DEF none, new
  <1>4. new \in Records
    BY <1>1, <1>2 DEF Records, ClientPcs
  <1>5. /\ new.pc = "next" /\ new.todo = BatchOf[c] /\ new.file = NoText /\ new.src = NoText
        /\ new.base = NoResult /\ new.ok = TRUE /\ new.derived = FALSE /\ new.report = none
    BY <1>1
  <1>6. r \in Records
    BY <1>2, <1>4 DEF Records
  <1>7. /\ r.pc = "next" /\ r.todo = BatchOf[c] /\ r.file = NoText /\ r.src = NoText
        /\ r.base = NoResult /\ r.ok = TRUE /\ r.derived = FALSE /\ r.runs = cl[c].runs + 1
        /\ r.report = none
    BY <1>4, <1>5 DEF Records
  <1> HIDE DEF r
  <1>8. Moves(c, r.pc, r.todo, r.file, r.src, r.base, r.ok, r.derived, r.runs, r.report)
    BY <1>3, <1>6, MovesTo
  <1> QED BY <1>7, <1>8 DEF none

-----------------------------------------------------------------------------
(* Type correctness *)

(* The setting is the same for the whole behaviour, and so is what depends  *)
(* on nothing else.                                                         *)
LEMMA SameSetting ==
  ASSUME setting' = setting
  PROVE  /\ BatchOf' = BatchOf /\ RunsOf' = RunsOf /\ KeepOpen' = KeepOpen /\ Flaky' = Flaky
         /\ Mortal' = Mortal /\ KeyOf' = KeyOf /\ Keys' = Keys /\ WithCandidates' = WithCandidates
         /\ MaxEdits' = MaxEdits /\ MaxContexts' = MaxContexts /\ Results' = Results
         /\ Records' = Records /\ \A f : ResultsOf(f)' = ResultsOf(f)
         /\ \A r : ClientType(r)' <=> ClientType(r)
  <1>1. /\ BatchOf' = BatchOf /\ RunsOf' = RunsOf /\ KeepOpen' = KeepOpen /\ Flaky' = Flaky
        /\ Mortal' = Mortal /\ KeyOf' = KeyOf /\ WithCandidates' = WithCandidates
        /\ MaxEdits' = MaxEdits /\ MaxContexts' = MaxContexts
    BY DEF BatchOf, RunsOf, KeepOpen, Flaky, Mortal, KeyOf, WithCandidates, MaxEdits, MaxContexts
  <1>2. Keys' = Keys /\ Results' = Results /\ \A f : ResultsOf(f)' = ResultsOf(f)
    BY <1>1 DEF Keys, Results, ResultsOf
  <1>3. Records' = Records
    BY <1>2 DEF Records, Reports
  <1>4. \A r : ClientType(r)' <=> ClientType(r)
    BY <1>2 DEF ClientType
  <1> QED BY <1>1, <1>2, <1>3, <1>4

(* What the next state has to have, in terms of the sets of this one. *)
LEMMA TypeNext ==
  ASSUME TypeInv, setting' = setting,
         disk' \in [Files -> Texts], edits' \in 0..MaxEdits, context' \in 0..MaxContexts,
         doc' \in [Files -> DocTexts], known' \in [Files -> Texts],
         coming' \subseteq Files, dirty' \subseteq Files, changed' \subseteq Files,
         cache' \in [Files \X Keys -> Results \cup {NoResult}], identity' \in 0..MaxContexts,
         \A f \in Files, k \in Keys : cache'[<<f, k>>] \in ResultsOf(f) \cup {NoResult},
         direct' \in [Files -> Texts \cup {NoText}], reconciled' \in [Files -> Texts \cup {NoText}],
         lock' \in Clients \cup {Nobody},
         cl' \in [Clients -> Records], \A c \in Clients : ClientType(cl'[c])
  PROVE  TypeInv'
  BY SameSetting DEF TypeInv, DocTexts

(* The others keep their types, and the process that moved needs its own.   *)
LEMMA ClientNext ==
  ASSUME TypeInv, NEW c \in Clients, NEW pc, NEW todo, NEW file, NEW src, NEW base, NEW ok, NEW derived,
         NEW runs, NEW report, Moves(c, pc, todo, file, src, base, ok, derived, runs, report),
         pc \in AtFile => file \in Files /\ src \in Texts,
         base \in ResultsOf(file) \cup {NoResult}, pc \in BeforeBase => base = NoResult,
         pc \in {"rewrite", "store"} \/ (pc \in {"finalize", "end"} /\ ok) => base # NoResult,
         \A f \in DOMAIN report : f \in Files /\ report[f] \in ResultsOf(f)
  PROVE  cl' \in [Clients -> Records] /\ \A d \in Clients : ClientType(cl'[d])
  <1>1. ClientType(cl'[c])
    BY DEF Moves, ClientType
  <1>2. \A d \in Clients \ {c} : ClientType(cl'[d])
    BY DEF Moves, TypeInv
  <1> QED BY <1>1, <1>2 DEF Moves

(* The same when the process stays with its file and result. *)
LEMMA ClientStays ==
  ASSUME TypeInv, NEW c \in Clients, NEW pc, NEW todo, NEW derived,
         Moves(c, pc, todo, cl[c].file, cl[c].src, cl[c].base, cl[c].ok, derived, cl[c].runs, cl[c].report),
         pc \in AtFile => cl[c].pc \in AtFile, pc \in BeforeBase => cl[c].pc \in BeforeBase,
         pc \notin {"rewrite", "store"},
         pc \in {"finalize", "end"} => cl[c].pc \in {"rewrite", "finalize"}
  PROVE  cl' \in [Clients -> Records] /\ \A d \in Clients : ClientType(cl'[d])
  <1>1. ClientType(cl[c])
    BY DEF TypeInv
  <1> QED BY <1>1, ClientNext DEF ClientType

LEMMA GotoType ==
  ASSUME TypeInv, NEW c \in Clients, NEW pc \in ClientPcs, Goto(c, pc),
         pc \in AtFile => cl[c].pc \in AtFile, pc \in BeforeBase => cl[c].pc \in BeforeBase,
         pc \in {"rewrite", "store"} => cl[c].base # NoResult,
         pc \in {"finalize", "end"} => cl[c].pc \in {"rewrite", "finalize"}
  PROVE  cl' \in [Clients -> Records] /\ \A d \in Clients : ClientType(cl'[d])
  <1>1. Moves(c, pc, cl[c].todo, cl[c].file, cl[c].src, cl[c].base, cl[c].ok, cl[c].derived,
              cl[c].runs, cl[c].report)
    BY GotoMoves
  <1>2. ClientType(cl[c])
    BY DEF TypeInv
  <1> QED BY <1>1, <1>2, ClientNext DEF ClientType

(* What the type invariant says of the other variables. *)
LEMMA UpdateType ==
  ASSUME TypeInv, NEW c \in Clients, cl[c].pc \in AtFile, NEW t \in Texts \cup {Rewritten}, Update(c, t)
  PROVE  doc' \in [Files -> DocTexts] /\ known' \in [Files -> Texts] /\ coming' \subseteq Files
  BY Fields DEF TypeInv, Update, DocTexts

LEMMA TakeType == TypeInv => \A c \in Clients : Take(c) => TypeInv'
  <1> SUFFICES ASSUME TypeInv, NEW c \in Clients, Take(c) PROVE TypeInv'
    OBVIOUS
  <1> DEFINE without(f) == [g \in DOMAIN cl[c].report \ {f} |-> cl[c].report[g]]
  <1>1. PICK f \in cl[c].todo :
           LET asked == <<f, disk[f]>> \in WithCandidates
           IN  Moves(c, IF asked THEN "lookup" ELSE "record", cl[c].todo \ {f}, f, disk[f], NoResult,
                     TRUE, cl[c].derived, cl[c].runs, IF asked THEN cl[c].report ELSE without(f))
    BY TakeMoves
  <1>2. f \in Files /\ disk[f] \in Texts
    BY Fields DEF TypeInv
  <1>3. \A g \in DOMAIN cl[c].report : g \in Files /\ cl[c].report[g] \in ResultsOf(g)
    BY DEF TypeInv, ClientType
  <1>4. \A g \in DOMAIN without(f) : g \in Files /\ without(f)[g] \in ResultsOf(g)
    BY <1>3
  <1>5. cl' \in [Clients -> Records] /\ \A d \in Clients : ClientType(cl'[d])
    <2> HIDE DEF without
    <2>1. CASE <<f, disk[f]>> \in WithCandidates
      BY <1>1, <1>2, <1>3, <2>1, ClientNext
    <2>2. CASE <<f, disk[f]>> \notin WithCandidates
      BY <1>1, <1>2, <1>4, <2>2, ClientNext
    <2> QED BY <2>1, <2>2
  <1> QED BY <1>5, TypeNext DEF Take, TypeInv, world, tyVars, sessionVars

LEMMA ReportedType ==
  ASSUME TypeInv, NEW c \in Clients, cl[c].pc \in AtFile, NEW res \in ResultsOf(cl[c].file)
  PROVE  \A f \in DOMAIN Reported(c, res) : f \in Files /\ Reported(c, res)[f] \in ResultsOf(f)
  BY Fields DEF Reported, TypeInv, ClientType

LEMMA LookupType == TypeInv => \A c \in Clients : Lookup(c) => TypeInv'
  <1> SUFFICES ASSUME TypeInv, NEW c \in Clients, Lookup(c) PROVE TypeInv'
    OBVIOUS
  <1> DEFINE r     == cl[c]
             entry == cache[<<r.file, KeyOf[c]>>]
             hit   == KeepOpen /\ context = identity /\ entry # NoResult /\ entry.src = r.src
  <1>1. /\ hit => entry \in ResultsOf(r.file)
        /\ Moves(c, IF hit THEN "record" ELSE "begin", r.todo, r.file, r.src, r.base, r.ok, r.derived,
                  r.runs, IF hit THEN Reported(c, entry) ELSE r.report)
    BY LookupMoves
  <1>2. r.pc \in AtFile /\ r.pc \in BeforeBase
    BY DEF Lookup, AtFile, BeforeBase
  <1> HIDE DEF entry, hit
  <1>3. cl' \in [Clients -> Records] /\ \A d \in Clients : ClientType(cl'[d])
    <2>1. CASE hit
      <3>1. \A f \in DOMAIN Reported(c, entry) : f \in Files /\ Reported(c, entry)[f] \in ResultsOf(f)
        BY <1>1, <1>2, <2>1, ReportedType
      <3>2. Moves(c, "record", r.todo, r.file, r.src, r.base, r.ok, r.derived, r.runs, Reported(c, entry))
        BY <1>1, <2>1
      <3>3. r.file \in Files /\ r.src \in Texts /\ r.base \in ResultsOf(r.file) \cup {NoResult}
        BY <1>2, Fields
      <3>4. "record" \notin BeforeBase /\ "record" \notin {"rewrite", "store", "finalize", "end"}
        BY DEF BeforeBase
      <3> HIDE DEF r
      <3> QED BY <3>1, <3>2, <3>3, <3>4, ClientNext
    <2>2. CASE ~hit
      <3>1. Moves(c, "begin", r.todo, r.file, r.src, r.base, r.ok, r.derived, r.runs, r.report)
        BY <1>1, <2>2
      <3>2. "begin" \notin {"rewrite", "store"} /\ "begin" \notin {"finalize", "end"}
        OBVIOUS
      <3>3. cl[c].pc \in AtFile /\ cl[c].pc \in BeforeBase
        BY <1>2
      <3>4. Moves(c, "begin", r.todo, cl[c].file, cl[c].src, cl[c].base, cl[c].ok, r.derived,
                  cl[c].runs, cl[c].report)
        BY <3>1
      <3> HIDE DEF r
      <3> QED BY <3>2, <3>3, <3>4, ClientStays
    <2> QED BY <2>1, <2>2
  <1>4. /\ cache' \in [Files \X Keys -> Results \cup {NoResult}] /\ identity' \in 0..MaxContexts
        /\ \A f \in Files, k \in Keys : cache'[<<f, k>>] \in ResultsOf(f) \cup {NoResult}
    BY DEF Lookup, TypeInv
  <1> QED BY <1>3, <1>4, TypeNext DEF Lookup, TypeInv, world, tyVars

LEMMA BeginType == TypeInv => \A c \in Clients : BeginAnalysis(c) => TypeInv'
  <1> SUFFICES ASSUME TypeInv, NEW c \in Clients, BeginAnalysis(c) PROVE TypeInv'
    OBVIOUS
  <1>1. cl' \in [Clients -> Records] /\ \A d \in Clients : ClientType(cl'[d])
    BY GotoType DEF BeginAnalysis, AtFile, BeforeBase, ClientPcs, InTransaction
  <1> QED BY <1>1, TypeNext DEF BeginAnalysis, TypeInv, world, tyVars, sessionVars

(* A request to ty that fails ends the analysis. *)
LEMMA FailedType ==
  ASSUME TypeInv, NEW c \in Clients, cl[c].pc \in AtFile, Failed(c)
  PROVE  cl' \in [Clients -> Records] /\ \A d \in Clients : ClientType(cl'[d])
  <1>1. Moves(c, "finalize", cl[c].todo, cl[c].file, cl[c].src, cl[c].base, FALSE, cl[c].derived,
              cl[c].runs, cl[c].report)
    BY FailedMoves
  <1>2. \A f \in DOMAIN cl[c].report : f \in Files /\ cl[c].report[f] \in ResultsOf(f)
    BY DEF TypeInv, ClientType
  <1>3. cl[c].file \in Files /\ cl[c].src \in Texts /\ cl[c].base \in ResultsOf(cl[c].file) \cup {NoResult}
    BY Fields
  <1>4. ClientType(cl'[c])
    BY <1>1, <1>2, <1>3 DEF BeforeBase, Moves, ClientType
  <1> QED BY <1>1, <1>4 DEF Moves, TypeInv

LEMMA BaseType ==
  ASSUME TypeInv, NEW c \in Clients, cl[c].pc \in AtFile, NEW pc \in {"rewrite", "finalize"},
         cl' = [cl EXCEPT ![c].pc = pc, ![c].base = Base(c)]
  PROVE  cl' \in [Clients -> Records] /\ \A d \in Clients : ClientType(cl'[d])
  <1>1. /\ Base(c) \in ResultsOf(cl[c].file)
        /\ Moves(c, pc, cl[c].todo, cl[c].file, cl[c].src, Base(c), cl[c].ok, cl[c].derived,
                  cl[c].runs, cl[c].report)
    BY BaseMoves
  <1>2. \A f \in DOMAIN cl[c].report : f \in Files /\ cl[c].report[f] \in ResultsOf(f)
    BY DEF TypeInv, ClientType
  <1> QED BY <1>1, <1>2, Fields, ResultIsOne, ClientNext DEF BeforeBase

LEMMA OpenType ==
  TypeInv => \A c \in Clients : OpenBaseline(c) \/ OpenProbe(c) \/ OpenAgain(c) \/ OpenRewrite(c) => TypeInv'
  <1> SUFFICES ASSUME TypeInv, NEW c \in Clients,
                      OpenBaseline(c) \/ OpenProbe(c) \/ OpenAgain(c) \/ OpenRewrite(c)
               PROVE  TypeInv'
    OBVIOUS
  <1>1. cl[c].pc \in AtFile /\ (cl[c].pc = "rewrite" => cl[c].base # NoResult)
    BY DEF OpenBaseline, OpenProbe, OpenAgain, OpenRewrite, AtFile, InTransaction, TypeInv, ClientType
  <1>2. doc' \in [Files -> DocTexts] /\ known' \in [Files -> Texts] /\ coming' \subseteq Files
    BY <1>1, UpdateType, Fields DEF OpenBaseline, OpenProbe, OpenAgain, OpenRewrite
  <1>3. cl' \in [Clients -> Records] /\ \A d \in Clients : ClientType(cl'[d])
    <2>1. CASE OpenBaseline(c)
      <3>1. CASE Goto(c, "probe")
        BY <1>1, <2>1, <3>1, GotoType DEF ClientPcs, InTransaction, BeforeBase, OpenBaseline, OpenProbe
      <3> QED BY <1>1, <2>1, <3>1, FailedType, BaseType DEF OpenBaseline, Base
    <2>2. CASE OpenProbe(c)
      <3>1. CASE Goto(c, "rebase")
        BY <1>1, <2>2, <3>1, GotoType DEF ClientPcs, InTransaction, BeforeBase, OpenBaseline, OpenProbe
      <3> QED BY <1>1, <2>2, <3>1, FailedType DEF OpenProbe
    <2>3. CASE OpenAgain(c)
      BY <1>1, <2>3, FailedType, BaseType DEF OpenAgain, Base
    <2>4. CASE OpenRewrite(c)
      <3>1. CASE Goto(c, "finalize")
        BY <1>1, <2>4, <3>1, GotoType DEF BeforeBase, ClientPcs, InTransaction, OpenRewrite
      <3> QED BY <1>1, <2>4, <3>1, FailedType DEF OpenRewrite
    <2> QED BY <2>1, <2>2, <2>3, <2>4
  <1> QED BY <1>2, <1>3, TypeNext DEF OpenBaseline, OpenProbe, OpenAgain, OpenRewrite, TypeInv, world, sessionVars

LEMMA EndType ==
  TypeInv => \A c \in Clients : Finalize(c) \/ EndAnalysis(c) \/ Store(c) \/ Record(c) => TypeInv'
  <1> SUFFICES ASSUME TypeInv, NEW c \in Clients PROVE Finalize(c) \/ EndAnalysis(c) \/ Store(c) \/ Record(c) => TypeInv'
    OBVIOUS
  <1>1. ASSUME Finalize(c) PROVE TypeInv'
    <2>1. cl[c].pc \in AtFile /\ cl[c].pc = "finalize"
      BY <1>1 DEF Finalize, AtFile, InTransaction
    <2>2. doc' \in [Files -> DocTexts] /\ known' \in [Files -> Texts] /\ coming' \subseteq Files
      <3>1. CASE KeepOpen
        BY <1>1, <2>1, <3>1, UpdateType, Fields DEF Finalize
      <3>2. CASE ~KeepOpen
        BY <1>1, <3>2 DEF Finalize, TypeInv, DocTexts
      <3> QED BY <3>1, <3>2
    <2>3. cl' \in [Clients -> Records] /\ \A d \in Clients : ClientType(cl'[d])
      BY <1>1, <2>1, GotoType DEF BeforeBase, Finalize, ClientPcs, InTransaction
    <2> QED BY <1>1, <2>2, <2>3, TypeNext DEF Finalize, TypeInv, world, sessionVars
  <1>2. ASSUME EndAnalysis(c) PROVE TypeInv'
    <2>1. cl[c].pc = "end" /\ "end" \in AtFile /\ (cl[c].ok => cl[c].base # NoResult)
      BY <1>2 DEF EndAnalysis, AtFile, InTransaction, TypeInv, ClientType
    <2>2. CASE cl[c].ok
      BY <1>2, <2>1, <2>2, GotoType, TypeNext DEF BeforeBase, EndAnalysis, ClientPcs, TypeInv, world, tyVars, sessionVars
    <2>3. CASE ~cl[c].ok
      <3>1. Goto(c, "next") /\ "next" \in ClientPcs /\ "next" \notin AtFile
        BY <1>2, <2>3 DEF EndAnalysis, ClientPcs, AtFile, InTransaction
      <3> QED BY <1>2, <3>1, GotoType, TypeNext DEF BeforeBase, EndAnalysis, TypeInv, world, tyVars, sessionVars
    <2> QED BY <2>2, <2>3
  <1>3. ASSUME Store(c) PROVE TypeInv'
    <2>1. /\ cl[c].base \in ResultsOf(cl[c].file)
          /\ Moves(c, "record", cl[c].todo, cl[c].file, cl[c].src, cl[c].base, cl[c].ok, cl[c].derived,
                   cl[c].runs, Reported(c, cl[c].base))
      BY <1>3, StoreMoves
    <2>2. cl[c].pc \in AtFile
      BY <1>3 DEF Store, AtFile
    <2>3. \A f \in DOMAIN Reported(c, cl[c].base) : f \in Files /\ Reported(c, cl[c].base)[f] \in ResultsOf(f)
      BY <2>1, <2>2, ReportedType
    <2>4. cl' \in [Clients -> Records] /\ \A d \in Clients : ClientType(cl'[d])
      BY <2>1, <2>2, <2>3, Fields, ClientNext DEF BeforeBase
    <2>5. /\ cache' \in [Files \X Keys -> Results \cup {NoResult}]
          /\ \A f \in Files, k \in Keys : cache'[<<f, k>>] \in ResultsOf(f) \cup {NoResult}
      <3>1. cl[c].base \in Results /\ cl[c].file \in Files /\ KeyOf[c] \in Keys
        BY <2>1, <2>2, Fields, ResultIsOne DEF Keys
      <3>2. CASE KeepOpen
        BY <1>3, <2>1, <3>1, <3>2 DEF Store, TypeInv
      <3>3. CASE ~KeepOpen
        BY <1>3, <3>3 DEF Store, TypeInv
      <3> QED BY <3>2, <3>3
    <2> QED BY <1>3, <2>4, <2>5, TypeNext DEF Store, TypeInv, world, tyVars
  <1>4. ASSUME Record(c) PROVE TypeInv'
    <2>1. cl' \in [Clients -> Records] /\ \A d \in Clients : ClientType(cl'[d])
      BY <1>4, GotoType DEF BeforeBase, Record, ClientPcs, AtFile, InTransaction
    <2>2. cl[c].pc \in AtFile
      BY <1>4 DEF Record, AtFile
    <2>3. direct' \in [Files -> Texts \cup {NoText}]
      BY <1>4, <2>2, Fields DEF Record, TypeInv
    <2> QED BY <1>4, <2>1, <2>3, TypeNext DEF Record, TypeInv, world, tyVars
  <1> QED BY <1>1, <1>2, <1>3, <1>4

LEMMA RunEndsType ==
  ASSUME TypeInv, NEW c \in Clients, NEW again \in SUBSET Files, RunEnds(c, again)
  PROVE  cl' \in [Clients -> Records] /\ \A d \in Clients : ClientType(cl'[d])
  <1> DEFINE pc == IF again = {} THEN "done" ELSE "next"
  <1>1. Moves(c, pc, again, cl[c].file, cl[c].src, cl[c].base, cl[c].ok, TRUE, cl[c].runs, cl[c].report)
    BY RunEndsMoves
  <1>2. pc \notin AtFile
    BY DEF AtFile, InTransaction
  <1>3. pc \notin {"rewrite", "store", "finalize", "end"} \cup BeforeBase
    BY DEF BeforeBase
  <1> HIDE DEF pc
  <1>4. ClientType(cl[c])
    BY DEF TypeInv
  <1>5. ClientType(cl'[c])
    BY <1>1, <1>2, <1>3, <1>4 DEF Moves, ClientType
  <1> QED BY <1>1, <1>5 DEF Moves, TypeInv

LEMMA ReconcileType ==
  TypeInv => \A c \in Clients : StartReconciling(c) \/ NotifyChanged(c) \/ CollectDirty(c) \/ LastFile(c) => TypeInv'
  <1> SUFFICES ASSUME TypeInv, NEW c \in Clients
               PROVE  StartReconciling(c) \/ NotifyChanged(c) \/ CollectDirty(c) \/ LastFile(c) => TypeInv'
    OBVIOUS
  <1>1. ASSUME StartReconciling(c) PROVE TypeInv'
    <2>1. cl' \in [Clients -> Records] /\ \A d \in Clients : ClientType(cl'[d])
      BY <1>1, GotoType DEF BeforeBase, StartReconciling, ClientPcs, AtFile, InTransaction
    <2>2. coming' \subseteq Files /\ changed' \subseteq Files
      BY <1>1 DEF StartReconciling, TypeInv, Changed
    <2> QED BY <1>1, <2>1, <2>2, TypeNext DEF StartReconciling, TypeInv, world
  <1>2. ASSUME NotifyChanged(c) PROVE TypeInv'
    <2>1. \A fs : Kept(fs) \in [Files -> Texts \cup {NoText}]
      BY DEF Kept, TypeInv
    <2>2. direct' \in [Files -> Texts \cup {NoText}] /\ lock' \in Clients \cup {Nobody}
      BY <1>2, <2>1 DEF NotifyChanged, TypeInv
    <2>3. cl' \in [Clients -> Records] /\ \A d \in Clients : ClientType(cl'[d])
      <3>1. CASE RunEnds(c, {})
        BY <3>1, RunEndsType
      <3>2. CASE Goto(c, "collect")
        BY <3>2, GotoType DEF BeforeBase, ClientPcs, AtFile, InTransaction
      <3> QED BY <1>2, <3>1, <3>2 DEF NotifyChanged
    <2>4. /\ reconciled' \in [Files -> Texts \cup {NoText}] /\ known' \in [Files -> Texts]
          /\ coming' \subseteq Files /\ doc' = doc
      BY <1>2 DEF NotifyChanged, TypeInv, tyVars, Dependents
    <2> QED BY <1>2, <2>2, <2>3, <2>4, TypeNext DEF NotifyChanged, TypeInv, world
  <1>3. ASSUME CollectDirty(c) PROVE TypeInv'
    <2>1. PICK arrived \in {coming} \cup (IF Flaky \/ ~CaughtUp THEN SUBSET coming ELSE {}) :
            /\ coming' = coming \ arrived /\ dirty' = {}
            /\ cache' = Invalidated(dirty \cup arrived)
            /\ RunEnds(c, (dirty \cup arrived) \cap Opens)
      BY <1>3 DEF CollectDirty
    <2>2. cl' \in [Clients -> Records] /\ \A d \in Clients : ClientType(cl'[d])
      BY <2>1, RunEndsType DEF Opens
    <2>3. /\ cache' \in [Files \X Keys -> Results \cup {NoResult}]
          /\ \A f \in Files, k \in Keys : cache'[<<f, k>>] \in ResultsOf(f) \cup {NoResult}
      BY <2>1 DEF Invalidated, TypeInv
    <2> QED BY <1>3, <2>1, <2>2, <2>3, TypeNext DEF CollectDirty, TypeInv, world
  <1>4. ASSUME LastFile(c) PROVE TypeInv'
    <2>1. cl' \in [Clients -> Records] /\ \A d \in Clients : ClientType(cl'[d])
      BY <1>4, GotoType DEF BeforeBase, LastFile, ClientPcs, AtFile, InTransaction
    <2> QED BY <1>4, <2>1, TypeNext DEF LastFile, TypeInv, world, tyVars, sessionVars
  <1> QED BY <1>1, <1>2, <1>3, <1>4

LEMMA RunAgainType == TypeInv => \A c \in Clients : RunAgain(c) \/ Abandon(c) => TypeInv'
  <1> SUFFICES ASSUME TypeInv, NEW c \in Clients PROVE RunAgain(c) \/ Abandon(c) => TypeInv'
    OBVIOUS
  <1> DEFINE none == [f \in {} |-> NoResult]
  <1>0. \A f \in DOMAIN none : f \in Files /\ none[f] \in ResultsOf(f)
    OBVIOUS
  <1>1. ASSUME RunAgain(c) PROVE TypeInv'
    <2>1. Moves(c, "next", BatchOf[c], NoText, NoText, NoResult, TRUE, FALSE, cl[c].runs + 1, none)
      BY <1>1, RunAgainMoves
    <2> HIDE DEF none
    <2>2. cl' \in [Clients -> Records] /\ \A d \in Clients : ClientType(cl'[d])
      BY <1>0, <2>1, ClientNext DEF AtFile, InTransaction
    <2> QED BY <1>1, <2>2, TypeNext DEF RunAgain, TypeInv, world, sessionVars
  <1>2. ASSUME Abandon(c) PROVE TypeInv'
    <2>1. Moves(c, "done", cl[c].todo, cl[c].file, cl[c].src, cl[c].base, FALSE, cl[c].derived, cl[c].runs, none)
      BY <1>2, AbandonMoves
    <2>2. cl[c].base \in ResultsOf(cl[c].file) \cup {NoResult} /\ "done" \notin AtFile
      BY DEF TypeInv, ClientType, AtFile, InTransaction
    <2> HIDE DEF none
    <2>3. cl' \in [Clients -> Records] /\ \A d \in Clients : ClientType(cl'[d])
      BY <1>0, <2>1, <2>2, ClientNext DEF BeforeBase
    <2> QED BY <1>2, <2>3, TypeNext DEF Abandon, TypeInv, world, tyVars, sessionVars
  <1> QED BY <1>1, <1>2

LEMMA TypeStep == TypeInv /\ [Next]_vars => TypeInv'
  <1> SUFFICES ASSUME TypeInv, [Next]_vars PROVE TypeInv'
    OBVIOUS
  <1>1. CASE \E c \in Clients : ClientStep(c) \/ RunAgain(c) \/ Abandon(c)
    BY <1>1, TakeType, LookupType, BeginType, OpenType, EndType, ReconcileType, RunAgainType DEF ClientStep
  <1>2. CASE Push
    BY <1>2, TypeNext DEF Push, TypeInv, world
  <1>3. CASE Edit
    <2>1. edits' \in 0..MaxEdits
      BY <1>3, SettingFacts DEF Edit, TypeInv
    <2>2. disk' \in [Files -> Texts]
      BY <1>3 DEF Edit, TypeInv
    <2> QED BY <1>3, <2>1, <2>2, TypeNext DEF Edit, TypeInv, tyVars, sessionVars
  <1>4. CASE Reconfigure
    <2>1. context' \in 0..MaxContexts
      BY <1>4, SettingFacts DEF Reconfigure, TypeInv
    <2> QED BY <1>4, <2>1, TypeNext DEF Reconfigure, TypeInv, tyVars, sessionVars
  <1>5. CASE UNCHANGED vars
    BY <1>5, TypeNext DEF TypeInv, vars, world, tyVars, sessionVars
  <1> QED BY <1>1, <1>2, <1>3, <1>4, <1>5 DEF Next, Finished

(* A process before its first step has the fields of a new one, and its place. *)
LEMMA NewClientType ==
  ASSUME setting \in DOMAIN Settings, NEW c \in Clients, NEW pc \in {"next", "done"}
  PROVE  LET r == [NewClient(c) EXCEPT !.pc = pc]
         IN  r \in Records /\ ClientType(r) /\ r.pc = pc
  <1> DEFINE none == [f \in {} |-> NoResult]
             new == NewClient(c)
             r == [new EXCEPT !.pc = pc]
  <1>0. \A f \in DOMAIN none : f \in Files /\ none[f] \in ResultsOf(f)
    OBVIOUS
  <1>1. new = [pc |-> "next", todo |-> BatchOf[c], file |-> NoText, src |-> NoText,
               base |-> NoResult, ok |-> TRUE, derived |-> FALSE, runs |-> 1, report |-> none]
    BY DEF NewClient
  <1>2. BatchOf[c] \in SUBSET Files /\ none \in Reports
    BY SettingFacts, EmptyReport
  <1> HIDE DEF none, new
  <1>3. new \in Records
    BY <1>1, <1>2 DEF Records, ClientPcs
  <1>4. new.base = NoResult /\ new.report = none
    BY <1>1
  <1>5. r \in Records
    BY <1>3 DEF Records, ClientPcs
  <1>6. r.pc = pc /\ r.base = NoResult /\ r.report = none
    BY <1>3, <1>4 DEF Records
  <1>7. pc \notin AtFile /\ pc \notin {"rewrite", "store", "finalize", "end"}
    BY DEF AtFile, InTransaction
  <1> HIDE DEF r
  <1>8. ClientType(r)
    BY <1>0, <1>6, <1>7 DEF ClientType
  <1> QED BY <1>5, <1>6, <1>8 DEF r, new

LEMMA TypeInit == Init => TypeInv
  <1> SUFFICES ASSUME Init PROVE TypeInv
    OBVIOUS
  <1> DEFINE pc(c) == IF RunsOf[c] = 0 THEN "done" ELSE "next"
             r(c)  == [NewClient(c) EXCEPT !.pc = pc(c)]
  <1>1. setting \in DOMAIN Settings
    BY DEF Init
  <1>2. \A c \in Clients : r(c) \in Records /\ ClientType(r(c))
    BY <1>1, NewClientType
  <1>3. cl = [c \in Clients |-> r(c)]
    BY DEF Init, NewClient
  <1>4. cl \in [Clients -> Records] /\ \A c \in Clients : ClientType(cl[c])
    <2> HIDE DEF r
    <2> QED BY <1>2, <1>3
  <1>5. 0 \in 0..MaxEdits /\ 0 \in 0..MaxContexts
    BY <1>1, SettingFacts
  <1> QED BY <1>4, <1>5 DEF Init, TypeInv, DocTexts

(* The session, the documents and the processes keep their types, and every *)
(* result is one of the file it is kept for, in a cache as in a report      *)
(* (cache_redundancies, cached_redundancies, CheckOrchestrator's reports).  *)
THEOREM TypeCorrect == Spec => []TypeOK
  <1>1. TypeInv => TypeOK
    BY DEF TypeInv, TypeOK, Records
  <1> QED BY <1>1, TypeInit, TypeStep, PTL DEF Spec

-----------------------------------------------------------------------------
(* What the step of a process leaves to the others *)

StepOf(c) == ClientStep(c) \/ RunAgain(c) \/ Abandon(c)

(* In these places a process has the session for itself. *)
Holding == InTransaction \cup {"notify", "collect"}

(* A step of an analysis is about its own document only.  What is found is  *)
(* found in the text as it is, and at the end the document is as it was.    *)
Analyses(c) ==
  /\ cl[c].pc \in InTransaction /\ cl'[c].pc \in InTransaction
  /\ cl'[c].file = cl[c].file /\ cl'[c].src = cl[c].src
  /\ known' = known /\ lock' = lock
  /\ \A g \in Files \ {cl[c].file} : doc'[g] = doc[g]
  /\ cl'[c].pc = "end" => doc'[cl[c].file] = IF KeepOpen THEN cl[c].src ELSE NoText
  /\ cl'[c].pc \in {"rewrite", "finalize"} =>
       \/ cl'[c].base = NoResult \/ cl'[c].base.seen = Seen(cl[c].file)
       \/ cl[c].pc = "rewrite" /\ cl'[c].base = cl[c].base

(* The other steps leave the documents alone, and a transaction is left at  *)
(* its end or by a process that is lost.                                    *)
Passes(c) ==
  /\ doc' = doc
  /\ cl'[c].pc \in InTransaction => cl[c].pc = "begin" /\ cl'[c].pc = "baseline"
  /\ cl[c].pc \in InTransaction => cl[c].pc = "end" \/ (c \in Mortal /\ KeepOpen)
  /\ known' = known \/ cl[c].pc \in Holding \/ ~KeepOpen

(* The session is taken when it is free, and freed by who has it. *)
Locks(c) ==
  /\ \/ lock' = lock
     \/ lock = Nobody /\ lock' = c
     \/ (lock = c \/ cl[c].pc \in Holding) /\ lock' = Nobody /\ cl'[c].pc \notin Holding
  /\ cl'[c].pc \in Holding => lock' = c \/ (cl[c].pc \in Holding /\ lock' = lock)

Effect(c) ==
  /\ setting' = setting /\ \A d \in Clients \ {c} : cl'[d] = cl[d]
  /\ cl[c].pc # "done" \/ cl[c].runs < RunsOf[c]
  /\ Analyses(c) \/ Passes(c)
  /\ KeepOpen => Locks(c)
  /\ KeepOpen \/ \A k \in Files \X Keys : cache'[k] \in {cache[k], NoResult}

LEMMA OpenEffect ==
  TypeInv => \A c \in Clients :
    OpenBaseline(c) \/ OpenProbe(c) \/ OpenAgain(c) \/ OpenRewrite(c) \/ Finalize(c) => Effect(c)
  <1> SUFFICES ASSUME TypeInv, NEW c \in Clients,
                      OpenBaseline(c) \/ OpenProbe(c) \/ OpenAgain(c) \/ OpenRewrite(c) \/ Finalize(c)
               PROVE  Effect(c)
    OBVIOUS
  <1>1. /\ cl[c].pc \in InTransaction /\ cl[c].pc \in AtFile /\ cl[c].file \in Files /\ doc \in [Files -> DocTexts]
        /\ cl[c].pc \in {"baseline", "probe", "rebase"} => cl[c].base = NoResult
    BY DEF OpenBaseline, OpenProbe, OpenAgain, OpenRewrite, Finalize, AtFile, InTransaction, TypeInv,
           ClientType, BeforeBase
  <1>2. setting' = setting /\ known' = known /\ lock' = lock /\ cache' = cache
    BY DEF OpenBaseline, OpenProbe, OpenAgain, OpenRewrite, Finalize, world, tyVars, sessionVars, Update
  <1>3. \A g \in Files \ {cl[c].file} : doc'[g] = doc[g]
    BY <1>1 DEF OpenBaseline, OpenProbe, OpenAgain, OpenRewrite, Finalize, Update
  <1> DEFINE Found == \/ cl'[c].base = NoResult \/ cl'[c].base.seen = Seen(cl[c].file)
                      \/ cl[c].pc = "rewrite" /\ cl'[c].base = cl[c].base
             Moved == /\ \A d \in Clients \ {c} : cl'[d] = cl[d]
                      /\ cl'[c].pc \in InTransaction /\ cl'[c].file = cl[c].file /\ cl'[c].src = cl[c].src
                      /\ cl'[c].pc = "end" => cl[c].pc = "finalize"
                      /\ cl'[c].pc \in {"rewrite", "finalize"} => Found
  <1>4. ASSUME NEW pc \in {"probe", "rebase", "finalize", "end"}, Goto(c, pc)
        PROVE  Moves(c, pc, cl[c].todo, cl[c].file, cl[c].src, cl[c].base, cl[c].ok, cl[c].derived,
                     cl[c].runs, cl[c].report)
    BY <1>4, GotoMoves DEF ClientPcs, InTransaction
  <1>5. ASSUME Failed(c)
        PROVE  Moves(c, "finalize", cl[c].todo, cl[c].file, cl[c].src, cl[c].base, FALSE, cl[c].derived,
                     cl[c].runs, cl[c].report)
    BY <1>5, FailedMoves
  <1>6. ASSUME NEW pc \in {"rewrite", "finalize"}, cl' = [cl EXCEPT ![c].pc = pc, ![c].base = Base(c)]
        PROVE  Moves(c, pc, cl[c].todo, cl[c].file, cl[c].src, Base(c), cl[c].ok, cl[c].derived,
                     cl[c].runs, cl[c].report)
    BY <1>1, <1>6, BaseMoves
  <1>7. Moved
    <2>0. Base(c).seen = Seen(cl[c].file)
      BY DEF Base
    <2>1. CASE OpenBaseline(c)
      <3>1. ASSUME cl' = [cl EXCEPT ![c].pc = "rewrite", ![c].base = Base(c)] PROVE Moved
        BY <1>6, <2>0, <3>1 DEF Moves, InTransaction
      <3>2. ASSUME Goto(c, "probe") \/ Failed(c) PROVE Moved
        BY <1>1, <1>4, <1>5, <2>1, <3>2 DEF OpenBaseline, Moves, InTransaction
      <3> HIDE DEF Moved
      <3> QED BY <2>1, <3>1, <3>2 DEF OpenBaseline, Base
    <2>2. CASE OpenProbe(c)
      BY <1>1, <1>4, <1>5, <2>2 DEF OpenProbe, Moves, InTransaction
    <2>3. CASE OpenAgain(c)
      <3>1. ASSUME NEW pc \in {"rewrite", "finalize"}, cl' = [cl EXCEPT ![c].pc = pc, ![c].base = Base(c)]
            PROVE  Moved
        BY <1>6, <2>0, <3>1 DEF Moves, InTransaction
      <3>2. ASSUME Failed(c) PROVE Moved
        BY <1>1, <1>5, <2>3, <3>2 DEF OpenAgain, Moves, InTransaction
      <3> HIDE DEF Moved
      <3> QED BY <2>3, <3>1, <3>2 DEF OpenAgain, Base
    <2>4. CASE OpenRewrite(c)
      BY <1>1, <1>4, <1>5, <2>4 DEF OpenRewrite, Moves, InTransaction
    <2>5. CASE Finalize(c)
      BY <1>1, <1>4, <2>5 DEF Finalize, Moves, InTransaction
    <2> QED BY <2>1, <2>2, <2>3, <2>4, <2>5
  <1>8. cl[c].pc = "finalize" => doc'[cl[c].file] = IF KeepOpen THEN cl[c].src ELSE NoText
    BY <1>1 DEF OpenBaseline, OpenProbe, OpenAgain, OpenRewrite, Finalize, Update
  <1>9. Analyses(c)
    BY <1>1, <1>2, <1>3, <1>7, <1>8 DEF Analyses, Found
  <1>10. Locks(c) /\ cl[c].pc # "done"
    BY <1>1, <1>2, <1>7 DEF Locks, Holding, InTransaction
  <1> QED BY <1>2, <1>7, <1>9, <1>10 DEF Effect

(* The steps outside of an analysis; an effect needs of the places only      *)
(* where the process comes from and where it goes.                           *)
LEMMA PassEffect ==
  ASSUME TypeInv, NEW c \in Clients, NEW pc, cl'[c].pc = pc, \A d \in Clients \ {c} : cl'[d] = cl[d],
         setting' = setting, doc' = doc, cl[c].pc # "done" \/ cl[c].runs < RunsOf[c],
         pc \in InTransaction => cl[c].pc = "begin" /\ pc = "baseline",
         cl[c].pc \in InTransaction => cl[c].pc = "end" \/ (c \in Mortal /\ KeepOpen),
         known' = known \/ cl[c].pc \in Holding \/ ~KeepOpen,
         KeepOpen => \/ lock' = lock /\ (pc \in Holding => cl[c].pc \in Holding)
                     \/ lock = Nobody /\ lock' = c
                     \/ (lock = c \/ cl[c].pc \in Holding) /\ lock' = Nobody /\ pc \notin Holding,
         KeepOpen \/ \A k \in Files \X Keys : cache'[k] \in {cache[k], NoResult}
  PROVE  Effect(c)
  BY DEF Effect, Passes, Locks

LEMMA BatchEffect ==
  TypeInv => \A c \in Clients :
    Take(c) \/ Lookup(c) \/ BeginAnalysis(c) \/ EndAnalysis(c) \/ Store(c) \/ Record(c) => Effect(c)
  <1> SUFFICES ASSUME TypeInv, NEW c \in Clients
               PROVE  Take(c) \/ Lookup(c) \/ BeginAnalysis(c) \/ EndAnalysis(c) \/ Store(c) \/ Record(c) => Effect(c)
    OBVIOUS
  <1>1. ASSUME Take(c) PROVE Effect(c)
    <2>1. \E pc \in {"lookup", "record"} : cl'[c].pc = pc /\ \A d \in Clients \ {c} : cl'[d] = cl[d]
      BY <1>1, TakeMoves DEF Moves
    <2> QED BY <1>1, <2>1, PassEffect DEF Take, world, tyVars, sessionVars, Holding, InTransaction
  <1>2. ASSUME Lookup(c) PROVE Effect(c)
    <2>1. \E pc \in {"begin", "record"} : cl'[c].pc = pc /\ \A d \in Clients \ {c} : cl'[d] = cl[d]
      BY <1>2, LookupMoves DEF Moves
    <2> QED BY <1>2, <2>1, PassEffect DEF Lookup, world, tyVars, Holding, InTransaction
  <1>3. ASSUME BeginAnalysis(c) PROVE Effect(c)
    <2>1. cl'[c].pc = "baseline" /\ \A d \in Clients \ {c} : cl'[d] = cl[d]
      BY <1>3, GotoMoves DEF BeginAnalysis, Moves, ClientPcs, InTransaction
    <2> QED BY <1>3, <2>1, PassEffect DEF BeginAnalysis, Unlocked, world, tyVars, sessionVars, Holding, InTransaction
  <1>4. ASSUME EndAnalysis(c) PROVE Effect(c)
    <2>1. \E pc \in {"next", "store"} : cl'[c].pc = pc /\ \A d \in Clients \ {c} : cl'[d] = cl[d]
      BY <1>4, GotoMoves DEF EndAnalysis, Moves, ClientPcs
    <2> QED BY <1>4, <2>1, PassEffect DEF EndAnalysis, world, tyVars, sessionVars, Holding, InTransaction
  <1>5. ASSUME Store(c) PROVE Effect(c)
    <2>1. cl'[c].pc = "record" /\ \A d \in Clients \ {c} : cl'[d] = cl[d]
      BY <1>5, StoreMoves DEF Moves
    <2> QED BY <1>5, <2>1, PassEffect DEF Store, world, tyVars, Holding, InTransaction
  <1>6. ASSUME Record(c) PROVE Effect(c)
    <2>1. cl'[c].pc = "next" /\ \A d \in Clients \ {c} : cl'[d] = cl[d]
      BY <1>6, GotoMoves DEF Record, Moves, ClientPcs
    <2> QED BY <1>6, <2>1, PassEffect DEF Record, world, tyVars, Holding, InTransaction
  <1> QED BY <1>1, <1>2, <1>3, <1>4, <1>5, <1>6

LEMMA ReconcileEffect ==
  TypeInv => \A c \in Clients :
    StartReconciling(c) \/ NotifyChanged(c) \/ CollectDirty(c) \/ LastFile(c) => Effect(c)
  <1> SUFFICES ASSUME TypeInv, NEW c \in Clients
               PROVE  StartReconciling(c) \/ NotifyChanged(c) \/ CollectDirty(c) \/ LastFile(c) => Effect(c)
    OBVIOUS
  <1>1. ASSUME StartReconciling(c) PROVE Effect(c)
    <2>1. cl'[c].pc = "notify" /\ \A d \in Clients \ {c} : cl'[d] = cl[d]
      BY <1>1, GotoMoves DEF StartReconciling, Moves, ClientPcs
    <2> QED BY <1>1, <2>1, PassEffect DEF StartReconciling, Unlocked, world, Holding, InTransaction
  <1>2. ASSUME NotifyChanged(c) PROVE Effect(c)
    <2>1. ASSUME RunEnds(c, {}) PROVE cl'[c].pc = "done" /\ \A d \in Clients \ {c} : cl'[d] = cl[d]
      BY <2>1, RunEndsMoves DEF Moves
    <2>2. ASSUME Goto(c, "collect") PROVE cl'[c].pc = "collect" /\ \A d \in Clients \ {c} : cl'[d] = cl[d]
      BY <2>2, GotoMoves DEF Moves, ClientPcs
    <2>3. \E pc \in {"done", "collect"} :
            /\ cl'[c].pc = pc /\ \A d \in Clients \ {c} : cl'[d] = cl[d]
            /\ (pc = "done" /\ lock' = Nobody) \/ (pc = "collect" /\ lock' = lock)
      <3>1. (RunEnds(c, {}) /\ lock' = Nobody) \/ (Goto(c, "collect") /\ lock' = lock)
        BY <1>2 DEF NotifyChanged
      <3>2. CASE RunEnds(c, {}) /\ lock' = Nobody
        <4>1. cl'[c].pc = "done" /\ \A d \in Clients \ {c} : cl'[d] = cl[d]
          BY <2>1, <3>2
        <4> QED BY <3>2, <4>1
      <3>3. CASE Goto(c, "collect") /\ lock' = lock
        BY <2>2, <3>3
      <3> QED BY <3>1, <3>2, <3>3
    <2>4. setting' = setting /\ doc' = doc /\ cl[c].pc = "notify" /\ cache' = cache
      BY <1>2 DEF NotifyChanged, world, tyVars
    <2> QED BY <2>3, <2>4, PassEffect DEF Holding, InTransaction
  <1>3. ASSUME CollectDirty(c) PROVE Effect(c)
    <2>1. PICK again \in SUBSET Files : RunEnds(c, again)
      BY <1>3 DEF CollectDirty, Opens
    <2>2. \E pc \in {"done", "next"} : cl'[c].pc = pc /\ \A d \in Clients \ {c} : cl'[d] = cl[d]
      BY <2>1, RunEndsMoves DEF Moves
    <2>3. setting' = setting /\ doc' = doc /\ known' = known /\ cl[c].pc = "collect" /\ lock' = Nobody
      BY <1>3 DEF CollectDirty, world
    <2>4. \A k \in Files \X Keys : cache'[k] \in {cache[k], NoResult}
      BY <1>3 DEF CollectDirty, Invalidated, TypeInv
    <2> QED BY <2>2, <2>3, <2>4, PassEffect DEF Holding, InTransaction
  <1>4. ASSUME LastFile(c) PROVE Effect(c)
    <2>1. cl'[c].pc = "done" /\ \A d \in Clients \ {c} : cl'[d] = cl[d]
      BY <1>4, GotoMoves DEF LastFile, Moves, ClientPcs
    <2> QED BY <1>4, <2>1, PassEffect DEF LastFile, world, tyVars, sessionVars, Holding, InTransaction
  <1> QED BY <1>1, <1>2, <1>3, <1>4

LEMMA RunAgainEffect == TypeInv => \A c \in Clients : RunAgain(c) \/ Abandon(c) => Effect(c)
  <1> SUFFICES ASSUME TypeInv, NEW c \in Clients PROVE RunAgain(c) \/ Abandon(c) => Effect(c)
    OBVIOUS
  <1>1. ASSUME RunAgain(c) PROVE Effect(c)
    <2>1. cl'[c].pc = "next" /\ \A d \in Clients \ {c} : cl'[d] = cl[d]
      BY <1>1, RunAgainMoves DEF Moves
    <2> QED BY <1>1, <2>1, PassEffect DEF RunAgain, world, sessionVars, Holding, InTransaction
  <1>2. ASSUME Abandon(c) PROVE Effect(c)
    <2>1. cl'[c].pc = "done" /\ \A d \in Clients \ {c} : cl'[d] = cl[d]
      BY <1>2, AbandonMoves DEF Moves
    <2> QED BY <1>2, <2>1, PassEffect DEF Abandon, world, tyVars, sessionVars, Holding, InTransaction
  <1> QED BY <1>1, <1>2

LEMMA StepEffect == TypeInv => \A c \in Clients : StepOf(c) => Effect(c)
  BY OpenEffect, BatchEffect, ReconcileEffect, RunAgainEffect DEF StepOf, ClientStep

(* A step of Next is one of a process, or leaves the processes, the         *)
(* documents, the results and the locks.                                    *)
LEMMA StepCases ==
  ASSUME [Next]_vars, \A c \in Clients : ~StepOf(c)
  PROVE  UNCHANGED <<setting, doc, known, cache, identity, direct, reconciled, lock, changed, cl>>
  BY DEF Next, StepOf, Push, Edit, Reconfigure, Finished, vars, world, tyVars, sessionVars

-----------------------------------------------------------------------------
(* Analyses are apart *)

(* Without a run a process is done. *)
Sits == \A c \in Clients : RunsOf[c] = 0 => cl[c].pc = "done"

LockInv == KeepOpen => \A c \in Clients : cl[c].pc \in Holding => lock = c

AnalysisInv ==
  /\ Sits /\ LockInv
  /\ BaselineComparable
  /\ \A c \in Clients : cl[c].pc = "end" => doc[cl[c].file] = IF KeepOpen THEN cl[c].src ELSE NoText
  /\ Mortal = {} \/ ~KeepOpen => \A f \in Files : doc[f] = Rewritten \/ (~KeepOpen /\ doc[f] # NoText) =>
       \E c \in Clients : cl[c].pc \in InTransaction /\ cl[c].file = f
  /\ ~KeepOpen => \A k \in Files \X Keys : cache[k] = NoResult

LEMMA AnalysisInit == Init => AnalysisInv
  <1> SUFFICES ASSUME Init PROVE AnalysisInv
    OBVIOUS
  <1>1. \A c \in Clients : cl[c].pc = IF RunsOf[c] = 0 THEN "done" ELSE "next"
    BY DEF Init, NewClient
  <1>2. \A c \in Clients : cl[c].pc \notin Holding \cup {"rewrite", "finalize", "end"}
    BY <1>1 DEF Holding, InTransaction
  <1>3. Sits /\ LockInv /\ BaselineComparable
    BY <1>1, <1>2 DEF Sits, LockInv, BaselineComparable
  <1>4. \A f \in Files : doc[f] = NoText
    BY DEF Init
  <1>5. \A k \in Files \X Keys : cache[k] = NoResult
    BY DEF Init
  <1> QED BY <1>2, <1>3, <1>4, <1>5, Markers DEF AnalysisInv

(* While a process has the session, nobody else has it. *)
LEMMA Exclusive ==
  ASSUME TypeInv, Sits, LockInv, NEW c \in Clients, NEW d \in Clients,
         cl[c].pc \in Holding, cl[d].pc \in Holding \/ (~KeepOpen /\ cl[d].pc # "done")
  PROVE  c = d
  <1>1. CASE KeepOpen
    BY <1>1 DEF LockInv
  <1>2. CASE ~KeepOpen
    <2>1. PICK e \in Clients : \A x \in Clients \ {e} : RunsOf[x] = 0
      BY <1>2, SettingFacts DEF TypeInv
    <2> QED BY <1>2, <2>1 DEF Sits, Holding, InTransaction
  <1> QED BY <1>1, <1>2

LEMMA LockStep ==
  ASSUME TypeInv, Sits, LockInv, NEW c \in Clients, Effect(c)
  PROVE  Sits' /\ LockInv'
  <1>1. RunsOf' = RunsOf /\ KeepOpen' = KeepOpen
    BY SameSetting DEF Effect
  <1>2. Sits'
    <2>1. cl[c].pc = "done" /\ RunsOf[c] = 0 => FALSE
      BY Fields DEF Effect
    <2> QED BY <1>1, <2>1 DEF Sits, Effect
  <1>3. LockInv'
    <2> SUFFICES ASSUME KeepOpen, NEW d \in Clients, cl'[d].pc \in Holding PROVE lock' = d
      BY <1>1 DEF LockInv, Holding
    <2>1. Locks(c)
      BY DEF Effect
    <2>2. CASE d = c
      BY <2>1, <2>2 DEF Locks, LockInv
    <2>3. CASE d # c
      <3>1. cl[d].pc \in Holding /\ lock = d
        BY <2>3 DEF Effect, LockInv
      <3> QED BY <2>1, <2>3, <3>1, Markers DEF Locks, LockInv
    <2> QED BY <2>2, <2>3
  <1> QED BY <1>2, <1>3

LEMMA AnalysisStep == TypeInv /\ AnalysisInv /\ [Next]_vars => AnalysisInv'
  <1> SUFFICES ASSUME TypeInv, AnalysisInv, [Next]_vars PROVE AnalysisInv'
    OBVIOUS
  <1>1. CASE \A c \in Clients : ~StepOf(c)
    <2>1. UNCHANGED <<setting, doc, known, cache, lock, cl>>
      BY <1>1, StepCases
    <2>2. KeepOpen' = KeepOpen /\ Mortal' = Mortal /\ RunsOf' = RunsOf /\ Keys' = Keys
      BY <2>1, SameSetting
    <2> QED BY <2>1, <2>2 DEF AnalysisInv, Sits, LockInv, BaselineComparable, Seen, View
  <1>2. ASSUME NEW c \in Clients, StepOf(c) PROVE AnalysisInv'
    <2>1. Effect(c)
      BY <1>2, StepEffect
    <2>2. KeepOpen' = KeepOpen /\ Mortal' = Mortal /\ Keys' = Keys
      BY <2>1, SameSetting DEF Effect
    <2>3. Sits' /\ LockInv'
      BY <2>1, LockStep DEF AnalysisInv
    <2>4. \A d \in Clients : cl'[d].pc \in Holding /\ d # c => cl'[d] = cl[d] /\ cl[c].pc \notin Holding
      BY <2>1, Exclusive DEF Effect, AnalysisInv
    <2>5. \A d \in Clients : cl'[d].pc \in Holding /\ d # c => UNCHANGED <<doc, known>>
      <3> SUFFICES ASSUME NEW d \in Clients, cl'[d].pc \in Holding, d # c PROVE UNCHANGED <<doc, known>>
        OBVIOUS
      <3>1. cl[d].pc \in Holding /\ cl[c].pc \notin Holding /\ (~KeepOpen => cl[c].pc = "done")
        BY <2>4, Exclusive DEF AnalysisInv
      <3>2. KeepOpen \/ RunsOf[c] = 0
        <4>1. ~KeepOpen => \E e \in Clients : \A x \in Clients \ {e} : RunsOf[x] = 0
          BY SettingFacts DEF TypeInv
        <4> QED BY <3>1, <4>1 DEF AnalysisInv, Sits, Holding, InTransaction
      <3>3. KeepOpen
        BY <2>1, <3>1, <3>2, Fields DEF Effect
      <3> QED BY <2>1, <3>1, <3>3 DEF Effect, Analyses, Passes, Holding
    <2>6. BaselineComparable'
      <3> SUFFICES ASSUME NEW d \in Clients, cl'[d].pc \in {"rewrite", "finalize"}, cl'[d].base # NoResult
                   PROVE  cl'[d].base.seen = Seen(cl[d].file)'
        BY DEF BaselineComparable
      <3>1. cl'[d].pc \in InTransaction /\ cl'[d].pc \in Holding
        BY DEF InTransaction, Holding
      <3>2. CASE d # c
        <4>1. cl'[d] = cl[d] /\ UNCHANGED <<doc, known>>
          BY <2>4, <2>5, <3>1, <3>2
        <4> QED BY <4>1 DEF AnalysisInv, BaselineComparable, Seen, View
      <3>3. CASE d = c
        <4>1. Analyses(c)
          BY <2>1, <3>1, <3>3 DEF Effect, Passes
        <4>2. cl[c].file \in Files
          BY <4>1, Fields DEF Analyses, AtFile
        <4>3. Seen(cl[c].file)' = Seen(cl[c].file)
          BY <4>1, <4>2, Markers DEF Analyses, Seen, View
        <4>4. cl'[c].base.seen = Seen(cl[c].file)
          BY <3>3, <4>1 DEF Analyses, AnalysisInv, BaselineComparable
        <4> QED BY <3>3, <4>3, <4>4
      <3> QED BY <3>2, <3>3
    <2>7. \A d \in Clients : cl'[d].pc = "end" => doc'[cl'[d].file] = IF KeepOpen THEN cl'[d].src ELSE NoText
      <3> SUFFICES ASSUME NEW d \in Clients, cl'[d].pc = "end"
                   PROVE  doc'[cl'[d].file] = IF KeepOpen THEN cl'[d].src ELSE NoText
        OBVIOUS
      <3>1. cl'[d].pc \in InTransaction /\ cl'[d].pc \in Holding
        BY DEF InTransaction, Holding
      <3>2. CASE d # c
        <4>1. cl'[d] = cl[d] /\ UNCHANGED <<doc, known>>
          BY <2>4, <2>5, <3>1, <3>2
        <4> QED BY <4>1 DEF AnalysisInv
      <3>3. CASE d = c
        BY <2>1, <3>1, <3>3 DEF Effect, Passes, Analyses
      <3> QED BY <3>2, <3>3
    <2>8. ASSUME Mortal = {} \/ ~KeepOpen, NEW f \in Files, doc'[f] = Rewritten \/ (~KeepOpen /\ doc'[f] # NoText)
          PROVE  \E d \in Clients : cl'[d].pc \in InTransaction /\ cl'[d].file = f
      <3>1. CASE Analyses(c)
        <4>1. CASE f = cl[c].file
          BY <3>1, <4>1 DEF Analyses
        <4>2. CASE f # cl[c].file
          <5>1. doc'[f] = doc[f]
            BY <3>1, <4>2 DEF Analyses
          <5>2. PICK d \in Clients : cl[d].pc \in InTransaction /\ cl[d].file = f
            BY <2>8, <5>1 DEF AnalysisInv
          <5>3. cl'[d] = cl[d]
            BY <2>1, <4>2, <5>2 DEF Effect
          <5> QED BY <5>2, <5>3
        <4> QED BY <4>1, <4>2
      <3>2. CASE Passes(c)
        <4>1. PICK d \in Clients : cl[d].pc \in InTransaction /\ cl[d].file = f
          BY <2>8, <3>2 DEF AnalysisInv, Passes
        <4>2. d # c
          <5> SUFFICES ASSUME d = c PROVE FALSE
            OBVIOUS
          <5>1. cl[c].pc = "end"
            BY <2>8, <3>2, <4>1 DEF Passes
          <5>2. doc[f] = IF KeepOpen THEN cl[c].src ELSE NoText
            BY <4>1, <5>1 DEF AnalysisInv
          <5>3. cl[c].src \in Texts
            BY <4>1, Fields DEF AtFile
          <5> QED BY <2>8, <3>2, <5>2, <5>3, Markers DEF Passes
        <4> QED BY <2>1, <4>1, <4>2 DEF Effect
      <3> QED BY <2>1, <3>1, <3>2 DEF Effect
    <2>9. ~KeepOpen => \A k \in Files \X Keys : cache'[k] = NoResult
      BY <2>1 DEF Effect, AnalysisInv
    <2> QED BY <2>2, <2>3, <2>6, <2>7, <2>8, <2>9 DEF AnalysisInv
  <1> QED BY <1>1, <1>2

(* From the baseline to the last rewrite nobody changes what ty sees of the  *)
(* other files; the rewritten text is seen by nobody else once the analysis  *)
(* ended, and a private session keeps nothing: for any number of processes   *)
(* that share the daemon's session, whoever is lost, whatever fails          *)
(* (begin_analysis, finalize, end_analysis).                                 *)
THEOREM AnalysesAreApart == Spec => []AnalysesApart
  <1>1. TypeInv /\ AnalysisInv => AnalysesApart
    <2> SUFFICES ASSUME TypeInv, AnalysisInv PROVE AnalysesApart
      OBVIOUS
    <2>1. TypeOK
      BY DEF TypeInv, TypeOK, Records
    <2>2. DocsReal
      BY DEF AnalysisInv, DocsReal
    <2>3. ~KeepOpen => \A f \in Opens : \E c \in Clients : cl[c].pc \in InTransaction /\ cl[c].file = f
      BY DEF AnalysisInv, Opens
    <2>4. DOMAIN cache = Files \X Keys
      BY DEF TypeInv
    <2> QED BY <2>1, <2>2, <2>3, <2>4 DEF AnalysisInv, AnalysesApart, PrivateForgets
  <1> QED BY <1>1, TypeInit, TypeStep, AnalysisInit, AnalysisStep, PTL DEF Spec

-----------------------------------------------------------------------------
(* No change is forgotten *)

(* The inputs taken for a reconciliation are still the changed ones when it *)
(* speaks to ty.                                                            *)
TakenInv == \A c \in Clients : cl[c].pc = "notify" => KeepOpen /\ changed = Changed

(* What was recorded, and what a reconciliation took, changes only in the   *)
(* steps that say so.                                                       *)
LEMMA InputsKept ==
  ASSUME NEW c \in Clients, StepOf(c), cl[c].pc # "notify"
  PROVE  \/ Record(c)
         \/ UNCHANGED <<direct, reconciled>> /\ (changed' = changed \/ StartReconciling(c))
  BY DEF StepOf, ClientStep, Take, Lookup, BeginAnalysis, OpenBaseline, OpenProbe, OpenAgain, OpenRewrite,
         Finalize, EndAnalysis, Store, Record, NotifyChanged, StartReconciling, CollectDirty, LastFile,
         RunAgain, Abandon, sessionVars

(* A process reconciles only after it began to. *)
LEMMA NotifyFrom ==
  ASSUME TypeInv, NEW c \in Clients, StepOf(c), cl'[c].pc = "notify"
  PROVE  StartReconciling(c)
  <1>1. ~OpenBaseline(c) /\ ~OpenProbe(c) /\ ~OpenAgain(c) /\ ~OpenRewrite(c) /\ ~Finalize(c)
    <2> SUFFICES ASSUME OpenBaseline(c) \/ OpenProbe(c) \/ OpenAgain(c) \/ OpenRewrite(c) \/ Finalize(c)
                 PROVE  FALSE
      OBVIOUS
    <2>1. \/ Failed(c) \/ Goto(c, "probe") \/ Goto(c, "rebase") \/ Goto(c, "finalize") \/ Goto(c, "end")
          \/ \E pc \in {"rewrite", "finalize"} : cl' = [cl EXCEPT ![c].pc = pc, ![c].base = Base(c)]
      BY DEF OpenBaseline, OpenProbe, OpenAgain, OpenRewrite, Finalize, Base
    <2>2. cl[c].pc \in AtFile
      BY DEF OpenBaseline, OpenProbe, OpenAgain, OpenRewrite, Finalize, AtFile, InTransaction
    <2>3. ~Failed(c)
      BY FailedMoves DEF Moves
    <2>4. \A pc \in {"probe", "rebase", "finalize", "end"} : ~Goto(c, pc)
      BY GotoMoves DEF Moves, ClientPcs, InTransaction
    <2>5. \A pc \in {"rewrite", "finalize"} : cl' # [cl EXCEPT ![c].pc = pc, ![c].base = Base(c)]
      BY <2>2, BaseMoves DEF Moves
    <2> QED BY <2>1, <2>3, <2>4, <2>5
  <1>2. ~Take(c) /\ ~Lookup(c) /\ ~Store(c)
    BY TakeMoves, LookupMoves, StoreMoves DEF Moves
  <1>3. ~BeginAnalysis(c) /\ ~EndAnalysis(c) /\ ~Record(c) /\ ~LastFile(c)
    BY GotoMoves DEF BeginAnalysis, EndAnalysis, Record, LastFile, Moves, ClientPcs, InTransaction
  <1>4. ~NotifyChanged(c) /\ ~CollectDirty(c)
    <2>1. ~Goto(c, "collect")
      BY GotoMoves DEF Moves, ClientPcs
    <2>2. ASSUME NEW again \in SUBSET Files, RunEnds(c, again) PROVE FALSE
      <3>1. cl'[c].pc = IF again = {} THEN "done" ELSE "next"
        BY <2>2, RunEndsMoves DEF Moves
      <3> QED BY <3>1
    <2>3. ~NotifyChanged(c)
      BY <2>1, <2>2 DEF NotifyChanged
    <2>4. ~CollectDirty(c)
      BY <2>2 DEF CollectDirty, Opens
    <2> QED BY <2>3, <2>4
  <1>5. ~RunAgain(c) /\ ~Abandon(c)
    BY RunAgainMoves, AbandonMoves DEF Moves
  <1> QED BY <1>1, <1>2, <1>3, <1>4, <1>5 DEF StepOf, ClientStep

LEMMA TakenInit == Init => TakenInv
  <1> SUFFICES ASSUME Init, NEW c \in Clients PROVE cl[c].pc # "notify"
    BY DEF TakenInv
  <1>1. cl[c].pc = IF RunsOf[c] = 0 THEN "done" ELSE "next"
    BY DEF Init, NewClient
  <1> QED BY <1>1

LEMMA TakenStep == TypeInv /\ Sits /\ LockInv /\ TakenInv /\ [Next]_vars => TakenInv'
  <1> SUFFICES ASSUME TypeInv, Sits, LockInv, TakenInv, [Next]_vars PROVE TakenInv'
    OBVIOUS
  <1>1. CASE \A c \in Clients : ~StepOf(c)
    <2>1. UNCHANGED <<setting, changed, direct, reconciled, cl>>
      BY <1>1, StepCases
    <2> QED BY <2>1, SameSetting DEF TakenInv, Changed
  <1>2. ASSUME NEW c \in Clients, StepOf(c) PROVE TakenInv'
    <2>1. Effect(c)
      BY <1>2, StepEffect
    <2>2. KeepOpen' = KeepOpen
      BY <2>1, SameSetting DEF Effect
    <2> SUFFICES ASSUME NEW d \in Clients, cl'[d].pc = "notify" PROVE KeepOpen /\ changed' = Changed'
      BY <2>2 DEF TakenInv
    <2>3. CASE d = c
      <3>1. StartReconciling(c)
        BY <1>2, <2>3, NotifyFrom
      <3> QED BY <3>1 DEF StartReconciling, Changed
    <2>4. CASE d # c
      <3>1. cl[d].pc = "notify" /\ KeepOpen /\ lock = d
        BY <2>1, <2>4 DEF Effect, TakenInv, LockInv, Holding
      <3>2. cl[c].pc \notin Holding
        BY <2>4, <3>1, Exclusive DEF Holding
      <3>3. ~StartReconciling(c)
        BY <3>1, Markers DEF StartReconciling, Unlocked
      <3>4. CASE Record(c)
        BY <3>1, <3>4, Markers DEF Record, Unlocked, TakenInv, Changed
      <3>5. CASE ~Record(c)
        <4>1. UNCHANGED <<direct, reconciled, changed>>
          BY <1>2, <3>2, <3>3, <3>5, InputsKept DEF Holding
        <4> QED BY <3>1, <4>1 DEF TakenInv, Changed
      <3> QED BY <3>4, <3>5
    <2> QED BY <2>3, <2>4
  <1> QED BY <1>1, <1>2

(* Only a reconciliation forgets what was recorded. *)
LEMMA ForgetsNothing ==
  TypeInv /\ Sits /\ LockInv /\ TakenInv /\ [Next]_vars => ~ForgetsUntold
  <1> SUFFICES ASSUME TypeInv, Sits, LockInv, TakenInv, [Next]_vars,
                      NEW f \in Files, direct[f] # NoText, direct'[f] = NoText
               PROVE  reconciled'[f] = direct[f]
    BY DEF ForgetsUntold
  <1>1. PICK c \in Clients : StepOf(c)
    BY StepCases
  <1>2. cl[c].pc = "notify"
    <2> SUFFICES ASSUME cl[c].pc # "notify" PROVE FALSE
      OBVIOUS
    <2>1. Record(c)
      BY <1>1, InputsKept
    <2>2. cl[c].pc \in AtFile
      BY <2>1 DEF Record, AtFile
    <2>3. cl[c].src # NoText /\ cl[c].file \in Files
      BY <2>2, Fields, Markers
    <2> QED BY <2>1, <2>3 DEF Record, TypeInv
  <1>3. NotifyChanged(c)
    BY <1>1, <1>2 DEF StepOf, ClientStep, Take, Lookup, BeginAnalysis, OpenBaseline, OpenProbe, OpenAgain,
       OpenRewrite, Finalize, EndAnalysis, Store, Record, StartReconciling, CollectDirty, LastFile,
       RunAgain, Abandon
  <1>4. f \notin changed => reconciled[f] = direct[f]
    BY <1>2 DEF TakenInv, Changed
  <1> QED BY <1>3, <1>4 DEF NotifyChanged, Kept

(* A recorded input is forgotten only when ty was told of it, whoever        *)
(* recorded it, whoever reconciles it, and when telling ty fails             *)
(* (reconcile_direct_inputs).                                                *)
THEOREM ChangesAreKept == Spec => ChangeKept
  <1> DEFINE Inv == TypeInv /\ AnalysisInv /\ TakenInv
  <1>1. Init => Inv
    BY TypeInit, AnalysisInit, TakenInit
  <1>2. Inv /\ [Next]_vars => Inv'
    BY TypeStep, AnalysisStep, TakenStep DEF AnalysisInv
  <1>3. Inv /\ [Next]_vars => [~ForgetsUntold]_vars
    BY ForgetsNothing DEF AnalysisInv
  <1> QED BY <1>1, <1>2, <1>3, PTL DEF Spec, ChangeKept


-----------------------------------------------------------------------------
(* What a process that has the session for itself reports and keeps is what *)
(* ty would say, for any files, texts, dependencies and number of runs.     *)


-----------------------------------------------------------------------------
(* The inductive invariant *)

(* One process uses the session and is not killed, and ty answers. *)
Lone(c) == ~Flaky /\ Mortal = {} /\ \A d \in Clients \ {c} : RunsOf[d] = 0

(* The others rest from the beginning. *)
Others(c) == \A d \in Clients \ {c} : cl[d].pc = "done" /\ DOMAIN cl[d].report = {}

(* The text of a document once the analysis under way is over. *)
InHand(c, g) == cl[c].pc \in InTransaction /\ cl[c].file = g
Settled(c, g) == IF InHand(c, g) THEN cl[c].src ELSE View(g)

(* Where the process is in its run *)
PlaceInv(c) ==
  LET r == cl[c]
  IN  /\ Others(c)
      /\ r.todo \subseteq BatchOf[c]
      /\ r.pc \in AtFile =>
           /\ r.ok /\ r.file \in BatchOf[c] \ r.todo /\ r.src = disk[r.file]
           /\ r.pc # "record" => <<r.file, r.src>> \in WithCandidates
      /\ r.pc \in {"notify", "collect"} => ~r.derived /\ r.todo = {}
      /\ r.pc = "done" /\ r.derived => r.todo = {}

(* What is recorded is the file as it is, and nothing is recorded once it   *)
(* was taken.                                                               *)
InputInv(c) ==
  LET r == cl[c]
  IN  \A g \in Files : direct[g] # NoText =>
        /\ ~r.derived /\ r.pc \notin {"collect", "done"}
        /\ direct[g] = disk[g] /\ g \in BatchOf[c] \ r.todo
        /\ ~(r.pc \in AtFile /\ r.file = g)

(* A result belongs to an open document and to the text it has. *)
KeptInv(c) ==
  LET r == cl[c]
  IN  /\ \A f \in Files : doc[f] # NoText => f \in BatchOf[c]
      /\ \A f \in DOMAIN r.report : doc[f] # NoText
      /\ r.pc \in AtFile /\ r.base # NoResult => doc[r.file] # NoText /\ r.base.src = r.src
      /\ r.pc = "store" => doc[r.file] = r.src
      /\ \A f \in Files, k \in Keys : cache[<<f, k>>] # NoResult =>
           /\ k = KeyOf[c] /\ doc[f] # NoText
           /\ ~(r.file = f /\ r.pc \in InTransaction \cup {"store"}) => doc[f] = cache[<<f, k>>].src

(* The configuration of a result is not older than the one the cache is for. *)
ContextInv(c) ==
  /\ identity <= context
  /\ cl[c].pc \in AtFile /\ cl[c].base # NoResult => identity <= cl[c].base.ctx /\ cl[c].base.ctx <= context
  /\ \A f \in Files, k \in Keys : cache[<<f, k>>] # NoResult =>
       identity <= cache[<<f, k>>].ctx /\ cache[<<f, k>>].ctx <= context

(* ty is still to be told of g, or will have to be once it is recorded. *)
Told(g) == direct[g] # NoText /\ direct[g] # reconciled[g]
Recording(c, g) == /\ ~cl[c].derived /\ cl[c].file = g
                   /\ cl[c].pc \in InTransaction \cup {"store", "record"}
Due(c, g) == Told(g) \/ (Recording(c, g) /\ cl[c].src # reconciled[g])

(* What ty was last told of a file is what it sees, or it will be told.     *)
TextInv(c) ==
  LET r == cl[c]
  IN  /\ \A g \in Files : reconciled[g] # NoText /\ <<g, reconciled[g]>> \in WithCandidates =>
           Settled(c, g) = reconciled[g] \/ Told(g) \/ Recording(c, g)
      /\ \A g \in BatchOf[c] : <<g, disk[g]>> \in WithCandidates /\ r.pc # "done" =>
           \/ Settled(c, g) = disk[g]
           \/ ~r.derived /\ (g \in r.todo \/ (r.file = g /\ r.pc \in {"lookup", "begin"}))

(* A result of f is what ty would say, or f will be looked at again. *)
Fresh(c, f, res) == \A g \in Deps[f] : res.seen[g] = Settled(c, g) \/ Due(c, g)
StaysFresh(c, f, res) == \A g \in Deps[f] : res.seen[g] = Settled(c, g)' \/ Due(c, g)'
Awaited(c, f) == cl[c].pc = "collect" /\ f \in coming \cup dirty
CheckedAgain(c, f) == cl[c].derived /\ (f \in cl[c].todo \/ (cl[c].file = f /\ cl[c].pc \in AtFile \ {"record"}))

FreshInv(c) ==
  LET r == cl[c]
  IN  /\ \A f \in Files, k \in Keys : cache[<<f, k>>] # NoResult =>
           Fresh(c, f, cache[<<f, k>>]) \/ Awaited(c, f)
      /\ \A f \in DOMAIN r.report : Fresh(c, f, r.report[f]) \/ Awaited(c, f) \/ CheckedAgain(c, f)
      /\ r.pc \in AtFile /\ r.base # NoResult => \A g \in Deps[r.file] : r.base.seen[g] = Settled(c, g)

SharedInv(c) == PlaceInv(c) /\ InputInv(c) /\ KeptInv(c) /\ ContextInv(c) /\ TextInv(c) /\ FreshInv(c)

(* A private session sees the files as they were when its process began. *)
PrivateInv(c) ==
  LET r == cl[c]
  IN  /\ Others(c) /\ r.pc \notin {"notify", "collect"}
      /\ \A f \in DOMAIN r.report : \A g \in Deps[f] : r.report[f].seen[g] = known[g]
      /\ r.pc \in AtFile /\ r.base # NoResult => \A g \in Deps[r.file] : r.base.seen[g] = known[g]

LoneInv(c) == Lone(c) => IF KeepOpen THEN SharedInv(c) ELSE PrivateInv(c)

-----------------------------------------------------------------------------
(* A step inside of an analysis *)

(* Nothing but its document, its place and its result changes, and the      *)
(* result is one of the text as it is.                                      *)
Edits(c) ==
  LET r == cl[c]
      s == cl'[c]
  IN  /\ UNCHANGED <<setting, disk, context, known, dirty, cache, identity, direct, reconciled>>
      /\ \A d \in Clients \ {c} : cl'[d] = cl[d]
      /\ r.pc \in InTransaction /\ s.pc \in InTransaction /\ (s.pc = "end" => doc'[r.file] = r.src)
      /\ s.todo = r.todo /\ s.file = r.file /\ s.src = r.src /\ s.ok = r.ok
      /\ s.derived = r.derived /\ s.report = r.report
      /\ doc'[r.file] # NoText /\ \A g \in Files \ {r.file} : doc'[g] = doc[g]
      /\ s.base = r.base \/ s.base = Base(c)

LEMMA LoneFacts ==
  ASSUME TypeInv, NEW c \in Clients, Lone(c)
  PROVE  /\ ~Failed(c) /\ ~Abandon(c) /\ BatchOf[c] \subseteq Files
         /\ KeyOf[c] \in Keys /\ \A d \in Clients \ {c} : RunsOf[d] = 0
  BY SettingFacts DEF TypeInv, Lone, Failed, Abandon, Keys

LEMMA EditsOf ==
  ASSUME TypeInv, NEW c \in Clients, Lone(c), KeepOpen,
         OpenBaseline(c) \/ OpenProbe(c) \/ OpenAgain(c) \/ OpenRewrite(c) \/ Finalize(c)
  PROVE  Edits(c)
  <1>1. /\ cl[c].pc \in InTransaction /\ cl[c].pc \in AtFile
        /\ cl[c].file \in Files /\ cl[c].src \in Texts /\ doc \in [Files -> DocTexts]
    BY Fields DEF OpenBaseline, OpenProbe, OpenAgain, OpenRewrite, Finalize, AtFile, InTransaction, TypeInv
  <1>2. ~Failed(c)
    BY LoneFacts
  <1>3. UNCHANGED <<setting, disk, context, known, dirty, cache, identity, direct, reconciled>>
    BY DEF OpenBaseline, OpenProbe, OpenAgain, OpenRewrite, Finalize, world, sessionVars, Update
  <1>4. \E t \in {cl[c].src, Rewritten} :
          doc' = [doc EXCEPT ![cl[c].file] = t] /\ (cl[c].pc = "finalize" => t = cl[c].src)
    BY DEF OpenBaseline, OpenProbe, OpenAgain, OpenRewrite, Finalize, Update
  <1>5. /\ doc'[cl[c].file] # NoText /\ \A g \in Files \ {cl[c].file} : doc'[g] = doc[g]
        /\ cl[c].pc = "finalize" => doc'[cl[c].file] = cl[c].src
    BY <1>1, <1>4, Markers
  <1> DEFINE Stays(s) == s.todo = cl[c].todo /\ s.file = cl[c].file /\ s.src = cl[c].src /\ s.ok = cl[c].ok
                         /\ s.derived = cl[c].derived /\ s.report = cl[c].report
             Moved == /\ \A d \in Clients \ {c} : cl'[d] = cl[d]
                      /\ cl'[c].pc \in InTransaction /\ (cl'[c].pc = "end" => cl[c].pc = "finalize")
                      /\ Stays(cl'[c]) /\ (cl'[c].base = cl[c].base \/ cl'[c].base = Base(c))
  <1>6. ASSUME NEW pc \in {"probe", "rebase", "finalize", "end"}, Goto(c, pc), pc = "end" => cl[c].pc = "finalize"
        PROVE  Moved
    BY <1>6, GotoMoves DEF Moves, ClientPcs, InTransaction
  <1>7. ASSUME NEW pc \in {"rewrite", "finalize"}, cl' = [cl EXCEPT ![c].pc = pc, ![c].base = Base(c)]
        PROVE  Moved
    BY <1>1, <1>7, BaseMoves DEF Moves, InTransaction
  <1> HIDE DEF Moved
  <1>8. Moved
    <2>1. CASE OpenBaseline(c)
      BY <1>2, <1>6, <1>7, <2>1 DEF OpenBaseline, Base
    <2>2. CASE OpenProbe(c)
      BY <1>2, <1>6, <2>2 DEF OpenProbe
    <2>3. CASE OpenAgain(c)
      BY <1>2, <1>7, <2>3 DEF OpenAgain, Base
    <2>4. CASE OpenRewrite(c)
      BY <1>2, <1>6, <2>4 DEF OpenRewrite
    <2>5. CASE Finalize(c)
      BY <1>6, <2>5 DEF Finalize
    <2> QED BY <2>1, <2>2, <2>3, <2>4, <2>5
  <1> QED BY <1>1, <1>3, <1>5, <1>8 DEF Edits, Moved

(* The places are the same, and so is what belongs to them. *)
LEMMA EditsSettled ==
  ASSUME NEW c \in Clients, Edits(c)
  PROVE  \A g \in Files : /\ Settled(c, g)' = Settled(c, g) /\ (InHand(c, g)' <=> InHand(c, g))
                          /\ (Recording(c, g)' <=> Recording(c, g))
  BY DEF Edits, Settled, InHand, Recording, View

LEMMA EditsPlace ==
  ASSUME TypeInv, NEW c \in Clients, Edits(c), PlaceInv(c)
  PROVE  PlaceInv(c)'
  <1>1. BatchOf' = BatchOf /\ WithCandidates' = WithCandidates
    BY SameSetting DEF Edits
  <1> QED BY <1>1 DEF Edits, PlaceInv, Others, AtFile, InTransaction

LEMMA EditsInput ==
  ASSUME TypeInv, NEW c \in Clients, Edits(c), InputInv(c)
  PROVE  InputInv(c)'
  <1>1. BatchOf' = BatchOf
    BY SameSetting DEF Edits
  <1>2. cl'[c].pc \in AtFile /\ cl'[c].pc \notin {"collect", "done"}
    BY DEF Edits, AtFile, InTransaction
  <1>3. cl[c].pc \in AtFile
    BY DEF Edits, AtFile
  <1> QED BY <1>1, <1>2, <1>3 DEF Edits, InputInv

LEMMA EditsKept ==
  ASSUME TypeInv, NEW c \in Clients, Edits(c), PlaceInv(c), KeptInv(c)
  PROVE  KeptInv(c)'
  <1>1. BatchOf' = BatchOf /\ Keys' = Keys /\ KeyOf' = KeyOf
    BY SameSetting DEF Edits
  <1>2. cl[c].pc \in AtFile /\ cl[c].file \in BatchOf[c] /\ cl'[c].pc # "store"
    BY DEF Edits, AtFile, InTransaction, PlaceInv
  <1>3. \A f \in Files : doc[f] # NoText => doc'[f] # NoText
    BY DEF Edits
  <1>4. \A f \in Files : doc'[f] # NoText => f \in BatchOf[c]
    BY <1>2 DEF Edits, KeptInv
  <1>5. \A f \in DOMAIN cl'[c].report : doc'[f] # NoText
    BY <1>3 DEF Edits, KeptInv, TypeInv, ClientType
  <1>6. cl'[c].base # NoResult => doc'[cl'[c].file] # NoText /\ cl'[c].base.src = cl'[c].src
    BY <1>2 DEF Edits, KeptInv, Base
  <1>7. \A f \in Files, k \in Keys : cache'[<<f, k>>] # NoResult =>
           /\ k = KeyOf[c] /\ doc'[f] # NoText
           /\ ~(cl'[c].file = f /\ cl'[c].pc \in InTransaction \cup {"store"}) => doc'[f] = cache'[<<f, k>>].src
    BY <1>3 DEF Edits, KeptInv
  <1> QED BY <1>1, <1>2, <1>4, <1>5, <1>6, <1>7 DEF KeptInv

LEMMA EditsContext ==
  ASSUME TypeInv, NEW c \in Clients, Edits(c), ContextInv(c)
  PROVE  ContextInv(c)'
  <1>1. Keys' = Keys
    BY SameSetting DEF Edits
  <1>2. cl[c].pc \in AtFile
    BY DEF Edits, AtFile
  <1>3. Base(c).ctx = context /\ context \in Nat /\ identity \in Nat
    BY SettingFacts DEF Base, TypeInv
  <1>4. cl'[c].base # NoResult => identity <= cl'[c].base.ctx /\ cl'[c].base.ctx <= context
    BY <1>2, <1>3 DEF Edits, ContextInv
  <1> QED BY <1>1, <1>4 DEF Edits, ContextInv

LEMMA EditsText ==
  ASSUME TypeInv, NEW c \in Clients, Edits(c), PlaceInv(c), TextInv(c)
  PROVE  TextInv(c)'
  <1>1. BatchOf' = BatchOf /\ WithCandidates' = WithCandidates
    BY SameSetting DEF Edits
  <1>2. BatchOf[c] \subseteq Files
    BY SettingFacts DEF TypeInv
  <1>3. /\ cl'[c].pc \in InTransaction /\ cl[c].pc \in InTransaction /\ cl'[c].derived = cl[c].derived
        /\ cl'[c].todo = cl[c].todo /\ UNCHANGED <<disk, direct, reconciled>>
    BY DEF Edits
  <1>4. cl[c].pc \notin {"done", "lookup", "begin"} /\ cl'[c].pc \notin {"done", "lookup", "begin"}
    BY <1>3 DEF InTransaction
  <1> QED BY <1>1, <1>2, <1>3, <1>4, EditsSettled DEF TextInv, Told

LEMMA EditsFresh ==
  ASSUME TypeInv, NEW c \in Clients, Edits(c), PlaceInv(c), FreshInv(c)
  PROVE  FreshInv(c)'
  <1>1. Keys' = Keys /\ cl[c].pc \in AtFile /\ cl[c].file \in Files
    BY SameSetting, Fields DEF Edits, AtFile
  <1>2. \A g \in Files : Due(c, g)' <=> Due(c, g)
    BY EditsSettled DEF Edits, Due, Told
  <1>3. \A f \in Files : \A res : Fresh(c, f, res) => StaysFresh(c, f, res)
    BY <1>2, EditsSettled, Markers DEF Fresh, StaysFresh
  <1>4. ~Awaited(c, cl[c].file) /\ \A f \in Files : ~Awaited(c, f)
    BY DEF Awaited, Edits, InTransaction
  <1>5. \A f \in Files : CheckedAgain(c, f) => CheckedAgain(c, f)'
    BY DEF CheckedAgain, Edits, AtFile, InTransaction
  <1>6. \A f \in Files, k \in Keys : cache'[<<f, k>>] # NoResult => Fresh(c, f, cache[<<f, k>>])'
    BY <1>3, <1>4 DEF FreshInv, Edits, Fresh, StaysFresh
  <1>7. \A f \in DOMAIN cl'[c].report : Fresh(c, f, cl[c].report[f])' \/ CheckedAgain(c, f)'
    BY <1>3, <1>4, <1>5 DEF FreshInv, Edits, Fresh, StaysFresh, TypeInv, ClientType
  <1>8. cl'[c].base # NoResult => \A g \in Deps[cl[c].file] : cl'[c].base.seen[g] = Settled(c, g)'
    <2>1. CASE cl'[c].base = cl[c].base
      BY <1>1, <2>1, EditsSettled, Markers DEF FreshInv
    <2>2. CASE cl'[c].base = Base(c)
      <3>1. \A g \in Deps[cl[c].file] : g \in Files \ {cl[c].file} /\ Base(c).seen[g] = View(g)
        BY <1>1, Markers DEF Base, Seen
      <3>2. \A g \in Files \ {cl[c].file} : Settled(c, g) = View(g)
        BY DEF Settled, InHand
      <3> QED BY <2>2, <3>1, <3>2, EditsSettled
    <2> QED BY <2>1, <2>2 DEF Edits
  <1>9. cl'[c].file = cl[c].file
    BY DEF Edits
  <1> QED BY <1>1, <1>6, <1>7, <1>8, <1>9 DEF FreshInv, Fresh, StaysFresh

LEMMA EditsShared ==
  ASSUME TypeInv, NEW c \in Clients, Edits(c), SharedInv(c)
  PROVE  SharedInv(c)'
  BY EditsPlace, EditsInput, EditsKept, EditsContext, EditsText, EditsFresh DEF SharedInv

-----------------------------------------------------------------------------
(* The other steps of a file *)

(* The process goes from one place to another and nothing else changes but  *)
(* its lock.                                                                *)
Goes(c, pc) ==
  LET r == cl[c]
      s == cl'[c]
  IN  /\ UNCHANGED <<setting, disk, context, doc, known, cache, identity, reconciled>>
      /\ \A d \in Clients \ {c} : cl'[d] = cl[d]
      /\ s.pc = pc /\ s.todo = r.todo /\ s.file = r.file /\ s.src = r.src /\ s.base = r.base
      /\ s.ok = r.ok /\ s.derived = r.derived /\ s.report = r.report

LEMMA GoesTo ==
  ASSUME TypeInv, NEW c \in Clients, NEW pc \in ClientPcs, Goto(c, pc),
         UNCHANGED <<setting, disk, context, doc, known, cache, identity, reconciled>>
  PROVE  Goes(c, pc)
  BY GotoMoves DEF Moves, Goes

LEMMA BeginShared ==
  ASSUME TypeInv, NEW c \in Clients, KeepOpen, SharedInv(c), BeginAnalysis(c)
  PROVE  SharedInv(c)'
  <1>1. /\ Goes(c, "baseline") /\ cl[c].pc = "begin" /\ direct' = direct /\ cl[c].pc \in AtFile
        /\ cl[c].base = NoResult /\ cl'[c].base = NoResult
        /\ cl'[c].pc = "baseline" /\ "baseline" \in AtFile \cap InTransaction
    <2>1. Goes(c, "baseline") /\ cl[c].pc = "begin" /\ direct' = direct
      BY GoesTo DEF BeginAnalysis, world, tyVars, sessionVars, ClientPcs, InTransaction
    <2>2. cl[c].base = NoResult
      BY <2>1 DEF TypeInv, ClientType, BeforeBase
    <2> QED BY <2>1, <2>2 DEF Goes, AtFile, InTransaction
  <1>2. BatchOf' = BatchOf /\ WithCandidates' = WithCandidates /\ Keys' = Keys /\ KeyOf' = KeyOf
    BY <1>1, SameSetting DEF Goes
  <1>3. /\ cl[c].file \in Files /\ cl[c].file \in BatchOf[c] /\ cl[c].src = disk[cl[c].file]
        /\ <<cl[c].file, disk[cl[c].file]>> \in WithCandidates /\ cl[c].src \in Texts
    BY <1>1, Fields DEF SharedInv, PlaceInv
  <1>4. PlaceInv(c)'
    BY <1>1, <1>2, <1>3 DEF SharedInv, PlaceInv, Goes, Others
  <1>5. InputInv(c)'
    BY <1>1, <1>2 DEF SharedInv, InputInv, Goes
  <1>6. KeptInv(c)'
    BY <1>1, <1>2 DEF SharedInv, KeptInv, Goes
  <1>7. ContextInv(c)'
    BY <1>1, <1>2 DEF SharedInv, ContextInv, Goes
  <1>8. Told(cl[c].file) = FALSE /\ \A g \in Files : Told(g)' <=> Told(g)
    BY <1>1, <1>3 DEF SharedInv, InputInv, Told, Goes
  <1>9. \A g \in Files : ~Recording(c, g) /\ (Recording(c, g)' <=> ~cl[c].derived /\ g = cl[c].file)
    BY <1>1 DEF Recording, Goes, InTransaction
  <1>10. \A g \in Files : Settled(c, g)' = IF g = cl[c].file THEN cl[c].src ELSE Settled(c, g)
    BY <1>1 DEF Settled, InHand, View, Goes, InTransaction
  <1>11. \/ Settled(c, cl[c].file) = cl[c].src
         \/ ~cl[c].derived /\ cl[c].src # reconciled[cl[c].file]
    <2>1. CASE cl[c].derived
      BY <1>1, <1>3, <2>1 DEF SharedInv, TextInv
    <2>2. CASE ~cl[c].derived /\ cl[c].src = reconciled[cl[c].file]
      <3>1. reconciled[cl[c].file] # NoText
        BY <1>3, <2>2, Markers
      <3> QED BY <1>3, <1>8, <1>9, <2>2, <3>1 DEF SharedInv, TextInv
    <2> QED BY <2>1, <2>2
  <1>12. TextInv(c)'
    <2>1. ASSUME NEW g \in Files, reconciled[g] # NoText, <<g, reconciled[g]>> \in WithCandidates
          PROVE  Settled(c, g)' = reconciled[g] \/ Told(g)' \/ Recording(c, g)'
      BY <1>8, <1>9, <1>10, <1>11, <2>1 DEF SharedInv, TextInv
    <2>2. ASSUME NEW g \in BatchOf[c], <<g, disk[g]>> \in WithCandidates
          PROVE  Settled(c, g)' = disk[g] \/ (~cl[c].derived /\ g \in cl[c].todo)
      <3>1. g \in Files
        BY SettingFacts DEF TypeInv
      <3> QED BY <1>1, <1>3, <1>10, <2>2, <3>1 DEF SharedInv, TextInv
    <2> QED BY <1>1, <1>2, <2>1, <2>2 DEF TextInv, Goes
  <1>13. \A f \in Files : \A res : Fresh(c, f, res) => StaysFresh(c, f, res)
    <2>1. \A g \in Files : Settled(c, g)' = Settled(c, g) \/ Due(c, g)'
      BY <1>1, <1>9, <1>10, <1>11 DEF Due, Goes
    <2>2. \A g \in Files : Due(c, g) => Due(c, g)'
      BY <1>8, <1>9 DEF Due
    <2> QED BY <2>1, <2>2, Markers DEF Fresh, StaysFresh
  <1>14. \A f \in Files : ~Awaited(c, f) /\ (CheckedAgain(c, f) => CheckedAgain(c, f)')
    BY <1>1 DEF Awaited, CheckedAgain, Goes
  <1>15. FreshInv(c)'
    <2>1. \A f \in Files, k \in Keys : cache[<<f, k>>] # NoResult => Fresh(c, f, cache[<<f, k>>])
      BY <1>14 DEF SharedInv, FreshInv
    <2>2. \A f \in DOMAIN cl[c].report : f \in Files /\ (Fresh(c, f, cl[c].report[f]) \/ CheckedAgain(c, f))
      BY <1>14 DEF SharedInv, FreshInv, TypeInv, ClientType
    <2> QED BY <1>1, <1>2, <1>13, <1>14, <2>1, <2>2 DEF FreshInv, Fresh, StaysFresh, Goes
  <1> QED BY <1>4, <1>5, <1>6, <1>7, <1>12, <1>15 DEF SharedInv

LEMMA EndShared ==
  ASSUME TypeInv, AnalysisInv, NEW c \in Clients, KeepOpen, SharedInv(c), EndAnalysis(c)
  PROVE  SharedInv(c)'
  <1>1. /\ Goes(c, "store") /\ cl[c].pc = "end" /\ direct' = direct /\ cl[c].pc \in AtFile
        /\ cl[c].pc \in InTransaction /\ cl'[c].pc = "store" /\ "store" \in AtFile /\ "store" \notin InTransaction
    <2>1. cl[c].pc = "end" /\ cl[c].ok
      BY DEF EndAnalysis, SharedInv, PlaceInv, AtFile, InTransaction
    <2>2. Goes(c, "store")
      BY <2>1, GoesTo DEF EndAnalysis, world, tyVars, sessionVars, ClientPcs
    <2> QED BY <2>1, <2>2 DEF EndAnalysis, sessionVars, Goes, AtFile, InTransaction
  <1>2. BatchOf' = BatchOf /\ WithCandidates' = WithCandidates /\ Keys' = Keys /\ KeyOf' = KeyOf
    BY <1>1, SameSetting DEF Goes
  <1>3. cl[c].file \in Files /\ cl[c].src \in Texts /\ doc[cl[c].file] = cl[c].src /\ cl[c].src # NoText
    BY <1>1, Fields, Markers DEF AnalysisInv
  <1>4. PlaceInv(c)'
    BY <1>1, <1>2, <1>3 DEF SharedInv, PlaceInv, Goes, Others
  <1>5. InputInv(c)'
    BY <1>1, <1>2 DEF SharedInv, InputInv, Goes
  <1>6. KeptInv(c)'
    BY <1>1, <1>2, <1>3 DEF SharedInv, KeptInv, Goes
  <1>7. ContextInv(c)'
    BY <1>1, <1>2 DEF SharedInv, ContextInv, Goes
  <1>8. \A g \in Files : /\ Settled(c, g)' = Settled(c, g) /\ (Told(g)' <=> Told(g))
                         /\ (Recording(c, g)' <=> Recording(c, g))
    BY <1>1, <1>3 DEF Settled, InHand, View, Goes, Told, Recording
  <1>9. TextInv(c)'
    <2>1. BatchOf[c] \subseteq Files
      BY SettingFacts DEF TypeInv
    <2> QED BY <1>1, <1>2, <1>8, <2>1 DEF SharedInv, TextInv, Goes
  <1>10. \A f \in Files : \A res : Fresh(c, f, res) => StaysFresh(c, f, res)
    <2>1. \A g \in Files : Due(c, g) <=> Due(c, g)'
      BY <1>1, <1>8 DEF Due, Goes
    <2> QED BY <1>8, <2>1, Markers DEF Fresh, StaysFresh
  <1>11. \A f \in Files : ~Awaited(c, f) /\ (CheckedAgain(c, f) => CheckedAgain(c, f)')
    BY <1>1 DEF Awaited, CheckedAgain, Goes
  <1>12. FreshInv(c)'
    <2>1. \A f \in Files, k \in Keys : cache[<<f, k>>] # NoResult => Fresh(c, f, cache[<<f, k>>])
      BY <1>11 DEF SharedInv, FreshInv
    <2>2. \A f \in DOMAIN cl[c].report : f \in Files /\ (Fresh(c, f, cl[c].report[f]) \/ CheckedAgain(c, f))
      BY <1>11 DEF SharedInv, FreshInv, TypeInv, ClientType
    <2>3. \A g \in Deps[cl[c].file] : cl[c].base # NoResult => cl[c].base.seen[g] = Settled(c, g)'
      BY <1>1, <1>3, <1>8, Markers DEF SharedInv, FreshInv
    <2> QED BY <1>1, <1>2, <1>10, <1>11, <2>1, <2>2, <2>3 DEF FreshInv, Fresh, StaysFresh, Goes
  <1> QED BY <1>4, <1>5, <1>6, <1>7, <1>9, <1>12 DEF SharedInv

LEMMA TakeShared ==
  ASSUME TypeInv, NEW c \in Clients, KeepOpen, SharedInv(c), Take(c)
  PROVE  SharedInv(c)'
  <1> DEFINE r == cl[c]
             s == cl'[c]
  <1>1. PICK f \in r.todo :
          LET asked == <<f, disk[f]>> \in WithCandidates
          IN  Moves(c, IF asked THEN "lookup" ELSE "record", r.todo \ {f}, f, disk[f], NoResult,
                    TRUE, r.derived, r.runs,
                    IF asked THEN r.report ELSE [g \in DOMAIN r.report \ {f} |-> r.report[g]])
    BY TakeMoves
  <1>2. /\ UNCHANGED <<setting, disk, context, doc, known, cache, identity, direct, reconciled>>
        /\ r.pc = "next" /\ "next" \notin AtFile /\ "next" \notin InTransaction
    BY DEF Take, world, tyVars, sessionVars, AtFile, InTransaction
  <1>3. BatchOf' = BatchOf /\ WithCandidates' = WithCandidates /\ Keys' = Keys /\ KeyOf' = KeyOf
    BY <1>2, SameSetting
  <1>4. /\ s.pc \in {"lookup", "record"} /\ s.todo = r.todo \ {f} /\ s.file = f /\ s.src = disk[f]
        /\ s.base = NoResult /\ s.ok = TRUE /\ s.derived = r.derived
        /\ s.pc = "lookup" <=> <<f, disk[f]>> \in WithCandidates
        /\ \A d \in Clients \ {c} : cl'[d] = cl[d]
        /\ s.pc \in AtFile /\ s.pc \notin InTransaction
    BY <1>1 DEF Moves, AtFile, InTransaction
  <1>5. \A g \in DOMAIN s.report : g \in DOMAIN r.report /\ s.report[g] = r.report[g]
                                  /\ (s.pc = "record" => g # f)
    <2>1. CASE <<f, disk[f]>> \in WithCandidates
      BY <1>1, <1>4, <2>1 DEF Moves
    <2>2. CASE <<f, disk[f]>> \notin WithCandidates
      BY <1>1, <2>2 DEF Moves
    <2> QED BY <2>1, <2>2
  <1>6. f \in Files /\ r.todo \subseteq BatchOf[c] /\ BatchOf[c] \subseteq Files
    BY Fields, SettingFacts DEF SharedInv, PlaceInv, TypeInv
  <1> HIDE DEF s
  <1>7. PlaceInv(c)'
    BY <1>2, <1>3, <1>4, <1>6 DEF SharedInv, PlaceInv, Others, s
  <1>8. InputInv(c)'
    BY <1>2, <1>3, <1>4, <1>6 DEF SharedInv, InputInv, s
  <1>9. KeptInv(c)'
    BY <1>2, <1>3, <1>4, <1>5 DEF SharedInv, KeptInv, s, InTransaction
  <1>10. ContextInv(c)'
    BY <1>2, <1>3, <1>4 DEF SharedInv, ContextInv, s
  <1>11. \A g \in Files : /\ Settled(c, g)' = Settled(c, g) /\ (Told(g)' <=> Told(g)) /\ ~Recording(c, g)
    BY <1>2, <1>4 DEF Settled, InHand, View, Told, Recording, s
  <1>12. TextInv(c)'
    BY <1>2, <1>3, <1>4, <1>6, <1>11 DEF SharedInv, TextInv, s
  <1>13. \A g \in Files : \A res : Fresh(c, g, res) => StaysFresh(c, g, res)
    BY <1>11, Markers DEF Fresh, StaysFresh, Due
  <1>14. /\ \A g \in Files : ~Awaited(c, g)
         /\ \A g \in Files : CheckedAgain(c, g) => CheckedAgain(c, g)' \/ (g = f /\ s.pc = "record")
    BY <1>2, <1>4 DEF Awaited, CheckedAgain, s
  <1>15. FreshInv(c)'
    <2>1. \A g \in Files, k \in Keys : cache[<<g, k>>] # NoResult => Fresh(c, g, cache[<<g, k>>])
      BY <1>14 DEF SharedInv, FreshInv
    <2>2. \A g \in DOMAIN r.report : g \in Files /\ (Fresh(c, g, r.report[g]) \/ CheckedAgain(c, g))
      BY <1>14 DEF SharedInv, FreshInv, TypeInv, ClientType
    <2>3. \A g \in DOMAIN s.report : StaysFresh(c, g, s.report[g]) \/ CheckedAgain(c, g)'
      BY <1>5, <1>13, <1>14, <2>2 DEF s
    <2> QED BY <1>2, <1>3, <1>4, <1>13, <2>1, <2>3 DEF FreshInv, Fresh, StaysFresh, s
  <1> QED BY <1>7, <1>8, <1>9, <1>10, <1>12, <1>15 DEF SharedInv

LEMMA LookupShared ==
  ASSUME TypeInv, NEW c \in Clients, KeepOpen, SharedInv(c), Lookup(c)
  PROVE  SharedInv(c)'
  <1> DEFINE r     == cl[c]
             s     == cl'[c]
             f     == cl[c].file
             entry == cache[<<r.file, KeyOf[c]>>]
             hit   == KeepOpen /\ context = identity /\ entry # NoResult /\ entry.src = r.src
  <1>1. /\ hit => entry \in ResultsOf(r.file)
        /\ Moves(c, IF hit THEN "record" ELSE "begin", r.todo, r.file, r.src, r.base, r.ok, r.derived,
                 r.runs, IF hit THEN Reported(c, entry) ELSE r.report)
    BY LookupMoves
  <1>2. /\ UNCHANGED <<setting, disk, context, doc, known, direct, reconciled>> /\ r.pc = "lookup"
        /\ UNCHANGED <<cache, identity>> \/ (~hit /\ identity' = context /\ cache' = [k \in DOMAIN cache |-> NoResult])
    BY DEF Lookup, world, tyVars
  <1>3. r.pc \in AtFile /\ r.pc \notin InTransaction \cup {"record", "store", "collect"} /\ r.base = NoResult
    BY <1>2 DEF AtFile, InTransaction, TypeInv, ClientType, BeforeBase
  <1>4. BatchOf' = BatchOf /\ WithCandidates' = WithCandidates /\ Keys' = Keys /\ KeyOf' = KeyOf
    BY <1>2, SameSetting
  <1>5. /\ s.pc \in {"begin", "record"} /\ s.todo = r.todo /\ s.file = f /\ s.src = r.src
        /\ s.base = NoResult /\ s.ok = r.ok /\ s.derived = r.derived /\ (s.pc = "record" <=> hit)
        /\ \A d \in Clients \ {c} : cl'[d] = cl[d]
        /\ s.pc \in AtFile /\ s.pc \notin InTransaction \cup {"store"}
    BY <1>1, <1>3 DEF Moves, AtFile, InTransaction
  <1>6. \A g \in DOMAIN s.report :
          \/ g \in DOMAIN r.report /\ s.report[g] = r.report[g] /\ (hit => g # f)
          \/ hit /\ g = f /\ s.report[g] = entry
    <2>1. s.report = IF hit THEN Reported(c, entry) ELSE r.report
      BY <1>1 DEF Moves
    <2>2. CASE hit
      <3>1. s.report = Reported(c, entry)
        BY <2>1, <2>2
      <3> HIDE DEF entry, s
      <3>2. /\ DOMAIN s.report = DOMAIN r.report \cup {f}
            /\ \A g \in DOMAIN s.report : s.report[g] = IF g = f THEN entry ELSE r.report[g]
        BY <3>1 DEF Reported
      <3> HIDE DEF hit
      <3> QED BY <2>2, <3>2
    <2>3. CASE ~hit
      <3>1. s.report = r.report
        BY <2>1, <2>3
      <3> HIDE DEF entry, s, hit
      <3> QED BY <2>3, <3>1
    <2> QED BY <2>2, <2>3
  <1>7. /\ f \in Files /\ KeyOf[c] \in Keys /\ BatchOf[c] \subseteq Files /\ r.src = disk[f]
        /\ <<f, disk[f]>> \in WithCandidates
    BY <1>3, Fields, SettingFacts DEF SharedInv, PlaceInv, TypeInv, Keys
  <1>8. hit => doc[f] = r.src /\ doc[f] # NoText
    BY <1>3, <1>7 DEF SharedInv, KeptInv
  <1>9. \A g \in Files, k \in Keys : cache'[<<g, k>>] # NoResult => cache'[<<g, k>>] = cache[<<g, k>>] /\ identity' = identity
    BY <1>2 DEF TypeInv
  <1> HIDE DEF s, entry, hit
  <1>10. PlaceInv(c)'
    BY <1>2, <1>3, <1>4, <1>5 DEF SharedInv, PlaceInv, Others, s
  <1>11. InputInv(c)'
    BY <1>2, <1>3, <1>4, <1>5 DEF SharedInv, InputInv, s
  <1>12. KeptInv(c)'
    <2>1. \A g \in DOMAIN s.report : doc[g] # NoText
      BY <1>6, <1>8 DEF SharedInv, KeptInv
    <2>2. \A g \in Files, k \in Keys : cache'[<<g, k>>] # NoResult =>
             k = KeyOf[c] /\ doc[g] # NoText /\ doc[g] = cache'[<<g, k>>].src
      BY <1>3, <1>9 DEF SharedInv, KeptInv
    <2> QED BY <1>2, <1>4, <1>5, <2>1, <2>2 DEF SharedInv, KeptInv, s
  <1>13. ContextInv(c)'
    <2>1. identity' <= context /\ context \in Nat /\ identity \in Nat
      BY <1>2, SettingFacts DEF SharedInv, ContextInv, TypeInv
    <2>2. \A g \in Files, k \in Keys : cache'[<<g, k>>] # NoResult =>
             identity' <= cache'[<<g, k>>].ctx /\ cache'[<<g, k>>].ctx <= context
      BY <1>9 DEF SharedInv, ContextInv
    <2> QED BY <1>2, <1>4, <1>5, <2>1, <2>2 DEF ContextInv, s
  <1>14. \A g \in Files : /\ Settled(c, g)' = Settled(c, g) /\ (Told(g)' <=> Told(g)) /\ ~Recording(c, g)
                          /\ Settled(c, g) = View(g)
    BY <1>2, <1>3, <1>5 DEF Settled, InHand, View, Told, Recording, s
  <1>15. TextInv(c)'
    <2>1. ASSUME NEW g \in BatchOf[c], <<g, disk[g]>> \in WithCandidates
          PROVE  \/ Settled(c, g)' = disk[g]
                 \/ ~r.derived /\ (g \in r.todo \/ (f = g /\ s.pc = "begin"))
      <3>1. CASE g = f /\ hit
        BY <1>7, <1>8, <1>14, <3>1 DEF View
      <3>2. CASE g # f \/ ~hit
        BY <1>2, <1>5, <1>7, <1>14, <2>1, <3>2 DEF SharedInv, TextInv
      <3> QED BY <3>1, <3>2
    <2> QED BY <1>2, <1>4, <1>5, <1>14, <2>1 DEF SharedInv, TextInv, s
  <1>16. \A g \in Files : \A res : Fresh(c, g, res) => StaysFresh(c, g, res)
    BY <1>14, Markers DEF Fresh, StaysFresh, Due
  <1>17. /\ \A g \in Files : ~Awaited(c, g)
         /\ \A g \in Files : CheckedAgain(c, g) => CheckedAgain(c, g)' \/ (g = f /\ hit)
    BY <1>2, <1>5 DEF Awaited, CheckedAgain, s
  <1>18. FreshInv(c)'
    <2>1. \A g \in Files, k \in Keys : cache[<<g, k>>] # NoResult => Fresh(c, g, cache[<<g, k>>])
      BY <1>17 DEF SharedInv, FreshInv
    <2>2. \A g \in DOMAIN r.report : g \in Files /\ (Fresh(c, g, r.report[g]) \/ CheckedAgain(c, g))
      BY <1>17 DEF SharedInv, FreshInv, TypeInv, ClientType
    <2>3. hit => Fresh(c, f, entry)
      BY <1>7, <2>1 DEF hit, entry
    <2>4. \A g \in DOMAIN s.report : StaysFresh(c, g, s.report[g]) \/ CheckedAgain(c, g)'
      BY <1>6, <1>7, <1>16, <1>17, <2>2, <2>3
    <2>5. \A g \in Files, k \in Keys : cache'[<<g, k>>] # NoResult => Fresh(c, g, cache'[<<g, k>>])
      BY <1>9, <2>1
    <2> QED BY <1>4, <1>5, <1>16, <2>4, <2>5 DEF FreshInv, Fresh, StaysFresh, s
  <1> QED BY <1>10, <1>11, <1>12, <1>13, <1>15, <1>18 DEF SharedInv

LEMMA StoreShared ==
  ASSUME TypeInv, NEW c \in Clients, KeepOpen, SharedInv(c), Store(c)
  PROVE  SharedInv(c)'
  <1> DEFINE r == cl[c]
             s == cl'[c]
             f == cl[c].file
  <1>1. /\ r.base \in ResultsOf(f)
        /\ Moves(c, "record", r.todo, f, r.src, r.base, r.ok, r.derived, r.runs, Reported(c, r.base))
    BY StoreMoves
  <1>2. /\ UNCHANGED <<setting, disk, context, doc, known, identity, direct, reconciled>>
        /\ cache' = [cache EXCEPT ![<<f, KeyOf[c]>>] = r.base]
        /\ r.pc = "store" /\ r.pc \in AtFile /\ r.pc \notin InTransaction \cup {"record", "collect"}
    BY DEF Store, world, tyVars, AtFile, InTransaction
  <1>3. BatchOf' = BatchOf /\ WithCandidates' = WithCandidates /\ Keys' = Keys /\ KeyOf' = KeyOf
    BY <1>2, SameSetting
  <1>4. /\ s.pc = "record" /\ s.todo = r.todo /\ s.file = f /\ s.src = r.src
        /\ s.base = r.base /\ s.ok = r.ok /\ s.derived = r.derived /\ s.report = Reported(c, r.base)
        /\ \A d \in Clients \ {c} : cl'[d] = cl[d]
        /\ s.pc \in AtFile /\ s.pc \notin InTransaction \cup {"store"}
    BY <1>1 DEF Moves, AtFile, InTransaction
  <1>5. \A g \in DOMAIN s.report :
          \/ g \in DOMAIN r.report /\ s.report[g] = r.report[g] /\ g # f
          \/ g = f /\ s.report[g] = r.base
    BY <1>4 DEF Reported
  <1>6. /\ f \in Files /\ KeyOf[c] \in Keys /\ BatchOf[c] \subseteq Files /\ r.base # NoResult
        /\ doc[f] = r.src /\ doc[f] # NoText /\ r.base.src = r.src
    BY <1>1, <1>2, Fields, SettingFacts, ResultIsOne DEF SharedInv, KeptInv, TypeInv, Keys
  <1>7. \A g \in Files, k \in Keys :
          \/ cache'[<<g, k>>] = cache[<<g, k>>] /\ <<g, k>> # <<f, KeyOf[c]>>
          \/ g = f /\ k = KeyOf[c] /\ cache'[<<g, k>>] = r.base
    BY <1>2, <1>6 DEF TypeInv
  <1> HIDE DEF s
  <1>8. PlaceInv(c)'
    BY <1>2, <1>3, <1>4 DEF SharedInv, PlaceInv, Others, s
  <1>9. InputInv(c)'
    BY <1>2, <1>3, <1>4 DEF SharedInv, InputInv, s
  <1>10. KeptInv(c)'
    <2>1. \A g \in DOMAIN s.report : doc[g] # NoText
      BY <1>5, <1>6 DEF SharedInv, KeptInv
    <2>2. \A g \in Files, k \in Keys : cache'[<<g, k>>] # NoResult =>
             k = KeyOf[c] /\ doc[g] # NoText /\ doc[g] = cache'[<<g, k>>].src
      <3> SUFFICES ASSUME NEW g \in Files, NEW k \in Keys, cache'[<<g, k>>] # NoResult
                   PROVE  k = KeyOf[c] /\ doc[g] # NoText /\ doc[g] = cache'[<<g, k>>].src
        OBVIOUS
      <3>1. CASE g = f /\ k = KeyOf[c]
        BY <1>6, <1>7, <3>1
      <3>2. CASE ~(g = f /\ k = KeyOf[c])
        <4>1. cache[<<g, k>>] # NoResult /\ cache'[<<g, k>>] = cache[<<g, k>>]
          BY <1>7, <3>2
        <4>2. k = KeyOf[c] /\ g # f
          BY <3>2, <4>1 DEF SharedInv, KeptInv
        <4> QED BY <4>1, <4>2 DEF SharedInv, KeptInv
      <3> QED BY <3>1, <3>2
    <2> QED BY <1>2, <1>3, <1>4, <1>6, <2>1, <2>2 DEF SharedInv, KeptInv, s
  <1>11. ContextInv(c)'
    <2>1. identity <= r.base.ctx /\ r.base.ctx <= context
      BY <1>2, <1>6 DEF SharedInv, ContextInv
    <2>2. \A g \in Files, k \in Keys : cache'[<<g, k>>] # NoResult =>
             identity <= cache'[<<g, k>>].ctx /\ cache'[<<g, k>>].ctx <= context
      BY <1>7, <2>1 DEF SharedInv, ContextInv
    <2> QED BY <1>2, <1>3, <1>4, <2>1, <2>2 DEF SharedInv, ContextInv, s
  <1>12. \A g \in Files : /\ Settled(c, g)' = Settled(c, g) /\ (Told(g)' <=> Told(g))
                          /\ (Recording(c, g)' <=> Recording(c, g))
    BY <1>2, <1>4 DEF Settled, InHand, View, Told, Recording, s
  <1>13. TextInv(c)'
    BY <1>2, <1>3, <1>4, <1>6, <1>12 DEF SharedInv, TextInv, s
  <1>14. \A g \in Files : \A res : Fresh(c, g, res) => StaysFresh(c, g, res)
    <2>1. \A g \in Files : Due(c, g)' <=> Due(c, g)
      BY <1>2, <1>4, <1>12 DEF Due, s
    <2> QED BY <1>12, <2>1, Markers DEF Fresh, StaysFresh
  <1>15. /\ \A g \in Files : ~Awaited(c, g)
         /\ \A g \in Files : CheckedAgain(c, g) => CheckedAgain(c, g)' \/ g = f
    BY <1>2, <1>4 DEF Awaited, CheckedAgain, s
  <1>16. /\ Fresh(c, f, r.base)
         /\ \A g \in Deps[f] : r.base.seen[g] = Settled(c, g)'
    BY <1>2, <1>6, <1>12, Markers DEF SharedInv, FreshInv, Fresh
  <1>17. FreshInv(c)'
    <2>1. \A g \in Files, k \in Keys : cache'[<<g, k>>] # NoResult => Fresh(c, g, cache'[<<g, k>>])
      BY <1>7, <1>15, <1>16 DEF SharedInv, FreshInv
    <2>2. \A g \in DOMAIN r.report : g \in Files /\ (Fresh(c, g, r.report[g]) \/ CheckedAgain(c, g))
      BY <1>15 DEF SharedInv, FreshInv, TypeInv, ClientType
    <2>3. \A g \in DOMAIN s.report : StaysFresh(c, g, s.report[g]) \/ CheckedAgain(c, g)'
      BY <1>5, <1>6, <1>14, <1>15, <1>16, <2>2
    <2> QED BY <1>3, <1>4, <1>14, <1>16, <2>1, <2>3 DEF FreshInv, Fresh, StaysFresh, s
  <1> QED BY <1>8, <1>9, <1>10, <1>11, <1>13, <1>17 DEF SharedInv

LEMMA RecordShared ==
  ASSUME TypeInv, NEW c \in Clients, KeepOpen, SharedInv(c), Record(c)
  PROVE  SharedInv(c)'
  <1> DEFINE r == cl[c]
             f == cl[c].file
  <1>1. /\ Goes(c, "next") /\ r.pc = "record" /\ "next" \notin AtFile /\ "next" \notin InTransaction
        /\ direct' = IF r.derived THEN direct ELSE [direct EXCEPT ![f] = r.src]
    <2>1. Goes(c, "next")
      BY GoesTo DEF Record, world, tyVars, ClientPcs
    <2> QED BY <2>1 DEF Record, AtFile, InTransaction
  <1>2. r.pc \in AtFile /\ r.pc \notin InTransaction /\ cl'[c].pc = "next"
    BY <1>1 DEF AtFile, InTransaction, Goes
  <1>3. BatchOf' = BatchOf /\ WithCandidates' = WithCandidates /\ Keys' = Keys /\ KeyOf' = KeyOf
    BY <1>1, SameSetting DEF Goes
  <1>4. /\ f \in Files /\ BatchOf[c] \subseteq Files /\ r.src \in Texts /\ r.src # NoText /\ r.src = disk[f]
        /\ f \in BatchOf[c] \ r.todo
    BY <1>2, Fields, Markers, SettingFacts DEF SharedInv, PlaceInv, TypeInv
  <1>5. \A g \in Files : direct'[g] = IF g = f /\ ~r.derived THEN r.src ELSE direct[g]
    BY <1>1, <1>4 DEF TypeInv
  <1>6. PlaceInv(c)'
    BY <1>1, <1>2, <1>3 DEF SharedInv, PlaceInv, Goes, Others
  <1>7. InputInv(c)'
    BY <1>1, <1>2, <1>3, <1>4, <1>5 DEF SharedInv, InputInv, Goes
  <1>8. KeptInv(c)'
    BY <1>1, <1>2, <1>3 DEF SharedInv, KeptInv, Goes
  <1>9. ContextInv(c)'
    BY <1>1, <1>2, <1>3 DEF SharedInv, ContextInv, Goes
  <1>10. \A g \in Files : /\ Settled(c, g)' = Settled(c, g)
                          /\ ~Recording(c, g)' /\ (Recording(c, g) <=> g = f /\ ~r.derived)
                          /\ (Told(g)' <=> IF Recording(c, g) THEN r.src # reconciled[g] ELSE Told(g))
    BY <1>1, <1>2, <1>4, <1>5 DEF Settled, InHand, View, Told, Recording, Goes
  <1>11. \A g \in Files : Due(c, g) => Due(c, g)'
    <2>1. ~r.derived => ~Told(f)
      BY <1>2, <1>4 DEF SharedInv, InputInv, Told
    <2> QED BY <1>10, <2>1 DEF Due
  <1>12. TextInv(c)'
    <2>1. <<f, disk[f]>> \in WithCandidates => Settled(c, f) = disk[f]
      BY <1>1, <1>4 DEF SharedInv, TextInv
    <2>2. ASSUME NEW g \in Files, reconciled[g] # NoText, <<g, reconciled[g]>> \in WithCandidates
          PROVE  Settled(c, g)' = reconciled[g] \/ Told(g)'
      <3>1. CASE Recording(c, g)
        BY <1>4, <1>10, <2>1, <2>2, <3>1
      <3>2. CASE ~Recording(c, g)
        BY <1>10, <2>2, <3>2 DEF SharedInv, TextInv
      <3> QED BY <3>1, <3>2
    <2>3. ASSUME NEW g \in BatchOf[c], <<g, disk[g]>> \in WithCandidates
          PROVE  Settled(c, g)' = disk[g] \/ (~r.derived /\ g \in r.todo)
      BY <1>1, <1>4, <1>10, <2>3 DEF SharedInv, TextInv
    <2> QED BY <1>1, <1>3, <2>2, <2>3 DEF TextInv, Goes
  <1>13. \A g \in Files : \A res : Fresh(c, g, res) => StaysFresh(c, g, res)
    BY <1>10, <1>11, Markers DEF Fresh, StaysFresh
  <1>14. \A g \in Files : ~Awaited(c, g) /\ (CheckedAgain(c, g) => CheckedAgain(c, g)')
    BY <1>1, <1>2 DEF Awaited, CheckedAgain, Goes
  <1>15. FreshInv(c)'
    <2>1. \A g \in Files, k \in Keys : cache[<<g, k>>] # NoResult => Fresh(c, g, cache[<<g, k>>])
      BY <1>14 DEF SharedInv, FreshInv
    <2>2. \A g \in DOMAIN r.report : g \in Files /\ (Fresh(c, g, r.report[g]) \/ CheckedAgain(c, g))
      BY <1>14 DEF SharedInv, FreshInv, TypeInv, ClientType
    <2> QED BY <1>1, <1>2, <1>3, <1>13, <1>14, <2>1, <2>2 DEF FreshInv, Fresh, StaysFresh, Goes
  <1> QED BY <1>6, <1>7, <1>8, <1>9, <1>12, <1>15 DEF SharedInv

-----------------------------------------------------------------------------
(* The reconciliation and the end of a run *)

LEMMA StartShared ==
  ASSUME TypeInv, NEW c \in Clients, KeepOpen, SharedInv(c), StartReconciling(c)
  PROVE  SharedInv(c)'
  <1> DEFINE r == cl[c]
  <1>1. /\ Goes(c, "notify") /\ r.pc = "next" /\ r.todo = {} /\ ~r.derived /\ direct' = direct
        /\ {"next", "notify"} \cap (AtFile \cup InTransaction) = {}
    <2>1. Goes(c, "notify")
      BY GoesTo DEF StartReconciling, world, ClientPcs
    <2> QED BY <2>1 DEF StartReconciling, AtFile, InTransaction
  <1>2. cl'[c].pc = "notify" /\ r.pc \notin AtFile /\ r.pc \notin InTransaction /\ cl'[c].pc \notin AtFile \cup InTransaction
    BY <1>1 DEF Goes
  <1>3. BatchOf' = BatchOf /\ WithCandidates' = WithCandidates /\ Keys' = Keys /\ KeyOf' = KeyOf
    BY <1>1, SameSetting DEF Goes
  <1>4. PlaceInv(c)'
    BY <1>1, <1>2, <1>3 DEF SharedInv, PlaceInv, Goes, Others
  <1>5. InputInv(c)'
    BY <1>1, <1>2, <1>3 DEF SharedInv, InputInv, Goes
  <1>6. KeptInv(c)'
    BY <1>1, <1>2, <1>3 DEF SharedInv, KeptInv, Goes
  <1>7. ContextInv(c)'
    BY <1>1, <1>2, <1>3 DEF SharedInv, ContextInv, Goes
  <1>8. \A g \in Files : /\ Settled(c, g)' = Settled(c, g) /\ (Told(g)' <=> Told(g))
                         /\ ~Recording(c, g)' /\ ~Recording(c, g) /\ (Due(c, g)' <=> Due(c, g))
    BY <1>1, <1>2 DEF Settled, InHand, View, Told, Recording, Due, Goes, InTransaction
  <1>9. TextInv(c)'
    <2>1. BatchOf[c] \subseteq Files
      BY SettingFacts DEF TypeInv
    <2> QED BY <1>1, <1>2, <1>3, <1>8, <2>1 DEF SharedInv, TextInv, Goes
  <1>10. \A g \in Files : \A res : Fresh(c, g, res) => StaysFresh(c, g, res)
    BY <1>8, Markers DEF Fresh, StaysFresh
  <1>11. \A g \in Files : ~Awaited(c, g) /\ ~CheckedAgain(c, g)
    BY <1>1, <1>2 DEF Awaited, CheckedAgain
  <1>12. FreshInv(c)'
    <2>1. \A g \in Files, k \in Keys : cache[<<g, k>>] # NoResult => Fresh(c, g, cache[<<g, k>>])
      BY <1>11 DEF SharedInv, FreshInv
    <2>2. \A g \in DOMAIN r.report : g \in Files /\ Fresh(c, g, r.report[g])
      BY <1>11 DEF SharedInv, FreshInv, TypeInv, ClientType
    <2> QED BY <1>1, <1>2, <1>3, <1>10, <2>1, <2>2 DEF FreshInv, Fresh, StaysFresh, Goes
  <1> QED BY <1>4, <1>5, <1>6, <1>7, <1>9, <1>12 DEF SharedInv

LEMMA NotifyDoneShared ==
  ASSUME TypeInv, NEW c \in Clients, KeepOpen, SharedInv(c), TakenInv, NotifyChanged(c), changed = {}
  PROVE  SharedInv(c)'
  <1> DEFINE r == cl[c]
  <1>1. /\ UNCHANGED <<setting, disk, context, doc, known, dirty, cache, identity, reconciled, coming>>
        /\ direct' = Kept({}) /\ RunEnds(c, {}) /\ r.pc = "notify"
    BY DEF NotifyChanged, world, tyVars
  <1>2. /\ \A d \in Clients \ {c} : cl'[d] = cl[d]
        /\ cl'[c].pc = "done" /\ cl'[c].todo = {} /\ cl'[c].derived = TRUE /\ cl'[c].report = r.report
        /\ {"notify", "done"} \cap (AtFile \cup InTransaction) = {}
    BY <1>1, RunEndsMoves DEF Moves, AtFile, InTransaction
  <1>3. r.pc \notin AtFile \cup InTransaction /\ cl'[c].pc \notin AtFile \cup InTransaction
    BY <1>1, <1>2
  <1>4. BatchOf' = BatchOf /\ WithCandidates' = WithCandidates /\ Keys' = Keys /\ KeyOf' = KeyOf
    BY <1>1, SameSetting
  <1>5. \A g \in Files : ~Told(g) /\ ~Told(g)' /\ direct'[g] = NoText
    <2>1. \A g \in Files : ~Told(g)
      BY <1>1 DEF TakenInv, Changed, Told
    <2> QED BY <1>1, <2>1 DEF Kept, Told
  <1>6. PlaceInv(c)'
    BY <1>1, <1>2, <1>3, <1>4 DEF SharedInv, PlaceInv, Others
  <1>7. InputInv(c)'
    BY <1>5 DEF InputInv
  <1>8. KeptInv(c)'
    BY <1>1, <1>2, <1>3, <1>4 DEF SharedInv, KeptInv, InTransaction
  <1>9. ContextInv(c)'
    BY <1>1, <1>2, <1>3, <1>4 DEF SharedInv, ContextInv
  <1>10. \A g \in Files : /\ Settled(c, g)' = Settled(c, g)
                          /\ ~Recording(c, g)' /\ ~Recording(c, g) /\ ~Due(c, g)' /\ ~Due(c, g)
    BY <1>1, <1>2, <1>3, <1>5 DEF Settled, InHand, View, Recording, Due, InTransaction, AtFile
  <1>11. TextInv(c)'
    BY <1>1, <1>2, <1>4, <1>5, <1>10 DEF SharedInv, TextInv
  <1>12. \A g \in Files : \A res : Fresh(c, g, res) => StaysFresh(c, g, res)
    BY <1>10, Markers DEF Fresh, StaysFresh
  <1>13. \A g \in Files : ~Awaited(c, g) /\ ~CheckedAgain(c, g)
    BY <1>1, <1>3 DEF Awaited, CheckedAgain, SharedInv, PlaceInv
  <1>14. FreshInv(c)'
    <2>1. \A g \in Files, k \in Keys : cache[<<g, k>>] # NoResult => Fresh(c, g, cache[<<g, k>>])
      BY <1>13 DEF SharedInv, FreshInv
    <2>2. \A g \in DOMAIN r.report : g \in Files /\ Fresh(c, g, r.report[g])
      BY <1>13 DEF SharedInv, FreshInv, TypeInv, ClientType
    <2> QED BY <1>1, <1>2, <1>3, <1>4, <1>12, <2>1, <2>2 DEF FreshInv, Fresh, StaysFresh
  <1> QED BY <1>6, <1>7, <1>8, <1>9, <1>11, <1>14 DEF SharedInv

LEMMA NotifyTellsShared ==
  ASSUME TypeInv, NEW c \in Clients, Lone(c), KeepOpen, SharedInv(c), TakenInv, NotifyChanged(c), changed # {}
  PROVE  SharedInv(c)'
  <1> DEFINE r == cl[c]
  <1>1. /\ UNCHANGED <<setting, disk, context, doc, dirty, cache, identity>>
        /\ direct' = Kept({}) /\ Goto(c, "collect") /\ r.pc = "notify"
        /\ reconciled' = [f \in Files |-> IF f \in changed THEN direct[f] ELSE reconciled[f]]
        /\ known' = [f \in Files |-> IF f \in changed THEN disk[f] ELSE known[f]]
        /\ coming' = coming \cup (Dependents(changed) \cap Opens)
    BY DEF NotifyChanged, world, Lone
  <1>2. /\ \A d \in Clients \ {c} : cl'[d] = cl[d]
        /\ cl'[c].pc = "collect" /\ cl'[c].todo = r.todo /\ cl'[c].derived = r.derived /\ cl'[c].report = r.report
        /\ {"notify", "collect"} \cap (AtFile \cup InTransaction \cup {"record", "store"}) = {}
        /\ ~r.derived /\ r.todo = {}
    BY <1>1, GotoMoves DEF Moves, AtFile, InTransaction, ClientPcs, SharedInv, PlaceInv
  <1>3. /\ r.pc \notin AtFile \cup InTransaction \cup {"record", "store"}
        /\ cl'[c].pc \notin AtFile \cup InTransaction \cup {"record", "store"}
    BY <1>1, <1>2
  <1>4. BatchOf' = BatchOf /\ WithCandidates' = WithCandidates /\ Keys' = Keys /\ KeyOf' = KeyOf
    BY <1>1, SameSetting
  <1>5. \A g \in Files : /\ g \in changed <=> Told(g)
                         /\ direct'[g] = NoText /\ ~Told(g)'
                         /\ g \in changed => reconciled'[g] = disk[g] /\ known'[g] = disk[g] /\ g \in BatchOf[c]
                         /\ g \notin changed => reconciled'[g] = reconciled[g] /\ known'[g] = known[g]
    <2>1. changed = {g \in Files : direct[g] # NoText /\ reconciled[g] # direct[g]}
      BY <1>1 DEF TakenInv, Changed
    <2>2. \A g \in Files : direct[g] # NoText => direct[g] = disk[g] /\ g \in BatchOf[c]
      BY DEF SharedInv, InputInv
    <2>3. \A g \in Files : direct'[g] = NoText
      BY <1>1 DEF Kept
    <2> QED BY <1>1, <2>1, <2>2, <2>3 DEF Told
  <1>6. PlaceInv(c)'
    BY <1>1, <1>2, <1>3, <1>4 DEF SharedInv, PlaceInv, Others
  <1>7. InputInv(c)'
    BY <1>5 DEF InputInv
  <1>8. KeptInv(c)'
    BY <1>1, <1>2, <1>3, <1>4 DEF SharedInv, KeptInv
  <1>9. ContextInv(c)'
    BY <1>1, <1>2, <1>3, <1>4 DEF SharedInv, ContextInv
  <1>10. \A g \in Files : /\ Settled(c, g) = View(g) /\ Settled(c, g)' = View(g)' /\ ~Recording(c, g) /\ ~Recording(c, g)'
                          /\ g \notin changed => Settled(c, g)' = Settled(c, g)
                          /\ g \in changed /\ Settled(c, g) = disk[g] => Settled(c, g)' = disk[g]
    <2>1. \A g \in Files : /\ Settled(c, g) = View(g) /\ Settled(c, g)' = View(g)'
                           /\ ~Recording(c, g) /\ ~Recording(c, g)'
      BY <1>1, <1>2, <1>3 DEF Settled, InHand, Recording
    <2>2. \A g \in Files : View(g)' = IF doc[g] # NoText THEN doc[g] ELSE known'[g]
      BY <1>1 DEF View
    <2> QED BY <1>5, <2>1, <2>2 DEF View
  <1>11. TextInv(c)'
    <2>1. \A g \in BatchOf[c] : g \in Files /\ (<<g, disk[g]>> \in WithCandidates => Settled(c, g) = disk[g])
      BY <1>1, <1>2, SettingFacts DEF SharedInv, TextInv, TypeInv
    <2>2. ASSUME NEW g \in Files, reconciled'[g] # NoText, <<g, reconciled'[g]>> \in WithCandidates
          PROVE  Settled(c, g)' = reconciled'[g]
      <3>1. CASE g \in changed
        BY <1>5, <1>10, <2>1, <2>2, <3>1
      <3>2. CASE g \notin changed
        BY <1>5, <1>10, <2>2, <3>2 DEF SharedInv, TextInv
      <3> QED BY <3>1, <3>2
    <2>3. \A g \in BatchOf[c] : <<g, disk[g]>> \in WithCandidates => Settled(c, g)' = disk[g]
      BY <1>10, <2>1
    <2> QED BY <1>1, <1>4, <2>2, <2>3 DEF TextInv
  <1>12. \A g \in Files : \A res : Fresh(c, g, res) /\ doc[g] # NoText => StaysFresh(c, g, res) \/ Awaited(c, g)'
    <2> SUFFICES ASSUME NEW g \in Files, NEW res, Fresh(c, g, res), doc[g] # NoText
                 PROVE  StaysFresh(c, g, res) \/ Awaited(c, g)'
      OBVIOUS
    <2>1. CASE Deps[g] \cap changed = {}
      <3>1. \A h \in Deps[g] : h \in Files /\ ~Due(c, h)
        BY <1>5, <1>10, <2>1, Markers DEF Due
      <3> QED BY <1>10, <2>1, <3>1 DEF Fresh, StaysFresh
    <2>2. CASE Deps[g] \cap changed # {}
      <3>1. g \in coming'
        BY <1>1, <2>2 DEF Dependents, Opens
      <3> QED BY <1>2, <3>1 DEF Awaited
    <2> QED BY <2>1, <2>2
  <1>13. \A g \in Files : ~Awaited(c, g) /\ ~CheckedAgain(c, g)
    BY <1>1, <1>2, <1>3 DEF Awaited, CheckedAgain
  <1>14. FreshInv(c)'
    <2>1. \A g \in Files, k \in Keys : cache[<<g, k>>] # NoResult => Fresh(c, g, cache[<<g, k>>]) /\ doc[g] # NoText
      BY <1>13 DEF SharedInv, FreshInv, KeptInv
    <2>2. \A g \in DOMAIN r.report : g \in Files /\ Fresh(c, g, r.report[g]) /\ doc[g] # NoText
      BY <1>13 DEF SharedInv, FreshInv, KeptInv, TypeInv, ClientType
    <2> QED BY <1>1, <1>2, <1>3, <1>4, <1>12, <2>1, <2>2 DEF FreshInv, Fresh, StaysFresh
  <1> QED BY <1>6, <1>7, <1>8, <1>9, <1>11, <1>14 DEF SharedInv

LEMMA CollectShared ==
  ASSUME TypeInv, NEW c \in Clients, Lone(c), KeepOpen, SharedInv(c), CollectDirty(c)
  PROVE  SharedInv(c)'
  <1> DEFINE r == cl[c]
  <1>1. PICK arrived \in {coming} \cup (IF Flaky \/ ~CaughtUp THEN SUBSET coming ELSE {}) :
          /\ coming' = coming \ arrived /\ dirty' = {}
          /\ cache' = Invalidated(dirty \cup arrived)
          /\ RunEnds(c, (dirty \cup arrived) \cap Opens)
    BY DEF CollectDirty
  <1> DEFINE ds == dirty \cup arrived
             pc == IF ds \cap Opens = {} THEN "done" ELSE "next"
  <1>2. /\ UNCHANGED <<setting, disk, context, doc, known, identity, direct, reconciled>>
        /\ r.pc = "collect" /\ ~r.derived /\ r.todo = {}
    BY DEF CollectDirty, world, SharedInv, PlaceInv
  <1>3. /\ \A d \in Clients \ {c} : cl'[d] = cl[d]
        /\ cl'[c].pc = pc /\ cl'[c].todo = ds \cap Opens /\ cl'[c].derived = TRUE /\ cl'[c].report = r.report
    <2>1. RunEnds(c, ds \cap Opens) /\ ds \cap Opens \in SUBSET Files
      BY <1>1 DEF Opens
    <2> HIDE DEF ds
    <2>2. Moves(c, pc, ds \cap Opens, r.file, r.src, r.base, r.ok, TRUE, r.runs, r.report)
      BY <2>1, RunEndsMoves
    <2> HIDE DEF pc
    <2> QED BY <2>2 DEF Moves
  <1>4. {"collect", "done", "next"} \cap (AtFile \cup InTransaction \cup {"record", "store", "notify"}) = {}
    BY DEF AtFile, InTransaction
  <1>5. /\ r.pc \notin AtFile \cup InTransaction \cup {"record", "store"}
        /\ cl'[c].pc \notin AtFile \cup InTransaction \cup {"record", "store", "notify", "collect"}
    BY <1>2, <1>3, <1>4
  <1>6. BatchOf' = BatchOf /\ WithCandidates' = WithCandidates /\ Keys' = Keys /\ KeyOf' = KeyOf
    BY <1>2, SameSetting
  <1>7. \A f \in Files, k \in Keys : cache'[<<f, k>>] = IF f \in ds THEN NoResult ELSE cache[<<f, k>>]
    BY <1>1 DEF Invalidated, TypeInv
  <1>8. \A f \in coming \cup dirty : f \in Opens => f \in ds
    BY <1>1 DEF CaughtUp, Lone
  <1>9. \A f \in Files : direct[f] = NoText /\ ~Told(f) /\ ~Told(f)'
    BY <1>2 DEF SharedInv, InputInv, Told
  <1>10. \A f \in Files : doc[f] # NoText <=> f \in Opens
    BY DEF Opens
  <1> HIDE DEF ds, pc
  <1>11. PlaceInv(c)'
    <2>1. ds \cap Opens \subseteq BatchOf[c] /\ (cl'[c].pc = "done" => ds \cap Opens = {})
      BY <1>3, <1>10 DEF SharedInv, KeptInv, Opens, pc
    <2> QED BY <1>2, <1>3, <1>5, <1>6, <2>1 DEF SharedInv, PlaceInv, Others
  <1>12. InputInv(c)'
    BY <1>2, <1>9 DEF InputInv
  <1>13. KeptInv(c)'
    BY <1>2, <1>3, <1>5, <1>6, <1>7 DEF SharedInv, KeptInv
  <1>14. ContextInv(c)'
    BY <1>2, <1>3, <1>5, <1>6, <1>7 DEF SharedInv, ContextInv
  <1>15. \A g \in Files : /\ Settled(c, g)' = Settled(c, g)
                          /\ ~Recording(c, g)' /\ ~Recording(c, g) /\ ~Due(c, g)' /\ ~Due(c, g)
    BY <1>2, <1>3, <1>5, <1>9 DEF Settled, InHand, View, Recording, Due
  <1>16. TextInv(c)'
    <2>1. BatchOf[c] \subseteq Files
      BY SettingFacts DEF TypeInv
    <2> QED BY <1>2, <1>3, <1>6, <1>9, <1>15, <2>1 DEF SharedInv, TextInv
  <1>17. \A g \in Files : \A res : Fresh(c, g, res) => StaysFresh(c, g, res)
    BY <1>15, Markers DEF Fresh, StaysFresh
  <1>18. \A g \in Files : Awaited(c, g) /\ doc[g] # NoText => g \in ds /\ CheckedAgain(c, g)'
    BY <1>3, <1>8, <1>10 DEF Awaited, CheckedAgain
  <1>19. FreshInv(c)'
    <2>1. \A g \in Files, k \in Keys : cache'[<<g, k>>] # NoResult => Fresh(c, g, cache'[<<g, k>>])
      BY <1>7, <1>18 DEF SharedInv, FreshInv, KeptInv
    <2>2. \A g \in DOMAIN r.report : g \in Files /\ (Fresh(c, g, r.report[g]) \/ CheckedAgain(c, g)')
      BY <1>2, <1>18 DEF SharedInv, FreshInv, KeptInv, TypeInv, ClientType, CheckedAgain
    <2> QED BY <1>3, <1>5, <1>6, <1>17, <2>1, <2>2 DEF FreshInv, Fresh, StaysFresh
  <1> QED BY <1>11, <1>12, <1>13, <1>14, <1>16, <1>19 DEF SharedInv

LEMMA LastFileShared ==
  ASSUME TypeInv, NEW c \in Clients, KeepOpen, SharedInv(c), LastFile(c)
  PROVE  SharedInv(c)'
  <1> DEFINE r == cl[c]
  <1>1. /\ Goes(c, "done") /\ r.pc = "next" /\ r.todo = {} /\ r.derived /\ direct' = direct
        /\ {"next", "done"} \cap (AtFile \cup InTransaction \cup {"record", "store", "notify", "collect"}) = {}
    <2>1. Goes(c, "done")
      BY GoesTo DEF LastFile, world, tyVars, sessionVars, ClientPcs
    <2> QED BY <2>1 DEF LastFile, sessionVars, AtFile, InTransaction
  <1>2. /\ cl'[c].pc = "done" /\ r.pc \notin AtFile \cup InTransaction \cup {"record", "store"}
        /\ cl'[c].pc \notin AtFile \cup InTransaction \cup {"record", "store", "notify", "collect"}
    BY <1>1 DEF Goes
  <1>3. BatchOf' = BatchOf /\ WithCandidates' = WithCandidates /\ Keys' = Keys /\ KeyOf' = KeyOf
    BY <1>1, SameSetting DEF Goes
  <1>4. \A g \in Files : direct[g] = NoText
    BY <1>1 DEF SharedInv, InputInv
  <1>5. PlaceInv(c)'
    BY <1>1, <1>2, <1>3 DEF SharedInv, PlaceInv, Goes, Others
  <1>6. InputInv(c)'
    BY <1>1, <1>4 DEF InputInv
  <1>7. KeptInv(c)'
    BY <1>1, <1>2, <1>3 DEF SharedInv, KeptInv, Goes
  <1>8. ContextInv(c)'
    BY <1>1, <1>2, <1>3 DEF SharedInv, ContextInv, Goes
  <1>9. \A g \in Files : /\ Settled(c, g)' = Settled(c, g) /\ (Told(g)' <=> Told(g))
                         /\ ~Recording(c, g)' /\ ~Recording(c, g) /\ (Due(c, g)' <=> Due(c, g))
    BY <1>1, <1>2 DEF Settled, InHand, View, Told, Recording, Due, Goes
  <1>10. TextInv(c)'
    BY <1>1, <1>2, <1>3, <1>9 DEF SharedInv, TextInv, Goes
  <1>11. \A g \in Files : \A res : Fresh(c, g, res) => StaysFresh(c, g, res)
    BY <1>9, Markers DEF Fresh, StaysFresh
  <1>12. \A g \in Files : ~Awaited(c, g) /\ ~CheckedAgain(c, g)
    BY <1>1, <1>2 DEF Awaited, CheckedAgain
  <1>13. FreshInv(c)'
    <2>1. \A g \in Files, k \in Keys : cache[<<g, k>>] # NoResult => Fresh(c, g, cache[<<g, k>>])
      BY <1>12 DEF SharedInv, FreshInv
    <2>2. \A g \in DOMAIN r.report : g \in Files /\ Fresh(c, g, r.report[g])
      BY <1>12 DEF SharedInv, FreshInv, TypeInv, ClientType
    <2> QED BY <1>1, <1>2, <1>3, <1>11, <2>1, <2>2 DEF FreshInv, Fresh, StaysFresh, Goes
  <1> QED BY <1>5, <1>6, <1>7, <1>8, <1>10, <1>13 DEF SharedInv

LEMMA RunAgainShared ==
  ASSUME TypeInv, NEW c \in Clients, KeepOpen, SharedInv(c), RunAgain(c)
  PROVE  SharedInv(c)'
  <1> DEFINE r == cl[c]
             s == cl'[c]
             none == [f \in {} |-> NoResult]
  <1>1. /\ UNCHANGED <<setting, disk, context, doc, known, cache, identity, direct, reconciled>> /\ r.pc = "done"
        /\ Moves(c, "next", BatchOf[c], NoText, NoText, NoResult, TRUE, FALSE, cl[c].runs + 1, none)
    BY RunAgainMoves DEF RunAgain, world, sessionVars
  <1>2. {"next", "done"} \cap (AtFile \cup InTransaction \cup {"record", "store", "notify", "collect"}) = {}
    BY DEF AtFile, InTransaction
  <1>3. /\ s.pc = "next" /\ s.todo = BatchOf[c] /\ s.derived = FALSE /\ DOMAIN s.report = {}
        /\ \A d \in Clients \ {c} : cl'[d] = cl[d]
        /\ r.pc \notin AtFile \cup InTransaction \cup {"record", "store", "collect"}
        /\ s.pc \notin AtFile \cup InTransaction \cup {"record", "store", "notify", "collect"}
    BY <1>1, <1>2 DEF Moves
  <1>4. BatchOf' = BatchOf /\ WithCandidates' = WithCandidates /\ Keys' = Keys /\ KeyOf' = KeyOf
    BY <1>1, SameSetting
  <1>5. \A g \in Files : direct[g] = NoText /\ ~Told(g) /\ ~Told(g)'
    BY <1>1 DEF SharedInv, InputInv, Told
  <1> HIDE DEF s, none
  <1>6. PlaceInv(c)'
    BY <1>1, <1>3, <1>4 DEF SharedInv, PlaceInv, Others, s
  <1>7. InputInv(c)'
    BY <1>1, <1>5 DEF InputInv
  <1>8. KeptInv(c)'
    BY <1>1, <1>3, <1>4 DEF SharedInv, KeptInv, s
  <1>9. ContextInv(c)'
    BY <1>1, <1>3, <1>4 DEF SharedInv, ContextInv, s
  <1>10. \A g \in Files : /\ Settled(c, g)' = Settled(c, g)
                          /\ ~Recording(c, g)' /\ ~Recording(c, g) /\ ~Due(c, g)
    BY <1>1, <1>3, <1>5 DEF Settled, InHand, View, Recording, Due, s
  <1>11. TextInv(c)'
    BY <1>1, <1>3, <1>4, <1>5, <1>10 DEF SharedInv, TextInv, s
  <1>12. \A g \in Files : \A res : Fresh(c, g, res) => StaysFresh(c, g, res)
    BY <1>10, Markers DEF Fresh, StaysFresh
  <1>13. FreshInv(c)'
    <2>1. \A g \in Files, k \in Keys : cache[<<g, k>>] # NoResult => Fresh(c, g, cache[<<g, k>>])
      BY <1>3 DEF SharedInv, FreshInv, Awaited
    <2> QED BY <1>1, <1>3, <1>4, <1>12, <2>1 DEF FreshInv, Fresh, StaysFresh, s
  <1> QED BY <1>6, <1>7, <1>8, <1>9, <1>11, <1>13 DEF SharedInv

(* The reader's thread, the owner of the files, and a step of nobody. *)
LEMMA WorldShared ==
  ASSUME TypeInv, NEW c \in Clients, KeepOpen, SharedInv(c), Push \/ Edit \/ Reconfigure \/ UNCHANGED vars
  PROVE  SharedInv(c)'
  <1> DEFINE r == cl[c]
  <1>1. /\ UNCHANGED <<setting, doc, known, cache, identity, direct, reconciled, cl>>
        /\ disk' = disk \/ r.pc = "done"
        /\ context' = context \/ context' = context + 1
        /\ coming \cup dirty \subseteq coming' \cup dirty'
    BY SettingFacts DEF Push, Edit, Reconfigure, Idle, vars, world, tyVars, sessionVars, TypeInv
  <1>2. BatchOf' = BatchOf /\ WithCandidates' = WithCandidates /\ Keys' = Keys /\ KeyOf' = KeyOf
    BY <1>1, SameSetting
  <1>3. "done" \notin AtFile
    BY DEF AtFile, InTransaction
  <1>4. PlaceInv(c)'
    BY <1>1, <1>2, <1>3 DEF SharedInv, PlaceInv, Others
  <1>5. InputInv(c)'
    BY <1>1, <1>2 DEF SharedInv, InputInv
  <1>6. KeptInv(c)'
    BY <1>1, <1>2 DEF SharedInv, KeptInv
  <1>7. ContextInv(c)'
    <2>1. identity \in Nat /\ context \in Nat
      BY SettingFacts DEF TypeInv
    <2>2. \A f, res : res \in ResultsOf(f) => res.ctx \in Nat
      BY SettingFacts DEF TypeInv, ResultsOf
    <2>3. r.pc \in AtFile /\ r.base # NoResult => r.base.ctx \in Nat
      BY <2>2, Fields
    <2>4. \A f \in Files, k \in Keys : cache[<<f, k>>] # NoResult => cache[<<f, k>>].ctx \in Nat
      BY <2>2 DEF TypeInv
    <2>5. \A n \in Nat : n <= context => n <= context'
      BY <1>1, <2>1
    <2> QED BY <1>1, <1>2, <2>1, <2>3, <2>4, <2>5 DEF SharedInv, ContextInv
  <1>8. \A g \in Files : /\ Settled(c, g)' = Settled(c, g) /\ (Told(g)' <=> Told(g))
                         /\ (Recording(c, g)' <=> Recording(c, g)) /\ (Due(c, g)' <=> Due(c, g))
    BY <1>1 DEF Settled, InHand, View, Told, Recording, Due
  <1>9. TextInv(c)'
    BY <1>1, <1>2, <1>8, SettingFacts DEF SharedInv, TextInv, TypeInv
  <1>10. \A g \in Files : \A res : Fresh(c, g, res) => StaysFresh(c, g, res)
    BY <1>8, Markers DEF Fresh, StaysFresh
  <1>11. \A g \in Files : (Awaited(c, g) => Awaited(c, g)') /\ (CheckedAgain(c, g) => CheckedAgain(c, g)')
    BY <1>1 DEF Awaited, CheckedAgain
  <1>12. FreshInv(c)'
    <2>1. \A g \in DOMAIN r.report : g \in Files
      BY DEF TypeInv, ClientType
    <2>2. r.pc \in AtFile => r.file \in Files /\ Deps[r.file] \subseteq Files
      BY Fields, Markers
    <2> QED BY <1>1, <1>2, <1>8, <1>10, <1>11, <2>1, <2>2 DEF SharedInv, FreshInv, Fresh, StaysFresh
  <1> QED BY <1>4, <1>5, <1>6, <1>7, <1>9, <1>12 DEF SharedInv

-----------------------------------------------------------------------------
(* A private session *)

(* Only the document in hand is open. *)
LEMMA PrivateView ==
  ASSUME TypeInv, AnalysisInv, NEW c \in Clients, ~KeepOpen, PrivateInv(c)
  PROVE  /\ cl[c].pc \in AtFile => \A g \in Deps[cl[c].file] : g \in Files /\ View(g) = known[g]
         /\ cl[c].pc \notin InTransaction => \A g \in Files : View(g) = known[g]
  <1>1. \A g \in Files : doc[g] # NoText => cl[c].pc \in InTransaction /\ cl[c].file = g
    <2> SUFFICES ASSUME NEW g \in Files, doc[g] # NoText PROVE cl[c].pc \in InTransaction /\ cl[c].file = g
      OBVIOUS
    <2>1. PICK d \in Clients : cl[d].pc \in InTransaction /\ cl[d].file = g
      BY DEF AnalysisInv
    <2>2. d = c
      BY <2>1 DEF PrivateInv, Others, InTransaction
    <2> QED BY <2>1, <2>2
  <1>2. cl[c].pc \in AtFile => \A g \in Deps[cl[c].file] : g \in Files /\ g # cl[c].file
    BY Fields, Markers
  <1> QED BY <1>1, <1>2 DEF View

(* What the private session has to keep. *)
LEMMA PrivateNext ==
  ASSUME TypeInv, NEW c \in Clients, PrivateInv(c),
         UNCHANGED known, \A d \in Clients \ {c} : cl'[d] = cl[d], cl'[c].pc \notin {"notify", "collect"},
         cl'[c].report = cl[c].report
           \/ \A f \in DOMAIN cl'[c].report : \A g \in Deps[f] : cl'[c].report[f].seen[g] = known[g],
         \/ cl'[c].pc \notin AtFile \/ cl'[c].base = NoResult
         \/ \A g \in Deps[cl'[c].file] : cl'[c].base.seen[g] = known[g]
  PROVE  PrivateInv(c)'
  BY DEF PrivateInv, Others

LEMMA PrivateOpens ==
  ASSUME TypeInv, AnalysisInv, NEW c \in Clients, Lone(c), ~KeepOpen, PrivateInv(c),
         OpenBaseline(c) \/ OpenProbe(c) \/ OpenAgain(c) \/ OpenRewrite(c) \/ Finalize(c)
  PROVE  PrivateInv(c)'
  <1>1. /\ cl[c].pc \in AtFile /\ known' = known /\ ~Failed(c)
    BY LoneFacts DEF OpenBaseline, OpenProbe, OpenAgain, OpenRewrite, Finalize, AtFile, InTransaction, Update
  <1>2. cl[c].base = NoResult \/ \A g \in Deps[cl[c].file] : cl[c].base.seen[g] = known[g]
    BY <1>1 DEF PrivateInv
  <1>3. \A g \in Deps[cl[c].file] : Base(c).seen[g] = known[g]
    BY <1>1, PrivateView DEF Base, Seen
  <1>4. ASSUME NEW pc \in {"probe", "rebase", "finalize", "end"}, Goto(c, pc) PROVE PrivateInv(c)'
    <2>1. /\ \A d \in Clients \ {c} : cl'[d] = cl[d]
          /\ cl'[c].pc = pc /\ cl'[c].file = cl[c].file /\ cl'[c].base = cl[c].base /\ cl'[c].report = cl[c].report
      BY <1>4, GotoMoves DEF Moves, ClientPcs, InTransaction
    <2> QED BY <1>1, <1>2, <2>1, PrivateNext
  <1>5. ASSUME NEW pc \in {"rewrite", "finalize"}, cl' = [cl EXCEPT ![c].pc = pc, ![c].base = Base(c)]
        PROVE  PrivateInv(c)'
    <2>1. /\ \A d \in Clients \ {c} : cl'[d] = cl[d]
          /\ cl'[c].pc = pc /\ cl'[c].file = cl[c].file /\ cl'[c].base = Base(c) /\ cl'[c].report = cl[c].report
      BY <1>1, <1>5, BaseMoves DEF Moves
    <2> QED BY <1>1, <1>3, <2>1, PrivateNext
  <1>6. CASE OpenBaseline(c)
    BY <1>1, <1>4, <1>5, <1>6 DEF OpenBaseline, Base
  <1>7. CASE OpenProbe(c)
    BY <1>1, <1>4, <1>7 DEF OpenProbe
  <1>8. CASE OpenAgain(c)
    BY <1>1, <1>5, <1>8 DEF OpenAgain, Base
  <1>9. CASE OpenRewrite(c)
    BY <1>1, <1>4, <1>9 DEF OpenRewrite
  <1>10. CASE Finalize(c)
    BY <1>4, <1>10 DEF Finalize
  <1> QED BY <1>6, <1>7, <1>8, <1>9, <1>10

LEMMA PrivateBatch ==
  ASSUME TypeInv, AnalysisInv, NEW c \in Clients, Lone(c), ~KeepOpen, PrivateInv(c),
         Take(c) \/ Lookup(c) \/ BeginAnalysis(c) \/ EndAnalysis(c) \/ Store(c) \/ Record(c) \/ LastFile(c)
  PROVE  PrivateInv(c)'
  <1> DEFINE r == cl[c]
  <1>1. known' = known
    BY DEF Take, Lookup, BeginAnalysis, EndAnalysis, Store, Record, LastFile, tyVars
  <1>2. r.pc \notin AtFile \/ r.base = NoResult \/ \A g \in Deps[r.file] : r.base.seen[g] = known[g]
    BY DEF PrivateInv
  <1>3. ASSUME NEW pc \in {"baseline", "store", "next", "done"}, Goto(c, pc), pc \in AtFile => r.pc \in AtFile
        PROVE  PrivateInv(c)'
    <2>1. /\ \A d \in Clients \ {c} : cl'[d] = cl[d]
          /\ cl'[c].pc = pc /\ cl'[c].file = r.file /\ cl'[c].base = r.base /\ cl'[c].report = r.report
      BY <1>3, GotoMoves DEF Moves, ClientPcs, InTransaction
    <2> QED BY <1>1, <1>2, <1>3, <2>1, PrivateNext
  <1>4. CASE BeginAnalysis(c) \/ EndAnalysis(c) \/ Record(c) \/ LastFile(c)
    <2>1. {"begin", "end", "record"} \subseteq AtFile /\ {"next", "done"} \cap AtFile = {}
      BY DEF AtFile, InTransaction
    <2> QED BY <1>3, <1>4, <2>1 DEF BeginAnalysis, EndAnalysis, Record, LastFile
  <1>5. CASE Take(c)
    <2>1. PICK f \in r.todo :
            LET asked == <<f, disk[f]>> \in WithCandidates
            IN  Moves(c, IF asked THEN "lookup" ELSE "record", r.todo \ {f}, f, disk[f], NoResult,
                      TRUE, r.derived, r.runs,
                      IF asked THEN r.report ELSE [g \in DOMAIN r.report \ {f} |-> r.report[g]])
      BY <1>5, TakeMoves
    <2>2. /\ \A d \in Clients \ {c} : cl'[d] = cl[d]
          /\ cl'[c].pc \in {"lookup", "record"} /\ cl'[c].base = NoResult
      BY <2>1 DEF Moves
    <2>3. \/ cl'[c].report = r.report
          \/ \A g \in DOMAIN cl'[c].report : g \in DOMAIN r.report /\ cl'[c].report[g] = r.report[g]
      BY <2>1 DEF Moves
    <2>4. \A h \in DOMAIN r.report : \A g \in Deps[h] : r.report[h].seen[g] = known[g]
      BY DEF PrivateInv
    <2> QED BY <1>1, <2>2, <2>3, <2>4, PrivateNext
  <1>6. CASE Lookup(c)
    <2>1. Moves(c, "begin", r.todo, r.file, r.src, r.base, r.ok, r.derived, r.runs, r.report)
      BY <1>6, LookupMoves
    <2>2. r.pc \in AtFile
      BY <1>6 DEF Lookup, AtFile
    <2> QED BY <1>1, <1>2, <2>1, <2>2, PrivateNext DEF Moves
  <1>7. CASE Store(c)
    <2>1. Moves(c, "record", r.todo, r.file, r.src, r.base, r.ok, r.derived, r.runs, Reported(c, r.base))
      BY <1>7, StoreMoves
    <2>2. r.pc \in AtFile /\ r.base # NoResult
      BY <1>7 DEF Store, AtFile, TypeInv, ClientType
    <2>3. /\ \A d \in Clients \ {c} : cl'[d] = cl[d]
          /\ cl'[c].pc = "record" /\ cl'[c].file = r.file /\ cl'[c].base = r.base
          /\ cl'[c].report = Reported(c, r.base)
      BY <2>1 DEF Moves
    <2>4. \A f \in DOMAIN cl'[c].report :
            \/ f \in DOMAIN r.report /\ cl'[c].report[f] = r.report[f]
            \/ f = r.file /\ cl'[c].report[f] = r.base
      BY <2>3 DEF Reported
    <2>5. \A f \in DOMAIN r.report : \A g \in Deps[f] : r.report[f].seen[g] = known[g]
      BY DEF PrivateInv
    <2>6. \A f \in DOMAIN cl'[c].report : \A g \in Deps[f] : cl'[c].report[f].seen[g] = known[g]
      BY <1>2, <2>2, <2>4, <2>5
    <2> QED BY <1>1, <1>2, <2>2, <2>3, <2>6, PrivateNext
  <1> QED BY <1>4, <1>5, <1>6, <1>7

LEMMA PrivateRuns ==
  ASSUME TypeInv, NEW c \in Clients, ~KeepOpen, PrivateInv(c), RunAgain(c)
  PROVE  PrivateInv(c)'
  <1> DEFINE none == [f \in {} |-> NoResult]
  <1>1. Moves(c, "next", BatchOf[c], NoText, NoText, NoResult, TRUE, FALSE, cl[c].runs + 1, none)
    BY RunAgainMoves
  <1>2. /\ cl'[c].pc = "next" /\ "next" \notin AtFile /\ DOMAIN cl'[c].report = {}
        /\ \A d \in Clients \ {c} : cl'[d] = cl[d]
    BY <1>1 DEF Moves, AtFile, InTransaction
  <1> QED BY <1>2 DEF PrivateInv, Others

-----------------------------------------------------------------------------
(* The theorems *)

LEMMA LoneInit ==
  ASSUME Init, NEW c \in Clients
  PROVE  LoneInv(c)
  <1> SUFFICES ASSUME Lone(c) PROVE SharedInv(c) /\ PrivateInv(c)
    BY DEF LoneInv
  <1>1. TypeInv
    BY TypeInit
  <1>2. \A d \in Clients : cl[d] = [NewClient(d) EXCEPT !.pc = IF RunsOf[d] = 0 THEN "done" ELSE @]
    BY DEF Init
  <1>3. \A d \in Clients : /\ cl[d].pc \in {"next", "done"} /\ (RunsOf[d] = 0 => cl[d].pc = "done")
                           /\ DOMAIN cl[d].report = {} /\ cl[d].todo = BatchOf[d] /\ ~cl[d].derived
    <2> DEFINE none == [f \in {} |-> NoResult]
    <2>1. \A d \in Clients : NewClient(d) =
            [pc |-> "next", todo |-> BatchOf[d], file |-> NoText, src |-> NoText,
             base |-> NoResult, ok |-> TRUE, derived |-> FALSE, runs |-> 1, report |-> none]
      BY DEF NewClient
    <2>2. DOMAIN none = {}
      OBVIOUS
    <2> HIDE DEF none
    <2> SUFFICES ASSUME NEW d \in Clients
                 PROVE  /\ cl[d].pc \in {"next", "done"} /\ (RunsOf[d] = 0 => cl[d].pc = "done")
                        /\ DOMAIN cl[d].report = {} /\ cl[d].todo = BatchOf[d] /\ ~cl[d].derived
      OBVIOUS
    <2> DEFINE new == NewClient(d)
    <2>3. /\ new = [pc |-> "next", todo |-> BatchOf[d], file |-> NoText, src |-> NoText,
                    base |-> NoResult, ok |-> TRUE, derived |-> FALSE, runs |-> 1, report |-> none]
          /\ cl[d] = [new EXCEPT !.pc = IF RunsOf[d] = 0 THEN "done" ELSE @]
      BY <1>2, <2>1
    <2> HIDE DEF new
    <2>4. /\ new.report = none /\ new.todo = BatchOf[d] /\ new.pc = "next" /\ new.derived = FALSE
          /\ {"pc", "report", "todo", "derived"} \subseteq DOMAIN new
      BY <2>3
    <2>5. /\ cl[d].report = none /\ cl[d].todo = BatchOf[d]
          /\ cl[d].pc = IF RunsOf[d] = 0 THEN "done" ELSE "next"
          /\ cl[d].derived = FALSE
      BY <2>3, <2>4
    <2> QED BY <2>2, <2>5
  <1>4. {"next", "done"} \cap (AtFile \cup InTransaction \cup {"record", "store", "notify", "collect"}) = {}
    BY DEF AtFile, InTransaction
  <1>5. cl[c].pc \notin AtFile \cup InTransaction \cup {"record", "store", "notify", "collect"}
    BY <1>3, <1>4
  <1>6. /\ \A g \in Files : doc[g] = NoText /\ direct[g] = NoText /\ reconciled[g] = NoText
        /\ \A g \in Files, k \in Keys : cache[<<g, k>>] = NoResult
        /\ identity = 0 /\ context = 0
    BY DEF Init
  <1>7. PlaceInv(c)
    BY <1>3, <1>5 DEF PlaceInv, Others, Lone
  <1>8. InputInv(c) /\ KeptInv(c) /\ ContextInv(c)
    BY <1>3, <1>5, <1>6 DEF InputInv, KeptInv, ContextInv
  <1>9. TextInv(c)
    BY <1>3, <1>6 DEF TextInv
  <1>10. FreshInv(c)
    BY <1>3, <1>5, <1>6 DEF FreshInv
  <1>11. PrivateInv(c)
    BY <1>3, <1>5, <1>7 DEF PrivateInv, PlaceInv
  <1> QED BY <1>7, <1>8, <1>9, <1>10, <1>11 DEF SharedInv

LEMMA LoneSame ==
  ASSUME setting' = setting
  PROVE  KeepOpen' = KeepOpen /\ \A c : Lone(c)' <=> Lone(c)
  BY SameSetting DEF Lone

LEMMA LoneStep ==
  ASSUME TypeInv, AnalysisInv, TakenInv, [Next]_vars, NEW c \in Clients, LoneInv(c)
  PROVE  LoneInv(c)'
  <1>1. setting' = setting
    BY StepEffect, StepCases DEF Effect
  <1>2. KeepOpen' = KeepOpen /\ (Lone(c)' <=> Lone(c))
    BY <1>1, LoneSame
  <1> SUFFICES ASSUME Lone(c) PROVE (KeepOpen => SharedInv(c)') /\ (~KeepOpen => PrivateInv(c)')
    BY <1>2 DEF LoneInv
  <1>3. \A d \in Clients : StepOf(d) => d = c
    BY StepEffect, LoneFacts, Fields DEF Effect, AnalysisInv, Sits
  <1>4. ~Abandon(c)
    BY LoneFacts
  <1>5. CASE KeepOpen
    <2>1. SharedInv(c)
      BY <1>5 DEF LoneInv
    <2>2. CASE StepOf(c)
      <3>1. CASE OpenBaseline(c) \/ OpenProbe(c) \/ OpenAgain(c) \/ OpenRewrite(c) \/ Finalize(c)
        BY <1>5, <2>1, <3>1, EditsOf, EditsShared
      <3>2. CASE Take(c) \/ Lookup(c) \/ BeginAnalysis(c) \/ EndAnalysis(c) \/ Store(c) \/ Record(c)
        BY <1>5, <2>1, <3>2, TakeShared, LookupShared, BeginShared, EndShared, StoreShared, RecordShared
      <3>3. CASE StartReconciling(c) \/ NotifyChanged(c) \/ CollectDirty(c) \/ LastFile(c) \/ RunAgain(c)
        BY <1>5, <2>1, <3>3, StartShared, NotifyDoneShared, NotifyTellsShared, CollectShared,
           LastFileShared, RunAgainShared
      <3> QED BY <1>4, <2>2, <3>1, <3>2, <3>3 DEF StepOf, ClientStep
    <2>3. CASE ~StepOf(c)
      <3>1. Push \/ Edit \/ Reconfigure \/ UNCHANGED vars
        BY <1>3, <2>3 DEF Next, Finished, StepOf
      <3> QED BY <1>5, <2>1, <3>1, WorldShared
    <2> QED BY <1>5, <2>2, <2>3
  <1>6. CASE ~KeepOpen
    <2>1. PrivateInv(c)
      BY <1>6 DEF LoneInv
    <2>2. CASE StepOf(c)
      <3>1. ~StartReconciling(c) /\ ~NotifyChanged(c) /\ ~CollectDirty(c)
        BY <1>6, <2>1 DEF StartReconciling, NotifyChanged, CollectDirty, PrivateInv
      <3> QED BY <1>4, <1>6, <2>1, <2>2, <3>1, PrivateOpens, PrivateBatch, PrivateRuns DEF StepOf, ClientStep
    <2>3. CASE ~StepOf(c)
      <3>1. known' = known /\ cl' = cl
        BY <1>3, <2>3, StepCases
      <3> QED BY <1>6, <2>1, <3>1 DEF PrivateInv, Others
    <2> QED BY <1>6, <2>2, <2>3
  <1> QED BY <1>5, <1>6

(* Everything that is kept by every step. *)
SessionInv == TypeInv /\ AnalysisInv /\ TakenInv /\ \A c \in Clients : LoneInv(c)

LEMMA SessionInvariant == Spec => []SessionInv
  <1>1. Init => SessionInv
    BY TypeInit, AnalysisInit, TakenInit, LoneInit DEF SessionInv
  <1>2. SessionInv /\ [Next]_vars => SessionInv'
    <2> SUFFICES ASSUME SessionInv, [Next]_vars PROVE SessionInv'
      OBVIOUS
    <2>1. Clients' = Clients
      OBVIOUS
    <2>2. \A c \in Clients : LoneInv(c)'
      BY LoneStep DEF SessionInv
    <2> QED BY <2>2, TypeStep, AnalysisStep, TakenStep DEF SessionInv, AnalysisInv
  <1> QED BY <1>1, <1>2, PTL DEF Spec

(* Between runs nothing is due, so what is kept and reported is what ty     *)
(* would say.                                                               *)
LEMMA NothingDue ==
  ASSUME SessionInv, NEW c \in Clients, Lone(c), cl[c].pc = "done"
  PROVE  \A f \in Files :
           /\ \A k \in Keys : cache[<<f, k>>] # NoResult => cache[<<f, k>>].seen = Seen(f)
           /\ f \in DOMAIN cl[c].report => cl[c].report[f].seen = Seen(f)
  <1> SUFFICES ASSUME NEW f \in Files
               PROVE  /\ \A k \in Keys : cache[<<f, k>>] # NoResult => cache[<<f, k>>].seen = Seen(f)
                      /\ f \in DOMAIN cl[c].report => cl[c].report[f].seen = Seen(f)
    OBVIOUS
  <1>1. \A res \in ResultsOf(f) : (\A g \in Deps[f] : res.seen[g] = View(g)) => res.seen = Seen(f)
    BY DEF ResultsOf, Seen
  <1>2. /\ \A k \in Keys : cache[<<f, k>>] # NoResult => cache[<<f, k>>] \in ResultsOf(f)
        /\ f \in DOMAIN cl[c].report => cl[c].report[f] \in ResultsOf(f)
    BY DEF SessionInv, TypeInv, ClientType
  <1>3. cl[c].pc \notin AtFile \cup InTransaction \cup {"store", "record", "collect"}
    BY DEF AtFile, InTransaction
  <1>4. CASE KeepOpen
    <2>1. SharedInv(c)
      BY <1>4 DEF SessionInv, LoneInv
    <2>2. \A g \in Files : Settled(c, g) = View(g) /\ ~Due(c, g)
      BY <1>3, <2>1 DEF Settled, InHand, Due, Told, Recording, SharedInv, InputInv
    <2>3. ~Awaited(c, f)
      BY DEF Awaited
    <2>4. \A res : Fresh(c, f, res) => \A g \in Deps[f] : res.seen[g] = View(g)
      BY <2>2, Markers DEF Fresh
    <2>5. ~CheckedAgain(c, f)
      BY <1>3, <2>1 DEF CheckedAgain, SharedInv, PlaceInv
    <2> QED BY <1>1, <1>2, <2>1, <2>3, <2>4, <2>5 DEF SharedInv, FreshInv
  <1>5. CASE ~KeepOpen
    <2>1. PrivateInv(c)
      BY <1>5 DEF SessionInv, LoneInv
    <2>2. \A g \in Files : View(g) = known[g]
      BY <1>3, <1>5, <2>1, PrivateView DEF SessionInv
    <2>3. \A k \in Keys : cache[<<f, k>>] = NoResult
      BY <1>5 DEF SessionInv, AnalysisInv
    <2> QED BY <1>1, <1>2, <2>1, <2>2, <2>3, Markers DEF PrivateInv
  <1> QED BY <1>4, <1>5

LEMMA AloneIsLone ==
  ASSUME Alone
  PROVE  \E c \in Clients : Lone(c)
  BY DEF Alone, Lone

(* When the runs of a process that has the session for itself are over,     *)
(* every cached result says what ty would say now, and none was found under *)
(* another configuration than the one the cache stands for                  *)
(* (cached_redundancies, reconcile_direct_inputs).                          *)
THEOREM CachesAreFresh == Spec => []CacheFresh
  <1>1. SessionInv => CacheFresh
    <2> SUFFICES ASSUME SessionInv, Alone, Idle, NEW k \in DOMAIN cache, cache[k] # NoResult
                 PROVE  cache[k].seen = Seen(k[1]) /\ (identity = context => cache[k].ctx = context)
      BY DEF CacheFresh
    <2>1. PICK c \in Clients : Lone(c)
      BY AloneIsLone
    <2>2. PICK f \in Files, key \in Keys : k = <<f, key>>
      BY DEF SessionInv, TypeInv
    <2>3. cl[c].pc = "done"
      BY DEF Idle
    <2>4. cache[k].seen = Seen(f)
      BY <2>1, <2>2, <2>3, NothingDue
    <2>5. identity = context => cache[k].ctx = context
      <3>1. KeepOpen
        BY <2>2 DEF SessionInv, AnalysisInv
      <3>2. identity <= cache[k].ctx /\ cache[k].ctx <= context
        BY <2>1, <2>2, <3>1 DEF SessionInv, LoneInv, SharedInv, ContextInv
      <3>3. context \in Nat /\ cache[k].ctx \in Nat
        BY <2>2, SettingFacts DEF SessionInv, TypeInv, ResultsOf
      <3> QED BY <3>2, <3>3
    <2> QED BY <2>2, <2>4, <2>5
  <1> QED BY <1>1, SessionInvariant, PTL

(* What a run of such a process reports at its end is what ty says of the   *)
(* files as they are then, in whatever order it took them (the second pass  *)
(* of _orchestrator over the files reconcile_direct_inputs returns).        *)
THEOREM ReportsAreFresh == Spec => []ReportsFresh
  <1>1. SessionInv => ReportsFresh
    <2> SUFFICES ASSUME SessionInv, Alone, NEW d \in Clients, cl[d].pc = "done", NEW f \in DOMAIN cl[d].report
                 PROVE  cl[d].report[f].seen = Seen(f)
      BY DEF ReportsFresh
    <2>1. PICK c \in Clients : Lone(c)
      BY AloneIsLone
    <2>2. d = c
      BY <2>1 DEF SessionInv, LoneInv, SharedInv, PlaceInv, PrivateInv, Others
    <2>3. f \in Files
      BY DEF SessionInv, TypeInv, ClientType
    <2> QED BY <2>1, <2>2, <2>3, NothingDue
  <1> QED BY <1>1, SessionInvariant, PTL

=============================================================================
