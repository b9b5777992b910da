------------------------------ MODULE TySession ------------------------------
(***************************************************************************)
(* The `ty` session of redundant-type-conversion as the daemon keeps it    *)
(* for all hook processes (session.py, the request loop of daemon.py), and *)
(* what a hook process asks of it while it checks its files                *)
(* (redundant_type_conversion/__init__.py, analysis.decide_candidates).    *)
(*                                                                         *)
(* `ty` is external: it answers from the text of the documents it was told *)
(* to keep open and, for the others, from the file as it was when it was   *)
(* last told that it changed; after such a notice it pushes diagnostics    *)
(* for the open documents that depend on the file.  What it finds in a     *)
(* file is represented by the texts it looked at.                          *)
(***************************************************************************)
EXTENDS Naturals

CONSTANTS
  Clients,      \* hook processes
  Files, Texts,
  Deps,         \* Deps[f]: the other files whose text decides about f
  Settings      \* by name, what the processes do and what may happen to them, see below

NoText == "none"
Rewritten == "rewritten"        \* a document in the middle of an analysis
Nobody == "nobody"

ASSUME TySessionAssumption ==
  /\ Deps \in [Files -> SUBSET Files] /\ \A f \in Files : f \notin Deps[f]
  /\ {NoText, Rewritten} \cap Texts = {} /\ Nobody \notin Clients
  /\ \A s \in {Settings[n] : n \in DOMAIN Settings} :
       /\ s.batch \in [Clients -> SUBSET Files] /\ s.candidates \subseteq Files \X Texts
       /\ {s.keepOpen, s.flaky} \subseteq BOOLEAN /\ s.mortal \subseteq Clients
       /\ s.runs \in [Clients -> Nat] /\ {s.edits, s.contexts} \subseteq Nat
       /\ s.keepOpen \/ \E c \in Clients : \A d \in Clients \ {c} : s.runs[d] = 0

VARIABLES
  setting,      \* the setting of this behaviour
  disk,         \* the text of each file
  edits,        \* how often one was edited
  context,      \* ty's configuration (_cache_context)
  doc,          \* the text of the open documents, NoText when not open
  known,        \* what ty knows of the files on disk
  coming,       \* pushes ty has still to send
  dirty,        \* _dirty_uris
  cache,        \* _cached_redundancies
  identity,     \* _cache_identity
  direct,       \* _direct_input_digests
  reconciled,   \* _last_reconciled_digests
  lock,         \* the session lock of the accept loop
  changed,      \* the changed inputs of the reconciliation under way
  cl            \* the hook processes

tyVars == <<doc, known, coming>>
sessionVars == <<dirty, cache, identity, direct, reconciled>>
world == <<setting, disk, edits, context>>
vars == <<world, tyVars, sessionVars, lock, changed, cl>>

BatchOf        == Settings[setting].batch       \* BatchOf[c]: the files the process is given
KeyOf          == Settings[setting].key         \* KeyOf[c]: its level and tracking mode, the cache key
WithCandidates == Settings[setting].candidates  \* the pairs of a file and a text with something to check
KeepOpen       == Settings[setting].keepOpen    \* the daemon's session, or a private one of a process
RunsOf         == Settings[setting].runs        \* runs of each process; without one it takes no part
MaxEdits       == Settings[setting].edits       \* edits of the files by their owner
MaxContexts    == Settings[setting].contexts    \* changes of ty's configuration
Flaky          == Settings[setting].flaky       \* may a request to ty fail or time out?
Mortal         == Settings[setting].mortal      \* processes that may be killed, or stall until dropped

-----------------------------------------------------------------------------
(* Definitions *)

Keys == {KeyOf[c] : c \in Clients}
DocTexts == Texts \cup {NoText, Rewritten}
Opens == {f \in Files : doc[f] # NoText}

(* The text of a file as ty sees it *)
View(f) == IF doc[f] # NoText THEN doc[f] ELSE known[f]

(* What an answer about f depends on besides f's own text *)
Seen(f) == [g \in Deps[f] |-> View(g)]

Results == UNION {[src : Texts, seen : [Deps[f] -> Texts \cup {Rewritten}],
                   ctx : 0..MaxContexts] : f \in Files}
NoResult == [src |-> NoText]

Dependents(fs) == {g \in Files : Deps[g] \cap fs # {}}

InTransaction == {"baseline", "probe", "rebase", "rewrite", "finalize", "end"}
ClientPcs == InTransaction \cup {"next", "lookup", "begin", "store", "record",
              "reconcile", "notify", "collect", "done"}

NewClient(c) == [pc |-> "next", todo |-> BatchOf[c], file |-> NoText, src |-> NoText,
                 base |-> NoResult, ok |-> TRUE, derived |-> FALSE, runs |-> 1,
                 report |-> [f \in {} |-> NoResult]]

Goto(c, pc) == cl' = [cl EXCEPT ![c].pc = pc]

(* with session_lock, for one call outside a transaction *)
Unlocked == lock = Nobody

Init ==
  /\ setting \in DOMAIN Settings
  /\ disk \in [Files -> Texts] /\ edits = 0 /\ context = 0
  /\ doc = [f \in Files |-> NoText] /\ known = disk /\ coming = {}
  /\ dirty = {} /\ cache = [k \in Files \X Keys |-> NoResult] /\ identity = 0
  /\ direct = [f \in Files |-> NoText] /\ reconciled = [f \in Files |-> NoText]
  /\ lock = Nobody /\ changed = {}
  /\ cl = [c \in Clients |-> [NewClient(c) EXCEPT !.pc = IF RunsOf[c] = 0 THEN "done" ELSE @]]

-----------------------------------------------------------------------------
(* A file of the batch: read, looked up, analysed, stored, recorded *)

(* The file is read; without a candidate ty is not asked. *)
Take(c) ==
  /\ cl[c].pc = "next"
  /\ \E f \in cl[c].todo :
       LET asked == <<f, disk[f]>> \in WithCandidates
       IN  cl' = [cl EXCEPT ![c].todo = @ \ {f}, ![c].file = f, ![c].src = disk[f],
                            ![c].base = NoResult, ![c].ok = TRUE,
                            ![c].pc = IF asked THEN "lookup" ELSE "record",
                            ![c].report = IF asked THEN @ ELSE [g \in DOMAIN @ \ {f} |-> @[g]]]
  /\ UNCHANGED <<world, tyVars, sessionVars, lock, changed>>

(* The result the check reports replaces the one it had for the file. *)
Reported(c, r) ==
  [f \in DOMAIN cl[c].report \cup {cl[c].file} |-> IF f = cl[c].file THEN r ELSE cl[c].report[f]]

(* cached_redundancies: everything is dropped when the configuration        *)
(* changed; an entry counts for the same source only.                       *)
Lookup(c) ==
  /\ cl[c].pc = "lookup" /\ Unlocked
  /\ LET valid == KeepOpen /\ context = identity
         entry == cache[<<cl[c].file, KeyOf[c]>>]
         hit   == valid /\ entry # NoResult /\ entry.src = cl[c].src
     IN  /\ IF KeepOpen /\ ~valid
            THEN cache' = [k \in DOMAIN cache |-> NoResult] /\ identity' = context
            ELSE UNCHANGED <<cache, identity>>
         /\ cl' = [cl EXCEPT ![c].pc = IF hit THEN "record" ELSE "begin",
                             ![c].report = IF hit THEN Reported(c, entry) ELSE @]
  /\ UNCHANGED <<world, tyVars, dirty, direct, reconciled, lock, changed>>

(* Mutant: the session is not taken for the time of the analysis. *)
BeginUnlocked(c) ==
  /\ cl[c].pc = "begin" /\ Unlocked /\ Goto(c, "baseline")
  /\ UNCHANGED <<world, tyVars, sessionVars, lock, changed>>

(* begin_analysis; a private session has no transaction. *)
BeginAnalysis(c) ==
  /\ cl[c].pc = "begin" /\ Unlocked /\ Goto(c, "baseline")
  /\ lock' = IF KeepOpen THEN c ELSE lock
  /\ UNCHANGED <<world, tyVars, sessionVars, changed>>

(* open_or_update: didOpen or didChange, then the diagnostics are pulled.   *)
(* The document has the text even when the pull fails.  ty pushes its own   *)
(* diagnostics of the document as well.                                     *)
Update(c, text) ==
  /\ doc' = [doc EXCEPT ![cl[c].file] = text]
  /\ coming' = coming \cup {cl[c].file} /\ UNCHANGED known

Failed(c) == Flaky /\ cl' = [cl EXCEPT ![c].pc = "finalize", ![c].ok = FALSE]

(* The baseline; when it is empty the file is probed with errors ty must    *)
(* report, and put back.                                                    *)
OpenBaseline(c) ==
  /\ cl[c].pc = "baseline" /\ Update(c, cl[c].src)
  /\ \/ cl' = [cl EXCEPT ![c].pc = "rewrite",
                         ![c].base = [src |-> cl[c].src, seen |-> Seen(cl[c].file), ctx |-> context]]
     \/ Goto(c, "probe")
     \/ Failed(c)
  /\ UNCHANGED <<world, sessionVars, lock, changed>>

OpenProbe(c) ==
  /\ cl[c].pc = "probe" /\ Update(c, Rewritten)
  /\ Goto(c, "rebase") \/ Failed(c)
  /\ UNCHANGED <<world, sessionVars, lock, changed>>

(* An excluded file (the probe found nothing) has no redundancies. *)
OpenAgain(c) ==
  /\ cl[c].pc = "rebase" /\ Update(c, cl[c].src)
  /\ \/ \E pc \in {"rewrite", "finalize"} :
          cl' = [cl EXCEPT ![c].pc = pc,
                           ![c].base = [src |-> cl[c].src, seen |-> Seen(cl[c].file), ctx |-> context]]
     \/ Failed(c)
  /\ UNCHANGED <<world, sessionVars, lock, changed>>

(* Mutant: what is found in the rewritten text becomes the result. *)
RewriteBecomesBase(c) ==
  /\ cl[c].pc = "rewrite" /\ Update(c, Rewritten)
  /\ cl' = [cl EXCEPT ![c].pc = "finalize", ![c].base.src = Rewritten]
  /\ UNCHANGED <<world, sessionVars, lock, changed>>

(* A candidate is taken out of the text and the diagnostics are compared    *)
(* with the baseline's.                                                     *)
OpenRewrite(c) ==
  /\ cl[c].pc = "rewrite" /\ Update(c, Rewritten)
  /\ Goto(c, "finalize") \/ Failed(c)
  /\ UNCHANGED <<world, sessionVars, lock, changed>>

(* Mutant: a check that failed leaves the document as it is. *)
FinalizeOnSuccess(c) ==
  /\ cl[c].pc = "finalize" /\ Goto(c, "end")
  /\ IF KeepOpen /\ cl[c].ok THEN Update(c, cl[c].src) ELSE UNCHANGED tyVars
  /\ UNCHANGED <<world, sessionVars, lock, changed>>

(* Mutant: the document of a private session stays open. *)
FinalizeKeepsOpen(c) ==
  /\ cl[c].pc = "finalize" /\ Goto(c, "end") /\ Update(c, cl[c].src)
  /\ UNCHANGED <<world, sessionVars, lock, changed>>

(* finalize: the text goes back, or the document is closed when the session *)
(* is private.  A pull that fails is logged only: the text was sent.        *)
Finalize(c) ==
  /\ cl[c].pc = "finalize" /\ Goto(c, "end")
  /\ IF KeepOpen THEN Update(c, cl[c].src)
     ELSE doc' = [doc EXCEPT ![cl[c].file] = NoText] /\ UNCHANGED <<known, coming>>
  /\ UNCHANGED <<world, sessionVars, lock, changed>>

(* Mutant: a check that failed is begun again. *)
EndAnalysisRetrying(c) ==
  /\ cl[c].pc = "end" /\ Goto(c, IF cl[c].ok THEN "store" ELSE "begin")
  /\ lock' = IF lock = c THEN Nobody ELSE lock
  /\ UNCHANGED <<world, tyVars, sessionVars, changed>>

(* end_analysis; a failed check reports nothing and records nothing. *)
EndAnalysis(c) ==
  /\ cl[c].pc = "end" /\ Goto(c, IF cl[c].ok THEN "store" ELSE "next")
  /\ lock' = IF lock = c THEN Nobody ELSE lock
  /\ UNCHANGED <<world, tyVars, sessionVars, changed>>

(* cache_redundancies, a call of its own *)
Store(c) ==
  /\ cl[c].pc = "store" /\ Unlocked
  /\ cache' = IF KeepOpen THEN [cache EXCEPT ![<<cl[c].file, KeyOf[c]>>] = cl[c].base] ELSE cache
  /\ cl' = [cl EXCEPT ![c].pc = "record", ![c].report = Reported(c, cl[c].base)]
  /\ UNCHANGED <<world, tyVars, dirty, identity, direct, reconciled, lock, changed>>

(* record_direct_input: not for the files that are checked again *)
Record(c) ==
  /\ cl[c].pc = "record" /\ (cl[c].derived \/ Unlocked) /\ Goto(c, "next")
  /\ direct' = IF KeepOpen /\ ~cl[c].derived
               THEN [direct EXCEPT ![cl[c].file] = cl[c].src] ELSE direct
  /\ UNCHANGED <<world, tyVars, dirty, cache, identity, reconciled, lock, changed>>

-----------------------------------------------------------------------------
(* reconcile_direct_inputs, once after the batch *)

Changed == {f \in Files : direct[f] # NoText /\ reconciled[f] # direct[f]}

(* The barrier: a pull about any open document.  When it is answered ty has *)
(* sent every push it owed.                                                 *)
CaughtUp == Opens # {}

(* The changed inputs are taken, whoever recorded them, and what was dirty  *)
(* before is dropped, once ty has caught up or failed to.                   *)
StartReconciling(c) ==
  /\ cl[c].pc = "next" /\ cl[c].todo = {} /\ ~cl[c].derived /\ KeepOpen /\ Unlocked
  /\ lock' = c /\ changed' = Changed
  /\ dirty' = {} /\ (IF CaughtUp THEN coming' = {} \/ (Flaky /\ UNCHANGED coming) ELSE UNCHANGED coming)
  /\ Goto(c, "notify")
  /\ UNCHANGED <<world, doc, known, cache, identity, direct, reconciled>>

(* Mutant: the files whose diagnostics changed are not checked again. *)
RunEndsAtOnce(c, again) ==
  cl' = [cl EXCEPT ![c].pc = "done", ![c].todo = {}, ![c].derived = TRUE]

(* The run ends; or the files whose diagnostics changed are checked again.  *)
RunEnds(c, again) ==
  cl' = [cl EXCEPT ![c].pc = IF again = {} THEN "done" ELSE "next",
                   ![c].todo = again, ![c].derived = TRUE]

(* Mutant: inputs ty could not be told about are not kept. *)
KeptDropped(fs) == [f \in Files |-> NoText]

(* self._direct_input_digests.update(changed) *)
Kept(fs) == [f \in Files |-> IF f \in fs THEN direct[f] ELSE NoText]

(* workspace/didChangeWatchedFiles for all of them; a failure keeps them for *)
(* the next reconciliation.                                                  *)
NotifyChanged(c) ==
  /\ cl[c].pc = "notify"
  /\ \/ /\ changed = {} /\ direct' = Kept({}) /\ RunEnds(c, {}) /\ lock' = Nobody
        /\ UNCHANGED <<tyVars, reconciled>>
     \/ /\ changed # {} /\ Flaky /\ direct' = Kept(changed) /\ RunEnds(c, {}) /\ lock' = Nobody
        /\ UNCHANGED <<tyVars, reconciled>>
     \/ /\ changed # {} /\ direct' = Kept({}) /\ Goto(c, "collect") /\ UNCHANGED lock
        /\ reconciled' = [f \in Files |-> IF f \in changed THEN direct[f] ELSE reconciled[f]]
        /\ known' = [f \in Files |-> IF f \in changed THEN disk[f] ELSE known[f]]
        /\ coming' = coming \cup (Dependents(changed) \cap Opens) /\ UNCHANGED doc
  /\ changed' = {} /\ UNCHANGED <<world, dirty, cache, identity>>

(* Mutant: the cached results of the pushed files stay. *)
InvalidatedNot(ds) == cache

Invalidated(ds) == [k \in DOMAIN cache |-> IF k[1] \in ds THEN NoResult ELSE cache[k]]

(* The second barrier, the snapshot of the dirty files, their cached        *)
(* results are dropped; the open ones are returned.                         *)
CollectDirty(c) ==
  /\ cl[c].pc = "collect"
  /\ \E arrived \in {coming} \cup (IF Flaky \/ ~CaughtUp THEN SUBSET coming ELSE {}) :
       LET ds == dirty \cup arrived
       IN  /\ coming' = coming \ arrived /\ dirty' = {}
           /\ cache' = Invalidated(ds)
           /\ RunEnds(c, ds \cap Opens)
  /\ lock' = Nobody
  /\ UNCHANGED <<world, doc, known, identity, direct, reconciled, changed>>

-----------------------------------------------------------------------------
(* A run of a private session, and one that checked the returned files, is  *)
(* over when its files are; a process may run again.  A private `ty` is new  *)
(* with its process and reads the files as they are then.                    *)

LastFile(c) ==
  /\ cl[c].pc = "next" /\ cl[c].todo = {} /\ (cl[c].derived \/ ~KeepOpen) /\ Goto(c, "done")
  /\ UNCHANGED <<world, tyVars, sessionVars, lock, changed>>

RunAgain(c) ==
  /\ cl[c].pc = "done" /\ cl[c].runs < RunsOf[c]
  /\ cl' = [cl EXCEPT ![c] = [NewClient(c) EXCEPT !.runs = cl[c].runs + 1]]
  /\ known' = IF KeepOpen THEN known ELSE disk
  /\ UNCHANGED <<world, doc, coming, sessionVars, lock, changed>>

(* _on_notification: a push arrives on the reader's thread *)
Push ==
  /\ \E f \in coming : coming' = coming \ {f} /\ dirty' = dirty \cup {f}
  /\ UNCHANGED <<world, doc, known, cache, identity, direct, reconciled, lock, changed, cl>>

(* The client is killed or says nothing for the request timeout: its worker *)
(* ends and releases the lock (the finally clause of _handle_connection).    *)
(* A reconciliation under way is one call and goes on, so only a client in a *)
(* transaction or between calls is taken.  A private session goes with its   *)
(* process.                                                                  *)
Abandon(c) ==
  /\ c \in Mortal /\ KeepOpen /\ cl[c].pc \notin {"notify", "collect", "done"}
  /\ cl' = [cl EXCEPT ![c].pc = "done", ![c].ok = FALSE, ![c].report = [f \in {} |-> NoResult]]
  /\ lock' = IF lock = c THEN Nobody ELSE lock
  /\ UNCHANGED <<world, tyVars, sessionVars, changed>>

(* The owner edits a file, or ty's configuration, between the runs. *)
Idle == \A c \in Clients : cl[c].pc = "done"

Edit ==
  /\ edits < MaxEdits /\ Idle
  /\ \E f \in Files : \E t \in Texts \ {disk[f]} : disk' = [disk EXCEPT ![f] = t]
  /\ edits' = edits + 1
  /\ UNCHANGED <<setting, context, tyVars, sessionVars, lock, changed, cl>>

Reconfigure ==
  /\ context < MaxContexts /\ context' = context + 1
  /\ UNCHANGED <<setting, disk, edits, tyVars, sessionVars, lock, changed, cl>>

Finished == Idle /\ UNCHANGED vars

ClientStep(c) ==
  \/ Take(c) \/ Lookup(c) \/ BeginAnalysis(c) \/ OpenBaseline(c) \/ OpenProbe(c)
  \/ OpenAgain(c) \/ OpenRewrite(c) \/ Finalize(c) \/ EndAnalysis(c) \/ Store(c)
  \/ Record(c) \/ StartReconciling(c) \/ NotifyChanged(c) \/ CollectDirty(c) \/ LastFile(c)

Next ==
  \/ \E c \in Clients : ClientStep(c) \/ RunAgain(c) \/ Abandon(c)
  \/ Push \/ Edit \/ Reconfigure \/ Finished

Spec == Init /\ [][Next]_vars

(* Every process goes on, and nobody keeps the lock once it can release it. *)
FairSpec == Spec /\ \A c \in Clients : WF_vars(ClientStep(c))

-----------------------------------------------------------------------------
(* Properties *)

TypeOK ==
  /\ setting \in DOMAIN Settings
  /\ disk \in [Files -> Texts] /\ edits \in 0..MaxEdits /\ context \in 0..MaxContexts
  /\ doc \in [Files -> DocTexts] /\ known \in [Files -> Texts]
  /\ coming \subseteq Files /\ dirty \subseteq Files /\ changed \subseteq Files
  /\ cache \in [Files \X Keys -> Results \cup {NoResult}] /\ identity \in 0..MaxContexts
  /\ direct \in [Files -> Texts \cup {NoText}] /\ reconciled \in [Files -> Texts \cup {NoText}]
  /\ lock \in Clients \cup {Nobody}
  /\ DOMAIN cl = Clients /\ \A c \in Clients : cl[c].pc \in ClientPcs

(* From the baseline to the last rewrite no other process changes what ty    *)
(* sees of the files this one depends on: the diagnostics that are compared  *)
(* differ by the rewrite only, whoever is killed or dropped meanwhile        *)
(* (begin_analysis, end_analysis).                                           *)
BaselineComparable ==
  \A c \in Clients : cl[c].pc \in {"rewrite", "finalize"} /\ cl[c].base # NoResult =>
    cl[c].base.seen = Seen(cl[c].file)

(* A rewritten document is seen by nobody after the analysis: it is put back *)
(* before another process can use the session (finalize), when no process is *)
(* killed or dropped before it could.                                        *)
DocsReal ==
  Mortal = {} => \A f \in Files : doc[f] = Rewritten =>
    \E c \in Clients : cl[c].pc \in InTransaction /\ cl[c].file = f

(* An input recorded for ty is forgotten only when ty was told of it, also   *)
(* when another process reconciles it and when telling ty fails.             *)
ForgetsUntold == \E f \in Files : /\ direct[f] # NoText /\ direct'[f] = NoText
                                 /\ reconciled'[f] # direct[f]
ChangeKept == [][~ForgetsUntold]_vars

(* One process uses the session and is not killed, and ty answers. *)
Alone == ~Flaky /\ Mortal = {} /\ \E c \in Clients : \A d \in Clients \ {c} : RunsOf[d] = 0

(* When a process alone is through with its runs, every cached result says   *)
(* what ty would say now: each was dropped when a file it depends on         *)
(* changed, and none was found under another configuration than the one the  *)
(* cache stands for.                                                         *)
CacheFresh ==
  Alone /\ Idle => \A k \in DOMAIN cache : cache[k] # NoResult =>
    /\ cache[k].seen = Seen(k[1])
    /\ identity = context => cache[k].ctx = context

(* What a run of a process alone reports at its end is what ty says of the   *)
(* files as they are then, in whatever order the batch was checked (the      *)
(* second pass).                                                             *)
ReportsFresh ==
  Alone => \A c \in Clients : cl[c].pc = "done" =>
    \A f \in DOMAIN cl[c].report : cl[c].report[f].seen = Seen(f)

(* A document that is left open has the text the file was last recorded      *)
(* with (docs/adr/0041 on files kept open).                                  *)
DocsCurrent ==
  Idle => \A f \in Opens : reconciled[f] # NoText => doc[f] = reconciled[f]

(* A private session keeps nothing between the analyses.                     *)
PrivateForgets ==
  ~KeepOpen => /\ \A f \in Opens : \E c \in Clients : cl[c].pc \in InTransaction /\ cl[c].file = f
               /\ \A k \in DOMAIN cache : cache[k] = NoResult

(* An analysis is not disturbed and disturbs nobody: what it compares        *)
(* differs by its own rewrite, the rewrite is seen by nobody after it, and a *)
(* private session keeps nothing of it.                                      *)
AnalysesApart == TypeOK /\ BaselineComparable /\ DocsReal /\ PrivateForgets

(* Every run ends, whoever is lost in the middle of a transaction.           *)
RunsEnd == \A c \in Clients : cl[c].pc = "next" ~> cl[c].pc = "done"
=============================================================================
