------------------------------ MODULE ResultStore ------------------------------
(***************************************************************************)
(* What the cache of one source file promises to the processes that use    *)
(* it, with no blob, stat, timestamp, hash or lock: a set of entries that  *)
(* may lose members at any moment, is asked for the entry of a hook, and   *)
(* forgets, whenever an entry is filed, all that was filed for another     *)
(* content or another version.                                             *)
(***************************************************************************)
CONSTANTS Procs, Contents, Hooks, Versions, None

VARIABLES
  content,      \* current content of the source file
  kept,         \* the entries the store has, each with its hook
  at,           \* how far the call of each process has come
  call,         \* [hook, version] of the call
  seen,         \* contents the file had since a question was asked
  answer,       \* the entry a question was answered with
  source,       \* the content an analysis was made of
  under         \* the content its result will be filed under

progress == <<call, seen, answer, source, under>>
vars == <<content, kept, at, progress>>

--------------------------------------------------------------------------------

\* Any entry may be gone: an unreadable file, a killed process, a lock that
\* could not be had in time.  None comes back.
MayForget == kept' \in SUBSET kept

Move(p, from, to) == at[p] = from /\ at' = [at EXCEPT ![p] = to]

\* The process is done with the file.
Leave(p) ==
  /\ at' = [at EXCEPT ![p] = "idle"]
  /\ call' = [call EXCEPT ![p] = None]
  /\ seen' = [seen EXCEPT ![p] = {}]
  /\ answer' = [answer EXCEPT ![p] = None]
  /\ source' = [source EXCEPT ![p] = None]
  /\ under' = [under EXCEPT ![p] = None]

Ask(p, h, v) ==
  /\ Move(p, "idle", "asked")
  /\ call' = [call EXCEPT ![p] = [hook |-> h, version |-> v]]
  /\ seen' = [seen EXCEPT ![p] = {content}]
  /\ UNCHANGED <<content, kept, answer, source, under>>

\* The answer is an entry of the hook, filed by this version, for a content the
\* file had since the question.
Answers(p, f) ==
  /\ f.hook = call[p].hook
  /\ f.entry.by = call[p].version
  /\ f.entry.under \in seen[p]

Answer(p) ==
  /\ Move(p, "asked", "answered")
  /\ \E f \in kept : Answers(p, f) /\ answer' = [answer EXCEPT ![p] = f.entry]
  /\ UNCHANGED <<content, kept, call, seen, source, under>>

\* The store may always fail to answer.
Ignore(p) ==
  /\ Move(p, "asked", "missed")
  /\ seen' = [seen EXCEPT ![p] = {}]
  /\ MayForget
  /\ UNCHANGED <<content, call, answer, source, under>>

Analyse(p) ==
  /\ Move(p, "missed", "analysed")
  /\ source' = [source EXCEPT ![p] = content]
  /\ UNCHANGED <<content, kept, call, seen, answer, under>>

Identify(p) ==
  /\ Move(p, "analysed", "identified")
  /\ under' = [under EXCEPT ![p] = content]
  /\ UNCHANGED <<content, kept, call, seen, answer, source>>

Filed(p) == [hook |-> call[p].hook,
             entry |-> [of |-> source[p], under |-> under[p], by |-> call[p].version]]

\* Entries of the same content and version that a newly filed one leaves.
Beside(p) ==
  {f \in kept : /\ f.hook # call[p].hook
                /\ f.entry.under = under[p]
                /\ f.entry.by = call[p].version}

File(p) ==
  /\ at[p] = "identified"
  /\ kept' = Beside(p) \cup {Filed(p)}
  /\ Leave(p)
  /\ UNCHANGED content

\* The caller has its answer, or the call failed, or the process died.
End(p) ==
  /\ at[p] # "idle"
  /\ MayForget
  /\ Leave(p)
  /\ UNCHANGED content

Lose == MayForget /\ UNCHANGED <<content, at, progress>>

Edit(c) ==
  /\ content' = c
  /\ seen' = [p \in Procs |-> IF at[p] \in {"asked", "answered"} THEN seen[p] \cup {c} ELSE seen[p]]
  /\ UNCHANGED <<kept, at, call, answer, source, under>>

--------------------------------------------------------------------------------

Init ==
  /\ content \in Contents
  /\ kept = {}
  /\ at = [p \in Procs |-> "idle"]
  /\ call = [p \in Procs |-> None]
  /\ seen = [p \in Procs |-> {}]
  /\ answer = [p \in Procs |-> None]
  /\ source = [p \in Procs |-> None]
  /\ under = [p \in Procs |-> None]

Next ==
  \/ \E p \in Procs :
       \/ \E h \in Hooks, v \in Versions : Ask(p, h, v)
       \/ Answer(p) \/ Ignore(p)
       \/ Analyse(p) \/ Identify(p) \/ File(p)
       \/ End(p)
  \/ \E c \in Contents : Edit(c)
  \/ Lose

Spec == Init /\ [][Next]_vars
================================================================================
