--------------------------- MODULE ResultCacheStore ---------------------------
(* The cache of ResultCache seen as the store of ResultStore. *)
EXTENDS ResultCache

FactsOf(b) == {[hook |-> h, entry |-> b.results[h]] : h \in {g \in Hooks : b.results[g] # None}}

Holding(steps) == lock \in Procs /\ pc[lock] \in steps

\* What the store has: the entries of the blob.  A blob damaged while a process
\* is inside with what it loaded is not lost before that process fails to write
\* it back; the entry that process adds is not there before it does.
Kept ==
  IF blob \in Blobs THEN FactsOf(blob)
  ELSE IF Holding({"getHash", "getWrite"}) THEN FactsOf(data[lock])
  ELSE IF Holding({"setWrite"}) THEN {f \in FactsOf(data[lock]) : f.hook # job[lock].hook}
  ELSE {}

PhaseOf(step) ==
  CASE step \in GetPcs -> "asked"
    [] step = "hit" -> "answered"
    [] step = "miss" -> "missed"
    [] step \in {"setStat", "setHash"} -> "analysed"
    [] step \in {"setLock", "setLoad", "setWrite"} -> "identified"
    [] OTHER -> "idle"

At == [p \in Procs |-> PhaseOf(pc[p])]

Store == INSTANCE ResultStore WITH kept <- Kept, at <- At, call <- job, under <- hash

\* The calls of any number of processes, with their separate stat, load, hash and
\* rename steps, the blob's merge of hooks and versions, its refreshed stat, its
\* damage and the processes' deaths, amount to a store that answers with what was
\* filed for a content the file had since the question, forgets at will, and never
\* brings back what it forgot (_cache.py get_cached_result, set_cached_result).
StoreImplemented == Store!Spec
================================================================================
