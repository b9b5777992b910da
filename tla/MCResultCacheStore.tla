-------------------------- MODULE MCResultCacheStore --------------------------
(* Instances of ResultCacheStore, and with it of ResultCache. *)
EXTENDS ResultCacheStore, TLC

CONSTANTS p1, p2, c1, c2, h1, h2, v1, v2

\* c1 and c2 have the same size: only the timestamp or the hash tells them apart.
MCSizeOf == c1 :> 1 @@ c2 :> 1

\* Two hooks of one version, and one of them in a second version: the jobs that share
\* a hook, a version, or neither.
ThreeJobs == \A p \in Procs : job[p] # [hook |-> h2, version |-> v2]
================================================================================
