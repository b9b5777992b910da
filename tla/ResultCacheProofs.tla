--------------------------- MODULE ResultCacheProofs ---------------------------
(* Theorems of ResultCache, for every value of its constants, and that it  *)
(* implements the store of ResultStore.                                   *)
EXTENDS ResultCacheStore, TLAPS

\* What a store keeps of an older blob is a table of entries.
LEMMA SiblingsType ==
  ASSUME NEW b, NEW v, NEW h
  PROVE  SiblingsKept(b, v, h) \in [Hooks -> Entries \cup {None}]
BY DEF SiblingsKept, NoResults, Blobs

\* A process about to store writes a blob.
LEMMA NewBlobType ==
  ASSUME NEW p \in Procs, job[p] \in Jobs, stat[p] \in Stats, hash[p] \in Contents, source[p] \in Contents
  PROVE  NewBlob(p) \in Blobs
<1>1. EntryOf(p) \in Entries
  BY DEF EntryOf, Entries, Jobs
<1>2. [SiblingsKept(blob, job[p].version, hash[p]) EXCEPT ![job[p].hook] = EntryOf(p)]
        \in [Hooks -> Entries \cup {None}]
  BY <1>1, SiblingsType
<1>3. QED
  BY <1>2 DEF NewBlob, Blobs, Jobs, Stats

\* A lookup that misses keeps the types.
LEMMA MissType ==
  ASSUME TypeOK, NEW p \in Procs, Miss(p), pc[p] # "idle",
         UNCHANGED <<content, mtime>>, blob' \in Blobs \cup {Absent, Corrupt}
  PROVE  TypeOK'
BY CacheConstants DEF TypeOK, Miss, Goto, Unlocked, Pcs, GetPcs, SetPcs

\* A process that is done keeps the types.
LEMMA FinishType ==
  ASSUME TypeOK, NEW p \in Procs, Finish(p),
         UNCHANGED <<content, mtime>>, blob' \in Blobs \cup {Absent, Corrupt}
  PROVE  TypeOK'
BY CacheConstants DEF TypeOK, Finish, Goto, Unlocked, Pcs, GetPcs, SetPcs

\* A call that gives up keeps the types.
LEMMA GiveUpType ==
  ASSUME TypeOK, NEW p \in Procs, GiveUp(p), pc[p] # "idle",
         UNCHANGED <<content, mtime>>, blob' \in Blobs \cup {Absent, Corrupt}
  PROVE  TypeOK'
BY MissType, FinishType DEF GiveUp

\* Returning an entry, or missing for want of one, keeps the types.
LEMMA ReturnEntryType ==
  ASSUME TypeOK, NEW p \in Procs, NEW b \in Blobs, ReturnEntry(p, b), pc[p] # "idle",
         UNCHANGED <<content, mtime>>, blob' \in Blobs \cup {Absent, Corrupt}
  PROVE  TypeOK'
<1>1. CASE Miss(p)
  BY <1>1, MissType
<1>2. CASE ~ Miss(p)
  <2>1. b.results[job[p].hook] \in Entries
    BY <1>2 DEF ReturnEntry, TypeOK, Blobs, Jobs
  <2>2. QED
    BY <1>2, <2>1, CacheConstants DEF ReturnEntry, TypeOK, Goto, Unlocked, Pcs, GetPcs, SetPcs
<1>3. QED
  BY <1>1, <1>2

\* One step of the cache keeps every variable in its type.
LEMMA TypeStep == TypeOK /\ [Next]_vars => TypeOK'
<1> SUFFICES ASSUME TypeOK, [Next]_vars PROVE TypeOK'
  OBVIOUS
<1> USE DEF file, locals
<1>a. blob' \in Blobs \cup {Absent, Corrupt} <=> blob' \in Blobs \/ blob' = Absent \/ blob' = Corrupt
  OBVIOUS
<1>b. CurrentStat \in Stats
  BY DEF TypeOK, CurrentStat, Stats
<1>1. ASSUME NEW p \in Procs, NEW h \in Hooks, NEW v \in Versions, Begin(p, h, v)
      PROVE  TypeOK'
  BY <1>1, <1>b DEF Begin, TypeOK, Goto, Jobs, Pcs, GetPcs, SetPcs
<1>2. ASSUME NEW p \in Procs, CheckExists(p) PROVE TypeOK'
  <2>1. CASE Miss(p)
    BY <1>2, <2>1, MissType DEF CheckExists, TypeOK
  <2>2. CASE ~ Miss(p)
    BY <1>2, <2>2 DEF CheckExists, TypeOK, Goto, Pcs, GetPcs, SetPcs
  <2>3. QED
    BY <2>1, <2>2
<1>3. ASSUME NEW p \in Procs, Acquire(p) PROVE TypeOK'
  BY <1>3 DEF Acquire, TypeOK, Goto, Pcs, GetPcs, SetPcs
<1>4. ASSUME NEW p \in Procs, TimeOut(p) PROVE TypeOK'
  BY <1>4, GiveUpType DEF TimeOut, TypeOK
<1>5. ASSUME NEW p \in Procs, LoadForGet(p) PROVE TypeOK'
  <2>0. pc[p] = "getLoad" /\ UNCHANGED <<content, mtime, blob>> /\ blob' \in Blobs \cup {Absent, Corrupt}
    BY <1>5 DEF LoadForGet, TypeOK
  <2>1. CASE Miss(p)
    BY <2>0, <2>1, MissType
  <2>2. CASE blob \in Blobs /\ ReturnEntry(p, blob)
    BY <2>0, <2>2, ReturnEntryType
  <2>3. CASE ~ Miss(p) /\ ~ ReturnEntry(p, blob)
    BY <1>5, <2>3 DEF LoadForGet, TypeOK, Goto, Pcs, GetPcs, SetPcs
  <2>4. QED
    BY <1>5, <2>1, <2>2, <2>3 DEF LoadForGet
<1>6. ASSUME NEW p \in Procs, HashForGet(p) PROVE TypeOK'
  <2>0. pc[p] = "getHash" /\ UNCHANGED <<content, mtime, blob>> /\ blob' \in Blobs \cup {Absent, Corrupt}
    BY <1>6 DEF HashForGet, TypeOK
  <2>1. CASE Miss(p)
    BY <2>0, <2>1, MissType
  <2>2. CASE ~ Miss(p)
    <3>1. Refreshed(data[p], stat[p]) \in Blobs
      BY <2>0 DEF Refreshed, TypeOK, Blobs, Stats, GetPcs
    <3>2. QED
      BY <1>6, <2>2, <3>1 DEF HashForGet, TypeOK, Goto, Pcs, GetPcs, SetPcs
  <2>3. QED
    BY <2>1, <2>2
<1>7. ASSUME NEW p \in Procs, WriteForGet(p) PROVE TypeOK'
  BY <1>7, ReturnEntryType DEF WriteForGet, TypeOK
<1>8. ASSUME NEW p \in Procs, TakeHit(p) PROVE TypeOK'
  BY <1>8, FinishType DEF TakeHit, TypeOK
<1>9. ASSUME NEW p \in Procs, Analyse(p) PROVE TypeOK'
  BY <1>9 DEF Analyse, TypeOK, Goto, Pcs, GetPcs, SetPcs
<1>10. ASSUME NEW p \in Procs, StatForSet(p) PROVE TypeOK'
  BY <1>10, <1>b DEF StatForSet, TypeOK, Goto, Pcs, GetPcs, SetPcs
<1>11. ASSUME NEW p \in Procs, HashForSet(p) PROVE TypeOK'
  BY <1>11 DEF HashForSet, TypeOK, Goto, Pcs, GetPcs, SetPcs
<1>12. ASSUME NEW p \in Procs, LoadForSet(p) PROVE TypeOK'
  <2>0. pc[p] = "setLoad" /\ UNCHANGED <<content, mtime, blob>> /\ blob' \in Blobs \cup {Absent, Corrupt}
    BY <1>12 DEF LoadForSet, TypeOK
  <2>1. CASE Finish(p)
    BY <2>0, <2>1, FinishType
  <2>2. CASE ~ Finish(p)
    <3>1. NewBlob(p) \in Blobs
      BY <2>0, NewBlobType DEF TypeOK, SetPcs
    <3>2. QED
      BY <1>12, <2>2, <3>1 DEF LoadForSet, TypeOK, Goto, Pcs, GetPcs, SetPcs
  <2>3. QED
    BY <2>1, <2>2
<1>13. ASSUME NEW p \in Procs, WriteForSet(p) PROVE TypeOK'
  BY <1>13, FinishType DEF WriteForSet, TypeOK
<1>14. ASSUME NEW p \in Procs, IoError(p) PROVE TypeOK'
  BY <1>14, GiveUpType DEF IoError, TypeOK, GetPcs, SetPcs
<1>15. ASSUME NEW p \in Procs, Crash(p) PROVE TypeOK'
  BY <1>15, FinishType DEF Crash, TypeOK
<1>16. ASSUME NEW c \in Contents, Edit(c) PROVE TypeOK'
  BY <1>16, CacheConstants DEF Edit, TypeOK, Time
<1>17. ASSUME Damage \/ ClearCache PROVE TypeOK'
  BY <1>17 DEF Damage, ClearCache, TypeOK
<1>18. CASE UNCHANGED vars
  BY <1>18 DEF vars, TypeOK
<1>19. QED
  BY <1>1, <1>2, <1>3, <1>4, <1>5, <1>6, <1>7, <1>8, <1>9, <1>10, <1>11, <1>12, <1>13,
     <1>14, <1>15, <1>16, <1>17, <1>18 DEF Next, Proceed

\* Every variable of the cache keeps its type, and a call has what it needs at
\* each of its steps, for any number of processes, hooks, versions and edits.
THEOREM TypeCorrect == Spec => []TypeOK
<1>1. Init => TypeOK
  BY CacheConstants DEF Init, TypeOK, Time, Pcs, GetPcs, SetPcs
<1>2. QED
  BY <1>1, TypeStep, PTL DEF Spec

--------------------------------------------------------------------------------
(* The lock *)

\* Every step keeps the lock with the process that is inside.
LEMMA LockStep == TypeOK /\ LockDiscipline /\ [Next]_vars => LockDiscipline'
<1> SUFFICES ASSUME TypeOK, LockDiscipline, [Next]_vars PROVE LockDiscipline'
  OBVIOUS
<1> USE CacheConstants DEF LockDiscipline, Inside
<1>0. None \notin Procs
  OBVIOUS
<1>a. ASSUME NEW p \in Procs, Miss(p) \/ Finish(p) PROVE LockDiscipline'
  BY <1>0, <1>a DEF TypeOK, Miss, Finish, Goto, Unlocked
<1>1. ASSUME NEW p \in Procs, NEW h \in Hooks, NEW v \in Versions, Begin(p, h, v)
      PROVE  LockDiscipline'
  BY <1>1 DEF Begin, TypeOK, Goto
<1>2. ASSUME NEW p \in Procs, CheckExists(p) PROVE LockDiscipline'
  BY <1>2, <1>a DEF CheckExists, TypeOK, Goto
<1>3. ASSUME NEW p \in Procs, Acquire(p) PROVE LockDiscipline'
  BY <1>0, <1>3 DEF Acquire, LockFree, TypeOK, Goto
<1>4. ASSUME NEW p \in Procs, TimeOut(p) \/ IoError(p) PROVE LockDiscipline'
  BY <1>4, <1>a DEF TimeOut, IoError, GiveUp
<1>5. ASSUME NEW p \in Procs, NEW b, ReturnEntry(p, b) PROVE LockDiscipline'
  BY <1>0, <1>5, <1>a DEF ReturnEntry, TypeOK, Goto, Unlocked
<1>6. ASSUME NEW p \in Procs, LoadForGet(p) PROVE LockDiscipline'
  <2>1. CASE Miss(p) \/ ReturnEntry(p, blob)
    BY <2>1, <1>a, <1>5
  <2>2. CASE ~ (Miss(p) \/ ReturnEntry(p, blob))
    BY <1>6, <2>2 DEF LoadForGet, TypeOK, Goto
  <2>3. QED
    BY <2>1, <2>2
<1>7. ASSUME NEW p \in Procs, HashForGet(p) \/ LoadForSet(p) PROVE LockDiscipline'
  BY <1>7, <1>a DEF HashForGet, LoadForSet, TypeOK, Goto
<1>8. ASSUME NEW p \in Procs, WriteForGet(p) PROVE LockDiscipline'
  BY <1>8, <1>5 DEF WriteForGet
<1>9. ASSUME NEW p \in Procs, TakeHit(p) \/ WriteForSet(p) \/ Crash(p) PROVE LockDiscipline'
  BY <1>9, <1>a DEF TakeHit, WriteForSet, Crash
<1>10. ASSUME NEW p \in Procs, Analyse(p) \/ StatForSet(p) \/ HashForSet(p) PROVE LockDiscipline'
  BY <1>10 DEF Analyse, StatForSet, HashForSet, TypeOK, Goto
<1>11. ASSUME (\E c \in Contents : Edit(c)) \/ Damage \/ ClearCache \/ UNCHANGED vars
       PROVE  LockDiscipline'
  BY <1>11 DEF Edit, Damage, ClearCache, vars
<1>12. QED
  BY <1>1, <1>2, <1>3, <1>4, <1>6, <1>7, <1>8, <1>9, <1>10, <1>11 DEF Next, Proceed

\* No path out of the critical section of the cache keeps the flock, and two
\* processes are never inside together.
THEOREM LockIsDisciplined == Spec => []LockDiscipline
<1>1. Init => LockDiscipline
  <2>1. None \notin Procs
    BY CacheConstants
  <2>2. QED
    BY <2>1, ZenonT(40) DEF Init, LockDiscipline, Inside
<1>2. QED
  BY <1>1, LockStep, TypeCorrect, PTL DEF Spec

--------------------------------------------------------------------------------
(* Entries and the identity they are filed under *)

Loaded == {"getHash", "getWrite", "setWrite"}

\* The blob, and every cache_data on its way back to the blob, is filed right.
FiledInv ==
  /\ EntriesMatchBlob
  /\ \A p \in Procs : pc[p] \in Loaded => FiledUnder(data[p])

\* The blob of a store files every entry under the blob's hash and version.
LEMMA FiledNewBlob ==
  ASSUME NEW p \in Procs, job[p] \in Jobs, EntriesMatchBlob, hash[p] \in Contents
  PROVE  FiledUnder(NewBlob(p))
<1> DEFINE kept == SiblingsKept(blob, job[p].version, hash[p])
<1>1. \A h \in Hooks : kept[h] # None => kept[h].under = hash[p] /\ kept[h].by = job[p].version
  BY DEF SiblingsKept, NoResults, EntriesMatchBlob, FiledUnder
<1>2. kept \in [Hooks -> Entries \cup {None}]
  BY SiblingsType
<1>3. EntryOf(p).under = hash[p] /\ EntryOf(p).by = job[p].version
  BY DEF EntryOf
<1>4. NewBlob(p).results = [kept EXCEPT ![job[p].hook] = EntryOf(p)]
      /\ NewBlob(p).hash = hash[p] /\ NewBlob(p).version = job[p].version
  BY DEF NewBlob
<1> HIDE DEF kept
<1>5. \A h \in Hooks : NewBlob(p).results[h] = IF h = job[p].hook THEN EntryOf(p) ELSE kept[h]
  BY <1>2, <1>4
<1>6. QED
  BY <1>1, <1>3, <1>4, <1>5 DEF FiledUnder

\* Every step keeps entries filed, in the blob and in what is about to be written.
LEMMA FiledStep == TypeOK /\ FiledInv /\ [Next]_vars => FiledInv'
<1> SUFFICES ASSUME TypeOK, FiledInv, [Next]_vars PROVE FiledInv'
  OBVIOUS
<1> USE DEF FiledInv, EntriesMatchBlob, FiledUnder, Loaded, locals, file
<1>a. ASSUME NEW p \in Procs, Miss(p) \/ Finish(p), blob' = blob PROVE FiledInv'
  BY <1>a DEF TypeOK, Miss, Finish, Goto
<1>b. ASSUME NEW p \in Procs, Miss(p) \/ Finish(p), blob' = data[p], pc[p] \in Loaded
      PROVE  FiledInv'
  BY <1>b DEF TypeOK, Miss, Finish, Goto
<1>1. ASSUME NEW p \in Procs, NEW h \in Hooks, NEW v \in Versions, Begin(p, h, v)
      PROVE  FiledInv'
  BY <1>1 DEF Begin, TypeOK, Goto
<1>2. ASSUME NEW p \in Procs, CheckExists(p) PROVE FiledInv'
  BY <1>2, <1>a DEF CheckExists, TypeOK, Goto
<1>3. ASSUME NEW p \in Procs, Acquire(p) PROVE FiledInv'
  BY <1>3 DEF Acquire, TypeOK, Goto
<1>4. ASSUME NEW p \in Procs, TimeOut(p) \/ IoError(p) PROVE FiledInv'
  BY <1>4, <1>a DEF TimeOut, IoError, GiveUp
<1>5. ASSUME NEW p \in Procs, LoadForGet(p) PROVE FiledInv'
  <2>1. CASE Miss(p)
    BY <1>5, <2>1, <1>a DEF LoadForGet
  <2>2. CASE ~ Miss(p)
    BY <1>5, <2>2 DEF LoadForGet, ReturnEntry, TypeOK, Goto
  <2>3. QED
    BY <2>1, <2>2
<1>6. ASSUME NEW p \in Procs, HashForGet(p) PROVE FiledInv'
  BY <1>6, <1>a DEF HashForGet, Refreshed, TypeOK, Goto
<1>7. ASSUME NEW p \in Procs, WriteForGet(p) PROVE FiledInv'
  <2>1. CASE Miss(p)
    BY <1>7, <2>1, <1>b DEF WriteForGet
  <2>2. CASE ~ Miss(p)
    BY <1>7, <2>2 DEF WriteForGet, ReturnEntry, TypeOK, Goto
  <2>3. QED
    BY <2>1, <2>2
<1>8. ASSUME NEW p \in Procs, TakeHit(p) \/ Crash(p) PROVE FiledInv'
  BY <1>8, <1>a DEF TakeHit, Crash
<1>9. ASSUME NEW p \in Procs, Analyse(p) \/ StatForSet(p) \/ HashForSet(p) PROVE FiledInv'
  BY <1>9 DEF Analyse, StatForSet, HashForSet, TypeOK, Goto
<1>10. ASSUME NEW p \in Procs, LoadForSet(p) PROVE FiledInv'
  <2>1. CASE Finish(p)
    BY <1>10, <2>1, <1>a DEF LoadForSet
  <2>2. CASE ~ Finish(p)
    <3>1. FiledUnder(NewBlob(p))
      BY <1>10, FiledNewBlob DEF LoadForSet, TypeOK
    <3>2. QED
      BY <1>10, <2>2, <3>1 DEF LoadForSet, TypeOK, Goto
  <2>3. QED
    BY <2>1, <2>2
<1>11. ASSUME NEW p \in Procs, WriteForSet(p) PROVE FiledInv'
  BY <1>11, <1>b DEF WriteForSet
<1>12. ASSUME (\E c \in Contents : Edit(c)) \/ UNCHANGED vars PROVE FiledInv'
  BY <1>12 DEF Edit, vars
<1>13. ASSUME Damage \/ ClearCache PROVE FiledInv'
  BY <1>13, CacheConstants DEF Damage, ClearCache
<1>14. QED
  BY <1>1, <1>2, <1>3, <1>4, <1>5, <1>6, <1>7, <1>8, <1>9, <1>10, <1>11, <1>12, <1>13
  DEF Next, Proceed

\* Entries are filed in every reachable state.
LEMMA FiledInvHolds == Spec => []FiledInv
<1>1. Init => FiledInv
  BY CacheConstants DEF Init, FiledInv, EntriesMatchBlob, Loaded
<1>2. QED
  BY <1>1, FiledStep, TypeCorrect, PTL DEF Spec

\* An entry is never found under a hash or a version other than the one it was
\* stored for, whatever hooks and versions of the package share the blob.
THEOREM EntriesStayFiled == Spec => []EntriesMatchBlob
<1>1. FiledInv => EntriesMatchBlob
  BY DEF FiledInv
<1>2. QED
  BY <1>1, FiledInvHolds, PTL

--------------------------------------------------------------------------------
(* No sibling entry is lost *)

Keeps(b, d) ==
  (b \in Blobs /\ d.hash = b.hash /\ d.version = b.version)
    => \A h \in Hooks : b.results[h] # None => d.results[h] # None

\* What the process inside is about to write keeps the entries of the blob that
\* is there now: nobody else has written since it loaded.
MergeInv == \A p \in Procs : pc[p] \in Loaded => Keeps(blob, data[p])

\* The blob of a store keeps the siblings it found.
LEMMA KeepsNewBlob ==
  ASSUME NEW p \in Procs, job[p] \in Jobs, hash[p] \in Contents, source[p] \in Contents
  PROVE  Keeps(blob, NewBlob(p))
<1> DEFINE kept == SiblingsKept(blob, job[p].version, hash[p])
<1> SUFFICES ASSUME blob \in Blobs, blob.hash = hash[p], blob.version = job[p].version,
                    NEW h \in Hooks, blob.results[h] # None
             PROVE  NewBlob(p).results[h] # None
  BY DEF Keeps, NewBlob
<1>1. kept = blob.results
  BY DEF SiblingsKept
<1>2. kept \in [Hooks -> Entries \cup {None}]
  BY SiblingsType
<1>3. NewBlob(p).results = [kept EXCEPT ![job[p].hook] = EntryOf(p)]
  BY DEF NewBlob
<1> HIDE DEF kept
<1>4. NewBlob(p).results[h] = IF h = job[p].hook THEN EntryOf(p) ELSE blob.results[h]
  BY <1>1, <1>2, <1>3
<1>5. CASE h # job[p].hook
  BY <1>4, <1>5
<1>6. CASE h = job[p].hook
  <2>1. EntryOf(p) \in Entries
    BY DEF EntryOf, Entries, Jobs
  <2>2. QED
    BY <1>4, <1>6, <2>1, CacheConstants
<1>7. QED
  BY <1>5, <1>6

\* The blob is only written by the process that holds the lock.
LEMMA MergeStep ==
  TypeOK /\ LockDiscipline /\ MergeInv /\ [Next]_vars => MergeInv' /\ SiblingsSurvive
<1> SUFFICES ASSUME TypeOK, LockDiscipline, MergeInv, [Next]_vars
             PROVE  MergeInv' /\ SiblingsSurvive
  OBVIOUS
<1> USE DEF MergeInv, Loaded, locals, file
<1>s. ASSUME blob' = blob \/ blob' = Absent \/ blob' = Corrupt PROVE SiblingsSurvive
  BY <1>s, CacheConstants DEF SiblingsSurvive
<1>a. ASSUME NEW p \in Procs, Miss(p) \/ Finish(p), blob' = blob PROVE MergeInv'
  BY <1>a DEF TypeOK, Miss, Finish, Goto, Keeps
<1>b. ASSUME NEW p \in Procs, pc[p] \in Loaded, blob' = data[p],
             \A q \in Procs \ {p} : pc'[q] = pc[q] /\ data'[q] = data[q], pc'[p] \notin Loaded
      PROVE  MergeInv' /\ SiblingsSurvive
  <2>1. \A q \in Procs \ {p} : pc[q] \notin Loaded
    BY <1>b DEF LockDiscipline, Inside
  <2>2. SiblingsSurvive
    BY <1>b DEF Keeps, SiblingsSurvive
  <2>3. QED
    BY <1>b, <2>1, <2>2
<1>1. ASSUME NEW p \in Procs, NEW h \in Hooks, NEW v \in Versions, Begin(p, h, v)
      PROVE  MergeInv' /\ SiblingsSurvive
  BY <1>1, <1>s DEF Begin, TypeOK, Goto, Keeps
<1>2. ASSUME NEW p \in Procs, CheckExists(p) PROVE MergeInv' /\ SiblingsSurvive
  BY <1>2, <1>a, <1>s DEF CheckExists, TypeOK, Goto, Keeps
<1>3. ASSUME NEW p \in Procs, Acquire(p) PROVE MergeInv' /\ SiblingsSurvive
  BY <1>3, <1>s DEF Acquire, TypeOK, Goto, Keeps
<1>4. ASSUME NEW p \in Procs, TimeOut(p) \/ IoError(p) PROVE MergeInv' /\ SiblingsSurvive
  BY <1>4, <1>a, <1>s DEF TimeOut, IoError, GiveUp
<1>5. ASSUME NEW p \in Procs, LoadForGet(p) PROVE MergeInv' /\ SiblingsSurvive
  <2>1. CASE Miss(p)
    BY <1>5, <2>1, <1>a, <1>s DEF LoadForGet
  <2>2. CASE ~ Miss(p)
    BY <1>5, <2>2, <1>s DEF LoadForGet, ReturnEntry, TypeOK, Goto, Keeps
  <2>3. QED
    BY <2>1, <2>2
<1>6. ASSUME NEW p \in Procs, HashForGet(p) PROVE MergeInv' /\ SiblingsSurvive
  <2>1. CASE Miss(p)
    BY <1>6, <2>1, <1>a, <1>s DEF HashForGet
  <2>2. CASE ~ Miss(p)
    BY <1>6, <2>2, <1>s DEF HashForGet, Refreshed, TypeOK, Goto, Keeps
  <2>3. QED
    BY <2>1, <2>2
<1>7. ASSUME NEW p \in Procs, WriteForGet(p) PROVE MergeInv' /\ SiblingsSurvive
  BY <1>7, <1>b DEF WriteForGet, ReturnEntry, Miss, TypeOK, Goto
<1>8. ASSUME NEW p \in Procs, TakeHit(p) \/ Crash(p) PROVE MergeInv' /\ SiblingsSurvive
  BY <1>8, <1>a, <1>s DEF TakeHit, Crash
<1>9. ASSUME NEW p \in Procs, Analyse(p) \/ StatForSet(p) \/ HashForSet(p)
      PROVE  MergeInv' /\ SiblingsSurvive
  BY <1>9, <1>s DEF Analyse, StatForSet, HashForSet, TypeOK, Goto, Keeps
<1>10. ASSUME NEW p \in Procs, LoadForSet(p) PROVE MergeInv' /\ SiblingsSurvive
  <2>1. CASE Finish(p)
    BY <1>10, <2>1, <1>a, <1>s DEF LoadForSet
  <2>2. CASE ~ Finish(p)
    <3>1. Keeps(blob, NewBlob(p))
      BY <1>10, KeepsNewBlob DEF LoadForSet, TypeOK, SetPcs
    <3>2. QED
      BY <1>10, <2>2, <3>1, <1>s DEF LoadForSet, TypeOK, Goto, Keeps
  <2>3. QED
    BY <2>1, <2>2
<1>11. ASSUME NEW p \in Procs, WriteForSet(p) PROVE MergeInv' /\ SiblingsSurvive
  BY <1>11, <1>b DEF WriteForSet, Finish, TypeOK, Goto
<1>12. ASSUME (\E c \in Contents : Edit(c)) \/ UNCHANGED vars
       PROVE  MergeInv' /\ SiblingsSurvive
  BY <1>12, <1>s DEF Edit, vars, Keeps
<1>13. ASSUME Damage \/ ClearCache PROVE MergeInv' /\ SiblingsSurvive
  BY <1>13, <1>s, CacheConstants DEF Damage, ClearCache, Keeps
<1>14. QED
  BY <1>1, <1>2, <1>3, <1>4, <1>5, <1>6, <1>7, <1>8, <1>9, <1>10, <1>11, <1>12, <1>13
  DEF Next, Proceed

\* Concurrent lookups and stores for one content and version lose no hook's entry.
THEOREM SiblingsAreKept == Spec => NoSiblingLost
<1>1. Init => MergeInv
  BY DEF Init, MergeInv, Loaded
<1>2. QED
  BY <1>1, MergeStep, TypeCorrect, LockIsDisciplined, PTL DEF Spec, NoSiblingLost

--------------------------------------------------------------------------------
(* A hit is current *)

Statted == GetPcs \cup {"setHash", "setLock", "setLoad", "setWrite"}

\* The pair (m, h) of a recorded timestamp and hash is no older than the stat:
\* the file had content h when, or after, its timestamp became m.  So any lookup
\* that found the timestamp m saw h during its call.
Clocked(m, h) ==
  /\ m <= mtime
  /\ m = mtime => h = content
  /\ \A q \in Procs : (pc[q] \in GetPcs /\ stat[q].mtime = m) => h \in seen[q]

HitInv ==
  /\ \A p \in Procs : pc[p] \in GetPcs \cup {"hit"} => content \in seen[p]
  /\ \A p \in Procs : pc[p] \in Statted => stat[p].mtime <= mtime
  /\ blob \in Blobs => Clocked(blob.mtime, blob.hash)
  /\ \A p \in Procs : pc[p] \in Loaded => Clocked(data[p].mtime, data[p].hash)
  /\ \A p \in Procs : pc[p] \in {"setLock", "setLoad"} => Clocked(stat[p].mtime, hash[p])
  /\ \A p \in Procs : pc[p] \in {"getHash", "getWrite"} => data[p].version = job[p].version
  /\ \A p \in Procs : pc[p] = "getWrite" => data[p].hash \in seen[p]
  /\ HitIsCurrent

\* Every step keeps the clocks in order and the hits current.
LEMMA HitStep ==
  ASSUME Coarse = FALSE
  PROVE  TypeOK /\ FiledInv /\ HitInv /\ [Next]_vars => HitInv'
<1> SUFFICES ASSUME TypeOK, FiledInv, HitInv, [Next]_vars PROVE HitInv'
  OBVIOUS
<1> USE DEF HitInv, HitIsCurrent, Clocked, Loaded, Statted, GetPcs, locals, file
<1>t. /\ mtime \in Nat
      /\ \A p \in Procs : stat[p] \in Stats => stat[p].mtime \in Nat
      /\ \A b \in Blobs : b.mtime \in Nat
  BY CacheConstants DEF TypeOK, Time, Stats, Blobs
<1>n. None \notin Blobs /\ None \notin Stats
  BY CacheConstants
<1>a. ASSUME NEW p \in Procs, Miss(p) \/ Finish(p), UNCHANGED <<content, mtime>>,
             blob' = blob \/ (pc[p] \in Loaded /\ blob' = data[p])
      PROVE  HitInv'
  BY <1>a DEF TypeOK, Miss, Finish, Goto
<1>b. ASSUME NEW p \in Procs, NEW b \in Blobs, ~ Miss(p), ReturnEntry(p, b), FiledUnder(b),
             pc[p] \in GetPcs, b.version = job[p].version, b.hash \in seen[p],
             UNCHANGED <<content, mtime>>, blob' = blob \/ (pc[p] \in Loaded /\ blob' = data[p])
      PROVE  HitInv'
  <2>1. /\ b.results[job[p].hook] # None
        /\ answer' = [answer EXCEPT ![p] = b.results[job[p].hook]]
        /\ job[p].hook \in Hooks
    BY <1>b DEF ReturnEntry, TypeOK, Jobs
  <2>2. answer'[p].under = b.hash /\ answer'[p].by = b.version
    BY <1>b, <2>1 DEF FiledUnder, TypeOK
  <2>3. QED
    BY <1>b, <2>1, <2>2 DEF ReturnEntry, TypeOK, Goto
<1>1. ASSUME NEW p \in Procs, NEW h \in Hooks, NEW v \in Versions, Begin(p, h, v)
      PROVE  HitInv'
  BY <1>1, <1>t DEF Begin, TypeOK, Goto, CurrentStat
<1>2. ASSUME NEW p \in Procs, CheckExists(p) PROVE HitInv'
  BY <1>2, <1>a DEF CheckExists, TypeOK, Goto
<1>3. ASSUME NEW p \in Procs, Acquire(p) PROVE HitInv'
  BY <1>3 DEF Acquire, TypeOK, Goto
<1>4. ASSUME NEW p \in Procs, TimeOut(p) \/ IoError(p) PROVE HitInv'
  BY <1>4, <1>a DEF TimeOut, IoError, GiveUp
<1>5. ASSUME NEW p \in Procs, LoadForGet(p) PROVE HitInv'
  <2>1. CASE Miss(p)
    BY <1>5, <2>1, <1>a DEF LoadForGet
  <2>2. CASE ~ Miss(p) /\ SameStat(blob, stat[p])
    <3>1. /\ blob \in Blobs /\ blob.version = job[p].version /\ ReturnEntry(p, blob)
          /\ blob.mtime = stat[p].mtime /\ pc[p] = "getLoad" /\ UNCHANGED <<content, mtime, blob>>
      BY <1>5, <2>2 DEF LoadForGet, SameVersion, SameStat
    <3>2. blob.hash \in seen[p] /\ FiledUnder(blob)
      BY <3>1 DEF FiledInv, EntriesMatchBlob
    <3>3. QED
      BY <2>2, <3>1, <3>2, <1>b
  <2>3. CASE ~ Miss(p) /\ ~ SameStat(blob, stat[p])
    BY <1>5, <2>3 DEF LoadForGet, SameVersion, TypeOK, Goto
  <2>4. QED
    BY <2>1, <2>2, <2>3
<1>6. ASSUME NEW p \in Procs, HashForGet(p) PROVE HitInv'
  <2>1. CASE Miss(p)
    BY <1>6, <2>1, <1>a DEF HashForGet
  <2>2. CASE ~ Miss(p)
    BY <1>6, <2>2, <1>t DEF HashForGet, Refreshed, TypeOK, Goto
  <2>3. QED
    BY <2>1, <2>2
<1>7. ASSUME NEW p \in Procs, WriteForGet(p) PROVE HitInv'
  <2>1. CASE Miss(p)
    BY <1>7, <2>1, <1>a DEF WriteForGet
  <2>2. CASE ~ Miss(p)
    <3>1. data[p] \in Blobs /\ FiledUnder(data[p])
      BY <1>7 DEF WriteForGet, TypeOK, FiledInv
    <3>2. QED
      BY <1>7, <2>2, <3>1, <1>b DEF WriteForGet
  <2>3. QED
    BY <2>1, <2>2
<1>8. ASSUME NEW p \in Procs, TakeHit(p) \/ Crash(p) PROVE HitInv'
  BY <1>8, <1>a DEF TakeHit, Crash
<1>9. ASSUME NEW p \in Procs, Analyse(p) PROVE HitInv'
  BY <1>9 DEF Analyse, TypeOK, Goto
<1>10. ASSUME NEW p \in Procs, StatForSet(p) PROVE HitInv'
  BY <1>10, <1>t DEF StatForSet, TypeOK, Goto, CurrentStat
<1>11. ASSUME NEW p \in Procs, HashForSet(p) PROVE HitInv'
  BY <1>11, <1>t DEF HashForSet, TypeOK, Goto
<1>12. ASSUME NEW p \in Procs, LoadForSet(p) PROVE HitInv'
  <2>1. CASE Finish(p)
    BY <1>12, <2>1, <1>a DEF LoadForSet
  <2>2. CASE ~ Finish(p)
    <3>1. NewBlob(p).mtime = stat[p].mtime /\ NewBlob(p).hash = hash[p]
      BY DEF NewBlob
    <3>2. data' = [data EXCEPT ![p] = NewBlob(p)]
      BY <1>12, <2>2 DEF LoadForSet
    <3>3. QED
      BY <1>12, <2>2, <3>1, <3>2 DEF LoadForSet, TypeOK, Goto
  <2>3. QED
    BY <2>1, <2>2
<1>13. ASSUME NEW p \in Procs, WriteForSet(p) PROVE HitInv'
  BY <1>13, <1>a DEF WriteForSet
<1>14. ASSUME NEW c \in Contents, Edit(c) PROVE HitInv'
  BY <1>14, <1>t DEF Edit, TypeOK, Statted
<1>15. ASSUME Damage \/ ClearCache PROVE HitInv'
  BY <1>15, CacheConstants DEF Damage, ClearCache
<1>16. CASE UNCHANGED vars
  BY <1>16 DEF vars
<1>17. QED
  BY <1>1, <1>2, <1>3, <1>4, <1>5, <1>6, <1>7, <1>8, <1>9, <1>10, <1>11, <1>12, <1>13,
     <1>14, <1>15, <1>16 DEF Next, Proceed

\* On a file system whose timestamps tell two writes apart, a hit was filed for a
\* content the file had during the call: the stat-only fast path and the stats
\* written back by other lookups never make an older entry current again.
THEOREM HitsAreCurrent ==
  ASSUME Coarse = FALSE
  PROVE  Spec => []HitIsCurrent
<1>1. Init => HitInv
  BY CacheConstants DEF Init, HitInv, HitIsCurrent, Loaded, Statted, GetPcs
<1>2. TypeOK /\ FiledInv /\ HitInv /\ [Next]_vars => HitInv'
  BY HitStep
<1>3. HitInv => HitIsCurrent
  BY DEF HitInv
<1>4. QED
  BY <1>1, <1>2, <1>3, TypeCorrect, FiledInvHolds, PTL DEF Spec

--------------------------------------------------------------------------------
(* What the process inside carries back to the blob *)

\* Siblings of the entry a store adds.
Others(p) == {h \in Hooks : h # job[p].hook}

\* The entry of another hook that a store finds beside the one it adds.
Sibling(p, h) ==
  IF blob.version = job[p].version /\ blob.hash = hash[p] THEN blob.results[h] ELSE None

\* While a lookup is inside, it carries the entries of the blob; a store carries
\* its own entry and the siblings it kept, unless the blob was damaged meanwhile.
CarryInv ==
  \A p \in Procs :
    /\ pc[p] \in {"getHash", "getWrite"} /\ blob \in Blobs => data[p].results = blob.results
    /\ pc[p] = "setWrite" =>
         /\ data[p].version = job[p].version /\ data[p].hash = hash[p]
         /\ data[p].results[job[p].hook] = EntryOf(p)
         /\ blob \in Blobs => \A h \in Others(p) : data[p].results[h] = Sibling(p, h)

\* A store carries what set_cached_result merged.
LEMMA CarryNewBlob ==
  ASSUME NEW p \in Procs, job[p] \in Jobs
  PROVE  /\ NewBlob(p).version = job[p].version /\ NewBlob(p).hash = hash[p]
         /\ NewBlob(p).results[job[p].hook] = EntryOf(p)
         /\ blob \in Blobs => \A h \in Others(p) : NewBlob(p).results[h] = Sibling(p, h)
<1> DEFINE kept == SiblingsKept(blob, job[p].version, hash[p])
<1>1. kept \in [Hooks -> Entries \cup {None}]
  BY SiblingsType
<1>2. /\ NewBlob(p).version = job[p].version /\ NewBlob(p).hash = hash[p]
      /\ NewBlob(p).results = [kept EXCEPT ![job[p].hook] = EntryOf(p)]
  BY DEF NewBlob
<1>3. job[p].hook \in Hooks
  BY DEF Jobs
<1> HIDE DEF kept
<1>4. /\ NewBlob(p).results[job[p].hook] = EntryOf(p)
      /\ \A h \in Others(p) : NewBlob(p).results[h] = kept[h]
  BY <1>1, <1>2, <1>3 DEF Others
<1>5. QED
  BY <1>2, <1>4 DEF kept, SiblingsKept, NoResults, Sibling, Others

\* Nobody but the process inside changes the blob, except by damaging it.
LEMMA CarryStep == TypeOK /\ LockDiscipline /\ CarryInv /\ [Next]_vars => CarryInv'
<1> SUFFICES ASSUME TypeOK, LockDiscipline, CarryInv, [Next]_vars PROVE CarryInv'
  OBVIOUS
<1> USE DEF CarryInv, EntryOf, Others, Sibling, locals, file
<1>a. ASSUME NEW p \in Procs, Miss(p) \/ Finish(p), blob' = blob PROVE CarryInv'
  BY <1>a DEF TypeOK, Miss, Finish, Goto
<1>b. ASSUME NEW p \in Procs, pc[p] \in Inside, pc'[p] \notin Inside,
             \A q \in Procs \ {p} : pc'[q] = pc[q]
      PROVE  CarryInv'
  BY <1>b DEF LockDiscipline, Inside
<1>1. ASSUME NEW p \in Procs, NEW h \in Hooks, NEW v \in Versions, Begin(p, h, v)
      PROVE  CarryInv'
  BY <1>1 DEF Begin, TypeOK, Goto
<1>2. ASSUME NEW p \in Procs, CheckExists(p) PROVE CarryInv'
  <2>1. CASE Miss(p)
    BY <1>2, <2>1, <1>a DEF CheckExists
  <2>2. CASE ~ Miss(p)
    BY <1>2, <2>2 DEF CheckExists, TypeOK, Goto
  <2>3. QED
    BY <2>1, <2>2
<1>3. ASSUME NEW p \in Procs, Acquire(p) PROVE CarryInv'
  BY <1>3 DEF Acquire, TypeOK, Goto
<1>4. ASSUME NEW p \in Procs, TimeOut(p) \/ IoError(p) PROVE CarryInv'
  BY <1>4, <1>a DEF TimeOut, IoError, GiveUp
<1>5. ASSUME NEW p \in Procs, LoadForGet(p) PROVE CarryInv'
  <2>1. CASE Miss(p)
    BY <1>5, <2>1, <1>a DEF LoadForGet
  <2>2. CASE ~ Miss(p) /\ ReturnEntry(p, blob)
    BY <1>5, <2>2 DEF LoadForGet, ReturnEntry, TypeOK, Goto
  <2>3. CASE ~ Miss(p) /\ ~ ReturnEntry(p, blob)
    BY <1>5, <2>3 DEF LoadForGet, TypeOK, Goto
  <2>4. QED
    BY <2>1, <2>2, <2>3
<1>6. ASSUME NEW p \in Procs, HashForGet(p) PROVE CarryInv'
  <2>1. CASE Miss(p)
    BY <1>6, <2>1, <1>a DEF HashForGet
  <2>2. CASE ~ Miss(p)
    <3>1. Refreshed(data[p], stat[p]).results = data[p].results
      BY DEF Refreshed
    <3>2. QED
      BY <1>6, <2>2, <3>1 DEF HashForGet, TypeOK, Goto
  <2>3. QED
    BY <2>1, <2>2
<1>7. ASSUME NEW p \in Procs, WriteForGet(p) PROVE CarryInv'
  <2>1. pc[p] \in Inside /\ pc'[p] \notin Inside /\ \A q \in Procs \ {p} : pc'[q] = pc[q]
    BY <1>7 DEF WriteForGet, ReturnEntry, Miss, TypeOK, Goto, Inside
  <2>2. QED
    BY <2>1, <1>b
<1>8. ASSUME NEW p \in Procs, TakeHit(p) \/ Crash(p) PROVE CarryInv'
  BY <1>8, <1>a DEF TakeHit, Crash
<1>9. ASSUME NEW p \in Procs, Analyse(p) \/ StatForSet(p) \/ HashForSet(p) PROVE CarryInv'
  BY <1>9 DEF Analyse, StatForSet, HashForSet, TypeOK, Goto
<1>10. ASSUME NEW p \in Procs, LoadForSet(p) PROVE CarryInv'
  <2>1. CASE Finish(p)
    BY <1>10, <2>1, <1>a DEF LoadForSet
  <2>2. CASE ~ Finish(p)
    <3>1. job[p] \in Jobs
      BY <1>10 DEF LoadForSet, TypeOK
    <3> DEFINE new == NewBlob(p)
    <3>2. /\ new.version = job[p].version /\ new.hash = hash[p]
          /\ new.results[job[p].hook] = EntryOf(p)
          /\ blob \in Blobs => \A h \in Others(p) : new.results[h] = Sibling(p, h)
      BY <3>1, CarryNewBlob
    <3>3. /\ data' = [data EXCEPT ![p] = new]
          /\ pc' = [pc EXCEPT ![p] = "setWrite"]
          /\ UNCHANGED <<blob, job, hash, source>>
      BY <1>10, <2>2 DEF LoadForSet, Goto
    <3> HIDE DEF new
    <3>4. QED
      BY <3>2, <3>3 DEF TypeOK
  <2>3. QED
    BY <2>1, <2>2
<1>11. ASSUME NEW p \in Procs, WriteForSet(p) PROVE CarryInv'
  <2>1. pc[p] \in Inside /\ pc'[p] \notin Inside /\ \A q \in Procs \ {p} : pc'[q] = pc[q]
    BY <1>11 DEF WriteForSet, Finish, TypeOK, Goto, Inside
  <2>2. QED
    BY <2>1, <1>b
<1>12. ASSUME (\E c \in Contents : Edit(c)) \/ UNCHANGED vars PROVE CarryInv'
  BY <1>12 DEF Edit, vars
<1>13. ASSUME Damage \/ ClearCache PROVE CarryInv'
  BY <1>13, CacheConstants DEF Damage, ClearCache
<1>14. QED
  BY <1>1, <1>2, <1>3, <1>4, <1>5, <1>6, <1>7, <1>8, <1>9, <1>10, <1>11, <1>12, <1>13
  DEF Next, Proceed

--------------------------------------------------------------------------------
(* What the store has *)

\* The entries of the blob change only when the blob does, or with what the
\* process inside carries.
LEMMA KeptSame ==
  ASSUME blob' = blob, lock' = lock,
         lock \in Procs => pc'[lock] = pc[lock] /\ data'[lock] = data[lock] /\ job'[lock] = job[lock]
  PROVE  Kept' = Kept
BY DEF Kept, Holding, FactsOf

\* A process that leaves without writing takes what it carries with it.
LEMMA KeptForgets ==
  ASSUME TypeOK, LockDiscipline, NEW p \in Procs, Miss(p) \/ Finish(p), blob' = blob
  PROVE  Kept' \in SUBSET Kept
<1>1. CASE lock = p
  <2>1. lock' = None /\ None \notin Procs
    BY <1>1, CacheConstants DEF Miss, Finish, Unlocked
  <2>2. QED
    BY <2>1 DEF Kept, Holding, FactsOf
<1>2. CASE lock # p
  <2>1. lock' = lock
    BY <1>2 DEF Miss, Finish, Unlocked
  <2>2. lock \in Procs => pc'[lock] = pc[lock] /\ data'[lock] = data[lock] /\ job'[lock] = job[lock]
    BY <1>2 DEF Miss, Finish, Goto, TypeOK
  <2>3. QED
    BY <2>1, <2>2, KeptSame
<1>3. QED
  BY <1>1, <1>2

\* What a lookup writes back are the entries the store had.
LEMMA KeptRefreshed ==
  ASSUME TypeOK, LockDiscipline, CarryInv, NEW p \in Procs, pc[p] = "getWrite", blob' = data[p]
  PROVE  Kept' = Kept /\ Kept = FactsOf(data[p])
<1>1. lock = p
  BY DEF LockDiscipline, Inside
<1>2. data[p] \in Blobs
  BY DEF TypeOK
<1>3. Kept = FactsOf(data[p])
  BY <1>1 DEF Kept, Holding, CarryInv, FactsOf
<1>4. Kept' = FactsOf(data[p])
  BY <1>2 DEF Kept, FactsOf
<1>5. QED
  BY <1>3, <1>4

\* What a store writes are its own entry and those beside it.
LEMMA KeptFiled ==
  ASSUME TypeOK, LockDiscipline, FiledInv, CarryInv, NEW p \in Procs, pc[p] = "setWrite",
         blob' = data[p]
  PROVE  Kept' = Store!Beside(p) \cup {Store!Filed(p)}
<1>1. lock = p /\ data[p] \in Blobs /\ job[p] \in Jobs /\ job[p].hook \in Hooks
  BY DEF LockDiscipline, Inside, TypeOK, Jobs
<1>2. Kept' = FactsOf(data[p])
  BY <1>1 DEF Kept, FactsOf
<1>3. /\ data[p].version = job[p].version /\ data[p].hash = hash[p]
      /\ data[p].results[job[p].hook] = EntryOf(p)
      /\ FiledUnder(data[p])
  BY DEF CarryInv, FiledInv, Loaded
<1>4. EntryOf(p) # None
  <2>1. EntryOf(p) \in Entries
    BY <1>1 DEF EntryOf, Entries, Jobs, TypeOK, SetPcs
  <2>2. QED
    BY <2>1, CacheConstants
<1>5. Store!Filed(p) = [hook |-> job[p].hook, entry |-> EntryOf(p)]
  BY DEF Store!Filed, EntryOf
<1>6. FactsOf(data[p]) = {f \in FactsOf(data[p]) : f.hook # job[p].hook} \cup {Store!Filed(p)}
  BY <1>1, <1>3, <1>4, <1>5 DEF FactsOf
<1>7. {f \in FactsOf(data[p]) : f.hook # job[p].hook} = Store!Beside(p)
  <2>1. CASE blob \in Blobs
    <3>1. Kept = FactsOf(blob) /\ FiledUnder(blob)
      BY <2>1 DEF Kept, FiledInv, EntriesMatchBlob
    <3>2. \A h \in Others(p) : data[p].results[h] = Sibling(p, h)
      BY <2>1 DEF CarryInv
    <3>3. QED
      BY <3>1, <3>2 DEF Store!Beside, FactsOf, FiledUnder, Others, Sibling
  <2>2. CASE blob \notin Blobs
    <3>1. Kept = {f \in FactsOf(data[p]) : f.hook # job[p].hook}
      BY <1>1, <2>2 DEF Kept, Holding
    <3>2. QED
      BY <1>3, <3>1 DEF Store!Beside, FactsOf, FiledUnder
  <2>3. QED
    BY <2>1, <2>2
<1>8. QED
  BY <1>2, <1>6, <1>7

--------------------------------------------------------------------------------
(* How far a call has come *)

\* The phase of each step.
LEMMA Phases ==
  /\ PhaseOf("idle") = "idle" /\ PhaseOf("hit") = "answered" /\ PhaseOf("miss") = "missed"
  /\ \A step \in GetPcs : PhaseOf(step) = "asked"
  /\ \A step \in {"setStat", "setHash"} : PhaseOf(step) = "analysed"
  /\ \A step \in {"setLock", "setLoad", "setWrite"} : PhaseOf(step) = "identified"
BY DEF PhaseOf, GetPcs

\* A step of one process moves that process only.
LEMMA AtGoes ==
  ASSUME TypeOK, NEW p \in Procs, NEW to, Goto(p, to)
  PROVE  At' = [At EXCEPT ![p] = PhaseOf(to)] /\ At[p] = PhaseOf(pc[p])
BY DEF At, Goto, TypeOK

\* A step within a phase is none of the store's.
LEMMA AtStays ==
  ASSUME TypeOK, NEW p \in Procs, NEW to, Goto(p, to), PhaseOf(to) = PhaseOf(pc[p])
  PROVE  At' = At
BY DEF At, Goto, TypeOK

\* A lookup that misses ignores the question.
LEMMA MissIgnores ==
  ASSUME TypeOK, NEW p \in Procs, pc[p] \in GetPcs, Miss(p), content' = content,
         Kept' \in SUBSET Kept
  PROVE  Store!Ignore(p)
<1>1. At' = [At EXCEPT ![p] = "missed"] /\ At[p] = "asked"
  BY AtGoes, Phases DEF Miss
<1>2. QED
  BY <1>1 DEF Miss, Store!Ignore, Store!Move, Store!MayForget

\* A process that is done leaves the store.
LEMMA FinishLeaves ==
  ASSUME TypeOK, NEW p \in Procs, Finish(p)
  PROVE  Store!Leave(p)
<1>1. At' = [At EXCEPT ![p] = "idle"]
  BY AtGoes, Phases DEF Finish
<1>2. QED
  BY <1>1 DEF Finish, Store!Leave

\* A process that is done without having written ends its call.
LEMMA FinishEnds ==
  ASSUME TypeOK, LockDiscipline, NEW p \in Procs, pc[p] # "idle", Finish(p), UNCHANGED <<content, blob>>
  PROVE  Store!End(p)
<1>1. At[p] # "idle"
  BY Phases DEF At, TypeOK, Pcs, GetPcs, SetPcs
<1>2. Kept' \in SUBSET Kept
  BY KeptForgets
<1>3. QED
  BY <1>1, <1>2, FinishLeaves DEF Store!End, Store!MayForget

\* A call that gives up is a question ignored or a call that ends.
LEMMA GiveUpEnds ==
  ASSUME TypeOK, LockDiscipline, NEW p \in Procs, pc[p] \in GetPcs \cup SetPcs, GiveUp(p),
         UNCHANGED <<content, blob>>
  PROVE  Store!Next
<1>1. CASE Miss(p) /\ pc[p] \in GetPcs
  BY <1>1, KeptForgets, MissIgnores DEF Store!Next
<1>2. CASE Finish(p)
  BY <1>2, FinishEnds DEF Store!Next, GetPcs, SetPcs
<1>3. QED
  BY <1>1, <1>2 DEF GiveUp

\* A hit answers with an entry the store has.
LEMMA HitAnswers ==
  ASSUME TypeOK, HitIsCurrent', NEW p \in Procs, NEW b \in Blobs, pc[p] \in GetPcs,
         ~ Miss(p), ReturnEntry(p, b), content' = content, Kept' = Kept, Kept = FactsOf(b)
  PROVE  Store!Answer(p)
<1>1. At' = [At EXCEPT ![p] = "answered"] /\ At[p] = "asked" /\ pc'[p] = "hit"
  BY AtGoes, Phases DEF ReturnEntry, Goto, TypeOK
<1>2. job[p] \in Jobs /\ job[p].hook \in Hooks
  BY DEF TypeOK, Jobs, GetPcs
<1> DEFINE f == [hook |-> job[p].hook, entry |-> b.results[job[p].hook]]
<1>3. f \in Kept
  BY <1>2 DEF ReturnEntry, FactsOf
<1>4. answer' = [answer EXCEPT ![p] = f.entry] /\ answer'[p] = f.entry
  BY DEF ReturnEntry, TypeOK
<1>5. answer'[p].by = job[p].version /\ answer'[p].under \in seen[p]
  BY <1>1 DEF HitIsCurrent, ReturnEntry
<1>6. Store!Answers(p, f)
  BY <1>4, <1>5 DEF Store!Answers
<1>7. UNCHANGED <<content, Kept, job, seen, source, hash>>
  BY DEF ReturnEntry
<1> HIDE DEF f
<1>8. QED
  BY <1>1, <1>3, <1>4, <1>6, <1>7 DEF Store!Answer, Store!Move

--------------------------------------------------------------------------------
(* Every step is one of the store, or none *)

StoreInv == TypeOK /\ LockDiscipline /\ FiledInv /\ CarryInv

\* Each step of the cache is a step of the store or leaves the store as it is.
LEMMA StoreStep ==
  ASSUME StoreInv, HitIsCurrent', [Next]_vars
  PROVE  Store!Next \/ UNCHANGED Store!vars
<1> USE DEF StoreInv, file, locals
<1> DEFINE Stays == UNCHANGED Store!vars
<1>s. ASSUME UNCHANGED <<content, job, seen, answer, source, hash>>, Kept' = Kept, At' = At
      PROVE  Stays
  BY <1>s DEF Store!vars, Store!progress
<1>m. ASSUME NEW p \in Procs, pc[p] \in GetPcs, Miss(p), UNCHANGED <<content, blob>>
      PROVE  Store!Next
  BY <1>m, KeptForgets, MissIgnores DEF Store!Next
<1>0. None \notin Procs /\ Absent \notin Blobs /\ Corrupt \notin Blobs
  BY CacheConstants
<1>1. ASSUME NEW p \in Procs, NEW h \in Hooks, NEW v \in Versions, Begin(p, h, v)
      PROVE  Store!Next
  <2>1. At' = [At EXCEPT ![p] = "asked"] /\ At[p] = "idle"
    BY <1>1, AtGoes, Phases DEF Begin, GetPcs
  <2>2. lock # p
    BY <1>1 DEF Begin, LockDiscipline, Inside
  <2>3. Kept' = Kept
    BY <1>1, <2>2, KeptSame DEF Begin, Goto, TypeOK
  <2>4. Store!Ask(p, h, v)
    BY <1>1, <2>1, <2>3 DEF Begin, Store!Ask, Store!Move
  <2>5. QED
    BY <2>4 DEF Store!Next
<1>2. ASSUME NEW p \in Procs, CheckExists(p) PROVE Store!Next \/ Stays
  <2>1. CASE Miss(p)
    BY <1>2, <2>1, <1>m DEF CheckExists, GetPcs
  <2>2. CASE ~ Miss(p)
    <3>1. At' = At
      BY <1>2, <2>2, AtStays, Phases DEF CheckExists, GetPcs
    <3>2. lock # p
      BY <1>2 DEF CheckExists, LockDiscipline, Inside
    <3>3. Kept' = Kept
      BY <1>2, <2>2, <3>2, KeptSame DEF CheckExists, Goto, TypeOK
    <3>4. QED
      BY <1>2, <2>2, <3>1, <3>3, <1>s DEF CheckExists
  <2>3. QED
    BY <2>1, <2>2
<1>3. ASSUME NEW p \in Procs, Acquire(p) PROVE Stays
  <2>1. At' = At
    BY <1>3, AtStays, Phases DEF Acquire, GetPcs
  <2>2. Kept' = Kept
    BY <1>0, <1>3 DEF Acquire, LockFree, Goto, TypeOK, Kept, Holding, FactsOf
  <2>3. QED
    BY <1>3, <2>1, <2>2, <1>s DEF Acquire
<1>4. ASSUME NEW p \in Procs, TimeOut(p) \/ IoError(p) PROVE Store!Next
  BY <1>4, GiveUpEnds DEF TimeOut, IoError, GetPcs, SetPcs
<1>5. ASSUME NEW p \in Procs, LoadForGet(p) PROVE Store!Next \/ Stays
  <2>1. CASE Miss(p)
    BY <1>5, <2>1, <1>m DEF LoadForGet, GetPcs
  <2>2. CASE ~ Miss(p) /\ blob \in Blobs /\ ReturnEntry(p, blob)
    <3>1. Kept' = Kept /\ Kept = FactsOf(blob)
      BY <1>5, <2>2 DEF LoadForGet, Kept, FactsOf
    <3>2. Store!Answer(p)
      BY <1>5, <2>2, <3>1, HitAnswers DEF LoadForGet, GetPcs
    <3>3. QED
      BY <3>2 DEF Store!Next
  <2>3. CASE ~ Miss(p) /\ ~ ReturnEntry(p, blob)
    <3>1. /\ pc[p] = "getLoad" /\ Goto(p, "getHash") /\ blob \in Blobs
          /\ UNCHANGED <<content, blob, job, seen, answer, source, hash>>
      BY <1>5, <2>3 DEF LoadForGet
    <3>2. At' = At
      BY <3>1, AtStays, Phases DEF GetPcs
    <3>3. Kept' = Kept
      BY <3>1 DEF Kept, FactsOf
    <3>4. QED
      BY <3>1, <3>2, <3>3, <1>s
  <2>4. QED
    BY <1>5, <2>1, <2>2, <2>3 DEF LoadForGet
<1>6. ASSUME NEW p \in Procs, HashForGet(p) PROVE Store!Next \/ Stays
  <2>1. CASE Miss(p)
    BY <1>6, <2>1, <1>m DEF HashForGet, GetPcs
  <2>2. CASE ~ Miss(p)
    <3>1. /\ pc[p] = "getHash" /\ Goto(p, "getWrite")
          /\ data' = [data EXCEPT ![p] = Refreshed(data[p], stat[p])]
          /\ UNCHANGED <<content, blob, lock, job, seen, answer, source, hash>>
      BY <1>6, <2>2 DEF HashForGet
    <3>2. At' = At
      BY <3>1, AtStays, Phases DEF GetPcs
    <3>3. lock = p
      BY <3>1 DEF LockDiscipline, Inside
    <3>4. data'[p].results = data[p].results
      BY <3>1 DEF Refreshed, TypeOK
    <3>5. Kept' = Kept
      BY <3>1, <3>3, <3>4, ZenonT(40) DEF Kept, Holding, FactsOf, Goto, TypeOK
    <3>6. QED
      BY <3>1, <3>2, <3>5, <1>s
  <2>3. QED
    BY <2>1, <2>2
<1>7. ASSUME NEW p \in Procs, WriteForGet(p) PROVE Store!Next
  <2>1. Kept' = Kept /\ Kept = FactsOf(data[p]) /\ data[p] \in Blobs /\ pc[p] \in GetPcs
    BY <1>7, KeptRefreshed DEF WriteForGet, TypeOK, GetPcs
  <2>2. CASE Miss(p)
    <3>1. Store!Ignore(p)
      BY <1>7, <2>1, <2>2, MissIgnores DEF WriteForGet
    <3>2. QED
      BY <3>1 DEF Store!Next
  <2>3. CASE ~ Miss(p)
    <3>1. Store!Answer(p)
      BY <1>7, <2>1, <2>3, HitAnswers DEF WriteForGet
    <3>2. QED
      BY <3>1 DEF Store!Next
  <2>4. QED
    BY <2>2, <2>3
<1>8. ASSUME NEW p \in Procs, TakeHit(p) \/ Crash(p) PROVE Store!Next
  BY <1>8, FinishEnds DEF TakeHit, Crash, Store!Next
<1>9. ASSUME NEW p \in Procs, Analyse(p) \/ StatForSet(p) \/ HashForSet(p)
      PROVE  Store!Next \/ Stays
  <2>1. lock # p
    BY <1>9 DEF Analyse, StatForSet, HashForSet, LockDiscipline, Inside
  <2>2. Kept' = Kept
    BY <1>9, <2>1, KeptSame DEF Analyse, StatForSet, HashForSet, Goto, TypeOK
  <2>3. CASE Analyse(p)
    <3>1. At' = [At EXCEPT ![p] = "analysed"] /\ At[p] = "missed"
      BY <2>3, AtGoes, Phases DEF Analyse
    <3>2. Store!Analyse(p)
      BY <2>2, <2>3, <3>1 DEF Analyse, Store!Analyse, Store!Move
    <3>3. QED
      BY <3>2 DEF Store!Next
  <2>4. CASE StatForSet(p)
    <3>1. At' = At
      BY <2>4, AtStays, Phases DEF StatForSet
    <3>2. QED
      BY <2>2, <2>4, <3>1, <1>s DEF StatForSet
  <2>5. CASE HashForSet(p)
    <3>1. At' = [At EXCEPT ![p] = "identified"] /\ At[p] = "analysed"
      BY <2>5, AtGoes, Phases DEF HashForSet
    <3>2. Store!Identify(p)
      BY <2>2, <2>5, <3>1 DEF HashForSet, Store!Identify, Store!Move
    <3>3. QED
      BY <3>2 DEF Store!Next
  <2>6. QED
    BY <1>9, <2>3, <2>4, <2>5
<1>10. ASSUME NEW p \in Procs, LoadForSet(p) PROVE Store!Next \/ Stays
  <2>0. pc[p] = "setLoad" /\ UNCHANGED <<content, blob>>
    BY <1>10 DEF LoadForSet
  <2>1. CASE Finish(p)
    BY <2>0, <2>1, FinishEnds DEF Store!Next
  <2>2. CASE ~ Finish(p)
    <3>1. /\ blob # Corrupt /\ data' = [data EXCEPT ![p] = NewBlob(p)] /\ Goto(p, "setWrite")
          /\ UNCHANGED <<lock, job, seen, answer, source, hash>>
      BY <1>10, <2>2 DEF LoadForSet
    <3>2. At' = At
      BY <2>0, <3>1, AtStays, Phases
    <3>3. lock = p
      BY <2>0 DEF LockDiscipline, Inside
    <3>4. Kept' = Kept
      <4>1. CASE blob \in Blobs
        BY <2>0, <4>1 DEF Kept, FactsOf
      <4>2. CASE blob = Absent
        <5>1. Kept = {}
          BY <1>0, <2>0, <3>3, <4>2 DEF Kept, Holding
        <5>2. \A h \in Others(p) : NewBlob(p).results[h] = None
          <6>1. job[p] \in Jobs /\ job[p].hook \in Hooks
            BY <2>0 DEF TypeOK, Jobs
          <6>2. QED
            BY <1>0, <4>2, <6>1 DEF NewBlob, SiblingsKept, NoResults, Others
        <5>3. pc'[p] = "setWrite" /\ data'[p] = NewBlob(p)
          BY <3>1 DEF Goto, TypeOK
        <5>4. Kept' = {f \in FactsOf(NewBlob(p)) : f.hook # job[p].hook}
          BY <1>0, <2>0, <3>1, <3>3, <4>2, <5>3 DEF Kept, Holding, FactsOf
        <5>5. QED
          BY <5>1, <5>2, <5>4 DEF FactsOf, Others
      <4>3. QED
        BY <3>1, <4>1, <4>2 DEF TypeOK
    <3>5. QED
      BY <2>0, <3>1, <3>2, <3>4, <1>s
  <2>3. QED
    BY <2>1, <2>2
<1>11. ASSUME NEW p \in Procs, WriteForSet(p) PROVE Store!Next
  <2>1. Kept' = Store!Beside(p) \cup {Store!Filed(p)}
    BY <1>11, KeptFiled DEF WriteForSet
  <2>2. At[p] = "identified"
    BY <1>11, Phases DEF WriteForSet, At
  <2>3. Store!File(p)
    BY <1>11, <2>1, <2>2, FinishLeaves DEF WriteForSet, Store!File
  <2>4. QED
    BY <2>3 DEF Store!Next
<1>12. ASSUME NEW c \in Contents, Edit(c) PROVE Store!Next
  <2>1. At' = At
    BY <1>12 DEF Edit, At
  <2>2. Kept' = Kept
    BY <1>12, KeptSame DEF Edit
  <2>3. \A p \in Procs : At[p] \in {"asked", "answered"} <=> pc[p] \in GetPcs \cup {"hit"}
    BY Phases DEF At, TypeOK, Pcs, GetPcs, SetPcs
  <2>4. Store!Edit(c)
    BY <1>12, <2>1, <2>2, <2>3 DEF Edit, Store!Edit
  <2>5. QED
    BY <2>4 DEF Store!Next
<1>13. ASSUME Damage PROVE Store!Next
  <2>1. blob \in Blobs /\ blob' = Corrupt /\ UNCHANGED <<file, lock, pc, locals>>
    BY <1>13 DEF Damage, TypeOK
  <2>2. Kept = FactsOf(blob) /\ FiledUnder(blob)
    BY <2>1 DEF Kept, FiledInv, EntriesMatchBlob
  <2>3. Kept' \in SUBSET Kept
    <3>1. CASE Holding({"getHash", "getWrite"})
      <4>1. FactsOf(data[lock]) = FactsOf(blob)
        BY <2>1, <3>1 DEF Holding, CarryInv, FactsOf
      <4>2. Kept' = FactsOf(data[lock])
        BY <1>0, <2>1, <3>1 DEF Kept, Holding, FactsOf
      <4>3. QED
        BY <2>2, <4>1, <4>2
    <3>2. CASE Holding({"setWrite"})
      <4>1. Kept' = {f \in FactsOf(data[lock]) : f.hook # job[lock].hook}
        BY <1>0, <2>1, <3>2 DEF Kept, Holding, FactsOf
      <4>2. \A h \in Others(lock) : data[lock].results[h] \in {blob.results[h], None}
        BY <2>1, <3>2 DEF Holding, CarryInv, Sibling
      <4>3. QED
        BY <2>2, <4>1, <4>2 DEF FactsOf, Others
    <3>3. CASE ~ Holding({"getHash", "getWrite"}) /\ ~ Holding({"setWrite"})
      BY <1>0, <2>1, <3>3 DEF Kept, Holding
    <3>4. QED
      BY <3>1, <3>2, <3>3
  <2>4. QED
    BY <2>1, <2>3 DEF Store!Next, Store!Lose, Store!MayForget, Store!progress, At
<1>14. ASSUME ClearCache PROVE Store!Next
  <2>1. ~ Holding({"getHash", "getWrite"}) /\ ~ Holding({"setWrite"})
    BY <1>14 DEF ClearCache, Holding
  <2>2. Kept' = {}
    BY <1>0, <1>14, <2>1 DEF ClearCache, Kept, Holding
  <2>3. QED
    BY <1>14, <2>2 DEF ClearCache, Store!Next, Store!Lose, Store!MayForget, Store!progress, At
<1>15. CASE UNCHANGED vars
  BY <1>15, <1>s, KeptSame DEF vars, At
<1>16. QED
  BY <1>1, <1>2, <1>3, <1>4, <1>5, <1>6, <1>7, <1>8, <1>9, <1>10, <1>11, <1>12, <1>13,
     <1>14, <1>15 DEF Next, Proceed

\* On a file system whose timestamps tell two writes apart, everything processes of
\* any configuration and version do with the blob of a file, killed or not, is what
\* a store of entries does that may forget and never mixes contents or versions up.
THEOREM CacheIsAStore ==
  ASSUME Coarse = FALSE
  PROVE  Spec => StoreImplemented
<1>1. Init => Store!Init
  <2>1. ASSUME Init PROVE Kept = {} /\ At = [p \in Procs |-> "idle"]
    BY <2>1, Phases, CacheConstants DEF Init, Kept, Holding, At
  <2>2. QED
    BY <2>1 DEF Init, Store!Init
<1>2. Init => CarryInv
  BY DEF Init, CarryInv
<1>3. StoreInv /\ HitIsCurrent' /\ [Next]_vars => [Store!Next]_(Store!vars)
  BY StoreStep
<1>4. QED
  BY <1>1, <1>2, <1>3, CarryStep, TypeCorrect, LockIsDisciplined, FiledInvHolds, HitsAreCurrent, PTL
  DEF Spec, StoreInv, StoreImplemented, Store!Spec

================================================================================
