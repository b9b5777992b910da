------------------------------ MODULE ResultCache ------------------------------
(***************************************************************************)
(* The per-file result cache of _cache.py, and the advisory lock of        *)
(* _filelock.py it relies on, for ONE source file and the one JSON blob    *)
(* that belongs to it.                                                     *)
(*                                                                         *)
(* Every process runs the pair of calls the orchestrator makes for a file: *)
(* get_cached_result, and when that misses, an analysis followed by        *)
(* set_cached_result.  A step is one access to shared state: the source    *)
(* file (stat, hash, read), the lock, the blob.  Editors change the file   *)
(* between any two steps, a process may be killed at any step, any I/O may *)
(* fail, and the blob may be found unreadable (it is renamed into place    *)
(* without an fsync).                                                      *)
(*                                                                         *)
(* A cached result is abstracted to the content it was computed from, and  *)
(* tagged with the identity it was filed under.                            *)
(***************************************************************************)
EXTENDS Naturals

CONSTANTS
  Procs,        \* processes that run the hooks
  Contents,     \* possible contents of the source file (a hash is its content)
  Hooks,        \* hook names: one per selection and configuration of checks
  Versions,     \* cache versions: package tree hash and interpreter version
  SizeOf,       \* SizeOf[c]: size in bytes of content c
  MaxTime,      \* bound on the number of timestamp ticks
  Coarse,       \* TRUE: two edits may fall into one tick of the file system
  None,         \* no entry, no lock holder, no value
  Absent,       \* the blob file does not exist
  Corrupt       \* the blob file is not valid JSON

VARIABLES
  content,      \* current content of the source file
  mtime,        \* its st_mtime_ns
  blob,         \* the cache file: Absent, Corrupt, or a Blobs record
  lock,         \* the process that holds the flock on the .lock file
  pc,           \* where each process is
  job,          \* [hook, version] of the calls a process makes
  stat,         \* the stat a call took of the source file
  hash,         \* the hash set_cached_result computed
  data,         \* cache_data: the blob as loaded, or as about to be written
  source,       \* the content an analysis was made of
  answer,       \* the entry a hit returns
  seen          \* history: contents the file had since the call began

vars == <<content, mtime, blob, lock, pc, job, stat, hash, data, source, answer, seen>>

Time == 0 .. MaxTime
Jobs == [hook : Hooks, version : Versions]
Stats == [mtime : Time, size : {SizeOf[c] : c \in Contents}]
Entries == [of : Contents, under : Contents, by : Versions]
Blobs == [version : Versions, hash : Contents, mtime : Time,
          size : {SizeOf[c] : c \in Contents}, results : [Hooks -> Entries \cup {None}]]

GetPcs == {"exists", "getLock", "getLoad", "getHash", "getWrite"}
SetPcs == {"setStat", "setHash", "setLock", "setLoad", "setWrite"}
Inside == {"getLoad", "getHash", "getWrite", "setLoad", "setWrite"}
Pcs == {"idle", "hit", "miss"} \cup GetPcs \cup SetPcs

ASSUME CacheConstants ==
  /\ MaxTime \in Nat
  /\ Coarse \in BOOLEAN
  /\ None \notin Procs \cup Contents \cup Entries \cup Blobs \cup Jobs \cup Stats
  /\ Absent \notin Blobs /\ Corrupt \notin Blobs
  /\ Absent # Corrupt

--------------------------------------------------------------------------------

NoResults == [h \in Hooks |-> None]

CurrentStat == [mtime |-> mtime, size |-> SizeOf[content]]

SameVersion_Ignored(b, v) == b.version \in Versions

SameVersion(b, v) == b.version = v

SameStat_SizeOnly(b, s) == b.size = s.size

\* The fast path: a blob whose recorded stat is the file's is not hashed again.
SameStat(b, s) == b.mtime = s.mtime /\ b.size = s.size

SiblingsKept_VersionOnly(b, v, h) ==
  IF b \in Blobs /\ b.version = v THEN b.results ELSE NoResults

SiblingsKept_HashOnly(b, v, h) ==
  IF b \in Blobs /\ b.hash = h THEN b.results ELSE NoResults

\* Entries of other hooks that set_cached_result keeps beside the one it adds:
\* none when it starts a new blob or when the file's hash has changed.
SiblingsKept(b, v, h) ==
  IF b \in Blobs /\ b.version = v /\ b.hash = h THEN b.results ELSE NoResults

EntryOf(p) == [of |-> source[p], under |-> hash[p], by |-> job[p].version]

\* cache_data as set_cached_result writes it.
NewBlob(p) ==
  [version |-> job[p].version, hash |-> hash[p], mtime |-> stat[p].mtime, size |-> stat[p].size,
   results |-> [SiblingsKept(blob, job[p].version, hash[p]) EXCEPT ![job[p].hook] = EntryOf(p)]]

\* cache_data as get_cached_result writes it back after the slow path.
Refreshed(b, s) ==
  [version |-> b.version, hash |-> b.hash, mtime |-> s.mtime, size |-> s.size, results |-> b.results]

LockFree_Ignored == lock \in Procs \cup {None}

LockFree == lock = None

Unlocked_Kept(p) == lock

\* The with-statement releases the flock on every way out of it, and the kernel
\* does when the process dies.
Unlocked(p) == IF lock = p THEN None ELSE lock

Goto(p, to) == pc' = [pc EXCEPT ![p] = to]

locals == <<job, stat, hash, data, source, answer, seen>>
file == <<content, mtime>>

\* The lookup is over without a result: its locals are gone.
Miss(p) ==
  /\ Goto(p, "miss")
  /\ lock' = Unlocked(p)
  /\ stat' = [stat EXCEPT ![p] = None]
  /\ data' = [data EXCEPT ![p] = None]
  /\ seen' = [seen EXCEPT ![p] = {}]
  /\ UNCHANGED <<job, hash, source, answer>>

\* The process is done with the file.
Finish(p) ==
  /\ Goto(p, "idle")
  /\ lock' = Unlocked(p)
  /\ job' = [job EXCEPT ![p] = None]
  /\ stat' = [stat EXCEPT ![p] = None]
  /\ hash' = [hash EXCEPT ![p] = None]
  /\ data' = [data EXCEPT ![p] = None]
  /\ source' = [source EXCEPT ![p] = None]
  /\ answer' = [answer EXCEPT ![p] = None]
  /\ seen' = [seen EXCEPT ![p] = {}]

GiveUp_Raised(p) == Goto(p, "raised") /\ lock' = Unlocked(p) /\ UNCHANGED locals

\* Both calls turn an OSError (the lock's TimeoutError is one) into a warning:
\* a lookup becomes a miss, a store is given up.
GiveUp(p) == IF pc[p] \in GetPcs THEN Miss(p) ELSE Finish(p)

--------------------------------------------------------------------------------
(* get_cached_result *)

\* stat() of the source file, the first thing a lookup does.
Begin(p, h, v) ==
  /\ pc[p] = "idle"
  /\ Goto(p, "exists")
  /\ job' = [job EXCEPT ![p] = [hook |-> h, version |-> v]]
  /\ stat' = [stat EXCEPT ![p] = CurrentStat]
  /\ seen' = [seen EXCEPT ![p] = {content}]
  /\ UNCHANGED <<file, blob, lock, hash, data, source, answer>>

CheckExists(p) ==
  /\ pc[p] = "exists"
  /\ \/ blob = Absent /\ Miss(p)
     \/ blob # Absent /\ Goto(p, "getLock") /\ UNCHANGED <<lock, locals>>
  /\ UNCHANGED <<file, blob>>

Acquire(p) ==
  /\ pc[p] \in {"getLock", "setLock"}
  /\ LockFree
  /\ lock' = p
  /\ Goto(p, IF pc[p] = "getLock" THEN "getLoad" ELSE "setLoad")
  /\ UNCHANGED <<file, blob, locals>>

TimeOut_NeverRaised(p) == FALSE /\ UNCHANGED vars

\* The deadline passes on an attempt that finds the lock held.
TimeOut(p) ==
  /\ pc[p] \in {"getLock", "setLock"}
  /\ lock # None
  /\ GiveUp(p)
  /\ UNCHANGED <<file, blob>>

\* Return the hook's entry of a blob that is current, if it has one.
ReturnEntry(p, b) ==
  \/ b.results[job[p].hook] = None /\ Miss(p)
  \/ /\ b.results[job[p].hook] # None
     /\ Goto(p, "hit")
     /\ lock' = Unlocked(p)
     /\ answer' = [answer EXCEPT ![p] = b.results[job[p].hook]]
     /\ stat' = [stat EXCEPT ![p] = None]
     /\ data' = [data EXCEPT ![p] = None]
     /\ UNCHANGED <<job, hash, source, seen>>

\* json.load under the lock.  A blob that is gone, unreadable or of another
\* version is a miss; one with the file's stat answers at once.
LoadForGet(p) ==
  /\ pc[p] = "getLoad"
  /\ \/ blob \in {Absent, Corrupt} /\ Miss(p)
     \/ blob \in Blobs /\ ~ SameVersion(blob, job[p].version) /\ Miss(p)
     \/ /\ blob \in Blobs
        /\ SameVersion(blob, job[p].version)
        /\ SameStat(blob, stat[p])
        /\ ReturnEntry(p, blob)
     \/ /\ blob \in Blobs
        /\ SameVersion(blob, job[p].version)
        /\ ~ SameStat(blob, stat[p])
        /\ data' = [data EXCEPT ![p] = blob]
        /\ Goto(p, "getHash")
        /\ UNCHANGED <<lock, job, stat, hash, source, answer, seen>>
  /\ UNCHANGED <<file, blob>>

\* The slow path: hash the file, still under the lock.
HashForGet(p) ==
  /\ pc[p] = "getHash"
  /\ \/ content # data[p].hash /\ Miss(p)
     \/ /\ content = data[p].hash
        /\ data' = [data EXCEPT ![p] = Refreshed(data[p], stat[p])]
        /\ Goto(p, "getWrite")
        /\ UNCHANGED <<lock, job, stat, hash, source, answer, seen>>
  /\ UNCHANGED <<file, blob>>

\* _write_cache: the temporary file replaces the blob, then the entry is returned.
WriteForGet(p) ==
  /\ pc[p] = "getWrite"
  /\ blob' = data[p]
  /\ ReturnEntry(p, data[p])
  /\ UNCHANGED file

\* The caller takes a hit's entry as its result.
TakeHit(p) ==
  /\ pc[p] = "hit"
  /\ Finish(p)
  /\ UNCHANGED <<file, blob>>

--------------------------------------------------------------------------------
(* The caller's analysis, then set_cached_result *)

\* The orchestrator reads the source and runs the checks on what it read.
Analyse(p) ==
  /\ pc[p] = "miss"
  /\ Goto(p, "setStat")
  /\ source' = [source EXCEPT ![p] = content]
  /\ UNCHANGED <<file, blob, lock, job, stat, hash, data, answer, seen>>

StatForSet(p) ==
  /\ pc[p] = "setStat"
  /\ Goto(p, "setHash")
  /\ stat' = [stat EXCEPT ![p] = CurrentStat]
  /\ UNCHANGED <<file, blob, lock, job, hash, data, source, answer, seen>>

HashForSet(p) ==
  /\ pc[p] = "setHash"
  /\ Goto(p, "setLock")
  /\ hash' = [hash EXCEPT ![p] = content]
  /\ UNCHANGED <<file, blob, lock, job, stat, data, source, answer, seen>>

\* Load and merge under the lock.  An unreadable blob makes the store give up.
LoadForSet(p) ==
  /\ pc[p] = "setLoad"
  /\ \/ blob = Corrupt /\ Finish(p)
     \/ /\ blob # Corrupt
        /\ data' = [data EXCEPT ![p] = NewBlob(p)]
        /\ Goto(p, "setWrite")
        /\ UNCHANGED <<lock, job, stat, hash, source, answer, seen>>
  /\ UNCHANGED <<file, blob>>

WriteForSet(p) ==
  /\ pc[p] = "setWrite"
  /\ blob' = data[p]
  /\ Finish(p)
  /\ UNCHANGED file

--------------------------------------------------------------------------------
(* Failures and the environment *)

\* Any file operation of a call raises OSError; so does a call made while the
\* cache directory is unavailable, before it touches anything.
IoError(p) ==
  /\ pc[p] \in GetPcs \cup SetPcs
  /\ GiveUp(p)
  /\ UNCHANGED <<file, blob>>

\* SIGKILL.
Crash(p) ==
  /\ pc[p] # "idle"
  /\ Finish(p)
  /\ UNCHANGED <<file, blob>>

\* An editor, a version control checkout or a fixer writes the file (with the
\* same content: a touch).
Edit(c) ==
  /\ \/ mtime < MaxTime /\ mtime' = mtime + 1
     \/ Coarse /\ mtime' = mtime
  /\ content' = c
  /\ seen' = [p \in Procs |-> IF pc[p] \in GetPcs \cup {"hit"} THEN seen[p] \cup {c} ELSE seen[p]]
  /\ UNCHANGED <<blob, lock, pc, job, stat, hash, data, source, answer>>

\* A power loss after a rename that was never synced, or a damaged disk.
Damage ==
  /\ blob \notin {Absent, Corrupt}
  /\ blob' = Corrupt
  /\ UNCHANGED <<file, lock, pc, locals>>

\* The cache directory is deleted between invocations.
ClearCache ==
  /\ \A p \in Procs : pc[p] = "idle"
  /\ blob # Absent
  /\ blob' = Absent
  /\ UNCHANGED <<file, lock, pc, locals>>

--------------------------------------------------------------------------------

Init ==
  /\ content \in Contents
  /\ mtime = 0
  /\ blob = Absent
  /\ lock = None
  /\ pc = [p \in Procs |-> "idle"]
  /\ job = [p \in Procs |-> None]
  /\ stat = [p \in Procs |-> None]
  /\ hash = [p \in Procs |-> None]
  /\ data = [p \in Procs |-> None]
  /\ source = [p \in Procs |-> None]
  /\ answer = [p \in Procs |-> None]
  /\ seen = [p \in Procs |-> {}]

Proceed(p) ==
  \/ CheckExists(p) \/ Acquire(p) \/ TimeOut(p)
  \/ LoadForGet(p) \/ HashForGet(p) \/ WriteForGet(p) \/ TakeHit(p)
  \/ Analyse(p) \/ StatForSet(p) \/ HashForSet(p) \/ LoadForSet(p) \/ WriteForSet(p)

Next ==
  \/ \E p \in Procs :
       \/ \E h \in Hooks, v \in Versions : Begin(p, h, v)
       \/ Proceed(p)
       \/ IoError(p)
       \/ Crash(p)
  \/ \E c \in Contents : Edit(c)
  \/ Damage
  \/ ClearCache

Spec == Init /\ [][Next]_vars

\* A running process is scheduled; nobody is obliged to start one, to fail one
\* or to edit the file.
FairSpec == Spec /\ \A p \in Procs : WF_vars(Proceed(p))

--------------------------------------------------------------------------------
(* Properties *)

\* Every variable holds a value of its kind, and a process has the stat, the
\* hash, the loaded blob, the analysed source or the entry that the step it is
\* at needs (_cache.py: the locals of the two calls).
TypeOK ==
  /\ content \in Contents
  /\ mtime \in Time
  /\ blob \in Blobs \cup {Absent, Corrupt}
  /\ lock \in Procs \cup {None}
  /\ pc \in [Procs -> Pcs]
  /\ job \in [Procs -> Jobs \cup {None}]
  /\ stat \in [Procs -> Stats \cup {None}]
  /\ hash \in [Procs -> Contents \cup {None}]
  /\ data \in [Procs -> Blobs \cup {None}]
  /\ source \in [Procs -> Contents \cup {None}]
  /\ answer \in [Procs -> Entries \cup {None}]
  /\ seen \in [Procs -> SUBSET Contents]
  /\ \A p \in Procs :
       /\ pc[p] # "idle" => job[p] \in Jobs
       /\ pc[p] \in GetPcs \cup {"setHash", "setLock", "setLoad", "setWrite"} => stat[p] \in Stats
       /\ pc[p] \in {"setLock", "setLoad", "setWrite"} => hash[p] \in Contents
       /\ pc[p] \in {"getHash", "getWrite", "setWrite"} => data[p] \in Blobs
       /\ pc[p] \in SetPcs => source[p] \in Contents
       /\ pc[p] = "hit" => answer[p] \in Entries

\* The flock is held exactly by the process that is between acquiring it and
\* leaving the with-statement: no early return, miss, error or death of a
\* process keeps it, and nobody is inside without it (_filelock.py locked).
LockDiscipline == \A p \in Procs : pc[p] \in Inside <=> lock = p

FiledUnder(b) ==
  \A h \in Hooks : b.results[h] # None => b.results[h].under = b.hash /\ b.results[h].by = b.version

\* Whatever set_cached_result calls of different hooks, versions and contents
\* interleave with lookups that refresh the blob, an entry stays filed under the
\* file hash and the version it was stored for: a sibling's entry never moves
\* under a newer identity of the file.
EntriesMatchBlob == blob \in Blobs => FiledUnder(blob)

\* A hit returns an entry that was filed by this version, for a content the file
\* really had at some moment of the call, even though the stat, the load and the
\* hash are separate steps and other processes refresh the blob's stat between
\* them.
HitIsCurrent ==
  \A p \in Procs : pc[p] = "hit" => answer[p].by = job[p].version /\ answer[p].under \in seen[p]

SiblingsSurvive ==
  (blob \in Blobs /\ blob' \in Blobs /\ blob'.hash = blob.hash /\ blob'.version = blob.version)
    => \A h \in Hooks : blob.results[h] # None => blob'.results[h] # None

\* A rewrite of the blob for the same content and version keeps every entry of
\* the other hooks: no update is lost between a load and the rename.
NoSiblingLost == [][SiblingsSurvive]_vars

\* Every call returns although others keep taking the lock: an attempt that
\* always finds it held ends with the timeout.
EveryCallReturns == \A p \in Procs : pc[p] # "idle" ~> pc[p] = "idle"

\* docs/behavioral_contract.md, 11: "MUST NOT reuse cached diagnostics for
\* different source content": what a hit returns was computed from a content
\* the file had during the call.
HitWasComputedFromCurrent ==
  \A p \in Procs : pc[p] = "hit" => answer[p].of \in seen[p]
================================================================================
