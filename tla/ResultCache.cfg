\* Two processes with three jobs between them, two contents of equal length, an edit
\* with a timestamp of its own, a killed process, a timeout and a damaged blob.
CONSTANTS
  p1 = p1
  p2 = p2
  c1 = c1
  c2 = c2
  h1 = h1
  h2 = h2
  v1 = v1
  v2 = v2
  Procs = {p1, p2}
  Contents = {c1, c2}
  Hooks = {h1, h2}
  Versions = {v1, v2}
  SizeOf <- MCSizeOf
  MaxTime = 1
  Coarse = FALSE
  None = None
  Absent = Absent
  Corrupt = Corrupt
SPECIFICATION FairSpec
CONSTRAINT ThreeJobs
INVARIANTS TypeOK LockDiscipline EntriesMatchBlob HitIsCurrent
PROPERTIES NoSiblingLost EveryCallReturns StoreImplemented
