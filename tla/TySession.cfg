\* Files a and b, of two texts each, a depending on b: a process alone over three runs, two
\* that share the session, both while ty fails or a process is killed, and a private session.
CONSTANTS
  c1 = c1
  c2 = c2
  Clients = {c1, c2}
  Files = {"a", "b"}
  Texts = {"t1", "t2"}
  Deps <- ADependsOnB
  Settings <- MCSettings
SPECIFICATION FairSpec
INVARIANTS AnalysesApart CacheFresh ReportsFresh
PROPERTIES ChangeKept RunsEnd
