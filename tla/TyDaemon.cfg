\* Two hook processes: alone with a daemon, against late answers and failing starts,
\* through an upgrade of ty, and with a shutdown while processes are killed.
CONSTANTS
  c1 = c1
  c2 = c2
  Clients = {c1, c2}
  MaxDaemons = 3
  Settings <- MCSettings
SPECIFICATION FairSpec
INVARIANTS DaemonsAgree Reachable NothingLeft
PROPERTIES EverybodyEnds
