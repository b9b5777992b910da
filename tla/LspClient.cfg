\* Two requests and the shutdown's one, against a server that answers late or never, dies, writes
\* garbage, and sends two messages of its own.
CONSTANTS
  MaxRequests = 2
  MaxNotifications = 2
  Garbles = TRUE
SPECIFICATION FairSpec
INVARIANTS RequestsApart BarrierHolds
PROPERTIES CallsEnd
