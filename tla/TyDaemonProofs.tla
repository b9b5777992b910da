--------------------------- MODULE TyDaemonProofs ---------------------------
(* Theorems of TyDaemon: how the daemons of one project keep out of each    *)
(* other's way, for any number of processes, daemons, identities and calls. *)
EXTENDS TyDaemon, TLAPS

-----------------------------------------------------------------------------
(* The inductive invariant *)

ClientType == [pc : ClientPcs, id : Identities, at : Places, tries : 0..MaxTries,
               departing : BOOLEAN, child : Daemons \cup {NoOne}, result : Outcomes]
DaemonType == [pc : DaemonPcs, id : Identities, asked : BOOLEAN, says : {"nothing", "READY", "FAILED"}]
ConnType   == [c : Clients, n : 0..MaxTries, at : Places, d : Daemons, id : Identities,
               st : {"queued", "accepted", "ok", "ended", "lost"}, shut : BOOLEAN]

(* A client that may start a daemon holds the spawn lock from the attempt    *)
(* under the lock to the end of the call.                                    *)
Holding(c) ==
  /\ CallOf[c] = "connect"
  /\ \/ cl[c].pc \in {"alive", "spawn", "await", "kill"}
     \/ cl[c].pc \in {"try", "wait"} /\ cl[c].at # "first"

ClientInv ==
  \A c \in Clients :
    /\ Holding(c) => lock = c
    /\ cl[c].pc = "idle" => cl[c].at = "first"
    /\ cl[c].pc \in {"lock", "spawn", "await", "kill"} => CallOf[c] = "connect"
    /\ cl[c].pc \in {"unsock", "unpid", "confirm"} => CallOf[c] # "connect"
    /\ cl[c].result = "killed" => cl[c].pc = "done" /\ c \in Mortal

(* What a daemon printed, by how far it is. *)
SaysInv ==
  \A d \in Daemons :
    /\ dm[d].pc \in Starting \cup {"unborn"} => dm[d].says = "nothing"
    /\ dm[d].pc \in DaemonPcs \ (Starting \cup {"unborn", "gone"}) => dm[d].says = "READY"

(* The client that started a daemon waits for it, unless it was killed. *)
Parent(c, d) ==
  /\ cl[c].child = d /\ CallOf[c] = "connect"
  /\ cl[c].pc \in {"await", "kill"} \/ cl[c].result = "killed"

StartInv == \A d \in StartingNow : \E c \in Clients : Parent(c, d)

(* Before it listens a daemon has no connection.  A client has one at most,  *)
(* and one that was accepted is with a daemon of its identity.               *)
Unseen == {"unborn", "unlink", "session", "pid", "bind", "listen"}

ConnsInv ==
  /\ \A k \in conns : dm[k.d].pc \notin Unseen
  /\ \A k \in conns : ~k.shut => cl[k.c].pc \in {"wait", "have"}
  /\ \A j, k \in conns : ~j.shut /\ ~k.shut /\ j.c = k.c => j = k
  /\ \A k \in conns : k.st = "ok" \/ (~k.shut /\ cl[k.c].pc = "have") => k.id = dm[k.d].id

(* Without replacements and probes there is one daemon, which has the        *)
(* pidfile from before it binds until it is gone, and the socket path.       *)
OrderlyInv ==
  /\ \A k \in conns : k.st # "ended"
  /\ \A c \in Clients : ~cl[c].departing
  /\ \A d, e \in Daemons : Alive(d) /\ Alive(e) => d = e
  /\ \A c \in Clients : cl[c].pc = "spawn" => \A d \in Daemons : ~Alive(d)
  /\ \A d \in Daemons : Alive(d) /\ dm[d].pc \notin {"unlink", "session", "pid"} => pid = d
  /\ \A d \in Daemons : dm[d].pc \in {"session", "pid", "bind"} => sock = NoOne
  /\ \A d \in Daemons : dm[d].pc \in Listening \cup {"listen"} => sock = d

(* Nothing is too late and nobody is killed. *)
Undisturbed == ~Slow /\ Mortal = {} /\ (Faulty => "stale" \notin Starts)

(* The files a daemon left before the beginning are still there, and who     *)
(* will remove them is on the way.                                           *)
Stale ==
  /\ pid = 1 /\ dm[1].pc = "gone" /\ sock \in {NoOne, 1} /\ "stale" \in Starts
  /\ \A d \in Daemons \ {1} : dm[d].pc \in {"unborn", "unlink", "session", "pid"}
  /\ \A c \in Clients :
       /\ cl[c].pc \in {"idle", "try", "lock", "alive", "spawn", "await", "unsock", "unpid", "done"}
       /\ cl[c].pc = "try" => cl[c].at \in {"first", "locked"}
       /\ cl[c].pc = "await" => cl[c].child # 1
       /\ cl[c].pc \in {"unpid", "done"} => sock = NoOne
  /\ sock = NoOne => (\E c \in Clients : cl[c].pc = "unpid") \/ (\E d \in Daemons : Alive(d))

(* From its bind to its clean-up a daemon may own the socket path, from a    *)
(* step before to a step after the pidfile, and a foreign pidfile is never   *)
(* beside its socket.                                                        *)
SockPcs == {"listen", "ready", "head", "accept", "join", "close", "closing", "own", "unsock"}

WaitInv ==
  \A c \in Clients :
    /\ cl[c].pc \in {"await", "kill"} => cl[c].child \in Daemons
    /\ cl[c].pc = "await" => dm[cl[c].child].pc # "unborn"
    /\ cl[c].pc = "await" /\ dm[cl[c].child].pc = "gone" => dm[cl[c].child].says # "nothing"
    /\ cl[c].pc = "kill" => dm[cl[c].child].pc = "gone"

FilesInv ==
  /\ sock # NoOne => pid \in {sock, NoOne}
  /\ \A d \in Daemons : dm[d].pc \in {"session", "pid", "bind"} => sock = NoOne
  /\ \A d \in Daemons : dm[d].pc = "bind" => pid \in {d, NoOne}
  /\ Stale \/ (sock # NoOne => dm[sock].pc \in SockPcs)
  /\ Stale \/ (pid # NoOne => dm[pid].pc \in SockPcs \cup {"bind", "unpid"})

Inv ==
  /\ TypeOK /\ ClientInv /\ SaysInv /\ StartInv /\ ConnsInv
  /\ Orderly => OrderlyInv
  /\ Undisturbed => WaitInv /\ FilesInv

-----------------------------------------------------------------------------
(* The setting *)

SameSetting ==
  /\ CallOf' = CallOf /\ Identities' = Identities /\ MaxUpgrades' = MaxUpgrades /\ MaxTries' = MaxTries
  /\ Slow' = Slow /\ Faulty' = Faulty /\ Mortal' = Mortal /\ Starts' = Starts
  /\ Orderly' = Orderly /\ Undisturbed' = Undisturbed /\ SpawnersLive' = SpawnersLive

LEMMA SettingKept ==
  ASSUME UNCHANGED setting  PROVE SameSetting
BY DEF SameSetting, CallOf, Identities, MaxUpgrades, MaxTries, Slow, Faulty, Mortal, Starts,
       Orderly, Undisturbed, SpawnersLive, Connecting

LEMMA SettingType ==
  ASSUME setting \in DOMAIN Settings
  PROVE  /\ CallOf \in [Clients -> {"connect", "probe", "shutdown"}]
         /\ Identities # {} /\ MaxUpgrades \in Nat /\ MaxTries \in Nat \ {0}
         /\ {Slow, Faulty} \subseteq BOOLEAN
         /\ Mortal \subseteq Clients \cup Daemons /\ Starts \subseteq {"none", "running", "stale"}
BY TyDaemonAssumption DEF CallOf, Identities, MaxUpgrades, MaxTries, Slow, Faulty, Mortal, Starts

LEMMA DaemonsType == Daemons \subseteq Nat /\ 1 \in Daemons /\ NoOne \notin Daemons /\ NoOne \notin Clients
BY TyDaemonAssumption DEF Daemons, NoOne

-----------------------------------------------------------------------------
(* The initial states *)

LEMMA InitInv == Init => Inv
<1>. SUFFICES ASSUME Init PROVE Inv
  OBVIOUS
<1>. USE DaemonsType
<1>1. setting \in DOMAIN Settings /\ identity \in Identities /\ upgrades = 0 /\ lock = NoOne /\ conns = {}
  BY DEF Init
<1>2. PICK s \in Starts :
        IF s = "none"
        THEN sock = NoOne /\ pid = NoOne /\ dm = [d \in Daemons |-> NewDaemon("unborn")]
        ELSE /\ sock = 1 /\ pid = 1
             /\ \E i \in Identities :
                  dm = [d \in Daemons |->
                         IF d > 1 THEN NewDaemon("unborn")
                         ELSE [NewDaemon(IF s = "running" THEN "head" ELSE "gone")
                                 EXCEPT !.id = i, !.says = "READY"]]
  BY DEF Init
<1>3. /\ MaxUpgrades \in Nat /\ MaxTries \in Nat \ {0} /\ s \in {"none", "running", "stale"}
      /\ (CHOOSE i \in Identities : TRUE) \in Identities
  BY <1>1, SettingType
<1>4. /\ cl \in [Clients -> ClientType]
      /\ \A c \in Clients : /\ cl[c].pc = "idle" /\ cl[c].at = "first" /\ ~cl[c].departing
                            /\ cl[c].result = "none"
  <2>1. cl = [c \in Clients |-> NewClient]
    BY DEF Init
  <2>2. NewClient \in ClientType
    BY <1>3 DEF NewClient, ClientType, ClientPcs, Places, Outcomes
  <2>. QED
    BY <2>1, <2>2 DEF NewClient
<1>5. /\ dm \in [Daemons -> DaemonType] /\ {sock, pid} \subseteq Daemons \cup {NoOne} /\ sock = pid
      /\ \A d \in Daemons \ {1} : dm[d].pc = "unborn" /\ dm[d].says = "nothing"
      /\ \/ sock = NoOne /\ dm[1].pc = "unborn" /\ dm[1].says = "nothing"
         \/ sock = 1 /\ dm[1].pc = "head" /\ dm[1].says = "READY"
         \/ sock = 1 /\ dm[1].pc = "gone" /\ "stale" \in Starts
  <2>1. \A q \in DaemonPcs : \E n \in DaemonType : n = NewDaemon(q) /\ n.pc = q
    <3>. TAKE q \in DaemonPcs
    <3>. DEFINE j == CHOOSE i \in Identities : TRUE
                n == [pc |-> q, id |-> j, says |-> "nothing", asked |-> FALSE]
    <3>1. n = NewDaemon(q)
      BY DEF NewDaemon
    <3>2. j \in Identities
      BY <1>3
    <3>3. n \in DaemonType /\ n.pc = q
      <4>. HIDE DEF j
      <4>. QED
        BY <3>2 DEF DaemonType
    <3>. QED
      BY <3>1, <3>3
  <2>2. NewDaemon("unborn") \in DaemonType
    BY <1>3 DEF NewDaemon, DaemonType, DaemonPcs
  <2>3. CASE s = "none"
    <3>1. sock = NoOne /\ pid = NoOne /\ dm = [d \in Daemons |-> NewDaemon("unborn")]
      BY <1>2, <2>3
    <3>2. dm \in [Daemons -> DaemonType] /\ \A d \in Daemons : dm[d] = NewDaemon("unborn")
      BY <2>2, <3>1
    <3>3. NewDaemon("unborn").pc = "unborn" /\ NewDaemon("unborn").says = "nothing"
      BY DEF NewDaemon
    <3>. QED
      BY <3>1, <3>2, <3>3
  <2>4. CASE s # "none"
    <3>1. PICK i \in Identities :
            dm = [d \in Daemons |->
                   IF d > 1 THEN NewDaemon("unborn")
                   ELSE [NewDaemon(IF s = "running" THEN "head" ELSE "gone")
                           EXCEPT !.id = i, !.says = "READY"]]
      BY <1>2, <2>4
    <3>2. \A d \in Daemons \ {1} : d > 1
      BY DEF Daemons
    <3>. DEFINE q == IF s = "running" THEN "head" ELSE "gone"
                first == [NewDaemon(q) EXCEPT !.id = i, !.says = "READY"]
    <3>3. dm = [d \in Daemons |-> IF d > 1 THEN NewDaemon("unborn") ELSE first]
      BY <3>1
    <3>4. first \in DaemonType /\ first.says = "READY" /\ first.pc = q
      <4>1. q \in DaemonPcs
        BY DEF DaemonPcs, Listening, Starting
      <4>. HIDE DEF q
      <4>2. PICK n \in DaemonType : n = NewDaemon(q) /\ n.pc = q
        BY <2>1, <4>1
      <4>3. first = [n EXCEPT !.id = i, !.says = "READY"]
        BY <4>2
      <4>. HIDE DEF first
      <4>. QED
        BY <3>1, <4>2, <4>3 DEF DaemonType
    <3>5. NewDaemon("unborn").pc = "unborn" /\ NewDaemon("unborn").says = "nothing"
      BY DEF NewDaemon
    <3>. HIDE DEF first
    <3>6. /\ dm \in [Daemons -> DaemonType] /\ dm[1] = first
          /\ \A d \in Daemons \ {1} : dm[d] = NewDaemon("unborn")
      BY <2>2, <3>2, <3>3, <3>4
    <3>7. sock = 1 /\ pid = 1 /\ s \in {"running", "stale"}
      BY <1>2, <1>3, <2>4
    <3>8. dm[1].says = "READY" /\ dm[1].pc = IF s = "running" THEN "head" ELSE "gone"
      BY <3>4, <3>6
    <3>. QED
      BY <3>5, <3>6, <3>7, <3>8
  <2>. QED
    BY <2>3, <2>4
<1>6. TypeOK
  BY <1>1, <1>3, <1>4, <1>5 DEF TypeOK, ClientType, DaemonType
<1>7. ClientInv /\ SaysInv /\ StartInv /\ ConnsInv
  BY <1>1, <1>4, <1>5 DEF ClientInv, Holding, SaysInv, StartInv, StartingNow, Starting, ConnsInv
<1>8. OrderlyInv
  BY <1>1, <1>4, <1>5 DEF OrderlyInv, Alive, Listening
<1>9. WaitInv /\ FilesInv
  <2>1. WaitInv
    BY <1>4 DEF WaitInv
  <2>2. sock = 1 /\ dm[1].pc = "gone" /\ "stale" \in Starts => Stale
    BY <1>4, <1>5 DEF Stale, NoOne
  <2>. QED
    BY <1>5, <2>1, <2>2 DEF FilesInv, SockPcs
<1>. QED
  BY <1>6, <1>7, <1>8, <1>9 DEF Inv

-----------------------------------------------------------------------------
(* What a step does to the connections: some are forgotten, the others stay  *)
(* the same connections of the same processes.                               *)
CarriedBy(f) ==
  /\ f \in [conns -> ConnType] /\ conns' \subseteq {f[j] : j \in conns}
  /\ \A j \in conns :
       /\ f[j].c = j.c /\ f[j].d = j.d /\ f[j].id = j.id /\ (j.shut => f[j].shut)
       /\ f[j].st = "ok" => j.st = "ok" \/ j.id = dm[j.d].id
       /\ f[j].st = "ended" => j.st = "ended" \/ j.id # dm[j.d].id \/ CallOf[j.c] = "shutdown"

Carried == \E f : CarriedBy(f)
AllShut(c) == \A k \in conns' : k.c = c => k.shut

LEMMA ConnsType ==
  ASSUME TypeOK
  PROVE  conns \subseteq ConnType
BY DEF TypeOK, ConnType

LEMMA CarriedSame ==
  ASSUME TypeOK, UNCHANGED conns
  PROVE  Carried
<1>. DEFINE f == [j \in conns |-> j]
<1>1. f \in [conns -> ConnType] /\ \A j \in conns : f[j] = j
  BY ConnsType
<1>. HIDE DEF f
<1>. QED
  BY <1>1 DEF Carried, CarriedBy

LEMMA CarriedShut ==
  ASSUME TypeOK, NEW c, conns' = Live(Shut(c))
  PROVE  Carried /\ AllShut(c)
<1>. DEFINE f == [j \in conns |-> IF j.c = c THEN [j EXCEPT !.shut = TRUE] ELSE j]
<1>1. \A j \in conns : /\ f[j] \in ConnType /\ f[j].c = j.c /\ f[j].d = j.d /\ f[j].id = j.id
                       /\ f[j].st = j.st /\ (j.shut => f[j].shut) /\ (j.c = c => f[j].shut)
  <2>. TAKE j \in conns
  <2>1. CASE j.c = c
    <3>1. f[j] = [j EXCEPT !.shut = TRUE] /\ j \in ConnType
      BY <2>1, ConnsType
    <3>. HIDE DEF f
    <3>. QED
      BY <3>1, <2>1 DEF ConnType
  <2>2. CASE j.c # c
    <3>1. f[j] = j /\ j \in ConnType
      BY <2>2, ConnsType
    <3>. HIDE DEF f
    <3>. QED
      BY <3>1, <2>2 DEF ConnType
  <2>. QED
    BY <2>1, <2>2
<1>2. conns' \subseteq {f[j] : j \in conns} /\ f \in [conns -> ConnType]
  BY <1>1 DEF Live, Shut
<1>. HIDE DEF f
<1>3. CarriedBy(f)
  BY <1>1, <1>2 DEF CarriedBy
<1>4. AllShut(c)
  BY <1>1, <1>2 DEF AllShut
<1>. QED
  BY <1>3, <1>4 DEF Carried

LEMMA CarriedReset ==
  ASSUME TypeOK, NEW d, conns' = Live(Reset(d))
  PROVE  Carried
<1>. DEFINE f == [j \in conns |-> IF j.d = d /\ j.st # "ended" THEN [j EXCEPT !.st = "lost"] ELSE j]
<1>1. \A j \in conns : /\ f[j] \in ConnType /\ f[j].c = j.c /\ f[j].d = j.d /\ f[j].id = j.id
                       /\ f[j].st \in {j.st, "lost"} /\ f[j].shut = j.shut
  BY ConnsType DEF ConnType
<1>2. conns' \subseteq {f[j] : j \in conns} /\ f \in [conns -> ConnType]
  BY <1>1 DEF Live, Reset
<1>. HIDE DEF f
<1>3. CarriedBy(f)
  BY <1>1, <1>2 DEF CarriedBy
<1>. QED
  BY <1>3 DEF Carried

(* One connection takes its turn.                                            *)
LEMMA CarriedTurn ==
  ASSUME TypeOK, NEW k \in conns, NEW st \in {"accepted", "ok", "ended", "lost"},
         conns' \subseteq Turn(k, st),
         st = "ok" => k.id = dm[k.d].id, st = "ended" => k.id # dm[k.d].id
  PROVE  Carried
<1>. DEFINE f == [j \in conns |-> IF j = k THEN [k EXCEPT !.st = st] ELSE j]
<1>1. \A j \in conns : /\ f[j] \in ConnType /\ f[j].c = j.c /\ f[j].d = j.d /\ f[j].id = j.id
                       /\ f[j].shut = j.shut
                       /\ f[j].st = IF j = k THEN st ELSE j.st
  BY ConnsType DEF ConnType
<1>2. conns' \subseteq {f[j] : j \in conns} /\ f \in [conns -> ConnType]
  <2>1. f[k] = [k EXCEPT !.st = st] /\ \A j \in conns \ {k} : f[j] = j
    OBVIOUS
  <2>. HIDE DEF f
  <2>2. conns' \subseteq {f[j] : j \in conns}
    BY <2>1 DEF Turn
  <2>3. f \in [conns -> ConnType]
    BY <1>1 DEF f
  <2>. QED
    BY <2>2, <2>3
<1>. HIDE DEF f
<1>3. CarriedBy(f)
  BY <1>1, <1>2 DEF CarriedBy
<1>. QED
  BY <1>3 DEF Carried

-----------------------------------------------------------------------------
(* What a step does to the client that takes it *)

ClientFrame(c) == cl' \in [Clients -> ClientType] /\ \A d \in Clients \ {c} : cl'[d] = cl[d]

Go(c, pc, at) ==
  /\ cl'[c].pc = pc /\ cl'[c].at = at /\ cl'[c].child = cl[c].child
  /\ cl'[c].result = cl[c].result /\ lock' = lock

Stop(c, pc) ==
  /\ cl'[c].pc = pc /\ cl'[c].at = cl[c].at /\ cl'[c].child = cl[c].child
  /\ cl'[c].result # "killed" /\ Release(c)

Calls(c) == CallOf[c] = "connect"

(* After an attempt *)
Reply(c, out) ==
  \/ out = "session" /\ Stop(c, "have")
  \/ /\ out # "session"
     /\ \/ Calls(c) /\ cl[c].at = "first" /\ Go(c, "lock", "first")
        \/ Calls(c) /\ cl[c].at = "locked" /\ Go(c, "alive", "locked")
        \/ Calls(c) /\ cl[c].at \in {"locked", "busy"} /\ Go(c, "spawn", cl[c].at) /\ cl'[c].departing
        \/ cl[c].at = "busy" /\ Go(c, "try", "busy")
        \/ cl[c].at \in {"busy", "after"} /\ Stop(c, "done")
        \/ ~Calls(c) /\ cl[c].at = "first" /\ Go(c, "alive", "first")
        \/ ~Calls(c) /\ cl[c].at = "first" /\ out = "departing" /\ Stop(c, "done")

LEMMA ClientsType ==
  ASSUME TypeOK
  PROVE  cl \in [Clients -> ClientType] /\ lock \in Clients \cup {NoOne} /\ setting \in DOMAIN Settings
BY DEF TypeOK, ClientType

LEMMA GotoMoves ==
  ASSUME TypeOK, NEW c \in Clients, NEW pc \in ClientPcs, Goto(c, pc), UNCHANGED lock
  PROVE  ClientFrame(c) /\ Go(c, pc, cl[c].at) /\ cl'[c].departing = cl[c].departing
BY ClientsType DEF Goto, ClientFrame, Go, ClientType

LEMMA FinishMoves ==
  ASSUME TypeOK, NEW c \in Clients, NEW res \in Outcomes, Finish(c, res)
  PROVE  /\ ClientFrame(c) /\ Release(c) /\ cl'[c].departing = cl[c].departing
         /\ cl'[c].pc = IF res = "session" THEN "have" ELSE "done"
         /\ cl'[c].at = cl[c].at /\ cl'[c].child = cl[c].child /\ cl'[c].result = res
<1>. DEFINE pc == IF res = "session" THEN "have" ELSE "done"
<1>1. cl' = [cl EXCEPT ![c].pc = pc, ![c].result = res] /\ Release(c)
  BY DEF Finish
<1>2. pc \in ClientPcs
  BY DEF ClientPcs
<1>. HIDE DEF pc
<1>3. /\ ClientFrame(c) /\ cl'[c].departing = cl[c].departing /\ cl'[c].pc = pc
      /\ cl'[c].at = cl[c].at /\ cl'[c].child = cl[c].child /\ cl'[c].result = res
  BY <1>1, <1>2, ClientsType DEF ClientFrame, ClientType
<1>. QED
  BY <1>1, <1>3 DEF pc

LEMMA StopMoves ==
  ASSUME TypeOK, NEW c \in Clients, NEW res \in Outcomes \ {"killed"}, Finish(c, res)
  PROVE  /\ ClientFrame(c) /\ cl'[c].departing = cl[c].departing
         /\ Stop(c, IF res = "session" THEN "have" ELSE "done")
BY FinishMoves DEF Stop

LEMMA WaitOnMoves ==
  ASSUME TypeOK, NEW c \in Clients, NEW out \in {"departing", "none"}, NEW D, NEW E,
         WaitOn(c, out, D, E)
  PROVE  \/ out = "departing" /\ D
         \/ out = "none" /\ E
         \/ /\ out = "none" /\ ClientFrame(c) /\ Go(c, "try", "busy")
            /\ cl'[c].departing = cl[c].departing
<1>1. CASE /\ out = "none" /\ cl[c].tries # MaxTries /\ UNCHANGED lock
           /\ cl' = [cl EXCEPT ![c].pc = "try", ![c].at = "busy", ![c].tries = Tried(c)]
  <2>1. MaxTries \in Nat /\ cl[c].tries \in 0..MaxTries /\ Tried(c) = cl[c].tries + 1
    BY ClientsType, SettingType DEF ClientType, Tried
  <2>2. Tried(c) \in 0..MaxTries
    BY <1>1, <2>1
  <2>3. {"try"} \subseteq ClientPcs /\ {"busy"} \subseteq Places
    BY DEF ClientPcs, Places
  <2>4. ClientFrame(c) /\ Go(c, "try", "busy") /\ cl'[c].departing = cl[c].departing
    BY <1>1, <2>2, <2>3, ClientsType, ZenonT(40) DEF ClientFrame, Go, ClientType
  <2>. QED
    BY <1>1, <2>4
<1>. QED
  BY <1>1 DEF WaitOn

(* An attempt that ended without a session, for a client that connects ... *)
LEMMA ConnectGoesOnMoves ==
  ASSUME TypeOK, NEW c \in Clients, Calls(c), NEW out \in {"departing", "none"}, ConnectGoesOn(c, out)
  PROVE  /\ ClientFrame(c) /\ Reply(c, out)
         /\ cl'[c].departing => cl[c].departing \/ out = "departing"
<1>. DEFINE told == cl[c].departing \/ out = "departing"
            step(pc) == cl' = [cl EXCEPT ![c].pc = pc, ![c].departing = told] /\ UNCHANGED lock
<1>1. ASSUME NEW pc \in ClientPcs, step(pc)
      PROVE  ClientFrame(c) /\ Go(c, pc, cl[c].at) /\ cl'[c].departing = told
  <2>1. told \in BOOLEAN
    OBVIOUS
  <2>2. cl' = [cl EXCEPT ![c].pc = pc, ![c].departing = told] /\ UNCHANGED lock
    BY <1>1
  <2>. HIDE DEF told
  <2>. QED
    BY <2>1, <2>2, ClientsType DEF ClientFrame, Go, ClientType
<1>2. {"lock", "spawn", "alive"} \subseteq ClientPcs /\ {"busy", "unreachable"} \subseteq Outcomes \ {"killed", "session"}
  BY DEF ClientPcs, Outcomes
<1>3. \/ cl[c].at = "first" /\ step("lock")
      \/ cl[c].at = "locked" /\ step(IF told THEN "spawn" ELSE "alive")
      \/ cl[c].at = "busy" /\ WaitOn(c, out, step("spawn"), Finish(c, "busy"))
      \/ cl[c].at = "after" /\ Finish(c, "unreachable")
  BY DEF ConnectGoesOn
<1>. HIDE DEF step, told
<1>4. CASE cl[c].at = "first" /\ step("lock")
  BY <1>1, <1>2, <1>4 DEF Reply, told
<1>5. CASE cl[c].at = "locked" /\ step(IF told THEN "spawn" ELSE "alive")
  <2>1. CASE told
    BY <1>1, <1>2, <1>5, <2>1 DEF Reply, told
  <2>2. CASE ~told
    BY <1>1, <1>2, <1>5, <2>2 DEF Reply, told
  <2>. QED
    BY <2>1, <2>2
<1>6. CASE cl[c].at = "busy" /\ WaitOn(c, out, step("spawn"), Finish(c, "busy"))
  <2>1. CASE out = "departing" /\ step("spawn")
    BY <1>1, <1>2, <1>6, <2>1 DEF Reply, told
  <2>2. CASE out = "none" /\ Finish(c, "busy")
    BY <1>2, <1>6, <2>2, StopMoves DEF Reply
  <2>3. CASE out = "none" /\ ClientFrame(c) /\ Go(c, "try", "busy") /\ cl'[c].departing = cl[c].departing
    BY <1>6, <2>3 DEF Reply
  <2>. QED
    BY <1>6, <2>1, <2>2, <2>3, WaitOnMoves
<1>7. CASE cl[c].at = "after" /\ Finish(c, "unreachable")
  BY <1>2, <1>7, StopMoves DEF Reply
<1>. QED
  BY <1>3, <1>4, <1>5, <1>6, <1>7

(* ... and for one that looks for an existing daemon.                        *)
LEMMA ProbeGoesOnMoves ==
  ASSUME TypeOK, NEW c \in Clients, ~Calls(c), NEW out \in {"departing", "none"}, ProbeGoesOn(c, out)
  PROVE  ClientFrame(c) /\ Reply(c, out) /\ cl'[c].departing = cl[c].departing
<1>1. "alive" \in ClientPcs /\ "none" \in Outcomes \ {"killed", "session"}
  BY DEF ClientPcs, Outcomes
<1>2. CASE cl[c].at = "first" /\ out = "departing" /\ Finish(c, "none")
  BY <1>1, <1>2, StopMoves DEF Reply
<1>3. CASE cl[c].at = "first" /\ out = "none" /\ Goto(c, "alive") /\ UNCHANGED lock
  BY <1>1, <1>3, GotoMoves DEF Reply
<1>4. CASE cl[c].at = "busy" /\ WaitOn(c, out, Finish(c, "none"), Finish(c, "none"))
  <2>1. CASE Finish(c, "none")
    BY <1>1, <1>4, <2>1, StopMoves DEF Reply
  <2>2. CASE ClientFrame(c) /\ Go(c, "try", "busy") /\ cl'[c].departing = cl[c].departing
    BY <1>4, <2>2 DEF Reply
  <2>. QED
    BY <1>4, <2>1, <2>2, WaitOnMoves
<1>. QED
  BY <1>2, <1>3, <1>4 DEF ProbeGoesOn

LEMMA AnsweredMoves ==
  ASSUME TypeOK, NEW c \in Clients, NEW out \in {"session", "departing", "none"}, Answered(c, out)
  PROVE  /\ ClientFrame(c) /\ Reply(c, out)
         /\ cl'[c].departing => cl[c].departing \/ out = "departing"
<1>1. CASE out = "session"
  BY <1>1, StopMoves DEF Answered, Reply, Outcomes
<1>2. CASE out # "session" /\ Calls(c)
  BY <1>2, ConnectGoesOnMoves DEF Answered, Calls
<1>3. CASE out # "session" /\ ~Calls(c)
  BY <1>3, ProbeGoesOnMoves DEF Answered, Calls
<1>. QED
  BY <1>1, <1>2, <1>3

-----------------------------------------------------------------------------
(* What a step of a client does *)

DaemonFrame(d) == dm' \in [Daemons -> DaemonType] /\ \A e \in Daemons \ {d} : dm'[e] = dm[e]
Still == UNCHANGED <<sock, pid, dm>>

Begins(c) ==
  /\ cl[c].pc = "idle" /\ Still /\ UNCHANGED conns
  /\ Go(c, "try", cl[c].at) \/ ((Faulty \/ sock = NoOne) /\ Stop(c, "done"))

Tries(c) ==
  /\ cl[c].pc = "try" /\ Still
  /\ \/ /\ sock # NoOne /\ dm[sock].pc \in Listening /\ Go(c, "wait", cl[c].at)
        /\ \E k \in ConnType : /\ conns' = conns \cup {k}
                               /\ k.c = c /\ k.d = sock /\ k.st = "queued" /\ ~k.shut
     \/ UNCHANGED conns /\ Reply(c, "none")

Hears(c) ==
  /\ cl[c].pc = "wait" /\ Still /\ Carried
  /\ \/ UNCHANGED conns /\ (\E k \in Mine(c) : k.st = "ok") /\ Stop(c, "have")
     \/ AllShut(c) /\ Reply(c, "none")
     \/ AllShut(c) /\ (\E k \in conns : k.st = "ended") /\ Reply(c, "departing")

Locks(c) ==
  /\ cl[c].pc = "lock" /\ Still /\ UNCHANGED conns
  /\ \/ /\ lock = NoOne /\ lock' = c /\ cl'[c].pc = "try" /\ cl'[c].at = "locked"
        /\ cl'[c].child = cl[c].child /\ cl'[c].result = cl[c].result
     \/ Slow /\ Stop(c, "done")

Checks(c) ==
  /\ cl[c].pc = "alive" /\ Still /\ UNCHANGED conns
  /\ \/ RecordedAlive /\ Go(c, "try", "busy")
     \/ ~RecordedAlive /\ Calls(c) /\ Go(c, "spawn", cl[c].at)
     \/ ~RecordedAlive /\ ~Calls(c) /\ Go(c, "unsock", cl[c].at)

Spawns(c) ==
  /\ cl[c].pc = "spawn" /\ UNCHANGED <<sock, pid, conns, lock>>
  /\ cl'[c].pc = "await" /\ cl'[c].at = cl[c].at /\ cl'[c].result = cl[c].result
  /\ \E d \in Daemons : /\ dm[d].pc = "unborn" /\ cl'[c].child = d /\ DaemonFrame(d)
                        /\ dm'[d].pc = "unlink" /\ dm'[d].says = dm[d].says /\ dm'[d].id = dm[d].id

Awaits(c) ==
  /\ cl[c].pc = "await" /\ Still /\ UNCHANGED conns
  /\ \/ dm[cl[c].child].says = "READY" /\ Go(c, "try", "after")
     \/ dm[cl[c].child].says = "FAILED" /\ Go(c, "kill", cl[c].at)
     \/ /\ dm[cl[c].child].says = "nothing" /\ (Slow \/ dm[cl[c].child].pc = "gone")
        /\ Go(c, "kill", cl[c].at)

Kills(c) ==
  /\ cl[c].pc = "kill" /\ UNCHANGED <<sock, pid>> /\ Carried /\ Stop(c, "done")
  /\ dm' \in [Daemons -> DaemonType]
  /\ \A d \in Daemons : /\ dm'[d].id = dm[d].id /\ dm'[d].says = dm[d].says
                        /\ dm'[d].pc = IF d = cl[c].child THEN "gone" ELSE dm[d].pc

UnlinksSocket(c) ==
  /\ cl[c].pc = "unsock" /\ sock' = NoOne /\ UNCHANGED <<pid, dm, conns>> /\ Go(c, "unpid", cl[c].at)

UnlinksPid(c) ==
  /\ cl[c].pc = "unpid" /\ pid' = NoOne /\ UNCHANGED <<sock, dm, conns>> /\ Stop(c, "done")

Closes(c) ==
  /\ cl[c].pc = "have" /\ UNCHANGED <<sock, pid>> /\ Carried /\ AllShut(c)
  /\ dm' \in [Daemons -> DaemonType]
  /\ \A d \in Daemons : dm'[d].pc = dm[d].pc /\ dm'[d].id = dm[d].id /\ dm'[d].says = dm[d].says
  /\ \/ CallOf[c] = "shutdown" /\ Go(c, "confirm", cl[c].at)
     \/ Go(c, "done", cl[c].at)

Confirms(c) ==
  /\ cl[c].pc = "confirm" /\ Still /\ UNCHANGED conns /\ Go(c, "done", cl[c].at)

Dies(c) ==
  /\ c \in Mortal /\ cl[c].pc \notin {"idle", "done"} /\ Still /\ Carried /\ AllShut(c) /\ Release(c)
  /\ cl'[c].pc = "done" /\ cl'[c].result = "killed"
  /\ cl'[c].at = cl[c].at /\ cl'[c].child = cl[c].child

ClientMove(c) ==
  /\ UNCHANGED <<setting, identity, upgrades>> /\ ClientFrame(c)
  /\ cl'[c].departing => cl[c].departing \/ \E k \in conns : k.st = "ended"
  /\ \/ Begins(c) \/ Tries(c) \/ Hears(c) \/ Locks(c) \/ Checks(c) \/ Spawns(c) \/ Awaits(c)
     \/ Kills(c) \/ UnlinksSocket(c) \/ UnlinksPid(c) \/ Closes(c) \/ Confirms(c) \/ Dies(c)

LEMMA IdentifyMoves ==
  ASSUME TypeOK, NEW c \in Clients, cl[c].pc = "idle", Identify(c)
  PROVE  /\ ClientFrame(c) /\ cl'[c].departing = cl[c].departing
         /\ Go(c, "try", cl[c].at) \/ (Faulty /\ Stop(c, "done"))
<1>1. CASE cl' = [cl EXCEPT ![c].pc = "try", ![c].id = identity] /\ UNCHANGED lock
  <2>1. "try" \in ClientPcs /\ identity \in Identities
    BY DEF ClientPcs, TypeOK
  <2>2. ClientFrame(c) /\ cl'[c].departing = cl[c].departing /\ Go(c, "try", cl[c].at)
    BY <1>1, <2>1, ClientsType DEF ClientFrame, Go, ClientType
  <2>. QED
    BY <2>2
<1>2. CASE Faulty /\ Finish(c, "failed")
  BY <1>2, StopMoves DEF Outcomes
<1>. QED
  BY <1>1, <1>2 DEF Identify

LEMMA TryConnectMoves ==
  ASSUME TypeOK, NEW c \in Clients, TryConnect(c)
  PROVE  ClientMove(c)
<1>1. cl[c].pc = "try" /\ Still /\ UNCHANGED <<setting, identity, upgrades>>
  BY DEF TryConnect, Still
<1>2. CASE sock # NoOne /\ dm[sock].pc \in Listening
  <2>. DEFINE k == [c |-> c, n |-> cl[c].tries, at |-> cl[c].at, d |-> sock,
                    id |-> cl[c].id, st |-> "queued", shut |-> FALSE]
  <2>1. conns' = conns \cup {k} /\ Goto(c, "wait") /\ UNCHANGED lock
    BY <1>2 DEF TryConnect
  <2>2. k \in ConnType /\ k.c = c /\ k.d = sock /\ k.st = "queued" /\ ~k.shut
    BY <1>2, ClientsType DEF ConnType, ClientType, TypeOK
  <2>. HIDE DEF k
  <2>3. ClientFrame(c) /\ Go(c, "wait", cl[c].at) /\ cl'[c].departing = cl[c].departing
    BY <2>1, GotoMoves DEF ClientPcs
  <2>4. Tries(c)
    BY <1>1, <1>2, <2>1, <2>2, <2>3 DEF Tries
  <2>. QED
    BY <1>1, <2>3, <2>4 DEF ClientMove
<1>3. CASE ~(sock # NoOne /\ dm[sock].pc \in Listening)
  <2>1. Answered(c, "none") /\ UNCHANGED conns
    BY <1>3 DEF TryConnect
  <2>2. ClientFrame(c) /\ Reply(c, "none") /\ (cl'[c].departing => cl[c].departing)
    BY <2>1, AnsweredMoves
  <2>. QED
    BY <1>1, <2>1, <2>2 DEF Tries, ClientMove
<1>. QED
  BY <1>2, <1>3

LEMMA HearAnswerMoves ==
  ASSUME TypeOK, NEW c \in Clients, HearAnswer(c)
  PROVE  ClientMove(c)
<1>1. cl[c].pc = "wait" /\ Still /\ UNCHANGED <<setting, identity, upgrades>>
  BY DEF HearAnswer, Still
<1>2. PICK k \in Mine(c) :
        \/ k.st = "ok" /\ Answered(c, "session") /\ UNCHANGED conns
        \/ k.st = "ended" /\ Answered(c, "departing") /\ conns' = Live(Shut(c))
        \/ Answered(c, "none") /\ conns' = Live(Shut(c))
  BY DEF HearAnswer
<1>3. k \in conns
  BY DEF Mine
<1>4. CASE k.st = "ok" /\ Answered(c, "session") /\ UNCHANGED conns
  <2>1. ClientFrame(c) /\ Reply(c, "session") /\ (cl'[c].departing => cl[c].departing)
    BY <1>4, AnsweredMoves
  <2>2. Carried
    BY <1>4, CarriedSame
  <2>. QED
    BY <1>1, <1>2, <1>4, <2>1, <2>2 DEF Hears, Reply, ClientMove
<1>5. CASE k.st = "ended" /\ Answered(c, "departing") /\ conns' = Live(Shut(c))
  <2>1. ClientFrame(c) /\ Reply(c, "departing")
    BY <1>5, AnsweredMoves
  <2>2. Carried /\ AllShut(c)
    BY <1>5, CarriedShut
  <2>. QED
    BY <1>1, <1>3, <1>5, <2>1, <2>2 DEF Hears, ClientMove
<1>6. CASE Answered(c, "none") /\ conns' = Live(Shut(c))
  <2>1. ClientFrame(c) /\ Reply(c, "none") /\ (cl'[c].departing => cl[c].departing)
    BY <1>6, AnsweredMoves
  <2>2. Carried /\ AllShut(c)
    BY <1>6, CarriedShut
  <2>. QED
    BY <1>1, <2>1, <2>2 DEF Hears, ClientMove
<1>. QED
  BY <1>2, <1>4, <1>5, <1>6

LEMMA DaemonsAre ==
  ASSUME TypeOK
  PROVE  dm \in [Daemons -> DaemonType] /\ {sock, pid} \subseteq Daemons \cup {NoOne}
BY DEF TypeOK, DaemonType

LEMMA BeginMoves ==
  ASSUME TypeOK, NEW c \in Clients, BeginConnect(c) \/ BeginProbe(c)
  PROVE  ClientMove(c)
<1>1. cl[c].pc = "idle" /\ Still /\ UNCHANGED conns /\ UNCHANGED <<setting, identity, upgrades>>
  BY DEF BeginConnect, BeginProbe, Still
<1>2. CASE Identify(c)
  BY <1>1, <1>2, IdentifyMoves DEF Begins, ClientMove
<1>3. CASE sock = NoOne /\ Finish(c, "none")
  BY <1>1, <1>3, StopMoves DEF Begins, ClientMove, Outcomes
<1>. QED
  BY <1>2, <1>3 DEF BeginConnect, BeginProbe

LEMMA TakeLockMoves ==
  ASSUME TypeOK, NEW c \in Clients, TakeLock(c)
  PROVE  ClientMove(c)
<1>1. cl[c].pc = "lock" /\ Still /\ UNCHANGED conns /\ UNCHANGED <<setting, identity, upgrades>>
  BY DEF TakeLock, Still
<1>2. CASE /\ lock = NoOne /\ lock' = c
           /\ cl' = [cl EXCEPT ![c].pc = "try", ![c].at = "locked"]
  <2>1. {"try"} \subseteq ClientPcs /\ {"locked"} \subseteq Places
    BY DEF ClientPcs, Places
  <2>2. /\ ClientFrame(c) /\ cl'[c].departing = cl[c].departing /\ cl'[c].pc = "try" /\ cl'[c].at = "locked"
        /\ cl'[c].child = cl[c].child /\ cl'[c].result = cl[c].result
    BY <1>2, <2>1, ClientsType DEF ClientFrame, ClientType
  <2>. QED
    BY <1>1, <1>2, <2>2 DEF Locks, ClientMove
<1>3. CASE Slow /\ Finish(c, "failed")
  BY <1>1, <1>3, StopMoves DEF Locks, ClientMove, Outcomes
<1>. QED
  BY <1>2, <1>3 DEF TakeLock

LEMMA CheckAliveMoves ==
  ASSUME TypeOK, NEW c \in Clients, CheckAlive(c)
  PROVE  ClientMove(c)
<1>1. cl[c].pc = "alive" /\ Still /\ UNCHANGED conns /\ UNCHANGED <<setting, identity, upgrades, lock>>
  BY DEF CheckAlive, Still
<1>2. CASE RecordedAlive
  <2>1. cl' = [cl EXCEPT ![c].pc = "try", ![c].at = "busy", ![c].tries = 1]
    BY <1>2 DEF CheckAlive
  <2>2. {"try"} \subseteq ClientPcs /\ {"busy"} \subseteq Places /\ 1 \in 0..MaxTries
    BY ClientsType, SettingType DEF ClientPcs, Places
  <2>3. ClientFrame(c) /\ cl'[c].departing = cl[c].departing /\ Go(c, "try", "busy")
    BY <1>1, <2>1, <2>2, ClientsType, ZenonT(40) DEF ClientFrame, ClientType, Go
  <2>. QED
    BY <1>1, <1>2, <2>3 DEF Checks, ClientMove
<1>3. CASE ~RecordedAlive
  <2>. DEFINE pc == IF CallOf[c] = "connect" THEN "spawn" ELSE "unsock"
  <2>1. Goto(c, pc) /\ pc \in ClientPcs
    BY <1>3 DEF CheckAlive, ClientPcs
  <2>2. ClientFrame(c) /\ Go(c, pc, cl[c].at) /\ cl'[c].departing = cl[c].departing
    <3>. HIDE DEF pc
    <3>. QED
      BY <1>1, <2>1, GotoMoves
  <2>. QED
    BY <1>1, <1>3, <2>2 DEF Checks, Calls, ClientMove
<1>. QED
  BY <1>2, <1>3

LEMMA SpawnMoves ==
  ASSUME TypeOK, NEW c \in Clients, Spawn(c)
  PROVE  ClientMove(c)
<1>1. PICK d \in Daemons :
        /\ dm[d].pc = "unborn" /\ dm' = [dm EXCEPT ![d].pc = "unlink"]
        /\ cl' = [cl EXCEPT ![c].pc = "await", ![c].child = d]
  BY DEF Spawn
<1>2. {"await"} \subseteq ClientPcs /\ {"unlink"} \subseteq DaemonPcs
  BY DEF ClientPcs, DaemonPcs, Starting
<1>3. /\ ClientFrame(c) /\ cl'[c].departing = cl[c].departing /\ cl'[c].pc = "await"
      /\ cl'[c].at = cl[c].at /\ cl'[c].child = d /\ cl'[c].result = cl[c].result
  BY <1>1, <1>2, ClientsType DEF ClientFrame, ClientType
<1>4. DaemonFrame(d) /\ dm'[d].pc = "unlink" /\ dm'[d].says = dm[d].says /\ dm'[d].id = dm[d].id
  BY <1>1, <1>2, DaemonsAre DEF DaemonFrame, DaemonType
<1>. QED
  BY <1>1, <1>3, <1>4 DEF Spawn, Spawns, ClientMove

LEMMA AwaitReadyMoves ==
  ASSUME TypeOK, NEW c \in Clients, AwaitReady(c)
  PROVE  ClientMove(c)
<1>1. cl[c].pc = "await" /\ Still /\ UNCHANGED conns /\ UNCHANGED <<setting, identity, upgrades, lock>>
  BY DEF AwaitReady, Still
<1>2. CASE /\ dm[cl[c].child].says = "READY"
           /\ cl' = [cl EXCEPT ![c].pc = "try", ![c].at = "after"]
  <2>1. {"try"} \subseteq ClientPcs /\ {"after"} \subseteq Places
    BY DEF ClientPcs, Places
  <2>2. ClientFrame(c) /\ cl'[c].departing = cl[c].departing /\ Go(c, "try", "after")
    BY <1>1, <1>2, <2>1, ClientsType DEF ClientFrame, ClientType, Go
  <2>. QED
    BY <1>1, <1>2, <2>2 DEF Awaits, ClientMove
<1>3. CASE /\ \/ dm[cl[c].child].says = "FAILED"
              \/ dm[cl[c].child].says = "nothing" /\ (Slow \/ dm[cl[c].child].pc = "gone")
           /\ Goto(c, "kill")
  <2>1. ClientFrame(c) /\ Go(c, "kill", cl[c].at) /\ cl'[c].departing = cl[c].departing
    BY <1>1, <1>3, GotoMoves DEF ClientPcs
  <2>. QED
    BY <1>1, <1>3, <2>1 DEF Awaits, ClientMove
<1>. QED
  BY <1>2, <1>3 DEF AwaitReady

LEMMA KillSpawnAttemptMoves ==
  ASSUME TypeOK, NEW c \in Clients, KillSpawnAttempt(c)
  PROVE  ClientMove(c)
<1>1. /\ cl[c].pc = "kill" /\ UNCHANGED <<setting, identity, upgrades, sock, pid>>
      /\ dm' = [dm EXCEPT ![cl[c].child].pc = "gone"] /\ conns' = Live(Reset(cl[c].child))
      /\ Finish(c, "failed")
  BY DEF KillSpawnAttempt
<1>2. Carried
  BY <1>1, CarriedReset
<1>3. ClientFrame(c) /\ cl'[c].departing = cl[c].departing /\ Stop(c, "done")
  BY <1>1, StopMoves DEF Outcomes
<1>4. /\ dm' \in [Daemons -> DaemonType]
      /\ \A d \in Daemons : /\ dm'[d].id = dm[d].id /\ dm'[d].says = dm[d].says
                            /\ dm'[d].pc = IF d = cl[c].child THEN "gone" ELSE dm[d].pc
  <2>1. {"gone"} \subseteq DaemonPcs
    BY DEF DaemonPcs
  <2>. QED
    BY <1>1, <2>1, DaemonsAre DEF DaemonType
<1>. QED
  BY <1>1, <1>2, <1>3, <1>4 DEF Kills, ClientMove

LEMMA DisconnectMoves ==
  ASSUME TypeOK, ConnsInv, NEW c \in Clients, Disconnect(c)
  PROVE  ClientMove(c)
<1>1. PICK k \in Mine(c) :
        /\ conns' = Live({IF j = k THEN [k EXCEPT !.shut = TRUE,
                                                  !.st = IF CallOf[c] = "shutdown" /\ @ = "ok"
                                                         THEN "ended" ELSE @] ELSE j : j \in conns})
        /\ IF CallOf[c] = "shutdown" /\ k.st = "ok"
           THEN dm' = [dm EXCEPT ![k.d].asked = TRUE] ELSE UNCHANGED dm
  BY DEF Disconnect
<1>2. k \in conns /\ k.c = c /\ ~k.shut /\ k \in ConnType
  BY ConnsType DEF Mine
<1>. DEFINE st == IF CallOf[c] = "shutdown" /\ k.st = "ok" THEN "ended" ELSE k.st
            shut == [k EXCEPT !.shut = TRUE, !.st = st]
            f == [j \in conns |-> IF j = k THEN shut ELSE j]
<1>3. /\ shut \in ConnType /\ shut.c = k.c /\ shut.d = k.d /\ shut.id = k.id /\ shut.shut
      /\ shut.st = st
  <2>1. st \in {"queued", "accepted", "ok", "ended", "lost"}
    BY <1>2 DEF ConnType
  <2>. HIDE DEF st
  <2>. QED
    BY <1>2, <2>1 DEF ConnType
<1>4. st = "ok" => k.st = "ok"
  OBVIOUS
<1>5. st = "ended" => k.st = "ended" \/ CallOf[k.c] = "shutdown"
  BY <1>2
<1>6. f \in [conns -> ConnType] /\ f[k] = shut /\ \A j \in conns \ {k} : f[j] = j
  BY <1>2, <1>3, ConnsType
<1>7. conns' \subseteq {f[j] : j \in conns}
  BY <1>1 DEF Live
<1>. HIDE DEF f, shut, st
<1>8. CarriedBy(f)
  <2>. SUFFICES ASSUME NEW j \in conns
                PROVE  /\ f[j].c = j.c /\ f[j].d = j.d /\ f[j].id = j.id /\ (j.shut => f[j].shut)
                       /\ f[j].st = "ok" => j.st = "ok" \/ j.id = dm[j.d].id
                       /\ f[j].st = "ended" => j.st = "ended" \/ j.id # dm[j.d].id \/ CallOf[j.c] = "shutdown"
    BY <1>6, <1>7 DEF CarriedBy
  <2>1. CASE j = k
    BY <1>3, <1>4, <1>5, <1>6, <2>1
  <2>2. CASE j # k
    BY <1>6, <2>2
  <2>. QED
    BY <2>1, <2>2
<1>9. AllShut(c)
  <2>. SUFFICES ASSUME NEW i \in conns', i.c = c PROVE i.shut
    BY DEF AllShut
  <2>1. PICK j \in conns : i = f[j]
    BY <1>7
  <2>2. CASE j = k
    BY <1>3, <1>6, <2>1, <2>2
  <2>3. CASE j # k
    <3>1. i = j
      BY <1>6, <2>1, <2>3
    <3>. QED
      BY <1>2, <2>3, <3>1 DEF ConnsInv
  <2>. QED
    BY <2>2, <2>3
<1>10. /\ dm' \in [Daemons -> DaemonType]
       /\ \A d \in Daemons : dm'[d].pc = dm[d].pc /\ dm'[d].id = dm[d].id /\ dm'[d].says = dm[d].says
  <2>1. CASE UNCHANGED dm
    BY <2>1, DaemonsAre
  <2>2. CASE dm' = [dm EXCEPT ![k.d].asked = TRUE]
    BY <1>2, <2>2, DaemonsAre, ZenonT(40) DEF DaemonType, ConnType
  <2>. QED
    BY <1>1, <2>1, <2>2
<1>11. /\ cl[c].pc = "have" /\ UNCHANGED <<setting, identity, upgrades, sock, pid, lock>>
       /\ Goto(c, IF CallOf[c] = "shutdown" THEN "confirm" ELSE "done")
  BY DEF Disconnect
<1>12. CASE CallOf[c] = "shutdown"
  <2>1. ClientFrame(c) /\ Go(c, "confirm", cl[c].at) /\ cl'[c].departing = cl[c].departing
    BY <1>11, <1>12, GotoMoves DEF ClientPcs
  <2>. QED
    BY <1>8, <1>9, <1>10, <1>11, <1>12, <2>1 DEF Closes, Carried, ClientMove
<1>13. CASE CallOf[c] # "shutdown"
  <2>1. ClientFrame(c) /\ Go(c, "done", cl[c].at) /\ cl'[c].departing = cl[c].departing
    BY <1>11, <1>13, GotoMoves DEF ClientPcs
  <2>. QED
    BY <1>8, <1>9, <1>10, <1>11, <2>1 DEF Closes, Carried, ClientMove
<1>. QED
  BY <1>12, <1>13

LEMMA ClientMoves ==
  ASSUME TypeOK, ConnsInv, NEW c \in Clients, ClientStep(c) \/ KillClient(c)
  PROVE  ClientMove(c)
<1>1. CASE ProbeUnlinksSocket(c)
  <2>1. ClientFrame(c) /\ Go(c, "unpid", cl[c].at) /\ cl'[c].departing = cl[c].departing
    BY <1>1, GotoMoves DEF ProbeUnlinksSocket, ClientPcs
  <2>. QED
    BY <1>1, <2>1 DEF ProbeUnlinksSocket, UnlinksSocket, ClientMove
<1>2. CASE ProbeUnlinksPid(c)
  <2>1. ClientFrame(c) /\ Stop(c, "done") /\ cl'[c].departing = cl[c].departing
    BY <1>2, StopMoves DEF ProbeUnlinksPid, Outcomes
  <2>. QED
    BY <1>2, <2>1 DEF ProbeUnlinksPid, UnlinksPid, ClientMove
<1>3. CASE ConfirmShutdown(c)
  <2>1. ClientFrame(c) /\ Go(c, "done", cl[c].at) /\ cl'[c].departing = cl[c].departing
    BY <1>3, GotoMoves DEF ConfirmShutdown, ClientPcs
  <2>. QED
    BY <1>3, <2>1 DEF ConfirmShutdown, Confirms, Still, ClientMove
<1>4. CASE KillClient(c)
  <2>1. /\ ClientFrame(c) /\ Release(c) /\ cl'[c].departing = cl[c].departing /\ cl'[c].pc = "done"
        /\ cl'[c].at = cl[c].at /\ cl'[c].child = cl[c].child /\ cl'[c].result = "killed"
    BY <1>4, FinishMoves DEF KillClient, Outcomes
  <2>2. Carried /\ AllShut(c)
    BY <1>4, CarriedShut DEF KillClient
  <2>. QED
    BY <1>4, <2>1, <2>2 DEF KillClient, Dies, Still, ClientMove
<1>. QED
  BY <1>1, <1>2, <1>3, <1>4, BeginMoves, TryConnectMoves, HearAnswerMoves, TakeLockMoves, CheckAliveMoves,
     SpawnMoves, AwaitReadyMoves, KillSpawnAttemptMoves, DisconnectMoves DEF ClientStep

-----------------------------------------------------------------------------
(* What a step of a daemon does *)

Inside == {"head", "accept", "join", "close", "closing"}
Orphaned(d) == \E c \in Clients : cl[c].child = d /\ cl[c].result = "killed"

(* The daemon goes on without or with a line to who started it.              *)
To(d, p, q) == dm[d].pc = p /\ dm'[d].pc = q /\ dm'[d].says = dm[d].says
ToSaying(d, p, q, line) == dm[d].pc = p /\ dm'[d].pc = q /\ dm'[d].says = line

DaemonMove(d) ==
  /\ UNCHANGED <<setting, identity, upgrades, lock, cl>> /\ DaemonFrame(d) /\ Carried
  /\ dm[d].pc # "session" => dm'[d].id = dm[d].id
  /\ \/ To(d, "unlink", "session") /\ sock' = NoOne /\ UNCHANGED pid
     \/ To(d, "session", "pid") /\ UNCHANGED <<sock, pid>>
     \/ ToSaying(d, "session", "gone", "FAILED") /\ Faulty /\ UNCHANGED <<sock, pid>>
     \/ To(d, "pid", "bind") /\ pid' = d /\ UNCHANGED sock
     \/ To(d, "bind", "listen") /\ sock = NoOne /\ sock' = d /\ UNCHANGED pid
     \/ ToSaying(d, "bind", "gone", "FAILED") /\ sock # NoOne /\ pid' = NoOne /\ UNCHANGED sock
     \/ To(d, "listen", "ready") /\ UNCHANGED <<sock, pid>>
     \/ ToSaying(d, "ready", "head", "READY") /\ UNCHANGED <<sock, pid>>
     \/ To(d, "ready", "gone") /\ Orphaned(d) /\ UNCHANGED <<sock, pid>>
     \/ dm[d].pc \in Inside /\ To(d, dm[d].pc, dm'[d].pc) /\ dm'[d].pc \in Inside /\ UNCHANGED <<sock, pid>>
     \/ To(d, "closing", "own") /\ UNCHANGED <<sock, pid>>
     \/ To(d, "own", "unsock") /\ UNCHANGED <<sock, pid>>
     \/ To(d, "own", "gone") /\ pid \notin {d, NoOne} /\ UNCHANGED <<sock, pid>>
     \/ To(d, "unsock", "unpid") /\ sock' = NoOne /\ UNCHANGED pid
     \/ To(d, "unpid", "gone") /\ pid' = NoOne /\ UNCHANGED sock
     \/ d \in Mortal /\ Alive(d) /\ To(d, dm[d].pc, "gone") /\ UNCHANGED <<sock, pid>>

LEMMA DGotoMoves ==
  ASSUME TypeOK, NEW d \in Daemons, NEW q \in DaemonPcs, DGoto(d, q)
  PROVE  DaemonFrame(d) /\ To(d, dm[d].pc, q) /\ dm'[d].id = dm[d].id
BY DaemonsAre DEF DGoto, DaemonFrame, To, DaemonType

LEMMA DSaysMoves ==
  ASSUME TypeOK, NEW d \in Daemons, NEW q \in DaemonPcs, NEW line \in {"READY", "FAILED"},
         dm' = [dm EXCEPT ![d].pc = q, ![d].says = line]
  PROVE  DaemonFrame(d) /\ ToSaying(d, dm[d].pc, q, line) /\ dm'[d].id = dm[d].id
BY DaemonsAre DEF DaemonFrame, ToSaying, DaemonType

LEMMA StartsSessionMoves ==
  ASSUME TypeOK, NEW d \in Daemons, ServeStartsSession(d)
  PROVE  DaemonMove(d)
<1>1. dm[d].pc = "session" /\ UNCHANGED <<setting, identity, upgrades, sock, pid, lock, cl>> /\ Carried
  BY CarriedSame DEF ServeStartsSession
<1>2. CASE dm' = [dm EXCEPT ![d].pc = "pid", ![d].id = identity]
  <2>1. "pid" \in DaemonPcs /\ identity \in Identities
    BY DEF DaemonPcs, Starting, TypeOK
  <2>2. DaemonFrame(d) /\ To(d, "session", "pid")
    BY <1>1, <1>2, <2>1, DaemonsAre DEF DaemonFrame, To, DaemonType
  <2>. QED
    BY <1>1, <2>2 DEF DaemonMove
<1>3. CASE Faulty /\ dm' = [dm EXCEPT ![d].pc = "gone", ![d].says = "FAILED"]
  <2>1. DaemonFrame(d) /\ ToSaying(d, "session", "gone", "FAILED")
    BY <1>1, <1>3, DSaysMoves DEF DaemonPcs
  <2>. QED
    BY <1>1, <1>3, <2>1 DEF DaemonMove
<1>. QED
  BY <1>2, <1>3 DEF ServeStartsSession

LEMMA BindsMoves ==
  ASSUME TypeOK, NEW d \in Daemons, ServeBinds(d)
  PROVE  DaemonMove(d)
<1>1. dm[d].pc = "bind" /\ UNCHANGED <<setting, identity, upgrades, lock, cl>> /\ Carried
  BY CarriedSame DEF ServeBinds
<1>2. CASE sock = NoOne
  <2>1. sock' = d /\ DGoto(d, "listen") /\ UNCHANGED pid
    BY <1>2 DEF ServeBinds
  <2>2. DaemonFrame(d) /\ To(d, "bind", "listen") /\ dm'[d].id = dm[d].id
    BY <1>1, <2>1, DGotoMoves DEF DaemonPcs, Starting
  <2>. QED
    BY <1>1, <1>2, <2>1, <2>2 DEF DaemonMove
<1>3. CASE sock # NoOne
  <2>1. pid' = NoOne /\ UNCHANGED sock /\ dm' = [dm EXCEPT ![d].pc = "gone", ![d].says = "FAILED"]
    BY <1>3 DEF ServeBinds
  <2>2. DaemonFrame(d) /\ ToSaying(d, "bind", "gone", "FAILED") /\ dm'[d].id = dm[d].id
    BY <1>1, <2>1, DSaysMoves DEF DaemonPcs
  <2>. QED
    BY <1>1, <1>3, <2>1, <2>2 DEF DaemonMove
<1>. QED
  BY <1>2, <1>3

LEMMA ReadyMoves ==
  ASSUME TypeOK, NEW d \in Daemons, ServeReady(d)
  PROVE  DaemonMove(d)
<1>1. dm[d].pc = "ready" /\ UNCHANGED <<setting, identity, upgrades, sock, pid, lock, cl>>
  BY DEF ServeReady
<1>2. CASE Orphaned(d)
  <2>1. DGoto(d, "gone") /\ conns' = Live(Reset(d))
    BY <1>2 DEF ServeReady, Orphaned
  <2>2. DaemonFrame(d) /\ To(d, "ready", "gone") /\ dm'[d].id = dm[d].id
    BY <1>1, <2>1, DGotoMoves DEF DaemonPcs
  <2>3. Carried
    BY <2>1, CarriedReset
  <2>. QED
    BY <1>1, <1>2, <2>2, <2>3 DEF DaemonMove
<1>3. CASE ~Orphaned(d)
  <2>1. dm' = [dm EXCEPT ![d].pc = "head", ![d].says = "READY"] /\ UNCHANGED conns
    BY <1>3 DEF ServeReady, Orphaned
  <2>2. DaemonFrame(d) /\ ToSaying(d, "ready", "head", "READY") /\ dm'[d].id = dm[d].id
    BY <1>1, <2>1, DSaysMoves DEF DaemonPcs, Listening
  <2>3. Carried
    BY <2>1, CarriedSame
  <2>. QED
    BY <1>1, <2>2, <2>3 DEF DaemonMove
<1>. QED
  BY <1>2, <1>3

(* From the start to the socket, and the clean-up *)
LEMMA OwnFilesMoves ==
  ASSUME TypeOK, NEW d \in Daemons,
         \/ ServeUnlinks(d) \/ ServeWritesPid(d) \/ ServeListens(d)
         \/ CheckOwned(d) \/ UnlinkSocket(d) \/ UnlinkPid(d)
  PROVE  DaemonMove(d)
<1>1. UNCHANGED <<setting, identity, upgrades, lock, cl>> /\ Carried
  BY CarriedSame DEF ServeUnlinks, ServeWritesPid, ServeListens, CheckOwned, UnlinkSocket, UnlinkPid
<1>2. {"session", "bind", "ready", "unsock", "gone", "unpid"} \subseteq DaemonPcs
  BY DEF DaemonPcs, Starting, Leaving
<1>3. CASE ServeUnlinks(d)
  BY <1>1, <1>2, <1>3, DGotoMoves DEF ServeUnlinks, DaemonMove
<1>4. CASE ServeWritesPid(d)
  BY <1>1, <1>2, <1>4, DGotoMoves DEF ServeWritesPid, DaemonMove
<1>5. CASE ServeListens(d)
  BY <1>1, <1>2, <1>5, DGotoMoves DEF ServeListens, DaemonMove
<1>6. CASE CheckOwned(d)
  <2>1. CASE pid \in {d, NoOne}
    BY <1>1, <1>2, <1>6, <2>1, DGotoMoves DEF CheckOwned, DaemonMove
  <2>2. CASE pid \notin {d, NoOne}
    BY <1>1, <1>2, <1>6, <2>2, DGotoMoves DEF CheckOwned, DaemonMove
  <2>. QED
    BY <2>1, <2>2
<1>7. CASE UnlinkSocket(d)
  BY <1>1, <1>2, <1>7, DGotoMoves DEF UnlinkSocket, DaemonMove
<1>8. CASE UnlinkPid(d)
  BY <1>1, <1>2, <1>8, DGotoMoves DEF UnlinkPid, DaemonMove
<1>. QED
  BY <1>3, <1>4, <1>5, <1>6, <1>7, <1>8

(* The loop and the way out of it *)
LEMMA LoopMoves ==
  ASSUME TypeOK, NEW d \in Daemons,
         \/ LoopHead(d) \/ Accept(d) \/ AcceptTimesOut(d) \/ IdleExit(d)
         \/ JoinWorkers(d) \/ CloseSession(d) \/ CloseSocket(d)
  PROVE  DaemonMove(d)
<1>1. UNCHANGED <<setting, identity, upgrades, sock, pid, lock, cl>>
  BY DEF LoopHead, Accept, AcceptTimesOut, IdleExit, JoinWorkers, CloseSession, CloseSocket
<1>2. Carried
  <2>1. CASE UNCHANGED conns
    BY <2>1, CarriedSame
  <2>2. CASE Accept(d)
    <3>1. PICK k \in Queue(d) : conns' = Turn(k, "accepted")
      BY <2>2 DEF Accept
    <3>2. k \in conns
      BY DEF Queue
    <3>. QED
      BY <3>1, <3>2, CarriedTurn
  <2>3. CASE CloseSocket(d)
    BY <2>3, CarriedReset DEF CloseSocket
  <2>. QED
    BY <2>1, <2>2, <2>3 DEF LoopHead, AcceptTimesOut, IdleExit, JoinWorkers, CloseSession
<1>3. Inside \cup {"own"} \subseteq DaemonPcs
  BY DEF Inside, DaemonPcs, Listening, Leaving
<1>4. CASE CloseSocket(d)
  BY <1>1, <1>2, <1>3, <1>4, DGotoMoves DEF CloseSocket, DaemonMove
<1>5. CASE \E q \in Inside : dm[d].pc \in Inside /\ DGoto(d, q)
  <2>1. PICK q \in Inside : dm[d].pc \in Inside /\ DGoto(d, q)
    BY <1>5
  <2>2. DaemonFrame(d) /\ To(d, dm[d].pc, q) /\ dm'[d].id = dm[d].id
    BY <1>3, <2>1, DGotoMoves
  <2>3. dm'[d].pc = q
    BY <2>2 DEF To
  <2>. QED
    BY <1>1, <1>2, <2>1, <2>2, <2>3 DEF DaemonMove
<1>6. CASE LoopHead(d)
  <2>1. CASE dm[d].asked
    BY <1>5, <1>6, <2>1 DEF LoopHead, Inside
  <2>2. CASE ~dm[d].asked
    BY <1>5, <1>6, <2>2 DEF LoopHead, Inside
  <2>. QED
    BY <2>1, <2>2
<1>7. CASE Accept(d) \/ AcceptTimesOut(d) \/ IdleExit(d) \/ JoinWorkers(d) \/ CloseSession(d)
  BY <1>5, <1>7 DEF Accept, AcceptTimesOut, IdleExit, JoinWorkers, CloseSession, Inside
<1>. QED
  BY <1>4, <1>6, <1>7

LEMMA DaemonMoves ==
  ASSUME TypeOK, NEW d \in Daemons, ServeStep(d) \/ KillDaemon(d)
  PROVE  DaemonMove(d)
<1>1. CASE KillDaemon(d)
  <2>1. Carried
    BY <1>1, CarriedReset DEF KillDaemon
  <2>2. DaemonFrame(d) /\ To(d, dm[d].pc, "gone") /\ dm'[d].id = dm[d].id
    BY <1>1, DGotoMoves DEF KillDaemon, DaemonPcs
  <2>. QED
    BY <1>1, <2>1, <2>2 DEF KillDaemon, DaemonMove
<1>. QED
  BY <1>1, StartsSessionMoves, BindsMoves, ReadyMoves, OwnFilesMoves, LoopMoves DEF ServeStep

(* What a worker of a daemon does                                            *)
WorkerMove ==
  /\ UNCHANGED <<setting, identity, upgrades, sock, pid, lock, cl>> /\ Carried
  /\ dm' \in [Daemons -> DaemonType]
  /\ \A d \in Daemons : dm'[d].pc = dm[d].pc /\ dm'[d].id = dm[d].id /\ dm'[d].says = dm[d].says

LEMMA WorkerMoves ==
  ASSUME TypeOK, NEW k \in conns, WorkerStep(k)
  PROVE  WorkerMove
<1>1. k \in ConnType
  BY ConnsType
<1>2. CASE k.st = "accepted" /\ k.id = dm[k.d].id /\ conns' = Turn(k, "ok") /\ UNCHANGED dm
           /\ UNCHANGED <<setting, identity, upgrades, sock, pid, lock, cl>>
  <2>1. Carried
    BY <1>2, CarriedTurn
  <2>. QED
    BY <1>2, <2>1, DaemonsAre DEF WorkerMove
<1>3. CASE k.id # dm[k.d].id /\ conns' = Turn(k, "ended")
           /\ dm' = [dm EXCEPT ![k.d].asked = TRUE]
           /\ UNCHANGED <<setting, identity, upgrades, sock, pid, lock, cl>>
  <2>1. Carried
    BY <1>3, CarriedTurn
  <2>2. /\ dm' \in [Daemons -> DaemonType]
        /\ \A d \in Daemons : dm'[d].pc = dm[d].pc /\ dm'[d].id = dm[d].id /\ dm'[d].says = dm[d].says
    BY <1>1, <1>3, DaemonsAre, ZenonT(40) DEF DaemonType, ConnType
  <2>. QED
    BY <1>3, <2>1, <2>2 DEF WorkerMove
<1>4. CASE conns' = Live(Turn(k, "lost"))
           /\ UNCHANGED <<setting, identity, upgrades, sock, pid, lock, dm, cl>>
  <2>1. conns' \subseteq Turn(k, "lost")
    BY <1>4 DEF Live
  <2>2. Carried
    BY <2>1, CarriedTurn
  <2>. QED
    BY <1>4, <2>2, DaemonsAre DEF WorkerMove
<1>. QED
  BY <1>2, <1>3, <1>4 DEF WorkerStep, Handshake, WorkerEnds

-----------------------------------------------------------------------------
(* Types are kept *)

LEMMA TypeNext ==
  ASSUME TypeOK, UNCHANGED setting,
         identity' \in Identities, upgrades' \in 0..MaxUpgrades,
         {sock', pid'} \subseteq Daemons \cup {NoOne}, lock' \in Clients \cup {NoOne},
         dm' \in [Daemons -> DaemonType], cl' \in [Clients -> ClientType], conns' \subseteq ConnType
  PROVE  TypeOK'
<1>1. Identities' = Identities /\ MaxUpgrades' = MaxUpgrades /\ MaxTries' = MaxTries
  BY SettingKept DEF SameSetting
<1>2. setting' \in DOMAIN Settings
  BY DEF TypeOK
<1>. QED
  BY <1>1, <1>2 DEF TypeOK, DaemonType, ClientType, ConnType

LEMMA CarriedType ==
  ASSUME Carried
  PROVE  conns' \subseteq ConnType
BY DEF Carried, CarriedBy

LEMMA IdentityType ==
  ASSUME TypeOK
  PROVE  identity \in Identities /\ upgrades \in 0..MaxUpgrades
BY DEF TypeOK

(* The lock changes hands by way of nobody. *)
LEMMA LockMoves ==
  ASSUME TypeOK, NEW c \in Clients, ClientMove(c)
  PROVE  \/ lock' = lock
         \/ lock = c /\ lock' = NoOne /\ cl'[c].pc \in {"have", "done"}
         \/ lock = NoOne /\ lock' = c /\ cl'[c].pc = "try"
<1>1. \A pc, at : Go(c, pc, at) => lock' = lock
  BY DEF Go
<1>2. \A pc \in {"have", "done"} : Stop(c, pc) => lock' = lock \/ (lock = c /\ lock' = NoOne /\ cl'[c].pc = pc)
  BY DEF Stop, Release
<1>3. \A out : Reply(c, out) => \/ lock' = lock
                                \/ lock = c /\ lock' = NoOne /\ cl'[c].pc \in {"have", "done"}
  BY <1>1, <1>2 DEF Reply
<1>. QED
  BY <1>1, <1>2, <1>3 DEF ClientMove, Begins, Tries, Hears, Locks, Checks, Spawns, Awaits, Kills,
     UnlinksSocket, UnlinksPid, Closes, Confirms, Dies, Release

LEMMA ClientFiles ==
  ASSUME TypeOK, NEW c \in Clients, ClientMove(c)
  PROVE  /\ sock' = sock \/ UnlinksSocket(c)
         /\ pid' = pid \/ UnlinksPid(c)
         /\ dm' = dm \/ Spawns(c) \/ Kills(c) \/ Closes(c)
BY DEF ClientMove, Still, Begins, Tries, Hears, Locks, Checks, Spawns, Awaits, Kills,
     UnlinksSocket, UnlinksPid, Closes, Confirms, Dies

LEMMA ClientConns ==
  ASSUME TypeOK, NEW c \in Clients, ClientMove(c)
  PROVE  Carried \/ Tries(c)
BY CarriedSame DEF ClientMove, Begins, Hears, Locks, Checks, Spawns, Awaits, Kills,
     UnlinksSocket, UnlinksPid, Closes, Confirms, Dies

LEMMA ClientKeepsType ==
  ASSUME TypeOK, NEW c \in Clients, ClientMove(c)
  PROVE  TypeOK'
<1>1. UNCHANGED <<setting, identity, upgrades>> /\ cl' \in [Clients -> ClientType]
  BY DEF ClientMove, ClientFrame
<1>2. conns' \subseteq ConnType
  BY ClientConns, CarriedType, ConnsType DEF Tries
<1>3. lock' \in Clients \cup {NoOne}
  BY LockMoves, ClientsType
<1>4. {sock', pid'} \subseteq Daemons \cup {NoOne}
  BY ClientFiles, DaemonsAre DEF UnlinksSocket, UnlinksPid
<1>5. dm' \in [Daemons -> DaemonType]
  BY ClientFiles, DaemonsAre DEF Spawns, Kills, Closes, DaemonFrame
<1>. QED
  BY <1>1, <1>2, <1>3, <1>4, <1>5, TypeNext, IdentityType

LEMMA DaemonKeepsType ==
  ASSUME TypeOK, NEW d \in Daemons, DaemonMove(d)
  PROVE  TypeOK'
<1>1. /\ UNCHANGED <<setting, identity, upgrades, lock, cl>> /\ conns' \subseteq ConnType
      /\ dm' \in [Daemons -> DaemonType]
  BY CarriedType DEF DaemonMove, DaemonFrame
<1>2. {sock', pid'} \subseteq Daemons \cup {NoOne}
  BY DaemonsAre DEF DaemonMove
<1>. QED
  BY <1>1, <1>2, TypeNext, IdentityType, ClientsType

LEMMA WorkerKeepsType ==
  ASSUME TypeOK, WorkerMove
  PROVE  TypeOK'
<1>1. /\ UNCHANGED <<setting, identity, upgrades, lock, cl, sock, pid>> /\ conns' \subseteq ConnType
      /\ dm' \in [Daemons -> DaemonType]
  BY CarriedType DEF WorkerMove
<1>. QED
  BY <1>1, TypeNext, IdentityType, ClientsType, DaemonsAre

-----------------------------------------------------------------------------
(* Clients and their lock *)

LEMMA ClientKeepsClientInv ==
  ASSUME TypeOK, ClientInv, NEW c \in Clients, ClientMove(c)
  PROVE  ClientInv'
<1>1. CallOf' = CallOf /\ Mortal' = Mortal
  BY SettingKept DEF ClientMove, SameSetting
<1>. SUFFICES ASSUME NEW d \in Clients
              PROVE  /\ Holding(d)' => lock' = d
                     /\ cl'[d].pc = "idle" => cl'[d].at = "first"
                     /\ cl'[d].pc \in {"lock", "spawn", "await", "kill"} => CallOf[d] = "connect"
                     /\ cl'[d].pc \in {"unsock", "unpid", "confirm"} => CallOf[d] # "connect"
                     /\ cl'[d].result = "killed" => cl'[d].pc = "done" /\ d \in Mortal
  BY <1>1 DEF ClientInv
<1>2. /\ Holding(d) => lock = d
      /\ cl[d].pc = "idle" => cl[d].at = "first"
      /\ cl[d].pc \in {"lock", "spawn", "await", "kill"} => Calls(d)
      /\ cl[d].pc \in {"unsock", "unpid", "confirm"} => ~Calls(d)
      /\ cl[d].result = "killed" => cl[d].pc = "done" /\ d \in Mortal
  BY DEF ClientInv, Calls
<1>3. Holding(d)' <=> /\ Calls(d)
                      /\ \/ cl'[d].pc \in {"alive", "spawn", "await", "kill"}
                         \/ cl'[d].pc \in {"try", "wait"} /\ cl'[d].at # "first"
  BY <1>1 DEF Holding, Calls
<1>4. Holding(d) <=> /\ Calls(d)
                     /\ \/ cl[d].pc \in {"alive", "spawn", "await", "kill"}
                        \/ cl[d].pc \in {"try", "wait"} /\ cl[d].at # "first"
  BY DEF Holding, Calls
<1>5. CASE d # c
  <2>1. cl'[d] = cl[d]
    BY <1>5 DEF ClientMove, ClientFrame
  <2>2. lock = d => lock' = d
    BY <1>5, LockMoves, DaemonsType
  <2>. QED
    BY <1>2, <1>3, <1>4, <2>1, <2>2 DEF Calls
<1>6. CASE d = c
  <2>1. ASSUME NEW out, Reply(c, out), cl[c].pc \in {"try", "wait"}
        PROVE  /\ Holding(d)' => lock' = c
               /\ cl'[c].pc # "idle"
               /\ cl'[c].pc \in {"lock", "spawn", "await", "kill"} => Calls(c)
               /\ cl'[c].pc \notin {"unsock", "unpid", "confirm"}
               /\ cl'[c].result # "killed"
    BY <1>2, <1>3, <1>4, <1>6, <2>1 DEF Reply, Go, Stop
  <2>2. CASE Begins(c)
    BY <1>2, <1>3, <1>4, <1>6, <2>2 DEF Begins, Go, Stop
  <2>3. CASE Tries(c)
    <3>1. CASE Go(c, "wait", cl[c].at) /\ cl[c].pc = "try"
      BY <1>2, <1>3, <1>4, <1>6, <3>1 DEF Go
    <3>. QED
      BY <1>6, <2>1, <2>3, <3>1 DEF Tries, Calls
  <2>4. CASE Hears(c)
    <3>1. CASE Stop(c, "have")
      BY <1>2, <1>3, <1>4, <1>6, <3>1 DEF Stop
    <3>. QED
      BY <1>6, <2>1, <2>4, <3>1 DEF Hears, Calls
  <2>5. CASE Locks(c) \/ Checks(c) \/ Awaits(c)
    BY <1>2, <1>3, <1>4, <1>6, <2>5 DEF Locks, Checks, Awaits, Go, Stop, Calls
  <2>6. CASE Spawns(c)
    <3>1. cl[c].pc = "spawn" /\ cl'[c].pc = "await" /\ cl'[c].result = cl[c].result /\ lock' = lock
      BY <2>6 DEF Spawns
    <3>. QED
      BY <1>2, <1>3, <1>4, <1>6, <3>1 DEF Calls
  <2>7. CASE Kills(c) \/ UnlinksSocket(c) \/ UnlinksPid(c) \/ Closes(c) \/ Confirms(c)
    <3>1. \/ Stop(c, "done")
          \/ Go(c, "done", cl[c].at) /\ cl[c].pc # "done"
          \/ cl[c].pc = "unsock" /\ Go(c, "unpid", cl[c].at)
          \/ cl[c].pc = "have" /\ CallOf[c] = "shutdown" /\ Go(c, "confirm", cl[c].at)
      BY <2>7 DEF Kills, UnlinksSocket, UnlinksPid, Closes, Confirms
    <3>. QED
      BY <1>2, <1>3, <1>4, <1>6, <3>1 DEF Go, Stop, Calls
  <2>8. CASE Dies(c)
    <3>1. cl'[c].pc = "done" /\ c \in Mortal
      BY <2>8 DEF Dies
    <3>. QED
      BY <1>3, <1>6, <3>1
  <2>. QED
    BY <2>2, <2>3, <2>4, <2>5, <2>6, <2>7, <2>8 DEF ClientMove
<1>. QED
  BY <1>5, <1>6

LEMMA OthersKeepClientInv ==
  ASSUME ClientInv, UNCHANGED <<setting, lock, cl>>
  PROVE  ClientInv'
<1>1. CallOf' = CallOf /\ Mortal' = Mortal
  BY SettingKept DEF SameSetting
<1>. QED
  BY <1>1 DEF ClientInv, Holding

-----------------------------------------------------------------------------
(* Daemons and who starts them *)

(* A move of a daemon, by what it does to its place.                         *)
LEMMA DaemonPlaces ==
  ASSUME TypeOK, NEW d \in Daemons, DaemonMove(d)
  PROVE  /\ dm[d].pc \notin {"unborn", "gone"} /\ dm'[d].pc \notin {"unborn", "unlink"}
         /\ dm'[d].pc \in Starting => dm[d].pc \in Starting /\ dm'[d].says = dm[d].says
         /\ dm'[d].pc \in DaemonPcs \ (Starting \cup {"unborn", "gone"}) =>
              \/ dm'[d].says = "READY"
              \/ dm'[d].says = dm[d].says /\ dm[d].pc \in DaemonPcs \ (Starting \cup {"unborn", "gone"})
         /\ dm[d].pc \notin Unseen => dm'[d].pc \notin Unseen
BY DEF DaemonMove, To, ToSaying, Starting, Inside, Unseen, Alive, DaemonPcs, Listening, Leaving

LEMMA ClientKeepsSaysInv ==
  ASSUME TypeOK, SaysInv, NEW c \in Clients, ClientMove(c)
  PROVE  SaysInv'
<1>1. CASE dm' = dm
  BY <1>1 DEF SaysInv
<1>2. CASE Spawns(c)
  BY <1>2 DEF SaysInv, Spawns, DaemonFrame, Starting
<1>3. CASE Kills(c)
  BY <1>3 DEF SaysInv, Kills, Starting
<1>4. CASE Closes(c)
  BY <1>4 DEF SaysInv, Closes
<1>. QED
  BY <1>1, <1>2, <1>3, <1>4, ClientFiles

LEMMA DaemonKeepsSaysInv ==
  ASSUME TypeOK, SaysInv, NEW d \in Daemons, DaemonMove(d)
  PROVE  SaysInv'
<1>. SUFFICES ASSUME NEW e \in Daemons
              PROVE  /\ dm'[e].pc \in Starting \cup {"unborn"} => dm'[e].says = "nothing"
                     /\ dm'[e].pc \in DaemonPcs \ (Starting \cup {"unborn", "gone"}) => dm'[e].says = "READY"
  BY DEF SaysInv
<1>1. CASE e # d
  BY <1>1 DEF SaysInv, DaemonMove, DaemonFrame
<1>2. CASE e = d
  BY <1>2, DaemonPlaces DEF SaysInv
<1>. QED
  BY <1>1, <1>2

(* A client is never moved once its call is over. *)
LEMMA NeverDone ==
  ASSUME NEW c \in Clients, ClientMove(c)
  PROVE  cl[c].pc # "done"
BY DEF ClientMove, Begins, Tries, Hears, Locks, Checks, Spawns, Awaits, Kills,
     UnlinksSocket, UnlinksPid, Closes, Confirms, Dies

LEMMA ParentKept ==
  ASSUME TypeOK, ClientInv, SaysInv, NEW c \in Clients, ClientMove(c),
         NEW p \in Clients, NEW d \in Daemons, Parent(p, d), dm[d].pc \in Starting,
         ~(Kills(c) /\ p = c)
  PROVE  Parent(p, d)'
<1>1. CallOf' = CallOf
  BY SettingKept DEF ClientMove, SameSetting
<1>2. CASE p # c
  BY <1>1, <1>2 DEF Parent, ClientMove, ClientFrame
<1>3. CASE p = c
  <2>1. cl[c].child = d /\ Calls(c) /\ cl[c].pc \in {"await", "kill"}
    BY <1>3, NeverDone DEF Parent, ClientInv, Calls
  <2>2. dm[d].says = "nothing"
    BY DEF SaysInv
  <2>3. Awaits(c) \/ Dies(c)
    BY <1>3, <2>1 DEF ClientMove, Begins, Tries, Hears, Locks, Checks, Spawns, Kills,
       UnlinksSocket, UnlinksPid, Closes, Confirms
  <2>4. cl'[c].child = d /\ (cl'[c].pc = "kill" \/ cl'[c].result = "killed")
    BY <2>1, <2>2, <2>3 DEF Awaits, Go, Dies
  <2>. QED
    BY <1>1, <1>3, <2>1, <2>4 DEF Parent, Calls
<1>. QED
  BY <1>2, <1>3

LEMMA ClientKeepsStartInv ==
  ASSUME TypeOK, ClientInv, SaysInv, StartInv, NEW c \in Clients, ClientMove(c)
  PROVE  StartInv'
<1>1. CallOf' = CallOf
  BY SettingKept DEF ClientMove, SameSetting
<1>. SUFFICES ASSUME NEW d \in Daemons, dm'[d].pc \in Starting
              PROVE  \E p \in Clients : Parent(p, d)'
  BY DEF StartInv, StartingNow
<1>2. ASSUME dm'[d].pc = dm[d].pc, ~(Kills(c) /\ cl[c].child = d)
      PROVE  \E p \in Clients : Parent(p, d)'
  <2>1. PICK p \in Clients : Parent(p, d)
    BY <1>2 DEF StartInv, StartingNow
  <2>2. ~(Kills(c) /\ p = c)
    BY <1>2, <2>1 DEF Parent
  <2>. QED
    BY <1>2, <2>1, <2>2, ParentKept
<1>3. CASE Spawns(c)
  <2>1. PICK e \in Daemons : cl'[c].child = e /\ DaemonFrame(e)
    BY <1>3 DEF Spawns
  <2>2. CASE d = e
    <3>1. Calls(c) /\ cl'[c].pc = "await"
      BY <1>3 DEF Spawns, ClientInv, Calls
    <3>. QED
      BY <1>1, <2>1, <2>2, <3>1 DEF Parent, Calls
  <2>3. CASE d # e
    BY <1>2, <1>3, <2>1, <2>3 DEF DaemonFrame, Spawns, Kills
  <2>. QED
    BY <2>2, <2>3
<1>4. CASE Kills(c)
  BY <1>2, <1>4 DEF Kills, Starting
<1>5. CASE Closes(c)
  BY <1>2, <1>5 DEF Closes, Kills
<1>6. CASE dm' = dm /\ ~Kills(c)
  BY <1>2, <1>6
<1>. QED
  BY <1>3, <1>4, <1>5, <1>6, ClientFiles

LEMMA DaemonKeepsStartInv ==
  ASSUME TypeOK, StartInv, NEW d \in Daemons, DaemonMove(d)
  PROVE  StartInv'
<1>1. CallOf' = CallOf /\ cl' = cl
  BY SettingKept DEF DaemonMove, SameSetting
<1>2. \A e \in Daemons : dm'[e].pc \in Starting => dm[e].pc \in Starting
  BY DaemonPlaces DEF DaemonMove, DaemonFrame
<1>. QED
  BY <1>1, <1>2 DEF StartInv, StartingNow, Parent

LEMMA WorkerKeepsDaemons ==
  ASSUME TypeOK, SaysInv, StartInv, WorkerMove
  PROVE  SaysInv' /\ StartInv'
<1>1. CallOf' = CallOf /\ cl' = cl
  BY SettingKept DEF WorkerMove, SameSetting
<1>2. SaysInv'
  BY DEF SaysInv, WorkerMove
<1>3. StartInv'
  BY <1>1 DEF StartInv, StartingNow, Parent, WorkerMove
<1>. QED
  BY <1>2, <1>3

(* One daemon starts at a time, if no client leaves one behind for another.  *)
LEMMA OneStarts ==
  ASSUME TypeOK, ClientInv, StartInv
  PROVE  OneStarting
<1>. SUFFICES ASSUME SpawnersLive, NEW d \in StartingNow, NEW e \in StartingNow
              PROVE  d = e
  BY DEF OneStarting
<1>1. PICK p \in Clients : Parent(p, d)
  BY DEF StartInv
<1>2. PICK q \in Clients : Parent(q, e)
  BY DEF StartInv
<1>3. p \in Connecting /\ q \in Connecting
  BY <1>1, <1>2 DEF Parent, Connecting
<1>4. CASE cl[p].result = "killed" \/ cl[q].result = "killed"
  <2>1. p \in Mortal \/ q \in Mortal
    BY <1>4 DEF ClientInv
  <2>2. p = q
    BY <1>3, <2>1 DEF SpawnersLive
  <2>. QED
    BY <1>1, <1>2, <2>2 DEF Parent
<1>5. CASE cl[p].pc \in {"await", "kill"} /\ cl[q].pc \in {"await", "kill"}
  <2>1. lock = p /\ lock = q
    BY <1>1, <1>2, <1>5 DEF ClientInv, Holding, Parent
  <2>. QED
    BY <1>1, <1>2, <2>1 DEF Parent
<1>. QED
  BY <1>1, <1>2, <1>4, <1>5 DEF Parent

-----------------------------------------------------------------------------
(* Connections *)

SeenStay == \A d \in Daemons : dm[d].pc \notin Unseen => dm'[d].pc \notin Unseen /\ dm'[d].id = dm[d].id

(* An open connection belongs to a client that uses it or is shut.           *)
OpenUsed ==
  \A j \in conns : ~j.shut =>
    \/ AllShut(j.c)
    \/ /\ cl'[j.c].pc \in {"wait", "have"}
       /\ cl'[j.c].pc = "have" => j.id = dm[j.d].id

LEMMA CarriedConns ==
  ASSUME TypeOK, ConnsInv, Carried, SeenStay, OpenUsed
  PROVE  ConnsInv'
<1>1. PICK f : CarriedBy(f)
  BY DEF Carried
<1>2. /\ conns' \subseteq {f[j] : j \in conns}
      /\ \A j \in conns :
           /\ f[j].c = j.c /\ f[j].d = j.d /\ f[j].id = j.id /\ (j.shut => f[j].shut)
           /\ f[j].st = "ok" => j.st = "ok" \/ j.id = dm[j.d].id
  BY <1>1 DEF CarriedBy
<1>3. ASSUME NEW k \in conns'
      PROVE  \E j \in conns : /\ k = f[j] /\ k.c = j.c /\ k.d = j.d /\ k.id = j.id /\ (j.shut => k.shut)
                              /\ k.st = "ok" => j.st = "ok" \/ j.id = dm[j.d].id
                              /\ j.d \in Daemons
  BY <1>2, ConnsType DEF ConnType
<1>4. ASSUME NEW k \in conns'
      PROVE  /\ dm'[k.d].pc \notin Unseen
             /\ ~k.shut => cl'[k.c].pc \in {"wait", "have"}
             /\ k.st = "ok" \/ (~k.shut /\ cl'[k.c].pc = "have") => k.id = dm'[k.d].id
  <2>1. PICK j \in conns : /\ k = f[j] /\ k.c = j.c /\ k.d = j.d /\ k.id = j.id /\ (j.shut => k.shut)
                           /\ k.st = "ok" => j.st = "ok" \/ j.id = dm[j.d].id
                           /\ j.d \in Daemons
    BY <1>3
  <2>2. dm'[k.d].pc \notin Unseen /\ dm'[k.d].id = dm[j.d].id
    BY <2>1 DEF ConnsInv, SeenStay
  <2>3. ~k.shut => ~AllShut(j.c)
    BY <2>1 DEF AllShut
  <2>4. j.st = "ok" => j.id = dm[j.d].id
    BY DEF ConnsInv
  <2>. QED
    BY <2>1, <2>2, <2>3, <2>4 DEF OpenUsed
<1>5. ASSUME NEW i \in conns', NEW k \in conns', ~i.shut, ~k.shut, i.c = k.c
      PROVE  i = k
  <2>1. PICK j \in conns : i = f[j] /\ i.c = j.c /\ (j.shut => i.shut)
    BY <1>3
  <2>2. PICK l \in conns : k = f[l] /\ k.c = l.c /\ (l.shut => k.shut)
    BY <1>3
  <2>3. j = l
    BY <1>5, <2>1, <2>2 DEF ConnsInv
  <2>. QED
    BY <2>1, <2>2, <2>3
<1>. QED
  BY <1>4, <1>5 DEF ConnsInv

LEMMA ClientKeepsConnsInv ==
  ASSUME TypeOK, ConnsInv, NEW c \in Clients, ClientMove(c)
  PROVE  ConnsInv'
<1>1. \A d \in Clients \ {c} : cl'[d] = cl[d]
  BY DEF ClientMove, ClientFrame
<1>2. SeenStay
  <2>1. CASE Spawns(c)
    BY <2>1 DEF Spawns, SeenStay, DaemonFrame, Unseen
  <2>2. CASE Kills(c)
    BY <2>2 DEF Kills, SeenStay, Unseen
  <2>3. CASE Closes(c)
    BY <2>3 DEF Closes, SeenStay
  <2>. QED
    BY <2>1, <2>2, <2>3, ClientFiles DEF SeenStay
<1>3. ASSUME NEW j \in conns
      PROVE  j.c \in Clients /\ (~j.shut => cl[j.c].pc \in {"wait", "have"})
             /\ (~j.shut /\ cl[j.c].pc = "have" => j.id = dm[j.d].id)
  BY ConnsType DEF ConnsInv, ConnType
<1>4. CASE Carried
  <2>1. ASSUME NEW j \in conns, ~j.shut
        PROVE  \/ AllShut(j.c)
               \/ /\ cl'[j.c].pc \in {"wait", "have"}
                  /\ cl'[j.c].pc = "have" => j.id = dm[j.d].id
    <3>1. CASE j.c # c
      BY <1>1, <1>3, <2>1, <3>1
    <3>2. CASE j.c = c
      <4>1. \/ AllShut(c)
            \/ Hears(c) /\ (\E k \in Mine(c) : k.st = "ok") /\ Stop(c, "have")
            \/ Tries(c)
        BY <1>3, <2>1, <3>2 DEF ClientMove, Begins, Hears, Locks, Checks, Spawns, Awaits, Kills,
           UnlinksSocket, UnlinksPid, Closes, Confirms, Dies
      <4>2. CASE (\E k \in Mine(c) : k.st = "ok") /\ Stop(c, "have")
        <5>1. PICK k \in conns : k.c = c /\ ~k.shut /\ k.st = "ok"
          BY <4>2 DEF Mine
        <5>2. k = j
          BY <2>1, <3>2, <5>1 DEF ConnsInv
        <5>. QED
          BY <3>2, <4>2, <5>1, <5>2 DEF Stop, ConnsInv
      <4>3. ~Tries(c)
        BY <1>3, <2>1, <3>2 DEF Tries
      <4>. QED
        BY <3>2, <4>1, <4>2, <4>3
    <3>. QED
      BY <3>1, <3>2
  <2>. QED
    BY <1>2, <1>4, <2>1, CarriedConns DEF OpenUsed
<1>5. CASE Tries(c) /\ ~Carried
  <2>1. /\ dm' = dm /\ cl[c].pc = "try" /\ cl'[c].pc = "wait"
        /\ sock # NoOne /\ dm[sock].pc \in Listening
    BY <1>5, CarriedSame DEF Tries, Still, Go
  <2>2. PICK k \in ConnType : /\ conns' = conns \cup {k} /\ k.c = c /\ k.d = sock
                              /\ k.st = "queued" /\ ~k.shut
    BY <1>5, CarriedSame DEF Tries
  <2>3. \A j \in conns : ~j.shut => j.c # c /\ cl'[j.c] = cl[j.c]
    BY <1>1, <1>3, <2>1
  <2>4. \A j \in conns' : dm'[j.d].pc \notin Unseen
    BY <2>1, <2>2 DEF ConnsInv, Listening, Unseen
  <2>5. \A j \in conns' : ~j.shut => cl'[j.c].pc \in {"wait", "have"}
    BY <1>3, <2>1, <2>2, <2>3
  <2>6. \A i, j \in conns' : ~i.shut /\ ~j.shut /\ i.c = j.c => i = j
    BY <2>2, <2>3 DEF ConnsInv
  <2>7. \A j \in conns' : j.st = "ok" \/ (~j.shut /\ cl'[j.c].pc = "have") => j.id = dm'[j.d].id
    BY <2>1, <2>2, <2>3 DEF ConnsInv
  <2>. QED
    BY <2>4, <2>5, <2>6, <2>7 DEF ConnsInv
<1>. QED
  BY <1>4, <1>5, ClientConns

LEMMA OthersKeepConnsInv ==
  ASSUME TypeOK, ConnsInv, WorkerMove \/ \E d \in Daemons : DaemonMove(d)
  PROVE  ConnsInv'
<1>1. Carried /\ cl' = cl
  BY DEF WorkerMove, DaemonMove
<1>2. SeenStay
  <2>1. CASE WorkerMove
    BY <2>1 DEF WorkerMove, SeenStay
  <2>2. ASSUME NEW d \in Daemons, DaemonMove(d)
        PROVE  SeenStay
    <3>1. \A e \in Daemons \ {d} : dm'[e] = dm[e]
      BY <2>2 DEF DaemonMove, DaemonFrame
    <3>2. dm[d].pc \notin Unseen => dm'[d].pc \notin Unseen /\ dm'[d].id = dm[d].id
      BY <2>2, DaemonPlaces DEF DaemonMove, Unseen
    <3>. QED
      BY <3>1, <3>2 DEF SeenStay
  <2>. QED
    BY <2>1, <2>2
<1>3. OpenUsed
  BY <1>1 DEF OpenUsed, ConnsInv
<1>. QED
  BY <1>1, <1>2, <1>3, CarriedConns

-----------------------------------------------------------------------------
(* Without replacements and probes *)

LEMMA OrderlyFacts ==
  ASSUME TypeOK, Orderly
  PROVE  /\ \A c \in Clients : CallOf[c] = "connect" /\ c \notin Mortal
         /\ \A k \in conns : k.id = dm[k.d].id
<1>1. \A k \in conns : k.id \in Identities /\ dm[k.d].id \in Identities
  BY ConnsType, DaemonsAre DEF ConnType, DaemonType
<1>. QED
  BY <1>1 DEF Orderly, Connecting

LEMMA NoneEnds ==
  ASSUME TypeOK, Orderly, \A k \in conns : k.st # "ended", Carried
  PROVE  \A k \in conns' : k.st # "ended"
<1>1. PICK f : CarriedBy(f)
  BY DEF Carried
<1>2. \A j \in conns : j.c \in Clients
  BY ConnsType DEF ConnType
<1>. QED
  BY <1>1, <1>2, OrderlyFacts DEF CarriedBy

(* When a client is about to start a daemon there is none.                   *)
LEMMA NobodyAlive ==
  ASSUME TypeOK, ClientInv, StartInv, Orderly, OrderlyInv, NEW c \in Clients,
         cl[c].pc = "alive", ~RecordedAlive
  PROVE  \A d \in Daemons : ~Alive(d)
<1>. SUFFICES ASSUME NEW d \in Daemons, Alive(d) PROVE FALSE
  OBVIOUS
<1>1. dm[d].pc \in {"unlink", "session", "pid"}
  <2>1. pid # d
    BY DaemonsType DEF RecordedAlive
  <2>. QED
    BY <2>1 DEF OrderlyInv
<1>2. PICK p \in Clients : Parent(p, d)
  BY <1>1 DEF StartInv, StartingNow, Starting
<1>3. cl[p].pc \in {"await", "kill"} /\ CallOf[p] = "connect" /\ CallOf[c] = "connect"
  BY <1>2, OrderlyFacts DEF Parent, ClientInv
<1>4. lock = p /\ lock = c
  BY <1>3 DEF ClientInv, Holding
<1>. QED
  BY <1>3, <1>4

LEMMA AliveNext ==
  ASSUME NEW d
  PROVE  Alive(d)' <=> dm'[d].pc \notin {"unborn", "gone"}
BY DEF Alive

LEMMA ClientKeepsOrderly ==
  ASSUME TypeOK, ClientInv, StartInv, Orderly, OrderlyInv, NEW c \in Clients, ClientMove(c)
  PROVE  OrderlyInv'
<1>1. ~UnlinksSocket(c) /\ ~UnlinksPid(c) /\ ~Dies(c)
  BY OrderlyFacts DEF UnlinksSocket, UnlinksPid, Dies, ClientInv
<1>2. sock' = sock /\ pid' = pid /\ (dm' = dm \/ Spawns(c) \/ Kills(c) \/ Closes(c))
  BY <1>1, ClientFiles
<1>3. \A k \in conns' : k.st # "ended"
  <2>1. CASE Tries(c)
    BY <2>1 DEF Tries, OrderlyInv
  <2>2. CASE Carried
    BY <2>2, NoneEnds DEF OrderlyInv
  <2>. QED
    BY <2>1, <2>2, ClientConns
<1>4. \A e \in Clients : ~cl'[e].departing
  <2>1. ~cl'[c].departing
    BY DEF ClientMove, OrderlyInv
  <2>2. \A e \in Clients \ {c} : ~cl'[e].departing
    BY DEF ClientMove, ClientFrame, OrderlyInv
  <2>. QED
    BY <2>1, <2>2
<1>5. CASE Spawns(c)
  <2>1. PICK d \in Daemons : dm'[d].pc = "unlink" /\ \A e \in Daemons \ {d} : dm'[e] = dm[e]
    BY <1>5 DEF Spawns, DaemonFrame
  <2>2. \A e \in Daemons : dm[e].pc \in {"unborn", "gone"}
    BY <1>5 DEF Spawns, OrderlyInv, Alive
  <2>3. \A e \in Daemons \ {d} : dm'[e].pc \in {"unborn", "gone"}
    BY <2>1, <2>2
  <2>4. \A e \in Clients : cl'[e].pc # "spawn"
    <3>. SUFFICES ASSUME NEW e \in Clients, cl'[e].pc = "spawn" PROVE FALSE
      OBVIOUS
    <3>1. e # c
      BY <1>5 DEF Spawns
    <3>2. cl[e].pc = "spawn" /\ cl[c].pc = "spawn"
      BY <1>5, <3>1 DEF Spawns, ClientMove, ClientFrame
    <3>3. lock = e /\ lock = c
      BY <3>2, OrderlyFacts DEF ClientInv, Holding
    <3>. QED
      BY <3>1, <3>3
  <2>5. \A e \in Daemons : Alive(e)' => e = d
    BY <2>3, AliveNext
  <2>6. \A e \in Daemons : dm'[e].pc \notin {"session", "pid", "bind", "listen"} \cup Listening
    BY <2>1, <2>3 DEF Listening
  <2>7. \A e \in Daemons : Alive(e)' => dm'[e].pc = "unlink"
    BY <2>1, <2>5
  <2>. QED
    BY <1>3, <1>4, <2>4, <2>5, <2>6, <2>7 DEF OrderlyInv
<1>6. CASE ~Spawns(c)
  <2>1. \A d \in Daemons : dm'[d].pc \in {dm[d].pc, "gone"}
    BY <1>2, <1>6 DEF Kills, Closes
  <2>2. \A d \in Daemons : Alive(d)' => Alive(d) /\ dm'[d].pc = dm[d].pc
    BY <2>1, AliveNext DEF Alive
  <2>3. ASSUME NEW e \in Clients, cl'[e].pc = "spawn"
        PROVE  \A d \in Daemons : ~Alive(d)
    <3>1. CASE e # c
      BY <2>3, <3>1 DEF ClientMove, ClientFrame, OrderlyInv
    <3>2. CASE e = c
      <4>1. \A out : ~Reply(c, out)
        BY <1>4, <2>3, <3>2 DEF Reply, Go, Stop
      <4>2. cl[c].pc = "alive" /\ ~RecordedAlive
        BY <1>6, <2>3, <3>2, <4>1 DEF ClientMove, Begins, Tries, Hears, Locks, Checks, Awaits, Kills,
           UnlinksSocket, UnlinksPid, Closes, Confirms, Dies, Go, Stop
      <4>. QED
        BY <4>2, NobodyAlive
    <3>. QED
      BY <3>1, <3>2
  <2>4. \A d \in Daemons : dm'[d].pc \in {"session", "pid", "bind", "listen"} \cup Listening => dm'[d].pc = dm[d].pc
    BY <2>1 DEF Listening
  <2>5. \A d, e \in Daemons : Alive(d)' /\ Alive(e)' => d = e
    BY <2>2 DEF OrderlyInv
  <2>6. \A e \in Clients : cl'[e].pc = "spawn" => \A d \in Daemons : ~Alive(d)'
    BY <2>2, <2>3
  <2>7. \A d \in Daemons : Alive(d)' /\ dm'[d].pc \notin {"unlink", "session", "pid"} => pid' = d
    BY <1>2, <2>2 DEF OrderlyInv
  <2>8. /\ \A d \in Daemons : dm'[d].pc \in {"session", "pid", "bind"} => sock' = NoOne
        /\ \A d \in Daemons : dm'[d].pc \in Listening \cup {"listen"} => sock' = d
    BY <1>2, <2>4 DEF OrderlyInv
  <2>. QED
    BY <1>3, <1>4, <2>5, <2>6, <2>7, <2>8 DEF OrderlyInv
<1>. QED
  BY <1>5, <1>6

LEMMA DaemonKeepsOrderly ==
  ASSUME TypeOK, ClientInv, Orderly, OrderlyInv, NEW d \in Daemons, DaemonMove(d)
  PROVE  OrderlyInv'
<1>1. Alive(d) /\ cl' = cl /\ Carried
  BY DaemonPlaces DEF DaemonMove, Alive
<1>2. \A e \in Daemons \ {d} : dm[e].pc \in {"unborn", "gone"}
  BY <1>1 DEF OrderlyInv, Alive
<1>3. \A e \in Daemons \ {d} : dm'[e].pc \in {"unborn", "gone"}
  BY <1>2 DEF DaemonMove, DaemonFrame
<1>4. \A k \in conns' : k.st # "ended"
  BY <1>1, NoneEnds DEF OrderlyInv
<1>5. \A c \in Clients : cl'[c].pc # "spawn" /\ ~cl'[c].departing
  BY <1>1 DEF OrderlyInv
<1>6. /\ dm[d].pc \notin {"unlink", "session", "pid"} => pid = d
      /\ dm[d].pc \in {"session", "pid", "bind"} => sock = NoOne
      /\ dm[d].pc \in Listening \cup {"listen"} => sock = d
  BY <1>1 DEF OrderlyInv
<1>7. /\ dm'[d].pc \notin {"gone", "unborn", "unlink", "session", "pid"} => pid' = d
      /\ dm'[d].pc \in {"session", "pid", "bind"} => sock' = NoOne
      /\ dm'[d].pc \in Listening \cup {"listen"} => sock' = d
  BY <1>6 DEF DaemonMove, To, ToSaying, Inside, Listening
<1>8. \A e \in Daemons : Alive(e)' => e = d
  BY <1>3, AliveNext
<1>9. /\ \A e \in Daemons : Alive(e)' /\ dm'[e].pc \notin {"unlink", "session", "pid"} => pid' = e
      /\ \A e \in Daemons : dm'[e].pc \in {"session", "pid", "bind"} => sock' = NoOne
      /\ \A e \in Daemons : dm'[e].pc \in Listening \cup {"listen"} => sock' = e
  BY <1>3, <1>7, <1>8, AliveNext DEF Listening
<1>. QED
  BY <1>4, <1>5, <1>8, <1>9 DEF OrderlyInv

LEMMA WorkerKeepsOrderly ==
  ASSUME TypeOK, Orderly, OrderlyInv, WorkerMove
  PROVE  OrderlyInv'
<1>1. \A k \in conns' : k.st # "ended"
  BY NoneEnds DEF WorkerMove, OrderlyInv
<1>2. cl' = cl /\ sock' = sock /\ pid' = pid /\ \A d \in Daemons : dm'[d].pc = dm[d].pc /\ (Alive(d)' <=> Alive(d))
  BY AliveNext DEF WorkerMove, Alive
<1>. QED
  BY <1>1, <1>2 DEF OrderlyInv

-----------------------------------------------------------------------------
(* Nothing too late, nobody killed *)

LEMMA UndisturbedFacts ==
  ASSUME TypeOK, ClientInv, Undisturbed
  PROVE  /\ ~Slow /\ SpawnersLive
         /\ \A d \in Daemons : d \notin Mortal /\ ~Orphaned(d)
         /\ \A c \in Clients : ~Dies(c)
         /\ "stale" \in Starts => ~Faulty
BY DEF Undisturbed, SpawnersLive, Orphaned, ClientInv, Dies

LEMMA ClientKeepsWaitInv ==
  ASSUME TypeOK, ClientInv, SaysInv, Undisturbed, WaitInv, NEW c \in Clients, ClientMove(c)
  PROVE  WaitInv'
<1>1. \A d \in Daemons : \/ dm'[d].pc = dm[d].pc /\ dm'[d].says = dm[d].says
                         \/ dm[d].pc = "unborn" /\ dm'[d].pc = "unlink"
  <2>1. CASE Spawns(c)
    BY <2>1 DEF Spawns, DaemonFrame
  <2>2. CASE Kills(c)
    BY <2>2 DEF Kills, WaitInv
  <2>3. CASE Closes(c)
    BY <2>3 DEF Closes
  <2>. QED
    BY <2>1, <2>2, <2>3, ClientFiles
<1>. SUFFICES ASSUME NEW e \in Clients
              PROVE  /\ cl'[e].pc \in {"await", "kill"} => cl'[e].child \in Daemons
                     /\ cl'[e].pc = "await" => dm'[cl'[e].child].pc # "unborn"
                     /\ cl'[e].pc = "await" /\ dm'[cl'[e].child].pc = "gone" => dm'[cl'[e].child].says # "nothing"
                     /\ cl'[e].pc = "kill" => dm'[cl'[e].child].pc = "gone"
  BY DEF WaitInv
<1>2. CASE e # c
  <2>1. cl'[e] = cl[e]
    BY <1>2 DEF ClientMove, ClientFrame
  <2>. QED
    BY <1>1, <2>1 DEF WaitInv
<1>3. CASE e = c /\ Spawns(c)
  <2>1. cl'[c].pc = "await" /\ cl'[c].child \in Daemons /\ dm'[cl'[c].child].pc = "unlink"
    BY <1>3 DEF Spawns
  <2>. QED
    BY <1>3, <2>1
<1>4. CASE e = c /\ Awaits(c)
  <2>. DEFINE d == cl[c].child
  <2>1. d \in Daemons /\ dm' = dm /\ dm[d].pc \in DaemonPcs
    BY <1>4, DaemonsAre DEF Awaits, Still, WaitInv, DaemonType
  <2>2. dm[d].says = "FAILED" => dm[d].pc = "gone"
    BY <2>1 DEF SaysInv
  <2>3. ~(dm[d].says = "nothing" /\ (Slow \/ dm[d].pc = "gone"))
    BY <1>4, UndisturbedFacts DEF Awaits, WaitInv
  <2>4. \/ cl'[c].pc = "try"
        \/ cl'[c].pc = "kill" /\ cl'[c].child = d /\ dm[d].says = "FAILED"
    BY <1>4, <2>3 DEF Awaits, Go
  <2>. QED
    BY <1>4, <2>1, <2>2, <2>4
<1>5. CASE e = c /\ ~Spawns(c) /\ ~Awaits(c)
  <2>1. \A out : Reply(c, out) => cl'[c].pc \notin {"await", "kill"}
    BY DEF Reply, Go, Stop
  <2>2. cl'[c].pc \notin {"await", "kill"}
    BY <1>5, <2>1 DEF ClientMove, Begins, Tries, Hears, Locks, Checks, Kills,
       UnlinksSocket, UnlinksPid, Closes, Confirms, Dies, Go, Stop
  <2>. QED
    BY <1>5, <2>2
<1>. QED
  BY <1>2, <1>3, <1>4, <1>5

LEMMA DaemonKeepsWaitInv ==
  ASSUME TypeOK, ClientInv, SaysInv, Undisturbed, WaitInv, NEW d \in Daemons, DaemonMove(d)
  PROVE  WaitInv'
<1>1. cl' = cl /\ \A e \in Daemons \ {d} : dm'[e] = dm[e]
  BY DEF DaemonMove, DaemonFrame
<1>2. dm[d].pc # "gone" /\ dm'[d].pc # "unborn"
  BY DaemonPlaces
<1>3. dm'[d].pc = "gone" => dm'[d].says # "nothing"
  <2>1. dm[d].pc \in {"own", "unpid"} => dm[d].says = "READY"
    BY DEF SaysInv, DaemonPcs, Leaving, Starting
  <2>. QED
    BY <2>1, UndisturbedFacts DEF DaemonMove, To, ToSaying, Inside
<1>. QED
  BY <1>1, <1>2, <1>3 DEF WaitInv

(* What a client does to the files and the daemons                           *)
LEMMA ClientFilesUndisturbed ==
  ASSUME TypeOK, WaitInv, NEW c \in Clients, ClientMove(c)
  PROVE  /\ sock' = sock \/ (UnlinksSocket(c) /\ sock' = NoOne)
         /\ pid' = pid \/ (UnlinksPid(c) /\ pid' = NoOne)
         /\ \A d \in Daemons : \/ dm'[d].pc = dm[d].pc
                               \/ dm[d].pc = "unborn" /\ dm'[d].pc = "unlink"
<1>1. CASE Spawns(c)
  BY <1>1 DEF Spawns, DaemonFrame
<1>2. CASE Kills(c)
  BY <1>2 DEF Kills, WaitInv
<1>3. CASE Closes(c)
  BY <1>3 DEF Closes
<1>4. sock' = sock \/ UnlinksSocket(c)
  BY ClientFiles
<1>5. pid' = pid \/ UnlinksPid(c)
  BY ClientFiles
<1>6. \A d \in Daemons : \/ dm'[d].pc = dm[d].pc
                         \/ dm[d].pc = "unborn" /\ dm'[d].pc = "unlink"
  BY <1>1, <1>2, <1>3, ClientFiles
<1>. QED
  BY <1>4, <1>5, <1>6 DEF UnlinksSocket, UnlinksPid

(* Where a client may be next to the files of a dead daemon                  *)
LEMMA StaleClient ==
  ASSUME TypeOK, ClientInv, SaysInv, Undisturbed, WaitInv, Stale, NEW c \in Clients, ClientMove(c)
  PROVE  /\ cl'[c].pc \in {"idle", "try", "lock", "alive", "spawn", "await", "unsock", "unpid", "done"}
         /\ cl'[c].pc = "try" => cl'[c].at \in {"first", "locked"}
         /\ cl'[c].pc = "await" => cl'[c].child # 1
         /\ cl'[c].pc \in {"unpid", "done"} => sock' = NoOne
<1>1. /\ dm[1].pc = "gone" /\ pid = 1 /\ sock \in {NoOne, 1} /\ ~Faulty /\ ~Slow /\ ~Dies(c)
      /\ \A d \in Daemons \ {1} : dm[d].pc \in {"unborn", "unlink", "session", "pid"}
  BY UndisturbedFacts DEF Stale
<1>2. /\ cl[c].pc \in {"idle", "try", "lock", "alive", "spawn", "await", "unsock", "unpid", "done"}
      /\ cl[c].pc = "try" => cl[c].at \in {"first", "locked"}
      /\ cl[c].pc = "await" => cl[c].child # 1
      /\ cl[c].pc \in {"unpid", "done"} => sock = NoOne
      /\ cl[c].pc = "idle" => cl[c].at = "first"
  BY DEF Stale, ClientInv
<1>3. CASE Begins(c)
  BY <1>1, <1>2, <1>3 DEF Begins, Still, Go, Stop
<1>4. CASE Tries(c)
  <2>1. Reply(c, "none") /\ cl[c].at \in {"first", "locked"}
    BY <1>1, <1>2, <1>4 DEF Tries, Listening
  <2>. QED
    BY <2>1 DEF Reply, Go, Stop
<1>5. CASE Locks(c) \/ Checks(c)
  BY <1>1, <1>5 DEF Locks, Checks, RecordedAlive, Alive, Go
<1>6. CASE Spawns(c)
  BY <1>1, <1>6 DEF Spawns
<1>7. CASE Awaits(c)
  <2>. DEFINE d == cl[c].child
  <2>1. d \in Daemons \ {1}
    BY <1>2, <1>7 DEF Awaits, WaitInv
  <2>2. dm[d].says = "nothing" /\ dm[d].pc # "gone"
    BY <1>1, <2>1 DEF SaysInv, Starting
  <2>. QED
    BY <1>1, <1>7, <2>2 DEF Awaits
<1>8. CASE UnlinksSocket(c) \/ UnlinksPid(c)
  BY <1>2, <1>8 DEF UnlinksSocket, UnlinksPid, Go, Stop
<1>9. ~Hears(c) /\ ~Kills(c) /\ ~Closes(c) /\ ~Confirms(c)
  BY <1>2 DEF Hears, Kills, Closes, Confirms
<1>. QED
  BY <1>1, <1>3, <1>4, <1>5, <1>6, <1>7, <1>8, <1>9 DEF ClientMove

LEMMA ClientKeepsStale ==
  ASSUME TypeOK, ClientInv, SaysInv, Undisturbed, WaitInv, Stale, NEW c \in Clients, ClientMove(c)
  PROVE  Stale' \/ (pid' = NoOne /\ sock' = NoOne)
<1>1. CASE UnlinksPid(c)
  <2>1. sock = NoOne
    BY <1>1 DEF Stale, UnlinksPid
  <2>. QED
    BY <1>1, <2>1 DEF UnlinksPid
<1>2. CASE ~UnlinksPid(c)
  <2>1. pid' = pid /\ (sock' = sock \/ (UnlinksSocket(c) /\ sock' = NoOne))
    BY <1>2, ClientFilesUndisturbed
  <2>2. \A d \in Daemons : dm'[d].pc = dm[d].pc \/ (dm[d].pc = "unborn" /\ dm'[d].pc = "unlink")
    BY ClientFilesUndisturbed
  <2>3. \A e \in Clients \ {c} : cl'[e] = cl[e]
    BY DEF ClientMove, ClientFrame
  <2>4. Starts' = Starts
    BY SettingKept DEF ClientMove, SameSetting
  <2>5. /\ pid' = 1 /\ dm'[1].pc = "gone" /\ sock' \in {NoOne, 1} /\ "stale" \in Starts'
        /\ \A d \in Daemons \ {1} : dm'[d].pc \in {"unborn", "unlink", "session", "pid"}
    BY <2>1, <2>2, <2>4, DaemonsType DEF Stale
  <2>6. ASSUME NEW e \in Clients
        PROVE  /\ cl'[e].pc \in {"idle", "try", "lock", "alive", "spawn", "await", "unsock", "unpid", "done"}
               /\ cl'[e].pc = "try" => cl'[e].at \in {"first", "locked"}
               /\ cl'[e].pc = "await" => cl'[e].child # 1
               /\ cl'[e].pc \in {"unpid", "done"} => sock' = NoOne
    <3>1. CASE e = c
      BY <3>1, StaleClient
    <3>2. CASE e # c
      BY <2>1, <2>3, <3>2 DEF Stale
    <3>. QED
      BY <3>1, <3>2
  <2>7. ASSUME sock' = NoOne
        PROVE  (\E e \in Clients : cl'[e].pc = "unpid") \/ (\E d \in Daemons : Alive(d)')
    <3>1. CASE UnlinksSocket(c)
      BY <3>1 DEF UnlinksSocket, Go
    <3>2. CASE ~UnlinksSocket(c)
      <4>1. sock = NoOne
        BY <2>1, <2>7, <3>2
      <4>2. ASSUME NEW e \in Clients, cl[e].pc = "unpid"
            PROVE  cl'[e].pc = "unpid"
        <5>1. e # c
          BY <1>2, <3>2, <4>2 DEF ClientMove, Begins, Tries, Hears, Locks, Checks, Spawns, Awaits, Kills,
             Closes, Confirms, Dies, Undisturbed
        <5>. QED
          BY <2>3, <4>2, <5>1
      <4>3. \A d \in Daemons : Alive(d) => Alive(d)'
        BY <2>2, AliveNext DEF Alive
      <4>. QED
        BY <4>1, <4>2, <4>3 DEF Stale
    <3>. QED
      BY <3>1, <3>2
  <2>. QED
    BY <2>5, <2>6, <2>7 DEF Stale
<1>. QED
  BY <1>1, <1>2

LEMMA ClientKeepsFilesInv ==
  ASSUME TypeOK, ClientInv, SaysInv, Undisturbed, WaitInv, FilesInv, NEW c \in Clients, ClientMove(c)
  PROVE  FilesInv'
<1>1. sock' \in {sock, NoOne} /\ pid' \in {pid, NoOne}
  BY ClientFilesUndisturbed
<1>2. \A d \in Daemons : dm'[d].pc = dm[d].pc \/ (dm[d].pc = "unborn" /\ dm'[d].pc = "unlink")
  BY ClientFilesUndisturbed
<1>3. sock \in Daemons \cup {NoOne} /\ pid \in Daemons \cup {NoOne}
  BY DaemonsAre
<1>4. /\ sock' # NoOne => pid' \in {sock', NoOne}
      /\ \A d \in Daemons : dm'[d].pc \in {"session", "pid", "bind"} => sock' = NoOne
      /\ \A d \in Daemons : dm'[d].pc = "bind" => pid' \in {d, NoOne}
  BY <1>1, <1>2 DEF FilesInv
<1>5. CASE Stale
  BY <1>4, <1>5, ClientKeepsStale DEF FilesInv
<1>6. CASE ~Stale
  BY <1>1, <1>2, <1>3, <1>4, <1>6 DEF FilesInv, SockPcs
<1>. QED
  BY <1>5, <1>6

LEMMA DaemonKeepsStale ==
  ASSUME TypeOK, ClientInv, Undisturbed, FilesInv, Stale, NEW d \in Daemons, DaemonMove(d)
  PROVE  Stale' \/ (sock' = NoOne /\ pid' = d /\ dm'[d].pc = "bind")
<1>1. d # 1 /\ dm[d].pc \in {"unlink", "session", "pid"}
  BY DaemonPlaces DEF Stale
<1>2. cl' = cl /\ \A e \in Daemons \ {d} : dm'[e] = dm[e]
  BY DEF DaemonMove, DaemonFrame
<1>3. ~Faulty /\ Starts' = Starts /\ d \notin Mortal
  BY UndisturbedFacts, SettingKept DEF Stale, DaemonMove, SameSetting
<1>4. \/ dm[d].pc = "unlink" /\ dm'[d].pc = "session" /\ sock' = NoOne /\ pid' = pid
      \/ dm[d].pc = "session" /\ dm'[d].pc = "pid" /\ sock' = sock /\ pid' = pid
      \/ dm[d].pc = "pid" /\ dm'[d].pc = "bind" /\ sock' = sock /\ pid' = d
  BY <1>1, <1>3 DEF DaemonMove, To, ToSaying, Inside
<1>5. CASE dm[d].pc = "pid"
  BY <1>4, <1>5 DEF FilesInv
<1>6. CASE dm[d].pc # "pid"
  <2>1. sock' \in {sock, NoOne} /\ pid' = pid /\ dm'[d].pc \in {"session", "pid"}
    BY <1>4, <1>6
  <2>2. Alive(d)'
    BY <2>1, AliveNext
  <2>3. /\ pid' = 1 /\ dm'[1].pc = "gone" /\ sock' \in {NoOne, 1} /\ "stale" \in Starts'
        /\ \A e \in Daemons \ {1} : dm'[e].pc \in {"unborn", "unlink", "session", "pid"}
    BY <1>1, <1>2, <1>3, <2>1, DaemonsType DEF Stale
  <2>4. \A c \in Clients :
          /\ cl'[c].pc \in {"idle", "try", "lock", "alive", "spawn", "await", "unsock", "unpid", "done"}
          /\ cl'[c].pc = "try" => cl'[c].at \in {"first", "locked"}
          /\ cl'[c].pc = "await" => cl'[c].child # 1
          /\ cl'[c].pc \in {"unpid", "done"} => sock' = NoOne
    BY <1>2, <2>1 DEF Stale
  <2>. QED
    BY <2>2, <2>3, <2>4 DEF Stale
<1>. QED
  BY <1>5, <1>6

(* Where a daemon's step leads it, by what it does to the files.             *)
LEMMA DaemonFiles ==
  ASSUME TypeOK, ClientInv, Undisturbed, NEW d \in Daemons, DaemonMove(d)
  PROVE  \/ dm[d].pc = "unlink" /\ dm'[d].pc = "session" /\ sock' = NoOne /\ pid' = pid
         \/ dm[d].pc = "session" /\ dm'[d].pc \in {"pid", "gone"} /\ sock' = sock /\ pid' = pid
         \/ dm[d].pc = "pid" /\ dm'[d].pc = "bind" /\ sock' = sock /\ pid' = d
         \/ dm[d].pc = "bind" /\ dm'[d].pc = "listen" /\ sock' = d /\ pid' = pid
         \/ dm[d].pc = "bind" /\ dm'[d].pc = "gone" /\ sock # NoOne
         \/ dm[d].pc \in SockPcs /\ dm'[d].pc \in SockPcs /\ sock' = sock /\ pid' = pid
         \/ dm[d].pc = "own" /\ dm'[d].pc = "gone" /\ pid \notin {d, NoOne} /\ sock' = sock /\ pid' = pid
         \/ dm[d].pc = "unsock" /\ dm'[d].pc = "unpid" /\ sock' = NoOne /\ pid' = pid
         \/ dm[d].pc = "unpid" /\ dm'[d].pc = "gone" /\ sock' = sock /\ pid' = NoOne
BY UndisturbedFacts DEF DaemonMove, To, ToSaying, Inside, SockPcs

LEMMA DaemonKeepsFilesInv ==
  ASSUME TypeOK, ClientInv, StartInv, Undisturbed, FilesInv, NEW d \in Daemons, DaemonMove(d)
  PROVE  FilesInv'
<1>1. \A e \in Daemons \ {d} : dm'[e] = dm[e]
  BY DEF DaemonMove, DaemonFrame
<1>2. ASSUME NEW e \in Daemons \ {d}, dm[e].pc \in Starting
      PROVE  dm[d].pc \notin Starting
  BY <1>2, OneStarts, UndisturbedFacts DEF OneStarting, StartingNow
<1>3. /\ sock # NoOne => pid \in {sock, NoOne}
      /\ dm[d].pc \in {"session", "pid", "bind"} => sock = NoOne
      /\ dm[d].pc = "bind" => pid \in {d, NoOne}
      /\ sock \in Daemons \cup {NoOne} /\ pid \in Daemons \cup {NoOne} /\ d # NoOne
  BY DaemonsAre, DaemonsType DEF FilesInv
<1>4. sock' # NoOne => pid' \in {sock', NoOne}
  BY <1>3, DaemonFiles
<1>5. ASSUME NEW e \in Daemons, dm'[e].pc \in {"session", "pid", "bind"}
      PROVE  sock' = NoOne /\ (dm'[e].pc = "bind" => pid' \in {e, NoOne})
  <2>1. CASE e = d
    BY <1>3, <1>5, <2>1, DaemonFiles DEF SockPcs
  <2>2. CASE e # d
    <3>1. dm[e].pc \in {"session", "pid", "bind"} /\ dm'[e].pc = dm[e].pc
      BY <1>1, <1>5, <2>2
    <3>2. dm[d].pc \notin {"pid", "bind"}
      BY <1>2, <2>2, <3>1 DEF Starting
    <3>3. sock' \in {sock, NoOne} /\ pid' \in {pid, NoOne}
      BY <3>2, DaemonFiles
    <3>. QED
      BY <3>1, <3>3 DEF FilesInv
  <2>. QED
    BY <2>1, <2>2
<1>6. CASE Stale
  <2>1. CASE Stale'
    BY <1>4, <1>5, <2>1 DEF FilesInv
  <2>2. CASE sock' = NoOne /\ pid' = d /\ dm'[d].pc = "bind"
    BY <1>4, <1>5, <2>2 DEF FilesInv
  <2>. QED
    BY <1>6, <2>1, <2>2, DaemonKeepsStale
<1>7. CASE ~Stale
  <2>1. /\ sock # NoOne => dm[sock].pc \in SockPcs
        /\ pid # NoOne => dm[pid].pc \in SockPcs \cup {"bind", "unpid"}
    BY <1>7 DEF FilesInv
  <2>2. sock' # NoOne => dm'[sock'].pc \in SockPcs
    <3>. SUFFICES ASSUME sock' # NoOne PROVE dm'[sock'].pc \in SockPcs
      OBVIOUS
    <3>1. CASE dm[d].pc = "bind"
      BY <1>3, <3>1, DaemonFiles DEF SockPcs
    <3>2. CASE dm[d].pc # "bind"
      <4>1. sock' = sock
        BY <3>2, DaemonFiles
      <4>2. CASE sock # d
        BY <1>1, <1>3, <2>1, <4>1, <4>2
      <4>3. CASE sock = d
        BY <1>3, <2>1, <4>1, <4>3, DaemonFiles DEF SockPcs
      <4>. QED
        BY <4>2, <4>3
    <3>. QED
      BY <3>1, <3>2
  <2>3. pid' # NoOne => dm'[pid'].pc \in SockPcs \cup {"bind", "unpid"}
    <3>. SUFFICES ASSUME pid' # NoOne PROVE dm'[pid'].pc \in SockPcs \cup {"bind", "unpid"}
      OBVIOUS
    <3>1. CASE dm[d].pc \in {"pid", "bind"}
      <4>1. pid' \in {d, NoOne} /\ dm'[d].pc \in {"bind", "listen"}
        BY <1>3, <3>1, DaemonFiles DEF SockPcs
      <4>. QED
        BY <4>1 DEF SockPcs
    <3>2. CASE dm[d].pc \notin {"pid", "bind"}
      <4>1. pid' = pid
        BY <3>2, DaemonFiles
      <4>2. CASE pid # d
        BY <1>1, <1>3, <2>1, <4>1, <4>2
      <4>3. CASE pid = d
        BY <1>3, <2>1, <4>1, <4>3, DaemonFiles DEF SockPcs
      <4>. QED
        BY <4>2, <4>3
    <3>. QED
      BY <3>1, <3>2
  <2>. QED
    BY <1>4, <1>5, <2>2, <2>3 DEF FilesInv
<1>. QED
  BY <1>6, <1>7

LEMMA WorkerKeepsFiles ==
  ASSUME TypeOK, WaitInv, FilesInv, WorkerMove
  PROVE  WaitInv' /\ FilesInv'
<1>1. /\ cl' = cl /\ sock' = sock /\ pid' = pid /\ Starts' = Starts
      /\ \A d \in Daemons : dm'[d].pc = dm[d].pc /\ dm'[d].says = dm[d].says /\ (Alive(d)' <=> Alive(d))
  BY SettingKept, AliveNext DEF WorkerMove, SameSetting, Alive
<1>2. WaitInv'
  BY <1>1 DEF WaitInv
<1>3. Stale => Stale'
  BY <1>1, DaemonsType DEF Stale
<1>4. sock \in Daemons \cup {NoOne} /\ pid \in Daemons \cup {NoOne}
  BY DaemonsAre
<1>5. FilesInv'
  BY <1>1, <1>3, <1>4 DEF FilesInv
<1>. QED
  BY <1>2, <1>5

-----------------------------------------------------------------------------
(* The theorems *)

LEMMA InvNext == Inv /\ [Next]_vars => Inv'
<1>. SUFFICES ASSUME Inv, [Next]_vars PROVE Inv'
  OBVIOUS
<1>1. TypeOK /\ ClientInv /\ SaysInv /\ StartInv /\ ConnsInv
  BY DEF Inv
<1>2. ASSUME UNCHANGED setting
      PROVE  Orderly' = Orderly /\ Undisturbed' = Undisturbed
  BY <1>2, SettingKept DEF SameSetting
<1>3. ASSUME NEW c \in Clients, ClientStep(c) \/ KillClient(c)
      PROVE  Inv'
  <2>1. ClientMove(c) /\ UNCHANGED setting
    BY <1>1, <1>3, ClientMoves DEF ClientMove
  <2>2. TypeOK' /\ ClientInv' /\ SaysInv' /\ StartInv' /\ ConnsInv'
    BY <1>1, <2>1, ClientKeepsType, ClientKeepsClientInv, ClientKeepsSaysInv, ClientKeepsStartInv,
       ClientKeepsConnsInv
  <2>3. Orderly => OrderlyInv'
    BY <1>1, <2>1, ClientKeepsOrderly DEF Inv
  <2>4. Undisturbed => WaitInv' /\ FilesInv'
    BY <1>1, <2>1, ClientKeepsWaitInv, ClientKeepsFilesInv DEF Inv
  <2>. QED
    BY <1>2, <2>1, <2>2, <2>3, <2>4 DEF Inv
<1>4. ASSUME NEW d \in Daemons, ServeStep(d) \/ KillDaemon(d)
      PROVE  Inv'
  <2>1. DaemonMove(d) /\ UNCHANGED <<setting, lock, cl>>
    BY <1>1, <1>4, DaemonMoves DEF DaemonMove
  <2>2. TypeOK' /\ ClientInv' /\ SaysInv' /\ StartInv' /\ ConnsInv'
    BY <1>1, <2>1, DaemonKeepsType, OthersKeepClientInv, DaemonKeepsSaysInv, DaemonKeepsStartInv,
       OthersKeepConnsInv
  <2>3. Orderly => OrderlyInv'
    BY <1>1, <2>1, DaemonKeepsOrderly DEF Inv
  <2>4. Undisturbed => WaitInv' /\ FilesInv'
    BY <1>1, <2>1, DaemonKeepsWaitInv, DaemonKeepsFilesInv DEF Inv
  <2>. QED
    BY <1>2, <2>1, <2>2, <2>3, <2>4 DEF Inv
<1>5. ASSUME NEW k \in conns, WorkerStep(k)
      PROVE  Inv'
  <2>1. WorkerMove /\ UNCHANGED <<setting, lock, cl>>
    BY <1>1, <1>5, WorkerMoves DEF WorkerMove
  <2>2. TypeOK' /\ ClientInv' /\ SaysInv' /\ StartInv' /\ ConnsInv'
    BY <1>1, <2>1, WorkerKeepsType, OthersKeepClientInv, WorkerKeepsDaemons, OthersKeepConnsInv
  <2>3. Orderly => OrderlyInv'
    BY <1>1, <2>1, WorkerKeepsOrderly DEF Inv
  <2>4. Undisturbed => WaitInv' /\ FilesInv'
    BY <1>1, <2>1, WorkerKeepsFiles DEF Inv
  <2>. QED
    BY <1>2, <2>1, <2>2, <2>3, <2>4 DEF Inv
<1>6. ASSUME UNCHANGED <<setting, sock, pid, lock, dm, cl, conns>>,
             identity' \in Identities, upgrades' \in 0..MaxUpgrades
      PROVE  Inv'
  <2>1. TypeOK'
    BY <1>1, <1>6, TypeNext, ClientsType, DaemonsAre, ConnsType
  <2>2. CallOf' = CallOf /\ Mortal' = Mortal /\ Starts' = Starts
    BY <1>6, SettingKept DEF SameSetting
  <2>3. ClientInv' /\ SaysInv' /\ StartInv' /\ ConnsInv'
    BY <1>1, <1>6, <2>2 DEF ClientInv, Holding, SaysInv, StartInv, StartingNow, Parent, ConnsInv
  <2>4. OrderlyInv => OrderlyInv'
    BY <1>6 DEF OrderlyInv, Alive
  <2>5. WaitInv /\ FilesInv => WaitInv' /\ FilesInv'
    BY <1>6, <2>2 DEF WaitInv, FilesInv, Stale, Alive
  <2>. QED
    BY <1>2, <1>6, <2>1, <2>3, <2>4, <2>5 DEF Inv
<1>7. CASE Upgrade
  <2>1. MaxUpgrades \in Nat /\ upgrades \in 0..MaxUpgrades
    BY <1>1, SettingType, ClientsType, IdentityType
  <2>2. identity' \in Identities /\ upgrades' \in 0..MaxUpgrades
    BY <1>7, <2>1 DEF Upgrade
  <2>. QED
    BY <1>6, <1>7, <2>2 DEF Upgrade
<1>8. CASE UNCHANGED vars
  BY <1>1, <1>6, <1>8, IdentityType DEF vars
<1>. QED
  BY <1>3, <1>4, <1>5, <1>7, <1>8 DEF Next, Finished

LEMMA InvHolds == Spec => []Inv
BY InitInv, InvNext, PTL DEF Spec

(* Every variable keeps its type.                                            *)
THEOREM TypeCorrect == Spec => []TypeOK
<1>1. Inv => TypeOK
  BY DEF Inv
<1>. QED
  BY <1>1, InvHolds, PTL

(* One daemon starts at a time, and the daemons of a project agree on which  *)
(* of them is at work: for any number of hook processes, daemons, upgrades   *)
(* and attempts, with late answers, failing starts and killed processes      *)
(* (connect, _spawn_daemon, _serve, _handle_connection).                     *)
THEOREM NoDaemonIsDoubled == Spec => []DaemonsAgree
<1>1. Inv => DaemonsAgree
  <2>. SUFFICES ASSUME Inv PROVE DaemonsAgree
    OBVIOUS
  <2>1. OneStarting
    BY OneStarts DEF Inv
  <2>2. NoCompetitors
    BY DEF Inv, NoCompetitors, OrderlyInv
  <2>3. SocketCredited
    <3>. SUFFICES ASSUME OrderlyInv, sock # NoOne, dm[sock].pc \in Listening PROVE pid = sock
      BY DEF Inv, SocketCredited
    <3>1. sock \in Daemons
      BY DaemonsAre DEF Inv
    <3>2. Alive(sock) /\ dm[sock].pc \notin {"unlink", "session", "pid"}
      BY DEF Alive, Listening
    <3>. QED
      BY <3>1, <3>2 DEF OrderlyInv
  <2>4. SessionMatches
    BY DEF Inv, ConnsInv, SessionMatches, Mine
  <2>. QED
    BY <2>1, <2>2, <2>3, <2>4 DEF DaemonsAgree, Inv
<1>. QED
  BY <1>1, InvHolds, PTL

(* The daemon that takes connections is the one clients find at the socket   *)
(* path (_serve, _cleanup_if_still_owned).                                   *)
THEOREM ServingIsReachable == Spec => []Reachable
<1>1. Inv => Reachable
  BY DEF Inv, Reachable, OrderlyInv
<1>. QED
  BY <1>1, InvHolds, PTL

(* When all processes have ended without a timeout or a kill, the socket and *)
(* the pidfile are gone, whoever replaced or probed whom                     *)
(* (_cleanup_if_still_owned, _cleanup_confirmed_dead_daemon).                *)
THEOREM FilesAreRemoved == Spec => []NothingLeft
<1>1. Inv => NothingLeft
  <2>. SUFFICES ASSUME TypeOK, FilesInv, Quiet PROVE sock = NoOne /\ pid = NoOne
    BY DEF Inv, NothingLeft, Undisturbed
  <2>1. \A d \in Daemons : dm[d].pc \in {"unborn", "gone"}
    BY DEF Quiet, Alive
  <2>2. ~Stale
    <3>. SUFFICES ASSUME Stale PROVE FALSE
      OBVIOUS
    <3>1. PICK c \in Clients : cl[c].pc = "done"
      BY TyDaemonAssumption DEF Quiet
    <3>2. sock = NoOne
      BY <3>1 DEF Stale
    <3>. QED
      BY <3>2 DEF Stale, Quiet
  <2>3. sock \in Daemons \cup {NoOne} /\ pid \in Daemons \cup {NoOne}
    BY DaemonsAre
  <2>. QED
    BY <2>1, <2>2, <2>3 DEF FilesInv, SockPcs
<1>. QED
  BY <1>1, InvHolds, PTL

=============================================================================
