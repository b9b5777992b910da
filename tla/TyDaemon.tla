------------------------------ MODULE TyDaemon ------------------------------
(***************************************************************************)
(* The life cycle of the `ty` daemon of redundant-type-conversion: how     *)
(* hook processes find, start, replace and stop it through three files     *)
(* beside each other - the Unix socket, the pidfile and the spawn lock     *)
(* (daemon.py; _filelock.locked).  A file is represented by the process    *)
(* that made it.  What is said over an established connection is left to   *)
(* TySession: here it lasts until the client closes it.                    *)
(***************************************************************************)
EXTENDS Naturals

CONSTANTS
  Clients,      \* hook processes
  MaxDaemons,   \* daemon processes that may be started
  Settings      \* by name, what the processes do and what may happen to them, see below

NoOne == 0
Daemons == 1..MaxDaemons        \* process ids, given in order, never reused

ASSUME TyDaemonAssumption ==
  /\ Clients # {} /\ Clients \cap Nat = {}
  /\ MaxDaemons \in Nat \ {0}
  /\ \A s \in {Settings[n] : n \in DOMAIN Settings} :
       /\ s.calls \in [Clients -> {"connect", "probe", "shutdown"}]
       /\ s.identities # {} /\ s.upgrades \in Nat /\ s.tries \in Nat \ {0}
       /\ {s.slow, s.faulty} \subseteq BOOLEAN
       /\ s.mortal \subseteq Clients \cup Daemons
       /\ s.starts \subseteq {"none", "running", "stale"}

VARIABLES
  setting,      \* the setting of this behaviour
  identity,     \* what _daemon_identity returns now
  upgrades,     \* how often it changed
  sock,         \* the process whose socket is at the socket path
  pid,          \* the process the pidfile names
  lock,         \* the client that holds the spawn lock
  dm,           \* the daemon processes
  cl,           \* the hook processes
  conns         \* the connections made

vars == <<setting, identity, upgrades, sock, pid, lock, dm, cl, conns>>

CallOf      == Settings[setting].calls        \* "connect", "probe" (probe_existing) or "shutdown"
Identities  == Settings[setting].identities   \* values of _daemon_identity: ty version, protocol, context
MaxUpgrades == Settings[setting].upgrades     \* how often the identity may change under the processes
MaxTries    == Settings[setting].tries        \* attempts that fit in the busy-daemon budget
Slow        == Settings[setting].slow         \* may an answer be later than the timeout of who waits?
Faulty      == Settings[setting].faulty       \* may starting ty or its self-test fail?
Mortal      == Settings[setting].mortal       \* the processes that may be killed from outside
Starts      == Settings[setting].starts       \* what is there at first: "none", "running", "stale"

-----------------------------------------------------------------------------
(* Processes and connections *)

Starting  == {"unlink", "session", "pid", "bind", "listen", "ready"}
Listening == {"ready", "head", "accept", "join", "close", "closing"}
Leaving   == {"join", "close", "closing", "own", "unsock", "unpid"}
DaemonPcs == Starting \cup Listening \cup Leaving \cup {"unborn", "gone"}

ClientPcs == {"idle", "try", "wait", "lock", "alive", "spawn", "await", "kill",
              "unsock", "unpid", "have", "confirm", "done"}
Places    == {"first", "locked", "busy", "after"}
Outcomes  == {"session", "busy", "unreachable", "failed", "none", "killed"}

NewDaemon(pc) == [pc |-> pc, id |-> CHOOSE i \in Identities : TRUE,
                  says |-> "nothing", asked |-> FALSE]
NewClient == [pc |-> "idle", id |-> CHOOSE i \in Identities : TRUE, at |-> "first",
              tries |-> 0, departing |-> FALSE, child |-> NoOne, result |-> "none"]

Alive(d) == dm[d].pc \notin {"unborn", "gone"}

(* _daemon_process_is_alive *)
RecordedAlive == pid # NoOne /\ Alive(pid)

(* A connection: who made it with which identity, the daemon it reached,    *)
(* what the daemon did with it, and whether the client closed its end.      *)
Mine(c)    == {k \in conns : k.c = c /\ ~k.shut}
Workers(d) == {k \in conns : k.d = d /\ k.st \in {"accepted", "ok"}}
Queue(d)   == {k \in conns : k.d = d /\ k.st = "queued"}

Turn(k, st) == (conns \ {k}) \cup {[k EXCEPT !.st = st]}

(* The client closes what it has open. *)
Shut(c) == {IF k.c = c THEN [k EXCEPT !.shut = TRUE] ELSE k : k \in conns}

(* The end of a process: what it had not answered is reset. *)
Reset(d) == {IF k.d = d /\ k.st # "ended" THEN [k EXCEPT !.st = "lost"] ELSE k : k \in conns}

(* Connections nobody looks at any more are forgotten. *)
Live(ks) == {k \in ks : ~(k.shut /\ k.st \in {"ended", "lost"})}

-----------------------------------------------------------------------------
(* Initial states: no daemon yet, one at work, or the files one left when   *)
(* it was killed.                                                           *)

Init ==
  /\ setting \in DOMAIN Settings
  /\ identity \in Identities /\ upgrades = 0 /\ lock = NoOne
  /\ cl = [c \in Clients |-> NewClient] /\ conns = {}
  /\ \E s \in Starts :
       IF s = "none"
       THEN sock = NoOne /\ pid = NoOne /\ dm = [d \in Daemons |-> NewDaemon("unborn")]
       ELSE /\ sock = 1 /\ pid = 1
            /\ \E i \in Identities :
                 dm = [d \in Daemons |->
                        IF d > 1 THEN NewDaemon("unborn")
                        ELSE [NewDaemon(IF s = "running" THEN "head" ELSE "gone")
                                EXCEPT !.id = i, !.says = "READY"]]

-----------------------------------------------------------------------------
(* The client: connect, probe_existing, shutdown_if_running *)

Goto(c, pc) == cl' = [cl EXCEPT ![c].pc = pc]
Release(c) == lock' = IF lock = c THEN NoOne ELSE lock

(* The call ends, `with locked(...)` is left. *)
Finish(c, result) ==
  /\ cl' = [cl EXCEPT ![c].pc = IF result = "session" THEN "have" ELSE "done",
                      ![c].result = result]
  /\ Release(c)

(* The identity is computed, which may fail when ty is missing, and the       *)
(* first attempt follows.                                                    *)
Identify(c) ==
  \/ cl' = [cl EXCEPT ![c].pc = "try", ![c].id = identity] /\ UNCHANGED lock
  \/ Faulty /\ Finish(c, "failed")

BeginConnect(c) ==
  /\ cl[c].pc = "idle" /\ CallOf[c] = "connect" /\ Identify(c)
  /\ UNCHANGED <<setting, identity, upgrades, sock, pid, dm, conns>>

BeginProbe(c) ==
  /\ cl[c].pc = "idle" /\ CallOf[c] # "connect"
  /\ IF sock = NoOne THEN Finish(c, "none") ELSE Identify(c)
  /\ UNCHANGED <<setting, identity, upgrades, sock, pid, dm, conns>>

(* Mutant: the busy-daemon budget is never used up. *)
TriedForever(c) == cl[c].tries

(* Mutant: each attempt counts twice. *)
TriedTwice(c) == cl[c].tries + 2

(* _wait_for_busy_daemon: the time to the deadline, in attempts *)
Tried(c) == cl[c].tries + 1

(* _wait_for_busy_daemon after an attempt without a session: departing ends  *)
(* it, so does the deadline.                                                 *)
WaitOn(c, out, departing, exhausted) ==
  \/ out = "departing" /\ departing
  \/ out = "none" /\ cl[c].tries # MaxTries /\ UNCHANGED lock
     /\ cl' = [cl EXCEPT ![c].pc = "try", ![c].at = "busy", ![c].tries = Tried(c)]
  \/ out = "none" /\ cl[c].tries = MaxTries /\ exhausted

(* What connect does after an attempt that ended with "departing" or "none": *)
(* once told that the daemon departs it never takes it for busy again.       *)
ConnectGoesOn(c, out) ==
  LET told == cl[c].departing \/ out = "departing"
      step(pc) == cl' = [cl EXCEPT ![c].pc = pc, ![c].departing = told] /\ UNCHANGED lock
  IN  \/ cl[c].at = "first" /\ step("lock")
      \/ cl[c].at = "locked" /\ step(IF told THEN "spawn" ELSE "alive")
      \/ cl[c].at = "busy" /\ WaitOn(c, out, step("spawn"), Finish(c, "busy"))
      \/ cl[c].at = "after" /\ Finish(c, "unreachable")

ProbeGoesOn(c, out) ==
  \/ cl[c].at = "first" /\ out = "departing" /\ Finish(c, "none")
  \/ cl[c].at = "first" /\ out = "none" /\ Goto(c, "alive") /\ UNCHANGED lock
  \/ cl[c].at = "busy" /\ WaitOn(c, out, Finish(c, "none"), Finish(c, "none"))

Answered(c, out) ==
  IF out = "session" THEN Finish(c, "session")
  ELSE IF CallOf[c] = "connect" THEN ConnectGoesOn(c, out) ELSE ProbeGoesOn(c, out)

(* _try_connect up to the handshake it writes: without a listening socket   *)
(* at the path it returns None.                                             *)
TryConnect(c) ==
  /\ cl[c].pc = "try"
  /\ IF sock # NoOne /\ dm[sock].pc \in Listening
     THEN /\ conns' = conns \cup {[c |-> c, n |-> cl[c].tries, at |-> cl[c].at, d |-> sock,
                                   id |-> cl[c].id, st |-> "queued", shut |-> FALSE]}
          /\ Goto(c, "wait") /\ UNCHANGED lock
     ELSE Answered(c, "none") /\ UNCHANGED conns
  /\ UNCHANGED <<setting, identity, upgrades, sock, pid, dm>>

(* _try_connect, the rest: the answer, the end of the connection, or the    *)
(* timeout.                                                                 *)
HearAnswer(c) ==
  /\ cl[c].pc = "wait"
  /\ \E k \in Mine(c) :
       \/ k.st = "ok" /\ Answered(c, "session") /\ UNCHANGED conns
       \/ k.st = "ended" /\ Answered(c, "departing") /\ conns' = Live(Shut(c))
       \/ k.st = "lost" /\ Answered(c, "none") /\ conns' = Live(Shut(c))
       \/ Slow /\ k.st \in {"queued", "accepted"} /\ Answered(c, "none") /\ conns' = Live(Shut(c))
  /\ UNCHANGED <<setting, identity, upgrades, sock, pid, dm>>

(* Mutant: the lock is not exclusive. *)
TakeLockShared(c) ==
  /\ cl[c].pc = "lock" /\ lock' = c
  /\ cl' = [cl EXCEPT ![c].pc = "try", ![c].at = "locked"]
  /\ UNCHANGED <<setting, identity, upgrades, sock, pid, dm, conns>>

(* locked(spawn lock): taken, or given up after its timeout. *)
TakeLock(c) ==
  /\ cl[c].pc = "lock"
  /\ \/ /\ lock = NoOne /\ lock' = c
        /\ cl' = [cl EXCEPT ![c].pc = "try", ![c].at = "locked"]
     \/ Slow /\ lock # NoOne /\ Finish(c, "failed")
  /\ UNCHANGED <<setting, identity, upgrades, sock, pid, dm, conns>>

(* Mutant: connect does not look at the pidfile. *)
CheckAliveSkipped(c) ==
  /\ cl[c].pc = "alive"
  /\ Goto(c, IF CallOf[c] = "connect" THEN "spawn" ELSE "unsock")
  /\ UNCHANGED <<setting, identity, upgrades, sock, pid, lock, dm, conns>>

(* if not daemon_is_departing and _daemon_process_is_alive(root) *)
CheckAlive(c) ==
  /\ cl[c].pc = "alive"
  /\ IF RecordedAlive
     THEN cl' = [cl EXCEPT ![c].pc = "try", ![c].at = "busy", ![c].tries = 1]
     ELSE Goto(c, IF CallOf[c] = "connect" THEN "spawn" ELSE "unsock")
  /\ UNCHANGED <<setting, identity, upgrades, sock, pid, lock, dm, conns>>

(* _spawn_daemon: Popen *)
Spawn(c) ==
  /\ cl[c].pc = "spawn"
  /\ \E d \in Daemons :
       /\ dm[d].pc = "unborn" /\ \A e \in Daemons : dm[e].pc = "unborn" => d <= e
       /\ dm' = [dm EXCEPT ![d].pc = "unlink"]
       /\ cl' = [cl EXCEPT ![c].pc = "await", ![c].child = d]
  /\ UNCHANGED <<setting, identity, upgrades, sock, pid, lock, conns>>

(* _await_ready: READY, another line, the end of the output, or the timeout *)
AwaitReady(c) ==
  /\ cl[c].pc = "await"
  /\ LET d == dm[cl[c].child]
     IN  \/ d.says = "READY" /\ cl' = [cl EXCEPT ![c].pc = "try", ![c].at = "after"]
         \/ d.says = "FAILED" /\ Goto(c, "kill")
         \/ d.says = "nothing" /\ (Slow \/ d.pc = "gone") /\ Goto(c, "kill")
  /\ UNCHANGED <<setting, identity, upgrades, sock, pid, lock, dm, conns>>

(* Mutant: a start that takes too long is given up but not killed. *)
KillSpawnAttemptForgotten(c) ==
  /\ cl[c].pc = "kill" /\ Finish(c, "failed")
  /\ UNCHANGED <<setting, identity, upgrades, sock, pid, dm, conns>>

(* _kill_spawn_attempt: the process gets SIGTERM, then SIGKILL, and is      *)
(* waited for; the default action of SIGTERM runs no clean-up.              *)
KillSpawnAttempt(c) ==
  /\ cl[c].pc = "kill"
  /\ dm' = [dm EXCEPT ![cl[c].child].pc = "gone"]
  /\ conns' = Live(Reset(cl[c].child))
  /\ Finish(c, "failed")
  /\ UNCHANGED <<setting, identity, upgrades, sock, pid>>

(* _cleanup_confirmed_dead_daemon in probe_existing, one unlink at a time *)
ProbeUnlinksSocket(c) ==
  /\ cl[c].pc = "unsock" /\ sock' = NoOne /\ Goto(c, "unpid")
  /\ UNCHANGED <<setting, identity, upgrades, pid, lock, dm, conns>>

ProbeUnlinksPid(c) ==
  /\ cl[c].pc = "unpid" /\ pid' = NoOne /\ Finish(c, "none")
  /\ UNCHANGED <<setting, identity, upgrades, sock, dm, conns>>

(* The session is used and closed; shutdown_if_running asks for the         *)
(* shutdown first and then waits for the socket to disappear.  A session    *)
(* the daemon dropped is closed the same way.                               *)
Disconnect(c) ==
  /\ cl[c].pc = "have"
  /\ \E k \in Mine(c) :
       /\ conns' = Live({IF j = k THEN [k EXCEPT !.shut = TRUE,
                                                  !.st = IF CallOf[c] = "shutdown" /\ @ = "ok"
                                                         THEN "ended" ELSE @] ELSE j : j \in conns})
       /\ IF CallOf[c] = "shutdown" /\ k.st = "ok"
          THEN dm' = [dm EXCEPT ![k.d].asked = TRUE] ELSE UNCHANGED dm
  /\ Goto(c, IF CallOf[c] = "shutdown" THEN "confirm" ELSE "done")
  /\ UNCHANGED <<setting, identity, upgrades, sock, pid, lock>>

(* The wait for the socket to disappear ends at its deadline all the same. *)
ConfirmShutdown(c) ==
  /\ cl[c].pc = "confirm" /\ Goto(c, "done")
  /\ UNCHANGED <<setting, identity, upgrades, sock, pid, lock, dm, conns>>

-----------------------------------------------------------------------------
(* The daemon: _serve, _accept_loop and its workers *)

DGoto(d, pc) == dm' = [dm EXCEPT ![d].pc = pc]

(* Mutant: the pidfile is not claimed. *)
ServeWritesPidForgotten(d) ==
  /\ dm[d].pc = "pid" /\ DGoto(d, "bind")
  /\ UNCHANGED <<setting, identity, upgrades, sock, pid, lock, cl, conns>>

ServeUnlinks(d) ==
  /\ dm[d].pc = "unlink" /\ sock' = NoOne /\ DGoto(d, "session")
  /\ UNCHANGED <<setting, identity, upgrades, pid, lock, cl, conns>>

(* The identity, TySession(keep_open=True) and the self-test, or FAILED. *)
ServeStartsSession(d) ==
  /\ dm[d].pc = "session"
  /\ \/ dm' = [dm EXCEPT ![d].pc = "pid", ![d].id = identity]
     \/ Faulty /\ dm' = [dm EXCEPT ![d].pc = "gone", ![d].says = "FAILED"]
  /\ UNCHANGED <<setting, identity, upgrades, sock, pid, lock, cl, conns>>

ServeWritesPid(d) ==
  /\ dm[d].pc = "pid" /\ pid' = d /\ DGoto(d, "bind")
  /\ UNCHANGED <<setting, identity, upgrades, sock, lock, cl, conns>>

(* bind fails when the path exists, whoever made it; the pidfile is then    *)
(* unlinked without a look at it.                                           *)
ServeBinds(d) ==
  /\ dm[d].pc = "bind"
  /\ IF sock = NoOne
     THEN sock' = d /\ DGoto(d, "listen") /\ UNCHANGED pid
     ELSE /\ pid' = NoOne /\ UNCHANGED sock
          /\ dm' = [dm EXCEPT ![d].pc = "gone", ![d].says = "FAILED"]
  /\ UNCHANGED <<setting, identity, upgrades, lock, cl, conns>>

ServeListens(d) ==
  /\ dm[d].pc = "listen" /\ DGoto(d, "ready")
  /\ UNCHANGED <<setting, identity, upgrades, sock, pid, lock, cl, conns>>

(* READY; when the client that started it was killed, printing to the       *)
(* closed pipe ends the process before it enters its try block.             *)
ServeReady(d) ==
  /\ dm[d].pc = "ready"
  /\ IF \E c \in Clients : cl[c].child = d /\ cl[c].result = "killed"
     THEN DGoto(d, "gone") /\ conns' = Live(Reset(d))
     ELSE dm' = [dm EXCEPT ![d].pc = "head", ![d].says = "READY"] /\ UNCHANGED conns
  /\ UNCHANGED <<setting, identity, upgrades, sock, pid, lock, cl>>

(* while not shutdown_requested.is_set() *)
LoopHead(d) ==
  /\ dm[d].pc = "head" /\ DGoto(d, IF dm[d].asked THEN "join" ELSE "accept")
  /\ UNCHANGED <<setting, identity, upgrades, sock, pid, lock, cl, conns>>

Accept(d) ==
  /\ dm[d].pc = "accept" /\ DGoto(d, "head")
  /\ \E k \in Queue(d) : conns' = Turn(k, "accepted")
  /\ UNCHANGED <<setting, identity, upgrades, sock, pid, lock, cl>>

(* accept() timed out: back to the loop's head, or out of it when there is  *)
(* no worker and the idle deadline has passed.                              *)
AcceptTimesOut(d) ==
  /\ dm[d].pc = "accept" /\ Queue(d) = {} /\ DGoto(d, "head")
  /\ UNCHANGED <<setting, identity, upgrades, sock, pid, lock, cl, conns>>

(* Mutant: every poll of accept() renews the idle deadline. *)
IdleExitPostponed(d) ==
  /\ dm[d].pc = "accept" /\ Queue(d) = {} /\ Workers(d) = {} /\ DGoto(d, "head")
  /\ UNCHANGED <<setting, identity, upgrades, sock, pid, lock, cl, conns>>

IdleExit(d) ==
  /\ dm[d].pc = "accept" /\ Queue(d) = {} /\ Workers(d) = {} /\ DGoto(d, "close")
  /\ UNCHANGED <<setting, identity, upgrades, sock, pid, lock, cl, conns>>

(* Mutant: the handshake does not compare the identities. *)
HandshakeUnchecked(k) ==
  /\ k.st = "accepted" /\ conns' = Live(Turn(k, IF k.shut THEN "lost" ELSE "ok"))
  /\ UNCHANGED <<setting, identity, upgrades, sock, pid, lock, dm, cl>>

(* _handle_connection, the handshake.  It was written before the client     *)
(* could close, so it is read even then, but the answer to it fails.        *)
Handshake(k) ==
  /\ k.st = "accepted"
  /\ \/ k.shut /\ conns' = Live(Turn(k, "lost")) /\ UNCHANGED dm
     \/ ~k.shut /\ k.id = dm[k.d].id /\ conns' = Turn(k, "ok") /\ UNCHANGED dm
     \/ /\ ~k.shut /\ k.id # dm[k.d].id /\ conns' = Turn(k, "ended")
        /\ dm' = [dm EXCEPT ![k.d].asked = TRUE]
  /\ UNCHANGED <<setting, identity, upgrades, sock, pid, lock, cl>>

(* The worker ends: the client closed the connection, or said nothing for   *)
(* the request timeout.                                                     *)
WorkerEnds(k) ==
  /\ k.st = "ok" /\ (k.shut \/ Slow) /\ conns' = Live(Turn(k, "lost"))
  /\ UNCHANGED <<setting, identity, upgrades, sock, pid, lock, dm, cl>>

JoinWorkers(d) ==
  /\ dm[d].pc = "join" /\ Workers(d) = {} /\ DGoto(d, "close")
  /\ UNCHANGED <<setting, identity, upgrades, sock, pid, lock, cl, conns>>

CloseSession(d) ==
  /\ dm[d].pc = "close" /\ DGoto(d, "closing")
  /\ UNCHANGED <<setting, identity, upgrades, sock, pid, lock, cl, conns>>

(* sock.close(): the connections nobody accepted are reset. *)
CloseSocket(d) ==
  /\ dm[d].pc = "closing" /\ DGoto(d, "own") /\ conns' = Live(Reset(d))
  /\ UNCHANGED <<setting, identity, upgrades, sock, pid, lock, cl>>

(* Mutant: a pidfile that names the process itself is taken for foreign. *)
CheckOwnedInverted(d) ==
  /\ dm[d].pc = "own" /\ DGoto(d, IF pid = NoOne THEN "unsock" ELSE "gone")
  /\ UNCHANGED <<setting, identity, upgrades, sock, pid, lock, cl, conns>>

(* _cleanup_if_still_owned: the pidfile is read, then both are unlinked. *)
CheckOwned(d) ==
  /\ dm[d].pc = "own" /\ DGoto(d, IF pid \in {d, NoOne} THEN "unsock" ELSE "gone")
  /\ UNCHANGED <<setting, identity, upgrades, sock, pid, lock, cl, conns>>

UnlinkSocket(d) ==
  /\ dm[d].pc = "unsock" /\ sock' = NoOne /\ DGoto(d, "unpid")
  /\ UNCHANGED <<setting, identity, upgrades, pid, lock, cl, conns>>

UnlinkPid(d) ==
  /\ dm[d].pc = "unpid" /\ pid' = NoOne /\ DGoto(d, "gone")
  /\ UNCHANGED <<setting, identity, upgrades, sock, lock, cl, conns>>

-----------------------------------------------------------------------------
(* The environment: an upgrade of ty, and processes killed from outside *)

Upgrade ==
  /\ upgrades < MaxUpgrades /\ upgrades' = upgrades + 1
  /\ \E i \in Identities \ {identity} : identity' = i
  /\ UNCHANGED <<setting, sock, pid, lock, dm, cl, conns>>

KillDaemon(d) ==
  /\ d \in Mortal /\ Alive(d) /\ DGoto(d, "gone") /\ conns' = Live(Reset(d))
  /\ UNCHANGED <<setting, identity, upgrades, sock, pid, lock, cl>>

(* flock goes with the process; a daemon it was starting lives on. *)
KillClient(c) ==
  /\ c \in Mortal /\ cl[c].pc \notin {"idle", "done"}
  /\ Finish(c, "killed") /\ conns' = Live(Shut(c))
  /\ UNCHANGED <<setting, identity, upgrades, sock, pid, dm>>

Quiet == (\A c \in Clients : cl[c].pc = "done") /\ \A d \in Daemons : ~Alive(d)

Finished == Quiet /\ UNCHANGED vars

ClientStep(c) ==
  \/ BeginConnect(c) \/ BeginProbe(c) \/ TryConnect(c) \/ HearAnswer(c) \/ TakeLock(c) \/ CheckAlive(c)
  \/ Spawn(c) \/ AwaitReady(c) \/ KillSpawnAttempt(c) \/ ProbeUnlinksSocket(c)
  \/ ProbeUnlinksPid(c) \/ Disconnect(c) \/ ConfirmShutdown(c)

ServeStep(d) ==
  \/ ServeUnlinks(d) \/ ServeStartsSession(d) \/ ServeWritesPid(d) \/ ServeBinds(d)
  \/ ServeListens(d) \/ ServeReady(d) \/ LoopHead(d) \/ Accept(d) \/ AcceptTimesOut(d)
  \/ IdleExit(d) \/ JoinWorkers(d) \/ CloseSession(d) \/ CloseSocket(d) \/ CheckOwned(d)
  \/ UnlinkSocket(d) \/ UnlinkPid(d)

WorkerStep(k) == Handshake(k) \/ WorkerEnds(k)

Next ==
  \/ \E c \in Clients : ClientStep(c) \/ KillClient(c)
  \/ \E d \in Daemons : ServeStep(d) \/ KillDaemon(d)
  \/ \E k \in conns : WorkerStep(k)
  \/ Upgrade
  \/ Finished

Spec == Init /\ [][Next]_vars

(* Every process that can go on does; time passes, so a daemon whose accept  *)
(* times out again and again with nobody connected meets its idle deadline.  *)
Fairness ==
  /\ \A c \in Clients : WF_vars(ClientStep(c))
  /\ \A d \in Daemons : WF_vars(ServeStep(d)) /\ SF_vars(IdleExit(d))
  /\ WF_vars(\E k \in conns : WorkerStep(k))

FairSpec == Spec /\ Fairness

-----------------------------------------------------------------------------
(* Properties *)

TypeOK ==
  /\ setting \in DOMAIN Settings
  /\ identity \in Identities /\ upgrades \in 0..MaxUpgrades
  /\ {sock, pid} \subseteq Daemons \cup {NoOne} /\ lock \in Clients \cup {NoOne}
  /\ dm \in [Daemons -> [pc : DaemonPcs, id : Identities, asked : BOOLEAN,
                          says : {"nothing", "READY", "FAILED"}]]
  /\ cl \in [Clients -> [pc : ClientPcs, id : Identities, at : Places, tries : 0..MaxTries,
                          departing : BOOLEAN, child : Daemons \cup {NoOne}, result : Outcomes]]
  /\ conns \subseteq [c : Clients, n : 0..MaxTries, at : Places, d : Daemons, id : Identities,
                      st : {"queued", "accepted", "ok", "ended", "lost"}, shut : BOOLEAN]

StartingNow == {d \in Daemons : dm[d].pc \in Starting}

Connecting == {c \in Clients : CallOf[c] = "connect"}

\* Nobody who may start a daemon is killed while somebody else may start one.
SpawnersLive == \A c \in Connecting \cap Mortal : Connecting = {c}

\* No daemon is replaced, nobody probes, and no client is killed.
Orderly ==
  /\ \A i, j \in Identities : i = j
  /\ Connecting = Clients /\ Clients \cap Mortal = {}

(* The spawn lock is held over the whole start: no two daemons start at the  *)
(* same time, even when a start takes too long and is killed (connect,       *)
(* _spawn_daemon, _kill_spawn_attempt).  The lock of a client that is killed *)
(* goes with it, the daemon it was starting does not.                        *)
OneStarting == SpawnersLive => \A d, e \in StartingNow : d = e

(* A daemon that is alive but answers nobody in time, or is on its way out,  *)
(* is waited for and never doubled, though daemons may be killed (connect,   *)
(* _daemon_process_is_alive).                                                *)
NoCompetitors == Orderly => \A d, e \in Daemons : Alive(d) /\ Alive(e) => d = e

(* A daemon that takes connections is the one at the socket path: as long as *)
(* no daemon is replaced and nobody probes, nobody unlinks the socket of one *)
(* that still serves (_serve, cleanup).                                      *)
Reachable == Orderly => \A d \in Daemons : dm[d].pc \in Listening => sock = d

(* A session given to a client is one with a daemon that was started with    *)
(* the client's own identity, whatever was upgraded or replaced meanwhile    *)
(* (_handle_connection, _try_connect).                                       *)
SessionMatches ==
  \A c \in Clients : \A k \in Mine(c) : cl[c].pc = "have" => k.id = dm[k.d].id

(* The pidfile is claimed before the socket is bound and given up after the  *)
(* socket: a socket that listens is beside a pidfile that names its own      *)
(* daemon (_serve, _cleanup_if_still_owned).                                 *)
SocketCredited == Orderly /\ sock # NoOne /\ dm[sock].pc \in Listening => pid = sock

(* When all calls and all daemons have ended by themselves, neither the      *)
(* socket nor the pidfile is left, replacements and probes included.  Only a *)
(* dead daemon's files stay when the start that should replace it fails.     *)
NothingLeft ==
  Quiet /\ ~Slow /\ Mortal = {} /\ (Faulty => "stale" \notin Starts) => sock = NoOne /\ pid = NoOne

(* The daemons of one project do not get in each other's way: one start at a *)
(* time, one that serves, a socket the pidfile vouches for, and no session   *)
(* with a daemon of another version.                                         *)
DaemonsAgree == TypeOK /\ OneStarting /\ NoCompetitors /\ SocketCredited /\ SessionMatches

(* Every call ends, with a session or without: nobody waits for the lock, an *)
(* answer or a process for ever.                                             *)
CallsEnd == \A c \in Clients : cl[c].pc # "idle" ~> cl[c].pc = "done"

(* Every daemon ends once its clients are gone, also one that was replaced   *)
(* and one whose socket nobody finds any more.                               *)
DaemonsEnd == \A d \in Daemons : Alive(d) ~> dm[d].pc = "gone"

(* Nobody is left for ever: calls end, and so do daemons.                    *)
EverybodyEnds == CallsEnd /\ DaemonsEnd

(* What docs/adr/0041 says of the clean-up of a daemon that was replaced: it *)
(* cannot delete the live files of its replacement.  It reads the pidfile    *)
(* before it unlinks the socket, and the replacement may start in between.   *)
UnlinksForeign ==
  \E d \in Daemons : dm[d].pc = "unsock" /\ dm'[d].pc = "unpid"
                     /\ sock \notin {d, NoOne} /\ Alive(sock)
ReplacementKept == [][~UnlinksForeign]_vars

(* What docs/adr/0041 says of the clean-up by an ordinary client: only what  *)
(* a confirmed dead daemon left is removed.  probe_existing does not hold    *)
(* the spawn lock, and a new daemon may bind in between.                     *)
ProbeUnlinksLive ==
  \E c \in Clients : cl[c].pc = "unsock" /\ cl'[c].pc = "unpid" /\ sock # NoOne /\ Alive(sock)
ProbeKeepsLive == [][~ProbeUnlinksLive]_vars

(* What the error of connect says: the daemon that stayed busy for the whole *)
(* budget is running.                                                        *)
GivesUpOnGone ==
  \E c \in Clients : cl'[c].result = "busy" /\ cl[c].result # "busy" /\ ~RecordedAlive
BusyIsAlive == [][~GivesUpOnGone]_vars
=============================================================================
