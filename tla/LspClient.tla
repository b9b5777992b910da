------------------------------ MODULE LspClient ------------------------------
(***************************************************************************)
(* The client of a language server (_lsp.py): the thread that makes        *)
(* requests, the reader thread that hands every answer to the request it   *)
(* belongs to, and the closing of the server's process.  Requests are made *)
(* one after the other (session.py keeps a client behind a lock).          *)
(*                                                                         *)
(* The server is external: it answers in the order it was asked, sends     *)
(* notifications and requests of its own at any time, and may stall, die   *)
(* or write something that is not a message.                               *)
(***************************************************************************)
EXTENDS Naturals, Sequences

CONSTANTS
  MaxRequests,       \* requests of the client, without the shutdown
  MaxNotifications,  \* notifications and requests of the server
  Garbles            \* may the server write something that is no message?

ASSUME LspClientAssumption ==
  {MaxRequests, MaxNotifications} \subseteq Nat /\ Garbles \in BOOLEAN

VARIABLES
  next,        \* _next_id
  pending,     \* the ids in _pending
  box,         \* the box of each id
  caller,      \* the thread that makes requests
  closeCalled, \* _close_called
  reader,      \* the reader thread
  lost,        \* _connection_lost
  told,        \* the notifications handed to on_notification
  server,      \* "up" or "gone"
  toServer, fromServer,   \* the pipes
  sent         \* notifications the server has sent

clientVars == <<next, pending, box, caller, closeCalled>>
readerVars == <<reader, lost, told>>
serverVars == <<server, toServer, fromServer, sent>>
vars == <<clientVars, readerVars, serverVars>>

-----------------------------------------------------------------------------
(* Definitions *)

Ids == 0..(MaxRequests + 1)
Kinds == {"response", "failure", "notification", "request", "garbage"}

(* after: how many notifications were sent before it *)
Message(kind, id) == [kind |-> kind, id |-> id, after |-> sent]
Messages == [kind : Kinds, id : Ids, after : 0..MaxNotifications]
Empty == [kind |-> "empty"]
TimedOut == [kind |-> "timeout"]
Broken == [kind |-> "broken"]
Answers == {m \in Messages : m.kind \in {"response", "failure"}}

CallerPcs == {"idle", "write", "blocked", "wait", "pop", "exit", "stdin", "process", "killed", "closed"}
ReaderPcs == {"read", "put", "tell", "lost", "sweep", "done"}

Init ==
  /\ next = 0 /\ pending = {} /\ box = [i \in Ids |-> Empty]
  /\ caller = [pc |-> "idle", id |-> 0, got |-> Empty] /\ closeCalled = FALSE
  /\ reader = [pc |-> "read", msg |-> Empty, left |-> {}] /\ lost = FALSE /\ told = <<>>
  /\ server = "up" /\ toServer = <<>> /\ fromServer = <<>> /\ sent = 0

-----------------------------------------------------------------------------
(* request *)

(* Mutant: the counter of ids is not advanced. *)
NewIdSame == next

NewId == next + 1

Register ==
  /\ next' = NewId /\ pending' = pending \cup {NewId} /\ box' = [box EXCEPT ![NewId] = Empty]
  /\ caller' = [caller EXCEPT !.pc = "write", !.id = NewId, !.got = Empty]

Request ==
  /\ caller.pc = "idle" /\ ~closeCalled /\ next < MaxRequests /\ Register
  /\ UNCHANGED <<closeCalled, readerVars, serverVars>>

(* _write of the message, which the pipe may be too full for: then the      *)
(* caller is blocked, without a deadline, until the server has read enough. *)
Written == toServer' = Append(toServer, caller.id) /\ caller' = [caller EXCEPT !.pc = "wait"]

Write ==
  /\ caller.pc = "write" /\ server = "up"
  /\ \/ Written
     \/ caller' = [caller EXCEPT !.pc = "blocked"] /\ UNCHANGED toServer
  /\ UNCHANGED <<next, pending, box, closeCalled, readerVars, server, fromServer, sent>>

(* The pipe of a process that is gone is broken. *)
BrokenPipe ==
  /\ caller.pc \in {"write", "blocked"} /\ server = "gone"
  /\ caller' = [caller EXCEPT !.pc = "pop", !.got = Broken]
  /\ UNCHANGED <<next, pending, box, closeCalled, readerVars, serverVars>>

GetAnswer ==
  /\ caller.pc = "wait" /\ box[caller.id] # Empty
  /\ caller' = [caller EXCEPT !.pc = "pop", !.got = box[caller.id]]
  /\ box' = [box EXCEPT ![caller.id] = Empty]
  /\ UNCHANGED <<next, pending, closeCalled, readerVars, serverVars>>

(* Mutant: after the deadline the box is waited for again. *)
TimeOutIgnored == caller.pc = "wait" /\ box[caller.id] = Empty /\ UNCHANGED vars

TimeOut ==
  /\ caller.pc = "wait" /\ box[caller.id] = Empty
  /\ caller' = [caller EXCEPT !.pc = "pop", !.got = TimedOut]
  /\ UNCHANGED <<next, pending, box, closeCalled, readerVars, serverVars>>

(* Mutant: the box of a request that timed out stays in the table. *)
PoppedOnAnswer == IF caller.got = TimedOut THEN pending ELSE pending \ {caller.id}

(* The finally clause of request *)
Popped == pending \ {caller.id}

(* Then request returns or raises; close goes on to exit or to stdin. *)
Pop ==
  /\ caller.pc = "pop" /\ pending' = Popped
  /\ caller' = [caller EXCEPT !.pc = CASE ~closeCalled -> "idle"
                                       [] caller.got.kind = "response" -> "exit"
                                       [] OTHER -> "stdin"]
  /\ UNCHANGED <<next, box, closeCalled, readerVars, serverVars>>

-----------------------------------------------------------------------------
(* close; a second call returns at once *)

Close ==
  /\ caller.pc = "idle" /\ ~closeCalled /\ closeCalled' = TRUE /\ Register
  /\ UNCHANGED <<readerVars, serverVars>>

(* The exit notification; its failure is logged. *)
NotifyExit ==
  /\ caller.pc = "exit" /\ caller' = [caller EXCEPT !.pc = "stdin"]
  /\ server' \in {server, "gone"}
  /\ UNCHANGED <<next, pending, box, closeCalled, readerVars, toServer, fromServer, sent>>

(* A server whose input is closed may stop. *)
CloseStdin ==
  /\ caller.pc = "stdin" /\ caller' = [caller EXCEPT !.pc = "process"]
  /\ server' \in {server, "gone"}
  /\ UNCHANGED <<next, pending, box, closeCalled, readerVars, toServer, fromServer, sent>>

(* Mutant: a process that does not stop in time is left alone. *)
AwaitProcessOnly ==
  /\ caller.pc = "process" /\ caller' = [caller EXCEPT !.pc = "closed"]
  /\ UNCHANGED <<next, pending, box, closeCalled, readerVars, serverVars>>

(* wait, or kill when it takes too long, then wait again *)
AwaitProcess ==
  /\ caller.pc = "process"
  /\ IF server = "gone" THEN caller' = [caller EXCEPT !.pc = "closed"] /\ UNCHANGED server
     ELSE caller' = [caller EXCEPT !.pc = "killed"] /\ server' = "gone"
  /\ UNCHANGED <<next, pending, box, closeCalled, readerVars, toServer, fromServer, sent>>

AwaitKilled ==
  /\ caller.pc = "killed" /\ caller' = [caller EXCEPT !.pc = "closed"]
  /\ UNCHANGED <<next, pending, box, closeCalled, readerVars, serverVars>>

-----------------------------------------------------------------------------
(* The reader thread *)

(* Mutant: whatever carries the id of a request answers it. *)
AnswersById(m) == m.kind \in {"response", "request"} /\ m.id \in pending

(* A request of the server has an id too, but no result. *)
Belongs(m) == m.kind = "response" /\ m.id \in pending

(* The box is looked up under the lock and filled outside of it. *)
Read ==
  /\ reader.pc = "read" /\ fromServer # <<>> /\ fromServer' = Tail(fromServer)
  /\ LET m == Head(fromServer)
     IN  reader' = [reader EXCEPT !.msg = m,
                      !.pc = CASE m.kind = "notification" -> "tell"
                               [] m.kind = "garbage" -> "lost"
                               [] Belongs(m) -> "put"
                               [] OTHER -> "read"]
  /\ UNCHANGED <<clientVars, lost, told, server, toServer, sent>>

(* The box has room for one. *)
Put ==
  /\ reader.pc = "put" /\ box[reader.msg.id] = Empty
  /\ box' = [box EXCEPT ![reader.msg.id] = reader.msg]
  /\ reader' = [reader EXCEPT !.pc = "read"]
  /\ UNCHANGED <<next, pending, caller, closeCalled, lost, told, serverVars>>

(* Mutant: notifications are handed on when there is nothing else to read. *)
TellLater ==
  /\ reader.pc = "tell"
  /\ IF fromServer = <<>> THEN told' = Append(told, reader.msg.id) /\ UNCHANGED fromServer
     ELSE fromServer' = Append(fromServer, reader.msg) /\ UNCHANGED told
  /\ reader' = [reader EXCEPT !.pc = "read"]
  /\ UNCHANGED <<clientVars, lost, server, toServer, sent>>

(* on_notification; what it raises is logged. *)
Tell ==
  /\ reader.pc = "tell" /\ told' = Append(told, reader.msg.id)
  /\ reader' = [reader EXCEPT !.pc = "read"]
  /\ UNCHANGED <<clientVars, lost, serverVars>>

EndOfFile ==
  /\ reader.pc = "read" /\ fromServer = <<>> /\ server = "gone"
  /\ reader' = [reader EXCEPT !.pc = "lost"]
  /\ UNCHANGED <<clientVars, lost, told, serverVars>>

(* The finally clause: the requests registered by now are failed. *)
Lose ==
  /\ reader.pc = "lost" /\ lost' = TRUE
  /\ reader' = [reader EXCEPT !.pc = "sweep", !.left = pending]
  /\ UNCHANGED <<clientVars, told, serverVars>>

Fail ==
  /\ reader.pc = "sweep"
  /\ \/ /\ reader.left = {} /\ reader' = [reader EXCEPT !.pc = "done"] /\ UNCHANGED box
     \/ \E i \in reader.left :
          /\ box[i] = Empty /\ box' = [box EXCEPT ![i] = Message("failure", i)]
          /\ reader' = [reader EXCEPT !.left = @ \ {i}]
  /\ UNCHANGED <<next, pending, caller, closeCalled, lost, told, serverVars>>

-----------------------------------------------------------------------------
(* The server *)

Answer ==
  /\ server = "up" /\ toServer # <<>> /\ toServer' = Tail(toServer)
  /\ fromServer' = Append(fromServer, Message("response", Head(toServer)))
  /\ UNCHANGED <<clientVars, readerVars, server, sent>>

(* It reads what the pipe had no room for. *)
Unblock ==
  /\ caller.pc = "blocked" /\ server = "up" /\ Written
  /\ UNCHANGED <<next, pending, box, closeCalled, readerVars, server, fromServer, sent>>

(* The ids of its own requests are its own affair. *)
Initiate ==
  /\ server = "up" /\ sent < MaxNotifications /\ sent' = sent + 1
  /\ \/ fromServer' = Append(fromServer, Message("notification", sent + 1))
     \/ \E i \in Ids : fromServer' = fromServer \o
          <<Message("request", i), Message("notification", sent + 1)>>
  /\ UNCHANGED <<clientVars, readerVars, server, toServer>>

(* After something that is no message nothing the server writes is read. *)
Garble ==
  /\ Garbles /\ server = "up" /\ reader.pc \in {"read", "put", "tell"}
  /\ \A k \in 1..Len(fromServer) : fromServer[k].kind # "garbage"
  /\ fromServer' = Append(fromServer, Message("garbage", 0))
  /\ UNCHANGED <<clientVars, readerVars, server, toServer, sent>>

Die ==
  /\ server = "up" /\ server' = "gone"
  /\ UNCHANGED <<clientVars, readerVars, toServer, fromServer, sent>>

(* The client may be closed, or kept for good between two requests. *)
Finished == caller.pc \in {"closed", "idle"} /\ UNCHANGED vars

CallerStep ==
  \/ Request \/ Write \/ BrokenPipe \/ GetAnswer \/ TimeOut \/ Pop
  \/ Close \/ NotifyExit \/ CloseStdin \/ AwaitProcess \/ AwaitKilled

ReaderStep == Read \/ Put \/ Tell \/ EndOfFile \/ Lose \/ Fail

ServerStep == Answer \/ Unblock \/ Initiate \/ Garble \/ Die

Next == CallerStep \/ ReaderStep \/ ServerStep \/ Finished

Spec == Init /\ [][Next]_vars

(* The caller's waits for answers have deadlines and the reader is a thread;*)
(* nothing is assumed of the server, so a blocked write may stay blocked.   *)
FairSpec == Spec /\ WF_vars(CallerStep) /\ WF_vars(ReaderStep)

-----------------------------------------------------------------------------
(* Properties *)

TypeOK ==
  /\ next \in Ids /\ pending \subseteq Ids /\ box \in [Ids -> Answers \cup {Empty}]
  /\ caller.pc \in CallerPcs /\ caller.got \in Answers \cup {Empty, TimedOut, Broken}
  /\ closeCalled \in BOOLEAN /\ lost \in BOOLEAN
  /\ reader.pc \in ReaderPcs /\ reader.left \subseteq Ids
  /\ server \in {"up", "gone"} /\ sent \in 0..MaxNotifications

(* A request gets the answer to itself: the answer to one that timed out is *)
(* never taken for the next one's, whenever it arrives, nor is a request of *)
(* the server.  An id that was answered is not waiting in the pipe.         *)
AnswerIsMine ==
  caller.got.kind = "response" =>
    caller.got.id = caller.id /\ \A k \in 1..Len(toServer) : toServer[k] # caller.id

(* When a request is answered, every notification the server sent before    *)
(* the answer has been handed on, in order: what the barrier of             *)
(* reconcile_direct_inputs relies on.                                       *)
BarrierHolds ==
  /\ told = [k \in 1..Len(told) |-> k]
  /\ caller.got.kind = "response" => Len(told) >= caller.got.after

(* Between two requests no box is left behind.                              *)
NoneLeft == caller.pc \in {"idle", "closed"} => pending = {}

(* When close returns the server's process is gone, whether it answered,    *)
(* stalled or had died before.                                              *)
ServerGone == caller.pc = "closed" => server = "gone"

(* Requests do not get in each other's way: each gets the answer to itself   *)
(* and leaves no box behind, and close leaves no server behind.              *)
RequestsApart == TypeOK /\ AnswerIsMine /\ NoneLeft /\ ServerGone

(* Every request and every close ends, also when the server never answers,  *)
(* when it dies with a full pipe, and when a request is registered after    *)
(* the reader failed the others.  The exception is the code's: a write for  *)
(* which the pipe of a live server has no room has no deadline.             *)
CallsEnd ==
  caller.pc \notin {"idle", "closed"} ~>
    caller.pc \in {"idle", "closed"} \/ (caller.pc = "blocked" /\ server = "up")
=============================================================================
