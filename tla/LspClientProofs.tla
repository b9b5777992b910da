--------------------------- MODULE LspClientProofs ---------------------------
(* Theorems of LspClient, for any number of requests and notifications. *)
EXTENDS LspClient, SequenceTheorems, TLAPS

-----------------------------------------------------------------------------
(* The invariant *)

Waiting == {"write", "blocked", "wait", "pop"}
Reading == {"read", "put", "tell"}
AnyMessages == [kind : Kinds, id : Nat, after : 0..MaxNotifications]
Outcomes == Answers \cup {Empty, TimedOut, Broken}

(* What the variables hold, and which message the reader has in its hands. *)
TypeInv ==
  /\ next \in Ids /\ pending \subseteq Ids /\ box \in [Ids -> Answers \cup {Empty}]
  /\ caller \in [pc : CallerPcs, id : Ids, got : Outcomes] /\ caller.id = next
  /\ closeCalled \in BOOLEAN /\ lost \in BOOLEAN /\ (~closeCalled => next <= MaxRequests)
  /\ reader \in [pc : ReaderPcs, msg : AnyMessages \cup {Empty}, left : SUBSET Ids]
  /\ told \in Seq(Nat) /\ server \in {"up", "gone"} /\ sent \in 0..MaxNotifications
  /\ toServer \in Seq(Ids) /\ fromServer \in Seq(AnyMessages)
  /\ reader.pc = "tell" => reader.msg \in AnyMessages
  /\ reader.pc = "put" => reader.msg \in Answers /\ reader.msg.kind = "response"

(* A box is in the table from the registration of its request to the end of *)
(* it, and the server is gone when it was waited for or killed.             *)
CallInv ==
  /\ pending = IF caller.pc \in Waiting THEN {caller.id} ELSE {}
  /\ caller.pc \in {"killed", "closed"} => server = "gone"

(* A request the server may have read, and one it has read. *)
Asked(i) == i <= next /\ (caller.pc \in {"write", "blocked"} => i # next)
Answered(i) == i \in Ids /\ Asked(i) /\ \A k \in 1..Len(toServer) : toServer[k] # i

(* A request is written once, and an answer is wherever it is after its     *)
(* request was read.                                                        *)
IdInv ==
  /\ \A k \in 1..Len(toServer) : Asked(toServer[k])
  /\ \A k, l \in 1..Len(toServer) : toServer[k] = toServer[l] => k = l
  /\ \A k \in 1..Len(fromServer) : fromServer[k].kind = "response" => Answered(fromServer[k].id)
  /\ reader.pc = "put" => Answered(reader.msg.id)
  /\ \A i \in Ids : box[i].kind = "response" => box[i].id = i /\ Answered(i)
  /\ caller.got.kind = "response" => caller.got.id = caller.id /\ Answered(caller.id)

(* Notifications sent when the reader is through with a message. *)
Level(m) == IF m.kind = "notification" THEN m.id ELSE m.after
Delivered == IF reader.pc = "tell" THEN Len(told) + 1 ELSE Len(told)

(* A pipe that carries on where from notifications were handed on, message  *)
(* by message, and ends where upto were sent.                               *)
Stream(s, from, upto) ==
  /\ \A k \in 1..Len(s) :
       /\ s[k].kind = "notification" => s[k].id = s[k].after + 1
       /\ s[k].after = IF k = 1 THEN from ELSE Level(s[k - 1])
  /\ upto = IF Len(s) = 0 THEN from ELSE Level(s[Len(s)])

(* The pipe is such a stream as long as the reader reads it, and an answer  *)
(* in somebody's hands has been overtaken by nothing.                       *)
StreamInv ==
  /\ \A k \in 1..Len(told) : told[k] = k
  /\ reader.pc \in Reading => Stream(fromServer, Delivered, sent)
  /\ reader.pc = "tell" => reader.msg.id = Len(told) + 1
  /\ reader.pc = "put" => reader.msg.after <= Len(told)
  /\ \A i \in Ids : box[i].kind = "response" => box[i].after <= Len(told)
  /\ caller.got.kind = "response" => caller.got.after <= Len(told)

Inv == TypeInv /\ CallInv /\ IdInv /\ StreamInv

-----------------------------------------------------------------------------
(* The pipes *)

(* What a message appended to a stream makes of it.                         *)
LEMMA StreamAppend ==
  ASSUME NEW s \in Seq(AnyMessages), NEW from \in Nat, NEW upto \in Nat, Stream(s, from, upto),
         NEW m \in AnyMessages, m.after = upto, m.kind = "notification" => m.id = m.after + 1
  PROVE  Stream(Append(s, m), from, Level(m))
<1>1. /\ Len(s) \in Nat /\ Len(Append(s, m)) = Len(s) + 1 /\ Append(s, m)[Len(s) + 1] = m
      /\ \A k \in 1..Len(s) : Append(s, m)[k] = s[k]
  BY AppendProperties, LenProperties
<1>2. ASSUME NEW k \in 1..Len(Append(s, m))
      PROVE  LET t == Append(s, m)
             IN  /\ t[k].kind = "notification" => t[k].id = t[k].after + 1
                 /\ t[k].after = IF k = 1 THEN from ELSE Level(t[k - 1])
  <2>1. CASE k \in 1..Len(s)
    <3>1. k # 1 => k - 1 \in 1..Len(s)
      BY <2>1, <1>1
    <3>2. QED
      BY <2>1, <3>1, <1>1 DEF Stream
  <2>2. CASE k = Len(s) + 1
    <3>1. m.after = IF Len(s) = 0 THEN from ELSE Level(s[Len(s)])
      BY DEF Stream
    <3>2. Len(s) # 0 => Append(s, m)[k - 1] = s[Len(s)] /\ k # 1
      BY <2>2, <1>1
    <3>3. QED
      BY <2>2, <3>1, <3>2, <1>1
  <2>3. QED
    BY <2>1, <2>2, <1>1
<1>3. QED
  BY <1>1, <1>2 DEF Stream

(* What is left of a stream without its first message.                      *)
LEMMA StreamTail ==
  ASSUME NEW s \in Seq(AnyMessages), s # <<>>, NEW from \in Nat, NEW upto, Stream(s, from, upto)
  PROVE  /\ Head(s) \in AnyMessages /\ Tail(s) \in Seq(AnyMessages) /\ Head(s).after = from
         /\ Head(s).kind = "notification" => Head(s).id = from + 1
         /\ Stream(Tail(s), Level(Head(s)), upto)
<1>1. /\ Len(s) \in Nat /\ Len(s) # 0 /\ Len(Tail(s)) = Len(s) - 1 /\ Head(s) = s[1]
      /\ \A k \in 1..Len(Tail(s)) : Tail(s)[k] = s[k + 1]
  BY HeadTailProperties, LenProperties, EmptySeq
<1>2. Head(s) \in AnyMessages /\ Tail(s) \in Seq(AnyMessages)
  BY HeadTailProperties
<1>3. QED
  BY <1>1, <1>2 DEF Stream, Level

(* How many notifications were handed on is a number.                      *)
LEMMA DeliveredNat == ASSUME TypeInv PROVE Delivered \in Nat /\ Len(told) \in Nat
  BY LenProperties DEF TypeInv, Delivered

-----------------------------------------------------------------------------
(* The first state *)

LEMMA InitInv == Init => Inv
<1> SUFFICES ASSUME Init PROVE Inv
  OBVIOUS
<1> USE LspClientAssumption DEF Init
<1>1. TypeInv
  <2>1. 0 \in Ids /\ 0 \in 0..MaxNotifications /\ 0 <= MaxRequests
    BY DEF Ids
  <2>2. QED
    BY <2>1 DEF TypeInv, CallerPcs, ReaderPcs, Outcomes, Empty
<1>2. CallInv
  BY DEF CallInv, Waiting
<1>3. IdInv
  BY DEF IdInv, Ids, Empty
<1>4. StreamInv
  BY DEF StreamInv, Stream, Ids, Empty, Delivered, Reading
<1>5. QED
  BY <1>1, <1>2, <1>3, <1>4 DEF Inv

-----------------------------------------------------------------------------
(* The steps *)

(* A request is registered: its id is new to both pipes and to every box. *)
LEMMA RegisterStep ==
  ASSUME Inv, Register, caller.pc = "idle", next < IF closeCalled' THEN MaxRequests + 1 ELSE MaxRequests,
         closeCalled' \in BOOLEAN, ~closeCalled, UNCHANGED <<readerVars, serverVars>>
  PROVE  Inv'
<1> USE LspClientAssumption DEF Inv, Register, NewId, vars, clientVars, readerVars, serverVars
<1>1. /\ next \in Nat /\ next + 1 \in Ids /\ next' = next + 1
      /\ ~closeCalled' => next' <= MaxRequests
  BY DEF TypeInv, Ids
<1>2. /\ caller' = [caller EXCEPT !.pc = "write", !.id = next + 1, !.got = Empty]
      /\ caller'.pc = "write" /\ caller'.id = next' /\ caller'.got = Empty
      /\ caller' \in [pc : CallerPcs, id : Ids, got : Outcomes]
  BY <1>1 DEF TypeInv, CallerPcs, Outcomes
<1>3. /\ box' \in [Ids -> Answers \cup {Empty}]
      /\ \A i \in Ids : box'[i].kind = "response" => box'[i] = box[i]
  BY <1>1 DEF TypeInv, Empty
<1>4. TypeInv'
  BY <1>1, <1>2, <1>3 DEF TypeInv
<1>5. CallInv'
  BY <1>2 DEF CallInv, Waiting
<1>6. \A i \in Ids : Asked(i) => Asked(i)'
  <2>1. \A i \in Ids : i \in Nat
    BY DEF Ids
  <2>2. QED
    BY <2>1, <1>1, <1>2 DEF Asked
<1>7. IdInv'
  <2>1. \A i : Answered(i) => i \in Ids /\ Answered(i)'
    BY <1>6 DEF Answered
  <2>2. (\A k \in 1..Len(toServer) : Asked(toServer[k]))'
    <3>1. \A k \in 1..Len(toServer) : toServer[k] \in Ids
      BY ElementOfSeq DEF TypeInv
    <3>2. QED
      BY <3>1, <1>6 DEF IdInv, Asked
  <2>3. QED
    BY <2>1, <2>2, <1>2, <1>3 DEF IdInv, Answered, Asked, Empty
<1>8. StreamInv'
  BY <1>2, <1>3 DEF StreamInv, Stream, Delivered, Level, Empty
<1>9. QED
  BY <1>4, <1>5, <1>7, <1>8

(* A request is written, at once or after a while, or the pipe is broken. *)
LEMMA AfterWrite == ASSUME Inv, Write \/ BrokenPipe \/ Unblock PROVE Inv'
<1> USE LspClientAssumption DEF Inv, Write, BrokenPipe, Unblock, Written, vars, clientVars, readerVars, serverVars
<1>1. /\ caller' = [caller EXCEPT !.pc = caller'.pc, !.got = caller'.got] /\ caller'.id = caller.id
      /\ caller'.pc \in {"blocked", "wait", "pop"} /\ caller'.got \in {caller.got, Broken}
      /\ caller.pc \in {"write", "blocked"}
      /\ UNCHANGED <<next, pending, box, closeCalled, readerVars, server, fromServer, sent>>
      /\ UNCHANGED toServer \/ (toServer' = Append(toServer, caller.id) /\ caller'.pc = "wait")
  BY DEF TypeInv
<1>2. TypeInv'
  <2>1. caller' \in [pc : CallerPcs, id : Ids, got : Outcomes]
    BY <1>1 DEF TypeInv, CallerPcs, Outcomes
  <2>2. toServer' \in Seq(Ids)
    <3>1. caller.id \in Ids /\ toServer \in Seq(Ids)
      BY DEF TypeInv
    <3>2. Append(toServer, caller.id) \in Seq(Ids)
      BY <3>1, AppendProperties
    <3>3. QED
      BY <3>1, <3>2
  <2>3. QED
    BY <2>1, <2>2, <1>1 DEF TypeInv
<1>3. CallInv'
  BY <1>1 DEF TypeInv, CallInv, Waiting
<1>4. IdInv'
  <2>1. caller'.got.kind = "response" => caller.got.kind = "response"
    BY <1>1 DEF Broken
  <2>2. caller.got.kind # "response" /\ \A i \in Ids : Answered(i) => i # next
    BY <1>1 DEF IdInv, Answered, Asked, TypeInv
  <2>3. CASE UNCHANGED toServer
    BY <2>1, <2>2, <2>3, <1>1 DEF IdInv, Asked, Answered, TypeInv
  <2>4. CASE toServer' = Append(toServer, caller.id) /\ caller'.pc = "wait"
    <3>1. /\ Len(toServer) \in Nat /\ Len(toServer') = Len(toServer) + 1
          /\ toServer'[Len(toServer) + 1] = next /\ \A k \in 1..Len(toServer) : toServer'[k] = toServer[k]
      BY <2>4, AppendProperties, LenProperties DEF TypeInv
    <3>2. \A k \in 1..Len(toServer) : toServer[k] # next
      BY <1>1 DEF IdInv, Asked
    <3>3. \A i \in Ids : Answered(i) => Answered(i)'
      <4>1. \A i \in Ids : Answered(i) => Asked(i)'
        BY <2>2, <2>4, <1>1 DEF Answered, Asked
      <4>2. \A i \in Ids : Answered(i) => \A k \in 1..Len(toServer') : toServer'[k] # i
        BY <3>1, <2>2 DEF Answered
      <4>3. QED
        BY <4>1, <4>2 DEF Answered
    <3>4. (\A k \in 1..Len(toServer) : Asked(toServer[k]))'
      <4>1. next \in Nat /\ next' = next
        BY DEF TypeInv, Ids
      <4>2. QED
        BY <4>1, <3>1, <1>1 DEF IdInv, Asked
    <3>5. \A k, l \in 1..Len(toServer') : toServer'[k] = toServer'[l] => k = l
      BY <3>1, <3>2 DEF IdInv
    <3>6. \A i : Answered(i) => i \in Ids
      BY DEF Answered
    <3>7. /\ (\A k \in 1..Len(fromServer) : fromServer[k].kind = "response" => Answered(fromServer[k].id))'
          /\ (reader.pc = "put" => Answered(reader.msg.id))'
          /\ (\A i \in Ids : box[i].kind = "response" => box[i].id = i /\ Answered(i))'
      BY <3>3, <3>6 DEF IdInv, Answered
    <3>8. QED
      BY <3>4, <3>5, <3>7, <2>1, <2>2 DEF IdInv
  <2>5. QED
    BY <2>3, <2>4, <1>1
<1>5. StreamInv'
  <2>1. caller'.got.kind = "response" => caller'.got = caller.got
    BY <1>1 DEF Broken
  <2>2. QED
    BY <1>1, <2>1 DEF TypeInv, StreamInv, Stream, Delivered, Level
<1>6. QED
  BY <1>2, <1>3, <1>4, <1>5

(* The answer is taken out of the box. *)
LEMMA AfterGetAnswer == ASSUME Inv, GetAnswer PROVE Inv'
<1> USE LspClientAssumption DEF Inv, GetAnswer, vars, clientVars, readerVars, serverVars
<1>1. TypeInv'
  BY DEF TypeInv, CallerPcs, ReaderPcs, Outcomes, Answers, Messages, AnyMessages, Kinds, Ids, Empty, TimedOut, Broken
<1>2. CallInv'
  BY DEF TypeInv, CallInv, Waiting
<1>3. IdInv'
  BY DEF TypeInv, CallInv, IdInv, Asked, Answered, Empty, TimedOut, Broken
<1>4. StreamInv'
  BY DEF TypeInv, StreamInv, Stream, Delivered, Reading, Level, Empty, TimedOut, Broken
<1>5. QED
  BY <1>1, <1>2, <1>3, <1>4

(* The caller gives up waiting. *)
LEMMA AfterTimeOut == ASSUME Inv, TimeOut PROVE Inv'
<1> USE LspClientAssumption DEF Inv, TimeOut, vars, clientVars, readerVars, serverVars
<1>1. TypeInv'
  BY DEF TypeInv, CallerPcs, ReaderPcs, Outcomes, Answers, Messages, AnyMessages, Kinds, Ids, Empty, TimedOut, Broken
<1>2. CallInv'
  BY DEF TypeInv, CallInv, Waiting
<1>3. IdInv'
  BY DEF TypeInv, CallInv, IdInv, Asked, Answered, Empty, TimedOut, Broken
<1>4. StreamInv'
  BY DEF TypeInv, StreamInv, Stream, Delivered, Reading, Level, Empty, TimedOut, Broken
<1>5. QED
  BY <1>1, <1>2, <1>3, <1>4

(* The box leaves the table. *)
LEMMA AfterPop == ASSUME Inv, Pop PROVE Inv'
<1> USE LspClientAssumption DEF Inv, Pop, Popped, vars, clientVars, readerVars, serverVars
<1>1. /\ caller' = [caller EXCEPT !.pc = caller'.pc] /\ caller'.pc \in {"idle", "exit", "stdin"}
      /\ caller'.id = caller.id /\ caller'.got = caller.got
  BY DEF TypeInv
<1>2. TypeInv'
  BY <1>1 DEF TypeInv, CallerPcs
<1>3. CallInv'
  BY <1>1 DEF TypeInv, CallInv, Waiting
<1>4. IdInv'
  BY <1>1 DEF TypeInv, CallInv, IdInv, Asked, Answered
<1>5. StreamInv'
  BY <1>1 DEF TypeInv, StreamInv, Stream, Delivered, Reading, Level
<1>6. QED
  BY <1>2, <1>3, <1>4, <1>5

(* The exit notification. *)
LEMMA AfterNotifyExit == ASSUME Inv, NotifyExit PROVE Inv'
<1> USE LspClientAssumption DEF Inv, NotifyExit, vars, clientVars, readerVars, serverVars
<1>1. TypeInv'
  BY DEF TypeInv, CallerPcs, ReaderPcs, Outcomes, Answers, Messages, AnyMessages, Kinds, Ids, Empty, TimedOut, Broken
<1>2. CallInv'
  BY DEF TypeInv, CallInv, Waiting
<1>3. IdInv'
  BY DEF TypeInv, CallInv, IdInv, Asked, Answered, Empty, TimedOut, Broken
<1>4. StreamInv'
  BY DEF TypeInv, StreamInv, Stream, Delivered, Reading, Level, Empty, TimedOut, Broken
<1>5. QED
  BY <1>1, <1>2, <1>3, <1>4

(* The closing of the pipe. *)
LEMMA AfterCloseStdin == ASSUME Inv, CloseStdin PROVE Inv'
<1> USE LspClientAssumption DEF Inv, CloseStdin, vars, clientVars, readerVars, serverVars
<1>1. TypeInv'
  BY DEF TypeInv, CallerPcs, ReaderPcs, Outcomes, Answers, Messages, AnyMessages, Kinds, Ids, Empty, TimedOut, Broken
<1>2. CallInv'
  BY DEF TypeInv, CallInv, Waiting
<1>3. IdInv'
  BY DEF TypeInv, CallInv, IdInv, Asked, Answered, Empty, TimedOut, Broken
<1>4. StreamInv'
  BY DEF TypeInv, StreamInv, Stream, Delivered, Reading, Level, Empty, TimedOut, Broken
<1>5. QED
  BY <1>1, <1>2, <1>3, <1>4

(* The wait for the process, or the kill. *)
LEMMA AfterAwaitProcess == ASSUME Inv, AwaitProcess PROVE Inv'
<1> USE LspClientAssumption DEF Inv, AwaitProcess, vars, clientVars, readerVars, serverVars
<1>1. /\ caller' = [caller EXCEPT !.pc = caller'.pc] /\ caller'.pc \in {"closed", "killed"}
      /\ caller'.id = caller.id /\ caller'.got = caller.got /\ server' = "gone"
  BY DEF TypeInv
<1>2. TypeInv'
  BY <1>1 DEF TypeInv, CallerPcs
<1>3. CallInv'
  BY <1>1 DEF TypeInv, CallInv, Waiting
<1>4. IdInv'
  BY <1>1 DEF TypeInv, CallInv, IdInv, Asked, Answered
<1>5. StreamInv'
  BY <1>1 DEF TypeInv, StreamInv, Stream, Delivered, Reading, Level
<1>6. QED
  BY <1>2, <1>3, <1>4, <1>5

(* The wait for the killed process. *)
LEMMA AfterAwaitKilled == ASSUME Inv, AwaitKilled PROVE Inv'
<1> USE LspClientAssumption DEF Inv, AwaitKilled, vars, clientVars, readerVars, serverVars
<1>1. TypeInv'
  BY DEF TypeInv, CallerPcs, ReaderPcs, Outcomes, Answers, Messages, AnyMessages, Kinds, Ids, Empty, TimedOut, Broken
<1>2. CallInv'
  BY DEF TypeInv, CallInv, Waiting
<1>3. IdInv'
  BY DEF TypeInv, CallInv, IdInv, Asked, Answered, Empty, TimedOut, Broken
<1>4. StreamInv'
  BY DEF TypeInv, StreamInv, Stream, Delivered, Reading, Level, Empty, TimedOut, Broken
<1>5. QED
  BY <1>1, <1>2, <1>3, <1>4

(* A message is taken from the pipe. *)
LEMMA AfterRead == ASSUME Inv, Read PROVE Inv'
<1> DEFINE m == Head(fromServer)
<1> USE LspClientAssumption DEF Inv, Read, vars, clientVars, readerVars, serverVars
<1>1. /\ reader' = [reader EXCEPT !.msg = m, !.pc = reader'.pc] /\ reader'.msg = m
      /\ reader'.pc \in {"tell", "lost", "put", "read"} /\ reader'.left = reader.left
      /\ reader'.pc = "tell" <=> m.kind = "notification"
      /\ reader'.pc = "put" => m.kind = "response" /\ m.id \in pending
      /\ fromServer' = Tail(fromServer) /\ fromServer # <<>>
  BY DEF TypeInv, Belongs
<1>2. /\ Stream(fromServer, Delivered, sent) /\ Delivered = Len(told) /\ Delivered \in Nat
      /\ fromServer \in Seq(AnyMessages) /\ reader.pc = "read"
  BY LenProperties DEF TypeInv, StreamInv, Delivered, Reading
<1>3. /\ m \in AnyMessages /\ Tail(fromServer) \in Seq(AnyMessages) /\ m.after = Len(told)
      /\ m.kind = "notification" => m.id = Len(told) + 1
      /\ Stream(Tail(fromServer), Level(m), sent)
  BY <1>1, <1>2, StreamTail
<1> HIDE DEF m
<1>4. TypeInv'
  <2>1. reader' \in [pc : ReaderPcs, msg : AnyMessages \cup {Empty}, left : SUBSET Ids]
    BY <1>1, <1>3 DEF TypeInv, ReaderPcs
  <2>2. reader'.pc = "put" => reader'.msg \in Answers
    <3>1. pending \subseteq Ids
      BY DEF TypeInv
    <3>2. QED
      BY <3>1, <1>1, <1>3 DEF Answers, Messages, AnyMessages
  <2>3. QED
    BY <2>1, <2>2, <1>1, <1>3 DEF TypeInv
<1>5. CallInv'
  BY DEF CallInv
<1>6. IdInv'
  <2>1. /\ Len(fromServer) \in Nat /\ Len(fromServer) # 0 /\ m = fromServer[1]
        /\ Len(Tail(fromServer)) = Len(fromServer) - 1
        /\ \A k \in 1..Len(Tail(fromServer)) : Tail(fromServer)[k] = fromServer[k + 1]
    BY <1>1, <1>2, HeadTailProperties, LenProperties, EmptySeq DEF m
  <2>2. \A k \in 1..Len(fromServer') : fromServer'[k].kind = "response" => Answered(fromServer'[k].id)
    BY <2>1, <1>1 DEF IdInv
  <2>3. reader'.pc = "put" => Answered(m.id)
    BY <2>1, <1>1 DEF IdInv
  <2>4. QED
    BY <2>2, <2>3, <1>1 DEF IdInv, Asked, Answered
<1>7. StreamInv'
  <2>1. m.kind = "notification" => Delivered' = Level(m)
    BY <1>1, <1>3 DEF Delivered, Level
  <2>2. m.kind # "notification" => Delivered' = Level(m)
    BY <1>1, <1>3 DEF Delivered, Level
  <2>3. Stream(fromServer, Delivered, sent)'
    <3> DEFINE rest == Tail(fromServer)
               from == Level(m)
    <3>1. Stream(rest, from, sent) /\ fromServer' = rest /\ Delivered' = from /\ sent' = sent
      BY <2>1, <2>2, <1>1, <1>3
    <3> HIDE DEF rest, from
    <3>2. QED
      BY <3>1 DEF Stream, Level
  <2>4. reader'.pc = "put" => m.after <= Len(told)
    BY <1>2, <1>3
  <2>5. reader'.pc = "tell" => m.id = Len(told) + 1
    BY <1>1, <1>3
  <2>6. QED
    BY <2>3, <2>4, <2>5, <1>1 DEF StreamInv, Stream
<1>8. QED
  BY <1>4, <1>5, <1>6, <1>7

(* An answer is put in its box. *)
LEMMA AfterPut == ASSUME Inv, Put PROVE Inv'
<1> USE LspClientAssumption DEF Inv, Put, vars, clientVars, readerVars, serverVars
<1>1. TypeInv'
  BY DEF TypeInv, CallerPcs, ReaderPcs, Outcomes, Answers, Messages, AnyMessages, Kinds, Ids, Empty, TimedOut, Broken
<1>2. CallInv'
  BY DEF TypeInv, CallInv, Waiting
<1>3. IdInv'
  BY DEF TypeInv, CallInv, IdInv, Asked, Answered, Empty, TimedOut, Broken
<1>4. StreamInv'
  BY DEF TypeInv, StreamInv, Stream, Delivered, Reading, Level, Empty, TimedOut, Broken
<1>5. QED
  BY <1>1, <1>2, <1>3, <1>4

(* A notification is handed on. *)
LEMMA AfterTell == ASSUME Inv, Tell PROVE Inv'
<1> USE LspClientAssumption DEF Inv, Tell, vars, clientVars, readerVars, serverVars
<1>1. /\ told' \in Seq(Nat) /\ Len(told) \in Nat /\ Len(told') = Len(told) + 1
      /\ told'[Len(told) + 1] = reader.msg.id /\ \A k \in 1..Len(told) : told'[k] = told[k]
  <2>1. reader.msg.id \in Nat /\ told \in Seq(Nat)
    BY DEF TypeInv, AnyMessages
  <2>2. QED
    BY <2>1, AppendProperties, LenProperties
<1>2. reader' \in [pc : ReaderPcs, msg : AnyMessages \cup {Empty}, left : SUBSET Ids] /\ reader'.pc = "read"
  BY DEF TypeInv, ReaderPcs
<1>3. TypeInv'
  BY <1>1, <1>2 DEF TypeInv
<1>4. CallInv'
  BY DEF CallInv
<1>5. IdInv'
  BY <1>2 DEF IdInv, Asked, Answered
<1>6. StreamInv'
  <2>1. \A k \in 1..Len(told') : told'[k] = k
    BY <1>1 DEF StreamInv, TypeInv
  <2>2. Delivered' = Delivered /\ Stream(fromServer, Delivered, sent)
    BY <1>1, <1>2 DEF StreamInv, Delivered, Reading
  <2>3. Stream(fromServer, Delivered, sent)'
    BY <2>2 DEF Stream, Level
  <2>4. \A i \in Ids : box'[i].kind = "response" => box'[i].after <= Len(told')
    <3>1. \A i \in Ids : box[i].kind = "response" => box[i].after \in Nat
      BY DEF TypeInv, Answers, Messages, Empty
    <3>2. QED
      BY <3>1, <1>1 DEF StreamInv
  <2>5. caller'.got.kind = "response" => caller'.got.after <= Len(told')
    <3>1. caller.got.kind = "response" => caller.got.after \in Nat
      <4>1. caller.got \in Outcomes
        BY DEF TypeInv
      <4>2. QED
        BY <4>1 DEF Outcomes, Answers, Messages, Empty, TimedOut, Broken
    <3>2. QED
      BY <3>1, <1>1 DEF StreamInv
  <2>6. QED
    BY <2>1, <2>3, <2>4, <2>5, <1>2 DEF StreamInv, Stream
<1>7. QED
  BY <1>3, <1>4, <1>5, <1>6

(* The end of the pipe. *)
LEMMA AfterEndOfFile == ASSUME Inv, EndOfFile PROVE Inv'
<1> USE LspClientAssumption DEF Inv, EndOfFile, vars, clientVars, readerVars, serverVars
<1>1. TypeInv'
  BY DEF TypeInv, CallerPcs, ReaderPcs, Outcomes, Answers, Messages, AnyMessages, Kinds, Ids, Empty, TimedOut, Broken
<1>2. CallInv'
  BY DEF TypeInv, CallInv, Waiting
<1>3. IdInv'
  BY DEF TypeInv, CallInv, IdInv, Asked, Answered, Empty, TimedOut, Broken
<1>4. StreamInv'
  BY DEF TypeInv, StreamInv, Stream, Delivered, Reading, Level, Empty, TimedOut, Broken
<1>5. QED
  BY <1>1, <1>2, <1>3, <1>4

(* The connection is lost. *)
LEMMA AfterLose == ASSUME Inv, Lose PROVE Inv'
<1> USE LspClientAssumption DEF Inv, Lose, vars, clientVars, readerVars, serverVars
<1>1. TypeInv'
  BY DEF TypeInv, CallerPcs, ReaderPcs, Outcomes, Answers, Messages, AnyMessages, Kinds, Ids, Empty, TimedOut, Broken
<1>2. CallInv'
  BY DEF TypeInv, CallInv, Waiting
<1>3. IdInv'
  BY DEF TypeInv, CallInv, IdInv, Asked, Answered, Empty, TimedOut, Broken
<1>4. StreamInv'
  BY DEF TypeInv, StreamInv, Stream, Delivered, Reading, Level, Empty, TimedOut, Broken
<1>5. QED
  BY <1>1, <1>2, <1>3, <1>4

(* The requests left are failed. *)
LEMMA AfterFail == ASSUME Inv, Fail PROVE Inv'
<1> USE LspClientAssumption DEF Inv, Fail, vars, clientVars, readerVars, serverVars
<1>1. /\ reader'.pc \in {"sweep", "done"} /\ reader'.msg = reader.msg
      /\ reader' \in [pc : ReaderPcs, msg : AnyMessages \cup {Empty}, left : SUBSET Ids]
  BY DEF TypeInv, ReaderPcs
<1>2. /\ box' \in [Ids -> Answers \cup {Empty}]
      /\ \A i \in Ids : box'[i].kind = "response" => box'[i] = box[i]
  <2>1. CASE UNCHANGED box
    BY <2>1 DEF TypeInv
  <2>2. ASSUME NEW i \in reader.left, box' = [box EXCEPT ![i] = Message("failure", i)]
        PROVE  <1>2!:
    <3>1. i \in Ids /\ Message("failure", i) \in Answers /\ Message("failure", i).kind = "failure"
      BY DEF TypeInv, Message, Answers, Messages, Kinds
    <3>2. QED
      BY <3>1, <2>2 DEF TypeInv
  <2>3. QED
    BY <2>1, <2>2
<1>3. TypeInv'
  BY <1>1, <1>2 DEF TypeInv
<1>4. CallInv'
  BY DEF CallInv
<1>5. IdInv'
  BY <1>1, <1>2 DEF IdInv, Asked, Answered
<1>6. StreamInv'
  BY <1>1, <1>2 DEF StreamInv, Stream, Reading
<1>7. QED
  BY <1>3, <1>4, <1>5, <1>6

(* The server answers. *)
LEMMA AfterAnswer == ASSUME Inv, Answer PROVE Inv'
<1> USE LspClientAssumption DEF Inv, Answer, vars, clientVars, readerVars, serverVars
<1>1. toServer \in Seq(Ids) /\ fromServer \in Seq(AnyMessages) /\ toServer # <<>> /\ sent \in 0..MaxNotifications
  BY DEF TypeInv
<1>2. PICK id \in Ids : id = Head(toServer)
  BY <1>1, HeadTailProperties
<1>3. PICK m \in AnyMessages : m = Message("response", id)
  <2>1. id \in Nat
    BY DEF Ids
  <2>2. Message("response", id) \in AnyMessages
    BY <2>1, <1>1 DEF Message, AnyMessages, Kinds
  <2>3. QED
    BY <2>2
<1>4. m.kind = "response" /\ m.id = id /\ m.after = sent
  BY <1>3 DEF Message
<1>5. /\ toServer' \in Seq(Ids) /\ Len(toServer) \in Nat /\ Len(toServer) # 0 /\ id = toServer[1]
      /\ Len(toServer') = Len(toServer) - 1 /\ \A k \in 1..Len(toServer') : toServer'[k] = toServer[k + 1]
  BY <1>1, <1>2, HeadTailProperties, LenProperties, EmptySeq
<1>6. /\ fromServer' = Append(fromServer, m) /\ fromServer' \in Seq(AnyMessages)
      /\ Len(fromServer) \in Nat /\ Len(fromServer') = Len(fromServer) + 1
      /\ fromServer'[Len(fromServer) + 1] = m /\ \A k \in 1..Len(fromServer) : fromServer'[k] = fromServer[k]
  <2>1. fromServer' = Append(fromServer, m)
    BY <1>2, <1>3
  <2>2. QED
    BY <2>1, <1>1, AppendProperties, LenProperties
<1>7. TypeInv'
  BY <1>5, <1>6 DEF TypeInv
<1>8. CallInv'
  BY DEF CallInv
<1>9. IdInv'
  <2>1. \A i \in Ids : Answered(i) => Answered(i)'
    BY <1>5 DEF Answered, Asked
  <2>2. Answered(id)'
    <3>1. Asked(id)
      BY <1>5 DEF IdInv
    <3>2. \A k \in 1..Len(toServer') : toServer'[k] # id
      BY <1>5 DEF IdInv
    <3>3. QED
      BY <3>1, <3>2 DEF Answered, Asked
  <2>3. \A i : Answered(i) => i \in Ids
    BY DEF Answered
  <2>4. /\ (\A k \in 1..Len(toServer) : Asked(toServer[k]))'
        /\ \A k, l \in 1..Len(toServer') : toServer'[k] = toServer'[l] => k = l
    BY <1>5 DEF IdInv, Asked
  <2>5. (\A k \in 1..Len(fromServer) : fromServer[k].kind = "response" => Answered(fromServer[k].id))'
    <3>1. SUFFICES ASSUME NEW k \in 1..Len(fromServer'), fromServer'[k].kind = "response"
                   PROVE  Answered(fromServer[k].id)'
      OBVIOUS
    <3>2. CASE k = Len(fromServer) + 1
      BY <3>2, <1>4, <1>6, <2>2 DEF Answered, Asked
    <3>3. CASE k \in 1..Len(fromServer)
      <4>1. Answered(fromServer[k].id) /\ fromServer'[k] = fromServer[k]
        BY <3>1, <3>3, <1>6 DEF IdInv
      <4>2. QED
        BY <4>1, <2>1, <2>3 DEF Answered, Asked
    <3>4. QED
      BY <3>2, <3>3, <1>6
  <2>6. /\ (reader.pc = "put" => Answered(reader.msg.id))'
        /\ (\A i \in Ids : box[i].kind = "response" => box[i].id = i /\ Answered(i))'
        /\ (caller.got.kind = "response" => caller.got.id = caller.id /\ Answered(caller.id))'
    BY <2>1, <2>3 DEF IdInv, Answered, Asked
  <2>7. QED
    BY <2>4, <2>5, <2>6 DEF IdInv
<1>10. StreamInv'
  <2>1. CASE reader.pc \in Reading
    <3>1. Stream(fromServer', Delivered, Level(m))
      BY <2>1, <1>1, <1>4, <1>6, DeliveredNat, StreamAppend DEF StreamInv
    <3>2. Level(m) = sent
      BY <1>4 DEF Level
    <3>3. Stream(fromServer, Delivered, sent)'
      BY <3>1, <3>2 DEF Stream, Level, Delivered
    <3>4. QED
      BY <3>3 DEF StreamInv, Stream
  <2>2. CASE reader.pc \notin Reading
    BY <2>2 DEF StreamInv
  <2>3. QED
    BY <2>1, <2>2
<1>11. QED
  BY <1>7, <1>8, <1>9, <1>10

(* The server notifies, with a request of its own before that or without. *)
LEMMA AfterInitiate == ASSUME Inv, Initiate PROVE Inv'
<1> USE LspClientAssumption DEF Inv, Initiate, vars, clientVars, readerVars, serverVars
<1>1. fromServer \in Seq(AnyMessages) /\ sent \in 0..MaxNotifications /\ sent \in Nat /\ sent + 1 \in 0..MaxNotifications
  BY DEF TypeInv
<1>2. PICK n \in AnyMessages : n = Message("notification", sent + 1)
  BY <1>1 DEF Message, AnyMessages, Kinds
<1>3. n.kind = "notification" /\ n.id = sent + 1 /\ n.after = sent
  BY <1>2 DEF Message
<1>4. PICK s \in Seq(AnyMessages) :
        /\ s = fromServer \/ \E m \in AnyMessages : m.kind = "request" /\ m.after = sent /\ s = Append(fromServer, m)
        /\ fromServer' = Append(s, n)
  <2>1. CASE fromServer' = Append(fromServer, Message("notification", sent + 1))
    BY <2>1, <1>1, <1>2
  <2>2. ASSUME NEW i \in Ids,
               fromServer' = fromServer \o <<Message("request", i), Message("notification", sent + 1)>>
        PROVE  \E s \in Seq(AnyMessages) :
                 /\ \E m \in AnyMessages : m.kind = "request" /\ m.after = sent /\ s = Append(fromServer, m)
                 /\ fromServer' = Append(s, n)
    <3>1. PICK m \in AnyMessages : m = Message("request", i)
      <4>1. i \in Nat
        BY DEF Ids
      <4>2. Message("request", i) \in AnyMessages
        BY <4>1, <1>1 DEF Message, AnyMessages, Kinds
      <4>3. QED
        BY <4>2
    <3>2. m.kind = "request" /\ m.after = sent
      BY <3>1 DEF Message
    <3>3. Append(fromServer, m) \in Seq(AnyMessages)
      BY <1>1, AppendProperties
    <3>4. fromServer' = Append(Append(fromServer, m), n)
      BY <2>2, <3>1, <1>1, <1>2
    <3>5. QED
      BY <3>2, <3>3, <3>4
  <2>3. QED
    BY <2>1, <2>2
<1>5. /\ Len(s) \in Nat /\ Len(fromServer') = Len(s) + 1 /\ fromServer'[Len(s) + 1] = n
      /\ \A k \in 1..Len(s) : fromServer'[k] = s[k]
      /\ fromServer' \in Seq(AnyMessages)
  BY <1>4, AppendProperties, LenProperties
<1>6. \A k \in 1..Len(s) : s[k].kind = "response" => k \in 1..Len(fromServer) /\ s[k] = fromServer[k]
  <2>1. ASSUME NEW m \in AnyMessages, m.kind = "request", s = Append(fromServer, m) PROVE <1>6
    <3>1. /\ Len(fromServer) \in Nat /\ Len(s) = Len(fromServer) + 1 /\ s[Len(fromServer) + 1] = m
          /\ \A k \in 1..Len(fromServer) : s[k] = fromServer[k]
      BY <2>1, <1>1, AppendProperties, LenProperties
    <3>2. QED
      BY <3>1, <2>1
  <2>2. QED
    BY <2>1, <1>4
<1>7. TypeInv'
  BY <1>1, <1>5 DEF TypeInv
<1>8. CallInv'
  BY DEF CallInv
<1>9. IdInv'
  <2>1. \A k \in 1..Len(fromServer') : fromServer'[k].kind = "response" => Answered(fromServer'[k].id)
    BY <1>3, <1>5, <1>6 DEF IdInv
  <2>2. QED
    BY <2>1 DEF IdInv, Asked, Answered
<1>10. StreamInv'
  <2>1. CASE reader.pc \in Reading
    <3>1. Stream(s, Delivered, sent)
      <4>1. ASSUME NEW m \in AnyMessages, m.kind = "request", m.after = sent, s = Append(fromServer, m) PROVE <3>1
        <5>1. Stream(Append(fromServer, m), Delivered, Level(m))
          BY <4>1, <2>1, <1>1, DeliveredNat, StreamAppend DEF StreamInv
        <5>2. QED
          BY <4>1, <5>1 DEF Level
      <4>2. QED
        BY <4>1, <2>1, <1>4 DEF StreamInv
    <3>2. Stream(fromServer', Delivered, Level(n))
      BY <3>1, <1>1, <1>3, <1>4, DeliveredNat, StreamAppend
    <3>3. Level(n) = sent + 1
      BY <1>3 DEF Level
    <3>4. Stream(fromServer, Delivered, sent)'
      BY <3>2, <3>3 DEF Stream, Level, Delivered
    <3>5. QED
      BY <3>4 DEF StreamInv, Stream
  <2>2. CASE reader.pc \notin Reading
    BY <2>2 DEF StreamInv
  <2>3. QED
    BY <2>1, <2>2
<1>11. QED
  BY <1>7, <1>8, <1>9, <1>10

(* The server writes something that is no message. *)
LEMMA AfterGarble == ASSUME Inv, Garble PROVE Inv'
<1> USE LspClientAssumption DEF Inv, Garble, vars, clientVars, readerVars, serverVars
<1>1. fromServer \in Seq(AnyMessages) /\ sent \in 0..MaxNotifications
  BY DEF TypeInv
<1>2. PICK m \in AnyMessages : m = Message("garbage", 0)
  BY <1>1 DEF Message, AnyMessages, Kinds
<1>3. m.kind = "garbage" /\ m.after = sent
  BY <1>2 DEF Message
<1>4. /\ fromServer' = Append(fromServer, m) /\ fromServer' \in Seq(AnyMessages)
      /\ Len(fromServer) \in Nat /\ Len(fromServer') = Len(fromServer) + 1
      /\ fromServer'[Len(fromServer) + 1] = m /\ \A k \in 1..Len(fromServer) : fromServer'[k] = fromServer[k]
  BY <1>1, <1>2, AppendProperties, LenProperties
<1>5. TypeInv'
  BY <1>4 DEF TypeInv
<1>6. CallInv'
  BY DEF CallInv
<1>7. IdInv'
  BY <1>3, <1>4 DEF IdInv, Asked, Answered
<1>8. StreamInv'
  <2>1. Stream(fromServer', Delivered, Level(m))
    BY <1>1, <1>3, <1>4, DeliveredNat, StreamAppend DEF StreamInv, Reading
  <2>2. Level(m) = sent
    BY <1>3 DEF Level
  <2>3. Stream(fromServer, Delivered, sent)'
    BY <2>1, <2>2 DEF Stream, Level, Delivered
  <2>4. QED
    BY <2>3 DEF StreamInv, Stream
<1>9. QED
  BY <1>5, <1>6, <1>7, <1>8

(* The server dies. *)
LEMMA AfterDie == ASSUME Inv, Die PROVE Inv'
<1> USE LspClientAssumption DEF Inv, Die, vars, clientVars, readerVars, serverVars
<1>1. TypeInv'
  BY DEF TypeInv
<1>2. CallInv'
  BY DEF CallInv
<1>3. IdInv'
  BY DEF IdInv, Asked, Answered
<1>4. StreamInv'
  BY DEF StreamInv, Stream, Delivered, Level
<1>5. QED
  BY <1>1, <1>2, <1>3, <1>4

-----------------------------------------------------------------------------
(* The theorems *)

LEMMA StepInv == Inv /\ [Next]_vars => Inv'
<1> SUFFICES ASSUME Inv, [Next]_vars PROVE Inv'
  OBVIOUS
<1>1. CASE Request
  <2>1. next < IF closeCalled' THEN MaxRequests + 1 ELSE MaxRequests
    BY <1>1 DEF Request
  <2>2. closeCalled' \in BOOLEAN /\ UNCHANGED <<readerVars, serverVars>>
    BY <1>1 DEF Request, Inv, TypeInv
  <2>3. QED
    BY <1>1, <2>1, <2>2, RegisterStep DEF Request
<1>2. CASE Close
  <2>1. next < IF closeCalled' THEN MaxRequests + 1 ELSE MaxRequests
    BY <1>2, LspClientAssumption DEF Close, Inv, TypeInv, Ids
  <2>2. closeCalled' \in BOOLEAN /\ UNCHANGED <<readerVars, serverVars>>
    BY <1>2 DEF Close
  <2>3. QED
    BY <1>2, <2>1, <2>2, RegisterStep DEF Close
<1>3. CASE Write \/ BrokenPipe \/ Unblock
  BY <1>3, AfterWrite
<1>4. CASE GetAnswer
  BY <1>4, AfterGetAnswer
<1>5. CASE TimeOut
  BY <1>5, AfterTimeOut
<1>6. CASE Pop
  BY <1>6, AfterPop
<1>7. CASE NotifyExit
  BY <1>7, AfterNotifyExit
<1>8. CASE CloseStdin
  BY <1>8, AfterCloseStdin
<1>9. CASE AwaitProcess
  BY <1>9, AfterAwaitProcess
<1>10. CASE AwaitKilled
  BY <1>10, AfterAwaitKilled
<1>11. CASE Read
  BY <1>11, AfterRead
<1>12. CASE Put
  BY <1>12, AfterPut
<1>13. CASE Tell
  BY <1>13, AfterTell
<1>14. CASE EndOfFile
  BY <1>14, AfterEndOfFile
<1>15. CASE Lose
  BY <1>15, AfterLose
<1>16. CASE Fail
  BY <1>16, AfterFail
<1>17. CASE Answer
  BY <1>17, AfterAnswer
<1>18. CASE Initiate
  BY <1>18, AfterInitiate
<1>19. CASE Garble
  BY <1>19, AfterGarble
<1>20. CASE Die
  BY <1>20, AfterDie
<1>21. CASE UNCHANGED vars
  <2> USE <1>21 DEF vars, clientVars, readerVars, serverVars
  <2>1. TypeInv'
    BY DEF Inv, TypeInv
  <2>2. CallInv'
    BY DEF Inv, CallInv
  <2>3. IdInv'
    BY DEF Inv, IdInv, Asked, Answered
  <2>4. StreamInv'
    BY DEF Inv, StreamInv, Stream, Level, Delivered
  <2>5. QED
    BY <2>1, <2>2, <2>3, <2>4 DEF Inv
<1>22. QED
  BY <1>1, <1>2, <1>3, <1>4, <1>5, <1>6, <1>7, <1>8, <1>9, <1>10, <1>11, <1>12, <1>13, <1>14, <1>15, <1>16, <1>17, <1>18, <1>19, <1>20, <1>21 DEF Next, CallerStep, ReaderStep, ServerStep, Finished

LEMMA Invariance == Spec => []Inv
<1>1. QED
  BY InitInv, StepInv, PTL DEF Spec

(* Whatever the server does, a request gets the answer to itself, leaves no *)
(* box behind, and a close that returned leaves no server behind: request,  *)
(* _read_loop and close of _lsp.py, for any number of requests.             *)
THEOREM Apart == Spec => []RequestsApart
<1>1. Inv => RequestsApart
  <2> SUFFICES ASSUME Inv PROVE RequestsApart
    OBVIOUS
  <2>1. TypeOK
    BY DEF Inv, TypeInv, TypeOK, Outcomes
  <2>2. AnswerIsMine
    BY DEF Inv, IdInv, Answered, AnswerIsMine
  <2>3. NoneLeft /\ ServerGone
    BY DEF Inv, CallInv, Waiting, NoneLeft, ServerGone
  <2>4. QED
    BY <2>1, <2>2, <2>3 DEF RequestsApart
<1>2. QED
  BY <1>1, Invariance, PTL

(* When a request returns, every notification the server sent before the    *)
(* answer has been handed to on_notification, in the order they were sent.  *)
THEOREM Barrier == Spec => []BarrierHolds
<1>1. Inv => BarrierHolds
  <2> SUFFICES ASSUME Inv PROVE BarrierHolds
    OBVIOUS
  <2>1. told \in Seq(Nat) /\ told \in [1..Len(told) -> Nat] /\ \A k \in 1..Len(told) : told[k] = k
    BY LenProperties DEF Inv, TypeInv, StreamInv
  <2>2. told = [k \in 1..Len(told) |-> k]
    BY <2>1
  <2>3. caller.got.kind = "response" => Len(told) >= caller.got.after
    <3>1. Len(told) \in Nat
      BY DeliveredNat DEF Inv
    <3>2. QED
      BY <3>1 DEF Inv, StreamInv
  <2>4. QED
    BY <2>2, <2>3 DEF BarrierHolds
<1>2. QED
  BY <1>1, Invariance, PTL
=============================================================================
