--------------------------- MODULE WsClient_proofs ---------------------------
(***************************************************************************)
(* Proofs about WsClient, for any number of messages in flight.            *)
(***************************************************************************)
EXTENDS WsClient, TLAPS

(***************************************************************************)
(* The inductive invariant.  The thread's flag, which two threads write    *)
(* without a lock, tells where the worker is and what the application does *)
(* with it; the connection is down where the worker holds none; a device   *)
(* keeps its id, only ever logs in, and hears of a login that was served.  *)
(***************************************************************************)
FlagTellsWorker ==
  /\ flag = "none" <=> app = "idle"
  /\ flag = "create" => app = "creating"
  /\ flag = "exit" => app = "stopping"
  /\ flag \in {"none", "create"} <=> pc \in {"none", "begin"}
  /\ flag = "none" => pc = "none"
  /\ flag = "init" => pc = "gone"
  /\ pc = "gone" => flag = "init" \/ EndWipedOut
  /\ pc = "exit" => flag = "exit" \/ ~recvbuf

FlagTellsApp ==
  /\ app = "ready" => flag \in {"running", "init"} /\ (websocket \/ flag = "init")
  /\ app = "asking" => websocket /\ (flag = "running" \/ (flag = "init" /\ ~recvbuf))
  /\ app = "stopping" => websocket /\ flag \in {"exit", "init"}
  /\ app = "stopped" => flag = "init"

HoldsLink == pc \in {"handshake", "loop", "call", "select", "close"}

NoLinkNoMessages ==
  ~HoldsLink => link = "down" /\ toServer = << >> /\ toClient = << >>

DeviceLogsIn ==
  kind = "device" =>
    /\ local_id = "own" /\ pc # "call"
    /\ toServer \in Seq({"login"})
    /\ toClient \in Seq({"ackLogin", "closeFrame"})
    /\ "login" \notin served => toClient \in Seq({"closeFrame"})

IInv ==
  /\ TypeOK
  /\ FlagTellsWorker
  /\ FlagTellsApp
  /\ NoLinkNoMessages
  /\ DeviceLogsIn
  /\ RegisteredIsAcked

(* No thread, no connection and no messages initially. *)
LEMMA InitIInv == Init => IInv
<1> SUFFICES ASSUME Init
             PROVE  IInv
  OBVIOUS
<1> USE DEF Init
<1>1. TypeOK
  <2>1. local_id \in {"none", "own"}
    OBVIOUS
  <2>2. toServer \in Seq(Requests) /\ toClient \in Seq(Answers)
    OBVIOUS
  <2> QED BY <2>1, <2>2 DEF TypeOK
<1>2. FlagTellsWorker /\ FlagTellsApp /\ NoLinkNoMessages /\ RegisteredIsAcked
  BY DEF FlagTellsWorker, FlagTellsApp, EndWipedOut, NoLinkNoMessages, RegisteredIsAcked,
     InLoop
<1>3. DeviceLogsIn
  BY DEF DeviceLogsIn
<1> QED BY <1>1, <1>2, <1>3 DEF IInv

(* Messages in flight stay messages as they are sent and received. *)
LEMMA QueueType ==
  ASSUME NEW S, NEW q \in Seq(S)
  PROVE  /\ << >> \in Seq(S)
         /\ \A e \in S : Append(q, e) \in Seq(S)
         /\ q # << >> => Head(q) \in S /\ Tail(q) \in Seq(S)
  OBVIOUS

(* The two steps of a stop: between them the thread may end by itself.     *)
LEMMA StopIInv == IInv /\ (Stop \/ AskToExit) => IInv'
<1> SUFFICES ASSUME IInv, Stop \/ AskToExit
             PROVE  IInv'
  OBVIOUS
<1>0. TypeOK /\ FlagTellsWorker /\ FlagTellsApp
  BY DEF IInv
<1>1. /\ UNCHANGED <<device, websocket, pc, recvbuf, wss, net>>
      /\ \/ app = "ready" /\ app' = "stopped" /\ flag = "init" /\ flag' = flag
         \/ app = "ready" /\ app' = "asking" /\ websocket /\ flag = "running" /\ flag' = flag
         \/ app = "ready" /\ app' = "stopping" /\ websocket /\ flag = "init" /\ flag' = flag
         \/ app = "asking" /\ app' = "stopping" /\ websocket /\ flag' = "exit"
  BY <1>0 DEF Stop, AskToExit, FlagTellsApp, TypeOK
<1>2. TypeOK'
  BY <1>0, <1>1 DEF TypeOK, device, wss, net
<1>3. FlagTellsWorker'
  BY <1>0, <1>1 DEF FlagTellsWorker, FlagTellsApp, EndWipedOut
<1>4. FlagTellsApp'
  BY <1>0, <1>1 DEF FlagTellsApp
<1>5. NoLinkNoMessages' /\ DeviceLogsIn' /\ RegisteredIsAcked'
  BY <1>1 DEF IInv, NoLinkNoMessages, HoldsLink, DeviceLogsIn, RegisteredIsAcked, InLoop,
     device, wss, net
<1> QED BY <1>2, <1>3, <1>4, <1>5 DEF IInv

(* Every step of the application, the worker and the network preserves the *)
(* invariant.                                                              *)
LEMMA NextIInv == IInv /\ [Next]_vars => IInv'
<1> SUFFICES ASSUME IInv, [Next]_vars
             PROVE  IInv'
  OBVIOUS
<1> USE DEF IInv, TypeOK, FlagTellsWorker, FlagTellsApp, EndWipedOut, HoldsLink,
        NoLinkNoMessages, DeviceLogsIn, RegisteredIsAcked, InLoop, device, wss, net
<1>q. /\ toServer # << >> => Tail(toServer) \in Seq(Requests)
      /\ toClient # << >> => Tail(toClient) \in Seq(Answers)
      /\ \A e \in Requests : Append(toServer, e) \in Seq(Requests)
      /\ \A e \in Answers : Append(toClient, e) \in Seq(Answers)
  BY QueueType
<1>d. kind = "device" =>
        /\ toServer # << >> => Head(toServer) = "login" /\ Tail(toServer) \in Seq({"login"})
        /\ Append(toServer, "login") \in Seq({"login"})
        /\ Append(toClient, "ackLogin") \in Seq({"ackLogin", "closeFrame"})
        /\ Append(toClient, "closeFrame") \in Seq({"ackLogin", "closeFrame"})
        /\ "login" \notin served => Append(toClient, "closeFrame") \in Seq({"closeFrame"})
  BY QueueType
<1>1. CASE Create
  BY <1>1 DEF Create
<1>2. CASE CreateReturns
  <2> USE <1>2 DEF CreateReturns, Started
  <2>1. TypeOK'
    OBVIOUS
  <2>2. FlagTellsWorker'
    OBVIOUS
  <2>3. FlagTellsApp' /\ NoLinkNoMessages'
    OBVIOUS
  <2>4. DeviceLogsIn' /\ RegisteredIsAcked'
    OBVIOUS
  <2> QED BY <2>1, <2>2, <2>3, <2>4
<1>3. CASE CallerConnect
  BY <1>3 DEF CallerConnect
<1>4. CASE Stop \/ AskToExit
  BY <1>4, StopIInv
<1>5. CASE StopReturns
  BY <1>5 DEF StopReturns, Joined
<1>6. CASE Begin
  BY <1>6 DEF Begin
<1>7. CASE Resolve
  BY <1>7 DEF Resolve, Go
<1>8. CASE Dial
  BY <1>8 DEF Dial, Go
<1>9. CASE Handshake
  <2>1. CASE Go("handshake", "top") /\ Closed
    BY <1>9, <2>1 DEF Handshake, Go, Closed
  <2>2. CASE Go("handshake", "loop") /\ registerStatus' = FALSE
    BY <1>9, <2>2 DEF Handshake, Go, Closed
  <2> QED BY <1>9, <2>1, <2>2 DEF Handshake, StatusReset
<1>10. CASE Call
  BY <1>10 DEF Call, Go, Sent, Requests
<1>11. CASE Wait
  BY <1>11 DEF Wait, Go
<1>12. CASE Idle
  BY <1>12 DEF Idle, Go
<1>13. CASE LinkLost
  BY <1>13 DEF LinkLost, Go
<1>14. CASE LeaveLoop
  BY <1>14 DEF LeaveLoop, AskedToExit, Go
<1>15. CASE CloseLink
  BY <1>15 DEF CloseLink, Go, Closed
<1>16. CASE Leave
  BY <1>16 DEF Leave, Go
<1>17. CASE Exit
  BY <1>17 DEF Exit, Go
<1>18. CASE Hangup
  <2> USE <1>18 DEF Hangup, Answer, Answers
  <2>1. TypeOK'
    BY <1>q
  <2>2. FlagTellsWorker'
    OBVIOUS
  <2>3. FlagTellsApp' /\ NoLinkNoMessages'
    OBVIOUS
  <2>4. DeviceLogsIn' /\ RegisteredIsAcked'
    BY <1>d
  <2> QED BY <2>1, <2>2, <2>3, <2>4
<1>19. CASE Tick
  BY <1>19 DEF Tick
<1>20. CASE Register
  <2>1. CASE Login
    <3> USE <1>20, <2>1 DEF Register, Login, Sent, Go
    <3>1. TypeOK'
      BY <1>q DEF Requests
    <3>2. FlagTellsWorker' /\ FlagTellsApp'
      OBVIOUS
    <3>3. NoLinkNoMessages' /\ RegisteredIsAcked'
      OBVIOUS
    <3>4. DeviceLogsIn'
      BY <1>d
    <3> QED BY <3>1, <3>2, <3>3, <3>4
  <2>2. CASE RegisterCaller
    <3> USE <1>20, <2>2 DEF Register, RegisterCaller, Go
    <3>1. registerStatus' \in BOOLEAN
      OBVIOUS
    <3> QED BY <3>1
  <2> QED BY <1>20, <2>1, <2>2 DEF Register
<1>21. CASE Receive
  BY <1>21 DEF Receive, Answers
<1>22. CASE Serve
  <2> USE <1>22 DEF Serve, Answer
  <2>1. TypeOK'
    <3>1. toServer' \in Seq(Requests) /\ toClient' \in Seq(Answers)
      BY <1>q DEF Answers
    <3>2. served' \subseteq Requests /\ link' \in {"down", "open", "lost"}
      BY DEF Requests
    <3> QED BY <3>1, <3>2
  <2>2. FlagTellsWorker'
    OBVIOUS
  <2>3. FlagTellsApp' /\ NoLinkNoMessages'
    OBVIOUS
  <2>4. DeviceLogsIn' /\ RegisteredIsAcked'
    BY <1>d
  <2> QED BY <2>1, <2>2, <2>3, <2>4
<1>23. CASE UNCHANGED vars
  BY <1>23 DEF vars
<1> QED BY <1>1, <1>2, <1>3, <1>4, <1>5, <1>6, <1>7, <1>8, <1>9, <1>10, <1>11, <1>12, <1>13,
   <1>14, <1>15, <1>16, <1>17, <1>18, <1>19, <1>20, <1>21, <1>22, <1>23 DEF Next, Worker

(* The invariant holds in every reachable state. *)
LEMMA Invariant == Spec => []IInv
  BY InitIInv, NextIInv, PTL DEF Spec

(***************************************************************************)
(* The properties, for any number of messages in flight.                   *)
(***************************************************************************)
(* Every variable has its type; in particular the flag, the thread and the *)
(* connection are only ever in the states the code names.                  *)
THEOREM TypeCorrect == Spec => []TypeOK
<1>1. IInv => TypeOK
  BY DEF IInv
<1> QED BY <1>1, Invariant, PTL

(* A device counts as registered only by a login served on the connection  *)
(* it has now.                                                             *)
THEOREM RegistrationIsTrue == Spec => []RegisteredIsAcked
<1>1. IInv => RegisteredIsAcked
  BY DEF IInv
<1> QED BY <1>1, Invariant, PTL

(* The client is freed only when its worker has ended and closed the       *)
(* connection, although both write the flag without a lock.                *)
THEOREM StopJoinsWorker == Spec => []GoneWhenStopped
<1>1. IInv => GoneWhenStopped
  BY DEF IInv, FlagTellsApp, FlagTellsWorker, NoLinkNoMessages, HoldsLink, GoneWhenStopped
<1> QED BY <1>1, Invariant, PTL

-----------------------------------------------------------------------------
(***************************************************************************)
(* Two facts that liveness rests on: what a waiting thread waits for is    *)
(* never undone.                                                           *)
(***************************************************************************)
(* Two threads write the flag without a lock, and the stop looks at it     *)
(* before it writes.  Its request stays until the thread has ended, and    *)
(* wipes out the thread's own end only if that thread ended by itself, for *)
(* want of a receive buffer: DeleteOSThread hangs in no other case.        *)
THEOREM StopIsHeard ==
  Spec => /\ [][flag = "exit" => flag' = "exit" \/ pc' = "gone"]_vars
          /\ [](app \in {"asking", "stopping"} /\ pc = "gone" => Joined \/ ~recvbuf)
<1>1. IInv /\ [Next]_vars => [flag = "exit" => flag' = "exit" \/ pc' = "gone"]_vars
  BY DEF IInv, FlagTellsWorker, Next, Worker, Create, CreateReturns, CallerConnect, Stop,
     AskToExit, StopReturns, Begin, Resolve, Dial, Handshake, Register, Call, Wait, Idle,
     Receive, LinkLost, LeaveLoop, CloseLink, Leave, Exit, Go, Serve, Hangup, Tick, device,
     wss, net
<1>2. IInv => (app \in {"asking", "stopping"} /\ pc = "gone" => Joined \/ ~recvbuf)
  BY DEF IInv, FlagTellsWorker, EndWipedOut, Joined
<1> QED BY <1>1, <1>2, Invariant, PTL DEF Spec

(* Nobody counts as registered before the pointer is stored, when           *)
(* websocketSendData sends nothing: what a registered client has sent was   *)
(* sent indeed.                                                             *)
StatusNeedsPointer == InLoop /\ registerStatus => websocket

LEMMA StatusNeedsPointerNext ==
  IInv /\ StatusNeedsPointer /\ [Next]_vars => StatusNeedsPointer'
<1> SUFFICES ASSUME IInv, StatusNeedsPointer, [Next]_vars
             PROVE  StatusNeedsPointer'
  OBVIOUS
<1> USE DEF IInv, TypeOK, FlagTellsWorker, StatusNeedsPointer, InLoop, device, wss, net
<1>1. CASE CreateReturns
  BY <1>1 DEF CreateReturns, Started
<1>2. CASE StopReturns
  BY <1>2 DEF StopReturns, Joined
<1>3. CASE Handshake
  BY <1>3 DEF Handshake, StatusReset, Go
<1>4. CASE Create \/ CallerConnect \/ Stop \/ AskToExit \/ Serve \/ Hangup \/ Tick \/ UNCHANGED vars
  BY <1>4 DEF Create, CallerConnect, Stop, AskToExit, Serve, Hangup, Tick, vars
<1>5. CASE Register
  BY <1>5 DEF Register, Login, RegisterCaller, Go
<1>6. CASE Receive
  BY <1>6 DEF Receive
<1>7. CASE Begin \/ Resolve \/ Dial \/ Call \/ Wait \/ Idle \/ LinkLost \/ LeaveLoop
  BY <1>7 DEF Begin, Resolve, Dial, Call, Wait, Idle, LinkLost, LeaveLoop, Go
<1>8. CASE CloseLink \/ Leave \/ Exit
  BY <1>8 DEF CloseLink, Leave, Exit, Go
<1> QED BY <1>1, <1>2, <1>3, <1>4, <1>5, <1>6, <1>7, <1>8 DEF Next, Worker

(* In the receive loop a client that counts as registered has its pointer, *)
(* in every state (__EasyRTC_Worker_Thread, websocketSendData).             *)
THEOREM RegisteredHasPointer == Spec => []StatusNeedsPointer
<1>1. Init => StatusNeedsPointer
  BY DEF Init, StatusNeedsPointer
<1> QED BY <1>1, StatusNeedsPointerNext, Invariant, PTL DEF Spec

-----------------------------------------------------------------------------
(***************************************************************************)
(* What is true of the comment at WsHandle.c:207: a caller that has no id  *)
(* yet, on whichever connection, sends calls only.  It is the answer to    *)
(* one that makes it log in later.                                         *)
(***************************************************************************)
NewCallerOnlyCalls ==
  kind = "caller" /\ local_id = "none" =>
    toServer \in Seq({"connect"}) /\ toClient \in Seq(Answers \ {"ackLogin"})

LEMMA NewCallerNext == IInv /\ NewCallerOnlyCalls /\ [Next]_vars => NewCallerOnlyCalls'
<1> SUFFICES ASSUME IInv, NewCallerOnlyCalls, [Next]_vars,
                    kind' = "caller", local_id' = "none"
             PROVE  toServer' \in Seq({"connect"}) /\ toClient' \in Seq(Answers \ {"ackLogin"})
  BY DEF NewCallerOnlyCalls
<1> USE DEF device, wss, net
<1>1. /\ kind = "caller" /\ local_id = "none"
      /\ toServer \in Seq({"connect"}) /\ toClient \in Seq(Answers \ {"ackLogin"})
  <2>1. kind' = kind /\ (local_id' = local_id \/ local_id' \in {"temp", "zero"})
    BY DEF Next, Worker, Create, CreateReturns, CallerConnect, Stop, AskToExit, StopReturns, Begin,
       Resolve, Dial, Handshake, Register, Call, Wait, Idle, Receive, LinkLost, LeaveLoop,
       CloseLink, Leave, Exit, Serve, Hangup, Tick, vars
  <2> QED BY <2>1 DEF NewCallerOnlyCalls
<1>2. /\ toServer # << >> => Head(toServer) = "connect" /\ Tail(toServer) \in Seq({"connect"})
      /\ toClient # << >> => Tail(toClient) \in Seq(Answers \ {"ackLogin"})
      /\ Append(toServer, "connect") \in Seq({"connect"})
      /\ \A e \in Answers \ {"ackLogin"} : Append(toClient, e) \in Seq(Answers \ {"ackLogin"})
      /\ << >> \in Seq({"connect"}) /\ << >> \in Seq(Answers \ {"ackLogin"})
  BY <1>1, QueueType
<1>3. CASE Register \/ Call
  BY <1>1, <1>2, <1>3 DEF Register, Login, RegisterCaller, Call, Sent
<1>4. CASE Serve \/ Hangup
  BY <1>1, <1>2, <1>4 DEF Serve, Hangup, Answer, Answers
<1>5. CASE Receive
  BY <1>1, <1>2, <1>5 DEF Receive
<1>6. CASE Handshake \/ CloseLink
  BY <1>1, <1>2, <1>6 DEF Handshake, CloseLink, Closed
<1>7. ASSUME UNCHANGED <<toServer, toClient>>
      PROVE  toServer' \in Seq({"connect"}) /\ toClient' \in Seq(Answers \ {"ackLogin"})
  BY <1>1, <1>7
<1> QED BY <1>3, <1>4, <1>5, <1>6, <1>7 DEF Next, Worker, Create, CreateReturns,
           CallerConnect, Stop, AskToExit, StopReturns, Begin, Resolve, Dial, Wait, Idle, LinkLost,
           LeaveLoop, Leave, Exit, Tick, vars

(* A caller that was never given an id sends no login, and gets no answer  *)
(* to one (SendRegister).                                                  *)
THEOREM CallersWithoutIdOnlyCall ==
  Spec => [](local_id = "none" => CallersNeverLogIn)
<1>1. NewCallerOnlyCalls => (local_id = "none" => CallersNeverLogIn)
  BY DEF NewCallerOnlyCalls, CallersNeverLogIn
<1>2. Init => NewCallerOnlyCalls
  BY QueueType DEF Init, NewCallerOnlyCalls
<1> QED BY <1>1, <1>2, NewCallerNext, Invariant, PTL DEF Spec
=============================================================================
