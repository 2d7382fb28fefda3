------------------------------ MODULE WsClient ------------------------------
(***************************************************************************)
(* The signalling connection of the device SDK (EasyRTC_websocket.c and    *)
(* osthread.c, with the registration of WsHandle.c and RTCCaller.c):       *)
(* an application creates a device or a caller, a worker thread connects   *)
(* it to the server, registers it and connects again when the connection   *)
(* is lost, and the application stops it.                                  *)
(*                                                                         *)
(* The worker and the application share, without a lock, the flag of the   *)
(* thread object, the pointer pDevice->websocket and the ids.  Sleeps are  *)
(* not modelled: a thread may be slow anywhere.                            *)
(***************************************************************************)
EXTENDS Naturals, Sequences

CONSTANT MaxQueue    (* bounds the messages in flight each way *)

ASSUME MaxQueueIsPositive == MaxQueue \in Nat \ {0}

VARIABLES
  kind,            (* how the application created it: "device" or "caller"  *)
  app,             (* where the application is                              *)
  flag,            (* OSTHREAD_OBJ_T.flag: THREAD_STATUS_...                *)
  websocket,       (* is pDevice->websocket set?                            *)
  local_id,        (* pDevice->local_id: "none" (empty), the configured     *)
                   (* "own", a temporary "temp", or "zero"                  *)
  peer_id,         (* is pDevice->peer_id set?                              *)
  pc,              (* where the worker is                                   *)
  recvbuf,         (* has the worker its receive buffer?                    *)
  registerStatus,  (* WSS_CLIENT_T.registerStatus                           *)
  due,             (* have 5 seconds passed since the last registration?    *)
  told,            (* the status last passed to connectCallback             *)
  link,            (* the TCP connection: "down", "open" or "lost"          *)
  toServer,        (* requests under way                                    *)
  toClient,        (* answers under way                                     *)
  served           (* requests the server has answered on this connection   *)

device == <<kind, local_id, peer_id>>
wss    == <<registerStatus, due, told>>
net    == <<link, toServer, toClient, served>>
vars   == <<kind, app, flag, websocket, local_id, peer_id, pc, recvbuf,
            registerStatus, due, told, link, toServer, toClient, served>>

Requests == {"login", "loginZero", "connect"}
Answers  == {"ackLogin", "ackConnect", "ackNoPeer", "closeFrame"}
InLoop   == pc \in {"loop", "call", "select"}

TypeOK ==
  /\ kind \in {"device", "caller"}
  /\ app \in {"idle", "creating", "ready", "asking", "stopping",
              "stopped"}
  /\ flag \in {"none", "create", "running", "exit", "init"}
  /\ websocket \in BOOLEAN /\ peer_id \in BOOLEAN /\ recvbuf \in BOOLEAN
  /\ local_id \in {"none", "own", "temp", "zero"}
  /\ pc \in {"none", "begin", "top", "dial", "handshake", "loop", "call",
             "select", "close", "exit", "gone"}
  /\ registerStatus \in BOOLEAN /\ due \in BOOLEAN
  /\ told \in {"none", "dnsFail", "connecting", "connectFail", "connected",
               "disconnect"}
  /\ link \in {"down", "open", "lost"}
  /\ toServer \in Seq(Requests) /\ toClient \in Seq(Answers)
  /\ served \subseteq Requests

Init ==
  /\ kind \in {"device", "caller"}
  /\ local_id = IF kind = "device" THEN "own" ELSE "none"
  /\ app = "idle" /\ flag = "none" /\ websocket = FALSE /\ peer_id = FALSE
  /\ pc = "none" /\ recvbuf = FALSE
  /\ registerStatus = FALSE /\ due = FALSE /\ told = "none"
  /\ link = "down" /\ toServer = << >> /\ toClient = << >> /\ served = {}

-----------------------------------------------------------------------------
(***************************************************************************)
(* The application.  CreateOSThread returns once the thread has set its    *)
(* flag, and only then is the pointer stored; DeleteOSThread asks a        *)
(* running thread to exit and waits until it has.  The failure of          *)
(* pthread_create is tested with < 0, and it returns none below: without a *)
(* thread the creator waits for its flag for ever.                         *)
(***************************************************************************)
Create ==
  /\ app = "idle"
  /\ app' = "creating" /\ flag' = "create" /\ pc' \in {"begin", "none"}
  /\ UNCHANGED <<device, websocket, recvbuf, wss, net>>

Started == flag \in {"running", "init"}

CreateReturns ==
  /\ app = "creating" /\ Started
  /\ app' = "ready"
  /\ websocket' = (flag # "init")     \* a thread that has ended is dropped
  /\ UNCHANGED <<device, flag, pc, recvbuf, wss, net>>

(* RTC_Caller_Connect with a peer: it is written down for the worker. *)
CallerConnect ==
  /\ app = "ready"
  /\ peer_id' = TRUE
  /\ UNCHANGED <<kind, app, flag, websocket, local_id, pc, recvbuf, wss, net>>

(* The flag is looked at, and set if the thread was running, in two steps. *)
Stop ==
  /\ app = "ready"
  /\ app' = IF ~websocket THEN "stopped"
            ELSE IF flag = "running" THEN "asking" ELSE "stopping"
  /\ UNCHANGED <<device, flag, websocket, pc, recvbuf, wss, net>>

AskToExit ==
  /\ app = "asking"
  /\ app' = "stopping" /\ flag' = "exit"
  /\ UNCHANGED <<device, websocket, pc, recvbuf, wss, net>>

(* Mutant: the worker is not waited for. *)
NotJoined == TRUE

Joined == flag = "init"

StopReturns ==
  /\ app = "stopping" /\ Joined
  /\ app' = "stopped" /\ websocket' = FALSE
  /\ UNCHANGED <<device, flag, pc, recvbuf, wss, net>>

-----------------------------------------------------------------------------
(***************************************************************************)
(* The worker thread.                                                      *)
(***************************************************************************)
Go(from, to) == pc = from /\ pc' = to

(* The receive buffer may not be had. *)
Begin ==
  /\ pc = "begin"
  /\ flag' = "running"
  /\ recvbuf' \in BOOLEAN
  /\ pc' = IF recvbuf' THEN "top" ELSE "exit"
  /\ UNCHANGED <<device, app, websocket, wss, net>>

(* A domain name may not resolve. *)
Resolve ==
  /\ flag # "exit"
  /\ \/ Go("top", "top") /\ told' = "dnsFail"
     \/ Go("top", "dial") /\ told' = "connecting"
  /\ UNCHANGED <<device, app, flag, websocket, recvbuf, registerStatus, due, net>>

Dial ==
  /\ \/ Go("dial", "top") /\ told' = "connectFail" /\ UNCHANGED link
     \/ Go("dial", "handshake") /\ link' = "open" /\ UNCHANGED told
  /\ served' = {}
  /\ UNCHANGED <<device, app, flag, websocket, recvbuf, registerStatus, due, toServer, toClient>>

Closed == link' = "down" /\ toServer' = << >> /\ toClient' = << >>

(* Mutant: the status of the last connection is kept. *)
StatusKept == registerStatus

StatusReset == FALSE

(* The upgrade request is sent and answered, or not. *)
Handshake ==
  /\ \/ /\ Go("handshake", "top")
        /\ told' = "disconnect"
        /\ Closed
        /\ UNCHANGED <<registerStatus, due>>
     \/ /\ link = "open"
        /\ Go("handshake", "loop")
        /\ told' = "connected"
        /\ registerStatus' = StatusReset
        /\ due' = TRUE
        /\ UNCHANGED <<link, toServer, toClient>>
  /\ UNCHANGED <<device, app, flag, websocket, recvbuf, served>>

(* websocketSendData: nothing is sent before the pointer is stored. *)
Sent(m) == IF websocket /\ link = "open" THEN Append(toServer, m) ELSE toServer

(* SendRegister of a client that has an id. *)
Login ==
  /\ local_id # "none"
  /\ toServer' = Sent(IF local_id = "zero" THEN "loginZero" ELSE "login")
  /\ Go("loop", "select")
  /\ UNCHANGED registerStatus

(* SendRegister of a client that has none, a caller: it counts as          *)
(* registered, if the pointer is stored, and then makes its call.          *)
RegisterCaller ==
  /\ local_id = "none"
  /\ registerStatus' = (registerStatus \/ websocket)
  /\ Go("loop", "call")
  /\ UNCHANGED toServer

Call ==
  /\ Go("call", "select")
  /\ toServer' = IF peer_id THEN Sent("connect") ELSE toServer
  /\ UNCHANGED <<device, app, flag, websocket, recvbuf, wss, link, toClient, served>>

Register ==
  /\ flag # "exit" /\ ~registerStatus /\ due
  /\ Login \/ RegisterCaller
  /\ due' = FALSE
  /\ UNCHANGED <<device, app, flag, websocket, recvbuf, told, link, toClient, served>>

(* Nothing to register now. *)
Wait ==
  /\ flag # "exit" /\ (registerStatus \/ ~due)
  /\ Go("loop", "select")
  /\ UNCHANGED <<device, app, flag, websocket, recvbuf, wss, net>>

(* select times out after a second without data: idleCallback. *)
Idle ==
  /\ link = "open" /\ toClient = << >>
  /\ Go("select", "loop")
  /\ UNCHANGED <<device, app, flag, websocket, recvbuf, wss, net>>

(* Messages that came together are handled before the loop begins again. *)
Receive ==
  /\ pc = "select" /\ toClient # << >>
  /\ toClient' = Tail(toClient)
  /\ \/ /\ Head(toClient) = "ackLogin"
        /\ registerStatus' = (registerStatus \/ websocket)
        /\ UNCHANGED <<local_id, told>>
     \/ /\ Head(toClient) \in {"ackConnect", "ackNoPeer"}
        /\ local_id' = IF Head(toClient) = "ackConnect" THEN "temp" ELSE "zero"
        /\ UNCHANGED <<registerStatus, told>>
     \/ /\ Head(toClient) = "closeFrame"
        /\ told' = "disconnect"
        /\ UNCHANGED <<local_id, registerStatus>>
  /\ \/ Head(toClient) = "closeFrame" /\ pc' = "close"
     \/ Head(toClient) # "closeFrame" /\ pc' = "loop"
     \/ Head(toClient) # "closeFrame" /\ Len(toClient) > 1 /\ pc' = "select"
  /\ UNCHANGED <<kind, peer_id, app, flag, websocket, recvbuf, due, link, toServer, served>>

(* The server is gone: recv returns 0 or an error. *)
LinkLost ==
  /\ link = "lost" /\ toClient = << >>
  /\ Go("select", "close")
  /\ UNCHANGED <<device, app, flag, websocket, recvbuf, wss, net>>

(* Mutant: the receive loop does not look at the flag. *)
NeverAsked == FALSE

AskedToExit == flag = "exit"

LeaveLoop ==
  /\ AskedToExit
  /\ Go("loop", "close")
  /\ UNCHANGED <<device, app, flag, websocket, recvbuf, wss, net>>

CloseLink ==
  /\ Go("close", "top")
  /\ Closed
  /\ UNCHANGED <<device, app, flag, websocket, recvbuf, wss, served>>

Leave ==
  /\ flag = "exit"
  /\ Go("top", "exit")
  /\ UNCHANGED <<device, app, flag, websocket, recvbuf, wss, net>>

Exit ==
  /\ Go("exit", "gone")
  /\ flag' = "init"
  /\ UNCHANGED <<device, app, websocket, recvbuf, wss, net>>

Worker == Begin \/ Resolve \/ Dial \/ Handshake \/ Register \/ Call \/ Wait
            \/ Idle \/ Receive \/ LinkLost \/ LeaveLoop \/ CloseLink \/ Leave
            \/ Exit

-----------------------------------------------------------------------------
(***************************************************************************)
(* The server, as far as one connection sees it (module SignalServer), and *)
(* the network.                                                            *)
(***************************************************************************)
Answer(m) == toClient' = Append(toClient, m)

Serve ==
  /\ link = "open" /\ toServer # << >> /\ Len(toClient) < MaxQueue
  /\ toServer' = Tail(toServer)
  /\ \/ /\ Head(toServer) = "login"
        /\ Answer("ackLogin")
        /\ served' = served \cup {"login"}
        /\ UNCHANGED link
     \/ /\ Head(toServer) = "loginZero"     \* refused: the server hangs up
        /\ link' = "lost"
        /\ UNCHANGED <<toClient, served>>
     \/ /\ Head(toServer) = "connect"
        /\ Answer("ackConnect") \/ Answer("ackNoPeer")
        /\ served' = served \cup {"connect"}
        /\ UNCHANGED link
  /\ UNCHANGED <<device, app, flag, websocket, pc, recvbuf, wss>>

Hangup ==
  /\ link = "open"
  /\ \/ link' = "lost" /\ UNCHANGED toClient
     \/ Len(toClient) < MaxQueue /\ Answer("closeFrame") /\ link' = "lost"
  /\ UNCHANGED <<device, app, flag, websocket, pc, recvbuf, wss, toServer, served>>

(* Mutant: a registration is never tried again. *)
NoRetry == FALSE /\ UNCHANGED vars

(* Five seconds pass.  A bound on the requests under way bounds the model. *)
Tick ==
  /\ InLoop /\ ~due /\ Len(toServer) < MaxQueue
  /\ due' = TRUE
  /\ UNCHANGED <<device, app, flag, websocket, pc, recvbuf, registerStatus, told, net>>

Next == Create \/ CreateReturns \/ CallerConnect \/ Stop \/ AskToExit
          \/ StopReturns \/ Worker \/ Serve \/ Hangup \/ Tick

Spec == Init /\ [][Next]_vars

(***************************************************************************)
(* Threads run, the server answers, time passes.  The handshake has no     *)
(* timeout in the code: that it ends, one way or the other, is the peer's. *)
(***************************************************************************)
FairSpec == Spec /\ WF_vars(Worker) /\ WF_vars(CreateReturns)
                 /\ WF_vars(AskToExit) /\ WF_vars(StopReturns)
                 /\ WF_vars(Serve) /\ WF_vars(Tick)

-----------------------------------------------------------------------------
(***************************************************************************)
(* Properties.                                                             *)
(***************************************************************************)

(* A device that counts as registered was logged in by the server on this  *)
(* very connection: neither an earlier connection's status nor an answer   *)
(* that was late on it counts.                                             *)
RegisteredIsAcked ==
  kind = "device" /\ InLoop /\ registerStatus => "login" \in served

(* When the stop has returned, and the client is freed, the worker neither *)
(* uses it nor calls the application again, and the connection is closed.  *)
GoneWhenStopped == app = "stopped" => pc = "gone" /\ link = "down"

(* The thread that could not get its buffer has ended between the stop's   *)
(* look at the flag and its store, which wiped out that it had: the stop   *)
(* waits for ever.                                                         *)
EndWipedOut == pc = "gone" /\ flag = "exit" /\ ~recvbuf

(* A stop returns, wherever the worker is when it is asked, but for that   *)
(* one case.                                                               *)
StopEnds == app \in {"asking", "stopping"} ~> app = "stopped" \/ EndWipedOut

(* A connected device gets registered, or loses the connection, or is told *)
(* to exit: also when the worker was faster than the creator and its first *)
(* login went nowhere because the pointer was not stored yet.              *)
DeviceRegisters ==
  (kind = "device" /\ InLoop /\ ~registerStatus) ~> (registerStatus \/ ~InLoop)

(* "local_id empty: this is only a caller": a caller never logs in.        *)
CallersNeverLogIn ==
  kind = "caller" =>
    \A n \in DOMAIN toServer : toServer[n] = "connect"

(* A caller that was given the other side before it counts as registered   *)
(* makes its call, or loses the connection first: also when the worker was *)
(* faster than the creator.  After that nothing makes it any more, and a   *)
(* client with an id of its own never calls.                               *)
Called == "connect" \in served \/ \E n \in DOMAIN toServer : toServer[n] = "connect"

CallIsMade ==
  (peer_id /\ local_id = "none" /\ InLoop /\ ~registerStatus) ~> (Called \/ ~InLoop)
=============================================================================
