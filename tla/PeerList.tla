------------------------------- MODULE PeerList -------------------------------
(***************************************************************************)
(* The list of calls of a device (RTCPeer.c, RTCDevice.c, WsHandle.c): a   *)
(* linked list of EASYRTC_PEER_T, each with a publisher and a subscriber   *)
(* connection of libEasyRTC.  Three kinds of threads use it: the worker of *)
(* the signalling connection (module WsClient), which enters and replaces  *)
(* calls and reaps the dead ones; threads of the application; and those of *)
(* libEasyRTC, which report the state of a connection.                     *)
(*                                                                         *)
(* The application's calls and the reaper hold peerMutex throughout.  The  *)
(* worker's message handlers hold it only around deletePeerByUUID: their   *)
(* steps are actions of their own.  A walk of the list is one step.        *)
(***************************************************************************)
EXTENDS Naturals, Sequences

CONSTANTS
  Uuids,      (* ids of the other sides                                   *)
  Nodes,      (* memory for EASYRTC_PEER_T, used again once freed         *)
  NoNode,     (* NULL                                                     *)
  AppCalls    (* what application threads call: "send", "respond" (after  *)
              (* answering 0 to PASSIVE_CALL) and "hangup"                *)

ASSUME ConstantsOK ==
  /\ NoNode \notin Nodes
  /\ AppCalls \subseteq {"send", "respond", "hangup"}

VARIABLES
  list,        (* pDevice->peerList, as the sequence of its nodes           *)
  live,        (* the nodes that are allocated                              *)
  uuid,        (* EASYRTC_PEER_T.uuid, kept in memory that has been freed   *)
  operateType, (* OPERATE_TYPE_WAITING or OPERATE_TYPE_WORKING              *)
  old,         (* nodes created 30 seconds ago or more                      *)
  conns,       (* the connections of a node that exist                      *)
  connected,   (* the connected flags of a node that are set                *)
  orphans,     (* has the last pointer to a connection been lost?           *)
  pc,          (* where the worker is                                       *)
  msg,         (* the message it handles: its kind and the other side's id  *)
  peer,        (* its pointer to a node                                     *)
  tail,        (* the node it will link a new one to                        *)
  sending,     (* the node a sender works on; it holds peerMutex            *)
  knows        (* what the application knows of an id: it was told of its   *)
               (* call, or has hung up and it sent nothing since            *)

node == <<live, uuid, operateType, old>>
conn == <<conns, connected, orphans>>
work == <<pc, msg, peer, tail>>
appl == <<sending, knows>>
vars == <<list, live, uuid, operateType, old, conns, connected, orphans, pc,
          msg, peer, tail, sending, knows>>

Types == {"publisher", "subscriber"}
Kinds == {"call", "offer", "answer"}
Listed == {list[n] : n \in DOMAIN list}

TypeOK ==
  /\ list \in Seq(Nodes) /\ live \subseteq Nodes /\ old \subseteq Nodes
  /\ uuid \in [Nodes -> Uuids]
  /\ operateType \in [Nodes -> {"waiting", "working"}]
  /\ conns \in [Nodes -> SUBSET Types] /\ connected \in [Nodes -> SUBSET Types]
  /\ orphans \in BOOLEAN
  /\ pc \in {"idle", "release", "delete", "create", "link", "find", "tell",
             "respond", "connect", "describe", "reap", "stopped"}
  /\ msg \in [kind : Kinds, from : Uuids]
  /\ peer \in Nodes \cup {NoNode} /\ tail \in Nodes \cup {NoNode}
  /\ sending \in Nodes \cup {NoNode}
  /\ knows \in [Uuids -> {"nothing", "called", "ended"}]
  /\ pc \in {"release", "link", "tell", "connect", "describe"} => peer # NoNode

Init ==
  /\ list = << >> /\ live = {} /\ old = {}
  /\ uuid \in [Nodes -> Uuids]
  /\ operateType = [n \in Nodes |-> "waiting"]
  /\ conns = [n \in Nodes |-> {}] /\ connected = [n \in Nodes |-> {}]
  /\ orphans = FALSE /\ pc = "idle"
  /\ msg \in [kind : Kinds, from : Uuids]
  /\ peer = NoNode /\ tail = NoNode /\ sending = NoNode
  /\ knows = [u \in Uuids |-> "nothing"]

-----------------------------------------------------------------------------
(* findPeerByUUID: the first node with that id. *)
Find(u) ==
  IF \A n \in Listed : uuid[n] # u THEN NoNode
  ELSE list[CHOOSE i \in DOMAIN list :
              uuid[list[i]] = u /\ \A j \in 1 .. (i - 1) : uuid[list[j]] # u]

Unlocked == sending = NoNode

(* EasyRTC_ReleasePeer, for the nodes ns; the connected flags stay. *)
Released(ns) == conns' = [n \in Nodes |-> IF n \in ns THEN {} ELSE conns[n]]

(* The list t has the nodes of the list but ns, in the same order. *)
IsRest(t, ns) ==
  /\ {t[i] : i \in DOMAIN t} = Listed \ ns
  /\ \A i, j \in DOMAIN t :
       i < j => \E k, l \in DOMAIN list : k < l /\ t[i] = list[k] /\ t[j] = list[l]

(* deletePeerByUUID, for the nodes ns. *)
Deleted(ns) ==
  /\ \E k \in 0 .. Len(list) : \E t \in [1 .. k -> Listed \ ns] :
       IsRest(t, ns) /\ list' = t
  /\ live' = live \ ns

-----------------------------------------------------------------------------
(***************************************************************************)
(* The worker: HP_REQGETWEBRTCOFFER_INFO ("call"), HP_NTIWEBRTCOFFER_INFO2 *)
(* ("offer") and HP_NTIWEBRTCANSWER_INFO ("answer").  A call or an offer   *)
(* of a known other side replaces its node.                                *)
(***************************************************************************)
Goto(from, to) == pc = from /\ pc' = to

Return(from) == Goto(from, "idle") /\ peer' = NoNode

Receive(kind, u) ==
  /\ msg' = [kind |-> kind, from |-> u]
  /\ peer' = Find(u)
  /\ \/ /\ peer' # NoNode
        /\ Goto("idle", IF kind = "answer" THEN "describe" ELSE "release")
     \/ /\ peer' = NoNode
        /\ Goto("idle", IF kind = "answer" THEN "idle" ELSE "create")
  /\ knows' = [knows EXCEPT ![u] = IF @ = "ended" THEN "nothing" ELSE @]
  /\ UNCHANGED <<list, node, conn, tail, sending>>

(* Mutant: the node is deleted, its connections are not released. *)
NotReleased == UNCHANGED conns

ReleasedOld == Released({peer})

(* EasyRTC_ReleasePeer waits for the node's own lock, not for peerMutex. *)
Release ==
  /\ sending # peer
  /\ Goto("release", "delete")
  /\ ReleasedOld
  /\ UNCHANGED <<list, node, connected, orphans, msg, peer, tail, appl>>

(* Mutant: the node is deleted without the lock. *)
AnyTime == TRUE

MayDelete == Unlocked

(* Mutant: the head of the list is taken for the node.  *)
FirstNode(u) == IF list = << >> THEN NoNode ELSE list[1]

Replaced(u) == Find(u)

Delete ==
  LET n == Replaced(msg.from)
  IN  /\ MayDelete
      /\ Goto("delete", "create")
      /\ Deleted({n})
      /\ orphans' = (orphans \/ (n # NoNode /\ conns[n] # {}))
      /\ UNCHANGED <<uuid, operateType, old, conns, connected, msg, peer, tail, appl>>

(* insertPeerAtTail: a node is made, and the end of the list found... *)
Create ==
  /\ Goto("create", "link")
  /\ \E n \in Nodes \ live :
       /\ live' = live \cup {n}
       /\ old' = old \ {n}
       /\ uuid' = [uuid EXCEPT ![n] = msg.from]
       /\ operateType' = [operateType EXCEPT ![n] = "waiting"]
       /\ connected' = [connected EXCEPT ![n] = {}]
       /\ peer' = n
  /\ tail' = IF list = << >> THEN NoNode ELSE list[Len(list)]
  /\ UNCHANGED <<list, conns, orphans, msg, appl>>

(* ... and the node linked there, or to nothing if that has gone meanwhile. *)
Link ==
  /\ Goto("link", "find")
  /\ list' = IF tail = NoNode \/ tail \in Listed THEN Append(list, peer) ELSE list
  /\ tail' = NoNode
  /\ UNCHANGED <<node, conn, msg, peer, appl>>

(* Mutant: the pointer is taken for found. *)
AnyPointer(p) == TRUE

Found(p) == p # NoNode

FindNew ==
  /\ peer' = Find(msg.from)
  /\ Goto("find", IF Found(peer') THEN "tell" ELSE "idle")
  /\ UNCHANGED <<list, node, conn, msg, tail, appl>>

(* The application is told, and accepts a call at once (1) or not (0). *)
Tell ==
  /\ \/ msg.kind = "call" /\ Goto("tell", "respond") /\ UNCHANGED peer
     \/ msg.kind = "call" /\ Return("tell")
     \/ msg.kind = "offer" /\ Goto("tell", "connect") /\ UNCHANGED peer
  /\ knows' = [knows EXCEPT ![msg.from] = IF msg.kind = "call" THEN "called" ELSE @]
  /\ UNCHANGED <<list, node, conn, msg, tail, sending>>

(* EasyRTC_CreatePeer, when it makes a connection: one there was already is *)
(* overwritten, the connected flag stays.                                  *)
Made(n, type) ==
  /\ conns' = [conns EXCEPT ![n] = @ \cup {type}]
  /\ UNCHANGED connected
  /\ orphans' = (orphans \/ type \in conns[n])

(* RTC_Device_PassiveCallResponse, which accepts. *)
Respond(u) ==
  /\ Unlocked
  /\ LET n == Find(u)
     IN  \/ /\ n # NoNode
            /\ Made(n, "publisher")
            /\ \/ operateType' = [operateType EXCEPT ![n] = "working"]
               \/ UNCHANGED operateType       \* no offer could be made
         \/ UNCHANGED <<conn, operateType>>   \* no such node, no connection

WorkerResponds ==
  /\ Return("respond")
  /\ Respond(msg.from)
  /\ UNCHANGED <<list, live, uuid, old, msg, tail, appl>>

(* Offer: the subscriber is made with the pointer found before. *)
Connect ==
  /\ Return("connect")
  /\ Made(peer, "subscriber") \/ UNCHANGED conn
  /\ UNCHANGED <<list, node, msg, tail, appl>>

(* Answer: the remote description is set through the pointer. *)
Describe ==
  /\ Return("describe")
  /\ UNCHANGED <<list, node, conn, msg, tail, appl>>

(* Mutant: the calls that were never answered are not looked at. *)
Broken(n) == n \in old /\ conns[n] \ connected[n] # {}

(* __ws_idle_callback: the calls that are 30 seconds old and not at work,  *)
(* or have a connection that is not connected, are released.               *)
Dead(n) ==
  n \in old /\ (operateType[n] # "working" \/ conns[n] \ connected[n] # {})

DeadOnes == {n \in Listed : Dead(n)}

Timeout == Goto("idle", "reap") /\ UNCHANGED <<list, node, conn, msg, peer, tail, appl>>

Reap ==
  /\ Goto("reap", "idle") /\ Unlocked
  /\ Released(DeadOnes)
  /\ Deleted(DeadOnes)
  /\ knows' = [u \in Uuids |->
                 IF \E n \in DeadOnes : uuid[n] = u THEN "nothing" ELSE knows[u]]
  /\ UNCHANGED <<uuid, operateType, old, connected, orphans, msg, peer, tail, sending>>

Worker == Release \/ Delete \/ Create \/ Link \/ FindNew \/ Tell
            \/ WorkerResponds \/ Connect \/ Describe \/ Reap

-----------------------------------------------------------------------------
(***************************************************************************)
(* Threads of the application.                                             *)
(***************************************************************************)
(* RTC_Device_SendVideoFrame, ...AudioFrame, ...CustomData: the connected  *)
(* connections of every node are sent to, under the node's own lock.       *)
Send ==
  /\ "send" \in AppCalls /\ pc # "stopped"
  /\ Unlocked /\ list # << >>
  /\ sending' = list[1]
  /\ UNCHANGED <<list, node, conn, work, knows>>

SendNext ==
  /\ sending # NoNode
  /\ \E i \in DOMAIN list : /\ list[i] = sending
                            /\ sending' = IF i < Len(list) THEN list[i + 1] ELSE NoNode
  /\ UNCHANGED <<list, node, conn, work, knows>>

AppResponds(u) ==
  /\ "respond" \in AppCalls /\ pc # "stopped"
  /\ Respond(u)
  /\ UNCHANGED <<list, live, uuid, old, work, appl>>

(* RTC_Device_Hangup *)
Hangup(u) ==
  /\ "hangup" \in AppCalls /\ pc # "stopped"
  /\ Unlocked /\ Find(u) # NoNode
  /\ Released({Find(u)})
  /\ Deleted({Find(u)})
  /\ knows' = [knows EXCEPT ![u] = "ended"]
  /\ UNCHANGED <<uuid, operateType, old, connected, orphans, work, sending>>

(* RTC_Device_Stop: the worker has ended (WsClient), the list is released. *)
Stop ==
  /\ Goto("idle", "stopped") /\ Unlocked
  /\ Released(Listed)
  /\ Deleted(Listed)
  /\ UNCHANGED <<uuid, operateType, old, connected, orphans, msg, peer, tail, appl>>

-----------------------------------------------------------------------------
(***************************************************************************)
(* __EasyRTC_ConnectionStateChange_Callback, on a thread of libEasyRTC and *)
(* without a lock.  A connection that is released calls back no more.      *)
(***************************************************************************)
StateChange(n, type) ==
  /\ type \in conns[n]
  /\ \/ /\ connected' = [connected EXCEPT ![n] = @ \cup {type}]
        /\ operateType' = [operateType EXCEPT ![n] = "working"]
     \/ /\ connected' = [connected EXCEPT ![n] = @ \ {type}]
        /\ operateType' = [operateType EXCEPT ![n] = "waiting"]
     \/ /\ connected' = [connected EXCEPT ![n] = @ \ {type}]
        /\ UNCHANGED operateType
  /\ UNCHANGED <<list, live, uuid, old, conns, orphans, work, appl>>

(* Thirty seconds pass since a node was made. *)
Age(n) ==
  /\ n \in live \ old
  /\ old' = old \cup {n}
  /\ UNCHANGED <<list, live, uuid, operateType, conn, work, appl>>

Next ==
  \/ \E kind \in Kinds, u \in Uuids : Receive(kind, u)
  \/ Worker \/ Timeout \/ Send \/ SendNext \/ Stop
  \/ \E u \in Uuids : AppResponds(u) \/ Hangup(u)
  \/ \E n \in Nodes : Age(n) \/ \E type \in Types : StateChange(n, type)

Spec == Init /\ [][Next]_vars

(***************************************************************************)
(* The worker handles what it has begun and gets the lock it waits for, a  *)
(* sender sends, time passes.  The reaper runs when select times out: that *)
(* the server is connected and falls silent for a second again and again   *)
(* is assumed of the network.                                              *)
(***************************************************************************)
Fairness == /\ SF_vars(Worker) /\ SF_vars(Timeout) /\ WF_vars(SendNext)
            /\ \A n \in Nodes : WF_vars(Age(n))

FairSpec == Spec /\ Fairness

-----------------------------------------------------------------------------
(***************************************************************************)
(* Properties                                                              *)
(***************************************************************************)
(* The pointers the worker and the senders are about to follow. *)
Followed ==
  (IF pc \in {"release", "link", "connect", "describe"} THEN {peer} ELSE {})
    \cup (IF pc = "link" THEN {tail} \ {NoNode} ELSE {})
    \cup ({sending} \ {NoNode})

(***************************************************************************)
(* The worker, which walks the list without the lock, and the senders,     *)
(* which leave the worker's handlers to run beside them, only ever follow  *)
(* pointers to nodes that are allocated.                                   *)
(***************************************************************************)
NoUseAfterFree == Followed \subseteq live

(***************************************************************************)
(* A connection of libEasyRTC is always held by an allocated node, and a   *)
(* node by the list or the worker that is linking it, so that a later      *)
(* release reaches both: no pointer to a connection is overwritten, none   *)
(* stays behind in a node that was freed.                                  *)
(***************************************************************************)
NoOrphan ==
  /\ ~orphans
  /\ \A n \in Nodes \ live : conns[n] = {}
  /\ live = Listed \cup (IF pc = "link" THEN {peer} ELSE {})

(***************************************************************************)
(* Each other side has at most one node in the list, and the list holds    *)
(* only allocated nodes, whatever the application calls and however that   *)
(* falls between the steps of the worker: a call that comes again replaces *)
(* the one before.                                                         *)
(***************************************************************************)
OneNodePerCall ==
  /\ Listed \subseteq live
  /\ \A i, j \in DOMAIN list : uuid[list[i]] = uuid[list[j]] => i = j

(***************************************************************************)
(* A call that nobody answers, or whose connection never comes up or       *)
(* breaks, does not stay for ever: it is taken to work or it goes.         *)
(***************************************************************************)
UnansweredCallsGo ==
  \A n \in Nodes :
    n \in live /\ operateType[n] = "waiting"
      ~> n \notin live \/ operateType[n] = "working"

(***************************************************************************)
(* A call the application was told of is found by a response, until the    *)
(* reaper removes it after 30 seconds: but for the moment in which the     *)
(* worker replaces it, when it has deleted the old node and not yet linked *)
(* the new one.                                                            *)
(***************************************************************************)
UnknownOnlyIfReplaced ==
  Unlocked /\ pc # "stopped" =>
    \A u \in Uuids :
      knows[u] = "called" /\ Find(u) = NoNode => pc \in {"create", "link"} /\ msg.from = u

(***************************************************************************)
(* Hanging up ends a call: a node it has freed gets no connection after    *)
(* that (EasyRTC_Device_Hangup).                                           *)
(***************************************************************************)
HangupEndsCall ==
  \A n \in Nodes \ live : knows[uuid[n]] = "ended" => conns[n] = {}

=============================================================================
