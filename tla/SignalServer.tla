---------------------------- MODULE SignalServer ----------------------------
(***************************************************************************)
(* The registry of the WebSocket signalling server (signalserver/main.cpp).*)
(*                                                                         *)
(* HP-Socket delivers the callbacks of one connection one after the other, *)
(* and those of different connections on different worker threads.  A      *)
(* connection's structure HP_WBSPEER_INFO is therefore written by its own  *)
(* callbacks, without a lock, and by the callbacks of others under         *)
(* g_csHPWBSPeerInfo, the lock of the map from ids to structures.  Each    *)
(* handler is cut where it takes or leaves that lock (module               *)
(* CriticalSection is the lock itself), so that the parts of different     *)
(* handlers interleave as the threads do.                                  *)
(***************************************************************************)
EXTENDS Integers, Sequences

CONSTANTS
  Conns,      (* connections, each with its HP_WBSPEER_INFO               *)
  Devices,    (* ids that devices are configured to log in with           *)
  TempIds,    (* ids uuid_generate can return; bounds the callers served  *)
  Keys,       (* access keys                                              *)
  ZeroKey,    (* the key of a structure that never logged in              *)
  NoId,       (* the all-zero id                                          *)
  NoConn,     (* no map entry                                             *)
  SwitchIds   (* may a client log in under an id its connection has not?  *)

Ids == Devices \cup TempIds

ASSUME ConstantsOK ==
  /\ Devices \cap TempIds = {}
  /\ NoId \notin Ids
  /\ NoConn \notin Conns
  /\ ZeroKey \in Keys
  /\ SwitchIds \in BOOLEAN

VARIABLES
  life,      (* of the structure: "free", "handshake" or "connected"      *)
  myid,      (* id of the connection                                      *)
  role,      (* WEBRTC_ROLE_...                                           *)
  alive,     (* 1 in use; 0 once another connection took the id over      *)
  mykey,     (* key given at login                                        *)
  registry,  (* g_HPWBSPeerInfo_map                                       *)
  issued,    (* temporary ids that have been entered in the map           *)
  kicked,    (* connections HP_Server_Disconnect was called for           *)
  pc,        (* where the connection's callback is                        *)
  req,       (* the request that callback is working on                   *)
  reply,     (* what it sends once it has left the lock                   *)
  out        (* messages sent by the last step, in order                  *)

peer == <<life, myid, role, alive, mykey>>
work == <<pc, req, reply>>
vars == <<life, myid, role, alive, mykey, registry, issued, kicked, pc, req,
          reply, out>>

(***************************************************************************)
(* Messages.  myid and hisid are the fields of those names; ids is the     *)
(* list of an ACK_GETONLINEDEVICES_INFO.                                   *)
(***************************************************************************)
ReqTypes == {"connect", "offer", "answer"}
MsgTypes == {"ackLogin", "ackConnect", "getOffer", "offer", "answer", "devices"}
Roles    == {"invalid", "offer", "answer"}
Statuses == -4 .. 0

Request == [type : ReqTypes, id : Ids, key : Keys]
NoReq   == [type |-> "none", id |-> NoId, key |-> ZeroKey]

Message == [to : Conns, type : MsgTypes, myid : Ids \cup {NoId},
            hisid : Ids \cup {NoId}, status : Statuses, ids : SUBSET Ids]
NoMsg   == [to |-> NoConn, type |-> "none", myid |-> NoId, hisid |-> NoId,
            status |-> 0, ids |-> {}]

Msg(c, type, mine, his, status) ==
  [to |-> c, type |-> type, myid |-> mine, hisid |-> his, status |-> status,
   ids |-> {}]

TypeOK ==
  /\ life \in [Conns -> {"free", "handshake", "connected"}]
  /\ myid \in [Conns -> Ids \cup {NoId}]
  /\ role \in [Conns -> Roles]
  /\ alive \in [Conns -> {0, 1}]
  /\ mykey \in [Conns -> Keys]
  /\ registry \in [Ids -> Conns \cup {NoConn}]
  /\ issued \subseteq TempIds
  /\ kicked \subseteq Conns
  /\ pc \in [Conns -> {"idle", "insert", "lookup", "forward", "reply", "error",
                       "freeing"}]
  /\ req \in [Conns -> Request \cup {NoReq}]
  /\ reply \in [Conns -> Message \cup {NoMsg}]
  /\ out \in Seq(Message)

Init ==
  /\ life = [c \in Conns |-> "free"]
  /\ myid = [c \in Conns |-> NoId]
  /\ role = [c \in Conns |-> "invalid"]
  /\ alive = [c \in Conns |-> 0]
  /\ mykey = [c \in Conns |-> ZeroKey]
  /\ registry = [i \in Ids |-> NoConn]
  /\ issued = {}
  /\ kicked = {}
  /\ pc = [c \in Conns |-> "idle"]
  /\ req = [c \in Conns |-> NoReq]
  /\ reply = [c \in Conns |-> NoMsg]
  /\ out = << >>

At(c, where) == life[c] = "connected" /\ pc[c] = where

Goto(c, where) == pc' = [pc EXCEPT ![c] = where]

(* Leave the lock with message m still to be sent by c's own thread. *)
ReplyWith(c, m) ==
  /\ reply' = [reply EXCEPT ![c] = m]
  /\ Goto(c, "reply")

(***************************************************************************)
(* Connection set-up.                                                      *)
(***************************************************************************)
ZeroPeer(c) ==
  /\ myid' = [myid EXCEPT ![c] = NoId]
  /\ role' = [role EXCEPT ![c] = "invalid"]
  /\ alive' = [alive EXCEPT ![c] = 0]
  /\ mykey' = [mykey EXCEPT ![c] = ZeroKey]

Accept(c) ==
  /\ life[c] = "free"
  /\ life' = [life EXCEPT ![c] = "handshake"]
  /\ ZeroPeer(c)
  /\ out' = << >>
  /\ UNCHANGED <<registry, issued, kicked, work>>

(* A complete upgrade request is answered; anything else is an error. *)
Handshake(c) ==
  /\ life[c] = "handshake" /\ pc[c] = "idle"
  /\ \/ /\ life' = [life EXCEPT ![c] = "connected"]
        /\ role' = [role EXCEPT ![c] = "invalid"]
        /\ UNCHANGED pc
     \/ /\ Goto(c, "error")
        /\ UNCHANGED <<life, role>>
  /\ out' = << >>
  /\ UNCHANGED <<myid, alive, mykey, registry, issued, kicked, req, reply>>

(* A frame or message the handler answers with -1: the receive callback   *)
(* returns HR_ERROR and HP-Socket closes the connection.                   *)
BadMessage(c) ==
  /\ At(c, "idle")
  /\ Goto(c, "error")
  /\ out' = << >>
  /\ UNCHANGED <<peer, registry, issued, kicked, req, reply>>

(***************************************************************************)
(* HP_REQLOGINUSER_INFO.  A client knows its configured id or a temporary  *)
(* one it was given before.  When another connection holds the id, that    *)
(* connection is marked not alive and its disconnection is requested.      *)
(***************************************************************************)
Known(id) == id \in Devices \cup issued

MayLogin(c, id) == Known(id) /\ (SwitchIds \/ myid[c] \in {NoId, id})

(* Mutants: nobody is retired by a takeover; only a device is; the result  *)
(* of the search in the map is not tested.                                 *)
TakenOverNobody(c, id) == {}
TakenOverAbsent(c, id) == {registry[id]} \ {c}
TakenOverDevice(c, id) == {d \in {registry[id]} \ {NoConn, c} : role[d] = "offer"}

TakenOver(c, id) == {registry[id]} \ {NoConn, c}

Login(c, id, key) ==
  LET others == TakenOver(c, id)
  IN  /\ At(c, "idle")
      /\ MayLogin(c, id)
      /\ registry' = [registry EXCEPT ![id] = c]
      /\ alive' = [d \in Conns |-> CASE d = c -> 1
                                     [] d \in others -> 0
                                     [] OTHER -> alive[d]]
      /\ kicked' = kicked \cup others
      /\ role' = [role EXCEPT ![c] = "offer"]
      /\ myid' = [myid EXCEPT ![c] = id]
      /\ mykey' = [mykey EXCEPT ![c] = key]
      /\ ReplyWith(c, Msg(c, "ackLogin", id, NoId, 0))
      /\ out' = << >>
      /\ UNCHANGED <<life, issued, req>>

(***************************************************************************)
(* HP_REQCONNECTUSER_INFO.  Before the lock: the caller is marked alive,   *)
(* and gets a temporary id if it has none (Connect).  The id enters the    *)
(* map under the lock (Insert; std::map::insert replaces nothing).  The    *)
(* lock is taken again to look the device up (Lookup).                     *)
(***************************************************************************)
FreshIds == {t \in TempIds \ issued : \A d \in Conns : myid[d] # t}

Connect(c, id, key) ==
  /\ At(c, "idle")
  /\ alive' = [alive EXCEPT ![c] = 1]
  /\ req' = [req EXCEPT ![c] = [type |-> "connect", id |-> id, key |-> key]]
  /\ \/ /\ myid[c] # NoId
        /\ Goto(c, "lookup")
        /\ UNCHANGED <<myid, role>>
     \/ /\ myid[c] = NoId
        /\ \E t \in FreshIds : myid' = [myid EXCEPT ![c] = t]
        /\ role' = [role EXCEPT ![c] = "answer"]
        /\ Goto(c, "insert")
  /\ out' = << >>
  /\ UNCHANGED <<life, mykey, registry, issued, kicked, reply>>

(* Mutant: the id is given out but never entered. *)
NotInserted(c) == registry

Inserted(c) == [registry EXCEPT ![myid[c]] = IF @ = NoConn THEN c ELSE @]

Insert(c) ==
  /\ At(c, "insert")
  /\ registry' = Inserted(c)
  /\ issued' = issued \cup {myid[c]}
  /\ Goto(c, "lookup")
  /\ out' = << >>
  /\ UNCHANGED <<peer, kicked, req, reply>>

CallStatus(d, key) ==
  IF d = NoConn            THEN -1   \* no such id
  ELSE IF mykey[d] # key   THEN -2   \* wrong key
  ELSE IF alive[d] # 1     THEN -3   \* not online
  ELSE IF role[d] # "offer" THEN -4  \* not a device
  ELSE 0

(* Success is answered, and the device asked for an offer, under the lock. *)
(* A failure is answered after it, in a message whose myid is left zero.   *)
Lookup(c) ==
  LET d      == registry[req[c].id]
      status == CallStatus(d, req[c].key)
  IN  /\ At(c, "lookup")
      /\ req' = [req EXCEPT ![c] = NoReq]
      /\ \/ /\ status = 0
            /\ out' = << Msg(c, "ackConnect", myid[c], req[c].id, 0),
                         Msg(d, "getOffer", NoId, myid[c], 0) >>
            /\ Goto(c, "idle")
            /\ UNCHANGED reply
         \/ /\ status # 0
            /\ ReplyWith(c, Msg(c, "ackConnect", NoId, req[c].id, status))
            /\ out' = << >>
      /\ UNCHANGED <<peer, registry, issued, kicked>>

(***************************************************************************)
(* HP_NTIWEBRTCOFFER_INFO and HP_NTIWEBRTCANSWER_INFO.  alive is read and  *)
(* the SDP parsed before the lock; a bad SDP is a BadMessage.              *)
(***************************************************************************)
Describe(c, type, id) ==
  /\ At(c, "idle")
  /\ \/ /\ alive[c] = 1
        /\ req' = [req EXCEPT ![c] = [type |-> type, id |-> id, key |-> ZeroKey]]
        /\ Goto(c, "forward")
     \/ /\ alive[c] # 1
        /\ Goto(c, "error")
        /\ UNCHANGED req
  /\ out' = << >>
  /\ UNCHANGED <<peer, registry, issued, kicked, reply>>

Forward(c) ==
  LET d == registry[req[c].id]
  IN  /\ At(c, "forward")
      /\ out' = IF d # NoConn /\ alive[d] = 1
                THEN << Msg(d, req[c].type, NoId, myid[c], 0) >> ELSE << >>
      /\ req' = [req EXCEPT ![c] = NoReq]
      /\ Goto(c, "idle")
      /\ UNCHANGED <<peer, registry, issued, kicked, reply>>

(***************************************************************************)
(* HP_REQGETONLINEDEVICES_INFO: the list is made under the lock and sent   *)
(* after it.                                                               *)
(***************************************************************************)
Registered == {i \in Ids : registry[i] # NoConn}

OnlineDevices(c) ==
  {myid[registry[i]] : i \in {j \in Registered :
     LET d == registry[j]
     IN  role[d] = "offer" /\ alive[d] = 1 /\ myid[d] # myid[c]}}

GetOnlineDevices(c) ==
  /\ At(c, "idle")
  /\ ReplyWith(c, [Msg(c, "devices", NoId, NoId, 0)
                     EXCEPT !.ids = OnlineDevices(c)])
  /\ out' = << >>
  /\ UNCHANGED <<peer, registry, issued, kicked, req>>

(* The send that follows the lock, in Login, Lookup and GetOnlineDevices. *)
Reply(c) ==
  /\ At(c, "reply")
  /\ out' = << reply[c] >>
  /\ reply' = [reply EXCEPT ![c] = NoMsg]
  /\ Goto(c, "idle")
  /\ UNCHANGED <<peer, registry, issued, kicked, req>>

(***************************************************************************)
(* OnWBSClose, called once no other callback of the connection runs: the   *)
(* map entry under the current id is erased if it is this connection's,    *)
(* and after the lock the structure is freed.                              *)
(***************************************************************************)
Release(c) ==
  /\ life' = [life EXCEPT ![c] = "free"]
  /\ kicked' = kicked \ {c}
  /\ ZeroPeer(c)
  /\ Goto(c, "idle")

(* Mutants: only a device's entry is erased; whoever's entry is erased. *)
ErasedOfDevice(c) ==
  [registry EXCEPT ![myid[c]] = IF @ = c /\ role[c] = "offer" THEN NoConn ELSE @]
ErasedOfAnyone(c) == [registry EXCEPT ![myid[c]] = NoConn]

Erased(c) == [registry EXCEPT ![myid[c]] = IF @ = c THEN NoConn ELSE @]

Close(c) ==
  /\ life[c] # "free" /\ pc[c] \in {"idle", "error"}
  /\ \/ /\ myid[c] = NoId
        /\ Release(c)
        /\ UNCHANGED registry
     \/ /\ myid[c] # NoId
        /\ registry' = Erased(c)
        /\ Goto(c, "freeing")
        /\ UNCHANGED <<peer, kicked>>
  /\ out' = << >>
  /\ UNCHANGED <<issued, req, reply>>

Free(c) ==
  /\ At(c, "freeing")
  /\ Release(c)
  /\ out' = << >>
  /\ UNCHANGED <<registry, issued, req, reply>>

-----------------------------------------------------------------------------
(* The rest of a callback that has begun. *)
Continue(c) == Insert(c) \/ Lookup(c) \/ Forward(c) \/ Reply(c) \/ Free(c)

(* A message of the client. *)
Receive(c) ==
  \/ BadMessage(c)
  \/ GetOnlineDevices(c)
  \/ \E id \in Ids, key \in Keys : Login(c, id, key) \/ Connect(c, id, key)
  \/ \E id \in Ids, type \in {"offer", "answer"} : Describe(c, type, id)

Next == \E c \in Conns :
          Accept(c) \/ Handshake(c) \/ Receive(c) \/ Continue(c) \/ Close(c)

(* A close HP-Socket itself owes: an error was returned to it, or a        *)
(* disconnection requested.                                                *)
OwedClose(c) == (pc[c] = "error" \/ c \in kicked) /\ Close(c)

(***************************************************************************)
(* A worker thread finishes the callback it runs.  A requested             *)
(* disconnection is a command in the dispatcher's queue, drained between   *)
(* callbacks however many messages the client sends: strong fairness.      *)
(***************************************************************************)
Fairness == \A c \in Conns : WF_vars(Continue(c)) /\ SF_vars(OwedClose(c))

Spec == Init /\ [][Next]_vars

FairSpec == Spec /\ Fairness

-----------------------------------------------------------------------------
(***************************************************************************)
(* Properties.                                                             *)
(***************************************************************************)

(* Every map entry points to a structure that has not been freed, that     *)
(* carries the id of the entry and that is alive with a role: whoever      *)
(* finds a structure in the map may use it.  So "not online" (-3) is never *)
(* answered to a caller: an id is either held or absent.                   *)
EntryIsLive ==
  \A i \in Registered :
    LET c == registry[i]
    IN  life[c] = "connected" /\ myid[c] = i /\ alive[c] = 1 /\ role[c] # "invalid"

(* A connection has at most one map entry. *)
OneIdPerConnection ==
  \A i, j \in Registered : registry[i] = registry[j] => i = j

(* A connection that has its id on the server, and so has no reason to log *)
(* in again, can be reached under it unless its disconnection has been     *)
(* requested: no client is dropped from the map in silence.  The id is     *)
(* given before the entry is made (Insert) and outlives it (Free).         *)
Settled(c) == myid[c] # NoId /\ pc[c] \notin {"insert", "freeing"}

ReachableOrKicked ==
  \A c \in Conns : Settled(c) => registry[myid[c]] = c \/ c \in kicked

(* What a client is told is so when it is told, although acknowledgements  *)
(* are sent after the lock: the id in a login or call acknowledgement is   *)
(* the receiver's in the map, or the receiver is being disconnected.       *)
Told(m) == m.type \in {"ackLogin", "ackConnect"} /\ m.status = 0

ToldIsSo ==
  \A n \in DOMAIN out :
    Told(out[n]) => registry[out[n].myid] = out[n].to \/ out[n].to \in kicked

(* An entry is lost in two ways only: its own connection closes, or        *)
(* another takes the id over, and then the loser is no longer alive and is *)
(* told to go.  In particular the late close of a connection that lost its *)
(* id leaves the new holder's entry alone.                                 *)
LosesEntry(c, i) == registry[i] = c /\ registry'[i] # c

LossIsJustified ==
  \A i \in Ids, c \in Conns : LosesEntry(c, i) =>
    \/ pc'[c] = "freeing"
    \/ registry'[i] \in Conns /\ c \in kicked' /\ alive'[c] = 0

EntryLostByCloseOrTakeover == [][LossIsJustified]_vars

(* The map is a directory that gives each id to one connection at a time.  *)
D == INSTANCE Directory WITH holder <- registry,
                             leaving <- kicked

ImplementsDirectory == D!Spec

(* A connection that no longer holds the id it goes by is closed, or takes *)
(* the id back: it does not stay for ever.                                 *)
Stale(c) == myid[c] # NoId /\ registry[myid[c]] # c

StaleIsResolved == \A c \in Conns : Stale(c) ~> ~Stale(c)
=============================================================================
