------------------------- MODULE SignalServer_proofs -------------------------
(***************************************************************************)
(* Proofs about SignalServer, for any sets of connections, ids and keys.   *)
(***************************************************************************)
EXTENDS SignalServer, TLAPS

(***************************************************************************)
(* The inductive invariant.  An entry's connection is neither about to be  *)
(* entered nor about to be freed; a temporary id being entered is nobody   *)
(* else's; a structure that is not connected has no id; and the request    *)
(* and the reply of a callback are of the kind its place calls for.        *)
(*                                                                         *)
(* A client that logs in under a second id leaves an entry that its close  *)
(* does not erase.  Up to then, while nothing dangles, all of it holds for *)
(* such clients too, but for what OwnIds says.                             *)
(***************************************************************************)
NothingDangles == \A i \in Registered : life[registry[i]] = "connected"

EntryIsKnown ==
  \A i \in Registered :
    LET c == registry[i]
    IN  life[c] = "connected" /\ myid[c] # NoId /\ role[c] # "invalid" /\ pc[c] # "insert"

EntryIsSettled ==
  \A i \in Registered : pc[registry[i]] \notin {"insert", "freeing"}

OwnIds == SwitchIds = FALSE => EntryIsLive /\ EntryIsSettled

FreshIsFree == \A t \in TempIds \ issued : registry[t] = NoConn

InsertIsFresh ==
  \A c \in Conns : pc[c] = "insert" =>
    /\ alive[c] = 1 /\ role[c] = "answer" /\ myid[c] \in TempIds \ issued
    /\ \A d \in Conns \ {c} : myid[d] # myid[c]

OnlyConnectedHasId ==
  \A c \in Conns : life[c] # "connected" =>
    myid[c] = NoId /\ pc[c] \in {"idle", "error"}

RequestFits ==
  \A c \in Conns :
    /\ pc[c] \in {"insert", "lookup"} =>
         req[c] \in Request /\ req[c].type = "connect" /\ myid[c] # NoId
    /\ pc[c] = "forward" => req[c] \in Request /\ req[c].type \in {"offer", "answer"}

ReplyFits ==
  \A c \in Conns : pc[c] = "reply" =>
    /\ reply[c] \in Message
    /\ reply[c].to = c
    /\ Told(reply[c]) => myid[c] # NoId /\ reply[c].myid = myid[c]

IInv ==
  /\ TypeOK
  /\ OwnIds
  /\ ReachableOrKicked
  /\ ToldIsSo
  /\ EntryIsKnown
  /\ FreshIsFree
  /\ InsertIsFresh
  /\ OnlyConnectedHasId
  /\ RequestFits
  /\ ReplyFits

-----------------------------------------------------------------------------
(* Where a structure, a request and a message have their types. *)

(* A message made by Msg has its fields and is a message. *)
LEMMA MsgType ==
  ASSUME NEW c \in Conns, NEW type \in MsgTypes, NEW mine \in Ids \cup {NoId},
         NEW his \in Ids \cup {NoId}, NEW status \in Statuses
  PROVE  /\ Msg(c, type, mine, his, status) \in Message
         /\ Msg(c, type, mine, his, status).to = c
         /\ Msg(c, type, mine, his, status).type = type
         /\ Msg(c, type, mine, his, status).myid = mine
         /\ Msg(c, type, mine, his, status).status = status
  BY DEF Msg, Message

(* What a step sends is a sequence of messages. *)
LEMMA SentType ==
  ASSUME NEW a \in Message, NEW b \in Message
  PROVE  << >> \in Seq(Message) /\ <<a, b>> \in Seq(Message)
  OBVIOUS

(* The list of online devices is made of ids, as every entry is of a connection that has one. *)
LEMMA ListType ==
  ASSUME NEW c \in Conns, TypeOK, EntryIsKnown
  PROVE  OnlineDevices(c) \subseteq Ids
  BY DEF OnlineDevices, EntryIsKnown, Registered, TypeOK

(* The invariant holds initially: nothing is connected. *)
LEMMA InitIInv == Init => IInv
  BY ConstantsOK DEF Init, IInv, TypeOK, OwnIds, EntryIsLive, ReachableOrKicked, Settled,
     ToldIsSo, Registered, EntryIsSettled, EntryIsKnown, FreshIsFree, InsertIsFresh,
     OnlyConnectedHasId, RequestFits, ReplyFits, Roles, Ids

-----------------------------------------------------------------------------
(* Each action preserves it. *)

(* Accept: a structure is made, with no id yet. *)
LEMMA AcceptIInv ==
  ASSUME NEW c \in Conns, IInv, Accept(c)
  PROVE  IInv'
<1> USE ConstantsOK DEF IInv, TypeOK, Accept, ZeroPeer, work
<1>1. TypeOK'
  BY DEF Roles
<1>2. OwnIds'
  BY DEF OwnIds, EntryIsLive, EntryIsSettled, Registered, OnlyConnectedHasId, InsertIsFresh, Ids
<1>3. ReachableOrKicked'
  BY DEF ReachableOrKicked, Settled, FreshIsFree, EntryIsKnown, Registered, OnlyConnectedHasId,
     InsertIsFresh, Ids
<1>4. ToldIsSo'
  BY DEF ToldIsSo
<1>5. EntryIsKnown' /\ FreshIsFree'
  BY DEF EntryIsKnown, FreshIsFree, Registered, OnlyConnectedHasId, InsertIsFresh, Ids
<1>6. InsertIsFresh'
  BY DEF InsertIsFresh, Ids, OnlyConnectedHasId, Registered, EntryIsKnown
<1>7. OnlyConnectedHasId'
  BY DEF OnlyConnectedHasId
<1>8. RequestFits'
  BY DEF RequestFits, OnlyConnectedHasId
<1>9. ReplyFits'
  BY DEF ReplyFits, OnlyConnectedHasId
<1> QED BY <1>1, <1>2, <1>3, <1>4, <1>5, <1>6, <1>7, <1>8, <1>9

(* Handshake: the connection is upgraded, or refused. *)
LEMMA HandshakeIInv ==
  ASSUME NEW c \in Conns, IInv, Handshake(c)
  PROVE  IInv'
<1> USE ConstantsOK DEF IInv, TypeOK, Handshake, Goto
<1>1. TypeOK'
  BY DEF Roles
<1>2. OwnIds'
  BY DEF OwnIds, EntryIsLive, EntryIsSettled, Registered, OnlyConnectedHasId, InsertIsFresh, Ids
<1>3. ReachableOrKicked'
  BY DEF ReachableOrKicked, Settled, FreshIsFree, EntryIsKnown, Registered, OnlyConnectedHasId,
     InsertIsFresh, Ids
<1>4. ToldIsSo'
  BY DEF ToldIsSo
<1>5. EntryIsKnown' /\ FreshIsFree'
  BY DEF EntryIsKnown, FreshIsFree, Registered, OnlyConnectedHasId, InsertIsFresh, Ids
<1>6. InsertIsFresh'
  BY DEF InsertIsFresh, Ids, OnlyConnectedHasId, Registered, EntryIsKnown
<1>7. OnlyConnectedHasId'
  BY DEF OnlyConnectedHasId
<1>8. RequestFits'
  BY DEF RequestFits, OnlyConnectedHasId
<1>9. ReplyFits'
  BY DEF ReplyFits, OnlyConnectedHasId
<1> QED BY <1>1, <1>2, <1>3, <1>4, <1>5, <1>6, <1>7, <1>8, <1>9

(* BadMessage: the callback fails. *)
LEMMA BadMessageIInv ==
  ASSUME NEW c \in Conns, IInv, BadMessage(c)
  PROVE  IInv'
<1> USE ConstantsOK DEF IInv, TypeOK, BadMessage, At, Goto, peer
<1>1. TypeOK'
  BY DEF Roles
<1>2. OwnIds'
  BY DEF OwnIds, EntryIsLive, EntryIsSettled, Registered, OnlyConnectedHasId, InsertIsFresh, Ids
<1>3. ReachableOrKicked'
  BY DEF ReachableOrKicked, Settled, FreshIsFree, EntryIsKnown, Registered, OnlyConnectedHasId,
     InsertIsFresh, Ids
<1>4. ToldIsSo'
  BY DEF ToldIsSo
<1>5. EntryIsKnown' /\ FreshIsFree'
  BY DEF EntryIsKnown, FreshIsFree, Registered, OnlyConnectedHasId, InsertIsFresh, Ids
<1>6. InsertIsFresh'
  BY DEF InsertIsFresh, Ids, OnlyConnectedHasId, Registered, EntryIsKnown
<1>7. OnlyConnectedHasId'
  BY DEF OnlyConnectedHasId
<1>8. RequestFits'
  BY DEF RequestFits, OnlyConnectedHasId
<1>9. ReplyFits'
  BY DEF ReplyFits, OnlyConnectedHasId
<1> QED BY <1>1, <1>2, <1>3, <1>4, <1>5, <1>6, <1>7, <1>8, <1>9

(* Login: the id becomes this connection's, and the one it had is kicked. *)
LEMMA LoginIInv ==
  ASSUME NEW c \in Conns, IInv, NEW id \in Ids, NEW key \in Keys, Login(c, id, key)
  PROVE  IInv'
<1> USE ConstantsOK DEF IInv, TypeOK, Login, At, Goto, ReplyWith, TakenOver, MayLogin, Known
<1> DEFINE m == Msg(c, "ackLogin", id, NoId, 0)
<1>0. m \in Message /\ m.to = c /\ m.myid = id
  BY MsgType DEF MsgTypes, Statuses
<1> HIDE DEF m
<1>m. reply' = [reply EXCEPT ![c] = m]
  BY DEF m
<1>1. TypeOK'
  <2>1. registry' \in [Ids -> Conns \cup {NoConn}] /\ kicked' \subseteq Conns
    OBVIOUS
  <2>2. reply' \in [Conns -> Message \cup {NoMsg}]
    BY <1>0, <1>m
  <2>3. alive' \in [Conns -> {0, 1}]
    OBVIOUS
  <2> QED BY <2>1, <2>2, <2>3 DEF Roles
<1>2. OwnIds'
  BY DEF OwnIds, EntryIsLive, EntryIsSettled, Registered, OnlyConnectedHasId, InsertIsFresh, Ids
<1>3. ReachableOrKicked'
  BY DEF ReachableOrKicked, Settled, FreshIsFree, EntryIsKnown, Registered, OnlyConnectedHasId,
     InsertIsFresh, Ids
<1>4. ToldIsSo'
  BY DEF ToldIsSo
<1>5. EntryIsKnown' /\ FreshIsFree'
  BY DEF EntryIsKnown, FreshIsFree, Registered, OnlyConnectedHasId, InsertIsFresh, Ids
<1>6. InsertIsFresh'
  BY DEF InsertIsFresh, Ids, OnlyConnectedHasId, Registered, EntryIsKnown
<1>7. OnlyConnectedHasId'
  BY DEF OnlyConnectedHasId
<1>8. RequestFits'
  BY DEF RequestFits, OnlyConnectedHasId
<1>9. ReplyFits'
  BY <1>0, <1>m DEF ReplyFits
<1> QED BY <1>1, <1>2, <1>3, <1>4, <1>5, <1>6, <1>7, <1>8, <1>9

(* Connect: the caller may get an id that no structure has. *)
LEMMA ConnectIInv ==
  ASSUME NEW c \in Conns, IInv, NEW id \in Ids, NEW key \in Keys, Connect(c, id, key)
  PROVE  IInv'
<1> USE ConstantsOK DEF IInv, TypeOK, Connect, At, Goto, FreshIds
<1>1. TypeOK'
  <2>1. [type |-> "connect", id |-> id, key |-> key] \in Request
    BY DEF Request, ReqTypes
  <2>2. req' \in [Conns -> Request \cup {NoReq}]
    BY <2>1
  <2>3. CASE myid[c] # NoId
    BY <2>2, <2>3
  <2>4. CASE myid[c] = NoId
    BY <2>2, <2>4 DEF Ids, Roles
  <2> QED BY <2>3, <2>4
<1>2. OwnIds'
  BY DEF OwnIds, EntryIsLive, EntryIsSettled, Registered, OnlyConnectedHasId, InsertIsFresh, Ids
<1>3. ReachableOrKicked'
  BY DEF ReachableOrKicked, Settled, FreshIsFree, EntryIsKnown, Registered, OnlyConnectedHasId,
     InsertIsFresh, Ids
<1>4. ToldIsSo'
  BY DEF ToldIsSo
<1>5. EntryIsKnown' /\ FreshIsFree'
  BY DEF EntryIsKnown, FreshIsFree, Registered, OnlyConnectedHasId, InsertIsFresh, Ids
<1>6. InsertIsFresh'
  BY DEF InsertIsFresh, Ids, OnlyConnectedHasId, Registered, EntryIsKnown
<1>7. OnlyConnectedHasId'
  BY DEF OnlyConnectedHasId
<1>8. RequestFits'
  <2>1. [type |-> "connect", id |-> id, key |-> key] \in Request
    BY DEF Request, ReqTypes
  <2> QED BY <2>1 DEF RequestFits, Ids
<1>9. ReplyFits'
  BY DEF ReplyFits, OnlyConnectedHasId
<1> QED BY <1>1, <1>2, <1>3, <1>4, <1>5, <1>6, <1>7, <1>8, <1>9

(* Insert: the caller's fresh id enters the map. *)
LEMMA InsertIInv ==
  ASSUME NEW c \in Conns, IInv, Insert(c)
  PROVE  IInv'
<1> USE ConstantsOK DEF IInv, TypeOK, Insert, At, Goto, Inserted, peer
<1>1. TypeOK'
  BY DEF InsertIsFresh, Ids
<1>2. OwnIds'
  BY DEF OwnIds, EntryIsLive, EntryIsSettled, Registered, OnlyConnectedHasId, InsertIsFresh, Ids
<1>3. ReachableOrKicked'
  BY DEF ReachableOrKicked, Settled, FreshIsFree, EntryIsKnown, Registered, OnlyConnectedHasId,
     InsertIsFresh, Ids
<1>4. ToldIsSo'
  BY DEF ToldIsSo
<1>5. EntryIsKnown' /\ FreshIsFree'
  BY DEF EntryIsKnown, FreshIsFree, Registered, OnlyConnectedHasId, InsertIsFresh, Ids
<1>6. InsertIsFresh'
  BY DEF InsertIsFresh
<1>7. OnlyConnectedHasId'
  BY DEF OnlyConnectedHasId
<1>8. RequestFits'
  BY DEF RequestFits, OnlyConnectedHasId
<1>9. ReplyFits'
  BY DEF ReplyFits, OnlyConnectedHasId
<1> QED BY <1>1, <1>2, <1>3, <1>4, <1>5, <1>6, <1>7, <1>8, <1>9

(* Lookup: the device is asked, or the failure is kept for the reply. *)
LEMMA LookupIInv ==
  ASSUME NEW c \in Conns, IInv, Lookup(c)
  PROVE  IInv'
<1> USE ConstantsOK DEF IInv, TypeOK, Lookup, At, Goto, ReplyWith, peer
<1> DEFINE d  == registry[req[c].id]
           st == CallStatus(d, req[c].key)
           ok == Msg(c, "ackConnect", myid[c], req[c].id, 0)
           go == Msg(d, "getOffer", NoId, myid[c], 0)
           no == Msg(c, "ackConnect", NoId, req[c].id, st)
<1>r. req[c].id \in Ids /\ myid[c] \in Ids
  BY DEF RequestFits, Request
<1>s. st \in Statuses
  BY DEF CallStatus, Statuses
<1>k. /\ ok \in Message /\ ok.to = c /\ ok.myid = myid[c]
      /\ no \in Message /\ no.to = c /\ no.status = st
  BY <1>r, <1>s, MsgType DEF MsgTypes, Statuses
<1>g. st = 0 => go \in Message /\ go.type = "getOffer"
  <2>1. st = 0 => d \in Conns
    BY <1>r DEF CallStatus
  <2> HIDE DEF st, d
  <2>2. "getOffer" \in MsgTypes /\ 0 \in Statuses
    BY DEF MsgTypes, Statuses
  <2>3. ASSUME d \in Conns
        PROVE  go \in Message /\ go.type = "getOffer"
    BY <2>2, <2>3, <1>r, MsgType
  <2> QED BY <2>1, <2>3
<1> HIDE DEF st, ok, go, no
<1>d. \/ st = 0 /\ out' = <<ok, go>> /\ Goto(c, "idle") /\ UNCHANGED reply
      \/ st # 0 /\ out' = << >> /\ ReplyWith(c, no)
  BY DEF st, ok, go, no
<1>1. TypeOK'
  <2>1. out' \in Seq(Message)
    <3> HIDE DEF Lookup, TypeOK, Goto, ReplyWith
    <3>1. CASE st = 0
      BY <3>1, <1>d, <1>k, <1>g, SentType
    <3>2. CASE st # 0
      BY <3>2, <1>d, <1>k, SentType
    <3> QED BY <3>1, <3>2
  <2>2. reply' \in [Conns -> Message \cup {NoMsg}]
    BY <1>d, <1>k
  <2> QED BY <2>1, <2>2
<1>2. OwnIds'
  BY DEF OwnIds, EntryIsLive, EntryIsSettled, Registered, OnlyConnectedHasId, InsertIsFresh, Ids
<1>3. ReachableOrKicked'
  BY DEF ReachableOrKicked, Settled, FreshIsFree, EntryIsKnown, Registered, OnlyConnectedHasId,
     InsertIsFresh, Ids
<1>4. ToldIsSo'
  <2> SUFFICES ASSUME NEW n \in DOMAIN out', Told(out'[n])
               PROVE  registry'[out'[n].myid] = out'[n].to \/ out'[n].to \in kicked'
    BY DEF ToldIsSo
  <2>1. out'[n] = ok
    BY <1>d, <1>g DEF Told
  <2>2. registry[myid[c]] = c \/ c \in kicked
    BY <1>r, ConstantsOK DEF ReachableOrKicked, Settled
  <2> QED BY <2>1, <2>2, <1>k
<1>5. EntryIsKnown' /\ FreshIsFree'
  BY DEF EntryIsKnown, FreshIsFree, Registered, OnlyConnectedHasId, InsertIsFresh, Ids
<1>6. InsertIsFresh'
  BY DEF InsertIsFresh, Ids, OnlyConnectedHasId, Registered, EntryIsKnown
<1>7. OnlyConnectedHasId'
  BY DEF OnlyConnectedHasId
<1>8. RequestFits'
  BY DEF RequestFits, OnlyConnectedHasId
<1>9. ReplyFits'
  BY <1>d, <1>k DEF ReplyFits, Told
<1> QED BY <1>1, <1>2, <1>3, <1>4, <1>5, <1>6, <1>7, <1>8, <1>9

(* Describe: the request is kept, or the callback fails. *)
LEMMA DescribeIInv ==
  ASSUME NEW c \in Conns, IInv, NEW id \in Ids, NEW type \in {"offer", "answer"},
         Describe(c, type, id)
  PROVE  IInv'
<1> USE ConstantsOK DEF IInv, TypeOK, Describe, At, Goto, peer
<1>1. TypeOK'
  <2>1. [type |-> type, id |-> id, key |-> ZeroKey] \in Request
    BY DEF Request, ReqTypes
  <2> QED BY <2>1
<1>2. OwnIds'
  BY DEF OwnIds, EntryIsLive, EntryIsSettled, Registered, OnlyConnectedHasId, InsertIsFresh, Ids
<1>3. ReachableOrKicked'
  BY DEF ReachableOrKicked, Settled, FreshIsFree, EntryIsKnown, Registered, OnlyConnectedHasId,
     InsertIsFresh, Ids
<1>4. ToldIsSo'
  BY DEF ToldIsSo
<1>5. EntryIsKnown' /\ FreshIsFree'
  BY DEF EntryIsKnown, FreshIsFree, Registered, OnlyConnectedHasId, InsertIsFresh, Ids
<1>6. InsertIsFresh'
  BY DEF InsertIsFresh, Ids, OnlyConnectedHasId, Registered, EntryIsKnown
<1>7. OnlyConnectedHasId'
  BY DEF OnlyConnectedHasId
<1>8. RequestFits'
  <2>1. [type |-> type, id |-> id, key |-> ZeroKey] \in Request
    BY DEF Request, ReqTypes
  <2> QED BY <2>1 DEF RequestFits
<1>9. ReplyFits'
  BY DEF ReplyFits, OnlyConnectedHasId
<1> QED BY <1>1, <1>2, <1>3, <1>4, <1>5, <1>6, <1>7, <1>8, <1>9

(* Forward: the device found is sent to. *)
LEMMA ForwardIInv ==
  ASSUME NEW c \in Conns, IInv, Forward(c)
  PROVE  IInv'
<1> USE ConstantsOK DEF IInv, TypeOK, Forward, At, Goto, peer
<1> DEFINE d == registry[req[c].id]
           m == Msg(d, req[c].type, NoId, myid[c], 0)
<1>0. out' = << >> \/ (out' = <<m>> /\ m \in Message /\ ~Told(m))
  <2>1. req[c].id \in Ids /\ req[c].type \in MsgTypes \ {"ackLogin", "ackConnect"}
    BY DEF RequestFits, Request, MsgTypes
  <2>2. ASSUME d \in Conns
        PROVE  m \in Message /\ m.type = req[c].type
    <3> HIDE DEF d
    <3> QED BY <2>1, <2>2, MsgType DEF Statuses
  <2> QED BY <2>1, <2>2 DEF Told
<1> HIDE DEF m, d
<1>1. TypeOK'
  BY <1>0
<1>2. OwnIds'
  BY DEF OwnIds, EntryIsLive, EntryIsSettled, Registered, OnlyConnectedHasId, InsertIsFresh, Ids
<1>3. ReachableOrKicked'
  BY DEF ReachableOrKicked, Settled, FreshIsFree, EntryIsKnown, Registered, OnlyConnectedHasId,
     InsertIsFresh, Ids
<1>4. ToldIsSo'
  BY <1>0 DEF ToldIsSo
<1>5. EntryIsKnown' /\ FreshIsFree'
  BY DEF EntryIsKnown, FreshIsFree, Registered, OnlyConnectedHasId, InsertIsFresh, Ids
<1>6. InsertIsFresh'
  BY DEF InsertIsFresh, Ids, OnlyConnectedHasId, Registered, EntryIsKnown
<1>7. OnlyConnectedHasId'
  BY DEF OnlyConnectedHasId
<1>8. RequestFits'
  BY DEF RequestFits, OnlyConnectedHasId
<1>9. ReplyFits'
  BY DEF ReplyFits, OnlyConnectedHasId
<1> QED BY <1>1, <1>2, <1>3, <1>4, <1>5, <1>6, <1>7, <1>8, <1>9

(* GetOnlineDevices: the list is kept for the reply. *)
LEMMA GetOnlineDevicesIInv ==
  ASSUME NEW c \in Conns, IInv, GetOnlineDevices(c)
  PROVE  IInv'
<1> USE ConstantsOK DEF IInv, TypeOK, GetOnlineDevices, At, Goto, ReplyWith, peer
<1> DEFINE m == [Msg(c, "devices", NoId, NoId, 0) EXCEPT !.ids = OnlineDevices(c)]
<1>0. m \in Message /\ m.to = c /\ m.type = "devices"
  <2>1. OnlineDevices(c) \subseteq Ids
    BY ListType
  <2> QED BY <2>1 DEF Msg, Message, MsgTypes, Statuses
<1>t. ~Told(m)
  BY <1>0 DEF Told
<1> HIDE DEF m
<1>m. reply' = [reply EXCEPT ![c] = m]
  BY DEF m
<1>1. TypeOK'
  BY <1>0, <1>m
<1>2. OwnIds'
  BY DEF OwnIds, EntryIsLive, EntryIsSettled, Registered, OnlyConnectedHasId, InsertIsFresh, Ids
<1>3. ReachableOrKicked'
  BY DEF ReachableOrKicked, Settled, FreshIsFree, EntryIsKnown, Registered, OnlyConnectedHasId,
     InsertIsFresh, Ids
<1>4. ToldIsSo'
  BY DEF ToldIsSo
<1>5. EntryIsKnown' /\ FreshIsFree'
  BY DEF EntryIsKnown, FreshIsFree, Registered, OnlyConnectedHasId, InsertIsFresh, Ids
<1>6. InsertIsFresh'
  BY DEF InsertIsFresh, Ids, OnlyConnectedHasId, Registered, EntryIsKnown
<1>7. OnlyConnectedHasId'
  BY DEF OnlyConnectedHasId
<1>8. RequestFits'
  BY DEF RequestFits, OnlyConnectedHasId
<1>9. ReplyFits'
  <2> SUFFICES ASSUME NEW d \in Conns, pc'[d] = "reply"
               PROVE  /\ reply'[d] \in Message
                      /\ reply'[d].to = d
                      /\ Told(reply'[d]) => myid'[d] # NoId /\ reply'[d].myid = myid'[d]
    BY DEF ReplyFits
  <2>1. CASE d = c
    BY <2>1, <1>0, <1>m, <1>t
  <2>2. CASE d # c
    BY <2>2, <1>m DEF ReplyFits
  <2> QED BY <2>1, <2>2
<1> QED BY <1>1, <1>2, <1>3, <1>4, <1>5, <1>6, <1>7, <1>8, <1>9

(* Reply: the reply kept is sent. *)
LEMMA ReplyIInv ==
  ASSUME NEW c \in Conns, IInv, Reply(c)
  PROVE  IInv'
<1> USE ConstantsOK DEF IInv, TypeOK, Reply, At, Goto, peer
<1>1. TypeOK'
  BY DEF ReplyFits
<1>2. OwnIds'
  BY DEF OwnIds, EntryIsLive, EntryIsSettled, Registered, OnlyConnectedHasId, InsertIsFresh, Ids
<1>3. ReachableOrKicked'
  BY DEF ReachableOrKicked, Settled, FreshIsFree, EntryIsKnown, Registered, OnlyConnectedHasId,
     InsertIsFresh, Ids
<1>4. ToldIsSo'
  <2> SUFFICES ASSUME NEW n \in DOMAIN out', Told(out'[n])
               PROVE  registry'[out'[n].myid] = out'[n].to \/ out'[n].to \in kicked'
    BY DEF ToldIsSo
  <2>1. out'[n] = reply[c]
    OBVIOUS
  <2>2. reply[c].to = c /\ reply[c].myid = myid[c] /\ myid[c] # NoId
    BY <2>1 DEF ReplyFits
  <2>3. registry[myid[c]] = c \/ c \in kicked
    BY <2>2 DEF ReachableOrKicked, Settled
  <2> QED BY <2>1, <2>2, <2>3
<1>5. EntryIsKnown' /\ FreshIsFree'
  BY DEF EntryIsKnown, FreshIsFree, Registered, OnlyConnectedHasId, InsertIsFresh, Ids
<1>6. InsertIsFresh'
  BY DEF InsertIsFresh, Ids, OnlyConnectedHasId, Registered, EntryIsKnown
<1>7. OnlyConnectedHasId'
  BY DEF OnlyConnectedHasId
<1>8. RequestFits'
  BY DEF RequestFits, OnlyConnectedHasId
<1>9. ReplyFits'
  BY DEF ReplyFits, OnlyConnectedHasId
<1> QED BY <1>1, <1>2, <1>3, <1>4, <1>5, <1>6, <1>7, <1>8, <1>9

(* Close: the entry goes, if it is this connection's. *)
LEMMA CloseIInv ==
  ASSUME NEW c \in Conns, IInv, Close(c)
  PROVE  IInv'
<1> USE ConstantsOK DEF IInv, TypeOK, Close, Release, ZeroPeer, Erased, Goto, peer
<1>1. TypeOK'
  <2>1. CASE myid[c] = NoId
    BY <2>1 DEF Roles
  <2>2. CASE myid[c] # NoId
    BY <2>2
  <2> QED BY <2>1, <2>2
<1>2. OwnIds'
  BY DEF OwnIds, EntryIsLive, EntryIsSettled, Registered, OnlyConnectedHasId, InsertIsFresh, Ids
<1>3. ReachableOrKicked'
  BY DEF ReachableOrKicked, Settled, FreshIsFree, EntryIsKnown, Registered, OnlyConnectedHasId,
     InsertIsFresh, Ids
<1>4. ToldIsSo'
  BY DEF ToldIsSo
<1>5. EntryIsKnown' /\ FreshIsFree'
  BY DEF EntryIsKnown, FreshIsFree, Registered, OnlyConnectedHasId, InsertIsFresh, Ids
<1>6. InsertIsFresh'
  BY DEF InsertIsFresh, Ids, OnlyConnectedHasId, Registered, EntryIsKnown
<1>7. OnlyConnectedHasId'
  BY DEF OnlyConnectedHasId
<1>8. RequestFits'
  BY DEF RequestFits, OnlyConnectedHasId
<1>9. ReplyFits'
  BY DEF ReplyFits, OnlyConnectedHasId
<1> QED BY <1>1, <1>2, <1>3, <1>4, <1>5, <1>6, <1>7, <1>8, <1>9

(* Free: the structure goes, which no entry names. *)
LEMMA FreeIInv ==
  ASSUME NEW c \in Conns, IInv, Free(c), NothingDangles'
  PROVE  IInv'
<1> USE ConstantsOK DEF IInv, TypeOK, Free, At, Release, ZeroPeer, Goto
<1>0. \A i \in Registered : registry[i] # c
  BY DEF NothingDangles, Registered
<1>1. TypeOK'
  BY DEF Roles
<1>2. OwnIds'
  BY <1>0 DEF OwnIds, EntryIsLive, EntryIsSettled, Registered, OnlyConnectedHasId, InsertIsFresh, Ids
<1>3. ReachableOrKicked'
  BY DEF ReachableOrKicked, Settled, FreshIsFree, EntryIsKnown, Registered, OnlyConnectedHasId,
     InsertIsFresh, Ids
<1>4. ToldIsSo'
  BY DEF ToldIsSo
<1>5. EntryIsKnown' /\ FreshIsFree'
  BY <1>0 DEF EntryIsKnown, FreshIsFree, Registered, OnlyConnectedHasId, InsertIsFresh, Ids
<1>6. InsertIsFresh'
  BY DEF InsertIsFresh, Ids, OnlyConnectedHasId, Registered, EntryIsKnown
<1>7. OnlyConnectedHasId'
  BY DEF OnlyConnectedHasId
<1>8. RequestFits'
  BY DEF RequestFits, OnlyConnectedHasId
<1>9. ReplyFits'
  BY DEF ReplyFits, OnlyConnectedHasId
<1> QED BY <1>1, <1>2, <1>3, <1>4, <1>5, <1>6, <1>7, <1>8, <1>9

-----------------------------------------------------------------------------
(* The invariant is inductive while nothing dangles. *)
LEMMA NextIInv ==
  ASSUME IInv, [Next]_vars, NothingDangles'
  PROVE  IInv'
<1>1. CASE UNCHANGED vars
  BY <1>1 DEF vars, IInv, TypeOK, OwnIds, EntryIsLive, ReachableOrKicked, Settled,
     ToldIsSo, Registered, EntryIsSettled, EntryIsKnown, FreshIsFree, InsertIsFresh,
     OnlyConnectedHasId, RequestFits, ReplyFits
<1>2. ASSUME NEW c \in Conns,
             Accept(c) \/ Handshake(c) \/ Receive(c) \/ Continue(c) \/ Close(c)
      PROVE  IInv'
  <2>1. CASE Receive(c)
    BY <2>1, BadMessageIInv, GetOnlineDevicesIInv, LoginIInv, ConnectIInv,
       DescribeIInv DEF Receive
  <2>2. CASE Continue(c)
    BY <2>2, InsertIInv, LookupIInv, ForwardIInv, ReplyIInv, FreeIInv DEF Continue
  <2> QED BY <1>2, <2>1, <2>2, AcceptIInv, HandshakeIInv, CloseIInv
<1> QED BY <1>1, <1>2 DEF Next

(* When no client switches ids nothing ever dangles: a connection that is  *)
(* freed has no entry under its own id, and no other.                      *)
LEMMA NothingGetsLoose ==
  ASSUME SwitchIds = FALSE, IInv, [Next]_vars
  PROVE  NothingDangles'
<1> USE ConstantsOK DEF IInv, TypeOK, OwnIds, EntryIsLive, EntryIsSettled, Registered,
        NothingDangles, Goto
<1>1. CASE UNCHANGED vars
  BY <1>1 DEF vars
<1>2. ASSUME NEW c \in Conns, Accept(c) \/ Handshake(c)
      PROVE  NothingDangles'
  BY <1>2 DEF Accept, Handshake
<1>3. ASSUME NEW c \in Conns, Receive(c)
      PROVE  NothingDangles'
  BY <1>3 DEF Receive, BadMessage, GetOnlineDevices, Login, Connect, Describe, At, peer
<1>4. ASSUME NEW c \in Conns, Insert(c) \/ Lookup(c) \/ Forward(c) \/ Reply(c)
      PROVE  NothingDangles'
  BY <1>4 DEF Insert, Inserted, Lookup, Forward, Reply, At, peer
<1>5. ASSUME NEW c \in Conns, Free(c)
      PROVE  NothingDangles'
  BY <1>5 DEF Free, Release, At
<1>6. ASSUME NEW c \in Conns, Close(c)
      PROVE  NothingDangles'
  BY <1>6 DEF Close, Release, Erased, peer, EntryIsKnown
<1> QED BY <1>1, <1>2, <1>3, <1>4, <1>5, <1>6 DEF Next, Continue

(***************************************************************************)
(* The registry is consistent whatever the numbers of connections, ids and *)
(* keys, and whatever the clients do, for as long as no entry points to    *)
(* memory that was freed.                                                  *)
(***************************************************************************)
THEOREM RegistryInvariant == Spec /\ []NothingDangles => []IInv
<1>1. IInv /\ [Next]_vars /\ NothingDangles' => IInv'
  BY NextIInv
<1> QED BY <1>1, InitIInv, PTL DEF Spec

(* In every reachable state, when no client logs in under a second id. *)
LEMMA OwnInvariant ==
  ASSUME SwitchIds = FALSE
  PROVE  Spec => []IInv
<1>1. IInv /\ [Next]_vars => IInv'
  BY NextIInv, NothingGetsLoose
<1> QED BY <1>1, InitIInv, PTL DEF Spec

(* Every variable has its type. *)
THEOREM TypeCorrect ==
  ASSUME SwitchIds = FALSE
  PROVE  Spec => []TypeOK
<1>1. IInv => TypeOK
  BY DEF IInv
<1> QED BY <1>1, OwnInvariant, PTL

(* No map entry points to a structure that is freed, or not alive, or that *)
(* goes by another id.                                                     *)
THEOREM EntriesAreLive ==
  ASSUME SwitchIds = FALSE
  PROVE  Spec => []EntryIsLive
<1>1. IInv => EntryIsLive
  BY DEF IInv, OwnIds
<1> QED BY <1>1, OwnInvariant, PTL

(* A connection that has an id is reachable under it or being closed. *)
THEOREM NoSilentLoss ==
  ASSUME SwitchIds = FALSE
  PROVE  Spec => []ReachableOrKicked
<1>1. IInv => ReachableOrKicked
  BY DEF IInv
<1> QED BY <1>1, OwnInvariant, PTL

(* An acknowledgement that is sent after the lock is still true. *)
THEOREM AcknowledgementsAreTrue ==
  ASSUME SwitchIds = FALSE
  PROVE  Spec => []ToldIsSo
<1>1. IInv => ToldIsSo
  BY DEF IInv
<1> QED BY <1>1, OwnInvariant, PTL

-----------------------------------------------------------------------------
(* A step that takes an entry from a connection closes that connection, or *)
(* takes its id over and asks it to go.                                    *)
LEMMA StepLosesJustly ==
  ASSUME IInv, [Next]_vars
  PROVE  [LossIsJustified]_vars
<1> SUFFICES ASSUME NEW i \in Ids, NEW d \in Conns, LosesEntry(d, i)
             PROVE  \/ pc'[d] = "freeing"
                    \/ registry'[i] \in Conns /\ d \in kicked' /\ alive'[d] = 0
  BY DEF LossIsJustified
<1> USE ConstantsOK DEF IInv, TypeOK, LosesEntry
<1>1. CASE UNCHANGED vars
  BY <1>1 DEF vars
<1>2. ASSUME NEW c \in Conns, NEW id \in Ids, NEW key \in Keys, Login(c, id, key)
      PROVE  registry'[i] \in Conns /\ d \in kicked' /\ alive'[d] = 0
  BY <1>2 DEF Login, TakenOver
<1>3. ASSUME NEW c \in Conns, Close(c)
      PROVE  pc'[d] = "freeing"
  BY <1>3 DEF Close, Erased, Goto
<1>4. ASSUME NEW c \in Conns, Insert(c)
      PROVE  FALSE
  BY <1>4 DEF Insert, Inserted, InsertIsFresh, Ids, At
<1>5. ASSUME NEW c \in Conns, UNCHANGED registry
      PROVE  FALSE
  BY <1>5
<1> QED BY <1>1, <1>2, <1>3, <1>4, <1>5 DEF Next, Receive, Continue, Accept,
           Handshake, BadMessage, Connect, Lookup, Describe, Forward,
           GetOnlineDevices, Reply, Free

(* The late close of a connection that lost its id does not disturb the    *)
(* connection that took it.                                                *)
THEOREM EntriesLostJustly ==
  ASSUME SwitchIds = FALSE
  PROVE  Spec => EntryLostByCloseOrTakeover
<1>1. IInv /\ [Next]_vars => [LossIsJustified]_vars
  BY StepLosesJustly
<1> QED BY <1>1, OwnInvariant, PTL DEF Spec, EntryLostByCloseOrTakeover

-----------------------------------------------------------------------------
(* No connection has two entries, when no client switches ids. *)
THEOREM NobodyHasTwoIds ==
  ASSUME SwitchIds = FALSE
  PROVE  Spec => []OneIdPerConnection
<1>1. IInv => OneIdPerConnection
  BY DEF IInv, OwnIds, EntryIsLive, OneIdPerConnection, Registered
<1> QED BY <1>1, OwnInvariant, PTL

(***************************************************************************)
(* What a client that switches ids (MayLogin, main.cpp:1048) does not      *)
(* break: until the entry it leaves behind dangles, nobody is dropped from *)
(* the map in silence or told what is not so, and entries are lost for the *)
(* same two reasons.                                                       *)
(***************************************************************************)
THEOREM SwitchingOnlyLeavesEntries ==
  Spec /\ []NothingDangles
    => [](ReachableOrKicked /\ ToldIsSo) /\ EntryLostByCloseOrTakeover
<1>1. IInv => ReachableOrKicked /\ ToldIsSo
  BY DEF IInv
<1>2. IInv /\ [Next]_vars => [LossIsJustified]_vars
  BY StepLosesJustly
<1> QED BY <1>1, <1>2, RegistryInvariant, PTL DEF Spec, EntryLostByCloseOrTakeover

-----------------------------------------------------------------------------
(* A step of the server is a step of the directory, or leaves it alone. *)
LEMMA StepImplementsDirectory ==
  ASSUME SwitchIds = FALSE, IInv, [Next]_vars
  PROVE  [D!Next]_(D!vars)
<1> USE ConstantsOK DEF IInv, TypeOK, OwnIds, D!vars
<1>1. CASE UNCHANGED vars
  BY <1>1 DEF vars
<1>2. ASSUME NEW c \in Conns, NEW id \in Ids, NEW key \in Keys, Login(c, id, key)
      PROVE  D!Claim(c, id)
  BY <1>2 DEF Login, TakenOver, MayLogin, D!Claim, D!Holds, EntryIsLive, Registered
<1>3. ASSUME NEW c \in Conns, Insert(c)
      PROVE  D!Claim(c, myid[c])
  <2>1. /\ pc[c] = "insert" /\ myid[c] \in Ids
        /\ registry' = Inserted(c) /\ kicked' = kicked
    BY <1>3 DEF Insert, At, InsertIsFresh, Ids
  <2>2. \A i \in Ids : registry[i] # c
    BY <2>1 DEF EntryIsSettled, Registered
  <2>3. registry[myid[c]] = NoConn
    BY <2>1 DEF FreshIsFree, InsertIsFresh
  <2>4. registry' = [registry EXCEPT ![myid[c]] = c]
    BY <2>1, <2>3 DEF Inserted
  <2>5. D!Holds(c) = {}
    BY <2>2 DEF D!Holds
  <2> QED BY <2>1, <2>3, <2>4, <2>5 DEF D!Claim
<1>4. ASSUME NEW c \in Conns, Close(c)
      PROVE  \/ D!Leave(c)
             \/ D!Surrender(c, myid[c]) /\ myid[c] \in Ids
             \/ UNCHANGED D!vars
  <2>1. CASE myid[c] = NoId
    <3>1. UNCHANGED registry /\ kicked' = kicked \ {c}
      BY <1>4, <2>1 DEF Close, Release
    <3>2. D!Holds(c) = {}
      BY <2>1 DEF D!Holds, EntryIsLive, Registered
    <3> QED BY <3>1, <3>2 DEF D!Leave
  <2>2. CASE myid[c] # NoId
    BY <1>4, <2>2 DEF Close, Erased, D!Surrender
  <2> QED BY <2>1, <2>2
<1>5. ASSUME NEW c \in Conns, Free(c)
      PROVE  D!Leave(c)
  BY <1>5 DEF Free, Release, At, D!Leave, D!Holds, EntryIsSettled, Registered
<1>6. ASSUME UNCHANGED <<registry, kicked>>
      PROVE  UNCHANGED D!vars
  BY <1>6
<1>7. ASSUME NEW c \in Conns, Insert(c)
      PROVE  myid[c] \in Ids
  BY <1>7 DEF Insert, At, InsertIsFresh, Ids
<1> QED BY <1>1, <1>2, <1>3, <1>4, <1>5, <1>6, <1>7 DEF D!Next, Next, Receive,
           Continue, Accept, Handshake, BadMessage, Connect, Lookup, Describe,
           Forward, GetOnlineDevices, Reply

(***************************************************************************)
(* The server, with all its threads and messages, implements the directory.*)
(***************************************************************************)
THEOREM ServerImplementsDirectory ==
  ASSUME SwitchIds = FALSE
  PROVE  Spec => ImplementsDirectory
<1>1. Init => D!Init
  BY DEF Init, D!Init
<1>2. IInv /\ [Next]_vars => [D!Next]_(D!vars)
  BY StepImplementsDirectory
<1> QED BY <1>1, <1>2, OwnInvariant, PTL DEF Spec, ImplementsDirectory, D!Spec
=============================================================================
