---------------------------- MODULE PeerList_proofs ----------------------------
(***************************************************************************)
(* Proofs about PeerList, for any ids, any memory and any order of the     *)
(* steps.                                                                  *)
(***************************************************************************)
EXTENDS PeerList, TLAPS

Distinct == \A i, j \in DOMAIN list : uuid[list[i]] = uuid[list[j]] => i = j

(* The id of the message is in no listed node while a node is made for it. *)
NewIsAbsent ==
  pc \in {"create", "link"} => \A n \in Listed : uuid[n] # msg.from

NewIsUnlisted ==
  pc = "link" => peer \in live \ Listed /\ uuid[peer] = msg.from

(* Whatever the application calls. *)
ListInv ==
  /\ TypeOK /\ Listed \subseteq live /\ Distinct /\ NewIsAbsent /\ NewIsUnlisted

(* As ids are distinct, the first node with an id is the node with it. *)
LEMMA FindFinds ==
  ASSUME ListInv, NEW u \in Uuids
  PROVE  \/ Find(u) = NoNode /\ \A n \in Listed : uuid[n] # u
         \/ Find(u) \in Listed /\ uuid[Find(u)] = u /\ Find(u) \in Nodes /\ Find(u) # NoNode
<1>1. CASE \A n \in Listed : uuid[n] # u
  BY <1>1 DEF Find
<1>2. ASSUME NEW i \in DOMAIN list, uuid[list[i]] = u
      PROVE  Find(u) \in Listed /\ uuid[Find(u)] = u
  <2>1. \A j \in 1 .. (i - 1) : j \in DOMAIN list /\ j # i
    BY <1>2 DEF ListInv, TypeOK
  <2>2. \A j \in 1 .. (i - 1) : uuid[list[j]] # u
    BY <1>2, <2>1 DEF ListInv, Distinct
  <2> DEFINE k == CHOOSE m \in DOMAIN list :
                    uuid[list[m]] = u /\ \A j \in 1 .. (m - 1) : uuid[list[j]] # u
  <2>3. k \in DOMAIN list /\ uuid[list[k]] = u
    BY <1>2, <2>2
  <2>4. Find(u) = list[k]
    BY <1>2 DEF Find, Listed
  <2> QED
    BY <2>3, <2>4 DEF Listed
<1> QED
  <2>1. Listed \subseteq Nodes
    BY DEF ListInv, TypeOK
  <2> QED
    BY <1>1, <1>2, <2>1, ConstantsOK DEF Listed

(* What deleting does to the list. *)
LEMMA DeletedEffect ==
  ASSUME ListInv, NEW ns, Deleted(ns), uuid' = uuid
  PROVE  /\ list' \in Seq(Nodes) /\ Listed' = Listed \ ns /\ live' = live \ ns
         /\ Distinct'
<1>1. PICK k \in 0 .. Len(list) :
        \E t \in [1 .. k -> Listed \ ns] : IsRest(t, ns) /\ list' = t
  BY DEF Deleted
<1>2. list \in Seq(Nodes) /\ Listed \subseteq Nodes /\ Len(list) \in Nat
  BY DEF ListInv, TypeOK, Listed
<1>3. list' \in [1 .. k -> Listed \ ns] /\ IsRest(list', ns) /\ k \in Nat
  BY <1>1, <1>2
<1>4. list' \in Seq(Nodes) /\ DOMAIN list' = 1 .. k
  BY <1>2, <1>3
<1>5. Listed' = Listed \ ns
  BY <1>3 DEF IsRest, Listed
<1>6. ASSUME NEW i \in DOMAIN list', NEW j \in DOMAIN list', i < j
      PROVE  uuid[list'[i]] # uuid[list'[j]]
  <2>1. PICK a, b \in DOMAIN list : a < b /\ list'[i] = list[a] /\ list'[j] = list[b]
    BY <1>3, <1>6 DEF IsRest
  <2>2. a # b
    BY <2>1, <1>2
  <2> QED
    BY <2>1, <2>2 DEF ListInv, Distinct
<1>7. Distinct'
  BY <1>4, <1>6 DEF Distinct
<1> QED
  BY <1>4, <1>5, <1>7 DEF Deleted

(* Nodes leave the list, and nothing else that the invariant speaks of changes. *)
LEMMA DeletedKeepsListInv ==
  ASSUME ListInv, NEW ns, Deleted(ns), UNCHANGED <<uuid, operateType, old, connected,
                                                   orphans, sending, msg, peer, tail,
                                                   pc>>,
         pc = "link" => peer \notin ns, conns' \in [Nodes -> SUBSET Types],
         knows' \in [Uuids -> {"nothing", "called", "ended"}]
  PROVE  ListInv'
<1>1. list' \in Seq(Nodes) /\ Listed' = Listed \ ns /\ live' = live \ ns /\ Distinct'
  BY DeletedEffect
<1>2. TypeOK'
  BY <1>1 DEF ListInv, TypeOK
<1>3. Listed' \subseteq live'
  BY <1>1 DEF ListInv
<1>4. NewIsAbsent'
  BY <1>1 DEF ListInv, NewIsAbsent
<1>5. NewIsUnlisted'
  BY <1>1 DEF ListInv, NewIsUnlisted
<1> QED
  BY <1>1, <1>2, <1>3, <1>4, <1>5 DEF ListInv

(* Making a connection touches one node. *)
LEMMA MadeIsTyped ==
  ASSUME TypeOK, NEW n \in Nodes, NEW type \in Types, Made(n, type)
  PROVE  /\ conns' \in [Nodes -> SUBSET Types] /\ connected' \in [Nodes -> SUBSET Types]
         /\ orphans' \in BOOLEAN /\ \A m \in Nodes : m # n => conns'[m] = conns[m]
BY DEF TypeOK, Made

(* A response changes the connections and the state of calls only. *)
LEMMA RespondIsTyped ==
  ASSUME ListInv, NEW u \in Uuids, Respond(u)
  PROVE  /\ conns' \in [Nodes -> SUBSET Types] /\ connected' \in [Nodes -> SUBSET Types]
         /\ orphans' \in BOOLEAN
         /\ operateType' \in [Nodes -> {"waiting", "working"}]
<1>1. TypeOK /\ "publisher" \in Types
  BY DEF ListInv, Types
<1>2. Find(u) # NoNode => Find(u) \in Nodes
  BY FindFinds
<1>3. CASE UNCHANGED <<conn, operateType>>
  BY <1>1, <1>3 DEF conn, TypeOK
<1>4. CASE /\ Find(u) # NoNode /\ Made(Find(u), "publisher")
           /\ \/ operateType' = [operateType EXCEPT ![Find(u)] = "working"]
              \/ UNCHANGED operateType
  <2>1. operateType' \in [Nodes -> {"waiting", "working"}]
    BY <1>1, <1>4 DEF TypeOK
  <2> QED
    BY <1>1, <1>2, <1>4, <2>1, MadeIsTyped
<1> QED
  BY <1>3, <1>4 DEF Respond

(* Every step, of whichever thread, keeps the list in order. *)
LEMMA ListInvNext == ListInv /\ [Next]_vars => ListInv'
<1> SUFFICES ASSUME ListInv, [Next]_vars
             PROVE  ListInv'
  OBVIOUS
<1> USE ConstantsOK
<1>a. /\ TypeOK /\ Listed \subseteq live /\ Distinct /\ NewIsAbsent /\ NewIsUnlisted
      /\ Listed \subseteq Nodes
  BY DEF ListInv, TypeOK, Listed
<1>1. ASSUME NEW kind \in Kinds, NEW u \in Uuids, Receive(kind, u)
      PROVE  ListInv'
  <2>a. /\ pc = "idle" /\ pc' \in {"idle", "describe", "release", "create"}
        /\ msg' = [kind |-> kind, from |-> u] /\ peer' = Find(u)
        /\ peer' \in Nodes \cup {NoNode}
        /\ pc' = "create" => \A m \in Listed : uuid[m] # u
        /\ pc' \in {"describe", "release"} => peer' # NoNode
        /\ UNCHANGED <<list, live, uuid, operateType, old, conns, connected, orphans,
                       tail, sending>>
    BY <1>1, FindFinds DEF Receive, Goto, node, conn
  <2>b. knows' \in [Uuids -> {"nothing", "called", "ended"}]
    BY <1>a, <1>1 DEF Receive, TypeOK
  <2>1. TypeOK'
    BY <1>a, <2>a, <2>b DEF TypeOK, Kinds
  <2>2. (Listed \subseteq live)'
    BY <1>a, <2>a, <2>b DEF Listed, Kinds
  <2>3. Distinct'
    BY <1>a, <2>a, <2>b DEF Distinct, Kinds
  <2>4. NewIsAbsent'
    BY <1>a, <2>a, <2>b DEF NewIsAbsent, Listed, Kinds
  <2>5. NewIsUnlisted'
    BY <1>a, <2>a, <2>b DEF NewIsUnlisted, Listed, Kinds
  <2> QED
    BY <2>1, <2>2, <2>3, <2>4, <2>5 DEF ListInv
<1>2. CASE Release
  <2>1. TypeOK'
    BY <1>a, <1>2 DEF TypeOK, Release, ReleasedOld, Released, Goto, Return, node, conn,
       appl, work
  <2>2. (Listed \subseteq live)'
    BY <1>a, <1>2 DEF Listed, Release, ReleasedOld, Released, Goto, Return, node, conn,
       appl, work
  <2>3. Distinct'
    BY <1>a, <1>2 DEF Distinct, Release, ReleasedOld, Released, Goto, Return, node, conn,
       appl, work
  <2>4. NewIsAbsent'
    BY <1>a, <1>2 DEF NewIsAbsent, Listed, Release, ReleasedOld, Released, Goto, Return,
       node, conn, appl, work
  <2>5. NewIsUnlisted'
    BY <1>a, <1>2 DEF NewIsUnlisted, Listed, Release, ReleasedOld, Released, Goto, Return,
       node, conn, appl, work
  <2> QED
    BY <2>1, <2>2, <2>3, <2>4, <2>5 DEF ListInv
<1>3. CASE Delete
  <2>1. PICK m : Deleted({m}) /\ m = Find(msg.from)
    BY <1>3 DEF Delete, Replaced
  <2>2. /\ list' \in Seq(Nodes) /\ Listed' = Listed \ {m} /\ live' = live \ {m} /\ Distinct'
    BY <1>3, <2>1, DeletedEffect DEF Delete
  <2>3. TypeOK'
    BY <1>a, <1>3, <2>2 DEF Delete, TypeOK, Goto, appl
  <2>4. NewIsAbsent'
    <3>1. msg.from \in Uuids
      BY <1>a DEF TypeOK
    <3>2. \A k \in Listed : uuid[k] = msg.from => k = m
      BY <1>a, <2>1, <3>1, FindFinds DEF Distinct, Listed
    <3> QED
      BY <1>a, <1>3, <2>2, <3>2 DEF Delete, NewIsAbsent
  <2>5. NewIsUnlisted'
    BY <1>3 DEF Delete, Goto, NewIsUnlisted
  <2> QED
    BY <1>a, <2>2, <2>3, <2>4, <2>5 DEF ListInv
<1>4. CASE Create
  <2>a. PICK m \in Nodes \ live :
          /\ live' = live \cup {m} /\ old' = old \ {m}
          /\ uuid' = [uuid EXCEPT ![m] = msg.from]
          /\ operateType' = [operateType EXCEPT ![m] = "waiting"]
          /\ connected' = [connected EXCEPT ![m] = {}] /\ peer' = m
    BY <1>4 DEF Create
  <2>b. /\ pc = "create" /\ pc' = "link" /\ tail' \in Nodes \cup {NoNode}
         /\ UNCHANGED <<list, conns, orphans, msg, sending, knows>>
    BY <1>a, <1>4 DEF Create, Goto, appl, TypeOK
  <2>1. TypeOK'
    BY <1>a, <2>a, <2>b DEF TypeOK, Listed
  <2>2. (Listed \subseteq live)'
    BY <1>a, <2>a, <2>b DEF Listed
  <2>3. Distinct'
    BY <1>a, <2>a, <2>b DEF Distinct, Listed
  <2>4. NewIsAbsent'
    BY <1>a, <2>a, <2>b DEF NewIsAbsent, Listed
  <2>5. NewIsUnlisted'
    <3>1. Listed' = Listed
      BY <2>b DEF Listed
    <3> QED
      BY <1>a, <2>a, <2>b, <3>1 DEF NewIsUnlisted, TypeOK
  <2> QED
    BY <2>1, <2>2, <2>3, <2>4, <2>5 DEF ListInv
<1>5. CASE Link
  <2>a. /\ pc = "link" /\ pc' = "find" /\ peer \in live \ Listed /\ uuid[peer] = msg.from
        /\ \A m \in Listed : uuid[m] # msg.from
        /\ tail' = NoNode /\ peer \in Nodes
        /\ list' = list \/ list' = Append(list, peer)
        /\ UNCHANGED <<live, uuid, operateType, old, conns, connected, orphans, msg, peer,
                       sending, knows>>
    BY <1>a, <1>5 DEF Link, Goto, node, conn, appl, NewIsAbsent, NewIsUnlisted, TypeOK
  <2>1. TypeOK'
    <3>1. list' \in Seq(Nodes)
      <4>1. list \in Seq(Nodes) /\ peer \in Nodes
        BY <1>a, <2>a DEF TypeOK
      <4>2. Append(list, peer) \in Seq(Nodes)
        BY <4>1
      <4> QED
        BY <2>a, <4>1, <4>2
    <3> QED
      BY <1>a, <2>a, <3>1, SMTT(40) DEF TypeOK
  <2>2. (Listed \subseteq live)'
    BY <1>a, <2>a DEF Listed
  <2>3. Distinct'
    BY <1>a, <2>a DEF Distinct, Listed
  <2>4. NewIsAbsent'
    BY <2>a DEF NewIsAbsent
  <2>5. NewIsUnlisted'
    BY <2>a DEF NewIsUnlisted
  <2> QED
    BY <2>1, <2>2, <2>3, <2>4, <2>5 DEF ListInv
<1>6. CASE FindNew
  <2>a. /\ peer' \in Nodes \cup {NoNode} /\ pc' \in {"idle", "tell"}
        /\ pc' = "tell" => peer' # NoNode
        /\ UNCHANGED <<list, live, uuid, operateType, old, conns, connected, orphans, msg,
                       tail, sending, knows>>
    BY <1>a, <1>6, FindFinds DEF FindNew, Found, Goto, node, conn, appl, TypeOK
  <2>1. TypeOK'
    BY <1>a, <2>a DEF TypeOK, Listed
  <2>2. (Listed \subseteq live)'
    BY <1>a, <2>a DEF Listed
  <2>3. Distinct'
    BY <1>a, <2>a DEF Distinct, Listed
  <2>4. NewIsAbsent'
    BY <1>a, <2>a DEF NewIsAbsent, Listed
  <2>5. NewIsUnlisted'
    BY <1>a, <2>a DEF NewIsUnlisted, Listed
  <2> QED
    BY <2>1, <2>2, <2>3, <2>4, <2>5 DEF ListInv
<1>7. CASE Tell
  <2>a. /\ pc = "tell" /\ pc' \in {"idle", "respond", "connect"}
        /\ peer' \in {peer, NoNode} /\ (pc' # "idle" => peer' = peer)
        /\ knows' \in [Uuids -> {"nothing", "called", "ended"}]
        /\ UNCHANGED <<list, live, uuid, operateType, old, conns, connected, orphans, msg,
                       tail, sending>>
    BY <1>a, <1>7 DEF Tell, Goto, Return, node, conn, TypeOK
  <2>1. TypeOK'
    BY <1>a, <2>a DEF TypeOK, Listed
  <2>2. (Listed \subseteq live)'
    BY <1>a, <2>a DEF Listed
  <2>3. Distinct'
    BY <1>a, <2>a DEF Distinct, Listed
  <2>4. NewIsAbsent'
    BY <1>a, <2>a DEF NewIsAbsent, Listed
  <2>5. NewIsUnlisted'
    BY <1>a, <2>a DEF NewIsUnlisted, Listed
  <2> QED
    BY <2>1, <2>2, <2>3, <2>4, <2>5 DEF ListInv
<1>8. CASE WorkerResponds
  <2>a. /\ conns' \in [Nodes -> SUBSET Types] /\ connected' \in [Nodes -> SUBSET Types]
         /\ orphans' \in BOOLEAN
         /\ operateType' \in [Nodes -> {"waiting", "working"}]
    BY <1>a, <1>8, RespondIsTyped DEF WorkerResponds, TypeOK
  <2>1. TypeOK'
    BY <1>a, <1>8, <2>a DEF TypeOK, WorkerResponds, Return, Goto, appl
  <2>2. (Listed \subseteq live)'
    BY <1>a, <1>8, <2>a DEF Listed, WorkerResponds, Return, Goto, appl
  <2>3. Distinct'
    BY <1>a, <1>8, <2>a DEF Distinct, WorkerResponds, Return, Goto, appl
  <2>4. NewIsAbsent'
    BY <1>a, <1>8, <2>a DEF NewIsAbsent, Listed, WorkerResponds, Return, Goto, appl
  <2>5. NewIsUnlisted'
    BY <1>a, <1>8, <2>a DEF NewIsUnlisted, Listed, WorkerResponds, Return, Goto, appl
  <2> QED
    BY <2>1, <2>2, <2>3, <2>4, <2>5 DEF ListInv
<1>9. CASE Connect
  <2>a. /\ conns' \in [Nodes -> SUBSET Types] /\ connected' \in [Nodes -> SUBSET Types]
         /\ orphans' \in BOOLEAN
    <3>1. peer \in Nodes /\ "subscriber" \in Types
      BY <1>a, <1>9 DEF Connect, Return, Goto, TypeOK, Types
    <3> QED
      BY <1>a, <1>9, <3>1, MadeIsTyped DEF Connect, TypeOK, conn
  <2>1. TypeOK'
    BY <1>a, <1>9, <2>a DEF TypeOK, Connect, Return, Goto, appl, node
  <2>2. (Listed \subseteq live)'
    BY <1>a, <1>9, <2>a DEF Listed, Connect, Return, Goto, appl, node
  <2>3. Distinct'
    BY <1>a, <1>9, <2>a DEF Distinct, Connect, Return, Goto, appl, node
  <2>4. NewIsAbsent'
    BY <1>a, <1>9, <2>a DEF NewIsAbsent, Listed, Connect, Return, Goto, appl, node
  <2>5. NewIsUnlisted'
    BY <1>a, <1>9, <2>a DEF NewIsUnlisted, Listed, Connect, Return, Goto, appl, node
  <2> QED
    BY <2>1, <2>2, <2>3, <2>4, <2>5 DEF ListInv
<1>10. CASE Describe
  <2>1. TypeOK'
    BY <1>a, <1>10 DEF TypeOK, Describe, Goto, Return, node, conn, appl, work
  <2>2. (Listed \subseteq live)'
    BY <1>a, <1>10 DEF Listed, Describe, Goto, Return, node, conn, appl, work
  <2>3. Distinct'
    BY <1>a, <1>10 DEF Distinct, Describe, Goto, Return, node, conn, appl, work
  <2>4. NewIsAbsent'
    BY <1>a, <1>10 DEF NewIsAbsent, Listed, Describe, Goto, Return, node, conn, appl, work
  <2>5. NewIsUnlisted'
    BY <1>a, <1>10 DEF NewIsUnlisted, Listed, Describe, Goto, Return, node, conn, appl,
       work
  <2> QED
    BY <2>1, <2>2, <2>3, <2>4, <2>5 DEF ListInv
<1>11. CASE Reap
  <2>1. /\ conns' \in [Nodes -> SUBSET Types] /\ Deleted(DeadOnes)
        /\ pc = "reap" /\ pc' = "idle"
        /\ knows' \in [Uuids -> {"nothing", "called", "ended"}]
        /\ UNCHANGED <<uuid, operateType, old, connected, orphans, msg, peer, tail,
                       sending>>
    BY <1>a, <1>11 DEF Reap, Goto, Released, TypeOK
  <2>2. /\ list' \in Seq(Nodes) /\ Listed' = Listed \ DeadOnes
        /\ live' = live \ DeadOnes /\ Distinct'
    BY <2>1, DeletedEffect
  <2>3. TypeOK'
    BY <1>a, <2>1, <2>2 DEF TypeOK
  <2> QED
    BY <1>a, <2>1, <2>2, <2>3 DEF ListInv, NewIsAbsent, NewIsUnlisted
<1>12. CASE Timeout
  <2>1. TypeOK'
    BY <1>a, <1>12 DEF TypeOK, Timeout, Goto, Return, node, conn, appl, work
  <2>2. (Listed \subseteq live)'
    BY <1>a, <1>12 DEF Listed, Timeout, Goto, Return, node, conn, appl, work
  <2>3. Distinct'
    BY <1>a, <1>12 DEF Distinct, Timeout, Goto, Return, node, conn, appl, work
  <2>4. NewIsAbsent'
    BY <1>a, <1>12 DEF NewIsAbsent, Listed, Timeout, Goto, Return, node, conn, appl, work
  <2>5. NewIsUnlisted'
    BY <1>a, <1>12 DEF NewIsUnlisted, Listed, Timeout, Goto, Return, node, conn, appl,
       work
  <2> QED
    BY <2>1, <2>2, <2>3, <2>4, <2>5 DEF ListInv
<1>13. CASE Send
  <2>a. sending' \in Nodes
    BY <1>a, <1>13 DEF Send, TypeOK
  <2>1. TypeOK'
    BY <1>a, <1>13, <2>a DEF TypeOK, Send, Goto, Return, node, conn, appl, work
  <2>2. (Listed \subseteq live)'
    BY <1>a, <1>13, <2>a DEF Listed, Send, Goto, Return, node, conn, appl, work
  <2>3. Distinct'
    BY <1>a, <1>13, <2>a DEF Distinct, Send, Goto, Return, node, conn, appl, work
  <2>4. NewIsAbsent'
    BY <1>a, <1>13, <2>a DEF NewIsAbsent, Listed, Send, Goto, Return, node, conn, appl,
       work
  <2>5. NewIsUnlisted'
    BY <1>a, <1>13, <2>a DEF NewIsUnlisted, Listed, Send, Goto, Return, node, conn, appl,
       work
  <2> QED
    BY <2>1, <2>2, <2>3, <2>4, <2>5 DEF ListInv
<1>14. CASE SendNext
  <2>a. sending' \in Nodes \cup {NoNode}
    BY <1>a, <1>14 DEF SendNext, TypeOK
  <2>1. TypeOK'
    BY <1>a, <1>14, <2>a DEF TypeOK, SendNext, Goto, Return, node, conn, appl, work
  <2>2. (Listed \subseteq live)'
    BY <1>a, <1>14, <2>a DEF Listed, SendNext, Goto, Return, node, conn, appl, work
  <2>3. Distinct'
    BY <1>a, <1>14, <2>a DEF Distinct, SendNext, Goto, Return, node, conn, appl, work
  <2>4. NewIsAbsent'
    BY <1>a, <1>14, <2>a DEF NewIsAbsent, Listed, SendNext, Goto, Return, node, conn,
       appl, work
  <2>5. NewIsUnlisted'
    BY <1>a, <1>14, <2>a DEF NewIsUnlisted, Listed, SendNext, Goto, Return, node, conn,
       appl, work
  <2> QED
    BY <2>1, <2>2, <2>3, <2>4, <2>5 DEF ListInv
<1>15. ASSUME NEW u \in Uuids, AppResponds(u)
      PROVE  ListInv'
  <2>a. /\ conns' \in [Nodes -> SUBSET Types] /\ connected' \in [Nodes -> SUBSET Types]
         /\ orphans' \in BOOLEAN
         /\ operateType' \in [Nodes -> {"waiting", "working"}]
    BY <1>a, <1>15, RespondIsTyped DEF AppResponds
  <2>1. TypeOK'
    BY <1>a, <1>15, <2>a DEF TypeOK, AppResponds, work, appl
  <2>2. (Listed \subseteq live)'
    BY <1>a, <1>15, <2>a DEF Listed, AppResponds, work, appl
  <2>3. Distinct'
    BY <1>a, <1>15, <2>a DEF Distinct, AppResponds, work, appl
  <2>4. NewIsAbsent'
    BY <1>a, <1>15, <2>a DEF NewIsAbsent, Listed, AppResponds, work, appl
  <2>5. NewIsUnlisted'
    BY <1>a, <1>15, <2>a DEF NewIsUnlisted, Listed, AppResponds, work, appl
  <2> QED
    BY <2>1, <2>2, <2>3, <2>4, <2>5 DEF ListInv
<1>16. ASSUME NEW u \in Uuids, Hangup(u)
      PROVE  ListInv'
  <2>1. Find(u) \in Listed
    BY <1>16, FindFinds DEF Hangup
  <2>2. pc = "link" => peer # Find(u)
    BY <1>a, <2>1 DEF NewIsUnlisted
  <2>3. /\ conns' \in [Nodes -> SUBSET Types]
        /\ knows' \in [Uuids -> {"nothing", "called", "ended"}]
    BY <1>a, <1>16 DEF Hangup, Released, TypeOK
  <2> QED
    BY <1>16, <2>2, <2>3, DeletedKeepsListInv DEF Hangup, work
<1>17. CASE Stop
  <2>1. /\ conns' \in [Nodes -> SUBSET Types] /\ Deleted(Listed)
        /\ pc = "idle" /\ pc' = "stopped"
        /\ UNCHANGED <<uuid, operateType, old, connected, orphans, msg, peer, tail,
                       sending, knows>>
    BY <1>a, <1>17 DEF Stop, Goto, Released, TypeOK, appl
  <2>2. list' \in Seq(Nodes) /\ Listed' = {} /\ live' = live \ Listed /\ Distinct'
    BY <2>1, DeletedEffect
  <2>3. TypeOK'
    BY <1>a, <2>1, <2>2 DEF TypeOK
  <2> QED
    BY <2>1, <2>2, <2>3 DEF ListInv, NewIsAbsent, NewIsUnlisted
<1>18. ASSUME NEW m \in Nodes, Age(m)
      PROVE  ListInv'
  <2>1. TypeOK'
    BY <1>a, <1>18 DEF TypeOK, Age, Goto, Return, node, conn, appl, work
  <2>2. (Listed \subseteq live)'
    BY <1>a, <1>18 DEF Listed, Age, Goto, Return, node, conn, appl, work
  <2>3. Distinct'
    BY <1>a, <1>18 DEF Distinct, Age, Goto, Return, node, conn, appl, work
  <2>4. NewIsAbsent'
    BY <1>a, <1>18 DEF NewIsAbsent, Listed, Age, Goto, Return, node, conn, appl, work
  <2>5. NewIsUnlisted'
    BY <1>a, <1>18 DEF NewIsUnlisted, Listed, Age, Goto, Return, node, conn, appl, work
  <2> QED
    BY <2>1, <2>2, <2>3, <2>4, <2>5 DEF ListInv
<1>19. ASSUME NEW m \in Nodes, NEW type \in Types, StateChange(m, type)
      PROVE  ListInv'
  <2>1. TypeOK'
    BY <1>a, <1>19 DEF TypeOK, StateChange, Goto, Return, node, conn, appl, work
  <2>2. (Listed \subseteq live)'
    BY <1>a, <1>19 DEF Listed, StateChange, Goto, Return, node, conn, appl, work
  <2>3. Distinct'
    BY <1>a, <1>19 DEF Distinct, StateChange, Goto, Return, node, conn, appl, work
  <2>4. NewIsAbsent'
    BY <1>a, <1>19 DEF NewIsAbsent, Listed, StateChange, Goto, Return, node, conn, appl,
       work
  <2>5. NewIsUnlisted'
    BY <1>a, <1>19 DEF NewIsUnlisted, Listed, StateChange, Goto, Return, node, conn, appl,
       work
  <2> QED
    BY <2>1, <2>2, <2>3, <2>4, <2>5 DEF ListInv
<1>20. CASE UNCHANGED vars
  <2>1. TypeOK'
    BY <1>a, <1>20 DEF TypeOK, vars
  <2>2. (Listed \subseteq live)'
    BY <1>a, <1>20 DEF Listed, vars
  <2>3. Distinct'
    BY <1>a, <1>20 DEF Distinct, vars
  <2>4. NewIsAbsent'
    BY <1>a, <1>20 DEF NewIsAbsent, Listed, vars
  <2>5. NewIsUnlisted'
    BY <1>a, <1>20 DEF NewIsUnlisted, Listed, vars
  <2> QED
    BY <2>1, <2>2, <2>3, <2>4, <2>5 DEF ListInv
<1> QED
  BY <1>1, <1>2, <1>3, <1>4, <1>5, <1>6, <1>7, <1>8, <1>9, <1>10, <1>11, <1>12, <1>13,
     <1>14, <1>15, <1>16, <1>17, <1>18, <1>19, <1>20 DEF Next, Worker

-----------------------------------------------------------------------------
(***************************************************************************)
(* When the application does not hang up, nothing but the worker's own     *)
(* steps takes nodes from the list while it handles a message; and when it *)
(* only sends, nobody else makes a connection in a node that the worker is *)
(* about to delete, or has just made.                                      *)
(***************************************************************************)
OnlySends == AppCalls \subseteq {"send"}

WorkersNode ==
  /\ pc \in {"release", "delete", "tell", "connect", "describe"} => peer \in Listed
  /\ pc \in {"release", "delete", "tell", "connect"} => uuid[peer] = msg.from
  /\ pc = "link" => tail \in Listed \cup {NoNode}

SendersNode == sending \in Listed \cup {NoNode}

AllReachable ==
  /\ live = Listed \cup (IF pc = "link" THEN {peer} ELSE {})
  /\ pc = "stopped" => live = {}

CallsAreListed ==
  pc # "stopped" =>
    \A u \in Uuids : knows[u] = "called" =>
      (\E n \in Listed : uuid[n] = u) \/ (pc \in {"create", "link"} /\ msg.from = u)

NewIsBare ==
  /\ pc \in {"delete", "link"} => conns[peer] = {}
  /\ pc \in {"find", "tell", "respond", "connect"} =>
       \A n \in Listed : uuid[n] = msg.from => conns[n] = {}

ConnsAreKept == OnlySends => NewIsBare /\ NoOrphan

StayInv ==
  /\ ListInv /\ WorkersNode /\ SendersNode /\ AllReachable /\ CallsAreListed
  /\ ConnsAreKept

LEMMA StayInvNext ==
  ASSUME "hangup" \notin AppCalls, StayInv, [Next]_vars
  PROVE  StayInv'
<1> USE ConstantsOK
<1>a. /\ TypeOK /\ Listed \subseteq live /\ Distinct /\ NewIsAbsent /\ NewIsUnlisted
      /\ Listed \subseteq Nodes /\ ListInv /\ WorkersNode /\ SendersNode /\ AllReachable
      /\ CallsAreListed /\ ConnsAreKept
  BY DEF StayInv, ListInv, TypeOK, Listed
<1>b. ListInv'
  BY <1>a, ListInvNext
<1>1. ASSUME NEW kind \in Kinds, NEW u \in Uuids, Receive(kind, u)
      PROVE  StayInv'
  <2>1. /\ pc = "idle" /\ pc' \in {"idle", "describe", "release", "create"}
        /\ msg' = [kind |-> kind, from |-> u]
        /\ pc' \in {"describe", "release"} => peer' \in Listed /\ uuid[peer'] = u
        /\ UNCHANGED <<list, live, uuid, operateType, old, conns, connected, orphans,
                       tail, sending>>
        /\ \A x \in Uuids : knows'[x] = "called" => knows[x] = "called"
    BY <1>a, <1>1, FindFinds DEF Receive, Goto, node, conn, TypeOK
  <2>2. Listed' = Listed
    BY <2>1 DEF Listed
  <2>3. WorkersNode'
    BY <1>a, <2>1, <2>2 DEF WorkersNode, TypeOK
  <2>4. SendersNode'
    BY <1>a, <2>1, <2>2 DEF SendersNode, TypeOK
  <2>5. AllReachable' /\ ConnsAreKept'
    BY <1>a, <2>1, <2>2 DEF AllReachable, ConnsAreKept, NewIsBare, NoOrphan, TypeOK
  <2>6. CallsAreListed'
    BY <1>a, <2>1, <2>2 DEF CallsAreListed, TypeOK
  <2> QED
    BY <1>b, <2>3, <2>4, <2>5, <2>6 DEF StayInv
<1>2. CASE Release
  <2>1. /\ pc = "release" /\ pc' = "delete" /\ peer \in Nodes
        /\ conns' = [m \in Nodes |-> IF m \in {peer} THEN {} ELSE conns[m]]
        /\ UNCHANGED <<list, live, uuid, operateType, old, connected, orphans, msg, peer,
                       tail, sending, knows>>
    BY <1>a, <1>2 DEF Release, ReleasedOld, Released, Goto, node, appl, WorkersNode, ConnsAreKept,
       NewIsBare
  <2>2. Listed' = Listed
    BY <2>1 DEF Listed
  <2>3. WorkersNode'
    BY <1>a, <2>1, <2>2 DEF WorkersNode, TypeOK
  <2>4. SendersNode'
    BY <1>a, <2>1, <2>2 DEF SendersNode, TypeOK
  <2>5. AllReachable' /\ ConnsAreKept'
    BY <1>a, <2>1, <2>2 DEF AllReachable, ConnsAreKept, NewIsBare, NoOrphan, TypeOK
  <2>6. CallsAreListed'
    BY <1>a, <2>1, <2>2 DEF CallsAreListed, TypeOK
  <2> QED
    BY <1>b, <2>3, <2>4, <2>5, <2>6 DEF StayInv
<1>3. CASE Delete
  <2>1. /\ pc = "delete" /\ pc' = "create" /\ Deleted({peer})
        /\ sending = NoNode /\ peer \in Listed /\ uuid[peer] = msg.from
        /\ OnlySends => conns[peer] = {} /\ orphans' = orphans
        /\ UNCHANGED <<uuid, operateType, old, conns, connected, msg, peer, tail, sending,
                       knows>>
    <3>1. /\ pc = "delete" /\ peer \in Listed /\ uuid[peer] = msg.from
          /\ msg.from \in Uuids
          /\ OnlySends => conns[peer] = {}
      BY <1>a, <1>3 DEF Delete, Goto, WorkersNode, ConnsAreKept, NewIsBare, TypeOK
    <3>2. Find(msg.from) = peer
      BY <1>a, <3>1, FindFinds DEF Distinct, Listed
    <3> QED
      BY <1>a, <1>3, <3>1, <3>2 DEF Delete, Replaced, MayDelete, Unlocked, Goto, appl,
         ConnsAreKept, NoOrphan, TypeOK
  <2>2. Listed' = Listed \ {peer} /\ live' = live \ {peer}
    BY <1>a, <2>1, DeletedEffect
  <2>3. WorkersNode'
    BY <1>a, <2>1, <2>2 DEF WorkersNode, TypeOK
  <2>4. SendersNode'
    BY <1>a, <2>1, <2>2 DEF SendersNode, TypeOK
  <2>5. AllReachable' /\ ConnsAreKept'
    BY <1>a, <2>1, <2>2 DEF AllReachable, ConnsAreKept, NewIsBare, NoOrphan, TypeOK
  <2>6. CallsAreListed'
    BY <1>a, <2>1, <2>2 DEF CallsAreListed, TypeOK
  <2> QED
    BY <1>b, <2>3, <2>4, <2>5, <2>6 DEF StayInv
<1>4. CASE Create
  <2>1. PICK m \in Nodes \ live :
          /\ live' = live \cup {m} /\ old' = old \ {m}
          /\ uuid' = [uuid EXCEPT ![m] = msg.from]
          /\ operateType' = [operateType EXCEPT ![m] = "waiting"]
          /\ connected' = [connected EXCEPT ![m] = {}] /\ peer' = m
    BY <1>4 DEF Create
  <2>2. /\ pc = "create" /\ pc' = "link" /\ tail' \in Listed \cup {NoNode}
         /\ UNCHANGED <<list, conns, orphans, msg, sending, knows>>
    BY <1>a, <1>4 DEF Create, Goto, appl, TypeOK, Listed
  <2>3. Listed' = Listed
    BY <2>2 DEF Listed
  <2>4. WorkersNode'
    BY <1>a, <2>1, <2>2, <2>3 DEF WorkersNode, TypeOK
  <2>5. SendersNode'
    BY <1>a, <2>1, <2>2, <2>3 DEF SendersNode, TypeOK
  <2>6. AllReachable' /\ ConnsAreKept'
    BY <1>a, <2>1, <2>2, <2>3 DEF AllReachable, ConnsAreKept, NewIsBare, NoOrphan, TypeOK
  <2>7. CallsAreListed'
    BY <1>a, <2>1, <2>2, <2>3 DEF CallsAreListed, TypeOK
  <2> QED
    BY <1>b, <2>4, <2>5, <2>6, <2>7 DEF StayInv
<1>5. CASE Link
  <2>1. /\ pc = "link" /\ pc' = "find" /\ peer \in live \ Listed /\ uuid[peer] = msg.from
        /\ \A m \in Listed : uuid[m] # msg.from
        /\ tail' = NoNode /\ peer \in Nodes /\ (OnlySends => conns[peer] = {})
        /\ list' = Append(list, peer)
        /\ UNCHANGED <<live, uuid, operateType, old, conns, connected, orphans, msg, peer,
                       sending, knows>>
    BY <1>a, <1>5 DEF Link, Goto, node, conn, appl, NewIsAbsent, NewIsUnlisted, TypeOK,
       WorkersNode, ConnsAreKept, NewIsBare
  <2>2. Listed' = Listed \cup {peer}
    <3>1. /\ DOMAIN list = 1 .. Len(list) /\ Len(list) \in Nat
          /\ DOMAIN list' = 1 .. (Len(list) + 1) /\ list'[Len(list) + 1] = peer
          /\ \A i \in DOMAIN list : list'[i] = list[i]
      BY <1>a, <2>1 DEF TypeOK
    <3>2. DOMAIN list' = DOMAIN list \cup {Len(list) + 1}
      BY <3>1
    <3> QED
      BY <3>1, <3>2 DEF Listed
  <2>3. WorkersNode'
    BY <1>a, <2>1, <2>2 DEF WorkersNode, TypeOK
  <2>4. SendersNode'
    BY <1>a, <2>1, <2>2 DEF SendersNode, TypeOK
  <2>5. AllReachable' /\ ConnsAreKept'
    BY <1>a, <2>1, <2>2 DEF AllReachable, ConnsAreKept, NewIsBare, NoOrphan, TypeOK
  <2>6. CallsAreListed'
    BY <1>a, <2>1, <2>2 DEF CallsAreListed, TypeOK
  <2> QED
    BY <1>b, <2>3, <2>4, <2>5, <2>6 DEF StayInv
<1>6. CASE FindNew
  <2>1. /\ pc = "find" /\ pc' \in {"idle", "tell"}
        /\ pc' = "tell" => peer' \in Listed /\ uuid[peer'] = msg.from
        /\ UNCHANGED <<list, live, uuid, operateType, old, conns, connected, orphans, msg,
                       tail, sending, knows>>
    BY <1>a, <1>6, FindFinds DEF FindNew, Found, Goto, node, conn, appl, TypeOK
  <2>2. Listed' = Listed
    BY <2>1 DEF Listed
  <2>3. WorkersNode'
    BY <1>a, <2>1, <2>2 DEF WorkersNode, TypeOK
  <2>4. SendersNode'
    BY <1>a, <2>1, <2>2 DEF SendersNode, TypeOK
  <2>5. AllReachable' /\ ConnsAreKept'
    BY <1>a, <2>1, <2>2 DEF AllReachable, ConnsAreKept, NewIsBare, NoOrphan, TypeOK
  <2>6. CallsAreListed'
    BY <1>a, <2>1, <2>2 DEF CallsAreListed, TypeOK
  <2> QED
    BY <1>b, <2>3, <2>4, <2>5, <2>6 DEF StayInv
<1>7. CASE Tell
  <2>1. /\ pc = "tell" /\ pc' \in {"idle", "respond", "connect"}
        /\ peer \in Listed /\ uuid[peer] = msg.from
        /\ pc' # "idle" => peer' = peer
        /\ \A x \in Uuids : x # msg.from => knows'[x] = knows[x]
        /\ UNCHANGED <<list, live, uuid, operateType, old, conns, connected, orphans, msg,
                       tail, sending>>
    BY <1>a, <1>7 DEF Tell, Goto, Return, node, conn, TypeOK, WorkersNode
  <2>2. Listed' = Listed
    BY <2>1 DEF Listed
  <2>3. WorkersNode'
    BY <1>a, <2>1, <2>2 DEF WorkersNode, TypeOK
  <2>4. SendersNode'
    BY <1>a, <2>1, <2>2 DEF SendersNode, TypeOK
  <2>5. AllReachable' /\ ConnsAreKept'
    BY <1>a, <2>1, <2>2 DEF AllReachable, ConnsAreKept, NewIsBare, NoOrphan, TypeOK
  <2>6. CallsAreListed'
    BY <1>a, <2>1, <2>2 DEF CallsAreListed, TypeOK
  <2> QED
    BY <1>b, <2>3, <2>4, <2>5, <2>6 DEF StayInv
<1>8. CASE WorkerResponds
  <2>1. /\ pc = "respond" /\ pc' = "idle" /\ UNCHANGED <<list, live, uuid, old, msg, tail,
                                                         sending, knows>>
        /\ Respond(msg.from) /\ msg.from \in Uuids
    BY <1>a, <1>8 DEF WorkerResponds, Return, Goto, appl, TypeOK
  <2>2. OnlySends => orphans' = orphans /\ \A m \in Nodes \ live : conns'[m] = conns[m]
    <3> SUFFICES ASSUME OnlySends
                 PROVE  orphans' = orphans /\ \A m \in Nodes \ live : conns'[m] = conns[m]
      OBVIOUS
    <3>1. CASE UNCHANGED conn
      BY <3>1 DEF conn
    <3>2. CASE Find(msg.from) # NoNode /\ Made(Find(msg.from), "publisher")
      <4>1. /\ Find(msg.from) \in Listed /\ Find(msg.from) \in Nodes
            /\ uuid[Find(msg.from)] = msg.from
        BY <1>a, <2>1, <3>2, FindFinds
      <4>2. conns[Find(msg.from)] = {}
        BY <1>a, <2>1, <4>1 DEF ConnsAreKept, NewIsBare
      <4> QED
        BY <1>a, <3>2, <4>1, <4>2 DEF Made, TypeOK, ConnsAreKept, NoOrphan
    <3> QED
      BY <2>1, <3>1, <3>2 DEF Respond
  <2>3. Listed' = Listed
    BY <2>1 DEF Listed
  <2>4. WorkersNode'
    BY <1>a, <2>1, <2>2, <2>3 DEF WorkersNode, TypeOK
  <2>5. SendersNode'
    BY <1>a, <2>1, <2>2, <2>3 DEF SendersNode, TypeOK
  <2>6. AllReachable' /\ ConnsAreKept'
    BY <1>a, <2>1, <2>2, <2>3 DEF AllReachable, ConnsAreKept, NewIsBare, NoOrphan, TypeOK
  <2>7. CallsAreListed'
    BY <1>a, <2>1, <2>2, <2>3 DEF CallsAreListed, TypeOK
  <2> QED
    BY <1>b, <2>4, <2>5, <2>6, <2>7 DEF StayInv
<1>9. CASE Connect
  <2>1. /\ pc = "connect" /\ pc' = "idle" /\ peer \in Listed
        /\ OnlySends => conns[peer] = {}
        /\ Made(peer, "subscriber") \/ UNCHANGED conn
        /\ UNCHANGED <<list, live, uuid, operateType, old, msg, tail, sending, knows>>
    BY <1>a, <1>9 DEF Connect, Return, Goto, node, appl, WorkersNode, ConnsAreKept,
       NewIsBare
  <2>2. OnlySends => orphans' = orphans /\ \A m \in Nodes \ live : conns'[m] = conns[m]
    BY <1>a, <2>1 DEF Made, conn, TypeOK, ConnsAreKept, NoOrphan
  <2>3. Listed' = Listed
    BY <2>1 DEF Listed
  <2>4. WorkersNode'
    BY <1>a, <2>1, <2>2, <2>3 DEF WorkersNode, TypeOK
  <2>5. SendersNode'
    BY <1>a, <2>1, <2>2, <2>3 DEF SendersNode, TypeOK
  <2>6. AllReachable' /\ ConnsAreKept'
    BY <1>a, <2>1, <2>2, <2>3 DEF AllReachable, ConnsAreKept, NewIsBare, NoOrphan, TypeOK
  <2>7. CallsAreListed'
    BY <1>a, <2>1, <2>2, <2>3 DEF CallsAreListed, TypeOK
  <2> QED
    BY <1>b, <2>4, <2>5, <2>6, <2>7 DEF StayInv
<1>10. CASE Describe \/ Timeout
  <2>1. /\ pc' \in {"idle", "reap"} /\ pc # "link"
        /\ UNCHANGED <<list, live, uuid, conns, orphans, msg, tail, sending, knows>>
        /\ pc \in {"idle", "describe"}
    BY <1>10 DEF Describe, Timeout, Goto, Return, node, conn, appl
  <2>2. Listed' = Listed
    BY <2>1 DEF Listed
  <2>3. WorkersNode'
    BY <1>a, <2>1, <2>2 DEF WorkersNode, TypeOK
  <2>4. SendersNode'
    BY <1>a, <2>1, <2>2 DEF SendersNode, TypeOK
  <2>5. AllReachable' /\ ConnsAreKept'
    BY <1>a, <2>1, <2>2 DEF AllReachable, ConnsAreKept, NewIsBare, NoOrphan, TypeOK
  <2>6. CallsAreListed'
    BY <1>a, <2>1, <2>2 DEF CallsAreListed, TypeOK
  <2> QED
    BY <1>b, <2>3, <2>4, <2>5, <2>6 DEF StayInv
<1>11. CASE Reap
  <2>1. /\ pc = "reap" /\ pc' = "idle" /\ Deleted(DeadOnes) /\ sending = NoNode
        /\ conns' = [m \in Nodes |-> IF m \in DeadOnes THEN {} ELSE conns[m]]
        /\ knows' = [u \in Uuids |->
                       IF \E m \in DeadOnes : uuid[m] = u THEN "nothing" ELSE knows[u]]
        /\ UNCHANGED <<uuid, operateType, old, connected, orphans, msg, peer, tail,
                       sending>>
    BY <1>11 DEF Reap, Goto, Unlocked, Released
  <2>2. Listed' = Listed \ DeadOnes /\ live' = live \ DeadOnes
    BY <1>a, <2>1, DeletedEffect
  <2> HIDE DEF DeadOnes
  <2>3. WorkersNode'
    BY <1>a, <2>1, <2>2 DEF WorkersNode, TypeOK
  <2>4. SendersNode'
    BY <1>a, <2>1, <2>2 DEF SendersNode, TypeOK
  <2>5. AllReachable' /\ ConnsAreKept'
    BY <1>a, <2>1, <2>2 DEF AllReachable, ConnsAreKept, NewIsBare, NoOrphan, TypeOK
  <2>6. CallsAreListed'
    BY <1>a, <2>1, <2>2 DEF CallsAreListed, TypeOK
  <2> QED
    BY <1>b, <2>3, <2>4, <2>5, <2>6 DEF StayInv
<1>12. CASE Send \/ SendNext
  <2>1. sending' \in Listed \cup {NoNode}
    BY <1>a, <1>12 DEF Send, SendNext, TypeOK, Listed
  <2>2. /\ UNCHANGED <<list, live, uuid, conns, orphans, pc, msg, peer, tail, knows>>
        /\ pc \in {"idle", "release", "delete", "create", "link", "find", "tell",
                  "respond", "connect", "describe", "reap", "stopped"}
    BY <1>a, <1>12 DEF Send, SendNext, node, conn, work, TypeOK
  <2>3. Listed' = Listed
    BY <2>2 DEF Listed
  <2>4. WorkersNode'
    BY <1>a, <2>1, <2>2, <2>3 DEF WorkersNode
  <2>5. SendersNode'
    BY <1>a, <2>1, <2>2, <2>3 DEF SendersNode
  <2>6. AllReachable' /\ ConnsAreKept'
    BY <1>a, <2>1, <2>2, <2>3 DEF AllReachable, ConnsAreKept, NewIsBare, NoOrphan
  <2>7. CallsAreListed'
    BY <1>a, <2>1, <2>2, <2>3 DEF CallsAreListed
  <2> QED
    BY <1>b, <2>4, <2>5, <2>6, <2>7 DEF StayInv
<1>13. ASSUME NEW u \in Uuids, AppResponds(u) \/ Hangup(u)
      PROVE  StayInv'
  <2>1. /\ UNCHANGED <<list, live, uuid, pc, msg, peer, tail, sending, knows>>
        /\ ~OnlySends
    BY <1>13 DEF AppResponds, Hangup, OnlySends, work, appl
  <2>2. Listed' = Listed
    BY <2>1 DEF Listed
  <2>3. WorkersNode' /\ SendersNode' /\ AllReachable' /\ CallsAreListed'
    BY <1>a, <2>1, <2>2 DEF WorkersNode, SendersNode, AllReachable, CallsAreListed
  <2>4. ConnsAreKept'
    BY <2>1 DEF ConnsAreKept, OnlySends
  <2> QED
    BY <1>b, <2>3, <2>4 DEF StayInv
<1>14. CASE Stop
  <2>1. /\ pc = "idle" /\ pc' = "stopped" /\ Deleted(Listed) /\ sending = NoNode
        /\ conns' = [m \in Nodes |-> IF m \in Listed THEN {} ELSE conns[m]]
        /\ UNCHANGED <<uuid, operateType, old, connected, orphans, msg, peer, tail,
                       sending, knows>>
    BY <1>14 DEF Stop, Goto, Unlocked, Released, appl
  <2>2. Listed' = {} /\ live' = live \ Listed
    BY <1>a, <2>1, DeletedEffect
  <2>3. WorkersNode'
    BY <1>a, <2>1, <2>2 DEF WorkersNode, TypeOK
  <2>4. SendersNode'
    BY <1>a, <2>1, <2>2 DEF SendersNode, TypeOK
  <2>5. AllReachable' /\ ConnsAreKept'
    BY <1>a, <2>1, <2>2 DEF AllReachable, ConnsAreKept, NewIsBare, NoOrphan, TypeOK
  <2>6. CallsAreListed'
    BY <1>a, <2>1, <2>2 DEF CallsAreListed, TypeOK
  <2> QED
    BY <1>b, <2>3, <2>4, <2>5, <2>6 DEF StayInv
<1>15. CASE \/ \E m \in Nodes : Age(m) \/ \E type \in Types : StateChange(m, type)
            \/ UNCHANGED vars
  <2>1. UNCHANGED <<list, live, uuid, conns, orphans, pc, msg, peer, tail, sending,
                    knows>>
    BY <1>15 DEF Age, StateChange, conn, work, appl, vars
  <2>2. Listed' = Listed
    BY <2>1 DEF Listed
  <2>3. WorkersNode'
    BY <1>a, <2>1, <2>2 DEF WorkersNode
  <2>4. SendersNode'
    BY <1>a, <2>1, <2>2 DEF SendersNode
  <2>5. AllReachable' /\ ConnsAreKept'
    BY <1>a, <2>1, <2>2 DEF AllReachable, ConnsAreKept, NewIsBare, NoOrphan
  <2>6. CallsAreListed'
    BY <1>a, <2>1, <2>2 DEF CallsAreListed
  <2> QED
    BY <1>b, <2>3, <2>4, <2>5, <2>6 DEF StayInv
<1> QED
  BY <1>1, <1>2, <1>3, <1>4, <1>5, <1>6, <1>7, <1>8, <1>9, <1>10, <1>11, <1>12, <1>13,
     <1>14, <1>15 DEF Next, Worker

-----------------------------------------------------------------------------
LEMMA InitInv == Init => ListInv /\ StayInv
<1> SUFFICES ASSUME Init
             PROVE  ListInv /\ StayInv
  OBVIOUS
<1>1. list = << >> /\ live = {} /\ pc = "idle" /\ Listed = {}
  BY DEF Init, Listed
<1>2. TypeOK
  <2>1. list \in Seq(Nodes) /\ {} \in SUBSET Types
    BY <1>1
  <2>2. /\ conns \in [Nodes -> SUBSET Types] /\ connected \in [Nodes -> SUBSET Types]
        /\ operateType \in [Nodes -> {"waiting", "working"}]
        /\ knows \in [Uuids -> {"nothing", "called", "ended"}]
    BY <2>1 DEF Init
  <2>3. orphans \in BOOLEAN
    BY DEF Init
  <2> QED
    BY <1>1, <2>1, <2>2, <2>3 DEF Init, TypeOK
<1>3. ListInv
  BY <1>1, <1>2 DEF ListInv, Distinct, NewIsAbsent, NewIsUnlisted
<1>4. WorkersNode /\ SendersNode /\ AllReachable /\ CallsAreListed
  BY <1>1 DEF Init, WorkersNode, SendersNode, AllReachable, CallsAreListed
<1>5. ConnsAreKept
  BY <1>1 DEF Init, ConnsAreKept, NewIsBare, NoOrphan
<1> QED
  BY <1>3, <1>4, <1>5 DEF StayInv

LEMMA ListInvHolds == Spec => []ListInv
  BY InitInv, ListInvNext, PTL DEF Spec

LEMMA StayInvHolds ==
  ASSUME "hangup" \notin AppCalls
  PROVE  Spec => []StayInv
<1>1. StayInv /\ [Next]_vars => StayInv'
  BY StayInvNext
<1> QED
  BY <1>1, InitInv, PTL DEF Spec

(* The variables keep their types. *)
THEOREM CallListTypeCorrect == Spec => []TypeOK
<1>1. ListInv => TypeOK
  BY DEF ListInv
<1> QED
  BY <1>1, ListInvHolds, PTL

(* Each other side has at most one node in the list, and the listed nodes   *)
(* are allocated, whatever application threads call and whenever they do    *)
(* (insertPeerAtTail, deletePeerByUUID, RTC_Device_Hangup, __ws_idle_callback). *)
THEOREM CallHasOneNode == Spec => []OneNodePerCall
<1>1. ListInv => OneNodePerCall
  BY DEF ListInv, OneNodePerCall, Distinct
<1> QED
  BY <1>1, ListInvHolds, PTL

(* A sender holds peerMutex, and with it the node it is at, from every      *)
(* other thread; the worker links without the mutex, but takes nothing away. *)
LEMMA SendersNodeNext == ListInv /\ SendersNode /\ [Next]_vars => SendersNode'
<1> SUFFICES ASSUME ListInv, SendersNode, [Next]_vars
             PROVE  SendersNode'
  OBVIOUS
<1> USE DEF SendersNode
<1>1. CASE sending' = NoNode
  BY <1>1
<1>2. CASE Send \/ SendNext
  BY <1>2 DEF Send, SendNext, Listed, ListInv, TypeOK
<1>3. CASE Link
  <2>1. /\ sending' = sending /\ (list' = list \/ list' = Append(list, peer))
        /\ list \in Seq(Nodes) /\ peer \in Nodes
    BY <1>3 DEF Link, Goto, appl, ListInv, NewIsUnlisted, TypeOK
  <2>2. DOMAIN list \subseteq DOMAIN list' /\ \A i \in DOMAIN list : list'[i] = list[i]
    BY <2>1
  <2>3. Listed \subseteq Listed'
    BY <2>2 DEF Listed
  <2> QED
    BY <2>1, <2>3
<1>4. ASSUME UNCHANGED <<list, sending>>
      PROVE  SendersNode'
  BY <1>4 DEF Listed
<1>5. ASSUME Unlocked, sending' = sending
      PROVE  SendersNode'
  BY <1>5 DEF Unlocked
<1>6. ASSUME NEW kind \in Kinds, NEW u \in Uuids, Receive(kind, u)
      PROVE  SendersNode'
  BY <1>4, <1>6 DEF Receive
<1>7. CASE Worker
  BY <1>3, <1>4, <1>5, <1>7 DEF Worker, Release, Delete, MayDelete, Create, FindNew, Tell,
     WorkerResponds, Connect, Describe, Reap, appl
<1>8. CASE \E u \in Uuids : AppResponds(u) \/ Hangup(u)
  BY <1>4, <1>5, <1>8 DEF AppResponds, Hangup, appl
<1>9. CASE Stop \/ Timeout \/ UNCHANGED vars
  BY <1>4, <1>5, <1>9 DEF Stop, Timeout, appl, vars
<1>10. CASE \E n \in Nodes : Age(n) \/ \E type \in Types : StateChange(n, type)
  BY <1>4, <1>10 DEF Age, StateChange, appl
<1> QED
  BY <1>2, <1>6, <1>7, <1>8, <1>9, <1>10 DEF Next

(* Whatever the application's threads call, a sender is only ever at a node *)
(* that is allocated and in the list (RTC_Device_SendVideoFrame and others, *)
(* against deletePeerByUUID, the reaper, RTC_Device_Hangup and a stop): of   *)
(* the pointers of NoUseAfterFree only the worker's can be stale.           *)
THEOREM SendersStayInList ==
  Spec => [](sending # NoNode => sending \in live \cap Listed)
<1>1. ListInv /\ SendersNode => (sending # NoNode => sending \in live \cap Listed)
  BY DEF ListInv, SendersNode
<1>2. Init => SendersNode
  BY DEF Init, SendersNode
<1> QED
  BY <1>1, <1>2, SendersNodeNext, ListInvHolds, PTL DEF Spec

(* Beside application threads that send or respond at any time, but do not   *)
(* hang up, neither the worker, which walks the list without peerMutex, nor *)
(* a sender follows a pointer to memory that was freed.                     *)
THEOREM SendersAndWorkerAreSafe ==
  ASSUME "hangup" \notin AppCalls
  PROVE  Spec => []NoUseAfterFree
<1>1. StayInv => NoUseAfterFree
  BY DEF StayInv, ListInv, WorkersNode, SendersNode, NewIsUnlisted, NoUseAfterFree,
     Followed
<1> QED
  BY <1>1, StayInvHolds, PTL

(* ...and a call the application was told of is found, but for the moment   *)
(* in which the worker replaces it.                                         *)
THEOREM CallIsFound ==
  ASSUME "hangup" \notin AppCalls
  PROVE  Spec => []UnknownOnlyIfReplaced
<1>1. StayInv => UnknownOnlyIfReplaced
  <2> SUFFICES ASSUME StayInv, pc # "stopped", NEW u \in Uuids, knows[u] = "called",
                      Find(u) = NoNode
               PROVE  pc \in {"create", "link"} /\ msg.from = u
    BY DEF UnknownOnlyIfReplaced
  <2>1. \A n \in Listed : uuid[n] # u
    BY FindFinds, ConstantsOK DEF StayInv, ListInv, TypeOK, Listed
  <2> QED
    BY <2>1 DEF StayInv, CallsAreListed
<1> QED
  BY <1>1, StayInvHolds, PTL

(* No node is lost then: each that is allocated is in the list, or in the    *)
(* worker's hands, and RTC_Device_Stop leaves none.                         *)
THEOREM StopLeavesNoCall ==
  ASSUME "hangup" \notin AppCalls
  PROVE  Spec => []AllReachable
<1>1. StayInv => AllReachable
  BY DEF StayInv
<1> QED
  BY <1>1, StayInvHolds, PTL

(* Beside application threads that only send no connection is lost either.  *)
THEOREM NothingIsLost ==
  ASSUME AppCalls \subseteq {"send"}
  PROVE  Spec => []NoOrphan
<1>1. StayInv => NoOrphan
  BY DEF StayInv, ConnsAreKept, OnlySends
<1>2. "hangup" \notin AppCalls
  OBVIOUS
<1>3. Spec => []StayInv
  BY <1>2, StayInvHolds
<1> QED
  BY <1>1, <1>3, PTL
=============================================================================
