------------------------------ MODULE Directory ------------------------------
(***************************************************************************)
(* What the signalling server promises about ids, without messages,        *)
(* threads or structures: an id is held by at most one connection and a    *)
(* connection holds at most one id; a connection that claims a held id     *)
(* gets it at once, and the one that loses it is asked to leave.           *)
(***************************************************************************)
CONSTANTS Conns, Ids, NoConn

VARIABLES
  holder,    (* the connection that holds each id, or NoConn *)
  leaving    (* the connections that have been asked to leave *)

vars == <<holder, leaving>>

Init ==
  /\ holder = [i \in Ids |-> NoConn]
  /\ leaving = {}

Holds(c) == {i \in Ids : holder[i] = c}

Claim(c, id) ==
  /\ Holds(c) \subseteq {id}
  /\ holder' = [holder EXCEPT ![id] = c]
  /\ leaving' = leaving \cup ({holder[id]} \ {NoConn, c})

Surrender(c, id) ==
  /\ holder[id] = c
  /\ holder' = [holder EXCEPT ![id] = NoConn]
  /\ UNCHANGED leaving

Leave(c) ==
  /\ Holds(c) = {}
  /\ leaving' = leaving \ {c}
  /\ UNCHANGED holder

Next == \E c \in Conns :
          Leave(c) \/ \E id \in Ids : Claim(c, id) \/ Surrender(c, id)

Spec == Init /\ [][Next]_vars
=============================================================================
