----------------------------- MODULE MCPeerList -----------------------------
(* PeerList, with ids and memory that are alike: for safety only. *)
EXTENDS PeerList, TLC

Symmetry == Permutations(Uuids) \cup Permutations(Nodes)

=============================================================================
