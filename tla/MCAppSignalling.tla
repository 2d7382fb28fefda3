--------------------------- MODULE MCAppSignalling ---------------------------
(* AppSignalling, with sockets that are alike. *)
EXTENDS AppSignalling, TLC

Symmetry == Permutations(Sockets)

=============================================================================
