-------------------------------- MODULE Mutex --------------------------------
(* What a lock promises: one owner at a time, who alone gives it back. *)
CONSTANTS Threads, Nobody

VARIABLE owner

Init == owner = Nobody

Take(th) == owner = Nobody /\ owner' = th

Give(th) == owner = th /\ owner' = Nobody

Next == \E th \in Threads : Take(th) \/ Give(th)

Spec == Init /\ [][Next]_owner
=============================================================================
