------------------------------- MODULE FrameFifo -------------------------------
(***************************************************************************)
(* What a queue of media frames promises: first in, first out, at most     *)
(* Size frames.  A new call gets a new, empty queue.                       *)
(***************************************************************************)
EXTENDS Naturals, Sequences

CONSTANTS
  Frames,   (* the frames that may be queued *)
  Size      (* how many fit                  *)

VARIABLE queue

Init == queue = << >>

Push(f) == Len(queue) < Size /\ queue' = Append(queue, f)

Pop == queue # << >> /\ queue' = Tail(queue)

Renew == queue' = << >>

Next == Pop \/ Renew \/ \E f \in Frames : Push(f)

Spec == Init /\ [][Next]_queue
=============================================================================
