-------------------------------- MODULE SpscRing --------------------------------
(***************************************************************************)
(* SpscRingBuffer (utils/ringbuffer.hpp): frames pass from one thread, the *)
(* producer, to another, the consumer, without a lock.  Each stores one    *)
(* index and reads the other's.  A thread first acquires a slot, works on  *)
(* it in place, and then commits it.                                       *)
(*                                                                         *)
(* The native media session of the Android application uses it for the     *)
(* frames to decode (see MediaSession) and for those to send.              *)
(***************************************************************************)
EXTENDS Naturals, Sequences

CONSTANTS
  Capacity,   (* capacity_, a power of two in the code *)
  Frames,     (* what a slot may hold                  *)
  Blank       (* a slot nothing was written to         *)

ASSUME CapacityOK == Capacity \in Nat /\ Capacity >= 2

VARIABLES
  head,       (* head_, stored by the producer only                      *)
  tail,       (* tail_, stored by the consumer only                      *)
  slots,      (* buffer_                                                 *)
  pushing,    (* the producer: "out", has "acquired" or "written" a slot *)
  popping     (* the consumer: "out" or has "acquired" a slot            *)

ringVars == <<head, tail, slots, pushing, popping>>

Index == 0 .. (Capacity - 1)

RingTypeOK ==
  /\ head \in Index /\ tail \in Index
  /\ slots \in [Index -> Frames \cup {Blank}]
  /\ pushing \in {"out", "acquired", "written"}
  /\ popping \in {"out", "acquired"}

(* i & mask_ *)
Wrap(i) == IF i < Capacity THEN i ELSE i - Capacity

(* size() *)
Count == IF head >= tail THEN head - tail ELSE Capacity - (tail - head)

(* Mutant: all slots are used, and a full ring looks like an empty one. *)
NeverFull == FALSE

(* One slot stays empty to tell a full ring from an empty one. *)
Full == Wrap(head + 1) = tail

RingInit ==
  /\ head = 0 /\ tail = 0
  /\ slots = [i \in Index |-> Blank]
  /\ pushing = "out" /\ popping = "out"

AcquirePush ==
  /\ pushing = "out" /\ ~Full
  /\ pushing' = "acquired"
  /\ UNCHANGED <<head, tail, slots, popping>>

WriteSlot(f) ==
  /\ pushing = "acquired" /\ pushing' = "written"
  /\ slots' = [slots EXCEPT ![head] = f]
  /\ UNCHANGED <<head, tail, popping>>

CommitPush ==
  /\ pushing = "written" /\ pushing' = "out"
  /\ head' = Wrap(head + 1)
  /\ UNCHANGED <<tail, slots, popping>>

(* Mutant: the slot at tail is taken before anything was put there. *)
PopUnchecked ==
  /\ popping = "out"
  /\ popping' = "acquired"
  /\ UNCHANGED <<head, tail, slots, pushing>>

AcquirePop ==
  /\ popping = "out" /\ tail # head
  /\ popping' = "acquired"
  /\ UNCHANGED <<head, tail, slots, pushing>>

CommitPop ==
  /\ popping = "acquired" /\ popping' = "out"
  /\ tail' = Wrap(tail + 1)
  /\ UNCHANGED <<head, slots, pushing>>

(* The consumer may leave the frame for another time. *)
LeavePop ==
  /\ popping = "acquired" /\ popping' = "out"
  /\ UNCHANGED <<head, tail, slots, pushing>>

(* A new ring takes the place of one that nobody is in. *)
NewRing ==
  /\ pushing = "out" /\ popping = "out"
  /\ head' = 0 /\ tail' = 0
  /\ slots' = [i \in Index |-> Blank]
  /\ UNCHANGED <<pushing, popping>>

RingNext ==
  \/ AcquirePush \/ CommitPush \/ AcquirePop \/ CommitPop \/ LeavePop \/ NewRing
  \/ \E f \in Frames : WriteSlot(f)

RingSpec == RingInit /\ [][RingNext]_ringVars

-----------------------------------------------------------------------------
(* The producer never writes to the slot the consumer reads. *)
NoDataRace == pushing # "out" /\ popping # "out" => head # tail

(* What the consumer holds is not changed under it, nor taken away. *)
HeldFrameStays ==
  [][popping # "out" /\ popping' # "out" => slots'[tail'] = slots[tail]]_ringVars

(* The frames committed and not yet taken, the oldest first. *)
Contents == [i \in 1 .. Count |-> slots[Wrap(tail + i - 1)]]

Fifo == INSTANCE FrameFifo WITH Size <- Capacity - 1, queue <- Contents

(* The ring is a first-in, first-out queue of one frame less than it has   *)
(* slots, although neither index is read and stored in one step.           *)
ImplementsFifo == Fifo!Spec
=============================================================================
