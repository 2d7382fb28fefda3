--------------------------- MODULE CriticalSection ---------------------------
(***************************************************************************)
(* The Linux CRITICAL_SECTION of the signalling server                     *)
(* (signalserver/main.cpp): macros that put an owner word t in front of a  *)
(* pthread mutex, to let a thread enter again a section it is in.  The     *)
(* word is read before the mutex is taken and cleared after it is given    *)
(* back, so it may name no one, or a thread on its way out, while another  *)
(* is inside.                                                              *)
(*                                                                         *)
(* No caller nests its sections: HP_Server_Disconnect and HP_Server_Send,  *)
(* which the sections call, run no callback before they return.            *)
(***************************************************************************)
CONSTANTS
  Threads,   (* the worker threads of HP-Socket *)
  Nobody     (* t = 0, and the holder of a free mutex *)

ASSUME NobodyIsNoThread == Nobody \notin Threads

VARIABLES
  m,     (* the thread that holds the pthread mutex *)
  t,     (* the owner word *)
  pc     (* where each thread is in the macros *)

vars == <<m, t, pc>>

Places == {"outside", "readNull", "readSelf", "lock", "setOwner", "inside",
           "clearOwner"}

TypeOK ==
  /\ m \in Threads \cup {Nobody}
  /\ t \in Threads \cup {Nobody}
  /\ pc \in [Threads -> Places]

Init ==
  /\ m = Nobody
  /\ t = Nobody
  /\ pc = [th \in Threads |-> "outside"]

Step(th, from, to) == pc[th] = from /\ pc' = [pc EXCEPT ![th] = to]

(* EnterCriticalSection is called. *)
Enter(th) ==
  /\ Step(th, "outside", "readNull")
  /\ UNCHANGED <<m, t>>

(* if (t == 0): lock. *)
ReadNull(th) ==
  /\ Step(th, "readNull", IF t = Nobody THEN "lock" ELSE "readSelf")
  /\ UNCHANGED <<m, t>>

(* Mutant: any owner will do. *)
OwnedByAnyone(th) == t # Nobody

OwnedBySelf(th) == t = th

(* if (pthread_self() == t): already inside; else lock. *)
ReadSelf(th) ==
  /\ Step(th, "readSelf", IF OwnedBySelf(th) THEN "inside" ELSE "lock")
  /\ UNCHANGED <<m, t>>

Lock(th) ==
  /\ m = Nobody
  /\ m' = th
  /\ Step(th, "lock", "setOwner")
  /\ UNCHANGED t

SetOwner(th) ==
  /\ t' = th
  /\ Step(th, "setOwner", "inside")
  /\ UNCHANGED m

(* Mutant: only the recorded owner gives the mutex back. *)
UnlockedIfOwner(th) == IF t = th THEN Nobody ELSE m

Unlocked(th) == Nobody

(* LeaveCriticalSection gives the mutex back first... *)
Unlock(th) ==
  /\ m' = Unlocked(th)
  /\ Step(th, "inside", "clearOwner")
  /\ UNCHANGED t

(* Mutant: no word is cleared. *)
KeepOwner(th) == t

(* ... and clears the word after, whoever is inside by then. *)
Cleared(th) == Nobody

ClearOwner(th) ==
  /\ t' = Cleared(th)
  /\ Step(th, "clearOwner", "outside")
  /\ UNCHANGED m

Continue(th) == ReadNull(th) \/ ReadSelf(th) \/ Lock(th) \/ SetOwner(th)
                  \/ Unlock(th) \/ ClearOwner(th)

Next == \E th \in Threads : Enter(th) \/ Continue(th)

Spec == Init /\ [][Next]_vars

(* A thread that can go on does; the mutex need not be fair. *)
FairSpec == Spec /\ \A th \in Threads : WF_vars(Continue(th))

-----------------------------------------------------------------------------
(* Only one thread is in the section, however the reads and writes of the  *)
(* owner word fall.                                                        *)
MutualExclusion ==
  \A a, b \in Threads : pc[a] = "inside" /\ pc[b] = "inside" => a = b

(* A thread never finds its own name left in the word: it enters only      *)
(* through the mutex.                                                      *)
NoFalseReentry == \A th \in Threads : pc[th] = "readSelf" => t # th

(* The macros are a mutex, whose owner is the thread in the section. *)
Owner == IF \E th \in Threads : pc[th] = "inside"
         THEN CHOOSE th \in Threads : pc[th] = "inside"
         ELSE Nobody

L == INSTANCE Mutex WITH owner <- Owner

ImplementsMutex == L!Spec

(* Threads never wait for a section that no one is in or about to enter:   *)
(* while there is one at the mutex, one gets in.                           *)
SomeoneEnters ==
  (\E th \in Threads : pc[th] = "lock") ~> (\E th \in Threads : pc[th] = "inside")
=============================================================================
