------------------------ MODULE CriticalSection_proofs ------------------------
(* Proofs about CriticalSection, for any number of threads. *)
EXTENDS CriticalSection, TLAPS

(***************************************************************************)
(* The inductive invariant: the mutex is held by the one thread past Lock  *)
(* and before Unlock, and a thread's name is in the word only while it is  *)
(* inside or has not yet cleared the word.                                 *)
(***************************************************************************)
HolderIsInside ==
  \A th \in Threads : m = th <=> pc[th] \in {"setOwner", "inside"}

WordNamesLeaver ==
  \A th \in Threads : t = th => pc[th] \in {"inside", "clearOwner"}

IInv == TypeOK /\ HolderIsInside /\ WordNamesLeaver

(* Nobody holds anything initially. *)
LEMMA InitIInv == Init => IInv
  BY NobodyIsNoThread DEF Init, IInv, TypeOK, Places, HolderIsInside, WordNamesLeaver

(* Every step of the macros preserves the invariant. *)
LEMMA NextIInv == IInv /\ [Next]_vars => IInv'
<1> SUFFICES ASSUME IInv, [Next]_vars
             PROVE  IInv'
  OBVIOUS
<1> USE NobodyIsNoThread DEF IInv, TypeOK, Places, HolderIsInside, WordNamesLeaver, Step
<1>1. ASSUME NEW th \in Threads, Enter(th)
      PROVE  IInv'
  BY <1>1 DEF Enter
<1>2. ASSUME NEW th \in Threads, ReadNull(th)
      PROVE  IInv'
  BY <1>2 DEF ReadNull
<1>3. ASSUME NEW th \in Threads, ReadSelf(th)
      PROVE  IInv'
  BY <1>3 DEF ReadSelf, OwnedBySelf
<1>4. ASSUME NEW th \in Threads, Lock(th)
      PROVE  IInv'
  BY <1>4 DEF Lock
<1>5. ASSUME NEW th \in Threads, SetOwner(th)
      PROVE  IInv'
  BY <1>5 DEF SetOwner
<1>6. ASSUME NEW th \in Threads, Unlock(th)
      PROVE  IInv'
  BY <1>6 DEF Unlock, Unlocked
<1>7. ASSUME NEW th \in Threads, ClearOwner(th)
      PROVE  IInv'
  BY <1>7 DEF ClearOwner, Cleared
<1>8. CASE UNCHANGED vars
  BY <1>8 DEF vars
<1> QED BY <1>1, <1>2, <1>3, <1>4, <1>5, <1>6, <1>7, <1>8 DEF Next, Continue

(* The invariant holds in every reachable state. *)
LEMMA Invariant == Spec => []IInv
  BY InitIInv, NextIInv, PTL DEF Spec

(* Two threads inside would both hold the mutex. *)
LEMMA IInvExcludes == IInv => MutualExclusion
  BY DEF IInv, HolderIsInside, MutualExclusion

(* At most one thread is in the section, for any number of threads. *)
THEOREM Exclusion == Spec => []MutualExclusion
  BY Invariant, IInvExcludes, PTL

(* The unlocked look at the owner word never admits a thread. *)
THEOREM EntryOnlyThroughMutex == Spec => []NoFalseReentry
<1>1. IInv => NoFalseReentry
  BY DEF IInv, TypeOK, WordNamesLeaver, NoFalseReentry
<1> QED BY <1>1, Invariant, PTL

(* A step of the macros takes the abstract lock, gives it back, or does    *)
(* neither.                                                                *)
LEMMA StepImplementsMutex == IInv /\ IInv' /\ [Next]_vars => [L!Next]_Owner
<1> SUFFICES ASSUME IInv, IInv', [Next]_vars
             PROVE  [L!Next]_Owner
  OBVIOUS
<1>1. MutualExclusion /\ MutualExclusion'
  BY DEF IInv, HolderIsInside, MutualExclusion
<1>2. ASSUME NEW th \in Threads, pc[th] = "inside"
      PROVE  Owner = th
  BY <1>1, <1>2 DEF Owner, MutualExclusion
<1>3. ASSUME NEW th \in Threads, pc'[th] = "inside"
      PROVE  Owner' = th
  BY <1>1, <1>3 DEF Owner, MutualExclusion
<1>4. (\A th \in Threads : pc[th] # "inside") => Owner = Nobody
  BY DEF Owner
<1>5. (\A th \in Threads : pc'[th] # "inside") => Owner' = Nobody
  BY DEF Owner
<1>6. ASSUME \A th \in Threads : pc[th] = "inside" <=> pc'[th] = "inside"
      PROVE  UNCHANGED Owner
  BY <1>2, <1>3, <1>4, <1>5, <1>6
<1>7. ASSUME NEW th \in Threads, SetOwner(th)
      PROVE  L!Take(th)
  <2>1. pc'[th] = "inside" /\ \A u \in Threads : pc[u] # "inside"
    BY <1>7, NobodyIsNoThread DEF SetOwner, Step, IInv, TypeOK, HolderIsInside
  <2> QED BY <2>1, <1>3, <1>4 DEF L!Take
<1>8. ASSUME NEW th \in Threads, Unlock(th)
      PROVE  L!Give(th)
  <2>1. pc[th] = "inside" /\ \A u \in Threads : pc'[u] # "inside"
    BY <1>8, <1>1 DEF Unlock, Step, IInv, TypeOK, MutualExclusion
  <2> QED BY <2>1, <1>2, <1>5 DEF L!Give
<1>9. ASSUME NEW th \in Threads,
             Enter(th) \/ ReadNull(th) \/ ReadSelf(th) \/ Lock(th) \/ ClearOwner(th)
      PROVE  UNCHANGED Owner
  <2>1. \A u \in Threads : pc[u] = "inside" <=> pc'[u] = "inside"
    BY <1>9 DEF Enter, ReadNull, ReadSelf, OwnedBySelf, Lock, ClearOwner, Step,
       IInv, TypeOK, WordNamesLeaver
  <2> QED BY <2>1, <1>6
<1>10. CASE UNCHANGED vars
  BY <1>10, <1>6 DEF vars
<1> QED BY <1>7, <1>8, <1>9, <1>10 DEF Next, Continue, L!Next

(* The macros implement a mutex. *)
THEOREM MacrosImplementMutex == Spec => ImplementsMutex
<1>1. Init => L!Init
  BY DEF Init, Owner, L!Init
<1> QED BY <1>1, StepImplementsMutex, Invariant, PTL DEF Spec, ImplementsMutex, L!Spec
=============================================================================
