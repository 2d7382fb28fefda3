------------------------------ MODULE AudioCapture ------------------------------
(***************************************************************************)
(* The capture streams of the Android application's calls                  *)
(* (audio_capture.cpp).  The main thread opens a call's stream and, when   *)
(* the call ends, takes it away; when the audio route changes, the system  *)
(* disconnects a stream, and a detached thread closes the call's stream    *)
(* and opens another.  Such a thread may outlive its call: it keeps the    *)
(* pipeline of the call, not the session's.                                *)
(*                                                                         *)
(* A reconnect thread is named after the stream whose loss started it.     *)
(* Only a started stream is disconnected, and only once (AAudio).          *)
(***************************************************************************)
EXTENDS Naturals, FiniteSets

CONSTANTS
  Streams,       (* the streams the system may open: bounds their number     *)
  NoStream,
  Main,          (* the main thread                                          *)
  MaxCalls,      (* bounds the calls                                         *)
  MaxAttempts    (* of a reconnect thread: 5 in the code                     *)

ASSUME ConstantsOK ==
  /\ NoStream \notin Streams /\ Main \notin Streams
  /\ MaxCalls \in Nat /\ MaxAttempts \in Nat \ {0}

VARIABLES
  pc,         (* main: "out", "starting", "taking" the stream, "closing" it  *)
  calls,      (* how many calls there were; the last one's pipeline          *)
  current,    (* session->audioCapture, the number of a call, or 0           *)
  running,    (* the calls whose pipeline runs                               *)
  stored,     (* the stream of each call's pipeline                          *)
  state,      (* of a stream: "unused", "started", "dead", "stopped", "closed" *)
  at,         (* where an opener is: "out", "close", "check", "open", "store" *)
  serves,     (* the call an opener opens for, 0 if none                     *)
  held,       (* the stream it has opened and not yet stored                 *)
  attempts,   (* of a reconnect thread                                       *)
  leaving,    (* the streams that audioCaptureStop closes                    *)
  strays      (* history: the reconnect threads that serve a later call than *)
              (* the one their stream was opened for                         *)

vars == <<pc, calls, current, running, stored, state, at, serves, held, attempts, leaving,
          strays>>
openerVars == <<at, serves, held, attempts>>

Calls == 1 .. MaxCalls
Openers == {Main} \cup Streams

TypeOK ==
  /\ pc \in {"out", "starting", "taking", "closing"}
  /\ calls \in 0 .. MaxCalls /\ current \in 0 .. calls
  /\ running \subseteq Calls
  /\ stored \in [Calls -> Streams \cup {NoStream}]
  /\ state \in [Streams -> {"unused", "started", "dead", "stopped", "closed"}]
  /\ at \in [Openers -> {"out", "close", "check", "open", "store"}]
  /\ serves \in [Openers -> 0 .. MaxCalls]
  /\ held \in [Openers -> Streams \cup {NoStream}]
  /\ attempts \in [Streams -> 0 .. (MaxAttempts - 1)]
  /\ leaving \subseteq Streams /\ strays \subseteq Streams

Init ==
  /\ pc = "out" /\ calls = 0 /\ current = 0 /\ running = {}
  /\ stored = [c \in Calls |-> NoStream]
  /\ state = [s \in Streams |-> "unused"]
  /\ at = [o \in Openers |-> "out"] /\ serves = [o \in Openers |-> 0]
  /\ held = [o \in Openers |-> NoStream]
  /\ attempts = [s \in Streams |-> 0] /\ leaving = {} /\ strays = {}

-----------------------------------------------------------------------------
(* audioCaptureStart: a new pipeline, and its first stream. *)
Start ==
  /\ pc = "out" /\ current = 0 /\ calls < MaxCalls
  /\ calls' = calls + 1 /\ current' = calls' /\ running' = running \cup {calls'}
  /\ pc' = "starting"
  /\ at' = [at EXCEPT ![Main] = "check"] /\ serves' = [serves EXCEPT ![Main] = calls']
  /\ UNCHANGED <<stored, state, held, attempts, leaving, strays>>

(* The end of openAndStartCaptureStream: the main thread gives the pipeline *)
(* up if it failed, a reconnect thread tries again.                         *)
Done(o) ==
  /\ at' = [at EXCEPT ![o] = "out"] /\ held' = [held EXCEPT ![o] = NoStream]
  /\ pc' = IF o = Main THEN "out" ELSE pc
  /\ UNCHANGED <<running, attempts>>

Failed(o) ==
  /\ held' = [held EXCEPT ![o] = NoStream]
  /\ \/ /\ o = Main /\ pc' = "out" /\ running' = running \ {serves[o]}
        /\ at' = [at EXCEPT ![o] = "out"] /\ UNCHANGED attempts
     \/ /\ o # Main /\ attempts[o] + 1 < MaxAttempts
        /\ attempts' = [attempts EXCEPT ![o] = @ + 1]
        /\ at' = [at EXCEPT ![o] = "check"] /\ UNCHANGED <<pc, running>>
     \/ /\ o # Main /\ attempts[o] + 1 >= MaxAttempts
        /\ at' = [at EXCEPT ![o] = "out"] /\ UNCHANGED <<pc, running, attempts>>

(* There is nothing to open if the pipeline was stopped or has a stream. *)
Check(o) ==
  /\ at[o] = "check"
  /\ \/ serves[o] \notin running /\ Done(o)
     \/ serves[o] \in running /\ stored[serves[o]] # NoStream /\ Done(o)
     \/ /\ serves[o] \in running /\ stored[serves[o]] = NoStream
        /\ at' = [at EXCEPT ![o] = "open"] /\ UNCHANGED <<pc, running, held, attempts>>
  /\ UNCHANGED <<calls, current, stored, state, serves, leaving, strays>>

(* Opening or starting the stream may fail; a stream that does not start is *)
(* closed.                                                                  *)
Open(o) ==
  /\ at[o] = "open"
  /\ \/ Failed(o) /\ UNCHANGED state
     \/ \E s \in Streams :
          /\ state[s] = "unused" /\ state' = [state EXCEPT ![s] = "started"]
          /\ held' = [held EXCEPT ![o] = s] /\ at' = [at EXCEPT ![o] = "store"]
          /\ UNCHANGED <<pc, running, attempts>>
  /\ UNCHANGED <<calls, current, stored, serves, leaving, strays>>

Close(s) == state' = [state EXCEPT ![s] = "closed"]

(* Mutant: the stream is stored although the pipeline was stopped meanwhile. *)
StoreUnchecked(o) ==
  /\ at[o] = "store"
  /\ \/ stored[serves[o]] # NoStream /\ Close(held[o]) /\ Done(o) /\ UNCHANGED stored
     \/ /\ stored[serves[o]] = NoStream
        /\ stored' = [stored EXCEPT ![serves[o]] = held[o]] /\ Done(o) /\ UNCHANGED state
  /\ UNCHANGED <<calls, current, serves, leaving, strays>>

(* Under the mutex, what was checked before the stream was opened is        *)
(* checked again.                                                           *)
Store(o) ==
  /\ at[o] = "store"
  /\ \/ serves[o] \notin running /\ Close(held[o]) /\ Failed(o) /\ UNCHANGED stored
     \/ /\ serves[o] \in running /\ stored[serves[o]] # NoStream
        /\ Close(held[o]) /\ Done(o) /\ UNCHANGED stored
     \/ /\ serves[o] \in running /\ stored[serves[o]] = NoStream
        /\ stored' = [stored EXCEPT ![serves[o]] = held[o]] /\ Done(o) /\ UNCHANGED state
  /\ UNCHANGED <<calls, current, serves, leaving, strays>>

-----------------------------------------------------------------------------
(* The stream was opened for the call, and is stored or about to be.  Its   *)
(* callback asks for no such thing: see Producers.                          *)
OfCall(s, c) ==
  \/ stored[c] = s
  \/ \E o \in Openers : held[o] = s /\ serves[o] = c

(* Mutant: a thread is started for errors after which the stream goes on. *)
AnyError(s) ==
  /\ state[s] = "started" /\ current # 0 /\ serves[s] = 0
  /\ at' = [at EXCEPT ![s] = "close"] /\ serves' = [serves EXCEPT ![s] = current]
  /\ UNCHANGED <<pc, calls, current, running, stored, state, held, attempts, leaving, strays>>

(* errorCallback: the thread serves the call of the session at this time,   *)
(* whichever call the stream belonged to.                                   *)
Disconnect(s) ==
  /\ state[s] = "started" /\ state' = [state EXCEPT ![s] = "dead"]
  /\ \/ current = 0 /\ UNCHANGED <<at, serves, strays>>
     \/ /\ current # 0
        /\ at' = [at EXCEPT ![s] = "close"] /\ serves' = [serves EXCEPT ![s] = current]
        /\ strays' = IF OfCall(s, current) THEN strays ELSE strays \cup {s}
  /\ UNCHANGED <<pc, calls, current, running, stored, held, attempts, leaving>>

(* The thread first closes the stream the pipeline has now. *)
CloseStored(o) ==
  /\ at[o] = "close" /\ at' = [at EXCEPT ![o] = "check"]
  /\ \/ stored[serves[o]] = NoStream /\ UNCHANGED <<stored, state>>
     \/ /\ stored[serves[o]] # NoStream /\ Close(stored[serves[o]])
        /\ stored' = [stored EXCEPT ![serves[o]] = NoStream]
  /\ UNCHANGED <<pc, calls, current, running, serves, held, attempts, leaving, strays>>

-----------------------------------------------------------------------------
(* audioCaptureStop *)
Stop ==
  /\ pc = "out" /\ current # 0
  /\ running' = running \ {current} /\ pc' = "taking"
  /\ UNCHANGED <<calls, current, stored, state, openerVars, leaving, strays>>

(* Mutant: the pipeline keeps the stream that is about to be closed. *)
TakeCopy ==
  /\ pc = "taking" /\ pc' = "closing"
  /\ \/ stored[current] = NoStream /\ UNCHANGED <<state, leaving>>
     \/ /\ stored[current] # NoStream /\ leaving' = leaving \cup {stored[current]}
        /\ state' = [state EXCEPT ![stored[current]] = "stopped"]
  /\ UNCHANGED <<calls, current, running, stored, openerVars, strays>>

(* The stream is taken under the mutex and stopped; its state is waited for. *)
Take ==
  /\ pc = "taking" /\ pc' = "closing"
  /\ \/ stored[current] = NoStream /\ UNCHANGED <<stored, state, leaving>>
     \/ /\ stored[current] # NoStream /\ leaving' = leaving \cup {stored[current]}
        /\ state' = [state EXCEPT ![stored[current]] = "stopped"]
        /\ stored' = [stored EXCEPT ![current] = NoStream]
  /\ UNCHANGED <<calls, current, running, openerVars, strays>>

(* Older systems close it in a thread that the main thread waits for up to *)
(* 50 ms only.                                                             *)
CloseLeaving(s) ==
  /\ s \in leaving /\ leaving' = leaving \ {s} /\ Close(s)
  /\ UNCHANGED <<pc, calls, current, running, stored, openerVars, strays>>

StopReturns ==
  /\ pc = "closing" /\ pc' = "out" /\ current' = 0
  /\ UNCHANGED <<calls, running, stored, state, openerVars, leaving, strays>>

-----------------------------------------------------------------------------
OpenerStep(o) == CloseStored(o) \/ Check(o) \/ Open(o) \/ Store(o)

Next ==
  \/ Start \/ Stop \/ Take \/ StopReturns
  \/ \E o \in Openers : OpenerStep(o)
  \/ \E s \in Streams : Disconnect(s) \/ CloseLeaving(s)

Spec == Init /\ [][Next]_vars

(* The threads are scheduled; nothing is assumed of the calls or the route. *)
FairSpec ==
  /\ Spec
  /\ WF_vars(Take) /\ WF_vars(StopReturns)
  /\ \A o \in Openers : WF_vars(OpenerStep(o))
  /\ \A s \in Streams : WF_vars(CloseLeaving(s))

-----------------------------------------------------------------------------
IsOpen(s) == state[s] \in {"started", "dead", "stopped"}

(* Those who will close the stream: a pipeline, an opener, or a stop. *)
Owners(s) ==
  { <<"call", c>> : c \in {d \in Calls : stored[d] = s} }
    \cup { <<"opener", o>> : o \in {p \in Openers : held[p] = s} }
    \cup { <<"stop", t>> : t \in leaving \cap {s} }

(* Every open stream is in exactly one hand, and no closed one is in any:   *)
(* however stops, starts and reconnect threads cross, no stream is closed   *)
(* twice, used after it was closed, or forgotten.                           *)
OwnedOnce ==
  \A s \in Streams :
    IF IsOpen(s) THEN \E x \in Owners(s) : Owners(s) = {x} ELSE Owners(s) = {}

(* dataCallback: a stream that records writes to the ring of the session's  *)
(* pipeline, whichever call it was opened for.  (It ends for good if this   *)
(* pipeline does not run when it calls; here it may go on later.)           *)
Producers == {s \in Streams : state[s] = "started" /\ current \in running}

(* It was opened by a thread that has outlived its call, and now closes it. *)
LateHand(s) == \E o \in Openers : held[o] = s /\ serves[o] # current

(* Who writes to the ring of a call, which is made for one producer, is the *)
(* call's stream or one that a thread has just started; and of those only   *)
(* one at a time, but for streams about to be closed by threads of earlier  *)
(* calls, and for the time after a stream of an earlier call was lost       *)
(* during a later one.  In these two cases two callbacks share the ring.    *)
OneProducer ==
  /\ \A s \in Producers : stored[current] = s \/ \E o \in Openers : held[o] = s
  /\ strays = {} =>
       \A s, t \in Producers : s = t \/ LateHand(s) \/ LateHand(t)

(* The streams of calls that have ended. *)
Leftovers == leaving \cup {s \in Streams : \E c \in Calls \ {current} : OfCall(s, c)}

(* A call that has ended leaves no open stream behind: whatever a thread of *)
(* it still opens is closed.                                                *)
StreamsEnd == Leftovers # {} ~> Leftovers = {}
=============================================================================
