--------------------------- MODULE AudioCapture_proofs ---------------------------
(***************************************************************************)
(* Proofs about AudioCapture, for any number of streams, calls and         *)
(* attempts.                                                               *)
(***************************************************************************)
EXTENDS AudioCapture, TLAPS

(* An opener works for a call there was, and holds a stream only between   *)
(* opening and storing it; the main thread opens in audioCaptureStart only. *)
OpenersOK ==
  /\ \A o \in Openers : at[o] # "out" => serves[o] \in 1 .. calls
  /\ \A o \in Openers : held[o] # NoStream <=> at[o] = "store"
  /\ pc # "starting" => at[Main] = "out"
  /\ pc \in {"taking", "closing"} => current # 0

(* A reconnect thread is there only once its stream was lost, and a stream *)
(* is lost once. *)
ThreadsAreNew ==
  \A s \in Streams : state[s] \in {"unused", "started"} => at[s] = "out"

(* Nothing is stored for a call to come. *)
CallsAreNew == \A c \in Calls : c > calls => stored[c] = NoStream

(* No stream is in two hands, those in a hand are open... *)
Unique ==
  /\ \A c, d \in Calls : stored[c] = stored[d] /\ stored[c] # NoStream => c = d
  /\ \A o, p \in Openers : held[o] = held[p] /\ held[o] # NoStream => o = p
  /\ \A c \in Calls, o \in Openers : stored[c] = held[o] => stored[c] = NoStream

HandsHoldOpen ==
  /\ \A c \in Calls : stored[c] # NoStream => state[stored[c]] \in {"started", "dead"}
  /\ \A o \in Openers : held[o] # NoStream => state[held[o]] \in {"started", "dead"}
  /\ \A s \in leaving : state[s] = "stopped"

(* ...and those that are open are in a hand. *)
OpenIsHeld ==
  \A s \in Streams :
    /\ state[s] \in {"started", "dead"} =>
         (\E c \in Calls : stored[c] = s) \/ (\E o \in Openers : held[o] = s)
    /\ state[s] = "stopped" => s \in leaving

(***************************************************************************)
(* The right to open a stream for a call: the opener that has it passes it *)
(* to the stream it stores, and the loss of this stream to a new thread.   *)
(***************************************************************************)
MayOpen(o, c) ==
  /\ serves[o] = c
  /\ \/ at[o] \in {"close", "check"} /\ c \in running
     \/ at[o] = "open"
     \/ at[o] = "store" /\ state[held[o]] = "started"

OneOpener ==
  strays = {} =>
    \A c \in Calls :
      /\ \A o, p \in Openers : MayOpen(o, c) /\ MayOpen(p, c) => o = p
      /\ \A o \in Openers : MayOpen(o, c) /\ stored[c] # NoStream => state[stored[c]] = "dead"

IInv ==
  /\ TypeOK /\ OpenersOK /\ ThreadsAreNew /\ CallsAreNew /\ Unique /\ HandsHoldOpen
  /\ OpenIsHeld /\ OneOpener

-----------------------------------------------------------------------------
(* The call an opener works for. *)
LEMMA CallOf ==
  ASSUME IInv, NEW o \in Openers, at[o] # "out"
  PROVE  /\ serves[o] \in Calls /\ serves[o] <= calls /\ calls \in Nat
         /\ o = Main => pc = "starting"
BY ConstantsOK DEF IInv, TypeOK, OpenersOK, Calls

(***************************************************************************)
(* What the two ends of openAndStartCaptureStream, Done and Failed, have   *)
(* in common: the opener is done, or begins again.                         *)
(***************************************************************************)
Back(o, w) ==
  /\ w \in {"out", "check"} /\ (w = "check" => o # Main)
  /\ at' = [at EXCEPT ![o] = w] /\ held' = [held EXCEPT ![o] = NoStream]
  /\ attempts' \in [Streams -> 0 .. (MaxAttempts - 1)] /\ running' \subseteq running
  /\ pc' = IF o = Main THEN "out" ELSE pc

LEMMA DoneIsBack ==
  ASSUME IInv, NEW o \in Openers, Done(o)
  PROVE  Back(o, "out")
BY DEF IInv, TypeOK, Done, Back

LEMMA FailedIsBack ==
  ASSUME IInv, NEW o \in Openers, Failed(o)
  PROVE  \E w : Back(o, w)
<1>1. TypeOK
  BY DEF IInv
<1>2. /\ held' = [held EXCEPT ![o] = NoStream] /\ running' \subseteq running
      /\ pc' = IF o = Main THEN "out" ELSE pc
  BY DEF Failed
<1>3. attempts' \in [Streams -> 0 .. (MaxAttempts - 1)]
  <2>1. CASE attempts' = attempts
    BY <1>1, <2>1 DEF TypeOK
  <2>2. CASE /\ o # Main /\ attempts[o] + 1 < MaxAttempts
             /\ attempts' = [attempts EXCEPT ![o] = @ + 1]
    <3>1. o \in Streams /\ attempts[o] + 1 \in 0 .. (MaxAttempts - 1)
      BY <1>1, <2>2, ConstantsOK DEF TypeOK, Openers
    <3> QED
      BY <1>1, <2>2, <3>1 DEF TypeOK
  <2> QED
    BY <2>1, <2>2 DEF Failed
<1>4. CASE at' = [at EXCEPT ![o] = "out"]
  BY <1>2, <1>3, <1>4 DEF Back
<1>5. CASE o # Main /\ at' = [at EXCEPT ![o] = "check"]
  BY <1>2, <1>3, <1>5 DEF Back
<1> QED
  BY <1>4, <1>5 DEF Failed

-----------------------------------------------------------------------------
(* One lemma for each action. *)
LEMMA StartKeepsIInv ==
  ASSUME IInv, Start
  PROVE  IInv'
<1>1. /\ TypeOK /\ OpenersOK /\ ThreadsAreNew /\ CallsAreNew /\ Unique /\ HandsHoldOpen
      /\ OpenIsHeld /\ OneOpener /\ NoStream \notin Streams /\ Main \notin Streams
  BY ConstantsOK DEF IInv
<1>2. /\ calls' = calls + 1 /\ calls \in Nat /\ calls' \in Calls /\ current' = calls'
      /\ pc = "out" /\ pc' = "starting" /\ running' = running \cup {calls'}
      /\ at[Main] = "out" /\ at' = [at EXCEPT ![Main] = "check"]
      /\ serves' = [serves EXCEPT ![Main] = calls']
      /\ UNCHANGED <<stored, state, held, attempts, leaving, strays>>
  BY <1>1, ConstantsOK DEF Start, TypeOK, OpenersOK, Calls
<1>3. ASSUME NEW o \in Openers, NEW c \in Calls, MayOpen(o, c)', o # Main
      PROVE  MayOpen(o, c) /\ c # calls'
  <2>1. serves[o] = c /\ at[o] # "out" /\ at'[o] = at[o]
    BY <1>1, <1>2, <1>3 DEF MayOpen, TypeOK, Openers
  <2>2. c # calls'
    BY <1>1, <1>2, <2>1, CallOf
  <2> QED
    BY <1>1, <1>2, <1>3, <2>1, <2>2 DEF MayOpen, TypeOK
<1>4. ASSUME NEW c \in Calls, MayOpen(Main, c)'
      PROVE  c = calls' /\ stored'[c] = NoStream
  <2>1. c = calls'
    BY <1>1, <1>2, <1>4 DEF MayOpen, TypeOK, Openers
  <2> QED
    BY <1>1, <1>2, <2>1 DEF CallsAreNew
<1>5. TypeOK'
  BY <1>1, <1>2 DEF TypeOK, Openers, Calls
<1>6. OpenersOK'
  BY <1>1, <1>2 DEF OpenersOK, TypeOK, Openers, Calls
<1>7. ThreadsAreNew'
  BY <1>1, <1>2 DEF ThreadsAreNew, TypeOK, Openers, Calls
<1>8. CallsAreNew'
  BY <1>1, <1>2 DEF CallsAreNew, OpenersOK, TypeOK, Openers, Calls
<1>9. Unique'
  BY <1>1, <1>2 DEF Unique, TypeOK, Openers, Calls
<1>10. HandsHoldOpen'
  BY <1>1, <1>2 DEF HandsHoldOpen, Unique, TypeOK, Openers, Calls
<1>11. OpenIsHeld'
  BY SMTT(40), <1>1, <1>2 DEF OpenIsHeld, HandsHoldOpen, Unique, TypeOK, Openers, Calls
<1>12. OneOpener'
  BY SMTT(40), <1>1, <1>2, <1>3, <1>4 DEF OneOpener
<1> QED
  BY <1>5, <1>6, <1>7, <1>8, <1>9, <1>10, <1>11, <1>12 DEF IInv

LEMMA StopKeepsIInv ==
  ASSUME IInv, Stop
  PROVE  IInv'
<1>1. /\ TypeOK /\ OpenersOK /\ ThreadsAreNew /\ CallsAreNew /\ Unique /\ HandsHoldOpen
      /\ OpenIsHeld /\ OneOpener /\ NoStream \notin Streams /\ Main \notin Streams
  BY ConstantsOK DEF IInv
<1>2. TypeOK'
  BY <1>1 DEF TypeOK, Openers, Calls, Stop, openerVars
<1>3. OpenersOK'
  BY <1>1 DEF OpenersOK, TypeOK, Openers, Calls, Stop, openerVars
<1>4. ThreadsAreNew'
  BY <1>1 DEF ThreadsAreNew, TypeOK, Openers, Calls, Stop, openerVars
<1>5. CallsAreNew'
  BY <1>1 DEF CallsAreNew, OpenersOK, TypeOK, Openers, Calls, Stop, openerVars
<1>6. Unique'
  BY <1>1 DEF Unique, TypeOK, Openers, Calls, Stop, openerVars
<1>7. HandsHoldOpen'
  BY <1>1 DEF HandsHoldOpen, Unique, TypeOK, Openers, Calls, Stop, openerVars
<1>8. OpenIsHeld'
  BY SMTT(40), <1>1 DEF OpenIsHeld, HandsHoldOpen, Unique, TypeOK, Openers, Calls, Stop,
     openerVars
<1>9. OneOpener'
  BY SMTT(40), <1>1 DEF OneOpener, MayOpen, OpenersOK, HandsHoldOpen, OpenIsHeld, Unique, TypeOK,
     Openers, Calls, Stop, openerVars
<1> QED
  BY <1>2, <1>3, <1>4, <1>5, <1>6, <1>7, <1>8, <1>9 DEF IInv

LEMMA TakeKeepsIInv ==
  ASSUME IInv, Take
  PROVE  IInv'
<1> DEFINE s == stored[current]
<1>1. /\ TypeOK /\ OpenersOK /\ ThreadsAreNew /\ CallsAreNew /\ Unique /\ HandsHoldOpen
      /\ OpenIsHeld /\ OneOpener /\ NoStream \notin Streams /\ Main \notin Streams
  BY ConstantsOK DEF IInv
<1>2. /\ current \in Calls /\ pc = "taking" /\ pc' = "closing"
      /\ UNCHANGED <<calls, current, running, at, serves, held, attempts, strays>>
  BY <1>1, ConstantsOK DEF Take, openerVars, OpenersOK, TypeOK, Calls
<1>3. CASE stored' = stored /\ state' = state /\ leaving' = leaving
  <2> HIDE DEF s
  <2>1. TypeOK'
    BY <1>1, <1>2, <1>3 DEF TypeOK, Openers, Calls
  <2>2. OpenersOK'
    BY <1>1, <1>2, <1>3 DEF OpenersOK, TypeOK, Openers, Calls
  <2>3. ThreadsAreNew'
    BY <1>1, <1>2, <1>3 DEF ThreadsAreNew, TypeOK, Openers, Calls
  <2>4. CallsAreNew'
    BY <1>1, <1>2, <1>3 DEF CallsAreNew, OpenersOK, TypeOK, Openers, Calls
  <2>5. Unique'
    BY <1>1, <1>2, <1>3 DEF Unique, TypeOK, Openers, Calls
  <2>6. HandsHoldOpen'
    BY <1>1, <1>2, <1>3 DEF HandsHoldOpen, Unique, TypeOK, Openers, Calls
  <2>7. OpenIsHeld'
    BY SMTT(40), <1>1, <1>2, <1>3 DEF OpenIsHeld, HandsHoldOpen, Unique, TypeOK, Openers, Calls
  <2>8. OneOpener'
    BY SMTT(40), <1>1, <1>2, <1>3 DEF OneOpener, MayOpen, OpenersOK, HandsHoldOpen, OpenIsHeld,
       Unique, TypeOK, Openers, Calls
  <2> QED
    BY <2>1, <2>2, <2>3, <2>4, <2>5, <2>6, <2>7, <2>8 DEF IInv
<1>4. CASE /\ s \in Streams /\ stored' = [stored EXCEPT ![current] = NoStream]
           /\ state' = [state EXCEPT ![s] = "stopped"] /\ leaving' = leaving \cup {s}
  <2>a. stored[current] = s
    OBVIOUS
  <2> HIDE DEF s
  <2>1. TypeOK'
    BY <1>1, <1>2, <1>4, <2>a DEF TypeOK, Openers, Calls
  <2>2. OpenersOK'
    BY <1>1, <1>2, <1>4, <2>a DEF OpenersOK, TypeOK, Openers, Calls
  <2>3. ThreadsAreNew'
    BY <1>1, <1>2, <1>4, <2>a DEF ThreadsAreNew, TypeOK, Openers, Calls
  <2>4. CallsAreNew'
    BY <1>1, <1>2, <1>4, <2>a DEF CallsAreNew, OpenersOK, TypeOK, Openers, Calls
  <2>5. Unique'
    BY <1>1, <1>2, <1>4, <2>a DEF Unique, TypeOK, Openers, Calls
  <2>6. HandsHoldOpen'
    BY <1>1, <1>2, <1>4, <2>a DEF HandsHoldOpen, Unique, TypeOK, Openers, Calls
  <2>7. OpenIsHeld'
    BY SMTT(40), <1>1, <1>2, <1>4, <2>a DEF OpenIsHeld, HandsHoldOpen, Unique, TypeOK, Openers,
       Calls
  <2>8. OneOpener'
    BY SMTT(40), <1>1, <1>2, <1>4, <2>a DEF OneOpener, MayOpen, OpenersOK, HandsHoldOpen,
       OpenIsHeld, Unique, TypeOK, Openers, Calls
  <2> QED
    BY <2>1, <2>2, <2>3, <2>4, <2>5, <2>6, <2>7, <2>8 DEF IInv
<1> QED
  BY <1>1, <1>2, <1>3, <1>4 DEF Take, TypeOK

LEMMA CloseLeavingKeepsIInv ==
  ASSUME IInv, NEW s \in Streams, CloseLeaving(s)
  PROVE  IInv'
<1>1. /\ TypeOK /\ OpenersOK /\ ThreadsAreNew /\ CallsAreNew /\ Unique /\ HandsHoldOpen
      /\ OpenIsHeld /\ OneOpener /\ NoStream \notin Streams /\ Main \notin Streams
  BY ConstantsOK DEF IInv
<1>2. /\ s \in leaving /\ leaving' = leaving \ {s} /\ state' = [state EXCEPT ![s] = "closed"]
      /\ UNCHANGED <<pc, calls, current, running, stored, at, serves, held, attempts,
                     strays>>
  BY DEF CloseLeaving, Close, openerVars
<1>3. TypeOK'
  BY <1>1, <1>2 DEF TypeOK, Openers, Calls
<1>4. OpenersOK'
  BY <1>1, <1>2 DEF OpenersOK, TypeOK, Openers, Calls
<1>5. ThreadsAreNew'
  BY <1>1, <1>2 DEF ThreadsAreNew, TypeOK, Openers, Calls
<1>6. CallsAreNew'
  BY <1>1, <1>2 DEF CallsAreNew, OpenersOK, TypeOK, Openers, Calls
<1>7. Unique'
  BY <1>1, <1>2 DEF Unique, TypeOK, Openers, Calls
<1>8. HandsHoldOpen'
  BY <1>1, <1>2 DEF HandsHoldOpen, Unique, TypeOK, Openers, Calls
<1>9. OpenIsHeld'
  BY SMTT(40), <1>1, <1>2 DEF OpenIsHeld, HandsHoldOpen, Unique, TypeOK, Openers, Calls
<1>10. OneOpener'
  BY SMTT(40), <1>1, <1>2 DEF OneOpener, MayOpen, OpenersOK, HandsHoldOpen, OpenIsHeld, Unique,
     TypeOK, Openers, Calls
<1> QED
  BY <1>3, <1>4, <1>5, <1>6, <1>7, <1>8, <1>9, <1>10 DEF IInv

LEMMA StopReturnsKeepsIInv ==
  ASSUME IInv, StopReturns
  PROVE  IInv'
<1>1. /\ TypeOK /\ OpenersOK /\ ThreadsAreNew /\ CallsAreNew /\ Unique /\ HandsHoldOpen
      /\ OpenIsHeld /\ OneOpener /\ NoStream \notin Streams /\ Main \notin Streams
  BY ConstantsOK DEF IInv
<1>2. TypeOK'
  BY <1>1 DEF TypeOK, Openers, Calls, StopReturns, openerVars
<1>3. OpenersOK'
  BY <1>1 DEF OpenersOK, TypeOK, Openers, Calls, StopReturns, openerVars
<1>4. ThreadsAreNew'
  BY <1>1 DEF ThreadsAreNew, TypeOK, Openers, Calls, StopReturns, openerVars
<1>5. CallsAreNew'
  BY <1>1 DEF CallsAreNew, OpenersOK, TypeOK, Openers, Calls, StopReturns, openerVars
<1>6. Unique'
  BY <1>1 DEF Unique, TypeOK, Openers, Calls, StopReturns, openerVars
<1>7. HandsHoldOpen'
  BY <1>1 DEF HandsHoldOpen, Unique, TypeOK, Openers, Calls, StopReturns, openerVars
<1>8. OpenIsHeld'
  BY SMTT(40), <1>1 DEF OpenIsHeld, HandsHoldOpen, Unique, TypeOK, Openers, Calls, StopReturns,
     openerVars
<1>9. OneOpener'
  BY SMTT(40), <1>1 DEF OneOpener, MayOpen, OpenersOK, HandsHoldOpen, OpenIsHeld, Unique, TypeOK,
     Openers, Calls, StopReturns, openerVars
<1> QED
  BY <1>2, <1>3, <1>4, <1>5, <1>6, <1>7, <1>8, <1>9 DEF IInv

(***************************************************************************)
(* The loss of a stream.  If its thread is no stray, the stream had the    *)
(* right to open for the call, which the new thread takes over.            *)
(***************************************************************************)
LEMMA RightIsPassed ==
  ASSUME IInv, NEW s \in Streams, Disconnect(s), current # 0, strays' = {},
         at' = [at EXCEPT ![s] = "close"], serves' = [serves EXCEPT ![s] = current],
         OfCall(s, current)
  PROVE  /\ \A o \in Openers : MayOpen(o, current)' => o = s
         /\ \A o \in Openers, c \in Calls : o # s /\ MayOpen(o, c)' => MayOpen(o, c)
         /\ \A c \in Calls : c # current => ~ MayOpen(s, c)'
         /\ stored[current] # NoStream => state'[stored[current]] = "dead"
<1>1. /\ TypeOK /\ OpenersOK /\ ThreadsAreNew /\ CallsAreNew /\ Unique /\ HandsHoldOpen
      /\ OpenIsHeld /\ OneOpener /\ NoStream \notin Streams /\ Main \notin Streams
  BY ConstantsOK DEF IInv
<1>2. /\ state[s] = "started" /\ state' = [state EXCEPT ![s] = "dead"] /\ at[s] = "out"
      /\ held[s] = NoStream /\ strays = {} /\ current \in Calls
      /\ UNCHANGED <<pc, calls, current, running, stored, held, attempts, leaving>>
  BY <1>1, ConstantsOK DEF Disconnect, ThreadsAreNew, OpenersOK, Openers, TypeOK, Calls
<1>3. ASSUME NEW o \in Openers, o # s, NEW c \in Calls, MayOpen(o, c)'
      PROVE  MayOpen(o, c)
  BY <1>1, <1>2, <1>3 DEF MayOpen, TypeOK, Openers
<1>4. ASSUME NEW c \in Calls, c # current, MayOpen(s, c)'
      PROVE  FALSE
  BY <1>1, <1>4 DEF MayOpen, TypeOK, Openers
<1>5. ASSUME NEW o \in Openers, MayOpen(o, current)'
      PROVE  o = s
  <2> SUFFICES ASSUME o # s
               PROVE  FALSE
    OBVIOUS
  <2>1. MayOpen(o, current)
    BY <1>2, <1>3, <1>5
  <2>2. CASE stored[current] = s
    BY <1>1, <1>2, <2>1, <2>2 DEF OneOpener
  <2>3. ASSUME NEW p \in Openers, held[p] = s, serves[p] = current
        PROVE  FALSE
    <3>1. at[p] = "store" /\ MayOpen(p, current)
      BY <1>1, <1>2, <2>3 DEF OpenersOK, MayOpen
    <3>2. o = p
      BY <1>1, <1>2, <2>1, <3>1 DEF OneOpener
    <3> QED
      BY <1>1, <1>2, <1>5, <2>3, <3>1, <3>2 DEF MayOpen, TypeOK, Openers
  <2> QED
    BY <2>2, <2>3 DEF OfCall
<1>6. stored[current] # NoStream => state'[stored[current]] = "dead"
  <2>1. CASE stored[current] = s
    BY <1>1, <1>2, <2>1 DEF TypeOK
  <2>2. ASSUME NEW p \in Openers, held[p] = s, serves[p] = current,
               stored[current] # NoStream
        PROVE  state'[stored[current]] = "dead"
    <3>1. at[p] = "store" /\ MayOpen(p, current)
      BY <1>1, <1>2, <2>2 DEF OpenersOK, MayOpen
    <3>2. state[stored[current]] = "dead"
      BY <1>1, <1>2, <2>2, <3>1 DEF OneOpener
    <3> QED
      BY <1>1, <1>2, <2>2, <3>2 DEF TypeOK
  <2> QED
    BY <2>1, <2>2 DEF OfCall
<1> QED
  BY <1>3, <1>4, <1>5, <1>6

LEMMA DisconnectKeepsIInv ==
  ASSUME IInv, NEW s \in Streams, Disconnect(s)
  PROVE  IInv'
<1>1. /\ TypeOK /\ OpenersOK /\ ThreadsAreNew /\ CallsAreNew /\ Unique /\ HandsHoldOpen
      /\ OpenIsHeld /\ OneOpener /\ NoStream \notin Streams /\ Main \notin Streams
  BY ConstantsOK DEF IInv
<1>2. /\ state[s] = "started" /\ state' = [state EXCEPT ![s] = "dead"] /\ at[s] = "out"
      /\ held[s] = NoStream
      /\ UNCHANGED <<pc, calls, current, running, stored, held, attempts, leaving>>
  BY <1>1 DEF Disconnect, ThreadsAreNew, OpenersOK, Openers
<1>3. CASE UNCHANGED <<at, serves, strays>>
  <2>1. TypeOK'
    BY <1>1, <1>2, <1>3 DEF TypeOK, Openers, Calls
  <2>2. OpenersOK'
    BY <1>1, <1>2, <1>3 DEF OpenersOK, TypeOK, Openers, Calls
  <2>3. ThreadsAreNew'
    BY <1>1, <1>2, <1>3 DEF ThreadsAreNew, TypeOK, Openers, Calls
  <2>4. CallsAreNew'
    BY <1>1, <1>2, <1>3 DEF CallsAreNew, OpenersOK, TypeOK, Openers, Calls
  <2>5. Unique'
    BY <1>1, <1>2, <1>3 DEF Unique, TypeOK, Openers, Calls
  <2>6. HandsHoldOpen'
    BY <1>1, <1>2, <1>3 DEF HandsHoldOpen, Unique, TypeOK, Openers, Calls
  <2>7. OpenIsHeld'
    BY SMTT(40), <1>1, <1>2, <1>3 DEF OpenIsHeld, HandsHoldOpen, Unique, TypeOK, Openers, Calls
  <2>8. OneOpener'
    BY SMTT(40), <1>1, <1>2, <1>3 DEF OneOpener, MayOpen, OpenersOK, HandsHoldOpen, OpenIsHeld,
       Unique, TypeOK, Openers, Calls
  <2> QED
    BY <2>1, <2>2, <2>3, <2>4, <2>5, <2>6, <2>7, <2>8 DEF IInv
<1>4. CASE /\ current # 0 /\ at' = [at EXCEPT ![s] = "close"]
           /\ serves' = [serves EXCEPT ![s] = current]
           /\ strays' = IF OfCall(s, current) THEN strays ELSE strays \cup {s}
  <2>a. current \in Calls /\ current \in 1 .. calls /\ calls \in Nat
    BY <1>1, <1>4, ConstantsOK DEF TypeOK, Calls
  <2>1. TypeOK'
    BY <1>1, <1>2, <1>4, <2>a DEF TypeOK, Openers, Calls
  <2>2. OpenersOK'
    BY <1>1, <1>2, <1>4, <2>a DEF OpenersOK, TypeOK, Openers, Calls
  <2>3. ThreadsAreNew'
    BY <1>1, <1>2, <1>4, <2>a DEF ThreadsAreNew, TypeOK, Openers, Calls
  <2>4. CallsAreNew'
    BY <1>1, <1>2, <1>4, <2>a DEF CallsAreNew, OpenersOK, TypeOK, Openers, Calls
  <2>5. Unique'
    BY <1>1, <1>2, <1>4, <2>a DEF Unique, TypeOK, Openers, Calls
  <2>6. HandsHoldOpen'
    BY <1>1, <1>2, <1>4, <2>a DEF HandsHoldOpen, Unique, TypeOK, Openers, Calls
  <2>7. OpenIsHeld'
    BY SMTT(40), <1>1, <1>2 DEF OpenIsHeld, TypeOK
  <2>8. OneOpener'
    <3> SUFFICES ASSUME strays' = {}
                 PROVE  \A c \in Calls :
                   /\ \A o, p \in Openers : MayOpen(o, c)' /\ MayOpen(p, c)' => o = p
                   /\ \A o \in Openers :
                        MayOpen(o, c)' /\ stored'[c] # NoStream => state'[stored'[c]] = "dead"
      BY DEF OneOpener
    <3>1. strays = {} /\ OfCall(s, current)
      BY <1>4
    <3>2. /\ \A o \in Openers : MayOpen(o, current)' => o = s
          /\ \A o \in Openers, c \in Calls : o # s /\ MayOpen(o, c)' => MayOpen(o, c)
          /\ \A c \in Calls : c # current => ~ MayOpen(s, c)'
          /\ stored[current] # NoStream => state'[stored[current]] = "dead"
      BY <1>4, <3>1, RightIsPassed
    <3>3. ASSUME NEW c \in Calls, c # current, NEW o \in Openers, MayOpen(o, c)',
                 stored[c] # NoStream
          PROVE  state'[stored[c]] = "dead"
      <4>1. MayOpen(o, c)
        BY <3>2, <3>3
      <4> QED
        BY <1>1, <1>2, <3>1, <3>3, <4>1 DEF OneOpener, TypeOK
    <3>4. ASSUME NEW c \in Calls, NEW o \in Openers, NEW p \in Openers, MayOpen(o, c)',
                 MayOpen(p, c)'
          PROVE  o = p
      <4>1. CASE c = current
        <5>1. MayOpen(o, current)' /\ MayOpen(p, current)'
          BY <1>2, <3>4, <4>1 DEF MayOpen
        <5> QED
          BY <3>2, <5>1
      <4>2. CASE c # current
        <5>1. MayOpen(o, c) /\ MayOpen(p, c)
          BY <3>2, <3>4, <4>2
        <5> QED
          BY <1>1, <3>1, <5>1 DEF OneOpener
      <4> QED
        BY <4>1, <4>2
    <3> QED
      BY <1>2, <3>2, <3>3, <3>4
  <2> QED
    BY <2>1, <2>2, <2>3, <2>4, <2>5, <2>6, <2>7, <2>8 DEF IInv
<1> QED
  BY <1>1, <1>2, <1>3, <1>4 DEF Disconnect

LEMMA CloseStoredKeepsIInv ==
  ASSUME IInv, NEW o \in Openers, CloseStored(o)
  PROVE  IInv'
<1> DEFINE c == serves[o]
           s == stored[c]
<1>1. /\ TypeOK /\ OpenersOK /\ ThreadsAreNew /\ CallsAreNew /\ Unique /\ HandsHoldOpen
      /\ OpenIsHeld /\ OneOpener /\ NoStream \notin Streams /\ Main \notin Streams
  BY ConstantsOK DEF IInv
<1>2. /\ c \in Calls /\ at[o] = "close" /\ at' = [at EXCEPT ![o] = "check"]
      /\ UNCHANGED <<pc, calls, current, running, serves, held, attempts, leaving,
                     strays>>
  BY CallOf DEF CloseStored
<1>3. CASE stored' = stored /\ state' = state
  <2> HIDE DEF c, s
  <2>1. TypeOK'
    BY <1>1, <1>2, <1>3 DEF TypeOK, Openers, Calls
  <2>2. OpenersOK'
    BY <1>1, <1>2, <1>3 DEF OpenersOK, TypeOK, Openers, Calls
  <2>3. ThreadsAreNew'
    BY <1>1, <1>2, <1>3 DEF ThreadsAreNew, TypeOK, Openers, Calls
  <2>4. CallsAreNew'
    BY <1>1, <1>2, <1>3 DEF CallsAreNew, OpenersOK, TypeOK, Openers, Calls
  <2>5. Unique'
    BY <1>1, <1>2, <1>3 DEF Unique, TypeOK, Openers, Calls
  <2>6. HandsHoldOpen'
    BY <1>1, <1>2, <1>3 DEF HandsHoldOpen, Unique, TypeOK, Openers, Calls
  <2>7. OpenIsHeld'
    BY SMTT(40), <1>1, <1>2, <1>3 DEF OpenIsHeld, HandsHoldOpen, Unique, TypeOK, Openers, Calls
  <2>8. OneOpener'
    BY SMTT(40), <1>1, <1>2, <1>3 DEF OneOpener, MayOpen, OpenersOK, HandsHoldOpen, OpenIsHeld,
       Unique, TypeOK, Openers, Calls
  <2> QED
    BY <2>1, <2>2, <2>3, <2>4, <2>5, <2>6, <2>7, <2>8 DEF IInv
<1>4. CASE /\ s \in Streams /\ stored' = [stored EXCEPT ![c] = NoStream]
           /\ state' = [state EXCEPT ![s] = "closed"]
  <2>a. stored[c] = s /\ held[o] = NoStream
    BY <1>1, <1>2 DEF OpenersOK
  <2> HIDE DEF c, s
  <2>1. TypeOK'
    BY <1>1, <1>2, <1>4, <2>a DEF TypeOK, Openers, Calls
  <2>2. OpenersOK'
    BY <1>1, <1>2, <1>4, <2>a DEF OpenersOK, TypeOK, Openers, Calls
  <2>3. ThreadsAreNew'
    BY <1>1, <1>2, <1>4, <2>a DEF ThreadsAreNew, TypeOK, Openers, Calls
  <2>4. CallsAreNew'
    BY <1>1, <1>2, <1>4, <2>a DEF CallsAreNew, OpenersOK, TypeOK, Openers, Calls
  <2>5. Unique'
    BY <1>1, <1>2, <1>4, <2>a DEF Unique, TypeOK, Openers, Calls
  <2>6. HandsHoldOpen'
    BY <1>1, <1>2, <1>4, <2>a DEF HandsHoldOpen, Unique, TypeOK, Openers, Calls
  <2>7. OpenIsHeld'
    BY SMTT(40), <1>1, <1>2, <1>4, <2>a DEF OpenIsHeld, HandsHoldOpen, Unique, TypeOK, Openers,
       Calls
  <2>8. OneOpener'
    BY SMTT(40), <1>1, <1>2, <1>4, <2>a DEF OneOpener, MayOpen, OpenersOK, HandsHoldOpen,
       OpenIsHeld, Unique, TypeOK, Openers, Calls
  <2> QED
    BY <2>1, <2>2, <2>3, <2>4, <2>5, <2>6, <2>7, <2>8 DEF IInv
<1> QED
  BY <1>1, <1>2, <1>3, <1>4 DEF CloseStored, Close, TypeOK

LEMMA CheckKeepsIInv ==
  ASSUME IInv, NEW o \in Openers, Check(o)
  PROVE  IInv'
<1>1. /\ TypeOK /\ OpenersOK /\ ThreadsAreNew /\ CallsAreNew /\ Unique /\ HandsHoldOpen
      /\ OpenIsHeld /\ OneOpener /\ NoStream \notin Streams /\ Main \notin Streams
  BY ConstantsOK DEF IInv
<1>2. /\ at[o] = "check" /\ held[o] = NoStream /\ serves[o] \in Calls
      /\ o = Main => pc = "starting"
      /\ UNCHANGED <<calls, current, stored, state, serves, leaving, strays>>
  BY <1>1, CallOf DEF Check, OpenersOK
<1>3. ASSUME NEW w, Back(o, w), w = "check" => serves[o] \notin running
      PROVE  IInv'
  <2>1. TypeOK'
    BY <1>1, <1>2, <1>3 DEF TypeOK, Openers, Calls, Back
  <2>2. OpenersOK'
    BY <1>1, <1>2, <1>3 DEF OpenersOK, TypeOK, Openers, Calls, Back
  <2>3. ThreadsAreNew'
    BY <1>1, <1>2, <1>3 DEF ThreadsAreNew, TypeOK, Openers, Calls, Back
  <2>4. CallsAreNew'
    BY <1>1, <1>2, <1>3 DEF CallsAreNew, OpenersOK, TypeOK, Openers, Calls, Back
  <2>5. Unique'
    BY <1>1, <1>2, <1>3 DEF Unique, TypeOK, Openers, Calls, Back
  <2>6. HandsHoldOpen'
    BY <1>1, <1>2, <1>3 DEF HandsHoldOpen, Unique, TypeOK, Openers, Calls, Back
  <2>7. OpenIsHeld'
    BY SMTT(40), <1>1, <1>2, <1>3 DEF OpenIsHeld, HandsHoldOpen, Unique, TypeOK, Openers, Calls,
       Back
  <2>8. OneOpener'
    BY SMTT(40), <1>1, <1>2, <1>3 DEF OneOpener, MayOpen, OpenersOK, HandsHoldOpen, OpenIsHeld,
       Unique, TypeOK, Openers, Calls, Back
  <2> QED
    BY <2>1, <2>2, <2>3, <2>4, <2>5, <2>6, <2>7, <2>8 DEF IInv
<1>4. CASE /\ serves[o] \in running /\ at' = [at EXCEPT ![o] = "open"]
           /\ UNCHANGED <<pc, running, held, attempts>>
  <2>1. TypeOK'
    BY <1>1, <1>2, <1>4 DEF TypeOK, Openers, Calls
  <2>2. OpenersOK'
    BY <1>1, <1>2, <1>4 DEF OpenersOK, TypeOK, Openers, Calls
  <2>3. ThreadsAreNew'
    BY <1>1, <1>2, <1>4 DEF ThreadsAreNew, TypeOK, Openers, Calls
  <2>4. CallsAreNew'
    BY <1>1, <1>2, <1>4 DEF CallsAreNew, OpenersOK, TypeOK, Openers, Calls
  <2>5. Unique'
    BY <1>1, <1>2, <1>4 DEF Unique, TypeOK, Openers, Calls
  <2>6. HandsHoldOpen'
    BY <1>1, <1>2, <1>4 DEF HandsHoldOpen, Unique, TypeOK, Openers, Calls
  <2>7. OpenIsHeld'
    BY SMTT(40), <1>1, <1>2, <1>4 DEF OpenIsHeld, HandsHoldOpen, Unique, TypeOK, Openers, Calls
  <2>8. OneOpener'
    BY SMTT(40), <1>1, <1>2, <1>4 DEF OneOpener, MayOpen, OpenersOK, HandsHoldOpen, OpenIsHeld,
       Unique, TypeOK, Openers, Calls
  <2> QED
    BY <2>1, <2>2, <2>3, <2>4, <2>5, <2>6, <2>7, <2>8 DEF IInv
<1> QED
  BY <1>3, <1>4, FailedIsBack, DoneIsBack DEF Check

LEMMA OpenKeepsIInv ==
  ASSUME IInv, NEW o \in Openers, Open(o)
  PROVE  IInv'
<1>1. /\ TypeOK /\ OpenersOK /\ ThreadsAreNew /\ CallsAreNew /\ Unique /\ HandsHoldOpen
      /\ OpenIsHeld /\ OneOpener /\ NoStream \notin Streams /\ Main \notin Streams
  BY ConstantsOK DEF IInv
<1>2. /\ at[o] = "open" /\ held[o] = NoStream /\ serves[o] \in Calls
      /\ o = Main => pc = "starting"
      /\ UNCHANGED <<calls, current, stored, serves, leaving, strays>>
  BY <1>1, CallOf DEF Open, OpenersOK
<1>3. ASSUME NEW w, Back(o, w), state' = state
      PROVE  IInv'
  <2>1. TypeOK'
    BY <1>1, <1>2, <1>3 DEF TypeOK, Openers, Calls, Back
  <2>2. OpenersOK'
    BY <1>1, <1>2, <1>3 DEF OpenersOK, TypeOK, Openers, Calls, Back
  <2>3. ThreadsAreNew'
    BY <1>1, <1>2, <1>3 DEF ThreadsAreNew, TypeOK, Openers, Calls, Back
  <2>4. CallsAreNew'
    BY <1>1, <1>2, <1>3 DEF CallsAreNew, OpenersOK, TypeOK, Openers, Calls, Back
  <2>5. Unique'
    BY <1>1, <1>2, <1>3 DEF Unique, TypeOK, Openers, Calls, Back
  <2>6. HandsHoldOpen'
    BY <1>1, <1>2, <1>3 DEF HandsHoldOpen, Unique, TypeOK, Openers, Calls, Back
  <2>7. OpenIsHeld'
    BY SMTT(40), <1>1, <1>2, <1>3 DEF OpenIsHeld, HandsHoldOpen, Unique, TypeOK, Openers, Calls,
       Back
  <2>8. OneOpener'
    BY SMTT(40), <1>1, <1>2, <1>3 DEF OneOpener, MayOpen, OpenersOK, HandsHoldOpen, OpenIsHeld,
       Unique, TypeOK, Openers, Calls, Back
  <2> QED
    BY <2>1, <2>2, <2>3, <2>4, <2>5, <2>6, <2>7, <2>8 DEF IInv
<1>4. ASSUME NEW s \in Streams, state[s] = "unused",
             state' = [state EXCEPT ![s] = "started"], held' = [held EXCEPT ![o] = s],
             at' = [at EXCEPT ![o] = "store"], UNCHANGED <<pc, running, attempts>>
      PROVE  IInv'
  <2>a. /\ s # NoStream /\ \A c \in Calls : stored[c] # s
        /\ \A p \in Openers : held[p] # s
    BY <1>1, <1>4 DEF HandsHoldOpen
  <2>1. TypeOK'
    BY <1>1, <1>2, <1>4, <2>a DEF TypeOK, Openers, Calls
  <2>2. OpenersOK'
    BY <1>1, <1>2, <1>4, <2>a DEF OpenersOK, TypeOK, Openers, Calls
  <2>3. ThreadsAreNew'
    BY <1>1, <1>2, <1>4, <2>a DEF ThreadsAreNew, TypeOK, Openers, Calls
  <2>4. CallsAreNew'
    BY <1>1, <1>2, <1>4, <2>a DEF CallsAreNew, OpenersOK, TypeOK, Openers, Calls
  <2>5. Unique'
    BY <1>1, <1>2, <1>4, <2>a DEF Unique, TypeOK, Openers, Calls
  <2>6. HandsHoldOpen'
    BY <1>1, <1>2, <1>4, <2>a DEF HandsHoldOpen, Unique, TypeOK, Openers, Calls
  <2>7. OpenIsHeld'
    BY SMTT(40), <1>1, <1>2, <1>4, <2>a DEF OpenIsHeld, HandsHoldOpen, Unique, TypeOK, Openers,
       Calls
  <2>8. OneOpener'
    BY SMTT(40), <1>1, <1>2, <1>4, <2>a DEF OneOpener, MayOpen, OpenersOK, HandsHoldOpen,
       OpenIsHeld, Unique, TypeOK, Openers, Calls
  <2> QED
    BY <2>1, <2>2, <2>3, <2>4, <2>5, <2>6, <2>7, <2>8 DEF IInv
<1> QED
  BY <1>3, <1>4, FailedIsBack DEF Open

LEMMA StoreKeepsIInv ==
  ASSUME IInv, NEW o \in Openers, Store(o)
  PROVE  IInv'
<1> DEFINE s == held[o]
           c == serves[o]
<1>1. /\ TypeOK /\ OpenersOK /\ ThreadsAreNew /\ CallsAreNew /\ Unique /\ HandsHoldOpen
      /\ OpenIsHeld /\ OneOpener /\ NoStream \notin Streams /\ Main \notin Streams
  BY ConstantsOK DEF IInv
<1>2. /\ at[o] = "store" /\ s \in Streams /\ s # NoStream /\ held[o] = s
      /\ serves[o] = c /\ c \in Calls /\ c <= calls /\ calls \in Nat
      /\ o = Main => pc = "starting"
      /\ \A d \in Calls : stored[d] # s
      /\ \A p \in Openers : held[p] = s => p = o
      /\ UNCHANGED <<calls, current, serves, leaving, strays>>
  BY <1>1, CallOf DEF Store, OpenersOK, Unique, TypeOK
<1>3. ASSUME NEW w, Back(o, w), w = "check" => c \notin running,
             state' = [state EXCEPT ![s] = "closed"], stored' = stored
      PROVE  IInv'
  <2>1. ASSUME NEW p \in Openers, NEW d \in Calls, MayOpen(p, d)'
        PROVE  MayOpen(p, d)
    <3>1. CASE p = o
      BY <1>1, <1>2, <1>3, <2>1, <3>1 DEF MayOpen, Back, TypeOK
    <3>2. CASE p # o
      BY <1>1, <1>2, <1>3, <2>1, <3>2 DEF MayOpen, Back, TypeOK
    <3> QED
      BY <3>1, <3>2
  <2>2. ASSUME NEW d \in Calls, stored[d] # NoStream, state[stored[d]] = "dead"
        PROVE  state'[stored[d]] = "dead"
    BY <1>1, <1>2, <1>3, <2>2 DEF TypeOK
  <2> HIDE DEF s, c
  <2>3. TypeOK'
    BY <1>1, <1>2, <1>3 DEF TypeOK, Openers, Calls, Back
  <2>4. OpenersOK'
    BY <1>1, <1>2, <1>3 DEF OpenersOK, TypeOK, Openers, Calls, Back
  <2>5. ThreadsAreNew'
    BY <1>1, <1>2, <1>3 DEF ThreadsAreNew, TypeOK, Openers, Calls, Back
  <2>6. CallsAreNew'
    BY <1>1, <1>2, <1>3 DEF CallsAreNew, OpenersOK, TypeOK, Openers, Calls, Back
  <2>7. Unique'
    BY <1>1, <1>2, <1>3 DEF Unique, TypeOK, Openers, Calls, Back
  <2>8. HandsHoldOpen'
    BY SMTT(40), <1>1, <1>2, <1>3 DEF HandsHoldOpen, Unique, TypeOK, Openers, Calls, Back
  <2>9. OpenIsHeld'
    BY SMTT(40), <1>1, <1>2, <1>3 DEF OpenIsHeld, HandsHoldOpen, Unique, TypeOK, Openers, Calls,
       Back
  <2>10. OneOpener'
    BY SMTT(40), <1>1, <1>2, <1>3, <2>1, <2>2 DEF OneOpener
  <2> QED
    BY <2>3, <2>4, <2>5, <2>6, <2>7, <2>8, <2>9, <2>10 DEF IInv
<1>4. ASSUME Back(o, "out"), stored[c] = NoStream, state' = state,
             stored' = [stored EXCEPT ![c] = s]
      PROVE  IInv'
  <2> HIDE DEF s, c
  <2>1. TypeOK'
    BY <1>1, <1>2, <1>4 DEF TypeOK, Openers, Calls, Back
  <2>2. OpenersOK'
    BY <1>1, <1>2, <1>4 DEF OpenersOK, TypeOK, Openers, Calls, Back
  <2>3. ThreadsAreNew'
    BY <1>1, <1>2, <1>4 DEF ThreadsAreNew, TypeOK, Openers, Calls, Back
  <2>4. CallsAreNew'
    BY <1>1, <1>2, <1>4 DEF CallsAreNew, OpenersOK, TypeOK, Openers, Calls, Back
  <2>5. Unique'
    BY <1>1, <1>2, <1>4 DEF Unique, TypeOK, Openers, Calls, Back
  <2>6. HandsHoldOpen'
    BY <1>1, <1>2, <1>4 DEF HandsHoldOpen, Unique, TypeOK, Openers, Calls, Back
  <2>7. OpenIsHeld'
    BY SMTT(40), <1>1, <1>2, <1>4 DEF OpenIsHeld, HandsHoldOpen, Unique, TypeOK, Openers, Calls,
       Back
  <2>8. OneOpener'
    BY SMTT(40), <1>1, <1>2, <1>4 DEF OneOpener, MayOpen, OpenersOK, HandsHoldOpen, OpenIsHeld,
       Unique, TypeOK, Openers, Calls, Back
  <2> QED
    BY <2>1, <2>2, <2>3, <2>4, <2>5, <2>6, <2>7, <2>8 DEF IInv
<1> QED
  BY <1>2, <1>3, <1>4, FailedIsBack, DoneIsBack DEF Store, Close

-----------------------------------------------------------------------------
LEMMA InitIInv == Init => IInv
<1> SUFFICES ASSUME Init
             PROVE  IInv
  OBVIOUS
<1>1. TypeOK
  BY ConstantsOK DEF TypeOK, Openers, Calls, Init
<1>2. OpenersOK
  BY ConstantsOK DEF OpenersOK, TypeOK, Openers, Calls, Init
<1>3. ThreadsAreNew
  BY ConstantsOK DEF ThreadsAreNew, TypeOK, Openers, Calls, Init
<1>4. CallsAreNew
  BY ConstantsOK DEF CallsAreNew, OpenersOK, TypeOK, Openers, Calls, Init
<1>5. Unique
  BY ConstantsOK DEF Unique, TypeOK, Openers, Calls, Init
<1>6. HandsHoldOpen
  BY ConstantsOK DEF HandsHoldOpen, Unique, TypeOK, Openers, Calls, Init
<1>7. OpenIsHeld
  BY ConstantsOK DEF OpenIsHeld, HandsHoldOpen, Unique, TypeOK, Openers, Calls, Init
<1>8. OneOpener
  BY ConstantsOK DEF OneOpener, MayOpen, OpenersOK, HandsHoldOpen, OpenIsHeld, Unique,
     TypeOK, Openers, Calls, Init
<1> QED
  BY <1>1, <1>2, <1>3, <1>4, <1>5, <1>6, <1>7, <1>8 DEF IInv

LEMMA NextIInv == IInv /\ [Next]_vars => IInv'
<1> SUFFICES ASSUME IInv, [Next]_vars
             PROVE  IInv'
  OBVIOUS
<1>1. CASE Start
  BY <1>1, StartKeepsIInv
<1>2. CASE Stop
  BY <1>2, StopKeepsIInv
<1>3. CASE Take
  BY <1>3, TakeKeepsIInv
<1>4. CASE StopReturns
  BY <1>4, StopReturnsKeepsIInv
<1>5. ASSUME NEW o \in Openers, OpenerStep(o)
      PROVE  IInv'
  BY <1>5, CloseStoredKeepsIInv, CheckKeepsIInv, OpenKeepsIInv, StoreKeepsIInv DEF
     OpenerStep
<1>6. ASSUME NEW s \in Streams, Disconnect(s) \/ CloseLeaving(s)
      PROVE  IInv'
  BY <1>6, DisconnectKeepsIInv, CloseLeavingKeepsIInv
<1>7. CASE UNCHANGED vars
  BY <1>7 DEF vars, IInv, TypeOK, OpenersOK, ThreadsAreNew, CallsAreNew, Unique,
     HandsHoldOpen,
     OpenIsHeld, OneOpener, MayOpen
<1> QED
  BY <1>1, <1>2, <1>3, <1>4, <1>5, <1>6, <1>7 DEF Next

LEMMA Inductive == Spec => []IInv
  BY InitIInv, NextIInv, PTL DEF Spec

(* The variables keep their types. *)
THEOREM CaptureTypeCorrect == Spec => []TypeOK
<1>1. IInv => TypeOK
  BY DEF IInv
<1> QED
  BY <1>1, Inductive, PTL

(* However the threads and the calls cross, every open stream is in exactly *)
(* one hand and no closed one in any (openAndStartCaptureStream,            *)
(* errorCallback, audioCaptureStop).                                        *)
THEOREM StreamsOwnedOnce == Spec => []OwnedOnce
<1>1. IInv => OwnedOnce
  <2> SUFFICES ASSUME IInv, NEW s \in Streams
               PROVE  IF IsOpen(s) THEN \E x \in Owners(s) : Owners(s) = {x} ELSE Owners(s) = {}
    BY DEF OwnedOnce
  <2>1. TypeOK /\ Unique /\ HandsHoldOpen /\ OpenIsHeld /\ NoStream \notin Streams
    BY ConstantsOK DEF IInv
  <2>2. CASE ~ IsOpen(s)
    <3>1. /\ \A c \in Calls : stored[c] # s
          /\ \A o \in Openers : held[o] # s
          /\ s \notin leaving
      BY <2>1, <2>2 DEF IsOpen, HandsHoldOpen
    <3> QED
      BY <2>2, <3>1 DEF Owners
  <2>3. CASE state[s] = "stopped"
    <3>1. /\ \A c \in Calls : stored[c] # s
          /\ \A o \in Openers : held[o] # s
          /\ s \in leaving
      BY <2>1, <2>3 DEF OpenIsHeld, HandsHoldOpen
    <3>2. Owners(s) = {<<"stop", s>>}
      BY <3>1 DEF Owners
    <3> QED
      BY <2>3, <3>2 DEF IsOpen
  <2>4. CASE state[s] \in {"started", "dead"}
    <3>1. s \notin leaving
      BY <2>1, <2>4 DEF HandsHoldOpen
    <3>2. ASSUME NEW c \in Calls, stored[c] = s
          PROVE  Owners(s) = {<<"call", c>>}
      <4>1. /\ \A d \in Calls : stored[d] = s <=> d = c
            /\ \A o \in Openers : held[o] # s
        BY <2>1, <3>2 DEF Unique
      <4> QED
        BY <3>1, <3>2, <4>1 DEF Owners
    <3>3. ASSUME NEW o \in Openers, held[o] = s
          PROVE  Owners(s) = {<<"opener", o>>}
      <4>1. /\ \A d \in Calls : stored[d] # s
            /\ \A p \in Openers : held[p] = s <=> p = o
        BY <2>1, <3>3 DEF Unique
      <4> QED
        BY <3>1, <3>3, <4>1 DEF Owners
    <3>4. (\E c \in Calls : stored[c] = s) \/ (\E o \in Openers : held[o] = s)
      BY <2>1, <2>4 DEF OpenIsHeld
    <3> QED
      BY <2>4, <3>2, <3>3, <3>4 DEF IsOpen
  <2> QED
    BY <2>2, <2>3, <2>4 DEF IsOpen
<1> QED
  BY <1>1, Inductive, PTL

-----------------------------------------------------------------------------
(***************************************************************************)
(* What the rings need besides: only the session's pipeline runs or has a  *)
(* stream, and a stop leaves none.  So a stream that records is either the *)
(* session's or in the hand of the thread that opened it.                  *)
(***************************************************************************)
CallsInTurn ==
  /\ running \subseteq {current}
  /\ pc \in {"taking", "closing"} => running = {}
  /\ \A c \in Calls : stored[c] # NoStream => c = current /\ pc # "closing"

LEMMA NextCallsInTurn == IInv /\ CallsInTurn /\ [Next]_vars => CallsInTurn'
<1> SUFFICES ASSUME IInv, CallsInTurn, [Next]_vars
             PROVE  CallsInTurn'
  OBVIOUS
<1>0. TypeOK /\ NoStream \notin Streams
  BY ConstantsOK DEF IInv
<1>1. CASE Start
  <2>1. current = 0 /\ running = {} /\ \A c \in Calls : stored[c] = NoStream
    BY <1>0, <1>1 DEF Start, CallsInTurn, TypeOK, Calls
  <2> QED
    BY <1>1, <2>1 DEF Start, CallsInTurn
<1>2. CASE Stop
  <2>1. running' = {} /\ pc' = "taking" /\ current' = current /\ stored' = stored
    BY <1>2 DEF Stop, CallsInTurn
  <2> QED
    BY <2>1 DEF CallsInTurn
<1>3. CASE Take
  <2>1. /\ pc = "taking" /\ pc' = "closing" /\ current' = current /\ running' = running
        /\ \/ stored' = stored /\ stored[current] = NoStream
           \/ stored' = [stored EXCEPT ![current] = NoStream]
    BY <1>3 DEF Take
  <2>2. \A c \in Calls : stored'[c] = NoStream
    BY <1>0, <2>1 DEF CallsInTurn, TypeOK
  <2> QED
    BY <2>1, <2>2 DEF CallsInTurn
<1>4. CASE StopReturns
  <2>1. /\ pc = "closing" /\ pc' = "out" /\ running' = running /\ stored' = stored
        /\ running = {} /\ \A c \in Calls : stored[c] = NoStream
    BY <1>4 DEF StopReturns, CallsInTurn
  <2> QED
    BY <2>1 DEF CallsInTurn
<1>5. ASSUME NEW o \in Openers, OpenerStep(o)
      PROVE  CallsInTurn'
  <2>1. ASSUME NEW w, Back(o, w), current' = current, stored' = stored
        PROVE  CallsInTurn'
    <3>1. running' \subseteq running /\ (pc' = "out" \/ pc' = pc)
      BY <2>1 DEF Back
    <3> QED
      BY <2>1, <3>1 DEF CallsInTurn
  <2>2. CASE CloseStored(o)
    <3>1. /\ serves[o] \in Calls /\ UNCHANGED <<pc, current, running>>
          /\ \/ stored' = stored
             \/ stored' = [stored EXCEPT ![serves[o]] = NoStream]
      BY <2>2, CallOf DEF CloseStored
    <3>2. \A c \in Calls : stored'[c] # NoStream => stored[c] # NoStream
      BY <1>0, <3>1 DEF TypeOK
    <3> QED
      BY <3>1, <3>2 DEF CallsInTurn
  <2>3. CASE Check(o)
    <3>1. CASE Done(o)
      BY <2>1, <2>3, <3>1, DoneIsBack DEF Check
    <3>2. CASE UNCHANGED <<pc, running>>
      BY <2>3, <3>2 DEF Check, CallsInTurn
    <3> QED
      BY <2>3, <3>1, <3>2 DEF Check
  <2>4. CASE Open(o)
    <3>1. CASE Failed(o)
      BY <2>1, <2>4, <3>1, FailedIsBack DEF Open
    <3>2. CASE UNCHANGED <<pc, running>>
      BY <2>4, <3>2 DEF Open, CallsInTurn
    <3> QED
      BY <2>4, <3>1, <3>2 DEF Open
  <2>5. CASE Store(o)
    <3>1. CASE Failed(o) /\ UNCHANGED stored
      BY <2>1, <2>5, <3>1, FailedIsBack DEF Store
    <3>2. CASE Done(o) /\ UNCHANGED stored
      BY <2>1, <2>5, <3>2, DoneIsBack DEF Store
    <3>3. CASE /\ serves[o] \in running /\ Done(o)
               /\ stored' = [stored EXCEPT ![serves[o]] = held[o]]
      <4>1. current' = current /\ running' = running /\ (pc' = "out" \/ pc' = pc)
        BY <2>5, <3>3 DEF Store, Done
      <4>2. serves[o] = current /\ pc \notin {"taking", "closing"}
        BY <3>3 DEF CallsInTurn
      <4>3. \A c \in Calls : c # current => stored'[c] = stored[c]
        BY <1>0, <3>3, <4>2 DEF TypeOK
      <4> QED
        BY <4>1, <4>2, <4>3 DEF CallsInTurn
    <3> QED
      BY <2>5, <3>1, <3>2, <3>3 DEF Store
  <2> QED
    BY <1>5, <2>2, <2>3, <2>4, <2>5 DEF OpenerStep
<1>6. ASSUME NEW s \in Streams, Disconnect(s) \/ CloseLeaving(s)
      PROVE  CallsInTurn'
  BY <1>6 DEF Disconnect, CloseLeaving, CallsInTurn
<1>7. CASE UNCHANGED vars
  BY <1>7 DEF vars, CallsInTurn
<1> QED
  BY <1>1, <1>2, <1>3, <1>4, <1>5, <1>6, <1>7 DEF Next

LEMMA TakesTurns == Spec => []CallsInTurn
<1>1. Init => CallsInTurn
  BY DEF Init, CallsInTurn
<1> QED
  BY <1>1, NextCallsInTurn, Inductive, PTL DEF Spec

(* Of the streams of the current call's openers and pipeline, one records. *)
LEMMA OneOfCall ==
  ASSUME IInv, strays = {}, NEW c \in Calls, NEW s \in Streams, NEW t \in Streams,
         OfCall(s, c), OfCall(t, c), state[s] = "started", state[t] = "started"
  PROVE  s = t
<1>1. TypeOK /\ OpenersOK /\ OneOpener /\ NoStream \notin Streams
  BY ConstantsOK DEF IInv
<1>2. ASSUME NEW r \in Streams, state[r] = "started", NEW o \in Openers, held[o] = r,
             serves[o] = c
      PROVE  MayOpen(o, c) /\ stored[c] # r
  <2>1. at[o] = "store"
    BY <1>1, <1>2 DEF OpenersOK
  <2>2. MayOpen(o, c)
    BY <1>2, <2>1 DEF MayOpen
  <2> QED
    BY <1>1, <1>2, <2>2 DEF OneOpener
<1>3. ASSUME stored[c] \in Streams, state[stored[c]] = "started", NEW r \in Streams,
             state[r] = "started", NEW o \in Openers, held[o] = r, serves[o] = c
      PROVE  FALSE
  BY <1>1, <1>2, <1>3 DEF OneOpener
<1> QED
  BY <1>1, <1>2, <1>3 DEF OfCall, OneOpener

(* Every stream that writes to the ring of a call (dataCallback) is the     *)
(* call's or in a thread's hand, and no two of them write to it together,   *)
(* but for those that a thread of an earlier call is about to close, and    *)
(* as long as no stream of an earlier call was lost during a later one      *)
(* (errorCallback).                                                         *)
THEOREM RingHasOneProducer == Spec => []OneProducer
<1>1. IInv /\ CallsInTurn => OneProducer
  <2> SUFFICES ASSUME IInv, CallsInTurn
               PROVE  OneProducer
    OBVIOUS
  <2>1. TypeOK /\ OpenIsHeld /\ NoStream \notin Streams
    BY ConstantsOK DEF IInv
  <2>2. ASSUME NEW s \in Producers
        PROVE  /\ s \in Streams /\ state[s] = "started" /\ current \in Calls
               /\ stored[current] = s \/ \E o \in Openers : held[o] = s
    <3>1. s \in Streams /\ state[s] = "started" /\ current \in Calls
      BY <2>1 DEF Producers, TypeOK
    <3>2. CASE \E c \in Calls : stored[c] = s
      BY <2>1, <3>1, <3>2 DEF CallsInTurn
    <3> QED
      BY <2>1, <3>1, <3>2 DEF OpenIsHeld
  <2>3. ASSUME strays = {}, NEW s \in Producers, NEW t \in Producers, ~ LateHand(s),
               ~ LateHand(t)
        PROVE  s = t
    <3>1. OfCall(s, current) /\ OfCall(t, current)
      BY <2>2, <2>3 DEF OfCall, LateHand
    <3> QED
      BY <2>2, <2>3, <3>1, OneOfCall
  <2> QED
    BY <2>2, <2>3 DEF OneProducer
<1> QED
  BY <1>1, Inductive, TakesTurns, PTL
=============================================================================
