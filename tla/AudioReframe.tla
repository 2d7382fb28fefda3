------------------------------ MODULE AudioReframe ------------------------------
(***************************************************************************)
(* The audio of the other sides (func_audioRtcOnFrame of RTCDevice.c, with *)
(* the BUFF_T of buff.c): G.711 frames of any size are collected in a      *)
(* buffer and handed to the application in blocks of G711_DATA_SIZE bytes; *)
(* what is left over waits for the next frame.  The device has one buffer  *)
(* for all its calls.                                                      *)
(*                                                                         *)
(* A byte is named by its call and its place among the bytes of the call.  *)
(* A callback is one step; decoding a byte to a sample is left out.        *)
(***************************************************************************)
EXTENDS Integers, Sequences

CONSTANTS
  Peers,
  Block,      (* G711_DATA_SIZE: 160 in the code                          *)
  Extra,      (* what BUFF_MALLOC is asked for beyond two frames: 1024    *)
  Sizes,      (* sizes of frames                                          *)
  MaxBytes    (* bounds the bytes of a call                               *)

ASSUME SizesOK ==
  /\ Block \in Nat \ {0} /\ Extra \in Nat /\ MaxBytes \in Nat
  /\ Sizes \subseteq Nat \ {0}

VARIABLES
  bufsize,    (* bufAudioFrame: its size, 0 without memory...             *)
  bufpos,     (* ...how much of it is in use...                           *)
  pbuf,       (* ...and what it holds                                     *)
  handed,     (* what the last callback handed out, its blocks in a row   *)
  received,   (* of each call: its bytes so far                           *)
  largest     (* history: the largest frame since the buffer was freed    *)

vars == <<bufsize, bufpos, pbuf, handed, received, largest>>
buffer == <<bufsize, bufpos, pbuf, largest>>

Zero == <<"zero", 0>>          \* memset
Unknown == <<"unknown", 0>>    \* what lies behind the buffer

Frames == [peer : Peers, from : 0 .. MaxBytes, size : Sizes]

Bytes == {Zero, Unknown} \cup (Peers \X Nat)

TypeOK ==
  /\ bufsize \in Nat /\ bufpos \in Nat
  /\ pbuf \in [1 .. bufsize -> Bytes]
  /\ \A i \in DOMAIN handed : handed[i] \in Bytes
  /\ received \in [Peers -> Nat]
  /\ largest \in Sizes \cup {0}

Init ==
  /\ bufsize = 0 /\ bufpos = 0 /\ pbuf = << >> /\ handed = << >>
  /\ received = [p \in Peers |-> 0] /\ largest = 0

-----------------------------------------------------------------------------
(* frame->frameData[i - 1] *)
Data(frame, i) == <<frame.peer, frame.from + i>>

(* BUFF_MALLOC, for a frame that is larger than the buffer: memory is got  *)
(* once; a buffer that exists is only emptied.                             *)
SizeFor(size) == IF bufsize = 0 THEN 2 * size + Extra ELSE bufsize

Start(size) == IF bufsize < size THEN 0 ELSE bufpos

Base(size) == IF bufsize < size THEN [i \in 1 .. SizeFor(size) |-> Zero] ELSE pbuf

(* Mutant: a frame that just fits is dropped. *)
EndStrict(size) ==
  IF Start(size) + size < SizeFor(size) THEN Start(size) + size ELSE Start(size)

(* BUFF_ENQUEUE: a frame without room is dropped. *)
End(size) ==
  IF Start(size) + size <= SizeFor(size) THEN Start(size) + size ELSE Start(size)

Filled(frame) ==
  [i \in 1 .. SizeFor(frame.size) |->
     IF i \in Start(frame.size) + 1 .. End(frame.size)
       THEN Data(frame, i - Start(frame.size))
       ELSE Base(frame.size)[i]]

(* Mutant: a whole block waits when it ends the data. *)
OneShort(end) == IF end = 0 THEN 0 ELSE ((end - 1) \div Block) * Block

(* The loop hands out whole blocks. *)
Whole(end) == (end \div Block) * Block

At(filled, i) == IF i \in DOMAIN filled THEN filled[i] ELSE Unknown

(* What is left is moved to the front, but read from behind the data. *)
Moved(filled, end) ==
  [i \in DOMAIN filled |-> IF i <= end - Whole(end) THEN At(filled, end + i) ELSE filled[i]]

Got(frame) ==
  /\ frame.from = received[frame.peer] /\ frame.from + frame.size <= MaxBytes
  /\ received' = [received EXCEPT ![frame.peer] = @ + frame.size]

(* A frame of A-law or mu-law samples. *)
G711Frame(frame) ==
  LET end == End(frame.size)
  IN  /\ Got(frame)
      /\ bufsize' = SizeFor(frame.size)
      /\ handed' = [i \in 1 .. Whole(end) |-> Filled(frame)[i]]
      /\ pbuf' = Moved(Filled(frame), end)
      /\ bufpos' = end - Whole(end)
      /\ largest' = IF frame.size > largest THEN frame.size ELSE largest

(* There is no memory for a buffer. *)
NoMemory(frame) ==
  /\ bufsize = 0 /\ Got(frame)
  /\ handed' = << >>
  /\ UNCHANGED buffer

(* Frames of other codecs are handed on as they are. *)
OtherFrame(frame) ==
  /\ Got(frame)
  /\ handed' = [i \in 1 .. frame.size |-> Data(frame, i)]
  /\ UNCHANGED buffer

(* RTC_Device_Stop frees the buffer. *)
Stop ==
  /\ bufsize' = 0 /\ bufpos' = 0 /\ pbuf' = << >> /\ handed' = << >> /\ largest' = 0
  /\ UNCHANGED received

Next ==
  \/ \E frame \in Frames : G711Frame(frame) \/ NoMemory(frame) \/ OtherFrame(frame)
  \/ Stop

Spec == Init /\ [][Next]_vars

-----------------------------------------------------------------------------
(* Less than a block waits for the next frame, however the sizes of the    *)
(* frames and of the first one fall, and it lies in the buffer.            *)
RemainderIsShort == bufpos < Block /\ bufpos <= bufsize

(* A frame that leaves the buffer room for the bytes that may have waited  *)
(* is never dropped.  From the place where its own bytes begin, the blocks *)
(* hold exactly these, in order and without a gap, and the rest of them    *)
(* waits: what the wrong move spoils is confined to the bytes that had     *)
(* waited, and frames of whole blocks arrive intact.                       *)
BlocksFollowFrame ==
  [][\A frame \in Frames :
       G711Frame(frame) /\ frame.size + Block - 1 <= bufsize' =>
         /\ Len(handed') + bufpos' = bufpos + frame.size
         /\ \A i \in bufpos + 1 .. Len(handed') : handed'[i] = Data(frame, i - bufpos)]_vars

(* As long as the frames leave room for two blocks, nothing from behind    *)
(* the buffer gets into it.                                                *)
NothingFromOutside ==
  largest + 2 * (Block - 1) <= bufsize =>
    \A i \in 1 .. bufsize : pbuf[i] # Unknown
=============================================================================
