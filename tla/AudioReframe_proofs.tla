--------------------------- MODULE AudioReframe_proofs ---------------------------
(***************************************************************************)
(* Proofs about AudioReframe, for blocks, buffers and frames of any size.  *)
(***************************************************************************)
EXTENDS AudioReframe, TLAPS

(* The inductive invariant. *)
IInv == TypeOK /\ RemainderIsShort /\ NothingFromOutside

(* The loop leaves less than a block. *)
LEMMA WholeBlocks ==
  ASSUME NEW end \in Nat
  PROVE  /\ Whole(end) \in Nat /\ Whole(end) <= end
         /\ end - Whole(end) \in 0 .. (Block - 1)
  BY SizesOK DEF Whole

(* What a frame is. *)
LEMMA FrameType ==
  ASSUME NEW frame \in Frames
  PROVE  /\ frame.peer \in Peers /\ frame.from \in Nat
         /\ frame.size \in Sizes /\ frame.size \in Nat /\ frame.size > 0
<1>1. /\ frame.peer \in Peers /\ frame.from \in 0 .. MaxBytes /\ frame.size \in Sizes
  BY DEF Frames
<1>2. frame.size \in Nat \ {0}
  BY <1>1, SizesOK
<1> QED
  BY <1>1, <1>2, SizesOK

(* The data stays within the buffer, whatever fits, is emptied or dropped. *)
LEMMA Room ==
  ASSUME TypeOK, RemainderIsShort, NEW frame \in Frames
  PROVE  /\ SizeFor(frame.size) \in Nat
         /\ Start(frame.size) \in Nat /\ Start(frame.size) < Block
         /\ End(frame.size) \in Nat
         /\ Start(frame.size) <= End(frame.size)
         /\ End(frame.size) <= Start(frame.size) + frame.size
         /\ End(frame.size) <= SizeFor(frame.size)
<1>1. frame.size \in Nat /\ frame.size > 0
  BY FrameType
<1>2. bufpos \in Nat /\ bufsize \in Nat /\ bufpos <= bufsize /\ bufpos < Block
  BY DEF TypeOK, RemainderIsShort
<1>3. SizeFor(frame.size) \in Nat /\ bufsize <= SizeFor(frame.size)
  BY <1>1, <1>2, SizesOK DEF SizeFor
<1>4. /\ Start(frame.size) \in Nat /\ Start(frame.size) < Block
      /\ Start(frame.size) <= bufsize
  BY <1>1, <1>2, SizesOK DEF Start
<1>5. CASE Start(frame.size) + frame.size <= SizeFor(frame.size)
  BY <1>1, <1>3, <1>4, <1>5 DEF End
<1>6. CASE ~(Start(frame.size) + frame.size <= SizeFor(frame.size))
  <2>1. End(frame.size) = Start(frame.size)
    BY <1>6 DEF End
  <2>2. Start(frame.size) <= SizeFor(frame.size)
    BY <1>2, <1>3, <1>4
  <2> QED
    BY <1>1, <1>3, <1>4, <2>1, <2>2
<1> QED
  BY <1>5, <1>6

(* What it holds before the loop: bytes. *)
LEMMA FilledType ==
  ASSUME TypeOK, RemainderIsShort, NEW frame \in Frames
  PROVE  Filled(frame) \in [1 .. SizeFor(frame.size) -> Bytes]
<1> DEFINE size == frame.size
           start == Start(size)
           cap == SizeFor(size)
<1>1. /\ frame.peer \in Peers /\ frame.from \in Nat /\ size \in Nat /\ size > 0
      /\ cap \in Nat /\ start \in Nat /\ End(size) \in Nat
  BY Room, FrameType
<1>2. ASSUME NEW i \in start + 1 .. End(size)
      PROVE  Data(frame, i - start) \in Bytes
  <2>1. frame.from + (i - start) \in Nat
    BY <1>1, <1>2
  <2> QED
    BY <1>1, <2>1 DEF Data, Bytes
<1>3. ASSUME NEW i \in 1 .. cap
      PROVE  Base(size)[i] \in Bytes
  <2>1. CASE bufsize < size
    BY <1>3, <2>1 DEF Base, Bytes
  <2>2. CASE ~(bufsize < size)
    <3>1. cap = bufsize /\ Base(size) = pbuf
      BY <1>1, <2>2 DEF Base, SizeFor, TypeOK
    <3> QED
      BY <1>3, <3>1 DEF TypeOK
  <2> QED
    BY <2>1, <2>2
<1> HIDE DEF size, start, cap
<1>4. Filled(frame)
        = [i \in 1 .. cap |-> IF i \in start + 1 .. End(size) THEN Data(frame, i - start)
                                                        ELSE Base(size)[i]]
  BY DEF Filled, size, start, cap
<1> QED
  BY <1>2, <1>3, <1>4 DEF cap, size

(* A callback leaves less than a block, and bytes. *)
LEMMA G711Types ==
  ASSUME TypeOK, RemainderIsShort, NEW frame \in Frames, G711Frame(frame)
  PROVE  TypeOK' /\ RemainderIsShort'
<1> DEFINE size == frame.size
           end == End(size)
<1>1. /\ end \in Nat /\ end <= SizeFor(size) /\ SizeFor(size) \in Nat
      /\ Whole(end) \in Nat /\ Whole(end) <= end /\ end - Whole(end) \in 0 .. (Block - 1)
  BY Room, WholeBlocks
<1>2. Filled(frame) \in [1 .. SizeFor(size) -> Bytes]
  BY FilledType
<1>3. /\ bufsize' = SizeFor(size) /\ bufpos' = end - Whole(end)
      /\ pbuf' = Moved(Filled(frame), end)
      /\ handed' = [i \in 1 .. Whole(end) |-> Filled(frame)[i]]
  BY DEF G711Frame
<1> HIDE DEF end, size
<1>4. pbuf' \in [1 .. bufsize' -> Bytes]
  <2>1. Unknown \in Bytes
    BY DEF Bytes
  <2> QED
    BY <1>2, <1>3, <2>1 DEF Moved, At
<1>5. \A i \in DOMAIN handed' : handed'[i] \in Bytes
  BY <1>1, <1>2, <1>3
<1>6. received' \in [Peers -> Nat]
  <2>1. received[frame.peer] + frame.size \in Nat
    BY FrameType DEF TypeOK
  <2> QED
    BY <2>1, FrameType DEF G711Frame, Got, TypeOK
<1>7. largest' \in Sizes \cup {0}
  BY FrameType DEF G711Frame, TypeOK
<1>8. bufsize' \in Nat /\ bufpos' \in Nat /\ bufpos' < Block /\ bufpos' <= bufsize'
  BY <1>1, <1>3, SizesOK
<1> QED
  BY <1>4, <1>5, <1>6, <1>7, <1>8 DEF TypeOK, RemainderIsShort

LEMMA RoomOfSmaller ==
  ASSUME NEW a \in Nat, NEW b \in Nat, NEW c \in Nat, NEW k \in Nat,
         a <= b, b + 2 * (k - 1) <= c
  PROVE  a + 2 * (k - 1) <= c
  OBVIOUS

(* While there is room for two blocks, the move reads within the buffer. *)
LEMMA G711StaysInside ==
  ASSUME IInv, NEW frame \in Frames, G711Frame(frame)
  PROVE  NothingFromOutside'
<1> DEFINE size == frame.size
           end == End(size)
           rest == end - Whole(end)
           filled == Filled(frame)
<1>0. TypeOK /\ RemainderIsShort /\ NothingFromOutside
  BY DEF IInv
<1> SUFFICES ASSUME largest' + 2 * (Block - 1) <= bufsize', NEW i \in 1 .. bufsize'
             PROVE  pbuf'[i] # Unknown
  BY DEF NothingFromOutside
<1>1. /\ end \in Nat /\ rest \in 0 .. (Block - 1)
      /\ Start(size) \in Nat /\ Start(size) < Block /\ end <= Start(size) + size
      /\ SizeFor(size) \in Nat
  BY <1>0, Room, WholeBlocks
<1>2. size \in Nat /\ size > 0 /\ frame.peer \in Peers /\ frame.from \in Nat /\ largest \in Nat
  BY <1>0, SizesOK, FrameType DEF TypeOK
<1>3. /\ bufsize' = SizeFor(size) /\ pbuf' = Moved(filled, end)
      /\ largest' \in Nat /\ size <= largest' /\ largest <= largest'
  BY <1>2 DEF G711Frame
<1>4. DOMAIN filled = 1 .. SizeFor(size)
  BY DEF Filled
<1>5. ASSUME NEW j \in 1 .. SizeFor(size)
      PROVE  filled[j] # Unknown
  <2>1. CASE j \in Start(size) + 1 .. End(size)
    <3>1. filled[j] = Data(frame, j - Start(size))
      BY <1>5, <2>1 DEF Filled
    <3>2. frame.from + (j - Start(size)) # 0
      BY <1>1, <1>2, <2>1
    <3> QED
      BY <3>1, <3>2 DEF Data, Unknown
  <2>2. CASE j \notin Start(size) + 1 .. End(size) /\ bufsize < size
    BY <1>5, <2>2 DEF Filled, Base, Zero, Unknown
  <2>3. CASE j \notin Start(size) + 1 .. End(size) /\ ~(bufsize < size)
    <3>1. bufsize \in Nat /\ SizeFor(size) = bufsize
      BY <1>0, <1>2, <2>3 DEF SizeFor, TypeOK
    <3>2. largest + 2 * (Block - 1) <= bufsize
      <4>1. /\ largest \in Nat /\ largest' \in Nat /\ bufsize \in Nat /\ Block \in Nat
            /\ largest <= largest' /\ largest' + 2 * (Block - 1) <= bufsize
        BY <1>2, <1>3, <3>1, SizesOK
      <4> QED
        BY <4>1, RoomOfSmaller
    <3>3. pbuf[j] # Unknown
      BY <1>0, <1>5, <3>1, <3>2 DEF NothingFromOutside
    <3> QED
      BY <1>5, <2>3, <3>3 DEF Filled, Base
  <2> QED
    BY <2>1, <2>2, <2>3
<1>6. i <= rest => end + i \in 1 .. SizeFor(size)
  BY <1>1, <1>2, <1>3, SizesOK
<1> HIDE DEF filled, rest, end
<1>7. pbuf'[i] = IF i <= end - Whole(end) THEN At(filled, end + i) ELSE filled[i]
  BY <1>3, <1>4 DEF Moved
<1> QED
  BY <1>3, <1>4, <1>5, <1>6, <1>7 DEF At, rest

(* A frame that finds room is followed by its own bytes. *)
LEMMA G711FollowsFrame ==
  ASSUME IInv, NEW frame \in Frames, G711Frame(frame), frame.size + Block - 1 <= bufsize'
  PROVE  /\ Len(handed') + bufpos' = bufpos + frame.size
         /\ \A i \in bufpos + 1 .. Len(handed') : handed'[i] = Data(frame, i - bufpos)
<1> DEFINE size == frame.size
           end == End(size)
<1>0. TypeOK /\ RemainderIsShort
  BY DEF IInv
<1>1. size \in Nat /\ size > 0 /\ Block \in Nat /\ Block > 0 /\ Extra \in Nat
  BY FrameType, SizesOK
<1>2. bufsize \in Nat /\ bufpos \in Nat /\ bufpos < Block /\ bufpos <= bufsize
  BY <1>0 DEF TypeOK, RemainderIsShort
<1>3. bufsize' = SizeFor(size)
  BY DEF G711Frame
<1>4. Start(size) = bufpos
  <2>1. CASE bufsize = 0
    BY <1>1, <1>2, <2>1 DEF Start
  <2>2. CASE bufsize # 0
    <3>1. SizeFor(size) = bufsize
      BY <2>2 DEF SizeFor
    <3> QED
      BY <1>1, <1>2, <1>3, <3>1 DEF Start
  <2> QED
    BY <2>1, <2>2
<1>5. end = bufpos + size /\ end \in Nat
  <2>1. SizeFor(size) \in Nat
    BY <1>0, Room
  <2>2. bufpos + size <= SizeFor(size)
    BY <1>1, <1>2, <1>3, <2>1
  <2> QED
    BY <1>1, <1>2, <1>4, <2>2 DEF End
<1>6. Whole(end) \in Nat /\ Whole(end) <= end
  BY <1>5, WholeBlocks
<1>7. bufpos' = end - Whole(end) /\ handed' = [i \in 1 .. Whole(end) |-> Filled(frame)[i]]
  BY DEF G711Frame
<1>8. Len(handed') = Whole(end)
  <2> HIDE DEF end
  <2>1. DOMAIN handed' = 1 .. Whole(end)
    BY <1>7
  <2>2. handed' \in Seq(Bytes)
    <3>1. Filled(frame) \in [1 .. SizeFor(size) -> Bytes] /\ end <= SizeFor(size)
          /\ SizeFor(size) \in Nat
      BY <1>0, FilledType, Room DEF end
    <3>2. \A i \in 1 .. Whole(end) : Filled(frame)[i] \in Bytes
      BY <1>5, <1>6, <3>1
    <3> QED
      BY <1>6, <1>7, <3>2
  <2> QED
    BY <1>6, <2>1, <2>2
<1>9. ASSUME NEW i \in bufpos + 1 .. Whole(end)
      PROVE  handed'[i] = Data(frame, i - bufpos)
  <2>1. i \in 1 .. Whole(end) /\ i \in 1 .. SizeFor(size) /\ i \in bufpos + 1 .. end
    <3>1. end <= SizeFor(size) /\ SizeFor(size) \in Nat
      BY <1>0, Room
    <3> QED
      BY <1>2, <1>5, <1>6, <1>9, <3>1
  <2>2. handed'[i] = Filled(frame)[i]
    BY <1>7, <2>1
  <2> QED
    BY <1>4, <2>1, <2>2 DEF Filled
<1>10. Len(handed') + bufpos' = bufpos + size
  BY <1>2, <1>5, <1>6, <1>7, <1>8
<1> QED
  BY <1>8, <1>9, <1>10

-----------------------------------------------------------------------------
LEMMA NextIInv == IInv /\ [Next]_vars => IInv'
<1> SUFFICES ASSUME IInv, [Next]_vars
             PROVE  IInv'
  OBVIOUS
<1>0. TypeOK /\ RemainderIsShort /\ NothingFromOutside
  BY DEF IInv
<1>1. ASSUME NEW frame \in Frames, G711Frame(frame)
      PROVE  IInv'
  BY <1>0, <1>1, G711Types, G711StaysInside DEF IInv
<1>2. ASSUME NEW frame \in Frames, Got(frame), UNCHANGED buffer,
             \A i \in DOMAIN handed' : handed'[i] \in Bytes
      PROVE  IInv'
  <2>1. received' \in [Peers -> Nat]
    <3>1. received[frame.peer] + frame.size \in Nat
      BY <1>0, FrameType DEF TypeOK
    <3> QED
      BY <1>0, <1>2, <3>1 DEF Got, TypeOK
  <2> QED
    BY <1>0, <1>2, <2>1 DEF IInv, TypeOK, RemainderIsShort, NothingFromOutside, buffer
<1>3. ASSUME NEW frame \in Frames, NoMemory(frame)
      PROVE  IInv'
  BY <1>2, <1>3 DEF NoMemory
<1>4. ASSUME NEW frame \in Frames, OtherFrame(frame)
      PROVE  IInv'
  <2>1. ASSUME NEW i \in DOMAIN handed'
        PROVE  handed'[i] \in Bytes
    <3>1. handed'[i] = Data(frame, i) /\ i \in 1 .. frame.size
      BY <1>4 DEF OtherFrame
    <3>2. frame.from + i \in Nat /\ frame.peer \in Peers
      BY <3>1, FrameType
    <3> QED
      BY <3>1, <3>2 DEF Data, Bytes
  <2> QED
    BY <1>2, <1>4, <2>1 DEF OtherFrame
<1>5. CASE Stop
  BY <1>0, <1>5, SizesOK DEF Stop, IInv, TypeOK, RemainderIsShort, NothingFromOutside
<1>6. CASE UNCHANGED vars
  BY <1>0, <1>6 DEF vars, IInv, TypeOK, RemainderIsShort, NothingFromOutside
<1> QED
  BY <1>1, <1>3, <1>4, <1>5, <1>6 DEF Next

LEMMA Invariant == Spec => []IInv
<1>1. Init => IInv
  BY SizesOK DEF Init, IInv, TypeOK, RemainderIsShort, NothingFromOutside
<1> QED
  BY <1>1, NextIInv, PTL DEF Spec

(* The buffer has its type, for blocks and frames of any size. *)
THEOREM ReframeTypeCorrect == Spec => []TypeOK
  BY Invariant, PTL DEF IInv

(* Never a whole block waits, and what waits lies within the buffer. *)
THEOREM RemainderAlwaysShort == Spec => []RemainderIsShort
  BY Invariant, PTL DEF IInv

(* Bytes behind the buffer are read only when a frame leaves less room     *)
(* than two blocks.                                                        *)
THEOREM MoveStaysInside == Spec => []NothingFromOutside
  BY Invariant, PTL DEF IInv

(* A frame with room is never dropped, and its bytes come in order.        *)
THEOREM FrameBytesInOrder == Spec => BlocksFollowFrame
<1>1. IInv /\ [Next]_vars =>
        [\A frame \in Frames :
           G711Frame(frame) /\ frame.size + Block - 1 <= bufsize' =>
             /\ Len(handed') + bufpos' = bufpos + frame.size
             /\ \A i \in bufpos + 1 .. Len(handed') :
                  handed'[i] = Data(frame, i - bufpos)]_vars
  BY G711FollowsFrame
<1> QED
  BY <1>1, Invariant, PTL DEF Spec, BlocksFollowFrame
=============================================================================
