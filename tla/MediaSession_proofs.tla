--------------------------- MODULE MediaSession_proofs ---------------------------
(***************************************************************************)
(* Proofs about SpscRing and about MediaSession, which extends it, for any *)
(* frames and rings of any capacity.  First the ring by itself: it has no  *)
(* race and is a queue.  Then the session: it keeps to the rules of its    *)
(* ring, so that these theorems hold of it, and a release leaves nothing   *)
(* of a call behind.                                                       *)
(***************************************************************************)
EXTENDS MediaSession, SequenceTheorems, TLAPS

(***************************************************************************)
(* The inductive invariant: the slot the producer works on is not one of   *)
(* those between tail and head, which are the consumer's, and while the    *)
(* consumer works there is such a slot.                                    *)
(***************************************************************************)
WriterHasRoom == pushing # "out" => ~Full

ReaderHasFrame == popping # "out" => head # tail

WrittenIsFrame == pushing = "written" => slots[head] \in Frames

ContentsAreFrames == \A i \in 1 .. Count : slots[Wrap(tail + i - 1)] \in Frames

RingInv == RingTypeOK /\ WriterHasRoom /\ ReaderHasFrame /\ WrittenIsFrame /\ ContentsAreFrames

USE CapacityOK DEF Index, Wrap

(* The next slot is a slot, and not the same one. *)
LEMMA WrapInIndex ==
  ASSUME NEW i \in Index
  PROVE  Wrap(i + 1) \in Index /\ Wrap(i + 1) # i
  OBVIOUS

(* A ring starts empty. *)
LEMMA InitRingInv == RingInit => RingInv
<1> SUFFICES ASSUME RingInit
             PROVE  RingInv
  OBVIOUS
<1>1. RingTypeOK /\ WriterHasRoom /\ ReaderHasFrame /\ WrittenIsFrame
  BY DEF RingInit, RingTypeOK, WriterHasRoom, ReaderHasFrame, WrittenIsFrame
<1>2. Count = 0
  BY DEF RingInit, Count
<1> QED
  BY <1>1, <1>2 DEF RingInv, ContentsAreFrames

(* The number of frames lies between none and one less than the slots. *)
LEMMA CountRange ==
  ASSUME RingTypeOK
  PROVE  /\ Count \in 0 .. (Capacity - 1)
         /\ (Count = 0 <=> head = tail)
         /\ (Count = Capacity - 1 <=> Full)
  BY DEF RingTypeOK, Count, Full

(* Committing a frame adds one slot behind the others. *)
LEMMA PushCount ==
  ASSUME RingTypeOK, ~Full, CommitPush
  PROVE  /\ Count' = Count + 1
         /\ Wrap(tail + Count) = head
  BY DEF RingTypeOK, Count, Full, CommitPush

(* Taking a frame leaves the others where they are. *)
LEMMA PopCount ==
  ASSUME RingTypeOK, head # tail, CommitPop
  PROVE  /\ Count' = Count - 1
         /\ \A i \in 1 .. Count - 1 : Wrap(tail' + i - 1) = Wrap(tail + (i + 1) - 1)
  BY DEF RingTypeOK, Count, CommitPop

(* A frame that is queued does not lie where the producer writes. *)
LEMMA QueuedIsNotHead ==
  ASSUME RingTypeOK, NEW i \in 1 .. Count
  PROVE  Wrap(tail + i - 1) \in Index /\ Wrap(tail + i - 1) # head
  BY DEF RingTypeOK, Count

(* Every step of either thread preserves the invariant. *)
LEMMA NextRingInv == RingInv /\ [RingNext]_ringVars => RingInv'
<1> SUFFICES ASSUME RingInv, [RingNext]_ringVars
             PROVE  RingInv'
  OBVIOUS
<1>0. RingTypeOK
  BY DEF RingInv
<1>1. CASE AcquirePush
  BY <1>1 DEF AcquirePush, RingInv, RingTypeOK, WriterHasRoom, ReaderHasFrame,
              WrittenIsFrame, ContentsAreFrames, Full, Count
<1>2. ASSUME NEW f \in Frames, WriteSlot(f)
      PROVE  RingInv'
  <2>1. RingTypeOK' /\ WriterHasRoom' /\ ReaderHasFrame' /\ WrittenIsFrame'
    BY <1>2 DEF WriteSlot, RingInv, RingTypeOK, WriterHasRoom, ReaderHasFrame,
                WrittenIsFrame, Full
  <2>2. Count' = Count
    BY <1>2 DEF WriteSlot, Count
  <2>3. ASSUME NEW i \in 1 .. Count
        PROVE  slots'[Wrap(tail' + i - 1)] \in Frames
    BY <1>0, <1>2, <2>3, QueuedIsNotHead DEF WriteSlot, RingInv, RingTypeOK, ContentsAreFrames
  <2> QED
    BY <2>1, <2>2, <2>3 DEF RingInv, ContentsAreFrames
<1>3. CASE CommitPush
  <2>1. Count' = Count + 1 /\ Wrap(tail + Count) = head
    BY <1>0, <1>3, PushCount DEF RingInv, WriterHasRoom, CommitPush
  <2>2. Count \in 0 .. (Capacity - 1)
    BY <1>0, CountRange
  <2>3. ASSUME NEW i \in 1 .. (Count + 1)
        PROVE  slots'[Wrap(tail' + i - 1)] \in Frames
    <3>1. CASE i \in 1 .. Count
      BY <1>3, <3>1 DEF CommitPush, RingInv, ContentsAreFrames
    <3>2. CASE i = Count + 1
      BY <1>3, <2>1, <2>2, <3>2 DEF CommitPush, RingInv, WrittenIsFrame, RingTypeOK
    <3> QED
      BY <2>2, <2>3, <3>1, <3>2
  <2>4. RingTypeOK' /\ WriterHasRoom' /\ ReaderHasFrame' /\ WrittenIsFrame'
    BY <1>3 DEF CommitPush, RingInv, RingTypeOK, WriterHasRoom, ReaderHasFrame,
                WrittenIsFrame, Full
  <2> QED
    BY <2>1, <2>3, <2>4 DEF RingInv, ContentsAreFrames
<1>4. CASE AcquirePop
  BY <1>4 DEF AcquirePop, RingInv, RingTypeOK, WriterHasRoom, ReaderHasFrame,
              WrittenIsFrame, ContentsAreFrames, Full, Count
<1>5. CASE CommitPop
  <2>1. /\ Count' = Count - 1
        /\ \A i \in 1 .. Count - 1 : Wrap(tail' + i - 1) = Wrap(tail + (i + 1) - 1)
    BY <1>0, <1>5, PopCount DEF RingInv, ReaderHasFrame, CommitPop
  <2>2. Count \in 0 .. (Capacity - 1)
    BY <1>0, CountRange
  <2>3. ContentsAreFrames'
    <3> SUFFICES ASSUME NEW i \in 1 .. (Count - 1)
                 PROVE  slots[Wrap(tail' + i - 1)] \in Frames
      BY <1>5, <2>1 DEF ContentsAreFrames, CommitPop
    <3>1. i + 1 \in 1 .. Count
      BY <2>2
    <3> QED
      BY <2>1, <3>1 DEF RingInv, ContentsAreFrames
  <2>4. RingTypeOK' /\ ReaderHasFrame' /\ WrittenIsFrame'
    BY <1>5 DEF CommitPop, RingInv, RingTypeOK, ReaderHasFrame, WrittenIsFrame
  <2>5. WriterHasRoom'
    BY <1>0, <1>5 DEF CommitPop, RingInv, RingTypeOK, WriterHasRoom, ReaderHasFrame, Full
  <2> QED
    BY <2>3, <2>4, <2>5 DEF RingInv
<1>6. CASE LeavePop
  BY <1>6 DEF LeavePop, RingInv, RingTypeOK, WriterHasRoom, ReaderHasFrame,
              WrittenIsFrame, ContentsAreFrames, Full, Count
<1>7. CASE NewRing
  BY <1>7 DEF NewRing, RingInv, RingTypeOK, WriterHasRoom, ReaderHasFrame,
              WrittenIsFrame, ContentsAreFrames, Full, Count
<1>8. CASE UNCHANGED ringVars
  BY <1>8 DEF ringVars, RingInv, RingTypeOK, WriterHasRoom, ReaderHasFrame,
              WrittenIsFrame, ContentsAreFrames, Full, Count
<1> QED
  BY <1>1, <1>2, <1>3, <1>4, <1>5, <1>6, <1>7, <1>8 DEF RingNext

(* The invariant holds in every reachable state. *)
LEMMA RingInvariant == RingSpec => []RingInv
  BY InitRingInv, NextRingInv, PTL DEF RingSpec

(* Both indices stay within the ring, for any capacity. *)
THEOREM RingTypeCorrect == RingSpec => []RingTypeOK
  BY RingInvariant, PTL DEF RingInv

(* The two threads are never in the same slot. *)
THEOREM RingHasNoRace == RingSpec => []NoDataRace
<1>1. RingInv => NoDataRace
  BY DEF RingInv, ReaderHasFrame, NoDataRace
<1> QED
  BY <1>1, RingInvariant, PTL

(* The frame the consumer holds is not overwritten. *)
LEMMA StepKeepsHeld ==
  RingInv /\ [RingNext]_ringVars
    => [popping # "out" /\ popping' # "out" => slots'[tail'] = slots[tail]]_ringVars
  BY DEF RingInv, RingTypeOK, ReaderHasFrame, RingNext, ringVars, AcquirePush, WriteSlot,
         CommitPush, AcquirePop, CommitPop, LeavePop, NewRing

(* What the consumer works on in place stays as it was, whatever the       *)
(* producer does meanwhile.                                                *)
THEOREM HeldFrameIsStable == RingSpec => HeldFrameStays
  BY RingInvariant, StepKeepsHeld, PTL DEF RingSpec, HeldFrameStays

-----------------------------------------------------------------------------
(* The queue of the refinement is a sequence of frames. *)
LEMMA ContentsSeq ==
  ASSUME RingInv
  PROVE  Contents \in Seq(Frames) /\ Len(Contents) = Count
<1>1. Count \in Nat
  BY CountRange DEF RingInv
<1>2. \A i \in 1 .. Count : slots[Wrap(tail + i - 1)] \in Frames
  BY DEF RingInv, ContentsAreFrames
<1> QED
  BY <1>1, <1>2 DEF Contents

(* Every step of the ring is one of the queue, or none. *)
LEMMA StepImplementsFifo ==
  RingInv /\ RingInv' /\ [RingNext]_ringVars => [Fifo!Next]_Contents
<1> SUFFICES ASSUME RingInv, RingInv', [RingNext]_ringVars
             PROVE  [Fifo!Next]_Contents
  OBVIOUS
<1>0. RingTypeOK /\ Count \in Nat /\ Count \in 0 .. (Capacity - 1)
  BY CountRange DEF RingInv
<1>1. CASE AcquirePush \/ AcquirePop \/ LeavePop \/ UNCHANGED ringVars
  BY <1>1 DEF AcquirePush, AcquirePop, LeavePop, ringVars, Contents, Count
<1>2. ASSUME NEW f \in Frames, WriteSlot(f)
      PROVE  Contents' = Contents
  <2>1. Count' = Count
    BY <1>2 DEF WriteSlot, Count
  <2>2. \A i \in 1 .. Count : slots'[Wrap(tail' + i - 1)] = slots[Wrap(tail + i - 1)]
    BY <1>0, <1>2, QueuedIsNotHead DEF WriteSlot, RingTypeOK
  <2> QED
    BY <2>1, <2>2 DEF Contents
<1>3. CASE CommitPush
  <2>1. Count' = Count + 1 /\ Wrap(tail + Count) = head
    BY <1>0, <1>3, PushCount DEF RingInv, WriterHasRoom, CommitPush
  <2>2. slots[head] \in Frames
    BY <1>3 DEF CommitPush, RingInv, WrittenIsFrame
  <2>3. Contents' = Append(Contents, slots[head])
    <3>1. /\ Contents' = [i \in 1 .. (Count + 1) |-> slots[Wrap(tail + i - 1)]]
          /\ Contents \in Seq(Frames) /\ Len(Contents) = Count
      BY <1>3, <2>1, ContentsSeq DEF Contents, CommitPush
    <3>2. \A i \in 1 .. Count : slots[Wrap(tail + i - 1)] = Contents[i]
      BY DEF Contents
    <3>3. tail + (Count + 1) - 1 = tail + Count
      BY <1>0 DEF RingTypeOK
    <3> HIDE DEF Wrap
    <3> QED
      BY <1>0, <2>1, <3>1, <3>2, <3>3
  <2>4. Len(Contents) < Capacity - 1
    BY <1>0, <1>3, CountRange, ContentsSeq DEF RingInv, WriterHasRoom, CommitPush
  <2> QED
    BY <2>2, <2>3, <2>4 DEF Fifo!Next, Fifo!Push
<1>4. CASE CommitPop
  <2>1. /\ Count' = Count - 1
        /\ \A i \in 1 .. Count - 1 : Wrap(tail' + i - 1) = Wrap(tail + (i + 1) - 1)
    BY <1>0, <1>4, PopCount DEF RingInv, ReaderHasFrame, CommitPop
  <2>2. Count > 0
    BY <1>0, <1>4, CountRange DEF RingInv, ReaderHasFrame, CommitPop
  <2>3. Contents # << >>
    BY <2>2, ContentsSeq
  <2>4. Contents' = Tail(Contents)
    <3>1. Contents' = [i \in 1 .. (Count - 1) |-> slots[Wrap(tail' + i - 1)]]
      BY <1>4, <2>1 DEF Contents, CommitPop
    <3>2. /\ Tail(Contents) \in Seq(Frames) /\ Len(Tail(Contents)) = Count - 1
          /\ \A i \in 1 .. (Count - 1) : Tail(Contents)[i] = Contents[i + 1]
      BY <2>3, ContentsSeq, HeadTailProperties
    <3>3. \A i \in 1 .. (Count - 1) : Contents[i + 1] = slots[Wrap(tail + (i + 1) - 1)]
      BY <1>0 DEF Contents
    <3>4. Contents' \in Seq(Frames) /\ Len(Contents') = Count - 1
      <4>1. Count - 1 \in Nat
        BY <1>0, <2>2
      <4>2. \A i \in 1 .. (Count - 1) : slots[Wrap(tail' + i - 1)] \in Frames
        BY <1>4, <2>1 DEF RingInv, ContentsAreFrames, CommitPop
      <4> HIDE DEF Wrap
      <4> QED
        BY <3>1, <4>1, <4>2
    <3> HIDE DEF Wrap, Index
    <3>5. \A i \in 1 .. (Count - 1) : Contents'[i] = Tail(Contents)[i]
      BY <2>1, <3>1, <3>2, <3>3
    <3> QED
      BY <3>2, <3>4, <3>5, SeqEqual
  <2> QED
    BY <2>3, <2>4 DEF Fifo!Next, Fifo!Pop
<1>5. CASE NewRing
  <2>1. Count' = 0
    BY <1>5 DEF NewRing, Count
  <2>2. Contents' = << >>
    BY <2>1, ContentsSeq, RingInv' DEF Contents
  <2> QED
    BY <2>2 DEF Fifo!Next, Fifo!Renew
<1> QED
  BY <1>1, <1>2, <1>3, <1>4, <1>5 DEF RingNext

(* An empty ring is an empty queue. *)
LEMMA InitImplementsFifo == RingInit => Fifo!Init
<1> SUFFICES ASSUME RingInit
             PROVE  Contents = << >>
  BY DEF Fifo!Init
<1>1. Count = 0
  BY DEF RingInit, Count
<1> QED
  BY <1>1 DEF Contents

(* A ring of any capacity, cut at the loads and stores of its indices, is  *)
(* the bounded queue of FrameFifo.                                         *)
THEOREM RingImplementsFifo == RingSpec => ImplementsFifo
  BY InitImplementsFifo, StepImplementsFifo, RingInvariant, PTL
     DEF RingSpec, ImplementsFifo, Fifo!Spec

HIDE CapacityOK DEF Index, Wrap

-----------------------------------------------------------------------------
(* The types of the session's own variables. *)
SessionTypeOK ==
  /\ pc \in {"idle", "add", "send"} \cup Release
  /\ after \in {"nothing", "call", "surfaces", "destroy"}
  /\ blocks \in 0 .. 1
  /\ textures \in {"none", "up"} /\ session \in {"open", "gone"}
  /\ crashed \in {"no", "session", "camera", "peer", "transceivers", "threads"}
  /\ surface \in {"none", "set"} /\ peer \in {"none", "set"}
  /\ connected \in {"yes", "no"} /\ shuttingDown \in {"yes", "no"}
  /\ transceivers \subseteq {"video", "audio"}
  /\ threads \subseteq SendThreads \cup {"reporter", "decode"}
  /\ decoder \in {"none", "running", "stopped"}
  /\ tried \subseteq {"video", "audio"}
  /\ codec \in {"none", "ready"}
  /\ playback \in {"none", "made", "open"} /\ sounding \in {"out", "opening"}

CallbackFramesOK == frame \in Frames \cup {0} /\ last \in Frames \cup {0}

FedOK == fed \in Frames \cup {0}

(***************************************************************************)
(* The inductive invariant says up to which step of a release each thread  *)
(* and object of a call may still be there, and that a set-up starts with  *)
(* none of them.                                                           *)
(***************************************************************************)
UpToSound == {"idle", "sound"}
UpToRender == UpToSound \cup {"render"}
UpToOutput == UpToRender \cup {"output"}
UpToVideo == UpToOutput \cup {"freeVideo"}
UpToAudio == UpToVideo \cup {"freeAudio"}
UpToPlayback == UpToAudio \cup {"playback"}
UpToJoin == UpToPlayback \cup {"decoder", "join"}
UpToReporter == UpToJoin \cup {"reporter"}

SendersEnd ==
  /\ "capture" \in threads => pc \in UpToSound /\ "audio" \in transceivers
  /\ "render" \in threads => pc \in UpToRender
  /\ "output" \in threads => pc \in UpToOutput /\ "video" \in transceivers
  /\ "sender" \in threads => "output" \in threads

CallbacksEnd ==
  /\ "video" \in transceivers => pc \in UpToVideo \cup {"send"}
  /\ "audio" \in transceivers => pc \in UpToAudio \cup {"send"}
  /\ frame # 0 => "video" \in transceivers /\ pc # "send"
  /\ sounding = "opening" => "audio" \in transceivers /\ pc # "send"

ObjectsEnd ==
  /\ playback # "none" => pc \in UpToPlayback
  /\ decoder # "none" => pc \in UpToJoin /\ surface = "set"
  /\ "decode" \in threads => decoder # "none"
  /\ "reporter" \in threads => pc \in UpToReporter \cup {"send"}

(* Between two calls there is nothing. *)
Empty ==
  /\ threads = {} /\ transceivers = {} /\ peer = "none"
  /\ decoder = "none" /\ frame = 0 /\ playback = "none" /\ sounding = "out"

EmptyBetween == pc = "idle" /\ (shuttingDown = "yes" \/ peer = "none") => Empty

SetUp ==
  /\ pc = "add" => threads = {} /\ transceivers = {}
  /\ pc = "send" => threads \subseteq {"reporter"} /\ transceivers = {"video", "audio"}
  /\ pc \in {"add", "send"} => peer = "set" /\ connected = "no" /\ blocks = 0
                              /\ shuttingDown = "no"

(* A block is posted only for a call that follows a release. *)
OneBlock ==
  /\ pc \in Release => shuttingDown = "yes"
  /\ pc \in Release /\ after = "call" => blocks = 0
  /\ pc = "idle" /\ blocks # 0 => peer = "none"

NoSecondCall == crashed \notin {"peer", "transceivers", "threads"}

SInv ==
  /\ SessionTypeOK /\ SendersEnd /\ CallbacksEnd /\ ObjectsEnd /\ EmptyBetween /\ SetUp
  /\ OneBlock /\ NoSecondCall

-----------------------------------------------------------------------------
(* Whatever a callback brings is a frame. *)
LEMMA CallbackFramesStep == CallbackFramesOK /\ [Next]_vars => CallbackFramesOK'
<1> SUFFICES ASSUME CallbackFramesOK, [Next]_vars
             PROVE  CallbackFramesOK'
  OBVIOUS
<1> USE DEF CallbackFramesOK
<1>1. CASE \/ IncomingCall \/ EndCall \/ SurfacesAvailable \/ SurfacesDestroyed \/ DestroyView
           \/ CreatePeerConnection \/ AddTransceivers \/ StartSend
  BY <1>1 DEF IncomingCall, EndCall, SurfacesAvailable, SurfacesDestroyed, DestroyView,
     CreatePeerConnection, AddTransceivers, StartSend, BeginRelease, Crash, callbackVars
<1>2. CASE ReleaseNext
  BY <1>2 DEF ReleaseNext, ReleaseStep, StopCapture, JoinRender, JoinOutput, FreeVideo,
     FreeAudio,
     ReleasePlayback, StopDecoder, JoinDecoder, ResetReporter, FreePeer, callbackVars
<1>3. CASE ThreadEnds \/ Connected \/ AudioFrame \/ OpenPlayback
  BY <1>3 DEF ThreadEnds, End, Connected, AudioFrame, OpenPlayback, callbackVars
<1>4. ASSUME NEW f \in Frames, VideoFrame(f)
      PROVE  CallbackFramesOK'
  BY <1>4 DEF VideoFrame
<1>5. CASE EnqueueFrame
  BY <1>5 DEF EnqueueFrame, CallbackOnly
<1>6. CASE DecodeNext
  BY <1>6 DEF DecodeNext, TakeFrame, SetupDecoder, FeedDecoder, DecodeEnds, DecodeOnly,
     callbackVars
<1>7. CASE UNCHANGED vars
  BY <1>7 DEF vars, callbackVars
<1> QED
  BY <1>1, <1>2, <1>3, <1>4, <1>5, <1>6, <1>7 DEF Next

(* Every step of the session is one of the ring, or leaves the ring alone. *)
LEMMA StepIsRingStep == CallbackFramesOK /\ [Next]_vars => [RingNext]_ringVars
<1> SUFFICES ASSUME CallbackFramesOK, [Next]_vars
             PROVE  [RingNext]_ringVars
  OBVIOUS
<1>1. CASE \/ IncomingCall \/ EndCall \/ SurfacesAvailable \/ SurfacesDestroyed \/ DestroyView
           \/ CreatePeerConnection \/ AddTransceivers \/ StartSend
  BY <1>1 DEF IncomingCall, EndCall, SurfacesAvailable, SurfacesDestroyed, DestroyView,
     CreatePeerConnection, AddTransceivers, StartSend, BeginRelease, Crash
<1>2. CASE ReleaseNext
  BY <1>2 DEF ReleaseNext, ReleaseStep, StopCapture, JoinRender, JoinOutput, FreeVideo,
     FreeAudio,
     ReleasePlayback, StopDecoder, JoinDecoder, ResetReporter, FreePeer
<1>3. CASE ThreadEnds \/ Connected \/ AudioFrame \/ OpenPlayback
  BY <1>3 DEF ThreadEnds, End, Connected, AudioFrame, OpenPlayback
<1>4. ASSUME NEW f \in Frames, VideoFrame(f)
      PROVE  NewRing \/ UNCHANGED ringVars
  BY <1>4 DEF VideoFrame
<1>5. CASE EnqueueFrame
  <2>1. CASE WriteSlot(frame)
    BY <1>5, <2>1 DEF EnqueueFrame, CallbackFramesOK, RingNext
  <2> QED
    BY <1>5, <2>1 DEF EnqueueFrame, RingNext
<1>6. CASE DecodeNext
  BY <1>6 DEF DecodeNext, TakeFrame, SetupDecoder, FeedDecoder, DecodeEnds, RingNext
<1>7. CASE UNCHANGED vars
  BY <1>7 DEF vars
<1> QED
  BY <1>1, <1>2, <1>3, <1>4, <1>5, <1>6, <1>7 DEF Next, RingNext

(* The session uses its ring as SpscRing says: one thread pushes, another  *)
(* pops, and a new ring is made only when neither is in the old one.       *)
THEOREM SessionUsesRing == Spec => RingSpec
<1>1. Init => RingInit /\ CallbackFramesOK
  BY DEF Init, CallbackFramesOK
<1> QED
  BY <1>1, CallbackFramesStep, StepIsRingStep, PTL DEF Spec, RingSpec

(* In a session, too, the callback and the decode thread never work on the *)
(* same slot, the frame being decoded stays as it was, and the frames wait *)
(* in a first-in, first-out queue.                                         *)
THEOREM SessionRingCorrect ==
  Spec => []NoDataRace /\ HeldFrameStays /\ ImplementsFifo
  BY SessionUsesRing, RingHasNoRace, HeldFrameIsStable, RingImplementsFifo

-----------------------------------------------------------------------------
(* The last frame the codec got is a frame: what lies in the ring is one. *)
LEMMA FedStep == FedOK /\ RingInv /\ [Next]_vars => FedOK'
<1> SUFFICES ASSUME FedOK, RingInv, [Next]_vars
             PROVE  FedOK'
  OBVIOUS
<1> USE DEF FedOK
<1>1. CASE FeedDecoder /\ fed' = slots[tail]
  <2>1. head # tail
    BY <1>1 DEF FeedDecoder, CommitPop, LeavePop, RingInv, ReaderHasFrame
  <2>2. Count \in Nat /\ Count >= 1 /\ tail \in Nat /\ tail < Capacity
    BY <2>1, CapacityOK, CountRange DEF RingInv, RingTypeOK, Index
  <2>3. slots[Wrap(tail + 1 - 1)] \in Frames
    BY <2>2 DEF RingInv, ContentsAreFrames
  <2> QED
    BY <1>1, <2>2, <2>3 DEF Wrap
<1>2. CASE DecodeNext /\ ~(FeedDecoder /\ fed' = slots[tail])
  BY <1>2 DEF DecodeNext, TakeFrame, SetupDecoder, FeedDecoder, DecodeEnds
<1>3. CASE \/ IncomingCall \/ EndCall \/ SurfacesAvailable \/ SurfacesDestroyed \/ DestroyView
           \/ CreatePeerConnection \/ AddTransceivers \/ StartSend
  BY <1>3 DEF IncomingCall, EndCall, SurfacesAvailable, SurfacesDestroyed, DestroyView,
     CreatePeerConnection, AddTransceivers, StartSend, BeginRelease, Crash, decodeVars
<1>4. CASE ReleaseNext
  BY <1>4 DEF ReleaseNext, ReleaseStep, StopCapture, JoinRender, JoinOutput, FreeVideo,
     FreeAudio,
     ReleasePlayback, StopDecoder, JoinDecoder, ResetReporter, FreePeer, decodeVars
<1>5. CASE ThreadEnds \/ Connected \/ AudioFrame \/ OpenPlayback \/ EnqueueFrame
  BY <1>5 DEF ThreadEnds, End, Connected, AudioFrame, OpenPlayback, EnqueueFrame,
     CallbackOnly,
     decodeVars
<1>6. ASSUME NEW f \in Frames, VideoFrame(f)
      PROVE  FedOK'
  BY <1>6 DEF VideoFrame, decodeVars
<1>7. CASE UNCHANGED vars
  BY <1>7 DEF vars, decodeVars
<1> QED
  BY <1>1, <1>2, <1>3, <1>4, <1>5, <1>6, <1>7 DEF Next

(* A session starts with nothing of a call. *)
LEMMA InitSInv == Init => SInv
  BY DEF Init, SInv, SessionTypeOK, SendersEnd, CallbacksEnd, ObjectsEnd, EmptyBetween,
     SetUp,
     OneBlock, NoSecondCall, Empty, Release, SendThreads

(* Every variable keeps its type. *)
LEMMA TypesStep == SInv /\ [Next]_vars => SessionTypeOK'
<1> SUFFICES ASSUME SInv, [Next]_vars
             PROVE  SessionTypeOK'
  OBVIOUS
<1> USE DEF SInv, SessionTypeOK, mainVars, decodeVars, callbackVars, Release, SendThreads
<1>1. CASE IncomingCall
  BY <1>1 DEF IncomingCall, BeginRelease
<1>2. CASE EndCall
  BY <1>2 DEF EndCall, BeginRelease
<1>3. CASE SurfacesAvailable
  BY <1>3 DEF SurfacesAvailable, Idle
<1>4. CASE SurfacesDestroyed
  <2>1. CASE BeginRelease("surfaces")
    BY <2>1 DEF BeginRelease
  <2>2. CASE Crash("session") /\ UNCHANGED blocks
    BY <2>2 DEF Crash
  <2> QED
    BY <1>4, <2>1, <2>2 DEF SurfacesDestroyed
<1>5. CASE DestroyView
  BY <1>5 DEF DestroyView, BeginRelease
<1>6. CASE CreatePeerConnection
  <2>1. crashed' \in {"no", "session", "peer"} /\ pc' \in {"idle", "add"} /\ blocks' \in 0 .. 1
    BY <1>6 DEF CreatePeerConnection, Crash, Idle
  <2>2. CASE Crash("session") \/ Crash("peer")
    <3>1. CASE Crash("session")
      BY <2>1, <3>1 DEF Crash
    <3>2. CASE Crash("peer")
      BY <2>1, <3>2 DEF Crash
    <3> QED
      BY <2>2, <3>1, <3>2
  <2>3. CASE peer' = "set" /\ connected' = "no" /\ shuttingDown' = "no"
    BY <1>6, <2>1, <2>3 DEF CreatePeerConnection, Crash
  <2> QED
    BY <1>6, <2>2, <2>3 DEF CreatePeerConnection
<1>7. CASE AddTransceivers
  <2>1. crashed' \in {"no", "transceivers"} /\ pc' \in {"add", "send"}
    BY <1>7 DEF AddTransceivers, Crash
  <2>2. /\ threads' \subseteq SendThreads \cup {"reporter", "decode"}
        /\ transceivers' \subseteq {"video", "audio"}
        /\ tried' \subseteq {"video", "audio"}
    BY <1>7 DEF AddTransceivers, Crash
  <2> QED
    BY <1>7, <2>1, <2>2 DEF AddTransceivers, Crash
<1>8. CASE StartSend
  <2>1. CASE Crash("camera") \/ Crash("threads")
    BY <1>8, <2>1 DEF StartSend, Crash
  <2>2. CASE \E started \in {{}, {"render"}, SendThreads \ {"capture"}, SendThreads} :
               threads' = threads \cup started
    <3>1. threads' \subseteq SendThreads \cup {"reporter", "decode"}
      BY <2>2
    <3>2. /\ crashed' \in {"no", "camera", "threads"} /\ pc' \in {"send", "idle"}
          /\ UNCHANGED <<after, blocks, textures, session, surface, peer, connected,
                         transceivers, shuttingDown, decodeVars, callbackVars>>
      BY <1>8 DEF StartSend, Crash
    <3> QED
      BY <3>1, <3>2
  <2> QED
    BY <1>8, <2>1, <2>2 DEF StartSend
<1>9. CASE ReleaseNext /\ ~FreePeer
  <2>1. CASE StopCapture
    BY <2>1 DEF StopCapture, ReleaseStep
  <2>2. CASE JoinRender
    BY <2>2 DEF JoinRender, ReleaseStep
  <2>3. CASE JoinOutput
    BY <2>3 DEF JoinOutput, ReleaseStep
  <2>4. CASE FreeVideo
    BY <2>4 DEF FreeVideo, ReleaseStep
  <2>5. CASE FreeAudio
    BY <2>5 DEF FreeAudio, ReleaseStep
  <2>6. CASE ReleasePlayback
    BY <2>6 DEF ReleasePlayback, ReleaseStep
  <2>7. CASE StopDecoder
    BY <2>7 DEF StopDecoder, ReleaseStep
  <2>8. CASE JoinDecoder
    BY <2>8 DEF JoinDecoder, ReleaseStep
  <2>9. CASE ResetReporter
    BY <2>9 DEF ResetReporter, ReleaseStep
  <2> QED
    BY <1>9, <2>1, <2>2, <2>3, <2>4, <2>5, <2>6, <2>7, <2>8, <2>9 DEF ReleaseNext
<1>11. CASE FreePeer
  <2>1. /\ pc' = "idle" /\ after' = "nothing" /\ peer' = "none" /\ blocks' \in 0 .. 1
        /\ textures' \in {"none", "up"}
    BY <1>11 DEF FreePeer, OneBlock
  <2>2. surface' \in {"none", "set"} /\ session' \in {"open", "gone"}
    BY <1>11 DEF FreePeer
  <2> QED
    BY <1>11, <2>1, <2>2 DEF FreePeer
<1>12. CASE ThreadEnds
  <2>1. PICK t : End(t)
    BY <1>12 DEF ThreadEnds
  <2> QED
    BY <2>1 DEF End
<1>13. CASE Connected
  BY <1>13 DEF Connected
<1>14. ASSUME NEW f \in Frames, VideoFrame(f)
       PROVE  SessionTypeOK'
  <2>1. /\ threads' \subseteq SendThreads \cup {"reporter", "decode"}
        /\ tried' \subseteq {"video", "audio"}
    BY <1>14 DEF VideoFrame
  <2>2. decoder' \in {"none", "running", "stopped"} /\ codec' \in {"none", "ready"}
    BY <1>14 DEF VideoFrame
  <2> QED
    BY <1>14, <2>1, <2>2 DEF VideoFrame
<1>15. CASE EnqueueFrame
  BY <1>15 DEF EnqueueFrame, CallbackOnly
<1>16. CASE AudioFrame
  <2>1. /\ playback' \in {"none", "made", "open"} /\ sounding' \in {"out", "opening"}
        /\ tried' \subseteq {"video", "audio"}
    BY <1>16 DEF AudioFrame
  <2> QED
    BY <1>16, <2>1 DEF AudioFrame
<1>17. CASE OpenPlayback
  BY <1>17 DEF OpenPlayback
<1>18. CASE DecodeNext
  <2>1. /\ threads' \subseteq threads /\ codec' \in {"none", "ready"}
        /\ UNCHANGED <<mainVars, connected, transceivers, shuttingDown, decoder, tried,
                       callbackVars>>
    BY <1>18 DEF DecodeNext, TakeFrame, SetupDecoder, FeedDecoder, DecodeEnds, DecodeOnly
  <2> QED
    BY <2>1
<1>19. CASE UNCHANGED vars
  BY <1>19 DEF vars
<1> QED
  BY <1>1, <1>2, <1>3, <1>4, <1>5, <1>6, <1>7, <1>8, <1>9, <1>11, <1>12, <1>13, <1>14,
     <1>15, <1>16, <1>17, <1>18, <1>19 DEF Next, ReleaseNext
(* What a thread, a callback or an object of a call lasts is kept by every *)
(* step: nothing is started again behind the step of the release that      *)
(* waits for it.                                                           *)
LEMMA PhasesStep ==
  SInv /\ [Next]_vars
    => SendersEnd' /\ CallbacksEnd' /\ ObjectsEnd' /\ EmptyBetween' /\ SetUp' /\ OneBlock'
         /\ NoSecondCall'
<1> SUFFICES ASSUME SInv, [Next]_vars
             PROVE  /\ SendersEnd' /\ CallbacksEnd' /\ ObjectsEnd'
                    /\ EmptyBetween' /\ SetUp'
                    /\ OneBlock' /\ NoSecondCall'
  OBVIOUS
<1> USE DEF SInv, SessionTypeOK, SendersEnd, CallbacksEnd, ObjectsEnd, EmptyBetween, SetUp,
            OneBlock, NoSecondCall, Empty, UpToSound, UpToRender, UpToOutput, UpToVideo, UpToAudio,
            UpToPlayback, UpToJoin, UpToReporter, Release, SendThreads, mainVars, decodeVars,
            callbackVars
<1>1. CASE IncomingCall
  <2>1. SendersEnd' /\ CallbacksEnd' /\ ObjectsEnd'
    BY <1>1 DEF IncomingCall, Idle, BeginRelease
  <2>2. EmptyBetween' /\ SetUp' /\ OneBlock' /\ NoSecondCall'
    BY <1>1 DEF IncomingCall, Idle, BeginRelease
  <2> QED
    BY <2>1, <2>2
<1>2. CASE EndCall
  <2>1. SendersEnd' /\ CallbacksEnd' /\ ObjectsEnd'
    BY <1>2 DEF EndCall, Idle, BeginRelease
  <2>2. EmptyBetween' /\ SetUp' /\ OneBlock' /\ NoSecondCall'
    BY <1>2 DEF EndCall, Idle, BeginRelease
  <2> QED
    BY <2>1, <2>2
<1>3. CASE SurfacesAvailable
  <2>1. SendersEnd' /\ CallbacksEnd' /\ ObjectsEnd'
    BY <1>3 DEF SurfacesAvailable, Idle
  <2>2. EmptyBetween' /\ SetUp' /\ OneBlock' /\ NoSecondCall'
    BY <1>3 DEF SurfacesAvailable, Idle
  <2> QED
    BY <2>1, <2>2
<1>4. CASE SurfacesDestroyed
  <2>1. SendersEnd' /\ CallbacksEnd' /\ ObjectsEnd'
    BY <1>4 DEF SurfacesDestroyed, Idle, BeginRelease, Crash
  <2>2. EmptyBetween' /\ SetUp' /\ OneBlock' /\ NoSecondCall'
    BY <1>4 DEF SurfacesDestroyed, Idle, BeginRelease, Crash
  <2> QED
    BY <2>1, <2>2
<1>5. CASE DestroyView
  <2>1. SendersEnd' /\ CallbacksEnd' /\ ObjectsEnd'
    BY <1>5 DEF DestroyView, Idle, BeginRelease
  <2>2. EmptyBetween' /\ SetUp' /\ OneBlock' /\ NoSecondCall'
    BY <1>5 DEF DestroyView, Idle, BeginRelease
  <2> QED
    BY <2>1, <2>2
<1>6. CASE CreatePeerConnection
  <2>1. CASE session = "gone" /\ Crash("session")
    BY <1>6, <2>1 DEF CreatePeerConnection, Idle, Crash
  <2>2. CASE peer = "set"
    BY <1>6, <2>2 DEF CreatePeerConnection, Idle, Crash
  <2>3. CASE session = "open" /\ peer = "none"
    <3>1. Empty
      BY <1>6, <2>3 DEF CreatePeerConnection, Idle, Crash
    <3>2. /\ peer' = "set" /\ connected' = "no" /\ shuttingDown' = "no" /\ pc' = "add"
          /\ blocks = 1 /\ blocks' = 0
          /\ UNCHANGED <<after, textures, session, crashed, surface, transceivers,
                         threads,
                         decodeVars, callbackVars>>
      BY <1>6, <2>3 DEF CreatePeerConnection, Idle, Crash
    <3> QED
      BY <3>1, <3>2
  <2> QED
    BY <1>6, <2>1, <2>2, <2>3 DEF CreatePeerConnection
<1>7. CASE AddTransceivers
  <2>1. SendersEnd' /\ CallbacksEnd' /\ ObjectsEnd'
    BY <1>7 DEF AddTransceivers, Crash
  <2>2. EmptyBetween' /\ SetUp' /\ OneBlock' /\ NoSecondCall'
    BY <1>7 DEF AddTransceivers, Crash
  <2> QED
    BY <2>1, <2>2
<1>8. CASE StartSend
  <2>1. SendersEnd' /\ CallbacksEnd' /\ ObjectsEnd'
    BY <1>8 DEF StartSend, Crash
  <2>2. EmptyBetween' /\ SetUp' /\ OneBlock' /\ NoSecondCall'
    BY <1>8 DEF StartSend, Crash
  <2> QED
    BY <2>1, <2>2
<1>9. CASE StopCapture
  <2>1. SendersEnd' /\ CallbacksEnd' /\ ObjectsEnd'
    BY <1>9 DEF StopCapture, ReleaseStep
  <2>2. EmptyBetween' /\ SetUp' /\ OneBlock' /\ NoSecondCall'
    BY <1>9 DEF StopCapture, ReleaseStep
  <2> QED
    BY <2>1, <2>2
<1>10. CASE JoinRender
  <2>1. SendersEnd' /\ CallbacksEnd' /\ ObjectsEnd'
    BY <1>10 DEF JoinRender, ReleaseStep
  <2>2. EmptyBetween' /\ SetUp' /\ OneBlock' /\ NoSecondCall'
    BY <1>10 DEF JoinRender, ReleaseStep
  <2> QED
    BY <2>1, <2>2
<1>11. CASE JoinOutput
  <2>1. SendersEnd' /\ CallbacksEnd' /\ ObjectsEnd'
    BY <1>11 DEF JoinOutput, ReleaseStep
  <2>2. EmptyBetween' /\ SetUp' /\ OneBlock' /\ NoSecondCall'
    BY <1>11 DEF JoinOutput, ReleaseStep
  <2> QED
    BY <2>1, <2>2
<1>12. CASE FreeVideo
  <2>1. SendersEnd' /\ CallbacksEnd' /\ ObjectsEnd'
    BY <1>12 DEF FreeVideo, ReleaseStep
  <2>2. EmptyBetween' /\ SetUp' /\ OneBlock' /\ NoSecondCall'
    BY <1>12 DEF FreeVideo, ReleaseStep
  <2> QED
    BY <2>1, <2>2
<1>13. CASE FreeAudio
  <2>1. SendersEnd' /\ CallbacksEnd' /\ ObjectsEnd'
    BY <1>13 DEF FreeAudio, ReleaseStep
  <2>2. EmptyBetween' /\ SetUp' /\ OneBlock' /\ NoSecondCall'
    BY <1>13 DEF FreeAudio, ReleaseStep
  <2> QED
    BY <2>1, <2>2
<1>14. CASE ReleasePlayback
  <2>1. SendersEnd' /\ CallbacksEnd' /\ ObjectsEnd'
    BY <1>14 DEF ReleasePlayback, ReleaseStep
  <2>2. EmptyBetween' /\ SetUp' /\ OneBlock' /\ NoSecondCall'
    BY <1>14 DEF ReleasePlayback, ReleaseStep
  <2> QED
    BY <2>1, <2>2
<1>15. CASE StopDecoder
  <2>1. SendersEnd' /\ CallbacksEnd' /\ ObjectsEnd'
    BY <1>15 DEF StopDecoder, ReleaseStep
  <2>2. EmptyBetween' /\ SetUp' /\ OneBlock' /\ NoSecondCall'
    BY <1>15 DEF StopDecoder, ReleaseStep
  <2> QED
    BY <2>1, <2>2
<1>16. CASE JoinDecoder
  <2>1. SendersEnd' /\ CallbacksEnd' /\ ObjectsEnd'
    BY <1>16 DEF JoinDecoder, ReleaseStep
  <2>2. EmptyBetween' /\ SetUp' /\ OneBlock' /\ NoSecondCall'
    BY <1>16 DEF JoinDecoder, ReleaseStep
  <2> QED
    BY <2>1, <2>2
<1>17. CASE ResetReporter
  <2>1. SendersEnd' /\ CallbacksEnd' /\ ObjectsEnd'
    BY <1>17 DEF ResetReporter, ReleaseStep
  <2>2. EmptyBetween' /\ SetUp' /\ OneBlock' /\ NoSecondCall'
    BY <1>17 DEF ResetReporter, ReleaseStep
  <2> QED
    BY <2>1, <2>2
<1>18. CASE FreePeer
  <2>1. SendersEnd' /\ CallbacksEnd' /\ ObjectsEnd'
    BY <1>18 DEF FreePeer
  <2>2. EmptyBetween' /\ SetUp' /\ OneBlock' /\ NoSecondCall'
    BY <1>18 DEF FreePeer
  <2> QED
    BY <2>1, <2>2
<1>19. CASE ThreadEnds
  <2>1. SendersEnd' /\ CallbacksEnd' /\ ObjectsEnd'
    BY <1>19 DEF ThreadEnds, End, SenderJoined
  <2>2. EmptyBetween' /\ SetUp' /\ OneBlock' /\ NoSecondCall'
    BY <1>19 DEF ThreadEnds, End, SenderJoined
  <2> QED
    BY <2>1, <2>2
<1>20. CASE Connected
  <2>1. SendersEnd' /\ CallbacksEnd' /\ ObjectsEnd'
    BY <1>20 DEF Connected
  <2>2. EmptyBetween' /\ SetUp' /\ OneBlock' /\ NoSecondCall'
    BY <1>20 DEF Connected
  <2> QED
    BY <2>1, <2>2
<1>21. CASE EnqueueFrame
  <2>1. SendersEnd' /\ CallbacksEnd' /\ ObjectsEnd'
    BY <1>21 DEF EnqueueFrame, CallbackOnly
  <2>2. EmptyBetween' /\ SetUp' /\ OneBlock' /\ NoSecondCall'
    BY <1>21 DEF EnqueueFrame, CallbackOnly
  <2> QED
    BY <2>1, <2>2
<1>22. CASE AudioFrame
  <2>1. SendersEnd' /\ CallbacksEnd' /\ ObjectsEnd'
    BY <1>22 DEF AudioFrame
  <2>2. EmptyBetween' /\ SetUp' /\ OneBlock' /\ NoSecondCall'
    BY <1>22 DEF AudioFrame
  <2> QED
    BY <2>1, <2>2
<1>23. CASE OpenPlayback
  <2>1. SendersEnd' /\ CallbacksEnd' /\ ObjectsEnd'
    BY <1>23 DEF OpenPlayback
  <2>2. EmptyBetween' /\ SetUp' /\ OneBlock' /\ NoSecondCall'
    BY <1>23 DEF OpenPlayback
  <2> QED
    BY <2>1, <2>2
<1>24. CASE TakeFrame
  <2>1. SendersEnd' /\ CallbacksEnd' /\ ObjectsEnd'
    BY <1>24 DEF TakeFrame, DecodeOnly
  <2>2. EmptyBetween' /\ SetUp' /\ OneBlock' /\ NoSecondCall'
    BY <1>24 DEF TakeFrame, DecodeOnly
  <2> QED
    BY <2>1, <2>2
<1>25. CASE SetupDecoder
  <2>1. SendersEnd' /\ CallbacksEnd' /\ ObjectsEnd'
    BY <1>25 DEF SetupDecoder, DecodeOnly
  <2>2. EmptyBetween' /\ SetUp' /\ OneBlock' /\ NoSecondCall'
    BY <1>25 DEF SetupDecoder, DecodeOnly
  <2> QED
    BY <2>1, <2>2
<1>26. CASE FeedDecoder
  <2>1. SendersEnd' /\ CallbacksEnd' /\ ObjectsEnd'
    BY <1>26 DEF FeedDecoder, DecodeOnly
  <2>2. EmptyBetween' /\ SetUp' /\ OneBlock' /\ NoSecondCall'
    BY <1>26 DEF FeedDecoder, DecodeOnly
  <2> QED
    BY <2>1, <2>2
<1>27. CASE DecodeEnds
  <2>1. SendersEnd' /\ CallbacksEnd' /\ ObjectsEnd'
    BY <1>27 DEF DecodeEnds, DecodeOnly
  <2>2. EmptyBetween' /\ SetUp' /\ OneBlock' /\ NoSecondCall'
    BY <1>27 DEF DecodeEnds, DecodeOnly
  <2> QED
    BY <2>1, <2>2
<1>28. ASSUME NEW f \in Frames, VideoFrame(f)
       PROVE  /\ SendersEnd' /\ CallbacksEnd' /\ ObjectsEnd'
              /\ EmptyBetween' /\ SetUp'
              /\ OneBlock' /\ NoSecondCall'
  <2>1. /\ pc \in UpToVideo /\ pc' = pc /\ "video" \in transceivers
        /\ transceivers' = transceivers
    BY <1>28 DEF VideoFrame
  <2>2. SendersEnd' /\ CallbacksEnd'
    BY <1>28, <2>1 DEF VideoFrame
  <2>3. ObjectsEnd'
    BY <1>28, <2>1 DEF VideoFrame
  <2>4. EmptyBetween' /\ SetUp' /\ OneBlock' /\ NoSecondCall'
    BY <1>28, <2>1 DEF VideoFrame
  <2> QED
    BY <2>2, <2>3, <2>4
<1>29. CASE UNCHANGED vars
  BY <1>29 DEF vars
<1> HIDE DEF SInv, SessionTypeOK, SendersEnd, CallbacksEnd, ObjectsEnd, EmptyBetween, SetUp,
             OneBlock, NoSecondCall
<1> QED
  BY <1>1, <1>2, <1>3, <1>4, <1>5, <1>6, <1>7, <1>8, <1>9, <1>10, <1>11, <1>12,
     <1>13, <1>14, <1>15, <1>16, <1>17, <1>18, <1>19, <1>20, <1>21, <1>22, <1>23, <1>24,
     <1>25, <1>26, <1>27, <1>28, <1>29
     DEF Next, ReleaseNext, DecodeNext

LEMMA SessionInvariant == Spec => []SInv
<1>1. SInv /\ [Next]_vars => SInv'
  BY TypesStep, PhasesStep DEF SInv
<1> QED
  BY <1>1, InitSInv, PTL DEF Spec

(* Every variable of a session has its type, the frames in the ring too. *)
THEOREM SessionTypeCorrect == Spec => []TypeOK
<1>1. Spec => []FedOK
  <2>1. Init => FedOK
    BY DEF Init, FedOK
  <2> QED
    BY <2>1, FedStep, SessionUsesRing, RingInvariant, PTL DEF Spec
<1>2. Spec => []CallbackFramesOK
  <2>1. Init => CallbackFramesOK
    BY DEF Init, CallbackFramesOK
  <2> QED
    BY <2>1, CallbackFramesStep, PTL DEF Spec
<1>3. SInv /\ FedOK /\ CallbackFramesOK /\ RingTypeOK => TypeOK
  BY DEF SInv, SessionTypeOK, FedOK, CallbackFramesOK, TypeOK
<1> QED
  BY <1>1, <1>2, <1>3, SessionInvariant, SessionUsesRing, RingTypeCorrect, PTL

(* However the release crosses a set-up, a first frame or the start of a   *)
(* thread, nothing of the call is left when it has ended.                  *)
THEOREM ReleaseLeavesNothing == Spec => []NothingLeft
<1>1. SInv => NothingLeft
  BY DEF SInv, EmptyBetween, Empty, NothingLeft
<1> QED
  BY <1>1, SessionInvariant, PTL

(* No thread sends on a freed transceiver. *)
THEOREM SendersAreSafe == Spec => []SendersHaveTransceiver
<1>1. SInv => SendersHaveTransceiver
  BY DEF SInv, SendersEnd, SendersHaveTransceiver
<1> QED
  BY <1>1, SessionInvariant, PTL

(* The decoder never draws on a surface that is gone. *)
THEOREM DecoderHasSurface == Spec => []SurfaceOutlivesDecoder
<1>1. SInv => SurfaceOutlivesDecoder
  BY DEF SInv, ObjectsEnd, SurfaceOutlivesDecoder
<1> QED
  BY <1>1, SessionInvariant, PTL

(* The assertions that a call finds nothing of another never fail. *)
THEOREM CallsDoNotOverlap == Spec => []OneCallAtATime
<1>1. SInv => OneCallAtATime
  BY DEF SInv, NoSecondCall, OneCallAtATime
<1> QED
  BY <1>1, SessionInvariant, PTL
-----------------------------------------------------------------------------
(* The i-th of the frames that wait in the ring. *)
Queued(i) == slots[Wrap(tail + i - 1)]

(* The frames in the ring are newer than what the codec got, older than    *)
(* what the callback brings, and in order.                                 *)
QueueInOrder ==
  /\ \A i, j \in 1 .. Count : i < j => Queued(i) < Queued(j)
  /\ \A i \in 1 .. Count :
       fed < Queued(i) /\ Queued(i) <= last /\ (frame # 0 => Queued(i) < frame)

FrameInOrder == fed <= last /\ frame <= last /\ (frame # 0 => fed < frame)

(* A codec that was made for a key frame finds it in the ring. *)
KeyFirst == codec = "ready" /\ fed = 0 => Count > 0 /\ Queued(1) \in KeyFrames

(* The callback writes its own frame. *)
WriterHasFrame ==
  /\ pushing # "out" => frame # 0
  /\ pushing = "written" => slots[head] = frame

(* While a decoder exists, what it will get is in order. *)
OrderInv ==
  /\ WriterHasFrame
  /\ decoder # "none" => QueueInOrder /\ FrameInOrder /\ KeyFirst

(* What the order of the frames depends on. *)
orderVars == <<head, tail, slots, pushing, decoder, codec, fed, frame, last>>

(* What is compared are numbers. *)
LEMMA OrderTypes ==
  ASSUME RingInv, CallbackFramesOK, FedOK
  PROVE  /\ fed \in Nat /\ frame \in Nat /\ last \in Nat /\ Count \in Nat
         /\ \A i \in 1 .. Count :
              Queued(i) \in Frames /\ Queued(i) \in Nat /\ Queued(i) # 0
         /\ RingTypeOK
<1>1. Count \in Nat /\ RingTypeOK
  BY CountRange DEF RingInv
<1>2. \A i \in 1 .. Count : Queued(i) \in Frames
  BY DEF RingInv, ContentsAreFrames, Queued
<1>3. fed \in Nat /\ frame \in Nat /\ last \in Nat
  BY FramesOK DEF CallbackFramesOK, FedOK
<1>4. \A f \in Frames : f \in Nat /\ f # 0
  BY FramesOK
<1> QED
  BY <1>1, <1>2, <1>3, <1>4

(* The first of the queued frames lies at tail. *)
LEMMA FirstIsAtTail ==
  ASSUME RingTypeOK
  PROVE  Queued(1) = slots[tail]
  BY CapacityOK DEF RingTypeOK, Queued, Wrap, Index

(* The steps that move no frame. *)
LEMMA NothingMoves == OrderInv /\ UNCHANGED orderVars => OrderInv'
  BY DEF OrderInv, orderVars, WriterHasFrame, QueueInOrder, FrameInOrder, KeyFirst,
     Queued, Count

(* The ring is as it was, but for its threads' places. *)
LEMMA QueueStays ==
  ASSUME UNCHANGED <<head, tail, slots>>
  PROVE  Count' = Count /\ \A i \in 1 .. Count : Queued(i)' = Queued(i)
  BY DEF Queued, Count

(* A new frame is newer than all the others, or finds an empty ring. *)
LEMMA VideoFrameKeepsOrder ==
  ASSUME RingInv, CallbackFramesOK, FedOK, SInv, OrderInv, NEW f \in Frames, VideoFrame(f)
  PROVE  OrderInv'
<1>a. /\ fed \in Nat /\ frame \in Nat /\ last \in Nat /\ Count \in Nat /\ f \in Nat /\ f # 0
      /\ \A i \in 1 .. Count : Queued(i) \in Nat
  BY OrderTypes, FramesOK
<1>b. frame = 0 /\ f > last /\ last' = f /\ pushing = "out"
  BY DEF VideoFrame, OrderInv, WriterHasFrame
<1>1. CASE decoder = "none" /\ NewRing /\ codec' = "none" /\ fed' = 0 /\ frame' = f
  <2>1. Count' = 0 /\ pushing' = "out"
    BY <1>1, <1>b DEF NewRing, Count
  <2>2. WriterHasFrame'
    BY <2>1 DEF WriterHasFrame
  <2>3. QueueInOrder' /\ FrameInOrder' /\ KeyFirst'
    BY <1>1, <1>a, <1>b, <2>1 DEF QueueInOrder, FrameInOrder, KeyFirst
  <2> QED
    BY <2>2, <2>3 DEF OrderInv
<1>2. CASE decoder = "none" /\ UNCHANGED <<decodeVars, frame, ringVars>>
  BY <1>2, <1>b DEF decodeVars, ringVars, OrderInv, WriterHasFrame
<1>3. CASE decoder # "none" /\ frame' = f /\ UNCHANGED <<decodeVars, ringVars>>
  <2>1. /\ UNCHANGED <<head, tail, slots>> /\ fed' = fed /\ codec' = codec /\ pushing' = "out"
        /\ Count' = Count /\ \A i \in 1 .. Count : Queued(i)' = Queued(i)
    BY <1>3, <1>b, QueueStays DEF decodeVars, ringVars
  <2>2. QueueInOrder /\ FrameInOrder /\ KeyFirst
    BY <1>3 DEF OrderInv
  <2>3. QueueInOrder'
    BY <1>a, <1>b, <1>3, <2>1, <2>2 DEF QueueInOrder
  <2>4. FrameInOrder'
    BY <1>a, <1>b, <1>3, <2>1, <2>2 DEF FrameInOrder
  <2>5. KeyFirst'
    BY <1>a, <2>1, <2>2 DEF KeyFirst
  <2> QED
    BY <2>1, <2>3, <2>4, <2>5 DEF OrderInv, WriterHasFrame
<1> QED
  BY <1>1, <1>2, <1>3 DEF VideoFrame

(* The frame of the callback goes behind the queued ones. *)
LEMMA EnqueueKeepsOrder ==
  ASSUME RingInv, CallbackFramesOK, FedOK, OrderInv, EnqueueFrame
  PROVE  OrderInv'
<1>a. /\ fed \in Nat /\ frame \in Nat /\ last \in Nat /\ Count \in Nat /\ RingTypeOK
      /\ \A i \in 1 .. Count : Queued(i) \in Nat
  BY OrderTypes
<1>b. UNCHANGED <<decoder, codec, fed, last>> /\ frame # 0
  BY DEF EnqueueFrame, CallbackOnly, decodeVars
<1>1. CASE AcquirePush /\ UNCHANGED frame
  BY <1>1, <1>b DEF AcquirePush, OrderInv, WriterHasFrame, QueueInOrder,
     FrameInOrder,
     KeyFirst, Queued, Count
<1>2. CASE pushing = "out" /\ frame' = 0 /\ UNCHANGED ringVars
  <2>1. Count' = Count /\ \A i \in 1 .. Count : Queued(i)' = Queued(i)
    BY <1>2, QueueStays DEF ringVars
  <2>2. pushing' = "out"
    BY <1>2 DEF ringVars
  <2> QED
    BY <1>2, <1>a, <1>b, <2>1, <2>2 DEF OrderInv, WriterHasFrame, QueueInOrder,
       FrameInOrder, KeyFirst
<1>3. CASE WriteSlot(frame) /\ UNCHANGED frame
  <2>1. head' = head /\ tail' = tail /\ slots' = [slots EXCEPT ![head] = frame] /\ pushing' = "written"
    BY <1>3 DEF WriteSlot
  <2>2. Count' = Count
    BY <2>1 DEF Count
  <2>3. \A i \in 1 .. Count : Queued(i)' = Queued(i)
    BY <1>a, <2>1, QueuedIsNotHead DEF Queued, RingTypeOK, Index
  <2>4. slots'[head'] = frame
    BY <1>a, <2>1 DEF RingTypeOK
  <2> QED
    BY <1>3, <1>a, <1>b, <2>1, <2>2, <2>3, <2>4
       DEF OrderInv, WriterHasFrame, QueueInOrder, FrameInOrder, KeyFirst
<1>4. CASE CommitPush /\ frame' = 0
  <2>1. Count' = Count + 1 /\ Wrap(tail + Count) = head
    BY <1>a, <1>4, PushCount DEF RingInv, WriterHasRoom, CommitPush
  <2>2. slots' = slots /\ tail' = tail /\ pushing' = "out" /\ slots[head] = frame
    BY <1>4 DEF CommitPush, OrderInv, WriterHasFrame
  <2>3. \A i \in 1 .. Count : Queued(i)' = Queued(i)
    BY <2>2 DEF Queued
  <2>4. tail + (Count + 1) - 1 = tail + Count
    BY <1>a DEF RingTypeOK, Index
  <2>5. ASSUME NEW i, i = Count + 1
        PROVE  Queued(i)' = frame
    BY <2>1, <2>2, <2>4, <2>5 DEF Queued
  <2>6. ASSUME decoder # "none"
        PROVE  QueueInOrder' /\ FrameInOrder' /\ KeyFirst'
    <3>1. QueueInOrder /\ FrameInOrder /\ KeyFirst
      BY <2>6 DEF OrderInv
    <3>2. ASSUME NEW i \in 1 .. (Count + 1)
          PROVE  fed < Queued(i)' /\ Queued(i)' <= last
      <4>1. CASE i \in 1 .. Count
        BY <2>3, <3>1, <4>1 DEF QueueInOrder
      <4>2. CASE i = Count + 1
        BY <1>b, <2>5, <3>1, <4>2 DEF FrameInOrder
      <4> QED
        BY <1>a, <3>2, <4>1, <4>2
    <3>3. ASSUME NEW i \in 1 .. (Count + 1), NEW j \in 1 .. (Count + 1), i < j
          PROVE  Queued(i)' < Queued(j)'
      <4>1. i \in 1 .. Count
        BY <1>a, <3>3
      <4>2. CASE j \in 1 .. Count
        BY <2>3, <3>1, <3>3, <4>1, <4>2 DEF QueueInOrder
      <4>3. CASE j = Count + 1
        BY <1>b, <2>3, <2>5, <3>1, <4>1, <4>3 DEF QueueInOrder
      <4> QED
        BY <1>a, <3>3, <4>2, <4>3
    <3>4. QueueInOrder'
      BY <1>b, <1>4, <2>1, <3>2, <3>3 DEF QueueInOrder
    <3>5. FrameInOrder'
      BY <1>a, <1>b, <1>4, <3>1 DEF FrameInOrder
    <3>6. KeyFirst'
      BY <1>a, <1>b, <2>1, <2>3, <3>1 DEF KeyFirst
    <3> QED
      BY <3>4, <3>5, <3>6
  <2> QED
    BY <1>b, <2>2, <2>6 DEF OrderInv, WriterHasFrame
<1> QED
  BY <1>1, <1>2, <1>3, <1>4 DEF EnqueueFrame

(* Taking the first frame, and giving it to the codec or not. *)
LEMMA PopKeepsOrder ==
  ASSUME RingInv, CallbackFramesOK, FedOK, OrderInv, CommitPop, decoder # "none",
         UNCHANGED <<decoder, codec, frame, last>>,
         \/ codec = "none" /\ fed' = fed
         \/ fed' = slots[tail]
  PROVE  /\ OrderInv'
         /\ fed < slots[tail] /\ (fed = 0 /\ codec = "ready" => slots[tail] \in KeyFrames)
<1>a. /\ fed \in Nat /\ frame \in Nat /\ last \in Nat /\ Count \in Nat /\ RingTypeOK
      /\ \A i \in 1 .. Count : Queued(i) \in Nat /\ Queued(i) # 0
  BY OrderTypes
<1>b. QueueInOrder /\ FrameInOrder /\ KeyFirst /\ WriterHasFrame
  BY DEF OrderInv
<1>1. /\ Count' = Count - 1
      /\ \A i \in 1 .. Count - 1 : Wrap(tail' + i - 1) = Wrap(tail + (i + 1) - 1)
  BY <1>a, PopCount DEF RingInv, ReaderHasFrame, CommitPop
<1>2. Count > 0
  BY <1>a, CountRange DEF RingInv, ReaderHasFrame, CommitPop
<1>3. \A i \in 1 .. Count - 1 : Queued(i)' = Queued(i + 1) /\ i + 1 \in 1 .. Count
  BY <1>a, <1>1 DEF Queued, CommitPop
<1>4. Queued(1) = slots[tail] /\ 1 \in 1 .. Count
  BY <1>a, <1>2, FirstIsAtTail
<1>5. fed < slots[tail] /\ slots[tail] <= last /\ (frame # 0 => slots[tail] < frame)
      /\ slots[tail] \in Nat /\ slots[tail] # 0
  BY <1>a, <1>b, <1>4 DEF QueueInOrder
<1>6. fed = 0 /\ codec = "ready" => slots[tail] \in KeyFrames
  BY <1>b, <1>4 DEF KeyFirst
<1>7. \A i \in 1 .. Count - 1 : fed' < Queued(i + 1)
  <2> SUFFICES ASSUME NEW i \in 1 .. Count - 1
               PROVE  fed < Queued(i + 1) /\ slots[tail] < Queued(i + 1)
    OBVIOUS
  <2>1. i + 1 \in 1 .. Count /\ 1 < i + 1
    BY <1>a, <1>3
  <2> QED
    BY <1>b, <1>4, <2>1 DEF QueueInOrder
<1>8. QueueInOrder'
  <2>1. ASSUME NEW i \in 1 .. Count - 1, NEW j \in 1 .. Count - 1, i < j
        PROVE  Queued(i + 1) < Queued(j + 1)
    <3>1. i + 1 < j + 1 /\ i + 1 \in 1 .. Count /\ j + 1 \in 1 .. Count
      BY <1>a, <2>1
    <3> QED
      BY <1>b, <3>1 DEF QueueInOrder
  <2>2. ASSUME NEW i \in 1 .. Count - 1
        PROVE  Queued(i + 1) <= last /\ (frame # 0 => Queued(i + 1) < frame)
    BY <1>b, <1>3 DEF QueueInOrder
  <2> QED
    BY <1>1, <1>3, <1>7, <2>1, <2>2 DEF QueueInOrder
<1>9. FrameInOrder'
  BY <1>a, <1>b, <1>5 DEF FrameInOrder
<1>10. KeyFirst'
  BY <1>5 DEF KeyFirst
<1>11. WriterHasFrame'
  BY <1>b DEF WriterHasFrame, CommitPop
<1> QED
  BY <1>5, <1>6, <1>8, <1>9, <1>10, <1>11 DEF OrderInv

(* The decode thread. *)
LEMMA DecodeKeepsOrder ==
  ASSUME RingInv, CallbackFramesOK, FedOK, SInv, OrderInv, DecodeNext
  PROVE  OrderInv'
<1>a. decoder # "none" /\ UNCHANGED <<decoder, frame, last>>
  BY DEF DecodeNext, TakeFrame, SetupDecoder, FeedDecoder, DecodeEnds, DecodeOnly,
     SInv,
     ObjectsEnd, callbackVars
<1>b. Count \in Nat /\ RingTypeOK /\ QueueInOrder /\ FrameInOrder /\ KeyFirst /\ WriterHasFrame
  BY <1>a, OrderTypes DEF OrderInv
<1>1. CASE (AcquirePop \/ LeavePop) /\ UNCHANGED <<codec, fed>>
  BY <1>1, <1>a, NothingMoves DEF AcquirePop, LeavePop, orderVars
<1>2. CASE slots[tail] \in KeyFrames /\ LeavePop /\ codec' = "ready" /\ fed' = fed
  <2>1. UNCHANGED <<head, tail, slots, pushing>> /\ head # tail
    BY <1>2 DEF LeavePop, RingInv, ReaderHasFrame
  <2>2. Count' = Count /\ \A i \in 1 .. Count : Queued(i)' = Queued(i)
    BY <2>1, QueueStays
  <2>3. Count > 0
    BY <1>b, <2>1, CountRange
  <2>4. Queued(1) = slots[tail] /\ 1 \in 1 .. Count
    BY <1>b, <2>3, FirstIsAtTail
  <2>5. QueueInOrder'
    BY <1>2, <1>a, <1>b, <2>2 DEF QueueInOrder
  <2>6. FrameInOrder'
    BY <1>2, <1>a, <1>b DEF FrameInOrder
  <2>7. KeyFirst'
    BY <1>2, <2>2, <2>3, <2>4 DEF KeyFirst
  <2>8. WriterHasFrame'
    BY <1>a, <1>b, <2>1 DEF WriterHasFrame
  <2> QED
    BY <2>5, <2>6, <2>7, <2>8 DEF OrderInv
<1>3. CASE CommitPop /\ codec = "none" /\ UNCHANGED <<codec, fed>>
  BY <1>3, <1>a, PopKeepsOrder
<1>4. CASE CommitPop /\ fed' = slots[tail] /\ UNCHANGED codec
  BY <1>4, <1>a, PopKeepsOrder
<1>5. CASE codec' = "none" /\ UNCHANGED <<fed, ringVars>>
  <2>1. UNCHANGED <<head, tail, slots, pushing>>
    BY <1>5 DEF ringVars
  <2>2. Count' = Count /\ \A i \in 1 .. Count : Queued(i)' = Queued(i)
    BY <2>1, QueueStays
  <2>3. QueueInOrder' /\ FrameInOrder' /\ KeyFirst' /\ WriterHasFrame'
    BY <1>5, <1>a, <1>b, <2>1, <2>2 DEF QueueInOrder, FrameInOrder, KeyFirst,
       WriterHasFrame
  <2> QED
    BY <2>3 DEF OrderInv
<1> QED
  BY <1>1, <1>2, <1>3, <1>4, <1>5
     DEF DecodeNext, TakeFrame, SetupDecoder, FeedDecoder, DecodeEnds

(* A release gives the decoder up, or leaves frames and ring alone. *)
LEMMA ReleaseKeepsOrder ==
  ASSUME OrderInv, ReleaseNext
  PROVE  OrderInv'
<1>1. UNCHANGED <<head, tail, slots, pushing, codec, fed, frame, last>>
  BY DEF ReleaseNext, ReleaseStep, StopCapture, JoinRender, JoinOutput, FreeVideo,
     FreeAudio,
     ReleasePlayback, StopDecoder, JoinDecoder, ResetReporter, FreePeer, decodeVars,
     callbackVars, ringVars
<1>2. decoder' # "none" => decoder # "none"
  BY DEF ReleaseNext, ReleaseStep, StopCapture, JoinRender, JoinOutput, FreeVideo,
     FreeAudio,
     ReleasePlayback, StopDecoder, JoinDecoder, ResetReporter, FreePeer, decodeVars
<1>3. Count' = Count /\ \A i \in 1 .. Count : Queued(i)' = Queued(i)
  BY <1>1, QueueStays
<1> QED
  BY <1>1, <1>2, <1>3
     DEF OrderInv, WriterHasFrame, QueueInOrder, FrameInOrder, KeyFirst, Queued,
        Count

(* Every step keeps the order. *)
LEMMA OrderStep ==
  RingInv /\ CallbackFramesOK /\ FedOK /\ SInv /\ OrderInv /\ [Next]_vars => OrderInv'
<1> SUFFICES ASSUME RingInv, CallbackFramesOK, FedOK, SInv, OrderInv, [Next]_vars
             PROVE  OrderInv'
  OBVIOUS
<1>1. CASE \/ IncomingCall \/ EndCall \/ SurfacesAvailable \/ SurfacesDestroyed \/ DestroyView
           \/ CreatePeerConnection \/ StartSend
  <2>1. UNCHANGED orderVars
    BY <1>1 DEF IncomingCall, EndCall, SurfacesAvailable, SurfacesDestroyed,
       DestroyView,
       CreatePeerConnection, StartSend, BeginRelease, Crash, orderVars, decodeVars,
       callbackVars, ringVars
  <2> QED
    BY <2>1, NothingMoves
<1>2. CASE AddTransceivers
  <2>1. decoder = "none"
    BY <1>2 DEF AddTransceivers, SInv, ObjectsEnd, UpToJoin, UpToPlayback,
       UpToAudio, UpToVideo,
       UpToOutput, UpToRender, UpToSound
  <2> QED
    BY <1>2, <2>1 DEF AddTransceivers, Crash, OrderInv, WriterHasFrame, decodeVars,
       callbackVars, ringVars
<1>3. CASE ThreadEnds \/ Connected \/ AudioFrame \/ OpenPlayback
  <2>1. UNCHANGED orderVars
    BY <1>3 DEF ThreadEnds, End, Connected, AudioFrame, OpenPlayback, orderVars,
       decodeVars,
       callbackVars, ringVars
  <2> QED
    BY <2>1, NothingMoves
<1>4. CASE UNCHANGED vars
  BY <1>4, NothingMoves DEF vars, orderVars, decodeVars, callbackVars, ringVars
<1> QED
  BY <1>1, <1>2, <1>3, <1>4, ReleaseKeepsOrder, VideoFrameKeepsOrder,
     EnqueueKeepsOrder,
     DecodeKeepsOrder DEF Next

(* What a step may feed. *)
LEMMA StepFeedsInOrder ==
  RingInv /\ CallbackFramesOK /\ FedOK /\ SInv /\ OrderInv /\ [Next]_vars
    => [/\ tail' # tail /\ popping = "acquired" /\ codec = "ready" => fed' = slots[tail]
        /\ fed' \notin {fed, 0} => fed' > fed /\ (fed = 0 => fed' \in KeyFrames)]_vars
<1> SUFFICES ASSUME RingInv, CallbackFramesOK, FedOK, SInv, OrderInv, [Next]_vars
             PROVE  /\ tail' # tail /\ popping = "acquired" /\ codec = "ready"
                        => fed' = slots[tail]
                    /\ fed' \notin {fed, 0} => fed' > fed /\ (fed = 0 => fed' \in KeyFrames)
  OBVIOUS
<1>1. CASE \/ IncomingCall \/ EndCall \/ SurfacesAvailable \/ SurfacesDestroyed \/ DestroyView
           \/ CreatePeerConnection \/ AddTransceivers \/ StartSend
  BY <1>1 DEF IncomingCall, EndCall, SurfacesAvailable, SurfacesDestroyed,
     DestroyView,
     CreatePeerConnection, AddTransceivers, StartSend, BeginRelease, Crash, decodeVars,
     ringVars
<1>2. CASE ReleaseNext
  BY <1>2 DEF ReleaseNext, ReleaseStep, StopCapture, JoinRender, JoinOutput,
     FreeVideo, FreeAudio,
     ReleasePlayback, StopDecoder, JoinDecoder, ResetReporter, FreePeer, decodeVars, ringVars
<1>3. CASE ThreadEnds \/ Connected \/ AudioFrame \/ OpenPlayback
  BY <1>3 DEF ThreadEnds, End, Connected, AudioFrame, OpenPlayback, decodeVars,
     ringVars
<1>4. ASSUME NEW f \in Frames, VideoFrame(f)
      PROVE  fed' \in {fed, 0} /\ (popping = "acquired" => tail' = tail)
  BY <1>4 DEF VideoFrame, NewRing, decodeVars, ringVars
<1>5. CASE EnqueueFrame
  BY <1>5 DEF EnqueueFrame, CallbackOnly, AcquirePush, WriteSlot, CommitPush,
     decodeVars, ringVars
<1>6. CASE TakeFrame \/ SetupDecoder \/ DecodeEnds
  BY <1>6 DEF TakeFrame, SetupDecoder, DecodeEnds, AcquirePop, LeavePop, CommitPop,
     ringVars
<1>7. CASE FeedDecoder
  <2>1. CASE CommitPop /\ fed' = slots[tail]
    <3>1. decoder # "none" /\ codec = "ready" /\ UNCHANGED <<decoder, codec, frame, last>>
      BY <1>7 DEF FeedDecoder, DecodeOnly, SInv, ObjectsEnd, callbackVars
    <3>2. fed < slots[tail] /\ (fed = 0 /\ codec = "ready" => slots[tail] \in KeyFrames)
      BY <2>1, <3>1, PopKeepsOrder
    <3> QED
      BY <2>1, <3>1, <3>2
  <2>2. CASE LeavePop /\ UNCHANGED fed
    BY <2>2 DEF LeavePop
  <2> QED
    BY <1>7, <2>1, <2>2 DEF FeedDecoder
<1>8. CASE UNCHANGED vars
  BY <1>8 DEF vars, decodeVars, ringVars
<1> QED
  BY <1>1, <1>2, <1>3, <1>4, <1>5, <1>6, <1>7, <1>8 DEF Next, DecodeNext

(* The codec gets every queued frame from the first key frame on, once and *)
(* in order, although the decode thread puts frames back.                  *)
THEOREM FramesDecodedInOrder == Spec => DecodedInOrder
<1>1. Init => OrderInv
  BY DEF Init, RingInit, OrderInv, WriterHasFrame
<1>2. Spec => []RingInv
  BY SessionUsesRing, RingInvariant
<1>3. Spec => []CallbackFramesOK
  <2>1. Init => CallbackFramesOK
    BY DEF Init, CallbackFramesOK
  <2> QED
    BY <2>1, CallbackFramesStep, PTL DEF Spec
<1>4. Spec => []FedOK
  <2>1. Init => FedOK
    BY DEF Init, FedOK
  <2> QED
    BY <2>1, FedStep, SessionUsesRing, RingInvariant, PTL DEF Spec
<1> QED
  BY <1>1, <1>2, <1>3, <1>4, SessionInvariant, OrderStep, StepFeedsInOrder, PTL
     DEF Spec, DecodedInOrder
=============================================================================
