------------------------------ MODULE MediaSession ------------------------------
(***************************************************************************)
(* A call in the native media session of the Android application: the main *)
(* thread creates and releases it, threads of its own encode, send, report *)
(* and decode, and the library calls back with the frames of the peer.     *)
(*                                                                         *)
(* The frames to decode pass through the ring of SpscRing.  The library is *)
(* modelled as the code relies on it: a freed transceiver has no callback  *)
(* left, and frames come only after the connection.  Run flags that are    *)
(* cleared after shuttingDown was set are not modelled beside it.          *)
(***************************************************************************)
EXTENDS SpscRing

CONSTANT KeyFrames            (* the frames a decoder can start with *)

ASSUME FramesOK == Frames \subseteq Nat \ {0} /\ KeyFrames \subseteq Frames

VARIABLES
  pc,            (* the main thread: "idle", in a call's setup or in a release *)
  after,         (* what the release under way is for                          *)
  blocks,        (* blocks posted to set up an incoming call                   *)
  textures,      (* the texture views: "up" or "none"                          *)
  session,       (* nativePtr: "open" or "gone"                                *)
  crashed,       (* the assertion that failed, or "no"                         *)
  surface,       (* decoderSurface: "set" or "none"                            *)
  peer,          (* peerConnection: "set" or "none"                            *)
  connected,     (* connectState: "yes" or "no"                                *)
  transceivers,  (* those that exist, of "video" and "audio"                   *)
  shuttingDown,  (* "yes" from a release to the next call                      *)
  threads,       (* the session's threads that run                             *)
  decoder,       (* videoDecoder: "none", "running" or "stopped"               *)
  tried,         (* what was lazily created in this call                       *)
  codec,         (* of the decode thread: "none" or "ready"                    *)
  fed,           (* the last frame the codec got, 0 if none                    *)
  frame,         (* the frame in the video callback, 0 if there is none        *)
  last,          (* last_video_frame_idx                                       *)
  playback,      (* audioPlayback: "none", "made" or "open", with its stream   *)
  sounding       (* the audio callback: "out" or "opening" the stream          *)

mainVars == <<pc, after, blocks, textures, session, crashed, surface, peer>>
decodeVars == <<decoder, tried, codec, fed>>
callbackVars == <<frame, last, playback, sounding>>
vars == <<mainVars, connected, transceivers, shuttingDown, threads, decodeVars,
          callbackVars, ringVars>>

SendThreads == {"capture", "render", "output", "sender"}

Release == {"sound", "render", "output", "freeVideo", "freeAudio", "playback",
            "decoder", "join", "reporter", "freePeer"}

TypeOK ==
  /\ pc \in {"idle", "add", "send"} \cup Release
  /\ after \in {"nothing", "call", "surfaces", "destroy"}
  /\ blocks \in 0 .. 1
  /\ textures \in {"none", "up"} /\ session \in {"open", "gone"}
  /\ crashed \in {"no", "session", "camera", "peer", "transceivers", "threads"}
  /\ surface \in {"none", "set"} /\ peer \in {"none", "set"}
  /\ connected \in {"yes", "no"} /\ shuttingDown \in {"yes", "no"}
  /\ transceivers \subseteq {"video", "audio"}
  /\ threads \subseteq SendThreads \cup {"reporter", "decode"}
  /\ decoder \in {"none", "running", "stopped"}
  /\ tried \subseteq {"video", "audio"}
  /\ codec \in {"none", "ready"}
  /\ {fed, frame, last} \subseteq Frames \cup {0}
  /\ playback \in {"none", "made", "open"} /\ sounding \in {"out", "opening"}
  /\ RingTypeOK

Init ==
  /\ RingInit
  /\ pc = "idle" /\ after = "nothing" /\ blocks = 0
  /\ textures = "none" /\ session = "open" /\ crashed = "no"
  /\ surface = "none" /\ peer = "none" /\ connected = "no"
  /\ transceivers = {} /\ shuttingDown = "no" /\ threads = {}
  /\ decoder = "none" /\ tried = {} /\ codec = "none" /\ fed = 0
  /\ frame = 0 /\ last = 0 /\ playback = "none" /\ sounding = "out"

-----------------------------------------------------------------------------
(* The main thread handles one event of the view after the other. *)
Idle == pc = "idle" /\ crashed = "no"

Crash(assertion) ==
  /\ crashed' = assertion
  /\ UNCHANGED <<pc, after, textures, session, surface, peer, connected, transceivers,
                 shuttingDown, threads, decodeVars, callbackVars, ringVars>>

(* Mutant: the decoder's surface is given up before the call. *)
SurfaceFirst(for) ==
  /\ shuttingDown' = "yes" /\ pc' = "sound" /\ after' = for
  /\ surface' = IF for = "surfaces" THEN "none" ELSE surface
  /\ UNCHANGED <<blocks, textures, session, crashed, peer, connected, transceivers,
                 threads, decodeVars, callbackVars, ringVars>>

(* Mutant: the threads are not told. *)
NotTold(for) ==
  /\ pc' = "sound" /\ after' = for
  /\ UNCHANGED <<blocks, textures, session, crashed, surface, peer, connected,
                 transceivers, shuttingDown, threads, decodeVars, callbackVars, ringVars>>

BeginRelease(for) ==
  /\ shuttingDown' = "yes" /\ pc' = "sound" /\ after' = for
  /\ UNCHANGED <<blocks, textures, session, crashed, surface, peer, connected,
                 transceivers, threads, decodeVars, callbackVars, ringVars>>

(* Mutant: a second call is let in while the first waits for its block. *)
SecondCall ==
  /\ Idle /\ session = "open" /\ blocks < 2
  /\ BeginRelease("call")

(* The signalling client hands over a call; while one is handled, others are ignored. *)
IncomingCall ==
  /\ Idle /\ session = "open" /\ blocks = 0
  /\ BeginRelease("call")

(* The user hangs up, or the connection failed or was closed. *)
EndCall ==
  /\ Idle /\ session = "open"
  /\ BeginRelease("nothing")

SurfacesAvailable ==
  /\ Idle /\ session = "open" /\ textures = "none"
  /\ textures' = "up" /\ surface' = "set"
  /\ UNCHANGED <<pc, after, blocks, session, crashed, peer, connected, transceivers,
                 shuttingDown, threads, decodeVars, callbackVars, ringVars>>

(* The textures may go before or after the view's destruction is told. *)
SurfacesDestroyed ==
  /\ Idle /\ textures = "up"
  /\ IF session = "open" THEN BeginRelease("surfaces")
                         ELSE Crash("session") /\ UNCHANGED blocks

DestroyView ==
  /\ Idle /\ session = "open"
  /\ BeginRelease("destroy")

-----------------------------------------------------------------------------
(* The posted block: createPeerConnection, addTransceivers, startSend. *)
CreatePeerConnection ==
  /\ Idle /\ blocks > 0 /\ blocks' = blocks - 1
  /\ \/ session = "gone" /\ Crash("session")
     \/ session = "open" /\ peer = "set" /\ Crash("peer")
     \/ /\ session = "open" /\ peer = "none"
        /\ peer' = "set" /\ connected' = "no" /\ shuttingDown' = "no" /\ pc' = "add"
        /\ UNCHANGED <<after, textures, session, crashed, surface, transceivers, threads,
                       decodeVars, callbackVars, ringVars>>

AddTransceivers ==
  /\ pc = "add" /\ crashed = "no"
  /\ \/ /\ transceivers # {} \/ "reporter" \in threads
        /\ Crash("transceivers") /\ UNCHANGED blocks
     \/ /\ transceivers = {} /\ "reporter" \notin threads
        /\ transceivers' = {"video", "audio"} /\ threads' = threads \cup {"reporter"}
        /\ last' = 0 /\ tried' = {} /\ pc' = "send"
        /\ UNCHANGED <<after, blocks, textures, session, crashed, surface, peer, connected,
                       shuttingDown, decoder, codec, fed, frame, playback, sounding,
                       ringVars>>

(* The encoder may fail before or after the render thread was started, and *)
(* the audio capture in its turn; the call goes on without them.           *)
StartSend ==
  /\ pc = "send" /\ crashed = "no"
  /\ \/ surface = "none" /\ Crash("camera") /\ UNCHANGED blocks
     \/ /\ surface = "set" /\ SendThreads \cap threads # {}
        /\ Crash("threads") /\ UNCHANGED blocks
     \/ /\ surface = "set" /\ SendThreads \cap threads = {}
        /\ \E started \in {{}, {"render"}, SendThreads \ {"capture"}, SendThreads} :
             threads' = threads \cup started
        /\ pc' = "idle"
        /\ UNCHANGED <<after, blocks, textures, session, crashed, surface, peer, connected,
                       transceivers, shuttingDown, decodeVars, callbackVars, ringVars>>

-----------------------------------------------------------------------------
(* The release, step by step. *)
ReleaseStep(from, to) ==
  /\ pc = from /\ pc' = to
  /\ UNCHANGED <<after, blocks, textures, session, crashed, surface, peer, connected,
                 shuttingDown, threads, tried, codec, fed, frame, last, sounding, ringVars>>

StopCapture ==
  /\ "capture" \notin threads /\ ReleaseStep("sound", "render")
  /\ UNCHANGED <<transceivers, decoder, playback>>

JoinRender ==
  /\ "render" \notin threads /\ ReleaseStep("render", "output")
  /\ UNCHANGED <<transceivers, decoder, playback>>

JoinOutput ==
  /\ "output" \notin threads /\ ReleaseStep("output", "freeVideo")
  /\ UNCHANGED <<transceivers, decoder, playback>>

FreeVideo ==
  /\ frame = 0 /\ ReleaseStep("freeVideo", "freeAudio")
  /\ transceivers' = transceivers \ {"video"}
  /\ UNCHANGED <<decoder, playback>>

FreeAudio ==
  /\ sounding = "out" /\ ReleaseStep("freeAudio", "playback")
  /\ transceivers' = transceivers \ {"audio"}
  /\ UNCHANGED <<decoder, playback>>

ReleasePlayback ==
  /\ ReleaseStep("playback", "decoder") /\ playback' = "none"
  /\ UNCHANGED <<transceivers, decoder>>

StopDecoder ==
  /\ ReleaseStep("decoder", "join")
  /\ decoder' = IF decoder = "none" THEN "none" ELSE "stopped"
  /\ UNCHANGED <<transceivers, playback>>

(* Mutant: the decode thread is left to end by itself. *)
DetachDecoder ==
  /\ ReleaseStep("join", "reporter") /\ decoder' = "none"
  /\ UNCHANGED <<transceivers, playback>>

JoinDecoder ==
  /\ "decode" \notin threads /\ ReleaseStep("join", "reporter") /\ decoder' = "none"
  /\ UNCHANGED <<transceivers, playback>>

ResetReporter ==
  /\ "reporter" \notin threads /\ ReleaseStep("reporter", "freePeer")
  /\ UNCHANGED <<transceivers, decoder, playback>>

(* What the release was for follows at once. *)
FreePeer ==
  /\ pc = "freePeer" /\ pc' = "idle" /\ peer' = "none" /\ after' = "nothing"
  /\ blocks' = IF after = "call" THEN blocks + 1 ELSE blocks
  /\ textures' = IF after = "surfaces" THEN "none" ELSE textures
  /\ surface' = IF after \in {"surfaces", "destroy"} THEN "none" ELSE surface
  /\ session' = IF after = "destroy" THEN "gone" ELSE session
  /\ UNCHANGED <<crashed, connected, transceivers, shuttingDown, threads, decodeVars,
                 callbackVars, ringVars>>

ReleaseNext ==
  \/ StopCapture \/ JoinRender \/ JoinOutput \/ FreeVideo \/ FreeAudio
  \/ ReleasePlayback \/ StopDecoder \/ JoinDecoder \/ ResetReporter \/ FreePeer

-----------------------------------------------------------------------------
(* A thread ends when it sees shuttingDown. *)
End(t) ==
  /\ crashed = "no" /\ t \in threads /\ shuttingDown = "yes"
  /\ threads' = threads \ {t}
  /\ UNCHANGED <<mainVars, connected, transceivers, shuttingDown, decodeVars, callbackVars,
                 ringVars>>

(* Mutant: the output thread does not wait for the sender. *)
NoJoin == TRUE

(* The output thread joins the sender before it ends. *)
SenderJoined ==
  "sender" \notin threads

ThreadEnds ==
  \/ \E t \in {"capture", "render", "sender", "reporter"} : End(t)
  \/ SenderJoined /\ End("output")

-----------------------------------------------------------------------------
(* The library calls back. *)
Connected ==
  /\ crashed = "no" /\ peer = "set" /\ connected = "no" /\ transceivers # {}
  /\ pc \notin {"add", "send"}
  /\ connected' = "yes"
  /\ UNCHANGED <<mainVars, transceivers, shuttingDown, threads, decodeVars, callbackVars,
                 ringVars>>

(* The first frame creates the decoder, if there is a surface to draw on; *)
(* without a decoder the frame is dropped.                                *)
VideoFrame(f) ==
  /\ crashed = "no" /\ connected = "yes" /\ "video" \in transceivers
  /\ frame = 0 /\ f > last /\ last' = f
  /\ \/ /\ decoder = "none" /\ "video" \notin tried /\ surface = "set"
        /\ decoder' = "running" /\ tried' = tried \cup {"video"}
        /\ threads' = threads \cup {"decode"} /\ codec' = "none" /\ fed' = 0
        /\ NewRing /\ frame' = f
     \/ /\ decoder = "none" /\ ("video" \in tried \/ surface = "none")
        /\ UNCHANGED <<decodeVars, threads, frame, ringVars>>
     \/ /\ decoder # "none" /\ frame' = f
        /\ UNCHANGED <<decodeVars, threads, ringVars>>
  /\ UNCHANGED <<mainVars, connected, transceivers, shuttingDown, playback, sounding>>

CallbackOnly ==
  UNCHANGED <<mainVars, connected, transceivers, shuttingDown, threads, decodeVars, last,
              playback, sounding>>

(* The callback polls for room while the decoder runs. *)
EnqueueFrame ==
  /\ crashed = "no" /\ frame # 0 /\ CallbackOnly
  /\ \/ decoder = "running" /\ AcquirePush /\ UNCHANGED frame
     \/ decoder # "running" /\ pushing = "out" /\ frame' = 0 /\ UNCHANGED ringVars
     \/ WriteSlot(frame) /\ UNCHANGED frame
     \/ CommitPush /\ frame' = 0

(* The first frame creates the playback; its stream is opened unless the   *)
(* session is shutting down by then.                                       *)
AudioFrame ==
  /\ crashed = "no" /\ connected = "yes" /\ "audio" \in transceivers /\ sounding = "out"
  /\ \/ /\ playback = "none" /\ "audio" \notin tried
        /\ playback' = "made" /\ tried' = tried \cup {"audio"}
     \/ playback = "made" /\ UNCHANGED <<playback, tried>>
  /\ sounding' = IF shuttingDown = "no" THEN "opening" ELSE "out"
  /\ UNCHANGED <<mainVars, connected, transceivers, shuttingDown, threads, decoder, codec,
                 fed, frame, last, ringVars>>

(* Opening the stream may fail; the next frame tries again. *)
OpenPlayback ==
  /\ crashed = "no" /\ sounding = "opening" /\ sounding' = "out"
  /\ playback' \in {playback, "open"}
  /\ UNCHANGED <<mainVars, connected, transceivers, shuttingDown, threads, decodeVars,
                 frame, last, ringVars>>

-----------------------------------------------------------------------------
(* The decode thread. *)
DecodeOnly ==
  /\ crashed = "no" /\ "decode" \in threads
  /\ UNCHANGED <<mainVars, connected, transceivers, shuttingDown, decoder, tried,
                 callbackVars>>

Decoding == decoder = "running" /\ shuttingDown = "no"

TakeFrame == DecodeOnly /\ Decoding /\ AcquirePop /\ UNCHANGED <<threads, codec, fed>>

(* Frames are dropped up to a key frame, which stays in the ring for the codec. *)
SetupDecoder ==
  /\ DecodeOnly /\ codec = "none" /\ UNCHANGED <<threads, fed>>
  /\ \/ slots[tail] \in KeyFrames /\ LeavePop /\ codec' = "ready"
     \/ slots[tail] \notin KeyFrames /\ CommitPop /\ UNCHANGED codec

(* Mutant: the frame is given up when the codec has no room for it. *)
FeedOnce ==
  /\ DecodeOnly /\ codec = "ready" /\ UNCHANGED <<threads, codec>>
  /\ CommitPop /\ fed' \in {fed, slots[tail]}

(* A frame the codec has no room for stays in the ring. *)
FeedDecoder ==
  /\ DecodeOnly /\ codec = "ready" /\ UNCHANGED <<threads, codec>>
  /\ \/ CommitPop /\ fed' = slots[tail]
     \/ LeavePop /\ UNCHANGED fed

DecodeEnds ==
  /\ DecodeOnly /\ popping = "out" /\ ~Decoding
  /\ threads' = threads \ {"decode"} /\ codec' = "none"
  /\ UNCHANGED <<fed, ringVars>>

DecodeNext == TakeFrame \/ SetupDecoder \/ FeedDecoder \/ DecodeEnds

-----------------------------------------------------------------------------
Next ==
  \/ IncomingCall \/ EndCall \/ SurfacesAvailable \/ SurfacesDestroyed \/ DestroyView
  \/ CreatePeerConnection \/ AddTransceivers \/ StartSend \/ ReleaseNext
  \/ ThreadEnds \/ Connected \/ \E f \in Frames : VideoFrame(f)
  \/ EnqueueFrame \/ AudioFrame \/ OpenPlayback \/ DecodeNext

Spec == Init /\ [][Next]_vars

(* The threads are scheduled.  Nothing is assumed of the user, the view or *)
(* the peer.                                                               *)
FairSpec ==
  /\ Spec
  /\ WF_vars(AddTransceivers) /\ WF_vars(StartSend) /\ WF_vars(ReleaseNext)
  /\ \A t \in {"capture", "render", "sender", "reporter"} : WF_vars(End(t))
  /\ WF_vars(SenderJoined /\ End("output"))
  /\ WF_vars(EnqueueFrame) /\ WF_vars(OpenPlayback) /\ WF_vars(DecodeNext)

-----------------------------------------------------------------------------
(* A released call has left none of its objects, no callback and none of   *)
(* these threads behind, whatever was being created when the release began. *)
(* (A thread that reconnects the capture may be left: AudioCapture.)        *)
NothingLeft ==
  pc = "idle" /\ shuttingDown = "yes" =>
    /\ threads = {} /\ transceivers = {} /\ peer = "none"
    /\ decoder = "none" /\ frame = 0 /\ playback = "none" /\ sounding = "out"

(* The threads that send end before the transceiver they send on is freed. *)
SendersHaveTransceiver ==
  /\ threads \cap {"output", "sender"} # {} => "video" \in transceivers
  /\ "capture" \in threads => "audio" \in transceivers

(* The decoder keeps the surface's bare pointer, so the surface outlives it. *)
SurfaceOutlivesDecoder == decoder # "none" => surface = "set"

(* No call is set up on top of another: the assertions that the peer       *)
(* connection, the transceivers and the threads are new hold.              *)
OneCallAtATime == crashed \notin {"peer", "transceivers", "threads"}

(* The codec gets every queued frame from the first key frame on, once and *)
(* in order, although the decode thread puts frames back.                  *)
DecodedInOrder ==
  [][/\ tail' # tail /\ popping = "acquired" /\ codec = "ready" => fed' = slots[tail]
     /\ fed' \notin {fed, 0} => fed' > fed /\ (fed = 0 => fed' \in KeyFrames)]_vars

(* The callback waits for room in a ring that nobody empties any more: the *)
(* decode thread ended with shuttingDown, and the flag the callback looks  *)
(* at is cleared only after the transceiver is freed.                      *)
StuckInCallback ==
  pc = "freeVideo" /\ frame # 0 /\ Full /\ "decode" \notin threads

(* A release ends, unless a video callback hangs on the full ring. *)
ReleaseEnds == pc \in Release ~> pc = "idle" \/ StuckInCallback
=============================================================================
