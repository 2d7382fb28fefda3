# EasyRTC in TLA+

EasyRTC connects cameras and callers by WebRTC. The repository holds a
WebSocket **signalling server** (`src/signalserver`), a C **device SDK** for
Linux (`src/linux`, on top of a binary `libEasyRTC`), and an **Android**
application with a native media session (`src/android`). This directory models
the parts in which threads, connections and memory meet, checks them with TLC
on small instances, and proves the main results for every instance with TLAPS.

Paths below are relative to `src/`; `SDK/` stands for
`linux/EasyRTC_Open/EasyRTC_Open/`. `PROJECT.json` maps every definition to the
lines it stands for.

## 1. Inventory

| Component | State | Operations | Hard behaviour | Correct when | Model |
|---|---|---|---|---|---|
| Registry of the signalling server, `signalserver/main.cpp` | one `HP_WBSPEER_INFO` per connection (id, role, alive, key); `g_HPWBSPeerInfo_map` from ids to structures | accept, handshake, login, call, offer/answer, list of devices, close | callbacks of different connections run on different threads; structures are read and written outside the lock; a login may take an id over from a connection that is still open; acknowledgements are sent after the lock | the map never points to freed memory; no one loses an entry unnoticed; what clients are told is so; the loser of a takeover goes | `SignalServer`, `Directory` |
| `CRITICAL_SECTION` of the server, `main.cpp:34-80` | a pthread mutex and an owner word `t` | enter, leave | the word is read before the mutex is taken and cleared after it is given back | it is a mutex all the same | `CriticalSection`, `Mutex` |
| Message and SDP parsing, `main.cpp`, `Deserialize.c` | none | checks of one message | lengths | - | nondeterministic `BadMessage` |
| Signalling connection of the SDK, `EasyRTC_websocket.c`, `osthread.c`, `WsHandle.c`, `RTCCaller.c` | flag of the thread object, `pDevice->websocket`, ids, registration status, socket | create, connect, register, call, receive, lose, reconnect, stop | worker and application share flag, pointer and ids without a lock; retries cross late answers; a stop finds the worker anywhere | registered means acknowledged on this connection; a stop joins the worker; a connected device gets registered | `WsClient` |
| List of calls of the SDK, `RTCPeer.c`, `RTCDevice.c`, `WsHandle.c` | linked list of `EASYRTC_PEER_T`, two connections each | call, offer, answer, response, hang-up, send, reap after 30 s, stop, connection state | the worker searches, releases and links without the lock the others hold; pointers are kept across callbacks | no dangling pointer, no leaked connection, one node per call, dead calls go | `PeerList` |
| Audio of the other sides, `RTCDevice.c:857-944`, `linux/common/buff.c` | one byte buffer per device, shared by its calls | append a frame, hand out 20 ms blocks, keep the rest, free | frames of any size; a buffer that is never enlarged; the move of the rest starts at the wrong byte | what a frame brings is handed out in order and without a gap; nothing from outside the buffer | `AudioReframe` |
| Other callbacks of the library, `RTCDevice.c` | - | hand video, data and candidates to the application | candidates after a stop | - | not modelled |
| `libEasyRTC` | - | peer connections, callbacks on threads of its own | - | - | external: how SDK and application use it |
| Android media session, `android/easyrtc/src/main/cpp/session`, `codec`, and the screens that call it, `HomeFragment.kt`, `BaseRtcMediaFragment.kt` | peer connection, transceivers, decoder and playback made lazily, six threads, the surface, `shuttingDown` | set up a call, release it, view and textures come and go, frame callbacks, decode | a release meets callbacks that are creating what it looks for; threads end by flags and are joined in an order; blocks posted to the main thread | nothing is left after a release, nothing outlives what it uses, releases end, frames are decoded in order | `MediaSession` |
| Ring of media frames, `cpp/utils/ringbuffer.hpp` | slots and two indices | acquire and commit on either side | no lock; each side reads the other's index | it is a queue without a data race | `SpscRing`, `FrameFifo` |
| Audio capture, `cpp/capture/audio_capture.cpp` | a pipeline per call, its stream | start, stop, reconnect after the route changed | a detached thread per loss, which may outlive its call; checks made before a stream is opened and again after | every open stream has one owner, a ring one producer but in two cases, none is left | `AudioCapture` |
| Signalling client of the application, `WebSocketManager.kt`, `WebSocketService.kt` | the OkHttp WebSocket in use, a reconnect task, `isReconnecting` | connect, open and log in, close, fail, reconnect with growing delays, shut down | OkHttp calls back on two threads of every connection, tasks run on the main thread and post themselves again, and no field is locked | the client never ends up without a connection and without a task that makes one; the connection in use is logged in | `AppSignalling` |
| Other screens of the application, `IpDirectServer.kt`, `WhipFragment.kt` | - | other ways to exchange the SDP | - | - | not modelled |
| Demo programs | - | show how the SDK is called | - | - | their order of calls is what `WsClient` lets an application do |

**How they interact.** Device and caller keep one WebSocket each to the server.
A device logs in with its configured id; a caller asks for a device and is
given a temporary id. The server answers the caller and asks the device for an
offer, then forwards offer and answer by id. In the SDK one worker thread reads
that WebSocket (`WsClient`) and calls `WebsocketDataHandler`, which enters calls
in the list (`PeerList`) and calls the application back. The application calls
the SDK from threads of its own, and `libEasyRTC` calls it from further threads.
When the socket is silent for a second the worker calls `__ws_idle_callback`,
the reaper of dead calls. `libEasyRTC` delivers the other sides' audio to
`func_audioRtcOnFrame` (`AudioReframe`). In the Android application the main
thread sets a call up and releases it (`MediaSession`); between the library's
threads, the codecs' and the system's audio threads media frames pass through
rings (`SpscRing`, extended by `MediaSession` for the frames to decode), and
the capture stream has reconnect threads of its own (`AudioCapture`). The
application's own WebSocket to the server (`AppSignalling`) delivers calls and
offers to its screens.

`PROJECT.json` lists 40 hazards, each at its line with the properties that
would catch it or the reason why none does yet.

## 2. Modules

| Module | Stands for | Steps are cut at |
|---|---|---|
| `SignalServer` | the handlers of `main.cpp:903-1590` | taking and leaving `g_csHPWBSPeerInfo` |
| `Directory` | abstract: an id has one holder, a claim takes it over and asks the loser to leave | |
| `SignalServer_proofs` | invariant, safety, clients that switch ids, refinement of `Directory` | |
| `CriticalSection` | the macros of `main.cpp:34-80` | every read, write and mutex call |
| `Mutex` | abstract: one owner, who alone gives it back | |
| `CriticalSection_proofs` | mutual exclusion, refinement of `Mutex` | |
| `WsClient` | worker thread, registration, create and stop | everything another thread can see or change |
| `WsClient_proofs` | invariant, registration, stop, requests of a caller | |
| `PeerList` | the list of calls with its four kinds of threads | taking `peerMutex`, callbacks, and the reads and writes made without it |
| `MCPeerList` | symmetry of ids and nodes, for TLC | |
| `PeerList_proofs` | two invariants, one for any application and one for those that do not hang up | |
| `AudioReframe` | `func_audioRtcOnFrame` and `BUFF_T` | one callback is one step |
| `AudioReframe_proofs` | invariant, blocks follow the frame | |
| `SpscRing` | `SpscRingBuffer` | acquiring, writing and committing a slot: every store to an index |
| `FrameFifo` | abstract: a bounded first-in, first-out queue that may be renewed | |
| `MediaSession` | a call of `media_session.cpp` with its threads and callbacks, and the main thread of the screens; extends `SpscRing` | joins, frees, flags and callbacks: everything another thread can see |
| `MediaSession_proofs` | of the ring: invariant, no race, refinement of `FrameFifo`; of the session: it uses the ring as specified, invariant per phase of the release, order of frames | |
| `AudioCapture` | `audio_capture.cpp` | the mutex of the pipeline, opening and closing a stream, the flag |
| `AudioCapture_proofs` | ownership of streams, right to open one | |
| `AppSignalling` | `WebSocketManager.kt:22-129` and `391-413` | every access to a field, and every callback of OkHttp |
| `MCAppSignalling` | symmetry of sockets, for TLC | |
| `AppSignalling_proofs` | invariant, never without a way to connect again, login | |

### SignalServer
A connection's callbacks are serial (HP-Socket), so each has a program counter
`pc[c]` and its structure's fields are functions of the connection. `Login`,
`Insert`, `Lookup`, `Forward` and `Close` are the sections of the lock;
`Connect` and `Describe` are what a handler does before it, `Reply` the send
after it, `Free` the `delete` after it. `kicked` holds the connections
`HP_Server_Disconnect` was called for, `out` what the last step sent. A message
the handler answers with -1 is `BadMessage`: HP-Socket then closes. `issued`
keeps temporary ids from being handed out twice, as `uuid_generate` does; the
size of `TempIds` bounds the callers served. `SwitchIds` says whether a client
may log in under an id other than the one its connection has: the SDK's clients
do not while they stay connected, the protocol lets them.

### CriticalSection
One action per line of the macros. No caller nests its sections, so the
"already inside" branch must never be taken: `NoFalseReentry`.

### WsClient
`flag` is `OSTHREAD_OBJ_T.flag`, `websocket` whether `pDevice->websocket` is
set, `pc` where the worker is, `toServer` and `toClient` the messages under way.
The server answers as `SignalServer` does: a login with an acknowledgement, a
call with one of two answers, a login under the zero id by closing. The network
may break at any time with requests and answers still unread. Sleeps are not
modelled, and five seconds (`Tick`) may pass anywhere in the receive loop.
`DeleteOSThread` is two steps before it waits: `Stop` looks at the flag and
`AskToExit` writes it, with no lock between them. `recvbuf` says whether the
worker could allocate its receive buffer: a worker that could not ends by
itself, so it may end between those two steps.

### PeerList
`list` is the linked list, `live` the memory that is allocated; a node's memory
is reused once freed, and keeps its id, as freed memory does. `Receive`,
`Release`, `Delete`, `Create`, `Link`, `FindNew`, `Tell` and then
`WorkerResponds` or `Connect` are the worker's path through a call or an offer;
only `Delete` holds `peerMutex`. `Tell` is the application's callback. `Send`
and `SendNext` walk the list under the lock, node by node, each under the
node's own lock; `AppResponds`, `Hangup`, `Reap` and `Stop` hold the list's lock
throughout and are one step each. `StateChange` is a thread of `libEasyRTC`.
`AppCalls` chooses what threads of the application do, because what holds
depends on it (section 5). A walk of the list by the worker is one step: what
could be seen in the middle of one is left out. `Deleted` says what
`deletePeerByUUID` leaves, by `IsRest`: the other nodes in their order.

### AudioReframe
A byte is its call and its number, so that a property can say which bytes were
handed out. `SizeFor`, `Start`, `Base`, `End` and `Filled` are `BUFF_MALLOC`
and `BUFF_ENQUEUE` of a frame, `Whole` what the loop hands out, `Moved` the
`memmove`, with `Unknown` for bytes behind the buffer. The buffer belongs to the
device: `Peers` are its calls. That two library threads could be inside at once
is not modelled (a hazard).

### SpscRing
`head` and `tail` are the atomic indices; `pushing` and `popping` say which side
holds a slot between acquiring and committing it. The consumer may leave a slot
(`LeavePop`) and find it again. `NewRing` stands for the ring of a new decoder.
Index stores and loads with release and acquire order are single steps.

### MediaSession
`pc` is the main thread: idle, in the setup of a call, or at one of the ten
steps of `nativeReleasePeerConnection`; `after` is what the code does when the
release returns (post the block of a call, give up the surfaces, delete the
session). `threads` are the session's threads that run: capture and render
threads, the encoder's output thread and its sender, the statistics reporter and
the decode thread. They end some time after `shuttingDown` is set (`End`), and
the release waits for each where the code joins it. `frame` and `sounding` are
the library's video and audio callback. `crashed` records the assertion that
failed, and stops everything. Assumed of the library: `EasyRTC_FreeTransceiver`
returns when no callback of the transceiver runs, one callback of a kind runs at
a time, and frames come after the connection. The codec is its last frame,
`fed`; frames it has no room for stay in the ring. `StartSend` may leave out the
encoder, the encoder's threads or the capture, whose failures the code ignores
or returns after. The decode thread's test of the flags and its `acquirePop` are
one step: a thread that tests just before a release takes one frame at most, as
it may by taking it just before. The view's two textures come and go as one
surface.

### AudioCapture
A reconnect thread is named after the stream whose loss started it; it and the
main thread are openers, each with the call it serves and the stream it holds
and has not stored yet. `strays` is a history variable: the threads that serve a
later call than their stream's, which the code does not tell apart. The data
callback of a stream writes into the ring of the session's current pipeline, not
of the one it was opened for: `Producers` are all the streams that record while
that pipeline runs. A callback that comes between two calls ends its stream for
good; the model lets such a stream go on, which adds producers and hides none.

### AppSignalling
`link` is the state OkHttp keeps of a socket, `at` where its reader and writer
thread are in the listener, `main` where the main thread is in `connect` and in
the task it runs. A task that is replaced or taken out of the field while it is
queued or running can never be removed again, but by a thread that had read it
from the field before (`DropTask`, `RemoveTask`); all such tasks are alike and
count as one, `"lost"`. Delays are not modelled: a queued task may run at any
time. The model covers a client until it is shut down, so `allowReconnect` is
true. `early` and `raced` are history variables for the two properties. A
socket that is over, with both threads out of the listener, is used again as a
new one: `Sockets` bounds the sockets that live at a time, not the connections
made. Assumed of OkHttp: the reader calls `onOpen`, `onClosing` and
`onFailure`, the writer calls `onClosed` once the listener has answered the
close; a socket fails at most once; an exception in `onClosing` becomes an
`onFailure`, and anywhere else ends the program.

## 3. Runs

| Run | Bounds | Shows |
|---|---|---|
| `registry` | 2 connections, 1 device id, 1 temporary id, 2 keys | types; `EntryIsLive`: no dangling or dead entry; `ReachableOrKicked`: nobody dropped in silence; `ToldIsSo`: acknowledgements are true when sent; `EntryLostByCloseOrTakeover`: the loser's late close leaves the new holder alone; `ImplementsDirectory`; `StaleIsResolved`: a connection that lost its id goes, or gets an id again, though it keeps sending |
| `switch_ids` | `SwitchIds = TRUE` | finding 1 |
| `critical_section` | 3 threads | `MutualExclusion`, `NoFalseReentry`, `ImplementsMutex`, `SomeoneEnters` |
| `client` | 2 messages each way | `RegisteredIsAcked`, `GoneWhenStopped`, `StopEnds`: a stop returns, but for one case (section 5); `DeviceRegisters`; `CallIsMade`: a caller given the other side before it registered calls, or loses the connection first |
| `caller_logs_in` | same | finding 2 |
| `calls` | 2 ids, 2 nodes, an application that only sends and accepts in the callback | `NoUseAfterFree`, `NoOrphan`, `UnansweredCallsGo`; `UnknownOnlyIfReplaced`: a response misses its call only between deletion and insertion (`WsHandle.c:471-476`) |
| `calls_app` | 2 ids, 2 nodes (symmetric), an application that answers and hangs up from threads of its own | types; `OneNodePerCall` |
| `hangup_late` | 2 ids, 3 nodes | finding 3 |
| `media_session` | 4 slots (3 usable), 4 frames, frame 2 a key frame | `NothingLeft`, `SendersHaveTransceiver`, `SurfaceOutlivesDecoder`, `OneCallAtATime`; the ring in its place: `NoDataRace`, `HeldFrameStays`, `ImplementsFifo`; `DecodedInOrder`; `ReleaseEnds` |
| `audio_capture` | 3 streams, 2 calls, 2 attempts | `OwnedOnce`; `OneProducer`: who writes to the ring of a call, and when it is one stream (section 5); `StreamsEnd` |
| `audio_reframe` | 2 calls, blocks of 3, frames of 1, 2, 3 and 7 bytes, 7 bytes a call, 3 more in the buffer than two first frames | `RemainderIsShort`, `NothingFromOutside`, `BlocksFollowFrame` |
| `app_signalling` | 2 sockets at a time (symmetric) | types; `NeverSilent`: never without a connection and a task that makes one; `CurrentIsLoggedIn` |

**Why the bounds are enough.** In the server the sections of the lock involve
the calling connection, the holder of the id and nobody else; two connections
take the id from each other again and again, each with callbacks left to finish,
and a connection that has closed is accepted anew. One device id and one
temporary id make them compete; a second key matters to the status of a call.
The theorems cover any number of connections. For the macros, three threads are
one inside, one on its way out that has not cleared the word, and one that reads
it. In the client at most one request is made per registration period, so two in
flight are a retry crossing a late answer. The list needs two calls for a tail
that is not the head and a second node's memory to be reused; three nodes let a
freed node stay unused while others come. In the ring, three usable slots are
one being written, one being read and one between, and with four frames the
indices wrap around; a fourth frame also finds the ring full, the case
`ReleaseEnds` is about. Frames before and after the key frame 2 are dropped and
fed. The session itself is not bounded: calls, views and releases go on for
ever. In the capture three streams are the first one of a call, one a reconnect
thread opens and one for the call that follows while that thread still runs. In
the audio buffer, frames of 1 and 2 bytes leave a rest, 3 is a block, and 7 is
larger than the buffer that a frame of 1 gets (2 * 1 + 3), which is the case of
`buff.c:8`. Two sockets of the application are an old one, whose callbacks still
run, and the new one that replaces it. The theorems lift these bounds for all
but liveness.

**Deadlock** is not checked in `client` and its companions (a stopped client
stops) nor for `PeerList` (a stopped device; and memory for nodes is bounded),
nor in `media_session` (a failed assertion, or a session that was deleted, ends
the application) and `audio_capture` (calls and streams are bounded), nor in
`app_signalling` (the null at `WebSocketManager.kt:406` ends the program, and so
does the silence that `NeverSilent` excuses).

**Fairness.** `SignalServer`: a worker thread finishes the callback it runs
(weak); a close HP-Socket owes (an error was returned, or a disconnection
requested) happens between callbacks however many messages arrive (strong, the
dispatcher drains its commands). `CriticalSection`: a thread that can go on
does; the mutex need not be fair, so only `SomeoneEnters` is claimed and not
that each thread does. `WsClient`: threads run, the server serves, time passes.
The wait for the answer to the upgrade request has no timeout in the code: that
it ends is assumed of the peer. `PeerList`: the worker gets the lock it waits
for, a sender walks on, time passes, and `select` times out again and again
(strong): the reaper runs at no other time, so a server that is away or never
silent keeps dead calls alive. `MediaSession`: every thread is scheduled and
opening a stream returns (weak); nothing is assumed of the user, the view or the
peer. `ReleaseEnds` excuses one state, which the model does reach: the video
callback polls for room in a full ring after the decode thread has gone, while
the release waits for the callback (`video_decoder.cpp:402`). `AudioCapture`:
the threads and the system's close return (weak).

Every property of a passing run has a mutant in `PROJECT.json`: a plausible bug
in a mapped definition that makes TLC find that property violated.

## 4. Proofs

`tlapm` proves, for every value of the constants:

* **SignalServer_proofs**: `RegistryInvariant`, `TypeCorrect`, `EntriesAreLive`,
  `NoSilentLoss`, `AcknowledgementsAreTrue`, `EntriesLostJustly`,
  `ServerImplementsDirectory`, `NobodyHasTwoIds`, `SwitchingOnlyLeavesEntries`.
  The safety properties are not inductive: that a login loses no entry needs
  that a connection has no entry but the one under
  its own id, and that an acknowledgement is true after the lock needs that the
  waiting message names the id the connection still has. The invariant says, per
  connection, what its structure, its waiting request and its waiting reply look
  like at each `pc`, that every entry is held by a connected structure with
  that id, and that who has an id without an entry is being disconnected. It is
  proved per action; the action property and the refinement follow from it.
  What needs `SwitchIds = FALSE` is stated apart, in `OwnIds`: an entry names the
  id its connection goes by. `RegistryInvariant` assumes nothing of the clients,
  only that no entry points to freed memory yet (`[]NothingDangles`, because the
  model takes freed memory for zeroed), and `SwitchingOnlyLeavesEntries` says
  with it what finding 1 does not break. `NothingGetsLoose` discharges that
  assumption for clients that keep their id; the other theorems are about them.
* **CriticalSection_proofs**: `Exclusion`, `EntryOnlyThroughMutex`,
  `MacrosImplementMutex`, for any set of threads. The invariant: who is between
  `Lock` and `Unlock` holds the mutex, and the word names a thread only while
  that thread is between `SetOwner` and `ClearOwner`. So a thread outside never
  reads its own name, and a stale word can only send a thread to the mutex.
* **WsClient_proofs**: `TypeCorrect`, `RegistrationIsTrue`, `StopJoinsWorker`,
  for any bound on the messages in flight. The invariant adds that the flag
  tells where worker and application are, that messages are under way only while
  there is a connection, that only a caller is without an id and that an
  acknowledgement under way, or a status that is set, goes back to a login
  served on this connection. `StopIsHeard` and `RegisteredHasPointer` are what
  `StopEnds` and `DeviceRegisters` rest on: a request to exit stays until the
  worker has ended, and wipes out that end only if the worker had no receive
  buffer; who counts as registered has stored the pointer without which
  `websocketSendData` sends nothing. `CallersWithoutIdOnlyCall` is what remains
  of the comment in finding 2: a caller logs in only once it was given an id.
* **PeerList_proofs**: `CallListTypeCorrect` and `CallHasOneNode` for any
  application, from `ListInv`: listed nodes are allocated and carry different
  ids, and the node the worker is about to link has an id that is not listed.
  `SendersStayInList`, for any application too: a sender is only ever at a listed
  node, so of the pointers of `NoUseAfterFree` only the worker's can be stale.
  `SendersAndWorkerAreSafe`, `CallIsFound` and `StopLeavesNoCall` for an
  application that sends and responds from threads of its own but does not hang
  up, from `StayInv`, which adds that the node the worker works on is listed and
  that every allocated node is listed or in the worker's hands. `NothingIsLost`
  for one that only sends: a second response to a call is given a connection in
  place of the first.
* **MediaSession_proofs**, the ring: `RingTypeCorrect`, `RingHasNoRace`,
  `HeldFrameIsStable`, `RingImplementsFifo`, for any capacity of at least two and
  any frames. The invariant, `RingInv`: who has acquired a slot to write saw the
  ring not full, who has acquired one to read saw it not empty, and neither can
  be undone by the other side. The refinement needs that the contents of the ring
  grow by what is at `head` and shrink by what is at `tail`, with the indices
  wrapping.
* **MediaSession_proofs**, the session: `SessionUsesRing` shows that every step of
  the session is a step of the ring, so `SessionRingCorrect` carries the ring's
  results over. `SessionTypeCorrect`, `ReleaseLeavesNothing`, `SendersAreSafe`,
  `DecoderHasSurface` and `CallsDoNotOverlap` follow from an invariant that
  says, for each step of the release, what is gone from that step on (threads,
  transceivers, callbacks, playback, decoder, peer connection), and why it
  cannot come back: who creates something needs a callback, a callback needs its
  transceiver, and transceivers are made only in a setup that a release
  precedes. `FramesDecodedInOrder` adds, in `OrderInv`, that the queued frames
  increase and lie between the codec's last frame and the callback's, and that a
  codec made for a key frame finds that frame at `tail`.
* **AudioCapture_proofs**: `CaptureTypeCorrect`, `StreamsOwnedOnce` and
  `RingHasOneProducer` for any number of streams, calls and attempts. The last
  needs a notion the code does not name, the right to open a stream for a call:
  it passes from the main thread to the stream it stores, and from a stream to
  the thread that its loss starts. It also needs `CallsInTurn`: no pipeline but
  the session's runs or has a stream, so that a stream from elsewhere is in the
  hand of a thread that will close it.
* **AudioReframe_proofs**: `ReframeTypeCorrect`, `RemainderAlwaysShort`,
  `MoveStaysInside` and `FrameBytesInOrder`, for any sizes of block, buffer and
  frames: arithmetic of the division by the block.
* **AppSignalling_proofs**: `ClientInvariant`, `ClientTypeCorrect`,
  `ClientIsNeverSilent` and `CurrentConnectionIsLoggedIn`, for any number of
  sockets that live at a time. `NeverSilent` looks at a state in which
  everything is over, so it says nothing of the way there; the invariant does.
  A thread that finds `isReconnecting` set leaves the reconnection to others,
  and may, because then a task is queued or running, or somebody is on the way
  to post one (`ReconnectingIsTrue`), with one exception: an `onOpen` between its
  first reset of the flag and its last may already have removed that task. So
  the invariant has to say what becomes of such an `onOpen`: its connection is
  open, or the writer gave it up and the attempt is marked as `raced`
  (`OpeningIsOpen`); and a writer that has reported a failure cannot be at work
  on a connection that is well (`WriterRests`). A login is on its way to the
  newest connection, assigned or not yet (`NewestIsLoggedIn`).

Only model-checked: liveness (`StaleIsResolved`, `SomeoneEnters`, `StopEnds`,
`DeviceRegisters`, `CallIsMade`, `UnansweredCallsGo`, `ReleaseEnds`,
`StreamsEnd`). Every safety property of a passing run is proved. Liveness under
fairness, ENABLED, induction over data and RECURSIVE operators are beyond the
provers used; the modules declare no recursive operator.

## 5. Findings

1. `switch_ids`: the comment at `main.cpp:1048` takes a client that first called
   and then logs in under another id for handled. Its temporary id stays in the
   map, and after the close points to freed memory.
2. `caller_logs_in`: a client without an id is "only a caller"
   (`WsHandle.c:207`), but the answer to a call stores an id whatever its
   status; at the next connection the caller logs in as a device, or, after a
   failed call, is refused again and again.
3. `hangup_late`: a hang-up between the application's callback and
   `EasyRTC_CreatePeer` (`WsHandle.c:382-405`) frees the node through which the
   connection is then made.

Because of 3, the run `calls` claims `NoUseAfterFree`, `NoOrphan` and
`UnknownOnlyIfReplaced` of applications that accept in the callback and do not
hang up; the proofs show the first and the third for applications that respond
from threads of their own as well. `calls_app` shows what holds with any
application.

Beside these, some properties are stated so that they hold, and say exactly
where the code stops short; the hazards quote the lines. `EasyRTC_Caller_Connect`
only writes the device's id down: a client that has registered already, or has an
id of its own, never calls (`CallIsMade`). Besides the two cases of -100 that
`RTCDevice.c:313` names, a response is refused while the worker has deleted the
old node of a call and not yet linked the new one (`UnknownOnlyIfReplaced`). The
rest of an audio frame is moved from the wrong place (`BlocksFollowFrame`: the
damage is confined to those bytes). A release may hang on the full ring of the
decoder (`ReleaseEnds`). A worker that could not allocate its receive buffer may
end after `DeleteOSThread` has found it running and before that writes the flag:
the stop then waits for ever (`StopEnds`, `osthread.c:153`). Two audio callbacks
may share the ring of a call, which is made for one producer, in two cases
(`OneProducer`): a reconnect thread of the last call starts its stream while the
next call runs, and both write until the thread closes it
(`audio_capture.cpp:78-95`); or a stream of the last call is lost during the
next one, whose pipeline its thread then serves (200). When a connection of the application fails while its
own `onOpen` is still running, `stopReconnectTask` removes the task that the
failure has posted, and nothing connects again (`NeverSilent`). A connection
that opens before `newWebSocket` has returned sends its login to the field's
old value (`CurrentIsLoggedIn`).

## 6. Not modelled

Payloads (SDP, candidates, ICE server strings), wire formats, ping frames, the
mbedtls build, `RTC_GetOnlineDevices`, statistics and logging. The final loop of
the server's `main` never ends, so what follows it does not run. `errno` left
over from other calls (`EasyRTC_websocket.c:500`) and the resolution of a walk
of the list into single pointer reads are left out. `libEasyRTC` and HP-Socket
are external. Of the Android application, camera and GL (one thread, no state
other threads change), the loss of the playback stream, the failure to
configure a codec (an assertion), the shutdown of the signalling client, its
polling of online devices and the LiveData it posts to are left out; the
IP-direct and WHIP screens and the demos keep no state worth a model.

Most of the repository's lines are outside the program these models are about:
`llhttp` (generated), the headers of HP-Socket, `tinyxml`, `sonic`, `spdlog`,
the H.264 and H.265 header parsers of the file demo, the dialogs of the Windows
demo, and Kotlin views and layouts. They are vendored, generated, pure functions
of their input, or user interface, and are listed as no component here.

## 7. Plan

In order of weight:

1. `AppSignalling` beyond `shutdown`, whose `allowReconnect` is read before the
   task is posted, and which cannot remove a lost task; the polling of online
   devices, whose flag (`WebSocketManager.kt:280-300`) has races of the same
   kind; and the LiveData of `WebSocketService.kt`, which keeps only the last
   of the values posted before the main thread runs.
2. The playback stream after the pattern of `AudioCapture`: its error callback
   closes it without the mutex (`audio_playback.cpp:120`).
3. Callbacks of the application under `peerMutex` (`RTCDevice.c:1147`: a send
   from START_VIDEO waits for itself) and the candidate callback against
   `RTC_Device_Stop` (`RTCDevice.c:564`), in `PeerList`.
4. `CallSetup`: server, device and caller together. A caller is not listed as a
   device; a device is asked for an offer only after it logged in; a stop from a
   callback.
5. `WsClient`: whether the application learns of every loss.
