------------------------------ MODULE AppSignalling ------------------------------
(***************************************************************************)
(* The signalling client of the Android application (WebSocketManager.kt): *)
(* its connections and the tasks that make them again.                     *)
(*                                                                         *)
(* OkHttp calls the listener from two threads of each socket: the reader   *)
(* reports that the socket opened, closes or failed; once the listener has *)
(* answered a close frame, the writer reports that the socket is closed.   *)
(* Reconnect tasks run on the main thread and post themselves again.       *)
(* Nothing of this is locked, so every access to a field is a step.  The   *)
(* model ends with a shutdown: until then allowReconnect is true.          *)
(*                                                                         *)
(* Of the reconnect tasks only the one in the field can be removed from    *)
(* the queue.  The others are alike and count as one, "lost".              *)
(***************************************************************************)
CONSTANTS
  Sockets,      (* bounds the sockets that live at a time                    *)
  NoSocket      (* null                                                      *)

ASSUME ConstantsOK == NoSocket \notin Sockets

VARIABLES
  webSocket,       (* the socket that messages are sent on                   *)
  isReconnecting,
  reconnectTask,   (* "none" or "task"                                       *)
  posted,          (* the reconnect tasks in the queue of the main thread    *)
  main,            (* where the main thread is; "crashed" ends the program   *)
  running,         (* the task it runs: "none", "task", "lost"               *)
  made,            (* the socket newWebSocket returned, not yet assigned     *)
  link,            (* OkHttp's state of a socket                             *)
  at,              (* where the threads of a socket are in the listener      *)
  loggedIn,        (* the sockets a login was sent on                        *)
  early,           (* history: the sockets that opened before newWebSocket   *)
                   (* had returned                                           *)
  raced            (* history: did onOpen go on for a connection that had    *)
                   (* failed, since the last attempt?                        *)

fields == <<webSocket, isReconnecting, reconnectTask>>
mainVars == <<main, running, made>>
history == <<loggedIn, early, raced>>
vars == <<fields, posted, mainVars, link, at, history>>

Threads == Sockets \X {"reader", "writer"}
Reader(s) == <<s, "reader">>
Writer(s) == <<s, "writer">>

(* onOpen, and attemptReconnect. *)
Opening == {"opened", "remove", "removeTask", "removeLost", "clear", "reset", "register"}
Attempting == {"test", "mark", "drop", "dropTask", "dropLost", "create", "post", "enqueue",
               "enqueueLost"}

TypeOK ==
  /\ webSocket \in Sockets \cup {NoSocket} /\ made \in Sockets \cup {NoSocket}
  /\ isReconnecting \in BOOLEAN
  /\ reconnectTask \in {"none", "task"}
  /\ running \in {"none", "task", "lost"} /\ posted \subseteq {"task", "lost"}
  /\ main \in {"idle", "connect", "assign", "repost", "crashed"}
  /\ link \in [Sockets -> {"unused", "connecting", "open", "closing", "closed", "failed",
                         "broken"}]
  /\ at \in [Threads -> {"out", "read", "closing", "close"} \cup Opening \cup Attempting]
  /\ loggedIn \subseteq Sockets
  /\ early \subseteq Sockets /\ raced \in BOOLEAN
  /\ "task" \in posted \cup {running} => reconnectTask = "task"

(* onCreate of the service is about to connect. *)
Init ==
  /\ webSocket = NoSocket /\ made = NoSocket
  /\ isReconnecting = FALSE
  /\ reconnectTask = "none" /\ posted = {} /\ running = "none"
  /\ main = "connect"
  /\ link = [s \in Sockets |-> "unused"]
  /\ at = [x \in Threads |-> "out"]
  /\ loggedIn = {} /\ early = {} /\ raced = FALSE

-----------------------------------------------------------------------------
(* The field is about to get another value: who holds its task holds one    *)
(* that nobody can remove any more.                                         *)
LostIfTask(t) == IF t = "task" THEN "lost" ELSE t

Forget ==
  /\ posted' = {LostIfTask(t) : t \in posted}
  /\ running' = LostIfTask(running)

LostIfHeld(p) ==
  CASE p = "enqueue" -> "enqueueLost"
    [] p = "dropTask" -> "dropLost"
    [] p = "removeTask" -> "removeLost"
    [] OTHER -> p

Forgotten(a) == [x \in Threads |-> LostIfHeld(a[x])]

(* handler.removeCallbacks for the task that was read from the field.  It   *)
(* takes one of those that have left the field meanwhile, or none: it may   *)
(* be another that is in the queue.                                         *)
RemoveCallbacks == posted' = posted \ {"task"}
RemoveLost      == posted' \in {posted, posted \ {"lost"}}

(* A socket that is over, once its threads are, is as good as a new one. *)
Settled(a) ==
  [s \in Sockets |-> IF /\ link[s] \in {"closed", "failed", "broken"}
                        /\ a[Reader(s)] = "out" /\ a[Writer(s)] = "out"
                     THEN "unused" ELSE link[s]]

Goto(x, from, to) ==
  /\ main # "crashed"
  /\ at[x] = from /\ at' = [at EXCEPT ![x] = to]

(* attemptReconnect, by the threads of OkHttp. *)
TestReconnecting(x) ==
  /\ Goto(x, "test", IF isReconnecting THEN "out" ELSE "mark") /\ link' = Settled(at')
  /\ UNCHANGED <<fields, posted, mainVars, history>>

MarkReconnecting(x) ==
  /\ Goto(x, "mark", "drop")
  /\ isReconnecting' = TRUE
  /\ UNCHANGED <<webSocket, reconnectTask, posted, mainVars, link, history>>

ReadTask(x) ==
  /\ Goto(x, "drop", IF reconnectTask = "task" THEN "dropTask" ELSE "create")
  /\ UNCHANGED <<fields, posted, mainVars, link, history>>

DropTask(x) ==
  /\ \/ Goto(x, "dropTask", "create") /\ RemoveCallbacks
     \/ Goto(x, "dropLost", "create") /\ RemoveLost
  /\ UNCHANGED <<fields, mainVars, link, history>>

CreateTask(x) ==
  /\ main # "crashed" /\ at[x] = "create"
  /\ at' = [Forgotten(at) EXCEPT ![x] = "post"]
  /\ Forget /\ reconnectTask' = "task"
  /\ UNCHANGED <<webSocket, isReconnecting, main, made, link, history>>

(* reconnectTask!! throws when the task was taken out of the field           *)
(* meanwhile.  In onClosing OkHttp catches it and reports a failure, unless  *)
(* it has reported one already; anywhere else it ends the program.           *)
PostTask(x) ==
  /\ main # "crashed" /\ at[x] = "post"
  /\ \/ /\ reconnectTask = "task"
        /\ at' = [at EXCEPT ![x] = "enqueue"] /\ UNCHANGED <<main, link>>
     \/ /\ reconnectTask = "none"
        /\ x = Reader(x[1]) /\ link[x[1]] \in {"closing", "closed"}
        /\ at' = [at EXCEPT ![x] = "test"] /\ link' = [link EXCEPT ![x[1]] = "failed"]
        /\ UNCHANGED main
     \/ /\ reconnectTask = "none" /\ x = Reader(x[1]) /\ link[x[1]] = "broken"
        /\ at' = [at EXCEPT ![x] = "out"] /\ link' = Settled(at') /\ UNCHANGED main
     \/ /\ reconnectTask = "none"
        /\ x = Writer(x[1]) \/ link[x[1]] = "failed"
        /\ main' = "crashed" /\ UNCHANGED <<at, link>>
  /\ UNCHANGED <<fields, posted, running, made, history>>

Enqueue(x) ==
  /\ \/ Goto(x, "enqueue", "out") /\ posted' = posted \cup {"task"}
     \/ Goto(x, "enqueueLost", "out") /\ posted' = posted \cup {"lost"}
  /\ link' = Settled(at')
  /\ UNCHANGED <<fields, mainVars, history>>

Attempt(x) ==
  \/ TestReconnecting(x) \/ MarkReconnecting(x)
  \/ ReadTask(x) \/ DropTask(x) \/ CreateTask(x) \/ PostTask(x) \/ Enqueue(x)

-----------------------------------------------------------------------------
(* What the network and the server do to a socket; the reader reports it. *)
Opens(s) ==
  /\ link[s] = "connecting" /\ Goto(Reader(s), "out", "opened")
  /\ link' = [link EXCEPT ![s] = "open"]
  /\ UNCHANGED <<fields, posted, mainVars, history>>

(* No login is of use on it any more. *)
Over(s) == loggedIn' = loggedIn \ {s} /\ early' = early \ {s}

(* onFailure: the connection is not made, or breaks off. *)
Fails(s) ==
  /\ \/ link[s] = "connecting" /\ Goto(Reader(s), "out", "test")
     \/ link[s] = "open" /\ Goto(Reader(s), "read", "test")
  /\ link' = [link EXCEPT ![s] = "failed"] /\ Over(s)
  /\ UNCHANGED <<fields, posted, mainVars, raced>>

(* onFailure from the writer, which works as soon as there is something to  *)
(* send: the application may have sent before the socket was open, but not  *)
(* before it was assigned.                                                  *)
WriteFails(s) ==
  /\ link[s] \in {"open", "closing"} /\ s # made
  /\ Goto(Writer(s), "out", "test")
  /\ link' = [link EXCEPT ![s] = "broken"] /\ Over(s)
  /\ UNCHANGED <<fields, posted, mainVars, raced>>

(* The reader finds the socket that the writer gave up. *)
ReaderEnds(s) ==
  /\ link[s] = "broken" /\ Goto(Reader(s), "read", "out")
  /\ link' = Settled(at')
  /\ UNCHANGED <<fields, posted, mainVars, history>>

ServerCloses(s) ==
  /\ link[s] = "open" /\ Goto(Reader(s), "read", "closing")
  /\ link' = [link EXCEPT ![s] = "closing"] /\ Over(s)
  /\ UNCHANGED <<fields, posted, mainVars, raced>>

(* onClosing answers the close frame, which the writer sends; then both go  *)
(* for a reconnection.                                                      *)
OnClosing(s) ==
  /\ main # "crashed" /\ at[Reader(s)] = "closing"
  /\ at' = [at EXCEPT ![Reader(s)] = "test",
                      ![Writer(s)] = IF link[s] = "closing" THEN "close" ELSE @]
  /\ UNCHANGED <<fields, posted, mainVars, link, history>>

(* onClosed, or onFailure if the frame cannot be sent. *)
OnClosed(s) ==
  /\ \/ /\ link[s] = "closing" /\ Goto(Writer(s), "close", "test")
        /\ \E l \in {"closed", "broken"} : link' = [link EXCEPT ![s] = l]
     \/ link[s] # "closing" /\ Goto(Writer(s), "close", "out") /\ link' = Settled(at')
  /\ UNCHANGED <<fields, posted, mainVars, history>>

Network(s) ==
  \/ Opens(s) \/ Fails(s) \/ WriteFails(s) \/ ReaderEnds(s)
  \/ ServerCloses(s) \/ OnClosing(s) \/ OnClosed(s)

-----------------------------------------------------------------------------
(* onOpen: stopReconnectTask in its steps, and register.  The login goes to *)
(* the socket in the field, whichever that is.                              *)
Overtaken(s) == raced' = (raced \/ link[s] = "broken")

OnOpen(s) ==
  /\ Goto(Reader(s), "opened", "remove")
  /\ isReconnecting' = FALSE
  /\ UNCHANGED <<webSocket, reconnectTask, posted, mainVars, link, history>>

FindTask(s) ==
  /\ Goto(Reader(s), "remove", IF reconnectTask = "task" THEN "removeTask" ELSE "clear")
  /\ UNCHANGED <<fields, posted, mainVars, link, history>>

RemoveTask(s) ==
  /\ \/ Goto(Reader(s), "removeTask", "clear") /\ RemoveCallbacks
     \/ Goto(Reader(s), "removeLost", "clear") /\ RemoveLost
  /\ Overtaken(s)
  /\ UNCHANGED <<fields, mainVars, link, loggedIn, early>>

ClearTask(s) ==
  /\ main # "crashed" /\ at[Reader(s)] = "clear"
  /\ at' = [Forgotten(at) EXCEPT ![Reader(s)] = "reset"]
  /\ Forget /\ reconnectTask' = "none" /\ Overtaken(s)
  /\ UNCHANGED <<webSocket, isReconnecting, main, made, link, loggedIn, early>>

(* Mutant: the flag is left to the reset that onOpen began with. *)
ResetNothing(s) ==
  /\ Goto(Reader(s), "reset", "register") /\ Overtaken(s)
  /\ UNCHANGED <<fields, posted, mainVars, link, loggedIn, early>>

ResetReconnecting(s) ==
  /\ Goto(Reader(s), "reset", "register")
  /\ isReconnecting' = FALSE /\ Overtaken(s)
  /\ UNCHANGED <<webSocket, reconnectTask, posted, mainVars, link, loggedIn, early>>

(* Mutant: only the first connection logs in. *)
RegisterOnce(s) ==
  /\ Goto(Reader(s), "register", "read")
  /\ loggedIn' = IF loggedIn = {} THEN {webSocket} \cap Sockets ELSE loggedIn
  /\ UNCHANGED <<fields, posted, mainVars, link, early, raced>>

Register(s) ==
  /\ Goto(Reader(s), "register", "read")
  /\ loggedIn' = loggedIn \cup
                   {t \in {webSocket} \cap Sockets : link[t] \in {"connecting", "open"}}
  /\ early' = IF made = s THEN early \cup {s} ELSE early
  /\ UNCHANGED <<fields, posted, mainVars, link, raced>>

Opened(s) ==
  OnOpen(s) \/ FindTask(s) \/ RemoveTask(s) \/ ClearTask(s) \/ ResetReconnecting(s) \/ Register(s)

-----------------------------------------------------------------------------
MainGoes(from, to) == main = from /\ main' = to

Unused(s) == s # webSocket /\ link[s] = "unused"

(* connect *)
NewWebSocket ==
  /\ MainGoes("connect", "assign")
  /\ \E s \in Sockets :
       /\ Unused(s) /\ made' = s
       /\ link' = [link EXCEPT ![s] = "connecting"] /\ raced' = FALSE
  /\ UNCHANGED <<fields, posted, running, at, loggedIn, early>>

(* Mutant: whoever connects posts its task again. *)
AssignAndRepost ==
  /\ MainGoes("assign", "repost")
  /\ webSocket' = made /\ made' = NoSocket
  /\ UNCHANGED <<isReconnecting, reconnectTask, posted, running, link, at, history>>

Assign ==
  /\ MainGoes("assign", IF running = "none" THEN "idle" ELSE "repost")
  /\ webSocket' = made /\ made' = NoSocket
  /\ UNCHANGED <<isReconnecting, reconnectTask, posted, running, link, at, history>>

(* run of a reconnect task *)
RunTask ==
  /\ MainGoes("idle", "connect")
  /\ \E t \in posted : running' = t /\ posted' = posted \ {t}
  /\ UNCHANGED <<fields, made, link, at, history>>

Repost ==
  /\ MainGoes("repost", "idle")
  /\ posted' = posted \cup {running} /\ running' = "none"
  /\ UNCHANGED <<fields, made, link, at, history>>

MainThread == NewWebSocket \/ Assign \/ RunTask \/ Repost

Next ==
  \/ MainThread
  \/ \E x \in Threads : Attempt(x)
  \/ \E s \in Sockets : Network(s) \/ Opened(s)

Spec == Init /\ [][Next]_vars

-----------------------------------------------------------------------------
(* Nothing is left that could call back or connect. *)
Silent ==
  /\ main = "idle" /\ posted = {}
  /\ \A s \in Sockets : link[s] \notin {"connecting", "open", "closing"}
  /\ \A x \in Threads : at[x] = "out"

(* However the callbacks of old and new connections and the tasks cross,    *)
(* the client never ends up without a connection and without a task that    *)
(* makes one.  The exception is a connection that fails under its own       *)
(* onOpen, which then removes the task that the failure, or a later attempt, *)
(* has posted.                                                              *)
NeverSilent == Silent => raced

(* The connection that messages are sent on is logged in once onOpen is     *)
(* through, although onOpen logs in on whatever connection is the newest,   *)
(* unless it opened before newWebSocket had returned.                       *)
CurrentIsLoggedIn ==
  \A s \in Sockets :
    s = webSocket /\ link[s] = "open" /\ at[Reader(s)] = "read"
      => s \in loggedIn \cup early
=============================================================================
