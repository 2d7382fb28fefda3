-------------------------- MODULE AppSignalling_proofs --------------------------
(***************************************************************************)
(* Proofs about AppSignalling, for any number of connections that live at  *)
(* a time: however the callbacks of OkHttp and the reconnect tasks cross,  *)
(* something is left that connects again.                                  *)
(***************************************************************************)
EXTENDS AppSignalling, TLAPS

(* Whose at is what the listener does. *)
ThreadFacts ==
  /\ \A s \in Sockets : Reader(s) \in Threads /\ Writer(s) \in Threads
  /\ \A s \in Sockets : Reader(s)[1] = s /\ Writer(s)[1] = s
  /\ \A s, t \in Sockets : Reader(s) # Writer(t)
  /\ \A s, t \in Sockets : Reader(s) = Reader(t) \/ Writer(s) = Writer(t) => s = t
  /\ \A x \in Threads : x[1] \in Sockets /\ x \in {Reader(x[1]), Writer(x[1])}

(* A thread is the reader or the writer of one socket. *)
LEMMA ThreadsOfSockets == ThreadFacts
BY DEF ThreadFacts, Threads, Reader, Writer

-----------------------------------------------------------------------------
(***************************************************************************)
(* The invariant.  Its first part says what is never mixed up: the task    *)
(* in the queue is the one in the field, and so is the one a thread is     *)
(* about to post.                                                          *)
(***************************************************************************)
EnqueuedIsTask == \A x \in Threads : at[x] = "enqueue" => reconnectTask = "task"

RepostedIsTask == main = "repost" => running # "none"

TypeInv == TypeOK /\ EnqueuedIsTask /\ RepostedIsTask

(* onOpen runs on a connection that is open, or that the writer gave up. *)
OpeningIsOpen ==
  \A s \in Sockets : at[Reader(s)] \in Opening => link[s] \in {"open", "broken"}

(* The writer reports nothing of a connection that is well, nor of one that *)
(* is closing before the listener has answered the close frame.             *)
WriterRests ==
  \A s \in Sockets :
    (\/ link[s] \in {"unused", "connecting", "open"}
     \/ link[s] = "closing" /\ at[Reader(s)] = "closing") => at[Writer(s)] = "out"

(***************************************************************************)
(* A task is queued or running, or a thread is on its way to post one, or  *)
(* an onOpen is on its way to reset isReconnecting.  It is this last case  *)
(* that makes isReconnecting no proof of a task by itself.                 *)
(***************************************************************************)
Posting ==
  \E x \in Threads : \/ at[x] \in {"drop", "dropTask", "dropLost", "create", "enqueue",
                                   "enqueueLost"}
                     \/ at[x] = "post" /\ reconnectTask = "task"

Undoing ==
  \E s \in Sockets :
    at[Reader(s)] \in {"opened", "remove", "removeTask", "removeLost", "clear", "reset"}

TaskLives == posted # {} \/ (main # "idle" /\ running # "none") \/ Posting \/ Undoing

ReconnectingIsTrue == main # "crashed" /\ isReconnecting => TaskLives

(* So who finds isReconnecting set may leave the reconnection to others. *)
Deciding == \E x \in Threads : at[x] \in {"test", "mark"}

Connected == \E s \in Sockets : link[s] \in {"connecting", "open", "closing"}

Alive ==
  main = "crashed" \/ raced \/ main = "connect" \/ TaskLives \/ Deciding \/ Connected

(* The newest connection is logged in, before and after it is assigned. *)
NewestIsLoggedIn ==
  \A s \in Sockets :
    s \in {webSocket, made} /\ link[s] = "open" /\ at[Reader(s)] = "read"
      => s \in loggedIn \cup early

IInv ==
  /\ TypeInv /\ OpeningIsOpen /\ WriterRests
  /\ ReconnectingIsTrue /\ Alive /\ NewestIsLoggedIn

-----------------------------------------------------------------------------
(* The client starts with the first connection to be made. *)
LEMMA InitIInv == Init => IInv
<1> SUFFICES ASSUME Init
             PROVE  IInv
  OBVIOUS
<1>1. TypeInv
  BY DEF Init, TypeInv, TypeOK, EnqueuedIsTask, RepostedIsTask
<1>2. \A s \in Sockets : at[Reader(s)] = "out" /\ at[Writer(s)] = "out"
  BY ThreadsOfSockets DEF Init, ThreadFacts
<1> QED
  BY <1>1, <1>2 DEF Init, IInv, OpeningIsOpen, WriterRests, ReconnectingIsTrue, Alive,
     NewestIsLoggedIn,
     Opening

(* Types, one step at a time. *)
LEMMA TypeStep ==
  ASSUME TypeInv, Next
  PROVE  TypeInv'
<1> USE DEF TypeInv, TypeOK, EnqueuedIsTask, RepostedIsTask, fields, mainVars, history
<1>1. ASSUME NEW x \in Threads, Attempt(x)
      PROVE  TypeInv'
  <2>1. x[1] \in Sockets
    BY ThreadsOfSockets DEF ThreadFacts
  <2>2. CASE TestReconnecting(x)
    BY <2>2 DEF TestReconnecting, Goto, Settled, Attempting
  <2>3. CASE MarkReconnecting(x)
    BY <2>3 DEF MarkReconnecting, Goto, Attempting
  <2>4. CASE ReadTask(x) \/ DropTask(x)
    BY <2>4 DEF ReadTask, DropTask, Goto, RemoveCallbacks, RemoveLost, Attempting
  <2>5. CASE CreateTask(x)
    <3>1. /\ posted' \subseteq {"task", "lost"} /\ running' \in {"none", "task", "lost"}
          /\ running # "none" => running' # "none"
      BY <2>5 DEF CreateTask, Forget, LostIfTask
    <3>2. at' \in [Threads -> {"out", "read", "closing", "close"} \cup Opening \cup Attempting]
      BY <2>5 DEF CreateTask, Forgotten, LostIfHeld, Opening, Attempting
    <3> QED
      BY <2>5, <3>1, <3>2 DEF CreateTask
  <2>6. CASE PostTask(x)
    BY <2>1, <2>6 DEF PostTask, Settled, Attempting
  <2>7. CASE Enqueue(x)
    BY <2>7 DEF Enqueue, Goto, Settled, Attempting
  <2> QED
    BY <1>1, <2>2, <2>3, <2>4, <2>5, <2>6, <2>7 DEF Attempt
<1>2. ASSUME NEW s \in Sockets, Network(s)
      PROVE  TypeInv'
  <2>1. Reader(s) \in Threads /\ Writer(s) \in Threads
    BY ThreadsOfSockets DEF ThreadFacts
  <2>2. CASE Opens(s)
    BY <2>1, <2>2 DEF Opens, Goto, Opening
  <2>3. CASE Fails(s)
    BY <2>1, <2>3 DEF Fails, Goto, Over, Attempting
  <2>4. CASE WriteFails(s)
    BY <2>1, <2>4 DEF WriteFails, Goto, Over, Attempting
  <2>5. CASE ReaderEnds(s)
    BY <2>1, <2>5 DEF ReaderEnds, Goto, Settled
  <2>6. CASE ServerCloses(s)
    BY <2>1, <2>6 DEF ServerCloses, Goto, Over
  <2>7. CASE OnClosing(s)
    BY <2>1, <2>7 DEF OnClosing, Attempting
  <2>8. CASE OnClosed(s)
    BY <2>1, <2>8 DEF OnClosed, Goto, Settled, Attempting
  <2> QED
    BY <1>2, <2>2, <2>3, <2>4, <2>5, <2>6, <2>7, <2>8 DEF Network
<1>3. ASSUME NEW s \in Sockets, Opened(s)
      PROVE  TypeInv'
  <2>1. Reader(s) \in Threads
    BY ThreadsOfSockets DEF ThreadFacts
  <2>2. CASE OnOpen(s)
    BY <2>1, <2>2 DEF OnOpen, Goto, Opening
  <2>3. CASE FindTask(s) \/ RemoveTask(s)
    BY <2>1, <2>3 DEF FindTask, RemoveTask, Goto, RemoveCallbacks, RemoveLost, Overtaken, Opening
  <2>4. CASE ClearTask(s)
    <3>1. "task" \notin posted' /\ running' # "task" /\ posted' \subseteq {"task", "lost"}
      BY <2>4 DEF ClearTask, Forget, LostIfTask
    <3>2. /\ at' \in [Threads -> {"out", "read", "closing", "close"} \cup Opening
                                   \cup Attempting]
          /\ \A x \in Threads : at'[x] # "enqueue"
      BY <2>1, <2>4 DEF ClearTask, Forgotten, LostIfHeld, Opening, Attempting
    <3>3. raced' \in BOOLEAN
      BY <2>4 DEF ClearTask, Overtaken
    <3>4. running' \in {"none", "task", "lost"} /\ (running # "none" => running' # "none")
      BY <2>4 DEF ClearTask, Forget, LostIfTask
    <3> QED
      BY <2>4, <3>1, <3>2, <3>3, <3>4 DEF ClearTask
  <2>5. CASE ResetReconnecting(s)
    BY <2>1, <2>5 DEF ResetReconnecting, Goto, Overtaken, Opening
  <2>6. CASE Register(s)
    BY <2>1, <2>6 DEF Register, Goto
  <2> QED
    BY <1>3, <2>2, <2>3, <2>4, <2>5, <2>6 DEF Opened
<1>4. ASSUME MainThread
      PROVE  TypeInv'
  BY <1>4 DEF MainThread, NewWebSocket, Assign, RunTask, Repost, MainGoes
<1> QED
  BY <1>1, <1>2, <1>3, <1>4 DEF Next

(* A socket that is used again was over. *)
LEMMA SettledOnlyEnds ==
  ASSUME TypeInv, NEW a, NEW s \in Sockets
  PROVE  /\ link[s] \notin {"closed", "failed", "broken"} => Settled(a)[s] = link[s]
         /\ a[Reader(s)] # "out" => Settled(a)[s] = link[s]
BY DEF Settled

(* A step of attemptReconnect takes its thread on, or out of it; another   *)
(* thread is not moved, but may hold a task that has left the field.       *)
LEMMA AttemptMovesOne ==
  ASSUME TypeInv, NEW x \in Threads, Attempt(x)
  PROVE  /\ at[x] \in Attempting /\ at'[x] \in Attempting \cup {"out"}
         /\ \A y \in Threads : y # x => at'[y] \in {at[y], LostIfHeld(at[y])}
<1> USE DEF TypeInv, TypeOK, Attempting
<1>1. CASE CreateTask(x)
  BY <1>1 DEF CreateTask, Forgotten, LostIfHeld
<1>2. CASE PostTask(x)
  BY <1>2 DEF PostTask
<1>3. CASE \/ TestReconnecting(x) \/ MarkReconnecting(x) \/ ReadTask(x) \/ DropTask(x)
           \/ Enqueue(x)
  BY <1>3 DEF TestReconnecting, MarkReconnecting, ReadTask, DropTask, Enqueue, Goto
<1> QED
  BY <1>1, <1>2, <1>3 DEF Attempt

(* onOpen begins on an open connection, which only the writer can end      *)
(* before onOpen is over.                                                  *)
LEMMA OpeningStep ==
  ASSUME TypeInv, OpeningIsOpen, Next
  PROVE  OpeningIsOpen'
<1> USE ThreadsOfSockets DEF TypeInv, TypeOK, OpeningIsOpen, Opening, ThreadFacts
<1>1. ASSUME NEW x \in Threads, Attempt(x)
      PROVE  OpeningIsOpen'
  <2> SUFFICES ASSUME NEW s \in Sockets, at'[Reader(s)] \in Opening
               PROVE  link'[s] \in {"open", "broken"}
    OBVIOUS
  <2>1. x # Reader(s) /\ at[Reader(s)] \in Opening
    BY <1>1, AttemptMovesOne DEF Attempting, LostIfHeld
  <2>2. link[s] \in {"open", "broken"} /\ at'[Reader(s)] # "out"
    BY <2>1
  <2>3. CASE TestReconnecting(x) \/ Enqueue(x)
    BY <2>2, <2>3, SettledOnlyEnds DEF TestReconnecting, Enqueue
  <2>4. CASE PostTask(x)
    BY <2>1, <2>2, <2>4, SettledOnlyEnds DEF PostTask
  <2>5. CASE MarkReconnecting(x) \/ ReadTask(x) \/ DropTask(x) \/ CreateTask(x)
    BY <2>2, <2>5 DEF MarkReconnecting, ReadTask, DropTask, CreateTask
  <2> QED
    BY <1>1, <2>3, <2>4, <2>5 DEF Attempt
<1>2. ASSUME NEW t \in Sockets, Network(t)
      PROVE  OpeningIsOpen'
  <2> SUFFICES ASSUME NEW s \in Sockets, at'[Reader(s)] \in Opening
               PROVE  link'[s] \in {"open", "broken"}
    OBVIOUS
  <2>1. CASE Opens(t)
    BY <2>1 DEF Opens, Goto
  <2>2. CASE Fails(t) \/ WriteFails(t) \/ ServerCloses(t)
    BY <2>2 DEF Fails, WriteFails, ServerCloses, Goto
  <2>3. CASE ReaderEnds(t)
    <3>1. link[s] \in {"open", "broken"} /\ at'[Reader(s)] # "out"
      BY <2>3 DEF ReaderEnds, Goto
    <3> QED
      BY <2>3, <3>1, SettledOnlyEnds DEF ReaderEnds
  <2>4. CASE OnClosing(t)
    BY <2>4 DEF OnClosing
  <2>5. CASE OnClosed(t)
    BY <2>5, SettledOnlyEnds DEF OnClosed, Goto
  <2> QED
    BY <1>2, <2>1, <2>2, <2>3, <2>4, <2>5 DEF Network
<1>3. ASSUME NEW t \in Sockets, Opened(t)
      PROVE  OpeningIsOpen'
  <2>1. link' = link
    BY <1>3 DEF Opened, OnOpen, FindTask, RemoveTask, ClearTask, ResetReconnecting, Register
  <2>2. CASE ClearTask(t)
    BY <2>1, <2>2 DEF ClearTask, Forgotten, LostIfHeld
  <2>3. CASE OnOpen(t) \/ FindTask(t) \/ RemoveTask(t) \/ ResetReconnecting(t) \/ Register(t)
    BY <2>1, <2>3 DEF OnOpen, FindTask, RemoveTask, ResetReconnecting, Register, Goto
  <2> QED
    BY <1>3, <2>2, <2>3 DEF Opened
<1>4. ASSUME MainThread
      PROVE  OpeningIsOpen'
  <2>1. at' = at
    BY <1>4 DEF MainThread, NewWebSocket, Assign, RunTask, Repost
  <2>2. CASE NewWebSocket
    BY <2>1, <2>2 DEF NewWebSocket, Unused
  <2> QED
    BY <1>4, <2>1, <2>2 DEF MainThread, Assign, RunTask, Repost
<1> QED
  BY <1>1, <1>2, <1>3, <1>4 DEF Next

(* The writer is busy only with a connection that is over, or has been     *)
(* told to close.                                                          *)
LEMMA WriterStep ==
  ASSUME TypeInv, WriterRests, Next
  PROVE  WriterRests'
<1> USE ThreadsOfSockets DEF TypeInv, TypeOK, WriterRests, ThreadFacts
<1> SUFFICES ASSUME NEW s \in Sockets,
                    \/ link'[s] \in {"unused", "connecting", "open"}
                    \/ link'[s] = "closing" /\ at'[Reader(s)] = "closing"
             PROVE  at'[Writer(s)] = "out"
  OBVIOUS
<1>1. ASSUME NEW x \in Threads, Attempt(x)
      PROVE  at'[Writer(s)] = "out"
  <2>1. at'[Writer(s)] = "out" \/ link'[s] = link[s]
    <3>1. CASE TestReconnecting(x) \/ Enqueue(x)
      BY <3>1 DEF TestReconnecting, Enqueue, Settled
    <3>2. CASE PostTask(x)
      BY <3>2 DEF PostTask, Settled
    <3>3. CASE MarkReconnecting(x) \/ ReadTask(x) \/ DropTask(x) \/ CreateTask(x)
      BY <3>3 DEF MarkReconnecting, ReadTask, DropTask, CreateTask
    <3> QED
      BY <1>1, <3>1, <3>2, <3>3 DEF Attempt
  <2>2. at'[Reader(s)] = "closing" => at[Reader(s)] = "closing"
    BY <1>1, AttemptMovesOne DEF Attempting, LostIfHeld
  <2>3. at[Writer(s)] = "out" => at'[Writer(s)] = "out"
    BY <1>1, AttemptMovesOne DEF Attempting, LostIfHeld
  <2> QED
    BY <2>1, <2>2, <2>3
<1>2. ASSUME NEW t \in Sockets, Network(t)
      PROVE  at'[Writer(s)] = "out"
  <2>1. CASE Opens(t)
    BY <2>1 DEF Opens, Goto
  <2>2. CASE Fails(t) \/ WriteFails(t) \/ ServerCloses(t)
    BY <2>2 DEF Fails, WriteFails, ServerCloses, Goto
  <2>3. CASE ReaderEnds(t)
    BY <2>3 DEF ReaderEnds, Goto, Settled
  <2>4. CASE OnClosing(t)
    BY <2>4 DEF OnClosing
  <2>5. CASE OnClosed(t)
    BY <2>5 DEF OnClosed, Goto, Settled
  <2> QED
    BY <1>2, <2>1, <2>2, <2>3, <2>4, <2>5 DEF Network
<1>3. ASSUME NEW t \in Sockets, Opened(t)
      PROVE  at'[Writer(s)] = "out"
  <2>1. CASE ClearTask(t)
    BY <2>1 DEF ClearTask, Forgotten, LostIfHeld
  <2>2. CASE OnOpen(t) \/ FindTask(t) \/ RemoveTask(t) \/ ResetReconnecting(t) \/ Register(t)
    BY <2>2 DEF OnOpen, FindTask, RemoveTask, ResetReconnecting, Register, Goto
  <2> QED
    BY <1>3, <2>1, <2>2 DEF Opened
<1>4. ASSUME MainThread
      PROVE  at'[Writer(s)] = "out"
  BY <1>4 DEF MainThread, NewWebSocket, Unused, Assign, RunTask, Repost
<1> QED
  BY <1>1, <1>2, <1>3, <1>4 DEF Next

-----------------------------------------------------------------------------
(* Who removes a task makes another, or will reset isReconnecting; a task  *)
(* that runs posts itself again.                                           *)
LEMMA TaskLivesOn ==
  ASSUME TypeInv, WriterRests, TaskLives, Next
  PROVE  TaskLives' \/ \E s \in Sockets : ResetReconnecting(s)
<1> USE ThreadsOfSockets DEF TypeInv, TypeOK, ThreadFacts
<1>1. ASSUME NEW x \in Threads, Attempt(x)
      PROVE  TaskLives'
  <2>1. CASE MarkReconnecting(x)
    BY <2>1 DEF MarkReconnecting, Goto, TaskLives, Posting
  <2>2. CASE ReadTask(x) \/ DropTask(x)
    BY <2>2 DEF ReadTask, DropTask, Goto, TaskLives, Posting
  <2>3. CASE CreateTask(x)
    BY <2>3 DEF CreateTask, Forgotten, LostIfHeld, TaskLives, Posting
  <2>4. CASE Enqueue(x)
    BY <2>4 DEF Enqueue, TaskLives
  <2>5. CASE TestReconnecting(x) \/ PostTask(x)
    <3>2. UNCHANGED <<posted, running, reconnectTask>> /\ main' \in {main, "crashed"}
      BY <2>5 DEF TestReconnecting, PostTask, fields, mainVars
    <3>3. at[x] = "test" \/ (at[x] = "post" /\ (reconnectTask = "none" \/ at'[x] = "enqueue"))
      BY <2>5 DEF TestReconnecting, PostTask, Goto
    <3>4. \A y \in Threads : y # x => at'[y] = at[y]
      BY <2>5 DEF TestReconnecting, PostTask, Goto
    <3>5. CASE Posting
      BY <3>2, <3>3, <3>4, <3>5 DEF Posting, TaskLives
    <3>6. CASE Undoing
      BY <3>3, <3>4, <3>6 DEF Undoing, TaskLives
    <3> QED
      BY <3>2, <3>5, <3>6 DEF TaskLives
  <2> QED
    BY <1>1, <2>1, <2>2, <2>3, <2>4, <2>5 DEF Attempt
<1>2. ASSUME NEW s \in Sockets, Network(s)
      PROVE  TaskLives'
  <2>1. /\ UNCHANGED <<posted, main, running, reconnectTask, isReconnecting>>
        /\ \A x \in Threads : at'[x] # at[x] =>
             at[x] \notin Opening \cup {"drop", "dropTask", "dropLost", "create", "post", "enqueue",
                                     "enqueueLost"}
    <3>1. CASE OnClosing(s)
      BY <3>1 DEF OnClosing, WriterRests, fields, mainVars, Opening
    <3>2. CASE Opens(s) \/ Fails(s) \/ WriteFails(s)
      BY <3>2 DEF Opens, Fails, WriteFails, Goto, fields, mainVars, Opening
    <3>3. CASE ReaderEnds(s) \/ ServerCloses(s) \/ OnClosed(s)
      BY <3>3 DEF ReaderEnds, ServerCloses, OnClosed, Goto, fields, mainVars, Opening
    <3> QED
      BY <1>2, <3>1, <3>2, <3>3 DEF Network
  <2>3. CASE Posting
    BY <2>1, <2>3 DEF Posting, TaskLives
  <2>4. CASE Undoing
    BY <2>1, <2>4 DEF Undoing, TaskLives, Opening
  <2> QED
    BY <2>1, <2>3, <2>4 DEF TaskLives
<1>3. ASSUME NEW s \in Sockets, Opened(s)
      PROVE  TaskLives' \/ ResetReconnecting(s)
  <2>1. CASE OnOpen(s) \/ FindTask(s) \/ RemoveTask(s) \/ ClearTask(s)
    <3>1. at'[Reader(s)] \in {"remove", "removeTask", "removeLost", "clear", "reset"}
      BY <2>1 DEF OnOpen, FindTask, RemoveTask, ClearTask, Forgotten, LostIfHeld, Goto
    <3> QED
      BY <3>1 DEF TaskLives, Undoing
  <2>3. CASE Register(s)
    <3>1. /\ UNCHANGED <<posted, main, running, reconnectTask, isReconnecting>>
          /\ at[Reader(s)] = "register" /\ \A x \in Threads : x # Reader(s) => at'[x] = at[x]
      BY <2>3 DEF Register, Goto, fields, mainVars
    <3>3. CASE Posting
      BY <3>1, <3>3 DEF Posting, TaskLives
    <3>4. CASE Undoing
      BY <3>1, <3>4 DEF Undoing, TaskLives
    <3> QED
      BY <3>1, <3>3, <3>4 DEF TaskLives
  <2> QED
    BY <1>3, <2>1, <2>3 DEF Opened
<1>4. ASSUME MainThread
      PROVE  TaskLives'
  <2>1. UNCHANGED <<at, reconnectTask, isReconnecting>>
    BY <1>4 DEF MainThread, NewWebSocket, Assign, RunTask, Repost, fields
  <2>2. (Posting => Posting') /\ (Undoing => Undoing')
    BY <2>1 DEF Posting, Undoing
  <2>3. CASE NewWebSocket
    BY <2>2, <2>3 DEF NewWebSocket, MainGoes, TaskLives
  <2>4. CASE Assign
    BY <2>2, <2>4 DEF Assign, MainGoes, TaskLives
  <2>5. CASE RunTask
    BY <2>2, <2>5 DEF RunTask, MainGoes, TaskLives
  <2>6. CASE Repost
    BY <2>2, <2>6 DEF Repost, TaskLives
  <2> QED
    BY <1>4, <2>3, <2>4, <2>5, <2>6 DEF MainThread
<1> QED
  BY <1>1, <1>2, <1>3, <1>4 DEF Next

(* isReconnecting is set by who goes on to post a task, and reset by who   *)
(* may have removed one.                                                   *)
LEMMA ReconnectingStep ==
  ASSUME TypeInv, WriterRests, ReconnectingIsTrue, Next
  PROVE  ReconnectingIsTrue'
<1> SUFFICES ASSUME main' # "crashed", isReconnecting'
             PROVE  TaskLives'
  BY DEF ReconnectingIsTrue
<1>1. CASE \E x \in Threads : MarkReconnecting(x)
  BY <1>1 DEF MarkReconnecting, Goto, TaskLives, Posting, TypeInv, TypeOK
<1>2. CASE ~\E x \in Threads : MarkReconnecting(x)
  <2>1. /\ isReconnecting /\ main # "crashed"
        /\ \A s \in Sockets : ~ResetReconnecting(s)
    <3>1. ASSUME NEW x \in Threads, Attempt(x)
          PROVE  isReconnecting /\ main # "crashed"
      BY <1>2, <3>1 DEF Attempt, TestReconnecting, ReadTask, DropTask, CreateTask, PostTask,
         Enqueue,
         Goto, fields
    <3>2. ASSUME NEW s \in Sockets, Network(s)
          PROVE  isReconnecting /\ main # "crashed"
      BY <3>2 DEF Network, Opens, Fails, WriteFails, ReaderEnds, ServerCloses, OnClosing,
         OnClosed, Goto, fields
    <3>3. ASSUME NEW s \in Sockets, Opened(s)
          PROVE  isReconnecting /\ main # "crashed"
      BY <3>3 DEF Opened, OnOpen, FindTask, RemoveTask, ClearTask, ResetReconnecting, Register,
         Goto,
         fields
    <3>4. ASSUME MainThread
          PROVE  isReconnecting /\ main # "crashed"
      <4>1. isReconnecting' = isReconnecting
        BY <3>4 DEF MainThread, NewWebSocket, Assign, RunTask, Repost, fields
      <4>2. main # "crashed"
        BY <3>4 DEF MainThread, NewWebSocket, Assign, RunTask, Repost, MainGoes
      <4> QED
        BY <4>1, <4>2
    <3>5. ~\E s \in Sockets : ResetReconnecting(s)
      BY DEF ResetReconnecting
    <3> QED
      BY <3>1, <3>2, <3>3, <3>4, <3>5 DEF Next
  <2>2. TaskLives
    BY <2>1 DEF ReconnectingIsTrue
  <2> QED
    BY <2>1, <2>2, TaskLivesOn
<1> QED
  BY <1>1, <1>2

(* The client stays alive: what ends a connection decides on a new one, and *)
(* may leave it to others only while these have a task, or an onOpen on an  *)
(* open connection.                                                        *)
LEMMA AliveStep ==
  ASSUME TypeInv, OpeningIsOpen, WriterRests, ReconnectingIsTrue, Alive, Next
  PROVE  Alive'
<1> USE ThreadsOfSockets DEF TypeInv, TypeOK, ThreadFacts
<1>1. CASE \E s \in Sockets : ResetReconnecting(s)
  <2>1. PICK s \in Sockets : ResetReconnecting(s)
    BY <1>1
  <2>2. link[s] \in {"open", "broken"} /\ link' = link
    BY <2>1 DEF ResetReconnecting, Goto, OpeningIsOpen, Opening
  <2>3. link[s] = "broken" => raced'
    BY <2>1 DEF ResetReconnecting, Overtaken
  <2> QED
    BY <2>2, <2>3 DEF Alive, Connected
<1>2. CASE TaskLives /\ ~\E s \in Sockets : ResetReconnecting(s)
  BY <1>2, TaskLivesOn DEF Alive
<1>3. CASE ~TaskLives /\ ~\E s \in Sockets : ResetReconnecting(s)
  <2>1. ASSUME NEW x \in Threads, Attempt(x)
        PROVE  Alive'
    <3>1. ~isReconnecting
      BY <1>3, <2>1 DEF ReconnectingIsTrue, Attempt, TestReconnecting, MarkReconnecting,
         ReadTask, DropTask, CreateTask, PostTask, Enqueue, Goto
    <3>2. CASE TestReconnecting(x)
      BY <3>1, <3>2 DEF TestReconnecting, Goto, Alive, Deciding
    <3>3. CASE MarkReconnecting(x)
      BY <3>3 DEF MarkReconnecting, Goto, Alive, TaskLives, Posting
    <3>4. CASE ReadTask(x) \/ DropTask(x) \/ CreateTask(x) \/ Enqueue(x)
      BY <1>3, <3>4 DEF ReadTask, DropTask, CreateTask, Enqueue, Goto, TaskLives, Posting
    <3>5. CASE PostTask(x)
      <4>1. reconnectTask = "none"
        BY <1>3, <3>5 DEF PostTask, TaskLives, Posting
      <4>2. CASE main' = "crashed" \/ at'[x] = "test"
        BY <4>2 DEF Alive, Deciding
      <4>3. CASE at'[x] = "out"
        <5>1. /\ raced' = raced /\ main' = main /\ main # "crashed"
              /\ at' = [at EXCEPT ![x] = "out"] /\ at[x] = "post" /\ link' = Settled(at')
          BY <3>5, <4>1, <4>3 DEF PostTask, history
        <5>2. \A y \in Threads : at[y] \in {"test", "mark"} => at'[y] = at[y]
          BY <5>1
        <5>3. \A s \in Sockets : link[s] \in {"connecting", "open", "closing"} => link'[s] = link[s]
          BY <5>1, SettledOnlyEnds
        <5> QED
          BY <1>3, <5>1, <5>2, <5>3 DEF Alive, Deciding, Connected
      <4> QED
        BY <3>5, <4>1, <4>2, <4>3 DEF PostTask
    <3> QED
      BY <2>1, <3>2, <3>3, <3>4, <3>5 DEF Attempt
  <2>2. ASSUME NEW s \in Sockets, Network(s)
        PROVE  Alive'
    <3>1. CASE Opens(s) \/ ServerCloses(s)
      BY <3>1 DEF Opens, ServerCloses, Alive, Connected
    <3>2. CASE Fails(s) \/ WriteFails(s) \/ OnClosing(s)
      BY <3>2 DEF Fails, WriteFails, OnClosing, Goto, Alive, Deciding
    <3>3. CASE ReaderEnds(s)
      <4>1. /\ raced' = raced /\ main' = main /\ main # "crashed"
            /\ at' = [at EXCEPT ![Reader(s)] = "out"] /\ at[Reader(s)] = "read"
            /\ link' = Settled(at')
        BY <3>3 DEF ReaderEnds, Goto, history, mainVars
      <4>2. \A y \in Threads : at[y] \in {"test", "mark"} => at'[y] = at[y]
        BY <4>1
      <4>3. \A t \in Sockets : link[t] \in {"connecting", "open", "closing"} => link'[t] = link[t]
        BY <4>1, SettledOnlyEnds
      <4> QED
        BY <1>3, <4>1, <4>2, <4>3 DEF Alive, Deciding, Connected
    <3>4. CASE OnClosed(s)
      <4>1. CASE at'[Writer(s)] = "test"
        BY <4>1 DEF Alive, Deciding
      <4>2. CASE at'[Writer(s)] # "test"
        <5>1. /\ raced' = raced /\ main' = main /\ main # "crashed"
              /\ at' = [at EXCEPT ![Writer(s)] = "out"] /\ at[Writer(s)] = "close"
              /\ link' = Settled(at')
          BY <3>4, <4>2 DEF OnClosed, Goto, history, mainVars
        <5>2. \A y \in Threads : at[y] \in {"test", "mark"} => at'[y] = at[y]
          BY <5>1
        <5>3. \A t \in Sockets : link[t] \in {"connecting", "open", "closing"} => link'[t] = link[t]
          BY <5>1, SettledOnlyEnds
        <5> QED
          BY <1>3, <5>1, <5>2, <5>3 DEF Alive, Deciding, Connected
      <4> QED
        BY <4>1, <4>2
    <3> QED
      BY <2>2, <3>1, <3>2, <3>3, <3>4 DEF Network
  <2>3. ASSUME NEW s \in Sockets, Opened(s)
        PROVE  Alive'
    <3>1. Register(s)
      BY <1>3, <2>3 DEF Opened, OnOpen, FindTask, RemoveTask, ClearTask, Goto, TaskLives, Undoing
    <3> QED
      <4>1. /\ raced' = raced /\ main' = main /\ link' = link /\ main # "crashed"
            /\ at' = [at EXCEPT ![Reader(s)] = "read"] /\ at[Reader(s)] = "register"
        BY <3>1 DEF Register, Goto, mainVars
      <4>2. \A y \in Threads : at[y] \in {"test", "mark"} => at'[y] = at[y]
        BY <4>1
      <4> QED
        BY <1>3, <4>1, <4>2 DEF Alive, Deciding, Connected
  <2>4. ASSUME MainThread
        PROVE  Alive'
    <3>1. CASE NewWebSocket
      BY <3>1 DEF NewWebSocket, Alive, Connected
    <3>2. CASE Assign
      <4>1. running = "none" /\ main' = "idle"
        BY <1>3, <3>2 DEF Assign, MainGoes, TaskLives
      <4> QED
        BY <1>3, <3>2, <4>1 DEF Assign, MainGoes, history, Alive, Deciding, Connected
    <3>3. CASE RunTask
      BY <3>3 DEF RunTask, MainGoes, Alive
    <3>4. CASE Repost
      BY <3>4 DEF Repost, Alive, TaskLives
    <3> QED
      BY <2>4, <3>1, <3>2, <3>3, <3>4 DEF MainThread
  <2> QED
    BY <2>1, <2>2, <2>3, <2>4 DEF Next
<1> QED
  BY <1>1, <1>2, <1>3

(* A connection is logged in at the end of its onOpen if it is the one in  *)
(* the field, and counts as early if it is not yet assigned; after that it *)
(* can only come into the field, or end.                                   *)
LEMMA NewestStep ==
  ASSUME TypeInv, OpeningIsOpen, NewestIsLoggedIn, Next
  PROVE  NewestIsLoggedIn'
<1> USE ThreadsOfSockets DEF TypeInv, TypeOK, ThreadFacts
<1> SUFFICES ASSUME NEW s \in Sockets, s \in {webSocket', made'}, link'[s] = "open",
                    at'[Reader(s)] = "read"
             PROVE  s \in loggedIn' \cup early'
  BY DEF NewestIsLoggedIn
<1> DEFINE WasIn == s \in {webSocket, made} /\ link[s] = "open" /\ at[Reader(s)] = "read"
<1>0. WasIn => s \in loggedIn \cup early
  BY DEF NewestIsLoggedIn
<1>1. ASSUME NEW x \in Threads, Attempt(x)
      PROVE  s \in loggedIn' \cup early'
  <2>1. UNCHANGED <<webSocket, made, loggedIn, early>>
    BY <1>1 DEF Attempt, TestReconnecting, MarkReconnecting, ReadTask, DropTask, CreateTask,
       PostTask,
       Enqueue, fields, mainVars, history
  <2>2. at[Reader(s)] = "read"
    BY <1>1, AttemptMovesOne DEF Attempting, LostIfHeld
  <2>3. link[s] = "open"
    <3>1. CASE TestReconnecting(x) \/ Enqueue(x)
      BY <3>1 DEF TestReconnecting, Enqueue, Settled
    <3>2. CASE PostTask(x)
      BY <3>2 DEF PostTask, Settled
    <3>3. CASE MarkReconnecting(x) \/ ReadTask(x) \/ DropTask(x) \/ CreateTask(x)
      BY <3>3 DEF MarkReconnecting, ReadTask, DropTask, CreateTask
    <3> QED
      BY <1>1, <3>1, <3>2, <3>3 DEF Attempt
  <2> QED
    BY <1>0, <2>1, <2>2, <2>3
<1>2. ASSUME NEW t \in Sockets, Network(t)
      PROVE  s \in loggedIn' \cup early'
  <2>1. UNCHANGED <<webSocket, made>>
    BY <1>2 DEF Network, Opens, Fails, WriteFails, ReaderEnds, ServerCloses, OnClosing,
       OnClosed, fields, mainVars
  <2>2. CASE Opens(t) \/ OnClosing(t)
    BY <1>0, <2>1, <2>2 DEF Opens, OnClosing, Goto, history
  <2>3. CASE Fails(t) \/ WriteFails(t) \/ ServerCloses(t)
    BY <1>0, <2>1, <2>3 DEF Fails, WriteFails, ServerCloses, Goto, Over
  <2>4. CASE ReaderEnds(t) \/ OnClosed(t)
    BY <1>0, <2>1, <2>4 DEF ReaderEnds, OnClosed, Goto, Settled, history
  <2> QED
    BY <1>2, <2>2, <2>3, <2>4 DEF Network
<1>3. ASSUME NEW t \in Sockets, Opened(t)
      PROVE  s \in loggedIn' \cup early'
  <2>1. UNCHANGED <<webSocket, made, link>>
    BY <1>3 DEF Opened, OnOpen, FindTask, RemoveTask, ClearTask, ResetReconnecting, Register,
       fields,
       mainVars
  <2>2. CASE ClearTask(t)
    BY <1>0, <2>1, <2>2 DEF ClearTask, Forgotten, LostIfHeld
  <2>3. CASE OnOpen(t) \/ FindTask(t) \/ RemoveTask(t) \/ ResetReconnecting(t)
    BY <1>0, <2>1, <2>3 DEF OnOpen, FindTask, RemoveTask, ResetReconnecting, Goto, history
  <2>4. CASE Register(t)
    <3>1. loggedIn \subseteq loggedIn' /\ early \subseteq early'
      BY <2>4 DEF Register
    <3>2. CASE t = s
      BY <2>1, <2>4, <3>2 DEF Register
    <3>3. CASE t # s
      BY <1>0, <2>1, <2>4, <3>1, <3>3 DEF Register, Goto
    <3> QED
      BY <3>2, <3>3
  <2> QED
    BY <1>3, <2>2, <2>3, <2>4 DEF Opened
<1>4. ASSUME MainThread
      PROVE  s \in loggedIn' \cup early'
  <2>1. CASE NewWebSocket
    BY <1>0, <2>1 DEF NewWebSocket, fields
  <2>2. CASE Assign
    BY <1>0, <2>2, ConstantsOK DEF Assign, history
  <2>3. CASE RunTask \/ Repost
    BY <1>0, <2>3 DEF RunTask, Repost, fields, history
  <2> QED
    BY <1>4, <2>1, <2>2, <2>3 DEF MainThread
<1> QED
  BY <1>1, <1>2, <1>3, <1>4 DEF Next

-----------------------------------------------------------------------------
(* The invariant of the signalling client, for any number of connections   *)
(* that live at a time.                                                    *)
THEOREM ClientInvariant == Spec => []IInv
<1>1. IInv /\ [Next]_vars => IInv'
  <2> SUFFICES ASSUME IInv, [Next]_vars
               PROVE  IInv'
    OBVIOUS
  <2>1. CASE Next
    BY <2>1, TypeStep, OpeningStep, WriterStep, ReconnectingStep, AliveStep, NewestStep DEF IInv
  <2>2. CASE UNCHANGED vars
    BY <2>2 DEF vars, fields, mainVars, history, IInv, TypeInv, TypeOK, EnqueuedIsTask,
       RepostedIsTask, OpeningIsOpen, WriterRests, ReconnectingIsTrue, Alive, TaskLives,
       Posting, Undoing, Deciding, Connected, NewestIsLoggedIn
  <2> QED
    BY <2>1, <2>2
<1> QED
  BY <1>1, InitIInv, PTL DEF Spec

(* Every variable of the client keeps its type; a task in the queue that   *)
(* counts as removable is the one in the field.                            *)
THEOREM ClientTypeCorrect == Spec => []TypeOK
<1>1. IInv => TypeOK
  BY DEF IInv, TypeInv
<1> QED
  BY <1>1, ClientInvariant, PTL

(* The client is never left without a connection and without a task that   *)
(* makes one, but by an onOpen whose own connection failed meanwhile.      *)
THEOREM ClientIsNeverSilent == Spec => []NeverSilent
<1>1. IInv => NeverSilent
  <2> SUFFICES ASSUME IInv, Silent
               PROVE  raced
    BY DEF NeverSilent
  <2>1. ~Posting /\ ~Deciding /\ ~Connected /\ main = "idle" /\ posted = {}
    BY DEF Silent, Posting, Deciding, Connected
  <2>2. ~Undoing
    BY ThreadsOfSockets DEF Silent, Undoing, ThreadFacts
  <2> QED
    BY <2>1, <2>2 DEF IInv, Alive, TaskLives
<1> QED
  BY <1>1, ClientInvariant, PTL

(* The connection that messages are sent on is logged in, although onOpen  *)
(* logs in on whatever connection is in the field by then.                 *)
THEOREM CurrentConnectionIsLoggedIn == Spec => []CurrentIsLoggedIn
<1>1. IInv => CurrentIsLoggedIn
  BY DEF IInv, NewestIsLoggedIn, CurrentIsLoggedIn
<1> QED
  BY <1>1, ClientInvariant, PTL

=============================================================================
