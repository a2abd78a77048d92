------------------------------ MODULE DataPipes ------------------------------
(***************************************************************************)
(* The data pipes of the mass data: massdata/MassDataManager.cpp with the  *)
(* sessions of massdata/CarrierSessionHelper.cpp, the thread pool that     *)
(* each session has for itself, and the callbacks of main.cpp that remove  *)
(* pipes.  A pipe is a session with its parser and its processor; the map  *)
(* has one pipe for a peer and every callback looks it up by the peer.     *)
(*                                                                         *)
(* A session lives as long as somebody refers to it: the map, a task with  *)
(* data, or a running task that has found its pipe.  A task with a         *)
(* notification refers to it by a plain pointer.  When the last reference  *)
(* goes, the session is destroyed, with the tasks its pool still has.      *)
(*                                                                         *)
(* Each use of the map is one step.  The map has no lock, and what two     *)
(* uses at the very same time can do to it is left out.                    *)
(*                                                                         *)
(* Carrier makes all its callbacks on one thread, those of the streams     *)
(* included: none of them comes while another one is being handled, so a   *)
(* session whose callbacks are registered gets its place in the map        *)
(* before the first of them.                                               *)
(***************************************************************************)
EXTENDS SessionParser

CONSTANTS
    Peers,
    Streams,        \* Streams[s] is what may be sent in session s: sequences of messages
    Chunks,         \* the sizes of the chunks Carrier hands over
    MaxSessions,    \* bound on the sessions asked for
    MaxWaiting      \* bound on the tasks of a pool

ASSUME PipesAssumption == Peers # {} /\ MaxSessions \in Nat /\ MaxWaiting \in Nat

ASSUME StreamsAssumption ==
    Chunks \subseteq Nat /\ \A s \in 1..MaxSessions : Streams[s] \subseteq Seq(Message)

VARIABLES
    down,           \* has the process ended, on a null pointer or an exception?
    last,           \* the number of sessions so far; a session is its number
    peer,           \* whose session it is
    pipes,          \* dataPipeMap: the session of a peer's pipe, or 0
    ses,            \* the sessions with their parsers
    run,            \* the task that the thread of a session's pool is running
    mixed,          \* pipes that got data of another session
    cut,            \* sessions with data under way when their peer's pipe went
    passed,         \* sessions that left the map while a notification of theirs
                    \*   was running, were never put into it, or were destroyed
                    \*   while their thread was between two tasks
    wrong           \* sessions whose notification removed another session's pipe

history == <<mixed, cut, passed, wrong>>
vars == <<down, last, peer, pipes, ses, run, mixed, cut, passed, wrong>>

Ids == 1..MaxSessions
Sessions == 1..last

NoTask == [kind |-> "none"]
Notify(what) == [kind |-> "notify", what |-> what]
Data(chunk) == [kind |-> "data", data |-> chunk, pipe |-> 0]

\* A session: the state of its stream, what its peer sends and how much of that
\* has come in, the tasks of its pool, the parser, and what it has handed over
Session(str) ==
    [link |-> "asked", stream |-> str, heard |-> 0, tasks |-> <<>>,
     parser |-> NewParser, out |-> <<>>]

\* A destroyed one
Gone == [Session(<<>>) EXCEPT !.link = "closed"]

Frames(s) == [i \in DOMAIN ses[s].stream |-> pack(<<s, i>>, ses[s].stream[i])]
Wire(s) == FlattenSeq(Frames(s))

HasData(queue) == \E i \in DOMAIN queue : queue[i].kind = "data"

\* Does anybody refer to session s?
BadHeld(map, sessions, running, s) ==
    \/ map[peer[s]] = s
    \/ sessions[s].tasks # <<>>
    \/ running[s].kind = "data"
    \/ \E t \in Ids : running[t].kind = "data" /\ running[t].pipe = s
Held(map, sessions, running, s) ==
    \/ map[peer[s]] = s
    \/ HasData(sessions[s].tasks)
    \/ running[s].kind = "data"
    \/ \E t \in Ids : running[t].kind = "data" /\ running[t].pipe = s

Alive(s) == Held(pipes, ses, run, s)

\* The sessions nobody refers to are destroyed, with the tasks they still have
Released(map, sessions, running) ==
    [s \in Ids |-> IF Held(map, sessions, running, s) THEN sessions[s] ELSE Gone]

\* The sessions of a peer that have data under way
Busy(p) == {s \in Sessions : peer[s] = p /\ (run[s].kind = "data" \/ HasData(ses[s].tasks))}

\* The session of a peer's pipe, if its thread is running a notification
Notifying(p) == {s \in Sessions : s = pipes[p] /\ run[s].kind = "notify"}

-----------------------------------------------------------------------------
(* The Carrier thread *)

New(p) ==
    /\ ~down /\ last < MaxSessions
    /\ last' = last + 1
    /\ peer' = [peer EXCEPT ![last + 1] = p]

appendDataPipe(p, s) == [pipes EXCEPT ![p] = s]

\* A pipe of the peer that is still in the map is replaced
onSessionRequest(p, str) ==
    /\ New(p)
    /\ pipes' = appendDataPipe(p, last + 1)
    /\ ses' = [Released(appendDataPipe(p, last + 1), ses, run) EXCEPT ![last + 1] = Session(str)]
    /\ passed' = passed \cup Notifying(p)
    /\ UNCHANGED <<down, run, mixed, cut, wrong>>

\* The thread of the pool of session s is between two tasks when the pool is
\* destroyed: it takes a task and shared_from_this throws, or it reads mQuit of
\* the pool it has just been the last to refer to
Throws(s) == down' = TRUE /\ passed' = passed \cup {s}

\* allowConnectAsync fails: the Error it has posted is running already when
\* the session is destroyed, is cleared with it, or is being taken
SessionRequestFails(p) ==
    /\ New(p)
    /\ \/ /\ run' = [run EXCEPT ![last + 1] = Notify("Error")]
          /\ passed' = passed \cup {last + 1}
          /\ UNCHANGED down
       \/ UNCHANGED <<down, run, passed>>
       \/ Throws(last + 1) /\ UNCHANGED run
    /\ UNCHANGED <<pipes, ses, mixed, cut, wrong>>

Post(s, task) == Append(ses[s].tasks, task)

\* Carrier hands over the next n bytes
onReceivedData(s, n) ==
    /\ ~down /\ Alive(s)
    /\ ses[s].link = "connected"
    /\ Len(ses[s].tasks) < MaxWaiting
    /\ ses[s].heard + n <= Len(Wire(s))
    /\ LET from == ses[s].heard
       IN  ses' = [ses EXCEPT ![s].heard = from + n,
                              ![s].tasks = Post(s, Data(SubSeq(Wire(s), from + 1, from + n)))]
    /\ UNCHANGED <<down, last, peer, pipes, run, history>>

\* The stream is connected, fails, or is closed; a reply or a start that fails
\* is posted as an Error too
StateChanged(s, from, to, what) ==
    /\ ~down /\ Alive(s)
    /\ ses[s].link \in from
    /\ Len(ses[s].tasks) < MaxWaiting
    /\ ses' = [ses EXCEPT ![s].link = to, ![s].tasks = Post(s, Notify(what))]
    /\ UNCHANGED <<down, last, peer, pipes, run, history>>

onStateChanged(s) ==
    \/ StateChanged(s, {"asked"}, "connected", "Connected")
    \/ StateChanged(s, {"asked", "connected"}, "failed", "Error")
    \/ StateChanged(s, {"asked", "connected", "failed"}, "closed", "Closed")

Without(peers) == [p \in Peers |-> IF p \in peers THEN 0 ELSE pipes[p]]

\* The pipes of some peers go, and with them what nobody else refers to
Removed(peers, running, except) ==
    /\ pipes' = Without(peers)
    /\ ses' = Released(Without(peers), ses, running)
    /\ cut' = cut \cup UNION {Busy(p) : p \in peers}
    /\ passed' = passed \cup ((UNION {Notifying(p) : p \in peers}) \ except)

removeDataPipe(p, running, except) == Removed({p}, running, except)

\* The friend disconnects
FriendOffline(p) ==
    /\ ~down /\ pipes[p] # 0
    /\ removeDataPipe(p, run, {})
    /\ UNCHANGED <<down, last, peer, run, mixed, wrong>>

\* The node itself disconnects
clearAllDataPipe ==
    /\ ~down /\ \E p \in Peers : pipes[p] # 0
    /\ Removed(Peers, run, {})
    /\ UNCHANGED <<down, last, peer, run, mixed, wrong>>

-----------------------------------------------------------------------------
(* The thread of a session's pool *)

Pop(s) ==
    /\ ~down /\ run[s].kind = "none"
    /\ ses[s].tasks # <<>>
    /\ run' = [run EXCEPT ![s] = Head(ses[s].tasks)]
    /\ ses' = [ses EXCEPT ![s].tasks = Tail(@)]
    /\ UNCHANGED <<down, last, peer, pipes, history>>

Done(s) == [run EXCEPT ![s] = NoTask]

Crash ==
    /\ down' = TRUE
    /\ UNCHANGED <<last, peer, pipes, ses, run, history>>

BadEnds(what) == what = "Error"
Ends(what) == what \in {"Closed", "Error"}

\* The listener goes with its session, but not before the call ends that
\* removes the session itself
BadListenerGone(s) == ~Alive(s) \/ Ends(run[s].what)
ListenerGone(s) == ~Alive(s)

\* If the session has been destroyed, the listener is gone before it is called,
\* or it had been called before
onNotify(s) ==
    /\ ~down /\ run[s].kind = "notify"
    /\ \/ /\ run' = Done(s)
          /\ \/ /\ Ends(run[s].what)
                /\ removeDataPipe(peer[s], Done(s), {s})
                /\ wrong' = IF pipes[peer[s]] \in {0, s} THEN wrong ELSE wrong \cup {s}
             \/ ~Ends(run[s].what) /\ UNCHANGED <<pipes, ses, cut, passed, wrong>>
          /\ UNCHANGED <<down, last, peer, mixed>>
       \/ ListenerGone(s) /\ Crash

\* A task with data looks its pipe up by the peer
FindPipe(s) ==
    /\ ~down /\ run[s].kind = "data" /\ run[s].pipe = 0
    /\ LET p == pipes[peer[s]]
       IN  \/ p = 0 /\ Crash
           \/ /\ p # 0
              /\ run' = [run EXCEPT ![s].pipe = p]
              /\ mixed' = IF p = s THEN mixed ELSE mixed \cup {p}
              /\ UNCHANGED <<down, last, peer, pipes, ses, cut, passed, wrong>>

Racing(s) == \E t \in Sessions \ {s} : run[t].kind = "data" /\ run[t].pipe = run[s].pipe

After(s, r) == IF r.left = <<>> THEN Done(s) ELSE [run EXCEPT ![s].data = r.left]

Fed(p, r) == [ses EXCEPT ![p].parser = r.parser,
                         ![p].out = IF p \in mixed THEN <<>> ELSE @ \o r.out]

\* One round of unpack, with the unpacked listener, which looks the pipe up
\* again and answers in the session of the one it finds.  Two threads in the
\* parser of the same pipe race, and may crash.  What a pipe with foreign data
\* hands over is not recorded.
Unpack(s) ==
    /\ ~down /\ run[s].kind = "data" /\ run[s].pipe # 0
    /\ \E r \in {unpack(ses[run[s].pipe].parser, run[s].data)} :
          \/ r.out # <<>> /\ pipes[peer[s]] = 0 /\ Crash
          \/ Racing(s) /\ Crash
          \/ /\ r.out = <<>> \/ pipes[peer[s]] # 0
             /\ run' = After(s, r)
             /\ ses' = Released(pipes, Fed(run[s].pipe, r), After(s, r))
             /\ UNCHANGED <<down, last, peer, pipes, history>>

\* May the last reference to session s go now: the one of the map, or that of a
\* thread with the rest of its data?
LosesLast(s) ==
    \/ ~Held(Without({peer[s]}), ses, run, s)
    \/ \E t \in Sessions : /\ run[t].kind = "data" /\ run[t].pipe = s
                           /\ unpack(ses[s].parser, run[t].data).left = <<>>
                           /\ ~Held(pipes, ses, Done(t), s)

\* The last reference to session s goes while its thread is between two tasks.
\* The thread of a session whose stream was never connected, never failed and
\* was never closed has had no task yet and waits for the first.
PopGone(s) ==
    /\ ~down /\ s \in Sessions /\ Alive(s)
    /\ run[s].kind = "none" /\ ses[s].link # "asked"
    /\ LosesLast(s)
    /\ Throws(s)
    /\ UNCHANGED <<last, peer, pipes, ses, run, mixed, cut, wrong>>

-----------------------------------------------------------------------------
Init ==
    /\ down = FALSE
    /\ last = 0
    /\ peer = [s \in Ids |-> CHOOSE p \in Peers : TRUE]
    /\ pipes = [p \in Peers |-> 0]
    /\ ses = [s \in Ids |-> Gone]
    /\ run = [s \in Ids |-> NoTask]
    /\ mixed = {} /\ cut = {} /\ passed = {} /\ wrong = {}

Pool(s) == Pop(s) \/ onNotify(s) \/ FindPipe(s) \/ Unpack(s)

Next ==
    \/ \E p \in Peers, s \in Ids : \E str \in Streams[s] :
          s = last + 1 /\ onSessionRequest(p, str)
    \/ \E p \in Peers : SessionRequestFails(p) \/ FriendOffline(p)
    \/ clearAllDataPipe
    \/ \E s \in Ids : \/ onStateChanged(s)
                      \/ \E n \in Chunks : onReceivedData(s, n)
                      \/ Pool(s)
                      \/ PopGone(s)

Spec == Init /\ [][Next]_vars

\* The operating system runs the threads of the pools: a thread that has work
\* takes a step, and a step of it changes what it runs.  This is
\* WF_vars(Pool(s)) without the cost of ENABLED Pool(s) to TLC.
HasWork(s) == ~down /\ (run[s].kind # "none" \/ ses[s].tasks # <<>>)
FairSpec ==
    Spec /\ \A s \in Ids : []<>~HasWork(s) \/ []<><<run[s]' # run[s]>>_vars

-----------------------------------------------------------------------------
(* Properties *)

\* The types of the variables; a parser never holds more than the Info announced.
TypeOK ==
    /\ down \in BOOLEAN
    /\ last \in 0..MaxSessions
    /\ peer \in [Ids -> Peers]
    /\ pipes \in [Peers -> 0..last]
    /\ \A s \in Ids :
          /\ ses[s].link \in {"asked", "connected", "failed", "closed"}
          /\ Len(ses[s].tasks) <= MaxWaiting
          /\ run[s].kind \in {"none", "notify", "data"}
          /\ Len(ses[s].parser.head) <= ses[s].parser.hs
          /\ Len(ses[s].parser.body) <= ses[s].parser.bs
    /\ mixed \cup cut \cup passed \cup wrong \subseteq Sessions

\* What session s has handed over.  A frame of another version leaves a protocol
\* behind that counts as complete (SessionParser.cpp:162): only then are there
\* calls without a head that nobody sent, and calls without a head do not count.
Old(s) == \E j \in DOMAIN ses[s].stream : ses[s].stream[j].kind = "old"
Counted(s, m) == IF m.head # <<>> \/ ~Old(s) THEN <<m>> ELSE <<>>
Out(s) == FlattenSeq([k \in DOMAIN ses[s].out |-> Counted(s, ses[s].out[k])])

\* The messages of session s that are complete in what has come in, up to the
\* first one of another version
Sent(s, i) == [head |-> Bytes("head", <<s, i>>, ses[s].stream[i].hs),
               body |-> Bytes("body", <<s, i>>, ses[s].stream[i].bs)]
Complete(s) ==
    LET str == ses[s].stream
        end(i) == Len(FlattenSeq(SubSeq(Frames(s), 1, i)))
        whole(i) == /\ str[i].kind = "frame"
                    /\ end(i) <= ses[s].heard
                    /\ \A j \in 1..i : str[j].kind # "old"
    IN  FlattenSeq([i \in DOMAIN str |-> IF whole(i) THEN Counted(s, Sent(s, i)) ELSE <<>>])

\* However Carrier cuts the stream and whatever comes between two frames: a
\* parser that only got the data of its own session hands over the messages
\* that were sent, each once, whole and in order, and none after a frame of
\* another version (SessionParser.cpp:44, 112).  No message waits for later
\* data: when the session has nothing left to do, every message that has come in
\* completely has been handed over.
WholeMessages ==
    /\ TypeOK
    /\ \A s \in Sessions \ mixed :
          /\ IsPrefix(Out(s), Complete(s))
          /\ /\ pipes[peer[s]] = s
             /\ ses[s].tasks = <<>> /\ run[s].kind = "none"
             => Out(s) = Complete(s)

\* The map entry of a peer is removed by a session that it does not belong to
\* only when that session was replaced in the middle of its notification, was
\* never in the map, or had another session's thread in its parser
\* (MassDataManager.cpp:150)
RemovesOwnPipe == wrong \subseteq passed \cup mixed

\* The null pointer that find returns (MassDataManager.cpp:156, 182) is only met
\* when a pipe was removed while its peer had data under way, the listener that
\* is gone (CarrierSessionHelper.cpp:320) only by a session passed over, and the
\* pool that is gone (ThreadPool.cpp:150, 158) only when it was destroyed while
\* its thread was between two tasks
DownOnlyIfCut == down => cut \cup passed \cup mixed # {}

\* The pipe of a session that failed or was closed does not stay in the map
ClosedIsRemoved ==
    \A s \in Ids :
        (s <= last /\ ses[s].link \in {"failed", "closed"})
            ~> (down \/ pipes[peer[s]] # s)

=============================================================================
