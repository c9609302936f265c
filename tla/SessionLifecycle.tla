-------------------------- MODULE SessionLifecycle --------------------------
(***************************************************************************)
(* The sessions of the terminal and the two threads that share them: the   *)
(* main thread (Interface::startup, SessionManager, InputHandler) and the  *)
(* io thread, which serves the jobs of IOService and runs the callbacks of *)
(* Session.                                                                *)
(*                                                                         *)
(* The job service is the one JobService specifies and IOService is proved *)
(* to implement: any waiting job may be the next one, each is run once.  A *)
(* socket operation is one step here.                                      *)
(***************************************************************************)
EXTENDS Naturals, FiniteSets, Sequences, SequencesExt

CONSTANTS
    Systems,        \* the entries of the dialing directory that are dialled
    Telnet,         \* those of them with protocol TELNET; the others are SSH
    Dial,           \* the session of the dialing directory itself
    MaxWrites,      \* bound on the WRITE jobs waiting for one session
    UserCloses,     \* the user closes windows of connections or hangs up
    UserTransfers   \* the user presses ALT-D

MaxReads == 2       \* bound on the READ jobs ALT-D adds for one session

ASSUME SystemsAssumption == Telnet \subseteq Systems /\ Dial \notin Systems
ASSUME MaxWritesAssumption == MaxWrites \in Nat

VARIABLES
    m_sessions,     \* SessionManager::m_sessions
    newConnections, \* SessionManager::m_new_connections
    disconnected,   \* SessionManager::m_is_system_disconnected
    session,        \* the flags of each Session
    socket,         \* the SocketHandler of each Session
    jobs,           \* the jobs of each session waiting in the service
    main,           \* the main thread: where it is, its iterator, its count
    io,             \* the io thread: where it is, and the job it serves
    leave,          \* the call of SessionManager::leave each thread is in
    erasing,        \* the io thread is inside m_sessions.erase()
    left,           \* sessions gone since the main thread looked for a focus
    undefined       \* the undefined behaviour met, if any

vars == <<m_sessions, newConnections, disconnected, session, socket, jobs,
          main, io, leave, erasing, left, undefined>>

Threads == {"main", "io"}
Sessions == Systems \union {Dial}

NotStarted == [spawned |-> FALSE, shutdown |-> FALSE, leaving |-> FALSE,
               closing |-> FALSE, connected |-> FALSE, transfer |-> FALSE,
               buffer |-> 0]

\* present: m_socket holds a socket; active: m_is_active; open: the socket of
\* the operating system; remote: the server has not closed the connection.
NoSocket == [present |-> FALSE, active |-> FALSE, open |-> FALSE,
             remote |-> TRUE]

NoJobs == [read |-> 0, write |-> 0, connect |-> 0]

NoLeave == [at |-> "none", s |-> Dial]

Init ==
    /\ m_sessions = {Dial}
    /\ newConnections = <<>>
    /\ disconnected = FALSE
    /\ session = [s \in Systems |-> NotStarted]
    /\ socket = [s \in Systems |-> NoSocket]
    /\ jobs = [s \in Systems |-> NoJobs]
    /\ main = [at |-> "top", it |-> Dial, count |-> 0, todo |-> {}]
    /\ io = [at |-> "idle", s |-> Dial, job |-> "read", error |-> FALSE]
    /\ leave = [t \in Threads |-> NoLeave]
    /\ erasing = FALSE
    /\ left = {}
    /\ undefined = "none"

managerVars == <<m_sessions, newConnections, disconnected, erasing, left>>
sessionVars == <<session, socket, jobs>>
-----------------------------------------------------------------------------
(* Operations of Session and of its connection that both threads use.      *)

\* Undefined behaviour ends a behaviour of the model.
LeaveAt(t, p) == undefined = "none" /\ leave[t].at = p
MainAt(p) == LeaveAt("main", "none") /\ main.at = p
IoAt(p) == LeaveAt("io", "none") /\ io.at = p

\* async_connection::shutdown() and close(): both close an active socket.
Closed(sock) ==
    IF sock.active
    THEN [sock EXCEPT !.present = FALSE, !.active = FALSE, !.open = FALSE]
    ELSE sock

Add(js, s, type) == [js EXCEPT ![s][type] = @ + 1]

\* deliver(): a WRITE job, if the socket is active and nobody shuts down.
CanDeliver(s) ==
    /\ socket[s].active
    /\ ~session[s].shutdown
    /\ jobs[s].write < MaxWrites

\* Faulty: the buffer is not cleared.
WaitForSocketDataKeepsBuffer(s, sess) ==
    /\ session' = [session EXCEPT ![s] = sess]
    /\ jobs' = IF socket[s].active /\ ~sess.shutdown
               THEN Add(jobs, s, "read")
               ELSE jobs
    /\ UNCHANGED socket

\* waitForSocketData(): clear the buffer and add a READ job.
WaitForSocketData(s, sess) ==
    /\ session' = [session EXCEPT ![s] = [sess EXCEPT !.buffer = 0]]
    /\ jobs' = IF socket[s].active /\ ~sess.shutdown
               THEN Add(jobs, s, "read")
               ELSE jobs
    /\ UNCHANGED socket

BeginLeave(t, s) == leave' = [leave EXCEPT ![t] = [at |-> "shutdown", s |-> s]]

GoTo(t, p) == leave' = [leave EXCEPT ![t].at = p]

Undefined(kind) ==
    /\ undefined' = kind
    /\ UNCHANGED <<managerVars, sessionVars, main, io, leave>>
-----------------------------------------------------------------------------
(* SessionManager::leave, called by both threads.                          *)

LeaveShutdown(t) ==
    /\ LeaveAt(t, "shutdown")
    /\ session' = [session EXCEPT ![leave[t].s].shutdown = TRUE]
    /\ GoTo(t, "close")
    /\ UNCHANGED <<managerVars, socket, jobs, main, io, undefined>>

\* After 40 ms: m_connection->shutdown(), m_is_connected, close().
LeaveClose(t) ==
    LET s == leave[t].s IN
    /\ LeaveAt(t, "close")
    /\ socket' = [socket EXCEPT ![s] = Closed(@)]
    /\ session' = [session EXCEPT ![s].connected = FALSE]
    /\ GoTo(t, "erase")
    /\ UNCHANGED <<managerVars, jobs, main, io, undefined>>

\* erase() takes several steps of the io thread; whatever the main thread
\* does with the set meanwhile is a race.
LeaveEraseBegin ==
    /\ LeaveAt("io", "erase")
    /\ ~erasing
    /\ erasing' = TRUE
    /\ UNCHANGED <<m_sessions, newConnections, disconnected, left,
                   sessionVars, main, io, leave, undefined>>

LeaveErase(t) ==
    /\ LeaveAt(t, "erase")
    /\ IF t = "main" /\ erasing
       THEN Undefined("race on m_sessions")
       ELSE /\ t = "io" => erasing
            /\ m_sessions' = m_sessions \ {leave[t].s}
            /\ erasing' = FALSE
            /\ GoTo(t, "flag")
            /\ UNCHANGED <<newConnections, disconnected, left, sessionVars,
                           main, io, undefined>>

LeaveFlag(t) ==
    /\ LeaveAt(t, "flag")
    /\ disconnected' = TRUE
    /\ left' = left \union {leave[t].s}
    /\ GoTo(t, "none")
    /\ UNCHANGED <<m_sessions, newConnections, erasing, sessionVars, main, io,
                   undefined>>

Leave(t) == LeaveShutdown(t) \/ LeaveClose(t) \/ LeaveErase(t) \/ LeaveFlag(t)
-----------------------------------------------------------------------------
(* The main thread: Interface::startup.                                    *)

MainGoes(p) == main' = [main EXCEPT !.at = p]

\* While a session is left, and else ~Interface stops the service.
PollEvents ==
    /\ MainAt("top")
    /\ MainGoes(IF m_sessions = {} THEN "stop" ELSE "events")
    /\ UNCHANGED <<managerVars, sessionVars, io, leave, undefined>>

\* process_event() walks m_sessions to the window of the event.
\* SDL_WINDOWEVENT_CLOSE, or ALT-H: InputHandler sets its m_globalShutdown and
\* closes the session.
CloseWindow(s) ==
    /\ UserCloses
    /\ MainAt("events")
    /\ s \in m_sessions
    /\ ~session[s].closing
    /\ IF erasing
       THEN Undefined("race on m_sessions")
       ELSE /\ session' = [session EXCEPT ![s].closing = TRUE]
            /\ BeginLeave("main", s)
            /\ UNCHANGED <<managerVars, socket, jobs, main, io, undefined>>

\* Faulty: only the dialing directory leaves.
CloseDialDirectoryOnly ==
    /\ MainAt("events")
    /\ Dial \in m_sessions
    /\ m_sessions' = m_sessions \ {Dial}
    /\ UNCHANGED <<newConnections, disconnected, erasing, left, sessionVars,
                   main, io, leave, undefined>>

\* Closing the dialing directory is SessionManager::shutdown(): all sessions
\* leave the set, their connections stay as they are.
CloseDialDirectory ==
    /\ MainAt("events")
    /\ Dial \in m_sessions
    /\ IF erasing
       THEN Undefined("race on m_sessions")
       ELSE /\ m_sessions' = {}
            /\ UNCHANGED <<newConnections, disconnected, erasing, left,
                           sessionVars, main, io, leave, undefined>>

\* ALT-D starts a transfer, or ends it and waits for data again, which clears
\* the buffer the io thread may be appending to or parsing.
ToggleTransfer(s) ==
    /\ UserTransfers
    /\ MainAt("events")
    /\ s \in m_sessions
    /\ ~session[s].closing
    /\ jobs[s].read < MaxReads
    /\ IF ~session[s].transfer
       THEN /\ session' = [session EXCEPT ![s].transfer = TRUE]
            /\ UNCHANGED <<managerVars, socket, jobs, main, io, leave, undefined>>
       ELSE IF io.s = s /\ io.job = "read" /\ io.at \in {"callback", "parsed"}
       THEN Undefined("race on m_in_data_vector")
       ELSE /\ WaitForSocketData(s, [session[s] EXCEPT !.transfer = FALSE])
            /\ UNCHANGED <<managerVars, main, io, leave, undefined>>

\* SessionManager::update() starts its walk over the set.
UpdateBegin ==
    /\ MainAt("events")
    /\ IF erasing
       THEN Undefined("race on m_sessions")
       ELSE /\ main' = [at |-> IF m_sessions = {} THEN "stop" ELSE "walk",
                        it |-> Dial,
                        count |-> Cardinality(m_sessions),
                        todo |-> m_sessions]
            /\ UNCHANGED <<managerVars, sessionVars, io, leave, undefined>>

\* The next session of the walk, in the order of their addresses.
UpdateStep ==
    /\ MainAt("walk")
    /\ IF main.todo = {}
       THEN MainGoes("focus")
       ELSE \E s \in main.todo :
               main' = [main EXCEPT !.at = "check", !.it = s]
    /\ UNCHANGED <<managerVars, sessionVars, io, leave, undefined>>

\* "Make sure handle is valid once we call it."
UpdateCheck ==
    /\ MainAt("check")
    /\ IF erasing
       THEN Undefined("race on m_sessions")
       ELSE /\ IF \/ main.count # Cardinality(m_sessions)
                  \/ main.it # Dial /\ session[main.it].shutdown
               THEN MainGoes("focus")
               ELSE MainGoes("update")
            /\ UNCHANGED <<managerVars, sessionVars, io, leave, undefined>>

\* Session::update() of the dialing directory: ENTER on an entry of the list.
UpdateDial ==
    /\ MainAt("update")
    /\ main.it = Dial
    /\ \/ UNCHANGED <<newConnections, session>>
       \/ \E s \in Systems :
             /\ ~session[s].spawned
             /\ newConnections' = Append(newConnections, s)
             /\ session' = [session EXCEPT ![s].spawned = TRUE]
    /\ MainGoes("next")
    /\ UNCHANGED <<m_sessions, disconnected, erasing, left, socket, jobs, io,
                   leave, undefined>>

\* Session::update() of a connection: what the user has typed is delivered.
UpdateSession ==
    /\ MainAt("update")
    /\ main.it # Dial
    /\ \/ UNCHANGED jobs
       \/ CanDeliver(main.it) /\ jobs' = Add(jobs, main.it, "write")
    /\ MainGoes("next")
    /\ UNCHANGED <<managerVars, session, socket, io, leave, undefined>>

\* ++it, on the entry of the session that was updated.
UpdateNext ==
    /\ MainAt("next")
    /\ IF main.it \notin m_sessions
       THEN Undefined("erased iterator")
       ELSE IF erasing
       THEN Undefined("race on m_sessions")
       ELSE /\ main' = [main EXCEPT !.at = "walk",
                                    !.todo = (@ \ {main.it}) \intersect m_sessions]
            /\ UNCHANGED <<managerVars, sessionVars, io, leave, undefined>>

\* grabNewWindowFocus() looks for an active window ...
FocusScan ==
    /\ MainAt("focus")
    /\ IF ~disconnected
       THEN MainGoes("spawn") /\ UNCHANGED <<managerVars, undefined>>
       ELSE IF erasing
       THEN undefined' = "race on m_sessions" /\ UNCHANGED <<main, managerVars>>
       ELSE /\ left' = {}
            /\ MainGoes("focused")
            /\ UNCHANGED <<m_sessions, newConnections, disconnected, erasing,
                           undefined>>
    /\ UNCHANGED <<sessionVars, io, leave>>

\* ... and then resets the flag.
FocusReset ==
    /\ MainAt("focused")
    /\ disconnected' = FALSE
    /\ MainGoes("spawn")
    /\ UNCHANGED <<m_sessions, newConnections, erasing, left, sessionVars, io,
                   leave, undefined>>

\* spawnConnectionSession(): join the manager and connect.
Spawn ==
    /\ MainAt("spawn")
    /\ newConnections # <<>>
    /\ IF erasing
       THEN Undefined("race on m_sessions")
       ELSE LET s == Head(newConnections) IN
            /\ newConnections' = Tail(newConnections)
            /\ m_sessions' = m_sessions \union {s}
            /\ jobs' = Add(jobs, s, "connect")
            /\ UNCHANGED <<disconnected, erasing, left, session, socket, main,
                           io, leave, undefined>>

NothingToSpawn ==
    /\ MainAt("spawn")
    /\ newConnections = <<>>
    /\ MainGoes("top")
    /\ UNCHANGED <<managerVars, sessionVars, io, leave, undefined>>

\* IOService::stop() drops the jobs.
StopService ==
    /\ MainAt("stop")
    /\ jobs' = [s \in Systems |-> NoJobs]
    /\ MainGoes("join")
    /\ UNCHANGED <<managerVars, session, socket, io, leave, undefined>>

JoinThread ==
    /\ MainAt("join")
    /\ IoAt("exited")
    /\ MainGoes("joined")
    /\ UNCHANGED <<managerVars, sessionVars, io, leave, undefined>>
-----------------------------------------------------------------------------
(* The io thread: the socket operations of IOService::run.                 *)

IoGoes(p) == io' = [io EXCEPT !.at = p]

\* The operation of a job is done, and its callback is next.
Calls(s, job, error) ==
    io' = [at |-> "callback", s |-> s, job |-> job, error |-> error]

Taken(s, job) == jobs' = [jobs EXCEPT ![s][job] = @ - 1]

\* Opening a connection blocks the io thread.
ConnectBegin(s) ==
    /\ IoAt("idle")
    /\ jobs[s].connect > 0
    /\ Taken(s, "connect")
    /\ io' = [at |-> "connecting", s |-> s, job |-> "connect", error |-> FALSE]
    /\ UNCHANGED <<managerVars, session, socket, main, leave, undefined>>

ConnectEnd ==
    /\ IoAt("connecting")
    /\ \E ok \in BOOLEAN :
          /\ Calls(io.s, "connect", ~ok)
          /\ socket' = [socket EXCEPT ![io.s] =
                IF ok
                THEN [@ EXCEPT !.present = TRUE, !.active = TRUE, !.open = TRUE]
                ELSE @]
    /\ UNCHANGED <<managerVars, session, jobs, main, leave, undefined>>

\* Faulty: the READ job is not taken from the list first.
ReadDataWithoutJob(s) ==
    /\ IoAt("idle")
    /\ socket[s].active
    /\ Taken(s, "read")
    /\ Calls(s, "read", FALSE)
    /\ UNCHANGED <<managerVars, session, socket, main, leave, undefined>>

\* Data arrived: the bytes are appended to the buffer of the session.
ReadData(s) ==
    /\ IoAt("idle")
    /\ jobs[s].read > 0
    /\ socket[s].active
    /\ socket[s].remote
    /\ Taken(s, "read")
    /\ session' = [session EXCEPT ![s].buffer = IF @ < 2 THEN @ + 1 ELSE @]
    /\ Calls(s, "read", FALSE)
    /\ UNCHANGED <<managerVars, socket, main, leave, undefined>>

\* poll() returns -1 for an inactive socket, and for one of SDL_Socket whose
\* set cannot be checked, which it also closes.  A connection the server has
\* closed is ready, and recvSocket() fails: the socket becomes inactive but
\* stays open.  SSH_Socket::pollSocket() returns 0 for a closed channel.
ReadFails(s) ==
    /\ IoAt("idle")
    /\ jobs[s].read > 0
    /\ \/ ~socket[s].active /\ UNCHANGED socket
       \/ /\ socket[s].active
          /\ ~socket[s].remote
          /\ s \in Telnet
          /\ \/ socket' = [socket EXCEPT ![s].active = FALSE]
             \/ socket' = [socket EXCEPT ![s].active = FALSE, ![s].open = FALSE]
    /\ Taken(s, "read")
    /\ Calls(s, "read", TRUE)
    /\ UNCHANGED <<managerVars, session, main, leave, undefined>>

\* sendSocket() uses m_socket.back() without a test.
Write(s) ==
    /\ IoAt("idle")
    /\ jobs[s].write > 0
    /\ IF ~socket[s].present
       THEN Undefined("back() of an empty vector")
       ELSE /\ \/ /\ socket[s].open
                  /\ Calls(s, "write", FALSE)
                  /\ UNCHANGED socket
               \/ /\ ~socket[s].remote \/ ~socket[s].open
                  /\ Calls(s, "write", TRUE)
                  /\ socket' = [socket EXCEPT ![s].active = FALSE]
            /\ Taken(s, "write")
            /\ UNCHANGED <<managerVars, session, main, leave, undefined>>

\* run() has seen the flag stop() resets.
IoExit ==
    /\ IoAt("idle")
    /\ main.at = "join"
    /\ IoGoes("exited")
    /\ UNCHANGED <<managerVars, sessionVars, main, leave, undefined>>
-----------------------------------------------------------------------------
(* Faulty variants of the callbacks of Session; no specification uses      *)
(* them.                                                                   *)

\* The connection is read although the session shuts down.
HandleConnectionReads ==
    /\ IoAt("callback") /\ io.job = "connect" /\ ~io.error
    /\ session' = [session EXCEPT ![io.s].connected = TRUE]
    /\ jobs' = Add(jobs, io.s, "read")
    /\ IoGoes("idle")
    /\ UNCHANGED <<managerVars, socket, main, leave, undefined>>

\* "If this step is skipped ..."
HandleReadAgainSkipped ==
    /\ IoAt("parsed")
    /\ IoGoes("idle")
    /\ UNCHANGED <<managerVars, sessionVars, main, leave, undefined>>

\* The session marks itself leaving before it tests the mark.
HandleReadErrorStays ==
    /\ IoAt("callback") /\ io.job = "read" /\ io.error
    /\ ~session[io.s].shutdown
    /\ session' = [session EXCEPT ![io.s].leaving = TRUE]
    /\ IoGoes("idle")
    /\ UNCHANGED <<managerVars, socket, jobs, main, leave, undefined>>

\* A write waits for the answer.
HandleWriteReads ==
    /\ IoAt("callback") /\ io.job = "write"
    /\ WaitForSocketData(io.s, session[io.s])
    /\ IoGoes("idle")
    /\ UNCHANGED <<managerVars, main, leave, undefined>>
-----------------------------------------------------------------------------
(* The io thread: the callbacks of Session.                                *)

\* A failed connection leaves the manager, unless its window was closed.
HandleConnectionError ==
    /\ IoAt("callback") /\ io.job = "connect" /\ io.error
    /\ socket' = [socket EXCEPT ![io.s] = Closed(@)]
    /\ session' = [session EXCEPT ![io.s].leaving = TRUE]
    /\ IF session[io.s].closing THEN UNCHANGED leave ELSE BeginLeave("io", io.s)
    /\ IoGoes("idle")
    /\ UNCHANGED <<managerVars, jobs, main, undefined>>

HandleConnection ==
    /\ IoAt("callback") /\ io.job = "connect" /\ ~io.error
    /\ WaitForSocketData(io.s, [session[io.s] EXCEPT !.connected = TRUE])
    /\ IoGoes("idle")
    /\ UNCHANGED <<managerVars, main, leave, undefined>>

\* The session is shutting down: the data or the error is dropped.
HandleReadShutdown ==
    /\ IoAt("callback") /\ io.job = "read" /\ session[io.s].shutdown
    /\ socket' = [socket EXCEPT ![io.s] = Closed(@)]
    /\ IoGoes("idle")
    /\ UNCHANGED <<managerVars, session, jobs, main, leave, undefined>>

\* Data of a running transfer: handleRead returns without reading on.
HandleReadTransfer ==
    /\ IoAt("callback") /\ io.job = "read" /\ ~io.error
    /\ ~session[io.s].shutdown
    /\ io.s \in Telnet /\ session[io.s].transfer
    /\ IoGoes("idle")
    /\ UNCHANGED <<managerVars, sessionVars, main, leave, undefined>>

\* The data is parsed, which may deliver a reply.
HandleReadData ==
    /\ IoAt("callback") /\ io.job = "read" /\ ~io.error
    /\ ~session[io.s].shutdown
    /\ ~(io.s \in Telnet /\ session[io.s].transfer)
    /\ \/ UNCHANGED jobs
       \/ CanDeliver(io.s) /\ jobs' = Add(jobs, io.s, "write")
    /\ IoGoes("parsed")
    /\ UNCHANGED <<managerVars, session, socket, main, leave, undefined>>

HandleReadAgain ==
    /\ IoAt("parsed")
    /\ IF socket[io.s].active
       THEN WaitForSocketData(io.s, session[io.s])
       ELSE UNCHANGED sessionVars
    /\ IoGoes("idle")
    /\ UNCHANGED <<managerVars, main, leave, undefined>>

HandleReadError ==
    LET s == io.s IN
    /\ IoAt("callback") /\ io.job = "read" /\ io.error
    /\ ~session[s].shutdown
    /\ session' = [session EXCEPT ![s].leaving = TRUE]
    /\ IF session[s].leaving \/ session[s].closing
       THEN UNCHANGED leave
       ELSE BeginLeave("io", s)
    /\ IoGoes("idle")
    /\ UNCHANGED <<managerVars, socket, jobs, main, undefined>>

\* After an error the socket is inactive already, so shutdown() is not called.
HandleWrite ==
    /\ IoAt("callback") /\ io.job = "write"
    /\ socket' = [socket EXCEPT ![io.s] =
          IF io.error /\ session[io.s].connected THEN Closed(@) ELSE @]
    /\ IoGoes("idle")
    /\ UNCHANGED <<managerVars, session, jobs, main, leave, undefined>>
-----------------------------------------------------------------------------
\* A server closes its connection.
RemoteCloses(s) ==
    /\ undefined = "none"
    /\ socket[s].open
    /\ socket[s].remote
    /\ socket' = [socket EXCEPT ![s].remote = FALSE]
    /\ UNCHANGED <<managerVars, session, jobs, main, io, leave, undefined>>

Finished == main.at = "joined" \/ undefined # "none"

UserEvent ==
    \/ CloseDialDirectory
    \/ \E s \in Systems : CloseWindow(s) \/ ToggleTransfer(s)

MainStep ==
    \/ PollEvents \/ UpdateBegin \/ UpdateStep \/ UpdateCheck
    \/ UpdateDial \/ UpdateSession \/ UpdateNext \/ FocusScan \/ FocusReset
    \/ Spawn \/ NothingToSpawn \/ StopService \/ JoinThread \/ Leave("main")

Callback ==
    \/ HandleConnectionError \/ HandleConnection \/ HandleReadShutdown
    \/ HandleReadTransfer \/ HandleReadData \/ HandleReadAgain
    \/ HandleReadError \/ HandleWrite

IoStep == ConnectEnd \/ Callback \/ LeaveEraseBegin \/ Leave("io")

IoServes(s) == ConnectBegin(s) \/ ReadData(s) \/ ReadFails(s) \/ Write(s)

Next ==
    \/ MainStep \/ UserEvent \/ IoStep \/ IoExit
    \/ \E s \in Systems : IoServes(s) \/ RemoteCloses(s)
    \/ Finished /\ UNCHANGED vars

Spec == Init /\ [][Next]_vars

(***************************************************************************)
(* Both threads run on; SDL_PollEvent empties the queue of events, so the  *)
(* main thread gets past "events".  The service comes to every job of the  *)
(* list in each pass (JobsAreServed of IOService) and ends after stop()    *)
(* (StopEndsTheThread), however often other jobs are served in between,    *)
(* which is strong fairness here.  Servers and the user may do nothing.    *)
(***************************************************************************)
FairSpec ==
    /\ Spec
    /\ WF_vars(MainStep)
    /\ WF_vars(IoStep)
    /\ SF_vars(IoExit)
    /\ \A s \in Systems :
          /\ SF_vars(ConnectBegin(s))
          /\ SF_vars(ReadFails(s))
          /\ SF_vars(Write(s))
-----------------------------------------------------------------------------
(* Properties.                                                             *)

SessionFlags ==
    [spawned : BOOLEAN, shutdown : BOOLEAN, leaving : BOOLEAN, closing : BOOLEAN,
     connected : BOOLEAN, transfer : BOOLEAN, buffer : 0..2]

SocketFlags ==
    [present : BOOLEAN, active : BOOLEAN, open : BOOLEAN, remote : BOOLEAN]

JobCounts ==
    [read : 0..(MaxReads + 1), write : 0..MaxWrites, connect : 0..1]

MainStates ==
    [at : {"top", "events", "walk", "check", "update", "next", "focus",
           "focused", "spawn", "stop", "join", "joined"},
     it : Sessions, count : Nat, todo : SUBSET Sessions]

IoStates ==
    [at : {"idle", "connecting", "callback", "parsed", "exited"},
     s : Sessions, job : {"read", "write", "connect"}, error : BOOLEAN]

LeaveCalls ==
    [at : {"none", "shutdown", "close", "erase", "flag"}, s : Sessions]

\* The flags and lists of Session, SessionManager and SocketHandler have
\* their types, and the jobs of a session in the service stay within the
\* bounds: nobody takes a job that is not in the list.
TypeOK ==
    /\ m_sessions \subseteq Sessions
    /\ newConnections \in Seq(Systems)
    /\ disconnected \in BOOLEAN /\ erasing \in BOOLEAN
    /\ session \in [Systems -> SessionFlags]
    /\ socket \in [Systems -> SocketFlags]
    /\ jobs \in [Systems -> JobCounts]
    /\ main \in MainStates
    /\ io \in IoStates
    /\ leave \in [Threads -> LeaveCalls]
    /\ left \subseteq Systems

Running == main.at \notin {"stop", "join", "joined"} /\ undefined = "none"

Serving(s) == io.s = s /\ io.at \in {"connecting", "callback", "parsed"}

Reading(s) == Serving(s) /\ io.job = "read"

\* waitForSocketData() passes the buffer of the session by reference, so
\* there must be one READ at a time that fills it: handleRead() asks for the
\* next one only when it is done with the last.
OneRead == \A s \in Systems : jobs[s].read + (IF Reading(s) THEN 1 ELSE 0) <= 1

\* session.hpp:226-227: "Important, clear out buffer before each read.  A
\* reference is passed by Session through the IO Service."  The buffer never
\* holds the data of two reads.
BufferHoldsOneRead == \A s \in Systems : session[s].buffer <= 1

\* A connection the user and the io thread believe to be in use.
InUse(s) ==
    /\ s \in m_sessions
    /\ ~session[s].shutdown /\ ~session[s].closing /\ ~session[s].leaving
    /\ ~(s \in Telnet /\ session[s].transfer)

HasWork(s) == jobs[s].read > 0 \/ jobs[s].connect > 0 \/ Serving(s)

\* A connection in use whose socket is active is read: in every interleaving
\* of callbacks and window events there is a READ job waiting or being done.
\* Without one nothing from the server, not even its end, is ever noticed.
ActiveConnectionIsRead ==
    Running => \A s \in Systems : InUse(s) /\ socket[s].active => HasWork(s)

\* session.hpp:382-384, of the re-arming of the read: "If this step is
\* skipped, then the node will exit since io_service will have no more work!"
\* No session stays without work.
NoSessionWithoutWork ==
    Running => \A s \in Systems : InUse(s) => HasWork(s)

\* session_manager.cpp:117-118, :123: "we need to double check If a session was
\* poped off in the middle of the Iteration", "Make sure handle is valid once
\* we call it."  update() never advances an iterator to an erased entry.
HandleIsValid == undefined # "erased iterator"

\* session_manager.cpp:40: "Start Session Shutdown Sequence, give time for sync
\* and clean exit."  After it the io thread uses no socket that leave() closed.
CleanExit == undefined # "back() of an empty vector"

\* session_manager.hpp:73-74: "Detect anytime a system is removed, is so, we
\* need to reset focus To the first available window from the main thread!"
AnyRemovalIsDetected == undefined = "none" /\ left # {} => disconnected

\* Nothing refers to the session any more: it is destroyed.
Gone(s) ==
    /\ Running
    /\ session[s].spawned
    /\ s \notin m_sessions \union ToSet(newConnections)
    /\ jobs[s] = NoJobs
    /\ ~Serving(s)
    /\ \A t \in Threads : leave[t].at = "none" \/ leave[t].s # s

\* changelog.txt:187-188 (3.0.32): "Added Shutdown Procedures for
\* Connections not yet established.  Eg.. Closing a the Window during a
\* connection is now handled."  A session the user has closed leaves no socket
\* open.
ClosedWindowLeavesNoSocket ==
    \A s \in Systems :
        Gone(s) /\ session[s].closing /\ socket[s].remote => ~socket[s].open

\* async_connection.hpp:69, of close(): "Closes an Open (Maybe Not Connected
\* Socket)".  A session that leaves after an error has its socket closed.
FailedConnectionLeavesNoSocket ==
    m_sessions # {} =>
        \A s \in Systems : Gone(s) /\ session[s].leaving => ~socket[s].open

\* The server ends a TELNET connection in use: the session leaves the manager,
\* unless a transfer is begun or the process meets undefined behaviour first.
RemoteCloseEndsSession ==
    \A s \in Telnet :
        (InUse(s) /\ socket[s].active /\ ~socket[s].remote) ~>
            \/ s \notin m_sessions
            \/ session[s].transfer
            \/ undefined # "none"

\* A session whose window is closed or that hangs up, whatever job of it is
\* waiting or being done, leaves the manager and has no job left.
ClosedWindowLeaves ==
    \A s \in Systems :
        session[s].closing ~>
            \/ s \notin m_sessions /\ jobs[s] = NoJobs
            \/ undefined # "none"

\* Closing the dialing directory ends the program.
DialCloseEndsProgram ==
    (Dial \notin m_sessions) ~> (main.at = "joined" \/ undefined # "none")
=============================================================================
