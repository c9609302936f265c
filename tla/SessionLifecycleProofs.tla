----------------------- MODULE SessionLifecycleProofs -----------------------
(***************************************************************************)
(* The life cycle of a connection, for any number of systems: the types,   *)
(* and that a connection in use always has its READ job, and one only.     *)
(*                                                                         *)
(* Every step of the two threads is, for one connection, one of a handful  *)
(* of kinds (LocalStep); that each kind keeps the invariants is a lemma    *)
(* per invariant, and that there are no other kinds is EveryStep.          *)
(***************************************************************************)
EXTENDS SessionLifecycle, FiniteSetTheorems, TLAPS

(* A thread works for a connection, never for the dialing directory.       *)
Callers ==
    /\ IsFiniteSet(m_sessions)
    /\ \A t \in Threads : leave[t].at # "none" => leave[t].s \in Systems
    /\ io.at \in {"connecting", "callback", "parsed"} => io.s \in Systems
    /\ io.at = "connecting" => io.job = "connect"
    /\ io.at = "parsed" => io.job = "read"

Queued(s) == \E k \in DOMAIN newConnections : newConnections[k] = s

Opening(s) == Serving(s) /\ io.job = "connect"

\* The io thread serves a job of s whose callback may lead to a read.
Holds(s) == Serving(s) /\ io.job # "write"

\* The socket of s has not been opened.
Unopened(s) ==
    \/ ~session[s].spawned
    \/ Queued(s)
    \/ jobs[s].connect > 0
    \/ io.at = "connecting" /\ io.s = s

(* A system is dialled once: it waits in m_new_connections, then in its    *)
(* CONNECT job, then the io thread opens its socket.  Until that is done   *)
(* nothing is read.                                                        *)
OnceAt(s) ==
    /\ ~session[s].spawned =>
          ~Queued(s) /\ jobs[s].connect = 0 /\ ~Opening(s)
    /\ Queued(s) => jobs[s].connect = 0 /\ ~Opening(s)
    /\ jobs[s].connect > 0 => ~Opening(s)
    /\ Unopened(s) => ~socket[s].active /\ jobs[s].read = 0 /\ ~Reading(s)

DialledOnce ==
    /\ \A k, n \in DOMAIN newConnections :
          newConnections[k] = newConnections[n] => k = n
    /\ \A s \in Systems : OnceAt(s)

\* There is room for the READ job the callback may add.
RoomAt(s) == jobs[s].read + (IF Holds(s) THEN 1 ELSE 0) <= MaxReads + 1

IInv ==
    /\ TypeOK
    /\ Callers
    /\ DialledOnce
    /\ \A s \in Systems : RoomAt(s)

(* Without ALT-D: the READ job comes from the callback of the connection   *)
(* or of the last read, and finds the buffer empty.                        *)
ReadAt(s) ==
    /\ jobs[s].read + (IF Reading(s) THEN 1 ELSE 0) <= 1
    /\ Opening(s) => jobs[s].read = 0
    /\ jobs[s].read > 0 => session[s].buffer = 0
    /\ session[s].buffer <= 1

ReadInv == \A s \in Systems : ReadAt(s)

(* The job that keeps an active connection alive is not a WRITE.           *)
Rearmed(s) ==
    \/ jobs[s].read > 0 \/ jobs[s].connect > 0
    \/ Holds(s)

RearmInv ==
    Running => \A s \in Systems : InUse(s) /\ socket[s].active => Rearmed(s)

-----------------------------------------------------------------------------
(* The types, one variable at a time: the actions that change it, and all  *)
(* others together.                                                        *)

LEMMA WaitKeepsFlags ==
    ASSUME session \in [Systems -> SessionFlags], NEW s \in Systems,
           NEW sess \in SessionFlags, WaitForSocketData(s, sess)
    PROVE  session' \in [Systems -> SessionFlags]
<1>1. [sess EXCEPT !.buffer = 0] \in SessionFlags
  BY DEF SessionFlags
<1> QED
  BY <1>1 DEF WaitForSocketData

LEMMA FlagsStep == TypeOK /\ Callers /\ [Next]_vars => session' \in [Systems -> SessionFlags]
<1> SUFFICES ASSUME TypeOK, Callers, [Next]_vars
             PROVE  session' \in [Systems -> SessionFlags]
  OBVIOUS
<1> USE DEF managerVars, sessionVars
<1>0. /\ session \in [Systems -> SessionFlags]
      /\ io.at \in {"connecting", "callback", "parsed"} => io.s \in Systems
      /\ \A t \in Threads : leave[t].at # "none" => leave[t].s \in Systems
  BY DEF TypeOK, Callers
<1>1. ASSUME NEW s \in Systems, CloseWindow(s) \/ ToggleTransfer(s)
      PROVE  session' \in [Systems -> SessionFlags]
  <2>1. CASE CloseWindow(s)
    <3>1. [session[s] EXCEPT !.closing = TRUE] \in SessionFlags
      BY <1>0 DEF SessionFlags
    <3>2. session' = session \/ session' = [session EXCEPT ![s].closing = TRUE]
      BY <2>1 DEF CloseWindow, Undefined
    <3> QED
      BY <1>0, <3>1, <3>2
  <2>2. CASE ToggleTransfer(s)
    <3>1. /\ [session[s] EXCEPT !.transfer = TRUE] \in SessionFlags
          /\ [session[s] EXCEPT !.transfer = FALSE] \in SessionFlags
      BY <1>0 DEF SessionFlags
    <3>2. CASE session' = [session EXCEPT ![s].transfer = TRUE]
      BY <1>0, <3>1, <3>2
    <3>3. CASE WaitForSocketData(s, [session[s] EXCEPT !.transfer = FALSE])
      BY <1>0, <3>1, <3>3, WaitKeepsFlags
    <3>4. CASE UNCHANGED session
      BY <1>0, <3>4
    <3> QED
      BY <2>2, <3>2, <3>3, <3>4 DEF ToggleTransfer, Undefined
  <2> QED
    BY <1>1, <2>1, <2>2
<1>2. CASE UpdateDial
  <2>1. \A s \in Systems : [session[s] EXCEPT !.spawned = TRUE] \in SessionFlags
    BY <1>0 DEF SessionFlags
  <2>2. \/ session' = session
        \/ \E s \in Systems : session' = [session EXCEPT ![s].spawned = TRUE]
    BY <1>2 DEF UpdateDial
  <2> QED
    BY <1>0, <2>1, <2>2
<1>3. ASSUME NEW t \in Threads, LeaveShutdown(t) \/ LeaveClose(t)
      PROVE  session' \in [Systems -> SessionFlags]
  <2>1. leave[t].s \in Systems
    BY <1>0, <1>3 DEF LeaveShutdown, LeaveClose, LeaveAt
  <2>2. \/ session' = [session EXCEPT ![leave[t].s].shutdown = TRUE]
        \/ session' = [session EXCEPT ![leave[t].s].connected = FALSE]
    BY <1>3 DEF LeaveShutdown, LeaveClose
  <2>3. CASE session' = [session EXCEPT ![leave[t].s].shutdown = TRUE]
    BY <1>0, <2>1, <2>3 DEF SessionFlags
  <2>4. CASE session' = [session EXCEPT ![leave[t].s].connected = FALSE]
    BY <1>0, <2>1, <2>4 DEF SessionFlags
  <2> QED
    BY <2>2, <2>3, <2>4
<1>4. ASSUME NEW s \in Systems, ReadData(s)
      PROVE  session' \in [Systems -> SessionFlags]
  BY <1>0, <1>4 DEF SessionFlags, ReadData
<1>5. CASE HandleConnectionError \/ HandleReadError
  BY <1>0, <1>5 DEF SessionFlags, IoAt, HandleConnectionError, HandleReadError
<1>6. CASE HandleConnection \/ HandleReadAgain
  <2>1. io.s \in Systems
    BY <1>0, <1>6 DEF IoAt, HandleConnection, HandleReadAgain
  <2>2. session[io.s] \in SessionFlags
    BY <1>0, <2>1
  <2>3. [session[io.s] EXCEPT !.connected = TRUE] \in SessionFlags
    BY <2>2 DEF SessionFlags
  <2>4. \/ WaitForSocketData(io.s, [session[io.s] EXCEPT !.connected = TRUE])
        \/ WaitForSocketData(io.s, session[io.s])
        \/ UNCHANGED session
    BY <1>6 DEF HandleConnection, HandleReadAgain
  <2> QED
    BY <1>0, <2>1, <2>2, <2>3, <2>4, WaitKeepsFlags
<1>7. UNCHANGED session => session' \in [Systems -> SessionFlags]
  BY <1>0
<1> QED
  BY <1>1, <1>2, <1>3, <1>4, <1>5, <1>6, <1>7
     DEF Next, MainStep, UserEvent, IoStep, Callback, IoServes, Leave, Threads, vars,
         PollEvents, CloseDialDirectory, UpdateBegin, UpdateStep, UpdateCheck,
         UpdateSession, UpdateNext, FocusScan, FocusReset, NothingToSpawn, Spawn,
         StopService, JoinThread, LeaveEraseBegin, LeaveErase, LeaveFlag, IoExit,
         ConnectBegin, ConnectEnd, ReadFails, Write, HandleReadShutdown,
         HandleReadTransfer, HandleReadData, HandleWrite, RemoteCloses, Undefined

LEMMA SocketStep == TypeOK /\ Callers /\ [Next]_vars => socket' \in [Systems -> SocketFlags]
<1> SUFFICES ASSUME TypeOK, Callers, [Next]_vars
             PROVE  socket' \in [Systems -> SocketFlags]
  OBVIOUS
<1> USE DEF managerVars, sessionVars
<1>0. /\ socket \in [Systems -> SocketFlags]
      /\ io.at \in {"connecting", "callback", "parsed"} => io.s \in Systems
      /\ \A t \in Threads : leave[t].at # "none" => leave[t].s \in Systems
  BY DEF TypeOK, Callers
<1>1. \A s \in Systems : Closed(socket[s]) \in SocketFlags
  BY <1>0 DEF Closed, SocketFlags
<1>2. ASSUME NEW t \in Threads, LeaveClose(t)
      PROVE  socket' \in [Systems -> SocketFlags]
  BY <1>0, <1>1, <1>2 DEF LeaveClose, LeaveAt
<1>3. CASE ConnectEnd
  <2>1. io.s \in Systems
    BY <1>0, <1>3 DEF ConnectEnd, IoAt
  <2>2. [socket[io.s] EXCEPT !.present = TRUE, !.active = TRUE, !.open = TRUE] \in SocketFlags
    BY <1>0, <2>1 DEF SocketFlags
  <2> QED
    BY <1>0, <1>3, <2>1, <2>2 DEF ConnectEnd
<1>4. ASSUME NEW s \in Systems, ReadFails(s) \/ Write(s) \/ RemoteCloses(s)
      PROVE  socket' \in [Systems -> SocketFlags]
  <2>1. \/ UNCHANGED socket
        \/ socket' = [socket EXCEPT ![s].active = FALSE]
        \/ socket' = [socket EXCEPT ![s].active = FALSE, ![s].open = FALSE]
        \/ socket' = [socket EXCEPT ![s].remote = FALSE]
    BY <1>4 DEF ReadFails, Write, RemoteCloses, Undefined
  <2>2. CASE socket' = [socket EXCEPT ![s].active = FALSE]
    BY <1>0, <2>2 DEF SocketFlags
  <2>3. CASE socket' = [socket EXCEPT ![s].active = FALSE, ![s].open = FALSE]
    BY <1>0, <2>3 DEF SocketFlags
  <2>4. CASE socket' = [socket EXCEPT ![s].remote = FALSE]
    BY <1>0, <2>4 DEF SocketFlags
  <2> QED
    BY <1>0, <2>1, <2>2, <2>3, <2>4
<1>5. CASE HandleConnectionError \/ HandleReadShutdown \/ HandleWrite
  BY <1>0, <1>1, <1>5 DEF HandleConnectionError, HandleReadShutdown, HandleWrite, IoAt
<1>6. UNCHANGED socket => socket' \in [Systems -> SocketFlags]
  BY <1>0
<1> QED
  BY <1>2, <1>3, <1>4, <1>5, <1>6
     DEF Next, MainStep, UserEvent, IoStep, Callback, IoServes, Leave, Threads, vars,
         PollEvents, CloseDialDirectory, CloseWindow, ToggleTransfer, UpdateBegin,
         UpdateStep, UpdateCheck, UpdateDial, UpdateSession, UpdateNext, FocusScan,
         FocusReset, NothingToSpawn, Spawn, StopService, JoinThread, LeaveShutdown,
         LeaveEraseBegin, LeaveErase, LeaveFlag, IoExit, ConnectBegin, ReadData,
         HandleConnection, HandleReadTransfer, HandleReadData, HandleReadAgain,
         HandleReadError, WaitForSocketData, Undefined

LEMMA MainStatesStep == TypeOK /\ Callers /\ [Next]_vars => main' \in MainStates
<1> SUFFICES ASSUME TypeOK, Callers, [Next]_vars PROVE main' \in MainStates
  OBVIOUS
<1> USE DEF managerVars, sessionVars, MainGoes
<1>0. /\ main \in MainStates
      /\ m_sessions \subseteq Sessions
      /\ IsFiniteSet(m_sessions)
  BY DEF TypeOK, Callers
<1>1. Cardinality(m_sessions) \in Nat
  BY <1>0, FS_CardinalityType
<1>2. Dial \in Sessions
  BY DEF Sessions
<1>3. CASE PollEvents \/ UpdateDial \/ UpdateSession \/ FocusReset
              \/ NothingToSpawn \/ StopService \/ JoinThread
  BY <1>0, <1>3 DEF MainStates, PollEvents, UpdateDial, UpdateSession, FocusReset,
                    NothingToSpawn, StopService, JoinThread
<1>4. CASE UpdateBegin
  <2>1. CASE UNCHANGED main
    BY <1>0, <2>1
  <2>2. CASE main' = [at |-> IF m_sessions = {} THEN "stop" ELSE "walk", it |-> Dial,
                      count |-> Cardinality(m_sessions), todo |-> m_sessions]
    <3>1. (IF m_sessions = {} THEN "stop" ELSE "walk") \in {"stop", "walk"}
      OBVIOUS
    <3> QED
      BY <1>0, <1>1, <1>2, <2>2, <3>1 DEF MainStates
  <2> QED
    BY <1>4, <2>1, <2>2 DEF UpdateBegin, Undefined
<1>5. CASE UpdateStep
  BY <1>0, <1>5 DEF MainStates, UpdateStep
<1>6. CASE UpdateCheck \/ UpdateNext \/ FocusScan
  BY <1>0, <1>6 DEF MainStates, UpdateCheck, UpdateNext, FocusScan, Undefined
<1>7. UNCHANGED main => main' \in MainStates
  BY <1>0
<1> QED
  BY <1>3, <1>4, <1>5, <1>6, <1>7
     DEF Next, MainStep, UserEvent, IoStep, Callback, IoServes, Leave, Threads, vars,
         CloseDialDirectory, CloseWindow, ToggleTransfer, Spawn, LeaveShutdown, LeaveClose,
         LeaveEraseBegin, LeaveErase, LeaveFlag, IoExit, ConnectBegin, ConnectEnd,
         ReadData, ReadFails, Write, HandleConnectionError, HandleConnection,
         HandleReadShutdown, HandleReadTransfer, HandleReadData, HandleReadAgain,
         HandleReadError, HandleWrite, RemoteCloses, Undefined

LEMMA IoStatesStep ==
    TypeOK /\ Callers /\ [Next]_vars
        => /\ io' \in IoStates
           /\ io'.at \in {"connecting", "callback", "parsed"} => io'.s \in Systems
           /\ io'.at = "connecting" => io'.job = "connect"
           /\ io'.at = "parsed" => io'.job = "read"
<1> DEFINE Kept(i) == /\ i \in IoStates
                      /\ i.at \in {"connecting", "callback", "parsed"} => i.s \in Systems
                      /\ i.at = "connecting" => i.job = "connect"
                      /\ i.at = "parsed" => i.job = "read"
<1> SUFFICES ASSUME TypeOK, Callers, [Next]_vars PROVE Kept(io')
  OBVIOUS
<1> USE DEF managerVars, sessionVars, IoGoes, IoAt, Calls
<1>0. Kept(io)
  BY DEF TypeOK, Callers
<1>1. ASSUME NEW s \in Systems, ConnectBegin(s) \/ ReadData(s) \/ ReadFails(s) \/ Write(s)
      PROVE  Kept(io')
  <2>1. \/ UNCHANGED io
        \/ \E at \in {"connecting", "callback"}, job \in {"connect", "read", "write"},
              error \in BOOLEAN :
              /\ at = "connecting" => job = "connect"
              /\ io' = [at |-> at, s |-> s, job |-> job, error |-> error]
    BY <1>1 DEF ConnectBegin, ReadData, ReadFails, Write, Undefined
  <2> QED
    BY <1>0, <2>1 DEF IoStates, Sessions
<1>2. CASE ConnectEnd
  BY <1>0, <1>2 DEF IoStates, ConnectEnd
<1>3. CASE Callback
  BY <1>0, <1>3 DEF IoStates, Callback, HandleConnectionError, HandleConnection,
                    HandleReadShutdown, HandleReadTransfer, HandleReadData, HandleReadAgain,
                    HandleReadError, HandleWrite
<1>4. CASE IoExit
  BY <1>0, <1>4 DEF IoStates, IoExit
<1>5. UNCHANGED io => Kept(io')
  BY <1>0
<1> HIDE DEF Kept
<1> QED
  BY <1>1, <1>2, <1>3, <1>4, <1>5
     DEF Next, MainStep, UserEvent, IoStep, IoServes, Leave, Threads, vars,
         PollEvents, CloseDialDirectory, CloseWindow, ToggleTransfer, UpdateBegin,
         UpdateStep, UpdateCheck, UpdateDial, UpdateSession, UpdateNext, FocusScan,
         FocusReset, NothingToSpawn, Spawn, StopService, JoinThread, LeaveShutdown,
         LeaveClose, LeaveEraseBegin, LeaveErase, LeaveFlag, RemoteCloses, Undefined

LEMMA LeaveStep ==
    TypeOK /\ Callers /\ [Next]_vars
        => /\ leave' \in [Threads -> LeaveCalls]
           /\ \A t \in Threads : leave'[t].at # "none" => leave'[t].s \in Systems
<1> DEFINE Kept(l) == /\ l \in [Threads -> LeaveCalls]
                      /\ \A t \in Threads : l[t].at # "none" => l[t].s \in Systems
<1> SUFFICES ASSUME TypeOK, Callers, [Next]_vars PROVE Kept(leave')
  OBVIOUS
<1> USE DEF managerVars, sessionVars
<1>0. /\ Kept(leave)
      /\ io.at \in {"connecting", "callback", "parsed"} => io.s \in Systems
  BY DEF TypeOK, Callers
<1>1. ASSUME NEW t \in Threads, NEW s \in Systems, BeginLeave(t, s)
      PROVE  Kept(leave')
  <2>1. [at |-> "shutdown", s |-> s] \in LeaveCalls
    BY DEF LeaveCalls, Sessions
  <2> QED
    BY <1>0, <1>1, <2>1 DEF BeginLeave
<1>2. ASSUME NEW t \in Threads, NEW p \in {"close", "erase", "flag"},
             leave[t].at # "none", GoTo(t, p)
      PROVE  Kept(leave')
  BY <1>0, <1>2 DEF GoTo, LeaveCalls
<1>3. ASSUME NEW t \in Threads, GoTo(t, "none")
      PROVE  Kept(leave')
  BY <1>0, <1>3 DEF GoTo, LeaveCalls
<1>4. ASSUME NEW s \in Systems, CloseWindow(s)
      PROVE  Kept(leave')
  BY <1>0, <1>1, <1>4 DEF CloseWindow, Undefined, Threads
<1>5. ASSUME NEW t \in Threads, Leave(t)
      PROVE  Kept(leave')
  BY <1>0, <1>2, <1>3, <1>5 DEF Leave, LeaveShutdown, LeaveClose, LeaveErase, LeaveFlag,
                                LeaveAt, Undefined
<1>6. CASE HandleConnectionError \/ HandleReadError
  BY <1>0, <1>1, <1>6 DEF HandleConnectionError, HandleReadError, IoAt, Threads
<1>7. UNCHANGED leave => Kept(leave')
  BY <1>0
<1> HIDE DEF Kept
<1> QED
  BY <1>4, <1>5, <1>6, <1>7
     DEF Next, MainStep, UserEvent, IoStep, Callback, IoServes, Threads, vars,
         PollEvents, CloseDialDirectory, ToggleTransfer, UpdateBegin, UpdateStep,
         UpdateCheck, UpdateDial, UpdateSession, UpdateNext, FocusScan, FocusReset,
         NothingToSpawn, Spawn, StopService, JoinThread, LeaveEraseBegin, IoExit,
         ConnectBegin, ConnectEnd, ReadData, ReadFails, Write, HandleConnection,
         HandleReadShutdown, HandleReadTransfer, HandleReadData, HandleReadAgain,
         HandleWrite, RemoteCloses, Undefined

LEMMA ManagerStep ==
    TypeOK /\ Callers /\ [Next]_vars
        => /\ m_sessions' \subseteq Sessions
           /\ IsFiniteSet(m_sessions')
           /\ newConnections' \in Seq(Systems)
           /\ disconnected' \in BOOLEAN
           /\ erasing' \in BOOLEAN
           /\ left' \subseteq Systems
<1> SUFFICES ASSUME TypeOK, Callers, [Next]_vars
             PROVE  /\ m_sessions' \subseteq Sessions
                    /\ IsFiniteSet(m_sessions')
                    /\ newConnections' \in Seq(Systems)
                    /\ disconnected' \in BOOLEAN
                    /\ erasing' \in BOOLEAN
                    /\ left' \subseteq Systems
  OBVIOUS
<1> USE DEF managerVars, sessionVars
<1>0. /\ m_sessions \subseteq Sessions
      /\ IsFiniteSet(m_sessions)
      /\ newConnections \in Seq(Systems)
      /\ disconnected \in BOOLEAN
      /\ erasing \in BOOLEAN
      /\ left \subseteq Systems
      /\ \A t \in Threads : leave[t].at # "none" => leave[t].s \in Systems
  BY DEF TypeOK, Callers
<1>1. CASE CloseDialDirectory
  BY <1>0, <1>1, FS_EmptySet DEF CloseDialDirectory, Undefined
<1>2. CASE UpdateDial
  BY <1>0, <1>2 DEF UpdateDial
<1>3. CASE Spawn
  <2>1. newConnections # <<>> => /\ Head(newConnections) \in Systems
                                 /\ Tail(newConnections) \in Seq(Systems)
    BY <1>0
  <2>2. IsFiniteSet(m_sessions \union {Head(newConnections)})
    BY <1>0, FS_AddElement
  <2> QED
    BY <1>0, <1>3, <2>1, <2>2 DEF Spawn, Undefined, Sessions
<1>4. ASSUME NEW t \in Threads, LeaveErase(t)
      PROVE  /\ m_sessions' \subseteq Sessions /\ IsFiniteSet(m_sessions')
             /\ erasing' \in BOOLEAN
             /\ UNCHANGED <<newConnections, disconnected, left>>
  <2>1. IsFiniteSet(m_sessions \ {leave[t].s})
    BY <1>0, FS_RemoveElement
  <2> QED
    BY <1>0, <1>4, <2>1 DEF LeaveErase, Undefined
<1>5. ASSUME NEW t \in Threads, LeaveFlag(t)
      PROVE  /\ disconnected' \in BOOLEAN /\ left' \subseteq Systems
             /\ UNCHANGED <<m_sessions, newConnections, erasing>>
  BY <1>0, <1>5 DEF LeaveFlag, LeaveAt
<1>6. CASE LeaveEraseBegin \/ FocusScan \/ FocusReset
  BY <1>0, <1>6 DEF LeaveEraseBegin, FocusScan, FocusReset
<1>7. CASE UNCHANGED managerVars
  BY <1>0, <1>7
<1> QED
  <2> HIDE DEF managerVars
  <2>1. \/ CloseDialDirectory \/ UpdateDial \/ Spawn
        \/ \E t \in Threads : LeaveErase(t) \/ LeaveFlag(t)
        \/ LeaveEraseBegin \/ FocusScan \/ FocusReset
        \/ UNCHANGED managerVars
    BY DEF Next, MainStep, UserEvent, IoStep, Callback, IoServes, Leave, Threads, vars,
         PollEvents, CloseWindow, ToggleTransfer, UpdateBegin, UpdateStep, UpdateCheck,
         UpdateSession, UpdateNext, NothingToSpawn, StopService, JoinThread,
         LeaveShutdown, LeaveClose, IoExit, ConnectBegin, ConnectEnd, ReadData, ReadFails,
         Write, HandleConnectionError, HandleConnection, HandleReadShutdown,
         HandleReadTransfer, HandleReadData, HandleReadAgain, HandleReadError,
         HandleWrite, RemoteCloses, Undefined, managerVars
  <2> QED
    BY <1>0, <1>1, <1>2, <1>3, <1>4, <1>5, <1>6, <1>7, <2>1

-----------------------------------------------------------------------------
(* What a step does to the dialling and the reading of one connection.     *)

ReadsOn(s) == jobs'[s].read = jobs[s].read /\ session'[s].buffer = session[s].buffer

Dialled(s) ==
    /\ ~session[s].spawned /\ session'[s].spawned
    /\ jobs'[s] = jobs[s] /\ socket'[s] = socket[s] /\ io' = io
    /\ ReadsOn(s)

Joined(s) ==
    /\ Queued(s) /\ ~Queued(s)'
    /\ jobs'[s].connect = jobs[s].connect + 1
    /\ session'[s] = session[s] /\ socket'[s] = socket[s] /\ io' = io
    /\ ReadsOn(s)

ConnectTaken(s) ==
    /\ io.at = "idle" /\ jobs[s].connect > 0
    /\ jobs'[s].connect = jobs[s].connect - 1
    /\ io'.at = "connecting" /\ io'.s = s /\ io'.job = "connect"
    /\ session'[s] = session[s] /\ socket'[s] = socket[s]
    /\ (Queued(s)' <=> Queued(s))
    /\ ReadsOn(s)

Opened(s) ==
    /\ io.at = "connecting" /\ io.s = s
    /\ io'.at = "callback" /\ io'.s = s /\ io'.job = io.job
    /\ session'[s] = session[s] /\ jobs'[s] = jobs[s]
    /\ (Queued(s)' <=> Queued(s))

\* No step of s brings it nearer to being opened.
NotDialled(s) ==
    /\ session'[s].spawned = session[s].spawned
    /\ Queued(s)' => Queued(s)
    /\ jobs'[s].connect <= jobs[s].connect
    /\ socket'[s].active => socket[s].active

ReadTaken(s) ==
    /\ NotDialled(s)
    /\ io.at = "idle" /\ jobs[s].read > 0
    /\ jobs'[s].read = jobs[s].read - 1
    /\ io'.at = "callback" /\ io'.s = s /\ io'.job = "read"
    /\ session'[s].buffer <= session[s].buffer + 1

\* One READ job more for an active socket, and an empty buffer; or no job.
MayRead(s) ==
    \/ /\ socket[s].active
       /\ jobs'[s].read = jobs[s].read + 1
       /\ session'[s].buffer = 0
    \/ jobs'[s].read = jobs[s].read /\ session'[s].buffer <= session[s].buffer

CalledBack(s) ==
    /\ NotDialled(s)
    /\ Holds(s) /\ io.at # "connecting"
    /\ io'.at = "idle"
    /\ MayRead(s)

Toggled(s) ==
    /\ UserTransfers /\ jobs[s].read < MaxReads
    /\ NotDialled(s)
    /\ io' = io
    /\ MayRead(s)

Quiet(s) ==
    /\ NotDialled(s)
    /\ jobs'[s].read <= jobs[s].read
    /\ session'[s].buffer <= session[s].buffer
    /\ io'.at = "connecting" /\ io'.s = s => io.at = "connecting" /\ io.s = s
    /\ Opening(s)' => Opening(s)
    /\ Reading(s)' => Reading(s)

LocalStep(s) ==
    \/ Dialled(s) \/ Joined(s) \/ ConnectTaken(s) \/ Opened(s)
    \/ ReadTaken(s) \/ CalledBack(s) \/ Toggled(s) \/ Quiet(s)

(* What each kind of step keeps.                                           *)
LEMMA OnceLocal ==
    ASSUME IInv, NEW s \in Systems, LocalStep(s),
           session' \in [Systems -> SessionFlags], jobs' \in [Systems -> JobCounts]
    PROVE  OnceAt(s)'
<1>1. /\ OnceAt(s)
      /\ jobs[s].read \in Nat /\ jobs[s].connect \in 0..1
      /\ jobs'[s].read \in Nat /\ jobs'[s].connect \in 0..1
      /\ io.at = "connecting" => io.job = "connect"
  <2>1. jobs \in [Systems -> JobCounts]
    BY DEF IInv, TypeOK
  <2>2. jobs[s] \in JobCounts /\ jobs'[s] \in JobCounts
    BY <2>1
  <2>3. OnceAt(s) /\ (io.at = "connecting" => io.job = "connect")
    BY DEF IInv, Callers, DialledOnce
  <2> QED
    BY <2>2, <2>3 DEF JobCounts, MaxReads
<1> USE DEF OnceAt, Opening, Serving, Reading, Unopened
<1>2. CASE Dialled(s)
  BY <1>1, <1>2 DEF Dialled
<1>3. CASE Joined(s)
  BY <1>1, <1>3 DEF Joined, ReadsOn
<1>4. CASE ConnectTaken(s)
  BY <1>1, <1>4 DEF ConnectTaken, ReadsOn
<1>5. CASE Opened(s)
  BY <1>1, <1>5 DEF Opened
<1>6. CASE ReadTaken(s)
  BY <1>1, <1>6 DEF ReadTaken, NotDialled
<1>7. CASE CalledBack(s)
  BY <1>1, <1>7 DEF CalledBack, NotDialled, MayRead, Holds
<1>8. CASE Toggled(s)
  BY <1>1, <1>8 DEF Toggled, NotDialled, MayRead
<1>9. CASE Quiet(s)
  BY <1>1, <1>9 DEF Quiet, NotDialled
<1> QED
  BY <1>2, <1>3, <1>4, <1>5, <1>6, <1>7, <1>8, <1>9 DEF LocalStep

LEMMA RoomLocal ==
    ASSUME IInv, NEW s \in Systems, LocalStep(s), jobs'[s].read \in Nat, io' \in IoStates
    PROVE  RoomAt(s)'
<1>1. /\ OnceAt(s) /\ RoomAt(s)
      /\ jobs[s].read \in Nat
      /\ io.at = "connecting" => io.job = "connect"
      /\ io.at = "parsed" => io.job = "read"
      /\ io.job \in {"read", "write", "connect"}
  <2>1. jobs \in [Systems -> JobCounts] /\ io \in IoStates
    BY DEF IInv, TypeOK
  <2>2. jobs[s] \in JobCounts
    BY <2>1
  <2>3. OnceAt(s) /\ RoomAt(s) /\ (io.at = "connecting" => io.job = "connect")
        /\ (io.at = "parsed" => io.job = "read")
    BY DEF IInv, Callers, DialledOnce
  <2> QED
    BY <2>1, <2>2, <2>3 DEF JobCounts, MaxReads, IoStates
<1> USE DEF OnceAt, RoomAt, Opening, Serving, Reading, Unopened, Holds, MaxReads
<1>2. CASE Dialled(s)
  BY <1>1, <1>2 DEF Dialled, ReadsOn
<1>3. CASE Joined(s)
  BY <1>1, <1>3 DEF Joined, ReadsOn
<1>4. CASE ConnectTaken(s)
  BY <1>1, <1>4 DEF ConnectTaken, ReadsOn
<1>5. CASE Opened(s)
  BY <1>1, <1>5 DEF Opened
<1>6. CASE ReadTaken(s)
  BY <1>1, <1>6 DEF ReadTaken, NotDialled
<1>7. CASE CalledBack(s)
  BY <1>1, <1>7 DEF CalledBack, NotDialled, MayRead
<1>8. CASE Toggled(s)
  BY <1>1, <1>8 DEF Toggled, NotDialled, MayRead
<1>9. CASE Quiet(s)
  <2>1. io'.job \in {"read", "write", "connect"}
    BY DEF IoStates
  <2> QED
    BY <1>1, <1>9, <2>1 DEF Quiet, NotDialled
<1> QED
  BY <1>2, <1>3, <1>4, <1>5, <1>6, <1>7, <1>8, <1>9 DEF LocalStep

LEMMA ReadLocal ==
    ASSUME IInv, ~UserTransfers, NEW s \in Systems, ReadAt(s), LocalStep(s),
           jobs'[s].read \in Nat, session'[s].buffer \in Nat
    PROVE  ReadAt(s)'
<1>1. /\ OnceAt(s) /\ ReadAt(s)
      /\ jobs[s].read \in Nat /\ session[s].buffer \in Nat
      /\ io.at = "connecting" => io.job = "connect"
      /\ io.at = "parsed" => io.job = "read"
      /\ io.job \in {"read", "write", "connect"}
  <2>1. /\ jobs \in [Systems -> JobCounts] /\ session \in [Systems -> SessionFlags]
        /\ io \in IoStates
    BY DEF IInv, TypeOK
  <2>2. jobs[s] \in JobCounts /\ session[s] \in SessionFlags
    BY <2>1
  <2>3. OnceAt(s) /\ (io.at = "connecting" => io.job = "connect")
        /\ (io.at = "parsed" => io.job = "read")
    BY DEF IInv, Callers, DialledOnce
  <2> QED
    BY <2>1, <2>2, <2>3 DEF JobCounts, SessionFlags, MaxReads, IoStates
<1> USE DEF OnceAt, ReadAt, Opening, Serving, Reading, Unopened, Holds
<1>2. CASE Dialled(s)
  BY <1>1, <1>2 DEF Dialled, ReadsOn
<1>3. CASE Joined(s)
  BY <1>1, <1>3 DEF Joined, ReadsOn
<1>4. CASE ConnectTaken(s)
  BY <1>1, <1>4 DEF ConnectTaken, ReadsOn
<1>5. CASE Opened(s)
  BY <1>1, <1>5 DEF Opened
<1>6. CASE ReadTaken(s)
  BY <1>1, <1>6 DEF ReadTaken, NotDialled
<1>7. CASE CalledBack(s)
  BY <1>1, <1>7 DEF CalledBack, NotDialled, MayRead
<1>8. CASE Quiet(s)
  BY <1>1, <1>8 DEF Quiet, NotDialled
<1> QED
  BY <1>2, <1>3, <1>4, <1>5, <1>6, <1>7, <1>8 DEF LocalStep, Toggled

-----------------------------------------------------------------------------
(* The jobs, and the steps of a connection.                                *)
LEMMA Counts ==
    ASSUME IInv, NEW s \in Systems
    PROVE  /\ jobs \in [Systems -> JobCounts]
           /\ jobs[s].read \in 0..3 /\ jobs[s].write \in 0..MaxWrites
           /\ jobs[s].connect \in 0..1
           /\ session[s].buffer \in 0..2
           /\ socket[s] \in SocketFlags
           /\ OnceAt(s) /\ RoomAt(s)
<1>1. /\ jobs \in [Systems -> JobCounts] /\ session \in [Systems -> SessionFlags]
      /\ socket \in [Systems -> SocketFlags]
  BY DEF IInv, TypeOK
<1>2. jobs[s] \in JobCounts /\ session[s] \in SessionFlags
  BY <1>1
<1>3. OnceAt(s) /\ RoomAt(s)
  BY DEF IInv, DialledOnce
<1> QED
  BY <1>1, <1>2, <1>3 DEF JobCounts, SessionFlags, MaxReads

LEMMA OneMore ==
    ASSUME IInv, NEW s \in Systems
    PROVE  /\ jobs[s].read < 3 => Add(jobs, s, "read") \in [Systems -> JobCounts]
           /\ jobs[s].write < MaxWrites => Add(jobs, s, "write") \in [Systems -> JobCounts]
           /\ jobs[s].connect = 0 => Add(jobs, s, "connect") \in [Systems -> JobCounts]
           /\ jobs[s].read > 0 => [jobs EXCEPT ![s]["read"] = @ - 1] \in [Systems -> JobCounts]
           /\ jobs[s].write > 0 => [jobs EXCEPT ![s]["write"] = @ - 1] \in [Systems -> JobCounts]
           /\ jobs[s].connect > 0 =>
                 [jobs EXCEPT ![s]["connect"] = @ - 1] \in [Systems -> JobCounts]
<1>1. jobs \in [Systems -> JobCounts]
  BY Counts
<1>2. /\ jobs[s].read \in 0..3 /\ jobs[s].write \in 0..MaxWrites
      /\ jobs[s].connect \in 0..1
  BY Counts
<1>a. jobs[s].read < 3 => Add(jobs, s, "read") \in [Systems -> JobCounts]
  BY <1>1, <1>2 DEF JobCounts, MaxReads, Add
<1>b. jobs[s].write < MaxWrites => Add(jobs, s, "write") \in [Systems -> JobCounts]
  BY <1>1, <1>2, MaxWritesAssumption DEF JobCounts, MaxReads, Add
<1>c. jobs[s].connect = 0 => Add(jobs, s, "connect") \in [Systems -> JobCounts]
  BY <1>1, <1>2 DEF JobCounts, MaxReads, Add
<1>d. jobs[s].read > 0 => [jobs EXCEPT ![s]["read"] = @ - 1] \in [Systems -> JobCounts]
  BY <1>1, <1>2 DEF JobCounts, MaxReads
<1>e. jobs[s].write > 0 => [jobs EXCEPT ![s]["write"] = @ - 1] \in [Systems -> JobCounts]
  BY <1>1, <1>2, MaxWritesAssumption DEF JobCounts, MaxReads
<1>f. jobs[s].connect > 0 => [jobs EXCEPT ![s]["connect"] = @ - 1] \in [Systems -> JobCounts]
  BY <1>1, <1>2 DEF JobCounts, MaxReads
<1> QED
  BY <1>a, <1>b, <1>c, <1>d, <1>e, <1>f

LEMMA WaitKeepsJobs ==
    ASSUME IInv, NEW s \in Systems, NEW sess, jobs[s].read < 3, WaitForSocketData(s, sess)
    PROVE  jobs' \in [Systems -> JobCounts]
BY Counts, OneMore DEF WaitForSocketData

LEMMA JobsStep == IInv /\ [Next]_vars => jobs' \in [Systems -> JobCounts]
<1> SUFFICES ASSUME IInv, [Next]_vars PROVE jobs' \in [Systems -> JobCounts]
  OBVIOUS
<1> USE DEF managerVars, sessionVars
<1>0. /\ jobs \in [Systems -> JobCounts]
      /\ newConnections \in Seq(Systems)
      /\ main \in MainStates
      /\ io.at \in {"connecting", "callback", "parsed"} => io.s \in Systems
      /\ io.at = "parsed" => io.job = "read"
  BY DEF IInv, TypeOK, Callers
<1>1. \A s \in Systems : Holds(s) => jobs[s].read < 3
  BY Counts DEF RoomAt, MaxReads
<1>2. ASSUME NEW s \in Systems, ToggleTransfer(s)
      PROVE  jobs' \in [Systems -> JobCounts]
  <2>1. jobs[s].read < 3
    <3>1. jobs[s].read \in 0..3
      BY Counts
    <3>2. jobs[s].read < MaxReads
      BY <1>2 DEF ToggleTransfer
    <3> QED
      BY <3>1, <3>2 DEF MaxReads
  <2> QED
    BY <1>0, <1>2, <2>1, WaitKeepsJobs DEF ToggleTransfer, Undefined
<1>3. CASE UpdateSession
  <2>1. main.it \in Systems
    BY <1>0, <1>3 DEF UpdateSession, MainStates, Sessions
  <2>2. \/ UNCHANGED jobs
        \/ jobs[main.it].write < MaxWrites /\ jobs' = Add(jobs, main.it, "write")
    BY <1>3 DEF UpdateSession, CanDeliver
  <2> QED
    BY <1>0, <2>1, <2>2, OneMore
<1>4. CASE Spawn
  <2>1. CASE erasing
    BY <1>0, <1>4, <2>1 DEF Spawn, Undefined
  <2>2. CASE ~erasing
    <3> DEFINE s == Head(newConnections)
    <3>1. s \in Systems /\ Queued(s)
      <4>1. newConnections # <<>>
        BY <1>4 DEF Spawn
      <4>2. 1 \in DOMAIN newConnections /\ s = newConnections[1] /\ s \in Systems
        BY <1>0, <4>1
      <4> QED
        BY <4>2 DEF Queued
    <3>2. jobs[s].connect = 0
      BY <3>1, Counts DEF OnceAt
    <3>3. jobs' = Add(jobs, s, "connect")
      BY <1>4, <2>2 DEF Spawn
    <3> QED
      BY <3>1, <3>2, <3>3, OneMore
  <2> QED
    BY <2>1, <2>2
<1>5. CASE StopService
  BY <1>5, MaxWritesAssumption DEF StopService, NoJobs, JobCounts, MaxReads
<1>6. ASSUME NEW s \in Systems, ConnectBegin(s) \/ ReadData(s) \/ ReadFails(s) \/ Write(s)
      PROVE  jobs' \in [Systems -> JobCounts]
  <2>1. \/ UNCHANGED jobs
        \/ jobs[s].connect > 0 /\ Taken(s, "connect")
        \/ jobs[s].read > 0 /\ Taken(s, "read")
        \/ jobs[s].write > 0 /\ Taken(s, "write")
    BY <1>6 DEF ConnectBegin, ReadData, ReadFails, Write, Undefined
  <2>2. /\ jobs[s].connect > 0 /\ Taken(s, "connect") => jobs' \in [Systems -> JobCounts]
        /\ jobs[s].read > 0 /\ Taken(s, "read") => jobs' \in [Systems -> JobCounts]
        /\ jobs[s].write > 0 /\ Taken(s, "write") => jobs' \in [Systems -> JobCounts]
    <3> USE DEF Taken
    <3>1. jobs[s].connect > 0 /\ Taken(s, "connect") => jobs' \in [Systems -> JobCounts]
      BY OneMore
    <3>2. jobs[s].read > 0 /\ Taken(s, "read") => jobs' \in [Systems -> JobCounts]
      BY OneMore
    <3>3. jobs[s].write > 0 /\ Taken(s, "write") => jobs' \in [Systems -> JobCounts]
      BY OneMore
    <3> QED
      BY <3>1, <3>2, <3>3
  <2> QED
    BY <1>0, <2>1, <2>2
<1>7. CASE HandleConnection \/ HandleReadAgain
  <2>1. io.s \in Systems /\ Holds(io.s)
    BY <1>0, <1>7 DEF HandleConnection, HandleReadAgain, IoAt, Holds, Serving
  <2>2. jobs[io.s].read < 3
    BY <1>1, <2>1
  <2> QED
    BY <1>0, <1>7, <2>1, <2>2, WaitKeepsJobs DEF HandleConnection, HandleReadAgain
<1>8. CASE HandleReadData
  <2>1. io.s \in Systems
    BY <1>0, <1>8 DEF HandleReadData, IoAt
  <2> QED
    BY <1>0, <1>8, <2>1, OneMore DEF HandleReadData, CanDeliver
<1>9. UNCHANGED jobs => jobs' \in [Systems -> JobCounts]
  BY <1>0
<1> QED
  BY <1>2, <1>3, <1>4, <1>5, <1>6, <1>7, <1>8, <1>9
     DEF Next, MainStep, UserEvent, IoStep, Callback, IoServes, Leave, Threads, vars,
         PollEvents, CloseDialDirectory, CloseWindow, UpdateBegin, UpdateStep, UpdateCheck,
         UpdateDial, UpdateNext, FocusScan, FocusReset, NothingToSpawn, JoinThread,
         LeaveShutdown, LeaveClose, LeaveEraseBegin, LeaveErase, LeaveFlag, IoExit,
         ConnectEnd, HandleConnectionError, HandleReadShutdown, HandleReadTransfer,
         HandleReadError, HandleWrite, RemoteCloses, Undefined

\* Steps that leave the connection, its jobs and the io thread alone.
LEMMA Untouched ==
    ASSUME IInv, NEW s \in Systems,
           session'[s] = session[s], UNCHANGED io,
           Queued(s)' => Queued(s),
           jobs'[s].read = jobs[s].read, jobs'[s].connect = jobs[s].connect,
           socket'[s].active => socket[s].active
    PROVE  Quiet(s)
BY Counts DEF Quiet, NotDialled, Opening, Reading, Serving

LEMMA FirstOfQueue ==
    ASSUME IInv, newConnections # <<>>, newConnections' = Tail(newConnections),
           NEW h, h = Head(newConnections)
    PROVE  /\ h \in Systems
           /\ Queued(h) /\ ~Queued(h)'
           /\ \A s \in Systems : Queued(s)' => Queued(s)
           /\ \A k, n \in DOMAIN newConnections' :
                 newConnections'[k] = newConnections'[n] => k = n
<1>1. /\ newConnections \in Seq(Systems)
      /\ \A k, n \in DOMAIN newConnections :
            newConnections[k] = newConnections[n] => k = n
  BY DEF IInv, TypeOK, DialledOnce
<1>2. /\ h = newConnections[1]
      /\ Len(newConnections) \in Nat \ {0}
      /\ DOMAIN newConnections = 1..Len(newConnections)
      /\ DOMAIN newConnections' = 1..(Len(newConnections) - 1)
      /\ \A k \in DOMAIN newConnections' : newConnections'[k] = newConnections[k + 1]
  BY <1>1
<1>3. /\ 1 \in DOMAIN newConnections
      /\ \A k \in DOMAIN newConnections' : k + 1 \in DOMAIN newConnections /\ k + 1 # 1
  BY <1>2
<1>4. \A k, n \in DOMAIN newConnections' : k + 1 = n + 1 => k = n
  BY <1>2
<1>5. h \in Systems /\ Queued(h)
  BY <1>1, <1>2, <1>3 DEF Queued
<1>6. ~Queued(h)'
  BY <1>1, <1>2, <1>3 DEF Queued
<1>7. \A s \in Systems : Queued(s)' => Queued(s)
  BY <1>2, <1>3 DEF Queued
<1>8. ASSUME NEW k \in DOMAIN newConnections', NEW n \in DOMAIN newConnections',
             newConnections'[k] = newConnections'[n]
      PROVE  k = n
  <2>1. newConnections[k + 1] = newConnections[n + 1]
    BY <1>2, <1>8
  <2> QED
    BY <1>1, <1>3, <1>4, <2>1
<1> QED
  BY <1>5, <1>6, <1>7, <1>8

LEMMA EndOfQueue ==
    ASSUME IInv, NEW s \in Systems, ~Queued(s),
           newConnections' = Append(newConnections, s)
    PROVE  /\ \A r \in Systems : r # s /\ Queued(r)' => Queued(r)
           /\ \A k, n \in DOMAIN newConnections' :
                 newConnections'[k] = newConnections'[n] => k = n
<1>1. /\ newConnections \in Seq(Systems)
      /\ \A k, n \in DOMAIN newConnections :
            newConnections[k] = newConnections[n] => k = n
  BY DEF IInv, TypeOK, DialledOnce
<1>2. /\ Len(newConnections) \in Nat
      /\ DOMAIN newConnections = 1..Len(newConnections)
      /\ DOMAIN newConnections' = 1..(Len(newConnections) + 1)
      /\ newConnections'[Len(newConnections) + 1] = s
      /\ \A k \in DOMAIN newConnections : newConnections'[k] = newConnections[k]
  BY <1>1
<1>3. \A k \in DOMAIN newConnections' :
         k \in DOMAIN newConnections \/ k = Len(newConnections) + 1
  BY <1>2
<1> QED
  BY <1>1, <1>2, <1>3 DEF Queued

LEMMA WaitMayRead ==
    ASSUME IInv, NEW s \in Systems, NEW sess \in SessionFlags,
           sess.spawned = session[s].spawned, sess.buffer = session[s].buffer,
           WaitForSocketData(s, sess), UNCHANGED newConnections
    PROVE  NotDialled(s) /\ MayRead(s)
<1>1. /\ session \in [Systems -> SessionFlags] /\ jobs \in [Systems -> JobCounts]
      /\ sess \in SessionFlags
  BY DEF IInv, TypeOK
<1>2. /\ session'[s].spawned = session[s].spawned /\ session'[s].buffer = 0
      /\ UNCHANGED socket
  BY <1>1 DEF WaitForSocketData, SessionFlags
<1>3. /\ jobs'[s].connect = jobs[s].connect
      /\ \/ jobs'[s].read = jobs[s].read
         \/ socket[s].active /\ jobs'[s].read = jobs[s].read + 1
  BY <1>1 DEF WaitForSocketData, Add, JobCounts
<1>4. jobs[s].connect \in 0..1 /\ session[s].buffer \in 0..2
  BY Counts
<1>5. Queued(s)' => Queued(s)
  BY DEF Queued
<1> QED
  BY <1>2, <1>3, <1>4, <1>5 DEF NotDialled, MayRead

LEMMA WaitOthers ==
    ASSUME IInv, NEW s \in Systems, NEW r \in Systems, r # s, NEW sess,
           WaitForSocketData(s, sess)
    PROVE  session'[r] = session[r] /\ jobs'[r] = jobs[r] /\ socket'[r] = socket[r]
<1>1. /\ session \in [Systems -> SessionFlags] /\ jobs \in [Systems -> JobCounts]
  BY DEF IInv, TypeOK
<1> QED
  BY <1>1 DEF WaitForSocketData, Add

LEMMA EveryStep ==
    ASSUME IInv, [Next]_vars, NEW r \in Systems
    PROVE  LocalStep(r)
<1> USE DEF managerVars, sessionVars
<1>t. /\ session \in [Systems -> SessionFlags]
      /\ socket \in [Systems -> SocketFlags]
      /\ jobs \in [Systems -> JobCounts]
      /\ io.at \in {"connecting", "callback", "parsed"} => io.s \in Systems
      /\ io.at = "connecting" => io.job = "connect"
      /\ io.at = "parsed" => io.job = "read"
      /\ \A t \in Threads : leave[t].at # "none" => leave[t].s \in Systems
      /\ io \in IoStates
  BY DEF IInv, TypeOK, Callers
<1>c. /\ jobs[r].read \in 0..3 /\ jobs[r].connect \in 0..1
      /\ session[r].buffer \in 0..2
  BY Counts
<1>q. UNCHANGED newConnections => (Queued(r)' <=> Queued(r))
  BY DEF Queued
<1>1. CASE UNCHANGED <<newConnections, session, socket, jobs, io>>
  BY <1>1, <1>q, Untouched DEF LocalStep
<1>2. ASSUME NEW s \in Systems, CloseWindow(s)
      PROVE  LocalStep(r)
  <2>1. session'[r].spawned = session[r].spawned /\ session'[r].buffer = session[r].buffer
        /\ UNCHANGED <<newConnections, socket, jobs, io>>
    <3>1. /\ UNCHANGED session \/ session' = [session EXCEPT ![s].closing = TRUE]
          /\ UNCHANGED <<newConnections, socket, jobs, io>>
      BY <1>2 DEF CloseWindow, Undefined
    <3> QED
      BY <1>t, <3>1 DEF SessionFlags
  <2> QED
    BY <1>c, <1>q, <2>1 DEF LocalStep, Quiet, NotDialled, Opening, Reading, Serving
<1>3. ASSUME NEW s \in Systems, ToggleTransfer(s)
      PROVE  LocalStep(r)
  <2>1. CASE UNCHANGED <<newConnections, session, socket, jobs, io>>
    BY <1>1, <2>1
  <2>2. CASE session' = [session EXCEPT ![s].transfer = TRUE]
             /\ UNCHANGED <<newConnections, socket, jobs, io>>
    <3>1. session'[r].spawned = session[r].spawned /\ session'[r].buffer = session[r].buffer
      BY <1>t, <2>2 DEF SessionFlags
    <3> QED
      BY <1>c, <1>q, <2>2, <3>1 DEF LocalStep, Quiet, NotDialled, Opening, Reading, Serving
  <2>3. CASE /\ WaitForSocketData(s, [session[s] EXCEPT !.transfer = FALSE])
             /\ UserTransfers /\ jobs[s].read < MaxReads
             /\ UNCHANGED <<newConnections, io>>
    <3>1. CASE r = s
      <4>1. /\ [session[s] EXCEPT !.transfer = FALSE] \in SessionFlags
            /\ [session[s] EXCEPT !.transfer = FALSE].spawned = session[s].spawned
            /\ [session[s] EXCEPT !.transfer = FALSE].buffer = session[s].buffer
        BY <1>t DEF SessionFlags
      <4>2. NotDialled(s) /\ MayRead(s)
        BY <2>3, <4>1, WaitMayRead
      <4> QED
        BY <2>3, <3>1, <4>2 DEF LocalStep, Toggled
    <3>2. CASE r # s
      BY <1>q, <2>3, <3>2, WaitOthers, Untouched DEF LocalStep
    <3> QED
      BY <3>1, <3>2
  <2> QED
    BY <1>3, <2>1, <2>2, <2>3 DEF ToggleTransfer, Undefined
<1>4. CASE UpdateDial
  <2>1. CASE UNCHANGED <<newConnections, session>>
    BY <1>1, <1>4, <2>1 DEF UpdateDial
  <2>2. ASSUME NEW s \in Systems, ~session[s].spawned,
               newConnections' = Append(newConnections, s),
               session' = [session EXCEPT ![s].spawned = TRUE]
        PROVE  LocalStep(r)
    <3>1. UNCHANGED <<socket, jobs, io>>
      BY <1>4 DEF UpdateDial
    <3>2. CASE r = s
      <4>1. session'[r].spawned /\ session'[r].buffer = session[r].buffer
        BY <1>t, <2>2, <3>2 DEF SessionFlags
      <4> QED
        BY <2>2, <3>1, <3>2, <4>1 DEF LocalStep, Dialled, ReadsOn
    <3>3. CASE r # s
      <4>1. ~Queued(s)
        BY <2>2, Counts DEF OnceAt
      <4>2. Queued(r)' => Queued(r)
        BY <2>2, <3>3, <4>1, EndOfQueue
      <4>3. session'[r] = session[r]
        BY <1>t, <2>2, <3>3
      <4> QED
        BY <3>1, <4>2, <4>3, Untouched DEF LocalStep
    <3> QED
      BY <3>2, <3>3
  <2> QED
    BY <1>4, <2>1, <2>2 DEF UpdateDial
<1>5. CASE UpdateSession \/ HandleReadData
  <2>1. UNCHANGED <<newConnections, session, socket>>
    BY <1>5 DEF UpdateSession, HandleReadData
  <2>2. jobs'[r].read = jobs[r].read /\ jobs'[r].connect = jobs[r].connect
    <3>1. UNCHANGED jobs \/ \E s : jobs' = Add(jobs, s, "write")
      BY <1>5 DEF UpdateSession, HandleReadData
    <3> QED
      BY <1>t, <3>1 DEF Add, JobCounts
  <2>3. /\ io'.at = "connecting" /\ io'.s = r => io.at = "connecting" /\ io.s = r
        /\ Opening(r)' => Opening(r)
        /\ Reading(r)' => Reading(r)
    BY <1>t, <1>5 DEF UpdateSession, HandleReadData, IoGoes, IoAt, IoStates, Opening,
                      Reading, Serving
  <2> QED
    BY <1>c, <1>q, <2>1, <2>2, <2>3 DEF LocalStep, Quiet, NotDialled
<1>6. CASE Spawn
  <2>1. CASE erasing
    BY <1>1, <1>6, <2>1 DEF Spawn, Undefined
  <2>2. CASE ~erasing
    <3> DEFINE s == Head(newConnections)
    <3>1. /\ newConnections # <<>> /\ newConnections' = Tail(newConnections)
          /\ jobs' = Add(jobs, s, "connect") /\ UNCHANGED <<session, socket, io>>
      BY <1>6, <2>2 DEF Spawn
    <3>2. CASE r = s
      <4>1. Queued(r) /\ ~Queued(r)'
        BY <3>1, <3>2, FirstOfQueue
      <4>2. jobs'[r].connect = jobs[r].connect + 1 /\ jobs'[r].read = jobs[r].read
        BY <1>t, <3>1, <3>2 DEF Add, JobCounts
      <4> QED
        BY <3>1, <4>1, <4>2 DEF LocalStep, Joined, ReadsOn
    <3>3. CASE r # s
      <4>1. Queued(r)' => Queued(r)
        BY <3>1, FirstOfQueue
      <4>2. jobs'[r] = jobs[r]
        BY <1>t, <3>1, <3>3 DEF Add
      <4> QED
        BY <3>1, <4>1, <4>2, Untouched DEF LocalStep
    <3> QED
      BY <3>2, <3>3
  <2> QED
    BY <2>1, <2>2
<1>7. CASE StopService
  <2>1. UNCHANGED <<newConnections, session, socket, io>>
        /\ jobs'[r].read = 0 /\ jobs'[r].connect = 0
    BY <1>7 DEF StopService, NoJobs
  <2> QED
    BY <1>c, <1>q, <2>1 DEF LocalStep, Quiet, NotDialled, Opening, Reading, Serving
<1>8. ASSUME NEW t \in Threads, LeaveShutdown(t) \/ LeaveClose(t)
      PROVE  LocalStep(r)
  <2>1. leave[t].s \in Systems
    BY <1>t, <1>8 DEF LeaveShutdown, LeaveClose, LeaveAt
  <2>2. UNCHANGED <<newConnections, jobs, io>>
    BY <1>8 DEF LeaveShutdown, LeaveClose
  <2>3. session'[r].spawned = session[r].spawned /\ session'[r].buffer = session[r].buffer
    <3>1. CASE session' = [session EXCEPT ![leave[t].s].shutdown = TRUE]
      BY <1>t, <3>1 DEF SessionFlags
    <3>2. CASE session' = [session EXCEPT ![leave[t].s].connected = FALSE]
      BY <1>t, <3>2 DEF SessionFlags
    <3> QED
      BY <1>8, <3>1, <3>2 DEF LeaveShutdown, LeaveClose
  <2>4. socket'[r].active => socket[r].active
    BY <1>t, <1>8, <2>1 DEF LeaveShutdown, LeaveClose, Closed, SocketFlags
  <2> QED
    BY <1>c, <1>q, <2>2, <2>3, <2>4
       DEF LocalStep, Quiet, NotDialled, Opening, Reading, Serving
<1>9. ASSUME NEW s \in Systems, ConnectBegin(s)
      PROVE  LocalStep(r)
  <2>1. /\ UNCHANGED <<newConnections, session, socket>>
        /\ io.at = "idle" /\ jobs[s].connect > 0
        /\ io'.at = "connecting" /\ io'.s = s /\ io'.job = "connect"
    BY <1>9 DEF ConnectBegin, IoAt
  <2>2. CASE r = s
    <3>1. jobs'[r].connect = jobs[r].connect - 1 /\ jobs'[r].read = jobs[r].read
      BY <1>t, <1>9, <2>2 DEF ConnectBegin, Taken, JobCounts
    <3> QED
      BY <1>q, <2>1, <2>2, <3>1 DEF LocalStep, ConnectTaken, ReadsOn
  <2>3. CASE r # s
    <3>1. jobs'[r] = jobs[r]
      BY <1>t, <1>9, <2>3 DEF ConnectBegin, Taken
    <3> QED
      BY <1>c, <1>q, <2>1, <2>3, <3>1 DEF LocalStep, Quiet, NotDialled, Opening, Reading, Serving
  <2> QED
    BY <2>2, <2>3
<1>10. CASE ConnectEnd
  <2>1. /\ UNCHANGED <<newConnections, session, jobs>>
        /\ io.at = "connecting" /\ io.s \in Systems
        /\ io'.at = "callback" /\ io'.s = io.s /\ io'.job = "connect"
    BY <1>t, <1>10 DEF ConnectEnd, IoAt, Calls
  <2>2. CASE r = io.s
    BY <1>t, <1>q, <2>1, <2>2 DEF LocalStep, Opened
  <2>3. CASE r # io.s
    <3>1. socket'[r] = socket[r]
      BY <1>t, <1>10, <2>1, <2>3 DEF ConnectEnd
    <3> QED
      BY <1>c, <1>q, <2>1, <2>3, <3>1 DEF LocalStep, Quiet, NotDialled, Opening, Reading, Serving
  <2> QED
    BY <2>2, <2>3
<1>11. ASSUME NEW s \in Systems, ReadData(s) \/ ReadFails(s)
       PROVE  LocalStep(r)
  <2>1. /\ UNCHANGED newConnections
        /\ io.at = "idle" /\ jobs[s].read > 0
        /\ io'.at = "callback" /\ io'.s = s /\ io'.job = "read"
    BY <1>11 DEF ReadData, ReadFails, IoAt, Calls
  <2>2. /\ session'[r].spawned = session[r].spawned
        /\ session'[r].buffer <= session[r].buffer + (IF r = s THEN 1 ELSE 0)
    <3>1. CASE UNCHANGED session
      BY <1>c, <3>1
    <3>2. CASE session' = [session EXCEPT ![s].buffer = IF @ < 2 THEN @ + 1 ELSE @]
      BY <1>t, <1>c, <3>2 DEF SessionFlags
    <3> QED
      BY <1>11, <3>1, <3>2 DEF ReadData, ReadFails
  <2>3. socket'[r].active => socket[r].active
    <3>1. \/ UNCHANGED socket
          \/ socket' = [socket EXCEPT ![s].active = FALSE]
          \/ socket' = [socket EXCEPT ![s].active = FALSE, ![s].open = FALSE]
      BY <1>11 DEF ReadData, ReadFails
    <3> QED
      BY <1>t, <3>1 DEF SocketFlags
  <2>4. /\ jobs'[r].connect = jobs[r].connect
        /\ jobs'[r].read = jobs[r].read - (IF r = s THEN 1 ELSE 0)
    <3>1. jobs' = [jobs EXCEPT ![s].read = @ - 1]
      BY <1>11 DEF ReadData, ReadFails, Taken
    <3> QED
      BY <1>t, <1>c, <3>1 DEF JobCounts
  <2>5. NotDialled(r)
    BY <1>c, <1>q, <2>1, <2>2, <2>3, <2>4 DEF NotDialled
  <2>6. CASE r = s
    BY <2>1, <2>2, <2>4, <2>5, <2>6 DEF LocalStep, ReadTaken
  <2>7. CASE r # s
    BY <1>c, <2>1, <2>2, <2>4, <2>5, <2>7 DEF LocalStep, Quiet, Opening, Reading, Serving
  <2> QED
    BY <2>6, <2>7
<1>12. ASSUME NEW s \in Systems, Write(s)
       PROVE  LocalStep(r)
  <2>1. CASE ~socket[s].present
    BY <1>1, <1>12, <2>1 DEF Write, Undefined
  <2>2. CASE socket[s].present
    <3>1. /\ UNCHANGED <<newConnections, session>>
          /\ io'.job = "write" /\ io'.at = "callback"
      BY <1>12, <2>2 DEF Write, Calls
    <3>2. socket'[r].active => socket[r].active
      BY <1>t, <1>12, <2>2 DEF Write, SocketFlags
    <3>3. jobs'[r].connect = jobs[r].connect /\ jobs'[r].read = jobs[r].read
      BY <1>t, <1>12, <2>2 DEF Write, Taken, JobCounts
    <3> QED
      BY <1>c, <1>q, <3>1, <3>2, <3>3 DEF LocalStep, Quiet, NotDialled, Opening, Reading, Serving
  <2> QED
    BY <1>t, <2>1, <2>2 DEF SocketFlags
<1>13. CASE HandleConnection \/ HandleReadAgain
  <2>1. /\ UNCHANGED newConnections
        /\ io.s \in Systems /\ Holds(io.s) /\ io.at # "connecting"
        /\ io'.at = "idle"
    BY <1>t, <1>13 DEF HandleConnection, HandleReadAgain, IoAt, IoGoes, IoStates, Holds, Serving
  <2>2. CASE UNCHANGED <<session, jobs, socket>>
    BY <1>c, <1>q, <2>1, <2>2 DEF LocalStep, Quiet, NotDialled, Opening, Reading, Serving
  <2>3. ASSUME NEW sess \in SessionFlags, sess.spawned = session[io.s].spawned,
               sess.buffer = session[io.s].buffer, WaitForSocketData(io.s, sess)
        PROVE  LocalStep(r)
    <3>1. CASE r = io.s
      <4>1. NotDialled(r) /\ MayRead(r)
        BY <2>1, <2>3, <3>1, WaitMayRead
      <4> QED
        BY <2>1, <3>1, <4>1 DEF LocalStep, CalledBack
    <3>2. CASE r # io.s
      <4>1. session'[r] = session[r] /\ jobs'[r] = jobs[r] /\ socket'[r] = socket[r]
        BY <2>1, <2>3, <3>2, WaitOthers
      <4> QED
        BY <1>c, <1>q, <2>1, <4>1 DEF LocalStep, Quiet, NotDialled, Opening, Reading, Serving
    <3> QED
      BY <3>1, <3>2
  <2>4. /\ session[io.s] \in SessionFlags
        /\ [session[io.s] EXCEPT !.connected = TRUE] \in SessionFlags
        /\ [session[io.s] EXCEPT !.connected = TRUE].spawned = session[io.s].spawned
        /\ [session[io.s] EXCEPT !.connected = TRUE].buffer = session[io.s].buffer
    BY <1>t, <2>1 DEF SessionFlags
  <2> QED
    BY <1>13, <2>2, <2>3, <2>4 DEF HandleConnection, HandleReadAgain
<1>14. CASE \/ HandleConnectionError \/ HandleReadShutdown \/ HandleReadTransfer
            \/ HandleReadError \/ HandleWrite
  <2>1. UNCHANGED <<newConnections, jobs>> /\ io'.at = "idle" /\ io.s \in Systems
    BY <1>t, <1>14 DEF HandleConnectionError, HandleReadShutdown, HandleReadTransfer,
                       HandleReadError, HandleWrite, IoGoes, IoAt, IoStates
  <2>2. session'[r].spawned = session[r].spawned /\ session'[r].buffer = session[r].buffer
    <3>1. \/ UNCHANGED session
          \/ session' = [session EXCEPT ![io.s].leaving = TRUE]
      BY <1>14 DEF HandleConnectionError, HandleReadShutdown, HandleReadTransfer,
                   HandleReadError, HandleWrite
    <3> QED
      BY <1>t, <3>1 DEF SessionFlags
  <2>3. socket'[r].active => socket[r].active
    <3>1. \/ UNCHANGED socket
          \/ socket' = [socket EXCEPT ![io.s] = Closed(@)]
          \/ socket' = [socket EXCEPT ![io.s] =
                           IF io.error /\ session[io.s].connected THEN Closed(@) ELSE @]
      BY <1>14 DEF HandleConnectionError, HandleReadShutdown, HandleReadTransfer,
                   HandleReadError, HandleWrite
    <3>2. Closed(socket[io.s]).active => socket[io.s].active
      BY <1>t, <2>1 DEF Closed, SocketFlags
    <3> QED
      BY <1>t, <2>1, <3>1, <3>2
  <2> QED
    BY <1>c, <1>q, <2>1, <2>2, <2>3 DEF LocalStep, Quiet, NotDialled, Opening, Reading, Serving
<1>15. CASE IoExit
  <2>1. UNCHANGED <<newConnections, session, socket, jobs>> /\ io'.at = "exited"
    BY <1>t, <1>15 DEF IoExit, IoGoes, IoStates
  <2> QED
    BY <1>c, <1>q, <2>1 DEF LocalStep, Quiet, NotDialled, Opening, Reading, Serving
<1>16. ASSUME NEW s \in Systems, RemoteCloses(s)
       PROVE  LocalStep(r)
  <2>1. socket'[r].active => socket[r].active
    BY <1>t, <1>16 DEF RemoteCloses, SocketFlags
  <2>2. UNCHANGED <<newConnections, session, jobs, io>>
    BY <1>16 DEF RemoteCloses
  <2> QED
    BY <1>q, <2>1, <2>2, Untouched DEF LocalStep
<1> QED
  BY <1>1, <1>2, <1>3, <1>4, <1>5, <1>6, <1>7, <1>8, <1>9, <1>10, <1>11, <1>12, <1>13,
     <1>14, <1>15, <1>16
     DEF Next, MainStep, UserEvent, IoStep, Callback, IoServes, Leave, Threads, vars,
         PollEvents, CloseDialDirectory, UpdateBegin, UpdateStep, UpdateCheck, UpdateNext,
         FocusScan, FocusReset, NothingToSpawn, JoinThread, LeaveEraseBegin, LeaveErase,
         LeaveFlag, Undefined

-----------------------------------------------------------------------------
(* The invariants hold at first and are kept.                              *)
LEMMA QueueStep ==
    IInv /\ [Next]_vars
       => \A k, n \in DOMAIN newConnections' :
             newConnections'[k] = newConnections'[n] => k = n
<1> SUFFICES ASSUME IInv, [Next]_vars
             PROVE  \A k, n \in DOMAIN newConnections' :
                       newConnections'[k] = newConnections'[n] => k = n
  OBVIOUS
<1> USE DEF managerVars
<1>1. CASE UNCHANGED newConnections
  BY <1>1 DEF IInv, DialledOnce
<1>2. CASE UpdateDial
  <2>1. ASSUME NEW s \in Systems, ~session[s].spawned,
               newConnections' = Append(newConnections, s)
        PROVE  \A k, n \in DOMAIN newConnections' :
                  newConnections'[k] = newConnections'[n] => k = n
    <3>1. ~Queued(s)
      BY <2>1, Counts DEF OnceAt
    <3> QED
      BY <2>1, <3>1, EndOfQueue
  <2> QED
    BY <1>1, <1>2, <2>1 DEF UpdateDial
<1>3. CASE Spawn
  <2>1. \/ UNCHANGED newConnections
        \/ newConnections # <<>> /\ newConnections' = Tail(newConnections)
    BY <1>3 DEF Spawn, Undefined
  <2> QED
    BY <1>1, <2>1, FirstOfQueue
<1> QED
  BY <1>1, <1>2, <1>3
     DEF Next, MainStep, UserEvent, IoStep, Callback, IoServes, Leave, Threads, vars,
         PollEvents, CloseDialDirectory, CloseWindow, ToggleTransfer, UpdateBegin,
         UpdateStep, UpdateCheck, UpdateSession, UpdateNext, FocusScan, FocusReset,
         NothingToSpawn, StopService, JoinThread, LeaveShutdown, LeaveClose,
         LeaveEraseBegin, LeaveErase, LeaveFlag, IoExit, ConnectBegin, ConnectEnd,
         ReadData, ReadFails, Write, HandleConnectionError, HandleConnection,
         HandleReadShutdown, HandleReadTransfer, HandleReadData, HandleReadAgain,
         HandleReadError, HandleWrite, RemoteCloses, Undefined

LEMMA IInvInit == Init => IInv
<1> SUFFICES ASSUME Init PROVE IInv
  OBVIOUS
<1>1. Dial \in Sessions
  BY DEF Sessions
<1>2. TypeOK
  <2>1. /\ m_sessions \subseteq Sessions
        /\ newConnections \in Seq(Systems)
        /\ disconnected \in BOOLEAN /\ erasing \in BOOLEAN
        /\ left \subseteq Systems
    <3>1. m_sessions \subseteq Sessions /\ left \subseteq Systems
      BY <1>1 DEF Init
    <3>2. newConnections \in Seq(Systems)
      BY DEF Init
    <3>3. disconnected \in BOOLEAN /\ erasing \in BOOLEAN
      BY DEF Init
    <3> QED
      BY <3>1, <3>2, <3>3
  <2>2. session \in [Systems -> SessionFlags]
    BY DEF Init, NotStarted, SessionFlags
  <2>3. socket \in [Systems -> SocketFlags]
    BY DEF Init, NoSocket, SocketFlags
  <2>4. jobs \in [Systems -> JobCounts]
    BY MaxWritesAssumption DEF Init, NoJobs, JobCounts, MaxReads
  <2>5. main \in MainStates
    BY <1>1 DEF Init, MainStates
  <2>6. io \in IoStates
    BY <1>1 DEF Init, IoStates
  <2>7. leave \in [Threads -> LeaveCalls]
    BY <1>1 DEF Init, NoLeave, LeaveCalls
  <2> QED
    BY <2>1, <2>2, <2>3, <2>4, <2>5, <2>6, <2>7 DEF TypeOK
<1>3. Callers
  <2>1. IsFiniteSet(m_sessions)
    BY FS_Singleton DEF Init
  <2>2. io.at = "idle" /\ \A t \in Threads : leave[t].at = "none"
    BY DEF Init, NoLeave
  <2> QED
    BY <2>1, <2>2 DEF Callers
<1>4. DialledOnce
  <2>1. /\ DOMAIN newConnections = {}
        /\ \A s \in Systems : jobs[s].connect = 0 /\ jobs[s].read = 0 /\ ~socket[s].active
        /\ io.at = "idle"
    BY DEF Init, NoJobs, NoSocket
  <2> QED
    BY <2>1 DEF DialledOnce, OnceAt, Unopened, Queued, Opening, Reading, Serving
<1>5. \A s \in Systems : RoomAt(s)
  <2>1. io.at = "idle" /\ \A s \in Systems : jobs[s].read = 0
    BY DEF Init, NoJobs
  <2> QED
    BY <2>1 DEF RoomAt, Holds, Serving, MaxReads
<1> QED
  BY <1>2, <1>3, <1>4, <1>5 DEF IInv

LEMMA IInvStep == IInv /\ [Next]_vars => IInv'
<1> SUFFICES ASSUME IInv, [Next]_vars PROVE IInv'
  OBVIOUS
<1>0. TypeOK /\ Callers
  BY DEF IInv
<1>1. TypeOK'
  <2> HIDE DEF IInv
  <2>1. session' \in [Systems -> SessionFlags] /\ socket' \in [Systems -> SocketFlags]
    BY <1>0, FlagsStep, SocketStep
  <2>2. jobs' \in [Systems -> JobCounts]
    BY JobsStep
  <2>3. main' \in MainStates /\ io' \in IoStates /\ leave' \in [Threads -> LeaveCalls]
    BY <1>0, MainStatesStep, IoStatesStep, LeaveStep
  <2> QED
    BY <1>0, <2>1, <2>2, <2>3, ManagerStep DEF TypeOK
<1>2. Callers'
  BY <1>0, ManagerStep, LeaveStep, IoStatesStep DEF Callers
<1>3. ASSUME NEW s \in Systems
      PROVE  OnceAt(s)' /\ RoomAt(s)'
  <2>1. /\ session' \in [Systems -> SessionFlags] /\ jobs' \in [Systems -> JobCounts]
        /\ io' \in IoStates
    BY <1>1 DEF TypeOK
  <2>2. jobs'[s].read \in Nat
    BY <2>1 DEF JobCounts
  <2> QED
    BY <2>1, <2>2, EveryStep, OnceLocal, RoomLocal
<1>4. DialledOnce'
  BY <1>3, QueueStep DEF DialledOnce
<1> QED
  BY <1>1, <1>2, <1>3, <1>4 DEF IInv

LEMMA ReadInit == Init => ReadInv
<1> SUFFICES ASSUME Init PROVE ReadInv
  OBVIOUS
<1>1. io.at = "idle" /\ \A s \in Systems : jobs[s].read = 0 /\ session[s].buffer = 0
  BY DEF Init, NoJobs, NotStarted
<1> QED
  BY <1>1 DEF ReadInv, ReadAt, Reading, Opening, Serving

LEMMA ReadStep == ~UserTransfers /\ IInv /\ IInv' /\ ReadInv /\ [Next]_vars => ReadInv'
<1> SUFFICES ASSUME ~UserTransfers, IInv, IInv', ReadInv, [Next]_vars PROVE ReadInv'
  OBVIOUS
<1>1. ASSUME NEW s \in Systems
      PROVE  ReadAt(s)'
  <2>1. ReadAt(s)
    BY DEF ReadInv
  <2>2. /\ session' \in [Systems -> SessionFlags] /\ jobs' \in [Systems -> JobCounts]
    BY DEF IInv, TypeOK
  <2>3. jobs'[s].read \in Nat /\ session'[s].buffer \in Nat
    BY <2>2 DEF JobCounts, SessionFlags
  <2> QED
    BY <2>1, <2>3, EveryStep, ReadLocal
<1> QED
  BY <1>1 DEF ReadInv

-----------------------------------------------------------------------------
(* A connection in use is read.                                            *)
LEMMA StillRunning ==
    IInv /\ [Next]_vars /\ Running'
        => Running /\ main' # [main EXCEPT !.at = "join"]
<1> SUFFICES ASSUME IInv, [Next]_vars, ~Running \/ main' = [main EXCEPT !.at = "join"]
             PROVE  ~Running'
  OBVIOUS
<1> USE DEF managerVars, sessionVars, MainGoes
<1>0. main \in MainStates
  BY DEF IInv, TypeOK
<1>1. CASE main' = [main EXCEPT !.at = "join"]
  BY <1>0, <1>1 DEF Running, MainStates
<1>2. CASE undefined # "none"
  BY <1>2 DEF Running, Next, MainStep, UserEvent, IoStep, Callback, IoServes, Leave, Threads,
     vars, PollEvents, CloseDialDirectory, CloseWindow, ToggleTransfer, UpdateBegin,
     UpdateStep, UpdateCheck, UpdateDial, UpdateSession, UpdateNext, FocusScan, FocusReset,
     Spawn, NothingToSpawn, StopService, JoinThread, LeaveShutdown, LeaveClose,
     LeaveEraseBegin, LeaveErase, LeaveFlag, IoExit, ConnectBegin, ConnectEnd,
     ReadData, ReadFails, Write, HandleConnectionError, HandleConnection,
     HandleReadShutdown, HandleReadTransfer, HandleReadData, HandleReadAgain,
     HandleReadError, HandleWrite, RemoteCloses, Undefined, MainAt, IoAt, LeaveAt
<1>3. CASE main.at \in {"stop", "join", "joined"}
  <2>1. CASE UNCHANGED main
    BY <1>3, <2>1 DEF Running
  <2>2. CASE StopService \/ JoinThread
    BY <1>0, <2>2 DEF StopService, JoinThread, Running, MainStates
  <2> QED
    BY <1>3, <2>1, <2>2 DEF Next, MainStep, UserEvent, IoStep, Callback, IoServes, Leave, Threads,
     vars, PollEvents, CloseDialDirectory, CloseWindow, ToggleTransfer, UpdateBegin,
     UpdateStep, UpdateCheck, UpdateDial, UpdateSession, UpdateNext, FocusScan, FocusReset,
     Spawn, NothingToSpawn, LeaveShutdown, LeaveClose,
     LeaveEraseBegin, LeaveErase, LeaveFlag, IoExit, ConnectBegin, ConnectEnd,
     ReadData, ReadFails, Write, HandleConnectionError, HandleConnection,
     HandleReadShutdown, HandleReadTransfer, HandleReadData, HandleReadAgain,
     HandleReadError, HandleWrite, RemoteCloses, Undefined, MainAt
<1> QED
  BY <1>1, <1>2, <1>3 DEF Running

\* What InUse says of the flags.
Used(s) ==
    /\ ~session[s].shutdown /\ ~session[s].closing /\ ~session[s].leaving
    /\ ~(s \in Telnet /\ session[s].transfer)

\* A step that neither takes the job of r nor puts r in use.

LEMMA RearmInit == Init => RearmInv
BY DEF Init, RearmInv, InUse, NoSocket

LEMMA RearmStep == IInv /\ IInv' /\ RearmInv /\ [Next]_vars => RearmInv'
<1> SUFFICES ASSUME IInv, IInv', RearmInv, [Next]_vars, NEW r \in Systems,
                    Running', InUse(r)', socket'[r].active
             PROVE  Rearmed(r)'
  BY DEF RearmInv
<1> USE DEF managerVars, sessionVars
<1>r. Running /\ main' # [main EXCEPT !.at = "join"]
  BY StillRunning
<1>t. /\ session \in [Systems -> SessionFlags]
      /\ socket \in [Systems -> SocketFlags]
      /\ jobs \in [Systems -> JobCounts]
      /\ io.at \in {"connecting", "callback", "parsed"} => io.s \in Systems
      /\ io.at = "connecting" => io.job = "connect"
      /\ io.at = "parsed" => io.job = "read"
      /\ \A t \in Threads : leave[t].at # "none" => leave[t].s \in Systems
      /\ io \in IoStates
  BY DEF IInv, TypeOK, Callers
<1>c. jobs[r].read \in 0..3 /\ jobs[r].connect \in 0..1
  BY Counts
<1>h. r \in m_sessions /\ Used(r) /\ socket[r].active => Rearmed(r)
  BY <1>r DEF RearmInv, InUse, Used
<1>u. Used(r)' /\ r \in m_sessions'
  BY DEF InUse, Used
<1>1. CASE UNCHANGED <<session, socket, jobs, io>> /\ (r \in m_sessions' => r \in m_sessions)
  BY <1>h, <1>u, <1>1 DEF Used, Rearmed, Holds, Serving
<1>2. ASSUME NEW s \in Systems, CloseWindow(s)
      PROVE  Rearmed(r)'
  <2>1. /\ UNCHANGED session \/ session' = [session EXCEPT ![s].closing = TRUE]
        /\ UNCHANGED <<m_sessions, socket, jobs, io>>
    BY <1>2 DEF CloseWindow, Undefined
  <2>2. Used(r)
    BY <1>t, <1>u, <2>1 DEF Used, SessionFlags
  <2> QED
    BY <1>h, <1>u, <2>1, <2>2 DEF Rearmed, Holds, Serving
<1>3. ASSUME NEW s \in Systems, ToggleTransfer(s)
      PROVE  Rearmed(r)'
  <2>1. UNCHANGED <<m_sessions, io>>
    BY <1>3 DEF ToggleTransfer, Undefined
  <2>2. CASE UNCHANGED <<session, socket, jobs>>
    BY <1>1, <2>1, <2>2
  <2>3. CASE session' = [session EXCEPT ![s].transfer = TRUE] /\ UNCHANGED <<socket, jobs>>
             /\ ~session[s].transfer
    <3>1. Used(r)
      BY <1>t, <1>u, <2>3 DEF Used, SessionFlags
    <3> QED
      BY <1>h, <1>u, <2>1, <2>3, <3>1 DEF Rearmed, Holds, Serving
  <2>4. CASE WaitForSocketData(s, [session[s] EXCEPT !.transfer = FALSE])
    <3>1. CASE r = s
      <4>1. socket[r].active /\ ~session[r].shutdown
        BY <1>t, <1>u, <2>4, <3>1 DEF WaitForSocketData, SessionFlags, Used
      <4>2. jobs' = Add(jobs, r, "read")
        BY <1>t, <2>4, <3>1, <4>1 DEF WaitForSocketData, SessionFlags
      <4>3. jobs'[r].read = jobs[r].read + 1
        BY <1>t, <4>2 DEF Add, JobCounts
      <4> QED
        BY <1>c, <4>3 DEF Rearmed
    <3>2. CASE r # s
      <4>1. session'[r] = session[r] /\ jobs'[r] = jobs[r] /\ socket'[r] = socket[r]
        BY <2>4, <3>2, WaitOthers
      <4> QED
        BY <1>h, <1>u, <2>1, <4>1 DEF Used, Rearmed, Holds, Serving
    <3> QED
      BY <3>1, <3>2
  <2> QED
    BY <1>3, <2>2, <2>3, <2>4 DEF ToggleTransfer, Undefined
<1>4. CASE UpdateDial
  <2>1. Used(r) /\ UNCHANGED <<m_sessions, jobs, socket, io>>
    <3>1. UNCHANGED session \/ \E s : session' = [session EXCEPT ![s].spawned = TRUE]
      BY <1>4 DEF UpdateDial
    <3> QED
      BY <1>t, <1>u, <1>4, <3>1 DEF UpdateDial, Used, SessionFlags
  <2> QED
    BY <1>h, <1>u, <2>1 DEF Rearmed, Holds, Serving
<1>5. CASE UpdateSession \/ HandleReadData
  <2>1. UNCHANGED <<m_sessions, session, socket>>
    BY <1>5 DEF UpdateSession, HandleReadData
  <2>2. jobs'[r].read = jobs[r].read /\ jobs'[r].connect = jobs[r].connect
    <3>1. UNCHANGED jobs \/ \E s : jobs' = Add(jobs, s, "write")
      BY <1>5 DEF UpdateSession, HandleReadData
    <3> QED
      BY <1>t, <3>1 DEF Add, JobCounts
  <2>3. Holds(r) => Holds(r)'
    BY <1>t, <1>5 DEF UpdateSession, HandleReadData, IoGoes, IoAt, IoStates, Holds, Serving
  <2> QED
    BY <1>h, <1>u, <2>1, <2>2, <2>3 DEF Used, Rearmed, Holds
<1>6. CASE Spawn
  <2>1. CASE erasing
    BY <1>1, <1>6, <2>1 DEF Spawn, Undefined
  <2>2. CASE ~erasing
    <3>1. PICK s : /\ m_sessions' = m_sessions \union {s}
                   /\ jobs' = Add(jobs, s, "connect")
                   /\ UNCHANGED <<session, socket, io>>
      BY <1>6, <2>2 DEF Spawn
    <3>2. jobs'[r].read = jobs[r].read
          /\ jobs'[r].connect = jobs[r].connect + (IF r = s THEN 1 ELSE 0)
      BY <1>t, <1>c, <3>1 DEF Add, JobCounts
    <3>3. CASE r = s
      BY <1>c, <3>2, <3>3 DEF Rearmed
    <3>4. CASE r # s
      BY <1>c, <1>h, <1>u, <3>1, <3>2, <3>4 DEF Used, Rearmed, Holds, Serving
    <3> QED
      BY <3>3, <3>4
  <2> QED
    BY <2>1, <2>2
<1>7. CASE StopService
  BY <1>7, <1>r DEF StopService, MainGoes
<1>8. ASSUME NEW t \in Threads, LeaveShutdown(t) \/ LeaveClose(t)
      PROVE  Rearmed(r)'
  <2>1. leave[t].s \in Systems /\ UNCHANGED <<m_sessions, jobs, io>>
    BY <1>t, <1>8 DEF LeaveShutdown, LeaveClose, LeaveAt
  <2>2. Used(r)
    <3>1. CASE session' = [session EXCEPT ![leave[t].s].shutdown = TRUE]
      BY <1>t, <1>u, <3>1 DEF Used, SessionFlags
    <3>2. CASE session' = [session EXCEPT ![leave[t].s].connected = FALSE]
      BY <1>t, <1>u, <3>2 DEF Used, SessionFlags
    <3> QED
      BY <1>8, <3>1, <3>2 DEF LeaveShutdown, LeaveClose
  <2>3. socket[r].active
    BY <1>t, <1>8, <2>1 DEF LeaveShutdown, LeaveClose, Closed, SocketFlags
  <2> QED
    BY <1>h, <1>u, <2>1, <2>2, <2>3 DEF Rearmed, Holds, Serving
<1>9. ASSUME NEW s \in Systems, ConnectBegin(s) \/ ReadData(s) \/ ReadFails(s)
      PROVE  Rearmed(r)'
  <2>1. /\ UNCHANGED m_sessions /\ io.at = "idle"
        /\ io'.at \in {"connecting", "callback"} /\ io'.s = s /\ io'.job # "write"
    BY <1>9 DEF ConnectBegin, ReadData, ReadFails, IoAt, Calls
  <2>2. CASE r = s
    BY <2>1, <2>2 DEF Rearmed, Holds, Serving
  <2>3. CASE r # s
    <3>1. session'[r] = session[r] /\ jobs'[r] = jobs[r]
      BY <1>t, <1>9, <2>3 DEF ConnectBegin, ReadData, ReadFails, Taken
    <3>2. socket'[r] = socket[r]
      BY <1>t, <1>9, <2>3 DEF ConnectBegin, ReadData, ReadFails
    <3> QED
      BY <1>h, <1>u, <2>1, <3>1, <3>2 DEF Used, Rearmed, Holds, Serving
  <2> QED
    BY <2>2, <2>3
<1>10. CASE ConnectEnd
  <2>1. /\ UNCHANGED <<m_sessions, session, jobs>>
        /\ io.at = "connecting" /\ io.s \in Systems
        /\ io'.at = "callback" /\ io'.s = io.s /\ io'.job = "connect"
    BY <1>t, <1>10 DEF ConnectEnd, IoAt, Calls
  <2>2. CASE r = io.s
    BY <2>1, <2>2 DEF Rearmed, Holds, Serving
  <2>3. CASE r # io.s
    <3>1. socket'[r] = socket[r]
      BY <1>t, <1>10, <2>1, <2>3 DEF ConnectEnd
    <3> QED
      BY <1>h, <1>u, <2>1, <2>3, <3>1 DEF Used, Rearmed, Holds, Serving
  <2> QED
    BY <2>2, <2>3
<1>11. ASSUME NEW s \in Systems, Write(s)
       PROVE  Rearmed(r)'
  <2>1. CASE ~socket[s].present
    BY <1>1, <1>11, <2>1 DEF Write, Undefined
  <2>2. CASE socket[s].present
    <3>1. UNCHANGED <<m_sessions, session>> /\ io.at = "idle"
      BY <1>11, <2>2 DEF Write, IoAt
    <3>2. socket[r].active
      BY <1>t, <1>11, <2>2 DEF Write, SocketFlags
    <3>3. jobs'[r].connect = jobs[r].connect /\ jobs'[r].read = jobs[r].read
      BY <1>t, <1>11, <2>2 DEF Write, Taken, JobCounts
    <3> QED
      BY <1>h, <1>u, <3>1, <3>2, <3>3 DEF Used, Rearmed, Holds, Serving
  <2> QED
    BY <1>t, <2>1, <2>2 DEF SocketFlags
<1>12. CASE HandleConnection \/ HandleReadAgain
  <2>1. io.s \in Systems /\ UNCHANGED m_sessions
    BY <1>t, <1>12 DEF HandleConnection, HandleReadAgain, IoAt
  <2>2. ASSUME NEW sess \in SessionFlags, WaitForSocketData(io.s, sess),
               sess.shutdown = session[io.s].shutdown
        PROVE  Rearmed(r)'
    <3>1. CASE r = io.s
      <4>1. socket[r].active
        BY <2>2, <3>1 DEF WaitForSocketData
      <4>2. ~sess.shutdown
        BY <1>t, <1>u, <2>1, <2>2, <3>1 DEF WaitForSocketData, Used, SessionFlags
      <4>3. jobs' = Add(jobs, r, "read")
        BY <2>2, <3>1, <4>1, <4>2 DEF WaitForSocketData
      <4>4. jobs'[r].read = jobs[r].read + 1
        BY <1>t, <4>3 DEF Add, JobCounts
      <4> QED
        BY <1>c, <4>4 DEF Rearmed
    <3>2. CASE r # io.s
      <4>1. session'[r] = session[r] /\ jobs'[r] = jobs[r] /\ socket'[r] = socket[r]
        BY <2>1, <2>2, <3>2, WaitOthers
      <4> QED
        BY <1>h, <1>u, <2>1, <3>2, <4>1, SMTT(30) DEF Used, Rearmed, Holds, Serving
    <3> QED
      BY <3>1, <3>2
  <2>3. /\ session[io.s] \in SessionFlags
        /\ [session[io.s] EXCEPT !.connected = TRUE] \in SessionFlags
        /\ [session[io.s] EXCEPT !.connected = TRUE].shutdown = session[io.s].shutdown
    <3>1. session[io.s] \in SessionFlags
      BY <1>t, <2>1
    <3>2. ASSUME NEW f \in SessionFlags
          PROVE  /\ [f EXCEPT !.connected = TRUE] \in SessionFlags
                 /\ [f EXCEPT !.connected = TRUE].shutdown = f.shutdown
      BY DEF SessionFlags
    <3> QED
      BY <3>1, <3>2
  <2>4. CASE ~socket[io.s].active /\ UNCHANGED <<session, socket, jobs>>
    <3>1. r # io.s
      BY <2>4
    <3> QED
      BY <1>h, <1>u, <2>1, <2>4, <3>1 DEF Used, Rearmed, Holds, Serving
  <2> QED
    BY <1>12, <2>2, <2>3, <2>4 DEF HandleConnection, HandleReadAgain
<1>13. CASE \/ HandleConnectionError \/ HandleReadShutdown \/ HandleReadTransfer
            \/ HandleReadError \/ HandleWrite
  <2>1. UNCHANGED <<m_sessions, jobs>> /\ io.s \in Systems /\ io.at = "callback"
    BY <1>t, <1>13 DEF HandleConnectionError, HandleReadShutdown, HandleReadTransfer,
                       HandleReadError, HandleWrite, IoAt
  <2>2. CASE r = io.s
    <3>1. CASE HandleConnectionError \/ HandleReadError
      BY <1>t, <1>u, <2>1, <2>2, <3>1
         DEF HandleConnectionError, HandleReadError, Used, SessionFlags
    <3>2. CASE HandleReadShutdown \/ HandleReadTransfer
      BY <1>u, <2>2, <3>2 DEF HandleReadShutdown, HandleReadTransfer, Used
    <3>3. CASE HandleWrite
      <4>1. io.job = "write" /\ UNCHANGED session
        BY <3>3 DEF HandleWrite
      <4>2. socket[r].active
        BY <1>t, <2>1, <2>2, <3>3 DEF HandleWrite, Closed, SocketFlags
      <4> QED
        BY <1>h, <1>u, <2>1, <4>1, <4>2 DEF Used, Rearmed, Holds
    <3> QED
      BY <1>13, <3>1, <3>2, <3>3
  <2>3. CASE r # io.s
    <3>1. session'[r] = session[r]
      BY <1>t, <1>13, <2>1, <2>3
         DEF HandleConnectionError, HandleReadShutdown, HandleReadTransfer,
             HandleReadError, HandleWrite
    <3>2. socket'[r] = socket[r]
      BY <1>t, <1>13, <2>1, <2>3
         DEF HandleConnectionError, HandleReadShutdown, HandleReadTransfer,
             HandleReadError, HandleWrite
    <3> QED
      BY <1>h, <1>u, <2>1, <2>3, <3>1, <3>2 DEF Used, Rearmed, Holds, Serving
  <2> QED
    BY <2>2, <2>3
<1>14. CASE IoExit
  BY <1>14, <1>h, <1>u DEF IoExit, IoAt, IoGoes, Used, Rearmed, Holds, Serving
<1>15. ASSUME NEW s \in Systems, RemoteCloses(s)
       PROVE  Rearmed(r)'
  <2>1. socket[r].active /\ UNCHANGED <<m_sessions, session, jobs, io>>
    BY <1>t, <1>15 DEF RemoteCloses, SocketFlags
  <2> QED
    BY <1>h, <1>u, <2>1 DEF Used, Rearmed, Holds, Serving
<1> QED
  BY <1>1, <1>2, <1>3, <1>4, <1>5, <1>6, <1>7, <1>8, <1>9, <1>10, <1>11, <1>12, <1>13,
     <1>14, <1>15
     DEF Next, MainStep, UserEvent, IoStep, Callback, IoServes, Leave, Threads, vars,
         PollEvents, CloseDialDirectory, UpdateBegin, UpdateStep, UpdateCheck, UpdateNext,
         FocusScan, FocusReset, NothingToSpawn, JoinThread, LeaveEraseBegin, LeaveErase,
         LeaveFlag, Undefined

-----------------------------------------------------------------------------
(***************************************************************************)
(* The flags, the job counts and the calls of both threads have their      *)
(* types, for any number of systems: no job is taken that is not in the    *)
(* list (Session, SessionManager, SocketHandler).                          *)
(***************************************************************************)
THEOREM TypeCorrect == Spec => []TypeOK
<1>1. IInv => TypeOK
  BY DEF IInv
<1> QED
  BY <1>1, IInvInit, IInvStep, PTL DEF Spec

(***************************************************************************)
(* Without ALT-D a connection never has two reads under way, whichever     *)
(* windows are closed, connections lost and writes done meanwhile          *)
(* (Session::waitForSocketData and its callers).                           *)
(***************************************************************************)
THEOREM ReadsOnce == ~UserTransfers /\ Spec => []OneRead
<1> SUFFICES ASSUME ~UserTransfers PROVE Spec => []OneRead
  OBVIOUS
<1>1. ReadInv => OneRead
  BY DEF ReadInv, ReadAt, OneRead, BufferHoldsOneRead
<1>2. IInv /\ IInv' /\ ReadInv /\ [Next]_vars => ReadInv'
  BY ReadStep
<1> QED
  BY <1>1, <1>2, IInvInit, IInvStep, ReadInit, PTL DEF Spec

(***************************************************************************)
(* Under the same assumption the read buffer never holds the data of two   *)
(* reads (session.hpp, "clear out buffer before each read").               *)
(***************************************************************************)
THEOREM BufferClean == ~UserTransfers /\ Spec => []BufferHoldsOneRead
<1> SUFFICES ASSUME ~UserTransfers PROVE Spec => []BufferHoldsOneRead
  OBVIOUS
<1>1. ReadInv => BufferHoldsOneRead
  BY DEF ReadInv, ReadAt, OneRead, BufferHoldsOneRead
<1>2. IInv /\ IInv' /\ ReadInv /\ [Next]_vars => ReadInv'
  BY ReadStep
<1> QED
  BY <1>1, <1>2, IInvInit, IInvStep, ReadInit, PTL DEF Spec

(***************************************************************************)
(* A connection in use whose socket is active always has a READ job, a     *)
(* CONNECT job or a callback that leads to one, with or without ALT-D: no  *)
(* interleaving of the callbacks of Session with its windows loses it.     *)
(***************************************************************************)
THEOREM ConnectionRead == Spec => []ActiveConnectionIsRead
<1>1. RearmInv => ActiveConnectionIsRead
  BY DEF RearmInv, Rearmed, Holds, ActiveConnectionIsRead, HasWork
<1> QED
  BY <1>1, IInvInit, IInvStep, RearmInit, RearmStep, PTL DEF Spec
=============================================================================
