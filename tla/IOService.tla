------------------------------ MODULE IOService ------------------------------
(***************************************************************************)
(* The asynchronous job service (io_service.hpp, io_service.cpp).  The     *)
(* main thread adds jobs to m_service_list and at exit calls stop() and    *)
(* joins; the io thread executes run(): it walks the list by index, does   *)
(* the socket operation of each job, runs its callback, which may add      *)
(* jobs, and then removes the entry at that index.                         *)
(*                                                                         *)
(* A job is its number in the order of the addAsyncJob calls.  What the    *)
(* socket operation returns decides the error code of the callback but     *)
(* neither the list nor the loop, so it is left to the module that         *)
(* composes this one with sockets and sessions.                            *)
(***************************************************************************)
EXTENDS Integers, Sequences, SafeVector

CONSTANT MaxJobs        \* bound on the number of addAsyncJob calls

ASSUME MaxJobsAssumption == MaxJobs \in Nat

ServiceTypes == {"READ", "WRITE", "CONNECT"}

VARIABLES
    m_service_list, \* the jobs waiting, in the order of the list
    m_is_active,    \* loop condition of run(), reset by stop()
    added,          \* added[j] is the service type of job j
    main,           \* what the main thread is doing
    run,            \* where the io thread is in run()
    i,              \* the loop index of run()
    job_work,       \* the job fetched by run(), 0 before the first one
    served          \* jobs in the order their socket operation was done

vars == <<m_service_list, m_is_active, added, main, run, i, job_work, served>>

mainVars == <<m_is_active, main>>
ioVars == <<run, i, job_work, served>>

Jobs == 1..Len(added)

Init ==
    /\ m_service_list = <<>>
    /\ m_is_active = FALSE
    /\ added = <<>>
    /\ main = "running"
    /\ run = "begin"
    /\ i = 0
    /\ job_work = 0
    /\ served = <<>>

-----------------------------------------------------------------------------
(* Faulty variants of the steps below.  No specification uses them: each   *)
(* takes the place of a step to show that a property can fail.             *)

\* The job is inserted at the front of the list.
AddEndAtFront ==
    /\ main = "pushing"
    /\ \E t \in ServiceTypes : added' = Append(added, t)
    /\ m_service_list' = <<Len(added')>> \o m_service_list
    /\ main' = "running"
    /\ UNCHANGED <<m_is_active, ioVars>>

\* The loop condition is never tested.
TestActiveForever ==
    /\ run = "while"
    /\ run' = "for"
    /\ i' = 0
    /\ UNCHANGED <<m_service_list, added, mainVars, job_work, served>>

\* The index is not reset for a new pass.
TestActiveKeepsIndex ==
    /\ run = "while"
    /\ run' = IF m_is_active THEN "for" ELSE "returned"
    /\ UNCHANGED <<m_service_list, added, mainVars, i, job_work, served>>

\* A READ job is removed although poll() had no data.
NoDataYetDropsJob ==
    /\ run = "serve"
    /\ added[job_work] = "READ"
    /\ m_service_list' = RemoveIndex(m_service_list, i)
    /\ i' = i + 1
    /\ run' = "for"
    /\ UNCHANGED <<added, mainVars, job_work, served>>

RemoveVariant(list, index) ==
    /\ run = "remove"
    /\ main # "pushing"
    /\ m_service_list' = list
    /\ i' = index
    /\ run' = "for"
    /\ UNCHANGED <<added, mainVars, job_work, served>>

\* The entry stays in the list.
RemoveJobForgotten == RemoveVariant(m_service_list, i + 1)

\* The index is advanced before the entry is removed.
RemoveNextJob == RemoveVariant(RemoveIndex(m_service_list, i + 1), i + 1)

\* The index steps back after the removal, below zero at the first entry.
RemoveJobStepsBack == RemoveVariant(RemoveIndex(m_service_list, i), i - 1)

\* "Remove item quickly, swap with back, then pop back."
RemoveJobSwapsBack == RemoveVariant(SwapWithBack(m_service_list, i), i + 1)

-----------------------------------------------------------------------------
(* The main thread.                                                        *)

\* push_back() holds the mutex from here until AddEnd.
AddBegin ==
    /\ main = "running"
    /\ Len(added) < MaxJobs
    /\ main' = "pushing"
    /\ UNCHANGED <<m_service_list, m_is_active, added, ioVars>>

AddEnd ==
    /\ main = "pushing"
    /\ \E t \in ServiceTypes : added' = Append(added, t)
    /\ m_service_list' = PushBack(m_service_list, Len(added'))
    /\ main' = "running"
    /\ UNCHANGED <<m_is_active, ioVars>>

\* stop() resets the flag and then clears the list; ~Interface calls it and
\* joins the thread.
StopFlag ==
    /\ main = "running"
    /\ m_is_active' = FALSE
    /\ main' = "clearing"
    /\ UNCHANGED <<m_service_list, added, ioVars>>

StopClear ==
    /\ main = "clearing"
    /\ m_service_list' = <<>>
    /\ main' = "joining"
    /\ UNCHANGED <<m_is_active, added, ioVars>>

Join ==
    /\ main = "joining"
    /\ run = "returned"
    /\ main' = "joined"
    /\ UNCHANGED <<m_service_list, m_is_active, added, ioVars>>

-----------------------------------------------------------------------------
(* The io thread.                                                          *)

\* run() sets the flag itself, whatever stop() has done before.
Begin ==
    /\ run = "begin"
    /\ m_is_active' = TRUE
    /\ run' = "while"
    /\ UNCHANGED <<m_service_list, added, main, i, job_work, served>>

TestActive ==
    /\ run = "while"
    /\ IF m_is_active
       THEN run' = "for" /\ i' = 0
       ELSE run' = "returned" /\ i' = i
    /\ UNCHANGED <<m_service_list, added, mainVars, job_work, served>>

\* i < m_service_list.size() is read without the mutex.  While push_back()
\* moves the elements to a larger block, the begin and end pointers read
\* belong to different blocks and the difference is any large number.
InsideList ==
    /\ run = "for"
    /\ InRange(m_service_list, i) \/ main = "pushing"
    /\ run' = "get"
    /\ UNCHANGED <<m_service_list, added, mainVars, i, job_work, served>>

\* The end of a pass: run() sleeps and tests the flag again.
EndOfPass ==
    /\ run = "for"
    /\ ~InRange(m_service_list, i)
    /\ run' = "while"
    /\ UNCHANGED <<m_service_list, added, mainVars, i, job_work, served>>

\* get() takes the mutex.  The exception of at() leaves run(), the function
\* of the thread, so it ends the process.
GetJob ==
    /\ run = "get"
    /\ main # "pushing"
    /\ IF InRange(m_service_list, i)
       THEN run' = "serve" /\ job_work' = Get(m_service_list, i)
       ELSE run' = "terminated" /\ job_work' = job_work
    /\ UNCHANGED <<m_service_list, added, mainVars, i, served>>

\* poll() returned 0: the READ job stays in the list and the index moves on.
NoDataYet ==
    /\ run = "serve"
    /\ added[job_work] = "READ"
    /\ i' = i + 1
    /\ run' = "for"
    /\ UNCHANGED <<m_service_list, added, mainVars, job_work, served>>

\* The socket operation of the job, successful or not: the callback is next.
Serve ==
    /\ run = "serve"
    /\ served' = Append(served, job_work)
    /\ run' = "callback"
    /\ UNCHANGED <<m_service_list, added, mainVars, i, job_work>>

\* The callback waits for more data or writes a reply.
CallbackAdds ==
    /\ run = "callback"
    /\ main # "pushing"
    /\ Len(added) < MaxJobs
    /\ \E t \in {"READ", "WRITE"} : added' = Append(added, t)
    /\ m_service_list' = PushBack(m_service_list, Len(added'))
    /\ UNCHANGED <<mainVars, ioVars>>

CallbackReturns ==
    /\ run = "callback"
    /\ run' = "remove"
    /\ UNCHANGED <<m_service_list, added, mainVars, i, job_work, served>>

\* m_service_list.remove(i), and the i++ of the loop.
RemoveJob ==
    /\ run = "remove"
    /\ main # "pushing"
    /\ m_service_list' = RemoveIndex(m_service_list, i)
    /\ i' = i + 1
    /\ run' = "for"
    /\ UNCHANGED <<added, mainVars, job_work, served>>

-----------------------------------------------------------------------------
\* Both threads are done, or an exception has ended the process.
Finished == main = "joined" \/ run = "terminated"

MainThread == AddBegin \/ AddEnd \/ StopFlag \/ StopClear \/ Join

IoThread ==
    \/ Begin \/ TestActive \/ InsideList \/ EndOfPass \/ GetJob
    \/ NoDataYet \/ Serve \/ CallbackAdds \/ CallbackReturns \/ RemoveJob

Next ==
    \/ run # "terminated" /\ (MainThread \/ IoThread)
    \/ Finished /\ UNCHANGED vars

Spec == Init /\ [][Next]_vars

(***************************************************************************)
(* Both threads are scheduled by the system: the io thread always goes on, *)
(* a WRITE or CONNECT operation returns, and the main thread finishes the  *)
(* push_back() or the stop() it is in.  Nobody is obliged to add a job, to *)
(* stop the service or to send data.                                       *)
(***************************************************************************)
IoStep == run # "terminated" /\ IoThread
ReturnFromCallback == run # "terminated" /\ CallbackReturns
MainStep == run # "terminated" /\ (AddEnd \/ StopClear \/ Join)

FairSpec ==
    /\ Spec
    /\ WF_vars(IoStep)
    /\ WF_vars(ReturnFromCallback)
    /\ WF_vars(MainStep)
-----------------------------------------------------------------------------
(* Properties.                                                             *)

\* The variables of IOService have their types; i, an unsigned int of run(),
\* never steps below zero.
TypeOK ==
    /\ added \in Seq(ServiceTypes)
    /\ m_service_list \in Seq(Nat)
    /\ m_is_active \in BOOLEAN
    /\ main \in {"running", "pushing", "clearing", "joining", "joined"}
    /\ run \in {"begin", "while", "for", "get", "serve", "callback",
                "remove", "returned", "terminated"}
    /\ i \in Nat
    /\ job_work \in Nat
    /\ served \in Seq(Nat)

\* The list has not been cleared by stop().
Running == main \in {"running", "pushing", "clearing"}

\* remove(i) runs after the callback and removes by position: while the
\* service runs, whatever the two threads have added in the meantime, the
\* entry at i is still the job whose callback has been run.
RemovesItsOwnJob ==
    Running /\ run \in {"serve", "callback", "remove"} =>
        InRange(m_service_list, i) /\ Get(m_service_list, i) = job_work

\* No job is given to its callback twice (io_service.cpp runs a callback
\* before it removes the entry, so the list still holds a job that is done).
ServedOnce == IsInjective(served)

\* Until stop() clears the list, a job that was added and has not been done
\* is in the list.
NoJobLost == Running => Jobs = ToSet(m_service_list) \union ToSet(served)

\* The list keeps the order of the addAsyncJob calls.
ListInOrder ==
    \A a, b \in DOMAIN m_service_list :
        a < b => m_service_list[a] < m_service_list[b]

\* safe_vector.hpp:105: "Remove item quickly, swap with back, then pop back." The
\* code copies the other elements in their order instead, on which ListInOrder
\* relies: with three jobs or more the two lists differ.
RemovalSwapsWithBack ==
    [][RemoveJob => m_service_list' = SwapWithBack(m_service_list, i)]_vars

\* changelog.txt:53-56 has the responses of one session written in the order
\* of their requests; the io service writes what it takes from its list.
WritesInOrder ==
    \A a, b \in DOMAIN served :
        a < b /\ added[served[a]] = "WRITE" /\ added[served[b]] = "WRITE"
            => served[a] < served[b]

\* safe_vector.hpp:14: "A simple Thread Safe Vector Template".
NeverTerminated == run # "terminated"

\* Every WRITE and CONNECT job is done, unless the service is stopped or the
\* process has ended: the entries that i++ skips after a remove(i) come up in
\* a later pass, and READ jobs without data hold nobody up.
JobsAreServed ==
    \A j \in 1..MaxJobs :
        (j \in Jobs /\ added[j] # "READ") ~>
            (j \in ToSet(served) \/ ~Running \/ run = "terminated")

\* When stop() resets the flag after run() has set it, the join returns, or
\* the clear() has pulled the list from under get().
StopEndsTheThread ==
    (main = "clearing" /\ run # "begin" /\ ~m_is_active) ~>
        (main = "joined" \/ run = "terminated")

\* main.cpp:206: "Using Smart Pointer will clear final allocation prior to
\* full exit of system."  The destructor of Interface stops and joins.
StopJoins == (main = "clearing") ~> (main = "joined")

\* The service is an implementation of JobService.
Waiting ==
    (ToSet(m_service_list) \union {j \in {job_work} : run = "serve"})
        \ ToSet(served)

JS == INSTANCE JobService WITH
    added <- Len(added),
    waiting <- Waiting,
    ran <- ToSet(served),
    stopped <- main \in {"joining", "joined"}

ImplementsJobService == JS!Spec
=============================================================================
