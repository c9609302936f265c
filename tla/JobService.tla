----------------------------- MODULE JobService -----------------------------
(***************************************************************************)
(* What IOService promises to the callers of addAsyncJob: a job is given   *)
(* to its callback at most once, and while the service has not been        *)
(* stopped no job is dropped.  Nothing is promised about order.            *)
(*                                                                         *)
(* Jobs are numbered 1..added in the order of the addAsyncJob calls.       *)
(***************************************************************************)
EXTENDS Naturals

VARIABLES
    added,      \* number of jobs added so far
    waiting,    \* jobs whose callback has not been run
    ran,        \* jobs whose callback has been run
    stopped     \* the list has been cleared by stop()

vars == <<added, waiting, ran, stopped>>

Init ==
    /\ added = 0
    /\ waiting = {}
    /\ ran = {}
    /\ stopped = FALSE

\* Any thread adds a job, callbacks included, and even after stop().
Add ==
    /\ added' = added + 1
    /\ waiting' = waiting \union {added + 1}
    /\ UNCHANGED <<ran, stopped>>

Run(j) ==
    /\ j \in waiting
    /\ waiting' = waiting \ {j}
    /\ ran' = ran \union {j}
    /\ UNCHANGED <<added, stopped>>

\* stop() drops every job but the one the service thread already holds.
Stop ==
    /\ ~stopped
    /\ stopped' = TRUE
    /\ waiting' \in {{j} : j \in waiting} \union {{}}
    /\ UNCHANGED <<added, ran>>

\* Once stopped, a job a callback still adds may be dropped.
Drop(j) ==
    /\ stopped
    /\ j \in waiting
    /\ waiting' = waiting \ {j}
    /\ UNCHANGED <<added, ran, stopped>>

Next ==
    \/ Add
    \/ Stop
    \/ \E j \in waiting : Run(j) \/ Drop(j)

Spec == Init /\ [][Next]_vars
=============================================================================
