--------------------------- MODULE IOServiceProofs ---------------------------
(***************************************************************************)
(* What the properties of IOService rest on, proved for every MaxJobs.     *)
(***************************************************************************)
EXTENDS IOService, TLAPS

(* The operations of SafeVector, for every vector.                         *)

(***************************************************************************)
(* remove(index) leaves the elements before index in place, moves those    *)
(* after it down by one, and does nothing when index is out of range       *)
(* (safe_vector.hpp, remove).                                              *)
(***************************************************************************)
LEMMA RemoveIndexProperties ==
    ASSUME NEW S, NEW v \in Seq(S), NEW k \in Nat
    PROVE  /\ RemoveIndex(v, k) \in Seq(S)
           /\ Len(RemoveIndex(v, k)) =
                 IF k < Len(v) THEN Len(v) - 1 ELSE Len(v)
           /\ \A n \in 1..Len(RemoveIndex(v, k)) :
                 RemoveIndex(v, k)[n] =
                    IF k < Len(v) /\ k < n THEN v[n + 1] ELSE v[n]
<1>1. CASE k < Len(v)
  <2> DEFINE copy ==
        [n \in 1..(Len(v) - 1) |-> IF k < n THEN v[n + 1] ELSE v[n]]
  <2>1. copy \in Seq(S)
    BY <1>1
  <2>2. Len(copy) = Len(v) - 1
    BY <1>1
  <2>3. \A n \in 1..(Len(v) - 1) :
           copy[n] = IF k < n THEN v[n + 1] ELSE v[n]
    OBVIOUS
  <2>4. RemoveIndex(v, k) = copy
    BY <1>1 DEF RemoveIndex, InRange
  <2> QED BY <1>1, <2>1, <2>2, <2>3, <2>4
<1>2. CASE ~(k < Len(v))
  BY <1>2 DEF RemoveIndex, InRange
<1> QED BY <1>1, <1>2

(***************************************************************************)
(* push_back(t) adds t to the elements.                                    *)
(***************************************************************************)
LEMMA PushBackElements ==
    ASSUME NEW S, NEW v \in Seq(S), NEW t \in S
    PROVE  ToSet(PushBack(v, t)) = ToSet(v) \union {t}
<1>1. /\ Len(v) \in Nat
      /\ DOMAIN v = 1..Len(v)
      /\ DOMAIN PushBack(v, t) = 1..(Len(v) + 1)
      /\ PushBack(v, t)[Len(v) + 1] = t
      /\ \A k \in 1..Len(v) : PushBack(v, t)[k] = v[k]
  BY DEF PushBack
<1> QED BY <1>1 DEF ToSet
-----------------------------------------------------------------------------

Holding == run \in {"serve", "callback", "remove"}
Called == run \in {"callback", "remove"}

\* Entries of the list and of served are jobs that were added, and the list
\* is in the order of the additions.
ListedJobs ==
    /\ \A k \in DOMAIN m_service_list : m_service_list[k] \in Jobs
    /\ \A k \in DOMAIN served : served[k] \in Jobs
    /\ ListInOrder

\* The job run() holds is at index i if it is in the list at all, and as long
\* as stop() has not cleared the list it is.
HeldJob ==
    /\ Holding =>
          /\ job_work \in Jobs
          /\ \A k \in DOMAIN m_service_list :
                m_service_list[k] = job_work => k = i + 1
    /\ RemovesItsOwnJob

\* A served job can be in the list only while run() has yet to remove it.
ServedJobs ==
    /\ ServedOnce
    /\ \A k \in DOMAIN m_service_list, n \in DOMAIN served :
          m_service_list[k] = served[n] =>
             Called /\ served[n] = job_work
    /\ run = "serve" => \A n \in DOMAIN served : served[n] # job_work
    /\ Called => \E n \in DOMAIN served : served[n] = job_work

IndInv == TypeOK /\ ListedJobs /\ HeldJob /\ ServedJobs /\ NoJobLost
-----------------------------------------------------------------------------
(* Every step keeps the types, one case per action.                        *)
LEMMA TypeStep == TypeOK /\ [Next]_vars => TypeOK'
<1> SUFFICES ASSUME TypeOK, [Next]_vars PROVE TypeOK'
  OBVIOUS
<1> USE DEF TypeOK, mainVars, ioVars
<1>1. CASE AddBegin
  BY <1>1 DEF AddBegin
<1>2. CASE AddEnd
  BY <1>2 DEF AddEnd, PushBack
<1>3. CASE StopFlag
  BY <1>3 DEF StopFlag
<1>4. CASE StopClear
  BY <1>4 DEF StopClear
<1>5. CASE Join
  BY <1>5 DEF Join
<1>6. CASE Begin
  BY <1>6 DEF Begin
<1>7. CASE TestActive
  BY <1>7 DEF TestActive
<1>8. CASE InsideList
  BY <1>8 DEF InsideList
<1>9. CASE EndOfPass
  BY <1>9 DEF EndOfPass
<1>10. CASE GetJob
  BY <1>10 DEF GetJob, InRange, Get
<1>11. CASE NoDataYet
  BY <1>11 DEF NoDataYet
<1>12. CASE Serve
  BY <1>12 DEF Serve
<1>13. CASE CallbackAdds
  BY <1>13 DEF CallbackAdds, PushBack, ServiceTypes
<1>14. CASE CallbackReturns
  BY <1>14 DEF CallbackReturns
<1>15. CASE RemoveJob
  <2>1. m_service_list' \in Seq(Nat)
    BY <1>15, RemoveIndexProperties DEF RemoveJob
  <2> QED BY <1>15, <2>1 DEF RemoveJob
<1>16. CASE UNCHANGED vars
  BY <1>16 DEF vars
<1> QED
  BY <1>1, <1>2, <1>3, <1>4, <1>5, <1>6, <1>7, <1>8, <1>9, <1>10, <1>11,
     <1>12, <1>13, <1>14, <1>15, <1>16 DEF Next, MainThread, IoThread

LEMMA InitTypeOK == Init => TypeOK
<1> SUFFICES ASSUME Init PROVE TypeOK
  OBVIOUS
<1>1. added \in Seq(ServiceTypes)
  BY DEF Init
<1>2. m_service_list \in Seq(Nat) /\ served \in Seq(Nat)
  BY DEF Init
<1> QED BY <1>1, <1>2 DEF Init, TypeOK

(***************************************************************************)
(* Every variable of the service keeps its type; in particular the index i *)
(* never goes below zero, whatever jobs the two threads add.               *)
(***************************************************************************)
THEOREM TypeCorrect == Spec => []TypeOK
  BY InitTypeOK, TypeStep, PTL DEF Spec
-----------------------------------------------------------------------------
(***************************************************************************)
(* The parts of IndInv, one lemma each.  A step either adds a job at the   *)
(* back of the list, removes the entry at i, clears the list, moves a      *)
(* fetched job to served, or leaves list and served alone.                 *)
(***************************************************************************)

\* A job is added by either thread.
Adds ==
    /\ \E t \in ServiceTypes : added' = Append(added, t)
    /\ m_service_list' = Append(m_service_list, Len(added) + 1)
    /\ UNCHANGED <<i, job_work, served, run>>
    /\ Running' <=> Running

LEMMA AddIsAdds ==
    ASSUME TypeOK, AddEnd \/ CallbackAdds
    PROVE  Adds
<1>1. CASE AddEnd
  <2>1. PICK t \in ServiceTypes : added' = Append(added, t)
    BY <1>1 DEF AddEnd
  <2>2. Len(added') = Len(added) + 1
    BY <2>1 DEF TypeOK
  <2>3. m_service_list' = Append(m_service_list, Len(added) + 1)
    BY <1>1, <2>2 DEF AddEnd, PushBack
  <2>4. UNCHANGED <<i, job_work, served, run>> /\ Running /\ Running'
    BY <1>1 DEF AddEnd, ioVars, Running
  <2> QED BY <2>1, <2>3, <2>4 DEF Adds
<1>2. CASE CallbackAdds
  <2>1. PICK t \in ServiceTypes : added' = Append(added, t)
    BY <1>2 DEF CallbackAdds, ServiceTypes
  <2>2. Len(added') = Len(added) + 1
    BY <2>1 DEF TypeOK
  <2>3. m_service_list' = Append(m_service_list, Len(added) + 1)
    BY <1>2, <2>2 DEF CallbackAdds, PushBack
  <2>4. UNCHANGED <<i, job_work, served, run, main>>
    BY <1>2 DEF CallbackAdds, ioVars, mainVars
  <2> QED BY <2>1, <2>3, <2>4 DEF Adds, Running
<1> QED BY <1>1, <1>2

LEMMA AddsPreserves ==
    ASSUME IndInv, Adds
    PROVE  ListedJobs' /\ HeldJob' /\ ServedJobs' /\ NoJobLost'
<1> DEFINE new == Len(added) + 1
           list == m_service_list
<1> USE DEF IndInv
<1>1. /\ Len(added) \in Nat
      /\ Len(list) \in Nat
      /\ Len(added') = new
      /\ Jobs' = Jobs \union {new}
      /\ new \notin Jobs
  BY DEF Adds, TypeOK, Jobs
<1>2. /\ DOMAIN list = 1..Len(list)
      /\ DOMAIN list' = 1..(Len(list) + 1)
      /\ Len(list') = Len(list) + 1
      /\ list'[Len(list) + 1] = new
      /\ \A k \in 1..Len(list) : list'[k] = list[k]
  BY DEF Adds, TypeOK
<1>3. UNCHANGED <<i, job_work, served, run>>
  BY DEF Adds
<1>4. ListedJobs'
  <2>1. \A k \in DOMAIN list' : list'[k] \in Jobs'
    BY <1>1, <1>2 DEF ListedJobs
  <2>2. ListInOrder'
    <3> SUFFICES ASSUME NEW a \in DOMAIN list', NEW b \in DOMAIN list', a < b
                 PROVE  list'[a] < list'[b]
      BY DEF ListInOrder
    <3>1. CASE b \in DOMAIN list
      BY <1>2, <3>1 DEF ListedJobs, ListInOrder
    <3>2. CASE b = Len(list) + 1
      <4>1. list'[a] \in Jobs /\ list'[b] = new
        BY <1>1, <1>2, <3>2 DEF ListedJobs
      <4> QED BY <1>1, <4>1 DEF Jobs
    <3> QED BY <1>1, <1>2, <3>1, <3>2
  <2> QED BY <1>1, <1>3, <2>1, <2>2 DEF ListedJobs
<1>5. HeldJob'
  <2>1. Holding => job_work # new
    BY <1>1 DEF HeldJob
  <2>2. RemovesItsOwnJob'
    BY <1>1, <1>2, <1>3 DEF HeldJob, RemovesItsOwnJob, InRange, Get, Adds, TypeOK
  <2> QED BY <1>1, <1>2, <1>3, <2>1, <2>2 DEF HeldJob, Holding
<1>6. ServedJobs'
  <2>1. \A n \in DOMAIN served : served[n] # new
    BY <1>1 DEF ListedJobs
  <2> QED BY <1>1, <1>2, <1>3, <2>1 DEF ServedJobs, ServedOnce, IsInjective, Called
<1>7. NoJobLost'
  <2>1. ToSet(list') = ToSet(list) \union {new}
    BY <1>1, <1>2 DEF ToSet
  <2> QED BY <1>1, <1>3, <2>1 DEF NoJobLost, ToSet, Adds
<1> QED BY <1>4, <1>5, <1>6, <1>7

(***************************************************************************)
(* RemoveJob takes out the entry at i, which is the job just served or,    *)
(* once the list has been cleared, any job or none.                        *)
(***************************************************************************)
LEMMA RemovePreserves ==
    ASSUME IndInv, RemoveJob
    PROVE  ListedJobs' /\ HeldJob' /\ ServedJobs' /\ NoJobLost'
<1> DEFINE list == m_service_list
           Old(k) == IF i < Len(list) /\ i < k THEN k + 1 ELSE k
<1> USE DEF IndInv
<1>1. /\ run = "remove" /\ run' = "for"
      /\ UNCHANGED <<added, main, job_work, served>>
      /\ Jobs' = Jobs /\ Jobs \subseteq Nat
      /\ Running' <=> Running
  BY DEF RemoveJob, mainVars, Jobs, Running
<1>2. /\ i \in Nat /\ Len(list) \in Nat
      /\ DOMAIN list = 1..Len(list)
      /\ DOMAIN list' = 1..Len(list')
      /\ Len(list') = IF i < Len(list) THEN Len(list) - 1 ELSE Len(list)
      /\ \A k \in DOMAIN list' : list'[k] = list[Old(k)]
  <2>1. i \in Nat /\ list \in Seq(Nat) /\ list' = RemoveIndex(list, i)
    BY DEF TypeOK, RemoveJob
  <2>2. /\ list' \in Seq(Nat)
        /\ Len(list') = IF i < Len(list) THEN Len(list) - 1 ELSE Len(list)
        /\ \A n \in 1..Len(list') :
              list'[n] = IF i < Len(list) /\ i < n THEN list[n + 1] ELSE list[n]
    BY <2>1, RemoveIndexProperties
  <2>3. /\ Len(list) \in Nat /\ DOMAIN list = 1..Len(list)
        /\ DOMAIN list' = 1..Len(list')
    BY <2>1, <2>2
  <2>4. ASSUME NEW k \in DOMAIN list'
        PROVE  list'[k] = list[Old(k)]
    BY <2>2, <2>3
  <2> QED BY <2>1, <2>2, <2>3, <2>4
<1>3. /\ \A k \in DOMAIN list' : Old(k) \in DOMAIN list /\ Old(k) # i + 1
      /\ \A a, b \in DOMAIN list' : a < b => Old(a) < Old(b)
  <2>1. /\ i \in Nat /\ Len(list) \in Nat
        /\ DOMAIN list = 1..Len(list)
        /\ DOMAIN list' = 1..(IF i < Len(list) THEN Len(list) - 1 ELSE Len(list))
    BY <1>2
  <2>2. ASSUME NEW k \in DOMAIN list'
        PROVE  Old(k) \in DOMAIN list /\ Old(k) # i + 1
    BY ONLY <2>1, <2>2
  <2>3. ASSUME NEW a \in DOMAIN list', NEW b \in DOMAIN list', a < b
        PROVE  Old(a) < Old(b)
    BY ONLY <2>1, <2>3
  <2> QED BY <2>2, <2>3
<1>4. ListedJobs'
  <2>1. ListInOrder'
    BY <1>2, <1>3 DEF ListedJobs, ListInOrder
  <2> QED BY <1>1, <1>2, <1>3, <2>1 DEF ListedJobs
<1>5. HeldJob'
  BY <1>1 DEF HeldJob, Holding, RemovesItsOwnJob
<1>6. ServedJobs'
  <2>1. \A k \in DOMAIN list', n \in DOMAIN served : list'[k] # served[n]
    <3> SUFFICES ASSUME NEW k \in DOMAIN list', NEW n \in DOMAIN served,
                        list'[k] = served[n]
                 PROVE  FALSE
      OBVIOUS
    <3>1. Old(k) \in DOMAIN list /\ list[Old(k)] = served[n] /\ Old(k) # i + 1
      BY <1>2, <1>3
    <3>2. list[Old(k)] = job_work
      BY <3>1 DEF ServedJobs
    <3> QED BY <1>1, <3>1, <3>2 DEF HeldJob, Holding
  <2> QED BY <1>1, <2>1 DEF ServedJobs, ServedOnce, Called
<1>7. NoJobLost'
  <2> SUFFICES ASSUME Running
               PROVE  Jobs = ToSet(list') \union ToSet(served)
    BY <1>1 DEF NoJobLost
  <2>1. /\ i < Len(list) /\ list[i + 1] = job_work
        /\ Jobs = ToSet(list) \union ToSet(served)
        /\ job_work \in ToSet(served)
    BY <1>1 DEF HeldJob, RemovesItsOwnJob, InRange, Get, NoJobLost,
                ServedJobs, Called, ToSet
  <2>2. ToSet(list') \subseteq ToSet(list)
    BY <1>2, <1>3 DEF ToSet
  <2>3. ASSUME NEW k \in DOMAIN list, k # i + 1
        PROVE  list[k] \in ToSet(list')
    <3>1. CASE k <= i
      <4>1. k \in DOMAIN list' /\ Old(k) = k
        BY <1>2, <2>1, <3>1
      <4> QED BY <1>2, <4>1 DEF ToSet
    <3>2. CASE i + 1 < k
      <4>1. k - 1 \in DOMAIN list' /\ Old(k - 1) = k
        BY <1>2, <2>1, <3>2
      <4> QED BY <1>2, <4>1 DEF ToSet
    <3>3. k \in Nat /\ i \in Nat
      <4>1. DOMAIN list = 1..Len(list) /\ i \in Nat
        BY <1>2
      <4> QED BY ONLY <4>1, k \in DOMAIN list
    <3>4. k <= i \/ i + 1 < k
      BY ONLY <2>3, <3>3
    <3> QED BY <3>1, <3>2, <3>4
  <2>4. ToSet(list) \subseteq ToSet(list') \union {job_work}
    BY <2>1, <2>3 DEF ToSet
  <2> QED BY <2>1, <2>2, <2>4
<1> QED BY <1>4, <1>5, <1>6, <1>7

(* get() hands over the entry at i, which has not been served.             *)
LEMMA GetPreserves ==
    ASSUME IndInv, GetJob
    PROVE  ListedJobs' /\ HeldJob' /\ ServedJobs' /\ NoJobLost'
<1> DEFINE list == m_service_list
<1> USE DEF IndInv
<1>1. /\ run = "get" /\ run' \in {"serve", "terminated"}
      /\ UNCHANGED <<m_service_list, added, main, i, served>>
      /\ Jobs' = Jobs /\ Jobs \subseteq Nat /\ Running' = Running
  BY DEF GetJob, mainVars, Jobs, Running
<1>2. run' = "serve" => InRange(list, i) /\ job_work' = Get(list, i)
  BY DEF GetJob
<1>3. ListedJobs' /\ NoJobLost'
  BY <1>1 DEF ListedJobs, ListInOrder, NoJobLost, ToSet
<1>4. InRange(list, i) => /\ i + 1 \in DOMAIN list
                          /\ Get(list, i) = list[i + 1]
  BY DEF InRange, Get, TypeOK
<1>5. HeldJob'
  <2>1. ASSUME run' = "serve", NEW k \in DOMAIN list, list[k] = job_work'
        PROVE  k = i + 1
    <3>1. list[k] = list[i + 1] /\ i + 1 \in DOMAIN list
      BY <1>2, <1>4, <2>1
    <3>2. \A a, b \in DOMAIN list : a < b => list[a] < list[b]
      BY DEF ListedJobs, ListInOrder
    <3>3. k \in Nat /\ i + 1 \in Nat /\ \A a \in DOMAIN list : list[a] \in Nat
      BY <1>1 DEF TypeOK, ListedJobs
    <3> QED BY ONLY <2>1, <3>1, <3>2, <3>3
  <2>2. run' = "serve" => job_work' \in Jobs
    BY <1>2, <1>4 DEF ListedJobs
  <2>3. RemovesItsOwnJob'
    BY <1>1, <1>2 DEF RemovesItsOwnJob
  <2> QED BY <1>1, <2>1, <2>2, <2>3 DEF HeldJob, Holding
<1>6. ServedJobs'
  BY <1>1, <1>2, <1>4 DEF ServedJobs, ServedOnce, Called
<1> QED BY <1>3, <1>5, <1>6

(* The job held moves to served.                                           *)
LEMMA ServePreserves ==
    ASSUME IndInv, Serve
    PROVE  ListedJobs' /\ HeldJob' /\ ServedJobs' /\ NoJobLost'
<1> USE DEF IndInv
<1>1. /\ run = "serve" /\ run' = "callback"
      /\ UNCHANGED <<m_service_list, added, main, i, job_work>>
      /\ Jobs' = Jobs /\ Running' = Running
      /\ job_work \in Jobs
  BY DEF Serve, mainVars, Jobs, Running, HeldJob, Holding
<1>2. /\ DOMAIN served = 1..Len(served)
      /\ DOMAIN served' = 1..(Len(served) + 1)
      /\ Len(served) \in Nat
      /\ served'[Len(served) + 1] = job_work
      /\ \A n \in 1..Len(served) : served'[n] = served[n]
  BY DEF Serve, TypeOK
<1>3. ListedJobs'
  BY <1>1, <1>2 DEF ListedJobs, ListInOrder
<1>4. HeldJob'
  BY <1>1 DEF HeldJob, Holding, RemovesItsOwnJob
<1>5. ServedJobs'
  <2>1. \A n \in DOMAIN served : served[n] # job_work
    BY <1>1 DEF ServedJobs
  <2>2. ServedOnce'
    BY <1>2, <2>1 DEF ServedJobs, ServedOnce, IsInjective
  <2>3. ASSUME NEW k \in DOMAIN m_service_list, NEW n \in DOMAIN served',
               m_service_list[k] = served'[n]
        PROVE  served'[n] = job_work
    BY <1>1, <1>2, <2>3 DEF ServedJobs, Called
  <2>4. \E n \in DOMAIN served' : served'[n] = job_work
    BY <1>2
  <2> QED BY <1>1, <2>2, <2>3, <2>4 DEF ServedJobs, Called
<1>6. NoJobLost'
  <2>1. ToSet(served') = ToSet(served) \union {job_work}
    BY <1>2 DEF ToSet
  <2> QED BY <1>1, <2>1 DEF NoJobLost
<1> QED BY <1>3, <1>4, <1>5, <1>6

(* stop() clears the list, and with it what the properties of a running    *)
(* service say about the list.                                             *)
LEMMA ClearPreserves ==
    ASSUME IndInv, StopClear
    PROVE  ListedJobs' /\ HeldJob' /\ ServedJobs' /\ NoJobLost'
<1> USE DEF IndInv
<1>1. /\ m_service_list' = <<>> /\ DOMAIN m_service_list' = {}
      /\ UNCHANGED <<added, run, i, job_work, served>>
      /\ Jobs' = Jobs /\ ~Running'
  BY DEF StopClear, ioVars, Jobs, Running
<1>2. ListedJobs'
  BY <1>1 DEF ListedJobs, ListInOrder
<1>3. HeldJob' /\ NoJobLost'
  BY <1>1 DEF HeldJob, Holding, RemovesItsOwnJob, NoJobLost
<1>4. ServedJobs'
  BY <1>1 DEF ServedJobs, ServedOnce, Called
<1> QED BY <1>2, <1>3, <1>4

(* A step that leaves the list and served alone and does not start or end  *)
(* the holding of a job, other than by moving on to the next entry.        *)
LEMMA OtherPreserves ==
    ASSUME IndInv,
           UNCHANGED <<m_service_list, added, job_work, served>>,
           Running' <=> Running,
           ~Holding' \/ (UNCHANGED <<run, i>>)
                    \/ (run = "callback" /\ run' = "remove" /\ UNCHANGED i),
           Called => Called'
    PROVE  ListedJobs' /\ HeldJob' /\ ServedJobs' /\ NoJobLost'
<1> USE DEF IndInv
<1>1. ListedJobs' /\ NoJobLost'
  BY DEF ListedJobs, ListInOrder, NoJobLost, Jobs
<1>2. HeldJob'
  BY DEF HeldJob, Holding, RemovesItsOwnJob, Jobs
<1>3. ServedJobs'
  BY DEF ServedJobs, ServedOnce, Called, Holding
<1> QED BY <1>1, <1>2, <1>3

LEMMA InitIndInv == Init => IndInv
<1> SUFFICES ASSUME Init PROVE IndInv
  OBVIOUS
<1>1. m_service_list = <<>> /\ served = <<>> /\ added = <<>> /\ run = "begin"
  BY DEF Init
<1>2. DOMAIN m_service_list = {} /\ DOMAIN served = {} /\ Jobs = {}
  BY <1>1 DEF Jobs
<1>3. TypeOK
  BY InitTypeOK
<1>4. ListedJobs /\ HeldJob
  BY <1>1, <1>2
     DEF ListedJobs, ListInOrder, HeldJob, Holding, RemovesItsOwnJob
<1>5. ServedJobs /\ NoJobLost
  BY <1>1, <1>2
     DEF ServedJobs, ServedOnce, IsInjective, Called, NoJobLost, ToSet
<1> QED BY <1>3, <1>4, <1>5 DEF IndInv

LEMMA IndInvStep == IndInv /\ [Next]_vars => IndInv'
<1> SUFFICES ASSUME IndInv, [Next]_vars PROVE IndInv'
  OBVIOUS
<1> DEFINE Rest == ListedJobs' /\ HeldJob' /\ ServedJobs' /\ NoJobLost'
<1>1. TypeOK'
  BY TypeStep DEF IndInv
<1>2. CASE AddEnd \/ CallbackAdds
  <2>1. Adds
    BY <1>2, AddIsAdds DEF IndInv
  <2> QED BY <1>1, <2>1, AddsPreserves DEF IndInv
<1>3. CASE RemoveJob
  BY <1>1, <1>3, RemovePreserves DEF IndInv
<1>4. CASE GetJob
  BY <1>1, <1>4, GetPreserves DEF IndInv
<1>5. CASE Serve
  BY <1>1, <1>5, ServePreserves DEF IndInv
<1>6. CASE StopClear
  BY <1>1, <1>6, ClearPreserves DEF IndInv
<1>7. CASE AddBegin \/ StopFlag \/ Join
  <2>1. /\ UNCHANGED <<m_service_list, added, job_work, served, run, i>>
        /\ Running' <=> Running
    BY <1>7 DEF AddBegin, StopFlag, Join, ioVars, Running
  <2> QED BY <1>1, <2>1, OtherPreserves DEF IndInv, Called
<1>8. CASE Begin \/ TestActive \/ InsideList \/ EndOfPass \/ NoDataYet
  <2>1. /\ UNCHANGED <<m_service_list, added, job_work, served, main>>
        /\ run' \notin {"serve", "callback", "remove"}
        /\ run \notin {"callback", "remove"}
    BY <1>8 DEF Begin, TestActive, InsideList, EndOfPass, NoDataYet, mainVars
  <2> QED
    BY <1>1, <2>1, OtherPreserves DEF IndInv, Called, Holding, Running
<1>9. CASE CallbackReturns
  <2>1. /\ UNCHANGED <<m_service_list, added, job_work, served, main, i>>
        /\ run = "callback" /\ run' = "remove"
    BY <1>9 DEF CallbackReturns, mainVars
  <2> QED
    BY <1>1, <2>1, OtherPreserves DEF IndInv, Called, Holding, Running
<1>10. CASE UNCHANGED vars
  BY <1>1, <1>10, OtherPreserves DEF IndInv, vars, Called, Running
<1> QED
  BY <1>2, <1>3, <1>4, <1>5, <1>6, <1>7, <1>8, <1>9, <1>10
     DEF Next, MainThread, IoThread

LEMMA IndInvCorrect == Spec => []IndInv
  BY InitIndInv, IndInvStep, PTL DEF Spec

(***************************************************************************)
(* remove(i) removes by position after the callback has run, while other   *)
(* jobs were added by both threads: it still removes the job it has        *)
(* served, until stop() has cleared the list.                              *)
(***************************************************************************)
THEOREM RemovalCorrect == Spec => []RemovesItsOwnJob
  BY IndInvCorrect, PTL DEF IndInv, HeldJob

(***************************************************************************)
(* No job is given to its callback twice, although the list still holds it *)
(* while the callback runs and even if stop() clears the list meanwhile.   *)
(***************************************************************************)
THEOREM AtMostOnce == Spec => []ServedOnce
  BY IndInvCorrect, PTL DEF IndInv, ServedJobs

(* No job that was added is lost before stop() clears the list.            *)
THEOREM NothingLost == Spec => []NoJobLost
  BY IndInvCorrect, PTL DEF IndInv, ListedJobs

(* The list keeps the order of the additions, whatever run() removes.      *)
THEOREM OrderKept == Spec => []ListInOrder
  BY IndInvCorrect, PTL DEF IndInv, ListedJobs
-----------------------------------------------------------------------------
(***************************************************************************)
(* Refinement.  Waiting is the state function that stands for the jobs     *)
(* JobService has waiting; each step maps to a JobService step or to none. *)
(***************************************************************************)
JobSteps == JS!Next \/ UNCHANGED JS!vars

LEMMA InitRefines == Init => JS!Init
<1> SUFFICES ASSUME Init PROVE JS!Init
  OBVIOUS
<1>1. Len(added) = 0 /\ ToSet(m_service_list) = {} /\ ToSet(served) = {}
  BY DEF Init, ToSet
<1> QED BY <1>1 DEF Init, JS!Init, Waiting

(* Either thread's addAsyncJob is Add.                                     *)
LEMMA AddsRefines ==
    ASSUME IndInv, Adds, main' \in {"joining", "joined"} <=>
                         main \in {"joining", "joined"}
    PROVE  JS!Add
<1> DEFINE new == Len(added) + 1
<1>1. Len(added') = new /\ new \notin Jobs
  BY DEF Adds, IndInv, TypeOK, Jobs
<1>2. ToSet(m_service_list') = ToSet(m_service_list) \union {new}
  <2>1. m_service_list' = PushBack(m_service_list, new) /\ new \in Nat
    BY DEF Adds, PushBack, IndInv, TypeOK
  <2> QED BY <2>1, PushBackElements DEF IndInv, TypeOK
<1>3. UNCHANGED <<run, job_work, served>> /\ ToSet(served)' = ToSet(served)
  BY DEF Adds
<1>4. new \notin ToSet(served)
  BY <1>1 DEF IndInv, ListedJobs, ToSet
<1>5. Waiting' = Waiting \union {new}
  BY <1>2, <1>3, <1>4 DEF Waiting
<1> QED BY <1>1, <1>3, <1>5 DEF JS!Add

(* The socket operation and the callback are Run.                          *)
LEMMA ServeRefines ==
    ASSUME IndInv, Serve
    PROVE  JS!Run(job_work) /\ job_work \in Waiting
<1>1. /\ run = "serve" /\ run' = "callback"
      /\ UNCHANGED <<m_service_list, added, main, job_work>>
  BY DEF Serve, mainVars
<1>2. ToSet(served') = ToSet(served) \union {job_work}
  <2>1. served' = PushBack(served, job_work) /\ job_work \in Nat
    BY DEF Serve, PushBack, IndInv, TypeOK
  <2> QED BY <2>1, PushBackElements DEF IndInv, TypeOK
<1>3. job_work \notin ToSet(served)
  BY <1>1 DEF IndInv, ServedJobs, ToSet
<1>4. job_work \in Waiting /\ Waiting' = Waiting \ {job_work}
  BY <1>1, <1>2, <1>3 DEF Waiting
<1> QED BY <1>1, <1>2, <1>4 DEF JS!Run

(* A removed entry has been served, or the list has been cleared and Drop  *)
(* is allowed.                                                             *)
LEMMA RemoveRefines ==
    ASSUME IndInv, RemoveJob
    PROVE  JobSteps
<1> DEFINE list == m_service_list
<1>1. /\ run = "remove" /\ run' = "for"
      /\ UNCHANGED <<added, main, job_work, served>>
      /\ i \in Nat /\ list \in Seq(Nat) /\ list' = RemoveIndex(list, i)
  BY DEF RemoveJob, mainVars, IndInv, TypeOK
<1>2. CASE ~(i < Len(list))
  <2>1. list' = list
    BY <1>1, <1>2 DEF RemoveIndex, InRange
  <2> QED BY <1>1, <2>1 DEF JobSteps, JS!vars, Waiting
<1>3. CASE i < Len(list)
  <2> DEFINE gone == list[i + 1]
  <2>1. i + 1 \in DOMAIN list /\ DOMAIN list = 1..Len(list) /\ Len(list) \in Nat
    BY <1>1, <1>3
  <2>2. /\ list' \in Seq(Nat)
        /\ Len(list') = Len(list) - 1
        /\ \A n \in 1..(Len(list) - 1) :
              list'[n] = IF i < n THEN list[n + 1] ELSE list[n]
    BY <1>1, <1>3, RemoveIndexProperties
  <2>3. DOMAIN list' = 1..(Len(list) - 1)
    BY <2>2
  <2>4. \A k \in DOMAIN list : list[k] = gone => k = i + 1
    <3>1. \A a, b \in DOMAIN list : a < b => list[a] < list[b]
      BY DEF IndInv, ListedJobs, ListInOrder
    <3>2. \A k \in DOMAIN list : k \in Nat /\ list[k] \in Nat
      BY <1>1, <2>1
    <3> QED BY <2>1, <3>1, <3>2
  <2>5. ToSet(list') = ToSet(list) \ {gone}
    <3>1. ASSUME NEW n \in DOMAIN list'
          PROVE  list'[n] \in ToSet(list) \ {gone}
      <4>1. CASE i < n
        <5>1. n + 1 \in DOMAIN list /\ n + 1 # i + 1 /\ list'[n] = list[n + 1]
          BY <1>1, <2>1, <2>2, <2>3, <4>1
        <5> QED BY <2>4, <5>1 DEF ToSet
      <4>2. CASE ~(i < n)
        <5>1. n \in DOMAIN list /\ n # i + 1 /\ list'[n] = list[n]
          BY <1>1, <2>1, <2>2, <2>3, <4>2
        <5> QED BY <2>4, <5>1 DEF ToSet
      <4> QED BY <4>1, <4>2
    <3>2. ASSUME NEW k \in DOMAIN list, list[k] # gone
          PROVE  list[k] \in ToSet(list')
      <4>0. k \in Nat /\ i \in Nat /\ k # i + 1
        BY <1>1, <2>1, <3>2
      <4>1. CASE k < i + 1
        <5>1. k \in DOMAIN list' /\ list'[k] = list[k]
          BY <1>1, <1>3, <2>1, <2>2, <2>3, <4>1
        <5> QED BY <5>1 DEF ToSet
      <4>2. CASE i + 1 < k
        <5>1. k - 1 \in DOMAIN list' /\ list'[k - 1] = list[k]
          BY <1>1, <1>3, <2>1, <2>2, <2>3, <4>2
        <5> QED BY <5>1 DEF ToSet
      <4> QED BY ONLY <4>0, <4>1, <4>2
    <3> QED BY <3>1, <3>2 DEF ToSet
  <2>6. Waiting' = Waiting \ {gone}
    BY <1>1, <2>5 DEF Waiting
  <2>7. CASE gone \notin Waiting
    BY <1>1, <2>6, <2>7 DEF JobSteps, JS!vars
  <2>8. CASE gone \in Waiting
    <3>1. gone \notin ToSet(served)
      BY <2>8 DEF Waiting
    <3>2. ~Running
      BY <1>1, <3>1
         DEF IndInv, HeldJob, ServedJobs, RemovesItsOwnJob, Get, Called, ToSet
    <3>3. main \in {"joining", "joined"}
      BY <3>2 DEF Running, IndInv, TypeOK
    <3> QED BY <1>1, <2>6, <2>8, <3>3 DEF JobSteps, JS!Next, JS!Drop
  <2> QED BY <2>7, <2>8
<1> QED BY <1>2, <1>3

(* clear() drops every waiting job but the one run() holds.                *)
LEMMA ClearRefines ==
    ASSUME IndInv, StopClear
    PROVE  JS!Stop
<1>1. /\ main = "clearing" /\ main' = "joining"
      /\ UNCHANGED <<added, run, job_work, served>>
  BY DEF StopClear, ioVars
<1>2. ToSet(m_service_list') = {}
  BY DEF StopClear, ToSet
<1>3. Waiting' \in {{j} : j \in Waiting} \union {{}}
  BY <1>1, <1>2 DEF Waiting, IndInv, ServedJobs, ToSet
<1> QED BY <1>1, <1>3 DEF JS!Stop

LEMMA StepRefines == IndInv /\ [Next]_vars => [JS!Next]_(JS!vars)
<1> SUFFICES ASSUME IndInv, [Next]_vars PROVE JobSteps
  BY DEF JobSteps
<1>1. CASE AddEnd \/ CallbackAdds
  <2>1. Adds
    BY <1>1, AddIsAdds DEF IndInv
  <2>2. main' \in {"joining", "joined"} <=> main \in {"joining", "joined"}
    BY <1>1 DEF AddEnd, CallbackAdds, mainVars
  <2> QED BY <2>1, <2>2, AddsRefines DEF JobSteps, JS!Next
<1>2. CASE Serve
  BY <1>2, ServeRefines DEF JobSteps, JS!Next
<1>3. CASE RemoveJob
  BY <1>3, RemoveRefines
<1>4. CASE StopClear
  BY <1>4, ClearRefines DEF JobSteps, JS!Next
<1>5. CASE GetJob
  <2>1. /\ run = "get" /\ run' \in {"serve", "terminated"}
        /\ UNCHANGED <<m_service_list, added, main, served>>
        /\ run' = "serve" =>
              InRange(m_service_list, i) /\ job_work' = m_service_list[i + 1]
    BY <1>5 DEF GetJob, mainVars, Get
  <2>2. InRange(m_service_list, i) =>
           m_service_list[i + 1] \in ToSet(m_service_list)
    BY DEF InRange, ToSet, IndInv, TypeOK
  <2>3. Waiting' = Waiting
    BY <2>1, <2>2 DEF Waiting
  <2> QED BY <2>1, <2>3 DEF JobSteps, JS!vars
<1>6. CASE NoDataYet
  <2>1. /\ run = "serve" /\ run' = "for"
        /\ UNCHANGED <<m_service_list, added, main, job_work, served>>
    BY <1>6 DEF NoDataYet, mainVars
  <2>2. CASE job_work \in ToSet(m_service_list)
    <3>1. Waiting' = Waiting
      BY <2>1, <2>2 DEF Waiting
    <3> QED BY <2>1, <3>1 DEF JobSteps, JS!vars
  <2>3. CASE job_work \notin ToSet(m_service_list)
    <3>1. ~Running
      BY <2>1, <2>3 DEF IndInv, HeldJob, RemovesItsOwnJob, InRange, Get, ToSet,
                        TypeOK
    <3>2. main \in {"joining", "joined"}
      BY <3>1 DEF Running, IndInv, TypeOK
    <3>3. job_work \in Waiting /\ Waiting' = Waiting \ {job_work}
      BY <2>1, <2>3 DEF Waiting, IndInv, ServedJobs, ToSet
    <3> QED BY <2>1, <3>2, <3>3 DEF JobSteps, JS!Next, JS!Drop
  <2> QED BY <2>2, <2>3
<1>7. CASE AddBegin \/ StopFlag \/ Join \/ Begin \/ TestActive \/ InsideList
           \/ EndOfPass \/ CallbackReturns \/ UNCHANGED vars
  <2>1. /\ UNCHANGED <<m_service_list, added, job_work, served>>
        /\ run' = "serve" <=> run = "serve"
        /\ main' \in {"joining", "joined"} <=> main \in {"joining", "joined"}
    BY <1>7 DEF AddBegin, StopFlag, Join, Begin, TestActive, InsideList,
                EndOfPass, CallbackReturns, vars, ioVars, mainVars
  <2>2. Waiting' = Waiting
    BY <2>1 DEF Waiting
  <2> QED BY <2>1, <2>2 DEF JobSteps, JS!vars
<1> QED
  BY <1>1, <1>2, <1>3, <1>4, <1>5, <1>6, <1>7 DEF Next, MainThread, IoThread

(***************************************************************************)
(* The job list walked by index implements the job service: at most one    *)
(* run of each job, and no job dropped before stop().                      *)
(***************************************************************************)
THEOREM ServiceRefinement == Spec => ImplementsJobService
  BY InitRefines, StepRefines, IndInvCorrect, PTL
     DEF Spec, ImplementsJobService, JS!Spec
=============================================================================
