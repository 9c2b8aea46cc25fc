--------------------------- MODULE Indexer_proofs ---------------------------
(***************************************************************************)
(* Theorems about JobQueue, for every set of keys and workers, every bound *)
(* and every setting of the queue's durations, and about Indexer, for      *)
(* every set of repositories, models, workers and refs.                    *)
(*                                                                         *)
(* The queue's safety argument rests on two facts the properties           *)
(* themselves do not state: leased_by names a worker only on a leased row  *)
(* (so the WHERE clause of Complete and Fail, which tests leased_by and    *)
(* not status, can touch no other row), and a row beyond the last          *)
(* submission is blank.  The pipeline is a queue (Pipeline); through that  *)
(* every theorem of the queue holds of the pipeline, and the queue's       *)
(* invariant is what the pipeline's theorems are proved from.              *)
(***************************************************************************)
EXTENDS Indexer, Lists_proofs

-----------------------------------------------------------------------------
(* The queue.                                                              *)

LeaseShape == \A j \in JobId : row[j].owner # NoWorker => row[j].status = "leased"

Blank == \A j \in JobId : j > submitted =>
           /\ row[j].status = "unused" /\ row[j].owner = NoWorker
           /\ started[j] = 0

StartsCounted == \A j \in JobId : started[j] <= row[j].attempts

(* The inductive invariant.                                                 *)
IInv == /\ TypeOK
        /\ LeaseShape
        /\ Blank
        /\ StartsCounted
        /\ OneActivePerKey
        /\ OwnerIsLatest
        /\ StartsBounded

LEMMA RetryDelayIsNat == \A n \in Int : RetryDelay(n) \in Nat
  BY QueueAssumption DEF QueueAssumption, RetryDelay

LEMMA AnyKeyIsKey == AnyKey \in Key
  BY QueueAssumption DEF QueueAssumption, AnyKey

LEMMA InitInv == Init => IInv
<1> SUFFICES ASSUME Init PROVE IInv
  OBVIOUS
<1> USE QueueAssumption DEF QueueAssumption, Init, JobId, NoJob
<1>1. TypeOK
  BY AnyKeyIsKey DEF TypeOK, Status
<1>2. LeaseShape /\ Blank /\ StartsCounted /\ StartsBounded
  BY DEF LeaseShape, Blank, StartsCounted, StartsBounded
<1>3. OneActivePerKey /\ OwnerIsLatest
  BY DEF OneActivePerKey, OwnerIsLatest, Active
<1> QED
  BY <1>1, <1>2, <1>3 DEF IInv

-----------------------------------------------------------------------------
(* One lemma per statement of the queue: it preserves the invariant.        *)

LEMMA EnqueueInv == ASSUME IInv, NEW k \in Key, Enqueue(k) PROVE IInv'
<1> USE QueueAssumption DEF QueueAssumption, IInv
<1>1. CASE UNCHANGED <<submitted, row>>
  BY <1>1 DEF Enqueue, TypeOK, LeaseShape, Blank, StartsCounted, StartsBounded,
              OneActivePerKey, OwnerIsLatest, LeasedBy, Name
<1>2. CASE submitted' = submitted + 1
  <2> DEFINE n == submitted + 1
  <2>1. /\ n \in JobId /\ \A j \in JobId : ~ActiveFor(k, j)
        /\ row' = [row EXCEPT ![n] = [status |-> "pending", key |-> k,
                                      owner |-> NoWorker, attempts |-> 0]]
        /\ UNCHANGED <<timer, held, started, faults>>
    <3>1. submitted' # submitted BY <1>2 DEF TypeOK
    <3>2. /\ submitted < MaxJobs /\ \A j \in JobId : ~ActiveFor(k, j)
          /\ row' = [row EXCEPT ![n] = [status |-> "pending", key |-> k,
                                        owner |-> NoWorker, attempts |-> 0]]
          /\ UNCHANGED <<timer, held, started, faults>>
      BY <3>1 DEF Enqueue
    <3>3. n \in JobId BY <3>2 DEF TypeOK, JobId
    <3> QED BY <3>2, <3>3
  <2>2. started[n] = 0
    BY <2>1 DEF TypeOK, Blank, JobId
  <2>3. TypeOK'
    <3> DEFINE Row == [status : Status, key : Key, owner : Worker \cup {NoWorker},
                       attempts : Nat]
               new == [status |-> "pending", key |-> k, owner |-> NoWorker, attempts |-> 0]
    <3>1. new \in Row
      BY DEF Status, Active
    <3>2. row \in [JobId -> Row] /\ row' = [row EXCEPT ![n] = new] /\ n \in JobId
      BY <2>1 DEF TypeOK
    <3>3. submitted' \in 0..MaxJobs
      BY <1>2, <2>1 DEF TypeOK, JobId
    <3>4. row' \in [JobId -> Row]
      <4> HIDE DEF Row, new, n
      <4> QED
        BY <3>1, <3>2
    <3> QED
      BY <2>1, <3>3, <3>4 DEF TypeOK
  <2>4. LeaseShape' /\ Blank' /\ StartsCounted' /\ StartsBounded'
    BY <1>2, <2>1, <2>2 DEF TypeOK, LeaseShape, Blank, StartsCounted, StartsBounded, JobId
  <2>5. OneActivePerKey'
    BY <2>1 DEF TypeOK, OneActivePerKey, ActiveFor, Active
  <2>6. OwnerIsLatest'
    BY <2>1 DEF TypeOK, OwnerIsLatest, LeasedBy, Name
  <2> QED
    BY <2>3, <2>4, <2>5, <2>6
<1> QED
  BY <1>1, <1>2 DEF Enqueue

LEMMA LeaseInv == ASSUME IInv, NEW w \in Worker, Lease(w) PROVE IInv'
<1> USE QueueAssumption DEF QueueAssumption, IInv
<1>1. PICK j \in JobId :
        /\ Claimable(j)
        /\ row' = [row EXCEPT ![j].status = "leased", ![j].owner = Name(w),
                              ![j].attempts = @ + 1]
        /\ timer' = [timer EXCEPT ![j] = LeaseFor]
        /\ held' = [held EXCEPT ![w] = [job |-> j, attempts |-> row[j].attempts + 1]]
        /\ started' = IF Abandoned(row[j].attempts + 1)
                      THEN started
                      ELSE [started EXCEPT ![j] = @ + 1]
        /\ IF AboutToBeFailed(j)
           THEN faults < MaxFaults /\ faults' = faults + 1
           ELSE UNCHANGED faults
        /\ submitted' = submitted
  BY DEF Lease
<1>f. faults' \in 0..MaxFaults
  BY <1>1 DEF TypeOK
<1>2. /\ row'[j] = [row[j] EXCEPT !.status = "leased", !.owner = w, !.attempts = @ + 1]
      /\ \A i \in JobId \ {j} : row'[i] = row[i]
  BY <1>1 DEF TypeOK, Name
<1>3. j <= submitted
  BY <1>1 DEF Claimable, Active, Blank, TypeOK, JobId
<1>4. TypeOK'
  BY <1>1, <1>2, <1>f DEF TypeOK, Status, Active, Name
<1>5. LeaseShape'
  BY <1>1, <1>2 DEF TypeOK, LeaseShape
<1>5a. Blank'
  <2> SUFFICES ASSUME NEW i \in JobId, i > submitted'
               PROVE  /\ row'[i].status = "unused" /\ row'[i].owner = NoWorker
                      /\ started'[i] = 0
    BY DEF Blank
  <2>1. submitted' = submitted /\ i > submitted
    BY <1>1
  <2>2. i # j
    BY <1>3, <2>1 DEF TypeOK, JobId
  <2>3. row'[i] = row[i] /\ started'[i] = started[i]
    BY <1>1, <1>2, <2>2 DEF TypeOK
  <2> QED BY <2>1, <2>3 DEF Blank
<1>6. StartsCounted' /\ StartsBounded'
  BY <1>1, <1>2 DEF TypeOK, StartsCounted, StartsBounded, Abandoned
<1>7. OneActivePerKey'
  BY <1>1, <1>2 DEF TypeOK, OneActivePerKey, Claimable, Active
<1>8. OwnerIsLatest'
  BY <1>1, <1>2 DEF TypeOK, OwnerIsLatest, LeasedBy, Name
<1> QED
  BY <1>4, <1>5, <1>5a, <1>6, <1>7, <1>8

(* Complete and Fail, as seen by the invariant: w lets its job go, and if    *)
(* w's name is on the row, the row gives up its owner and stays unique.      *)
LEMMA VerdictInv ==
  ASSUME IInv, NEW w \in Worker, NEW s \in {"done", "failed", "pending"},
         NEW t \in Nat, NEW j \in JobId,
         \/ /\ LeasedBy(j, w)
            /\ row' = [row EXCEPT ![j].status = s, ![j].owner = NoWorker]
            /\ timer' = [timer EXCEPT ![j] = t]
         \/ UNCHANGED <<row, timer>>,
         LetGo(w), UNCHANGED <<submitted, started, faults>>
  PROVE  IInv'
<1> USE QueueAssumption DEF QueueAssumption, IInv
<1>1. TypeOK'
  BY DEF TypeOK, LetGo, Status, Active, Terminal
<1>h. held'[w].job = 0 /\ \A v \in Worker \ {w} : held'[v] = held[v]
  BY DEF TypeOK, LetGo, NoJob
<1>j. 0 \notin JobId
  BY DEF JobId
<1>2. CASE UNCHANGED <<row, timer>>
  <2>1. OwnerIsLatest'
    BY <1>h, <1>j, <1>2 DEF OwnerIsLatest, LeasedBy, Name
  <2> QED
    BY <1>1, <1>2, <2>1 DEF LeaseShape, Blank, StartsCounted, StartsBounded, OneActivePerKey
<1>3. CASE /\ LeasedBy(j, w)
           /\ row' = [row EXCEPT ![j].status = s, ![j].owner = NoWorker]
  <2>1. /\ row'[j].status = s /\ row'[j].owner = NoWorker
        /\ row'[j].attempts = row[j].attempts /\ row'[j].key = row[j].key
        /\ \A i \in JobId \ {j} : row'[i] = row[i]
    BY <1>3 DEF TypeOK
  <2>2. row[j].status = "leased"
    BY <1>3 DEF LeaseShape, LeasedBy, Name
  <2>3. LeaseShape' /\ Blank'
    <3>1. LeaseShape'
      BY <2>1 DEF LeaseShape
    <3>2. j <= submitted
      BY <2>2 DEF Blank, TypeOK, JobId
    <3>3. \A i \in JobId : i > submitted => i # j
      BY <3>2 DEF TypeOK, JobId
    <3>4. UNCHANGED <<submitted, started>>
      OBVIOUS
    <3>5. Blank'
      BY <2>1, <3>3, <3>4 DEF Blank
    <3> QED BY <3>1, <3>5
  <2>3a. StartsCounted' /\ StartsBounded'
    BY <2>1 DEF TypeOK, StartsCounted, StartsBounded
  <2>4. OneActivePerKey'
    BY <2>1, <2>2 DEF TypeOK, OneActivePerKey, Active
  <2>5. OwnerIsLatest'
    <3> SUFFICES ASSUME NEW v \in Worker, NEW i \in JobId, held'[v].job = i, row'[i].owner = v
                 PROVE  held'[v].attempts = row'[i].attempts
      BY DEF OwnerIsLatest, LeasedBy, Name
    <3>1. v # w
      BY <1>h, <1>j
    <3>2. i # j
      BY <2>1 DEF TypeOK
    <3> QED
      BY <1>h, <2>1, <3>1, <3>2 DEF OwnerIsLatest, LeasedBy, Name
  <2> QED
    BY <1>1, <2>3, <2>3a, <2>4, <2>5
<1> QED
  BY <1>2, <1>3

LEMMA CompleteInv == ASSUME IInv, NEW w \in Worker, Complete(w) PROVE IInv'
<1> DEFINE j == held[w].job
<1>1. j \in JobId
  BY DEF IInv, TypeOK, Complete
<1>2. KeepFor \in Nat
  BY QueueAssumption DEF QueueAssumption
<1> QED
  BY <1>1, <1>2, VerdictInv DEF Complete

LEMMA FailInv ==
  ASSUME IInv, NEW w \in Worker, NEW cap \in Nat, FailWith(w, cap) PROVE IInv'
<1> DEFINE j == held[w].job
           terminal == row[j].attempts >= cap
           s == IF terminal THEN "failed" ELSE "pending"
           t == IF terminal THEN KeepFor ELSE RetryDelay(row[j].attempts)
<1>1. j \in JobId
  BY DEF IInv, TypeOK, FailWith
<1>2. t \in Nat
  BY <1>1, QueueAssumption, RetryDelayIsNat DEF QueueAssumption, IInv, TypeOK
<1>3. s \in {"done", "failed", "pending"}
  OBVIOUS
<1>4. /\ \/ /\ LeasedBy(j, w)
            /\ row' = [row EXCEPT ![j].status = s, ![j].owner = NoWorker]
            /\ timer' = [timer EXCEPT ![j] = t]
         \/ UNCHANGED <<row, timer>>
      /\ LetGo(w) /\ UNCHANGED <<submitted, started, faults>>
  BY DEF FailWith
<1> HIDE DEF j, s, t
<1> QED
  BY <1>1, <1>2, <1>3, <1>4, VerdictInv

LEMMA VanishInv == ASSUME IInv, NEW w \in Worker, Vanish(w) PROVE IInv'
<1> USE QueueAssumption DEF QueueAssumption, IInv
<1>1. faults' \in 0..MaxFaults
  BY DEF Vanish, TypeOK
<1>2. held'[w].job = 0 /\ \A v \in Worker \ {w} : held'[v] = held[v]
  BY DEF Vanish, TypeOK, LetGo, NoJob
<1>3. 0 \notin JobId
  BY DEF JobId
<1>4. TypeOK'
  BY <1>1 DEF Vanish, TypeOK, LetGo
<1>5. OwnerIsLatest'
  BY <1>2, <1>3 DEF Vanish, OwnerIsLatest, LeasedBy, Name
<1> QED
  BY <1>4, <1>5 DEF Vanish, LeaseShape, Blank, StartsCounted, StartsBounded, OneActivePerKey

LEMMA SweepInv == ASSUME IInv, NEW w \in Worker, Sweep(w) PROVE IInv'
<1> USE QueueAssumption DEF QueueAssumption, IInv
<1>1. \A j \in JobId :
        /\ row'[j].owner = row[j].owner /\ row'[j].key = row[j].key
        /\ row'[j].attempts = row[j].attempts
        /\ row'[j].status = row[j].status \/ row'[j].status = "swept"
        /\ row[j].status \notin Terminal => row'[j].status = row[j].status
  BY DEF Sweep, Sweepable, TypeOK
<1>2. TypeOK'
  BY DEF Sweep, TypeOK, Status
<1>3. LeaseShape' /\ Blank'
  BY <1>1 DEF Sweep, TypeOK, LeaseShape, Blank, Terminal
<1>4. StartsCounted' /\ StartsBounded'
  BY <1>1 DEF Sweep, StartsCounted, StartsBounded
<1>5. OneActivePerKey'
  BY <1>1 DEF OneActivePerKey, Active
<1>6. OwnerIsLatest'
  BY <1>1 DEF Sweep, OwnerIsLatest, LeasedBy
<1> QED
  BY <1>2, <1>3, <1>4, <1>5, <1>6

LEMMA TickInv == ASSUME IInv, Tick PROVE IInv'
<1> USE QueueAssumption DEF QueueAssumption, IInv, Tick
<1>1. TypeOK'
  BY DEF TypeOK
<1> QED
  BY <1>1 DEF LeaseShape, Blank, StartsCounted, StartsBounded, OneActivePerKey,
              OwnerIsLatest, LeasedBy

LEMMA NextInv == IInv /\ [Next]_vars => IInv'
<1> SUFFICES ASSUME IInv, [Next]_vars PROVE IInv'
  OBVIOUS
<1>1. CASE UNCHANGED vars
  BY <1>1 DEF vars, IInv, TypeOK, LeaseShape, Blank, StartsCounted, StartsBounded,
              OneActivePerKey, OwnerIsLatest, LeasedBy
<1>2. ASSUME NEW k \in Key, Enqueue(k) PROVE IInv'
  BY <1>2, EnqueueInv
<1>3. ASSUME NEW w \in Worker, Step(w) \/ Vanish(w) \/ Sweep(w) PROVE IInv'
  <2>1. Tries \in Nat /\ 0 \in Nat
    BY QueueAssumption DEF QueueAssumption
  <2> QED
    BY <1>3, <2>1, LeaseInv, CompleteInv, FailInv, VanishInv, SweepInv
       DEF Step, Fail, FailFinally
<1>4. CASE Tick
  BY <1>4, TickInv
<1> QED
  BY <1>1, <1>2, <1>3, <1>4 DEF Next

(* Every reachable state satisfies the inductive invariant.                 *)
THEOREM Invariance == Spec => []IInv
  BY InitInv, NextInv, PTL DEF Spec

(* The table and the workers' memory keep their types: in particular no     *)
(* retry time is ever in the past (jobs.go:181-200).                        *)
THEOREM TypeCorrect == Spec => []TypeOK
  BY Invariance, PTL DEF IInv

(* Two submissions of one repository and ref are never two active jobs.     *)
THEOREM Dedupe == Spec => []OneActivePerKey
  BY Invariance, PTL DEF IInv

(* A worker named by a row runs that row's latest attempt.                  *)
THEOREM Ownership == Spec => []OwnerIsLatest
  BY Invariance, PTL DEF IInv

(* A job is cloned and indexed at most MAX_ATTEMPTS times.                  *)
THEOREM BoundedWork == Spec => []StartsBounded
  BY Invariance, PTL DEF IInv

-----------------------------------------------------------------------------
(* A verdict is only ever that of the worker of the latest lease: the row    *)
(* leaves "leased" by Complete or Fail only, whose WHERE clause found the    *)
(* worker's name on it, and Ownership makes that the latest attempt.         *)
THEOREM Verdicts == Spec => VerdictOfLatestLease
<1> DEFINE V(j) == (row[j].status = "leased" /\ row'[j].status # "leased")
                     => \E w \in Worker : /\ held[w] = [job |-> j, attempts |-> row[j].attempts]
                                          /\ held'[w].job = NoJob
<1>1. ASSUME IInv, [Next]_vars, NEW j \in JobId PROVE V(j)
  <2> SUFFICES ASSUME row[j].status = "leased", row'[j].status # "leased" PROVE V(j)!2
    OBVIOUS
  <2> USE <1>1 DEF IInv
  <2>1. ASSUME NEW w \in Worker, held[w].job = j, LeasedBy(j, w), LetGo(w) PROVE V(j)!2
    <3>1. held[w] = [job |-> j, attempts |-> row[j].attempts]
      BY <2>1 DEF TypeOK, OwnerIsLatest
    <3>2. held'[w].job = NoJob
      BY <2>1 DEF TypeOK, LetGo
    <3> QED
      BY <3>1, <3>2
  <2>2. ASSUME NEW w \in Worker, Complete(w) PROVE V(j)!2
    <3>1. LeasedBy(j, w) /\ held[w].job = j /\ LetGo(w)
      BY <2>2 DEF Complete, TypeOK
    <3> QED
      BY <3>1, <2>1
  <2>3. ASSUME NEW w \in Worker, NEW cap \in Nat, FailWith(w, cap) PROVE V(j)!2
    <3>1. LeasedBy(j, w) /\ held[w].job = j /\ LetGo(w)
      BY <2>3 DEF FailWith, TypeOK
    <3> QED
      BY <3>1, <2>1
  <2>4. ASSUME NEW k \in Key, Enqueue(k) PROVE FALSE
    <3>1. submitted + 1 # j \/ UNCHANGED row
      BY <2>4 DEF Enqueue, Blank, TypeOK, JobId
    <3> QED
      BY <2>4, <3>1 DEF Enqueue, TypeOK
  <2>5. ASSUME NEW w \in Worker, Lease(w) PROVE FALSE
    BY <2>5 DEF Lease, TypeOK
  <2>6. ASSUME NEW w \in Worker, Sweep(w) PROVE FALSE
    BY <2>6 DEF Sweep, Sweepable, TypeOK, Terminal
  <2>7. Tries \in Nat /\ 0 \in Nat
    BY QueueAssumption DEF QueueAssumption
  <2>8. UNCHANGED row => FALSE
    OBVIOUS
  <2> QED
    BY <1>1, <2>2, <2>3, <2>4, <2>5, <2>6, <2>7, <2>8
       DEF Next, Step, Fail, FailFinally, Vanish, Tick, vars
<1>2. IInv /\ [Next]_vars => [\A j \in JobId : V(j)]_vars
  BY <1>1
<1> QED
  BY <1>2, Invariance, PTL DEF Spec, VerdictOfLatestLease

(* A job that ended keeps its outcome until its history window is over.      *)
THEOREM Kept == Spec => TerminalIsKept
<1> DEFINE K(j) == row[j].status \in Terminal =>
       \/ row'[j] = row[j] /\ timer'[j] \in {timer[j], timer[j] - 1}
       \/ row'[j].status = "swept" /\ timer[j] = 0
<1>1. ASSUME IInv, [Next]_vars, NEW j \in JobId PROVE K(j)
  <2> SUFFICES ASSUME row[j].status \in Terminal PROVE K(j)!2
    OBVIOUS
  <2> USE <1>1 DEF IInv
  <2>1. row[j].owner = NoWorker /\ j <= submitted /\ j \in Int
    BY DEF LeaseShape, Blank, Terminal, TypeOK, JobId
  <2>2. ASSUME NEW w \in Worker, NEW i \in JobId, LeasedBy(i, w) PROVE i # j
    BY <2>1, <2>2, QueueAssumption DEF QueueAssumption, LeasedBy, Name
  <2>3. UNCHANGED <<row, timer>> => K(j)!2
    OBVIOUS
  <2>4. ASSUME NEW w \in Worker, Complete(w) PROVE K(j)!2
    BY <2>2, <2>4 DEF Complete, TypeOK
  <2>5. ASSUME NEW w \in Worker, NEW cap \in Nat, FailWith(w, cap) PROVE K(j)!2
    BY <2>2, <2>5 DEF FailWith, TypeOK
  <2>6. ASSUME NEW k \in Key, Enqueue(k) PROVE K(j)!2
    BY <2>1, <2>6 DEF Enqueue, TypeOK
  <2>7. ASSUME NEW w \in Worker, Lease(w) PROVE K(j)!2
    BY <2>7 DEF Lease, Claimable, Active, Terminal, TypeOK
  <2>8. ASSUME NEW w \in Worker, Sweep(w) PROVE K(j)!2
    BY <2>8 DEF Sweep, Sweepable, TypeOK
  <2>9. ASSUME Tick PROVE K(j)!2
    BY <2>9 DEF Tick, TypeOK
  <2>10. Tries \in Nat /\ 0 \in Nat
    BY QueueAssumption DEF QueueAssumption
  <2> QED
    BY <1>1, <2>3, <2>4, <2>5, <2>6, <2>7, <2>8, <2>9, <2>10
       DEF Next, Step, Fail, FailFinally, Vanish, vars
<1>2. IInv /\ [Next]_vars => [\A j \in JobId : K(j)]_vars
  BY <1>1
<1> QED
  BY <1>2, Invariance, PTL DEF Spec, TerminalIsKept

-----------------------------------------------------------------------------
(* The queue implements JobLifecycle: what a submitter may rely on without   *)
(* knowing of leases, attempts, clocks and crashes.                          *)
THEOREM Refinement == Spec => ImplementsLifecycle
<1> DEFINE st == [j \in JobId |-> LifeOf(row[j].status)]
           ky == [j \in JobId |-> row[j].key]
           hd == [j \in JobId |-> row[j].owner]
<1>1. Init => Lifecycle!Init
  BY AnyKeyIsKey DEF Init, Lifecycle!Init, LifeOf
<1>2. ASSUME IInv, [Next]_vars PROVE [Lifecycle!Next]_(Lifecycle!avars)
  <2> USE <1>2 DEF IInv
  <2> USE DEF Lifecycle!avars
  <2>1. UNCHANGED row => UNCHANGED Lifecycle!avars
    OBVIOUS
  <2>2. ASSUME NEW k \in Key, Enqueue(k), ~UNCHANGED row PROVE Lifecycle!Next
    <3> DEFINE n == submitted + 1
    <3>0. /\ submitted < MaxJobs
          /\ \A j \in JobId : ~ActiveFor(k, j)
          /\ row' = [row EXCEPT ![n] = [status |-> "pending", key |-> k,
                                        owner |-> NoWorker, attempts |-> 0]]
      BY <2>2 DEF Enqueue
    <3>a. n \in JobId /\ n > submitted
      BY <3>0, QueueAssumption DEF QueueAssumption, TypeOK, JobId
    <3>b. row[n].status = "unused" /\ row[n].owner = NoWorker
      BY <3>a DEF Blank
    <3> HIDE DEF n
    <3>1. /\ n \in JobId /\ row[n].status = "unused"  /\ row[n].owner = NoWorker
          /\ \A j \in JobId : ~ActiveFor(k, j)
          /\ row' = [row EXCEPT ![n] = [status |-> "pending", key |-> k,
                                        owner |-> NoWorker, attempts |-> 0]]
      BY <3>0, <3>a, <3>b
    <3>2. row'[n] = [status |-> "pending", key |-> k, owner |-> NoWorker, attempts |-> 0]
      BY <3>1 DEF TypeOK
    <3>3. \A i \in JobId \ {n} : row'[i] = row[i]
      BY <3>1 DEF TypeOK
    <3>4. st[n] = "new" /\ st' = [st EXCEPT ![n] = "open"]
      <4>1. row'[n].status = "pending"
        BY <3>2
      <4>2. LifeOf(row[n].status) = "new" /\ LifeOf(row'[n].status) = "open"
        BY <3>1, <4>1 DEF LifeOf, Active
      <4>3. \A i \in JobId \ {n} : LifeOf(row'[i].status) = LifeOf(row[i].status)
        BY <3>3
      <4> QED
        BY <3>1, <4>2, <4>3
    <3>5. ky' = [ky EXCEPT ![n] = k] /\ hd' = hd
      <4>1. row'[n].key = k /\ row'[n].owner = NoWorker
        BY <3>2
      <4>2. \A i \in JobId : row'[i].key = (IF i = n THEN k ELSE row[i].key)
        BY <3>1, <3>3, <4>1
      <4>3. \A i \in JobId : row'[i].owner = row[i].owner
        BY <3>1, <3>3, <4>1
      <4>4. ky' = [ky EXCEPT ![n] = k]
        BY <4>2
      <4> QED
        BY <4>3, <4>4
    <3>6. \A i \in JobId : st[i] = "open" => ky[i] # k
      BY <3>1 DEF LifeOf, ActiveFor, Active, TypeOK, Status, Terminal
    <3>7. Lifecycle!Submit(n, k)
      BY <3>4, <3>5, <3>6 DEF Lifecycle!Submit
    <3> QED
      BY <3>1, <3>7 DEF Lifecycle!Next
  <2>3. ASSUME NEW w \in Worker, Lease(w) PROVE Lifecycle!Next
    <3>1. PICK j \in JobId :
            /\ Claimable(j)
            /\ row' = [row EXCEPT ![j].status = "leased", ![j].owner = Name(w),
                                  ![j].attempts = @ + 1]
      BY <2>3 DEF Lease
    <3>2. /\ row'[j].status = "leased" /\ row'[j].owner = w /\ row'[j].key = row[j].key
          /\ \A i \in JobId \ {j} : row'[i] = row[i]
      BY <3>1 DEF TypeOK, Name
    <3>3. st[j] = "open" /\ st' = st
      <4>1. row[j].status \in {"pending", "leased"}
        BY <3>1 DEF Claimable, Active
      <4>2. LifeOf(row[j].status) = "open" /\ LifeOf(row'[j].status) = "open"
        BY <4>1, <3>2 DEF LifeOf, Active
      <4> QED
        BY <4>2, <3>2
    <3>4. ky' = ky /\ hd' = [hd EXCEPT ![j] = w]
      BY <3>2
    <3>5. Lifecycle!HandTo(j, w)
      BY <3>3, <3>4 DEF Lifecycle!HandTo
    <3> QED
      BY <3>5 DEF Lifecycle!Next
  <2>4. ASSUME NEW w \in Worker, NEW j \in JobId, LeasedBy(j, w),
               NEW s \in {"done", "failed", "pending"},
               row' = [row EXCEPT ![j].status = s, ![j].owner = NoWorker]
        PROVE  Lifecycle!Next
    <3>1. /\ row'[j].status = s /\ row'[j].owner = NoWorker /\ row'[j].key = row[j].key
          /\ \A i \in JobId \ {j} : row'[i] = row[i]
      BY <2>4 DEF TypeOK
    <3>2. row[j].status = "leased" /\ row[j].owner # NoWorker
      BY <2>4, QueueAssumption DEF QueueAssumption, LeaseShape, LeasedBy, Name
    <3>3. st[j] = "open" /\ hd[j] # NoWorker /\ ky' = ky /\ hd' = [hd EXCEPT ![j] = NoWorker]
      BY <3>1, <3>2 DEF LifeOf, Active
    <3>4. CASE s = "pending"
      <4>1. st' = st
        BY <3>1, <3>2, <3>4 DEF LifeOf, Active
      <4> QED
        BY <4>1, <3>3 DEF Lifecycle!Next, Lifecycle!GiveBack
    <3>5. CASE s \in {"done", "failed"}
      <4>1. st' = [st EXCEPT ![j] = s]
        BY <3>1, <3>5 DEF LifeOf, Active
      <4>2. Lifecycle!End(j, s)
        BY <4>1, <3>3 DEF Lifecycle!End
      <4> QED
        BY <4>2, <3>5 DEF Lifecycle!Next
    <3> QED
      BY <3>4, <3>5
  <2>5. ASSUME NEW w \in Worker, Complete(w), ~UNCHANGED row PROVE Lifecycle!Next
    BY <2>4, <2>5 DEF Complete, TypeOK
  <2>6. ASSUME NEW w \in Worker, NEW cap \in Nat, FailWith(w, cap), ~UNCHANGED row
        PROVE  Lifecycle!Next
    <3> DEFINE s == IF row[held[w].job].attempts >= cap THEN "failed" ELSE "pending"
    <3>1. s \in {"done", "failed", "pending"}
      OBVIOUS
    <3>2. /\ held[w].job \in JobId /\ LeasedBy(held[w].job, w)
          /\ row' = [row EXCEPT ![held[w].job].status = s, ![held[w].job].owner = NoWorker]
      BY <2>6 DEF FailWith, TypeOK
    <3> HIDE DEF s
    <3> QED
      BY <3>1, <3>2, <2>4
  <2>7. ASSUME NEW w \in Worker, Sweep(w) PROVE Lifecycle!Next
    <3> DEFINE S == {j \in JobId : Sweepable(j)}
    <3>1. \A j \in S : st[j] \in {"done", "failed"}
      BY DEF Sweepable, LifeOf, Active, Terminal
    <3>2. st' = [j \in JobId |-> IF j \in S THEN "forgotten" ELSE st[j]]
      BY <2>7 DEF Sweep, TypeOK, LifeOf, Active
    <3>3. ky' = ky /\ hd' = hd
      BY <2>7 DEF Sweep, TypeOK
    <3>4. S \in SUBSET JobId
      OBVIOUS
    <3> HIDE DEF S
    <3>5. Lifecycle!Forget(S)
      BY <3>1, <3>2, <3>3, <3>4 DEF Lifecycle!Forget
    <3> QED
      BY <3>4, <3>5 DEF Lifecycle!Next
  <2>8. Tries \in Nat /\ 0 \in Nat
    BY QueueAssumption DEF QueueAssumption
  <2> QED
    BY <1>2, <2>1, <2>2, <2>3, <2>5, <2>6, <2>7, <2>8
       DEF Next, Step, Fail, FailFinally, Vanish, Tick, vars
<1> QED
  BY <1>1, <1>2, Invariance, PTL DEF Spec, ImplementsLifecycle, Lifecycle!Spec

-----------------------------------------------------------------------------
(* The pipeline.                                                           *)

(* Every step of doJob that touches the jobs table is a step of the queue,   *)
(* and no other step touches it.                                             *)
LEMMA PipelineStep == [PNext]_pvars => [Next]_vars
<1>1. ASSUME NEW k \in Key, Submit(k) PROVE Next
  BY <1>1 DEF Submit, Next
<1>2. ASSUME NEW w \in Worker, Begin(w) PROVE Next
  BY <1>2 DEF Begin, Next, Step
<1>3. ASSUME NEW w \in Worker,
             Refuse(w) \/ IndexFails(w) \/ PutRepoFails(w) \/ FailIndexed(w)
      PROVE  Next
  BY <1>3 DEF Refuse, IndexFails, PutRepoFails, FailIndexed, Next, Step
<1>4. ASSUME NEW w \in Worker,
             FastPath(w) \/ ToClone(w) \/ Index(w) \/ PutRepo(w) \/ PutSpans(w)
               \/ PutGraph(w)
      PROVE  UNCHANGED vars
  BY <1>4 DEF FastPath, ToClone, Index, PutRepo, PutSpans, PutGraph
<1>5. ASSUME NEW w \in Worker, DropRepo(w) \/ Evict(w) \/ Delete(w)
      PROVE  UNCHANGED vars
  BY <1>5 DEF DropRepo, Evict, Delete, Choose
<1>6. ASSUME NEW w \in Worker, Finish(w) PROVE Next
  BY <1>6 DEF Finish, Next, Step
<1>7. ASSUME NEW w \in Worker, Crash(w) PROVE [Next]_vars
  BY <1>7 DEF Crash, Next
<1>8. ASSUME NEW w \in Worker, Retire(w) PROVE Next
  BY <1>8 DEF Retire, Next
<1>9. ASSUME NEW r \in Repo, Touch(r) PROVE UNCHANGED vars
  BY <1>9 DEF Touch
<1>10. ASSUME Pass PROVE Next
  BY <1>10 DEF Pass, Next
<1>11. ASSUME UNCHANGED pvars PROVE UNCHANGED vars
  BY <1>11 DEF pvars
<1> QED
  BY <1>1, <1>2, <1>3, <1>4, <1>5, <1>6, <1>7, <1>8, <1>9, <1>10, <1>11 DEF PNext

(* ImplementsQueue: whatever the pipeline's workers do, fail at or die in,   *)
(* the jobs table sees only what JobQueue lets workers do (doJob, complete,  *)
(* recordFailure).                                                           *)
THEOREM Pipeline == PSpec => ImplementsQueue
<1>1. PInit => Init
  BY DEF PInit
<1> QED
  BY <1>1, PipelineStep, PTL DEF PSpec, ImplementsQueue, Spec

(* The queue's invariant, and with it every invariant of JobQueue, holds     *)
(* under the pipeline.                                                       *)
COROLLARY QueueInvariance == PSpec => []IInv
  BY Pipeline, Invariance, PTL DEF ImplementsQueue

-----------------------------------------------------------------------------
(* Where the id a job will be completed with is already known.               *)
Known == {"indexed", "put", "spanned", "graphed", "fast", "drop", "dropping",
          "evict", "evicting"}

(* Where doJob still has its job's verdict to give.                          *)
Undecided == {"begin", "clone", "indexed", "put", "spanned", "graphed", "fast"}

AtType == /\ at \in [Worker -> [stage : Stage, repo : Repo \cup {NoRepo}]]
          /\ \A w \in Worker : at[w].stage \in Known => at[w].repo \in Repo
          /\ \A w \in Worker : at[w].stage \in Undecided => held[w].job # NoJob

ResultType == result \in [JobId -> Repo \cup {NoRepo}]

RInv == AtType /\ ResultType /\ ResultIffDone

(* Statuses under which a row names no repository.                           *)
Unnamed == Active \cup {"failed", "unused"}

(* Only a verdict of Complete makes a row done, and a row that left Unnamed  *)
(* never comes back to it.                                                   *)
NotCompleted ==
  \A j \in JobId : /\ row'[j].status = "done" => row[j].status = "done"
                   /\ row'[j].status \in Unnamed => row[j].status \in Unnamed

(* The id Commits gives to a key's ref is a repository's.                    *)
LEMMA CommitsAreRepos == \A k \in Key : Commits[k] \subseteq Repo
  BY PipelineAssumption DEF PipelineAssumption

(* Every queue statement but Complete leaves outcomes as they are.           *)
LEMMA OtherStatements ==
  ASSUME IInv,
         \/ \E k \in Key : Enqueue(k)
         \/ \E w \in Worker :
              Lease(w) \/ Fail(w) \/ FailFinally(w) \/ Vanish(w) \/ Sweep(w)
         \/ Tick
         \/ UNCHANGED row
  PROVE  NotCompleted
<1> USE DEF NotCompleted, Unnamed, Active, IInv
<1>1. ASSUME NEW k \in Key, Enqueue(k) PROVE NotCompleted
  <2>1. CASE UNCHANGED row
    BY <2>1
  <2>2. CASE submitted < MaxJobs /\ row' = [row EXCEPT ![submitted + 1] =
               [status |-> "pending", key |-> k, owner |-> NoWorker, attempts |-> 0]]
    <3>1. submitted + 1 \in JobId /\ row[submitted + 1].status = "unused"
      BY <2>2, QueueAssumption DEF QueueAssumption, TypeOK, Blank, JobId
    <3> QED
      BY <2>2, <3>1 DEF TypeOK
  <2> QED
    BY <1>1, <2>1, <2>2 DEF Enqueue
<1>2. ASSUME NEW w \in Worker, Lease(w) PROVE NotCompleted
  <2>1. PICK j \in JobId :
          /\ Claimable(j)
          /\ row' = [row EXCEPT ![j].status = "leased", ![j].owner = Name(w),
                                ![j].attempts = @ + 1]
    BY <1>2 DEF Lease
  <2>2. row'[j].status = "leased" /\ \A i \in JobId \ {j} : row'[i] = row[i]
    BY <2>1 DEF TypeOK
  <2> QED
    BY <2>1, <2>2 DEF Claimable
<1>3. ASSUME NEW w \in Worker, NEW cap \in Nat, FailWith(w, cap) PROVE NotCompleted
  <2>1. CASE UNCHANGED row
    BY <2>1
  <2>2. CASE ~UNCHANGED row
    <3> DEFINE j == held[w].job
               s == IF row[j].attempts >= cap THEN "failed" ELSE "pending"
    <3>1. /\ j \in JobId /\ LeasedBy(j, w)
          /\ row' = [row EXCEPT ![j].status = s, ![j].owner = NoWorker]
      BY <1>3, <2>2 DEF FailWith, TypeOK
    <3>2. s \in {"failed", "pending"}
      OBVIOUS
    <3> HIDE DEF j, s
    <3>3. row'[j].status = s /\ \A i \in JobId \ {j} : row'[i] = row[i]
      BY <3>1 DEF TypeOK
    <3>4. row[j].status = "leased"
      BY <3>1, QueueAssumption DEF QueueAssumption, LeaseShape, LeasedBy, Name
    <3> QED
      BY <3>2, <3>3, <3>4
  <2> QED
    BY <2>1, <2>2
<1>4. ASSUME NEW w \in Worker, Fail(w) \/ FailFinally(w) PROVE NotCompleted
  BY <1>3, <1>4, QueueAssumption DEF QueueAssumption, Fail, FailFinally
<1>5. ASSUME NEW w \in Worker, Sweep(w) PROVE NotCompleted
  BY <1>5 DEF Sweep, TypeOK
<1> QED
  BY <1>1, <1>2, <1>4, <1>5 DEF Vanish, Tick

(* So they keep ResultIffDone, as long as no result is written.              *)
LEMMA ResultKept ==
  ASSUME ResultIffDone, NotCompleted, UNCHANGED result PROVE ResultIffDone'
  BY DEF ResultIffDone, NotCompleted, Unnamed

(* Complete under the lease writes the id and the verdict in one statement;  *)
(* without the lease it writes neither.                                      *)
LEMMA FinishKeeps ==
  ASSUME IInv, RInv, NEW w \in Worker, Finish(w)
  PROVE  ResultIffDone' /\ ResultType'
<1> DEFINE j == held[w].job
           r == at[w].repo
<1> USE DEF IInv, RInv
<1>1. j \in JobId /\ r \in Repo /\ result' = [result EXCEPT ![j] = Recorded(j, w, r)]
  BY DEF Finish, Complete, TypeOK, AtType, Known, Closing
<1>2. CASE LeasedBy(j, w)
  <2>1. row' = [row EXCEPT ![j].status = "done", ![j].owner = NoWorker]
    BY <1>2 DEF Finish, Complete
  <2> HIDE DEF j, r
  <2>2. /\ row'[j].status = "done" /\ result'[j] = r
        /\ \A i \in JobId \ {j} : row'[i] = row[i] /\ result'[i] = result[i]
    BY <1>1, <1>2, <2>1 DEF TypeOK, ResultType, Recorded
  <2> QED
    BY <1>1, <1>2, <2>2, PipelineAssumption
       DEF PipelineAssumption, ResultIffDone, ResultType, Recorded, Active
<1>3. CASE ~LeasedBy(j, w)
  <2>1. row' = row /\ result' = result
    BY <1>1, <1>3 DEF Finish, Complete, Recorded, ResultType
  <2> QED
    BY <2>1 DEF ResultIffDone, ResultType
<1> QED
  BY <1>2, <1>3

(* at only ever points from stage to stage of doJob, keeps the id it learned *)
(* at Index or on the fast path, and leaves Undecided with the verdict.      *)
LEMMA AtKept == ASSUME IInv, AtType, PNext PROVE AtType'
<1> USE DEF AtType, Known, Undecided, Stage, Goto, Return, IInv
<1> DEFINE Others(w) == \A v \in Worker \ {w} : held'[v] = held[v] /\ at'[v] = at[v]
<1>0. ASSUME NEW w \in Worker, NEW cap \in Nat, FailWith(w, cap) \/ Complete(w)
      PROVE  \A v \in Worker \ {w} : held'[v] = held[v]
  BY <1>0 DEF FailWith, Complete, LetGo, TypeOK
<1>0a. Tries \in Nat /\ 0 \in Nat
  BY QueueAssumption DEF QueueAssumption
<1>1. ASSUME NEW w \in Worker, Begin(w) PROVE AtType'
  <2>1. PICK j \in JobId : held' = [held EXCEPT ![w] = [job |-> j, attempts |-> row[j].attempts + 1]]
    BY <1>1 DEF Begin, Lease
  <2>2. held'[w].job # NoJob /\ \A v \in Worker \ {w} : held'[v] = held[v]
    BY <2>1 DEF TypeOK, JobId, NoJob
  <2>3. at'[w] = [stage |-> "begin", repo |-> NoRepo]
        /\ \A v \in Worker \ {w} : at'[v] = at[v]
    BY <1>1 DEF Begin
  <2> QED
    BY <1>1, <2>2, <2>3 DEF Begin
<1>2. ASSUME NEW w \in Worker, ToClone(w) \/ PutRepo(w) \/ PutSpans(w) \/ PutGraph(w)
      PROVE  AtType'
  BY <1>2 DEF ToClone, PutRepo, PutSpans, PutGraph, vars
<1>3. ASSUME NEW w \in Worker, Refuse(w) \/ IndexFails(w) \/ PutRepoFails(w)
      PROVE  AtType'
  <2>1. \A v \in Worker \ {w} : held'[v] = held[v]
    BY <1>0, <1>0a, <1>3 DEF Refuse, IndexFails, PutRepoFails, Fail, FailFinally
  <2>2. at' = [at EXCEPT ![w] = [stage |-> "idle", repo |-> NoRepo]]
    BY <1>3 DEF Refuse, IndexFails, PutRepoFails
  <2> QED
    BY <2>1, <2>2
<1>4. ASSUME NEW w \in Worker, FastPath(w) \/ Index(w) PROVE AtType'
  <2>1. row[held[w].job].key \in Key
    <3>1. held[w].job # NoJob
      BY <1>4 DEF FastPath, Index
    <3> QED
      BY <3>1 DEF TypeOK
  <2> QED
    BY <1>4, <2>1, CommitsAreRepos DEF FastPath, Index, vars
<1>5. ASSUME NEW w \in Worker, FailIndexed(w) PROVE AtType'
  <2>1. \A v \in Worker \ {w} : held'[v] = held[v]
    BY <1>0, <1>0a, <1>5 DEF FailIndexed, Fail
  <2>2. \/ at' = [at EXCEPT ![w] = [stage |-> "idle", repo |-> NoRepo]]
        \/ at' = [at EXCEPT ![w] = [stage |-> "drop", repo |-> at[w].repo]]
    BY <1>5 DEF FailIndexed
  <2>3. at[w].repo \in Repo
    BY <1>5 DEF FailIndexed
  <2> QED
    BY <2>1, <2>2, <2>3
<1>6. ASSUME NEW w \in Worker, Finish(w) PROVE AtType'
  <2>1. \A v \in Worker \ {w} : held'[v] = held[v]
    BY <1>0, <1>0a, <1>6 DEF Finish
  <2>2. \/ at' = [at EXCEPT ![w] = [stage |-> "idle", repo |-> NoRepo]]
        \/ at' = [at EXCEPT ![w] = [stage |-> "evict", repo |-> at[w].repo]]
    BY <1>6 DEF Finish
  <2>3. at[w].repo \in Repo
    BY <1>6 DEF Finish, Closing
  <2> QED
    BY <2>1, <2>2, <2>3
<1>7. ASSUME NEW w \in Worker, DropRepo(w) \/ Evict(w) \/ Delete(w) PROVE AtType'
  BY <1>7 DEF DropRepo, Evict, Choose, Delete, vars
<1>8. ASSUME NEW w \in Worker, Crash(w) PROVE AtType'
  <2>1. \A v \in Worker \ {w} : held'[v] = held[v]
    BY <1>8 DEF Crash, Vanish, LetGo, vars, TypeOK
  <2>2. at' = [at EXCEPT ![w] = [stage |-> "idle", repo |-> NoRepo]]
    BY <1>8 DEF Crash
  <2> QED
    BY <2>1, <2>2
<1>9. ASSUME UNCHANGED <<at, held>> PROVE AtType'
  BY <1>9
<1>10. ASSUME NEW k \in Key, Submit(k) PROVE AtType'
  BY <1>9, <1>10 DEF Submit, Enqueue
<1>11. ASSUME NEW w \in Worker, Retire(w) PROVE AtType'
  BY <1>9, <1>11 DEF Retire, Sweep
<1>12. ASSUME NEW r \in Repo, Touch(r) PROVE AtType'
  BY <1>9, <1>12 DEF Touch, vars
<1>13. ASSUME Pass PROVE AtType'
  BY <1>9, <1>13 DEF Pass, Tick
<1> QED
  BY <1>1, <1>2, <1>3, <1>4, <1>5, <1>6, <1>7, <1>8, <1>10, <1>11, <1>12, <1>13 DEF PNext

(* One step of the pipeline keeps the result column right.                   *)
LEMMA ResultStep == ASSUME IInv, RInv, [PNext]_pvars PROVE RInv'
<1> USE DEF RInv
<1>1. CASE UNCHANGED pvars
  BY <1>1 DEF pvars, vars, AtType, ResultType, ResultIffDone
<1>2. CASE PNext
  <2>1. AtType'
    BY <1>2, AtKept
  <2>2. ASSUME NotCompleted, UNCHANGED result PROVE ResultIffDone' /\ ResultType'
    BY <2>2, ResultKept DEF ResultType
  <2>3. ASSUME NEW w \in Worker, Finish(w) PROVE ResultIffDone' /\ ResultType'
    BY <2>3, FinishKeeps
  <2>4. ASSUME NEW w \in Worker,
               Begin(w) \/ Refuse(w) \/ IndexFails(w) \/ PutRepoFails(w) \/ FailIndexed(w)
        PROVE  NotCompleted /\ UNCHANGED result
    BY <2>4, OtherStatements DEF Begin, Refuse, IndexFails, PutRepoFails, FailIndexed
  <2>5. ASSUME NEW w \in Worker,
               FastPath(w) \/ ToClone(w) \/ Index(w) \/ PutRepo(w) \/ PutSpans(w)
                 \/ PutGraph(w)
        PROVE  NotCompleted /\ UNCHANGED result
    <3>1. UNCHANGED row /\ UNCHANGED result
      BY <2>5 DEF FastPath, ToClone, Index, PutRepo, PutSpans, PutGraph, vars
    <3> QED
      BY <3>1, OtherStatements
  <2>6. ASSUME NEW w \in Worker,
               DropRepo(w) \/ Evict(w) \/ Delete(w) \/ Crash(w) \/ Retire(w)
        PROVE  NotCompleted /\ UNCHANGED result
    <3>1. UNCHANGED result /\ (UNCHANGED row \/ Vanish(w) \/ Sweep(w))
      BY <2>6 DEF DropRepo, Evict, Choose, Delete, Crash, Retire, vars
    <3> QED
      BY <3>1, OtherStatements
  <2>7. ASSUME NEW k \in Key, Submit(k) PROVE NotCompleted /\ UNCHANGED result
    BY <2>7, OtherStatements DEF Submit
  <2>8. ASSUME NEW r \in Repo, Touch(r) PROVE NotCompleted /\ UNCHANGED result
    BY <2>8, OtherStatements DEF Touch, vars
  <2>9. ASSUME Pass PROVE NotCompleted /\ UNCHANGED result
    BY <2>9, OtherStatements DEF Pass
  <2>10. ResultIffDone' /\ ResultType'
    BY <1>2, <2>2, <2>3, <2>4, <2>5, <2>6, <2>7, <2>8, <2>9 DEF PNext
  <2> QED
    BY <2>1, <2>10
<1> QED
  BY <1>1, <1>2

(* Every reachable state of the pipeline satisfies RInv.                     *)
LEMMA PipelineInvariance == PSpec => []RInv
<1>1. PInit => RInv
  BY DEF PInit, Init, RInv, AtType, ResultType, ResultIffDone, Stage, Known, Undecided, Active
<1> QED
  BY <1>1, ResultStep, QueueInvariance, PTL DEF PSpec

(* A job names a repository iff it is done: the id a submitter reads off a   *)
(* job was written by the Complete of the worker that held it, in the        *)
(* statement that made it done (jobs.go:147-167).                            *)
THEOREM Results == PSpec => []ResultIffDone
  BY PipelineInvariance, PTL DEF RInv

-----------------------------------------------------------------------------
SpansType == spans \in [Repo -> Model \cup {NoSpans}]

NothingToLose == \A r \in Repo \cap Spanless : spans[r] = NoSpans

(* What a DeleteEmptyRepo chose had no spans, and still has none unless it   *)
(* is torn.                                                                  *)
ChosenEmpty ==
  \A w \in Worker : at[w].stage = "dropping" =>
    \A r \in (doomed[w] \cap Repo) \ torn : spans[r] = NoSpans

DoomedType == doomed = [w \in Worker |-> doomed[w]]

SInv == SpansType /\ NothingToLose /\ ChosenEmpty /\ DoomedType

(* Every step but PutSpans and Delete leaves the spans alone.                *)
LEMMA SpansUntouched ==
  ASSUME PNext,
         \A w \in Worker : ~PutSpans(w) /\ ~Delete(w)
  PROVE  UNCHANGED spans
<1> USE DEF storeVars, vars
<1>1. ASSUME NEW w \in Worker,
             \/ Begin(w) \/ Refuse(w) \/ FastPath(w) \/ ToClone(w) \/ Index(w)
             \/ IndexFails(w) \/ PutRepo(w) \/ PutRepoFails(w) \/ PutGraph(w)
             \/ FailIndexed(w) \/ Finish(w) \/ Crash(w) \/ Retire(w)
      PROVE  UNCHANGED spans
  BY <1>1 DEF Begin, Refuse, FastPath, ToClone, Index, IndexFails, PutRepo,
              PutRepoFails, PutGraph, FailIndexed, Finish, Crash, Retire
<1>2. ASSUME NEW w \in Worker, DropRepo(w) \/ Evict(w) PROVE UNCHANGED spans
  BY <1>2 DEF DropRepo, Evict, Choose
<1> QED
  BY <1>1, <1>2 DEF PNext, Submit, Touch, Pass

(* What makes ChosenEmpty last: only DropRepo starts a drop, only PutSpans   *)
(* gives a repository spans, and it marks torn what a drop has chosen.       *)
LEMMA SpansKept ==
  ASSUME SInv, AtType, PNext PROVE SInv'
<1> USE DEF SInv, AtType, Goto, Return
<1>1. ASSUME NEW w \in Worker, PutSpans(w) PROVE SInv'
  <2> DEFINE r == at[w].repo
  <2>1. /\ r \in Repo /\ doomed' = doomed
        /\ at' = [at EXCEPT ![w] = [stage |-> "spanned", repo |-> r]]
        /\ spans' = [spans EXCEPT ![r] = IF r \in Spanless THEN NoSpans ELSE ModelOf[w]]
        /\ torn' = IF \E v \in Worker : at[v].stage = "dropping" /\ r \in doomed[v]
                   THEN torn \cup {r} ELSE torn
    BY <1>1 DEF PutSpans, Known
  <2>2. ModelOf[w] \in Model
    BY PipelineAssumption DEF PipelineAssumption
  <2> HIDE DEF r
  <2>3. SpansType' /\ NothingToLose' /\ DoomedType'
    BY <2>1, <2>2 DEF SpansType, NothingToLose, DoomedType
  <2>4. ChosenEmpty'
    <3> SUFFICES ASSUME NEW v \in Worker, at'[v].stage = "dropping",
                        NEW x \in (doomed'[v] \cap Repo) \ torn'
                 PROVE  spans'[x] = NoSpans
      BY DEF ChosenEmpty
    <3>1. v # w /\ at[v].stage = "dropping" /\ x \in doomed[v]
      BY <2>1
    <3>2. x # r /\ x \notin torn
      BY <2>1, <3>1
    <3>3. spans[x] = NoSpans
      BY <3>1, <3>2 DEF ChosenEmpty
    <3> QED
      BY <2>1, <3>2, <3>3 DEF SpansType
  <2> QED
    BY <2>3, <2>4
<1>2. ASSUME NEW w \in Worker, Delete(w) PROVE SInv'
  <2>1. /\ doomed' = [doomed EXCEPT ![w] = {}] /\ torn' = torn
        /\ at' = [at EXCEPT ![w] = [stage |-> "idle", repo |-> NoRepo]]
        /\ spans' = [r \in Repo |-> IF r \in doomed[w] THEN NoSpans ELSE spans[r]]
    BY <1>2 DEF Delete, Cascade
  <2>2. SpansType' /\ NothingToLose' /\ DoomedType'
    BY <2>1 DEF SpansType, NothingToLose, DoomedType
  <2>3. ChosenEmpty'
    BY <2>1 DEF ChosenEmpty, DoomedType
  <2> QED
    BY <2>2, <2>3
<1>3. ASSUME NEW w \in Worker, DropRepo(w) \/ Evict(w) PROVE SInv'
  <2>0. /\ \/ at' = [at EXCEPT ![w] = [stage |-> "idle", repo |-> NoRepo]] /\ doomed' = doomed
           \/ \E S : /\ at' = [at EXCEPT ![w] = [stage |-> "dropping", repo |-> at[w].repo]]
                     /\ doomed' = [doomed EXCEPT ![w] = S]
                     /\ S = {r \in {at[w].repo} : Empty(r)} /\ at[w].stage = "drop"
           \/ \E S : /\ at' = [at EXCEPT ![w] = [stage |-> "evicting", repo |-> at[w].repo]]
                     /\ doomed' = [doomed EXCEPT ![w] = S]
                     /\ S = {lru[i] : i \in {n \in DOMAIN lru : Beyond(n)}}
        /\ spans' = spans /\ torn' = torn
    BY <1>3 DEF DropRepo, Evict, Choose, storeVars
  <2>1. CASE at' = [at EXCEPT ![w] = [stage |-> "idle", repo |-> NoRepo]] /\ doomed' = doomed
    BY <2>0, <2>1 DEF SpansType, NothingToLose, DoomedType, ChosenEmpty
  <2>2. ASSUME NEW S, at' = [at EXCEPT ![w] = [stage |-> "dropping", repo |-> at[w].repo]],
               doomed' = [doomed EXCEPT ![w] = S],
               S = {r \in {at[w].repo} : Empty(r)}, at[w].stage = "drop"
        PROVE  SInv'
    <3>1. S \subseteq Repo /\ \A r \in S : spans[r] = NoSpans
      BY <2>2 DEF Known, Empty
    <3> QED
      BY <2>0, <2>2, <3>1 DEF SpansType, NothingToLose, DoomedType, ChosenEmpty
  <2>3. ASSUME NEW S, at' = [at EXCEPT ![w] = [stage |-> "evicting", repo |-> at[w].repo]],
               doomed' = [doomed EXCEPT ![w] = S],
               S = {lru[i] : i \in {n \in DOMAIN lru : Beyond(n)}}
        PROVE  SInv'
    <3> QED
      BY <2>0, <2>3 DEF SpansType, NothingToLose, DoomedType, ChosenEmpty
  <2> QED
    BY <2>0, <2>1, <2>2, <2>3
<1>4. ASSUME UNCHANGED spans, UNCHANGED torn,
             \/ UNCHANGED doomed
             \/ \E w \in Worker : doomed' = [doomed EXCEPT ![w] = {}],
             \A w \in Worker : at'[w].stage = "dropping" => at[w].stage = "dropping"
      PROVE  SInv'
  BY <1>4 DEF SpansType, NothingToLose, DoomedType, ChosenEmpty
<1>5. ASSUME NEW w \in Worker,
             \/ Begin(w) \/ Refuse(w) \/ FastPath(w) \/ ToClone(w) \/ Index(w)
             \/ IndexFails(w) \/ PutRepo(w) \/ PutRepoFails(w) \/ PutGraph(w)
             \/ FailIndexed(w) \/ Finish(w)
      PROVE  SInv'
  <2>1. UNCHANGED <<spans, torn, doomed>>
    BY <1>5 DEF Begin, Refuse, FastPath, ToClone, Index, IndexFails, PutRepo,
                PutRepoFails, PutGraph, FailIndexed, Finish, storeVars, deletes
  <2>2. \E st \in Stage \ {"dropping"} : \E x :
          at' = [at EXCEPT ![w] = [stage |-> st, repo |-> x]]
    BY <1>5 DEF Begin, Refuse, FastPath, ToClone, Index, IndexFails, PutRepo,
                PutRepoFails, PutGraph, FailIndexed, Finish, Stage
  <2> QED
    BY <1>4, <2>1, <2>2
<1>6. ASSUME NEW w \in Worker, Crash(w) PROVE SInv'
  BY <1>4, <1>6 DEF Crash, storeVars
<1>7. ASSUME UNCHANGED <<spans, deletes, at>> PROVE SInv'
  BY <1>4, <1>7 DEF deletes
<1> QED
  BY <1>1, <1>2, <1>3, <1>5, <1>6, <1>7
     DEF PNext, Submit, Retire, Touch, Pass, storeVars

(* A failed job's cleanup removes no corpus that was there when its DELETE   *)
(* began, whoever wrote it; the only other step that takes spans away is an  *)
(* eviction (repos.go:146-149, main.go:936-947).                             *)
THEOREM Cleanup == PSpec => SpansLeaveByEviction
<1>1. PInit => SInv
  BY DEF PInit, SInv, SpansType, NothingToLose, ChosenEmpty, DoomedType
<1>2. ASSUME SInv, AtType, [PNext]_pvars PROVE SInv'
  <2>1. CASE UNCHANGED pvars
    BY <1>2, <2>1 DEF pvars, storeVars, deletes, SInv, SpansType, NothingToLose,
                      ChosenEmpty, DoomedType
  <2> QED
    BY <1>2, <2>1, SpansKept
<1>3. ASSUME SInv, AtType, [PNext]_pvars,
             NEW r \in Repo \ torn, spans[r] # NoSpans, spans'[r] = NoSpans
      PROVE  \E w \in Worker : at[w].stage = "evicting" /\ r \in doomed[w]
  <2>1. spans' # spans
    BY <1>3
  <2>2. PNext
    BY <1>3, <2>1 DEF pvars, storeVars
  <2>3. CASE \E w \in Worker : PutSpans(w)
    <3>1. PICK w \in Worker : PutSpans(w)
      BY <2>3
    <3>2. /\ at[w].repo \in Repo
          /\ spans' = [spans EXCEPT ![at[w].repo] =
                         IF at[w].repo \in Spanless THEN NoSpans ELSE ModelOf[w]]
      BY <1>3, <3>1 DEF PutSpans, AtType, Known
    <3>3. r = at[w].repo /\ r \notin Spanless
      BY <1>3, <3>2 DEF SInv, SpansType, NothingToLose
    <3>4. ModelOf[w] # NoSpans
      BY PipelineAssumption DEF PipelineAssumption
    <3> QED
      BY <1>3, <3>2, <3>3, <3>4 DEF SInv, SpansType
  <2>4. CASE \E w \in Worker : Delete(w)
    <3>1. PICK w \in Worker : Delete(w)
      BY <2>4
    <3>2. r \in doomed[w] /\ at[w].stage \in Deleting
      BY <1>3, <3>1 DEF Delete, Cascade
    <3>3. at[w].stage # "dropping"
      BY <1>3, <3>2 DEF SInv, ChosenEmpty
    <3> QED
      BY <3>2, <3>3 DEF Deleting
  <2> QED
    BY <2>1, <2>2, <2>3, <2>4, SpansUntouched
<1>4. PSpec => []SInv /\ []AtType
  <2>1. RInv => AtType
    BY DEF RInv
  <2> QED
    BY <1>1, <1>2, <2>1, PipelineInvariance, PTL DEF PSpec
<1>5. SInv /\ AtType /\ [PNext]_pvars =>
        [\A r \in Repo \ torn : (spans[r] # NoSpans /\ spans'[r] = NoSpans) =>
            \E w \in Worker : at[w].stage = "evicting" /\ r \in doomed[w]]_pvars
  BY <1>3
<1> QED
  BY <1>4, <1>5, PTL DEF PSpec, SpansLeaveByEviction

-----------------------------------------------------------------------------
(* The order of repos.  A repository is in it once, and only a Delete takes  *)
(* one out.                                                                  *)
OrderType == lru \in Seq(Repo) /\ IsInjective(lru)

LEMMA UsedOrder ==
  ASSUME OrderType, NEW r \in Repo, lru' = Used(r)
  PROVE  OrderType' /\ Range(lru') = Range(lru) \cup {r}
  BY FirstElements DEF OrderType, Used

(* What a step may do to the order: a worker that does not delete only puts  *)
(* a repository first, if anything.                                          *)
LEMMA OrderStep ==
  ASSUME OrderType, AtType, [PNext]_pvars
  PROVE  /\ OrderType'
         /\ (\A w \in Worker : ~Delete(w)) => Range(lru) \subseteq Range(lru')
         /\ \A w \in Worker : Delete(w) => Range(lru') = Range(lru) \ doomed[w]
<1>1. ASSUME NEW w \in Worker, Delete(w)
      PROVE  OrderType' /\ Range(lru') = Range(lru) \ doomed[w]
  BY <1>1, WithoutTyped, WithoutElements DEF Delete, OrderType
<1>2. ASSUME lru' = lru PROVE OrderType' /\ Range(lru) \subseteq Range(lru')
  BY <1>2 DEF OrderType
<1>3. ASSUME NEW r \in Repo, lru' = Used(r)
      PROVE  OrderType' /\ Range(lru) \subseteq Range(lru')
  BY <1>3, UsedOrder
<1>4. ASSUME NEW w \in Worker, PutRepo(w)
      PROVE  OrderType' /\ Range(lru) \subseteq Range(lru')
  <2>1. at[w].repo \in Repo /\ lru' = Used(at[w].repo)
    BY <1>4 DEF PutRepo, AtType, Known
  <2> QED BY <1>3, <2>1
<1>5. ASSUME NEW w \in Worker,
             \/ Begin(w) \/ Refuse(w) \/ FastPath(w) \/ ToClone(w) \/ Index(w)
             \/ IndexFails(w) \/ PutRepoFails(w) \/ PutSpans(w) \/ PutGraph(w)
             \/ FailIndexed(w) \/ DropRepo(w) \/ Finish(w) \/ Evict(w) \/ Crash(w)
             \/ Retire(w)
      PROVE  lru' = lru
  BY <1>5 DEF Begin, Refuse, FastPath, ToClone, Index, IndexFails, PutRepoFails, PutSpans,
              PutGraph, FailIndexed, DropRepo, Finish, Evict, Choose, Crash, Retire, storeVars
<1>6. ASSUME (\E k \in Key : Submit(k)) \/ Pass \/ UNCHANGED pvars PROVE lru' = lru
  BY <1>6 DEF Submit, Pass, pvars, storeVars
<1>7. OrderType' /\ ((\A w \in Worker : ~Delete(w)) => Range(lru) \subseteq Range(lru'))
  <2>1. CASE \E w \in Worker : Delete(w) BY <1>1, <2>1
  <2>2. CASE \A w \in Worker : ~Delete(w)
    BY <1>2, <1>3, <1>4, <1>5, <1>6, <2>2 DEF PNext, Touch
  <2> QED BY <2>1, <2>2
<1> QED BY <1>1, <1>7

LEMMA OrderInit == PInit => OrderType
<1> SUFFICES ASSUME PInit PROVE OrderType
  OBVIOUS
<1>1. lru = <<>> BY DEF PInit
<1>2. \A s : s = <<>> => s \in Seq(Repo) /\ DOMAIN s = {} OBVIOUS
<1> QED BY <1>1, <1>2 DEF OrderType, IsInjective

LEMMA Listed == \A r : InCorpus(r) <=> r \in Range(lru)
  BY DEF InCorpus, Range

-----------------------------------------------------------------------------
(* Done is retrievable.  From the moment a worker has written or found its   *)
(* repository's spans, it has them, or somebody's DELETE took them.          *)
Fills(w) ==
  at[w].stage \in Filled =>
    at[w].repo \in Spanless \cup torn \/ Retrievable(at[w].repo) \/ w \in lost

FInv == OrderType /\ SpansType /\ \A w \in Worker : Fills(w)

(* Enough for the workers that stay where they were.                         *)
LEMMA FillsOn ==
  ASSUME NEW w \in Worker, Fills(w), AtType,
         at'[w] = at[w] \/ at'[w].stage \notin Filled
           \/ (at[w].stage \in Filled /\ at'[w].repo = at[w].repo),
         torn \subseteq torn', w \in lost => w \in lost' \/ at'[w].stage \notin Filled,
         at[w].stage \in Filled /\ Retrievable(at[w].repo) =>
           Retrievable(at[w].repo)' \/ at[w].repo \in Spanless \/ w \in lost'
  PROVE  Fills(w)'
  BY DEF Fills, Retrievable, InCorpus

LEMMA FStep ==
  ASSUME FInv, AtType, [PNext]_pvars
  PROVE  FInv'
<1>1. OrderType' BY OrderStep DEF FInv
<1>2. ASSUME UNCHANGED spans, \A w \in Worker : ~Delete(w)
      PROVE  \A r : Retrievable(r) => Retrievable(r)'
  <2>1. Range(lru) \subseteq Range(lru') BY <1>2, OrderStep DEF FInv
  <2>2. \A r : InCorpus(r)' <=> r \in Range(lru') BY DEF InCorpus, Range
  <2> QED BY <1>2, <2>1, <2>2, Listed DEF Retrievable
<1>3. ASSUME NEW w \in Worker, NEW st \in Stage \ Filled, NEW x,
             at' = [at EXCEPT ![w] = [stage |-> st, repo |-> x]],
             UNCHANGED <<spans, torn>>, \A v \in Worker : ~Delete(v),
             lost' = lost \/ lost' = lost \ {w}
      PROVE  FInv'
  <2>1. ASSUME NEW v \in Worker PROVE Fills(v)'
    <3>1. CASE v = w BY <1>3, <3>1 DEF Fills, AtType
    <3>2. CASE v # w
      <4>1. at'[v] = at[v] /\ (v \in lost => v \in lost') BY <1>3, <3>2 DEF AtType
      <4> QED BY <1>2, <1>3, <4>1, FillsOn DEF FInv
    <3> QED BY <3>1, <3>2
  <2> QED BY <1>1, <1>3, <2>1 DEF FInv, SpansType
<1>4. ASSUME NEW w \in Worker,
             \/ Begin(w) \/ Refuse(w) \/ ToClone(w) \/ Index(w) \/ IndexFails(w)
             \/ PutRepo(w) \/ PutRepoFails(w) \/ FailIndexed(w) \/ DropRepo(w)
             \/ Finish(w) \/ Evict(w) \/ Crash(w),
             \A v \in Worker : ~Delete(v)
      PROVE  FInv'
  <2>1. \E st \in Stage \ Filled : \E x : at' = [at EXCEPT ![w] = [stage |-> st, repo |-> x]]
    BY <1>4 DEF Begin, Refuse, ToClone, Index, IndexFails, PutRepo, PutRepoFails, FailIndexed,
                DropRepo, Finish, Evict, Crash, Choose, Goto, Return, Stage, Filled
  <2>2. UNCHANGED <<spans, torn>>
    BY <1>4 DEF Begin, Refuse, ToClone, Index, IndexFails, PutRepo, PutRepoFails, FailIndexed,
                DropRepo, Finish, Evict, Crash, Choose, storeVars, deletes
  <2>3. lost' = lost \/ lost' = lost \ {w}
    BY <1>4 DEF Begin, Refuse, ToClone, Index, IndexFails, PutRepo, PutRepoFails, FailIndexed,
                DropRepo, Finish, Evict, Crash, Choose, deletes
  <2> QED BY <1>3, <1>4, <2>1, <2>2, <2>3
<1>5. ASSUME NEW w \in Worker, FastPath(w), \A v \in Worker : ~Delete(v) PROVE FInv'
  <2>1. PICK r \in Commits[row[held[w].job].key] :
          FastHit(w, r) /\ at' = [at EXCEPT ![w] = [stage |-> "fast", repo |-> r]]
    BY <1>5 DEF FastPath, Goto
  <2>2. UNCHANGED <<spans, torn, lost>> BY <1>5 DEF FastPath, storeVars, deletes
  <2>3. Retrievable(r)'
    <3>1. Retrievable(r) BY <2>1 DEF FastHit, Retrievable
    <3> QED BY <1>2, <1>5, <2>2, <3>1
  <2>4. ASSUME NEW v \in Worker PROVE Fills(v)'
    <3>1. CASE v = w
      <4>1. at'[w].repo = r BY <2>1 DEF AtType
      <4> QED BY <2>3, <3>1, <4>1 DEF Fills, Retrievable, InCorpus
    <3>2. CASE v # w
      <4>1. at'[v] = at[v] BY <2>1, <3>2 DEF AtType
      <4> QED BY <1>2, <1>5, <2>2, <4>1, FillsOn DEF FInv
    <3> QED BY <3>1, <3>2
  <2> QED BY <1>1, <2>2, <2>4 DEF FInv, SpansType
<1>6. ASSUME NEW w \in Worker, PutSpans(w), \A v \in Worker : ~Delete(v) PROVE FInv'
  <2> DEFINE r == at[w].repo
  <2>1. /\ r \in Repo /\ Referencable(r) /\ torn \subseteq torn' /\ lost' = lost
        /\ at' = [at EXCEPT ![w] = [stage |-> "spanned", repo |-> r]]
        /\ spans' = [spans EXCEPT ![r] = IF r \in Spanless THEN NoSpans ELSE ModelOf[w]]
    BY <1>6 DEF PutSpans, Goto, AtType, Known
  <2>2. ModelOf[w] \in Model /\ NoSpans \notin Model
    BY PipelineAssumption DEF PipelineAssumption
  <2>3. Range(lru) \subseteq Range(lru') BY <1>6, OrderStep DEF FInv
  <2>4. \A x : InCorpus(x) => InCorpus(x)'
    <3>1. \A x : InCorpus(x)' <=> x \in Range(lru') BY DEF InCorpus, Range
    <3> QED BY <2>3, <3>1, Listed
  <2>5. SpansType' BY <2>1, <2>2 DEF FInv, SpansType
  <2>6. r \in Spanless \/ Retrievable(r)'
    BY <2>1, <2>2, <2>4 DEF Referencable, Retrievable, FInv, SpansType
  <2>7. \A x \in Repo : Retrievable(x) => Retrievable(x)' \/ x \in Spanless
    BY <2>1, <2>4, <2>6 DEF Retrievable, FInv, SpansType
  <2>8. ASSUME NEW v \in Worker PROVE Fills(v)'
    <3>1. CASE v = w
      <4>1. at'[w].repo = r BY <2>1 DEF AtType
      <4> QED BY <2>6, <3>1, <4>1 DEF Fills, Retrievable, InCorpus
    <3>2. CASE v # w
      <4>1. at'[v] = at[v] BY <2>1, <3>2 DEF AtType
      <4>2. at[v].stage \in Filled => at[v].repo \in Repo
        BY DEF AtType, Filled, Known
      <4> QED BY <2>1, <2>7, <4>1, <4>2, FillsOn DEF FInv
    <3> QED BY <3>1, <3>2
  <2> QED BY <1>1, <2>5, <2>8 DEF FInv
<1>7. ASSUME NEW w \in Worker, PutGraph(w), \A v \in Worker : ~Delete(v) PROVE FInv'
  <2>1. /\ at[w].stage \in Filled
        /\ at' = [at EXCEPT ![w] = [stage |-> "graphed", repo |-> at[w].repo]]
        /\ UNCHANGED <<spans, torn, lost>>
    BY <1>7 DEF PutGraph, Goto, storeVars, deletes, Filled
  <2>2. ASSUME NEW v \in Worker PROVE Fills(v)'
    <3>1. at'[v] = at[v] \/ (at[v].stage \in Filled /\ at'[v].repo = at[v].repo)
      BY <2>1 DEF AtType
    <3> QED BY <1>2, <1>7, <2>1, <3>1, FillsOn DEF FInv
  <2> QED BY <1>1, <2>1, <2>2 DEF FInv, SpansType
<1>8. ASSUME NEW w \in Worker, Delete(w) PROVE FInv'
  <2>1. /\ at' = [at EXCEPT ![w] = [stage |-> "idle", repo |-> NoRepo]] /\ torn' = torn
        /\ lost' = lost \cup {v \in Worker : at[v].stage \in Filled /\ at[v].repo \in doomed[w]}
        /\ spans' = [r \in Repo |-> IF r \in doomed[w] THEN NoSpans ELSE spans[r]]
    BY <1>8 DEF Delete, Cascade, Goto, Return
  <2>2. Range(lru') = Range(lru) \ doomed[w] BY <1>8, OrderStep DEF FInv
  <2>3. \A r \in Repo \ doomed[w] : Retrievable(r) => Retrievable(r)'
    <3>1. \A r : InCorpus(r)' <=> r \in Range(lru') BY DEF InCorpus, Range
    <3> QED BY <2>1, <2>2, <3>1, Listed DEF Retrievable
  <2>4. ASSUME NEW v \in Worker PROVE Fills(v)'
    <3>1. at'[v] = at[v] \/ at'[v].stage = "idle" BY <2>1 DEF AtType
    <3>2. at[v].stage \in Filled => at[v].repo \in Repo BY DEF AtType, Filled, Known
    <3>3. at[v].stage \in Filled /\ Retrievable(at[v].repo) =>
            Retrievable(at[v].repo)' \/ v \in lost'
      <4>1. CASE at[v].stage \in Filled /\ at[v].repo \in doomed[w] BY <2>1, <4>1
      <4>2. CASE at[v].stage \in Filled /\ at[v].repo \notin doomed[w]
        <5>1. at'[v] = at[v]
          BY <1>8, <2>1, <4>2 DEF Delete, Deleting, Filled, AtType
        <5>2. at[v].repo \in Repo \ doomed[w] BY <3>2, <4>2
        <5>3. Retrievable(at[v].repo) => Retrievable(at[v].repo)' BY <2>3, <5>1, <5>2
        <5> QED BY <5>3
      <4> QED BY <4>1, <4>2
    <3>4. at'[v] = at[v] \/ at'[v].stage \notin Filled BY <3>1 DEF Filled
    <3> QED BY <2>1, <3>3, <3>4, FillsOn DEF FInv
  <2>5. SpansType' BY <2>1 DEF FInv, SpansType
  <2> QED BY <1>1, <2>4, <2>5 DEF FInv
<1>9. ASSUME UNCHANGED <<at, spans, torn, lost>>, \A v \in Worker : ~Delete(v) PROVE FInv'
  <2>1. ASSUME NEW v \in Worker PROVE Fills(v)' BY <1>2, <1>9, FillsOn DEF FInv
  <2> QED BY <1>1, <1>9, <2>1 DEF FInv, SpansType
<1>10. ASSUME \/ \E k \in Key : Submit(k)
              \/ \E w \in Worker : Retire(w)
              \/ \E r \in Repo : Touch(r)
              \/ Pass \/ UNCHANGED pvars
       PROVE  UNCHANGED <<at, spans, torn, lost>>
  BY <1>10 DEF Submit, Retire, Touch, Pass, pvars, storeVars, deletes
<1>11. CASE \E w \in Worker : Delete(w) BY <1>8, <1>11
<1>12. CASE \A w \in Worker : ~Delete(w)
  BY <1>4, <1>5, <1>6, <1>7, <1>9, <1>10, <1>12 DEF PNext
<1> QED BY <1>11, <1>12

(* Whoever dies, retries, evicts or indexes the same commit beside it, a job *)
(* goes done only under the name of a repository that is in the corpus with  *)
(* its spans, unless somebody's DELETE took them first (doJob, fastPath).    *)
THEOREM Done == PSpec => DoneIsRetrievable
<1> DEFINE Good == \A j \in JobId : (row[j].status = "leased" /\ row'[j].status = "done") =>
                     \/ result'[j] \in Spanless \cup torn
                     \/ result'[j] \in Repo /\ Retrievable(result'[j])
                     \/ \E w \in lost : at[w].repo = result'[j] /\ held[w].job = j
<1>1. PInit => FInv
  <2> SUFFICES ASSUME PInit PROVE FInv
    OBVIOUS
  <2>1. SpansType BY DEF PInit, SpansType
  <2>2. \A w \in Worker : Fills(w) BY DEF PInit, Fills, Filled
  <2> QED BY <2>1, <2>2, OrderInit DEF FInv
<1>2. FInv /\ RInv /\ IInv /\ [PNext]_pvars => [Good]_pvars
  <2> SUFFICES ASSUME FInv, RInv, IInv, [PNext]_pvars, NEW j \in JobId,
                      row[j].status = "leased", row'[j].status = "done"
               PROVE  \/ result'[j] \in Spanless \cup torn
                      \/ result'[j] \in Repo /\ Retrievable(result'[j])
                      \/ \E w \in lost : at[w].repo = result'[j] /\ held[w].job = j
    OBVIOUS
  <2>1. ~NotCompleted BY DEF NotCompleted
  <2>2. PICK w \in Worker : Finish(w)
    <3>1. ASSUME NEW w \in Worker,
                 \/ Begin(w) \/ Refuse(w) \/ IndexFails(w) \/ PutRepoFails(w)
                 \/ FailIndexed(w) \/ Retire(w)
          PROVE  NotCompleted
      BY <3>1, OtherStatements
      DEF Begin, Refuse, IndexFails, PutRepoFails, FailIndexed, Retire
    <3>2. ASSUME NEW w \in Worker,
                 \/ FastPath(w) \/ ToClone(w) \/ Index(w) \/ PutRepo(w) \/ PutSpans(w)
                 \/ PutGraph(w) \/ DropRepo(w) \/ Evict(w) \/ Delete(w)
          PROVE  NotCompleted
      <4>1. UNCHANGED row
        BY <3>2 DEF FastPath, ToClone, Index, PutRepo, PutSpans, PutGraph, DropRepo, Evict,
                    Delete, Choose, vars
      <4> QED BY <4>1, OtherStatements
    <3>3. ASSUME NEW w \in Worker, Crash(w) PROVE NotCompleted
      <4>1. UNCHANGED row \/ Vanish(w) BY <3>3 DEF Crash, vars
      <4> QED BY <4>1, OtherStatements
    <3>4. ASSUME (\E k \in Key : Submit(k)) \/ Pass PROVE NotCompleted
      BY <3>4, OtherStatements DEF Submit, Pass
    <3>5. ASSUME (\E r \in Repo : Touch(r)) \/ UNCHANGED pvars PROVE NotCompleted
      <4>1. UNCHANGED row BY <3>5 DEF Touch, pvars, vars
      <4> QED BY <4>1, OtherStatements
    <3> QED BY <2>1, <3>1, <3>2, <3>3, <3>4, <3>5 DEF PNext
  <2> DEFINE i == held[w].job
             r == at[w].repo
  <2>3. /\ at[w].stage \in Filled /\ r \in Repo /\ i \in JobId
        /\ result' = [result EXCEPT ![i] = Recorded(i, w, r)]
    BY <2>2 DEF Finish, Complete, Closing, Filled, RInv, AtType, Known, IInv, TypeOK
  <2>4. j = i /\ LeasedBy(i, w)
    <3>1. CASE LeasedBy(i, w)
      <4>1. row' = [row EXCEPT ![i].status = "done", ![i].owner = NoWorker]
        BY <2>2, <3>1 DEF Finish, Complete
      <4>2. j # i => row'[j] = row[j]
        <5> HIDE DEF i
        <5> QED BY <4>1 DEF IInv, TypeOK
      <4> QED BY <3>1, <4>2
    <3>2. CASE ~LeasedBy(i, w) BY <2>2, <3>2 DEF Finish, Complete
    <3> QED BY <3>1, <3>2
  <2>5. result'[j] = r BY <2>3, <2>4 DEF RInv, ResultType, Recorded
  <2>6. r \in Spanless \cup torn \/ Retrievable(r) \/ w \in lost
    BY <2>3 DEF FInv, Fills
  <2>7. CASE r \in Spanless \cup torn BY <2>5, <2>7
  <2>8. CASE Retrievable(r) BY <2>3, <2>5, <2>8
  <2>9. CASE w \in lost BY <2>4, <2>5, <2>9
  <2> QED BY <2>6, <2>7, <2>8, <2>9
<1>3. FInv /\ RInv /\ [PNext]_pvars => FInv'
  BY FStep DEF RInv
<1> QED
  BY <1>1, <1>2, <1>3, PipelineInvariance, QueueInvariance, PTL DEF PSpec, DoneIsRetrievable

-----------------------------------------------------------------------------
(* The quota.  What an eviction did not choose is a quota of repositories    *)
(* that only another DELETE can take out of the order.                       *)
Spares(w) ==
  at[w].stage = "evicting" /\ w \notin crossed =>
    Cardinality(Range(lru) \ doomed[w]) >= KeepRepos

EInv == OrderType /\ DoomedType /\ \A w \in Worker : Spares(w)

LEMMA RangeFinite ==
  ASSUME NEW list \in Seq(Repo)
  PROVE  /\ IsFiniteSet(Range(list)) /\ Cardinality(Range(list)) \in Nat
         /\ Len(list) \in Nat /\ Cardinality(Range(list)) <= Len(list)
<1>1. Len(list) \in Nat /\ DOMAIN list = 1 .. Len(list) OBVIOUS
<1>2. IsFiniteSet(1 .. Len(list)) /\ Cardinality(1 .. Len(list)) = Len(list)
  BY <1>1, FS_Interval
<1>3. list \in Surjection(1 .. Len(list), Range(list))
  BY <1>1 DEF Surjection, Range
<1>4. /\ IsFiniteSet(Range(list))
      /\ Cardinality(Range(list)) <= Cardinality(1 .. Len(list))
  BY <1>2, <1>3, FS_Surjection
<1> QED BY <1>1, <1>2, <1>4, FS_CardinalityType

(* A larger order spares more.                                               *)
LEMMA SparesMore ==
  ASSUME OrderType, OrderType', Range(lru) \subseteq Range(lru'), NEW gone
  PROVE  Cardinality(Range(lru) \ gone) >= KeepRepos =>
           Cardinality(Range(lru') \ gone) >= KeepRepos
<1>1. IsFiniteSet(Range(lru'))
  <2>1. lru' \in Seq(Repo) BY DEF OrderType
  <2> QED BY <2>1, RangeFinite
<1>2. Range(lru') \ gone \in SUBSET Range(lru') OBVIOUS
<1>3. IsFiniteSet(Range(lru') \ gone) BY <1>1, <1>2, FS_Subset
<1>4. Range(lru) \ gone \in SUBSET (Range(lru') \ gone) OBVIOUS
<1>5. /\ IsFiniteSet(Range(lru) \ gone)
      /\ Cardinality(Range(lru) \ gone) <= Cardinality(Range(lru') \ gone)
  BY <1>3, <1>4, FS_Subset
<1>6. /\ Cardinality(Range(lru) \ gone) \in Nat /\ Cardinality(Range(lru') \ gone) \in Nat
      /\ KeepRepos \in Nat
  BY <1>3, <1>5, FS_CardinalityType, PipelineAssumption DEF PipelineAssumption
<1> QED BY <1>5, <1>6

(* OFFSET keep: what an Evict chooses leaves a quota.                        *)
LEMMA EvictSpares ==
  ASSUME OrderType, {n \in DOMAIN lru : Beyond(n)} # {}
  PROVE  Cardinality(Range(lru) \ {lru[i] : i \in {n \in DOMAIN lru : Beyond(n)}}) >= KeepRepos
<1> DEFINE gone == {lru[i] : i \in {n \in DOMAIN lru : Beyond(n)}}
           kept == Range(lru) \ gone
           f == [i \in 1 .. KeepRepos |-> lru[i]]
<1>1. KeepRepos \in Nat BY PipelineAssumption DEF PipelineAssumption
<1>2. Len(lru) \in Nat /\ DOMAIN lru = 1 .. Len(lru) BY DEF OrderType
<1>3. 1 .. KeepRepos \subseteq DOMAIN lru BY <1>1, <1>2 DEF Beyond
<1>4. IsFiniteSet(kept)
  <2>1. IsFiniteSet(Range(lru)) BY RangeFinite DEF OrderType
  <2>2. kept \in SUBSET Range(lru) OBVIOUS
  <2> QED BY <2>1, <2>2, FS_Subset
<1>5. f \in Injection(1 .. KeepRepos, kept)
  <2>1. ASSUME NEW i \in 1 .. KeepRepos PROVE lru[i] \in kept
    <3>1. lru[i] \in Range(lru) BY <1>3 DEF Range
    <3>2. ASSUME NEW n \in DOMAIN lru, Beyond(n) PROVE lru[n] # lru[i]
      <4>1. i \in DOMAIN lru /\ n # i BY <1>1, <1>2, <1>3, <3>2 DEF Beyond
      <4> QED BY <4>1 DEF OrderType, IsInjective
    <3> QED BY <3>1, <3>2
  <2>2. ASSUME NEW i \in 1 .. KeepRepos, NEW j \in 1 .. KeepRepos, lru[i] = lru[j]
        PROVE  i = j
    BY <1>3, <2>2 DEF OrderType, IsInjective
  <2>3. f \in [1 .. KeepRepos -> kept]
    <3> HIDE DEF kept
    <3> QED BY <2>1
  <2>4. IsInjective(f) BY <2>2 DEF IsInjective
  <2> HIDE DEF f, kept
  <2> QED BY <2>3, <2>4 DEF Injection
<1> HIDE DEF kept, f
<1>6. IsFiniteSet(1 .. KeepRepos) /\ Cardinality(1 .. KeepRepos) = KeepRepos
  BY <1>1, FS_Interval
<1>7. Cardinality(1 .. KeepRepos) <= Cardinality(kept)
  BY <1>4, <1>5, <1>6, FS_Injection
<1>8. Cardinality(kept) \in Nat BY <1>4, FS_CardinalityType
<1> QED BY <1>1, <1>6, <1>7, <1>8 DEF kept

LEMMA EStep ==
  ASSUME EInv, AtType, [PNext]_pvars
  PROVE  EInv'
<1>1. OrderType' BY OrderStep DEF EInv
<1>2. ASSUME NEW v \in Worker, Range(lru) \subseteq Range(lru'), doomed'[v] = doomed[v],
             at'[v].stage = "evicting" => at[v].stage = "evicting",
             v \in crossed => v \in crossed'
      PROVE  Spares(v)'
  BY <1>1, <1>2, SparesMore DEF EInv, Spares
<1>3. ASSUME NEW w \in Worker, Delete(w) PROVE EInv'
  <2>1. /\ at' = [at EXCEPT ![w] = [stage |-> "idle", repo |-> NoRepo]]
        /\ doomed' = [doomed EXCEPT ![w] = {}]
        /\ crossed' = (crossed \cup {v \in Worker : at[v].stage \in Deleting}) \ {w}
    BY <1>3 DEF Delete, Goto, Return
  <2>2. ASSUME NEW v \in Worker PROVE Spares(v)'
    <3>1. CASE v = w BY <2>1, <3>1 DEF Spares, AtType
    <3>2. CASE v # w
      <4>1. at'[v].stage = "evicting" => v \in crossed'
        BY <2>1, <3>2 DEF AtType, Deleting
      <4> QED BY <4>1 DEF Spares
    <3> QED BY <3>1, <3>2
  <2>3. DoomedType' BY <2>1 DEF EInv, DoomedType
  <2> QED BY <1>1, <2>2, <2>3 DEF EInv
<1>4. ASSUME \A w \in Worker : ~Delete(w) PROVE Range(lru) \subseteq Range(lru')
  BY <1>4, OrderStep DEF EInv
<1>5. ASSUME NEW w \in Worker, Evict(w), \A v \in Worker : ~Delete(v) PROVE EInv'
  <2> DEFINE gone == {lru[i] : i \in {n \in DOMAIN lru : Beyond(n)}}
  <2>1. /\ UNCHANGED <<lru, crossed>>
        /\ \/ /\ at' = [at EXCEPT ![w] = [stage |-> "idle", repo |-> NoRepo]]
              /\ doomed' = doomed
           \/ /\ at' = [at EXCEPT ![w] = [stage |-> "evicting", repo |-> at[w].repo]]
              /\ doomed' = [doomed EXCEPT ![w] = gone] /\ gone # {}
    BY <1>5 DEF Evict, Choose, Goto, Return, storeVars
  <2>2. DoomedType'
    <3> HIDE DEF gone
    <3> QED BY <2>1 DEF EInv, DoomedType
  <2>3. ASSUME NEW v \in Worker PROVE Spares(v)'
    <3>1. CASE v # w
      <4>1. doomed'[v] = doomed[v] /\ at'[v] = at[v]
        <5> HIDE DEF gone
        <5> QED BY <2>1, <3>1 DEF EInv, DoomedType, AtType
      <4> QED BY <1>2, <1>4, <1>5, <2>1, <4>1
    <3>2. CASE v = w /\ at'[w].stage # "evicting" BY <3>2 DEF Spares
    <3>3. CASE v = w /\ at'[w].stage = "evicting"
      <4>1. doomed'[w] = gone /\ gone # {}
        <5> HIDE DEF gone
        <5> QED BY <2>1, <3>3 DEF EInv, DoomedType, AtType
      <4>2. {n \in DOMAIN lru : Beyond(n)} # {} BY <4>1
      <4>3. Cardinality(Range(lru) \ gone) >= KeepRepos BY <4>2, EvictSpares DEF EInv
      <4>4. Range(lru') = Range(lru) BY <2>1
      <4> QED BY <3>3, <4>1, <4>3, <4>4 DEF Spares
    <3> QED BY <3>1, <3>2, <3>3
  <2> QED BY <1>1, <2>2, <2>3 DEF EInv
<1>6. ASSUME NEW w \in Worker, DropRepo(w), \A v \in Worker : ~Delete(v) PROVE EInv'
  <2>1. PICK S : /\ \/ doomed' = doomed
                    \/ doomed' = [doomed EXCEPT ![w] = S]
                 /\ UNCHANGED crossed
    BY <1>6 DEF DropRepo, Choose
  <2>2. \/ at' = [at EXCEPT ![w] = [stage |-> "idle", repo |-> NoRepo]]
        \/ at' = [at EXCEPT ![w] = [stage |-> "dropping", repo |-> at[w].repo]]
    BY <1>6 DEF DropRepo, Choose, Goto, Return
  <2>3. DoomedType' BY <2>1 DEF EInv, DoomedType
  <2>4. ASSUME NEW v \in Worker PROVE Spares(v)'
    <3>1. CASE v # w
      <4>1. doomed'[v] = doomed[v] /\ at'[v] = at[v]
        BY <2>1, <2>2, <3>1 DEF EInv, DoomedType, AtType
      <4> QED BY <1>2, <1>4, <1>6, <2>1, <4>1
    <3>2. CASE v = w BY <2>2, <3>2 DEF Spares, AtType
    <3> QED BY <3>1, <3>2
  <2> QED BY <1>1, <2>3, <2>4 DEF EInv
<1>7. ASSUME NEW w \in Worker, Crash(w), \A v \in Worker : ~Delete(v) PROVE EInv'
  <2>1. /\ at' = [at EXCEPT ![w] = [stage |-> "idle", repo |-> NoRepo]]
        /\ doomed' = [doomed EXCEPT ![w] = {}] /\ crossed' = crossed \ {w}
    BY <1>7 DEF Crash, Goto, Return
  <2>2. DoomedType' BY <2>1 DEF EInv, DoomedType
  <2>3. ASSUME NEW v \in Worker PROVE Spares(v)'
    <3>1. CASE v # w
      <4>1. doomed'[v] = doomed[v] /\ at'[v] = at[v] /\ (v \in crossed => v \in crossed')
        BY <2>1, <3>1 DEF EInv, DoomedType, AtType
      <4> QED BY <1>2, <1>4, <1>7, <4>1
    <3>2. CASE v = w BY <2>1, <3>2 DEF Spares, AtType
    <3> QED BY <3>1, <3>2
  <2> QED BY <1>1, <2>2, <2>3 DEF EInv
<1>8. ASSUME UNCHANGED <<doomed, crossed>>, \A v \in Worker : ~Delete(v),
             \A v \in Worker : at'[v].stage = "evicting" => at[v].stage = "evicting"
      PROVE  EInv'
  <2>1. \A v \in Worker : Spares(v)' BY <1>2, <1>4, <1>8
  <2> QED BY <1>1, <1>8, <2>1 DEF EInv, DoomedType
<1>9. ASSUME NEW w \in Worker,
             \/ Begin(w) \/ Refuse(w) \/ FastPath(w) \/ ToClone(w) \/ Index(w)
             \/ IndexFails(w) \/ PutRepo(w) \/ PutRepoFails(w) \/ PutSpans(w) \/ PutGraph(w)
             \/ FailIndexed(w) \/ Finish(w),
             \A v \in Worker : ~Delete(v)
      PROVE  EInv'
  <2>1. UNCHANGED <<doomed, crossed>>
    BY <1>9 DEF Begin, Refuse, FastPath, ToClone, Index, IndexFails, PutRepo, PutRepoFails,
                PutSpans, PutGraph, FailIndexed, Finish, deletes
  <2>2. \E st \in Stage \ {"evicting"} : \E x :
          at' = [at EXCEPT ![w] = [stage |-> st, repo |-> x]]
    BY <1>9 DEF Begin, Refuse, FastPath, ToClone, Index, IndexFails, PutRepo, PutRepoFails,
                PutSpans, PutGraph, FailIndexed, Finish, Goto, Return, Stage
  <2>3. \A v \in Worker : at'[v].stage = "evicting" => at[v].stage = "evicting"
    BY <2>2 DEF AtType
  <2> QED BY <1>8, <1>9, <2>1, <2>3
<1>10. ASSUME \/ \E k \in Key : Submit(k)
              \/ \E w \in Worker : Retire(w)
              \/ \E r \in Repo : Touch(r)
              \/ Pass \/ UNCHANGED pvars
       PROVE  UNCHANGED <<at, doomed, crossed>>
  BY <1>10 DEF Submit, Retire, Touch, Pass, pvars, deletes
<1>11. CASE \E w \in Worker : Delete(w) BY <1>3, <1>11
<1>12. CASE \A w \in Worker : ~Delete(w)
  BY <1>5, <1>6, <1>7, <1>8, <1>9, <1>10, <1>12 DEF PNext
<1> QED BY <1>11, <1>12

(* An eviction keeps its quota, whatever is read or indexed between its      *)
(* choice and its DELETE, unless another DELETE commits in between (Evict).  *)
THEOREM Quota == PSpec => EvictionKeepsQuota
<1> DEFINE Good == \A w \in Worker : (at[w].stage = "evicting" /\ at'[w].stage = "idle") =>
                     lru' = lru \/ Len(lru') >= KeepRepos \/ w \in crossed
<1>1. PInit => EInv
  <2> SUFFICES ASSUME PInit PROVE EInv
    OBVIOUS
  <2>1. DoomedType BY DEF PInit, DoomedType
  <2>2. \A w \in Worker : Spares(w) BY DEF PInit, Spares
  <2> QED BY <2>1, <2>2, OrderInit DEF EInv
<1>2. EInv /\ AtType /\ [PNext]_pvars => [Good]_pvars
  <2> SUFFICES ASSUME EInv, AtType, [PNext]_pvars, NEW w \in Worker,
                      at[w].stage = "evicting", at'[w].stage = "idle",
                      lru' # lru, w \notin crossed
               PROVE  Len(lru') >= KeepRepos
    OBVIOUS
  <2>1. PICK v \in Worker : Delete(v) \/ PutRepo(v)
    <3>1. ASSUME NEW r \in Repo, Touch(r) PROVE FALSE BY <3>1 DEF Touch
    <3>2. ASSUME lru' = lru PROVE FALSE BY <3>2
    <3>3. ASSUME NEW u \in Worker,
                 \/ Begin(u) \/ Refuse(u) \/ FastPath(u) \/ ToClone(u) \/ Index(u)
                 \/ IndexFails(u) \/ PutRepoFails(u) \/ PutSpans(u) \/ PutGraph(u)
                 \/ FailIndexed(u) \/ DropRepo(u) \/ Finish(u) \/ Evict(u) \/ Crash(u)
                 \/ Retire(u)
          PROVE  FALSE
      BY <3>3
      DEF Begin, Refuse, FastPath, ToClone, Index, IndexFails, PutRepoFails, PutSpans,
          PutGraph, FailIndexed, DropRepo, Finish, Evict, Choose, Crash, Retire, storeVars
    <3>4. ASSUME (\E k \in Key : Submit(k)) \/ Pass \/ UNCHANGED pvars PROVE FALSE
      BY <3>4 DEF Submit, Pass, pvars, storeVars
    <3> QED BY <3>1, <3>3, <3>4 DEF PNext
  <2>2. Delete(v) /\ v = w
    <3>1. CASE PutRepo(v) BY <3>1 DEF PutRepo, Goto, AtType
    <3>2. CASE Delete(v) BY <3>2 DEF Delete, Return, Goto, AtType
    <3> QED BY <2>1, <3>1, <3>2
  <2>3. OrderType' /\ Range(lru') = Range(lru) \ doomed[w]
    BY <2>2, OrderStep DEF EInv
  <2>4. Cardinality(Range(lru')) >= KeepRepos BY <2>3 DEF EInv, Spares
  <2>5. /\ Cardinality(Range(lru')) \in Nat /\ Len(lru') \in Nat
        /\ Cardinality(Range(lru')) <= Len(lru')
    BY <2>3, RangeFinite DEF OrderType
  <2>6. KeepRepos \in Nat BY PipelineAssumption DEF PipelineAssumption
  <2> QED BY <2>4, <2>5, <2>6
<1>3. EInv /\ AtType /\ [PNext]_pvars => EInv'
  BY EStep
<1>4. RInv => AtType BY DEF RInv
<1> QED
  BY <1>1, <1>2, <1>3, <1>4, PipelineInvariance, PTL DEF PSpec, EvictionKeepsQuota
=============================================================================
