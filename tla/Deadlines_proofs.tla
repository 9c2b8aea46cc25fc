-------------------------- MODULE Deadlines_proofs --------------------------
(* The time bounds of a job hold for every deadline, number of attempts and  *)
(* overrun that DeadlineAssumption allows.                                   *)
EXTENDS Deadlines, TLAPS

(* The latest a stage is entered or left: the job's context starts by Lead   *)
(* and ends by Lead + Deadline; a stage on it may overrun; the graph's write *)
(* has one Record after it, the verdict's another and the clean-up a third.  *)
WorkEnd == Lead + Deadline
Horizon(stage) ==
  CASE stage = "begin" -> Lead
    [] stage = "spans" -> WorkEnd
    [] stage \in {"resolve", "index", "check"} -> WorkEnd + Overrun
    [] stage \in {"graph", "blobs"} -> WorkEnd + Record
    [] stage = "drop" -> WorkEnd + 3 * Record
    [] OTHER -> WorkEnd + 2 * Record

InTime == at # "idle" => now <= Horizon(at) /\ until <= Horizon(at)

DInv == DTypeOK /\ InTime

LEMMA DInitInv == DInit => DInv
<1> SUFFICES ASSUME DInit PROVE DInv
  OBVIOUS
<1>1. spans \in BOOLEAN /\ graph \in BOOLEAN /\ hurt \in BOOLEAN
  BY Zenon DEF DInit
<1>2. at = "idle" /\ at \in Stage /\ status \in {"pending", "leased", "done", "failed"}
  BY DEF DInit, Stage
<1>3. now \in Nat /\ until \in Nat /\ attempt \in 0..(Tries + 1)
  BY DeadlineAssumption DEF DInit
<1>4. jobEnd \in 0..(Lead + Deadline) /\ doneEnd \in 0..(Lead + Deadline + Record)
  BY DeadlineAssumption DEF DInit
<1> QED
  BY <1>1, <1>2, <1>3, <1>4 DEF DInv, DTypeOK, InTime

(* Every stage is left for one that has time left for it.                    *)
LEMMA WorkInv == ASSUME DInv, Work PROVE DInv'
<1> USE DeadlineAssumption DEF DInv, DTypeOK, InTime, Horizon, WorkEnd, Goto, Return, Close, time, job, corpus
<1>0. {"idle", "begin", "resolve", "index", "spans", "check", "graph", "blobs", "evict",
       "drop", "complete", "fast", "fail", "failIndexed"} = Stage
  BY DEF Stage, Closing
<1>1. CASE Refuse
  BY <1>0, <1>1 DEF Refuse
<1>2. CASE Begin
  BY <1>0, <1>2 DEF Begin, JobBudget
<1>3. CASE Resolve
  BY <1>0, <1>3 DEF Resolve
<1>4. CASE Index
  BY <1>0, <1>4 DEF Index
<1>5. CASE PutSpans
  BY <1>0, <1>5 DEF PutSpans, CheckBudget
<1>6. CASE Check
  BY <1>0, <1>6 DEF Check
<1>7. CASE PutGraph
  BY <1>0, <1>7 DEF PutGraph
<1>8. CASE Blobs
  BY <1>0, <1>8 DEF Blobs
<1>9. CASE Fail
  BY <1>0, <1>9 DEF Fail
<1>10. CASE FailIndexed
  <2>1. spans' \in BOOLEAN /\ graph' \in BOOLEAN /\ hurt' \in BOOLEAN
    BY <1>10, Zenon DEF FailIndexed
  <2>2. at' = "failIndexed" /\ until' = now + Record /\ UNCHANGED <<now, time, job>>
    BY <1>10 DEF FailIndexed
  <2>3. at \in {"spans", "graph"}
    BY <1>10 DEF FailIndexed
  <2>4. InTime'
    BY <2>2, <2>3
  <2>5. DTypeOK'
    BY <1>0, <2>1, <2>2
  <2> QED
    BY <2>4, <2>5
<1>11. CASE Complete
  BY <1>0, <1>11 DEF Complete
<1>12. CASE RecordFailure
  BY <1>0, <1>12 DEF RecordFailure, AfterFailure
<1>13. CASE Lost
  BY <1>0, <1>13 DEF Lost, AfterFailure, Closing
<1>14. CASE Tidy
  BY <1>0, <1>14 DEF Tidy
<1> QED
  BY <1>1, <1>2, <1>3, <1>4, <1>5, <1>6, <1>7, <1>8, <1>9, <1>10, <1>11, <1>12, <1>13, <1>14
  DEF Work

LEMMA StepInv == DInv /\ [DNext]_dvars => DInv'
<1> SUFFICES ASSUME DInv, [DNext]_dvars PROVE DInv'
  OBVIOUS
<1> USE DeadlineAssumption DEF DInv, DTypeOK, InTime
<1>1. CASE Lease
  BY <1>1 DEF Lease, Goto, Horizon, time, corpus, Stage
<1>2. CASE Work
  BY <1>2, WorkInv
<1>3. CASE Crash
  BY <1>3 DEF Crash, Return, Goto, time, job, Stage
<1>4. CASE Tick
  <2>1. now' = now + 1 /\ UNCHANGED <<at, until, time, job, corpus>>
    BY <1>4 DEF Tick
  <2>2. Horizon(at)' = Horizon(at)
    BY <2>1 DEF Horizon
  <2>3. DTypeOK'
    BY <2>1 DEF time, job, corpus
  <2>4. at # "idle" => now + 1 <= until
    BY <1>4 DEF Tick
  <2>5. ASSUME at # "idle" PROVE Horizon(at) \in Nat
    BY DEF Horizon, WorkEnd
  <2>6. InTime'
    BY <2>1, <2>2, <2>4, <2>5
  <2> QED
    BY <2>3, <2>6
<1>5. CASE UNCHANGED dvars
  BY <1>5 DEF dvars, time, job, corpus, Horizon
<1> QED
  BY <1>1, <1>2, <1>3, <1>4, <1>5 DEF DNext

LEMMA InvIsEnough == DInv => DTypeOK /\ LeaseOutlastsWork /\ FreedInTime
<1> SUFFICES ASSUME DInv PROVE DTypeOK /\ LeaseOutlastsWork /\ FreedInTime
  OBVIOUS
<1> USE DeadlineAssumption DEF DInv, DTypeOK, InTime, Horizon, WorkEnd
<1>1. LeaseOutlastsWork
  BY DEF LeaseOutlastsWork, LeaseFor
<1>2. FreedInTime
  BY DEF FreedInTime
<1> QED
  BY <1>1, <1>2

(* However slow each stage and each closing write, a job's lease outlasts    *)
(* its verdict (run, doJob), and its worker is free three closing writes     *)
(* after the deadline.                                                       *)
THEOREM LeaseIsLongEnough == DSpec => [](LeaseOutlastsWork /\ FreedInTime /\ DTypeOK)
<1>1. DSpec => []DInv
  BY DInitInv, StepInv, PTL DEF DSpec
<1> QED
  BY <1>1, InvIsEnough, PTL

=============================================================================
