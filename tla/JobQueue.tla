------------------------------ MODULE JobQueue ------------------------------
(***************************************************************************)
(* The indexing queue: packages/shared/jobs/jobs.go, a Postgres table that *)
(* gateways insert into and indexer processes lease from, together with    *)
(* what an indexer does to it (the lease loop and the verdicts of          *)
(* apps/indexer/cmd/main.go).                                              *)
(*                                                                         *)
(* Every queue operation is one SQL statement, so each is one atomic       *)
(* action.  What interleaves is everything between two statements: a       *)
(* worker holds a job in its memory (held) from the Lease that returned it *)
(* to the Complete or Fail it ends with, and in between its lease can run  *)
(* out, another worker can take the job, and the process can be killed.    *)
(*                                                                         *)
(* Time is kept as distances, not as instants: timer[j] is the number of   *)
(* ticks until the time condition the code next asks of row j holds -      *)
(* "leased_until < now()" on an active row, "updated_at < now() - keepFor" *)
(* on a terminal one.  A NULL leased_until is a distance of 0.             *)
(***************************************************************************)
EXTENDS Integers

CONSTANTS
  Key,        (* what jobs_active_idx dedupes on: (lower(remote), ref)       *)
  Worker,     (* indexer processes; a worker id is never shared              *)
  NoWorker,   (* leased_by IS NULL                                           *)
  MaxJobs,    (* bound: how many rows are ever inserted                      *)
  MaxFaults,  (* bound: how often failing an abandoned job goes wrong itself *)
  Tries,      (* MAX_ATTEMPTS                                                *)
  LeaseFor,   (* the lease run() asks for, JOB_DEADLINE + 1 minute           *)
  RetryBase,  (* Queue.RetryBase                                             *)
  RetryMax,   (* Queue.RetryMax                                              *)
  KeepFor     (* JOB_HISTORY_HOURS                                           *)

ASSUME QueueAssumption ==
  /\ Key # {} /\ NoWorker \notin Worker
  /\ MaxJobs \in Nat /\ MaxFaults \in Nat
  /\ Tries \in Nat \ {0}
  /\ LeaseFor \in Nat \ {0} /\ RetryMax \in Nat /\ KeepFor \in Nat

VARIABLES
  row,        (* the jobs table, by id                                        *)
  timer,      (* ticks until row j's next time condition holds                 *)
  submitted,  (* rows inserted so far: ids 1..submitted exist or were swept    *)
  held,       (* the jobs.Job each worker's doJob is running on, or NoJob      *)
  started,    (* history: attempts of j that went past the abandonment check   *)
  faults      (* bound counter: what MaxFaults counts                          *)

vars == <<row, timer, submitted, held, started, faults>>

JobId == 1..MaxJobs
NoJob == 0
Active == {"pending", "leased"}
Terminal == {"done", "failed"}
Status == {"unused", "swept"} \cup Active \cup Terminal

-----------------------------------------------------------------------------
(* The retry backoff of Fail: base * 2^(attempts-1), stopped at RetryMax.    *)
(* attempts counts the lease being failed, and the exponent is clamped to    *)
(* 0..16 on both sides.                                                      *)
Clamp(n, lo, hi) == IF n < lo THEN lo ELSE IF n > hi THEN hi ELSE n

(* Mutant: the backoff is subtracted from now() instead of added to it.      *)
RetryInThePast(attempts) == -RetryBase * 2^Clamp(attempts - 1, 0, 16)

RetryDelay(attempts) ==
  LET doubled == RetryBase * 2^Clamp(attempts - 1, 0, 16)
  IN  IF doubled \in 0..RetryMax THEN doubled ELSE RetryMax

(* Mutant: the unique index covers pending rows only.                        *)
PendingFor(k, j) == row[j].key = k /\ row[j].status = "pending"

(* The rows jobs_active_idx lets a submission of k conflict with.            *)
ActiveFor(k, j) == row[j].key = k /\ row[j].status \in Active

(* Mutant: Lease takes pending rows only, never a leased one that expired.   *)
PendingClaimable(j) == row[j].status = "pending" /\ timer[j] = 0

(* The WHERE clause of Lease.                                                *)
Claimable(j) == row[j].status \in Active /\ timer[j] = 0

(* Mutant: one attempt too many is let through.                              *)
AbandonedLate(attempts) == attempts > Tries + 1

(* doJob's first check: a job its workers keep dying on is ended instead.    *)
Abandoned(attempts) == attempts > Tries

(* Mutant: every process of a host names itself after the host.              *)
HostName(w) == CHOOSE v \in Worker : TRUE

(* workerID(): what a process writes to leased_by, generated at every boot.  *)
Name(w) == w

(* Mutant: Complete and Fail match on the id alone.                          *)
AnyWorker(j, w) == TRUE

(* The WHERE clause of Complete and Fail, on top of id = j.                  *)
LeasedBy(j, w) == row[j].owner = Name(w)

(* Mutant: Sweep deletes by status alone.                                    *)
Ended(j) == row[j].status \in Terminal

(* Mutant: Sweep deletes by age alone.                                       *)
Old(j) == row[j].status \notin {"unused", "swept"} /\ timer[j] = 0

(* The WHERE clause of Sweep.                                                *)
Sweepable(j) == row[j].status \in Terminal /\ timer[j] = 0

-----------------------------------------------------------------------------
(* What a row that was never inserted is for: it stands for no row at all.   *)
AnyKey == CHOOSE k \in Key : TRUE

Init ==
  /\ row = [j \in JobId |-> [status |-> "unused", key |-> AnyKey,
                             owner |-> NoWorker, attempts |-> 0]]
  /\ timer = [j \in JobId |-> 0]
  /\ submitted = 0
  /\ held = [w \in Worker |-> [job |-> NoJob, attempts |-> 0]]
  /\ started = [j \in JobId |-> 0]
  /\ faults = 0

(* Queue.Enqueue: a new pending row, or - the index says an active row has   *)
(* this key already - a no-op update that returns that row.                  *)
Enqueue(k) ==
  /\ \/ /\ \A j \in JobId : ~ActiveFor(k, j)
        /\ submitted < MaxJobs
        /\ submitted' = submitted + 1
        /\ row' = [row EXCEPT ![submitted + 1] =
                     [status |-> "pending", key |-> k, owner |-> NoWorker, attempts |-> 0]]
     \/ /\ \E j \in JobId : ActiveFor(k, j)
        /\ UNCHANGED <<submitted, row>>
  /\ UNCHANGED <<timer, held, started, faults>>

(* Queue.Lease: a claimable row becomes w's, whatever worker its leased_by   *)
(* still names, and doJob starts on it.  Rows are taken by created_at, but   *)
(* SKIP LOCKED passes over any that another statement has locked - a second  *)
(* Lease, a submission that conflicts - so each may be the first.  Taking an abandoned job   *)
(* from a worker that is still about to fail it - a process paused past its  *)
(* lease in the one statement it had left - is what MaxFaults bounds.        *)
AboutToBeFailed(j) ==
  \E v \in Worker : LeasedBy(j, v) /\ held[v].job = j /\ Abandoned(held[v].attempts)

Lease(w) ==
  /\ held[w].job = NoJob
  /\ \E j \in JobId :
       /\ Claimable(j)
       /\ IF AboutToBeFailed(j)
          THEN faults < MaxFaults /\ faults' = faults + 1
          ELSE UNCHANGED faults
       /\ row' = [row EXCEPT ![j].status = "leased", ![j].owner = Name(w),
                             ![j].attempts = @ + 1]
       /\ timer' = [timer EXCEPT ![j] = LeaseFor]
       /\ held' = [held EXCEPT ![w] = [job |-> j, attempts |-> row[j].attempts + 1]]
       /\ started' = IF Abandoned(row[j].attempts + 1)
                     THEN started
                     ELSE [started EXCEPT ![j] = @ + 1]
  /\ UNCHANGED submitted

(* w's doJob has returned; w is back in the lease loop.                      *)
LetGo(w) == held' = [held EXCEPT ![w] = [job |-> NoJob, attempts |-> 0]]

(* Queue.Complete by the worker doJob runs on.  No row matches when another  *)
(* worker took the job: ErrNotLeased, which complete() logs and drops.  A    *)
(* statement that commits and whose reply is lost is this action as well:    *)
(* complete() reports it as not done, and the worker lets the job go.        *)
Complete(w) ==
  LET j == held[w].job IN
  /\ j # NoJob
  /\ ~Abandoned(held[w].attempts)
  /\ IF LeasedBy(j, w)
     THEN /\ row' = [row EXCEPT ![j].status = "done", ![j].owner = NoWorker]
          /\ timer' = [timer EXCEPT ![j] = KeepFor]
     ELSE UNCHANGED <<row, timer>>
  /\ LetGo(w)
  /\ UNCHANGED <<submitted, started, faults>>

(* Queue.Fail: terminal once attempts has reached the cap, else pending      *)
(* until the backoff is over.  The cap is read against the ROW's attempts.   *)
FailWith(w, maxAttempts) ==
  LET j == held[w].job
      terminal == row[j].attempts >= maxAttempts
  IN
  /\ j # NoJob
  /\ IF LeasedBy(j, w)
     THEN /\ row' = [row EXCEPT ![j].status = IF terminal THEN "failed" ELSE "pending",
                                ![j].owner = NoWorker]
          /\ timer' = [timer EXCEPT ![j] = IF terminal THEN KeepFor
                                           ELSE RetryDelay(row[j].attempts)]
     ELSE UNCHANGED <<row, timer>>
  /\ LetGo(w)
  /\ UNCHANGED <<submitted, started, faults>>

(* indexer.fail: an error a retry may cure, against the attempt budget.      *)
Fail(w) == ~Abandoned(held[w].attempts) /\ FailWith(w, Tries)

(* indexer.failFinally: an abandoned job, a commit-sha ref, a refused or an  *)
(* oversized repository.  A cap of 0 makes Fail terminal.                    *)
FailFinally(w) == FailWith(w, 0)

(* The process is killed, or the write that should have ended the job does   *)
(* not land: the row stays leased until the lease runs out.  While it works  *)
(* on a job a worker may be killed every time (a job that kills its          *)
(* indexer); between the abandonment check and the Fail that follows it,     *)
(* MaxFaults times.  A rebooted worker has a new id; reusing the old one     *)
(* here is the same, because only a worker that still holds the job in       *)
(* memory ever names it.                                                     *)
Vanish(w) ==
  /\ held[w].job # NoJob
  /\ \/ ~Abandoned(held[w].attempts) /\ UNCHANGED faults
     \/ Abandoned(held[w].attempts) /\ faults < MaxFaults /\ faults' = faults + 1
  /\ LetGo(w)
  /\ UNCHANGED <<row, timer, submitted, started>>

(* Queue.Sweep, from the lease loop of a worker between jobs: every terminal *)
(* row that stopped changing more than KeepFor ago goes, in one DELETE.      *)
Sweep(w) ==
  /\ held[w].job = NoJob
  /\ \E j \in JobId : Sweepable(j)
  /\ row' = [j \in JobId |-> IF Sweepable(j) THEN [row[j] EXCEPT !.status = "swept"]
                             ELSE row[j]]
  /\ UNCHANGED <<timer, submitted, held, started, faults>>

Tick ==
  /\ \E j \in JobId : timer[j] > 0
  /\ timer' = [j \in JobId |-> IF timer[j] > 0 THEN timer[j] - 1 ELSE 0]
  /\ UNCHANGED <<row, submitted, held, started, faults>>

Step(w) == Lease(w) \/ Complete(w) \/ Fail(w) \/ FailFinally(w)

Next ==
  \/ \E k \in Key : Enqueue(k)
  \/ \E w \in Worker : Step(w) \/ Vanish(w) \/ Sweep(w)
  \/ Tick

Spec == Init /\ [][Next]_vars

(* Time passes, and an indexer keeps polling and ends the jobs it runs: every *)
(* stage of doJob is under a deadline.  Enqueue and Sweep owe nothing.       *)
Fairness ==
  /\ WF_vars(Tick)
  /\ \A w \in Worker : WF_vars(Step(w))

FairSpec == Spec /\ Fairness

-----------------------------------------------------------------------------
TypeOK ==
  /\ row \in [JobId -> [status : Status, key : Key, owner : Worker \cup {NoWorker},
                        attempts : Nat]]
  /\ timer \in [JobId -> Nat]
  /\ submitted \in 0..MaxJobs
  /\ held \in [Worker -> [job : JobId \cup {NoJob}, attempts : Nat]]
  /\ started \in [JobId -> Nat]
  /\ faults \in 0..MaxFaults

(* Two submissions of one repository and ref are never two jobs at once:     *)
(* jobs_active_idx holds across Enqueue, retry, reclaim and verdict          *)
(* (jobs.go:83-107, migration 0005).                                         *)
OneActivePerKey ==
  \A i, j \in JobId :
    (row[i].status \in Active /\ row[j].status \in Active /\ row[i].key = row[j].key)
      => i = j

(* A worker whose name is on a row in the table is running that row's LATEST *)
(* attempt.  Complete and Fail authorise on leased_by and never compare      *)
(* attempts; this is why that is enough, and it is what a shared worker id   *)
(* would break (jobs.go:115-118, 147-153, main.go:338-346).                  *)
OwnerIsLatest ==
  \A w \in Worker : \A j \in JobId :
    (held[w].job = j /\ LeasedBy(j, w)) => held[w].attempts = row[j].attempts

(* A repository is cloned and indexed for one job at most MAX_ATTEMPTS       *)
(* times, however many workers die or lose their lease on it                 *)
(* (main.go:502-509).                                                        *)
StartsBounded == \A j \in JobId : started[j] <= Tries

(* A verdict - done, failed or back to pending - is only ever that of the    *)
(* worker of the latest lease: a worker whose job was reclaimed can neither  *)
(* finish it nor requeue it under its successor (jobs.go:147-180).           *)
VerdictOfLatestLease ==
  [][\A j \in JobId :
       (row[j].status = "leased" /\ row'[j].status # "leased")
         => \E w \in Worker : /\ held[w] = [job |-> j, attempts |-> row[j].attempts]
                              /\ held'[w].job = NoJob]_vars

(* A job that ended stays as it ended until it is swept, and it is swept     *)
(* only after the full history window: a caller can read its outcome for     *)
(* that long (jobs.go:202-221).                                              *)
TerminalIsKept ==
  [][\A j \in JobId : row[j].status \in Terminal =>
       \/ row'[j] = row[j] /\ timer'[j] \in {timer[j], timer[j] - 1}
       \/ row'[j].status = "swept" /\ timer[j] = 0]_vars

(* Every submitted job ends, even one that kills each worker that runs it:   *)
(* the expired lease is claimed again, attempts climbs, and the abandonment  *)
(* check ends it (main.go:502-509).                                          *)
EveryJobEnds ==
  \A j \in JobId : (row[j].status \in Active) ~> (row[j].status \in Terminal)

-----------------------------------------------------------------------------
(* What a row means to a submitter.                                          *)
LifeOf(status) ==
  IF status = "unused" THEN "new"
  ELSE IF status \in Active THEN "open"
  ELSE IF status = "swept" THEN "forgotten"
  ELSE status

Lifecycle == INSTANCE JobLifecycle WITH
  Nobody <- NoWorker,
  state  <- [j \in JobId |-> LifeOf(row[j].status)],
  keyOf  <- [j \in JobId |-> row[j].key],
  hands  <- [j \in JobId |-> row[j].owner]

(* The queue implements the job lifecycle a submitter and a worker rely on:  *)
(* every statement of jobs.go is one step of JobLifecycle, or none.          *)
ImplementsLifecycle == Lifecycle!Spec

=============================================================================
