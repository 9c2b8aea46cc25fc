------------------------------ MODULE Deadlines ------------------------------
(***************************************************************************)
(* The time a job has: the attempts of one job, by the contexts its stages *)
(* run under (apps/indexer/cmd/main.go: run, doJob, complete, failIndexed, *)
(* recordFailure; graph.go: runGraph).  Clone to PutSpans and the          *)
(* type-check share jobCtx; each write that closes the job has             *)
(* recordDeadline of its own; the graph's write and the eviction share a   *)
(* recordDeadline that starts when PutSpans has returned.                  *)
(*                                                                         *)
(* A stage lasts as long as the world likes and no longer than its context *)
(* lets it: time passes only up to until, and then the stage must return.  *)
(* What the stages do to the tables is Indexer; here a corpus is whether   *)
(* its spans and its graph have been written.                              *)
(***************************************************************************)
EXTENDS Naturals

CONSTANTS
  Deadline,  (* JOB_DEADLINE_SECONDS                                          *)
  Record,    (* recordDeadline                                                *)
  Spare,     (* what the lease has over Deadline: a minute                    *)
  Lead,      (* bound: from the lease to the job's context (the scratch       *)
             (* directory is cleared in between, under no context)            *)
  Overrun,   (* how long a stage outlives its context: cmd.WaitDelay, and     *)
             (* type-checking between two looks at it                         *)
  Tries      (* MAX_ATTEMPTS                                                  *)

ASSUME DeadlineAssumption ==
  /\ Deadline \in Nat \ {0} /\ Record \in Nat \ {0} /\ Tries \in Nat \ {0}
  /\ Spare \in Nat /\ Lead \in Nat /\ Overrun \in Nat
  /\ Lead + 2 * Record <= Spare
  /\ Overrun <= Record

VARIABLES
  now,      (* time since the job was last leased                             *)
  at,       (* where doJob is                                                 *)
  until,    (* when the stage at hand must have returned                      *)
  jobEnd,   (* when jobCtx expires                                            *)
  doneEnd,  (* when the context of the graph's write and the eviction does    *)
  attempt,  (* jobs.attempts                                                  *)
  status,   (* jobs.status                                                    *)
  spans,    (* PutSpans has committed                                         *)
  graph,    (* PutGraph has committed                                         *)
  hurt      (* history: a write of spans or graph did not succeed once begun, *)
            (* or the process died                                            *)

time == <<jobEnd, doneEnd>>
job == <<attempt, status>>
corpus == <<spans, graph, hurt>>
dvars == <<now, at, until, time, job, corpus>>

(* The stages that write the job's verdict.                                  *)
Closing == {"complete", "fast", "fail", "failIndexed"}
Stage == {"idle", "begin", "resolve", "index", "spans", "check", "graph",
          "blobs", "evict", "drop"} \cup Closing

(* Mutant: the lease lasts as long as the job's deadline.                    *)
BareLease == Deadline

LeaseFor == Deadline + Spare

Goto(stage, end) == at' = stage /\ until' = end
Return == Goto("idle", now)

(* Mutant: the closing writes are under the process's own context.           *)
ExpiredButClosing == now >= until /\ at \notin Closing

(* The context of the stage at hand is over.                                 *)
Expired == now >= until

(* A write that closes the job starts: context.WithTimeout(ctx,              *)
(* recordDeadline).                                                          *)
Close(stage) == Goto(stage, now + Record)

-----------------------------------------------------------------------------
DInit ==
  /\ now = 0 /\ at = "idle" /\ until = 0 /\ jobEnd = 0 /\ doneEnd = 0
  /\ attempt = 0 /\ status = "pending"
  /\ spans = FALSE /\ graph = FALSE /\ hurt = FALSE

(* Queue.Lease; attempts beyond the first abandoned one are JobQueue's.      *)
Lease ==
  /\ at = "idle" /\ attempt <= Tries
  /\ \/ status = "pending"
     \/ status = "leased" /\ now > LeaseFor
  /\ now' = 0 /\ status' = "leased" /\ attempt' = attempt + 1
  /\ Goto("begin", Lead)
  /\ UNCHANGED <<time, corpus>>

(* An abandoned job, or a refusal, or a scratch directory in the way.        *)
Refuse ==
  /\ at = "begin"
  /\ Close("fail")
  /\ UNCHANGED <<now, time, job, corpus>>

(* Mutant: the job's context lasts as long as its lease.                     *)
LeaseLong == now + LeaseFor

(* context.WithTimeout(ctx, clone.Deadline).                                 *)
JobBudget == now + Deadline

Begin ==
  /\ at = "begin" /\ attempt <= Tries
  /\ jobEnd' = JobBudget
  /\ Goto("resolve", JobBudget)
  /\ UNCHANGED <<now, doneEnd, job, corpus>>

(* The fast path, or a clone: whatever did not answer in time is a clone.    *)
Resolve ==
  /\ at = "resolve"
  /\ \/ now < jobEnd /\ spans /\ Close("fast")
     \/ Goto("index", jobEnd + Overrun)
  /\ UNCHANGED <<now, time, job, corpus>>

(* Clone, walk, read, chunk, embed, PutRepo.                                 *)
Index ==
  /\ at = "index" /\ now < jobEnd
  /\ Goto("spans", jobEnd)
  /\ UNCHANGED <<now, time, job, corpus>>

(* Mutant: the type-check is given the whole deadline again.                 *)
OwnBudget == now + Deadline

(* The type-check is on what is left of the job's context.                   *)
CheckBudget == jobEnd

PutSpans ==
  /\ at = "spans" /\ now < jobEnd
  /\ spans' = TRUE
  /\ doneEnd' = now + Record
  /\ Goto("check", CheckBudget + Overrun)
  /\ UNCHANGED <<now, jobEnd, job, graph, hurt>>

(* buildGraph returns, whatever became of the type-check, and the graph's    *)
(* write begins - if its context is not over by now.                         *)
Check ==
  /\ at = "check"
  /\ \/ now < doneEnd /\ Goto("graph", doneEnd)
     \/ now >= doneEnd /\ Close("failIndexed")
  /\ UNCHANGED <<now, time, job, corpus>>

PutGraph ==
  /\ at = "graph" /\ now < doneEnd
  /\ graph' = TRUE
  /\ Goto("blobs", jobEnd)
  /\ UNCHANGED <<now, time, job, spans, hurt>>

(* prevBlobs, on the job's context: it answers or it does not.               *)
Blobs ==
  /\ at = "blobs"
  /\ Close("complete")
  /\ UNCHANGED <<now, time, job, corpus>>

(* A stage before the spans were sent returns an error.                      *)
Fail ==
  /\ at = "index"
  /\ Close("fail")
  /\ UNCHANGED <<now, time, job, corpus>>

(* PutSpans or PutGraph returns an error: the database refused it, or did    *)
(* not answer in time, or committed it and the reply was lost.               *)
FailIndexed ==
  /\ \/ at = "spans" /\ spans' \in {spans, TRUE} /\ UNCHANGED graph
     \/ at = "graph" /\ graph' \in {graph, TRUE} /\ UNCHANGED spans
  /\ hurt' = TRUE
  /\ Close("failIndexed")
  /\ UNCHANGED <<now, time, job>>

(* Queue.Complete; only a job that was cloned goes on to evict.              *)
Complete ==
  /\ at \in {"complete", "fast"} /\ now < until
  /\ status' = "done"
  /\ IF at = "complete" THEN Goto("evict", doneEnd) ELSE Return
  /\ UNCHANGED <<now, time, attempt, corpus>>

(* fail() is terminal by the attempts the lease returned, recorded or not.   *)
AfterFailure ==
  IF at = "failIndexed" /\ attempt >= Tries THEN Close("drop") ELSE Return

(* Queue.Fail; Refuse may also have ended the job for good.                  *)
RecordFailure ==
  /\ at \in {"fail", "failIndexed"} /\ now < until
  /\ \/ status' = "failed" /\ (attempt >= Tries \/ at = "fail")
     \/ status' = "pending" /\ attempt < Tries
  /\ AfterFailure
  /\ UNCHANGED <<now, time, attempt, corpus>>

(* The closing write does not land: that is logged, and the row stays.       *)
Lost ==
  /\ at \in Closing
  /\ IF at \in {"complete", "fast"} THEN Return ELSE AfterFailure
  /\ UNCHANGED <<now, time, job, corpus>>

(* dropRepo and evict end the job whatever they answer.                      *)
Tidy ==
  /\ at \in {"drop", "evict"}
  /\ Return
  /\ UNCHANGED <<now, time, job, corpus>>

Crash ==
  /\ at # "idle"
  /\ Return
  /\ hurt' = TRUE
  /\ UNCHANGED <<now, time, job, spans, graph>>

Tick ==
  /\ \/ at # "idle" /\ now < until
     \/ at = "idle" /\ status = "leased" /\ now <= LeaseFor
  /\ now' = now + 1
  /\ UNCHANGED <<at, until, time, job, corpus>>

Work ==
  \/ Refuse \/ Begin \/ Resolve \/ Index \/ PutSpans \/ Check \/ PutGraph \/ Blobs
  \/ Fail \/ FailIndexed \/ Complete \/ RecordFailure \/ Lost \/ Tidy

DNext == Lease \/ Work \/ Crash \/ Tick

(* Time passes, and a stage whose context is over returns.                   *)
DFairness == WF_dvars(Tick) /\ WF_dvars(Expired /\ Work)

DSpec == DInit /\ [][DNext]_dvars /\ DFairness

-----------------------------------------------------------------------------
DTypeOK ==
  /\ now \in Nat /\ until \in Nat
  /\ jobEnd \in 0..(Lead + Deadline) /\ doneEnd \in 0..(Lead + Deadline + Record)
  /\ at \in Stage /\ attempt \in 0..(Tries + 1)
  /\ status \in {"pending", "leased", "done", "failed"}
  /\ spans \in BOOLEAN /\ graph \in BOOLEAN /\ hurt \in BOOLEAN

(* A job is not handed to a second worker while the first is working on it:  *)
(* until its verdict is written or given up, however slow each stage and     *)
(* each closing write, the lease has not run out (main.go:432-437).          *)
LeaseOutlastsWork ==
  status = "leased" /\ at \notin {"idle", "drop"} => now <= LeaseFor

(* No job holds its worker longer than the deadline and three closing        *)
(* writes, although none of those writes is under the job's context          *)
(* (main.go:910-915, 957-959).                                               *)
FreedInTime == at # "idle" => now <= Lead + Deadline + 3 * Record

(* A worker comes back from every job, also when nothing outside it answers  *)
(* any more: every stage is under a context that ends (main.go:910-912).     *)
WorkerFreed == at # "idle" ~> at = "idle"

-----------------------------------------------------------------------------
(* What the source says and the code does not do.                            *)

(* graph.go:47-54 and main_test.go:1663-1667: a slow type-check must not     *)
(* fail the write of the graph, and what can still fail a job there is a     *)
(* database that is not answering.  reindex.go:33-34: the fast path          *)
(* completes a job on what this worker would produce.  So a job is done      *)
(* without a graph only if the database or the process failed it.            *)
GraphUnlessHurt == status = "done" => graph \/ hurt

=============================================================================
