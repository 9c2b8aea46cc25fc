------------------------------- MODULE Indexer -------------------------------
(***************************************************************************)
(* The indexing pipeline: indexer.doJob (apps/indexer/cmd/main.go) on top  *)
(* of the job queue and the store's repositories.  A job writes in three   *)
(* transactions - PutRepo, PutSpans, PutGraph - and then closes its row;   *)
(* between any two of them the process can die, the lease can run out and  *)
(* another worker can be running the same repository, because two refs of  *)
(* one repository are two jobs and may be one commit.                      *)
(*                                                                         *)
(* Every step that touches the jobs table is an action of JobQueue, so the *)
(* pipeline is a JobQueue whose workers' verdicts have reasons             *)
(* (ImplementsQueue).  repos.last_queried_at is modelled by the order of   *)
(* lru, most recent first; a repository is in the corpus iff it is in lru. *)
(*                                                                         *)
(* The two DELETEs on repos choose their rows from the snapshot the        *)
(* statement starts with and delete them later: at READ COMMITTED, spans   *)
(* another worker commits in between do not make the row worth keeping.    *)
(* The other writes are one step, at their commit: two PutSpans of one     *)
(* repository insert the same ids, so the later one's rows replace the     *)
(* earlier one's (workers chunk alike; see the README for those that do    *)
(* not).                                                                   *)
(***************************************************************************)
EXTENDS JobQueue, Lists

CONSTANTS
  Repo,       (* repository ids: hash(remote key, commit)                     *)
  NoRepo,
  Commits,    (* Commits[k]: the repository ids the ref of key k may point to *)
  Spanless,   (* repositories none of whose files yields a span               *)
  Model,      (* embedding models workers are configured with                 *)
  NoSpans,
  ModelOf,    (* ModelOf[w]: worker w's EMBED_MODEL                           *)
  SkipClone,  (* REINDEX_SKIP_CLONE                                           *)
  KeepRepos   (* KEEP_REPOS                                                   *)

ASSUME PipelineAssumption ==
  /\ NoRepo \notin Repo /\ NoSpans \notin Model
  /\ Commits \in [Key -> SUBSET Repo] /\ Spanless \subseteq Repo
  /\ ModelOf \in [Worker -> Model]
  /\ SkipClone \in BOOLEAN
  /\ KeepRepos \in Nat \ {0}

VARIABLES
  at,       (* at[w]: the point of doJob worker w is at, and its repoID        *)
  lru,      (* the repos table, by last_queried_at DESC                        *)
  spans,    (* spans[r]: the model r's spans were embedded with, or NoSpans    *)
  graph,    (* graph[r]: "none"; "linked" to r's spans; "unlinked": a PutSpans *)
            (* has replaced the spans its symbols named                        *)
  result,   (* jobs.repo_id                                                    *)
  doomed,   (* doomed[w]: the repositories a DELETE of w has chosen            *)
  torn,     (* history: repositories whose spans were committed while a        *)
            (* DeleteEmptyRepo that had found none was executing               *)
  crossed,  (* history: workers during whose DELETE another DELETE committed   *)
  lost      (* history: workers whose repository was deleted after they had    *)
            (* written or found its spans                                      *)

storeVars == <<lru, spans, graph>>
deletes == <<doomed, torn, crossed, lost>>
pvars == <<vars, at, storeVars, result, deletes>>

Stage == {"idle", "begin", "clone", "indexed", "put", "spanned", "graphed",
          "fast", "drop", "dropping", "evict", "evicting"}

InCorpus(r) == \E i \in DOMAIN lru : lru[i] = r

(* last_queried_at of r becomes now(), with the row if it was not there.     *)
Used(r) == <<r>> \o Without(lru, {r})

Goto(w, stage, r) == at' = [at EXCEPT ![w] = [stage |-> stage, repo |-> r]]
Return(w) == Goto(w, "idle", NoRepo)
Deleting == {"dropping", "evicting"}

(* Where its spans are written, or were found.                               *)
Filled == {"spanned", "graphed", "fast"}

(* ON DELETE CASCADE from repos to spans, symbols and edges.                 *)
Cascade(gone) ==
  /\ spans' = [r \in Repo |-> IF r \in gone THEN NoSpans ELSE spans[r]]
  /\ graph' = [r \in Repo |-> IF r \in gone THEN "none" ELSE graph[r]]

(* A write of rows that reference repos(id): there is nothing to violate     *)
(* when there are no rows.                                                   *)
Referencable(r) == InCorpus(r) \/ r \in Spanless

-----------------------------------------------------------------------------
PInit ==
  /\ Init
  /\ at = [w \in Worker |-> [stage |-> "idle", repo |-> NoRepo]]
  /\ lru = <<>>
  /\ spans = [r \in Repo |-> NoSpans]
  /\ graph = [r \in Repo |-> "none"]
  /\ result = [j \in JobId |-> NoRepo]
  /\ doomed = [w \in Worker |-> {}]
  /\ torn = {} /\ crossed = {} /\ lost = {}

Submit(k) == Enqueue(k) /\ UNCHANGED <<at, storeVars, result, deletes>>

Begin(w) ==
  /\ at[w].stage = "idle"
  /\ Lease(w)
  /\ Goto(w, "begin", NoRepo)
  /\ UNCHANGED <<storeVars, result, deletes>>

(* The refusals before any network: an abandoned job, a commit-sha ref, a    *)
(* remote no retry can admit; a host that may yet be allowed and a scratch   *)
(* directory that cannot be cleared are left to the retries.                 *)
Refuse(w) ==
  /\ at[w].stage = "begin"
  /\ FailFinally(w) \/ Fail(w)
  /\ Return(w)
  /\ UNCHANGED <<storeVars, result, deletes>>

(* Mutant: fastPath does not look at the span count.                         *)
RowExists(w, r) == InCorpus(r) /\ spans[r] \in {ModelOf[w], NoSpans}

(* fastPath: the repository is in the corpus, has spans, and they are of     *)
(* this worker's model.  The three reads are one step here: the last one,    *)
(* SpanEmbedder, finds nothing unless the first two would still pass.        *)
FastHit(w, r) == InCorpus(r) /\ spans[r] # NoSpans /\ spans[r] = ModelOf[w]

(* The ref is resolved by ls-remote, without cloning, and the id it gives is *)
(* looked up in the corpus.                                                  *)
FastPath(w) ==
  /\ at[w].stage = "begin" /\ ~Abandoned(held[w].attempts)
  /\ SkipClone
  /\ \E r \in Commits[row[held[w].job].key] : FastHit(w, r) /\ Goto(w, "fast", r)
  /\ UNCHANGED <<vars, storeVars, result, deletes>>

(* No fast path: it is off, the ref did not resolve, a read failed, or it    *)
(* resolved to something not indexed in this worker's form.                  *)
ToClone(w) ==
  /\ at[w].stage = "begin" /\ ~Abandoned(held[w].attempts)
  /\ Goto(w, "clone", NoRepo)
  /\ UNCHANGED <<vars, storeVars, result, deletes>>

(* Clone, walk, read, chunk, reuse and embed: nothing is written.  The id is *)
(* that of the commit actually fetched, which the ref may have moved to.     *)
Index(w) ==
  /\ at[w].stage = "clone"
  /\ \E r \in Commits[row[held[w].job].key] : Goto(w, "indexed", r)
  /\ UNCHANGED <<vars, storeVars, result, deletes>>

(* One of those stages fails; over the size cap it fails for good.           *)
IndexFails(w) ==
  /\ at[w].stage = "clone"
  /\ FailFinally(w) \/ Fail(w)
  /\ Return(w)
  /\ UNCHANGED <<storeVars, result, deletes>>

(* Store.PutRepo: repo and files upserted, last_queried_at wound.            *)
PutRepo(w) ==
  /\ at[w].stage = "indexed"
  /\ lru' = Used(at[w].repo)
  /\ Goto(w, "put", at[w].repo)
  /\ UNCHANGED <<vars, spans, graph, result, deletes>>

(* At "put", the transaction did commit and only its reply was lost.         *)
PutRepoFails(w) ==
  /\ at[w].stage \in {"indexed", "put"}
  /\ Fail(w)
  /\ Return(w)
  /\ UNCHANGED <<storeVars, result, deletes>>

(* Store.PutSpans: r's spans are replaced in one transaction; the symbols of *)
(* an earlier graph lose the spans they named (ON DELETE SET NULL).          *)
PutSpans(w) ==
  LET r == at[w].repo IN
  /\ at[w].stage = "put"
  /\ Referencable(r)
  /\ spans' = [spans EXCEPT ![r] = IF r \in Spanless THEN NoSpans ELSE ModelOf[w]]
  /\ graph' = [graph EXCEPT ![r] = IF @ = "linked" THEN "unlinked" ELSE @]
  /\ torn' = IF \E v \in Worker : at[v].stage = "dropping" /\ r \in doomed[v]
             THEN torn \cup {r} ELSE torn
  /\ Goto(w, "spanned", r)
  /\ UNCHANGED <<vars, lru, result, doomed, crossed, lost>>

(* Store.PutGraph: r's symbols and edges are replaced in one transaction.    *)
PutGraph(w) ==
  LET r == at[w].repo IN
  /\ at[w].stage = "spanned"
  /\ Referencable(r)
  /\ graph' = [graph EXCEPT ![r] = IF InCorpus(r) THEN "linked" ELSE "none"]
  /\ Goto(w, "graphed", r)
  /\ UNCHANGED <<vars, lru, spans, result, deletes>>

(* failIndexed: PutSpans or PutGraph failed - or committed and its reply was *)
(* lost.  fail() calls the outcome terminal from the attempts the LEASE      *)
(* returned, whether or not the verdict was recorded, and only a terminal    *)
(* one goes on to drop the repository.                                       *)
FailIndexed(w) ==
  /\ at[w].stage \in {"put", "spanned", "graphed"}
  /\ Fail(w)
  /\ IF held[w].attempts >= Tries THEN Goto(w, "drop", at[w].repo) ELSE Return(w)
  /\ lost' = lost \ {w}
  /\ UNCHANGED <<storeVars, result, doomed, torn, crossed>>

(* Mutant: DeleteEmptyRepo trusts its caller.                                *)
Droppable(r) == InCorpus(r)

(* The WHERE clause of DeleteEmptyRepo.                                      *)
Empty(r) == InCorpus(r) /\ spans[r] = NoSpans

(* A DELETE on repos starts: it has chosen its rows, or found none.          *)
Choose(w, S, stage) ==
  /\ IF S = {} THEN Return(w) /\ UNCHANGED doomed
     ELSE Goto(w, stage, at[w].repo) /\ doomed' = [doomed EXCEPT ![w] = S]
  /\ UNCHANGED <<vars, storeVars, result, torn, crossed, lost>>

(* Store.DeleteEmptyRepo.                                                    *)
DropRepo(w) ==
  /\ at[w].stage = "drop"
  /\ Choose(w, {r \in {at[w].repo} : Empty(r)}, "dropping")

(* The DELETE commits: what it chose goes, whoever has written to it since.  *)
Delete(w) ==
  /\ at[w].stage \in Deleting
  /\ lru' = Without(lru, doomed[w])
  /\ Cascade(doomed[w])
  /\ doomed' = [doomed EXCEPT ![w] = {}]
  /\ crossed' = (crossed \cup {v \in Worker : at[v].stage \in Deleting}) \ {w}
  /\ lost' = lost \cup {v \in Worker : at[v].stage \in Filled /\ at[v].repo \in doomed[w]}
  /\ Return(w)
  /\ UNCHANGED <<vars, result, torn>>

(* Where doJob calls complete(): after PutGraph, or on the fast path.        *)
Closing == {"graphed", "fast"}

(* Mutant: the repository id is written whether or not the lease is held.    *)
RecordedAnyway(j, w, r) == r

(* The SET list of Complete, behind its WHERE clause.                        *)
Recorded(j, w, r) == IF LeasedBy(j, w) THEN r ELSE result[j]

(* complete(): jobs.repo_id is written with the verdict.  Eviction follows a *)
(* clone that the queue acknowledged; a lost reply or a lost lease ends the  *)
(* job without it.                                                           *)
Finish(w) ==
  LET j == held[w].job
      r == at[w].repo
  IN
  /\ at[w].stage \in Closing
  /\ Complete(w)
  /\ result' = [result EXCEPT ![j] = Recorded(j, w, r)]
  /\ \/ LeasedBy(j, w) /\ at[w].stage # "fast" /\ Goto(w, "evict", r)
     \/ Return(w)
  /\ lost' = lost \ {w}
  /\ UNCHANGED <<storeVars, doomed, torn, crossed>>

(* Mutant: OFFSET keep - 1.                                                  *)
BeyondLess(i) == i >= KeepRepos

(* ORDER BY last_queried_at DESC, id DESC OFFSET keep.                       *)
Beyond(i) == i > KeepRepos

(* Store.Evict.                                                              *)
Evict(w) ==
  /\ at[w].stage = "evict"
  /\ Choose(w, {lru[i] : i \in {n \in DOMAIN lru : Beyond(n)}}, "evicting")

(* Mutant: a worker told to stop gives its job back, whoever has it by now.  *)
CrashGivesBack(w) ==
  /\ at[w].stage = "begin"
  /\ row' = [row EXCEPT ![held[w].job].status = "pending", ![held[w].job].owner = NoWorker]
  /\ LetGo(w)
  /\ Return(w)
  /\ UNCHANGED <<timer, submitted, started, faults, storeVars, result, deletes>>

(* The process dies, or the last write of the job does not land (complete,   *)
(* recordFailure, dropRepo and evict all log that and return).               *)
Crash(w) ==
  /\ at[w].stage # "idle"
  /\ IF held[w].job = NoJob THEN UNCHANGED vars ELSE Vanish(w)
  /\ doomed' = [doomed EXCEPT ![w] = {}] /\ crossed' = crossed \ {w} /\ lost' = lost \ {w}
  /\ Return(w)
  /\ UNCHANGED <<storeVars, result, torn>>

(* A gateway read: Store.TouchRepo.                                          *)
Touch(r) ==
  /\ InCorpus(r)
  /\ lru' = Used(r)
  /\ UNCHANGED <<vars, at, spans, graph, result, deletes>>

Retire(w) ==
  /\ at[w].stage = "idle"
  /\ Sweep(w)
  /\ UNCHANGED <<at, storeVars, result, deletes>>

Pass == Tick /\ UNCHANGED <<at, storeVars, result, deletes>>

PNext ==
  \/ \E k \in Key : Submit(k)
  \/ \E w \in Worker :
       \/ Begin(w) \/ Refuse(w) \/ FastPath(w) \/ ToClone(w)
       \/ Index(w) \/ IndexFails(w) \/ PutRepo(w) \/ PutRepoFails(w)
       \/ PutSpans(w) \/ PutGraph(w) \/ FailIndexed(w) \/ DropRepo(w)
       \/ Finish(w) \/ Evict(w) \/ Delete(w) \/ Crash(w) \/ Retire(w)
  \/ \E r \in Repo : Touch(r)
  \/ Pass

PSpec == PInit /\ [][PNext]_pvars

-----------------------------------------------------------------------------
(* The pipeline is a queue in JobQueue's sense: no path through doJob ends,  *)
(* requeues or forgets a job in a way the queue's own theorems do not cover. *)
ImplementsQueue == Spec

Retrievable(r) == InCorpus(r) /\ spans[r] # NoSpans

(* A job goes done only when what it names can be retrieved - the repository *)
(* is there with its spans - or was evicted under the job: never as a        *)
(* repository that is in the corpus with nothing in it, on the fast path or  *)
(* after a clone, whatever dies, retries or runs beside it - unless a DELETE *)
(* was overtaken (main.go:610-615, 643-697, reindex.go:36-45).               *)
DoneIsRetrievable ==
  [][\A j \in JobId : (row[j].status = "leased" /\ row'[j].status = "done") =>
       \/ result'[j] \in Spanless \cup torn
       \/ result'[j] \in Repo /\ Retrievable(result'[j])
       \/ \E w \in lost : at[w].repo = result'[j] /\ held[w].job = j]_pvars

(* Only eviction takes spans away: a failed job's cleanup does not delete a  *)
(* corpus that was there when its DELETE began, though the corpus may be the *)
(* work of another job of the same commit (main.go:936-947,                  *)
(* repos.go:146-149).                                                        *)
SpansLeaveByEviction ==
  [][\A r \in Repo \ torn : (spans[r] # NoSpans /\ spans'[r] = NoSpans) =>
       \E w \in Worker : at[w].stage = "evicting" /\ r \in doomed[w]]_pvars

(* An eviction never takes the corpus below its quota, whatever is read or   *)
(* indexed between its choice and its DELETE - unless another DELETE, a      *)
(* second evictor's or a cleanup's, commits in between; the code means the   *)
(* id tiebreak to be enough for two evictors (evict.go:44-49).               *)
EvictionKeepsQuota ==
  [][\A w \in Worker : (at[w].stage = "evicting" /\ at'[w].stage = "idle") =>
       lru' = lru \/ Len(lru') >= KeepRepos \/ w \in crossed]_pvars

(* A job names a repository iff it is done (or was, before it was swept), so *)
(* the id a submitter polls out of a job is never that of a failed attempt   *)
(* (jobs.go:41-45).                                                          *)
ResultIffDone ==
  \A j \in JobId :
    /\ row[j].status = "done" => result[j] # NoRepo
    /\ row[j].status \in Active \cup {"failed", "unused"} => result[j] = NoRepo

-----------------------------------------------------------------------------
(* What the source says and the code does not do.                            *)

Working(r) == \E w \in Worker : at[w].repo = r
Awaited(r) == \E j \in JobId : row[j].status \in Active /\ r \in Commits[row[j].key]

(* main.go:931-936: a terminal failure after PutRepo would leave a           *)
(* repository with nothing retrievable behind it, listed and holding a quota *)
(* slot, and nothing else sweeps it; failIndexed exists so that none stays.  *)
NoGhosts ==
  \A r \in Repo \ Spanless : Empty(r) => Working(r) \/ Awaited(r)

=============================================================================
