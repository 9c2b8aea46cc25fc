# codetrail: formal models

TLA+ models of codetrail's core: the indexing queue, the pipeline that turns a
submitted repository into a retrievable corpus, the spans, vectors and symbol graph it
makes of a checkout, the read routes over a corpus that writers and evictors change
under them, the answering loop with the budgets it runs under, and how the processes
boot, migrate the schema, answer readiness probes and stop.  TLC checks them on small
instances; TLAPS proves their safety properties for every value of the constants, liveness
aside.

Run a model with `tlc -config X.cfg M` and the proofs with `tlapm M_proofs.tla`.

## 1. The system

codetrail indexes git repositories on request and answers questions about them
with citations.  Three processes share one Postgres database and call nobody
but it, the forges and the model providers.

| Component | State | Operations | Interacts through |
|---|---|---|---|
| gateway (`apps/gateway`) | token budget and semaphore of the ask loop, in memory of one process | submit, poll, list, read, search, ask | inserts `jobs`, reads the corpus, winds `repos.last_queried_at` |
| indexer (`apps/indexer`) | the job in hand, a scratch directory, a worker id made at boot | lease, clone, walk, chunk, embed, write, type-check, complete or fail, evict, sweep | `jobs`, the corpus tables |
| queue (`packages/shared/jobs`) | table `jobs` | Enqueue, Lease, Complete, Fail, Sweep, Get: one SQL statement each | - |
| store (`packages/shared/store`) | tables `repos`, `files`, `spans`, `symbols`, `edges`, `evicted_repos` | PutRepo, PutSpans, PutGraph, DeleteEmptyRepo, Evict, TouchRepo and the reads | foreign keys: cascade from `repos`, `SET NULL` from spans to symbols |
| agent, rag (`packages/shared/agent`, `rag`) | a transcript, counters of one request | retrieve, fuse, decide, a bounded tool loop, resolve citations | store reads, the LLM client |
| chunk, walk, symbols (`packages/shared`) | none | list a checkout, strip and cut its files, parse and type-check them | functions of a checkout, called by the indexer |
| boot and readiness (both `main.go`, `health`, `config`, `store.New`) | the migrations ledger, a cached answer, the scratch volume indexers share | read settings, connect, migrate, sweep, probe, drain | an advisory lock, directories and their mtimes |
| evalrunner, console, infra | none worth modelling | batch measurement, a front end, a static plan check | - |

What is hard: every queue operation is atomic, but a worker acts on a job for
minutes between two of them, so its lease can run out, its process can die, and
a second worker can be working the same job or another job of the same commit;
a job writes in three transactions and closes its row in a fourth; both DELETEs
on `repos` choose their rows from a snapshot; reads and writes move the LRU
order under an eviction; budgets are checked before a call and charged after; what
links symbols to spans joins two views of a file that were cut by different rules; and
every process boots against a database and a volume others are using.

What makes each part correct:

- queue: one active job per key; the verdict of a job is that of its latest
  lease; bounded attempts; every job ends; outcomes are kept for the window.
- pipeline: a done job names something retrievable; no exit of doJob treats the
  row in a way the queue does not allow; failed jobs neither leave debris nor
  remove what others wrote.
- corpus: the quota bounds it from above and eviction never overshoots; the latest
  evictions are remembered; a symbol's span link names a span or nothing.
- reads: a reply is true of the repository at some point of the request, although
  each is half a dozen statements outside any transaction; vectors are compared
  within one model; nothing the floor refused is answered by a detour.
- content: every line worth retrieving is in a span and nothing else is; a span's
  vector is of its own text, wherever it came from.
- graph: a symbol is cited by its own code; callers are the nearest there are; no call
  of a symbol goes unmentioned.
- boot: each migration runs once, in order; no live checkout is judged abandoned;
  readiness is no older than it may be; every boot and every stop ends.
- ask: no hour costs more than its allowance however requests overlap and
  settle; slots and reservations come back whatever ends a request.
- agent: no ceiling is passed by any sequence of replies, mistakes and failures;
  an answer cites only what this loop read; the loop returns.

## 2. The modules

| Module | What it is | Code |
|---|---|---|
| `JobLifecycle` | abstract specification: what a submitter and a worker rely on | - |
| `JobQueue` | the queue and the worker loop around it, with time, crashes and lost leases | `jobs.go`, `main.go` (run, complete, fail, failFinally, recordFailure, sweepJobs), migrations 0003 and 0005 |
| `Indexer` | doJob stage by stage, over `JobQueue` and the corpus tables | `main.go` (doJob, failIndexed, complete), `reindex.go` (fastPath), `repos.go`, `spans.go`, `graph.go`, `evict.go` |
| `Indexer_proofs` | the theorems of `JobQueue` and `Indexer` | - |
| `Corpus` | the tables readers read and every statement that changes them, PutSpans as two steps | `repos.go`, `spans.go`, `graph.go`, `evict.go`, migrations 0001, 0009 and 0010 |
| `Reads` | the gateway's read routes, one action per statement | `handler/read.go`, `handler/graph.go`, `search.go`, `graph_read.go`, `retrieve.go`, `decide.go` |
| `Reads_proofs` | the theorems of `Corpus` and `Reads` | - |
| `Deadlines` | the contexts the stages of doJob run under, and the lease, against time | `main.go` (run, doJob, complete, fail, failIndexed, recordFailure), `graph.go` (runGraph) |
| `Deadlines_proofs` | its theorem | - |
| `Content` | from a checkout to spans with vectors: walk, index, chunk, strip, reuse, embed | `walk.go`, `chunk/*.go`, `main.go` (index, embedAll), `reindex.go` (reuse), `reuse.go` |
| `Graph` | symbols and edges over what `Content` cut | indexer `graph.go` (buildGraph, spanFor), `symbols/*.go` |
| `Callers` | "who calls this" over that graph, one round of the recursion at a time | `graph_read.go`, handler `graph.go`, `tools.go` (callersOf) |
| `Callers_proofs` | the theorems of `Content`, `Graph` and `Callers` | - |
| `Boot` | the processes around their work | both `main.go`, `store.go`, `health.go`, `fromenv.go`, `config.go` |
| `Boot_proofs` | its theorems | - |
| `Spender` | abstract specification: what the hourly budget relies on about one loop | `bounds.go`, `agent.go` (spend) |
| `AgentLoop` | one run of the answering loop against any model, provider and database | `agent.go`, `tools.go`, `cite.go`, `trace.go` |
| `AgentLoop_proofs` | its theorems | - |
| `AskBudget` | concurrent requests through the semaphore and the rolling-hour allowance; each loop is a `Spender` | `handler/ask.go` |
| `AskBudget_proofs` | its theorems | - |
| `Lists` | tables read in an order, and what a DELETE or a WHERE leaves of one | `evict.go`, `reuse.go` |
| `Lists_proofs` | lemmas on lists and on least numbers the other proofs share | - |
| `MCJobQueue`, `MCIndexer`, `MCDeadlines`, `MCReads`, `MCAgentLoop`, `MCAskBudget`, `MCContent`, `MCBoot` | the instances TLC checks | - |

`Indexer` EXTENDS `JobQueue`, which implements `JobLifecycle`, and `Lists`.  `Callers` EXTENDS
`Graph`, which EXTENDS `Content`: one behaviour goes from a checkout to the answer of a
question about it; in `Indexer` the same work is the one step between clone and put.  `Reads` EXTENDS
`Corpus` and implements it (`ReadersAreHarmless`).  `Indexer` and `Corpus` model the
same statements for two questions: `Indexer` who issues them and in which order,
`Corpus` what a reader can meet in between, so it lets them come in any order; what
an indexer has done before it issues one restricts only `Indexer`.  `AgentLoop`
implements `Spender`, and `AskBudget` is written against `Spender`: the two meet
at the one thing the handler uses of the loop, the tokens its trace reports.

### JobQueue

`row` is the table; `timer[j]` is the distance to the next time condition the
code asks of row j (`leased_until < now()` while active, the retention window
once terminal), so time needs no clock and the state space stays finite.
`held[w]` is the `jobs.Job` in the memory of worker w: what `Lease` returned,
which the row may have moved on from.  `started` is a history variable.

Enqueue, Lease, Complete, FailWith (Fail and FailFinally) and Sweep are the five
statements of `jobs.go`.  `SKIP LOCKED` makes "the oldest claimable row" mean the
oldest that no other statement has locked, so Lease may take any claimable one.
Vanish is the death of a process, and equally a final write that does not land:
`complete` and `recordFailure` log that and return, and the row stays leased.  A
rebooted worker gets a new id; the model reuses the old one, which is the same
because only a worker that holds a job in memory ever names it to the queue.

### Indexer

`at[w]` is where worker w is in doJob.  Each action that ends a job contains
the JobQueue action it calls, so the module EXTENDS JobQueue and `PNext`
implements its `Next` (`ImplementsQueue`).  `lru` is the repos table ordered by
`last_queried_at`; `spans[r]` the model r's spans were embedded with, if any;
`graph[r]` whether it has symbols, and whether they still name its spans;
`result[j]` is `jobs.repo_id`.

`DeleteEmptyRepo` and `Evict` are two steps each - the statement's snapshot
chooses (`Choose`), the rows go later (`Delete`) - because at READ COMMITTED
nothing makes Postgres look at the spans again in between.  `torn` records the
repositories whose spans were committed inside that window: the properties say
exactly what is still guaranteed when it happens: the DELETE of a failed job's cleanup
can take spans that another job of the same commit committed while it ran, although it is
"guarded on the span count in SQL" (repos.go:145-148).  PutRepo, PutSpans and PutGraph are one step, at their commit.
Two PutSpans of one repository replace one another, since span ids are hashes of
path, lines and digest and workers that chunk alike insert the same ids; workers
that chunk differently are in `Corpus`.

`DoneIsRetrievable` is about the moment of the verdict: between the writes and it the
repository can be evicted by another worker, and a job is then done with a result that is
gone already, as the code accepts (a later read says so from `evicted_repos`).  `lost` is a
history of the workers to whom that happened, and the property excuses no others.

Evict orders rows by `last_queried_at` with the id as a tiebreak, which is said to
keep two indexers evicting at once from deleting different rows (evict.go:44-49).
Ties do not exist in the model, and two evictions with a touch between their
snapshots choose different rows anyway: `crossed` records the evictions inside which
another DELETE on `repos` committed, and `EvictionKeepsQuota` promises the quota for the
others only.

### Deadlines

`Indexer` says what a job leaves behind, `Deadlines` how long it takes.  `now` counts
from the lease; `until` is when the stage at hand must have returned, because its
context is over (`jobEnd`, `doneEnd`, or the 30 s of a closing write) or, for the clone
and the type-check, `Overrun` later: `cmd.WaitDelay` holds a killed git for 5 s, and
in-process type-checking looks at the context only now and then.  `Tick` stops at
`until`, so a stage may take any time up to it and none beyond.  `DFairness` says that
time passes and that a stage whose context is over returns; nothing obliges a stage to
return earlier, so `WorkerFreed` holds by the deadlines alone.

The spare minute of the lease is exactly the graph's write and the verdict's
(`Lead + 2 * Record <= Spare`), so the guarantee has no slack: it holds if no time
passes between the lease and the job's context, in which the scratch directory of an
earlier attempt is removed.  `drop` is after the verdict and may outlast the lease; by
then the job is out of attempts and whoever leases it only fails it.

The context of the graph's write starts before the type-check.  `slow_typecheck` shows
what follows: an attempt whose type-check takes more than 30 s fails with a database
that answered everything, and the next one finds the spans, takes the fast path and
ends the job done with no graph.  With the fast path off every attempt fails.  The
eviction of a job that got through shares that context, and may be skipped.

### Corpus

`lru` and `tombs` are `repos` and `evicted_repos` in the order Evict reads them.  A
repository's spans are rows `[ids, model]`: the ids its files were chunked to and the
embedder's name, one row for each chunking present.  `linked[r]` is what the
`span_id` column of r's symbols holds, one row standing for all.  PutSpans is two
steps: BeginSpans is its DELETE, with the rows that statement sees, and CommitSpans
its inserts and commit, with what is left of what it saw (`Unseen` takes away what
others deleted or wrote anew, as the row locks do) and `ON DELETE SET NULL` on the
symbols (`Unlinked`).  Evict is the first statement of the function of that name, in
one step: the window inside its DELETE is `Indexer`'s subject.  The second, the trim of
the tombstones, is two steps for each of the indexers that may be in it: BeginTrim is its
subquery, EndTrim its DELETE, which takes the rows of the ids that were chosen as they are
by then; AbortTrim is an error or a crash.  A trim may begin at any time, since an indexer
with nothing to evict trims too.  Evictions are ordered by their commit; `evicted_at` is
the start of the transaction, which is the same when they do not overlap.

`latest` is a history of the evictions worth remembering, `renewed` one of the tombstones
a trim under way has chosen and an eviction has written again since.  Those the trim
deletes although they are the newest there are: a repository indexed and evicted again
while another indexer trims its old tombstone is answered 404, where evict.go:15-28 has
the row refreshed so that it be 410.  `LatestRemembered` makes that one exception - EndTrim
takes from `latest` what it took of `renewed` - and is violated without it.

### Reads

`at[q]` is the next statement of request q.  Routes share steps as they share
helpers: lookupRepo is GetRepo then RepoGone, every route but a refusal ends in
Newer and the touch, and the citer runs for `symbol` and `callers`.  `Failing` are the
steps where an error is a 500: a failed touch is dropped (`WindClock`), a failed loop
degrades (`Answerer`), a failed query for approximate callers is reported in its
block (`Approximate`).  Retrieval is in hybrid mode, the default.  The loop itself is
`AgentLoop`, behind `AskBudget`: here it ends in an answer or in something else.
`saw` and `rewritten` are histories: what an observer of the whole request saw of its
repository, and whether its spans were changed.  The properties are stated with them,
because no reply of several statements can be true of every moment of its request.

404 is the weakest of the replies: a repository that was gone when `repos` was read
and indexed again before its tombstone was read is answered 404, which was true at no
time (`RepliesWereTrue` says so: "gone" and "held" seen, "unknown" not).

### AgentLoop

The variables are the locals of `loop`, the counters of `Trace` and the position
in `run` and `dispatch` (`stage`).  The environment is unrestricted: any reply
(text with any markers, a batch of tool calls, a truncated reply), any provider
error, any outcome of a query, and a context that may expire at any moment.
Data is reduced to what the loop decides on.  `size` is `EstimateRequest` of the
transcript, which grows by some amount each turn.  A tool call is its tool, what it
asks, and how it is put, in two parts: `written` is white space and the order of keys,
which `repeatKey` normalises, and `spelling` the JSON value itself, which it does not.
The repeat guard is there so that one span does not come to be at two positions of Read,
cited twice under one id (agent.go:249-262, and a test of it for white space).  Two values that
decode alike get past it all the same: a key in another case, which `encoding/json` takes
for the field (any tool); white space around the `q` that search_code trims after the call
was keyed (tools.go:145); a `pkg`, `suffix` or `depth` spelled out as what its absence
means (tools.go:217-229, 249-252).  `AskedOnce` therefore says of a question in one
spelling that it reaches the database once, and of a span at two positions that it was
asked for in two: `read_span` does then serve it, charge it and list it twice, and the
instance has such states.  A question here is what a call asks, so callers_of's two queries are
one; that it asks for approximate callers again when only the depth differs is no repeat.
Reported usage may exceed the
estimate it was admitted on by `Overshoot` per call, because the provider counts
and the loop only estimates: so the published worst case, MaxInputTokens +
MaxOutputTokens, is met only up to that error (`SpendBounded`).  `served` is a
history of the questions the database was asked.

`tool_error` is what any failed query ends the loop with, the loop's own expired
context included, although its comment reads it as the database failing
(agent.go:37-38); no property distinguishes the two, as the code does not.

### AskBudget

`total`, `reserved` and `past` are `budget.total`, `budget.reserved` and
`budget.spent`; entries with one settlement time are one bucket, and time is kept
as ages (bucket a was settled a ticks ago) so that the state space is finite
without a bound on time.  `prune` runs inside `Allow` and `Settle`, and in
`Release` for the gauge, as in the code, and nothing else drops old entries; the last bucket is everything that is
due.  Enter, Allow, Return, Settle and Release are the lines of `Loop.Ask`, each
atomic because each is one channel operation or one critical section; Call is a
model call inside the loop.  `covered` is a history of when tokens were spent,
which the code does not know: it sees them at settlement.  `Slack` lets a loop
overshoot.  The ceiling is about what is settled:
a call that fails after the provider billed it reports no usage (agent.go:160) and is in
no total.  A loop that panics is not modelled: its deferred settlement counts no tokens
at all, the same gap in a rarer case.

### Content

A run of `Content` is one attempt of a job at one checkout, from `walk.Files` to the
return of `index`; which checkouts and settings is the constant `Jobs`.  A line is its
class: no letter or digit ("blank"), prose of a doc comment, or code.  A text is its
lines and its own digest, so "the vector of its own text" can be said.  A Go file comes
with its declarations, as `chunk.Decl` and `symbols.Parse` both see them: `from` counts
the doc comment, `bare` is where the declaration starts once `StripDocs` has blanked it
(directives stay), a line with its keyword or a directive on it, `at` is the line of its
name.  Every exit of the loop over the files is
an action (Vanished, PassOver, Open), every region is cut by Whole or by Tile and then
Window after Window, and Fail ends the attempt wherever the code returns an error.

`Corpora` is what the spans table may hold of other repositories: for a text, rows in the
order of their ids, with the model they name and whether the vector has the width their
column says.  A `Checkout` names each path once, and a call's callee is a declaration the
checkout has, or `Elsewhere`.  `Lookup` is the statement's WHERE; a first row of another width fails the
read, and a failed read reuses nothing.

### Graph

`buildGraph` reads `parsed`, which is made from the raw bytes, and `spans`, which are cut
from the stripped ones.  `MostSpecific`, `FirstOverlapping` and `SpanFor` are the three
helpers; where two containers have the same lines the code takes the smaller id, a hash,
so the model takes either.  `Resolve` picks any subset of the calls a type-check could
name, which covers no toolchain, no go.mod, a timeout, the switch, and packages that did
not load.

`CitesItself` has one exception, which is the code's: in windows of a stripped file the
first line of a symbol's blanked comment may be all that the chosen window holds of it, and
its citation then shows lines before the declaration.  The instances have no comment that
opens with a bare `/*`; where such a line ends a window with no overlap, it is all that the
chosen window holds of the symbol in a file that is not stripped too, and the property is
false (TLC finds it at once when the instances are given such a comment).  Hence the second
hypothesis of `CitedByItsOwn`, `StartsInWords`: in files cut into windows and not stripped,
the first line of a declaration with its comment has a word on it.  Cut along declarations,
the default, the property needs no such thing.

A declaration is found again by the line it starts at (the tail of an edge) or by a line
it contains (its head), so declarations that share lines are mistaken for one another.  gofmt
leaves no two on one line, and `ResolvedMeansThis` - "a resolved edge means this exact
symbol" - is proved of checkouts where that holds (`OneALine`).  Where it does not, it is
false: of two functions on one line that call one another, the smaller id is the target of
both calls (graph.go:160).  The instances keep apart the declarations that have calls.

### Callers

`work` is the rows of the last round of the recursive term of `callersSQL`, `walked` all
of them, `Nearest` and `Grouped` the aggregation, `Firsts` the LIMIT: the order behind the
depth is by path and id, so among equally near callers the model takes any.  `Cancelled`
is the server's statement timeout.  `Calls` and `Chain`, which `NearestCallers` is stated
with, are read off the call sites and not off the edges, so an edge with a wrong tail or
target is caught here too.

The route says when a set was clipped; the tool asks for `MaxCallers` and cannot tell.  The
tool also hands the symbol's id to the query that compares names: `agent_callers`.

### Boot

`pc[p]` is where a process is, from its settings to its end; a process boots once, and
its successor is another one.  The indexer reads its settings first and then connects,
the gateway the other way round, as their `main`s do.  `ledger` is `schema_migrations`;
`plan` and `done` are a transaction in hand, which Exit and Kill roll back together with
its lock.  Free is the advisory lock: `pg_advisory_xact_lock` excludes everybody between
Lock and the end of that transaction.

`tree[i]` is the age of the mtime of worker i's scratch directory, `job[i]` of its
checkout; Begin and End stamp it, as making and removing a directory inside does.
`sweepStale` reads the directory, then looks at each entry (Look) and removes it in a
later step (Remove, which may fail).  `SweepsNoLiveJob` is about the judgement.  Between
it and the removal a tree whose owner sat idle for two deadlines can get a new checkout,
which then goes with it: the model has that behaviour, and the comment that "inside the
window a peer's in-flight clone is untouchable" (main.go:304-311) does not cover it.

Readiness is two fields and a check of the dependencies in order, which takes time
(Probe, Ask), while Flip lets each fail and recover at any moment.  `since` is the age of
a dependency's last change: what `ReadyIsRecent` compares an answer with.

## 3. The runs

| Run | Instance | Shows |
|---|---|---|
| `queue` | 3 jobs, 2 keys, 2 workers, 2 attempts, lease 2, backoff 1-2, weak fairness | types (no retry in the past), dedupe, ownership, bounded attempts, verdicts, retention; every job ends; refinement of JobLifecycle |
| `pipeline` | 2 jobs, 2 refs that may be one commit, 2 workers with different models, one repository without spans, a quota of 1, reads at any moment | done is retrievable, results come with verdicts, cleanup spares corpora, eviction stops at the quota, the queue is used as specified |
| `ghost_repo` | 1 worker, 1 job | **violated**: a terminal failure leaves a repository with no spans |
| `deadlines` | ticks of 15 s: a deadline of 5, writes of 2, a lease of 9, an overrun of 1; 2 attempts and an abandoned one | the lease outlasts the verdict; a worker is always free again |
| `slow_typecheck` | the same | **violated**: a slow type-check costs the attempt and then, by the fast path, the graph |
| `reads` | 1 request of any route, 2 overlapping PutSpans that chunk and embed differently, 2 repositories, quota and tombstones of 1, 1 trim under way while others evict | links resolve, the latest eviction is remembered, replies are true, rankings and citations go wrong only under a rewrite, answers are grounded |
| `mixed_spans` | the same | **violated**: two overlapping PutSpans leave both sets of spans |
| `agent_loop` | 3 turns, 3 calls, batches of 2, 1 mistake, 1 repeat, 2 spans, one longer than the character budget, 2 spellings of every question | ceilings, citations, the repeat guard, the character budget; the loop implements `Spender`, so it returns |
| `ask_budget` | 3 requests, 2 slots, a limit of 5 against worst cases of 2, an overshoot of 1, a window of 2 ticks | slots, reservations, the running total, the hourly ceiling; every slot is given back |
| `content` | 64 texts of 1 to 7 lines under 10 windows; 768 Go files of two declarations; links, big files, one file too many; 64 call graphs over two files, any part resolved; depths 1-3, limits 1 and 3 | windows tile, spans match the source, vectors are their own text's, symbols cite themselves, callers are the nearest, no call is unaccounted for |
| `agent_callers` | the call graphs only | **violated**: `callers_of` tells the model of no unresolved call |
| `boot` | a gateway and two indexers of two releases, 9 environments, a deadline of 1 tick, jobs of up to 2, a window of 3, a TTL of 1 | migrations once and in order, readiness as old as it may be, no live job judged stale; every boot and stop ends |

Bounds.  `MaxJobs` bounds rows ever inserted: two for one key is what dedupe and
re-submission need, a third gives retention and order something to choose from.
Two workers are enough for a stale holder and its successor.  Two attempts give
a first, a retried and an abandoned one.  Durations of 0-2 ticks give "not yet"
and "already" in every combination; `LeaseFor` must be positive.  `MaxFaults`
bounds only how often failing an *abandoned* job fails itself: with no bound a
job could be leased for ever, attempts growing.  The loop's ceilings are its own bounds; `MaxBatch`, `Growth` and
`Overshoot` bound the environment: a batch of 2 crosses the call ceiling in its
middle, and budgets of 5 and 2 tokens bind before and after the turn ceiling.
Three requests for two slots make one find the semaphore full; a limit of 5 admits
two reservations of 2 and not the third; a window of 2 ticks separates fresh,
ageing and due entries.  One request at a time is enough in `reads`: requests do not
read one another's state, and all they write is the LRU clock, which the environment
also winds; that any number is safe is proved, as it is for trims, of which one is
enough to have an eviction inside it.  `TrimsEarly` keeps it from being under way once the
request has looked for a tombstone, after which nothing of the request reads that table.  Its second repository is never asked
about and has no spans: it is what evicts the first.  The corpus stands still once the
request has its reply.  In `content` six lines are more than two windows of any size up to 4 with any overlap, and
seven give a third stride; two declarations of up to 4 lines under up to 3 of documentation
put a start in, before and after any window, on both sides of the longest declaration; two
files of two declarations carry a cycle, a self-call, two ways of different length to one
caller and one name for two callees.  In `boot` two indexers are a sweeper and a peer, the
gateway has the second dependency, and every age is kept one past the last value it is
compared with.  Deadlock is not checked for the queue, the pipeline, the
deadlines, the reads, the loop, the content and the boots: an instance stops when its jobs
are submitted, ended and swept, its request served, its question answered, its processes
gone, or the loop has returned.  The budget never stops.

Fairness.  In `queue`: time passes, and each worker keeps leasing and
giving verdicts (run() never stops before its context does, and every stage of a
job is under a deadline).  Submission, sweeping and dying owe nothing.
In `deadlines`: time passes, and a stage whose context is over returns; a stage whose
context is not over owes nothing, so nothing outside the worker is assumed to answer.
In `agent_loop`: the loop takes its next step, weakly fair, since it is one
goroutine and each model and tool call it makes is under its context's deadline.
In `ask_budget`: each request's goroutine runs on, and its loop returns, which is
what `ImplementsSpender` shows of the loop; spending and the clock owe nothing, so
a loop may return without having spent anything.
In `boot`: a process goes on with what it does unasked (`Advance`), its timeouts included.
Nothing says that the lock is granted, that a migration's statement returns or that a
dependency answers, so `BootsAndStops` holds by `migrateTimeout` and by the refusals to
boot; nothing obliges a process to be told to stop.

## 4. What is proved

Each of the following is a theorem for every value of the constants its module declares.

**The queue** (`Indexer_proofs`): `TypeOK`, `OneActivePerKey`, `OwnerIsLatest`,
`StartsBounded`, the action properties `VerdictOfLatestLease` and `TerminalIsKept`, and the
refinement `ImplementsLifecycle`.  The inductive invariant `IInv` adds to the properties
three facts: a row that names an owner is leased (Complete and Fail test only
`leased_by`, so without it they could rewrite a finished row), a row not yet
inserted is blank, and attempts count at least the attempts started.

**The pipeline** (`Indexer_proofs`): `ImplementsQueue` - every step of the pipeline is a
step of the queue or leaves it alone - from which every theorem above holds of the pipeline.
`ResultIffDone` follows from the queue's invariant and where doJob may be when it holds a
job; `SpansLeaveByEviction` from the invariant that what a cleanup chose has no spans unless
it is torn (`ChosenEmpty`); `DoneIsRetrievable` (`Done`) from `Fills`: past PutSpans, or the
fast path's look at the table, a job's repository has its spans, or has none to have, or is
torn, or was evicted under the job.  `EvictionKeepsQuota` (`Quota`) needs `Spares`: until
another DELETE commits, the rows an eviction has not chosen are at least the quota, because
what it chose is what lay beyond the quota in its snapshot, and touches and inserts only
reorder and add.

**The corpus** (`Reads_proofs`): `LinksResolve` (`Links`), for any number of repositories and
of PutSpans that overlap with PutGraph, cleanup and eviction, from the types of the three
tables it is about; and `LatestRemembered` (`Tombstones`), for any number of indexers that
evict and trim, from two facts: the tombstones begin with the latest evictions (`Ordered`:
a trim that is lost leaves a longer table that begins alike, and a repository indexed again
keeps its row there), and of the latest a trim under way has chosen only those that were
renewed since (`Trims`), so that what its DELETE takes from the one it takes from the other.

**The reads** (`Reads_proofs`), for any number of concurrent requests: every step is a step
of `Corpus` or leaves it alone (`ReadersAreHarmless`), so both theorems above hold under
readers; `RepliesWereTrue` (`HonestReplies`), `RankedAsEmbedded` (`OneVectorSpace`),
`BrokenMeansRewritten` (`CorpusIsNotBroken`) and `GroundedOrRefused` (`NothingUngrounded`).
Each invariant says of one request what holds between two of its statements: `Told` that
past the lookup the repository was seen held, `Ranked` that between the two statements on
embeddings the spans are of the gateway's model or were rewritten, `Citable` that the link
in hand resolves, has been cited or was rewritten, `Grounded` that only what may be answered
gets as far as being cited.  The proofs share a lemma that a step is one request's handler
or a writer's (`OneAtATime`) and one that an observer forgets nothing (`Watching`).

**From a checkout to spans** (`Callers_proofs`), for any checkout, window, overlap and
declaration limit: `WindowsTile` (`WindowsTileAnyRegion`), `SpansMatchSource`
(`NothingLostNothingAdded`) and `OwnVector` (`EveryVectorItsOwn`), from one invariant,
`CutInv`.  Its parts: where the next window starts (`Progress`: right behind the last line
covered, less the overlap, and never at or before the start of the last window); that a span
or a region to be cut is of a file that is chunked, and within it (`Provenance`); that every
line of such a file worth retrieving is in a span, in a region to be cut, or ahead of the
next window (`Accounted`); and that a span without its vector is on the list, behind the
batches that are through (`Filling`).

**The graph and its callers** (`Callers_proofs`): `ResolvedMeansThis`
(`ResolvedWhereOneALine`), `NearestCallers` (`NearestThereAre`) and `EveryCallAnswered`
(`NoCallUnanswered`), for any files, any part of the calls resolved, any depth and limit.
`CitesItself` (`CitedByItsOwn`) follows from `CutInv` and `Origins`: every span is a piece of
its file with a word of it, and lies within one declaration if the file was cut along them.
`SpanForIs` says what `spanFor` then chooses: a span that overlaps the symbol, and one around
its first line if there is any.  What they share is the symbol's own in each of three cases:
the span is of that declaration and no other, so its word is the symbol's; the first line has
a word, so some window holds it, and the chosen one does; or the file was stripped and the
lines shared count as the symbol's, which is the exception (see Graph).
All four assume `OneALine`, no two declarations on one line, as gofmt leaves a file - graph.go
relies on it where it says that top-level declarations do not overlap - without which the first
is false (see Graph). `CitedByItsOwn` assumes `StartsInWords` as well. `NoCallUnanswered`
assumes besides that a call has the name of what it calls (`CalledByName`), as it does unless it
is a call of an interface's method, which the type-check places at the interface's declaration,
a symbol of another name. `NearestCallers` speaks of ways of any length through a graph with
cycles, an induction over data in disguise. The proof takes, of all ways to a caller, a shortest
one: it visits nobody twice (`Shortcut`, `ShortestChain`), so the recursion, which refuses to
revisit, has walked every step of it (`WalkedUp`), by the invariant that whatever extends a
walked row is walked or about to be (`Walk`).

**The boots** (`Boot_proofs`), for any number of processes and releases:
`MigratedOnceInOrder` (`Migrations`), from the invariant that what a transaction plans and
has done is exactly what follows the ledger, since nobody else commits (`Remaining`,
`OneApplies`); `SweepsNoLiveJob` (`LiveJobsSpared`), from `Stamped`: a checkout is no older
than the mtime of the tree it is in; `ReadyIsRecent` (`Readiness`), from what a check has
found so far (`Checks`) and what is remembered of the last (`Remembers`).

**The deadlines** (`Deadlines_proofs`): `LeaseOutlastsWork`, `FreedInTime` - the worker is
free three closing writes after the deadline - and `DTypeOK` (`LeaseIsLongEnough`), from the
latest time each stage can be reached and left (`Horizon`).

**The loop** (`AgentLoop_proofs`), for every setting of the ceilings: `ATypeOK` and
`SpendBounded` (`LoopBounded`), `CitedWasOpened` (`Citations`), `ReadWithinBudget`
(`OpensWithinBudget`), `AskedOnce` (`RepeatGuard`) and that every step is a step of
`Spender` (`LoopSpends`).  The invariant for the ceilings adds that a call is only
made while the input admitted it and output is left (`LetIn`) and that a running
loop has not used up its mistakes (`Correctable`); the one for citations that
what is read was served and nothing is cited before the end.  The repeat guard needs that
a question served has its key counted (`Counted`), and that a span already read has been
asked for in some spelling (`OpenedServed`) while a call that opens it now comes in one it
has not been asked for in, so that there are two.

**The budget** (`AskBudget_proofs`), for any number of requests and slots and any window:
`SlotsBounded` and `ReservedIsRunning`; that tokens spent and reserved never exceed the limit
together if loops keep within their worst case (`NeverOvercommitted`, assuming
`Slack = 0`); `TotalIsPast` (`TotalIsKept`), and from it `HourlyCeiling` (`AnyHour`),
however far other loops overshoot.  Both are about sums over sets of requests and over
ages.  A sum is a recursive function along the ages or along one fixed order of the
requests; that changing one summand changes the sum by as much is shown for a partial sum
and carried up by the least-number principle (`Climb` in `Lists_proofs`), since the
library's induction cannot be used.  `Room` is the invariant behind the ceiling: what
was spent in the hour and what is reserved but not yet spent never exceed the limit.

Assumptions: `QueueAssumption`, `PipelineAssumption`, `DeadlineAssumption`, `CorpusAssumption`,
`ReadsAssumption`, `LoopAssumption`, `BudgetAssumption`, `ContentAssumption` and
`BootAssumption`, in particular that `NoWorker` is no worker's id - worker ids
are unique because they are the identities of the model's workers (`Name`); what a
shared id breaks is the mutant `HostName`.

Only model-checked: liveness (`EveryJobEnds`, `WorkerFreed`, `SlotsReturn`, `BootsAndStops`, and
that the loop returns, so `ImplementsSpender` is proved in its safety part only, as
`LoopSpends`), which is out of the prover's reach.

## 5. Plan

1. Pure algorithms against reference definitions: rank fusion and assembly under a budget
   in `rag`, `pickHead` in `clone`.
2. The removal of a scratch tree by age against the owner of that tree, with the two-step
   cleanup of a job, once the code closes the window described under Boot.

## 6. Not modelled

Git, HTTP, embedding, parsing, type-checking and the LLM are outcomes (succeed, fail, and
with what result).  Ranking inside Postgres, the console, the Terraform policy check and the
evaluation runner, logging and metrics are left out: they keep no state whose evolution
matters here.  Admission of URLs is string validation.
