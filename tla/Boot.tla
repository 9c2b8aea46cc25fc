-------------------------------- MODULE Boot --------------------------------
(***************************************************************************)
(* What the processes of a deployment do around their work: gateways and   *)
(* indexers of different releases boot against one database, refuse bad    *)
(* settings, migrate the schema under one advisory lock, clear the scratch *)
(* volume they share, answer readiness probes, and stop or are killed.     *)
(*                                                                         *)
(* A process boots once; its successor is another process, as workerID     *)
(* gives every boot a fresh id.  Time is kept as ages, in ticks, each of   *)
(* which is held at one past the last value anything compares it with.     *)
(***************************************************************************)
EXTENDS Integers, Sequences, FiniteSets

CONSTANTS
    Gateways, Indexers,
    Release,     \* how many migrations each process embeds
    Settings,    \* environments a process may be started with
    Probed,      \* the processes whose /ready something polls
    Deadline,    \* JOB_DEADLINE_SECONDS
    Hold,        \* how long a job's checkout may stay: Deadline and its last writes
    TTL          \* of a readiness answer

Processes == Gateways \cup Indexers
Window == 2 * Deadline + 1

(* The knobs whose range a boot checks.  "typo" is not in an enumeration.    *)
Setting ==
    [mode : {"vector", "lexical", "hybrid", "typo"}, rrfK : Int, candidates : Int,
     floor : Int, maxSpans : Int, maxChars : Int, answer : {"extractive", "llm", "typo"},
     llm : {"none", "anthropic"}, concurrent : Int, tokensPerHour : Int,
     embedder : {"ollama", "fake", "typo"}, dim : {"the schema's", "other"},
     limits : [1 .. 8 -> Int], strategy : {"ast", "window", "typo"},
     lines : Int, overlap : Int, maxDecl : Int]

ASSUME BootAssumption ==
    /\ Gateways \cap Indexers = {} /\ Probed \subseteq Processes
    /\ Release \in [Processes -> Nat]
    /\ Settings \subseteq Setting
    /\ {Deadline, Hold, TTL} \subseteq Nat \ {0} /\ Hold <= Window

VARIABLES
    pc,
    ledger,       \* the committed migrations, in the order they ran
    plan, done,   \* of a migration run: what it has to apply, what it has
    up, since,    \* whether a dependency answers, and the age of the last change
    tree, job,    \* age of a worker's scratch tree's mtime, and of its checkout
    listed,       \* what sweepStale has read of the directory and not looked at
    victim,       \* the tree it found stale and is about to remove
    checking,     \* the dependency a readiness check is at
    checked, ok   \* age of the last check, and its answer

migration == <<ledger, plan, done>>
deps == <<up, since>>
scratch == <<tree, job, listed, victim>>
ready == <<checking, checked, ok>>
bvars == <<pc, migration, deps, scratch, ready>>

Absent == -1   \* no tree, no checkout, no check yet
Nothing == "nothing"
Deps(p) == IF p \in Gateways THEN <<"postgres", "embedder">> ELSE <<"postgres">>

BInit ==
    /\ pc = [p \in Processes |-> IF p \in Gateways THEN "connecting" ELSE "configuring"]
    /\ ledger = <<>> /\ plan = [p \in Processes |-> {}]
    /\ done = [p \in Processes |-> <<>>]
    /\ up = [d \in {"postgres", "embedder"} |-> TRUE]
    /\ since = [d \in {"postgres", "embedder"} |-> TTL + 1]
    /\ tree = [i \in Indexers |-> Absent] /\ job = [i \in Indexers |-> Absent]
    /\ listed = [i \in Indexers |-> {}] /\ victim = [i \in Indexers |-> Nothing]
    /\ checking = [p \in Probed |-> Nothing]
    /\ checked = [p \in Probed |-> Absent] /\ ok = [p \in Probed |-> TRUE]

Goes(p, to) == pc' = [pc EXCEPT ![p] = to]

Forget(p) ==
    /\ checking' = [q \in Probed |-> IF q = p THEN Nothing ELSE checking[q]]
    /\ checked' = [q \in Probed |-> IF q = p THEN Absent ELSE checked[q]]
    /\ ok' = [q \in Probed |-> q = p \/ ok[q]]

(* log.Fatal, or death: a transaction in hand and its lock go with the session, *)
(* and what only this process remembered with the process.                     *)
Exit(p) ==
    /\ Goes(p, "gone")
    /\ plan' = [plan EXCEPT ![p] = {}] /\ done' = [done EXCEPT ![p] = <<>>]
    /\ Forget(p)
    /\ UNCHANGED <<ledger, deps>>

-----------------------------------------------------------------------------
(* Settings.                                                                *)

Retrievable(s) ==
    s.mode # "typo" /\ s.rrfK >= 0 /\ s.candidates >= 1 /\ -1 <= s.floor /\ s.floor <= 1

Budgeted(s) == s.maxSpans >= 1 /\ s.maxChars >= 1

Answering(s) ==
    /\ s.answer # "typo"
    /\ s.llm = "none" => s.answer # "llm"
    /\ s.llm # "none" => s.concurrent >= 1 /\ s.tokensPerHour >= 1

Limited(s) == \A k \in DOMAIN s.limits : s.limits[k] > 0

Chunkable(s) ==
    /\ s.strategy # "typo"
    /\ s.lines > 0 /\ 0 <= s.overlap /\ s.overlap < s.lines /\ s.maxDecl > 0

(* FromEnv: the width, and one round trip to a real server.                 *)
Embedding(s) ==
    /\ s.dim = "the schema's" /\ s.embedder # "typo"
    /\ s.embedder = "ollama" => up["embedder"]

Servable(p, s) ==
    /\ Embedding(s)
    /\ IF p \in Gateways THEN Retrievable(s) /\ Budgeted(s) /\ Answering(s)
       ELSE Limited(s) /\ Chunkable(s)

Configure(p) ==
    /\ pc[p] = "configuring"
    /\ \E s \in Settings :
         IF Servable(p, s)
         THEN /\ Goes(p, IF p \in Gateways THEN "serving" ELSE "connecting")
              /\ UNCHANGED <<migration, deps, ready>>
         ELSE Exit(p)
    /\ UNCHANGED scratch

-----------------------------------------------------------------------------
(* store.New.                                                               *)

Connect(p) ==
    /\ pc[p] = "connecting"
    /\ IF up["postgres"]
       THEN Goes(p, "waiting") /\ UNCHANGED <<migration, deps, ready>>
       ELSE Exit(p)
    /\ UNCHANGED scratch

(* pg_advisory_xact_lock: nobody else is between it and the end of theirs.   *)
NoLock(p) == TRUE   \* mutant: each in a transaction of its own
Free(p) == \A q \in Processes \ {p} : pc[q] # "applying"

(* The ledger is read under the lock.                                        *)
Lock(p) ==
    /\ pc[p] = "waiting" /\ up["postgres"] /\ Free(p)
    /\ Goes(p, "applying")
    /\ plan' = [plan EXCEPT ![p] = (1 .. Release[p]) \ {ledger[k] : k \in DOMAIN ledger}]
    /\ UNCHANGED <<ledger, done, deps, scratch, ready>>

Apply(p) ==
    /\ pc[p] = "applying" /\ plan[p] # {} /\ up["postgres"]
    /\ LET name == CHOOSE n \in plan[p] : \A m \in plan[p] : n <= m
       IN  /\ plan' = [plan EXCEPT ![p] = @ \ {name}]
           /\ done' = [done EXCEPT ![p] = Append(@, name)]
    /\ UNCHANGED <<pc, ledger, deps, scratch, ready>>

Commit(p) ==
    /\ pc[p] = "applying" /\ plan[p] = {} /\ up["postgres"]
    /\ Goes(p, IF p \in Gateways THEN "configuring" ELSE "sweeping")
    /\ ledger' = ledger \o done[p] /\ done' = [done EXCEPT ![p] = <<>>]
    /\ listed' = IF p \in Gateways THEN listed
                 ELSE [listed EXCEPT ![p] = {i \in Indexers : tree[i] # Absent}]
    /\ UNCHANGED <<plan, deps, tree, job, victim, ready>>

(* A statement that fails, a lost connection, migrateTimeout.                *)
OnlyWaiting(p) == pc[p] = "waiting"   \* mutant: no deadline on the statements
Migrating(p) == pc[p] \in {"waiting", "applying"}

GiveUp(p) == Migrating(p) /\ Exit(p) /\ UNCHANGED scratch

-----------------------------------------------------------------------------
(* The scratch volume.  sweepStale read the directory when the schema was    *)
(* ready; it looks at the entries one by one, and removes what is too old.   *)

OverDeadline(i) == tree[i] > Deadline   \* mutant: a window of one deadline
Stale(i) == tree[i] > Window

Look(i) ==
    /\ pc[i] = "sweeping" /\ victim[i] = Nothing
    /\ \E j \in listed[i] :
         /\ listed' = [listed EXCEPT ![i] = @ \ {j}]
         /\ victim' = [victim EXCEPT ![i] = IF Stale(j) THEN j ELSE Nothing]
    /\ UNCHANGED <<pc, migration, deps, tree, job, ready>>

(* removeScratch, which may fail and then only says so.                      *)
Remove(i) ==
    /\ pc[i] = "sweeping" /\ victim[i] # Nothing
    /\ \/ tree' = [tree EXCEPT ![victim[i]] = Absent]
       \/ UNCHANGED tree
    /\ victim' = [victim EXCEPT ![i] = Nothing]
    /\ UNCHANGED <<pc, migration, deps, job, listed, ready>>

Swept(i) ==
    /\ pc[i] = "sweeping" /\ victim[i] = Nothing /\ listed[i] = {}
    /\ Goes(i, "serving")
    /\ UNCHANGED <<migration, deps, scratch, ready>>

(* A checkout is made in the worker's tree, and taken out of it again: both  *)
(* stamp the tree.                                                           *)
Begin(i) ==
    /\ pc[i] = "serving" /\ job[i] = Absent
    /\ job' = [job EXCEPT ![i] = 0] /\ tree' = [tree EXCEPT ![i] = 0]
    /\ UNCHANGED <<pc, migration, deps, listed, victim, ready>>

End(i) ==
    /\ pc[i] \in {"serving", "draining"} /\ job[i] # Absent
    /\ job' = [job EXCEPT ![i] = Absent]
    /\ tree' = [tree EXCEPT ![i] = IF @ = Absent THEN Absent ELSE 0]
    /\ UNCHANGED <<pc, migration, deps, listed, victim, ready>>

-----------------------------------------------------------------------------
(* Readiness.  The clock is read before the check; a probe that finds the    *)
(* mutex held waits for it.                                                  *)

Fresh(p) == checked[p] # Absent /\ checked[p] < TTL

FromCache(p) == pc[p] = "serving" /\ checking[p] = Nothing /\ Fresh(p)

Probe(p) ==
    /\ pc[p] = "serving" /\ checking[p] = Nothing /\ ~Fresh(p)
    /\ checking' = [checking EXCEPT ![p] = Deps(p)[1]]
    /\ checked' = [checked EXCEPT ![p] = 0]
    /\ UNCHANGED <<pc, migration, deps, scratch, ok>>

FirstOnly(p, d) == Nothing   \* mutant: the database is all that is asked
After(p, d) == IF \E k \in 1 .. Len(Deps(p)) - 1 : Deps(p)[k] = d THEN "embedder" ELSE Nothing

(* One dependency; the first that fails settles it.                          *)
Verdict(p) == checking[p] # Nothing /\ (~up[checking[p]] \/ After(p, checking[p]) = Nothing)

Ask(p) ==
    /\ pc[p] = "serving" /\ checking[p] # Nothing
    /\ checking' = [checking EXCEPT ![p] = IF Verdict(p) THEN Nothing ELSE After(p, @)]
    /\ ok' = [ok EXCEPT ![p] = IF Verdict(p) THEN up[checking[p]] ELSE @]
    /\ UNCHANGED <<pc, migration, deps, scratch, checked>>

-----------------------------------------------------------------------------
(* SIGTERM.  The gateway catches it once it serves, the indexer from the     *)
(* start, which fails what it is in; a worker takes its tree with it.        *)
Terminate(p) ==
    /\ pc[p] = "serving"
    /\ Goes(p, "draining") /\ Forget(p)
    /\ UNCHANGED <<migration, deps, scratch>>

Drained(p) ==
    /\ pc[p] = "draining" /\ (p \in Indexers => job[p] = Absent)
    /\ Exit(p)
    /\ tree' = [i \in Indexers |-> IF i = p THEN Absent ELSE tree[i]]
    /\ UNCHANGED <<job, listed, victim>>

(* A crash, the OOM killer, or SIGTERM during the boot: the tree stays.      *)
Kill(p) ==
    /\ pc[p] # "gone" /\ Exit(p)
    /\ job' = [i \in Indexers |-> IF i = p THEN Absent ELSE job[i]]
    /\ listed' = [i \in Indexers |-> IF i = p THEN {} ELSE listed[i]]
    /\ victim' = [i \in Indexers |-> IF i = p THEN Nothing ELSE victim[i]]
    /\ UNCHANGED tree

(* A dependency fails, or answers again.                                     *)
Flip(d) ==
    /\ up' = [up EXCEPT ![d] = ~@] /\ since' = [since EXCEPT ![d] = 0]
    /\ UNCHANGED <<pc, migration, scratch, ready>>

Older(age, last) == IF age = Absent \/ age > last THEN age ELSE age + 1

(* No job outlives its deadline, no check its timeouts, which come to less   *)
(* than a tick.                                                              *)
Tick ==
    /\ \A i \in Indexers : job[i] # Absent => job[i] < Hold
    /\ \A p \in Probed : checking[p] # Nothing => checked[p] = 0
    /\ since' = [d \in DOMAIN since |-> Older(since[d], TTL)]
    /\ tree' = [i \in Indexers |-> Older(tree[i], Window)]
    /\ job' = [i \in Indexers |-> Older(job[i], Hold)]
    /\ checked' = [p \in Probed |-> Older(checked[p], TTL)]
    /\ UNCHANGED <<pc, migration, up, listed, victim, checking, ok>>

BNext ==
    \/ \E p \in Processes :
         \/ Configure(p) \/ Connect(p) \/ Lock(p) \/ Apply(p) \/ Commit(p)
         \/ GiveUp(p) \/ Terminate(p) \/ Drained(p) \/ Kill(p)
    \/ \E i \in Indexers : Look(i) \/ Remove(i) \/ Swept(i) \/ Begin(i) \/ End(i)
    \/ \E p \in Probed : Probe(p) \/ Ask(p)
    \/ \E d \in DOMAIN up : Flip(d)
    \/ Tick

(* What a process does without being asked: its boot, the end of its job and  *)
(* of its drain, its timeouts.                                                *)
Advance(p) ==
    \/ Configure(p) \/ Connect(p) \/ GiveUp(p) \/ Drained(p)
    \/ p \in Indexers /\ (Look(p) \/ Remove(p) \/ Swept(p) \/ End(p))

(* A running process goes on; its timeouts fire.  Nothing says that a lock is *)
(* granted, that a statement returns, or that a worker is asked to stop.      *)
Fairness == \A p \in Processes : WF_bvars(Advance(p))

BSpec == BInit /\ [][BNext]_bvars /\ Fairness

-----------------------------------------------------------------------------
(* However many processes of however many releases boot at once, crash or run *)
(* out of time: each migration has run once, in order and whole, and a        *)
(* process that is past it has a schema at least its own (migrate).           *)
MigratedOnceInOrder ==
    /\ \A k \in DOMAIN ledger : ledger[k] = k
    /\ \A p \in Processes :
         (pc[p] \in {"sweeping", "serving", "draining"}
            \/ (p \in Gateways /\ pc[p] = "configuring")) => Release[p] <= Len(ledger)

(* No worker that is in a job is taken for dead: what sweepStale decides to   *)
(* remove has no checkout in it at the time (sweepStale, home).               *)
SweepsNoLiveJob ==
    [][\A i \in Indexers : victim'[i] # victim[i] /\ victim'[i] # Nothing =>
         job[victim'[i]] = Absent]_bvars

(* What /ready answers was so within the TTL: for a yes every dependency has  *)
(* answered no longer ago than that, for a no one of them has failed.         *)
Held(p, answer) ==
    LET ds == {Deps(p)[k] : k \in DOMAIN Deps(p)}
    IN  IF answer THEN \A d \in ds : up[d] \/ since[d] <= TTL
        ELSE \E d \in ds : ~up[d] \/ since[d] <= TTL

ReadyIsRecent ==
    \A p \in Probed :
      /\ FromCache(p) => Held(p, ok[p])
      /\ pc[p] = "serving" /\ Verdict(p) => Held(p, up[checking[p]])

(* A boot ends in service or in an exit, whatever wedges and whoever holds    *)
(* the lock, and a process told to stop is gone (migrateTimeout, main).       *)
BootsAndStops == []<>(\A p \in Processes : pc[p] \in {"serving", "gone"})
=============================================================================
