----------------------------- MODULE AskBudget -----------------------------
(***************************************************************************)
(* The two spend controls of one gateway process, Loop.Ask: a semaphore    *)
(* that degrades instead of queueing, and an allowance of tokens per       *)
(* rolling hour that is reserved before a loop runs and settled when it    *)
(* returns.  Requests run concurrently; each loop is a Spender.            *)
(*                                                                         *)
(* Time is kept as ages: past[a] holds the tokens settled a ticks ago, the *)
(* entries of budget.spent with one time, and the last bucket everything   *)
(* that prune has yet to drop.                                             *)
(***************************************************************************)
EXTENDS Naturals, FiniteSets

CONSTANTS
    Requests,       \* identities of requests in flight at one time
    MaxConcurrent,  \* LLM_MAX_CONCURRENT
    Limit,          \* LLM_TOKENS_PER_HOUR
    Window,         \* budgetWindow, in ticks
    Want,           \* Bounds.MaxInputTokens + Bounds.MaxOutputTokens
    Slack           \* how far a loop's usage may exceed Want

ASSUME BudgetAssumption ==
    /\ IsFiniteSet(Requests)
    /\ {MaxConcurrent, Limit, Window} \subseteq Nat \ {0}
    /\ {Want, Slack} \subseteq Nat

VARIABLES
    at,        \* where each request is: see Stage
    used,      \* tokens the loop of each request reports so far
    total,     \* budget.total
    reserved,  \* budget.reserved
    past,      \* budget.spent, by age
    covered    \* history: tokens by age, those within their reservation

budget == <<total, reserved, past>>
bvars  == <<at, used, budget, covered>>

Run(q) == INSTANCE Spender WITH running <- at[q] = "running", used <- used[q]

(* "slot": holds the semaphore, its reservation not decided; "running": the *)
(* loop runs on a reservation; "returned": it is to be settled; "settled":  *)
(* the slot is still held.                                                  *)
Stage == {"idle", "slot", "running", "returned", "settled"}

Holding   == {q \in Requests : at[q] # "idle"}
Reserving == {q \in Requests : at[q] \in {"running", "returned"}}

BInit ==
    /\ at = [q \in Requests |-> "idle"] /\ used = [q \in Requests |-> 0]
    /\ total = 0 /\ reserved = 0 /\ past = [a \in 0 .. Window |-> 0]
    /\ covered = [a \in 0 .. Window - 1 |-> 0]

-----------------------------------------------------------------------------
FreeAtLimit == Cardinality(Holding) <= MaxConcurrent   \* mutant: one too many

Free == Cardinality(Holding) < MaxConcurrent

(* A full semaphore answers "busy" and changes nothing.                     *)
Enter(q) ==
    /\ at[q] = "idle" /\ Free
    /\ at' = [at EXCEPT ![q] = "slot"]
    /\ UNCHANGED <<used, budget, covered>>

(* prune, with the lock held: what is an hour old leaves the total.         *)
Pruned  == total - past[Window]
KeptAll == past   \* mutant: entries taken off the total and not dropped
Kept    == [past EXCEPT ![Window] = 0]

FitsNow == Pruned + Want <= Limit   \* mutant: reads the total and lets go

Fits == Pruned + reserved + Want <= Limit

(* allow reserves the worst case, or the request ends with its slot given   *)
(* back.                                                                    *)
AllowLeavingSlot(q) ==   \* mutant: the slot of a refused request is kept
    /\ at[q] = "slot"
    /\ total' = Pruned /\ past' = Kept
    /\ Fits
    /\ reserved' = reserved + Want
    /\ at' = [at EXCEPT ![q] = "running"] /\ used' = [used EXCEPT ![q] = 0]
    /\ UNCHANGED covered

Allow(q) ==
    /\ at[q] = "slot"
    /\ total' = Pruned /\ past' = Kept
    /\ \/ /\ Fits
          /\ reserved' = reserved + Want
          /\ at' = [at EXCEPT ![q] = "running"] /\ used' = [used EXCEPT ![q] = 0]
       \/ /\ ~Fits
          /\ at' = [at EXCEPT ![q] = "idle"]
          /\ UNCHANGED <<reserved, used>>
    /\ UNCHANGED covered

(* The loop's own tokens, as they are spent.                                *)
Within(u) == IF u <= Want THEN u ELSE Want

Call(q) ==
    /\ at[q] = "running"
    /\ \E u \in Run(q)!Budgeted(used[q]) :
         /\ u > used[q] /\ used' = [used EXCEPT ![q] = u]
         /\ covered' = [covered EXCEPT ![0] = @ + Within(u) - Within(used[q])]
    /\ UNCHANGED <<at, budget>>

(* The loop returns.                                                        *)
Return(q) ==
    /\ at[q] = "running"
    /\ at' = [at EXCEPT ![q] = "returned"]
    /\ UNCHANGED <<used, budget, covered>>

(* budget.spend, deferred: the reservation comes off, the usage goes on.    *)
SettleActual(q) ==   \* mutant: what was used is taken off the reservations
    /\ at[q] = "returned"
    /\ reserved' = reserved - used[q]
    /\ total' = Pruned + used[q]
    /\ past' = [Kept EXCEPT ![0] = @ + used[q]]
    /\ at' = [at EXCEPT ![q] = "settled"]
    /\ UNCHANGED <<used, covered>>

Settle(q) ==
    /\ at[q] = "returned"
    /\ reserved' = reserved - Want
    /\ total' = Pruned + used[q]
    /\ past' = [Kept EXCEPT ![0] = @ + used[q]]
    /\ at' = [at EXCEPT ![q] = "settled"]
    /\ UNCHANGED <<used, covered>>

(* The gauge is set, for which remaining prunes, and the slot given back.   *)
Release(q) ==
    /\ at[q] = "settled"
    /\ total' = Pruned /\ past' = Kept
    /\ at' = [at EXCEPT ![q] = "idle"] /\ used' = [used EXCEPT ![q] = 0]
    /\ UNCHANGED <<reserved, covered>>

(* A tick ages everything.  Nothing prunes, so the last bucket grows.       *)
Older(f) == [a \in DOMAIN f |-> IF a = 0 THEN 0 ELSE f[a - 1]]

Tick ==
    /\ past' = [Older(past) EXCEPT ![Window] = @ + past[Window]]
    /\ covered' = Older(covered)
    /\ UNCHANGED <<at, used, total, reserved>>

Proceed(q) == Allow(q) \/ Return(q) \/ Settle(q) \/ Release(q)

BNext == Tick \/ \E q \in Requests : Enter(q) \/ Call(q) \/ Proceed(q)

(* A request's goroutine runs on, and its loop returns: AgentLoop.          *)
BSpec == BInit /\ [][BNext]_bvars /\ \A q \in Requests : WF_bvars(Proceed(q))

-----------------------------------------------------------------------------
SumTo(f, n) ==
    LET upto[a \in 0 .. n] == f[a] + (IF a = 0 THEN 0 ELSE upto[a - 1]) IN upto[n]

(* Every allow that returns true is settled by exactly one spend            *)
(* (ask.go:148): at any moment the reservations are those of the loops that *)
(* run, and none outlives its request.                                      *)
ReservedIsRunning == reserved = Want * Cardinality(Reserving)

(* The running total is the sum of the entries it was made of, whatever     *)
(* order allow, spend and their prunes take the lock in.                    *)
TotalIsPast == total = SumTo(past, Window)

(* The semaphore bounds the loops, and so what is reserved (ask.go:56-71).  *)
SlotsBounded == Cardinality(Holding) <= MaxConcurrent

(* The point of reserving (ask.go:138-146): however requests overlap and    *)
(* settle, the tokens spent within reservations in the last hour - any hour *)
(* - are at most the limit.                                                 *)
HourlyCeiling == SumTo(covered, Window - 1) <= Limit

(* A slot is given back, whatever became of the request (ask.go:67).        *)
SlotsReturn == \A q \in Requests : at[q] # "idle" ~> at[q] = "idle"
=============================================================================
