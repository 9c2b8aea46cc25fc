-------------------------- MODULE AskBudget_proofs --------------------------
(* Theorems about the spend controls, for every number of requests, limit,  *)
(* window and worst case.                                                   *)
EXTENDS AskBudget, Lists_proofs

LEMMA Settings ==
  /\ IsFiniteSet(Requests)
  /\ MaxConcurrent \in Nat /\ MaxConcurrent > 0 /\ Limit \in Nat /\ Want \in Nat
  /\ Slack \in Nat /\ Window \in Nat /\ Window > 0
  BY BudgetAssumption DEF BudgetAssumption

-----------------------------------------------------------------------------
(* Sums over the window, by Climb.                                          *)
Adds(f, g, n) == \A k \in 0 .. n : g[k] = f[k] + (IF k = 0 THEN 0 ELSE g[k - 1])
IntTo(f, n) == \A k \in 0 .. n : f[k] \in Int

LEMMA SumExists ==
  ASSUME NEW n \in Nat, NEW f, IntTo(f, n)
  PROVE  \E g \in [0 .. n -> Int] : Adds(f, g, n)
<1> DEFINE S == {m \in 0 .. n : \E g \in [0 .. m -> Int] : Adds(f, g, m)}
<1>1. 0 \in S
  <2> DEFINE h == [k \in 0 .. 0 |-> f[0]]
  <2>1. h \in [0 .. 0 -> Int] /\ Adds(f, h, 0) BY DEF Adds, IntTo
  <2> QED BY <2>1
<1>2. ASSUME NEW m \in 0 .. n - 1, m \in S PROVE m + 1 \in S
  <2>1. PICK g \in [0 .. m -> Int] : Adds(f, g, m) BY <1>2
  <2> DEFINE h == [k \in 0 .. m + 1 |-> IF k = m + 1 THEN f[m + 1] + g[m] ELSE g[k]]
  <2>2. h \in [0 .. m + 1 -> Int] BY DEF IntTo
  <2>3. Adds(f, h, m + 1)
    <3> SUFFICES ASSUME NEW k \in 0 .. m + 1
                 PROVE  h[k] = f[k] + (IF k = 0 THEN 0 ELSE h[k - 1])
      BY DEF Adds
    <3>1. CASE k = m + 1 BY <3>1
    <3>2. CASE k # m + 1
      <4>1. k \in 0 .. m /\ (k # 0 => k - 1 \in 0 .. m /\ k - 1 # m + 1) /\ k # m + 1 BY <3>2
      <4> QED BY <2>1, <4>1 DEF Adds
    <3> QED BY <3>1, <3>2
  <2> QED BY <2>2, <2>3
<1> HIDE DEF S
<1>3. n \in S BY <1>1, <1>2, Climb
<1> QED BY <1>3 DEF S

LEMMA SumUnique ==
  ASSUME NEW n \in Nat, NEW m \in 0 .. n, NEW f, IntTo(f, n),
         NEW g \in [0 .. n -> Int], Adds(f, g, n),
         NEW h \in [0 .. m -> Int], Adds(f, h, m)
  PROVE  g[m] = h[m]
<1> DEFINE S == {k \in 0 .. m : g[k] = h[k]}
<1>1. 0 \in S BY DEF Adds
<1>2. ASSUME NEW k \in 0 .. m - 1, k \in S PROVE k + 1 \in S
  <2>1. k + 1 \in 0 .. m /\ k + 1 \in 0 .. n /\ k + 1 # 0 /\ (k + 1) - 1 = k OBVIOUS
  <2>2. g[k + 1] = f[k + 1] + g[k] BY <2>1 DEF Adds
  <2>3. h[k + 1] = f[k + 1] + h[k] BY <2>1 DEF Adds
  <2> QED BY <1>2, <2>1, <2>2, <2>3
<1> HIDE DEF S
<1>3. m \in Nat OBVIOUS
<1>4. \A k \in 0 .. m - 1 : k \in S => k + 1 \in S BY <1>2
<1>5. m \in S BY <1>1, <1>3, <1>4, Climb
<1> QED BY <1>5 DEF S

LEMMA SumIs ==
  ASSUME NEW n \in Nat, NEW f, IntTo(f, n)
  PROVE  \E g \in [0 .. n -> Int] : Adds(f, g, n) /\ SumTo(f, n) = g[n]
<1> DEFINE Body(g) == [k \in 0 .. n |-> f[k] + (IF k = 0 THEN 0 ELSE g[k - 1])]
           u == CHOOSE g : g = Body(g)
<1>1. PICK g \in [0 .. n -> Int] : Adds(f, g, n) BY SumExists
<1>2. g = Body(g) BY <1>1 DEF Adds
<1>3. u = Body(u) BY <1>2
<1>4. SumTo(f, n) = u[n] BY DEF SumTo
<1> HIDE DEF u
<1>5. \A k \in 0 .. n : u[k] = f[k] + (IF k = 0 THEN 0 ELSE u[k - 1])
  BY <1>3
<1> DEFINE S == {k \in 0 .. n : u[k] = g[k]}
<1>6. 0 \in S BY <1>1, <1>5 DEF Adds
<1>7. ASSUME NEW k \in 0 .. n - 1, k \in S PROVE k + 1 \in S
  <2>1. k + 1 \in 0 .. n /\ k + 1 # 0 /\ (k + 1) - 1 = k OBVIOUS
  <2>2. u[k + 1] = f[k + 1] + u[k] BY <2>1, <1>5
  <2>3. g[k + 1] = f[k + 1] + g[k] BY <2>1, <1>1 DEF Adds
  <2> QED BY <1>7, <2>1, <2>2, <2>3
<1> HIDE DEF S, Body
<1>8. \A k \in 0 .. n - 1 : k \in S => k + 1 \in S BY <1>7
<1>9. n \in S BY <1>6, <1>8, Climb
<1> QED BY <1>1, <1>4, <1>9 DEF S

LEMMA SumStep ==
  ASSUME NEW n \in Nat, NEW f, IntTo(f, n)
  PROVE  /\ SumTo(f, n) \in Int
         /\ n = 0 => SumTo(f, n) = f[0]
         /\ n > 0 => SumTo(f, n) = f[n] + SumTo(f, n - 1)
<1>1. PICK g \in [0 .. n -> Int] : Adds(f, g, n) /\ SumTo(f, n) = g[n] BY SumIs
<1>2. n = 0 => SumTo(f, n) = f[0] BY <1>1 DEF Adds, IntTo
<1>3. ASSUME n > 0 PROVE SumTo(f, n) = f[n] + SumTo(f, n - 1)
  <2>1. IntTo(f, n - 1) /\ n - 1 \in Nat BY <1>3 DEF IntTo
  <2>2. PICK h \in [0 .. n - 1 -> Int] : Adds(f, h, n - 1) /\ SumTo(f, n - 1) = h[n - 1]
    BY <2>1, SumIs
  <2>3. g[n - 1] = h[n - 1] BY <1>1, <2>1, <2>2, SumUnique
  <2> QED BY <1>1, <1>3, <2>2, <2>3 DEF Adds
<1> QED BY <1>1, <1>2, <1>3

LEMMA SumLe ==
  ASSUME NEW n \in Nat, NEW f, NEW g, IntTo(f, n), IntTo(g, n),
         \A k \in 0 .. n : f[k] <= g[k]
  PROVE  SumTo(f, n) <= SumTo(g, n)
<1> DEFINE S == {k \in 0 .. n : SumTo(f, k) <= SumTo(g, k)}
<1>1. \A k \in 0 .. n : k \in Nat /\ IntTo(f, k) /\ IntTo(g, k) BY DEF IntTo
<1>2. 0 \in S
  <2>1. SumTo(f, 0) = f[0] /\ SumTo(g, 0) = g[0] BY <1>1, SumStep
  <2> QED BY <2>1
<1>3. ASSUME NEW k \in 0 .. n - 1, k \in S PROVE k + 1 \in S
  <2>1. /\ k \in 0 .. n /\ k + 1 \in 0 .. n /\ k + 1 > 0 /\ (k + 1) - 1 = k
        /\ f[k + 1] \in Int /\ g[k + 1] \in Int
    BY DEF IntTo
  <2>2. SumTo(f, k + 1) = f[k + 1] + SumTo(f, k) /\ SumTo(f, k) \in Int
    BY <1>1, <2>1, SumStep
  <2>3. SumTo(g, k + 1) = g[k + 1] + SumTo(g, k) /\ SumTo(g, k) \in Int
    BY <1>1, <2>1, SumStep
  <2>4. f[k + 1] <= g[k + 1] /\ SumTo(f, k) <= SumTo(g, k) BY <1>3, <2>1
  <2> QED BY <2>1, <2>2, <2>3, <2>4
<1> HIDE DEF S
<1>4. \A k \in 0 .. n - 1 : k \in S => k + 1 \in S BY <1>3
<1>5. n \in S BY <1>2, <1>4, Climb
<1> QED BY <1>5 DEF S

LEMMA SumZero ==
  ASSUME NEW n \in Nat, NEW f, \A k \in 0 .. n : f[k] = 0
  PROVE  SumTo(f, n) = 0
<1> DEFINE S == {k \in 0 .. n : SumTo(f, k) = 0}
<1>1. \A k \in 0 .. n : k \in Nat /\ IntTo(f, k) BY DEF IntTo
<1>2. 0 \in S BY <1>1, SumStep
<1>3. ASSUME NEW k \in 0 .. n - 1, k \in S PROVE k + 1 \in S
  <2>1. /\ k + 1 \in 0 .. n /\ k + 1 > 0 /\ (k + 1) - 1 = k /\ f[k + 1] = 0
    OBVIOUS
  <2>2. SumTo(f, k + 1) = f[k + 1] + SumTo(f, k) BY <1>1, <2>1, SumStep
  <2> QED BY <1>3, <2>1, <2>2
<1> HIDE DEF S
<1>4. \A k \in 0 .. n - 1 : k \in S => k + 1 \in S BY <1>3
<1>5. n \in S BY <1>2, <1>4, Climb
<1> QED BY <1>5 DEF S

(* One entry changes by what it changes.                                    *)
LEMMA SumChange ==
  ASSUME NEW n \in Nat, NEW f, NEW g, IntTo(f, n), IntTo(g, n), NEW i \in 0 .. n,
         \A k \in 0 .. n : k # i => g[k] = f[k]
  PROVE  SumTo(g, n) = SumTo(f, n) + g[i] - f[i]
<1> DEFINE D(k) == IF k < i THEN 0 ELSE g[i] - f[i]
           S == {k \in 0 .. n : SumTo(g, k) = SumTo(f, k) + D(k)}
<1>1. \A k \in 0 .. n : k \in Nat /\ IntTo(f, k) /\ IntTo(g, k) BY DEF IntTo
<1>2. f[i] \in Int /\ g[i] \in Int /\ f[0] \in Int /\ g[0] \in Int BY DEF IntTo
<1>3. 0 \in S
  <2>1. SumTo(f, 0) = f[0] /\ SumTo(g, 0) = g[0] BY <1>1, SumStep
  <2>2. CASE i = 0 BY <1>2, <2>1, <2>2
  <2>3. CASE i # 0 BY <1>2, <2>1, <2>3
  <2> QED BY <2>2, <2>3
<1>4. ASSUME NEW k \in 0 .. n - 1, k \in S PROVE k + 1 \in S
  <2>1. /\ k \in 0 .. n /\ k + 1 \in 0 .. n /\ k + 1 > 0 /\ (k + 1) - 1 = k
        /\ f[k + 1] \in Int /\ g[k + 1] \in Int
    BY DEF IntTo
  <2>2. SumTo(f, k + 1) = f[k + 1] + SumTo(f, k) /\ SumTo(f, k) \in Int
    BY <1>1, <2>1, SumStep
  <2>3. SumTo(g, k + 1) = g[k + 1] + SumTo(g, k) /\ SumTo(g, k) \in Int
    BY <1>1, <2>1, SumStep
  <2>4. SumTo(g, k) = SumTo(f, k) + D(k) BY <1>4
  <2>5. g[k + 1] = f[k + 1] + D(k + 1) - D(k)
    <3>1. CASE k + 1 = i BY <1>2, <2>1, <3>1
    <3>2. CASE k + 1 < i
      <4>1. g[k + 1] = f[k + 1] BY <2>1, <3>2
      <4> QED BY <2>1, <3>2, <4>1
    <3>3. CASE k + 1 > i
      <4>1. g[k + 1] = f[k + 1] BY <2>1, <3>3
      <4> QED BY <1>2, <2>1, <3>3, <4>1
    <3> QED BY <3>1, <3>2, <3>3
  <2>6. D(k) \in Int /\ D(k + 1) \in Int BY <1>2
  <2> HIDE DEF D
  <2>7. SumTo(g, k + 1) = SumTo(f, k + 1) + D(k + 1)
    BY <2>1, <2>2, <2>3, <2>4, <2>5, <2>6
  <2> QED BY <2>1, <2>7
<1> HIDE DEF S
<1>5. \A k \in 0 .. n - 1 : k \in S => k + 1 \in S BY <1>4
<1>6. n \in S BY <1>3, <1>5, Climb
<1>7. SumTo(f, n) \in Int BY SumStep
<1> QED BY <1>2, <1>6, <1>7 DEF S

(* A tick: every entry one older.                                           *)
LEMMA SumOlder ==
  ASSUME NEW n \in Nat, NEW f, NEW g, IntTo(f, n), IntTo(g, n), g[0] = 0,
         \A k \in 1 .. n : g[k] = f[k - 1]
  PROVE  SumTo(g, n) = IF n = 0 THEN 0 ELSE SumTo(f, n - 1)
<1> DEFINE S == {k \in 0 .. n : SumTo(g, k) = IF k = 0 THEN 0 ELSE SumTo(f, k - 1)}
<1>1. \A k \in 0 .. n : k \in Nat /\ IntTo(f, k) /\ IntTo(g, k) BY DEF IntTo
<1>2. 0 \in S
  <2>1. SumTo(g, 0) = g[0] BY <1>1, SumStep
  <2> QED BY <2>1
<1>3. ASSUME NEW k \in 0 .. n - 1, k \in S PROVE k + 1 \in S
  <2>1. /\ k \in 0 .. n /\ k + 1 \in 0 .. n /\ k + 1 > 0 /\ (k + 1) - 1 = k
        /\ k + 1 \in 1 .. n /\ f[k] \in Int
    BY DEF IntTo
  <2>2. g[k + 1] = f[k] BY <2>1
  <2>3. SumTo(g, k + 1) = g[k + 1] + SumTo(g, k) BY <1>1, <2>1, SumStep
  <2>4. /\ k = 0 => SumTo(f, k) = f[k]
        /\ k > 0 => SumTo(f, k) = f[k] + SumTo(f, k - 1)
    BY <1>1, <2>1, SumStep
  <2>5. SumTo(g, k + 1) = SumTo(f, k)
    BY <1>3, <2>1, <2>2, <2>3, <2>4
  <2> QED BY <2>1, <2>5
<1> HIDE DEF S
<1>4. \A k \in 0 .. n - 1 : k \in S => k + 1 \in S BY <1>3
<1>5. n \in S BY <1>2, <1>4, Climb
<1> QED BY <1>5 DEF S

(* The three ways a window changes.                                         *)
LEMMA Bumped ==
  ASSUME NEW n \in Nat, NEW f \in [0 .. n -> Int], NEW g \in [0 .. n -> Int],
         NEW i \in 0 .. n, \A k \in 0 .. n : k # i => g[k] = f[k]
  PROVE  /\ SumTo(g, n) = SumTo(f, n) + g[i] - f[i]
         /\ SumTo(f, n) \in Int /\ SumTo(g, n) \in Int
<1>1. IntTo(f, n) /\ IntTo(g, n) BY DEF IntTo
<1>2. SumTo(g, n) = SumTo(f, n) + g[i] - f[i] BY <1>1, SumChange
<1>3. SumTo(f, n) \in Int /\ SumTo(g, n) \in Int BY <1>1, SumStep
<1> QED BY <1>2, <1>3

LEMMA Aged ==
  ASSUME NEW n \in Nat, NEW f \in [0 .. n -> Int]
  PROVE  /\ SumTo(Older(f), n) = IF n = 0 THEN 0 ELSE SumTo(f, n - 1)
         /\ Older(f) \in [0 .. n -> Int]
<1> DEFINE g == Older(f)
<1>1. /\ g \in [0 .. n -> Int] /\ g[0] = 0
      /\ \A k \in 1 .. n : g[k] = f[k - 1]
  BY DEF Older
<1> HIDE DEF g
<1>2. IntTo(f, n) /\ IntTo(g, n) BY <1>1 DEF IntTo
<1>3. SumTo(g, n) = IF n = 0 THEN 0 ELSE SumTo(f, n - 1) BY <1>1, <1>2, SumOlder
<1> QED BY <1>1, <1>3 DEF g

LEMMA Split ==
  ASSUME NEW n \in Nat, NEW f \in [0 .. n -> Int]
  PROVE  /\ SumTo(f, n) \in Int
         /\ n = 0 => SumTo(f, n) = f[0]
         /\ n > 0 => SumTo(f, n) = f[n] + SumTo(f, n - 1) /\ SumTo(f, n - 1) \in Int
<1>1. IntTo(f, n) /\ (n > 0 => n - 1 \in Nat /\ IntTo(f, n - 1)) BY DEF IntTo
<1> QED BY <1>1, SumStep

-----------------------------------------------------------------------------
(* The inductive invariant.  total is an integer: that it is no less than   *)
(* what prune takes off it is TotalIsPast.                                  *)
Types == /\ at \in [Requests -> Stage] /\ used \in [Requests -> 0 .. Want + Slack]
         /\ total \in Int /\ past \in [0 .. Window -> Nat]

Slots == SlotsBounded /\ ReservedIsRunning

LEMMA Finite ==
  ASSUME at \in [Requests -> Stage]
  PROVE  /\ IsFiniteSet(Holding) /\ Cardinality(Holding) \in Nat
         /\ IsFiniteSet(Reserving) /\ Cardinality(Reserving) \in Nat
<1>1. Holding \subseteq Requests /\ Reserving \subseteq Requests
  BY DEF Holding, Reserving
<1> QED BY <1>1, Settings, FS_Subset, FS_CardinalityType

LEMMA TypesInit == BInit => Types
  BY Settings DEF BInit, Types, Stage

LEMMA TypesStep == Types /\ [BNext]_bvars => Types'
<1> SUFFICES ASSUME Types, [BNext]_bvars PROVE Types'
  OBVIOUS
<1> USE Settings DEF Types, Stage, budget
<1>1. Pruned \in Int /\ Kept \in [0 .. Window -> Nat]
  BY DEF Pruned, Kept
<1>2. ASSUME NEW q \in Requests, Enter(q) PROVE Types'
  BY <1>2 DEF Enter
<1>3. ASSUME NEW q \in Requests, Allow(q) PROVE Types'
  <2>1. /\ total' = Pruned /\ past' = Kept
        /\ at' \in [Requests -> Stage]
    BY <1>3 DEF Allow
  <2>2. used' \in [Requests -> 0 .. Want + Slack]
    <3>1. 0 \in 0 .. Want + Slack OBVIOUS
    <3>2. used' = [used EXCEPT ![q] = 0] \/ used' = used BY <1>3 DEF Allow
    <3> QED BY <3>1, <3>2
  <2> QED BY <1>1, <2>1, <2>2
<1>4. ASSUME NEW q \in Requests, Call(q) PROVE Types'
  <2>1. PICK u \in used[q] .. Want + Slack : used' = [used EXCEPT ![q] = u]
    BY <1>4 DEF Call, Run!Budgeted
  <2>2. used[q] \in 0 .. Want + Slack OBVIOUS
  <2>3. u \in 0 .. Want + Slack BY <2>1, <2>2
  <2> QED BY <1>4, <2>1, <2>3 DEF Call
<1>5. ASSUME NEW q \in Requests, Return(q) PROVE Types'
  BY <1>5 DEF Return
<1>6. ASSUME NEW q \in Requests, Settle(q) PROVE Types'
  <2>1. total' = Pruned + used[q] /\ used[q] \in Nat /\ UNCHANGED used
    BY <1>6 DEF Settle
  <2>2. at' \in [Requests -> Stage]
    BY <1>6 DEF Settle
  <2>3. past' = [Kept EXCEPT ![0] = Kept[0] + used[q]] /\ 0 \in 0 .. Window
    BY <1>6 DEF Settle
  <2>4. past' \in [0 .. Window -> Nat]
    BY <1>1, <2>1, <2>3
  <2>5. total' \in Int /\ used' \in [Requests -> 0 .. Want + Slack]
    BY <1>1, <2>1
  <2> QED BY ONLY <2>2, <2>4, <2>5 DEF Types
<1>7. ASSUME NEW q \in Requests, Release(q) PROVE Types'
  BY <1>1, <1>7 DEF Release
<1>8. CASE Tick
  <2>1. Older(past) \in [0 .. Window -> Nat] BY DEF Older
  <2> QED BY <1>8, <2>1 DEF Tick
<1>9. CASE UNCHANGED bvars
  BY <1>9 DEF bvars
<1> QED BY <1>2, <1>3, <1>4, <1>5, <1>6, <1>7, <1>8, <1>9 DEF BNext, Proceed

-----------------------------------------------------------------------------
(* How a step of one request changes who holds a slot and a reservation.    *)
LEMMA OneMore ==
  ASSUME NEW A, NEW x, IsFiniteSet(A), x \notin A
  PROVE  Cardinality(A \cup {x}) = Cardinality(A) + 1
  BY FS_AddElement

LEMMA OneLess ==
  ASSUME NEW A, NEW x, IsFiniteSet(A), x \in A
  PROVE  Cardinality(A \ {x}) = Cardinality(A) - 1 /\ Cardinality(A) \in Nat
  BY FS_RemoveElement, FS_CardinalityType

LEMMA Distribute ==
  ASSUME NEW w \in Nat, NEW n \in Int
  PROVE  w * (n + 1) = w * n + w /\ w * (n - 1) = w * n - w
  OBVIOUS

LEMMA SlotsInit == BInit => Slots
<1> SUFFICES ASSUME BInit PROVE Slots
  OBVIOUS
<1>1. Holding = {} /\ Reserving = {} BY DEF BInit, Holding, Reserving
<1>2. Cardinality({}) = 0 BY FS_EmptySet
<1> QED BY <1>1, <1>2, Settings DEF BInit, Slots, SlotsBounded, ReservedIsRunning

LEMMA SlotsStep == Types /\ Slots /\ [BNext]_bvars => Slots'
<1> SUFFICES ASSUME Types, Slots, [BNext]_bvars PROVE Slots'
  OBVIOUS
<1> USE DEF Types, budget
<1>1. /\ IsFiniteSet(Holding) /\ Cardinality(Holding) \in Nat
      /\ IsFiniteSet(Reserving) /\ Cardinality(Reserving) \in Nat
  BY Finite
<1>2. /\ Cardinality(Holding) <= MaxConcurrent
      /\ reserved = Want * Cardinality(Reserving)
  BY DEF Slots, SlotsBounded, ReservedIsRunning
<1>3. ASSUME Holding' = Holding, Reserving' = Reserving, UNCHANGED reserved PROVE Slots'
  BY <1>2, <1>3 DEF Slots, SlotsBounded, ReservedIsRunning
<1>4. ASSUME NEW q \in Requests, Enter(q) PROVE Slots'
  <2>1. Holding' = Holding \cup {q} /\ q \notin Holding
    BY <1>4 DEF Enter, Holding
  <2>2. Reserving' = Reserving /\ UNCHANGED reserved
    BY <1>4 DEF Enter, Reserving
  <2>3. Cardinality(Holding') = Cardinality(Holding) + 1 BY <1>1, <2>1, OneMore
  <2>4. Cardinality(Holding') <= MaxConcurrent
    BY <1>1, <1>4, <2>3, Settings DEF Enter, Free
  <2> QED BY <1>2, <2>2, <2>4 DEF Slots, SlotsBounded, ReservedIsRunning
<1>5. ASSUME NEW q \in Requests, Allow(q), Fits, reserved' = reserved + Want,
             at' = [at EXCEPT ![q] = "running"]
      PROVE  Slots'
  <2>1. Holding' = Holding BY <1>5 DEF Allow, Holding
  <2>2. Reserving' = Reserving \cup {q} /\ q \notin Reserving
    BY <1>5 DEF Allow, Reserving
  <2>3. Cardinality(Reserving') = Cardinality(Reserving) + 1 BY <1>1, <2>2, OneMore
  <2>4. reserved' = Want * Cardinality(Reserving')
    BY <1>1, <1>2, <1>5, <2>3, Distribute, Settings
  <2> QED BY <1>2, <2>1, <2>4 DEF Slots, SlotsBounded, ReservedIsRunning
<1>6. ASSUME NEW q \in Requests, at[q] \in {"slot", "settled"},
             at' = [at EXCEPT ![q] = "idle"], UNCHANGED reserved
      PROVE  Slots'
  <2>1. Holding' = Holding \ {q} /\ q \in Holding BY <1>6 DEF Holding
  <2>2. Reserving' = Reserving BY <1>6 DEF Reserving
  <2>3. Cardinality(Holding') <= MaxConcurrent
    BY <1>1, <1>2, <2>1, OneLess, Settings
  <2> QED BY <1>2, <1>6, <2>2, <2>3 DEF Slots, SlotsBounded, ReservedIsRunning
<1>7. ASSUME NEW q \in Requests, Settle(q) PROVE Slots'
  <2>1. Holding' = Holding BY <1>7 DEF Settle, Holding
  <2>2. Reserving' = Reserving \ {q} /\ q \in Reserving BY <1>7 DEF Settle, Reserving
  <2>3. Cardinality(Reserving') = Cardinality(Reserving) - 1 BY <1>1, <2>2, OneLess
  <2>4. reserved' = Want * Cardinality(Reserving')
    BY <1>1, <1>2, <1>7, <2>3, Distribute, Settings DEF Settle
  <2> QED BY <1>2, <2>1, <2>4 DEF Slots, SlotsBounded, ReservedIsRunning
<1>8. ASSUME NEW q \in Requests, Allow(q) PROVE Slots'
  BY <1>5, <1>6, <1>8 DEF Allow
<1>9. ASSUME NEW q \in Requests, Release(q) PROVE Slots'
  BY <1>6, <1>9 DEF Release
<1>10. ASSUME NEW q \in Requests, Call(q) PROVE Slots'
  BY <1>3, <1>10 DEF Call, Holding, Reserving
<1>11. ASSUME NEW q \in Requests, Return(q) PROVE Slots'
  BY <1>3, <1>11 DEF Return, Holding, Reserving
<1>12. CASE Tick \/ UNCHANGED bvars
  BY <1>3, <1>12 DEF Tick, bvars, Holding, Reserving
<1> QED
  BY <1>4, <1>7, <1>8, <1>9, <1>10, <1>11, <1>12 DEF BNext, Proceed

(* No overlap of requests lets more loops run than the semaphore allows, or *)
(* leaves a reservation behind a request that is over.                      *)
THEOREM SlotsAndReservations == BSpec => [](SlotsBounded /\ ReservedIsRunning)
<1>1. Slots => SlotsBounded /\ ReservedIsRunning BY DEF Slots
<1> QED BY TypesInit, TypesStep, SlotsInit, SlotsStep, <1>1, PTL DEF BSpec

-----------------------------------------------------------------------------
(* The reservation is what makes the limit one: while loops keep within     *)
(* their worst case, what is spent and what may still be spent fit it.      *)
NotOvercommitted == total + reserved <= Limit

LEMMA CommitStep ==
  ASSUME Slack = 0, Types, Slots, NotOvercommitted, [BNext]_bvars
  PROVE  NotOvercommitted'
<1> USE Settings DEF Types, budget, NotOvercommitted
<1>1. reserved \in Int
  <2>1. Cardinality(Reserving) \in Nat BY Finite
  <2> QED BY <2>1 DEF Slots, ReservedIsRunning
<1>2. past[Window] \in Nat /\ Pruned <= total /\ Pruned \in Int
  BY DEF Pruned
<1>3. ASSUME NEW q \in Requests, Allow(q) PROVE NotOvercommitted'
  BY <1>1, <1>2, <1>3 DEF Allow, Fits
<1>4. ASSUME NEW q \in Requests, Settle(q) PROVE NotOvercommitted'
  <2>1. used[q] <= Want /\ used[q] \in Int BY <1>4
  <2> QED BY <1>1, <1>2, <1>4, <2>1 DEF Settle
<1>5. ASSUME NEW q \in Requests, Release(q) PROVE NotOvercommitted'
  BY <1>1, <1>2, <1>5 DEF Release
<1>6. ASSUME NEW q \in Requests, Enter(q) \/ Call(q) \/ Return(q)
      PROVE  NotOvercommitted'
  BY <1>6 DEF Enter, Call, Return
<1>7. CASE Tick \/ UNCHANGED bvars
  BY <1>7 DEF Tick, bvars
<1> QED BY <1>3, <1>4, <1>5, <1>6, <1>7 DEF BNext, Proceed

(* Reserving the worst case is enough: whatever overlaps, what is spent and *)
(* what running loops may still spend never exceed the limit together, if   *)
(* no loop exceeds its worst case.                                          *)
THEOREM NeverOvercommitted ==
  ASSUME Slack = 0 PROVE BSpec => []NotOvercommitted
<1>1. BInit => NotOvercommitted
  BY Settings DEF BInit, NotOvercommitted
<1>2. Types /\ Slots /\ NotOvercommitted /\ [BNext]_bvars => NotOvercommitted'
  BY CommitStep
<1> QED BY TypesInit, TypesStep, SlotsInit, SlotsStep, <1>1, <1>2, PTL DEF BSpec

-----------------------------------------------------------------------------
(* The total and the entries it was made of.                                *)
LEMMA Ints == Types => /\ past \in [0 .. Window -> Int] /\ past[Window] \in Nat
                       /\ \A q \in Requests : used[q] \in Nat
  BY Settings DEF Types

LEMMA KeptSum ==
  ASSUME Types
  PROVE  /\ SumTo(Kept, Window) = SumTo(past, Window) - past[Window]
         /\ SumTo(Kept, Window) \in Int /\ Kept \in [0 .. Window -> Int]
         /\ SumTo(Kept, Window) = SumTo(past, Window - 1)
<1>1. /\ Window \in Nat /\ Window \in 0 .. Window /\ Window > 0
      /\ past \in [0 .. Window -> Int] /\ Kept \in [0 .. Window -> Int]
      /\ Kept[Window] = 0 /\ past[Window] \in Int
      /\ \A k \in 0 .. Window : k # Window => Kept[k] = past[k]
  BY Ints, Settings DEF Kept
<1>2. /\ SumTo(Kept, Window) = SumTo(past, Window) + Kept[Window] - past[Window]
      /\ SumTo(past, Window) \in Int /\ SumTo(Kept, Window) \in Int
  BY <1>1, Bumped
<1>3. /\ SumTo(past, Window) = past[Window] + SumTo(past, Window - 1)
      /\ SumTo(past, Window - 1) \in Int
  BY <1>1, Split
<1> QED BY <1>1, <1>2, <1>3

LEMMA LedgerStep == Types /\ TotalIsPast /\ [BNext]_bvars => TotalIsPast'
<1> SUFFICES ASSUME Types, TotalIsPast, [BNext]_bvars PROVE TotalIsPast'
  OBVIOUS
<1> USE DEF budget
<1>1. Pruned = SumTo(Kept, Window) /\ SumTo(Kept, Window) \in Int
  BY KeptSum DEF Pruned, TotalIsPast
<1>2. ASSUME total' = Pruned, past' = Kept PROVE TotalIsPast'
  BY <1>1, <1>2 DEF TotalIsPast
<1>3. ASSUME NEW q \in Requests, Settle(q) PROVE TotalIsPast'
  <2>1. past' = [Kept EXCEPT ![0] = Kept[0] + used[q]] /\ total' = Pruned + used[q]
    BY <1>3 DEF Settle
  <2>2. /\ Window \in Nat /\ 0 \in 0 .. Window /\ Kept[0] \in Int /\ used[q] \in Int
        /\ Kept \in [0 .. Window -> Int]
    BY KeptSum, Ints, Settings
  <2>3. /\ past' \in [0 .. Window -> Int] /\ past'[0] = Kept[0] + used[q]
        /\ \A k \in 0 .. Window : k # 0 => past'[k] = Kept[k]
    BY <2>1, <2>2
  <2>4. SumTo(past', Window) = SumTo(Kept, Window) + past'[0] - Kept[0]
    BY <2>2, <2>3, Bumped
  <2> QED BY <1>1, <2>1, <2>2, <2>3, <2>4 DEF TotalIsPast
<1>4. CASE Tick
  <2> DEFINE older == Older(past)
  <2>1. past' = [older EXCEPT ![Window] = older[Window] + past[Window]] /\ UNCHANGED total
    BY <1>4 DEF Tick
  <2>2. /\ Window \in Nat /\ Window > 0 /\ Window \in 0 .. Window
        /\ older \in [0 .. Window -> Int]
        /\ SumTo(older, Window) = SumTo(past, Window - 1)
    BY Aged, Ints, Settings
  <2> HIDE DEF older
  <2>3. older[Window] \in Int /\ past[Window] \in Int BY <2>2, Ints
  <2>4. /\ past' \in [0 .. Window -> Int] /\ past'[Window] = older[Window] + past[Window]
        /\ \A k \in 0 .. Window : k # Window => past'[k] = older[k]
    BY <2>1, <2>2, <2>3
  <2>6. SumTo(past', Window) = SumTo(older, Window) + past'[Window] - older[Window]
    BY <2>2, <2>4, Bumped
  <2>5. /\ SumTo(past, Window) = past[Window] + SumTo(past, Window - 1)
        /\ SumTo(past, Window - 1) \in Int
    BY <2>2, Ints, Split
  <2> QED BY <2>1, <2>2, <2>3, <2>4, <2>5, <2>6 DEF TotalIsPast
<1>5. ASSUME NEW q \in Requests, Enter(q) \/ Call(q) \/ Return(q)
      PROVE  TotalIsPast'
  BY <1>5 DEF Enter, Call, Return, TotalIsPast
<1>6. CASE UNCHANGED bvars
  BY <1>6 DEF bvars, TotalIsPast
<1>7. ASSUME NEW q \in Requests, Allow(q) \/ Release(q) PROVE TotalIsPast'
  BY <1>2, <1>7 DEF Allow, Release
<1> QED BY <1>3, <1>4, <1>5, <1>6, <1>7 DEF BNext, Proceed

LEMMA LedgerInit == BInit => TotalIsPast
<1> SUFFICES ASSUME BInit PROVE TotalIsPast
  OBVIOUS
<1>1. Window \in Nat /\ past = [a \in 0 .. Window |-> 0] /\ total = 0
  BY Settings DEF BInit
<1>2. SumTo(past, Window) = 0 BY <1>1, SumZero
<1> QED BY <1>1, <1>2 DEF TotalIsPast

(* Whatever order admissions, settlements and their prunes come in, the     *)
(* running total is the sum of the entries that are left.                   *)
THEOREM TotalIsKept == BSpec => []TotalIsPast
BY TypesInit, TypesStep, LedgerInit, LedgerStep, PTL DEF BSpec

-----------------------------------------------------------------------------
(* The ceiling.  Sums over the requests are sums along one order of them.   *)
Count == Cardinality(Requests)
Order == CHOOSE e \in [1 .. Count -> Requests] :
           /\ \A i, j \in 1 .. Count : e[i] = e[j] => i = j
           /\ \A q \in Requests : \E i \in 1 .. Count : e[i] = q

Along(f) == [k \in 0 .. Count |-> IF k = 0 THEN 0 ELSE f[Order[k]]]
Over(f)  == SumTo(Along(f), Count)

(* What the loops that have not settled have reserved, and what of it they  *)
(* have spent.                                                              *)
Claimed == [q \in Requests |-> IF q \in Reserving THEN Want ELSE 0]
Spent   == [q \in Requests |-> IF q \in Reserving THEN Within(used[q]) ELSE 0]

CoveredType == covered \in [0 .. Window - 1 -> Nat]

(* What was spent within a reservation in the last a ticks is settled no    *)
(* earlier than that, or is still to be settled: prune cannot have dropped  *)
(* it.                                                                      *)
ByAge == \A a \in 0 .. Window - 1 : SumTo(covered, a) <= SumTo(past, a) + Over(Spent)

ClaimedIsReserved == reserved = Over(Claimed)

(* The covered hour, and what running loops may yet add to it.              *)
Room == SumTo(covered, Window - 1) + reserved - Over(Spent) <= Limit

Ceiling == CoveredType /\ ByAge /\ ClaimedIsReserved /\ Room

LEMMA Ordered ==
  /\ Count \in Nat /\ Order \in [1 .. Count -> Requests]
  /\ \A i, j \in 1 .. Count : Order[i] = Order[j] => i = j
  /\ \A q \in Requests : \E i \in 1 .. Count : Order[i] = q
<1>1. Count \in Nat /\ ExistsBijection(1 .. Count, Requests)
  BY Settings, FS_CardinalityType DEF Count
<1>2. PICK e \in [1 .. Count -> Requests] :
        /\ \A i, j \in 1 .. Count : e[i] = e[j] => i = j
        /\ \A q \in Requests : \E i \in 1 .. Count : e[i] = q
  BY <1>1 DEF ExistsBijection, Bijection, Injection, Surjection, IsInjective
<1> QED BY <1>1, <1>2 DEF Order

LEMMA AlongType ==
  ASSUME NEW f \in [Requests -> Int]
  PROVE  Along(f) \in [0 .. Count -> Int]
  BY Ordered DEF Along

LEMMA OverChange ==
  ASSUME NEW f \in [Requests -> Int], NEW g \in [Requests -> Int], NEW q \in Requests,
         \A r \in Requests : r # q => g[r] = f[r]
  PROVE  Over(g) = Over(f) + g[q] - f[q] /\ Over(f) \in Int /\ Over(g) \in Int
<1>1. PICK i \in 1 .. Count : Order[i] = q BY Ordered
<1>2. Count \in Nat /\ i \in 0 .. Count BY Ordered
<1>3. Along(f) \in [0 .. Count -> Int] /\ Along(g) \in [0 .. Count -> Int]
  BY AlongType
<1>4. \A k \in 0 .. Count : k # i => Along(g)[k] = Along(f)[k]
  BY <1>1, Ordered DEF Along
<1>5. Along(g)[i] = g[q] /\ Along(f)[i] = f[q] BY <1>1, <1>2 DEF Along
<1> QED BY <1>2, <1>3, <1>4, <1>5, Bumped DEF Over

LEMMA OverLe ==
  ASSUME NEW f \in [Requests -> Int], NEW g \in [Requests -> Int],
         \A r \in Requests : f[r] <= g[r]
  PROVE  Over(f) <= Over(g) /\ Over(f) \in Int /\ Over(g) \in Int
<1>1. IntTo(Along(f), Count) /\ IntTo(Along(g), Count) /\ Count \in Nat
  <2>1. Along(f) \in [0 .. Count -> Int] /\ Along(g) \in [0 .. Count -> Int]
    BY AlongType
  <2> QED BY <2>1, Ordered DEF IntTo
<1>2. \A k \in 0 .. Count : Along(f)[k] <= Along(g)[k]
  BY Ordered DEF Along
<1>3. SumTo(Along(f), Count) <= SumTo(Along(g), Count) BY <1>1, <1>2, SumLe
<1>4. SumTo(Along(f), Count) \in Int /\ SumTo(Along(g), Count) \in Int
  BY <1>1, SumStep
<1> QED BY <1>3, <1>4 DEF Over

LEMMA OverZero ==
  ASSUME NEW f, \A r \in Requests : f[r] = 0
  PROVE  Over(f) = 0
<1>1. \A k \in 0 .. Count : Along(f)[k] = 0 BY Ordered DEF Along
<1> QED BY <1>1, Ordered, SumZero DEF Over

LEMMA SumSame ==
  ASSUME NEW n \in Nat, NEW f, NEW g, IntTo(f, n), \A k \in 0 .. n : g[k] = f[k]
  PROVE  SumTo(g, n) = SumTo(f, n)
<1>1. /\ IntTo(g, n) /\ \A k \in 0 .. n : g[k] <= f[k]
      /\ \A k \in 0 .. n : f[k] <= g[k]
  BY DEF IntTo
<1>2. SumTo(g, n) <= SumTo(f, n) BY <1>1, SumLe
<1>3. SumTo(f, n) <= SumTo(g, n) BY <1>1, SumLe
<1>4. SumTo(f, n) \in Int /\ SumTo(g, n) \in Int BY <1>1, SumStep
<1> QED BY <1>2, <1>3, <1>4

-----------------------------------------------------------------------------
WithinClaims ==
  /\ Claimed \in [Requests -> Int] /\ Spent \in [Requests -> Int]
  /\ 0 <= Over(Spent) /\ Over(Spent) <= Over(Claimed)
  /\ Over(Spent) \in Int /\ Over(Claimed) \in Int

LEMMA Amounts == Types => WithinClaims
<1> SUFFICES ASSUME Types PROVE WithinClaims
  OBVIOUS
<1> DEFINE none == [q \in Requests |-> 0]
<1>1. /\ Claimed \in [Requests -> Int] /\ Spent \in [Requests -> Int]
      /\ none \in [Requests -> Int]
  BY Ints, Settings DEF Claimed, Spent, Within
<1>2. \A q \in Requests : none[q] <= Spent[q] /\ Spent[q] <= Claimed[q]
  BY Ints, Settings DEF Claimed, Spent, Within
<1>3. Over(none) = 0 BY OverZero
<1> HIDE DEF none
<1>4. Over(none) <= Over(Spent) BY <1>1, <1>2, OverLe
<1>5. Over(Spent) <= Over(Claimed) BY <1>1, <1>2, OverLe
<1>6. Over(Spent) \in Int /\ Over(Claimed) \in Int BY <1>1, <1>2, OverLe
<1> QED BY <1>1, <1>3, <1>4, <1>5, <1>6 DEF WithinClaims

LEMMA Ages ==
  ASSUME Types, CoveredType
  PROVE  /\ covered \in [0 .. Window - 1 -> Int] /\ Window - 1 \in Nat
         /\ \A a \in 0 .. Window - 1 :
              /\ a \in Nat /\ IntTo(covered, a) /\ IntTo(past, a)
              /\ SumTo(covered, a) \in Int /\ SumTo(past, a) \in Int
<1>1. covered \in [0 .. Window - 1 -> Int] /\ Window - 1 \in Nat
  BY Settings DEF CoveredType
<1>2. \A a \in 0 .. Window - 1 : a \in Nat /\ IntTo(covered, a) /\ IntTo(past, a)
  BY <1>1, Ints, Settings DEF IntTo
<1> QED BY <1>1, <1>2, SumStep

LEMMA CeilingInit == BInit => Ceiling
<1> SUFFICES ASSUME BInit PROVE Ceiling
  OBVIOUS
<1>1. /\ Window - 1 \in Nat /\ covered = [a \in 0 .. Window - 1 |-> 0]
      /\ past = [a \in 0 .. Window |-> 0] /\ reserved = 0 /\ Limit \in Nat
  BY Settings DEF BInit
<1>2. \A q \in Requests : Claimed[q] = 0 /\ Spent[q] = 0
  BY DEF BInit, Claimed, Spent, Reserving
<1>3. Over(Claimed) = 0 /\ Over(Spent) = 0 BY <1>2, OverZero
<1>4. \A a \in 0 .. Window - 1 : SumTo(covered, a) = 0 /\ SumTo(past, a) = 0
  <2> TAKE a \in 0 .. Window - 1
  <2>1. /\ a \in Nat /\ \A k \in 0 .. a : k \in 0 .. Window - 1 /\ k \in 0 .. Window
    BY Settings
  <2>2. \A k \in 0 .. a : covered[k] = 0 /\ past[k] = 0 BY <1>1, <2>1
  <2> QED BY <2>1, <2>2, SumZero
<1>5. SumTo(covered, Window - 1) = 0 BY <1>1, <1>4
<1>6. CoveredType BY <1>1 DEF CoveredType
<1>7. ByAge BY <1>3, <1>4 DEF ByAge
<1>8. ClaimedIsReserved BY <1>1, <1>3 DEF ClaimedIsReserved
<1>9. Room BY <1>1, <1>3, <1>5 DEF Room
<1> QED BY <1>6, <1>7, <1>8, <1>9 DEF Ceiling

(* A step that moves no tokens and no reservations, whether or not it       *)
(* prunes: prune drops nothing younger than the window.                     *)
LEMMA CeilingKept ==
  ASSUME Types, Ceiling, UNCHANGED <<covered, reserved>>, Spent' = Spent,
         Claimed' = Claimed, past' \in {past, Kept}
  PROVE  Ceiling'
<1>1. \A a \in 0 .. Window - 1 : SumTo(past', a) = SumTo(past, a)
  <2> TAKE a \in 0 .. Window - 1
  <2>1. a \in Nat /\ IntTo(past, a) BY Ages DEF Ceiling
  <2>2. \A k \in 0 .. a : past'[k] = past[k] BY Ints, Settings DEF Kept
  <2> QED BY <2>1, <2>2, SumSame
<1> QED BY <1>1 DEF Ceiling, CoveredType, ByAge, ClaimedIsReserved, Room, Over, Along

LEMMA CeilingStep == Types /\ TotalIsPast /\ Ceiling /\ [BNext]_bvars => Ceiling'
<1> SUFFICES ASSUME Types, TotalIsPast, Ceiling, [BNext]_bvars PROVE Ceiling'
  OBVIOUS
<1> USE DEF budget
<1> DEFINE last == Window - 1
<1>0. /\ Types' /\ Want \in Nat /\ Limit \in Nat /\ Window \in Nat /\ last \in 0 .. last
      /\ at \in [Requests -> Stage] /\ \A q \in Requests : used[q] \in Nat
  BY TypesStep, Ints, Settings DEF Types
<1>1. /\ Over(Spent) \in Int /\ Over(Claimed) \in Int
      /\ Claimed \in [Requests -> Int] /\ Spent \in [Requests -> Int]
      /\ Over(Spent') \in Int /\ Over(Claimed') \in Int
      /\ Claimed' \in [Requests -> Int] /\ Spent' \in [Requests -> Int]
  <2>1. (Types => WithinClaims)' BY Amounts, PTL
  <2> QED BY <1>0, <2>1, Amounts DEF WithinClaims
<1>2. /\ \A a \in 0 .. last : SumTo(covered, a) \in Int /\ SumTo(past, a) \in Int
      /\ \A a \in 0 .. last : SumTo(covered, a) <= SumTo(past, a) + Over(Spent)
      /\ SumTo(covered, last) + reserved - Over(Spent) <= Limit
      /\ reserved = Over(Claimed)
  BY Ages DEF Ceiling, ByAge, Room, ClaimedIsReserved
<1>3. ASSUME NEW q \in Requests, Enter(q) PROVE Ceiling'
  <2>1. Reserving' = Reserving BY <1>3 DEF Enter, Reserving
  <2>2. Spent' = Spent /\ Claimed' = Claimed BY <1>3, <2>1 DEF Enter, Spent, Claimed
  <2> QED BY <1>3, <2>2, CeilingKept DEF Enter
<1>4. ASSUME NEW q \in Requests, Return(q) PROVE Ceiling'
  <2>1. Reserving' = Reserving BY <1>0, <1>4 DEF Return, Reserving
  <2>2. Spent' = Spent /\ Claimed' = Claimed BY <1>4, <2>1 DEF Return, Spent, Claimed
  <2> QED BY <1>4, <2>2, CeilingKept DEF Return
<1>5. ASSUME NEW q \in Requests, at[q] \in {"slot", "settled"},
             at' = [at EXCEPT ![q] = "idle"], used' \in {used, [used EXCEPT ![q] = 0]},
             past' = Kept, UNCHANGED <<reserved, covered>>
      PROVE  Ceiling'
  <2>1. Reserving' = Reserving /\ q \notin Reserving BY <1>0, <1>5 DEF Reserving
  <2>2. \A r \in Requests : r # q => used'[r] = used[r] BY <1>5 DEF Types
  <2>3. Spent' = Spent /\ Claimed' = Claimed BY <2>1, <2>2 DEF Spent, Claimed
  <2> QED BY <1>5, <2>3, CeilingKept
<1>6. ASSUME NEW q \in Requests, Allow(q), Fits, reserved' = reserved + Want,
             at' = [at EXCEPT ![q] = "running"], used' = [used EXCEPT ![q] = 0]
      PROVE  Ceiling'
  <2>1. Reserving' = Reserving \cup {q} /\ q \notin Reserving
    BY <1>0, <1>6 DEF Allow, Reserving
  <2>2. past' = Kept /\ UNCHANGED covered BY <1>6 DEF Allow
  <2>3. Spent' = Spent
    <3>1. \A r \in Requests : r # q => used'[r] = used[r] BY <1>0, <1>6
    <3>2. used'[q] = 0 /\ Within(0) = 0 BY <1>0, <1>6, Settings DEF Types, Within
    <3> QED BY <2>1, <3>1, <3>2 DEF Spent, Within
  <2>4. Over(Claimed') = Over(Claimed) + Want
    <3>1. /\ \A r \in Requests : r # q => Claimed'[r] = Claimed[r]
          /\ Claimed'[q] = Want /\ Claimed[q] = 0
      BY <2>1 DEF Claimed
    <3>2. Over(Claimed') = Over(Claimed) + Claimed'[q] - Claimed[q]
      BY <1>1, <3>1, OverChange
    <3> QED BY <1>0, <1>1, <3>1, <3>2
  <2>5. \A a \in 0 .. last : SumTo(past', a) = SumTo(past, a)
    <3> TAKE a \in 0 .. last
    <3>1. a \in Nat /\ IntTo(past, a) BY Ages DEF Ceiling
    <3>2. \A k \in 0 .. a : past'[k] = past[k] BY <2>2, Ints, Settings DEF Kept
    <3> QED BY <3>1, <3>2, SumSame
  <2>6. ClaimedIsReserved' BY <1>2, <1>6, <2>4 DEF ClaimedIsReserved
  <2>7. ByAge' BY <1>2, <2>2, <2>3, <2>5 DEF ByAge
  <2>8. Room'
    <3>1. Pruned = SumTo(past, last) BY KeptSum DEF Pruned, TotalIsPast
    <3>2. SumTo(past, last) + reserved + Want <= Limit BY <1>6, <3>1 DEF Fits
    <3>3. SumTo(covered, last) <= SumTo(past, last) + Over(Spent) BY <1>0, <1>2
    <3>4. SumTo(covered, last) + (reserved + Want) - Over(Spent) <= Limit
      BY <1>0, <1>1, <1>2, <3>2, <3>3
    <3> QED BY <1>6, <2>2, <2>3, <3>4 DEF Room
  <2> QED BY <2>2, <2>6, <2>7, <2>8 DEF Ceiling, CoveredType
<1>7. ASSUME NEW q \in Requests, Call(q) PROVE Ceiling'
  <2>1. PICK u \in Nat : /\ u > used[q] /\ used' = [used EXCEPT ![q] = u]
                         /\ covered' = [covered EXCEPT ![0] = @ + Within(u) - Within(used[q])]
    <3>1. PICK u \in used[q] .. Want + Slack :
            /\ u > used[q] /\ used' = [used EXCEPT ![q] = u]
            /\ covered' = [covered EXCEPT ![0] = @ + Within(u) - Within(used[q])]
      BY <1>7 DEF Call, Run!Budgeted
    <3>2. u \in Nat BY <1>0, <3>1, Settings
    <3> QED BY <3>1, <3>2
  <2> DEFINE d == Within(u) - Within(used[q])
  <2>2. d \in Nat /\ Within(u) \in Int /\ Within(used[q]) \in Int
    BY <1>0, <2>1 DEF Within
  <2>3. /\ q \in Reserving /\ Reserving' = Reserving /\ UNCHANGED <<past, reserved>>
    BY <1>7 DEF Call, Reserving
  <2>4. Over(Claimed') = Over(Claimed) BY <2>3 DEF Over, Along, Claimed
  <2>5. Over(Spent') = Over(Spent) + d
    <3>1. /\ \A r \in Requests : r # q => Spent'[r] = Spent[r]
          /\ Spent'[q] = Within(u) /\ Spent[q] = Within(used[q])
      BY <1>0, <2>1, <2>3, Settings DEF Spent, Within, Types
    <3>2. Over(Spent') = Over(Spent) + Spent'[q] - Spent[q]
      BY <1>1, <3>1, OverChange
    <3> QED BY <1>1, <2>2, <3>1, <3>2
  <2> HIDE DEF d
  <2>6. /\ covered \in [0 .. last -> Nat] /\ 0 \in 0 .. last
        /\ covered' \in [0 .. last -> Nat] /\ covered'[0] = covered[0] + d
        /\ \A k \in 0 .. last : k # 0 => covered'[k] = covered[k]
    <3>1. covered \in [0 .. last -> Nat] BY DEF Ceiling, CoveredType
    <3>2. 0 \in 0 .. last BY Settings
    <3>3. covered' = [covered EXCEPT ![0] = covered[0] + d]
      BY <2>1, <2>2, <3>1, <3>2 DEF d
    <3> QED BY <2>2, <3>1, <3>2, <3>3
  <2>7. \A a \in 0 .. last : SumTo(covered', a) = SumTo(covered, a) + d
    <3> TAKE a \in 0 .. last
    <3>1. a \in Nat /\ 0 \in 0 .. a /\ IntTo(covered, a) /\ IntTo(covered', a)
      BY <1>0, <2>6 DEF IntTo
    <3>2. \A k \in 0 .. a : k # 0 => covered'[k] = covered[k] BY <1>0, <2>6
    <3>3. SumTo(covered', a) = SumTo(covered, a) + covered'[0] - covered[0]
      BY <3>1, <3>2, SumChange
    <3>4. covered[0] \in Int /\ SumTo(covered, a) \in Int BY <1>2, <2>6
    <3> QED BY <2>2, <2>6, <3>3, <3>4
  <2>8. ByAge'
    <3> SUFFICES ASSUME NEW a \in 0 .. last
                 PROVE  SumTo(covered', a) <= SumTo(past, a) + Over(Spent')
      BY <2>3 DEF ByAge
    <3> QED BY <1>1, <1>2, <2>2, <2>5, <2>7
  <2>9. Room'
    <3>1. SumTo(covered', last) + reserved - Over(Spent') <= Limit
      BY <1>0, <1>1, <1>2, <2>2, <2>5, <2>7
    <3> QED BY <2>3, <3>1 DEF Room
  <2> QED
    BY <1>2, <2>3, <2>4, <2>6, <2>8, <2>9 DEF Ceiling, CoveredType, ClaimedIsReserved
<1>8. ASSUME NEW q \in Requests, Settle(q) PROVE Ceiling'
  <2> DEFINE w == Within(used[q])
  <2>1. w \in Nat /\ w <= Want /\ w <= used[q] BY <1>0 DEF Within
  <2>2. /\ q \in Reserving /\ Reserving' = Reserving \ {q}
        /\ UNCHANGED <<used, covered>> /\ reserved' = reserved - Want
    BY <1>0, <1>8 DEF Settle, Reserving
  <2>3. Over(Claimed') = Over(Claimed) - Want
    <3>1. /\ \A r \in Requests : r # q => Claimed'[r] = Claimed[r]
          /\ Claimed'[q] = 0 /\ Claimed[q] = Want
      BY <2>2 DEF Claimed
    <3>2. Over(Claimed') = Over(Claimed) + Claimed'[q] - Claimed[q]
      BY <1>1, <3>1, OverChange
    <3> QED BY <1>0, <1>1, <3>1, <3>2
  <2>4. Over(Spent') = Over(Spent) - w
    <3>1. /\ \A r \in Requests : r # q => Spent'[r] = Spent[r]
          /\ Spent'[q] = 0 /\ Spent[q] = w
      BY <2>2 DEF Spent, Within
    <3>2. Over(Spent') = Over(Spent) + Spent'[q] - Spent[q]
      BY <1>1, <3>1, OverChange
    <3> QED BY <1>1, <2>1, <3>1, <3>2
  <2> HIDE DEF w
  <2>5. \A a \in 0 .. last : SumTo(past', a) = SumTo(past, a) + used[q]
    <3> TAKE a \in 0 .. last
    <3>1. /\ \A k \in 0 .. Window - 1 : k # 0 => past'[k] = past[k]
          /\ past'[0] = past[0] + used[q] /\ past \in [0 .. Window -> Nat]
          /\ past' \in [0 .. Window -> Nat]
      <4>1. past \in [0 .. Window -> Nat] /\ past' \in [0 .. Window -> Nat]
        BY <1>0 DEF Types
      <4>2. /\ past' = [Kept EXCEPT ![0] = Kept[0] + used[q]]
            /\ Kept = [past EXCEPT ![Window] = 0]
        BY <1>8 DEF Settle, Kept
      <4>3. Window \in Nat \ {0} /\ 0 \in 0 .. Window BY <1>0, Settings
      <4>4. \A k \in 0 .. Window - 1 : k \in 0 .. Window /\ k # Window BY <4>3
      <4>5. \A k \in 0 .. Window - 1 : Kept[k] = past[k] BY <4>1, <4>2, <4>4
      <4>6. Kept \in [0 .. Window -> Nat] BY <4>1, <4>2
      <4>7. 0 \in 0 .. Window - 1 BY <4>3
      <4> QED BY <4>1, <4>2, <4>3, <4>4, <4>5, <4>6, <4>7
    <3>2. a \in Nat /\ 0 \in 0 .. a /\ IntTo(past, a) /\ IntTo(past', a)
      BY <1>0, <3>1 DEF IntTo
    <3>3. \A k \in 0 .. a : k # 0 => past'[k] = past[k] BY <1>0, <3>1
    <3>4. SumTo(past', a) = SumTo(past, a) + past'[0] - past[0]
      BY <3>2, <3>3, SumChange
    <3>5. past[0] \in Int /\ SumTo(past, a) \in Int BY <1>2, <3>2 DEF IntTo
    <3> QED BY <1>0, <3>1, <3>4, <3>5
  <2>6. ByAge'
    <3> SUFFICES ASSUME NEW a \in 0 .. last
                 PROVE  SumTo(covered, a) <= SumTo(past', a) + Over(Spent')
      BY <2>2 DEF ByAge
    <3> QED BY <1>0, <1>1, <1>2, <2>1, <2>4, <2>5
  <2>7. Room'
    <3>1. SumTo(covered, last) + (reserved - Want) - Over(Spent') <= Limit
      BY <1>0, <1>1, <1>2, <2>1, <2>4
    <3> QED BY <2>2, <3>1 DEF Room
  <2> QED
    BY <1>2, <2>2, <2>3, <2>6, <2>7 DEF Ceiling, CoveredType, ClaimedIsReserved
<1>9. CASE Tick
  <2>1. /\ UNCHANGED <<at, used, reserved>> /\ covered' = Older(covered)
        /\ \A k \in 0 .. last : past'[k] = Older(past)[k]
    <3>1. /\ \A k \in 0 .. last : k \in 0 .. Window /\ k # Window
          /\ Older(past) \in [0 .. Window -> Int]
          /\ past' = [Older(past) EXCEPT ![Window] = @ + past[Window]]
      BY <1>0, <1>9, Aged, Ints DEF Tick
    <3>2. \A k \in 0 .. last : past'[k] = Older(past)[k] BY <3>1
    <3> QED BY <1>9, <3>2 DEF Tick
  <2>2. Spent' = Spent /\ Claimed' = Claimed
    BY <2>1 DEF Spent, Claimed, Reserving
  <2>3. /\ covered \in [0 .. last -> Nat] /\ covered' \in [0 .. last -> Nat]
        /\ covered'[0] = 0 /\ \A k \in 1 .. last : covered'[k] = covered[k - 1]
    BY <2>1, Settings DEF Ceiling, CoveredType, Older
  <2>4. /\ past'[0] = 0 /\ \A k \in 1 .. last : past'[k] = past[k - 1]
        /\ past \in [0 .. Window -> Int] /\ past' \in [0 .. Window -> Int]
    <3>1. past \in [0 .. Window -> Int] /\ past' \in [0 .. Window -> Int]
      BY <1>0, Settings DEF Types
    <3>2. \A k \in 0 .. last : Older(past)[k] = IF k = 0 THEN 0 ELSE past[k - 1]
      BY <1>0, <3>1 DEF Older
    <3>3. 0 \in 0 .. last /\ \A k \in 1 .. last : k \in 0 .. last /\ k # 0 BY <1>0
    <3> QED BY <2>1, <3>1, <3>2, <3>3
  <2>5. ASSUME NEW a \in 0 .. last
        PROVE  /\ SumTo(covered', a) = IF a = 0 THEN 0 ELSE SumTo(covered, a - 1)
               /\ SumTo(past', a) = IF a = 0 THEN 0 ELSE SumTo(past, a - 1)
    <3>1. /\ a \in Nat /\ IntTo(covered, a) /\ IntTo(covered', a)
          /\ IntTo(past, a) /\ IntTo(past', a)
      BY <1>0, <2>3, <2>4 DEF IntTo
    <3>2. /\ \A k \in 1 .. a : covered'[k] = covered[k - 1]
          /\ \A k \in 1 .. a : past'[k] = past[k - 1]
      BY <1>0, <2>3, <2>4
    <3> QED BY <2>3, <2>4, <3>1, <3>2, SumOlder
  <2>6. 0 <= Over(Spent) BY Amounts DEF WithinClaims
  <2>7. ByAge'
    <3> SUFFICES ASSUME NEW a \in 0 .. last
                 PROVE  SumTo(covered', a) <= SumTo(past', a) + Over(Spent)
      BY <2>2 DEF ByAge
    <3>1. CASE a = 0 BY <1>1, <2>5, <2>6, <3>1
    <3>2. CASE a # 0
      <4>1. a - 1 \in 0 .. last BY <1>0, <3>2
      <4> QED BY <1>2, <2>5, <3>2, <4>1
    <3> QED BY <3>1, <3>2
  <2>8. SumTo(covered', last) <= SumTo(covered, last) /\ SumTo(covered', last) \in Int
    <3>1. /\ last \in Nat /\ covered[last] \in Nat
          /\ covered \in [0 .. last -> Int]
      BY <1>0, <2>3, Settings
    <3>2. /\ last = 0 => SumTo(covered, last) = covered[0]
          /\ last > 0 => /\ SumTo(covered, last) = covered[last] + SumTo(covered, last - 1)
                         /\ SumTo(covered, last - 1) \in Int
      BY <3>1, Split
    <3>3. SumTo(covered', last) = IF last = 0 THEN 0 ELSE SumTo(covered, last - 1)
      BY <1>0, <2>5
    <3>4. CASE last = 0 BY <3>1, <3>2, <3>3, <3>4
    <3>5. CASE last # 0
      <4>1. last > 0 BY <1>0, <3>1, <3>5, Settings
      <4> QED BY <3>1, <3>2, <3>3, <3>5, <4>1
    <3> QED BY <3>4, <3>5
  <2>9. Room'
    <3>1. SumTo(covered', last) + reserved - Over(Spent) <= Limit
      BY <1>0, <1>1, <1>2, <2>8
    <3> QED BY <2>1, <2>2, <3>1 DEF Room
  <2> QED
    BY <1>2, <2>1, <2>2, <2>3, <2>7, <2>9 DEF Ceiling, CoveredType, ClaimedIsReserved
<1>10. CASE UNCHANGED bvars
  <2>1. Spent' = Spent /\ Claimed' = Claimed
    BY <1>10 DEF bvars, Spent, Claimed, Reserving
  <2> QED BY <1>10, <2>1, CeilingKept DEF bvars
<1>11. ASSUME NEW q \in Requests, Allow(q) PROVE Ceiling'
  BY <1>5, <1>6, <1>11 DEF Allow
<1>12. ASSUME NEW q \in Requests, Release(q) PROVE Ceiling'
  BY <1>5, <1>12 DEF Release
<1> QED
  BY <1>3, <1>4, <1>7, <1>8, <1>9, <1>10, <1>11, <1>12 DEF BNext, Proceed

(* The limit is one on any hour: however requests overlap and whenever they *)
(* settle, what loops spend within their reservations in the last Window is *)
(* at most Limit, even where other loops overshoot theirs.                  *)
THEOREM AnyHour == BSpec => []HourlyCeiling
<1>1. Types /\ Ceiling => HourlyCeiling
  <2> SUFFICES ASSUME Types, Ceiling PROVE HourlyCeiling
    OBVIOUS
  <2>1. Over(Spent) <= reserved /\ Over(Spent) \in Int /\ reserved \in Int
    BY Amounts DEF Ceiling, ClaimedIsReserved, WithinClaims
  <2>2. SumTo(covered, Window - 1) \in Int BY Ages, Settings DEF Ceiling
  <2> QED BY <2>1, <2>2, Settings DEF Ceiling, Room, HourlyCeiling
<1> QED
  BY TypesInit, TypesStep, LedgerInit, LedgerStep, CeilingInit, CeilingStep, <1>1, PTL
  DEF BSpec
=============================================================================
