---------------------------- MODULE Boot_proofs ----------------------------
(* Theorems about the processes of a deployment, for any number of gateways *)
(* and indexers, of any releases, that boot, crash and stop in any order.   *)
EXTENDS Boot, SequenceTheorems, TLAPS

LEMMA Constants ==
  /\ Gateways \cap Indexers = {} /\ Probed \subseteq Processes
  /\ Release \in [Processes -> Nat]
  /\ Deadline \in Nat /\ Hold \in Nat /\ TTL \in Nat /\ Window \in Nat
  /\ Deadline > 0 /\ Hold > 0 /\ TTL > 0 /\ Hold <= Window
  BY BootAssumption DEF BootAssumption, Window

Places == {"configuring", "connecting", "waiting", "applying", "sweeping", "serving",
           "draining", "gone"}

(* Processes step one at a time, and a step leaves the others where they    *)
(* were.                                                                    *)
PlacesType == pc \in [Processes -> Places]

-----------------------------------------------------------------------------
(* Migrations.  The one that holds the lock is about to apply exactly what  *)
(* the ledger and its own transaction lack, and nobody else commits.        *)
Past(p) == \/ pc[p] \in {"sweeping", "serving", "draining"}
           \/ p \in Gateways /\ pc[p] = "configuring"

LedgerType == /\ ledger \in Seq(Nat)
              /\ plan \in [Processes -> SUBSET Nat]
              /\ done \in [Processes -> Seq(Nat)]

InOrder == \A k \in DOMAIN ledger : ledger[k] = k

OneApplies ==
  \A p, q \in Processes : pc[p] = "applying" /\ pc[q] = "applying" => p = q

Remaining ==
  \A p \in Processes :
    IF pc[p] = "applying"
    THEN /\ plan[p] = (Len(ledger) + Len(done[p]) + 1) .. Release[p]
         /\ \A k \in DOMAIN done[p] : done[p][k] = Len(ledger) + k
    ELSE done[p] = <<>>

Migrated == \A p \in Processes : Past(p) => Release[p] <= Len(ledger)

MInv == PlacesType /\ LedgerType /\ InOrder /\ OneApplies /\ Remaining /\ Migrated

LEMMA MInit == BInit => MInv
<1> SUFFICES ASSUME BInit PROVE MInv
  OBVIOUS
<1>1. PlacesType BY DEF BInit, PlacesType, Places
<1>2. LedgerType BY DEF BInit, LedgerType
<1>3. InOrder /\ OneApplies /\ Remaining
  BY DEF BInit, InOrder, OneApplies, Remaining
<1>4. Migrated BY Constants DEF BInit, Migrated, Past
<1> QED BY <1>1, <1>2, <1>3, <1>4 DEF MInv

(* A process that is gone holds nothing of a migration.                     *)
LEMMA ExitMigration ==
  ASSUME MInv, NEW p \in Processes, Exit(p)
  PROVE  MInv'
<1>1. /\ pc' = [pc EXCEPT ![p] = "gone"] /\ UNCHANGED ledger
      /\ plan' = [plan EXCEPT ![p] = {}] /\ done' = [done EXCEPT ![p] = <<>>]
  BY DEF Exit, Goes
<1> USE DEF MInv, PlacesType
<1>2. PlacesType' BY <1>1 DEF Places
<1>3. LedgerType' BY <1>1 DEF LedgerType
<1>4. InOrder' BY <1>1 DEF InOrder
<1>5. OneApplies' BY <1>1 DEF OneApplies
<1>6. Remaining' BY <1>1 DEF Remaining, LedgerType
<1>7. Migrated' BY <1>1 DEF Migrated, Past
<1> QED BY <1>2, <1>3, <1>4, <1>5, <1>6, <1>7

(* A step from place to place that is not one of a migration.               *)
LEMMA MoveMigration ==
  ASSUME MInv, NEW p \in Processes, NEW to \in Places, Goes(p, to),
         UNCHANGED migration, pc[p] # "applying", to # "applying",
         Past(p)' => Past(p)
  PROVE  MInv'
<1>1. pc' = [pc EXCEPT ![p] = to] /\ UNCHANGED <<ledger, plan, done>>
  BY DEF Goes, migration
<1> USE DEF MInv, PlacesType
<1>2. PlacesType' BY <1>1
<1>3. LedgerType' BY <1>1 DEF LedgerType
<1>4. InOrder' BY <1>1 DEF InOrder
<1>5. OneApplies' BY <1>1 DEF OneApplies
<1>6. Remaining' BY <1>1 DEF Remaining
<1>7. Migrated' BY <1>1 DEF Migrated, Past
<1> QED BY <1>2, <1>3, <1>4, <1>5, <1>6, <1>7

LEMMA Lengths ==
  ASSUME MInv, NEW p \in Processes
  PROVE  /\ ledger \in Seq(Nat) /\ done[p] \in Seq(Nat) /\ Len(ledger) \in Nat
         /\ Len(done[p]) \in Nat /\ DOMAIN ledger = 1 .. Len(ledger)
         /\ DOMAIN done[p] = 1 .. Len(done[p]) /\ Release[p] \in Nat
         /\ plan \in [Processes -> SUBSET Nat] /\ done \in [Processes -> Seq(Nat)]
<1>1. ledger \in Seq(Nat) /\ done[p] \in Seq(Nat) BY DEF MInv, LedgerType
<1>2. Release[p] \in Nat BY Constants
<1> QED BY <1>1, <1>2 DEF MInv, LedgerType

LEMMA FirstOfInterval ==
  ASSUME NEW a \in Nat, NEW b \in Nat, a .. b # {}
  PROVE  /\ (CHOOSE n \in a .. b : \A m \in a .. b : n <= m) = a
         /\ (a .. b) \ {a} = (a + 1) .. b
<1>1. a \in a .. b /\ \A m \in a .. b : a <= m OBVIOUS
<1>2. \A n \in a .. b : (\A m \in a .. b : n <= m) => n = a BY <1>1
<1>3. (CHOOSE n \in a .. b : \A m \in a .. b : n <= m) = a BY <1>1, <1>2
<1>4. (a .. b) \ {a} = (a + 1) .. b OBVIOUS
<1> QED BY <1>3, <1>4

LEMMA MStep == MInv /\ [BNext]_bvars => MInv'
<1> SUFFICES ASSUME MInv, [BNext]_bvars PROVE MInv'
  OBVIOUS
<1>1. ASSUME UNCHANGED <<pc, migration>> PROVE MInv'
  BY <1>1 DEF MInv, PlacesType, LedgerType, InOrder, OneApplies, Remaining, Migrated,
              Past, migration
<1>2. ASSUME NEW p \in Processes, Configure(p) PROVE MInv'
  <2>1. \/ Exit(p)
        \/ /\ Goes(p, IF p \in Gateways THEN "serving" ELSE "connecting")
           /\ UNCHANGED migration
    BY <1>2 DEF Configure
  <2>2. ASSUME Goes(p, IF p \in Gateways THEN "serving" ELSE "connecting"),
               UNCHANGED migration
        PROVE  MInv'
    <3>1. pc[p] = "configuring" BY <1>2 DEF Configure
    <3>2. Past(p)' => Past(p) BY <2>2, <3>1 DEF Past, Goes, MInv, PlacesType
    <3>3. CASE p \in Gateways BY <2>2, <3>1, <3>2, <3>3, MoveMigration DEF Places
    <3>4. CASE p \notin Gateways BY <2>2, <3>1, <3>2, <3>4, MoveMigration DEF Places
    <3> QED BY <3>3, <3>4
  <2> QED BY <2>1, <2>2, ExitMigration
<1>3. ASSUME NEW p \in Processes, Connect(p) PROVE MInv'
  <2>1. Exit(p) \/ (Goes(p, "waiting") /\ UNCHANGED migration /\ pc[p] = "connecting")
    BY <1>3 DEF Connect
  <2>2. ASSUME Goes(p, "waiting"), UNCHANGED migration, pc[p] = "connecting"
        PROVE  MInv'
    <3>1. ~Past(p)' BY <2>2 DEF Past, Goes, MInv, PlacesType
    <3> QED BY <2>2, <3>1, MoveMigration DEF Places
  <2> QED BY <2>1, <2>2, ExitMigration
<1>4. ASSUME NEW p \in Processes, Lock(p) PROVE MInv'
  <2>1. /\ pc[p] = "waiting" /\ \A q \in Processes \ {p} : pc[q] # "applying"
        /\ pc' = [pc EXCEPT ![p] = "applying"] /\ UNCHANGED <<ledger, done>>
        /\ plan' = [plan EXCEPT ![p] = (1 .. Release[p]) \ {ledger[k] : k \in DOMAIN ledger}]
    BY <1>4 DEF Lock, Free, Goes
  <2> USE DEF MInv, PlacesType
  <2>2. {ledger[k] : k \in DOMAIN ledger} = 1 .. Len(ledger) /\ Len(ledger) \in Nat
    <3>1. Len(ledger) \in Nat /\ DOMAIN ledger = 1 .. Len(ledger) BY Lengths
    <3>2. \A k \in 1 .. Len(ledger) : ledger[k] = k BY <3>1 DEF InOrder
    <3> QED BY <3>1, <3>2
  <2>3. done[p] = <<>> BY <2>1 DEF Remaining
  <2>4. (1 .. Release[p]) \ (1 .. Len(ledger)) = (Len(ledger) + 1) .. Release[p]
    BY <2>2, Constants
  <2>5. PlacesType' BY <2>1 DEF Places
  <2>6. LedgerType'
    <3>1. plan' \in [Processes -> SUBSET Nat]
      <4>1. (1 .. Release[p]) \ {ledger[k] : k \in DOMAIN ledger} \subseteq Nat OBVIOUS
      <4> QED BY <2>1, <4>1 DEF LedgerType
    <3> QED BY <2>1, <3>1 DEF LedgerType
  <2>7. InOrder' BY <2>1 DEF InOrder
  <2>8. OneApplies' BY <2>1 DEF OneApplies
  <2>9. Remaining'
    <3> SUFFICES ASSUME NEW q \in Processes
                 PROVE  IF pc'[q] = "applying"
                        THEN /\ plan'[q] = (Len(ledger) + Len(done[q]) + 1) .. Release[q]
                             /\ \A k \in DOMAIN done[q] : done[q][k] = Len(ledger) + k
                        ELSE done[q] = <<>>
      BY <2>1 DEF Remaining
    <3>1. CASE q = p
      <4>1. plan'[q] = (Len(ledger) + 1) .. Release[q]
        BY <2>1, <2>2, <2>4, <3>1 DEF LedgerType
      <4>2. Len(done[q]) = 0 /\ DOMAIN done[q] = {} BY <2>3, <3>1
      <4> QED BY <2>1, <2>2, <3>1, <4>1, <4>2
    <3>2. CASE q # p BY <2>1, <3>2 DEF Remaining
    <3> QED BY <3>1, <3>2
  <2>10. Migrated' BY <2>1 DEF Migrated, Past
  <2> QED BY <2>5, <2>6, <2>7, <2>8, <2>9, <2>10
<1>5. ASSUME NEW p \in Processes, Apply(p) PROVE MInv'
  <2> DEFINE next == Len(ledger) + Len(done[p]) + 1
  <2>1. pc[p] = "applying" /\ plan[p] # {} /\ UNCHANGED <<pc, ledger>>
    BY <1>5 DEF Apply
  <2>2. /\ plan[p] = next .. Release[p]
        /\ \A k \in 1 .. Len(done[p]) : done[p][k] = Len(ledger) + k
    BY <2>1, Lengths DEF MInv, Remaining
  <2>3. /\ next \in Nat /\ Release[p] \in Nat /\ Len(ledger) \in Nat
        /\ Len(done[p]) \in Nat
    BY Lengths
  <2> HIDE DEF next
  <2>4. /\ (CHOOSE n \in plan[p] : \A m \in plan[p] : n <= m) = next
        /\ plan[p] \ {next} = (next + 1) .. Release[p]
    BY <2>1, <2>2, <2>3, FirstOfInterval
  <2>5. /\ plan' = [plan EXCEPT ![p] = plan[p] \ {next}]
        /\ done' = [done EXCEPT ![p] = Append(done[p], next)]
    BY <1>5, <2>4 DEF Apply
  <2>6. /\ done'[p] = Append(done[p], next) /\ Len(done'[p]) = Len(done[p]) + 1
        /\ done' \in [Processes -> Seq(Nat)] /\ done'[p] \in Seq(Nat)
    BY <2>3, <2>5, Lengths
  <2>7. plan'[p] = (next + 1) .. Release[p] /\ plan' \in [Processes -> SUBSET Nat]
    <3>1. (next + 1) .. Release[p] \subseteq Nat BY <2>3
    <3> QED BY <2>4, <2>5, <3>1, Lengths
  <2>8. \A k \in DOMAIN done'[p] : done'[p][k] = Len(ledger) + k
    <3> SUFFICES ASSUME NEW k \in 1 .. Len(done[p]) + 1
                 PROVE  done'[p][k] = Len(ledger) + k
      <4>1. DOMAIN done'[p] = 1 .. Len(done'[p]) BY <2>6
      <4> QED BY <2>6, <4>1
    <3>1. CASE k = Len(done[p]) + 1
      BY <2>3, <2>6, <3>1, Lengths DEF next
    <3>2. CASE k # Len(done[p]) + 1
      <4>1. k \in 1 .. Len(done[p]) BY <2>3, <3>2
      <4>2. done'[p][k] = done[p][k] BY <2>6, <4>1, Lengths
      <4> QED BY <2>2, <4>1, <4>2
    <3> QED BY <3>1, <3>2
  <2>9. PlacesType' /\ InOrder' /\ OneApplies' /\ Migrated'
    BY <2>1 DEF MInv, PlacesType, InOrder, OneApplies, Migrated, Past
  <2>10. LedgerType' BY <2>1, <2>6, <2>7, Lengths DEF LedgerType
  <2>11. Remaining'
    <3> SUFFICES ASSUME NEW q \in Processes
                 PROVE  IF pc[q] = "applying"
                        THEN /\ plan'[q] = (Len(ledger) + Len(done'[q]) + 1) .. Release[q]
                             /\ \A k \in DOMAIN done'[q] : done'[q][k] = Len(ledger) + k
                        ELSE done'[q] = <<>>
      BY <2>1 DEF Remaining
    <3>1. CASE q = p
      <4>1. next + 1 = Len(ledger) + Len(done'[p]) + 1 BY <2>3, <2>6 DEF next
      <4> QED BY <2>1, <2>7, <2>8, <3>1, <4>1
    <3>2. CASE q # p BY <2>5, <3>2 DEF Remaining, MInv, LedgerType
    <3> QED BY <3>1, <3>2
  <2> QED BY <2>9, <2>10, <2>11 DEF MInv
<1>6. ASSUME NEW p \in Processes, Commit(p) PROVE MInv'
  <2>0. /\ pc[p] = "applying" /\ plan[p] = {} /\ UNCHANGED plan
        /\ pc' = [pc EXCEPT ![p] = IF p \in Gateways THEN "configuring" ELSE "sweeping"]
        /\ ledger' = ledger \o done[p] /\ done' = [done EXCEPT ![p] = <<>>]
    BY <1>6 DEF Commit, Goes
  <2>1. /\ ledger \in Seq(Nat) /\ done[p] \in Seq(Nat) /\ Len(ledger) \in Nat
        /\ Len(done[p]) \in Nat /\ Release[p] \in Nat
        /\ DOMAIN ledger = 1 .. Len(ledger) /\ DOMAIN done[p] = 1 .. Len(done[p])
    BY Lengths
  <2>2. /\ plan[p] = (Len(ledger) + Len(done[p]) + 1) .. Release[p]
        /\ \A k \in DOMAIN done[p] : done[p][k] = Len(ledger) + k
    BY <2>0 DEF MInv, Remaining
  <2>3. Len(ledger') = Len(ledger) + Len(done[p]) /\ ledger' \in Seq(Nat)
    BY <2>0, <2>1
  <2>4. Release[p] <= Len(ledger')
    <3>1. (Len(ledger) + Len(done[p]) + 1) .. Release[p] = {} BY <2>0, <2>2
    <3>2. \A n, m \in Nat : n .. m = {} => ~(n <= m) OBVIOUS
    <3>3. ~(Len(ledger) + Len(done[p]) + 1 <= Release[p]) BY <2>1, <3>1, <3>2
    <3> QED BY <2>1, <2>3, <3>3
  <2>5. \A q \in Processes : q # p => pc'[q] = pc[q] /\ pc[q] # "applying"
    BY <2>0 DEF MInv, PlacesType, OneApplies
  <2>6. pc'[p] # "applying" BY <2>0 DEF MInv, PlacesType
  <2>7. PlacesType' BY <2>0 DEF MInv, PlacesType, Places
  <2>8. LedgerType' BY <2>0, <2>3 DEF MInv, LedgerType
  <2>9. InOrder'
    <3> SUFFICES ASSUME NEW k \in DOMAIN ledger' PROVE ledger'[k] = k
      BY DEF InOrder
    <3>1. CASE k <= Len(ledger)
      BY <2>0, <2>1, <2>3, <3>1 DEF MInv, InOrder
    <3>2. CASE k > Len(ledger)
      <4>1. k - Len(ledger) \in DOMAIN done[p] /\ ledger'[k] = done[p][k - Len(ledger)]
        BY <2>0, <2>1, <2>3, <3>2
      <4>2. done[p][k - Len(ledger)] = Len(ledger) + (k - Len(ledger)) BY <2>2, <4>1
      <4>3. k \in Nat BY <2>3
      <4> QED BY <2>1, <4>1, <4>2, <4>3
    <3> QED BY <2>1, <2>3, <3>1, <3>2
  <2>10. OneApplies' BY <2>5, <2>6 DEF OneApplies
  <2>11. Remaining'
    BY <2>0, <2>5, <2>6 DEF MInv, Remaining, LedgerType
  <2>12. Migrated'
    <3> SUFFICES ASSUME NEW q \in Processes, Past(q)' PROVE Release[q] <= Len(ledger')
      BY DEF Migrated
    <3>1. CASE q = p BY <2>4, <3>1
    <3>2. CASE q # p
      <4>1. Past(q) BY <2>5, <3>2 DEF Past
      <4>2. Release[q] <= Len(ledger) BY <4>1 DEF MInv, Migrated
      <4> QED BY <2>1, <2>3, <4>2, Constants
    <3> QED BY <3>1, <3>2
  <2> QED BY <2>7, <2>8, <2>9, <2>10, <2>11, <2>12 DEF MInv
<1>7. ASSUME NEW p \in Processes, GiveUp(p) \/ Drained(p) \/ Kill(p) PROVE MInv'
  BY <1>7, ExitMigration DEF GiveUp, Drained, Kill
<1>8. ASSUME NEW p \in Processes, Terminate(p) PROVE MInv'
  <2>1. pc[p] = "serving" /\ Goes(p, "draining") /\ UNCHANGED migration
    BY <1>8 DEF Terminate
  <2>2. Past(p) BY <2>1 DEF Past
  <2> QED BY <2>1, <2>2, MoveMigration DEF Places
<1>9. ASSUME NEW i \in Indexers, Swept(i) PROVE MInv'
  <2>1. pc[i] = "sweeping" /\ Goes(i, "serving") /\ UNCHANGED migration
    BY <1>9 DEF Swept
  <2>2. Past(i) /\ i \in Processes BY <2>1 DEF Past, Processes
  <2> QED BY <2>1, <2>2, MoveMigration DEF Places
<1>10. ASSUME NEW i \in Indexers, Look(i) \/ Remove(i) \/ Begin(i) \/ End(i) PROVE MInv'
  BY <1>1, <1>10 DEF Look, Remove, Begin, End
<1>11. ASSUME NEW p \in Probed, Probe(p) \/ Ask(p) PROVE MInv'
  BY <1>1, <1>11 DEF Probe, Ask
<1>12. CASE (\E d \in DOMAIN up : Flip(d)) \/ Tick \/ UNCHANGED bvars
  BY <1>1, <1>12 DEF Flip, Tick, bvars
<1> QED
  BY <1>2, <1>3, <1>4, <1>5, <1>6, <1>7, <1>8, <1>9, <1>10, <1>11, <1>12 DEF BNext

(* However many processes of however many releases boot at once, crash or   *)
(* run out of time, each migration runs once, in order and whole, and who   *)
(* is past it has a schema at least its own (migrate).                      *)
THEOREM Migrations == BSpec => []MigratedOnceInOrder
<1>1. MInv => MigratedOnceInOrder
  BY DEF MInv, InOrder, Migrated, Past, MigratedOnceInOrder
<1> QED BY MInit, MStep, <1>1, PTL DEF BSpec

-----------------------------------------------------------------------------
(* The sweep.  A checkout is in its worker's tree and no older than what    *)
(* stamped it last; the tree itself may be gone, for a sweep that looked    *)
(* at it before the job began removes it under the job.                     *)
Ages(last) == (0 .. last) \cup {Absent}

ScratchType == /\ tree \in [Indexers -> Ages(Window + 1)]
               /\ job \in [Indexers -> Ages(Hold)]
               /\ victim \in [Indexers -> Indexers \cup {Nothing}]
               /\ listed \in [Indexers -> SUBSET Indexers]

Stamped == \A i \in Indexers : job[i] # Absent => tree[i] <= job[i]

SInv == ScratchType /\ Stamped

LEMMA SInit == BInit => SInv
  BY Constants DEF BInit, SInv, ScratchType, Stamped, Ages, Absent

LEMMA OlderType ==
  ASSUME NEW last \in Nat, NEW age \in Ages(last + 1)
  PROVE  Older(age, last) \in Ages(last + 1)
  BY DEF Older, Ages, Absent

LEMMA SStep == SInv /\ [BNext]_bvars => SInv'
<1> SUFFICES ASSUME SInv, [BNext]_bvars PROVE SInv'
  OBVIOUS
<1>1. ASSUME UNCHANGED <<tree, job>>, ScratchType' PROVE SInv'
  BY <1>1 DEF SInv, Stamped
<1>2. ASSUME UNCHANGED scratch PROVE SInv'
  BY <1>2 DEF SInv, ScratchType, Stamped, scratch
<1>3. ASSUME NEW p \in Processes, Configure(p) \/ Connect(p) \/ Lock(p) \/ Apply(p)
                                    \/ GiveUp(p) \/ Terminate(p)
      PROVE  SInv'
  BY <1>2, <1>3 DEF Configure, Connect, Lock, Apply, GiveUp, Terminate
<1>4. ASSUME NEW p \in Processes, Commit(p) PROVE SInv'
  <2>1. UNCHANGED <<tree, job, victim>> BY <1>4 DEF Commit
  <2>2. listed' \in [Indexers -> SUBSET Indexers]
    <3>1. {i \in Indexers : tree[i] # Absent} \in SUBSET Indexers OBVIOUS
    <3>2. CASE p \in Gateways BY <1>4, <3>2 DEF Commit, SInv, ScratchType
    <3>3. CASE p \notin Gateways BY <1>4, <3>1, <3>3 DEF Commit, SInv, ScratchType
    <3> QED BY <3>2, <3>3
  <2> QED BY <1>1, <2>1, <2>2 DEF SInv, ScratchType
<1>5. ASSUME NEW p \in Processes, Drained(p) PROVE SInv'
  <2>1. /\ tree' = [i \in Indexers |-> IF i = p THEN Absent ELSE tree[i]]
        /\ UNCHANGED <<job, listed, victim>>
    BY <1>5 DEF Drained
  <2>2. ScratchType' BY <2>1 DEF SInv, ScratchType, Ages
  <2>3. Stamped'
    BY <2>1, Constants DEF SInv, ScratchType, Stamped, Ages, Absent
  <2> QED BY <2>2, <2>3 DEF SInv
<1>6. ASSUME NEW p \in Processes, Kill(p) PROVE SInv'
  <2>1. /\ job' = [i \in Indexers |-> IF i = p THEN Absent ELSE job[i]]
        /\ listed' = [i \in Indexers |-> IF i = p THEN {} ELSE listed[i]]
        /\ victim' = [i \in Indexers |-> IF i = p THEN Nothing ELSE victim[i]]
        /\ UNCHANGED tree
    BY <1>6 DEF Kill
  <2>2. ScratchType' BY <2>1 DEF SInv, ScratchType, Ages
  <2>3. Stamped' BY <2>1 DEF SInv, Stamped
  <2> QED BY <2>2, <2>3 DEF SInv
<1>7. ASSUME NEW i \in Indexers, Look(i) PROVE SInv'
  <2>1. PICK j \in listed[i] :
          /\ listed' = [listed EXCEPT ![i] = @ \ {j}]
          /\ victim' = [victim EXCEPT ![i] = IF Stale(j) THEN j ELSE Nothing]
    BY <1>7 DEF Look
  <2>2. j \in Indexers BY DEF SInv, ScratchType
  <2>3. listed' \in [Indexers -> SUBSET Indexers]
    <3>1. listed[i] \ {j} \in SUBSET Indexers BY DEF SInv, ScratchType
    <3> QED BY <2>1, <3>1 DEF SInv, ScratchType
  <2>4. UNCHANGED <<tree, job>> BY <1>7 DEF Look
  <2>5. ScratchType' BY <2>1, <2>2, <2>3, <2>4 DEF SInv, ScratchType
  <2> QED BY <1>1, <2>4, <2>5
<1>8. ASSUME NEW i \in Indexers, Remove(i) PROVE SInv'
  <2>1. /\ tree' = [tree EXCEPT ![victim[i]] = Absent] \/ UNCHANGED tree
        /\ victim' = [victim EXCEPT ![i] = Nothing] /\ UNCHANGED <<job, listed>>
    BY <1>8 DEF Remove
  <2>2. ScratchType' BY <2>1 DEF SInv, ScratchType, Ages
  <2>3. Stamped'
    BY <2>1, Constants DEF SInv, ScratchType, Stamped, Ages, Absent
  <2> QED BY <2>2, <2>3 DEF SInv
<1>9. ASSUME NEW i \in Indexers, Swept(i) PROVE SInv'
  BY <1>2, <1>9 DEF Swept
<1>10. ASSUME NEW i \in Indexers, Begin(i) PROVE SInv'
  <2>1. /\ job' = [job EXCEPT ![i] = 0] /\ tree' = [tree EXCEPT ![i] = 0]
        /\ UNCHANGED <<listed, victim>>
    BY <1>10 DEF Begin
  <2>2. ScratchType' BY <2>1, Constants DEF SInv, ScratchType, Ages
  <2>3. Stamped' BY <2>1 DEF SInv, ScratchType, Stamped
  <2> QED BY <2>2, <2>3 DEF SInv
<1>11. ASSUME NEW i \in Indexers, End(i) PROVE SInv'
  <2>1. /\ job' = [job EXCEPT ![i] = Absent]
        /\ tree' = [tree EXCEPT ![i] = IF @ = Absent THEN Absent ELSE 0]
        /\ UNCHANGED <<listed, victim>>
    BY <1>11 DEF End
  <2>2. ScratchType' BY <2>1, Constants DEF SInv, ScratchType, Ages
  <2>3. Stamped' BY <2>1 DEF SInv, ScratchType, Stamped
  <2> QED BY <2>2, <2>3 DEF SInv
<1>12. ASSUME NEW p \in Probed, Probe(p) \/ Ask(p) PROVE SInv'
  BY <1>2, <1>12 DEF Probe, Ask
<1>13. CASE Tick
  <2>1. /\ \A i \in Indexers : job[i] # Absent => job[i] < Hold
        /\ tree' = [i \in Indexers |-> Older(tree[i], Window)]
        /\ job' = [i \in Indexers |-> Older(job[i], Hold)]
        /\ UNCHANGED <<listed, victim>>
    BY <1>13 DEF Tick
  <2>2. \A i \in Indexers : tree'[i] \in Ages(Window + 1)
    BY <2>1, OlderType, Constants DEF SInv, ScratchType
  <2>3. \A i \in Indexers : job'[i] \in Ages(Hold)
    BY <2>1, Constants DEF SInv, ScratchType, Ages, Absent, Older
  <2>4. ScratchType' BY <2>1, <2>2, <2>3 DEF SInv, ScratchType
  <2>5. Stamped'
    BY <2>1, Constants DEF SInv, ScratchType, Stamped, Ages, Absent, Older
  <2> QED BY <2>4, <2>5 DEF SInv
<1>14. CASE (\E d \in DOMAIN up : Flip(d)) \/ UNCHANGED bvars
  BY <1>2, <1>14 DEF Flip, bvars
<1> QED
  BY <1>3, <1>4, <1>5, <1>6, <1>7, <1>8, <1>9, <1>10, <1>11, <1>12, <1>13, <1>14
  DEF BNext

LEMMA OnlyStale ==
  ASSUME SInv, [BNext]_bvars, NEW i \in Indexers,
         victim'[i] # victim[i], victim'[i] # Nothing
  PROVE  job[victim'[i]] = Absent
<1>1. Look(i)
  <2>1. ASSUME NEW j \in Indexers, Look(j) PROVE j = i
    BY <2>1 DEF Look, SInv, ScratchType
  <2>2. ASSUME NEW j \in Indexers, Remove(j) PROVE FALSE
    BY <2>2 DEF Remove, SInv, ScratchType
  <2>3. ASSUME NEW p \in Processes, Kill(p) PROVE FALSE
    BY <2>3 DEF Kill
  <2>4. ~UNCHANGED victim /\ ~UNCHANGED scratch
    BY DEF scratch
  <2> QED
    BY <2>1, <2>2, <2>3, <2>4
    DEF BNext, Configure, Connect, Lock, Apply, Commit, GiveUp, Terminate, Drained,
        Swept, Begin, End, Probe, Ask, Flip, Tick, bvars
<1>2. PICK j \in listed[i] : victim'[i] = IF Stale(j) THEN j ELSE Nothing
  BY <1>1 DEF Look, SInv, ScratchType
<1>3. j \in Indexers /\ victim'[i] = j /\ tree[j] > Window
  BY <1>2 DEF SInv, ScratchType, Stale
<1>4. job[j] # Absent => tree[j] <= job[j] /\ job[j] \in 0 .. Hold
  BY <1>3 DEF SInv, ScratchType, Stamped, Ages
<1>5. tree[j] \in Int /\ Hold <= Window /\ Hold \in Nat /\ Window \in Nat
  BY <1>3, Constants DEF SInv, ScratchType, Ages, Absent
<1> QED BY <1>3, <1>4, <1>5

(* A worker in a job is never taken for dead, by however many sweeps at     *)
(* whatever point of its job (sweepStale, home).                            *)
THEOREM LiveJobsSpared == BSpec => SweepsNoLiveJob
<1>1. SInv /\ [BNext]_bvars
        => [\A i \in Indexers : victim'[i] # victim[i] /\ victim'[i] # Nothing =>
              job[victim'[i]] = Absent]_bvars
  BY OnlyStale
<1> QED BY SInit, SStep, <1>1, PTL DEF BSpec, SweepsNoLiveJob

-----------------------------------------------------------------------------
(* Readiness.  What a check has been told is as old as the check, or a      *)
(* dependency has changed since; a change and a check age together.         *)
Names == {"postgres", "embedder"}
Needs(p) == IF p \in Gateways THEN Names ELSE {"postgres"}

(* d answered so, now or when the check in hand, or the last one, was made. *)
Lately(p, d, answer) == up[d] = answer \/ since[d] <= checked[p]

ReadyType == /\ up \in [Names -> BOOLEAN] /\ since \in [Names -> 0 .. TTL + 1]
             /\ checking \in [Probed -> Names \cup {Nothing}]
             /\ checked \in [Probed -> Ages(TTL + 1)]
             /\ ok \in [Probed -> BOOLEAN]

Checks(p) ==
  checking[p] # Nothing =>
    /\ checked[p] \in 0 .. 1
    /\ checking[p] = "embedder" => p \in Gateways /\ Lately(p, "postgres", TRUE)

Remembers(p) ==
  checking[p] = Nothing /\ checked[p] # Absent =>
    IF ok[p] THEN \A d \in Needs(p) : Lately(p, d, TRUE)
    ELSE \E d \in Needs(p) : Lately(p, d, FALSE)

RInv == ReadyType /\ \A p \in Probed : Checks(p) /\ Remembers(p)

LEMMA RInit == BInit => RInv
<1> SUFFICES ASSUME BInit PROVE RInv
  OBVIOUS
<1>1. ReadyType
  BY Constants DEF BInit, ReadyType, Names, Ages
<1>2. \A p \in Probed : Checks(p) /\ Remembers(p)
  BY DEF BInit, Checks, Remembers
<1> QED BY <1>1, <1>2 DEF RInv

LEMMA NeedsAre ==
  ASSUME NEW p \in Processes
  PROVE  /\ {Deps(p)[k] : k \in DOMAIN Deps(p)} = Needs(p) /\ Deps(p)[1] = "postgres"
         /\ After(p, "postgres") = IF p \in Gateways THEN "embedder" ELSE Nothing
         /\ After(p, "embedder") = Nothing
<1>1. CASE p \in Gateways
  <2>1. Deps(p) = <<"postgres", "embedder">> BY <1>1 DEF Deps
  <2>2. /\ DOMAIN Deps(p) = {1, 2} /\ Len(Deps(p)) = 2
        /\ Deps(p)[1] = "postgres" /\ Deps(p)[2] = "embedder"
    BY <2>1
  <2>3. {Deps(p)[k] : k \in DOMAIN Deps(p)} = Names BY <2>2 DEF Names
  <2>4. 1 .. Len(Deps(p)) - 1 = {1} BY <2>2
  <2> QED BY <1>1, <2>2, <2>3, <2>4 DEF Needs, After
<1>2. CASE p \notin Gateways
  <2>1. Deps(p) = <<"postgres">> BY <1>2 DEF Deps
  <2>2. DOMAIN Deps(p) = {1} /\ Len(Deps(p)) = 1 /\ Deps(p)[1] = "postgres"
    BY <2>1
  <2>3. {Deps(p)[k] : k \in DOMAIN Deps(p)} = {"postgres"} BY <2>2
  <2>4. 1 .. Len(Deps(p)) - 1 = {} BY <2>2
  <2> QED BY <1>2, <2>2, <2>3, <2>4 DEF Needs, After
<1> QED BY <1>1, <1>2

LEMMA ForgetKeeps ==
  ASSUME RInv, NEW p \in Processes, Forget(p), UNCHANGED deps
  PROVE  RInv'
<1>1. /\ UNCHANGED <<up, since>>
      /\ checking' = [q \in Probed |-> IF q = p THEN Nothing ELSE checking[q]]
      /\ checked' = [q \in Probed |-> IF q = p THEN Absent ELSE checked[q]]
      /\ ok' = [q \in Probed |-> q = p \/ ok[q]]
  BY DEF Forget, deps
<1>2. ReadyType' BY <1>1 DEF RInv, ReadyType, Ages
<1>3. ASSUME NEW q \in Probed PROVE Checks(q)' /\ Remembers(q)'
  <2>1. CASE q = p BY <1>1, <2>1 DEF Checks, Remembers
  <2>2. CASE q # p
    <3>1. checking'[q] = checking[q] /\ checked'[q] = checked[q] /\ ok'[q] = ok[q]
      BY <1>1, <2>2 DEF RInv, ReadyType
    <3> QED BY <1>1, <3>1 DEF RInv, Checks, Remembers, Lately
  <2> QED BY <2>1, <2>2
<1> QED BY <1>2, <1>3 DEF RInv

(* Ages that are capped alike keep their order.                             *)
LEMMA OlderInOrder ==
  ASSUME NEW a \in 0 .. TTL + 1, NEW b \in 0 .. TTL + 1, a <= b
  PROVE  /\ Older(a, TTL) \in 0 .. TTL + 1 /\ Older(b, TTL) \in 0 .. TTL + 1
         /\ Older(a, TTL) <= Older(b, TTL)
  BY Constants DEF Older, Absent

LEMMA RStep == RInv /\ [BNext]_bvars => RInv'
<1> SUFFICES ASSUME RInv, [BNext]_bvars PROVE RInv'
  OBVIOUS
<1>1. ASSUME UNCHANGED <<deps, ready>> PROVE RInv'
  BY <1>1 DEF RInv, ReadyType, Checks, Remembers, Lately, deps, ready
<1>2. ASSUME NEW p \in Processes, Exit(p) PROVE RInv'
  BY <1>2, ForgetKeeps DEF Exit
<1>3. ASSUME NEW p \in Processes, Configure(p) \/ Connect(p) PROVE RInv'
  BY <1>1, <1>2, <1>3 DEF Configure, Connect
<1>4. ASSUME NEW p \in Processes, Lock(p) \/ Apply(p) \/ Commit(p) PROVE RInv'
  BY <1>1, <1>4 DEF Lock, Apply, Commit
<1>5. ASSUME NEW p \in Processes, GiveUp(p) \/ Drained(p) \/ Kill(p) PROVE RInv'
  BY <1>2, <1>5 DEF GiveUp, Drained, Kill
<1>6. ASSUME NEW p \in Processes, Terminate(p) PROVE RInv'
  BY <1>6, ForgetKeeps DEF Terminate
<1>7. ASSUME NEW i \in Indexers, Look(i) \/ Remove(i) \/ Swept(i) \/ Begin(i) \/ End(i)
      PROVE  RInv'
  BY <1>1, <1>7 DEF Look, Remove, Swept, Begin, End
<1>8. ASSUME NEW p \in Probed, Probe(p) PROVE RInv'
  <2>1. /\ checking' = [checking EXCEPT ![p] = "postgres"]
        /\ checked' = [checked EXCEPT ![p] = 0] /\ UNCHANGED <<up, since, ok>>
    BY <1>8, NeedsAre, Constants DEF Probe, deps
  <2>2. ReadyType' BY <2>1, Constants DEF RInv, ReadyType, Names, Ages
  <2>3. ASSUME NEW q \in Probed PROVE Checks(q)' /\ Remembers(q)'
    <3>1. CASE q = p BY <2>1, <3>1 DEF RInv, ReadyType, Checks, Remembers, Nothing
    <3>2. CASE q # p
      BY <2>1, <3>2 DEF RInv, ReadyType, Checks, Remembers, Lately
    <3> QED BY <3>1, <3>2
  <2> QED BY <2>2, <2>3 DEF RInv
<1>9. ASSUME NEW p \in Probed, Ask(p) PROVE RInv'
  <2> DEFINE d == checking[p]
  <2>1. /\ d # Nothing /\ UNCHANGED <<up, since, checked>>
        /\ checking' = [checking EXCEPT ![p] = IF Verdict(p) THEN Nothing ELSE After(p, d)]
        /\ ok' = [ok EXCEPT ![p] = IF Verdict(p) THEN up[d] ELSE ok[p]]
    BY <1>9 DEF Ask, deps
  <2>2. p \in Processes /\ d \in Names /\ up[d] \in BOOLEAN
    BY <2>1, Constants DEF RInv, ReadyType
  <2>3. /\ d \in Needs(p) /\ checked[p] \in 0 .. 1
        /\ d = "embedder" => Lately(p, "postgres", TRUE)
    BY <2>1, <2>2 DEF RInv, Checks, Needs, Names
  <2>4. After(p, d) \in Names \cup {Nothing}
    BY <2>2, NeedsAre DEF Names
  <2>5. ReadyType' BY <2>1, <2>2, <2>4 DEF RInv, ReadyType
  <2>6. ASSUME NEW q \in Probed PROVE Checks(q)' /\ Remembers(q)'
    <3>1. CASE q # p
      BY <2>1, <3>1 DEF RInv, ReadyType, Checks, Remembers, Lately
    <3>2. CASE q = p /\ ~Verdict(p)
      <4>1. up[d] /\ After(p, d) # Nothing BY <2>1, <2>2, <3>2 DEF Verdict
      <4>2. d = "postgres" /\ p \in Gateways /\ After(p, d) = "embedder"
        BY <2>2, <4>1, NeedsAre DEF Names
      <4>3. checking'[p] = "embedder" BY <2>1, <3>2, <4>2 DEF RInv, ReadyType
      <4>4. Lately(p, "postgres", TRUE)' BY <2>1, <4>1, <4>2, <2>2 DEF Lately
      <4> QED BY <2>1, <2>3, <3>2, <4>2, <4>3, <4>4 DEF Checks, Remembers, Nothing
    <3>3. CASE q = p /\ Verdict(p)
      <4>1. checking'[p] = Nothing /\ ok'[p] = up[d]
        BY <2>1, <3>3 DEF RInv, ReadyType
      <4>2. CASE up[d]
        <5>1. After(p, d) = Nothing BY <3>3, <4>2 DEF Verdict
        <5>2. \A e \in Needs(p) : e = d \/ (d = "embedder" /\ e = "postgres")
          BY <2>2, <5>1, NeedsAre DEF Needs, Names, Nothing
        <5>3. \A e \in Needs(p) : Lately(p, e, TRUE)'
          BY <2>1, <2>2, <2>3, <4>2, <5>2 DEF Lately
        <5> QED BY <3>3, <4>1, <4>2, <5>3 DEF Checks, Remembers
      <4>3. CASE ~up[d]
        <5>1. \A e : e = d => Lately(p, e, FALSE)'
          BY <2>1, <2>2, <4>3 DEF Lately
        <5>2. \E e \in Needs(p) : Lately(p, e, FALSE)' BY <2>3, <5>1
        <5> QED BY <3>3, <4>1, <4>3, <5>2 DEF Checks, Remembers
      <4> QED BY <4>2, <4>3
    <3> QED BY <3>1, <3>2, <3>3
  <2> QED BY <2>5, <2>6 DEF RInv
<1>10. ASSUME NEW d \in DOMAIN up, Flip(d) PROVE RInv'
  <2>1. /\ up' = [up EXCEPT ![d] = ~@] /\ since' = [since EXCEPT ![d] = 0]
        /\ UNCHANGED <<checking, checked, ok>> /\ d \in Names
    BY <1>10 DEF Flip, ready, RInv, ReadyType
  <2>2. ReadyType' BY <2>1, Constants DEF RInv, ReadyType
  <2>3. ASSUME NEW p \in Probed, NEW e \in Names, NEW answer \in BOOLEAN,
               Lately(p, e, answer), checked[p] # Absent
        PROVE  Lately(p, e, answer)'
    <3>1. checked[p] \in 0 .. TTL + 1 BY <2>3 DEF RInv, ReadyType, Ages
    <3>2. CASE e = d
      <4>1. since'[e] = 0 BY <2>1, <3>2 DEF RInv, ReadyType
      <4> QED BY <2>1, <3>1, <4>1 DEF Lately
    <3>3. CASE e # d BY <2>1, <2>3, <3>3 DEF Lately, RInv, ReadyType
    <3> QED BY <3>2, <3>3
  <2>4. ASSUME NEW p \in Probed PROVE Checks(p)' /\ Remembers(p)'
    <3>1. Checks(p)'
      <4>1. "postgres" \in Names /\ \A n \in 0 .. 1 : n # Absent BY DEF Names, Absent
      <4>2. checking[p] = "embedder" => Lately(p, "postgres", TRUE)'
        BY <2>3, <4>1 DEF RInv, Checks, Nothing
      <4> QED BY <2>1, <4>2 DEF RInv, Checks
    <3>2. Remembers(p)'
      BY <2>1, <2>3 DEF RInv, Remembers, Needs, Names
    <3> QED BY <3>1, <3>2
  <2> QED BY <2>2, <2>4 DEF RInv
<1>11. CASE Tick
  <2>1. /\ \A p \in Probed : checking[p] # Nothing => checked[p] = 0
        /\ since' = [d \in Names |-> Older(since[d], TTL)]
        /\ checked' = [p \in Probed |-> Older(checked[p], TTL)]
        /\ UNCHANGED <<up, checking, ok>>
    BY <1>11 DEF Tick, RInv, ReadyType
  <2>2. ReadyType'
    <3>1. \A d \in Names : since'[d] \in 0 .. TTL + 1
      BY <2>1, Constants DEF RInv, ReadyType, Older, Absent
    <3>2. \A p \in Probed : checked'[p] \in Ages(TTL + 1)
      BY <2>1, OlderType, Constants DEF RInv, ReadyType
    <3> QED BY <2>1, <3>1, <3>2 DEF RInv, ReadyType
  <2>3. ASSUME NEW p \in Probed, NEW e \in Names, NEW answer \in BOOLEAN,
               Lately(p, e, answer), checked[p] # Absent
        PROVE  Lately(p, e, answer)'
    <3>1. checked[p] \in 0 .. TTL + 1 /\ since[e] \in 0 .. TTL + 1
      BY <2>3 DEF RInv, ReadyType, Ages
    <3> QED BY <2>1, <2>3, <3>1, OlderInOrder DEF Lately
  <2>4. ASSUME NEW p \in Probed PROVE Checks(p)' /\ Remembers(p)'
    <3>1. Checks(p)'
      <4>1. checking[p] # Nothing => checked[p] = 0 /\ checked'[p] = 1
        BY <2>1, Constants DEF Older, Absent
      <4>2. "postgres" \in Names /\ \A n \in 0 .. 1 : n # Absent BY DEF Names, Absent
      <4>3. checking[p] = "embedder" => Lately(p, "postgres", TRUE)'
        BY <2>3, <4>2 DEF RInv, Checks, Nothing
      <4>4. checking[p] = "embedder" => p \in Gateways BY DEF RInv, Checks, Nothing
      <4>5. checking'[p] = checking[p] /\ 1 \in 0 .. 1 BY <2>1
      <4> QED BY ONLY <4>1, <4>3, <4>4, <4>5 DEF Checks
    <3>2. Remembers(p)'
      <4>1. checked'[p] # Absent => checked[p] # Absent
        BY <2>1 DEF Older, Absent
      <4> QED BY <2>1, <2>3, <4>1 DEF RInv, Remembers, Needs, Names
    <3> QED BY <3>1, <3>2
  <2> QED BY <2>2, <2>4 DEF RInv
<1>12. CASE UNCHANGED bvars
  BY <1>1, <1>12 DEF bvars, deps, ready
<1> QED
  BY <1>3, <1>4, <1>5, <1>6, <1>7, <1>8, <1>9, <1>10, <1>11, <1>12 DEF BNext

(* What /ready answers, from its cache or from a check, was so within the   *)
(* TTL, whatever fails and recovers between and during the checks.          *)
THEOREM Readiness == BSpec => []ReadyIsRecent
<1>1. RInv => ReadyIsRecent
  <2> SUFFICES ASSUME RInv, NEW p \in Probed
               PROVE  /\ FromCache(p) => Held(p, ok[p])
                      /\ Verdict(p) => Held(p, up[checking[p]])
    BY DEF ReadyIsRecent
  <2>1. p \in Processes /\ {Deps(p)[k] : k \in DOMAIN Deps(p)} = Needs(p)
    BY NeedsAre, Constants
  <2>2. Needs(p) \subseteq Names BY DEF Needs, Names
  <2>3. ASSUME NEW d \in Names, NEW answer \in BOOLEAN, Lately(p, d, answer),
               checked[p] \in 0 .. TTL
        PROVE  up[d] = answer \/ since[d] <= TTL
    BY <2>3, Constants DEF Lately, RInv, ReadyType
  <2>4. \A d \in Names : up[d] \in BOOLEAN /\ ok[p] \in BOOLEAN
    BY DEF RInv, ReadyType
  <2>5. ASSUME FromCache(p) PROVE Held(p, ok[p])
    <3>1. checking[p] = Nothing /\ checked[p] \in 0 .. TTL /\ checked[p] # Absent
      BY <2>5, Constants DEF FromCache, Fresh, RInv, ReadyType, Ages
    <3>2. CASE ok[p]
      <4>1. \A d \in Needs(p) : Lately(p, d, TRUE)
        BY <3>1, <3>2 DEF RInv, Remembers
      <4> QED BY <2>1, <2>2, <2>3, <3>1, <3>2, <4>1 DEF Held
    <3>3. CASE ~ok[p]
      <4>1. PICK d \in Needs(p) : Lately(p, d, FALSE)
        BY <3>1, <3>3 DEF RInv, Remembers
      <4>2. ~up[d] \/ since[d] <= TTL BY <2>2, <2>3, <3>1, <4>1
      <4> QED BY <2>1, <3>3, <4>2 DEF Held
    <3> QED BY <3>2, <3>3
  <2>6. ASSUME Verdict(p) PROVE Held(p, up[checking[p]])
    <3> DEFINE d == checking[p]
    <3>1. /\ d \in Names /\ checked[p] \in 0 .. TTL /\ d \in Needs(p)
          /\ d = "embedder" => Lately(p, "postgres", TRUE)
      <4>1. d \in Names /\ d # Nothing BY <2>6 DEF Verdict, RInv, ReadyType
      <4>2. /\ checked[p] \in 0 .. 1
            /\ d = "embedder" => p \in Gateways /\ Lately(p, "postgres", TRUE)
        BY <4>1 DEF RInv, Checks
      <4>3. checked[p] \in 0 .. TTL BY <4>2, Constants
      <4>4. d \in Needs(p) BY <4>1, <4>2 DEF Needs, Names
      <4> QED BY <4>1, <4>2, <4>3, <4>4
    <3>2. CASE up[d]
      <4>1. After(p, d) = Nothing BY <2>6, <3>2 DEF Verdict
      <4>2. \A e \in Needs(p) : e = d \/ (d = "embedder" /\ e = "postgres")
        BY <2>1, <3>1, <4>1, NeedsAre DEF Needs, Names, Nothing
      <4>3. \A e \in Needs(p) : up[e] \/ since[e] <= TTL
        BY <2>2, <2>3, <3>1, <3>2, <4>2
      <4> QED BY <2>1, <3>2, <4>3 DEF Held
    <3>3. CASE ~up[d] BY <2>1, <3>1, <3>3 DEF Held
    <3> QED BY <3>2, <3>3
  <2> QED BY <2>5, <2>6
<1> QED BY RInit, RStep, <1>1, PTL DEF BSpec
=============================================================================
