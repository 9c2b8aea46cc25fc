------------------------------ MODULE MCIndexer ------------------------------
(* Indexer instantiated for TLC: two refs of one repository.  Ref k1 points  *)
(* to commit r1; ref k2 points to r1 or, once it has moved, to r2.           *)
EXTENDS Indexer

CONSTANTS k1, k2, r1, r2, w1, w2, m1, m2

KeysDef == {k1, k2}
ReposDef == {r1, r2}
WorkersDef == {w1, w2}
OneWorker == {w1}
CommitsDef == [k \in {k1, k2} |-> IF k = k1 THEN {r1} ELSE {r1, r2}]

(* One model for both workers, and a deployment rolling over to another.     *)
SoloModel == [w \in {w1} |-> m1]
OneModel == [w \in {w1, w2} |-> m1]
TwoModels == [w \in {w1, w2} |-> IF w = w1 THEN m1 ELSE m2]

=============================================================================
