------------------------------ MODULE MCReads ------------------------------
EXTENDS Reads, TLC

CONSTANTS A, B, a, b, m1, m2, w1, w2, e1

MCRepos == {A, B}
MCChunked == [r \in {A, B} |-> IF r = A THEN {[ids |-> a, model |-> m1], [ids |-> b, model |-> m2]} ELSE {}]
Symmetry == Permutations({w1, w2})

(* Bound: past the tombstone's lookup no statement of a request reads        *)
(* evicted_repos, and no trim is under way.                                  *)
TrimsEarly ==
    \A e \in Trimmers, q \in Requests :
      trims[e] # {} => at[q] \in {"idle", "lookup", "missing", "replied"}
============================================================================
