---------------------------- MODULE JobLifecycle ----------------------------
(***************************************************************************)
(* What the queue promises a submitter and a worker, with no clock, no     *)
(* attempt count and no crash in it: a submission is open under at most    *)
(* one id per repository and ref, an open job is in at most one worker's   *)
(* hands, only the worker it is in the hands of ends it or gives it back,  *)
(* and an ended job is never open again.                                   *)
(* JobQueue implements this (ImplementsLifecycle there).                      *)
(***************************************************************************)
CONSTANTS Key, Worker, JobId, Nobody

VARIABLES
  state,   (* "new", "open", "done", "failed" or "forgotten", for each job *)
  keyOf,   (* the repository and ref a job was submitted for               *)
  hands    (* the worker a job is with, or Nobody                          *)

avars == <<state, keyOf, hands>>

Init ==
  /\ state = [j \in JobId |-> "new"]
  /\ keyOf \in [JobId -> Key]
  /\ hands = [j \in JobId |-> Nobody]

Submit(j, k) ==
  /\ state[j] = "new"
  /\ \A i \in JobId : state[i] = "open" => keyOf[i] # k
  /\ state' = [state EXCEPT ![j] = "open"]
  /\ keyOf' = [keyOf EXCEPT ![j] = k]
  /\ UNCHANGED hands

(* The worker that had j, if any, has lost it.                              *)
HandTo(j, w) ==
  /\ state[j] = "open"
  /\ hands' = [hands EXCEPT ![j] = w]
  /\ UNCHANGED <<state, keyOf>>

GiveBack(j) ==
  /\ state[j] = "open" /\ hands[j] # Nobody
  /\ hands' = [hands EXCEPT ![j] = Nobody]
  /\ UNCHANGED <<state, keyOf>>

End(j, outcome) ==
  /\ state[j] = "open" /\ hands[j] # Nobody
  /\ state' = [state EXCEPT ![j] = outcome]
  /\ hands' = [hands EXCEPT ![j] = Nobody]
  /\ UNCHANGED keyOf

Forget(S) ==
  /\ \A j \in S : state[j] \in {"done", "failed"}
  /\ state' = [j \in JobId |-> IF j \in S THEN "forgotten" ELSE state[j]]
  /\ UNCHANGED <<keyOf, hands>>

Next ==
  \/ \E j \in JobId, k \in Key : Submit(j, k)
  \/ \E j \in JobId, w \in Worker : HandTo(j, w)
  \/ \E j \in JobId : GiveBack(j) \/ End(j, "done") \/ End(j, "failed")
  \/ \E S \in SUBSET JobId : Forget(S)

Spec == Init /\ [][Next]_avars

=============================================================================
