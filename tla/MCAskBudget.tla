---------------------------- MODULE MCAskBudget ----------------------------
(* Requests are interchangeable: each is only an identity.                  *)
EXTENDS AskBudget, TLC
CONSTANTS q1, q2, q3
MCRequests == {q1, q2, q3}
=============================================================================
