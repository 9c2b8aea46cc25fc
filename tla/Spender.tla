------------------------------ MODULE Spender ------------------------------
(***************************************************************************)
(* What the hourly budget relies on about one run of the answering loop:   *)
(* the tokens it reports only grow while it runs, never beyond the worst   *)
(* case it was let in for by more than Slack, and it always returns.       *)
(* AgentLoop is shown to implement this, and AskBudget is built on it.     *)
(***************************************************************************)
EXTENDS Naturals

CONSTANTS
    Want,   \* the worst case: MaxInputTokens + MaxOutputTokens
    Slack   \* how far the estimates may fall short of what is reported

VARIABLES
    running,  \* the loop has not returned
    used      \* the tokens its trace reports so far

Budgeted(u) == u .. Want + Slack

SInit == running = TRUE /\ used = 0

Spend == /\ running
         /\ used' \in Budgeted(used)
         /\ running' \in BOOLEAN

SSpec == SInit /\ [][Spend]_<<running, used>> /\ <>(running = FALSE)
=============================================================================
