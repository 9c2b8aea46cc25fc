---------------------------- MODULE MCDeadlines ----------------------------
(* Deadlines instantiated for TLC; a tick is fifteen seconds.                *)
EXTENDS Deadlines

=============================================================================
