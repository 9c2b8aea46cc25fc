----------------------------- MODULE MCJobQueue -----------------------------
(* JobQueue instantiated for TLC.  Workers are interchangeable, but a        *)
(* liveness property is among those checked, which rules symmetry out.       *)
EXTENDS JobQueue, TLC
=============================================================================
