-------------------------------- MODULE Lists --------------------------------
(* The tables that are read in an order, as lists - repos by                 *)
(* last_queried_at DESC, evicted_repos by evicted_at DESC, spans by id - and *)
(* what a DELETE, or a WHERE, leaves out of one.                             *)
EXTENDS Naturals, Sequences

(* DELETE ... WHERE id IN gone, and the rows a WHERE ... NOT IN gone reads.   *)
Without(list, gone) ==
    LET kept[n \in 0 .. Len(list)] ==
            IF n = 0 THEN <<>>
            ELSE IF list[n] \in gone THEN kept[n - 1] ELSE Append(kept[n - 1], list[n])
    IN  kept[Len(list)]
=============================================================================
