--------------------------------- MODULE Rows ---------------------------------
(***************************************************************************)
(* Lists of runs that keep to what is wanted of them.                      *)
(***************************************************************************)
EXTENDS Naturals, Sequences

(* The rows that belong to runs, in their order.                           *)
Among(rows, runs) ==
    LET upTo[n \in 0..Len(rows)] ==
          IF n = 0 THEN <<>>
          ELSE IF rows[n] \in runs THEN Append(upTo[n - 1], rows[n]) ELSE upTo[n - 1]
    IN upTo[Len(rows)]
=============================================================================
