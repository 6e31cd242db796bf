--------------------------- MODULE MCTerminalBrowse ---------------------------
(***************************************************************************)
(* Two experiments; searches that find only the other one, or none; two    *)
(* queries.                                                                *)
(***************************************************************************)
EXTENDS TerminalBrowse

CONSTANTS e1, e2

MCSearches == {{e2}, {}}
=============================================================================
