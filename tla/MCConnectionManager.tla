------------------------- MODULE MCConnectionManager -------------------------
(***************************************************************************)
(* Two configurations of one target.                                       *)
(***************************************************************************)
EXTENDS ConnectionManager

EditedTarget == {<<"edited", 1>>, <<"edited", 2>>}
=============================================================================
