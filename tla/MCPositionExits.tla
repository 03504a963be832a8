--------------------------- MODULE MCPositionExits ---------------------------
(***************************************************************************)
(* PositionExits on a small instance.                                      *)
(***************************************************************************)
EXTENDS PositionExits
=============================================================================
