----------------------------- MODULE MCGridSweep -----------------------------
(* Two axes of three values.                                                  *)
EXTENDS GridSweep
Grid == <<3, 3>>
==============================================================================
