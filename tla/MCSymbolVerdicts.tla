-------------------------- MODULE MCSymbolVerdicts --------------------------
(* One symbol: a review judges each by its own record.                       *)
EXTENDS SymbolVerdicts
=============================================================================
