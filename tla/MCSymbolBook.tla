---------------------------- MODULE MCSymbolBook ----------------------------
(* Two symbols: the template gives a magic to one of them, or to both.       *)
EXTENDS SymbolBook
OnePreset == <<1, 0>>
BothPresets == <<1, 2>>
=============================================================================
