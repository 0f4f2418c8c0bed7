------------------------ MODULE MCFrontPanelBlink --------------------------
(* Small instances of FrontPanelBlink: patterns of no, one and two         *)
(* elements, played once, twice and for ever.                              *)
EXTENDS FrontPanelBlink

CONSTANTS red, green, blue

MCElements == {red, green, blue}
MCPatterns == {<< >>, <<red>>, <<green, blue>>}
MCRepeats == {-1, 0, 1}
=============================================================================
