------------------------- MODULE MCExactLutMapping --------------------------
(* A network of seven nodes for ExactLutMapping: an input, two LUTs that are *)
(* small enough, and four that are not, two of them of the same function.    *)
EXTENDS ExactLutMapping

CONSTANTS f, g, h, and2

MCFunctions == {f, g, h, and2}
MCFunction == <<and2, and2, f, g, f, h, and2>>
MCWidth == <<0, 2, 5, 6, 5, 5, 2>>
=============================================================================
