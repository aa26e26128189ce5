--------------------------- MODULE MCSymrefServer ---------------------------
(***************************************************************************)
(* Instances of SymrefServer for TLC: two connections, a symbol and the    *)
(* literal that ends in a NUL and is the symbol's name before it.          *)
(***************************************************************************)
EXTENDS SymrefServer, TLC

CONSTANTS sym, lit

MCNames == {sym, lit}
MCCStr == [n \in MCNames |-> sym]

Symmetry == Permutations(Sessions)
=============================================================================
