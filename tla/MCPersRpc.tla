----------------------------- MODULE MCPersRpc ------------------------------
(***************************************************************************)
(* Instances of PersRpc for TLC: a symbol, which also names a function,    *)
(* and the literal that ends in a NUL and is that name before it.          *)
(***************************************************************************)
EXTENDS PersRpc, TLC

CONSTANTS sym, lit

MCNames == {sym, lit}
MCCStr == [n \in MCNames |-> sym]

Symmetry == Permutations(Sessions)
=============================================================================
