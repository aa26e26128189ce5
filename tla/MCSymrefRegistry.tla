-------------------------- MODULE MCSymrefRegistry --------------------------
(* An instance of SymrefRegistry for TLC: two names without a NUL. *)
EXTENDS SymrefRegistry, TLC

CONSTANTS sym, fun

MCNames == {sym, fun}
MCCStr == [n \in MCNames |-> n]
=============================================================================
