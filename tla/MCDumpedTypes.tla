--------------------------- MODULE MCDumpedTypes ----------------------------
(* An instance of DumpedTypes for TLC: kinds do not share a name. *)
EXTENDS DumpedTypes

CONSTANTS a
=============================================================================
