---------------------------- MODULE MCLineTables ----------------------------
(* An instance of LineTables for TLC: a string, and one that only Go has. *)
EXTENDS LineTables

MCStrings == {"name", Package}
=============================================================================
