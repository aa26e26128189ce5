----------------------------- MODULE MCUnitRoot -----------------------------
(* Instances of UnitRoot for TLC: two strings, one of which only Go has. *)
EXTENDS UnitRoot

MCStrings == {"name", Package}
=============================================================================
