----------------------------- MODULE MCBackEnds -----------------------------
(* The two back ends that write to a file, for TLC.  The plugin is built with one
   of them: in its behaviours the other one stays as TextInit or Init has it, in
   one of the states these allow.  The names have no NUL. *)
EXTENDS PersSqlite, PersText, TLC

CONSTANTS sym, fun

VARIABLE backEnd    \* the one the plugin is built with

MCNames == {sym, fun}
MCCStr == [n \in MCNames |-> n]

Symmetry == Permutations(Procs)

BackEndsInit ==
  /\ Init /\ TextInit
  /\ \/ backEnd = "sqlite" /\ m_bb = CHOOSE bb \in Blocks : TRUE
     \/ backEnd = "text" /\ parallel

BackEndsNext ==
  /\ UNCHANGED backEnd
  /\ \/ backEnd = "sqlite" /\ Next /\ UNCHANGED textVars
     \/ backEnd = "text" /\ TextNext /\ UNCHANGED vars

BackEndsSpec == BackEndsInit /\ [][BackEndsNext]_<<vars, textVars, backEnd>>
=============================================================================
