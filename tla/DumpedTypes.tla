---------------------------- MODULE DumpedTypes -----------------------------
(***************************************************************************)
(* How types that several compilation units define are dumped once:        *)
(* TreeBuilder's m_dumped_db and m_replaced with PlainRender::dump_types.  *)
(* The same header is compiled into many units, so the same type comes     *)
(* again and again: check_dumped_type looks a new element up while its     *)
(* unit is read, dump_types prints the unit at its end, and merge_dumped   *)
(* then enters its elements in m_dumped_db.                                *)
(*                                                                         *)
(* A name stands for a mangled name within its namespace (both databases   *)
(* of the namespace are one here; the id an entry holds besides the rank   *)
(* only serves the output of references). What a definition holds is its   *)
(* rank, the number of members, bases, enumerators, parameters and         *)
(* methods; a pure forward declaration holds nothing. A class_type stands  *)
(* for union, enumerator and interface types as well.                      *)
(***************************************************************************)
EXTENDS Integers, Sequences

CONSTANTS Kinds,       \* the kinds of element the units have
          Names,
          MaxRank,     \* bound: the parts of a type
          MaxTypes,    \* bound: the elements of a unit
          MaxUnits     \* bound: compilation units

ASSUME BoundsAssumption == {MaxRank, MaxTypes, MaxUnits} \subseteq Nat

ASSUME KindsAssumption ==
  Kinds \subseteq {"structure_type", "class_type", "typedef2", "subroutine"}

\* Replaced with -k, too. base_type and unspec_type, which dump_types never
\* prints, are no kinds here.
BasicKinds == {"typedef2"}
DeclKinds == {"structure_type", "class_type"}

VARIABLES
  g_opt_k,       \* -k, keep already dumped types
  elements_,     \* the elements of the unit, in order
  m_replaced,    \* those a type of an earlier unit stands for
  m_dumped_db,   \* for kind and name the rank that is known, or NoEntry
  at,            \* "read", or the element merge_dumped has come to
  units,         \* units read
  printed        \* history: what dump_types has printed

vars == <<g_opt_k, elements_, m_replaced, m_dumped_db, at, units, printed>>

Keys == Kinds \X Names
NoEntry == -1
KeyOf(e) == <<e.kind, e.name>>

Init ==
  /\ g_opt_k \in BOOLEAN
  /\ elements_ = <<>>
  /\ m_replaced = {}
  /\ m_dumped_db = [k \in Keys |-> NoEntry]
  /\ at = 0
  /\ units = 0
  /\ printed = {}

-----------------------------------------------------------------------------
Element == [kind : Kinds, name : Names, level : {1, 2}, size : 0 .. MaxRank,
            rank : 0 .. MaxRank, dumped : BOOLEAN, unit : 0 .. MaxUnits]

\* One element read: "size" is what the file says of it, "rank" what is kept.
NewElement(kind, name, level, size, rank, dumped) ==
  [kind |-> kind, name |-> name, level |-> level, size |-> size, rank |-> rank,
   dumped |-> dumped, unit |-> units]

Read(e) ==
  /\ at = 0
  /\ Len(elements_) < MaxTypes
  /\ units < MaxUnits
  /\ elements_' = Append(elements_, e)
  /\ UNCHANGED <<g_opt_k, m_dumped_db, at, units, printed>>

\* Nothing of this name was dumped; with -k only basic types are replaced.
AddKept(kind, name, level, size) ==
  LET known == m_dumped_db[<<kind, name>>] # NoEntry
  IN /\ known => g_opt_k /\ kind \notin BasicKinds
     /\ kind \in BasicKinds => size = 0
     /\ Read(NewElement(kind, name, level, size, size, known))
     /\ UNCHANGED m_replaced

\* The type is replaced; whether its children are read depends on the
\* compiler, which may give DW_AT_sibling to skip them or not.
AddReplaced(kind, name, level, size, rank) ==
  /\ m_dumped_db[<<kind, name>>] # NoEntry
  /\ IF kind \in BasicKinds THEN size = 0 ELSE ~g_opt_k
  /\ kind # "subroutine"
  /\ Read(NewElement(kind, name, level, size, rank, FALSE))
  /\ m_replaced' = m_replaced \cup {Len(elements_) + 1}

\* "don't replace functions": it is marked, and loses its parameters.
AddDumpedFunction(name, level, size) ==
  /\ "subroutine" \in Kinds
  /\ m_dumped_db[<<"subroutine", name>>] # NoEntry
  /\ ~g_opt_k
  /\ Read(NewElement("subroutine", name, level, size, 0, TRUE))
  /\ UNCHANGED m_replaced

Add ==
  \E kind \in Kinds, name \in Names, level \in {1, 2}, size \in 0 .. MaxRank :
    \/ AddKept(kind, name, level, size)
    \/ \E rank \in {0, size} : AddReplaced(kind, name, level, size, rank)
    \/ AddDumpedFunction(name, level, size)

-----------------------------------------------------------------------------
\* Mutated form of should_keep: the ranks are compared the wrong way round.
should_keepPoorer(e) == ~e.dumped \/ e.rank < m_dumped_db[KeyOf(e)]

\* With -k, is the type worth printing again?
should_keep(e) == ~e.dumped \/ e.rank > m_dumped_db[KeyOf(e)]

\* Mutated form of Printed: replaced types are not left out.
PrintedReplaced(i) ==
  LET e == elements_[i]
  IN /\ g_opt_k => should_keep(e)
     /\ e.level <= 1

\* dump_types goes on to the next element before it prints this one unless ...
Printed(i) ==
  LET e == elements_[i]
  IN /\ g_opt_k => should_keep(e)
     /\ e.level <= 1
     /\ i \notin m_replaced

\* dump_nested prints these kinds and returns true.
dump_nested(e) == e.kind \in DeclKinds

\* Mutated form of MarkDumped: what is printed now is not marked.
MarkDumpedNone == elements_

\* What dump_nested printed is marked as dumped, typedefs and functions are not.
\* (The mark of a type nested in it is read by nobody: its level is above 1.)
MarkDumped ==
  [i \in DOMAIN elements_ |->
    [elements_[i] EXCEPT !.dumped = @ \/ (Printed(i) /\ dump_nested(elements_[i]))]]

\* ProcessUnit, first part: RenderUnit.
RenderUnit ==
  /\ at = 0
  /\ elements_ # <<>>
  /\ printed' = printed \cup {[elements_[i] EXCEPT !.dumped = FALSE] :
                                i \in {j \in DOMAIN elements_ : Printed(j)}}
  /\ elements_' = MarkDumped
  /\ at' = 1
  /\ UNCHANGED <<g_opt_k, m_replaced, m_dumped_db, units>>

\* Of a definition that lost its children, decl_ is not set.
is_pure_decl(e) == e.kind \in DeclKinds /\ e.size = 0

\* A forward declaration is not entered, except that of a structure.
OnlyDeclared(e) == is_pure_decl(e) /\ e.kind # "structure_type"

\* Mutated form of Merged: nested types are entered like those at the top.
MergedNested(e) ==
  /\ ~OnlyDeclared(e)
  /\ ~( /\ m_dumped_db[KeyOf(e)] # NoEntry
        /\ e.dumped /\ e.rank <= m_dumped_db[KeyOf(e)])

\* What is marked replaces a poorer entry only, the rest any entry.
Merged(e) ==
  /\ ~OnlyDeclared(e)
  /\ e.level <= 1
  /\ ~( /\ m_dumped_db[KeyOf(e)] # NoEntry
        /\ e.dumped /\ e.rank <= m_dumped_db[KeyOf(e)])

\* Second part: merge_dumped, one element after the other.
MergeDumped ==
  /\ at \in DOMAIN elements_
  /\ LET e == elements_[at]
     IN m_dumped_db' = IF Merged(e)
                         THEN [m_dumped_db EXCEPT ![KeyOf(e)] = e.rank]
                         ELSE m_dumped_db
  /\ at' = at + 1
  /\ UNCHANGED <<g_opt_k, elements_, m_replaced, units, printed>>

\* Last part: the unit is forgotten.
ClearUnit ==
  /\ at > Len(elements_)
  /\ elements_' = <<>>
  /\ m_replaced' = {}
  /\ at' = 0
  /\ units' = units + 1
  /\ UNCHANGED <<g_opt_k, m_dumped_db, printed>>

Next == Add \/ RenderUnit \/ MergeDumped \/ ClearUnit

Spec == Init /\ [][Next]_vars

-----------------------------------------------------------------------------
\* The state has its types; what is replaced is an element of this unit.
DumpedTypeOK ==
  /\ elements_ \in Seq(Element)
  /\ m_replaced \subseteq DOMAIN elements_
  /\ m_dumped_db \in [Keys -> 0 .. MaxRank \cup {NoEntry}]

\* A type that is replaced by an earlier one was printed: leaving it out loses
\* no name.
ReplacedWasPrinted ==
  \A i \in m_replaced : \E p \in printed : KeyOf(p) = KeyOf(elements_[i])

\* Without -k a type is printed in one unit only, and a forward declaration of
\* a class in any number of them.
PrintedInOneUnit ==
  ~g_opt_k => \A p, q \in printed :
    KeyOf(p) = KeyOf(q) /\ p.unit < q.unit /\ p.kind # "subroutine" => is_pure_decl(p)

\* With -k nothing is lost to a poorer type of the same name that came before:
\* of every type read, one at least as rich is printed when its unit is.
RichestPrinted ==
  g_opt_k /\ at > 0 => \A i \in DOMAIN elements_ :
    LET e == elements_[i]
    IN e.level <= 1 /\ e.kind \notin BasicKinds =>
         \E p \in printed : KeyOf(p) = KeyOf(e) /\ p.rank >= e.size

\* With -k a structure or class that was printed is printed for another unit only
\* when it is richer than all that was, also when one unit defines it twice,
\* the poorer one last; a forward declaration of a class does not count.
PrintedAgainRicher ==
  g_opt_k => \A p, q \in printed :
    KeyOf(p) = KeyOf(q) /\ p.unit < q.unit /\ dump_nested(p) =>
      q.rank > p.rank \/ OnlyDeclared(p)
=============================================================================
