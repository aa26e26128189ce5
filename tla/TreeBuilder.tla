---------------------------- MODULE TreeBuilder -----------------------------
(***************************************************************************)
(* The class TreeBuilder of TreeBuilder.cc while it is fed one compilation *)
(* unit: the list of elements, the stack of the elements whose children    *)
(* are read, and the "current" variables through which every operation     *)
(* finds the element it is about (current_element_type_, recent_,          *)
(* last_var_, elements_.back(), the top of m_stack).                       *)
(*                                                                         *)
(* An element or method is named by the number of the DIE that made it;    *)
(* the ns_end element that closes namespace i has a number of its own.  Of *)
(* an element's fields those are kept that the operations read back; a     *)
(* name is represented by the DIE it was read from.  Compound's vectors    *)
(* are one sequence of <<vector, DIE>> for each element.                   *)
(***************************************************************************)
EXTENDS Integers, Sequences

CONSTANTS MaxDies,    \* bound: the DIEs of one compilation unit
          Options     \* the options a command line may have: -f, -V, -L, -n

ASSUME MaxDiesAssumption == MaxDies \in Nat \ {0}

Null == 0
Dies == 1 .. MaxDies
NsEnd(i) == MaxDies + i
Refs == 1 .. 2 * MaxDies

\* ElementType, and of a Compound the vectors by what they hold.
ElementTypes ==
  {"none", "structure_type", "array_type", "type", "subroutine_type", "enumerator_type",
   "lexical_block", "ns_start", "ns_end", "var_type", "subroutine", "method", "variant_type",
   "member", "inheritance", "enumerator", "subrange_type", "formal_param"}
Vectors == {"member", "inheritance", "enumerator", "nested", "method", "lvar", "param"}

VARIABLES
  opt,                    \* the command line's options
  current_element_type_,
  back,                   \* elements_.back(), Null when elements_ is empty
  obj,                    \* the elements and methods made
  parts,                  \* the vectors of each element's Compound
  named,                  \* the DIE whose name each element or part has
  m_stack, recent_, last_var_, sub_filtered, ns_count, ns_stack,
  crashed                 \* a null pointer was dereferenced

listVars    == <<back, obj, parts>>
pointerVars == <<m_stack, recent_, last_var_>>
nsVars      == <<ns_count, ns_stack>>
builderVars == <<opt, current_element_type_, listVars, named, pointerVars,
                 sub_filtered, nsVars, crashed>>

NoObj == [type |-> "none", level |-> 0, owner |-> Null, ns |-> Null]

BuilderInit ==
  /\ opt \in SUBSET Options
  /\ current_element_type_ = "none"
  /\ back = Null
  /\ obj = [r \in Refs |-> NoObj]
  /\ parts = [r \in Refs |-> <<>>]
  /\ named = [r \in Refs |-> Null]
  /\ m_stack = <<>>
  /\ recent_ = Null
  /\ last_var_ = Null
  /\ sub_filtered = FALSE
  /\ ns_count = 0
  /\ ns_stack = <<>>
  /\ crashed = FALSE

-----------------------------------------------------------------------------
LastOf(s) == s[Len(s)]
AllButLast(s) == SubSeq(s, 1, Len(s) - 1)

Top == LastOf(m_stack)                                 \* m_stack.top()
get_owner == IF m_stack = <<>> THEN Null ELSE Top
top_ns == IF ns_stack = <<>> THEN Null ELSE LastOf(ns_stack)

\* The last entry of a vector of r's Compound, Null when it is empty.
BackOf(r, vector) ==
  LET is == {i \in DOMAIN parts[r] : parts[r][i][1] = vector}
  IN IF is = {} THEN Null ELSE parts[r][CHOOSE i \in is : \A j \in is : j <= i][2]

TypeOf(r) == IF r = Null THEN "none" ELSE obj[r].type

\* The nearest function up the chain of owners.
FuncAbove[r \in Refs \cup {Null}] ==
  IF r = Null \/ TypeOf(r) \in {"method", "subroutine"} THEN r
  ELSE IF obj[r].owner = r THEN Null
  ELSE FuncAbove[obj[r].owner]

get_top_func == FuncAbove[get_owner]

Element(type, level, owner) ==
  [type |-> type, level |-> level, owner |-> owner, ns |-> top_ns]

Crash ==
  /\ crashed' = TRUE
  /\ UNCHANGED <<opt, current_element_type_, listVars, named, pointerVars,
                 sub_filtered, nsVars>>

-----------------------------------------------------------------------------
AddNone ==
  /\ current_element_type_' = "none"
  /\ UNCHANGED <<opt, listVars, named, pointerVars, sub_filtered, nsVars, crashed>>

\* Members, parents and enumerators go into a vector of the stack's top.
AddPart(type, id) ==
  /\ last_var_' = Null
  /\ IF current_element_type_ = "none" \/ m_stack = <<>> \/ back = Null
       THEN UNCHANGED <<current_element_type_, parts, crashed>>
     ELSE IF Top = Null
       THEN crashed' = TRUE /\ UNCHANGED <<current_element_type_, parts>>
     ELSE /\ current_element_type_' = type
          /\ parts' = [parts EXCEPT ![Top] = Append(@, <<type, id>>)]
          /\ UNCHANGED crashed
  /\ UNCHANGED <<opt, back, obj, named, m_stack, recent_, sub_filtered, nsVars>>

\* A variant part is a member of the top and an element as well.
AddVariantPart(id, m_level) ==
  LET skip == current_element_type_ = "none" \/ m_stack = <<>> \/ back = Null
  IN /\ last_var_' = Null
     /\ \/ /\ skip
           /\ UNCHANGED <<current_element_type_, listVars, recent_, crashed>>
        \/ /\ ~skip
           /\ Top = Null
           /\ crashed' = TRUE
           /\ UNCHANGED <<current_element_type_, listVars, recent_>>
        \/ /\ ~skip
           /\ Top # Null
           /\ parts' = [parts EXCEPT ![Top] = Append(@, <<"member", id>>)]
           /\ obj' = [obj EXCEPT ![id] =
                        Element("variant_type", m_level - ns_count, get_owner)]
           /\ back' = id
           /\ recent_' = Null
           /\ current_element_type_' = "variant_type"
           /\ UNCHANGED crashed
     /\ UNCHANGED <<opt, named, m_stack, sub_filtered, nsVars>>

AddSubrange ==
  /\ current_element_type_' = "subrange_type"
  /\ last_var_' = Null
  /\ UNCHANGED <<opt, listVars, named, m_stack, recent_, sub_filtered, nsVars, crashed>>

NestedTypes == {"structure_type", "enumerator_type"}

\* Mutated form of AddOwn: recent_ is not reset.
AddOwnAfterRecent(type, id, m_level) ==
  /\ obj' = [obj EXCEPT ![id] = Element(type, m_level - ns_count, get_owner)]
  /\ back' = id
  /\ recent_' = IF type \in {"subroutine", "subroutine_type"} THEN id ELSE recent_
  /\ current_element_type_' = type
  /\ last_var_' = Null
  /\ UNCHANGED <<opt, parts, named, m_stack, nsVars, crashed>>

\* The default case of AddElement: an element of its own.
AddOwn(type, id, m_level) ==
  LET level == m_level - ns_count
      nested == /\ level # 0 /\ get_owner # Null
                /\ type \in NestedTypes /\ "n" \in opt
  IN /\ obj' = [obj EXCEPT ![id] = Element(type, level, get_owner)]
     /\ back' = id
     /\ parts' = IF nested THEN [parts EXCEPT ![Top] = Append(@, <<"nested", id>>)]
                           ELSE parts
     /\ recent_' = IF type \in {"subroutine", "subroutine_type"} THEN id ELSE Null
     /\ current_element_type_' = type
     /\ last_var_' = Null
     /\ UNCHANGED <<opt, named, m_stack, nsVars, crashed>>

can_have_methods(level) ==
  /\ m_stack # <<>>
  /\ Top # Null
  /\ TypeOf(Top) \notin {"ns_start", "subroutine_type", "subroutine"}
  /\ level > 1

\* Mutated form of AddSubroutine: what was said of the function before stays.
AddSubroutineFiltered(id, m_level) ==
  /\ UNCHANGED sub_filtered
  /\ IF can_have_methods(m_level - ns_count)
       THEN /\ obj' = [obj EXCEPT ![id] = Element("method", m_level - ns_count, get_owner)]
            /\ parts' = [parts EXCEPT ![Top] = Append(@, <<"method", id>>)]
            /\ recent_' = id
            /\ current_element_type_' = "method"
            /\ last_var_' = Null
            /\ UNCHANGED <<opt, back, named, m_stack, nsVars, crashed>>
       ELSE AddOwn("subroutine", id, m_level)

\* A function inside a type is a method of the stack's top.
AddSubroutine(id, m_level) ==
  /\ sub_filtered' = FALSE
  /\ IF can_have_methods(m_level - ns_count)
       THEN /\ obj' = [obj EXCEPT ![id] = Element("method", m_level - ns_count, get_owner)]
            /\ parts' = [parts EXCEPT ![Top] = Append(@, <<"method", id>>)]
            /\ recent_' = id
            /\ current_element_type_' = "method"
            /\ last_var_' = Null
            /\ UNCHANGED <<opt, back, named, m_stack, nsVars, crashed>>
       ELSE AddOwn("subroutine", id, m_level)

\* A variable: local when it is below the top level, and then a part of the
\* function (or class) it is in; else an element.
AddVar(id, m_level) ==
  LET level == m_level - ns_count
      local == level > 1 /\ m_stack # <<>>
      class == IF TypeOf(Top) = "structure_type" THEN Top ELSE Null
      owner == IF get_top_func # Null THEN get_top_func ELSE class
      Made(o) == /\ obj' = [obj EXCEPT ![id] = Element("var_type", level, o)]
                 /\ back' = id
                 /\ last_var_' = id
                 /\ current_element_type_' = "var_type"
      NotMade(type) == /\ last_var_' = Null
                       /\ current_element_type_' = type
                       /\ UNCHANGED listVars
  IN /\ recent_' = Null
     /\ \/ /\ local /\ (Top = Null \/ sub_filtered)
           /\ NotMade("none")
        \/ /\ local /\ Top # Null /\ ~sub_filtered /\ owner = Null
           /\ NotMade("var_type")
        \/ /\ local /\ Top # Null /\ ~sub_filtered /\ owner # Null
           /\ Made(owner)
           /\ parts' = [parts EXCEPT ![owner] = Append(@, <<"lvar", id>>)]
        \/ /\ ~local /\ TypeOf(get_owner) = "var_type"
           /\ NotMade("none")
        \/ /\ ~local /\ TypeOf(get_owner) # "var_type"
           /\ Made(get_owner)
           /\ UNCHANGED parts
     /\ UNCHANGED <<opt, named, m_stack, sub_filtered, nsVars, crashed>>

\* "formal parameter - level should be +1 to parent"
ParamFits(m_level) ==
  /\ m_stack # <<>>
  /\ Top # Null
  /\ obj[Top].level = m_level - ns_count - 1

AddFormalParam(id, m_level) ==
  /\ current_element_type_' = "formal_param"
  /\ parts' = IF ParamFits(m_level)
                THEN [parts EXCEPT ![Top] = Append(@, <<"param", id>>)]
                ELSE parts
  /\ UNCHANGED <<opt, back, obj, named, pointerVars, sub_filtered, nsVars, crashed>>

\* AddVariant only looks at the top, and does not look whether there is one.
VariantFits == m_stack # <<>> /\ TypeOf(Top) = "variant_type"

AddVariant ==
  IF m_stack # <<>> /\ Top = Null THEN Crash ELSE UNCHANGED builderVars

-----------------------------------------------------------------------------
(***************************************************************************)
(* Attributes.  A name is stored in whatever the "current" variables point *)
(* to; reading a parameter's location overwrites the stack's top with      *)
(* recent_, because get_param takes the top by reference.                  *)
(***************************************************************************)
NameTarget ==
  LET c == current_element_type_
  IN CASE c = "none" \/ back = Null -> Null
       [] c = "formal_param" /\ back # Null ->
            IF m_stack # <<>> /\ TypeOf(Top) \in {"subroutine", "method"}
              THEN BackOf(Top, "param") ELSE Null
       [] c \in {"enumerator", "member"} /\ back # Null ->
            IF m_stack # <<>> THEN BackOf(Top, c) ELSE Null
       [] c = "var_type" /\ back # Null -> last_var_
       [] OTHER -> IF recent_ # Null THEN recent_ ELSE back

NameNeedsTop ==
  current_element_type_ \in {"formal_param", "enumerator", "member"}

SetElementName(id) ==
  IF NameNeedsTop /\ back # Null /\ m_stack # <<>> /\ Top = Null
    THEN Crash
    ELSE /\ named' = IF NameTarget = Null THEN named ELSE [named EXCEPT ![NameTarget] = id]
         /\ UNCHANGED <<opt, current_element_type_, listVars, pointerVars,
                        sub_filtered, nsVars, crashed>>

\* get_param, as SetLocation, SetVarParam, ... call it.
SetLocation ==
  IF current_element_type_ = "formal_param" /\ back # Null /\ m_stack # <<>>
    THEN IF Top = Null /\ recent_ = Null
           THEN Crash
           ELSE /\ m_stack' = IF recent_ = Null THEN m_stack
                              ELSE [m_stack EXCEPT ![Len(m_stack)] = recent_]
                /\ UNCHANGED <<opt, current_element_type_, listVars, named, recent_,
                               last_var_, sub_filtered, nsVars, crashed>>
    ELSE UNCHANGED builderVars

-----------------------------------------------------------------------------
\* PostProcessTag of a namespace opens it.
OpenNamespace ==
  /\ current_element_type_ = "ns_start"
  /\ ns_stack' = Append(ns_stack, back)
  /\ obj' = [obj EXCEPT ![back].ns = back]
  /\ UNCHANGED <<opt, current_element_type_, back, parts, named, pointerVars,
                 sub_filtered, ns_count, crashed>>

\* Types that an earlier unit may have dumped (merge_dumped, exclude_types).
CanBeDumped ==
  /\ back # Null
  /\ named[back] # Null
  /\ current_element_type_ \in {"structure_type", "enumerator_type", "type",
                                "subroutine_type", "subroutine", "var_type"}
  /\ current_element_type_ = "var_type" => obj[back].owner = Null

\* Mutated form of DropDumped: it calls AddNone for types as well.
DropDumpedAny ==
  /\ current_element_type_' = "none"
  /\ UNCHANGED <<opt, listVars, named, pointerVars, sub_filtered, nsVars, crashed>>

\* check_dumped_type finds the name: the type is replaced, the function left out.
DropDumped ==
  /\ IF current_element_type_ = "subroutine"
       THEN current_element_type_' = "none" /\ sub_filtered' = TRUE
       ELSE UNCHANGED <<current_element_type_, sub_filtered>>
  /\ UNCHANGED <<opt, listVars, named, pointerVars, nsVars, crashed>>

Scopes == {"ns_start", "lexical_block"}

\* Mutated form of add2stack: the last element is pushed, recent_ is not looked at.
add2stackBack(regged) ==
  /\ m_stack' = Append(m_stack, IF regged THEN back ELSE Null)
  /\ ns_count' = IF regged /\ TypeOf(back) \in Scopes THEN ns_count + 1 ELSE ns_count
  /\ UNCHANGED <<opt, current_element_type_, listVars, named, recent_, last_var_,
                 sub_filtered, ns_stack, crashed>>

add2stack(regged) ==
  LET entry == IF recent_ # Null THEN recent_ ELSE back
  IN /\ IF ~regged
          THEN m_stack' = Append(m_stack, Null) /\ UNCHANGED ns_count
        ELSE IF back = Null
          THEN UNCHANGED <<m_stack, ns_count>>
        ELSE /\ m_stack' = Append(m_stack, entry)
             /\ ns_count' = IF recent_ = Null /\ TypeOf(back) \in Scopes
                              THEN ns_count + 1 ELSE ns_count
     /\ UNCHANGED <<opt, current_element_type_, listVars, named, recent_, last_var_,
                    sub_filtered, ns_stack, crashed>>

\* Mutated form of pop_stack: every element that ends counts as a scope.
pop_stackCountsAll ==
  IF m_stack = <<>>
    THEN UNCHANGED builderVars
    ELSE /\ m_stack' = AllButLast(m_stack)
         /\ recent_' = Null
         /\ ns_count' = IF Top # Null THEN ns_count - 1 ELSE ns_count
         /\ ns_stack' = IF TypeOf(Top) = "ns_start" THEN AllButLast(ns_stack) ELSE ns_stack
         /\ UNCHANGED <<opt, current_element_type_, listVars, named, last_var_,
                        sub_filtered, crashed>>

pop_stack ==
  IF m_stack = <<>>
    THEN UNCHANGED builderVars
    ELSE LET last == Top
             type == IF last = Null THEN "none" ELSE obj[last].type
         IN /\ m_stack' = AllButLast(m_stack)
            /\ recent_' = Null
            /\ ns_count' = IF type \in Scopes THEN ns_count - 1 ELSE ns_count
            /\ IF type = "ns_start"
                 THEN /\ obj' = [obj EXCEPT ![NsEnd(last)] =
                                   Element("ns_end", obj[last].level, last)]
                      /\ back' = NsEnd(last)
                      /\ named' = [named EXCEPT ![NsEnd(last)] = named[last]]
                      /\ ns_stack' = IF ns_stack = <<>> THEN <<>> ELSE AllButLast(ns_stack)
                 ELSE UNCHANGED <<obj, back, named, ns_stack>>
            /\ UNCHANGED <<opt, current_element_type_, parts, last_var_,
                           sub_filtered, crashed>>

\* The unit is rendered and its elements are freed.
ProcessUnit ==
  /\ m_stack' = <<>>
  /\ back' = Null
  /\ obj' = [r \in Refs |-> NoObj]
  /\ parts' = [r \in Refs |-> <<>>]
  /\ named' = [r \in Refs |-> Null]
  /\ ns_count' = 0
  /\ recent_' = Null
  /\ UNCHANGED <<opt, current_element_type_, last_var_, sub_filtered, ns_stack, crashed>>
=============================================================================
