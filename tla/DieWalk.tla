------------------------------ MODULE DieWalk -------------------------------
(***************************************************************************)
(* ElfFile::GetAllClasses: the walk over .debug_info, unit after unit and  *)
(* DIE after DIE, that drives a TreeBuilder.  The file is the environment: *)
(* at every step it may hold any DIE that compilers put there (MayContain),*)
(* or the null entry that ends a list of children.                         *)
(*                                                                         *)
(* One DIE is handled in four steps: RegisterNewTag, its attributes,       *)
(* PostProcessTag, and the decision whether its children are skipped (over *)
(* DW_AT_sibling), or read with the DIE on the stack.                      *)
(***************************************************************************)
EXTENDS TreeBuilder, FiniteSets

CONSTANTS Sources,    \* kinds of source: the DIEs they have, the options that matter
          MaxUnits    \* bound: compilation units

VARIABLES
  source,     \* the kind of source the file was compiled from
  m_level, m_regged,
  added,      \* what RegisterNewTag returned
  at,         \* the next step of the walk
  die,        \* the DIE being read: its number, tag, and has_children
  tree,       \* history: of each DIE of the unit tag, parent, the DIEs it is in,
              \* whether it was made, and of a function whether it was then left out
              \* as dumped
  path,       \* history: the DIEs whose children are being read
  units       \* units read

walkVars == <<source, m_level, m_regged, added, at, die, tree, path, units>>
allVars == <<builderVars, walkVars>>

NoDie == [id |-> Null, tag |-> "none", kids |-> FALSE]

Init ==
  /\ BuilderInit
  /\ source \in Sources
  /\ opt \subseteq source.options
  /\ m_level = 0
  /\ m_regged = FALSE
  /\ added = FALSE
  /\ at = "die"
  /\ die = NoDie
  /\ tree = <<>>
  /\ path = <<>>
  /\ units = 0

-----------------------------------------------------------------------------
(***************************************************************************)
(* What compilers emit.  "type" stands for the leaf types, "pack" for      *)
(* template parameters and packs and "other" for the rest of the tags that *)
(* are never registered: inlined subroutines, call sites, imports.         *)
(***************************************************************************)
TopLevel == {"namespace", "structure_type", "enumeration_type", "array_type", "type",
             "subroutine_type", "subprogram", "variable", "other"}

ChildTags == [
  compile_unit     |-> TopLevel,
  namespace        |-> TopLevel,
  structure_type   |-> {"member", "inheritance", "structure_type", "enumeration_type",
                        "subprogram", "variable", "variant_part", "pack", "other"},
  enumeration_type |-> {"enumerator"},
  array_type       |-> {"subrange_type"},
  subroutine_type  |-> {"formal_parameter"},
  subprogram       |-> {"formal_parameter", "lexical_block", "variable",
                        "structure_type", "type", "pack", "other"},
  lexical_block    |-> {"lexical_block", "variable", "structure_type", "subprogram",
                        "other"},
  variant_part     |-> {"member", "variant"},
  variant          |-> {"member"},
  pack             |-> {"formal_parameter"},
  other            |-> {"formal_parameter", "lexical_block", "variable", "other"}]

Parent == IF path = <<>> THEN NoDie ELSE LastOf(path)

OnPath == {path[i].id : i \in DOMAIN path}

Siblings == {i \in DOMAIN tree : tree[i].parent = Parent.id}

\* Of a function's children the parameters come first, packs among them.
MayContain(tag) ==
  /\ tag \in ChildTags[Parent.tag]
  /\ tag = "formal_parameter" =>
       \A i \in Siblings : tree[i].tag \in {"formal_parameter", "pack"}

MayHaveKids(tag) == tag \in DOMAIN ChildTags

HasName(tag) ==
  tag \notin {"none", "compile_unit", "pack", "other", "inheritance", "lexical_block",
              "subrange_type", "variant", "variant_part", "array_type"}

-----------------------------------------------------------------------------
\* RegisterNewTag: what is made of the DIE, and whether its attributes count.
Register(id, tag, kids) ==
  \/ /\ tag \in {"structure_type", "array_type", "type", "subroutine_type"}
     /\ AddOwn(tag, id, m_level) /\ UNCHANGED sub_filtered
     /\ added' = TRUE
  \/ /\ tag = "enumeration_type"
     /\ AddOwn("enumerator_type", id, m_level) /\ UNCHANGED sub_filtered
     /\ added' = TRUE
  \/ /\ tag \in {"member", "inheritance", "enumerator"}
     /\ AddPart(tag, id)
     /\ added' = TRUE
  \/ /\ tag = "variant_part"
     /\ AddVariantPart(id, m_level)
     /\ added' = TRUE
  \/ /\ tag = "variant"
     /\ AddVariant
     /\ added' = VariantFits
  \/ /\ tag = "subrange_type"
     /\ AddSubrange
     /\ added' = TRUE
  \/ /\ tag = "namespace" /\ kids
     /\ AddOwn("ns_start", id, m_level) /\ UNCHANGED sub_filtered
     /\ added' = TRUE
  \/ /\ tag = "lexical_block" /\ kids /\ "L" \in opt
     /\ AddOwn(tag, id, m_level) /\ UNCHANGED sub_filtered
     /\ added' = TRUE
  \/ /\ tag = "variable" /\ "V" \in opt
     /\ AddVar(id, m_level)
     /\ added' = TRUE
  \/ /\ tag = "subprogram" /\ "f" \in opt
     /\ AddSubroutine(id, m_level)
     /\ added' = TRUE
  \/ /\ tag = "formal_parameter" /\ m_regged      \* of the DIE before this one
     /\ AddFormalParam(id, m_level)
     /\ added' = ParamFits(m_level)
  \/ /\ \/ tag \in {"compile_unit", "pack", "other"}
        \/ tag = "namespace" /\ ~kids
        \/ tag = "lexical_block" /\ ~(kids /\ "L" \in opt)
        \/ tag = "variable" /\ "V" \notin opt
        \/ tag = "subprogram" /\ "f" \notin opt
        \/ tag = "formal_parameter" /\ ~m_regged
     /\ AddNone
     /\ added' = FALSE

ReadDie(tag, kids) ==
  /\ ~crashed
  /\ at = "die"
  /\ IF path = <<>> THEN tag = "compile_unit" /\ kids /\ tree = <<>> /\ units < MaxUnits
                    ELSE MayContain(tag) /\ Len(tree) < MaxDies
  /\ kids => MayHaveKids(tag)
  /\ LET id == Len(tree) + 1
     IN /\ Register(id, tag, kids)
        /\ tree' = Append(tree, [tag |-> tag, parent |-> Parent.id, above |-> OnPath,
                                  made |-> added', dropped |-> FALSE])
        /\ die' = [id |-> id, tag |-> tag, kids |-> kids]
  /\ m_regged' = added'
  /\ at' = "name"
  /\ UNCHANGED <<source, m_level, path, units>>

ReadName ==
  /\ ~crashed
  /\ at = "name"
  /\ \/ HasName(die.tag) /\ SetElementName(die.id)
     \/ UNCHANGED builderVars
  /\ at' = "location"
  /\ UNCHANGED <<source, m_level, m_regged, added, die, tree, path, units>>

ReadLocation ==
  /\ ~crashed
  /\ at = "location"
  /\ \/ die.tag = "formal_parameter" /\ m_regged /\ SetLocation
     \/ UNCHANGED builderVars
  /\ at' = "post"
  /\ UNCHANGED <<source, m_level, m_regged, added, die, tree, path, units>>

HasParams(tag) == tag \in {"subprogram", "subroutine_type"}

\* PostProcessTag: open a namespace, or find the type among the dumped ones.
PostProcess ==
  /\ ~crashed
  /\ at = "post"
  /\ \/ m_regged /\ OpenNamespace /\ UNCHANGED <<m_regged, tree>>
     \/ /\ ~m_regged \/ current_element_type_ # "ns_start"
        /\ UNCHANGED <<m_regged, builderVars, tree>>
     \/ /\ m_regged /\ CanBeDumped /\ DropDumped
        /\ m_regged' = FALSE
        /\ tree' = [tree EXCEPT ![die.id].dropped = HasParams(die.tag)]
  /\ at' = "kids"
  /\ UNCHANGED <<source, m_level, added, die, path, units>>

NextDie ==
  /\ at' = "die"
  /\ die' = NoDie
  /\ added' = FALSE

\* DW_AT_sibling of a DIE that was not registered leads past its children.
SkipKids ==
  /\ ~crashed
  /\ at = "kids"
  /\ ~die.kids \/ (~m_regged /\ path # <<>>)
  /\ NextDie
  /\ UNCHANGED <<source, builderVars, m_level, m_regged, tree, path, units>>

\* Mutated form of ReadKids: what PostProcessTag left of m_regged decides.
ReadKidsFiltered ==
  /\ ~crashed
  /\ at = "kids"
  /\ die.kids
  /\ m_level' = m_level + 1
  /\ add2stack(m_regged)
  /\ path' = Append(path, die)
  /\ NextDie
  /\ UNCHANGED <<source, m_regged, tree, units>>

\* Mutated form of ReadKids: a DIE that was not registered has no entry.
ReadKidsOfAdded ==
  /\ ~crashed
  /\ at = "kids"
  /\ die.kids
  /\ m_level' = m_level + 1
  /\ IF added THEN add2stack(added) ELSE UNCHANGED builderVars
  /\ path' = Append(path, die)
  /\ NextDie
  /\ UNCHANGED <<source, m_regged, tree, units>>

ReadKids ==
  /\ ~crashed
  /\ at = "kids"
  /\ die.kids
  /\ m_level' = m_level + 1
  /\ add2stack(added)
  /\ path' = Append(path, die)
  /\ NextDie
  /\ UNCHANGED <<source, m_regged, tree, units>>

\* Mutated form of EndOfKids: the entry of a DIE that was filtered out stays.
EndOfKidsRegged ==
  /\ ~crashed
  /\ at = "die"
  /\ path # <<>>
  /\ path' = AllButLast(path)
  /\ m_level' = m_level - 1
  /\ IF m_regged THEN pop_stack ELSE UNCHANGED builderVars
  /\ UNCHANGED <<source, m_regged, added, at, die, tree, units>>

\* The null entry at the end of the children of the path's last DIE.
EndOfKids ==
  /\ ~crashed
  /\ at = "die"
  /\ path # <<>>
  /\ path' = AllButLast(path)
  /\ IF m_level > 0 THEN m_level' = m_level - 1 /\ pop_stack
                    ELSE UNCHANGED <<m_level, builderVars>>
  /\ UNCHANGED <<source, m_regged, added, at, die, tree, units>>

EndOfUnit ==
  /\ at = "die"
  /\ path = <<>>
  /\ tree # <<>>
  /\ ProcessUnit
  /\ m_level' = 0
  /\ tree' = <<>>
  /\ units' = units + 1
  /\ UNCHANGED <<source, m_regged, added, at, die, path>>

Next ==
  \/ \E tag \in source.tags, kids \in BOOLEAN : ReadDie(tag, kids)
  \/ ReadName
  \/ ReadLocation
  \/ PostProcess
  \/ SkipKids
  \/ ReadKids
  \/ EndOfKids
  \/ EndOfUnit

Spec == Init /\ [][Next]_allVars

-----------------------------------------------------------------------------
\* The state has its types: ns_count and m_level, which the code keeps in signed
\* integers and uses as depths, never fall below zero.
WalkTypeOK ==
  /\ current_element_type_ \in ElementTypes
  /\ back \in Refs \cup {Null}
  /\ DOMAIN obj = Refs
  /\ parts \in [Refs -> Seq(Vectors \X Dies)]
  /\ named \in [Refs -> Dies \cup {Null}]
  /\ m_stack \in Seq(Refs \cup {Null})
  /\ ns_stack \in Seq(Dies)
  /\ {recent_, last_var_} \subseteq Refs \cup {Null}
  /\ ns_count \in Nat
  /\ m_level \in Nat

\* Nobody looks through the null pointer that stands for a DIE that was not
\* registered (AddElement, AddVariant, SetElementName, get_param).
NoNullTop == ~crashed

\* The DIE's own element, or Null: not every DIE that counts has one.
Own(d) == IF d # Null /\ obj[d] # NoObj THEN d ELSE Null

\* Between two DIEs the stack is the path from the unit to here: one entry for
\* each DIE whose children are read, and that entry is the DIE's own element.
StackIsPath ==
  at = "die" =>
    /\ m_level = Len(path)
    /\ Len(m_stack) = Len(path)
    /\ \A i \in DOMAIN path :
         /\ ~tree[path[i].id].made => m_stack[i] = Null
         /\ path[i].tag # "variant" /\ Own(path[i].id) # Null => m_stack[i] = path[i].id

\* A variant part of which nothing was recorded: its entry is another element's.
LostVariants == \E d \in OnPath : tree[d].tag = "variant_part" /\ Own(d) = Null

NamespacesTo(n) == Cardinality({i \in 1 .. n : path[i].tag = "namespace"})

\* ns_count is the number of namespaces and lexical blocks we are in and
\* ns_stack holds those namespaces, outermost first.  Only inside of a lost
\* variant part ns_count may be one more.
NamespacesFollowPath ==
  at = "die" =>
    /\ ~LostVariants => ns_count = Cardinality({d \in OnPath : TypeOf(d) \in Scopes})
    /\ Len(ns_stack) = NamespacesTo(Len(path))
    /\ \A i \in DOMAIN path :
         path[i].tag = "namespace" => ns_stack[NamespacesTo(i)] = path[i].id

Depth(d) == Cardinality({a \in tree[d].above : TypeOf(a) \notin Scopes})

\* The level of an element is its depth in the unit, namespaces and lexical
\* blocks not counted: merge_dumped takes level 1 for "top level".
LevelIsDepth ==
  \A d \in DOMAIN tree : Own(d) # Null => obj[d].level = Depth(d)

\* The builder keeps step with the walk, whatever DIEs are filtered out, skipped or
\* not registered: no look through a null entry, a stack that is the path, and
\* levels that are depths.
WalkInStep == NoNullTop /\ StackIsPath /\ LevelIsDepth

\* A member, base, enumerator, parameter or method is recorded in the type or
\* function its DIE is a child of; a member of a variant, in the variant part.
Scope(d) ==
  LET p == tree[d].parent
  IN IF tree[p].tag = "variant" THEN tree[p].parent ELSE p

PartsOfTheirParent ==
  \A r \in Refs : \A i \in DOMAIN parts[r] :
    parts[r][i][1] # "lvar" => Scope(parts[r][i][2]) = r

\* A local variable belongs to something it is in, and to the innermost
\* function among what has an element there.
LocalsOfTheirFunction ==
  \A r \in Refs : \A i \in DOMAIN parts[r] :
    parts[r][i][1] = "lvar" =>
      LET d == parts[r][i][2]
      IN /\ r \in tree[d].above
         /\ \A a \in tree[d].above : TypeOf(a) \in {"method", "subroutine"} => a <= r

\* What is named after a DIE was made for that DIE.
NamesOfTheirDie ==
  \A d \in Dies : named[d] \in {Null, d}

\* A part of a type and a parameter of a function get lost only behind a DIE that
\* was not registered, a variable, or a function that was left out: "none" is what
\* AddElement skips the part for, m_regged what a parameter is.
PartsKept ==
  \A d \in DOMAIN tree :
    LET p == tree[d].parent
    IN /\ tree[d].tag \in {"member", "inheritance", "enumerator", "formal_parameter"}
       /\ Own(p) # Null /\ ~tree[p].dropped
       /\ \A i \in p + 1 .. d - 1 : tree[i].made /\ tree[i].tag # "variable"
       => \E i \in DOMAIN parts[p] : parts[p][i][2] = d

IsFunction(d) == TypeOf(d) \in {"method", "subroutine"}

\* Inside of elements only, and in a function or directly in a class.
HasOwner(d) ==
  /\ \A a \in tree[d].above : tree[a].parent # Null => Own(a) # Null
  /\ TypeOf(tree[d].parent) = "structure_type" \/ \E a \in tree[d].above : IsFunction(a)

\* A local variable or static member is recorded when the function read last was
\* kept: sub_filtered is of that function, however many were left out before it.
\* Behind a function that was left out the static members of a class are lost.
LocalsKept ==
  \A d \in DOMAIN tree :
    /\ tree[d].tag = "variable" /\ tree[d].made /\ HasOwner(d)
    /\ \E f \in 1 .. d - 1 : /\ IsFunction(f) /\ ~tree[f].dropped
                            /\ \A g \in f + 1 .. d - 1 : ~IsFunction(g)
    => \E r \in Refs : \E i \in DOMAIN parts[r] : parts[r][i] = <<"lvar", d>>
=============================================================================
