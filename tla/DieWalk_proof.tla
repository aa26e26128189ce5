--------------------------- MODULE DieWalk_proof ----------------------------
(***************************************************************************)
(* Theorems about DieWalk and the TreeBuilder it drives, for any number of *)
(* DIEs and units and any kinds of source.                                 *)
(***************************************************************************)
EXTENDS DieWalk, FiniteSetTheorems, FunctionTheorems, SequenceTheorems,
        WellFoundedInduction, TLAPS

LEMMA AllButLastFacts ==
  ASSUME NEW S, NEW s \in Seq(S), s # <<>>
  PROVE  /\ AllButLast(s) \in Seq(S)
         /\ Len(AllButLast(s)) = Len(s) - 1
         /\ DOMAIN AllButLast(s) = 1 .. Len(s) - 1
         /\ \A i \in 1 .. Len(s) - 1 : AllButLast(s)[i] = s[i]
<1> DEFINE n == Len(s) - 1
<1>1. Len(s) \in Nat /\ Len(s) >= 1 /\ n \in Nat
  OBVIOUS
<1>2. \A i \in 1 .. n : s[i] \in S
  BY <1>1, ElementOfSeq
<1>3. AllButLast(s) = SubSeq(s, 1, n)
  BY DEF AllButLast
<1> HIDE DEF n
<1>4. /\ SubSeq(s, 1, n) \in Seq(S)
      /\ Len(SubSeq(s, 1, n)) = IF 1 <= n THEN n - 1 + 1 ELSE 0
      /\ \A i \in 1 .. n - 1 + 1 : SubSeq(s, 1, n)[i] = s[1 + i - 1]
  BY <1>1, <1>2, SubSeqProperties
<1>5. Len(AllButLast(s)) = n /\ \A i \in 1 .. n : AllButLast(s)[i] = s[i]
  BY <1>1, <1>3, <1>4
<1> QED BY <1>3, <1>4, <1>5, LenProperties DEF n

(***************************************************************************)
(* The walk: the tree that is read so far, the path to the DIEs whose      *)
(* children are being read, and the DIE that is read now.                  *)
(***************************************************************************)
Parents == {"compile_unit", "namespace", "structure_type", "enumeration_type", "array_type",
            "subroutine_type", "subprogram", "lexical_block", "variant_part", "variant",
            "pack", "other"}

Tags == Parents \cup {"member", "inheritance", "enumerator", "subrange_type", "type",
                      "formal_parameter", "variable"}

Elders(d) ==
  IF d = 1 THEN tree[d].tag = "compile_unit" /\ tree[d].parent = Null /\ tree[d].above = {}
  ELSE /\ tree[d].parent \in 1 .. d - 1
       /\ tree[d].tag \in ChildTags[tree[tree[d].parent].tag]
       /\ MayHaveKids(tree[tree[d].parent].tag)
       /\ tree[d].above = tree[tree[d].parent].above \cup {tree[d].parent}
       /\ tree[d].above \subseteq 1 .. d - 1

TreeOK ==
  /\ tree \in Seq([tag : Tags, parent : Nat, above : SUBSET Nat,
                   made : BOOLEAN, dropped : BOOLEAN])
  /\ Len(tree) <= MaxDies
  /\ \A d \in DOMAIN tree : Elders(d)

OnPathTo(i) == {path[j].id : j \in 1 .. i}

PathOK ==
  /\ path \in Seq([id : Nat, tag : Tags, kids : BOOLEAN])
  /\ \A i \in DOMAIN path :
       /\ path[i].id \in DOMAIN tree
       /\ path[i].tag = tree[path[i].id].tag
       /\ MayHaveKids(path[i].tag)
       /\ tree[path[i].id].above = OnPathTo(i - 1)
       /\ i = 1 => path[i].id = 1
       /\ i # 1 => /\ tree[path[i].id].parent = path[i - 1].id
                   /\ path[i].tag \in ChildTags[path[i - 1].tag]
  /\ \A i, j \in DOMAIN path : i < j => path[i].id < path[j].id

\* The DIE whose attributes are read.
DieOK ==
  /\ tree # <<>> /\ die = [id |-> Len(tree), tag |-> tree[Len(tree)].tag, kids |-> die.kids]
  /\ die.kids \in BOOLEAN
  /\ added = tree[die.id].made
  /\ m_regged => added
  /\ at # "kids" => m_regged = added
  /\ tree[die.id].above = OnPath
  /\ IF path = <<>> THEN die.id = 1
     ELSE /\ Parent.id < die.id
          /\ tree[die.id].parent = Parent.id
          /\ die.tag \in ChildTags[Parent.tag]
  /\ die.kids => MayHaveKids(die.tag)

WalkInv ==
  /\ TreeOK
  /\ PathOK
  /\ at \in {"die", "name", "location", "post", "kids"}
  /\ added \in BOOLEAN /\ m_regged \in BOOLEAN
  /\ IF at = "die" THEN die = NoDie ELSE DieOK

-----------------------------------------------------------------------------
(***************************************************************************)
(* The elements: of which DIE each one is, and what the builder's          *)
(* variables point to.                                                     *)
(***************************************************************************)
TagType(tag, type) ==
  \/ /\ tag \in {"structure_type", "array_type", "type", "subroutine_type", "lexical_block"}
     /\ type = tag
  \/ tag = "enumeration_type" /\ type = "enumerator_type"
  \/ tag = "namespace" /\ type = "ns_start"
  \/ tag = "variable" /\ type = "var_type"
  \/ tag = "subprogram" /\ type \in {"method", "subroutine"}
  \/ tag = "variant_part" /\ type = "variant_type"

HasElement(d) ==
  \/ tree[d].tag \in {"structure_type", "array_type", "type", "subroutine_type",
                      "enumeration_type"}
  \/ tree[d].tag \in {"namespace", "lexical_block", "subprogram"} /\ tree[d].made

Elements == [type : ElementTypes, level : Int, owner : Refs \cup {Null}, ns : Refs \cup {Null}]

ElementsOK ==
  /\ obj \in [Refs -> Elements]
  /\ \A r \in Refs :
       /\ obj[r].owner < r
       /\ obj[r] # NoObj =>
            IF r \in DOMAIN tree THEN tree[r].made /\ TagType(tree[r].tag, obj[r].type)
                                 ELSE r \notin Dies /\ obj[r].type = "ns_end"
  /\ \A d \in DOMAIN tree :
       /\ HasElement(d) => obj[d] # NoObj
       /\ tree[d].tag \in {"compile_unit", "pack", "other"} => ~tree[d].made
       /\ tree[d].tag = "variant_part" => tree[d].made

FunctionTypes == {"method", "subroutine", "subroutine_type"}

PointersOK ==
  /\ opt \subseteq Options
  /\ current_element_type_ \in ElementTypes
  /\ back \in Refs \cup {Null}
  /\ IF back = Null THEN \A r \in Refs : obj[r] = NoObj ELSE obj[back] # NoObj
  /\ parts \in [Refs -> Seq(Vectors \X Dies)]
  /\ named \in [Refs -> Dies \cup {Null}]
  /\ m_stack \in Seq(Refs \cup {Null})
  /\ \A i \in DOMAIN m_stack : m_stack[i] # Null => obj[m_stack[i]] # NoObj
  /\ ns_count \in Int /\ ns_stack \in Seq(Dies)
  /\ recent_ \in Refs \cup {Null}
  /\ recent_ # Null => TypeOf(recent_) \in FunctionTypes
  /\ last_var_ \in Refs \cup {Null}
  /\ sub_filtered \in BOOLEAN
  /\ ~crashed

\* The entry of the path's i-th DIE.
EntryOK(i) ==
  LET d == path[i].id
  IN /\ tree[d].made <=> m_stack[i] # Null
     /\ Own(d) # Null => m_stack[i] = d
     /\ path[i].tag # "namespace" => TypeOf(m_stack[i]) # "ns_start"
     /\ path[i].tag = "variant" =>
          IF Own(path[i - 1].id) = Null THEN current_element_type_ = "none"
                                        ELSE m_stack[i] = path[i - 1].id
     /\ path[i].tag = "variant_part" =>
          /\ current_element_type_ \in {"none", "variant_type", "member"}
          /\ IF Own(d) = Null THEN current_element_type_ = "none"
                              ELSE recent_ = Null /\ back = d

\* In a class there are no namespaces.
ClassOK(i) ==
  path[i].tag = "structure_type" =>
    /\ back \in Dies /\ back >= path[i].id
    /\ \A d \in DOMAIN tree : d >= path[i].id => tree[d].tag # "namespace"

OnlyParams(d) ==
  \A k \in DOMAIN tree : tree[k].parent = d => tree[k].tag \in {"formal_parameter", "pack"}

\* Up to the first child that is no parameter.
ParamsOK(i) ==
  LET d == path[i].id
  IN OnlyParams(d) =>
       /\ ~tree[d].made => ~m_regged
       /\ path[i].tag \in {"subprogram", "subroutine_type"} /\ tree[d].made
            => recent_ \in {Null, d}

StackOK ==
  /\ m_level = Len(path) /\ Len(m_stack) = Len(path)
  /\ \A i \in DOMAIN path : EntryOK(i) /\ ClassOK(i) /\ ParamsOK(i)

Entry == IF recent_ # Null THEN recent_ ELSE back

\* What RegisterNewTag made of the DIE whose attributes are read.
NewOK ==
  /\ die.kids /\ added => back # Null
  /\ Own(die.id) # Null => Entry = die.id
  /\ die.tag = "variant_part" =>
       /\ current_element_type_ \in {"none", "variant_type"}
       /\ IF Own(die.id) = Null
            THEN current_element_type_ = "none" /\ TypeOf(Entry) # "ns_start"
            ELSE recent_ = Null /\ back = die.id
  /\ die.tag = "variant" /\ Own(Parent.id) # Null => added
  /\ at # "kids" /\ m_regged =>
       /\ current_element_type_ = "ns_start" <=> die.tag = "namespace"
       /\ die.tag = "namespace" => back = die.id
       /\ die.tag = "formal_parameter" =>
            /\ current_element_type_ = "formal_param"
            /\ m_stack # <<>> /\ Top # Null /\ recent_ \in {Null, Top}
  /\ at = "name" /\ HasName(die.tag) /\ NameNeedsTop /\ back # Null => Top # Null

BuilderInv ==
  /\ ElementsOK
  /\ PointersOK
  /\ StackOK
  /\ at # "die" => NewOK

-----------------------------------------------------------------------------
(***************************************************************************)
(* Levels and namespaces.                                                  *)
(***************************************************************************)
ScopeEntries == {i \in DOMAIN m_stack : TypeOf(m_stack[i]) \in Scopes}

\* The namespaces that are open: the one that is read now is, behind PostProcessTag.
Opened == at = "kids" /\ die.tag = "namespace" /\ added

\* How many namespaces are among the first n DIEs of a path.
Count(s, n) == Cardinality({i \in 1 .. n : s[i].tag = "namespace"})

NamespacesInv ==
  /\ at # "die" /\ die.tag = "namespace" => (added <=> die.kids)
  /\ Opened => m_regged /\ LastOf(ns_stack) = die.id
  /\ Len(ns_stack) = Count(path, Len(path)) + (IF Opened THEN 1 ELSE 0)
  /\ \A i \in DOMAIN path :
       path[i].tag = "namespace" => /\ tree[path[i].id].made
                                    /\ ns_stack[Count(path, i)] = path[i].id

LevelInv ==
  /\ ns_count = Cardinality(ScopeEntries)
  /\ LevelIsDepth
  /\ NamespacesInv

-----------------------------------------------------------------------------
(***************************************************************************)
(* Names, parts and local variables.                                       *)
(***************************************************************************)
NameInv ==
  /\ NamesOfTheirDie
  /\ at = "name" /\ HasName(die.tag) => NameTarget \in {Null, die.id}

OwnersOnPath ==
  \A i \in DOMAIN path :
    Own(path[i].id) # Null =>
      obj[path[i].id].owner = IF i = 1 THEN Null ELSE m_stack[i - 1]

\* Where a part belongs.
Placed(r, v, d) ==
  /\ r \in DOMAIN tree /\ d \in DOMAIN tree /\ tree[d].parent \in DOMAIN tree
  /\ v # "lvar" => Scope(d) = r
  /\ v = "lvar" => /\ r \in tree[d].above
                   /\ \A a \in tree[d].above : IsFunction(a) => a <= r

PartsInv ==
  /\ \A r \in Refs : \A i \in DOMAIN parts[r] : Placed(r, parts[r][i][1], parts[r][i][2])
  /\ OwnersOnPath
  /\ at # "die" /\ die.kids /\ Own(die.id) # Null => obj[die.id].owner = get_owner

-----------------------------------------------------------------------------
(***************************************************************************)
(* What is not lost.                                                       *)
(***************************************************************************)
LastFunctionKept ==
  \E f \in DOMAIN tree : /\ IsFunction(f) /\ ~tree[f].dropped
                         /\ \A g \in DOMAIN tree : g > f => ~IsFunction(g)

Recorded(d) == \A k \in DOMAIN tree : k > d => tree[k].made /\ tree[k].tag # "variable"

PartParents == {"structure_type", "enumeration_type", "subprogram", "subroutine_type",
                "variant_part"}

\* While the children of the path's i-th DIE are read, AddElement skips none of them.
PathKept(i) ==
  LET d == path[i].id
  IN path[i].tag \in PartParents /\ Own(d) # Null /\ ~tree[d].dropped /\ Recorded(d) =>
       /\ current_element_type_ # "none"
       /\ HasParams(path[i].tag) /\ OnlyParams(d) => m_regged

DieKept ==
  die.tag \in PartParents /\ Own(die.id) # Null /\ ~tree[die.id].dropped =>
    /\ current_element_type_ # "none"
    /\ HasParams(die.tag) => m_regged

\* Functions are methods wherever they would have to be parts.
OutsideOfTypes ==
  added /\ current_element_type_ = "subroutine" =>
    /\ die.tag = "subprogram" /\ TypeOf(die.id) = "subroutine"
    /\ \/ path # <<>> /\ ~tree[Parent.id].made
       \/ \A i \in DOMAIN path : path[i].tag \notin PartParents

KeptInv ==
  /\ \A d \in DOMAIN tree : tree[d].dropped => HasParams(tree[d].tag)
  /\ LastFunctionKept => ~sub_filtered
  /\ \A i \in DOMAIN path : PathKept(i)
  /\ at # "die" => DieKept /\ OutsideOfTypes
  /\ PartsKept
  /\ LocalsKept

-----------------------------------------------------------------------------
(***************************************************************************)
(* What compilers emit, seen from the child and from the parent.           *)
(***************************************************************************)
Outer == {"compile_unit", "namespace"}

LEMMA KindsOfParents == ASSUME NEW tag PROVE MayHaveKids(tag) <=> tag \in Parents
  BY DEF MayHaveKids, ChildTags, Parents

LEMMA KindsOfChildren ==
  ASSUME NEW p \in Parents, NEW t \in ChildTags[p]
  PROVE  /\ t \in Tags /\ t \notin {"compile_unit", "none"}
         /\ p \in Outer => t \in TopLevel
         /\ p = "variant_part" => t \in {"member", "variant"}
         /\ p = "variant" => t = "member"
         /\ p = "pack" => t = "formal_parameter"
         /\ t = "namespace" => p \in Outer
         /\ t = "variant" => p = "variant_part"
         /\ t = "variant_part" => p = "structure_type"
         /\ t = "member" => p \in {"structure_type", "variant_part", "variant"}
         /\ t = "inheritance" => p = "structure_type"
         /\ t = "enumerator" => p = "enumeration_type"
         /\ t = "formal_parameter" => p \in {"subroutine_type", "subprogram", "pack", "other"}
         /\ t = "subprogram" => p \in Outer \cup {"structure_type", "lexical_block"}
         /\ t = "variable" => p \in Outer \cup {"structure_type", "subprogram",
                                                "lexical_block", "other"}
<1>1. CASE p = "compile_unit"
  BY <1>1 DEF ChildTags, TopLevel, Outer, Parents, Tags
<1>2. CASE p = "namespace"
  BY <1>2 DEF ChildTags, TopLevel, Outer, Parents, Tags
<1>3. CASE p = "structure_type"
  BY <1>3 DEF ChildTags, Outer, Parents, Tags
<1>4. CASE p = "subprogram"
  BY <1>4 DEF ChildTags, Outer, Parents, Tags
<1>5. CASE p \in {"enumeration_type", "array_type", "subroutine_type", "pack"}
  BY <1>5 DEF ChildTags, Outer, Parents, Tags
<1>6. CASE p \in {"variant_part", "variant"}
  BY <1>6 DEF ChildTags, Outer, Parents, Tags
<1>7. CASE p \in {"lexical_block", "other"}
  BY <1>7 DEF ChildTags, Outer, Parents, Tags
<1> QED BY <1>1, <1>2, <1>3, <1>4, <1>5, <1>6, <1>7 DEF Parents

-----------------------------------------------------------------------------
(***************************************************************************)
(* The walk itself, whatever the builder does.                             *)
(***************************************************************************)
Shape ==
  /\ Len(tree) \in Nat /\ DOMAIN tree = 1 .. Len(tree) /\ DOMAIN tree \subseteq Dies
  /\ Len(path) \in Nat /\ DOMAIN path = 1 .. Len(path)
  /\ path = <<>> <=> Len(path) = 0
  /\ tree = <<>> <=> Len(tree) = 0
  /\ path = <<>> => Parent = NoDie /\ OnPath = {}
  /\ path # <<>> => /\ Parent = path[Len(path)] /\ Parent.id \in DOMAIN tree
                    /\ Parent.tag = tree[Parent.id].tag /\ Parent.tag \in Parents
                    /\ OnPath = tree[Parent.id].above \cup {Parent.id}
  /\ OnPath \subseteq DOMAIN tree

LEMMA WalkShape == WalkInv => Shape
<1> SUFFICES ASSUME WalkInv PROVE Shape
  OBVIOUS
<1>1. /\ Len(tree) \in Nat /\ DOMAIN tree = 1 .. Len(tree)
      /\ Len(path) \in Nat /\ DOMAIN path = 1 .. Len(path)
      /\ path = <<>> <=> Len(path) = 0
      /\ tree = <<>> <=> Len(tree) = 0
  BY DEF WalkInv, TreeOK, PathOK
<1>2. DOMAIN tree \subseteq Dies
  BY <1>1, MaxDiesAssumption DEF WalkInv, TreeOK, Dies
<1>3. path = <<>> => Parent = NoDie /\ OnPath = {}
  BY <1>1 DEF Parent, OnPath
<1>4. ASSUME path # <<>>
      PROVE  /\ Parent = path[Len(path)] /\ Parent.id \in DOMAIN tree
             /\ Parent.tag = tree[Parent.id].tag /\ Parent.tag \in Parents
             /\ OnPath = tree[Parent.id].above \cup {Parent.id}
  <2>1. Parent = path[Len(path)] /\ Len(path) \in DOMAIN path
    BY <1>1, <1>4 DEF Parent, LastOf
  <2>2. OnPath = OnPathTo(Len(path) - 1) \cup {Parent.id}
    BY <1>1, <2>1 DEF OnPath, OnPathTo
  <2> QED BY <2>1, <2>2, KindsOfParents DEF WalkInv, PathOK
<1>5. OnPath \subseteq DOMAIN tree
  BY DEF OnPath, WalkInv, PathOK
<1> QED BY <1>1, <1>2, <1>3, <1>4, <1>5 DEF Shape

LEMMA WalkInvInit == Init => WalkInv
<1> SUFFICES ASSUME Init PROVE WalkInv
  OBVIOUS
<1>1. tree = <<>> /\ path = <<>> /\ at = "die" /\ die = NoDie /\ added = FALSE /\ m_regged = FALSE
  BY DEF Init
<1>2. TreeOK /\ PathOK
  BY <1>1, MaxDiesAssumption DEF TreeOK, PathOK
<1> QED BY <1>1, <1>2 DEF WalkInv

\* What RegisterNewTag returns is a truth value.
LEMMA AddedIsBoolean ==
  ASSUME NEW id, NEW tag, NEW kids, Register(id, tag, kids) PROVE added' \in BOOLEAN
  BY DEF Register, VariantFits, ParamFits

\* A DIE is read: the tree has one more, and that is all the walk does.
NewDie(n, tag, kids) ==
  /\ n = Len(tree) + 1 /\ n \in Dies /\ n \notin DOMAIN tree
  /\ at = "die" /\ ~crashed
  /\ added' \in BOOLEAN
  /\ Register(n, tag, kids)
  /\ tree' \in Seq([tag : Tags, parent : Nat, above : SUBSET Nat,
                    made : BOOLEAN, dropped : BOOLEAN])
  /\ DOMAIN tree' = DOMAIN tree \cup {n} /\ DOMAIN tree' = 1 .. n /\ Len(tree') = n
  /\ \A d \in DOMAIN tree : tree'[d] = tree[d]
  /\ tree'[n] = [tag |-> tag, parent |-> Parent.id, above |-> OnPath,
                 made |-> added', dropped |-> FALSE]
  /\ die' = [id |-> n, tag |-> tag, kids |-> kids]
  /\ m_regged' = added' /\ at' = "name"
  /\ UNCHANGED <<source, m_level, path, units>>
  /\ Parent' = Parent /\ OnPath' = OnPath
  /\ IF path = <<>> THEN tag = "compile_unit" /\ kids /\ n = 1
                    ELSE MayContain(tag) /\ tag \in ChildTags[Parent.tag]
  /\ kids => tag \in Parents
  /\ tag \in Tags

LEMMA ReadDieIsNewDie ==
  ASSUME WalkInv, NEW tag, NEW kids \in BOOLEAN, ReadDie(tag, kids)
  PROVE  NewDie(Len(tree) + 1, tag, kids)
<1> DEFINE n == Len(tree) + 1
<1> DEFINE new == [tag |-> tag, parent |-> Parent.id, above |-> OnPath,
                   made |-> added', dropped |-> FALSE]
<1>0. Shape
  BY WalkShape
<1>1. added' \in BOOLEAN
  BY AddedIsBoolean DEF ReadDie
<1>2. n \in Dies
  BY <1>0, MaxDiesAssumption DEF ReadDie, Dies, Shape
<1>3. tree' = Append(tree, new)
  BY DEF ReadDie
<1>4. tag \in Tags
  <2>1. CASE path = <<>>
    BY <2>1 DEF ReadDie, Tags, Parents
  <2>2. CASE path # <<>>
    BY <2>2, <1>0, KindsOfChildren DEF ReadDie, MayContain, Shape
  <2> QED BY <2>1, <2>2
<1>5. new \in [tag : Tags, parent : Nat, above : SUBSET Nat, made : BOOLEAN, dropped : BOOLEAN]
  <2>1. Parent.id \in Nat /\ OnPath \in SUBSET Nat
    BY <1>0 DEF NoDie, Null, Shape
  <2> QED BY <1>1, <1>4, <2>1
<1>6. tree \in Seq([tag : Tags, parent : Nat, above : SUBSET Nat,
                    made : BOOLEAN, dropped : BOOLEAN])
  BY DEF WalkInv, TreeOK
<1> HIDE DEF new
<1>7. /\ DOMAIN tree' = 1 .. n /\ Len(tree') = n
      /\ \A d \in DOMAIN tree : tree'[d] = tree[d]
      /\ tree'[n] = new
      /\ tree' \in Seq([tag : Tags, parent : Nat, above : SUBSET Nat,
                    made : BOOLEAN, dropped : BOOLEAN])
  BY <1>3, <1>5, <1>6, AppendProperties
<1>8. DOMAIN tree' = DOMAIN tree \cup {n} /\ n \notin DOMAIN tree
  BY <1>0, <1>7 DEF Shape
<1>9. Parent' = Parent /\ OnPath' = OnPath
  BY DEF Parent, OnPath, LastOf, ReadDie
<1>10. path = <<>> => n = 1
  BY <1>0 DEF ReadDie, Shape
<1>11. path # <<>> => MayContain(tag) /\ tag \in ChildTags[Parent.tag]
  BY DEF ReadDie, MayContain
<1> QED BY <1>1, <1>2, <1>4, <1>7, <1>8, <1>9, <1>10, <1>11, KindsOfParents DEF ReadDie, NewDie, new

LEMMA WalkInvReadDie ==
  ASSUME WalkInv, NEW n, NEW tag, NEW kids \in BOOLEAN, NewDie(n, tag, kids)
  PROVE  WalkInv'
<1>0. Shape
  BY WalkShape
<1>1. TreeOK'
  <2>1. Len(tree') <= MaxDies
    BY MaxDiesAssumption DEF Dies, NewDie
  <2>2. ASSUME NEW d \in DOMAIN tree PROVE Elders(d)'
    <3>1. Elders(d)
      BY DEF WalkInv, TreeOK
    <3>2. d \in Nat /\ tree'[d] = tree[d] /\ (d # 1 => tree'[tree[d].parent] = tree[tree[d].parent])
      BY <1>0, <3>1 DEF NewDie, Elders, Shape
    <3> QED BY <3>1, <3>2 DEF Elders
  <2>3. Elders(n)'
    <3>1. CASE path = <<>>
      BY <1>0, <3>1 DEF Elders, NoDie, NewDie, Shape
    <3>2. CASE path # <<>>
      <4>1. /\ Parent.id \in 1 .. n - 1 /\ tree'[Parent.id] = tree[Parent.id] /\ n # 1
            /\ Parent.tag = tree[Parent.id].tag /\ Parent.tag \in Parents
            /\ OnPath \subseteq 1 .. n - 1
            /\ OnPath = tree[Parent.id].above \cup {Parent.id} /\ tag \in ChildTags[Parent.tag]
        BY <1>0, <3>2 DEF Shape, NewDie
      <4>2. tree'[n].parent = Parent.id /\ tree'[n].tag = tag /\ tree'[n].above = OnPath
        BY DEF NewDie
      <4> QED BY <4>1, <4>2, KindsOfParents DEF Elders
    <3> QED BY <3>1, <3>2
  <2> QED BY <2>1, <2>2, <2>3 DEF TreeOK, NewDie
<1>2. PathOK'
  <2>1. PathOK /\ path' = path
    BY DEF WalkInv, NewDie
  <2>2. \A d \in DOMAIN tree : d \in DOMAIN tree' /\ tree'[d] = tree[d]
    BY DEF NewDie
  <2>3. \A i : OnPathTo(i)' = OnPathTo(i)
    BY <2>1 DEF OnPathTo
  <2> QED BY <2>1, <2>2, <2>3 DEF PathOK
<1>3. DieOK'
  <2>1. CASE path = <<>>
    BY <1>0, <2>1, KindsOfParents DEF DieOK, NewDie, Shape
  <2>2. CASE path # <<>>
    BY <1>0, <2>2, KindsOfParents DEF DieOK, NewDie, Shape
  <2> QED BY <2>1, <2>2
<1> QED BY <1>1, <1>2, <1>3 DEF WalkInv, NewDie

\* Nothing of the tree is changed but what is said of the DIE that is read now.
SameTree ==
  /\ tree' \in Seq([tag : Tags, parent : Nat, above : SUBSET Nat,
                    made : BOOLEAN, dropped : BOOLEAN])
  /\ DOMAIN tree' = DOMAIN tree /\ Len(tree') = Len(tree)
  /\ \A d \in DOMAIN tree :
       /\ tree'[d].tag = tree[d].tag /\ tree'[d].parent = tree[d].parent
       /\ tree'[d].above = tree[d].above /\ tree'[d].made = tree[d].made
       /\ d # die.id => tree'[d].dropped = tree[d].dropped

LEMMA SameTreeIfUnchanged == TreeOK /\ tree' = tree => SameTree
  BY DEF TreeOK, SameTree

LEMMA SameTreeOK == ASSUME TreeOK, SameTree PROVE TreeOK'
<1>1. ASSUME NEW d \in DOMAIN tree PROVE Elders(d)'
  <2>1. Elders(d)
    BY DEF TreeOK
  <2>2. d # 1 => tree[d].parent \in DOMAIN tree
    BY <2>1 DEF TreeOK, Elders
  <2> QED BY <2>1, <2>2 DEF SameTree, Elders
<1> QED BY <1>1 DEF SameTree, TreeOK

LEMMA PathAt ==
  ASSUME PathOK, NEW i \in DOMAIN path
  PROVE  /\ path[i].id \in DOMAIN tree
         /\ path[i].tag = tree[path[i].id].tag
         /\ MayHaveKids(path[i].tag)
         /\ tree[path[i].id].above = OnPathTo(i - 1)
         /\ i = 1 => path[i].id = 1
         /\ i # 1 => /\ tree[path[i].id].parent = path[i - 1].id
                     /\ path[i].tag \in ChildTags[path[i - 1].tag]
  BY DEF PathOK

LEMMA SamePathOK == ASSUME PathOK, SameTree, path' = path PROVE PathOK'
<1>1. \A i : OnPathTo(i)' = OnPathTo(i)
  BY DEF OnPathTo
<1>2. /\ path \in Seq([id : Nat, tag : Tags, kids : BOOLEAN])
      /\ \A i, j \in DOMAIN path : i < j => path[i].id < path[j].id
  BY DEF PathOK
<1>3. ASSUME NEW i \in DOMAIN path
      PROVE  /\ path[i].id \in DOMAIN tree'
             /\ path[i].tag = tree'[path[i].id].tag
             /\ MayHaveKids(path[i].tag)
             /\ tree'[path[i].id].above = OnPathTo(i - 1)
             /\ i = 1 => path[i].id = 1
             /\ i # 1 => /\ tree'[path[i].id].parent = path[i - 1].id
                         /\ path[i].tag \in ChildTags[path[i - 1].tag]
  BY PathAt DEF SameTree
<1> QED BY <1>1, <1>2, <1>3 DEF PathOK

LEMMA WalkInvAttribute ==
  ASSUME WalkInv, SameTree, at \in {"name", "location", "post"},
         at' \in {"name", "location", "post", "kids"},
         m_regged' = m_regged \/ (m_regged' = FALSE /\ at' = "kids"),
         UNCHANGED <<added, die, path>>
  PROVE  WalkInv'
<1>1. TreeOK' /\ PathOK'
  BY SameTreeOK, SamePathOK DEF WalkInv
<1>2. Parent' = Parent /\ OnPath' = OnPath
  BY DEF Parent, OnPath, LastOf
<1>3. DieOK /\ Shape
  BY WalkShape DEF WalkInv
<1>4. die.id \in DOMAIN tree /\ die.id = Len(tree) /\ Len(tree') = Len(tree) /\ tree' # <<>>
  BY <1>3 DEF DieOK, Shape, SameTree
<1>5. DieOK'
  <2>1. /\ tree'[die.id].tag = tree[die.id].tag /\ tree'[die.id].parent = tree[die.id].parent
        /\ tree'[die.id].above = tree[die.id].above /\ tree'[die.id].made = tree[die.id].made
    BY <1>4 DEF SameTree
  <2>2. m_regged' => m_regged
    OBVIOUS
  <2>3. at' # "kids" => m_regged' = added'
    BY <1>3 DEF DieOK
  <2> QED BY <1>2, <1>3, <1>4, <2>1, <2>2, <2>3 DEF DieOK
<1> QED BY <1>1, <1>5 DEF WalkInv

LEMMA WalkInvNextDie ==
  ASSUME WalkInv, NextDie, UNCHANGED <<m_regged, tree, path>>
  PROVE  WalkInv'
<1>1. SameTree
  BY DEF WalkInv, TreeOK, SameTree
<1>2. TreeOK' /\ PathOK'
  BY <1>1, SameTreeOK, SamePathOK DEF WalkInv
<1> QED BY <1>2 DEF WalkInv, NextDie

\* The path with the DIE that was read.
LongerPath ==
  /\ Len(path') = Len(path) + 1 /\ DOMAIN path' = 1 .. Len(path) + 1
  /\ path' \in Seq([id : Nat, tag : Tags, kids : BOOLEAN])
  /\ \A i \in DOMAIN path : path'[i] = path[i]
  /\ path'[Len(path) + 1] = die
  /\ die.id = Len(tree) /\ die.id \in DOMAIN tree
  /\ die.tag = tree[die.id].tag /\ die.tag \in Parents
  /\ Parent' = die
  /\ \A i \in 0 .. Len(path) : OnPathTo(i)' = OnPathTo(i)
  /\ OnPathTo(Len(path)) = OnPath

LEMMA ReadKidsLongerPath == ASSUME WalkInv, ReadKids PROVE LongerPath
<1>1. DieOK /\ Shape /\ path' = Append(path, die) /\ die.kids
  BY WalkShape DEF WalkInv, ReadKids
<1>2. /\ die.id = Len(tree) /\ die.id \in DOMAIN tree
      /\ die.tag = tree[die.id].tag /\ die.tag \in Parents
  BY <1>1, KindsOfParents DEF DieOK, Shape
<1>3. die \in [id : Nat, tag : Tags, kids : BOOLEAN]
  <2>1. die = [id |-> die.id, tag |-> die.tag, kids |-> die.kids]
    BY <1>1 DEF DieOK
  <2> QED BY <1>1, <1>2, <2>1 DEF Tags, DieOK, Shape
<1>4. /\ Len(path') = Len(path) + 1 /\ DOMAIN path' = 1 .. Len(path) + 1
      /\ path' \in Seq([id : Nat, tag : Tags, kids : BOOLEAN])
      /\ \A i \in DOMAIN path : path'[i] = path[i]
      /\ path'[Len(path) + 1] = die
  BY <1>1, <1>3, AppendProperties DEF WalkInv, PathOK
<1>5. Parent' = die
  BY <1>1, <1>4 DEF Parent, LastOf, Shape
<1>6. ASSUME NEW i \in 0 .. Len(path) PROVE OnPathTo(i)' = OnPathTo(i)
  <2>1. \A j \in 1 .. i : path'[j] = path[j]
    BY <1>1, <1>4 DEF Shape
  <2> QED BY <2>1 DEF OnPathTo
<1>7. OnPathTo(Len(path)) = OnPath
  BY <1>1 DEF OnPathTo, OnPath, Shape
<1> QED BY <1>2, <1>4, <1>5, <1>6, <1>7 DEF LongerPath

LEMMA WalkInvReadKids == ASSUME WalkInv, ReadKids PROVE WalkInv'
<1>1. LongerPath /\ Shape
  BY ReadKidsLongerPath, WalkShape
<1>2. /\ tree' = tree /\ at' = "die" /\ die' = NoDie /\ added' = FALSE
      /\ m_regged' = m_regged
  BY DEF ReadKids, NextDie
<1>3. SameTree
  BY <1>2 DEF WalkInv, TreeOK, SameTree
<1>4. TreeOK'
  BY <1>3, SameTreeOK DEF WalkInv
<1>5. DieOK
  BY DEF WalkInv, ReadKids
<1>6. PathOK
  BY DEF WalkInv
<1>7. PathOK'
  <2> DEFINE n == Len(path) + 1
  <2>1. ASSUME NEW i \in DOMAIN path'
        PROVE  /\ path'[i].id \in DOMAIN tree
               /\ path'[i].tag = tree[path'[i].id].tag
               /\ MayHaveKids(path'[i].tag)
               /\ tree[path'[i].id].above = OnPathTo(i - 1)'
               /\ i = 1 => path'[i].id = 1
               /\ i # 1 => /\ tree[path'[i].id].parent = path'[i - 1].id
                           /\ path'[i].tag \in ChildTags[path'[i - 1].tag]
    <3>1. CASE i \in DOMAIN path
      <4>1. path'[i] = path[i] /\ (i # 1 => path'[i - 1] = path[i - 1])
        BY <1>1, <3>1 DEF LongerPath, Shape
      <4>2. OnPathTo(i - 1)' = OnPathTo(i - 1)
        BY <1>1, <3>1 DEF LongerPath, Shape
      <4> QED BY <1>6, <3>1, <4>1, <4>2 DEF PathOK
    <3>2. CASE i = n
      <4>1. path'[i] = die /\ (i # 1 => path # <<>> /\ path'[i - 1] = Parent)
        BY <1>1, <3>2 DEF LongerPath, Shape
      <4>2. OnPathTo(i - 1)' = OnPath
        BY <1>1, <3>2 DEF LongerPath, Shape
      <4>3. i = 1 => path = <<>>
        BY <1>1, <3>2 DEF Shape
      <4> QED BY <1>1, <1>5, <4>1, <4>2, <4>3, KindsOfParents DEF DieOK, LongerPath
    <3> QED BY <1>1, <3>1, <3>2 DEF LongerPath, Shape
  <2>2. ASSUME NEW i \in DOMAIN path', NEW j \in DOMAIN path', i < j
        PROVE  path'[i].id < path'[j].id
    <3>1. CASE j \in DOMAIN path
      <4>1. i \in DOMAIN path /\ path'[i] = path[i] /\ path'[j] = path[j]
        BY <1>1, <2>2, <3>1 DEF LongerPath, Shape
      <4> QED BY <1>6, <2>2, <3>1, <4>1 DEF PathOK
    <3>2. CASE j = n
      <4>1. i \in DOMAIN path /\ path'[i] = path[i] /\ path'[j] = die
        BY <1>1, <2>2, <3>2 DEF LongerPath, Shape
      <4>2. path # <<>> /\ Parent.id < die.id /\ Parent = path[Len(path)]
        BY <1>1, <1>5, <4>1 DEF DieOK, Shape
      <4>3. i = Len(path) \/ path[i].id < path[Len(path)].id
        <5>1. Len(path) \in DOMAIN path /\ (i = Len(path) \/ i < Len(path))
          BY <1>1, <4>1 DEF Shape
        <5> QED BY <1>6, <4>1, <5>1 DEF PathOK
      <4>4. path[i].id \in Nat /\ Parent.id \in Nat /\ die.id \in Nat
        BY <1>1, <1>6, <4>1, <4>2 DEF PathOK, Shape, LongerPath
      <4> QED BY <4>1, <4>2, <4>3, <4>4
    <3> QED BY <1>1, <3>1, <3>2 DEF LongerPath, Shape
  <2> QED BY <1>1, <1>2, <2>1, <2>2 DEF PathOK, LongerPath
<1> QED BY <1>2, <1>4, <1>7 DEF WalkInv

\* The path without its last DIE.
ShorterPath ==
  /\ path # <<>>
  /\ Len(path') = Len(path) - 1 /\ DOMAIN path' = 1 .. Len(path) - 1
  /\ path' \in Seq([id : Nat, tag : Tags, kids : BOOLEAN])
  /\ \A i \in DOMAIN path' : i \in DOMAIN path /\ path'[i] = path[i]

LEMMA ShorterPathByOne ==
  ASSUME WalkInv, path # <<>>, path' = AllButLast(path) PROVE ShorterPath
<1>1. path \in Seq([id : Nat, tag : Tags, kids : BOOLEAN]) /\ Shape
  BY WalkShape DEF WalkInv, PathOK
<1>2. /\ path' \in Seq([id : Nat, tag : Tags, kids : BOOLEAN])
      /\ Len(path') = Len(path) - 1 /\ DOMAIN path' = 1 .. Len(path) - 1
      /\ \A i \in 1 .. Len(path) - 1 : path'[i] = path[i]
  BY <1>1, AllButLastFacts
<1>3. 1 .. Len(path) - 1 \subseteq DOMAIN path
  BY <1>1 DEF Shape
<1> QED BY <1>2, <1>3 DEF ShorterPath

LEMMA WalkInvEndOfKids == ASSUME WalkInv, EndOfKids PROVE WalkInv'
<1>1. ShorterPath /\ Shape
  BY ShorterPathByOne, WalkShape DEF EndOfKids
<1>2. SameTree
  BY DEF WalkInv, TreeOK, SameTree, EndOfKids
<1>3. TreeOK'
  BY <1>2, SameTreeOK DEF WalkInv
<1>4. PathOK'
  <2>1. ASSUME NEW i \in DOMAIN path'
        PROVE  OnPathTo(i - 1)' = OnPathTo(i - 1) /\ (i # 1 => i - 1 \in DOMAIN path')
    <3>1. i \in 1 .. Len(path) - 1 /\ DOMAIN path' = 1 .. Len(path) - 1 /\ Len(path) \in Nat
      BY <1>1 DEF ShorterPath, Shape
    <3>2. \A j \in 1 .. i - 1 : path'[j] = path[j]
      <4>1. \A j \in 1 .. i - 1 : j \in DOMAIN path'
        BY <3>1
      <4> QED BY <1>1, <4>1 DEF ShorterPath
    <3> QED BY <3>1, <3>2 DEF OnPathTo
  <2>2. PathOK /\ tree' = tree
    BY DEF WalkInv, EndOfKids
  <2>3. ASSUME NEW i \in DOMAIN path'
        PROVE  /\ path'[i].id \in DOMAIN tree
               /\ path'[i].tag = tree[path'[i].id].tag
               /\ MayHaveKids(path'[i].tag)
               /\ tree[path'[i].id].above = OnPathTo(i - 1)'
               /\ i = 1 => path'[i].id = 1
               /\ i # 1 => /\ tree[path'[i].id].parent = path'[i - 1].id
                           /\ path'[i].tag \in ChildTags[path'[i - 1].tag]
    <3>1. /\ i \in DOMAIN path /\ path'[i] = path[i]
          /\ i # 1 => path'[i - 1] = path[i - 1]
      BY <1>1, <2>1 DEF ShorterPath
    <3>2. PICK e, p : e = path[i] /\ p = path[i - 1]
      OBVIOUS
    <3>3. /\ e.id \in DOMAIN tree /\ e.tag = tree[e.id].tag /\ MayHaveKids(e.tag)
          /\ tree[e.id].above = OnPathTo(i - 1)
          /\ i = 1 => e.id = 1
          /\ i # 1 => tree[e.id].parent = p.id /\ e.tag \in ChildTags[p.tag]
      BY <2>2, <3>1, <3>2, PathAt
    <3>4. path'[i] = e /\ (i # 1 => path'[i - 1] = p)
      BY <3>1, <3>2
    <3> QED BY <2>1, <3>3, <3>4
  <2>4. \A i, j \in DOMAIN path' : i < j => path'[i].id < path'[j].id
    BY <1>1, <2>2 DEF PathOK, ShorterPath
  <2>5. path' \in Seq([id : Nat, tag : Tags, kids : BOOLEAN])
    BY <1>1, <2>2 DEF PathOK, ShorterPath
  <2> QED BY <2>2, <2>3, <2>4, <2>5 DEF PathOK
<1> QED BY <1>3, <1>4 DEF WalkInv, EndOfKids

LEMMA WalkInvEndOfUnit == ASSUME WalkInv, EndOfUnit PROVE WalkInv'
<1>1. path' = <<>> /\ tree' = <<>>
  BY DEF EndOfUnit
<1>2. TreeOK' /\ PathOK'
  BY <1>1, MaxDiesAssumption DEF TreeOK, PathOK
<1> QED BY <1>2 DEF WalkInv, EndOfUnit

LEMMA PostProcessTree ==
  ASSUME WalkInv, PostProcess
  PROVE  /\ SameTree
         /\ tree' = tree \/ tree' = [tree EXCEPT ![die.id].dropped = HasParams(die.tag)]
         /\ m_regged' = m_regged \/ m_regged' = FALSE
         /\ at = "post" /\ at' = "kids" /\ UNCHANGED <<added, die, path>>
<1>1. /\ tree' = tree \/ tree' = [tree EXCEPT ![die.id].dropped = HasParams(die.tag)]
      /\ m_regged' = m_regged \/ m_regged' = FALSE
      /\ at = "post" /\ at' = "kids" /\ UNCHANGED <<added, die, path>>
  BY DEF PostProcess
<1>2. tree \in Seq([tag : Tags, parent : Nat, above : SUBSET Nat,
                    made : BOOLEAN, dropped : BOOLEAN])
  BY DEF WalkInv, TreeOK
<1>3. CASE tree' = tree
  BY <1>1, <1>3, SameTreeIfUnchanged DEF WalkInv
<1>4. CASE tree' = [tree EXCEPT ![die.id].dropped = HasParams(die.tag)]
  <2>1. die.id \in 1 .. Len(tree) /\ DOMAIN tree = 1 .. Len(tree)
    BY <1>1, WalkShape DEF WalkInv, DieOK, Shape
  <2>2. HasParams(die.tag) \in BOOLEAN
    BY DEF HasParams
  <2> DEFINE new == [tree[die.id] EXCEPT !.dropped = HasParams(die.tag)]
  <2>3. new \in [tag : Tags, parent : Nat, above : SUBSET Nat, made : BOOLEAN, dropped : BOOLEAN]
    <3>1. tree[die.id] \in [tag : Tags, parent : Nat, above : SUBSET Nat,
                            made : BOOLEAN, dropped : BOOLEAN]
      BY <1>2, <2>1, ElementOfSeq
    <3> QED BY <2>2, <3>1
  <2>4. tree' = [tree EXCEPT ![die.id] = new]
    BY <1>4
  <2>5. /\ new.tag = tree[die.id].tag /\ new.parent = tree[die.id].parent
        /\ new.above = tree[die.id].above /\ new.made = tree[die.id].made
    BY <1>2, <2>1
  <2> HIDE DEF new
  <2>6. /\ tree' \in Seq([tag : Tags, parent : Nat, above : SUBSET Nat,
                          made : BOOLEAN, dropped : BOOLEAN])
        /\ Len(tree') = Len(tree) /\ DOMAIN tree' = DOMAIN tree
        /\ \A d \in DOMAIN tree : tree'[d] = IF d = die.id THEN new ELSE tree[d]
    BY <1>2, <2>1, <2>3, <2>4, ExceptSeq
  <2>7. SameTree
    BY <2>5, <2>6 DEF SameTree
  <2> QED BY <1>1, <2>7
<1> QED BY <1>1, <1>3, <1>4

LEMMA WalkInvNext == WalkInv /\ [Next]_allVars => WalkInv'
<1> SUFFICES ASSUME WalkInv, [Next]_allVars PROVE WalkInv'
  OBVIOUS
<1>1. ASSUME NEW tag, NEW kids \in BOOLEAN, ReadDie(tag, kids) PROVE WalkInv'
  BY <1>1, ReadDieIsNewDie, WalkInvReadDie
<1>2. tree' = tree => SameTree
  BY SameTreeIfUnchanged DEF WalkInv
<1>3. CASE ReadName
  <2>1. /\ at = "name" /\ at' = "location"
        /\ UNCHANGED <<m_regged, tree, added, die, path>>
    BY <1>3 DEF ReadName
  <2> QED BY <1>2, <2>1, WalkInvAttribute
<1>4. CASE ReadLocation
  <2>1. /\ at = "location" /\ at' = "post"
        /\ UNCHANGED <<m_regged, tree, added, die, path>>
    BY <1>4 DEF ReadLocation
  <2> QED BY <1>2, <2>1, WalkInvAttribute
<1>5. CASE PostProcess
  BY <1>5, PostProcessTree, WalkInvAttribute
<1>6. CASE SkipKids
  BY <1>6, WalkInvNextDie DEF SkipKids
<1>7. CASE ReadKids
  BY <1>7, WalkInvReadKids
<1>8. CASE EndOfKids
  BY <1>8, WalkInvEndOfKids
<1>9. CASE EndOfUnit
  BY <1>9, WalkInvEndOfUnit
<1>10. CASE UNCHANGED allVars
  <2>1. UNCHANGED <<tree, path, at, added, m_regged, die>>
    BY <1>10 DEF allVars, walkVars
  <2>2. TreeOK' /\ PathOK'
    BY <1>2, <2>1, SameTreeOK, SamePathOK DEF WalkInv
  <2>3. DieOK' <=> DieOK
    BY <2>1 DEF DieOK, OnPath, Parent, LastOf
  <2> QED BY <2>1, <2>2, <2>3 DEF WalkInv
<1> QED BY <1>1, <1>3, <1>4, <1>5, <1>6, <1>7, <1>8, <1>9, <1>10 DEF Next

-----------------------------------------------------------------------------
(***************************************************************************)
(* The chain of owners ends: an owner is an element that was made before.  *)
(***************************************************************************)
LEMMA LeastNumber ==
  ASSUME NEW T \in SUBSET Nat, T # {} PROVE \E x \in T : \A y \in T : x <= y
<1>1. PICK R : IsWellFoundedOn(R, Nat) /\ R = {p \in Nat \X Nat : p[1] < p[2]}
  <2>1. OpToRel(<, Nat) = {p \in Nat \X Nat : p[1] < p[2]}
    BY DEF OpToRel
  <2> QED BY <2>1, NatLessThanWellFounded
<1>2. PICK x \in T : \A y \in T : ~(<<y, x>> \in R)
  BY <1>1, WFMin
<1>3. ASSUME NEW y \in T PROVE x <= y
  <2>1. <<y, x>> \notin R
    BY <1>2
  <2>2. <<y, x>> \in Nat \X Nat => ~(y < x)
    BY <1>1, <2>1
  <2> QED BY <2>2
<1> QED BY <1>3

LEMMA RefsFact ==
  /\ Refs \cup {Null} = 0 .. 2 * MaxDies /\ 2 * MaxDies \in Nat
  /\ Null \notin Refs /\ Dies \subseteq Refs
  /\ \A r \in Refs : r \in Nat /\ r > 0
  /\ \A d \in Dies : NsEnd(d) \in Refs \ Dies
BY MaxDiesAssumption DEF Refs, Null, Dies, NsEnd

\* One step of get_top_func's loop, for a guess f of what it returns.
FuncStep(f, r) ==
  IF r = Null \/ IsFunction(r) THEN r
  ELSE IF obj[r].owner = r THEN Null ELSE f[obj[r].owner]

LEMMA FuncAboveEquation ==
  ASSUME ElementsOK
  PROVE  \A r \in Refs \cup {Null} : FuncAbove[r] = FuncStep(FuncAbove, r)
<1> DEFINE m == 2 * MaxDies
           Solves(f, n) == /\ f \in [0 .. n -> 0 .. m]
                           /\ \A r \in 0 .. n : f[r] = FuncStep(f, r)
           T == {n \in 0 .. m : ~ \E f : Solves(f, n)}
<1>0. \A r \in Refs : obj[r].owner \in 0 .. r - 1
  BY RefsFact DEF ElementsOK, Elements
<1>1. T = {}
  <2> SUFFICES ASSUME T # {} PROVE FALSE
    OBVIOUS
  <2>1. T \in SUBSET Nat
    BY RefsFact
  <2>2. PICK n \in T : \A k \in T : n <= k
    BY <2>1, LeastNumber
  <2>3. CASE n = 0
    <3> DEFINE f == [r \in 0 .. 0 |-> 0]
    <3>1. Solves(f, 0)
      BY RefsFact DEF FuncStep, Null
    <3> QED BY <2>3, <2>2, <3>1
  <2>4. CASE n # 0
    <3>1. n \in Refs /\ n - 1 \in 0 .. m /\ n - 1 \notin T /\ n \in 1 .. m
      BY <2>1, <2>2, <2>4, RefsFact DEF Null
    <3>2. PICK f : Solves(f, n - 1)
      BY <3>1
    <3> DEFINE g == [r \in 0 .. n |-> IF r = n THEN FuncStep(f, n) ELSE f[r]]
    <3>3. FuncStep(f, n) \in 0 .. m
      <4>1. obj[n].owner \in 0 .. n - 1
        BY <1>0, <3>1
      <4> QED BY <3>1, <3>2, <4>1 DEF FuncStep, Null
    <3>4. g \in [0 .. n -> 0 .. m]
      BY <3>1, <3>2, <3>3
    <3>5. ASSUME NEW r \in 0 .. n PROVE g[r] = FuncStep(g, r)
      <4>1. r # Null => r \in Refs /\ obj[r].owner \in 0 .. n - 1
        <5>1. r \in Nat /\ n \in Nat /\ r <= n /\ n <= m
          BY <3>1, RefsFact
        <5>2. r # Null => r \in Refs
          BY <5>1, RefsFact
        <5>3. r # Null => obj[r].owner \in 0 .. r - 1
          BY <1>0, <5>2
        <5> QED BY <5>1, <5>2, <5>3
      <4>2. r # Null => g[obj[r].owner] = f[obj[r].owner]
        BY <3>1, <4>1
      <4>3. FuncStep(g, r) = FuncStep(f, r)
        BY <4>2 DEF FuncStep
      <4>4. r # n => f[r] = FuncStep(f, r)
        BY <3>1, <3>2
      <4> QED BY <4>3, <4>4
    <3>6. Solves(g, n)
      BY <3>4, <3>5
    <3> QED BY <2>2, <3>6
  <2> QED BY <2>3, <2>4
<1>2. PICK f : Solves(f, m)
  <2>1. m \in 0 .. m
    BY RefsFact
  <2> QED BY <1>1, <2>1
<1>3. f = [r \in Refs \cup {Null} |-> FuncStep(f, r)]
  <2>1. f \in [Refs \cup {Null} -> 0 .. m] /\ \A r \in Refs \cup {Null} : f[r] = FuncStep(f, r)
    BY <1>2, RefsFact
  <2> QED BY <2>1
<1>4. FuncAbove = [r \in Refs \cup {Null} |-> FuncStep(FuncAbove, r)]
  <2>1. FuncAbove = CHOOSE g : g = [r \in Refs \cup {Null} |-> FuncStep(g, r)]
    BY DEF FuncAbove, FuncStep, IsFunction
  <2> QED BY <1>3, <2>1
<1> QED BY <1>4

LEMMA FuncAboveFound ==
  ASSUME ElementsOK, NEW r \in Refs \cup {Null}
  PROVE  /\ FuncAbove[r] \in 0 .. r
         /\ FuncAbove[r] # Null => FuncAbove[r] \in Refs /\ IsFunction(FuncAbove[r])
<1> DEFINE Found(k) == /\ FuncAbove[k] \in 0 .. k
                       /\ FuncAbove[k] # Null => IsFunction(FuncAbove[k])
           T == {k \in 0 .. 2 * MaxDies : ~Found(k)}
<1>0. /\ \A k \in Refs : obj[k].owner \in 0 .. k - 1
      /\ \A k \in Refs \cup {Null} : FuncAbove[k] = FuncStep(FuncAbove, k)
  BY RefsFact, FuncAboveEquation DEF ElementsOK, Elements
<1>1. T = {}
  <2> SUFFICES ASSUME T # {} PROVE FALSE
    OBVIOUS
  <2>1. PICK n \in T : \A k \in T : n <= k
    <3>1. T \in SUBSET Nat
      BY RefsFact
    <3> QED BY <3>1, LeastNumber
  <2>2. n \in Refs \cup {Null} /\ n \in Nat /\ ~Found(n)
    BY <2>1, RefsFact
  <2>3. FuncAbove[n] = FuncStep(FuncAbove, n)
    BY <1>0, <2>2
  <2>4. CASE n = Null \/ IsFunction(n)
    BY <2>2, <2>3, <2>4 DEF FuncStep
  <2>5. CASE ~(n = Null \/ IsFunction(n))
    <3> DEFINE o == obj[n].owner
    <3>1. n \in Refs /\ o \in 0 .. n - 1
      BY <1>0, <2>2, <2>5
    <3>2. FuncAbove[n] = FuncAbove[o]
      BY <2>3, <2>5, <3>1 DEF FuncStep
    <3>3. o \in 0 .. 2 * MaxDies /\ o \notin T
      BY <2>1, <2>2, <3>1, RefsFact
    <3>4. Found(o)
      BY <3>3
    <3> HIDE DEF o
    <3>5. Found(n)
      BY <3>1, <3>2, <3>4, RefsFact
    <3> QED BY <2>2, <3>5
  <2> QED BY <2>4, <2>5
<1>2. Found(r)
  BY <1>1, RefsFact
<1> QED BY <1>2, RefsFact DEF Null

-----------------------------------------------------------------------------
(***************************************************************************)
(* The elements and the stack, operation by operation.                     *)
(***************************************************************************)
LEMMA EmptyObj == NoObj \in Elements /\ NoObj.type = "none" /\ NoObj.owner = Null
  BY DEF NoObj, Elements, ElementTypes, Null

\* The top of the stack: null, or the element of the DIE whose children are read.
TopOK ==
  /\ m_stack = <<>> <=> path = <<>>
  /\ get_owner \in Refs \cup {Null}
  /\ path = <<>> => get_owner = Null
  /\ path # <<>> =>
       /\ get_owner = Top /\ Top = m_stack[Len(path)] /\ Top \in Refs \cup {Null}
       /\ Top # Null => obj[Top] # NoObj /\ back # Null
       /\ tree[Parent.id].made <=> Top # Null
       /\ Own(Parent.id) # Null => Top = Parent.id
       /\ Parent.tag \notin {"variant", "variant_part"} =>
            (Top # Null => Top = Parent.id /\ Own(Parent.id) = Parent.id)
  /\ path # <<>> /\ Parent.tag = "variant_part" =>
       /\ Top # Null
       /\ current_element_type_ \in {"none", "variant_type", "member"}
       /\ IF Own(Parent.id) = Null THEN current_element_type_ = "none"
                                   ELSE recent_ = Null /\ back = Parent.id
  /\ path # <<>> /\ Parent.tag = "variant" => Top # Null \/ current_element_type_ = "none"

LEMMA TopFacts == ASSUME WalkInv, BuilderInv PROVE TopOK
<1>1. Shape
  BY WalkShape
<1>2. m_stack \in Seq(Refs \cup {Null}) /\ Len(m_stack) = Len(path)
  BY DEF BuilderInv, PointersOK, StackOK
<1>3. m_stack = <<>> <=> path = <<>>
  BY <1>1, <1>2 DEF Shape
<1>4. get_owner \in Refs \cup {Null} /\ (path = <<>> => get_owner = Null)
  BY <1>1, <1>2, <1>3, ElementOfSeq DEF get_owner, Top, LastOf, Shape
<1>5. ASSUME path # <<>>
      PROVE  /\ get_owner = Top /\ Top = m_stack[Len(path)] /\ Top \in Refs \cup {Null}
             /\ Len(path) \in DOMAIN path /\ Len(path) \in DOMAIN m_stack
             /\ Parent = path[Len(path)] /\ Parent.id \in DOMAIN tree
             /\ Parent.tag = tree[Parent.id].tag /\ Parent.tag \in Parents
             /\ EntryOK(Len(path))
  <2>1. get_owner = Top /\ Top = m_stack[Len(path)]
    BY <1>2, <1>3, <1>5 DEF get_owner, Top, LastOf
  <2>2. Len(path) \in DOMAIN path /\ Len(path) \in DOMAIN m_stack
    BY <1>1, <1>2, <1>5 DEF Shape
  <2> QED BY <1>1, <1>4, <1>5, <2>1, <2>2 DEF BuilderInv, StackOK, Shape
<1>6. ASSUME path # <<>>
      PROVE  /\ Top # Null => obj[Top] # NoObj /\ back # Null
             /\ tree[Parent.id].made <=> Top # Null
             /\ Own(Parent.id) # Null => Top = Parent.id
  <2>1. Top # Null => obj[Top] # NoObj
    BY <1>5, <1>6 DEF BuilderInv, PointersOK
  <2>2. Top # Null => back # Null
    BY <1>5, <1>6, <2>1 DEF BuilderInv, PointersOK
  <2> QED BY <1>5, <1>6, <2>1, <2>2 DEF EntryOK
<1>7. ASSUME path # <<>>, Parent.tag \notin {"variant", "variant_part"}, Top # Null
      PROVE  Top = Parent.id /\ Own(Parent.id) = Parent.id
  <2>1. HasElement(Parent.id)
    <3>1. tree[Parent.id].tag \notin {"compile_unit", "pack", "other"}
      BY <1>5, <1>6, <1>7 DEF BuilderInv, ElementsOK
    <3> QED BY <1>5, <1>6, <1>7, <3>1 DEF HasElement, Parents
  <2>2. obj[Parent.id] # NoObj /\ Parent.id # Null
    BY <1>1, <1>5, <1>7, <2>1 DEF BuilderInv, ElementsOK, Shape, Null
  <2>3. Own(Parent.id) = Parent.id /\ Own(Parent.id) # Null
    BY <2>2 DEF Own
  <2> QED BY <1>6, <1>7, <2>3
<1>8. ASSUME path # <<>>, Parent.tag = "variant_part"
      PROVE  /\ Top # Null
             /\ current_element_type_ \in {"none", "variant_type", "member"}
             /\ IF Own(Parent.id) = Null THEN current_element_type_ = "none"
                                         ELSE recent_ = Null /\ back = Parent.id
  BY <1>5, <1>6, <1>8 DEF BuilderInv, ElementsOK, EntryOK
<1>9. ASSUME path # <<>>, Parent.tag = "variant"
      PROVE  Top # Null \/ current_element_type_ = "none"
  <2>1. Own(path[Len(path) - 1].id) # Null => Top = path[Len(path) - 1].id
    BY <1>5, <1>9 DEF EntryOK
  <2>2. Own(path[Len(path) - 1].id) = Null => current_element_type_ = "none"
    BY <1>5, <1>9 DEF EntryOK
  <2>3. \A d : Own(d) # Null => d # Null
    BY DEF Own
  <2> QED BY <2>1, <2>2, <2>3
<1> QED BY <1>3, <1>4, <1>5, <1>6, <1>7, <1>8, <1>9 DEF TopOK

\* What the steps of a DIE's attributes and of the walk may rely on: what
\* RegisterNewTag of the n-th DIE makes, and what it leaves as it is.
Registered(n, tag) ==
  /\ crashed' = FALSE /\ UNCHANGED <<opt, named, m_stack, nsVars>>
  /\ current_element_type_' \in ElementTypes
  /\ back' \in {back, n} /\ recent_' \in {recent_, Null, n} /\ last_var_' \in {last_var_, Null, n}
  /\ sub_filtered' \in BOOLEAN
  /\ obj' \in [Refs -> Elements]
  /\ \A r \in Refs : r # n => obj'[r] = obj[r]
  /\ IF obj'[n] = NoObj THEN back' = back /\ recent_' # n
     ELSE /\ added' /\ TagType(tag, obj'[n].type)
          /\ obj'[n].owner < n /\ obj'[n].level = m_level - ns_count
          /\ Entry' = n
          /\ recent_' = n => obj'[n].type \in FunctionTypes
          /\ back' = Null => FALSE
  /\ parts' \in [Refs -> Seq(Vectors \X Dies)]

\* ... of DIEs of this tag.
RegisteredAs(n, tag, kids) ==
  /\ tag \in {"structure_type", "array_type", "type", "subroutine_type", "enumeration_type"}
       => obj'[n] # NoObj
  /\ tag \in {"namespace", "lexical_block", "subprogram"} /\ added' => obj'[n] # NoObj
  /\ tag \in {"compile_unit", "pack", "other"} => ~added'
  /\ tag = "variant_part" => added'
  /\ tag = "structure_type" => back' = n
  /\ tag \in {"member", "variant"} =>
       /\ back' = back /\ recent_' = recent_
       /\ current_element_type_' \in {current_element_type_, "member"}
       /\ current_element_type_ = "none" => current_element_type_' = "none"
  /\ tag = "variant" /\ Own(Parent.id) # Null => added'
  /\ tag \in {"formal_parameter", "pack"} => recent_' = recent_
  /\ tag = "formal_parameter" /\ added' =>
       m_regged /\ m_stack # <<>> /\ Top # Null /\ current_element_type_' = "formal_param"
  /\ tag = "variant_part" =>
       /\ current_element_type_' \in {"none", "variant_type"}
       /\ IF obj'[n] = NoObj
            THEN /\ current_element_type_' = "none" /\ recent_' = recent_ /\ back' = back
                 /\ back # Null
            ELSE recent_' = Null /\ back' = n
  /\ kids /\ added' => back' # Null
  /\ added' => (current_element_type_' = "ns_start" <=> tag = "namespace")
  /\ added' /\ tag = "namespace" => back' = n
  /\ HasName(tag) /\ NameNeedsTop' /\ back' # Null => Top # Null

LEMMA RegisterOwn ==
  ASSUME WalkInv, BuilderInv, NEW n, NEW tag, NEW kids \in BOOLEAN, NewDie(n, tag, kids),
         NEW type \in ElementTypes, TagType(tag, type), added' = TRUE,
         AddOwn(type, n, m_level), sub_filtered' \in BOOLEAN,
         tag \notin {"variant_part", "formal_parameter", "variant", "member", "pack"}
  PROVE  Registered(n, tag) /\ RegisteredAs(n, tag, kids)
<1>1. TopOK /\ Shape /\ n \in Dies /\ n \in Refs /\ n \notin DOMAIN tree /\ n # Null
  BY TopFacts, WalkShape, RefsFact DEF NewDie
<1>2. UNCHANGED <<opt, named, m_stack, ns_count, ns_stack, crashed>> /\ ~crashed
  BY DEF AddOwn, nsVars, NewDie
<1>3. /\ current_element_type_' = type /\ back' = n /\ last_var_' = Null
      /\ recent_' = IF type \in {"subroutine", "subroutine_type"} THEN n ELSE Null
  BY DEF AddOwn
<1>4. get_owner \in Refs \cup {Null} /\ get_owner < n
  <2>1. path # <<>> => Parent.tag \notin {"variant", "variant_part"}
    BY <1>1, KindsOfChildren DEF NewDie, Shape, TagType
  <2>2. get_owner = Null \/ (path # <<>> /\ get_owner = Parent.id)
    BY <1>1, <2>1 DEF TopOK
  <2>3. path # <<>> => Parent.id < n
    BY <1>1 DEF Shape, NewDie
  <2> QED BY <1>1, <2>2, <2>3, RefsFact DEF TopOK, Null
<1>5. Element(type, m_level - ns_count, get_owner) \in Elements
  <2>1. m_level - ns_count \in Int
    BY <1>1 DEF BuilderInv, StackOK, PointersOK, Shape
  <2>2. top_ns \in Refs \cup {Null}
    BY ElementOfSeq, RefsFact DEF BuilderInv, PointersOK, top_ns, LastOf
  <2> QED BY <1>4, <2>1, <2>2 DEF Element, Elements
<1>6. /\ obj' \in [Refs -> Elements]
      /\ \A r \in Refs : r # n => obj'[r] = obj[r]
      /\ obj'[n] = Element(type, m_level - ns_count, get_owner)
  BY <1>1, <1>5 DEF AddOwn, BuilderInv, ElementsOK
<1>7. obj'[n] # NoObj
  BY <1>6 DEF Element, NoObj, TagType
<1>8. parts' \in [Refs -> Seq(Vectors \X Dies)]
  <2>1. parts \in [Refs -> Seq(Vectors \X Dies)]
    BY DEF BuilderInv, PointersOK
  <2>2. CASE parts' = parts
    BY <2>1, <2>2
  <2>3. CASE parts' = [parts EXCEPT ![Top] = Append(@, <<"nested", n>>)] /\ get_owner # Null
    <3>1. Top \in Refs
      BY <1>1, <2>3 DEF TopOK, get_owner
    <3>2. <<"nested", n>> \in Vectors \X Dies
      BY <1>1 DEF Vectors
    <3> QED BY <2>1, <2>3, <3>1, <3>2, AppendProperties
  <2> QED BY <2>2, <2>3 DEF AddOwn
<1>9. Entry' = n
  BY <1>3 DEF Entry
<1>10. type \in {"subroutine", "subroutine_type"} => type \in FunctionTypes
  BY DEF FunctionTypes
<1>11. Registered(n, tag)
  BY <1>1, <1>2, <1>3, <1>4, <1>6, <1>7, <1>8, <1>9, <1>10 DEF Registered, Element, nsVars
<1>12. ~NameNeedsTop'
  BY <1>3 DEF NameNeedsTop, TagType
<1> QED BY <1>1, <1>3, <1>7, <1>11, <1>12 DEF RegisteredAs, TagType

\* What all operations of the builder rely on when a DIE is read.
NewHere(n) ==
  /\ TopOK /\ Shape /\ n \in Dies /\ n \in Refs /\ n \notin DOMAIN tree /\ n # Null /\ n \in Nat
  /\ obj \in [Refs -> Elements] /\ obj[n] = NoObj /\ m_level - ns_count \in Int
  /\ top_ns \in Refs \cup {Null}
  /\ parts \in [Refs -> Seq(Vectors \X Dies)] /\ crashed = FALSE
  /\ current_element_type_ \in ElementTypes /\ sub_filtered \in BOOLEAN
  /\ recent_ # n /\ back \in Refs \cup {Null} /\ recent_ \in Refs \cup {Null}
  /\ path # <<>> => Parent.id \in Dies /\ Parent.id \in Nat /\ Parent.id < n

LEMMA NewHereFacts ==
  ASSUME WalkInv, BuilderInv, NEW n, NEW tag, NEW kids \in BOOLEAN, NewDie(n, tag, kids)
  PROVE  NewHere(n)
<1>1. TopOK /\ Shape /\ n \in Dies /\ n \in Refs /\ n \notin DOMAIN tree /\ n # Null /\ n \in Nat
  BY TopFacts, WalkShape, RefsFact DEF NewDie
<1>2. m_level - ns_count \in Int
  BY <1>1 DEF BuilderInv, StackOK, PointersOK, Shape
<1>3. top_ns \in Refs \cup {Null}
  BY ElementOfSeq, RefsFact DEF BuilderInv, PointersOK, top_ns, LastOf
<1>4. obj[n] = NoObj
  BY <1>1 DEF BuilderInv, ElementsOK
<1>5. recent_ # n
  BY <1>1, <1>4 DEF BuilderInv, PointersOK, TypeOf, NoObj, FunctionTypes
<1>6. path # <<>> => Parent.id \in Dies /\ Parent.id \in Nat /\ Parent.id < n
  BY <1>1 DEF Shape, NewDie
<1> QED BY <1>1, <1>2, <1>3, <1>4, <1>5, <1>6 DEF NewHere, BuilderInv, PointersOK, ElementsOK, NewDie

LEMMA RegisterMethod ==
  ASSUME WalkInv, BuilderInv, NEW n, NEW kids \in BOOLEAN, NewDie(n, "subprogram", kids),
         can_have_methods(m_level - ns_count), added' = TRUE, AddSubroutine(n, m_level)
  PROVE  Registered(n, "subprogram") /\ RegisteredAs(n, "subprogram", kids)
<1>1. NewHere(n)
  BY NewHereFacts
<1>2. /\ obj' = [obj EXCEPT ![n] = Element("method", m_level - ns_count, get_owner)]
      /\ parts' = [parts EXCEPT ![Top] = Append(@, <<"method", n>>)]
      /\ recent_' = n /\ current_element_type_' = "method" /\ last_var_' = Null
      /\ sub_filtered' = FALSE
      /\ UNCHANGED <<opt, back, named, m_stack, nsVars, crashed>>
  BY DEF AddSubroutine
<1>3. path # <<>> /\ get_owner = Top /\ Top \in Refs /\ back # Null /\ Top = Parent.id
  <2>1. path # <<>> /\ Top # Null
    BY <1>1 DEF can_have_methods, NewHere, TopOK
  <2>2. Parent.tag \in Parents /\ "subprogram" \in ChildTags[Parent.tag]
    BY <1>1, <2>1 DEF NewDie, Shape, NewHere
  <2>3. Parent.tag \notin {"variant", "variant_part"}
    BY <2>2, KindsOfChildren
  <2> QED BY <1>1, <2>1, <2>3 DEF NewHere, TopOK
<1>4. Element("method", m_level - ns_count, get_owner) \in Elements
  BY <1>1, <1>3 DEF Element, Elements, ElementTypes, NewHere
<1>5. /\ obj' \in [Refs -> Elements]
      /\ \A r \in Refs : r # n => obj'[r] = obj[r]
      /\ obj'[n] = Element("method", m_level - ns_count, get_owner)
  BY <1>1, <1>2, <1>4 DEF NewHere
<1>6. obj'[n] # NoObj
  BY <1>5 DEF Element, NoObj
<1>7. parts' \in [Refs -> Seq(Vectors \X Dies)]
  <2>1. <<"method", n>> \in Vectors \X Dies
    BY <1>1 DEF Vectors, NewHere
  <2> QED BY <1>1, <1>2, <1>3, <2>1, AppendProperties DEF NewHere
<1>8. Registered(n, "subprogram")
  <2>1. Entry' = n
    BY <1>1, <1>2 DEF Entry, NewHere
  <2>2. obj'[n].owner < n /\ obj'[n].level = m_level - ns_count /\ obj'[n].type = "method"
    BY <1>1, <1>3, <1>5 DEF Element, NewHere
  <2> QED BY <1>1, <1>2, <1>3, <1>5, <1>6, <1>7, <2>1, <2>2
       DEF Registered, NewHere, FunctionTypes, TagType, ElementTypes
<1> QED BY <1>1, <1>2, <1>3, <1>6, <1>8 DEF RegisteredAs, NewHere, NameNeedsTop

\* AddNone, AddSubrange, AddVariant: no element is made.
LEMMA RegisterNothing ==
  ASSUME WalkInv, BuilderInv, NEW n, NEW tag, NEW kids \in BOOLEAN, NewDie(n, tag, kids),
         UNCHANGED <<opt, listVars, named, m_stack, recent_, sub_filtered, nsVars, crashed>>,
         last_var_' \in {last_var_, Null},
         current_element_type_' \in ElementTypes
  PROVE  Registered(n, tag)
<1>1. NewHere(n)
  BY NewHereFacts
<1> QED BY <1>1 DEF Registered, NewHere, listVars

LEMMA RegisterNone ==
  ASSUME WalkInv, BuilderInv, NEW n, NEW tag, NEW kids \in BOOLEAN, NewDie(n, tag, kids),
         AddNone, added' = FALSE,
         tag \notin {"structure_type", "array_type", "type", "subroutine_type",
                     "enumeration_type", "variant_part", "member", "variant"}
  PROVE  Registered(n, tag) /\ RegisteredAs(n, tag, kids)
<1>1. NewHere(n)
  BY NewHereFacts
<1>2. Registered(n, tag)
  BY RegisterNothing DEF AddNone, ElementTypes, pointerVars
<1> QED BY <1>1, <1>2 DEF RegisteredAs, AddNone, NewHere, NameNeedsTop, pointerVars, listVars

LEMMA RegisterSubrange ==
  ASSUME WalkInv, BuilderInv, NEW n, NEW kids \in BOOLEAN, NewDie(n, "subrange_type", kids),
         AddSubrange, added' = TRUE
  PROVE  Registered(n, "subrange_type") /\ RegisteredAs(n, "subrange_type", kids)
<1>1. NewHere(n)
  BY NewHereFacts
<1>2. Registered(n, "subrange_type")
  BY RegisterNothing DEF AddSubrange, ElementTypes
<1>3. ~kids
  BY DEF NewDie, Parents
<1> QED BY <1>1, <1>2, <1>3 DEF RegisteredAs, AddSubrange, NewHere, NameNeedsTop

LEMMA RegisterVariant ==
  ASSUME WalkInv, BuilderInv, NEW n, NEW kids \in BOOLEAN, NewDie(n, "variant", kids),
         AddVariant, added' = VariantFits
  PROVE  Registered(n, "variant") /\ RegisteredAs(n, "variant", kids)
<1>1. NewHere(n)
  BY NewHereFacts
<1>2. path # <<>> /\ Parent.tag = "variant_part"
  BY <1>1, KindsOfChildren DEF NewDie, Shape, NewHere
<1>3. /\ m_stack # <<>> /\ Top # Null /\ back # Null
      /\ current_element_type_ \in {"none", "variant_type", "member"}
  BY <1>1, <1>2 DEF NewHere, TopOK
<1>4. UNCHANGED builderVars
  BY <1>3 DEF AddVariant
<1>5. Registered(n, "variant")
  BY <1>1, <1>4, RegisterNothing DEF builderVars, pointerVars, listVars, NewHere
<1>6. Own(Parent.id) # Null => VariantFits
  <2>1. ASSUME Own(Parent.id) # Null PROVE TypeOf(Top) = "variant_type"
    <3>1. Top = Parent.id /\ Parent.id # Null /\ obj[Parent.id] # NoObj
      BY <1>1, <1>2, <2>1 DEF NewHere, TopOK, Own
    <3>2. TagType("variant_part", obj[Parent.id].type)
      <4>1. Parent.id \in DOMAIN tree /\ Parent.id \in Refs /\ tree[Parent.id].tag = "variant_part"
        BY <1>1, <1>2, RefsFact DEF NewHere, Shape
      <4> QED BY <3>1, <4>1 DEF BuilderInv, ElementsOK
    <3> QED BY <3>1, <3>2 DEF TypeOf, TagType
  <2> QED BY <1>3, <2>1 DEF VariantFits
<1> QED BY <1>1, <1>3, <1>4, <1>5, <1>6
     DEF RegisteredAs, NewHere, builderVars, listVars, pointerVars, HasName

\* The parent of a part was made, or it is a variant of which nothing is recorded.
LEMMA PartsHaveTop ==
  ASSUME WalkInv, BuilderInv, NEW n, NEW tag, NEW kids \in BOOLEAN, NewDie(n, tag, kids),
         tag \in {"member", "inheritance", "enumerator", "variant_part"}
  PROVE  /\ path # <<>> /\ m_stack # <<>>
         /\ current_element_type_ = "none" \/ (Top # Null /\ Top \in Refs /\ back # Null)
         /\ tag = "variant_part" =>
              Top # Null /\ Top \in Refs /\ back # Null /\ Top = Parent.id
<1>1. NewHere(n) /\ TopOK /\ Shape
  BY NewHereFacts DEF NewHere
<1>2. path # <<>> /\ m_stack # <<>>
      /\ Parent.tag \in {"structure_type", "enumeration_type", "variant_part", "variant"}
      /\ (tag = "variant_part" => Parent.tag = "structure_type")
  BY <1>1, KindsOfChildren DEF NewDie, TopOK, Shape
<1>3. /\ Top \in Refs \cup {Null}
      /\ Top # Null => back # Null
      /\ tree[Parent.id].made => Top # Null
      /\ Parent.tag = "variant_part" => Top # Null
      /\ Parent.tag = "variant" => Top # Null \/ current_element_type_ = "none"
      /\ Parent.tag = "structure_type" /\ Top # Null => Top = Parent.id
  BY <1>1, <1>2 DEF TopOK
<1>4. ASSUME Parent.tag \in {"structure_type", "enumeration_type"} PROVE Top # Null
  <2>1. Parent.id \in DOMAIN tree /\ Parent.id \in Refs /\ tree[Parent.id].tag = Parent.tag
    BY <1>1, <1>2, RefsFact DEF Shape
  <2>2. HasElement(Parent.id)
    BY <1>4, <2>1 DEF HasElement
  <2>3. obj[Parent.id] # NoObj
    BY <2>1, <2>2 DEF BuilderInv, ElementsOK
  <2>4. tree[Parent.id].made
    BY <2>1, <2>3 DEF BuilderInv, ElementsOK
  <2> QED BY <1>3, <2>4
<1>5. Top # Null => Top \in Refs
  BY <1>3
<1> QED BY <1>2, <1>3, <1>4, <1>5

LEMMA RegisterPart ==
  ASSUME WalkInv, BuilderInv, NEW n, NEW tag, NEW kids \in BOOLEAN, NewDie(n, tag, kids),
         tag \in {"member", "inheritance", "enumerator"}, AddPart(tag, n), added' = TRUE
  PROVE  Registered(n, tag) /\ RegisteredAs(n, tag, kids)
<1>1. NewHere(n)
  BY NewHereFacts
<1>2. /\ path # <<>> /\ m_stack # <<>>
      /\ current_element_type_ = "none" \/ (Top # Null /\ Top \in Refs /\ back # Null)
  BY PartsHaveTop
<1>3. /\ UNCHANGED <<opt, back, obj, named, m_stack, recent_, sub_filtered, nsVars>>
      /\ last_var_' = Null
  BY DEF AddPart
<1>4. CASE current_element_type_ = "none"
  <2>1. UNCHANGED <<current_element_type_, parts, crashed>>
    BY <1>4 DEF AddPart
  <2>2. Registered(n, tag)
    BY <1>1, <1>3, <2>1, RegisterNothing DEF listVars, NewHere
  <2> QED BY <1>1, <1>3, <1>4, <2>1, <2>2 DEF RegisteredAs, NewHere, NameNeedsTop, NewDie, Parents
<1>5. CASE current_element_type_ # "none"
  <2>1. /\ current_element_type_' = tag
        /\ parts' = [parts EXCEPT ![Top] = Append(@, <<tag, n>>)]
        /\ UNCHANGED crashed
    BY <1>2, <1>5 DEF AddPart
  <2>2. parts' \in [Refs -> Seq(Vectors \X Dies)]
    <3>1. <<tag, n>> \in Vectors \X Dies
      BY <1>1 DEF Vectors, NewHere
    <3> QED BY <1>1, <1>2, <1>5, <2>1, <3>1, AppendProperties DEF NewHere
  <2>3. Registered(n, tag)
    BY <1>1, <1>3, <2>1, <2>2 DEF Registered, NewHere, ElementTypes
  <2> QED BY <1>1, <1>2, <1>3, <1>5, <2>1, <2>3 DEF RegisteredAs, NewHere, NewDie, Parents
<1> QED BY <1>4, <1>5

LEMMA RegisterVariantPart ==
  ASSUME WalkInv, BuilderInv, NEW n, NEW kids \in BOOLEAN, NewDie(n, "variant_part", kids),
         AddVariantPart(n, m_level), added' = TRUE
  PROVE  Registered(n, "variant_part") /\ RegisteredAs(n, "variant_part", kids)
<1>1. NewHere(n)
  BY NewHereFacts
<1>2. path # <<>> /\ m_stack # <<>> /\ Top # Null /\ Top \in Refs /\ back # Null
      /\ Top = Parent.id
  BY PartsHaveTop
<1>3. UNCHANGED <<opt, named, m_stack, sub_filtered, nsVars>> /\ last_var_' = Null
  BY DEF AddVariantPart
<1>4. CASE current_element_type_ = "none"
  <2>1. UNCHANGED <<current_element_type_, listVars, recent_, crashed>>
    BY <1>2, <1>4 DEF AddVariantPart
  <2>2. Registered(n, "variant_part")
    BY <1>1, <1>3, <2>1, RegisterNothing DEF NewHere
  <2> QED BY <1>1, <1>2, <1>3, <1>4, <2>1, <2>2 DEF RegisteredAs, NewHere, NameNeedsTop, listVars
<1>5. CASE current_element_type_ # "none"
  <2>1. /\ parts' = [parts EXCEPT ![Top] = Append(@, <<"member", n>>)]
        /\ obj' = [obj EXCEPT ![n] = Element("variant_type", m_level - ns_count, get_owner)]
        /\ back' = n
        /\ recent_' = Null
        /\ current_element_type_' = "variant_type"
        /\ UNCHANGED crashed
    BY <1>2, <1>5 DEF AddVariantPart
  <2>2. Element("variant_type", m_level - ns_count, get_owner) \in Elements /\ get_owner = Top
    BY <1>1, <1>2 DEF Element, Elements, ElementTypes, NewHere, TopOK
  <2>3. /\ obj' \in [Refs -> Elements]
        /\ \A r \in Refs : r # n => obj'[r] = obj[r]
        /\ obj'[n] = Element("variant_type", m_level - ns_count, get_owner)
    BY <1>1, <2>1, <2>2 DEF NewHere
  <2>4. obj'[n] # NoObj
    BY <2>3 DEF Element, NoObj
  <2>5. parts' \in [Refs -> Seq(Vectors \X Dies)]
    <3>1. <<"member", n>> \in Vectors \X Dies
      BY <1>1 DEF Vectors, NewHere
    <3> QED BY <1>1, <1>2, <2>1, <3>1, AppendProperties DEF NewHere
  <2>6. Entry' = n
    BY <2>1 DEF Entry
  <2>7. obj'[n].owner < n /\ obj'[n].level = m_level - ns_count /\ obj'[n].type = "variant_type"
    BY <1>1, <1>2, <2>2, <2>3 DEF Element, NewHere
  <2>8. Registered(n, "variant_part")
    BY <1>1, <1>3, <2>1, <2>3, <2>4, <2>5, <2>6, <2>7
       DEF Registered, NewHere, TagType, ElementTypes
  <2> QED BY <1>1, <1>2, <1>3, <2>1, <2>4, <2>8 DEF RegisteredAs, NewHere, NameNeedsTop
<1> QED BY <1>4, <1>5

LEMMA RegisterParam ==
  ASSUME WalkInv, BuilderInv, NEW n, NEW kids \in BOOLEAN, NewDie(n, "formal_parameter", kids),
         AddFormalParam(n, m_level), added' = ParamFits(m_level), m_regged
  PROVE  Registered(n, "formal_parameter") /\ RegisteredAs(n, "formal_parameter", kids)
<1>1. NewHere(n)
  BY NewHereFacts
<1>2. path # <<>> /\ m_stack # <<>> /\ Top \in Refs \cup {Null}
  BY <1>1, KindsOfChildren DEF NewDie, NewHere, TopOK, Shape
<1>3. Top # Null
  <2>1. ParamsOK(Len(path)) /\ Parent = path[Len(path)]
    BY <1>1, <1>2 DEF BuilderInv, StackOK, NewHere, Shape
  <2>2. OnlyParams(Parent.id)
    BY <1>2 DEF NewDie, MayContain, Siblings, OnlyParams
  <2>3. tree[Parent.id].made
    BY <2>1, <2>2 DEF ParamsOK
  <2> QED BY <1>1, <1>2, <2>3 DEF NewHere, TopOK
<1>4. /\ current_element_type_' = "formal_param"
      /\ parts' = IF ParamFits(m_level) THEN [parts EXCEPT ![Top] = Append(@, <<"param", n>>)]
                                        ELSE parts
      /\ UNCHANGED <<opt, back, obj, named, pointerVars, sub_filtered, nsVars, crashed>>
  BY DEF AddFormalParam
<1>5. parts' \in [Refs -> Seq(Vectors \X Dies)]
  <2>1. <<"param", n>> \in Vectors \X Dies
    BY <1>1 DEF Vectors, NewHere
  <2> QED BY <1>1, <1>2, <1>3, <1>4, <2>1, AppendProperties DEF NewHere
<1>6. Registered(n, "formal_parameter")
  BY <1>1, <1>4, <1>5 DEF Registered, NewHere, ElementTypes, pointerVars
<1> QED BY <1>1, <1>2, <1>3, <1>4, <1>6 DEF RegisteredAs, NewHere, pointerVars, NewDie, Parents

LEMMA RegisterVar ==
  ASSUME WalkInv, BuilderInv, NEW n, NEW kids \in BOOLEAN, NewDie(n, "variable", kids),
         AddVar(n, m_level), added' = TRUE
  PROVE  Registered(n, "variable") /\ RegisteredAs(n, "variable", kids)
<1>1. NewHere(n)
  BY NewHereFacts
<1>2. path # <<>> /\ get_owner = Top /\ Top \in Refs \cup {Null} /\ Top < n /\ Top \in Nat
  <2>1. path # <<>> /\ Parent.tag \notin {"variant", "variant_part"}
    BY <1>1, KindsOfChildren DEF NewDie, NewHere, TopOK, Shape
  <2> QED BY <1>1, <2>1 DEF NewHere, TopOK, Null
<1> DEFINE level == m_level - ns_count
           Made(o) == /\ obj' = [obj EXCEPT ![n] = Element("var_type", level, o)]
                      /\ back' = n
                      /\ last_var_' = n
                      /\ current_element_type_' = "var_type"
<1>3. /\ recent_' = Null
      /\ UNCHANGED <<opt, named, m_stack, sub_filtered, nsVars, crashed>>
  BY DEF AddVar
<1>4. \/ /\ last_var_' = Null /\ current_element_type_' \in {"none", "var_type"}
         /\ UNCHANGED listVars
      \/ \E o \in Refs : /\ o < n /\ Made(o)
                         /\ parts' = [parts EXCEPT ![o] = Append(@, <<"lvar", n>>)]
      \/ \E o \in Refs \cup {Null} : o < n /\ Made(o) /\ UNCHANGED parts
  <2>1. ElementsOK
    BY DEF BuilderInv
  <2>2. get_top_func \in 0 .. Top /\ (get_top_func # Null => get_top_func \in Refs)
    BY <1>2, <2>1, FuncAboveFound DEF get_top_func
  <2>3. get_top_func < n
    BY <1>1, <1>2, <2>2 DEF NewHere
  <2> DEFINE class == IF TypeOf(Top) = "structure_type" THEN Top ELSE Null
             owner == IF get_top_func # Null THEN get_top_func ELSE class
  <2>4. class \in Refs \cup {Null} /\ class < n
    BY <1>1, <1>2 DEF NewHere, Null
  <2>5. owner # Null => owner \in Refs /\ owner < n
    BY <2>2, <2>3, <2>4
  <2>6. \/ /\ last_var_' = Null /\ current_element_type_' \in {"none", "var_type"}
           /\ UNCHANGED listVars
        \/ /\ owner # Null /\ Made(owner)
           /\ parts' = [parts EXCEPT ![owner] = Append(@, <<"lvar", n>>)]
        \/ Made(get_owner) /\ UNCHANGED parts
    BY DEF AddVar
  <2> HIDE DEF owner, class, Made
  <2> QED BY <1>2, <2>5, <2>6
<1>5. ~kids
  BY DEF NewDie, Parents
<1>6. ASSUME last_var_' = Null, current_element_type_' \in {"none", "var_type"}, UNCHANGED listVars
      PROVE  Registered(n, "variable") /\ RegisteredAs(n, "variable", kids)
  BY <1>1, <1>3, <1>5, <1>6
     DEF Registered, RegisteredAs, NewHere, listVars, NameNeedsTop, ElementTypes, Null
<1>7. ASSUME NEW o \in Refs \cup {Null}, o < n, Made(o),
             parts' \in [Refs -> Seq(Vectors \X Dies)]
      PROVE  Registered(n, "variable") /\ RegisteredAs(n, "variable", kids)
  <2>1. Element("var_type", level, o) \in Elements
    BY <1>1 DEF Element, Elements, ElementTypes, NewHere
  <2>2. /\ obj' \in [Refs -> Elements]
        /\ \A r \in Refs : r # n => obj'[r] = obj[r]
        /\ obj'[n] = Element("var_type", level, o)
    BY <1>1, <1>7, <2>1 DEF NewHere
  <2>3. obj'[n] # NoObj
    BY <2>2 DEF Element, NoObj
  <2>4. obj'[n].owner < n /\ obj'[n].level = level /\ obj'[n].type = "var_type"
    BY <1>7, <2>2 DEF Element
  <2>5. Entry' = n
    BY <1>3, <1>7 DEF Entry
  <2>6. Registered(n, "variable")
    BY <1>1, <1>3, <1>7, <2>2, <2>3, <2>4, <2>5 DEF Registered, NewHere, TagType, ElementTypes
  <2> QED BY <1>1, <1>3, <1>5, <1>7, <2>3, <2>6 DEF RegisteredAs, NewHere, NameNeedsTop
<1>8. <<"lvar", n>> \in Vectors \X Dies
  BY <1>1 DEF Vectors, NewHere
<1>9. ASSUME NEW o \in Refs, parts' = [parts EXCEPT ![o] = Append(@, <<"lvar", n>>)]
      PROVE  parts' \in [Refs -> Seq(Vectors \X Dies)]
  BY <1>1, <1>8, <1>9, AppendProperties DEF NewHere
<1>10. UNCHANGED parts => parts' \in [Refs -> Seq(Vectors \X Dies)]
  BY <1>1 DEF NewHere
<1> HIDE DEF Made
<1> QED BY <1>4, <1>6, <1>7, <1>9, <1>10

LEMMA RegisteredFacts ==
  ASSUME WalkInv, BuilderInv, NEW n, NEW tag, NEW kids \in BOOLEAN, NewDie(n, tag, kids)
  PROVE  Registered(n, tag) /\ RegisteredAs(n, tag, kids)
<1>1. Register(n, tag, kids) /\ m_level \in Int
  BY DEF NewDie, BuilderInv, StackOK, WalkInv, PathOK
<1>2. CASE /\ tag \in {"structure_type", "array_type", "type", "subroutine_type"}
           /\ AddOwn(tag, n, m_level) /\ UNCHANGED sub_filtered /\ added' = TRUE
  <2>1. tag \in ElementTypes /\ TagType(tag, tag) /\ sub_filtered' \in BOOLEAN
    BY <1>2 DEF ElementTypes, TagType, BuilderInv, PointersOK
  <2>2. tag \notin {"variant_part", "formal_parameter", "variant", "member", "pack"}
    BY <1>2
  <2> QED BY <1>2, <2>1, <2>2, RegisterOwn
<1>3. CASE /\ tag \in {"enumeration_type", "namespace", "lexical_block"}
           /\ \/ tag = "enumeration_type" /\ AddOwn("enumerator_type", n, m_level)
              \/ tag = "namespace" /\ AddOwn("ns_start", n, m_level)
              \/ tag = "lexical_block" /\ AddOwn(tag, n, m_level)
           /\ UNCHANGED sub_filtered /\ added' = TRUE
  <2>1. PICK type \in {"enumerator_type", "ns_start", "lexical_block"} :
          AddOwn(type, n, m_level) /\ TagType(tag, type)
    BY <1>3 DEF TagType
  <2>2. type \in ElementTypes /\ sub_filtered' \in BOOLEAN
    BY <1>3, <2>1 DEF ElementTypes, BuilderInv, PointersOK
  <2>3. tag \notin {"variant_part", "formal_parameter", "variant", "member", "pack"}
    BY <1>3
  <2> QED BY <1>3, <2>1, <2>2, <2>3, RegisterOwn
<1>4. CASE /\ tag \in {"member", "inheritance", "enumerator"}
           /\ AddPart(tag, n) /\ added' = TRUE
  BY <1>4, RegisterPart
<1>5. CASE tag = "variant_part" /\ AddVariantPart(n, m_level) /\ added' = TRUE
  BY <1>5, RegisterVariantPart
<1>6. CASE tag = "variant" /\ AddVariant /\ added' = VariantFits
  BY <1>6, RegisterVariant
<1>7. CASE tag = "subrange_type" /\ AddSubrange /\ added' = TRUE
  BY <1>7, RegisterSubrange
<1>8. CASE tag = "variable" /\ AddVar(n, m_level) /\ added' = TRUE
  BY <1>8, RegisterVar
<1>9. CASE tag = "subprogram" /\ AddSubroutine(n, m_level) /\ added' = TRUE
  <2>1. CASE can_have_methods(m_level - ns_count)
    BY <1>9, <2>1, RegisterMethod
  <2>2. CASE ~can_have_methods(m_level - ns_count)
    <3>1. AddOwn("subroutine", n, m_level) /\ sub_filtered' \in BOOLEAN
      BY <1>9, <2>2 DEF AddSubroutine
    <3>2. "subroutine" \in ElementTypes /\ TagType(tag, "subroutine")
      BY <1>9 DEF ElementTypes, TagType
    <3> QED BY <1>9, <3>1, <3>2, RegisterOwn
  <2> QED BY <2>1, <2>2
<1>10. CASE /\ tag = "formal_parameter" /\ m_regged
            /\ AddFormalParam(n, m_level) /\ added' = ParamFits(m_level)
  BY <1>10, RegisterParam
<1>11. CASE /\ tag \in {"compile_unit", "pack", "other", "namespace", "lexical_block", "variable",
                        "subprogram", "formal_parameter"}
            /\ AddNone /\ added' = FALSE
  BY <1>11, RegisterNone
<1> QED
  <2>1. \/ /\ tag \in {"structure_type", "array_type", "type", "subroutine_type"}
           /\ AddOwn(tag, n, m_level) /\ UNCHANGED sub_filtered /\ added' = TRUE
        \/ /\ tag \in {"enumeration_type", "namespace", "lexical_block"}
           /\ \/ tag = "enumeration_type" /\ AddOwn("enumerator_type", n, m_level)
              \/ tag = "namespace" /\ AddOwn("ns_start", n, m_level)
              \/ tag = "lexical_block" /\ AddOwn(tag, n, m_level)
           /\ UNCHANGED sub_filtered /\ added' = TRUE
        \/ tag \in {"member", "inheritance", "enumerator"} /\ AddPart(tag, n) /\ added' = TRUE
        \/ tag = "variant_part" /\ AddVariantPart(n, m_level) /\ added' = TRUE
        \/ tag = "variant" /\ AddVariant /\ added' = VariantFits
        \/ tag = "subrange_type" /\ AddSubrange /\ added' = TRUE
        \/ tag = "variable" /\ AddVar(n, m_level) /\ added' = TRUE
        \/ tag = "subprogram" /\ AddSubroutine(n, m_level) /\ added' = TRUE
        \/ /\ tag = "formal_parameter" /\ m_regged
           /\ AddFormalParam(n, m_level) /\ added' = ParamFits(m_level)
        \/ /\ tag \in {"compile_unit", "pack", "other", "namespace", "lexical_block", "variable",
                       "subprogram", "formal_parameter"}
           /\ AddNone /\ added' = FALSE
    BY <1>1, ZenonT(40) DEF Register
  <2> QED BY <2>1, <1>2, <1>3, <1>4, <1>5, <1>6, <1>7, <1>8, <1>9, <1>10, <1>11

-----------------------------------------------------------------------------
(***************************************************************************)
(* How far up the path a DIE's parts and parameters can be.                *)
(***************************************************************************)
LEMMA PathStep ==
  ASSUME WalkInv, NEW i \in DOMAIN path
  PROVE  /\ path[i].id \in DOMAIN tree /\ path[i].tag = tree[path[i].id].tag
         /\ path[i].tag \in Parents /\ path[i].id <= Parent.id /\ path[i].id \in Nat
         /\ path # <<>> /\ Len(path) \in DOMAIN path
         /\ i # Len(path) => /\ i + 1 \in DOMAIN path
                             /\ tree[path[i + 1].id].parent = path[i].id
                             /\ path[i + 1].tag \in ChildTags[path[i].tag]
         /\ i # 1 => i - 1 \in DOMAIN path /\ path[i].tag # "compile_unit"
         /\ i = 1 => path[i].tag = "compile_unit"
<1>1. Shape /\ PathOK
  BY WalkShape DEF WalkInv
<1>2. path # <<>> /\ Len(path) \in DOMAIN path /\ Parent = path[Len(path)]
  BY <1>1 DEF Shape
<1>3. path[i].id <= Parent.id /\ path[i].id \in Nat
  <2>1. i = Len(path) \/ i < Len(path)
    BY <1>1 DEF Shape
  <2>2. path[i].id \in Nat /\ Parent.id \in Nat
    BY <1>1, <1>2 DEF PathOK, Shape
  <2> QED BY <1>1, <1>2, <2>1, <2>2 DEF PathOK
<1>4. ASSUME i # Len(path)
      PROVE  /\ i + 1 \in DOMAIN path
             /\ tree[path[i + 1].id].parent = path[i].id
             /\ path[i + 1].tag \in ChildTags[path[i].tag]
  <2>1. i + 1 \in DOMAIN path /\ i + 1 # 1 /\ (i + 1) - 1 = i
    BY <1>1, <1>4 DEF Shape
  <2> QED BY <1>1, <2>1 DEF PathOK
<1>5. ASSUME i # 1 PROVE i - 1 \in DOMAIN path /\ path[i].tag # "compile_unit"
  <2>1. i - 1 \in DOMAIN path
    BY <1>1, <1>5 DEF Shape
  <2>2. path[i].tag \in ChildTags[path[i - 1].tag] /\ path[i - 1].tag \in Parents
    BY <1>1, <1>5, <2>1, KindsOfParents DEF PathOK
  <2> QED BY <2>1, <2>2, KindsOfChildren
<1>6. i = 1 => path[i].tag = "compile_unit"
  BY <1>1 DEF PathOK, WalkInv, TreeOK, Elders
<1> QED BY <1>1, <1>2, <1>3, <1>4, <1>5, <1>6, KindsOfParents DEF PathOK

LEMMA VariantsAreNear ==
  ASSUME WalkInv, NEW i \in DOMAIN path, path[i].tag \in {"variant_part", "variant"}
  PROVE  /\ path # <<>> /\ Parent.tag \in {"variant_part", "variant"}
         /\ path[i].tag = "variant" => i = Len(path)
<1>1. ASSUME NEW k \in DOMAIN path, path[k].tag = "variant" PROVE k = Len(path)
  <2>1. k # Len(path) => path[k + 1].tag = "member" /\ path[k + 1].tag \in Parents
    BY <1>1, PathStep, KindsOfChildren
  <2> QED BY <2>1 DEF Parents
<1>2. CASE path[i].tag = "variant"
  BY <1>1, <1>2, WalkShape DEF Shape
<1>3. CASE path[i].tag = "variant_part" /\ i = Len(path)
  BY <1>3, WalkShape DEF Shape
<1>4. CASE path[i].tag = "variant_part" /\ i # Len(path)
  <2>1. i + 1 \in DOMAIN path /\ path[i + 1].tag \in {"member", "variant"} /\ path[i + 1].tag \in Parents
    <3>1. i + 1 \in DOMAIN path /\ path[i + 1].tag \in ChildTags[path[i].tag]
      BY <1>4, PathStep
    <3>2. path[i + 1].tag \in Parents
      BY <3>1, PathStep
    <3>3. path[i + 1].tag \in {"member", "variant"}
      BY <1>4, <3>1 DEF ChildTags
    <3> QED BY <3>1, <3>2, <3>3
  <2>2. path[i + 1].tag = "variant"
    BY <2>1 DEF Parents
  <2>3. Shape
    BY WalkShape
  <2> QED BY <1>1, <1>4, <2>1, <2>2, <2>3 DEF Shape
<1> QED BY <1>2, <1>3, <1>4

LEMMA ParamsAreNear ==
  ASSUME WalkInv, NEW i \in DOMAIN path, OnlyParams(path[i].id), i # Len(path)
  PROVE  Parent.tag = "pack" /\ i + 1 = Len(path)
<1>1. i + 1 \in DOMAIN path /\ tree[path[i + 1].id].parent = path[i].id
  BY PathStep
<1>2. path[i + 1].id \in DOMAIN tree /\ path[i + 1].tag = tree[path[i + 1].id].tag
      /\ path[i + 1].tag \in Parents
  BY <1>1, PathStep
<1>3. path[i + 1].tag = "pack"
  BY <1>1, <1>2 DEF OnlyParams, Parents
<1>4. ASSUME NEW k \in DOMAIN path, path[k].tag = "pack" PROVE k = Len(path)
  <2>1. k # Len(path) => path[k + 1].tag = "formal_parameter" /\ path[k + 1].tag \in Parents
    BY <1>4, PathStep, KindsOfChildren
  <2> QED BY <2>1 DEF Parents
<1>5. i + 1 = Len(path)
  BY <1>1, <1>3, <1>4
<1> QED BY <1>3, <1>5, PathStep, WalkShape DEF Shape

-----------------------------------------------------------------------------
(***************************************************************************)
(* The builder's invariant, step by step of the walk.                      *)
(***************************************************************************)
LEMMA ReadDieElements ==
  ASSUME WalkInv, BuilderInv, NEW n, NEW tag, NEW kids \in BOOLEAN, NewDie(n, tag, kids)
  PROVE  ElementsOK' /\ PointersOK'
<1>1. NewHere(n) /\ Registered(n, tag) /\ RegisteredAs(n, tag, kids)
  BY NewHereFacts, RegisteredFacts
<1>2. /\ DOMAIN tree' = DOMAIN tree \cup {n} /\ \A d \in DOMAIN tree : tree'[d] = tree[d]
      /\ tree'[n].tag = tag /\ tree'[n].made = added' /\ added' \in BOOLEAN
  BY DEF NewDie
<1>3. ElementsOK'
  <2>1. ASSUME NEW r \in Refs
        PROVE  /\ obj'[r].owner < r
               /\ obj'[r] # NoObj =>
                    IF r \in DOMAIN tree' THEN tree'[r].made /\ TagType(tree'[r].tag, obj'[r].type)
                                          ELSE r \notin Dies /\ obj'[r].type = "ns_end"
    <3>1. CASE r = n
      <4>1. CASE obj'[n] = NoObj
        BY <1>1, <3>1, <4>1, EmptyObj, RefsFact DEF NewHere, Null
      <4>2. CASE obj'[n] # NoObj
        BY <1>1, <1>2, <3>1, <4>2 DEF Registered
      <4> QED BY <4>1, <4>2
    <3>2. CASE r # n
      <4>1. obj'[r] = obj[r] /\ (r \in DOMAIN tree' <=> r \in DOMAIN tree)
            /\ (r \in DOMAIN tree => tree'[r] = tree[r])
        BY <1>1, <1>2, <3>2 DEF Registered
      <4> QED BY <4>1 DEF BuilderInv, ElementsOK
    <3> QED BY <3>1, <3>2
  <2>2. ASSUME NEW d \in DOMAIN tree'
        PROVE  /\ HasElement(d)' => obj'[d] # NoObj
               /\ tree'[d].tag \in {"compile_unit", "pack", "other"} => ~tree'[d].made
               /\ tree'[d].tag = "variant_part" => tree'[d].made
    <3>1. CASE d = n
      BY <1>1, <1>2, <3>1 DEF RegisteredAs, HasElement
    <3>2. CASE d # n
      <4>1. d \in DOMAIN tree /\ tree'[d] = tree[d] /\ d \in Refs
        BY <1>1, <1>2, <3>2, RefsFact DEF NewHere, Shape
      <4>2. obj'[d] = obj[d]
        BY <1>1, <3>2, <4>1 DEF Registered
      <4>3. HasElement(d)' <=> HasElement(d)
        BY <4>1 DEF HasElement
      <4> QED BY <4>1, <4>2, <4>3 DEF BuilderInv, ElementsOK
    <3> QED BY <3>1, <3>2
  <2> QED BY <1>1, <2>1, <2>2 DEF ElementsOK, Registered
<1>4. IF back' = Null THEN \A r \in Refs : obj'[r] = NoObj ELSE obj'[back'] # NoObj
  <2>1. CASE obj'[n] = NoObj
    <3>1. back' = back /\ back # n
      BY <1>1, <2>1 DEF Registered, BuilderInv, PointersOK, NewHere
    <3>2. CASE back = Null
      <4>1. \A r \in Refs : obj[r] = NoObj
        BY <3>2 DEF BuilderInv, PointersOK
      <4> QED BY <1>1, <2>1, <3>1, <3>2, <4>1 DEF Registered
    <3>3. CASE back # Null
      <4>1. obj[back] # NoObj /\ back \in Refs
        BY <1>1, <3>3 DEF BuilderInv, PointersOK, NewHere
      <4> QED BY <1>1, <3>1, <3>3, <4>1 DEF Registered
    <3> QED BY <3>2, <3>3
  <2>2. CASE obj'[n] # NoObj
    <3>1. back' # Null /\ back' \in {back, n}
      BY <1>1, <2>2 DEF Registered
    <3>2. back' = n \/ (back' \in Refs /\ back' # n /\ obj[back'] # NoObj)
      BY <1>1, <3>1 DEF BuilderInv, PointersOK, NewHere
    <3> QED BY <1>1, <2>2, <3>1, <3>2 DEF Registered
  <2> QED BY <2>1, <2>2
<1>5. ASSUME NEW i \in DOMAIN m_stack', m_stack'[i] # Null PROVE obj'[m_stack'[i]] # NoObj
  <2>1. m_stack' = m_stack
    BY <1>1 DEF Registered
  <2>2. m_stack[i] \in Refs \cup {Null} /\ m_stack[i] # Null /\ obj[m_stack[i]] # NoObj
    BY <1>5, <2>1, ElementOfSeq DEF BuilderInv, PointersOK
  <2> QED BY <1>1, <2>1, <2>2 DEF Registered, NewHere
<1>6. recent_' # Null => TypeOf(recent_)' \in FunctionTypes
  <2>1. CASE recent_' = n
    BY <1>1, <2>1 DEF Registered, TypeOf, NewHere
  <2>2. CASE recent_' # n /\ recent_' # Null
    <3>1. recent_' = recent_ /\ recent_ \in Refs
      BY <1>1, <2>2 DEF Registered, NewHere
    <3> QED BY <1>1, <2>2, <3>1 DEF Registered, BuilderInv, PointersOK, TypeOf
  <2> QED BY <2>1, <2>2
<1>7. /\ back' \in Refs \cup {Null} /\ recent_' \in Refs \cup {Null}
      /\ last_var_' \in Refs \cup {Null}
  BY <1>1 DEF Registered, NewHere, BuilderInv, PointersOK
<1> QED BY <1>1, <1>3, <1>4, <1>5, <1>6, <1>7 DEF Registered, BuilderInv, PointersOK, nsVars

\* The elements of the DIEs on the path, and the entries, are not touched.
LEMMA ReadDieKeepsEntries ==
  ASSUME WalkInv, BuilderInv, NEW n, NEW tag, NEW kids \in BOOLEAN, NewDie(n, tag, kids),
         NEW i \in DOMAIN path
  PROVE  /\ path' = path /\ m_stack' = m_stack
         /\ path[i].id \in DOMAIN tree /\ path[i].id # n /\ path[i].id \in Dies
         /\ tree'[path[i].id] = tree[path[i].id]
         /\ obj'[path[i].id] = obj[path[i].id]
         /\ Own(path[i].id)' = Own(path[i].id)
         /\ TypeOf(path[i].id)' = TypeOf(path[i].id)
         /\ i \in DOMAIN m_stack /\ m_stack[i] \in Refs \cup {Null} /\ m_stack[i] # n
         /\ TypeOf(m_stack[i])' = TypeOf(m_stack[i])
<1>1. NewHere(n) /\ Registered(n, tag) /\ Shape
  BY NewHereFacts, RegisteredFacts DEF NewHere
<1>2. path' = path /\ m_stack' = m_stack
  BY <1>1 DEF Registered, NewDie
<1>3. path[i].id \in DOMAIN tree /\ path[i].id # n /\ path[i].id \in Dies /\ path[i].id \in Refs
  BY <1>1, PathStep, RefsFact DEF NewHere, Shape
<1>4. tree'[path[i].id] = tree[path[i].id] /\ obj'[path[i].id] = obj[path[i].id]
  BY <1>1, <1>3 DEF NewDie, Registered
<1>5. i \in DOMAIN m_stack /\ m_stack \in Seq(Refs \cup {Null})
  BY <1>1 DEF BuilderInv, StackOK, PointersOK, Shape
<1>6. m_stack[i] \in Refs \cup {Null} /\ (m_stack[i] # Null => obj[m_stack[i]] # NoObj)
  BY <1>5, ElementOfSeq DEF BuilderInv, PointersOK
<1>7. m_stack[i] # n
  BY <1>1, <1>6 DEF NewHere
<1>8. TypeOf(m_stack[i])' = TypeOf(m_stack[i])
  BY <1>1, <1>2, <1>6, <1>7 DEF Registered, TypeOf
<1>9. Own(path[i].id)' = Own(path[i].id) /\ TypeOf(path[i].id)' = TypeOf(path[i].id)
  BY <1>2, <1>4 DEF Own, TypeOf
<1> QED BY <1>2, <1>3, <1>4, <1>5, <1>6, <1>7, <1>8, <1>9

LEMMA ReadDieStack ==
  ASSUME WalkInv, BuilderInv, NEW n, NEW tag, NEW kids \in BOOLEAN, NewDie(n, tag, kids)
  PROVE  StackOK'
<1>1. NewHere(n) /\ Registered(n, tag) /\ RegisteredAs(n, tag, kids) /\ Shape /\ TopOK
  BY NewHereFacts, RegisteredFacts DEF NewHere
<1>2. m_level' = m_level /\ path' = path /\ m_stack' = m_stack
  BY <1>1 DEF Registered, NewDie
<1>3. ASSUME NEW i \in DOMAIN path
      PROVE  EntryOK(i)' /\ ClassOK(i)' /\ ParamsOK(i)'
  <2> DEFINE d == path[i].id
  <2>1. /\ d \in DOMAIN tree /\ d # n /\ d \in Dies /\ d \in Nat /\ d <= Parent.id /\ d < n
        /\ tree'[d] = tree[d] /\ Own(d)' = Own(d)
        /\ TypeOf(m_stack[i])' = TypeOf(m_stack[i])
        /\ path # <<>>
    BY <1>1, ReadDieKeepsEntries, PathStep DEF NewHere
  <2>2. EntryOK(i) /\ ClassOK(i) /\ ParamsOK(i)
    BY DEF BuilderInv, StackOK
  <2>3. path[i].tag \in {"variant_part", "variant"} =>
          /\ current_element_type_' \in {current_element_type_, "member"}
          /\ current_element_type_ = "none" => current_element_type_' = "none"
          /\ recent_' = recent_ /\ back' = back
    <3>1. path[i].tag \in {"variant_part", "variant"} => tag \in {"member", "variant"}
      <4>1. tag \in ChildTags[Parent.tag]
        BY <2>1 DEF NewDie
      <4> QED BY <1>1, <2>1, <4>1, VariantsAreNear, KindsOfChildren DEF Shape
    <3> QED BY <1>1, <3>1 DEF RegisteredAs
  <2>4. path[i].tag = "variant" => Own(path[i - 1].id)' = Own(path[i - 1].id)
    <3>1. ASSUME path[i].tag = "variant" PROVE i - 1 \in DOMAIN path
      <4>1. i # 1
        BY <3>1, PathStep
      <4> QED BY <1>1, <4>1 DEF Shape
    <3> QED BY <3>1, ReadDieKeepsEntries
  <2>5. EntryOK(i)'
    <3>1. path[i].tag = "variant" =>
            IF Own(path[i - 1].id)' = Null THEN current_element_type_' = "none"
                                           ELSE m_stack[i] = path[i - 1].id
      BY <2>2, <2>3, <2>4 DEF EntryOK
    <3>2. path[i].tag = "variant_part" =>
            /\ current_element_type_' \in {"none", "variant_type", "member"}
            /\ IF Own(d)' = Null THEN current_element_type_' = "none"
                                 ELSE recent_' = Null /\ back' = d
      BY <2>1, <2>2, <2>3 DEF EntryOK
    <3>3. /\ tree'[d].made <=> m_stack[i] # Null
          /\ Own(d)' # Null => m_stack[i] = d
          /\ path[i].tag # "namespace" => TypeOf(m_stack[i])' # "ns_start"
      BY <2>1, <2>2 DEF EntryOK
    <3> HIDE DEF d
    <3> QED BY <1>2, <3>1, <3>2, <3>3 DEF EntryOK, d
  <2>6. ClassOK(i)'
    <3>1. ASSUME path[i].tag = "structure_type", NEW k \in DOMAIN tree', k >= d
          PROVE  tree'[k].tag # "namespace"
      <4>1. k \in DOMAIN tree => tree'[k].tag # "namespace"
        BY <2>2, <3>1 DEF ClassOK, NewDie
      <4>2. tag # "namespace"
        <5>1. Parent.tag \notin Outer
          <6>1. Parent.id \in DOMAIN tree /\ Parent.id >= d /\ Parent.tag = tree[Parent.id].tag
            BY <1>1, <2>1 DEF Shape
          <6>2. Parent.tag # "namespace"
            BY <2>2, <3>1, <6>1 DEF ClassOK
          <6>3. Parent.tag # "compile_unit"
            <7>1. i = Len(path) => Parent.tag # "compile_unit"
              BY <1>1, <2>1, <3>1 DEF Shape
            <7>2. i # Len(path) => Len(path) # 1
              BY <1>1 DEF Shape
            <7>3. Len(path) \in DOMAIN path /\ Parent = path[Len(path)]
              BY <1>1, PathStep DEF Shape
            <7>4. Len(path) # 1 => path[Len(path)].tag # "compile_unit"
              BY <7>3, PathStep
            <7> QED BY <7>1, <7>2, <7>3, <7>4
          <6> QED BY <6>2, <6>3 DEF Outer
        <5> QED BY <1>1, <2>1, <5>1, KindsOfChildren DEF NewDie, Shape
      <4> QED BY <4>1, <4>2 DEF NewDie
    <3>2. path[i].tag = "structure_type" => back' \in Dies /\ back' >= d
      BY <1>1, <2>1, <2>2 DEF Registered, ClassOK, NewHere
    <3> HIDE DEF d
    <3> QED BY <1>2, <3>1, <3>2 DEF ClassOK, d
  <2>7. ParamsOK(i)'
    <3> SUFFICES ASSUME OnlyParams(d)'
                 PROVE  /\ ~tree'[d].made => ~m_regged'
                        /\ path[i].tag \in {"subprogram", "subroutine_type"} /\ tree'[d].made
                             => recent_' \in {Null, d}
      BY <1>2 DEF ParamsOK
    <3>1. OnlyParams(d)
      BY DEF OnlyParams, NewDie
    <3>2. tag \in {"formal_parameter", "pack"} /\ (i # Len(path) => tag = "formal_parameter")
      <4>1. CASE i = Len(path)
        <5>1. tree'[n].parent = d /\ tree'[n].tag = tag /\ n \in DOMAIN tree'
          BY <1>1, <2>1, <4>1 DEF NewDie, Shape
        <5>2. \A k \in DOMAIN tree' :
                tree'[k].parent = d => tree'[k].tag \in {"formal_parameter", "pack"}
          BY <1>2 DEF OnlyParams
        <5> QED BY <4>1, <5>1, <5>2
      <4>2. CASE i # Len(path)
        <5>1. Parent.tag = "pack"
          BY <3>1, <4>2, ParamsAreNear
        <5> QED BY <1>1, <2>1, <5>1, KindsOfChildren DEF NewDie, Shape
      <4> QED BY <4>1, <4>2
    <3>3. recent_' = recent_ /\ m_regged' = added'
      BY <1>1, <3>2 DEF RegisteredAs, NewDie
    <3>4. added' => m_regged
      BY <1>1, <3>2 DEF RegisteredAs
    <3> QED BY <2>1, <2>2, <3>1, <3>3, <3>4 DEF ParamsOK
  <2> QED BY <2>5, <2>6, <2>7
<1> QED BY <1>2, <1>3 DEF StackOK, BuilderInv

LEMMA ReadDieNew ==
  ASSUME WalkInv, BuilderInv, NEW n, NEW tag, NEW kids \in BOOLEAN, NewDie(n, tag, kids)
  PROVE  NewOK'
<1>1. NewHere(n) /\ Registered(n, tag) /\ RegisteredAs(n, tag, kids) /\ Shape /\ TopOK
  BY NewHereFacts, RegisteredFacts DEF NewHere
<1>2. /\ die' = [id |-> n, tag |-> tag, kids |-> kids]
      /\ m_regged' = added' /\ at' = "name" /\ Parent' = Parent
      /\ m_stack' = m_stack
      /\ path # <<>> => tag \in ChildTags[Parent.tag]
  BY <1>1 DEF NewDie, Registered
<1>3. Top' = Top
  BY <1>2 DEF Top, LastOf
<1>4. Own(n)' = IF obj'[n] # NoObj THEN n ELSE Null
  BY <1>1 DEF Own, NewHere
<1>5. obj'[n] # NoObj => Entry' = n
  BY <1>1 DEF Registered
<1>6. tag = "variant_part" =>
        /\ current_element_type_' \in {"none", "variant_type"}
        /\ IF Own(n)' = Null
             THEN current_element_type_' = "none" /\ TypeOf(Entry)' # "ns_start"
             ELSE recent_' = Null /\ back' = n
  <2>1. ASSUME tag = "variant_part", obj'[n] = NoObj PROVE TypeOf(Entry)' # "ns_start"
    <3>1. recent_' = recent_ /\ back' = back /\ back # Null
      BY <1>1, <2>1 DEF RegisteredAs
    <3>2. CASE recent_ # Null
      <4>1. recent_ # n /\ recent_ \in Refs /\ obj[recent_].type \in FunctionTypes
        BY <1>1, <3>2 DEF NewHere, BuilderInv, PointersOK, TypeOf
      <4>2. TypeOf(Entry)' \in FunctionTypes
        BY <1>1, <3>1, <3>2, <4>1 DEF Entry, TypeOf, Registered
      <4> QED BY <4>2 DEF FunctionTypes
    <3>3. CASE recent_ = Null
      <4>1. path # <<>> /\ Parent.tag = "structure_type"
        BY <1>1, <1>2, <2>1, KindsOfChildren DEF NewDie, Shape
      <4>2. ClassOK(Len(path)) /\ Parent = path[Len(path)]
        BY <1>1, <4>1 DEF BuilderInv, StackOK, Shape
      <4>3. back \in Dies /\ back >= Parent.id /\ back \in Refs /\ obj[back] # NoObj
        BY <3>1, <4>1, <4>2, RefsFact DEF ClassOK, BuilderInv, PointersOK
      <4>4. back \in DOMAIN tree /\ TagType(tree[back].tag, obj[back].type)
        BY <4>3 DEF BuilderInv, ElementsOK
      <4>5. tree[back].tag # "namespace"
        BY <4>1, <4>2, <4>3, <4>4 DEF ClassOK
      <4>6. obj[back].type # "ns_start"
        BY <4>4, <4>5 DEF TagType
      <4>7. back # n /\ obj'[back] = obj[back]
        BY <1>1, <4>3 DEF NewHere, Registered
      <4> QED BY <3>1, <3>3, <4>6, <4>7 DEF Entry, TypeOf
    <3> QED BY <3>2, <3>3
  <2>2. CASE obj'[n] = NoObj
    BY <1>1, <1>4, <2>1, <2>2 DEF RegisteredAs
  <2>3. CASE obj'[n] # NoObj
    <3>1. Own(n)' = n /\ n # Null
      BY <1>1, <1>4, <2>3 DEF NewHere
    <3> QED BY <1>1, <2>3, <3>1 DEF RegisteredAs
  <2> QED BY <2>2, <2>3
<1>7. tag = "variant" /\ Own(Parent.id)' # Null => added'
  <2>1. ASSUME tag = "variant" PROVE Own(Parent.id)' = Own(Parent.id)
    <3>1. path # <<>>
      BY <2>1 DEF NewDie
    <3>2. Parent.id \in Refs /\ Parent.id # n
      BY <1>1, <3>1, RefsFact DEF NewHere
    <3>3. obj'[Parent.id] = obj[Parent.id]
      BY <1>1, <3>2 DEF Registered
    <3> QED BY <1>2, <3>3 DEF Own
  <2> QED BY <1>1, <2>1 DEF RegisteredAs
<1>8. tag = "formal_parameter" /\ added' =>
        /\ current_element_type_' = "formal_param"
        /\ m_stack # <<>> /\ Top # Null /\ recent_' \in {Null, Top}
  <2> SUFFICES ASSUME tag = "formal_parameter", added'
               PROVE  /\ current_element_type_' = "formal_param"
                      /\ m_stack # <<>> /\ Top # Null /\ recent_' \in {Null, Top}
    OBVIOUS
  <2>1. /\ current_element_type_' = "formal_param"
        /\ m_stack # <<>> /\ Top # Null /\ m_regged /\ recent_' = recent_
    BY <1>1 DEF RegisteredAs
  <2>2. path # <<>> /\ Parent.tag \in {"subroutine_type", "subprogram", "pack", "other"}
    BY <1>1, <1>2, KindsOfChildren DEF NewDie, Shape
  <2>3. OnlyParams(Parent.id)
    BY <2>2 DEF NewDie, MayContain, Siblings, OnlyParams
  <2>4. ParamsOK(Len(path)) /\ Parent = path[Len(path)]
    BY <1>1, <2>2 DEF BuilderInv, StackOK, Shape
  <2>5. tree[Parent.id].made
    BY <2>1, <2>3, <2>4 DEF ParamsOK
  <2>6. Parent.tag \in {"subroutine_type", "subprogram"}
    BY <1>1, <2>2, <2>5 DEF BuilderInv, ElementsOK, Shape
  <2>7. recent_ \in {Null, Parent.id}
    BY <2>3, <2>4, <2>5, <2>6 DEF ParamsOK
  <2>8. Top = Parent.id
    BY <1>1, <2>1, <2>2, <2>6 DEF TopOK
  <2> QED BY <2>1, <2>7, <2>8
<1> QED BY <1>1, <1>2, <1>3, <1>4, <1>5, <1>6, <1>7, <1>8 DEF NewOK, RegisteredAs

LEMMA ReadDieBuilder ==
  ASSUME WalkInv, BuilderInv, NEW n, NEW tag, NEW kids \in BOOLEAN, NewDie(n, tag, kids)
  PROVE  BuilderInv'
BY ReadDieElements, ReadDieStack, ReadDieNew DEF BuilderInv

\* Attributes leave the elements what they are, a namespace's own namespace excepted.
SameElements ==
  /\ obj' \in [Refs -> Elements]
  /\ \A r \in Refs : /\ obj'[r].type = obj[r].type /\ obj'[r].level = obj[r].level
                     /\ obj'[r].owner = obj[r].owner
                     /\ obj'[r] = NoObj <=> obj[r] = NoObj

SamePointers ==
  /\ SameTree /\ SameElements
  /\ UNCHANGED <<opt, back, parts, m_stack, recent_, last_var_, ns_count, crashed, path, m_level>>
  /\ named' \in [Refs -> Dies \cup {Null}] /\ sub_filtered' \in BOOLEAN
  /\ ns_stack' \in Seq(Dies)
  /\ current_element_type_' = current_element_type_
       \/ (current_element_type_' = "none" /\ current_element_type_ = "subroutine")
  /\ m_regged' => m_regged

LEMMA SameTypes ==
  ASSUME SameElements
  PROVE  \A r \in Refs \cup {Null} : TypeOf(r)' = TypeOf(r) /\ Own(r)' = Own(r)
  BY DEF SameElements, TypeOf, Own

LEMMA SameElementsIfUnchanged == ElementsOK /\ obj' = obj => SameElements
  BY DEF ElementsOK, SameElements

LEMMA SamePointersBuilder ==
  ASSUME WalkInv, BuilderInv, SamePointers PROVE ElementsOK' /\ PointersOK' /\ StackOK'
<1>1. ElementsOK'
  <2>1. ASSUME NEW r \in Refs
        PROVE  /\ obj'[r].owner < r
               /\ obj'[r] # NoObj =>
                    IF r \in DOMAIN tree' THEN tree'[r].made /\ TagType(tree'[r].tag, obj'[r].type)
                                          ELSE r \notin Dies /\ obj'[r].type = "ns_end"
    <3>1. /\ obj[r].owner < r
          /\ obj[r] # NoObj =>
               IF r \in DOMAIN tree THEN tree[r].made /\ TagType(tree[r].tag, obj[r].type)
                                    ELSE r \notin Dies /\ obj[r].type = "ns_end"
      BY DEF BuilderInv, ElementsOK
    <3>2. /\ DOMAIN tree' = DOMAIN tree
          /\ r \in DOMAIN tree => tree'[r].made = tree[r].made /\ tree'[r].tag = tree[r].tag
          /\ obj'[r].owner = obj[r].owner /\ obj'[r].type = obj[r].type
          /\ obj'[r] # NoObj => obj[r] # NoObj
      BY DEF SamePointers, SameTree, SameElements
    <3> QED BY <3>1, <3>2
  <2>2. ASSUME NEW d \in DOMAIN tree'
        PROVE  /\ HasElement(d)' => obj'[d] # NoObj
               /\ tree'[d].tag \in {"compile_unit", "pack", "other"} => ~tree'[d].made
               /\ tree'[d].tag = "variant_part" => tree'[d].made
    <3>1. d \in DOMAIN tree /\ tree'[d].made = tree[d].made /\ tree'[d].tag = tree[d].tag
      BY DEF SamePointers, SameTree
    <3>2. d \in Refs
      BY <3>1, WalkShape, RefsFact DEF Shape
    <3>3. obj'[d] = NoObj <=> obj[d] = NoObj
      BY <3>2 DEF SamePointers, SameElements
    <3>4. HasElement(d)' <=> HasElement(d)
      BY <3>1 DEF HasElement
    <3> QED BY <3>1, <3>3, <3>4 DEF BuilderInv, ElementsOK
  <2> QED BY <2>1, <2>2 DEF ElementsOK, SamePointers, SameElements
<1>2. PointersOK'
  <2>1. PointersOK
    BY DEF BuilderInv
  <2>2. IF back' = Null THEN \A r \in Refs : obj'[r] = NoObj ELSE obj'[back'] # NoObj
    BY <2>1 DEF PointersOK, SamePointers, SameElements
  <2>3. \A i \in DOMAIN m_stack' : m_stack'[i] # Null => obj'[m_stack'[i]] # NoObj
    <3>1. m_stack \in Seq(Refs \cup {Null}) /\ m_stack' = m_stack
      BY <2>1 DEF PointersOK, SamePointers
    <3>2. \A i \in DOMAIN m_stack : m_stack[i] \in Refs \cup {Null}
      BY <3>1, ElementOfSeq
    <3>3. \A i \in DOMAIN m_stack : m_stack[i] # Null => obj[m_stack[i]] # NoObj
      BY <2>1 DEF PointersOK
    <3>4. \A r \in Refs : obj'[r] = NoObj <=> obj[r] = NoObj
      BY DEF SamePointers, SameElements
    <3> QED BY <3>1, <3>2, <3>3, <3>4
  <2>4. recent_' # Null => TypeOf(recent_)' \in FunctionTypes
    BY <2>1, SameTypes DEF PointersOK, SamePointers
  <2>5. current_element_type_' \in ElementTypes
    BY <2>1 DEF PointersOK, SamePointers, ElementTypes
  <2> QED BY <2>1, <2>2, <2>3, <2>4, <2>5 DEF PointersOK, SamePointers
<1>3. StackOK'
  <2>1. ASSUME NEW i \in DOMAIN path PROVE EntryOK(i)' /\ ClassOK(i)' /\ ParamsOK(i)'
    <3> DEFINE d == path[i].id
    <3>1. EntryOK(i) /\ ClassOK(i) /\ ParamsOK(i)
      BY DEF BuilderInv, StackOK
    <3>2. /\ d \in DOMAIN tree /\ d \in Refs /\ tree'[d].made = tree[d].made
          /\ i # 1 => path[i - 1].id \in Refs
          /\ path[i].tag = "variant" => i # 1
      <4>1. \A k \in DOMAIN path : path[k].id \in DOMAIN tree /\ path[k].id \in Refs
        BY WalkShape, PathStep, RefsFact DEF Shape
      <4>2. i # 1 => i - 1 \in DOMAIN path
        BY PathStep
      <4>3. path[i].tag = "variant" => i # 1
        BY PathStep
      <4> QED BY <4>1, <4>2, <4>3 DEF SamePointers, SameTree
    <3>3. /\ m_stack[i] \in Refs \cup {Null}
          /\ TypeOf(m_stack[i])' = TypeOf(m_stack[i])
      <4>1. m_stack[i] \in Refs \cup {Null}
        BY WalkShape, ElementOfSeq DEF BuilderInv, PointersOK, StackOK, Shape
      <4> QED BY <4>1, SameTypes DEF SamePointers, TypeOf
    <3>4. Own(d)' = Own(d) /\ (i # 1 => Own(path[i - 1].id)' = Own(path[i - 1].id))
      BY <3>2, SameTypes DEF SamePointers
    <3>5. EntryOK(i)'
      <4>1. path[i].tag = "variant" =>
              IF Own(path[i - 1].id)' = Null THEN current_element_type_' = "none"
                                             ELSE m_stack[i] = path[i - 1].id
        BY <3>1, <3>2, <3>4 DEF EntryOK, SamePointers
      <4>2. path[i].tag = "variant_part" =>
              /\ current_element_type_' \in {"none", "variant_type", "member"}
              /\ IF Own(d)' = Null THEN current_element_type_' = "none"
                                   ELSE recent_' = Null /\ back' = d
        BY <3>1, <3>4 DEF EntryOK, SamePointers
      <4>3. /\ tree'[d].made <=> m_stack[i] # Null
            /\ Own(d)' # Null => m_stack[i] = d
            /\ path[i].tag # "namespace" => TypeOf(m_stack[i])' # "ns_start"
        BY <3>1, <3>2, <3>3, <3>4 DEF EntryOK
      <4> HIDE DEF d
      <4> QED BY <4>1, <4>2, <4>3 DEF EntryOK, d, SamePointers
    <3>6. ClassOK(i)'
      BY <3>1, <3>2 DEF ClassOK, SamePointers, SameTree
    <3>7. ParamsOK(i)'
      <4>1. OnlyParams(d)' => OnlyParams(d)
        BY DEF OnlyParams, SamePointers, SameTree
      <4> HIDE DEF d
      <4> QED BY <3>1, <3>2, <4>1 DEF ParamsOK, d, SamePointers
    <3> QED BY <3>5, <3>6, <3>7
  <2> QED BY <2>1 DEF StackOK, BuilderInv, SamePointers
<1> QED BY <1>1, <1>2, <1>3

LEMMA AttributeBuilder ==
  ASSUME WalkInv, BuilderInv, SamePointers, at \in {"name", "location", "post"},
         at' \in {"location", "post", "kids"}, UNCHANGED <<added, die>>,
         at' # "kids" => UNCHANGED <<current_element_type_, m_regged>>
  PROVE  BuilderInv'
<1>1. NewOK /\ Shape /\ DieOK
  BY WalkShape DEF BuilderInv, WalkInv
<1>2. die.id \in DOMAIN tree /\ die.id \in Refs
  BY <1>1, RefsFact DEF DieOK, Shape
<1>3. Own(die.id)' = Own(die.id)
  BY <1>2, SameTypes DEF SamePointers, Own
<1>4. Parent' = Parent /\ Top' = Top /\ Entry' = Entry
  BY DEF Parent, LastOf, Top, Entry, SamePointers
<1>5. Entry \in Refs \cup {Null}
  BY DEF Entry, BuilderInv, PointersOK
<1>6. TypeOf(Entry)' = TypeOf(Entry)
  <2>1. TypeOf(Entry)' = IF Entry' = Null THEN "none" ELSE obj'[Entry'].type
    BY DEF TypeOf
  <2> QED BY <1>4, <1>5, <2>1 DEF TypeOf, SamePointers, SameElements
<1>7. die.tag = "variant" => Own(Parent.id)' = Own(Parent.id)
  <2>1. die.tag = "variant" => path # <<>>
    BY <1>1 DEF DieOK, WalkInv, TreeOK, Elders, Shape
  <2>2. path # <<>> => Parent.id \in Refs
    BY <1>1, RefsFact DEF Shape
  <2>3. path # <<>> => obj'[Parent.id] = NoObj <=> obj[Parent.id] = NoObj
    BY <2>2 DEF SamePointers, SameElements
  <2> QED BY <1>4, <2>1, <2>3 DEF Own
<1>8. NewOK'
  <2>1. /\ die.kids /\ added => back' # Null
        /\ Own(die.id)' # Null => Entry' = die.id
        /\ die.tag = "variant" /\ Own(Parent.id)' # Null => added
    BY <1>1, <1>3, <1>4, <1>7 DEF NewOK, SamePointers
  <2>2. die.tag = "variant_part" =>
          /\ current_element_type_' \in {"none", "variant_type"}
          /\ IF Own(die.id)' = Null
               THEN current_element_type_' = "none" /\ TypeOf(Entry)' # "ns_start"
               ELSE recent_' = Null /\ back' = die.id
    BY <1>1, <1>3, <1>6 DEF NewOK, SamePointers
  <2>3. at' # "kids" /\ m_regged' =>
          /\ current_element_type_' = "ns_start" <=> die.tag = "namespace"
          /\ die.tag = "namespace" => back' = die.id
          /\ die.tag = "formal_parameter" =>
               /\ current_element_type_' = "formal_param"
               /\ m_stack' # <<>> /\ Top' # Null /\ recent_' \in {Null, Top'}
    BY <1>1, <1>4 DEF NewOK, SamePointers
  <2> QED BY <2>1, <2>2, <2>3 DEF NewOK
<1> QED BY <1>8, SamePointersBuilder DEF BuilderInv

LEMMA ReadNameBuilder ==
  ASSUME WalkInv, BuilderInv, ReadName PROVE SamePointers /\ BuilderInv'
<1>1. /\ at = "name" /\ at' = "location"
      /\ UNCHANGED <<m_regged, added, die, tree, path, m_level>>
  BY DEF ReadName
<1>2. /\ named' \in [Refs -> Dies \cup {Null}]
      /\ UNCHANGED <<opt, current_element_type_, listVars, pointerVars, sub_filtered, nsVars, crashed>>
  <2>1. CASE UNCHANGED builderVars
    BY <2>1 DEF builderVars, BuilderInv, PointersOK
  <2>2. CASE HasName(die.tag) /\ SetElementName(die.id)
    <3>1. ~(NameNeedsTop /\ back # Null /\ m_stack # <<>> /\ Top = Null)
      BY <1>1, <2>2 DEF BuilderInv, NewOK
    <3>2. die.id \in Dies
      BY <1>1, WalkShape DEF WalkInv, DieOK, Shape
    <3> QED BY <2>2, <3>1, <3>2 DEF SetElementName, BuilderInv, PointersOK
  <2> QED BY <2>1, <2>2 DEF ReadName
<1>3. SamePointers
  <2>1. SameTree /\ SameElements
    BY <1>1, <1>2, SameTreeIfUnchanged, SameElementsIfUnchanged DEF WalkInv, BuilderInv, listVars
  <2> QED BY <1>1, <1>2, <2>1
       DEF SamePointers, listVars, pointerVars, nsVars, BuilderInv, PointersOK
<1> QED BY <1>1, <1>2, <1>3, AttributeBuilder

LEMMA ReadLocationBuilder ==
  ASSUME WalkInv, BuilderInv, ReadLocation PROVE SamePointers /\ BuilderInv'
<1>1. /\ at = "location" /\ at' = "post"
      /\ UNCHANGED <<m_regged, added, die, tree, path, m_level>>
  BY DEF ReadLocation
<1>2. UNCHANGED builderVars
  <2>1. CASE die.tag = "formal_parameter" /\ m_regged /\ SetLocation
    <3>1. m_stack # <<>> /\ Top # Null /\ recent_ \in {Null, Top}
      BY <1>1, <2>1 DEF BuilderInv, NewOK
    <3>2. m_stack \in Seq(Refs \cup {Null})
      BY DEF BuilderInv, PointersOK
    <3>3. [m_stack EXCEPT ![Len(m_stack)] = Top] = m_stack
      BY <3>1, <3>2 DEF Top, LastOf
    <3>4. crashed' = crashed /\ m_stack' = m_stack
      BY <2>1, <3>1, <3>3 DEF SetLocation, builderVars, pointerVars
    <3> QED BY <2>1, <3>1, <3>4
         DEF SetLocation, builderVars, listVars, pointerVars, nsVars
  <2> QED BY <2>1 DEF ReadLocation
<1>3. SamePointers
  <2>1. SameTree /\ SameElements
    BY <1>1, <1>2, SameTreeIfUnchanged, SameElementsIfUnchanged
       DEF WalkInv, BuilderInv, builderVars, listVars
  <2> QED BY <1>1, <1>2, <2>1
       DEF SamePointers, builderVars, listVars, pointerVars, nsVars, BuilderInv, PointersOK
<1> QED BY <1>1, <1>2, <1>3, AttributeBuilder DEF builderVars

\* What PostProcessTag does to the elements.
LEMMA OpenedNamespace ==
  ASSUME WalkInv, BuilderInv, at = "post", m_regged, OpenNamespace
  PROVE  /\ SameElements /\ die.tag = "namespace" /\ back = die.id /\ back \in Dies
         /\ ns_stack' = Append(ns_stack, die.id)
<1>1. die.tag = "namespace" /\ back = die.id /\ obj[back] # NoObj
  <2>1. die.tag = "namespace" /\ back = die.id
    BY DEF BuilderInv, NewOK, OpenNamespace
  <2>2. die.id # Null
    BY WalkShape DEF WalkInv, DieOK, Shape, Null
  <2> QED BY <2>1, <2>2 DEF BuilderInv, PointersOK
<1>2. back \in Dies /\ back \in Refs /\ back \in DOMAIN tree /\ tree[back].tag = "namespace"
  <2>1. DieOK /\ Shape
    BY WalkShape DEF WalkInv
  <2>2. die.id = Len(tree) /\ die.tag = tree[die.id].tag /\ die.id \in DOMAIN tree
    BY <2>1 DEF DieOK, Shape
  <2> QED BY <1>1, <2>1, <2>2, RefsFact DEF Shape
<1>3. obj[back].type = "ns_start"
  BY <1>1, <1>2 DEF BuilderInv, ElementsOK, TagType
<1>4. obj \in [Refs -> Elements] /\ obj' = [obj EXCEPT ![back].ns = back]
  BY DEF BuilderInv, ElementsOK, OpenNamespace
<1>5. obj[back] \in Elements
  BY <1>2, <1>4
<1>6. [obj[back] EXCEPT !.ns = back] \in Elements
  BY <1>2, <1>5 DEF Elements
<1>7. SameElements
  <2>1. \A r \in Refs : obj'[r] = IF r = back THEN [obj[back] EXCEPT !.ns = back] ELSE obj[r]
    BY <1>2, <1>4
  <2>2. obj' \in [Refs -> Elements]
    BY <1>2, <1>4, <1>6
  <2>3. /\ [obj[back] EXCEPT !.ns = back].type = obj[back].type
        /\ [obj[back] EXCEPT !.ns = back].level = obj[back].level
        /\ [obj[back] EXCEPT !.ns = back].owner = obj[back].owner
    BY <1>5 DEF Elements
  <2>4. [obj[back] EXCEPT !.ns = back] # NoObj
    BY <1>3, <2>3, EmptyObj
  <2> HIDE <1>4
  <2> QED BY <1>1, <1>2, <2>1, <2>2, <2>3, <2>4 DEF SameElements
<1> QED BY <1>1, <1>2, <1>7 DEF OpenNamespace

LEMMA PostProcessBuilder ==
  ASSUME WalkInv, BuilderInv, PostProcess PROVE SamePointers /\ BuilderInv'
<1>1. /\ SameTree /\ at = "post" /\ at' = "kids"
      /\ UNCHANGED <<added, die, path, m_level>>
  BY PostProcessTree DEF PostProcess
<1>2. CASE m_regged /\ OpenNamespace /\ UNCHANGED m_regged
  <2>1. SameElements /\ ns_stack' \in Seq(Dies)
    <3>1. /\ SameElements /\ die.id \in Dies /\ ns_stack \in Seq(Dies)
          /\ ns_stack' = Append(ns_stack, die.id)
      BY <1>1, <1>2, OpenedNamespace DEF BuilderInv, PointersOK
    <3> QED BY <3>1, AppendProperties
  <2>2. SamePointers
    BY <1>1, <1>2, <2>1
       DEF SamePointers, OpenNamespace, pointerVars, BuilderInv, PointersOK
  <2> QED BY <1>1, <2>2, AttributeBuilder
<1>3. CASE UNCHANGED <<m_regged, builderVars>>
  <2>1. SameElements
    BY <1>3, SameElementsIfUnchanged DEF BuilderInv, builderVars, listVars
  <2>2. SamePointers
    BY <1>1, <1>3, <2>1
       DEF SamePointers, builderVars, listVars, pointerVars, nsVars, BuilderInv, PointersOK
  <2> QED BY <1>1, <2>2, AttributeBuilder
<1>4. CASE DropDumped /\ m_regged' = FALSE
  <2>1. SameElements
    BY <1>4, SameElementsIfUnchanged DEF BuilderInv, DropDumped, listVars
  <2>2. SamePointers
    BY <1>1, <1>4, <2>1
       DEF SamePointers, DropDumped, listVars, pointerVars, nsVars, BuilderInv, PointersOK
  <2> QED BY <1>1, <2>2, AttributeBuilder
<1> QED BY <1>2, <1>3, <1>4 DEF PostProcess

LEMMA SkipKidsBuilder ==
  ASSUME WalkInv, BuilderInv, SkipKids PROVE SamePointers /\ BuilderInv'
<1>1. at' = "die" /\ UNCHANGED <<builderVars, m_level, m_regged, tree, path>>
  BY DEF SkipKids, NextDie
<1>2. SameTree /\ SameElements
  BY <1>1, SameTreeIfUnchanged, SameElementsIfUnchanged
     DEF WalkInv, BuilderInv, builderVars, listVars
<1>3. SamePointers
  BY <1>1, <1>2
     DEF SamePointers, builderVars, listVars, pointerVars, nsVars, BuilderInv, PointersOK
<1> QED BY <1>1, <1>3, SamePointersBuilder DEF BuilderInv

\* The entry that is pushed for a DIE with children.
Pushed == IF added THEN Entry ELSE Null

\* add2stack's result: the entry of the DIE that was read is what there is of it.
LongerStack ==
  /\ m_stack' = Append(m_stack, Pushed) /\ Pushed \in Refs \cup {Null}
  /\ Len(m_stack') = Len(path) + 1 /\ m_stack' \in Seq(Refs \cup {Null})
  /\ \A i \in DOMAIN path : m_stack'[i] = m_stack[i]
  /\ m_stack'[Len(path) + 1] = Pushed
  /\ Pushed # Null => obj[Pushed] # NoObj
  /\ added <=> Pushed # Null
  /\ Own(die.id) # Null => Pushed = die.id
  /\ die.tag # "namespace" => TypeOf(Pushed) # "ns_start"
  /\ die.tag = "variant" =>
       IF Own(Parent.id) = Null THEN current_element_type_ = "none" ELSE Pushed = Parent.id
  /\ UNCHANGED <<opt, current_element_type_, listVars, named, recent_, last_var_,
                 sub_filtered, ns_stack, crashed>>
  /\ ns_count' = IF added /\ recent_ = Null /\ TypeOf(back) \in Scopes
                   THEN ns_count + 1 ELSE ns_count

\* A DIE that has children, was made, and has no element, is part of a variant.
LEMMA NoElement ==
  ASSUME WalkInv, BuilderInv, NEW d \in DOMAIN tree, MayHaveKids(tree[d].tag),
         tree[d].made, Own(d) = Null
  PROVE  tree[d].tag \in {"variant_part", "variant"}
<1>1. obj[d] = NoObj
  BY WalkShape DEF Own, Null, Shape
<1>2. ~HasElement(d) /\ tree[d].tag \notin {"compile_unit", "pack", "other"}
  BY <1>1 DEF BuilderInv, ElementsOK
<1> QED BY <1>2, KindsOfParents DEF HasElement, Parents

LEMMA ReadKidsLongerStack == ASSUME WalkInv, BuilderInv, ReadKids PROVE LongerStack
<1>1. /\ DieOK /\ Shape /\ NewOK /\ StackOK /\ die.kids /\ at = "kids"
      /\ PointersOK /\ ElementsOK /\ TopOK /\ LongerPath
  BY WalkShape, TopFacts, ReadKidsLongerPath DEF WalkInv, BuilderInv, ReadKids
<1>2. die.id \in DOMAIN tree /\ die.tag = tree[die.id].tag /\ added = tree[die.id].made
      /\ MayHaveKids(tree[die.id].tag) /\ die.id \in Refs
  BY <1>1, RefsFact DEF DieOK, Shape, LongerPath
<1>3. Entry \in Refs \cup {Null} /\ (back # Null => Entry # Null /\ obj[Entry] # NoObj)
  <2>1. recent_ # Null => obj[recent_] # NoObj
    BY <1>1, EmptyObj DEF PointersOK, TypeOf, FunctionTypes
  <2> QED BY <1>1, <2>1 DEF PointersOK, Entry
<1>4. added => back # Null
  BY <1>1 DEF NewOK
<1>5. /\ m_stack' = Append(m_stack, Pushed)
      /\ ns_count' = IF added /\ recent_ = Null /\ TypeOf(back) \in Scopes
                       THEN ns_count + 1 ELSE ns_count
      /\ UNCHANGED <<opt, current_element_type_, listVars, named, recent_, last_var_,
                     sub_filtered, ns_stack, crashed>>
  BY <1>4 DEF ReadKids, add2stack, Pushed, Entry
<1>6. Pushed \in Refs \cup {Null} /\ (Pushed # Null => obj[Pushed] # NoObj)
      /\ (added <=> Pushed # Null)
  BY <1>3, <1>4 DEF Pushed
<1>7. Own(die.id) # Null => Pushed = die.id
  <2>1. ASSUME Own(die.id) # Null PROVE added
    <3>1. obj[die.id] # NoObj
      BY <2>1 DEF Own
    <3> QED BY <1>1, <1>2, <3>1 DEF ElementsOK
  <2> QED BY <1>1, <2>1 DEF NewOK, Pushed
<1>8. ASSUME die.tag = "variant"
      PROVE  /\ path # <<>> /\ Parent.tag = "variant_part"
             /\ IF Own(Parent.id) = Null THEN current_element_type_ = "none"
                                         ELSE Pushed = Parent.id
             /\ TypeOf(Pushed) # "ns_start"
  <2>1. path # <<>>
    BY <1>1, <1>2, <1>8 DEF DieOK, WalkInv, TreeOK, Elders, Shape
  <2>2. Parent.tag = "variant_part"
    BY <1>1, <1>8, <2>1, KindsOfChildren DEF DieOK, Shape
  <2>3. CASE Own(Parent.id) = Null
    <3>1. current_element_type_ = "none"
      BY <1>1, <2>1, <2>2, <2>3 DEF TopOK
    <3>2. ASSUME added PROVE TypeOf(Entry) # "ns_start"
      <4>1. CASE recent_ # Null
        BY <1>1, <4>1 DEF PointersOK, FunctionTypes, Entry
      <4>2. CASE recent_ = Null
        <5>1. PICK i \in DOMAIN path : path[i].tag = "structure_type"
          <6>1. Len(path) \in DOMAIN path /\ Parent = path[Len(path)]
            BY <1>1, <2>1 DEF Shape
          <6>2. Len(path) # 1
            BY <1>1, <2>2, <6>1 DEF WalkInv, PathOK, TreeOK, Elders
          <6>3. Len(path) - 1 \in DOMAIN path
            BY <6>1, <6>2, PathStep
          <6>4. path[Len(path)].tag \in ChildTags[path[Len(path) - 1].tag]
            BY <6>1, <6>2 DEF WalkInv, PathOK
          <6>5. path[Len(path) - 1].tag \in Parents
            BY <6>3, PathStep
          <6>6. path[Len(path) - 1].tag = "structure_type"
            BY <2>2, <6>1, <6>4, <6>5, KindsOfChildren
          <6> QED BY <6>3, <6>6
        <5>2. ClassOK(i) /\ back # Null
          BY <1>1, <1>4, <3>2 DEF StackOK
        <5>3. back \in Dies /\ back >= path[i].id /\ back \in Refs /\ obj[back] # NoObj
          BY <1>1, <5>1, <5>2, RefsFact DEF ClassOK, PointersOK
        <5>4. back \in DOMAIN tree /\ TagType(tree[back].tag, obj[back].type)
          BY <1>1, <5>3 DEF ElementsOK
        <5>5. tree[back].tag # "namespace"
          BY <5>1, <5>2, <5>3, <5>4 DEF ClassOK
        <5>6. obj[back].type # "ns_start"
          BY <5>4, <5>5 DEF TagType
        <5> QED BY <4>2, <5>2, <5>6 DEF Entry, TypeOf
      <4> QED BY <4>1, <4>2
    <3>3. TypeOf(Pushed) # "ns_start"
      BY <3>2 DEF Pushed, TypeOf
    <3> QED BY <2>1, <2>2, <2>3, <3>1, <3>3
  <2>4. CASE Own(Parent.id) # Null
    <3>1. recent_ = Null /\ back = Parent.id
      BY <1>1, <2>1, <2>2, <2>4 DEF TopOK
    <3>2. added
      BY <1>1, <1>8, <2>4 DEF NewOK
    <3>3. Pushed = Parent.id
      BY <3>1, <3>2 DEF Pushed, Entry
    <3>4. Parent.id \in DOMAIN tree /\ Parent.id \in Refs /\ tree[Parent.id].tag = "variant_part"
      BY <1>1, <2>1, <2>2, RefsFact DEF Shape
    <3>5. obj[Parent.id] # NoObj
      BY <2>4 DEF Own
    <3>6. obj[Parent.id].type = "variant_type"
      BY <1>1, <3>4, <3>5 DEF ElementsOK, TagType
    <3>7. TypeOf(Pushed) # "ns_start"
      BY <3>3, <3>6 DEF TypeOf
    <3> QED BY <2>1, <2>2, <2>4, <3>3, <3>7
  <2> QED BY <2>3, <2>4
<1>9. die.tag # "namespace" => TypeOf(Pushed) # "ns_start"
  <2>1. CASE ~added
    BY <2>1 DEF Pushed, TypeOf
  <2>2. CASE Own(die.id) # Null
    <3>1. Pushed = die.id /\ obj[die.id] # NoObj /\ die.id # Null
      BY <1>7, <2>2 DEF Own
    <3>2. TagType(die.tag, obj[die.id].type)
      BY <1>1, <1>2, <3>1 DEF ElementsOK
    <3> QED BY <3>1, <3>2 DEF TagType, TypeOf
  <2>3. CASE added /\ Own(die.id) = Null
    <3>1. die.tag \in {"variant_part", "variant"}
      BY <1>2, <2>3, NoElement
    <3>2. die.tag = "variant_part" => TypeOf(Entry) # "ns_start"
      BY <1>1, <2>3 DEF NewOK
    <3> QED BY <1>8, <2>3, <3>1, <3>2 DEF Pushed
  <2> QED BY <2>1, <2>2, <2>3
<1>10. /\ Len(m_stack') = Len(path) + 1 /\ m_stack' \in Seq(Refs \cup {Null})
       /\ \A i \in DOMAIN path : m_stack'[i] = m_stack[i]
       /\ m_stack'[Len(path) + 1] = Pushed
  <2>1. m_stack \in Seq(Refs \cup {Null}) /\ Len(m_stack) = Len(path)
    BY <1>1 DEF PointersOK, StackOK
  <2> QED BY <1>1, <1>5, <1>6, <2>1, AppendProperties DEF Shape
<1> QED BY <1>5, <1>6, <1>7, <1>8, <1>9, <1>10 DEF LongerStack

LEMMA ReadKidsBuilder == ASSUME WalkInv, BuilderInv, ReadKids PROVE BuilderInv'
<1>1. /\ DieOK /\ Shape /\ NewOK /\ StackOK /\ PointersOK /\ ElementsOK
      /\ LongerPath /\ LongerStack
  BY WalkShape, ReadKidsLongerPath, ReadKidsLongerStack DEF WalkInv, BuilderInv, ReadKids
<1>2. /\ at' = "die" /\ UNCHANGED <<tree, m_regged, obj, parts, back, recent_>>
      /\ m_level' = m_level + 1
  BY <1>1 DEF ReadKids, NextDie, LongerStack, listVars
<1>3. ElementsOK'
  BY <1>1, <1>2 DEF ElementsOK, HasElement
<1>4. PointersOK'
  <2>1. ASSUME NEW i \in DOMAIN m_stack', m_stack'[i] # Null PROVE obj'[m_stack'[i]] # NoObj
    <3>1. i \in DOMAIN path \/ i = Len(path) + 1
      BY <1>1 DEF LongerStack, Shape
    <3>2. CASE i \in DOMAIN path
      <4>1. i \in DOMAIN m_stack /\ m_stack'[i] = m_stack[i]
        BY <1>1, <3>2 DEF LongerStack, StackOK, PointersOK, Shape
      <4> QED BY <1>1, <1>2, <2>1, <4>1 DEF PointersOK
    <3>3. CASE i = Len(path) + 1
      BY <1>1, <1>2, <2>1, <3>3 DEF LongerStack
    <3> QED BY <3>1, <3>2, <3>3
  <2>2. ns_count' \in Int
    BY <1>1 DEF LongerStack, PointersOK
  <2> QED BY <1>1, <1>2, <2>1, <2>2 DEF PointersOK, LongerStack, TypeOf, listVars
<1>5. ASSUME NEW i \in DOMAIN path PROVE EntryOK(i)' /\ ClassOK(i)' /\ ParamsOK(i)'
  <2>1. EntryOK(i) /\ ClassOK(i) /\ ParamsOK(i)
    BY <1>1 DEF StackOK
  <2>2. path'[i] = path[i] /\ m_stack'[i] = m_stack[i] /\ TypeOf(m_stack[i])' = TypeOf(m_stack[i])
        /\ Own(path[i].id)' = Own(path[i].id)
    BY <1>1, <1>2 DEF LongerPath, LongerStack, TypeOf, Own
  <2>3. path[i].tag = "variant" => path'[i - 1] = path[i - 1]
                                   /\ Own(path[i - 1].id)' = Own(path[i - 1].id)
    <3>1. ASSUME path[i].tag = "variant" PROVE path'[i - 1] = path[i - 1]
      <4>1. i - 1 \in DOMAIN path
        BY <3>1, PathStep
      <4> QED BY <1>1, <4>1 DEF LongerPath
    <3> QED BY <1>2, <3>1 DEF Own
  <2>4. EntryOK(i)'
    BY <1>1, <1>2, <2>1, <2>2, <2>3 DEF EntryOK, LongerStack
  <2>5. ClassOK(i)'
    BY <1>2, <2>1, <2>2 DEF ClassOK
  <2>6. ParamsOK(i)'
    <3>1. OnlyParams(path[i].id)' <=> OnlyParams(path[i].id)
      BY <1>2, <2>2 DEF OnlyParams
    <3> QED BY <1>2, <2>1, <2>2, <3>1 DEF ParamsOK
  <2> QED BY <2>4, <2>5, <2>6
<1>6. ASSUME NEW i, i = Len(path) + 1 PROVE EntryOK(i)' /\ ClassOK(i)' /\ ParamsOK(i)'
  <2>0. PICK d, q, e, tag : d = die.id /\ q = Parent.id /\ e = Pushed /\ tag = die.tag
    OBVIOUS
  <2>1. /\ path'[i] = die /\ m_stack'[i] = e /\ e \in Refs \cup {Null}
        /\ TypeOf(e)' = TypeOf(e) /\ Own(d)' = Own(d) /\ Own(q)' = Own(q)
    BY <1>1, <1>2, <1>6, <2>0 DEF LongerPath, LongerStack, TypeOf, Own
  <2>2. d = Len(tree) /\ d \in DOMAIN tree /\ added = tree[d].made
        /\ tag = tree[d].tag /\ d \in Dies /\ d \in Refs
    BY <1>1, <2>0, RefsFact DEF DieOK, LongerPath, Shape
  <2>3. tag = "variant" => path'[i - 1].id = q
    <3>1. ASSUME tag = "variant" PROVE path'[i - 1] = Parent
      <4>1. path # <<>>
        BY <1>1, <2>0, <2>2, <3>1 DEF DieOK, WalkInv, TreeOK, Elders, Shape
      <4>2. Len(path) \in DOMAIN path /\ i - 1 = Len(path) /\ Parent = path[Len(path)]
        BY <1>1, <1>6, <4>1 DEF Shape
      <4> QED BY <1>1, <4>2 DEF LongerPath
    <3> QED BY <2>0, <3>1
  <2>4. EntryOK(i)'
    <3>0. current_element_type_' = current_element_type_
      BY <1>1 DEF LongerStack
    <3>1. tag = "variant" =>
            IF Own(q)' = Null THEN current_element_type_' = "none" ELSE e = q
      BY <1>1, <2>0, <2>1, <3>0 DEF LongerStack
    <3>2. tag = "variant_part" =>
            /\ current_element_type_' \in {"none", "variant_type", "member"}
            /\ IF Own(d)' = Null THEN current_element_type_' = "none"
                                 ELSE recent_' = Null /\ back' = d
      BY <1>1, <1>2, <2>0, <2>1, <3>0 DEF NewOK, ReadKids
    <3>3. /\ tree'[d].made <=> e # Null
          /\ Own(d)' # Null => e = d
          /\ tag # "namespace" => TypeOf(e)' # "ns_start"
      BY <1>1, <1>2, <2>0, <2>1, <2>2 DEF LongerStack
    <3>4. path'[i].tag = tag /\ path'[i].id = d
      BY <2>0, <2>1
    <3> QED BY <2>1, <2>3, <3>1, <3>2, <3>3, <3>4 DEF EntryOK
  <2>5. ClassOK(i)'
    <3>1. ASSUME tag = "structure_type" PROVE back = d
      <4>1. HasElement(d)
        BY <2>2, <3>1 DEF HasElement
      <4>2. obj[d] # NoObj /\ d # Null
        BY <1>1, <2>2, <4>1, RefsFact DEF ElementsOK
      <4>3. Entry = d /\ obj[d].type = "structure_type"
        BY <1>1, <2>0, <2>2, <3>1, <4>2 DEF NewOK, Own, ElementsOK, TagType
      <4>4. recent_ = Null
        BY <1>1, <4>3 DEF Entry, PointersOK, TypeOf, FunctionTypes
      <4> QED BY <4>3, <4>4 DEF Entry
    <3>2. \A k \in DOMAIN tree : k >= d => k = d
      BY <1>1, <2>2 DEF Shape
    <3>3. path'[i].tag = tag /\ path'[i].id = d
      BY <2>0, <2>1
    <3>4. d \in Nat /\ d >= d
      BY <1>1, <2>2 DEF Shape
    <3>5. tag = "structure_type" =>
            /\ back \in Dies /\ back >= d
            /\ \A k \in DOMAIN tree : k >= d => tree[k].tag # "namespace"
      BY <2>2, <3>1, <3>2, <3>4
    <3> QED BY <1>2, <3>3, <3>5 DEF ClassOK
  <2>6. ParamsOK(i)'
    <3>1. ~added => ~m_regged
      BY <1>1 DEF DieOK
    <3>2. ASSUME tag \in {"subprogram", "subroutine_type"}, added
          PROVE  recent_ \in {Null, d}
      <4>1. HasElement(d)
        BY <2>2, <3>2 DEF HasElement
      <4>2. obj[d] # NoObj /\ d # Null
        BY <1>1, <2>2, <4>1, RefsFact DEF ElementsOK
      <4> QED BY <1>1, <2>0, <4>2 DEF NewOK, Own, Entry
    <3>3. path'[i].tag = tag /\ path'[i].id = d
      BY <2>0, <2>1
    <3> QED BY <1>2, <2>2, <3>1, <3>2, <3>3 DEF ParamsOK
  <2> QED BY <2>4, <2>5, <2>6
<1>7. StackOK'
  <2>1. m_level' = Len(path') /\ Len(m_stack') = Len(path')
    BY <1>1, <1>2 DEF LongerPath, LongerStack, StackOK
  <2>2. \A i \in DOMAIN path' : i \in DOMAIN path \/ i = Len(path) + 1
    BY <1>1 DEF LongerPath, Shape
  <2> QED BY <1>5, <1>6, <2>1, <2>2 DEF StackOK
<1> QED BY <1>2, <1>3, <1>4, <1>7 DEF BuilderInv

\* pop_stack's result: the entry of the DIE whose children end is gone, and a
\* namespace is closed by an element of its own.
ShorterStack ==
  /\ Len(m_stack') = Len(path) - 1 /\ m_stack' \in Seq(Refs \cup {Null})
  /\ DOMAIN m_stack' = DOMAIN path'
  /\ \A i \in DOMAIN path' : m_stack'[i] = m_stack[i]
  /\ Top \in Refs \cup {Null} /\ Top = m_stack[Len(path)]
  /\ recent_' = Null
  /\ ns_count' = IF TypeOf(Top) \in Scopes THEN ns_count - 1 ELSE ns_count
  /\ UNCHANGED <<opt, current_element_type_, parts, last_var_, sub_filtered, crashed>>

Closed ==
  /\ Parent.tag = "namespace" /\ Top \in DOMAIN tree /\ Top \in Dies
  /\ NsEnd(Top) \in Refs \ Dies /\ Top < NsEnd(Top)
  /\ obj' = [obj EXCEPT ![NsEnd(Top)] = Element("ns_end", obj[Top].level, Top)]
  /\ Element("ns_end", obj[Top].level, Top) \in Elements
  /\ back' = NsEnd(Top)
  /\ named' = [named EXCEPT ![NsEnd(Top)] = named[Top]]
  /\ ns_stack' = IF ns_stack = <<>> THEN <<>> ELSE AllButLast(ns_stack)

LEMMA EndOfKidsShorterStack ==
  ASSUME WalkInv, BuilderInv, EndOfKids
  PROVE  ShorterStack /\ IF TypeOf(Top) = "ns_start" THEN Closed
                                                    ELSE UNCHANGED <<obj, back, named, ns_stack>>
<1>1. Shape /\ TopOK /\ ShorterPath /\ path # <<>> /\ PointersOK /\ StackOK /\ ElementsOK
  BY WalkShape, TopFacts, ShorterPathByOne DEF EndOfKids, BuilderInv
<1>2. m_stack # <<>> /\ m_stack \in Seq(Refs \cup {Null}) /\ Len(m_stack) = Len(path) /\ m_level > 0
  BY <1>1 DEF TopOK, PointersOK, StackOK, Shape
<1>3. pop_stack
  BY <1>2 DEF EndOfKids
<1>4. /\ m_stack' = AllButLast(m_stack) /\ recent_' = Null
      /\ ns_count' = IF TypeOf(Top) \in Scopes THEN ns_count - 1 ELSE ns_count
      /\ IF TypeOf(Top) = "ns_start"
           THEN /\ obj' = [obj EXCEPT ![NsEnd(Top)] = Element("ns_end", obj[Top].level, Top)]
                /\ back' = NsEnd(Top)
                /\ named' = [named EXCEPT ![NsEnd(Top)] = named[Top]]
                /\ ns_stack' = IF ns_stack = <<>> THEN <<>> ELSE AllButLast(ns_stack)
           ELSE UNCHANGED <<obj, back, named, ns_stack>>
      /\ UNCHANGED <<opt, current_element_type_, parts, last_var_, sub_filtered, crashed>>
  BY <1>2, <1>3 DEF pop_stack, TypeOf
<1>5. ShorterStack
  <2>1. /\ m_stack' \in Seq(Refs \cup {Null}) /\ Len(m_stack') = Len(path) - 1
        /\ DOMAIN m_stack' = 1 .. Len(path) - 1
        /\ \A i \in 1 .. Len(path) - 1 : m_stack'[i] = m_stack[i]
    BY <1>2, <1>4, AllButLastFacts
  <2>2. DOMAIN path' = 1 .. Len(path) - 1
    BY <1>1 DEF ShorterPath
  <2>3. Top \in Refs \cup {Null} /\ Top = m_stack[Len(path)]
    BY <1>1 DEF TopOK
  <2> QED BY <1>4, <2>1, <2>2, <2>3 DEF ShorterStack
<1>6. ASSUME TypeOf(Top) = "ns_start" PROVE Closed
  <2>1. Top # Null /\ Top \in Refs /\ obj[Top].type = "ns_start"
    BY <1>1, <1>6 DEF TypeOf, TopOK
  <2>2. obj[Top] # NoObj
    BY <2>1, EmptyObj
  <2>3. Top \in DOMAIN tree
    BY <1>1, <2>1, <2>2 DEF ElementsOK
  <2>4. Top \in Dies /\ NsEnd(Top) \in Refs \ Dies /\ Top < NsEnd(Top)
    BY <1>1, <2>3, MaxDiesAssumption, RefsFact DEF Shape, NsEnd, Dies
  <2>5. Parent.tag = "namespace"
    <3>1. EntryOK(Len(path)) /\ Parent = path[Len(path)] /\ Top = m_stack[Len(path)]
      BY <1>1 DEF StackOK, Shape, TopOK
    <3> QED BY <1>6, <3>1 DEF EntryOK
  <2>6. Element("ns_end", obj[Top].level, Top) \in Elements
    <3>1. obj[Top] \in Elements
      BY <1>1, <2>1 DEF ElementsOK
    <3>2. obj[Top].level \in Int
      BY <3>1 DEF Elements
    <3>3. top_ns \in Refs \cup {Null}
      BY <1>1, ElementOfSeq, RefsFact DEF PointersOK, top_ns, LastOf
    <3> QED BY <2>1, <3>2, <3>3 DEF Element, Elements, ElementTypes
  <2> QED BY <1>4, <1>6, <2>3, <2>4, <2>5, <2>6 DEF Closed
<1> QED BY <1>4, <1>5, <1>6

\* The elements after the end of a DIE's children.
LEMMA EndOfKidsElements ==
  ASSUME WalkInv, BuilderInv, EndOfKids
  PROVE  /\ obj' \in [Refs -> Elements]
         /\ \A r \in Refs : r \in Dies \/ obj[r] # NoObj => obj'[r] = obj[r] \/ obj'[r].type = "ns_end"
         /\ \A r \in Dies : obj'[r] = obj[r]
         /\ \A r \in Refs : obj'[r] # obj[r] =>
              obj'[r].type = "ns_end" /\ r \notin Dies /\ obj'[r].owner < r
         /\ \A r \in Refs : obj[r] # NoObj => obj'[r] # NoObj
         /\ IF back' = Null THEN \A r \in Refs : obj'[r] = NoObj ELSE obj'[back'] # NoObj
         /\ back' \in Refs \cup {Null} /\ named' \in [Refs -> Dies \cup {Null}]
         /\ ns_stack' \in Seq(Dies)
<1>1. ElementsOK /\ PointersOK /\ ShorterStack
  BY EndOfKidsShorterStack DEF BuilderInv
<1>2. CASE UNCHANGED <<obj, back, named, ns_stack>>
  BY <1>1, <1>2 DEF ElementsOK, PointersOK
<1>3. CASE Closed
  <2> DEFINE new == Element("ns_end", obj[Top].level, Top)
  <2>1. new.type = "ns_end" /\ new.owner = Top /\ new \in Elements /\ new # NoObj
    BY <1>3, EmptyObj DEF Element, Closed
  <2>2. \A r \in Refs : obj'[r] = IF r = NsEnd(Top) THEN new ELSE obj[r]
    BY <1>1, <1>3 DEF Closed, ElementsOK
  <2>3. obj' \in [Refs -> Elements] /\ named' \in [Refs -> Dies \cup {Null}]
    BY <1>1, <1>3, RefsFact, <2>1 DEF Closed, ElementsOK, PointersOK
  <2>4. ns_stack' \in Seq(Dies)
    BY <1>1, <1>3, AllButLastFacts DEF Closed, PointersOK
  <2>5. NsEnd(Top) \in Refs \ Dies /\ Top < NsEnd(Top) /\ back' = NsEnd(Top) /\ NsEnd(Top) # Null
    BY <1>3, RefsFact DEF Closed
  <2>6. Dies \subseteq Refs
    BY RefsFact
  <2> HIDE DEF new
  <2> QED BY <2>1, <2>2, <2>3, <2>4, <2>5, <2>6
<1> QED BY <1>2, <1>3, EndOfKidsShorterStack

LEMMA EndOfKidsBuilder == ASSUME WalkInv, BuilderInv, EndOfKids PROVE BuilderInv'
<1>1. Shape /\ ShorterPath /\ ShorterStack /\ PointersOK /\ StackOK /\ ElementsOK /\ path # <<>>
  BY WalkShape, EndOfKidsShorterStack, ShorterPathByOne DEF EndOfKids, BuilderInv
<1>2. at' = "die" /\ UNCHANGED <<tree, m_regged>> /\ m_level' = m_level - 1
  BY <1>1 DEF EndOfKids, StackOK, Shape
<1>3. /\ obj' \in [Refs -> Elements]
      /\ \A r \in Dies : obj'[r] = obj[r]
      /\ \A r \in Refs : obj'[r] # obj[r] =>
           obj'[r].type = "ns_end" /\ r \notin Dies /\ obj'[r].owner < r
      /\ \A r \in Refs : obj[r] # NoObj => obj'[r] # NoObj
      /\ IF back' = Null THEN \A r \in Refs : obj'[r] = NoObj ELSE obj'[back'] # NoObj
      /\ back' \in Refs \cup {Null} /\ named' \in [Refs -> Dies \cup {Null}]
      /\ ns_stack' \in Seq(Dies)
  BY EndOfKidsElements
<1>4. DOMAIN tree \subseteq Dies /\ Dies \subseteq Refs /\ Null \notin Refs
  BY <1>1, RefsFact DEF Shape
<1>5. ElementsOK'
  <2>1. ASSUME NEW r \in Refs
        PROVE  /\ obj'[r].owner < r
               /\ obj'[r] # NoObj =>
                    IF r \in DOMAIN tree' THEN tree'[r].made /\ TagType(tree'[r].tag, obj'[r].type)
                                          ELSE r \notin Dies /\ obj'[r].type = "ns_end"
    <3>1. CASE obj'[r] = obj[r]
      BY <1>1, <1>2, <3>1 DEF ElementsOK
    <3>2. CASE obj'[r] # obj[r]
      BY <1>2, <1>3, <1>4, <3>2
    <3> QED BY <3>1, <3>2
  <2>2. ASSUME NEW d \in DOMAIN tree'
        PROVE  /\ HasElement(d)' => obj'[d] # NoObj
               /\ tree'[d].tag \in {"compile_unit", "pack", "other"} => ~tree'[d].made
               /\ tree'[d].tag = "variant_part" => tree'[d].made
    BY <1>1, <1>2, <1>3, <1>4 DEF ElementsOK, HasElement
  <2> QED BY <1>3, <2>1, <2>2 DEF ElementsOK
<1>6. PointersOK'
  <2>1. ASSUME NEW i \in DOMAIN m_stack', m_stack'[i] # Null PROVE obj'[m_stack'[i]] # NoObj
    <3>1. i \in DOMAIN m_stack /\ m_stack'[i] = m_stack[i]
      BY <1>1 DEF ShorterStack, ShorterPath, StackOK, PointersOK, Shape
    <3>2. m_stack[i] \in Refs /\ obj[m_stack[i]] # NoObj
      BY <1>1, <2>1, <3>1, ElementOfSeq DEF PointersOK
    <3> QED BY <1>3, <3>1, <3>2
  <2>2. ns_count' \in Int
    BY <1>1 DEF ShorterStack, PointersOK
  <2> QED BY <1>1, <1>3, <2>1, <2>2 DEF PointersOK, ShorterStack
<1>7. ASSUME NEW i \in DOMAIN path' PROVE EntryOK(i)' /\ ClassOK(i)' /\ ParamsOK(i)'
  <2>1. EntryOK(i) /\ ClassOK(i) /\ ParamsOK(i) /\ i \in DOMAIN path
    BY <1>1 DEF StackOK, ShorterPath
  <2>2. path'[i] = path[i] /\ m_stack'[i] = m_stack[i] /\ path[i].id \in Dies
    BY <1>1, <2>1, PathStep DEF ShorterPath, ShorterStack, Shape
  <2>3. Own(path[i].id)' = Own(path[i].id)
    BY <1>3, <2>2 DEF Own
  <2>4. m_stack[i] \in Refs \cup {Null} /\ (TypeOf(m_stack[i])' = "ns_start" => TypeOf(m_stack[i]) = "ns_start")
    <3>1. i \in DOMAIN m_stack
      BY <1>1, <2>1 DEF PointersOK, StackOK, Shape
    <3>2. m_stack[i] \in Refs \cup {Null}
      BY <1>1, <3>1, ElementOfSeq DEF PointersOK
    <3> QED BY <1>3, <2>2, <3>2 DEF TypeOf
  <2>5. i < Len(path) /\ i # Len(path)
    BY <1>1 DEF ShorterPath, Shape
  <2>6. path[i].tag \in {"structure_type", "variant_part", "variant"} => Parent.tag # "namespace"
    <3>1. path[i].tag = "structure_type" => Parent.tag # "namespace"
      <4>1. Parent.id \in DOMAIN tree /\ Parent.tag = tree[Parent.id].tag /\ path[i].id <= Parent.id
            /\ path[i].id \in Nat /\ Parent.id \in Nat
        BY <1>1, <2>1, PathStep DEF Shape
      <4> QED BY <2>1, <4>1 DEF ClassOK
    <3>2. path[i].tag \in {"variant_part", "variant"} => Parent.tag # "namespace"
      BY <2>1, VariantsAreNear
    <3> QED BY <3>1, <3>2
  <2>7. path[i].tag \in {"structure_type", "variant_part", "variant"} => back' = back
    BY <2>6, EndOfKidsShorterStack DEF Closed
  <2>8. path[i].tag = "variant" => path'[i - 1] = path[i - 1]
                                   /\ Own(path[i - 1].id)' = Own(path[i - 1].id)
    BY <2>1, <2>5, VariantsAreNear
  <2>9. EntryOK(i)'
    BY <1>1, <1>2, <2>1, <2>2, <2>3, <2>4, <2>7, <2>8 DEF EntryOK, ShorterStack
  <2>10. ClassOK(i)'
    BY <1>2, <2>1, <2>2, <2>7 DEF ClassOK
  <2>11. ParamsOK(i)'
    <3>1. OnlyParams(path[i].id)' <=> OnlyParams(path[i].id)
      BY <1>2, <2>2 DEF OnlyParams
    <3> QED BY <1>1, <1>2, <2>1, <2>2, <3>1 DEF ParamsOK, ShorterStack
  <2> QED BY <2>9, <2>10, <2>11
<1>8. StackOK'
  <2>1. m_level' = Len(path') /\ Len(m_stack') = Len(path')
    BY <1>1, <1>2 DEF ShorterPath, ShorterStack, StackOK
  <2> QED BY <1>7, <2>1 DEF StackOK
<1> QED BY <1>2, <1>5, <1>6, <1>8 DEF BuilderInv

\* A unit that is over, and the beginning, have no tree and no elements.
NothingRead ==
  /\ tree = <<>> /\ path = <<>> /\ m_stack = <<>> /\ m_level = 0 /\ at = "die"
  /\ back = Null /\ recent_ = Null /\ ns_count = 0
  /\ obj = [r \in Refs |-> NoObj] /\ parts = [r \in Refs |-> <<>>]
  /\ named = [r \in Refs |-> Null]

LEMMA NothingReadBuilder ==
  ASSUME NothingRead, opt \subseteq Options, current_element_type_ \in ElementTypes,
         ns_stack \in Seq(Dies), last_var_ \in Refs \cup {Null}, sub_filtered \in BOOLEAN, ~crashed
  PROVE  BuilderInv
<1>1. ElementsOK
  BY EmptyObj, RefsFact DEF NothingRead, ElementsOK, Null
<1>2. PointersOK
  BY DEF NothingRead, PointersOK, Null
<1>3. StackOK
  BY DEF NothingRead, StackOK
<1> QED BY <1>1, <1>2, <1>3 DEF BuilderInv, NothingRead

LEMMA InitNothing == Init => NothingRead /\ ns_stack = <<>>
  BY DEF Init, BuilderInit, NothingRead

LEMMA EndOfUnitNothing == EndOfUnit => NothingRead'
  BY DEF EndOfUnit, ProcessUnit, NothingRead

LEMMA BuilderInvInit == Init => BuilderInv
<1> SUFFICES ASSUME Init PROVE BuilderInv
  OBVIOUS
<1>1. NothingRead /\ ns_stack = <<>>
  BY InitNothing
<1>2. opt \subseteq Options /\ current_element_type_ \in ElementTypes
      /\ last_var_ \in Refs \cup {Null} /\ sub_filtered \in BOOLEAN /\ ~crashed
  BY DEF Init, BuilderInit, ElementTypes
<1> QED BY <1>1, <1>2, NothingReadBuilder

LEMMA EndOfUnitBuilder == ASSUME BuilderInv, EndOfUnit PROVE BuilderInv'
<1>1. NothingRead'
  BY EndOfUnitNothing
<1>2. /\ (opt \subseteq Options)' /\ (current_element_type_ \in ElementTypes)'
      /\ (ns_stack \in Seq(Dies))' /\ (last_var_ \in Refs \cup {Null})'
      /\ (sub_filtered \in BOOLEAN)' /\ (~crashed)'
  BY DEF EndOfUnit, ProcessUnit, BuilderInv, PointersOK
<1>3. ElementsOK'
  BY <1>1, EmptyObj, RefsFact DEF NothingRead, ElementsOK, Null
<1>4. PointersOK'
  BY <1>1, <1>2 DEF NothingRead, PointersOK, Null
<1>5. StackOK'
  BY <1>1 DEF NothingRead, StackOK
<1> QED BY <1>1, <1>3, <1>4, <1>5 DEF BuilderInv, NothingRead

LEMMA BuilderInvNext == WalkInv /\ BuilderInv /\ [Next]_allVars => BuilderInv'
<1> SUFFICES ASSUME WalkInv, BuilderInv, [Next]_allVars PROVE BuilderInv'
  OBVIOUS
<1>1. ASSUME NEW tag, NEW kids \in BOOLEAN, ReadDie(tag, kids) PROVE BuilderInv'
  BY <1>1, ReadDieIsNewDie, ReadDieBuilder
<1>2. CASE UNCHANGED allVars
  <2>1. UNCHANGED <<opt, current_element_type_, back, obj, parts, named, m_stack, recent_,
                    last_var_, sub_filtered, ns_count, ns_stack, crashed, m_level, m_regged,
                    added, at, die, tree, path>>
    BY <1>2 DEF allVars, walkVars, builderVars, listVars, pointerVars, nsVars
  <2>2. ElementsOK' /\ PointersOK'
    BY <2>1 DEF BuilderInv, ElementsOK, HasElement, PointersOK, TypeOf
  <2>3. StackOK'
    BY <2>1 DEF BuilderInv, StackOK, EntryOK, ClassOK, ParamsOK, OnlyParams, Own, TypeOf
  <2>4. NewOK' <=> NewOK
    BY <2>1 DEF NewOK, Own, TypeOf, Entry, Parent, LastOf, Top, NameNeedsTop
  <2> QED BY <2>1, <2>2, <2>3, <2>4 DEF BuilderInv
<1> QED BY <1>1, <1>2, ReadNameBuilder, ReadLocationBuilder, PostProcessBuilder, SkipKidsBuilder,
           ReadKidsBuilder, EndOfKidsBuilder, EndOfUnitBuilder DEF Next

-----------------------------------------------------------------------------
(***************************************************************************)
(* The builder's count of scopes, and the level of an element.             *)
(***************************************************************************)
LEMMA ScopeEntriesFinite ==
  ASSUME WalkInv, BuilderInv
  PROVE  /\ DOMAIN m_stack = DOMAIN path /\ ScopeEntries \subseteq 1 .. Len(path)
         /\ IsFiniteSet(ScopeEntries) /\ Cardinality(ScopeEntries) \in Nat
<1>1. DOMAIN m_stack = DOMAIN path /\ DOMAIN path = 1 .. Len(path) /\ Len(path) \in Int
  BY WalkShape DEF BuilderInv, StackOK, PointersOK, Shape
<1>2. ScopeEntries \subseteq 1 .. Len(path)
  BY <1>1 DEF ScopeEntries
<1>3. IsFiniteSet(1 .. Len(path))
  BY <1>1, FS_Interval
<1> QED BY <1>1, <1>2, <1>3, FS_Subset, FS_CardinalityType

\* Where the scopes among the entries are those among the DIEs of the path, the
\* depth of what is read now is the length of the path without them.
LEMMA ScopesOfPath ==
  ASSUME WalkInv, BuilderInv,
         \A i \in DOMAIN path : TypeOf(m_stack[i]) \in Scopes <=> TypeOf(path[i].id) \in Scopes
  PROVE  /\ Cardinality(ScopeEntries) = Cardinality({d \in OnPath : TypeOf(d) \in Scopes})
         /\ Cardinality({d \in OnPath : TypeOf(d) \notin Scopes})
              = Len(path) - Cardinality(ScopeEntries)
<1> DEFINE S == {d \in OnPath : TypeOf(d) \in Scopes}
           Rest == {d \in OnPath : TypeOf(d) \notin Scopes}
           E == ScopeEntries
           F == DOMAIN path \ ScopeEntries
<1>1. DOMAIN path = 1 .. Len(path) /\ Len(path) \in Nat /\ DOMAIN m_stack = DOMAIN path
      /\ IsFiniteSet(E) /\ Cardinality(E) \in Nat /\ E \subseteq DOMAIN path
  BY WalkShape, ScopeEntriesFinite DEF Shape
<1>2. IsFiniteSet(DOMAIN path) /\ Cardinality(DOMAIN path) = Len(path)
  <2>1. \A k \in Nat : IsFiniteSet(1 .. k) /\ Cardinality(1 .. k) = k
    <3> SUFFICES ASSUME NEW k \in Nat PROVE IsFiniteSet(1 .. k) /\ Cardinality(1 .. k) = k
      OBVIOUS
    <3>1. 1 \in Int /\ k \in Int
      OBVIOUS
    <3>2. IsFiniteSet(1 .. k) /\ Cardinality(1 .. k) = IF 1 > k THEN 0 ELSE k - 1 + 1
      BY <3>1, FS_Interval
    <3> QED BY <3>2
  <2> QED BY <1>1, <2>1
<1>3. IsFiniteSet(F) /\ Cardinality(F) = Len(path) - Cardinality(E)
  <2>1. DOMAIN path \cap E = E
    BY <1>1
  <2>2. /\ IsFiniteSet(DOMAIN path \ E)
        /\ Cardinality(DOMAIN path \ E)
             = Cardinality(DOMAIN path) - Cardinality(DOMAIN path \cap E)
    <3> HIDE DEF E
    <3> QED BY <1>1, <1>2, FS_Difference
  <2>3. F = DOMAIN path \ E
    OBVIOUS
  <2> HIDE DEF E, F
  <2> QED BY <1>2, <2>1, <2>2, <2>3
<1>4. \A i, j \in DOMAIN path : i # j => path[i].id # path[j].id
  <2>1. \A i, j \in DOMAIN path : i < j => path[i].id < path[j].id
    BY DEF WalkInv, PathOK
  <2>2. \A i \in DOMAIN path : path[i].id \in Nat
    BY PathStep
  <2>3. \A i, j \in DOMAIN path : i # j => i < j \/ j < i
    BY <1>1
  <2> QED BY <2>1, <2>2, <2>3
<1>5. ExistsBijection(E, S)
  <2> DEFINE f == [i \in E |-> path[i].id]
  <2>1. f \in [E -> S] /\ \A d \in S : \E i \in E : f[i] = d
    BY <1>1 DEF OnPath, ScopeEntries
  <2>2. \A i, j \in E : f[i] = f[j] => i = j
    BY <1>1, <1>4
  <2> QED BY <2>1, <2>2, Fun_IsBij DEF ExistsBijection
<1>6. ExistsBijection(F, Rest)
  <2> DEFINE f == [i \in F |-> path[i].id]
  <2>1. f \in [F -> Rest] /\ \A d \in Rest : \E i \in F : f[i] = d
    BY <1>1 DEF OnPath, ScopeEntries
  <2>2. \A i, j \in F : f[i] = f[j] => i = j
    BY <1>1, <1>4
  <2> QED BY <2>1, <2>2, Fun_IsBij DEF ExistsBijection
<1> QED BY <1>1, <1>3, <1>5, <1>6, FS_Bijection

LEMMA TypesOfPath ==
  ASSUME WalkInv, BuilderInv, ~LostVariants, NEW i \in DOMAIN path
  PROVE  TypeOf(m_stack[i]) \in Scopes <=> TypeOf(path[i].id) \in Scopes
<1> DEFINE d == path[i].id
<1>1. EntryOK(i) /\ ElementsOK
  BY DEF BuilderInv, StackOK
<1>2. d \in DOMAIN tree /\ d \in Refs /\ d # Null /\ MayHaveKids(tree[d].tag)
      /\ path[i].tag = tree[d].tag
  BY WalkShape, PathStep, KindsOfParents, RefsFact DEF Shape
<1>3. CASE Own(d) # Null
  BY <1>1, <1>3 DEF EntryOK
<1>4. CASE Own(d) = Null
  <2>1. TypeOf(d) = "none"
    BY <1>2, <1>4, EmptyObj DEF Own, TypeOf
  <2>2. CASE ~tree[d].made
    BY <1>1, <2>1, <2>2 DEF EntryOK, TypeOf, Scopes
  <2>3. CASE tree[d].made
    <3>1. path[i].tag = "variant"
      <4>1. path[i].tag \in {"variant_part", "variant"}
        BY <1>2, <1>4, <2>3, NoElement
      <4>2. d \in OnPath
        BY DEF OnPath
      <4> QED BY <1>2, <1>4, <4>1, <4>2 DEF LostVariants
    <3>2. i # 1 /\ i - 1 \in DOMAIN path
      BY <3>1, PathStep
    <3> DEFINE q == path[i - 1].id
    <3>3. tree[q].tag = "variant_part" /\ q \in OnPath /\ q \in DOMAIN tree /\ q \in Refs
      <4>1. path[i].tag \in ChildTags[path[i - 1].tag]
        BY <3>2 DEF WalkInv, PathOK
      <4>2. path[i - 1].tag \in Parents /\ path[i - 1].tag = tree[q].tag /\ q \in DOMAIN tree
        BY <3>2, PathStep
      <4>3. path[i - 1].tag = "variant_part"
        BY <3>1, <4>1, <4>2, KindsOfChildren
      <4> QED BY <3>2, <4>2, <4>3, WalkShape, RefsFact DEF OnPath, Shape
    <3>4. Own(q) # Null
      BY <3>3 DEF LostVariants
    <3>5. m_stack[i] = q /\ obj[q] # NoObj
      BY <1>1, <3>1, <3>4 DEF EntryOK, Own
    <3>6. obj[q].type = "variant_type"
      BY <1>1, <3>3, <3>5 DEF ElementsOK, TagType
    <3>7. q # Null
      BY <3>3, RefsFact
    <3>8. TypeOf(m_stack[i]) = "variant_type"
      BY <3>5, <3>6, <3>7 DEF TypeOf
    <3> QED BY <2>1, <3>8 DEF Scopes
  <2> QED BY <2>2, <2>3
<1> QED BY <1>3, <1>4

\* What is read inside of a variant part has no element of its own.
LEMMA NoVariantsAbove ==
  ASSUME WalkInv, LostVariants
  PROVE  path # <<>> /\ Parent.tag \in {"variant_part", "variant"}
<1>1. PICK i \in DOMAIN path : tree[path[i].id].tag = "variant_part"
  BY DEF LostVariants, OnPath
<1>2. path[i].tag = "variant_part"
  BY <1>1, PathStep
<1> QED BY <1>2, VariantsAreNear

LEMMA SameScopeEntries ==
  ASSUME WalkInv, BuilderInv, path' = path, m_stack' = m_stack,
         \A i \in DOMAIN path : TypeOf(m_stack[i])' = TypeOf(m_stack[i])
  PROVE  ScopeEntries' = ScopeEntries
BY ScopeEntriesFinite DEF ScopeEntries

LEMMA DepthOfNew ==
  ASSUME WalkInv, BuilderInv, ns_count = Cardinality(ScopeEntries),
         NEW n, NEW tag, NEW kids \in BOOLEAN, NewDie(n, tag, kids), obj'[n] # NoObj
  PROVE  obj'[n].level = Depth(n)'
<1>1. Registered(n, tag) /\ Shape /\ NewHere(n)
  BY RegisteredFacts, NewHereFacts DEF NewHere
<1>2. obj'[n].level = m_level - ns_count /\ TagType(tag, obj'[n].type)
  BY <1>1 DEF Registered
<1>3. ~LostVariants
  <2> SUFFICES ASSUME LostVariants PROVE FALSE
    OBVIOUS
  <2>1. path # <<>> /\ Parent.tag \in {"variant_part", "variant"}
    BY NoVariantsAbove
  <2>2. tag \in {"member", "variant"}
    BY <1>1, <2>1, KindsOfChildren DEF NewDie, Shape
  <2> QED BY <1>2, <2>2 DEF TagType
<1>4. Cardinality({d \in OnPath : TypeOf(d) \notin Scopes}) = Len(path) - Cardinality(ScopeEntries)
  BY <1>3, TypesOfPath, ScopesOfPath
<1>5. \A d \in OnPath : TypeOf(d)' = TypeOf(d)
  BY ReadDieKeepsEntries DEF OnPath
<1>6. Depth(n)' = Cardinality({d \in OnPath : TypeOf(d) \notin Scopes})
  <2>1. tree'[n].above = OnPath
    BY DEF NewDie
  <2>2. {d \in OnPath : TypeOf(d)' \notin Scopes} = {d \in OnPath : TypeOf(d) \notin Scopes}
    BY <1>5
  <2> QED BY <2>1, <2>2 DEF Depth, Scopes
<1>7. m_level = Len(path)
  BY DEF BuilderInv, StackOK
<1> QED BY <1>2, <1>4, <1>6, <1>7

-----------------------------------------------------------------------------
(***************************************************************************)
(* The namespaces of the path.                                             *)
(***************************************************************************)
LEMMA CountFinite ==
  ASSUME NEW s, NEW n \in Nat
  PROVE  IsFiniteSet({i \in 1 .. n : s[i].tag = "namespace"}) /\ Count(s, n) \in Nat
<1>1. IsFiniteSet(1 .. n)
  BY FS_Interval
<1>2. IsFiniteSet({i \in 1 .. n : s[i].tag = "namespace"})
  BY <1>1, FS_Subset
<1> QED BY <1>2, FS_CardinalityType DEF Count

LEMMA CountNone == ASSUME NEW s PROVE Count(s, 0) = 0
<1>1. {i \in 1 .. 0 : s[i].tag = "namespace"} = {}
  OBVIOUS
<1> QED BY <1>1, FS_EmptySet DEF Count

LEMMA CountNext ==
  ASSUME NEW s, NEW n \in Nat
  PROVE  Count(s, n + 1) = Count(s, n) + IF s[n + 1].tag = "namespace" THEN 1 ELSE 0
<1> DEFINE S == {i \in 1 .. n : s[i].tag = "namespace"}
           T == {i \in 1 .. n + 1 : s[i].tag = "namespace"}
<1>1. n + 1 \notin S /\ IsFiniteSet(S) /\ Cardinality(S) \in Nat
  BY CountFinite DEF Count
<1>2. CASE s[n + 1].tag = "namespace"
  <2>1. T = S \cup {n + 1}
    BY <1>2
  <2> HIDE DEF S, T
  <2>2. Cardinality(T) = Cardinality(S) + 1
    BY <1>1, <2>1, FS_AddElement
  <2> QED BY <1>2, <2>2 DEF Count, S, T
<1>3. CASE s[n + 1].tag # "namespace"
  <2>1. T = S
    BY <1>3
  <2> HIDE DEF S, T
  <2>2. Cardinality(T) = Cardinality(S) + 0
    BY <1>1, <2>1
  <2> QED BY <1>3, <2>2 DEF Count, S, T
<1> QED BY <1>2, <1>3

LEMMA CountGrows ==
  ASSUME NEW s, NEW n \in Nat, NEW k \in 0 .. n PROVE Count(s, k) <= Count(s, n)
<1> DEFINE S == {i \in 1 .. k : s[i].tag = "namespace"}
           T == {i \in 1 .. n : s[i].tag = "namespace"}
<1>1. IsFiniteSet(T) /\ S \in SUBSET T
  <2>1. IsFiniteSet(T)
    BY CountFinite
  <2>2. 1 .. k \subseteq 1 .. n
    OBVIOUS
  <2> QED BY <2>1, <2>2
<1>2. Cardinality(S) <= Cardinality(T)
  BY <1>1, FS_Subset
<1> QED BY <1>2 DEF Count

LEMMA CountPositive ==
  ASSUME NEW s, NEW k \in Nat, k >= 1, s[k].tag = "namespace" PROVE Count(s, k) >= 1
<1>1. k - 1 \in Nat /\ (k - 1) + 1 = k
  OBVIOUS
<1>2. Count(s, k) = Count(s, k - 1) + 1
  <2>1. Count(s, (k - 1) + 1) = Count(s, k - 1) + IF s[(k - 1) + 1].tag = "namespace" THEN 1 ELSE 0
    BY <1>1, CountNext
  <2> QED BY <1>1, <2>1
<1>3. Count(s, k - 1) \in Nat
  BY <1>1, CountFinite
<1> QED BY <1>2, <1>3

LEMMA CountSame ==
  ASSUME NEW s, NEW t, NEW n, \A i \in 1 .. n : s[i] = t[i] PROVE Count(s, n) = Count(t, n)
<1>1. {i \in 1 .. n : s[i].tag = "namespace"} = {i \in 1 .. n : t[i].tag = "namespace"}
  OBVIOUS
<1> QED BY <1>1 DEF Count

\* The stack of the namespaces stays as it is.
LEMMA SameNamespaces ==
  ASSUME NamespacesInv, SameTree, path' = path, ns_stack' = ns_stack, Opened' <=> Opened,
         PathOK, Opened => die' = die,
         at' # "die" /\ die'.tag = "namespace" => (added' <=> die'.kids),
         Opened' => m_regged'
  PROVE  NamespacesInv'
<1>1. \A n : Count(path', n) = Count(path, n)
  OBVIOUS
<1>2. \A i \in DOMAIN path : tree'[path[i].id].made = tree[path[i].id].made
  BY DEF PathOK, SameTree
<1>3. Opened' => LastOf(ns_stack)' = die'.id
  BY DEF NamespacesInv, LastOf
<1> QED BY <1>1, <1>2, <1>3 DEF NamespacesInv

LEMMA OpensOnlyNamespaces ==
  ASSUME WalkInv, BuilderInv, NamespacesInv, PostProcess
  PROVE  IF die.tag = "namespace" /\ added
           THEN m_regged /\ m_regged' = m_regged /\ ns_stack' = Append(ns_stack, die.id)
                /\ die.id \in Dies
           ELSE UNCHANGED ns_stack
<1>1. at = "post" /\ m_regged = added /\ NewOK /\ added \in BOOLEAN
  BY DEF PostProcess, WalkInv, DieOK, BuilderInv
<1>2. m_regged => (current_element_type_ = "ns_start" <=> die.tag = "namespace")
  BY <1>1 DEF NewOK
<1>3. CASE m_regged /\ OpenNamespace /\ UNCHANGED m_regged
  BY <1>1, <1>3, OpenedNamespace
<1>4. CASE (~m_regged \/ current_element_type_ # "ns_start") /\ UNCHANGED builderVars
  BY <1>1, <1>2, <1>4 DEF builderVars, nsVars
<1>5. CASE m_regged /\ CanBeDumped /\ DropDumped
  BY <1>1, <1>2, <1>5 DEF CanBeDumped, DropDumped, nsVars
<1> QED BY <1>3, <1>4, <1>5 DEF PostProcess

LEMMA PostProcessNamespaces ==
  ASSUME WalkInv, BuilderInv, NamespacesInv, PostProcess PROVE NamespacesInv'
<1>1. /\ SameTree /\ at = "post" /\ at' = "kids" /\ UNCHANGED <<added, die, path>> /\ PathOK
  BY PostProcessTree DEF WalkInv
<1>2. ~Opened /\ (Opened' <=> die.tag = "namespace" /\ added)
  BY <1>1 DEF Opened
<1>3. CASE ~(die.tag = "namespace" /\ added)
  BY <1>1, <1>2, <1>3, OpensOnlyNamespaces, SameNamespaces DEF NamespacesInv
<1>4. CASE die.tag = "namespace" /\ added
  <2>1. /\ m_regged /\ m_regged' = m_regged /\ ns_stack' = Append(ns_stack, die.id)
        /\ die.id \in Dies /\ ns_stack \in Seq(Dies)
    BY <1>4, OpensOnlyNamespaces DEF BuilderInv, PointersOK
  <2>2. /\ Len(ns_stack') = Len(ns_stack) + 1 /\ ns_stack'[Len(ns_stack) + 1] = die.id
        /\ \A k \in 1 .. Len(ns_stack) : ns_stack'[k] = ns_stack[k]
    BY <2>1, AppendProperties
  <2>3. \A n : Count(path', n) = Count(path, n)
    BY <1>1
  <2>4. Len(ns_stack) = Count(path, Len(path)) /\ Count(path, Len(path)) \in Nat
        /\ Len(path) \in Nat /\ DOMAIN path = 1 .. Len(path)
    <3>1. Len(path) \in Nat /\ DOMAIN path = 1 .. Len(path)
      BY WalkShape DEF Shape
    <3>2. Len(ns_stack) = Count(path, Len(path)) + 0
      BY <1>2 DEF NamespacesInv
    <3>3. Count(path, Len(path)) \in Nat
      BY <3>1, CountFinite
    <3> QED BY <3>1, <3>2, <3>3
  <2>5. LastOf(ns_stack)' = die.id
    BY <2>1, <2>2 DEF LastOf
  <2>6. ASSUME NEW i \in DOMAIN path, path[i].tag = "namespace"
        PROVE  tree'[path[i].id].made /\ ns_stack'[Count(path, i)] = path[i].id
    <3>1. tree'[path[i].id].made = tree[path[i].id].made
      BY <1>1 DEF PathOK, SameTree
    <3>2. Count(path, i) >= 1 /\ Count(path, i) <= Count(path, Len(path)) /\ Count(path, i) \in Nat
      <4>1. i \in Nat /\ i >= 1 /\ i \in 0 .. Len(path)
        BY <2>4
      <4> QED BY <2>4, <2>6, <4>1, CountPositive, CountGrows, CountFinite
    <3>3. Count(path, i) \in 1 .. Len(ns_stack)
      BY <2>4, <3>2
    <3> QED BY <2>2, <2>6, <3>1, <3>3 DEF NamespacesInv
  <2>7. Len(ns_stack') = Count(path', Len(path')) + 1
    BY <1>1, <2>2, <2>4
  <2>8. added <=> die.kids
    BY <1>1, <1>4 DEF NamespacesInv
  <2> QED BY <1>1, <1>2, <1>4, <2>1, <2>3, <2>5, <2>6, <2>7, <2>8 DEF NamespacesInv
<1> QED BY <1>3, <1>4

LEMMA ReadKidsNamespaces ==
  ASSUME WalkInv, BuilderInv, NamespacesInv, ReadKids PROVE NamespacesInv'
<1>1. LongerPath /\ LongerStack /\ Shape /\ PathOK /\ DieOK
  BY ReadKidsLongerPath, ReadKidsLongerStack, WalkShape DEF WalkInv, ReadKids
<1>2. /\ at = "kids" /\ die.kids /\ at' = "die" /\ tree' = tree /\ ns_stack' = ns_stack
  BY <1>1 DEF ReadKids, NextDie, LongerStack
<1>3. ~Opened' /\ (Opened <=> die.tag = "namespace") /\ (Opened => added)
  BY <1>2 DEF Opened, NamespacesInv
<1> DEFINE n == Len(path)
<1>4. /\ \A i \in 0 .. n : Count(path', i) = Count(path, i)
      /\ Count(path', n + 1) = Count(path, n) + IF die.tag = "namespace" THEN 1 ELSE 0
      /\ Count(path, n) \in Nat
  <2>1. n \in Nat /\ DOMAIN path = 1 .. n
    BY <1>1 DEF Shape
  <2>2. ASSUME NEW i \in 0 .. n PROVE Count(path', i) = Count(path, i)
    <3>1. \A j \in 1 .. i : path'[j] = path[j]
      BY <1>1, <2>1 DEF LongerPath
    <3> QED BY <3>1, CountSame
  <2>3. Count(path', n + 1) = Count(path', n) + IF path'[n + 1].tag = "namespace" THEN 1 ELSE 0
    BY <2>1, CountNext
  <2>4. path'[n + 1] = die
    BY <1>1 DEF LongerPath
  <2>5. n \in 0 .. n
    BY <2>1
  <2> QED BY <2>1, <2>2, <2>3, <2>4, <2>5, CountFinite
<1>5. Len(ns_stack) = Count(path, n) + (IF Opened THEN 1 ELSE 0)
  BY DEF NamespacesInv
<1>6. Len(ns_stack') = Count(path', Len(path')) + (IF Opened' THEN 1 ELSE 0)
  BY <1>1, <1>2, <1>3, <1>4, <1>5 DEF LongerPath
<1>7. ASSUME NEW i \in DOMAIN path', path'[i].tag = "namespace"
      PROVE  tree'[path'[i].id].made /\ ns_stack'[Count(path', i)] = path'[i].id
  <2>1. i \in DOMAIN path \/ i = n + 1
    BY <1>1 DEF LongerPath, Shape
  <2>2. CASE i \in DOMAIN path
    <3>1. path'[i] = path[i] /\ Count(path', i) = Count(path, i)
      BY <1>1, <1>4, <2>2 DEF LongerPath, Shape
    <3> QED BY <1>2, <1>7, <2>2, <3>1 DEF NamespacesInv
  <2>3. CASE i = n + 1
    <3>1. path'[i] = die /\ die.tag = "namespace" /\ Opened
      BY <1>1, <1>3, <1>7, <2>3 DEF LongerPath
    <3>2. Count(path', i) = Len(ns_stack) /\ LastOf(ns_stack) = die.id
      BY <1>4, <1>5, <2>3, <3>1 DEF NamespacesInv
    <3>3. tree[die.id].made
      BY <1>1, <1>3, <3>1 DEF DieOK
    <3> QED BY <1>2, <3>1, <3>2, <3>3 DEF LastOf
  <2> QED BY <2>1, <2>2, <2>3
<1>8. \A i \in DOMAIN path' : path'[i].tag = "namespace" =>
        tree'[path'[i].id].made /\ ns_stack'[Count(path', i)] = path'[i].id
  BY <1>7
<1> QED BY <1>2, <1>3, <1>6, <1>8 DEF NamespacesInv

\* An entry stands for a namespace where the path has one.
LEMMA NamespaceEntry ==
  ASSUME WalkInv, BuilderInv, NamespacesInv, path # <<>>
  PROVE  TypeOf(Top) = "ns_start" <=> Parent.tag = "namespace"
<1>1. Shape /\ TopOK /\ ElementsOK /\ EntryOK(Len(path)) /\ Parent = path[Len(path)]
      /\ Len(path) \in DOMAIN path
  BY WalkShape, TopFacts DEF BuilderInv, StackOK, Shape
<1>2. ASSUME Parent.tag = "namespace" PROVE TypeOf(Top) = "ns_start"
  <2>1. tree[Parent.id].made /\ Parent.id \in DOMAIN tree /\ tree[Parent.id].tag = "namespace"
    BY <1>1, <1>2 DEF NamespacesInv, Shape
  <2>2. Top # Null /\ Top = Parent.id
    BY <1>1, <1>2, <2>1 DEF TopOK
  <2>3. obj[Parent.id] # NoObj /\ Parent.id \in Refs
    BY <1>1, <2>1, RefsFact DEF ElementsOK, HasElement, Shape
  <2>4. obj[Parent.id].type = "ns_start"
    BY <1>1, <2>1, <2>3 DEF ElementsOK, TagType
  <2> QED BY <2>2, <2>4 DEF TypeOf
<1>3. Parent.tag # "namespace" => TypeOf(Top) # "ns_start"
  BY <1>1 DEF EntryOK, TopOK
<1> QED BY <1>2, <1>3

LEMMA EndOfKidsNamespaces ==
  ASSUME WalkInv, BuilderInv, NamespacesInv, EndOfKids PROVE NamespacesInv'
<1>1. ShorterPath /\ ShorterStack /\ Shape /\ PathOK /\ path # <<>>
  BY ShorterPathByOne, EndOfKidsShorterStack, WalkShape DEF WalkInv, EndOfKids
<1>2. at = "die" /\ at' = "die" /\ tree' = tree /\ ~Opened /\ ~Opened'
  BY DEF EndOfKids, Opened
<1>3. TypeOf(Top) = "ns_start" <=> Parent.tag = "namespace"
  BY <1>1, NamespaceEntry
<1> DEFINE n == Len(path) - 1
<1>4. n \in Nat /\ Len(path) = n + 1 /\ Len(path) \in DOMAIN path /\ Parent = path[n + 1]
      /\ Len(path') = n /\ DOMAIN path' = 1 .. n /\ DOMAIN path = 1 .. n + 1
  BY <1>1 DEF ShorterPath, Shape
<1> HIDE DEF n
<1>5. /\ \A i \in 0 .. n : Count(path', i) = Count(path, i) /\ Count(path, i) \in Nat
                           /\ Count(path, i) <= Count(path, n)
      /\ Count(path, n + 1) = Count(path, n) + IF Parent.tag = "namespace" THEN 1 ELSE 0
      /\ \A i \in 1 .. n : path[i].tag = "namespace" => Count(path, i) >= 1
  <2>1. ASSUME NEW i \in 0 .. n PROVE Count(path', i) = Count(path, i)
    <3>1. \A j \in 1 .. i : path'[j] = path[j]
      BY <1>1, <1>4 DEF ShorterPath
    <3> QED BY <3>1, CountSame
  <2>2. Count(path, n + 1) = Count(path, n) + IF path[n + 1].tag = "namespace" THEN 1 ELSE 0
    BY <1>4, CountNext
  <2>3. ASSUME NEW i \in 0 .. n PROVE Count(path, i) \in Nat /\ Count(path, i) <= Count(path, n)
    <3>1. i \in Nat
      BY <1>4
    <3> QED BY <1>4, <3>1, CountFinite, CountGrows
  <2>4. \A i \in 1 .. n : path[i].tag = "namespace" => Count(path, i) >= 1
    BY <1>4, CountPositive
  <2> QED BY <1>4, <2>1, <2>2, <2>3, <2>4
<1>6. Len(ns_stack) = Count(path, n + 1) /\ ns_stack \in Seq(Dies)
  <2>1. Len(ns_stack) = Count(path, Len(path)) + 0
    BY <1>2 DEF NamespacesInv
  <2>2. Count(path, Len(path)) \in Nat
    BY <1>1, CountFinite DEF Shape
  <2> QED BY <1>4, <2>1, <2>2 DEF BuilderInv, PointersOK
<1>7. /\ Len(ns_stack') = Count(path, n)
      /\ \A k \in 1 .. Count(path, n) : ns_stack'[k] = ns_stack[k]
  <2>1. n \in 0 .. n
    BY <1>4
  <2>2. CASE Parent.tag = "namespace"
    <3>1. Closed /\ ns_stack # <<>>
      BY <1>3, <1>5, <1>6, <2>1, <2>2, EndOfKidsShorterStack
    <3>2. ns_stack' = AllButLast(ns_stack)
      BY <3>1 DEF Closed
    <3>3. Len(ns_stack) - 1 = Count(path, n)
      BY <1>5, <1>6, <2>1, <2>2
    <3> QED BY <1>6, <3>1, <3>2, <3>3, AllButLastFacts
  <2>3. CASE Parent.tag # "namespace"
    <3>1. ns_stack' = ns_stack
      BY <1>3, <2>3, EndOfKidsShorterStack
    <3> QED BY <1>5, <1>6, <2>1, <2>3, <3>1
  <2> QED BY <2>2, <2>3
<1>8. \A i \in DOMAIN path' : path'[i].tag = "namespace" =>
        tree'[path'[i].id].made /\ ns_stack'[Count(path', i)] = path'[i].id
  <2> SUFFICES ASSUME NEW i \in 1 .. n, path'[i].tag = "namespace"
               PROVE  tree'[path'[i].id].made /\ ns_stack'[Count(path', i)] = path'[i].id
    BY <1>4
  <2>1. i \in DOMAIN path /\ path'[i] = path[i] /\ i \in 0 .. n
    BY <1>1, <1>4 DEF ShorterPath
  <2>2. Count(path', i) = Count(path, i) /\ Count(path, i) \in 1 .. Count(path, n)
    <3>1. n \in 0 .. n
      BY <1>4
    <3> QED BY <1>5, <2>1, <3>1
  <2> QED BY <1>2, <1>7, <2>1, <2>2 DEF NamespacesInv
<1>9. Len(ns_stack') = Count(path', Len(path')) + (IF Opened' THEN 1 ELSE 0)
  <2>1. n \in 0 .. n
    BY <1>4
  <2> QED BY <1>2, <1>4, <1>5, <1>7, <2>1
<1> QED BY <1>2, <1>8, <1>9 DEF NamespacesInv

\* The stack of the namespaces while a DIE is read.
LEMMA ReadDieNamespaces ==
  ASSUME WalkInv, BuilderInv, NamespacesInv,
         NEW n, NEW tag, NEW kids \in BOOLEAN, NewDie(n, tag, kids)
  PROVE  NamespacesInv'
<1>1. Registered(n, tag) /\ Shape
  BY RegisteredFacts, WalkShape
<1>2. /\ at' = "name" /\ at = "die" /\ path' = path /\ ns_stack' = ns_stack
      /\ die'.tag = tag /\ die'.kids = kids
  BY <1>1 DEF NewDie, Registered, nsVars
<1>3. ~Opened /\ ~Opened'
  BY <1>2 DEF Opened
<1>4. tag = "namespace" => (added' <=> kids)
  BY DEF NewDie, Register
<1>5. \A i \in DOMAIN path : tree'[path[i].id] = tree[path[i].id]
  BY ReadDieKeepsEntries
<1> QED BY <1>2, <1>3, <1>4, <1>5 DEF NamespacesInv

LEMMA ReadDieLevels ==
  ASSUME WalkInv, BuilderInv, LevelInv,
         NEW n, NEW tag, NEW kids \in BOOLEAN, NewDie(n, tag, kids)
  PROVE  LevelInv'
<1>1. Registered(n, tag) /\ NewHere(n) /\ Shape /\ LevelInv
  BY RegisteredFacts, NewHereFacts DEF NewHere
<1>2. ScopeEntries' = ScopeEntries /\ ns_count' = ns_count
  <2>1. path' = path /\ m_stack' = m_stack
    BY <1>1 DEF NewDie, Registered
  <2> QED BY <1>1, <2>1, ReadDieKeepsEntries, SameScopeEntries DEF Registered, nsVars
<1>3. ASSUME NEW d \in DOMAIN tree', Own(d)' # Null PROVE obj'[d].level = Depth(d)'
  <2>1. CASE d = n
    BY <1>1, <1>3, <2>1, DepthOfNew DEF Own, LevelInv
  <2>2. CASE d # n
    <3>1. d \in DOMAIN tree /\ tree'[d] = tree[d] /\ d \in Refs
      BY <1>1, <2>2, RefsFact DEF NewDie, NewHere, Shape
    <3>2. obj'[d] = obj[d]
      BY <1>1, <2>2, <3>1 DEF Registered
    <3>3. ASSUME NEW a \in tree[d].above PROVE TypeOf(a)' = TypeOf(a)
      <4>1. Elders(d)
        BY <3>1 DEF WalkInv, TreeOK
      <4>2. a \in DOMAIN tree
        BY <1>1, <3>1, <4>1 DEF Elders, Shape
      <4>3. a \in Refs /\ a # n
        BY <1>1, <4>2, RefsFact DEF NewHere, Shape
      <4> QED BY <1>1, <4>3 DEF Registered, TypeOf
    <3>4. Depth(d)' = Depth(d)
      <4>1. {a \in tree[d].above : TypeOf(a)' \notin Scopes} = {a \in tree[d].above : TypeOf(a) \notin Scopes}
        BY <3>3
      <4> QED BY <3>1, <4>1 DEF Depth, Scopes
    <3>5. Own(d) # Null
      BY <1>3, <3>2 DEF Own
    <3> QED BY <1>1, <3>1, <3>2, <3>4, <3>5 DEF LevelInv, LevelIsDepth
  <2> QED BY <2>1, <2>2
<1>4. LevelIsDepth'
  BY <1>3 DEF LevelIsDepth
<1> QED BY <1>1, <1>2, <1>4, ReadDieNamespaces DEF LevelInv

\* Levels and depths of DIEs whose elements keep type and level.
LEMMA SameDepths ==
  ASSUME WalkInv, LevelIsDepth, SameTree,
         \A r \in DOMAIN tree : /\ TypeOf(r)' = TypeOf(r) /\ obj'[r].level = obj[r].level
                                /\ Own(r)' = Own(r)
  PROVE  LevelIsDepth'
<1> SUFFICES ASSUME NEW d \in DOMAIN tree', Own(d)' # Null PROVE obj'[d].level = Depth(d)'
  BY DEF LevelIsDepth
<1>1. d \in DOMAIN tree /\ tree'[d].above = tree[d].above /\ Own(d) # Null
  BY DEF SameTree
<1>2. tree[d].above \subseteq DOMAIN tree
  BY <1>1, WalkShape DEF WalkInv, TreeOK, Elders, Shape
<1>3. {a \in tree[d].above : TypeOf(a)' \notin Scopes} = {a \in tree[d].above : TypeOf(a) \notin Scopes}
  BY <1>2
<1>4. Depth(d)' = Depth(d)
  BY <1>1, <1>3 DEF Depth, Scopes
<1> QED BY <1>1, <1>4 DEF LevelIsDepth

LEMMA SamePointersLevels ==
  ASSUME WalkInv, BuilderInv, LevelInv, SamePointers
  PROVE  ns_count' = Cardinality(ScopeEntries)' /\ LevelIsDepth'
<1>1. DOMAIN tree \subseteq Refs /\ PointersOK
  BY WalkShape, RefsFact DEF Shape, BuilderInv
<1>2. \A r \in Refs \cup {Null} : TypeOf(r)' = TypeOf(r) /\ Own(r)' = Own(r)
  BY SameTypes DEF SamePointers
<1>3. LevelIsDepth'
  <2>1. \A r \in DOMAIN tree : /\ TypeOf(r)' = TypeOf(r) /\ obj'[r].level = obj[r].level
                               /\ Own(r)' = Own(r)
    BY <1>1, <1>2 DEF SamePointers, SameElements
  <2> QED BY <2>1, SameDepths DEF SamePointers, LevelInv
<1>4. ScopeEntries' = ScopeEntries
  <2>1. m_stack \in Seq(Refs \cup {Null}) /\ m_stack' = m_stack
    BY <1>1 DEF PointersOK, SamePointers
  <2>2. \A i \in DOMAIN m_stack : m_stack[i] \in Refs \cup {Null}
    BY <2>1, ElementOfSeq
  <2>3. \A i \in DOMAIN m_stack : TypeOf(m_stack[i])' = TypeOf(m_stack[i])
    BY <1>2, <2>1, <2>2 DEF TypeOf
  <2> QED BY <2>1, <2>3 DEF ScopeEntries, Scopes
<1> QED BY <1>3, <1>4 DEF LevelInv, SamePointers

LEMMA AttributeLevels ==
  ASSUME WalkInv, BuilderInv, LevelInv, ReadName \/ ReadLocation \/ PostProcess \/ SkipKids
  PROVE  LevelInv'
<1>1. SamePointers /\ NamespacesInv /\ PathOK
  BY ReadNameBuilder, ReadLocationBuilder, PostProcessBuilder, SkipKidsBuilder
     DEF LevelInv, WalkInv
<1>2. NamespacesInv'
  <2>1. CASE PostProcess
    BY <1>1, <2>1, PostProcessNamespaces
  <2>2. CASE ReadName \/ ReadLocation
    <3>1. at # "die" /\ at' # "kids" /\ at # "kids" /\ UNCHANGED <<die, added, path, ns_stack>>
      BY <2>2 DEF ReadName, ReadLocation, SetElementName, SetLocation, Crash, nsVars, builderVars
    <3>2. ~Opened /\ ~Opened'
      BY <3>1 DEF Opened
    <3> QED BY <1>1, <3>1, <3>2, SameNamespaces DEF SamePointers, NamespacesInv
  <2>3. CASE SkipKids
    <3>1. at = "kids" /\ at' = "die" /\ UNCHANGED <<path, ns_stack>>
          /\ (~die.kids \/ ~m_regged)
      BY <2>3 DEF SkipKids, NextDie, builderVars, nsVars
    <3>2. ~Opened'
      BY <3>1 DEF Opened
    <3>3. ~Opened
      BY <1>1, <3>1 DEF NamespacesInv, Opened
    <3> QED BY <1>1, <3>1, <3>2, <3>3, SameNamespaces DEF SamePointers
  <2> QED BY <2>1, <2>2, <2>3
<1> QED BY <1>1, <1>2, SamePointersLevels DEF LevelInv

LEMMA ReadKidsLevels == ASSUME WalkInv, BuilderInv, LevelInv, ReadKids PROVE LevelInv'
<1>1. LongerPath /\ LongerStack /\ Shape /\ PointersOK
  BY ReadKidsLongerPath, ReadKidsLongerStack, WalkShape DEF BuilderInv
<1>2. UNCHANGED <<tree, obj>>
  BY <1>1 DEF ReadKids, LongerStack, listVars
<1>3. LevelIsDepth'
  <2>1. SameTree
    BY <1>2, SameTreeIfUnchanged DEF WalkInv
  <2> QED BY <1>2, <2>1, SameDepths DEF LevelInv, TypeOf, Own
<1>4. TypeOf(Pushed) \in Scopes <=> (added /\ recent_ = Null /\ TypeOf(back) \in Scopes)
  BY <1>1 DEF Pushed, Entry, PointersOK, TypeOf, Scopes, FunctionTypes
<1>5. ns_count' = Cardinality(ScopeEntries)'
  <2>1. PICK n : n = Len(path)
    OBVIOUS
  <2>2. PICK e : e = Pushed
    OBVIOUS
  <2>3. /\ n \in Nat /\ DOMAIN m_stack = 1 .. n /\ DOMAIN m_stack' = 1 .. n + 1
        /\ \A i \in 1 .. n : m_stack'[i] = m_stack[i]
        /\ m_stack'[n + 1] = e
    BY <1>1, <2>1, <2>2, ScopeEntriesFinite, LenProperties DEF LongerStack, Shape
  <2>4. n + 1 \notin ScopeEntries /\ IsFiniteSet(ScopeEntries) /\ Cardinality(ScopeEntries) \in Nat
    BY <2>1, <2>3, ScopeEntriesFinite
  <2>5. ScopeEntries' = IF TypeOf(e) \in Scopes THEN ScopeEntries \cup {n + 1} ELSE ScopeEntries
    <3>1. ScopeEntries' = {i \in 1 .. n + 1 : TypeOf(m_stack[i])' \in Scopes}
      BY <2>3 DEF ScopeEntries, Scopes
    <3>2. ScopeEntries = {i \in 1 .. n : TypeOf(m_stack[i]) \in Scopes}
      BY <2>3 DEF ScopeEntries
    <3>3. \A i \in 1 .. n : TypeOf(m_stack[i])' = TypeOf(m_stack[i])
      BY <1>2, <2>3 DEF TypeOf
    <3>4. TypeOf(m_stack[n + 1])' = TypeOf(e)
      BY <1>2, <2>3 DEF TypeOf
    <3>5. \A i \in 1 .. n + 1 : i \in 1 .. n \/ i = n + 1
      BY <2>3
    <3>6. n + 1 \in 1 .. n + 1 /\ 1 .. n \subseteq 1 .. n + 1
      BY <2>3
    <3> QED BY <3>1, <3>2, <3>3, <3>4, <3>5, <3>6
  <2>6. ns_count = Cardinality(ScopeEntries)
    BY DEF LevelInv
  <2>7. Cardinality(ScopeEntries \cup {n + 1}) = Cardinality(ScopeEntries) + 1
    BY <2>4, FS_AddElement
  <2>8. ns_count' = IF TypeOf(e) \in Scopes THEN ns_count + 1 ELSE ns_count
    BY <1>1, <1>4, <2>2 DEF LongerStack
  <2> QED BY <2>4, <2>5, <2>6, <2>7, <2>8
<1> QED BY <1>3, <1>5, ReadKidsNamespaces DEF LevelInv

LEMMA EndOfKidsLevels == ASSUME WalkInv, BuilderInv, LevelInv, EndOfKids PROVE LevelInv'
<1>1. ShorterPath /\ ShorterStack /\ Shape /\ PointersOK /\ ElementsOK
  BY EndOfKidsShorterStack, ShorterPathByOne, WalkShape DEF BuilderInv, EndOfKids
<1>2. /\ tree' = tree
      /\ \A r \in Dies : obj'[r] = obj[r]
      /\ \A r \in Refs : obj'[r] # obj[r] => obj'[r].type = "ns_end" /\ r \notin Dies
  BY EndOfKidsElements DEF EndOfKids
<1>3. LevelIsDepth'
  <2>1. SameTree
    BY <1>2, SameTreeIfUnchanged DEF WalkInv
  <2>2. \A r \in DOMAIN tree : obj'[r] = obj[r]
    BY <1>1, <1>2 DEF Shape
  <2> QED BY <2>1, <2>2, SameDepths DEF LevelInv, TypeOf, Own
<1>4. ns_count' = Cardinality(ScopeEntries)'
  <2> DEFINE n == Len(path)
  <2>1. /\ n \in Nat /\ n >= 1 /\ DOMAIN m_stack = 1 .. n /\ DOMAIN m_stack' = 1 .. n - 1
        /\ \A i \in 1 .. n - 1 : m_stack'[i] = m_stack[i]
        /\ m_stack[n] = Top
    BY <1>1, ScopeEntriesFinite DEF ShorterStack, ShorterPath, Shape
  <2>2. ASSUME NEW i \in 1 .. n - 1
        PROVE  TypeOf(m_stack[i])' \in Scopes <=> TypeOf(m_stack[i]) \in Scopes
    <3>1. i \in DOMAIN m_stack /\ m_stack'[i] = m_stack[i]
      BY <2>1
    <3>2. m_stack[i] \in Refs \cup {Null} /\ (m_stack[i] # Null => obj[m_stack[i]] # NoObj)
      BY <1>1, <3>1, ElementOfSeq DEF PointersOK
    <3>3. CASE m_stack[i] = Null
      BY <3>1, <3>3 DEF TypeOf
    <3>4. CASE m_stack[i] # Null
      <4>1. obj'[m_stack[i]] = obj[m_stack[i]] \/
            (obj'[m_stack[i]].type = "ns_end" /\ m_stack[i] \notin Dies)
        BY <1>2, <3>2, <3>4
      <4>2. m_stack[i] \notin Dies => obj[m_stack[i]].type = "ns_end"
        BY <1>1, <3>2, <3>4 DEF ElementsOK, Shape
      <4> QED BY <3>1, <3>4, <4>1, <4>2 DEF TypeOf, Scopes
    <3> QED BY <3>3, <3>4
  <2>3. ScopeEntries' = ScopeEntries \ {n}
    <3>1. ScopeEntries' = {i \in 1 .. n - 1 : TypeOf(m_stack[i])' \in Scopes}
      BY <2>1 DEF ScopeEntries, Scopes
    <3>2. ScopeEntries = {i \in 1 .. n : TypeOf(m_stack[i]) \in Scopes}
      BY <2>1 DEF ScopeEntries
    <3>3. \A i : i \in 1 .. n - 1 <=> i \in 1 .. n /\ i # n
      BY <2>1
    <3> HIDE DEF n
    <3> QED BY <2>2, <3>1, <3>2, <3>3
  <2>4. n \in ScopeEntries <=> TypeOf(Top) \in Scopes
    BY <2>1 DEF ScopeEntries
  <2>5. IsFiniteSet(ScopeEntries) /\ ns_count = Cardinality(ScopeEntries)
    BY ScopeEntriesFinite DEF LevelInv
  <2>6. Cardinality(ScopeEntries \ {n})
          = IF n \in ScopeEntries THEN Cardinality(ScopeEntries) - 1 ELSE Cardinality(ScopeEntries)
    BY <2>5, FS_RemoveElement
  <2> QED BY <1>1, <2>3, <2>4, <2>5, <2>6 DEF ShorterStack
<1> QED BY <1>3, <1>4, EndOfKidsNamespaces DEF LevelInv

LEMMA NothingReadLevels == NothingRead /\ ns_stack = <<>> => LevelInv
<1> SUFFICES ASSUME NothingRead, ns_stack = <<>> PROVE LevelInv
  OBVIOUS
<1>1. ScopeEntries = {} /\ Count(path, Len(path)) = 0 /\ ~Opened
  BY CountNone DEF NothingRead, ScopeEntries, Opened
<1>2. Cardinality(ScopeEntries) = 0
  BY <1>1, FS_EmptySet
<1> QED BY <1>1, <1>2 DEF NothingRead, LevelInv, LevelIsDepth, NamespacesInv

LEMMA EndOfUnitLevels == ASSUME WalkInv, BuilderInv, LevelInv, EndOfUnit PROVE LevelInv'
<1>1. NothingRead'
  BY EndOfUnitNothing
<1>2. ns_stack' = <<>>
  <2>1. path = <<>> /\ at = "die" /\ ns_stack' = ns_stack
    BY DEF EndOfUnit, ProcessUnit
  <2>2. Len(ns_stack) = Count(path, 0) + 0
    BY <2>1 DEF LevelInv, NamespacesInv, Opened
  <2>3. Len(ns_stack) = 0 /\ ns_stack \in Seq(Dies)
    BY <2>2, CountNone DEF BuilderInv, PointersOK
  <2> QED BY <2>1, <2>3
<1>3. ScopeEntries' = {} /\ Count(path', Len(path')) = 0 /\ ~Opened'
  BY <1>1, CountNone DEF NothingRead, ScopeEntries, Opened
<1>4. Cardinality(ScopeEntries') = 0
  BY <1>3, FS_EmptySet
<1> QED BY <1>1, <1>2, <1>3, <1>4 DEF NothingRead, LevelInv, LevelIsDepth, NamespacesInv

LEMMA LevelInvInit == Init => LevelInv
  BY InitNothing, NothingReadLevels

LEMMA LevelInvNext == WalkInv /\ BuilderInv /\ LevelInv /\ [Next]_allVars => LevelInv'
<1> SUFFICES ASSUME WalkInv, BuilderInv, LevelInv, [Next]_allVars PROVE LevelInv'
  OBVIOUS
<1>1. ASSUME NEW tag, NEW kids \in BOOLEAN, ReadDie(tag, kids) PROVE LevelInv'
  BY <1>1, ReadDieIsNewDie, ReadDieLevels
<1>2. CASE UNCHANGED allVars
  <2>1. UNCHANGED <<obj, m_stack, ns_count, ns_stack, added, m_regged, at, die, tree, path>>
    BY <1>2 DEF allVars, walkVars, builderVars, listVars, pointerVars, nsVars
  <2>2. ScopeEntries' = ScopeEntries
    BY <2>1 DEF ScopeEntries, TypeOf, Scopes
  <2>3. LevelIsDepth'
    <3>1. SameTree
      BY <2>1, SameTreeIfUnchanged DEF WalkInv
    <3> QED BY <2>1, <3>1, SameDepths DEF LevelInv, TypeOf, Own
  <2>4. Opened' <=> Opened
    BY <2>1 DEF Opened
  <2>5. NamespacesInv'
    BY <2>1, <2>4 DEF LevelInv, NamespacesInv, LastOf
  <2> QED BY <2>1, <2>2, <2>3, <2>5 DEF LevelInv
<1> QED BY <1>1, <1>2, AttributeLevels, ReadKidsLevels, EndOfKidsLevels, EndOfUnitLevels DEF Next

-----------------------------------------------------------------------------
(***************************************************************************)
(* The invariant of the walk, and what follows from it.                    *)
(***************************************************************************)
StepInv == WalkInv /\ BuilderInv /\ LevelInv

LEMMA StepInvInit == Init => StepInv
  BY WalkInvInit, BuilderInvInit, LevelInvInit DEF StepInv

LEMMA StepInvNext == StepInv /\ [Next]_allVars => StepInv'
  BY WalkInvNext, BuilderInvNext, LevelInvNext DEF StepInv

\* The builder's state has its types, whatever is read: ns_count and m_level, which
\* the code keeps in signed integers and uses as depths, never fall below zero.
THEOREM TypesKept == Spec => []WalkTypeOK
<1>1. StepInv => WalkTypeOK
  <2> SUFFICES ASSUME StepInv PROVE WalkTypeOK
    OBVIOUS
  <2>1. WalkInv /\ BuilderInv /\ LevelInv /\ Shape
    BY WalkShape DEF StepInv
  <2>2. ns_count \in Nat
    BY <2>1, ScopeEntriesFinite DEF LevelInv
  <2>3. m_level \in Nat
    BY <2>1 DEF BuilderInv, StackOK, Shape
  <2> QED BY <2>1, <2>2, <2>3 DEF BuilderInv, ElementsOK, PointersOK, WalkTypeOK
<1> QED BY <1>1, StepInvInit, StepInvNext, PTL DEF Spec

\* add2stack and pop_stack keep step with ElfFile's walk, whatever DIEs are filtered
\* out, skipped or not registered: nobody looks through a null entry, the stack is
\* the path, and the level of an element is the depth of its DIE.
THEOREM BuilderKeepsStep == Spec => []WalkInStep
<1>1. StepInv => WalkInStep
  <2> SUFFICES ASSUME StepInv PROVE WalkInStep
    OBVIOUS
  <2>1. WalkInv /\ BuilderInv /\ LevelInv /\ Shape
    BY WalkShape DEF StepInv
  <2>2. NoNullTop /\ LevelIsDepth
    BY <2>1 DEF BuilderInv, PointersOK, NoNullTop, LevelInv
  <2>3. StackIsPath
    BY <2>1 DEF BuilderInv, StackOK, EntryOK, StackIsPath
  <2> QED BY <2>2, <2>3 DEF WalkInStep
<1> QED BY <1>1, StepInvInit, StepInvNext, PTL DEF Spec

\* ns_count counts the namespaces and lexical blocks the walk is in, and ns_stack
\* holds those namespaces, outermost first, between any two DIEs.
THEOREM NamespacesKept == Spec => []NamespacesFollowPath
<1>1. StepInv => NamespacesFollowPath
  <2> SUFFICES ASSUME StepInv, at = "die" PROVE
        /\ ~LostVariants => ns_count = Cardinality({d \in OnPath : TypeOf(d) \in Scopes})
        /\ Len(ns_stack) = NamespacesTo(Len(path))
        /\ \A i \in DOMAIN path :
             path[i].tag = "namespace" => ns_stack[NamespacesTo(i)] = path[i].id
    BY DEF NamespacesFollowPath
  <2>1. WalkInv /\ BuilderInv /\ LevelInv /\ Shape
    BY WalkShape DEF StepInv
  <2>2. ~LostVariants => ns_count = Cardinality({d \in OnPath : TypeOf(d) \in Scopes})
    BY <2>1, TypesOfPath, ScopesOfPath DEF LevelInv
  <2>3. \A n : NamespacesTo(n) = Count(path, n)
    BY DEF NamespacesTo, Count
  <2>4. Count(path, Len(path)) \in Nat /\ ~Opened
    BY <2>1, CountFinite DEF Opened, Shape
  <2> QED BY <2>1, <2>2, <2>3, <2>4 DEF LevelInv, NamespacesInv
<1> QED BY <1>1, StepInvInit, StepInvNext, PTL DEF Spec

-----------------------------------------------------------------------------
(***************************************************************************)
(* Names.                                                                  *)
(***************************************************************************)

\* The part that was added last is the last of its vector.
LastIn(s, v) ==
  LET is == {i \in DOMAIN s : s[i][1] = v}
  IN IF is = {} THEN Null ELSE s[CHOOSE i \in is : \A j \in is : j <= i][2]

LEMMA LastOfAppended ==
  ASSUME NEW s \in Seq(Vectors \X Dies), NEW v \in Vectors, NEW d \in Dies
  PROVE  LastIn(Append(s, <<v, d>>), v) = d
<1> DEFINE t == Append(s, <<v, d>>)
           is == {i \in DOMAIN t : t[i][1] = v}
<1>1. PICK n : n = Len(s) + 1
  OBVIOUS
<1>2. n \in Nat /\ n >= 1 /\ DOMAIN t = 1 .. n /\ t[n] = <<v, d>>
  <2>1. <<v, d>> \in Vectors \X Dies
    OBVIOUS
  <2>2. Len(s) \in Nat
    OBVIOUS
  <2>3. Len(t) = Len(s) + 1 /\ t \in Seq(Vectors \X Dies) /\ t[Len(s) + 1] = <<v, d>>
    BY <2>1, AppendProperties
  <2> QED BY <1>1, <2>2, <2>3, LenProperties
<1> HIDE DEF t
<1>3. n \in is /\ \A j \in is : j <= n
  BY <1>2
<1>4. \A i \in is : (\A j \in is : j <= i) <=> i = n
  BY <1>2, <1>3
<1>5. LastIn(t, v) = IF is = {} THEN Null ELSE t[CHOOSE i \in is : \A j \in is : j <= i][2]
  BY DEF LastIn
<1> HIDE DEF is
<1>6. (CHOOSE i \in is : \A j \in is : j <= i) = n
  BY <1>3, <1>4
<1>7. LastIn(t, v) = t[n][2]
  BY <1>3, <1>5, <1>6
<1> QED BY <1>2, <1>7 DEF t

LEMMA BackOfAppended ==
  ASSUME parts \in [Refs -> Seq(Vectors \X Dies)], NEW r \in Refs, NEW v \in Vectors, NEW d \in Dies,
         parts' = [parts EXCEPT ![r] = Append(@, <<v, d>>)]
  PROVE  LastIn(parts'[r], v) = d
<1>1. parts[r] \in Seq(Vectors \X Dies) /\ parts'[r] = Append(parts[r], <<v, d>>)
  OBVIOUS
<1> QED BY <1>1, LastOfAppended

\* A parameter of a function is one level below it.
LEMMA ParamsFit ==
  ASSUME WalkInv, BuilderInv, LevelInv, path # <<>>, Top # Null,
         Parent.tag \in {"subprogram", "subroutine_type"}
  PROVE  ParamFits(m_level) /\ Top = Parent.id
<1>1. TopOK /\ Shape /\ ElementsOK
  BY TopFacts, WalkShape DEF BuilderInv
<1>2. Top = Parent.id /\ Own(Parent.id) = Parent.id /\ m_stack # <<>>
  BY <1>1 DEF TopOK
<1>3. PICK p : p = Parent.id
  OBVIOUS
<1>4. p \in DOMAIN tree /\ p \in Refs /\ tree[p].tag = Parent.tag /\ OnPath = tree[p].above \cup {p}
  BY <1>1, <1>3, RefsFact DEF Shape
<1>5. ~LostVariants
  BY NoVariantsAbove
<1>6. Cardinality({d \in OnPath : TypeOf(d) \notin Scopes}) = m_level - ns_count
  BY <1>5, TypesOfPath, ScopesOfPath DEF LevelInv, BuilderInv, StackOK
<1>7. TypeOf(p) \notin Scopes /\ p # Null
  BY <1>1, <1>2, <1>3, <1>4, RefsFact DEF ElementsOK, TagType, TypeOf, Own, Scopes
<1> DEFINE above == {d \in tree[p].above : TypeOf(d) \notin Scopes}
<1>8. Cardinality({d \in OnPath : TypeOf(d) \notin Scopes}) = Cardinality(above \cup {p})
  <2>1. {d \in OnPath : TypeOf(d) \notin Scopes} = above \cup {p}
    BY <1>4, <1>7
  <2> QED BY <2>1
<1>9. IsFiniteSet(above) /\ p \notin above
  <2>1. Elders(p) /\ p \in Nat
    BY <1>1, <1>4 DEF WalkInv, TreeOK, Shape
  <2>2. above \subseteq 1 .. p - 1
    BY <2>1 DEF Elders
  <2>3. IsFiniteSet(1 .. p - 1)
    BY <2>1, FS_Interval
  <2> QED BY <2>1, <2>2, <2>3, FS_Subset
<1>10. Cardinality(above \cup {p}) = Cardinality(above) + 1 /\ Cardinality(above) \in Nat
  BY <1>9, FS_AddElement, FS_CardinalityType
<1>11. obj[p].level = Cardinality(above)
  BY <1>2, <1>3, <1>4, <1>7 DEF LevelInv, LevelIsDepth, Depth
<1> HIDE DEF above
<1>12. obj[p].level = m_level - ns_count - 1
  <2>1. m_level \in Int /\ ns_count \in Int
    BY <1>1 DEF BuilderInv, StackOK, PointersOK, Shape
  <2> QED BY <1>6, <1>8, <1>10, <1>11, <2>1
<1> QED BY <1>2, <1>3, <1>7, <1>12 DEF ParamFits

LEMMA TargetOfOwn ==
  ASSUME NEW type \in ElementTypes, NEW n, AddOwn(type, n, m_level),
         type \notin {"none", "var_type", "formal_param", "enumerator", "member"}
  PROVE  NameTarget' \in {Null, n}
<1>1. back' = n /\ recent_' \in {Null, n} /\ current_element_type_' = type
  BY DEF AddOwn
<1> QED BY <1>1 DEF NameTarget

LEMMA TargetOfNew ==
  ASSUME WalkInv, BuilderInv, LevelInv,
         NEW n, NEW tag, NEW kids \in BOOLEAN, NewDie(n, tag, kids), HasName(tag)
  PROVE  NameTarget' \in {Null, n}
<1>1. Register(n, tag, kids) /\ NewHere(n) /\ ElementsOK /\ PointersOK
  BY NewHereFacts DEF NewDie, BuilderInv
<1>2. CASE \E type \in {"structure_type", "type", "subroutine_type", "enumerator_type", "ns_start",
                        "subroutine"} : AddOwn(type, n, m_level)
  BY <1>2, TargetOfOwn DEF ElementTypes
<1>3. CASE tag \in {"member", "enumerator"} /\ AddPart(tag, n)
  <2>1. /\ m_stack # <<>> /\ m_stack' = m_stack /\ back' = back
        /\ current_element_type_ = "none" \/ (Top # Null /\ Top \in Refs /\ back # Null)
    BY <1>3, PartsHaveTop DEF AddPart
  <2>2. CASE current_element_type_ = "none"
    BY <1>3, <2>2 DEF AddPart, NameTarget
  <2>3. CASE current_element_type_ # "none"
    <3>1. /\ current_element_type_' = tag
          /\ parts' = [parts EXCEPT ![Top] = Append(@, <<tag, n>>)]
      BY <1>3, <2>1, <2>3 DEF AddPart
    <3>2. PICK r \in Refs : r = Top
      BY <2>1, <2>3
    <3>3. LastIn(parts'[r], tag) = n
      <4>1. tag \in Vectors
        BY <1>3 DEF Vectors
      <4>2. /\ parts \in [Refs -> Seq(Vectors \X Dies)] /\ n \in Dies
            /\ parts' = [parts EXCEPT ![r] = Append(@, <<tag, n>>)]
        BY <1>1, <3>1, <3>2 DEF NewHere
      <4> QED BY <3>2, <4>1, <4>2, BackOfAppended
    <3>4. Top' = r
      BY <2>1, <3>2 DEF Top, LastOf
    <3>5. current_element_type_' \in {"enumerator", "member"} =>
            NameTarget' \in {Null, LastIn(parts'[Top'], current_element_type_')}
      BY DEF NameTarget, BackOf, LastIn
    <3> QED BY <1>3, <3>1, <3>3, <3>4, <3>5
  <2> QED BY <2>2, <2>3
<1>4. CASE AddVar(n, m_level)
  <2>1. last_var_' \in {Null, n} /\ current_element_type_' \in {"none", "var_type"}
    BY <1>4 DEF AddVar
  <2> QED BY <2>1 DEF NameTarget
<1>5. CASE /\ current_element_type_' = "method" /\ recent_' = n
  BY <1>1, <1>5 DEF NameTarget, NewHere
<1>6. CASE tag = "formal_parameter" /\ AddFormalParam(n, m_level)
  <2>1. /\ current_element_type_' = "formal_param" /\ UNCHANGED <<m_stack, obj>>
        /\ parts' = IF ParamFits(m_level) THEN [parts EXCEPT ![Top] = Append(@, <<"param", n>>)]
                                          ELSE parts
    BY <1>6 DEF AddFormalParam, pointerVars
  <2>2. path # <<>> /\ m_stack # <<>> /\ Parent.tag \in {"subroutine_type", "subprogram", "pack", "other"}
        /\ Top \in Refs \cup {Null}
    BY <1>1, <1>6, KindsOfChildren DEF NewDie, NewHere, TopOK, Shape
  <2>3. Top' = Top
    BY <2>1 DEF Top, LastOf
  <2>4. CASE Top = Null
    BY <2>1, <2>3, <2>4 DEF NameTarget, TypeOf
  <2>5. CASE Top # Null
    <3>1. Parent.tag \in {"subprogram", "subroutine_type"}
      <4>1. tree[Parent.id].made /\ Parent.id \in DOMAIN tree /\ tree[Parent.id].tag = Parent.tag
        BY <1>1, <2>2, <2>5 DEF NewHere, TopOK, Shape
      <4> QED BY <1>1, <2>2, <4>1 DEF ElementsOK
    <3>2. ParamFits(m_level)
      BY <2>2, <2>5, <3>1, ParamsFit
    <3>3. PICK r \in Refs : r = Top
      BY <2>2, <2>5
    <3>4. LastIn(parts'[r], "param") = n
      BY <1>1, <2>1, <3>2, <3>3, BackOfAppended DEF NewHere, Vectors
    <3>5. current_element_type_' = "formal_param" =>
            NameTarget' \in {Null, LastIn(parts'[Top'], "param")}
      BY DEF NameTarget, BackOf, LastIn
    <3> QED BY <2>1, <2>3, <3>3, <3>4, <3>5
  <2> QED BY <2>4, <2>5
<1>7. CASE AddNone
  BY <1>7 DEF AddNone, NameTarget
<1> QED BY <1>1, <1>2, <1>3, <1>4, <1>5, <1>6, <1>7 DEF Register, HasName, AddSubroutine

LEMMA NameInvInit == Init => NameInv
  BY RefsFact DEF Init, BuilderInit, NameInv, NamesOfTheirDie

LEMMA NameInvNext == StepInv /\ NameInv /\ [Next]_allVars => NameInv'
<1> SUFFICES ASSUME StepInv, NameInv, [Next]_allVars PROVE NameInv'
  OBVIOUS
<1>1. WalkInv /\ BuilderInv /\ LevelInv /\ NamesOfTheirDie
  BY DEF StepInv, NameInv
<1>2. ASSUME NEW tag, NEW kids \in BOOLEAN, ReadDie(tag, kids) PROVE NameInv'
  <2>1. PICK n : NewDie(n, tag, kids)
    BY <1>1, <1>2, ReadDieIsNewDie
  <2>2. named' = named /\ die' = [id |-> n, tag |-> tag, kids |-> kids]
    BY <1>1, <2>1, RegisteredFacts DEF Registered, NewDie
  <2>3. HasName(tag) => NameTarget' \in {Null, n}
    BY <1>1, <2>1, TargetOfNew
  <2>4. HasName(die.tag)' <=> HasName(tag)
    BY <2>2 DEF HasName
  <2> QED BY <1>1, <2>2, <2>3, <2>4 DEF NameInv, NamesOfTheirDie
<1>3. CASE ReadName
  <2>1. named' = named \/
          (HasName(die.tag) /\ NameTarget # Null /\ named' = [named EXCEPT ![NameTarget] = die.id])
    BY <1>3 DEF ReadName, SetElementName, Crash, builderVars
  <2>2. HasName(die.tag) => NameTarget \in {Null, die.id}
    BY <1>3 DEF NameInv, ReadName
  <2>3. at' # "name" /\ named \in [Refs -> Dies \cup {Null}]
    BY <1>1, <1>3 DEF ReadName, BuilderInv, PointersOK
  <2> QED BY <1>1, <2>1, <2>2, <2>3, RefsFact DEF NameInv, NamesOfTheirDie
<1>4. CASE named' = named /\ at' # "name"
  BY <1>1, <1>4 DEF NameInv, NamesOfTheirDie
<1>5. CASE EndOfKids
  <2>1. named' = named \/ Closed
    BY <1>1, <1>5, EndOfKidsShorterStack
  <2>2. \A d \in Dies : named'[d] = named[d]
    BY <1>1, <2>1, RefsFact DEF Closed, BuilderInv, PointersOK
  <2> QED BY <1>1, <1>5, <2>2 DEF NameInv, NamesOfTheirDie, EndOfKids
<1>6. CASE EndOfUnit
  <2>1. NothingRead'
    BY <1>6, EndOfUnitNothing
  <2> QED BY <2>1, RefsFact DEF NothingRead, NameInv, NamesOfTheirDie
<1>7. CASE UNCHANGED allVars
  <2>1. UNCHANGED <<named, at, die, current_element_type_, back, recent_, last_var_, m_stack, obj, parts>>
    BY <1>7 DEF allVars, walkVars, builderVars, listVars, pointerVars, nsVars
  <2>2. NameTarget' = NameTarget
    BY <2>1 DEF NameTarget, BackOf, TypeOf, Top, LastOf
  <2> QED BY <1>1, <2>1, <2>2 DEF NameInv, NamesOfTheirDie, HasName
<1>8. CASE ReadLocation \/ PostProcess \/ SkipKids
  <2>1. named' = named /\ at' # "name"
    BY <1>8 DEF ReadLocation, PostProcess, SkipKids, NextDie, SetLocation, Crash, OpenNamespace,
                DropDumped, builderVars
  <2> QED BY <1>4, <2>1
<1>9. CASE ReadKids
  <2>1. named' = named /\ at' # "name"
    BY <1>1, <1>9, ReadKidsLongerStack DEF ReadKids, NextDie, LongerStack
  <2> QED BY <1>4, <2>1
<1> QED BY <1>2, <1>3, <1>5, <1>6, <1>7, <1>8, <1>9 DEF Next

\* A name that an attribute gives lands in the element or the part that was made of
\* the very DIE it was read from, whatever the "current" variables point to.
THEOREM NamesKept == Spec => []NamesOfTheirDie
<1>1. Init => StepInv /\ NameInv
  BY StepInvInit, NameInvInit
<1>2. StepInv /\ NameInv /\ [Next]_allVars => StepInv' /\ NameInv'
  BY StepInvNext, NameInvNext
<1>3. NameInv => NamesOfTheirDie
  BY DEF NameInv
<1> QED BY <1>1, <1>2, <1>3, PTL DEF Spec

-----------------------------------------------------------------------------
(***************************************************************************)
(* Parts and local variables.                                              *)
(***************************************************************************)

\* What get_top_func finds from an entry of the path: the innermost function; none,
\* when there is none, or a DIE without an element is in between.
FuncIsOf(i) ==
  LET f == FuncAbove[m_stack[i]]
      functions == {a \in OnPathTo(i) : IsFunction(a)}
  IN IF f # Null THEN f \in functions /\ \A a \in functions : a <= f
     ELSE (\A a \in OnPathTo(i) : a # 1 => Own(a) # Null) => functions = {}

\* An entry of the path that is no part of a variant.
LEMMA EntryOfPath ==
  ASSUME WalkInv, BuilderInv, NEW i \in DOMAIN path, Parent.tag \notin {"variant", "variant_part"}
  PROVE  LET d == path[i].id
         IN /\ d \in DOMAIN tree /\ d \in Refs /\ d # Null
            /\ i \in DOMAIN m_stack /\ m_stack[i] \in Refs \cup {Null}
            /\ d = 1 <=> i = 1
            /\ IF tree[d].made THEN Own(d) = d /\ m_stack[i] = d /\ i # 1 /\ obj[d] # NoObj
                               ELSE Own(d) = Null /\ m_stack[i] = Null /\ TypeOf(d) = "none"
<1> DEFINE d == path[i].id
<1>1. Shape /\ EntryOK(i) /\ ElementsOK /\ PointersOK /\ DOMAIN m_stack = DOMAIN path
  BY WalkShape, ScopeEntriesFinite DEF BuilderInv, StackOK
<1>2. d \in DOMAIN tree /\ d \in Refs /\ d # Null /\ path[i].tag = tree[d].tag
      /\ path[i].tag \in Parents /\ path[i].tag \notin {"variant", "variant_part"}
  BY <1>1, PathStep, VariantsAreNear, RefsFact DEF Shape
<1>3. m_stack[i] \in Refs \cup {Null}
  BY <1>1, ElementOfSeq DEF PointersOK
<1>4. d = 1 <=> i = 1
  <2>1. d = 1 => tree[d].tag = "compile_unit"
    BY <1>2 DEF WalkInv, TreeOK, Elders
  <2> QED BY <1>2, <2>1, PathStep DEF WalkInv, PathOK
<1>5. CASE tree[d].made
  <2>1. Own(d) # Null
    BY <1>2, <1>5, NoElement, KindsOfParents
  <2>2. i # 1
    BY <1>1, <1>2, <1>5, PathStep DEF ElementsOK
  <2> QED BY <1>1, <1>2, <1>3, <1>4, <1>5, <2>1, <2>2 DEF EntryOK, Own
<1>6. CASE ~tree[d].made
  <2>1. obj[d] = NoObj
    BY <1>1, <1>2, <1>6 DEF ElementsOK
  <2> QED BY <1>1, <1>2, <1>3, <1>4, <1>6, <2>1, EmptyObj DEF EntryOK, Own, TypeOf
<1> QED BY <1>5, <1>6

LEMMA FuncOnPath ==
  ASSUME WalkInv, BuilderInv, OwnersOnPath, Parent.tag \notin {"variant", "variant_part"}
  PROVE  \A i \in DOMAIN path : FuncIsOf(i)
<1> DEFINE T == {i \in DOMAIN path : ~FuncIsOf(i)}
<1> SUFFICES ASSUME T # {} PROVE FALSE
  OBVIOUS
<1>1. Shape /\ ElementsOK
  BY WalkShape DEF BuilderInv
<1>2. PICK x \in T : \A y \in T : x <= y
  <2>1. T \in SUBSET Nat
    BY <1>1 DEF Shape
  <2> QED BY <2>1, LeastNumber
<1>3. x \in DOMAIN path /\ x \in Nat /\ ~FuncIsOf(x)
  BY <1>1, <1>2 DEF Shape
<1> HIDE DEF T
<1> DEFINE d == path[x].id
<1>4. /\ d \in DOMAIN tree /\ d \in Refs /\ d # Null
      /\ m_stack[x] \in Refs \cup {Null}
      /\ d = 1 <=> x = 1
      /\ IF tree[d].made THEN Own(d) = d /\ m_stack[x] = d /\ x # 1 /\ obj[d] # NoObj
                         ELSE Own(d) = Null /\ m_stack[x] = Null /\ TypeOf(d) = "none"
  BY <1>3, EntryOfPath
<1>5. FuncAbove[m_stack[x]] = FuncStep(FuncAbove, m_stack[x])
  BY <1>1, <1>4, FuncAboveEquation
<1>6. d \in OnPathTo(x) /\ (x = 1 => OnPathTo(x) = {d})
      /\ \A a \in OnPathTo(x) : a <= d
  <2>1. x \in 1 .. x /\ (x = 1 => 1 .. x = {1}) /\ \A j \in 1 .. x : j = x \/ j < x
    BY <1>1, <1>3 DEF Shape
  <2>2. \A j \in 1 .. x : j \in DOMAIN path
    BY <1>1, <1>3 DEF Shape
  <2>3. \A j \in 1 .. x : path[j].id <= d
    <3>1. \A j \in 1 .. x : j < x => path[j].id < d
      BY <1>3, <2>2 DEF WalkInv, PathOK
    <3>2. \A j \in 1 .. x : path[j].id \in Nat
      BY <2>2, PathStep
    <3> QED BY <2>1, <3>1, <3>2
  <2> QED BY <2>1, <2>3 DEF OnPathTo
<1>7. CASE ~tree[d].made
  <2>1. FuncAbove[m_stack[x]] = Null
    BY <1>4, <1>5, <1>7 DEF FuncStep
  <2>2. ~IsFunction(d)
    BY <1>4, <1>7 DEF IsFunction
  <2>3. CASE x = 1
    <3>1. {a \in OnPathTo(x) : IsFunction(a)} = {}
      BY <1>6, <2>2, <2>3
    <3> QED BY <1>3, <2>1, <3>1 DEF FuncIsOf
  <2>4. CASE x # 1
    BY <1>3, <1>4, <1>6, <1>7, <2>1, <2>4 DEF FuncIsOf
  <2> QED BY <2>3, <2>4
<1>8. CASE tree[d].made /\ IsFunction(d)
  <2>1. FuncAbove[m_stack[x]] = d
    BY <1>4, <1>5, <1>8 DEF FuncStep
  <2> QED BY <1>3, <1>4, <1>6, <1>8, <2>1 DEF FuncIsOf
<1>9. CASE tree[d].made /\ ~IsFunction(d)
  <2>1. x - 1 \in DOMAIN path /\ FuncIsOf(x - 1)
    <3>1. x - 1 \in DOMAIN path
      BY <1>3, <1>4, <1>9, PathStep
    <3>2. x - 1 \notin T
      BY <1>2, <1>3
    <3> QED BY <3>1, <3>2 DEF T
  <2>2. obj[d].owner = m_stack[x - 1] /\ obj[d].owner < d
    BY <1>1, <1>3, <1>4, <1>9 DEF OwnersOnPath, ElementsOK
  <2>3. d \in Nat
    BY <1>4, RefsFact
  <2>4. FuncAbove[m_stack[x]] = FuncAbove[m_stack[x - 1]]
    BY <1>4, <1>5, <1>9, <2>2, <2>3 DEF FuncStep
  <2>5. OnPathTo(x) = OnPathTo(x - 1) \cup {d}
    <3>1. \A j : j \in 1 .. x <=> j \in 1 .. x - 1 \/ j = x
      BY <1>3, <1>1 DEF Shape
    <3> QED BY <3>1 DEF OnPathTo
  <2>6. {a \in OnPathTo(x) : IsFunction(a)} = {a \in OnPathTo(x - 1) : IsFunction(a)}
    BY <1>9, <2>5
  <2>7. FuncIsOf(x)
    <3>1. CASE FuncAbove[m_stack[x]] # Null
      BY <2>1, <2>4, <2>6, <3>1 DEF FuncIsOf
    <3>2. CASE FuncAbove[m_stack[x]] = Null
      BY <2>1, <2>4, <2>5, <2>6, <3>2 DEF FuncIsOf
    <3> QED BY <3>1, <3>2
  <2> QED BY <1>3, <2>7
<1> QED BY <1>7, <1>8, <1>9

\* The top of the stack is where a part of the DIE that is read belongs.
LEMMA TopIsScope ==
  ASSUME WalkInv, BuilderInv, NEW n, NEW tag, NEW kids \in BOOLEAN, NewDie(n, tag, kids),
         path # <<>>, Top # Null,
         Parent.tag \in {"variant", "variant_part"} => current_element_type_ # "none"
  PROVE  /\ Top \in DOMAIN tree /\ Top \in Refs
         /\ \A r, v : r = Top /\ v # "lvar" => Placed(r, v, n)'
<1>1. TopOK /\ Shape
  BY TopFacts, WalkShape
<1>2. PICK p : p = Parent.id
  OBVIOUS
<1>3. PICK s : s = IF Parent.tag = "variant" THEN tree[p].parent ELSE p
  OBVIOUS
<1>4. /\ p \in DOMAIN tree /\ tree[p].tag = Parent.tag /\ tree'[p] = tree[p] /\ p \in DOMAIN tree'
      /\ tree'[n].parent = p /\ n \in DOMAIN tree'
  BY <1>1, <1>2 DEF Shape, NewDie
<1>5. Top = s /\ s \in DOMAIN tree
  <2>1. CASE Parent.tag \notin {"variant", "variant_part"}
    BY <1>1, <1>2, <1>3, <1>4, <2>1 DEF TopOK
  <2>2. CASE Parent.tag = "variant_part"
    BY <1>1, <1>2, <1>3, <1>4, <2>2 DEF TopOK
  <2>3. CASE Parent.tag = "variant"
    <3>1. /\ Len(path) \in DOMAIN path /\ Parent = path[Len(path)] /\ Top = m_stack[Len(path)]
      BY <1>1 DEF Shape, TopOK
    <3>2. EntryOK(Len(path)) /\ path[Len(path)].tag = "variant"
      BY <2>3, <3>1 DEF BuilderInv, StackOK
    <3>3. Top = path[Len(path) - 1].id
      BY <2>3, <3>1, <3>2 DEF EntryOK
    <3>4. Len(path) # 1 /\ Len(path) - 1 \in DOMAIN path
      BY <2>3, <3>1, PathStep
    <3>5. tree[p].parent = path[Len(path) - 1].id /\ path[Len(path) - 1].id \in DOMAIN tree
      BY <1>2, <3>1, <3>4 DEF WalkInv, PathOK
    <3> QED BY <1>3, <2>3, <3>3, <3>5
  <2> QED BY <2>1, <2>2, <2>3
<1>6. Scope(n)' = s
  BY <1>3, <1>4 DEF Scope
<1>7. s \in DOMAIN tree' /\ s \in Refs
  BY <1>1, <1>5, RefsFact DEF NewDie, Shape
<1> QED BY <1>4, <1>5, <1>6, <1>7 DEF Placed

\* What RegisterNewTag adds to an element's parts.
NewPlaced(n) ==
  \/ parts' = parts
  \/ \E r \in Refs, v \in Vectors :
       parts' = [parts EXCEPT ![r] = Append(@, <<v, n>>)] /\ Placed(r, v, n)'

LEMMA TopPlaced ==
  ASSUME WalkInv, BuilderInv, NEW n, NEW tag, NEW kids \in BOOLEAN, NewDie(n, tag, kids),
         path # <<>>, Top # Null, NEW v \in Vectors, v # "lvar",
         Parent.tag \in {"variant", "variant_part"} => current_element_type_ # "none",
         parts' = [parts EXCEPT ![Top] = Append(@, <<v, n>>)]
  PROVE  NewPlaced(n)
<1>1. PICK r : r = Top
  OBVIOUS
<1>2. r \in Refs /\ Placed(r, v, n)'
  BY <1>1, TopIsScope
<1> QED BY <1>1, <1>2 DEF NewPlaced

LEMMA OwnPlaced ==
  ASSUME WalkInv, BuilderInv, NEW n, NEW tag, NEW kids \in BOOLEAN, NewDie(n, tag, kids),
         NEW type, TagType(tag, type), AddOwn(type, n, m_level)
  PROVE  NewPlaced(n)
<1>1. NewHere(n)
  BY NewHereFacts
<1>2. \/ parts' = parts
      \/ /\ get_owner # Null /\ type \in NestedTypes
         /\ parts' = [parts EXCEPT ![Top] = Append(@, <<"nested", n>>)]
  BY DEF AddOwn
<1>3. ASSUME get_owner # Null, type \in NestedTypes PROVE path # <<>> /\ Top # Null
        /\ Parent.tag \notin {"variant", "variant_part"}
  <2>1. path # <<>> /\ Top # Null
    BY <1>1, <1>3 DEF NewHere, TopOK
  <2>2. tag \in {"structure_type", "enumeration_type"}
    BY <1>3 DEF TagType, NestedTypes
  <2>3. Parent.tag \in Parents /\ tag \in ChildTags[Parent.tag]
    BY <1>1, <2>1 DEF NewDie, Shape, NewHere
  <2> QED BY <2>1, <2>2, <2>3, KindsOfChildren
<1>4. "nested" \in Vectors /\ "nested" # "lvar"
  BY DEF Vectors
<1> QED BY <1>2, <1>3, <1>4, TopPlaced DEF NewPlaced

LEMMA VarPlaced ==
  ASSUME WalkInv, BuilderInv, OwnersOnPath,
         NEW n, NEW kids \in BOOLEAN, NewDie(n, "variable", kids), AddVar(n, m_level)
  PROVE  NewPlaced(n)
<1>1. NewHere(n) /\ Shape /\ TopOK
  BY NewHereFacts DEF NewHere
<1>2. path # <<>> /\ Parent.tag \notin {"variant", "variant_part"} /\ get_owner = Top
  BY <1>1, KindsOfChildren DEF NewDie, TopOK, Shape
<1>3. PICK o : o = IF get_top_func # Null THEN get_top_func
                   ELSE IF TypeOf(Top) = "structure_type" THEN Top ELSE Null
  OBVIOUS
<1>4. parts' = parts \/ (o # Null /\ Top # Null /\ parts' = [parts EXCEPT ![o] = Append(@, <<"lvar", n>>)])
  BY <1>3 DEF AddVar, listVars
<1>5. ASSUME o # Null, Top # Null PROVE o \in OnPath /\ \A a \in OnPath : IsFunction(a) => a <= o
  <2>1. CASE get_top_func # Null
    <3>1. Len(path) \in DOMAIN path /\ OnPathTo(Len(path)) = OnPath
      BY <1>1, <1>2 DEF Shape, OnPath, OnPathTo
    <3>2. get_top_func = FuncAbove[m_stack[Len(path)]]
      BY <1>1, <1>2 DEF get_top_func, TopOK
    <3>3. FuncIsOf(Len(path))
      BY <1>2, <3>1, FuncOnPath
    <3> QED BY <1>3, <2>1, <3>1, <3>2, <3>3 DEF FuncIsOf
  <2>2. CASE get_top_func = Null
    <3>1. o = Parent.id
      BY <1>1, <1>2, <1>3, <1>5, <2>2 DEF TopOK
    <3>2. \A a \in OnPath : a <= Parent.id
      BY PathStep DEF OnPath
    <3> QED BY <1>1, <1>2, <3>1, <3>2 DEF Shape
  <2> QED BY <2>1, <2>2
<1>6. ASSUME o \in OnPath, \A a \in OnPath : IsFunction(a) => a <= o
      PROVE  o \in Refs /\ Placed(o, "lvar", n)'
  <2>1. o \in DOMAIN tree /\ o \in Refs /\ o \in DOMAIN tree' /\ n \in DOMAIN tree'
    BY <1>1, <1>6, RefsFact DEF Shape, NewDie
  <2>2. tree'[n].above = OnPath /\ tree'[n].parent \in DOMAIN tree'
    BY <1>1, <1>2 DEF NewDie, Shape
  <2>3. \A a \in OnPath : TypeOf(a)' = TypeOf(a)
    BY ReadDieKeepsEntries DEF OnPath
  <2>4. \A a \in OnPath : IsFunction(a)' => a <= o
    BY <1>6, <2>3 DEF IsFunction
  <2> QED BY <1>6, <2>1, <2>2, <2>4 DEF Placed
<1>7. "lvar" \in Vectors
  BY DEF Vectors
<1> QED BY <1>4, <1>5, <1>6, <1>7 DEF NewPlaced

LEMMA PartsPlaced ==
  ASSUME WalkInv, BuilderInv, OwnersOnPath,
         NEW n, NEW tag, NEW kids \in BOOLEAN, NewDie(n, tag, kids)
  PROVE  NewPlaced(n)
<1>1. Register(n, tag, kids) /\ NewHere(n) /\ Shape /\ TopOK
  BY NewHereFacts DEF NewDie, NewHere
<1>2. CASE \E type : TagType(tag, type) /\ AddOwn(type, n, m_level)
  BY <1>2, OwnPlaced
<1>3. CASE tag \in {"member", "inheritance", "enumerator"} /\ AddPart(tag, n)
  <2>1. /\ path # <<>> /\ m_stack # <<>>
        /\ current_element_type_ = "none" \/ (Top # Null /\ Top \in Refs /\ back # Null)
    BY <1>3, PartsHaveTop
  <2>2. CASE current_element_type_ = "none"
    BY <1>3, <2>2 DEF AddPart, NewPlaced
  <2>3. CASE current_element_type_ # "none"
    <3>1. parts' = [parts EXCEPT ![Top] = Append(@, <<tag, n>>)]
      BY <1>3, <2>1, <2>3 DEF AddPart
    <3>2. tag \in Vectors /\ tag # "lvar"
      BY <1>3 DEF Vectors
    <3> QED BY <2>1, <2>3, <3>1, <3>2, TopPlaced
  <2> QED BY <2>2, <2>3
<1>4. CASE tag = "variant_part" /\ AddVariantPart(n, m_level)
  <2>1. path # <<>> /\ Top # Null
    BY <1>4, PartsHaveTop
  <2>2. CASE parts' = parts
    BY <2>2 DEF NewPlaced
  <2>3. CASE parts' # parts
    <3>1. parts' = [parts EXCEPT ![Top] = Append(@, <<"member", n>>)] /\ current_element_type_ # "none"
      BY <1>4, <2>3 DEF AddVariantPart, listVars
    <3>2. "member" \in Vectors /\ "member" # "lvar"
      BY DEF Vectors
    <3> QED BY <2>1, <3>1, <3>2, TopPlaced
  <2> QED BY <2>2, <2>3
<1>5. CASE tag = "variable" /\ AddVar(n, m_level)
  BY <1>5, VarPlaced
<1>6. CASE tag = "subprogram" /\ AddSubroutine(n, m_level)
  <2>1. CASE can_have_methods(m_level - ns_count)
    <3>1. m_stack # <<>> /\ Top # Null /\ parts' = [parts EXCEPT ![Top] = Append(@, <<"method", n>>)]
      BY <1>6, <2>1 DEF AddSubroutine, can_have_methods
    <3>2. path # <<>> /\ Parent.tag \notin {"variant", "variant_part"}
      BY <1>1, <1>6, <3>1, KindsOfChildren DEF NewDie, TopOK, Shape
    <3>3. "method" \in Vectors /\ "method" # "lvar"
      BY DEF Vectors
    <3> QED BY <3>1, <3>2, <3>3, TopPlaced
  <2>2. CASE ~can_have_methods(m_level - ns_count)
    BY <1>2, <1>6, <2>2 DEF AddSubroutine, TagType
  <2> QED BY <2>1, <2>2
<1>7. CASE tag = "formal_parameter" /\ AddFormalParam(n, m_level)
  <2>1. CASE ParamFits(m_level)
    <3>1. m_stack # <<>> /\ Top # Null /\ parts' = [parts EXCEPT ![Top] = Append(@, <<"param", n>>)]
      BY <1>7, <2>1 DEF AddFormalParam, ParamFits
    <3>2. path # <<>> /\ Parent.tag \notin {"variant", "variant_part"}
      BY <1>1, <1>7, <3>1, KindsOfChildren DEF NewDie, TopOK, Shape
    <3>3. "param" \in Vectors /\ "param" # "lvar"
      BY DEF Vectors
    <3> QED BY <3>1, <3>2, <3>3, TopPlaced
  <2>2. CASE ~ParamFits(m_level)
    BY <1>7, <2>2 DEF AddFormalParam, NewPlaced
  <2> QED BY <2>1, <2>2
<1>8. CASE parts' = parts
  BY <1>8 DEF NewPlaced
<1>9. (AddNone \/ AddVariant \/ AddSubrange) => parts' = parts
  BY DEF AddNone, AddVariant, AddSubrange, Crash, builderVars, listVars
<1> QED BY <1>1, <1>2, <1>3, <1>4, <1>5, <1>6, <1>7, <1>8, <1>9 DEF Register, TagType

\* What was read stays what it is.
TreeKept ==
  /\ DOMAIN tree \subseteq DOMAIN tree'
  /\ \A d \in DOMAIN tree :
       /\ tree'[d].tag = tree[d].tag /\ tree'[d].parent = tree[d].parent
       /\ tree'[d].above = tree[d].above /\ tree'[d].made = tree[d].made
       /\ TypeOf(d)' = TypeOf(d) /\ Own(d)' = Own(d)

LEMMA ReadDieKeepsTree ==
  ASSUME WalkInv, BuilderInv, NEW n, NEW tag, NEW kids \in BOOLEAN, NewDie(n, tag, kids)
  PROVE  TreeKept
<1>1. Registered(n, tag) /\ NewHere(n) /\ Shape
  BY RegisteredFacts, NewHereFacts DEF NewHere
<1>2. \A d \in DOMAIN tree : d \in Refs /\ d # n /\ d # Null /\ tree'[d] = tree[d]
  BY <1>1, RefsFact DEF NewHere, Shape, NewDie
<1>3. \A d \in DOMAIN tree : obj'[d] = obj[d]
  BY <1>1, <1>2 DEF Registered
<1> QED BY <1>2, <1>3 DEF TreeKept, NewDie, TypeOf, Own

LEMMA SamePointersKeepTree ==
  ASSUME WalkInv, SamePointers PROVE TreeKept
<1>1. \A d \in DOMAIN tree : TypeOf(d)' = TypeOf(d) /\ Own(d)' = Own(d)
  BY SameTypes, WalkShape, RefsFact DEF SamePointers, Shape
<1> QED BY <1>1 DEF SamePointers, SameTree, TreeKept

LEMMA PlacedStays ==
  ASSUME WalkInv, TreeKept, NEW r, NEW v, NEW d, Placed(r, v, d)
  PROVE  Placed(r, v, d)'
<1>1. /\ r \in DOMAIN tree /\ d \in DOMAIN tree /\ tree[d].parent \in DOMAIN tree
      /\ r \in DOMAIN tree' /\ d \in DOMAIN tree' /\ tree[d].parent \in DOMAIN tree'
  BY DEF Placed, TreeKept
<1>2. Scope(d)' = Scope(d)
  BY <1>1 DEF Scope, TreeKept
<1>3. tree[d].above \subseteq DOMAIN tree
  <2>1. Elders(d) /\ d \in Nat
    BY <1>1, WalkShape DEF WalkInv, TreeOK, Shape
  <2> QED BY <1>1, <2>1, WalkShape DEF Elders, Shape
<1>4. \A a \in tree[d].above : IsFunction(a)' <=> IsFunction(a)
  BY <1>3 DEF IsFunction, TreeKept
<1>5. tree'[d].above = tree[d].above /\ tree'[d].parent = tree[d].parent
  BY <1>1 DEF TreeKept
<1>6. CASE v # "lvar"
  BY <1>1, <1>2, <1>5, <1>6 DEF Placed
<1>7. CASE v = "lvar"
  <2>1. r \in tree'[d].above /\ \A a \in tree'[d].above : IsFunction(a)' => a <= r
    BY <1>4, <1>5, <1>7 DEF Placed
  <2> QED BY <1>1, <1>5, <1>7, <2>1 DEF Placed
<1> QED BY <1>6, <1>7

LEMMA PartsStay ==
  ASSUME WalkInv, PartsInv, TreeKept, parts' = parts
  PROVE  \A r \in Refs : \A i \in DOMAIN parts'[r] : Placed(r, parts[r][i][1], parts[r][i][2])'
<1> SUFFICES ASSUME NEW r \in Refs, NEW i \in DOMAIN parts'[r]
             PROVE  Placed(r, parts[r][i][1], parts[r][i][2])'
  OBVIOUS
<1>1. PICK v : v = parts[r][i][1]
  OBVIOUS
<1>2. PICK d : d = parts[r][i][2]
  OBVIOUS
<1>3. Placed(r, v, d)
  BY <1>1, <1>2 DEF PartsInv
<1>4. Placed(r, v, d)'
  BY <1>3, PlacedStays
<1> QED BY <1>1, <1>2, <1>4 DEF Placed, Scope

LEMMA PartsGrow ==
  ASSUME WalkInv, BuilderInv, PartsInv, TreeKept, NEW n, NewPlaced(n), n \in Dies
  PROVE  \A r \in Refs : \A i \in DOMAIN parts'[r] : Placed(r, parts[r][i][1], parts[r][i][2])'
<1>1. CASE parts' = parts
  BY <1>1, PartsStay
<1>2. ASSUME NEW o \in Refs, NEW w \in Vectors,
             parts' = [parts EXCEPT ![o] = Append(@, <<w, n>>)], Placed(o, w, n)'
      PROVE  \A r \in Refs : \A i \in DOMAIN parts'[r] : Placed(r, parts[r][i][1], parts[r][i][2])'
  <2> SUFFICES ASSUME NEW r \in Refs, NEW i \in DOMAIN parts'[r]
               PROVE  Placed(r, parts[r][i][1], parts[r][i][2])'
    OBVIOUS
  <2>1. parts \in [Refs -> Seq(Vectors \X Dies)] /\ parts[r] \in Seq(Vectors \X Dies)
    BY DEF BuilderInv, PointersOK
  <2>2. PICK v : v = parts'[r][i][1]
    OBVIOUS
  <2>3. PICK d : d = parts'[r][i][2]
    OBVIOUS
  <2>4. (i \in DOMAIN parts[r] /\ parts'[r][i] = parts[r][i]) \/ (r = o /\ v = w /\ d = n)
    <3>1. CASE r # o
      BY <1>2, <2>1, <3>1
    <3>2. CASE r = o
      <4>1. parts'[r] = Append(parts[r], <<w, n>>) /\ <<w, n>> \in Vectors \X Dies
        BY <1>2, <2>1, <3>2
      <4>2. PICK k : k = Len(parts[r])
        OBVIOUS
      <4>3. /\ k \in Nat /\ DOMAIN parts[r] = 1 .. k /\ DOMAIN parts'[r] = 1 .. k + 1
            /\ \A j \in 1 .. k : parts'[r][j] = parts[r][j] /\ parts'[r][k + 1] = <<w, n>>
            /\ parts'[r][k + 1] = <<w, n>>
        BY <2>1, <4>1, <4>2, AppendProperties, LenProperties
      <4>4. i \in 1 .. k \/ i = k + 1
        BY <4>3
      <4> QED BY <2>2, <2>3, <3>2, <4>3, <4>4
    <3> QED BY <3>1, <3>2
  <2>5. CASE i \in DOMAIN parts[r] /\ parts'[r][i] = parts[r][i]
    <3>1. Placed(r, v, d)
      BY <2>2, <2>3, <2>5 DEF PartsInv
    <3>2. Placed(r, v, d)'
      BY <3>1, PlacedStays
    <3> QED BY <2>2, <2>3, <3>2 DEF Placed, Scope
  <2>6. CASE r = o /\ v = w /\ d = n
    BY <1>2, <2>2, <2>3, <2>6 DEF Placed, Scope
  <2> QED BY <2>4, <2>5, <2>6
<1> QED BY <1>1, <1>2 DEF NewPlaced

LEMMA OwnerOfNew ==
  ASSUME WalkInv, BuilderInv, NEW n, NEW tag, NEW kids \in BOOLEAN, NewDie(n, tag, kids),
         kids, obj'[n] # NoObj
  PROVE  obj'[n].owner = get_owner
<1>1. Register(n, tag, kids) /\ NewHere(n) /\ tag \in Parents
  BY NewHereFacts DEF NewDie
<1>2. ASSUME NEW type, AddOwn(type, n, m_level) PROVE obj'[n].owner = get_owner
  BY <1>1, <1>2 DEF AddOwn, Element, NewHere
<1>3. AddVariantPart(n, m_level) => obj'[n].owner = get_owner
  BY <1>1 DEF AddVariantPart, Element, NewHere, listVars
<1>4. AddSubroutine(n, m_level) => obj'[n].owner = get_owner
  <2>1. can_have_methods(m_level - ns_count) /\ AddSubroutine(n, m_level) => obj'[n].owner = get_owner
    BY <1>1 DEF AddSubroutine, Element, NewHere
  <2> QED BY <1>2, <2>1 DEF AddSubroutine
<1>5. AddNone \/ AddSubrange \/ AddVariant => obj' = obj
  BY DEF AddNone, AddSubrange, AddVariant, Crash, builderVars, listVars
<1> QED BY <1>1, <1>2, <1>3, <1>4, <1>5 DEF Register, Parents, NewHere

LEMMA ReadDieParts ==
  ASSUME WalkInv, BuilderInv, PartsInv,
         NEW n, NEW tag, NEW kids \in BOOLEAN, NewDie(n, tag, kids)
  PROVE  PartsInv'
<1>1. Registered(n, tag) /\ NewHere(n) /\ TreeKept /\ NewPlaced(n)
  BY RegisteredFacts, NewHereFacts, ReadDieKeepsTree, PartsPlaced DEF PartsInv
<1>2. \A r \in Refs : \A i \in DOMAIN parts'[r] : Placed(r, parts[r][i][1], parts[r][i][2])'
  BY <1>1, PartsGrow DEF NewHere
<1>3. OwnersOnPath'
  <2>1. path' = path /\ m_stack' = m_stack
    BY <1>1 DEF NewDie, Registered
  <2>2. \A i \in DOMAIN path : obj'[path[i].id] = obj[path[i].id] /\ Own(path[i].id)' = Own(path[i].id)
    BY ReadDieKeepsEntries
  <2> QED BY <2>1, <2>2 DEF PartsInv, OwnersOnPath
<1>4. die' = [id |-> n, tag |-> tag, kids |-> kids] /\ get_owner' = get_owner
  BY <1>1 DEF NewDie, Registered, get_owner, Top, LastOf
<1>5. kids /\ Own(n)' # Null => obj'[n].owner = get_owner
  BY OwnerOfNew DEF Own
<1> QED BY <1>2, <1>3, <1>4, <1>5 DEF PartsInv, Own

LEMMA AttributeParts ==
  ASSUME WalkInv, BuilderInv, PartsInv, ReadName \/ ReadLocation \/ PostProcess \/ SkipKids
  PROVE  PartsInv'
<1>1. SamePointers /\ TreeKept /\ Shape
  BY ReadNameBuilder, ReadLocationBuilder, PostProcessBuilder, SkipKidsBuilder,
     SamePointersKeepTree, WalkShape
<1>2. \A r \in Refs : \A i \in DOMAIN parts'[r] : Placed(r, parts[r][i][1], parts[r][i][2])'
  BY <1>1, PartsStay DEF SamePointers
<1>3. \A d \in DOMAIN tree : obj'[d].owner = obj[d].owner /\ Own(d)' = Own(d)
  BY <1>1, RefsFact DEF SamePointers, SameElements, Shape, TreeKept
<1>4. OwnersOnPath'
  BY <1>1, <1>3, PathStep DEF PartsInv, OwnersOnPath, SamePointers
<1>5. get_owner' = get_owner
  BY <1>1 DEF SamePointers, get_owner, Top, LastOf
<1>6. at' = "die" \/ (at # "die" /\ die' = die /\ die.id \in DOMAIN tree)
  BY <1>1 DEF ReadName, ReadLocation, PostProcess, SkipKids, NextDie, WalkInv, DieOK, Shape
<1> QED BY <1>2, <1>3, <1>4, <1>5, <1>6 DEF PartsInv, Own

LEMMA ReadKidsParts == ASSUME WalkInv, BuilderInv, PartsInv, ReadKids PROVE PartsInv'
<1>1. LongerPath /\ LongerStack /\ Shape /\ TopOK
  BY ReadKidsLongerPath, ReadKidsLongerStack, WalkShape, TopFacts
<1>2. /\ UNCHANGED <<tree, obj, parts>> /\ at = "kids" /\ at' = "die" /\ die.kids
  BY <1>1 DEF ReadKids, LongerStack, listVars, NextDie
<1>3. TreeKept
  BY <1>2 DEF TreeKept, TypeOf, Own
<1>4. \A r \in Refs : \A i \in DOMAIN parts'[r] : Placed(r, parts[r][i][1], parts[r][i][2])'
  BY <1>2, <1>3, PartsStay
<1>5. PICK n : n = Len(path)
  OBVIOUS
<1>6. /\ n \in Nat /\ DOMAIN path = 1 .. n /\ DOMAIN path' = 1 .. n + 1
      /\ \A i \in 1 .. n : path'[i] = path[i] /\ m_stack'[i] = m_stack[i]
      /\ path'[n + 1] = die
      /\ get_owner = IF n = 0 THEN Null ELSE m_stack[n]
  BY <1>1, <1>5 DEF LongerPath, LongerStack, Shape, TopOK
<1>7. OwnersOnPath'
  <2> SUFFICES ASSUME NEW i \in 1 .. n + 1, Own(path[i].id)' # Null
               PROVE  obj'[path'[i].id].owner = IF i = 1 THEN Null ELSE m_stack'[i - 1]
    BY <1>6 DEF OwnersOnPath, Null
  <2>1. CASE i \in 1 .. n
    <3>1. path'[i] = path[i] /\ (i # 1 => i - 1 \in 1 .. n)
      BY <1>6, <2>1
    <3>2. Own(path[i].id) # Null
      BY <1>2, <3>1 DEF Own
    <3> QED BY <1>2, <1>6, <2>1, <3>1, <3>2 DEF PartsInv, OwnersOnPath
  <2>2. CASE i = n + 1
    <3>1. Own(die.id) # Null
      BY <1>2, <1>6, <2>2 DEF Own
    <3>2. obj[die.id].owner = get_owner
      BY <1>2, <3>1 DEF PartsInv
    <3>3. i # 1 => i - 1 = n /\ n \in 1 .. n /\ n # 0
      BY <1>6, <2>2
    <3>4. i = 1 => n = 0
      BY <1>6, <2>2
    <3> QED BY <1>2, <1>6, <2>2, <3>2, <3>3, <3>4
  <2> QED BY <1>6, <2>1, <2>2
<1> QED BY <1>2, <1>4, <1>7 DEF PartsInv

LEMMA EndOfKidsParts == ASSUME WalkInv, BuilderInv, PartsInv, EndOfKids PROVE PartsInv'
<1>1. ShorterPath /\ ShorterStack /\ Shape
  BY EndOfKidsShorterStack, ShorterPathByOne, WalkShape DEF EndOfKids
<1>2. /\ tree' = tree /\ at' = "die" /\ parts' = parts
      /\ \A r \in Dies : obj'[r] = obj[r]
  BY <1>1, EndOfKidsElements DEF EndOfKids, ShorterStack
<1>3. \A d \in DOMAIN tree : obj'[d] = obj[d] /\ d # Null
  BY <1>1, <1>2, RefsFact DEF Shape
<1>4. TreeKept
  BY <1>2, <1>3 DEF TreeKept, TypeOf, Own
<1>5. \A r \in Refs : \A i \in DOMAIN parts'[r] : Placed(r, parts[r][i][1], parts[r][i][2])'
  BY <1>2, <1>4, PartsStay
<1>6. OwnersOnPath'
  <2> SUFFICES ASSUME NEW i \in DOMAIN path', Own(path[i].id)' # Null
               PROVE  obj'[path'[i].id].owner = IF i = 1 THEN Null ELSE m_stack'[i - 1]
    BY DEF OwnersOnPath, Null
  <2>1. i \in DOMAIN path /\ path'[i] = path[i] /\ path[i].id \in DOMAIN tree
    BY <1>1, PathStep DEF ShorterPath
  <2>2. Own(path[i].id) # Null /\ obj'[path[i].id] = obj[path[i].id]
    BY <1>3, <2>1 DEF Own
  <2>3. i # 1 => i - 1 \in DOMAIN path'
    BY <1>1 DEF ShorterPath, Shape
  <2>4. i # 1 => m_stack'[i - 1] = m_stack[i - 1]
    BY <1>1, <2>3 DEF ShorterStack
  <2> QED BY <2>1, <2>2, <2>4 DEF PartsInv, OwnersOnPath
<1> QED BY <1>2, <1>5, <1>6 DEF PartsInv

LEMMA NothingReadParts == NothingRead => PartsInv
  BY DEF NothingRead, PartsInv, OwnersOnPath

LEMMA PartsInvInit == Init => PartsInv
  BY InitNothing, NothingReadParts

LEMMA PartsInvNext == WalkInv /\ BuilderInv /\ PartsInv /\ [Next]_allVars => PartsInv'
<1> SUFFICES ASSUME WalkInv, BuilderInv, PartsInv, [Next]_allVars PROVE PartsInv'
  OBVIOUS
<1>1. ASSUME NEW tag, NEW kids \in BOOLEAN, ReadDie(tag, kids) PROVE PartsInv'
  BY <1>1, ReadDieIsNewDie, ReadDieParts
<1>2. CASE EndOfUnit
  <2>1. NothingRead'
    BY <1>2, EndOfUnitNothing
  <2> QED BY <2>1 DEF NothingRead, PartsInv, OwnersOnPath
<1>3. CASE UNCHANGED allVars
  <2>1. UNCHANGED <<obj, m_stack, parts, at, die, tree, path>>
    BY <1>3 DEF allVars, walkVars, builderVars, listVars, pointerVars, nsVars
  <2>2. TreeKept
    BY <2>1 DEF TreeKept, TypeOf, Own
  <2>3. \A r \in Refs : \A i \in DOMAIN parts'[r] : Placed(r, parts[r][i][1], parts[r][i][2])'
    BY <2>1, <2>2, PartsStay
  <2>4. OwnersOnPath' /\ get_owner' = get_owner
    BY <2>1 DEF PartsInv, OwnersOnPath, Own, get_owner, Top, LastOf
  <2> QED BY <2>1, <2>3, <2>4 DEF PartsInv, Own
<1> QED BY <1>1, <1>2, <1>3, AttributeParts, ReadKidsParts, EndOfKidsParts DEF Next

\* A member, base, enumerator, parameter, nested type or method is recorded in the
\* element of the DIE it is a child of, a member of a variant in the variant part.
THEOREM PartsGoToTheirParent == Spec => []PartsOfTheirParent
<1>1. Init => StepInv /\ PartsInv
  BY StepInvInit, PartsInvInit
<1>2. StepInv /\ PartsInv /\ [Next]_allVars => StepInv' /\ PartsInv'
  BY StepInvNext, PartsInvNext DEF StepInv
<1>3. PartsInv => PartsOfTheirParent
  BY DEF PartsInv, Placed, PartsOfTheirParent
<1> QED BY <1>1, <1>2, <1>3, PTL DEF Spec

\* A local variable is recorded in something it is in, and no function that it is in
\* is nearer: get_top_func follows the owners past every lexical block and class.
THEOREM LocalsGoToTheirFunction == Spec => []LocalsOfTheirFunction
<1>1. Init => StepInv /\ PartsInv
  BY StepInvInit, PartsInvInit
<1>2. StepInv /\ PartsInv /\ [Next]_allVars => StepInv' /\ PartsInv'
  BY StepInvNext, PartsInvNext DEF StepInv
<1>3. PartsInv => LocalsOfTheirFunction
  BY DEF PartsInv, Placed, LocalsOfTheirFunction, IsFunction
<1> QED BY <1>1, <1>2, <1>3, PTL DEF Spec

-----------------------------------------------------------------------------
(***************************************************************************)
(* What is not lost.                                                       *)
(***************************************************************************)
PartKept(d) ==
  LET p == tree[d].parent
  IN /\ tree[d].tag \in {"member", "inheritance", "enumerator", "formal_parameter"}
     /\ Own(p) # Null /\ ~tree[p].dropped
     /\ \A i \in p + 1 .. d - 1 : tree[i].made /\ tree[i].tag # "variable"
     => \E i \in DOMAIN parts[p] : parts[p][i][2] = d

LocalKept(d) ==
  /\ tree[d].tag = "variable" /\ tree[d].made /\ HasOwner(d)
  /\ \E f \in 1 .. d - 1 : /\ IsFunction(f) /\ ~tree[f].dropped
                          /\ \A g \in f + 1 .. d - 1 : ~IsFunction(g)
  => \E r \in Refs : \E i \in DOMAIN parts[r] : parts[r][i] = <<"lvar", d>>

LEMMA KeptByDie ==
  /\ PartsKept <=> \A d \in DOMAIN tree : PartKept(d)
  /\ LocalsKept <=> \A d \in DOMAIN tree : LocalKept(d)
  BY DEF PartsKept, PartKept, LocalsKept, LocalKept

\* Parts stay where they are, and what was dropped stays dropped.
Monotone ==
  /\ TreeKept
  /\ \A d \in DOMAIN tree : tree[d].dropped => tree'[d].dropped
  /\ \A r \in Refs : \A i \in DOMAIN parts[r] : i \in DOMAIN parts'[r] /\ parts'[r][i] = parts[r][i]

LEMMA PartStays ==
  ASSUME WalkInv, Monotone, NEW d \in DOMAIN tree, PartKept(d) PROVE PartKept(d)'
<1>1. PICK p : p = tree[d].parent
  OBVIOUS
<1>2. Shape /\ Elders(d) /\ d \in Nat /\ TreeKept
  BY WalkShape DEF WalkInv, TreeOK, Shape, Monotone
<1>3. tree'[d].parent = p /\ tree'[d].tag = tree[d].tag
  BY <1>1, <1>2 DEF TreeKept
<1>4. SUFFICES ASSUME tree[d].tag \in {"member", "inheritance", "enumerator", "formal_parameter"},
                      Own(p)' # Null, ~tree'[p].dropped,
                      \A i \in p + 1 .. d - 1 : tree'[i].made /\ tree'[i].tag # "variable"
               PROVE  \E i \in DOMAIN parts'[p] : parts'[p][i][2] = d
  BY <1>3 DEF PartKept
<1>5. p \in 1 .. d - 1 /\ p \in DOMAIN tree /\ p \in Refs
  BY <1>1, <1>2, <1>4, RefsFact DEF Elders, Shape
<1>6. Own(p) # Null /\ ~tree[p].dropped
  BY <1>2, <1>4, <1>5 DEF TreeKept, Monotone
<1>7. \A i \in p + 1 .. d - 1 : i \in DOMAIN tree
  BY <1>2, <1>5 DEF Shape
<1>8. \A i \in p + 1 .. d - 1 : tree[i].made /\ tree[i].tag # "variable"
  BY <1>2, <1>4, <1>7 DEF TreeKept
<1>9. PICK i \in DOMAIN parts[p] : parts[p][i][2] = d
  BY <1>1, <1>4, <1>6, <1>8 DEF PartKept
<1> QED BY <1>5, <1>9 DEF Monotone

LEMMA LocalStays ==
  ASSUME WalkInv, Monotone, NEW d \in DOMAIN tree, LocalKept(d) PROVE LocalKept(d)'
<1>1. PICK p : p = tree[d].parent
  OBVIOUS
<1>2. Shape /\ Elders(d) /\ d \in Nat /\ TreeKept
  BY WalkShape DEF WalkInv, TreeOK, Shape, Monotone
<1>3. tree'[d].parent = p /\ tree'[d].tag = tree[d].tag /\ tree'[d].above = tree[d].above
      /\ tree'[d].made = tree[d].made
  BY <1>1, <1>2 DEF TreeKept
<1>4. SUFFICES ASSUME tree[d].tag = "variable", tree[d].made, HasOwner(d)',
                      NEW f \in 1 .. d - 1, IsFunction(f)', ~tree'[f].dropped,
                      \A g \in f + 1 .. d - 1 : ~IsFunction(g)'
               PROVE  \E r \in Refs : \E i \in DOMAIN parts'[r] : parts'[r][i] = <<"lvar", d>>
  BY <1>3 DEF LocalKept
<1>5. p \in DOMAIN tree /\ \A a \in tree[d].above : a \in DOMAIN tree
  BY <1>1, <1>2, <1>4 DEF Elders, Shape
<1>6. \A a \in DOMAIN tree : IsFunction(a)' <=> IsFunction(a)
  BY <1>2 DEF TreeKept, IsFunction
<1>7. HasOwner(d)
  <2>1. \A a \in tree[d].above : tree[a].parent # Null => Own(a) # Null
    BY <1>2, <1>3, <1>4, <1>5 DEF HasOwner, TreeKept, Null
  <2>2. TypeOf(p)' = "structure_type" \/ \E a \in tree[d].above : IsFunction(a)'
    BY <1>3, <1>4 DEF HasOwner
  <2>3. TypeOf(p)' = TypeOf(p)
    BY <1>2, <1>5 DEF TreeKept
  <2> QED BY <1>1, <1>5, <1>6, <2>1, <2>2, <2>3 DEF HasOwner
<1>8. f \in DOMAIN tree /\ \A g \in f + 1 .. d - 1 : g \in DOMAIN tree
  BY <1>2, <1>4 DEF Shape
<1>9. IsFunction(f) /\ ~tree[f].dropped /\ \A g \in f + 1 .. d - 1 : ~IsFunction(g)
  BY <1>4, <1>6, <1>8 DEF Monotone
<1>10. PICK r \in Refs : \E i \in DOMAIN parts[r] : parts[r][i] = <<"lvar", d>>
  BY <1>4, <1>7, <1>9 DEF LocalKept
<1> QED BY <1>10 DEF Monotone

LEMMA KeptStays ==
  ASSUME WalkInv, Monotone, PartsKept, LocalsKept, DOMAIN tree' = DOMAIN tree
  PROVE  PartsKept' /\ LocalsKept'
<1>1. \A d \in DOMAIN tree' : PartKept(d)' /\ LocalKept(d)'
  BY KeptByDie, PartStays, LocalStays
<1> QED BY <1>1 DEF PartsKept, PartKept, LocalsKept, LocalKept

\* Inside of something that is no scope the level is above the top level.
LEMMA DeepEnough ==
  ASSUME WalkInv, BuilderInv, LevelInv, ~LostVariants,
         NEW a \in OnPath, a # 1, TypeOf(a) \notin Scopes
  PROVE  m_level - ns_count > 1
<1>1. Shape /\ ElementsOK /\ m_level \in Int /\ ns_count \in Int
  BY WalkShape DEF BuilderInv, StackOK, PointersOK, Shape
<1> DEFINE S == {d \in OnPath : TypeOf(d) \notin Scopes}
<1>2. Cardinality(S) = m_level - ns_count
  BY TypesOfPath, ScopesOfPath DEF LevelInv, BuilderInv, StackOK
<1>3. 1 \in OnPath /\ 1 \in DOMAIN tree
  <2>1. 1 \in DOMAIN path
    BY <1>1 DEF OnPath, Shape
  <2>2. path[1].id = 1
    BY <2>1 DEF WalkInv, PathOK
  <2> QED BY <1>1, <2>1, <2>2 DEF OnPath, Shape
<1>4. TypeOf(1) = "none"
  <2>1. ~tree[1].made
    BY <1>1, <1>3 DEF ElementsOK, WalkInv, TreeOK, Elders
  <2>2. 1 \in Refs
    BY <1>1, <1>3, RefsFact DEF Shape
  <2>3. obj[1] = NoObj
    BY <1>1, <1>3, <2>1, <2>2 DEF ElementsOK
  <2> QED BY <2>3, EmptyObj DEF TypeOf, Null
<1>5. {1, a} \subseteq S
  BY <1>3, <1>4 DEF Scopes
<1>6. IsFiniteSet(S)
  <2>1. S \subseteq DOMAIN tree
    BY <1>1 DEF Shape
  <2>2. IsFiniteSet(DOMAIN tree)
    BY <1>1, FS_Interval DEF Shape
  <2> QED BY <2>1, <2>2, FS_Subset
<1>7. Cardinality({1, a}) = 2
  <2>1. IsFiniteSet({a}) /\ Cardinality({a}) = 1
    BY FS_Singleton
  <2>2. Cardinality({a} \cup {1}) = Cardinality({a}) + 1
    BY <2>1, FS_AddElement
  <2>3. {a} \cup {1} = {1, a}
    OBVIOUS
  <2> QED BY <2>1, <2>2, <2>3
<1>8. Cardinality({1, a}) <= Cardinality(S) /\ Cardinality(S) \in Nat
  BY <1>5, <1>6, FS_Subset, FS_CardinalityType
<1> HIDE DEF S
<1> QED BY <1>1, <1>2, <1>7, <1>8

\* Above a namespace there are only namespaces.
LEMMA OuterAbove ==
  ASSUME WalkInv, path # <<>>, Parent.tag \in Outer, NEW j \in DOMAIN path
  PROVE  path[j].tag \in Outer
<1> DEFINE T == {i \in DOMAIN path : path[i].tag \in Outer /\ \E k \in DOMAIN path :
                                                       k < i /\ path[k].tag \notin Outer}
<1>1. Shape
  BY WalkShape
<1>2. T = {}
  <2> SUFFICES ASSUME T # {} PROVE FALSE
    OBVIOUS
  <2>1. T \in SUBSET Nat
    BY <1>1 DEF Shape
  <2>2. PICK x \in T : \A y \in T : x <= y
    BY <2>1, LeastNumber
  <2>3. PICK k \in DOMAIN path : k < x /\ path[k].tag \notin Outer
    BY <2>2
  <2>4. x \in DOMAIN path /\ x \in Nat /\ k \in Nat /\ x # 1 /\ path[x].tag \in Outer
    BY <1>1, <2>2, <2>3 DEF Shape
  <2>5. x - 1 \in DOMAIN path /\ path[x].tag # "compile_unit"
    BY <2>4, PathStep
  <2>6. path[x].tag \in ChildTags[path[x - 1].tag] /\ path[x - 1].tag \in Parents
    BY <2>4, <2>5, PathStep DEF WalkInv, PathOK
  <2>7. path[x - 1].tag \in Outer
    BY <2>4, <2>5, <2>6, KindsOfChildren DEF Outer
  <2>8. k # x - 1
    BY <2>3, <2>7
  <2>9. x - 1 \in T
    BY <2>3, <2>4, <2>5, <2>7, <2>8
  <2> QED BY <2>2, <2>4, <2>9
<1>3. CASE j = Len(path)
  BY <1>1, <1>3 DEF Shape
<1>4. CASE j # Len(path)
  BY <1>1, <1>2, <1>4 DEF Shape
<1> QED BY <1>3, <1>4

LEMMA ReadDieMonotone ==
  ASSUME WalkInv, BuilderInv, PartsInv, NEW n, NEW tag, NEW kids \in BOOLEAN, NewDie(n, tag, kids)
  PROVE  Monotone
<1>1. TreeKept /\ NewPlaced(n) /\ n \in Dies
  BY ReadDieKeepsTree, PartsPlaced DEF PartsInv, NewDie
<1>2. \A d \in DOMAIN tree : tree[d].dropped => tree'[d].dropped
  BY DEF NewDie
<1>3. parts \in [Refs -> Seq(Vectors \X Dies)]
  BY DEF BuilderInv, PointersOK
<1>4. ASSUME NEW o \in Refs, NEW w \in Vectors, parts' = [parts EXCEPT ![o] = Append(@, <<w, n>>)],
             NEW r \in Refs, NEW i \in DOMAIN parts[r]
      PROVE  i \in DOMAIN parts'[r] /\ parts'[r][i] = parts[r][i]
  <2>1. CASE r # o
    BY <1>3, <1>4, <2>1
  <2>2. CASE r = o
    <3>1. <<w, n>> \in Vectors \X Dies /\ parts[r] \in Seq(Vectors \X Dies)
      BY <1>1, <1>3
    <3>2. parts'[r] = Append(parts[r], <<w, n>>)
      BY <1>3, <1>4, <2>2
    <3>3. PICK k : k = Len(parts[r])
      OBVIOUS
    <3>4. /\ k \in Nat /\ DOMAIN parts[r] = 1 .. k /\ DOMAIN parts'[r] = 1 .. k + 1
          /\ \A j \in 1 .. k : parts'[r][j] = parts[r][j]
      BY <3>1, <3>2, <3>3, AppendProperties, LenProperties
    <3> QED BY <3>4
  <2> QED BY <2>1, <2>2
<1> QED BY <1>1, <1>2, <1>4 DEF Monotone, NewPlaced

\* What is registered leaves something to be a part of; a function is kept at first.
LEMMA CurrentOfNew ==
  ASSUME WalkInv, BuilderInv, NEW n, NEW tag, NEW kids \in BOOLEAN, NewDie(n, tag, kids)
  PROVE  /\ added' /\ tag # "variable" /\ current_element_type_ # "none"
              => current_element_type_' # "none"
         /\ obj'[n] # NoObj => current_element_type_' # "none" \/ tag = "variable"
         /\ sub_filtered' = FALSE \/ (sub_filtered' = sub_filtered /\ ~IsFunction(n)')
<1>1. Register(n, tag, kids) /\ NewHere(n) /\ Registered(n, tag) /\ sub_filtered \in BOOLEAN
  BY NewHereFacts, RegisteredFacts DEF NewDie, NewHere
<1>2. IsFunction(n)' => tag = "subprogram" /\ added'
  BY <1>1, EmptyObj DEF Registered, IsFunction, TypeOf, TagType
<1>3. ASSUME NEW type \in ElementTypes, type # "none", AddOwn(type, n, m_level)
      PROVE  current_element_type_' # "none"
  BY <1>3 DEF AddOwn
<1>4. CASE /\ tag \in {"structure_type", "array_type", "type", "subroutine_type"}
           /\ AddOwn(tag, n, m_level) /\ UNCHANGED sub_filtered
  BY <1>2, <1>3, <1>4 DEF ElementTypes
<1>5. CASE /\ tag \in {"enumeration_type", "namespace", "lexical_block"}
           /\ \E type \in {"enumerator_type", "ns_start", "lexical_block"} : AddOwn(type, n, m_level)
           /\ UNCHANGED sub_filtered
  BY <1>2, <1>3, <1>5 DEF ElementTypes
<1>6. CASE tag \in {"member", "inheritance", "enumerator"} /\ AddPart(tag, n)
  <2>1. UNCHANGED <<obj, sub_filtered>> /\ current_element_type_' \in {current_element_type_, tag}
    BY <1>6 DEF AddPart
  <2> QED BY <1>1, <1>2, <1>6, <2>1 DEF NewHere
<1>7. CASE tag = "variant_part" /\ AddVariantPart(n, m_level)
  <2>1. /\ UNCHANGED sub_filtered
        /\ \/ obj' = obj /\ current_element_type_' = current_element_type_
           \/ current_element_type_' = "variant_type"
    BY <1>7 DEF AddVariantPart, listVars
  <2> QED BY <1>1, <1>2, <1>7, <2>1 DEF NewHere
<1>8. CASE /\ tag \in {"variant", "subrange_type"}
           /\ UNCHANGED <<obj, sub_filtered>>
           /\ current_element_type_' \in {current_element_type_, "subrange_type"}
  BY <1>1, <1>2, <1>8 DEF NewHere
<1>9. CASE tag = "variable" /\ AddVar(n, m_level)
  <2>1. UNCHANGED sub_filtered
    BY <1>9 DEF AddVar
  <2> QED BY <1>2, <1>9, <2>1
<1>10. CASE tag = "subprogram" /\ AddSubroutine(n, m_level)
  <2>1. sub_filtered' = FALSE /\ current_element_type_' \in {"method", "subroutine"}
    BY <1>10 DEF AddSubroutine, AddOwn
  <2> QED BY <2>1
<1>11. CASE tag = "formal_parameter" /\ AddFormalParam(n, m_level)
  <2>1. UNCHANGED sub_filtered /\ current_element_type_' = "formal_param"
    BY <1>11 DEF AddFormalParam
  <2> QED BY <1>2, <1>11, <2>1
<1>12. CASE AddNone /\ added' = FALSE
  <2>1. UNCHANGED <<obj, sub_filtered>>
    BY <1>12 DEF AddNone, listVars
  <2> QED BY <1>1, <1>2, <1>12, <2>1 DEF NewHere
<1>13. AddVariant \/ AddSubrange => /\ UNCHANGED <<obj, sub_filtered>>
                                   /\ current_element_type_' \in {current_element_type_, "subrange_type"}
  BY DEF AddVariant, AddSubrange, Crash, builderVars, listVars
<1> QED BY <1>1, <1>4, <1>5, <1>6, <1>7, <1>8, <1>9, <1>10, <1>11, <1>12, <1>13 DEF Register

\* A function that is made below something of a type is a method of it.
LEMMA SubroutineOfNew ==
  ASSUME WalkInv, BuilderInv, LevelInv, NEW n, NEW tag, NEW kids \in BOOLEAN, NewDie(n, tag, kids)
  PROVE  OutsideOfTypes'
<1>1. /\ Register(n, tag, kids) /\ NewHere(n) /\ Shape /\ TopOK /\ ElementsOK /\ TreeKept
  <2>1. Register(n, tag, kids)
    BY DEF NewDie
  <2>2. NewHere(n) /\ TreeKept
    BY NewHereFacts, ReadDieKeepsTree
  <2> QED BY <2>1, <2>2 DEF NewHere, BuilderInv
<1>2. SUFFICES ASSUME added', current_element_type_' = "subroutine"
      PROVE  /\ tag = "subprogram" /\ TypeOf(n)' = "subroutine"
             /\ \/ path # <<>> /\ ~tree[Parent.id].made
                \/ \A i \in DOMAIN path : path[i].tag \notin PartParents
  <2>1. path' = path /\ Parent' = Parent /\ die' = [id |-> n, tag |-> tag, kids |-> kids]
    BY DEF NewDie
  <2>2. path # <<>> => tree'[Parent.id].made = tree[Parent.id].made
    BY <1>1 DEF Shape, TreeKept
  <2> QED BY <2>1, <2>2 DEF OutsideOfTypes, TypeOf
<1>3. tag = "subprogram" /\ AddSubroutine(n, m_level)
  <2>1. \A type : AddOwn(type, n, m_level) => type = "subroutine"
    BY <1>2 DEF AddOwn
  <2>2. ~(tag \in {"member", "inheritance", "enumerator"} /\ AddPart(tag, n))
    <3> SUFFICES ASSUME tag \in {"member", "inheritance", "enumerator"}, AddPart(tag, n) PROVE FALSE
      OBVIOUS
    <3>1. /\ m_stack # <<>>
          /\ current_element_type_ = "none" \/ (Top # Null /\ Top \in Refs /\ back # Null)
      BY PartsHaveTop
    <3> QED BY <1>2, <3>1 DEF AddPart
  <2>3. ~(tag = "variant_part" /\ AddVariantPart(n, m_level))
    <3> SUFFICES ASSUME tag = "variant_part", AddVariantPart(n, m_level) PROVE FALSE
      OBVIOUS
    <3>1. m_stack # <<>> /\ Top # Null /\ back # Null
      BY PartsHaveTop
    <3> QED BY <1>2, <3>1 DEF AddVariantPart
  <2>4. ~(tag = "variant" /\ AddVariant)
    <3> SUFFICES ASSUME tag = "variant", AddVariant PROVE FALSE
      OBVIOUS
    <3>1. path # <<>> /\ Parent.tag = "variant_part"
      BY <1>1, KindsOfChildren DEF NewDie, Shape
    <3>2. current_element_type_' = current_element_type_
      BY DEF AddVariant, Crash, builderVars
    <3> QED BY <1>1, <1>2, <3>1, <3>2 DEF TopOK
  <2>5. ~AddSubrange /\ ~AddVar(n, m_level) /\ ~AddFormalParam(n, m_level) /\ ~AddNone
    BY <1>2 DEF AddSubrange, AddVar, AddFormalParam, AddNone
  <2> QED BY <1>1, <2>1, <2>2, <2>3, <2>4, <2>5 DEF Register
<1>4. ~can_have_methods(m_level - ns_count) /\ AddOwn("subroutine", n, m_level)
  BY <1>2, <1>3 DEF AddSubroutine
<1>5. TypeOf(n)' = "subroutine"
  BY <1>1, <1>4 DEF AddOwn, TypeOf, Element, NewHere
<1>6. ASSUME NEW i \in DOMAIN path, path[i].tag \in PartParents, tree[Parent.id].made PROVE FALSE
  <2>1. path # <<>>
    BY <1>6, PathStep
  <2>2. m_stack # <<>> /\ Top # Null
    BY <1>1, <1>6, <2>1 DEF TopOK
  <2>3. Parent.tag \in {"structure_type", "lexical_block"}
    <3>1. path[i].tag \notin Outer
      BY <1>6 DEF PartParents, Outer
    <3>2. Parent.tag \notin Outer
      BY <1>6, <2>1, <3>1, OuterAbove
    <3> QED BY <1>1, <1>3, <2>1, <3>2, KindsOfChildren DEF NewDie, Shape
  <2>4. TypeOf(Top) \in {"structure_type", "lexical_block"}
    <3>1. PICK p : p = Parent.id
      OBVIOUS
    <3>2. Top = p /\ p \in DOMAIN tree /\ p \in Refs /\ p # Null /\ tree[p].tag = Parent.tag
          /\ obj[p] # NoObj
      BY <1>1, <2>1, <2>2, <2>3, <3>1, RefsFact DEF TopOK, Shape
    <3> QED BY <1>1, <2>3, <3>2 DEF ElementsOK, TagType, TypeOf
  <2>5. ~LostVariants
    BY <2>3, NoVariantsAbove
  <2>6. PICK a : a = path[i].id
    OBVIOUS
  <2>7. a \in OnPath /\ a # 1 /\ a \in DOMAIN tree /\ tree[a].tag \in PartParents
    <3>1. a \in OnPath /\ a \in DOMAIN tree /\ tree[a].tag \in PartParents
      BY <1>6, <2>6, PathStep DEF OnPath
    <3>2. a # 1
      BY <3>1 DEF WalkInv, TreeOK, Elders, PartParents
    <3> QED BY <3>1, <3>2
  <2>8. TypeOf(a) \notin Scopes
    <3>1. a \in Refs /\ a # Null
      BY <1>1, <2>7, RefsFact DEF Shape
    <3> QED BY <1>1, <2>7, <3>1, EmptyObj DEF ElementsOK, TagType, TypeOf, Scopes, PartParents
  <2>9. m_level - ns_count > 1
    BY <2>5, <2>7, <2>8, DeepEnough
  <2> QED BY <1>4, <2>2, <2>4, <2>9 DEF can_have_methods
<1> QED
  <2>1. path = <<>> => DOMAIN path = {}
    BY <1>1 DEF Shape
  <2> QED BY <1>3, <1>5, <1>6, <2>1

\* A part or parameter is recorded, unless something before it was not.
LEMMA PartOfNew ==
  ASSUME WalkInv, BuilderInv, LevelInv, PartsInv, KeptInv,
         NEW n, NEW tag, NEW kids \in BOOLEAN, NewDie(n, tag, kids)
  PROVE  PartKept(n)'
<1>1. /\ Register(n, tag, kids) /\ NewHere(n) /\ Shape /\ TopOK /\ ElementsOK /\ TreeKept
  <2>1. Register(n, tag, kids)
    BY DEF NewDie
  <2>2. NewHere(n) /\ TreeKept
    BY NewHereFacts, ReadDieKeepsTree
  <2> QED BY <2>1, <2>2 DEF NewHere, BuilderInv
<1>2. PICK p : p = Parent.id
  OBVIOUS
<1>3. SUFFICES ASSUME tag \in {"member", "inheritance", "enumerator", "formal_parameter"},
                      Own(p)' # Null, ~tree'[p].dropped,
                      \A i \in p + 1 .. n - 1 : tree'[i].made /\ tree'[i].tag # "variable"
               PROVE  \E i \in DOMAIN parts'[p] : parts'[p][i][2] = n
  <2>1. tree'[n].parent = p /\ tree'[n].tag = tag
    BY <1>2 DEF NewDie
  <2> QED BY <2>1 DEF PartKept
<1>4. path # <<>>
  BY <1>3 DEF NewDie
<1>5. p \in DOMAIN tree /\ p \in Refs /\ tree[p].tag = Parent.tag /\ Parent = path[Len(path)]
      /\ Len(path) \in DOMAIN path /\ tree'[p] = tree[p] /\ p < n
  <2>1. p \in DOMAIN tree /\ tree[p].tag = Parent.tag /\ Parent = path[Len(path)]
        /\ Len(path) \in DOMAIN path
    BY <1>1, <1>2, <1>4 DEF Shape
  <2>2. p \in Refs /\ p < n
    BY <1>1, <1>2, <1>4, RefsFact DEF NewHere
  <2>3. tree'[p] = tree[p]
    BY <2>1 DEF NewDie
  <2> QED BY <2>1, <2>2, <2>3
<1>6. Own(p) # Null /\ ~tree[p].dropped /\ obj[p] # NoObj
  BY <1>1, <1>3, <1>5 DEF TreeKept, Own
<1>7. Parent.tag \in PartParents
      /\ (tag = "formal_parameter" => Parent.tag \in {"subprogram", "subroutine_type"})
  <2>1. tag \in ChildTags[Parent.tag] /\ Parent.tag \in Parents
    BY <1>1, <1>4 DEF NewDie, Shape
  <2>2. Parent.tag \notin {"pack", "other", "variant"}
    BY <1>1, <1>5, <1>6 DEF ElementsOK, TagType
  <2> QED BY <1>3, <2>1, <2>2, KindsOfChildren DEF PartParents
<1>8. Recorded(p)
  <2>1. \A k \in DOMAIN tree : k > p => k \in p + 1 .. n - 1 /\ tree'[k] = tree[k]
    BY <1>1, <1>5 DEF Shape, NewDie
  <2> QED BY <1>3, <2>1 DEF Recorded
<1>9. PathKept(Len(path))
  BY <1>5 DEF KeptInv
<1>10. current_element_type_ # "none" /\ Top # Null /\ Top = p
  <2>1. current_element_type_ # "none"
    BY <1>2, <1>5, <1>6, <1>7, <1>8, <1>9 DEF PathKept
  <2>2. Own(Parent.id) # Null
    BY <1>2, <1>6
  <2>3. Top = p
    BY <1>1, <1>2, <1>4, <2>2 DEF TopOK
  <2> QED BY <1>5, <2>1, <2>3, RefsFact
<1>11. PICK v \in Vectors : parts' = [parts EXCEPT ![p] = Append(@, <<v, n>>)]
  <2>1. CASE tag # "formal_parameter"
    <3>1. AddPart(tag, n)
      BY <1>1, <1>3, <2>1 DEF Register
    <3>2. m_stack # <<>> /\ back # Null
      BY <1>3, <1>10, <2>1, PartsHaveTop
    <3>3. parts' = [parts EXCEPT ![p] = Append(@, <<tag, n>>)]
      BY <1>10, <3>1, <3>2 DEF AddPart
    <3> QED BY <1>3, <2>1, <3>3 DEF Vectors
  <2>2. CASE tag = "formal_parameter"
    <3>1. OnlyParams(p)
      BY <1>2, <1>4, <2>2 DEF NewDie, MayContain, Siblings, OnlyParams
    <3>2. m_regged
      BY <1>2, <1>5, <1>6, <1>7, <1>8, <1>9, <2>2, <3>1 DEF PathKept, HasParams
    <3>3. AddFormalParam(n, m_level)
      BY <1>1, <2>2, <3>2 DEF Register
    <3>4. ParamFits(m_level)
      BY <1>4, <1>7, <1>10, <2>2, ParamsFit
    <3>5. parts' = [parts EXCEPT ![p] = Append(@, <<"param", n>>)]
      BY <1>10, <3>3, <3>4 DEF AddFormalParam
    <3> QED BY <3>5 DEF Vectors
  <2> QED BY <2>1, <2>2
<1>12. parts[p] \in Seq(Vectors \X Dies) /\ <<v, n>> \in Vectors \X Dies
       /\ parts'[p] = Append(parts[p], <<v, n>>)
  BY <1>1, <1>5, <1>11 DEF BuilderInv, PointersOK, NewHere
<1>13. PICK k : k = Len(parts[p]) + 1
  OBVIOUS
<1>14. k \in DOMAIN parts'[p] /\ parts'[p][k] = <<v, n>>
  BY <1>12, <1>13, AppendProperties, LenProperties
<1> QED BY <1>14

\* A local variable is recorded, unless the last function was not kept.
LEMMA LocalOfNew ==
  ASSUME WalkInv, BuilderInv, LevelInv, PartsInv, KeptInv,
         NEW n, NEW tag, NEW kids \in BOOLEAN, NewDie(n, tag, kids)
  PROVE  LocalKept(n)'
<1>1. /\ Register(n, tag, kids) /\ NewHere(n) /\ Shape /\ TopOK /\ ElementsOK /\ TreeKept
  <2>1. Register(n, tag, kids)
    BY DEF NewDie
  <2>2. NewHere(n) /\ TreeKept
    BY NewHereFacts, ReadDieKeepsTree
  <2> QED BY <2>1, <2>2 DEF NewHere, BuilderInv
<1>2. PICK p : p = Parent.id
  OBVIOUS
<1>3. SUFFICES ASSUME tag = "variable", added', HasOwner(n)',
                      NEW f \in 1 .. n - 1, IsFunction(f)', ~tree'[f].dropped,
                      \A g \in f + 1 .. n - 1 : ~IsFunction(g)'
               PROVE  \E r \in Refs : \E i \in DOMAIN parts'[r] : parts'[r][i] = <<"lvar", n>>
  <2>1. tree'[n].tag = tag /\ tree'[n].made = added'
    BY DEF NewDie
  <2> QED BY <2>1 DEF LocalKept
<1>4. path # <<>> /\ Parent.tag \notin {"variant", "variant_part"} /\ get_owner = Top
  BY <1>1, <1>3, KindsOfChildren DEF NewDie, TopOK, Shape
<1>5. p \in DOMAIN tree /\ p \in Refs /\ Len(path) \in DOMAIN path /\ p \in OnPath
      /\ \A a \in OnPath : a \in DOMAIN tree /\ a <= p
  <2>1. \A a \in OnPath : a <= Parent.id
    BY PathStep DEF OnPath
  <2> QED BY <1>1, <1>2, <1>4, <2>1, RefsFact DEF Shape
<1>6. \A a \in OnPath : a # 1 => Own(a) # Null
  <2>1. \A a \in OnPath : tree'[a].parent # Null => Own(a)' # Null
    BY <1>3 DEF HasOwner, NewDie, Null
  <2>2. \A a \in OnPath : tree'[a].parent = tree[a].parent /\ Own(a)' = Own(a)
    BY <1>1, <1>5 DEF TreeKept
  <2>3. \A a \in OnPath : a # 1 => tree[a].parent # Null
    BY <1>5 DEF WalkInv, TreeOK, Elders, Null
  <2> QED BY <2>1, <2>2, <2>3
<1>7. TypeOf(p) = "structure_type" \/ \E a \in OnPath : IsFunction(a)
  <2>1. TypeOf(p)' = "structure_type" \/ \E a \in OnPath : IsFunction(a)'
    BY <1>2, <1>3 DEF HasOwner, NewDie
  <2> QED BY <1>1, <1>5, <2>1 DEF TreeKept, IsFunction
<1>8. TypeOf(1) = "none"
  <2>1. 1 \in OnPath
    <3>1. 1 \in DOMAIN path
      BY <1>1, <1>4 DEF Shape
    <3> QED BY <3>1 DEF WalkInv, PathOK, OnPath
  <2>2. 1 \in DOMAIN tree /\ 1 \in Refs
    BY <1>1, <1>5, <2>1, RefsFact DEF Shape
  <2>3. obj[1] = NoObj
    BY <1>1, <2>2 DEF ElementsOK, WalkInv, TreeOK, Elders
  <2> QED BY <2>3, EmptyObj DEF TypeOf, Null
<1>9. PICK a \in OnPath : a # 1 /\ TypeOf(a) \notin Scopes
  BY <1>5, <1>7, <1>8 DEF IsFunction, Scopes
<1>10. Own(p) # Null /\ Top = p /\ Top # Null
  <2>1. p # 1
    BY <1>5, <1>9, RefsFact DEF WalkInv, TreeOK, Elders, Shape
  <2>2. Own(p) # Null
    BY <1>5, <1>6, <2>1
  <2> QED BY <1>1, <1>2, <1>4, <1>5, <2>2, RefsFact DEF TopOK
<1>11. m_level - ns_count > 1
  BY <1>4, <1>9, NoVariantsAbove, DeepEnough
<1>12. ~sub_filtered
  <2>1. f \in DOMAIN tree /\ \A g \in DOMAIN tree : g > f => g \in f + 1 .. n - 1
    BY <1>1, <1>3 DEF Shape, NewDie
  <2>2. \A g \in DOMAIN tree : (IsFunction(g)' <=> IsFunction(g)) /\ tree'[g] = tree[g]
    BY <1>1 DEF TreeKept, IsFunction, NewDie
  <2>3. LastFunctionKept
    BY <1>3, <2>1, <2>2 DEF LastFunctionKept
  <2> QED BY <2>3 DEF KeptInv
<1>13. PICK o : o = IF get_top_func # Null THEN get_top_func
                    ELSE IF TypeOf(Top) = "structure_type" THEN Top ELSE Null
  OBVIOUS
<1>14. o # Null /\ o \in Refs
  <2>1. FuncIsOf(Len(path)) /\ OnPathTo(Len(path)) = OnPath
        /\ get_top_func = FuncAbove[m_stack[Len(path)]]
    BY <1>1, <1>4, <1>5, FuncOnPath DEF PartsInv, OnPath, OnPathTo, get_top_func, TopOK, Shape
  <2>2. CASE get_top_func # Null
    BY <1>1, <1>5, <1>13, <2>1, <2>2, RefsFact DEF FuncIsOf, Shape
  <2>3. CASE get_top_func = Null
    <3>1. {b \in OnPath : IsFunction(b)} = {}
      BY <1>6, <2>1, <2>3 DEF FuncIsOf
    <3>2. TypeOf(p) = "structure_type"
      BY <1>7, <3>1
    <3> QED BY <1>5, <1>10, <1>13, <2>3, <3>2, RefsFact
  <2> QED BY <2>2, <2>3
<1>15. parts' = [parts EXCEPT ![o] = Append(@, <<"lvar", n>>)]
  <2>1. AddVar(n, m_level)
    BY <1>1, <1>3 DEF Register
  <2>2. m_stack # <<>>
    BY <1>1, <1>4 DEF TopOK
  <2> QED BY <1>10, <1>11, <1>12, <1>13, <1>14, <2>1, <2>2 DEF AddVar
<1>16. parts[o] \in Seq(Vectors \X Dies) /\ <<"lvar", n>> \in Vectors \X Dies
       /\ parts'[o] = Append(parts[o], <<"lvar", n>>)
  BY <1>1, <1>14, <1>15 DEF BuilderInv, PointersOK, NewHere, Vectors
<1>17. PICK k : k = Len(parts[o]) + 1
  OBVIOUS
<1>18. k \in DOMAIN parts'[o] /\ parts'[o][k] = <<"lvar", n>>
  BY <1>16, <1>17, AppendProperties, LenProperties
<1> QED BY <1>14, <1>18

LEMMA ReadDieKept ==
  ASSUME WalkInv, BuilderInv, LevelInv, PartsInv, KeptInv,
         NEW n, NEW tag, NEW kids \in BOOLEAN, NewDie(n, tag, kids)
  PROVE  KeptInv'
<1>1. /\ Registered(n, tag) /\ NewHere(n) /\ Shape /\ TreeKept /\ Monotone
  BY RegisteredFacts, NewHereFacts, ReadDieKeepsTree, ReadDieMonotone DEF NewHere
<1>2. /\ path' = path /\ m_regged' = added' /\ die' = [id |-> n, tag |-> tag, kids |-> kids]
      /\ DOMAIN tree' = DOMAIN tree \cup {n} /\ n \notin DOMAIN tree
      /\ tree'[n].tag = tag /\ tree'[n].made = added'
      /\ \A d \in DOMAIN tree : d \in Nat /\ d < n /\ tree'[d] = tree[d]
  BY <1>1 DEF NewDie, Shape
<1>3. /\ added' /\ tag # "variable" /\ current_element_type_ # "none"
            => current_element_type_' # "none"
      /\ obj'[n] # NoObj => current_element_type_' # "none" \/ tag = "variable"
      /\ sub_filtered' = FALSE \/ (sub_filtered' = sub_filtered /\ ~IsFunction(n)')
  BY CurrentOfNew
<1>4. \A d \in DOMAIN tree : (IsFunction(d)' <=> IsFunction(d)) /\ Own(d)' = Own(d)
  BY <1>1 DEF TreeKept, IsFunction
<1>5. LastFunctionKept' => ~sub_filtered'
  <2> SUFFICES ASSUME LastFunctionKept', sub_filtered' = sub_filtered, ~IsFunction(n)'
               PROVE  ~sub_filtered
    BY <1>3
  <2>1. LastFunctionKept
    BY <1>2, <1>4 DEF LastFunctionKept
  <2> QED BY <2>1 DEF KeptInv
<1>6. ASSUME NEW i \in DOMAIN path PROVE PathKept(i)'
  <2>1. PICK d : d = path[i].id
    OBVIOUS
  <2>2. d \in DOMAIN tree
    BY <2>1, PathStep
  <2>3. SUFFICES ASSUME path[i].tag \in PartParents, Own(d)' # Null, ~tree'[d].dropped, Recorded(d)'
        PROVE  /\ current_element_type_' # "none"
               /\ HasParams(path[i].tag) /\ OnlyParams(d)' => m_regged'
    BY <1>2, <2>1 DEF PathKept, PartParents, HasParams
  <2>4. Recorded(d) /\ added' /\ tag # "variable"
    BY <1>2, <2>2, <2>3 DEF Recorded
  <2>5. current_element_type_ # "none"
    BY <1>2, <1>4, <2>1, <2>2, <2>3, <2>4 DEF KeptInv, PathKept
  <2> QED BY <1>2, <1>3, <2>4, <2>5
<1>7. DieKept'
  <2>1. Own(n)' # Null => obj'[n] # NoObj
    BY DEF Own
  <2>2. obj'[n] # NoObj => added'
    BY <1>1 DEF Registered
  <2>3. "variable" \notin PartParents
    BY DEF PartParents
  <2> QED BY <1>2, <1>3, <2>1, <2>2, <2>3 DEF DieKept, PartParents, HasParams, Own
<1>8. OutsideOfTypes'
  BY SubroutineOfNew
<1>9. \A d \in DOMAIN tree' : PartKept(d)' /\ LocalKept(d)'
  <2>1. \A d \in DOMAIN tree : PartKept(d)' /\ LocalKept(d)'
    BY <1>1, KeptByDie, PartStays, LocalStays DEF KeptInv
  <2> QED BY <1>2, <2>1, PartOfNew, LocalOfNew
<1>10. PartsKept' /\ LocalsKept'
  BY <1>9 DEF PartsKept, PartKept, LocalsKept, LocalKept
<1>11. \A d \in DOMAIN tree' : tree'[d].dropped => HasParams(tree'[d].tag)
  BY <1>2 DEF KeptInv, NewDie
<1> QED BY <1>2, <1>5, <1>6, <1>7, <1>8, <1>10, <1>11 DEF KeptInv, HasParams

\* What attributes leave: nothing of it has to do with the parts.
LEMMA AttributeKept ==
  ASSUME WalkInv, BuilderInv, KeptInv, SamePointers,
         UNCHANGED <<tree, current_element_type_, m_regged, sub_filtered>>,
         at' = "die" \/ (at # "die" /\ UNCHANGED <<die, added>>)
  PROVE  KeptInv'
<1>1. TreeKept /\ Shape /\ UNCHANGED <<path, parts>>
  BY SamePointersKeepTree, WalkShape DEF SamePointers
<1>2. Monotone
  BY <1>1 DEF Monotone
<1>3. PartsKept' /\ LocalsKept'
  BY <1>1, <1>2, KeptStays DEF KeptInv
<1>4. \A d \in DOMAIN tree : (IsFunction(d)' <=> IsFunction(d)) /\ Own(d)' = Own(d) /\ TypeOf(d)' = TypeOf(d)
  BY <1>1 DEF TreeKept, IsFunction
<1>5. LastFunctionKept' <=> LastFunctionKept
  BY <1>1, <1>4 DEF LastFunctionKept
<1>6. \A i \in DOMAIN path : PathKept(i)'
  <2> SUFFICES ASSUME NEW i \in DOMAIN path PROVE PathKept(i)'
    OBVIOUS
  <2>1. Own(path[i].id)' = Own(path[i].id)
    BY <1>1, <1>4, PathStep
  <2>2. Recorded(path[i].id)' = Recorded(path[i].id) /\ OnlyParams(path[i].id)' = OnlyParams(path[i].id)
    BY <1>1 DEF Recorded, OnlyParams
  <2> QED BY <1>1, <2>1, <2>2 DEF KeptInv, PathKept, PartParents, HasParams
<1>7. ASSUME at # "die", UNCHANGED <<die, added>> PROVE DieKept' /\ OutsideOfTypes'
  <2>1. die.id \in DOMAIN tree
    BY <1>1, <1>7 DEF WalkInv, DieOK, Shape
  <2>2. Own(die.id)' = Own(die.id) /\ TypeOf(die.id)' = TypeOf(die.id)
    BY <1>4, <1>7, <2>1 DEF Own, TypeOf
  <2>3. Parent' = Parent
    BY <1>1 DEF Parent, LastOf
  <2>4. DieKept'
    BY <1>7, <2>2 DEF KeptInv, DieKept, PartParents, HasParams
  <2>5. OutsideOfTypes'
    BY <1>1, <1>7, <2>2, <2>3 DEF KeptInv, OutsideOfTypes, PartParents
  <2> QED BY <2>4, <2>5
<1> QED BY <1>1, <1>3, <1>5, <1>6, <1>7 DEF KeptInv, HasParams

\* A type or function that was dumped before: only a function's parts get lost.
LEMMA DroppedKept ==
  ASSUME WalkInv, BuilderInv, KeptInv, PostProcess, m_regged, CanBeDumped, DropDumped,
         m_regged' = FALSE, tree' = [tree EXCEPT ![die.id].dropped = HasParams(die.tag)]
  PROVE  KeptInv'
<1>1. SamePointers /\ SameTree /\ TreeKept /\ Shape /\ DieOK /\ at = "post" /\ at' = "kids"
      /\ UNCHANGED <<path, parts, die, added>>
  BY PostProcessBuilder, SamePointersKeepTree, WalkShape DEF SamePointers, PostProcess, WalkInv
<1>2. /\ die.id \in DOMAIN tree /\ die.id = Len(tree) /\ added /\ tree[die.id].made
      /\ tree[die.id].tag = die.tag
      /\ tree'[die.id].dropped = HasParams(die.tag)
  BY <1>1 DEF DieOK, Shape
<1>3. /\ \A d \in DOMAIN tree : d # die.id => tree'[d] = tree[d]
      /\ \A d \in DOMAIN tree : /\ tree'[d].tag = tree[d].tag /\ tree'[d].made = tree[d].made
                                /\ tree'[d].parent = tree[d].parent
      /\ DOMAIN tree' = DOMAIN tree
  BY <1>1, <1>2 DEF SameTree
<1>4. Monotone
  <2>1. \A d \in DOMAIN tree : tree[d].dropped => tree'[d].dropped
    BY <1>2, <1>3 DEF KeptInv
  <2> QED BY <1>1, <2>1 DEF Monotone
<1>5. PartsKept' /\ LocalsKept'
  BY <1>3, <1>4, KeptStays DEF KeptInv
<1>6. \A d \in DOMAIN tree' : tree'[d].dropped => HasParams(tree'[d].tag)
  BY <1>2, <1>3 DEF KeptInv
<1>7. \A d \in DOMAIN tree : (IsFunction(d)' <=> IsFunction(d)) /\ Own(d)' = Own(d)
  BY <1>1 DEF TreeKept, IsFunction
<1>8. \A d : (Recorded(d)' <=> Recorded(d)) /\ (OnlyParams(d)' <=> OnlyParams(d))
  BY <1>3 DEF Recorded, OnlyParams
<1>9. LastFunctionKept' => LastFunctionKept
  BY <1>3, <1>4, <1>7 DEF LastFunctionKept, Monotone
<1>10. ASSUME NEW i \in DOMAIN path,
              path[i].tag \in PartParents, Own(path[i].id)' # Null, ~tree'[path[i].id].dropped,
              Recorded(path[i].id)'
       PROVE  /\ current_element_type_ # "none" /\ Recorded(path[i].id)
              /\ path[i].id \in DOMAIN tree /\ Own(path[i].id) # Null /\ path # <<>>
              /\ path[i].id <= Parent.id
  <2>1. path[i].id \in DOMAIN tree /\ path # <<>> /\ path[i].id <= Parent.id
    BY PathStep
  <2>2. Own(path[i].id) # Null /\ Recorded(path[i].id) /\ ~tree[path[i].id].dropped
    BY <1>1, <1>4, <1>7, <1>8, <1>10, <2>1 DEF Monotone
  <2> QED BY <1>10, <2>1, <2>2 DEF KeptInv, PathKept
<1>11. CASE current_element_type_ = "subroutine"
  <2>1. OutsideOfTypes /\ die.tag = "subprogram" /\ TypeOf(die.id) = "subroutine"
    BY <1>1, <1>2, <1>11 DEF KeptInv, OutsideOfTypes
  <2>2. tree'[die.id].dropped
    BY <1>2, <2>1 DEF HasParams
  <2>3. ~LastFunctionKept'
    <3>1. IsFunction(die.id)'
      BY <1>1, <1>2, <1>7, <2>1 DEF IsFunction
    <3>2. \A f \in DOMAIN tree' : f = die.id \/ die.id > f
      BY <1>1, <1>2, <1>3 DEF Shape
    <3> QED BY <1>1, <1>2, <1>3, <2>2, <3>1, <3>2 DEF LastFunctionKept
  <2>4. ASSUME NEW i \in DOMAIN path PROVE PathKept(i)'
    <3> SUFFICES ASSUME path[i].tag \in PartParents, Own(path[i].id)' # Null,
                        ~tree'[path[i].id].dropped, Recorded(path[i].id)'
                 PROVE  FALSE
      BY <1>1 DEF PathKept, PartParents
    <3>1. Recorded(path[i].id) /\ path[i].id \in DOMAIN tree /\ Own(path[i].id) # Null
          /\ path # <<>> /\ path[i].id <= Parent.id
      BY <1>10
    <3>2. ~tree[Parent.id].made
      BY <1>2, <1>11, <2>1 DEF OutsideOfTypes
    <3>3. tree[path[i].id].made
      <4>1. path[i].id \in Refs /\ obj[path[i].id] # NoObj
        BY <1>1, <3>1, RefsFact DEF Shape, Own
      <4> QED BY <3>1, <4>1 DEF BuilderInv, ElementsOK
    <3>4. Parent.id > path[i].id /\ Parent.id \in DOMAIN tree
      BY <1>1, <3>1, <3>2, <3>3 DEF Shape
    <3> QED BY <3>1, <3>2, <3>4 DEF Recorded
  <2>5. DieKept' /\ OutsideOfTypes'
    <3>1. current_element_type_' = "none"
      BY <1>11 DEF DropDumped
    <3> QED BY <1>1, <2>2, <3>1 DEF DieKept, OutsideOfTypes
  <2> QED BY <1>1, <1>5, <1>6, <2>3, <2>4, <2>5 DEF KeptInv, HasParams
<1>12. CASE current_element_type_ # "subroutine"
  <2>1. UNCHANGED <<current_element_type_, sub_filtered>>
    BY <1>12 DEF DropDumped
  <2>2. ASSUME NEW i \in DOMAIN path PROVE PathKept(i)'
    <3> SUFFICES ASSUME path[i].tag \in PartParents, Own(path[i].id)' # Null,
                        ~tree'[path[i].id].dropped, Recorded(path[i].id)'
                 PROVE  /\ current_element_type_' # "none"
                        /\ ~OnlyParams(path[i].id)'
      BY <1>1 DEF PathKept, PartParents, HasParams
    <3>1. current_element_type_' # "none" /\ path # <<>>
      BY <1>10, <2>1
    <3>2. SUFFICES ASSUME OnlyParams(path[i].id) PROVE FALSE
      BY <1>1, <1>8, <3>1
    <3>3. die.tag \in {"formal_parameter", "pack"}
      <4>1. CASE i = Len(path)
        <5>1. tree[die.id].parent = path[i].id
          BY <1>1, <3>1, <4>1 DEF DieOK, Shape
        <5> QED BY <1>2, <3>2, <5>1 DEF OnlyParams
      <4>2. CASE i # Len(path)
        <5>1. Parent.tag = "pack"
          BY <3>2, <4>2, ParamsAreNear
        <5>2. die.tag \in ChildTags["pack"] /\ "pack" \in Parents
          BY <1>1, <3>1, <5>1 DEF DieOK, Parents
        <5> QED BY <5>2, KindsOfChildren
      <4> QED BY <4>1, <4>2
    <3>4. die.tag # "pack"
      BY <1>2 DEF BuilderInv, ElementsOK
    <3>5. current_element_type_ = "formal_param"
      BY <1>1, <3>3, <3>4 DEF BuilderInv, NewOK
    <3> QED BY <3>5 DEF CanBeDumped
  <2>3. DieKept'
    <3>1. Own(die.id)' = Own(die.id) /\ die' = die
      BY <1>1, <1>2, <1>7
    <3>2. HasParams(die.tag) => tree'[die.id].dropped
      BY <1>2
    <3>3. ~tree'[die.id].dropped => ~tree[die.id].dropped
      BY <1>2, <1>4 DEF Monotone
    <3>4. DieKept
      BY <1>1 DEF KeptInv
    <3> QED BY <1>2, <2>1, <3>1, <3>2, <3>3, <3>4 DEF DieKept, PartParents, HasParams
  <2>4. OutsideOfTypes'
    BY <1>12, <2>1 DEF OutsideOfTypes
  <2> QED BY <1>1, <1>5, <1>6, <1>9, <2>1, <2>2, <2>3, <2>4 DEF KeptInv, HasParams
<1> QED BY <1>11, <1>12

LEMMA PostProcessKept ==
  ASSUME WalkInv, BuilderInv, KeptInv, PostProcess PROVE KeptInv'
<1>1. SamePointers
  BY PostProcessBuilder
<1>2. CASE /\ UNCHANGED <<m_regged, tree>>
           /\ OpenNamespace \/ UNCHANGED builderVars
  <2>1. UNCHANGED <<tree, current_element_type_, m_regged, sub_filtered, die, added>> /\ at # "die"
    BY <1>2 DEF PostProcess, OpenNamespace, builderVars
  <2> QED BY <1>1, <2>1, AttributeKept
<1>3. CASE /\ m_regged /\ CanBeDumped /\ DropDumped /\ m_regged' = FALSE
           /\ tree' = [tree EXCEPT ![die.id].dropped = HasParams(die.tag)]
  BY <1>3, DroppedKept
<1> QED BY <1>2, <1>3 DEF PostProcess

LEMMA AttributesKept ==
  ASSUME WalkInv, BuilderInv, KeptInv, ReadName \/ ReadLocation \/ SkipKids PROVE KeptInv'
<1>1. SamePointers
  BY ReadNameBuilder, ReadLocationBuilder, SkipKidsBuilder
<1>2. UNCHANGED <<tree, current_element_type_, m_regged, sub_filtered>>
  BY DEF ReadName, ReadLocation, SkipKids, SetElementName, SetLocation, Crash, builderVars
<1>3. at' = "die" \/ (at # "die" /\ UNCHANGED <<die, added>>)
  BY DEF ReadName, ReadLocation, SkipKids, NextDie
<1> QED BY <1>1, <1>2, <1>3, AttributeKept

LEMMA ReadKidsKept == ASSUME WalkInv, BuilderInv, KeptInv, ReadKids PROVE KeptInv'
<1>1. LongerPath /\ LongerStack /\ Shape
  BY ReadKidsLongerPath, ReadKidsLongerStack, WalkShape
<1>2. /\ UNCHANGED <<tree, obj, parts, current_element_type_, sub_filtered, m_regged>>
      /\ at = "kids" /\ at' = "die"
  BY <1>1 DEF ReadKids, LongerStack, listVars, NextDie
<1>3. Monotone
  BY <1>2 DEF Monotone, TreeKept, TypeOf, Own
<1>4. PartsKept' /\ LocalsKept'
  BY <1>2, <1>3, KeptStays DEF KeptInv
<1>5. LastFunctionKept' <=> LastFunctionKept
  BY <1>2 DEF LastFunctionKept, IsFunction, TypeOf
<1>6. \A d : /\ Own(d)' = Own(d) /\ (Recorded(d)' <=> Recorded(d))
             /\ (OnlyParams(d)' <=> OnlyParams(d))
  BY <1>2 DEF Own, Recorded, OnlyParams
<1>7. ASSUME NEW i \in DOMAIN path' PROVE PathKept(i)'
  <2>1. PICK n : n = Len(path)
    OBVIOUS
  <2>2. /\ n \in Nat /\ DOMAIN path = 1 .. n /\ DOMAIN path' = 1 .. n + 1
        /\ \A j \in 1 .. n : path'[j] = path[j] /\ path'[n + 1] = die
        /\ path'[n + 1] = die
    BY <1>1, <2>1 DEF LongerPath, Shape
  <2>3. CASE i \in 1 .. n
    <3>1. PathKept(i) /\ path'[i] = path[i]
      BY <2>2, <2>3 DEF KeptInv
    <3> QED BY <1>2, <1>6, <3>1 DEF PathKept, PartParents, HasParams
  <2>4. CASE i = n + 1
    <3>1. DieKept /\ path'[i] = die
      BY <1>2, <2>2, <2>4 DEF KeptInv
    <3> QED BY <1>2, <1>6, <3>1 DEF PathKept, DieKept, PartParents, HasParams
  <2> QED BY <2>2, <2>3, <2>4
<1> QED BY <1>2, <1>4, <1>5, <1>7 DEF KeptInv, HasParams

LEMMA EndOfKidsKept == ASSUME WalkInv, BuilderInv, KeptInv, EndOfKids PROVE KeptInv'
<1>1. ShorterPath /\ ShorterStack /\ Shape
  BY EndOfKidsShorterStack, ShorterPathByOne, WalkShape DEF EndOfKids
<1>2. /\ UNCHANGED <<tree, parts, current_element_type_, sub_filtered, m_regged>>
      /\ at' = "die" /\ \A r \in Dies : obj'[r] = obj[r]
  BY <1>1, EndOfKidsElements DEF EndOfKids, ShorterStack
<1>3. \A d \in DOMAIN tree : TypeOf(d)' = TypeOf(d) /\ Own(d)' = Own(d)
  BY <1>1, <1>2, RefsFact DEF Shape, TypeOf, Own
<1>4. Monotone
  BY <1>2, <1>3 DEF Monotone, TreeKept
<1>5. PartsKept' /\ LocalsKept'
  BY <1>2, <1>4, KeptStays DEF KeptInv
<1>6. LastFunctionKept' <=> LastFunctionKept
  BY <1>2, <1>3 DEF LastFunctionKept, IsFunction
<1>7. \A d : (Recorded(d)' <=> Recorded(d)) /\ (OnlyParams(d)' <=> OnlyParams(d))
  BY <1>2 DEF Recorded, OnlyParams
<1>8. ASSUME NEW i \in DOMAIN path' PROVE PathKept(i)'
  <2>1. i \in DOMAIN path /\ path'[i] = path[i]
    BY <1>1 DEF ShorterPath
  <2>2. PathKept(i) /\ path[i].id \in DOMAIN tree
    BY <2>1, PathStep DEF KeptInv
  <2> QED BY <1>2, <1>3, <1>7, <2>1, <2>2 DEF PathKept, PartParents, HasParams
<1> QED BY <1>2, <1>5, <1>6, <1>8 DEF KeptInv, HasParams

LEMMA NothingReadKept == NothingRead => KeptInv
  BY DEF NothingRead, KeptInv, LastFunctionKept, PartsKept, LocalsKept

LEMMA KeptInvInit == Init => KeptInv
  BY InitNothing, NothingReadKept

LEMMA KeptInvNext == StepInv /\ PartsInv /\ KeptInv /\ [Next]_allVars => KeptInv'
<1> SUFFICES ASSUME WalkInv, BuilderInv, LevelInv, PartsInv, KeptInv, [Next]_allVars PROVE KeptInv'
  BY DEF StepInv
<1>1. ASSUME NEW tag, NEW kids \in BOOLEAN, ReadDie(tag, kids) PROVE KeptInv'
  BY <1>1, ReadDieIsNewDie, ReadDieKept
<1>2. CASE EndOfUnit
  <2>1. NothingRead'
    BY <1>2, EndOfUnitNothing
  <2> QED BY <2>1 DEF NothingRead, KeptInv, LastFunctionKept, PartsKept, LocalsKept
<1>3. CASE UNCHANGED allVars
  <2>1. /\ UNCHANGED <<tree, current_element_type_, m_regged, sub_filtered, at, die, added>>
        /\ UNCHANGED <<obj, opt, back, parts, named, m_stack, recent_, last_var_, ns_count,
                       ns_stack, crashed, path, m_level>>
    BY <1>3 DEF allVars, walkVars, builderVars, listVars, pointerVars, nsVars
  <2>2. SamePointers
    <3>1. SameTree /\ SameElements
      BY <2>1, SameTreeIfUnchanged, SameElementsIfUnchanged DEF WalkInv, BuilderInv
    <3> QED BY <2>1, <3>1 DEF SamePointers, BuilderInv, PointersOK
  <2>3. at' = "die" \/ (at # "die" /\ UNCHANGED <<die, added>>)
    BY <2>1
  <2> QED BY <2>1, <2>2, <2>3, AttributeKept
<1> QED BY <1>1, <1>2, <1>3, AttributesKept, PostProcessKept, ReadKidsKept, EndOfKidsKept DEF Next

\* A part of a type and a parameter of a function get lost only behind a DIE that was
\* not registered, a variable, or with a function that was left out.
THEOREM NoPartIsLost == Spec => []PartsKept
<1>1. Init => StepInv /\ PartsInv /\ KeptInv
  BY StepInvInit, PartsInvInit, KeptInvInit
<1>2. StepInv /\ PartsInv /\ KeptInv /\ [Next]_allVars => StepInv' /\ PartsInv' /\ KeptInv'
  BY StepInvNext, PartsInvNext, KeptInvNext DEF StepInv
<1>3. KeptInv => PartsKept
  BY DEF KeptInv
<1> QED BY <1>1, <1>2, <1>3, PTL DEF Spec

\* A local variable or static member is recorded when the function read last was kept,
\* however many functions were left out before it.
THEOREM NoLocalIsLost == Spec => []LocalsKept
<1>1. Init => StepInv /\ PartsInv /\ KeptInv
  BY StepInvInit, PartsInvInit, KeptInvInit
<1>2. StepInv /\ PartsInv /\ KeptInv /\ [Next]_allVars => StepInv' /\ PartsInv' /\ KeptInv'
  BY StepInvNext, PartsInvNext, KeptInvNext DEF StepInv
<1>3. KeptInv => LocalsKept
  BY DEF KeptInv
<1> QED BY <1>1, <1>2, <1>3, PTL DEF Spec
=============================================================================
