------------------------- MODULE DumpedTypes_proof -------------------------
(***************************************************************************)
(* Theorems about DumpedTypes, for any kinds and names, and any number of  *)
(* units, of elements in a unit and of parts of a type.                    *)
(***************************************************************************)
EXTENDS DumpedTypes, SequenceTheorems, TLAPS

Known(k) == m_dumped_db[k] # NoEntry

Shape ==
  /\ DumpedTypeOK
  /\ g_opt_k \in BOOLEAN
  /\ at \in Nat /\ units \in Nat

(***************************************************************************)
(* What reading an element says about it: an element that is replaced has  *)
(* an entry, one that is marked has one until the unit is printed, and     *)
(* with -k it keeps what the file has of it.                               *)
(***************************************************************************)
ReadAs(i) ==
  LET e == elements_[i] IN
  /\ e.unit = units
  /\ i \in m_replaced \/ (at = 0 /\ e.dumped) => Known(KeyOf(e))
  /\ g_opt_k /\ e.kind \notin BasicKinds => i \notin m_replaced /\ e.rank = e.size
  /\ at = 0 /\ g_opt_k /\ e.kind \notin BasicKinds /\ Known(KeyOf(e)) => e.dumped
  /\ at > 0 /\ g_opt_k /\ e.level <= 1 /\ dump_nested(e) => e.dumped
  /\ at = 0 /\ ~g_opt_k /\ i \notin m_replaced /\ e.kind # "subroutine" => ~Known(KeyOf(e))

AllReadAs == \A i \in DOMAIN elements_ : ReadAs(i)

PrintedBefore ==
  /\ printed \subseteq Element
  /\ \A p \in printed : g_opt_k /\ dump_nested(p) => p.rank = p.size
  /\ \A p \in printed : p.level <= 1 /\ p.unit <= units /\ (at = 0 => p.unit < units)

\* An element of this name, with this many parts when they count, is printed.
PrintedAs(kind, name, size) ==
  \E p \in printed : /\ p.kind = kind /\ p.name = name
                     /\ g_opt_k /\ kind \notin BasicKinds => p.rank >= size

\* Whatever has an entry was printed with as many parts as the entry says ...
KnownPrinted ==
  \A kind \in Kinds, name \in Names :
    Known(<<kind, name>>) => PrintedAs(kind, name, m_dumped_db[<<kind, name>>])

\* ... and whatever was printed has an entry, or it is still to be entered.
StillToEnter(p) ==
  \E i \in DOMAIN elements_ :
    /\ at <= i /\ elements_[i].level <= 1
    /\ elements_[i].kind = p.kind /\ elements_[i].name = p.name /\ elements_[i].size = p.size

Entered ==
  \A p \in printed : ~is_pure_decl(p) =>
    Known(KeyOf(p)) \/ (at > 0 /\ p.unit = units /\ StillToEnter(p))

\* With -k the entry is then as rich as the richest of the name.
EnteredRich ==
  g_opt_k => \A p \in printed : dump_nested(p) /\ ~OnlyDeclared(p) =>
    \/ Known(KeyOf(p)) /\ m_dumped_db[KeyOf(p)] >= p.rank
    \/ at > 0 /\ p.unit = units /\ StillToEnter(p)

\* Once the unit is printed, all it has at its top is.
Rendered ==
  at > 0 => \A i \in DOMAIN elements_ : elements_[i].level <= 1 =>
    PrintedAs(elements_[i].kind, elements_[i].name, elements_[i].size)

DInv ==
  /\ Shape /\ AllReadAs /\ PrintedBefore /\ KnownPrinted /\ Entered /\ Rendered
  /\ PrintedInOneUnit /\ EnteredRich /\ PrintedAgainRicher

-----------------------------------------------------------------------------
\* The invariant contains the rest.
LEMMA DInvImplies ==
  ASSUME DInv
  PROVE  /\ DumpedTypeOK /\ ReplacedWasPrinted /\ PrintedInOneUnit
         /\ RichestPrinted /\ PrintedAgainRicher
<1>1. ReplacedWasPrinted
  <2> SUFFICES ASSUME NEW i \in m_replaced
               PROVE  \E p \in printed : KeyOf(p) = KeyOf(elements_[i])
    BY DEF ReplacedWasPrinted
  <2>1. i \in DOMAIN elements_ /\ elements_[i] \in Element
    BY DEF DInv, Shape, DumpedTypeOK
  <2>2. Known(<<elements_[i].kind, elements_[i].name>>)
    BY <2>1 DEF DInv, AllReadAs, ReadAs, KeyOf
  <2>3. PrintedAs(elements_[i].kind, elements_[i].name,
                  m_dumped_db[<<elements_[i].kind, elements_[i].name>>])
    BY <2>1, <2>2 DEF DInv, KnownPrinted, Element
  <2>4. QED
    BY <2>3 DEF PrintedAs, KeyOf
<1>2. RichestPrinted
  BY DEF DInv, Rendered, RichestPrinted, PrintedAs, KeyOf
<1>3. QED
  BY <1>1, <1>2 DEF DInv, Shape

LEMMA DInvInit == Init => DInv
<1> SUFFICES ASSUME Init PROVE DInv
  OBVIOUS
<1>1. Shape
  BY DEF Init, Shape, DumpedTypeOK, NoEntry
<1>2. /\ AllReadAs /\ PrintedBefore /\ Entered /\ Rendered /\ PrintedInOneUnit
      /\ EnteredRich /\ PrintedAgainRicher
  BY DEF Init, AllReadAs, PrintedBefore, Entered, Rendered, PrintedInOneUnit,
         EnteredRich, PrintedAgainRicher
<1>3. KnownPrinted
  BY DEF Init, KnownPrinted, Known, Keys
<1>4. QED
  BY <1>1, <1>2, <1>3 DEF DInv

-----------------------------------------------------------------------------
\* An element that is read next to the others.
NewAs(e, replaced) ==
  /\ e \in Element
  /\ at = 0
  /\ elements_' = Append(elements_, e)
  /\ m_replaced' = IF replaced THEN m_replaced \cup {Len(elements_) + 1} ELSE m_replaced
  /\ UNCHANGED <<g_opt_k, m_dumped_db, at, units, printed>>
  /\ e.unit = units
  /\ replaced \/ e.dumped => Known(KeyOf(e))
  /\ g_opt_k /\ e.kind \notin BasicKinds => ~replaced /\ e.rank = e.size
  /\ g_opt_k /\ e.kind \notin BasicKinds /\ Known(KeyOf(e)) => e.dumped
  /\ ~g_opt_k /\ ~replaced /\ e.kind # "subroutine" => ~Known(KeyOf(e))

LEMMA NewElementFields ==
  ASSUME Shape, units < MaxUnits,
         NEW kind \in Kinds, NEW name \in Names, NEW level \in {1, 2}, NEW size \in 0 .. MaxRank,
         NEW rank \in 0 .. MaxRank, NEW dumped \in BOOLEAN
  PROVE  NewElement(kind, name, level, size, rank, dumped) \in Element
BY BoundsAssumption DEF Element, NewElement, Shape

LEMMA AddIsNew ==
  ASSUME Shape, Add
  PROVE  \E e \in Element, replaced \in BOOLEAN : NewAs(e, replaced)
<1> PICK kind \in Kinds, name \in Names, level \in {1, 2}, size \in 0 .. MaxRank :
      \/ AddKept(kind, name, level, size)
      \/ \E rank \in {0, size} : AddReplaced(kind, name, level, size, rank)
      \/ AddDumpedFunction(name, level, size)
  BY DEF Add
<1> USE DEF NewAs, NewElement, Read, KeyOf, Known
<1>1. CASE AddKept(kind, name, level, size)
  <2> DEFINE e == NewElement(kind, name, level, size, size, Known(<<kind, name>>))
  <2>1. e \in Element
    BY <1>1, NewElementFields DEF AddKept
  <2>2. NewAs(e, FALSE)
    BY <1>1, <2>1 DEF AddKept
  <2>3. QED
    BY <2>1, <2>2
<1>2. CASE \E rank \in {0, size} : AddReplaced(kind, name, level, size, rank)
  <2> PICK rank \in {0, size} : AddReplaced(kind, name, level, size, rank)
    BY <1>2
  <2> DEFINE e == NewElement(kind, name, level, size, rank, FALSE)
  <2>1. e \in Element
    <3>1. rank \in 0 .. MaxRank /\ units < MaxUnits
      BY BoundsAssumption DEF AddReplaced
    <3>2. QED
      BY <3>1, NewElementFields
  <2>2. NewAs(e, TRUE)
    BY <2>1 DEF AddReplaced
  <2>3. QED
    BY <2>1, <2>2
<1>3. CASE AddDumpedFunction(name, level, size)
  <2> DEFINE e == NewElement("subroutine", name, level, size, 0, TRUE)
  <2>1. e \in Element
    <3>1. "subroutine" \in Kinds /\ 0 \in 0 .. MaxRank /\ units < MaxUnits
      BY <1>3, BoundsAssumption DEF AddDumpedFunction
    <3>2. QED
      BY <3>1, NewElementFields
  <2>2. NewAs(e, FALSE)
    BY <1>3, <2>1 DEF AddDumpedFunction
  <2>3. QED
    BY <2>1, <2>2
<1>4. QED
  BY <1>1, <1>2, <1>3

LEMMA AddKeeps ==
  ASSUME DInv, Add
  PROVE  DInv'
<1> PICK e \in Element, replaced \in BOOLEAN : NewAs(e, replaced)
  BY AddIsNew DEF DInv
<1> USE DEF DInv
<1>1. /\ elements_ \in Seq(Element) /\ elements_' \in Seq(Element)
      /\ DOMAIN elements_ = 1 .. Len(elements_) /\ Len(elements_) \in Nat
      /\ DOMAIN elements_' = 1 .. Len(elements_) + 1
      /\ \A i \in DOMAIN elements_ : elements_'[i] = elements_[i]
      /\ elements_'[Len(elements_) + 1] = e
  BY DEF NewAs, Shape, DumpedTypeOK
<1>2. Shape'
  BY <1>1 DEF NewAs, Shape, DumpedTypeOK
<1>3. AllReadAs'
  <2> SUFFICES ASSUME NEW i \in DOMAIN elements_' PROVE ReadAs(i)'
    BY DEF AllReadAs
  <2>1. CASE i \in DOMAIN elements_
    <3>1. i \in m_replaced' <=> i \in m_replaced
      BY <1>1, <2>1 DEF NewAs
    <3>2. ReadAs(i)
      BY <2>1 DEF AllReadAs
    <3>3. QED
      BY <1>1, <2>1, <3>1, <3>2 DEF NewAs, ReadAs, Known, KeyOf
  <2>2. CASE i = Len(elements_) + 1
    <3>1. i \in m_replaced' <=> replaced
      BY <1>1, <2>2 DEF NewAs, Shape, DumpedTypeOK
    <3>2. QED
      BY <1>1, <2>2, <3>1 DEF NewAs, ReadAs, Known, KeyOf
  <2>3. QED
    BY <1>1, <2>1, <2>2
<1>4. PrintedBefore' /\ PrintedInOneUnit' /\ PrintedAgainRicher'
  BY DEF NewAs, PrintedBefore, PrintedInOneUnit, PrintedAgainRicher
<1>5. KnownPrinted'
  <2> SUFFICES ASSUME NEW kind \in Kinds, NEW name \in Names, m_dumped_db[<<kind, name>>] # NoEntry
               PROVE  PrintedAs(kind, name, m_dumped_db[<<kind, name>>])'
    BY DEF NewAs, KnownPrinted, Known
  <2>1. PrintedAs(kind, name, m_dumped_db[<<kind, name>>])
    BY DEF KnownPrinted, Known
  <2>2. QED
    BY <2>1 DEF NewAs, PrintedAs
<1>6. Entered' /\ Rendered' /\ EnteredRich'
  BY DEF NewAs, Entered, Rendered, PrintedAs, Known, KeyOf, is_pure_decl, PrintedBefore,
         EnteredRich, OnlyDeclared, dump_nested
<1>7. QED
  BY <1>2, <1>3, <1>4, <1>5, <1>6

-----------------------------------------------------------------------------
\* The marks are all that dump_types changes of the elements.
LEMMA OnlyMarked ==
  ASSUME Shape, RenderUnit
  PROVE  /\ elements_' \in Seq(Element) /\ DOMAIN elements_' = DOMAIN elements_
         /\ \A i \in DOMAIN elements_ :
              LET e == elements_[i]  f == elements_'[i] IN
              /\ f.kind = e.kind /\ f.name = e.name /\ f.level = e.level
              /\ f.size = e.size /\ f.rank = e.rank /\ f.unit = e.unit
              /\ f.dumped = (e.dumped \/ (Printed(i) /\ dump_nested(e)))
<1> DEFINE Marked(i) == elements_[i].dumped \/ (Printed(i) /\ dump_nested(elements_[i]))
<1>1. /\ elements_ \in Seq(Element) /\ Len(elements_) \in Nat
      /\ DOMAIN elements_ = 1 .. Len(elements_)
  BY DEF Shape, DumpedTypeOK
<1>2. elements_' = [i \in 1 .. Len(elements_) |-> [elements_[i] EXCEPT !.dumped = Marked(i)]]
  BY <1>1 DEF RenderUnit, MarkDumped
<1>3. ASSUME NEW i \in 1 .. Len(elements_)
      PROVE  /\ elements_'[i] \in Element
             /\ elements_'[i].kind = elements_[i].kind /\ elements_'[i].name = elements_[i].name
             /\ elements_'[i].level = elements_[i].level /\ elements_'[i].size = elements_[i].size
             /\ elements_'[i].rank = elements_[i].rank /\ elements_'[i].unit = elements_[i].unit
             /\ elements_'[i].dumped = Marked(i)
  <2>1. elements_[i] \in Element
    BY <1>1
  <2>2. Marked(i) \in BOOLEAN
    BY <2>1 DEF Element, Printed, dump_nested
  <2> HIDE DEF Marked
  <2>3. elements_'[i] = [elements_[i] EXCEPT !.dumped = Marked(i)]
    BY <1>2
  <2>4. QED
    BY <2>1, <2>2, <2>3 DEF Element
<1>4. DOMAIN elements_' = 1 .. Len(elements_)
  BY <1>2
<1>5. elements_' \in Seq(Element)
  <2> HIDE DEF Marked
  <2>1. elements_' \in [1 .. Len(elements_) -> Element]
    BY <1>2, <1>3
  <2>2. QED
    BY <1>1, <2>1, SeqDef
<1>6. QED
  BY <1>1, <1>3, <1>4, <1>5

\* An element at the top that is not printed now was printed before, as rich.
LEMMA PrintedOrKnown ==
  ASSUME DInv, RenderUnit, NEW i \in DOMAIN elements_, elements_[i].level <= 1
  PROVE  PrintedAs(elements_[i].kind, elements_[i].name, elements_[i].size)'
<1> DEFINE e == elements_[i]
<1>1. /\ e \in Element /\ ReadAs(i)
      /\ e.kind \in Kinds /\ e.name \in Names /\ e.size \in Int /\ e.rank \in Int
  <2>1. e \in Element /\ ReadAs(i)
    BY DEF DInv, AllReadAs, Shape, DumpedTypeOK
  <2>2. QED
    BY <2>1, BoundsAssumption DEF Element
<1>a. /\ elements_'[i].kind = e.kind /\ elements_'[i].name = e.name
      /\ elements_'[i].size = e.size
  BY OnlyMarked DEF DInv
<1>2. CASE Printed(i)
  <2> DEFINE p == [e EXCEPT !.dumped = FALSE]
  <2>1. p \in printed'
    BY <1>2 DEF RenderUnit
  <2>2. p.kind = e.kind /\ p.name = e.name /\ p.rank = e.rank
    BY <1>1 DEF Element
  <2>3. g_opt_k /\ e.kind \notin BasicKinds => p.rank >= e.size
    BY <1>1, <2>2 DEF ReadAs
  <2>4. QED
    BY <1>a, <2>1, <2>2, <2>3 DEF PrintedAs, RenderUnit
<1>3. CASE ~Printed(i)
  <2>1. Known(<<e.kind, e.name>>)
    BY <1>1, <1>3 DEF Printed, should_keep, ReadAs, KeyOf, RenderUnit
  <2>2. g_opt_k /\ e.kind \notin BasicKinds => m_dumped_db[<<e.kind, e.name>>] >= e.size
    <3> SUFFICES ASSUME g_opt_k, e.kind \notin BasicKinds
                 PROVE  m_dumped_db[<<e.kind, e.name>>] >= e.size
      OBVIOUS
    <3>1. i \notin m_replaced /\ e.rank = e.size
      BY <1>1 DEF ReadAs
    <3>2. ~(e.rank > m_dumped_db[<<e.kind, e.name>>])
      BY <1>3, <3>1 DEF Printed, should_keep, KeyOf
    <3>3. m_dumped_db[<<e.kind, e.name>>] \in Int
      BY <1>1, BoundsAssumption DEF DInv, Shape, DumpedTypeOK, Keys, NoEntry
    <3>4. QED
      BY <1>1, <3>1, <3>2, <3>3
  <2>3. PICK p \in printed :
          /\ p.kind = e.kind /\ p.name = e.name
          /\ g_opt_k /\ e.kind \notin BasicKinds => p.rank >= m_dumped_db[<<e.kind, e.name>>]
    BY <1>1, <2>1 DEF DInv, KnownPrinted, PrintedAs
  <2>4. p.rank \in Int /\ m_dumped_db[<<e.kind, e.name>>] \in Int
    <3>1. p \in Element /\ <<e.kind, e.name>> \in Keys
      BY <1>1 DEF DInv, PrintedBefore, Keys
    <3>2. m_dumped_db[<<e.kind, e.name>>] \in 0 .. MaxRank \cup {NoEntry}
      BY <3>1 DEF DInv, Shape, DumpedTypeOK
    <3>3. QED
      BY <3>1, <3>2, BoundsAssumption DEF Element, NoEntry
  <2>5. g_opt_k /\ e.kind \notin BasicKinds => p.rank >= e.size
    BY <1>1, <2>2, <2>3, <2>4
  <2>6. QED
    BY <1>a, <2>3, <2>5 DEF PrintedAs, RenderUnit
<1>4. QED
  BY <1>2, <1>3

LEMMA RenderKeeps ==
  ASSUME DInv, RenderUnit
  PROVE  DInv'
<1> USE DEF DInv
<1> DEFINE New == {[elements_[i] EXCEPT !.dumped = FALSE] : i \in {j \in DOMAIN elements_ : Printed(j)}}
<1>1. printed' = printed \cup New /\ at = 0 /\ at' = 1
  BY DEF RenderUnit
<1>2. \A p \in New : \E i \in DOMAIN elements_ :
        /\ Printed(i) /\ p \in Element
        /\ p.kind = elements_[i].kind /\ p.name = elements_[i].name /\ p.size = elements_[i].size
        /\ p.level = elements_[i].level /\ p.unit = elements_[i].unit
  <2> SUFFICES ASSUME NEW i \in DOMAIN elements_, Printed(i),
                      NEW p, p = [elements_[i] EXCEPT !.dumped = FALSE]
               PROVE  /\ p \in Element
                      /\ p.kind = elements_[i].kind /\ p.name = elements_[i].name
                      /\ p.size = elements_[i].size
                      /\ p.level = elements_[i].level /\ p.unit = elements_[i].unit
    OBVIOUS
  <2>1. elements_[i] \in Element
    BY DEF Shape, DumpedTypeOK
  <2>2. QED
    BY <2>1 DEF Element
<1>a. /\ elements_' \in Seq(Element) /\ DOMAIN elements_' = DOMAIN elements_
      /\ DOMAIN elements_ \subseteq Nat \ {0}
      /\ \A i \in DOMAIN elements_ :
           /\ elements_'[i].kind = elements_[i].kind /\ elements_'[i].name = elements_[i].name
           /\ elements_'[i].level = elements_[i].level /\ elements_'[i].size = elements_[i].size
           /\ elements_'[i].rank = elements_[i].rank /\ elements_'[i].unit = elements_[i].unit
           /\ elements_'[i].dumped = (elements_[i].dumped \/ (Printed(i) /\ dump_nested(elements_[i])))
  BY OnlyMarked DEF Shape, DumpedTypeOK
<1>3. Shape'
  BY <1>1, <1>a DEF RenderUnit, Shape, DumpedTypeOK
<1>4. AllReadAs'
  <2> SUFFICES ASSUME NEW i \in DOMAIN elements_ PROVE ReadAs(i)'
    BY <1>a DEF AllReadAs
  <2>1. ReadAs(i) /\ i \in DOMAIN elements_'
    BY <1>a DEF AllReadAs
  <2>2. g_opt_k /\ elements_[i].level <= 1 /\ dump_nested(elements_[i]) => elements_'[i].dumped
    <3> SUFFICES ASSUME g_opt_k, elements_[i].level <= 1, dump_nested(elements_[i]),
                        ~elements_[i].dumped
                 PROVE  Printed(i)
      BY <1>a
    <3>1. elements_[i].kind \notin BasicKinds
      BY DEF dump_nested, DeclKinds, BasicKinds
    <3>2. QED
      BY <2>1, <3>1 DEF Printed, should_keep, ReadAs
  <2>3. QED
    BY <1>1, <1>a, <2>1, <2>2 DEF RenderUnit, ReadAs, Known, KeyOf, dump_nested
<1>5. \A p \in New : p.unit = units /\ p.level <= 1
  BY <1>2 DEF AllReadAs, ReadAs, Printed
<1>6. PrintedBefore'
  <2>1. \A p \in New : g_opt_k /\ dump_nested(p) => p.rank = p.size
    <3> SUFFICES ASSUME NEW i \in DOMAIN elements_, NEW p, p = [elements_[i] EXCEPT !.dumped = FALSE],
                        g_opt_k, dump_nested(p)
                 PROVE  p.rank = p.size
      OBVIOUS
    <3>1. elements_[i] \in Element /\ ReadAs(i)
      BY DEF Shape, DumpedTypeOK, AllReadAs
    <3>2. p.rank = elements_[i].rank /\ p.size = elements_[i].size /\ p.kind = elements_[i].kind
      BY <3>1 DEF Element
    <3>3. QED
      BY <3>1, <3>2 DEF ReadAs, dump_nested, DeclKinds, BasicKinds
  <2>2. QED
    BY <1>1, <1>2, <1>5, <2>1 DEF RenderUnit, PrintedBefore, Shape, dump_nested
<1>7. KnownPrinted'
  <2> SUFFICES ASSUME NEW kind \in Kinds, NEW name \in Names, m_dumped_db[<<kind, name>>] # NoEntry
               PROVE  PrintedAs(kind, name, m_dumped_db[<<kind, name>>])'
    BY DEF RenderUnit, KnownPrinted, Known
  <2>1. PrintedAs(kind, name, m_dumped_db[<<kind, name>>])
    BY DEF KnownPrinted, Known
  <2>2. QED
    BY <1>1, <2>1 DEF RenderUnit, PrintedAs
<1>8. Entered'
  <2> SUFFICES ASSUME NEW p \in printed', ~is_pure_decl(p)
               PROVE  \/ Known(KeyOf(p))'
                      \/ at' > 0 /\ p.unit = units' /\ StillToEnter(p)'
    BY DEF Entered, is_pure_decl, Known, KeyOf
  <2>1. CASE p \in printed
    BY <1>1, <2>1 DEF RenderUnit, Entered, Known, KeyOf
  <2>2. CASE p \in New
    <3>1. PICK i \in DOMAIN elements_ :
            /\ Printed(i)
            /\ p.kind = elements_[i].kind /\ p.name = elements_[i].name /\ p.size = elements_[i].size
      BY <1>2, <2>2
    <3>2. /\ i \in DOMAIN elements_' /\ 1 <= i /\ elements_'[i].level <= 1
          /\ elements_'[i].kind = p.kind /\ elements_'[i].name = p.name /\ elements_'[i].size = p.size
      BY <1>a, <3>1 DEF Printed
    <3>3. StillToEnter(p)'
      BY <1>1, <3>2 DEF StillToEnter
    <3>4. QED
      BY <1>1, <1>5, <2>2, <3>3 DEF RenderUnit
  <2>3. QED
    BY <1>1, <2>1, <2>2
<1>9. Rendered'
  BY <1>a, PrintedOrKnown DEF RenderUnit, Rendered
<1>10. PrintedInOneUnit'
  <2> SUFFICES ASSUME ~g_opt_k, NEW p \in printed', NEW q \in printed',
                      KeyOf(p) = KeyOf(q), p.unit < q.unit, p.kind # "subroutine"
               PROVE  is_pure_decl(p)
    BY DEF PrintedInOneUnit, RenderUnit, is_pure_decl, KeyOf
  <2>1. CASE q \in printed /\ p \in printed
    BY <2>1 DEF PrintedInOneUnit
  <2>2. CASE q \in printed /\ p \in New
    <3>1. q.unit < units /\ p.unit = units /\ q.unit \in Int /\ units \in Int
      BY <1>1, <1>5, <2>2 DEF PrintedBefore, Element, Shape
    <3>2. QED
      BY <3>1
  <2>3. CASE q \in New /\ p \in New
    <3>1. p.unit = units /\ q.unit = units /\ units \in Int
      BY <1>5, <2>3 DEF Shape
    <3>2. QED
      BY <3>1
  <2>4. CASE q \in New /\ p \in printed
    <3>1. PICK i \in DOMAIN elements_ : Printed(i) /\ q.kind = elements_[i].kind /\ q.name = elements_[i].name
      BY <1>2, <2>4
    <3>2. KeyOf(p) = KeyOf(elements_[i]) /\ elements_[i].kind # "subroutine"
      BY <3>1 DEF KeyOf
    <3>3. ~Known(KeyOf(p))
      BY <1>1, <3>1, <3>2 DEF AllReadAs, ReadAs, Printed
    <3>4. QED
      BY <1>1, <2>4, <3>3 DEF Entered
  <2>5. QED
    BY <1>1, <2>1, <2>2, <2>3, <2>4
<1>11. \A p \in printed : g_opt_k /\ dump_nested(p) /\ ~OnlyDeclared(p) =>
         Known(KeyOf(p)) /\ m_dumped_db[KeyOf(p)] >= p.rank
  BY <1>1 DEF EnteredRich
<1>12. EnteredRich'
  <2> SUFFICES ASSUME g_opt_k, NEW p \in printed', dump_nested(p), ~OnlyDeclared(p)
               PROVE  \/ Known(KeyOf(p))' /\ m_dumped_db'[KeyOf(p)] >= p.rank
                      \/ at' > 0 /\ p.unit = units' /\ StillToEnter(p)'
    BY DEF EnteredRich, RenderUnit, dump_nested, OnlyDeclared, is_pure_decl, KeyOf, Known
  <2>1. CASE p \in printed
    BY <1>11, <2>1 DEF RenderUnit, Known, KeyOf
  <2>2. CASE p \in New
    <3>1. PICK i \in DOMAIN elements_ :
            /\ Printed(i)
            /\ p.kind = elements_[i].kind /\ p.name = elements_[i].name /\ p.size = elements_[i].size
      BY <1>2, <2>2
    <3>2. /\ i \in DOMAIN elements_' /\ 1 <= i /\ elements_'[i].level <= 1
          /\ elements_'[i].kind = p.kind /\ elements_'[i].name = p.name /\ elements_'[i].size = p.size
      BY <1>a, <3>1 DEF Printed
    <3>3. StillToEnter(p)'
      BY <1>1, <3>2 DEF StillToEnter
    <3>4. QED
      BY <1>1, <1>5, <2>2, <3>3 DEF RenderUnit
  <2>3. QED
    BY <1>1, <2>1, <2>2
<1>13. PrintedAgainRicher'
  <2> SUFFICES ASSUME g_opt_k, NEW p \in printed', NEW q \in printed',
                      KeyOf(p) = KeyOf(q), p.unit < q.unit, dump_nested(p), ~OnlyDeclared(p)
               PROVE  q.rank > p.rank
    BY DEF PrintedAgainRicher, RenderUnit, dump_nested, OnlyDeclared, is_pure_decl, KeyOf
  <2>1. CASE q \in printed /\ p \in printed
    BY <2>1 DEF PrintedAgainRicher
  <2>2. CASE p \in New
    <3>1. q.unit <= units /\ p.unit = units /\ q.unit \in Int /\ units \in Int
      <4>1. q \in Element /\ q.unit <= units
        BY <1>6, <1>1 DEF PrintedBefore, RenderUnit
      <4>2. QED
        BY <1>5, <2>2, <4>1, BoundsAssumption DEF Element, Shape
    <3>2. QED
      BY <3>1
  <2>3. CASE q \in New /\ p \in printed
    <3>1. PICK i \in DOMAIN elements_ : q = [elements_[i] EXCEPT !.dumped = FALSE] /\ Printed(i)
      BY <2>3
    <3>2. elements_[i] \in Element /\ ReadAs(i)
      BY DEF Shape, DumpedTypeOK, AllReadAs
    <3>3. q.kind = elements_[i].kind /\ q.name = elements_[i].name /\ q.rank = elements_[i].rank
      BY <3>1, <3>2 DEF Element
    <3>4. KeyOf(elements_[i]) = KeyOf(p) /\ elements_[i].kind = p.kind
      BY <3>3 DEF KeyOf
    <3>5. Known(KeyOf(p)) /\ m_dumped_db[KeyOf(p)] >= p.rank
      BY <1>11, <2>3
    <3>6. elements_[i].dumped
      BY <1>1, <3>2, <3>4, <3>5 DEF ReadAs, dump_nested, DeclKinds, BasicKinds
    <3>7. q.rank > m_dumped_db[KeyOf(p)]
      BY <3>1, <3>3, <3>4, <3>6 DEF Printed, should_keep
    <3>8. q.rank \in Int /\ p.rank \in Int /\ m_dumped_db[KeyOf(p)] \in Int
      <4>1. p \in Element
        BY <2>3 DEF PrintedBefore
      <4>2. KeyOf(p) \in Keys
        BY <4>1 DEF Element, KeyOf, Keys
      <4>3. m_dumped_db[KeyOf(p)] \in 0 .. MaxRank \cup {NoEntry}
        BY <4>2 DEF Shape, DumpedTypeOK
      <4>4. QED
        BY <3>2, <3>3, <4>1, <4>3, BoundsAssumption DEF Element, NoEntry
    <3>9. QED
      BY <3>5, <3>7, <3>8
  <2>4. QED
    BY <1>1, <2>1, <2>2, <2>3
<1>14. QED
  BY <1>3, <1>4, <1>6, <1>7, <1>8, <1>9, <1>10, <1>12, <1>13

-----------------------------------------------------------------------------
LEMMA MergeKeeps ==
  ASSUME DInv, MergeDumped
  PROVE  DInv'
<1> USE DEF DInv
<1> DEFINE e == elements_[at]
           key == <<e.kind, e.name>>
<1>1. /\ at \in DOMAIN elements_ /\ e \in Element /\ at > 0 /\ at' = at + 1
      /\ ReadAs(at) /\ key \in Keys /\ KeyOf(e) = key
  <2>1. at \in DOMAIN elements_ /\ e \in Element /\ at > 0 /\ at' = at + 1 /\ ReadAs(at)
    BY DEF MergeDumped, Shape, DumpedTypeOK, AllReadAs
  <2>2. QED
    BY <2>1 DEF Element, Keys, KeyOf
<1>2. e.rank \in 0 .. MaxRank /\ e.rank # NoEntry /\ e.size \in Int /\ e.rank \in Int
  BY <1>1, BoundsAssumption DEF Element, NoEntry
<1>3. \/ ~Merged(e) /\ m_dumped_db' = m_dumped_db
      \/ Merged(e) /\ m_dumped_db' = [m_dumped_db EXCEPT ![key] = e.rank]
  BY <1>1 DEF MergeDumped
<1>4. m_dumped_db' \in [Keys -> 0 .. MaxRank \cup {NoEntry}]
  BY <1>1, <1>2, <1>3 DEF Shape, DumpedTypeOK
<1>5. Shape'
  BY <1>1, <1>4 DEF MergeDumped, Shape, DumpedTypeOK
<1>6. \A k \in Keys : Known(k) => m_dumped_db'[k] # NoEntry
  BY <1>1, <1>2, <1>3 DEF Known, Shape, DumpedTypeOK
<1>7. AllReadAs'
  <2> SUFFICES ASSUME NEW i \in DOMAIN elements_ PROVE ReadAs(i)'
    BY DEF AllReadAs, MergeDumped
  <2>1. ReadAs(i) /\ elements_[i] \in Element /\ KeyOf(elements_[i]) \in Keys
    <3>1. ReadAs(i) /\ elements_[i] \in Element
      BY DEF AllReadAs, Shape, DumpedTypeOK
    <3>2. QED
      BY <3>1 DEF Element, Keys, KeyOf
  <2>2. Known(KeyOf(elements_[i])) => m_dumped_db'[KeyOf(elements_[i])] # NoEntry
    BY <1>6, <2>1
  <2>3. at' # 0
    BY <1>1 DEF Shape
  <2>4. QED
    BY <1>1, <2>1, <2>2, <2>3 DEF MergeDumped, ReadAs, Known, KeyOf
<1>8. PrintedBefore' /\ PrintedInOneUnit' /\ PrintedAgainRicher'
  BY <1>1 DEF MergeDumped, PrintedBefore, PrintedInOneUnit, PrintedAgainRicher, Shape
<1>9. KnownPrinted'
  <2> SUFFICES ASSUME NEW kind \in Kinds, NEW name \in Names, m_dumped_db'[<<kind, name>>] # NoEntry
               PROVE  PrintedAs(kind, name, m_dumped_db[<<kind, name>>])'
    BY DEF KnownPrinted, Known
  <2>1. CASE Merged(e) /\ <<kind, name>> = key
    <3>1. kind = e.kind /\ name = e.name /\ m_dumped_db'[<<kind, name>>] = e.rank
      BY <1>1, <1>3, <2>1 DEF Shape, DumpedTypeOK
    <3>2. PrintedAs(kind, name, e.size)
      BY <1>1, <2>1, <3>1 DEF Rendered, Merged
    <3>3. g_opt_k /\ kind \notin BasicKinds => e.rank = e.size
      BY <1>1, <3>1 DEF ReadAs
    <3>4. QED
      BY <3>1, <3>2, <3>3 DEF PrintedAs, MergeDumped
  <2>2. CASE ~(Merged(e) /\ <<kind, name>> = key)
    <3>1. m_dumped_db'[<<kind, name>>] = m_dumped_db[<<kind, name>>]
      BY <1>1, <1>3, <2>2 DEF Shape, DumpedTypeOK, Keys
    <3>2. PrintedAs(kind, name, m_dumped_db[<<kind, name>>])
      BY <3>1 DEF KnownPrinted, Known
    <3>3. QED
      BY <3>1, <3>2 DEF PrintedAs, MergeDumped
  <2>3. QED
    BY <2>1, <2>2
<1>10. Entered'
  <2> SUFFICES ASSUME NEW p \in printed, ~is_pure_decl(p), m_dumped_db'[KeyOf(p)] = NoEntry
               PROVE  at' > 0 /\ p.unit = units /\ StillToEnter(p)'
    BY DEF Entered, MergeDumped, Known, is_pure_decl, KeyOf
  <2>1. KeyOf(p) \in Keys
    BY DEF PrintedBefore, Element, KeyOf, Keys
  <2>2. p.unit = units /\ StillToEnter(p)
    BY <1>6, <2>1 DEF Entered
  <2>3. PICK i \in DOMAIN elements_ :
          /\ at <= i /\ elements_[i].level <= 1
          /\ elements_[i].kind = p.kind /\ elements_[i].name = p.name /\ elements_[i].size = p.size
    BY <2>2 DEF StillToEnter
  <2>4. i # at
    <3> SUFFICES ASSUME i = at PROVE FALSE
      OBVIOUS
    <3>1. ~is_pure_decl(e) /\ key = KeyOf(p) /\ e.level <= 1
      BY <2>3 DEF is_pure_decl, KeyOf
    <3>2. Merged(e) \/ Known(key)
      BY <1>1, <3>1 DEF Merged, Known, OnlyDeclared
    <3>3. QED
      BY <1>1, <1>2, <1>3, <1>6, <3>1, <3>2 DEF Shape, DumpedTypeOK
  <2>5. at' <= i /\ at' > 0
    BY <1>1, <2>3, <2>4 DEF Shape, DumpedTypeOK
  <2>6. QED
    BY <2>2, <2>3, <2>5 DEF StillToEnter, MergeDumped
<1>11. Rendered'
  BY <1>1 DEF Rendered, PrintedAs, MergeDumped
<1>12. EnteredRich'
  <2> SUFFICES ASSUME g_opt_k, NEW p \in printed, dump_nested(p), ~OnlyDeclared(p)
               PROVE  \/ Known(KeyOf(p))' /\ m_dumped_db'[KeyOf(p)] >= p.rank
                      \/ at' > 0 /\ p.unit = units /\ StillToEnter(p)'
    BY DEF EnteredRich, MergeDumped, dump_nested, OnlyDeclared, is_pure_decl, KeyOf, Known
  <2>1. p \in Element /\ KeyOf(p) \in Keys /\ p.rank = p.size /\ p.rank \in Int
    BY BoundsAssumption DEF PrintedBefore, Element, KeyOf, Keys
  <2>2. m_dumped_db[KeyOf(p)] \in Int
    BY <2>1, BoundsAssumption DEF Shape, DumpedTypeOK, NoEntry
  <2>3. \/ Known(KeyOf(p)) /\ m_dumped_db[KeyOf(p)] >= p.rank
        \/ p.unit = units /\ StillToEnter(p)
    BY DEF EnteredRich
  <2>4. CASE Known(KeyOf(p)) /\ m_dumped_db[KeyOf(p)] >= p.rank
    <3>1. CASE Merged(e) /\ KeyOf(p) = key
      <4>1. dump_nested(e) /\ e.level <= 1
        BY <1>1, <3>1 DEF dump_nested, KeyOf, Merged
      <4>2. e.dumped
        BY <1>1, <4>1 DEF ReadAs
      <4>3. e.rank > m_dumped_db[key]
        <5>1. ~(e.rank <= m_dumped_db[KeyOf(e)])
          BY <1>1, <2>4, <3>1, <4>2 DEF Merged, Known
        <5>2. QED
          BY <1>1, <1>2, <2>2, <3>1, <5>1
      <4>4. m_dumped_db'[KeyOf(p)] = e.rank
        BY <1>1, <1>3, <3>1 DEF Shape, DumpedTypeOK
      <4>5. QED
        BY <1>2, <2>1, <2>2, <2>4, <3>1, <4>3, <4>4 DEF Known, KeyOf
    <3>2. CASE ~(Merged(e) /\ KeyOf(p) = key)
      <4>1. m_dumped_db'[KeyOf(p)] = m_dumped_db[KeyOf(p)]
        BY <1>1, <1>3, <2>1, <3>2 DEF Shape, DumpedTypeOK
      <4>2. QED
        BY <2>4, <4>1 DEF Known, KeyOf
    <3>3. QED
      BY <3>1, <3>2
  <2>5. CASE p.unit = units /\ StillToEnter(p)
    <3>1. PICK i \in DOMAIN elements_ :
            /\ at <= i /\ elements_[i].level <= 1
            /\ elements_[i].kind = p.kind /\ elements_[i].name = p.name /\ elements_[i].size = p.size
      BY <2>5 DEF StillToEnter
    <3>2. CASE i = at
      <4>1. e.kind = p.kind /\ KeyOf(p) = key /\ e.level <= 1 /\ e.size = p.size
        BY <3>1, <3>2 DEF KeyOf
      <4>2. ~OnlyDeclared(e) /\ dump_nested(e)
        BY <4>1 DEF OnlyDeclared, is_pure_decl, dump_nested
      <4>3. e.dumped /\ e.rank = p.rank
        BY <1>1, <2>1, <4>1, <4>2 DEF ReadAs, dump_nested, DeclKinds, BasicKinds
      <4>4. CASE Merged(e)
        <5>1. m_dumped_db'[KeyOf(p)] = e.rank
          BY <1>1, <1>3, <4>1, <4>4 DEF Shape, DumpedTypeOK
        <5>2. QED
          BY <1>2, <2>1, <4>3, <5>1 DEF Known, KeyOf
      <4>5. CASE ~Merged(e)
        <5>1. m_dumped_db[key] # NoEntry /\ e.rank <= m_dumped_db[key]
          BY <1>1, <4>1, <4>2, <4>5 DEF Merged
        <5>2. m_dumped_db' = m_dumped_db
          BY <1>3, <4>5
        <5>3. QED
          BY <2>1, <2>2, <4>1, <4>3, <5>1, <5>2 DEF Known, KeyOf
      <4>6. QED
        BY <4>4, <4>5
    <3>3. CASE i # at
      <4>1. at' <= i /\ at' > 0
        BY <1>1, <3>1, <3>3 DEF Shape, DumpedTypeOK
      <4>2. QED
        BY <2>5, <3>1, <4>1 DEF StillToEnter, MergeDumped
    <3>4. QED
      BY <3>2, <3>3
  <2>6. QED
    BY <2>3, <2>4, <2>5
<1>13. QED
  BY <1>5, <1>7, <1>8, <1>9, <1>10, <1>11, <1>12

LEMMA ClearKeeps ==
  ASSUME DInv, ClearUnit
  PROVE  DInv'
<1> USE DEF DInv
<1>1. elements_' = <<>> /\ m_replaced' = {} /\ at' = 0 /\ units' = units + 1
  BY DEF ClearUnit
<1>2. Shape'
  BY <1>1 DEF ClearUnit, Shape, DumpedTypeOK
<1>3. AllReadAs' /\ Rendered'
  BY <1>1 DEF AllReadAs, Rendered
<1>4. PrintedBefore'
  <2>1. \A p \in printed : p.unit \in Int /\ p.unit <= units /\ units \in Int
    BY BoundsAssumption DEF PrintedBefore, Element, Shape
  <2>2. QED
    BY <1>1, <2>1 DEF ClearUnit, PrintedBefore
<1>5. KnownPrinted' /\ PrintedInOneUnit' /\ PrintedAgainRicher'
  <2>1. KnownPrinted'
    <3> SUFFICES ASSUME NEW kind \in Kinds, NEW name \in Names, m_dumped_db[<<kind, name>>] # NoEntry
                 PROVE  PrintedAs(kind, name, m_dumped_db[<<kind, name>>])'
      BY DEF ClearUnit, KnownPrinted, Known
    <3>1. PrintedAs(kind, name, m_dumped_db[<<kind, name>>])
      BY DEF KnownPrinted, Known
    <3>2. QED
      BY <3>1 DEF ClearUnit, PrintedAs
  <2>2. QED
    BY <2>1 DEF ClearUnit, PrintedInOneUnit, PrintedAgainRicher
<1>6. Entered' /\ EnteredRich'
  <2>1. ASSUME NEW p \in printed PROVE ~StillToEnter(p)
    BY DEF StillToEnter, ClearUnit, Shape, DumpedTypeOK
  <2>2. QED
    BY <2>1 DEF Entered, EnteredRich, ClearUnit, Known, KeyOf, is_pure_decl, OnlyDeclared, dump_nested
<1>7. QED
  BY <1>2, <1>3, <1>4, <1>5, <1>6

LEMMA DInvNext == DInv /\ [Next]_vars => DInv'
<1>1. ASSUME DInv, UNCHANGED vars PROVE DInv'
  BY <1>1 DEF vars, DInv, Shape, DumpedTypeOK, AllReadAs, ReadAs, PrintedBefore, KnownPrinted,
              PrintedAs, Entered, StillToEnter, Rendered, PrintedInOneUnit, Known,
              EnteredRich, PrintedAgainRicher
<1>2. QED
  BY <1>1, AddKeeps, RenderKeeps, MergeKeeps, ClearKeeps DEF Next

\* However many units there are: a type that is left out because of an earlier one
\* of its name was printed (check_dumped_type, merge_dumped, dump_types).
THEOREM NothingLost == Spec => []ReplacedWasPrinted
<1>1. DInv => ReplacedWasPrinted
  BY DInvImplies
<1>2. QED
  BY <1>1, DInvInit, DInvNext, PTL DEF Spec

\* Without -k what two units print under one name is, in the earlier of them, a
\* forward declaration or a function (dump_types).
THEOREM NothingTwice == Spec => []PrintedInOneUnit
<1>1. DInv => PrintedInOneUnit
  BY DInvImplies
<1>2. QED
  BY <1>1, DInvInit, DInvNext, PTL DEF Spec

\* With -k no definition is lost to a poorer one (should_keep).
THEOREM RicherKept == Spec => []RichestPrinted
<1>1. DInv => RichestPrinted
  BY DInvImplies
<1>2. QED
  BY <1>1, DInvInit, DInvNext, PTL DEF Spec

\* With -k what is printed of a structure or class for a later unit is richer than
\* what was printed of it before (dump_types with merge_dumped).
THEOREM AgainRicher == Spec => []PrintedAgainRicher
<1>1. DInv => PrintedAgainRicher
  BY DInvImplies
<1>2. QED
  BY <1>1, DInvInit, DInvNext, PTL DEF Spec

\* The types of the database and of the elements of a unit.
THEOREM DumpedTypesCorrect == Spec => []DumpedTypeOK
<1>1. DInv => DumpedTypeOK
  BY DInvImplies
<1>2. QED
  BY <1>1, DInvInit, DInvNext, PTL DEF Spec
=============================================================================
