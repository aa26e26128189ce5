--------------------------- MODULE UnitRoot_proof ---------------------------
(***************************************************************************)
(* Theorems about UnitRoot and LineTables, for any number of units, any    *)
(* set of string attributes, any tables, and every order in which the      *)
(* root has its attributes.                                                *)
(***************************************************************************)
EXTENDS LineTables, WellFoundedInduction, TLAPS

Own(a) == <<unit, unit, a>>

Shape ==
  /\ unit \in Nat
  /\ at \in {"root", "children"}
  /\ at = "root" => unit # 0
  /\ given \in [Attributes -> Forms \cup {"no"}]

(***************************************************************************)
(* Bases.  Three of them are what this unit's root has said so far; the    *)
(* base of the range lists is not, because nothing resets it.              *)
(***************************************************************************)
BasesHere ==
  /\ offsets_base = BaseIs(given["str_offsets_base"])
  /\ addr_base = BaseIs(given["addr_base"])
  /\ loclist_base = BaseIs(given["loclists_base"])

BInv == Shape /\ BasesHere /\ LookupsOfUnit

\* The attribute that is read is the only one whose form becomes known.
LEMMA HasSetsOne ==
  ASSUME Shape, NEW a \in Attributes, NEW f \in Forms, Has(a, f)
  PROVE  /\ Shape'
         /\ given'[a] = f
         /\ \A b \in Attributes : b # a => given'[b] = given[b]
BY DEF Shape, Has

\* The four bases are among the attributes, and none of them is a string.
LEMMA BaseAttributes ==
  /\ Others \subseteq Attributes
  /\ Strings \subseteq Attributes
  /\ \A a \in Strings : a \notin Others
BY StringsAssumption DEF Attributes

LEMMA BInvInit == Init => BInv
<1> SUFFICES ASSUME Init PROVE BInv
  OBVIOUS
<1>1. Shape
  BY DEF Init, Shape
<1>2. BasesHere
  BY BaseAttributes DEF Init, BasesHere, BaseIs, Others
<1>3. LookupsOfUnit
  BY DEF Init, LookupsOfUnit
<1>4. QED
  BY <1>1, <1>2, <1>3 DEF BInv

LEMMA BInvNext == BInv /\ [Next]_vars => BInv'
<1> SUFFICES ASSUME BInv, [Next]_vars PROVE BInv'
  OBVIOUS
<1> USE BaseAttributes DEF BInv
<1>1. CASE StartUnit
  <2>1. Shape'
    BY <1>1 DEF StartUnit, NewRoot, Shape
  <2>2. BasesHere'
    BY <1>1 DEF StartUnit, NewRoot, ClearedBases, BasesHere, BaseIs, Others
  <2>3. LookupsOfUnit'
    BY <1>1 DEF StartUnit, NewRoot, LookupsOfUnit
  <2>4. QED
    BY <2>1, <2>2, <2>3
<1>2. ASSUME NEW a \in Strings, NEW form \in {"direct", "index"}, ReadString(a, form)
      PROVE  BInv'
  <2>1. Has(a, form)
    BY <1>2 DEF ReadString
  <2>2. Shape' /\ \A b \in Others : given'[b] = given[b]
    BY <2>1, HasSetsOne DEF Forms
  <2>3. BasesHere'
    BY <1>2, <2>1, <2>2 DEF ReadString, Has, baseVars, BasesHere, BaseIs, Others
  <2>4. LookupsOfUnit'
    BY <2>1 DEF Has, LookupsOfUnit
  <2>5. QED
    BY <2>2, <2>3, <2>4
<1>3. CASE PassPackage
  <2>1. Has(Package, "passed") /\ Package \in Strings
    BY <1>3 DEF PassPackage
  <2>2. Shape' /\ \A b \in Others : given'[b] = given[b]
    BY <2>1, HasSetsOne DEF Forms
  <2>3. BasesHere'
    BY <1>3, <2>1, <2>2 DEF PassPackage, Has, baseVars, BasesHere, BaseIs, Others
  <2>4. LookupsOfUnit'
    BY <2>1 DEF Has, LookupsOfUnit
  <2>5. QED
    BY <2>2, <2>3, <2>4
<1>4. ASSUME NEW lang \in {"go", "c"}, ReadLanguage(lang) PROVE BInv'
  <2>1. Has("language", lang) /\ "language" \in Attributes
    BY <1>4 DEF ReadLanguage, Others
  <2>2. Shape' /\ \A b \in Others \ {"language"} : given'[b] = given[b]
    BY <2>1, HasSetsOne DEF Forms
  <2>3. BasesHere'
    BY <1>4, <2>1, <2>2 DEF ReadLanguage, Has, baseVars, BasesHere, BaseIs, Others
  <2>4. LookupsOfUnit'
    BY <2>1 DEF Has, LookupsOfUnit
  <2>5. QED
    BY <2>2, <2>3, <2>4
<1>5. ASSUME NEW validity \in {"valid", "outside"}, ReadBase(validity) PROVE BInv'
  <2>1. CASE ReadStrOffsetsBase(validity)
    <3>1. Has("str_offsets_base", validity) /\ "str_offsets_base" \in Attributes
      BY <2>1 DEF ReadStrOffsetsBase, Others
    <3>2. Shape' /\ given'["str_offsets_base"] = validity
          /\ \A b \in Others \ {"str_offsets_base"} : given'[b] = given[b]
      BY <3>1, HasSetsOne DEF Forms
    <3>3. BasesHere'
      BY <2>1, <3>1, <3>2 DEF ReadStrOffsetsBase, Has, BasesHere, BaseIs, Others
    <3>4. LookupsOfUnit'
      BY <3>1 DEF Has, LookupsOfUnit
    <3>5. QED
      BY <3>2, <3>3, <3>4
  <2>2. CASE ReadAddrBase(validity)
    <3>1. Has("addr_base", validity) /\ "addr_base" \in Attributes
      BY <2>2 DEF ReadAddrBase, Others
    <3>2. Shape' /\ given'["addr_base"] = validity
          /\ \A b \in Others \ {"addr_base"} : given'[b] = given[b]
      BY <3>1, HasSetsOne DEF Forms
    <3>3. BasesHere'
      BY <2>2, <3>1, <3>2 DEF ReadAddrBase, Has, BasesHere, BaseIs, Others
    <3>4. LookupsOfUnit'
      BY <3>1 DEF Has, LookupsOfUnit
    <3>5. QED
      BY <3>2, <3>3, <3>4
  <2>3. CASE ReadLoclistsBase(validity)
    <3>1. Has("loclists_base", validity) /\ "loclists_base" \in Attributes
      BY <2>3 DEF ReadLoclistsBase, Others
    <3>2. Shape' /\ given'["loclists_base"] = validity
          /\ \A b \in Others \ {"loclists_base"} : given'[b] = given[b]
      BY <3>1, HasSetsOne DEF Forms
    <3>3. BasesHere'
      BY <2>3, <3>1, <3>2 DEF ReadLoclistsBase, Has, BasesHere, BaseIs, Others
    <3>4. LookupsOfUnit'
      BY <3>1 DEF Has, LookupsOfUnit
    <3>5. QED
      BY <3>2, <3>3, <3>4
  <2>4. CASE ReadRnglistsBase(validity)
    <3>1. Has("rnglists_base", validity) /\ "rnglists_base" \in Attributes
      BY <2>4 DEF ReadRnglistsBase, Others
    <3>2. Shape' /\ \A b \in Others \ {"rnglists_base"} : given'[b] = given[b]
      BY <3>1, HasSetsOne DEF Forms
    <3>3. BasesHere'
      BY <2>4, <3>1, <3>2 DEF ReadRnglistsBase, Has, BasesHere, BaseIs, Others
    <3>4. LookupsOfUnit'
      BY <3>1 DEF Has, LookupsOfUnit
    <3>5. QED
      BY <3>2, <3>3, <3>4
  <2>5. QED
    BY <1>5, <2>1, <2>2, <2>3, <2>4 DEF ReadBase
<1>6. ASSUME NEW form \in {"direct", "index", "short index"}, ReadLowPc(form)
      PROVE  BInv'
  <2>1. Has("low_pc", form) /\ "low_pc" \in Attributes
    BY <1>6 DEF ReadLowPc, Others
  <2>2. Shape' /\ \A b \in Others \ {"low_pc"} : given'[b] = given[b]
    BY <2>1, HasSetsOne DEF Forms
  <2>3. BasesHere'
    BY <1>6, <2>1, <2>2 DEF ReadLowPc, Has, baseVars, BasesHere, BaseIs, Others
  <2>4. LookupsOfUnit'
    BY <2>1 DEF Has, LookupsOfUnit
  <2>5. QED
    BY <2>2, <2>3, <2>4
<1>7. CASE EndOfRoot
  BY <1>7 DEF EndOfRoot, baseVars, Shape, BasesHere, LookupsOfUnit, BaseIs
<1>8. ASSUME NEW which \in {"str_offsets", "addr", "loclists", "rnglists"}, LookUp(which)
      PROVE  BInv'
  <2>1. Shape' /\ BasesHere'
    BY <1>8 DEF LookUp, baseVars, Shape, BasesHere, BaseIs
  <2>2. {offsets_base, addr_base, loclist_base} \subseteq {NoBase, unit}
    BY DEF BasesHere, BaseIs
  <2>3. looked'.table = which /\ looked'.base = BaseOf[which] /\ unit' = unit
    BY <1>8 DEF LookUp
  <2>4. LookupsOfUnit'
    BY <2>2, <2>3 DEF BaseOf, LookupsOfUnit
  <2>5. QED
    BY <2>1, <2>4
<1>9. CASE UNCHANGED vars
  BY <1>9 DEF vars, baseVars, Shape, BasesHere, LookupsOfUnit, BaseIs
<1>10. QED
  BY <1>1, <1>2, <1>3, <1>4, <1>5, <1>6, <1>7, <1>8, <1>9 DEF Next

\* No string, address or location list of a unit is looked up in the tables of
\* another unit: the three bases that GetAllClasses resets are never stale.
THEOREM LookupsCorrect == Spec => []LookupsOfUnit
<1>1. BInv => LookupsOfUnit
  BY DEF BInv
<1>2. QED
  BY BInvInit, BInvNext, <1>1, PTL DEF Spec

(***************************************************************************)
(* The unit's address: it waits only for a base that is yet to come, and   *)
(* what waits is this unit's.                                              *)
(***************************************************************************)
AddrHere ==
  /\ need_base_addr_idx => given["low_pc"] = "index" /\ cu_base_addr_idx = unit
  /\ given["low_pc"] = "no" => cu_base_addr = Null
  /\ given["low_pc"] = "direct" => cu_base_addr = Own("low_pc")
  /\ given["low_pc"] = "index" =>
       IF addr_base # NoBase
         THEN cu_base_addr = Own("low_pc")
         ELSE cu_base_addr = Null /\ (given["addr_base"] = "no" => need_base_addr_idx)
  /\ given["low_pc"] \notin {"no", "direct", "index"} =>
       cu_base_addr \in {Null, Own("low_pc")}

LEMMA AddrHereInit == Init => AddrHere
BY BaseAttributes DEF Init, AddrHere, Others

LEMMA AddrHereNext == BInv /\ AddrHere /\ [Next]_vars => AddrHere'
<1> SUFFICES ASSUME BInv, AddrHere, [Next]_vars PROVE AddrHere'
  OBVIOUS
<1> USE BaseAttributes DEF BInv
<1>1. CASE StartUnit
  BY <1>1 DEF StartUnit, NewRoot, ClearedUnit, AddrHere, Others
<1>2. ASSUME NEW a \in Attributes \ {"low_pc", "addr_base"}, NEW f \in Forms, Has(a, f),
             UNCHANGED <<addr_base, addrVars>>
      PROVE  AddrHere'
  <2>1. \A b \in {"low_pc", "addr_base"} : given'[b] = given[b]
    BY <1>2, HasSetsOne DEF Others
  <2>2. QED
    BY <1>2, <2>1 DEF Has, addrVars, AddrHere, Own
<1>3. ASSUME NEW a \in Strings, NEW form \in {"direct", "index"}, ReadString(a, form)
      PROVE  AddrHere'
  BY <1>3, <1>2 DEF ReadString, baseVars, Forms, Others
<1>4. CASE PassPackage
  BY <1>4, <1>2 DEF PassPackage, baseVars, Forms, Others
<1>5. ASSUME NEW lang \in {"go", "c"}, ReadLanguage(lang) PROVE AddrHere'
  BY <1>5, <1>2 DEF ReadLanguage, baseVars, Forms, Others
<1>6. ASSUME NEW validity \in {"valid", "outside"}, ReadBase(validity) PROVE AddrHere'
  <2>1. CASE ReadAddrBase(validity)
    <3>1. Has("addr_base", validity) /\ "addr_base" \in Attributes
      BY <2>1 DEF ReadAddrBase, Others
    <3>2. given'["addr_base"] = validity
          /\ \A b \in Others \ {"addr_base"} : given'[b] = given[b]
      BY <3>1, HasSetsOne DEF Forms
    <3>3. addr_base = NoBase /\ given["addr_base"] = "no" /\ unit' = unit /\ unit # 0
      BY <3>1 DEF Has, BasesHere, BaseIs, Shape
    <3>4. QED
      BY <2>1, <3>2, <3>3 DEF ReadAddrBase, BaseIs, Fetched, NoBase, AddrHere, Own, Others
  <2>2. CASE ~ ReadAddrBase(validity)
    BY <1>6, <2>2, <1>2 DEF ReadBase, ReadStrOffsetsBase, ReadLoclistsBase,
                            ReadRnglistsBase, Forms, Others
  <2>3. QED
    BY <2>1, <2>2
<1>7. ASSUME NEW form \in {"direct", "index", "short index"}, ReadLowPc(form)
      PROVE  AddrHere'
  <2>1. Has("low_pc", form) /\ "low_pc" \in Attributes
    BY <1>7 DEF ReadLowPc, Others
  <2>2. given'["low_pc"] = form
        /\ \A b \in Others \ {"low_pc"} : given'[b] = given[b]
    BY <2>1, HasSetsOne DEF Forms
  <2>3. addr_base' = addr_base /\ addr_base \in {NoBase, unit} /\ unit' = unit
    BY <1>7, <2>1 DEF ReadLowPc, Has, baseVars, BasesHere, BaseIs
  <2>4. cu_base_addr = Null /\ ~ need_base_addr_idx
    BY <2>1 DEF Has, AddrHere
  <2>5. QED
    BY <1>7, <2>2, <2>3, <2>4 DEF ReadLowPc, Fetched, AddrHere, Own, Others
<1>8. CASE EndOfRoot
  BY <1>8 DEF EndOfRoot, baseVars, addrVars, AddrHere, Own
<1>9. ASSUME NEW which \in {"str_offsets", "addr", "loclists", "rnglists"}, LookUp(which)
      PROVE  AddrHere'
  BY <1>9 DEF LookUp, baseVars, addrVars, AddrHere, Own
<1>10. CASE UNCHANGED vars
  BY <1>10 DEF vars, baseVars, addrVars, AddrHere, Own
<1>11. QED
  BY <1>1, <1>3, <1>4, <1>5, <1>6, <1>7, <1>8, <1>9, <1>10 DEF Next

\* Whatever the order of DW_AT_low_pc and DW_AT_addr_base in any of the units, the
\* address of a unit is its own, and unknown when there is no base for its index.
THEOREM BaseAddrCorrect == Spec => []BaseAddrOfUnit
<1>1. BInv /\ AddrHere => BaseAddrOfUnit
  BY DEF BInv, BasesHere, AddrHere, BaseAddrOfUnit, BaseIs, Fetched, Own
<1>2. Spec => [](BInv /\ AddrHere)
  BY BInvInit, BInvNext, AddrHereInit, AddrHereNext, PTL DEF Spec
<1>3. QED
  BY <1>1, <1>2, PTL

(***************************************************************************)
(* The unit's strings: an entry of m_dlist is a string of this unit that   *)
(* still waits, there is at most one for an attribute, and the list is     *)
(* empty as soon as there is a base and whenever the root is over.         *)
(***************************************************************************)
Waits(a) == \E i \in 1 .. Len(m_dlist) : m_dlist[i][1] = a

Delays ==
  /\ m_dlist \in Seq(Strings \X Nat)
  /\ offsets_base # NoBase => m_dlist = <<>>
  /\ at = "children" => m_dlist = <<>>
  /\ \A i \in 1 .. Len(m_dlist) : given[m_dlist[i][1]] = "index" /\ m_dlist[i][2] = unit
  /\ \A i, j \in 1 .. Len(m_dlist) : m_dlist[i][1] = m_dlist[j][1] => i = j

StringsHere ==
  /\ cu = [a \in Strings |-> cu[a]]
  /\ \A a \in Strings : given[a] = "direct" => cu[a] = Own(a)
  /\ \A a \in Strings : given[a] = "index" =>
       \/ cu[a] = Own(a)
       \/ offsets_base = NoBase /\ (given["str_offsets_base"] = "no" => Waits(a))

SInv == BInv /\ Delays /\ StringsHere /\ StringsOfUnit

LEMMA SInvInit == Init => SInv
<1> SUFFICES ASSUME Init PROVE SInv
  OBVIOUS
<1>1. \A a \in Strings : given[a] = "no"
  BY BaseAttributes DEF Init
<1>2. QED
  BY <1>1, BInvInit DEF Init, SInv, Delays, StringsHere, StringsOfUnit

\* apply_dlist: what waited is this unit's, whichever entry stays.
LEMMA Applied ==
  ASSUME Delays, NEW base \in {NoBase, unit}, ApplyDlist(base)
  PROVE  /\ m_dlist' = <<>>
         /\ cu' = [a \in Strings |-> cu'[a]]
         /\ \A a \in Strings : ~ Waits(a) => cu'[a] = cu[a]
         /\ \A a \in Strings : Waits(a) => cu'[a] = Fetched(base, a, unit)
<1> DEFINE D(a) == {i \in DOMAIN m_dlist : m_dlist[i][1] = a}
           L(a) == CHOOSE i \in D(a) : \A j \in D(a) : j <= i
<1>1. DOMAIN m_dlist = 1 .. Len(m_dlist)
  BY DEF Delays
<1>2. /\ m_dlist' = <<>>
      /\ cu' = [a \in Strings |-> IF D(a) = {} THEN cu[a]
                                 ELSE Fetched(base, a, m_dlist[L(a)][2])]
  BY DEF ApplyDlist
<1>3. ASSUME NEW a \in Strings, Waits(a) PROVE D(a) # {} /\ m_dlist[L(a)][2] = unit
  <2>1. PICK i \in 1 .. Len(m_dlist) : m_dlist[i][1] = a
    BY <1>3 DEF Waits
  <2>2. D(a) = {i}
    BY <1>1, <2>1 DEF Delays
  <2>3. i <= i
    BY <2>1
  <2>4. L(a) = i
    BY <2>2, <2>3
  <2>5. QED
    BY <2>1, <2>2, <2>4 DEF Delays
<1>4. ASSUME NEW a \in Strings, ~ Waits(a) PROVE D(a) = {}
  BY <1>1, <1>4 DEF Waits
<1> HIDE DEF D, L
<1>5. QED
  BY <1>2, <1>3, <1>4

LEMMA SInvNext == Split = FALSE /\ SInv /\ [Next]_vars => SInv'
<1> SUFFICES ASSUME Split = FALSE, SInv, [Next]_vars PROVE SInv'
  OBVIOUS
<1> USE BaseAttributes
<1>0. BInv'
  BY BInvNext DEF SInv
<1>1. CASE StartUnit
  <2>1. \A a \in Strings : given'[a] = "no"
    BY <1>1 DEF StartUnit, NewRoot
  <2>2. m_dlist' = <<>> /\ at' = "root" /\ cu' = [a \in Strings |-> Null]
    BY <1>1 DEF StartUnit, NewRoot, ClearedUnit, SInv, Delays
  <2>3. QED
    BY <1>0, <2>1, <2>2 DEF SInv, Delays, StringsHere, StringsOfUnit
<1>2. ASSUME NEW a \in Strings, NEW form \in {"direct", "index"}, ReadString(a, form)
      PROVE  SInv'
  <2>1. Has(a, form) /\ a \in Attributes /\ form \in Forms
    BY <1>2 DEF ReadString, Forms
  <2>2. given'[a] = form /\ \A b \in Attributes : b # a => given'[b] = given[b]
    BY <2>1, HasSetsOne DEF SInv, BInv
  <2>3. /\ unit' = unit /\ offsets_base' = offsets_base /\ at' = "root"
        /\ given[a] = "no" /\ unit \in Nat /\ offsets_base \in {NoBase, unit}
        /\ given'["str_offsets_base"] = given["str_offsets_base"]
    BY <1>2, <2>1, <2>2 DEF ReadString, Has, baseVars, SInv, BInv, Shape, BasesHere,
                            BaseIs, Others
  <2>4. CASE form = "index" /\ offsets_base = NoBase
    <3>1. m_dlist' = Append(m_dlist, <<a, unit>>) /\ cu' = [cu EXCEPT ![a] = Null]
      BY <1>2, <2>4 DEF ReadString, Fetched
    <3> DEFINE n == Len(m_dlist)
    <3>2. Delays'
      <4>1. /\ n \in Nat /\ Len(m_dlist') = n + 1
            /\ m_dlist'[n + 1] = <<a, unit>>
            /\ \A i \in 1 .. n : m_dlist'[i] = m_dlist[i] /\ m_dlist[i] \in Strings \X Nat
            /\ m_dlist' \in Seq(Strings \X Nat)
        BY <2>3, <3>1 DEF SInv, Delays
      <4>2. \A i \in 1 .. n : given[m_dlist[i][1]] = "index" /\ m_dlist[i][1] # a
        BY <2>3 DEF SInv, Delays
      <4>3. \A i \in 1 .. n : /\ given'[m_dlist'[i][1]] = "index"
                             /\ m_dlist'[i][2] = unit
                             /\ m_dlist'[i][1] # a
        BY <2>2, <4>1, <4>2 DEF SInv, Delays
      <4> HIDE DEF n
      <4>4. \A i \in 1 .. n + 1 : i \in 1 .. n \/ i = n + 1
        BY <4>1
      <4>5. m_dlist'[n + 1][1] = a /\ m_dlist'[n + 1][2] = unit
        BY <4>1
      <4>6. \A i, j \in 1 .. n : m_dlist'[i][1] = m_dlist'[j][1] => i = j
        BY <4>1 DEF SInv, Delays, n
      <4>7. \A i \in 1 .. n + 1 : given'[m_dlist'[i][1]] = "index" /\ m_dlist'[i][2] = unit
        BY <2>2, <2>4, <4>3, <4>4, <4>5
      <4>8. \A i, j \in 1 .. n + 1 : m_dlist'[i][1] = m_dlist'[j][1] => i = j
        BY <4>3, <4>4, <4>5, <4>6
      <4>9. QED
        BY <2>3, <2>4, <4>1, <4>7, <4>8 DEF Delays
    <3>3. \A b \in Strings : Waits(b) => Waits(b)'
      BY <2>3, <3>1 DEF SInv, Delays, Waits
    <3>4. Waits(a)'
      BY <2>3, <3>1 DEF SInv, Delays, Waits
    <3>5. StringsHere'
      BY <2>2, <2>3, <2>4, <3>1, <3>3, <3>4 DEF SInv, StringsHere, Own
    <3>6. QED
      BY <1>0, <2>3, <3>2, <3>5 DEF SInv, StringsOfUnit
  <2>5. CASE ~ (form = "index" /\ offsets_base = NoBase)
    <3>1. m_dlist' = m_dlist /\ cu' = [cu EXCEPT ![a] = Own(a)]
      BY <1>2, <2>3, <2>5 DEF ReadString, Fetched, Own
    <3>2. Delays'
      BY <2>2, <2>3, <3>1 DEF SInv, Delays
    <3>3. \A b \in Strings : Waits(b)' = Waits(b)
      BY <3>1 DEF Waits
    <3>4. StringsHere'
      BY <2>2, <2>3, <3>1, <3>3 DEF SInv, StringsHere, Own
    <3>5. QED
      BY <1>0, <2>3, <3>2, <3>4 DEF SInv, StringsOfUnit
  <2>6. QED
    BY <2>4, <2>5
\* Any other attribute than a string and DW_AT_str_offsets_base.
<1>3. ASSUME NEW a \in Attributes \ {"str_offsets_base"}, NEW f \in Forms, Has(a, f),
             a \in Others \/ f = "passed", UNCHANGED <<offsets_base, m_dlist, cu>>
      PROVE  SInv'
  <2>1. /\ given'[a] = f
        /\ given[a] = "no"
        /\ \A b \in Attributes : b # a => given'[b] = given[b]
        /\ given'["str_offsets_base"] = given["str_offsets_base"]
    BY <1>3, HasSetsOne DEF SInv, BInv, Has, Others
  <2>2. unit' = unit /\ at' = "root"
    BY <1>3 DEF Has
  <2>3. \A b \in Strings : Waits(b)' = Waits(b)
    BY <1>3 DEF Waits
  <2>4. Delays'
    BY <1>3, <2>1, <2>2 DEF SInv, Delays
  <2>5. \A b \in Strings : given'[b] \in {"direct", "index"} => given'[b] = given[b]
    BY <1>3, <2>1
  <2>6. StringsHere'
    BY <1>3, <2>1, <2>2, <2>3, <2>5 DEF SInv, StringsHere, Own
  <2>7. QED
    BY <1>0, <2>2, <2>4, <2>6 DEF SInv, StringsOfUnit
<1>4. CASE PassPackage
  BY <1>4, <1>3 DEF PassPackage, baseVars, Forms, Others
<1>5. ASSUME NEW lang \in {"go", "c"}, ReadLanguage(lang) PROVE SInv'
  BY <1>5, <1>3 DEF ReadLanguage, baseVars, Forms, Others
<1>6. ASSUME NEW validity \in {"valid", "outside"}, ReadBase(validity) PROVE SInv'
  <2>1. CASE ReadStrOffsetsBase(validity)
    <3> DEFINE base == BaseIs(validity)
    <3>1. Has("str_offsets_base", validity) /\ "str_offsets_base" \in Attributes
          /\ validity \in Forms
      BY <2>1 DEF ReadStrOffsetsBase, Others, Forms
    <3>2. /\ given'["str_offsets_base"] = validity
          /\ \A b \in Strings : given'[b] = given[b]
      BY <3>1, HasSetsOne DEF SInv, BInv, Others
    <3>3. unit' = unit /\ at' = "root" /\ unit # 0
          /\ given["str_offsets_base"] = "no" /\ offsets_base = NoBase
      BY <3>1 DEF Has, SInv, BInv, Shape, BasesHere, BaseIs
    <3>4. base \in {NoBase, unit} /\ offsets_base' = base /\ ApplyDlist(base)
      BY <2>1 DEF ReadStrOffsetsBase, BaseIs
    <3> HIDE DEF base
    <3>5. /\ m_dlist' = <<>>
          /\ cu' = [a \in Strings |-> cu'[a]]
          /\ \A a \in Strings : ~ Waits(a) => cu'[a] = cu[a]
          /\ \A a \in Strings : Waits(a) => cu'[a] = Fetched(base, a, unit)
      BY <3>4, Applied DEF SInv
    <3>6. Delays'
      BY <3>5 DEF Delays
    <3>7. ASSUME NEW a \in Strings, given'[a] = "direct" PROVE cu'[a] = Own(a)'
      <4>1. ~ Waits(a)
        BY <3>2, <3>7 DEF Waits, SInv, Delays
      <4>2. QED
        BY <3>2, <3>3, <3>5, <3>7, <4>1 DEF SInv, StringsHere, Own
    <3>8. ASSUME NEW a \in Strings, given'[a] = "index"
          PROVE  cu'[a] = Own(a)' \/ base = NoBase
      BY <3>2, <3>3, <3>4, <3>5, <3>8 DEF SInv, StringsHere, Own, Fetched
    <3>9. StringsHere'
      BY <3>2, <3>4, <3>5, <3>7, <3>8 DEF StringsHere
    <3>10. QED
      BY <1>0, <3>3, <3>6, <3>9 DEF SInv, StringsOfUnit
  <2>2. CASE ~ ReadStrOffsetsBase(validity)
    BY <1>6, <2>2, <1>3 DEF ReadBase, ReadAddrBase, ReadLoclistsBase, ReadRnglistsBase,
                            Forms, Others
  <2>3. QED
    BY <2>1, <2>2
<1>7. ASSUME NEW form \in {"direct", "index", "short index"}, ReadLowPc(form)
      PROVE  SInv'
  BY <1>7, <1>3 DEF ReadLowPc, baseVars, Forms, Others
<1>8. CASE EndOfRoot
  <2>1. /\ UNCHANGED <<unit, given, offsets_base, m_dlist, cu>>
        /\ Indexed = {} \/ given["str_offsets_base"] = "valid"
        /\ at = "root"
    BY <1>8 DEF EndOfRoot, baseVars
  <2>2. given["str_offsets_base"] = "valid" => offsets_base # NoBase
    BY <2>1 DEF SInv, BInv, Shape, BasesHere, BaseIs, NoBase
  <2>3. m_dlist = <<>>
    <3>1. CASE Indexed = {}
      <4>1. Len(m_dlist) \in Nat /\ \A i \in 1 .. Len(m_dlist) : FALSE
        BY <3>1 DEF SInv, Delays, Indexed
      <4>2. QED
        BY <4>1 DEF SInv, Delays
    <3>2. QED
      BY <2>1, <2>2, <3>1 DEF SInv, Delays
  <2>4. Delays'
    BY <2>1, <2>3 DEF SInv, Delays
  <2>5. StringsHere'
    BY <2>1 DEF SInv, StringsHere, Own, Waits
  <2>6. StringsOfUnit'
    BY <2>1, <2>2 DEF SInv, StringsHere, StringsOfUnit, Indexed, Own
  <2>7. QED
    BY <1>0, <2>4, <2>5, <2>6 DEF SInv
<1>9. ASSUME NEW which \in {"str_offsets", "addr", "loclists", "rnglists"},
             LookUp(which)
      PROVE  SInv'
  BY <1>0, <1>9 DEF LookUp, baseVars, SInv, Delays, StringsHere, StringsOfUnit, Own, Waits
<1>10. CASE UNCHANGED vars
  BY <1>0, <1>10 DEF vars, baseVars, SInv, Delays, StringsHere, StringsOfUnit, Own, Waits
<1>11. QED
  BY <1>1, <1>2, <1>4, <1>5, <1>6, <1>7, <1>8, <1>9, <1>10 DEF Next, SInv

\* Where units have a base for the indices they use, every string of every unit's
\* root is the one it names, whichever came first, the index or the base.
THEOREM StringsCorrect ==
  ASSUME Split = FALSE
  PROVE  Spec => []StringsOfUnit
<1>1. SInv => StringsOfUnit
  BY DEF SInv
<1>2. Init => SInv
  BY SInvInit
<1>3. SInv /\ [Next]_vars => SInv'
  BY SInvNext
<1>4. QED
  BY <1>1, <1>2, <1>3, PTL DEF Spec

-----------------------------------------------------------------------------
(***************************************************************************)
(* The line tables.  A step of LineTables is one of UnitRoot, so what is   *)
(* shown above of the bases holds beside them.                             *)
(***************************************************************************)
\* Until a unit has no table: what waits and what is there is of the unit whose
\* root was read last, and nothing is left when the section is given up.
OwnTable ==
  ~missing =>
    /\ m_ptr \in {NoTable, unit} /\ m_dl_files \in {NoTable, unit}
    /\ ~debug_line => m_ptr = NoTable /\ m_dl_files = NoTable

\* The names of a table of version 5 are there only behind a valid base.
BehindBase ==
  table = "version 5" /\ m_dl_files # NoTable => given["str_offsets_base"] = "valid"

LInv == BInv /\ OwnTable /\ BehindBase

LEMMA LInvInit == LineInit => LInv
<1> SUFFICES ASSUME LineInit PROVE LInv
  OBVIOUS
<1>1. BInv
  BY BInvInit DEF LineInit
<1>2. OwnTable /\ BehindBase
  BY DEF LineInit, OwnTable, BehindBase
<1>3. QED
  BY <1>1, <1>2 DEF LInv

\* What the lines add to a step of the roots takes nothing from it.
LEMMA StepOfRoots == [LineNext]_lineTableVars => [Next]_vars
BY DEF LineNext, lineTableVars, Next, ReadBase

LEMMA LInvNext == LInv /\ [LineNext]_lineTableVars => LInv'
<1> SUFFICES ASSUME LInv, [LineNext]_lineTableVars PROVE LInv'
  OBVIOUS
<1> USE DEF LInv
<1>1. BInv'
  BY StepOfRoots, BInvNext
<1>2. ASSUME NEW hasTable \in BOOLEAN, StartUnit, ReadDebugLines(hasTable)
      PROVE  OwnTable' /\ BehindBase'
  <2>1. CASE ~debug_line
    <3>1. table' = "no" /\ UNCHANGED <<debug_line, m_ptr, m_dl_files>>
      BY <1>2, <2>1 DEF ReadDebugLines
    <3>2. ~missing' => ~missing
      BY <1>2 DEF ReadDebugLines
    <3>3. QED
      BY <2>1, <3>1, <3>2 DEF OwnTable, BehindBase
  <2>2. ASSUME NEW format \in Formats,
               ReadTable(IF missing' THEN Later ELSE unit', format)
        PROVE  OwnTable' /\ BehindBase'
    BY <2>2 DEF ReadTable, OwnTable, BehindBase, Formats
  <2>3. CASE missing' /\ BehindLastTable
    BY <2>3 DEF BehindLastTable, OwnTable, BehindBase
  <2>4. QED
    BY <1>2, <2>1, <2>2, <2>3 DEF ReadDebugLines
<1>3. ASSUME NEW validity \in {"valid", "outside"},
             ReadStrOffsetsBase(validity), ReadDelayedLines
      PROVE  OwnTable' /\ BehindBase'
  <2>1. /\ Has("str_offsets_base", validity)
        /\ offsets_base' = BaseIs(validity)
    BY <1>3 DEF ReadStrOffsetsBase
  <2>2. unit' = unit /\ given["str_offsets_base"] = "no"
    BY <2>1 DEF Has
  <2>3. given'["str_offsets_base"] = validity
    BY <2>1, BaseAttributes, HasSetsOne DEF BInv, Forms, Others
  <2>4. UNCHANGED <<missing, debug_line, table>>
    BY <1>3 DEF ReadDelayedLines
  <2>5. CASE debug_line /\ offsets_base' # NoBase /\ m_ptr # NoTable
    <3>1. validity = "valid"
      BY <2>1, <2>5 DEF BaseIs
    <3>2. {m_ptr', m_dl_files'} \subseteq {m_ptr, NoTable}
      BY <1>3, <2>5 DEF ReadDelayedLines
    <3>3. QED
      BY <2>2, <2>3, <2>4, <2>5, <3>1, <3>2 DEF OwnTable, BehindBase
  <2>6. CASE ~(debug_line /\ offsets_base' # NoBase /\ m_ptr # NoTable)
    <3>1. UNCHANGED <<m_ptr, m_dl_files>>
      BY <1>3, <2>6 DEF ReadDelayedLines
    <3>2. QED
      BY <2>2, <2>4, <3>1 DEF OwnTable, BehindBase
  <2>7. QED
    BY <2>5, <2>6
<1>4. ASSUME Next, unit' = unit, UNCHANGED lineVars,
             given'["str_offsets_base"] = given["str_offsets_base"]
      PROVE  OwnTable' /\ BehindBase'
  BY <1>4 DEF lineVars, OwnTable, BehindBase
<1>5. ASSUME UNCHANGED lineTableVars
      PROVE  OwnTable' /\ BehindBase'
  BY <1>5 DEF lineTableVars, lineVars, vars, OwnTable, BehindBase
<1>6. QED
  BY <1>1, <1>2, <1>3, <1>4, <1>5 DEF LineNext

\* As long as every unit has had a table, file names are those of the unit's own
\* table (read_debug_lines, read_delayed_lines, get_filename).
THEOREM FilesCorrect == LineSpec => []FilesOfUnit
<1>1. LInv => FilesOfUnit
  BY DEF LInv, OwnTable, FilesOfUnit
<1>2. QED
  BY <1>1, LInvInit, LInvNext, PTL DEF LineSpec

\* The names of a table of version 5 go through the unit's own string offsets
\* (read_delayed_lines behind DW_AT_str_offsets_base).
THEOREM NamesCorrect == LineSpec => []NamesThroughBase
<1>1. LInv => NamesThroughBase
  BY DEF LInv, BInv, BasesHere, BaseIs, BehindBase, NamesThroughBase
<1>2. QED
  BY <1>1, LInvInit, LInvNext, PTL DEF LineSpec

\* With line tables beside them, the roots keep what UnitRoot_proof shows.
THEOREM LookupsBesideLines == LineSpec => []LookupsOfUnit
<1>1. LInv => LookupsOfUnit
  BY DEF LInv, BInv
<1>2. QED
  BY <1>1, LInvInit, LInvNext, PTL DEF LineSpec

-----------------------------------------------------------------------------
(***************************************************************************)
(* Types.  An address waits for its base only when its index is there.     *)
(***************************************************************************)
UnitType ==
  /\ unit \in 0 .. MaxUnits /\ at \in {"root", "children"}
  /\ given \in [Attributes -> Forms \cup {"no"}]
  /\ at = "root" => unit # 0

BasesType ==
  /\ offsets_base \in Bases /\ addr_base \in Bases
  /\ loclist_base \in Bases /\ rnglists_base \in Bases

StringsType == m_dlist \in Seq(Strings \X Units) /\ cu \in [Strings -> Values(Strings)]

AddrType ==
  /\ cu_base_addr \in Values({"low_pc"}) /\ cu_base_addr_idx \in 0 .. MaxUnits
  /\ need_base_addr_idx \in BOOLEAN
  /\ need_base_addr_idx => cu_base_addr_idx # 0

TypeInv == UnitType /\ BasesType /\ StringsType /\ AddrType

LEMMA TypeInvTypes == TypeInv => RootTypeOK
BY DEF TypeInv, UnitType, BasesType, StringsType, AddrType, RootTypeOK

LEMMA UnitsInRange == \A u \in Units : u # 0 /\ u \in 0 .. MaxUnits
BY MaxUnitsAssumption DEF Units

LEMMA NullValue == \A S : Null \in Values(S)
BY DEF Values

LEMMA FetchedValue ==
  ASSUME NEW base \in Bases, NEW S, NEW a \in S, NEW u \in Units
  PROVE  Fetched(base, a, u) \in Values(S)
BY DEF Fetched, Values

\* The last entry of an attribute on the list is there: a set of positions has a largest.
LEMMA LastPosition ==
  ASSUME NEW n \in Nat, NEW T \in SUBSET (1 .. n), T # {}
  PROVE  \E i \in T : \A j \in T : j <= i
<1>1. PICK R : IsWellFoundedOn(R, Nat) /\ R = {p \in Nat \X Nat : p[1] < p[2]}
  <2>1. OpToRel(<, Nat) = {p \in Nat \X Nat : p[1] < p[2]}
    BY DEF OpToRel
  <2>2. QED
    BY <2>1, NatLessThanWellFounded
<1> DEFINE Above == {n - i : i \in T}
<1>2. Above \subseteq Nat /\ Above # {}
  <2>1. \A i \in T : n - i \in Nat
    OBVIOUS
  <2>2. QED
    BY <2>1
<1>3. PICK x \in Above : \A y \in Above : ~(<<y, x>> \in R)
  BY <1>1, <1>2, WFMin
<1>4. PICK i \in T : x = n - i
  BY <1>3
<1>5. ASSUME NEW j \in T PROVE j <= i
  <2>1. n - j \in Above /\ n - j \in Nat /\ x \in Nat /\ i \in Nat /\ j \in Nat
    BY <1>2, <1>3
  <2>2. ~(<<n - j, x>> \in R)
    BY <1>3, <2>1
  <2>3. ~(n - j < x)
    BY <1>1, <2>1, <2>2
  <2>4. QED
    BY <1>4, <2>1, <2>3
<1>6. QED
  BY <1>5

LEMMA AppliedType ==
  ASSUME RootTypeOK, NEW base \in Bases, ApplyDlist(base)
  PROVE  m_dlist' = <<>> /\ cu' \in [Strings -> Values(Strings)]
<1> DEFINE D(a) == {i \in DOMAIN m_dlist : m_dlist[i][1] = a}
           L(a) == CHOOSE i \in D(a) : \A j \in D(a) : j <= i
<1>1. /\ DOMAIN m_dlist = 1 .. Len(m_dlist) /\ Len(m_dlist) \in Nat
      /\ \A i \in DOMAIN m_dlist : m_dlist[i] \in Strings \X Units
      /\ cu \in [Strings -> Values(Strings)]
  BY DEF RootTypeOK
<1>2. /\ m_dlist' = <<>>
      /\ cu' = [a \in Strings |-> IF D(a) = {} THEN cu[a]
                                 ELSE Fetched(base, a, m_dlist[L(a)][2])]
  BY DEF ApplyDlist
<1>3. ASSUME NEW a \in Strings, D(a) # {} PROVE m_dlist[L(a)][2] \in Units
  <2>1. PICK n \in Nat : n = Len(m_dlist)
    BY <1>1
  <2>2. D(a) \in SUBSET (1 .. n)
    BY <1>1, <2>1
  <2>3. \E i \in D(a) : \A j \in D(a) : j <= i
    <3> HIDE DEF D
    <3>1. QED
      BY <1>3, <2>2, LastPosition
  <2>4. L(a) \in D(a)
    <3> HIDE DEF D
    <3>1. QED
      BY <2>3
  <2>5. QED
    BY <1>1, <2>4
<1>4. ASSUME NEW a \in Strings, D(a) # {}
      PROVE  Fetched(base, a, m_dlist[L(a)][2]) \in Values(Strings)
  <2> HIDE DEF D, L
  <2>1. QED
    BY <1>3, <1>4, FetchedValue
<1> HIDE DEF D, L
<1>5. QED
  BY <1>1, <1>2, <1>4

LEMMA TypeInvInit == Init => TypeInv
<1> SUFFICES ASSUME Init PROVE TypeInv
  OBVIOUS
<1>1. UnitType /\ BasesType
  BY MaxUnitsAssumption DEF Init, UnitType, BasesType, Bases, NoBase
<1>2. StringsType /\ AddrType
  <2>1. /\ m_dlist \in Seq(Strings \X Units)
        /\ cu \in [Strings -> Values(Strings)]
        /\ cu_base_addr \in Values({"low_pc"})
    BY NullValue DEF Init
  <2>2. cu_base_addr_idx \in 0 .. MaxUnits /\ need_base_addr_idx = FALSE
    BY MaxUnitsAssumption DEF Init
  <2>3. QED
    BY <2>1, <2>2 DEF StringsType, AddrType
<1>3. QED
  BY <1>1, <1>2 DEF TypeInv

LEMMA HasType ==
  ASSUME UnitType, NEW a \in Attributes, NEW f \in Forms, Has(a, f)
  PROVE  UnitType' /\ unit' = unit /\ unit \in Units
<1>1. unit \in Units
  BY MaxUnitsAssumption DEF UnitType, Has, Units
<1>2. UnitType'
  BY DEF UnitType, Has
<1>3. QED
  BY <1>1, <1>2 DEF Has

LEMMA TypeInvNext == TypeInv /\ [Next]_vars => TypeInv'
<1> SUFFICES ASSUME TypeInv, [Next]_vars PROVE TypeInv'
  OBVIOUS
<1> USE BaseAttributes DEF TypeInv
<1>1. CASE StartUnit
  <2>1. UnitType'
    BY <1>1, MaxUnitsAssumption DEF StartUnit, NewRoot, UnitType
  <2>2. BasesType'
    BY <1>1 DEF StartUnit, ClearedBases, BasesType, Bases
  <2>3. StringsType' /\ AddrType'
    <3>1. /\ m_dlist' = m_dlist /\ cu' \in [Strings -> Values(Strings)]
          /\ cu_base_addr' \in Values({"low_pc"})
      BY <1>1, NullValue DEF StartUnit, ClearedUnit
    <3>2. cu_base_addr_idx' \in 0 .. MaxUnits /\ need_base_addr_idx' = FALSE
      BY <1>1, MaxUnitsAssumption DEF StartUnit, ClearedUnit
    <3>3. QED
      BY <3>1, <3>2 DEF StringsType, AddrType
  <2>4. QED
    BY <2>1, <2>2, <2>3
<1>2. ASSUME NEW a \in Strings, NEW form \in {"direct", "index"}, ReadString(a, form)
      PROVE  TypeInv'
  <2>1. UnitType' /\ unit' = unit /\ unit \in Units
    BY <1>2, HasType DEF ReadString, Forms
  <2>2. offsets_base \in Bases /\ unit \in Bases
    BY <2>1 DEF BasesType, Bases
  <2>3. PICK v \in Values(Strings) : cu' = [cu EXCEPT ![a] = v]
    <3>1. <<unit, unit, a>> \in Values(Strings)
      BY <2>1, <2>2 DEF Values
    <3>2. Fetched(offsets_base, a, unit) \in Values(Strings)
      BY <2>1, <2>2, FetchedValue
    <3>3. QED
      BY <1>2, <3>1, <3>2 DEF ReadString
  <2>4. m_dlist' \in Seq(Strings \X Units)
    BY <1>2, <2>1 DEF ReadString, StringsType
  <2>5. StringsType'
    BY <2>3, <2>4 DEF StringsType
  <2>6. BasesType' /\ AddrType'
    BY <1>2 DEF ReadString, baseVars, addrVars, BasesType, AddrType
  <2>7. QED
    BY <2>1, <2>5, <2>6
<1>3. CASE PassPackage
  <2>1. UnitType'
    BY <1>3, HasType DEF PassPackage, Forms
  <2>2. QED
    BY <1>3, <2>1 DEF PassPackage, baseVars, addrVars, BasesType, StringsType, AddrType
<1>4. ASSUME NEW lang \in {"go", "c"}, ReadLanguage(lang) PROVE TypeInv'
  <2>1. UnitType'
    BY <1>4, HasType DEF ReadLanguage, Forms, Others
  <2>2. QED
    BY <1>4, <2>1 DEF ReadLanguage, baseVars, addrVars, BasesType, StringsType, AddrType
<1>5. ASSUME NEW validity \in {"valid", "outside"}, ReadBase(validity) PROVE TypeInv'
  <2>1. UnitType' /\ unit' = unit /\ unit \in Units
    BY <1>5, HasType DEF ReadBase, ReadStrOffsetsBase, ReadAddrBase, ReadLoclistsBase,
                         ReadRnglistsBase, Forms, Others
  <2>2. BaseIs(validity) \in Bases /\ unit \in Bases
    BY <2>1 DEF BaseIs, Bases
  <2>3. CASE ReadStrOffsetsBase(validity)
    <3>1. StringsType'
      <4>1. m_dlist' = <<>> /\ cu' \in [Strings -> Values(Strings)]
        BY <2>2, <2>3, AppliedType, TypeInvTypes DEF ReadStrOffsetsBase
      <4>2. QED
        BY <4>1 DEF StringsType
    <3>2. BasesType' /\ AddrType'
      BY <2>2, <2>3 DEF ReadStrOffsetsBase, addrVars, BasesType, AddrType
    <3>3. QED
      BY <2>1, <3>1, <3>2
  <2>4. CASE ReadAddrBase(validity)
    <3>1. cu_base_addr' \in Values({"low_pc"})
      <4>1. need_base_addr_idx => cu_base_addr_idx \in Units
        BY MaxUnitsAssumption DEF AddrType, Units
      <4>2. need_base_addr_idx =>
              Fetched(unit, "low_pc", cu_base_addr_idx) \in Values({"low_pc"})
        BY <2>2, <4>1, FetchedValue
      <4>3. QED
        BY <2>4, <4>2 DEF ReadAddrBase, AddrType
    <3>2. AddrType'
      BY <2>4, <3>1 DEF ReadAddrBase, AddrType
    <3>3. BasesType' /\ StringsType'
      BY <2>2, <2>4 DEF ReadAddrBase, BasesType, StringsType
    <3>4. QED
      BY <2>1, <3>2, <3>3
  <2>5. CASE ReadLoclistsBase(validity)
    BY <2>1, <2>2, <2>5 DEF ReadLoclistsBase, addrVars, BasesType, StringsType, AddrType
  <2>6. CASE ReadRnglistsBase(validity)
    BY <2>1, <2>2, <2>6 DEF ReadRnglistsBase, addrVars, BasesType, StringsType, AddrType
  <2>7. QED
    BY <1>5, <2>3, <2>4, <2>5, <2>6 DEF ReadBase
<1>6. ASSUME NEW form \in {"direct", "index", "short index"}, ReadLowPc(form)
      PROVE  TypeInv'
  <2>1. UnitType' /\ unit' = unit /\ unit \in Units
    BY <1>6, HasType DEF ReadLowPc, Forms, Others
  <2>2. unit # 0 /\ unit \in 0 .. MaxUnits /\ unit \in Bases /\ addr_base \in Bases
    <3>1. unit # 0 /\ unit \in 0 .. MaxUnits
      BY <2>1, UnitsInRange
    <3>2. QED
      BY <2>1, <3>1 DEF Bases, BasesType
  <2>3. cu_base_addr' \in Values({"low_pc"})
    <3>1. <<unit, unit, "low_pc">> \in Values({"low_pc"})
      BY <2>1, <2>2 DEF Values
    <3>2. Fetched(addr_base, "low_pc", unit) \in Values({"low_pc"})
      BY <2>1, <2>2, FetchedValue
    <3>3. QED
      BY <1>6, <3>1, <3>2 DEF ReadLowPc, AddrType
  <2>4. AddrType'
    BY <1>6, <2>2, <2>3 DEF ReadLowPc, AddrType
  <2>5. BasesType' /\ StringsType'
    BY <1>6 DEF ReadLowPc, baseVars, BasesType, StringsType
  <2>6. QED
    BY <2>1, <2>4, <2>5
<1>7. CASE EndOfRoot
  BY <1>7 DEF EndOfRoot, baseVars, addrVars, UnitType, BasesType, StringsType, AddrType
<1>8. ASSUME NEW which \in {"str_offsets", "addr", "loclists", "rnglists"}, LookUp(which)
      PROVE  TypeInv'
  BY <1>8 DEF LookUp, baseVars, addrVars, UnitType, BasesType, StringsType, AddrType
<1>9. CASE UNCHANGED vars
  BY <1>9 DEF vars, baseVars, addrVars, UnitType, BasesType, StringsType, AddrType
<1>10. QED
  BY <1>1, <1>2, <1>3, <1>4, <1>5, <1>6, <1>7, <1>8, <1>9 DEF Next

LinesType ==
  /\ missing \in BOOLEAN /\ debug_line \in BOOLEAN
  /\ table \in Formats \cup {"no"}
  /\ {m_ptr, m_dl_files} \subseteq Units \cup {NoTable, Later}

LEMMA LinesTypeInit == LineInit => LinesType
BY DEF LineInit, LinesType

LEMMA LinesTypeNext == TypeInv /\ LinesType /\ [LineNext]_lineTableVars => LinesType'
<1> SUFFICES ASSUME TypeInv, LinesType, [LineNext]_lineTableVars PROVE LinesType'
  OBVIOUS
<1>1. ASSUME NEW hasTable \in BOOLEAN, StartUnit, ReadDebugLines(hasTable)
      PROVE  LinesType'
  <2>1. unit' \in Units
    BY <1>1, MaxUnitsAssumption DEF StartUnit, NewRoot, TypeInv, UnitType, Units
  <2>2. missing' \in BOOLEAN
    BY <1>1 DEF ReadDebugLines, LinesType
  <2>3. CASE ~debug_line
    BY <1>1, <2>2, <2>3 DEF ReadDebugLines, LinesType
  <2>4. ASSUME NEW format \in Formats, NEW owner \in Units \cup {Later}, ReadTable(owner, format)
        PROVE  LinesType'
    BY <2>2, <2>4 DEF ReadTable, LinesType
  <2>5. CASE BehindLastTable
    BY <2>2, <2>5 DEF BehindLastTable, LinesType
  <2>6. QED
    BY <1>1, <2>1, <2>3, <2>4, <2>5 DEF ReadDebugLines
<1>2. ASSUME ReadDelayedLines PROVE LinesType'
  BY <1>2 DEF ReadDelayedLines, LinesType
<1>3. ASSUME UNCHANGED lineVars PROVE LinesType'
  BY <1>3 DEF lineVars, LinesType
<1>4. QED
  BY <1>1, <1>2, <1>3 DEF LineNext, lineTableVars

\* The roots and the line tables have their types, for any number of units: what is
\* waited for is there, and names are those of some unit's table or of none.
THEOREM LinesTypeCorrect == LineSpec => []LinesTypeOK
<1>1. LineInit => TypeInv
  BY TypeInvInit DEF LineInit
<1>2. TypeInv /\ [LineNext]_lineTableVars => TypeInv'
  BY StepOfRoots, TypeInvNext
<1>3. TypeInv /\ LinesType => LinesTypeOK
  BY TypeInvTypes DEF LinesType, LinesTypeOK
<1>4. QED
  BY <1>1, <1>2, <1>3, LinesTypeInit, LinesTypeNext, PTL DEF LineSpec
=============================================================================
