------------------------------ MODULE UnitRoot ------------------------------
(***************************************************************************)
(* The root DIE of a DWARF 5 compilation unit (ElfFile::LogDwarfInfo and   *)
(* the loop of GetAllClasses).  The unit says by attributes where its part *)
(* of .debug_str_offsets, .debug_addr, .debug_loclists and .debug_rnglists *)
(* begins, and gives strings and addresses as indices into them.  The      *)
(* attributes come in whatever order the compiler chose, so an index may   *)
(* be read before its base: a string is then delayed on m_dlist, the       *)
(* unit's address in cu_base_addr_idx.  All four sections are there.       *)
(*                                                                         *)
(* A unit is a number, which also stands for the offset of its tables; a   *)
(* value fetched at an index of unit u through the base b is <<b, u, a>>   *)
(* for the attribute a, so what belongs to unit u is <<u, u, a>>.          *)
(***************************************************************************)
EXTENDS Naturals, Sequences

CONSTANTS Strings,   \* the root's string attributes: name, comp_dir, ...
          Split,     \* may a unit have indices but no bases, as in a .dwo
          MaxUnits   \* bound: compilation units

ASSUME SplitAssumption == Split \in BOOLEAN
ASSUME MaxUnitsAssumption == MaxUnits \in Nat

NoBase == 0
Null == <<>>
Units == 1 .. MaxUnits
Bases == Units \cup {NoBase}

\* DW_AT_go_package_name is one of the strings, but only Go has it.
Package == "package"
Others == {"language", "low_pc", "str_offsets_base", "addr_base", "loclists_base",
           "rnglists_base"}
Attributes == Strings \cup Others

ASSUME StringsAssumption == Strings \cap Others = {}

\* How the root has an attribute: as a value or an index, passed over, as a base
\* in its section or outside of it, as one of two languages.
Forms == {"direct", "index", "short index", "passed", "valid", "outside", "go", "c"}

VARIABLES
  unit, at,      \* the unit, and whether its "root" or its "children" are read
  given,         \* history: how the root had each attribute, or "no"
  offsets_base, addr_base, loclist_base, rnglists_base,
  m_dlist,       \* delayed strings: the attribute, and the unit that had it
  cu,            \* cu_name, cu_comp_dir, cu_producer, cu_package
  cu_lang, cu_base_addr, cu_base_addr_idx, need_base_addr_idx,
  looked         \* history: the table and base of the last look-up in a child

baseVars == <<offsets_base, addr_base, loclist_base, rnglists_base>>
addrVars == <<cu_base_addr, cu_base_addr_idx, need_base_addr_idx>>
vars == <<unit, at, given, baseVars, m_dlist, cu, cu_lang, addrVars, looked>>

Init ==
  /\ unit = 0
  /\ at = "children"
  /\ given = [a \in Attributes |-> "no"]
  /\ offsets_base = NoBase /\ addr_base = NoBase
  /\ loclist_base = NoBase /\ rnglists_base = NoBase
  /\ m_dlist = <<>>
  /\ cu = [a \in Strings |-> Null]
  /\ cu_lang = "none"
  /\ cu_base_addr = Null /\ cu_base_addr_idx = 0
  /\ need_base_addr_idx = FALSE
  /\ looked = [table |-> "no", base |-> NoBase]

-----------------------------------------------------------------------------
\* What ProcessUnit clears of the unit before, and what GetAllClasses does.
ClearedUnit ==
  /\ cu' = [a \in Strings |-> Null]
  /\ cu_lang' = "none"
  /\ cu_base_addr' = Null /\ cu_base_addr_idx' = 0

\* "reset bases for new compilation unit": the loop's three assignments.
ClearedBases == offsets_base' = NoBase /\ addr_base' = NoBase /\ loclist_base' = NoBase

NewRoot ==
  /\ at = "children"
  /\ unit < MaxUnits
  /\ unit' = unit + 1
  /\ at' = "root"
  /\ given' = [a \in Attributes |-> "no"]
  /\ looked' = [table |-> "no", base |-> NoBase]

\* Mutated form of StartUnit: need_base_addr_idx outlives its unit.
StartUnitNeedy ==
  /\ NewRoot /\ ClearedUnit /\ ClearedBases
  /\ UNCHANGED <<need_base_addr_idx, rnglists_base, m_dlist>>

\* Mutated form of StartUnit: the base of the location lists is not reset.
StartUnitKeepsLists ==
  /\ NewRoot /\ ClearedUnit
  /\ offsets_base' = NoBase /\ addr_base' = NoBase
  /\ need_base_addr_idx' = FALSE
  /\ UNCHANGED <<loclist_base, rnglists_base, m_dlist>>

StartUnit ==
  /\ NewRoot /\ ClearedUnit /\ ClearedBases
  /\ need_base_addr_idx' = FALSE
  /\ UNCHANGED <<rnglists_base, m_dlist>>

-----------------------------------------------------------------------------
\* The root has the attribute a, in the form f, and has it once.
Has(a, f) ==
  /\ at = "root"
  /\ given[a] = "no"
  /\ given' = [given EXCEPT ![a] = f]
  /\ UNCHANGED <<unit, at, looked>>

\* check_strx and get_indexed_addr: through the base, if there is one.
Fetched(base, a, u) == IF base = NoBase THEN Null ELSE <<base, u, a>>

\* A string in its place, or an index that may have to wait for its base.
ReadString(a, form) ==
  /\ form \in {"direct", "index"}
  /\ Has(a, form)
  /\ a = Package => cu_lang = "go"
  /\ LET delayed == form = "index" /\ offsets_base = NoBase
     IN /\ m_dlist' = IF delayed THEN Append(m_dlist, <<a, unit>>) ELSE m_dlist
        /\ cu' = [cu EXCEPT ![a] = IF form = "direct" THEN <<unit, unit, a>>
                                   ELSE Fetched(offsets_base, a, unit)]
  /\ UNCHANGED <<baseVars, cu_lang, addrVars>>

\* A package name before the language, or of another language, is passed over.
PassPackage ==
  /\ Package \in Strings
  /\ Has(Package, "passed")
  /\ cu_lang # "go"
  /\ UNCHANGED <<baseVars, m_dlist, cu, cu_lang, addrVars>>

ReadLanguage(lang) ==
  /\ Has("language", lang)
  /\ cu_lang' = lang
  /\ UNCHANGED <<baseVars, m_dlist, cu, addrVars>>

\* The base an attribute gives; one outside of its section counts for nothing.
BaseIs(validity) == IF validity = "valid" THEN unit ELSE NoBase

\* apply_dlist: what was delayed is assigned in its order, so the last one stays.
ApplyDlist(base) ==
  LET Delayed(a) == {i \in DOMAIN m_dlist : m_dlist[i][1] = a}
      Last(a) == CHOOSE i \in Delayed(a) : \A j \in Delayed(a) : j <= i
  IN /\ cu' = [a \in Strings |-> IF Delayed(a) = {} THEN cu[a]
                                 ELSE Fetched(base, a, m_dlist[Last(a)][2])]
     /\ m_dlist' = <<>>

\* Mutated form of ReadStrOffsetsBase: what was delayed is looked up too early.
ReadStrOffsetsBaseLate(validity) ==
  /\ Has("str_offsets_base", validity)
  /\ ApplyDlist(offsets_base)
  /\ offsets_base' = BaseIs(validity)
  /\ UNCHANGED <<addr_base, loclist_base, rnglists_base, cu_lang, addrVars>>

ReadStrOffsetsBase(validity) ==
  /\ Has("str_offsets_base", validity)
  /\ offsets_base' = BaseIs(validity)
  /\ ApplyDlist(BaseIs(validity))
  /\ UNCHANGED <<addr_base, loclist_base, rnglists_base, cu_lang, addrVars>>

ReadAddrBase(validity) ==
  /\ Has("addr_base", validity)
  /\ addr_base' = BaseIs(validity)
  /\ cu_base_addr' = IF validity = "valid" /\ need_base_addr_idx
                       THEN Fetched(unit, "low_pc", cu_base_addr_idx) ELSE cu_base_addr
  /\ UNCHANGED <<offsets_base, loclist_base, rnglists_base, m_dlist, cu, cu_lang,
                 cu_base_addr_idx, need_base_addr_idx>>

ReadLoclistsBase(validity) ==
  /\ Has("loclists_base", validity)
  /\ loclist_base' = BaseIs(validity)
  /\ UNCHANGED <<offsets_base, addr_base, rnglists_base, m_dlist, cu, cu_lang, addrVars>>

ReadRnglistsBase(validity) ==
  /\ Has("rnglists_base", validity)
  /\ rnglists_base' = BaseIs(validity)
  /\ UNCHANGED <<offsets_base, addr_base, loclist_base, m_dlist, cu, cu_lang, addrVars>>

\* DW_AT_low_pc: an address, DW_FORM_addrx, or one of DW_FORM_addrx1 .. 4,
\* which do not wait for the base.
ReadLowPc(form) ==
  /\ form \in {"direct", "index", "short index"}
  /\ Has("low_pc", form)
  /\ IF form = "index" /\ addr_base = NoBase
       THEN /\ cu_base_addr_idx' = unit
            /\ need_base_addr_idx' = TRUE
            /\ UNCHANGED cu_base_addr
       ELSE /\ cu_base_addr' = IF form = "direct" THEN <<unit, unit, "low_pc">>
                               ELSE Fetched(addr_base, "low_pc", unit)
            /\ UNCHANGED <<cu_base_addr_idx, need_base_addr_idx>>
  /\ UNCHANGED <<baseVars, m_dlist, cu, cu_lang>>

-----------------------------------------------------------------------------
Indexed == {a \in Strings : given[a] = "index"}

\* Compilers that do not split give a base for the indices they use.
EndOfRoot ==
  /\ at = "root"
  /\ Split \/ Indexed = {} \/ given["str_offsets_base"] = "valid"
  /\ at' = "children"
  /\ UNCHANGED <<unit, given, baseVars, m_dlist, cu, cu_lang, addrVars, looked>>

BaseOf == [str_offsets |-> offsets_base, addr |-> addr_base,
           loclists |-> loclist_base, rnglists |-> rnglists_base]

\* A child's name, address, location list or range list is found by its index.
LookUp(table) ==
  /\ at = "children"
  /\ unit # 0
  /\ looked' = [table |-> table, base |-> BaseOf[table]]
  /\ UNCHANGED <<unit, at, given, baseVars, m_dlist, cu, cu_lang, addrVars>>

ReadBase(validity) ==
  \/ ReadStrOffsetsBase(validity)
  \/ ReadAddrBase(validity)
  \/ ReadLoclistsBase(validity)
  \/ ReadRnglistsBase(validity)

Next ==
  \/ StartUnit
  \/ \E a \in Strings, form \in {"direct", "index"} : ReadString(a, form)
  \/ PassPackage
  \/ \E lang \in {"go", "c"} : ReadLanguage(lang)
  \/ \E validity \in {"valid", "outside"} : ReadBase(validity)
  \/ \E form \in {"direct", "index", "short index"} : ReadLowPc(form)
  \/ EndOfRoot
  \/ \E table \in {"str_offsets", "addr", "loclists", "rnglists"} : LookUp(table)

Spec == Init /\ [][Next]_vars

-----------------------------------------------------------------------------
Values(as) == {Null} \cup (Bases \X Units \X as)

\* The state has its types; an address is made only of an index that is there.
RootTypeOK ==
  /\ unit \in 0 .. MaxUnits
  /\ at \in {"root", "children"}
  /\ given \in [Attributes -> Forms \cup {"no"}]
  /\ {offsets_base, addr_base, loclist_base, rnglists_base} \subseteq Bases
  /\ m_dlist \in Seq(Strings \X Units)
  /\ cu \in [Strings -> Values(Strings)]
  /\ cu_base_addr \in Values({"low_pc"})
  /\ cu_base_addr_idx \in 0 .. MaxUnits
  /\ need_base_addr_idx \in BOOLEAN

\* Whatever the order of the attributes, and whatever came in earlier units:
\* when the root has been read, each of its strings is the one it names.
StringsOfUnit ==
  at = "children" =>
    \A a \in Strings : given[a] \in {"direct", "index"} => cu[a] = <<unit, unit, a>>

\* Whatever the order of DW_AT_low_pc and DW_AT_addr_base, the unit's address is
\* its own; without a base it is unknown.
BaseAddrOfUnit ==
  at = "children" =>
    CASE given["low_pc"] = "direct" -> cu_base_addr = <<unit, unit, "low_pc">>
      [] given["low_pc"] = "index" ->
           cu_base_addr = Fetched(BaseIs(given["addr_base"]), "low_pc", unit)
      [] OTHER -> cu_base_addr \in {Null, <<unit, unit, "low_pc">>}

\* Strings, addresses and location lists of a unit are never looked up in the
\* tables of another.
LookupsOfUnit ==
  looked.table \in {"str_offsets", "addr", "loclists"} => looked.base \in {NoBase, unit}

\* "reset bases for new compilation unit" (ElfFile.cc): nor are range lists.
RangesOfUnit ==
  looked.table = "rnglists" => looked.base \in {NoBase, unit}

\* "some string in compilation unit and then later DW_AT_str_offsets_base we need
\* push delayed handlers" (ElfFile.h): a delayed string is of the unit it is for.
DelayedOfUnit ==
  at = "children" => \A a \in Strings : cu[a] \in {Null, <<unit, unit, a>>}
=============================================================================
