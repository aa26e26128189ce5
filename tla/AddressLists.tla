---------------------------- MODULE AddressLists ----------------------------
(***************************************************************************)
(* The lists of addresses a DIE refers to: ranges of a function in         *)
(* .debug_ranges or .debug_rnglists, locations of a variable in .debug_loc *)
(* or .debug_loclists (ElfFile::get_rnglistx, get_loclistx).  A list is    *)
(* read entry by entry; an entry gives two addresses, as they are, as      *)
(* offsets from a base, or as indices into .debug_addr, or sets the base   *)
(* of those that follow.  What is read is compared with what DWARF says a  *)
(* list means.                                                             *)
(*                                                                         *)
(* The bytes of a list are abstracted to its entries, and of the value at  *)
(* a location only whether it fits its section is kept.                    *)
(***************************************************************************)
EXTENDS Integers, Sequences, FiniteSets

CONSTANTS Offsets,     \* offsets and lengths in entries
          Indices,     \* indices into .debug_addr
          UnitBases,   \* addresses a unit may begin at
          MaxEntries   \* bound: entries of a list

ASSUME OffsetsAssumption == Offsets \subseteq Nat /\ Indices \subseteq Nat
ASSUME UnitBasesAssumption == 0 \in UnitBases /\ UnitBases \subseteq Nat
ASSUME MaxEntriesAssumption == MaxEntries \in Nat

Sections == {"ranges", "rnglists", "loc", "loclists"}
Locations == {"loc", "loclists"}

\* .debug_addr: the address at an index of a contribution.  The contributions
\* of two units, of which the first begins behind the section's header.
First == 1
Contributions == {First, 2}
NoBase == 0
Address(contribution, i) == 100 * contribution + i

Pairs(kind, xs, ys) == [kind : {kind}, x : xs, y : ys]
Bare(kind) == Pairs(kind, {0}, {0})

\* DW_RLE_* and DW_LLE_*; an "unknown" tag is one the code has no case for.
IndexedEntries ==
  Pairs("base_addressx", Indices, {0}) \cup Pairs("startx_endx", Indices, Indices)
    \cup Pairs("startx_length", Indices, Offsets)
NewEntries ==
  IndexedEntries \cup Pairs("base_address", Offsets, {0}) \cup Pairs("offset_pair", Offsets, Offsets)
    \cup Pairs("start_end", Offsets, Offsets) \cup Pairs("start_length", Offsets, Offsets)
    \cup Bare("end_of_list") \cup Bare("unknown")

\* Before DWARF 5: two offsets, a base (behind the greatest address), two zeros,
\* or too few bytes for two addresses.
OldEntries ==
  {e \in Pairs("offset_pair", Offsets, Offsets) : e.x # 0 \/ e.y # 0}
    \cup Pairs("base_address", Offsets, {0}) \cup Bare("end_of_list") \cup Bare("cut")

Entries(section) ==
  CASE section = "rnglists" -> NewEntries
    [] section = "loclists" -> NewEntries \cup Bare("default_location")
    [] OTHER -> OldEntries

VARIABLES
  section,    \* the section the list is in
  entries,    \* its entries from the list's offset on
  fits,       \* which of them have a location that fits the section
  unitBase,   \* the address of the unit that refers to it
  addr_base,  \* the unit's contribution to .debug_addr, or NoBase
  next,       \* the entry to be read
  base,       \* base_address or base_addr
  res,        \* the list's addresses, and whether each has its location
  returned    \* "no", or what the function returned

inputVars == <<section, entries, fits, unitBase, addr_base>>
listVars == <<inputVars, next, base, res, returned>>

\* get_rnglistx is given no base, get_loc none it uses.
FirstBase(s) == CASE s \in {"rnglists", "loc"} -> 0
                  [] OTHER -> unitBase

ListInit ==
  /\ section \in Sections
  /\ entries \in UNION {[1 .. k -> Entries(section)] : k \in 0 .. MaxEntries}
  /\ fits \in IF section \in Locations THEN {DOMAIN entries, DOMAIN entries \ {Len(entries)}}
                                       ELSE {DOMAIN entries}
  /\ unitBase \in UnitBases
  /\ addr_base \in IF \E k \in DOMAIN entries : entries[k] \in IndexedEntries
                     THEN Contributions \cup {NoBase} ELSE {NoBase}
  /\ next = 1
  /\ base = FirstBase(section)
  /\ res = <<>>
  /\ returned = "no"

-----------------------------------------------------------------------------
Reading(s) == section \in s /\ returned = "no" /\ next <= Len(entries)
Entry == entries[next]
Here(kind) == Entry.kind = kind

Return(value) == returned' = (IF value THEN "true" ELSE "false")
Goon == next' = next + 1 /\ UNCHANGED returned
NotEmpty(r) == r # <<>>

\* fetch_indexed_addr behind the header, and get_indexed_addr behind the base.
FetchIndexedAddr(i) == Address(First, i)
GetIndexedAddr(i) == IF addr_base = NoBase THEN 0 ELSE Address(addr_base, i)
Indexed(i) == IF section = "rnglists" THEN FetchIndexedAddr(i) ELSE GetIndexedAddr(i)

\* The last entry was not the end of the list, but the section's.
EndOfSection ==
  /\ returned = "no" /\ next > Len(entries)
  /\ Return(section # "rnglists" /\ NotEmpty(res))
  /\ UNCHANGED <<inputVars, next, base, res>>

EndOfList ==
  /\ Reading(Sections) /\ Here("end_of_list")
  /\ Return(NotEmpty(res))
  /\ UNCHANGED <<inputVars, next, base, res>>

UnknownTag ==
  /\ Reading(Sections) /\ Here("unknown")
  /\ Return(FALSE)
  /\ UNCHANGED <<inputVars, next, base, res>>

\* Too few bytes: get_old_range gives up, get_loc returns what it has.
Cut ==
  /\ Reading(Sections) /\ Here("cut")
  /\ Return(section = "loc" /\ NotEmpty(res))
  /\ UNCHANGED <<inputVars, next, base, res>>

\* A base in the newer sections; the older ones take it for two offsets.
SetBase ==
  /\ Reading({"rnglists", "loclists"})
  /\ Here("base_address") \/ Here("base_addressx")
  /\ base' = IF Here("base_address") THEN Entry.x ELSE Indexed(Entry.x)
  /\ Goon
  /\ UNCHANGED <<inputVars, res>>

\* Mutated form of PairOf: the length is added to the base.
PairOfBased(e) ==
  CASE e.kind = "startx_endx"   -> <<Indexed(e.x), Indexed(e.y)>>
    [] e.kind = "startx_length" -> <<Indexed(e.x), base + e.y>>
    [] e.kind = "start_end"     -> <<e.x, e.y>>
    [] e.kind = "start_length"  -> <<e.x, base + e.y>>
    [] e.kind = "default_location" -> <<0, 0>>
    [] e.kind = "offset_pair"   -> <<base + e.x, base + e.y>>

\* The two addresses of an entry, as the switch computes them.
PairOf(e) ==
  CASE e.kind = "startx_endx"   -> <<Indexed(e.x), Indexed(e.y)>>
    [] e.kind = "startx_length" -> <<Indexed(e.x), Indexed(e.x) + e.y>>
    [] e.kind = "start_end"     -> <<e.x, e.y>>
    [] e.kind = "start_length"  -> <<e.x, e.x + e.y>>
    [] e.kind = "default_location" -> <<0, 0>>
    [] e.kind = "offset_pair"   -> <<base + e.x, base + e.y>>

Gives(kinds) == Entry.kind \in kinds
Addressing == {"startx_endx", "startx_length", "start_end", "start_length",
               "default_location", "offset_pair"}

\* A range; get_old_range passes over one that is empty.
ReadRange ==
  /\ Reading({"ranges", "rnglists"}) /\ Gives(Addressing)
  /\ res' = IF section = "ranges" /\ Entry.x = Entry.y THEN res ELSE Append(res, PairOf(Entry))
  /\ Goon
  /\ UNCHANGED <<inputVars, base>>

\* Mutated form of ReadLocation: a location that does not fit is listed, too.
ReadLocationListed ==
  /\ Reading(Locations) /\ Gives(Addressing)
  /\ res' = Append(res, PairOf(Entry))
  /\ IF next \in fits THEN Goon ELSE Return(NotEmpty(res')) /\ UNCHANGED next
  /\ UNCHANGED <<inputVars, base>>

\* A location.  One that does not fit ends the list: get_loc leaves it out,
\* get_loclistx has its addresses in the list already.
ReadLocation ==
  /\ Reading(Locations) /\ Gives(Addressing)
  /\ res' = IF section = "loc" /\ next \notin fits THEN res ELSE Append(res, PairOf(Entry))
  /\ IF next \in fits THEN Goon ELSE Return(NotEmpty(res')) /\ UNCHANGED next
  /\ UNCHANGED <<inputVars, base>>

\* The older sections have no case for a base: the greatest address and the new
\* base are a range or a location like another.
ReadBaseAsPair ==
  /\ Reading({"ranges", "loc"}) /\ Here("base_address")
  /\ res' = Append(res, <<base - 1, base + Entry.x>>)
  /\ Goon
  /\ UNCHANGED <<inputVars, base>>

ListNext ==
  \/ EndOfSection
  \/ EndOfList
  \/ UnknownTag
  \/ Cut
  \/ SetBase
  \/ ReadRange
  \/ ReadLocation
  \/ ReadBaseAsPair

ListSpec == ListInit /\ [][ListNext]_listVars

-----------------------------------------------------------------------------
(***************************************************************************)
(* The meaning of a list (DWARF 5, 2.6.2 and 2.17.3): offsets are from the *)
(* last base before them, or from the unit's address.                      *)
(***************************************************************************)
IsBase(e) == e.kind \in {"base_address", "base_addressx"}
Meant(i) == Address(addr_base, i)

LastOf(bases) == CHOOSE j \in bases : \A i \in bases : i <= j
BaseBefore(k) ==
  LET bases == {j \in 1 .. k - 1 : IsBase(entries[j])}
      last == entries[LastOf(bases)]
  IN IF bases = {} THEN unitBase
     ELSE IF last.kind = "base_address" THEN last.x ELSE Meant(last.x)

Meaning(k) ==
  LET e == entries[k]
  IN CASE e.kind = "offset_pair"   -> <<BaseBefore(k) + e.x, BaseBefore(k) + e.y>>
       [] e.kind = "startx_endx"   -> <<Meant(e.x), Meant(e.y)>>
       [] e.kind = "startx_length" -> <<Meant(e.x), Meant(e.x) + e.y>>
       [] e.kind = "start_end"     -> <<e.x, e.y>>
       [] e.kind = "start_length"  -> <<e.x, e.x + e.y>>
       [] e.kind = "default_location" -> <<0, 0>>

IsEmptyRange(p) == p[1] = p[2]

\* The entries read so far, and the one that ended the list.
Read == IF returned # "no" /\ next <= Len(entries) /\ entries[next].kind \in Addressing
          THEN 1 .. next ELSE 1 .. next - 1

\* Those that are listed: .debug_ranges leaves empty ranges out, .debug_loc a
\* location that does not fit.
Listed ==
  {k \in Read : /\ entries[k].kind \in Addressing
                /\ section = "ranges" => ~IsEmptyRange(Meaning(k))
                /\ section = "loc" => k \in fits}

\* The result is what these entries mean, one after the other.
InOrder(S) ==
  /\ Len(res) = Cardinality(S)
  /\ \A k \in S : res[Cardinality({j \in S : j <= k})] = Meaning(k)

\* No offset is from the unit's address, or the unit begins at zero.
OffsetsAreBased ==
  unitBase = 0 \/ \A k \in DOMAIN entries : entries[k].kind = "offset_pair" =>
                    \E j \in 1 .. k - 1 : IsBase(entries[j])
HasIndices == \E k \in DOMAIN entries : entries[k] \in IndexedEntries
NoBaseEntry == \A k \in DOMAIN entries : ~IsBase(entries[k])

\* The ranges read so far are those the list gives, empty ones of .debug_ranges
\* left out.  In .debug_rnglists that takes offsets from a base of the list,
\* because the unit's address is not passed on, and indices of the first unit,
\* because DW_AT_addr_base is not looked at; in .debug_ranges, no base.
RangesMeant ==
  \/ section = "ranges" /\ NoBaseEntry
  \/ section = "rnglists" /\ OffsetsAreBased /\ (HasIndices => addr_base = First)
  => InOrder(Listed)

\* The locations read so far are at the addresses the list gives; one that
\* does not fit its section is the last, in .debug_loc the one before it is.  In
\* .debug_loc that takes a unit that begins at zero, and no base in the list.
LocationsMeant ==
  \/ section = "loclists" /\ (HasIndices => addr_base # NoBase)
  \/ section = "loc" /\ unitBase = 0 /\ NoBaseEntry
  => InOrder(Listed)

\* Both kinds of list are read entry by entry as they are meant, as far as the
\* reader has what it takes.
ListsMeant == RangesMeant /\ LocationsMeant
=============================================================================
