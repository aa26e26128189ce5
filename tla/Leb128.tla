------------------------------- MODULE Leb128 -------------------------------
(***************************************************************************)
(* Numbers of variable length: ElfFile::ULEB128 and ElfFile::SLEB128 read  *)
(* a number in groups of bits, lowest first, until a byte without its high *)
(* bit or the end of the data.  "byte << shift" is computed in int and     *)
(* then or-ed into the uint64_t result: a group that reaches the sign bit  *)
(* of int fills the bits above it with ones, and a shift by the width of   *)
(* int or more is undefined.                                               *)
(*                                                                         *)
(* A number is the set of its bits that are one.  The widths are constants:*)
(* 7, 32 and 64 in the code.                                               *)
(***************************************************************************)
EXTENDS Integers, Sequences

CONSTANTS GroupBits,   \* bits of a byte without its high bit
          IntBits,     \* of int
          ResultBits,  \* of uint64_t
          MaxBytes     \* bound: bytes of the data

ASSUME WidthAssumption ==
  /\ GroupBits \in Nat \ {0} /\ IntBits \in Nat \ {0} /\ ResultBits \in Nat
  /\ IntBits + GroupBits <= ResultBits
ASSUME MaxBytesAssumption == MaxBytes \in Nat

Bytes == [group : SUBSET (0 .. GroupBits - 1), more : BOOLEAN]

VARIABLES
  signed,    \* SLEB128 reads, not ULEB128
  data,      \* the bytes available
  read,      \* how many of them are behind data
  result,    \* the uint64_t
  shift,
  stopped    \* the loop has ended

lebVars == <<signed, data, read, result, shift, stopped>>

LebInit ==
  /\ signed \in BOOLEAN
  /\ data \in UNION {[1 .. n -> Bytes] : n \in 0 .. MaxBytes}
  /\ read = 0
  /\ result = {}
  /\ shift = 0
  /\ stopped = FALSE

\* The bits of group << by in int, and those of an int that is widened.
InInt(group, by) == {b + by : b \in group} \cap 0 .. IntBits - 1
Widened(bits) == IF IntBits - 1 \in bits THEN bits \cup IntBits .. ResultBits - 1 ELSE bits

\* Mutated form of Shifted: the group is shifted in int one bit narrower.
ShiftedNarrow(group) == {Widened(InInt(group, shift) \ {IntBits - 2})}

\* A shift too far is by the lower bits of its count, as the processor does it,
\* or gives nothing.
Shifted(group) ==
  IF shift < IntBits THEN {Widened(InInt(group, shift))}
  ELSE {Widened(InInt(group, shift % IntBits)), {}}

\* One turn of either loop; ULEB128 returns before it counts the last group.
ReadByte ==
  /\ ~stopped /\ read < Len(data)
  /\ LET byte == data[read + 1] IN
       /\ \E bits \in Shifted(byte.group) : result' = result \cup bits
       /\ stopped' = ~byte.more
       /\ shift' = IF byte.more \/ signed THEN shift + GroupBits ELSE shift
  /\ read' = read + 1
  /\ UNCHANGED <<signed, data>>

\* The data end before the number does.
EndOfData ==
  /\ ~stopped /\ read = Len(data)
  /\ stopped' = TRUE
  /\ UNCHANGED <<signed, data, read, result, shift>>

LebNext == ReadByte \/ EndOfData
LebSpec == LebInit /\ [][LebNext]_lebVars

\* The top bit of the last byte read, which is a number's sign.
SignBit(n) == n > 0 /\ GroupBits - 1 \in data[n].group

\* Mutated form of Returned: the sign is extended from where the last group began.
ReturnedEarly ==
  IF signed /\ shift < ResultBits /\ SignBit(read)
    THEN result \cup (shift - GroupBits) .. ResultBits - 1 ELSE result

\* What is returned: SLEB128 extends the sign.
Returned ==
  IF signed /\ shift < ResultBits /\ SignBit(read)
    THEN result \cup shift .. ResultBits - 1 ELSE result

-----------------------------------------------------------------------------
(***************************************************************************)
(* The number that was written (DWARF 5, 7.6): its groups one behind the   *)
(* other, and the sign of a signed number in all bits above them.          *)
(***************************************************************************)
\* The number ends with its first byte without the high bit.
EndsAt(n) == n \in DOMAIN data /\ ~data[n].more /\ \A j \in 1 .. n - 1 : data[j].more
Length == IF \E n \in DOMAIN data : EndsAt(n) THEN CHOOSE n \in DOMAIN data : EndsAt(n)
                                              ELSE Len(data)

Offset(k) == GroupBits * (k - 1)
GroupAt(k) == {b + Offset(k) : b \in data[k].group}
Written ==
  (UNION {GroupAt(k) : k \in 1 .. Length})
    \cup (IF signed /\ SignBit(Length) THEN Offset(Length + 1) .. ResultBits - 1 ELSE {})

\* The number fits an int, and so do the places of its groups.
Fits ==
  /\ Offset(Length) < IntBits
  /\ \/ Written \subseteq 0 .. IntBits - 2
     \/ signed /\ IntBits - 1 .. ResultBits - 1 \subseteq Written

\* A complete number is returned as it was written if it fits an int.  Larger
\* ones, which DW_FORM_udata, addresses and lengths may have, are not.
NumberAsWritten ==
  stopped /\ (\E n \in DOMAIN data : EndsAt(n)) /\ Fits => Returned = Written

\* Whatever becomes of its value, a number is passed over as a whole, and the
\* next one is read at its beginning.
NumberPassed == stopped => read = Length

\* A number that fits is returned as it was written, and every one is passed over.
NumbersMeant == NumberAsWritten /\ NumberPassed
=============================================================================
