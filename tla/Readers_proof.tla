---------------------------- MODULE Readers_proof ----------------------------
(***************************************************************************)
(* Theorems about the readers of sections: what ULEB128 and SLEB128        *)
(* return, for all widths of a group, of int and of the result, and data   *)
(* of any length; which frames are found in a section of any length; that  *)
(* lists of any length are read entry by entry as they are meant; and what *)
(* becomes of location expressions of any number of operations.            *)
(***************************************************************************)
EXTENDS AddressLists, Frames, Leb128, LocExprs,
        FiniteSetTheorems, SequenceTheorems, WellFoundedInduction, TLAPS

-----------------------------------------------------------------------------
(***************************************************************************)
(* Leb128.                                                                 *)
(***************************************************************************)

\* What a byte adds to the result.
Part(k) == Widened(InInt(data[k].group, Offset(k)))
Parts(n) == UNION {Part(k) : k \in 1 .. n}

LebTypeOK ==
  /\ signed \in BOOLEAN /\ stopped \in BOOLEAN
  /\ data \in Seq(Bytes)
  /\ read \in 0 .. Len(data)
  /\ shift \in Nat

ReadSoFar ==
  /\ \A j \in 1 .. read - 1 : data[j].more
  /\ ~stopped => \A j \in 1 .. read : data[j].more
  /\ stopped => EndsAt(read) \/ (read = Len(data) /\ \A j \in 1 .. read : data[j].more)

\* The shift is that of the byte to be read; ULEB128 leaves it behind at the end.
ShiftOfRead == ~stopped \/ signed => shift = Offset(read + 1)

\* The result has what the bytes read add to it, as long as int had room for them.
ResultOfRead == (read > 0 => Offset(read) < IntBits) => result = Parts(read)

LebInv == LebTypeOK /\ ReadSoFar /\ ShiftOfRead /\ ResultOfRead

-----------------------------------------------------------------------------
\* Where the groups lie.
LEMMA OffsetNext ==
  ASSUME NEW n \in Nat
  PROVE  /\ Offset(n + 1) = Offset(n) + GroupBits
         /\ Offset(n) \in Int /\ Offset(n + 1) \in Nat
  BY WidthAssumption DEF Offset

LEMMA OffsetMonotone ==
  ASSUME NEW n \in Nat, NEW k \in 1 .. n
  PROVE  Offset(k) \in Nat /\ Offset(k) <= Offset(n)
<1>1. GroupBits \in Nat /\ k - 1 \in Nat /\ n - k \in Nat
  BY WidthAssumption
<1>2. GroupBits * (n - 1) = GroupBits * (k - 1) + GroupBits * (n - k)
  BY <1>1
<1>3. GroupBits * (n - k) \in Nat /\ GroupBits * (k - 1) \in Nat
  BY <1>1
<1> QED BY <1>2, <1>3 DEF Offset

\* A number has one end.
LEMMA OneEnd ==
  ASSUME data \in Seq(Bytes), NEW m, NEW n, EndsAt(m), EndsAt(n)
  PROVE  m = n
  BY DEF EndsAt

LEMMA LengthIsEnd ==
  ASSUME data \in Seq(Bytes), NEW n, EndsAt(n)
  PROVE  Length = n
<1>1. n \in DOMAIN data
  BY DEF EndsAt
<1>2. PICK m \in DOMAIN data : m = CHOOSE i \in DOMAIN data : EndsAt(i)
  BY <1>1
<1>3. EndsAt(m)
  BY <1>1, <1>2
<1> QED BY <1>1, <1>2, <1>3, OneEnd DEF Length

-----------------------------------------------------------------------------
LEMMA LebInvInit == LebInit => LebInv
<1> SUFFICES ASSUME LebInit PROVE LebInv
  OBVIOUS
<1>1. LebTypeOK
  <2>1. PICK n \in 0 .. MaxBytes : data \in [1 .. n -> Bytes]
    BY DEF LebInit
  <2>2. n \in Nat /\ data \in Seq(Bytes) /\ Len(data) = n
    BY <2>1, MaxBytesAssumption
  <2>3. signed \in BOOLEAN /\ read = 0 /\ shift = 0 /\ stopped = FALSE
    BY DEF LebInit
  <2>4. read \in 0 .. Len(data) /\ shift \in Nat
    BY <2>2, <2>3
  <2>5. stopped \in BOOLEAN
    BY <2>3, Zenon
  <2> QED BY <2>2, <2>3, <2>4, <2>5, Zenon DEF LebTypeOK
<1>2. ReadSoFar
  BY DEF LebInit, ReadSoFar
<1>3. ShiftOfRead
  BY WidthAssumption DEF LebInit, ShiftOfRead, Offset
<1>4. ResultOfRead
  BY DEF LebInit, ResultOfRead, Parts
<1> QED BY <1>1, <1>2, <1>3, <1>4 DEF LebInv

LEMMA LebInvReadByte == LebInv /\ ReadByte => LebInv'
<1> SUFFICES ASSUME LebInv, ReadByte PROVE LebInv'
  OBVIOUS
<1> USE DEF LebInv
<1>1. /\ ~stopped /\ read \in Nat /\ read < Len(data) /\ read + 1 \in 1 .. Len(data)
      /\ read' = read + 1 /\ data' = data /\ signed' = signed
      /\ data[read + 1] \in Bytes
  BY DEF ReadByte, LebTypeOK
<1>2. stopped' <=> ~data[read + 1].more
  BY DEF ReadByte
<1>3. stopped' \in BOOLEAN
  BY DEF ReadByte
<1>4. shift = Offset(read + 1) /\ Offset(read + 1) \in Nat
  BY <1>1, OffsetNext DEF ShiftOfRead
<1>5. LebTypeOK'
  <2>1. shift' \in Nat
    BY WidthAssumption DEF ReadByte, LebTypeOK
  <2> QED BY <1>1, <1>3, <2>1 DEF LebTypeOK
<1>6. ReadSoFar'
  <2>1. \A j \in 1 .. read : data[j].more
    BY <1>1 DEF ReadSoFar
  <2>2. (\A j \in 1 .. read - 1 : data[j].more)' /\ \A j \in 1 .. read' - 1 : data'[j].more
    BY <1>1, <2>1
  <2>3. ~stopped' => \A j \in 1 .. read' : data'[j].more
    <3>1. ~stopped' => \A j \in 1 .. read + 1 : j = read + 1 \/ j \in 1 .. read
      BY <1>1
    <3> QED BY <1>1, <1>2, <2>1, <3>1
  <2>4. stopped' => EndsAt(read)'
    <3>1. read + 1 \in DOMAIN data /\ (read + 1) - 1 = read
      BY <1>1, <1>5 DEF LebTypeOK
    <3>2. stopped' => EndsAt(read + 1)
      BY <1>2, <2>1, <3>1 DEF EndsAt
    <3> QED BY <1>1, <3>2 DEF EndsAt
  <2> QED BY <2>2, <2>3, <2>4 DEF ReadSoFar
<1>7. ShiftOfRead'
  <2>1. Offset(read + 2) = Offset(read + 1) + GroupBits
    BY <1>1, OffsetNext
  <2>2. ~stopped' \/ signed' => shift' = shift + GroupBits
    <3>1. shift' = IF data[read + 1].more \/ signed THEN shift + GroupBits ELSE shift
      BY DEF ReadByte
    <3> QED BY <1>1, <1>2, <3>1
  <2>3. Offset(read + 1)' = Offset(read + 2)
    BY <1>1 DEF Offset
  <2> QED BY <1>4, <2>1, <2>2, <2>3 DEF ShiftOfRead
<1>8. ResultOfRead'
  <2>1. Offset(read)' = Offset(read + 1) /\ Parts(read)' = Parts(read + 1)
    BY <1>1 DEF Offset, Parts, Part
  <2> SUFFICES ASSUME Offset(read + 1) < IntBits
               PROVE  result' = Parts(read + 1)
    BY <1>1, <2>1 DEF ResultOfRead
  <2>2. result = Parts(read)
    <3>1. Offset(read + 1) = Offset(read) + GroupBits /\ Offset(read) \in Int
      BY <1>1, OffsetNext
    <3>2. Offset(read) < IntBits
      BY <3>1, WidthAssumption
    <3> QED BY <3>2 DEF ResultOfRead
  <2>3. result' = result \cup Part(read + 1)
    BY <1>1, <1>4 DEF ReadByte, Shifted, Part
  <2>4. Parts(read + 1) = Parts(read) \cup Part(read + 1)
    <3>1. 1 .. read + 1 = 1 .. read \cup {read + 1}
      BY <1>1
    <3> QED BY <3>1 DEF Parts
  <2> QED BY <2>2, <2>3, <2>4
<1> QED BY <1>5, <1>6, <1>7, <1>8

LEMMA LebInvEndOfData == LebInv /\ EndOfData => LebInv'
<1> SUFFICES ASSUME LebInv, EndOfData PROVE LebInv'
  OBVIOUS
<1> USE DEF LebInv, EndOfData
<1>1. LebTypeOK'
  BY DEF LebTypeOK
<1>2. ReadSoFar'
  BY DEF ReadSoFar
<1>3. ShiftOfRead'
  BY DEF ShiftOfRead, Offset
<1>4. ResultOfRead'
  BY DEF ResultOfRead, Parts, Part, Offset
<1> QED BY <1>1, <1>2, <1>3, <1>4

LEMMA LebInvNext == LebInv /\ [LebNext]_lebVars => LebInv'
<1> SUFFICES ASSUME LebInv, [LebNext]_lebVars PROVE LebInv'
  OBVIOUS
<1>1. CASE ReadByte
  BY <1>1, LebInvReadByte
<1>2. CASE EndOfData
  BY <1>2, LebInvEndOfData
<1>3. CASE UNCHANGED lebVars
  BY <1>3 DEF LebInv, LebTypeOK, ReadSoFar, ShiftOfRead, ResultOfRead, EndsAt,
              Parts, Part, Offset, lebVars
<1> QED BY <1>1, <1>2, <1>3 DEF LebNext

-----------------------------------------------------------------------------
\* The reader stops behind the number's last byte.
LEMMA Passed == LebInv => NumberPassed
<1> SUFFICES ASSUME LebInv, stopped PROVE read = Length
  BY DEF NumberPassed
<1>1. data \in Seq(Bytes)
  BY DEF LebInv, LebTypeOK
<1>2. CASE EndsAt(read)
  BY <1>1, <1>2, LengthIsEnd
<1>3. CASE read = Len(data) /\ \A j \in 1 .. read : data[j].more
  <2>1. \A n \in DOMAIN data : ~EndsAt(n)
    BY <1>1, <1>3 DEF EndsAt
  <2> QED BY <1>3, <2>1 DEF Length
<1> QED BY <1>2, <1>3 DEF LebInv, ReadSoFar

\* Where no byte is shifted too far, the result is the groups below the top of
\* int, and ones above it when its top bit is one.
LEMMA ResultOfGroups ==
  ASSUME LebInv, NEW n \in Nat, n = read, n > 0, Offset(n) < IntBits,
         NEW Raw, Raw = UNION {GroupAt(k) : k \in 1 .. n}
  PROVE  /\ Raw \subseteq 0 .. ResultBits - 1
         /\ result = (Raw \cap 0 .. IntBits - 1)
                       \cup IF IntBits - 1 \in Raw THEN IntBits .. ResultBits - 1 ELSE {}
<1>1. ASSUME NEW k \in 1 .. n
      PROVE  /\ GroupAt(k) \subseteq 0 .. ResultBits - 1
             /\ Part(k) = (GroupAt(k) \cap 0 .. IntBits - 1)
                            \cup IF IntBits - 1 \in GroupAt(k) THEN IntBits .. ResultBits - 1 ELSE {}
  <2>1. Offset(k) \in Nat /\ Offset(k) < IntBits
    <3>1. Offset(k) \in Nat /\ Offset(k) <= Offset(n) /\ Offset(n) \in Int
      BY OffsetMonotone, OffsetNext
    <3> QED BY <3>1, WidthAssumption
  <2>2. data[k].group \subseteq 0 .. GroupBits - 1
    <3>1. data \in Seq(Bytes) /\ k \in 1 .. Len(data)
      BY DEF LebInv, LebTypeOK
    <3>2. data[k] \in Bytes
      BY <3>1
    <3> QED BY <3>2 DEF Bytes
  <2>3. GroupAt(k) \subseteq 0 .. ResultBits - 1
    BY <2>1, <2>2, WidthAssumption DEF GroupAt
  <2>4. InInt(data[k].group, Offset(k)) = GroupAt(k) \cap 0 .. IntBits - 1
    BY DEF InInt, GroupAt
  <2>5. IntBits - 1 \in 0 .. IntBits - 1
    BY WidthAssumption
  <2> QED BY <2>3, <2>4, <2>5 DEF Part, Widened
<1>2. Raw \subseteq 0 .. ResultBits - 1
  BY <1>1
<1>3. result = Parts(n)
  BY DEF LebInv, ResultOfRead
<1>4. Parts(n) = (Raw \cap 0 .. IntBits - 1)
                   \cup IF IntBits - 1 \in Raw THEN IntBits .. ResultBits - 1 ELSE {}
  <2>1. ASSUME NEW x
        PROVE  x \in Parts(n) <=> \E k \in 1 .. n : x \in Part(k)
    BY DEF Parts
  <2>2. ASSUME NEW x
        PROVE  x \in Raw <=> \E k \in 1 .. n : x \in GroupAt(k)
    OBVIOUS
  <2>3. ASSUME NEW x, NEW k \in 1 .. n
        PROVE  x \in Part(k) <=> \/ x \in GroupAt(k) /\ x \in 0 .. IntBits - 1
                                 \/ IntBits - 1 \in GroupAt(k) /\ x \in IntBits .. ResultBits - 1
    BY <1>1
  <2>4. ASSUME NEW x
        PROVE  x \in Parts(n) <=> \/ x \in Raw /\ x \in 0 .. IntBits - 1
                                  \/ IntBits - 1 \in Raw /\ x \in IntBits .. ResultBits - 1
    BY <2>1, <2>2, <2>3, Zenon
  <2> QED BY <2>4
<1> QED BY <1>2, <1>3, <1>4

LEMMA AsWritten == LebInv => NumberAsWritten
<1> SUFFICES ASSUME LebInv, stopped, NEW n \in DOMAIN data, EndsAt(n), Fits
             PROVE  Returned = Written
  BY DEF NumberAsWritten
<1> DEFINE Raw == UNION {GroupAt(k) : k \in 1 .. n}
           Top == IntBits - 1
           Ext == IF signed /\ SignBit(n) THEN Offset(n + 1) .. ResultBits - 1 ELSE {}
<1>1. data \in Seq(Bytes) /\ signed \in BOOLEAN /\ n \in Nat /\ n > 0
  BY DEF LebInv, LebTypeOK
<1>2. Length = n /\ read = n
  BY <1>1, LengthIsEnd, Passed DEF NumberPassed
<1>3. Offset(n) < IntBits
  BY <1>2 DEF Fits
<1>4. /\ Raw \subseteq 0 .. ResultBits - 1
      /\ result = (Raw \cap 0 .. Top) \cup IF Top \in Raw THEN IntBits .. ResultBits - 1 ELSE {}
  BY <1>1, <1>2, <1>3, ResultOfGroups
<1>5. Written = Raw \cup Ext
  BY <1>2 DEF Written
<1>6. Offset(n + 1) \in Nat /\ Offset(n + 1) < ResultBits
  <2>1. Offset(n + 1) = Offset(n) + GroupBits /\ Offset(n) \in Int /\ Offset(n + 1) \in Nat
    BY <1>1, OffsetNext
  <2> QED BY <1>3, <2>1, WidthAssumption
<1>7. Returned = result \cup Ext
  <2>1. signed => shift = Offset(n + 1)
    BY <1>2 DEF LebInv, ShiftOfRead
  <2> QED BY <1>2, <1>6, <2>1 DEF Returned
<1>8. Top \in Nat /\ ResultBits \in Nat /\ IntBits = Top + 1 /\ IntBits <= ResultBits
  BY WidthAssumption
<1>9. CASE Written \subseteq 0 .. IntBits - 2
  <2>1. Raw \subseteq 0 .. IntBits - 2
    BY <1>5, <1>9
  <2>2. Top \notin Raw /\ Raw \cap 0 .. Top = Raw
    BY <2>1, <1>8
  <2> QED BY <1>4, <1>5, <1>7, <2>2
<1>10. CASE IntBits - 1 .. ResultBits - 1 \subseteq Written
  <2> HIDE DEF Raw, Ext
  <2>1. Top .. ResultBits - 1 \subseteq Raw \cup Ext
    BY <1>5, <1>10 DEF Top
  <2>2. IntBits .. ResultBits - 1 \subseteq Top .. ResultBits - 1
    BY <1>8
  <2>3. result \cup Ext \subseteq Raw \cup Ext
    BY <1>4, <2>1, <2>2
  <2>4. Raw \subseteq result \cup Ext
    <3> SUFFICES ASSUME NEW x \in Raw PROVE x \in result \cup Ext
      OBVIOUS
    <3>1. x \in 0 .. ResultBits - 1
      BY <1>4
    <3>2. CASE x \in 0 .. Top
      BY <3>2, <1>4
    <3>3. CASE x \in IntBits .. ResultBits - 1
      <4>1. Top \in Raw \cup Ext
        BY <1>8, <2>1
      <4>2. CASE Top \in Raw
        BY <4>2, <3>3, <1>4
      <4>3. CASE Top \in Ext
        BY <4>3, <3>3, <1>6, <1>8 DEF Ext
      <4> QED BY <4>1, <4>2, <4>3
    <3> QED BY <3>1, <3>2, <3>3, <1>8
  <2> QED BY <1>5, <1>7, <2>3, <2>4
<1> QED BY <1>9, <1>10 DEF Fits

\* A number that fits an int is returned as it was written, by ULEB128 and by
\* SLEB128, whatever its encoding is padded to.
THEOREM NumbersAsWritten == LebSpec => []NumberAsWritten
<1>1. LebSpec => []LebInv
  BY LebInvInit, LebInvNext, PTL DEF LebSpec
<1> QED BY <1>1, AsWritten, PTL

\* The next number is read at its beginning, even when this one's value is lost.
THEOREM NumbersPassed == LebSpec => []NumberPassed
<1>1. LebSpec => []LebInv
  BY LebInvInit, LebInvNext, PTL DEF LebSpec
<1> QED BY <1>1, Passed, PTL

\* For all widths and all encodings: small numbers as written, and none read on.
THEOREM NumbersCorrect == LebSpec => []NumbersMeant
<1>1. NumberAsWritten /\ NumberPassed => NumbersMeant
  BY DEF NumbersMeant
<1> QED BY <1>1, NumbersAsWritten, NumbersPassed, PTL

-----------------------------------------------------------------------------
(***************************************************************************)
(* Frames: the entry of a function is that of its last FDE, because what   *)
(* is kept from one record for the next (the encoding and the size of      *)
(* addresses) is what a usual FDE takes it to be.                          *)
(***************************************************************************)
Records == CIEs \cup [kind : {"fde"}, cie : Nat, pc : Pcs, frame : FrameSizes \cup {None}]
             \cup Terminators \cup Cuts

FramesTypeOK ==
  /\ records \in Seq(Records)
  /\ fde_encoding \in Encodings /\ eh_addr_size = AddrSize
  /\ m_dfa \in [DOMAIN m_dfa -> FrameSizes]

\* An FDE refers to a CIE before it.
FdesRefer ==
  \A k \in 1 .. Len(records) : IsFde(k) => records[k].cie \in 1 .. k - 1 /\ CieOf(k).kind = "cie"

\* one_cie has the encoding of an earlier CIE, if there was one that names any.
EncodingKept == NoEncodingBefore(Len(records) + 1) => fde_encoding = absptr

UsualFdes(pc) == \A k \in 1 .. Len(records) : IsFde(k) /\ records[k].pc = pc => Usual(k)

\* The frame found for pc is that of the last FDE of FramesOf(pc).
LastFrame(pc) ==
  \/ FramesOf(pc) = {} /\ find_dfa(pc) = None
  \/ \E k \in FramesOf(pc) : (\A j \in FramesOf(pc) : j <= k) /\ find_dfa(pc) = records[k].frame

FramesFound == \A pc \in Pcs : pc \notin misread /\ UsualFdes(pc) => LastFrame(pc)

AllUsual ==
  \A k \in 1 .. Len(records) : /\ IsFde(k) => Usual(k)
                               /\ records[k].kind = "cie" => ~records[k].behind

FunctionsOnly ==
  AllUsual =>
    /\ misread = {}
    /\ \A pc \in DOMAIN m_dfa : \E k \in 1 .. Len(records) : IsFde(k) /\ records[k].pc = pc

FramesInv == FramesTypeOK /\ FdesRefer /\ EncodingKept /\ FramesFound /\ FunctionsOnly

LEMMA RecordAppended ==
  ASSUME FramesInv, NEW record \in Records, records' = Append(records, record)
  PROVE  /\ records' \in Seq(Records)
         /\ Len(records) \in Nat /\ Len(records') = Len(records) + 1
         /\ records'[Len(records) + 1] = record
         /\ \A k \in 1 .. Len(records) : records'[k] = records[k]
         /\ \A k \in 1 .. Len(records) : IsFde(k) => (Usual(k)' <=> Usual(k)) /\ CieOf(k)' = CieOf(k)
<1>1. /\ records' \in Seq(Records) /\ Len(records) \in Nat /\ Len(records') = Len(records) + 1
      /\ records'[Len(records) + 1] = record
      /\ \A k \in 1 .. Len(records) : records'[k] = records[k]
  BY DEF FramesInv, FramesTypeOK
<1>2. ASSUME NEW k \in 1 .. Len(records), IsFde(k) PROVE (Usual(k)' <=> Usual(k)) /\ CieOf(k)' = CieOf(k)
  <2>1. records[k].cie \in 1 .. k - 1
    BY <1>2 DEF FramesInv, FdesRefer
  <2>2. records[k].cie \in 1 .. Len(records)
    BY <1>1, <2>1
  <2>3. CieOf(k)' = CieOf(k)
    BY <1>1, <2>2 DEF CieOf
  <2>4. \A j \in 1 .. k - 1 : records'[j] = records[j]
    BY <1>1
  <2>5. NoEncodingBefore(k)' <=> NoEncodingBefore(k)
    BY <2>4 DEF NoEncodingBefore, WrittenAs
  <2> QED BY <2>3, <2>5 DEF Usual, WrittenAs
<1> QED BY <1>1, <1>2

LEMMA RecordsSame ==
  ASSUME FramesInv, UNCHANGED <<records, fde_encoding, eh_addr_size, m_dfa, misread>>
  PROVE  FramesInv'
<1>1. /\ FramesTypeOK' /\ FdesRefer' /\ EncodingKept'
  BY DEF FramesInv, FramesTypeOK, FdesRefer, EncodingKept, IsFde, CieOf, NoEncodingBefore, WrittenAs
<1>2. FramesFound'
  BY DEF FramesInv, FramesFound, UsualFdes, LastFrame, FramesOf, find_dfa, IsFde, CieOf, Usual,
         NoEncodingBefore, WrittenAs
<1>3. FunctionsOnly'
  BY DEF FramesInv, FunctionsOnly, AllUsual, IsFde, CieOf, Usual, NoEncodingBefore, WrittenAs
<1> QED BY <1>1, <1>2, <1>3 DEF FramesInv

LEMMA FoundInSet ==
  ASSUME NEW p, NEW f \in FrameSizes, m_dfa' = SetFrame(p, f)
  PROVE  /\ find_dfa(p)' = f
         /\ \A q : q # p => find_dfa(q)' = find_dfa(q)
         /\ DOMAIN m_dfa' = DOMAIN m_dfa \cup {p}
         /\ m_dfa \in [DOMAIN m_dfa -> FrameSizes] => m_dfa' \in [DOMAIN m_dfa' -> FrameSizes]
  BY DEF SetFrame, find_dfa

\* Records that are no FDE: what they enter is misread.
LEMMA NoFdeKeeps ==
  ASSUME FramesInv, NEW record \in Records, record.kind # "fde", records' = Append(records, record),
         eh_addr_size' = AddrSize, fde_encoding' \in Encodings,
         NoEncodingBefore(Len(records) + 1)
           /\ (record.kind = "cie" => WrittenAs(record) = absptr) => fde_encoding' = absptr,
         \/ m_dfa' = m_dfa /\ misread' = misread
         \/ \E p : \E f \in FrameSizes : /\ record.kind = "cie" /\ record.behind
                            /\ m_dfa' = SetFrame(p, f) /\ misread' = misread \cup {p}
  PROVE  FramesInv'
<1>1. /\ records' \in Seq(Records)
      /\ Len(records) \in Nat /\ Len(records') = Len(records) + 1
      /\ records'[Len(records) + 1] = record
      /\ \A k \in 1 .. Len(records) : records'[k] = records[k]
      /\ \A k \in 1 .. Len(records) : IsFde(k) => (Usual(k)' <=> Usual(k)) /\ CieOf(k)' = CieOf(k)
  BY RecordAppended
<1>2. \A k \in 1 .. Len(records') : k \in 1 .. Len(records) \/ k = Len(records) + 1
  BY <1>1
<1>3. \A k \in 1 .. Len(records) : k \in 1 .. Len(records')
  BY <1>1
<1>4. \A k \in 1 .. Len(records') : IsFde(k)' => k \in 1 .. Len(records) /\ IsFde(k)
  BY <1>1, <1>2 DEF IsFde
<1>5. FramesTypeOK'
  BY <1>1, FoundInSet DEF FramesInv, FramesTypeOK
<1>6. FdesRefer'
  BY <1>1, <1>4 DEF FramesInv, FdesRefer
<1>7. EncodingKept'
  <2>1. ASSUME NoEncodingBefore(Len(records) + 1)'
        PROVE  NoEncodingBefore(Len(records) + 1) /\ (record.kind = "cie" => WrittenAs(record) = absptr)
    <3>1. \A j \in 1 .. Len(records) + 1 : records'[j].kind = "cie" => WrittenAs(records'[j]) = absptr
      <4>1. \A j \in 1 .. Len(records) + 1 : j \in 1 .. Len(records') + 1 - 1
        BY <1>1
      <4> QED BY <1>1, <2>1, <4>1 DEF NoEncodingBefore, WrittenAs
    <3>2. \A j \in 1 .. Len(records) + 1 - 1 : j \in 1 .. Len(records) /\ j \in 1 .. Len(records) + 1
      BY <1>1
    <3>3. Len(records) + 1 \in 1 .. Len(records) + 1
      BY <1>1
    <3> QED BY <1>1, <3>1, <3>2, <3>3 DEF NoEncodingBefore
  <2> QED BY <2>1 DEF EncodingKept
<1>8. ASSUME NEW pc \in Pcs PROVE FramesOf(pc)' = FramesOf(pc) /\ (UsualFdes(pc)' <=> UsualFdes(pc))
  <2>1. FramesOf(pc) = {k \in 1 .. Len(records) : IsFde(k) /\ records[k].pc = pc /\ records[k].frame # None}
    BY DEF FramesOf, FramesInv, FramesTypeOK
  <2>2. FramesOf(pc)' = {k \in 1 .. Len(records') : IsFde(k)' /\ records'[k].pc = pc /\ records'[k].frame # None}
    BY <1>1 DEF FramesOf
  <2>3. \A k \in 1 .. Len(records) : IsFde(k)' <=> IsFde(k)
    BY <1>1 DEF IsFde
  <2> QED BY <1>1, <1>3, <1>4, <2>1, <2>2, <2>3 DEF UsualFdes
<1>9. ASSUME NEW pc \in Pcs, pc \notin misread' PROVE pc \notin misread /\ find_dfa(pc)' = find_dfa(pc)
  BY <1>9, FoundInSet DEF find_dfa
<1>10. FramesFound'
  <2> SUFFICES ASSUME NEW pc \in Pcs, pc \notin misread', UsualFdes(pc)' PROVE LastFrame(pc)'
    BY DEF FramesFound
  <2>1. LastFrame(pc) /\ FramesOf(pc)' = FramesOf(pc) /\ find_dfa(pc)' = find_dfa(pc)
    BY <1>8, <1>9 DEF FramesInv, FramesFound
  <2>2. \A k \in FramesOf(pc) : records'[k] = records[k]
    BY <1>1 DEF FramesOf, FramesInv, FramesTypeOK
  <2> QED BY <2>1, <2>2 DEF LastFrame
<1>11. FunctionsOnly'
  <2> SUFFICES ASSUME AllUsual'
               PROVE  /\ misread' = {}
                      /\ \A pc \in DOMAIN m_dfa' :
                           \E k \in 1 .. Len(records') : IsFde(k)' /\ records'[k].pc = pc
    BY DEF FunctionsOnly
  <2>1. AllUsual
    BY <1>1, <1>3 DEF AllUsual, IsFde
  <2>2. ~(record.kind = "cie" /\ record.behind)
    <3>1. Len(records) + 1 \in 1 .. Len(records')
      BY <1>1
    <3> QED BY <1>1, <3>1 DEF AllUsual
  <2>3. m_dfa' = m_dfa /\ misread' = misread
    BY <2>2
  <2>4. \A pc \in DOMAIN m_dfa : \E k \in 1 .. Len(records) : IsFde(k) /\ records[k].pc = pc
    BY <2>1 DEF FramesInv, FunctionsOnly
  <2> QED BY <1>1, <1>3, <2>1, <2>3, <2>4 DEF FramesInv, FunctionsOnly, IsFde
<1> QED BY <1>5, <1>6, <1>7, <1>10, <1>11 DEF FramesInv

\* A usual FDE is read as it was written.
LEMMA UsualIsRead ==
  ASSUME FramesInv, NEW fde \in FDEs(Len(records)), records[fde.cie].kind = "cie",
         records' = Append(records, fde), NEW n, n = Len(records) + 1, Usual(n)'
  PROVE  PcRead(records[fde.cie]) /\ Aligned(records[fde.cie])
<1>1. fde.cie \in 1 .. Len(records) /\ Len(records) \in Nat /\ records[fde.cie] \in Records
  BY DEF FDEs, FramesInv, FramesTypeOK
<1>2. PICK cie : cie = records[fde.cie]
  OBVIOUS
<1>3. cie \in CIEs
  BY <1>1, <1>2 DEF Records, CIEs, Terminators, Cuts
<1>4. records'[n] = fde /\ \A k \in 1 .. Len(records) : records'[k] = records[k]
  BY DEF FramesInv, FramesTypeOK
<1>5. CieOf(n)' = cie
  BY <1>1, <1>2, <1>4 DEF CieOf
<1>6. NoEncodingBefore(n)' => NoEncodingBefore(Len(records) + 1)
  BY <1>1, <1>4 DEF NoEncodingBefore, WrittenAs
<1>7. \/ cie.R = "sdata4"
      \/ /\ WrittenAs(cie) = absptr /\ cie.ptr_size \in {NoSize, AddrSize}
         /\ cie.R = absptr \/ NoEncodingBefore(Len(records) + 1)
  BY <1>5, <1>6 DEF Usual, WrittenAs
<1>8. eh_addr_size = AddrSize /\ (NoEncodingBefore(Len(records) + 1) => fde_encoding = absptr)
  BY DEF FramesInv, FramesTypeOK, EncodingKept
<1>9. CASE cie.R = "sdata4"
  BY <1>2, <1>9 DEF PcRead, Aligned, BeginSize, RangeSize, WrittenSize, SizeOf, FdeEncoding, encodingOf,
                    WrittenAs, NoR, absptr
<1>10. CASE WrittenAs(cie) = absptr /\ cie.ptr_size \in {NoSize, AddrSize} /\ (cie.R = absptr \/ NoEncodingBefore(Len(records) + 1))
  <2>1. FdeEncoding(cie) = absptr /\ cie.R # "sdata8"
    BY <1>8, <1>10 DEF FdeEncoding, encodingOf, WrittenAs, NoR, absptr
  <2>2. ptr_size(cie) = AddrSize
    BY <1>8, <1>10 DEF ptr_size
  <2>3. (IF cie.ptr_size = NoSize THEN AddrSize ELSE cie.ptr_size) = AddrSize
    BY <1>10
  <2> QED BY <1>2, <1>10, <2>1, <2>2, <2>3 DEF PcRead, Aligned, BeginSize, RangeSize, WrittenSize, SizeOf, absptr
<1> QED BY <1>7, <1>9, <1>10

LEMMA FdeKeeps == FramesInv /\ ReadFde => FramesInv'
<1> SUFFICES ASSUME FramesInv, ReadFde PROVE FramesInv'
  OBVIOUS
<1>1. PICK fde \in FDEs(Len(records)) :
        LET cie == records[fde.cie] IN
        /\ cie.kind = "cie"
        /\ records' = Append(records, fde)
        /\ fde_encoding' = FdeEncoding(cie)
        /\ eh_addr_size' = Restored(cie)
        /\ \E pc \in Pcs \cup {Elsewhere}, frame \in FrameSizes \cup {None} :
             /\ PcRead(cie) => pc = fde.pc
             /\ Aligned(cie) => frame = fde.frame
             /\ cie.R = "sdata8" /\ FdeEncoding(cie) = cie.R => pc = Elsewhere
             /\ m_dfa' = IF frame = None THEN m_dfa ELSE SetFrame(pc, frame)
             /\ misread' = IF PcRead(cie) \/ frame = None THEN misread ELSE misread \cup {pc}
  BY DEF ReadFde
<1>2. PICK cie : cie = records[fde.cie]
  OBVIOUS
<1>3. PICK pc \in Pcs \cup {Elsewhere}, frame \in FrameSizes \cup {None} :
        /\ PcRead(cie) => pc = fde.pc
        /\ Aligned(cie) => frame = fde.frame
        /\ m_dfa' = IF frame = None THEN m_dfa ELSE SetFrame(pc, frame)
        /\ misread' = IF PcRead(cie) \/ frame = None THEN misread ELSE misread \cup {pc}
  BY <1>1, <1>2
<1>4. /\ cie.kind = "cie" /\ records' = Append(records, fde)
      /\ fde_encoding' = FdeEncoding(cie) /\ eh_addr_size' = AddrSize
  BY <1>1, <1>2 DEF Restored
<1>5. fde \in Records /\ fde.kind = "fde" /\ fde.cie \in 1 .. Len(records) /\ fde.pc \in Pcs
  BY DEF FDEs, Records, FramesInv, FramesTypeOK
<1>6. /\ records' \in Seq(Records)
      /\ Len(records) \in Nat /\ Len(records') = Len(records) + 1
      /\ records'[Len(records) + 1] = fde
      /\ \A k \in 1 .. Len(records) : records'[k] = records[k]
      /\ \A k \in 1 .. Len(records) : IsFde(k) => (Usual(k)' <=> Usual(k)) /\ CieOf(k)' = CieOf(k)
  BY <1>4, <1>5, RecordAppended
<1>0. PICK n : n = Len(records) + 1
  OBVIOUS
<1>7. \A k \in 1 .. Len(records') : k \in 1 .. Len(records) \/ k = n
  BY <1>0, <1>6
<1>8. /\ \A k \in 1 .. Len(records) : k \in 1 .. Len(records') /\ (IsFde(k)' <=> IsFde(k))
      /\ n \in 1 .. Len(records') /\ IsFde(n)' /\ records'[n] = fde
  BY <1>0, <1>5, <1>6 DEF IsFde
<1>9. cie \in CIEs
  <2>1. records[fde.cie] \in Records
    BY <1>5 DEF FramesInv, FramesTypeOK
  <2> QED BY <1>2, <1>4, <2>1 DEF Records, CIEs, Terminators, Cuts
<1>10. FramesTypeOK'
  <2>1. FdeEncoding(cie) \in Encodings
    BY <1>9 DEF FdeEncoding, encodingOf, FramesInv, FramesTypeOK, CIEs
  <2>2. m_dfa' \in [DOMAIN m_dfa' -> FrameSizes]
    BY <1>3, FoundInSet DEF FramesInv, FramesTypeOK
  <2> QED BY <1>4, <1>6, <2>1, <2>2 DEF FramesTypeOK
<1>11. FdesRefer'
  <2> SUFFICES ASSUME NEW k \in 1 .. Len(records'), IsFde(k)'
               PROVE  records'[k].cie \in 1 .. k - 1 /\ CieOf(k)'.kind = "cie"
    BY DEF FdesRefer
  <2>1. CASE k \in 1 .. Len(records)
    BY <1>6, <1>8, <2>1 DEF FramesInv, FdesRefer
  <2>2. CASE k = n
    <3>1. CieOf(k)' = cie
      BY <1>2, <1>5, <1>6, <1>8, <2>2 DEF CieOf
    <3> QED BY <1>0, <1>4, <1>5, <1>6, <1>8, <2>2, <3>1
  <2> QED BY <1>7, <2>1, <2>2
<1>12. EncodingKept'
  <2> SUFFICES ASSUME NoEncodingBefore(Len(records) + 1)' PROVE fde_encoding' = absptr
    BY DEF EncodingKept
  <2>1. \A j \in 1 .. Len(records) : j \in 1 .. Len(records') + 1 - 1
    BY <1>6
  <2>2. \A j \in 1 .. Len(records) : records[j].kind = "cie" => WrittenAs(records[j]) = absptr
    BY <1>6, <2>1 DEF NoEncodingBefore, WrittenAs
  <2>3. NoEncodingBefore(Len(records) + 1)
    BY <1>6, <2>2 DEF NoEncodingBefore
  <2>4. fde_encoding = absptr /\ WrittenAs(cie) = absptr
    BY <1>2, <1>4, <1>5, <2>2, <2>3 DEF FramesInv, EncodingKept
  <2> QED BY <1>4, <2>4 DEF FdeEncoding, encodingOf, WrittenAs
<1>13. Usual(n)' => pc = fde.pc /\ frame = fde.frame /\ misread' = misread
  BY <1>0, <1>1, <1>2, <1>3, <1>4, UsualIsRead
<1>14. FramesFound'
  <2> SUFFICES ASSUME NEW p \in Pcs, p \notin misread', UsualFdes(p)' PROVE LastFrame(p)'
    BY DEF FramesFound
  <2>1. p \notin misread
    BY <1>3
  <2>2. UsualFdes(p)
    BY <1>6, <1>8 DEF UsualFdes
  <2>3. LastFrame(p)
    BY <2>1, <2>2 DEF FramesInv, FramesFound
  <2>4. FramesOf(p) = {k \in 1 .. Len(records) : IsFde(k) /\ records[k].pc = p /\ records[k].frame # None}
    BY DEF FramesOf, FramesInv, FramesTypeOK
  <2>5. FramesOf(p)' = {k \in 1 .. Len(records') : IsFde(k)' /\ records'[k].pc = p /\ records'[k].frame # None}
    BY <1>6 DEF FramesOf
  <2>6. \A k \in FramesOf(p) : k \in 1 .. Len(records) /\ records'[k] = records[k]
    BY <1>6, <2>4
  <2>7. CASE fde.pc = p /\ fde.frame # None
    <3>1. Usual(n)'
      BY <1>6, <1>8, <2>7 DEF UsualFdes
    <3>2. find_dfa(p)' = fde.frame
      BY <1>3, <1>13, <2>7, <3>1, FoundInSet
    <3>3. n \in FramesOf(p)'
      BY <1>6, <1>8, <2>5, <2>7
    <3>4. \A j \in FramesOf(p)' : j <= n
      BY <1>0, <1>6, <2>5
    <3> QED BY <1>8, <3>2, <3>3, <3>4 DEF LastFrame
  <2>8. CASE ~(fde.pc = p /\ fde.frame # None)
    <3>1. FramesOf(p)' = FramesOf(p)
      BY <1>6, <1>7, <1>8, <2>4, <2>5, <2>8
    <3>2. find_dfa(p)' = find_dfa(p)
      <4>1. CASE frame = None
        BY <1>3, <4>1 DEF find_dfa
      <4>2. CASE frame # None
        <5>1. pc # p
          <6>1. CASE PcRead(cie)
            <7>1. pc = fde.pc /\ frame = fde.frame
              BY <1>3, <6>1 DEF PcRead
            <7> QED BY <2>8, <4>2, <7>1
          <6>2. CASE ~PcRead(cie)
            BY <1>3, <4>2, <6>2
          <6> QED BY <6>1, <6>2
        <5> QED BY <1>3, <4>2, <5>1, FoundInSet
      <4> QED BY <4>1, <4>2
    <3> QED BY <2>3, <2>6, <3>1, <3>2 DEF LastFrame
  <2> QED BY <2>7, <2>8
<1>15. FunctionsOnly'
  <2> SUFFICES ASSUME AllUsual'
               PROVE  /\ misread' = {}
                      /\ \A p \in DOMAIN m_dfa' :
                           \E k \in 1 .. Len(records') : IsFde(k)' /\ records'[k].pc = p
    BY DEF FunctionsOnly
  <2>1. AllUsual
    BY <1>6, <1>8 DEF AllUsual
  <2>2. pc = fde.pc /\ frame = fde.frame /\ misread' = misread
    BY <1>8, <1>13 DEF AllUsual
  <2>3. misread = {} /\ \A p \in DOMAIN m_dfa : \E k \in 1 .. Len(records) : IsFde(k) /\ records[k].pc = p
    BY <2>1 DEF FramesInv, FunctionsOnly
  <2>4. ASSUME NEW p \in DOMAIN m_dfa' PROVE \E k \in 1 .. Len(records') : IsFde(k)' /\ records'[k].pc = p
    <3>1. CASE p \in DOMAIN m_dfa
      <4>1. PICK k \in 1 .. Len(records) : IsFde(k) /\ records[k].pc = p
        BY <2>3, <3>1
      <4>2. k \in 1 .. Len(records') /\ IsFde(k)' /\ records'[k].pc = p
        BY <1>6, <1>8, <4>1
      <4> QED BY <4>2
    <3>2. CASE p \notin DOMAIN m_dfa
      <4>1. p = pc
        BY <1>3, <2>4, <3>2, FoundInSet
      <4> QED BY <1>6, <1>8, <2>2, <4>1
    <3> QED BY <3>1, <3>2
  <2> QED BY <2>2, <2>3, <2>4
<1> QED BY <1>10, <1>11, <1>12, <1>14, <1>15 DEF FramesInv

LEMMA CieKeeps == FramesInv /\ ReadCie => FramesInv'
<1> SUFFICES ASSUME FramesInv, ReadCie PROVE FramesInv'
  OBVIOUS
<1>1. PICK cie \in CIEs :
        /\ records' = Append(records, cie) /\ fde_encoding' = encodingOf(cie)
        /\ eh_addr_size' = Restored(cie)
        /\ IF cie.behind
             THEN \E pc \in Pcs \cup {Elsewhere}, frame \in FrameSizes :
                    m_dfa' = SetFrame(pc, frame) /\ misread' = misread \cup {pc}
             ELSE UNCHANGED <<m_dfa, misread>>
  BY DEF ReadCie
<1>2. cie \in Records /\ cie.kind = "cie" /\ cie.R \in Encodings \cup {NoR} /\ cie.behind \in BOOLEAN
  BY DEF Records, CIEs
<1>3. fde_encoding' \in Encodings /\ eh_addr_size' = AddrSize
  BY <1>1, <1>2 DEF encodingOf, Restored, FramesInv, FramesTypeOK
<1>4. NoEncodingBefore(Len(records) + 1) /\ WrittenAs(cie) = absptr => fde_encoding' = absptr
  BY <1>1 DEF FramesInv, EncodingKept, encodingOf, WrittenAs
<1>5. \/ m_dfa' = m_dfa /\ misread' = misread
      \/ \E p : \E f \in FrameSizes : /\ cie.kind = "cie" /\ cie.behind
                         /\ m_dfa' = SetFrame(p, f) /\ misread' = misread \cup {p}
  BY <1>1, <1>2
<1> QED BY <1>1, <1>2, <1>3, <1>4, <1>5, NoFdeKeeps

LEMMA OtherRecordsKeep == FramesInv /\ (SkipZero \/ EndOfFrames) => FramesInv'
<1> SUFFICES ASSUME FramesInv, SkipZero \/ EndOfFrames PROVE FramesInv'
  OBVIOUS
<1>1. UNCHANGED <<fde_encoding, eh_addr_size, m_dfa, misread>>
  BY DEF SkipZero, EndOfFrames
<1>2. UNCHANGED records \/ \E record \in Terminators \cup Cuts : records' = Append(records, record)
  BY DEF SkipZero, EndOfFrames
<1>3. CASE UNCHANGED records
  BY <1>1, <1>3, RecordsSame
<1>4. ASSUME NEW record \in Terminators \cup Cuts, records' = Append(records, record) PROVE FramesInv'
  <2>1. record \in Records /\ record.kind # "fde" /\ record.kind # "cie"
    BY DEF Records, Terminators, Cuts
  <2>2. fde_encoding' \in Encodings /\ eh_addr_size' = AddrSize
    BY <1>1 DEF FramesInv, FramesTypeOK
  <2>3. NoEncodingBefore(Len(records) + 1) => fde_encoding' = absptr
    BY <1>1 DEF FramesInv, EncodingKept
  <2> QED BY <1>1, <1>4, <2>1, <2>2, <2>3, NoFdeKeeps
<1> QED BY <1>2, <1>3, <1>4

LEMMA FramesFoundRight == FramesInv => FramesMeant
<1> SUFFICES ASSUME FramesInv PROVE FramesMeant
  OBVIOUS
<1>1. DOMAIN records = 1 .. Len(records)
  BY DEF FramesInv, FramesTypeOK
<1>2. ASSUME NEW pc \in Pcs \ misread, UsualFdes(pc)
      PROVE  find_dfa(pc) = IF FramesOf(pc) = {} THEN None
                            ELSE records[CHOOSE k \in FramesOf(pc) : \A j \in FramesOf(pc) : j <= k].frame
  <2>1. LastFrame(pc)
    BY <1>2 DEF FramesInv, FramesFound
  <2>2. CASE FramesOf(pc) = {} /\ find_dfa(pc) = None
    BY <2>2
  <2>3. ASSUME NEW k \in FramesOf(pc), \A j \in FramesOf(pc) : j <= k, find_dfa(pc) = records[k].frame
        PROVE  FramesOf(pc) # {} /\ find_dfa(pc) = records[CHOOSE i \in FramesOf(pc) : \A j \in FramesOf(pc) : j <= i].frame
    <3>1. PICK i : i = CHOOSE l \in FramesOf(pc) : \A j \in FramesOf(pc) : j <= l
      OBVIOUS
    <3>2. i \in FramesOf(pc) /\ \A j \in FramesOf(pc) : j <= i
      BY <2>3, <3>1
    <3>3. i \in Nat /\ k \in Nat /\ i <= k /\ k <= i
      BY <1>1, <2>3, <3>2 DEF FramesOf
    <3> QED BY <2>3, <3>1, <3>3
  <2> QED BY <2>1, <2>2, <2>3 DEF LastFrame
<1>3. FrameOfFunction
  BY <1>1, <1>2 DEF FrameOfFunction, UsualFdes
<1>4. OnlyFunctions
  BY <1>1 DEF FramesInv, FunctionsOnly, AllUsual, OnlyFunctions
<1> QED BY <1>3, <1>4 DEF FramesMeant

LEMMA FramesStart == FramesInit => FramesInv
<1> SUFFICES ASSUME FramesInit PROVE FramesInv
  OBVIOUS
<1>1. records = <<>> /\ Len(records) = 0 /\ DOMAIN records = {} /\ records \in Seq(Records)
  BY DEF FramesInit
<1>2. DOMAIN m_dfa = {} /\ m_dfa \in [DOMAIN m_dfa -> FrameSizes]
  BY DEF FramesInit, NoFrames
<1>3. FramesTypeOK /\ EncodingKept
  BY <1>1, <1>2 DEF FramesInit, FramesTypeOK, EncodingKept, Encodings
<1>4. FdesRefer /\ FunctionsOnly
  BY <1>1, <1>2 DEF FramesInit, FdesRefer, FunctionsOnly
<1>5. FramesFound
  BY <1>1, <1>2 DEF FramesFound, LastFrame, FramesOf, find_dfa
<1> QED BY <1>3, <1>4, <1>5 DEF FramesInv

LEMMA FramesKept == FramesInv /\ [FramesNext]_frameVars => FramesInv'
<1> SUFFICES ASSUME FramesInv, [FramesNext]_frameVars PROVE FramesInv'
  OBVIOUS
<1>1. CASE UNCHANGED frameVars
  BY <1>1, RecordsSame DEF frameVars
<1> QED BY <1>1, CieKeeps, FdeKeeps, OtherRecordsKeep DEF FramesNext

\* The frame found for a function is that of its last FDE, and only functions have
\* one, in sections of any length (ElfFile::parse_frames with read_cie and
\* find_dfa), as far as FramesMeant takes the section to be what compilers emit.
THEOREM FramesCorrect == FramesSpec => []FramesMeant
<1>1. FramesSpec => []FramesInv
  BY FramesStart, FramesKept, PTL DEF FramesSpec
<1> QED BY <1>1, FramesFoundRight, PTL

-----------------------------------------------------------------------------
(***************************************************************************)
(* AddressLists: entry by entry the result gains what the entry means,     *)
(* because the base is the one before it.                                  *)
(***************************************************************************)
Pair == Int \X Int

ListTypeOK ==
  /\ section \in Sections /\ entries \in Seq(Entries(section))
  /\ fits \subseteq 1 .. Len(entries) /\ unitBase \in Nat /\ addr_base \in Contributions \cup {NoBase}
  /\ next \in 1 .. Len(entries) + 1 /\ base \in Nat
  /\ res \in Seq(Pair)
  /\ returned \in {"no", "true", "false"}

\* The indices of the list are looked up where they belong.
IndicesKnown ==
  HasIndices => IF section = "rnglists" THEN addr_base = First ELSE addr_base # NoBase

\* What a list of this section takes to be read as it is meant.
Proper ==
  /\ section \in {"ranges", "loc"} => NoBaseEntry
  /\ section = "loc" => unitBase = 0
  /\ section = "rnglists" => OffsetsAreBased
  /\ section \in {"rnglists", "loclists"} => IndicesKnown

BaseSet(k) == \E j \in 1 .. k - 1 : IsBase(entries[j])

\* The base is that of the last entry that set it.
BaseKept ==
  Proper => IF BaseSet(next) THEN base = BaseBefore(next) ELSE base = FirstBase(section)

ListRight == Proper => InOrder(Listed)

ListInv == ListTypeOK /\ BaseKept /\ ListRight

LEMMA EntryKinds ==
  ASSUME section \in Sections, NEW e \in Entries(section)
  PROVE  /\ e.x \in Nat /\ e.y \in Nat
         /\ e.kind \in Addressing \cup {"base_address", "base_addressx", "end_of_list", "unknown", "cut"}
         /\ e.kind \in {"startx_endx", "startx_length", "base_addressx"} => e \in IndexedEntries
         /\ section \in {"ranges", "loc"} /\ e.kind \in Addressing => e.kind = "offset_pair"
<1>1. \A n \in Offsets \cup Indices \cup {0} : n \in Nat
  BY OffsetsAssumption
<1>2. CASE section \in {"rnglists", "loclists"}
  <2>1. e \in NewEntries \cup Bare("default_location")
    BY <1>2 DEF Entries
  <2> QED BY <1>1, <1>2, <2>1 DEF NewEntries, IndexedEntries, Bare, Pairs, Addressing
<1>3. CASE section \in {"ranges", "loc"}
  <2>1. e \in OldEntries
    BY <1>3 DEF Entries
  <2> QED BY <1>1, <1>3, <2>1 DEF OldEntries, Bare, Pairs, Addressing
<1> QED BY <1>2, <1>3 DEF Sections

LEMMA AddressTyped ==
  ASSUME NEW c \in Contributions \cup {NoBase}, NEW i \in Nat
  PROVE  Address(c, i) \in Nat
  BY DEF Address, Contributions, First, NoBase

\* What an entry gives are two numbers, and what it means, if its base is right.
LEMMA EntryGives ==
  ASSUME ListInv, next <= Len(entries), entries[next].kind \in Addressing
  PROVE  /\ PairOf(entries[next]) \in Pair
         /\ Proper => PairOf(entries[next]) = Meaning(next)
         /\ section = "ranges" /\ Proper => (IsEmptyRange(Meaning(next)) <=> entries[next].x = entries[next].y)
<1>1. PICK e : e = entries[next]
  OBVIOUS
<1>2. next \in 1 .. Len(entries) /\ e \in Entries(section) /\ section \in Sections /\ base \in Nat
  BY <1>1 DEF ListInv, ListTypeOK
<1>3. /\ e.x \in Nat /\ e.y \in Nat
      /\ e.kind \in {"startx_endx", "startx_length", "base_addressx"} => e \in IndexedEntries
      /\ section \in {"ranges", "loc"} => e.kind = "offset_pair"
  BY <1>1, <1>2, EntryKinds
<1>4. ASSUME NEW i \in Nat PROVE Indexed(i) \in Nat
  <2>1. First \in Contributions \cup {NoBase} /\ addr_base \in Contributions \cup {NoBase}
    BY DEF ListInv, ListTypeOK, Contributions
  <2> QED BY <2>1, AddressTyped DEF Indexed, FetchIndexedAddr, GetIndexedAddr
<1>5. ASSUME Proper, e \in IndexedEntries, NEW i \in Nat PROVE Indexed(i) = Meant(i)
  <2>1. HasIndices
    BY <1>1, <1>2, <1>5 DEF HasIndices, ListInv, ListTypeOK
  <2>2. section \in {"rnglists", "loclists"}
    <3>1. ASSUME section \in {"ranges", "loc"} PROVE FALSE
      BY <1>1, <1>3, <1>5, <3>1 DEF IndexedEntries, Pairs
    <3> QED BY <1>2, <3>1 DEF Sections
  <2> QED BY <1>5, <2>1, <2>2 DEF Proper, IndicesKnown, Indexed, FetchIndexedAddr, GetIndexedAddr, Meant
<1>6. ASSUME Proper, e.kind = "offset_pair" PROVE base = BaseBefore(next)
  <2>1. CASE BaseSet(next)
    BY <1>6, <2>1 DEF ListInv, BaseKept
  <2>2. CASE ~BaseSet(next)
    <3>1. base = FirstBase(section) /\ BaseBefore(next) = unitBase
      BY <1>6, <2>2 DEF ListInv, BaseKept, BaseSet, BaseBefore
    <3>2. section = "rnglists" => unitBase = 0
      BY <1>1, <1>2, <1>6, <2>2 DEF Proper, OffsetsAreBased, BaseSet, ListInv, ListTypeOK
    <3>3. section = "loc" => unitBase = 0
      BY <1>6 DEF Proper
    <3> QED BY <3>1, <3>2, <3>3 DEF FirstBase
  <2> QED BY <2>1, <2>2
<1>7. PICK b : b = BaseBefore(next)
  OBVIOUS
<1>8. e.kind \in Addressing
  BY <1>1
<1>9. CASE e.kind = "offset_pair"
  <2>1. PairOf(e) = <<base + e.x, base + e.y>>
    BY <1>9 DEF PairOf
  <2>2. Meaning(next) = <<b + e.x, b + e.y>>
    BY <1>1, <1>7, <1>9 DEF Meaning
  <2>3. PairOf(e) \in Pair
    BY <1>2, <1>3, <2>1 DEF Pair
  <2>4. Proper => b = base
    BY <1>6, <1>7, <1>9
  <2>5. base + e.x = base + e.y <=> e.x = e.y
    BY <1>2, <1>3
  <2>6. Proper => (IsEmptyRange(Meaning(next)) <=> e.x = e.y)
    BY <2>2, <2>4, <2>5 DEF IsEmptyRange
  <2> QED BY <1>1, <2>1, <2>2, <2>3, <2>4, <2>6
<1>10. CASE e.kind # "offset_pair"
  <2>1. section # "ranges"
    BY <1>3, <1>10
  <2>2. CASE e.kind = "startx_endx"
    BY <1>1, <1>3, <1>4, <1>5, <2>1, <2>2 DEF PairOf, Meaning, Pair
  <2>3. CASE e.kind = "startx_length"
    BY <1>1, <1>3, <1>4, <1>5, <2>1, <2>3 DEF PairOf, Meaning, Pair
  <2>4. CASE e.kind = "start_end"
    BY <1>1, <1>3, <2>1, <2>4 DEF PairOf, Meaning, Pair
  <2>5. CASE e.kind = "start_length"
    BY <1>1, <1>3, <2>1, <2>5 DEF PairOf, Meaning, Pair
  <2>6. CASE e.kind = "default_location"
    BY <1>1, <2>1, <2>6 DEF PairOf, Meaning, Pair
  <2> QED BY <1>8, <1>10, <2>2, <2>3, <2>4, <2>5, <2>6 DEF Addressing
<1> QED BY <1>9, <1>10

\* Positions in a set of numbers, when a greater one is added.
Places(S, T, n) ==
  /\ Cardinality(S) \in Nat /\ Cardinality(T) = Cardinality(S) + 1
  /\ Cardinality({j \in T : j <= n}) = Cardinality(S) + 1
  /\ \A k \in S : /\ Cardinality({j \in T : j <= k}) = Cardinality({j \in S : j <= k})
                  /\ Cardinality({j \in S : j <= k}) \in 1 .. Cardinality(S)

LEMMA PlaceOfMore ==
  ASSUME NEW n \in Nat \ {0}, NEW S \in SUBSET (1 .. n - 1)
  PROVE  Places(S, S \cup {n}, n)
<1>1. IsFiniteSet(1 .. n - 1)
  BY FS_Interval
<1>2. IsFiniteSet(S)
  BY <1>1, FS_Subset
<1>3. Cardinality(S) \in Nat
  BY <1>2, FS_CardinalityType
<1>4. n \notin S
  OBVIOUS
<1>5. Cardinality(S \cup {n}) = Cardinality(S) + 1
  BY <1>2, <1>4, FS_AddElement
<1>6. {j \in S \cup {n} : j <= n} = S \cup {n}
  <2>1. \A j \in S \cup {n} : j <= n
    OBVIOUS
  <2> QED BY <2>1
<1>7. ASSUME NEW k \in S
      PROVE  /\ Cardinality({j \in S \cup {n} : j <= k}) = Cardinality({j \in S : j <= k})
             /\ Cardinality({j \in S : j <= k}) \in 1 .. Cardinality(S)
  <2>1. {j \in S \cup {n} : j <= k} = {j \in S : j <= k}
    OBVIOUS
  <2>2. PICK T : T = {j \in S : j <= k}
    OBVIOUS
  <2>3. T \subseteq S /\ k \in T
    BY <2>2
  <2>4. IsFiniteSet(T) /\ Cardinality(T) <= Cardinality(S)
    BY <1>2, <2>3, FS_Subset
  <2>5. Cardinality(T) \in Nat /\ Cardinality(T) # 0
    BY <2>3, <2>4, FS_CardinalityType, FS_EmptySet
  <2> QED BY <1>3, <2>1, <2>2, <2>4, <2>5
<1> QED BY <1>3, <1>5, <1>6, <1>7 DEF Places

LEMMA InputsSame ==
  ASSUME UNCHANGED inputVars
  PROVE  /\ Proper' <=> Proper
         /\ \A k : (BaseSet(k)' <=> BaseSet(k)) /\ BaseBefore(k)' = BaseBefore(k) /\ Meaning(k)' = Meaning(k)
<1>1. UNCHANGED <<section, entries, fits, unitBase, addr_base>>
  BY DEF inputVars
<1>2. Proper' <=> Proper
  BY <1>1 DEF Proper, NoBaseEntry, OffsetsAreBased, IndicesKnown, HasIndices, IsBase
<1>3. ASSUME NEW k PROVE (BaseSet(k)' <=> BaseSet(k)) /\ BaseBefore(k)' = BaseBefore(k) /\ Meaning(k)' = Meaning(k)
  <2>1. BaseBefore(k)' = BaseBefore(k)
    BY <1>1 DEF BaseBefore, IsBase, Meant
  <2>2. Meaning(k)' = Meaning(k)
    BY <1>1, <2>1 DEF Meaning, Meant
  <2> QED BY <1>1, <2>1, <2>2 DEF BaseSet, IsBase
<1> QED BY <1>2, <1>3

\* What Listed is at an entry.
Shown(k) ==
  /\ entries[k].kind \in Addressing
  /\ section = "ranges" => ~IsEmptyRange(Meaning(k))
  /\ section = "loc" => k \in fits

\* The entry is behind the reader: its addresses are listed, or it has none to list.
LEMMA EntryPassed ==
  ASSUME ListInv, NEW n, n = next, next <= Len(entries), returned = "no", UNCHANGED inputVars,
         \/ (Proper => Shown(n)) /\ res' = Append(res, PairOf(entries[n]))
         \/ (Proper => ~Shown(n)) /\ res' = res,
         Read' = 1 .. n
  PROVE  ListRight'
<1> SUFFICES ASSUME Proper PROVE InOrder(Listed)'
  BY InputsSame DEF ListRight
<1>1. n \in Nat \ {0} /\ Read = 1 .. n - 1 /\ res \in Seq(Pair)
  BY DEF ListInv, ListTypeOK, Read
<1>2. PICK S : S = Listed
  OBVIOUS
<1>3. S = {k \in 1 .. n - 1 : Shown(k)} /\ S \in SUBSET (1 .. n - 1)
  BY <1>1, <1>2 DEF Listed, Shown
<1>4. \A k : Shown(k)' <=> Shown(k)
  BY InputsSame DEF Shown, inputVars
<1>5. Listed' = {k \in 1 .. n : Shown(k)}
  <2>1. Listed' = {k \in Read' : Shown(k)'}
    BY DEF Listed, Shown
  <2> QED BY <1>4, <2>1
<1>6. /\ Len(res) = Cardinality(S)
      /\ \A k \in S : res[Cardinality({j \in S : j <= k})] = Meaning(k)
  BY <1>2 DEF ListInv, ListRight, InOrder
<1>7. \A k : Meaning(k)' = Meaning(k)
  BY InputsSame
<1>8. CASE Shown(n) /\ res' = Append(res, PairOf(entries[n]))
  <2>1. PICK T : T = S \cup {n}
    OBVIOUS
  <2>2. Listed' = T
    <3>1. \A k \in 1 .. n : k \in 1 .. n - 1 \/ k = n
      BY <1>1
    <3>2. n \in 1 .. n /\ \A k \in 1 .. n - 1 : k \in 1 .. n
      BY <1>1
    <3> QED BY <1>3, <1>5, <1>8, <2>1, <3>1, <3>2
  <2>3. /\ Cardinality(S) \in Nat /\ Cardinality(T) = Cardinality(S) + 1
        /\ Cardinality({j \in T : j <= n}) = Cardinality(S) + 1
        /\ \A k \in S : /\ Cardinality({j \in T : j <= k}) = Cardinality({j \in S : j <= k})
                        /\ Cardinality({j \in S : j <= k}) \in 1 .. Cardinality(S)
    <3>1. Places(S, S \cup {n}, n)
      BY <1>1, <1>3, PlaceOfMore
    <3> QED BY <2>1, <3>1 DEF Places
  <2>4. PairOf(entries[n]) \in Pair /\ PairOf(entries[n]) = Meaning(n)
    BY <1>8, EntryGives DEF Shown
  <2>5. /\ Len(res') = Len(res) + 1 /\ res'[Len(res) + 1] = Meaning(n)
        /\ \A i \in 1 .. Len(res) : res'[i] = res[i]
    BY <1>1, <1>8, <2>4
  <2>6. \A k \in T : res'[Cardinality({j \in T : j <= k})] = Meaning(k)
    <3> SUFFICES ASSUME NEW k \in T PROVE res'[Cardinality({j \in T : j <= k})] = Meaning(k)
      OBVIOUS
    <3>1. CASE k \in S
      BY <1>6, <2>3, <2>5, <3>1
    <3>2. CASE k = n
      BY <1>6, <2>3, <2>5, <3>2
    <3> QED BY <2>1, <3>1, <3>2
  <2> QED BY <1>6, <1>7, <2>2, <2>3, <2>5, <2>6 DEF InOrder
<1>9. CASE ~Shown(n) /\ res' = res
  <2>1. Listed' = S
    <3>1. \A k \in 1 .. n : k \in 1 .. n - 1 \/ k = n
      BY <1>1
    <3>2. \A k \in 1 .. n - 1 : k \in 1 .. n
      BY <1>1
    <3> QED BY <1>3, <1>5, <1>9, <3>1, <3>2
  <2> QED BY <1>6, <1>7, <1>9, <2>1 DEF InOrder
<1> QED BY <1>8, <1>9

LEMMA BaseStays ==
  ASSUME ListInv, UNCHANGED <<inputVars, next, base>>
  PROVE  BaseKept'
<1>1. UNCHANGED section
  BY DEF inputVars
<1>2. PICK n : n = next
  OBVIOUS
<1>3. (BaseSet(n)' <=> BaseSet(n)) /\ BaseBefore(n)' = BaseBefore(n) /\ (Proper' <=> Proper)
  BY InputsSame
<1>4. Proper => IF BaseSet(n) THEN base = BaseBefore(n) ELSE base = FirstBase(section)
  BY <1>2 DEF ListInv, BaseKept
<1>5. next' = n
  BY <1>2
<1> QED BY <1>1, <1>3, <1>4, <1>5 DEF BaseKept, BaseSet, BaseBefore, FirstBase

\* An entry that sets no base is passed.
LEMMA BasePassed ==
  ASSUME ListInv, UNCHANGED <<inputVars, base>>, next' = next + 1,
         Proper => ~IsBase(entries[next])
  PROVE  BaseKept'
<1>1. UNCHANGED section
  BY DEF inputVars
<1>2. PICK n : n = next
  OBVIOUS
<1>3. n \in Nat \ {0}
  BY <1>2 DEF ListInv, ListTypeOK
<1>4. PICK m : m = n + 1
  OBVIOUS
<1>5. next' = m /\ (Proper' <=> Proper) /\ (BaseSet(m)' <=> BaseSet(m)) /\ BaseBefore(m)' = BaseBefore(m)
  BY <1>2, <1>4, InputsSame
<1>6. ASSUME Proper PROVE (BaseSet(m) <=> BaseSet(n)) /\ BaseBefore(m) = BaseBefore(n)
  <2>1. \A j : j \in 1 .. m - 1 <=> j \in 1 .. n - 1 \/ j = n
    BY <1>3, <1>4
  <2>2. ~IsBase(entries[n])
    BY <1>2, <1>6
  <2>3. {j \in 1 .. m - 1 : IsBase(entries[j])} = {j \in 1 .. n - 1 : IsBase(entries[j])}
    BY <2>1, <2>2
  <2>4. BaseSet(m) <=> BaseSet(n)
    BY <2>1, <2>2 DEF BaseSet
  <2>5. BaseBefore(m) = BaseBefore(n)
    BY <2>3 DEF BaseBefore
  <2> QED BY <2>4, <2>5
<1>7. Proper => IF BaseSet(n) THEN base = BaseBefore(n) ELSE base = FirstBase(section)
  BY <1>2 DEF ListInv, BaseKept
<1> QED BY <1>1, <1>5, <1>6, <1>7 DEF BaseKept, BaseSet, BaseBefore, FirstBase

\* The list ends before an entry.
LEMMA ListEnds ==
  ASSUME ListInv, UNCHANGED inputVars, UNCHANGED <<next, base, res>>,
         Read' = Read, returned' \in {"no", "true", "false"}
  PROVE  ListInv'
<1>1. UNCHANGED <<section, entries, fits, unitBase, addr_base>>
  BY DEF inputVars
<1>2. ListTypeOK'
  BY <1>1 DEF ListInv, ListTypeOK
<1>3. BaseKept'
  BY BaseStays
<1>4. ListRight'
  <2>1. Listed' = Listed
    <3>1. \A k : Meaning(k)' = Meaning(k)
      BY InputsSame
    <3> QED BY <1>1, <3>1 DEF Listed
  <2>2. PICK S : S = Listed
    OBVIOUS
  <2>3. Proper => InOrder(S)
    BY <2>2 DEF ListInv, ListRight
  <2>4. (Proper' <=> Proper) /\ \A k : Meaning(k)' = Meaning(k)
    BY InputsSame
  <2> QED BY <2>1, <2>2, <2>3, <2>4 DEF ListRight, InOrder
<1> QED BY <1>2, <1>3, <1>4 DEF ListInv

LEMMA EndsKeep ==
  ASSUME ListInv, EndOfSection \/ EndOfList \/ UnknownTag \/ Cut
  PROVE  ListInv'
<1>1. UNCHANGED inputVars /\ UNCHANGED <<next, base, res>> /\ returned' \in {"true", "false"} /\ returned = "no"
  BY DEF EndOfSection, EndOfList, UnknownTag, Cut, Return, Reading
<1>2. next \in Nat /\ Len(entries) \in Nat /\ (next > Len(entries) \/ entries[next].kind \notin Addressing)
  <2>1. next \in Nat /\ Len(entries) \in Nat
    BY DEF ListInv, ListTypeOK
  <2> QED BY <2>1 DEF EndOfSection, EndOfList, UnknownTag, Cut, Here, Entry, Addressing
<1>3. Read' = Read
  BY <1>1, <1>2 DEF Read, inputVars
<1> QED BY <1>1, <1>3, ListEnds

\* What there is to read, and how much of it was read, when an entry is.
LEMMA AtEntry ==
  ASSUME ListInv, NEW s, Reading(s), UNCHANGED inputVars
  PROVE  /\ section \in s /\ returned = "no" /\ next <= Len(entries)
         /\ next \in Nat \ {0} /\ Len(entries) \in Nat /\ next \in 1 .. Len(entries)
         /\ UNCHANGED <<section, entries, fits, unitBase, addr_base>>
         /\ section \in Sections /\ entries[next] \in Entries(section)
         /\ Goon => Read' = 1 .. next /\ next' = next + 1 /\ returned' = "no"
                      /\ next' \in 1 .. Len(entries) + 1
<1>1. section \in s /\ returned = "no" /\ next <= Len(entries)
  BY DEF Reading
<1>2. next \in Nat \ {0} /\ Len(entries) \in Nat /\ next \in 1 .. Len(entries)
  BY <1>1 DEF ListInv, ListTypeOK
<1>3. UNCHANGED <<section, entries, fits, unitBase, addr_base>>
  BY DEF inputVars
<1>4. section \in Sections /\ entries[next] \in Entries(section)
  BY <1>2 DEF ListInv, ListTypeOK
<1>5. ASSUME Goon
      PROVE  /\ Read' = 1 .. next /\ next' = next + 1 /\ returned' = "no"
             /\ next' \in 1 .. Len(entries) + 1
  <2>1. next' = next + 1 /\ returned' = "no"
    BY <1>1, <1>5 DEF Goon
  <2>2. Read' = 1 .. next' - 1
    BY <2>1 DEF Read
  <2> QED BY <1>2, <2>1, <2>2
<1> QED BY <1>1, <1>2, <1>3, <1>4, <1>5

LEMMA SetBaseKeeps == ListInv /\ SetBase => ListInv'
<1> SUFFICES ASSUME ListInv, SetBase PROVE ListInv'
  OBVIOUS
<1>1. /\ Reading({"rnglists", "loclists"}) /\ UNCHANGED inputVars /\ res' = res /\ Goon
      /\ entries[next].kind \in {"base_address", "base_addressx"}
      /\ base' = IF entries[next].kind = "base_address" THEN entries[next].x ELSE Indexed(entries[next].x)
  BY DEF SetBase, Here, Entry
<1>2. PICK n, e : n = next /\ e = entries[next]
  OBVIOUS
<1>3. /\ section \in {"rnglists", "loclists"} /\ returned = "no" /\ n <= Len(entries)
      /\ n \in Nat \ {0} /\ Len(entries) \in Nat /\ n \in 1 .. Len(entries)
      /\ UNCHANGED <<section, entries, fits, unitBase, addr_base>>
      /\ section \in Sections /\ e \in Entries(section)
      /\ Read' = 1 .. n /\ next' = n + 1 /\ returned' = "no" /\ next' \in 1 .. Len(entries) + 1
  BY <1>1, <1>2, AtEntry
<1>4. e.x \in Nat /\ (e.kind = "base_addressx" => e \in IndexedEntries)
  BY <1>3, EntryKinds
<1>5. base' \in Nat
  <2>1. First \in Contributions \cup {NoBase} /\ addr_base \in Contributions \cup {NoBase}
    BY DEF ListInv, ListTypeOK, Contributions
  <2>2. Indexed(e.x) \in Nat
    BY <1>4, <2>1, AddressTyped DEF Indexed, FetchIndexedAddr, GetIndexedAddr
  <2> QED BY <1>1, <1>2, <1>4, <2>2
<1>6. ListTypeOK'
  BY <1>1, <1>3, <1>5 DEF ListInv, ListTypeOK
<1>7. ~Shown(n)
  BY <1>1, <1>2 DEF Shown, Addressing
<1>8. ListRight'
  BY <1>1, <1>2, <1>3, <1>7, EntryPassed
<1>9. BaseKept'
  <2> SUFFICES ASSUME Proper PROVE IF BaseSet(next)' THEN base' = BaseBefore(next)' ELSE base' = FirstBase(section)'
    BY <1>1, InputsSame DEF BaseKept
  <2>1. PICK m : m = n + 1
    OBVIOUS
  <2>2. next' = m /\ (BaseSet(m)' <=> BaseSet(m)) /\ BaseBefore(m)' = BaseBefore(m)
    BY <1>1, <1>3, <2>1, InputsSame
  <2>3. IsBase(entries[n])
    BY <1>1, <1>2 DEF IsBase
  <2>4. n \in 1 .. m - 1 /\ \A j \in 1 .. m - 1 : j \in Nat /\ j <= n
    BY <1>3, <2>1
  <2>5. BaseSet(m)
    BY <2>3, <2>4 DEF BaseSet
  <2>6. BaseBefore(m) = IF e.kind = "base_address" THEN e.x ELSE Meant(e.x)
    <3>1. PICK bases : bases = {j \in 1 .. m - 1 : IsBase(entries[j])}
      OBVIOUS
    <3>2. n \in bases /\ \A i \in bases : i <= n /\ i \in Nat
      BY <2>3, <2>4, <3>1
    <3>3. PICK j : j = LastOf(bases)
      OBVIOUS
    <3>4. j \in bases /\ \A i \in bases : i <= j
      BY <3>2, <3>3 DEF LastOf
    <3>5. j = n
      <4>1. j \in Nat /\ n \in Nat /\ j <= n /\ n <= j
        BY <3>2, <3>4
      <4> QED BY <4>1
    <3> QED BY <1>2, <3>1, <3>2, <3>3, <3>5 DEF BaseBefore
  <2>7. e.kind = "base_addressx" => Indexed(e.x) = Meant(e.x)
    <3>1. e.kind = "base_addressx" => HasIndices
      BY <1>2, <1>3, <1>4 DEF HasIndices, ListInv, ListTypeOK
    <3>2. IndicesKnown
      BY <1>3 DEF Proper
    <3> QED BY <1>3, <3>1, <3>2 DEF IndicesKnown, Indexed, FetchIndexedAddr, GetIndexedAddr, Meant
  <2>8. base' = BaseBefore(m)
    BY <1>1, <1>2, <2>6, <2>7
  <2> QED BY <2>2, <2>5, <2>8 DEF BaseSet, BaseBefore
<1> QED BY <1>6, <1>8, <1>9 DEF ListInv

LEMMA ReadRangeKeeps == ListInv /\ ReadRange => ListInv'
<1> SUFFICES ASSUME ListInv, ReadRange PROVE ListInv'
  OBVIOUS
<1>1. /\ Reading({"ranges", "rnglists"}) /\ UNCHANGED inputVars /\ base' = base /\ Goon
      /\ entries[next].kind \in Addressing
      /\ res' = IF section = "ranges" /\ entries[next].x = entries[next].y THEN res
                ELSE Append(res, PairOf(entries[next]))
  BY DEF ReadRange, Gives, Entry
<1>2. PICK n : n = next
  OBVIOUS
<1>3. /\ section \in {"ranges", "rnglists"} /\ returned = "no" /\ n <= Len(entries)
      /\ n \in Nat \ {0} /\ Len(entries) \in Nat
      /\ UNCHANGED <<section, entries, fits, unitBase, addr_base>>
      /\ Read' = 1 .. n /\ next' = n + 1 /\ returned' = "no" /\ next' \in 1 .. Len(entries) + 1
  BY <1>1, <1>2, AtEntry
<1>4. /\ PairOf(entries[n]) \in Pair
      /\ section = "ranges" /\ Proper => (IsEmptyRange(Meaning(n)) <=> entries[n].x = entries[n].y)
  BY <1>1, <1>2, <1>3, EntryGives
<1>5. ListTypeOK'
  <2>1. Append(res, PairOf(entries[n])) \in Seq(Pair)
    BY <1>4 DEF ListInv, ListTypeOK
  <2> QED BY <1>1, <1>2, <1>3, <2>1 DEF ListInv, ListTypeOK
<1>6. BaseKept'
  BY <1>1, <1>2, <1>3, BasePassed DEF IsBase, Addressing
<1>7. \/ (Proper => Shown(n)) /\ res' = Append(res, PairOf(entries[n]))
      \/ (Proper => ~Shown(n)) /\ res' = res
  BY <1>1, <1>2, <1>3, <1>4 DEF Shown
<1>8. ListRight'
  BY <1>1, <1>2, <1>3, <1>7, EntryPassed
<1> QED BY <1>5, <1>6, <1>8 DEF ListInv

LEMMA ReadLocationKeeps == ListInv /\ ReadLocation => ListInv'
<1> SUFFICES ASSUME ListInv, ReadLocation PROVE ListInv'
  OBVIOUS
<1>1. /\ Reading(Locations) /\ UNCHANGED inputVars /\ base' = base
      /\ entries[next].kind \in Addressing
      /\ res' = IF section = "loc" /\ next \notin fits THEN res ELSE Append(res, PairOf(entries[next]))
      /\ Goon \/ (next' = next /\ returned' \in {"true", "false"})
  BY DEF ReadLocation, Gives, Entry, Return
<1>2. PICK n : n = next
  OBVIOUS
<1>3. /\ section \in Locations /\ returned = "no" /\ n <= Len(entries)
      /\ n \in Nat \ {0} /\ Len(entries) \in Nat /\ n \in 1 .. Len(entries)
      /\ UNCHANGED <<section, entries, fits, unitBase, addr_base>>
      /\ Goon => Read' = 1 .. n /\ next' = n + 1 /\ returned' = "no" /\ next' \in 1 .. Len(entries) + 1
  BY <1>1, <1>2, AtEntry
<1>4. PairOf(entries[n]) \in Pair
  BY <1>1, <1>2, <1>3, EntryGives
<1>5. Read' = 1 .. n
  <2>1. CASE next' = next /\ returned' \in {"true", "false"}
    BY <1>1, <1>2, <1>3, <2>1 DEF Read
  <2> QED BY <1>1, <1>3, <2>1
<1>6. ListTypeOK'
  <2>1. Append(res, PairOf(entries[n])) \in Seq(Pair)
    BY <1>4 DEF ListInv, ListTypeOK
  <2>2. res' \in Seq(Pair)
    BY <1>1, <1>2, <2>1 DEF ListInv, ListTypeOK
  <2> QED BY <1>1, <1>2, <1>3, <2>2 DEF ListInv, ListTypeOK
<1>7. BaseKept'
  <2>1. CASE Goon
    BY <1>1, <1>2, <1>3, <2>1, BasePassed DEF IsBase, Addressing
  <2>2. CASE next' = next
    BY <1>1, <2>2, BaseStays
  <2> QED BY <1>1, <2>1, <2>2
<1>8. \/ (Proper => Shown(n)) /\ res' = Append(res, PairOf(entries[n]))
      \/ (Proper => ~Shown(n)) /\ res' = res
  BY <1>1, <1>2, <1>3 DEF Shown, Locations
<1>9. ListRight'
  BY <1>1, <1>2, <1>3, <1>5, <1>8, EntryPassed
<1> QED BY <1>6, <1>7, <1>9 DEF ListInv

\* Nothing is said of lists with a base in the older sections.
LEMMA BaseAsPairKeeps == ListInv /\ ReadBaseAsPair => ListInv'
<1> SUFFICES ASSUME ListInv, ReadBaseAsPair PROVE ListInv'
  OBVIOUS
<1>1. /\ Reading({"ranges", "loc"}) /\ UNCHANGED inputVars /\ base' = base /\ Goon
      /\ entries[next].kind = "base_address"
      /\ res' = Append(res, <<base - 1, base + entries[next].x>>)
  BY DEF ReadBaseAsPair, Here, Entry
<1>2. PICK n : n = next
  OBVIOUS
<1>3. /\ section \in {"ranges", "loc"} /\ n \in 1 .. Len(entries) /\ Len(entries) \in Nat
      /\ UNCHANGED <<section, entries, fits, unitBase, addr_base>>
      /\ section \in Sections /\ entries[n] \in Entries(section)
      /\ next' = n + 1 /\ returned' = "no" /\ next' \in 1 .. Len(entries) + 1
  BY <1>1, <1>2, AtEntry
<1>4. ~Proper
  BY <1>1, <1>2, <1>3 DEF Proper, NoBaseEntry, IsBase, ListInv, ListTypeOK
<1>5. ~Proper'
  BY <1>1, <1>4, InputsSame
<1>6. ListTypeOK'
  <2>1. entries[n].x \in Nat /\ base \in Nat /\ res \in Seq(Pair)
    BY <1>3, EntryKinds DEF ListInv, ListTypeOK
  <2>2. <<base - 1, base + entries[n].x>> \in Pair
    BY <2>1 DEF Pair
  <2>3. res' \in Seq(Pair)
    BY <1>1, <1>2, <2>1, <2>2
  <2> QED BY <1>1, <1>3, <2>3 DEF ListInv, ListTypeOK
<1> QED BY <1>5, <1>6 DEF ListInv, BaseKept, ListRight

LEMMA ListStarts == ListInit => ListInv
<1> SUFFICES ASSUME ListInit PROVE ListInv
  OBVIOUS
<1>1. entries \in Seq(Entries(section)) /\ Len(entries) \in Nat /\ DOMAIN entries = 1 .. Len(entries)
  <2>1. PICK k \in 0 .. MaxEntries : entries \in [1 .. k -> Entries(section)]
    BY DEF ListInit
  <2>2. k \in Nat
    BY MaxEntriesAssumption
  <2>3. entries \in Seq(Entries(section))
    BY <2>1, <2>2, SeqDef
  <2> QED BY <2>3
<1>2. ListTypeOK
  <2>1. /\ section \in Sections /\ next = 1 /\ res = <<>> /\ returned = "no" /\ base = FirstBase(section)
        /\ unitBase \in UnitBases /\ addr_base \in Contributions \cup {NoBase}
        /\ fits \subseteq DOMAIN entries
    BY DEF ListInit
  <2>2. unitBase \in Nat /\ base \in Nat
    BY <2>1, UnitBasesAssumption DEF FirstBase
  <2>3. <<>> \in Seq(Pair) /\ 1 \in 1 .. Len(entries) + 1
    BY <1>1
  <2> QED BY <1>1, <2>1, <2>2, <2>3 DEF ListTypeOK
<1>3. next = 1 /\ base = FirstBase(section) /\ returned = "no" /\ res = <<>>
  BY DEF ListInit
<1>4. BaseKept
  BY <1>3 DEF BaseKept, BaseSet
<1>5. Listed = {}
  BY <1>3 DEF Listed, Read
<1>6. ListRight
  <2>1. Len(res) = 0 /\ Cardinality({}) = 0
    BY <1>3, FS_EmptySet
  <2> QED BY <1>5, <2>1 DEF ListRight, InOrder
<1> QED BY <1>2, <1>4, <1>6 DEF ListInv

LEMMA ListKept == ListInv /\ [ListNext]_listVars => ListInv'
<1> SUFFICES ASSUME ListInv, [ListNext]_listVars PROVE ListInv'
  OBVIOUS
<1>1. CASE UNCHANGED listVars
  <2>1. UNCHANGED inputVars /\ UNCHANGED <<next, base, res>> /\ UNCHANGED returned
    BY <1>1 DEF listVars
  <2>2. Read' = Read /\ returned' \in {"no", "true", "false"}
    BY <2>1 DEF Read, inputVars, ListInv, ListTypeOK
  <2> QED BY <2>1, <2>2, ListEnds
<1>2. CASE EndOfSection \/ EndOfList \/ UnknownTag \/ Cut
  BY <1>2, EndsKeep
<1> QED BY <1>1, <1>2, SetBaseKeeps, ReadRangeKeeps, ReadLocationKeeps, BaseAsPairKeeps DEF ListNext

\* Ranges and locations are those their list gives, for lists of any length and
\* entries of any addresses (ElfFile::get_rnglistx, get_old_range, get_loclistx,
\* get_loc), as far as ListsMeant says the reader has what it takes.
THEOREM ListsCorrect == ListSpec => []ListsMeant
<1>1. ListSpec => []ListInv
  BY ListStarts, ListKept, PTL DEF ListSpec
<1>2. ListInv => ListsMeant
  BY DEF ListInv, ListRight, Proper, IndicesKnown, ListsMeant, RangesMeant, LocationsMeant
<1> QED BY <1>1, <1>2, PTL

-----------------------------------------------------------------------------
(***************************************************************************)
(* LocExprs: where the operations are in the data.                         *)
(***************************************************************************)
LEMMA LeastNumber ==
  ASSUME NEW T \in SUBSET Nat, T # {} PROVE \E x \in T : \A y \in T : x <= y
<1>1. PICK R : IsWellFoundedOn(R, Nat) /\ R = {p \in Nat \X Nat : p[1] < p[2]}
  <2>1. OpToRel(<, Nat) = {p \in Nat \X Nat : p[1] < p[2]}
    BY DEF OpToRel
  <2> QED BY <2>1, NatLessThanWellFounded
<1>2. PICK x \in T : \A y \in T : ~(<<y, x>> \in R)
  BY <1>1, WFMin
<1>3. ASSUME NEW y \in T PROVE x <= y
  <2>1. <<y, x>> \notin R
    BY <1>2
  <2>2. <<y, x>> \in Nat \X Nat => ~(y < x)
    BY <1>1, <2>1
  <2> QED BY <2>2
<1> QED BY <1>3

\* What FlattenSeq makes of the first n sequences is f[n].
Joins(f, s, n) ==
  \A i \in 1 .. n : f[i] = IF i = 1 THEN s[1] ELSE f[i - 1] \o s[i]

LEMMA JoinsTyped ==
  ASSUME NEW S, NEW s, NEW m \in Nat, \A i \in 1 .. m : s[i] \in Seq(S), NEW f, Joins(f, s, m),
         NEW n \in 1 .. m
  PROVE  f[n] \in Seq(S)
<1> DEFINE T == {i \in 1 .. m : f[i] \notin Seq(S)}
<1>1. T = {}
  <2> SUFFICES ASSUME T # {} PROVE FALSE
    OBVIOUS
  <2>0. T \in SUBSET Nat
    OBVIOUS
  <2>1. PICK i \in T : \A j \in T : i <= j
    BY <2>0, LeastNumber
  <2>2. CASE i = 1
    BY <2>1, <2>2 DEF Joins
  <2>3. CASE i # 1
    <3>1. i - 1 \in 1 .. m /\ ~(i <= i - 1)
      BY <2>3
    <3>2. f[i - 1] \in Seq(S) /\ s[i] \in Seq(S)
      BY <2>1, <3>1
    <3>3. f[i] = f[i - 1] \o s[i]
      BY <2>3 DEF Joins
    <3>4. f[i - 1] \o s[i] \in Seq(S)
      BY <3>2, ConcatProperties
    <3> QED BY <2>1, <3>3, <3>4
  <2> QED BY <2>2, <2>3
<1> QED BY <1>1

LEMMA JoinExists ==
  ASSUME NEW s, NEW m \in Nat \ {0}
  PROVE  \E f : f = [i \in 1 .. m |-> IF i = 1 THEN s[1] ELSE f[i - 1] \o s[i]]
<1> DEFINE Solves(f, n) == DOMAIN f = 1 .. n /\ f = [i \in 1 .. n |-> f[i]] /\ Joins(f, s, n)
           T == {n \in 1 .. m : ~ \E f : Solves(f, n)}
<1>1. T = {}
  <2> SUFFICES ASSUME T # {} PROVE FALSE
    OBVIOUS
  <2>0. T \in SUBSET Nat
    OBVIOUS
  <2>1. PICK n \in T : \A k \in T : n <= k
    BY <2>0, LeastNumber
  <2>2. CASE n = 1
    <3> DEFINE f == [i \in 1 .. 1 |-> s[1]]
    <3>1. Solves(f, 1)
      BY DEF Joins
    <3> QED BY <2>1, <2>2, <3>1
  <2>3. CASE n # 1
    <3>1. n - 1 \in 1 .. m /\ ~(n <= n - 1)
      BY <2>3
    <3>2. PICK f : Solves(f, n - 1)
      BY <2>1, <3>1
    <3> DEFINE g == [i \in 1 .. n |-> IF i = n THEN f[n - 1] \o s[n] ELSE f[i]]
    <3>3. ASSUME NEW i \in 1 .. n PROVE g[i] = IF i = 1 THEN s[1] ELSE g[i - 1] \o s[i]
      <4>1. CASE i = n
        <5>1. i - 1 \in 1 .. n /\ i - 1 # n
          BY <2>3, <4>1
        <5>2. g[i - 1] = f[i - 1] /\ g[i] = f[n - 1] \o s[n]
          BY <4>1, <5>1
        <5> QED BY <2>3, <4>1, <5>2
      <4>2. CASE i # n
        <5>1. i \in 1 .. n - 1 /\ g[i] = f[i]
          BY <4>2
        <5>2. i # 1 => i - 1 \in 1 .. n - 1 /\ g[i - 1] = f[i - 1]
          BY <5>1
        <5> QED BY <3>2, <5>1, <5>2 DEF Joins
      <4> QED BY <4>1, <4>2
    <3>4. Solves(g, n)
      BY <3>3 DEF Joins
    <3> QED BY <2>1, <3>4
  <2> QED BY <2>2, <2>3
<1>2. PICK f : Solves(f, m)
  BY <1>1
<1>3. f = [i \in 1 .. m |-> IF i = 1 THEN s[1] ELSE f[i - 1] \o s[i]]
  BY <1>2 DEF Joins
<1> QED BY <1>3

LEMMA FlattenJoins ==
  ASSUME NEW S, NEW s \in Seq(Seq(S)), s # <<>>
  PROVE  \E f : Joins(f, s, Len(s)) /\ FlattenSeq(s) = f[Len(s)]
<1> DEFINE FitsAll(f) == f = [i \in 1 .. Len(s) |-> IF i = 1 THEN s[i] ELSE f[i - 1] \o s[i]]
           f == CHOOSE g : FitsAll(g)
<1>1. Len(s) \in Nat \ {0}
  BY EmptySeq
<1>2. FlattenSeq(s) = f[Len(s)]
  BY <1>1 DEF FlattenSeq
<1>3. \E g : FitsAll(g)
  <2>1. PICK g : g = [i \in 1 .. Len(s) |-> IF i = 1 THEN s[1] ELSE g[i - 1] \o s[i]]
    BY <1>1, JoinExists
  <2>2. FitsAll(g)
    BY <2>1
  <2> QED BY <2>2
<1>4. FitsAll(f)
  BY <1>3
<1> HIDE DEF f
<1>5. Joins(f, s, Len(s))
  BY <1>4 DEF Joins
<1> QED BY <1>2, <1>5

LEMMA FlattenFew ==
  ASSUME NEW S
  PROVE  /\ FlattenSeq(<<>>) = <<>>
         /\ \A a \in Seq(S) : FlattenSeq(<<a>>) = a
         /\ \A a, b \in Seq(S) : FlattenSeq(<<a, b>>) = a \o b
<1>1. FlattenSeq(<<>>) = <<>>
  BY DEF FlattenSeq
<1>2. ASSUME NEW a \in Seq(S) PROVE FlattenSeq(<<a>>) = a
  <2>1. <<a>> \in Seq(Seq(S)) /\ <<a>> # <<>> /\ Len(<<a>>) = 1
    OBVIOUS
  <2>2. PICK f : Joins(f, <<a>>, 1) /\ FlattenSeq(<<a>>) = f[1]
    BY <2>1, FlattenJoins
  <2> QED BY <2>2 DEF Joins
<1>3. ASSUME NEW a \in Seq(S), NEW b \in Seq(S) PROVE FlattenSeq(<<a, b>>) = a \o b
  <2>1. <<a, b>> \in Seq(Seq(S)) /\ <<a, b>> # <<>> /\ Len(<<a, b>>) = 2
    OBVIOUS
  <2>2. PICK f : Joins(f, <<a, b>>, 2) /\ FlattenSeq(<<a, b>>) = f[2]
    BY <2>1, FlattenJoins
  <2>3. f[2] = f[1] \o b /\ f[1] = a
    BY <2>2 DEF Joins
  <2> QED BY <2>2, <2>3
<1> QED BY <1>1, <1>2, <1>3

-----------------------------------------------------------------------------
(***************************************************************************)
(* The cells of one operation.                                             *)
(***************************************************************************)
ByteValues == 0 .. 255
OpNames == {o.op : o \in Operations}
Contents == OpNames \cup ByteValues \cup Seq(ByteValues)
Cells == [is : {"op", "byte", "number"}, v : Contents]

LEMMA NumbersTyped ==
  ASSUME NEW w \in Nat
  PROVE  /\ Positive(w) \in Seq(ByteValues) /\ Len(Positive(w)) = w
         /\ Negative(w) \in Seq(ByteValues) /\ Len(Negative(w)) = w
         /\ Zero(w) \in Seq(ByteValues) /\ Len(Zero(w)) = w
<1>1. ASSUME NEW f \in [1 .. w -> ByteValues] PROVE f \in Seq(ByteValues) /\ Len(f) = w
  OBVIOUS
<1>2. Positive(w) \in [1 .. w -> ByteValues]
  BY DEF Positive, ByteValues
<1>3. Negative(w) \in [1 .. w -> ByteValues]
  BY DEF Negative, ByteValues
<1>4. Zero(w) \in [1 .. w -> ByteValues]
  BY DEF Zero, ByteValues
<1> QED BY <1>1, <1>2, <1>3, <1>4

LEMMA OrderedTwice ==
  ASSUME NEW S, NEW v \in Seq(S), NEW b
  PROVE  /\ Ordered(v, b) \in Seq(S) /\ Len(Ordered(v, b)) = Len(v)
         /\ Ordered(Ordered(v, b), b) = v
<1>1. Reverse(v) \in Seq(S) /\ Len(Reverse(v)) = Len(v) /\ Reverse(Reverse(v)) = v
  BY DEF Reverse
<1> QED BY <1>1 DEF Ordered

LEMMA ArgCellsTyped ==
  ASSUME NEW v \in Seq(ByteValues), NEW b
  PROVE  /\ ArgCells(Leb(v), b) = <<Leb(v)>> /\ <<Leb(v)>> \in Seq(Cells)
         /\ ArgCells(Fixed(v), b) \in Seq(Cells) /\ Len(ArgCells(Fixed(v), b)) = Len(v)
         /\ \A k \in 1 .. Len(v) : ArgCells(Fixed(v), b)[k] = [is |-> "byte", v |-> Ordered(v, b)[k]]
<1>1. Leb(v) \in Cells /\ Leb(v).is = "number" /\ Fixed(v).is = "bytes" /\ Fixed(v).v = v
  BY DEF Leb, Fixed, Cells, Contents
<1>2. Ordered(v, b) \in Seq(ByteValues) /\ Len(Ordered(v, b)) = Len(v)
  BY OrderedTwice
<1>3. \A k \in 1 .. Len(v) : [is |-> "byte", v |-> Ordered(v, b)[k]] \in Cells
  <2>1. \A k \in 1 .. Len(v) : Ordered(v, b)[k] \in Contents
    BY <1>2 DEF Contents
  <2> QED BY <2>1 DEF Cells
<1>4. ArgCells(Fixed(v), b) = [k \in 1 .. Len(v) |-> [is |-> "byte", v |-> Ordered(v, b)[k]]]
  BY <1>1 DEF ArgCells
<1>5. ArgCells(Leb(v), b) = <<Leb(v)>>
  BY <1>1 DEF ArgCells
<1> QED BY <1>1, <1>3, <1>4, <1>5

LEMMA OpCell == ASSUME NEW o \in Operations PROVE <<[is |-> "op", v |-> o.op]>> \in Seq(Cells)
<1>1. [is |-> "op", v |-> o.op] \in Cells
  BY DEF Cells, Contents, OpNames
<1> QED BY <1>1

\* The cells are those of the operation with those of one or two arguments behind it.
LEMMA CellsBehindOp ==
  ASSUME NEW o \in Operations, NEW b
  PROVE  /\ o.args = <<>> => OpCells(o, b) = <<[is |-> "op", v |-> o.op]>>
         /\ \A x : o.args = <<x>> /\ ArgCells(x, b) \in Seq(Cells)
                     => OpCells(o, b) = <<[is |-> "op", v |-> o.op]>> \o ArgCells(x, b)
         /\ \A x, y : o.args = <<x, y>> /\ ArgCells(x, b) \in Seq(Cells) /\ ArgCells(y, b) \in Seq(Cells)
                     => OpCells(o, b) = <<[is |-> "op", v |-> o.op]>> \o (ArgCells(x, b) \o ArgCells(y, b))
<1> DEFINE c == <<[is |-> "op", v |-> o.op]>>
           f == [i \in DOMAIN o.args |-> ArgCells(o.args[i], b)]
<1>1. c \in Seq(Cells) /\ OpCells(o, b) = c \o FlattenSeq(f)
  BY OpCell DEF OpCells
<1>2. ASSUME o.args = <<>> PROVE OpCells(o, b) = c
  <2>1. f = <<>>
    BY <1>2
  <2>2. c \o <<>> = c
    BY <1>1
  <2> QED BY <1>1, <2>1, <2>2, FlattenFew
<1>3. ASSUME NEW x, o.args = <<x>>, ArgCells(x, b) \in Seq(Cells)
      PROVE  OpCells(o, b) = c \o ArgCells(x, b)
  <2>1. f = <<ArgCells(x, b)>>
    BY <1>3
  <2> QED BY <1>1, <1>3, <2>1, FlattenFew
<1>4. ASSUME NEW x, NEW y, o.args = <<x, y>>, ArgCells(x, b) \in Seq(Cells), ArgCells(y, b) \in Seq(Cells)
      PROVE  OpCells(o, b) = c \o (ArgCells(x, b) \o ArgCells(y, b))
  <2>1. f = <<ArgCells(x, b), ArgCells(y, b)>>
    BY <1>4
  <2> QED BY <1>1, <1>4, <2>1, FlattenFew
<1> QED BY <1>2, <1>3, <1>4

\* What the cells of an operation look like, for each form of its arguments.
OpFirst(o, c) == c \in Seq(Cells) /\ c # <<>> /\ c[1] = [is |-> "op", v |-> o.op]
BytesAt(c, k, v, b) == \A i \in 1 .. Len(v) : c[k + i] = [is |-> "byte", v |-> Ordered(v, b)[i]]

\* An operation with two operands as the cells c.
OpLaidOut(o, b, v, u, c) ==
  /\ o.args = <<>> => OpFirst(o, c) /\ Len(c) = 1
  /\ o.args = <<Fixed(v)>> => OpFirst(o, c) /\ Len(c) = 1 + Len(v) /\ BytesAt(c, 1, v, b)
  /\ o.args = <<Leb(v)>> => OpFirst(o, c) /\ Len(c) = 2 /\ c[2] = Leb(v)
  /\ o.args = <<Leb(v), Leb(u)>> => OpFirst(o, c) /\ Len(c) = 3 /\ c[2] = Leb(v) /\ c[3] = Leb(u)
  /\ o.args = <<Leb(v), Fixed(u)>> =>
         OpFirst(o, c) /\ Len(c) = 2 + Len(u) /\ c[2] = Leb(v) /\ BytesAt(c, 2, u, b)
  /\ o.args = <<Fixed(v), Leb(u)>> =>
         /\ OpFirst(o, c) /\ Len(c) = 2 + Len(v) /\ BytesAt(c, 1, v, b)
         /\ c[2 + Len(v)] = Leb(u)

LEMMA CellsOfOp ==
  ASSUME NEW o \in Operations, NEW b, NEW v \in Seq(ByteValues), NEW u \in Seq(ByteValues)
  PROVE  OpLaidOut(o, b, v, u, OpCells(o, b))
<1> SUFFICES ASSUME NEW c, c = OpCells(o, b) PROVE OpLaidOut(o, b, v, u, c)
  OBVIOUS
<1> USE DEF OpLaidOut
<1> DEFINE h == [is |-> "op", v |-> o.op]
<1>1. <<h>> \in Seq(Cells)
  BY OpCell
<1>2. PICK fv, fu : /\ fv = ArgCells(Fixed(v), b) /\ fu = ArgCells(Fixed(u), b)
                    /\ fv \in Seq(Cells) /\ Len(fv) = Len(v) /\ fu \in Seq(Cells) /\ Len(fu) = Len(u)
                    /\ \A k \in 1 .. Len(v) : fv[k] = [is |-> "byte", v |-> Ordered(v, b)[k]]
                    /\ \A k \in 1 .. Len(u) : fu[k] = [is |-> "byte", v |-> Ordered(u, b)[k]]
  BY ArgCellsTyped
<1>3. PICK lv, lu : /\ lv = Leb(v) /\ lu = Leb(u) /\ lv \in Cells /\ lu \in Cells
                    /\ ArgCells(Leb(v), b) = <<lv>> /\ ArgCells(Leb(u), b) = <<lu>>
  <2>1. Leb(v) \in Cells /\ Leb(u) \in Cells
    BY DEF Leb, Cells, Contents
  <2> QED BY <2>1, ArgCellsTyped
<1>4. PICK d \in Cells : d = h
  BY DEF Cells, Contents, OpNames
<1>5. <<lv>> \in Seq(Cells) /\ <<lu>> \in Seq(Cells)
  BY <1>3
<1>6. /\ o.args = <<>> => c = <<d>>
      /\ \A x : o.args = <<x>> /\ ArgCells(x, b) \in Seq(Cells) => c = <<d>> \o ArgCells(x, b)
      /\ \A x, y : o.args = <<x, y>> /\ ArgCells(x, b) \in Seq(Cells) /\ ArgCells(y, b) \in Seq(Cells)
                  => c = <<d>> \o (ArgCells(x, b) \o ArgCells(y, b))
  <2>1. /\ o.args = <<>> => c = <<h>>
        /\ \A x : o.args = <<x>> /\ ArgCells(x, b) \in Seq(Cells) => c = <<h>> \o ArgCells(x, b)
        /\ \A x, y : o.args = <<x, y>> /\ ArgCells(x, b) \in Seq(Cells) /\ ArgCells(y, b) \in Seq(Cells)
                    => c = <<h>> \o (ArgCells(x, b) \o ArgCells(y, b))
    BY CellsBehindOp
  <2> HIDE DEF h
  <2> QED BY <1>4, <2>1
<1>7. c \in Seq(Cells) /\ c # <<>> /\ c[1] = d => OpFirst(o, c)
  BY <1>4 DEF OpFirst
<1>8. /\ \A k : (\A i \in 1 .. Len(v) : c[k + i] = fv[i]) => BytesAt(c, k, v, b)
      /\ \A k : (\A i \in 1 .. Len(u) : c[k + i] = fu[i]) => BytesAt(c, k, u, b)
  BY <1>2 DEF BytesAt
<1> HIDE DEF h
<1>9. ASSUME o.args = <<>> PROVE OpFirst(o, c) /\ Len(c) = 1
  <2>1. c = <<d>>
    BY <1>6, <1>9
  <2> QED BY <1>4, <1>7, <2>1
<1>10. ASSUME o.args = <<Fixed(v)>> PROVE OpFirst(o, c) /\ Len(c) = 1 + Len(v) /\ BytesAt(c, 1, v, b)
  <2>1. c = <<d>> \o fv
    BY <1>2, <1>6, <1>10
  <2>2. c \in Seq(Cells) /\ Len(c) = 1 + Len(fv) /\ c[1] = d /\ \A i \in 1 .. Len(fv) : c[1 + i] = fv[i]
    BY <1>2, <1>4, <2>1
  <2>3. c # <<>>
    BY <1>2, <2>2
  <2> QED BY <1>2, <1>7, <1>8, <2>2, <2>3
<1>11. ASSUME o.args = <<Leb(v)>> PROVE OpFirst(o, c) /\ Len(c) = 2 /\ c[2] = Leb(v)
  <2>1. c = <<d>> \o <<lv>>
    BY <1>3, <1>5, <1>6, <1>11
  <2> QED BY <1>3, <1>4, <1>7, <2>1
<1>12. ASSUME o.args = <<Leb(v), Leb(u)>>
       PROVE  OpFirst(o, c) /\ Len(c) = 3 /\ c[2] = Leb(v) /\ c[3] = Leb(u)
  <2>1. c = <<d>> \o (<<lv>> \o <<lu>>)
    BY <1>3, <1>5, <1>6, <1>12
  <2> QED BY <1>3, <1>4, <1>7, <2>1
<1>13. ASSUME o.args = <<Leb(v), Fixed(u)>>
       PROVE  OpFirst(o, c) /\ Len(c) = 2 + Len(u) /\ c[2] = Leb(v) /\ BytesAt(c, 2, u, b)
  <2>1. c = <<d>> \o (<<lv>> \o fu)
    BY <1>2, <1>3, <1>5, <1>6, <1>13
  <2>2. /\ c \in Seq(Cells) /\ Len(c) = 2 + Len(fu) /\ c[1] = d /\ c[2] = lv
        /\ \A i \in 1 .. Len(fu) : c[2 + i] = fu[i]
    BY <1>2, <1>3, <1>4, <2>1
  <2>3. c # <<>>
    BY <1>2, <2>2
  <2> QED BY <1>2, <1>3, <1>7, <1>8, <2>2, <2>3
<1>14. ASSUME o.args = <<Fixed(v), Leb(u)>>
       PROVE  /\ OpFirst(o, c) /\ Len(c) = 2 + Len(v) /\ BytesAt(c, 1, v, b)
              /\ c[2 + Len(v)] = Leb(u)
  <2>1. c = <<d>> \o (fv \o <<lu>>)
    BY <1>2, <1>3, <1>5, <1>6, <1>14
  <2>2. /\ c \in Seq(Cells) /\ Len(c) = 2 + Len(fv) /\ c[1] = d /\ c[2 + Len(fv)] = lu
        /\ \A i \in 1 .. Len(fv) : c[1 + i] = fv[i]
    BY <1>2, <1>3, <1>4, <2>1
  <2>3. c # <<>>
    BY <1>2, <2>2
  <2> QED BY <1>2, <1>3, <1>7, <1>8, <2>2, <2>3
<1> QED BY <1>9, <1>10, <1>11, <1>12, <1>13, <1>14

-----------------------------------------------------------------------------
(***************************************************************************)
(* The operations, and how each is written.                                *)
(***************************************************************************)
LEMMA ConstOps ==
  /\ FixedConsts = {"const1u", "const1s", "const2u", "const2s", "const4u", "const4s", "const8u", "const8s"}
  /\ \A op \in FixedConsts : Widths[op] \in {1, 2, 4, 8}
  /\ \A op \in FixedConsts : Widths[op] = 8 <=> op \in {"const8u", "const8s"}
  /\ Widths["const2s"] = 2
BY DEF FixedConsts, Widths

NoArgs == Plain \cup {"form_tls_address", "GNU_push_tls_address", "unknown"}
LebPositive == {"constu", "plus_uconst", "convert", "regx", "piece", "addrx"}
LebNegative == {"consts", "breg", "fbreg"}

HasForm(o) ==
  /\ o.op \in NoArgs \cup FixedConsts \cup LebPositive \cup LebNegative
              \cup {"bregx", "regval_type", "deref_size", "deref_type", "addr", "implicit_value"}
  /\ o.op \in NoArgs => o.args = <<>>
  /\ o.op \in FixedConsts =>
       \/ o.args = <<Fixed(Negative(Widths[o.op]))>>
       \/ o.op \in SignedOps /\ o.args = <<Fixed(Positive(Widths[o.op]))>>
  /\ o.op \in LebPositive => o.args = <<Leb(Positive(8))>>
  /\ o.op \in LebNegative => o.args = <<Leb(Negative(8))>>
  /\ o.op = "bregx" => o.args = <<Leb(Positive(8)), Leb(Negative(8))>>
  /\ o.op = "regval_type" => o.args = <<Leb(Positive(8)), Leb(Zero(8))>>
  /\ o.op = "deref_size" => o.args = <<Fixed(<<1>>)>>
  /\ o.op = "deref_type" => o.args = <<Fixed(<<1>>), Leb(Zero(8))>>
  /\ o.op = "addr" => o.args = <<Fixed(Positive(address_size_))>>
  /\ o.op = "implicit_value" =>
       \E v \in ImplicitValues : o.args = <<Leb([Zero(8) EXCEPT ![1] = Len(v)]), Fixed(v)>>

LEMMA Forms == ASSUME NEW o \in Operations PROVE HasForm(o)
<1> DEFINE Is(op, args) == o.op = op /\ o.args = args
<1>1. \/ \E op \in NoArgs : Is(op, <<>>)
      \/ \E op \in FixedConsts : Is(op, <<Fixed(Negative(Widths[op]))>>)
      \/ \E op \in FixedConsts \cap SignedOps : Is(op, <<Fixed(Positive(Widths[op]))>>)
      \/ \E op \in LebPositive : Is(op, <<Leb(Positive(8))>>)
      \/ \E op \in LebNegative : Is(op, <<Leb(Negative(8))>>)
      \/ Is("bregx", <<Leb(Positive(8)), Leb(Negative(8))>>)
      \/ Is("regval_type", <<Leb(Positive(8)), Leb(Zero(8))>>)
      \/ Is("deref_size", <<Fixed(<<1>>)>>)
      \/ Is("deref_type", <<Fixed(<<1>>), Leb(Zero(8))>>)
      \/ Is("addr", <<Fixed(Positive(address_size_))>>)
      \/ \E v \in ImplicitValues : Is("implicit_value", <<Leb([Zero(8) EXCEPT ![1] = Len(v)]), Fixed(v)>>)
  <2>1. \A op, args : o = OneOp(op, args) => Is(op, args)
    BY DEF OneOp
  <2>2. \/ \E op \in NoArgs : o = OneOp(op, <<>>)
        \/ \E op \in FixedConsts : o = OneOp(op, <<Fixed(Negative(Widths[op]))>>)
        \/ \E op \in FixedConsts \cap SignedOps : o = OneOp(op, <<Fixed(Positive(Widths[op]))>>)
        \/ \E op \in LebPositive : o = OneOp(op, <<Leb(Positive(8))>>)
        \/ \E op \in LebNegative : o = OneOp(op, <<Leb(Negative(8))>>)
        \/ o = OneOp("bregx", <<Leb(Positive(8)), Leb(Negative(8))>>)
        \/ o = OneOp("regval_type", <<Leb(Positive(8)), Leb(Zero(8))>>)
        \/ o = OneOp("deref_size", <<Fixed(<<1>>)>>)
        \/ o = OneOp("deref_type", <<Fixed(<<1>>), Leb(Zero(8))>>)
        \/ o = OneOp("addr", <<Fixed(Positive(address_size_))>>)
        \/ \E v \in ImplicitValues :
             o = OneOp("implicit_value", <<Leb([Zero(8) EXCEPT ![1] = Len(v)]), Fixed(v)>>)
    BY DEF Operations, NoArgs, LebPositive, LebNegative
  <2> HIDE DEF Is
  <2> QED BY <2>1, <2>2
<1>2. /\ NoArgs = {"lit", "exp", "reg", "call_frame_cfa", "form_tls_address", "GNU_push_tls_address", "unknown"}
      /\ LebPositive = {"constu", "plus_uconst", "convert", "regx", "piece", "addrx"}
      /\ LebNegative = {"consts", "breg", "fbreg"}
  BY DEF NoArgs, Plain, LebPositive, LebNegative
<1>3. CASE \E op \in NoArgs : Is(op, <<>>)
  BY <1>2, <1>3, ConstOps DEF HasForm
<1>4. CASE \E op \in FixedConsts : Is(op, <<Fixed(Negative(Widths[op]))>>)
  BY <1>2, <1>4, ConstOps DEF HasForm
<1>5. CASE \E op \in FixedConsts \cap SignedOps : Is(op, <<Fixed(Positive(Widths[op]))>>)
  BY <1>2, <1>5, ConstOps DEF HasForm
<1>6. CASE \E op \in LebPositive : Is(op, <<Leb(Positive(8))>>)
  BY <1>2, <1>6, ConstOps DEF HasForm
<1>7. CASE \E op \in LebNegative : Is(op, <<Leb(Negative(8))>>)
  BY <1>2, <1>7, ConstOps DEF HasForm
<1>8. CASE Is("bregx", <<Leb(Positive(8)), Leb(Negative(8))>>)
  BY <1>2, <1>8, ConstOps DEF HasForm
<1>9. CASE Is("regval_type", <<Leb(Positive(8)), Leb(Zero(8))>>)
  BY <1>2, <1>9, ConstOps DEF HasForm
<1>10. CASE Is("deref_size", <<Fixed(<<1>>)>>)
  BY <1>2, <1>10, ConstOps DEF HasForm
<1>11. CASE Is("deref_type", <<Fixed(<<1>>), Leb(Zero(8))>>)
  BY <1>2, <1>11, ConstOps DEF HasForm
<1>12. CASE Is("addr", <<Fixed(Positive(address_size_))>>)
  BY <1>2, <1>12, ConstOps DEF HasForm
<1>13. CASE \E v \in ImplicitValues : Is("implicit_value", <<Leb([Zero(8) EXCEPT ![1] = Len(v)]), Fixed(v)>>)
  BY <1>2, <1>13, ConstOps DEF HasForm
<1> QED BY <1>1, <1>3, <1>4, <1>5, <1>6, <1>7, <1>8, <1>9, <1>10, <1>11, <1>12, <1>13

-----------------------------------------------------------------------------
(***************************************************************************)
(* Where each operation begins.                                            *)
(***************************************************************************)
\* The i-th operation is written from start[i] on.
CellsOf(i) == OpCells(expr[i], swapped)

Layout(start) ==
  /\ start \in [1 .. Len(expr) + 1 -> Nat]
  /\ start[1] = 1 /\ start[Len(expr) + 1] = Len(cells) + 1
  /\ \A i \in 1 .. Len(expr) :
       /\ start[i] \in i .. Len(cells)
       /\ start[i + 1] = start[i] + Len(CellsOf(i))
       /\ \A k \in 1 .. Len(CellsOf(i)) : cells[start[i] + k - 1] = CellsOf(i)[k]

\* What is joined stays where it is, and grows with each sequence.
GrowsFrom(f, i, j) ==
  /\ Len(f[j]) >= Len(f[i]) + (j - i)
  /\ \A k \in 1 .. Len(f[i]) : f[j][k] = f[i][k]

LEMMA Concatenated ==
  ASSUME NEW S, NEW a \in Seq(S), NEW b \in Seq(S), NEW c, c = a \o b
  PROVE  /\ Len(a) \in Nat /\ Len(b) \in Nat /\ c \in Seq(S) /\ Len(c) = Len(a) + Len(b)
         /\ \A k \in 1 .. Len(a) : c[k] = a[k]
         /\ \A k \in 1 .. Len(b) : c[Len(a) + k] = b[k]
OBVIOUS

LEMMA JoinsGrow ==
  ASSUME NEW S, NEW s, NEW m \in Nat, \A i \in 1 .. m : s[i] \in Seq(S) /\ s[i] # <<>>,
         NEW f, Joins(f, s, m), NEW i \in 1 .. m, NEW n \in i .. m
  PROVE  GrowsFrom(f, i, n)
<1> DEFINE T == {j \in i .. m : ~GrowsFrom(f, i, j)}
<1>1. \A j \in 1 .. m : f[j] \in Seq(S)
  BY JoinsTyped
<1>2. T = {}
  <2> SUFFICES ASSUME T # {} PROVE FALSE
    OBVIOUS
  <2>0. T \in SUBSET Nat
    OBVIOUS
  <2>1. PICK j \in T : \A k \in T : j <= k
    BY <2>0, LeastNumber
  <2>2. CASE j = i
    <3>1. Len(f[i]) \in Nat
      BY <1>1
    <3> QED BY <2>1, <2>2, <3>1 DEF GrowsFrom
  <2>3. CASE j # i
    <3>1. j - 1 \in i .. m /\ ~(j <= j - 1) /\ j \in 1 .. m /\ j - 1 \in 1 .. m /\ j # 1
      BY <2>3
    <3>2. GrowsFrom(f, i, j - 1)
      BY <2>1, <3>1
    <3>3. f[j] = f[j - 1] \o s[j]
      BY <3>1 DEF Joins
    <3>4. PICK a, b : /\ a = f[j - 1] /\ b = s[j] /\ a \in Seq(S) /\ b \in Seq(S) /\ b # <<>>
                      /\ f[j] = a \o b
      BY <1>1, <3>1, <3>3
    <3>5. PICK c : c = f[i] /\ c \in Seq(S)
      BY <1>1
    <3>6. Len(b) >= 1 /\ Len(a) \in Nat /\ Len(b) \in Nat /\ Len(c) \in Nat
      BY <3>4, <3>5, EmptySeq
    <3>7. Len(a) >= Len(c) + (j - 1 - i) /\ \A k \in 1 .. Len(c) : a[k] = c[k]
      BY <3>2, <3>4, <3>5 DEF GrowsFrom
    <3>8. Len(f[j]) = Len(a) + Len(b) /\ \A k \in 1 .. Len(a) : f[j][k] = a[k]
      <4>1. PICK d : d = f[j]
        OBVIOUS
      <4>2. a \in Seq(S) /\ b \in Seq(S) /\ d = a \o b
        BY <3>4, <4>1
      <4>3. Len(d) = Len(a) + Len(b) /\ \A k \in 1 .. Len(a) : d[k] = a[k]
        BY ONLY <4>2, Concatenated
      <4> QED BY <4>1, <4>3
    <3>9. Len(f[j]) >= Len(c) + (j - i)
      BY <3>1, <3>6, <3>7, <3>8
    <3>10. \A k \in 1 .. Len(c) : f[j][k] = c[k]
      BY <3>1, <3>6, <3>7, <3>8
    <3>11. GrowsFrom(f, i, j)
      BY <3>5, <3>9, <3>10 DEF GrowsFrom
    <3> QED BY <2>1, <3>11
  <2> QED BY <2>2, <2>3
<1> QED BY <1>2

\* Where the i-th of the joined sequences is.
NonEmptyParts(s, m, S) == \A i \in 1 .. m : s[i] \in Seq(S) /\ s[i] # <<>>
Preceding(f, i) == IF i = 1 THEN 0 ELSE Len(f[i - 1])
Placed(f, s, m, i, before) ==
  /\ before \in Nat /\ before >= i - 1
  /\ before < Len(f[m])
  /\ Len(f[i]) = before + Len(s[i])
  /\ \A k \in 1 .. Len(s[i]) : f[m][before + k] = s[i][k]

LEMMA JoinsPlace ==
  ASSUME NEW S, NEW s, NEW m \in Nat, NonEmptyParts(s, m, S), NEW f, Joins(f, s, m), NEW i \in 1 .. m
  PROVE  Placed(f, s, m, i, Preceding(f, i))
<1> SUFFICES ASSUME NEW before, before = Preceding(f, i) PROVE Placed(f, s, m, i, before)
  OBVIOUS
<1> USE DEF NonEmptyParts, Preceding
<1>1. f[i] \in Seq(S) /\ s[i] \in Seq(S) /\ Len(s[i]) \in Nat \ {0} /\ m \in i .. m
  BY JoinsTyped, EmptySeq
<1>2. GrowsFrom(f, i, m)
  BY <1>1, JoinsGrow
<1>3. /\ before \in Nat /\ before >= i - 1 /\ Len(f[i]) = before + Len(s[i])
      /\ \A k \in 1 .. Len(s[i]) : f[i][before + k] = s[i][k]
  <2>1. CASE i = 1
    <3>1. f[i] = s[i]
      BY <2>1 DEF Joins
    <3> QED BY <1>1, <2>1, <3>1
  <2>2. CASE i # 1
    <3>1. PICK a, b : a = f[i - 1] /\ b = s[i] /\ a \in Seq(S) /\ b \in Seq(S) /\ f[i] = a \o b
      <4>1. i - 1 \in 1 .. m
        BY <2>2
      <4>2. f[i - 1] \in Seq(S)
        BY <4>1, JoinsTyped
      <4>3. f[i] = f[i - 1] \o s[i]
        BY <2>2 DEF Joins
      <4> QED BY <1>1, <4>2, <4>3
    <3>2. Len(a) >= i - 1
      <4>1. 1 \in 1 .. m /\ i - 1 \in 1 .. m
        BY <2>2
      <4>2. GrowsFrom(f, 1, i - 1)
        BY <4>1, JoinsGrow
      <4>3. f[1] = s[1] /\ Len(s[1]) \in Nat \ {0}
        BY <4>1, EmptySeq DEF Joins
      <4> QED BY <2>2, <3>1, <4>2, <4>3 DEF GrowsFrom
    <3>3. /\ Len(a) \in Nat /\ Len(f[i]) = Len(a) + Len(b)
          /\ \A k \in 1 .. Len(b) : f[i][Len(a) + k] = b[k]
      <4>1. PICK d : d = f[i]
        OBVIOUS
      <4>2. a \in Seq(S) /\ b \in Seq(S) /\ d = a \o b
        BY <3>1, <4>1
      <4>3. /\ Len(a) \in Nat /\ Len(d) = Len(a) + Len(b)
            /\ \A k \in 1 .. Len(b) : d[Len(a) + k] = b[k]
        BY ONLY <4>2, Concatenated
      <4> QED BY <4>1, <4>3
    <3> QED BY <2>2, <3>1, <3>2, <3>3
  <2> QED BY <2>1, <2>2
<1>4. before < Len(f[m])
  <2>1. Len(f[m]) >= Len(f[i]) + (m - i)
    BY <1>2 DEF GrowsFrom
  <2>2. Len(f[i]) \in Nat /\ Len(f[m]) \in Nat
    BY <1>1, JoinsTyped
  <2>3. PICK x, y, z : /\ x = Len(f[m]) /\ y = Len(f[i]) /\ z = Len(s[i])
                       /\ x \in Nat /\ y \in Nat /\ z \in Nat \ {0}
    BY <1>1, <2>2
  <2>4. x >= y + (m - i) /\ y = before + z /\ before \in Nat
    BY <1>3, <2>1, <2>3
  <2>5. before < x
    <3>1. i \in Nat /\ m \in Nat /\ i <= m /\ x \in Nat /\ z \in Nat /\ z >= 1
      BY <2>3
    <3> QED BY ONLY <2>4, <3>1
  <2> QED BY <2>3, <2>5
<1>5. ASSUME NEW k \in 1 .. Len(s[i]) PROVE f[m][before + k] = s[i][k]
  <2>1. before + k \in 1 .. Len(f[i])
    <3>1. PICK z \in Nat : z = Len(s[i])
      BY <1>1
    <3>2. before \in Nat /\ k \in 1 .. z
      BY <1>3, <3>1
    <3>3. before + k \in 1 .. before + z
      BY ONLY <3>1, <3>2
    <3> QED BY <1>3, <3>1, <3>3
  <2>2. f[m][before + k] = f[i][before + k]
    BY <1>2, <2>1 DEF GrowsFrom
  <2> QED BY <1>3, <2>2
<1> QED BY <1>3, <1>4, <1>5 DEF Placed

\* Implicit values of the lengths there are, and the number in front of them.
LEMMA ImplicitTyped ==
  ASSUME NEW v \in ImplicitValues
  PROVE  /\ v \in Seq(ByteValues) /\ Len(v) \in Sizes
         /\ [Zero(8) EXCEPT ![1] = Len(v)] \in Seq(ByteValues)
         /\ [Zero(8) EXCEPT ![1] = Len(v)][1] = Len(v)
<1>1. \A n \in Sizes : n \in Nat /\ n \in ByteValues
  BY DEF Sizes, ByteValues
<1>2. v \in Seq(ByteValues) /\ Len(v) \in Sizes
  <2>1. (\E n \in Sizes : v = Positive(n)) \/ (v = Negative(8) /\ 8 \in Sizes)
    BY DEF ImplicitValues, Sizes
  <2> QED BY <1>1, <2>1, NumbersTyped
<1>3. PICK z, w : z = Zero(8) /\ w = Len(v)
  OBVIOUS
<1>4. z \in Seq(ByteValues) /\ Len(z) = 8 /\ w \in ByteValues
  BY <1>1, <1>2, <1>3, NumbersTyped
<1>5. [z EXCEPT ![1] = w] \in Seq(ByteValues) /\ [z EXCEPT ![1] = w][1] = w
  BY <1>4
<1> QED BY <1>2, <1>3, <1>5

LEMMA CellsTyped == ASSUME NEW o \in Operations, NEW b PROVE OpCells(o, b) \in Seq(Cells) /\ OpFirst(o, OpCells(o, b))
<1> SUFFICES OpFirst(o, OpCells(o, b))
  BY DEF OpFirst
<1>1. /\ Positive(8) \in Seq(ByteValues) /\ Negative(8) \in Seq(ByteValues) /\ Zero(8) \in Seq(ByteValues)
      /\ Positive(address_size_) \in Seq(ByteValues) /\ <<1>> \in Seq(ByteValues)
  BY NumbersTyped, AddressSizeAssumption DEF ByteValues
<1>2. \A op \in FixedConsts : Positive(Widths[op]) \in Seq(ByteValues) /\ Negative(Widths[op]) \in Seq(ByteValues)
  BY NumbersTyped, ConstOps
<1>3. \A v \in ImplicitValues : [Zero(8) EXCEPT ![1] = Len(v)] \in Seq(ByteValues) /\ v \in Seq(ByteValues)
  BY ImplicitTyped
<1>4. HasForm(o)
  BY Forms
<1>5. CASE o.op \in NoArgs
  BY <1>1, <1>4, <1>5, CellsOfOp DEF HasForm, OpLaidOut
<1>6. CASE o.op \in FixedConsts
  <2>1. PICK v \in Seq(ByteValues) : o.args = <<Fixed(v)>>
    BY <1>2, <1>4, <1>6 DEF HasForm
  <2> QED BY <2>1, CellsOfOp DEF OpLaidOut
<1>7. CASE o.op \in LebPositive \cup LebNegative
  <2>1. PICK v \in Seq(ByteValues) : o.args = <<Leb(v)>>
    BY <1>1, <1>4, <1>7 DEF HasForm
  <2> QED BY <2>1, CellsOfOp DEF OpLaidOut
<1>8. CASE o.op \in {"bregx", "regval_type"}
  <2>1. PICK v \in Seq(ByteValues), u \in Seq(ByteValues) : o.args = <<Leb(v), Leb(u)>>
    BY <1>1, <1>4, <1>8 DEF HasForm
  <2>2. OpLaidOut(o, b, v, u, OpCells(o, b))
    BY CellsOfOp
  <2> QED BY <2>1, <2>2 DEF OpLaidOut
<1>9. CASE o.op \in {"deref_size", "addr"}
  <2>1. PICK v \in Seq(ByteValues) : o.args = <<Fixed(v)>>
    BY <1>1, <1>4, <1>9 DEF HasForm
  <2> QED BY <2>1, CellsOfOp DEF OpLaidOut
<1>10. CASE o.op = "deref_type"
  <2>1. PICK v \in Seq(ByteValues), u \in Seq(ByteValues) : o.args = <<Fixed(v), Leb(u)>>
    BY <1>1, <1>4, <1>10 DEF HasForm
  <2>2. OpLaidOut(o, b, v, u, OpCells(o, b))
    BY CellsOfOp
  <2> QED BY <2>1, <2>2 DEF OpLaidOut
<1>11. CASE o.op = "implicit_value"
  <2>1. PICK v \in Seq(ByteValues), u \in Seq(ByteValues) : o.args = <<Leb(v), Fixed(u)>>
    BY <1>3, <1>4, <1>11 DEF HasForm
  <2>2. OpLaidOut(o, b, v, u, OpCells(o, b))
    BY CellsOfOp
  <2> QED BY <2>1, <2>2 DEF OpLaidOut
<1> QED BY <1>4, <1>5, <1>6, <1>7, <1>8, <1>9, <1>10, <1>11 DEF HasForm

LEMMA LayoutExists ==
  ASSUME expr \in Seq(Operations), cells = FlattenSeq([i \in DOMAIN expr |-> OpCells(expr[i], swapped)])
  PROVE  \E start : Layout(start)
<1> DEFINE m == Len(expr)
           s == [i \in DOMAIN expr |-> CellsOf(i)]
<1>1. m \in Nat /\ DOMAIN expr = 1 .. m /\ \A i \in 1 .. m : expr[i] \in Operations
  OBVIOUS
<1>2. \A i \in 1 .. m : CellsOf(i) \in Seq(Cells) /\ CellsOf(i) # <<>> /\ Len(CellsOf(i)) \in Nat
  <2> TAKE i \in 1 .. m
  <2>1. expr[i] \in Operations
    BY <1>1
  <2>2. OpFirst(expr[i], CellsOf(i))
    BY <2>1, CellsTyped DEF CellsOf
  <2> QED BY <2>2 DEF OpFirst
<1>3. s \in Seq(Seq(Cells)) /\ Len(s) = m /\ (m # 0 => s # <<>>)
  <2>1. s \in [1 .. m -> Seq(Cells)]
    BY <1>1, <1>2
  <2> QED BY <1>1, <2>1
<1>4. cells = FlattenSeq(s)
  BY DEF CellsOf
<1>5. CASE m = 0
  <2>1. s = <<>>
    BY <1>3, <1>5, EmptySeq
  <2>2. cells = <<>>
    BY <1>4, <2>1, FlattenFew
  <2>3. Layout([i \in 1 .. 1 |-> 1])
    BY <1>5, <2>2 DEF Layout
  <2> QED BY <2>3
<1>6. CASE m # 0
  <2>1. PICK f : Joins(f, s, m) /\ cells = f[m]
    BY <1>3, <1>4, <1>6, FlattenJoins
  <2>2. \A i \in 1 .. m : s[i] = CellsOf(i) /\ s[i] \in Seq(Cells) /\ s[i] # <<>>
    BY <1>1, <1>2
  <2> DEFINE start == [i \in 1 .. m + 1 |-> IF i = 1 THEN 1 ELSE Len(f[i - 1]) + 1]
  <2> HIDE DEF s
  <2>3. \A i \in 1 .. m : Len(f[i]) \in Nat
    BY <1>1, <2>1, <2>2, JoinsTyped
  <2>4. start \in [1 .. m + 1 -> Nat]
    BY <1>1, <2>3
  <2>5. start[1] = 1 /\ start[m + 1] = Len(cells) + 1
    BY <1>1, <1>6, <2>1
  <2>6. ASSUME NEW i \in 1 .. m
        PROVE  /\ start[i] \in i .. Len(cells)
               /\ start[i + 1] = start[i] + Len(CellsOf(i))
               /\ \A k \in 1 .. Len(CellsOf(i)) : cells[start[i] + k - 1] = CellsOf(i)[k]
    <3>1. PICK before : before = IF i = 1 THEN 0 ELSE Len(f[i - 1])
      OBVIOUS
    <3>2. /\ before \in Nat /\ before >= i - 1 /\ before < Len(f[m])
          /\ Len(f[i]) = before + Len(s[i])
          /\ \A k \in 1 .. Len(s[i]) : f[m][before + k] = s[i][k]
      <4>1. m \in Nat /\ NonEmptyParts(s, m, Cells)
        BY <1>1, <2>2 DEF NonEmptyParts
      <4>2. Placed(f, s, m, i, Preceding(f, i))
        BY <2>1, <4>1, JoinsPlace
      <4> QED BY <3>1, <4>2 DEF Placed, Preceding
    <3>3. start[i] = before + 1 /\ start[i + 1] = Len(f[i]) + 1
      BY <1>1, <3>1
    <3>4. Len(f[m]) \in Nat /\ Len(s[i]) \in Nat
      BY <1>1, <1>2, <1>6, <2>2, <2>3
    <3>5. ASSUME NEW k \in 1 .. Len(CellsOf(i)) PROVE cells[start[i] + k - 1] = CellsOf(i)[k]
      <4>1. start[i] + k - 1 = before + k
        BY <1>2, <3>2, <3>3
      <4> QED BY <2>1, <2>2, <3>2, <4>1
    <3>6. start[i] \in i .. Len(cells)
      BY <2>1, <3>2, <3>3, <3>4
    <3>7. start[i + 1] = start[i] + Len(CellsOf(i))
      <4>1. PICK z, y, x, w : z = Len(CellsOf(i)) /\ y = Len(f[i]) /\ x = start[i] /\ w = start[i + 1]
        OBVIOUS
      <4>2. z = Len(s[i]) /\ z \in Nat
        BY <2>2, <3>4, <4>1
      <4>3. y = before + z /\ before \in Nat /\ x = before + 1 /\ w = y + 1
        BY <3>2, <3>3, <4>1, <4>2
      <4>4. x \in Nat /\ y \in Nat /\ w \in Nat /\ z \in Nat /\ before \in Nat
        BY <4>2, <4>3
      <4>5. w = x + z
        BY ONLY <4>3, <4>4
      <4> QED BY <4>1, <4>5
    <3> QED BY <3>5, <3>6, <3>7
  <2>7. Layout(start)
    BY <2>4, <2>5, <2>6 DEF Layout
  <2> QED BY <2>7
<1> QED BY <1>5, <1>6


-----------------------------------------------------------------------------
(***************************************************************************)
(* Numbers that are widened, cut and swapped.                              *)
(***************************************************************************)
Fill(v) == IF Last(v) = 255 THEN 255 ELSE 0

LEMMA WidenedBytes ==
  ASSUME NEW v \in Seq(ByteValues), NEW n \in Nat, Len(v) <= n
  PROVE  /\ Unsigned(v, n) \in Seq(ByteValues) /\ Len(Unsigned(v, n)) = n
         /\ \A i \in 1 .. n : Unsigned(v, n)[i] = IF i <= Len(v) THEN v[i] ELSE 0
         /\ Signed(v, n) \in Seq(ByteValues) /\ Len(Signed(v, n)) = n
         /\ \A i \in 1 .. n : Signed(v, n)[i] = IF i <= Len(v) THEN v[i] ELSE Fill(v)
<1>1. PICK w \in Nat : w = n - Len(v)
  OBVIOUS
<1>2. PICK z : z = Zero(w)
  OBVIOUS
<1>3. z \in Seq(ByteValues) /\ Len(z) = w /\ \A i \in 1 .. w : z[i] = 0
  BY <1>2 DEF Zero, ByteValues
<1>4. PICK y : y = [i \in 1 .. w |-> Fill(v)]
  OBVIOUS
<1>5. Fill(v) \in ByteValues
  BY DEF Fill, ByteValues
<1>6. y \in Seq(ByteValues) /\ Len(y) = w /\ \A i \in 1 .. w : y[i] = Fill(v)
  BY <1>4, <1>5
<1>7. PICK a, b : a = Unsigned(v, n) /\ b = Signed(v, n)
  OBVIOUS
<1>8. a = v \o z /\ b = v \o y
  BY <1>1, <1>2, <1>4, <1>7 DEF Unsigned, Signed, Fill
<1>9. /\ a \in Seq(ByteValues) /\ Len(a) = n
      /\ \A i \in 1 .. n : a[i] = IF i <= Len(v) THEN v[i] ELSE 0
  BY <1>1, <1>3, <1>8
<1>10. /\ b \in Seq(ByteValues) /\ Len(b) = n
       /\ \A i \in 1 .. n : b[i] = IF i <= Len(v) THEN v[i] ELSE Fill(v)
  BY <1>1, <1>6, <1>8
<1> QED BY <1>7, <1>9, <1>10

LEMMA SameNumber ==
  ASSUME NEW v \in Seq(ByteValues), NEW u \in Seq(ByteValues), Len(v) = Len(u), \A i \in 1 .. Len(v) : v[i] = u[i]
  PROVE  v = u
OBVIOUS

\* A number of its width is not changed; to be widened in two steps is to be
\* widened at once.
LEMMA WidenedTwice ==
  ASSUME NEW v \in Seq(ByteValues), NEW m \in Nat, NEW n \in Nat, Len(v) <= m, m <= n
  PROVE  /\ Len(v) = n => Unsigned(v, n) = v /\ Signed(v, n) = v
         /\ v # <<>> => Signed(Signed(v, m), n) = Signed(v, n)
<1>1. Len(v) \in Nat /\ Len(v) <= n
  OBVIOUS
<1>2. ASSUME Len(v) = n PROVE Unsigned(v, n) = v /\ Signed(v, n) = v
  <2>1. PICK a, b : a = Unsigned(v, n) /\ b = Signed(v, n)
    OBVIOUS
  <2>2. /\ a \in Seq(ByteValues) /\ Len(a) = n /\ \A i \in 1 .. n : a[i] = v[i]
        /\ b \in Seq(ByteValues) /\ Len(b) = n /\ \A i \in 1 .. n : b[i] = v[i]
    BY <1>1, <1>2, <2>1, WidenedBytes
  <2>3. a = v /\ b = v
    BY <1>2, <2>2, SameNumber
  <2> QED BY <2>1, <2>3
<1>3. ASSUME v # <<>> PROVE Signed(Signed(v, m), n) = Signed(v, n)
  <2>1. PICK a : a = Signed(v, m)
    OBVIOUS
  <2>2. /\ a \in Seq(ByteValues) /\ Len(a) = m
        /\ \A i \in 1 .. m : a[i] = IF i <= Len(v) THEN v[i] ELSE Fill(v)
    BY <2>1, WidenedBytes
  <2>3. Len(v) >= 1
    BY <1>3, EmptySeq
  <2>4. Fill(a) = Fill(v)
    BY <2>2, <2>3 DEF Fill, Last
  <2>5. PICK b, c : b = Signed(a, n) /\ c = Signed(v, n)
    OBVIOUS
  <2>6. /\ b \in Seq(ByteValues) /\ Len(b) = n
        /\ \A i \in 1 .. n : b[i] = IF i <= m THEN a[i] ELSE Fill(a)
    BY <2>2, <2>5, WidenedBytes
  <2>7. /\ c \in Seq(ByteValues) /\ Len(c) = n
        /\ \A i \in 1 .. n : c[i] = IF i <= Len(v) THEN v[i] ELSE Fill(v)
    BY <1>1, <2>5, WidenedBytes
  <2>8. \A i \in 1 .. n : b[i] = c[i]
    BY <1>1, <2>2, <2>4, <2>6, <2>7
  <2>9. b = c
    BY <2>6, <2>7, <2>8, SameNumber
  <2> QED BY <2>1, <2>5, <2>9
<1> QED BY <1>2, <1>3

LEMMA WidenedSigns ==
  ASSUME NEW w \in {1, 2, 4, 8}
  PROVE  /\ Last(Negative(w)) = 255
         /\ Signed(Positive(w), 8) = Unsigned(Positive(w), 8)
         /\ Unsigned(Positive(w), 8) = Positive(8)
<1>1. /\ Positive(w) \in Seq(ByteValues) /\ Len(Positive(w)) = w
      /\ Positive(8) \in Seq(ByteValues) /\ Len(Positive(8)) = 8
      /\ Negative(w) \in Seq(ByteValues) /\ Len(Negative(w)) = w
  BY NumbersTyped
<1>2. /\ \A i \in 1 .. w : Positive(w)[i] = IF i = 1 THEN 1 ELSE 0
      /\ \A i \in 1 .. 8 : Positive(8)[i] = IF i = 1 THEN 1 ELSE 0
  BY DEF Positive
<1>3. Last(Negative(w)) = 255
  BY <1>1 DEF Negative, Last
<1>4. Fill(Positive(w)) = 0
  BY <1>1, <1>2 DEF Fill, Last
<1>5. PICK a, b : a = Unsigned(Positive(w), 8) /\ b = Signed(Positive(w), 8)
  OBVIOUS
<1>6. /\ a \in Seq(ByteValues) /\ Len(a) = 8 /\ \A i \in 1 .. 8 : a[i] = IF i <= w THEN Positive(w)[i] ELSE 0
      /\ b \in Seq(ByteValues) /\ Len(b) = 8 /\ \A i \in 1 .. 8 : b[i] = IF i <= w THEN Positive(w)[i] ELSE 0
  <2>1. PICK p : p = Positive(w)
    OBVIOUS
  <2>2. p \in Seq(ByteValues) /\ Len(p) <= 8 /\ 8 \in Nat /\ a = Unsigned(p, 8) /\ b = Signed(p, 8) /\ Len(p) = w
    BY <1>1, <1>5, <2>1
  <2>3. /\ a \in Seq(ByteValues) /\ Len(a) = 8 /\ \A i \in 1 .. 8 : a[i] = IF i <= Len(p) THEN p[i] ELSE 0
        /\ b \in Seq(ByteValues) /\ Len(b) = 8 /\ \A i \in 1 .. 8 : b[i] = IF i <= Len(p) THEN p[i] ELSE Fill(p)
    BY ONLY <2>2, WidenedBytes
  <2> QED BY <1>4, <2>1, <2>2, <2>3
<1>7. \A i \in 1 .. 8 : a[i] = Positive(8)[i] /\ b[i] = Positive(8)[i]
  <2> TAKE i \in 1 .. 8
  <2>1. i <= w => i \in 1 .. w
    OBVIOUS
  <2>2. Positive(8)[i] = (IF i = 1 THEN 1 ELSE 0) /\ 1 <= w
    BY <1>2
  <2>3. CASE i <= w
    <3>1. Positive(w)[i] = IF i = 1 THEN 1 ELSE 0
      BY <1>2, <2>1, <2>3
    <3> QED BY <1>6, <2>2, <2>3, <3>1
  <2>4. CASE ~(i <= w)
    <3>1. i # 1
      BY <2>2, <2>4
    <3> QED BY <1>6, <2>2, <2>4, <3>1
  <2> QED BY <2>3, <2>4
<1>8. a = Positive(8) /\ b = Positive(8)
  BY <1>1, <1>6, <1>7, SameNumber
<1> QED BY <1>3, <1>5, <1>8

LEMMA CutPositive == AsInt(Positive(8)) = Positive(4)
<1>1. PICK a : a = AsInt(Positive(8))
  OBVIOUS
<1>2. Positive(8) \in Seq(ByteValues) /\ Len(Positive(8)) = 8 /\ Positive(4) \in Seq(ByteValues) /\ Len(Positive(4)) = 4
  BY NumbersTyped
<1>3. a \in Seq(ByteValues) /\ Len(a) = 4 /\ \A i \in 1 .. 4 : a[i] = Positive(8)[i]
  BY <1>1, <1>2 DEF AsInt
<1>4. \A i \in 1 .. 4 : Positive(8)[i] = Positive(4)[i]
  BY DEF Positive
<1>5. a = Positive(4)
  <2>1. PICK p : p = Positive(4)
    OBVIOUS
  <2>2. p \in Seq(ByteValues) /\ Len(a) = Len(p) /\ \A i \in 1 .. Len(a) : a[i] = p[i]
    BY <1>2, <1>3, <1>4, <2>1
  <2>3. a = p
    BY <1>3, <2>2, SameNumber
  <2> QED BY <2>1, <2>3
<1> QED BY <1>1, <1>5

\* What it means for the constants that occur.
LEMMA MeantConstants ==
  ASSUME NEW o \in Operations, NEW v \in Seq(ByteValues)
  PROVE  /\ o.args = <<Fixed(v)>> \/ o.args = <<Leb(v)>> =>
              ConstMeant(o) = IF o.op \in SignedOps THEN Signed(v, 8) ELSE Unsigned(v, 8)
         /\ \A x : o.args = <<x, Fixed(v)>> /\ o.op = "implicit_value" => ConstMeant(o) = Unsigned(v, 8)
<1>1. \A x : <<x>>[Len(<<x>>)] = x
  OBVIOUS
<1>2. \A x, y : <<x, y>>[Len(<<x, y>>)] = y
  OBVIOUS
<1>3. Fixed(v).v = v /\ Leb(v).v = v
  BY DEF Fixed, Leb
<1>4. ASSUME NEW x, o.args = <<x>>, x.v = v
      PROVE  ConstMeant(o) = IF o.op \in SignedOps THEN Signed(v, 8) ELSE Unsigned(v, 8)
  <2>1. Last(o.args) = x
    BY <1>1, <1>4 DEF Last
  <2> QED BY <1>4, <2>1 DEF ConstMeant
<1>5. ASSUME NEW x, o.args = <<x, Fixed(v)>>, o.op = "implicit_value" PROVE ConstMeant(o) = Unsigned(v, 8)
  <2>1. Last(o.args) = Fixed(v)
    BY <1>2, <1>5 DEF Last
  <2>2. o.op \notin SignedOps
    BY <1>5 DEF SignedOps
  <2> QED BY <1>3, <2>1, <2>2 DEF ConstMeant
<1> QED BY <1>3, <1>4, <1>5

-----------------------------------------------------------------------------
(***************************************************************************)
(* What the decoder finds where an operation begins.                       *)
(***************************************************************************)
ExprTyped == swapped \in BOOLEAN /\ expr \in Seq(Operations)
ReadsFrom(start, n) == Layout(start) /\ n \in 0 .. Len(expr) /\ at = start[n + 1]

LEMMA PlaceInCells ==
  ASSUME ExprTyped, NEW start, NEW n, ReadsFrom(start, n)
  PROVE  /\ n \in Nat /\ Len(expr) \in Nat /\ n <= Len(expr) /\ at \in Nat /\ Len(cells) \in Int
         /\ at <= Len(cells) <=> n < Len(expr)
         /\ at = 1 => n = 0
<1>1. Len(expr) \in Nat
  BY DEF ExprTyped
<1>2. /\ n \in 0 .. Len(expr) /\ at = start[n + 1] /\ at \in Nat
      /\ start[Len(expr) + 1] = Len(cells) + 1
      /\ start[Len(expr) + 1] \in Nat
      /\ \A i \in 1 .. Len(expr) : start[i] >= i /\ start[i] <= Len(cells)
  BY <1>1 DEF ReadsFrom, Layout
<1>3. PICK m, x, z : m = Len(expr) /\ x = Len(cells) /\ z = start[m + 1]
  OBVIOUS
<1>4. m \in Nat /\ n \in 0 .. m /\ z = x + 1 /\ z \in Nat /\ at \in Nat
  BY <1>1, <1>2, <1>3
<1>5. x \in Int
  <2>1. Len(cells) \in Nat \/ Len(cells) = z - 1
    BY <1>2, <1>3
  <2> QED BY <1>3, <1>4, <2>1
<1>6. CASE n < m
  <2>1. n + 1 \in 1 .. m
    BY <1>4, <1>6
  <2>2. at >= n + 1 /\ at <= x
    BY <1>2, <1>3, <2>1
  <2> QED BY <1>3, <1>4, <1>5, <1>6, <2>2
<1>7. CASE n = m
  <2>1. at = z
    BY <1>2, <1>3, <1>7
  <2>2. ~(at <= x)
    BY ONLY <1>4, <1>5, <2>1
  <2>3. ASSUME n # 0 PROVE at # 1
    <3>1. n \in 1 .. m
      BY <1>4, <1>7, <2>3
    <3>2. start[n] >= n /\ start[n] <= x
      BY <1>2, <1>3, <3>1
    <3>3. PICK y : y = start[n]
      OBVIOUS
    <3>4. y \in Nat
      BY <1>1, <1>3, <3>1, <3>3 DEF ReadsFrom, Layout
    <3> QED BY <1>4, <1>5, <2>1, <2>3, <3>2, <3>3, <3>4
  <2> QED BY <1>3, <1>4, <1>5, <1>7, <2>2, <2>3
<1> QED BY <1>4, <1>6, <1>7

\* The operation o, which is the cells c, is where the decoder is.
OpIsHere(start, n, o, c) ==
  /\ o \in Operations /\ OpFirst(o, c)
  /\ n + 1 \in 0 .. Len(expr) /\ n + 1 \in 1 .. Len(expr)
  /\ cells[at] = [is |-> "op", v |-> o.op]
  /\ \A k \in 1 .. Len(c) : cells[at + k - 1] = c[k]
  /\ start[n + 2] = at + Len(c)
  /\ c = OpCells(o, swapped)

LEMMA OpHere ==
  ASSUME ExprTyped, NEW start, NEW n, ReadsFrom(start, n), n < Len(expr)
  PROVE  OpIsHere(start, n, expr[n + 1], CellsOf(n + 1))
<1> SUFFICES ASSUME NEW o, o = expr[n + 1], NEW c, c = CellsOf(n + 1) PROVE OpIsHere(start, n, o, c)
  OBVIOUS
<1> USE DEF OpIsHere
<1>1. n \in Nat /\ Len(expr) \in Nat /\ at \in Nat
  BY PlaceInCells
<1>2. n + 1 \in 1 .. Len(expr) /\ n + 1 \in 0 .. Len(expr)
  BY <1>1
<1>3. o \in Operations /\ c = OpCells(o, swapped)
  BY <1>2 DEF ExprTyped, CellsOf
<1>4. OpFirst(o, c)
  BY <1>3, CellsTyped
<1>5. /\ start[n + 1] = at /\ start[(n + 1) + 1] = start[n + 1] + Len(c)
      /\ \A k \in 1 .. Len(c) : cells[start[n + 1] + k - 1] = c[k]
  BY <1>2 DEF ReadsFrom, Layout
<1>6. (n + 1) + 1 = n + 2 /\ Len(c) \in Nat /\ Len(c) >= 1
  BY <1>1, <1>4, EmptySeq DEF OpFirst
<1>7. cells[at] = c[1]
  <2>1. 1 \in 1 .. Len(c) /\ at + 1 - 1 = at
    BY <1>1, <1>6
  <2> QED BY <1>5, <2>1
<1> QED BY <1>2, <1>3, <1>4, <1>5, <1>6, <1>7 DEF OpFirst

\* ByteValues that follow are those of a number, in the order of the file.
Follow(k, v) == [i \in 1 .. Len(v) |-> cells[at + k + i].v]

LEMMA BytesFollow ==
  ASSUME NEW c \in Seq(Cells), \A k \in 1 .. Len(c) : cells[at + k - 1] = c[k], at \in Nat,
         NEW v \in Seq(ByteValues), NEW k \in Nat, k + 1 + Len(v) <= Len(c), BytesAt(c, k + 1, v, swapped)
  PROVE  Follow(k, v) = Ordered(v, swapped) /\ endc(Follow(k, v)) = v
<1>1. PICK r : r = Ordered(v, swapped)
  OBVIOUS
<1>2. r \in Seq(ByteValues) /\ Len(r) = Len(v) /\ Ordered(r, swapped) = v
  BY <1>1, OrderedTwice
<1>3. ASSUME NEW i \in 1 .. Len(v) PROVE cells[at + k + i].v = r[i]
  <2>1. k + 1 + i \in 1 .. Len(c) /\ at + (k + 1 + i) - 1 = at + k + i
    OBVIOUS
  <2>2. cells[at + (k + 1 + i) - 1] = c[k + 1 + i]
    BY <2>1
  <2>3. c[k + 1 + i] = [is |-> "byte", v |-> r[i]]
    BY <1>1 DEF BytesAt
  <2> QED BY <2>1, <2>2, <2>3
<1>4. Follow(k, v) = [i \in 1 .. Len(v) |-> r[i]]
  BY <1>3 DEF Follow
<1>5. r = [i \in 1 .. Len(v) |-> r[i]]
  BY <1>2
<1> QED BY <1>1, <1>2, <1>4, <1>5 DEF endc

\* What the operands of o are, and where the next operation is.
OperandsAre(start, n, o, v, u) ==
  /\ o.args = <<>> => start[n + 2] = at + 1
  /\ o.args = <<Fixed(v)>> => start[n + 2] = at + 1 + Len(v) /\ endc(Operand(Len(v))) = v
  /\ o.args = <<Leb(v)>> => start[n + 2] = at + 2 /\ Number(1) = v
  /\ o.args = <<Leb(v), Leb(u)>> => start[n + 2] = at + 3 /\ Number(1) = v /\ Number(2) = u
  /\ o.args = <<Leb(v), Fixed(u)>> =>
       start[n + 2] = at + 2 + Len(u) /\ Number(1) = v /\ endc(Follow(1, u)) = u
  /\ o.args = <<Fixed(v), Leb(u)>> => start[n + 2] = at + 2 + Len(v)

LEMMA OperandsHere ==
  ASSUME ExprTyped, NEW start, NEW n, ReadsFrom(start, n), n < Len(expr),
         NEW v \in Seq(ByteValues), NEW u \in Seq(ByteValues)
  PROVE  OperandsAre(start, n, expr[n + 1], v, u)
<1> SUFFICES ASSUME NEW o, o = expr[n + 1] PROVE OperandsAre(start, n, o, v, u)
  OBVIOUS
<1> USE DEF OperandsAre
<1>1. PICK c : c = CellsOf(n + 1)
  OBVIOUS
<1>2. /\ o \in Operations /\ c \in Seq(Cells) /\ Len(c) \in Nat
      /\ \A k \in 1 .. Len(c) : cells[at + k - 1] = c[k]
      /\ start[n + 2] = at + Len(c)
      /\ c = OpCells(o, swapped)
  <2>1. /\ o \in Operations /\ OpFirst(o, c)
        /\ \A k \in 1 .. Len(c) : cells[at + k - 1] = c[k]
        /\ start[n + 2] = at + Len(c)
        /\ c = OpCells(o, swapped)
    <3>1. OpIsHere(start, n, o, c)
      BY <1>1, OpHere
    <3> QED BY <3>1 DEF OpIsHere
  <2> QED BY <2>1 DEF OpFirst
<1>3. at \in Nat /\ Len(v) \in Nat /\ Len(u) \in Nat
  BY PlaceInCells
<1>4. /\ o.args = <<>> => OpFirst(o, c) /\ Len(c) = 1
      /\ o.args = <<Fixed(v)>> => OpFirst(o, c) /\ Len(c) = 1 + Len(v) /\ BytesAt(c, 1, v, swapped)
      /\ o.args = <<Leb(v)>> => OpFirst(o, c) /\ Len(c) = 2 /\ c[2] = Leb(v)
      /\ o.args = <<Leb(v), Leb(u)>> => OpFirst(o, c) /\ Len(c) = 3 /\ c[2] = Leb(v) /\ c[3] = Leb(u)
      /\ o.args = <<Leb(v), Fixed(u)>> =>
           OpFirst(o, c) /\ Len(c) = 2 + Len(u) /\ c[2] = Leb(v) /\ BytesAt(c, 2, u, swapped)
      /\ o.args = <<Fixed(v), Leb(u)>> =>
           /\ OpFirst(o, c) /\ Len(c) = 2 + Len(v) /\ BytesAt(c, 1, v, swapped)
           /\ c[2 + Len(v)] = Leb(u)
  <2>1. o \in Operations /\ c = OpCells(o, swapped) /\ v \in Seq(ByteValues) /\ u \in Seq(ByteValues)
    BY <1>2
  <2>2. OpLaidOut(o, swapped, v, u, c)
    BY <2>1, CellsOfOp
  <2> QED BY <2>2 DEF OpLaidOut
<1>5. /\ Len(c) >= 2 => Number(1) = c[2].v
      /\ Len(c) >= 3 => Number(2) = c[3].v
  <2>1. /\ Len(c) >= 2 => 2 \in 1 .. Len(c)
        /\ Len(c) >= 3 => 3 \in 1 .. Len(c)
    BY <1>2
  <2>2. at + 2 - 1 = at + 1 /\ at + 3 - 1 = at + 2
    BY <1>3
  <2> QED BY <1>2, <2>1, <2>2 DEF Number
<1>6. Leb(v).v = v /\ Leb(u).v = u
  BY DEF Leb
<1>7. ASSUME o.args = <<Fixed(v)>> PROVE endc(Operand(Len(v))) = v
  <2>1. 0 \in Nat /\ 0 + 1 + Len(v) <= Len(c) /\ 0 + 1 = 1
    BY <1>2, <1>3, <1>4, <1>7
  <2>2. BytesAt(c, 0 + 1, v, swapped)
    BY <1>4, <1>7, <2>1
  <2>3. endc(Follow(0, v)) = v
    BY <1>2, <1>3, <2>1, <2>2, BytesFollow
  <2>4. Follow(0, v) = Operand(Len(v))
    BY <1>3 DEF Follow, Operand
  <2> QED BY <2>3, <2>4
<1>8. ASSUME o.args = <<Leb(v), Fixed(u)>> PROVE endc(Follow(1, u)) = u
  <2>1. 1 \in Nat /\ 1 + 1 + Len(u) <= Len(c) /\ 1 + 1 = 2
    BY <1>2, <1>3, <1>4, <1>8
  <2>2. BytesAt(c, 1 + 1, u, swapped)
    BY <1>4, <1>8, <2>1
  <2> QED BY <1>2, <1>3, <2>1, <2>2, BytesFollow
<1>9. /\ o.args = <<>> => start[n + 2] = at + 1
      /\ o.args = <<Fixed(v)>> => start[n + 2] = at + 1 + Len(v)
      /\ o.args = <<Leb(v)>> => start[n + 2] = at + 2
      /\ o.args = <<Leb(v), Leb(u)>> => start[n + 2] = at + 3
      /\ o.args = <<Leb(v), Fixed(u)>> => start[n + 2] = at + 2 + Len(u)
      /\ o.args = <<Fixed(v), Leb(u)>> => start[n + 2] = at + 2 + Len(v)
  <2>1. PICK x, y, z, d : x = start[n + 2] /\ y = Len(v) /\ z = Len(u) /\ d = Len(c)
    OBVIOUS
  <2>2. x = at + d /\ at \in Nat /\ y \in Nat /\ z \in Nat /\ d \in Nat
    BY <1>2, <1>3, <2>1
  <2>3. /\ d = 1 => x = at + 1
        /\ d = 1 + y => x = at + 1 + y
        /\ d = 2 => x = at + 2
        /\ d = 3 => x = at + 3
        /\ d = 2 + z => x = at + 2 + z
        /\ d = 2 + y => x = at + 2 + y
    BY ONLY <2>2
  <2> QED BY <1>4, <2>1, <2>3
<1>10. /\ o.args = <<Leb(v)>> => Number(1) = v
       /\ o.args = <<Leb(v), Leb(u)>> => Number(1) = v /\ Number(2) = u
       /\ o.args = <<Leb(v), Fixed(u)>> => Number(1) = v
  BY <1>3, <1>4, <1>5, <1>6
<1> QED BY <1>7, <1>8, <1>9, <1>10

-----------------------------------------------------------------------------
(***************************************************************************)
(* Counting the values.                                                    *)
(***************************************************************************)
LEMMA BeforeStep ==
  ASSUME NEW W \in SUBSET Nat, IsFiniteSet(W), NEW a \in Nat, \A j \in W : j < a
  PROVE  /\ Cardinality(W) \in Nat /\ Cardinality(W \cup {a}) = Cardinality(W) + 1
         /\ Before(W \cup {a}, a) = Cardinality(W)
         /\ \A i \in W : /\ Before(W \cup {a}, i) = Before(W, i)
                         /\ Before(W, i) \in Nat /\ Before(W, i) < Cardinality(W)
<1>1. Cardinality(W) \in Nat /\ Cardinality(W \cup {a}) = Cardinality(W) + 1
  <2>1. a \notin W
    OBVIOUS
  <2> QED BY <2>1, FS_CardinalityType, FS_AddElement
<1>2. {j \in W \cup {a} : j < a} = W
  <2>1. ~(a < a) /\ \A j \in W : j < a
    OBVIOUS
  <2>2. \A x : x \in {j \in W \cup {a} : j < a} <=> x \in W
    BY <2>1
  <2> QED BY <2>2
<1>3. ASSUME NEW i \in W
      PROVE  /\ Before(W \cup {a}, i) = Before(W, i)
             /\ Before(W, i) \in Nat /\ Before(W, i) < Cardinality(W)
  <2> DEFINE B == {j \in W : j < i}
  <2>1. {j \in W \cup {a} : j < i} = B
    OBVIOUS
  <2>2. B \in SUBSET W /\ i \notin B
    OBVIOUS
  <2>3. IsFiniteSet(B) /\ Cardinality(B) <= Cardinality(W) /\ (Cardinality(W) = Cardinality(B) => W = B)
    BY <2>2, FS_Subset
  <2>4. Cardinality(B) \in Nat
    BY <2>3, FS_CardinalityType
  <2>5. Cardinality(B) # Cardinality(W)
    BY <2>2, <2>3
  <2>6. Cardinality(B) < Cardinality(W)
    BY <1>1, <2>3, <2>4, <2>5
  <2> QED BY <2>1, <2>4, <2>6 DEF Before
<1> QED BY <1>1, <1>2, <1>3 DEF Before

\* When the greatest is added to each of two sets of a size, these belong
\* together, and those that did still do.
GrowTogether(W, a, R, b) ==
  /\ Cardinality(W \cup {a}) = Cardinality(R \cup {b})
  /\ \A i \in W \cup {a}, k \in R \cup {b} :
       Before(W \cup {a}, i) = Before(R \cup {b}, k) =>
         \/ i \in W /\ k \in R /\ Before(W, i) = Before(R, k)
         \/ i = a /\ k = b

LEMMA BothGrow ==
  ASSUME NEW W \in SUBSET Nat, IsFiniteSet(W), NEW a \in Nat, \A j \in W : j < a,
         NEW R \in SUBSET Nat, IsFiniteSet(R), NEW b \in Nat, \A j \in R : j < b,
         Cardinality(W) = Cardinality(R)
  PROVE  GrowTogether(W, a, R, b)
<1>1. /\ Cardinality(W) \in Nat /\ Cardinality(W \cup {a}) = Cardinality(W) + 1
      /\ Before(W \cup {a}, a) = Cardinality(W)
      /\ \A i \in W : /\ Before(W \cup {a}, i) = Before(W, i)
                      /\ Before(W, i) \in Nat /\ Before(W, i) < Cardinality(W)
  BY BeforeStep
<1>2. /\ Cardinality(R) \in Nat /\ Cardinality(R \cup {b}) = Cardinality(R) + 1
      /\ Before(R \cup {b}, b) = Cardinality(R)
      /\ \A i \in R : /\ Before(R \cup {b}, i) = Before(R, i)
                      /\ Before(R, i) \in Nat /\ Before(R, i) < Cardinality(R)
  BY BeforeStep
<1>3. ASSUME NEW i \in W \cup {a}, NEW k \in R \cup {b}, Before(W \cup {a}, i) = Before(R \cup {b}, k)
      PROVE  \/ i \in W /\ k \in R /\ Before(W, i) = Before(R, k)
             \/ i = a /\ k = b
  <2>1. CASE i \in W /\ k \in R
    BY <1>1, <1>2, <1>3, <2>1
  <2>2. CASE i = a /\ k \in R
    <3>1. Before(R, k) = Cardinality(W) /\ Before(R, k) < Cardinality(R)
      BY <1>1, <1>2, <1>3, <2>2
    <3> QED BY <1>1, <3>1
  <2>3. CASE i \in W /\ k = b
    <3>1. Before(W, i) = Cardinality(R) /\ Before(W, i) < Cardinality(W)
      BY <1>1, <1>2, <1>3, <2>3
    <3> QED BY <1>1, <3>1
  <2> QED BY <2>1, <2>2, <2>3
<1> QED BY <1>1, <1>2, <1>3 DEF GrowTogether

-----------------------------------------------------------------------------
(***************************************************************************)
(* What the first n operations have left in the list.                      *)
(***************************************************************************)
\* The values written are those of the list.
Agree(i, k) == locs[k].idx = ConstMeant(expr[i]) \/ Garbled(expr[i])
Matched(W, R) ==
  /\ Cardinality(R) = Cardinality(W)
  /\ \A i \in W, k \in R : Before(W, i) = Before(R, k) => Agree(i, k)
WrittenTo(n) == {i \in 1 .. n : Valued(expr[i])}
ValuesShown(n) == OnlyShown => Matched(WrittenTo(n), ValuesRead)

\* An address ends the decoding.
AddressRead(n) ==
  /\ Ahead(n + 1, {"addr", "addrx", "unknown"})
  /\ \/ address \in {<<>>, Zero(8)}
     \/ /\ n < Len(expr) /\ expr[n + 1].op \in {"addr", "addrx"}
        /\ address = MeantAddr(expr[n + 1])

\* The place on top of the list is the constant that was read last.
ConstLoc(loc, o) ==
  loc.type \in {"fvalue", "svalue", "uvalue"} /\ (loc.idx = ConstMeant(o) \/ Garbled(o))
TlsLoc(loc, o) ==
  loc.type = "tls_index" /\ (loc.offset = AsInt(ConstMeant(o)) \/ Garbled(o))
ConstantOnTop(n) ==
  n >= 1 /\ expr[n].op \in Constants => locs # <<>> /\ ConstLoc(locs[Len(locs)], expr[n])

\* After the first operation that makes an index of it, what is left of it is all
\* there is, or there is more than one place.
TlsRead(n) ==
  /\ Ahead(n + 1, TlsOps) => \A k \in DOMAIN locs : locs[k].type # "tls_index"
  /\ \A i \in 2 .. n :
       IsFirst(i, TlsOps) /\ expr[i - 1].op \in Constants =>
         /\ locs # <<>>
         /\ Len(locs) = 1 => ConstLoc(locs[1], expr[i - 1]) \/ TlsLoc(locs[1], expr[i - 1])

\* The offset in front of the list is the first one.
OffsetRead(n) ==
  /\ locs = <<>> => Ahead(n + 1, {"plus_uconst"})
  /\ locs # <<>> /\ locs[1].type = "plus_uconst" =>
       \E i \in 1 .. n : IsFirst(i, {"plus_uconst"}) /\ Signed(locs[1].offset, 8) = ConstMeant(expr[i])

OpsRead(n) ==
  /\ ValuesShown(n) /\ AddressRead(n) /\ ConstantOnTop(n) /\ TlsRead(n) /\ OffsetRead(n)

\* A place that shows its operation.
Shows(loc, o) ==
  /\ o.op \notin TlsOps \cup {"addr", "addrx", "unknown"}
  /\ o.op # "lit" => (Valued(o) <=> loc.type \in ValueTypes)
  /\ Valued(o) => loc.idx = ConstMeant(o) \/ Garbled(o)
  /\ o.op \in Constants => ConstLoc(loc, o)
  /\ loc.type # "tls_index"
  /\ loc.type = "plus_uconst" => o.op = "plus_uconst" /\ Signed(loc.offset, 8) = ConstMeant(o)

\* The decoder has gone past the operation o.
WentPast(n, o) ==
  /\ ExprTyped /\ n \in Nat /\ Len(expr) \in Nat /\ n < Len(expr) /\ o = expr[n + 1]
  /\ expr' = expr /\ swapped' = swapped /\ address = <<>> /\ address' = <<>>

LEMMA AddressKept ==
  ASSUME NEW n, NEW o, WentPast(n, o), AddressRead(n), o.op \notin {"addr", "addrx", "unknown"}
  PROVE  AddressRead(n + 1)'
<1>1. \A j \in 1 .. n : expr[j].op \notin {"addr", "addrx", "unknown"}
  BY DEF AddressRead, Ahead, WentPast
<1>2. \A j \in 1 .. (n + 1) + 1 - 1 : j \in 1 .. n \/ j = n + 1
  BY DEF WentPast
<1>3. Ahead((n + 1) + 1, {"addr", "addrx", "unknown"})'
  BY <1>1, <1>2 DEF Ahead, WentPast
<1> QED BY <1>3 DEF AddressRead, WentPast

LEMMA ValuesPushed ==
  ASSUME NEW n, NEW o, WentPast(n, o), NEW S, locs \in Seq(S), NEW loc, locs' = Append(locs, loc),
         Shows(loc, o), ValuesShown(n)
  PROVE  ValuesShown(n + 1)'
<1>1. PICK l, l2, m : l = locs /\ l2 = locs' /\ m = Len(l)
  OBVIOUS
<1>2. /\ m \in Nat /\ l \in Seq(S) /\ DOMAIN l = 1 .. m /\ DOMAIN l2 = 1 .. m + 1
      /\ l2[m + 1] = loc /\ \A k \in 1 .. m : l2[k] = l[k]
  BY <1>1
<1>3. PICK W, R, R2 : W = WrittenTo(n) /\ R = ValuesRead /\ R2 = ValuesRead'
  OBVIOUS
<1>4. n \in Nat /\ W \in SUBSET (1 .. n) /\ R \in SUBSET (1 .. m)
  BY <1>1, <1>2, <1>3 DEF WrittenTo, ValuesRead, WentPast
<1>5. IsFiniteSet(W) /\ IsFiniteSet(R)
  <2>1. IsFiniteSet(1 .. n) /\ IsFiniteSet(1 .. m)
    BY <1>2, <1>4, FS_Interval
  <2> QED BY <1>4, <2>1, FS_Subset
<1>6. R2 = IF loc.type \in ValueTypes THEN R \cup {m + 1} ELSE R
  BY <1>1, <1>2, <1>3 DEF ValuesRead
<1>7. WrittenTo(n + 1)' = IF Valued(o) THEN W \cup {n + 1} ELSE W
  BY <1>3, <1>4 DEF WrittenTo, WentPast
<1> SUFFICES ASSUME OnlyShown' PROVE Matched(WrittenTo(n + 1), ValuesRead)'
  BY DEF ValuesShown
<1>8. OnlyShown /\ o.op # "lit"
  <2>1. n + 1 \in DOMAIN expr
    BY DEF WentPast, ExprTyped
  <2> QED BY <2>1 DEF OnlyShown, WentPast
<1>9. Cardinality(R) = Cardinality(W) /\ \A i \in W, k \in R : Before(W, i) = Before(R, k) => Agree(i, k)
  BY <1>3, <1>8 DEF ValuesShown, Matched
<1>10. \A i \in W, k \in R : Agree(i, k) => Agree(i, k)'
  BY <1>1, <1>2, <1>4 DEF Agree, Garbled, WentPast
<1>11. CASE Valued(o)
  <2>1. WrittenTo(n + 1)' = W \cup {n + 1} /\ ValuesRead' = R \cup {m + 1}
    BY <1>3, <1>6, <1>7, <1>8, <1>11 DEF Shows
  <2>2. Agree(n + 1, m + 1)'
    BY <1>1, <1>2, <1>11 DEF Agree, Garbled, WentPast, Shows
  <2>3. PICK a, b : a = n + 1 /\ b = m + 1
    OBVIOUS
  <2>4. /\ W \in SUBSET Nat /\ R \in SUBSET Nat /\ a \in Nat /\ b \in Nat
        /\ (\A j \in W : j < a) /\ \A j \in R : j < b
    BY <1>2, <1>4, <2>3
  <2>5. GrowTogether(W, a, R, b)
    BY <1>5, <1>9, <2>4, BothGrow
  <2>6. \A i \in W \cup {a}, k \in R \cup {b} :
          Before(W \cup {a}, i) = Before(R \cup {b}, k) => Agree(i, k)'
    BY <1>9, <1>10, <2>2, <2>3, <2>5 DEF GrowTogether
  <2> QED BY <2>1, <2>3, <2>5, <2>6 DEF Matched, GrowTogether
<1>12. CASE ~Valued(o)
  <2>1. WrittenTo(n + 1)' = W /\ ValuesRead' = R
    BY <1>3, <1>6, <1>7, <1>8, <1>12 DEF Shows
  <2> QED BY <1>9, <1>10, <2>1 DEF Matched
<1> QED BY <1>11, <1>12

LEMMA TlsPushed ==
  ASSUME NEW n, NEW o, WentPast(n, o), NEW S, locs \in Seq(S), NEW loc, locs' = Append(locs, loc),
         o.op \notin TlsOps, loc.type # "tls_index", TlsRead(n)
  PROVE  TlsRead(n + 1)'
<1>1. PICK l, l2, m : l = locs /\ l2 = locs' /\ m = Len(l)
  OBVIOUS
<1>2. /\ m \in Nat /\ DOMAIN l = 1 .. m /\ DOMAIN l2 = 1 .. m + 1 /\ Len(l2) = m + 1 /\ l2 # <<>>
      /\ l2[m + 1] = loc /\ (\A k \in 1 .. m : l2[k] = l[k]) /\ (l # <<>> => m # 0)
  BY <1>1
<1>3. ASSUME Ahead((n + 1) + 1, TlsOps)' PROVE \A k \in DOMAIN l2 : l2[k].type # "tls_index"
  <2>1. Ahead(n + 1, TlsOps)
    BY <1>3 DEF Ahead, WentPast
  <2>2. \A k \in 1 .. m : l[k].type # "tls_index"
    BY <1>1, <1>2, <2>1 DEF TlsRead
  <2> QED BY <1>2, <2>2
<1>4. ASSUME NEW i \in 2 .. n + 1, IsFirst(i, TlsOps)', expr[i - 1].op \in Constants
      PROVE  Len(l2) # 1
  <2>1. i # n + 1
    BY <1>4 DEF IsFirst, WentPast
  <2>2. i \in 2 .. n /\ IsFirst(i, TlsOps)
    BY <1>4, <2>1 DEF IsFirst, Ahead, WentPast
  <2>3. l # <<>>
    BY <1>1, <1>4, <2>2 DEF TlsRead
  <2> QED BY <1>2, <2>3
<1> QED BY <1>1, <1>2, <1>3, <1>4 DEF TlsRead, WentPast

LEMMA OffsetPushed ==
  ASSUME NEW n, NEW o, WentPast(n, o), NEW S, locs \in Seq(S), NEW loc, locs' = Append(locs, loc),
         loc.type = "plus_uconst" => o.op = "plus_uconst" /\ Signed(loc.offset, 8) = ConstMeant(o),
         OffsetRead(n)
  PROVE  OffsetRead(n + 1)'
<1>1. PICK l, l2 : l = locs /\ l2 = locs'
  OBVIOUS
<1>2. l2 # <<>> /\ l2[1] = IF l = <<>> THEN loc ELSE l[1]
  BY <1>1
<1> SUFFICES ASSUME l2[1].type = "plus_uconst"
             PROVE  \E i \in 1 .. n + 1 : IsFirst(i, {"plus_uconst"})' /\ Signed(l2[1].offset, 8) = ConstMeant(expr[i])
  BY <1>1, <1>2 DEF OffsetRead, WentPast
<1>3. CASE l = <<>>
  <2>1. Ahead(n + 1, {"plus_uconst"})
    BY <1>1, <1>3 DEF OffsetRead
  <2>2. o.op = "plus_uconst" /\ Signed(loc.offset, 8) = ConstMeant(o)
    BY <1>2, <1>3
  <2>3. IsFirst(n + 1, {"plus_uconst"})'
    BY <2>1, <2>2 DEF IsFirst, Ahead, WentPast
  <2>4. n + 1 \in 1 .. n + 1 /\ expr[n + 1] = o
    BY DEF WentPast
  <2> QED BY <1>2, <1>3, <2>2, <2>3, <2>4
<1>4. CASE l # <<>>
  <2>1. PICK i \in 1 .. n : IsFirst(i, {"plus_uconst"}) /\ Signed(l[1].offset, 8) = ConstMeant(expr[i])
    BY <1>1, <1>2, <1>4 DEF OffsetRead
  <2>2. i \in 1 .. n + 1
    BY DEF WentPast
  <2>3. IsFirst(i, {"plus_uconst"})'
    BY <2>1 DEF IsFirst, Ahead, WentPast
  <2> QED BY <1>2, <1>4, <2>1, <2>2, <2>3
<1> QED BY <1>3, <1>4

LEMMA Pushed ==
  ASSUME NEW n, NEW o, WentPast(n, o), NEW S, locs \in Seq(S), NEW loc, locs' = Append(locs, loc),
         Shows(loc, o), OpsRead(n)
  PROVE  OpsRead(n + 1)'
<1>1. ValuesShown(n + 1)'
  BY ValuesPushed DEF OpsRead
<1>2. AddressRead(n + 1)'
  BY AddressKept DEF OpsRead, Shows
<1>3. ConstantOnTop(n + 1)'
  <2>1. PICK l2 : l2 = locs'
    OBVIOUS
  <2>2. l2 # <<>> /\ l2[Len(l2)] = loc
    BY <2>1
  <2>3. o.op \in Constants => ConstLoc(loc, o)
    BY DEF Shows
  <2> QED BY <2>1, <2>2, <2>3 DEF ConstantOnTop, ConstLoc, Garbled, WentPast
<1>4. TlsRead(n + 1)'
  BY TlsPushed DEF OpsRead, Shows
<1>5. OffsetRead(n + 1)'
  BY OffsetPushed DEF OpsRead, Shows
<1> QED BY <1>1, <1>2, <1>3, <1>4, <1>5 DEF OpsRead

\* An operation that leaves nothing.
LEMMA Skipped ==
  ASSUME NEW n, NEW o, WentPast(n, o), locs' = locs, o.op = "implicit_value", ~Valued(o), OpsRead(n)
  PROVE  OpsRead(n + 1)'
<1> USE DEF WentPast
<1>0. o.op \notin TlsOps /\ o.op \notin Constants /\ o.op # "plus_uconst"
  BY DEF TlsOps, Constants, FixedConsts, Widths
<1>1. ValuesShown(n + 1)'
  <2>1. OnlyShown' <=> OnlyShown
    BY DEF OnlyShown
  <2>2. WrittenTo(n + 1)' = WrittenTo(n) /\ ValuesRead' = ValuesRead
    BY DEF WrittenTo, ValuesRead
  <2>3. \A i, k : Agree(i, k) => Agree(i, k)'
    BY DEF Agree, Garbled
  <2> QED BY <2>1, <2>2, <2>3 DEF OpsRead, ValuesShown, Matched
<1>2. AddressRead(n + 1)'
  BY AddressKept DEF OpsRead
<1>3. ConstantOnTop(n + 1)'
  BY <1>0 DEF ConstantOnTop
<1>4. TlsRead(n + 1)'
  <2>1. Ahead((n + 1) + 1, TlsOps)' => Ahead(n + 1, TlsOps)
    BY DEF Ahead
  <2>2. ASSUME NEW i \in 2 .. n + 1, IsFirst(i, TlsOps)' PROVE i \in 2 .. n /\ IsFirst(i, TlsOps)
    BY <1>0, <2>2 DEF IsFirst, Ahead
  <2> QED BY <2>1, <2>2 DEF OpsRead, TlsRead, ConstLoc, TlsLoc, Garbled
<1>5. OffsetRead(n + 1)'
  <2>1. locs = <<>> => Ahead((n + 1) + 1, {"plus_uconst"})'
    BY <1>0 DEF OpsRead, OffsetRead, Ahead
  <2>2. \A i \in 1 .. n : i \in 1 .. n + 1 /\ (IsFirst(i, {"plus_uconst"}) => IsFirst(i, {"plus_uconst"})')
    BY DEF IsFirst, Ahead
  <2> QED BY <2>1, <2>2 DEF OpsRead, OffsetRead
<1> QED BY <1>1, <1>2, <1>3, <1>4, <1>5 DEF OpsRead

\* A place that holds a constant becomes an index.
TopIndexed(l, l2) ==
  /\ l # <<>> /\ l[Len(l)].type \in {"fvalue", "svalue", "uvalue"}
  /\ Len(l2) = Len(l) /\ \A k \in 1 .. Len(l) - 1 : l2[k] = l[k]
  /\ l2[Len(l)] = TlsIndex(l[Len(l)].idx)

LastReplaced(S, l, x, g) ==
  /\ Last(l) = l[Len(l)] /\ Len(g) = Len(l) /\ g \in Seq(S \cup {x})
  /\ (\A k \in 1 .. Len(l) - 1 : g[k] = l[k]) /\ g[Len(l)] = x

LEMMA FrontAndLast ==
  ASSUME NEW S, NEW l \in Seq(S), l # <<>>, NEW x
  PROVE  LastReplaced(S, l, x, Append(Front(l), x))
<1>1. PICK m : m = Len(l) /\ m \in Nat \ {0}
  BY EmptySeq
<1>2. PICK f : f = Front(l)
  OBVIOUS
<1>3. f \in Seq(S \cup {x}) /\ Len(f) = m - 1 /\ \A k \in 1 .. m - 1 : f[k] = l[k]
  BY <1>1, <1>2 DEF Front
<1>4. PICK g : g = Append(f, x)
  OBVIOUS
<1>5. /\ g \in Seq(S \cup {x}) /\ Len(g) = m /\ g[m] = x
      /\ \A k \in 1 .. m - 1 : g[k] = f[k]
  BY <1>1, <1>3, <1>4
<1> QED BY <1>1, <1>2, <1>3, <1>4, <1>5 DEF Last, LastReplaced

LEMMA TlsTaken ==
  ASSUME NEW n, NEW o, WentPast(n, o), NEW S, locs \in Seq(S), o.op \in TlsOps, OpsRead(n),
         \/ locs' = locs
         \/ locs' = Append(locs, TlsIndex(value))
         \/ TopIndexed(locs, locs')
  PROVE  OpsRead(n + 1)'
<1> USE DEF WentPast
<1>0. o.op \notin Constants /\ o.op \notin {"plus_uconst", "addr", "addrx", "unknown"}
  BY DEF TlsOps, Constants, FixedConsts, Widths
<1>1. ValuesShown(n + 1)'
  <2>1. n + 1 \in DOMAIN expr
    BY DEF ExprTyped
  <2> QED BY <2>1 DEF ValuesShown, OnlyShown
<1>2. AddressRead(n + 1)'
  BY <1>0, AddressKept DEF OpsRead
<1>3. ConstantOnTop(n + 1)'
  BY <1>0 DEF ConstantOnTop
<1>4. PICK l, l2, m : l = locs /\ l2 = locs' /\ m = Len(l) /\ m \in Nat /\ l \in Seq(S) /\ (l # <<>> => m >= 1)
  BY EmptySeq
<1>5. \A v : TlsIndex(v).type = "tls_index" /\ TlsIndex(v).offset = AsInt(v)
  BY DEF TlsIndex, Loc
<1>6. \/ l2 = l
      \/ Len(l2) = m + 1 /\ l2[m + 1].type = "tls_index" /\ \A k \in 1 .. m : l2[k] = l[k]
      \/ TopIndexed(l, l2)
  <2>1. ASSUME l2 = Append(l, TlsIndex(value))
        PROVE  Len(l2) = m + 1 /\ l2[m + 1] = TlsIndex(value) /\ \A k \in 1 .. m : l2[k] = l[k]
    <3>1. PICK x : x = TlsIndex(value)
      OBVIOUS
    <3> QED BY <1>4, <2>1, <3>1
  <2> QED BY <1>4, <1>5, <2>1
<1>7. l2 = <<>> => l = <<>>
  BY <1>4, <1>6, EmptySeq DEF TopIndexed
<1>8. TlsRead(n + 1)'
  <2>1. ~ Ahead((n + 1) + 1, TlsOps)'
    BY DEF Ahead
  <2>2. ASSUME NEW i \in 2 .. n + 1, NEW b, b = expr[i - 1], IsFirst(i, TlsOps)', b.op \in Constants
        PROVE  l2 # <<>> /\ (Len(l2) = 1 => ConstLoc(l2[1], b) \/ TlsLoc(l2[1], b))
    <3>1. l # <<>> /\ (Len(l) = 1 => ConstLoc(l[1], b) \/ TlsLoc(l[1], b))
      <4>1. CASE i = n + 1
        <5>1. i - 1 = n /\ n >= 1
          BY <4>1
        <5>2. l # <<>> /\ ConstLoc(l[Len(l)], b)
          BY <1>4, <2>2, <5>1 DEF OpsRead, ConstantOnTop
        <5> QED BY <5>2
      <4>2. CASE i # n + 1
        <5>1. i \in 2 .. n /\ IsFirst(i, TlsOps)
          BY <2>2, <4>2 DEF IsFirst, Ahead
        <5> QED BY <1>4, <2>2, <5>1 DEF OpsRead, TlsRead
      <4> QED BY <4>1, <4>2
    <3>2. ASSUME Len(l2) = 1 PROVE ConstLoc(l2[1], b) \/ TlsLoc(l2[1], b)
      <4>1. CASE l2 = l
        BY <3>1, <3>2, <4>1
      <4>2. CASE Len(l2) = m + 1
        BY <1>4, <3>1, <3>2, <4>2
      <4>3. CASE TopIndexed(l, l2)
        <5>1. Len(l) = 1 /\ l2[1] = TlsIndex(l[1].idx) /\ l[1].type \in {"fvalue", "svalue", "uvalue"}
          BY <3>2, <4>3 DEF TopIndexed
        <5>2. ConstLoc(l[1], b)
          BY <3>1, <5>1 DEF TlsLoc
        <5> QED BY <1>5, <5>1, <5>2 DEF ConstLoc, TlsLoc
      <4> QED BY <1>6, <4>1, <4>2, <4>3
    <3> QED BY <1>7, <3>1, <3>2
  <2>3. \A i \in 2 .. n + 1 : IsFirst(i, TlsOps)' /\ expr[i - 1].op \in Constants =>
          /\ l2 # <<>>
          /\ Len(l2) = 1 => ConstLoc(l2[1], expr[i - 1]) \/ TlsLoc(l2[1], expr[i - 1])
    BY <2>2
  <2> QED BY <1>4, <2>1, <2>3 DEF TlsRead, ConstLoc, TlsLoc, Garbled
<1>9. OffsetRead(n + 1)'
  <2>1. l2 = <<>> => Ahead((n + 1) + 1, {"plus_uconst"})'
    BY <1>0, <1>4, <1>7 DEF OpsRead, OffsetRead, Ahead
  <2>2. ASSUME l2 # <<>>, l2[1].type = "plus_uconst" PROVE l # <<>> /\ l2[1] = l[1]
    <3>1. CASE l2 = l
      BY <2>2, <3>1
    <3>2. CASE Len(l2) = m + 1 /\ l2[m + 1].type = "tls_index" /\ \A k \in 1 .. m : l2[k] = l[k]
      <4>1. m # 0
        BY <2>2, <3>2
      <4> QED BY <1>4, <3>2, <4>1
    <3>3. CASE TopIndexed(l, l2)
      <4>1. m # 1
        BY <1>4, <1>5, <2>2, <3>3 DEF TopIndexed
      <4>2. 1 \in 1 .. m - 1
        BY <1>4, <3>3, <4>1 DEF TopIndexed
      <4> QED BY <1>4, <3>3, <4>2 DEF TopIndexed
    <3> QED BY <1>6, <3>1, <3>2, <3>3
  <2>3. \A i \in 1 .. n : i \in 1 .. n + 1 /\ (IsFirst(i, {"plus_uconst"}) => IsFirst(i, {"plus_uconst"})')
    BY DEF IsFirst, Ahead
  <2>4. l # <<>> /\ l[1].type = "plus_uconst" =>
          \E i \in 1 .. n : IsFirst(i, {"plus_uconst"}) /\ Signed(l[1].offset, 8) = ConstMeant(expr[i])
    BY <1>4 DEF OpsRead, OffsetRead
  <2> QED BY <1>4, <2>1, <2>2, <2>3, <2>4 DEF OffsetRead
<1> QED BY <1>1, <1>2, <1>3, <1>8, <1>9 DEF OpsRead

-----------------------------------------------------------------------------
(***************************************************************************)
(* The operations that are read.                                           *)
(***************************************************************************)
LEMMA ReadsOp ==
  ASSUME ExprTyped, NEW start, NEW n, ReadsFrom(start, n), Decoding, NEW o, o = expr[n + 1]
  PROVE  n < Len(expr) /\ o \in Operations /\ HasForm(o) /\ cells[at].is = "op" /\ Op = o.op
<1>1. n < Len(expr)
  BY PlaceInCells DEF Decoding
<1>2. OpIsHere(start, n, o, CellsOf(n + 1))
  BY <1>1, OpHere
<1>3. o \in Operations /\ cells[at] = [is |-> "op", v |-> o.op]
  BY <1>2 DEF OpIsHere
<1> QED BY <1>1, <1>3, Forms DEF Op

\* The decoder goes on where the next operation begins.
WentOn(start, n) ==
  /\ ReadsFrom(start, n)' /\ OpsRead(n)' /\ ExprTyped'
  /\ \E T : locs' \in Seq(T)

LEMMA GoesOn ==
  ASSUME ExprTyped, NEW start, NEW n, ReadsFrom(start, n), Decoding, at' = start[n + 2],
         UNCHANGED <<exprInput, address, given>>, NEW o, o = expr[n + 1]
  PROVE  WentPast(n, o) /\ ReadsFrom(start, n + 1)' /\ ExprTyped'
<1>1. n \in Nat /\ Len(expr) \in Nat /\ n < Len(expr)
  BY PlaceInCells DEF Decoding
<1>2. expr' = expr /\ swapped' = swapped /\ cells' = cells
  BY DEF exprInput
<1>3. WentPast(n, o)
  BY <1>1, <1>2 DEF WentPast, Decoding
<1>4. Layout(start)'
  BY <1>2 DEF ReadsFrom, Layout, CellsOf
<1>5. n + 1 \in 0 .. Len(expr) /\ (n + 1) + 1 = n + 2
  BY <1>1
<1>6. ReadsFrom(start, n + 1)'
  BY <1>2, <1>4, <1>5 DEF ReadsFrom
<1> QED BY <1>2, <1>3, <1>6 DEF ExprTyped

LEMMA GoesOnShowing ==
  ASSUME NEW start, NEW n, NEW o, WentPast(n, o), ReadsFrom(start, n + 1)', ExprTyped',
         NEW S, locs \in Seq(S), NEW loc, Push(loc), Shows(loc, o), OpsRead(n)
  PROVE  WentOn(start, n + 1)
<1>1. locs' = Append(locs, loc)
  BY DEF Push
<1>2. OpsRead(n + 1)'
  BY <1>1, Pushed
<1>3. locs' \in Seq(S \cup {loc})
  BY <1>1
<1> QED BY <1>2, <1>3 DEF WentOn

LEMMA LocFields ==
  ASSUME NEW t, NEW i, NEW f
  PROVE  Loc(t, i, f).type = t /\ Loc(t, i, f).idx = i /\ Loc(t, i, f).offset = f
BY DEF Loc

\* A place that is not of a constant.
LEMMA OtherShown ==
  ASSUME NEW o, NEW loc,
         o.op \notin TlsOps \cup Constants \cup {"addr", "addrx", "unknown", "implicit_value"},
         loc.type \notin {"tls_index", "plus_uconst"}, loc.type \in ValueTypes => o.op = "lit"
  PROVE  Shows(loc, o)
BY DEF Shows, Valued

LEMMA PlainRead ==
  ASSUME ExprTyped, NEW start, NEW n, ReadsFrom(start, n), NEW S, locs \in Seq(S), OpsRead(n), ReadPlain
  PROVE  WentOn(start, n + 1)
<1>1. PICK o : o = expr[n + 1]
  OBVIOUS
<1>2. Decoding /\ Op \in Plain
  BY DEF ReadPlain, At, Op
<1>3. n < Len(expr) /\ o \in Operations /\ HasForm(o) /\ Op = o.op
  BY <1>1, <1>2, ReadsOp
<1>4. o.args = <<>>
  BY <1>2, <1>3 DEF HasForm, NoArgs
<1>5. start[n + 2] = at + 1 /\ at \in Nat
  <2>1. <<>> \in Seq(ByteValues)
    OBVIOUS
  <2> QED BY <1>1, <1>3, <1>4, <2>1, OperandsHere, PlaceInCells DEF OperandsAre
<1>6. at' = start[n + 2] /\ UNCHANGED <<exprInput, address, given>>
  BY <1>5 DEF ReadPlain, Past
<1>7. WentPast(n, o) /\ ReadsFrom(start, n + 1)' /\ ExprTyped'
  BY <1>1, <1>2, <1>6, GoesOn
<1>8. PICK loc : loc = Loc(IF Op = "lit" THEN "fvalue" ELSE Op, Zero(8), Zero(4)) /\ Push(loc)
  BY DEF ReadPlain
<1>9. o.op \in Plain /\ loc.type = IF o.op = "lit" THEN "fvalue" ELSE o.op
  BY <1>2, <1>3, <1>8, LocFields
<1>10. Shows(loc, o)
  <2>1. /\ o.op \notin TlsOps \cup Constants \cup {"addr", "addrx", "unknown", "implicit_value"}
        /\ loc.type \notin {"tls_index", "plus_uconst"} /\ (loc.type \in ValueTypes => o.op = "lit")
    BY <1>9, ConstOps DEF Plain, TlsOps, Constants, ValueTypes
  <2> QED BY <2>1, OtherShown
<1> QED BY <1>7, <1>8, <1>10, GoesOnShowing

\* The constant of a fixed width, as it is read and as it was written.
LEMMA FixedShown ==
  ASSUME NEW o \in Operations, o.op \in FixedConsts, NEW v \in Seq(ByteValues), Len(v) = Widths[o.op],
         o.args = <<Fixed(v)>>, NEW c, o.op # "const2s" => c = v,
         o.op = "const2s" /\ ~swapped => c = Signed(v, 4),
         swapped \in BOOLEAN
  PROVE  /\ o.op = "const8u" => c = ConstMeant(o)
         /\ o.op \in SignedOps => Signed(c, 8) = ConstMeant(o) \/ Garbled(o)
         /\ o.op \notin SignedOps => Unsigned(c, 8) = ConstMeant(o)
<1>1. ConstMeant(o) = IF o.op \in SignedOps THEN Signed(v, 8) ELSE Unsigned(v, 8)
  BY MeantConstants
<1>2. ASSUME o.op = "const8u" PROVE c = ConstMeant(o)
  <2>1. Len(v) = 8 /\ o.op \notin SignedOps /\ c = v
    BY <1>2, ConstOps DEF SignedOps
  <2>2. Unsigned(v, 8) = v
    <3>1. 8 \in Nat /\ Len(v) <= 8 /\ 8 <= 8
      BY <2>1
    <3> QED BY <2>1, <3>1, WidenedTwice
  <2> QED BY <1>1, <2>1, <2>2
<1>3. ASSUME o.op \in SignedOps PROVE Signed(c, 8) = ConstMeant(o) \/ Garbled(o)
  <2>1. CASE o.op # "const2s"
    BY <1>1, <1>3, <2>1
  <2>2. CASE o.op = "const2s" /\ swapped
    BY <2>2 DEF Garbled
  <2>3. CASE o.op = "const2s" /\ ~swapped
    <3>1. Len(v) = 2 /\ v # <<>>
      <4>1. Widths[o.op] = 2
        BY <2>3, ConstOps
      <4> QED BY <4>1, EmptySeq
    <3>2. Signed(Signed(v, 4), 8) = Signed(v, 8)
      <4>1. 4 \in Nat /\ 8 \in Nat /\ Len(v) <= 4 /\ 4 <= 8
        BY <3>1
      <4> QED BY <3>1, <4>1, WidenedTwice
    <3> QED BY <1>1, <1>3, <2>3, <3>2
  <2> QED BY <2>1, <2>2, <2>3
<1>4. ASSUME o.op \notin SignedOps PROVE Unsigned(c, 8) = ConstMeant(o)
  <2>1. o.op # "const2s"
    BY <1>4 DEF SignedOps
  <2> QED BY <1>1, <1>4, <2>1
<1> QED BY <1>2, <1>3, <1>4

\* The bytes of a constant.
LEMMA FixedForm ==
  ASSUME NEW o, HasForm(o), o.op \in FixedConsts
  PROVE  \E v \in Seq(ByteValues) : /\ Len(v) = Widths[o.op] /\ o.args = <<Fixed(v)>>
                               /\ \/ v = Negative(Widths[o.op])
                                  \/ v = Positive(Widths[o.op]) /\ o.op \in SignedOps
<1>1. Widths[o.op] \in Nat
  BY ConstOps
<1>2. PICK a, b : /\ a = Positive(Widths[o.op]) /\ b = Negative(Widths[o.op])
                  /\ a \in Seq(ByteValues) /\ Len(a) = Widths[o.op]
                  /\ b \in Seq(ByteValues) /\ Len(b) = Widths[o.op]
  BY <1>1, NumbersTyped
<1> QED BY <1>2 DEF HasForm

LEMMA ConstRead ==
  ASSUME ExprTyped, NEW start, NEW n, ReadsFrom(start, n), NEW S, locs \in Seq(S), OpsRead(n), ReadConst
  PROVE  WentOn(start, n + 1)
<1>1. PICK o, w : o = expr[n + 1] /\ w = Widths[o.op]
  OBVIOUS
<1>2. Decoding /\ Op \in FixedConsts
  BY DEF ReadConst, At, Op
<1>3. n < Len(expr) /\ o \in Operations /\ HasForm(o) /\ Op = o.op
  BY <1>1, <1>2, ReadsOp
<1>4. PICK v \in Seq(ByteValues) : Len(v) = w /\ o.args = <<Fixed(v)>>
  BY <1>1, <1>2, <1>3, FixedForm
<1>5. start[n + 2] = at + 1 + w /\ at \in Nat /\ endc(Operand(w)) = v /\ w \in Nat
  <2>1. start[n + 2] = at + 1 + Len(v) /\ endc(Operand(Len(v))) = v
    BY <1>1, <1>3, <1>4, OperandsHere DEF OperandsAre
  <2> QED BY <1>4, <2>1, PlaceInCells
<1>6. at' = start[n + 2] /\ UNCHANGED <<exprInput, address, given>>
  BY <1>1, <1>3, <1>5 DEF ReadConst, Past
<1>7. WentPast(n, o) /\ ReadsFrom(start, n + 1)' /\ ExprTyped'
  BY <1>1, <1>2, <1>6, GoesOn
<1>8. PICK c : c = SwappedConst(w)
  OBVIOUS
<1>9. PICK loc : /\ Push(loc)
                 /\ loc = CASE o.op = "const8u" -> Loc("uvalue", c, Zero(4))
                            [] o.op \in SignedOps -> Loc("svalue", Signed(c, 8), Zero(4))
                            [] OTHER -> Loc("fvalue", Unsigned(c, 8), Zero(4))
  BY <1>1, <1>3, <1>8 DEF ReadConst
<1>10. /\ o.op # "const2s" => c = v
       /\ o.op = "const2s" /\ ~swapped => c = Signed(v, 4)
  BY <1>3, <1>5, <1>8 DEF SwappedConst, endc, Ordered
<1>11. /\ o.op = "const8u" => c = ConstMeant(o)
       /\ o.op \in SignedOps => Signed(c, 8) = ConstMeant(o) \/ Garbled(o)
       /\ o.op \notin SignedOps => Unsigned(c, 8) = ConstMeant(o)
  <2>1. o.op \in FixedConsts /\ Len(v) = Widths[o.op] /\ swapped \in BOOLEAN
    BY <1>1, <1>2, <1>3, <1>4 DEF ExprTyped
  <2> QED BY <1>3, <1>4, <1>10, <2>1, FixedShown
<1>12. "const8u" \notin SignedOps
  BY DEF SignedOps
<1>13. /\ loc.type \in {"fvalue", "svalue", "uvalue"} /\ (loc.idx = ConstMeant(o) \/ Garbled(o))
  BY <1>9, <1>11, <1>12, LocFields
<1>14. Shows(loc, o)
  <2>1. o.op \in Constants /\ o.op \notin TlsOps \cup {"addr", "addrx", "unknown", "lit"}
    BY <1>2, <1>3, ConstOps DEF Constants, TlsOps
  <2> QED BY <1>13, <2>1 DEF Shows, Valued, ValueTypes, ConstLoc
<1> QED BY <1>7, <1>9, <1>14, GoesOnShowing

\* What a number with its operands becomes.
LEMMA NumberShown ==
  ASSUME NEW o \in Operations, HasForm(o), o.op \in Numbered, NEW v, NEW u,
         NEW loc,
         loc = CASE o.op = "consts" -> Loc("svalue", v, Zero(4))
                 [] o.op = "constu" -> Loc("uvalue", v, Zero(4))
                 [] o.op \in {"plus_uconst", "fbreg", "breg"} -> Loc(o.op, Zero(8), AsInt(v))
                 [] o.op = "convert" -> Loc("convert", v, Zero(4))
                 [] o.op = "bregx" -> Loc("breg", Unsigned(AsInt(v), 8), AsInt(u))
                 [] o.op = "regval_type" -> Loc("regval_type", u, AsInt(v))
                 [] o.op = "regx" -> Loc("reg", Unsigned(AsInt(v), 8), Zero(4))
                 [] OTHER -> Loc("fpiece", Unsigned(AsInt(v), 8), Zero(4)),
         o.op \notin {"bregx", "regval_type"} => o.args = <<Leb(v)>>
  PROVE  Shows(loc, o)
<1>1. /\ Positive(8) \in Seq(ByteValues) /\ Len(Positive(8)) = 8
      /\ Negative(8) \in Seq(ByteValues) /\ Len(Negative(8)) = 8
  BY NumbersTyped
<1>2. \A x \in {Positive(8), Negative(8)} : Unsigned(x, 8) = x /\ Signed(x, 8) = x
  <2> TAKE x \in {Positive(8), Negative(8)}
  <2>1. x \in Seq(ByteValues) /\ Len(x) = 8
    BY <1>1
  <2>2. 8 \in Nat /\ Len(x) <= 8 /\ 8 <= 8
    BY <2>1
  <2> QED BY <2>1, <2>2, WidenedTwice
<1>3. \A x, y : <<Leb(x)>> = <<Leb(y)>> => x = y
  BY DEF Leb
<1>4. CASE o.op = "consts"
  <2>1. o.args = <<Leb(Negative(8))>> /\ v = Negative(8)
    BY <1>3, <1>4 DEF HasForm, LebNegative
  <2>2. ConstMeant(o) = Signed(v, 8)
    BY <1>1, <1>4, <2>1, MeantConstants DEF SignedOps
  <2>3. loc.type = "svalue" /\ loc.idx = ConstMeant(o)
    BY <1>2, <1>4, <2>1, <2>2, LocFields
  <2> QED BY <1>4, <2>3 DEF Shows, Valued, ValueTypes, ConstLoc, Constants, TlsOps
<1>5. CASE o.op = "constu"
  <2>1. o.args = <<Leb(Positive(8))>> /\ v = Positive(8)
    BY <1>3, <1>5 DEF HasForm, LebPositive
  <2>2. ConstMeant(o) = Unsigned(v, 8)
    BY <1>1, <1>5, <2>1, MeantConstants DEF SignedOps
  <2>3. loc.type = "uvalue" /\ loc.idx = ConstMeant(o)
    BY <1>2, <1>5, <2>1, <2>2, LocFields
  <2> QED BY <1>5, <2>3 DEF Shows, Valued, ValueTypes, ConstLoc, Constants, TlsOps
<1>6. CASE o.op = "plus_uconst"
  <2>1. o.args = <<Leb(Positive(8))>> /\ v = Positive(8)
    BY <1>3, <1>6 DEF HasForm, LebPositive
  <2>2. ConstMeant(o) = Unsigned(v, 8)
    BY <1>1, <1>6, <2>1, MeantConstants DEF SignedOps
  <2>3. loc.type = "plus_uconst" /\ loc.offset = Positive(4)
    BY <1>6, <2>1, LocFields, CutPositive
  <2>4. Signed(Positive(4), 8) = Positive(8)
    BY WidenedSigns
  <2>5. o.op \notin Constants
    BY <1>6, ConstOps DEF Constants
  <2> QED BY <1>2, <1>6, <2>1, <2>2, <2>3, <2>4, <2>5 DEF Shows, Valued, ValueTypes, TlsOps
<1>7. CASE o.op \in Numbered \ {"consts", "constu", "plus_uconst"}
  <2>1. loc.type \in {"fbreg", "breg", "convert", "regval_type", "reg", "fpiece"}
    BY <1>7, LocFields DEF Numbered
  <2>2. o.op \notin TlsOps \cup Constants \cup {"addr", "addrx", "unknown", "implicit_value"}
    BY <1>7, ConstOps DEF Numbered, TlsOps, Constants
  <2>3. loc.type \notin {"tls_index", "plus_uconst"} /\ loc.type \notin ValueTypes
    BY <2>1 DEF ValueTypes
  <2> QED BY <2>2, <2>3, OtherShown
<1> QED BY <1>4, <1>5, <1>6, <1>7

LEMMA NumberRead ==
  ASSUME ExprTyped, NEW start, NEW n, ReadsFrom(start, n), NEW S, locs \in Seq(S), OpsRead(n), ReadNumber
  PROVE  WentOn(start, n + 1)
<1>1. PICK o : o = expr[n + 1]
  OBVIOUS
<1>2. Decoding /\ Op \in Numbered
  BY DEF ReadNumber, At, Op
<1>3. n < Len(expr) /\ o \in Operations /\ HasForm(o) /\ Op = o.op /\ o.op \in Numbered
  BY <1>1, <1>2, ReadsOp
<1>4. /\ Positive(8) \in Seq(ByteValues) /\ Negative(8) \in Seq(ByteValues) /\ Zero(8) \in Seq(ByteValues)
  BY NumbersTyped
<1>5. at \in Nat
  BY PlaceInCells
<1>6. /\ o.op \notin {"bregx", "regval_type"} => start[n + 2] = at + 2 /\ o.args = <<Leb(Number(1))>>
      /\ o.op \in {"bregx", "regval_type"} => start[n + 2] = at + 3
  <2>1. CASE o.op \in {"bregx", "regval_type"}
    <3>1. PICK v \in Seq(ByteValues), u \in Seq(ByteValues) : o.args = <<Leb(v), Leb(u)>>
      BY <1>3, <1>4, <2>1 DEF HasForm
    <3>2. start[n + 2] = at + 3
      BY <1>1, <1>3, <3>1, OperandsHere DEF OperandsAre
    <3> QED BY <2>1, <3>2
  <2>2. CASE o.op \notin {"bregx", "regval_type"}
    <3>1. PICK v \in Seq(ByteValues) : o.args = <<Leb(v)>>
      BY <1>3, <1>4, <2>2 DEF HasForm, LebPositive, LebNegative, Numbered
    <3>2. start[n + 2] = at + 2 /\ Number(1) = v
      BY <1>1, <1>3, <3>1, OperandsHere DEF OperandsAre
    <3> QED BY <2>2, <3>1, <3>2
  <2> QED BY <2>1, <2>2
<1>7. at' = start[n + 2] /\ UNCHANGED <<exprInput, address, given>>
  BY <1>3, <1>5, <1>6 DEF ReadNumber, Past
<1>8. WentPast(n, o) /\ ReadsFrom(start, n + 1)' /\ ExprTyped'
  BY <1>1, <1>2, <1>7, GoesOn
<1>9. PICK v, u : v = Number(1) /\ u = Number(2)
  OBVIOUS
<1>10. PICK loc : /\ Push(loc)
                  /\ loc = CASE o.op = "consts" -> Loc("svalue", v, Zero(4))
                             [] o.op = "constu" -> Loc("uvalue", v, Zero(4))
                             [] o.op \in {"plus_uconst", "fbreg", "breg"} -> Loc(o.op, Zero(8), AsInt(v))
                             [] o.op = "convert" -> Loc("convert", v, Zero(4))
                             [] o.op = "bregx" -> Loc("breg", Unsigned(AsInt(v), 8), AsInt(u))
                             [] o.op = "regval_type" -> Loc("regval_type", u, AsInt(v))
                             [] o.op = "regx" -> Loc("reg", Unsigned(AsInt(v), 8), Zero(4))
                             [] OTHER -> Loc("fpiece", Unsigned(AsInt(v), 8), Zero(4))
  BY <1>3, <1>9 DEF ReadNumber
<1>11. Shows(loc, o)
  <2>1. o.op \notin {"bregx", "regval_type"} => o.args = <<Leb(v)>>
    BY <1>6, <1>9
  <2> QED BY <1>3, <1>10, <2>1, NumberShown
<1> QED BY <1>8, <1>10, <1>11, GoesOnShowing

LEMMA SizedRead ==
  ASSUME ExprTyped, NEW start, NEW n, ReadsFrom(start, n), NEW S, locs \in Seq(S), OpsRead(n), ReadSized
  PROVE  WentOn(start, n + 1)
<1>1. PICK o : o = expr[n + 1]
  OBVIOUS
<1>2. Decoding /\ Op \in Sized
  BY DEF ReadSized, At, Op
<1>3. n < Len(expr) /\ o \in Operations /\ HasForm(o) /\ Op = o.op /\ o.op \in {"deref_size", "deref_type"}
  BY <1>1, <1>2, ReadsOp DEF Sized
<1>4. PICK v, u : /\ v = <<1>> /\ u = Zero(8) /\ v \in Seq(ByteValues) /\ u \in Seq(ByteValues) /\ Len(v) = 1
  <2>1. <<1>> \in Seq(ByteValues) /\ Len(<<1>>) = 1
    BY DEF ByteValues
  <2>2. Zero(8) \in Seq(ByteValues)
    BY NumbersTyped
  <2> QED BY <2>1, <2>2
<1>5. at \in Nat
  BY PlaceInCells
<1>6. /\ o.op = "deref_size" => start[n + 2] = at + 2
      /\ o.op = "deref_type" => start[n + 2] = at + 3
  <2>1. ASSUME o.op = "deref_size" PROVE start[n + 2] = at + 1 + Len(v)
    <3>1. o.args = <<Fixed(v)>>
      BY <1>3, <1>4, <2>1 DEF HasForm
    <3>2. OperandsAre(start, n, o, v, u)
      BY <1>1, <1>3, <1>4, OperandsHere
    <3> QED BY <3>1, <3>2 DEF OperandsAre
  <2>2. ASSUME o.op = "deref_type" PROVE start[n + 2] = at + 2 + Len(v)
    <3>1. o.args = <<Fixed(v), Leb(u)>>
      BY <1>3, <1>4, <2>2 DEF HasForm
    <3>2. OperandsAre(start, n, o, v, u)
      BY <1>1, <1>3, <1>4, OperandsHere
    <3> QED BY <3>1, <3>2 DEF OperandsAre
  <2> QED BY <1>4, <1>5, <2>1, <2>2
<1>7. at' = start[n + 2] /\ UNCHANGED <<exprInput, address, given>>
  BY <1>3, <1>5, <1>6 DEF ReadSized, Past, SizedOperands
<1>8. WentPast(n, o) /\ ReadsFrom(start, n + 1)' /\ ExprTyped'
  BY <1>1, <1>2, <1>7, GoesOn
<1>9. PICK loc : Push(loc) /\ loc.type = o.op
  BY <1>3, LocFields DEF ReadSized
<1>10. Shows(loc, o)
  <2>1. /\ o.op \notin TlsOps \cup Constants \cup {"addr", "addrx", "unknown", "implicit_value"}
        /\ loc.type \notin {"tls_index", "plus_uconst"} /\ loc.type \notin ValueTypes
    BY <1>3, <1>9, ConstOps DEF TlsOps, Constants, ValueTypes
  <2> QED BY <2>1, OtherShown
<1> QED BY <1>8, <1>9, <1>10, GoesOnShowing

LEMMA ImplicitRead ==
  ASSUME ExprTyped, NEW start, NEW n, ReadsFrom(start, n), NEW S, locs \in Seq(S), OpsRead(n), ReadImplicit
  PROVE  WentOn(start, n + 1)
<1>1. PICK o : o = expr[n + 1]
  OBVIOUS
<1>2. Decoding /\ Op = "implicit_value"
  BY DEF ReadImplicit, At, Op
<1>3. n < Len(expr) /\ o \in Operations /\ HasForm(o) /\ o.op = "implicit_value"
  BY <1>1, <1>2, ReadsOp
<1>4. PICK u \in ImplicitValues : o.args = <<Leb([Zero(8) EXCEPT ![1] = Len(u)]), Fixed(u)>>
  BY <1>3 DEF HasForm
<1>5. PICK v, w : /\ w = Len(u) /\ v = [Zero(8) EXCEPT ![1] = Len(u)]
                  /\ v \in Seq(ByteValues) /\ u \in Seq(ByteValues) /\ w \in Sizes /\ v[1] = w
  BY ImplicitTyped
<1>6. o.args = <<Leb(v), Fixed(u)>>
  BY <1>4, <1>5
<1>7. /\ start[n + 2] = at + 2 + Len(u) /\ Number(1) = v /\ endc(Follow(1, u)) = u
      /\ at \in Nat /\ w \in Nat
  <2>1. OperandsAre(start, n, o, v, u)
    BY <1>1, <1>3, <1>5, OperandsHere
  <2>2. w \in Nat
    BY <1>5 DEF Sizes
  <2> QED BY <1>5, <1>6, <2>1, <2>2, PlaceInCells DEF OperandsAre
<1>8. Number(1)[1] = w /\ [i \in 1 .. w |-> cells[at + 1 + i].v] = Follow(1, u)
  BY <1>5, <1>7 DEF Follow
<1>9. at' = at + 1 + (1 + w) /\ UNCHANGED <<exprInput, address, given>>
  BY <1>8 DEF ReadImplicit, Past
<1>10. at' = start[n + 2]
  BY <1>5, <1>7, <1>9
<1>11. WentPast(n, o) /\ ReadsFrom(start, n + 1)' /\ ExprTyped'
  BY <1>1, <1>2, <1>9, <1>10, GoesOn
<1>12. Valued(o) <=> w \in {1, 2, 4, 8}
  <2>1. o.args[2].v = u
    BY <1>6 DEF Fixed
  <2> QED BY <1>3, <1>5, <2>1, ConstOps DEF Valued, Constants
<1>13. CASE w \in {1, 2, 4, 8}
  <2>1. PICK b, x : b = Follow(1, u) /\ x = Unsigned(endc(IF w = 8 THEN AsInt(b) ELSE b), 8)
    OBVIOUS
  <2>2. PICK loc : loc = Loc("imp_value", x, Zero(4)) /\ Push(loc)
    BY <1>8, <1>13, <2>1 DEF ReadImplicit
  <2>3. ConstMeant(o) = Unsigned(u, 8)
    BY <1>3, <1>5, <1>6, MeantConstants
  <2>4. x = ConstMeant(o) \/ Garbled(o)
    <3>1. CASE w # 8
      BY <1>7, <2>1, <2>3, <3>1
    <3>2. CASE w = 8 /\ (swapped \/ CutShort(u))
      <4>1. o.args[2].v = u
        BY <1>6 DEF Fixed
      <4> QED BY <1>3, <1>5, <3>2, <4>1 DEF Garbled
    <3>3. CASE w = 8 /\ ~swapped /\ ~CutShort(u)
      <4>1. x = Unsigned(AsInt(u), 8)
        BY <1>7, <2>1, <3>3 DEF endc, Ordered
      <4>2. Unsigned(u, 8) = u
        <5>1. u \in Seq(ByteValues) /\ Len(u) = 8
          BY <1>5, <3>3
        <5>2. 8 \in Nat /\ Len(u) <= 8 /\ 8 <= 8
          BY <5>1
        <5> QED BY <5>1, <5>2, WidenedTwice
      <4> QED BY <2>3, <3>3, <4>1, <4>2 DEF CutShort
    <3> QED BY <3>1, <3>2, <3>3 DEF ExprTyped
  <2>5. loc.type = "imp_value" /\ loc.idx = x
    BY <2>2, LocFields
  <2>6. Shows(loc, o)
    BY <1>3, <1>12, <1>13, <2>4, <2>5, ConstOps DEF Shows, ValueTypes, TlsOps, Constants
  <2> QED BY <1>11, <2>2, <2>6, GoesOnShowing
<1>14. CASE w \notin {1, 2, 4, 8}
  <2>1. locs' = locs
    BY <1>8, <1>14 DEF ReadImplicit
  <2>2. OpsRead(n + 1)'
    BY <1>3, <1>11, <1>12, <1>14, <2>1, Skipped
  <2> QED BY <1>11, <2>1, <2>2 DEF WentOn
<1> QED BY <1>13, <1>14

\* The two operations that make an index of the place on top.
LEMMA TlsOpRead ==
  ASSUME ExprTyped, NEW start, NEW n, ReadsFrom(start, n), NEW S, locs \in Seq(S), OpsRead(n),
         Decoding, Op \in TlsOps, Past(0),
         \/ locs' = locs
         \/ locs' = Append(locs, TlsIndex(value))
         \/ /\ BecomesTls({"fvalue", "svalue", "uvalue"})
            /\ locs' = Append(Front(locs), TlsIndex(Last(locs).idx))
  PROVE  WentOn(start, n + 1)
<1>1. PICK o : o = expr[n + 1]
  OBVIOUS
<1>2. n < Len(expr) /\ o \in Operations /\ HasForm(o) /\ o.op \in TlsOps
  BY <1>1, ReadsOp
<1>3. o.args = <<>>
  BY <1>2 DEF HasForm, NoArgs, TlsOps
<1>4. start[n + 2] = at + 1 /\ at \in Nat
  <2>1. <<>> \in Seq(ByteValues)
    OBVIOUS
  <2> QED BY <1>1, <1>2, <1>3, <2>1, OperandsHere, PlaceInCells DEF OperandsAre
<1>5. at' = start[n + 2] /\ UNCHANGED <<exprInput, address, given>>
  BY <1>4 DEF Past
<1>6. WentPast(n, o) /\ ReadsFrom(start, n + 1)' /\ ExprTyped'
  BY <1>1, <1>5, GoesOn
<1>7. PICK x, y : x = TlsIndex(Last(locs).idx) /\ y = TlsIndex(value)
  OBVIOUS
<1>8. ASSUME BecomesTls({"fvalue", "svalue", "uvalue"}), locs' = Append(Front(locs), x)
      PROVE  TopIndexed(locs, locs') /\ locs' \in Seq(S \cup {x})
  <2>1. locs # <<>> /\ Last(locs).type \in {"fvalue", "svalue", "uvalue"}
    BY <1>8 DEF BecomesTls
  <2>2. PICK l, g : l = locs /\ g = Append(Front(l), x) /\ l \in Seq(S) /\ l # <<>>
    BY <2>1
  <2>3. /\ Last(l) = l[Len(l)] /\ Len(g) = Len(l) /\ g \in Seq(S \cup {x})
        /\ (\A k \in 1 .. Len(l) - 1 : g[k] = l[k]) /\ g[Len(l)] = x
    <3>1. LastReplaced(S, l, x, Append(Front(l), x))
      BY <2>2, FrontAndLast
    <3> QED BY <2>2, <3>1 DEF LastReplaced
  <2>4. locs' = g
    BY <1>8, <2>2
  <2> QED BY <1>7, <2>1, <2>2, <2>3, <2>4 DEF TopIndexed
<1>9. OpsRead(n + 1)'
  BY <1>2, <1>6, <1>7, <1>8, TlsTaken
<1>10. \E T : locs' \in Seq(T)
  <2>1. ASSUME locs' = Append(locs, y) PROVE locs' \in Seq(S \cup {y})
    BY <2>1
  <2> QED BY <1>7, <1>8, <2>1
<1> QED BY <1>6, <1>9, <1>10 DEF WentOn

LEMMA TlsAddrRead ==
  ASSUME ExprTyped, NEW start, NEW n, ReadsFrom(start, n), NEW S, locs \in Seq(S), OpsRead(n),
         FormTls \/ GnuTls
  PROVE  WentOn(start, n + 1)
<1>1. Decoding /\ Op \in TlsOps /\ Past(0)
  BY DEF FormTls, GnuTls, At, Op, TlsOps
<1>2. \/ locs' = locs
      \/ locs' = Append(locs, TlsIndex(value))
      \/ /\ BecomesTls({"fvalue", "svalue", "uvalue"})
         /\ locs' = Append(Front(locs), TlsIndex(Last(locs).idx))
  BY DEF FormTls, GnuTls, BecomesTls, Push
<1> QED BY <1>1, <1>2, TlsOpRead

-----------------------------------------------------------------------------
(***************************************************************************)
(* The end of the decoding, and what the element is given.                 *)
(***************************************************************************)
LEMMA Kept ==
  ASSUME ExprTyped, NEW S, locs \in Seq(S), NEW start, NEW n, ReadsFrom(start, n), OpsRead(n),
         UNCHANGED <<exprInput, at, locs>>, AddressRead(n)'
  PROVE  WentOn(start, n)
<1>1. /\ expr' = expr /\ swapped' = swapped /\ cells' = cells /\ at' = at /\ locs' = locs
      /\ n \in Nat
  BY PlaceInCells DEF exprInput
<1>2. Layout(start)'
  BY <1>1 DEF ReadsFrom, Layout, CellsOf
<1>3. ReadsFrom(start, n)' /\ ExprTyped'
  BY <1>1, <1>2 DEF ReadsFrom, ExprTyped
<1>4. ValuesShown(n)'
  <2>1. OnlyShown' <=> OnlyShown
    BY <1>1 DEF OnlyShown
  <2>2. WrittenTo(n)' = WrittenTo(n) /\ ValuesRead' = ValuesRead
    BY <1>1 DEF WrittenTo, ValuesRead
  <2>3. \A i, k : Agree(i, k) => Agree(i, k)'
    BY <1>1 DEF Agree, Garbled
  <2> QED BY <2>1, <2>2, <2>3 DEF OpsRead, ValuesShown, Matched
<1>5. ConstantOnTop(n)'
  BY <1>1 DEF OpsRead, ConstantOnTop, ConstLoc, Garbled
<1>6. \A i, ops : (Ahead(i, ops)' <=> Ahead(i, ops)) /\ (IsFirst(i, ops)' <=> IsFirst(i, ops))
  BY <1>1 DEF IsFirst, Ahead
<1>7. TlsRead(n)'
  BY <1>1, <1>6 DEF OpsRead, TlsRead, ConstLoc, TlsLoc, Garbled
<1>8. OffsetRead(n)'
  BY <1>1, <1>6 DEF OpsRead, OffsetRead
<1> QED BY <1>1, <1>3, <1>4, <1>5, <1>7, <1>8 DEF WentOn, OpsRead

LEMMA AddrRead ==
  ASSUME ExprTyped, NEW S, locs \in Seq(S), NEW start, NEW n, ReadsFrom(start, n), OpsRead(n), ReadAddr
  PROVE  WentOn(start, n)
<1>1. PICK o : o = expr[n + 1]
  OBVIOUS
<1>2. Decoding /\ Op \in {"addr", "addrx"}
  BY DEF ReadAddr, At, Op
<1>3. n < Len(expr) /\ o \in Operations /\ HasForm(o) /\ o.op = Op
  BY <1>1, <1>2, ReadsOp
<1>4. /\ Positive(8) \in Seq(ByteValues) /\ Len(Positive(8)) = 8
      /\ Positive(address_size_) \in Seq(ByteValues) /\ Len(Positive(address_size_)) = address_size_
  BY NumbersTyped, AddressSizeAssumption
<1>5. address' = MeantAddr(o)
  <2>1. CASE o.op = "addr"
    <3>1. PICK v \in Seq(ByteValues) : Len(v) = address_size_ /\ o.args = <<Fixed(v)>>
      BY <1>3, <1>4, <2>1 DEF HasForm
    <3>2. endc(Operand(address_size_)) = v
      <4>1. OperandsAre(start, n, o, v, v)
        BY <1>1, <1>3, OperandsHere
      <4> QED BY <3>1, <4>1 DEF OperandsAre
    <3>3. ConstMeant(o) = Unsigned(v, 8)
      BY <1>3, <2>1, <3>1, MeantConstants DEF SignedOps
    <3> QED BY <1>3, <2>1, <3>2, <3>3 DEF ReadAddr, MeantAddr
  <2>2. CASE o.op = "addrx"
    <3>1. PICK v \in Seq(ByteValues) : v = Positive(8) /\ o.args = <<Leb(v)>>
      BY <1>3, <1>4, <2>2 DEF HasForm, LebPositive
    <3>2. Number(1) = v
      <4>1. OperandsAre(start, n, o, v, v)
        BY <1>1, <1>3, OperandsHere
      <4> QED BY <3>1, <4>1 DEF OperandsAre
    <3>3. ConstMeant(o) = v
      <4>1. ConstMeant(o) = Unsigned(v, 8)
        BY <1>3, <2>2, <3>1, MeantConstants DEF SignedOps
      <4> QED BY <3>1, <4>1, WidenedSigns
    <3> QED BY <1>3, <2>2, <3>2, <3>3 DEF ReadAddr, MeantAddr
  <2> QED BY <1>2, <1>3, <2>1, <2>2
<1>6. UNCHANGED <<exprInput, at, locs>>
  BY DEF ReadAddr
<1>7. AddressRead(n)'
  BY <1>1, <1>2, <1>3, <1>5, <1>6 DEF OpsRead, AddressRead, Ahead, exprInput
<1> QED BY <1>6, <1>7, Kept

LEMMA NothingRead ==
  ASSUME ExprTyped, NEW S, locs \in Seq(S), NEW start, NEW n, ReadsFrom(start, n), OpsRead(n),
         UNCHANGED <<exprInput, at, locs>>, address' \in {address, Zero(8)}
  PROVE  WentOn(start, n)
<1>1. AddressRead(n)'
  BY DEF OpsRead, AddressRead, Ahead, exprInput
<1> QED BY <1>1, Kept

\* What it is to give v as kind.
Right(kind, v) ==
  /\ kind = "addr" => \E i \in DOMAIN expr : IsFirst(i, {"addr", "addrx"}) /\ v = MeantAddr(expr[i])
  /\ kind = "tls" =>
       \A i \in 2 .. Len(expr) :
         IsFirst(i, TlsOps) /\ expr[i - 1].op \in Constants =>
           v = AsInt(ConstMeant(expr[i - 1])) \/ Garbled(expr[i - 1])
  /\ kind = "offset" => \E i \in DOMAIN expr : IsFirst(i, {"plus_uconst"}) /\ v = ConstMeant(expr[i])
  /\ kind = "vtable" => v = ConstMeant(expr[1]) \/ IsNegative(expr[1])

LEMMA RightGiven ==
  ASSUME UNCHANGED exprInput, NEW kind, NEW v, given' = <<kind, v>>, Right(kind, v)
  PROVE  ElementGiven'
<1>1. expr' = expr /\ swapped' = swapped
  BY DEF exprInput
<1>2. given'[1] = kind /\ given'[2] = v
  OBVIOUS
<1>3. \A i, ops : IsFirst(i, ops)' <=> IsFirst(i, ops)
  BY <1>1 DEF IsFirst, Ahead
<1>4. CASE kind = "addr"
  BY <1>1, <1>2, <1>3, <1>4 DEF ElementGiven, Right
<1>5. CASE kind = "tls"
  BY <1>1, <1>2, <1>3, <1>5 DEF ElementGiven, Right, Garbled
<1>6. CASE kind = "offset"
  BY <1>1, <1>2, <1>3, <1>6 DEF ElementGiven, Right
<1>7. CASE kind = "vtable"
  BY <1>1, <1>2, <1>7 DEF ElementGiven, Right
<1>8. CASE kind \notin {"addr", "tls", "offset", "vtable"}
  BY <1>2, <1>8 DEF ElementGiven
<1> QED BY <1>4, <1>5, <1>6, <1>7, <1>8

LEMMA HandlerGives ==
  ASSUME ExprTyped, NEW S, locs \in Seq(S), NEW start, NEW n, ReadsFrom(start, n), OpsRead(n),
         LocationOfVar \/ LocationOfParam \/ MemberLocation
  PROVE  ElementGiven'
<1>0. UNCHANGED exprInput /\ n \in Nat /\ Len(expr) \in Nat /\ n <= Len(expr) /\ DOMAIN expr = 1 .. Len(expr)
  BY PlaceInCells DEF LocationOfVar, LocationOfParam, MemberLocation, ExprTyped
<1>1. ASSUME NEW v, Give("loc", v) \/ Give("nothing", v) PROVE ElementGiven'
  BY <1>0, <1>1, RightGiven DEF Give, Right
<1>2. ASSUME address # Zero(8), Decoded, Give("addr", address) PROVE ElementGiven'
  <2>1. n < Len(expr) /\ expr[n + 1].op \in {"addr", "addrx"} /\ address = MeantAddr(expr[n + 1])
    BY <1>2 DEF OpsRead, AddressRead, Decoded
  <2>2. n + 1 \in DOMAIN expr
    BY <1>0, <2>1
  <2>3. IsFirst(n + 1, {"addr", "addrx"})
    BY <1>0, <2>1 DEF OpsRead, AddressRead, IsFirst, Ahead
  <2>4. Right("addr", address)
    BY <2>1, <2>2, <2>3 DEF Right
  <2> QED BY <1>0, <1>2, <2>4, RightGiven DEF Give
<1>3. ASSUME is_tls, Give("tls", locs[1].offset) PROVE ElementGiven'
  <2>1. Len(locs) = 1 /\ locs[1].type = "tls_index" /\ 1 \in DOMAIN locs
    BY <1>3 DEF is_tls
  <2>2. ASSUME NEW i \in 2 .. Len(expr), IsFirst(i, TlsOps), expr[i - 1].op \in Constants
        PROVE  locs[1].offset = AsInt(ConstMeant(expr[i - 1])) \/ Garbled(expr[i - 1])
    <3>1. i <= n
      <4>1. ~ Ahead(n + 1, TlsOps)
        BY <2>1 DEF OpsRead, TlsRead
      <4> QED BY <1>0, <2>2, <4>1 DEF IsFirst, Ahead
    <3>2. i \in 2 .. n
      BY <1>0, <3>1
    <3>3. ConstLoc(locs[1], expr[i - 1]) \/ TlsLoc(locs[1], expr[i - 1])
      BY <2>1, <2>2, <3>2 DEF OpsRead, TlsRead
    <3> QED BY <2>1, <3>3 DEF ConstLoc, TlsLoc
  <2>3. Right("tls", locs[1].offset)
    BY <2>2 DEF Right
  <2> QED BY <1>0, <1>3, <2>3, RightGiven DEF Give
<1>4. ASSUME is_plus_uconst, Give("offset", Signed(locs[1].offset, 8)) PROVE ElementGiven'
  <2>1. locs # <<>> /\ locs[1].type = "plus_uconst"
    <3>1. Len(locs) = 1 /\ locs[1].type = "plus_uconst"
      BY <1>4 DEF is_plus_uconst
    <3>2. locs = <<>> => Len(locs) = 0
      OBVIOUS
    <3> QED BY <3>1, <3>2
  <2>2. PICK i \in 1 .. n : IsFirst(i, {"plus_uconst"}) /\ Signed(locs[1].offset, 8) = ConstMeant(expr[i])
    BY <2>1 DEF OpsRead, OffsetRead
  <2>3. i \in DOMAIN expr
    BY <1>0
  <2>4. Right("offset", Signed(locs[1].offset, 8))
    BY <2>2, <2>3 DEF Right
  <2> QED BY <1>0, <1>4, <2>4, RightGiven DEF Give
<1>5. CASE LocationOfVar
  BY <1>1, <1>2, <1>3, <1>5 DEF LocationOfVar, GiveAddr
<1>6. CASE LocationOfParam
  BY <1>1, <1>6 DEF LocationOfParam
<1>7. CASE MemberLocation
  BY <1>1, <1>4, <1>7 DEF MemberLocation
<1> QED BY <1>5, <1>6, <1>7

LEMMA VtableGives ==
  ASSUME ExprTyped, NEW start, NEW n, ReadsFrom(start, n), VtableLocation
  PROVE  ElementGiven'
<1>1. PICK o : o = expr[n + 1]
  OBVIOUS
<1>2. Decoding /\ at = 1 /\ n = 0
  BY PlaceInCells DEF VtableLocation
<1>3. n < Len(expr) /\ o \in Operations /\ HasForm(o) /\ o.op = Op /\ o = expr[1] /\ cells[at].is = "op"
  BY <1>1, <1>2, ReadsOp
<1>4. PICK idx : /\ idx = CASE o.op \in FixedConsts -> Unsigned(endc(Operand(Widths[o.op])), 8)
                            [] o.op \in {"consts", "constu"} -> Uleb(Number(1))
                            [] OTHER -> Zero(8)
                 /\ IF idx # Zero(8) THEN Give("vtable", idx) ELSE Give("nothing", idx)
  BY <1>2, <1>3 DEF VtableLocation, At, Op
<1>5. UNCHANGED exprInput
  BY DEF VtableLocation
<1>6. CASE idx = Zero(8)
  BY <1>4, <1>5, <1>6, RightGiven DEF Give, Right
<1>7. ASSUME idx # Zero(8) PROVE idx = ConstMeant(o) \/ IsNegative(o)
  <2>1. CASE o.op \in FixedConsts
    <3>1. PICK v \in Seq(ByteValues) : /\ Len(v) = Widths[o.op] /\ o.args = <<Fixed(v)>>
                                  /\ \/ v = Negative(Widths[o.op])
                                     \/ v = Positive(Widths[o.op]) /\ o.op \in SignedOps
      BY <1>3, <2>1, FixedForm
    <3>2. idx = Unsigned(v, 8)
      <4>1. OperandsAre(start, n, o, v, v)
        BY <1>1, <1>3, OperandsHere
      <4>2. endc(Operand(Widths[o.op])) = v
        BY <3>1, <4>1 DEF OperandsAre
      <4>3. o.op \notin {"consts", "constu"}
        BY <2>1, ConstOps
      <4> QED BY <1>4, <2>1, <4>2, <4>3
    <3>3. ConstMeant(o) = IF o.op \in SignedOps THEN Signed(v, 8) ELSE Unsigned(v, 8)
      BY <1>3, <3>1, MeantConstants
    <3>4. Widths[o.op] \in {1, 2, 4, 8}
      BY <2>1, ConstOps
    <3>5. CASE v = Negative(Widths[o.op]) /\ o.op \in SignedOps
      <4>1. Last(v) = 255
        BY <3>4, <3>5, WidenedSigns
      <4>2. Last(o.args).v = v
        BY <3>1 DEF Last, Fixed
      <4> QED BY <3>5, <4>1, <4>2 DEF IsNegative
    <3>6. CASE v = Positive(Widths[o.op])
      <4>1. Signed(v, 8) = Unsigned(v, 8)
        BY <3>4, <3>6, WidenedSigns
      <4> QED BY <3>2, <3>3, <4>1
    <3> QED BY <3>1, <3>2, <3>3, <3>5, <3>6
  <2>2. CASE o.op = "consts"
    <3>1. o.args = <<Leb(Negative(8))>>
      BY <1>3, <2>2 DEF HasForm, LebNegative
    <3>2. Last(o.args).v = Negative(8)
      BY <3>1 DEF Last, Leb
    <3>3. Last(Negative(8)) = 255
      BY WidenedSigns
    <3> QED BY <2>2, <3>2, <3>3 DEF IsNegative, SignedOps
  <2>3. CASE o.op = "constu"
    <3>1. PICK v \in Seq(ByteValues) : v = Positive(8) /\ o.args = <<Leb(v)>>
      <4>1. Positive(8) \in Seq(ByteValues)
        BY NumbersTyped
      <4> QED BY <1>3, <2>3, <4>1 DEF HasForm, LebPositive
    <3>2. Number(1) = v
      <4>1. OperandsAre(start, n, o, v, v)
        BY <1>1, <1>3, OperandsHere
      <4> QED BY <3>1, <4>1 DEF OperandsAre
    <3>3. v # Negative(8)
      <4>1. Positive(8)[2] = 0 /\ Negative(8)[2] = 255
        BY DEF Positive, Negative
      <4> QED BY <3>1, <4>1
    <3>4. ConstMeant(o) = Unsigned(v, 8)
      BY <1>3, <2>3, <3>1, MeantConstants DEF SignedOps
    <3>5. Unsigned(v, 8) = v
      BY <3>1, WidenedSigns
    <3>6. o.op \notin FixedConsts
      BY <2>3, ConstOps
    <3> QED BY <1>4, <2>3, <3>2, <3>3, <3>4, <3>5, <3>6 DEF Uleb
  <2> QED BY <1>4, <1>7, <2>1, <2>2, <2>3
<1>8. CASE idx # Zero(8)
  <2>1. Right("vtable", idx)
    BY <1>3, <1>7, <1>8 DEF Right
  <2> QED BY <1>4, <1>5, <1>8, <2>1, RightGiven DEF Give
<1> QED BY <1>6, <1>8

-----------------------------------------------------------------------------
(***************************************************************************)
(* The invariant of the decoder.                                           *)
(***************************************************************************)
ExprInv ==
  /\ ExprTyped
  /\ \E S : locs \in Seq(S)
  /\ given # <<>> => address # <<>>
  /\ ElementGiven
  /\ \E start, n : ReadsFrom(start, n) /\ OpsRead(n)

LEMMA ExprStarts == ExprInit => ExprInv
<1> SUFFICES ASSUME ExprInit PROVE ExprInv
  OBVIOUS
<1>1. ExprTyped
  BY MaxOpsAssumption DEF ExprInit, ExprTyped
<1>2. locs = <<>> /\ locs \in Seq(Cells) /\ at = 1 /\ address = <<>> /\ given = <<>>
  BY DEF ExprInit
<1>3. PICK start : Layout(start)
  BY <1>1, LayoutExists DEF ExprInit, ExprTyped
<1>4. Len(expr) \in Nat /\ DOMAIN expr = 1 .. Len(expr)
  BY <1>1 DEF ExprTyped
<1>5. ReadsFrom(start, 0)
  BY <1>2, <1>3, <1>4 DEF ReadsFrom, Layout
<1>6. \A ops : Ahead(0 + 1, ops)
  BY DEF Ahead
<1>7. ValuesShown(0)
  <2>1. WrittenTo(0) = {} /\ ValuesRead = {}
    BY <1>2 DEF WrittenTo, ValuesRead
  <2> QED BY <2>1 DEF ValuesShown, Matched
<1>8. AddressRead(0) /\ ConstantOnTop(0) /\ TlsRead(0) /\ OffsetRead(0)
  BY <1>2, <1>6 DEF AddressRead, ConstantOnTop, TlsRead, OffsetRead
<1>9. ElementGiven
  BY <1>2 DEF ElementGiven
<1>10. OpsRead(0)
  BY <1>7, <1>8 DEF OpsRead
<1> QED BY <1>1, <1>2, <1>5, <1>9, <1>10 DEF ExprInv

LEMMA ExprStep == ExprInv /\ [ExprNext]_exprVars => ExprInv'
<1> SUFFICES ASSUME ExprInv, [ExprNext]_exprVars PROVE ExprInv'
  OBVIOUS
<1>1. PICK S : locs \in Seq(S)
  BY DEF ExprInv
<1>2. PICK start, n : ReadsFrom(start, n) /\ OpsRead(n)
  BY DEF ExprInv
<1>3. ExprTyped /\ ElementGiven /\ (given # <<>> => address # <<>>)
  BY DEF ExprInv
<1>4. ASSUME NEW k, WentOn(start, k), ElementGiven', given' # <<>> => address' # <<>> PROVE ExprInv'
  BY <1>4 DEF ExprInv, WentOn
<1>5. given' = <<>> => ElementGiven'
  BY DEF ElementGiven
<1>6. Zero(8) # <<>>
  <2>1. Len(Zero(8)) = 8
    BY NumbersTyped
  <2> QED BY <2>1
<1>7. CASE ReadPlain \/ ReadConst \/ ReadNumber \/ ReadSized \/ ReadImplicit \/ FormTls \/ GnuTls
  <2>1. WentOn(start, n + 1)
    BY <1>1, <1>2, <1>3, <1>7, PlainRead, ConstRead, NumberRead, SizedRead, ImplicitRead, TlsAddrRead
  <2>2. address = <<>> /\ given' = given
    BY <1>7 DEF ReadPlain, ReadConst, ReadNumber, ReadSized, ReadImplicit, FormTls, GnuTls, At, Decoding, Past
  <2> QED BY <1>3, <1>4, <1>5, <2>1, <2>2
<1>8. CASE ReadAddr
  <2>1. WentOn(start, n)
    BY <1>1, <1>2, <1>3, <1>8, AddrRead
  <2>2. address = <<>> /\ given' = given
    BY <1>8 DEF ReadAddr, At, Decoding
  <2> QED BY <1>3, <1>4, <1>5, <2>1, <2>2
<1>9. CASE EndOfExpr
  <2>1. WentOn(start, n)
    BY <1>1, <1>2, <1>3, <1>9, NothingRead DEF EndOfExpr
  <2>2. address = <<>> /\ given' = given
    BY <1>9 DEF EndOfExpr
  <2> QED BY <1>3, <1>4, <1>5, <2>1, <2>2
<1>10. CASE LocationOfVar \/ LocationOfParam \/ MemberLocation
  <2>1. WentOn(start, n)
    BY <1>1, <1>2, <1>3, <1>10, NothingRead DEF LocationOfVar, LocationOfParam, MemberLocation
  <2>2. ElementGiven'
    BY <1>1, <1>2, <1>3, <1>10, HandlerGives
  <2>3. address' # <<>>
    BY <1>10 DEF LocationOfVar, LocationOfParam, MemberLocation, Decoded
  <2> QED BY <1>4, <2>1, <2>2, <2>3
<1>11. CASE VtableLocation
  <2>1. WentOn(start, n)
    BY <1>1, <1>2, <1>3, <1>11, NothingRead DEF VtableLocation
  <2>2. ElementGiven'
    BY <1>2, <1>3, <1>11, VtableGives
  <2>3. address' = Zero(8)
    BY <1>11 DEF VtableLocation
  <2> QED BY <1>4, <1>6, <2>1, <2>2, <2>3
<1>12. CASE UNCHANGED exprVars
  <2>1. UNCHANGED <<exprInput, at, locs>> /\ address' = address /\ given' = given
    BY <1>12 DEF exprVars
  <2>2. WentOn(start, n)
    BY <1>1, <1>2, <1>3, <2>1, NothingRead
  <2>3. ElementGiven'
    <3>1. expr' = expr /\ swapped' = swapped
      BY <2>1 DEF exprInput
    <3> QED BY <1>3, <2>1, <3>1 DEF ElementGiven, IsFirst, Ahead, Garbled
  <2> QED BY <1>3, <1>4, <2>1, <2>2, <2>3
<1> QED BY <1>7, <1>8, <1>9, <1>10, <1>11, <1>12 DEF ExprNext

LEMMA ExprInvariant == ExprSpec => []ExprInv
<1> QED BY ExprStarts, ExprStep, PTL DEF ExprSpec

\* The decoder of location expressions never takes a byte of an operand for an
\* operation: wherever it goes on, in a file of either byte order, one begins.
THEOREM OperandsPassed == ExprSpec => []OpsInTurn
<1>1. ExprInv => OpsInTurn
  <2> SUFFICES ASSUME ExprInv, address = <<>>, at <= Len(cells) PROVE cells[at].is = "op"
    BY DEF OpsInTurn
  <2>1. PICK start, n : ReadsFrom(start, n)
    BY DEF ExprInv
  <2>2. PICK o : o = expr[n + 1]
    OBVIOUS
  <2> QED BY <2>1, <2>2, ReadsOp DEF ExprInv, Decoding
<1> QED BY <1>1, ExprInvariant, PTL

\* The list that DecodeAddrLocation leaves shows every constant of an expression
\* of values as it was written, save those it swaps at another width and implicit
\* values of eight bytes that four do not hold.
THEOREM ConstantsShown == ExprSpec => []ConstantsMeant
<1>1. ExprInv => ConstantsMeant
  <2> SUFFICES ASSUME ExprInv, OnlyShown, at > Len(cells)
               PROVE  /\ Cardinality(ValuesRead) = Cardinality(ValuesWritten)
                      /\ \A i \in ValuesWritten, k \in ValuesRead :
                           Before(ValuesWritten, i) = Before(ValuesRead, k) =>
                             locs[k].idx = ConstMeant(expr[i]) \/ Garbled(expr[i])
    BY DEF ConstantsMeant
  <2>1. PICK start, n : ReadsFrom(start, n) /\ OpsRead(n)
    BY DEF ExprInv
  <2>2. ExprTyped
    BY DEF ExprInv
  <2>3. n = Len(expr)
    <3>1. PICK m, x : m = Len(expr) /\ x = Len(cells)
      OBVIOUS
    <3>2. /\ n \in Nat /\ m \in Nat /\ n <= m /\ at \in Nat /\ x \in Int
          /\ at <= x <=> n < m
      BY <2>1, <2>2, <3>1, PlaceInCells
    <3>3. at > x
      BY <3>1
    <3> QED BY <3>1, <3>2, <3>3
  <2>4. WrittenTo(n) = ValuesWritten
    BY <2>2, <2>3 DEF WrittenTo, ValuesWritten, ExprTyped
  <2> QED BY <2>1, <2>4 DEF OpsRead, ValuesShown, Matched, Agree
<1> QED BY <1>1, ExprInvariant, PTL

\* The address, the index in the storage of a thread, the offset or the place in a
\* vtable that the handlers of the attributes give an element is that of the
\* expression, whatever handler is called and wherever the decoding ended, as far
\* as ElementGiven says: it leaves out negative places in a vtable, and a signed
\* constant of two bytes in a file of the other byte order as an index.
THEOREM LocationsGiven == ExprSpec => []ElementGiven
<1>1. ExprInv => ElementGiven
  BY DEF ExprInv
<1> QED BY <1>1, ExprInvariant, PTL
=============================================================================
