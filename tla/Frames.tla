------------------------------- MODULE Frames -------------------------------
(***************************************************************************)
(* Call frame information: ElfFile::parse_frames goes through .debug_frame *)
(* or .eh_frame once and fills m_dfa, in which the renderers find the size *)
(* of a function's frame by its address (find_dfa).  A record is a CIE or  *)
(* an FDE; the CIE an FDE refers to says how its addresses are encoded.    *)
(*                                                                         *)
(* The bytes of a record are abstracted to the sizes of its addresses and  *)
(* to what parse_dfa finds behind them.  Every FDE refers to a CIE before  *)
(* it, segment selectors are empty.                                        *)
(***************************************************************************)
EXTENDS Integers, Sequences

CONSTANTS Pcs,         \* addresses of functions
          FrameSizes,  \* operands of DW_CFA_def_cfa_offset
          None,        \* no DW_CFA_def_cfa_offset
          Elsewhere,   \* an address that is no function's
          AddrSize,    \* bytes of an address of the file's class
          MaxRecords   \* bound: records of the section

ASSUME NoneAssumption == None \notin FrameSizes /\ Elsewhere \notin Pcs
ASSUME AddrSizeAssumption == AddrSize \in {4, 8}
ASSUME MaxRecordsAssumption == MaxRecords \in Nat

\* DW_EH_PE_*, as 'R' of the augmentation gives them.  Without 'R' addresses are
\* written as the file's are (absptr).
absptr == "absptr"
Encodings == {absptr, "sdata4", "sdata8"}
NoR == "no R"

\* A CIE before version 4 names no address size.
NoSize == 0

\* "behind" says whether a DW_CFA_def_cfa_offset follows the first two
\* addresses' worth of a CIE's instructions.
CIEs == [kind : {"cie"}, R : Encodings \cup {NoR}, ptr_size : {NoSize, 4, 8}, behind : BOOLEAN]
FDEs(n) == [kind : {"fde"}, cie : 1 .. n, pc : Pcs, frame : FrameSizes \cup {None}]
Terminators == [kind : {"zero"}]
Cuts == [kind : {"cut"}]      \* a length that does not fit the section

VARIABLES
  records,       \* the section up to where it is read
  fde_encoding,  \* of one_cie cie, which is used for all records
  eh_addr_size,  \* the file's, or a CIE's while its record is read
  m_dfa,         \* frame sizes by address
  misread,       \* history: keys of m_dfa from records that were misread
  parsing        \* parse_frames has not returned

frameVars == <<records, fde_encoding, eh_addr_size, m_dfa, misread, parsing>>

NoFrames == [pc \in {} |-> None]

FramesInit ==
  /\ records = <<>>
  /\ fde_encoding = absptr
  /\ eh_addr_size = AddrSize
  /\ m_dfa = NoFrames
  /\ misread = {}
  /\ parsing = TRUE

SetFrame(pc, frame) == [p \in DOMAIN m_dfa \cup {pc} |-> IF p = pc THEN frame ELSE m_dfa[p]]

\* read_cie: the encoding stays what it was when the augmentation has no 'R'.
encodingOf(cie) == IF cie.R # NoR THEN cie.R ELSE fde_encoding
ptr_size(cie) == IF cie.ptr_size # NoSize THEN cie.ptr_size ELSE eh_addr_size

\* Mutated form of FdeEncoding: the CIE that was read last is taken for the FDE's.
FdeEncodingOfLast(cie) == fde_encoding

\* An FDE reads its CIE again.
FdeEncoding(cie) == encodingOf(cie)

\* size_of_encoded_value, when eh_addr_size is ptr.
SizeOf(encoding, ptr) == CASE encoding = absptr -> ptr
                           [] encoding = "sdata4" -> 4
                           [] encoding = "sdata8" -> 8

\* The sizes at which pc_begin and pc_range are read.
BeginSize(cie) == SizeOf(FdeEncoding(cie), ptr_size(cie))
RangeSize(cie) == SizeOf(FdeEncoding(cie), AddrSize)

\* What eh_addr_size is behind the record: save_eh_addr_size.
Restored(cie) == AddrSize

Room == parsing /\ Len(records) < MaxRecords

\* A CIE falls through to the code for FDEs: its first instructions are taken
\* for two addresses, and a def_cfa_offset behind them enters m_dfa.
ReadCie ==
  /\ Room
  /\ \E cie \in CIEs :
       /\ records' = Append(records, cie)
       /\ fde_encoding' = encodingOf(cie)
       /\ eh_addr_size' = Restored(cie)
       /\ IF cie.behind
            THEN \E pc \in Pcs \cup {Elsewhere}, frame \in FrameSizes :
                   m_dfa' = SetFrame(pc, frame) /\ misread' = misread \cup {pc}
            ELSE UNCHANGED <<m_dfa, misread>>
  /\ UNCHANGED parsing

\* How the addresses of an FDE of this CIE are written.
WrittenAs(cie) == IF cie.R = NoR THEN absptr ELSE cie.R
WrittenSize(cie) == SizeOf(WrittenAs(cie), IF cie.ptr_size = NoSize THEN AddrSize ELSE cie.ptr_size)

\* The instructions are found behind both addresses.
Aligned(cie) == BeginSize(cie) = WrittenSize(cie) /\ RangeSize(cie) = WrittenSize(cie)

\* byte_get_signed has no case for 8 bytes.
PcRead(cie) == Aligned(cie) /\ FdeEncoding(cie) = WrittenAs(cie) /\ cie.R # "sdata8"

\* Behind its CIE an FDE reads its addresses, then its instructions up to
\* the first def_cfa_offset.  Behind addresses of another size anything is read.
ReadFde ==
  /\ Room
  /\ \E fde \in FDEs(Len(records)) :
       LET cie == records[fde.cie] IN
       /\ cie.kind = "cie"
       /\ records' = Append(records, fde)
       /\ fde_encoding' = FdeEncoding(cie)
       /\ eh_addr_size' = Restored(cie)
       /\ \E pc \in Pcs \cup {Elsewhere}, frame \in FrameSizes \cup {None} :
            /\ PcRead(cie) => pc = fde.pc
            /\ Aligned(cie) => frame = fde.frame
            /\ cie.R = "sdata8" /\ FdeEncoding(cie) = cie.R => pc = Elsewhere
            /\ m_dfa' = IF frame = None THEN m_dfa ELSE SetFrame(pc, frame)
            /\ misread' = IF PcRead(cie) \/ frame = None THEN misread ELSE misread \cup {pc}
  /\ UNCHANGED parsing

\* A length of zero is skipped, in the middle of the section, too.
SkipZero ==
  /\ Room
  /\ \E zero \in Terminators : records' = Append(records, zero)
  /\ UNCHANGED <<fde_encoding, eh_addr_size, m_dfa, misread, parsing>>

\* The section is read, or a length does not fit: what was found stays.
EndOfFrames ==
  /\ parsing
  /\ parsing' = FALSE
  /\ \/ UNCHANGED records
     \/ Room /\ \E cut \in Cuts : records' = Append(records, cut)
  /\ UNCHANGED <<fde_encoding, eh_addr_size, m_dfa, misread>>

FramesNext == ReadCie \/ ReadFde \/ SkipZero \/ EndOfFrames

FramesSpec == FramesInit /\ [][FramesNext]_frameVars

-----------------------------------------------------------------------------
IsFde(k) == records[k].kind = "fde"
CieOf(k) == records[records[k].cie]

\* find_dfa
find_dfa(pc) == IF pc \in DOMAIN m_dfa THEN m_dfa[pc] ELSE None

\* No CIE before the k-th record named an encoding that is not the file's own.
NoEncodingBefore(k) ==
  \A j \in 1 .. k - 1 : records[j].kind = "cie" => WrittenAs(records[j]) = absptr

\* The file's own addresses, or signed four bytes: what compilers emit.  Without
\* 'R' it takes that no CIE before has one, because fde_encoding is not
\* reset, and an address size that is the file's, because pc_range is read in it.
Usual(k) ==
  \/ CieOf(k).R = "sdata4"
  \/ /\ WrittenAs(CieOf(k)) = absptr /\ CieOf(k).ptr_size \in {NoSize, AddrSize}
     /\ CieOf(k).R = absptr \/ NoEncodingBefore(k)

\* The FDEs with a frame for this address.
FramesOf(pc) == {k \in DOMAIN records : IsFde(k) /\ records[k].pc = pc /\ records[k].frame # None}

\* The frame size found for a function is that of its last FDE that has one, if
\* its FDEs are usual and no misread record has taken its address: whatever CIEs
\* of other encodings and sizes lie between a CIE and its FDEs.
FrameOfFunction ==
  \A pc \in Pcs \ misread :
    LET all == {k \in DOMAIN records : IsFde(k) /\ records[k].pc = pc} IN
    (\A k \in all : Usual(k)) =>
       find_dfa(pc) = IF FramesOf(pc) = {} THEN None
                      ELSE records[CHOOSE k \in FramesOf(pc) : \A j \in FramesOf(pc) : j <= k].frame

\* A record is misread only behind an unusual CIE: in a section in which all FDEs
\* are usual and no CIE has a def_cfa_offset behind two addresses' worth of
\* instructions, m_dfa has entries for functions only.
OnlyFunctions ==
  (\A k \in DOMAIN records : /\ IsFde(k) => Usual(k)
                             /\ records[k].kind = "cie" => ~records[k].behind)
  => misread = {} /\ DOMAIN m_dfa \subseteq {records[k].pc : k \in {k \in DOMAIN records : IsFde(k)}}

\* The frames found belong to functions, and to the right ones.
FramesMeant == FrameOfFunction /\ OnlyFunctions
=============================================================================
