------------------------------ MODULE LocExprs ------------------------------
(***************************************************************************)
(* Location expressions: ElfFile::DecodeAddrLocation reads the expression  *)
(* of a DW_AT_location or DW_AT_data_member_location op by op into a list  *)
(* of what to show (param_loc), or stops at the address it begins with;    *)
(* the attribute's handler then decides what the element gets.             *)
(* ElfFile::DecodeLocation reads the constant of a                         *)
(* DW_AT_vtable_elem_location.  A file may be of the other byte order      *)
(* (endc), and some of its constants are cast to int before they are       *)
(* swapped.                                                                *)
(*                                                                         *)
(* A number is the sequence of its bytes, the lowest first, as in the      *)
(* memory of the host.  A LEB128 number is one cell of the data: what      *)
(* becomes of its bytes is in Leb128.  Of the bytes only those that tell   *)
(* signs, widths and orders apart occur.  Offsets of types count from the  *)
(* unit.                                                                   *)
(***************************************************************************)
EXTENDS Naturals, Sequences, FiniteSets, SequencesExt

CONSTANTS address_size_,   \* bytes of an address
          MaxOps           \* bound: operations of an expression

ASSUME AddressSizeAssumption == address_size_ \in {4, 8}
ASSUME MaxOpsAssumption == MaxOps \in Nat

\* Numbers of w bytes, widened to n, cut to the width of int, and zero.
Positive(w) == [i \in 1 .. w |-> IF i = 1 THEN 1 ELSE 0]
Negative(w) == [i \in 1 .. w |-> IF i = 1 /\ w > 1 THEN 1 ELSE 255]
Zero(w) == [i \in 1 .. w |-> 0]
Unsigned(v, n) == v \o Zero(n - Len(v))
Signed(v, n) == v \o [i \in 1 .. n - Len(v) |-> IF Last(v) = 255 THEN 255 ELSE 0]
AsInt(v) == SubSeq(v, 1, 4)
\* ULEB128 of what was written signed, in two groups.
Uleb(v) == IF v = Negative(8) THEN Unsigned(<<1, 63>>, 8) ELSE v

\* .debug_addr: the address at an index (AddressLists has where it is read from).
IndexedAddr(v) == [v EXCEPT ![8] = 1]

\* An operation and its operands, which are bytes or LEB128 numbers.
OneOp(op, args) == [op |-> op, args |-> args]
Fixed(v) == [is |-> "bytes", v |-> v]
Leb(v) == [is |-> "number", v |-> v]

Widths == [const1u |-> 1, const1s |-> 1, const2u |-> 2, const2s |-> 2,
           const4u |-> 4, const4s |-> 4, const8u |-> 8, const8s |-> 8]
FixedConsts == DOMAIN Widths
SignedOps == {"const1s", "const2s", "const4s", "const8s", "consts"}
Constants == FixedConsts \cup {"consts", "constu"}

Plain == {"lit", "exp", "reg", "call_frame_cfa"}   \* no operand
Numbered == {"consts", "constu", "plus_uconst", "convert", "regx", "breg", "bregx",
             "fbreg", "regval_type", "piece"}
Sized == {"deref_size", "deref_type"}
Sizes == {1, 2, 4, 8, 3}     \* lengths of implicit values; the code has no case for 3
\* Those of eight bytes may need all of them, as a double does.
ImplicitValues == {Positive(n) : n \in Sizes} \cup {Negative(8)}

Operations ==
  {OneOp(op, <<>>) : op \in Plain \cup {"form_tls_address", "GNU_push_tls_address", "unknown"}}
    \cup {OneOp(op, <<Fixed(Negative(Widths[op]))>>) : op \in FixedConsts}
    \cup {OneOp(op, <<Fixed(Positive(Widths[op]))>>) : op \in FixedConsts \cap SignedOps}
    \cup {OneOp(op, <<Leb(Positive(8))>>) : op \in {"constu", "plus_uconst", "convert", "regx", "piece"}}
    \cup {OneOp(op, <<Leb(Negative(8))>>) : op \in {"consts", "breg", "fbreg"}}
    \cup {OneOp("bregx", <<Leb(Positive(8)), Leb(Negative(8))>>),
          OneOp("regval_type", <<Leb(Positive(8)), Leb(Zero(8))>>),
          OneOp("deref_size", <<Fixed(<<1>>)>>),
          OneOp("deref_type", <<Fixed(<<1>>), Leb(Zero(8))>>),
          OneOp("addr", <<Fixed(Positive(address_size_))>>),
          OneOp("addrx", <<Leb(Positive(8))>>)}
    \cup {OneOp("implicit_value", <<Leb([Zero(8) EXCEPT ![1] = Len(v)]), Fixed(v)>>) : v \in ImplicitValues}

\* As they are in a file of the host's byte order or the other one.
Ordered(v, other) == IF other THEN Reverse(v) ELSE v
ArgCells(arg, other) ==
  IF arg.is = "number" THEN <<arg>>
  ELSE [i \in DOMAIN arg.v |-> [is |-> "byte", v |-> Ordered(arg.v, other)[i]]]
OpCells(o, other) ==
  <<[is |-> "op", v |-> o.op]>>
    \o FlattenSeq([i \in DOMAIN o.args |-> ArgCells(o.args[i], other)])

VARIABLES
  swapped,   \* the file is not of the host's byte order
  expr,      \* history: the operations that were written
  cells,     \* what there is to read
  at,        \* the cell to be read
  locs,      \* pl->locs
  value,     \* an int that is declared before the loop
  address,   \* empty while it decodes, then the address that is returned, or 0
  given      \* what the element was given, <<kind, number>>

exprInput == <<swapped, expr, cells>>
exprVars == <<exprInput, at, locs, value, address, given>>

ExprInit ==
  /\ swapped \in BOOLEAN
  /\ expr \in UNION {[1 .. n -> Operations] : n \in 0 .. MaxOps}
  /\ cells = FlattenSeq([i \in DOMAIN expr |-> OpCells(expr[i], swapped)])
  /\ at = 1
  /\ locs = <<>>
  /\ value = Zero(4)
  /\ address = <<>>
  /\ given = <<>>

-----------------------------------------------------------------------------
endc(v) == Ordered(v, swapped)

Decoding == address = <<>> /\ at <= Len(cells)
At(ops) == Decoding /\ cells[at].is = "op" /\ cells[at].v \in ops
Op == cells[at].v
Operand(n) == [i \in 1 .. n |-> cells[at + i].v]   \* that follow the operation
Number(i) == cells[at + i].v

Loc(type, idx, offset) == [type |-> type, idx |-> idx, offset |-> offset]
Push(loc) == locs' = Append(locs, loc)
Past(n) == at' = at + 1 + n /\ UNCHANGED <<exprInput, address, given>>

\* DW_OP_litX, DW_OP_regX, DW_OP_call_frame_cfa and the operators
ReadPlain ==
  /\ At(Plain)
  /\ Push(Loc(IF Op = "lit" THEN "fvalue" ELSE Op, Zero(8), Zero(4)))
  /\ Past(0)
  /\ UNCHANGED value

\* Mutated form of SwappedConst: an unsigned constant is swapped as an int, too.
SwappedConstAsInt(n) ==
  IF n = 2 THEN endc(Unsigned(Operand(n), 4)) ELSE endc(Operand(n))

\* The constant of n bytes that follows: the signed one of two bytes is an int
\* already when it is swapped.
SwappedConst(n) ==
  IF Op = "const2s" THEN endc(Signed(Operand(n), 4)) ELSE endc(Operand(n))

\* push_uvalue, push_svalue, push_value; eight bytes leave value alone.
ReadConst ==
  /\ At(FixedConsts)
  /\ LET c == SwappedConst(Widths[Op]) IN
       /\ Push(CASE Op = "const8u"     -> Loc("uvalue", c, Zero(4))
                 [] Op \in SignedOps   -> Loc("svalue", Signed(c, 8), Zero(4))
                 [] OTHER              -> Loc("fvalue", Unsigned(c, 8), Zero(4)))
       /\ value' = CASE Widths[Op] = 8 -> value
                     [] Op \in SignedOps -> Signed(c, 4)
                     [] OTHER -> Unsigned(c, 4)
  /\ Past(Widths[Op])

ReadNumber ==
  /\ At(Numbered)
  /\ LET n == Number(1) IN
       /\ Push(CASE Op = "consts" -> Loc("svalue", n, Zero(4))
                 [] Op = "constu" -> Loc("uvalue", n, Zero(4))
                 [] Op \in {"plus_uconst", "fbreg", "breg"} -> Loc(Op, Zero(8), AsInt(n))
                 [] Op = "convert" -> Loc("convert", n, Zero(4))
                 [] Op = "bregx" -> Loc("breg", Unsigned(AsInt(n), 8), AsInt(Number(2)))
                 [] Op = "regval_type" -> Loc("regval_type", Number(2), AsInt(n))
                 [] Op = "regx" -> Loc("reg", Unsigned(AsInt(n), 8), Zero(4))
                 [] OTHER -> Loc("fpiece", Unsigned(AsInt(n), 8), Zero(4)))
       /\ value' = IF Op = "regval_type" THEN AsInt(n) ELSE value
  /\ Past(IF Op \in {"bregx", "regval_type"} THEN 2 ELSE 1)

\* Mutated form of SizedOperands: the size alone is passed.
SizedOperandsShort == 1

SizedOperands == IF Op = "deref_size" THEN 1 ELSE 2

ReadSized ==
  /\ At(Sized)
  /\ LET size == Unsigned(Operand(1), 4) IN
       /\ value' = size
       /\ Push(IF Op = "deref_size" THEN Loc(Op, Unsigned(size, 8), Zero(4))
                                    ELSE Loc(Op, Number(2), size))
  /\ Past(SizedOperands)

\* Eight bytes are cut to the first four before they are swapped.
ReadImplicit ==
  /\ At({"implicit_value"})
  /\ LET n == Number(1)[1]
         block == [i \in 1 .. n |-> cells[at + 1 + i].v]
     IN /\ IF n \in {1, 2, 4, 8}
             THEN Push(Loc("imp_value", Unsigned(endc(IF n = 8 THEN AsInt(block) ELSE block), 8), Zero(4)))
             ELSE UNCHANGED locs
        /\ Past(1 + n)
  /\ UNCHANGED value

-----------------------------------------------------------------------------
\* push_tls, push_tls_addr: the constant on top becomes the index of a variable
\* of its thread.  An operand of another type is not recognised.
BecomesTls(types) == locs # <<>> /\ Last(locs).type \in types
TlsIndex(v) == Loc("tls_index", Zero(8), AsInt(v))

FormTls ==
  /\ At({"form_tls_address"})
  /\ IF BecomesTls({"svalue", "uvalue"})
       THEN locs' = Append(Front(locs), TlsIndex(Last(locs).idx)) ELSE UNCHANGED locs
  /\ Past(0)
  /\ UNCHANGED value

\* Mutated form of GnuTls: what the list holds is not looked at.
GnuTlsOfValue ==
  /\ At({"GNU_push_tls_address"})
  /\ locs' = <<TlsIndex(value)>>
  /\ Past(0)
  /\ UNCHANGED value

\* Otherwise value is pushed, whatever the last constant to set it.
GnuTls ==
  /\ At({"GNU_push_tls_address"})
  /\ IF BecomesTls({"fvalue", "svalue"})
       THEN locs' = Append(Front(locs), TlsIndex(Last(locs).idx))
       ELSE Push(TlsIndex(value))
  /\ Past(0)
  /\ UNCHANGED value

\* An address ends the decoding, whatever follows it.
ReadAddr ==
  /\ At({"addr", "addrx"})
  /\ address' = IF Op = "addr" THEN Unsigned(endc(Operand(address_size_)), 8) ELSE IndexedAddr(Number(1))
  /\ UNCHANGED <<exprInput, at, locs, value, given>>

\* The end of the expression, or an operation there is no case for.
EndOfExpr ==
  /\ address = <<>>
  /\ at > Len(cells) \/ At({"unknown"})
  /\ address' = Zero(8)
  /\ UNCHANGED <<exprInput, at, locs, value, given>>

-----------------------------------------------------------------------------
is_tls == Len(locs) = 1 /\ locs[1].type = "tls_index"
is_plus_uconst == Len(locs) = 1 /\ locs[1].type = "plus_uconst"

Decoded == address # <<>> /\ given = <<>>
Give(kind, v) == given' = <<kind, v>>
GiveAddr == IF address # Zero(8) THEN Give("addr", address) ELSE Give("nothing", address)

\* DW_AT_location of a variable; a local one with -x also keeps other locations.
LocationOfVar ==
  /\ Decoded
  /\ \/ is_tls /\ Give("tls", locs[1].offset)
     \/ ~is_tls /\ locs # <<>> /\ Give("loc", locs)
     \/ ~is_tls /\ GiveAddr
  /\ UNCHANGED <<exprInput, at, locs, value, address>>

\* ... of a parameter
LocationOfParam ==
  /\ Decoded
  /\ IF locs # <<>> THEN Give("loc", locs) ELSE Give("nothing", address)
  /\ UNCHANGED <<exprInput, at, locs, value, address>>

\* DW_AT_data_member_location as a block
MemberLocation ==
  /\ Decoded
  /\ IF is_plus_uconst THEN Give("offset", Signed(locs[1].offset, 8)) ELSE Give("nothing", address)
  /\ UNCHANGED <<exprInput, at, locs, value, address>>

\* DW_AT_vtable_elem_location: DecodeLocation returns the first constant, and
\* takes signed ones for unsigned.
VtableLocation ==
  /\ at = 1 /\ Decoding /\ given = <<>>
  /\ LET idx == CASE At(FixedConsts) -> Unsigned(endc(Operand(Widths[Op])), 8)
                  [] At({"consts", "constu"}) -> Uleb(Number(1))
                  [] OTHER -> Zero(8)
     IN IF idx # Zero(8) THEN Give("vtable", idx) ELSE Give("nothing", idx)
  /\ address' = Zero(8)
  /\ UNCHANGED <<exprInput, at, locs, value>>

ExprNext ==
  \/ ReadPlain
  \/ ReadConst
  \/ ReadNumber
  \/ ReadSized
  \/ ReadImplicit
  \/ FormTls
  \/ GnuTls
  \/ ReadAddr
  \/ EndOfExpr
  \/ LocationOfVar
  \/ LocationOfParam
  \/ MemberLocation
  \/ VtableLocation

ExprSpec == ExprInit /\ [][ExprNext]_exprVars

-----------------------------------------------------------------------------
(***************************************************************************)
(* What was written (DWARF 5, 2.5 and 2.6).                                *)
(***************************************************************************)
TlsOps == {"form_tls_address", "GNU_push_tls_address"}
ConstMeant(o) == IF o.op \in SignedOps THEN Signed(Last(o.args).v, 8) ELSE Unsigned(Last(o.args).v, 8)

MeantAddr(o) == IF o.op = "addrx" THEN IndexedAddr(ConstMeant(o)) ELSE ConstMeant(o)
IsNegative(o) == o.op \in SignedOps /\ Last(Last(o.args).v) = 255

\* Two constants are not read as they were written: the signed one of two bytes
\* in a file of the other byte order; and an implicit value of eight, in such a
\* file always, in one of the host's order when four bytes do not hold it.
CutShort(v) == v # Unsigned(AsInt(v), 8)
Garbled(o) ==
  \/ swapped /\ o.op = "const2s"
  \/ /\ o.op = "implicit_value" /\ Len(o.args[2].v) = 8
     /\ swapped \/ CutShort(o.args[2].v)

Valued(o) ==
  \/ o.op \in Constants
  \/ o.op = "implicit_value" /\ Len(o.args[2].v) \in {1, 2, 4, 8}
ValuesWritten == {i \in DOMAIN expr : Valued(expr[i])}
ValueTypes == {"fvalue", "svalue", "uvalue", "imp_value"}
ValuesRead == {k \in DOMAIN locs : locs[k].type \in ValueTypes}
Before(S, k) == Cardinality({j \in S : j < k})

\* No operand is taken for an operation: where the decoder goes on, one begins.
OpsInTurn == address = <<>> /\ at <= Len(cells) => cells[at].is = "op"

\* Of a location that only computes, as many constants are shown as were written,
\* the n-th one for the n-th, and each as it was written, whatever the byte order
\* of the file, save the two kinds that Garbled names.
OnlyShown == \A i \in DOMAIN expr : expr[i].op \notin TlsOps \cup {"lit", "addr", "addrx", "unknown"}
ConstantsMeant ==
  OnlyShown /\ at > Len(cells) =>
    /\ Cardinality(ValuesRead) = Cardinality(ValuesWritten)
    /\ \A i \in ValuesWritten, k \in ValuesRead :
         Before(ValuesWritten, i) = Before(ValuesRead, k) =>
           locs[k].idx = ConstMeant(expr[i]) \/ Garbled(expr[i])

\* What an element is given is what its expression says: an address is that of
\* its first DW_OP_addr, and what was to be added to it is lost; the index of a
\* variable of its thread is the constant before the operation, if that is one,
\* and not an earlier constant; an offset and the place in a vtable (which is not
\* negative) are as written.
Ahead(i, ops) == \A j \in 1 .. i - 1 : expr[j].op \notin ops
IsFirst(i, ops) == expr[i].op \in ops /\ Ahead(i, ops)
ElementGiven ==
  given # <<>> =>
    CASE given[1] = "addr" ->
           \E i \in DOMAIN expr : IsFirst(i, {"addr", "addrx"}) /\ given[2] = MeantAddr(expr[i])
      [] given[1] = "tls" ->
           \A i \in 2 .. Len(expr) :
             IsFirst(i, TlsOps) /\ expr[i - 1].op \in Constants =>
               given[2] = AsInt(ConstMeant(expr[i - 1])) \/ Garbled(expr[i - 1])
      [] given[1] = "offset" ->
           \E i \in DOMAIN expr : IsFirst(i, {"plus_uconst"}) /\ given[2] = ConstMeant(expr[i])
      [] given[1] = "vtable" ->
           given[2] = ConstMeant(expr[1]) \/ IsNegative(expr[1])
      [] OTHER -> TRUE
=============================================================================
