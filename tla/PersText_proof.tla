---------------------------- MODULE PersText_proof ----------------------------
(***************************************************************************)
(* A theorem about PersText: for any number of functions, blocks, calls    *)
(* and compilers, and wherever one of them is killed, the references of    *)
(* the file are read as those of the function and the block they were      *)
(* found in.                                                               *)
(***************************************************************************)
EXTENDS PersText, SequenceTheorems, TLAPS

Lines == [kind : {"cu", "func", "bb", "ref", "err", "torn"}, says : Funcs \cup {Nobody},
          bb : Blocks \cup {Nowhere}, about : Funcs \cup {Nobody}, in : Blocks \cup {Nowhere}]

TextTypeOK ==
  /\ m_fp \in BOOLEAN /\ inUnit \in BOOLEAN
  /\ m_fn \in Funcs \cup {Nobody} /\ block \in Blocks \cup {Nowhere} /\ m_bb \in Blocks
  /\ m_func_dunped \in BOOLEAN /\ m_bb_dumped \in BOOLEAN
  /\ buffer \in Seq(Lines) /\ file \in Seq(Lines)
  /\ half \in {"nobody's", "its", "killed"}

\* The file as it will be, but for what a kill takes away.
Stream == file \o buffer

-----------------------------------------------------------------------------
(***************************************************************************)
(* How a sequence of lines is read.                                        *)
(***************************************************************************)
Refers(line) == line.kind \in {"ref", "err"}

\* The last line "func" before the k-th line says f, the last "bb" behind it b.
FuncAbove(q, k, f) ==
  \E j \in 1 .. k - 1 : /\ q[j].kind = "func" /\ q[j].says = f
                        /\ \A i \in j + 1 .. k - 1 : q[i].kind # "func"

BlockAbove(q, k, b) ==
  \E j \in 1 .. k - 1 : /\ q[j].kind = "bb" /\ q[j].bb = b
                        /\ \A i \in j + 1 .. k - 1 : q[i].kind \notin {"func", "bb"}

ReadRight(q, k) ==
  Refers(q[k]) =>
    /\ \/ q[k].says = q[k].about /\ q[k].about # Nobody
       \/ q[k].says = Nobody /\ FuncAbove(q, k, q[k].about)
    /\ q[k].in # Nowhere =>
         \/ q[k].bb = q[k].in
         \/ q[k].bb = Nowhere /\ BlockAbove(q, k, q[k].in)

AllRight(q) == \A k \in 1 .. Len(q) : ReadRight(q, k)

\* What a line behind all of them would be read in.
FuncAtEnd(q, f) == FuncAbove(q, Len(q) + 1, f)
BlockAtEnd(q, b) == BlockAbove(q, Len(q) + 1, b)

\* Reading looks at what is above.
LEMMA SameAbove ==
  ASSUME NEW q, NEW r, NEW k, NEW m \in Nat, k \in 1 .. m + 1, \A i \in 1 .. m : r[i] = q[i]
  PROVE  \A x : (FuncAbove(r, k, x) <=> FuncAbove(q, k, x)) /\ (BlockAbove(r, k, x) <=> BlockAbove(q, k, x))
  BY DEF FuncAbove, BlockAbove

LEMMA AppendFacts ==
  ASSUME NEW S, NEW q \in Seq(S), NEW c \in S
  PROVE  /\ Append(q, c) \in Seq(S) /\ Len(q) \in Nat /\ Len(Append(q, c)) = Len(q) + 1
         /\ \A i \in 1 .. Len(q) : Append(q, c)[i] = q[i]
         /\ Append(q, c)[Len(q) + 1] = c
  OBVIOUS

\* A line that is read right where it is put.
LEMMA OneMore ==
  ASSUME NEW q \in Seq(Lines), AllRight(q), NEW line \in Lines,
         Refers(line) =>
           /\ \/ line.says = line.about /\ line.about # Nobody
              \/ line.says = Nobody /\ FuncAtEnd(q, line.about)
           /\ line.in # Nowhere =>
                \/ line.bb = line.in
                \/ line.bb = Nowhere /\ BlockAtEnd(q, line.in)
  PROVE  Append(q, line) \in Seq(Lines) /\ AllRight(Append(q, line))
<1> DEFINE r == Append(q, line)
<1>1. /\ r \in Seq(Lines) /\ Len(q) \in Nat /\ Len(r) = Len(q) + 1
      /\ \A i \in 1 .. Len(q) : r[i] = q[i]
      /\ r[Len(q) + 1] = line
  BY AppendFacts
<1> HIDE DEF r
<1>2. ASSUME NEW k \in 1 .. Len(r) PROVE ReadRight(r, k)
  <2>1. k \in 1 .. Len(q) + 1
    BY <1>1
  <2>2. \A x : (FuncAbove(r, k, x) <=> FuncAbove(q, k, x)) /\ (BlockAbove(r, k, x) <=> BlockAbove(q, k, x))
    BY <1>1, <2>1, SameAbove
  <2>3. CASE k \in 1 .. Len(q)
    <3>1. ReadRight(q, k) /\ r[k] = q[k]
      BY <1>1, <2>3 DEF AllRight
    <3> QED BY <2>2, <3>1 DEF ReadRight
  <2>4. CASE k = Len(q) + 1
    <3>1. r[k] = line
      BY <1>1, <2>4
    <3> QED BY <2>2, <2>4, <3>1 DEF ReadRight, FuncAtEnd, BlockAtEnd
  <2> QED BY <1>1, <2>1, <2>3, <2>4
<1> QED BY <1>1, <1>2 DEF AllRight, r

\* What the next line is read in.
LEMMA EndOfOneMore ==
  ASSUME NEW q \in Seq(Lines), NEW line \in Lines
  PROVE  /\ line.kind = "func" => FuncAtEnd(Append(q, line), line.says)
         /\ line.kind # "func" => \A f : FuncAtEnd(q, f) => FuncAtEnd(Append(q, line), f)
         /\ line.kind = "bb" => BlockAtEnd(Append(q, line), line.bb)
         /\ line.kind \notin {"func", "bb"} => \A b : BlockAtEnd(q, b) => BlockAtEnd(Append(q, line), b)
<1> DEFINE r == Append(q, line)
<1>1. /\ Len(q) \in Nat /\ Len(r) = Len(q) + 1
      /\ \A i \in 1 .. Len(q) : r[i] = q[i]
      /\ r[Len(q) + 1] = line
  BY AppendFacts
<1> HIDE DEF r
<1>2. line.kind = "func" => FuncAtEnd(r, line.says)
  BY <1>1 DEF FuncAtEnd, FuncAbove
<1>3. line.kind = "bb" => BlockAtEnd(r, line.bb)
  BY <1>1 DEF BlockAtEnd, BlockAbove
<1>4. ASSUME line.kind # "func", NEW f, FuncAtEnd(q, f) PROVE FuncAtEnd(r, f)
  <2>1. PICK j \in 1 .. Len(q) : /\ q[j].kind = "func" /\ q[j].says = f
                                 /\ \A i \in j + 1 .. Len(q) : q[i].kind # "func"
    BY <1>1, <1>4 DEF FuncAtEnd, FuncAbove
  <2>2. \A i \in j + 1 .. Len(q) + 1 : r[i].kind # "func"
    <3> SUFFICES ASSUME NEW i \in j + 1 .. Len(q) + 1 PROVE r[i].kind # "func"
      OBVIOUS
    <3>1. CASE i = Len(q) + 1
      BY <1>1, <1>4, <3>1
    <3>2. CASE i # Len(q) + 1
      BY <1>1, <2>1, <3>2
    <3> QED BY <3>1, <3>2
  <2>3. j \in 1 .. Len(r) /\ Len(r) + 1 - 1 = Len(q) + 1 /\ r[j] = q[j]
    BY <1>1
  <2> QED BY <2>1, <2>2, <2>3 DEF FuncAtEnd, FuncAbove
<1>5. ASSUME line.kind \notin {"func", "bb"}, NEW b, BlockAtEnd(q, b) PROVE BlockAtEnd(r, b)
  <2>1. PICK j \in 1 .. Len(q) : /\ q[j].kind = "bb" /\ q[j].bb = b
                                 /\ \A i \in j + 1 .. Len(q) : q[i].kind \notin {"func", "bb"}
    BY <1>1, <1>5 DEF BlockAtEnd, BlockAbove
  <2>2. \A i \in j + 1 .. Len(q) + 1 : r[i].kind \notin {"func", "bb"}
    <3> SUFFICES ASSUME NEW i \in j + 1 .. Len(q) + 1 PROVE r[i].kind \notin {"func", "bb"}
      OBVIOUS
    <3>1. CASE i = Len(q) + 1
      BY <1>1, <1>5, <3>1
    <3>2. CASE i # Len(q) + 1
      BY <1>1, <2>1, <3>2
    <3> QED BY <3>1, <3>2
  <2>3. j \in 1 .. Len(r) /\ Len(r) + 1 - 1 = Len(q) + 1 /\ r[j] = q[j]
    BY <1>1
  <2> QED BY <2>1, <2>2, <2>3 DEF BlockAtEnd, BlockAbove
<1> QED BY <1>2, <1>3, <1>4, <1>5 DEF r

\* Lines that only name a unit may be cut, and lines at the end be missing.
LEMMA ReadSame ==
  ASSUME NEW q \in Seq(Lines), NEW r \in Seq(Lines), Len(r) <= Len(q), AllRight(q),
         \A k \in 1 .. Len(r) : \/ r[k] = q[k]
                                \/ q[k].kind = "cu" /\ r[k].kind = "torn"
  PROVE  /\ AllRight(r)
         /\ Len(r) = Len(q) => \A x : /\ (FuncAtEnd(q, x) => FuncAtEnd(r, x))
                                      /\ (BlockAtEnd(q, x) => BlockAtEnd(r, x))
<1>1. Len(q) \in Nat /\ Len(r) \in Nat
  OBVIOUS
<1>2. ASSUME NEW k \in 1 .. Len(r) + 1, NEW x
      PROVE  /\ FuncAbove(q, k, x) => FuncAbove(r, k, x)
             /\ BlockAbove(q, k, x) => BlockAbove(r, k, x)
  <2>1. k - 1 \in Nat /\ k - 1 <= Len(r)
    BY <1>1
  <2>2. \A i \in 1 .. k - 1 :
          /\ q[i].kind \in {"func", "bb"} => r[i] = q[i]
          /\ q[i].kind # "func" => r[i].kind # "func"
          /\ q[i].kind \notin {"func", "bb"} => r[i].kind \notin {"func", "bb"}
    <3> SUFFICES ASSUME NEW i \in 1 .. k - 1
                 PROVE  /\ q[i].kind \in {"func", "bb"} => r[i] = q[i]
                        /\ q[i].kind # "func" => r[i].kind # "func"
                        /\ q[i].kind \notin {"func", "bb"} => r[i].kind \notin {"func", "bb"}
      OBVIOUS
    <3>1. i \in 1 .. Len(r)
      BY <1>1, <2>1
    <3>2. r[i] = q[i] \/ (q[i].kind = "cu" /\ r[i].kind = "torn")
      BY <3>1
    <3> QED BY <3>2
  <2>3. \A j \in 1 .. k - 1 : \A i \in j + 1 .. k - 1 : i \in 1 .. k - 1
    BY <2>1
  <2> QED BY <2>2, <2>3 DEF FuncAbove, BlockAbove
<1>3. ASSUME NEW k \in 1 .. Len(r) PROVE ReadRight(r, k)
  <2>1. k \in 1 .. Len(r) + 1 /\ k \in 1 .. Len(q)
    BY <1>1
  <2>2. ReadRight(q, k)
    BY <2>1 DEF AllRight
  <2>3. Refers(r[k]) => r[k] = q[k]
    BY DEF Refers
  <2> QED BY <1>2, <2>1, <2>2, <2>3 DEF ReadRight
<1>4. Len(r) + 1 \in 1 .. Len(r) + 1
  BY <1>1
<1> QED BY <1>2, <1>3, <1>4 DEF AllRight, FuncAtEnd, BlockAtEnd

-----------------------------------------------------------------------------
\* A compiler that continues half a line begins with the line of its unit.
UnitFirst ==
  half = "killed" => (IF buffer = <<>> THEN ~inUnit ELSE Head(buffer).kind = "cu")

\* What the two lines that are put off would say is said, or will be.
HeadsKnown ==
  /\ m_fn # Nobody /\ m_func_dunped => FuncAtEnd(Stream, m_fn)
  /\ block # Nowhere =>
       m_bb = block /\ (m_bb_dumped => m_func_dunped /\ BlockAtEnd(Stream, block))

TextInv ==
  /\ TextTypeOK
  /\ m_fn = Nobody => block = Nowhere
  /\ ~inUnit => m_fn = Nobody /\ buffer = <<>>
  /\ UnitFirst
  /\ AllRight(Stream)
  /\ HeadsKnown

LEMMA JoinFacts ==
  ASSUME NEW S, NEW q \in Seq(S), NEW r \in Seq(S)
  PROVE  /\ q \o r \in Seq(S) /\ Len(q) \in Nat /\ Len(r) \in Nat /\ Len(q \o r) = Len(q) + Len(r)
         /\ \A k \in 1 .. Len(q) : (q \o r)[k] = q[k]
         /\ \A k \in 1 .. Len(r) : (q \o r)[Len(q) + k] = r[k]
  OBVIOUS

LEMMA AppendJoined ==
  ASSUME NEW S, NEW q \in Seq(S), NEW r \in Seq(S), NEW c \in S
  PROVE  q \o Append(r, c) = Append(q \o r, c)
  OBVIOUS

LEMMA PutOne ==
  ASSUME NEW S, NEW q \in Seq(S), NEW r \in Seq(S), NEW a \in S
  PROVE  /\ q \o (r \o <<a>>) = Append(q \o r, a)
         /\ r \o <<a>> = Append(r, a) /\ r \o <<a>> \in Seq(S) /\ <<a>> \in Seq(S)
         /\ q \o r \in Seq(S) /\ Append(q \o r, a) \in Seq(S)
<1>1. r \o <<a>> = Append(r, a) /\ <<a>> \in Seq(S) /\ Append(r, a) \in Seq(S)
  OBVIOUS
<1>2. q \o Append(r, a) = Append(q \o r, a)
  BY AppendJoined
<1>3. q \o r \in Seq(S) /\ Append(q \o r, a) \in Seq(S)
  OBVIOUS
<1> QED BY <1>1, <1>2, <1>3

\* Lines put behind others are put there one after the other.
LEMMA PutMore ==
  ASSUME NEW S, NEW q \in Seq(S), NEW r \in Seq(S), NEW l \in Seq(S), NEW a \in S
  PROVE  /\ q \o (r \o Append(l, a)) = Append(q \o (r \o l), a)
         /\ r \o Append(l, a) \in Seq(S) /\ Append(l, a) \in Seq(S)
<1>1. /\ Append(l, a) \in Seq(S) /\ r \o l \in Seq(S) /\ Append(r \o l, a) \in Seq(S)
  OBVIOUS
<1>2. r \o Append(l, a) = Append(r \o l, a)
  BY AppendJoined
<1>3. q \o Append(r \o l, a) = Append(q \o (r \o l), a)
  BY <1>1, AppendJoined
<1> QED BY <1>1, <1>2, <1>3

LEMMA AppendNotEmpty ==
  ASSUME NEW S, NEW l \in Seq(S), NEW a \in S
  PROVE  Append(l, a) # <<>>
<1>1. Len(l) \in Nat /\ Len(Append(l, a)) = Len(l) + 1
  OBVIOUS
<1> SUFFICES ASSUME Append(l, a) = <<>> PROVE FALSE
  OBVIOUS
<1>2. Len(Append(l, a)) = 0
  OBVIOUS
<1> QED BY <1>1, <1>2

LEMMA PutHead ==
  ASSUME NEW S, NEW r \in Seq(S), NEW l \in Seq(S), l # <<>>
  PROVE  r \o l # <<>> /\ Head(r \o l) = IF r = <<>> THEN Head(l) ELSE Head(r)
  OBVIOUS

\* n lines of b go to f, with h for the first of them.
FlushedTo(f, b, h, n) == f \o <<h>> \o SubSeq(b, 2, n)
LeftOver(b, n) == SubSeq(b, n + 1, Len(b))
Moved(f, b, h, n) == FlushedTo(f, b, h, n) \o LeftOver(b, n)

MovedRight(S, f, b, h, n) ==
  /\ FlushedTo(f, b, h, n) \in Seq(S) /\ LeftOver(b, n) \in Seq(S)
  /\ Moved(f, b, h, n) \in Seq(S) /\ f \o b \in Seq(S)
  /\ Len(f \o b) \in Nat /\ Len(Moved(f, b, h, n)) = Len(f \o b)
  /\ Len(f) + 1 \in 1 .. Len(f \o b)
  /\ (f \o b)[Len(f) + 1] = Head(b) /\ Moved(f, b, h, n)[Len(f) + 1] = h
  /\ \A k \in 1 .. Len(f \o b) : k # Len(f) + 1 => Moved(f, b, h, n)[k] = (f \o b)[k]

LEMMA FlushFacts ==
  ASSUME NEW S, NEW f \in Seq(S), NEW b \in Seq(S), NEW h \in S, NEW n \in 1 .. Len(b)
  PROVE  MovedRight(S, f, b, h, n)
<1>a. PICK z, y, r, p :
        /\ z = FlushedTo(f, b, h, n) /\ y = LeftOver(b, n)
        /\ r = Moved(f, b, h, n) /\ p = f \o b
  OBVIOUS
<1>0. z = f \o <<h>> \o SubSeq(b, 2, n) /\ y = SubSeq(b, n + 1, Len(b)) /\ r = z \o y /\ p = f \o b
  BY <1>a DEF FlushedTo, LeftOver, Moved
<1>1. Len(f) \in Nat /\ Len(b) \in Nat /\ n \in Nat /\ n >= 1 /\ n <= Len(b) /\ Head(b) = b[1]
  OBVIOUS
<1>2. PICK x : x = SubSeq(b, 2, n)
  OBVIOUS
<1>3. x \in Seq(S) /\ Len(x) = n - 1 /\ \A k \in 1 .. n - 1 : x[k] = b[k + 1]
  <2>1. 2 \in Int /\ n \in Int /\ \A k \in 2 .. n : b[k] \in S
    BY <1>1, ElementOfSeq
  <2>2. /\ x \in Seq(S) /\ Len(x) = IF 2 <= n THEN n - 2 + 1 ELSE 0
        /\ \A k \in 1 .. n - 2 + 1 : x[k] = b[2 + k - 1]
    BY <1>2, <2>1, SubSeqProperties
  <2>3. \A k \in 1 .. n - 1 : k \in 1 .. n - 2 + 1 /\ 2 + k - 1 = k + 1
    BY <1>1
  <2>4. Len(x) = n - 1
    BY <1>1, <2>2
  <2> QED BY <2>2, <2>3, <2>4
<1>4. y \in Seq(S) /\ Len(y) = Len(b) - n /\ \A k \in 1 .. Len(b) - n : y[k] = b[k + n]
  <2>1. n + 1 \in Int /\ Len(b) \in Int /\ \A k \in n + 1 .. Len(b) : b[k] \in S
    BY <1>1, ElementOfSeq
  <2>2. /\ y \in Seq(S) /\ Len(y) = IF n + 1 <= Len(b) THEN Len(b) - (n + 1) + 1 ELSE 0
        /\ \A k \in 1 .. Len(b) - (n + 1) + 1 : y[k] = b[n + 1 + k - 1]
    BY <1>0, <2>1, SubSeqProperties
  <2>3. \A k \in 1 .. Len(b) - n : k \in 1 .. Len(b) - (n + 1) + 1 /\ n + 1 + k - 1 = k + n
    BY <1>1
  <2>4. Len(y) = Len(b) - n
    BY <1>1, <2>2
  <2> QED BY <2>2, <2>3, <2>4
<1>5. PICK g : g = f \o <<h>>
  OBVIOUS
<1>6. g \in Seq(S) /\ Len(g) = Len(f) + 1 /\ g[Len(f) + 1] = h /\ \A k \in 1 .. Len(f) : g[k] = f[k]
  BY <1>1, <1>5
<1>7. /\ p \in Seq(S) /\ Len(p) = Len(f) + Len(b)
      /\ \A k \in 1 .. Len(f) : p[k] = f[k]
      /\ \A k \in 1 .. Len(b) : p[Len(f) + k] = b[k]
  BY <1>0, JoinFacts
<1>8. z = g \o x
  BY <1>0, <1>2, <1>5
<1>9. /\ z \in Seq(S) /\ Len(z) = Len(f) + n
      /\ \A k \in 1 .. Len(f) + 1 : z[k] = g[k]
      /\ \A k \in 1 .. n - 1 : z[Len(f) + 1 + k] = b[k + 1]
  <2>1. g \in Seq(S) /\ x \in Seq(S)
    BY <1>3, <1>6
  <2>2. /\ z \in Seq(S) /\ Len(z) = Len(g) + Len(x)
        /\ \A k \in 1 .. Len(g) : z[k] = g[k]
        /\ \A k \in 1 .. Len(x) : z[Len(g) + k] = x[k]
    BY <1>8, <2>1, JoinFacts
  <2>3. Len(g) = Len(f) + 1 /\ Len(x) = n - 1 /\ \A k \in 1 .. n - 1 : x[k] = b[k + 1]
    BY <1>3, <1>6
  <2>4. Len(z) = Len(f) + n
    BY <1>1, <2>2, <2>3
  <2> QED BY <2>2, <2>3, <2>4
<1>10. /\ r \in Seq(S) /\ Len(r) = Len(f) + Len(b)
       /\ \A k \in 1 .. Len(f) + n : r[k] = z[k]
       /\ \A k \in 1 .. Len(b) - n : r[Len(f) + n + k] = b[k + n]
  <2>1. z \in Seq(S) /\ y \in Seq(S)
    BY <1>4, <1>9
  <2>2. /\ r \in Seq(S) /\ Len(r) = Len(z) + Len(y)
        /\ \A k \in 1 .. Len(z) : r[k] = z[k]
        /\ \A k \in 1 .. Len(y) : r[Len(z) + k] = y[k]
    <3>1. r = z \o y
      BY <1>0
    <3> QED BY <2>1, <3>1, JoinFacts
  <2>3. Len(z) = Len(f) + n /\ Len(y) = Len(b) - n /\ \A k \in 1 .. Len(b) - n : y[k] = b[k + n]
    BY <1>4, <1>9
  <2>4. Len(r) = Len(f) + Len(b)
    BY <1>1, <2>2, <2>3
  <2> QED BY <2>2, <2>3, <2>4
<1>11. r[Len(f) + 1] = h /\ p[Len(f) + 1] = Head(b) /\ Len(f) + 1 \in 1 .. Len(p)
  <2>1. Len(f) + 1 \in 1 .. Len(f) + 1 /\ Len(f) + 1 \in 1 .. Len(f) + n /\ 1 \in 1 .. Len(b)
    BY <1>1
  <2>2. r[Len(f) + 1] = g[Len(f) + 1]
    BY <1>9, <1>10, <2>1
  <2>3. p[Len(f) + 1] = b[1]
    BY <1>7, <2>1
  <2>4. Len(f) + 1 \in 1 .. Len(p)
    BY <1>1, <1>7
  <2> QED BY <1>1, <1>6, <2>2, <2>3, <2>4
<1>12. ASSUME NEW k \in 1 .. Len(p), k # Len(f) + 1 PROVE r[k] = p[k]
  <2>1. CASE k \in 1 .. Len(f)
    BY <1>1, <1>6, <1>7, <1>9, <1>10, <2>1
  <2>2. CASE k \in Len(f) + 2 .. Len(f) + n
    <3>1. PICK j \in 1 .. n - 1 : k = Len(f) + 1 + j
      <4>1. k - (Len(f) + 1) \in 1 .. n - 1 /\ k = Len(f) + 1 + (k - (Len(f) + 1))
        BY <1>1, <2>2
      <4> QED BY <4>1
    <3>2. j + 1 \in 1 .. Len(b) /\ k = Len(f) + (j + 1) /\ k \in 1 .. Len(f) + n
      BY <1>1, <2>2, <3>1
    <3>3. z[k] = b[j + 1] /\ p[k] = b[j + 1]
      BY <1>7, <1>9, <3>1, <3>2
    <3> QED BY <1>10, <3>2, <3>3
  <2>3. CASE k \in Len(f) + n + 1 .. Len(p)
    <3>1. PICK j \in 1 .. Len(b) - n : k = Len(f) + n + j
      <4>1. k - (Len(f) + n) \in 1 .. Len(b) - n /\ k = Len(f) + n + (k - (Len(f) + n))
        BY <1>1, <1>7, <2>3
      <4> QED BY <4>1
    <3>2. j + n \in 1 .. Len(b) /\ k = Len(f) + (j + n)
      BY <1>1, <3>1
    <3>3. p[k] = b[j + n]
      BY <1>7, <3>2
    <3> QED BY <1>10, <3>1, <3>3
  <2>4. k \in 1 .. Len(f) \/ k \in Len(f) + 2 .. Len(f) + n \/ k \in Len(f) + n + 1 .. Len(p)
    BY <1>1, <1>7, <1>12
  <2> QED BY <2>1, <2>2, <2>3, <2>4
<1>13. /\ z \in Seq(S) /\ y \in Seq(S) /\ r \in Seq(S) /\ p \in Seq(S)
       /\ Len(p) \in Nat /\ Len(r) = Len(p)
  BY <1>1, <1>4, <1>7, <1>9, <1>10
<1> QED BY <1>a, <1>11, <1>12, <1>13 DEF MovedRight
-----------------------------------------------------------------------------
LEMMA WrittenFacts ==
  ASSUME TextTypeOK, NEW kind \in {"cu", "func", "bb", "ref", "err"},
         NEW says \in Funcs \cup {Nobody}, NEW bb \in Blocks \cup {Nowhere}
  PROVE  /\ Written(kind, says, bb) \in Lines
         /\ Written(kind, says, bb).kind = kind /\ Written(kind, says, bb).says = says
         /\ Written(kind, says, bb).bb = bb
         /\ Written(kind, says, bb).about = m_fn /\ Written(kind, says, bb).in = block
  BY DEF TextTypeOK, Lines, Written

LEMMA HeadsTyped ==
  ASSUME TextTypeOK
  PROVE  /\ Written("func", m_fn, Nowhere) \in Lines
         /\ Written("func", m_fn, Nowhere).kind = "func" /\ Written("func", m_fn, Nowhere).says = m_fn
         /\ Written("bb", Nobody, m_bb) \in Lines
         /\ Written("bb", Nobody, m_bb).kind = "bb" /\ Written("bb", Nobody, m_bb).bb = m_bb
         /\ Written("ref", Nobody, Nowhere) \in Lines
         /\ Written("ref", Nobody, Nowhere).kind = "ref" /\ Written("ref", Nobody, Nowhere).says = Nobody
         /\ Written("ref", Nobody, Nowhere).bb = Nowhere
         /\ Written("ref", Nobody, Nowhere).about = m_fn /\ Written("ref", Nobody, Nowhere).in = block
  BY DEF TextTypeOK, Lines, Written

LEMMA StreamTyped ==
  ASSUME TextTypeOK
  PROVE  Stream \in Seq(Lines) /\ file \in Seq(Lines) /\ buffer \in Seq(Lines)
  BY JoinFacts DEF TextTypeOK, Stream

\* What check writes is what the reference needs.
LEMMA HeadsWritten ==
  ASSUME TextInv, m_fn # Nobody, NEW q1, NEW q2,
         q1 = IF m_func_dunped THEN Stream ELSE Append(Stream, Written("func", m_fn, Nowhere)),
         q2 = IF m_bb_dumped THEN q1 ELSE Append(q1, Written("bb", Nobody, m_bb))
  PROVE  /\ q2 \in Seq(Lines) /\ AllRight(q2) /\ FuncAtEnd(q2, m_fn)
         /\ block # Nowhere => BlockAtEnd(q2, block)
<1> DEFINE F == Written("func", m_fn, Nowhere)
           B == Written("bb", Nobody, m_bb)
<1>1. TextTypeOK /\ Stream \in Seq(Lines) /\ AllRight(Stream)
  BY StreamTyped DEF TextInv
<1>2. /\ F \in Lines /\ F.kind = "func" /\ F.says = m_fn
      /\ B \in Lines /\ B.kind = "bb" /\ B.bb = m_bb
  BY <1>1, HeadsTyped
<1>3. /\ m_func_dunped => FuncAtEnd(Stream, m_fn)
      /\ block # Nowhere => m_bb = block
      /\ block # Nowhere /\ m_bb_dumped => m_func_dunped /\ BlockAtEnd(Stream, block)
  BY DEF TextInv, HeadsKnown
<1>4. q1 = IF m_func_dunped THEN Stream ELSE Append(Stream, F)
  OBVIOUS
<1>5. q2 = IF m_bb_dumped THEN q1 ELSE Append(q1, B)
  OBVIOUS
<1> HIDE DEF F, B
<1>6. /\ q1 \in Seq(Lines) /\ AllRight(q1) /\ FuncAtEnd(q1, m_fn)
      /\ block # Nowhere /\ m_bb_dumped => BlockAtEnd(q1, block)
  <2>1. CASE m_func_dunped
    BY <1>1, <1>3, <1>4, <2>1
  <2>2. CASE ~m_func_dunped
    <3>1. Append(Stream, F) \in Seq(Lines) /\ AllRight(Append(Stream, F))
      BY <1>1, <1>2, OneMore DEF Refers
    <3>2. FuncAtEnd(Append(Stream, F), F.says)
      BY <1>1, <1>2, EndOfOneMore
    <3> QED BY <1>2, <1>3, <1>4, <2>2, <3>1, <3>2
  <2> QED BY <2>1, <2>2
<1>7. CASE m_bb_dumped
  BY <1>5, <1>6, <1>7
<1>8. CASE ~m_bb_dumped
  <2>1. Append(q1, B) \in Seq(Lines) /\ AllRight(Append(q1, B))
    BY <1>2, <1>6, OneMore DEF Refers
  <2>2. FuncAtEnd(Append(q1, B), m_fn) /\ BlockAtEnd(Append(q1, B), B.bb)
    BY <1>2, <1>6, EndOfOneMore
  <2> QED BY <1>2, <1>3, <1>5, <1>8, <2>1, <2>2
<1> QED BY <1>7, <1>8

\* A compiler in a function has begun the line that may continue half a line.
LEMMA PutBehindUnit ==
  ASSUME TextInv, m_fn # Nobody, NEW lines \in Seq(Lines), lines # <<>>,
         Put(lines), UNCHANGED <<half, inUnit>>
  PROVE  UnitFirst' /\ inUnit
<1>1. inUnit /\ buffer \in Seq(Lines)
  BY DEF TextInv, TextTypeOK
<1>2. buffer \o lines # <<>> /\ Head(buffer \o lines) = IF buffer = <<>> THEN Head(lines) ELSE Head(buffer)
  BY <1>1, PutHead
<1> QED BY <1>1, <1>2 DEF TextInv, UnitFirst, Put

LEMMA CuStartKeeps == TextInv /\ CuStart => TextInv'
<1> SUFFICES ASSUME TextInv, CuStart PROVE TextInv'
  OBVIOUS
<1> DEFINE U == Written("cu", Nobody, Nowhere)
<1>1. /\ TextTypeOK /\ Stream \in Seq(Lines) /\ AllRight(Stream) /\ buffer = <<>> /\ m_fn = Nobody
      /\ block = Nowhere /\ file \in Seq(Lines) /\ buffer \in Seq(Lines)
  BY StreamTyped DEF TextInv, CuStart
<1>2. U \in Lines /\ U.kind = "cu"
  BY <1>1, WrittenFacts
<1>3. /\ buffer' = buffer \o <<U>> /\ inUnit' = TRUE
      /\ UNCHANGED <<m_fp, m_fn, block, m_bb, m_func_dunped, m_bb_dumped, file, half>>
  BY DEF CuStart, Put, headVars
<1> HIDE DEF U
<1>4. buffer' \in Seq(Lines) /\ file \o (buffer \o <<U>>) = Append(file \o buffer, U)
  BY <1>1, <1>2, <1>3, PutOne
<1>5. AllRight(Append(Stream, U))
  BY <1>1, <1>2, OneMore DEF Refers
<1>6. AllRight(Stream')
  BY <1>3, <1>4, <1>5 DEF Stream
<1>7. buffer' = <<U>>
  BY <1>1, <1>2, <1>3
<1>8. UnitFirst'
  BY <1>2, <1>7 DEF UnitFirst
<1>9. HeadsKnown'
  BY <1>1, <1>3 DEF HeadsKnown
<1>10. TextTypeOK'
  BY <1>1, <1>3, <1>4 DEF TextTypeOK
<1>11. AllRight(Stream)'
  BY <1>6 DEF AllRight, ReadRight, Refers, FuncAbove, BlockAbove
<1> QED BY <1>1, <1>3, <1>8, <1>9, <1>10, <1>11 DEF TextInv

LEMMA AddRefKeeps == TextInv /\ AddRef => TextInv'
<1> SUFFICES ASSUME TextInv, AddRef PROVE TextInv'
  OBVIOUS
<1> DEFINE F == Written("func", m_fn, Nowhere)
           B == Written("bb", Nobody, m_bb)
           R == Written("ref", Nobody, Nowhere)
           lines == Append(Due, R)
<1>1. /\ TextTypeOK /\ Stream \in Seq(Lines) /\ AllRight(Stream)
      /\ file \in Seq(Lines) /\ buffer \in Seq(Lines) /\ m_fn # Nobody
  BY StreamTyped DEF TextInv, AddRef
<1>2. /\ F \in Lines /\ B \in Lines /\ R \in Lines
      /\ R.kind = "ref" /\ R.says = Nobody /\ R.bb = Nowhere /\ R.about = m_fn /\ R.in = block
  BY <1>1, HeadsTyped
<1>3. /\ buffer' = buffer \o lines /\ m_func_dunped' = TRUE /\ m_bb_dumped' = TRUE
      /\ UNCHANGED <<m_fp, inUnit, m_fn, block, m_bb, file, half>>
      /\ Put(lines)
  BY DEF AddRef, Put, pluginVars
<1>4. m_func_dunped \in BOOLEAN /\ m_bb_dumped \in BOOLEAN
  BY <1>1 DEF TextTypeOK
<1>5. PICK q1 : q1 = IF m_func_dunped THEN Stream ELSE Append(Stream, F)
  OBVIOUS
<1>6. PICK q2 : q2 = IF m_bb_dumped THEN q1 ELSE Append(q1, B)
  OBVIOUS
<1>7. /\ q2 \in Seq(Lines) /\ AllRight(q2) /\ FuncAtEnd(q2, m_fn)
      /\ block # Nowhere => BlockAtEnd(q2, block)
  BY <1>1, <1>5, <1>6, HeadsWritten
<1>8. lines = Append((IF m_func_dunped THEN <<>> ELSE <<F>>) \o (IF m_bb_dumped THEN <<>> ELSE <<B>>), R)
  BY DEF Due
<1> HIDE DEF F, B, R, lines
<1>9. /\ buffer \o lines \in Seq(Lines) /\ lines \in Seq(Lines) /\ lines # <<>>
      /\ file \o (buffer \o lines) = Append(q2, R)
  <2>1. file \in Seq(Lines) /\ buffer \in Seq(Lines) /\ F \in Lines /\ B \in Lines /\ R \in Lines
    BY <1>1, <1>2
  <2>2. PICK l1 : l1 = IF m_func_dunped THEN <<>> ELSE <<F>>
    OBVIOUS
  <2>3. l1 \in Seq(Lines) /\ q1 = file \o (buffer \o l1)
    <3>1. buffer \o <<>> = buffer /\ <<>> \in Seq(Lines) /\ <<F>> \in Seq(Lines)
      BY <2>1
    <3>2. file \o (buffer \o <<F>>) = Append(file \o buffer, F)
      BY <2>1, PutOne
    <3> QED BY <1>5, <2>2, <3>1, <3>2 DEF Stream
  <2>4. l1 \in Seq(Lines)
    BY <2>3
  <2>5. PICK l : l = l1 \o (IF m_bb_dumped THEN <<>> ELSE <<B>>)
    OBVIOUS
  <2>6. l \in Seq(Lines) /\ q2 = file \o (buffer \o l)
    <3>1. l1 \o <<>> = l1 /\ l1 \o <<B>> = Append(l1, B)
      BY <2>1, <2>4
    <3>2. /\ file \o (buffer \o Append(l1, B)) = Append(file \o (buffer \o l1), B)
          /\ buffer \o Append(l1, B) \in Seq(Lines) /\ Append(l1, B) \in Seq(Lines)
      BY <2>1, <2>4, PutMore
    <3> QED BY <1>6, <2>3, <2>5, <3>1, <3>2
  <2>7. l \in Seq(Lines)
    BY <2>6
  <2>8. /\ file \o (buffer \o Append(l, R)) = Append(file \o (buffer \o l), R)
        /\ buffer \o Append(l, R) \in Seq(Lines) /\ Append(l, R) \in Seq(Lines)
    BY <2>1, <2>7, PutMore
  <2>9. Append(l, R) # <<>>
    BY <2>1, <2>7, AppendNotEmpty
  <2>10. lines = Append(l, R)
    BY <1>8, <2>2, <2>5
  <2> QED BY <2>6, <2>8, <2>9, <2>10
<1>10. AllRight(Append(q2, R))
  BY <1>2, <1>7, OneMore
<1>11. FuncAtEnd(Append(q2, R), m_fn) /\ (block # Nowhere => BlockAtEnd(Append(q2, R), block))
  BY <1>2, <1>7, EndOfOneMore
<1>12. Stream' = Append(q2, R)
  BY <1>3, <1>9 DEF Stream
<1>13. UnitFirst' /\ inUnit
  BY <1>1, <1>3, <1>9, PutBehindUnit
<1>14. HeadsKnown'
  <2>1. FuncAtEnd(Stream', m_fn') /\ (block' # Nowhere => BlockAtEnd(Stream', block'))
    BY <1>3, <1>11, <1>12
  <2>2. /\ FuncAtEnd(Stream, m_fn)'
        /\ block' # Nowhere => BlockAtEnd(Stream, block)'
    BY <2>1 DEF FuncAtEnd, BlockAtEnd, FuncAbove, BlockAbove
  <2>3. block' # Nowhere => m_bb' = block'
    BY <1>3 DEF TextInv, HeadsKnown
  <2> QED BY <1>3, <2>2, <2>3 DEF HeadsKnown
<1>15. TextTypeOK'
  BY <1>1, <1>3, <1>9 DEF TextTypeOK
<1>16. AllRight(Stream)'
  BY <1>10, <1>12 DEF AllRight, ReadRight, Refers, FuncAbove, BlockAbove
<1> QED BY <1>3, <1>13, <1>14, <1>15, <1>16 DEF TextInv

LEMMA ReportErrorKeeps == TextInv /\ ReportError => TextInv'
<1> SUFFICES ASSUME TextInv, ReportError PROVE TextInv'
  OBVIOUS
<1> DEFINE E == Written("err", IF m_func_dunped THEN Nobody ELSE m_fn, IF m_bb_dumped THEN Nowhere ELSE m_bb)
<1>1. /\ TextTypeOK /\ Stream \in Seq(Lines) /\ AllRight(Stream)
      /\ file \in Seq(Lines) /\ buffer \in Seq(Lines) /\ m_fn # Nobody
  BY StreamTyped DEF TextInv, ReportError
<1>2. /\ E \in Lines /\ E.kind = "err" /\ E.says = (IF m_func_dunped THEN Nobody ELSE m_fn)
      /\ E.bb = (IF m_bb_dumped THEN Nowhere ELSE m_bb) /\ E.about = m_fn /\ E.in = block
  <2>1. /\ (IF m_func_dunped THEN Nobody ELSE m_fn) \in Funcs \cup {Nobody}
        /\ (IF m_bb_dumped THEN Nowhere ELSE m_bb) \in Blocks \cup {Nowhere}
    BY <1>1 DEF TextTypeOK
  <2>2. m_fn \in Funcs \cup {Nobody} /\ block \in Blocks \cup {Nowhere}
    BY <1>1 DEF TextTypeOK
  <2> QED BY <2>1, <2>2 DEF Lines, Written
<1>3. /\ buffer' = buffer \o <<E>>
      /\ UNCHANGED <<m_fp, inUnit, m_fn, block, m_bb, m_func_dunped, m_bb_dumped, file, half>>
      /\ Put(<<E>>)
  BY DEF ReportError, Put, pluginVars, headVars
<1>4. /\ m_func_dunped => FuncAtEnd(Stream, m_fn)
      /\ block # Nowhere => m_bb = block
      /\ block # Nowhere /\ m_bb_dumped => m_func_dunped /\ BlockAtEnd(Stream, block)
  BY <1>1 DEF TextInv, HeadsKnown
<1> HIDE DEF E
<1>5. /\ buffer \o <<E>> \in Seq(Lines) /\ <<E>> \in Seq(Lines) /\ <<E>> # <<>>
      /\ file \o (buffer \o <<E>>) = Append(Stream, E)
  BY <1>1, <1>2, PutOne DEF Stream
<1>6. AllRight(Append(Stream, E))
  <2>1. \/ E.says = E.about /\ E.about # Nobody
        \/ E.says = Nobody /\ FuncAtEnd(Stream, E.about)
    <3>1. CASE m_func_dunped
      BY <1>2, <1>4, <3>1
    <3>2. CASE ~m_func_dunped
      BY <1>1, <1>2, <3>2
    <3> QED BY <3>1, <3>2
  <2>2. E.in # Nowhere =>
          \/ E.bb = E.in
          \/ E.bb = Nowhere /\ BlockAtEnd(Stream, E.in)
    <3>1. CASE m_bb_dumped
      BY <1>2, <1>4, <3>1
    <3>2. CASE ~m_bb_dumped
      BY <1>2, <1>4, <3>2
    <3> QED BY <3>1, <3>2
  <2> QED BY <1>1, <1>2, <2>1, <2>2, OneMore
<1>7. /\ m_func_dunped => FuncAtEnd(Append(Stream, E), m_fn)
      /\ block # Nowhere /\ m_bb_dumped => m_func_dunped /\ BlockAtEnd(Append(Stream, E), block)
  BY <1>1, <1>2, <1>4, EndOfOneMore
<1>8. PICK q : q = Append(Stream, E)
  OBVIOUS
<1>9. Stream' = q
  BY <1>3, <1>5, <1>8 DEF Stream
<1>10. UnitFirst' /\ inUnit
  BY <1>1, <1>3, <1>5, PutBehindUnit
<1>11. HeadsKnown'
  BY <1>3, <1>4, <1>7, <1>8, <1>9 DEF HeadsKnown, FuncAtEnd, BlockAtEnd, FuncAbove, BlockAbove
<1>12. TextTypeOK'
  BY <1>1, <1>3, <1>5 DEF TextTypeOK
<1>13. AllRight(Stream)'
  <2>1. AllRight(q)
    BY <1>6, <1>8
  <2> QED BY <1>9, <2>1 DEF AllRight, ReadRight, Refers, FuncAbove, BlockAbove
<1> QED BY <1>3, <1>10, <1>11, <1>12, <1>13 DEF TextInv
\* The actions that leave the lines where they are.
LEMMA SameStream ==
  ASSUME UNCHANGED <<file, buffer>>
  PROVE  /\ AllRight(Stream) => AllRight(Stream)'
         /\ HeadsKnown /\ UNCHANGED <<pluginVars, headVars>> => HeadsKnown'
<1>1. PICK q : q = Stream
  OBVIOUS
<1>2. Stream' = q
  BY <1>1 DEF Stream
<1>3. AllRight(Stream) => AllRight(Stream)'
  BY <1>1, <1>2 DEF AllRight, ReadRight, Refers, FuncAbove, BlockAbove
<1>4. HeadsKnown /\ UNCHANGED <<pluginVars, headVars>> => HeadsKnown'
  BY <1>1, <1>2 DEF HeadsKnown, pluginVars, headVars, FuncAtEnd, BlockAtEnd, FuncAbove, BlockAbove
<1> QED BY <1>3, <1>4

LEMMA InFunctionKeeps == TextInv /\ (FuncStart \/ BbStart \/ FuncEnd \/ OpenText) => TextInv'
<1> SUFFICES ASSUME TextInv, FuncStart \/ BbStart \/ FuncEnd \/ OpenText PROVE TextInv'
  OBVIOUS
<1>1. UNCHANGED <<buffer, file, half, inUnit>>
  BY DEF FuncStart, BbStart, FuncEnd, OpenText, fileVars
<1>2. UnitFirst' /\ AllRight(Stream)'
  BY <1>1, SameStream DEF TextInv, UnitFirst
<1>3. Stream' = Stream
  BY <1>1 DEF Stream
<1>4. CASE FuncStart
  <2>1. /\ m_fn' \in Funcs /\ m_func_dunped' = FALSE /\ inUnit /\ block = Nowhere
        /\ UNCHANGED <<m_fp, inUnit, block, m_bb, m_bb_dumped>>
    BY <1>4 DEF TextInv, FuncStart
  <2>2. HeadsKnown' /\ m_fn' # Nobody
    BY <2>1, TextAssumption DEF HeadsKnown
  <2>3. TextTypeOK'
    BY <1>1, <2>1 DEF TextInv, TextTypeOK
  <2> QED BY <1>1, <1>2, <2>1, <2>2, <2>3 DEF TextInv
<1>5. CASE BbStart
  <2>1. PICK bb \in Blocks : block' = bb /\ m_bb' = bb
    BY <1>5 DEF BbStart
  <2>2. /\ m_fn # Nobody /\ m_bb_dumped' = FALSE
        /\ UNCHANGED <<m_fp, inUnit, m_fn, m_func_dunped>>
    BY <1>5 DEF BbStart
  <2>3. HeadsKnown'
    BY <1>3, <2>1, <2>2 DEF TextInv, HeadsKnown, FuncAtEnd, FuncAbove
  <2>4. TextTypeOK'
    BY <1>1, <2>1, <2>2 DEF TextInv, TextTypeOK
  <2> QED BY <1>1, <1>2, <2>2, <2>3, <2>4 DEF TextInv
<1>6. CASE FuncEnd
  <2>1. /\ m_fn' = Nobody /\ block' = Nowhere /\ m_fn # Nobody
        /\ UNCHANGED <<m_fp, inUnit, m_bb, m_func_dunped, m_bb_dumped>>
    BY <1>6 DEF FuncEnd, headVars
  <2>2. HeadsKnown' /\ TextTypeOK'
    BY <1>1, <2>1 DEF TextInv, TextTypeOK, HeadsKnown
  <2> QED BY <1>1, <1>2, <2>1, <2>2 DEF TextInv
<1>7. CASE OpenText
  <2>1. m_fp' = TRUE /\ UNCHANGED <<inUnit, m_fn, block, m_bb, m_func_dunped, m_bb_dumped>>
    BY <1>7 DEF OpenText, headVars
  <2>2. HeadsKnown' /\ TextTypeOK'
    BY <1>1, <1>3, <2>1 DEF TextInv, TextTypeOK, HeadsKnown, FuncAtEnd, BlockAtEnd, FuncAbove, BlockAbove
  <2> QED BY <1>1, <1>2, <2>1, <2>2 DEF TextInv
<1> QED BY <1>4, <1>5, <1>6, <1>7

\* A compiler that is gone leaves the lines that are in the file.
LEMMA GoneKeeps == TextInv /\ (CloseText \/ KillText) => TextInv'
<1> SUFFICES ASSUME TextInv, CloseText \/ KillText PROVE TextInv'
  OBVIOUS
<1>1. /\ m_fp' = FALSE /\ inUnit' = FALSE /\ m_fn' = Nobody /\ block' = Nowhere /\ m_bb' \in Blocks
      /\ m_func_dunped' = FALSE /\ m_bb_dumped' = FALSE /\ file' = file /\ buffer' = <<>>
      /\ half' \in {half, "killed"}
  BY DEF CloseText, KillText, Gone
<1>2. file \in Seq(Lines) /\ buffer \in Seq(Lines) /\ Stream \in Seq(Lines)
  BY StreamTyped DEF TextInv
<1>3. /\ Len(file) <= Len(Stream)
      /\ \A k \in 1 .. Len(file) : file[k] = Stream[k]
  BY <1>2 DEF Stream
<1>4. AllRight(file)
  BY <1>2, <1>3, ReadSame DEF TextInv
<1>5. PICK q : q = file
  OBVIOUS
<1>6. AllRight(Stream)'
  <2>1. Stream' = q
    BY <1>1, <1>2, <1>5 DEF Stream
  <2>2. AllRight(q)
    BY <1>4, <1>5
  <2> QED BY <2>1, <2>2 DEF AllRight, ReadRight, Refers, FuncAbove, BlockAbove
<1>7. TextTypeOK'
  <2>1. <<>> \in Seq(Lines)
    OBVIOUS
  <2> QED BY <1>1, <1>2, <2>1 DEF TextInv, TextTypeOK
<1>8. UnitFirst' /\ HeadsKnown'
  BY <1>1 DEF UnitFirst, HeadsKnown
<1> QED BY <1>1, <1>6, <1>7, <1>8 DEF TextInv

\* The only line that half a line of another compiler spoils names a unit.
LEMMA FlushKeeps == TextInv /\ Flush => TextInv'
<1> SUFFICES ASSUME TextInv, Flush PROVE TextInv'
  OBVIOUS
<1>1. PICK n \in 1 .. Len(buffer), cut \in BOOLEAN :
        /\ file' = file \o <<Continued(Head(buffer))>> \o SubSeq(buffer, 2, n)
        /\ buffer' = SubSeq(buffer, n + 1, Len(buffer))
        /\ half' = IF cut THEN "its" ELSE "nobody's"
  BY DEF Flush
<1>2. UNCHANGED <<m_fp, inUnit, m_fn, block, m_bb, m_func_dunped, m_bb_dumped>>
  BY DEF Flush, pluginVars, headVars
<1>3. /\ file \in Seq(Lines) /\ buffer \in Seq(Lines) /\ Stream \in Seq(Lines) /\ buffer # <<>>
      /\ Head(buffer) \in Lines
  <2>1. Len(buffer) # 0
    BY <1>1
  <2> QED BY <1>1, <2>1, StreamTyped DEF TextInv
<1>4. /\ Continued(Head(buffer)) \in Lines
      /\ \/ Continued(Head(buffer)) = Head(buffer)
         \/ Head(buffer).kind = "cu" /\ Continued(Head(buffer)).kind = "torn"
  <2>1. half = "killed" => Head(buffer).kind = "cu"
    BY <1>3 DEF TextInv, UnitFirst
  <2>2. Torn(Head(buffer)) \in Lines /\ Torn(Head(buffer)).kind = "torn"
    BY <1>3 DEF Torn, Lines
  <2> QED BY <1>3, <2>1, <2>2 DEF Continued
<1>5. PICK h : h = Continued(Head(buffer))
  OBVIOUS
<1>6. PICK r : r = file' \o buffer'
  OBVIOUS
<1>7. /\ file' \in Seq(Lines) /\ buffer' \in Seq(Lines) /\ r \in Seq(Lines)
      /\ Len(Stream) \in Nat /\ Len(r) = Len(Stream)
      /\ Len(file) + 1 \in 1 .. Len(Stream) /\ Stream[Len(file) + 1] = Head(buffer) /\ r[Len(file) + 1] = h
      /\ \A k \in 1 .. Len(Stream) : k # Len(file) + 1 => r[k] = Stream[k]
  <2>1. file \in Seq(Lines) /\ buffer \in Seq(Lines) /\ h \in Lines /\ n \in 1 .. Len(buffer)
    BY <1>1, <1>3, <1>4, <1>5
  <2>2. MovedRight(Lines, file, buffer, h, n)
    BY <2>1, FlushFacts
  <2>3. file' = FlushedTo(file, buffer, h, n) /\ buffer' = LeftOver(buffer, n)
    BY <1>1, <1>5 DEF FlushedTo, LeftOver
  <2>4. r = Moved(file, buffer, h, n) /\ Stream = file \o buffer
    BY <1>6, <2>3 DEF Moved, Stream
  <2> QED BY <2>2, <2>3, <2>4 DEF MovedRight
<1>8. \A k \in 1 .. Len(r) : \/ r[k] = Stream[k]
                             \/ Stream[k].kind = "cu" /\ r[k].kind = "torn"
  BY <1>4, <1>5, <1>7
<1>9. /\ AllRight(r)
      /\ \A x : (FuncAtEnd(Stream, x) => FuncAtEnd(r, x)) /\ (BlockAtEnd(Stream, x) => BlockAtEnd(r, x))
  <2>1. AllRight(Stream) /\ Len(r) <= Len(Stream)
    BY <1>7 DEF TextInv
  <2> QED BY <1>3, <1>7, <1>8, <2>1, ReadSame
<1>10. Stream' = r
  BY <1>6 DEF Stream
<1>11. AllRight(Stream)'
  BY <1>9, <1>10 DEF AllRight, ReadRight, Refers, FuncAbove, BlockAbove
<1>12. HeadsKnown'
  <2>1. /\ m_fn # Nobody /\ m_func_dunped => FuncAtEnd(r, m_fn)
        /\ block # Nowhere => m_bb = block /\ (m_bb_dumped => m_func_dunped /\ BlockAtEnd(r, block))
    BY <1>9 DEF TextInv, HeadsKnown
  <2> QED BY <1>2, <1>10, <2>1 DEF HeadsKnown, FuncAtEnd, BlockAtEnd, FuncAbove, BlockAbove
<1>13. UnitFirst'
  BY <1>1 DEF UnitFirst
<1>14. TextTypeOK'
  BY <1>1, <1>2, <1>7 DEF TextInv, TextTypeOK
<1>15. inUnit
  BY <1>3 DEF TextInv
<1> QED BY <1>2, <1>11, <1>12, <1>13, <1>14, <1>15 DEF TextInv

LEMMA TextStarts == TextInit => TextInv
<1> SUFFICES ASSUME TextInit PROVE TextInv
  OBVIOUS
<1>1. Stream = <<>> /\ Len(<<>>) = 0
  BY DEF TextInit, Stream
<1>2. AllRight(Stream)
  BY <1>1 DEF AllRight
<1>3. TextTypeOK
  <2>1. <<>> \in Seq(Lines)
    OBVIOUS
  <2> QED BY <2>1 DEF TextInit, TextTypeOK
<1> QED BY <1>2, <1>3 DEF TextInv, TextInit, UnitFirst, HeadsKnown

LEMMA TextKept == TextInv /\ [TextNext]_textVars => TextInv'
<1> SUFFICES ASSUME TextInv, [TextNext]_textVars PROVE TextInv'
  OBVIOUS
<1>1. CASE TextNext
  BY <1>1, CuStartKeeps, AddRefKeeps, ReportErrorKeeps, InFunctionKeeps, GoneKeeps, FlushKeeps DEF TextNext
<1>2. CASE UNCHANGED textVars
  BY <1>2, SameStream DEF textVars, pluginVars, headVars, fileVars, TextInv, TextTypeOK, UnitFirst
<1> QED BY <1>1, <1>2

-----------------------------------------------------------------------------
\* What the definitions of the reader find is what is read here.
LEMMA LastIs ==
  ASSUME NEW S \in SUBSET Nat, NEW j \in S, \A i \in S : i <= j
  PROVE  LastLine(S) = j
<1>1. \E x \in S : \A i \in S : i <= x
  OBVIOUS
<1>2. LastLine(S) \in S /\ \A i \in S : i <= LastLine(S)
  BY <1>1 DEF LastLine
<1>3. LastLine(S) \in Nat /\ j \in Nat /\ LastLine(S) <= j /\ j <= LastLine(S)
  BY <1>2
<1> QED BY <1>3

LEMMA FuncLinesRead ==
  ASSUME NEW k \in Nat, NEW f, FuncAbove(file, k, f)
  PROVE  FuncLines(k) # {} /\ file[LastLine(FuncLines(k))].says = f
<1>1. PICK j \in 1 .. k - 1 : /\ file[j].kind = "func" /\ file[j].says = f
                              /\ \A i \in j + 1 .. k - 1 : file[i].kind # "func"
  BY DEF FuncAbove
<1>2. FuncLines(k) \in SUBSET Nat /\ j \in FuncLines(k)
  BY <1>1 DEF FuncLines
<1>3. ASSUME NEW i \in FuncLines(k) PROVE i <= j
  <2>1. i \in 1 .. k - 1 /\ file[i].kind = "func"
    BY DEF FuncLines
  <2> QED BY <1>1, <2>1
<1>4. LastLine(FuncLines(k)) = j
  BY <1>2, <1>3, LastIs
<1> QED BY <1>1, <1>2, <1>4

LEMMA BbLinesRead ==
  ASSUME NEW k \in Nat, NEW b, BlockAbove(file, k, b)
  PROVE  BbLines(k) # {} /\ file[LastLine(BbLines(k))].bb = b
<1>1. PICK j \in 1 .. k - 1 : /\ file[j].kind = "bb" /\ file[j].bb = b
                              /\ \A i \in j + 1 .. k - 1 : file[i].kind \notin {"func", "bb"}
  BY DEF BlockAbove
<1>2. \A f \in FuncLines(k) : f < j
  <2> SUFFICES ASSUME NEW f \in FuncLines(k) PROVE f < j
    OBVIOUS
  <2>1. f \in 1 .. k - 1 /\ file[f].kind = "func"
    BY DEF FuncLines
  <2> QED BY <1>1, <2>1
<1>3. BbLines(k) \in SUBSET Nat /\ j \in BbLines(k)
  BY <1>1, <1>2 DEF BbLines
<1>4. ASSUME NEW i \in BbLines(k) PROVE i <= j
  <2>1. i \in 1 .. k - 1 /\ file[i].kind = "bb"
    BY DEF BbLines
  <2> QED BY <1>1, <2>1
<1>5. LastLine(BbLines(k)) = j
  BY <1>3, <1>4, LastIs
<1> QED BY <1>1, <1>3, <1>5

LEMMA RightIsFound == TextInv => LinesAsFound
<1> SUFFICES ASSUME TextInv PROVE LinesAsFound
  OBVIOUS
<1>1. file \in Seq(Lines) /\ buffer \in Seq(Lines) /\ Stream \in Seq(Lines)
  BY StreamTyped DEF TextInv
<1>2. /\ Len(file) <= Len(Stream)
      /\ \A k \in 1 .. Len(file) : file[k] = Stream[k]
  BY <1>1 DEF Stream
<1>3. AllRight(file)
  BY <1>1, <1>2, ReadSame DEF TextInv
<1>4. ASSUME NEW k \in References PROVE FuncRead(k) = file[k].about
  <2>1. k \in 1 .. Len(file) /\ k \in Nat /\ Refers(file[k])
    BY <1>1 DEF References, Refers
  <2>2. \/ file[k].says = file[k].about /\ file[k].about # Nobody
        \/ file[k].says = Nobody /\ FuncAbove(file, k, file[k].about)
    BY <1>3, <2>1 DEF AllRight, ReadRight
  <2>3. CASE file[k].says = file[k].about /\ file[k].about # Nobody
    BY <2>3 DEF FuncRead
  <2>4. CASE file[k].says = Nobody /\ FuncAbove(file, k, file[k].about)
    <3>1. FuncLines(k) # {} /\ file[LastLine(FuncLines(k))].says = file[k].about
      BY <2>1, <2>4, FuncLinesRead
    <3> QED BY <2>4, <3>1 DEF FuncRead
  <2> QED BY <2>2, <2>3, <2>4
<1>5. ASSUME NEW k \in References, file[k].in # Nowhere PROVE BbRead(k) = file[k].in
  <2>1. k \in 1 .. Len(file) /\ k \in Nat /\ Refers(file[k])
    BY <1>1 DEF References, Refers
  <2>2. \/ file[k].bb = file[k].in
        \/ file[k].bb = Nowhere /\ BlockAbove(file, k, file[k].in)
    BY <1>3, <1>5, <2>1 DEF AllRight, ReadRight
  <2>3. CASE file[k].bb = file[k].in
    BY <1>5, <2>3 DEF BbRead
  <2>4. CASE file[k].bb = Nowhere /\ BlockAbove(file, k, file[k].in)
    <3>1. BbLines(k) # {} /\ file[LastLine(BbLines(k))].bb = file[k].in
      BY <2>1, <2>4, BbLinesRead
    <3> QED BY <2>4, <3>1 DEF BbRead
  <2> QED BY <2>2, <2>3, <2>4
<1> QED BY <1>4, <1>5 DEF LinesAsFound, LinesOfFunction, LinesOfBlock

\* The reader of the text back end's file finds every reference and every error
\* in the function and the block the plugin found it in, whatever compilers were
\* killed with lines in their buffers (FPersText::check, report_error, the
\* lines "func" and "bb" that are put off).
THEOREM LinesFound == TextSpec => []LinesAsFound
<1>1. TextSpec => []TextInv
  BY TextStarts, TextKept, PTL DEF TextSpec
<1> QED BY <1>1, RightIsFound, PTL
=============================================================================
