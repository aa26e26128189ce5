------------------------- MODULE SymrefServer_proof -------------------------
(***************************************************************************)
(* Theorems about SymrefServer, for any number of clients, names and ids.  *)
(***************************************************************************)
EXTENDS SymrefRegistry, TLAPS

Has(q, c) == \E i \in DOMAIN q : q[i] = c

LEMMA HasAppend ==
  ASSUME NEW S, NEW q \in Seq(S), NEW c \in S, NEW d
  PROVE  Has(Append(q, c), d) <=> Has(q, d) \/ d = c
<1>1. /\ Append(q, c) \in Seq(S)
      /\ DOMAIN Append(q, c) = 1 .. Len(q) + 1
      /\ DOMAIN q = 1 .. Len(q)
      /\ Len(q) \in Nat
      /\ \A i \in 1 .. Len(q) : Append(q, c)[i] = q[i]
      /\ Append(q, c)[Len(q) + 1] = c
  OBVIOUS
<1>2. QED
  BY <1>1, SMT DEF Has

LEMMA HasHeadTail ==
  ASSUME NEW S, NEW q \in Seq(S), q # <<>>, NEW d
  PROVE  Has(q, d) <=> d = Head(q) \/ Has(Tail(q), d)
<1>1. /\ DOMAIN q = 1 .. Len(q)
      /\ DOMAIN Tail(q) = 1 .. Len(q) - 1
      /\ Len(q) \in Nat /\ Len(q) >= 1
      /\ Head(q) = q[1]
      /\ \A i \in 1 .. Len(q) - 1 : Tail(q)[i] = q[i + 1]
  OBVIOUS
<1>2. ASSUME Has(q, d) PROVE d = Head(q) \/ Has(Tail(q), d)
  <2>1. PICK i \in 1 .. Len(q) : q[i] = d
    BY <1>1, <1>2 DEF Has
  <2>2. CASE i = 1
    BY <1>1, <2>1, <2>2
  <2>3. CASE i # 1
    <3>1. i - 1 \in 1 .. Len(q) - 1 /\ Tail(q)[i - 1] = q[i]
      BY <1>1, <2>3
    <3>2. QED
      BY <1>1, <2>1, <3>1 DEF Has
  <2>4. QED
    BY <2>2, <2>3
<1>3. ASSUME d = Head(q) \/ Has(Tail(q), d) PROVE Has(q, d)
  <2>1. CASE d = Head(q)
    BY <1>1, <2>1 DEF Has
  <2>2. CASE Has(Tail(q), d)
    <3>1. PICK i \in 1 .. Len(q) - 1 : Tail(q)[i] = d
      BY <1>1, <2>2 DEF Has
    <3>2. i + 1 \in 1 .. Len(q) /\ q[i + 1] = d
      BY <1>1, <3>1
    <3>3. QED
      BY <1>1, <3>2 DEF Has
  <2>3. QED
    BY <1>3, <2>1, <2>2
<1>4. QED
  BY <1>2, <1>3

-----------------------------------------------------------------------------
(***************************************************************************)
(* Types, with what a thread's place says about its locals: without the    *)
(* latter the closures a thread pushes next would have no type.            *)
(***************************************************************************)
ThreadsOK ==
  \A s \in Sessions :
    /\ pc[s] = "check_function" => arg[s] \in CStrings
    /\ pc[s] = "check_sym" => arg[s] \in Names
    /\ pc[s] = "push" <=> todo[s] # <<>>

DownOK ==
  /\ up <=> writer # "gone"
  /\ ~up => m_q = <<>> /\ max_id = 0 /\ \A s \in Sessions : pc[s] = "idle"
  /\ ~up => \A n \in Names : m_cache[n] = None

TInv == TypeOK /\ ThreadsOK /\ DownOK

LEMMA IdsFact == 0 \notin Ids /\ Ids \subseteq Nat /\ MaxId \in Nat /\ MaxRefs \in Nat
  BY BoundsAssumption DEF Ids

LEMMA InitTInv == Init => TInv
<1> SUFFICES ASSUME Init PROVE TInv
  OBVIOUS
<1> USE DEF Init, None
<1>1. TypeOK
  <2>1. <<>> \in Seq(Closures)
    OBVIOUS
  <2>2. m_q \in Seq(Closures) /\ todo \in [Sessions -> Seq(Closures)]
    BY <2>1
  <2>3. symtab \in [Ids -> Row \cup {NoRow}]
    OBVIOUS
  <2>4. max_id \in 0 .. MaxId
    BY BoundsAssumption
  <2>5. /\ reply \in [Sessions -> [id : Ids \cup {None}, skip : BOOLEAN]]
        /\ xrefs \in [Ids -> [Ids -> Nat]]
        /\ errlog \in [Ids -> Nat]
    OBVIOUS
  <2>6. QED
    BY <2>2, <2>3, <2>4, <2>5 DEF TypeOK
<1>2. ThreadsOK
  BY DEF ThreadsOK
<1>3. DownOK
  BY DEF DownOK
<1>4. QED
  BY <1>1, <1>2, <1>3 DEF TInv

LEMMA ClosureTypes ==
  ASSUME NEW id \in Ids
  PROVE  /\ \A n \in Names : InsertSym(id, n) \in Closures
         /\ \A w \in Ids : InsertXref(id, w) \in Closures
         /\ {UpdateFname(id), InsertErr(id), DelXrefs(id), DelErrs(id)} \subseteq Closures
  BY DEF Closures, InsertSym, InsertXref, UpdateFname, InsertErr, DelXrefs, DelErrs

LEMMA BodyType ==
  ASSUME NEW f \in Bodies
  PROVE  /\ BodyClosures(f) \in Seq(Closures)
         /\ BodyClosures(f) # <<>>
         /\ \A i \in DOMAIN BodyClosures(f) :
              BodyClosures(f)[i].op \in {"update_fname", "insert_err", "insert_xref"}
<1> DEFINE a == <<UpdateFname(f.id)>>
           b == [i \in 1 .. f.errors |-> InsertErr(f.id)]
           c == [i \in 1 .. Len(f.refs) |-> InsertXref(f.id, f.refs[i])]
           Part == {x \in Closures : x.op \in {"update_fname", "insert_err", "insert_xref"}}
<1>1. f.id \in Ids /\ f.errors \in Nat /\ f.refs \in Seq(Ids)
  BY IdsFact DEF Bodies
<1>2. a \in Seq(Part) /\ Len(a) = 1
  BY <1>1, ClosureTypes DEF UpdateFname
<1>3. b \in Seq(Part)
  <2>1. InsertErr(f.id) \in Part
    BY <1>1, ClosureTypes DEF InsertErr
  <2> QED
    BY <1>1, <2>1
<1>4. c \in Seq(Part)
  <2>1. \A i \in 1 .. Len(f.refs) : InsertXref(f.id, f.refs[i]) \in Part
    BY <1>1, ClosureTypes DEF InsertXref
  <2>2. Len(f.refs) \in Nat
    BY <1>1
  <2> QED
    BY <2>1, <2>2
<1> HIDE DEF a, b, c, Part
<1>5. a \o b \o c \in Seq(Part) /\ Len(a \o b \o c) >= 1
  BY <1>2, <1>3, <1>4
<1>6. BodyClosures(f) = a \o b \o c
  BY DEF BodyClosures, a, b, c
<1>7. BodyClosures(f) \in Seq(Closures)
  BY <1>5, <1>6 DEF Part
<1>8. QED
  BY <1>5, <1>6, <1>7 DEF Part

\* The locals of all threads are well typed and agree with their places.
LocalsOK ==
  /\ pc \in [Sessions -> {"idle", "check_function", "check_sym", "push", "notify"}]
  /\ arg \in [Sessions -> Names \cup {None}]
  /\ todo \in [Sessions -> Seq(Closures)]
  /\ reply \in [Sessions -> [id : Ids \cup {None}, skip : BOOLEAN]]
  /\ ThreadsOK

LEMMA LocalsFromTInv == TInv => LocalsOK
  BY DEF TInv, TypeOK, LocalsOK

LEMMA AnswerLocals ==
  ASSUME TInv, NEW s \in Sessions, NEW id \in Ids \cup {None}, NEW skip \in BOOLEAN,
         pc[s] # "push", Answer(s, id, skip)
  PROVE  LocalsOK'
<1>1. LocalsOK
  BY LocalsFromTInv
<1>2. /\ pc' \in [Sessions -> {"idle", "check_function", "check_sym", "push", "notify"}]
      /\ arg' \in [Sessions -> Names \cup {None}]
      /\ todo' \in [Sessions -> Seq(Closures)]
      /\ reply' \in [Sessions -> [id : Ids \cup {None}, skip : BOOLEAN]]
  BY <1>1 DEF LocalsOK, Answer
<1>3. ThreadsOK'
  BY <1>1 DEF LocalsOK, ThreadsOK, Answer
<1>4. QED
  BY <1>2, <1>3 DEF LocalsOK

LEMMA AnswerAfterLocals ==
  ASSUME TInv, NEW s \in Sessions, NEW id \in Ids \cup {None},
         NEW closures \in Seq(Closures), closures # <<>>,
         AnswerAfter(s, id, closures)
  PROVE  LocalsOK'
<1>1. LocalsOK
  BY LocalsFromTInv
<1>2. /\ pc' \in [Sessions -> {"idle", "check_function", "check_sym", "push", "notify"}]
      /\ arg' \in [Sessions -> Names \cup {None}]
      /\ todo' \in [Sessions -> Seq(Closures)]
      /\ reply' \in [Sessions -> [id : Ids \cup {None}, skip : BOOLEAN]]
  BY <1>1 DEF LocalsOK, AnswerAfter
<1>3. ThreadsOK'
  BY <1>1 DEF LocalsOK, ThreadsOK, AnswerAfter
<1>4. QED
  BY <1>2, <1>3 DEF LocalsOK

LEMMA RetryLocals ==
  ASSUME TInv, NEW s \in Sessions, NEW n \in Names, pc[s] = "idle",
         \/ Retry(s, "check_sym", n)
         \/ n \in CStrings /\ Retry(s, "check_function", n)
  PROVE  LocalsOK'
<1>1. LocalsOK
  BY LocalsFromTInv
<1>2. PICK at \in {"check_sym", "check_function"} :
        Retry(s, at, n) /\ (at = "check_function" => n \in CStrings)
  OBVIOUS
<1>3. /\ pc' \in [Sessions -> {"idle", "check_function", "check_sym", "push", "notify"}]
      /\ arg' \in [Sessions -> Names \cup {None}]
      /\ todo' \in [Sessions -> Seq(Closures)]
      /\ reply' \in [Sessions -> [id : Ids \cup {None}, skip : BOOLEAN]]
  BY <1>1, <1>2 DEF LocalsOK, Retry
<1>4. ThreadsOK'
  BY <1>1, <1>2 DEF LocalsOK, ThreadsOK, Retry
<1>5. QED
  BY <1>3, <1>4 DEF LocalsOK

LEMMA EmptyLen == ASSUME NEW S, NEW t \in Seq(S) PROVE t = <<>> <=> Len(t) = 0
  OBVIOUS

LEMMA TailFact ==
  ASSUME NEW S, NEW q \in Seq(S), q # <<>>
  PROVE  /\ Head(q) \in S /\ Tail(q) \in Seq(S)
         /\ Len(q) = 1 <=> Tail(q) = <<>>
<1>1. Head(q) \in S /\ Tail(q) \in Seq(S) /\ Len(q) \in Nat \ {0}
  OBVIOUS
<1>2. Len(Tail(q)) = Len(q) - 1
  OBVIOUS
<1>3. Tail(q) = <<>> <=> Len(Tail(q)) = 0
  BY <1>1, EmptyLen
<1>4. QED
  BY <1>1, <1>2, <1>3

LEMMA AllocateStep ==
  ASSUME TInv, NEW s \in Sessions, NEW n \in Names, Allocate(s, n)
  PROVE  /\ LocalsOK'
         /\ m_cache' \in [Names -> Ids \cup {None}]
         /\ max_id + 1 \in Ids /\ max_id' = max_id + 1 /\ max_id' \in 0 .. MaxId
         /\ m_funcs' = m_funcs
         /\ c_str[n] \in Names
<1>1. max_id + 1 \in Ids
  BY IdsFact DEF TInv, TypeOK, Allocate, Ids
<1>2. c_str[n] \in Names
  BY CStrAssumption
<1>3. InsertSym(max_id + 1, n) \in Closures
  BY <1>1, ClosureTypes
<1>4. <<InsertSym(max_id + 1, n)>> \in Seq(Closures) /\ <<InsertSym(max_id + 1, n)>> # <<>>
  BY <1>3
<1>5. LocalsOK'
  BY <1>1, <1>4, AnswerAfterLocals DEF Allocate
<1>6. m_cache' \in [Names -> Ids \cup {None}]
  BY <1>1 DEF TInv, TypeOK, Allocate
<1>7. max_id' \in 0 .. MaxId
  BY <1>1, IdsFact DEF Allocate, Ids
<1>8. QED
  BY <1>1, <1>2, <1>5, <1>6, <1>7 DEF Allocate

LEMMA StepTInv == TInv /\ [Next]_vars => TInv'
<1> SUFFICES ASSUME TInv, [Next]_vars PROVE TInv'
  OBVIOUS
<1> USE DEF TInv
<1>1. LocalsOK
  BY LocalsFromTInv
<1>2. CASE Start
  <2>1. up' = TRUE /\ starts' \in Nat /\ writer' = "woken" /\ max_id' \in 0 .. MaxId
    BY <1>2 DEF Start, TypeOK
  <2>2. m_cache' \in [Names -> Ids \cup {None}] /\ m_funcs' \subseteq Ids
    BY <1>2 DEF Start, Stored
  <2>3. QED
    BY <1>2, <2>1, <2>2 DEF Start, TypeOK, ThreadsOK, DownOK, threadVars, dbVars
<1>3. ASSUME Die PROVE TInv'
  <2>1. LocalsOK'
    BY <1>3, <1>1 DEF Die, LocalsOK, ThreadsOK
  <2>2. m_cache' \in [Names -> Ids \cup {None}] /\ max_id' \in 0 .. MaxId
    BY <1>3, IdsFact DEF Die
  <2>3. /\ up' = FALSE /\ m_q' = <<>> /\ m_funcs' = {} /\ m_quit' = FALSE /\ max_id' = 0
        /\ writer' = "gone" /\ pc' = [s \in Sessions |-> "idle"]
        /\ m_cache' = [n \in Names |-> None]
        /\ UNCHANGED <<starts, calls, symtab, xrefs, errlog>>
    BY <1>3 DEF Die, dbVars
  <2>4. DownOK'
    BY <2>3 DEF DownOK
  <2>5. m_q' \in Seq(Closures)
    BY <2>3
  <2>6. TypeOK'
    BY <2>1, <2>2, <2>3, <2>5 DEF TypeOK, LocalsOK
  <2>7. QED
    BY <2>1, <2>4, <2>6 DEF LocalsOK
<1>4. ASSUME NEW s \in Sessions, NEW n \in CStrings, CheckFunction(s, n) PROVE TInv'
  <2>1. n \in Names /\ m_cache[c_str[n]] \in Ids \cup {None}
    BY CStrAssumption DEF CStrings, TypeOK
  <2> DEFINE id == m_cache[c_str[n]]
  <2>2. up /\ pc[s] = "idle" /\ calls' \in Nat
    BY <1>4 DEF CheckFunction, Called, TypeOK
  <2>3. LocalsOK'
    <3>1. CASE id = None /\ Retry(s, "check_function", n)
      BY <2>1, <2>2, <3>1, RetryLocals
    <3>2. CASE Answer(s, id, FALSE)
      BY <2>1, <2>2, <3>2, AnswerLocals
    <3>3. CASE id \in m_funcs /\ AnswerAfter(s, id, <<DelXrefs(id), DelErrs(id)>>)
      <4>1. id \in Ids
        BY <3>3 DEF TypeOK
      <4>2. <<DelXrefs(id), DelErrs(id)>> \in Seq(Closures)
        BY <4>1, ClosureTypes
      <4>3. QED
        BY <3>3, <4>1, <4>2, AnswerAfterLocals
    <3>4. QED
      BY <1>4, <3>1, <3>2, <3>3 DEF CheckFunction
  <2>4. QED
    BY <1>4, <2>2, <2>3 DEF CheckFunction, TypeOK, LocalsOK, DownOK, cacheVars, dbVars
<1>5. ASSUME NEW s \in Sessions, CheckFunctionAgain(s) PROVE TInv'
  <2> DEFINE n == arg[s]
             id == m_cache[c_str[n]]
  <2>1. pc[s] = "check_function" /\ n \in Names /\ id \in Ids \cup {None}
    BY <1>5, CStrAssumption DEF CheckFunctionAgain, TypeOK, ThreadsOK, CStrings
  <2>2. up
    BY <2>1 DEF DownOK
  <2>3. /\ LocalsOK' /\ m_cache' \in [Names -> Ids \cup {None}]
        /\ max_id' \in 0 .. MaxId /\ m_funcs' = m_funcs
    <3>1. CASE Allocate(s, n)
      BY <2>1, <3>1, AllocateStep
    <3>2. CASE Answer(s, id, id \in m_funcs) /\ UNCHANGED cacheVars
      <4>1. (id \in m_funcs) \in BOOLEAN
        OBVIOUS
      <4>2. LocalsOK'
        BY <2>1, <3>2, <4>1, AnswerLocals
      <4>3. QED
        BY <3>2, <4>2 DEF cacheVars, TypeOK
    <3>3. QED
      BY <1>5, <3>1, <3>2 DEF CheckFunctionAgain
  <2>4. QED
    BY <1>5, <2>2, <2>3 DEF CheckFunctionAgain, TypeOK, LocalsOK, DownOK, dbVars
<1>6. ASSUME NEW s \in Sessions, NEW n \in Names, CheckSym(s, n) PROVE TInv'
  <2>1. up /\ pc[s] = "idle" /\ calls' \in Nat /\ m_cache[n] \in Ids \cup {None}
    BY <1>6 DEF CheckSym, Called, TypeOK
  <2>2. LocalsOK'
    BY <1>6, <2>1, RetryLocals, AnswerLocals DEF CheckSym
  <2>3. QED
    BY <1>6, <2>1, <2>2 DEF CheckSym, TypeOK, LocalsOK, DownOK, cacheVars, dbVars
<1>7. ASSUME NEW s \in Sessions, CheckSymAgain(s) PROVE TInv'
  <2> DEFINE n == arg[s]
             id == m_cache[n]
  <2>1. pc[s] = "check_sym" /\ n \in Names /\ id \in Ids \cup {None}
    BY <1>7 DEF CheckSymAgain, TypeOK, ThreadsOK
  <2>2. up
    BY <2>1 DEF DownOK
  <2>3. /\ LocalsOK' /\ m_cache' \in [Names -> Ids \cup {None}]
        /\ max_id' \in 0 .. MaxId /\ m_funcs' = m_funcs
    <3>1. CASE Allocate(s, n)
      BY <2>1, <3>1, AllocateStep
    <3>2. CASE Answer(s, id, FALSE) /\ UNCHANGED cacheVars
      BY <2>1, <3>2, AnswerLocals DEF cacheVars, TypeOK
    <3>3. QED
      BY <1>7, <3>1, <3>2 DEF CheckSymAgain
  <2>4. QED
    BY <1>7, <2>2, <2>3 DEF CheckSymAgain, TypeOK, LocalsOK, DownOK, dbVars
<1>8. ASSUME NEW s \in Sessions, NEW f \in Bodies, AddFunc(s, f) PROVE TInv'
  <2>1. up /\ calls' \in Nat /\ f.id \in Ids
    BY <1>8 DEF AddFunc, Called, TypeOK, Bodies
  <2>2. LocalsOK'
    BY <1>8, BodyType, AnswerAfterLocals DEF AddFunc
  <2>3. QED
    BY <1>8, <2>1, <2>2 DEF AddFunc, TypeOK, LocalsOK, DownOK, dbVars
<1>9. ASSUME NEW s \in Sessions, Quit(s) PROVE TInv'
  <2>1. up /\ pc[s] = "idle" /\ calls' \in Nat
    BY <1>9 DEF Quit, Called, TypeOK
  <2>2. LocalsOK'
    BY <1>1, <1>9, <2>1 DEF Quit, LocalsOK, ThreadsOK
  <2>3. QED
    BY <1>9, <2>1, <2>2 DEF Quit, TypeOK, LocalsOK, DownOK, cacheVars, dbVars
<1>10. ASSUME NEW s \in Sessions, Push(s) PROVE TInv'
  <2>1. todo[s] \in Seq(Closures) /\ todo[s] # <<>>
    BY <1>10 DEF Push, TypeOK, ThreadsOK
  <2>2. /\ Head(todo[s]) \in Closures /\ Tail(todo[s]) \in Seq(Closures)
        /\ Len(todo[s]) = 1 <=> Tail(todo[s]) = <<>>
    BY <2>1, TailFact
  <2>3. m_q' \in Seq(Closures)
    BY <1>10, <2>2 DEF Push, TypeOK
  <2>4. LocalsOK'
    BY <1>1, <1>10, <2>2 DEF Push, LocalsOK, ThreadsOK
  <2>5. up
    BY <1>10 DEF Push, DownOK
  <2>6. QED
    BY <1>10, <2>3, <2>4, <2>5 DEF Push, TypeOK, LocalsOK, DownOK, cacheVars, dbVars
<1>11. ASSUME NEW s \in Sessions, Notify(s) PROVE TInv'
  <2>1. LocalsOK'
    BY <1>1, <1>11 DEF Notify, LocalsOK, ThreadsOK
  <2>2. up
    BY <1>11 DEF Notify, DownOK
  <2>3. writer' \in {"woken", "sleepy", "waiting", "drain"}
    BY <1>11, <2>2 DEF Notify, DownOK, TypeOK
  <2>4. QED
    BY <1>11, <2>1, <2>2, <2>3 DEF Notify, TypeOK, LocalsOK, DownOK, cacheVars, dbVars
<1>12. ASSUME WriterTest \/ WriterSleep \/ SpuriousWakeup \/ WriterRelock PROVE TInv'
  <2>1. /\ writer' \in {"woken", "sleepy", "waiting", "drain"} /\ writer # "gone"
        /\ UNCHANGED <<up, starts, calls, cacheVars, m_q, m_quit, threadVars, dbVars>>
    BY <1>12 DEF WriterTest, WriterSleep, SpuriousWakeup, WriterRelock
  <2>2. QED
    BY <2>1 DEF TypeOK, ThreadsOK, DownOK, cacheVars, threadVars, dbVars
<1>13. ASSUME WriterApply PROVE TInv'
  <2>1. m_q # <<>> /\ m_q \in Seq(Closures)
    BY <1>13 DEF WriterApply, TypeOK
  <2>2. m_q' \in Seq(Closures) /\ Head(m_q) \in Closures
    BY <1>13, <2>1 DEF WriterApply
  <2> DEFINE c == Head(m_q)
  <2>3. symtab' \in [Ids -> Row \cup {NoRow}]
    <3>1. CASE c.op = "insert_sym" /\ symtab[c.id] = NoRow
      <4>1. c.id \in Ids /\ c.name \in Names
        BY <2>2, <3>1 DEF Closures
      <4>2. symtab' = [symtab EXCEPT ![c.id] = [name |-> c.name, fname |-> FALSE]]
        BY <1>13, <3>1 DEF WriterApply, Execute
      <4>3. QED
        BY <4>1, <4>2 DEF TypeOK, Row
    <3>2. CASE c.op = "update_fname" /\ symtab[c.id] # NoRow
      <4>1. c.id \in Ids
        BY <2>2, <3>2 DEF Closures
      <4>2. symtab' = [symtab EXCEPT ![c.id].fname = TRUE]
        BY <1>13, <3>2 DEF WriterApply, Execute
      <4>3. symtab[c.id] \in Row
        BY <3>2, <4>1 DEF TypeOK
      <4>4. QED
        BY <4>1, <4>2, <4>3 DEF TypeOK, Row
    <3>3. CASE ~(c.op = "insert_sym" /\ symtab[c.id] = NoRow)
               /\ ~(c.op = "update_fname" /\ symtab[c.id] # NoRow)
      BY <1>13, <3>3 DEF WriterApply, Execute, TypeOK
    <3>4. QED
      BY <3>1, <3>2, <3>3
  <2>4. xrefs' \in [Ids -> [Ids -> Nat]]
    <3>1. CASE c.op = "insert_xref"
      <4>1. c.id \in Ids /\ c.what \in Ids
        BY <2>2, <3>1 DEF Closures
      <4>2. xrefs' = [xrefs EXCEPT ![c.id][c.what] = @ + 1]
        BY <1>13, <3>1 DEF WriterApply, Execute
      <4>3. xrefs[c.id] \in [Ids -> Nat] /\ xrefs[c.id][c.what] \in Nat
        BY <4>1 DEF TypeOK
      <4>4. QED
        BY <4>1, <4>2, <4>3 DEF TypeOK
    <3>2. CASE c.op = "del_xrefs"
      <4>1. c.id \in Ids
        BY <2>2, <3>2 DEF Closures
      <4>2. xrefs' = [xrefs EXCEPT ![c.id] = [w \in Ids |-> 0]]
        BY <1>13, <3>2 DEF WriterApply, Execute
      <4>3. QED
        BY <4>1, <4>2 DEF TypeOK
    <3>3. CASE c.op \notin {"insert_xref", "del_xrefs"}
      BY <1>13, <3>3 DEF WriterApply, Execute, TypeOK
    <3>4. QED
      BY <3>1, <3>2, <3>3
  <2>5. errlog' \in [Ids -> Nat]
    BY <1>13, <2>2 DEF WriterApply, Execute, TypeOK, Closures
  <2>6. up
    BY <2>1 DEF DownOK
  <2>7. QED
    BY <1>13, <2>2, <2>3, <2>4, <2>5, <2>6
    DEF WriterApply, TypeOK, ThreadsOK, DownOK, cacheVars, threadVars
<1>14. CASE UNCHANGED vars
  BY <1>14 DEF vars, TypeOK, ThreadsOK, DownOK, cacheVars, threadVars, dbVars
<1>15. QED
  BY <1>2, <1>3, <1>4, <1>5, <1>6, <1>7, <1>8, <1>9, <1>10, <1>11, <1>12, <1>13, <1>14
  DEF Next, Crash, Writer, WriterStep, WriterExit, Request, Thread

\* The server's variables keep their types: the ids stay within their range,
\* the queue and the handlers hold nothing but bound statements.
THEOREM TypeCorrect == Spec => []TypeOK
<1>1. Init => TInv
  BY InitTInv
<1>2. TInv /\ [Next]_vars => TInv'
  BY StepTInv
<1>3. TInv => TypeOK
  BY DEF TInv
<1>4. QED
  BY <1>1, <1>2, <1>3, PTL DEF Spec

-----------------------------------------------------------------------------
(***************************************************************************)
(* What a step does to the bindings of ids to names.  A binding is made by *)
(* Allocate alone; pushing a row and storing it only moves it; a death may *)
(* lose it.                                                                *)
(***************************************************************************)
InHand(c) == Has(m_q, c) \/ \E s \in Sessions : Has(todo[s], c)

LEMMA OutstandingIsInHand ==
  \A c : (Outstanding(c) <=> InHand(c)) /\ (Outstanding(c)' <=> InHand(c)')
  BY DEF Outstanding, InHand, Has

SameBindings == \A i \in Ids, m \in Names : Bound(i, m)' <=> Bound(i, m)

SameInserts ==
  \A i \in Ids, m \in Names : InHand(InsertSym(i, m))' <=> InHand(InsertSym(i, m))

LEMMA SameBindingsRule ==
  ASSUME SameInserts, UNCHANGED symtab PROVE SameBindings
  BY OutstandingIsInHand DEF SameInserts, SameBindings, Bound

\* Closures that are no rows of symtab may be taken in hand freely.
LEMMA NoNewRows ==
  ASSUME TInv, NEW s \in Sessions, NEW id, NEW closures, pc[s] # "push",
         AnswerAfter(s, id, closures), UNCHANGED <<m_q, symtab>>,
         \A i \in DOMAIN closures : closures[i].op # "insert_sym"
  PROVE  SameBindings
<1>1. todo[s] = <<>> /\ todo \in [Sessions -> Seq(Closures)]
  BY DEF TInv, TypeOK, ThreadsOK
<1>2. todo' = [todo EXCEPT ![s] = closures]
  BY DEF AnswerAfter
<1>3. \A i \in Ids, m \in Names : ~Has(todo[s], InsertSym(i, m))
  BY <1>1 DEF Has
<1>4. \A i \in Ids, m \in Names : ~Has(todo'[s], InsertSym(i, m))
  BY <1>1, <1>2 DEF Has, InsertSym
<1>5. \A t \in Sessions : t # s => todo'[t] = todo[t]
  BY <1>1, <1>2
<1>6. SameInserts
  BY <1>3, <1>4, <1>5 DEF SameInserts, InHand
<1>7. QED
  BY <1>6, SameBindingsRule

LEMMA AllocateBinds ==
  ASSUME TInv, NEW s \in Sessions, NEW n \in Names, pc[s] # "push",
         Allocate(s, n), UNCHANGED <<m_q, symtab>>
  PROVE  \A i \in Ids, m \in Names :
           Bound(i, m)' <=> Bound(i, m) \/ (i = max_id + 1 /\ m = n)
<1>1. todo[s] = <<>> /\ todo \in [Sessions -> Seq(Closures)]
  BY DEF TInv, TypeOK, ThreadsOK
<1>2. todo' = [todo EXCEPT ![s] = <<InsertSym(max_id + 1, n)>>]
  BY DEF Allocate, AnswerAfter
<1>3. \A i \in Ids, m \in Names : ~Has(todo[s], InsertSym(i, m))
  BY <1>1 DEF Has
<1>4. \A i \in Ids, m \in Names :
        Has(todo'[s], InsertSym(i, m)) <=> (i = max_id + 1 /\ m = n)
  BY <1>1, <1>2 DEF Has, InsertSym
<1>5. \A t \in Sessions : t # s => todo'[t] = todo[t]
  BY <1>1, <1>2
<1>6. \A i \in Ids, m \in Names :
        InHand(InsertSym(i, m))' <=> InHand(InsertSym(i, m)) \/ (i = max_id + 1 /\ m = n)
  BY <1>3, <1>4, <1>5 DEF InHand
<1>7. QED
  BY <1>6, OutstandingIsInHand DEF Bound

LEMMA PushBindings ==
  ASSUME TInv, NEW s \in Sessions, Push(s) PROVE SameBindings
<1>1. todo[s] \in Seq(Closures) /\ todo[s] # <<>> /\ m_q \in Seq(Closures)
  BY DEF TInv, TypeOK, ThreadsOK, Push
<1>2. m_q' = Append(m_q, Head(todo[s])) /\ todo'[s] = Tail(todo[s])
  BY DEF TInv, TypeOK, Push
<1>3. \A t \in Sessions : t # s => todo'[t] = todo[t]
  BY DEF TInv, TypeOK, Push
<1>4. Head(todo[s]) \in Closures
  BY <1>1
<1>5. \A c : Has(m_q', c) <=> Has(m_q, c) \/ c = Head(todo[s])
  BY <1>1, <1>2, <1>4, HasAppend
<1>6. \A c : Has(todo[s], c) <=> c = Head(todo[s]) \/ Has(todo'[s], c)
  BY <1>1, <1>2, HasHeadTail
<1>7. SameInserts
  BY <1>3, <1>5, <1>6 DEF SameInserts, InHand
<1>8. QED
  BY <1>7, SameBindingsRule DEF Push, dbVars

LEMMA ApplyBindings ==
  ASSUME TInv, OneNamePerId, WriterApply PROVE SameBindings
<1> DEFINE c == Head(m_q)
<1>1. m_q \in Seq(Closures) /\ m_q # <<>> /\ c \in Closures
  BY DEF TInv, TypeOK, WriterApply
<1>2. m_q' = Tail(m_q) /\ todo' = todo
  BY DEF WriterApply, threadVars
<1>3. \A d : Has(m_q, d) <=> d = c \/ Has(m_q', d)
  BY <1>1, <1>2, HasHeadTail
<1>4. \A d : InHand(d) <=> d = c \/ InHand(d)'
  BY <1>2, <1>3 DEF InHand
<1>5. symtab \in [Ids -> Row \cup {NoRow}]
  BY DEF TInv, TypeOK
<1>6. CASE c.op = "insert_sym"
  <2>1. c.id \in Ids /\ c.name \in Names /\ c = InsertSym(c.id, c.name)
    BY <1>1, <1>6 DEF Closures, InsertSym
  <2>2. \A i \in Ids, m \in Names : InsertSym(i, m) = c <=> i = c.id /\ m = c.name
    BY <2>1 DEF InsertSym
  <2>3. CASE symtab[c.id] = NoRow
    <3>1. symtab' = [symtab EXCEPT ![c.id] = [name |-> c.name, fname |-> FALSE]]
      BY <1>6, <2>3 DEF WriterApply, Execute
    <3>2. symtab'[c.id] # NoRow /\ symtab'[c.id].name = c.name
      BY <1>5, <2>1, <3>1, NamesAssumption DEF NoRow
    <3>3. \A i \in Ids : i # c.id => symtab'[i] = symtab[i]
      BY <1>5, <3>1
    <3>4. ASSUME NEW i \in Ids, NEW m \in Names PROVE Bound(i, m)' <=> Bound(i, m)
      <4>1. CASE i # c.id
        BY <4>1, <3>3, <1>4, <2>2, OutstandingIsInHand DEF Bound
      <4>2. CASE i = c.id
        <5>1. Bound(i, m) <=> InHand(InsertSym(i, m))
          BY <4>2, <2>3, OutstandingIsInHand DEF Bound
        <5>2. Bound(i, m)' <=> m = c.name \/ InHand(InsertSym(i, m))'
          BY <4>2, <3>2, OutstandingIsInHand DEF Bound
        <5>3. QED
          BY <4>2, <5>1, <5>2, <1>4, <2>2
      <4>3. QED
        BY <4>1, <4>2
    <3>5. QED
      BY <3>4 DEF SameBindings
  <2>4. CASE symtab[c.id] # NoRow
    <3>1. symtab' = symtab
      BY <1>6, <2>4 DEF WriterApply, Execute
    <3>2. symtab[c.id].name \in Names
      BY <1>5, <2>1, <2>4 DEF Row
    <3>3. Bound(c.id, symtab[c.id].name)
      BY <2>4 DEF Bound
    <3>4. Bound(c.id, c.name)
      BY <1>4, <2>1, OutstandingIsInHand DEF Bound
    <3>5. symtab[c.id].name = c.name
      BY <2>1, <3>2, <3>3, <3>4 DEF OneNamePerId
    <3>6. ASSUME NEW i \in Ids, NEW m \in Names PROVE Bound(i, m)' <=> Bound(i, m)
      <4>1. InHand(InsertSym(i, m)) <=> InHand(InsertSym(i, m))' \/ (i = c.id /\ m = c.name)
        BY <1>4, <2>2
      <4>2. QED
        BY <2>4, <3>1, <3>5, <4>1, OutstandingIsInHand DEF Bound
    <3>7. QED
      BY <3>6 DEF SameBindings
  <2>5. QED
    BY <2>3, <2>4
<1>7. CASE c.op # "insert_sym"
  <2>1. \A i \in Ids, m \in Names : InsertSym(i, m) # c
    BY <1>7 DEF InsertSym
  <2>2. \A i \in Ids : /\ symtab'[i] # NoRow <=> symtab[i] # NoRow
                       /\ symtab[i] # NoRow => symtab'[i].name = symtab[i].name
    <3>1. CASE c.op = "update_fname" /\ symtab[c.id] # NoRow
      <4>1. c.id \in Ids
        BY <1>1, <3>1 DEF Closures
      <4>2. symtab' = [symtab EXCEPT ![c.id].fname = TRUE]
        BY <3>1 DEF WriterApply, Execute
      <4>3. symtab[c.id] \in Row
        BY <1>5, <3>1, <4>1
      <4>4. symtab'[c.id].name = symtab[c.id].name /\ symtab'[c.id].name \in Names
        BY <1>5, <4>1, <4>2, <4>3 DEF Row
      <4>5. symtab'[c.id] # NoRow
        BY <4>4, NamesAssumption DEF NoRow
      <4>6. QED
        BY <1>5, <3>1, <4>1, <4>2, <4>4, <4>5
    <3>2. CASE ~(c.op = "update_fname" /\ symtab[c.id] # NoRow)
      BY <1>7, <3>2 DEF WriterApply, Execute
    <3>3. QED
      BY <3>1, <3>2
  <2>3. SameInserts
    BY <1>4, <2>1 DEF SameInserts
  <2>4. QED
    BY <2>2, <2>3, OutstandingIsInHand DEF SameBindings, SameInserts, Bound
<1>8. QED
  BY <1>6, <1>7

-----------------------------------------------------------------------------
(***************************************************************************)
(* The inductive invariant behind the uniqueness of ids: every bound id is *)
(* at most max_id, so the next one is new; and every bound name is in the  *)
(* cache, so a C string that is not cached is not bound.                   *)
(***************************************************************************)
BoundIdsAllocated == \A i \in Ids, n \in Names : up /\ Bound(i, n) => i <= max_id

BoundNamesCached == \A i \in Ids, n \in Names : up /\ Bound(i, n) => m_cache[c_str[n]] # None

BindingInv ==
  OneNamePerId /\ OneIdPerCString /\ CacheBacked /\ BoundIdsAllocated /\ BoundNamesCached

LEMMA BindingsKept ==
  ASSUME BindingInv, TInv, SameBindings, UNCHANGED <<up, m_cache, max_id>>
  PROVE  BindingInv'
<1>1. OneNamePerId'
  BY DEF BindingInv, SameBindings, OneNamePerId
<1>2. OneIdPerCString'
  BY DEF BindingInv, SameBindings, OneIdPerCString, CStrings
<1>3. CacheBacked'
  BY DEF BindingInv, SameBindings, CacheBacked
<1>4. BoundIdsAllocated' /\ BoundNamesCached'
  BY DEF BindingInv, SameBindings, BoundIdsAllocated, BoundNamesCached
<1>5. QED
  BY <1>1, <1>2, <1>3, <1>4 DEF BindingInv

LEMMA AllocateKeeps ==
  ASSUME BindingInv, TInv, NEW s \in Sessions, NEW n \in Names, pc[s] # "push", up,
         Allocate(s, n), UNCHANGED <<up, m_q, symtab>>,
         n \in CStrings => m_cache[n] = None
  PROVE  BindingInv'
<1> DEFINE new == max_id + 1
<1>1. new \in Ids /\ max_id' = new /\ max_id \in Nat
      /\ m_cache' \in [Names -> Ids \cup {None}] /\ c_str[n] \in Names
  BY AllocateStep, IdsFact DEF TInv, TypeOK
<1>2. m_cache' = [m_cache EXCEPT ![c_str[n]] = new]
  BY DEF Allocate
<1>3. \A i \in Ids, m \in Names : Bound(i, m)' <=> Bound(i, m) \/ (i = new /\ m = n)
  BY AllocateBinds
<1>4. \A i \in Ids, m \in Names : Bound(i, m) => i <= max_id
  BY DEF BindingInv, BoundIdsAllocated
<1>5. \A m \in Names : ~Bound(new, m)
  BY <1>1, <1>4
<1>6. m_cache \in [Names -> Ids \cup {None}]
  BY DEF TInv, TypeOK
<1>0. \A i \in Ids : i <= max_id => i <= new
  BY <1>1, IdsFact
<1> HIDE DEF new
<1>7. OneNamePerId'
  BY <1>1, <1>3, <1>5 DEF BindingInv, OneNamePerId
<1>8. OneIdPerCString'
  <2>1. n \in CStrings => \A i \in Ids : ~Bound(i, n)
    BY DEF BindingInv, BoundNamesCached, CStrings
  <2>2. QED
    BY <1>1, <1>3, <2>1 DEF BindingInv, OneIdPerCString, CStrings
<1>9. CacheBacked'
  <2> SUFFICES ASSUME NEW k \in Names, NEW i \in Ids, m_cache'[k] = i
               PROVE  \E m \in Names : c_str[m] = k /\ Bound(i, m)'
    BY DEF CacheBacked
  <2>1. CASE k = c_str[n]
    <3>1. i = new
      BY <1>2, <1>6, <2>1
    <3>2. Bound(i, n)'
      BY <1>3, <3>1
    <3>3. QED
      BY <2>1, <3>2
  <2>2. CASE k # c_str[n]
    <3>1. m_cache[k] = i
      BY <1>2, <1>6, <2>2
    <3>2. PICK m \in Names : c_str[m] = k /\ Bound(i, m)
      BY <3>1 DEF BindingInv, CacheBacked
    <3>3. QED
      BY <1>3, <3>2
  <2>3. QED
    BY <2>1, <2>2
<1>10. BoundIdsAllocated'
  <2>1. new <= new
    BY <1>1, IdsFact
  <2>2. QED
    BY <1>0, <1>1, <1>3, <1>4, <2>1 DEF BoundIdsAllocated
<1>11. BoundNamesCached'
  <2>1. new # None
    BY <1>1, IdsFact DEF None
  <2>2. \A k \in Names : m_cache[k] # None => m_cache'[k] # None
    BY <1>2, <1>6, <2>1
  <2>3. m_cache'[c_str[n]] # None
    BY <1>1, <1>2, <1>6, <2>1
  <2>4. QED
    BY <1>3, <2>2, <2>3, CStrAssumption DEF BindingInv, BoundNamesCached
<1>12. QED
  BY <1>7, <1>8, <1>9, <1>10, <1>11 DEF BindingInv

\* A dead server's bindings are the rows of the file.
LEMMA DieKeeps == ASSUME BindingInv, TInv, Die PROVE BindingInv'
<1>1. \A i \in Ids, n \in Names : Bound(i, n)' => Bound(i, n)
  <2>1. \A c : ~InHand(c)'
    BY DEF Die, InHand, Has
  <2>2. UNCHANGED symtab
    BY DEF Die, dbVars
  <2>3. QED
    BY <2>1, <2>2, OutstandingIsInHand DEF Bound
<1>2. ~up' /\ \A k \in Names : m_cache'[k] \notin Ids
  BY IdsFact DEF Die, None
<1>3. OneNamePerId'
  BY <1>1 DEF BindingInv, OneNamePerId
<1>4. OneIdPerCString'
  BY <1>1 DEF BindingInv, OneIdPerCString, CStrings
<1>5. CacheBacked'
  BY <1>2 DEF CacheBacked
<1>6. BoundIdsAllocated' /\ BoundNamesCached'
  BY <1>2 DEF BoundIdsAllocated, BoundNamesCached
<1>7. QED
  BY <1>3, <1>4, <1>5, <1>6 DEF BindingInv

LEMMA StartKeeps == ASSUME BindingInv, TInv, Start PROVE BindingInv'
<1>1. SameBindings
  BY SameBindingsRule DEF Start, SameInserts, InHand, threadVars, dbVars
<1>2. \A i \in Ids, n \in Names : Bound(i, n) <=> symtab[i] # NoRow /\ symtab[i].name = n
  <2>1. \A c : ~InHand(c)
    BY DEF Start, TInv, ThreadsOK, DownOK, InHand, Has
  <2>2. QED
    BY <2>1, OutstandingIsInHand DEF Bound
<1>3. OneNamePerId'
  BY <1>1 DEF BindingInv, SameBindings, OneNamePerId
<1>4. OneIdPerCString'
  BY <1>1 DEF BindingInv, SameBindings, OneIdPerCString, CStrings
<1> DEFINE Of(k) == {i \in Stored : c_str[symtab[i].name] = k}
<1>5. \A k \in Names : IsLast(m_cache'[k], Of(k))
  BY DEF Start
<1>6. \A i \in Stored : symtab[i].name \in Names
  BY DEF TInv, TypeOK, Stored, Row
<1>7. CacheBacked'
  <2> SUFFICES ASSUME NEW k \in Names, NEW i \in Ids, m_cache'[k] = i
               PROVE  \E n \in Names : c_str[n] = k /\ Bound(i, n)'
    BY DEF CacheBacked
  <2>1. i \in Of(k)
    BY <1>5, IdsFact DEF IsLast, None
  <2>2. symtab[i].name \in Names /\ c_str[symtab[i].name] = k /\ symtab[i] # NoRow
    BY <1>6, <2>1 DEF Stored
  <2>3. QED
    BY <1>1, <1>2, <2>2 DEF SameBindings
<1>8. BoundIdsAllocated'
  <2>1. IsLast(max_id', Stored)
    BY DEF Start
  <2>2. ASSUME NEW i \in Ids, NEW n \in Names, Bound(i, n) PROVE i <= max_id'
    BY <1>2, <2>1, <2>2 DEF IsLast, Stored
  <2>3. QED
    BY <1>1, <2>2 DEF BoundIdsAllocated, SameBindings
<1>9. BoundNamesCached'
  <2>1. ASSUME NEW i \in Ids, NEW n \in Names, Bound(i, n) PROVE m_cache'[c_str[n]] # None
    <3>1. i \in Of(c_str[n]) /\ c_str[n] \in Names
      BY <1>2, <2>1, CStrAssumption DEF Stored
    <3>2. m_cache'[c_str[n]] \in Stored
      BY <1>5, <3>1 DEF IsLast
    <3>3. QED
      BY <3>2, IdsFact DEF Stored, None
  <2>2. QED
    BY <1>1, <2>1 DEF BoundNamesCached, SameBindings
<1>10. QED
  BY <1>3, <1>4, <1>7, <1>8, <1>9 DEF BindingInv

LEMMA StepBindingInv == TInv /\ BindingInv /\ [Next]_vars => BindingInv'
<1> SUFFICES ASSUME TInv, BindingInv, [Next]_vars PROVE BindingInv'
  OBVIOUS
<1> DEFINE CacheKept == UNCHANGED <<up, m_cache, max_id>>
<1>1. CASE Start
  BY <1>1, StartKeeps
<1>2. ASSUME Die PROVE BindingInv'
  BY <1>2, DieKeeps
<1>3. ASSUME SameInserts, UNCHANGED symtab, CacheKept PROVE BindingInv'
  BY <1>3, SameBindingsRule, BindingsKept
<1>4. ASSUME UNCHANGED <<m_q, todo>> PROVE SameInserts
  BY <1>4 DEF SameInserts, InHand
<1>5. ASSUME NEW s \in Sessions, NEW n \in CStrings, CheckFunction(s, n) PROVE BindingInv'
  <2>1. pc[s] # "push" /\ UNCHANGED <<m_q, symtab>> /\ CacheKept
    BY <1>5 DEF CheckFunction, Called, cacheVars, dbVars
  <2>2. CASE UNCHANGED todo
    BY <1>3, <1>4, <2>1, <2>2
  <2>3. ASSUME NEW id, AnswerAfter(s, id, <<DelXrefs(id), DelErrs(id)>>)
        PROVE  BindingInv'
    <3>1. \A i \in DOMAIN <<DelXrefs(id), DelErrs(id)>> :
            <<DelXrefs(id), DelErrs(id)>>[i].op # "insert_sym"
      BY DEF DelXrefs, DelErrs
    <3>2. SameBindings
      BY <2>1, <2>3, <3>1, NoNewRows
    <3>3. QED
      BY <2>1, <3>2, BindingsKept
  <2>4. QED
    BY <1>5, <2>2, <2>3 DEF CheckFunction, Retry, Answer
<1>6. ASSUME NEW s \in Sessions, CheckFunctionAgain(s) PROVE BindingInv'
  <2>1. /\ pc[s] = "check_function" /\ arg[s] \in CStrings /\ arg[s] \in Names /\ up
        /\ UNCHANGED <<up, m_q, symtab>>
    BY <1>6 DEF CheckFunctionAgain, TInv, ThreadsOK, DownOK, CStrings, dbVars
  <2>2. CASE m_cache[c_str[arg[s]]] = None /\ Allocate(s, arg[s])
    BY <2>1, <2>2, AllocateKeeps DEF CStrings
  <2>3. CASE UNCHANGED todo /\ UNCHANGED cacheVars
    BY <1>3, <1>4, <2>1, <2>3 DEF cacheVars
  <2>4. QED
    BY <1>6, <2>2, <2>3 DEF CheckFunctionAgain, Answer
<1>7. ASSUME NEW s \in Sessions, NEW n \in Names, CheckSym(s, n) PROVE BindingInv'
  BY <1>3, <1>4, <1>7 DEF CheckSym, Retry, Answer, cacheVars, dbVars
<1>8. ASSUME NEW s \in Sessions, CheckSymAgain(s) PROVE BindingInv'
  <2>1. /\ pc[s] = "check_sym" /\ arg[s] \in Names /\ up
        /\ UNCHANGED <<up, m_q, symtab>>
    BY <1>8 DEF CheckSymAgain, TInv, ThreadsOK, DownOK, dbVars
  <2>2. CASE m_cache[arg[s]] = None /\ Allocate(s, arg[s])
    BY <2>1, <2>2, AllocateKeeps
  <2>3. CASE UNCHANGED todo /\ UNCHANGED cacheVars
    BY <1>3, <1>4, <2>1, <2>3 DEF cacheVars
  <2>4. QED
    BY <1>8, <2>2, <2>3 DEF CheckSymAgain, Answer
<1>9. ASSUME NEW s \in Sessions, NEW f \in Bodies, AddFunc(s, f) PROVE BindingInv'
  <2>1. /\ pc[s] # "push" /\ UNCHANGED <<m_q, symtab>> /\ CacheKept
        /\ AnswerAfter(s, None, BodyClosures(f))
    BY <1>9 DEF AddFunc, Called, dbVars
  <2>2. \A i \in DOMAIN BodyClosures(f) : BodyClosures(f)[i].op # "insert_sym"
    BY BodyType
  <2>3. SameBindings
    BY <2>1, <2>2, NoNewRows
  <2>4. QED
    BY <2>1, <2>3, BindingsKept
<1>10. ASSUME NEW s \in Sessions, Quit(s) \/ Notify(s) PROVE BindingInv'
  BY <1>3, <1>4, <1>10 DEF Quit, Notify, cacheVars, dbVars
<1>11. ASSUME NEW s \in Sessions, Push(s) PROVE BindingInv'
  BY <1>11, PushBindings, BindingsKept DEF Push, cacheVars
<1>12. ASSUME WriterTest \/ WriterSleep \/ SpuriousWakeup \/ WriterRelock PROVE BindingInv'
  BY <1>3, <1>4, <1>12
  DEF WriterTest, WriterSleep, SpuriousWakeup, WriterRelock, cacheVars, threadVars, dbVars
<1>13. ASSUME WriterApply PROVE BindingInv'
  BY <1>13, ApplyBindings, BindingsKept DEF WriterApply, cacheVars, BindingInv
<1>14. CASE UNCHANGED vars
  BY <1>3, <1>4, <1>14 DEF vars, cacheVars, threadVars, dbVars
<1>15. QED
  BY <1>1, <1>2, <1>5, <1>6, <1>7, <1>8, <1>9, <1>10, <1>11, <1>12, <1>13, <1>14
  DEF Next, Crash, Writer, WriterStep, WriterExit, Request, Thread

LEMMA InitBindingInv == Init => BindingInv
<1> SUFFICES ASSUME Init PROVE BindingInv
  OBVIOUS
<1>1. \A i \in Ids, n \in Names : ~Bound(i, n)
  BY DEF Init, Bound, Outstanding
<1>2. \A k \in Names : m_cache[k] \notin Ids
  BY IdsFact DEF Init, None
<1>3. OneNamePerId /\ OneIdPerCString
  BY <1>1 DEF OneNamePerId, OneIdPerCString, CStrings
<1>4. CacheBacked
  BY <1>2 DEF CacheBacked
<1>5. BoundIdsAllocated /\ BoundNamesCached
  BY <1>1 DEF BoundIdsAllocated, BoundNamesCached
<1>6. QED
  BY <1>3, <1>4, <1>5 DEF BindingInv

\* For any number of clients and names, through crashes and restarts: an id is
\* never given to two names, a C string never gets two ids, and the cache only
\* answers ids whose row is stored or on its way.
THEOREM BindingsCorrect == Spec => [](OneNamePerId /\ OneIdPerCString /\ CacheBacked)
<1>1. Init => TInv /\ BindingInv
  BY InitTInv, InitBindingInv
<1>2. TInv /\ BindingInv /\ [Next]_vars => (TInv /\ BindingInv)'
  BY StepTInv, StepBindingInv
<1>3. TInv /\ BindingInv => OneNamePerId /\ OneIdPerCString /\ CacheBacked
  BY DEF BindingInv
<1>4. QED
  BY <1>1, <1>2, <1>3, PTL DEF Spec

\* However many clients ask for a new C string at once, and across restarts, one
\* symtab row is made for it.
THEOREM OneIdCorrect == Spec => []OneIdPerCString
<1>1. OneNamePerId /\ OneIdPerCString /\ CacheBacked => OneIdPerCString
  OBVIOUS
<1> QED BY <1>1, BindingsCorrect, PTL

\* What the cache answers has its row, or one on its way.
THEOREM CacheCorrect == Spec => []CacheBacked
<1>1. OneNamePerId /\ OneIdPerCString /\ CacheBacked => CacheBacked
  OBVIOUS
<1> QED BY <1>1, BindingsCorrect, PTL

-----------------------------------------------------------------------------
(***************************************************************************)
(* References, until the first crash.  A client refers to ids the server   *)
(* has answered, so at most max_id; and as nothing was lost yet, each of   *)
(* these ids has its row, or one on its way.  A crash loses rows but no    *)
(* references that were stored, which is why this ends with the first run. *)
(***************************************************************************)
Refers(i, w) == xrefs[i][w] > 0 \/ InHand(InsertXref(i, w))

NothingStored == Stored = {} /\ \A i, w \in Ids : ~(xrefs[i][w] > 0)

IdsBacked == \A w \in Ids : w <= max_id => \E n \in Names : Bound(w, n)

RefsAllocated == \A i, w \in Ids : Refers(i, w) => w <= max_id

RefsInv ==
  /\ starts = 0 => ~up /\ NothingStored
  /\ up /\ starts = 1 => IdsBacked /\ RefsAllocated

LEMMA RefsInvBacks == RefsInv => RefsBacked
  BY DEF RefsInv, IdsBacked, RefsAllocated, RefsBacked, Refers

LEMMA InitRefsInv == Init => RefsInv
<1> SUFFICES ASSUME Init PROVE RefsInv
  OBVIOUS
<1>1. \A i, w \in Ids : xrefs[i][w] = 0
  BY DEF Init
<1>2. NothingStored
  BY <1>1 DEF Init, NothingStored, Stored
<1> QED BY <1>2 DEF Init, RefsInv

NoNewRefs == \A i, w \in Ids : Refers(i, w)' => Refers(i, w)

\* Any step of a server that allocates nothing, loses no binding, and takes no
\* reference in hand but to ids that are allocated.
LEMMA RefsKept ==
  ASSUME RefsInv, up, UNCHANGED <<up, starts, max_id>>, SameBindings,
         \A i, w \in Ids : Refers(i, w)' => Refers(i, w) \/ w <= max_id
  PROVE  RefsInv'
<1>1. starts' # 0
  BY DEF RefsInv
<1>2. ASSUME starts' = 1 PROVE IdsBacked' /\ RefsAllocated'
  <2>1. IdsBacked /\ RefsAllocated
    BY <1>2 DEF RefsInv
  <2>2. IdsBacked'
    BY <2>1 DEF IdsBacked, SameBindings
  <2>3. RefsAllocated'
    BY <2>1 DEF RefsAllocated
  <2> QED BY <2>2, <2>3
<1> QED BY <1>1, <1>2 DEF RefsInv

LEMMA SameRefs ==
  ASSUME UNCHANGED <<xrefs, m_q, todo>> PROVE NoNewRefs
  BY DEF NoNewRefs, Refers, InHand

\* A handler with nothing to push takes closures in hand.
LEMMA AnswerRefs ==
  ASSUME TInv, NEW s \in Sessions, NEW id, NEW closures, pc[s] # "push",
         AnswerAfter(s, id, closures), UNCHANGED <<m_q, xrefs>>, NEW i, NEW w, Refers(i, w)'
  PROVE  Refers(i, w) \/ Has(closures, InsertXref(i, w))
<1>1. todo \in [Sessions -> Seq(Closures)]
  BY DEF TInv, TypeOK
<1>2. todo' = [todo EXCEPT ![s] = closures]
  BY DEF AnswerAfter
<1>3. todo'[s] = closures /\ \A t \in Sessions : t # s => todo'[t] = todo[t]
  BY <1>1, <1>2
<1> QED BY <1>3 DEF Refers, InHand

LEMMA AllocateRefs ==
  ASSUME TInv, BindingInv, RefsInv, up, NEW s \in Sessions, NEW n \in Names, pc[s] # "push",
         Allocate(s, n), UNCHANGED <<up, starts, m_q, symtab, xrefs>>
  PROVE  RefsInv'
<1> DEFINE new == max_id + 1
<1>1. new \in Ids /\ max_id' = new /\ max_id \in Nat
  BY AllocateStep, IdsFact DEF TInv, TypeOK
<1>2. \A i \in Ids, m \in Names : Bound(i, m)' <=> Bound(i, m) \/ (i = new /\ m = n)
  BY AllocateBinds
<1>3. \A w \in Ids : w <= new => w <= max_id \/ w = new
  BY <1>1, IdsFact
<1>4. \A w \in Ids : w <= max_id => w <= new
  BY <1>1, IdsFact
<1>5. AnswerAfter(s, new, <<InsertSym(new, n)>>)
  BY DEF Allocate
<1>6. \A i, w : ~Has(<<InsertSym(new, n)>>, InsertXref(i, w))
  BY DEF Has, InsertSym, InsertXref
<1>7. NoNewRefs
  BY <1>5, <1>6, AnswerRefs DEF NoNewRefs
<1>8. starts' # 0
  BY DEF RefsInv
<1> HIDE DEF new
<1>9. ASSUME starts' = 1 PROVE IdsBacked' /\ RefsAllocated'
  <2>1. IdsBacked /\ RefsAllocated
    BY <1>9 DEF RefsInv
  <2>2. IdsBacked'
    BY <2>1, <1>1, <1>2, <1>3 DEF IdsBacked
  <2>3. RefsAllocated'
    BY <2>1, <1>1, <1>4, <1>7 DEF RefsAllocated, NoNewRefs
  <2> QED BY <2>2, <2>3
<1> QED BY <1>8, <1>9 DEF RefsInv

\* The references of a body are ids that are allocated (Request).
LEMMA BodyRefs ==
  ASSUME NEW f \in Bodies, \A k \in DOMAIN f.refs : f.refs[k] <= max_id,
         NEW i, NEW w, Has(BodyClosures(f), InsertXref(i, w))
  PROVE  w <= max_id
<1> DEFINE a == <<UpdateFname(f.id)>>
           b == [k \in 1 .. f.errors |-> InsertErr(f.id)]
           c == [k \in 1 .. Len(f.refs) |-> InsertXref(f.id, f.refs[k])]
           Other == {x \in Closures : x.op # "insert_xref"}
           Known == {x \in Closures : x.op = "insert_xref" => x.what <= max_id}
<1>1. f.id \in Ids /\ f.errors \in Nat /\ f.refs \in Seq(Ids)
  BY IdsFact DEF Bodies
<1>2. a \in Seq(Known)
  BY <1>1, ClosureTypes DEF UpdateFname
<1>3. b \in Seq(Known)
  <2>1. InsertErr(f.id) \in Known
    BY <1>1, ClosureTypes DEF InsertErr
  <2> QED BY <1>1, <2>1
<1>4. c \in Seq(Known)
  <2>1. \A k \in 1 .. Len(f.refs) : InsertXref(f.id, f.refs[k]) \in Known
    BY <1>1, ClosureTypes DEF InsertXref
  <2>2. Len(f.refs) \in Nat
    BY <1>1
  <2> QED BY <2>1, <2>2
<1> HIDE DEF a, b, c, Known
<1>5. a \o b \o c \in Seq(Known)
  BY <1>2, <1>3, <1>4
<1>6. BodyClosures(f) = a \o b \o c
  BY DEF BodyClosures, a, b, c
<1>7. PICK k \in DOMAIN BodyClosures(f) : BodyClosures(f)[k] = InsertXref(i, w)
  BY DEF Has
<1>8. InsertXref(i, w) \in Known
  <2>1. BodyClosures(f) \in Seq(Known)
    BY <1>5, <1>6
  <2>2. \A q \in Seq(Known) : \A j \in DOMAIN q : q[j] \in Known
    OBVIOUS
  <2> QED BY <1>7, <2>1, <2>2
<1> QED BY <1>8 DEF Known, InsertXref

LEMMA PushRefs ==
  ASSUME TInv, NEW s \in Sessions, Push(s) PROVE NoNewRefs
<1>1. todo[s] \in Seq(Closures) /\ todo[s] # <<>> /\ m_q \in Seq(Closures)
  BY DEF TInv, TypeOK, ThreadsOK, Push
<1>2. m_q' = Append(m_q, Head(todo[s])) /\ todo'[s] = Tail(todo[s])
  BY DEF TInv, TypeOK, Push
<1>3. \A t \in Sessions : t # s => todo'[t] = todo[t]
  BY DEF TInv, TypeOK, Push
<1>4. Head(todo[s]) \in Closures
  BY <1>1
<1>5. \A c : Has(m_q', c) <=> Has(m_q, c) \/ c = Head(todo[s])
  BY <1>1, <1>2, <1>4, HasAppend
<1>6. \A c : Has(todo[s], c) <=> c = Head(todo[s]) \/ Has(todo'[s], c)
  BY <1>1, <1>2, HasHeadTail
<1>7. \A c : InHand(c)' => InHand(c)
  BY <1>3, <1>5, <1>6 DEF InHand
<1> QED BY <1>7 DEF NoNewRefs, Refers, Push, dbVars

\* A row of xrefs is made of a closure that was in hand.
LEMMA ApplyRefs ==
  ASSUME TInv, WriterApply PROVE NoNewRefs
<1> DEFINE c == Head(m_q)
<1>1. m_q \in Seq(Closures) /\ m_q # <<>> /\ c \in Closures
  BY DEF TInv, TypeOK, WriterApply
<1>2. m_q' = Tail(m_q) /\ todo' = todo
  BY DEF WriterApply, threadVars
<1>3. \A d : Has(m_q, d) <=> d = c \/ Has(m_q', d)
  BY <1>1, <1>2, HasHeadTail
<1>4. \A d : InHand(d) <=> d = c \/ InHand(d)'
  BY <1>2, <1>3 DEF InHand
<1>5. xrefs \in [Ids -> [Ids -> Nat]]
  BY DEF TInv, TypeOK
<1>6. ASSUME NEW i \in Ids, NEW w \in Ids, xrefs'[i][w] > 0
      PROVE  xrefs[i][w] > 0 \/ c = InsertXref(i, w)
  <2>1. CASE c.op = "insert_xref"
    <3>1. c.id \in Ids /\ c.what \in Ids /\ c = InsertXref(c.id, c.what)
      BY <1>1, <2>1 DEF Closures, InsertXref
    <3>2. xrefs' = [xrefs EXCEPT ![c.id][c.what] = @ + 1]
      BY <2>1 DEF WriterApply, Execute
    <3>3. CASE i = c.id /\ w = c.what
      BY <3>1, <3>3
    <3>4. CASE ~(i = c.id /\ w = c.what)
      <4>1. xrefs'[i][w] = xrefs[i][w]
        BY <1>5, <3>1, <3>2, <3>4
      <4> QED BY <1>6, <4>1
    <3> QED BY <3>3, <3>4
  <2>2. CASE c.op = "del_xrefs"
    <3>1. xrefs' = [xrefs EXCEPT ![c.id] = [v \in Ids |-> 0]]
      BY <2>2 DEF WriterApply, Execute
    <3>2. xrefs'[i][w] = xrefs[i][w] \/ xrefs'[i][w] = 0
      BY <1>5, <3>1
    <3> QED BY <1>6, <3>2
  <2>3. CASE c.op \notin {"insert_xref", "del_xrefs"}
    <3>1. xrefs' = xrefs
      BY <2>3 DEF WriterApply, Execute
    <3> QED BY <1>6, <3>1
  <2> QED BY <2>1, <2>2, <2>3
<1> QED BY <1>4, <1>6 DEF NoNewRefs, Refers

LEMMA StepRefsInv == TInv /\ BindingInv /\ RefsInv /\ [Next]_vars => RefsInv'
<1> SUFFICES ASSUME TInv, BindingInv, RefsInv, [Next]_vars PROVE RefsInv'
  OBVIOUS
<1>1. CASE Start
  <2>1. up' /\ starts' = starts + 1 /\ xrefs' = xrefs /\ m_q' = m_q /\ todo' = todo
    BY <1>1 DEF Start, threadVars, dbVars
  <2>2. starts \in Nat
    BY DEF TInv, TypeOK
  <2>3. starts' # 0
    BY <2>1, <2>2
  <2>4. ASSUME starts' = 1 PROVE IdsBacked' /\ RefsAllocated'
    <3>1. starts = 0
      BY <2>1, <2>2, <2>4
    <3>2. NothingStored
      BY <3>1 DEF RefsInv
    <3>3. \A d : ~InHand(d)
      BY <1>1 DEF Start, TInv, ThreadsOK, DownOK, InHand, Has
    <3>4. RefsAllocated'
      BY <2>1, <3>2, <3>3, SameRefs DEF NoNewRefs, RefsAllocated, NothingStored, Refers
    <3>5. IdsBacked'
      <4>1. max_id' = None
        BY <1>1, <3>2 DEF Start, IsLast, NothingStored
      <4> QED BY <4>1, IdsFact DEF IdsBacked, None, Ids
    <3> QED BY <3>4, <3>5
  <2> QED BY <2>1, <2>3, <2>4 DEF RefsInv
<1>2. ASSUME Die, up PROVE RefsInv'
  BY <1>2 DEF Die, RefsInv
<1> DEFINE Kept == UNCHANGED <<up, starts, max_id>>
<1>3. ASSUME up, SameInserts, UNCHANGED symtab, NoNewRefs, Kept PROVE RefsInv'
  BY <1>3, SameBindingsRule, RefsKept DEF NoNewRefs
<1>4. ASSUME UNCHANGED <<m_q, todo>> PROVE SameInserts
  BY <1>4 DEF SameInserts, InHand
<1>5. ASSUME up, UNCHANGED <<m_q, todo, symtab, xrefs>>, Kept PROVE RefsInv'
  BY <1>3, <1>4, <1>5, SameRefs
<1>6. ASSUME NEW s \in Sessions, NEW n \in CStrings, CheckFunction(s, n) PROVE RefsInv'
  <2>1. up /\ pc[s] # "push" /\ UNCHANGED <<m_q, symtab, xrefs>> /\ Kept
    BY <1>6 DEF CheckFunction, Called, cacheVars, dbVars
  <2>2. CASE UNCHANGED todo
    BY <1>5, <2>1, <2>2
  <2>3. ASSUME NEW id, AnswerAfter(s, id, <<DelXrefs(id), DelErrs(id)>>) PROVE RefsInv'
    <3>1. \A i \in DOMAIN <<DelXrefs(id), DelErrs(id)>> :
            <<DelXrefs(id), DelErrs(id)>>[i].op \notin {"insert_sym", "insert_xref"}
      BY DEF DelXrefs, DelErrs
    <3>2. SameBindings
      BY <2>1, <2>3, <3>1, NoNewRows
    <3>3. \A i, w : ~Has(<<DelXrefs(id), DelErrs(id)>>, InsertXref(i, w))
      BY <3>1 DEF Has, InsertXref
    <3>4. \A i, w : Refers(i, w)' => Refers(i, w)
      BY <2>1, <2>3, <3>3, AnswerRefs
    <3> QED BY <2>1, <3>2, <3>4, RefsKept
  <2> QED BY <1>6, <2>2, <2>3 DEF CheckFunction, Retry, Answer
<1>7. ASSUME NEW s \in Sessions, CheckFunctionAgain(s) PROVE RefsInv'
  <2>1. /\ pc[s] = "check_function" /\ arg[s] \in CStrings /\ arg[s] \in Names /\ up
        /\ UNCHANGED <<up, starts, m_q, symtab, xrefs>>
    BY <1>7 DEF CheckFunctionAgain, TInv, ThreadsOK, DownOK, CStrings, dbVars
  <2>2. CASE Allocate(s, arg[s])
    BY <2>1, <2>2, AllocateRefs
  <2>3. CASE UNCHANGED todo /\ UNCHANGED cacheVars
    BY <1>5, <2>1, <2>3 DEF cacheVars
  <2> QED BY <1>7, <2>2, <2>3 DEF CheckFunctionAgain, Answer
<1>8. ASSUME NEW s \in Sessions, NEW n \in Names, CheckSym(s, n) PROVE RefsInv'
  BY <1>5, <1>8 DEF CheckSym, Called, Retry, Answer, cacheVars, dbVars
<1>9. ASSUME NEW s \in Sessions, CheckSymAgain(s) PROVE RefsInv'
  <2>1. /\ pc[s] = "check_sym" /\ arg[s] \in Names /\ up
        /\ UNCHANGED <<up, starts, m_q, symtab, xrefs>>
    BY <1>9 DEF CheckSymAgain, TInv, ThreadsOK, DownOK, dbVars
  <2>2. CASE Allocate(s, arg[s])
    BY <2>1, <2>2, AllocateRefs
  <2>3. CASE UNCHANGED todo /\ UNCHANGED cacheVars
    BY <1>5, <2>1, <2>3 DEF cacheVars
  <2> QED BY <1>9, <2>2, <2>3 DEF CheckSymAgain, Answer
<1>10. ASSUME NEW s \in Sessions, NEW f \in Bodies,
              \A k \in DOMAIN f.refs : f.refs[k] <= max_id, AddFunc(s, f)
       PROVE  RefsInv'
  <2>1. /\ up /\ pc[s] # "push" /\ UNCHANGED <<m_q, symtab, xrefs>> /\ Kept
        /\ AnswerAfter(s, None, BodyClosures(f))
    BY <1>10 DEF AddFunc, Called, dbVars
  <2>2. \A i \in DOMAIN BodyClosures(f) : BodyClosures(f)[i].op # "insert_sym"
    BY BodyType
  <2>3. SameBindings
    BY <2>1, <2>2, NoNewRows
  <2>4. \A i, w \in Ids : Refers(i, w)' => Refers(i, w) \/ w <= max_id
    BY <1>10, <2>1, AnswerRefs, BodyRefs
  <2> QED BY <2>1, <2>3, <2>4, RefsKept
<1>11. ASSUME NEW s \in Sessions, Quit(s) \/ Notify(s) PROVE RefsInv'
  <2>1. up
    BY <1>11 DEF Quit, Called, Notify, TInv, DownOK
  <2> QED BY <1>5, <1>11, <2>1 DEF Quit, Notify, cacheVars, dbVars
<1>12. ASSUME NEW s \in Sessions, Push(s) PROVE RefsInv'
  <2>1. up /\ Kept
    BY <1>12 DEF Push, TInv, DownOK, cacheVars
  <2> QED BY <1>12, <2>1, PushBindings, PushRefs, RefsKept DEF NoNewRefs
<1>13. ASSUME WriterTest \/ WriterSleep \/ SpuriousWakeup \/ WriterRelock PROVE RefsInv'
  <2>1. up
    BY <1>13 DEF WriterTest, WriterSleep, SpuriousWakeup, WriterRelock, TInv, DownOK
  <2> QED
    BY <1>5, <1>13, <2>1
    DEF WriterTest, WriterSleep, SpuriousWakeup, WriterRelock, cacheVars, threadVars, dbVars
<1>14. ASSUME WriterApply PROVE RefsInv'
  <2>1. up /\ Kept
    BY <1>14 DEF WriterApply, TInv, DownOK, cacheVars
  <2>2. SameBindings
    BY <1>14, ApplyBindings DEF BindingInv
  <2> QED BY <1>14, <2>1, <2>2, ApplyRefs, RefsKept DEF NoNewRefs
<1>15. CASE UNCHANGED vars
  BY <1>15, SameBindingsRule, SameRefs
  DEF vars, cacheVars, threadVars, dbVars, RefsInv, NothingStored, Stored, IdsBacked, RefsAllocated,
      SameInserts, InHand, SameBindings, NoNewRefs
<1>16. CASE WriterExit
  BY <1>2, <1>16 DEF WriterExit, TInv, DownOK
<1>17. CASE Crash
  BY <1>2, <1>17 DEF Crash
<1> QED
  BY <1>1, <1>6, <1>7, <1>8, <1>9, <1>10, <1>11, <1>12, <1>13, <1>14, <1>15, <1>16, <1>17
  DEF Next, Writer, WriterStep, Request, Thread

\* Until the server is killed for the first time, no row of xrefs refers to an id
\* that means nothing, however the handlers' closures interleave in the queue.
THEOREM RefsCorrect == Spec => []RefsBacked
<1>1. Init => TInv /\ BindingInv /\ RefsInv
  BY InitTInv, InitBindingInv, InitRefsInv
<1>2. TInv /\ BindingInv /\ RefsInv /\ [Next]_vars => (TInv /\ BindingInv /\ RefsInv)'
  BY StepTInv, StepBindingInv, StepRefsInv
<1>3. RefsInv => RefsBacked
  BY RefsInvBacks
<1> QED BY <1>1, <1>2, <1>3, PTL DEF Spec

-----------------------------------------------------------------------------
(***************************************************************************)
(* The server implements the registry of names, for any number of clients, *)
(* names and ids: every step of the server is one step of the registry or  *)
(* none.  The invariants above say why: the cache is never ahead of the    *)
(* rows, and no row is without its cache entry, so what a crash leaves is  *)
(* the part of the registry that was kept.                                 *)
(***************************************************************************)

NoNul == \A n \in Names : c_str[n] = n

RegInv == TInv /\ BindingInv

RegistryStep == Registry!RegistryNext \/ UNCHANGED <<boundIds, storedNames, told>>

LEMMA ToldAnswer ==
  ASSUME TInv, NEW s \in Sessions, NEW id, NEW skip,
         reply' = [reply EXCEPT ![s] = [id |-> id, skip |-> skip]]
  PROVE  told' = [told EXCEPT ![s] = id]
<1>1. reply \in [Sessions -> [id : Ids \cup {None}, skip : BOOLEAN]]
  BY DEF TInv, TypeOK
<1>2. \A t \in Sessions : reply'[t].id = IF t = s THEN id ELSE reply[t].id
  BY <1>1
<1> QED BY <1>2 DEF told

LEMMA SameTold == ASSUME UNCHANGED reply PROVE UNCHANGED told
  BY DEF told

LEMMA SameStored == ASSUME UNCHANGED symtab PROVE UNCHANGED storedNames
  BY DEF storedNames, Stored

LEMMA SameReg == ASSUME up, up', UNCHANGED m_cache PROVE UNCHANGED boundIds
  BY DEF boundIds

\* The id that is stored for a name is the one id bound to it.
LEMMA StoredIds ==
  ASSUME RegInv, NoNul, NEW n \in Names
  PROVE  /\ \A i \in Stored : symtab[i].name = n => Bound(i, n) /\ StoredId(n) = i
         /\ n \notin storedNames => StoredId(n) = None
         /\ n \in storedNames => \E i \in Stored : symtab[i].name = n
<1>1. ASSUME NEW i \in Stored, symtab[i].name = n PROVE Bound(i, n)
  BY <1>1 DEF Stored, Bound
<1>2. n \in CStrings
  BY DEF NoNul, CStrings
<1>3. \A i, j \in Stored : symtab[i].name = n /\ symtab[j].name = n => i = j
  BY <1>1, <1>2 DEF RegInv, BindingInv, OneIdPerCString, Stored
<1>4. ASSUME NEW i \in Stored, symtab[i].name = n PROVE StoredId(n) = i
  BY <1>3, <1>4 DEF StoredId
<1>5. n \notin storedNames => StoredId(n) = None
  BY DEF storedNames, StoredId
<1>6. n \in storedNames => \E i \in Stored : symtab[i].name = n
  BY DEF storedNames
<1> QED BY <1>1, <1>4, <1>5, <1>6

\* While the server runs, a name that is stored has its stored id in the cache.
LEMMA CachedIsStored ==
  ASSUME RegInv, NoNul, up, NEW n \in Names, n \in storedNames
  PROVE  m_cache[n] = StoredId(n)
<1>1. PICK i \in Stored : symtab[i].name = n /\ Bound(i, n) /\ StoredId(n) = i
  BY StoredIds
<1>2. i \in Ids
  BY DEF Stored
<1>3. m_cache[n] # None
  BY <1>1, <1>2 DEF RegInv, BindingInv, BoundNamesCached, NoNul
<1>4. m_cache[n] \in Ids
  BY <1>3 DEF RegInv, TInv, TypeOK
<1>5. Bound(m_cache[n], n)
  BY <1>4 DEF RegInv, BindingInv, CacheBacked, NoNul
<1>6. n \in CStrings
  BY DEF NoNul, CStrings
<1> QED BY <1>1, <1>2, <1>4, <1>5, <1>6 DEF RegInv, BindingInv, OneIdPerCString

LEMMA InitRegistry == Init => Registry!RegistryInit
<1> SUFFICES ASSUME Init PROVE Registry!RegistryInit
  OBVIOUS
<1>1. Stored = {}
  BY DEF Init, Stored
<1>2. storedNames = {} /\ \A n \in Names : StoredId(n) = None
  BY <1>1 DEF storedNames, StoredId
<1>3. boundIds = [n \in Names |-> None]
  BY <1>2 DEF Init, boundIds
<1>4. told = [s \in Sessions |-> None]
  BY DEF Init, told
<1> QED BY <1>2, <1>3, <1>4 DEF Registry!RegistryInit

\* open() fills the cache with what the file holds: nothing happens to the registry.
LEMMA StartStutters ==
  ASSUME RegInv, NoNul, Start PROVE UNCHANGED <<boundIds, storedNames, told>>
<1>1. UNCHANGED told /\ UNCHANGED storedNames
  BY SameTold, SameStored DEF Start, threadVars, dbVars
<1>2. ~up /\ up'
  BY DEF Start
<1>3. ASSUME NEW n \in Names PROVE m_cache'[n] = StoredId(n)
  <2>1. IsLast(m_cache'[n], {i \in Stored : c_str[symtab[i].name] = n})
    BY DEF Start
  <2>2. \A i \in Stored : symtab[i].name \in Names
    BY DEF RegInv, TInv, TypeOK, Stored, Row
  <2>3. {i \in Stored : c_str[symtab[i].name] = n} = {i \in Stored : symtab[i].name = n}
    BY <2>2 DEF NoNul
  <2>4. CASE n \in storedNames
    BY <2>1, <2>3, <2>4, StoredIds DEF IsLast
  <2>5. CASE n \notin storedNames
    <3>1. {i \in Stored : symtab[i].name = n} = {}
      BY <2>5 DEF storedNames
    <3> QED BY <2>1, <2>3, <2>5, <3>1, StoredIds DEF IsLast
  <2> QED BY <2>4, <2>5
<1>4. boundIds' = [n \in Names |-> m_cache'[n]]
  BY <1>2 DEF boundIds
<1>5. boundIds = [n \in Names |-> StoredId(n)]
  BY <1>2 DEF boundIds
<1> QED BY <1>1, <1>3, <1>4, <1>5

\* A kill or an exit forgets the names that are not stored.
LEMMA DieForgets == ASSUME RegInv, NoNul, up, Die PROVE Registry!Forget
<1>1. UNCHANGED symtab /\ up' = FALSE
  BY DEF Die, dbVars
<1>2. UNCHANGED storedNames
  BY <1>1, SameStored
<1>3. \A n \in Names : StoredId(n)' = StoredId(n)
  BY <1>1 DEF StoredId, Stored
<1>4. boundIds' = [n \in Names |-> StoredId(n)]
  BY <1>1, <1>3 DEF boundIds
<1>5. \A n \in Names : StoredId(n) = IF n \in storedNames THEN m_cache[n] ELSE None
  BY StoredIds, CachedIsStored
<1>6. \A n \in Names : boundIds[n] = m_cache[n]
  BY DEF boundIds
<1>7. boundIds' = [n \in Names |-> IF n \in storedNames THEN boundIds[n] ELSE None]
  BY <1>4, <1>5, <1>6
<1>8. told' = [s \in Sessions |-> None]
  BY DEF Die, told
<1> QED BY <1>2, <1>7, <1>8 DEF Registry!Forget

\* An answer from the cache.
LEMMA AnswerResolves ==
  ASSUME RegInv, NEW s \in Sessions, NEW n \in Names, NEW skip, up, up',
         m_cache[n] # None, UNCHANGED <<m_cache, symtab>>,
         reply' = [reply EXCEPT ![s] = [id |-> m_cache[n], skip |-> skip]]
  PROVE  Registry!RegistryNext
<1>1. m_cache[n] \in Ids
  BY DEF RegInv, TInv, TypeOK
<1>2. boundIds[n] = m_cache[n] /\ UNCHANGED boundIds
  BY SameReg DEF boundIds
<1>3. told' = [told EXCEPT ![s] = m_cache[n]] /\ UNCHANGED storedNames
  BY ToldAnswer, SameStored DEF RegInv
<1>4. Registry!Resolve(s, n, m_cache[n])
  BY <1>2, <1>3 DEF Registry!Resolve
<1> QED BY <1>1, <1>4 DEF Registry!RegistryNext

\* A new id, under the unique lock.
LEMMA AllocateResolves ==
  ASSUME RegInv, NoNul, NEW s \in Sessions, NEW n \in Names, up, up', pc[s] # "push",
         m_cache[n] = None, Allocate(s, n), UNCHANGED symtab
  PROVE  Registry!RegistryNext
<1> DEFINE new == max_id + 1
<1>1. new \in Ids /\ max_id \in Nat
  BY AllocateStep DEF RegInv, TInv, TypeOK
<1>2. m_cache' = [m_cache EXCEPT ![n] = new] /\ m_cache \in [Names -> Ids \cup {None}]
  BY DEF Allocate, NoNul, RegInv, TInv, TypeOK
<1>3. \A m \in Names : m_cache[m] # new
  <2>1. ASSUME NEW m \in Names, m_cache[m] = new PROVE FALSE
    <3>1. PICK k \in Names : Bound(new, k)
      BY <1>1, <2>1 DEF RegInv, BindingInv, CacheBacked
    <3>2. new <= max_id
      BY <1>1, <3>1 DEF RegInv, BindingInv, BoundIdsAllocated
    <3> QED BY <1>1, <3>2
  <2> QED BY <2>1
<1>4. told' = [told EXCEPT ![s] = new]
  BY ToldAnswer DEF Allocate, AnswerAfter, RegInv
<1> HIDE DEF new
<1>5. boundIds = [m \in Names |-> m_cache[m]] /\ boundIds' = [m \in Names |-> m_cache'[m]]
  BY DEF boundIds
<1>6. boundIds' = [boundIds EXCEPT ![n] = new]
  BY <1>2, <1>5
<1>7. boundIds[n] = None /\ Registry!Unused(new)
  BY <1>3, <1>5 DEF Registry!Unused
<1>8. UNCHANGED storedNames
  BY SameStored
<1>9. Registry!Resolve(s, n, new)
  BY <1>4, <1>6, <1>7, <1>8 DEF Registry!Resolve
<1> QED BY <1>1, <1>9 DEF Registry!RegistryNext

\* A closure that is applied stores a name that has its id, or none.
LEMMA ApplyKeeps == ASSUME RegInv, NoNul, WriterApply PROVE RegistryStep
<1> DEFINE c == Head(m_q)
<1>1. m_q \in Seq(Closures) /\ m_q # <<>> /\ c \in Closures
  BY DEF RegInv, TInv, TypeOK, WriterApply
<1>2. symtab \in [Ids -> Row \cup {NoRow}]
  BY DEF RegInv, TInv, TypeOK
<1>3. up /\ up' /\ UNCHANGED m_cache /\ UNCHANGED reply
  BY DEF WriterApply, RegInv, TInv, DownOK, cacheVars, threadVars
<1>4. UNCHANGED boundIds /\ UNCHANGED told
  BY <1>3, SameReg, SameTold
<1>5. CASE c.op = "insert_sym" /\ symtab[c.id] = NoRow
  <2>1. c.id \in Ids /\ c.name \in Names /\ c = InsertSym(c.id, c.name)
    BY <1>1, <1>5 DEF Closures, InsertSym
  <2>2. symtab' = [symtab EXCEPT ![c.id] = [name |-> c.name, fname |-> FALSE]]
    BY <1>5 DEF WriterApply, Execute
  <2>3. Bound(c.id, c.name)
    <3>1. Has(m_q, c)
      BY <1>1, HasHeadTail
    <3> QED BY <2>1, <3>1, OutstandingIsInHand DEF InHand, Bound
  <2>4. boundIds[c.name] # None
    BY <1>3, <2>1, <2>3 DEF RegInv, BindingInv, BoundNamesCached, NoNul, boundIds
  <2>5. symtab'[c.id] # NoRow /\ symtab'[c.id].name = c.name
    BY <1>2, <2>1, <2>2, NamesAssumption DEF NoRow
  <2>6. \A i \in Ids : i # c.id => symtab'[i] = symtab[i]
    BY <1>2, <2>2
  <2>7. Stored' = Stored \cup {c.id} /\ c.id \notin Stored
    BY <1>5, <2>1, <2>5, <2>6 DEF Stored
  <2>8. \A i \in Stored : symtab'[i] = symtab[i]
    BY <2>6, <2>7 DEF Stored
  <2>9. storedNames' = storedNames \cup {c.name}
    BY <2>5, <2>7, <2>8 DEF storedNames
  <2>10. Registry!Keep(c.name)
    BY <1>4, <2>4, <2>9 DEF Registry!Keep
  <2> QED BY <2>1, <2>10 DEF RegistryStep, Registry!RegistryNext
<1>6. CASE c.op = "update_fname" /\ symtab[c.id] # NoRow
  <2>1. c.id \in Ids /\ symtab[c.id] \in Row
    BY <1>1, <1>2, <1>6 DEF Closures
  <2>2. symtab' = [symtab EXCEPT ![c.id].fname = TRUE]
    BY <1>6 DEF WriterApply, Execute
  <2>3. symtab'[c.id].name = symtab[c.id].name /\ symtab'[c.id].name \in Names
    BY <1>2, <2>1, <2>2 DEF Row
  <2>4. symtab'[c.id] # NoRow
    BY <2>3, NamesAssumption DEF NoRow
  <2>5. \A i \in Ids : i # c.id => symtab'[i] = symtab[i]
    BY <1>2, <2>2
  <2>6. Stored' = Stored /\ \A i \in Stored : symtab'[i].name = symtab[i].name
    BY <1>6, <2>1, <2>3, <2>4, <2>5 DEF Stored
  <2>7. UNCHANGED storedNames
    BY <2>6 DEF storedNames
  <2> QED BY <1>4, <2>7 DEF RegistryStep
<1>7. CASE ~(c.op = "insert_sym" /\ symtab[c.id] = NoRow)
           /\ ~(c.op = "update_fname" /\ symtab[c.id] # NoRow)
  <2>1. symtab' = symtab
    BY <1>7 DEF WriterApply, Execute
  <2> QED BY <1>4, <2>1, SameStored DEF RegistryStep
<1> QED BY <1>5, <1>6, <1>7

LEMMA StepRegistry ==
  RegInv /\ NoNul /\ [Next]_vars => [Registry!RegistryNext]_<<boundIds, storedNames, told>>
<1> SUFFICES ASSUME RegInv, NoNul, [Next]_vars PROVE RegistryStep
  BY DEF RegistryStep
<1>1. CASE Start
  BY <1>1, StartStutters DEF RegistryStep
<1>2. ASSUME Die, up PROVE RegistryStep
  BY <1>2, DieForgets DEF RegistryStep, Registry!RegistryNext
<1>3. CASE Crash
  BY <1>2, <1>3 DEF Crash
<1>4. CASE WriterExit
  BY <1>2, <1>4 DEF WriterExit, RegInv, TInv, DownOK
<1>5. ASSUME up, UNCHANGED <<up, m_cache, symtab, reply>> PROVE RegistryStep
  BY <1>5, SameReg, SameStored, SameTold DEF RegistryStep
<1>6. ASSUME NEW s \in Sessions, NEW n \in CStrings, CheckFunction(s, n) PROVE RegistryStep
  <2>1. /\ n \in Names /\ c_str[n] = n /\ up /\ up'
        /\ UNCHANGED <<up, m_cache, symtab>>
    BY <1>6 DEF CheckFunction, Called, cacheVars, dbVars, CStrings
  <2>2. CASE UNCHANGED reply
    BY <1>5, <2>1, <2>2
  <2>3. ASSUME m_cache[n] # None,
               reply' = [reply EXCEPT ![s] = [id |-> m_cache[n], skip |-> FALSE]]
        PROVE  RegistryStep
    BY <2>1, <2>3, AnswerResolves DEF RegistryStep
  <2>4. m_funcs \subseteq Ids
    BY DEF RegInv, TInv, TypeOK
  <2> QED
    BY <1>6, <2>1, <2>2, <2>3, <2>4, IdsFact
    DEF CheckFunction, Retry, Answer, AnswerAfter, None
<1>7. ASSUME NEW s \in Sessions, CheckFunctionAgain(s) PROVE RegistryStep
  <2>1. /\ pc[s] = "check_function" /\ arg[s] \in Names /\ up /\ up'
        /\ UNCHANGED symtab /\ c_str[arg[s]] = arg[s]
    BY <1>7 DEF CheckFunctionAgain, RegInv, TInv, ThreadsOK, DownOK, CStrings, dbVars, NoNul
  <2>2. CASE m_cache[arg[s]] = None /\ Allocate(s, arg[s])
    BY <2>1, <2>2, AllocateResolves DEF RegistryStep
  <2>3. ASSUME NEW skip, m_cache[arg[s]] # None, UNCHANGED cacheVars,
               Answer(s, m_cache[arg[s]], skip)
        PROVE  RegistryStep
    BY <2>1, <2>3, AnswerResolves DEF RegistryStep, Answer, cacheVars
  <2> QED BY <1>7, <2>1, <2>2, <2>3 DEF CheckFunctionAgain
<1>8. ASSUME NEW s \in Sessions, NEW n \in Names, CheckSym(s, n) PROVE RegistryStep
  <2>1. up /\ up' /\ UNCHANGED <<up, m_cache, symtab>>
    BY <1>8 DEF CheckSym, Called, cacheVars, dbVars
  <2>2. CASE Retry(s, "check_sym", n)
    BY <1>5, <2>1, <2>2 DEF Retry
  <2>3. CASE m_cache[n] # None /\ Answer(s, m_cache[n], FALSE)
    BY <2>1, <2>3, AnswerResolves DEF RegistryStep, Answer
  <2> QED BY <1>8, <2>2, <2>3 DEF CheckSym
<1>9. ASSUME NEW s \in Sessions, CheckSymAgain(s) PROVE RegistryStep
  <2>1. /\ pc[s] = "check_sym" /\ arg[s] \in Names /\ up /\ up' /\ UNCHANGED symtab
    BY <1>9 DEF CheckSymAgain, RegInv, TInv, ThreadsOK, DownOK, dbVars
  <2>2. CASE m_cache[arg[s]] = None /\ Allocate(s, arg[s])
    BY <2>1, <2>2, AllocateResolves DEF RegistryStep
  <2>3. CASE m_cache[arg[s]] # None /\ UNCHANGED cacheVars /\ Answer(s, m_cache[arg[s]], FALSE)
    BY <2>1, <2>3, AnswerResolves DEF RegistryStep, Answer, cacheVars
  <2> QED BY <1>9, <2>2, <2>3 DEF CheckSymAgain
<1>10. ASSUME NEW s \in Sessions, NEW f \in Bodies, AddFunc(s, f) PROVE RegistryStep
  <2>1. up /\ up' /\ UNCHANGED <<m_cache, symtab>>
    BY <1>10 DEF AddFunc, Called, dbVars
  <2>2. told' = [told EXCEPT ![s] = None]
    BY <1>10, ToldAnswer DEF AddFunc, AnswerAfter, RegInv
  <2>3. Registry!Acknowledge(s)
    BY <2>1, <2>2, SameReg, SameStored DEF Registry!Acknowledge
  <2> QED BY <2>3 DEF RegistryStep, Registry!RegistryNext
<1>11. ASSUME NEW s \in Sessions, Quit(s) \/ Push(s) \/ Notify(s) PROVE RegistryStep
  <2>1. up
    BY <1>11 DEF Quit, Called, Push, Notify, RegInv, TInv, DownOK
  <2> QED BY <1>5, <1>11, <2>1 DEF Quit, Push, Notify, cacheVars, dbVars
<1>12. ASSUME WriterTest \/ WriterSleep \/ SpuriousWakeup \/ WriterRelock PROVE RegistryStep
  <2>1. up
    BY <1>12 DEF WriterTest, WriterSleep, SpuriousWakeup, WriterRelock, RegInv, TInv, DownOK
  <2> QED
    BY <1>5, <1>12, <2>1
    DEF WriterTest, WriterSleep, SpuriousWakeup, WriterRelock, cacheVars, threadVars, dbVars
<1>13. CASE WriterApply
  BY <1>13, ApplyKeeps
<1>14. CASE UNCHANGED vars
  <2>1. UNCHANGED boundIds /\ UNCHANGED storedNames /\ UNCHANGED told
    BY <1>14 DEF vars, cacheVars, threadVars, dbVars, boundIds, storedNames, told, StoredId, Stored
  <2> QED BY <2>1 DEF RegistryStep
<1> QED
  BY <1>1, <1>3, <1>4, <1>6, <1>7, <1>8, <1>9, <1>10, <1>11, <1>12, <1>13, <1>14
  DEF Next, Writer, WriterStep, Request, Thread

\* As long as no name holds a NUL, the server with its cache, its queue and its
\* crashes is a registry of names: calls are answered as if one at a time, and a
\* restart forgets just the names that were not stored.
THEOREM RegistryImplemented == ASSUME NoNul PROVE Spec => ImplementsRegistry
<1>1. Init => RegInv
  BY InitTInv, InitBindingInv DEF RegInv
<1>2. RegInv /\ [Next]_vars => RegInv'
  BY StepTInv, StepBindingInv DEF RegInv
<1>3. Init => Registry!RegistryInit
  BY InitRegistry
<1>4. RegInv /\ [Next]_vars => [Registry!RegistryNext]_<<boundIds, storedNames, told>>
  BY StepRegistry
<1> QED
  BY <1>1, <1>2, <1>3, <1>4, PTL
  DEF Spec, ImplementsRegistry, Registry!RegistrySpec, Registry!registryVars
=============================================================================
