-------------------------- MODULE PersSqlite_proof --------------------------
(***************************************************************************)
(* Theorems about PersSqlite, for any number of compilers, names and ids,  *)
(* one after the other or at once.                                         *)
(***************************************************************************)
EXTENDS PersSqlite, WellFoundedInduction, TLAPS

-----------------------------------------------------------------------------
(***************************************************************************)
(* MAX(id), and the last row of a C string: a set of ids has a greatest.   *)
(***************************************************************************)
LEMMA LeastNumber ==
  ASSUME NEW T \in SUBSET Nat, T # {} PROVE \E x \in T : \A y \in T : x <= y
<1>1. PICK R : IsWellFoundedOn(R, Nat) /\ R = {p \in Nat \X Nat : p[1] < p[2]}
  <2>1. OpToRel(<, Nat) = {p \in Nat \X Nat : p[1] < p[2]}
    BY DEF OpToRel
  <2> QED BY <2>1, NatLessThanWellFounded
<1>2. PICK x \in T : \A y \in T : ~(<<y, x>> \in R)
  BY <1>1, WFMin
<1>3. ASSUME NEW y \in T PROVE x <= y
  <2>1. <<y, x>> \notin R
    BY <1>2
  <2>2. <<y, x>> \in Nat \X Nat => ~(y < x)
    BY <1>1, <2>1
  <2> QED BY <2>2
<1> QED BY <1>3

LEMMA IdsFact == 0 \notin Ids /\ Ids \subseteq Nat /\ MaxId \in Nat
  BY BoundsAssumption DEF Ids

LEMMA LastFact ==
  ASSUME NEW S \in SUBSET Ids
  PROVE  /\ S = {} => Last(S) = None
         /\ S # {} => Last(S) \in S
         /\ \A j \in S : j <= Last(S)
         /\ Last(S) \in 0 .. MaxId
<1>1. CASE S = {}
  <2>1. \E k \in S \cup {None} : \A j \in S : j <= k
    BY <1>1
  <2>2. Last(S) \in S \cup {None}
    BY <2>1 DEF Last
  <2> QED BY <1>1, <2>2, IdsFact DEF None
<1>2. CASE S # {}
  <2> DEFINE T == {MaxId - j : j \in S}
  <2>1. T \in SUBSET Nat /\ T # {}
    <3>1. \A j \in S : MaxId - j \in Nat
      BY IdsFact DEF Ids
    <3> QED BY <1>2, <3>1
  <2>2. PICK x \in T : \A y \in T : x <= y
    BY <2>1, LeastNumber
  <2>3. PICK i \in S : x = MaxId - i
    BY <2>2
  <2>4. \A j \in S : j <= i
    <3>1. ASSUME NEW j \in S PROVE j <= i
      <4>1. MaxId - i <= MaxId - j
        BY <2>2, <2>3
      <4> QED BY <4>1, IdsFact DEF Ids
    <3> QED BY <3>1
  <2>5. \E k \in S \cup {None} : \A j \in S : j <= k
    BY <2>4
  <2>6. Last(S) \in S \cup {None} /\ \A j \in S : j <= Last(S)
    BY <2>5 DEF Last
  <2>7. Last(S) # None
    BY <2>3, <2>6, IdsFact DEF None, Ids
  <2> QED BY <1>2, <2>6, <2>7, IdsFact DEF Ids
<1> QED BY <1>1, <1>2

-----------------------------------------------------------------------------
(***************************************************************************)
(* Types, and when there is a function: what is recorded belongs to one,   *)
(* and a process that has no file open has nothing.                        *)
(***************************************************************************)
Counts == [Kinds -> Nat]

SqlTypes ==
  /\ parallel \in BOOLEAN
  /\ live \in [Procs -> BOOLEAN]
  /\ m_cache \in [Procs -> [Names -> Ids \cup {None}]]
  /\ m_funcs \in [Procs -> SUBSET Ids]
  /\ max_id \in [Procs -> 0 .. MaxId]
  /\ m_func \in [Procs -> CStrings \cup {None}]
  /\ m_func_id \in [Procs -> Ids \cup {None}]
  /\ arg \in [Procs -> Names \cup {ErrorText, None}]
  /\ todo \in [Procs -> Seq(Statements)]
  /\ symtab \in [Ids -> Row \cup {NoRow}]
  /\ told \in [Procs -> Ids \cup {None}]
  /\ disturbed \in [Procs -> BOOLEAN]

PlacesOK ==
  \A p \in Procs :
    /\ arg[p] # None => m_func[p] # None
    /\ ~live[p] =>
         /\ todo[p] = <<>> /\ told[p] = None /\ m_func[p] = None /\ m_func_id[p] = None
         /\ arg[p] = None /\ m_cache[p] = [n \in Names |-> None]

TInv == SqlTypes /\ PlacesOK

LEMMA StatementTypes ==
  ASSUME NEW id \in Ids
  PROVE  /\ \A n \in Names, f \in BOOLEAN : InsertSym(id, n, f) \in Statements
         /\ \A w \in Ids : InsertXref(id, w) \in Statements
         /\ {UpdateFname(id), InsertErr(id), DelXrefs(id), DelErrs(id)} \subseteq Statements
  BY DEF Statements, InsertSym, InsertXref, UpdateFname, InsertErr, DelXrefs, DelErrs

LEMMA InitTInv == Init => TInv
<1> SUFFICES ASSUME Init PROVE TInv
  OBVIOUS
<1> USE DEF Init, None
<1>1. todo \in [Procs -> Seq(Statements)] /\ max_id \in [Procs -> 0 .. MaxId]
  BY IdsFact
<1>2. symtab \in [Ids -> Row \cup {NoRow}]
  OBVIOUS
<1>3. SqlTypes
  BY <1>1, <1>2 DEF SqlTypes
<1>4. PlacesOK
  BY DEF PlacesOK
<1> QED BY <1>3, <1>4 DEF TInv

\* A call makes an id: room is left for it, and the cache of the process has it.
LEMMA AllocateStep ==
  ASSUME TInv, NEW p \in Procs, NEW n \in Names, Allocate(p, n)
  PROVE  /\ max_id[p] + 1 \in Ids
         /\ max_id' \in [Procs -> 0 .. MaxId]
         /\ m_cache' \in [Procs -> [Names -> Ids \cup {None}]]
         /\ \A q \in Procs : m_cache'[q] = IF q = p
                THEN [m_cache[p] EXCEPT ![c_str[n]] = max_id[p] + 1] ELSE m_cache[q]
         /\ \A q \in Procs : max_id'[q] = IF q = p THEN max_id[p] + 1 ELSE max_id[q]
<1>1. max_id[p] + 1 \in Ids
  BY IdsFact DEF TInv, SqlTypes, Allocate, Ids
<1>2. max_id' \in [Procs -> 0 .. MaxId]
  BY <1>1 DEF TInv, SqlTypes, Allocate, Ids
<1>3. c_str[n] \in Names
  BY CStrAssumption
<1> QED BY <1>1, <1>2, <1>3 DEF TInv, SqlTypes, Allocate

\* What open() reads from the file.
LEMMA ReadFact ==
  ASSUME TInv
  PROVE  /\ ReadMaxId \in 0 .. MaxId /\ \A i \in Stored : i <= ReadMaxId
         /\ ReadCache \in [Names -> Ids \cup {None}]
         /\ \A k \in Names : LET S == {i \in Stored : c_str[symtab[i].name] = k}
              IN IF S = {} THEN ReadCache[k] = None ELSE ReadCache[k] \in S
<1>1. Stored \in SUBSET Ids
  BY DEF Stored
<1>2. ReadMaxId \in 0 .. MaxId /\ \A i \in Stored : i <= ReadMaxId
  BY <1>1, LastFact DEF ReadMaxId
<1>3. ASSUME NEW k \in Names, NEW S, S = {i \in Stored : c_str[symtab[i].name] = k}
      PROVE  /\ ReadCache[k] \in Ids \cup {None}
             /\ IF S = {} THEN ReadCache[k] = None ELSE ReadCache[k] \in S
  <2>1. S \in SUBSET Ids /\ ReadCache[k] = Last(S)
    BY <1>1, <1>3 DEF ReadCache
  <2> QED BY <2>1, LastFact
<1>4. ReadCache \in [Names -> Ids \cup {None}]
  BY <1>3 DEF ReadCache
<1> QED BY <1>2, <1>3, <1>4

LEMMA ExecuteTypes ==
  ASSUME TInv, NEW c \in Statements, Execute(c)
  PROVE  symtab' \in [Ids -> Row \cup {NoRow}]
<1>1. symtab \in [Ids -> Row \cup {NoRow}]
  BY DEF TInv, SqlTypes
<1>2. CASE c.op = "insert_sym" /\ symtab[c.id] = NoRow
  <2>1. c.id \in Ids /\ [name |-> c.name, fname |-> c.fname] \in Row
    BY <1>2 DEF Statements, Row
  <2>2. symtab' = [symtab EXCEPT ![c.id] = [name |-> c.name, fname |-> c.fname]]
    BY <1>2 DEF Execute
  <2> QED BY <1>1, <2>1, <2>2
<1>3. CASE c.op = "update_fname" /\ symtab[c.id] # NoRow
  <2>1. c.id \in Ids /\ symtab[c.id] \in Row
    BY <1>1, <1>3 DEF Statements
  <2>2. symtab' = [symtab EXCEPT ![c.id].fname = TRUE]
    BY <1>3 DEF Execute
  <2>3. [symtab[c.id] EXCEPT !.fname = TRUE] \in Row
    BY <2>1 DEF Row
  <2> QED BY <1>1, <2>1, <2>2, <2>3
<1>4. CASE ~(c.op = "insert_sym" /\ symtab[c.id] = NoRow)
           /\ ~(c.op = "update_fname" /\ symtab[c.id] # NoRow)
  BY <1>1, <1>4 DEF Execute
<1> QED BY <1>2, <1>3, <1>4

LEMMA OpenTypes == ASSUME TInv, NEW p \in Procs, Open(p) PROVE TInv'
<1>1. PICK counted, cached \in {TRUE, ~Locked(p)} :
        /\ max_id' = [max_id EXCEPT ![p] = IF counted THEN ReadMaxId ELSE 0]
        /\ m_cache' = [m_cache EXCEPT ![p] = IF cached THEN ReadCache ELSE @]
        /\ m_funcs' = [m_funcs EXCEPT ![p] = IF cached THEN ReadFuncs ELSE {}]
        /\ disturbed' = [disturbed EXCEPT ![p] = ~counted \/ ~cached]
  BY DEF Open
<1>2. counted \in BOOLEAN /\ cached \in BOOLEAN
  BY DEF Locked
<1>3. ReadFuncs \in SUBSET Ids /\ 0 \in 0 .. MaxId
  BY IdsFact DEF ReadFuncs, Stored
<1>4. SqlTypes'
  BY <1>1, <1>2, <1>3, ReadFact DEF TInv, SqlTypes, Open, callVars, dbVars
<1>5. PlacesOK'
  <2>1. \A q \in Procs : ~live'[q] => q # p /\ ~live[q]
    BY DEF Open, TInv, SqlTypes
  <2>2. \A q \in Procs : q # p => m_cache'[q] = m_cache[q]
    BY <1>1 DEF TInv, SqlTypes
  <2> QED BY <2>1, <2>2 DEF Open, callVars, TInv, PlacesOK
<1> QED BY <1>4, <1>5 DEF TInv

LEMMA ExitTypes == ASSUME TInv, NEW p \in Procs, Exit(p) PROVE TInv'
<1>1. <<>> \in Seq(Statements) /\ 0 \in 0 .. MaxId
  BY IdsFact
<1>2. SqlTypes'
  BY <1>1 DEF TInv, SqlTypes, Exit, dbVars
<1>3. \A q \in Procs : q # p =>
        /\ live'[q] = live[q] /\ todo'[q] = todo[q] /\ told'[q] = told[q]
        /\ m_func'[q] = m_func[q] /\ m_func_id'[q] = m_func_id[q]
        /\ arg'[q] = arg[q] /\ m_cache'[q] = m_cache[q]
  BY DEF Exit, TInv, SqlTypes
<1>4. /\ todo'[p] = <<>> /\ told'[p] = None /\ m_func'[p] = None
      /\ m_func_id'[p] = None /\ arg'[p] = None
      /\ m_cache'[p] = [n \in Names |-> None]
  BY DEF Exit, TInv, SqlTypes
<1>5. PlacesOK'
  BY <1>3, <1>4 DEF TInv, PlacesOK
<1> QED BY <1>2, <1>5 DEF TInv

\* What a process does leaves the others as they are.
OthersStay(p) ==
  /\ live[p] /\ UNCHANGED live
  /\ arg'[p] # None => m_func'[p] # None
  /\ \A q \in Procs : q # p =>
       /\ todo'[q] = todo[q] /\ told'[q] = told[q] /\ m_func'[q] = m_func[q]
       /\ m_func_id'[q] = m_func_id[q] /\ arg'[q] = arg[q] /\ m_cache'[q] = m_cache[q]

LEMMA OthersPlaces ==
  ASSUME TInv, NEW p \in Procs, OthersStay(p) PROVE PlacesOK'
  BY DEF TInv, PlacesOK, OthersStay

\* One to do, or two.
LEMMA TodoTypes ==
  ASSUME TInv, NEW p \in Procs, NEW c \in Statements, NEW d \in Statements,
         \/ todo' = [todo EXCEPT ![p] = <<c>>]
         \/ todo' = [todo EXCEPT ![p] = <<c, d>>]
  PROVE  todo' \in [Procs -> Seq(Statements)]
<1>1. <<c>> \in Seq(Statements) /\ <<c, d>> \in Seq(Statements)
  OBVIOUS
<1> QED BY <1>1 DEF TInv, SqlTypes

LEMMA StartTypes ==
  ASSUME TInv, NEW p \in Procs, NEW fn \in CStrings,
         StartUnseen(p, fn) \/ StartReferenced(p, fn) \/ StartProcessed(p, fn)
  PROVE  TInv' /\ OthersStay(p)
<1>0. fn \in Names
  BY DEF CStrings
<1>1. CASE StartUnseen(p, fn)
  <2>1. SqlTypes'
    BY <1>1 DEF TInv, SqlTypes, StartUnseen, cacheVars, dbVars
  <2>2. OthersStay(p)
    BY <1>0, <1>1, NamesAssumption DEF TInv, SqlTypes, StartUnseen, Idle, cacheVars, OthersStay
  <2> QED BY <2>1, <2>2, OthersPlaces DEF TInv
<1>2. CASE StartReferenced(p, fn)
  <2> DEFINE id == m_cache[p][fn]
  <2>1. id \in Ids
    BY <1>0, <1>2 DEF StartReferenced, TInv, SqlTypes
  <2>2. todo' \in [Procs -> Seq(Statements)]
    BY <1>2, <2>1, StatementTypes, TodoTypes DEF StartReferenced
  <2>3. SqlTypes'
    BY <1>2, <2>1, <2>2 DEF TInv, SqlTypes, StartReferenced, dbVars
  <2>4. OthersStay(p)
    BY <1>0, <1>2, NamesAssumption DEF TInv, SqlTypes, StartReferenced, Idle, OthersStay
  <2> QED BY <2>3, <2>4, OthersPlaces DEF TInv
<1>3. CASE StartProcessed(p, fn)
  <2> DEFINE id == m_cache[p][fn]
  <2>1. id \in Ids
    BY <1>3 DEF StartProcessed, TInv, SqlTypes
  <2>2. todo' \in [Procs -> Seq(Statements)]
    BY <1>3, <2>1, StatementTypes, TodoTypes DEF StartProcessed
  <2>3. SqlTypes'
    BY <1>3, <2>1, <2>2 DEF TInv, SqlTypes, StartProcessed, cacheVars, dbVars
  <2>4. OthersStay(p)
    BY <1>0, <1>3, NamesAssumption
    DEF TInv, SqlTypes, StartProcessed, Idle, cacheVars, OthersStay
  <2> QED BY <2>3, <2>4, OthersPlaces DEF TInv
<1> QED BY <1>1, <1>2, <1>3

LEMMA RecordTypes ==
  ASSUME TInv, NEW p \in Procs,
         FuncStop(p) \/ AddError(p) \/ \E what \in Names \cup {ErrorText} : Record(p, what)
  PROVE  TInv' /\ OthersStay(p)
<1>1. ASSUME NEW what \in Names \cup {ErrorText}, Record(p, what) PROVE TInv' /\ OthersStay(p)
  <2>1. SqlTypes'
    BY <1>1 DEF TInv, SqlTypes, Record, cacheVars, dbVars, historyVars
  <2>2. OthersStay(p)
    BY <1>1 DEF TInv, SqlTypes, Record, Idle, cacheVars, historyVars, OthersStay
  <2> QED BY <2>1, <2>2, OthersPlaces DEF TInv
<1>2. CASE AddError(p)
  <2>1. m_func_id[p] \in Ids
    BY <1>2 DEF AddError, TInv, SqlTypes
  <2>2. todo' \in [Procs -> Seq(Statements)]
    BY <1>2, <2>1, StatementTypes, TodoTypes DEF AddError
  <2>3. SqlTypes'
    BY <1>2, <2>2 DEF TInv, SqlTypes, AddError, cacheVars, dbVars
  <2>4. OthersStay(p)
    BY <1>2 DEF TInv, SqlTypes, PlacesOK, AddError, Mid, cacheVars, OthersStay
  <2> QED BY <2>3, <2>4, OthersPlaces DEF TInv
<1>3. CASE FuncStop(p)
  <2>1. SqlTypes'
    BY <1>3 DEF TInv, SqlTypes, FuncStop, cacheVars, dbVars, historyVars
  <2>2. OthersStay(p)
    BY <1>3 DEF TInv, SqlTypes, FuncStop, Idle, cacheVars, historyVars, OthersStay
  <2> QED BY <2>1, <2>2, OthersPlaces DEF TInv
<1> QED BY <1>1, <1>2, <1>3

LEMMA ReferTypes ==
  ASSUME TInv, NEW p \in Procs, AddFunc(p) \/ RefKnown(p) \/ RefNew(p)
  PROVE  TInv' /\ OthersStay(p) /\ live[p]
<1>1. live[p]
  BY DEF TInv, PlacesOK, AddFunc, RefKnown, RefNew, Mid
<1>2. CASE AddFunc(p)
  <2> DEFINE id == max_id[p] + 1
  <2>0. m_func[p] \in Names
    BY <1>2 DEF AddFunc, Mid, TInv, SqlTypes, PlacesOK, CStrings
  <2>1. /\ id \in Ids /\ max_id' \in [Procs -> 0 .. MaxId]
        /\ m_cache' \in [Procs -> [Names -> Ids \cup {None}]]
        /\ \A q \in Procs : q # p => m_cache'[q] = m_cache[q]
    BY <1>2, <2>0, AllocateStep DEF AddFunc
  <2>2. todo' \in [Procs -> Seq(Statements)]
    BY <1>2, <2>0, <2>1, StatementTypes, TodoTypes DEF AddFunc
  <2>3. SqlTypes'
    BY <1>2, <2>1, <2>2 DEF TInv, SqlTypes, AddFunc, dbVars
  <2>4. OthersStay(p)
    BY <1>1, <1>2, <2>0, <2>1, NamesAssumption DEF TInv, SqlTypes, AddFunc, OthersStay
  <2> QED BY <1>1, <2>3, <2>4, OthersPlaces DEF TInv
<1>3. CASE RefKnown(p)
  <2>1. m_func_id[p] \in Ids /\ m_cache[p][arg[p]] \in Ids
    BY <1>3 DEF RefKnown, TInv, SqlTypes
  <2>2. todo' \in [Procs -> Seq(Statements)]
    BY <1>3, <2>1, StatementTypes, TodoTypes DEF RefKnown
  <2>3. SqlTypes'
    BY <1>3, <2>1, <2>2 DEF TInv, SqlTypes, RefKnown, cacheVars, dbVars
  <2>4. OthersStay(p)
    BY <1>1, <1>3 DEF TInv, SqlTypes, RefKnown, cacheVars, OthersStay
  <2> QED BY <1>1, <2>3, <2>4, OthersPlaces DEF TInv
<1>4. CASE RefNew(p)
  <2> DEFINE id == max_id[p] + 1
  <2>1. /\ id \in Ids /\ max_id' \in [Procs -> 0 .. MaxId]
        /\ m_cache' \in [Procs -> [Names -> Ids \cup {None}]]
        /\ \A q \in Procs : q # p => m_cache'[q] = m_cache[q]
        /\ m_func_id[p] \in Ids /\ arg[p] \in Names
    <3>1. m_func_id[p] \in Ids /\ arg[p] \in Names /\ Allocate(p, arg[p])
      BY <1>4 DEF RefNew, TInv, SqlTypes
    <3> QED BY <3>1, AllocateStep
  <2>2. todo' \in [Procs -> Seq(Statements)]
    <3>1. InsertSym(id, arg[p], FALSE) \in Statements /\ InsertXref(m_func_id[p], id) \in Statements
      BY <2>1, StatementTypes
    <3> HIDE DEF id
    <3> QED BY <1>4, <3>1, TodoTypes DEF RefNew, id
  <2>3. SqlTypes'
    BY <1>4, <2>1, <2>2 DEF TInv, SqlTypes, RefNew, dbVars
  <2>4. OthersStay(p)
    BY <1>1, <1>4, <2>1 DEF TInv, SqlTypes, RefNew, OthersStay
  <2> QED BY <1>1, <2>3, <2>4, OthersPlaces DEF TInv
<1> QED BY <1>2, <1>3, <1>4

LEMMA StepsTypes ==
  ASSUME TInv, NEW p \in Procs, Statement(p) \/ Refused(p)
  PROVE  TInv' /\ OthersStay(p)
<1>1. todo[p] \in Seq(Statements) /\ todo[p] # <<>>
  BY DEF TInv, SqlTypes, Statement, Refused
<1>2. Head(todo[p]) \in Statements /\ Tail(todo[p]) \in Seq(Statements)
  BY <1>1
<1>3. todo' \in [Procs -> Seq(Statements)] /\ \A q \in Procs : q # p => todo'[q] = todo[q]
  BY <1>2 DEF TInv, SqlTypes, Statement, Refused, Stepped
<1>4. symtab' \in [Ids -> Row \cup {NoRow}]
  BY <1>2, ExecuteTypes DEF Statement, Refused, dbVars, TInv, SqlTypes
<1>5. disturbed' \in [Procs -> BOOLEAN]
  BY DEF Statement, Refused, TInv, SqlTypes
<1>6. SqlTypes'
  BY <1>3, <1>4, <1>5 DEF TInv, SqlTypes, Statement, Refused, cacheVars, callVars
<1>7. OthersStay(p)
  BY <1>1, <1>3 DEF TInv, PlacesOK, Statement, Refused, cacheVars, callVars, OthersStay
<1> QED BY <1>6, <1>7, OthersPlaces DEF TInv

LEMMA StepTInv == TInv /\ [Next]_vars => TInv'
<1> SUFFICES ASSUME TInv, [Next]_vars PROVE TInv'
  OBVIOUS
<1>1. CASE UNCHANGED vars
  BY <1>1 DEF vars, cacheVars, callVars, dbVars, historyVars, TInv, SqlTypes, PlacesOK
<1> QED
  BY <1>1, OpenTypes, ExitTypes, StartTypes, RecordTypes, ReferTypes, StepsTypes DEF Next

-----------------------------------------------------------------------------
(***************************************************************************)
(* The cache.  CacheTrue alone is not inductive: that the next id is free  *)
(* needs max_id to be behind every row, and that a row that is written is  *)
(* the one the cache has needs it to be the first statement of a call.     *)
(***************************************************************************)
InsertsFirst ==
  \A p \in Procs : \A k \in DOMAIN todo[p] :
    todo[p][k].op = "insert_sym" => k = 1 /\ todo[p][k].id <= max_id[p]

Own(p) ==
  live[p] /\ ~disturbed[p] =>
    /\ \A i \in Stored : i <= max_id[p]
    /\ \A n \in Names : m_cache[p][n] # None => Bound(p, m_cache[p][n], n)

CacheInv == InsertsFirst /\ \A p \in Procs : Own(p)

LEMMA InitCacheInv == Init => CacheInv
  BY DEF Init, CacheInv, InsertsFirst, Own

NoInserts(s) == \A k \in DOMAIN s : s[k].op # "insert_sym"

\* A call that makes no id.
LEMMA CallKeepsCache ==
  ASSUME TInv, CacheInv, NEW p \in Procs,
         UNCHANGED <<live, disturbed, symtab, m_cache, max_id>>,
         todo[p] = <<>>, NoInserts(todo'[p]),
         \A q \in Procs : q # p => todo'[q] = todo[q]
  PROVE  CacheInv'
<1>1. InsertsFirst'
  BY DEF CacheInv, InsertsFirst, NoInserts
<1>2. UNCHANGED Stored
  BY DEF Stored
<1>3. ASSUME NEW q \in Procs, NEW id, NEW n, Bound(q, id, n) PROVE Bound(q, id, n)'
  BY <1>3 DEF Bound
<1>4. ASSUME NEW q \in Procs PROVE Own(q)'
  BY <1>2, <1>3 DEF CacheInv, Own
<1> QED BY <1>1, <1>4 DEF CacheInv

\* A call that makes an id, with its row as the first statement.
LEMMA AllocateKeepsCache ==
  ASSUME TInv, CacheInv, NEW p \in Procs, NEW n \in Names, NEW f,
         Allocate(p, n), UNCHANGED <<live, disturbed, symtab>>, todo[p] = <<>>,
         todo'[p] # <<>>, todo'[p] \in Seq(Statements),
         todo'[p][1] = InsertSym(max_id[p] + 1, n, f), NoInserts(Tail(todo'[p])),
         \A q \in Procs : q # p => todo'[q] = todo[q]
  PROVE  CacheInv'
<1>0. PICK new \in Ids : new = max_id[p] + 1 /\ max_id[p] \in Nat
  <2>1. max_id[p] \in Nat /\ max_id[p] + 1 \in Ids
    <3>1. max_id[p] + 1 \in Ids
      BY AllocateStep
    <3> QED BY <3>1, IdsFact DEF TInv, SqlTypes
  <2> QED BY <2>1
<1>1. /\ new \in Nat /\ max_id[p] \in Nat /\ new = max_id[p] + 1 /\ new # None
      /\ m_cache' \in [Procs -> [Names -> Ids \cup {None}]]
      /\ \A q \in Procs : m_cache'[q] = IF q = p
             THEN [m_cache[p] EXCEPT ![c_str[n]] = new] ELSE m_cache[q]
      /\ \A q \in Procs : max_id'[q] = IF q = p THEN new ELSE max_id[q]
  <2>1. new \in Nat /\ new # None
    BY <1>0, IdsFact DEF None
  <2>2. /\ m_cache' \in [Procs -> [Names -> Ids \cup {None}]]
        /\ \A q \in Procs : m_cache'[q] = IF q = p
             THEN [m_cache[p] EXCEPT ![c_str[n]] = max_id[p] + 1] ELSE m_cache[q]
        /\ \A q \in Procs : max_id'[q] = IF q = p THEN max_id[p] + 1 ELSE max_id[q]
    BY AllocateStep
  <2> QED BY <1>0, <2>1, <2>2
<1>2. UNCHANGED Stored
  BY DEF Stored
<1>3. \A k \in DOMAIN todo'[p] : k # 1 => todo'[p][k].op # "insert_sym"
  <2>1. ASSUME NEW k \in DOMAIN todo'[p], k # 1 PROVE todo'[p][k].op # "insert_sym"
    <3>1. k - 1 \in DOMAIN Tail(todo'[p]) /\ Tail(todo'[p])[k - 1] = todo'[p][k]
      BY <2>1
    <3> QED BY <3>1 DEF NoInserts
  <2> QED BY <2>1
<1>4. todo'[p][1].id = new /\ todo'[p][1].name = n /\ todo'[p][1].op = "insert_sym"
  BY <1>0 DEF InsertSym
<1>5. 1 \in DOMAIN todo'[p]
  OBVIOUS
<1>6. InsertsFirst'
  <2>1. ASSUME NEW q \in Procs, NEW k \in DOMAIN todo'[q], todo'[q][k].op = "insert_sym"
        PROVE  k = 1 /\ todo'[q][k].id <= max_id'[q]
    <3>1. CASE q # p
      BY <1>1, <2>1, <3>1 DEF CacheInv, InsertsFirst
    <3>2. CASE q = p
      BY <1>1, <1>3, <1>4, <2>1, <3>2, IdsFact
    <3> QED BY <3>1, <3>2
  <2> QED BY <2>1 DEF InsertsFirst
<1>7. ASSUME NEW q \in Procs, q # p PROVE Own(q)'
  <2>1. ASSUME NEW id, NEW m, Bound(q, id, m) PROVE Bound(q, id, m)'
    BY <1>7, <2>1 DEF Bound
  <2> QED BY <1>1, <1>2, <1>7, <2>1 DEF CacheInv, Own
<1>8. Own(p)'
  <2> SUFFICES ASSUME live[p], ~disturbed[p] PROVE Own(p)'
    BY DEF Own
  <2>1. \A i \in Stored' : i <= max_id'[p]
    <3>1. ASSUME NEW i \in Stored PROVE i <= new
      <4>1. i <= max_id[p] /\ i \in Nat
        BY <3>1, IdsFact DEF CacheInv, Own, Stored
      <4> QED BY <1>1, <4>1
    <3> QED BY <1>1, <1>2, <3>1
  <2>2. symtab[new] = NoRow
    <3>1. new \notin Stored
      <4>1. ASSUME new \in Stored PROVE FALSE
        <5>1. new <= max_id[p]
          BY <4>1 DEF CacheInv, Own
        <5> QED BY <1>1, <5>1
      <4> QED BY <4>1
    <3> QED BY <1>0, <3>1 DEF Stored
  <2>3. Bound(p, new, c_str[n])'
    BY <1>4, <1>5, <2>2 DEF Bound
  <2>4. ASSUME NEW m \in Names, NEW id, id = m_cache'[p][m], id # None
        PROVE  Bound(p, id, m)'
    <3>1. CASE m = c_str[n]
      <4>1. id = new
        BY <1>1, <2>4, <3>1 DEF TInv, SqlTypes
      <4> QED BY <2>3, <3>1, <4>1
    <3>2. CASE m # c_str[n]
      <4>1. id = m_cache[p][m]
        BY <1>1, <2>4, <3>2 DEF TInv, SqlTypes
      <4>2. Bound(p, id, m)
        BY <2>4, <4>1 DEF CacheInv, Own
      <4> QED BY <4>2 DEF Bound
    <3> QED BY <3>1, <3>2
  <2> QED BY <2>1, <2>4 DEF Own
<1> QED BY <1>6, <1>7, <1>8 DEF CacheInv

\* A statement that is not the row of a new id moves no row.
RowsStay ==
  \A i \in Ids : /\ symtab[i] = NoRow <=> symtab'[i] = NoRow
                 /\ symtab[i] # NoRow => symtab'[i].name = symtab[i].name

LEMMA ExecuteRows ==
  ASSUME TInv, NEW c \in Statements, Execute(c)
  PROVE  IF c.op = "insert_sym" /\ symtab[c.id] = NoRow
           THEN /\ c.id \in Ids /\ c.name \in Names
                /\ symtab'[c.id] # NoRow /\ symtab'[c.id].name = c.name
                /\ \A i \in Ids : i # c.id => symtab'[i] = symtab[i]
           ELSE RowsStay
<1>1. symtab \in [Ids -> Row \cup {NoRow}] /\ None \notin Names
  BY NamesAssumption DEF TInv, SqlTypes
<1>2. CASE c.op = "insert_sym" /\ symtab[c.id] = NoRow
  <2>1. c.id \in Ids /\ c.name \in Names
    BY <1>2 DEF Statements
  <2>2. symtab' = [symtab EXCEPT ![c.id] = [name |-> c.name, fname |-> c.fname]]
    BY <1>2 DEF Execute
  <2>3. symtab'[c.id].name = c.name
    BY <1>1, <2>1, <2>2
  <2> QED BY <1>1, <1>2, <2>1, <2>2, <2>3 DEF NoRow
<1>3. CASE c.op = "update_fname" /\ symtab[c.id] # NoRow
  <2>1. c.id \in Ids /\ symtab[c.id] \in Row
    BY <1>1, <1>3 DEF Statements
  <2>2. symtab' = [symtab EXCEPT ![c.id].fname = TRUE]
    BY <1>3 DEF Execute
  <2>3. symtab'[c.id].name = symtab[c.id].name /\ symtab[c.id].name \in Names
    BY <1>1, <2>1, <2>2 DEF Row
  <2>4. symtab'[c.id] # NoRow
    BY <1>1, <2>3 DEF NoRow
  <2>5. \A i \in Ids : i # c.id => symtab'[i] = symtab[i]
    BY <1>1, <2>2
  <2> QED BY <1>3, <2>3, <2>4, <2>5 DEF RowsStay
<1>4. CASE ~(c.op = "insert_sym" /\ symtab[c.id] = NoRow)
           /\ ~(c.op = "update_fname" /\ symtab[c.id] # NoRow)
  BY <1>4 DEF Execute, RowsStay
<1> QED BY <1>2, <1>3, <1>4

\* The first statement of a call leaves; no other makes an id.
LEMMA TailFact ==
  ASSUME TInv, InsertsFirst, NEW p \in Procs, todo[p] # <<>>, Stepped(p)
  PROVE  /\ todo'[p] = Tail(todo[p]) /\ NoInserts(todo'[p])
         /\ \A q \in Procs : q # p => todo'[q] = todo[q]
         /\ 1 \in DOMAIN todo[p] /\ Head(todo[p]) = todo[p][1] /\ Head(todo[p]) \in Statements
<1>1. todo[p] \in Seq(Statements)
  BY DEF TInv, SqlTypes
<1>2. todo'[p] = Tail(todo[p]) /\ \A q \in Procs : q # p => todo'[q] = todo[q]
  BY DEF Stepped, TInv, SqlTypes
<1>3. ASSUME NEW k \in DOMAIN Tail(todo[p]) PROVE Tail(todo[p])[k].op # "insert_sym"
  <2>1. k + 1 \in DOMAIN todo[p] /\ Tail(todo[p])[k] = todo[p][k + 1] /\ k + 1 # 1
    BY <1>1, <1>3
  <2> QED BY <2>1 DEF InsertsFirst
<1>4. 1 \in DOMAIN todo[p] /\ Head(todo[p]) = todo[p][1] /\ Head(todo[p]) \in Statements
  BY <1>1
<1> QED BY <1>2, <1>3, <1>4 DEF NoInserts

LEMMA StatementKeepsCache ==
  ASSUME TInv, CacheInv, NEW p \in Procs, Statement(p) PROVE CacheInv'
<1> DEFINE c == Head(todo[p])
<1>1. /\ todo[p] # <<>> /\ Execute(c) /\ Stepped(p) /\ InsertsFirst
      /\ UNCHANGED <<live, m_cache, max_id>>
  BY DEF Statement, CacheInv, cacheVars
<1>2. /\ c \in Statements /\ 1 \in DOMAIN todo[p] /\ c = todo[p][1]
      /\ NoInserts(todo'[p]) /\ \A q \in Procs : q # p => todo'[q] = todo[q]
  BY <1>1, TailFact
<1>3. \A q \in Procs : /\ disturbed[q] => disturbed'[q]
                       /\ q # p /\ live[q] /\ c.op = "insert_sym" => disturbed'[q]
  BY DEF Statement
<1>4. c.op = "insert_sym" => c.id <= max_id[p]
  BY <1>1, <1>2 DEF InsertsFirst
<1> HIDE DEF c
<1>5. InsertsFirst'
  BY <1>1, <1>2 DEF InsertsFirst, NoInserts
<1>6. CASE c.op = "insert_sym" /\ symtab[c.id] = NoRow
  <2>1. /\ c.id \in Ids /\ symtab'[c.id] # NoRow /\ symtab'[c.id].name = c.name
        /\ \A i \in Ids : i # c.id => symtab'[i] = symtab[i]
    BY <1>1, <1>2, <1>6, ExecuteRows
  <2>2. ASSUME NEW q \in Procs, q # p PROVE Own(q)'
    BY <1>1, <1>3, <1>6, <2>2 DEF Own
  <2>3. ASSUME NEW id \in Ids, NEW n, Bound(p, id, n) PROVE Bound(p, id, n)'
    <3>1. CASE symtab[id] # NoRow /\ c_str[symtab[id].name] = n
      BY <1>6, <2>1, <3>1 DEF Bound
    <3>2. CASE \E k \in DOMAIN todo[p] : /\ todo[p][k].op = "insert_sym" /\ todo[p][k].id = id
                                         /\ c_str[todo[p][k].name] = n
      <4>1. c.id = id /\ c_str[c.name] = n
        BY <1>1, <1>2, <3>2 DEF InsertsFirst
      <4> QED BY <2>1, <4>1 DEF Bound
    <3> QED BY <2>3, <3>1, <3>2 DEF Bound
  <2>4. Stored' = Stored \cup {c.id}
    BY <2>1 DEF Stored
  <2>5. Own(p)'
    <3> SUFFICES ASSUME live[p], ~disturbed'[p] PROVE Own(p)'
      BY <1>1 DEF Own
    <3>1. \A i \in Stored' : i <= max_id[p]
      BY <1>3, <1>4, <1>6, <2>4 DEF CacheInv, Own
    <3>2. ASSUME NEW n \in Names, NEW id, id = m_cache[p][n], id # None
          PROVE  Bound(p, id, n)'
      <4>1. Bound(p, id, n) /\ id \in Ids
        BY <1>3, <3>2 DEF CacheInv, Own, TInv, SqlTypes
      <4> QED BY <4>1, <2>3
    <3> QED BY <1>1, <3>1, <3>2 DEF Own
  <2> QED BY <1>5, <2>2, <2>5 DEF CacheInv
<1>7. CASE ~(c.op = "insert_sym" /\ symtab[c.id] = NoRow)
  <2>0. RowsStay
    BY <1>1, <1>2, <1>7, ExecuteRows
  <2>1. Stored' = Stored
    BY <2>0 DEF RowsStay, Stored
  <2>2. ASSUME NEW q \in Procs, NEW id \in Ids, NEW n, Bound(q, id, n)
        PROVE  Bound(q, id, n)'
    <3>1. CASE symtab[id] # NoRow /\ c_str[symtab[id].name] = n
      BY <2>0, <3>1 DEF RowsStay, Bound
    <3>2. CASE q # p
      BY <1>2, <2>0, <2>2, <3>2 DEF RowsStay, Bound
    <3>3. CASE q = p /\ symtab[id] = NoRow
      <4>1. PICK k \in DOMAIN todo[p] : todo[p][k].op = "insert_sym" /\ todo[p][k].id = id
        BY <2>2, <3>3 DEF Bound
      <4>2. k = 1
        BY <1>1, <4>1 DEF InsertsFirst
      <4> QED BY <1>2, <1>7, <3>3, <4>1, <4>2
    <3> QED BY <2>2, <3>1, <3>2, <3>3 DEF Bound
  <2>3. ASSUME NEW q \in Procs PROVE Own(q)'
    <3> SUFFICES ASSUME live[q], ~disturbed'[q] PROVE Own(q)'
      BY <1>1 DEF Own
    <3>1. \A i \in Stored' : i <= max_id[q]
      BY <1>3, <2>1 DEF CacheInv, Own
    <3>2. ASSUME NEW n \in Names, NEW id, id = m_cache[q][n], id # None
          PROVE  Bound(q, id, n)'
      <4>1. Bound(q, id, n) /\ id \in Ids
        BY <1>3, <3>2 DEF CacheInv, Own, TInv, SqlTypes
      <4> QED BY <4>1, <2>2
    <3> QED BY <1>1, <3>1, <3>2 DEF Own
  <2> QED BY <1>5, <2>3 DEF CacheInv
<1> QED BY <1>6, <1>7

LEMMA RefusedKeepsCache ==
  ASSUME TInv, CacheInv, NEW p \in Procs, Refused(p) PROVE CacheInv'
<1>1. /\ NoInserts(todo'[p]) /\ \A q \in Procs : q # p => todo'[q] = todo[q]
      /\ UNCHANGED <<live, m_cache, max_id, symtab>>
  BY TailFact DEF Refused, CacheInv, cacheVars, dbVars
<1>2. InsertsFirst'
  BY <1>1 DEF CacheInv, InsertsFirst, NoInserts
<1>3. disturbed'[p] /\ \A q \in Procs : q # p => disturbed'[q] = disturbed[q]
  BY DEF Refused, TInv, SqlTypes
<1>4. UNCHANGED Stored
  BY <1>1 DEF Stored
<1>5. ASSUME NEW q \in Procs, q # p, NEW id, NEW n, Bound(q, id, n) PROVE Bound(q, id, n)'
  BY <1>1, <1>5 DEF Bound
<1>6. ASSUME NEW q \in Procs PROVE Own(q)'
  BY <1>1, <1>3, <1>4, <1>5 DEF CacheInv, Own
<1> QED BY <1>2, <1>6 DEF CacheInv

LEMMA OpenKeepsCache ==
  ASSUME TInv, CacheInv, NEW p \in Procs, Open(p) PROVE CacheInv'
<1>1. PICK counted, cached \in {TRUE, ~Locked(p)} :
        /\ max_id' = [max_id EXCEPT ![p] = IF counted THEN ReadMaxId ELSE 0]
        /\ m_cache' = [m_cache EXCEPT ![p] = IF cached THEN ReadCache ELSE @]
        /\ disturbed' = [disturbed EXCEPT ![p] = ~counted \/ ~cached]
  BY DEF Open
<1>2. /\ ~live[p] /\ todo[p] = <<>> /\ UNCHANGED <<todo, symtab>>
      /\ \A q \in Procs : q # p => /\ live'[q] = live[q] /\ m_cache'[q] = m_cache[q]
                                    /\ max_id'[q] = max_id[q] /\ disturbed'[q] = disturbed[q]
  BY <1>1 DEF Open, dbVars, TInv, SqlTypes, PlacesOK
<1>3. InsertsFirst'
  BY <1>2 DEF CacheInv, InsertsFirst
<1>4. UNCHANGED Stored
  BY <1>2 DEF Stored
<1>5. ASSUME NEW q \in Procs, q # p PROVE Own(q)'
  <2>1. ASSUME NEW id, NEW n, Bound(q, id, n) PROVE Bound(q, id, n)'
    BY <1>2, <2>1 DEF Bound
  <2> QED BY <1>2, <1>4, <1>5, <2>1 DEF CacheInv, Own
<1>6. Own(p)'
  <2> SUFFICES ASSUME ~disturbed'[p] PROVE Own(p)'
    BY DEF Own
  <2>1. max_id'[p] = ReadMaxId /\ m_cache'[p] = ReadCache
    BY <1>1 DEF TInv, SqlTypes
  <2>2. \A i \in Stored : i <= ReadMaxId
    BY ReadFact
  <2>3. ASSUME NEW n \in Names, NEW id, id = ReadCache[n], id # None PROVE Bound(p, id, n)'
    <3>1. id \in {i \in Stored : c_str[symtab[i].name] = n}
      BY <2>3, ReadFact
    <3> QED BY <1>2, <3>1 DEF Stored, Bound
  <2> QED BY <1>4, <2>1, <2>2, <2>3 DEF Own
<1> QED BY <1>3, <1>5, <1>6 DEF CacheInv

LEMMA ExitKeepsCache ==
  ASSUME TInv, CacheInv, NEW p \in Procs, Exit(p) PROVE CacheInv'
<1>1. /\ ~live'[p] /\ todo'[p] = <<>> /\ UNCHANGED symtab
      /\ \A q \in Procs : q # p => /\ live'[q] = live[q] /\ m_cache'[q] = m_cache[q]
                                    /\ max_id'[q] = max_id[q] /\ disturbed'[q] = disturbed[q]
                                    /\ todo'[q] = todo[q]
  BY DEF Exit, dbVars, TInv, SqlTypes
<1>2. InsertsFirst'
  BY <1>1 DEF CacheInv, InsertsFirst
<1>3. UNCHANGED Stored
  BY <1>1 DEF Stored
<1>4. ASSUME NEW q \in Procs, NEW id, NEW n, q # p, Bound(q, id, n) PROVE Bound(q, id, n)'
  BY <1>1, <1>4 DEF Bound
<1>5. ASSUME NEW q \in Procs PROVE Own(q)'
  BY <1>1, <1>3, <1>4 DEF CacheInv, Own
<1> QED BY <1>2, <1>5 DEF CacheInv

LEMMA StepCacheInv == TInv /\ CacheInv /\ [Next]_vars => CacheInv'
<1> SUFFICES ASSUME TInv, CacheInv, [Next]_vars PROVE CacheInv'
  OBVIOUS
<1>1. ASSUME NEW p \in Procs, NEW fn \in CStrings,
             StartUnseen(p, fn) \/ StartReferenced(p, fn) \/ StartProcessed(p, fn)
      PROVE  CacheInv'
  <2>1. /\ UNCHANGED <<live, disturbed, symtab, m_cache, max_id>> /\ todo[p] = <<>>
        /\ \A q \in Procs : q # p => todo'[q] = todo[q]
    BY <1>1 DEF StartUnseen, StartReferenced, StartProcessed, Idle, cacheVars, dbVars,
                TInv, SqlTypes
  <2>2. NoInserts(todo'[p])
    <3> DEFINE id == m_cache[p][fn]
    <3>1. todo'[p] \in {<<>>, <<UpdateFname(id)>>, <<DelXrefs(id), DelErrs(id)>>}
      BY <1>1 DEF StartUnseen, StartReferenced, StartProcessed, Idle, TInv, SqlTypes
    <3> HIDE DEF id
    <3> QED BY <3>1 DEF NoInserts, UpdateFname, DelXrefs, DelErrs
  <2> QED BY <2>1, <2>2, CallKeepsCache
<1>2. ASSUME NEW p \in Procs, NEW what, Record(p, what) PROVE CacheInv'
  BY <1>2, CallKeepsCache DEF Record, Idle, cacheVars, dbVars, historyVars, NoInserts
<1>3. ASSUME NEW p \in Procs, FuncStop(p) PROVE CacheInv'
  BY <1>3, CallKeepsCache DEF FuncStop, Idle, cacheVars, dbVars, historyVars, NoInserts
<1>4. ASSUME NEW p \in Procs, AddError(p) \/ RefKnown(p) PROVE CacheInv'
  <2>1. /\ UNCHANGED <<live, disturbed, symtab, m_cache, max_id>> /\ todo[p] = <<>>
        /\ \A q \in Procs : q # p => todo'[q] = todo[q]
    BY <1>4 DEF AddError, RefKnown, Mid, cacheVars, dbVars, TInv, SqlTypes
  <2>2. NoInserts(todo'[p])
    BY <1>4 DEF AddError, RefKnown, Mid, NoInserts, TInv, SqlTypes, InsertErr, InsertXref
  <2> QED BY <2>1, <2>2, CallKeepsCache
<1>5. ASSUME NEW p \in Procs, AddFunc(p) PROVE CacheInv'
  <2>1. /\ m_func[p] \in Names /\ Allocate(p, m_func[p]) /\ todo[p] = <<>>
        /\ UNCHANGED <<live, disturbed, symtab>>
    BY <1>5 DEF AddFunc, Mid, dbVars, TInv, SqlTypes, PlacesOK, CStrings
  <2>2. /\ todo'[p] = <<InsertSym(max_id[p] + 1, m_func[p], TRUE)>>
        /\ \A q \in Procs : q # p => todo'[q] = todo[q]
    BY <1>5 DEF AddFunc, TInv, SqlTypes
  <2>3. todo'[p] \in Seq(Statements)
    BY <1>5, ReferTypes DEF TInv, SqlTypes
  <2>4. NoInserts(Tail(todo'[p]))
    BY <2>2 DEF NoInserts
  <2>5. todo'[p] # <<>> /\ todo'[p][1] = InsertSym(max_id[p] + 1, m_func[p], TRUE)
    BY <2>2
  <2>6. \A q \in Procs : q # p => todo'[q] = todo[q]
    BY <2>2
  <2> QED BY <2>1, <2>3, <2>4, <2>5, <2>6, AllocateKeepsCache
<1>6. ASSUME NEW p \in Procs, RefNew(p) PROVE CacheInv'
  <2>1. /\ arg[p] \in Names /\ Allocate(p, arg[p]) /\ todo[p] = <<>>
        /\ UNCHANGED <<live, disturbed, symtab>>
    BY <1>6 DEF RefNew, Mid, dbVars
  <2>2. /\ todo'[p] = <<InsertSym(max_id[p] + 1, arg[p], FALSE),
                        InsertXref(m_func_id[p], max_id[p] + 1)>>
        /\ \A q \in Procs : q # p => todo'[q] = todo[q]
    BY <1>6 DEF RefNew, TInv, SqlTypes
  <2>3. todo'[p] \in Seq(Statements)
    BY <1>6, ReferTypes DEF TInv, SqlTypes
  <2>4. NoInserts(Tail(todo'[p]))
    BY <2>2 DEF NoInserts, InsertXref
  <2>5. todo'[p] # <<>> /\ todo'[p][1] = InsertSym(max_id[p] + 1, arg[p], FALSE)
    BY <2>2
  <2>6. \A q \in Procs : q # p => todo'[q] = todo[q]
    BY <2>2
  <2> QED BY <2>1, <2>3, <2>4, <2>5, <2>6, AllocateKeepsCache
<1>7. CASE UNCHANGED vars
  BY <1>7 DEF vars, cacheVars, callVars, dbVars, historyVars, CacheInv, InsertsFirst, Own,
              Bound, Stored
<1> QED
  BY <1>1, <1>2, <1>3, <1>4, <1>5, <1>6, <1>7,
     OpenKeepsCache, ExitKeepsCache, StatementKeepsCache, RefusedKeepsCache DEF Next

\* The ids a compiler uses for its names are those of the table, unless another
\* one wrote a name, or had the file locked, since it opened the file.
THEOREM CacheCorrect == Spec => []CacheTrue
<1>1. Init => TInv /\ CacheInv
  BY InitTInv, InitCacheInv
<1>2. TInv /\ CacheInv /\ [Next]_vars => (TInv /\ CacheInv)'
  BY StepTInv, StepCacheInv
<1>3. TInv /\ CacheInv => CacheTrue
  <2> SUFFICES ASSUME TInv, CacheInv, NEW p \in Procs, NEW n \in Names, m_cache[p][n] # None
               PROVE  Bound(p, m_cache[p][n], n) \/ disturbed[p]
    BY DEF CacheTrue
  <2>1. live[p]
    BY DEF TInv, PlacesOK
  <2> QED BY <2>1 DEF CacheInv, Own
<1> QED BY <1>1, <1>2, <1>3, PTL DEF Spec

-----------------------------------------------------------------------------
(***************************************************************************)
(* One compiler after the other, no name with a NUL: the process that runs *)
(* has every stored name in its cache, so no name is written twice.        *)
(***************************************************************************)
NoNul == \A n \in Names : c_str[n] = n

Serves(p) ==
  /\ \A i \in Stored : m_cache[p][symtab[i].name] = i
  /\ \A k \in DOMAIN todo[p] :
       todo[p][k].op = "insert_sym" => m_cache[p][todo[p][k].name] = todo[p][k].id
  /\ m_func[p] # None /\ m_func_id[p] = None => m_cache[p][m_func[p]] = None

SerialInv ==
  ~parallel =>
    /\ \A p, q \in Procs : live[p] /\ live[q] => p = q
    /\ \A p \in Procs : ~disturbed[p]
    /\ \A i, j \in Stored : symtab[i].name = symtab[j].name => i = j
    /\ \A p \in Procs : live[p] => Serves(p)

LEMMA InitSerialInv == Init => SerialInv
  BY DEF Init, SerialInv, Stored

LEMMA StoredNames == ASSUME TInv, NEW i \in Stored PROVE i \in Ids /\ symtab[i].name \in Names
  BY DEF TInv, SqlTypes, Stored, Row

\* Nobody is at the file but the one that runs.
LEMMA NotLocked ==
  ASSUME TInv, SerialInv, ~parallel, NEW p \in Procs, live[p] \/ \A q \in Procs : ~live[q]
  PROVE  ~Locked(p)
  BY DEF TInv, PlacesOK, SerialInv, Locked

LEMMA CallSerial ==
  ASSUME TInv, SerialInv, ~parallel, NEW p \in Procs, live[p],
         UNCHANGED <<parallel, live, disturbed, symtab, m_cache>>,
         NoInserts(todo'[p]),
         m_func'[p] # None /\ m_func_id'[p] = None => m_cache[p][m_func'[p]] = None
  PROVE  SerialInv'
<1>1. UNCHANGED Stored
  BY DEF Stored
<1>2. Serves(p)
  BY DEF SerialInv
<1>3. Serves(p)'
  BY <1>1, <1>2 DEF Serves, NoInserts
<1> QED BY <1>1, <1>3 DEF SerialInv

LEMMA AllocateSerial ==
  ASSUME TInv, SerialInv, NoNul, ~parallel, NEW p \in Procs, live[p], NEW n \in Names, NEW f,
         UNCHANGED <<parallel, live, disturbed, symtab, m_func>>,
         Allocate(p, n), m_cache[p][n] = None, m_func_id'[p] # None,
         todo'[p] # <<>>, todo'[p] \in Seq(Statements),
         todo'[p][1] = InsertSym(max_id[p] + 1, n, f), NoInserts(Tail(todo'[p]))
  PROVE  SerialInv'
<1> DEFINE new == max_id[p] + 1
<1>1. UNCHANGED Stored
  BY DEF Stored
<1>2. m_cache'[p] = [m_cache[p] EXCEPT ![n] = new] /\ m_cache[p] \in [Names -> Ids \cup {None}]
  <2>1. m_cache'[p] = [m_cache[p] EXCEPT ![c_str[n]] = max_id[p] + 1]
    BY AllocateStep
  <2> QED BY <2>1 DEF NoNul, TInv, SqlTypes
<1>3. Serves(p)
  BY DEF SerialInv
<1>4. ASSUME NEW i \in Stored PROVE m_cache'[p][symtab[i].name] = i
  <2>1. m_cache[p][symtab[i].name] = i /\ i # None /\ symtab[i].name \in Names
    BY <1>3, <1>4, StoredNames, IdsFact DEF Serves, None
  <2> QED BY <1>2, <2>1
<1>5. ASSUME NEW k \in DOMAIN todo'[p], todo'[p][k].op = "insert_sym"
      PROVE  m_cache'[p][todo'[p][k].name] = todo'[p][k].id
  <2>1. CASE k = 1
    BY <1>2, <2>1 DEF InsertSym
  <2>2. CASE k # 1
    <3>1. k - 1 \in DOMAIN Tail(todo'[p]) /\ Tail(todo'[p])[k - 1] = todo'[p][k]
      BY <1>5, <2>2
    <3> QED BY <1>5, <3>1 DEF NoInserts
  <2> QED BY <2>1, <2>2
<1>6. Serves(p)'
  BY <1>1, <1>4, <1>5 DEF Serves
<1> QED BY <1>1, <1>6 DEF SerialInv

LEMMA OpenSerial ==
  ASSUME TInv, SerialInv, NoNul, ~parallel, NEW p \in Procs, Open(p)
  PROVE  /\ SerialInv'
         /\ \A q \in Procs : live'[q] => q = p
         /\ live'[p] /\ m_cache'[p] = ReadCache
<1>1. /\ \A q \in Procs : ~live[q]
      /\ UNCHANGED <<parallel, symtab, todo, m_func, m_func_id>>
  BY DEF Open, callVars, dbVars
<1>2. ~Locked(p)
  BY <1>1, NotLocked
<1>3. m_cache' = [m_cache EXCEPT ![p] = ReadCache] /\ disturbed' = [disturbed EXCEPT ![p] = FALSE]
  BY <1>2 DEF Open
<1>4. \A q \in Procs : (live'[q] => q = p) /\ live'[p] /\ ~disturbed'[q]
  BY <1>1, <1>3 DEF Open, TInv, SqlTypes, SerialInv
<1>5. m_cache'[p] = ReadCache /\ todo'[p] = <<>> /\ m_func'[p] = None
  BY <1>1, <1>3 DEF TInv, SqlTypes, PlacesOK
<1>6. UNCHANGED Stored
  BY <1>1 DEF Stored
<1>7. ASSUME NEW i \in Stored PROVE ReadCache[symtab[i].name] = i
  <2>1. symtab[i].name \in Names /\ c_str[symtab[i].name] = symtab[i].name
    BY StoredNames DEF NoNul
  <2>2. ReadCache[symtab[i].name] \in {j \in Stored : c_str[symtab[j].name] = symtab[i].name}
    BY <2>1, ReadFact
  <2>3. ASSUME NEW j \in Stored, c_str[symtab[j].name] = symtab[i].name PROVE j = i
    BY <2>3, StoredNames DEF NoNul, SerialInv
  <2> QED BY <2>2, <2>3
<1>8. Serves(p)'
  BY <1>1, <1>5, <1>6, <1>7 DEF Serves
<1> QED BY <1>1, <1>4, <1>5, <1>6, <1>8 DEF SerialInv

LEMMA ExitSerial ==
  ASSUME TInv, SerialInv, ~parallel, NEW p \in Procs, Exit(p)
  PROVE  SerialInv' /\ \A q \in Procs : ~live'[q]
<1>1. /\ \A q \in Procs : ~live'[q] /\ ~disturbed'[q]
      /\ UNCHANGED <<parallel, symtab>>
  BY DEF Exit, dbVars, SerialInv, TInv, SqlTypes
<1>2. UNCHANGED Stored
  BY <1>1 DEF Stored
<1> QED BY <1>1, <1>2 DEF SerialInv

LEMMA StatementSerial ==
  ASSUME TInv, SerialInv, InsertsFirst, ~parallel, NEW p \in Procs, Statement(p)
  PROVE  SerialInv'
<1> DEFINE c == Head(todo[p])
<1>1. /\ todo[p] # <<>> /\ Execute(c) /\ Stepped(p)
      /\ UNCHANGED <<parallel, live, m_cache, m_func, m_func_id>>
  BY DEF Statement, cacheVars, callVars
<1>2. live[p] /\ Serves(p) /\ \A q \in Procs \ {p} : ~live[q]
  BY <1>1 DEF TInv, PlacesOK, SerialInv
<1>3. \A q \in Procs : ~disturbed'[q]
  BY <1>2 DEF Statement, SerialInv
<1>4. /\ c \in Statements /\ 1 \in DOMAIN todo[p] /\ c = todo[p][1] /\ NoInserts(todo'[p])
  BY <1>1, TailFact
<1> HIDE DEF c
<1>5. CASE c.op = "insert_sym" /\ symtab[c.id] = NoRow
  <2>1. /\ c.id \in Ids /\ symtab'[c.id] # NoRow /\ symtab'[c.id].name = c.name
        /\ \A i \in Ids : i # c.id => symtab'[i] = symtab[i]
    BY <1>1, <1>4, <1>5, ExecuteRows
  <2>2. Stored' = Stored \cup {c.id} /\ c.id \notin Stored
    BY <1>5, <2>1 DEF Stored
  <2>3. m_cache[p][c.name] = c.id
    BY <1>2, <1>4, <1>5 DEF Serves
  <2>4. \A i \in Stored' : m_cache[p][symtab'[i].name] = i
    <3>1. ASSUME NEW i \in Stored PROVE m_cache[p][symtab'[i].name] = i
      <4>1. symtab'[i] = symtab[i]
        BY <2>1, <2>2, <3>1 DEF Stored
      <4> QED BY <1>2, <4>1 DEF Serves
    <3> QED BY <2>1, <2>2, <2>3, <3>1
  <2>5. Serves(p)'
    BY <1>1, <1>2, <1>4, <2>4 DEF Serves, NoInserts
  <2>6. \A i, j \in Stored' : symtab'[i].name = symtab'[j].name => i = j
    BY <2>4
  <2> QED BY <1>1, <1>2, <1>3, <2>5, <2>6 DEF SerialInv
<1>6. CASE ~(c.op = "insert_sym" /\ symtab[c.id] = NoRow)
  <2>1. RowsStay
    BY <1>1, <1>4, <1>6, ExecuteRows
  <2>2. Stored' = Stored /\ \A i \in Stored : symtab'[i].name = symtab[i].name
    BY <2>1 DEF RowsStay, Stored
  <2>3. Serves(p)'
    BY <1>1, <1>2, <1>4, <2>2 DEF Serves, NoInserts
  <2>4. \A i, j \in Stored' : symtab'[i].name = symtab'[j].name => i = j
    BY <2>2 DEF SerialInv
  <2> QED BY <1>1, <1>2, <1>3, <2>3, <2>4 DEF SerialInv
<1> QED BY <1>5, <1>6

\* The calls of one process, each a step of its own.
SerialCall(p) ==
  \/ \E fn \in CStrings : StartUnseen(p, fn) \/ StartReferenced(p, fn) \/ StartProcessed(p, fn)
  \/ \E what \in Names \cup {ErrorText} : Record(p, what)
  \/ RefKnown(p) \/ AddError(p) \/ FuncStop(p)

LEMMA CallsSerial ==
  ASSUME TInv, SerialInv, NoNul, ~parallel, NEW p \in Procs, SerialCall(p)
  PROVE  SerialInv' /\ live[p] /\ UNCHANGED <<parallel, live, m_cache, symtab>>
<1>1. live[p] /\ UNCHANGED <<parallel, live, disturbed, m_cache, symtab>>
  BY DEF SerialCall, StartUnseen, StartReferenced, StartProcessed, Record, RefKnown, AddError,
         FuncStop, Idle, Mid, TInv, PlacesOK, cacheVars, dbVars, historyVars
<1>2. Serves(p)
  BY <1>1 DEF SerialInv
<1>3. ASSUME NEW fn \in CStrings,
             StartUnseen(p, fn) \/ StartReferenced(p, fn) \/ StartProcessed(p, fn)
      PROVE  SerialInv'
  <2> DEFINE id == m_cache[p][fn]
  <2>1. todo'[p] \in {<<>>, <<UpdateFname(id)>>, <<DelXrefs(id), DelErrs(id)>>}
    BY <1>3 DEF StartUnseen, StartReferenced, StartProcessed, Idle, TInv, SqlTypes
  <2>2. m_func'[p] = fn
    BY <1>3 DEF StartUnseen, StartReferenced, StartProcessed, TInv, SqlTypes
  <2>3. id = None \/ m_func_id'[p] # None
    <3>1. None \notin m_funcs[p]
      BY IdsFact DEF None, TInv, SqlTypes
    <3> QED
      BY <1>3, <3>1 DEF StartUnseen, StartReferenced, StartProcessed, TInv, SqlTypes
  <2> HIDE DEF id
  <2>4. NoInserts(todo'[p])
    BY <2>1 DEF NoInserts, UpdateFname, DelXrefs, DelErrs
  <2> QED BY <1>1, <2>2, <2>3, <2>4, CallSerial DEF id
<1>4. ASSUME NEW what, Record(p, what) PROVE SerialInv'
  <2>1. NoInserts(todo'[p]) /\ UNCHANGED <<m_func, m_func_id>>
    BY <1>4 DEF Record, Idle, NoInserts
  <2> QED BY <1>1, <1>2, <2>1, CallSerial DEF Serves
<1>5. CASE RefKnown(p) \/ AddError(p)
  <2>1. NoInserts(todo'[p])
    BY <1>5 DEF AddError, RefKnown, Mid, NoInserts, TInv, SqlTypes, InsertErr, InsertXref
  <2>2. UNCHANGED <<m_func, m_func_id>>
    BY <1>5 DEF AddError, RefKnown
  <2> QED BY <1>1, <1>2, <2>1, <2>2, CallSerial DEF Serves
<1>6. CASE FuncStop(p)
  <2>1. NoInserts(todo'[p]) /\ m_func'[p] = None
    BY <1>6 DEF FuncStop, Idle, NoInserts, TInv, SqlTypes
  <2> QED BY <1>1, <2>1, CallSerial
<1> QED BY <1>1, <1>3, <1>4, <1>5, <1>6 DEF SerialCall

\* The two calls that make an id, as one: of the name n, with its row first.
LEMMA AllocatingCall ==
  ASSUME TInv, SerialInv, ~parallel, NEW p \in Procs, AddFunc(p) \/ RefNew(p)
  PROVE  \E n \in Names, f \in BOOLEAN :
           /\ live[p] /\ Allocate(p, n) /\ m_cache[p][n] = None /\ m_func_id'[p] # None
           /\ UNCHANGED <<parallel, live, disturbed, symtab, m_func>>
           /\ todo[p] = <<>> /\ todo'[p] # <<>> /\ todo'[p] \in Seq(Statements)
           /\ todo'[p][1] = InsertSym(max_id[p] + 1, n, f) /\ NoInserts(Tail(todo'[p]))
           /\ \A q \in Procs : q # p => todo'[q] = todo[q]
           /\ told' = [told EXCEPT ![p] = max_id[p] + 1]
<1>0. live[p] /\ todo'[p] \in Seq(Statements)
  BY ReferTypes DEF TInv, SqlTypes
<1>1. CASE AddFunc(p)
  <2>1. /\ m_func[p] \in Names /\ Allocate(p, m_func[p]) /\ todo[p] = <<>>
        /\ UNCHANGED <<parallel, live, disturbed, symtab, m_func>>
        /\ told' = [told EXCEPT ![p] = max_id[p] + 1]
    BY <1>1 DEF AddFunc, Mid, dbVars, TInv, SqlTypes, PlacesOK, CStrings
  <2>2. /\ todo'[p] = <<InsertSym(max_id[p] + 1, m_func[p], TRUE)>>
        /\ \A q \in Procs : q # p => todo'[q] = todo[q]
    BY <1>1 DEF AddFunc, TInv, SqlTypes
  <2>3. NoInserts(Tail(todo'[p]))
    BY <2>2 DEF NoInserts
  <2>4. todo'[p] # <<>> /\ todo'[p][1] = InsertSym(max_id[p] + 1, m_func[p], TRUE)
    BY <2>2
  <2>5. m_cache[p][m_func[p]] = None
    BY <1>0, <1>1, <2>1, NamesAssumption DEF AddFunc, SerialInv, Serves
  <2>6. m_func_id'[p] # None
    <3>1. max_id[p] + 1 \in Ids
      BY <2>1, AllocateStep
    <3> QED BY <1>1, <3>1, IdsFact DEF AddFunc, TInv, SqlTypes, None
  <2> QED BY <1>0, <2>1, <2>2, <2>3, <2>4, <2>5, <2>6
<1>2. CASE RefNew(p)
  <2>1. /\ arg[p] \in Names /\ Allocate(p, arg[p]) /\ todo[p] = <<>>
        /\ UNCHANGED <<parallel, live, disturbed, symtab, m_func>>
        /\ told' = [told EXCEPT ![p] = max_id[p] + 1]
        /\ m_cache[p][arg[p]] = None /\ m_func_id'[p] # None
    BY <1>2 DEF RefNew, Mid, dbVars
  <2>2. /\ todo'[p] = <<InsertSym(max_id[p] + 1, arg[p], FALSE),
                        InsertXref(m_func_id[p], max_id[p] + 1)>>
        /\ \A q \in Procs : q # p => todo'[q] = todo[q]
    BY <1>2 DEF RefNew, TInv, SqlTypes
  <2>3. NoInserts(Tail(todo'[p]))
    BY <2>2 DEF NoInserts, InsertXref
  <2>4. todo'[p] # <<>> /\ todo'[p][1] = InsertSym(max_id[p] + 1, arg[p], FALSE)
    BY <2>2
  <2> QED BY <1>0, <2>1, <2>2, <2>3, <2>4
<1> QED BY <1>1, <1>2

-----------------------------------------------------------------------------
(***************************************************************************)
(* The refinement: what each step is to the registry.                      *)
(***************************************************************************)
SqlInv == TInv /\ CacheInv /\ SerialInv

RegistryStep == Registry!RegistryNext \/ UNCHANGED <<boundIds, storedNames, told>>

LEMMA LiveReg ==
  ASSUME NEW p \in Procs, live[p], \A q \in Procs : live[q] => q = p
  PROVE  boundIds = [n \in Names |-> m_cache[p][n]]
  BY DEF boundIds

LEMMA LiveRegNext ==
  ASSUME NEW p \in Procs, live'[p], \A q \in Procs : live'[q] => q = p
  PROVE  boundIds' = [n \in Names |-> m_cache'[p][n]]
  BY DEF boundIds

LEMMA SameStored == ASSUME UNCHANGED symtab PROVE UNCHANGED storedNames
  BY DEF storedNames, Stored

LEMMA OpenStutters ==
  ASSUME SqlInv, NoNul, ~parallel, NEW p \in Procs, Open(p)
  PROVE  UNCHANGED <<boundIds, storedNames, told>>
<1>1. /\ \A q \in Procs : ~live[q] /\ (live'[q] => q = p)
      /\ UNCHANGED <<symtab, told>> /\ live'[p] /\ m_cache'[p] = ReadCache
  BY OpenSerial DEF Open, dbVars, SqlInv
<1>2. boundIds = [n \in Names |-> StoredId(n)]
  BY <1>1 DEF boundIds
<1>3. boundIds' = [n \in Names |-> ReadCache[n]]
  BY <1>1, LiveRegNext
<1>4. ASSUME NEW n \in Names PROVE ReadCache[n] = StoredId(n)
  <2>1. {i \in Stored : c_str[symtab[i].name] = n} = {i \in Stored : symtab[i].name = n}
    BY StoredNames DEF NoNul, SqlInv
  <2> QED BY <2>1 DEF ReadCache, StoredId
<1> QED BY <1>1, <1>2, <1>3, <1>4, SameStored

LEMMA ExitForgets ==
  ASSUME SqlInv, ~parallel, NEW p \in Procs, Exit(p) PROVE Registry!Forget
<1>1. /\ live[p] /\ \A q \in Procs : (live[q] => q = p) /\ ~live'[q]
      /\ UNCHANGED symtab /\ Serves(p)
  BY ExitSerial DEF Exit, dbVars, SqlInv, SerialInv
<1>2. boundIds = [n \in Names |-> m_cache[p][n]]
  BY <1>1, LiveReg
<1>3. \A n \in Names : StoredId(n)' = StoredId(n)
  BY <1>1 DEF StoredId, Stored
<1>4. boundIds' = [n \in Names |-> StoredId(n)]
  BY <1>1, <1>3 DEF boundIds
<1>5. ASSUME NEW n \in Names
      PROVE  StoredId(n) = IF n \in storedNames THEN m_cache[p][n] ELSE None
  <2> DEFINE S == {i \in Stored : symtab[i].name = n}
  <2>1. S \in SUBSET Ids /\ StoredId(n) = Last(S) /\ (S # {} <=> n \in storedNames)
    BY DEF Stored, StoredId, storedNames
  <2>2. S = {} => Last(S) = None
    BY <2>1, LastFact
  <2>3. S # {} => Last(S) \in S
    BY <2>1, LastFact
  <2>4. \A i \in S : m_cache[p][n] = i
    BY <1>1 DEF Serves
  <2> HIDE DEF S
  <2> QED BY <2>1, <2>2, <2>3, <2>4
<1>6. boundIds' = [n \in Names |-> IF n \in storedNames THEN boundIds[n] ELSE None]
  BY <1>2, <1>4, <1>5
<1>7. told' = [q \in Procs |-> None]
  <2>1. told' = [told EXCEPT ![p] = None] /\ told \in [Procs -> Ids \cup {None}]
    BY DEF Exit, SqlInv, TInv, SqlTypes
  <2>2. \A q \in Procs : q # p => told[q] = None
    BY <1>1 DEF SqlInv, TInv, PlacesOK
  <2> QED BY <2>1, <2>2
<1> QED BY <1>1, <1>6, <1>7, SameStored DEF Registry!Forget

\* An answer from the cache, or none.
LEMMA CallAnswers ==
  ASSUME SqlInv, NoNul, ~parallel, NEW p \in Procs, SerialCall(p) PROVE RegistryStep
<1>1. /\ live[p] /\ \A q \in Procs : live[q] => q = p
      /\ UNCHANGED <<live, m_cache, symtab>>
  BY CallsSerial DEF SqlInv, SerialInv
<1>2. boundIds = [n \in Names |-> m_cache[p][n]] /\ UNCHANGED boundIds
  <2>1. boundIds = [n \in Names |-> m_cache[p][n]]
    BY <1>1, LiveReg
  <2> QED BY <1>1, <2>1, LiveRegNext
<1>3. UNCHANGED storedNames
  BY <1>1, SameStored
<1>4. ASSUME NEW n \in Names, NEW id \in Ids, id = m_cache[p][n],
             told' = [told EXCEPT ![p] = id]
      PROVE  RegistryStep
  <2>1. Registry!Resolve(p, n, id)
    BY <1>2, <1>3, <1>4 DEF Registry!Resolve
  <2> QED BY <2>1 DEF RegistryStep, Registry!RegistryNext
<1>5. CASE UNCHANGED told
  BY <1>2, <1>3, <1>5 DEF RegistryStep
<1>6. ASSUME NEW fn \in CStrings, StartUnseen(p, fn) PROVE RegistryStep
  <2>1. Registry!Acknowledge(p)
    BY <1>2, <1>3, <1>6 DEF StartUnseen, Registry!Acknowledge
  <2> QED BY <2>1 DEF RegistryStep, Registry!RegistryNext
<1>7. ASSUME NEW fn \in CStrings, StartReferenced(p, fn) \/ StartProcessed(p, fn)
      PROVE  RegistryStep
  <2> DEFINE id == m_cache[p][fn]
  <2>1. fn \in Names /\ id \in Ids /\ told' = [told EXCEPT ![p] = id]
    BY <1>7 DEF StartReferenced, StartProcessed, CStrings, SqlInv, TInv, SqlTypes
  <2> QED BY <1>4, <2>1
<1>8. CASE RefKnown(p)
  <2> DEFINE id == m_cache[p][arg[p]]
  <2>1. arg[p] \in Names /\ id \in Ids /\ told' = [told EXCEPT ![p] = id]
    BY <1>8 DEF RefKnown, SqlInv, TInv, SqlTypes
  <2> QED BY <1>4, <2>1
<1> QED
  BY <1>5, <1>6, <1>7, <1>8 DEF SerialCall, Record, AddError, FuncStop, historyVars

LEMMA AllocationResolves ==
  ASSUME SqlInv, NoNul, ~parallel, NEW p \in Procs, AddFunc(p) \/ RefNew(p)
  PROVE  SerialInv' /\ Registry!RegistryNext
<1>1. PICK n \in Names, f \in BOOLEAN :
           /\ live[p] /\ Allocate(p, n) /\ m_cache[p][n] = None /\ m_func_id'[p] # None
           /\ UNCHANGED <<parallel, live, disturbed, symtab, m_func>>
           /\ todo[p] = <<>> /\ todo'[p] # <<>> /\ todo'[p] \in Seq(Statements)
           /\ todo'[p][1] = InsertSym(max_id[p] + 1, n, f) /\ NoInserts(Tail(todo'[p]))
           /\ told' = [told EXCEPT ![p] = max_id[p] + 1]
  BY AllocatingCall DEF SqlInv
<1>2. SerialInv'
  BY <1>1, AllocateSerial DEF SqlInv
<1>3. \A q \in Procs : live[q] => q = p
  BY <1>1 DEF SqlInv, SerialInv
<1>4. PICK new \in Ids : new = max_id[p] + 1 /\ max_id[p] \in Nat
  <2>1. max_id[p] + 1 \in Ids
    BY <1>1, AllocateStep DEF SqlInv
  <2> QED BY <2>1, IdsFact DEF SqlInv, TInv, SqlTypes
<1>5. m_cache'[p] = [m_cache[p] EXCEPT ![n] = new] /\ m_cache[p] \in [Names -> Ids \cup {None}]
  <2>1. m_cache'[p] = [m_cache[p] EXCEPT ![c_str[n]] = max_id[p] + 1]
    BY <1>1, AllocateStep DEF SqlInv
  <2> QED BY <1>4, <2>1 DEF NoNul, SqlInv, TInv, SqlTypes
<1>6. boundIds = [m \in Names |-> m_cache[p][m]] /\ boundIds' = [m \in Names |-> m_cache'[p][m]]
  BY <1>1, <1>3, LiveReg, LiveRegNext
<1>7. \A m \in Names : m_cache[p][m] # new
  <2>1. ASSUME NEW m \in Names, m_cache[p][m] = new PROVE FALSE
    <3>1. ~disturbed[p]
      BY DEF SqlInv, SerialInv
    <3>2. Bound(p, new, m)
      BY <1>1, <2>1, <3>1, <1>4, IdsFact DEF SqlInv, CacheInv, Own, None
    <3>3. new \in Stored
      BY <1>1, <3>2 DEF Bound, Stored
    <3>4. new <= max_id[p]
      BY <1>1, <3>1, <3>3 DEF SqlInv, CacheInv, Own
    <3> QED BY <1>4, <3>4
  <2> QED BY <2>1
<1>8. boundIds' = [boundIds EXCEPT ![n] = new]
  BY <1>5, <1>6
<1>9. boundIds[n] = None /\ Registry!Unused(new)
  BY <1>1, <1>6, <1>7 DEF Registry!Unused
<1>10. Registry!Resolve(p, n, new)
  BY <1>1, <1>4, <1>8, <1>9, SameStored DEF Registry!Resolve
<1> QED BY <1>2, <1>10 DEF Registry!RegistryNext

\* A statement keeps the name it stores a row for.
LEMMA StatementKeeps ==
  ASSUME SqlInv, ~parallel, NEW p \in Procs, Statement(p) PROVE RegistryStep
<1> DEFINE c == Head(todo[p])
<1>1. /\ todo[p] # <<>> /\ Execute(c) /\ Stepped(p) /\ UNCHANGED <<live, m_cache, told>>
  BY DEF Statement, cacheVars
<1>2. live[p] /\ Serves(p) /\ \A q \in Procs : live[q] => q = p
  BY <1>1 DEF SqlInv, TInv, PlacesOK, SerialInv
<1>3. c \in Statements /\ 1 \in DOMAIN todo[p] /\ c = todo[p][1]
  BY <1>1, TailFact DEF SqlInv, CacheInv
<1>4. boundIds = [n \in Names |-> m_cache[p][n]] /\ UNCHANGED boundIds
  <2>1. boundIds = [n \in Names |-> m_cache[p][n]]
    BY <1>2, LiveReg
  <2> QED BY <1>1, <1>2, <2>1, LiveRegNext
<1> HIDE DEF c
<1>5. CASE c.op = "insert_sym" /\ symtab[c.id] = NoRow
  <2>1. /\ c.id \in Ids /\ c.name \in Names
        /\ symtab'[c.id] # NoRow /\ symtab'[c.id].name = c.name
        /\ \A i \in Ids : i # c.id => symtab'[i] = symtab[i]
    BY <1>1, <1>3, <1>5, ExecuteRows DEF SqlInv
  <2>2. boundIds[c.name] # None
    BY <1>2, <1>3, <1>4, <1>5, <2>1, IdsFact DEF Serves, None
  <2>3. Stored' = Stored \cup {c.id} /\ \A i \in Stored : symtab'[i] = symtab[i]
    BY <1>5, <2>1 DEF Stored
  <2>4. storedNames' = storedNames \cup {c.name}
    BY <2>1, <2>3 DEF storedNames
  <2>5. Registry!Keep(c.name)
    BY <1>1, <1>4, <2>2, <2>4 DEF Registry!Keep
  <2> QED BY <2>1, <2>5 DEF RegistryStep, Registry!RegistryNext
<1>6. CASE ~(c.op = "insert_sym" /\ symtab[c.id] = NoRow)
  <2>1. RowsStay
    BY <1>1, <1>3, <1>6, ExecuteRows DEF SqlInv
  <2>2. Stored' = Stored /\ \A i \in Stored : symtab'[i].name = symtab[i].name
    BY <2>1 DEF RowsStay, Stored
  <2>3. UNCHANGED storedNames
    BY <2>2 DEF storedNames
  <2> QED BY <1>1, <1>4, <2>3 DEF RegistryStep
<1> QED BY <1>5, <1>6

LEMMA ParallelStays == ASSUME [Next]_vars PROVE UNCHANGED parallel
<1>1. ASSUME NEW p \in Procs, Open(p) \/ Exit(p) \/ Statement(p) \/ Refused(p)
      PROVE  UNCHANGED parallel
  BY <1>1 DEF Open, Exit, Statement, Refused
<1>2. ASSUME NEW p \in Procs, NEW fn \in CStrings,
             StartUnseen(p, fn) \/ StartReferenced(p, fn) \/ StartProcessed(p, fn)
      PROVE  UNCHANGED parallel
  BY <1>2 DEF StartUnseen, StartReferenced, StartProcessed
<1>3. ASSUME NEW p \in Procs,
             AddFunc(p) \/ RefKnown(p) \/ RefNew(p) \/ AddError(p) \/ FuncStop(p)
      PROVE  UNCHANGED parallel
  BY <1>3 DEF AddFunc, RefKnown, RefNew, AddError, FuncStop
<1>4. ASSUME NEW p \in Procs, NEW what, Record(p, what) PROVE UNCHANGED parallel
  BY <1>4 DEF Record
<1>5. CASE UNCHANGED vars
  BY <1>5 DEF vars
<1> QED BY <1>1, <1>2, <1>3, <1>4, <1>5 DEF Next

LEMMA StepSerial ==
  ASSUME SqlInv, NoNul, [Next]_vars
  PROVE  SerialInv' /\ (parallel \/ RegistryStep)
<1>1. CASE parallel
  BY <1>1, ParallelStays DEF SerialInv
<1>2. CASE UNCHANGED vars /\ ~parallel
  <2>1. UNCHANGED <<boundIds, storedNames, told>>
    BY <1>2 DEF vars, cacheVars, dbVars, historyVars, boundIds, storedNames, StoredId, Stored
  <2>2. SerialInv'
    BY <1>2 DEF vars, cacheVars, callVars, dbVars, historyVars, SqlInv, SerialInv, Serves, Stored
  <2> QED BY <2>1, <2>2 DEF RegistryStep
<1>3. ASSUME ~parallel, NEW p \in Procs, Open(p) PROVE SerialInv' /\ RegistryStep
  BY <1>3, OpenSerial, OpenStutters DEF SqlInv, RegistryStep
<1>4. ASSUME ~parallel, NEW p \in Procs, Exit(p) PROVE SerialInv' /\ RegistryStep
  BY <1>4, ExitSerial, ExitForgets DEF SqlInv, RegistryStep, Registry!RegistryNext
<1>5. ASSUME ~parallel, NEW p \in Procs, SerialCall(p) PROVE SerialInv' /\ RegistryStep
  BY <1>5, CallsSerial, CallAnswers DEF SqlInv
<1>6. ASSUME ~parallel, NEW p \in Procs, AddFunc(p) \/ RefNew(p)
      PROVE  SerialInv' /\ RegistryStep
  BY <1>6, AllocationResolves DEF RegistryStep
<1>7. ASSUME ~parallel, NEW p \in Procs, Statement(p) PROVE SerialInv' /\ RegistryStep
  BY <1>7, StatementSerial, StatementKeeps DEF SqlInv, CacheInv
<1>8. ASSUME ~parallel, NEW p \in Procs, Refused(p) PROVE FALSE
  BY <1>8, NotLocked DEF Refused, SqlInv, TInv, PlacesOK
<1> QED BY <1>1, <1>2, <1>3, <1>4, <1>5, <1>6, <1>7, <1>8 DEF Next, SerialCall

LEMMA InitRegistry == Init => Registry!RegistryInit
<1> SUFFICES ASSUME Init PROVE Registry!RegistryInit
  OBVIOUS
<1>1. Stored = {} /\ \A p \in Procs : ~live[p]
  BY DEF Init, Stored
<1>2. storedNames = {}
  BY <1>1 DEF storedNames
<1>3. Last({}) = None
  BY LastFact
<1>4. ASSUME NEW n \in Names PROVE StoredId(n) = None
  <2>1. {i \in Stored : symtab[i].name = n} = {}
    BY <1>1
  <2> QED BY <1>3, <2>1 DEF StoredId
<1>5. boundIds = [n \in Names |-> None]
  BY <1>1, <1>4 DEF boundIds
<1> QED BY <1>2, <1>5 DEF Init, Registry!RegistryInit

\* With compilers one after the other, and no name that holds a NUL, the file
\* and the cache of whoever runs are one registry of names: every build goes on
\* with the ids of the builds before it, and a kill forgets just the name whose
\* row was not written.
THEOREM RegistryImplemented == ASSUME NoNul PROVE Spec => ImplementsRegistry
<1>1. Init => SqlInv
  BY InitTInv, InitCacheInv, InitSerialInv DEF SqlInv
<1>2. SqlInv /\ [Next]_vars => SqlInv'
  BY StepTInv, StepCacheInv, StepSerial DEF SqlInv
<1>3. Init => parallel \/ Registry!RegistryInit
  BY InitRegistry
<1>4. SqlInv /\ [Next]_vars
        => [parallel \/ Registry!RegistryNext]_<<boundIds, storedNames, told>>
  BY StepSerial DEF RegistryStep
<1> QED BY <1>1, <1>2, <1>3, <1>4, PTL DEF Spec, ImplementsRegistry

-----------------------------------------------------------------------------
(***************************************************************************)
(* The rows of a function.  What a call still has to step is of one of a   *)
(* few forms, so what a statement does to the rows is what was owed.       *)
(***************************************************************************)
RowTypes ==
  /\ xrefs \in [Ids -> [Ids -> Nat]]
  /\ errlog \in [Ids -> Nat]
  /\ body \in [Ids -> Counts \cup {Unknown}]

Single(s) == \E c \in Statements : s = <<c>>
Clears(s) == \E i \in Ids : s = <<DelXrefs(i), DelErrs(i)>>
Refers(s) == \E i, j \in Ids, n \in Names : s = <<InsertSym(j, n, FALSE), InsertXref(i, j)>>
Shape(s)  == s = <<>> \/ Single(s) \/ Clears(s) \/ Refers(s)

RowsOK == RowTypes /\ \A p \in Procs : Shape(todo[p])

LEMMA InitRowsOK == Init => RowsOK
<1> SUFFICES ASSUME Init PROVE RowsOK
  OBVIOUS
<1>1. NoRows \in Counts
  BY DEF NoRows, Counts
<1>2. RowTypes
  BY <1>1 DEF Init, RowTypes
<1>3. \A p \in Procs : todo[p] = <<>>
  BY DEF Init
<1> QED BY <1>2, <1>3 DEF RowsOK, Shape

LEMMA CountsFact ==
  ASSUME TInv, RowTypes, NEW id \in Ids
  PROVE  /\ Begun(id) => body' \in [Ids -> Counts \cup {Unknown}]
         /\ \A w \in Kinds :
              (body' = IF body[id] = Unknown THEN body ELSE [body EXCEPT ![id][w] = @ + 1])
                => body' \in [Ids -> Counts \cup {Unknown}]
<1>1. NoRows \in Counts
  BY DEF NoRows, Counts
<1>2. ASSUME NEW w \in Kinds, body[id] # Unknown
      PROVE  [body[id] EXCEPT ![w] = @ + 1] \in Counts
  BY <1>2 DEF RowTypes, Counts
<1>3. Begun(id) => body' \in [Ids -> Counts \cup {Unknown}]
  BY <1>1 DEF RowTypes, Begun
<1>4. ASSUME NEW w \in Kinds,
             body' = IF body[id] = Unknown THEN body ELSE [body EXCEPT ![id][w] = @ + 1]
      PROVE  body' \in [Ids -> Counts \cup {Unknown}]
  BY <1>2, <1>4 DEF RowTypes
<1> QED BY <1>3, <1>4

LEMMA ExecuteCounts ==
  ASSUME RowTypes, NEW c \in Statements, Execute(c)
  PROVE  xrefs' \in [Ids -> [Ids -> Nat]] /\ errlog' \in [Ids -> Nat]
<1>1. xrefs' \in [Ids -> [Ids -> Nat]]
  <2>1. CASE c.op = "insert_xref"
    <3>1. c.id \in Ids /\ c.what \in Ids
      BY <2>1 DEF Statements
    <3>2. xrefs' = [xrefs EXCEPT ![c.id][c.what] = @ + 1]
      BY <2>1 DEF Execute
    <3> QED BY <3>1, <3>2 DEF RowTypes
  <2>2. CASE c.op = "del_xrefs"
    <3>1. c.id \in Ids
      BY <2>2 DEF Statements
    <3>2. xrefs' = [xrefs EXCEPT ![c.id] = [w \in Ids |-> 0]]
      BY <2>2 DEF Execute
    <3> QED BY <3>1, <3>2 DEF RowTypes
  <2>3. CASE c.op \notin {"insert_xref", "del_xrefs"}
    BY <2>3 DEF Execute, RowTypes
  <2> QED BY <2>1, <2>2, <2>3
<1>2. errlog' \in [Ids -> Nat]
  <2>1. CASE c.op = "insert_err"
    <3>1. c.id \in Ids /\ errlog' = [errlog EXCEPT ![c.id] = @ + 1]
      BY <2>1 DEF Statements, Execute
    <3> QED BY <3>1 DEF RowTypes
  <2>2. CASE c.op = "del_errs"
    <3>1. c.id \in Ids /\ errlog' = [errlog EXCEPT ![c.id] = 0]
      BY <2>2 DEF Statements, Execute
    <3> QED BY <3>1 DEF RowTypes
  <2>3. CASE c.op \notin {"insert_err", "del_errs"}
    BY <2>3 DEF Execute, RowTypes
  <2> QED BY <2>1, <2>2, <2>3
<1> QED BY <1>1, <1>2

\* What is left behind the first statement of a call is one statement, or none.
LEMMA ShapeTail ==
  ASSUME NEW s, Shape(s), s # <<>>
  PROVE  Shape(Tail(s)) /\ (Tail(s) = <<>> \/ Single(Tail(s)))
<1>1. CASE Single(s)
  BY <1>1 DEF Single, Shape
<1>2. CASE Clears(s)
  <2>1. PICK i \in Ids : s = <<DelXrefs(i), DelErrs(i)>>
    BY <1>2 DEF Clears
  <2>2. Tail(s) = <<DelErrs(i)>> /\ DelErrs(i) \in Statements
    BY <2>1, StatementTypes
  <2> QED BY <2>2 DEF Single, Shape
<1>3. CASE Refers(s)
  <2>1. PICK i, j \in Ids, n \in Names : s = <<InsertSym(j, n, FALSE), InsertXref(i, j)>>
    BY <1>3 DEF Refers
  <2>2. Tail(s) = <<InsertXref(i, j)>> /\ InsertXref(i, j) \in Statements
    BY <2>1, StatementTypes
  <2> QED BY <2>2 DEF Single, Shape
<1> QED BY <1>1, <1>2, <1>3 DEF Shape

LEMMA ShapesRule ==
  ASSUME RowsOK, RowTypes', NEW p \in Procs, Shape(todo'[p]),
         \A q \in Procs : q # p => todo'[q] = todo[q]
  PROVE  RowsOK'
<1>1. ASSUME NEW q \in Procs PROVE Shape(todo'[q])
  BY DEF RowsOK
<1> QED BY <1>1 DEF RowsOK, Shape, Single, Clears, Refers

LEMMA StepRowsOK == TInv /\ RowsOK /\ [Next]_vars => RowsOK'
<1> SUFFICES ASSUME TInv, RowsOK, [Next]_vars PROVE RowsOK'
  OBVIOUS
<1>1. RowTypes
  BY DEF RowsOK
<1>2. ASSUME NEW p \in Procs, Open(p) PROVE RowsOK'
  BY <1>1, <1>2 DEF Open, callVars, dbVars, RowsOK, RowTypes
<1>3. ASSUME NEW p \in Procs, Exit(p) PROVE RowsOK'
  <2>1. RowTypes'
    BY <1>1, <1>3 DEF Exit, dbVars, RowTypes
  <2>2. todo'[p] = <<>> /\ \A q \in Procs : q # p => todo'[q] = todo[q]
    BY <1>3 DEF Exit, TInv, SqlTypes
  <2> QED BY <2>1, <2>2, ShapesRule DEF Shape
<1>4. ASSUME NEW p \in Procs, NEW fn \in CStrings, StartUnseen(p, fn) PROVE RowsOK'
  BY <1>1, <1>4 DEF StartUnseen, cacheVars, dbVars, RowsOK, RowTypes
<1>5. ASSUME NEW p \in Procs, NEW fn \in CStrings, StartReferenced(p, fn) PROVE RowsOK'
  <2> DEFINE id == m_cache[p][fn]
  <2>1. id \in Ids
    BY <1>5 DEF StartReferenced, CStrings, TInv, SqlTypes
  <2>2. RowTypes'
    BY <1>1, <1>5, <2>1, CountsFact DEF StartReferenced, dbVars, RowTypes
  <2>3. todo'[p] = <<UpdateFname(id)>> /\ \A q \in Procs : q # p => todo'[q] = todo[q]
    BY <1>5 DEF StartReferenced, TInv, SqlTypes
  <2>4. Shape(todo'[p])
    BY <2>1, <2>3, StatementTypes DEF Shape, Single
  <2> QED BY <2>2, <2>3, <2>4, ShapesRule
<1>6. ASSUME NEW p \in Procs, NEW fn \in CStrings, StartProcessed(p, fn) PROVE RowsOK'
  <2> DEFINE id == m_cache[p][fn]
  <2>1. id \in Ids
    BY <1>6 DEF StartProcessed, TInv, SqlTypes
  <2>2. RowTypes'
    BY <1>1, <1>6, <2>1, CountsFact DEF StartProcessed, dbVars, RowTypes
  <2>3. todo'[p] = <<DelXrefs(id), DelErrs(id)>> /\ \A q \in Procs : q # p => todo'[q] = todo[q]
    BY <1>6 DEF StartProcessed, TInv, SqlTypes
  <2>4. Shape(todo'[p])
    BY <2>1, <2>3 DEF Shape, Clears
  <2> QED BY <2>2, <2>3, <2>4, ShapesRule
<1>7. ASSUME NEW p \in Procs, NEW what, Record(p, what) \/ FuncStop(p) PROVE RowsOK'
  BY <1>1, <1>7 DEF Record, FuncStop, cacheVars, dbVars, historyVars, RowsOK, RowTypes
<1>8. ASSUME NEW p \in Procs, AddFunc(p) PROVE RowsOK'
  <2>1. m_func[p] \in Names /\ max_id[p] + 1 \in Ids
    BY <1>8, AllocateStep DEF AddFunc, Mid, TInv, SqlTypes, PlacesOK, CStrings
  <2>2. PICK id \in Ids : id = max_id[p] + 1
    BY <2>1
  <2>3. RowTypes'
    BY <1>1, <1>8, <2>2, CountsFact DEF AddFunc, dbVars, RowTypes
  <2>4. /\ todo'[p] = <<InsertSym(id, m_func[p], TRUE)>>
        /\ \A q \in Procs : q # p => todo'[q] = todo[q]
    BY <1>8, <2>2 DEF AddFunc, TInv, SqlTypes
  <2>5. Shape(todo'[p])
    BY <2>1, <2>2, <2>4, StatementTypes DEF Shape, Single
  <2> QED BY <2>3, <2>4, <2>5, ShapesRule
<1>9. ASSUME NEW p \in Procs, RefKnown(p) PROVE RowsOK'
  <2> DEFINE id == m_cache[p][arg[p]]
  <2>1. id \in Ids /\ m_func_id[p] \in Ids
    BY <1>9 DEF RefKnown, TInv, SqlTypes
  <2>2. RowTypes'
    <3>1. body' \in [Ids -> Counts \cup {Unknown}]
      BY <1>1, <1>9, <2>1, CountsFact DEF RefKnown, Recorded, Kinds
    <3> QED BY <1>1, <1>9, <3>1 DEF RefKnown, dbVars, RowTypes
  <2>3. /\ todo'[p] = <<InsertXref(m_func_id[p], id)>>
        /\ \A q \in Procs : q # p => todo'[q] = todo[q]
    BY <1>9 DEF RefKnown, TInv, SqlTypes
  <2>4. Shape(todo'[p])
    BY <2>1, <2>3, StatementTypes DEF Shape, Single
  <2> QED BY <2>2, <2>3, <2>4, ShapesRule
<1>10. ASSUME NEW p \in Procs, RefNew(p) PROVE RowsOK'
  <2>1. m_func_id[p] \in Ids /\ arg[p] \in Names
    BY <1>10 DEF RefNew, TInv, SqlTypes
  <2>2. PICK id \in Ids : id = max_id[p] + 1
    BY <1>10, <2>1, AllocateStep DEF RefNew
  <2>3. RowTypes'
    <3>1. body' \in [Ids -> Counts \cup {Unknown}]
      BY <1>1, <1>10, <2>1, <2>2, CountsFact DEF RefNew, Recorded, Kinds
    <3> QED BY <1>1, <1>10, <3>1 DEF RefNew, dbVars, RowTypes
  <2>4. /\ todo'[p] = <<InsertSym(id, arg[p], FALSE), InsertXref(m_func_id[p], id)>>
        /\ \A q \in Procs : q # p => todo'[q] = todo[q]
    BY <1>10, <2>2 DEF RefNew, TInv, SqlTypes
  <2>5. Shape(todo'[p])
    BY <2>1, <2>2, <2>4 DEF Shape, Refers
  <2> QED BY <2>3, <2>4, <2>5, ShapesRule
<1>11. ASSUME NEW p \in Procs, AddError(p) PROVE RowsOK'
  <2>1. m_func_id[p] \in Ids
    BY <1>11 DEF AddError, TInv, SqlTypes
  <2>2. RowTypes'
    <3>1. body' \in [Ids -> Counts \cup {Unknown}]
      BY <1>1, <1>11, <2>1, CountsFact DEF AddError, Recorded, Kinds
    <3> QED BY <1>1, <1>11, <3>1 DEF AddError, dbVars, RowTypes
  <2>3. /\ todo'[p] = <<InsertErr(m_func_id[p])>>
        /\ \A q \in Procs : q # p => todo'[q] = todo[q]
    BY <1>11 DEF AddError, TInv, SqlTypes
  <2>4. Shape(todo'[p])
    BY <2>1, <2>3, StatementTypes DEF Shape, Single
  <2> QED BY <2>2, <2>3, <2>4, ShapesRule
<1>12. ASSUME NEW p \in Procs, Statement(p) \/ Refused(p) PROVE RowsOK'
  <2>1. todo[p] # <<>> /\ todo[p] \in Seq(Statements)
    BY <1>12 DEF Statement, Refused, TInv, SqlTypes
  <2>2. Head(todo[p]) \in Statements
    BY <2>1
  <2>3. RowTypes'
    BY <1>1, <1>12, <2>2, ExecuteCounts DEF Statement, Refused, dbVars, RowTypes
  <2>4. todo'[p] = Tail(todo[p]) /\ \A q \in Procs : q # p => todo'[q] = todo[q]
    BY <1>12 DEF Statement, Refused, Stepped, TInv, SqlTypes
  <2>5. Shape(todo'[p])
    BY <2>1, <2>4, ShapeTail DEF RowsOK
  <2> QED BY <2>3, <2>4, <2>5, ShapesRule
<1>13. CASE UNCHANGED vars
  BY <1>1, <1>13 DEF vars, dbVars, historyVars, RowsOK, RowTypes
<1> QED
  BY <1>2, <1>3, <1>4, <1>5, <1>6, <1>7, <1>8, <1>9, <1>10, <1>11, <1>12, <1>13 DEF Next

-----------------------------------------------------------------------------
(***************************************************************************)
(* One compiler after the other: what was recorded for a function is in    *)
(* the tables, but for what its process still has to step.  A function     *)
(* that is begun for the first time has no rows, because only functions    *)
(* with a file name have any, and the process knows those.                 *)
(***************************************************************************)
Owes(s, c) == \E k \in DOMAIN s : s[k] = c

BalanceIn(s) ==
  \A i \in Ids : body[i] # Unknown =>
    /\ body[i][None] = IF Owes(s, DelErrs(i)) THEN 0
                       ELSE IF Owes(s, InsertErr(i)) THEN errlog[i] + 1 ELSE errlog[i]
    /\ \A w \in Ids :
         body[i][w] = IF Owes(s, DelXrefs(i)) THEN 0
                      ELSE IF Owes(s, InsertXref(i, w)) THEN xrefs[i][w] + 1 ELSE xrefs[i][w]

Alone ==
  /\ \A p, q \in Procs : live[p] /\ live[q] => p = q
  /\ \A p \in Procs : ~disturbed[p]

RowsNamed ==
  \A i \in Ids : symtab[i].fname \/ (errlog[i] = 0 /\ \A w \in Ids : xrefs[i][w] = 0)

\* What a statement may be about, while its process runs.
About(p, c) ==
  /\ c.op \in {"insert_xref", "insert_err"} => c.id = m_func_id[p]
  /\ c.op = "update_fname" => c.id \in m_funcs[p] /\ symtab[c.id] # NoRow
  /\ c.op = "insert_sym" => symtab[c.id] = NoRow /\ (c.fname => c.id \in m_funcs[p])

Begins(p) ==
  /\ m_func_id[p] # None => m_func_id[p] \in m_funcs[p]
  /\ \A i \in Ids : symtab[i].fname => i \in m_funcs[p]
  /\ \A i \in m_funcs[p] : \/ symtab[i].fname
                            \/ todo[p] = <<UpdateFname(i)>>
                            \/ \E n \in Names : todo[p] = <<InsertSym(i, n, TRUE)>>
  /\ \A k \in DOMAIN todo[p] : About(p, todo[p][k])

RowsInv ==
  ~parallel =>
    /\ Alone /\ RowsNamed
    /\ \A p \in Procs : live[p] => Begins(p) /\ BalanceIn(todo[p])
    /\ (\A p \in Procs : ~live[p]) => BalanceIn(<<>>)

LEMMA InitRowsInv == Init => RowsInv
<1> SUFFICES ASSUME Init PROVE RowsInv
  OBVIOUS
<1>1. Alone /\ RowsNamed /\ \A p \in Procs : ~live[p]
  BY DEF Init, Alone, RowsNamed
<1>2. BalanceIn(<<>>)
  BY DEF Init, BalanceIn, Owes, NoRows, Kinds
<1> QED BY <1>1, <1>2 DEF RowsInv

LEMMA OwesForms ==
  ASSUME NEW c, NEW d, NEW e
  PROVE  /\ ~Owes(<<>>, e)
         /\ Owes(<<c>>, e) <=> e = c
         /\ Owes(<<c, d>>, e) <=> e = c \/ e = d
<1>1. DOMAIN <<c, d>> = {1, 2} /\ <<c, d>>[1] = c /\ <<c, d>>[2] = d
  OBVIOUS
<1>2. DOMAIN <<c>> = {1} /\ <<c>>[1] = c
  OBVIOUS
<1>3. DOMAIN << >> = {}
  OBVIOUS
<1> QED BY <1>1, <1>2, <1>3 DEF Owes

\* A name's row, its file name, and the rows of another are owed to no function.
LEMMA NothingOwed ==
  ASSUME NEW s, NEW i, NEW w,
         \A k \in DOMAIN s : s[k].op \in {"update_fname", "insert_sym"} \/ s[k].id # i
  PROVE  /\ ~Owes(s, DelErrs(i)) /\ ~Owes(s, InsertErr(i))
         /\ ~Owes(s, DelXrefs(i)) /\ ~Owes(s, InsertXref(i, w))
  BY DEF Owes, DelErrs, DelXrefs, InsertErr, InsertXref

LEMMA Fields ==
  ASSUME NEW i, NEW w, NEW n, NEW f
  PROVE  /\ InsertXref(i, w).op = "insert_xref" /\ InsertXref(i, w).id = i
         /\ InsertSym(i, n, f).op = "insert_sym" /\ InsertSym(i, n, f).id = i
         /\ InsertSym(i, n, f).fname = f
         /\ UpdateFname(i).op = "update_fname" /\ UpdateFname(i).id = i
         /\ InsertErr(i).op = "insert_err" /\ InsertErr(i).id = i
         /\ DelXrefs(i).op = "del_xrefs" /\ DelXrefs(i).id = i
         /\ DelErrs(i).op = "del_errs" /\ DelErrs(i).id = i
  BY DEF DelErrs, DelXrefs, InsertErr, InsertXref, UpdateFname, InsertSym

LEMMA OneOrTwo ==
  ASSUME NEW c, NEW d, NEW s
  PROVE  /\ s = <<d>> => Owes(s, d) /\ \A k \in DOMAIN s : s[k] = d
         /\ s = <<c, d>> => Owes(s, d) /\ \A k \in DOMAIN s : s[k] = c \/ s[k] = d
<1>1. ASSUME s = <<d>> PROVE Owes(s, d) /\ \A k \in DOMAIN s : s[k] = d
  <2>1. DOMAIN s = {1} /\ s[1] = d
    BY <1>1
  <2> QED BY <2>1 DEF Owes
<1>2. ASSUME s = <<c, d>> PROVE Owes(s, d) /\ \A k \in DOMAIN s : s[k] = c \/ s[k] = d
  <2>1. DOMAIN s = {1, 2} /\ s[1] = c /\ s[2] = d
    BY <1>2
  <2> QED BY <2>1 DEF Owes
<1> QED BY <1>1, <1>2

LEMMA Distinct ==
  ASSUME NEW i, NEW j, NEW v, NEW w, NEW n, NEW f
  PROVE  /\ DelErrs(i) = DelErrs(j) <=> i = j
         /\ DelXrefs(i) = DelXrefs(j) <=> i = j
         /\ InsertErr(i) = InsertErr(j) <=> i = j
         /\ InsertXref(i, v) = InsertXref(j, w) <=> i = j /\ v = w
         /\ DelErrs(i) \notin {DelXrefs(j), InsertErr(j), InsertXref(j, w), UpdateFname(j),
                               InsertSym(j, n, f)}
         /\ DelXrefs(i) \notin {InsertErr(j), InsertXref(j, w), UpdateFname(j), InsertSym(j, n, f)}
         /\ InsertErr(i) \notin {InsertXref(j, w), UpdateFname(j), InsertSym(j, n, f)}
         /\ InsertXref(i, v) \notin {UpdateFname(j), InsertSym(j, n, f)}
<1>1. /\ DelErrs(i).op = "del_errs" /\ DelErrs(i).id = i
      /\ DelErrs(j).id = j /\ DelXrefs(i).id = i /\ InsertErr(i).id = i
      /\ DelXrefs(i).op = "del_xrefs" /\ DelXrefs(j).op = "del_xrefs" /\ DelXrefs(j).id = j
      /\ InsertErr(i).op = "insert_err" /\ InsertErr(j).op = "insert_err" /\ InsertErr(j).id = j
      /\ InsertXref(i, v).op = "insert_xref" /\ InsertXref(j, w).op = "insert_xref"
      /\ InsertXref(i, v).id = i /\ InsertXref(i, v).what = v
      /\ InsertXref(j, w).id = j /\ InsertXref(j, w).what = w
      /\ UpdateFname(j).op = "update_fname" /\ InsertSym(j, n, f).op = "insert_sym"
  BY DEF DelErrs, DelXrefs, InsertErr, InsertXref, UpdateFname, InsertSym
<1> QED BY <1>1

\* A step of the one process that runs.
LEMMA RowsRule ==
  ASSUME RowsInv, ~parallel, NEW p \in Procs, live[p], UNCHANGED <<parallel, live>>,
         \A q \in Procs : ~disturbed'[q],
         RowsNamed', Begins(p)', BalanceIn(todo[p])'
  PROVE  RowsInv'
<1>1. \A q \in Procs : live[q] => q = p
  BY DEF RowsInv, Alone
<1>2. Alone'
  BY <1>1 DEF Alone
<1> QED BY <1>1, <1>2 DEF RowsInv

LEMMA OpenRows ==
  ASSUME TInv, RowsInv, ~parallel, NEW p \in Procs, Open(p) PROVE RowsInv'
<1>1. /\ \A q \in Procs : ~live[q] /\ todo[q] = <<>>
      /\ UNCHANGED <<parallel, symtab, xrefs, errlog, todo, m_func_id, body>>
  BY DEF Open, callVars, dbVars, TInv, PlacesOK
<1>2. ~Locked(p)
  BY <1>1 DEF Locked
<1>3. m_funcs' = [m_funcs EXCEPT ![p] = ReadFuncs] /\ disturbed' = [disturbed EXCEPT ![p] = FALSE]
  BY <1>2 DEF Open
<1>4. Alone'
  BY <1>1, <1>3 DEF Open, TInv, SqlTypes, RowsInv, Alone
<1>5. RowsNamed'
  BY <1>1 DEF RowsInv, RowsNamed
<1>6. Begins(p)'
  <2>1. m_func_id'[p] = None /\ m_funcs'[p] = ReadFuncs /\ todo'[p] = <<>>
    BY <1>1, <1>3 DEF TInv, PlacesOK, SqlTypes
  <2>2. \A i \in Ids : i \in ReadFuncs <=> symtab[i].fname
    BY DEF ReadFuncs, Stored, NoRow
  <2>3. ReadFuncs \subseteq Ids
    BY DEF ReadFuncs, Stored
  <2> QED BY <1>1, <2>1, <2>2, <2>3 DEF Begins
<1>7. BalanceIn(todo[p])'
  BY <1>1 DEF RowsInv, BalanceIn
<1>8. \A q \in Procs : (live'[q] => q = p) /\ live'[p]
  BY <1>1 DEF Open, TInv, SqlTypes
<1> QED BY <1>1, <1>4, <1>5, <1>6, <1>7, <1>8 DEF RowsInv

\* What was killed half way is not known of any more.
LEMMA ExitRows ==
  ASSUME TInv, RowsInv, ~parallel, NEW p \in Procs, Exit(p) PROVE RowsInv'
<1>1. /\ \A q \in Procs : ~live'[q] /\ ~disturbed'[q]
      /\ UNCHANGED <<parallel, symtab, xrefs, errlog>>
      /\ live[p] /\ BalanceIn(todo[p])
  BY DEF Exit, dbVars, RowsInv, Alone, TInv, SqlTypes
<1>2. ASSUME NEW i \in Ids, body'[i] # Unknown
      PROVE  /\ body'[i] = body[i]
             /\ ~Owes(todo[p], DelErrs(i)) /\ ~Owes(todo[p], InsertErr(i))
             /\ ~Owes(todo[p], DelXrefs(i))
             /\ \A w \in Ids : ~Owes(todo[p], InsertXref(i, w))
  <2>1. body'[i] = IF \E k \in DOMAIN todo[p] : todo[p][k].id = i THEN Unknown ELSE body[i]
    BY DEF Exit
  <2>2. \A k \in DOMAIN todo[p] : todo[p][k].id # i
    BY <1>2, <2>1
  <2> QED
    BY <2>1, <2>2 DEF Owes, DelErrs, DelXrefs, InsertErr, InsertXref
<1>3. BalanceIn(<<>>)'
  <2>1. ASSUME NEW i \in Ids, body'[i] # Unknown
        PROVE  body'[i][None] = errlog[i] /\ \A w \in Ids : body'[i][w] = xrefs[i][w]
    BY <1>1, <1>2, <2>1 DEF BalanceIn
  <2> QED BY <1>1, <2>1, OwesForms DEF BalanceIn
<1>4. RowsNamed' /\ Alone'
  BY <1>1 DEF RowsInv, RowsNamed, Alone
<1> QED BY <1>1, <1>3, <1>4 DEF RowsInv

\* A call begins with nothing to do: the tables have what was recorded.
LEMMA IdleRows ==
  ASSUME TInv, RowsInv, ~parallel, NEW p \in Procs, live[p], todo[p] = <<>>
  PROVE  /\ Alone /\ RowsNamed
         /\ m_func_id[p] # None => m_func_id[p] \in m_funcs[p]
         /\ \A i \in Ids : symtab[i].fname <=> i \in m_funcs[p]
         /\ \A i \in Ids : body[i] # Unknown =>
              body[i][None] = errlog[i] /\ \A w \in Ids : body[i][w] = xrefs[i][w]
<1>1. Begins(p) /\ BalanceIn(<<>>)
  BY DEF RowsInv
<1>2. \A i \in Ids : symtab[i].fname <=> i \in m_funcs[p]
  BY <1>1 DEF Begins
<1>3. \A i \in Ids : body[i] # Unknown =>
        body[i][None] = errlog[i] /\ \A w \in Ids : body[i][w] = xrefs[i][w]
  BY <1>1, OwesForms DEF BalanceIn
<1> QED BY <1>1, <1>2, <1>3 DEF RowsInv, Begins

LEMMA NewNoRows ==
  ASSUME RowTypes, NEW id \in Ids, Begun(id)
  PROVE  /\ body'[id][None] = 0 /\ \A w \in Ids : body'[id][w] = 0
         /\ \A i \in Ids : i # id => body'[i] = body[i]
<1>1. body' = [body EXCEPT ![id] = NoRows]
  BY DEF Begun
<1>2. body'[id] = NoRows /\ \A i \in Ids : i # id => body'[i] = body[i]
  BY <1>1 DEF RowTypes
<1>3. NoRows[None] = 0 /\ \A w \in Ids : NoRows[w] = 0
  BY DEF NoRows, Kinds
<1> QED BY <1>2, <1>3

LEMMA QuietCallRows ==
  ASSUME TInv, RowsInv, ~parallel, NEW p \in Procs, live[p],
         UNCHANGED <<parallel, live, disturbed, symtab, xrefs, errlog, todo, m_funcs, body>>,
         todo[p] = <<>>, m_func_id'[p] \in {m_func_id[p], None}
  PROVE  RowsInv'
<1>1. RowsNamed' /\ BalanceIn(todo[p])'
  BY DEF RowsInv, RowsNamed, BalanceIn
<1>2. Begins(p)'
  <2>1. Begins(p) /\ \A k \in DOMAIN todo'[p] : FALSE
    BY DEF RowsInv
  <2> QED BY <2>1 DEF Begins
<1>3. \A q \in Procs : ~disturbed'[q]
  BY DEF RowsInv, Alone
<1> QED BY <1>1, <1>2, <1>3, RowsRule

LEMMA StartReferencedRows ==
  ASSUME TInv, CacheInv, RowTypes, RowsInv, ~parallel, NEW p \in Procs, NEW fn \in CStrings,
         StartReferenced(p, fn)
  PROVE  RowsInv'
<1>1. /\ live[p] /\ todo[p] = <<>>
      /\ UNCHANGED <<parallel, live, disturbed, symtab, xrefs, errlog>>
  BY DEF StartReferenced, Idle, dbVars
<1>2. PICK id \in Ids : /\ id = m_cache[p][fn] /\ id \notin m_funcs[p] /\ Begun(id)
                        /\ m_func_id'[p] = id /\ m_funcs'[p] = m_funcs[p] \cup {id}
                        /\ todo'[p] = <<UpdateFname(id)>>
  <2> DEFINE i == m_cache[p][fn]
  <2>1. i \in Ids /\ i \notin m_funcs[p] /\ Begun(i)
    BY DEF StartReferenced, CStrings, TInv, SqlTypes
  <2>2. m_func_id'[p] = i /\ m_funcs'[p] = m_funcs[p] \cup {i} /\ todo'[p] = <<UpdateFname(i)>>
    BY DEF StartReferenced, TInv, SqlTypes
  <2> QED BY <2>1, <2>2
<1>3. /\ Alone /\ RowsNamed
      /\ \A i \in Ids : symtab[i].fname <=> i \in m_funcs[p]
      /\ \A i \in Ids : body[i] # Unknown =>
           body[i][None] = errlog[i] /\ \A w \in Ids : body[i][w] = xrefs[i][w]
  BY <1>1, IdleRows
<1>4. symtab[id] # NoRow
  <2>1. Bound(p, id, fn)
    BY <1>1, <1>2, <1>3, IdsFact DEF CacheInv, Own, Alone, CStrings, None
  <2> QED BY <1>1, <2>1 DEF Bound
<1>5. errlog[id] = 0 /\ \A w \in Ids : xrefs[id][w] = 0
  BY <1>2, <1>3 DEF RowsNamed
<1>6. BalanceIn(todo[p])'
  <2>1. \A i, w \in Ids : /\ ~Owes(todo'[p], DelErrs(i)) /\ ~Owes(todo'[p], InsertErr(i))
                          /\ ~Owes(todo'[p], DelXrefs(i)) /\ ~Owes(todo'[p], InsertXref(i, w))
    <3>1. \A k \in DOMAIN todo'[p] : todo'[p][k].op \in {"update_fname", "insert_sym"}
      BY <1>2, Fields
    <3> QED BY <3>1, NothingOwed
  <2>2. \A i \in Ids : body'[i] # Unknown =>
          body'[i][None] = errlog[i] /\ \A w \in Ids : body'[i][w] = xrefs[i][w]
    BY <1>2, <1>3, <1>5, NewNoRows
  <2> QED BY <1>1, <2>1, <2>2 DEF BalanceIn
<1>7. Begins(p)'
  <2>1. \A k \in DOMAIN todo'[p] : todo'[p][k] = UpdateFname(id)
    BY <1>2
  <2>2. UpdateFname(id).op = "update_fname" /\ UpdateFname(id).id = id
    BY DEF UpdateFname
  <2>3. m_funcs[p] \subseteq Ids
    BY DEF TInv, SqlTypes
  <2>4. ASSUME NEW c, c = UpdateFname(id) PROVE About(p, c)'
    BY <1>1, <1>2, <1>4, <2>2, <2>4 DEF About
  <2> QED BY <1>1, <1>2, <1>3, <2>1, <2>3, <2>4 DEF Begins
<1> QED BY <1>1, <1>3, <1>6, <1>7, RowsRule DEF Alone, RowsNamed

LEMMA StartProcessedRows ==
  ASSUME TInv, RowTypes, RowsInv, ~parallel, NEW p \in Procs, NEW fn \in CStrings,
         StartProcessed(p, fn)
  PROVE  RowsInv'
<1>1. /\ live[p] /\ todo[p] = <<>>
      /\ UNCHANGED <<parallel, live, disturbed, symtab, xrefs, errlog, m_funcs>>
  BY DEF StartProcessed, Idle, cacheVars, dbVars
<1>2. PICK id \in Ids : /\ id \in m_funcs[p] /\ Begun(id) /\ m_func_id'[p] = id
                        /\ todo'[p] = <<DelXrefs(id), DelErrs(id)>>
  <2> DEFINE i == m_cache[p][fn]
  <2>1. i \in Ids /\ i \in m_funcs[p] /\ Begun(i)
    BY DEF StartProcessed, TInv, SqlTypes
  <2>2. m_func_id'[p] = i /\ todo'[p] = <<DelXrefs(i), DelErrs(i)>>
    BY DEF StartProcessed, TInv, SqlTypes
  <2> QED BY <2>1, <2>2
<1>3. /\ Alone /\ RowsNamed
      /\ \A i \in Ids : symtab[i].fname <=> i \in m_funcs[p]
      /\ \A i \in Ids : body[i] # Unknown =>
           body[i][None] = errlog[i] /\ \A w \in Ids : body[i][w] = xrefs[i][w]
  BY <1>1, IdleRows
<1>4. DOMAIN todo'[p] = {1, 2} /\ todo'[p][1] = DelXrefs(id) /\ todo'[p][2] = DelErrs(id)
  BY <1>2
<1>5. BalanceIn(todo[p])'
  <2>1. Owes(todo'[p], DelErrs(id)) /\ Owes(todo'[p], DelXrefs(id))
    BY <1>4 DEF Owes
  <2>2. ASSUME NEW i \in Ids, NEW w \in Ids, i # id
        PROVE  /\ ~Owes(todo'[p], DelErrs(i)) /\ ~Owes(todo'[p], InsertErr(i))
               /\ ~Owes(todo'[p], DelXrefs(i)) /\ ~Owes(todo'[p], InsertXref(i, w))
    <3>1. \A k \in DOMAIN todo'[p] : todo'[p][k].id # i
      BY <1>4, <2>2, Fields
    <3> QED BY <3>1, NothingOwed
  <2>3. /\ body'[id][None] = 0 /\ \A w \in Ids : body'[id][w] = 0
        /\ \A i \in Ids : i # id => body'[i] = body[i]
    BY <1>2, NewNoRows
  <2> QED BY <1>1, <1>3, <2>1, <2>2, <2>3 DEF BalanceIn
<1>6. Begins(p)'
  <2>1. ASSUME NEW c, c \in {DelXrefs(id), DelErrs(id)} PROVE About(p, c)'
    BY <2>1, Fields DEF About
  <2>2. m_funcs[p] \subseteq Ids
    BY DEF TInv, SqlTypes
  <2> QED BY <1>1, <1>2, <1>3, <1>4, <2>1, <2>2 DEF Begins
<1> QED BY <1>1, <1>3, <1>5, <1>6, RowsRule DEF Alone, RowsNamed

LEMMA AddFuncRows ==
  ASSUME TInv, CacheInv, RowTypes, RowsInv, ~parallel, NEW p \in Procs, AddFunc(p)
  PROVE  RowsInv'
<1>1. /\ live[p] /\ todo[p] = <<>> /\ m_func[p] \in Names
      /\ UNCHANGED <<parallel, live, disturbed, symtab, xrefs, errlog>>
  BY DEF AddFunc, Mid, dbVars, TInv, SqlTypes, PlacesOK, CStrings
<1>2. PICK id \in Ids : /\ id = max_id[p] + 1 /\ Begun(id)
                        /\ m_func_id'[p] = id /\ m_funcs'[p] = m_funcs[p] \cup {id}
                        /\ todo'[p] = <<InsertSym(id, m_func[p], TRUE)>>
  <2>1. max_id[p] + 1 \in Ids
    BY <1>1, AllocateStep DEF AddFunc
  <2>2. PICK i \in Ids : i = max_id[p] + 1
    BY <2>1
  <2>3. Begun(i) /\ m_func_id'[p] = i /\ m_funcs'[p] = m_funcs[p] \cup {i}
    BY <2>2 DEF AddFunc, TInv, SqlTypes
  <2>4. todo'[p] = <<InsertSym(i, m_func[p], TRUE)>>
    BY <2>2 DEF AddFunc, TInv, SqlTypes
  <2> QED BY <2>2, <2>3, <2>4
<1>3. /\ Alone /\ RowsNamed
      /\ \A i \in Ids : symtab[i].fname <=> i \in m_funcs[p]
      /\ \A i \in Ids : body[i] # Unknown =>
           body[i][None] = errlog[i] /\ \A w \in Ids : body[i][w] = xrefs[i][w]
  BY <1>1, IdleRows
<1>4. symtab[id] = NoRow
  <2>1. ASSUME id \in Stored PROVE FALSE
    <3>1. id <= max_id[p] /\ max_id[p] \in 0 .. MaxId
      BY <1>1, <1>3, <2>1 DEF CacheInv, Own, Alone, TInv, SqlTypes
    <3> QED BY <1>2, <3>1, IdsFact
  <2> QED BY <2>1 DEF Stored
<1>5. errlog[id] = 0 /\ \A w \in Ids : xrefs[id][w] = 0
  BY <1>3, <1>4 DEF RowsNamed, NoRow
<1>6. BalanceIn(todo[p])'
  <2>1. \A i, w \in Ids : /\ ~Owes(todo'[p], DelErrs(i)) /\ ~Owes(todo'[p], InsertErr(i))
                          /\ ~Owes(todo'[p], DelXrefs(i)) /\ ~Owes(todo'[p], InsertXref(i, w))
    <3>1. \A k \in DOMAIN todo'[p] : todo'[p][k].op \in {"update_fname", "insert_sym"}
      <4>1. \A k \in DOMAIN todo'[p] : todo'[p][k] = InsertSym(id, m_func[p], TRUE)
        BY <1>2, OneOrTwo
      <4>2. InsertSym(id, m_func[p], TRUE).op = "insert_sym"
        BY DEF InsertSym
      <4> QED BY <4>1, <4>2
    <3> QED BY <3>1, NothingOwed
  <2>2. \A i \in Ids : body'[i] # Unknown =>
          body'[i][None] = errlog[i] /\ \A w \in Ids : body'[i][w] = xrefs[i][w]
    BY <1>2, <1>3, <1>5, NewNoRows
  <2> QED BY <1>1, <2>1, <2>2 DEF BalanceIn
<1>7. Begins(p)'
  <2>1. \A k \in DOMAIN todo'[p] : todo'[p][k] = InsertSym(id, m_func[p], TRUE)
    BY <1>2, OneOrTwo
  <2>2. m_funcs[p] \subseteq Ids
    BY DEF TInv, SqlTypes
  <2>3. ASSUME NEW c, c = InsertSym(id, m_func[p], TRUE) PROVE About(p, c)'
    BY <1>1, <1>2, <1>4, <2>3, Fields DEF About
  <2> QED BY <1>1, <1>2, <1>3, <2>1, <2>2, <2>3 DEF Begins
<1> QED BY <1>1, <1>3, <1>6, <1>7, RowsRule DEF Alone, RowsNamed

\* One more row of a kind for a function: the count, if it is known, goes up.
LEMMA RecordedFact ==
  ASSUME RowTypes, NEW id \in Ids, NEW w \in Kinds,
         body' = IF body[id] = Unknown THEN body ELSE [body EXCEPT ![id][w] = @ + 1]
  PROVE  /\ \A i \in Ids : i # id => body'[i] = body[i]
         /\ body'[id] # Unknown =>
              /\ body[id] # Unknown /\ body'[id][w] = body[id][w] + 1
              /\ \A v \in Kinds : v # w => body'[id][v] = body[id][v]
<1>1. CASE body[id] = Unknown
  BY <1>1
<1>2. CASE body[id] # Unknown
  <2>1. body[id] \in Counts
    BY <1>2 DEF RowTypes
  <2>2. body' = [body EXCEPT ![id][w] = body[id][w] + 1]
    BY <1>2
  <2> QED BY <1>2, <2>1, <2>2 DEF RowTypes, Counts
<1> QED BY <1>1, <1>2

\* A call that records something for the function under way: the row is the
\* last statement of the call, behind that of a new name.
LEMMA RecordingRows ==
  ASSUME TInv, RowTypes, RowsInv, ~parallel, NEW p \in Procs, live[p], todo[p] = <<>>,
         UNCHANGED <<parallel, live, disturbed, symtab, xrefs, errlog, m_funcs, m_func_id>>,
         NEW f \in Ids, f = m_func_id[p], NEW w \in Kinds,
         body' = IF body[f] = Unknown THEN body ELSE [body EXCEPT ![f][w] = @ + 1],
         NEW last, last = IF w = None THEN InsertErr(f) ELSE InsertXref(f, w),
         \/ todo'[p] = <<last>>
         \/ \E j \in Ids, n \in Names : symtab[j] = NoRow /\ todo'[p] = <<InsertSym(j, n, FALSE), last>>
  PROVE  RowsInv'
<1>1. /\ Alone /\ RowsNamed /\ f \in m_funcs[p]
      /\ \A i \in Ids : symtab[i].fname <=> i \in m_funcs[p]
      /\ \A i \in Ids : body[i] # Unknown =>
           body[i][None] = errlog[i] /\ \A v \in Ids : body[i][v] = xrefs[i][v]
  BY IdleRows, IdsFact DEF None
<1>2. /\ Owes(todo'[p], last)
      /\ \A k \in DOMAIN todo'[p] :
           \/ todo'[p][k] = last
           \/ \E j \in Ids, n \in Names : symtab[j] = NoRow /\ todo'[p][k] = InsertSym(j, n, FALSE)
  <2>1. CASE todo'[p] = <<last>>
    <3>1. Owes(todo'[p], last) /\ \A k \in DOMAIN todo'[p] : todo'[p][k] = last
      BY <2>1, OneOrTwo
    <3> QED BY <3>1
  <2>2. CASE \E j \in Ids, n \in Names : symtab[j] = NoRow
                                           /\ todo'[p] = <<InsertSym(j, n, FALSE), last>>
    <3>1. PICK j \in Ids, n \in Names : symtab[j] = NoRow
                                          /\ todo'[p] = <<InsertSym(j, n, FALSE), last>>
      BY <2>2
    <3>2. PICK c : c = InsertSym(j, n, FALSE)
      OBVIOUS
    <3>3. todo'[p] = <<c, last>>
      BY <3>1, <3>2
    <3>4. Owes(todo'[p], last) /\ \A k \in DOMAIN todo'[p] : todo'[p][k] = c \/ todo'[p][k] = last
      BY <3>3, OneOrTwo
    <3> QED BY <3>1, <3>2, <3>4
  <2> QED BY <2>1, <2>2
<1>3. last.id = f /\ last.op \in {"insert_err", "insert_xref"}
  BY Fields
<1>4. ASSUME NEW c, Owes(todo'[p], c) PROVE c = last \/ c.op = "insert_sym"
  <2>1. PICK k \in DOMAIN todo'[p] : todo'[p][k] = c
    BY <1>4 DEF Owes
  <2>2. ASSUME NEW j \in Ids, NEW n \in Names, c = InsertSym(j, n, FALSE)
        PROVE  c.op = "insert_sym"
    BY <2>2 DEF InsertSym
  <2> QED BY <1>2, <2>1, <2>2
<1>5. BalanceIn(todo[p])'
  <2>1. ASSUME NEW i \in Ids, NEW v \in Ids, i # f
        PROVE  /\ ~Owes(todo'[p], DelErrs(i)) /\ ~Owes(todo'[p], InsertErr(i))
               /\ ~Owes(todo'[p], DelXrefs(i)) /\ ~Owes(todo'[p], InsertXref(i, v))
    BY <1>3, <1>4, <2>1 DEF DelErrs, DelXrefs, InsertErr, InsertXref
  <2>2. ~Owes(todo'[p], DelErrs(f)) /\ ~Owes(todo'[p], DelXrefs(f))
    BY <1>3, <1>4 DEF DelErrs, DelXrefs
  <2>3. Owes(todo'[p], InsertErr(f)) <=> w = None
    <3>1. CASE w = None
      BY <1>2, <3>1
    <3>2. CASE w # None
      <4>1. last.op = "insert_xref"
        BY <3>2, Fields
      <4> QED BY <1>4, <3>2, <4>1 DEF InsertErr
    <3> QED BY <3>1, <3>2
  <2>4. ASSUME NEW v \in Ids PROVE Owes(todo'[p], InsertXref(f, v)) <=> w = v
    <3>1. CASE w = v
      BY <1>2, <3>1, IdsFact DEF None
    <3>2. CASE w # v
      <4>1. last # InsertXref(f, v)
        BY <3>2, Distinct
      <4>2. InsertXref(f, v).op # "insert_sym"
        BY DEF InsertXref
      <4> QED BY <1>4, <3>2, <4>1, <4>2
    <3> QED BY <3>1, <3>2
  <2>5. /\ \A i \in Ids : i # f => body'[i] = body[i]
        /\ body'[f] # Unknown =>
              /\ body[f] # Unknown /\ body'[f][w] = body[f][w] + 1
              /\ \A v \in Kinds : v # w => body'[f][v] = body[f][v]
    BY RecordedFact
  <2>6. ASSUME NEW i \in Ids, body'[i] # Unknown
        PROVE  /\ body'[i][None] = IF Owes(todo'[p], DelErrs(i)) THEN 0
                       ELSE IF Owes(todo'[p], InsertErr(i)) THEN errlog[i] + 1 ELSE errlog[i]
               /\ \A v \in Ids :
                    body'[i][v] = IF Owes(todo'[p], DelXrefs(i)) THEN 0
                      ELSE IF Owes(todo'[p], InsertXref(i, v)) THEN xrefs[i][v] + 1 ELSE xrefs[i][v]
    <3>1. CASE i # f
      BY <1>1, <2>1, <2>5, <2>6, <3>1
    <3>2. CASE i = f
      <4>1. body'[f][None] = IF w = None THEN errlog[f] + 1 ELSE errlog[f]
        BY <1>1, <2>5, <2>6, <3>2 DEF Kinds
      <4>2. \A v \in Ids : body'[f][v] = IF w = v THEN xrefs[f][v] + 1 ELSE xrefs[f][v]
        BY <1>1, <2>5, <2>6, <3>2 DEF Kinds
      <4> QED BY <2>2, <2>3, <2>4, <3>2, <4>1, <4>2
    <3> QED BY <3>1, <3>2
  <2> QED BY <2>6 DEF BalanceIn
<1>6. Begins(p)'
  <2>1. m_funcs[p] \subseteq Ids
    BY DEF TInv, SqlTypes
  <2>2. About(p, last)'
    BY <1>3 DEF About
  <2>3. ASSUME NEW j \in Ids, NEW n \in Names, symtab[j] = NoRow
        PROVE  About(p, InsertSym(j, n, FALSE))'
    <3>1. /\ InsertSym(j, n, FALSE).op = "insert_sym" /\ InsertSym(j, n, FALSE).id = j
          /\ InsertSym(j, n, FALSE).fname = FALSE
      BY DEF InsertSym
    <3> QED BY <2>3, <3>1 DEF About
  <2>4. ASSUME NEW k \in DOMAIN todo'[p] PROVE About(p, todo[p][k])'
    <3>1. CASE todo'[p][k] = last
      BY <2>2, <3>1
    <3>2. CASE todo'[p][k] # last
      <4>1. PICK j \in Ids, n \in Names : symtab[j] = NoRow /\ todo'[p][k] = InsertSym(j, n, FALSE)
        BY <1>2, <2>4, <3>2
      <4> QED BY <2>3, <4>1
    <3> QED BY <3>1, <3>2
  <2>5. /\ m_func_id'[p] # None => m_func_id'[p] \in m_funcs'[p]
        /\ \A i \in Ids : symtab'[i].fname => i \in m_funcs'[p]
        /\ \A i \in m_funcs'[p] : symtab'[i].fname
    BY <1>1, <2>1
  <2> QED BY <2>4, <2>5 DEF Begins
<1> QED BY <1>1, <1>5, <1>6, RowsRule DEF Alone, RowsNamed

LEMMA RefKnownRows ==
  ASSUME TInv, RowTypes, RowsInv, ~parallel, NEW p \in Procs, RefKnown(p) PROVE RowsInv'
<1>1. /\ live[p] /\ todo[p] = <<>>
      /\ UNCHANGED <<parallel, live, disturbed, symtab, xrefs, errlog, m_funcs, m_func_id>>
  BY DEF RefKnown, Mid, cacheVars, dbVars, TInv, PlacesOK
<1>2. PICK f \in Ids : f = m_func_id[p]
  BY DEF RefKnown, TInv, SqlTypes
<1>3. PICK w \in Kinds : w = m_cache[p][arg[p]] /\ w # None
  BY DEF RefKnown, Kinds, TInv, SqlTypes
<1>4. PICK last : last = InsertXref(f, w)
  OBVIOUS
<1>5. body' = IF body[f] = Unknown THEN body ELSE [body EXCEPT ![f][w] = @ + 1]
  BY <1>2, <1>3 DEF RefKnown, Recorded
<1>6. todo'[p] = <<last>>
  BY <1>2, <1>3, <1>4 DEF RefKnown, TInv, SqlTypes
<1> QED BY <1>1, <1>2, <1>3, <1>4, <1>5, <1>6, RecordingRows

LEMMA RefNewRows ==
  ASSUME TInv, CacheInv, RowTypes, RowsInv, ~parallel, NEW p \in Procs, RefNew(p)
  PROVE  RowsInv'
<1>1. /\ live[p] /\ todo[p] = <<>>
      /\ UNCHANGED <<parallel, live, disturbed, symtab, xrefs, errlog, m_funcs, m_func_id>>
  BY DEF RefNew, Mid, dbVars, TInv, PlacesOK
<1>2. PICK f \in Ids : f = m_func_id[p]
  BY DEF RefNew, TInv, SqlTypes
<1>3. PICK id \in Ids : id = max_id[p] + 1
  BY AllocateStep DEF RefNew
<1>4. PICK w \in Kinds : w = id /\ w # None
  BY IdsFact DEF Kinds, None
<1>5. PICK last : last = InsertXref(f, w)
  OBVIOUS
<1>6. body' = IF body[f] = Unknown THEN body ELSE [body EXCEPT ![f][w] = @ + 1]
  BY <1>2, <1>3, <1>4 DEF RefNew, Recorded
<1>7. todo'[p] = <<InsertSym(id, arg[p], FALSE), last>> /\ arg[p] \in Names
  BY <1>2, <1>3, <1>4, <1>5 DEF RefNew, TInv, SqlTypes
<1>8. symtab[id] = NoRow
  <2>1. ASSUME id \in Stored PROVE FALSE
    <3>1. id <= max_id[p] /\ max_id[p] \in 0 .. MaxId
      BY <1>1, <2>1 DEF CacheInv, Own, RowsInv, Alone, TInv, SqlTypes
    <3> QED BY <1>3, <3>1, IdsFact
  <2> QED BY <2>1 DEF Stored
<1>9. \E j \in Ids, n \in Names : symtab[j] = NoRow /\ todo'[p] = <<InsertSym(j, n, FALSE), last>>
  BY <1>7, <1>8
<1> QED BY <1>1, <1>2, <1>4, <1>5, <1>6, <1>9, RecordingRows

LEMMA AddErrorRows ==
  ASSUME TInv, RowTypes, RowsInv, ~parallel, NEW p \in Procs, AddError(p) PROVE RowsInv'
<1>1. /\ live[p] /\ todo[p] = <<>>
      /\ UNCHANGED <<parallel, live, disturbed, symtab, xrefs, errlog, m_funcs, m_func_id>>
  BY DEF AddError, Mid, cacheVars, dbVars, TInv, PlacesOK
<1>2. PICK f \in Ids : f = m_func_id[p]
  BY DEF AddError, TInv, SqlTypes
<1>3. PICK w \in Kinds : w = None
  BY DEF Kinds
<1>4. PICK last : last = InsertErr(f)
  OBVIOUS
<1>5. body' = IF body[f] = Unknown THEN body ELSE [body EXCEPT ![f][w] = @ + 1]
  BY <1>2, <1>3 DEF AddError, Recorded
<1>6. todo'[p] = <<last>>
  BY <1>2, <1>4 DEF AddError, TInv, SqlTypes
<1> QED BY <1>1, <1>2, <1>3, <1>4, <1>5, <1>6, RecordingRows

\* What a statement does to the rows is what it stands for in BalanceIn.
LEMMA ExecuteOwed ==
  ASSUME RowTypes, NEW c \in Statements, Execute(c), NEW i \in Ids
  PROVE  /\ errlog'[i] = IF c = DelErrs(i) THEN 0
                         ELSE IF c = InsertErr(i) THEN errlog[i] + 1 ELSE errlog[i]
         /\ \A w \in Ids :
              xrefs'[i][w] = IF c = DelXrefs(i) THEN 0
                             ELSE IF c = InsertXref(i, w) THEN xrefs[i][w] + 1 ELSE xrefs[i][w]
<1>1. /\ DelErrs(i).op = "del_errs" /\ DelErrs(i).id = i
      /\ InsertErr(i).op = "insert_err" /\ InsertErr(i).id = i
      /\ DelXrefs(i).op = "del_xrefs" /\ DelXrefs(i).id = i
  BY Fields
<1>2. /\ c.op = "del_errs" /\ c.id = i => c = DelErrs(i)
      /\ c.op = "insert_err" /\ c.id = i => c = InsertErr(i)
      /\ c.op = "del_xrefs" /\ c.id = i => c = DelXrefs(i)
  BY DEF Statements, DelErrs, InsertErr, DelXrefs
<1>3. errlog'[i] = IF c = DelErrs(i) THEN 0
                   ELSE IF c = InsertErr(i) THEN errlog[i] + 1 ELSE errlog[i]
  <2>1. CASE c.op = "del_errs"
    <3>1. errlog' = [errlog EXCEPT ![c.id] = 0]
      BY <2>1 DEF Execute
    <3> QED BY <1>1, <1>2, <2>1, <3>1 DEF RowTypes
  <2>2. CASE c.op = "insert_err"
    <3>1. errlog' = [errlog EXCEPT ![c.id] = @ + 1]
      BY <2>2 DEF Execute
    <3> QED BY <1>1, <1>2, <2>2, <3>1 DEF RowTypes
  <2>3. CASE c.op \notin {"del_errs", "insert_err"}
    <3>1. errlog' = errlog
      BY <2>3 DEF Execute
    <3> QED BY <1>1, <2>3, <3>1
  <2> QED BY <2>1, <2>2, <2>3
<1>4. ASSUME NEW w \in Ids
      PROVE  xrefs'[i][w] = IF c = DelXrefs(i) THEN 0
                            ELSE IF c = InsertXref(i, w) THEN xrefs[i][w] + 1 ELSE xrefs[i][w]
  <2>1. /\ InsertXref(i, w).op = "insert_xref" /\ InsertXref(i, w).id = i
        /\ InsertXref(i, w).what = w
        /\ c.op = "insert_xref" /\ c.id = i /\ c.what = w => c = InsertXref(i, w)
    BY DEF Statements, InsertXref
  <2>2. CASE c.op = "del_xrefs"
    <3>1. xrefs' = [xrefs EXCEPT ![c.id] = [v \in Ids |-> 0]]
      BY <2>2 DEF Execute
    <3> QED BY <1>1, <1>2, <2>1, <2>2, <3>1 DEF RowTypes
  <2>3. CASE c.op = "insert_xref"
    <3>1. xrefs' = [xrefs EXCEPT ![c.id][c.what] = @ + 1]
      BY <2>3 DEF Execute
    <3>2. c.id \in Ids /\ c.what \in Ids
      BY <2>3 DEF Statements
    <3>3. xrefs'[i][w] = IF c.id = i /\ c.what = w THEN xrefs[i][w] + 1 ELSE xrefs[i][w]
      BY <3>1, <3>2 DEF RowTypes
    <3> QED BY <1>1, <2>1, <2>3, <3>3
  <2>4. CASE c.op \notin {"del_xrefs", "insert_xref"}
    <3>1. xrefs' = xrefs
      BY <2>4 DEF Execute
    <3> QED BY <1>1, <2>1, <2>4, <3>1
  <2> QED BY <2>2, <2>3, <2>4
<1> QED BY <1>3, <1>4

\* What a statement does to the file name of a row.
LEMMA ExecuteNamed ==
  ASSUME TInv, NEW c \in Statements, Execute(c), NEW i \in Ids
  PROVE  /\ symtab'[i].fname =>
              \/ symtab[i].fname
              \/ c.id = i /\ (c.op = "update_fname" \/ (c.op = "insert_sym" /\ c.fname))
         /\ symtab[i].fname => symtab'[i].fname
         /\ c = UpdateFname(i) /\ symtab[i] # NoRow => symtab'[i].fname
         /\ \A n \in Names : c = InsertSym(i, n, TRUE) /\ symtab[i] = NoRow => symtab'[i].fname
<1>1. symtab \in [Ids -> Row \cup {NoRow}] /\ c.id \in Ids
  BY DEF TInv, SqlTypes, Statements
<1>2. /\ UpdateFname(i).op = "update_fname" /\ UpdateFname(i).id = i
      /\ \A n : /\ InsertSym(i, n, TRUE).op = "insert_sym" /\ InsertSym(i, n, TRUE).id = i
                /\ InsertSym(i, n, TRUE).fname = TRUE
  BY DEF UpdateFname, InsertSym
<1>3. CASE c.op = "insert_sym" /\ symtab[c.id] = NoRow
  <2>1. symtab' = [symtab EXCEPT ![c.id] = [name |-> c.name, fname |-> c.fname]]
    BY <1>3 DEF Execute
  <2>2. symtab'[c.id].fname = c.fname /\ \A j \in Ids : j # c.id => symtab'[j] = symtab[j]
    BY <1>1, <2>1
  <2>3. symtab[c.id].fname = FALSE
    BY <1>3 DEF NoRow
  <2> QED BY <1>1, <1>2, <1>3, <2>2, <2>3
<1>4. CASE c.op = "update_fname" /\ symtab[c.id] # NoRow
  <2>1. symtab[c.id] \in Row
    BY <1>1, <1>4
  <2>2. symtab' = [symtab EXCEPT ![c.id].fname = TRUE]
    BY <1>4 DEF Execute
  <2>3. symtab'[c.id].fname = TRUE /\ \A j \in Ids : j # c.id => symtab'[j] = symtab[j]
    BY <1>1, <2>1, <2>2 DEF Row
  <2>4. symtab'[i].fname <=> symtab[i].fname \/ i = c.id
    BY <2>3
  <2> QED BY <1>2, <1>4, <2>4
<1>5. CASE ~(c.op = "insert_sym" /\ symtab[c.id] = NoRow)
           /\ ~(c.op = "update_fname" /\ symtab[c.id] # NoRow)
  <2>1. symtab' = symtab
    BY <1>5 DEF Execute
  <2> QED BY <1>1, <1>2, <1>5, <2>1
<1> QED BY <1>3, <1>4, <1>5

\* The statements of a call do not undo one another.
Follows(c, d) ==
  /\ d.op \in {"del_errs", "insert_xref"}
  /\ d.op = "del_errs" => c.op = "del_xrefs"
  /\ d.op = "insert_xref" => c.op = "insert_sym"

LEMMA ShapeForms ==
  ASSUME NEW s, Shape(s), s # <<>>
  PROVE  /\ Head(s) \in Statements
         /\ \/ s = <<Head(s)>> /\ Tail(s) = <<>>
            \/ \E d : s = <<Head(s), d>> /\ Tail(s) = <<d>> /\ Follows(Head(s), d)
<1>1. CASE Single(s)
  BY <1>1 DEF Single
<1>2. CASE Clears(s)
  <2>1. PICK i \in Ids : s = <<DelXrefs(i), DelErrs(i)>>
    BY <1>2 DEF Clears
  <2>2. PICK c, d : c = DelXrefs(i) /\ d = DelErrs(i)
    OBVIOUS
  <2>3. s = <<c, d>> /\ Head(s) = c /\ Tail(s) = <<d>> /\ c \in Statements
    BY <2>1, <2>2, StatementTypes
  <2>4. Follows(c, d)
    BY <2>2, Fields DEF Follows
  <2> QED BY <2>3, <2>4
<1>3. CASE Refers(s)
  <2>1. PICK i, j \in Ids, n \in Names : s = <<InsertSym(j, n, FALSE), InsertXref(i, j)>>
    BY <1>3 DEF Refers
  <2>2. PICK c, d : c = InsertSym(j, n, FALSE) /\ d = InsertXref(i, j)
    OBVIOUS
  <2>3. s = <<c, d>> /\ Head(s) = c /\ Tail(s) = <<d>>
    BY <2>1, <2>2
  <2>4. c.op = "insert_sym" /\ c \in Statements
    BY <2>2 DEF InsertSym, Statements
  <2>5. d.op = "insert_xref"
    BY <2>2 DEF InsertXref
  <2> QED BY <2>3, <2>4, <2>5 DEF Follows
<1> QED BY <1>1, <1>2, <1>3 DEF Shape

\* A row that was owed is there, or is still owed.
LEMMA BalanceStep ==
  ASSUME RowTypes, NEW s, NEW t, NEW c \in Statements, Execute(c), UNCHANGED body, BalanceIn(s),
         \/ s = <<c>> /\ t = <<>>
         \/ \E d : s = <<c, d>> /\ t = <<d>> /\ Follows(c, d)
  PROVE  \A i \in Ids : body'[i] # Unknown =>
           /\ body'[i][None] = IF Owes(t, DelErrs(i)) THEN 0
                               ELSE IF Owes(t, InsertErr(i)) THEN errlog'[i] + 1 ELSE errlog'[i]
           /\ \A w \in Ids :
                body'[i][w] = IF Owes(t, DelXrefs(i)) THEN 0
                              ELSE IF Owes(t, InsertXref(i, w)) THEN xrefs'[i][w] + 1
                              ELSE xrefs'[i][w]
<1> SUFFICES ASSUME NEW i \in Ids, body[i] # Unknown, NEW w \in Ids
             PROVE  /\ body[i][None] = IF Owes(t, DelErrs(i)) THEN 0
                          ELSE IF Owes(t, InsertErr(i)) THEN errlog'[i] + 1 ELSE errlog'[i]
                    /\ body[i][w] = IF Owes(t, DelXrefs(i)) THEN 0
                          ELSE IF Owes(t, InsertXref(i, w)) THEN xrefs'[i][w] + 1
                          ELSE xrefs'[i][w]
  OBVIOUS
<1>1. /\ body[i][None] = IF Owes(s, DelErrs(i)) THEN 0
                         ELSE IF Owes(s, InsertErr(i)) THEN errlog[i] + 1 ELSE errlog[i]
      /\ body[i][w] = IF Owes(s, DelXrefs(i)) THEN 0
                      ELSE IF Owes(s, InsertXref(i, w)) THEN xrefs[i][w] + 1 ELSE xrefs[i][w]
  BY DEF BalanceIn
<1>2. /\ errlog'[i] = IF c = DelErrs(i) THEN 0
                      ELSE IF c = InsertErr(i) THEN errlog[i] + 1 ELSE errlog[i]
      /\ xrefs'[i][w] = IF c = DelXrefs(i) THEN 0
                        ELSE IF c = InsertXref(i, w) THEN xrefs[i][w] + 1 ELSE xrefs[i][w]
  BY ExecuteOwed
<1>3. CASE s = <<c>> /\ t = <<>>
  <2>1. \A e : ~Owes(t, e) /\ (Owes(s, e) <=> e = c)
    BY <1>3, OwesForms
  <2> QED BY <1>1, <1>2, <2>1
<1>4. ASSUME NEW d, s = <<c, d>>, t = <<d>>, Follows(c, d)
      PROVE  /\ body[i][None] = IF Owes(t, DelErrs(i)) THEN 0
                   ELSE IF Owes(t, InsertErr(i)) THEN errlog'[i] + 1 ELSE errlog'[i]
             /\ body[i][w] = IF Owes(t, DelXrefs(i)) THEN 0
                   ELSE IF Owes(t, InsertXref(i, w)) THEN xrefs'[i][w] + 1 ELSE xrefs'[i][w]
  <2>1. \A e : (Owes(t, e) <=> e = d) /\ (Owes(s, e) <=> e = c \/ e = d)
    BY <1>4, OwesForms
  <2>2. /\ DelErrs(i).op = "del_errs" /\ InsertErr(i).op = "insert_err"
        /\ DelXrefs(i).op = "del_xrefs" /\ InsertXref(i, w).op = "insert_xref"
    BY Fields
  <2>3. /\ c.op \in {"del_xrefs", "insert_sym"} /\ d.op \in {"del_errs", "insert_xref"}
        /\ d.op = "insert_xref" => c.op = "insert_sym"
    BY <1>4 DEF Follows
  <2>4. c # DelErrs(i) /\ c # InsertErr(i) /\ c # InsertXref(i, w)
    BY <2>2, <2>3
  <2>5. d # DelXrefs(i) /\ d # InsertErr(i) /\ (d = InsertXref(i, w) => c # DelXrefs(i))
    BY <2>2, <2>3
  <2> QED BY <1>1, <1>2, <2>1, <2>4, <2>5
<1> QED BY <1>3, <1>4

LEMMA StatementRows ==
  ASSUME TInv, RowsOK, RowsInv, ~parallel, NEW p \in Procs, Statement(p) PROVE RowsInv'
<1> DEFINE c == Head(todo[p])
<1>1. /\ live[p] /\ todo[p] # <<>> /\ Execute(c)
      /\ UNCHANGED <<parallel, live, m_funcs, m_func_id, body>>
  BY DEF Statement, cacheVars, callVars, TInv, PlacesOK
<1>2. RowTypes /\ Alone /\ RowsNamed /\ Begins(p) /\ BalanceIn(todo[p])
  BY <1>1 DEF RowsOK, RowsInv
<1>3. /\ c \in Statements
      /\ \/ todo[p] = <<c>> /\ Tail(todo[p]) = <<>>
         \/ \E d : todo[p] = <<c, d>> /\ Tail(todo[p]) = <<d>> /\ Follows(c, d)
  BY <1>1, ShapeForms DEF RowsOK
<1>4. todo'[p] = Tail(todo[p])
  BY DEF Statement, Stepped, TInv, SqlTypes
<1>5. \A q \in Procs : ~disturbed'[q]
  BY <1>1, <1>2 DEF Statement, Alone
<1>6. BalanceIn(todo[p])'
  <2>1. PICK t : t = todo'[p]
    OBVIOUS
  <2>2. \/ todo[p] = <<c>> /\ t = <<>>
        \/ \E d : todo[p] = <<c, d>> /\ t = <<d>> /\ Follows(c, d)
    BY <1>3, <1>4, <2>1
  <2>3. \A i \in Ids : body'[i] # Unknown =>
          /\ body'[i][None] = IF Owes(t, DelErrs(i)) THEN 0
                              ELSE IF Owes(t, InsertErr(i)) THEN errlog'[i] + 1 ELSE errlog'[i]
          /\ \A w \in Ids :
               body'[i][w] = IF Owes(t, DelXrefs(i)) THEN 0
                             ELSE IF Owes(t, InsertXref(i, w)) THEN xrefs'[i][w] + 1
                             ELSE xrefs'[i][w]
    BY <1>1, <1>2, <1>3, <2>2, BalanceStep
  <2> QED BY <2>1, <2>3 DEF BalanceIn
<1>7. c = todo[p][1] /\ 1 \in DOMAIN todo[p] /\ About(p, c)
  <2>1. c = todo[p][1] /\ 1 \in DOMAIN todo[p]
    BY <1>3
  <2> QED BY <1>2, <2>1 DEF Begins
<1>8. ASSUME NEW i \in m_funcs[p] PROVE symtab'[i].fname
  <2>1. i \in Ids
    BY DEF TInv, SqlTypes
  <2>2. CASE symtab[i].fname
    BY <1>1, <1>3, <2>1, <2>2, ExecuteNamed
  <2>3. CASE todo[p] = <<UpdateFname(i)>>
    <3>1. c = UpdateFname(i)
      BY <2>3
    <3>2. symtab[i] # NoRow
      BY <1>7, <3>1, Fields DEF About
    <3> QED BY <1>1, <1>3, <2>1, <3>1, <3>2, ExecuteNamed
  <2>4. CASE \E n \in Names : todo[p] = <<InsertSym(i, n, TRUE)>>
    <3>1. PICK n \in Names : c = InsertSym(i, n, TRUE)
      <4>1. PICK n \in Names : todo[p] = <<InsertSym(i, n, TRUE)>>
        BY <2>4
      <4>2. Head(<<InsertSym(i, n, TRUE)>>) = InsertSym(i, n, TRUE)
        OBVIOUS
      <4> QED BY <4>1, <4>2
    <3>2. c.op = "insert_sym" /\ c.id = i
      BY <3>1 DEF InsertSym
    <3>3. symtab[i] = NoRow
      BY <1>7, <3>2 DEF About
    <3> QED BY <1>1, <1>3, <2>1, <3>1, <3>3, ExecuteNamed
  <2> QED BY <1>2, <2>2, <2>3, <2>4 DEF Begins
<1>9. ASSUME NEW i \in Ids, symtab'[i].fname PROVE i \in m_funcs[p]
  <2>1. \/ symtab[i].fname
        \/ c.id = i /\ (c.op = "update_fname" \/ (c.op = "insert_sym" /\ c.fname))
    BY <1>1, <1>3, <1>9, ExecuteNamed
  <2> QED BY <1>2, <1>7, <2>1 DEF Begins, About
<1>10. Begins(p)'
  <2>1. \A k \in DOMAIN todo'[p] : About(p, todo[p][k])'
    <3>1. ASSUME NEW d, todo[p] = <<c, d>>, Tail(todo[p]) = <<d>>, Follows(c, d),
                 NEW k \in DOMAIN todo'[p]
          PROVE  About(p, todo[p][k])'
      <4>1. todo'[p][k] = d /\ todo[p][2] = d /\ 2 \in DOMAIN todo[p]
        BY <1>4, <3>1
      <4>2. About(p, d) /\ d.op \in {"del_errs", "insert_xref"}
        BY <1>2, <3>1, <4>1 DEF Begins, Follows
      <4>3. About(p, d)'
        BY <1>1, <4>2 DEF About
      <4> QED BY <4>1, <4>3
    <3>2. ASSUME Tail(todo[p]) = <<>>, NEW k \in DOMAIN todo'[p] PROVE FALSE
      BY <1>4, <3>2
    <3> QED BY <1>3, <3>1, <3>2
  <2> QED BY <1>1, <1>2, <1>8, <1>9, <2>1 DEF Begins
<1>11. RowsNamed'
  <2> SUFFICES ASSUME NEW i \in Ids, ~symtab'[i].fname, NEW w \in Ids
               PROVE  errlog'[i] = 0 /\ xrefs'[i][w] = 0
    BY DEF RowsNamed
  <2>1. ~symtab[i].fname /\ i \notin m_funcs[p]
    BY <1>1, <1>3, <1>8, ExecuteNamed
  <2>2. errlog[i] = 0 /\ xrefs[i][w] = 0
    BY <1>2, <2>1 DEF RowsNamed
  <2>3. c # InsertErr(i) /\ c # InsertXref(i, w)
    <3>1. ASSUME c.op \in {"insert_err", "insert_xref"}, c.id = i PROVE FALSE
      BY <1>2, <1>7, <2>1, <3>1, IdsFact DEF About, Begins, None
    <3> QED BY <3>1, Fields
  <2> QED BY <1>1, <1>2, <1>3, <2>2, <2>3, ExecuteOwed
<1> QED BY <1>1, <1>5, <1>6, <1>10, <1>11, RowsRule

\* Nobody keeps the file locked for another.
LEMMA NoneRefused ==
  ASSUME TInv, RowsInv, ~parallel, NEW p \in Procs PROVE ~Refused(p)
  BY DEF Refused, Locked, RowsInv, Alone, TInv, PlacesOK

LEMMA StepRowsInv == TInv /\ CacheInv /\ RowsOK /\ RowsInv /\ [Next]_vars => RowsInv'
<1> SUFFICES ASSUME TInv, CacheInv, RowsOK, RowsInv, [Next]_vars, ~parallel PROVE RowsInv'
  BY ParallelStays DEF RowsInv
<1>1. RowTypes
  BY DEF RowsOK
<1>2. ASSUME NEW p \in Procs, Open(p) \/ Exit(p) PROVE RowsInv'
  BY <1>2, OpenRows, ExitRows
<1>3. ASSUME NEW p \in Procs, NEW fn \in CStrings, StartUnseen(p, fn) PROVE RowsInv'
  BY <1>3, QuietCallRows DEF StartUnseen, Idle, cacheVars, dbVars
<1>4. ASSUME NEW p \in Procs, NEW fn \in CStrings, StartReferenced(p, fn) PROVE RowsInv'
  BY <1>1, <1>4, StartReferencedRows
<1>5. ASSUME NEW p \in Procs, NEW fn \in CStrings, StartProcessed(p, fn) PROVE RowsInv'
  BY <1>1, <1>5, StartProcessedRows
<1>6. ASSUME NEW p \in Procs, NEW what, Record(p, what) PROVE RowsInv'
  BY <1>6, QuietCallRows DEF Record, Idle, cacheVars, dbVars, historyVars
<1>7. ASSUME NEW p \in Procs, AddFunc(p) PROVE RowsInv'
  BY <1>1, <1>7, AddFuncRows
<1>8. ASSUME NEW p \in Procs, RefKnown(p) \/ RefNew(p) \/ AddError(p) PROVE RowsInv'
  BY <1>1, <1>8, RefKnownRows, RefNewRows, AddErrorRows
<1>9. ASSUME NEW p \in Procs, FuncStop(p) PROVE RowsInv'
  <2>1. m_func_id'[p] = None
    BY <1>9 DEF FuncStop, TInv, SqlTypes
  <2> QED BY <1>9, <2>1, QuietCallRows DEF FuncStop, Idle, cacheVars, dbVars, historyVars
<1>10. ASSUME NEW p \in Procs, Statement(p) PROVE RowsInv'
  BY <1>10, StatementRows
<1>11. ASSUME NEW p \in Procs, Refused(p) PROVE RowsInv'
  BY <1>11, NoneRefused
<1>12. CASE UNCHANGED vars
  <2> USE DEF vars, cacheVars, callVars, dbVars, historyVars
  <2>1. Alone' /\ RowsNamed'
    BY <1>12 DEF RowsInv, Alone, RowsNamed
  <2>2. ASSUME NEW p \in Procs, live[p] PROVE Begins(p)' /\ BalanceIn(todo[p])'
    <3>1. Begins(p) /\ BalanceIn(todo[p])
      BY <2>2 DEF RowsInv
    <3>2. Begins(p)'
      BY <1>12, <3>1 DEF Begins, About
    <3> QED BY <1>12, <3>1, <3>2 DEF BalanceIn
  <2>3. (\A p \in Procs : ~live[p]) => BalanceIn(<<>>)'
    BY <1>12 DEF RowsInv, BalanceIn
  <2> QED BY <1>12, <2>1, <2>2, <2>3 DEF RowsInv
<1> QED
  BY <1>2, <1>3, <1>4, <1>5, <1>6, <1>7, <1>8, <1>9, <1>10, <1>11, <1>12 DEF Next

\* One compiler after the other, killed wherever it may be: the references and
\* errors in the file of every function whose recording was not cut short are
\* the ones recorded since it was last begun.
THEOREM RowsCorrect == Spec => []RowsAsRecorded
<1> DEFINE Inv == TInv /\ CacheInv /\ RowsOK /\ RowsInv
<1>1. Init => Inv
  BY InitTInv, InitCacheInv, InitRowsOK, InitRowsInv
<1>2. Inv /\ [Next]_vars => Inv'
  BY StepTInv, StepCacheInv, StepRowsOK, StepRowsInv
<1>3. Inv => RowsAsRecorded
  <2> SUFFICES ASSUME Inv, Quiet, ~parallel
               PROVE  \A i \in Ids : body[i] # Unknown =>
                        errlog[i] = body[i][None] /\ \A w \in Ids : xrefs[i][w] = body[i][w]
    BY DEF RowsAsRecorded
  <2>1. BalanceIn(<<>>)
    BY DEF Quiet, RowsInv
  <2> QED BY <2>1, OwesForms DEF BalanceIn
<1> QED BY <1>1, <1>2, <1>3, PTL DEF Spec
=============================================================================
