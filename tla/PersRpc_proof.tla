---------------------------- MODULE PersRpc_proof ---------------------------
(***************************************************************************)
(* Theorems about PersRpc, for any number of clients, names, ids, calls    *)
(* and restarts.  The clients use the server as SymrefServer expects it,   *)
(* so that all that SymrefServer_proof shows of the server holds with them *)
(* in the place of "any client"; no client holds an id for a name that the *)
(* server would not give for it; and when everything is quiet, processed   *)
(* functions are marked as such, and their stored bodies are those that    *)
(* were sent last.                                                         *)
(***************************************************************************)
EXTENDS PersRpc, SymrefServer_proof, FiniteSetTheorems

HasName(id) == id \in Ids /\ \E m \in Names : Bound(id, m)

BoundTo(id, n) == id \in Ids /\ \E m \in Names : c_str[m] = c_str[n] /\ Bound(id, m)

Places == {"out", "check_function", "in", "check_sym", "add_func"}
Asking == {"check_function", "check_sym"}
Collected == [id : Ids \cup {None}, errors : Nat, refs : Seq(Ids)]

ClientTypes ==
  /\ cpc \in [Sessions -> Places]
  /\ cur \in [Sessions -> Names \cup {None}]
  /\ m_syms \in [Sessions -> [Names -> Ids \cup {None}]]
  /\ m_func \in [Sessions -> Collected]

\* A client that has asked for a name: its thread still looks for that name, or
\* has an id of that name to answer.
AskedOrTold(s) ==
  cpc[s] \in Asking =>
    /\ cur[s] \in Names
    /\ pc[s] \in Asking => arg[s] = cur[s]
    /\ pc[s] \notin Asking => BoundTo(reply[s].id, cur[s])

\* What a client knows has a name, and the body it collects has room.
KnowsNames(s) ==
  /\ \A n \in Names : m_syms[s][n] # None => BoundTo(m_syms[s][n], n)
  /\ \A k \in DOMAIN m_func[s].refs : HasName(m_func[s].refs[k])
  /\ cpc[s] \in {"in", "check_sym"} => HasName(m_func[s].id)

BodyFits(s) ==
  /\ m_func[s].errors + Len(m_func[s].refs) <= MaxRefs
  /\ cpc[s] = "check_sym" => HasRoom(s)

ClientInv(s) == AskedOrTold(s) /\ KnowsNames(s) /\ BodyFits(s)

CInv == ClientTypes /\ \A s \in Sessions : ClientInv(s)

BindingsStay == \A i \in Ids, m \in Names : Bound(i, m) => Bound(i, m)'

LEMMA SameStay == SameBindings => BindingsStay
  BY DEF SameBindings, BindingsStay

-----------------------------------------------------------------------------
(***************************************************************************)
(* What the server does to bindings: only its death loses any.             *)
(***************************************************************************)
LEMMA AnswerStays ==
  ASSUME UNCHANGED <<m_q, todo, symtab>> PROVE BindingsStay
<1>1. SameInserts
  BY DEF SameInserts, InHand
<1> QED BY <1>1, SameBindingsRule, SameStay

LEMMA StepBindings ==
  ASSUME TInv, BindingInv, [Next]_vars PROVE Die \/ BindingsStay
<1>1. ASSUME NEW s \in Sessions, NEW n \in CStrings, CheckFunction(s, n) PROVE BindingsStay
  <2>1. pc[s] # "push" /\ UNCHANGED <<m_q, symtab>>
    BY <1>1 DEF CheckFunction, Called, dbVars
  <2>2. CASE UNCHANGED todo
    BY <2>1, <2>2, AnswerStays
  <2>3. ASSUME NEW id, AnswerAfter(s, id, <<DelXrefs(id), DelErrs(id)>>) PROVE BindingsStay
    <3>1. \A i \in DOMAIN <<DelXrefs(id), DelErrs(id)>> :
            <<DelXrefs(id), DelErrs(id)>>[i].op # "insert_sym"
      BY DEF DelXrefs, DelErrs
    <3> QED BY <2>1, <2>3, <3>1, NoNewRows, SameStay
  <2> QED BY <1>1, <2>2, <2>3 DEF CheckFunction, Retry, Answer
<1>2. ASSUME NEW s \in Sessions, CheckFunctionAgain(s) \/ CheckSymAgain(s) PROVE BindingsStay
  <2>1. pc[s] # "push" /\ arg[s] \in Names /\ UNCHANGED <<m_q, symtab>>
    BY <1>2 DEF CheckFunctionAgain, CheckSymAgain, TInv, ThreadsOK, CStrings, dbVars
  <2>2. CASE Allocate(s, arg[s])
    BY <2>1, <2>2, AllocateBinds DEF BindingsStay
  <2>3. CASE UNCHANGED todo
    BY <2>1, <2>3, AnswerStays
  <2> QED BY <1>2, <2>2, <2>3 DEF CheckFunctionAgain, CheckSymAgain, Answer
<1>3. ASSUME NEW s \in Sessions, NEW n \in Names, CheckSym(s, n) PROVE BindingsStay
  BY <1>3, AnswerStays DEF CheckSym, Retry, Answer, dbVars
<1>4. ASSUME NEW s \in Sessions, NEW f \in Bodies, AddFunc(s, f) PROVE BindingsStay
  <2>1. pc[s] # "push" /\ UNCHANGED <<m_q, symtab>> /\ AnswerAfter(s, None, BodyClosures(f))
    BY <1>4 DEF AddFunc, Called, dbVars
  <2>2. \A i \in DOMAIN BodyClosures(f) : BodyClosures(f)[i].op # "insert_sym"
    BY BodyType
  <2> QED BY <2>1, <2>2, NoNewRows, SameStay
<1>5. ASSUME NEW s \in Sessions, Quit(s) \/ Notify(s) PROVE BindingsStay
  BY <1>5, AnswerStays DEF Quit, Notify, dbVars
<1>6. ASSUME NEW s \in Sessions, Push(s) PROVE BindingsStay
  BY <1>6, PushBindings, SameStay
<1>7. ASSUME Start \/ WriterTest \/ WriterSleep \/ SpuriousWakeup \/ WriterRelock PROVE BindingsStay
  BY <1>7, AnswerStays
  DEF Start, WriterTest, WriterSleep, SpuriousWakeup, WriterRelock, threadVars, dbVars
<1>8. ASSUME WriterApply PROVE BindingsStay
  BY <1>8, ApplyBindings, SameStay DEF BindingInv
<1>9. CASE UNCHANGED vars
  BY <1>9, AnswerStays DEF vars, threadVars, dbVars
<1> QED
  BY <1>1, <1>2, <1>3, <1>4, <1>5, <1>6, <1>7, <1>8, <1>9
  DEF Next, Crash, Writer, WriterStep, WriterExit, Request, Thread

\* What the cache has of a C string or of a whole string is bound to it.
LEMMA CachedIsBound ==
  ASSUME TInv, BindingInv, NEW n \in Names, NEW k \in {n, c_str[n]}, m_cache[k] # None
  PROVE  BoundTo(m_cache[k], n)
<1>1. k \in Names /\ m_cache[k] \in Ids
  BY CStrAssumption DEF TInv, TypeOK
<1>2. PICK m \in Names : c_str[m] = k /\ Bound(m_cache[k], m)
  BY <1>1 DEF BindingInv, CacheBacked
<1>3. c_str[m] = c_str[n]
  BY <1>2, CStrAssumption
<1> QED BY <1>1, <1>2, <1>3 DEF BoundTo

\* The id that is allocated for a name is bound to it.
LEMMA AllocatedIsBound ==
  ASSUME TInv, NEW s \in Sessions, NEW n \in Names, pc[s] # "push",
         Allocate(s, n), UNCHANGED <<m_q, symtab>>
  PROVE  BoundTo(reply[s].id, n)'
<1>1. PICK i \in Ids : i = max_id + 1 /\ max_id + 1 \in Ids
  BY AllocateStep
<1>2. Bound(i, n)'
  BY <1>1, AllocateBinds
<1>3. reply'[s].id = i
  BY <1>1 DEF Allocate, AnswerAfter, TInv, TypeOK
<1> QED BY <1>1, <1>2, <1>3 DEF BoundTo

-----------------------------------------------------------------------------
(***************************************************************************)
(* A client that does nothing, while the server loses no binding.          *)
(***************************************************************************)
LEMMA NamesStay ==
  ASSUME BindingsStay
  PROVE  /\ \A id : HasName(id) => \E m \in Names : id \in Ids /\ Bound(id, m)'
         /\ \A id, n : BoundTo(id, n) =>
              id \in Ids /\ \E m \in Names : c_str[m] = c_str[n] /\ Bound(id, m)'
  BY DEF HasName, BoundTo, BindingsStay

LEMMA KnowledgeStays ==
  ASSUME BindingsStay, NEW s \in Sessions, KnowsNames(s), BodyFits(s),
         UNCHANGED <<cpc[s], m_syms[s], m_func[s]>>
  PROVE  KnowsNames(s)' /\ BodyFits(s)'
<1>1. BodyFits(s)'
  BY DEF BodyFits, HasRoom
<1>2. KnowsNames(s)'
  BY NamesStay DEF KnowsNames, HasName, BoundTo
<1> QED BY <1>1, <1>2

LEMMA AnswerStaysTrue ==
  ASSUME BindingsStay, NEW s \in Sessions, AskedOrTold(s),
         UNCHANGED <<cpc[s], cur[s], pc[s], arg[s], reply[s]>>
  PROVE  AskedOrTold(s)'
  BY NamesStay DEF AskedOrTold, BoundTo

LEMMA ClientStays ==
  ASSUME BindingsStay, NEW s \in Sessions, ClientInv(s),
         UNCHANGED <<cpc[s], cur[s], m_syms[s], m_func[s], pc[s], arg[s], reply[s]>>
  PROVE  ClientInv(s)'
  BY KnowledgeStays, AnswerStaysTrue DEF ClientInv

-----------------------------------------------------------------------------
(***************************************************************************)
(* The client's thread in the server.                                      *)
(***************************************************************************)
Handles(s) ==
  \/ \E n \in Names : CheckFunction(s, n) \/ CheckSym(s, n)
  \/ \E f \in Bodies : AddFunc(s, f)
  \/ Quit(s)
  \/ Thread(s)

LEMMA HandlesAlone ==
  ASSUME TInv, NEW s \in Sessions, NEW t \in Sessions, t # s, Handles(s)
  PROVE  UNCHANGED <<pc[t], arg[t], todo[t], reply[t]>>
<1>1. /\ pc \in [Sessions -> {"idle", "check_function", "check_sym", "push", "notify"}]
      /\ arg \in [Sessions -> Names \cup {None}]
      /\ reply \in [Sessions -> [id : Ids \cup {None}, skip : BOOLEAN]]
      /\ todo \in [Sessions -> Seq(Closures)]
  BY DEF TInv, TypeOK
<1>2. ASSUME \/ \E id, skip : Answer(s, id, skip)
             \/ \E id, closures : AnswerAfter(s, id, closures)
             \/ \E at, n : Retry(s, at, n)
      PROVE  UNCHANGED <<pc[t], arg[t], todo[t], reply[t]>>
  BY <1>1, <1>2 DEF Answer, AnswerAfter, Retry
<1>3. ASSUME NEW n \in Names, CheckFunction(s, n) \/ CheckSym(s, n)
      PROVE  UNCHANGED <<pc[t], arg[t], todo[t], reply[t]>>
  BY <1>2, <1>3 DEF CheckFunction, CheckSym
<1>4. CASE CheckFunctionAgain(s) \/ CheckSymAgain(s)
  BY <1>2, <1>4 DEF CheckFunctionAgain, CheckSymAgain, Allocate
<1>5. ASSUME NEW f \in Bodies, AddFunc(s, f) PROVE UNCHANGED <<pc[t], arg[t], todo[t], reply[t]>>
  BY <1>2, <1>5 DEF AddFunc
<1>6. CASE Quit(s) \/ Push(s) \/ Notify(s)
  BY <1>1, <1>6 DEF Quit, Push, Notify
<1> QED BY <1>3, <1>4, <1>5, <1>6 DEF Handles, Thread

\* A handler that has been called looks for the name or has its id.
LEMMA CallAsks ==
  ASSUME TInv, BindingInv, BindingsStay, NEW s \in Sessions, NEW n \in Names,
         CheckFunction(s, n) \/ CheckSym(s, n), cur'[s] = n
  PROVE  AskedOrTold(s)'
<1>1. /\ pc \in [Sessions -> {"idle", "check_function", "check_sym", "push", "notify"}]
      /\ arg \in [Sessions -> Names \cup {None}]
      /\ reply \in [Sessions -> [id : Ids \cup {None}, skip : BOOLEAN]]
      /\ m_funcs \subseteq Ids
  BY DEF TInv, TypeOK
<1>2. ASSUME NEW at \in Asking, Retry(s, at, n) PROVE AskedOrTold(s)'
  BY <1>1, <1>2 DEF Retry, AskedOrTold, Asking
<1>3. ASSUME NEW id, BoundTo(id, n),
             Answer(s, id, FALSE) \/ \E closures : AnswerAfter(s, id, closures)
      PROVE  AskedOrTold(s)'
  <2>1. reply'[s].id = id /\ pc'[s] \notin Asking
    BY <1>1, <1>3 DEF Answer, AnswerAfter, Asking
  <2>2. BoundTo(reply[s].id, cur[s])'
    BY <1>3, <2>1, NamesStay DEF BoundTo
  <2> QED BY <2>1, <2>2 DEF AskedOrTold
<1>4. CASE CheckFunction(s, n)
  <2> DEFINE id == m_cache[c_str[n]]
  <2>1. id # None => BoundTo(id, n)
    BY CachedIsBound
  <2>2. id \in m_funcs => id # None
    BY <1>1, IdsFact DEF None
  <2> QED BY <1>2, <1>3, <1>4, <2>1, <2>2 DEF CheckFunction, Asking
<1>5. CASE CheckSym(s, n)
  <2>1. m_cache[n] # None => BoundTo(m_cache[n], n)
    BY CachedIsBound
  <2> QED BY <1>2, <1>3, <1>5, <2>1 DEF CheckSym, Asking
<1> QED BY <1>4, <1>5

\* It goes on until it has the id, and keeps it until it is idle.
LEMMA ThreadTells ==
  ASSUME TInv, BindingInv, BindingsStay, NEW s \in Sessions, Thread(s), AskedOrTold(s),
         UNCHANGED <<cpc[s], cur[s]>>
  PROVE  AskedOrTold(s)'
<1> SUFFICES ASSUME cpc[s] \in Asking PROVE AskedOrTold(s)'
  BY DEF AskedOrTold
<1>1. /\ pc \in [Sessions -> {"idle", "check_function", "check_sym", "push", "notify"}]
      /\ arg \in [Sessions -> Names \cup {None}]
      /\ reply \in [Sessions -> [id : Ids \cup {None}, skip : BOOLEAN]]
  BY DEF TInv, TypeOK
<1>2. cur[s] \in Names
  BY DEF AskedOrTold
<1>3. CASE CheckFunctionAgain(s) \/ CheckSymAgain(s)
  <2>1. /\ pc[s] \in Asking /\ pc[s] # "push" /\ arg[s] = cur[s]
        /\ UNCHANGED <<m_q, symtab>>
    BY <1>3 DEF CheckFunctionAgain, CheckSymAgain, AskedOrTold, Asking, dbVars
  <2>2. CASE Allocate(s, cur[s])
    <3>1. BoundTo(reply[s].id, cur[s])'
      BY <1>2, <2>1, <2>2, AllocatedIsBound
    <3>2. pc'[s] \notin Asking
      BY <1>1, <2>2 DEF Allocate, AnswerAfter, Asking
    <3> QED BY <1>2, <3>1, <3>2 DEF AskedOrTold
  <2>3. ASSUME NEW k \in {cur[s], c_str[cur[s]]}, NEW skip, m_cache[k] # None,
               Answer(s, m_cache[k], skip)
        PROVE  AskedOrTold(s)'
    <3>1. BoundTo(m_cache[k], cur[s])
      BY <1>2, <2>3, CachedIsBound
    <3>2. reply'[s].id = m_cache[k] /\ pc'[s] \notin Asking
      BY <1>1, <2>3 DEF Answer, Asking
    <3>3. BoundTo(reply[s].id, cur[s])'
      BY <3>1, <3>2, NamesStay DEF BoundTo
    <3> QED BY <1>2, <3>2, <3>3 DEF AskedOrTold
  <2> QED BY <1>3, <2>1, <2>2, <2>3 DEF CheckFunctionAgain, CheckSymAgain
<1>4. CASE Push(s) \/ Notify(s)
  <2>1. pc[s] \notin Asking /\ pc'[s] \notin Asking /\ reply' = reply
    BY <1>1, <1>4 DEF Push, Notify, Asking
  <2>2. BoundTo(reply[s].id, cur[s])'
    BY <2>1, NamesStay DEF AskedOrTold, BoundTo
  <2> QED BY <1>2, <2>1, <2>2 DEF AskedOrTold
<1> QED BY <1>3, <1>4 DEF Thread

-----------------------------------------------------------------------------
(***************************************************************************)
(* What a client does, and what it sends.                                  *)
(***************************************************************************)
LEMMA OthersStay ==
  ASSUME TInv, BindingsStay, CInv, NEW s \in Sessions, Handles(s) \/ UNCHANGED threadVars,
         \A t \in Sessions : t # s => UNCHANGED <<cpc[t], cur[t], m_syms[t], m_func[t]>>
  PROVE  \A t \in Sessions : t # s => ClientInv(t)'
<1> SUFFICES ASSUME NEW t \in Sessions, t # s PROVE ClientInv(t)'
  OBVIOUS
<1>1. UNCHANGED <<pc[t], arg[t], reply[t]>>
  BY HandlesAlone DEF threadVars
<1> QED BY <1>1, ClientStays DEF CInv

\* The body a client sends is one of Bodies, about ids the server has given.
LEMMA BodySent ==
  ASSUME BindingInv, CInv, up, NEW s \in Sessions, cpc[s] = "in"
  PROVE  /\ m_func[s] \in Bodies /\ m_func[s].id <= max_id
         /\ \A k \in DOMAIN m_func[s].refs : m_func[s].refs[k] <= max_id
         /\ m_func[s].errors + Len(m_func[s].refs) <= MaxRefs
<1> DEFINE f == m_func[s]
<1>1. f \in Collected /\ f.errors \in Nat /\ f.refs \in Seq(Ids)
  BY DEF CInv, ClientTypes, Collected
<1>2. \A id : HasName(id) => id \in Ids /\ id <= max_id
  BY DEF HasName, BindingInv, BoundIdsAllocated
<1>3. HasName(f.id) /\ \A k \in DOMAIN f.refs : HasName(f.refs[k])
  BY DEF CInv, ClientInv, KnowsNames
<1>4. f.errors + Len(f.refs) <= MaxRefs
  BY DEF CInv, ClientInv, BodyFits
<1>5. Len(f.refs) \in 0 .. MaxRefs /\ f.errors \in 0 .. MaxRefs
  BY <1>1, <1>4, IdsFact
<1>6. f.refs \in [1 .. Len(f.refs) -> Ids]
  BY <1>1
<1>7. f \in Bodies
  <2>1. f = [id |-> f.id, errors |-> f.errors, refs |-> f.refs]
    BY <1>1 DEF Collected
  <2>2. f.refs \in UNION {[1 .. k -> Ids] : k \in 0 .. MaxRefs}
    BY <1>5, <1>6
  <2>3. f.id \in Ids
    BY <1>2, <1>3
  <2> QED BY <1>5, <2>1, <2>2, <2>3 DEF Bodies
<1> QED BY <1>2, <1>3, <1>4, <1>7

LEMMA AskKeeps ==
  ASSUME TInv, BindingInv, BindingsStay, CInv, NEW s \in Sessions, NEW n \in Names,
         \/ n \in CStrings /\ FuncStart(s, n)
         \/ AskSym(s, n)
  PROVE  CInv'
<1>1. /\ \/ cpc' = [cpc EXCEPT ![s] = "check_function"]
         \/ cpc' = [cpc EXCEPT ![s] = "check_sym"] /\ cpc[s] = "in" /\ HasRoom(s)
      /\ cur' = [cur EXCEPT ![s] = n] /\ UNCHANGED <<m_syms, m_func>>
      /\ CheckFunction(s, n) \/ CheckSym(s, n)
  BY DEF FuncStart, AskSym, Goto
<1>2. ClientTypes'
  BY <1>1 DEF CInv, ClientTypes, Places
<1>3. Handles(s)
  BY <1>1 DEF Handles
<1>4. \A t \in Sessions : t # s => ClientInv(t)'
  BY <1>1, <1>3, OthersStay DEF CInv, ClientTypes
<1>5. AskedOrTold(s)'
  BY <1>1, CallAsks DEF CInv, ClientTypes
<1>6. KnowsNames(s)'
  <2>1. KnowsNames(s)
    BY DEF CInv, ClientInv
  <2> QED BY <1>1, <2>1, NamesStay DEF KnowsNames, HasName, BoundTo, CInv, ClientTypes
<1>7. BodyFits(s)'
  BY <1>1 DEF BodyFits, HasRoom, CInv, ClientInv, ClientTypes
<1> QED BY <1>2, <1>4, <1>5, <1>6, <1>7 DEF CInv, ClientInv

\* Steps of a client that ask for nothing.
LEMMA OwnStepKeeps ==
  ASSUME TInv, BindingsStay, CInv, NEW s \in Sessions, Handles(s) \/ UNCHANGED threadVars,
         ClientTypes', cpc'[s] \notin Asking,
         \A t \in Sessions : t # s => UNCHANGED <<cpc[t], cur[t], m_syms[t], m_func[t]>>,
         KnowsNames(s)', m_func'[s].errors + Len(m_func'[s].refs) <= MaxRefs
  PROVE  CInv'
<1>1. \A t \in Sessions : t # s => ClientInv(t)'
  BY OthersStay
<1>2. ClientInv(s)'
  BY DEF ClientInv, AskedOrTold, BodyFits, Asking
<1> QED BY <1>1, <1>2 DEF CInv

LEMMA RefsAppended ==
  ASSUME NEW f \in Collected, NEW id \in Ids, f.errors + Len(f.refs) < MaxRefs
  PROVE  LET g == [f EXCEPT !.refs = Append(@, id)]
         IN /\ g \in Collected /\ g.id = f.id
            /\ g.errors + Len(g.refs) <= MaxRefs
            /\ \A k \in DOMAIN g.refs : g.refs[k] = id \/ \E j \in DOMAIN f.refs : g.refs[k] = f.refs[j]
<1> DEFINE g == [f EXCEPT !.refs = Append(@, id)]
<1>1. f.refs \in Seq(Ids) /\ f.errors \in Nat /\ f.id \in Ids \cup {None}
  BY DEF Collected
<1>2. g.refs = Append(f.refs, id) /\ g.errors = f.errors /\ g.id = f.id
  BY DEF Collected
<1>3. /\ Append(f.refs, id) \in Seq(Ids) /\ Len(Append(f.refs, id)) = Len(f.refs) + 1
      /\ \A k \in 1 .. Len(f.refs) : Append(f.refs, id)[k] = f.refs[k]
      /\ Append(f.refs, id)[Len(f.refs) + 1] = id
      /\ DOMAIN f.refs = 1 .. Len(f.refs) /\ Len(f.refs) \in Nat
      /\ DOMAIN Append(f.refs, id) = 1 .. Len(f.refs) + 1
  BY <1>1
<1>4. g \in Collected
  BY <1>1, <1>2, <1>3 DEF Collected
<1>5. g.errors + Len(g.refs) <= MaxRefs
  BY <1>1, <1>2, <1>3, IdsFact
<1>6. \A k \in DOMAIN g.refs : g.refs[k] = id \/ \E j \in DOMAIN f.refs : g.refs[k] = f.refs[j]
  BY <1>2, <1>3
<1> QED BY <1>2, <1>4, <1>5, <1>6

LEMMA EmptyBody ==
  <<>> \in Seq(Ids) /\ DOMAIN <<>> = {} /\ 0 + Len(<<>>) = 0 /\ 0 <= MaxRefs /\ NoBody \in Collected
<1>1. 0 <= MaxRefs
  BY IdsFact
<1>2. <<>> \in Seq(Ids) /\ DOMAIN <<>> = {} /\ Len(<<>>) = 0
  OBVIOUS
<1> QED BY <1>1, <1>2 DEF NoBody, Collected

LEMMA ClientKeeps ==
  ASSUME TInv, BindingInv, BindingsStay, CInv, NEW s \in Sessions, Client(s)
  PROVE  CInv'
<1>1. ClientTypes /\ m_func[s] \in Collected /\ m_syms[s] \in [Names -> Ids \cup {None}]
  BY DEF CInv, ClientTypes
<1>2. KnowsNames(s) /\ AskedOrTold(s) /\ BodyFits(s)
  BY DEF CInv, ClientInv
<1> DEFINE f == m_func[s]
<1>3. f.errors \in Nat /\ f.refs \in Seq(Ids) /\ f.id \in Ids \cup {None} /\ Len(f.refs) \in Nat
  BY <1>1 DEF Collected
<1>4. f.errors + Len(f.refs) <= MaxRefs
  BY <1>2 DEF BodyFits
\* What the client knew has its name still.
<1>5. /\ \A n \in Names : m_syms[s][n] # None => BoundTo(m_syms[s][n], n)
      /\ \A k \in DOMAIN f.refs : HasName(f.refs[k])
      /\ cpc[s] \in {"in", "check_sym"} => HasName(f.id)
  BY <1>2 DEF KnowsNames
<1>6. ASSUME cpc[s] \in Asking, pc[s] = "idle"
      PROVE  cur[s] \in Names /\ BoundTo(reply[s].id, cur[s]) /\ reply[s].id \in Ids
             /\ HasName(reply[s].id)
  BY <1>2, <1>6 DEF AskedOrTold, Asking, BoundTo, HasName
<1>7. ASSUME NEW n \in CStrings, FuncStart(s, n) PROVE CInv'
  BY <1>7, AskKeeps DEF CStrings
<1>8. ASSUME NEW n \in Names, AskSym(s, n) PROVE CInv'
  BY <1>8, AskKeeps
<1>9. ASSUME \/ FuncSkipped(s) \/ FuncSent(s) \/ FuncStopEmpty(s) \/ NewProcess(s)
             \/ cpc[s] = "out" /\ Quit(s) /\ UNCHANGED clientVars
      PROVE  CInv'
  <2>1. /\ cpc' = [cpc EXCEPT ![s] = "out"]
        /\ cur' = cur \/ cur' = [cur EXCEPT ![s] = None]
        /\ m_syms' = m_syms \/ m_syms' = [m_syms EXCEPT ![s] = NoSyms]
        /\ \/ m_func' = m_func \/ m_func' = [m_func EXCEPT ![s].id = None]
           \/ m_func' = [m_func EXCEPT ![s] = NoBody]
        /\ Handles(s) \/ UNCHANGED threadVars
    <3>1. cpc[s] = "out" => cpc = [cpc EXCEPT ![s] = "out"]
      BY <1>1 DEF ClientTypes
    <3> QED
      BY <1>9, <3>1
      DEF FuncSkipped, FuncSent, FuncStopEmpty, NewProcess, Goto, clientVars, vars, Handles
  <2>2. NoSyms \in [Names -> Ids \cup {None}] /\ NoBody \in Collected
    BY DEF NoSyms, NoBody, Collected
  <2>3. ClientTypes'
    <3>1. [f EXCEPT !.id = None] \in Collected
      BY <1>1 DEF Collected
    <3>2. m_func' \in [Sessions -> Collected]
      BY <1>1, <2>1, <2>2, <3>1 DEF ClientTypes
    <3>3. cpc' \in [Sessions -> Places] /\ cur' \in [Sessions -> Names \cup {None}]
          /\ m_syms' \in [Sessions -> [Names -> Ids \cup {None}]]
      BY <1>1, <2>1, <2>2 DEF ClientTypes, Places
    <3> QED BY <3>2, <3>3 DEF ClientTypes
  <2>4. \/ m_func'[s].refs = f.refs /\ m_func'[s].errors = f.errors
        \/ m_func'[s].refs = <<>> /\ m_func'[s].errors = 0
    BY <1>1, <2>1 DEF ClientTypes, Collected, NoBody
  <2>5. m_func'[s].errors + Len(m_func'[s].refs) <= MaxRefs
    BY <1>4, <2>4, EmptyBody
  <2>6. \A n \in Names : m_syms'[s][n] # None => m_syms'[s][n] = m_syms[s][n]
    BY <1>1, <2>1 DEF ClientTypes, NoSyms
  <2>7. \A k \in DOMAIN m_func'[s].refs : k \in DOMAIN f.refs /\ m_func'[s].refs[k] = f.refs[k]
    BY <2>4, EmptyBody
  <2>8. cpc'[s] = "out"
    BY <1>1, <2>1 DEF ClientTypes
  <2>9. KnowsNames(s)'
    BY <1>5, <2>6, <2>7, <2>8, NamesStay DEF KnowsNames, BoundTo, HasName
  <2>10. \A t \in Sessions : t # s => UNCHANGED <<cpc[t], cur[t], m_syms[t], m_func[t]>>
    BY <1>1, <2>1 DEF ClientTypes
  <2> QED BY <2>1, <2>3, <2>5, <2>8, <2>9, <2>10, OwnStepKeeps DEF Asking
<1>10. ASSUME FuncStarted(s) PROVE CInv'
  <2>1. /\ cpc' = [cpc EXCEPT ![s] = "in"] /\ cur' = cur /\ UNCHANGED threadVars
        /\ m_syms' = [m_syms EXCEPT ![s][cur[s]] = reply[s].id]
        /\ m_func' = [m_func EXCEPT ![s] = [NoBody EXCEPT !.id = reply[s].id]]
        /\ cpc[s] \in Asking /\ pc[s] = "idle"
    BY <1>10 DEF FuncStarted, Goto, Answered, vars, Asking
  <2> DEFINE g == [NoBody EXCEPT !.id = reply[s].id]
  <2>2. g \in Collected /\ g.id = reply[s].id /\ g.errors = 0 /\ g.refs = <<>>
    BY <1>6, <2>1, EmptyBody DEF NoBody, Collected
  <2>3. ClientTypes'
    BY <1>1, <1>6, <2>1, <2>2 DEF ClientTypes, Places
  <2>4. /\ cpc'[s] = "in" /\ m_func'[s] = g
        /\ \A n \in Names : m_syms'[s][n] = IF n = cur[s] THEN reply[s].id ELSE m_syms[s][n]
    BY <1>1, <1>6, <2>1, <2>2 DEF ClientTypes
  <2>5. KnowsNames(s)'
    <3>1. \A n \in Names : m_syms'[s][n] # None => BoundTo(m_syms'[s][n], n)
      BY <1>5, <1>6, <2>1, <2>4
    <3>2. DOMAIN m_func'[s].refs = {} /\ HasName(m_func'[s].id)
      BY <1>6, <2>1, <2>2, <2>4, EmptyBody
    <3> QED BY <3>1, <3>2, NamesStay DEF KnowsNames, BoundTo, HasName
  <2>6. m_func'[s].errors + Len(m_func'[s].refs) <= MaxRefs
    BY <2>2, <2>4, EmptyBody
  <2>7. \A t \in Sessions : t # s => UNCHANGED <<cpc[t], cur[t], m_syms[t], m_func[t]>>
    BY <1>1, <2>1 DEF ClientTypes
  <2> QED BY <2>1, <2>3, <2>4, <2>5, <2>6, <2>7, OwnStepKeeps DEF Asking
\* A reference is added, to an id that was known or that the server has answered.
<1>11. ASSUME NEW id \in Ids, HasName(id), AppendRef(s, id), f.errors + Len(f.refs) < MaxRefs,
              cpc[s] \in {"in", "check_sym"}, cpc' = [cpc EXCEPT ![s] = "in"],
              UNCHANGED <<vars, cur>>,
              \/ m_syms' = m_syms
              \/ \E n \in Names : BoundTo(id, n) /\ m_syms' = [m_syms EXCEPT ![s][n] = id]
       PROVE  CInv'
  <2> DEFINE g == [f EXCEPT !.refs = Append(@, id)]
  <2>1. /\ g \in Collected /\ g.id = f.id /\ g.errors + Len(g.refs) <= MaxRefs
        /\ \A k \in DOMAIN g.refs : g.refs[k] = id \/ \E j \in DOMAIN f.refs : g.refs[k] = f.refs[j]
    BY <1>1, <1>11, RefsAppended
  <2>2. m_func' = [m_func EXCEPT ![s] = g]
    BY <1>1, <1>11 DEF AppendRef, ClientTypes
  <2>3. m_syms' \in [Sessions -> [Names -> Ids \cup {None}]]
    BY <1>1, <1>11 DEF ClientTypes
  <2>4. ClientTypes'
    BY <1>1, <1>11, <2>1, <2>2, <2>3 DEF ClientTypes, Places
  <2>5. cpc'[s] = "in" /\ m_func'[s] = g
    BY <1>1, <1>11, <2>2 DEF ClientTypes
  <2>6. \A n \in Names : m_syms'[s][n] # None => BoundTo(m_syms'[s][n], n)
    BY <1>1, <1>5, <1>11 DEF ClientTypes
  <2>7. \A k \in DOMAIN g.refs : HasName(g.refs[k])
    BY <1>5, <1>11, <2>1
  <2>8. HasName(g.id)
    BY <1>5, <1>11, <2>1
  <2>9. KnowsNames(s)'
    BY <2>5, <2>6, <2>7, <2>8, NamesStay DEF KnowsNames, BoundTo, HasName
  <2>10. \A t \in Sessions : t # s => UNCHANGED <<cpc[t], cur[t], m_syms[t], m_func[t]>>
    BY <1>1, <1>11, <2>2 DEF ClientTypes
  <2>11. UNCHANGED threadVars
    BY <1>11 DEF vars
  <2> QED BY <2>1, <2>4, <2>5, <2>9, <2>10, <2>11, OwnStepKeeps DEF Asking
<1>12. ASSUME NEW n \in Names, AddKnown(s, n) PROVE CInv'
  <2>1. HasName(m_syms[s][n]) /\ m_syms[s][n] \in Ids
    BY <1>5, <1>12 DEF AddKnown, BoundTo, HasName
  <2>2. cpc' = [cpc EXCEPT ![s] = "in"]
    BY <1>1, <1>12 DEF AddKnown, ClientTypes
  <2> QED BY <1>11, <1>12, <2>1, <2>2 DEF AddKnown, HasRoom
<1>13. ASSUME AddAsked(s) PROVE CInv'
  <2>1. cpc[s] = "check_sym" /\ pc[s] = "idle"
    BY <1>13 DEF AddAsked, Answered
  <2>2. f.errors + Len(f.refs) < MaxRefs
    BY <1>2, <2>1 DEF BodyFits, HasRoom
  <2> QED BY <1>6, <1>11, <1>13, <2>1, <2>2 DEF AddAsked, Goto, Asking
<1>14. ASSUME ReportError(s) PROVE CInv'
  <2> DEFINE g == [f EXCEPT !.errors = @ + 1]
  <2>1. /\ cpc[s] = "in" /\ f.errors + Len(f.refs) < MaxRefs /\ UNCHANGED <<cpc, cur, m_syms, threadVars>>
        /\ m_func' = [m_func EXCEPT ![s] = g]
    BY <1>1, <1>14 DEF ReportError, HasRoom, vars, ClientTypes
  <2>2. g \in Collected /\ g.id = f.id /\ g.refs = f.refs /\ g.errors = f.errors + 1
    BY <1>1, <1>3 DEF Collected
  <2>3. m_func'[s] = g /\ ClientTypes'
    BY <1>1, <2>1, <2>2 DEF ClientTypes
  <2>4. m_func'[s].errors + Len(m_func'[s].refs) <= MaxRefs
    BY <1>3, <2>1, <2>2, <2>3, IdsFact
  <2>5. KnowsNames(s)'
    BY <1>5, <2>1, <2>2, <2>3, NamesStay DEF KnowsNames, BoundTo, HasName
  <2>6. \A t \in Sessions : t # s => UNCHANGED <<cpc[t], cur[t], m_syms[t], m_func[t]>>
    BY <1>1, <2>1 DEF ClientTypes
  <2> QED BY <2>1, <2>3, <2>4, <2>5, <2>6, OwnStepKeeps DEF Asking
<1>15. ASSUME up, FuncStop(s) PROVE CInv'
  <2>1. /\ cpc[s] = "in" /\ cpc' = [cpc EXCEPT ![s] = "add_func"]
        /\ UNCHANGED <<cur, m_syms, m_func>> /\ AddFunc(s, f)
    BY <1>15 DEF FuncStop, Goto
  <2>2. Handles(s)
    BY <1>15, <2>1, BodySent DEF Handles
  <2>3. ClientTypes' /\ cpc'[s] = "add_func"
    BY <1>1, <2>1 DEF ClientTypes, Places
  <2>4. KnowsNames(s)'
    BY <1>5, <2>1, <2>3, NamesStay DEF KnowsNames, BoundTo, HasName
  <2>5. \A t \in Sessions : t # s => UNCHANGED <<cpc[t], cur[t], m_syms[t], m_func[t]>>
    BY <1>1, <2>1 DEF ClientTypes
  <2> QED BY <1>4, <2>1, <2>2, <2>3, <2>4, <2>5, OwnStepKeeps DEF Asking
<1>16. FuncStop(s) => up
  BY DEF FuncStop, AddFunc, Called
<1> QED
  BY <1>7, <1>8, <1>9, <1>10, <1>12, <1>13, <1>14, <1>15, <1>16 DEF Client

-----------------------------------------------------------------------------
(***************************************************************************)
(* The system: every step is one of the server's, or none of its.          *)
(***************************************************************************)
LEMMA ClientSteps ==
  ASSUME BindingInv, CInv, NEW s \in Sessions, Client(s)
  PROVE  UNCHANGED vars \/ (up /\ UNCHANGED up /\ Request(s))
<1>1. ASSUME NEW n \in CStrings, FuncStart(s, n) PROVE up /\ UNCHANGED up /\ Request(s)
  BY <1>1 DEF FuncStart, CheckFunction, Called, Request
<1>2. ASSUME NEW n \in Names, AskSym(s, n) PROVE up /\ UNCHANGED up /\ Request(s)
  BY <1>2 DEF AskSym, CheckSym, Called, Request
<1>3. CASE FuncStop(s)
  <2>1. up /\ UNCHANGED up /\ cpc[s] = "in" /\ AddFunc(s, m_func[s])
    BY <1>3 DEF FuncStop, AddFunc, Called
  <2> QED BY <2>1, BodySent DEF Request
<1>4. CASE Quit(s)
  BY <1>4 DEF Quit, Called, Request
<1> QED
  BY <1>1, <1>2, <1>3, <1>4
  DEF Client, FuncSkipped, FuncStarted, AddKnown, AddAsked, ReportError, FuncStopEmpty, FuncSent,
      NewProcess

LEMMA ServerSteps ==
  ASSUME BindingInv, CInv, [SystemNext]_systemVars PROVE [Next]_vars
<1>1. ASSUME NEW s \in Sessions, Client(s) PROVE [Next]_vars
  BY <1>1, ClientSteps DEF Next
<1>2. ASSUME NEW s \in Sessions, Thread(s) PROVE Next
  BY <1>2 DEF Next
<1>3. ASSUME Start \/ WriterStep \/ SpuriousWakeup \/ Crash \/ WriterExit PROVE Next
  BY <1>3 DEF Next, Writer
<1>4. CASE UNCHANGED systemVars
  BY <1>4 DEF systemVars
<1> QED BY <1>1, <1>2, <1>3, <1>4 DEF SystemNext

\* The clients are idle, and what the server does is not about them.
LEMMA IdleKeeps ==
  ASSUME BindingsStay, CInv, UNCHANGED <<threadVars, clientVars>> PROVE CInv'
<1>1. UNCHANGED <<cpc, cur, m_syms, m_func, pc, arg, reply>>
  BY DEF threadVars, clientVars
<1>2. ClientTypes'
  BY <1>1 DEF CInv, ClientTypes
<1>3. \A s \in Sessions : ClientInv(s)'
  BY <1>1, ClientStays DEF CInv
<1> QED BY <1>2, <1>3 DEF CInv

LEMMA NobodyConnected ==
  /\ Disconnected => CInv'
  /\ ClientInit => CInv
<1>1. NoSyms \in [Names -> Ids \cup {None}] /\ \A n \in Names : NoSyms[n] = None
  BY DEF NoSyms
<1>2. NoBody \in Collected /\ NoBody.errors + Len(NoBody.refs) <= MaxRefs /\ DOMAIN NoBody.refs = {}
  BY EmptyBody DEF NoBody
<1>3. ASSUME Disconnected PROVE CInv'
  <2>1. /\ cpc' = [s \in Sessions |-> "out"] /\ cur' = [s \in Sessions |-> None]
        /\ m_syms' = [s \in Sessions |-> NoSyms] /\ m_func' = [s \in Sessions |-> NoBody]
    BY <1>3 DEF Disconnected
  <2>2. ClientTypes'
    BY <1>1, <1>2, <2>1 DEF ClientTypes, Places
  <2>3. \A s \in Sessions : ClientInv(s)'
    BY <1>1, <1>2, <2>1 DEF ClientInv, AskedOrTold, KnowsNames, BodyFits, Asking
  <2> QED BY <2>2, <2>3 DEF CInv
<1>4. ASSUME ClientInit PROVE CInv
  <2>1. /\ cpc = [s \in Sessions |-> "out"] /\ cur = [s \in Sessions |-> None]
        /\ m_syms = [s \in Sessions |-> NoSyms] /\ m_func = [s \in Sessions |-> NoBody]
    BY <1>4 DEF ClientInit
  <2>2. ClientTypes
    BY <1>1, <1>2, <2>1 DEF ClientTypes, Places
  <2>3. \A s \in Sessions : ClientInv(s)
    BY <1>1, <1>2, <2>1 DEF ClientInv, AskedOrTold, KnowsNames, BodyFits, Asking
  <2> QED BY <2>2, <2>3 DEF CInv
<1> QED BY <1>3, <1>4

LEMMA StepCInv ==
  TInv /\ BindingInv /\ CInv /\ [SystemNext]_systemVars => CInv'
<1> SUFFICES ASSUME TInv, BindingInv, CInv, [SystemNext]_systemVars PROVE CInv'
  OBVIOUS
<1>1. [Next]_vars
  BY ServerSteps
<1>2. ASSUME up', UNCHANGED up \/ ~up PROVE BindingsStay
  BY <1>1, <1>2, StepBindings DEF Die
<1>3. ASSUME NEW s \in Sessions, Client(s) PROVE CInv'
  <2>1. UNCHANGED vars => BindingsStay
    BY AnswerStays DEF vars, threadVars, dbVars
  <2> QED BY <1>2, <1>3, <2>1, ClientSteps, ClientKeeps
<1>4. ASSUME NEW s \in Sessions, Thread(s), UNCHANGED clientVars PROVE CInv'
  <2>1. up /\ UNCHANGED up
    BY <1>4 DEF Thread, CheckFunctionAgain, CheckSymAgain, Push, Notify, TInv, DownOK
  <2>2. BindingsStay
    BY <1>2, <2>1
  <2>3. UNCHANGED <<cpc, cur, m_syms, m_func>>
    BY <1>4 DEF clientVars
  <2>4. ClientTypes'
    BY <2>3 DEF CInv, ClientTypes
  <2>5. \A t \in Sessions : t # s => ClientInv(t)'
    BY <1>4, <2>2, <2>3, OthersStay DEF Handles
  <2>6. ClientInv(s)'
    <3>1. AskedOrTold(s)'
      BY <1>4, <2>2, <2>3, ThreadTells DEF CInv, ClientInv
    <3>2. KnowsNames(s)' /\ BodyFits(s)'
      BY <2>2, <2>3, KnowledgeStays DEF CInv, ClientInv
    <3> QED BY <3>1, <3>2 DEF ClientInv
  <2> QED BY <2>4, <2>5, <2>6 DEF CInv
<1>5. ASSUME Start \/ WriterStep \/ SpuriousWakeup, UNCHANGED clientVars PROVE CInv'
  <2>1. up' /\ (UNCHANGED up \/ ~up) /\ UNCHANGED threadVars
    BY <1>5
    DEF Start, WriterStep, WriterTest, WriterSleep, WriterApply, WriterRelock, SpuriousWakeup,
        TInv, DownOK
  <2> QED BY <1>2, <1>5, <2>1, IdleKeeps
<1>6. CASE UNCHANGED systemVars
  <2>1. UNCHANGED threadVars /\ UNCHANGED clientVars /\ BindingsStay
    BY <1>6, AnswerStays DEF systemVars, vars, threadVars, dbVars
  <2> QED BY <2>1, IdleKeeps
<1> QED
  BY <1>3, <1>4, <1>5, <1>6, NobodyConnected DEF SystemNext

LEMMA SystemInv ==
  SystemSpec => [](TInv /\ BindingInv /\ CInv)
<1>1. Init /\ ClientInit => TInv /\ BindingInv /\ CInv
  BY InitTInv, InitBindingInv, NobodyConnected
<1>2. TInv /\ BindingInv /\ CInv /\ [SystemNext]_systemVars => (TInv /\ BindingInv /\ CInv)'
  BY ServerSteps, StepTInv, StepBindingInv, StepCInv
<1> QED BY <1>1, <1>2, PTL DEF SystemSpec

\* The plugins are clients as SymrefServer allows them: whatever they send, it is
\* one of the requests the server is specified for, about ids it has given out.  So
\* every theorem about Spec holds of the server with these clients.
THEOREM ClientsUseServer == SystemSpec => Spec
<1>1. BindingInv /\ CInv /\ [SystemNext]_systemVars => [Next]_vars
  BY ServerSteps
<1> QED BY <1>1, SystemInv, PTL DEF SystemSpec, Spec

\* No plugin holds an id for a name that the server has not bound to that name, or
\* to one with the same C string: pers_rpc::m_syms never outlives what it was
\* answered from, whatever a crash of the server loses.
THEOREM ClientIdsCorrect == SystemSpec => []ClientIdsCurrent
<1>1. CInv => ClientIdsCurrent
  BY DEF CInv, ClientInv, KnowsNames, BoundTo, ClientIdsCurrent
<1> QED BY <1>1, SystemInv, PTL

-----------------------------------------------------------------------------
(***************************************************************************)
(* What is on its way to the table.                                        *)
(***************************************************************************)
\* The statement queued at k finds a row of the id: it is stored, or queued before.
RowBy(k, i) ==
  symtab[i] # NoRow \/ \E l \in DOMAIN m_q : l < k /\ m_q[l].op = "insert_sym" /\ m_q[l].id = i

RowComing(i) ==
  symtab[i] # NoRow \/ \E l \in DOMAIN m_q : m_q[l].op = "insert_sym" /\ m_q[l].id = i

MarkComing(i) ==
  symtab[i].fname \/ \E k \in DOMAIN m_q : m_q[k] = UpdateFname(i) /\ RowBy(k, i)

\* ... and so it does for the id, before the statement queued at k.
MarkedBy(k, i) ==
  symtab[i].fname \/ \E j \in DOMAIN m_q : j < k /\ m_q[j] = UpdateFname(i) /\ RowBy(j, i)

MarkInHand(t, i) == Has(todo[t], UpdateFname(i)) /\ RowComing(i)

\* A function that counts as processed is marked in the table, or the statement that
\* marks it is on its way and does not overtake the row.
MarkInv ==
  \A i \in m_funcs \ rowless : MarkComing(i) \/ \E t \in Sessions : MarkInHand(t, i)

NoRefs(q) == \A k \in DOMAIN q : q[k].op # "insert_xref"

\* Nothing reaches the queue or the tables; a handler gets work only if it had none,
\* and none of it stores a reference.
Calm ==
  /\ UNCHANGED <<up, m_q, m_funcs, rowless, symtab, xrefs>>
  /\ max_id' \in Nat /\ max_id <= max_id'
  /\ \A t \in Sessions : todo'[t] = todo[t] \/ (todo[t] = <<>> /\ NoRefs(todo'[t]))

LEMMA AnswerCalm ==
  ASSUME TInv, NEW s \in Sessions, pc[s] # "push",
         UNCHANGED <<up, m_q, m_funcs, rowless, symtab, xrefs>>,
         max_id' = max_id \/ max_id' = max_id + 1,
         \/ UNCHANGED todo
         \/ \E id, skip : Answer(s, id, skip)
         \/ \E id, closures : AnswerAfter(s, id, closures) /\ NoRefs(closures)
         \/ \E at, n : Retry(s, at, n)
  PROVE  Calm
<1>1. todo[s] = <<>> /\ todo \in [Sessions -> Seq(Closures)] /\ max_id \in Nat
  BY BoundsAssumption DEF TInv, ThreadsOK, TypeOK
<1>2. max_id' \in Nat /\ max_id <= max_id'
  BY <1>1
<1>3. CASE \E id, closures : AnswerAfter(s, id, closures) /\ NoRefs(closures)
  BY <1>1, <1>2, <1>3 DEF Calm, AnswerAfter
<1>4. CASE UNCHANGED todo
  BY <1>2, <1>4 DEF Calm
<1> QED BY <1>3, <1>4 DEF Answer, Retry

LEMMA AllocatedRow == ASSUME NEW i, NEW n PROVE NoRefs(<<InsertSym(i, n)>>)
  BY DEF NoRefs, InsertSym

LEMMA DeletedRows == ASSUME NEW i PROVE NoRefs(<<DelXrefs(i), DelErrs(i)>>)
  BY DEF NoRefs, DelXrefs, DelErrs

LEMMA SystemSteps ==
  ASSUME TInv, [SystemNext]_systemVars
  PROVE  \/ Start /\ UNCHANGED clientVars
         \/ Die /\ Disconnected
         \/ \E s \in Sessions : Push(s) /\ UNCHANGED clientVars
         \/ WriterApply /\ UNCHANGED clientVars
         \/ \E s \in Sessions : FuncStop(s)
         \/ Calm
<1>1. ASSUME NEW s \in Sessions, NEW n \in Names, CheckFunction(s, n), UNCHANGED rowless PROVE Calm
  <2>1. pc[s] # "push" /\ UNCHANGED <<up, m_q, m_funcs, rowless, symtab, xrefs, max_id>>
    BY <1>1 DEF CheckFunction, Called, cacheVars, dbVars
  <2>2. \/ \E id, skip : Answer(s, id, skip)
        \/ \E id, closures : AnswerAfter(s, id, closures) /\ NoRefs(closures)
        \/ \E at, m : Retry(s, at, m)
    BY <1>1, DeletedRows DEF CheckFunction
  <2> QED BY <2>1, <2>2, AnswerCalm
<1>2. ASSUME NEW s \in Sessions, NEW n \in Names, CheckSym(s, n), UNCHANGED rowless PROVE Calm
  <2>1. pc[s] # "push" /\ UNCHANGED <<up, m_q, m_funcs, rowless, symtab, xrefs, max_id>>
    BY <1>2 DEF CheckSym, Called, cacheVars, dbVars
  <2>2. \/ \E id, skip : Answer(s, id, skip)
        \/ \E at, m : Retry(s, at, m)
    BY <1>2 DEF CheckSym
  <2> QED BY <2>1, <2>2, AnswerCalm
<1>3. ASSUME NEW s \in Sessions, CheckFunctionAgain(s) \/ CheckSymAgain(s), UNCHANGED rowless
      PROVE  Calm
  <2>1. /\ pc[s] # "push" /\ UNCHANGED <<up, m_q, m_funcs, rowless, symtab, xrefs>>
        /\ max_id' = max_id \/ max_id' = max_id + 1
    BY <1>3 DEF CheckFunctionAgain, CheckSymAgain, Allocate, cacheVars, dbVars
  <2>2. \/ \E id, skip : Answer(s, id, skip)
        \/ \E id, closures : AnswerAfter(s, id, closures) /\ NoRefs(closures)
    BY <1>3, AllocatedRow DEF CheckFunctionAgain, CheckSymAgain, Allocate
  <2> QED BY <2>1, <2>2, AnswerCalm
<1>4. UNCHANGED <<up, max_id, m_q, m_funcs, rowless, symtab, xrefs, todo>> => Calm
  <2>1. max_id \in Nat /\ max_id <= max_id
    BY BoundsAssumption DEF TInv, TypeOK
  <2> QED BY <2>1 DEF Calm
<1>5. ASSUME NEW s \in Sessions, Quit(s) \/ Notify(s), UNCHANGED rowless PROVE Calm
  BY <1>4, <1>5 DEF Quit, Notify, cacheVars, dbVars
<1>6. ASSUME WriterTest \/ WriterSleep \/ WriterRelock \/ SpuriousWakeup, UNCHANGED rowless
      PROVE  Calm
  BY <1>4, <1>6
  DEF WriterTest, WriterSleep, WriterRelock, SpuriousWakeup, cacheVars, dbVars, threadVars
<1>7. UNCHANGED vars /\ UNCHANGED rowless => Calm
  BY <1>4 DEF vars, cacheVars, dbVars, threadVars
<1>8. ASSUME NEW s \in Sessions, Client(s) PROVE FuncStop(s) \/ Calm
  <2>1. ASSUME NEW n \in CStrings, FuncStart(s, n) PROVE Calm
    BY <1>1, <2>1 DEF FuncStart, Enter, CStrings
  <2>2. ASSUME NEW n \in Names, AddKnown(s, n) PROVE Calm
    BY <1>7, <2>2 DEF AddKnown, historyVars
  <2>3. ASSUME NEW n \in Names, AskSym(s, n) PROVE Calm
    BY <1>2, <2>3 DEF AskSym, historyVars
  <2>4. ASSUME FuncSkipped(s) \/ FuncStarted(s) \/ AddAsked(s) \/ ReportError(s)
        PROVE  Calm
    BY <1>7, <2>4 DEF FuncSkipped, FuncStarted, AddAsked, ReportError, Leave, historyVars
  <2>5. ASSUME FuncStopEmpty(s) \/ FuncSent(s) \/ NewProcess(s) PROVE Calm
    BY <1>7, <2>5 DEF FuncStopEmpty, FuncSent, NewProcess, Leave, historyVars
  <2>6. ASSUME Quit(s), UNCHANGED clientVars PROVE Calm
    BY <1>5, <2>6 DEF clientVars, historyVars
  <2> QED BY <1>8, <2>1, <2>2, <2>3, <2>4, <2>5, <2>6 DEF Client
<1>9. UNCHANGED clientVars => UNCHANGED rowless
  BY DEF clientVars, historyVars
<1>10. UNCHANGED systemVars => Calm
  BY <1>7, <1>9 DEF systemVars
<1> QED
  BY <1>3, <1>5, <1>6, <1>8, <1>9, <1>10
  DEF SystemNext, Thread, WriterStep, WriterExit, Crash

LEMMA CalmMarks == ASSUME TInv, MarkInv, Calm PROVE MarkInv'
<1>1. \A i : (RowComing(i)' <=> RowComing(i)) /\ (MarkComing(i)' <=> MarkComing(i))
  BY DEF RowComing, MarkComing, RowBy, Calm
<1>2. \A t \in Sessions, i \in Ids : MarkInHand(t, i) => MarkInHand(t, i)'
  BY <1>1 DEF MarkInHand, Calm, Has
<1>3. m_funcs \subseteq Ids /\ UNCHANGED <<m_funcs, rowless>>
  BY DEF TInv, TypeOK, Calm
<1> QED BY <1>1, <1>2, <1>3 DEF MarkInv

\* The queue grows at its end.
LEMMA PushComing ==
  ASSUME TInv, NEW s \in Sessions, Push(s)
  PROVE  /\ \A k \in DOMAIN m_q : k \in DOMAIN m_q' /\ m_q'[k] = m_q[k]
         /\ \A i, k : RowBy(k, i) => RowBy(k, i)'
         /\ \A i : RowComing(i) => RowComing(i)'
         /\ \A i : MarkComing(i) => MarkComing(i)'
         /\ \E last \in DOMAIN m_q' :
              /\ m_q'[last] = Head(todo[s]) /\ DOMAIN m_q' = DOMAIN m_q \cup {last}
              /\ \A k \in DOMAIN m_q : k < last
              /\ \A i : RowComing(i) => RowBy(last, i)'
<1> DEFINE c == Head(todo[s])
<1>1. /\ m_q \in Seq(Closures) /\ todo \in [Sessions -> Seq(Closures)] /\ todo[s] # <<>>
      /\ m_funcs \subseteq Ids
  BY DEF TInv, TypeOK, ThreadsOK, Push
<1>2. /\ m_q' = Append(m_q, c) /\ todo' = [todo EXCEPT ![s] = Tail(todo[s])]
      /\ UNCHANGED symtab /\ c \in Closures
  BY <1>1, TailFact DEF Push, dbVars
<1>3. /\ DOMAIN m_q = 1 .. Len(m_q) /\ DOMAIN m_q' = 1 .. Len(m_q) + 1 /\ Len(m_q) \in Nat
      /\ \A k \in DOMAIN m_q : m_q'[k] = m_q[k]
      /\ m_q'[Len(m_q) + 1] = c
  BY <1>1, <1>2
<1> HIDE DEF c
<1>0. PICK last \in DOMAIN m_q' : last = Len(m_q) + 1 /\ m_q'[last] = c
  BY <1>3
<1>4. \A i : RowComing(i) => RowComing(i)' /\ RowBy(last, i)'
  BY <1>0, <1>2, <1>3 DEF RowComing, RowBy
<1>5. \A i, k : RowBy(k, i) => RowBy(k, i)'
  BY <1>2, <1>3 DEF RowBy
<1>6. \A i : MarkComing(i) => MarkComing(i)'
  BY <1>2, <1>3, <1>5 DEF MarkComing
<1>7. DOMAIN m_q' = DOMAIN m_q \cup {last} /\ \A k \in DOMAIN m_q : k < last
  BY <1>0, <1>3
<1> QED BY <1>0, <1>3, <1>4, <1>5, <1>6, <1>7 DEF c

LEMMA PushMarks == ASSUME TInv, MarkInv, NEW s \in Sessions, Push(s), UNCHANGED rowless PROVE MarkInv'
<1> DEFINE c == Head(todo[s])
<1>1. /\ todo \in [Sessions -> Seq(Closures)] /\ todo[s] # <<>> /\ m_funcs \subseteq Ids
      /\ todo' = [todo EXCEPT ![s] = Tail(todo[s])] /\ UNCHANGED <<m_funcs, rowless>>
  BY DEF TInv, TypeOK, ThreadsOK, Push, cacheVars
<1> HIDE DEF c
<1>2. PICK last \in DOMAIN m_q' :
        m_q'[last] = c /\ \A i : RowComing(i) => RowComing(i)' /\ RowBy(last, i)'
  BY PushComing DEF c
<1>6. \A i : MarkComing(i) => MarkComing(i)'
  BY PushComing
<1>7. \A t \in Sessions, i \in Ids : MarkInHand(t, i) => MarkInHand(t, i)' \/ MarkComing(i)'
  <2> SUFFICES ASSUME NEW t \in Sessions, NEW i \in Ids, MarkInHand(t, i)
               PROVE  MarkInHand(t, i)' \/ MarkComing(i)'
    OBVIOUS
  <2>1. RowComing(i)' /\ RowBy(last, i)'
    BY <1>2 DEF MarkInHand
  <2>2. CASE Has(todo'[t], UpdateFname(i))
    BY <2>1, <2>2 DEF MarkInHand
  <2>3. CASE t = s /\ c = UpdateFname(i)
    BY <1>2, <2>1, <2>3 DEF MarkComing
  <2>4. t # s => todo'[t] = todo[t]
    BY <1>1
  <2>5. Has(todo[s], UpdateFname(i)) => c = UpdateFname(i) \/ Has(Tail(todo[s]), UpdateFname(i))
    BY <1>1, HasHeadTail DEF c
  <2>6. todo'[s] = Tail(todo[s])
    BY <1>1
  <2> QED BY <2>2, <2>3, <2>4, <2>5, <2>6 DEF MarkInHand
<1> QED BY <1>1, <1>6, <1>7 DEF MarkInv

\* A row that is there stays, and the mark of a row too.
LEMMA ApplyComing ==
  ASSUME TInv, WriterApply
  PROVE  /\ \A k \in DOMAIN m_q' : k + 1 \in DOMAIN m_q /\ m_q'[k] = m_q[k + 1]
         /\ \A i \in Ids : symtab[i].fname => symtab'[i].fname
         /\ \A i \in Ids : RowComing(i) => RowComing(i)'
         /\ \A i \in Ids : MarkComing(i) => MarkComing(i)'
         /\ \A i \in Ids : \A k \in DOMAIN m_q' : MarkedBy(k + 1, i) => MarkedBy(k, i)'
<1> DEFINE c == Head(m_q)
<1>1. /\ m_q \in Seq(Closures) /\ m_q # <<>> /\ symtab \in [Ids -> Row \cup {NoRow}]
      /\ m_funcs \subseteq Ids
  BY DEF TInv, TypeOK, WriterApply
<1>2. /\ m_q' = Tail(m_q) /\ UNCHANGED todo /\ Execute(c) /\ c \in Closures
  BY <1>1, TailFact DEF WriterApply, threadVars
<1>3. /\ DOMAIN m_q = 1 .. Len(m_q) /\ DOMAIN m_q' = 1 .. Len(m_q) - 1 /\ Len(m_q) \in Nat
      /\ \A k \in 1 .. Len(m_q) - 1 : m_q'[k] = m_q[k + 1]
      /\ m_q[1] = c
  BY <1>1, <1>2
<1> HIDE DEF c
<1>4. \A k \in DOMAIN m_q : k = 1 \/ (k - 1 \in DOMAIN m_q' /\ m_q'[k - 1] = m_q[k])
  BY <1>3
<1>5. c.id \in Ids
  BY <1>2 DEF Closures
<1>6. ASSUME NEW i \in Ids
      PROVE  /\ symtab[i] # NoRow => symtab'[i] # NoRow
             /\ c.op = "insert_sym" /\ c.id = i => symtab'[i] # NoRow
             /\ symtab[i].fname => symtab'[i].fname
             /\ c = UpdateFname(i) /\ symtab[i] # NoRow => symtab'[i].fname
  <2>1. symtab[i] \in Row \/ symtab[i] = NoRow
    BY <1>1
  <2>2. NoRow.fname = FALSE /\ \A r \in Row : r # NoRow /\ [r EXCEPT !.fname = TRUE] \in Row
    <3>1. \A r \in Row : r.name # None /\ [r EXCEPT !.fname = TRUE] \in Row
      BY NamesAssumption DEF Row
    <3> QED BY <3>1 DEF NoRow
  <2>3. CASE c.op = "insert_sym" /\ symtab[c.id] = NoRow
    <3>1. symtab' = [symtab EXCEPT ![c.id] = [name |-> c.name, fname |-> FALSE]]
      BY <1>2, <2>3 DEF Execute
    <3>2. c.name \in Names
      BY <1>2, <2>3 DEF Closures
    <3>3. [name |-> c.name, fname |-> FALSE] # NoRow
      BY <3>2, NamesAssumption DEF NoRow
    <3>4. c # UpdateFname(i)
      BY <2>3 DEF UpdateFname
    <3> QED BY <1>1, <1>5, <2>2, <2>3, <3>1, <3>3, <3>4
  <2>4. CASE c.op = "update_fname" /\ symtab[c.id] # NoRow
    <3>1. symtab' = [symtab EXCEPT ![c.id].fname = TRUE]
      BY <1>2, <2>4 DEF Execute
    <3>2. symtab[c.id] \in Row
      BY <1>1, <1>5, <2>4
    <3>3. symtab'[c.id] # NoRow /\ symtab'[c.id].fname
      BY <1>1, <1>5, <2>2, <3>1, <3>2 DEF Row
    <3>4. c = UpdateFname(i) => c.id = i
      BY DEF UpdateFname
    <3> QED BY <1>1, <1>5, <2>4, <3>1, <3>3, <3>4
  <2>5. CASE ~(c.op = "insert_sym" /\ symtab[c.id] = NoRow) /\ ~(c.op = "update_fname" /\ symtab[c.id] # NoRow)
    <3>1. symtab' = symtab
      BY <1>2, <2>5 DEF Execute
    <3>2. c = UpdateFname(i) => c.id = i /\ c.op = "update_fname"
      BY DEF UpdateFname
    <3> QED BY <2>5, <3>1, <3>2
  <2> QED BY <2>3, <2>4, <2>5
<1>7. \A i \in Ids : RowComing(i) => RowComing(i)'
  BY <1>3, <1>4, <1>6 DEF RowComing
<1>8. \A i \in Ids : \A k \in DOMAIN m_q : RowBy(k, i) => (k = 1 /\ symtab[i] # NoRow) \/ RowBy(k - 1, i)'
  <2> SUFFICES ASSUME NEW i \in Ids, NEW k \in DOMAIN m_q, RowBy(k, i)
               PROVE  (k = 1 /\ symtab[i] # NoRow) \/ RowBy(k - 1, i)'
    OBVIOUS
  <2>1. CASE symtab[i] # NoRow
    BY <1>6, <2>1 DEF RowBy
  <2>2. CASE symtab[i] = NoRow
    <3>1. PICK l \in DOMAIN m_q : l < k /\ m_q[l].op = "insert_sym" /\ m_q[l].id = i
      BY <2>2 DEF RowBy
    <3>2. CASE l = 1
      BY <1>3, <1>6, <3>1, <3>2 DEF RowBy
    <3>3. CASE l # 1
      <4>1. l - 1 \in DOMAIN m_q' /\ m_q'[l - 1] = m_q[l] /\ l - 1 < k - 1
        BY <1>3, <1>4, <3>1, <3>3
      <4> QED BY <3>1, <4>1 DEF RowBy
    <3> QED BY <3>2, <3>3
  <2> QED BY <2>1, <2>2
<1>9. \A i \in Ids : MarkComing(i) => MarkComing(i)'
  <2> SUFFICES ASSUME NEW i \in Ids, MarkComing(i) PROVE MarkComing(i)'
    OBVIOUS
  <2>1. CASE symtab[i].fname
    BY <1>6, <2>1 DEF MarkComing
  <2>2. ASSUME NEW k \in DOMAIN m_q, m_q[k] = UpdateFname(i), RowBy(k, i) PROVE MarkComing(i)'
    <3>1. CASE k = 1
      <4>1. symtab[i] # NoRow
        BY <1>3, <2>2, <3>1 DEF RowBy
      <4> QED BY <1>3, <1>6, <2>2, <3>1, <4>1 DEF MarkComing
    <3>2. CASE k # 1
      BY <1>4, <1>8, <2>2, <3>2 DEF MarkComing
    <3> QED BY <3>1, <3>2
  <2> QED BY <2>1, <2>2 DEF MarkComing
<1>10. \A i \in Ids : \A k \in DOMAIN m_q' : MarkedBy(k + 1, i) => MarkedBy(k, i)'
  <2> SUFFICES ASSUME NEW i \in Ids, NEW k \in DOMAIN m_q', MarkedBy(k + 1, i) PROVE MarkedBy(k, i)'
    OBVIOUS
  <2>1. CASE symtab[i].fname
    BY <1>6, <2>1 DEF MarkedBy
  <2>2. ASSUME NEW j \in DOMAIN m_q, j < k + 1, m_q[j] = UpdateFname(i), RowBy(j, i) PROVE MarkedBy(k, i)'
    <3>1. CASE j = 1
      <4>1. symtab[i] # NoRow
        BY <1>3, <2>2, <3>1 DEF RowBy
      <4> QED BY <1>3, <1>6, <2>2, <3>1, <4>1 DEF MarkedBy
    <3>2. CASE j # 1
      <4>1. j - 1 \in DOMAIN m_q' /\ m_q'[j - 1] = m_q[j] /\ j - 1 < k
        BY <1>3, <1>4, <2>2, <3>2
      <4>2. RowBy(j - 1, i)'
        BY <1>8, <2>2, <3>2
      <4> QED BY <2>2, <4>1, <4>2 DEF MarkedBy
    <3> QED BY <3>1, <3>2
  <2> QED BY <2>1, <2>2 DEF MarkedBy
<1>11. \A k \in DOMAIN m_q' : k + 1 \in DOMAIN m_q /\ m_q'[k] = m_q[k + 1]
  BY <1>3
<1> QED BY <1>6, <1>7, <1>9, <1>10, <1>11

LEMMA ApplyMarks == ASSUME TInv, MarkInv, WriterApply, UNCHANGED rowless PROVE MarkInv'
<1>1. m_funcs \subseteq Ids /\ UNCHANGED <<m_funcs, rowless, todo>>
  BY DEF TInv, TypeOK, WriterApply, cacheVars, threadVars
<1>2. \A t \in Sessions, i \in Ids : MarkInHand(t, i) => MarkInHand(t, i)'
  BY <1>1, ApplyComing DEF MarkInHand
<1> QED BY <1>1, <1>2, ApplyComing DEF MarkInv

LEMMA SequenceParts ==
  ASSUME NEW S, NEW q \in Seq(S), NEW r \in Seq(S)
  PROVE  /\ q \o r \in Seq(S) /\ Len(q) \in Nat /\ Len(r) \in Nat /\ Len(q \o r) = Len(q) + Len(r)
         /\ \A k \in 1 .. Len(q) : (q \o r)[k] = q[k]
         /\ \A k \in 1 .. Len(r) : (q \o r)[Len(q) + k] = r[k]
  OBVIOUS

\* The statements of a body, one by one.
LEMMA BodyShape ==
  ASSUME NEW f \in Bodies
  PROVE  /\ f.errors \in Nat /\ Len(f.refs) \in Nat /\ f.id \in Ids /\ f.refs \in Seq(Ids)
         /\ BodyClosures(f) \in Seq(Closures)
         /\ Len(BodyClosures(f)) = 1 + f.errors + Len(f.refs)
         /\ BodyClosures(f)[1] = UpdateFname(f.id)
         /\ \A k \in 1 .. f.errors : BodyClosures(f)[1 + k] = InsertErr(f.id)
         /\ \A k \in 1 .. Len(f.refs) :
              BodyClosures(f)[1 + f.errors + k] = InsertXref(f.id, f.refs[k])
<1> DEFINE a == <<UpdateFname(f.id)>>
           b == [i \in 1 .. f.errors |-> InsertErr(f.id)]
           c == [i \in 1 .. Len(f.refs) |-> InsertXref(f.id, f.refs[i])]
<1>1. f.id \in Ids /\ f.errors \in Nat /\ f.refs \in Seq(Ids) /\ Len(f.refs) \in Nat
  BY IdsFact DEF Bodies
<1>2. \A i \in 1 .. Len(f.refs) : InsertXref(f.id, f.refs[i]) \in Closures
  BY <1>1, ClosureTypes
<1>3. /\ a \in Seq(Closures) /\ Len(a) = 1 /\ a[1] = UpdateFname(f.id)
      /\ b \in Seq(Closures) /\ Len(b) = f.errors /\ \A k \in 1 .. f.errors : b[k] = InsertErr(f.id)
      /\ c \in Seq(Closures) /\ Len(c) = Len(f.refs)
      /\ \A k \in 1 .. Len(f.refs) : c[k] = InsertXref(f.id, f.refs[k])
  BY <1>1, <1>2, ClosureTypes
<1> HIDE DEF a, b, c
<1>4. /\ a \o b \in Seq(Closures) /\ Len(a \o b) = 1 + f.errors
      /\ (a \o b)[1] = a[1] /\ \A k \in 1 .. f.errors : (a \o b)[1 + k] = b[k]
  <2>1. /\ a \o b \in Seq(Closures) /\ Len(a \o b) = Len(a) + Len(b)
        /\ \A k \in 1 .. Len(a) : (a \o b)[k] = a[k]
        /\ \A k \in 1 .. Len(b) : (a \o b)[Len(a) + k] = b[k]
    <3>1. a \in Seq(Closures) /\ b \in Seq(Closures)
      BY <1>3
    <3> QED BY <3>1, SequenceParts
  <2>2. 1 \in 1 .. Len(a)
    BY <1>3
  <2> QED BY <1>3, <2>1, <2>2
<1>5. /\ a \o b \o c \in Seq(Closures) /\ Len(a \o b \o c) = 1 + f.errors + Len(f.refs)
      /\ \A k \in 1 .. 1 + f.errors : (a \o b \o c)[k] = (a \o b)[k]
      /\ \A k \in 1 .. Len(f.refs) : (a \o b \o c)[1 + f.errors + k] = c[k]
  <2> DEFINE d == a \o b
  <2>1. d \in Seq(Closures) /\ c \in Seq(Closures)
    BY <1>3, <1>4
  <2> HIDE DEF d
  <2>2. /\ d \o c \in Seq(Closures) /\ Len(d \o c) = Len(d) + Len(c)
        /\ \A k \in 1 .. Len(d) : (d \o c)[k] = d[k]
        /\ \A k \in 1 .. Len(c) : (d \o c)[Len(d) + k] = c[k]
    BY <2>1, SequenceParts
  <2>3. Len(d) = 1 + f.errors /\ Len(c) = Len(f.refs)
    BY <1>3, <1>4 DEF d
  <2>4. d \o c = a \o b \o c
    BY DEF d
  <2> QED BY <2>2, <2>3, <2>4 DEF d
<1>6. BodyClosures(f) = a \o b \o c
  BY DEF BodyClosures, a, b, c
<1>7. 1 \in 1 .. 1 + f.errors /\ \A k \in 1 .. f.errors : 1 + k \in 1 .. 1 + f.errors
  BY <1>1
<1>8. /\ (a \o b \o c)[1] = UpdateFname(f.id)
      /\ \A k \in 1 .. f.errors : (a \o b \o c)[1 + k] = InsertErr(f.id)
      /\ \A k \in 1 .. Len(f.refs) : (a \o b \o c)[1 + f.errors + k] = InsertXref(f.id, f.refs[k])
  <2>1. (a \o b \o c)[1] = UpdateFname(f.id)
    BY <1>3, <1>4, <1>5, <1>7
  <2>2. \A k \in 1 .. f.errors : (a \o b \o c)[1 + k] = InsertErr(f.id)
    BY <1>3, <1>4, <1>5, <1>7
  <2>3. \A k \in 1 .. Len(f.refs) : (a \o b \o c)[1 + f.errors + k] = InsertXref(f.id, f.refs[k])
    BY <1>3, <1>5
  <2> QED BY <2>1, <2>2, <2>3
<1> QED BY <1>1, <1>5, <1>6, <1>8

\* The references of a body are its function's, and come after the mark.
LEMMA BodyParts ==
  ASSUME NEW f \in Bodies
  PROVE  \A k \in DOMAIN BodyClosures(f) :
           /\ BodyClosures(f)[k].op = "insert_xref" => BodyClosures(f)[k].id = f.id /\ 1 < k
           /\ BodyClosures(f)[k].op # "del_xrefs"
<1> DEFINE r == BodyClosures(f)
<1>1. \A k \in DOMAIN r : r[k].op # "del_xrefs"
  BY BodyType
<1>2. /\ f.errors \in Nat /\ Len(f.refs) \in Nat /\ DOMAIN r = 1 .. Len(r)
      /\ Len(r) = 1 + f.errors + Len(f.refs) /\ r[1] = UpdateFname(f.id)
      /\ \A k \in 1 .. f.errors : r[1 + k] = InsertErr(f.id)
      /\ \A k \in 1 .. Len(f.refs) : r[1 + f.errors + k] = InsertXref(f.id, f.refs[k])
  BY BodyShape
<1> HIDE DEF r
<1>3. ASSUME NEW k \in DOMAIN r, r[k].op = "insert_xref" PROVE r[k].id = f.id /\ 1 < k
  <2>1. k # 1
    BY <1>2, <1>3 DEF UpdateFname
  <2>2. 1 < k
    BY <1>2, <2>1
  <2>3. ~(k - 1 \in 1 .. f.errors)
    <3> SUFFICES ASSUME k - 1 \in 1 .. f.errors PROVE FALSE
      OBVIOUS
    <3>1. 1 + (k - 1) = k
      BY <1>2
    <3>2. r[k] = InsertErr(f.id)
      BY <1>2, <3>1
    <3> QED BY <1>3, <3>2 DEF InsertErr
  <2>4. k - (1 + f.errors) \in 1 .. Len(f.refs) /\ 1 + f.errors + (k - (1 + f.errors)) = k
    BY <1>2, <2>1, <2>3
  <2>5. r[k] = InsertXref(f.id, f.refs[k - (1 + f.errors)])
    BY <1>2, <2>4
  <2> QED BY <2>2, <2>5 DEF InsertXref
<1> QED BY <1>1, <1>3 DEF r

LEMMA MarkIsFirst == ASSUME NEW f \in Bodies PROVE Has(BodyClosures(f), UpdateFname(f.id))
<1>1. DOMAIN BodyClosures(f) = 1 .. Len(BodyClosures(f))
  BY BodyShape
<1>2. 1 \in 1 .. Len(BodyClosures(f))
  BY BodyShape
<1> QED BY <1>1, <1>2, BodyShape DEF Has

LEMMA StopMarks ==
  ASSUME TInv, BindingInv, CInv, MarkInv, NEW s \in Sessions, FuncStop(s) PROVE MarkInv'
<1> DEFINE f == m_func[s]
<1>1. up /\ pc[s] = "idle" /\ cpc[s] = "in" /\ AddFunc(s, f)
  BY DEF FuncStop, AddFunc, Called
<1>2. f \in Bodies /\ f.id \in Ids /\ HasName(f.id)
  BY <1>1, BodySent DEF CInv, ClientInv, KnowsNames, HasName
<1>3. /\ m_funcs' = m_funcs \cup {f.id} /\ todo' = [todo EXCEPT ![s] = BodyClosures(f)]
      /\ UNCHANGED <<m_q, symtab>>
      /\ rowless' = rowless \cup (IF RowInHand(f.id) THEN {f.id} ELSE {})
  BY <1>1 DEF AddFunc, AnswerAfter, FuncStop, dbVars
<1>4. todo \in [Sessions -> Seq(Closures)] /\ todo[s] = <<>> /\ m_funcs \subseteq Ids
  BY <1>1 DEF TInv, TypeOK, ThreadsOK
<1> HIDE DEF f
<1>5. \A i : (RowComing(i)' <=> RowComing(i)) /\ (MarkComing(i)' <=> MarkComing(i))
  BY <1>3 DEF RowComing, MarkComing, RowBy
<1>6. \A t \in Sessions, i \in Ids : MarkInHand(t, i) => MarkInHand(t, i)'
  <2> SUFFICES ASSUME NEW t \in Sessions, NEW i \in Ids, MarkInHand(t, i) PROVE MarkInHand(t, i)'
    OBVIOUS
  <2>1. t # s
    BY <1>4 DEF MarkInHand, Has
  <2> QED BY <1>3, <1>4, <1>5, <2>1 DEF MarkInHand
<1>7. PICK id \in Ids : id = f.id
  BY <1>2
<1>8. ASSUME id \notin rowless' PROVE MarkInHand(s, id)'
  <2>1. ~RowInHand(id)
    BY <1>3, <1>7, <1>8
  <2>2. PICK m \in Names : Bound(id, m)
    BY <1>2, <1>7 DEF HasName
  <2>3. InsertSym(id, m).op = "insert_sym" /\ InsertSym(id, m).id = id
    BY DEF InsertSym
  <2>4. RowComing(id)
    BY <2>1, <2>2, <2>3 DEF Bound, Outstanding, RowInHand, RowComing
  <2>5. Has(todo'[s], UpdateFname(id))
    BY <1>2, <1>3, <1>4, <1>7, MarkIsFirst
  <2> QED BY <1>5, <2>4, <2>5 DEF MarkInHand
<1> QED BY <1>3, <1>4, <1>5, <1>6, <1>7, <1>8 DEF MarkInv

LEMMA StepMarkInv ==
  TInv /\ BindingInv /\ CInv /\ MarkInv /\ [SystemNext]_systemVars => MarkInv'
<1> SUFFICES ASSUME TInv, BindingInv, CInv, MarkInv, [SystemNext]_systemVars PROVE MarkInv'
  OBVIOUS
<1>1. CASE Start
  BY <1>1 DEF Start, MarkInv, MarkComing, dbVars
<1>2. CASE Die
  BY <1>2 DEF Die, MarkInv
<1>3. UNCHANGED clientVars => UNCHANGED rowless
  BY DEF clientVars, historyVars
<1> QED BY <1>1, <1>2, <1>3, SystemSteps, CalmMarks, PushMarks, ApplyMarks, StopMarks

\* Whoever sent a body, and wherever the server died and was started again: when
\* everything is quiet, a function that counts as processed is marked in the table, so
\* that the next server knows it too, except where the body overtook the row.
THEOREM ProcessedCorrect == SystemSpec => []ProcessedMarked
<1>1. Init /\ ClientInit => MarkInv
  BY DEF Init, MarkInv
<1>2. ASSUME TInv, MarkInv PROVE ProcessedMarked
  <2> SUFFICES ASSUME Quiet, NEW i \in m_funcs \ rowless PROVE symtab[i].fname
    BY DEF ProcessedMarked
  <2>1. m_q = <<>> /\ \A t \in Sessions : todo[t] = <<>>
    BY <1>2 DEF Quiet, TInv, ThreadsOK
  <2> QED BY <1>2, <2>1 DEF MarkInv, MarkComing, MarkInHand, Has
<1>3. TInv /\ MarkInv => ProcessedMarked
  BY <1>2
<1> QED BY <1>1, <1>3, StepMarkInv, SystemInv, PTL DEF SystemSpec

-----------------------------------------------------------------------------
(***************************************************************************)
(* What the statements of a sequence make of the number of rows (i, w).    *)
(***************************************************************************)
\* One statement.
After(c, i, w, n) ==
  IF c = DelXrefs(i) THEN 0 ELSE IF c = InsertXref(i, w) THEN n + 1 ELSE n

\* All of them, one after the other: v[k] is the number after the first k.
Leads(x, q, i, w, n) ==
  \E v \in [0 .. Len(q) -> Nat] :
    /\ v[0] = x /\ v[Len(q)] = n
    /\ \A k \in 1 .. Len(q) : v[k] = After(q[k], i, w, v[k - 1])

LEMMA AfterNat ==
  ASSUME NEW c, NEW i, NEW w, NEW n \in Nat PROVE After(c, i, w, n) \in Nat
  BY DEF After

LEMMA LeadsNowhere ==
  ASSUME NEW x \in Nat, NEW i, NEW w PROVE Leads(x, <<>>, i, w, x)
<1> DEFINE v == [k \in 0 .. 0 |-> x]
<1>1. Len(<<>>) = 0
  OBVIOUS
<1>2. v \in [0 .. 0 -> Nat] /\ v[0] = x
  OBVIOUS
<1> HIDE DEF v
<1> QED BY <1>1, <1>2 DEF Leads

LEMMA LeadsAppend ==
  ASSUME NEW S, NEW q \in Seq(S), NEW c \in S, NEW x, NEW i, NEW w, NEW n \in Nat,
         Leads(x, q, i, w, n)
  PROVE  Leads(x, Append(q, c), i, w, After(c, i, w, n))
<1> DEFINE r == Append(q, c)
<1>1. PICK v \in [0 .. Len(q) -> Nat] :
        /\ v[0] = x /\ v[Len(q)] = n
        /\ \A k \in 1 .. Len(q) : v[k] = After(q[k], i, w, v[k - 1])
  BY DEF Leads
<1>2. /\ Len(q) \in Nat /\ Len(r) = Len(q) + 1 /\ r[Len(q) + 1] = c
      /\ \A k \in 1 .. Len(q) : r[k] = q[k]
  OBVIOUS
<1> DEFINE u == [k \in 0 .. Len(q) + 1 |-> IF k <= Len(q) THEN v[k] ELSE After(c, i, w, n)]
<1>3. After(c, i, w, n) \in Nat
  BY AfterNat
<1>4. u \in [0 .. Len(r) -> Nat]
  BY <1>2, <1>3
<1>5. u[0] = x /\ u[Len(r)] = After(c, i, w, n) /\ u[Len(q)] = n
  BY <1>1, <1>2
<1>6. \A k \in 1 .. Len(q) : u[k] = v[k] /\ u[k - 1] = v[k - 1]
  BY <1>2
<1> HIDE DEF u, r
<1>7. \A k \in 1 .. Len(r) : u[k] = After(r[k], i, w, u[k - 1])
  <2> SUFFICES ASSUME NEW k \in 1 .. Len(r) PROVE u[k] = After(r[k], i, w, u[k - 1])
    OBVIOUS
  <2>1. CASE k \in 1 .. Len(q)
    BY <1>1, <1>2, <1>6, <2>1
  <2>2. CASE k = Len(q) + 1
    BY <1>2, <1>5, <2>2
  <2> QED BY <1>2, <2>1, <2>2
<1> QED BY <1>4, <1>5, <1>7 DEF Leads, r

\* The first statement is applied.
LEMMA LeadsTail ==
  ASSUME NEW S, NEW q \in Seq(S), q # <<>>, NEW x, NEW i, NEW w, NEW n, Leads(x, q, i, w, n)
  PROVE  Leads(After(Head(q), i, w, x), Tail(q), i, w, n)
<1> DEFINE r == Tail(q)
           y == After(Head(q), i, w, x)
<1>1. PICK v \in [0 .. Len(q) -> Nat] :
        /\ v[0] = x /\ v[Len(q)] = n
        /\ \A k \in 1 .. Len(q) : v[k] = After(q[k], i, w, v[k - 1])
  BY DEF Leads
<1>2. /\ Len(q) \in Nat /\ Len(q) >= 1 /\ Len(r) = Len(q) - 1 /\ Head(q) = q[1]
      /\ \A k \in 1 .. Len(q) - 1 : r[k] = q[k + 1]
  OBVIOUS
<1> DEFINE u == [k \in 0 .. Len(q) - 1 |-> v[k + 1]]
<1>3. u \in [0 .. Len(r) -> Nat] /\ \A k \in 0 .. Len(q) - 1 : u[k] = v[k + 1]
  BY <1>2
<1>4. v[1] = y
  BY <1>1, <1>2
<1> HIDE DEF u, r, y
<1>5. u[0] = y /\ u[Len(r)] = n
  BY <1>1, <1>2, <1>3, <1>4
<1>6. ASSUME NEW k \in 1 .. Len(r) PROVE u[k] = After(r[k], i, w, u[k - 1])
  <2>1. k + 1 \in 1 .. Len(q) /\ k \in 0 .. Len(q) - 1 /\ k - 1 \in 0 .. Len(q) - 1
    BY <1>2
  <2>2. v[k + 1] = After(q[k + 1], i, w, v[k])
    BY <1>1, <2>1
  <2>3. u[k] = v[k + 1] /\ u[k - 1] = v[k]
    BY <1>3, <2>1
  <2> QED BY <1>2, <2>1, <2>2, <2>3
<1> QED BY <1>3, <1>5, <1>6 DEF Leads, r, y

\* Nothing is stored and nothing will be.
LEMMA LeadsToNone ==
  ASSUME NEW S, NEW q \in Seq(S), NEW i, NEW w, ~Has(q, InsertXref(i, w))
  PROVE  Leads(0, q, i, w, 0)
<1> DEFINE v == [k \in 0 .. Len(q) |-> 0]
<1>1. Len(q) \in Nat /\ DOMAIN q = 1 .. Len(q)
  OBVIOUS
<1>2. v \in [0 .. Len(q) -> Nat] /\ \A k \in 0 .. Len(q) : v[k] = 0
  OBVIOUS
<1> HIDE DEF v
<1>3. \A k \in 1 .. Len(q) : After(q[k], i, w, 0) = 0
  BY <1>1 DEF Has, After
<1>4. \A k \in 1 .. Len(q) : v[k] = After(q[k], i, w, v[k - 1])
  BY <1>1, <1>2, <1>3
<1> QED BY <1>1, <1>2, <1>4 DEF Leads

\* A statement about something else may come in between.
Neutral(c, i) == c # DelXrefs(i) /\ \A w \in Ids : c # InsertXref(i, w)

LEMMA LeadsInsert ==
  ASSUME NEW S, NEW q \in Seq(S), NEW r \in Seq(S), NEW c \in S, NEW x, NEW i, NEW w \in Ids, NEW n,
         Neutral(c, i), Leads(x, q \o r, i, w, n)
  PROVE  Leads(x, Append(q, c) \o r, i, w, n)
<1> DEFINE a == q \o r
           b == Append(q, c) \o r
           m == Len(q)
<1>1. PICK v \in [0 .. Len(a) -> Nat] :
        /\ v[0] = x /\ v[Len(a)] = n
        /\ \A k \in 1 .. Len(a) : v[k] = After(a[k], i, w, v[k - 1])
  BY DEF Leads
<1>2. /\ m \in Nat /\ Len(r) \in Nat /\ Len(a) = m + Len(r) /\ Len(b) = m + 1 + Len(r)
      /\ \A k \in 1 .. m : a[k] = q[k] /\ b[k] = q[k]
      /\ b[m + 1] = c
  OBVIOUS
<1>3. \A k \in m + 2 .. m + 1 + Len(r) : b[k] = a[k - 1]
  <2>1. \A k \in 1 .. Len(r) : a[m + k] = r[k] /\ b[m + 1 + k] = r[k]
    OBVIOUS
  <2> SUFFICES ASSUME NEW k \in m + 2 .. m + 1 + Len(r) PROVE b[k] = a[k - 1]
    OBVIOUS
  <2>2. PICK j \in 1 .. Len(r) : k = m + 1 + j /\ k - 1 = m + j
    <3>1. k - (m + 1) \in 1 .. Len(r) /\ k = m + 1 + (k - (m + 1)) /\ k - 1 = m + (k - (m + 1))
      BY <1>2
    <3> QED BY <3>1
  <2> QED BY <2>1, <2>2
<1> DEFINE u == [k \in 0 .. Len(b) |-> IF k <= m THEN v[k] ELSE v[k - 1]]
<1> HIDE DEF a, b, m
<1>4. u \in [0 .. Len(b) -> Nat]
  BY <1>2
<1>5. /\ \A k \in 0 .. m : u[k] = v[k]
      /\ \A k \in m + 1 .. Len(b) : u[k] = v[k - 1]
  BY <1>2
<1> HIDE DEF u
<1>6. u[0] = x /\ u[Len(b)] = n
  BY <1>1, <1>2, <1>5
<1>7. After(c, i, w, v[m]) = v[m]
  BY DEF After, Neutral
<1>8. ASSUME NEW k \in 1 .. Len(b) PROVE u[k] = After(b[k], i, w, u[k - 1])
  <2>1. CASE k \in 1 .. m
    <3>1. k \in 1 .. Len(a) /\ a[k] = b[k] /\ k \in 0 .. m /\ k - 1 \in 0 .. m
      BY <1>2, <2>1
    <3> QED BY <1>1, <1>5, <3>1
  <2>2. CASE k = m + 1
    <3>1. m + 1 \in m + 1 .. Len(b) /\ m \in 0 .. m /\ (m + 1) - 1 = m
      BY <1>2
    <3> QED BY <1>2, <1>5, <1>7, <2>2, <3>1
  <2>3. CASE k \in m + 2 .. Len(b)
    <3>1. k \in m + 2 .. m + 1 + Len(r) /\ k - 1 \in 1 .. Len(a) /\ k \in m + 1 .. Len(b) /\ k - 1 \in m + 1 .. Len(b)
      BY <1>2, <2>3
    <3> QED BY <1>1, <1>3, <1>5, <3>1
  <2> QED BY <1>2, <2>1, <2>2, <2>3
<1> QED BY <1>4, <1>6, <1>8 DEF Leads, b

\* How many of the first j references are to w.
Counted(refs, j, w) == Cardinality({k \in 1 .. j : refs[k] = w})

Count(refs, w) == Cardinality({k \in DOMAIN refs : refs[k] = w})

LEMMA CountedStep ==
  ASSUME NEW refs, NEW w
  PROVE  /\ Counted(refs, 0, w) = 0
         /\ \A j \in Nat :
              /\ Counted(refs, j, w) \in Nat
              /\ Counted(refs, j + 1, w) = Counted(refs, j, w) + (IF refs[j + 1] = w THEN 1 ELSE 0)
<1> DEFINE P(j) == {k \in 1 .. j : refs[k] = w}
<1>1. P(0) = {}
  OBVIOUS
<1>2. ASSUME NEW j \in Nat
      PROVE  /\ IsFiniteSet(P(j)) /\ Cardinality(P(j)) \in Nat
             /\ Cardinality(P(j + 1)) = Cardinality(P(j)) + (IF refs[j + 1] = w THEN 1 ELSE 0)
  <2>1. IsFiniteSet(1 .. j)
    BY FS_Interval
  <2>2. IsFiniteSet(P(j))
    BY <2>1, FS_Subset
  <2>3. Cardinality(P(j)) \in Nat
    BY <2>2, FS_CardinalityType
  <2>4. CASE refs[j + 1] = w
    <3>1. P(j + 1) = P(j) \cup {j + 1} /\ j + 1 \notin P(j)
      BY <2>4
    <3> HIDE DEF P
    <3>2. Cardinality(P(j + 1)) = Cardinality(P(j)) + 1
      BY <2>2, <3>1, FS_AddElement
    <3> QED BY <2>2, <2>3, <2>4, <3>2
  <2>5. CASE refs[j + 1] # w
    <3>1. P(j + 1) = P(j)
      BY <2>5
    <3> HIDE DEF P
    <3> QED BY <2>2, <2>3, <2>5, <3>1
  <2> QED BY <2>4, <2>5
<1>3. Cardinality({}) = 0
  BY FS_EmptySet
<1> QED BY <1>1, <1>2, <1>3 DEF Counted

\* A body adds its references to what is there.
LEMMA LeadsBody ==
  ASSUME NEW q \in Seq(Closures), NEW f \in Bodies, NEW x, NEW w \in Ids, Leads(x, q, f.id, w, 0)
  PROVE  Leads(x, q \o BodyClosures(f), f.id, w, Count(f.refs, w))
<1> DEFINE r == BodyClosures(f)
           i == f.id
           a == q \o r
           m == Len(q)
           e == f.errors
           n == Len(f.refs)
           C(j) == Counted(f.refs, j, w)
<1>1. PICK v \in [0 .. Len(q) -> Nat] :
        /\ v[0] = x /\ v[Len(q)] = 0
        /\ \A k \in 1 .. Len(q) : v[k] = After(q[k], i, w, v[k - 1])
  BY DEF Leads
<1>2. /\ e \in Nat /\ n \in Nat /\ r \in Seq(Closures) /\ Len(r) = 1 + e + n
      /\ r[1] = UpdateFname(i) /\ \A k \in 1 .. e : r[1 + k] = InsertErr(i)
      /\ \A k \in 1 .. n : r[1 + e + k] = InsertXref(i, f.refs[k])
  BY BodyShape
<1>3. C(0) = 0 /\ \A j \in Nat : C(j) \in Nat /\ C(j + 1) = C(j) + (IF f.refs[j + 1] = w THEN 1 ELSE 0)
  BY CountedStep
<1>4. Count(f.refs, w) = C(n)
  <2>1. DOMAIN f.refs = 1 .. n
    BY BodyShape
  <2> QED BY <2>1 DEF Count, Counted
<1> HIDE DEF r, e, C, i, n
<1>5. /\ m \in Nat /\ Len(a) = m + Len(r)
      /\ \A k \in 1 .. m : a[k] = q[k]
      /\ \A k \in 1 .. Len(r) : a[m + k] = r[k]
  <2>1. r \in Seq(Closures)
    BY <1>2
  <2> QED BY <2>1, SequenceParts
<1>10. Len(a) = m + 1 + e + n /\ m \in Nat /\ e \in Nat /\ n \in Nat
  <2> HIDE DEF a, m
  <2> QED BY <1>2, <1>5
<1> DEFINE u == [k \in 0 .. Len(a) |-> IF k <= m THEN v[k] ELSE IF k <= m + 1 + e THEN 0
                                       ELSE C(k - (m + 1 + e))]
<1> HIDE DEF a, m
<1>6. /\ \A k \in 0 .. m : u[k] = v[k]
      /\ \A k \in m .. m + 1 + e : u[k] = 0
      /\ \A j \in 0 .. n : u[m + 1 + e + j] = C(j)
  <2>1. v[m] = 0
    BY <1>1 DEF m
  <2>2. \A k \in 0 .. m : u[k] = v[k]
    BY <1>10
  <2>3. \A k \in m + 1 .. m + 1 + e : u[k] = 0
    BY <1>10
  <2>4. \A j \in 1 .. n : u[m + 1 + e + j] = C(j)
    <3> SUFFICES ASSUME NEW j \in 1 .. n PROVE u[m + 1 + e + j] = C(j)
      OBVIOUS
    <3>1. m + 1 + e + j \in 0 .. Len(a) /\ ~(m + 1 + e + j <= m) /\ ~(m + 1 + e + j <= m + 1 + e)
          /\ (m + 1 + e + j) - (m + 1 + e) = j
      BY <1>10
    <3> QED BY <3>1
  <2>5. m \in 0 .. m /\ m + 1 + e \in m + 1 .. m + 1 + e
    BY <1>10
  <2> HIDE DEF u
  <2>6. \A k \in m .. m + 1 + e : u[k] = 0
    <3> SUFFICES ASSUME NEW k \in m .. m + 1 + e PROVE u[k] = 0
      OBVIOUS
    <3>1. k = m \/ k \in m + 1 .. m + 1 + e
      BY <1>10
    <3> QED BY <2>1, <2>2, <2>3, <2>5, <3>1
  <2>7. u[m + 1 + e + 0] = C(0)
    BY <1>2, <1>3, <1>5, <2>3, <2>5
  <2>8. \A j \in 0 .. n : j = 0 \/ j \in 1 .. n
    BY <1>2
  <2> QED BY <2>2, <2>4, <2>6, <2>7, <2>8
<1>7. u \in [0 .. Len(a) -> Nat]
  <2>1. \A k \in 0 .. Len(a) : k <= m => v[k] \in Nat
    BY <1>1, <1>10 DEF m
  <2>2. \A k \in 0 .. Len(a) : ~(k <= m + 1 + e) => C(k - (m + 1 + e)) \in Nat
    <3> SUFFICES ASSUME NEW k \in 0 .. Len(a), ~(k <= m + 1 + e) PROVE C(k - (m + 1 + e)) \in Nat
      OBVIOUS
    <3>1. k - (m + 1 + e) \in Nat
      BY <1>10
    <3> QED BY <1>3, <3>1
  <2> QED BY <2>1, <2>2
<1> HIDE DEF u
<1>8. u[0] = x /\ u[Len(a)] = Count(f.refs, w)
  <2>1. 0 \in 0 .. m /\ Len(a) = m + 1 + e + n /\ n \in 0 .. n
    BY <1>10
  <2>2. u[m + 1 + e + n] = C(n)
    BY <1>6, <2>1
  <2> QED BY <1>1, <1>4, <1>6, <2>1, <2>2
<1>9. ASSUME NEW k \in 1 .. Len(a) PROVE u[k] = After(a[k], i, w, u[k - 1])
  <2>1. CASE k \in 1 .. m
    <3>1. k \in 0 .. m /\ k - 1 \in 0 .. m /\ k \in 1 .. Len(q)
      BY <1>5, <2>1 DEF m
    <3> QED BY <1>1, <1>5, <1>6, <2>1, <3>1
  <2>2. ASSUME NEW j \in 1 .. 1 + e, k = m + j PROVE u[k] = After(a[k], i, w, u[k - 1])
    <3>1. j \in 1 .. Len(r) /\ k \in m .. m + 1 + e /\ k - 1 \in m .. m + 1 + e
      BY <1>2, <1>10, <2>2
    <3>2. r[j] = UpdateFname(i) \/ r[j] = InsertErr(i)
      <4>1. j = 1 \/ (j - 1 \in 1 .. e /\ 1 + (j - 1) = j)
        BY <1>2
      <4> QED BY <1>2, <4>1
    <3>3. After(r[j], i, w, 0) = 0
      BY <3>2 DEF After, UpdateFname, InsertErr, DelXrefs, InsertXref
    <3>4. a[k] = r[j] /\ u[k] = 0 /\ u[k - 1] = 0
      BY <1>5, <1>6, <2>2, <3>1
    <3> QED BY <3>3, <3>4
  <2>3. ASSUME NEW j \in 1 .. n, k = m + 1 + e + j PROVE u[k] = After(a[k], i, w, u[k - 1])
    <3>1. PICK h \in Nat : j = h + 1 /\ h \in 0 .. n /\ j \in 0 .. n
      <4>1. j - 1 \in Nat /\ j = (j - 1) + 1 /\ j - 1 \in 0 .. n /\ j \in 0 .. n
        BY <1>2
      <4> QED BY <4>1
    <3>2. 1 + e + j \in 1 .. Len(r) /\ k = m + (1 + e + j) /\ k - 1 = m + 1 + e + h
      BY <1>2, <1>5, <2>3, <3>1
    <3>3. a[k] = InsertXref(i, f.refs[j])
      BY <1>2, <1>5, <3>2
    <3>4. u[k] = C(j) /\ u[k - 1] = C(h)
      BY <1>6, <2>3, <3>1, <3>2
    <3>5. After(InsertXref(i, f.refs[j]), i, w, C(h)) = IF f.refs[j] = w THEN C(h) + 1 ELSE C(h)
      BY DEF After, InsertXref, DelXrefs
    <3>6. C(j) = C(h) + (IF f.refs[j] = w THEN 1 ELSE 0) /\ C(h) \in Nat
      BY <1>3, <3>1
    <3> QED BY <3>3, <3>4, <3>5, <3>6
  <2>4. \/ k \in 1 .. m
        \/ k - m \in 1 .. 1 + e /\ k = m + (k - m)
        \/ k - (m + 1 + e) \in 1 .. n /\ k = m + 1 + e + (k - (m + 1 + e))
    BY <1>10
  <2> QED BY <2>1, <2>2, <2>3, <2>4
<1> QED BY <1>7, <1>8, <1>9 DEF Leads, r, a, i

-----------------------------------------------------------------------------
(***************************************************************************)
(* Rows of functions that count as unprocessed: a restarted server that    *)
(* would take such a function for new must not find rows of it.  A row is  *)
(* stored after the mark of its function, in the order of add_func.        *)
(***************************************************************************)
\* The references that are stored, queued or taken in hand come after the mark.
MarkedFirst(i) ==
  /\ \A w \in Ids : xrefs[i][w] > 0 => symtab[i].fname
  /\ \A k \in DOMAIN m_q : m_q[k].op = "insert_xref" /\ m_q[k].id = i => MarkedBy(k, i)
  /\ \A t \in Sessions : \A k \in DOMAIN todo[t] :
       todo[t][k].op = "insert_xref" /\ todo[t][k].id = i =>
         \/ MarkComing(i)
         \/ RowComing(i) /\ \E j \in DOMAIN todo[t] : j < k /\ todo[t][j] = UpdateFname(i)

NewFunctionsEmpty ==
  up => /\ \A i \in m_funcs : i <= max_id
        /\ \A i \in Ids \ (m_funcs \cup rowless), w \in Ids : ~Refers(i, w)

OrderInv == NewFunctionsEmpty /\ \A i \in Ids \ rowless : MarkedFirst(i)

LEMMA CalmOrder == ASSUME TInv, OrderInv, Calm PROVE OrderInv'
<1>1. \A i, k : /\ RowComing(i)' <=> RowComing(i)
                /\ MarkComing(i)' <=> MarkComing(i)
                /\ MarkedBy(k, i)' <=> MarkedBy(k, i)
  BY DEF RowComing, MarkComing, MarkedBy, RowBy, Calm
<1>2. ASSUME NEW i \in Ids \ rowless PROVE MarkedFirst(i)'
  <2>1. MarkedFirst(i) /\ UNCHANGED <<m_q, symtab, xrefs>>
    BY DEF OrderInv, Calm
  <2>2. ASSUME NEW t \in Sessions, NEW k \in DOMAIN todo'[t],
               todo'[t][k].op = "insert_xref" /\ todo'[t][k].id = i
        PROVE  \/ MarkComing(i)'
               \/ RowComing(i)' /\ \E j \in DOMAIN todo'[t] : j < k /\ todo'[t][j] = UpdateFname(i)
    <3>1. todo'[t] = todo[t]
      BY <2>2 DEF Calm, NoRefs
    <3> QED BY <1>1, <2>1, <2>2, <3>1 DEF MarkedFirst
  <2> QED BY <1>1, <2>1, <2>2 DEF MarkedFirst
<1>3. ASSUME NEW i \in Ids, NEW w \in Ids, Refers(i, w)' PROVE Refers(i, w)
  <2>1. UNCHANGED <<m_q, xrefs>>
    BY DEF Calm
  <2>2. \A t \in Sessions : Has(todo'[t], InsertXref(i, w)) => Has(todo[t], InsertXref(i, w))
    BY DEF Calm, NoRefs, Has, InsertXref
  <2> QED BY <1>3, <2>1, <2>2 DEF Refers, InHand
<1>4. NewFunctionsEmpty'
  <2>1. UNCHANGED <<up, m_funcs, rowless>> /\ max_id' \in Nat /\ max_id <= max_id'
    BY DEF Calm
  <2>2. m_funcs \subseteq Nat /\ max_id \in Nat
    BY IdsFact, BoundsAssumption DEF TInv, TypeOK
  <2>3. \A i \in m_funcs : up /\ i <= max_id => i <= max_id'
    BY <2>1, <2>2
  <2> QED BY <1>3, <2>1, <2>3 DEF OrderInv, NewFunctionsEmpty
<1> QED BY <1>2, <1>4 DEF OrderInv, Calm

LEMMA PushOrder ==
  ASSUME TInv, OrderInv, NEW s \in Sessions, Push(s), UNCHANGED rowless PROVE OrderInv'
<1> DEFINE c == Head(todo[s])
<1>1. /\ todo \in [Sessions -> Seq(Closures)] /\ todo[s] # <<>>
      /\ todo' = [todo EXCEPT ![s] = Tail(todo[s])]
      /\ UNCHANGED <<up, max_id, m_funcs, rowless, symtab, xrefs>>
  BY DEF TInv, TypeOK, ThreadsOK, Push, cacheVars, dbVars
<1>2. PICK last \in DOMAIN m_q' :
        /\ m_q'[last] = c /\ DOMAIN m_q' = DOMAIN m_q \cup {last}
        /\ \A k \in DOMAIN m_q : k < last
        /\ \A i : RowComing(i) => RowBy(last, i)'
  BY PushComing
<1>3. /\ \A k \in DOMAIN m_q : m_q'[k] = m_q[k]
      /\ \A i, k : RowBy(k, i) => RowBy(k, i)'
      /\ \A i : RowComing(i) => RowComing(i)'
      /\ \A i : MarkComing(i) => MarkComing(i)'
  BY PushComing
<1>4. /\ DOMAIN todo[s] = 1 .. Len(todo[s]) /\ Len(todo[s]) \in Nat
      /\ DOMAIN todo'[s] = 1 .. Len(todo[s]) - 1 /\ todo[s][1] = c
      /\ \A k \in DOMAIN todo'[s] : todo'[s][k] = todo[s][k + 1]
  BY <1>1
<1> HIDE DEF c
<1>5. 1 \in DOMAIN todo[s]
  <2>1. Len(todo[s]) # 0
    BY <1>1, EmptyLen
  <2> QED BY <1>4, <2>1
<1>6. \A i : MarkComing(i) => MarkedBy(last, i)'
  BY <1>1, <1>2, <1>3 DEF MarkComing, MarkedBy
<1>7. \A i, k : MarkedBy(k, i) => MarkedBy(k, i)'
  BY <1>1, <1>2, <1>3 DEF MarkedBy
<1>8. ASSUME NEW i \in Ids \ rowless PROVE MarkedFirst(i)'
  <2>1. MarkedFirst(i)
    BY DEF OrderInv
  <2>2. ASSUME NEW k \in DOMAIN m_q', m_q'[k].op = "insert_xref", m_q'[k].id = i PROVE MarkedBy(k, i)'
    <3>1. CASE k \in DOMAIN m_q
      BY <1>3, <1>7, <2>1, <2>2, <3>1 DEF MarkedFirst
    <3>2. CASE k = last
      <4>1. ~\E j \in DOMAIN todo[s] : j < 1
        BY <1>4
      <4>2. MarkComing(i)
        BY <1>2, <1>4, <1>5, <2>1, <2>2, <3>2, <4>1 DEF MarkedFirst
      <4> QED BY <1>6, <3>2, <4>2
    <3> QED BY <1>2, <3>1, <3>2
  <2>3. ASSUME NEW t \in Sessions, NEW k \in DOMAIN todo'[t],
               todo'[t][k].op = "insert_xref" /\ todo'[t][k].id = i
        PROVE  \/ MarkComing(i)'
               \/ RowComing(i)' /\ \E j \in DOMAIN todo'[t] : j < k /\ todo'[t][j] = UpdateFname(i)
    <3>1. CASE t # s
      <4>1. todo'[t] = todo[t]
        BY <1>1, <3>1
      <4> QED BY <1>3, <2>1, <2>3, <4>1 DEF MarkedFirst
    <3>2. CASE t = s
      <4>1. k + 1 \in DOMAIN todo[s] /\ todo[s][k + 1] = todo'[s][k]
        BY <1>4, <2>3, <3>2
      <4>2. \/ MarkComing(i)
            \/ RowComing(i) /\ \E j \in DOMAIN todo[s] : j < k + 1 /\ todo[s][j] = UpdateFname(i)
        BY <2>1, <2>3, <3>2, <4>1 DEF MarkedFirst
      <4>3. ASSUME RowComing(i), NEW j \in DOMAIN todo[s], j < k + 1, todo[s][j] = UpdateFname(i)
            PROVE  \/ MarkComing(i)'
                   \/ \E h \in DOMAIN todo'[t] : h < k /\ todo'[t][h] = UpdateFname(i)
        <5>1. CASE j = 1
          <6>1. m_q'[last] = UpdateFname(i) /\ RowBy(last, i)'
            BY <1>2, <1>4, <4>3, <5>1
          <6> QED BY <6>1 DEF MarkComing
        <5>2. CASE j # 1
          <6>1. j - 1 \in DOMAIN todo'[s] /\ j - 1 < k /\ (j - 1) + 1 = j
            BY <1>4, <2>3, <3>2, <4>3, <5>2
          <6>2. todo'[s][j - 1] = UpdateFname(i)
            BY <1>4, <4>3, <6>1
          <6> QED BY <3>2, <6>1, <6>2
        <5> QED BY <5>1, <5>2
      <4> QED BY <1>3, <4>2, <4>3
    <3> QED BY <3>1, <3>2
  <2>4. \A w \in Ids : xrefs'[i][w] > 0 => symtab'[i].fname
    BY <1>1, <2>1 DEF MarkedFirst
  <2> QED BY <2>2, <2>3, <2>4 DEF MarkedFirst
<1>9. NewFunctionsEmpty'
  BY <1>1, PushRefs DEF OrderInv, NewFunctionsEmpty, NoNewRefs
<1> QED BY <1>1, <1>8, <1>9 DEF OrderInv

LEMMA ApplyOrder ==
  ASSUME TInv, OrderInv, WriterApply, UNCHANGED rowless PROVE OrderInv'
<1> DEFINE c == Head(m_q)
<1>1. /\ m_q \in Seq(Closures) /\ m_q # <<>> /\ m_q[1] = c /\ 1 \in DOMAIN m_q
      /\ xrefs \in [Ids -> [Ids -> Nat]]
      /\ UNCHANGED <<up, max_id, m_funcs, rowless, todo>> /\ Execute(c)
  BY DEF TInv, TypeOK, WriterApply, cacheVars, threadVars
<1>2. /\ \A k \in DOMAIN m_q' : k + 1 \in DOMAIN m_q /\ m_q'[k] = m_q[k + 1]
      /\ \A i \in Ids : symtab[i].fname => symtab'[i].fname
      /\ \A i \in Ids : RowComing(i) => RowComing(i)'
      /\ \A i \in Ids : MarkComing(i) => MarkComing(i)'
      /\ \A i \in Ids : \A k \in DOMAIN m_q' : MarkedBy(k + 1, i) => MarkedBy(k, i)'
  BY ApplyComing
<1>3. c \in Closures /\ DOMAIN m_q \subseteq Nat \ {0}
  BY <1>1, TailFact
<1> HIDE DEF c
<1>4. ASSUME NEW i \in Ids \ rowless PROVE MarkedFirst(i)'
  <2>1. MarkedFirst(i)
    BY DEF OrderInv
  <2>2. ASSUME NEW w \in Ids, xrefs'[i][w] > 0 PROVE symtab'[i].fname
    <3>1. CASE xrefs[i][w] > 0
      BY <1>2, <2>1, <3>1 DEF MarkedFirst
    <3>2. CASE ~(xrefs[i][w] > 0)
      <4>1. c.op = "insert_xref" /\ c.id = i
        <5>1. CASE c.op = "insert_xref"
          <6>1. c.id \in Ids /\ c.what \in Ids /\ xrefs' = [xrefs EXCEPT ![c.id][c.what] = @ + 1]
            BY <1>1, <1>3, <5>1 DEF Execute, Closures
          <6>2. c.id # i => xrefs'[i][w] = xrefs[i][w]
            BY <1>1, <6>1
          <6> QED BY <2>2, <3>2, <5>1, <6>2
        <5>2. CASE c.op = "del_xrefs"
          <6>1. c.id \in Ids /\ xrefs' = [xrefs EXCEPT ![c.id] = [v \in Ids |-> 0]]
            BY <1>1, <1>3, <5>2 DEF Execute, Closures
          <6>2. xrefs'[i][w] = xrefs[i][w] \/ xrefs'[i][w] = 0
            BY <1>1, <6>1
          <6> QED BY <2>2, <3>2, <6>2
        <5>3. CASE c.op \notin {"insert_xref", "del_xrefs"}
          <6>1. xrefs' = xrefs
            BY <1>1, <5>3 DEF Execute
          <6> QED BY <2>2, <3>2, <6>1
        <5> QED BY <5>1, <5>2, <5>3
      <4>2. MarkedBy(1, i)
        BY <1>1, <2>1, <4>1 DEF MarkedFirst
      <4>3. \A j \in DOMAIN m_q : ~(j < 1)
        BY <1>3
      <4> QED BY <1>2, <4>2, <4>3 DEF MarkedBy
    <3> QED BY <3>1, <3>2
  <2>3. \A k \in DOMAIN m_q' : m_q'[k].op = "insert_xref" /\ m_q'[k].id = i => MarkedBy(k, i)'
    BY <1>2, <2>1 DEF MarkedFirst
  <2>4. \A t \in Sessions : \A k \in DOMAIN todo'[t] :
          todo'[t][k].op = "insert_xref" /\ todo'[t][k].id = i =>
            \/ MarkComing(i)'
            \/ RowComing(i)' /\ \E j \in DOMAIN todo'[t] : j < k /\ todo'[t][j] = UpdateFname(i)
    BY <1>1, <1>2, <2>1 DEF MarkedFirst
  <2> QED BY <2>2, <2>3, <2>4 DEF MarkedFirst
<1>5. NewFunctionsEmpty'
  BY <1>1, ApplyRefs DEF OrderInv, NewFunctionsEmpty, NoNewRefs
<1> QED BY <1>1, <1>4, <1>5 DEF OrderInv

LEMMA StopOrder ==
  ASSUME TInv, BindingInv, CInv, OrderInv, NEW s \in Sessions, FuncStop(s) PROVE OrderInv'
<1> DEFINE f == m_func[s]
           r == BodyClosures(f)
<1>1. up /\ pc[s] = "idle" /\ cpc[s] = "in" /\ AddFunc(s, f)
  BY DEF FuncStop, AddFunc, Called
<1>2. f \in Bodies /\ f.id \in Ids /\ HasName(f.id) /\ f.id <= max_id
  BY <1>1, BodySent DEF CInv, ClientInv, KnowsNames, HasName
<1>3. /\ m_funcs' = m_funcs \cup {f.id} /\ todo' = [todo EXCEPT ![s] = r]
      /\ UNCHANGED <<up, max_id, m_q, symtab, xrefs>>
      /\ rowless' = rowless \cup (IF RowInHand(f.id) THEN {f.id} ELSE {})
      /\ AnswerAfter(s, None, r) /\ pc[s] # "push"
  BY <1>1 DEF AddFunc, AnswerAfter, FuncStop, dbVars
<1>4. todo \in [Sessions -> Seq(Closures)] /\ todo[s] = <<>> /\ todo'[s] = r
  BY <1>1, <1>3 DEF TInv, TypeOK, ThreadsOK
<1>5. /\ DOMAIN r = 1 .. Len(r) /\ r[1] = UpdateFname(f.id)
      /\ \A k \in DOMAIN r : r[k].op = "insert_xref" => r[k].id = f.id /\ 1 < k
  BY <1>2, BodyParts, BodyShape
<1>6. \A i, k : /\ RowComing(i)' <=> RowComing(i)
                /\ MarkComing(i)' <=> MarkComing(i)
                /\ MarkedBy(k, i)' <=> MarkedBy(k, i)
  BY <1>3 DEF RowComing, MarkComing, MarkedBy, RowBy
<1>7. PICK id \in Ids : id = f.id
  BY <1>2
<1>8. id \notin rowless' => RowComing(id)
  <2> SUFFICES ASSUME ~RowInHand(id) PROVE RowComing(id)
    BY <1>3, <1>7
  <2>1. PICK m \in Names : Bound(id, m)
    BY <1>2, <1>7 DEF HasName
  <2>2. InsertSym(id, m).op = "insert_sym" /\ InsertSym(id, m).id = id
    BY DEF InsertSym
  <2> QED BY <2>1, <2>2 DEF Bound, Outstanding, RowInHand, RowComing
<1> HIDE DEF f, r
<1>9. ASSUME NEW i \in Ids \ rowless' PROVE MarkedFirst(i)'
  <2>1. MarkedFirst(i)
    BY <1>3 DEF OrderInv
  <2>2. ASSUME NEW t \in Sessions, NEW k \in DOMAIN todo'[t],
               todo'[t][k].op = "insert_xref" /\ todo'[t][k].id = i
        PROVE  \/ MarkComing(i)'
               \/ RowComing(i)' /\ \E j \in DOMAIN todo'[t] : j < k /\ todo'[t][j] = UpdateFname(i)
    <3>1. CASE t # s
      <4>1. todo'[t] = todo[t]
        BY <1>3, <1>4, <3>1
      <4> QED BY <1>6, <2>1, <2>2, <4>1 DEF MarkedFirst
    <3>2. CASE t = s
      <4>1. i = id /\ 1 < k /\ 1 \in DOMAIN r
        BY <1>4, <1>5, <1>7, <2>2, <3>2
      <4> QED BY <1>4, <1>5, <1>6, <1>7, <1>8, <3>2, <4>1
    <3> QED BY <3>1, <3>2
  <2> QED BY <1>3, <1>6, <2>1, <2>2 DEF MarkedFirst
<1>10. \A i, w : Has(r, InsertXref(i, w)) => i = f.id
  BY <1>5 DEF Has, InsertXref
<1>11. NewFunctionsEmpty'
  <2>1. \A i, w \in Ids : Refers(i, w)' => Refers(i, w) \/ i = f.id
    BY <1>3, <1>10, AnswerRefs
  <2> QED BY <1>1, <1>2, <1>3, <2>1 DEF OrderInv, NewFunctionsEmpty
<1> QED BY <1>9, <1>11 DEF OrderInv

LEMMA StepOrderInv ==
  TInv /\ BindingInv /\ CInv /\ OrderInv /\ [SystemNext]_systemVars => OrderInv'
<1> SUFFICES ASSUME TInv, BindingInv, CInv, OrderInv, [SystemNext]_systemVars PROVE OrderInv'
  OBVIOUS
<1>1. UNCHANGED clientVars => UNCHANGED rowless
  BY DEF clientVars, historyVars
<1>2. ASSUME Start, UNCHANGED rowless PROVE OrderInv'
  <2>1. /\ m_funcs' = {i \in Stored : symtab[i].fname} /\ IsLast(max_id', Stored)
        /\ max_id' \in Nat /\ UNCHANGED <<m_q, todo, symtab, xrefs>>
        /\ m_q = <<>> /\ \A t \in Sessions : todo[t] = <<>>
    BY <1>2, BoundsAssumption DEF Start, dbVars, threadVars, TInv, DownOK, ThreadsOK
  <2>2. \A i \in m_funcs' : i <= max_id'
    BY <2>1 DEF IsLast
  <2>3. ASSUME NEW i \in Ids \ (m_funcs' \cup rowless), NEW w \in Ids PROVE ~Refers(i, w)'
    <3>1. xrefs[i][w] > 0 => symtab[i].fname
      BY DEF OrderInv, MarkedFirst
    <3>2. symtab[i].fname => i \in m_funcs'
      <4>1. symtab[i].fname => symtab[i] # NoRow
        BY DEF NoRow
      <4> QED BY <2>1, <4>1 DEF Stored
    <3>3. ~InHand(InsertXref(i, w))'
      BY <2>1 DEF InHand, Has
    <3> QED BY <2>1, <3>1, <3>2, <3>3 DEF Refers
  <2>4. ASSUME NEW i \in Ids \ rowless PROVE MarkedFirst(i)'
    <3>1. MarkedFirst(i)
      BY DEF OrderInv
    <3> QED BY <2>1, <3>1 DEF MarkedFirst
  <2> QED BY <1>2, <2>2, <2>3, <2>4 DEF OrderInv, NewFunctionsEmpty
<1>3. ASSUME Die, UNCHANGED rowless PROVE OrderInv'
  <2>1. ~up' /\ m_q' = <<>> /\ UNCHANGED <<symtab, xrefs>> /\ \A t \in Sessions : todo'[t] = <<>>
    BY <1>3 DEF Die, dbVars
  <2>2. ASSUME NEW i \in Ids \ rowless PROVE MarkedFirst(i)'
    <3>1. MarkedFirst(i)
      BY DEF OrderInv
    <3> QED BY <2>1, <3>1 DEF MarkedFirst
  <2> QED BY <1>3, <2>1, <2>2 DEF OrderInv, NewFunctionsEmpty
<1>4. Disconnected => UNCHANGED rowless
  BY DEF Disconnected
<1> QED
  BY <1>1, <1>2, <1>3, <1>4, SystemSteps, CalmOrder, PushOrder, ApplyOrder, StopOrder

LEMMA InitOrderInv == Init /\ ClientInit => OrderInv
<1> SUFFICES ASSUME Init PROVE OrderInv
  OBVIOUS
<1>1. \A i, w \in Ids : ~(xrefs[i][w] > 0)
  BY DEF Init
<1> QED BY <1>1 DEF Init, OrderInv, NewFunctionsEmpty, MarkedFirst

-----------------------------------------------------------------------------
(***************************************************************************)
(* What a client is doing, and what of it its thread has in hand: only     *)
(* add_func stores references, and only of the function the client is at;  *)
(* only check_function deletes any, and only of the function it answers.   *)
(***************************************************************************)
Working == {"in", "check_sym", "add_func"}

HistoryTypes ==
  /\ fun \in [Sessions -> CStrings \cup {None}]
  /\ alone \in [Sessions -> BOOLEAN]
  /\ sent \in [Ids -> Seq(Ids) \cup {Unsent}]

TodoIsFor(s) ==
  \A k \in DOMAIN todo[s] :
    /\ todo[s][k].op = "insert_xref" => cpc[s] = "add_func" /\ todo[s][k].id = m_func[s].id
    /\ todo[s][k].op = "del_xrefs" =>
         cpc[s] = "check_function" /\ ~reply[s].skip /\ todo[s][k].id = reply[s].id

StageOK(s) ==
  /\ cpc[s] = "out" => fun[s] = None
  /\ cpc[s] = "check_function" => fun[s] = cur[s] /\ cur[s] \in CStrings
  /\ cpc[s] \in Working => fun[s] \in CStrings /\ BoundTo(m_func[s].id, fun[s])
  /\ pc[s] = "check_function" => cpc[s] = "check_function"
  /\ pc[s] = "check_sym" => cpc[s] = "check_sym"
  /\ cpc[s] \in {"out", "in"} => todo[s] = <<>>
  /\ TodoIsFor(s)

AloneInv == \A s, t \in Sessions : alone[s] /\ fun[s] # None /\ fun[t] = fun[s] => t = s

StageInv == HistoryTypes /\ AloneInv /\ \A s \in Sessions : StageOK(s)

LEMMA AloneKept ==
  ASSUME HistoryTypes, AloneInv, NEW s \in Sessions,
         \/ UNCHANGED <<fun, alone>>
         \/ \E fn \in CStrings : Enter(s, fn)
         \/ Leave(s)
  PROVE  /\ AloneInv'
         /\ fun' \in [Sessions -> CStrings \cup {None}] /\ alone' \in [Sessions -> BOOLEAN]
         /\ \A t \in Sessions : t # s => fun'[t] = fun[t] /\ (alone'[t] => alone[t])
<1>1. CASE UNCHANGED <<fun, alone>>
  BY <1>1 DEF HistoryTypes, AloneInv
<1>2. ASSUME NEW fn \in CStrings, Enter(s, fn)
      PROVE  /\ AloneInv'
             /\ fun' \in [Sessions -> CStrings \cup {None}] /\ alone' \in [Sessions -> BOOLEAN]
             /\ \A t \in Sessions : t # s => fun'[t] = fun[t] /\ (alone'[t] => alone[t])
  <2> DEFINE others == {t \in Sessions \ {s} : fun[t] = fn}
  <2>1. /\ fun' = [fun EXCEPT ![s] = fn]
        /\ alone' = [t \in Sessions |-> IF t = s THEN others = {} ELSE alone[t] /\ t \notin others]
    BY <1>2 DEF Enter
  <2>2. fun' \in [Sessions -> CStrings \cup {None}] /\ alone' \in [Sessions -> BOOLEAN]
    BY <2>1 DEF HistoryTypes
  <2>3. fun'[s] = fn /\ \A t \in Sessions : t # s => fun'[t] = fun[t]
    BY <2>1 DEF HistoryTypes
  <2>4. \A t \in Sessions : t # s => (alone'[t] => alone[t] /\ fun[t] # fn)
    BY <2>1 DEF HistoryTypes
  <2>5. alone'[s] => \A t \in Sessions : t # s => fun[t] # fn
    BY <2>1
  <2> HIDE DEF others
  <2>6. AloneInv'
    BY <2>3, <2>4, <2>5 DEF AloneInv
  <2> QED BY <2>2, <2>3, <2>4, <2>6
<1>3. CASE Leave(s)
  <2>1. fun' = [fun EXCEPT ![s] = None] /\ alone' = [alone EXCEPT ![s] = TRUE]
    BY <1>3 DEF Leave
  <2>2. fun'[s] = None /\ \A t \in Sessions : t # s => fun'[t] = fun[t] /\ alone'[t] = alone[t]
    BY <2>1 DEF HistoryTypes
  <2>3. AloneInv'
    BY <2>2 DEF AloneInv
  <2> QED BY <2>1, <2>2, <2>3 DEF HistoryTypes
<1> QED BY <1>1, <1>2, <1>3

LEMMA OthersStage ==
  ASSUME TInv, BindingsStay, NEW s \in Sessions, Handles(s) \/ UNCHANGED threadVars,
         NEW t \in Sessions, t # s, StageOK(t), UNCHANGED <<cpc[t], cur[t], m_func[t], fun[t]>>
  PROVE  StageOK(t)'
<1>1. UNCHANGED <<pc[t], todo[t], reply[t]>>
  BY HandlesAlone DEF threadVars
<1>2. TodoIsFor(t)'
  BY <1>1 DEF StageOK, TodoIsFor
<1> QED BY <1>1, <1>2, NamesStay DEF StageOK, BoundTo

\* A handler answers at once, or takes the closures of its answer in hand.
LEMMA CallStage ==
  ASSUME TInv, NEW s \in Sessions, NEW n \in Names, CheckFunction(s, n) \/ CheckSym(s, n)
  PROVE  /\ CheckFunction(s, n) => pc'[s] # "check_sym"
         /\ CheckSym(s, n) => pc'[s] # "check_function" /\ todo'[s] = <<>>
         /\ \A k \in DOMAIN todo'[s] :
              /\ todo'[s][k].op # "insert_xref"
              /\ todo'[s][k].op = "del_xrefs" => ~reply'[s].skip /\ todo'[s][k].id = reply'[s].id
<1>1. /\ pc \in [Sessions -> {"idle", "check_function", "check_sym", "push", "notify"}]
      /\ reply \in [Sessions -> [id : Ids \cup {None}, skip : BOOLEAN]]
      /\ todo \in [Sessions -> Seq(Closures)]
  BY DEF TInv, TypeOK
<1>2. pc[s] = "idle" /\ todo[s] = <<>>
  BY DEF CheckFunction, CheckSym, Called, TInv, ThreadsOK
<1>3. ASSUME NEW id, AnswerAfter(s, id, <<DelXrefs(id), DelErrs(id)>>)
      PROVE  /\ pc'[s] = "push"
             /\ \A k \in DOMAIN todo'[s] :
                  /\ todo'[s][k].op # "insert_xref"
                  /\ todo'[s][k].op = "del_xrefs" => ~reply'[s].skip /\ todo'[s][k].id = reply'[s].id
  <2>1. pc'[s] = "push" /\ todo'[s] = <<DelXrefs(id), DelErrs(id)>> /\ reply'[s] = [id |-> id, skip |-> FALSE]
    BY <1>1, <1>3 DEF AnswerAfter
  <2> QED BY <2>1 DEF DelXrefs, DelErrs
<1>4. ASSUME NEW id, NEW skip, Answer(s, id, skip) PROVE todo'[s] = <<>> /\ pc'[s] = "idle"
  BY <1>1, <1>2, <1>4 DEF Answer
<1>5. ASSUME NEW at \in Asking, Retry(s, at, n) PROVE todo'[s] = <<>> /\ pc'[s] = at
  BY <1>1, <1>2, <1>5 DEF Retry, Asking
<1>6. CASE CheckFunction(s, n)
  <2>1. \/ \E id : AnswerAfter(s, id, <<DelXrefs(id), DelErrs(id)>>)
        \/ \E id, skip : Answer(s, id, skip)
        \/ Retry(s, "check_function", n)
    BY <1>6 DEF CheckFunction
  <2>2. ~CheckSym(s, n) \/ (pc'[s] # "check_function" /\ todo'[s] = <<>>)
    <3>1. CheckSym(s, n) => Retry(s, "check_sym", n) \/ \E id, skip : Answer(s, id, skip)
      BY DEF CheckSym
    <3> QED BY <1>4, <1>5, <3>1 DEF Asking
  <2>3. CASE \E id : AnswerAfter(s, id, <<DelXrefs(id), DelErrs(id)>>)
    BY <1>3, <2>2, <2>3
  <2>4. CASE \E id, skip : Answer(s, id, skip)
    <3>1. todo'[s] = <<>> /\ pc'[s] = "idle"
      BY <1>4, <2>4
    <3> QED BY <3>1
  <2>5. CASE Retry(s, "check_function", n)
    <3>1. todo'[s] = <<>> /\ pc'[s] = "check_function"
      BY <1>5, <2>5 DEF Asking
    <3> QED BY <2>2, <3>1
  <2> QED BY <2>1, <2>3, <2>4, <2>5
<1>7. CASE CheckSym(s, n) /\ ~CheckFunction(s, n)
  <2>1. Retry(s, "check_sym", n) \/ \E id, skip : Answer(s, id, skip)
    BY <1>7 DEF CheckSym
  <2> QED BY <1>4, <1>5, <1>7, <2>1 DEF Asking
<1> QED BY <1>6, <1>7

\* The client's thread goes on.
LEMMA ThreadStage ==
  ASSUME TInv, BindingsStay, NEW s \in Sessions, Thread(s), StageOK(s),
         UNCHANGED <<cpc, cur, m_func, fun>>
  PROVE  StageOK(s)'
<1>1. /\ pc \in [Sessions -> {"idle", "check_function", "check_sym", "push", "notify"}]
      /\ reply \in [Sessions -> [id : Ids \cup {None}, skip : BOOLEAN]]
      /\ todo \in [Sessions -> Seq(Closures)]
  BY DEF TInv, TypeOK
<1>2. (BoundTo(m_func[s].id, fun[s]) => BoundTo(m_func[s].id, fun[s])')
  BY NamesStay DEF BoundTo
<1>3. SUFFICES /\ pc'[s] = "check_function" => cpc[s] = "check_function"
               /\ pc'[s] = "check_sym" => cpc[s] = "check_sym"
               /\ cpc[s] \in {"out", "in"} => todo'[s] = <<>>
               /\ TodoIsFor(s)'
  BY <1>2 DEF StageOK
<1>4. CASE CheckFunctionAgain(s) \/ CheckSymAgain(s)
  <2>1. pc[s] \in Asking /\ todo[s] = <<>> /\ cpc[s] = pc[s]
    BY <1>4 DEF CheckFunctionAgain, CheckSymAgain, Asking, TInv, ThreadsOK, StageOK
  <2>2. \/ \E i, n : AnswerAfter(s, i, <<InsertSym(i, n)>>)
        \/ \E i, skip : Answer(s, i, skip)
    BY <1>4 DEF CheckFunctionAgain, CheckSymAgain, Allocate
  <2>3. CASE \E i, n : AnswerAfter(s, i, <<InsertSym(i, n)>>)
    <3>1. PICK i, n : AnswerAfter(s, i, <<InsertSym(i, n)>>)
      BY <2>3
    <3>2. todo'[s] = <<InsertSym(i, n)>> /\ pc'[s] = "push"
      BY <1>1, <3>1 DEF AnswerAfter
    <3>3. TodoIsFor(s)'
      BY <3>2 DEF TodoIsFor, InsertSym
    <3> QED BY <2>1, <3>2, <3>3 DEF Asking
  <2>4. CASE \E i, skip : Answer(s, i, skip)
    <3>1. todo'[s] = <<>> /\ pc'[s] = "idle"
      BY <1>1, <2>1, <2>4 DEF Answer
    <3> QED BY <3>1 DEF TodoIsFor
  <2> QED BY <2>2, <2>3, <2>4
<1>5. CASE Push(s)
  <2>1. todo'[s] = Tail(todo[s]) /\ pc'[s] \in {"notify", "push"} /\ reply' = reply /\ todo[s] # <<>>
    BY <1>1, <1>5 DEF Push, TInv, ThreadsOK
  <2>2. \A k \in DOMAIN todo'[s] : k + 1 \in DOMAIN todo[s] /\ todo'[s][k] = todo[s][k + 1]
    BY <1>1, <2>1
  <2>3. TodoIsFor(s)'
    BY <2>1, <2>2 DEF StageOK, TodoIsFor
  <2> QED BY <2>1, <2>3 DEF StageOK
<1>6. CASE Notify(s)
  <2>1. todo' = todo /\ reply' = reply /\ pc'[s] = "idle"
    BY <1>1, <1>6 DEF Notify
  <2> QED BY <2>1 DEF StageOK, TodoIsFor
<1> QED BY <1>4, <1>5, <1>6 DEF Thread

LEMMA ClientStage ==
  ASSUME TInv, BindingInv, BindingsStay, CInv, StageInv, NEW s \in Sessions, Client(s)
  PROVE  StageInv'
<1>1. /\ HistoryTypes /\ AloneInv /\ StageOK(s) /\ \A t \in Sessions : StageOK(t)
      /\ todo \in [Sessions -> Seq(Closures)]
      /\ cpc \in [Sessions -> Places] /\ cur \in [Sessions -> Names \cup {None}]
      /\ m_func \in [Sessions -> Collected]
      /\ pc \in [Sessions -> {"idle", "check_function", "check_sym", "push", "notify"}]
      /\ reply \in [Sessions -> [id : Ids \cup {None}, skip : BOOLEAN]]
  BY DEF StageInv, CInv, ClientTypes, TInv, TypeOK
<1>2. pc[s] # "push" => todo[s] = <<>>
  BY DEF TInv, ThreadsOK
<1>3. Unsent \notin Seq(Ids)
  <2>1. Len(Unsent) = 1 /\ Unsent[1] = 0
    BY DEF Unsent, None
  <2>2. \A q \in Seq(Ids) : Len(q) = 1 => q[1] \in Ids
    OBVIOUS
  <2> QED BY <2>1, <2>2, IdsFact
\* What is left to show of any step of a client.
<1>4. ASSUME StageOK(s)', Handles(s) \/ UNCHANGED threadVars,
             UNCHANGED <<fun, alone>> \/ (\E fn \in CStrings : Enter(s, fn)) \/ Leave(s),
             sent' \in [Ids -> Seq(Ids) \cup {Unsent}],
             \A t \in Sessions : t # s => UNCHANGED <<cpc[t], cur[t], m_func[t]>>
      PROVE  StageInv'
  <2>1. /\ AloneInv'
        /\ fun' \in [Sessions -> CStrings \cup {None}] /\ alone' \in [Sessions -> BOOLEAN]
        /\ \A t \in Sessions : t # s => fun'[t] = fun[t]
    BY <1>1, <1>4, AloneKept
  <2>2. ASSUME NEW t \in Sessions, t # s PROVE StageOK(t)'
    BY <1>1, <1>4, <2>1, <2>2, OthersStage
  <2> QED BY <1>4, <2>1, <2>2 DEF StageInv, HistoryTypes
<1>5. ASSUME NEW n \in CStrings, FuncStart(s, n) PROVE StageInv'
  <2>1. /\ cpc' = [cpc EXCEPT ![s] = "check_function"] /\ cur' = [cur EXCEPT ![s] = n]
        /\ UNCHANGED <<m_func, sent>> /\ CheckFunction(s, n) /\ Enter(s, n) /\ n \in Names
    BY <1>5 DEF FuncStart, Goto, CStrings
  <2>2. fun'[s] = n
    BY <1>1, <2>1 DEF Enter, HistoryTypes
  <2>3. cpc'[s] = "check_function" /\ cur'[s] = n
    BY <1>1, <2>1
  <2>4. TodoIsFor(s)'
    BY <2>1, <2>3, CallStage DEF TodoIsFor
  <2>5. StageOK(s)'
    BY <2>1, <2>2, <2>3, <2>4, CallStage DEF StageOK, Working
  <2>6. Handles(s) /\ \A t \in Sessions : t # s => UNCHANGED <<cpc[t], cur[t], m_func[t]>>
    BY <1>1, <2>1 DEF Handles
  <2> QED BY <1>1, <1>4, <2>1, <2>5, <2>6 DEF HistoryTypes
<1>6. ASSUME NEW n \in Names, AskSym(s, n) PROVE StageInv'
  <2>1. /\ cpc' = [cpc EXCEPT ![s] = "check_sym"] /\ cur' = [cur EXCEPT ![s] = n] /\ cpc[s] = "in"
        /\ UNCHANGED <<m_func, sent, fun, alone>> /\ CheckSym(s, n)
    BY <1>6 DEF AskSym, Goto, historyVars
  <2>2. pc'[s] # "check_function" /\ todo'[s] = <<>>
    BY <2>1, CallStage
  <2>3. cpc'[s] = "check_sym"
    BY <1>1, <2>1
  <2>4. fun[s] \in CStrings /\ BoundTo(m_func[s].id, fun[s])'
    BY <1>1, <2>1, NamesStay DEF StageOK, Working, BoundTo
  <2>5. StageOK(s)'
    BY <2>1, <2>2, <2>3, <2>4 DEF StageOK, TodoIsFor, Working
  <2>6. Handles(s) /\ \A t \in Sessions : t # s => UNCHANGED <<cpc[t], cur[t], m_func[t]>>
    BY <1>1, <2>1 DEF Handles
  <2> QED BY <1>1, <1>4, <2>1, <2>5, <2>6 DEF HistoryTypes
\* The client has no function any more.
<1>7. ASSUME FuncSkipped(s) \/ FuncStopEmpty(s) \/ FuncSent(s) PROVE StageInv'
  <2>1. /\ cpc' = [cpc EXCEPT ![s] = "out"] /\ UNCHANGED <<cur, sent, threadVars>> /\ Leave(s)
        /\ m_func' = m_func \/ m_func' = [m_func EXCEPT ![s].id = None]
        /\ cpc[s] = "in" \/ pc[s] = "idle"
    BY <1>7 DEF FuncSkipped, FuncStopEmpty, FuncSent, Goto, vars, Answered
  <2>2. UNCHANGED <<pc, todo, reply>> /\ todo[s] = <<>> /\ pc[s] \notin Asking
    BY <1>1, <1>2, <2>1 DEF threadVars, StageOK, Asking
  <2>3. cpc'[s] = "out" /\ fun'[s] = None
    BY <1>1, <2>1 DEF Leave, HistoryTypes
  <2>4. StageOK(s)'
    BY <2>2, <2>3 DEF StageOK, TodoIsFor, Working, Asking
  <2>5. \A t \in Sessions : t # s => UNCHANGED <<cpc[t], cur[t], m_func[t]>>
    BY <1>1, <2>1
  <2> QED BY <1>1, <1>4, <2>1, <2>4, <2>5 DEF HistoryTypes
<1>8. ASSUME FuncStarted(s) PROVE StageInv'
  <2>1. /\ cpc[s] = "check_function" /\ pc[s] = "idle" /\ cpc' = [cpc EXCEPT ![s] = "in"]
        /\ UNCHANGED <<cur, fun, alone, threadVars>>
        /\ m_func' = [m_func EXCEPT ![s] = [NoBody EXCEPT !.id = reply[s].id]]
        /\ sent' = [sent EXCEPT ![reply[s].id] = Known(s, <<>>)]
    BY <1>8 DEF FuncStarted, Goto, Answered, historyVars, vars
  <2>2. UNCHANGED <<pc, todo, reply>> /\ todo[s] = <<>> /\ pc[s] \notin Asking
    BY <1>2, <2>1 DEF threadVars, Asking
  <2>3. BoundTo(reply[s].id, cur[s])
    <3>1. AskedOrTold(s)
      BY DEF CInv, ClientInv
    <3> QED BY <2>1, <2>2, <3>1 DEF AskedOrTold, Asking
  <2>4. fun[s] = cur[s] /\ fun[s] \in CStrings
    BY <1>1, <2>1 DEF StageOK
  <2>5. cpc'[s] = "in" /\ m_func'[s].id = reply[s].id
    BY <1>1, <2>1 DEF NoBody
  <2>6. BoundTo(m_func[s].id, fun[s])'
    BY <2>1, <2>3, <2>4, <2>5, NamesStay DEF BoundTo
  <2>7. StageOK(s)'
    BY <2>1, <2>2, <2>4, <2>5, <2>6 DEF StageOK, TodoIsFor, Working, Asking
  <2>8. sent' \in [Ids -> Seq(Ids) \cup {Unsent}]
    <3>1. Known(s, <<>>) \in Seq(Ids) \cup {Unsent}
      BY EmptyBody DEF Known
    <3> QED BY <1>1, <2>1, <3>1 DEF HistoryTypes
  <2>9. \A t \in Sessions : t # s => UNCHANGED <<cpc[t], cur[t], m_func[t]>>
    BY <1>1, <2>1
  <2> QED BY <1>4, <2>1, <2>7, <2>8, <2>9
\* The body grows.
<1>9. ASSUME \/ \E n \in Names : AddKnown(s, n)
             \/ AddAsked(s) \/ ReportError(s)
      PROVE  StageInv'
  <2>1. /\ cpc[s] = "in" \/ (cpc[s] = "check_sym" /\ pc[s] = "idle")
        /\ cpc' = cpc \/ cpc' = [cpc EXCEPT ![s] = "in"]
        /\ cpc[s] = "in" \/ cpc' = [cpc EXCEPT ![s] = "in"]
        /\ UNCHANGED <<cur, fun, alone, sent, threadVars>>
        /\ \/ \E id : AppendRef(s, id)
           \/ m_func' = [m_func EXCEPT ![s].errors = @ + 1]
    BY <1>9 DEF AddKnown, AddAsked, ReportError, Goto, Answered, historyVars, vars
  <2>2. UNCHANGED <<pc, todo, reply>> /\ todo[s] = <<>> /\ pc[s] # "check_function"
        /\ pc[s] # "check_sym"
    BY <1>1, <1>2, <2>1 DEF threadVars, StageOK
  <2>3. cpc'[s] = "in" /\ cpc[s] \in Working
    BY <1>1, <2>1 DEF Working
  <2>4. m_func'[s].id = m_func[s].id /\ \A t \in Sessions : t # s => m_func'[t] = m_func[t]
    BY <1>1, <2>1 DEF AppendRef, Collected
  <2>5. fun'[s] \in CStrings /\ BoundTo(m_func[s].id, fun[s])'
    BY <1>1, <2>1, <2>3, <2>4, NamesStay DEF StageOK, BoundTo
  <2>6. StageOK(s)'
    BY <2>2, <2>3, <2>5 DEF StageOK, TodoIsFor, Working
  <2>7. \A t \in Sessions : t # s => UNCHANGED <<cpc[t], cur[t], m_func[t]>>
    BY <1>1, <2>1, <2>4
  <2> QED BY <1>1, <1>4, <2>1, <2>6, <2>7 DEF HistoryTypes
<1>10. ASSUME FuncStop(s) PROVE StageInv'
  <2> DEFINE f == m_func[s]
             r == BodyClosures(f)
  <2>1. /\ up /\ cpc[s] = "in" /\ cpc' = [cpc EXCEPT ![s] = "add_func"] /\ UNCHANGED <<cur, m_func, fun, alone>>
        /\ AddFunc(s, f) /\ AnswerAfter(s, None, r) /\ sent' = [sent EXCEPT ![f.id] = Known(s, f.refs)]
    BY <1>10 DEF FuncStop, Goto, AddFunc, Called
  <2>2. f \in Bodies /\ f.refs \in Seq(Ids)
    BY <1>1, <2>1, BodySent DEF Collected
  <2>3. cpc'[s] = "add_func" /\ todo'[s] = r /\ pc'[s] = "push"
    BY <1>1, <2>1 DEF AnswerAfter
  <2>4. \A k \in DOMAIN r : /\ r[k].op = "insert_xref" => r[k].id = f.id
                            /\ r[k].op # "del_xrefs"
    BY <2>2, BodyParts
  <2> HIDE DEF f, r
  <2>5. TodoIsFor(s)'
    BY <2>1, <2>3, <2>4 DEF TodoIsFor, f
  <2>6. fun[s] \in CStrings /\ BoundTo(m_func[s].id, fun[s])'
    BY <1>1, <2>1, NamesStay DEF StageOK, Working, BoundTo
  <2>7. StageOK(s)'
    BY <2>1, <2>3, <2>5, <2>6 DEF StageOK, Working
  <2>8. Handles(s) /\ \A t \in Sessions : t # s => UNCHANGED <<cpc[t], cur[t], m_func[t]>>
    BY <1>1, <2>1, <2>2 DEF Handles
  <2>9. sent' \in [Ids -> Seq(Ids) \cup {Unsent}]
    BY <1>1, <2>1, <2>2 DEF HistoryTypes, Known
  <2> QED BY <1>4, <2>1, <2>7, <2>8, <2>9
<1>11. ASSUME NewProcess(s) PROVE StageInv'
  <2>1. /\ cpc[s] = "out" /\ UNCHANGED <<cpc, fun, alone, sent, threadVars>>
        /\ m_func' = [m_func EXCEPT ![s] = NoBody] /\ cur' = [cur EXCEPT ![s] = None]
    BY <1>11 DEF NewProcess, historyVars, vars
  <2>2. StageOK(s)'
    BY <1>1, <2>1 DEF StageOK, TodoIsFor, Working, threadVars
  <2>3. \A t \in Sessions : t # s => UNCHANGED <<cpc[t], cur[t], m_func[t]>>
    BY <1>1, <2>1
  <2> QED BY <1>1, <1>4, <2>1, <2>2, <2>3 DEF HistoryTypes
<1>12. ASSUME cpc[s] = "out", Quit(s), UNCHANGED clientVars PROVE StageInv'
  <2>1. UNCHANGED <<cpc, cur, m_func, fun, alone, sent, todo, reply>> /\ pc'[s] = "notify"
    BY <1>1, <1>12 DEF Quit, clientVars, historyVars
  <2>2. StageOK(s)'
    BY <1>1, <1>12, <2>1 DEF StageOK, TodoIsFor, Working
  <2> QED BY <1>1, <1>4, <1>12, <2>1, <2>2 DEF HistoryTypes, Handles
<1> QED BY <1>5, <1>6, <1>7, <1>8, <1>9, <1>10, <1>11, <1>12 DEF Client

LEMMA StepStageInv ==
  TInv /\ BindingInv /\ CInv /\ StageInv /\ [SystemNext]_systemVars => StageInv'
<1> SUFFICES ASSUME TInv, BindingInv, CInv, StageInv, [SystemNext]_systemVars PROVE StageInv'
  OBVIOUS
<1>1. [Next]_vars
  BY ServerSteps
<1>2. ASSUME up', UNCHANGED up \/ ~up PROVE BindingsStay
  BY <1>1, <1>2, StepBindings DEF Die
<1>3. ASSUME NEW s \in Sessions, Client(s) PROVE StageInv'
  <2>1. UNCHANGED vars => BindingsStay
    BY AnswerStays DEF vars, threadVars, dbVars
  <2> QED BY <1>2, <1>3, <2>1, ClientSteps, ClientStage
<1>4. ASSUME NEW s \in Sessions, Thread(s), UNCHANGED clientVars PROVE StageInv'
  <2>1. up /\ UNCHANGED up
    BY <1>4 DEF Thread, CheckFunctionAgain, CheckSymAgain, Push, Notify, TInv, DownOK
  <2>2. BindingsStay
    BY <1>2, <2>1
  <2>3. UNCHANGED <<cpc, cur, m_func, fun, alone, sent>>
    BY <1>4 DEF clientVars, historyVars
  <2>4. HistoryTypes' /\ AloneInv'
    BY <2>3 DEF StageInv, HistoryTypes, AloneInv
  <2>5. StageOK(s)'
    BY <1>4, <2>2, <2>3, ThreadStage DEF StageInv
  <2>6. ASSUME NEW t \in Sessions, t # s PROVE StageOK(t)'
    BY <1>4, <2>2, <2>3, <2>6, OthersStage DEF StageInv, Handles
  <2> QED BY <2>4, <2>5, <2>6 DEF StageInv
<1>5. ASSUME BindingsStay, UNCHANGED <<threadVars, clientVars>> PROVE StageInv'
  <2>1. UNCHANGED <<cpc, cur, m_func, fun, alone, sent, pc, todo, reply>>
    BY <1>5 DEF clientVars, historyVars, threadVars
  <2>2. HistoryTypes' /\ AloneInv'
    BY <2>1 DEF StageInv, HistoryTypes, AloneInv
  <2>3. ASSUME NEW t \in Sessions PROVE StageOK(t)'
    <3>1. StageOK(t) /\ TodoIsFor(t)'
      BY <2>1 DEF StageInv, StageOK, TodoIsFor
    <3> QED BY <1>5, <2>1, <3>1, NamesStay DEF StageOK, BoundTo
  <2> QED BY <2>2, <2>3 DEF StageInv
<1>6. ASSUME Start \/ WriterStep \/ SpuriousWakeup, UNCHANGED clientVars PROVE StageInv'
  <2>1. up' /\ (UNCHANGED up \/ ~up) /\ UNCHANGED threadVars
    BY <1>6
    DEF Start, WriterStep, WriterTest, WriterSleep, WriterApply, WriterRelock, SpuriousWakeup,
        TInv, DownOK
  <2> QED BY <1>2, <1>5, <1>6, <2>1
<1>7. CASE UNCHANGED systemVars
  <2>1. UNCHANGED threadVars /\ UNCHANGED clientVars /\ BindingsStay
    BY <1>7, AnswerStays DEF systemVars, vars, threadVars, dbVars
  <2> QED BY <1>5, <2>1
<1>8. ASSUME Die, Disconnected PROVE StageInv'
  <2>1. /\ cpc' = [s \in Sessions |-> "out"] /\ fun' = [s \in Sessions |-> None]
        /\ alone' = [s \in Sessions |-> TRUE] /\ sent' = [i \in Ids |-> Unsent]
        /\ pc' = [s \in Sessions |-> "idle"] /\ todo' = [s \in Sessions |-> <<>>]
    BY <1>8 DEF Die, Disconnected
  <2>2. HistoryTypes' /\ AloneInv'
    BY <2>1 DEF HistoryTypes, AloneInv
  <2>3. \A s \in Sessions : StageOK(s)'
    BY <2>1 DEF StageOK, TodoIsFor, Working
  <2> QED BY <2>2, <2>3 DEF StageInv
<1> QED
  BY <1>3, <1>4, <1>6, <1>7, <1>8 DEF SystemNext, Crash, WriterExit

LEMMA InitStageInv == Init /\ ClientInit => StageInv
<1> SUFFICES ASSUME Init, ClientInit PROVE StageInv
  OBVIOUS
<1>1. /\ cpc = [s \in Sessions |-> "out"] /\ fun = [s \in Sessions |-> None]
      /\ alone = [s \in Sessions |-> TRUE] /\ sent = [i \in Ids |-> Unsent]
      /\ pc = [s \in Sessions |-> "idle"] /\ todo = [s \in Sessions |-> <<>>]
  BY DEF Init, ClientInit
<1>2. HistoryTypes /\ AloneInv
  BY <1>1 DEF HistoryTypes, AloneInv
<1>3. ASSUME NEW s \in Sessions PROVE StageOK(s)
  <2>1. cpc[s] = "out" /\ fun[s] = None /\ pc[s] = "idle" /\ todo[s] = <<>>
    BY <1>1
  <2>2. TodoIsFor(s)
    BY <2>1 DEF TodoIsFor
  <2> QED BY <2>1, <2>2 DEF StageOK, Working
<1> QED BY <1>2, <1>3 DEF StageInv

-----------------------------------------------------------------------------
(***************************************************************************)
(* What becomes of the rows of a function, if nobody sends anything more.  *)
(***************************************************************************)
\* The client is at the function, or has been told its id and is about to be.
Owner(s, i) == cpc[s] \in Working /\ m_func[s].id = i

Told(s, i) ==
  cpc[s] = "check_function" /\ pc[s] \notin Asking /\ ~reply[s].skip /\ reply[s].id = i

\* The rows (i, w) that the queue and then q make of those that are stored.
Becomes(q, i, w, n) == Leads(xrefs[i][w], m_q \o q, i, w, n)

Determined == \A i, w \in Ids : \E n \in Nat : Becomes(<<>>, i, w, n)

\* Who is alone with a function starts with nothing stored for it ...
StartsClean(s, i) == Told(s, i) /\ alone[s] => \A w \in Ids : Becomes(todo[s], i, w, 0)

StartsEmpty(s) == cpc[s] \in {"in", "check_sym"} /\ alone[s] => sent[m_func[s].id] = <<>>

\* ... and nobody else stores for it what is not to be counted.
SoleOwner(i) == \A s, t \in Sessions : sent[i] # Unsent /\ Owner(s, i) /\ Owner(t, i) => s = t

BodyComing(i) ==
  sent[i] # Unsent /\ (\A s \in Sessions : ~Told(s, i)) =>
    \A w \in Ids :
      /\ \A s \in Sessions : Owner(s, i) => Becomes(todo[s], i, w, Count(sent[i], w))
      /\ (\A s \in Sessions : ~Owner(s, i)) => Becomes(<<>>, i, w, Count(sent[i], w))

BodyInv ==
  /\ Determined
  /\ \A i \in Ids : SoleOwner(i)
  /\ \A s \in Sessions : StartsEmpty(s)
  /\ \A i \in Ids \ rowless : BodyComing(i) /\ \A s \in Sessions : StartsClean(s, i)

\* Two clients at one id are at one function, and neither is alone with it.
LEMMA SameFunction ==
  ASSUME BindingInv, CInv, StageInv, NEW i, NEW s \in Sessions, NEW t \in Sessions,
         Owner(s, i) \/ Told(s, i), Owner(t, i) \/ Told(t, i), alone[s]
  PROVE  t = s
<1>1. ASSUME NEW u \in Sessions, Owner(u, i) \/ Told(u, i)
      PROVE  fun[u] \in CStrings /\ BoundTo(i, fun[u])
  <2>1. StageOK(u) /\ AskedOrTold(u)
    BY DEF StageInv, CInv, ClientInv
  <2>2. CASE Owner(u, i)
    BY <2>1, <2>2 DEF Owner, StageOK
  <2>3. CASE Told(u, i)
    BY <2>1, <2>3 DEF Told, StageOK, AskedOrTold, Asking
  <2> QED BY <1>1, <2>2, <2>3
<1>2. ASSUME NEW u \in Sessions, fun[u] \in CStrings, BoundTo(i, fun[u])
      PROVE  i \in Ids /\ \E m \in Names : c_str[m] = fun[u] /\ Bound(i, m)
  BY <1>2 DEF BoundTo, CStrings
<1>3. i \in Ids /\ \E m \in Names : c_str[m] = fun[s] /\ Bound(i, m)
  BY <1>1, <1>2
<1>4. \E m \in Names : c_str[m] = fun[t] /\ Bound(i, m)
  BY <1>1, <1>2
<1>5. fun[s] = fun[t]
  BY <1>3, <1>4 DEF BindingInv, OneNamePerId
<1>6. fun[s] # None
  BY <1>1, NamesAssumption DEF CStrings
<1> QED BY <1>5, <1>6 DEF StageInv, AloneInv

LEMMA NothingAfter ==
  ASSUME NEW S, NEW q \in Seq(S) PROVE q \o <<>> = q /\ <<>> \in Seq(S)
  OBVIOUS

LEMMA AppendAfter ==
  ASSUME NEW S, NEW q \in Seq(S), NEW c \in S, NEW d \in S
  PROVE  q \o <<c>> = Append(q, c) /\ q \o <<c, d>> = Append(Append(q, c), d) /\ Append(q, c) \in Seq(S)
  OBVIOUS

LEMMA PushedOn ==
  ASSUME NEW S, NEW q \in Seq(S), NEW r \in Seq(S), r # <<>>
  PROVE  Append(q, Head(r)) \o Tail(r) = q \o r
<1>1. r = <<Head(r)>> \o Tail(r) /\ Head(r) \in S /\ Tail(r) \in Seq(S)
  OBVIOUS
<1>2. Append(q, Head(r)) = q \o <<Head(r)>> /\ <<Head(r)>> \in Seq(S)
  BY <1>1
<1> DEFINE h == <<Head(r)>>
           t == Tail(r)
<1>3. h \in Seq(S) /\ t \in Seq(S) /\ r = h \o t
  BY <1>1, <1>2
<1> HIDE DEF h, t
<1>4. (q \o h) \o t = q \o (h \o t)
  BY <1>3
<1> QED BY <1>2, <1>3, <1>4 DEF h, t

LEMMA AppliedOff ==
  ASSUME NEW S, NEW q \in Seq(S), NEW r \in Seq(S), q # <<>>
  PROVE  q \o r \in Seq(S) /\ q \o r # <<>> /\ Head(q \o r) = Head(q) /\ Tail(q \o r) = Tail(q) \o r
  OBVIOUS

\* What the steps need of the types.
BodyTypes ==
  /\ m_q \in Seq(Closures) /\ todo \in [Sessions -> Seq(Closures)]
  /\ xrefs \in [Ids -> [Ids -> Nat]]
  /\ sent \in [Ids -> Seq(Ids) \cup {Unsent}]
  /\ alone \in [Sessions -> BOOLEAN] /\ m_func \in [Sessions -> Collected]
  /\ cpc \in [Sessions -> Places] /\ fun \in [Sessions -> CStrings \cup {None}]
  /\ pc \in [Sessions -> {"idle", "check_function", "check_sym", "push", "notify"}]
  /\ reply \in [Sessions -> [id : Ids \cup {None}, skip : BOOLEAN]]
  /\ \A s \in Sessions : pc[s] # "push" => todo[s] = <<>>

LEMMA TypesForBodies == ASSUME TInv, CInv, StageInv PROVE BodyTypes
  BY DEF TInv, TypeOK, ThreadsOK, CInv, ClientTypes, StageInv, HistoryTypes, BodyTypes

-----------------------------------------------------------------------------
(***************************************************************************)
(* The steps, one kind after the other.                                    *)
(***************************************************************************)
LEMMA BodySame ==
  ASSUME BodyInv, UNCHANGED <<m_q, xrefs, todo, cpc, m_func, pc, reply, alone, sent, rowless>>
  PROVE  BodyInv'
<1>1. \A s, i : (Owner(s, i)' <=> Owner(s, i)) /\ (Told(s, i)' <=> Told(s, i))
  BY DEF Owner, Told
<1>2. \A q, i, w, n : Becomes(q, i, w, n)' <=> Becomes(q, i, w, n)
  BY DEF Becomes
<1>3. Determined' /\ \A i \in Ids : SoleOwner(i)'
  BY <1>1, <1>2 DEF BodyInv, Determined, SoleOwner
<1>4. \A s \in Sessions : StartsEmpty(s)'
  BY DEF BodyInv, StartsEmpty
<1>5. \A i \in Ids : BodyComing(i) => BodyComing(i)'
  BY <1>1, <1>2 DEF BodyComing
<1>6. \A i \in Ids, s \in Sessions : StartsClean(s, i) => StartsClean(s, i)'
  BY <1>1, <1>2 DEF StartsClean
<1> QED BY <1>3, <1>4, <1>5, <1>6 DEF BodyInv

\* One client acts, or its thread, and nothing reaches the queue or the table.
OthersKeep(s) ==
  /\ UNCHANGED <<m_q, xrefs>> /\ rowless \subseteq rowless'
  /\ \A t \in Sessions : t # s =>
       UNCHANGED <<todo[t], cpc[t], m_func[t], pc[t], reply[t]>> /\ (alone'[t] => alone[t])

LEMMA OthersSame ==
  ASSUME NEW s \in Sessions, OthersKeep(s)
  PROVE  /\ \A t \in Sessions : \A i : t # s =>
              (Owner(t, i)' <=> Owner(t, i)) /\ (Told(t, i)' <=> Told(t, i))
         /\ \A q, i, w, n : Becomes(q, i, w, n)' <=> Becomes(q, i, w, n)
         /\ \A t \in Sessions : \A i : t # s /\ StartsClean(t, i) => StartsClean(t, i)'
<1>1. \A t \in Sessions : \A i : t # s =>
        (Owner(t, i)' <=> Owner(t, i)) /\ (Told(t, i)' <=> Told(t, i))
  BY DEF Owner, Told, OthersKeep
<1>2. \A q, i, w, n : Becomes(q, i, w, n)' <=> Becomes(q, i, w, n)
  BY DEF Becomes, OthersKeep
<1>3. \A t \in Sessions : \A i : t # s /\ StartsClean(t, i) => StartsClean(t, i)'
  BY <1>1, <1>2 DEF StartsClean, OthersKeep
<1> QED BY <1>1, <1>2, <1>3

LEMMA DeterminedStays == ASSUME Determined, UNCHANGED <<m_q, xrefs>> PROVE Determined'
  BY DEF Determined, Becomes

\* The client stays at its function, or asks for one; its thread has got no closures
\* for the rows of a function it is at.
LEMMA BodyStays ==
  ASSUME BodyTypes, BodyInv, NEW s \in Sessions, OthersKeep(s), UNCHANGED sent,
         \A i : (Owner(s, i)' <=> Owner(s, i)) /\ (Told(s, i) => Told(s, i)'),
         \A i \in Ids \ rowless : StartsClean(s, i)',
         \A i : Owner(s, i) => \/ todo'[s] = todo[s]
                               \/ todo[s] = <<>> /\ \E j \in Ids, n \in Names : todo'[s] = <<InsertSym(j, n)>>,
         StartsEmpty(s)'
  PROVE  BodyInv'
<1>1. /\ \A t \in Sessions : \A i : Owner(t, i)' <=> Owner(t, i)
      /\ \A t \in Sessions : \A i : Told(t, i) => Told(t, i)'
      /\ \A q, i, w, n : Becomes(q, i, w, n)' <=> Becomes(q, i, w, n)
      /\ \A t \in Sessions : \A i : t # s /\ StartsClean(t, i) => StartsClean(t, i)'
  BY OthersSame
<1>2. \A t \in Sessions : t # s => todo'[t] = todo[t]
  BY DEF OthersKeep
<1>3. \A i, w \in Ids : \A n : Owner(s, i) /\ Becomes(todo[s], i, w, n) => Becomes(todo'[s], i, w, n)
  <2> SUFFICES ASSUME NEW i \in Ids, NEW w \in Ids, NEW n, Owner(s, i), Becomes(todo[s], i, w, n)
               PROVE  Becomes(todo'[s], i, w, n)
    OBVIOUS
  <2>1. CASE todo'[s] = todo[s]
    BY <2>1
  <2>2. ASSUME todo[s] = <<>>, NEW j \in Ids, NEW m \in Names, todo'[s] = <<InsertSym(j, m)>>
        PROVE  Becomes(todo'[s], i, w, n)
    <3>1. InsertSym(j, m) \in Closures /\ m_q \in Seq(Closures)
      BY ClosureTypes DEF BodyTypes
    <3>2. Neutral(InsertSym(j, m), i)
      BY DEF Neutral, InsertSym, DelXrefs, InsertXref
    <3>3. Leads(xrefs[i][w], m_q \o <<>>, i, w, n)
      BY <2>2 DEF Becomes
    <3>4. Leads(xrefs[i][w], Append(m_q, InsertSym(j, m)) \o <<>>, i, w, n)
      BY <3>1, <3>2, <3>3, LeadsInsert, NothingAfter
    <3>5. Append(m_q, InsertSym(j, m)) \o <<>> = m_q \o <<InsertSym(j, m)>>
      BY <3>1, NothingAfter, AppendAfter
    <3> QED BY <2>2, <3>4, <3>5 DEF Becomes
  <2> QED BY <2>1, <2>2
<1>4. ASSUME NEW i \in Ids, BodyComing(i) PROVE BodyComing(i)'
  <2> SUFFICES ASSUME sent[i] # Unsent, \A t \in Sessions : ~Told(t, i)', NEW w \in Ids
               PROVE  /\ \A t \in Sessions : Owner(t, i)' => Becomes(todo'[t], i, w, Count(sent[i], w))
                      /\ (\A t \in Sessions : ~Owner(t, i)') => Becomes(<<>>, i, w, Count(sent[i], w))
    BY <1>1 DEF BodyComing
  <2>1. \A t \in Sessions : ~Told(t, i)
    BY <1>1
  <2>2. /\ \A t \in Sessions : Owner(t, i) => Becomes(todo[t], i, w, Count(sent[i], w))
        /\ (\A t \in Sessions : ~Owner(t, i)) => Becomes(<<>>, i, w, Count(sent[i], w))
    BY <1>4, <2>1 DEF BodyComing
  <2>3. ASSUME NEW t \in Sessions, Owner(t, i) PROVE Becomes(todo'[t], i, w, Count(sent[i], w))
    BY <1>2, <1>3, <2>2, <2>3
  <2> QED BY <1>1, <2>2, <2>3
<1>5. \A i \in Ids : SoleOwner(i)'
  BY <1>1 DEF BodyInv, SoleOwner
<1>6. \A t \in Sessions : t # s => StartsEmpty(t)'
  BY DEF BodyInv, StartsEmpty, OthersKeep
<1>7. Determined'
  BY DeterminedStays DEF BodyInv, OthersKeep
<1>8. \A i \in Ids \ rowless' : BodyComing(i)' /\ \A t \in Sessions : StartsClean(t, i)'
  BY <1>1, <1>4 DEF BodyInv, OthersKeep
<1> QED BY <1>5, <1>6, <1>7, <1>8 DEF BodyInv

LEMMA HasEither ==
  ASSUME NEW S, NEW q \in Seq(S), NEW r \in Seq(S), NEW c, Has(q \o r, c)
  PROVE  Has(q, c) \/ Has(r, c)
<1>1. /\ Len(q) \in Nat /\ Len(r) \in Nat /\ Len(q \o r) = Len(q) + Len(r) /\ q \o r \in Seq(S)
      /\ \A k \in 1 .. Len(q) : (q \o r)[k] = q[k]
      /\ \A k \in 1 .. Len(r) : (q \o r)[Len(q) + k] = r[k]
  BY SequenceParts
<1> DEFINE a == q \o r
<1>2. DOMAIN q = 1 .. Len(q) /\ DOMAIN r = 1 .. Len(r) /\ DOMAIN a = 1 .. Len(a)
  BY <1>1
<1>3. PICK k \in DOMAIN a : a[k] = c
  BY DEF Has
<1> HIDE DEF a
<1>4. CASE k \in 1 .. Len(q)
  BY <1>1, <1>2, <1>3, <1>4 DEF Has, a
<1>5. CASE k \notin 1 .. Len(q)
  <2>1. k - Len(q) \in 1 .. Len(r) /\ Len(q) + (k - Len(q)) = k
    BY <1>1, <1>2, <1>3, <1>5 DEF a
  <2> QED BY <1>1, <1>2, <1>3, <2>1 DEF Has, a
<1> QED BY <1>4, <1>5

\* Whatever a function that counts as unprocessed has in the queue, it stores nothing.
LEMMA CleanStart ==
  ASSUME BodyTypes, NewFunctionsEmpty, up, NEW i \in Ids \ rowless, i \notin m_funcs,
         NEW r \in Seq(Closures), \A w \in Ids : ~Has(r, InsertXref(i, w)), NEW w \in Ids
  PROVE  Becomes(r, i, w, 0)
<1>1. /\ m_q \in Seq(Closures) /\ xrefs[i][w] \in Nat
      /\ ~(xrefs[i][w] > 0) /\ ~Has(m_q, InsertXref(i, w))
  BY DEF NewFunctionsEmpty, Refers, InHand, BodyTypes
<1>2. m_q \o r \in Seq(Closures) /\ xrefs[i][w] = 0
  BY <1>1
<1>3. ~Has(m_q \o r, InsertXref(i, w))
  BY <1>1, HasEither
<1> QED BY <1>2, <1>3, LeadsToNone DEF Becomes

\* The two deletes of check_function leave nothing, whatever the queue makes of it.
LEMMA DeletedClean ==
  ASSUME BodyTypes, Determined, NEW i \in Ids, NEW w \in Ids
  PROVE  Becomes(<<DelXrefs(i), DelErrs(i)>>, i, w, 0)
<1>1. PICK n \in Nat : Becomes(<<>>, i, w, n)
  BY DEF Determined
<1>2. m_q \in Seq(Closures) /\ DelXrefs(i) \in Closures /\ DelErrs(i) \in Closures
  BY ClosureTypes DEF BodyTypes
<1> DEFINE x == xrefs[i][w]
           q == Append(m_q, DelXrefs(i))
<1>3. Leads(x, m_q, i, w, n)
  BY <1>1, <1>2, NothingAfter DEF Becomes
<1>4. After(DelXrefs(i), i, w, n) = 0 /\ After(DelErrs(i), i, w, 0) = 0
  BY DEF After, DelXrefs, DelErrs, InsertXref
<1>5. q \in Seq(Closures) /\ m_q \o <<DelXrefs(i), DelErrs(i)>> = Append(q, DelErrs(i))
  BY <1>2, AppendAfter
<1>6. Leads(x, q, i, w, 0)
  BY <1>2, <1>3, <1>4, LeadsAppend
<1> HIDE DEF x, q
<1>7. Leads(x, Append(q, DelErrs(i)), i, w, 0)
  BY <1>2, <1>4, <1>5, <1>6, LeadsAppend
<1> QED BY <1>5, <1>7 DEF Becomes, x

\* The client's thread does not push.
LEMMA HandlesOthersKeep ==
  ASSUME TInv, StageInv, NEW s \in Sessions, Handles(s) \/ UNCHANGED threadVars,
         UNCHANGED <<m_q, xrefs>>, rowless \subseteq rowless',
         UNCHANGED <<fun, alone>> \/ (\E fn \in CStrings : Enter(s, fn)) \/ Leave(s),
         \A t \in Sessions : t # s => UNCHANGED <<cpc[t], m_func[t]>>
  PROVE  OthersKeep(s)
<1> SUFFICES ASSUME NEW t \in Sessions, t # s
             PROVE  UNCHANGED <<todo[t], pc[t], reply[t]>> /\ (alone'[t] => alone[t])
  BY DEF OthersKeep
<1>1. UNCHANGED <<todo[t], pc[t], reply[t]>>
  BY HandlesAlone DEF threadVars
<1>2. alone'[t] => alone[t]
  BY AloneKept DEF StageInv
<1> QED BY <1>1, <1>2

LEMMA ThreadBody ==
  ASSUME TInv, BodyTypes, StageInv, OrderInv, BodyInv, NEW s \in Sessions,
         CheckFunctionAgain(s) \/ CheckSymAgain(s) \/ Notify(s), UNCHANGED clientVars
  PROVE  BodyInv'
<1>1. /\ UNCHANGED <<m_q, xrefs, cpc, m_func, fun, alone, sent, rowless>>
      /\ up
  BY DEF CheckFunctionAgain, CheckSymAgain, Notify, clientVars, historyVars, dbVars, TInv, DownOK
<1>2. OthersKeep(s)
  BY <1>1, HandlesOthersKeep DEF Handles, Thread
<1>3. /\ pc \in [Sessions -> {"idle", "check_function", "check_sym", "push", "notify"}]
      /\ reply \in [Sessions -> [id : Ids \cup {None}, skip : BOOLEAN]]
      /\ todo \in [Sessions -> Seq(Closures)]
      /\ pc[s] # "push" => todo[s] = <<>>
  BY DEF BodyTypes
<1>4. /\ \A i : Owner(s, i)' <=> Owner(s, i)
      /\ StartsEmpty(s)'
  BY <1>1 DEF Owner, StartsEmpty, BodyInv
<1>5. CASE Notify(s)
  <2>1. UNCHANGED <<todo, reply>> /\ pc[s] \notin Asking /\ pc'[s] \notin Asking
    BY <1>3, <1>5 DEF Notify, Asking
  <2>2. \A i : Told(s, i)' <=> Told(s, i)
    BY <1>1, <2>1 DEF Told
  <2>3. \A i : StartsClean(s, i) => StartsClean(s, i)'
    BY <1>1, <2>1, <2>2 DEF StartsClean, Becomes
  <2>4. \A i \in Ids \ rowless : StartsClean(s, i)'
    BY <2>3 DEF BodyInv
  <2> QED BY <1>1, <1>2, <1>4, <2>1, <2>2, <2>4, BodyStays
<1>6. ASSUME CheckFunctionAgain(s) \/ CheckSymAgain(s)
      PROVE  /\ pc[s] \in Asking /\ todo[s] = <<>> /\ cpc[s] = pc[s]
             /\ \/ \E j \in Ids, n \in Names : todo'[s] = <<InsertSym(j, n)>>
                \/ todo'[s] = todo[s]
  <2>1. pc[s] \in Asking /\ todo[s] = <<>> /\ cpc[s] = pc[s]
    BY <1>3, <1>6 DEF CheckFunctionAgain, CheckSymAgain, StageInv, StageOK, Asking
  <2>2. arg[s] \in Names
    BY <1>6 DEF CheckFunctionAgain, CheckSymAgain, TInv, ThreadsOK, CStrings
  <2>3. Allocate(s, arg[s]) \/ \E id, skip : Answer(s, id, skip)
    BY <1>6 DEF CheckFunctionAgain, CheckSymAgain
  <2>4. CASE Allocate(s, arg[s])
    <3>1. max_id + 1 \in Ids
      BY <2>4, IdsFact DEF Allocate, TInv, TypeOK, Ids
    <3>2. todo'[s] = <<InsertSym(max_id + 1, arg[s])>>
      BY <1>3, <2>4 DEF Allocate, AnswerAfter
    <3> QED BY <2>1, <2>2, <3>1, <3>2
  <2>5. CASE \E id, skip : Answer(s, id, skip)
    BY <2>1, <2>5 DEF Answer
  <2> QED BY <2>1, <2>3, <2>4, <2>5
<1>7. CASE CheckSymAgain(s)
  <2>1. cpc[s] = "check_sym"
    BY <1>6, <1>7 DEF CheckSymAgain
  <2>2. \A i : ~Told(s, i) /\ ~Told(s, i)'
    BY <1>1, <2>1 DEF Told
  <2>3. \A i \in Ids \ rowless : StartsClean(s, i)'
    BY <2>2 DEF StartsClean
  <2> QED BY <1>1, <1>2, <1>4, <1>6, <1>7, <2>2, <2>3, BodyStays
<1>8. CASE CheckFunctionAgain(s)
  <2>1. \A i : ~Told(s, i) /\ ~Owner(s, i)
    BY <1>6, <1>8 DEF CheckFunctionAgain, Told, Owner, Asking, Working
  <2>2. ASSUME NEW i \in Ids \ rowless, Told(s, i)' PROVE \A w \in Ids : Becomes(todo'[s], i, w, 0)
    <3>1. NewFunctionsEmpty /\ \A j \in m_funcs : j <= max_id
      BY <1>1 DEF OrderInv, NewFunctionsEmpty
    <3>2. reply'[s].id = i /\ ~reply'[s].skip
      BY <2>2 DEF Told
    <3>3. i \notin m_funcs /\ todo'[s] \in Seq(Closures) /\ \A w \in Ids : ~Has(todo'[s], InsertXref(i, w))
      <4>1. CASE Allocate(s, arg[s])
        <5>1. /\ todo'[s] = <<InsertSym(max_id + 1, arg[s])>> /\ i = max_id + 1
          BY <1>3, <3>2, <4>1 DEF Allocate, AnswerAfter
        <5>2. max_id \in Nat /\ arg[s] \in Names
          BY <1>8, BoundsAssumption DEF CheckFunctionAgain, TInv, TypeOK, ThreadsOK, CStrings
        <5>3. i \notin m_funcs
          <6> SUFFICES ASSUME i \in m_funcs PROVE FALSE
            OBVIOUS
          <6>1. i <= max_id
            BY <3>1
          <6> QED BY <5>1, <5>2, <6>1
        <5>4. InsertSym(i, arg[s]) \in Closures
          BY <5>2, ClosureTypes
        <5>5. \A w \in Ids : InsertSym(i, arg[s]) # InsertXref(i, w)
          BY DEF InsertSym, InsertXref
        <5> QED BY <5>1, <5>3, <5>4, <5>5 DEF Has
      <4>2. ASSUME NEW id, NEW b \in BOOLEAN, id \in m_funcs => b = TRUE, Answer(s, id, b)
            PROVE  i \notin m_funcs /\ todo'[s] = <<>>
        <5>1. reply'[s] = [id |-> id, skip |-> b] /\ todo'[s] = <<>>
          BY <1>3, <1>6, <1>8, <4>2 DEF Answer
        <5>2. reply'[s].id = id /\ reply'[s].skip = b
          BY <5>1
        <5> QED BY <3>2, <4>2, <5>1, <5>2
      <4>3. \/ Allocate(s, arg[s])
            \/ \E id : \E b \in BOOLEAN : (id \in m_funcs => b = TRUE) /\ Answer(s, id, b)
        <5> DEFINE id == m_cache[c_str[arg[s]]]
                   b == id \in m_funcs
        <5>1. Allocate(s, arg[s]) \/ Answer(s, id, b)
          BY <1>8 DEF CheckFunctionAgain
        <5>2. b \in BOOLEAN /\ (id \in m_funcs => b = TRUE)
          OBVIOUS
        <5> HIDE DEF id, b
        <5> QED BY <5>1, <5>2
      <4>4. <<>> \in Seq(Closures) /\ \A w \in Ids : ~Has(<<>>, InsertXref(i, w))
        BY DEF Has
      <4> QED BY <4>1, <4>2, <4>3, <4>4
    <3>4. ASSUME NEW r \in Seq(Closures), r = todo'[s], NEW w \in Ids PROVE Becomes(r, i, w, 0)
      BY <1>1, <3>1, <3>3, <3>4, CleanStart
    <3> QED BY <3>3, <3>4
  <2>3. ASSUME NEW i \in Ids \ rowless PROVE StartsClean(s, i)'
    <3>1. \A w \in Ids : Becomes(todo'[s], i, w, 0) => Becomes(todo[s], i, w, 0)'
      BY <1>1 DEF Becomes
    <3> QED BY <2>2, <3>1 DEF StartsClean
  <2> QED BY <1>1, <1>2, <1>4, <2>1, <2>3, BodyStays
<1> QED BY <1>5, <1>7, <1>8

\* The client asks for a function.
LEMMA FuncStartBody ==
  ASSUME TInv, BodyTypes, StageInv, OrderInv, BodyInv, NEW s \in Sessions, NEW n \in CStrings,
         FuncStart(s, n)
  PROVE  BodyInv'
<1>1. /\ cpc[s] = "out" /\ cpc' = [cpc EXCEPT ![s] = "check_function"] /\ n \in Names
      /\ UNCHANGED <<m_func, sent, rowless>> /\ CheckFunction(s, n) /\ Enter(s, n)
  BY DEF FuncStart, Goto, CStrings, Enter
<1>2. up /\ pc[s] = "idle" /\ todo[s] = <<>> /\ UNCHANGED <<m_q, xrefs, m_funcs>>
  BY <1>1 DEF CheckFunction, Called, cacheVars, dbVars, StageInv, StageOK
<1>3. /\ pc \in [Sessions -> {"idle", "check_function", "check_sym", "push", "notify"}]
      /\ reply \in [Sessions -> [id : Ids \cup {None}, skip : BOOLEAN]]
      /\ todo \in [Sessions -> Seq(Closures)]
      /\ cpc'[s] = "check_function" /\ \A t \in Sessions : t # s => UNCHANGED <<cpc[t], m_func[t]>>
  BY <1>1 DEF BodyTypes
<1>4. OthersKeep(s)
  BY <1>1, <1>2, <1>3, HandlesOthersKeep DEF Handles
<1>5. \A i : ~Owner(s, i) /\ ~Owner(s, i)' /\ ~Told(s, i)
  BY <1>1, <1>3 DEF Owner, Told, Working
<1>6. StartsEmpty(s)'
  BY <1>3 DEF StartsEmpty
<1>7. ASSUME NEW i \in Ids \ rowless, Told(s, i)', NEW w \in Ids PROVE Becomes(todo'[s], i, w, 0)
  <2>1. reply'[s].id = i /\ pc'[s] \notin Asking
    BY <1>7 DEF Told
  <2>2. ASSUME Answer(s, i, FALSE), i \notin m_funcs PROVE Becomes(todo'[s], i, w, 0)
    <3>1. todo'[s] = <<>>
      BY <1>2, <2>2 DEF Answer
    <3>2. <<>> \in Seq(Closures) /\ \A v \in Ids : ~Has(<<>>, InsertXref(i, v))
      BY DEF Has
    <3>3. Becomes(<<>>, i, w, 0)
      BY <1>2, <2>2, <3>2, CleanStart DEF OrderInv
    <3> QED BY <3>1, <3>3
  <2>3. ASSUME AnswerAfter(s, i, <<DelXrefs(i), DelErrs(i)>>) PROVE Becomes(todo'[s], i, w, 0)
    <3>1. todo'[s] = <<DelXrefs(i), DelErrs(i)>>
      BY <1>3, <2>3 DEF AnswerAfter
    <3> QED BY <3>1, DeletedClean DEF BodyInv
  <2>4. ~Retry(s, "check_function", n)
    BY <1>3, <2>1 DEF Retry, Asking
  <2>5. \E id : \/ Answer(s, id, FALSE) /\ id \notin m_funcs
                \/ AnswerAfter(s, id, <<DelXrefs(id), DelErrs(id)>>)
    BY <1>1, <2>4 DEF CheckFunction
  <2>6. \A id : Answer(s, id, FALSE) \/ AnswerAfter(s, id, <<DelXrefs(id), DelErrs(id)>>) => id = i
    BY <1>3, <2>1 DEF Answer, AnswerAfter
  <2> QED BY <2>2, <2>3, <2>5, <2>6
<1>8. ASSUME NEW i \in Ids \ rowless PROVE StartsClean(s, i)'
  <2>1. \A w \in Ids : Becomes(todo'[s], i, w, 0) => Becomes(todo[s], i, w, 0)'
    BY <1>2 DEF Becomes
  <2> QED BY <1>7, <2>1 DEF StartsClean
<1> QED BY <1>1, <1>4, <1>5, <1>6, <1>8, BodyStays

\* The client is at its function, or at none, before and after; its thread has nothing in hand.
LEMMA WorkBody ==
  ASSUME TInv, BodyTypes, StageInv, BodyInv, NEW s \in Sessions,
         \/ \E n \in Names : AddKnown(s, n) \/ AskSym(s, n)
         \/ AddAsked(s) \/ ReportError(s) \/ NewProcess(s)
         \/ cpc[s] = "out" /\ Quit(s) /\ UNCHANGED clientVars
  PROVE  BodyInv'
<1>1. /\ pc \in [Sessions -> {"idle", "check_function", "check_sym", "push", "notify"}]
      /\ todo \in [Sessions -> Seq(Closures)] /\ cpc \in [Sessions -> Places]
      /\ m_func \in [Sessions -> Collected]
      /\ pc[s] # "push" => todo[s] = <<>>
      /\ cpc[s] \in {"out", "in"} => todo[s] = <<>>
  BY DEF BodyTypes, StageInv, StageOK
<1>2. ASSUME OthersKeep(s), UNCHANGED <<sent, alone, rowless>>, todo'[s] = todo[s],
             \/ cpc[s] = "out" /\ cpc'[s] = "out"
             \/ cpc[s] \in {"in", "check_sym"} /\ cpc'[s] \in {"in", "check_sym"} /\ m_func'[s].id = m_func[s].id
      PROVE  BodyInv'
  <2>1. \A i : /\ Owner(s, i)' <=> Owner(s, i)
               /\ ~Told(s, i) /\ ~Told(s, i)'
    BY <1>2 DEF Owner, Told, Working
  <2>2. StartsEmpty(s)'
    BY <1>2 DEF BodyInv, StartsEmpty
  <2>3. \A i \in Ids \ rowless : StartsClean(s, i)'
    BY <2>1 DEF StartsClean
  <2> QED BY <1>2, <2>1, <2>2, <2>3, BodyStays
<1>3. ASSUME NEW n \in Names, AskSym(s, n) PROVE BodyInv'
  <2>1. /\ CheckSym(s, n) /\ cpc[s] = "in" /\ cpc' = [cpc EXCEPT ![s] = "check_sym"]
        /\ UNCHANGED <<m_func, fun, alone, sent, rowless, m_q, xrefs>>
    BY <1>3 DEF AskSym, Goto, historyVars, CheckSym, dbVars
  <2>2. todo'[s] = todo[s] /\ cpc'[s] = "check_sym" /\ \A t \in Sessions : t # s => cpc'[t] = cpc[t]
    BY <1>1, <2>1, CallStage
  <2>3. OthersKeep(s)
    BY <2>1, <2>2, HandlesOthersKeep DEF Handles
  <2> QED BY <1>2, <2>1, <2>2, <2>3
<1>4. ASSUME \/ \E n \in Names : AddKnown(s, n)
             \/ AddAsked(s) \/ ReportError(s)
      PROVE  BodyInv'
  <2>1. /\ cpc[s] \in {"in", "check_sym"}
        /\ \/ cpc' = cpc /\ cpc[s] = "in"
           \/ cpc' = [cpc EXCEPT ![s] = "in"]
        /\ UNCHANGED <<fun, alone, sent, rowless, vars>>
        /\ \/ \E id : AppendRef(s, id)
           \/ m_func' = [m_func EXCEPT ![s].errors = @ + 1]
    BY <1>4 DEF AddKnown, AddAsked, ReportError, Goto, Answered, historyVars
  <2>2. m_func'[s].id = m_func[s].id /\ \A t \in Sessions : t # s => UNCHANGED <<cpc[t], m_func[t]>>
    BY <1>1, <2>1 DEF AppendRef, Collected
  <2>3. cpc'[s] = "in" /\ UNCHANGED <<threadVars, todo, m_q, xrefs>>
    BY <1>1, <2>1 DEF vars, threadVars, dbVars
  <2>4. OthersKeep(s)
    BY <2>1, <2>2, <2>3, HandlesOthersKeep
  <2> QED BY <1>2, <2>1, <2>2, <2>3, <2>4
<1>5. ASSUME NewProcess(s) PROVE BodyInv'
  <2>1. /\ cpc[s] = "out" /\ m_func' = [m_func EXCEPT ![s] = NoBody]
        /\ UNCHANGED <<cpc, fun, alone, sent, rowless, threadVars, todo, m_q, xrefs>>
    BY <1>5 DEF NewProcess, historyVars, vars, threadVars, dbVars
  <2>2. OthersKeep(s)
    BY <1>1, <2>1, HandlesOthersKeep
  <2> QED BY <1>2, <2>1, <2>2
<1>6. ASSUME cpc[s] = "out", Quit(s), UNCHANGED clientVars PROVE BodyInv'
  <2>1. UNCHANGED <<cpc, m_func, fun, alone, sent, rowless, todo, m_q, xrefs>>
    BY <1>6 DEF Quit, clientVars, historyVars, dbVars
  <2>2. OthersKeep(s)
    BY <1>6, <2>1, HandlesOthersKeep DEF Handles
  <2> QED BY <1>2, <1>6, <2>1, <2>2
<1> QED BY <1>3, <1>4, <1>5, <1>6

\* The client has no function any more, and nothing of it is still in hand.
LEMMA LeaveBody ==
  ASSUME TInv, BodyTypes, StageInv, BodyInv, NEW s \in Sessions,
         FuncSkipped(s) \/ FuncStopEmpty(s) \/ FuncSent(s)
  PROVE  BodyInv'
<1>1. /\ cpc' = [cpc EXCEPT ![s] = "out"] /\ Leave(s)
      /\ UNCHANGED <<sent, rowless, threadVars, m_q, xrefs, todo, pc, reply>>
      /\ m_func' = m_func \/ m_func' = [m_func EXCEPT ![s].id = None]
      /\ cpc[s] = "in" \/ pc[s] = "idle"
      /\ cpc[s] = "check_function" => reply[s].skip
      /\ cpc[s] \in {"in", "check_function", "add_func"}
  BY DEF FuncSkipped, FuncStopEmpty, FuncSent, Goto, vars, Answered, threadVars, dbVars, Leave
<1>2. /\ cpc'[s] = "out" /\ todo[s] = <<>>
      /\ \A t \in Sessions : t # s => UNCHANGED <<cpc[t], m_func[t]>>
  BY <1>1 DEF BodyTypes, StageInv, StageOK
<1>3. OthersKeep(s)
  BY <1>1, <1>2, HandlesOthersKeep
<1>4. \A i : ~Owner(s, i)' /\ ~Told(s, i)' /\ ~Told(s, i)
  BY <1>1, <1>2 DEF Owner, Told, Working
<1>5. /\ \A t \in Sessions : \A i : t # s => (Owner(t, i)' <=> Owner(t, i)) /\ (Told(t, i)' <=> Told(t, i))
      /\ \A q, i, w, n : Becomes(q, i, w, n)' <=> Becomes(q, i, w, n)
      /\ \A t \in Sessions : \A i : t # s /\ StartsClean(t, i) => StartsClean(t, i)'
  BY <1>3, OthersSame
<1>6. ASSUME NEW i \in Ids, BodyComing(i) PROVE BodyComing(i)'
  <2> SUFFICES ASSUME sent[i] # Unsent, \A t \in Sessions : ~Told(t, i)', NEW w \in Ids
               PROVE  /\ \A t \in Sessions : Owner(t, i)' => Becomes(todo[t], i, w, Count(sent[i], w))
                      /\ (\A t \in Sessions : ~Owner(t, i)') => Becomes(<<>>, i, w, Count(sent[i], w))
    BY <1>1, <1>5 DEF BodyComing
  <2>1. \A t \in Sessions : ~Told(t, i)
    BY <1>4, <1>5
  <2>2. /\ \A t \in Sessions : Owner(t, i) => Becomes(todo[t], i, w, Count(sent[i], w))
        /\ (\A t \in Sessions : ~Owner(t, i)) => Becomes(<<>>, i, w, Count(sent[i], w))
    BY <1>6, <2>1 DEF BodyComing
  <2>3. \A t \in Sessions : Owner(t, i)' => Owner(t, i)
    BY <1>4, <1>5
  <2>4. (\A t \in Sessions : ~Owner(t, i)') => Becomes(<<>>, i, w, Count(sent[i], w))
    <3>1. CASE Owner(s, i)
      BY <1>2, <2>2, <3>1
    <3>2. CASE ~Owner(s, i)
      BY <1>5, <2>2, <3>2
    <3> QED BY <3>1, <3>2
  <2> QED BY <2>2, <2>3, <2>4
<1>7. \A i \in Ids : SoleOwner(i)'
  BY <1>1, <1>4, <1>5 DEF BodyInv, SoleOwner
<1>8. \A t \in Sessions : StartsEmpty(t)'
  BY <1>1, <1>2, <1>3 DEF BodyInv, StartsEmpty, OthersKeep
<1>9. \A i : StartsClean(s, i)'
  BY <1>4 DEF StartsClean
<1>10. \A i \in Ids \ rowless' : BodyComing(i)' /\ \A t \in Sessions : StartsClean(t, i)'
  BY <1>1, <1>5, <1>6, <1>9 DEF BodyInv
<1>11. Determined'
  BY <1>1, DeterminedStays DEF BodyInv
<1> QED BY <1>7, <1>8, <1>10, <1>11 DEF BodyInv

LEMMA CountNone == ASSUME NEW w PROVE Count(<<>>, w) = 0
<1>1. {k \in DOMAIN <<>> : <<>>[k] = w} = {}
  OBVIOUS
<1> QED BY <1>1, FS_EmptySet DEF Count

LEMMA UnsentIsNoBody == Unsent # <<>>
  BY DEF Unsent

\* What s does with the entry of its function in sent is not about anybody else's.
LEMMA OthersSent ==
  ASSUME BodyTypes, BindingInv, CInv, StageInv, BodyInv, NEW s \in Sessions, NEW id \in Ids, NEW e,
         Owner(s, id) \/ Told(s, id), OthersKeep(s), sent' = [sent EXCEPT ![id] = e]
  PROVE  /\ sent'[id] = e /\ \A i \in Ids : i # id => sent'[i] = sent[i]
         /\ \A t \in Sessions : t # s => StartsEmpty(t)'
<1>1. sent'[id] = e /\ \A i \in Ids : i # id => sent'[i] = sent[i]
  BY DEF BodyTypes
<1>2. ASSUME NEW t \in Sessions, t # s PROVE StartsEmpty(t)'
  <2> SUFFICES ASSUME cpc[t] \in {"in", "check_sym"}, alone[t] PROVE sent'[m_func[t].id] = <<>>
    BY <1>2 DEF StartsEmpty, OthersKeep
  <2>1. PICK i : i = m_func[t].id
    OBVIOUS
  <2>2. sent[i] = <<>> /\ i \in Ids /\ Owner(t, i)
    BY <2>1 DEF BodyInv, StartsEmpty, StageInv, StageOK, Working, BoundTo, Owner
  <2>3. i # id
    BY <1>2, <2>2, SameFunction
  <2> QED BY <1>1, <2>1, <2>2, <2>3
<1> QED BY <1>1, <1>2

\* The client has the id of a function, and begins with an empty body.
LEMMA StartedBody ==
  ASSUME TInv, BodyTypes, BindingInv, CInv, StageInv, BodyInv, NEW s \in Sessions, FuncStarted(s)
  PROVE  BodyInv'
<1>1. PICK id : id = reply[s].id
  OBVIOUS
<1>2. /\ cpc[s] = "check_function" /\ pc[s] = "idle" /\ ~reply[s].skip
      /\ cpc' = [cpc EXCEPT ![s] = "in"]
      /\ m_func' = [m_func EXCEPT ![s] = [NoBody EXCEPT !.id = id]]
      /\ sent' = [sent EXCEPT ![id] = Known(s, <<>>)]
      /\ UNCHANGED <<fun, alone, rowless, threadVars, m_q, xrefs, todo, pc, reply>>
  BY <1>1 DEF FuncStarted, Goto, Answered, historyVars, vars, threadVars, dbVars
<1>3. /\ cpc'[s] = "in" /\ m_func'[s].id = id /\ todo[s] = <<>>
      /\ \A t \in Sessions : t # s => UNCHANGED <<cpc[t], m_func[t]>>
  BY <1>2 DEF BodyTypes, NoBody
<1>4. OthersKeep(s)
  BY <1>2, <1>3, HandlesOthersKeep
<1>5. /\ \A i : (Owner(s, i)' <=> i = id) /\ ~Told(s, i)' /\ ~Owner(s, i) /\ (Told(s, i) <=> i = id)
  BY <1>1, <1>2, <1>3 DEF Owner, Told, Working, Asking
<1>6. id \in Ids
  <2>1. AskedOrTold(s)
    BY DEF CInv, ClientInv
  <2> QED BY <1>1, <1>2, <2>1 DEF AskedOrTold, Asking, BoundTo
<1>7. /\ \A t \in Sessions : \A i : t # s => (Owner(t, i)' <=> Owner(t, i)) /\ (Told(t, i)' <=> Told(t, i))
      /\ \A q, i, w, n : Becomes(q, i, w, n)' <=> Becomes(q, i, w, n)
      /\ \A t \in Sessions : \A i : t # s /\ StartsClean(t, i) => StartsClean(t, i)'
  BY <1>4, OthersSame
<1>8. /\ sent'[id] = Known(s, <<>>) /\ \A i \in Ids : i # id => sent'[i] = sent[i]
      /\ \A t \in Sessions : t # s => StartsEmpty(t)'
  BY <1>2, <1>4, <1>5, <1>6, OthersSent
<1>9. sent'[id] # Unsent => alone[s] /\ sent'[id] = <<>>
  BY <1>8 DEF Known
<1>10. \A t \in Sessions : alone[s] /\ Owner(t, id)' => t = s
  BY <1>5, <1>7, SameFunction
<1>11. ASSUME NEW i \in Ids PROVE SoleOwner(i)'
  <2>1. CASE i = id
    BY <1>9, <1>10, <2>1 DEF SoleOwner
  <2>2. CASE i # id
    BY <1>5, <1>7, <1>8, <2>2 DEF BodyInv, SoleOwner
  <2> QED BY <2>1, <2>2
<1>12. ASSUME NEW i \in Ids \ rowless PROVE BodyComing(i)'
  <2> SUFFICES ASSUME sent'[i] # Unsent, \A t \in Sessions : ~Told(t, i)', NEW w \in Ids
               PROVE  /\ \A t \in Sessions : Owner(t, i)' => Becomes(todo[t], i, w, Count(sent'[i], w))
                      /\ (\A t \in Sessions : ~Owner(t, i)') => Becomes(<<>>, i, w, Count(sent'[i], w))
    BY <1>2, <1>7 DEF BodyComing
  <2>1. CASE i = id
    <3>1. alone[s] /\ sent'[i] = <<>> /\ Told(s, i)
      BY <1>5, <1>9, <2>1
    <3>2. Becomes(todo[s], i, w, 0)
      BY <3>1 DEF BodyInv, StartsClean
    <3>3. \A t \in Sessions : Owner(t, i)' => t = s
      BY <1>10, <2>1, <3>1
    <3> QED BY <1>3, <1>5, <2>1, <3>1, <3>2, <3>3, CountNone
  <2>2. CASE i # id
    <3>1. sent'[i] = sent[i] /\ \A t \in Sessions : ~Told(t, i) /\ (Owner(t, i)' <=> Owner(t, i))
      BY <1>5, <1>7, <1>8, <2>2
    <3>2. BodyComing(i)
      BY DEF BodyInv
    <3> QED BY <3>1, <3>2 DEF BodyComing
  <2> QED BY <2>1, <2>2
<1>13. StartsEmpty(s)'
  BY <1>2, <1>3, <1>8 DEF StartsEmpty, Known
<1>14. \A i : StartsClean(s, i)'
  BY <1>5 DEF StartsClean
<1>15. Determined'
  BY <1>2, DeterminedStays DEF BodyInv
<1>16. \A i \in Ids \ rowless' : BodyComing(i)' /\ \A t \in Sessions : StartsClean(t, i)'
  BY <1>2, <1>7, <1>12, <1>14 DEF BodyInv
<1>17. \A t \in Sessions : StartsEmpty(t)'
  BY <1>8, <1>13
<1> QED BY <1>11, <1>15, <1>16, <1>17 DEF BodyInv

\* The client sends the body it has collected.
LEMMA StopBody ==
  ASSUME TInv, BodyTypes, BindingInv, CInv, StageInv, BodyInv, NEW s \in Sessions, FuncStop(s)
  PROVE  BodyInv'
<1>1. PICK f : f = m_func[s]
  OBVIOUS
<1>2. PICK id : id = f.id
  OBVIOUS
<1>3. /\ cpc[s] = "in" /\ cpc' = [cpc EXCEPT ![s] = "add_func"] /\ up
      /\ AddFunc(s, f) /\ AnswerAfter(s, None, BodyClosures(f))
      /\ sent' = [sent EXCEPT ![id] = Known(s, f.refs)]
      /\ rowless \subseteq rowless' /\ UNCHANGED <<m_func, fun, alone, m_q, xrefs>>
  BY <1>1, <1>2 DEF FuncStop, Goto, AddFunc, Called, dbVars
<1>4. f \in Bodies /\ id \in Ids
  BY <1>1, <1>2, <1>3, BodySent, BodyShape
<1>5. /\ cpc'[s] = "add_func" /\ todo[s] = <<>> /\ todo'[s] = BodyClosures(f)
      /\ \A t \in Sessions : t # s => UNCHANGED <<cpc[t], m_func[t]>>
  BY <1>3 DEF BodyTypes, StageInv, StageOK, AnswerAfter
<1>6. OthersKeep(s)
  BY <1>3, <1>4, <1>5, HandlesOthersKeep DEF Handles
<1>7. \A i : (Owner(s, i)' <=> i = id) /\ (Owner(s, i) <=> i = id) /\ ~Told(s, i)' /\ ~Told(s, i)
  BY <1>1, <1>2, <1>3, <1>5 DEF Owner, Told, Working
<1>8. /\ \A t \in Sessions : \A i : t # s => (Owner(t, i)' <=> Owner(t, i)) /\ (Told(t, i)' <=> Told(t, i))
      /\ \A q, i, w, n : Becomes(q, i, w, n)' <=> Becomes(q, i, w, n)
      /\ \A t \in Sessions : \A i : t # s /\ StartsClean(t, i) => StartsClean(t, i)'
  BY <1>6, OthersSame
<1>9. /\ sent'[id] = Known(s, f.refs) /\ \A i \in Ids : i # id => sent'[i] = sent[i]
      /\ \A t \in Sessions : t # s => StartsEmpty(t)'
  BY <1>3, <1>4, <1>6, <1>7, OthersSent
<1>10. sent'[id] # Unsent => alone[s] /\ sent'[id] = f.refs
  BY <1>9 DEF Known
<1>11. \A t \in Sessions : alone[s] /\ (Owner(t, id) \/ Told(t, id)) => t = s
  BY <1>7, SameFunction
<1>12. ASSUME NEW i \in Ids PROVE SoleOwner(i)'
  <2>1. CASE i = id
    BY <1>7, <1>8, <1>10, <1>11, <2>1 DEF SoleOwner
  <2>2. CASE i # id
    BY <1>7, <1>8, <1>9, <2>2 DEF BodyInv, SoleOwner
  <2> QED BY <2>1, <2>2
<1>13. ASSUME NEW i \in Ids \ rowless PROVE BodyComing(i)'
  <2> SUFFICES ASSUME sent'[i] # Unsent, \A t \in Sessions : ~Told(t, i)', NEW w \in Ids
               PROVE  /\ \A t \in Sessions : Owner(t, i)' => Becomes(todo'[t], i, w, Count(sent'[i], w))
                      /\ (\A t \in Sessions : ~Owner(t, i)') => Becomes(<<>>, i, w, Count(sent'[i], w))
    BY <1>8 DEF BodyComing
  <2>1. BodyComing(i)
    BY DEF BodyInv
  <2>2. CASE i = id
    <3>1. alone[s] /\ sent'[i] = f.refs /\ Owner(s, i)
      BY <1>7, <1>10, <2>2
    <3>2. sent[i] = <<>>
      BY <1>1, <1>2, <1>3, <2>2, <3>1 DEF BodyInv, StartsEmpty
    <3>3. \A t \in Sessions : ~Told(t, i)
      BY <1>7, <1>11, <2>2, <3>1
    <3>4. Becomes(<<>>, i, w, 0)
      BY <1>5, <2>1, <3>1, <3>2, <3>3, CountNone, UnsentIsNoBody DEF BodyComing
    <3>5. m_q \in Seq(Closures)
      BY DEF BodyTypes
    <3>6. Leads(xrefs[i][w], m_q, f.id, w, 0)
      BY <1>2, <2>2, <3>4, <3>5, NothingAfter DEF Becomes
    <3>7. Leads(xrefs[i][w], m_q \o BodyClosures(f), f.id, w, Count(f.refs, w))
      BY <1>4, <3>5, <3>6, LeadsBody
    <3>8. Becomes(todo'[s], i, w, Count(sent'[i], w))
      BY <1>2, <1>5, <2>2, <3>1, <3>7 DEF Becomes
    <3> QED BY <1>7, <1>8, <1>11, <2>2, <3>1, <3>8
  <2>3. CASE i # id
    <3>1. sent'[i] = sent[i] /\ \A t \in Sessions : ~Told(t, i) /\ (Owner(t, i)' <=> Owner(t, i))
      BY <1>7, <1>8, <1>9, <2>3
    <3>2. \A t \in Sessions : Owner(t, i) => todo'[t] = todo[t]
      BY <1>6, <1>7, <2>3 DEF OthersKeep
    <3> QED BY <2>1, <3>1, <3>2 DEF BodyComing
  <2> QED BY <2>2, <2>3
<1>14. StartsEmpty(s)'
  BY <1>5 DEF StartsEmpty
<1>15. \A i : StartsClean(s, i)'
  BY <1>7 DEF StartsClean
<1>16. Determined'
  BY <1>3, DeterminedStays DEF BodyInv
<1>17. \A i \in Ids \ rowless' : BodyComing(i)' /\ \A t \in Sessions : StartsClean(t, i)'
  BY <1>3, <1>8, <1>13, <1>15 DEF BodyInv
<1>18. \A t \in Sessions : StartsEmpty(t)'
  BY <1>9, <1>14
<1> QED BY <1>12, <1>16, <1>17, <1>18 DEF BodyInv

\* A thread pushes what it has in hand: at most the rows of its own client's function change.
LEMMA PushBody ==
  ASSUME TInv, BodyTypes, BindingInv, CInv, StageInv, BodyInv, NEW s \in Sessions,
         Push(s), UNCHANGED clientVars
  PROVE  BodyInv'
<1>1. PICK c : c = Head(todo[s])
  OBVIOUS
<1>2. /\ pc[s] = "push" /\ m_q' = Append(m_q, c) /\ todo' = [todo EXCEPT ![s] = Tail(todo[s])]
      /\ UNCHANGED <<xrefs, reply, cpc, m_func, alone, sent, rowless>>
      /\ pc' = [pc EXCEPT ![s] = IF Len(todo[s]) = 1 THEN "notify" ELSE "push"]
  BY <1>1 DEF Push, clientVars, historyVars, dbVars
<1>3. /\ pc \in [Sessions -> {"idle", "check_function", "check_sym", "push", "notify"}]
      /\ todo \in [Sessions -> Seq(Closures)] /\ m_q \in Seq(Closures)
      /\ xrefs \in [Ids -> [Ids -> Nat]]
  BY DEF BodyTypes
<1>4. todo[s] \in Seq(Closures) /\ todo[s] # <<>>
  BY <1>2, <1>3 DEF TInv, ThreadsOK
<1>5. c \in Closures /\ 1 \in DOMAIN todo[s] /\ todo[s][1] = c
  BY <1>1, <1>4
<1>6. \A i : /\ \A t \in Sessions : Owner(t, i)' <=> Owner(t, i)
             /\ \A t \in Sessions : Told(t, i)' <=> Told(t, i)
  <2>1. \A t \in Sessions : (pc'[t] \in Asking <=> pc[t] \in Asking)
    BY <1>2, <1>3 DEF Asking
  <2> QED BY <1>2, <2>1 DEF Owner, Told
<1>7. ASSUME NEW i, ~Owner(s, i), ~Told(s, i) PROVE Neutral(c, i)
  <2>1. TodoIsFor(s)
    BY DEF StageInv, StageOK
  <2>2. /\ c.op = "insert_xref" => cpc[s] = "add_func" /\ c.id = m_func[s].id
        /\ c.op = "del_xrefs" => cpc[s] = "check_function" /\ ~reply[s].skip /\ c.id = reply[s].id
    BY <1>5, <2>1 DEF TodoIsFor
  <2>3. c # DelXrefs(i)
    BY <1>2, <1>7, <2>2 DEF DelXrefs, Told, Asking
  <2>4. \A w \in Ids : c # InsertXref(i, w)
    BY <1>7, <2>2 DEF InsertXref, Owner, Working
  <2> QED BY <2>3, <2>4 DEF Neutral
\* What is pushed is only moved, for s, and comes in between, for the others.
<1>8. ASSUME NEW i, NEW w, NEW n, Becomes(todo[s], i, w, n) PROVE Becomes(todo[s], i, w, n)'
  <2>1. todo'[s] = Tail(todo[s])
    BY <1>2, <1>3
  <2>2. m_q' \o todo'[s] = m_q \o todo[s]
    BY <1>1, <1>2, <1>3, <1>4, <2>1, PushedOn
  <2> QED BY <1>2, <1>8, <2>2 DEF Becomes
<1>9. ASSUME NEW i, NEW w \in Ids, NEW n, NEW r \in Seq(Closures), Neutral(c, i), Becomes(r, i, w, n)
      PROVE  Leads(xrefs'[i][w], m_q' \o r, i, w, n)
  BY <1>2, <1>3, <1>5, <1>9, LeadsInsert DEF Becomes
<1>10. \A t \in Sessions : t # s => todo'[t] = todo[t] /\ todo[t] \in Seq(Closures)
  BY <1>2, <1>3
<1>11. ASSUME NEW i \in Ids, BodyComing(i) PROVE BodyComing(i)'
  <2> SUFFICES ASSUME sent[i] # Unsent, \A t \in Sessions : ~Told(t, i), NEW w \in Ids
               PROVE  /\ \A t \in Sessions : Owner(t, i) => Becomes(todo[t], i, w, Count(sent[i], w))'
                      /\ (\A t \in Sessions : ~Owner(t, i)) => Becomes(<<>>, i, w, Count(sent[i], w))'
    BY <1>2, <1>6 DEF BodyComing
  <2> DEFINE n == Count(sent[i], w)
  <2>1. /\ \A t \in Sessions : Owner(t, i) => Becomes(todo[t], i, w, n)
        /\ (\A t \in Sessions : ~Owner(t, i)) => Becomes(<<>>, i, w, n)
    BY <1>11 DEF BodyComing
  <2>2. n' = n
    BY <1>2 DEF Count
  <2> HIDE DEF n
  <2>3. ASSUME NEW t \in Sessions, Owner(t, i) PROVE Becomes(todo[t], i, w, n)'
    <3>1. CASE t = s
      <4>1. PICK m : m = n
        OBVIOUS
      <4>2. Becomes(todo[s], i, w, m)'
        BY <1>8, <2>1, <2>3, <3>1, <4>1
      <4> QED BY <2>2, <3>1, <4>1, <4>2 DEF Becomes
    <3>2. CASE t # s
      <4>1. Neutral(c, i)
        BY <1>7, <2>3, <3>2 DEF BodyInv, SoleOwner
      <4>2. Leads(xrefs'[i][w], m_q' \o todo[t], i, w, n)
        BY <1>9, <1>10, <2>1, <2>3, <3>2, <4>1
      <4> QED BY <1>10, <2>2, <3>2, <4>2 DEF Becomes
    <3> QED BY <3>1, <3>2
  <2>4. ASSUME \A t \in Sessions : ~Owner(t, i) PROVE Becomes(<<>>, i, w, n)'
    <3>1. Neutral(c, i) /\ <<>> \in Seq(Closures)
      BY <1>7, <2>4
    <3>2. Leads(xrefs'[i][w], m_q' \o <<>>, i, w, n)
      BY <1>9, <2>1, <2>4, <3>1
    <3> QED BY <2>2, <3>2 DEF Becomes
  <2> QED BY <2>3, <2>4 DEF n
<1>12. ASSUME NEW i \in Ids, NEW t \in Sessions, StartsClean(t, i) PROVE StartsClean(t, i)'
  <2> SUFFICES ASSUME Told(t, i), alone[t], NEW w \in Ids PROVE Becomes(todo[t], i, w, 0)'
    BY <1>2, <1>6 DEF StartsClean
  <2>1. Becomes(todo[t], i, w, 0)
    BY <1>12 DEF StartsClean
  <2>2. CASE t = s
    BY <1>8, <2>1, <2>2
  <2>3. CASE t # s
    <3>1. Neutral(c, i)
      BY <1>7, <2>3, SameFunction
    <3>2. Leads(xrefs'[i][w], m_q' \o todo[t], i, w, 0)
      BY <1>9, <1>10, <2>1, <2>3, <3>1
    <3> QED BY <1>10, <2>3, <3>2 DEF Becomes
  <2> QED BY <2>2, <2>3
<1>13. Determined'
  <2>1. ASSUME NEW i \in Ids, NEW w \in Ids
        PROVE  \E n \in Nat : Leads(xrefs'[i][w], m_q' \o <<>>, i, w, n)
    <3>1. PICK n \in Nat : Becomes(<<>>, i, w, n)
      BY DEF BodyInv, Determined
    <3>2. Leads(xrefs[i][w], m_q, i, w, n)
      BY <1>3, <3>1, NothingAfter DEF Becomes
    <3>3. After(c, i, w, n) \in Nat
      BY AfterNat
    <3>4. Leads(xrefs[i][w], Append(m_q, c), i, w, After(c, i, w, n))
      BY <1>3, <1>5, <3>2, LeadsAppend
    <3>5. Append(m_q, c) \in Seq(Closures)
      BY <1>3, <1>5
    <3> QED BY <1>2, <3>3, <3>4, <3>5, NothingAfter
  <2> QED BY <2>1 DEF Determined, Becomes
<1>14. \A i \in Ids : SoleOwner(i)'
  BY <1>2, <1>6 DEF BodyInv, SoleOwner
<1>15. \A t \in Sessions : StartsEmpty(t)'
  BY <1>2 DEF BodyInv, StartsEmpty
<1> QED BY <1>2, <1>11, <1>12, <1>13, <1>14, <1>15 DEF BodyInv

\* The first closure is what After says of every pair.
LEMMA ExecuteAfter ==
  ASSUME NEW c \in Closures, xrefs \in [Ids -> [Ids -> Nat]], Execute(c), NEW i \in Ids, NEW w \in Ids
  PROVE  xrefs'[i][w] = After(c, i, w, xrefs[i][w])
<1>1. CASE c.op = "insert_xref"
  <2>1. PICK id \in Ids, what \in Ids : c = InsertXref(id, what)
    BY <1>1 DEF Closures, InsertXref
  <2>2. xrefs' = [xrefs EXCEPT ![id][what] = @ + 1]
    BY <2>1 DEF Execute, InsertXref
  <2>3. c # DelXrefs(i) /\ (c = InsertXref(i, w) <=> id = i /\ what = w)
    BY <2>1 DEF InsertXref, DelXrefs
  <2>4. xrefs'[i][w] = IF id = i /\ what = w THEN xrefs[i][w] + 1 ELSE xrefs[i][w]
    BY <2>2
  <2> QED BY <2>3, <2>4 DEF After
<1>2. CASE c.op = "del_xrefs"
  <2>1. PICK id \in Ids : c = DelXrefs(id)
    BY <1>2 DEF Closures, DelXrefs
  <2>2. xrefs' = [xrefs EXCEPT ![id] = [v \in Ids |-> 0]]
    BY <2>1 DEF Execute, DelXrefs
  <2>3. c # InsertXref(i, w) /\ (c = DelXrefs(i) <=> id = i)
    BY <2>1 DEF InsertXref, DelXrefs
  <2>4. xrefs'[i][w] = IF id = i THEN 0 ELSE xrefs[i][w]
    BY <2>2
  <2> QED BY <2>3, <2>4 DEF After
<1>3. CASE c.op \notin {"insert_xref", "del_xrefs"}
  <2>1. xrefs' = xrefs
    BY <1>3 DEF Execute
  <2>2. c # InsertXref(i, w) /\ c # DelXrefs(i)
    BY <1>3 DEF InsertXref, DelXrefs
  <2> QED BY <2>1, <2>2 DEF After
<1> QED BY <1>1, <1>2, <1>3

\* The writer applies the first closure of the queue: what it all leads to stays.
LEMMA ApplyBody ==
  ASSUME BodyTypes, BodyInv, WriterApply, UNCHANGED clientVars
  PROVE  BodyInv'
<1>1. /\ m_q # <<>> /\ m_q' = Tail(m_q) /\ Execute(Head(m_q))
      /\ UNCHANGED <<pc, todo, reply, cpc, m_func, alone, sent, rowless>>
  BY DEF WriterApply, threadVars, clientVars, historyVars
<1>2. /\ todo \in [Sessions -> Seq(Closures)] /\ m_q \in Seq(Closures)
      /\ xrefs \in [Ids -> [Ids -> Nat]] /\ Head(m_q) \in Closures
  BY <1>1 DEF BodyTypes
<1>3. ASSUME NEW i \in Ids, NEW w \in Ids, NEW n, NEW r \in Seq(Closures), Becomes(r, i, w, n)
      PROVE  Leads(xrefs'[i][w], m_q' \o r, i, w, n)
  <2>1. xrefs'[i][w] = After(Head(m_q), i, w, xrefs[i][w])
    BY <1>1, <1>2, ExecuteAfter
  <2> DEFINE a == m_q \o r
             x == xrefs[i][w]
  <2>2. a \in Seq(Closures) /\ a # <<>> /\ Head(a) = Head(m_q) /\ Tail(a) = m_q' \o r
    BY <1>1, <1>2, AppliedOff
  <2>3. Leads(x, a, i, w, n)
    BY <1>3 DEF Becomes
  <2> HIDE DEF a, x
  <2>4. Leads(After(Head(a), i, w, x), Tail(a), i, w, n)
    BY <2>2, <2>3, LeadsTail
  <2> QED BY <2>1, <2>2, <2>4 DEF x
<1>4. \A i : /\ \A t \in Sessions : Owner(t, i)' <=> Owner(t, i)
             /\ \A t \in Sessions : Told(t, i)' <=> Told(t, i)
  BY <1>1 DEF Owner, Told
<1>5. <<>> \in Seq(Closures) /\ \A t \in Sessions : todo[t] \in Seq(Closures)
  BY <1>2
<1>6. ASSUME NEW i \in Ids, BodyComing(i) PROVE BodyComing(i)'
  <2> SUFFICES ASSUME sent[i] # Unsent, \A t \in Sessions : ~Told(t, i), NEW w \in Ids
               PROVE  /\ \A t \in Sessions : Owner(t, i) =>
                           Leads(xrefs'[i][w], m_q' \o todo[t], i, w, Count(sent[i], w))
                      /\ (\A t \in Sessions : ~Owner(t, i)) =>
                           Leads(xrefs'[i][w], m_q' \o <<>>, i, w, Count(sent[i], w))
    BY <1>1, <1>4 DEF BodyComing, Becomes
  <2>1. /\ \A t \in Sessions : Owner(t, i) => Becomes(todo[t], i, w, Count(sent[i], w))
        /\ (\A t \in Sessions : ~Owner(t, i)) => Becomes(<<>>, i, w, Count(sent[i], w))
    BY <1>6 DEF BodyComing
  <2> QED BY <1>3, <1>5, <2>1
<1>7. ASSUME NEW i \in Ids, NEW t \in Sessions, StartsClean(t, i) PROVE StartsClean(t, i)'
  <2> SUFFICES ASSUME Told(t, i), alone[t], NEW w \in Ids
               PROVE  Leads(xrefs'[i][w], m_q' \o todo[t], i, w, 0)
    BY <1>1, <1>4 DEF StartsClean, Becomes
  <2> QED BY <1>3, <1>5, <1>7 DEF StartsClean
<1>8. Determined'
  <2>1. ASSUME NEW i \in Ids, NEW w \in Ids
        PROVE  \E n \in Nat : Leads(xrefs'[i][w], m_q' \o <<>>, i, w, n)
    BY <1>3, <1>5 DEF BodyInv, Determined
  <2> QED BY <2>1 DEF Determined, Becomes
<1>9. \A i \in Ids : SoleOwner(i)'
  BY <1>1, <1>4 DEF BodyInv, SoleOwner
<1>10. \A t \in Sessions : StartsEmpty(t)'
  BY <1>1 DEF BodyInv, StartsEmpty
<1> QED BY <1>1, <1>6, <1>7, <1>8, <1>9, <1>10 DEF BodyInv

\* Nobody is connected, and nothing is queued.
NobodyThere ==
  /\ m_q = <<>> /\ xrefs \in [Ids -> [Ids -> Nat]]
  /\ cpc = [s \in Sessions |-> "out"] /\ sent = [i \in Ids |-> Unsent]

LEMMA NobodyBody == NobodyThere => BodyInv
<1> SUFFICES ASSUME NobodyThere PROVE BodyInv
  OBVIOUS
<1> USE DEF NobodyThere
<1>1. \A s \in Sessions : \A i : ~Owner(s, i) /\ ~Told(s, i)
  BY DEF Owner, Told, Working
<1>2. Determined
  <2>1. ASSUME NEW i \in Ids, NEW w \in Ids PROVE Becomes(<<>>, i, w, xrefs[i][w])
    <3>1. xrefs[i][w] \in Nat /\ m_q \o <<>> = <<>>
      OBVIOUS
    <3> QED BY <3>1, LeadsNowhere DEF Becomes
  <2> QED BY <2>1 DEF Determined
<1>3. \A i \in Ids : SoleOwner(i) /\ BodyComing(i)
  BY DEF SoleOwner, BodyComing
<1>4. \A s \in Sessions : StartsEmpty(s) /\ \A i \in Ids : StartsClean(s, i)
  BY <1>1 DEF StartsEmpty, StartsClean
<1> QED BY <1>2, <1>3, <1>4 DEF BodyInv

LEMMA StepBodyInv ==
  TInv /\ BindingInv /\ CInv /\ StageInv /\ OrderInv /\ BodyInv /\ [SystemNext]_systemVars => BodyInv'
<1> SUFFICES ASSUME TInv, BindingInv, CInv, StageInv, OrderInv, BodyInv, [SystemNext]_systemVars
             PROVE  BodyInv'
  OBVIOUS
<1>1. BodyTypes
  BY TypesForBodies
<1>2. ASSUME UNCHANGED <<m_q, dbVars, threadVars, clientVars>> PROVE BodyInv'
  <2>1. UNCHANGED <<m_q, xrefs, todo, cpc, m_func, pc, reply, alone, sent, rowless>>
    BY <1>2 DEF dbVars, threadVars, clientVars, historyVars
  <2> QED BY <2>1, BodySame
<1>3. ASSUME NEW s \in Sessions, Client(s) PROVE BodyInv'
  <2>1. CASE \E n \in CStrings : FuncStart(s, n)
    BY <1>1, <2>1, FuncStartBody
  <2>2. CASE FuncSkipped(s) \/ FuncStopEmpty(s) \/ FuncSent(s)
    BY <1>1, <2>2, LeaveBody
  <2>3. CASE FuncStarted(s)
    BY <1>1, <2>3, StartedBody
  <2>4. CASE FuncStop(s)
    BY <1>1, <2>4, StopBody
  <2>5. CASE \/ \E n \in Names : AddKnown(s, n) \/ AskSym(s, n)
             \/ AddAsked(s) \/ ReportError(s) \/ NewProcess(s)
             \/ cpc[s] = "out" /\ Quit(s) /\ UNCHANGED clientVars
    BY <1>1, <2>5, WorkBody
  <2> QED BY <1>3, <2>1, <2>2, <2>3, <2>4, <2>5 DEF Client
<1>4. ASSUME NEW s \in Sessions, Thread(s), UNCHANGED clientVars PROVE BodyInv'
  BY <1>1, <1>4, ThreadBody, PushBody DEF Thread
<1>5. ASSUME Start \/ WriterStep \/ SpuriousWakeup, UNCHANGED clientVars PROVE BodyInv'
  <2>1. CASE WriterApply
    BY <1>1, <1>5, <2>1, ApplyBody
  <2>2. CASE Start \/ WriterTest \/ WriterSleep \/ WriterRelock \/ SpuriousWakeup
    <3>1. UNCHANGED <<m_q, dbVars, threadVars>>
      BY <2>2 DEF Start, WriterTest, WriterSleep, WriterRelock, SpuriousWakeup
    <3> QED BY <1>2, <1>5, <3>1
  <2> QED BY <1>5, <2>1, <2>2 DEF WriterStep
<1>6. ASSUME Die, Disconnected PROVE BodyInv'
  <2>1. /\ m_q' = <<>> /\ xrefs' \in [Ids -> [Ids -> Nat]]
        /\ cpc' = [s \in Sessions |-> "out"] /\ sent' = [i \in Ids |-> Unsent]
    BY <1>1, <1>6 DEF Die, Disconnected, dbVars, BodyTypes
  <2>2. NobodyThere'
    BY <2>1 DEF NobodyThere
  <2>3. (NobodyThere => BodyInv)'
    BY NobodyBody, PTL
  <2> QED BY <2>2, <2>3
<1>7. CASE UNCHANGED systemVars
  BY <1>2, <1>7 DEF systemVars, vars
<1> QED BY <1>3, <1>4, <1>5, <1>6, <1>7 DEF SystemNext, Crash, WriterExit

LEMMA LedNowhere ==
  ASSUME NEW x, NEW i, NEW w, NEW n, Leads(x, <<>>, i, w, n) PROVE x = n
<1>1. Len(<<>>) = 0
  OBVIOUS
<1> QED BY <1>1 DEF Leads

\* Once nobody sends anything and the queue is empty, the references stored for a
\* function are those of the body that was sent for it last, each as often as it was
\* sent, if its client was alone with the function: check_function has deleted what
\* an earlier client, of this or of an earlier server, had stored or queued, and the
\* writer applies deletes and inserts in the order they were pushed in.
THEOREM BodyReplacedCorrect == SystemSpec => []BodyReplaced
<1>1. Init /\ ClientInit => BodyInv
  <2> SUFFICES ASSUME Init, ClientInit PROVE BodyInv
    OBVIOUS
  <2>1. NobodyThere
    BY DEF Init, ClientInit, NobodyThere
  <2> QED BY <2>1, NobodyBody
<1>2. BodyInv => BodyReplaced
  <2> SUFFICES ASSUME BodyInv, Quiet, NEW i \in Ids \ rowless, sent[i] # Unsent, NEW w \in Ids
               PROVE  xrefs[i][w] = Count(sent[i], w)
    BY DEF BodyReplaced, Count
  <2>1. m_q \o <<>> = <<>> /\ \A s \in Sessions : ~Owner(s, i) /\ ~Told(s, i)
    BY DEF Quiet, Owner, Told, Working
  <2>2. Becomes(<<>>, i, w, Count(sent[i], w))
    BY <2>1 DEF BodyInv, BodyComing
  <2> QED BY <2>1, <2>2, LedNowhere DEF Becomes
<1>3. TInv /\ BindingInv /\ CInv /\ StageInv /\ OrderInv /\ BodyInv /\ [SystemNext]_systemVars =>
        (StageInv /\ OrderInv /\ BodyInv)'
  BY StepStageInv, StepOrderInv, StepBodyInv
<1>4. Init /\ ClientInit => StageInv /\ OrderInv /\ BodyInv
  BY <1>1, InitStageInv, InitOrderInv
<1> QED BY <1>2, <1>3, <1>4, SystemInv, PTL DEF SystemSpec
=============================================================================
