---------------------------- MODULE SymrefServer ----------------------------
(***************************************************************************)
(* The cross-reference server of gptest/thrift/server.cpp: one handler     *)
(* object shared by the threads of a TThreadedServer (one thread for each  *)
(* connected client), a cache of symbol names under a shared mutex, a      *)
(* queue of SQL closures under a second mutex, and the writer thread that  *)
(* sleeps on a condition variable and applies the closures to the sqlite   *)
(* file.  The server may be told to quit, may be killed, and may be        *)
(* started again on the same file (gptest/sqlite_cmn.inc).                 *)
(*                                                                         *)
(* Data is abstracted to what the protocol tells apart.  A string is a     *)
(* member of Names; c_str is what std::string::c_str() followed by a copy  *)
(* of a C string does to it (a name with a trailing NUL loses it).  A file *)
(* name is present or empty.  Of an xrefs row only the function and the    *)
(* referenced symbol are kept, of an errlog row only the function; both    *)
(* tables are bags, because they have no key.                              *)
(***************************************************************************)
EXTENDS Naturals, Sequences

CONSTANTS Sessions,   \* the client connections, one server thread for each
          Names,      \* the strings that name functions, symbols, literals
          c_str,      \* [Names -> Names], truncation at the first NUL
          MaxId,      \* bound: the ids a run may allocate
          MaxRefs,    \* bound: errors and references in one function body
          MaxCalls,   \* bound: calls the clients make in a behaviour
          MaxStarts   \* bound: times the server is started

None == 0                       \* the "no id" of FCheck, check and check_func

ASSUME SessionsAssumption == Sessions # {}
ASSUME CStrAssumption ==
  /\ c_str \in [Names -> Names]
  /\ \A n \in Names : c_str[c_str[n]] = c_str[n]
ASSUME NamesAssumption == None \notin Names
ASSUME BoundsAssumption ==
  {MaxId, MaxRefs, MaxCalls, MaxStarts} \subseteq Nat

Ids == 1 .. MaxId
CStrings == {n \in Names : c_str[n] = n}

(***************************************************************************)
(* The closures that handlers queue for the writer: the prepared           *)
(* statements of sqlite_cmn.inc with their parameters bound.               *)
(***************************************************************************)
InsertSym(id, n)    == [op |-> "insert_sym", id |-> id, name |-> n]
UpdateFname(id)     == [op |-> "update_fname", id |-> id]
InsertErr(id)       == [op |-> "insert_err", id |-> id]
InsertXref(id, w)   == [op |-> "insert_xref", id |-> id, what |-> w]
DelXrefs(id)        == [op |-> "del_xrefs", id |-> id]
DelErrs(id)         == [op |-> "del_errs", id |-> id]

Closures == [op : {"insert_sym"}, id : Ids, name : Names]
              \cup [op : {"insert_xref"}, id : Ids, what : Ids]
              \cup [op : {"update_fname", "insert_err", "del_xrefs", "del_errs"},
                    id : Ids]

\* FFunc: its id, the number of error records and the ids it refers to.
Bodies == [id : Ids, errors : 0 .. MaxRefs,
           refs : UNION {[1 .. k -> Ids] : k \in 0 .. MaxRefs}]

VARIABLES
  up,         \* the server process runs
  starts,     \* how often it was started
  calls,      \* calls made so far
  m_cache,    \* map_cache::m_cache, None where there is no entry
  m_funcs,    \* map_cache::m_funcs
  max_id,     \* sqlite_cmn::max_id
  m_q,        \* the queue of closures
  m_quit,     \* set by quit()
  writer,     \* where the writer thread is
  pc,         \* where each session's thread is
  arg,        \* the name its call is about
  todo,       \* the closures its call still has to push
  reply,      \* FCheck: the id and the skip flag it answers
  symtab,     \* table symtab: a row for each id, or NoRow
  xrefs,      \* table xrefs: how many rows (id, what)
  errlog      \* table errlog: how many rows id

cacheVars  == <<m_cache, m_funcs, max_id>>
dbVars     == <<symtab, xrefs, errlog>>
threadVars == <<pc, arg, todo, reply>>
vars == <<up, starts, calls, cacheVars, m_q, m_quit, writer, threadVars, dbVars>>

NoRow == [name |-> None, fname |-> FALSE]
Row   == [name : Names, fname : BOOLEAN]

Init ==
  /\ up = FALSE
  /\ starts = 0
  /\ calls = 0
  /\ m_cache = [n \in Names |-> None]
  /\ m_funcs = {}
  /\ max_id = 0
  /\ m_q = <<>>
  /\ m_quit = FALSE
  /\ writer = "gone"
  /\ pc = [s \in Sessions |-> "idle"]
  /\ arg = [s \in Sessions |-> None]
  /\ todo = [s \in Sessions |-> <<>>]
  /\ reply = [s \in Sessions |-> [id |-> None, skip |-> FALSE]]
  /\ symtab = [i \in Ids |-> NoRow]
  /\ xrefs = [i \in Ids |-> [w \in Ids |-> 0]]
  /\ errlog = [i \in Ids |-> 0]

-----------------------------------------------------------------------------
(***************************************************************************)
(* The process: open() reads symtab into the cache in rowid order, so of   *)
(* several rows with the same C string the last one stays; a dead process  *)
(* loses everything but the file.                                          *)
(***************************************************************************)
Stored == {i \in Ids : symtab[i] # NoRow}

IsLast(i, S) == IF S = {} THEN i = None ELSE i \in S /\ \A j \in S : j <= i

\* Mutated form of Start: get_max_id is not called.
StartWithoutMaxId ==
  /\ ~up
  /\ starts < MaxStarts
  /\ up' = TRUE
  /\ starts' = starts + 1
  /\ m_cache' \in {cache \in [Names -> Ids \cup {None}] :
                     \A k \in Names :
                       IsLast(cache[k], {i \in Stored : c_str[symtab[i].name] = k})}
  /\ m_funcs' = {i \in Stored : symtab[i].fname}
  /\ writer' = "woken"
  /\ UNCHANGED <<calls, max_id, m_q, m_quit, threadVars, dbVars>>

Start ==
  /\ ~up
  /\ starts < MaxStarts
  /\ up' = TRUE
  /\ starts' = starts + 1
  /\ m_cache' \in {cache \in [Names -> Ids \cup {None}] :
                     \A k \in Names :
                       IsLast(cache[k], {i \in Stored : c_str[symtab[i].name] = k})}
  /\ m_funcs' = {i \in Stored : symtab[i].fname}
  /\ max_id' \in {i \in 0 .. MaxId : IsLast(i, Stored)}
  /\ writer' = "woken"
  /\ UNCHANGED <<calls, m_q, m_quit, threadVars, dbVars>>

Die ==
  /\ up' = FALSE
  /\ m_cache' = [n \in Names |-> None]
  /\ m_funcs' = {}
  /\ max_id' = 0
  /\ m_q' = <<>>
  /\ m_quit' = FALSE
  /\ writer' = "gone"
  /\ pc' = [s \in Sessions |-> "idle"]
  /\ arg' = [s \in Sessions |-> None]
  /\ todo' = [s \in Sessions |-> <<>>]
  /\ reply' = [s \in Sessions |-> [id |-> None, skip |-> FALSE]]
  /\ UNCHANGED <<starts, calls, dbVars>>

\* The process is killed between two statements.
Crash == up /\ Die

-----------------------------------------------------------------------------
(***************************************************************************)
(* The handlers.  A region under m_cache_lock is one step: all accesses to *)
(* the cache, m_funcs and max_id are under it.                             *)
(***************************************************************************)
Called(s) ==
  /\ up
  /\ pc[s] = "idle"
  /\ calls < MaxCalls
  /\ calls' = calls + 1

\* The call of s is answered without anything to push.
Answer(s, id, skip) ==
  /\ pc' = [pc EXCEPT ![s] = "idle"]
  /\ arg' = [arg EXCEPT ![s] = None]
  /\ reply' = [reply EXCEPT ![s] = [id |-> id, skip |-> skip]]
  /\ UNCHANGED todo

\* The answer is known, and goes out after the closures are pushed.
AnswerAfter(s, id, closures) ==
  /\ pc' = [pc EXCEPT ![s] = "push"]
  /\ arg' = [arg EXCEPT ![s] = None]
  /\ reply' = [reply EXCEPT ![s] = [id |-> id, skip |-> FALSE]]
  /\ todo' = [todo EXCEPT ![s] = closures]

\* Not cached: leave the shared lock and go for the unique one.
Retry(s, at, n) ==
  /\ pc' = [pc EXCEPT ![s] = at]
  /\ arg' = [arg EXCEPT ![s] = n]
  /\ UNCHANGED <<todo, reply>>

\* Mutated form of Allocate: the row of the new symbol is not queued.
AllocateSilently(s, n) ==
  /\ max_id < MaxId
  /\ max_id' = max_id + 1
  /\ m_cache' = [m_cache EXCEPT ![c_str[n]] = max_id + 1]
  /\ Answer(s, max_id + 1, FALSE)
  /\ UNCHANGED m_funcs

\* Give the name the next id, cache it, and queue its symtab row.
Allocate(s, n) ==
  /\ max_id < MaxId
  /\ max_id' = max_id + 1
  /\ m_cache' = [m_cache EXCEPT ![c_str[n]] = max_id + 1]
  /\ AnswerAfter(s, max_id + 1, <<InsertSym(max_id + 1, n)>>)
  /\ UNCHANGED m_funcs

\* Mutated form of CheckFunction: the rows of the earlier body stay.
CheckFunctionKeepsBody(s, n) ==
  /\ Called(s)
  /\ LET id == m_cache[c_str[n]]
     IN \/ id = None /\ Retry(s, "check_function", n)
        \/ id # None /\ Answer(s, id, FALSE)
  /\ UNCHANGED <<up, starts, cacheVars, m_q, m_quit, writer, dbVars>>

\* check_function under the shared lock, and clear_func's closures.
CheckFunction(s, n) ==
  /\ Called(s)
  /\ LET id == m_cache[c_str[n]]
     IN \/ id = None /\ Retry(s, "check_function", n)
        \/ id # None /\ id \notin m_funcs /\ Answer(s, id, FALSE)
        \/ id \in m_funcs /\ AnswerAfter(s, id, <<DelXrefs(id), DelErrs(id)>>)
  /\ UNCHANGED <<up, starts, cacheVars, m_q, m_quit, writer, dbVars>>

\* Mutated form of CheckFunctionAgain: no second lookup.
CheckFunctionOnce(s) ==
  /\ pc[s] = "check_function"
  /\ Allocate(s, arg[s])
  /\ UNCHANGED <<up, starts, calls, m_q, m_quit, writer, dbVars>>

\* check_function under the unique lock: somebody may have been faster.
CheckFunctionAgain(s) ==
  /\ pc[s] = "check_function"
  /\ LET n  == arg[s]
         id == m_cache[c_str[n]]
     IN \/ id = None /\ Allocate(s, n)
        \/ id # None /\ Answer(s, id, id \in m_funcs) /\ UNCHANGED cacheVars
  /\ UNCHANGED <<up, starts, calls, m_q, m_quit, writer, dbVars>>

\* check_sym looks the whole string up, NUL included.
CheckSym(s, n) ==
  /\ Called(s)
  /\ LET id == m_cache[n]
     IN \/ id = None /\ Retry(s, "check_sym", n)
        \/ id # None /\ Answer(s, id, FALSE)
  /\ UNCHANGED <<up, starts, cacheVars, m_q, m_quit, writer, dbVars>>

\* Mutated form of CheckSymAgain: no second lookup.
CheckSymOnce(s) ==
  /\ pc[s] = "check_sym"
  /\ Allocate(s, arg[s])
  /\ UNCHANGED <<up, starts, calls, m_q, m_quit, writer, dbVars>>

CheckSymAgain(s) ==
  /\ pc[s] = "check_sym"
  /\ LET n  == arg[s]
         id == m_cache[n]
     IN \/ id = None /\ Allocate(s, n)
        \/ id # None /\ Answer(s, id, FALSE) /\ UNCHANGED cacheVars
  /\ UNCHANGED <<up, starts, calls, m_q, m_quit, writer, dbVars>>

\* The closures of add_func, in the order it pushes them.
BodyClosures(f) ==
  <<UpdateFname(f.id)>> \o [i \in 1 .. f.errors |-> InsertErr(f.id)]
                        \o [i \in 1 .. Len(f.refs) |-> InsertXref(f.id, f.refs[i])]

AddFunc(s, f) ==
  /\ Called(s)
  /\ m_funcs' = m_funcs \cup {f.id}
  /\ AnswerAfter(s, None, BodyClosures(f))
  /\ UNCHANGED <<up, starts, m_cache, max_id, m_q, m_quit, writer, dbVars>>

\* quit sets the flag without m_db_lock; the notify_one is a step of its own.
Quit(s) ==
  /\ Called(s)
  /\ m_quit' = TRUE
  /\ pc' = [pc EXCEPT ![s] = "notify"]
  /\ UNCHANGED <<up, starts, cacheVars, m_q, writer, arg, todo, reply, dbVars>>

\* db_push: the writer holds m_db_lock unless it is blocked in the wait.
DbLockFree == writer \in {"waiting", "woken"}

\* Mutated form of Push: the closure is dropped when the writer is busy.
PushOrDrop(s) ==
  /\ pc[s] = "push"
  /\ m_q' = IF DbLockFree THEN Append(m_q, Head(todo[s])) ELSE m_q
  /\ todo' = [todo EXCEPT ![s] = Tail(todo[s])]
  /\ pc' = [pc EXCEPT ![s] = IF Len(todo[s]) = 1 THEN "notify" ELSE "push"]
  /\ UNCHANGED <<up, starts, calls, cacheVars, m_quit, writer, arg, reply, dbVars>>

\* Mutated form of Push: a function without a body does not wake the writer.
PushQuietly(s) ==
  /\ pc[s] = "push"
  /\ DbLockFree
  /\ m_q' = Append(m_q, Head(todo[s]))
  /\ todo' = [todo EXCEPT ![s] = Tail(todo[s])]
  /\ pc' = [pc EXCEPT ![s] = CASE Len(todo[s]) > 1 -> "push"
                                [] Head(todo[s]).op = "update_fname" -> "idle"
                                [] OTHER -> "notify"]
  /\ UNCHANGED <<up, starts, calls, cacheVars, m_quit, writer, arg, reply, dbVars>>

Push(s) ==
  /\ pc[s] = "push"
  /\ DbLockFree
  /\ m_q' = Append(m_q, Head(todo[s]))
  /\ todo' = [todo EXCEPT ![s] = Tail(todo[s])]
  /\ pc' = [pc EXCEPT ![s] = IF Len(todo[s]) = 1 THEN "notify" ELSE "push"]
  /\ UNCHANGED <<up, starts, calls, cacheVars, m_quit, writer, arg, reply, dbVars>>

\* m_cv.notify_one() is lost on a writer that does not wait.
Notify(s) ==
  /\ pc[s] = "notify"
  /\ pc' = [pc EXCEPT ![s] = "idle"]
  /\ writer' = IF writer = "waiting" THEN "woken" ELSE writer
  /\ UNCHANGED <<up, starts, calls, cacheVars, m_q, m_quit, arg, todo, reply, dbVars>>

-----------------------------------------------------------------------------
(***************************************************************************)
(* The writer thread: take m_db_lock, evaluate the predicate of the wait,  *)
(* then either fall asleep (releasing the lock) or apply every closure     *)
(* that is queued while holding the lock.                                  *)
(***************************************************************************)
WriterTest ==
  /\ writer = "woken"
  /\ writer' = IF m_quit \/ m_q # <<>> THEN "drain" ELSE "sleepy"
  /\ UNCHANGED <<up, starts, calls, cacheVars, m_q, m_quit, threadVars, dbVars>>

WriterSleep ==
  /\ writer = "sleepy"
  /\ writer' = "waiting"
  /\ UNCHANGED <<up, starts, calls, cacheVars, m_q, m_quit, threadVars, dbVars>>

SpuriousWakeup ==
  /\ writer = "waiting"
  /\ writer' = "woken"
  /\ UNCHANGED <<up, starts, calls, cacheVars, m_q, m_quit, threadVars, dbVars>>

\* Mutated form of Execute: update_fname makes the row it does not find.
ExecuteUpsert(c) ==
  /\ symtab' = CASE c.op = "insert_sym" /\ symtab[c.id] = NoRow ->
                      [symtab EXCEPT ![c.id] = [name |-> c.name, fname |-> FALSE]]
                 [] c.op = "update_fname" -> [symtab EXCEPT ![c.id].fname = TRUE]
                 [] OTHER -> symtab
  /\ UNCHANGED <<xrefs, errlog>>

\* The prepared statement, stepped once; a failing one changes nothing.
Execute(c) ==
  /\ symtab' = CASE c.op = "insert_sym" /\ symtab[c.id] = NoRow ->
                      [symtab EXCEPT ![c.id] = [name |-> c.name, fname |-> FALSE]]
                 [] c.op = "update_fname" /\ symtab[c.id] # NoRow ->
                      [symtab EXCEPT ![c.id].fname = TRUE]
                 [] OTHER -> symtab
  /\ xrefs' = CASE c.op = "insert_xref" -> [xrefs EXCEPT ![c.id][c.what] = @ + 1]
                [] c.op = "del_xrefs" -> [xrefs EXCEPT ![c.id] = [w \in Ids |-> 0]]
                [] OTHER -> xrefs
  /\ errlog' = CASE c.op = "insert_err" -> [errlog EXCEPT ![c.id] = @ + 1]
                 [] c.op = "del_errs" -> [errlog EXCEPT ![c.id] = 0]
                 [] OTHER -> errlog

WriterApply ==
  /\ writer = "drain"
  /\ m_q # <<>>
  /\ Execute(Head(m_q))
  /\ m_q' = Tail(m_q)
  /\ UNCHANGED <<up, starts, calls, cacheVars, m_quit, writer, threadVars>>

\* Mutated form of WriterRelock: m_quit is not looked at after the drain.
WriterRelockAlways ==
  /\ writer = "drain"
  /\ m_q = <<>>
  /\ writer' = "woken"
  /\ UNCHANGED <<up, starts, calls, cacheVars, m_q, m_quit, threadVars, dbVars>>

WriterRelock ==
  /\ writer = "drain"
  /\ m_q = <<>>
  /\ ~m_quit
  /\ writer' = "woken"
  /\ UNCHANGED <<up, starts, calls, cacheVars, m_q, m_quit, threadVars, dbVars>>

\* close() and exit(0): the handler threads die wherever they are.
WriterExit ==
  /\ writer = "drain"
  /\ m_q = <<>>
  /\ m_quit
  /\ Die

-----------------------------------------------------------------------------
WriterStep == WriterTest \/ WriterSleep \/ WriterApply \/ WriterRelock

Writer == WriterStep \/ WriterExit

Thread(s) == CheckFunctionAgain(s) \/ CheckSymAgain(s) \/ Push(s) \/ Notify(s)

\* What any client may send: ids that are in use, names, and quit.
Request(s) ==
  \/ \E n \in CStrings : CheckFunction(s, n)
  \/ \E n \in Names : CheckSym(s, n)
  \/ \E f \in Bodies : f.id <= max_id
                       /\ (\A i \in DOMAIN f.refs : f.refs[i] <= max_id)
                       /\ f.errors + Len(f.refs) <= MaxRefs
                       /\ AddFunc(s, f)
  \/ Quit(s)

Next ==
  \/ Start
  \/ Crash
  \/ Writer
  \/ SpuriousWakeup
  \/ \E s \in Sessions : Request(s) \/ Thread(s)

Spec == Init /\ [][Next]_vars

(***************************************************************************)
(* The scheduler runs every thread that can run: the writer, and a handler *)
(* that has something left to do.  Nothing makes a client call, a process  *)
(* crash or start, or a condition variable wake up spuriously.             *)
(***************************************************************************)
FairSpec ==
  /\ Spec
  /\ WF_vars(Writer)
  /\ \A s \in Sessions : WF_vars(Thread(s))

-----------------------------------------------------------------------------
Outstanding(c) ==
  \/ \E i \in DOMAIN m_q : m_q[i] = c
  \/ \E s \in Sessions : \E i \in DOMAIN todo[s] : todo[s][i] = c

\* The id belongs to the name: in the table, or in a row still on its way.
Bound(id, n) ==
  \/ symtab[id] # NoRow /\ symtab[id].name = n
  \/ Outstanding(InsertSym(id, n))

\* The variables hold values of the types the code declares.
TypeOK ==
  /\ up \in BOOLEAN /\ m_quit \in BOOLEAN
  /\ starts \in Nat /\ calls \in Nat
  /\ m_cache \in [Names -> Ids \cup {None}]
  /\ m_funcs \subseteq Ids
  /\ max_id \in 0 .. MaxId
  /\ m_q \in Seq(Closures)
  /\ writer \in {"gone", "woken", "sleepy", "waiting", "drain"}
  /\ pc \in [Sessions -> {"idle", "check_function", "check_sym", "push", "notify"}]
  /\ arg \in [Sessions -> Names \cup {None}]
  /\ todo \in [Sessions -> Seq(Closures)]
  /\ reply \in [Sessions -> [id : Ids \cup {None}, skip : BOOLEAN]]
  /\ symtab \in [Ids -> Row \cup {NoRow}]
  /\ xrefs \in [Ids -> [Ids -> Nat]]
  /\ errlog \in [Ids -> Nat]

\* No id is given to two names, whichever threads allocate at once, and
\* whatever a crash left in the file (++max_id under m_cache_lock, get_max_id).
OneNamePerId ==
  \A id \in Ids : \A n1, n2 \in Names : Bound(id, n1) /\ Bound(id, n2) => n1 = n2

\* The double check of check_sym and check_function: however many clients ask
\* for a new C string at once, one symtab row is made for it.
OneIdPerCString ==
  \A n \in CStrings : \A i, j \in Ids : Bound(i, n) /\ Bound(j, n) => i = j

\* A cache entry is never ahead of the rows: each id the cache can answer has
\* its row in the table, in the queue, or in the hands of a handler.
CacheBacked ==
  \A k \in Names, i \in Ids :
    m_cache[k] = i => \E n \in Names : c_str[n] = k /\ Bound(i, n)

\* Until a first crash, a row of xrefs refers to a symbol that has its row or
\* whose row is on its way: no reference is to an id that means nothing.
RefsBacked ==
  up /\ starts = 1 =>
    \A i, w \in Ids : xrefs[i][w] > 0 => \E n \in Names : Bound(w, n)

\* A closure that is queued is applied (or dies with the process): no wakeup
\* for queued work is lost, also for a function without a body.
QueueDrains == m_q # <<>> ~> m_q = <<>>

\* A quit that finds or is followed by queued work ends the process.
QuitWithWork == m_quit /\ m_q # <<>> ~> ~up
=============================================================================
