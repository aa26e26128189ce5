----------------------------- MODULE PersSqlite -----------------------------
(***************************************************************************)
(* The plugin's sqlite back end (gptest/pers_sqlite.cpp over               *)
(* gptest/sqlite_cmn.inc, CACHE_ALLSYMS): every compiler process opens the *)
(* file, reads all names into its own cache and the greatest id into its   *)
(* own max_id, and then writes rows as it meets them.  Every statement is  *)
(* a transaction of its own, and its result is looked at by nobody.  A     *)
(* build runs the compilers one after the other, or several at once        *)
(* (make -j); any of them may be killed between two statements.            *)
(*                                                                         *)
(* Data is abstracted as in SymrefServer: a string is a member of Names,   *)
(* c_str truncates it at its first NUL, a file name is present or empty,   *)
(* and xrefs and errlog are bags.                                          *)
(***************************************************************************)
EXTENDS Naturals, Sequences

CONSTANTS Procs,      \* the compiler processes
          Names,      \* the strings that name functions, symbols, literals
          c_str,      \* [Names -> Names], truncation at the first NUL
          ErrorText,  \* what report_error records
          MaxId,      \* bound: the ids a process may allocate
          MaxCalls,   \* bound: functions started and things recorded
          MaxStarts   \* bound: times a process opens the file

None == 0

ASSUME ProcsAssumption == Procs # {}
ASSUME CStrAssumption ==
  /\ c_str \in [Names -> Names]
  /\ \A n \in Names : c_str[c_str[n]] = c_str[n]
ASSUME NamesAssumption == None \notin Names /\ ErrorText \notin Names \cup {None}
ASSUME BoundsAssumption == {MaxId, MaxCalls, MaxStarts} \subseteq Nat

Ids == 1 .. MaxId
CStrings == {n \in Names : c_str[n] = n}

\* The prepared statements of sqlite_cmn.inc with their parameters bound.
InsertSym(id, n, f) == [op |-> "insert_sym", id |-> id, name |-> n, fname |-> f]
UpdateFname(id)     == [op |-> "update_fname", id |-> id]
InsertErr(id)       == [op |-> "insert_err", id |-> id]
InsertXref(id, w)   == [op |-> "insert_xref", id |-> id, what |-> w]
DelXrefs(id)        == [op |-> "del_xrefs", id |-> id]
DelErrs(id)         == [op |-> "del_errs", id |-> id]

Statements == [op : {"insert_sym"}, id : Ids, name : Names, fname : BOOLEAN]
                \cup [op : {"insert_xref"}, id : Ids, what : Ids]
                \cup [op : {"update_fname", "insert_err", "del_xrefs", "del_errs"},
                      id : Ids]

VARIABLES
  parallel,   \* the build runs several compilers at once
  starts,     \* how often the file was opened
  calls,      \* calls made so far
  live,       \* the process has the file open
  m_cache,    \* map_cache::m_cache of each process, None where there is no entry
  m_funcs,    \* map_cache::m_funcs
  max_id,     \* sqlite_cmn::max_id
  m_func,     \* the function that is processed, or None
  m_func_id,  \* its id, or None when m_has_func_id is false
  arg,        \* what the call under way records, or None
  todo,       \* the statements its call still has to step
  symtab,     \* table symtab: a row for each id, or NoRow
  xrefs,      \* table xrefs: how many rows (id, what)
  errlog,     \* table errlog: how many rows id
  told,       \* history: the id a process was given last
  disturbed,  \* history: another process wrote a name, or locked the file
  body        \* history: what was recorded for an id since its function began

cacheVars   == <<m_cache, m_funcs, max_id>>
callVars    == <<m_func, m_func_id, arg>>
dbVars      == <<symtab, xrefs, errlog>>
historyVars == <<told, disturbed, body>>
vars == <<parallel, starts, calls, live, cacheVars, callVars, todo, dbVars, historyVars>>

NoRow == [name |-> None, fname |-> FALSE]
Row   == [name : Names, fname : BOOLEAN]
Kinds == Ids \cup {None}               \* of a row: what it refers to, None for an error
NoRows == [w \in Kinds |-> 0]
Unknown == <<>>

Init ==
  /\ parallel \in BOOLEAN
  /\ starts = 0
  /\ calls = 0
  /\ live = [p \in Procs |-> FALSE]
  /\ m_cache = [p \in Procs |-> [n \in Names |-> None]]
  /\ m_funcs = [p \in Procs |-> {}]
  /\ max_id = [p \in Procs |-> 0]
  /\ m_func = [p \in Procs |-> None]
  /\ m_func_id = [p \in Procs |-> None]
  /\ arg = [p \in Procs |-> None]
  /\ todo = [p \in Procs |-> <<>>]
  /\ symtab = [i \in Ids |-> NoRow]
  /\ xrefs = [i \in Ids |-> [w \in Ids |-> 0]]
  /\ errlog = [i \in Ids |-> 0]
  /\ told = [p \in Procs |-> None]
  /\ disturbed = [p \in Procs |-> FALSE]
  /\ body = [i \in Ids |-> NoRows]

-----------------------------------------------------------------------------
Stored == {i \in Ids : symtab[i] # NoRow}
Last(S) == CHOOSE i \in S \cup {None} : \A j \in S : j <= i

\* The file is locked: another process is in the middle of its statements.
Locked(p) == \E q \in Procs \ {p} : todo[q] # <<>>

\* What open() reads: the table, in rowid order, so that of several rows with
\* the same C string the last one stays ...
ReadCache == [k \in Names |-> Last({i \in Stored : c_str[symtab[i].name] = k})]
ReadFuncs == {i \in Stored : symtab[i].fname}
\* ... and get_max_id.
ReadMaxId == Last(Stored)

\* Mutated form of Open: the names of an existing file are not read.
OpenUncached(p) ==
  /\ ~live[p]
  /\ parallel \/ \A q \in Procs : ~live[q]
  /\ starts < MaxStarts
  /\ starts' = starts + 1
  /\ live' = [live EXCEPT ![p] = TRUE]
  /\ max_id' = [max_id EXCEPT ![p] = ReadMaxId]
  /\ UNCHANGED <<parallel, calls, m_cache, m_funcs, callVars, todo, dbVars, historyVars>>

\* Mutated form of Open: get_max_id is not called.
OpenUncounted(p) ==
  /\ ~live[p]
  /\ parallel \/ \A q \in Procs : ~live[q]
  /\ starts < MaxStarts
  /\ starts' = starts + 1
  /\ live' = [live EXCEPT ![p] = TRUE]
  /\ m_cache' = [m_cache EXCEPT ![p] = ReadCache]
  /\ m_funcs' = [m_funcs EXCEPT ![p] = ReadFuncs]
  /\ UNCHANGED <<parallel, calls, max_id, callVars, todo, dbVars, historyVars>>

\* open(): a locked file may refuse either of the two queries, and is taken
\* for one without names.
Open(p) ==
  /\ ~live[p]
  /\ parallel \/ \A q \in Procs : ~live[q]
  /\ starts < MaxStarts
  /\ starts' = starts + 1
  /\ live' = [live EXCEPT ![p] = TRUE]
  /\ \E counted, cached \in {TRUE, ~Locked(p)} :
       /\ max_id' = [max_id EXCEPT ![p] = IF counted THEN ReadMaxId ELSE 0]
       /\ m_cache' = [m_cache EXCEPT ![p] = IF cached THEN ReadCache ELSE @]
       /\ m_funcs' = [m_funcs EXCEPT ![p] = IF cached THEN ReadFuncs ELSE {}]
       /\ disturbed' = [disturbed EXCEPT ![p] = ~counted \/ ~cached]
  /\ UNCHANGED <<parallel, calls, callVars, todo, dbVars, told, body>>

\* disconnect() when the compiler is done, or a kill between two statements.
\* Of what had been recorded for a function some rows may be missing.
Exit(p) ==
  /\ live[p]
  /\ live' = [live EXCEPT ![p] = FALSE]
  /\ m_cache' = [m_cache EXCEPT ![p] = [n \in Names |-> None]]
  /\ m_funcs' = [m_funcs EXCEPT ![p] = {}]
  /\ max_id' = [max_id EXCEPT ![p] = 0]
  /\ m_func' = [m_func EXCEPT ![p] = None]
  /\ m_func_id' = [m_func_id EXCEPT ![p] = None]
  /\ arg' = [arg EXCEPT ![p] = None]
  /\ todo' = [todo EXCEPT ![p] = <<>>]
  /\ told' = [told EXCEPT ![p] = None]
  /\ disturbed' = [disturbed EXCEPT ![p] = FALSE]
  /\ body' = [i \in Ids |-> IF \E k \in DOMAIN todo[p] : todo[p][k].id = i
                              THEN Unknown ELSE body[i]]
  /\ UNCHANGED <<parallel, starts, calls, dbVars>>

-----------------------------------------------------------------------------
Idle(p) == live[p] /\ arg[p] = None /\ todo[p] = <<>>

Called == calls < MaxCalls /\ calls' = calls + 1

\* Nothing has been recorded for the id since its function began.
Begun(id) == body' = [body EXCEPT ![id] = NoRows]

\* func_start of a name that has no id: its row is made when it is needed.
StartUnseen(p, fn) ==
  /\ Idle(p) /\ m_func[p] = None /\ Called
  /\ m_cache[p][fn] = None
  /\ m_func' = [m_func EXCEPT ![p] = fn]
  /\ told' = [told EXCEPT ![p] = None]
  /\ UNCHANGED <<parallel, starts, live, cacheVars, m_func_id, arg, todo, dbVars,
                 disturbed, body>>

\* func_start of a name somebody has referred to: it gets its file name now.
StartReferenced(p, fn) ==
  /\ Idle(p) /\ m_func[p] = None /\ Called
  /\ LET id == m_cache[p][fn]
     IN /\ id # None /\ id \notin m_funcs[p]
        /\ m_func_id' = [m_func_id EXCEPT ![p] = id]
        /\ m_funcs' = [m_funcs EXCEPT ![p] = @ \cup {id}]
        /\ todo' = [todo EXCEPT ![p] = <<UpdateFname(id)>>]
        /\ told' = [told EXCEPT ![p] = id]
        /\ Begun(id)
  /\ m_func' = [m_func EXCEPT ![p] = fn]
  /\ UNCHANGED <<parallel, starts, live, m_cache, max_id, arg, dbVars, disturbed>>

\* Mutated form of StartProcessed: the errors of the earlier body stay.
StartProcessedXrefs(p, fn) ==
  /\ Idle(p) /\ m_func[p] = None /\ Called
  /\ LET id == m_cache[p][fn]
     IN /\ id \in m_funcs[p]
        /\ m_func_id' = [m_func_id EXCEPT ![p] = id]
        /\ todo' = [todo EXCEPT ![p] = <<DelXrefs(id)>>]
        /\ told' = [told EXCEPT ![p] = id]
        /\ Begun(id)
  /\ m_func' = [m_func EXCEPT ![p] = fn]
  /\ UNCHANGED <<parallel, starts, live, cacheVars, arg, dbVars, disturbed>>

\* func_start of a function that has been processed: its body goes.
StartProcessed(p, fn) ==
  /\ Idle(p) /\ m_func[p] = None /\ Called
  /\ LET id == m_cache[p][fn]
     IN /\ id \in m_funcs[p]
        /\ m_func_id' = [m_func_id EXCEPT ![p] = id]
        /\ todo' = [todo EXCEPT ![p] = <<DelXrefs(id), DelErrs(id)>>]
        /\ told' = [told EXCEPT ![p] = id]
        /\ Begun(id)
  /\ m_func' = [m_func EXCEPT ![p] = fn]
  /\ UNCHANGED <<parallel, starts, live, cacheVars, arg, dbVars, disturbed>>

\* add_xref, add_literal, report_error.
Record(p, what) ==
  /\ Idle(p) /\ m_func[p] # None /\ Called
  /\ arg' = [arg EXCEPT ![p] = what]
  /\ UNCHANGED <<parallel, starts, live, cacheVars, m_func, m_func_id, todo, dbVars,
                 historyVars>>

\* The next id goes to the name, in the cache of this process.
Allocate(p, n) ==
  /\ max_id[p] < MaxId
  /\ max_id' = [max_id EXCEPT ![p] = @ + 1]
  /\ m_cache' = [m_cache EXCEPT ![p][c_str[n]] = max_id[p] + 1]

Mid(p) == arg[p] # None /\ todo[p] = <<>>

\* add_func: the first thing recorded makes the function's row.
AddFunc(p) ==
  /\ Mid(p)
  /\ m_func_id[p] = None
  /\ Allocate(p, m_func[p])
  /\ LET id == max_id[p] + 1
     IN /\ m_func_id' = [m_func_id EXCEPT ![p] = id]
        /\ m_funcs' = [m_funcs EXCEPT ![p] = @ \cup {id}]
        /\ todo' = [todo EXCEPT ![p] = <<InsertSym(id, m_func[p], TRUE)>>]
        /\ told' = [told EXCEPT ![p] = id]
        /\ Begun(id)
  /\ UNCHANGED <<parallel, starts, calls, live, m_func, arg, dbVars, disturbed>>

\* One more row of the kind is on its way for the function.
Recorded(p, w) ==
  LET id == m_func_id[p]
  IN body' = IF body[id] = Unknown THEN body ELSE [body EXCEPT ![id][w] = @ + 1]

\* check_symbol and check_literal look the whole string up ...
RefKnown(p) ==
  /\ Mid(p)
  /\ m_func_id[p] # None
  /\ arg[p] \in Names
  /\ LET id == m_cache[p][arg[p]]
     IN /\ id # None
        /\ todo' = [todo EXCEPT ![p] = <<InsertXref(m_func_id[p], id)>>]
        /\ told' = [told EXCEPT ![p] = id]
        /\ Recorded(p, id)
  /\ arg' = [arg EXCEPT ![p] = None]
  /\ UNCHANGED <<parallel, starts, calls, live, cacheVars, m_func, m_func_id, dbVars,
                 disturbed>>

\* ... or give it the next id and a row without a file name.
RefNew(p) ==
  /\ Mid(p)
  /\ m_func_id[p] # None
  /\ arg[p] \in Names
  /\ m_cache[p][arg[p]] = None
  /\ Allocate(p, arg[p])
  /\ LET id == max_id[p] + 1
     IN /\ todo' = [todo EXCEPT ![p] = <<InsertSym(id, arg[p], FALSE),
                                         InsertXref(m_func_id[p], id)>>]
        /\ told' = [told EXCEPT ![p] = id]
        /\ Recorded(p, id)
  /\ arg' = [arg EXCEPT ![p] = None]
  /\ UNCHANGED <<parallel, starts, calls, live, m_funcs, m_func, m_func_id, dbVars,
                 disturbed>>

AddError(p) ==
  /\ Mid(p)
  /\ m_func_id[p] # None
  /\ arg[p] = ErrorText
  /\ todo' = [todo EXCEPT ![p] = <<InsertErr(m_func_id[p])>>]
  /\ Recorded(p, None)
  /\ arg' = [arg EXCEPT ![p] = None]
  /\ UNCHANGED <<parallel, starts, calls, live, cacheVars, m_func, m_func_id, dbVars,
                 told, disturbed>>

\* func_stop: of a function nothing was recorded for, nothing was written.
FuncStop(p) ==
  /\ Idle(p) /\ m_func[p] # None
  /\ m_func' = [m_func EXCEPT ![p] = None]
  /\ m_func_id' = [m_func_id EXCEPT ![p] = None]
  /\ UNCHANGED <<parallel, starts, calls, live, cacheVars, arg, todo, dbVars, historyVars>>

-----------------------------------------------------------------------------
\* sqlite3_step: a row whose id is taken (PRIMARY KEY) is refused.
Execute(c) ==
  /\ symtab' = CASE c.op = "insert_sym" /\ symtab[c.id] = NoRow ->
                      [symtab EXCEPT ![c.id] = [name |-> c.name, fname |-> c.fname]]
                 [] c.op = "update_fname" /\ symtab[c.id] # NoRow ->
                      [symtab EXCEPT ![c.id].fname = TRUE]
                 [] OTHER -> symtab
  /\ xrefs' = CASE c.op = "insert_xref" -> [xrefs EXCEPT ![c.id][c.what] = @ + 1]
                [] c.op = "del_xrefs" -> [xrefs EXCEPT ![c.id] = [w \in Ids |-> 0]]
                [] OTHER -> xrefs
  /\ errlog' = CASE c.op = "insert_err" -> [errlog EXCEPT ![c.id] = @ + 1]
                 [] c.op = "del_errs" -> [errlog EXCEPT ![c.id] = 0]
                 [] OTHER -> errlog

Stepped(p) == todo' = [todo EXCEPT ![p] = Tail(@)]

Statement(p) ==
  /\ todo[p] # <<>>
  /\ Execute(Head(todo[p]))
  /\ Stepped(p)
  /\ LET hit == IF Head(todo[p]).op = "insert_sym" THEN {q \in Procs \ {p} : live[q]} ELSE {}
     IN disturbed' = [q \in Procs |-> disturbed[q] \/ q \in hit]
  /\ UNCHANGED <<parallel, starts, calls, live, cacheVars, callVars, told, body>>

\* SQLITE_BUSY, and no busy_timeout: the statement is lost.
Refused(p) ==
  /\ todo[p] # <<>>
  /\ Locked(p)
  /\ Stepped(p)
  /\ disturbed' = [disturbed EXCEPT ![p] = TRUE]
  /\ UNCHANGED <<parallel, starts, calls, live, cacheVars, callVars, dbVars, told, body>>

Next ==
  \E p \in Procs :
    \/ Open(p)
    \/ Exit(p)
    \/ \E fn \in CStrings : StartUnseen(p, fn) \/ StartReferenced(p, fn)
                                               \/ StartProcessed(p, fn)
    \/ \E what \in Names \cup {ErrorText} : Record(p, what)
    \/ AddFunc(p)
    \/ RefKnown(p)
    \/ RefNew(p)
    \/ AddError(p)
    \/ FuncStop(p)
    \/ Statement(p)
    \/ Refused(p)

Spec == Init /\ [][Next]_vars

-----------------------------------------------------------------------------
\* The row is there, or is the next thing its process writes.
Bound(p, id, n) ==
  \/ symtab[id] # NoRow /\ c_str[symtab[id].name] = n
  \/ \E k \in DOMAIN todo[p] : /\ todo[p][k].op = "insert_sym" /\ todo[p][k].id = id
                               /\ c_str[todo[p][k].name] = n /\ symtab[id] = NoRow

\* Compilers at the same file: the ids a process uses for its names are those
\* of the table, until another process gives out an id of its own or has the
\* file locked when a row is to be written.  From then on its references may be
\* to another name, and no error is reported (++max_id, sqlite3_step).
CacheTrue ==
  \A p \in Procs, n \in Names :
    m_cache[p][n] # None => Bound(p, m_cache[p][n], n) \/ disturbed[p]

Quiet == \A p \in Procs : todo[p] = <<>>

\* One compiler after the other: whatever was killed where, the references and
\* errors stored for a function are those recorded since it was last begun.  A
\* half-written body is replaced when the function is compiled again.
RowsAsRecorded ==
  Quiet /\ ~parallel =>
    \A i \in Ids : body[i] # Unknown =>
      errlog[i] = body[i][None] /\ \A w \in Ids : xrefs[i][w] = body[i][w]

-----------------------------------------------------------------------------
(***************************************************************************)
(* One compiler after the other, and no name with a NUL: the back end is   *)
(* the same registry of names the server is.  The registry is the cache of *)
(* the process that runs, or else the table.                               *)
(***************************************************************************)
StoredId(n) == Last({i \in Stored : symtab[i].name = n})

boundIds ==
  [n \in Names |-> IF \E p \in Procs : live[p]
                     THEN m_cache[CHOOSE p \in Procs : live[p]][n] ELSE StoredId(n)]

storedNames == {symtab[i].name : i \in Stored}

Registry == INSTANCE NameRegistry
  WITH Clients <- Procs, Strings <- Names, Numbers <- Ids, Nothing <- None,
       reg <- boundIds, kept <- storedNames, answer <- told

\* Every name keeps the id it got, through the compilers of a build and of the
\* builds after it; a kill forgets the name whose row was to be written next.
ImplementsRegistry ==
  /\ parallel \/ Registry!RegistryInit
  /\ [][parallel \/ Registry!RegistryNext]_<<boundIds, storedNames, told>>
=============================================================================
