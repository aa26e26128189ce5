------------------------------ MODULE PersRpc -------------------------------
(***************************************************************************)
(* The clients of SymrefServer: gcc processes with the plugin of gptest    *)
(* and its back end gptest/pers_rpc.cpp.  The plugin walks the functions   *)
(* of one translation unit; for each it asks the server whether to process *)
(* it, collects references and errors (resolving each name through a local *)
(* cache), and sends the whole body at the end.  Calls are synchronous: a  *)
(* client waits until its session's thread has answered.  A client dies    *)
(* with the server, because nothing catches the transport's exception.     *)
(***************************************************************************)
EXTENDS SymrefServer, FiniteSets

VARIABLES
  cpc,      \* where each plugin is
  cur,      \* the name its call is about
  m_syms,   \* pers_rpc::m_syms, ids of names already resolved
  m_func,   \* pers_rpc::m_func, the body being collected
  fun,      \* history: the function each plugin is processing, or None
  alone,    \* history: no other plugin has been processing that function
  rowless,  \* history: ids whose body was sent before their symtab row was queued
  sent      \* history: for each id the references its last body had, or Unsent

historyVars == <<fun, alone, rowless>>
clientVars == <<cpc, cur, m_syms, m_func, historyVars, sent>>
systemVars == <<vars, clientVars>>

Unsent == <<None>>
NoBody == [id |-> None, errors |-> 0, refs |-> <<>>]
NoSyms == [n \in Names |-> None]

ClientInit ==
  /\ cpc = [s \in Sessions |-> "out"]
  /\ cur = [s \in Sessions |-> None]
  /\ m_syms = [s \in Sessions |-> NoSyms]
  /\ m_func = [s \in Sessions |-> NoBody]
  /\ fun = [s \in Sessions |-> None]
  /\ alone = [s \in Sessions |-> TRUE]
  /\ rowless = {}
  /\ sent = [i \in Ids |-> Unsent]

Answered(s, at) == up /\ cpc[s] = at /\ pc[s] = "idle"

Goto(s, at) == cpc' = [cpc EXCEPT ![s] = at]

\* The plugin begins to process fn: others that are at it are not alone.
Enter(s, fn) ==
  LET others == {t \in Sessions \ {s} : fun[t] = fn}
  IN /\ fun' = [fun EXCEPT ![s] = fn]
     /\ alone' = [t \in Sessions |-> IF t = s THEN others = {}
                                     ELSE alone[t] /\ t \notin others]
        /\ UNCHANGED rowless

Leave(s) ==
  /\ fun' = [fun EXCEPT ![s] = None]
  /\ alone' = [alone EXCEPT ![s] = TRUE]
  /\ UNCHANGED rowless

\* The handler that allocated the id has not queued its symtab row yet.
RowInHand(id) ==
  \E t \in Sessions : \E i \in DOMAIN todo[t] :
    todo[t][i].op = "insert_sym" /\ todo[t][i].id = id

\* What an id's rows are known to be, given what one plugin knows of them.
Known(s, refs) == IF alone[s] THEN refs ELSE Unsent

-----------------------------------------------------------------------------
\* func_start sends check_function ...
FuncStart(s, fn) ==
  /\ cpc[s] = "out"
  /\ CheckFunction(s, fn)
  /\ Goto(s, "check_function")
  /\ cur' = [cur EXCEPT ![s] = fn]
  /\ Enter(s, fn)
  /\ UNCHANGED <<m_syms, m_func, sent>>

\* ... and has its answer: a skipped function is left to somebody else.
FuncSkipped(s) ==
  /\ Answered(s, "check_function")
  /\ reply[s].skip
  /\ m_func' = [m_func EXCEPT ![s].id = None]
  /\ Goto(s, "out")
  /\ Leave(s)
  /\ UNCHANGED <<vars, cur, m_syms, sent>>

FuncStarted(s) ==
  /\ Answered(s, "check_function")
  /\ ~reply[s].skip
  /\ LET id == reply[s].id
     IN /\ m_func' = [m_func EXCEPT ![s] = [NoBody EXCEPT !.id = id]]
        /\ m_syms' = [m_syms EXCEPT ![s][cur[s]] = id]
        /\ sent' = [sent EXCEPT ![id] = Known(s, <<>>)]
  /\ Goto(s, "in")
  /\ UNCHANGED <<vars, cur, historyVars>>

HasRoom(s) == m_func[s].errors + Len(m_func[s].refs) < MaxRefs

AppendRef(s, id) ==
  m_func' = [m_func EXCEPT ![s].refs = Append(@, id)]

\* add_xref and add_literal: pers_rpc::check_sym knows the name ...
AddKnown(s, n) ==
  /\ cpc[s] = "in"
  /\ HasRoom(s)
  /\ m_syms[s][n] # None
  /\ AppendRef(s, m_syms[s][n])
  /\ UNCHANGED <<vars, cpc, cur, m_syms, historyVars, sent>>

\* ... or asks the server for it, and goes on with the answer.
AskSym(s, n) ==
  /\ cpc[s] = "in"
  /\ HasRoom(s)
  /\ m_syms[s][n] = None
  /\ CheckSym(s, n)
  /\ Goto(s, "check_sym")
  /\ cur' = [cur EXCEPT ![s] = n]
  /\ UNCHANGED <<m_syms, m_func, historyVars, sent>>

AddAsked(s) ==
  /\ Answered(s, "check_sym")
  /\ m_syms' = [m_syms EXCEPT ![s][cur[s]] = reply[s].id]
  /\ AppendRef(s, reply[s].id)
  /\ Goto(s, "in")
  /\ UNCHANGED <<vars, cur, historyVars, sent>>

ReportError(s) ==
  /\ cpc[s] = "in"
  /\ HasRoom(s)
  /\ m_func' = [m_func EXCEPT ![s].errors = @ + 1]
  /\ UNCHANGED <<vars, cpc, cur, m_syms, historyVars, sent>>

\* func_stop: an empty function is not sent, and keeps its id in m_func.
FuncStopEmpty(s) ==
  /\ cpc[s] = "in"
  /\ m_func[s].refs = <<>> /\ m_func[s].errors = 0
  /\ Goto(s, "out")
  /\ Leave(s)
  /\ UNCHANGED <<vars, cur, m_syms, m_func, sent>>

FuncStop(s) ==
  /\ cpc[s] = "in"
  /\ m_func[s].refs # <<>> \/ m_func[s].errors > 0
  /\ AddFunc(s, m_func[s])
  /\ Goto(s, "add_func")
  /\ sent' = [sent EXCEPT ![m_func[s].id] = Known(s, m_func[s].refs)]
  /\ rowless' = rowless \cup (IF RowInHand(m_func[s].id) THEN {m_func[s].id} ELSE {})
  /\ UNCHANGED <<cur, m_syms, m_func, fun, alone>>

FuncSent(s) ==
  /\ Answered(s, "add_func")
  /\ m_func' = [m_func EXCEPT ![s].id = None]
  /\ Goto(s, "out")
  /\ Leave(s)
  /\ UNCHANGED <<vars, cur, m_syms, sent>>

\* The translation unit is done; the next gcc process starts with nothing.
NewProcess(s) ==
  /\ cpc[s] = "out"
  /\ m_syms' = [m_syms EXCEPT ![s] = NoSyms]
  /\ m_func' = [m_func EXCEPT ![s] = NoBody]
  /\ cur' = [cur EXCEPT ![s] = None]
  /\ UNCHANGED <<vars, cpc, historyVars, sent>>

\* Mutated form of Disconnected: the plugin connects again with its cache.
ConnectedAgain ==
  /\ cpc' = [s \in Sessions |-> "out"]
  /\ cur' = [s \in Sessions |-> None]
  /\ m_func' = [s \in Sessions |-> NoBody]
  /\ fun' = [s \in Sessions |-> None]
  /\ alone' = [s \in Sessions |-> TRUE]
  /\ UNCHANGED rowless
  /\ sent' = [i \in Ids |-> Unsent]
  /\ UNCHANGED m_syms

\* The server is gone, and with it every client that was connected: its next call
\* throws, nothing in the plugin catches it, and the compiler ends.  What the
\* queue held of a body is lost, so no body counts as sent.
Disconnected ==
  /\ cpc' = [s \in Sessions |-> "out"]
  /\ cur' = [s \in Sessions |-> None]
  /\ m_syms' = [s \in Sessions |-> NoSyms]
  /\ m_func' = [s \in Sessions |-> NoBody]
  /\ fun' = [s \in Sessions |-> None]
  /\ alone' = [s \in Sessions |-> TRUE]
  /\ UNCHANGED rowless
  /\ sent' = [i \in Ids |-> Unsent]

-----------------------------------------------------------------------------
Client(s) ==
  \/ \E fn \in CStrings : FuncStart(s, fn)
  \/ FuncSkipped(s)
  \/ FuncStarted(s)
  \/ \E n \in Names : AddKnown(s, n) \/ AskSym(s, n)
  \/ AddAsked(s)
  \/ ReportError(s)
  \/ FuncStopEmpty(s)
  \/ FuncStop(s)
  \/ FuncSent(s)
  \/ NewProcess(s)
  \/ cpc[s] = "out" /\ Quit(s) /\ UNCHANGED clientVars

SystemNext ==
  \/ (Start \/ WriterStep \/ SpuriousWakeup) /\ UNCHANGED clientVars
  \/ (Crash \/ WriterExit) /\ Disconnected
  \/ \E s \in Sessions : Thread(s) /\ UNCHANGED clientVars
  \/ \E s \in Sessions : Client(s)

SystemSpec == Init /\ ClientInit /\ [][SystemNext]_systemVars

-----------------------------------------------------------------------------
\* A client's own cache never outlives what the server knows: an id it holds
\* for a name still has that name's row, also after the server was killed,
\* lost its queue and was started again.
ClientIdsCurrent ==
  \A s \in Sessions, n \in Names :
    m_syms[s][n] # None =>
      \E m \in Names : c_str[m] = c_str[n] /\ Bound(m_syms[s][n], m)

Quiet == up /\ m_q = <<>> /\ \A s \in Sessions : pc[s] = "idle" /\ cpc[s] = "out"

\* When everything is quiet, the references stored for a function are exactly
\* those of the body sent for it last, whoever sent it, as long as no two
\* plugins were processing it at the same time: check_function deletes the
\* rows of an earlier body before add_func inserts the new ones, also when the
\* earlier body was stored before a crash, and only in part.  Two plugins that
\* are at the same function (an inline function of a header) both add theirs.
\* Nothing is said of rowless ids: when a crash loses such a row but not the body,
\* the server gives the id to another function, which has the old rows as well.
BodyReplaced ==
  Quiet => \A i \in Ids \ rowless : sent[i] # Unsent =>
    \A w \in Ids : xrefs[i][w] = Cardinality({k \in DOMAIN sent[i] : sent[i][k] = w})

\* A function whose body was sent is marked as processed in the table, with its
\* file name, unless the body overtook the row: check_sym and check_function
\* queue the row of a new id only after they have published the id in the
\* cache, so that another client's add_func may come first.  Its update_fname
\* finds no row, and the function stays unmarked after a restart.
ProcessedMarked ==
  Quiet => \A i \in m_funcs \ rowless : symtab[i].fname

\* "store in cache" (server.cpp:194), in place of "CREATE UNIQUE INDEX
\* idx_symtab ON symtab(name)" (sqlite_cmn.inc, compiled out because the cache
\* keeps names unique): no name has two rows.
UniqueNames ==
  \A i, j \in Stored : symtab[i].name = symtab[j].name => i = j
=============================================================================
