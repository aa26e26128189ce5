# TLA+ models of dwarfdump

dwarfdump reads the DWARF debug information of an ELF file and writes the types
and functions it finds as C++ or JSON.  The same repository holds `gptest`, a gcc
plugin that collects cross-references while programs are compiled, and a server
that gathers them from many compilers at once.  This directory models the stateful
core of both: the plugin's three ways to keep what it found (server, sqlite, text),
and how dwarfdump gets from the bytes of its sections to a tree of types.

Two kinds of evidence are kept apart below.  TLC checks small instances
completely; TLAPS proves theorems for every value of the constants.

    tlc -workers 2 -config SymrefServer.cfg MCSymrefServer.tla   # one run
    tlapm UnitRoot_proof.tla                                     # one proof module

`PROJECT.json` lists the runs, the lines of source each definition models, a
mutation for each property that breaks it, the findings, and the hazards with the
properties that are about them.

## 1. Inventory

### The cross-references (`src/gptest`)

| component | state | operations | how it interacts |
|---|---|---|---|
| server (`thrift/server.cpp`, `sqlite_cmn.inc`) | cache of names and of finished functions under a shared mutex, `max_id`, a queue of SQL closures under a second mutex, a condition variable, `m_quit`, the sqlite file | `check_function`, `check_sym`, `add_func`, `quit`, `ping`, open, close, the writer thread | one thread for each connection, all share one handler object; the writer is the only one that touches sqlite |
| RPC client (`pers_rpc.cpp`) | its own cache of ids, the body being collected | `func_start`, `func_stop`, `add_xref`, `add_literal`, `report_error` | synchronous calls to the server |
| sqlite client (`pers_sqlite.cpp`, `sqlite_cmn.inc`) | cache, `max_id`, the function it is at | the same, and `connect`, `disconnect` | several compiler processes may have the same file open |
| text client (`pers_text.cpp`) | a buffered file, which of the lines `func` and `bb` are still owed | the same, and `bb_start`, `bb_stop` | compilers append to one file |
| plugin (`gptest.cpp`) | gcc's trees, the block it is in | `execute` for each function | calls one of the three clients |

What is hard: two threads that miss the same name at once; ids answered before
their rows are stored; a kill between two statements and a restart on the same
file; statements that fail and nobody notices; wakeups of the writer; a literal
whose last byte is NUL; lines whose meaning is in lines written earlier.  It is
correct when no id means two names, no name has two ids, everything the cache
answers gets its row, references do not dangle, a function that is processed again
replaces its old body, a reference in the text is read as of the function and block
it was found in, and the queue drains.

### dwarfdump (`src/*.cc`)

| component | state | operations | how it interacts |
|---|---|---|---|
| DIE walk (`ElfFile.cc`, `GetAllClasses`, `RegisterNewTag`) | position, `m_level`, `m_regged` | one DIE after the other | drives the tree builder |
| unit root (`LogDwarfInfo`) | `cu`, four table bases, `m_dlist` of delayed strings, the address that waits for its base | one attribute after the other | its bases are used by every later DIE |
| line tables (`read_debug_lines`, `read_delayed_lines`, `get_filename`) | what is left of `.debug_line`, directories and files, a table whose names wait | one table for each unit | read while the root is read |
| tree builder (`TreeBuilder.cc`) | `elements_`, `m_stack`, `recent_`, `last_var_`, `current_element_type_`, `ns_count`, `ns_stack`, `sub_filtered` | `AddElement`, `AddNone`, `AddFormalParam`, `AddVariant`, `SetElementName`, `SetLocation`, `PostProcessTag`, `add2stack`, `pop_stack`, `ProcessUnit` | fed by the walk, read by the renderers |
| types of several units | `m_dumped_db`, `m_replaced` | `check_dumped_type`, `merge_dumped`, `should_keep`, `dump_types` | lives across units |
| location and range lists (`get_rnglistx_`, `get_old_range`, `get_loclistx`, `get_loc`) | base, entries | one entry after the other | called for attributes, with the unit's bases |
| location expressions (`DecodeAddrLocation`, `DecodeLocation`) | place in the data, what was decoded | one operation after the other | the handler of the attribute gives the result to the element |
| call frames (`parse_frames`, `find_dfa`) | one CIE object, `eh_addr_size`, `m_dfa` | one record after the other | renderers look frame sizes up |
| LEB128 numbers (`ULEB128`, `SLEB128`) | result, shift | one byte after the other | used by everything above |
| ELF sections, relocations | sections | read once | input of all of the above |
| renderers (`PlainRender`, `JsonRender`, `GoTypes`), name filter, register names, `main` | output, tables | output | read what was built |

What is hard: every operation finds "its" element through pointers the operations
before it left; DIEs that are filtered, unknown or replaced must still leave the
stack balanced; attributes come in any order; state of one unit, CIE or list entry
may survive into the next; operands of unknown operations shift everything behind
them; integers are narrower than what they are read from, and files may be of the
other byte order.  It is correct when every part is recorded in the type or
function its DIE is a child of, levels and namespaces follow the tree, names go to
their own DIE, indices and file numbers are looked up in their own unit's tables,
lists, frames, numbers and expressions mean what DWARF says, and of types defined
in many units nothing is lost and nothing is printed twice.

### Not modelled

- gcc's `dwarf2out.cc` with its patch, the perl modules (eight copies of a generated
  `ppport.h` and bindings of disassemblers), the CTF tables and the report scripts
  are most of the repository's lines.  They are other projects' code, generated, or
  straight scripts around third-party libraries.  That is why the map covers only a
  small part of all lines (about 2%), although it covers nine tenths of the server
  and of the three clients, and six tenths of `ElfFile.cc`.
- ELF reading and relocations: one pass over third-party tables, no state that
  survives.
- Output: the text of `PlainRender`, `JsonRender`, `GoTypes`, register names.  What
  *is* printed, and once, is in `DumpedTypes`.
- Name filter and command line: a set read once; the options that matter are
  constants or chosen at `Init` (`-f -V -L -n -k`).
- Setters of `TreeBuilder` that only store a value into the element they find;
  `SetLocation` and `SetElementName` stand for the two ways they find it.
- The walk over gcc's trees in `gptest.cpp`: its data are gcc's.  Only the order in
  which it calls a client is modelled.
- `ping`, a failing `sqlite3_open` or `sqlite3_prepare`, several compilers that
  append to one text file at once (the format has no ids: a reader cannot tell
  whose a line is), data that end inside of an expression, and the forms of
  `DW_AT_location` that are an offset of a list.

## 2. Modules

| module | what it models | composes |
|---|---|---|
| `SymrefServer` | the server: handlers, writer, sqlite, quit, kill, restart | |
| `NameRegistry` | abstract: a registry of names with atomic calls and a restart | |
| `SymrefRegistry` | the refinement mapping from the server to the registry | `SymrefServer`, `NameRegistry` |
| `PersRpc` | the plugins' side of the protocol | `SymrefServer` |
| `PersSqlite` | compilers that write the sqlite file themselves, and their mapping to the registry | `NameRegistry` |
| `PersText` | compilers that append text | |
| `TreeBuilder` | the operations of the builder | |
| `DieWalk` | the walk that drives them over any file | `TreeBuilder` |
| `UnitRoot` | the unit's root DIE, bases, delayed strings | |
| `LineTables` | the line tables read beside the roots | `UnitRoot` |
| `DumpedTypes` | types that several units define | |
| `AddressLists`, `Frames`, `Leb128`, `LocExprs` | readers of one section each | |
| `SymrefServer_proof` | theorems about the server and its refinement | `SymrefRegistry` |
| `UnitRoot_proof` | theorems about the roots and the line tables | `LineTables` |
| `Readers_proof` | theorems about numbers, frames, lists and expressions | `Leb128`, `Frames`, `AddressLists`, `LocExprs` |
| `PersRpc_proof`, `PersSqlite_proof`, `PersText_proof`, `DieWalk_proof`, `DumpedTypes_proof` | theorems | the module they are named after |
| `MC...` | instances for TLC | |

Definitions named "Mutated form of ..." are plausible mistakes in the code.  They
are used by no specification; each shows that some property notices it.

### SymrefServer

A handler is cut into steps where the code may be interrupted with an effect on
others: the look-up under the shared lock together with what it may answer at once
(`CheckFunction`, `CheckSym`), the second look under the unique lock
(`CheckFunctionAgain`, `CheckSymAgain`), each `push_back` under `m_db_lock`
(`Push`; a function's body is pushed closure by closure), and `notify_one`
(`Notify`).  What a handler still has to push is in `todo[s]`, so that two handlers
interleave in the queue as they do in the code.

The writer is a program counter: `woken` (about to test its predicate), `sleepy`
(has found it false and is about to sleep, still holding `m_db_lock`), `waiting`,
and `drain` (applies closures with the lock held).  `m_quit` is set without the
lock, so `Quit` may come between `WriterTest` and `WriterSleep`; that is how the
notification of a quit is lost.

`Crash` may come at every step and keeps only `symtab`, `xrefs` and `errlog`.
`Start` reads them back: the cache in rowid order through `c_str`, so the last row
of a C string wins, and `max_id` from `MAX(id)`.

Abstracted: a string is a member of `Names`, and `c_str` is what copying it as a C
string does to it; of a reference only which symbol it is to.  sqlite statements
succeed or, where a key exists, fail as the prepared statement would.

### PersRpc

`FuncStart` / `FuncSkipped` / `FuncStarted`, `AddKnown` / `AskSym` / `AddAsked`,
`ReportError`, `FuncStop` / `FuncStopEmpty` / `FuncSent` and `NewProcess` are the
operations of `pers_rpc`, cut where the client waits for an answer, for any number
of clients at once.  When the server goes away, its clients die, because nothing
catches the transport's exception.  History variables say who had a function when,
so that the properties can say exactly which interleavings they leave out.

### PersSqlite and PersText

In `PersSqlite` a call is its effect on the process's caches and a sequence of
statements (`todo[p]`) that reach the file one by one; between any two another
process may run, or this one be killed.  A statement is executed, refused because
a key exists, or lost because the file is locked.  `parallel` chooses between a
build that runs its compilers one after the other and `make -j`.

`PersText` keeps the file as lines, behind them what is in the C library's buffer,
and possibly half a line that a killed compiler left.  A line records what it says,
and, as history, which function and block it was found in.  `m_bb` is uninitialised
in the code, so `TextInit` chooses it.

Both are in one instance (`MCBackEnds`): the plugin is built with one of them.

### TreeBuilder and DieWalk

The file is the environment: in every state it may hold any DIE that compilers put
under the current parent (`ChildTags`, `MayContain`), with or without children, with
or without a name.  One DIE is `ReadDie` (RegisterNewTag), `ReadName`,
`ReadLocation`, `PostProcess`, and then `ReadKids` or `SkipKids`.  `tree` and `path`
are history: the file as it is, against which the invariants compare the builder.

Elements are named by the number of the DIE that made them.  Tags that the builder
treats alike stand for each other: `structure_type` for class and union, `type` for
leaf types, `pack` and `other` for tags that are not registered.  Of an element
those fields are kept that operations read back.

### UnitRoot and LineTables

One action for each attribute of the root, in any order and each at most once, with
a valid base, or one outside of its section, or none; then look-ups in children.  A
fetched value carries the base it went through, the unit that had the index, and the
attribute; so "its own" is `<<unit, unit, a>>`.  `Split` says whether a unit may have
indices and no base, as in a `.dwo` file.

`LineTables` adds `DW_AT_stmt_list` and `read_delayed_lines` to the same steps.  A
table is named by the unit it was made for, has version 4 or 5 or does not fit;
units may have none, and from then on tables and units no longer match.

### DumpedTypes

Elements are read (kept, replaced, or, for functions, marked), printed by
`RenderUnit`, entered by `MergeDumped` one by one, and cleared.  A name stands for a
mangled name in its namespace, so the two databases (pooled and other strings) are
one.  `size` is what the file has of the type, `rank` what was kept of it: a
replaced type keeps its children or loses them, depending on `DW_AT_sibling`.  A
definition of size 0 is a pure forward declaration.  `RenderUnit` marks the structures
and classes it prints (`MarkDumped`, the `e.dumped_ = true` behind `dump_nested`), and
not typedefs and functions; `MergeDumped` reads the mark, so that of two definitions
in one unit the richer is entered, in whatever order they come.

### AddressLists, Frames, Leb128, LocExprs

Each is a loop of the code as one action per kind of entry, beside a definition of
what DWARF says the same data mean, written independently of the loop:
`AddressLists` has the four sections with every kind of entry, and contributions of
two units to `.debug_addr`; `Frames` every sequence of CIEs, FDEs, terminators and
cut records through the one object `one_cie`; `Leb128` numbers as sets of bits, with
the widths of a group, of `int` and of the result as constants; `LocExprs`
expressions as cells, each a fixed-width operand's bytes or one LEB128 number, in
files of both byte orders, and what the three kinds of attribute give the element.
Shifts by more than the width of `int` are undefined in C: the model takes what the
processor does or nothing.  They share no state and one instance (`MCReaders`).

## 3. Runs

| run | instance | properties |
|---|---|---|
| `server` | 2 connections, 2 names of one C string, 3 ids, 4 calls, 2 starts | `TypeOK` `OneNamePerId` `OneIdPerCString` `CacheBacked` `RefsBacked` |
| `registry` | 2 connections, 2 names, 2 ids, 4 calls, 2 starts, fair threads | `QueueDrains` `QuitWithWork` `ImplementsRegistry` |
| `clients` | 2 plugins at once, 2 ids, bodies of 1, 5 calls, 2 starts | `BodyReplaced` `ProcessedMarked` `ClientIdsCurrent` |
| `back_ends` | sqlite: 2 processes, 3 ids, 5 calls, 3 starts; text: 2 functions, 2 blocks, 7 calls | `CacheTrue` `RowsAsRecorded` `ImplementsRegistry`; `LinesAsFound` |
| `walk_types` | 2 units of 5 DIEs: C++ classes, or data types | `WalkInStep` `NamespacesFollowPath` `PartsOfTheirParent` `PartsKept` |
| `walk_functions` | 2 units of 5 DIEs: functions, blocks, locals | `WalkTypeOK` `WalkInStep` `LocalsOfTheirFunction` `LocalsKept` `NamesOfTheirDie` |
| `dumped` | 3 units of 2 elements, 4 kinds, ranks 0 and 1, with and without `-k` | `ReplacedWasPrinted` `PrintedInOneUnit` `RichestPrinted` `PrintedAgainRicher` |
| `root` | 3 units, 2 strings, line tables of every version | `StringsOfUnit` `BaseAddrOfUnit` `LookupsOfUnit` `LinesTypeOK` `FilesOfUnit` `NamesThroughBase` |
| `readers` | lists of 3 entries; 3 frame records; numbers of 5 bytes (groups of 2 bits, `int` of 5, result of 9); expressions of 3 operations | `ListsMeant` `FramesMeant` `NumbersMeant` `OpsInTurn` `ConstantsMeant` `ElementGiven` |
| `unique_names` | 2 plugins, a literal with its NUL | `UniqueNames` is violated |
| `root_ranges` | 2 units | `RangesOfUnit` is violated |
| `root_split` | 2 units, indices without a base | `DelayedOfUnit` is violated |

Why the bounds are enough for what they are asked:

- Races for an id need two threads and one name; that a third name or thread adds
  nothing new for ids, bindings and references is what the theorems of section 5
  say.  Two starts let ids be lost in a crash and be given again.
- The literal and the symbol that share a C string are the case that a trailing
  NUL makes; in `registry` and `back_ends` no name holds a NUL, because with one the
  registry's promise is false (finding 1).
- Two plugins at once are what it takes to overtake a row or to add two bodies up;
  five calls let one plugin process a function twice while the other refers to it.
- Three starts of two sqlite processes: one that is killed half way, one that
  continues in its file, and one that ran beside either.
- Seven calls of the text plugin: a unit, a function, a block and a reference, and
  the same again behind a kill, or another block or function.
- Five DIEs are a unit, a scope, a type or function, a child, and either its child or
  a sibling; every pointer of the builder is set by one DIE and used by the next or
  the one after, so a wrong owner shows within that.  Two units show what survives
  a unit.  What five DIEs do not reach, such as a third level of blocks, the theorems
  about the walk cover: they hold for trees of any size.  `walk_types` and `walk_functions` differ in the tags the file
  has (`Sources`), because all tags together are out of reach at this size.
- Three units are one that defines, one that is replaced, and one that meets what
  the second left in the database; for roots, one that leaves something behind, one
  that says nothing, and one that is given it.  Ranks are 0 and 1 because all four
  kinds with three ranks are more than TLC finishes in five minutes: the poorer of two
  structures in a unit is then its declaration, and that poorer definitions are no
  different is what `AgainRicher` says, which holds for every rank.
- Three entries of a list are a base, an entry that uses it, and one behind; three
  records of a frame section a CIE, another, and an FDE of the first; three
  operations a constant, the operation that takes it, and one read out of turn.
  Groups of 2 bits into an `int` of 5 meet the sign bit with half a group, as 7 into
  32 do.  The theorems about numbers, frames and lists hold for every width and length,
  those about expressions for every length and order of the operations.

`server`, `clients` and `back_ends` take connections and processes as symmetric: no
property or action names one of them, and where `ImplementsRegistry` chooses a live
process of `PersSqlite`, there is one only.  `registry`, which checks liveness, uses
no symmetry.

`CHECK_DEADLOCK FALSE` is set in all of them: the server stops when its clients have
made their calls and it was started as often as the bound allows, the walk stops
after a crash and at the end of the file, a reader at the end of its data.

### Fairness

Only `registry` uses it.  `FairSpec` gives weak fairness to the writer thread and
to each handler thread that has something left to do: these are ordinary threads
that a scheduler runs when they can run, and the writer holds `m_db_lock` only
while it drains a queue that does not grow meanwhile.  A handler that waits for
that lock gets it in the end because between two of the writer's drains it is free;
weak fairness is enough because `wait` releases the lock and only a notification or
a spurious wakeup makes the writer take it again.  Clients, crashes, starts and
spurious wakeups are not fair: nothing makes them happen.

## 4. What the runs show

**Server.**  With any interleaving and a kill anywhere, an id never gets two names and
a C string never gets two ids (`OneNamePerId`, `OneIdPerCString`); what the cache
can answer has its row in the table, in the queue, or in a handler's hands
(`CacheBacked`).  `RefsBacked` is stated until the first crash only: afterwards a
reference may be to an id whose row was lost, which the code does not repair.
`ImplementsRegistry` sums the naming up: to its clients the server is one registry
with atomic calls, and a crash forgets exactly the names that had no row yet.
`QueueDrains` holds although notifications can be lost, because every handler
notifies after its last push.  `QuitWithWork` is as much as holds of `quit`: an idle
server whose writer is just about to sleep may miss the notification.

**Clients.**  `BodyReplaced` leaves out functions that two plugins process at once: both
get `skip = false`, both append, and the stored body is their sum.
`ProcessedMarked` leaves out functions whose body overtook their row: the cache
answers before the row is queued, so another client's `update_fname` can be queued
ahead of it and find none; the function then counts as unfinished and is processed
again.  `ClientIdsCurrent` holds only because a plugin dies with its connection;
its mutation, a plugin that connects again, shows what its cache would answer.

**sqlite and text.**  `CacheTrue`: a process's ids are those of the table unless another
process wrote the name, or a statement was lost to a locked file, since it opened
the file; with `make -j` both happen, and two names can get one id, of which one row
is refused.  One after the other the same code implements the registry and
`RowsAsRecorded`.  `LinesAsFound`: every reference found in a block is read back as
of its function and block, through kills and half lines.  For jump tables, which the
plugin reads before the first block, the code gives no block: the line that comes
out has the block of the function before, or an uninitialised one.

**Walk.**  `WalkInStep` says that filtering, `DW_AT_sibling` and unregistered DIEs never
unbalance the stack or its levels and that nothing is looked up through a null
entry; `NamespacesFollowPath` that namespaces follow the tree;
`PartsOfTheirParent`, `LocalsOfTheirFunction` and `NamesOfTheirDie` that nothing is
attributed to another DIE.  `PartsKept` and `LocalsKept` are weaker than one would
wish: behind an unregistered DIE, such as a template parameter, the current type
can be "none" and the next member or parameter is dropped; and behind a filtered
function `sub_filtered` stays set, so that static members of a class read before the
next function are dropped.

**Types.**  Without `-k` a type that is left out was printed, and a type is printed in
one unit only; with `-k` a richer definition is printed although a poorer one came
first, and for a later unit a structure or class is printed again only when it is
richer than all that was printed, also when a unit has two definitions of one name
and the poorer comes last (`PrintedAgainRicher`).  For functions that is not so:
they are not marked when they are printed, and the last of two overwrites the
entry.  What is *not* promised without `-k`: when a structure's forward declaration
comes first, the full definition is replaced by it.

**Unit root and line tables.**  Whatever the order of the attributes, strings, address
and look-ups are the unit's own, for non-split files.  Files are the unit's own
until a unit without a table comes: tables are matched to units by their order, so
every unit after it has the files of another.

**Readers.**  Each property names what it leaves out, and what is left out is what the
code does not do: offsets of `.debug_rnglists` are from the list's own base, as the
unit's address is not passed on; a base entry of `.debug_ranges` and `.debug_loc` is
taken for a pair; a CIE without an encoding has the one that was named last;
8-byte signed addresses (`DW_EH_PE_sdata8`) are not read; numbers beyond 31 bits are
returned wrong.  In a file of the other byte order `DW_OP_const2s` is swapped as an
`int`.  An implicit value of eight bytes is cut to four in a file of either order: in
the host's order that loses what does not fit, such as a `double`, and in the other
one the cut comes before the swap, so that no value is read as written.
`ElementGiven`: an address ends the decoding, so what would be added to it is lost;
behind `DW_OP_const8u` or `DW_OP_constu`, `DW_OP_GNU_push_tls_address` gives the
variable no index.  These are limits that no comment or test of the repository
contradicts, so they are stated here and in the properties, not as findings.

### Findings

1. `unique_names`: `check_sym` looks the whole string up and caches its C string, so
   a literal sent with its trailing NUL is never found and gets a new row each time.
2. `root_ranges`: "reset bases for new compilation unit" resets three bases of four;
   range lists of a unit without `DW_AT_rnglists_base` go through an earlier one.
3. `root_split`: only `DW_AT_str_offsets_base` empties `m_dlist`; strings that a unit
   without one delayed are given to the next unit that has one.

## 5. What is proved

`SymrefServer_proof`, for any sets of sessions and names, any `c_str` that is
idempotent, and any bounds (assumptions `SessionsAssumption`, `CStrAssumption`,
`NamesAssumption`, `BoundsAssumption`):

- `TypeCorrect`: `Spec => []TypeOK`.  `TypeOK` is not inductive, because what a
  thread does next depends on where it is: `TInv` adds `ThreadsOK` (a thread at a
  second look has the name it looks for; it is at a push exactly when it has
  something to push) and `DownOK` (a server that is down has no threads in calls,
  an empty queue, an empty cache).
- `BindingsCorrect`, `OneIdCorrect`, `CacheCorrect`: `OneNamePerId`,
  `OneIdPerCString` and `CacheBacked`.  The inductive invariant `BindingInv` adds,
  while the server is up, `BoundIdsAllocated` (every id that is bound, stored or on
  its way, is at most `max_id`: so the next id is unused, also after `MAX(id)` was
  read at a start) and `BoundNamesCached` (a C string that is bound anywhere is in
  the cache: so the second look under the unique lock finds it).  Most steps only
  move a row between a handler, the queue and the table; `SameBindings` says so once
  for each of them.
- `RefsCorrect`: `RefsBacked`.  `RefsInv` is about the first run of the server only:
  every id up to `max_id` has its row or one on its way, and every reference, stored
  or in hand, is to such an id.  A crash breaks the first half for good.

It also has `RegistryImplemented`, the refinement
`Spec => ImplementsRegistry` where no string has a NUL inside (`NoNul`).  With
`TInv` and `BindingInv` every step maps: the steps under the unique lock to
`Resolve`, the writer's `insert_sym` to `Keep`, `Crash` to `Forget`, answers without
an id to `Acknowledge`, everything else to a stutter.  `BoundNamesCached` and
`CacheBacked` make the table that a crash leaves exactly the part of the cache that
was kept.

`PersRpc_proof`, for any number of plugins: `ClientsUseServer`, that every behaviour
of server and plugins is one of the server alone, so that all of the above holds
with the plugins; and `ClientIdsCorrect`, that the id a plugin keeps is the one of
the server (`ClientIdsCurrent`).  The inductive invariant is `TInv`, `BindingInv` and
`CInv`: a thread that a plugin waits for still looks for the name the plugin asked
for or has its id (`AskedOrTold`), what a plugin remembers is bound (`KnowsNames`),
and only the server's death loses a binding (`BindingsStay`), which the plugins do
not survive.

Two more theorems of `PersRpc_proof` are about what is in the tables when everything
is quiet, for any number of plugins that interleave in any way.  Most of the steps
of server and plugins do not touch any of it (`Calm`); what is left is the handler's
push, the writer, and the steps at which a function begins or ends.

- `ProcessedCorrect`: `ProcessedMarked`.  `MarkInv` follows the mark on its way: it is
  in the table, or queued behind the function's row (`RowBy`), or in the hands of a
  handler when the row is at least queued.
- `BodyReplacedCorrect`: `BodyReplaced`.  A count of rows cannot be read off the table
  while statements are queued, so `Becomes(q, i, w, n)` says what the table, the
  queue and then `q` will make of the rows `(i, w)`; it is the existence of a sequence
  of counts (`Leads`), not a recursive definition, so that it can be reasoned about.
  `BodyInv`: the number is determined; whoever is told to begin a function alone
  starts with no rows once its own `del_xrefs` is done (`StartsClean`); nobody else is
  at a function while the body of one that was alone is sent (`SoleOwner`); and with
  what the handler still has to push the rows become those of the body
  (`BodyComing`).  This needs `StageInv`, which ties what a plugin is at to what its
  handler has in hand (`TodoIsFor`) and says that being alone is exclusive
  (`AloneInv`), and `OrderInv`: rows come after the mark of their function
  (`MarkedFirst`), so a function that counts as unprocessed has none
  (`NewFunctionsEmpty`).  Without the last one a restarted server would take a function
  for new, skip the deletion, and add to rows that are there.

`PersText_proof`, for any functions, blocks and number of calls: `LinesFound`,
`LinesAsFound` of every behaviour of compilers that append one after the other and
are killed anywhere.  `TextInv` looks at the file and the buffer behind it as one
`Stream`, so that flushing changes nothing, except where half a line was left: the
first line of the buffer is then torn.  `UnitFirst` says that this is only ever the
line of a unit, which no reference is read through; `AllRight` that every reference
in the stream has its function and block above it; `HeadsKnown` that the two
lines which the code puts off are in the stream, or still owed, and that `m_bb`, which
is uninitialised at first, is the block once there is one.

`PersSqlite_proof`, for any number of compilers, names, ids and starts
(`ProcsAssumption`, `CStrAssumption`, `NamesAssumption`, `BoundsAssumption`):

- `CacheCorrect`: `CacheTrue`, for compilers one after the other and at once.
  `CacheInv` adds that the id of every stored row is at most the `max_id` of a process
  that was not disturbed, so `++max_id` is new, and that only the first statement of
  a call makes a row (`InsertsFirst`), so a row is either there or the next thing
  written.  That `MAX(id)` and the last row of a C string exist is `LastFact`, from
  the well-foundedness of `<`.
- `RegistryImplemented`: the refinement `Spec => ImplementsRegistry` where no name
  has a NUL.  `SerialInv` adds that the process that runs has every stored name in
  its cache, so no name is written twice.
- `RowsCorrect`: `RowsAsRecorded`.  What a call still has to step has one of four
  shapes (`RowsOK`); `RowsInv` says that what was recorded is what the tables hold
  once the statements that are left are counted in (`BalanceIn`), and, for functions
  begun for the first time, that rows belong only to names with a file name, which
  are the functions the process knows (`RowsNamed`, `Begins`).

`UnitRoot_proof`, for any set of string attributes and any number of units
(`StringsAssumption`, `SplitAssumption`, `MaxUnitsAssumption`):

- `LookupsCorrect`: `LookupsOfUnit`.  `BasesHere` says that three bases are what this
  root has said so far; no such statement is true of the fourth (finding 2).
- `BaseAddrCorrect`: `BaseAddrOfUnit`, with `AddrHere`: an address that still waits
  has an index of this unit and no base yet.
- `StringsCorrect`: `StringsOfUnit` when units give a base for the indices they use
  (`Split = FALSE`).  `Delays` says that every entry of `m_dlist` is of this unit and
  that a string without a value is on it; it needs that hypothesis, because
  otherwise entries of earlier units stay (finding 3).

Under the same assumptions, for the line tables read beside the roots: a step of
`LineTables` is a step of `UnitRoot`, so the lemmas above apply
(`LookupsBesideLines`); `LinesTypeCorrect`, the types of both (`LinesTypeOK`);
`FilesCorrect` with `OwnTable` (what waits and what is there is of the unit read
last, until a unit has no table); and `NamesCorrect` with `BehindBase` (names of a
version 5 table are there only behind a valid base).

`DumpedTypes_proof`, for any names, ranks and number of units: `DumpedTypesCorrect`,
`NothingLost`, `NothingTwice`, `RicherKept`, `AgainRicher`.  `DInv` says that everything
printed is known to the database or still to be entered by the `MergeDumped` under
way, and everything known was printed, at the rank it is known with; the types in it
(`DumpedTypeOK`) are proved only, and no run checks them.  For
`AgainRicher` it says in addition (`EnteredRich`) that with `-k` no entry of a structure
or class is below what was printed of it; what keeps that is the mark, which every
structure and class at the top has while the unit is entered, printed or not.

`DieWalk_proof`, for every tree of DIEs that compilers put together, of any size and
depth, any number of units and every set of options (`MaxDiesAssumption`): all
eight properties of the walk.  None of them is inductive, because the builder works
through pointers whose meaning is in what came before.
The invariant is built in layers, each proved with the ones below it:

- `WalkInv`: the history alone.  `tree` is a tree in the order it was read (`TreeOK`)
  and `path` the DIEs that are open (`PathOK`), each an elder of what comes next.
- `BuilderInv`: what the elements and pointers are.  `ElementsOK` says of which DIE
  each element is and that its type fits the tag; `EntryOK` that the stack's i-th entry
  is for the path's i-th DIE, null exactly where nothing was recorded; `ClassOK` that
  no namespace can come between a class and its members; `ParamsOK` that `recent_` is
  the function, or null, until its first child that is no parameter; `NewOK` where the
  pointers are between a DIE and its children.  With `WalkInv` this gives
  `TypesKept` (`WalkTypeOK`).
- `LevelInv`: `ns_count` is the number of stack entries that open a scope,
  and `ns_stack` has the namespaces of the path.  Together these are `StepInv`, and
  with it `BuilderKeepsStep` (`WalkInStep`) and `NamespacesKept`
  (`NamespacesFollowPath`).
- `NameInv` beside `StepInv`: `NamesKept`.  `PartsInv`: every part is `Placed`, and the
  owner of an open element is the stack entry below it; `PartsGoToTheirParent` and
  `LocalsGoToTheirFunction`.  For the last one `FuncAbove`, a recursive function along
  owners, is unrolled one step (`FuncAboveEquation`) and followed up the path.
- `KeptInv`: while children of a recorded element are read, the current type is not
  "none" (`PathKept`), and `sub_filtered` is clear when the function read last was kept;
  `NoPartIsLost` and `NoLocalIsLost`.

The proof found one thing that runs of five DIEs do not reach: a variant part is not
recorded where the current type is "none", as it is behind an unregistered DIE of its
structure.  The variants in it get the entry of whatever element is current, and if
that is a namespace or a block, `ns_count` is one too many until the part ends.
`NamespacesFollowPath` leaves that out by name (`LostVariants`).

`Readers_proof`:

- `NumbersCorrect`, `NumbersAsWritten`, `NumbersPassed`, for all widths with room for a
  group above `int` (`WidthAssumption`).  `LebInv` has the result as the bits of the
  bytes read so far, as long as `int` had room.
- `FramesCorrect`: `FramesMeant`, for sections of any length.  One object serves all
  CIEs, so the invariant has to say what is left in it: no encoding until a CIE names
  one (`EncodingKept`).  With it a usual FDE is read as it is written, and
  `FramesFound` keeps `m_dfa` at the last FDE of an address that has a frame;
  `FunctionsOnly` that nothing else gets in.
- `ListsCorrect`: `ListsMeant`, for lists of any length in the four sections.
  `BaseKept`: the base is that of the last entry that set one, or the first one;
  `ListRight` counts the entries listed so far, so that the n-th result belongs to the
  n-th of them.  `Proper` collects what a section takes to be read as it is meant, the
  same conditions as in the properties.
- `OperandsPassed`, `ConstantsShown`, `LocationsGiven`: `OpsInTurn`, `ConstantsMeant`
  and `ElementGiven`, for expressions of any number of operations, both byte orders and
  both sizes of an address (`AddressSizeAssumption`, `MaxOpsAssumption`).  The operands
  are the samples of the module: every width, and both signs for the constants of
  fixed width that are signed.
  `FlattenSeq` puts the cells of the operations together by a recursive function;
  `FlattenJoins` unrolls it, a least counterexample in place of an induction, and
  `LayoutExists` turns it into what the decoder needs: a function `start` with the cell
  where each operation begins (`Layout`).  `ReadsFrom(start, n)`: the decoder is there
  with `n` operations behind it.  `OpsRead(n)` is what these have left:
  `ValuesShown` (as many values in the list as were written, each where its
  number says; `BothGrow` carries the count on), `AddressRead` (no address before
  this one), `ConstantOnTop` (needed for the operations that make an index of what is
  on top), `TlsRead` and `OffsetRead` (what the first such operation, or the first
  offset, leaves at the head of the list, whatever is pushed behind it).  Each action
  pushes a place that shows its operation (`Shows`), leaves the list alone, or makes
  an index of its last place; `Pushed`, `Skipped` and `TlsTaken` are those three cases.

Only model-checked:

- Liveness (`QueueDrains`, `QuitWithWork`): fairness is out of the proof system's reach.
- The three properties that the findings violate: they are false.

## 6. Assumptions about the environment

- Mutexes exclude, `notify_one` wakes a waiting thread, memory is sequentially
  consistent (all shared state but `m_quit` is under a mutex; `m_quit` is a flag that
  is only ever set).
- sqlite executes a statement atomically and a kill keeps those executed.  The C
  library's buffer reaches the file in order, any part of it before a kill.
- Compilers put children only under the parents in `ChildTags`, and parameters
  before the other children of a function, packs aside.  An FDE refers to a CIE
  before it.  Files outside of that are not claimed about.

## 7. Reading order

`SymrefServer`, `NameRegistry`, `SymrefRegistry`, `PersRpc`; `PersSqlite`, `PersText`;
`UnitRoot`, `LineTables` and their proofs (the shortest); `TreeBuilder`, `DieWalk`;
`DumpedTypes`; the readers.

## 8. Plan

Still worth doing, in this order:

1. `NSpaces`: the tree of namespaces that persists across units, composed with
   `DumpedTypes` (one database for each namespace).
2. Setters of `TreeBuilder` that choose their element by other rules
   (`SetConstValue`, `SetAbs`, `SetObjPtr`).
3. `Frames` and `DumpedTypes` behind one ELF file with relocations.
4. The hazard no property covers: the id of a name in `m_dumped_db` when its element
   was itself replaced, which needs the JSON output to be seen.
