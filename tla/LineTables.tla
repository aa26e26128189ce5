----------------------------- MODULE LineTables -----------------------------
(***************************************************************************)
(* The file names of -F: the tables of .debug_line beside the roots of     *)
(* UnitRoot (ElfFile::read_debug_lines, read_delayed_lines, get_filename). *)
(* Every unit reads the table that follows the one read before, whatever   *)
(* its DW_AT_stmt_list says.  A table of version 5 waits for the unit's    *)
(* DW_AT_str_offsets_base, which its names may be indexed through.         *)
(*                                                                         *)
(* A table is named by the unit it was made for.  A unit may have none;    *)
(* from then on the table that comes next was made for a later unit        *)
(* (Later), or there is none.                                              *)
(***************************************************************************)
EXTENDS UnitRoot

VARIABLES
  missing,      \* history: a unit so far had no table
  debug_line,   \* the section debug_line_ is there
  table,        \* history: the format of the table the unit has read, or "no"
  m_ptr,        \* m_li.m_ptr: whose names still wait to be read, or NoTable
  m_dl_files    \* whose names m_dl_dirs and m_dl_files hold, or NoTable

lineVars == <<missing, debug_line, table, m_ptr, m_dl_files>>
lineTableVars == <<vars, lineVars>>

NoTable == 0
Later == MaxUnits + 1
Formats == {"version 4", "version 5", "short"}

LineInit ==
  /\ Init
  /\ missing = FALSE
  /\ debug_line = TRUE
  /\ table = "no"
  /\ m_ptr = NoTable
  /\ m_dl_files = NoTable

-----------------------------------------------------------------------------
\* The section is used up: nothing is reset, and there is no section any more.
BehindLastTable ==
  /\ debug_line' = FALSE
  /\ table' = "no"
  /\ m_ptr' = NoTable
  /\ UNCHANGED m_dl_files

\* Mutated form of ReadTable: the names of the unit before are kept.
ReadTableOver(owner, format) ==
  /\ debug_line' = (format # "short")
  /\ table' = format
  /\ m_ptr' = IF format = "version 5" THEN owner ELSE NoTable
  /\ m_dl_files' = IF format = "version 4" THEN owner ELSE m_dl_files

\* Mutated form of ReadTable: the section is advanced before the names are read.
ReadTableBehind(owner, format) ==
  /\ debug_line' = (format # "short")
  /\ table' = format
  /\ m_ptr' = IF format = "version 5" THEN owner + 1 ELSE NoTable
  /\ m_dl_files' = IF format = "version 4" THEN owner + 1 ELSE NoTable

\* A header that does not fit gives the section up; names of version 5 wait.
ReadTable(owner, format) ==
  /\ debug_line' = (format # "short")
  /\ table' = format
  /\ m_ptr' = IF format = "version 5" THEN owner ELSE NoTable
  /\ m_dl_files' = IF format = "version 4" THEN owner ELSE NoTable

\* read_debug_lines, for a unit that has a table or not.
ReadDebugLines(hasTable) ==
  /\ missing' = (missing \/ ~hasTable)
  /\ IF ~debug_line THEN table' = "no" /\ UNCHANGED <<debug_line, m_ptr, m_dl_files>>
     ELSE \/ \E format \in Formats : ReadTable(IF missing' THEN Later ELSE unit', format)
          \/ missing' /\ BehindLastTable

\* Mutated form of ReadDelayedLines: the names wait for a valid base no longer.
ReadDelayedLinesAnyway ==
  /\ IF debug_line /\ m_ptr # NoTable
       THEN \E readable \in BOOLEAN :
              /\ m_dl_files' \in {m_ptr} \cup (IF readable THEN {} ELSE {NoTable})
              /\ m_ptr' = IF readable THEN m_ptr ELSE NoTable
       ELSE UNCHANGED <<m_ptr, m_dl_files>>
  /\ UNCHANGED <<missing, debug_line, table>>

\* read_delayed_lines: a path or directory in an unknown form ends it early.
ReadDelayedLines ==
  /\ IF debug_line /\ offsets_base' # NoBase /\ m_ptr # NoTable
       THEN \E readable \in BOOLEAN :
              /\ m_dl_files' \in {m_ptr} \cup (IF readable THEN {} ELSE {NoTable})
              /\ m_ptr' = IF readable THEN m_ptr ELSE NoTable
       ELSE UNCHANGED <<m_ptr, m_dl_files>>
  /\ UNCHANGED <<missing, debug_line, table>>

-----------------------------------------------------------------------------
LineNext ==
  \/ StartUnit /\ \E hasTable \in BOOLEAN : ReadDebugLines(hasTable)
  \/ \E validity \in {"valid", "outside"} : ReadStrOffsetsBase(validity) /\ ReadDelayedLines
  \/ Next /\ unit' = unit /\ given'["str_offsets_base"] = given["str_offsets_base"]
     /\ UNCHANGED lineVars

LineSpec == LineInit /\ [][LineNext]_lineTableVars

-----------------------------------------------------------------------------
\* The state has its types, the root's among it.
LinesTypeOK ==
  /\ RootTypeOK
  /\ missing \in BOOLEAN /\ debug_line \in BOOLEAN
  /\ table \in Formats \cup {"no"}
  /\ {m_ptr, m_dl_files} \subseteq Units \cup {NoTable, Later}

\* As long as every unit has had a table, a decl_file of a unit is looked up in
\* its own table or in none, whatever tables came before in which version and
\* whether they could be read.  The first unit without a table gives every unit
\* after it the names of another.
FilesOfUnit ==
  at = "children" /\ ~missing => m_dl_files \in {NoTable, unit}

\* The names of a table of version 5 are looked up through the unit's own base,
\* also those that are no index: without a valid DW_AT_str_offsets_base the
\* table is not read, and the unit's files have no names.
NamesThroughBase ==
  at = "children" /\ table = "version 5" /\ m_dl_files # NoTable => offsets_base = unit
=============================================================================
