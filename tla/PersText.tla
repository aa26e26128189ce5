------------------------------ MODULE PersText ------------------------------
(***************************************************************************)
(* The plugin's text back end (gptest/pers_text.cpp): one compiler after   *)
(* the other appends lines to the file, through a buffer of the C library. *)
(* The lines "func" and "bb", which say where the references below them    *)
(* belong, are put off until there is one (check).  The plugin reads the   *)
(* jump tables of a function before its blocks (my_PLUGIN::execute), and a *)
(* compiler may be killed with lines in its buffer, or with half a line in *)
(* the file.                                                               *)
(*                                                                         *)
(* References, literals, constants and comments are one kind of line, and  *)
(* "proto" is a part of the line "func".                                   *)
(***************************************************************************)
EXTENDS Naturals, Sequences

CONSTANTS Funcs,
          Blocks,    \* numbers of basic blocks
          Nobody,    \* no function
          Nowhere,   \* no block: jump tables, or nothing was said
          MaxSteps   \* bound: calls of the plugin

ASSUME TextAssumption == Nobody \notin Funcs /\ Nowhere \notin Blocks
ASSUME MaxStepsAssumption == MaxSteps \in Nat

VARIABLES
  m_fp,           \* the compiler has the file open
  inUnit,         \* it has begun its unit
  m_fn,           \* the function that is processed, or Nobody
  block,          \* history: the block it is in, or Nowhere
  m_bb,           \* the block bb_start gave last
  m_func_dunped,  \* "func" is written
  m_bb_dumped,    \* "bb" is written
  buffer,         \* lines that are not yet in the file as a whole
  file,           \* the file, line by line
  half,           \* whose line is there in part behind them, or "nobody's"
  steps           \* calls made so far

pluginVars == <<m_fp, inUnit, m_fn, block>>
headVars   == <<m_bb, m_func_dunped, m_bb_dumped>>
fileVars   == <<buffer, file, half>>
textVars   == <<pluginVars, headVars, fileVars, steps>>

TextInit ==
  /\ m_fp = FALSE
  /\ inUnit = FALSE
  /\ m_fn = Nobody
  /\ block = Nowhere
  /\ m_bb \in Blocks              \* never initialised
  /\ m_func_dunped = FALSE
  /\ m_bb_dumped = FALSE
  /\ buffer = <<>>
  /\ file = <<>>
  /\ half = "nobody's"
  /\ steps = 0

-----------------------------------------------------------------------------
Step == steps < MaxSteps /\ steps' = steps + 1

\* A line: what it says of function and block, and which it is about.
Written(kind, says, bb) ==
  [kind |-> kind, says |-> says, bb |-> bb, about |-> m_fn, in |-> block]

Put(lines) == buffer' = buffer \o lines

\* connect, in a new process.
OpenText ==
  /\ ~m_fp
  /\ m_fp' = TRUE
  /\ UNCHANGED <<inUnit, m_fn, block, headVars, fileVars, steps>>

CuStart ==
  /\ m_fp /\ ~inUnit
  /\ Step
  /\ inUnit' = TRUE
  /\ Put(<<Written("cu", Nobody, Nowhere)>>)
  /\ UNCHANGED <<m_fp, m_fn, block, headVars, file, half>>

\* func_start; then the plugin reads the jump tables.
FuncStart ==
  /\ inUnit /\ m_fn = Nobody
  /\ Step
  /\ m_fn' \in Funcs
  /\ m_func_dunped' = FALSE
  /\ UNCHANGED <<m_fp, inUnit, block, m_bb, m_bb_dumped, fileVars>>

\* Mutated form of BbStart: the line "bb" is not due again.
BbStartStale ==
  /\ m_fn # Nobody
  /\ Step
  /\ \E bb \in Blocks : block' = bb /\ m_bb' = bb
  /\ UNCHANGED <<m_fp, inUnit, m_fn, m_func_dunped, m_bb_dumped, fileVars>>

BbStart ==
  /\ m_fn # Nobody
  /\ Step
  /\ \E bb \in Blocks : block' = bb /\ m_bb' = bb
  /\ m_bb_dumped' = FALSE
  /\ UNCHANGED <<m_fp, inUnit, m_fn, m_func_dunped, fileVars>>

\* check: the lines that are due before a reference.
Due ==
  (IF m_func_dunped THEN <<>> ELSE <<Written("func", m_fn, Nowhere)>>)
    \o (IF m_bb_dumped THEN <<>> ELSE <<Written("bb", Nobody, m_bb)>>)

\* add_xref, add_literal, add_ic, add_comment
AddRef ==
  /\ m_fn # Nobody
  /\ Step
  /\ Put(Append(Due, Written("ref", Nobody, Nowhere)))
  /\ m_func_dunped' = TRUE
  /\ m_bb_dumped' = TRUE
  /\ UNCHANGED <<pluginVars, m_bb, file, half>>

\* report_error names in its own line what was not written above it.
ReportError ==
  /\ m_fn # Nobody
  /\ Step
  /\ Put(<<Written("err", IF m_func_dunped THEN Nobody ELSE m_fn,
                          IF m_bb_dumped THEN Nowhere ELSE m_bb)>>)
  /\ UNCHANGED <<pluginVars, headVars, file, half>>

\* func_stop does nothing; the function is behind the plugin.
FuncEnd ==
  /\ m_fn # Nobody
  /\ m_fn' = Nobody
  /\ block' = Nowhere
  /\ UNCHANGED <<m_fp, inUnit, headVars, fileVars, steps>>

-----------------------------------------------------------------------------
\* Behind half a line of a process that is no more, a line cannot be read.
Torn(line) == [line EXCEPT !.kind = "torn", !.says = Nobody, !.bb = Nowhere]
Continued(line) == IF half = "killed" THEN Torn(line) ELSE line

\* The first n lines go to the file, or as many blocks of the buffer as are full:
\* then the line behind them may be cut, of which only the end is left.
Flush ==
  \E n \in 1 .. Len(buffer), cut \in BOOLEAN :
    /\ cut => n < Len(buffer)
    /\ file' = file \o <<Continued(Head(buffer))>> \o SubSeq(buffer, 2, n)
    /\ buffer' = SubSeq(buffer, n + 1, Len(buffer))
    /\ half' = IF cut THEN "its" ELSE "nobody's"
    /\ UNCHANGED <<pluginVars, headVars, steps>>

\* The next compiler is another process.
Gone ==
  /\ m_fp' = FALSE
  /\ inUnit' = FALSE
  /\ m_fn' = Nobody
  /\ block' = Nowhere
  /\ m_bb' \in Blocks
  /\ m_func_dunped' = FALSE
  /\ m_bb_dumped' = FALSE
  /\ UNCHANGED <<file, steps>>

\* exit(), behind the last Flush.
CloseText ==
  /\ inUnit /\ m_fn = Nobody /\ buffer = <<>>
  /\ Gone
  /\ UNCHANGED <<buffer, half>>

KillText ==
  /\ m_fp
  /\ Gone
  /\ buffer' = <<>>
  /\ half' = IF half = "its" THEN "killed" ELSE half

TextNext ==
  \/ OpenText
  \/ CuStart
  \/ FuncStart
  \/ BbStart
  \/ AddRef
  \/ ReportError
  \/ FuncEnd
  \/ Flush
  \/ CloseText
  \/ KillText

TextSpec == TextInit /\ [][TextNext]_textVars

-----------------------------------------------------------------------------
\* What a reader of the file takes for the function and the block of a line: what
\* it says, or what the line "func" above it says, and the line "bb" behind that.
FuncLines(k) == {j \in 1 .. k - 1 : file[j].kind = "func"}
BbLines(k) == {j \in 1 .. k - 1 : file[j].kind = "bb" /\ \A f \in FuncLines(k) : f < j}
LastLine(S) == CHOOSE j \in S : \A i \in S : i <= j

FuncRead(k) == IF file[k].says # Nobody THEN file[k].says
               ELSE IF FuncLines(k) = {} THEN Nobody ELSE file[LastLine(FuncLines(k))].says
BbRead(k) == IF file[k].bb # Nowhere THEN file[k].bb
             ELSE IF BbLines(k) = {} THEN Nowhere ELSE file[LastLine(BbLines(k))].bb

References == {k \in DOMAIN file : file[k].kind \in {"ref", "err"}}

\* Whatever compilers were killed before: every reference and error is read as
\* one of the function it was found in.  What keeps it so is that the first line of
\* a compiler, which may continue half a line, names its unit only.
LinesOfFunction == \A k \in References : FuncRead(k) = file[k].about

\* ... and as one of its block.  A line of a jump table has no block yet: it is
\* read in the last block of the function before, or in any.
LinesOfBlock ==
  \A k \in References : file[k].in # Nowhere => BbRead(k) = file[k].in

\* A reader of the file finds every reference in its function and its block.
LinesAsFound == LinesOfFunction /\ LinesOfBlock
=============================================================================
