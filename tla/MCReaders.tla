----------------------------- MODULE MCReaders -----------------------------
(* The readers of sections share no state: in a behaviour of this instance one
   of them reads and the others have nothing to read. *)
EXTENDS AddressLists, Frames, Leb128, LocExprs

NoList ==
  /\ section = "ranges" /\ entries = <<>> /\ fits = {} /\ unitBase = 0 /\ addr_base = NoBase
  /\ next = 1 /\ base = 0 /\ res = <<>> /\ returned = "false"
NoSection ==
  /\ records = <<>> /\ fde_encoding = absptr /\ eh_addr_size = AddrSize
  /\ m_dfa = NoFrames /\ misread = {} /\ parsing = FALSE
NoNumber ==
  /\ signed = FALSE /\ data = <<>> /\ read = 0 /\ result = {} /\ shift = 0 /\ stopped = TRUE
NoExpr ==
  /\ swapped = FALSE /\ expr = <<>> /\ cells = <<>> /\ at = 1 /\ locs = <<>>
  /\ value = Zero(4) /\ address = Zero(8) /\ given = <<"nothing", Zero(8)>>

ReadersInit ==
  \/ ListInit /\ NoSection /\ NoNumber /\ NoExpr
  \/ FramesInit /\ NoList /\ NoNumber /\ NoExpr
  \/ LebInit /\ NoList /\ NoSection /\ NoExpr
  \/ ExprInit /\ NoList /\ NoSection /\ NoNumber

ReadersNext ==
  \/ ListNext /\ UNCHANGED <<frameVars, lebVars, exprVars>>
  \/ FramesNext /\ UNCHANGED <<listVars, lebVars, exprVars>>
  \/ LebNext /\ UNCHANGED <<listVars, frameVars, exprVars>>
  \/ ExprNext /\ UNCHANGED <<listVars, frameVars, lebVars>>

ReadersSpec == ReadersInit /\ [][ReadersNext]_<<listVars, frameVars, lebVars, exprVars>>
=============================================================================
