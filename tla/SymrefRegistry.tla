--------------------------- MODULE SymrefRegistry ---------------------------
(***************************************************************************)
(* The server implements the registry of NameRegistry, as long as no name  *)
(* holds a NUL.  While the server runs, the registry is its cache: a name  *)
(* counts as bound from the step under the unique lock, although its row   *)
(* reaches the file much later.  While the server is down, the registry is *)
(* what the file holds.                                                    *)
(***************************************************************************)
EXTENDS SymrefServer

StoredId(n) ==
  IF \E i \in Stored : symtab[i].name = n
    THEN CHOOSE i \in Stored : symtab[i].name = n
    ELSE None

boundIds == [n \in Names |-> IF up THEN m_cache[n] ELSE StoredId(n)]
storedNames == {symtab[i].name : i \in Stored}
told == [s \in Sessions |-> reply[s].id]

Registry == INSTANCE NameRegistry
  WITH Clients <- Sessions, Strings <- Names, Numbers <- Ids, Nothing <- None,
       reg <- boundIds, kept <- storedNames, answer <- told

\* Every call about a name is answered as if one registry handled the calls
\* one at a time, and a crash forgets exactly the names whose row was still in
\* the queue or in a handler's hands (check_sym, check_function, open).
ImplementsRegistry == Registry!RegistrySpec
=============================================================================
