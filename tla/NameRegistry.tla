---------------------------- MODULE NameRegistry ----------------------------
(***************************************************************************)
(* What both keepers of names promise, the cross-reference server to its   *)
(* clients and the sqlite back end to the compilers of a build: a registry *)
(* that gives every name one id and no id to two names, whoever asks.      *)
(* Names are kept behind the answers; a restart forgets the names that     *)
(* were not, and no other, and never binds a name to another id.           *)
(***************************************************************************)
CONSTANTS Clients, Strings, Numbers, Nothing

VARIABLES reg,     \* the id of each name, or Nothing
          kept,    \* the names a restart does not forget
          answer   \* what each client was told last

registryVars == <<reg, kept, answer>>

RegistryInit ==
  /\ reg = [n \in Strings |-> Nothing]
  /\ kept = {}
  /\ answer = [c \in Clients |-> Nothing]

Unused(id) == \A n \in Strings : reg[n] # id

Resolve(c, n, id) ==
  /\ \/ reg[n] = id /\ UNCHANGED reg
     \/ reg[n] = Nothing /\ Unused(id) /\ reg' = [reg EXCEPT ![n] = id]
  /\ answer' = [answer EXCEPT ![c] = id]
  /\ UNCHANGED kept

\* A call that is not about a name is answered.
Acknowledge(c) == answer' = [answer EXCEPT ![c] = Nothing] /\ UNCHANGED <<reg, kept>>

\* The name of an id that has been given out is stored.
Keep(n) == reg[n] # Nothing /\ kept' = kept \cup {n} /\ UNCHANGED <<reg, answer>>

Forget ==
  /\ reg' = [n \in Strings |-> IF n \in kept THEN reg[n] ELSE Nothing]
  /\ answer' = [c \in Clients |-> Nothing]
  /\ UNCHANGED kept

RegistryNext ==
  \/ \E c \in Clients, n \in Strings, id \in Numbers : Resolve(c, n, id)
  \/ \E c \in Clients : Acknowledge(c)
  \/ \E n \in Strings : Keep(n)
  \/ Forget

RegistrySpec == RegistryInit /\ [][RegistryNext]_registryVars
=============================================================================
