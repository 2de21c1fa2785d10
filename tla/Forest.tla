------------------------------- MODULE Forest -------------------------------
(***************************************************************************)
(* For the MC modules: they write a forest down as records from node names *)
(* to attributes, and leave out the nodes that have the default.  A run's  *)
(* Node names the trees its agent can load.                                *)
(***************************************************************************)
EXTENDS AgentInvariant, TLC

Attribute(rows, default) ==
  [n \in Node |-> IF n \in DOMAIN rows THEN rows[n] ELSE default]

AncestorsOf[n \in Node] ==
  {n} \cup IF Parent[n] = NoNode THEN {} ELSE AncestorsOf[Parent[n]]

\* As a table, so that TLC computes it once.
Ancestors == AncestorsOf @@ <<>>

Ancestry == Ancestors

\* The outcomes of a synchronous and of an asynchronous action.
Sync == {"true", "false"}

Async == {"pending"}
=============================================================================
