------------------------------- MODULE BTree -------------------------------
(***************************************************************************)
(* The static part of a behaviour tree: what btree_desc loads from a tree  *)
(* file and node::create_children turns into node objects.  A node of the  *)
(* model is a node OBJECT: a tree that is used twice, as the main tree and *)
(* below a sub_tree node, is two disjoint sets of nodes.                   *)
(***************************************************************************)
EXTENDS Naturals, Sequences, FiniteSets, SequencesExt

CONSTANTS
  Node,      \* the node objects of every tree an agent of this model can load
  NoNode,    \* the null pointer
  Kind,      \* m_type of every node
  Children,  \* the ordered children that create_children makes for every node
  Lineage,   \* every node's ancestors along m_parent, itself included
  Roots      \* the nodes 0 of the trees that load_btree can be asked for

ListKinds == {"sequence", "always_seq", "random_seq", "select"}

SingleKinds == {"root", "negative", "always_true", "sub_tree", "probility"}

LeafKinds == {"action", "wait_event", "reset"}

NodeKinds ==
  ListKinds \cup SingleKinds \cup LeafKinds \cup {"if_else", "while_loop", "parallel"}

ChildSet(n) == ToSet(Children[n])

\* m_parent
Parent ==
  [n \in Node |-> IF \E p \in Node : n \in ChildSet(p)
                  THEN CHOOSE p \in Node : n \in ChildSet(p)
                  ELSE NoNode]

\* The subtree of n, n included.
Below(n) == {m \in Node : n \in Lineage[m]}

\* What load_from_json checks: children are nodes.  It takes any string for a
\* type.  A child whose type is no enumerator is not made, and Children[n] ends
\* before it; so is one of type "invalid", which create_node_by_idx in addition
\* stops the agent for: trees with such a node are left out.
Loadable ==
  /\ NoNode \notin Node
  /\ Kind \in [Node -> NodeKinds]
  /\ Children \in [Node -> Seq(Node)]

\* What create_node_by_idx gives: every object has one parent and one place
\* among its siblings, and a node is made after its parent.
Created ==
  /\ \A p, q \in Node : \A i \in DOMAIN Children[p], j \in DOMAIN Children[q] :
       Children[p][i] = Children[q][j] => p = q /\ i = j
  /\ Lineage \in [Node -> SUBSET Node]
  /\ \A n \in Node :
       Lineage[n] = {n} \cup IF Parent[n] = NoNode THEN {} ELSE Lineage[Parent[n]]
  /\ \A n \in Node : IsFiniteSet(Lineage[n])
  /\ \A n \in Node : Parent[n] # NoNode => n \notin Lineage[Parent[n]]

\* create_tree makes node 0; only the one that load_btree asks for has no parent.
\* That node 0 is of type root is the editor's doing: no code checks it.
Rooted ==
  /\ Roots = {n \in Node : Parent[n] = NoNode}
  /\ \A r \in Roots : Kind[r] = "root"

ASSUME TreeAssumption == Loadable /\ Created /\ Rooted
============================================================================
