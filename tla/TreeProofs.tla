----------------------------- MODULE TreeProofs -----------------------------
(***************************************************************************)
(* Facts about every forest that BTree's assumption admits: induction from *)
(* the roots down, and the order that Lineage is.                          *)
(***************************************************************************)
EXTENDS BTree, FiniteSetTheorems, WellFoundedInduction, TLAPS

\* A node with a parent is one of the parent's children.
LEMMA ParentHasChild ==
  ASSUME NEW n \in Node, Parent[n] # NoNode
  PROVE  /\ Parent[n] \in Node
         /\ n \in ChildSet(Parent[n])
         /\ Len(Children[Parent[n]]) \in Nat \ {0}
<1>1. \E p \in Node : n \in ChildSet(p)
  BY DEF Parent
<1>2. Parent[n] \in Node /\ n \in ChildSet(Parent[n])
  BY <1>1 DEF Parent
<1>3. Children[Parent[n]] \in Seq(Node)
  BY <1>2, TreeAssumption DEF Loadable
<1> QED
  BY <1>2, <1>3 DEF ChildSet, ToSet

\* The children of a node are the nodes whose parent it is.
LEMMA ChildHasParent ==
  ASSUME NEW p \in Node, NEW c \in ChildSet(p)
  PROVE  c \in Node /\ Parent[c] = p
<1>1. Children[p] \in Seq(Node) /\ c \in Node
  BY TreeAssumption DEF Loadable, ChildSet, ToSet
<1>2. Parent[c] \in Node /\ c \in ChildSet(Parent[c])
  BY <1>1 DEF Parent
<1>3. PICK i \in DOMAIN Children[p], j \in DOMAIN Children[Parent[c]] :
        Children[p][i] = c /\ Children[Parent[c]][j] = c
  BY <1>1, <1>2, TreeAssumption DEF ChildSet, ToSet, Loadable
<1> QED
  BY <1>1, <1>2, <1>3, TreeAssumption DEF Created

\* The lineage of a child is the child and the lineage of its parent.
LEMMA ChildLineage ==
  ASSUME NEW p \in Node, NEW c \in ChildSet(p)
  PROVE  Lineage[c] = {c} \cup Lineage[p] /\ c \notin Lineage[p]
  BY ChildHasParent, TreeAssumption DEF Created, Loadable

\* A node is its own first ancestor.
LEMMA InLineage ==
  ASSUME NEW n \in Node
  PROVE  n \in Lineage[n] /\ Lineage[n] \subseteq Node
  BY TreeAssumption DEF Created

\* Every set of natural numbers has a least member.
LEMMA LeastNatural ==
  ASSUME NEW T, T \subseteq Nat, T # {}
  PROVE  \E x \in T : \A y \in T : x <= y
<1> DEFINE R == {ss \in Nat \X Nat : ss[1] < ss[2]}
<1>1. IsWellFoundedOn(R, Nat)
  BY NatLessThanWellFounded DEF OpToRel
<1>2. \A x, y \in Nat : y < x => <<y, x>> \in R
  OBVIOUS
<1> HIDE DEF R
<1>3. PICK x \in T : \A y \in T : ~ (<<y, x>> \in R)
  BY <1>1, WFMin
<1>4. \A y \in T : ~(y < x) /\ y \in Nat /\ x \in Nat
  BY <1>2, <1>3
<1> QED
  BY <1>4

\* A node is one deeper than its parent.
LEMMA DepthOfChild ==
  ASSUME NEW n \in Node
  PROVE  /\ Cardinality(Lineage[n]) \in Nat
         /\ Parent[n] # NoNode =>
              Cardinality(Lineage[n]) = Cardinality(Lineage[Parent[n]]) + 1
<1>1. IsFiniteSet(Lineage[n])
  BY TreeAssumption DEF Created
<1>2. Cardinality(Lineage[n]) \in Nat
  BY <1>1, FS_CardinalityType
<1>3. ASSUME Parent[n] # NoNode
      PROVE  Cardinality(Lineage[n]) = Cardinality(Lineage[Parent[n]]) + 1
  <2>1. Parent[n] \in Node
    BY <1>3, ParentHasChild
  <2>2. IsFiniteSet(Lineage[Parent[n]]) /\ n \notin Lineage[Parent[n]]
    BY <1>3, <2>1, TreeAssumption DEF Created
  <2>3. Lineage[n] = Lineage[Parent[n]] \cup {n}
    BY <1>3, TreeAssumption DEF Created
  <2> QED
    BY <2>2, <2>3, FS_AddElement
<1> QED
  BY <1>2, <1>3

\* Induction along the tree: a set that has a node whenever it has the node's
\* parent, and every parentless node, has them all.
LEMMA TreeInduction ==
  ASSUME NEW S,
         \A n \in Node : Parent[n] = NoNode \/ Parent[n] \in S => n \in S
  PROVE  Node \subseteq S
<1> SUFFICES ASSUME Node \ S # {} PROVE FALSE
  OBVIOUS
<1> DEFINE depth(n) == Cardinality(Lineage[n])
           T == {depth(n) : n \in Node \ S}
<1>1. T \subseteq Nat /\ T # {}
  BY DepthOfChild
<1>2. PICK d \in T : \A e \in T : d <= e
  <2> HIDE DEF T
  <2> QED
    BY <1>1, LeastNatural
<1>3. PICK n \in Node \ S : d = depth(n)
  OBVIOUS
<1>4. Parent[n] \in Node \ S
  BY <1>3, ParentHasChild
<1>5. depth(n) = depth(Parent[n]) + 1 /\ depth(Parent[n]) \in Nat
  <2>1. Parent[n] # NoNode
    BY <1>3
  <2> QED
    BY <1>3, <1>4, <2>1, DepthOfChild
<1>6. depth(n) <= depth(Parent[n])
  BY <1>2, <1>3, <1>4
<1> HIDE DEF depth
<1> QED
  BY <1>5, <1>6

\* An ancestor's ancestors are ancestors.
LEMMA LineageTransitive ==
  ASSUME NEW n \in Node, NEW m \in Lineage[n]
  PROVE  Lineage[m] \subseteq Lineage[n]
<1> DEFINE S == {x \in Node : \A y \in Lineage[x] : Lineage[y] \subseteq Lineage[x]}
<1>1. ASSUME NEW x \in Node, Parent[x] = NoNode \/ Parent[x] \in S
      PROVE  x \in S
  BY <1>1, TreeAssumption DEF Created
<1>2. Node \subseteq S
  <2> HIDE DEF S
  <2> QED
    BY <1>1, TreeInduction
<1> QED
  BY <1>2

\* The ancestors of a node are a chain.
LEMMA LineageChain ==
  ASSUME NEW n \in Node, NEW a \in Lineage[n], NEW b \in Lineage[n]
  PROVE  a \in Lineage[b] \/ b \in Lineage[a]
<1> DEFINE S == {x \in Node : \A y, z \in Lineage[x] : y \in Lineage[z] \/ z \in Lineage[y]}
<1>1. ASSUME NEW x \in Node, Parent[x] = NoNode \/ Parent[x] \in S
      PROVE  x \in S
  BY <1>1, TreeAssumption DEF Created
<1>2. Node \subseteq S
  <2> HIDE DEF S
  <2> QED
    BY <1>1, TreeInduction
<1> QED
  BY <1>2

\* No two nodes are each other's ancestors.
LEMMA LineageAntisymmetric ==
  ASSUME NEW n \in Node, NEW m \in Lineage[n], n \in Lineage[m]
  PROVE  m = n
<1> SUFFICES ASSUME m # n PROVE FALSE
  OBVIOUS
<1>1. Parent[n] # NoNode /\ m \in Lineage[Parent[n]]
  BY TreeAssumption DEF Created
<1>2. Parent[n] \in Node
  BY <1>1, ParentHasChild
<1>3. n \in Lineage[Parent[n]]
  BY <1>1, <1>2, LineageTransitive
<1> QED
  BY <1>1, <1>3, TreeAssumption DEF Created
============================================================================
