------------------------- MODULE ConfigurationProofs -------------------------
(***************************************************************************)
(* Theorems about the tokens of Configuration, for every forest.           *)
(***************************************************************************)
EXTENDS Configuration, TreeProofs

\* Tokens are on nodes.
LEMMA InitTokens == Init => TypeOK /\ Occupied /\ ForkedOnlyByParallel
  BY DEF Init, TypeOK, Occupied, ForkedOnlyByParallel

\* A step moves tokens between nodes, and takes the last one only by halting.
LEMMA NextTokens ==
  ASSUME TypeOK, Occupied, [Next]_cvars
  PROVE  TypeOK' /\ Occupied'
<1>1. ASSUME NEW r \in Roots, Load(r) PROVE TypeOK' /\ Occupied'
  BY <1>1, TreeAssumption DEF Rooted, Load, TypeOK, Occupied
<1>2. ASSUME NEW n \in Node, Descend(n) PROVE TypeOK' /\ Occupied'
  <2>1. ChildSet(n) \subseteq Node
    BY ChildHasParent
  <2> QED
    BY <1>2, <2>1 DEF Descend, TypeOK, Occupied
<1>3. ASSUME NEW n \in Node, Ascend(n) PROVE TypeOK' /\ Occupied'
  BY <1>3, ParentHasChild DEF Ascend, TypeOK, Occupied
<1>4. CASE Halt
  BY <1>4 DEF Halt, TypeOK, Occupied
<1>5. CASE UNCHANGED cvars
  BY <1>5 DEF cvars, TypeOK, Occupied
<1> QED
  BY <1>1, <1>2, <1>3, <1>4, <1>5 DEF Next

\* A token that moves into a child stays forked off by the same parallel.
LEMMA DescendForks ==
  ASSUME NEW n \in Node, NEW c \in ChildSet(n), NEW m \in Node,
         n \notin Lineage[m], Forked(n, m)
  PROVE  Forked(c, m) /\ Forked(m, c)
<1>1. Lineage[c] = {c} \cup Lineage[n] /\ n \in Lineage[c] /\ c \in Node
  BY ChildLineage, ChildHasParent, InLineage
<1>2. c \notin Lineage[m]
  BY <1>1, LineageTransitive
<1> QED
  BY <1>1, <1>2 DEF Forked

\* Two children of one parallel are forked by it.
LEMMA SiblingsFork ==
  ASSUME NEW n \in Node, Kind[n] = "parallel",
         NEW c \in ChildSet(n), NEW d \in ChildSet(n), c # d
  PROVE  Forked(c, d)
<1>1. Lineage[c] = {c} \cup Lineage[n] /\ c \notin Lineage[n]
  BY ChildLineage
<1>2. Lineage[d] = {d} \cup Lineage[n] /\ d \notin Lineage[n]
  BY ChildLineage
<1>3. n \in Lineage[n]
  BY InLineage
<1> QED
  BY <1>1, <1>2, <1>3 DEF Forked

\* A token that moves to the parent stays forked off from those that are not
\* below the node it leaves.
LEMMA AscendForks ==
  ASSUME NEW n \in Node, Parent[n] # NoNode, NEW m \in Node,
         n \notin Lineage[m], Forked(n, m)
  PROVE  Forked(Parent[n], m) /\ Forked(m, Parent[n])
<1>1. Lineage[n] = {n} \cup Lineage[Parent[n]]
  BY TreeAssumption DEF Created
<1> QED
  BY <1>1 DEF Forked

\* A step that is not a Halt forks control at most at one parallel.
LEMMA NextForks ==
  ASSUME TypeOK, ForkedOnlyByParallel, [Next]_cvars
  PROVE  ForkedOnlyByParallel'
<1> USE DEF Below
<1>1. \A n, m : Forked(n, m) <=> Forked(m, n)
  BY DEF Forked
<1>2. ASSUME NEW r \in Roots, Load(r) PROVE ForkedOnlyByParallel'
  BY <1>2 DEF Load, ForkedOnlyByParallel
<1>3. ASSUME NEW n \in Node, Descend(n) PROVE ForkedOnlyByParallel'
  <2>1. n \in config /\ \A m \in config \ {n} : n \notin Lineage[m] /\ m \in Node
    BY <1>3, InLineage DEF Descend, Alone, TypeOK
  <2>2. \A m \in config \ {n}, c \in ChildSet(n) : Forked(c, m) /\ Forked(m, c)
    BY <2>1, DescendForks DEF ForkedOnlyByParallel
  <2>3. CASE Kind[n] = "parallel"
    BY <1>3, <2>2, <2>3, SiblingsFork DEF Descend, ForkedOnlyByParallel
  <2>4. CASE Kind[n] # "parallel"
    BY <1>3, <2>2, <2>4 DEF Descend, ForkedOnlyByParallel
  <2> QED
    BY <2>3, <2>4
<1>4. ASSUME NEW n \in Node, Ascend(n) PROVE ForkedOnlyByParallel'
  <2>1. n \in config /\ Parent[n] # NoNode
    BY <1>4 DEF Ascend
  <2>2. \A m \in config \ Below(n) : n \notin Lineage[m] /\ m \in Node /\ m # n
    BY InLineage DEF TypeOK
  <2>3. \A m \in config \ Below(n) : Forked(Parent[n], m) /\ Forked(m, Parent[n])
    BY <2>1, <2>2, AscendForks DEF ForkedOnlyByParallel
  <2> QED
    BY <1>4, <2>3 DEF Ascend, ForkedOnlyByParallel
<1>5. CASE Halt
  BY <1>5 DEF Halt, ForkedOnlyByParallel
<1>6. CASE UNCHANGED cvars
  BY <1>6 DEF cvars, ForkedOnlyByParallel
<1> QED
  BY <1>2, <1>3, <1>4, <1>5, <1>6 DEF Next

\* Whatever an agent does, its active nodes are nodes of its trees, and until
\* it is stopped there is at least one.
THEOREM ControlKept == Spec => [](TypeOK /\ Occupied)
<1>1. Init => TypeOK /\ Occupied
  BY InitTokens
<1>2. TypeOK /\ Occupied /\ [Next]_cvars => (TypeOK /\ Occupied)'
  BY NextTokens
<1> QED
  BY <1>1, <1>2, PTL DEF Spec

\* Two nodes are active at once only below a parallel that started both: no
\* sequence of returns, interruptions and restarts forks a sequential composite.
THEOREM ForksAreParallel == Spec => []ForkedOnlyByParallel
<1> DEFINE Inv == TypeOK /\ Occupied /\ ForkedOnlyByParallel
<1>1. Init => Inv
  BY InitTokens
<1>2. Inv /\ [Next]_cvars => Inv'
  BY NextTokens, NextForks
<1>3. Inv => ForkedOnlyByParallel
  OBVIOUS
<1> QED
  BY <1>1, <1>2, <1>3, PTL DEF Spec
============================================================================
