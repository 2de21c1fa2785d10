--------------------------- MODULE SemanticsProofs ---------------------------
(***************************************************************************)
(* A composite returns what the run() function of its kind returns, for    *)
(* every forest, every set of events and every behaviour of the actions.   *)
(*                                                                         *)
(* A step takes place at one node that has control.  Nodes that have       *)
(* control are on the paths of ControlProofs, so that a step changes       *)
(* nothing that another composite has left behind or not begun (the first  *)
(* part); what it does at its own node is what run() does next (the        *)
(* second).                                                                *)
(***************************************************************************)
EXTENDS ControlProofs

----------------------------------------------------------------------------
(* Children and their places.                                              *)

\* The children of a node are at different places.
LEMMA ChildPlaces ==
  ASSUME NEW n \in Node
  PROVE  /\ Arity(n) \in Nat
         /\ \A i \in 0..(Arity(n) - 1) :
              /\ Child(n, i) \in ChildSet(n) /\ Child(n, i) \in Node
              /\ Child(n, i) # n /\ Parent[Child(n, i)] = n
         /\ \A i, j \in 0..(Arity(n) - 1) : Child(n, i) = Child(n, j) => i = j
         /\ \A c \in ChildSet(n) : \E i \in 0..(Arity(n) - 1) : c = Child(n, i)
<1>1. Children[n] \in Seq(Node) /\ Arity(n) \in Nat
  BY TreeAssumption DEF Loadable, Arity
<1>2. \A i \in 0..(Arity(n) - 1) :
        Child(n, i) \in ChildSet(n) /\ Child(n, i) \in Node /\ Child(n, i) # n
  BY ChildAt
<1>3. ASSUME NEW i \in 0..(Arity(n) - 1), NEW j \in 0..(Arity(n) - 1), Child(n, i) = Child(n, j)
      PROVE  i = j
  <2>1. i + 1 \in DOMAIN Children[n] /\ j + 1 \in DOMAIN Children[n]
    BY <1>1 DEF Arity
  <2>2. i + 1 = j + 1
    BY <1>3, <2>1, TreeAssumption DEF Created, Child
  <2> QED
    BY <2>2
<1>4. ASSUME NEW c \in ChildSet(n) PROVE \E i \in 0..(Arity(n) - 1) : c = Child(n, i)
  <2>1. PICK k \in 1..Len(Children[n]) : c = Children[n][k]
    BY <1>1 DEF ChildSet, ToSet
  <2>2. k - 1 \in 0..(Arity(n) - 1) /\ c = Child(n, k - 1)
    BY <1>1, <2>1 DEF Arity, Child
  <2> QED
    BY <2>2
<1> QED
  BY <1>1, <1>2, <1>3, <1>4, ChildHasParent

\* The children that a list composite runs, in their order.
LEMMA ListPlaces ==
  ASSUME NEW n \in Node, Kind[n] \in ListKinds, Kind[n] = "random_seq" => Shuffled(n)
  PROVE  /\ \A i \in 0..(Arity(n) - 1) : Cursor(n, i) \in 0..(Arity(n) - 1)
         /\ \A i, j \in 0..(Arity(n) - 1) : Cursor(n, i) = Cursor(n, j) => i = j
         /\ \A i \in Nat : Cursor(n, i) < Arity(n) => i < Arity(n)
<1>1. Arity(n) \in Nat
  BY ChildPlaces
<1>2. CASE Kind[n] = "random_seq"
  <2>1. /\ m_shuffle[n] \in [1..Arity(n) -> 0..(Arity(n) - 1)]
        /\ \A i, j \in 1..Arity(n) : m_shuffle[n][i] = m_shuffle[n][j] => i = j
    BY <1>2 DEF Shuffled, IsInjective
  <2>2. Len(m_shuffle[n]) = Arity(n)
    BY <1>1, <2>1
  <2>3. \A i \in Nat : Cursor(n, i) = IF i < Arity(n) THEN m_shuffle[n][i + 1] ELSE i
    BY <1>2, <2>2 DEF Cursor
  <2>4. \A i \in 0..(Arity(n) - 1) :
          i \in Nat /\ i < Arity(n) /\ i + 1 \in 1..Arity(n) /\ Cursor(n, i) = m_shuffle[n][i + 1]
    BY <1>1, <2>3
  <2>5. ASSUME NEW i \in 0..(Arity(n) - 1), NEW j \in 0..(Arity(n) - 1),
               Cursor(n, i) = Cursor(n, j)
        PROVE  i = j
    <3>1. i + 1 = j + 1
      BY <2>1, <2>4, <2>5
    <3> QED
      BY <3>1
  <2>6. ASSUME NEW i \in Nat, Cursor(n, i) < Arity(n), ~(i < Arity(n)) PROVE FALSE
    <3>1. Cursor(n, i) = i
      BY <2>3, <2>6
    <3> QED
      BY <2>6, <3>1
  <2>7. \A k \in 1..Arity(n) : m_shuffle[n][k] \in 0..(Arity(n) - 1)
    BY <2>1
  <2>8. \A i \in 0..(Arity(n) - 1) : Cursor(n, i) \in 0..(Arity(n) - 1)
    BY <2>4, <2>7
  <2> QED
    BY <2>5, <2>6, <2>8
<1>3. CASE Kind[n] # "random_seq"
  BY <1>3 DEF Cursor
<1> QED
  BY <1>2, <1>3

\* The only child that a sequential composite can be at.
LEMMA NotCurrent ==
  ASSUME Typed, NEW n \in Node, Kind[n] # "parallel", NEW k \in 0..(Arity(n) - 1),
         k # Cursor(n, next_child_idx[n])
  PROVE  Child(n, k) \in ChildSet(n) \ Current(n)
<1>1. Cursor(n, next_child_idx[n]) \in Nat
  <2>1. m_shuffle[n] \in Seq(Nat) /\ next_child_idx[n] \in Nat
    BY DEF Typed, TypeOK
  <2> QED
    BY <2>1 DEF Cursor
<1>2. Child(n, k) \in ChildSet(n)
  BY ChildPlaces
<1>3. ASSUME Child(n, k) \in Current(n) PROVE FALSE
  <2>1. /\ Cursor(n, next_child_idx[n]) < Arity(n)
        /\ Child(n, k) = Child(n, Cursor(n, next_child_idx[n]))
    BY <1>3 DEF Current, Forwards
  <2>2. Cursor(n, next_child_idx[n]) \in 0..(Arity(n) - 1)
    BY <1>1, <2>1, ChildPlaces
  <2> QED
    BY <2>1, <2>2, ChildPlaces
<1> QED
  BY <1>2, <1>3

----------------------------------------------------------------------------
(* What a step at m does to the other nodes.                               *)

\* A step at m, that has control.
Touches(m) ==
  /\ OnPath(m) /\ m_state[m] \in {"init", "awaken", "blocking"}
  /\ m_state'[m] \in {"wait_child", "blocking", "dead"}
  /\ m_state'[m] = "dead" => Parent[m] # NoNode /\ m_state'[Parent[m]] = "awaken"
  /\ m_state'[m] # "dead" /\ Parent[m] # NoNode => m_state'[Parent[m]] = m_state[Parent[m]]
  /\ \A x \in Node \ {m, Parent[m]} :
       \/ m_state'[x] = m_state[x]
       \/ x \in ChildSet(m) /\ m_state'[x] = "init"
       \/ /\ m_state'[x] = "dead" /\ Parent[x] # NoNode
          /\ m_state[Parent[x]] # "dead" /\ m_state'[Parent[x]] = "dead"
  /\ \A x \in Node \ {m} :
       /\ result'[x] = result[x]
       /\ m_shuffle'[x] = m_shuffle[x]
       /\ x \in visited' <=> x \in visited
       /\ m_state'[x] # "dead" => next_child_idx'[x] = next_child_idx[x]

\* Where nothing is different.
SameChild(c) == m_state'[c] = m_state[c] /\ result'[c] = result[c]

\* A composite keeps what its other children have done.
LEMMA HalfwayStays ==
  ASSUME Typed, NEW n \in Node, Halfway(n),
         next_child_idx'[n] = next_child_idx[n], m_shuffle'[n] = m_shuffle[n],
         Kind[n] # "parallel" => \A c \in ChildSet(n) \ Current(n) : SameChild(c)
  PROVE  Halfway(n)'
<1> DEFINE i == next_child_idx[n]
<1>1. \A j : Cursor(n, j)' = Cursor(n, j)
  BY DEF Cursor
<1>2. ASSUME Kind[n] # "parallel", NEW k \in 0..(Arity(n) - 1), k # Cursor(n, i)
      PROVE  SameChild(Child(n, k))
  BY <1>2, NotCurrent
<1>3. i \in Nat /\ Arity(n) \in Nat
  BY ChildPlaces DEF Typed, TypeOK
<1>4. CASE Kind[n] \in ListKinds
  <2>1. Kind[n] = "random_seq" => Shuffled(n)
    BY <1>4 DEF Halfway, ListKinds
  <2>2. Kind[n] # "parallel"
    BY <1>4 DEF ListKinds
  <2>3. Shuffled(n) => Shuffled(n)'
    BY DEF Shuffled
  <2>4. ASSUME NEW j \in 0..(Arity(n) - 1), j # i PROVE SameChild(Child(n, Cursor(n, j)))
    <3>1. Cursor(n, j) \in 0..(Arity(n) - 1)
      BY <1>4, <2>1, ListPlaces
    <3>2. Cursor(n, j) # Cursor(n, i)
      BY <1>3, <1>4, <2>1, <2>4, <3>1, ListPlaces
    <3> QED
      BY <1>2, <2>2, <3>1, <3>2
  <2>5. ASSUME NEW j \in 0..(Arity(n) - 1), j < i
        PROVE  (\E r \in BOOLEAN : ~Shortcut(n, r) /\ Ran(n, Cursor(n, j), r))'
    <3>1. PICK r \in BOOLEAN : ~Shortcut(n, r) /\ Ran(n, Cursor(n, j), r)
      BY <1>4, <2>5 DEF Halfway, ListKinds
    <3>2. ~Shortcut(n, r)' /\ Ran(n, Cursor(n, j), r)'
      BY <1>1, <1>3, <2>4, <2>5, <3>1 DEF SameChild, Ran, Shortcut
    <3> QED
      BY <3>2
  <2>6. ASSUME NEW j \in 0..(Arity(n) - 1), j > i
        PROVE  NotRun(n, Cursor(n, j))'
    <3>1. NotRun(n, Cursor(n, j))
      BY <1>4, <2>6 DEF Halfway, ListKinds
    <3> QED
      BY <1>1, <1>3, <2>4, <2>6, <3>1 DEF SameChild, NotRun
  <2> QED
    BY <1>4, <2>1, <2>3, <2>5, <2>6 DEF Halfway, ListKinds
<1>5. CASE Kind[n] = "if_else"
  <2>1. Cursor(n, i) = i
    BY <1>5 DEF Cursor
  <2>2. \A j \in 0..(Arity(n) - 1) : j # i => SameChild(Child(n, j))
    BY <1>2, <1>5, <2>1
  <2> QED
    BY <1>3, <1>5, <2>2 DEF Halfway, SameChild, Ran, NotRun, ListKinds
<1>6. CASE Kind[n] = "probility"
  <2>1. Cursor(n, i) = i
    BY <1>6 DEF Cursor
  <2>2. \A j \in 0..(Arity(n) - 1) : j # i => SameChild(Child(n, j))
    BY <1>2, <1>6, <2>1
  <2> QED
    BY <1>3, <1>6, <2>2 DEF Halfway, SameChild, NotRun, ListKinds
<1>7. CASE Kind[n] \notin ListKinds \cup {"if_else", "probility"}
  BY <1>7 DEF Halfway
<1> QED
  BY <1>4, <1>5, <1>6, <1>7

\* The items of a sequence.
LEMMA Items ==
  ASSUME NEW S, NEW q \in Seq(S)
  PROVE  \A j \in 1..Len(q) : q[j] \in S
  OBVIOUS

\* A composite that has returned keeps what its children have done.
LEMMA RunStays ==
  ASSUME Typed, NEW n \in Node, NEW v \in BOOLEAN, RunGives(n, v), m_shuffle'[n] = m_shuffle[n],
         \A c \in ChildSet(n) : SameChild(c)
  PROVE  RunGives(n, v)'
<1>1. Arity(n) \in Nat /\ \A k \in 0..(Arity(n) - 1) : SameChild(Child(n, k))
  BY ChildPlaces
<1>2. ASSUME NEW k \in Nat, NEW r, Ran(n, k, r) PROVE Ran(n, k, r)'
  BY <1>1, <1>2 DEF Ran, SameChild
<1>3. ASSUME NEW k \in 0..(Arity(n) - 1), NotRun(n, k) PROVE NotRun(n, k)'
  BY <1>1, <1>3 DEF NotRun, SameChild
<1>4. ASSUME NEW order \in Seq(0..(Arity(n) - 1)), NEW stop \in BOOLEAN, RanUntil(n, order, stop, v)
      PROVE  RanUntil(n, order, stop, v)'
  <2>1. PICK k \in 1..Len(order) :
          /\ \A j \in 1..(k - 1) : Ran(n, order[j], ~stop)
          /\ \A j \in (k + 1)..Len(order) : NotRun(n, order[j])
          /\ Ran(n, order[k], v)
          /\ v # stop => k = Len(order)
    BY <1>4 DEF RanUntil
  <2>2. \A j \in 1..Len(order) : order[j] \in 0..(Arity(n) - 1) /\ order[j] \in Nat
    <3>1. \A j \in 1..Len(order) : order[j] \in 0..(Arity(n) - 1)
      BY Items
    <3> QED
      BY <1>1, <3>1
  <2>3. \A j \in 1..(k - 1) : Ran(n, order[j], ~stop)'
    BY <1>2, <2>1, <2>2
  <2>4. \A j \in (k + 1)..Len(order) : NotRun(n, order[j])'
    BY <1>3, <2>1, <2>2
  <2>5. Ran(n, order[k], v)'
    BY <1>2, <2>1, <2>2
  <2> QED
    BY <2>1, <2>3, <2>4, <2>5 DEF RanUntil
<1>5. Indices(n) \in Seq(0..(Arity(n) - 1))
  <2>1. Indices(n) \in [1..Arity(n) -> 0..(Arity(n) - 1)]
    BY <1>1 DEF Indices
  <2> QED
    BY <1>1, <2>1
<1>6. m_shuffle[n] \in Seq(0..(Arity(n) - 1))
  BY DEF Typed, TypeOK, Arity
<1>7. CASE Kind[n] \in {"sequence", "random_seq", "select"}
  BY <1>4, <1>5, <1>6, <1>7 DEF RunGives
<1>8. CASE Kind[n] = "always_seq"
  BY <1>8 DEF RunGives, SameChild
<1>9. CASE Kind[n] = "if_else"
  <2>1. CASE Ran(n, 0, TRUE) /\ Ran(n, 1, v) /\ (Arity(n) > 2 => NotRun(n, 2))
    <3>1. Ran(n, 0, TRUE)' /\ Ran(n, 1, v)' /\ (Arity(n) > 2 => NotRun(n, 2)')
      <4>1. Ran(n, 0, TRUE)' /\ Ran(n, 1, v)'
        BY <1>1, <2>1 DEF Ran, SameChild
      <4>2. Arity(n) > 2 => NotRun(n, 2)'
        BY <1>1, <1>3, <2>1
      <4> QED
        BY <4>1, <4>2
    <3> QED
      BY <1>9, <3>1 DEF RunGives
  <2>2. CASE Ran(n, 0, FALSE) /\ NotRun(n, 1) /\ Ran(n, 2, v)
    <3>1. 1 \in 0..(Arity(n) - 1)
      BY <1>1, <2>2 DEF Ran
    <3>2. Ran(n, 0, FALSE)' /\ NotRun(n, 1)' /\ Ran(n, 2, v)'
      BY <1>2, <1>3, <2>2, <3>1
    <3> QED
      BY <1>9, <3>2 DEF RunGives
  <2> QED
    BY <1>9, <2>1, <2>2 DEF RunGives
<1>10. CASE Kind[n] \in {"while_loop", "negative", "always_true", "root", "sub_tree"}
  BY <1>2, <1>10 DEF RunGives
<1>11. CASE Kind[n] = "probility"
  BY <1>2, <1>3, <1>11 DEF RunGives
<1>12. CASE Kind[n] \in LeafKinds \cup {"parallel"}
  BY <1>12 DEF RunGives, LeafKinds
<1>13. Kind[n] \in NodeKinds
  BY TreeAssumption DEF Loadable
<1> QED
  BY <1>7, <1>8, <1>9, <1>10, <1>11, <1>12, <1>13 DEF NodeKinds, ListKinds, SingleKinds

\* So does a race.
LEMMA RaceStays ==
  ASSUME NEW n \in Node, NEW v, RaceGives(n, v), \A c \in ChildSet(n) : SameChild(c)
  PROVE  RaceGives(n, v)'
  BY DEF RaceGives, SameChild

\* m's parent and its parent wait, and are at the branch that m is in.
LEMMA TouchedPath ==
  ASSUME NEW m \in Node, Touches(m)
  PROVE  /\ Parent[m] # NoNode =>
              /\ Parent[m] \in Node /\ Parent[m] # m /\ Waiting(Parent[m]) /\ m \in Current(Parent[m])
              /\ m_state'[Parent[m]] \in {"wait_child", "awaken"}
              /\ Parent[Parent[m]] # NoNode => Parent[m] \in Current(Parent[Parent[m]])
                                               /\ Waiting(Parent[Parent[m]])
         /\ \A d \in Node : m_state[d] = "dead" => d # m /\ d # Parent[m]
<1>1. ASSUME Parent[m] # NoNode
      PROVE  /\ Parent[m] \in Node /\ Parent[m] # m /\ Waiting(Parent[m]) /\ m \in Current(Parent[m])
             /\ m_state'[Parent[m]] \in {"wait_child", "awaken"}
             /\ Parent[Parent[m]] # NoNode => Parent[m] \in Current(Parent[Parent[m]])
                                              /\ Waiting(Parent[Parent[m]])
  <2>1. Parent[m] \in Node /\ m \in ChildSet(Parent[m])
    BY <1>1, ParentHasChild
  <2>2. Parent[m] # m
    BY <2>1, ChildBelow DEF Strictly
  <2>3. Edge(m)
    BY <1>1, InLineage DEF Touches, OnPath
  <2>4. Parent[m] \in Lineage[m]
    BY <2>1, ChildLineage, InLineage
  <2>5. Parent[Parent[m]] # NoNode => Edge(Parent[m])
    BY <2>4 DEF Touches, OnPath
  <2>6. m_state'[Parent[m]] \in {"wait_child", "awaken"}
    BY <1>1, <2>3 DEF Touches, Edge, Waiting
  <2> QED
    BY <2>1, <2>2, <2>3, <2>5, <2>6 DEF Edge
<1>2. ASSUME NEW d \in Node, m_state[d] = "dead"
      PROVE  d # m /\ d # Parent[m]
  <2>1. d # m
    BY <1>2 DEF Touches
  <2>2. d # Parent[m]
    BY <1>1, <1>2, TreeAssumption DEF Waiting, Loadable
  <2> QED
    BY <2>1, <2>2
<1> QED
  BY <1>1, <1>2

\* A composite that runs before and after a step at another node sees nothing of
\* it but the child that it is at.
LEMMA OtherRuns ==
  ASSUME Typed, NEW m \in Node, Touches(m), NEW n \in Node \ {m},
         m_state'[n] \in {"wait_child", "awaken"}
  PROVE  /\ m_state[n] \in {"wait_child", "awaken"}
         /\ m_state[n] = m_state'[n] \/ (n = Parent[m] /\ m_state'[n] = "awaken" /\ m_state'[m] = "dead")
         /\ next_child_idx'[n] = next_child_idx[n] /\ m_shuffle'[n] = m_shuffle[n]
         /\ Current(n)' = Current(n)
         /\ \A d \in ChildSet(n) : SameChild(d) \/ d \in {m, Parent[m]}
         /\ \A d \in ChildSet(n) : d \in {m, Parent[m]} => d \in Current(n) /\ Waiting(n)
<1>1. /\ m_state[n] \in {"wait_child", "awaken"}
      /\ m_state[n] = m_state'[n] \/ (n = Parent[m] /\ m_state'[n] = "awaken" /\ m_state'[m] = "dead")
  <2>1. CASE n = Parent[m]
    <3>1. Parent[m] # NoNode
      BY <2>1, TreeAssumption DEF Loadable
    <3>2. Waiting(n)
      BY <2>1, <3>1, TouchedPath
    <3> QED
      BY <2>1, <3>1, <3>2 DEF Touches, Waiting
  <2>2. CASE n # Parent[m]
    BY <2>2 DEF Touches
  <2> QED
    BY <2>1, <2>2
<1>2. next_child_idx'[n] = next_child_idx[n] /\ m_shuffle'[n] = m_shuffle[n]
  BY DEF Touches
<1>3. Current(n)' = Current(n)
  BY <1>2, CurrentStays DEF Touches
<1>4. ASSUME NEW d \in ChildSet(n), d \notin {m, Parent[m]} PROVE SameChild(d)
  <2>1. d \in Node /\ Parent[d] = n
    BY ChildHasParent
  <2>2. d \notin ChildSet(m)
    BY <2>1, ChildHasParent
  <2> QED
    BY <1>4, <2>1, <2>2 DEF Touches, SameChild
<1>5. ASSUME NEW d \in ChildSet(n), d \in {m, Parent[m]} PROVE d \in Current(n) /\ Waiting(n)
  <2>1. d \in Node /\ Parent[d] = n /\ n # NoNode /\ d # NoNode
    BY ChildHasParent, TreeAssumption DEF Loadable
  <2> QED
    BY <1>5, <2>1, TouchedPath
<1> QED
  BY <1>1, <1>2, <1>3, <1>4, <1>5

\* One that has returned sees nothing of it at all.
LEMMA OtherReturned ==
  ASSUME Typed, NEW m \in Node, Touches(m), NEW n \in Node \ {m}, Returned(n)',
         m_state[Parent[n]] = "wait_child" => \A c \in Current(Parent[n]) : m_state[c] # "dead"
  PROVE  /\ Returned(n)
         /\ result'[n] = result[n] /\ m_shuffle'[n] = m_shuffle[n]
         /\ \A d \in ChildSet(n) : SameChild(d)
<1> DEFINE p == Parent[n]
<1>1. /\ p # NoNode /\ m_state'[n] = "dead" /\ m_state'[p] = "awaken" /\ n \in Current(p)'
      /\ p \in Node /\ n \in ChildSet(p)
  BY ParentHasChild DEF Returned, Current
<1>2. p # m
  BY <1>1 DEF Touches
<1>3. /\ m_state[p] \in {"wait_child", "awaken"}
      /\ m_state[p] = "awaken" \/ (p = Parent[m] /\ m_state'[m] = "dead")
      /\ Current(p)' = Current(p)
      /\ SameChild(n) \/ n = Parent[m]
  <2>1. p \in Node \ {m} /\ m_state'[p] \in {"wait_child", "awaken"}
    BY <1>1, <1>2
  <2>2. n \in ChildSet(p) /\ n # m /\ m_state'[p] # "wait_child"
    BY <1>1
  <2> HIDE DEF p
  <2>3. /\ m_state[p] \in {"wait_child", "awaken"}
        /\ m_state[p] = m_state'[p] \/ (p = Parent[m] /\ m_state'[p] = "awaken" /\ m_state'[m] = "dead")
        /\ Current(p)' = Current(p)
        /\ \A d \in ChildSet(p) : SameChild(d) \/ d \in {m, Parent[m]}
    BY <2>1, OtherRuns
  <2> QED
    BY <2>1, <2>2, <2>3
<1>4. n # Parent[m]
  BY <1>1, TouchedPath, TreeAssumption DEF Loadable
<1>5. m_state[n] = "dead"
  BY <1>1, <1>3, <1>4 DEF SameChild
<1>6. m_state[p] = "awaken"
  BY <1>1, <1>3, <1>5
<1>7. Returned(n)
  BY <1>1, <1>3, <1>5, <1>6 DEF Returned, Current
<1>8. ASSUME NEW d \in ChildSet(n) PROVE SameChild(d)
  <2>1. d \in Node /\ Parent[d] = n /\ n # NoNode /\ d # NoNode
    BY ChildHasParent, TreeAssumption DEF Loadable
  <2>2. d # m
    BY <1>4, <2>1
  <2>3. d # Parent[m]
    <3>1. ASSUME d = Parent[m] PROVE FALSE
      <4>1. Waiting(n)
        BY <2>1, <3>1, TouchedPath
      <4> QED
        BY <1>5, <4>1 DEF Waiting
    <3> QED
      BY <3>1
  <2>4. d \notin ChildSet(m)
    BY <2>1, ChildHasParent
  <2> QED
    BY <1>5, <2>1, <2>2, <2>3, <2>4 DEF Touches, SameChild
<1> QED
  BY <1>7, <1>8 DEF Touches

\* So it keeps what the invariant says of it.
LEMMA OthersProgress ==
  ASSUME Typed, NEW m \in Node, Touches(m), \A n \in Node : Progress(n)
  PROVE  \A n \in Node \ {m} : Progress(n)'
<1> SUFFICES ASSUME NEW n \in Node \ {m} PROVE Progress(n)'
  OBVIOUS
<1>1. ASSUME m_state'[n] \in {"wait_child", "awaken"}
      PROVE  /\ Halfway(n)'
             /\ m_state'[n] = "wait_child" => \A c \in Current(n)' : m_state'[c] # "dead"
             /\ m_state'[n] = "awaken" => \E c \in Current(n)' : m_state'[c] = "dead"
  <2>1. /\ m_state[n] \in {"wait_child", "awaken"}
        /\ m_state[n] = m_state'[n] \/ (n = Parent[m] /\ m_state'[n] = "awaken" /\ m_state'[m] = "dead")
        /\ next_child_idx'[n] = next_child_idx[n] /\ m_shuffle'[n] = m_shuffle[n]
        /\ Current(n)' = Current(n)
        /\ \A d \in ChildSet(n) : SameChild(d) \/ d \in {m, Parent[m]}
        /\ \A d \in ChildSet(n) : d \in {m, Parent[m]} => d \in Current(n) /\ Waiting(n)
    BY <1>1, OtherRuns
  <2>2. Halfway(n) /\ Current(n) \subseteq ChildSet(n)
    BY <2>1, CurrentChildren DEF Progress
  <2>3. Halfway(n)'
    BY <2>1, <2>2, HalfwayStays
  <2>4. ASSUME m_state'[n] = "wait_child", NEW c \in Current(n) PROVE m_state'[c] # "dead"
    <3>1. m_state[n] = "wait_child" /\ m_state[c] # "dead"
      BY <2>1, <2>4 DEF Progress
    <3>2. c \in Node /\ Parent[c] = n
      BY <2>2, ChildHasParent
    <3>3. CASE c = m
      BY <2>4, <3>2, <3>3 DEF Touches
    <3>4. CASE c = Parent[m]
      <4>1. Parent[m] # NoNode
        BY <3>2, <3>4, TreeAssumption DEF Loadable
      <4> QED
        BY <3>4, <4>1, TouchedPath
    <3> QED
      BY <2>1, <2>2, <3>1, <3>3, <3>4 DEF SameChild
  <2>5. ASSUME m_state[n] = "awaken" PROVE \E c \in Current(n) : m_state'[c] = "dead"
    <3>1. PICK c \in Current(n) : m_state[c] = "dead"
      BY <2>5 DEF Progress
    <3>2. c \in Node /\ c \in ChildSet(n)
      BY <2>2, ChildHasParent
    <3>3. c # m /\ c # Parent[m]
      BY <3>1, <3>2, TouchedPath
    <3> QED
      BY <2>1, <3>1, <3>2, <3>3 DEF SameChild
  <2>6. ASSUME n = Parent[m], m_state'[m] = "dead" PROVE \E c \in Current(n) : m_state'[c] = "dead"
    <3>1. Parent[m] # NoNode
      BY <2>6, TreeAssumption DEF Loadable
    <3> QED
      BY <2>6, <3>1, TouchedPath
  <2> QED
    BY <2>1, <2>3, <2>4, <2>5, <2>6
<1>2. ASSUME Returned(n)' PROVE (RunGives(n, result[n]) /\ RaceGives(n, result[n]))'
  <2>1. Parent[n] \in Node
    BY <1>2, ParentHasChild DEF Returned
  <2>2. m_state[Parent[n]] = "wait_child" => \A c \in Current(Parent[n]) : m_state[c] # "dead"
    BY <2>1 DEF Progress
  <2>3. /\ Returned(n)
        /\ result'[n] = result[n] /\ m_shuffle'[n] = m_shuffle[n]
        /\ \A d \in ChildSet(n) : SameChild(d)
    BY <1>2, <2>2, OtherReturned
  <2>4. PICK v \in BOOLEAN : v = result[n]
    BY DEF Typed, TypeOK
  <2>5. RunGives(n, v) /\ RaceGives(n, v)
    BY <2>3, <2>4 DEF Progress
  <2>6. RunGives(n, v)' /\ RaceGives(n, v)' /\ v = result'[n]
    BY <2>3, <2>4, <2>5, RunStays, RaceStays
  <2> QED
    BY <2>6
<1> QED
  BY <1>1, <1>2 DEF Progress

----------------------------------------------------------------------------
(* What a step at m does to m.                                             *)

\* A node's parent is not below it.
LEMMA ParentApart ==
  ASSUME NEW n \in Node, Parent[n] # NoNode
  PROVE  /\ Parent[n] \in Node /\ Parent[n] # n /\ n \in ChildSet(Parent[n])
         /\ Parent[n] \notin ChildSet(n) /\ Parent[n] \notin Strictly(n)
<1>1. Parent[n] \in Node /\ n \in ChildSet(Parent[n]) /\ n \in Strictly(Parent[n])
  BY ParentHasChild, ChildBelow
<1>2. Parent[n] \notin Strictly(n)
  BY <1>1, InBelow, LineageAntisymmetric
<1> QED
  BY <1>1, <1>2, ChildBelow DEF Strictly

\* The children that composites are at are theirs,
AtChildren == \A p \in Node : Current(p) \subseteq ChildSet(p)

\* before a step and after it.
LEMMA AtChildrenNext == Typed' => AtChildren'
<1>1. Typed => AtChildren
  BY CurrentChildren DEF AtChildren
<1> QED
  BY <1>1, PTL

\* and so are the ones that list composites run,
InOrder ==
  \A n \in Node : Kind[n] \in ListKinds /\ (Kind[n] = "random_seq" => Shuffled(n)) =>
    \A i \in 0..(Arity(n) - 1) : Cursor(n, i) \in 0..(Arity(n) - 1)

\* before a step and after it.
LEMMA InOrderNext == InOrder'
<1>1. InOrder
  BY ListPlaces DEF InOrder
<1> QED
  BY <1>1, PTL

\* The visited node has control.
LEMMA HasControl ==
  ASSUME Ready, NEW n \in Node, Visiting(n), m_state[n] \in {"init", "awaken", "blocking"}
  PROVE  n \in Tokens /\ OnPath(n)
  BY Visited DEF Ready, Steady, OnPaths, Tokens

\* on_enter touches a node and its children.
LEMMA EnterTouches ==
  ASSUME Ready, NEW m \in Node, Visiting(m), m_state[m] \in {"init", "awaken"},
         NEW s \in {"wait_child", "blocking"}, m_state' = OnEnter(m, s),
         NEW i, Reenter(m, i), NEW v, result' = [result EXCEPT ![m] = v],
         \A x \in Node \ {m} : m_shuffle'[x] = m_shuffle[x]
  PROVE  Touches(m)
<1>1. OnPath(m)
  BY HasControl
<1>2. m_state'[m] = s
  BY DEF OnEnter
<1>3. Parent[m] # NoNode => m_state'[Parent[m]] = m_state[Parent[m]]
  BY ParentApart DEF OnEnter
<1>4. \A x \in Node \ {m, Parent[m]} :
        m_state'[x] = m_state[x] \/ (x \in ChildSet(m) /\ m_state'[x] = "init")
  BY DEF OnEnter
<1>5. \A x \in Node \ {m} :
        /\ result'[x] = result[x]
        /\ x \in visited' <=> x \in visited
        /\ next_child_idx'[x] = next_child_idx[x]
  BY DEF Reenter, Ready, Typed, TypeOK
<1> QED
  BY <1>1, <1>2, <1>3, <1>4, <1>5 DEF Touches

\* A composite starts with no child run.
LEMMA EnterProgress ==
  ASSUME Ready, Typed', NEW m \in Node,
         EnterFirst(m) \/ EnterShuffled(m) \/ EnterWeighted(m) \/ EnterParallel(m) \/ RevisitRoot(m)
  PROVE  Touches(m) /\ Progress(m)'
<1>1. /\ Typed /\ Visiting(m) /\ m_state[m] \in {"init", "awaken"}
      /\ m_state' = OnEnter(m, "wait_child")
      /\ result' = [result EXCEPT ![m] = FALSE]
  BY DEF Ready, EnterFirst, EnterShuffled, EnterWeighted, EnterParallel, RevisitRoot, Fresh, Awoken
<1>2. \A x \in Node \ {m} : m_shuffle'[x] = m_shuffle[x]
  BY <1>1 DEF EnterFirst, EnterShuffled, EnterWeighted, EnterParallel, RevisitRoot, Typed, TypeOK
<1>3. PICK i \in Nat :
        /\ Reenter(m, i)
        /\ Kind[m] # "probility" => i = 0
        /\ Kind[m] = "probility" => i \in 0..(Arity(m) - 1) /\ Weights[m][i + 1] > 0
  BY DEF EnterFirst, EnterShuffled, EnterWeighted, EnterParallel, RevisitRoot
<1>4. Touches(m)
  BY <1>1, <1>2, <1>3, EnterTouches
<1>5. m_state'[m] = "wait_child" /\ next_child_idx'[m] = i
  BY <1>1, <1>3 DEF OnEnter, Reenter, Typed, TypeOK
<1>6. \A c \in ChildSet(m) : m_state'[c] = "init"
  BY <1>1, ChildHasParent, ChildBelow DEF OnEnter, Strictly
<1>7. \A c \in Current(m)' : m_state'[c] # "dead"
  BY <1>6, AtChildrenNext DEF AtChildren
<1>8. \A k \in 0..(Arity(m) - 1) : NotRun(m, k)'
  BY <1>6, ChildPlaces DEF NotRun
<1>9. Arity(m) \in Nat
  BY ChildPlaces
<1>10. Halfway(m)'
  <2>1. CASE Kind[m] \in ListKinds
    <3>1. Kind[m] = "random_seq" => Shuffled(m)'
      <4> SUFFICES ASSUME Kind[m] = "random_seq" PROVE Shuffled(m)'
        OBVIOUS
      <4>1. PICK s \in [1..Arity(m) -> 0..(Arity(m) - 1)] :
              IsInjective(s) /\ m_shuffle' = [m_shuffle EXCEPT ![m] = s]
        BY DEF EnterFirst, EnterShuffled, EnterWeighted, EnterParallel, RevisitRoot
      <4> QED
        BY <1>1, <4>1 DEF Shuffled, Typed, TypeOK
    <3>2. \A j \in 0..(Arity(m) - 1) : Cursor(m, j)' \in 0..(Arity(m) - 1)
      BY <2>1, <3>1, InOrderNext DEF InOrder
    <3>3. i = 0
      BY <1>3, <2>1 DEF ListKinds
    <3>4. \A j \in 0..(Arity(m) - 1) : ~(j < next_child_idx'[m]) /\ NotRun(m, Cursor(m, j))'
      BY <1>5, <1>8, <1>9, <3>2, <3>3
    <3> QED
      BY <2>1, <3>1, <3>4 DEF Halfway, ListKinds
  <2>2. CASE Kind[m] = "probility"
    BY <1>3, <1>5, <1>8, <2>2 DEF Halfway, ListKinds
  <2>3. CASE Kind[m] = "if_else"
    <3>1. next_child_idx'[m] = 0
      BY <1>3, <1>5, <2>3
    <3>2. \A j \in 1..(Arity(m) - 1) : NotRun(m, j)'
      BY <1>8, <1>9
    <3> QED
      BY <2>3, <3>1, <3>2 DEF Halfway, ListKinds, Ran
  <2>4. CASE Kind[m] \notin ListKinds \cup {"probility", "if_else"}
    <3>1. next_child_idx'[m] = 0
      BY <1>3, <1>5, <2>4
    <3> QED
      BY <2>4, <3>1 DEF Halfway
  <2> QED
    BY <2>1, <2>2, <2>3, <2>4
<1>11. ~Returned(m)'
  BY <1>5 DEF Returned
<1> QED
  BY <1>4, <1>5, <1>7, <1>10, <1>11 DEF Progress

\* A leaf that blocks.
LEMMA BlockProgress ==
  ASSUME Ready, NEW m \in Node, EnterPending(m) \/ EnterWaitEvent(m)
  PROVE  Touches(m) /\ Progress(m)'
<1>1. /\ Typed /\ Visiting(m) /\ m_state[m] = "init"
      /\ m_state' = OnEnter(m, "blocking")
      /\ result' = [result EXCEPT ![m] = FALSE]
      /\ Reenter(m, 0) /\ m_shuffle' = m_shuffle
  BY DEF Ready, EnterPending, EnterWaitEvent, Fresh
<1>2. m_state'[m] = "blocking"
  BY <1>1 DEF OnEnter
<1> QED
  BY <1>1, <1>2, EnterTouches DEF Progress, Returned

\* set_result touches a node and its parent.
LEMMA ReturnTouches ==
  ASSUME Ready, NEW m \in Node, m \in Tokens, Parent[m] # NoNode,
         m_state' = [m_state EXCEPT ![m] = "dead", ![Parent[m]] = "awaken"],
         NEW v, result' = [result EXCEPT ![m] = v], UNCHANGED m_shuffle,
         \A x \in Node \ {m} :
           next_child_idx'[x] = next_child_idx[x] /\ (x \in visited' <=> x \in visited)
  PROVE  Touches(m)
<1>1. OnPath(m) /\ m_state[m] \in {"init", "awaken", "blocking"} /\ Typed
  BY DEF Ready, Steady, OnPaths, Tokens
<1>2. Parent[m] \in Node /\ Parent[m] # m
  BY ParentApart
<1>3. /\ m_state'[m] = "dead" /\ m_state'[Parent[m]] = "awaken"
      /\ \A x \in Node \ {m, Parent[m]} : m_state'[x] = m_state[x]
  BY <1>1, <1>2 DEF Typed, TypeOK
<1>4. \A x \in Node \ {m} : result'[x] = result[x]
  BY <1>1 DEF Typed, TypeOK
<1> QED
  BY <1>1, <1>3, <1>4 DEF Touches

\* A leaf has no children whose results count.
LEMMA LeafReturns ==
  ASSUME NEW m \in Node, m_state'[m] = "dead", Kind[m] \in LeafKinds
  PROVE  Progress(m)'
  BY DEF Progress, RunGives, RaceGives, LeafKinds, ListKinds

\* An action that answers at once,
LEMMA ActionProgress ==
  ASSUME Ready, NEW m \in Node, EnterAction(m)
  PROVE  Touches(m) /\ Progress(m)'
<1>1. PICK v : m_state' = [m_state EXCEPT ![m] = "dead", ![Parent[m]] = "awaken"]
               /\ result' = [result EXCEPT ![m] = v]
  BY DEF EnterAction, SetResult
<1>2. /\ Typed /\ Visiting(m) /\ m_state[m] = "init" /\ Kind[m] = "action"
      /\ Reenter(m, 0) /\ UNCHANGED m_shuffle
  BY DEF Ready, EnterAction, Fresh
<1>3. m \in Tokens /\ Parent[m] # NoNode
  BY <1>2, HasControl, HasParent, TreeAssumption DEF Loadable
<1>4. \A x \in Node \ {m} :
        next_child_idx'[x] = next_child_idx[x] /\ (x \in visited' <=> x \in visited)
  BY <1>2 DEF Reenter, Typed, TypeOK
<1>5. Touches(m)
  BY <1>1, <1>2, <1>3, <1>4, ReturnTouches
<1>6. m_state'[m] = "dead"
  BY <1>1, <1>2, <1>3, ParentApart DEF Typed, TypeOK
<1> QED
  BY <1>2, <1>5, <1>6, LeafReturns DEF LeafKinds

\* one that answers later,
LEMMA CompleteProgress ==
  ASSUME Ready, NEW m \in Node, NEW v, Complete(m, v)
  PROVE  Touches(m) /\ Progress(m)'
<1>1. /\ Typed /\ m_state[m] = "blocking" /\ Kind[m] = "action"
      /\ m_state' = [m_state EXCEPT ![m] = "dead", ![Parent[m]] = "awaken"]
      /\ result' = [result EXCEPT ![m] = v]
      /\ UNCHANGED <<next_child_idx, m_shuffle, visited>>
  BY DEF Ready, Complete, SetResult
<1>2. m \in Tokens /\ Parent[m] # NoNode
  BY <1>1, HasParent, TreeAssumption DEF Loadable, Ready, Steady, Remembered, Tokens
<1>3. Touches(m)
  BY <1>1, <1>2, ReturnTouches
<1>4. m_state'[m] = "dead"
  BY <1>1, <1>2, ParentApart DEF Typed, TypeOK
<1> QED
  BY <1>1, <1>3, <1>4, LeafReturns DEF LeafKinds

\* and a wait_event whose event has come.
LEMMA EventProgress ==
  ASSUME Ready, HandleEvent
  PROVE  \E m \in Node : Touches(m) /\ Progress(m)'
<1>1. PICK k \in DOMAIN m_fronts :
        /\ First(k, Head(m_events)) /\ m_state[m_fronts[k]] # "dead"
        /\ m_state' = [m_state EXCEPT ![m_fronts[k]] = "dead", ![Parent[m_fronts[k]]] = "awaken"]
        /\ result' = [result EXCEPT ![m_fronts[k]] = TRUE]
  BY DEF HandleEvent
<1>2. PICK m : m = m_fronts[k]
  OBVIOUS
<1>3. Typed /\ Steady /\ UNCHANGED <<next_child_idx, m_shuffle, visited>>
  BY DEF Ready, HandleEvent
<1>4. m \in Queued /\ Kind[m] = "wait_event" /\ m_state[m] # "dead"
  BY <1>1, <1>2 DEF First, Listeners, Listens, ToSet, Queued
<1>5. m \in Node /\ m # cur_root_node /\ Parent[m] # NoNode
  <2>1. InLoaded(m)
    BY <1>4, QueuedLoaded DEF Ready
  <2>2. m \in Node /\ m # cur_root_node
    BY <1>3, <1>4, <2>1, LoadedNeighbours
  <2> QED
    BY <1>4, <2>2, HasParent, TreeAssumption DEF Loadable
<1>6. m \in Tokens
  <2>1. m_state[m] \in States
    BY <1>3, <1>5 DEF Typed, TypeOK
  <2>2. m_state[m] \notin {"entering", "revisiting", "wait_child"}
    BY <1>3, <1>4, <1>5 DEF Steady, Remembered, QueuedOnce
  <2> QED
    BY <1>4, <2>1, <2>2 DEF Tokens, States
<1>7. m_state' = [m_state EXCEPT ![m] = "dead", ![Parent[m]] = "awaken"]
      /\ result' = [result EXCEPT ![m] = TRUE]
  BY <1>1, <1>2
<1>8. Touches(m)
  BY <1>3, <1>5, <1>6, <1>7, ReturnTouches
<1>9. m_state'[m] = "dead"
  BY <1>3, <1>5, <1>7, ParentApart DEF Typed, TypeOK
<1> QED
  BY <1>4, <1>5, <1>8, <1>9, LeafReturns DEF LeafKinds

\* The child that has woken m up.
LEMMA WokenBy ==
  ASSUME Typed, NEW m \in Node, Kind[m] # "parallel", m_state[m] = "awaken", Progress(m)
  PROVE  /\ Halfway(m) /\ next_child_idx[m] \in Nat /\ Arity(m) \in Nat
         /\ Cursor(m, next_child_idx[m]) \in 0..(Arity(m) - 1)
         /\ \E r \in BOOLEAN : r = ChildResult(m) /\ Ran(m, Cursor(m, next_child_idx[m]), r)
<1> DEFINE k == Cursor(m, next_child_idx[m])
<1>1. Halfway(m) /\ next_child_idx[m] \in Nat /\ Arity(m) \in Nat
  BY ChildPlaces DEF Progress, Typed, TypeOK
<1>2. k \in Nat
  <2>1. m_shuffle[m] \in Seq(Nat)
    BY DEF Typed, TypeOK
  <2> QED
    BY <1>1, <2>1 DEF Cursor
<1>3. PICK c \in Current(m) : m_state[c] = "dead"
  BY DEF Progress
<1>4. k < Arity(m) /\ c = Child(m, k)
  BY <1>3 DEF Current, Forwards
<1>5. k \in 0..(Arity(m) - 1)
  BY <1>1, <1>2, <1>4
<1>6. PICK r \in BOOLEAN : r = result[Child(m, k)]
  BY <1>5, ChildPlaces DEF Typed, TypeOK
<1>7. ChildResult(m) = (result[Child(m, k)] = TRUE)
  BY <1>5, <1>6 DEF ChildResult
<1>8. r = ChildResult(m)
  BY <1>6, <1>7
<1> QED
  BY <1>1, <1>3, <1>4, <1>5, <1>6, <1>8 DEF Ran

\* A list composite that has run its children in the order `order` until one of
\* them answered `stop`, or until the last one, gives what that one answered.
LEMMA ListRuns ==
  ASSUME Typed, NEW m \in Node, Halfway(m), Kind[m] \in {"sequence", "random_seq", "select"},
         NEW r \in BOOLEAN, NEW stop \in BOOLEAN, \A q \in BOOLEAN : Shortcut(m, q) <=> q = stop,
         next_child_idx[m] \in 0..(Arity(m) - 1),
         Ran(m, Cursor(m, next_child_idx[m]), r),
         Settles(m, next_child_idx[m], r),
         NEW order, Len(order) = Arity(m),
         \A j \in 1..Arity(m) : order[j] = Cursor(m, j - 1)
  PROVE  RanUntil(m, order, stop, r)
<1> DEFINE i == next_child_idx[m]
<1>1. Arity(m) \in Nat /\ i \in Nat /\ i + 1 \in 1..Arity(m)
  BY ChildPlaces
<1>2. \A q \in BOOLEAN : ~Shortcut(m, q) => q = ~stop
  OBVIOUS
<1>3. r # stop => i + 1 = Arity(m)
  BY DEF Settles, ListKinds
<1>4. \A j \in 0..(Arity(m) - 1) :
        /\ j < i => \E q \in BOOLEAN : ~Shortcut(m, q) /\ Ran(m, Cursor(m, j), q)
        /\ j > i => NotRun(m, Cursor(m, j))
  BY DEF Halfway, ListKinds
<1>5. ASSUME NEW j \in 1..((i + 1) - 1) PROVE Ran(m, order[j], ~stop)
  <2>1. j - 1 \in 0..(Arity(m) - 1) /\ j - 1 < i /\ j \in 1..Arity(m)
    BY <1>1
  <2>2. PICK q \in BOOLEAN : ~Shortcut(m, q) /\ Ran(m, Cursor(m, j - 1), q)
    BY <1>4, <2>1
  <2>3. q = ~stop
    BY <1>2, <2>2
  <2> QED
    BY <2>1, <2>2, <2>3
<1>6. ASSUME NEW j \in ((i + 1) + 1)..Arity(m) PROVE NotRun(m, order[j])
  <2>1. j - 1 \in 0..(Arity(m) - 1) /\ j - 1 > i /\ j \in 1..Arity(m)
    BY <1>1
  <2> QED
    BY <1>4, <2>1
<1>7. order[i + 1] = Cursor(m, i)
  BY <1>1
<1> QED
  BY <1>1, <1>3, <1>5, <1>6, <1>7 DEF RanUntil

\* When the child that has woken m up settles it, the answer is the one of run().
LEMMA SettledRuns ==
  ASSUME Typed, NEW m \in Node, Sequential(m), m_state[m] = "awaken", Progress(m),
         Settles(m, next_child_idx[m], ChildResult(m))
  PROVE  \E v \in BOOLEAN : v = Verdict(m, ChildResult(m)) /\ RunGives(m, v)
<1> DEFINE i == next_child_idx[m]
<1>1. Kind[m] \notin LeafKinds \cup {"parallel"} /\ Kind[m] \in NodeKinds
  BY TreeAssumption DEF Sequential, Loadable
<1>2. /\ Halfway(m) /\ i \in Nat /\ Arity(m) \in Nat
      /\ Cursor(m, i) \in 0..(Arity(m) - 1)
  BY <1>1, WokenBy
<1>3. PICK r \in BOOLEAN : r = ChildResult(m) /\ Ran(m, Cursor(m, i), r)
  BY <1>1, WokenBy
<1>4. Settles(m, i, r)
  BY <1>3
<1>5. PICK v \in BOOLEAN : v = Verdict(m, r)
  BY DEF Verdict
<1>6. SUFFICES RunGives(m, v)
  BY <1>3, <1>5
<1>7. CASE Kind[m] \in ListKinds
  <2>1. i \in 0..(Arity(m) - 1)
    <3>1. Kind[m] = "random_seq" => Shuffled(m)
      BY <1>2, <1>7 DEF Halfway, ListKinds
    <3>2. i < Arity(m)
      BY <1>2, <1>7, <3>1, ListPlaces
    <3> QED
      BY <1>2, <3>2
  <2>2. CASE Kind[m] = "random_seq"
    <3>1. m_shuffle[m] \in [1..Arity(m) -> 0..(Arity(m) - 1)]
      BY <1>2, <2>2 DEF Halfway, ListKinds, Shuffled
    <3>2. Len(m_shuffle[m]) = Arity(m)
      BY <1>2, <3>1
    <3>3. \A j \in 1..Arity(m) : m_shuffle[m][j] = Cursor(m, j - 1)
      BY <1>2, <2>2, <3>2 DEF Cursor
    <3>4. (\A q \in BOOLEAN : Shortcut(m, q) <=> q = FALSE) /\ v = r
      BY <1>5, <2>2 DEF Shortcut, Verdict
    <3>5. RanUntil(m, m_shuffle[m], FALSE, r)
      BY <1>2, <1>3, <1>4, <2>1, <2>2, <3>2, <3>3, <3>4, ListRuns
    <3> QED
      BY <2>2, <3>4, <3>5 DEF RunGives
  <2>3. CASE Kind[m] \in {"sequence", "select"}
    <3>1. Len(Indices(m)) = Arity(m)
      BY <1>2 DEF Indices
    <3>2. \A j \in 1..Arity(m) : Indices(m)[j] = Cursor(m, j - 1)
      BY <1>2, <2>3 DEF Indices, Cursor
    <3>3. PICK stop \in BOOLEAN : stop = (Kind[m] = "select")
      OBVIOUS
    <3>4. (\A q \in BOOLEAN : Shortcut(m, q) <=> q = stop) /\ v = r
      BY <1>5, <2>3, <3>3 DEF Shortcut, Verdict
    <3>5. RanUntil(m, Indices(m), stop, r)
      BY <1>2, <1>3, <1>4, <2>1, <2>3, <3>1, <3>2, <3>4, ListRuns
    <3> QED
      BY <2>3, <3>3, <3>4, <3>5 DEF RunGives
  <2>4. CASE Kind[m] = "always_seq"
    <3>1. i + 1 = Arity(m) /\ v
      BY <1>4, <1>5, <2>4 DEF Settles, Shortcut, Verdict, ListKinds
    <3>2. ASSUME NEW c \in ChildSet(m) PROVE m_state[c] = "dead"
      <4>1. PICK j \in 0..(Arity(m) - 1) : c = Child(m, j)
        BY ChildPlaces
      <4>2. \A k : Cursor(m, k) = k
        BY <2>4 DEF Cursor
      <4>3. j = i \/ j < i
        BY <1>2, <3>1
      <4>4. j < i => m_state[Child(m, Cursor(m, j))] = "dead"
        BY <1>2, <2>4 DEF Halfway, ListKinds, Ran
      <4> QED
        BY <1>3, <4>1, <4>2, <4>3, <4>4 DEF Ran
    <3> QED
      BY <2>4, <3>1, <3>2 DEF RunGives
  <2> QED
    BY <1>7, <2>2, <2>3, <2>4 DEF ListKinds
<1>8. CASE Kind[m] \notin ListKinds
  <2>1. Ran(m, i, r) /\ i \in 0..(Arity(m) - 1)
    BY <1>2, <1>3, <1>8 DEF Cursor, ListKinds
  <2>2. CASE Kind[m] = "if_else"
    <3>1. v = r /\ i # 0
      BY <1>4, <1>5, <2>2 DEF Verdict, Settles, ListKinds
    <3>2. /\ i \in 0..2
          /\ i = 1 => Ran(m, 0, TRUE)
          /\ i = 2 => Ran(m, 0, FALSE)
          /\ \A j \in 1..(Arity(m) - 1) : j # i => NotRun(m, j)
      BY <1>2, <2>2 DEF Halfway, ListKinds
    <3>3. CASE i = 1
      <4>1. Ran(m, 0, TRUE)
        BY <3>2, <3>3
      <4>2. Arity(m) > 2 => NotRun(m, 2)
        BY <1>2, <3>2, <3>3
      <4>3. Ran(m, 1, v)
        BY <2>1, <3>1, <3>3
      <4> QED
        BY <2>2, <4>1, <4>2, <4>3 DEF RunGives
    <3>4. CASE i = 2
      <4>1. Ran(m, 0, FALSE)
        BY <3>2, <3>4
      <4>2. NotRun(m, 1)
        BY <1>2, <2>1, <3>2, <3>4
      <4>3. Ran(m, 2, v)
        BY <2>1, <3>1, <3>4
      <4> QED
        BY <2>2, <4>1, <4>2, <4>3 DEF RunGives
    <3> QED
      BY <3>1, <3>2, <3>3, <3>4
  <2>3. CASE Kind[m] = "while_loop"
    <3>1. v /\ i = 0 /\ ~r
      BY <1>4, <1>5, <2>3 DEF Verdict, Settles, ListKinds
    <3>2. Ran(m, 0, FALSE)
      BY <2>1, <3>1 DEF Ran
    <3> QED
      BY <2>3, <3>1, <3>2 DEF RunGives
  <2>4. CASE Kind[m] = "probility"
    <3>1. v = r
      BY <1>5, <2>4 DEF Verdict
    <3>2. Weights[m][i + 1] > 0 /\ \A j \in 0..(Arity(m) - 1) : j # i => NotRun(m, j)
      BY <1>2, <2>4 DEF Halfway, ListKinds
    <3> QED
      BY <2>1, <2>4, <3>1, <3>2 DEF RunGives
  <2>5. CASE Kind[m] \in {"negative", "always_true", "root", "sub_tree"}
    <3>1. i = 0
      BY <1>2, <2>5 DEF Halfway, ListKinds
    <3>2. Ran(m, 0, r)
      BY <2>1, <3>1
    <3>3. CASE Kind[m] = "negative"
      <4>1. r = ~v
        BY <1>5, <3>3 DEF Verdict
      <4> QED
        BY <3>2, <3>3, <4>1 DEF RunGives
    <3>4. CASE Kind[m] = "always_true"
      BY <1>5, <3>2, <3>4 DEF RunGives, Verdict
    <3>5. CASE Kind[m] \in {"root", "sub_tree"}
      <4>1. r = v
        BY <1>5, <3>5 DEF Verdict
      <4> QED
        BY <3>2, <3>5, <4>1 DEF RunGives
    <3> QED
      BY <2>5, <3>3, <3>4, <3>5
  <2> QED
    BY <1>1, <1>8, <2>2, <2>3, <2>4, <2>5 DEF NodeKinds, SingleKinds
<1> QED
  BY <1>7, <1>8

\* A composite that returns does so with the result of run().
LEMMA ReturnProgress ==
  ASSUME Ready, NEW m \in Node, Return(m), Progress(m)
  PROVE  Touches(m) /\ Progress(m)'
<1>1. /\ Typed /\ Visiting(m) /\ m_state[m] = "awaken" /\ Sequential(m)
      /\ Settles(m, next_child_idx[m], ChildResult(m))
      /\ m_state' = [m_state EXCEPT ![m] = "dead", ![Parent[m]] = "awaken"]
      /\ result' = [result EXCEPT ![m] = Verdict(m, ChildResult(m))]
      /\ UNCHANGED <<m_shuffle, visited>>
  BY DEF Ready, Return, Awoken, SetResult
<1>2. m \in Tokens /\ Parent[m] # NoNode
  BY <1>1, HasControl, HasParent, TreeAssumption DEF Loadable, Sequential
<1>3. \A x \in Node \ {m} : next_child_idx'[x] = next_child_idx[x]
  BY <1>1 DEF Return, Typed, TypeOK
<1>4. Touches(m)
  BY <1>1, <1>2, <1>3, ReturnTouches
<1>5. PICK v \in BOOLEAN : v = Verdict(m, ChildResult(m)) /\ RunGives(m, v)
  BY <1>1, SettledRuns
<1>6. m_state'[m] = "dead" /\ result'[m] = v
  BY <1>1, <1>2, <1>5, ParentApart DEF Typed, TypeOK
<1>7. ASSUME NEW c \in ChildSet(m) PROVE SameChild(c)
  <2>1. c \in Node /\ c # m /\ c # Parent[m]
    BY <1>2, ParentApart, ChildHasParent, ChildBelow DEF Strictly
  <2> QED
    BY <1>1, <2>1 DEF SameChild, Typed, TypeOK
<1>8. RunGives(m, v)'
  BY <1>1, <1>5, <1>7, RunStays
<1>9. RaceGives(m, v)'
  BY <1>1 DEF RaceGives, Sequential
<1> QED
  BY <1>4, <1>6, <1>8, <1>9 DEF Progress

\* One that goes on is at its next child.
LEMMA AdvanceTouches ==
  ASSUME Ready, Typed', NEW m \in Node, Visiting(m), m_state[m] = "awaken",
         NEW i \in Nat, NEW k \in 0..(Arity(m) - 1),
         next_child_idx' = [next_child_idx EXCEPT ![m] = i],
         m_state' = [m_state EXCEPT ![m] = "wait_child", ![Child(m, k)] = "init"],
         UNCHANGED <<result, m_shuffle, visited>>
  PROVE  /\ Touches(m)
         /\ m_state'[m] = "wait_child" /\ next_child_idx'[m] = i
         /\ m_state'[Child(m, k)] = "init"
         /\ \A j \in 0..(Arity(m) - 1) : j # k => SameChild(Child(m, j))
<1>1. Typed /\ OnPath(m)
  BY HasControl DEF Ready
<1>2. PICK c \in Node : c = Child(m, k) /\ c \in ChildSet(m) /\ c # m
  BY ChildPlaces
<1>3. /\ m_state'[m] = "wait_child" /\ m_state'[c] = "init"
      /\ \A x \in Node \ {m, c} : m_state'[x] = m_state[x]
      /\ next_child_idx'[m] = i
      /\ \A x \in Node \ {m} : next_child_idx'[x] = next_child_idx[x]
  BY <1>1, <1>2 DEF Typed, TypeOK
<1>4. Parent[m] # NoNode => m_state'[Parent[m]] = m_state[Parent[m]]
  BY <1>2, <1>3, ParentApart
<1>5. ASSUME NEW j \in 0..(Arity(m) - 1), j # k PROVE SameChild(Child(m, j))
  <2>1. Child(m, j) \in Node \ {m, c}
    BY <1>2, <1>5, ChildPlaces
  <2> QED
    BY <1>3, <2>1 DEF SameChild
<1>6. Touches(m)
  BY <1>1, <1>2, <1>3, <1>4 DEF Touches
<1> QED
  BY <1>2, <1>3, <1>5, <1>6

\* A composite goes on where run() does.
LEMMA AdvanceProgress ==
  ASSUME Ready, Typed', NEW m \in Node, Advance(m), Progress(m)
  PROVE  Touches(m) /\ Progress(m)'
<1> DEFINE i == next_child_idx[m]
<1>1. /\ Typed /\ Visiting(m) /\ m_state[m] = "awaken" /\ Kind[m] # "parallel"
      /\ UNCHANGED <<result, m_shuffle, visited>>
  BY DEF Ready, Advance, Awoken, Sequential
<1>2. /\ Halfway(m) /\ i \in Nat /\ Arity(m) \in Nat
      /\ Cursor(m, i) \in 0..(Arity(m) - 1)
  BY <1>1, WokenBy
<1>3. PICK r \in BOOLEAN : r = ChildResult(m) /\ Ran(m, Cursor(m, i), r)
  BY <1>1, WokenBy
<1>4. PICK k \in Nat : k = NextIndex(m, i, r)
  BY <1>2 DEF NextIndex
<1>5. /\ ~Settles(m, i, r) /\ k < Arity(m)
      /\ next_child_idx' = [next_child_idx EXCEPT ![m] = k]
      /\ m_state' = [m_state EXCEPT ![m] = "wait_child", ![Child(m, Cursor(m, k))] = "init"]
  BY <1>3, <1>4 DEF Advance
<1>6. PICK d \in 0..(Arity(m) - 1) : d = Cursor(m, k)
  <2>1. m_shuffle[m] \in Seq(0..(Arity(m) - 1))
    BY <1>1 DEF Typed, TypeOK, Arity
  <2> QED
    BY <1>2, <1>5, <2>1 DEF Cursor
<1>7. m_state' = [m_state EXCEPT ![m] = "wait_child", ![Child(m, d)] = "init"]
  BY <1>5, <1>6
<1>8. /\ Touches(m)
      /\ m_state'[m] = "wait_child" /\ next_child_idx'[m] = k
      /\ m_state'[Child(m, d)] = "init"
      /\ \A j \in 0..(Arity(m) - 1) : j # d => SameChild(Child(m, j))
  BY <1>1, <1>5, <1>7, AdvanceTouches
<1>9. \A j : Cursor(m, j)' = Cursor(m, j)
  BY <1>1 DEF Cursor
<1>10. \A c \in Current(m)' : m_state'[c] # "dead"
  BY <1>1, <1>6, <1>8, <1>9 DEF Current, Forwards
<1>11. Halfway(m)'
  <2>1. CASE Kind[m] \in ListKinds
    <3>1. k = i + 1 /\ ~Shortcut(m, r)
      <4>1. k = i + 1
        BY <1>4, <2>1 DEF NextIndex, ListKinds
      <4>2. ~Shortcut(m, r)
        BY <1>5, <2>1 DEF Settles, ListKinds
      <4> QED
        BY <4>1, <4>2
    <3>2. Kind[m] = "random_seq" => Shuffled(m) /\ Shuffled(m)'
      BY <1>1, <1>2, <2>1 DEF Halfway, ListKinds, Shuffled
    <3>3. ASSUME NEW j \in 0..(Arity(m) - 1), j # k
          PROVE  SameChild(Child(m, Cursor(m, j)))
      <4>1. Cursor(m, j) \in 0..(Arity(m) - 1) /\ Cursor(m, j) # d
        BY <1>2, <1>5, <1>6, <2>1, <3>2, <3>3, ListPlaces
      <4> QED
        BY <1>8, <4>1
    <3>4. ASSUME NEW j \in 0..(Arity(m) - 1), j < k
          PROVE  (\E q \in BOOLEAN : ~Shortcut(m, q) /\ Ran(m, Cursor(m, j), q))'
      <4>1. \E q \in BOOLEAN : ~Shortcut(m, q) /\ Ran(m, Cursor(m, j), q)
        <5>1. j = i \/ j < i
          BY <1>2, <3>1, <3>4
        <5>2. j < i => \E q \in BOOLEAN : ~Shortcut(m, q) /\ Ran(m, Cursor(m, j), q)
          BY <1>2, <2>1 DEF Halfway, ListKinds
        <5> QED
          BY <1>3, <3>1, <5>1, <5>2
      <4>2. PICK q \in BOOLEAN : ~Shortcut(m, q) /\ Ran(m, Cursor(m, j), q)
        BY <4>1
      <4>3. ~Shortcut(m, q)' /\ Ran(m, Cursor(m, j), q)'
        BY <1>9, <3>3, <3>4, <4>2 DEF SameChild, Ran, Shortcut
      <4> QED
        BY <4>3
    <3>5. ASSUME NEW j \in 0..(Arity(m) - 1), j > k
          PROVE  NotRun(m, Cursor(m, j))'
      <4>1. NotRun(m, Cursor(m, j))
        <5>1. j > i
          BY <1>2, <3>1, <3>5
        <5> QED
          BY <1>2, <2>1, <5>1 DEF Halfway, ListKinds
      <4> QED
        BY <1>9, <3>3, <3>5, <4>1 DEF SameChild, NotRun
    <3> QED
      BY <1>8, <2>1, <3>2, <3>4, <3>5 DEF Halfway, ListKinds
  <2>2. CASE Kind[m] = "if_else"
    <3>1. i = 0 /\ k = (IF r THEN 1 ELSE 2) /\ Cursor(m, i) = 0 /\ d = k
      BY <1>4, <1>5, <1>6, <2>2 DEF NextIndex, Settles, Cursor, ListKinds
    <3>2. 0 \in 0..(Arity(m) - 1) /\ SameChild(Child(m, 0))
      BY <1>2, <1>8, <3>1
    <3>3. m_state'[Child(m, 0)] = "dead" /\ result'[Child(m, 0)] = r
      BY <1>3, <3>1, <3>2 DEF Ran, SameChild
    <3>4. k = 1 => Ran(m, 0, TRUE)'
      BY <1>2, <3>1, <3>2, <3>3 DEF Ran, Arity
    <3>5. k = 2 => Ran(m, 0, FALSE)'
      BY <1>2, <3>1, <3>2, <3>3 DEF Ran, Arity
    <3>6. ASSUME NEW j \in 1..(Arity(m) - 1), j # k PROVE NotRun(m, j)'
      <4>1. NotRun(m, j)
        BY <1>2, <2>2, <3>1 DEF Halfway, ListKinds
      <4>2. j \in 0..(Arity(m) - 1)
        BY <1>2
      <4> QED
        BY <1>8, <3>1, <3>6, <4>1, <4>2 DEF NotRun, SameChild
    <3>7. k \in 0..2
      BY <3>1
    <3> QED
      BY <1>8, <2>2, <3>4, <3>5, <3>6, <3>7 DEF Halfway, ListKinds
  <2>3. CASE Kind[m] = "while_loop"
    <3>1. k \in 0..1
      BY <1>4, <2>3 DEF NextIndex, ListKinds
    <3> QED
      BY <1>8, <2>3, <3>1 DEF Halfway, ListKinds
  <2>4. CASE Kind[m] \notin ListKinds \cup {"if_else", "while_loop"}
    BY <1>5, <2>4 DEF Settles
  <2> QED
    BY <2>1, <2>2, <2>3, <2>4
<1> QED
  BY <1>8, <1>10, <1>11 DEF Progress, Returned

\* interrupt goes down along the children that composites are at.
LEMMA HitByParent ==
  ASSUME NEW m \in Node, m_state[m] # "dead",
         NEW x \in Interrupted(m_state, next_child_idx, ChildSet(m))
  PROVE  /\ x \in Strictly(m) /\ Parent[x] # NoNode /\ m_state[Parent[x]] # "dead"
         /\ Parent[x] = m \/ Parent[x] \in Interrupted(m_state, next_child_idx, ChildSet(m))
<1>1. PICK s \in ChildSet(m) \cap Lineage[x] :
        \A a \in (Lineage[x] \ Lineage[s]) \cup {s} :
          m_state[a] # "dead" /\ (a = s \/ a \in Forwards(next_child_idx, Parent[a]))
  BY DEF Interrupted
<1>2. x \in Node /\ s \in Node /\ Parent[s] = m /\ m # NoNode
  BY ChildHasParent, TreeAssumption DEF Interrupted, Loadable
<1>3. x \in Strictly(m)
  BY <1>1, <1>2, InBelow, ChildBelow
<1>4. ASSUME x # s
      PROVE  /\ Parent[x] # NoNode /\ m_state[Parent[x]] # "dead"
             /\ Parent[x] \in Interrupted(m_state, next_child_idx, ChildSet(m))
  <2>1. Parent[x] # NoNode /\ s \in Lineage[Parent[x]] /\ Lineage[Parent[x]] \subseteq Lineage[x]
    BY <1>1, <1>2, <1>4, TreeAssumption DEF Created
  <2>2. Parent[x] \in Node /\ Parent[x] \in Lineage[Parent[x]]
    BY <1>2, <2>1, ParentHasChild, InLineage
  <2>3. Parent[x] \in (Lineage[x] \ Lineage[s]) \cup {s}
    BY <1>2, <2>1, <2>2, LineageAntisymmetric
  <2>4. m_state[Parent[x]] # "dead"
    BY <1>1, <2>3
  <2>5. \A a \in (Lineage[Parent[x]] \ Lineage[s]) \cup {s} :
          m_state[a] # "dead" /\ (a = s \/ a \in Forwards(next_child_idx, Parent[a]))
    BY <1>1, <2>1
  <2>6. Parent[x] \in Interrupted(m_state, next_child_idx, ChildSet(m))
    BY <2>1, <2>2, <2>5 DEF Interrupted
  <2> QED
    BY <2>1, <2>4, <2>6
<1> QED
  BY <1>2, <1>3, <1>4

\* Every child is dead after it.
LEMMA HitsChildren ==
  ASSUME NEW m \in Node, NEW c \in ChildSet(m), m_state[c] # "dead"
  PROVE  c \in Interrupted(m_state, next_child_idx, ChildSet(m))
<1>1. c \in Node /\ c \in Lineage[c]
  BY ChildHasParent, InLineage
<1>2. \A a \in (Lineage[c] \ Lineage[c]) \cup {c} :
        m_state[a] # "dead" /\ (a = c \/ a \in Forwards(next_child_idx, Parent[a]))
  OBVIOUS
<1> QED
  BY <1>1, <1>2 DEF Interrupted

\* One of the children that have returned is the last one.
LEMMA LastReturned ==
  ASSUME Typed, NEW m \in Node, NEW d \in ChildSet(m), m_state[d] = "dead"
  PROVE  \E c \in ChildSet(m) : \E v \in BOOLEAN : v = LastDead(m) /\ result[c] = v
<1> DEFINE dead == {i \in 1..Arity(m) : m_state[Children[m][i]] = "dead"}
           T == {Arity(m) - i : i \in dead}
<1>1. Children[m] \in Seq(Node) /\ Arity(m) \in Nat
  BY TreeAssumption DEF Loadable, Arity
<1>2. PICK k \in 1..Arity(m) : d = Children[m][k]
  BY <1>1 DEF ChildSet, ToSet, Arity
<1>3. k \in dead
  BY <1>2
<1>4. T \subseteq Nat /\ T # {}
  BY <1>1, <1>3
<1> HIDE DEF T
<1>5. PICK t \in T : \A u \in T : t <= u
  BY <1>4, LeastNatural
<1>6. PICK l \in dead : t = Arity(m) - l
  BY <1>5 DEF T
<1>7. \A j \in dead : j <= l
  <2>1. \A j \in dead : Arity(m) - l <= Arity(m) - j
    BY <1>5, <1>6 DEF T
  <2> QED
    BY <1>1, <2>1
<1>8. PICK c \in ChildSet(m) : c = Children[m][l] /\ c \in Node
  BY <1>1, ChildHasParent DEF ChildSet, ToSet, Arity
<1>9. PICK v \in BOOLEAN : v = result[c]
  BY <1>8 DEF Typed, TypeOK
<1>10. \A i \in dead : (\A j \in dead : j <= i) => i = l
  BY <1>1, <1>7
<1>11. LastDead(m) = \E i \in dead : (\A j \in dead : j <= i) /\ result[Children[m][i]]
  BY DEF LastDead
<1> HIDE DEF dead
<1>12. v <=> LastDead(m)
  BY <1>7, <1>8, <1>9, <1>10, <1>11
<1>13. v = LastDead(m)
  BY <1>11, <1>12
<1> QED
  BY <1>8, <1>9, <1>13

\* A parallel returns when one of its children has, and interrupts the others.
LEMMA ParallelProgress ==
  ASSUME Ready, intact', NEW m \in Node, RevisitParallel(m), Progress(m)
  PROVE  Touches(m) /\ Progress(m)'
<1> DEFINE hit == Interrupted(m_state, next_child_idx, ChildSet(m))
           p == Parent[m]
<1>1. /\ Typed /\ Visiting(m) /\ m_state[m] = "awaken" /\ Kind[m] = "parallel"
      /\ m_state' = [Kill(m_state, hit) EXCEPT ![m] = "dead", ![p] = "awaken"]
      /\ result' = [result EXCEPT ![m] = LastDead(m)]
      /\ next_child_idx' = Rewind(next_child_idx, hit)
      /\ UNCHANGED <<m_shuffle, visited>>
  BY DEF Ready, RevisitParallel, Awoken, Crash
<1>2. OnPath(m) /\ p # NoNode
  BY <1>1, HasControl, HasParent, TreeAssumption DEF Loadable
<1>3. p \in Node /\ p # m /\ p \notin ChildSet(m) /\ p \notin Strictly(m)
  BY <1>2, ParentApart
<1>4. \A x \in hit : /\ x \in Strictly(m) /\ Parent[x] # NoNode /\ m_state[Parent[x]] # "dead"
                     /\ Parent[x] = m \/ Parent[x] \in hit
  BY <1>1, HitByParent
<1>5. \A c \in ChildSet(m) : m_state[c] = "dead" \/ c \in hit
  BY HitsChildren
<1> HIDE DEF hit
<1>6. m \notin hit /\ p \notin hit
  BY <1>3, <1>4 DEF Strictly
<1>7. /\ m_state'[m] = "dead" /\ m_state'[p] = "awaken"
      /\ \A x \in Node \ {m, p} : m_state'[x] = IF x \in hit THEN "dead" ELSE m_state[x]
  BY <1>1, <1>3 DEF Kill
<1>8. \A x \in hit : m_state'[Parent[x]] = "dead"
  BY <1>3, <1>4, <1>6, <1>7 DEF Strictly, Below
<1>9. \A x \in Node \ {m} : m_state'[x] # "dead" => next_child_idx'[x] = next_child_idx[x]
  BY <1>1, <1>6, <1>7 DEF Rewind
<1>10. \A x \in Node \ {m} : result'[x] = result[x]
  BY <1>1 DEF Typed, TypeOK
<1>11. Touches(m)
  BY <1>1, <1>2, <1>4, <1>7, <1>8, <1>9, <1>10 DEF Touches
<1>12. \A c \in ChildSet(m) : m_state'[c] = "dead"
  <2> SUFFICES ASSUME NEW c \in ChildSet(m) PROVE m_state'[c] = "dead"
    OBVIOUS
  <2>1. c \in Node /\ c # m /\ c # p
    BY <1>3, ChildHasParent, ChildBelow DEF Strictly
  <2> QED
    BY <1>5, <1>7, <2>1
<1>13. PICK d \in ChildSet(m) : m_state[d] = "dead"
  BY <1>1, CurrentChildren DEF Progress
<1>14. PICK c \in ChildSet(m), v \in BOOLEAN : v = LastDead(m) /\ result[c] = v
  BY <1>1, <1>13, LastReturned
<1>15. result'[m] = v /\ result'[c] = v
  <2>1. c \in Node /\ c # m
    BY ChildHasParent, ChildBelow DEF Strictly
  <2> QED
    BY <1>1, <1>14, <2>1 DEF Typed, TypeOK
<1>16. RunGives(m, v)' /\ RaceGives(m, v)'
  BY <1>1, <1>12, <1>15 DEF RunGives, RaceGives, ListKinds
<1> QED
  BY <1>7, <1>11, <1>15, <1>16 DEF Progress

----------------------------------------------------------------------------
(* Every step of an intact agent.                                          *)

\* Where no node changes,
LEMMA StillProgress ==
  ASSUME UNCHANGED nodeVars, NEW n \in Node, Progress(n)
  PROVE  Progress(n)'
<1>1. /\ m_state' = m_state /\ result' = result /\ next_child_idx' = next_child_idx
      /\ m_shuffle' = m_shuffle /\ visited' = visited
  BY DEF nodeVars
<1>2. Halfway(n) => Halfway(n)'
  BY <1>1 DEF Halfway, Shuffled, Shortcut, Ran, NotRun, Cursor
<1>3. Current(n)' = Current(n)
  BY <1>1, CurrentStays
<1>4. Returned(n)' => Returned(n)
  BY <1>1 DEF Returned, Forwards, Cursor
<1>5. RunGives(n, result[n]) => RunGives(n, result[n])'
  BY <1>1 DEF RunGives, RanUntil, Ran, NotRun
<1>6. RaceGives(n, result[n]) => RaceGives(n, result[n])'
  BY <1>1 DEF RaceGives
<1> QED
  BY <1>1, <1>2, <1>3, <1>4, <1>5, <1>6 DEF Progress

\* where every node is new,
LEMMA LoadsProgress ==
  ASSUME NEW r, Loads(r), NEW n \in Node
  PROVE  Progress(n)'
  BY DEF Loads, Progress, Returned

\* where one is visited,
LEMMA VisitProgress ==
  ASSUME Ready, Typed', intact', NEW m \in Node, Visit(m), \A n \in Node : Progress(n)
  PROVE  \A n \in Node : Progress(n)'
<1>1. CASE Requeue(m) \/ Drop(m)
  BY <1>1, StillProgress DEF Requeue, Drop
<1>2. ASSUME Touches(m), Progress(m)' PROVE \A n \in Node : Progress(n)'
  BY <1>2, OthersProgress DEF Ready
<1> QED
  BY <1>1, <1>2, Stops, EnterProgress, BlockProgress, ActionProgress, ReturnProgress,
     AdvanceProgress, ParallelProgress DEF Visit

\* and anywhere else.
LEMMA NextProgress ==
  ASSUME Typed, Typed', FrontsDistinct, FrontsDistinct', SteadyWhileIntact, intact',
         intact => \A n \in Node : Progress(n), [Next]_vars
  PROVE  \A n \in Node : Progress(n)'
<1>1. CASE \E r \in Roots : Loads(r)
  BY <1>1, LoadsProgress
<1>2. CASE Ready /\ ~\E r \in Roots : Loads(r)
  <2>1. \A n \in Node : Progress(n)
    BY <1>2 DEF Ready
  <2>2. ~((\E r \in Roots : LoadFirst(r)) \/ \E r \in Roots \cup {NoNode} : LoadOther(r))
    BY <1>2, LoadsTree DEF Ready
  <2>3. ~Disable /\ ~LoadSame /\ ~HandleDead /\ ~PollRestartFaults
        /\ \A m \in Node : ~CompleteDead(m)
    BY DEF Disable, LoadSame, HandleDead, PollRestartFaults, CompleteDead, NotifyStop, StopFaults,
           Crash
  <2>4. ASSUME NEW m \in Node, Touches(m), Progress(m)' PROVE \A n \in Node : Progress(n)'
    BY <1>2, <2>1, <2>4, OthersProgress DEF Ready
  <2>5. ASSUME \/ \E e \in Event : DispatchEvent(e)
               \/ PollCall \/ Enable \/ PollDisabled \/ PollRound \/ IgnoreEvent
               \/ BeginPass \/ PollAgain \/ PollDone \/ PollRestart \/ UNCHANGED vars
        PROVE  \A n \in Node : Progress(n)'
    <3>1. UNCHANGED nodeVars
      BY <2>5 DEF DispatchEvent, PollCall, Enable, PollDisabled, PollRound, IgnoreEvent,
                  BeginPass, PollAgain, PollDone, PollRestart, vars
    <3> QED
      BY <2>1, <3>1, StillProgress
  <2>6. ASSUME NEW m \in Node, NEW v \in BOOLEAN, Complete(m, v)
        PROVE  \A n \in Node : Progress(n)'
    BY <1>2, <2>4, <2>6, CompleteProgress
  <2>7. ASSUME HandleEvent PROVE \A n \in Node : Progress(n)'
    BY <1>2, <2>4, <2>7, EventProgress
  <2>8. ASSUME NEW m \in Node, Visit(m) PROVE \A n \in Node : Progress(n)'
    BY <1>2, <2>1, <2>8, VisitProgress
  <2> QED
    BY <2>2, <2>3, <2>5, <2>6, <2>7, <2>8 DEF Next, Application, Polling
<1> QED
  BY <1>1, <1>2, NextMoves

\* At every step of an intact agent a composite has done a beginning of its run().
THEOREM RunsSoFarAlways == Spec => []RunsSoFar
<1>1. Init => RunsSoFar
  BY DEF Init, RunsSoFar
<1>2. ASSUME Typed, Typed', FrontsDistinct, FrontsDistinct', SteadyWhileIntact, RunsSoFar,
             [Next]_vars
      PROVE  RunsSoFar'
  BY <1>2, NextProgress DEF RunsSoFar
<1> QED
  BY <1>1, <1>2, SteadyAlways, TypedAlways, NoneQueuedTwice, PTL DEF Spec

\* Whenever a parent learns of a composite's result, the composite and its
\* children have done what the run() function of its kind does, in every forest
\* and whatever other branches, events, interruptions and loads did meanwhile.
THEOREM SemanticsAlways == Spec => []RunSemantics
<1>1. RunsSoFar => RunSemantics
  BY DEF RunsSoFar, Progress, RunSemantics
<1> QED
  BY <1>1, RunsSoFarAlways, PTL

\* Whenever a parent learns of the result of a parallel, all its children have
\* ended, and one of them with that result.
THEOREM RaceAlways == Spec => []RaceSettled
<1>1. RunsSoFar => RaceSettled
  BY DEF RunsSoFar, Progress, RaceSettled
<1> QED
  BY <1>1, RunsSoFarAlways, PTL
=============================================================================
