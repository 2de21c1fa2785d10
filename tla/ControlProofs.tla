---------------------------- MODULE ControlProofs ----------------------------
(***************************************************************************)
(* Control stays on one path below every waiting composite, for every      *)
(* forest, every set of events and every behaviour of the actions.         *)
(*                                                                         *)
(* The argument has three layers.  Every step of an intact agent moves one *)
(* token (Down, Up, Blocks) or none (Quiet), whatever operation it is; a   *)
(* move keeps the parts of Steady, whatever the trees and queues are; and  *)
(* what is special about the root, which a reset queues again, is shown    *)
(* operation by operation.                                                 *)
(***************************************************************************)
EXTENDS AgentProofs, AgentInvariant

----------------------------------------------------------------------------
(* Subtrees.                                                               *)

\* A node in a subtree.
LEMMA InBelow ==
  \A p, x : /\ x \in Below(p) <=> x \in Node /\ p \in Lineage[x]
            /\ x \in Strictly(p) <=> x \in Node /\ p \in Lineage[x] /\ x # p
  BY DEF Below, Strictly

\* The parent of a node below p is p or below it.
LEMMA ParentBelow ==
  ASSUME NEW p \in Node, NEW x \in Strictly(p)
  PROVE  /\ x \in Node
         /\ Parent[x] \in Node
         /\ Parent[x] # NoNode
         /\ Parent[x] \in Below(p)
<1>1. x \in Node /\ p \in Lineage[x] /\ x # p
  BY InBelow
<1>2. Parent[x] # NoNode /\ p \in Lineage[Parent[x]]
  BY <1>1, TreeAssumption DEF Created
<1> QED
  BY <1>1, <1>2, ParentHasChild, InBelow

\* Subtrees of subtrees.
LEMMA BelowTransitive ==
  ASSUME NEW y, NEW z, NEW x \in Below(y), y \in Below(z)
  PROVE  x \in Below(z)
  BY InBelow, LineageTransitive

\* A child's subtree does not hold its parent.
LEMMA ChildBelow ==
  ASSUME NEW p \in Node, NEW c \in ChildSet(p)
  PROVE  c \in Strictly(p) /\ Below(c) \subseteq Strictly(p)
<1>1. c \in Node /\ Lineage[c] = {c} \cup Lineage[p] /\ c \notin Lineage[p]
  BY ChildHasParent, ChildLineage
<1>2. p \in Lineage[c] /\ c # p
  BY <1>1, InLineage
<1>3. ASSUME NEW x \in Below(c) PROVE x \in Strictly(p)
  <2>1. x \in Node /\ c \in Lineage[x]
    BY <1>3, InBelow
  <2>2. p \in Lineage[x]
    BY <1>2, <2>1, LineageTransitive
  <2>3. x # p
    BY <1>1, <2>1
  <2> QED
    BY <2>1, <2>2, <2>3, InBelow
<1> QED
  BY <1>1, <1>2, <1>3, InBelow

\* No child is below its sibling.
LEMMA SiblingsApart ==
  ASSUME NEW p \in Node, NEW c \in ChildSet(p), NEW d \in ChildSet(p), c \in Below(d)
  PROVE  c = d
  BY InBelow, ChildLineage

\* What is below p is below one of its children.
LEMMA BranchOf ==
  ASSUME NEW p \in Node, NEW x \in Strictly(p)
  PROVE  \E c \in ChildSet(p) : x \in Below(c) /\ c \in Node /\ c \in Lineage[x] /\ Parent[c] = p
<1> DEFINE S == {y \in Node : \A a \in Lineage[y] : a = y \/ \E c \in ChildSet(a) : c \in Lineage[y]}
<1>1. ASSUME NEW y \in Node, Parent[y] = NoNode \/ Parent[y] \in S
      PROVE  y \in S
  <2>1. CASE Parent[y] = NoNode
    BY <2>1, TreeAssumption DEF Created
  <2>2. CASE Parent[y] # NoNode
    <3>1. Lineage[y] = {y} \cup Lineage[Parent[y]] /\ y \in ChildSet(Parent[y])
      BY <2>2, ParentHasChild, TreeAssumption DEF Created
    <3> QED
      BY <1>1, <2>2, <3>1
  <2> QED
    BY <2>1, <2>2
<1>2. Node \subseteq S
  <2> HIDE DEF S
  <2> QED
    BY <1>1, TreeInduction
<1>3. x \in Node /\ p \in Lineage[x] /\ x # p
  BY InBelow
<1>4. PICK c \in ChildSet(p) : c \in Lineage[x]
  BY <1>2, <1>3
<1> QED
  BY <1>3, <1>4, ChildHasParent, InBelow

----------------------------------------------------------------------------
(* Paths.                                                                  *)

\* A composite is at children of its own, and a sequential one at one child.
LEMMA CurrentChildren ==
  ASSUME Typed, NEW p \in Node
  PROVE  /\ Current(p) \subseteq ChildSet(p)
         /\ Kind[p] # "parallel" => \A c, d \in Current(p) : c = d
<1>1. Children[p] \in Seq(Node)
  BY TreeAssumption DEF Loadable
<1>2. Cursor(p, next_child_idx[p]) \in Nat
  <2>1. m_shuffle[p] \in Seq(Nat) /\ next_child_idx[p] \in Nat
    BY DEF Typed, TypeOK
  <2> QED
    BY <2>1 DEF Cursor
<1>3. ASSUME Cursor(p, next_child_idx[p]) < Arity(p)
      PROVE  Child(p, Cursor(p, next_child_idx[p])) \in ChildSet(p)
  BY <1>1, <1>2, <1>3 DEF Child, Arity, ChildSet, ToSet
<1> QED
  BY <1>3 DEF Current, Forwards

\* Every node above a token waits, for the branch the token is in.
LEMMA PathWaits ==
  ASSUME NEW p \in Node, NEW t \in Strictly(p), OnPath(t)
  PROVE  Waiting(p) /\ \E c \in Current(p) : t \in Below(c)
<1>1. PICK c \in ChildSet(p) : t \in Below(c) /\ c \in Lineage[t] /\ Parent[c] = p
  BY BranchOf
<1>2. p # NoNode
  BY TreeAssumption DEF Loadable
<1>3. Edge(c)
  BY <1>1, <1>2 DEF OnPath
<1> QED
  BY <1>1, <1>3 DEF Edge

\* So there is none below a node that starts over or blocks.
LEMMA NoneBelow ==
  ASSUME NEW p \in Node, Sole(p) \/ m_state[p] = "blocking" \/ m_state[p] = "dead"
  PROVE  \A t \in Strictly(p) : ~OnPath(t)
  BY PathWaits DEF Waiting, Sole

----------------------------------------------------------------------------
(* The order of the work list.                                             *)

\* The members of a queue.
LEMMA QueueMembers ==
  ASSUME NEW q \in Seq(Node)
  PROVE  /\ ToSet(q) \subseteq Node
         /\ \A p, x : Before(q, p, x) => p \in ToSet(q) /\ x \in ToSet(q)
  BY DEF ToSet, Before

\* What is behind the first node, and what is left without it.
LEMMA TailOrder ==
  ASSUME NEW q \in Seq(Node), q # <<>>
  PROVE  /\ Head(q) \in Node /\ Tail(q) \in Seq(Node)
         /\ ToSet(q) = {Head(q)} \cup ToSet(Tail(q))
         /\ \A x \in ToSet(Tail(q)) : Before(q, Head(q), x)
         /\ \A p, x : Before(Tail(q), p, x) => Before(q, p, x)
<1>1. /\ Head(q) = q[1] /\ Tail(q) \in Seq(Node) /\ Len(q) \in Nat \ {0}
      /\ Len(Tail(q)) = Len(q) - 1
      /\ \A i \in 1..(Len(q) - 1) : Tail(q)[i] = q[i + 1]
  OBVIOUS
<1>2. DOMAIN q = 1..Len(q) /\ DOMAIN Tail(q) = 1..(Len(q) - 1)
  BY <1>1
<1>3. \A i \in 1..(Len(q) - 1) : i + 1 \in 1..Len(q)
  BY <1>1
<1>4. ToSet(q) \subseteq {Head(q)} \cup ToSet(Tail(q))
  <2> SUFFICES ASSUME NEW i \in 1..Len(q), i # 1 PROVE q[i] \in ToSet(Tail(q))
    BY <1>1, <1>2 DEF ToSet
  <2>1. i - 1 \in 1..(Len(q) - 1) /\ Tail(q)[i - 1] = q[i]
    BY <1>1
  <2> QED
    BY <1>2, <2>1 DEF ToSet
<1>5. ToSet(Tail(q)) \subseteq ToSet(q) /\ Head(q) \in ToSet(q)
  BY <1>1, <1>2 DEF ToSet
<1>6. ASSUME NEW x \in ToSet(Tail(q)) PROVE Before(q, Head(q), x)
  <2>1. PICK i \in 1..(Len(q) - 1) : q[i + 1] = x
    BY <1>1, <1>2 DEF ToSet
  <2>2. 1 \in DOMAIN q /\ i + 1 \in DOMAIN q /\ 1 < i + 1
    BY <1>1, <1>2
  <2> QED
    BY <1>1, <2>1, <2>2 DEF Before
<1>7. ASSUME NEW p, NEW x, Before(Tail(q), p, x) PROVE Before(q, p, x)
  <2>1. PICK i \in 1..(Len(q) - 1), j \in 1..(Len(q) - 1) :
          i < j /\ q[i + 1] = p /\ q[j + 1] = x
    BY <1>1, <1>2, <1>7 DEF Before
  <2>2. i + 1 \in DOMAIN q /\ j + 1 \in DOMAIN q
    BY <1>2, <1>3
  <2>3. i + 1 < j + 1
    BY <2>1
  <2> QED
    BY <2>1, <2>2, <2>3 DEF Before
<1>8. Head(q) \in Node
  BY <1>1
<1> QED
  BY <1>1, <1>4, <1>5, <1>6, <1>7, <1>8

\* The members of a queue that gets longer,
LEMMA ConcatMembers ==
  ASSUME NEW q \in Seq(Node), NEW s \in Seq(Node)
  PROVE  ToSet(q \o s) = ToSet(q) \cup ToSet(s)
<1>1. /\ q \o s \in Seq(Node)
      /\ DOMAIN (q \o s) = 1..(Len(q) + Len(s))
      /\ \A i \in 1..Len(q) : i \in DOMAIN (q \o s) /\ (q \o s)[i] = q[i]
      /\ \A i \in 1..Len(s) : Len(q) + i \in DOMAIN (q \o s) /\ (q \o s)[Len(q) + i] = s[i]
      /\ \A i \in 1..(Len(q) + Len(s)) :
           i \in 1..Len(q) \/ (i - Len(q) \in 1..Len(s) /\ i = Len(q) + (i - Len(q)))
  OBVIOUS
<1>2. DOMAIN q = 1..Len(q) /\ DOMAIN s = 1..Len(s)
  OBVIOUS
<1>3. ASSUME NEW x \in ToSet(q \o s) PROVE x \in ToSet(q) \cup ToSet(s)
  <2>1. PICK i \in 1..(Len(q) + Len(s)) : (q \o s)[i] = x
    BY <1>1, <1>3 DEF ToSet
  <2>2. (\E j \in 1..Len(q) : q[j] = x) \/ (\E j \in 1..Len(s) : s[j] = x)
    BY <1>1, <2>1
  <2> QED
    BY <1>2, <2>2 DEF ToSet
<1>4. ASSUME NEW x \in ToSet(q) PROVE x \in ToSet(q \o s)
  BY <1>1, <1>2, <1>4 DEF ToSet
<1>5. ASSUME NEW x \in ToSet(s) PROVE x \in ToSet(q \o s)
  <2>1. PICK i \in 1..Len(s) : s[i] = x
    BY <1>2, <1>5 DEF ToSet
  <2>2. Len(q) + i \in DOMAIN (q \o s) /\ (q \o s)[Len(q) + i] = x
    BY <1>1, <2>1
  <2> HIDE DEF ToSet
  <2>3. \A f : \A k \in DOMAIN f : f[k] \in ToSet(f)
    BY DEF ToSet
  <2> QED
    BY <2>2, <2>3
<1> QED
  BY <1>3, <1>4, <1>5

\* and their order.
LEMMA ConcatOrder ==
  ASSUME NEW q \in Seq(Node), NEW s \in Seq(Node), IsInjective(s)
  PROVE  /\ ToSet(q \o s) = ToSet(q) \cup ToSet(s)
         /\ \A p, x : Before(q \o s, p, x) => Before(q, p, x) \/ x \in ToSet(s)
         /\ \A x : Before(q \o s, x, x) => Before(q, x, x) \/ x \in ToSet(q) \cap ToSet(s)
<1>1. /\ q \o s \in Seq(Node)
      /\ Len(q \o s) = Len(q) + Len(s)
      /\ \A i \in 1..(Len(q) + Len(s)) :
           (q \o s)[i] = IF i <= Len(q) THEN q[i] ELSE s[i - Len(q)]
  BY ConcatProperties
<1>2. Len(q) \in Nat /\ Len(s) \in Nat /\ DOMAIN q = 1..Len(q) /\ DOMAIN s = 1..Len(s)
  OBVIOUS
<1>3. DOMAIN (q \o s) = 1..(Len(q) + Len(s))
  BY <1>1
<1>4. ASSUME NEW i \in 1..(Len(q) + Len(s))
      PROVE  \/ i \in 1..Len(q) /\ (q \o s)[i] = q[i]
             \/ i > Len(q) /\ i - Len(q) \in 1..Len(s) /\ (q \o s)[i] = s[i - Len(q)]
  BY <1>1, <1>2
<1>5. ASSUME NEW p, NEW x, Before(q \o s, p, x)
      PROVE  /\ Before(q, p, x) \/ x \in ToSet(s)
             /\ p = x => Before(q, x, x) \/ x \in ToSet(q) \cap ToSet(s)
  <2>1. PICK i \in 1..(Len(q) + Len(s)), j \in 1..(Len(q) + Len(s)) :
          i < j /\ (q \o s)[i] = p /\ (q \o s)[j] = x
    BY <1>3, <1>5 DEF Before
  <2>2. CASE j \in 1..Len(q) /\ (q \o s)[j] = q[j]
    <3>1. i \in 1..Len(q) /\ q[i] = p /\ q[j] = x
      BY <1>4, <2>1, <2>2
    <3> QED
      BY <1>2, <2>1, <2>2, <3>1 DEF Before
  <2>3. CASE j > Len(q) /\ j - Len(q) \in 1..Len(s) /\ (q \o s)[j] = s[j - Len(q)]
    <3>1. x \in ToSet(s)
      BY <1>2, <2>1, <2>3 DEF ToSet
    <3>2. ASSUME p = x PROVE x \in ToSet(q)
      <4>1. CASE i \in 1..Len(q) /\ (q \o s)[i] = q[i]
        BY <1>2, <2>1, <3>2, <4>1 DEF ToSet
      <4>2. CASE i > Len(q) /\ i - Len(q) \in 1..Len(s) /\ (q \o s)[i] = s[i - Len(q)]
        <5>1. s[i - Len(q)] = s[j - Len(q)]
          BY <2>1, <2>3, <3>2, <4>2
        <5>2. i - Len(q) = j - Len(q)
          BY <1>2, <2>3, <4>2, <5>1 DEF IsInjective
        <5> QED
          BY <1>2, <2>1, <5>2
      <4> QED
        BY <1>4, <4>1, <4>2
    <3> QED
      BY <3>1, <3>2
  <2> QED
    BY <1>4, <2>2, <2>3
<1> QED
  BY <1>5, ConcatMembers

\* add_to_front appends nothing or one node.
LEMMA AddToFrontAppends ==
  ASSUME NEW q \in Seq(Node), NEW n \in Node
  PROVE  \E s \in Seq(Node) : /\ AddToFront(q, n) = q \o s
                              /\ IsInjective(s)
                              /\ s = <<>> \/ s = <<n>>
                              /\ ToSet(s) \subseteq {n}
                              /\ n \in ToSet(q) \cup ToSet(s)
<1>1. CASE n \in ToSet(q)
  <2>1. q \o <<>> = q /\ <<>> \in Seq(Node) /\ ToSet(<<>>) = {}
    BY NoneQueued, ConcatEmptySeq DEF ToSet
  <2>2. AddToFront(q, n) = q
    BY <1>1 DEF AddToFront
  <2> QED
    BY <1>1, <2>1, <2>2, ShortDistinct
<1>2. CASE n \notin ToSet(q)
  <2>1. Append(q, n) = q \o <<n>> /\ <<n>> \in Seq(Node) /\ ToSet(<<n>>) = {n}
    BY AppendIsConcat, OneQueued DEF ToSet
  <2>2. AddToFront(q, n) = q \o <<n>>
    BY <1>2, <2>1 DEF AddToFront
  <2> QED
    BY <2>1, <2>2, ShortDistinct
<1> QED
  BY <1>1, <1>2

\* A second node is queued behind the first.
LEMMA TwoQueued ==
  ASSUME NEW a \in Node, NEW b \in Node, a # b
  PROVE  AddToFront(<<a>>, b) = <<a, b>>
<1>1. <<a>> \in Seq(Node) /\ Len(<<a>>) = 1 /\ <<a>>[1] = a
  OBVIOUS
<1>2. /\ Append(<<a>>, b) \in Seq(Node) /\ Len(Append(<<a>>, b)) = 2
      /\ Append(<<a>>, b)[1] = a /\ Append(<<a>>, b)[2] = b
  BY <1>1
<1>3. <<a, b>> \in Seq(Node) /\ Len(<<a, b>>) = 2 /\ <<a, b>>[1] = a /\ <<a, b>>[2] = b
  OBVIOUS
<1>4. \A i \in 1..2 : Append(<<a>>, b)[i] = <<a, b>>[i]
  BY <1>2, <1>3
<1>5. Append(<<a>>, b) = <<a, b>>
  BY <1>2, <1>3, <1>4, SeqEqual
<1>6. ToSet(<<a>>) = {a}
  BY DEF ToSet
<1> QED
  BY <1>5, <1>6 DEF AddToFront

\* The two queues make one work list.
LEMMA WorkType ==
  Typed => /\ Work \in Seq(Node)
           /\ Queued = ToSet(Work)
           /\ Queued \subseteq Node
           /\ \A p, x : Follows(x, p) => p \in Queued /\ x \in Queued
<1> SUFFICES ASSUME Typed
             PROVE  /\ Work \in Seq(Node)
                    /\ Queued = ToSet(Work)
                    /\ Queued \subseteq Node
                    /\ \A p, x : Follows(x, p) => p \in Queued /\ x \in Queued
  OBVIOUS
<1>1. m_fronts \in Seq(Node) /\ m_pre_fronts \in Seq(Node)
  BY DEF Typed, TypeOK
<1>2. Work \in Seq(Node)
  BY <1>1 DEF Work
<1>3. ToSet(Work) = Queued
  BY <1>1, ConcatMembers DEF Work, Queued
<1> QED
  BY <1>2, <1>3, QueueMembers DEF Follows

\* The nodes behind the one that is visited.
Rest == ToSet(Tail(Work))

\* n has its turn: it leaves the head of the work list, and the nodes of Z are
\* queued, each at the end unless it is in m_fronts already.
TakesTurn(n, Z) ==
  /\ n \in Node
  /\ Queued = {n} \cup Rest
  /\ Queued' = Rest \cup Z
  /\ \A x \in Rest : Follows(x, n)
  /\ \A p, x : Follows(x, p)' => Follows(x, p) \/ x \in Z
  /\ \A x : Follows(x, x)' => Follows(x, x) \/ x \in Rest \cap Z

\* A visit as the queues see it.
LEMMA TurnAppends ==
  ASSUME Typed, m_pre_fronts # <<>>, NEW s \in Seq(Node), IsInjective(s),
         m_pre_fronts' = Tail(m_pre_fronts), m_fronts' = m_fronts \o s,
         NEW Z, ToSet(s) \subseteq Z, Z \subseteq ToSet(m_fronts) \cup ToSet(s)
  PROVE  TakesTurn(Head(m_pre_fronts), Z)
<1>1. m_fronts \in Seq(Node) /\ m_pre_fronts \in Seq(Node)
  BY DEF Typed, TypeOK
<1>2. ASSUME NEW q \in Seq(Node), NEW r \in Seq(Node), q # <<>>
      PROVE  q \o r # <<>> /\ Head(q \o r) = Head(q) /\ Tail(q \o r) = Tail(q) \o r
  <2>1. /\ Len(q) \in Nat \ {0} /\ Len(r) \in Nat
        /\ Len(q \o r) = Len(q) + Len(r)
        /\ \A i \in 1..(Len(q) + Len(r)) : (q \o r)[i] = IF i <= Len(q) THEN q[i] ELSE r[i - Len(q)]
        /\ q \o r \in Seq(Node)
    BY <1>2, ConcatProperties, EmptySeq
  <2>2. q \o r # <<>> /\ Head(q \o r) = Head(q)
    BY <2>1
  <2>3. /\ Tail(q) \in Seq(Node) /\ Len(Tail(q)) = Len(q) - 1
        /\ \A i \in 1..(Len(q) - 1) : Tail(q)[i] = q[i + 1]
    BY <1>2, HeadTailProperties
  <2>4. /\ Tail(q \o r) \in Seq(Node) /\ Len(Tail(q \o r)) = Len(q) + Len(r) - 1
        /\ \A i \in 1..(Len(q) + Len(r) - 1) : Tail(q \o r)[i] = (q \o r)[i + 1]
    BY <2>1, <2>2, HeadTailProperties
  <2>5. /\ Tail(q) \o r \in Seq(Node) /\ Len(Tail(q) \o r) = Len(q) + Len(r) - 1
        /\ \A i \in 1..(Len(q) + Len(r) - 1) :
             (Tail(q) \o r)[i] = IF i <= Len(q) - 1 THEN Tail(q)[i] ELSE r[i - (Len(q) - 1)]
    BY <2>1, <2>3, ConcatProperties
  <2>6. ASSUME NEW i \in 1..(Len(q) + Len(r) - 1)
        PROVE  Tail(q \o r)[i] = (Tail(q) \o r)[i]
    <3>1. i + 1 \in 1..(Len(q) + Len(r))
      BY <2>1
    <3>2. CASE i <= Len(q) - 1
      <4>1. i \in 1..(Len(q) - 1) /\ i + 1 <= Len(q)
        BY <2>1, <3>2
      <4> QED
        BY <2>1, <2>3, <2>4, <2>5, <3>1, <3>2, <4>1
    <3>3. CASE ~(i <= Len(q) - 1)
      <4>1. ~(i + 1 <= Len(q)) /\ (i + 1) - Len(q) = i - (Len(q) - 1)
        BY <2>1, <3>3
      <4> QED
        BY <2>1, <2>4, <2>5, <3>1, <3>3, <4>1
    <3> QED
      BY <3>2, <3>3
  <2>7. Tail(q \o r) = Tail(q) \o r
    BY <2>4, <2>5, <2>6, SeqEqual
  <2> QED
    BY <2>2, <2>7
<1>3. /\ Work \in Seq(Node) /\ Work # <<>> /\ Head(Work) = Head(m_pre_fronts)
      /\ Tail(Work) = Tail(m_pre_fronts) \o m_fronts
  BY <1>1, <1>2, WorkType DEF Work
<1>4. Tail(m_pre_fronts) \in Seq(Node)
  BY <1>1, HeadTailProperties
<1>5. Work' = Tail(Work) \o s
  BY <1>1, <1>3, <1>4, ConcatAssociative DEF Work
<1>6. /\ Head(Work) \in Node /\ Tail(Work) \in Seq(Node)
      /\ ToSet(Work) = {Head(Work)} \cup Rest
      /\ \A x \in Rest : Follows(x, Head(Work))
      /\ \A p, x : Before(Tail(Work), p, x) => Follows(x, p)
  BY <1>3, TailOrder DEF Rest, Follows
<1>7. /\ \A p, x : Before(Work', p, x) => Before(Tail(Work), p, x) \/ x \in ToSet(s)
      /\ \A x : Before(Work', x, x) => Before(Tail(Work), x, x) \/ x \in Rest \cap ToSet(s)
  BY <1>5, <1>6, ConcatOrder DEF Rest
<1>8. Queued' = ToSet(m_fronts) \cup ToSet(s) \cup ToSet(Tail(m_pre_fronts))
  BY <1>1, ConcatMembers DEF Queued
<1>9. Rest = ToSet(Tail(m_pre_fronts)) \cup ToSet(m_fronts)
  BY <1>1, <1>3, <1>4, ConcatMembers DEF Rest
<1>10. Queued = {Head(Work)} \cup Rest
  BY <1>6, WorkType
<1>11. \A p, x : Follows(x, p)' <=> Before(Work', p, x)
  BY DEF Follows, Before
<1> QED
  BY <1>3, <1>6, <1>7, <1>8, <1>9, <1>10, <1>11 DEF TakesTurn

\* The visits that queue one node.
LEMMA TurnQueuesOne ==
  ASSUME Typed, NEW n \in Node, Visiting(n), NEW z \in Node,
         m_pre_fronts' = Tail(m_pre_fronts), m_fronts' = AddToFront(m_fronts, z)
  PROVE  TakesTurn(n, {z})
<1>1. m_fronts \in Seq(Node) /\ m_pre_fronts # <<>> /\ n = Head(m_pre_fronts)
  BY DEF Typed, TypeOK, Visiting
<1>2. PICK s \in Seq(Node) : /\ AddToFront(m_fronts, z) = m_fronts \o s
                             /\ IsInjective(s)
                             /\ ToSet(s) \subseteq {z}
                             /\ z \in ToSet(m_fronts) \cup ToSet(s)
  BY <1>1, AddToFrontAppends
<1> QED
  BY <1>1, <1>2, TurnAppends

\* The visits that queue none.
LEMMA TurnQueuesNone ==
  ASSUME Typed, NEW n \in Node, Visiting(n),
         m_pre_fronts' = Tail(m_pre_fronts), m_fronts' = m_fronts
  PROVE  TakesTurn(n, {})
<1>1. m_fronts \in Seq(Node) /\ m_pre_fronts # <<>> /\ n = Head(m_pre_fronts)
  BY DEF Typed, TypeOK, Visiting
<1>2. <<>> \in Seq(Node) /\ IsInjective(<<>>) /\ m_fronts' = m_fronts \o <<>> /\ ToSet(<<>>) = {}
  BY <1>1, NoneQueued, ShortDistinct, ConcatEmptySeq DEF ToSet
<1> QED
  BY <1>1, <1>2, TurnAppends

\* What the second loop of poll_events does to the order: the parent takes the
\* place of its child unless it is queued already.
LEMMA ReplacedOrder ==
  ASSUME NEW q \in Seq(Node), IsInjective(q), NEW k \in DOMAIN q, NEW P \in Node, P # q[k]
  PROVE  /\ ToSet(Replaced(q, k, P)) = (ToSet(q) \ {q[k]}) \cup {P}
         /\ \A a, x : Before(Replaced(q, k, P), a, x) =>
              \/ Before(q, a, x)
              \/ x = P
              \/ a = P /\ Before(q, q[k], x)
<1> DEFINE r == [q EXCEPT ![k] = P]
           n == q[k]
<1>1. /\ r \in Seq(Node) /\ Len(r) = Len(q) /\ DOMAIN r = 1..Len(q) /\ DOMAIN q = 1..Len(q)
      /\ r[k] = P /\ \A i \in 1..Len(q) : i # k => r[i] = q[i]
      /\ k \in 1..Len(q) /\ Len(q) \in Nat
  OBVIOUS
<1>2. \A i, j \in 1..Len(q) : q[i] = q[j] => i = j
  BY <1>1 DEF IsInjective
<1> HIDE DEF r
<1>3. ASSUME P \notin ToSet(q) PROVE Replaced(q, k, P) = r
  BY <1>3 DEF Replaced, r
<1>4. CASE P \notin ToSet(q)
  <2>1. ToSet(r) = (ToSet(q) \ {n}) \cup {P}
    BY <1>1, <1>2 DEF ToSet
  <2>2. ASSUME NEW a, NEW x, Before(r, a, x)
        PROVE  Before(q, a, x) \/ x = P \/ (a = P /\ Before(q, n, x))
    <3>1. PICK i \in 1..Len(q), j \in 1..Len(q) : i < j /\ r[i] = a /\ r[j] = x
      BY <1>1, <2>2 DEF Before
    <3> QED
      BY <1>1, <3>1 DEF Before
  <2> QED
    BY <1>3, <1>4, <2>1, <2>2
<1>5. CASE P \in ToSet(q)
  <2> DEFINE j == CHOOSE i \in DOMAIN q : q[i] = P
  <2>1. j \in 1..Len(q) /\ q[j] = P /\ j # k
    BY <1>1, <1>5 DEF ToSet
  <2>2. Replaced(q, k, P) = IF j < k THEN RemoveAt(q, k) ELSE RemoveAt(r, j)
    BY <1>5 DEF Replaced, r
  <2> HIDE DEF j
  <2> DEFINE t == Replaced(q, k, P)
             o(i) == IF j < k THEN (IF i < k THEN i ELSE i + 1) ELSE (IF i < j THEN i ELSE i + 1)
  <2>3. /\ DOMAIN t = 1..(Len(q) - 1)
        /\ \A i \in 1..(Len(q) - 1) :
             t[i] = IF j < k THEN q[o(i)] ELSE IF o(i) = k THEN P ELSE q[o(i)]
    <3>1. CASE j < k
      <4>1. /\ RemoveAt(q, k) \in Seq(Node)
            /\ Len(RemoveAt(q, k)) = Len(q) - 1
            /\ \A i \in 1..(Len(q) - 1) :
                 RemoveAt(q, k)[i] = IF i < k THEN q[i] ELSE q[i + 1]
        BY <1>1, RemoveAtElements
      <4>2. DOMAIN RemoveAt(q, k) = 1..(Len(q) - 1)
        BY <4>1
      <4> QED
        BY <2>2, <3>1, <4>1, <4>2
    <3>2. CASE ~(j < k)
      <4>1. /\ RemoveAt(r, j) \in Seq(Node)
            /\ Len(RemoveAt(r, j)) = Len(r) - 1
            /\ \A i \in 1..(Len(r) - 1) :
                 RemoveAt(r, j)[i] = IF i < j THEN r[i] ELSE r[i + 1]
        BY <1>1, <2>1, RemoveAtElements
      <4>2. DOMAIN RemoveAt(r, j) = 1..(Len(q) - 1)
        BY <1>1, <4>1
      <4>3. ASSUME NEW i \in 1..(Len(q) - 1) PROVE o(i) \in 1..Len(q) /\ r[o(i)] = RemoveAt(r, j)[i]
        BY <1>1, <2>1, <3>2, <4>1
      <4>4. \A i \in 1..Len(q) : r[i] = IF i = k THEN P ELSE q[i]
        BY <1>1
      <4> QED
        BY <2>2, <3>2, <4>2, <4>3, <4>4
    <3> QED
      BY <3>1, <3>2
  <2>4. /\ \A i \in 1..(Len(q) - 1) : o(i) \in 1..Len(q) /\ o(i) # IF j < k THEN k ELSE j
        /\ \A i, l \in 1..(Len(q) - 1) : i < l => o(i) < o(l)
        /\ \A m \in 1..Len(q) : m # (IF j < k THEN k ELSE j) => \E i \in 1..(Len(q) - 1) : o(i) = m
    <3>1. ASSUME NEW m \in 1..Len(q), m # (IF j < k THEN k ELSE j)
          PROVE  \E i \in 1..(Len(q) - 1) : o(i) = m
      <4>1. CASE m < IF j < k THEN k ELSE j
        <5>1. m \in 1..(Len(q) - 1) /\ o(m) = m
          BY <1>1, <2>1, <4>1
        <5> QED
          BY <5>1
      <4>2. CASE ~(m < IF j < k THEN k ELSE j)
        <5>1. m - 1 \in 1..(Len(q) - 1) /\ o(m - 1) = m
          BY <1>1, <2>1, <3>1, <4>2
        <5> QED
          BY <5>1
      <4> QED
        BY <4>1, <4>2
    <3>2. \A i \in 1..(Len(q) - 1) : o(i) \in 1..Len(q) /\ o(i) # IF j < k THEN k ELSE j
      BY <1>1, <2>1
    <3>3. \A i, l \in 1..(Len(q) - 1) : i < l => o(i) < o(l)
      BY <1>1, <2>1
    <3> QED
      BY <3>1, <3>2, <3>3
  <2> HIDE DEF t, o
  <2>5. \A i \in 1..(Len(q) - 1) : t[i] # n /\ (t[i] = q[o(i)] \/ (t[i] = P /\ o(i) = k /\ ~(j < k)))
    BY <1>1, <1>2, <2>1, <2>3, <2>4
  <2>6. ToSet(t) = (ToSet(q) \ {n}) \cup {P}
    <3>1. ASSUME NEW x \in ToSet(t) PROVE x \in (ToSet(q) \ {n}) \cup {P}
      BY <1>1, <2>3, <2>4, <2>5, <3>1 DEF ToSet
    <3>2. ASSUME NEW x \in ToSet(q), x # n, x # P PROVE x \in ToSet(t)
      <4>1. PICK m \in 1..Len(q) : q[m] = x
        BY <1>1, <3>2 DEF ToSet
      <4>2. m # j /\ m # k
        BY <2>1, <3>2, <4>1
      <4>3. PICK i \in 1..(Len(q) - 1) : o(i) = m
        BY <2>4, <4>2
      <4>4. t[i] = x
        BY <2>3, <4>1, <4>2, <4>3
      <4> QED
        BY <2>3, <4>4 DEF ToSet
    <3>3. P \in ToSet(t)
      <4>1. CASE j < k
        <5>1. PICK i \in 1..(Len(q) - 1) : o(i) = j
          BY <2>1, <2>4, <4>1
        <5> QED
          BY <2>1, <2>3, <4>1, <5>1 DEF ToSet
      <4>2. CASE ~(j < k)
        <5>1. PICK i \in 1..(Len(q) - 1) : o(i) = k
          BY <1>1, <2>1, <2>4, <4>2
        <5> QED
          BY <2>3, <4>2, <5>1 DEF ToSet
      <4> QED
        BY <4>1, <4>2
    <3> QED
      BY <3>1, <3>2, <3>3
  <2>7. ASSUME NEW a, NEW x, Before(t, a, x), x # P
        PROVE  Before(q, a, x) \/ (a = P /\ Before(q, n, x))
    <3>1. PICK i \in 1..(Len(q) - 1), l \in 1..(Len(q) - 1) : i < l /\ t[i] = a /\ t[l] = x
      BY <2>3, <2>7 DEF Before
    <3>2. o(i) \in 1..Len(q) /\ o(l) \in 1..Len(q) /\ o(i) < o(l) /\ q[o(l)] = x
      BY <2>4, <2>5, <2>7, <3>1
    <3>3. q[o(i)] = a \/ (a = P /\ q[o(i)] = n)
      BY <2>5, <3>1
    <3> QED
      BY <1>1, <3>2, <3>3 DEF Before
  <2> QED
    BY <2>6, <2>7 DEF t
<1> QED
  BY <1>4, <1>5

\* The second loop of poll_events queues nothing but the parent.
LEMMA ReplacedMembers ==
  ASSUME NEW q \in Seq(Node), NEW k \in DOMAIN q, NEW P \in Node
  PROVE  ToSet(Replaced(q, k, P)) \subseteq ToSet(q) \cup {P}
<1> DEFINE r == [q EXCEPT ![k] = P]
<1>1. /\ r \in Seq(Node) /\ Len(r) = Len(q) /\ DOMAIN r = 1..Len(q) /\ DOMAIN q = 1..Len(q)
      /\ Len(q) \in Nat /\ \A i \in 1..Len(q) : r[i] = q[i] \/ r[i] = P
  OBVIOUS
<1> HIDE DEF r
<1>2. ASSUME NEW t \in Seq(Node), NEW j \in 1..Len(t)
      PROVE  ToSet(RemoveAt(t, j)) \subseteq ToSet(t)
  <2>1. /\ RemoveAt(t, j) \in Seq(Node)
        /\ Len(RemoveAt(t, j)) = Len(t) - 1
        /\ \A i \in 1..(Len(t) - 1) : RemoveAt(t, j)[i] = IF i < j THEN t[i] ELSE t[i + 1]
    BY <1>2, RemoveAtElements
  <2>2. DOMAIN RemoveAt(t, j) = 1..(Len(t) - 1) /\ DOMAIN t = 1..Len(t)
    BY <2>1
  <2>3. \A i \in 1..(Len(t) - 1) : i \in 1..Len(t) /\ i + 1 \in 1..Len(t)
    BY <1>2
  <2> QED
    BY <2>1, <2>2, <2>3 DEF ToSet
<1>3. ToSet(r) \subseteq ToSet(q) \cup {P}
  BY <1>1 DEF ToSet
<1>4. ASSUME P \in ToSet(q) PROVE (CHOOSE i \in DOMAIN q : q[i] = P) \in 1..Len(q)
  BY <1>1, <1>4 DEF ToSet
<1>5. Replaced(q, k, P) =
        IF P \notin ToSet(q) THEN r
        ELSE IF (CHOOSE i \in DOMAIN q : q[i] = P) < k THEN RemoveAt(q, k)
        ELSE RemoveAt(r, CHOOSE i \in DOMAIN q : q[i] = P)
  BY DEF Replaced, r
<1> QED
  BY <1>1, <1>2, <1>3, <1>4, <1>5

----------------------------------------------------------------------------
(* Moves.                                                                  *)

\* What every move of a token at n does to the work list when it queues Z.
Requeues(n, Z) ==
  /\ Queued \ {n} \subseteq Queued'
  /\ Z \subseteq Queued'
  /\ Queued' \subseteq Queued \cup Z
  /\ \A x : Follows(x, x)' => Follows(x, x) \/ x \in Queued \cap Z

\* The token at n moves to the children in S, that start anew; other children
\* of n may start anew as well.
Down(n, S) ==
  /\ n \in Tokens /\ Sole(n) /\ Queued \cap Strictly(n) = {}
  /\ S # {} /\ S \subseteq ChildSet(n)
  /\ IF Kind[n] = "parallel" THEN S = ChildSet(n) ELSE \E c \in S : S = {c}
  /\ m_state'[n] = "wait_child"
  /\ \A c \in S : m_state'[c] = "init"
  /\ \A c \in ChildSet(n) : m_state'[c] \in {m_state[c], "init"}
  /\ \A m \in Node \ ({n} \cup ChildSet(n)) : m_state'[m] = m_state[m]
  /\ Current(n)' = S
  /\ \A p \in Node \ {n} : Current(p)' = Current(p)
  /\ Requeues(n, S)
  /\ n \in Queued' => n = cur_root_node
  /\ \A p, x : Follows(x, p)' => Follows(x, p) \/ x \in S
  /\ UNCHANGED cur_root_node

\* n returns: its token moves to its parent, and what was active below it is
\* interrupted.
Up(n) ==
  LET p == Parent[n] IN
  /\ n \in Tokens /\ p # NoNode
  /\ m_state'[n] = "dead"
  /\ m_state'[p] = "awaken"
  /\ \A m \in Node \ {n, p} :
       m_state'[m] = m_state[m] \/ (m \in Strictly(n) /\ m_state'[m] = "dead")
  /\ \A t \in Tokens \cap Strictly(n) : m_state'[t] = "dead"
  /\ \A m \in Node : m_state'[m] # "dead" => Current(m)' = Current(m)
  /\ Requeues(n, {p})
  /\ p \in Queued /\ m_state[p] = "wait_child" => Queued' = {p}
  /\ \A a, x : Follows(x, a)' =>
       \/ Follows(x, a)
       \/ x = p
       \/ a = p /\ Follows(x, n) /\ x \notin Below(n)
  /\ UNCHANGED cur_root_node

\* The token stays at n, that blocks.
Blocks(n) ==
  /\ n \in Tokens /\ Sole(n) /\ Queued \cap Strictly(n) = {}
  /\ m_state'[n] = "blocking"
  /\ \A c \in ChildSet(n) : m_state'[c] \in {m_state[c], "init"}
  /\ \A m \in Node \ ({n} \cup ChildSet(n)) : m_state'[m] = m_state[m]
  /\ \A p \in Node \ {n} : Current(p)' = Current(p)
  /\ Queued' = Queued
  /\ \A x : Follows(x, x)' => Follows(x, x)
  /\ \A p, x : Follows(x, p)' => Follows(x, p) \/ x = n
  /\ UNCHANGED cur_root_node

\* No token moves: nodes are dropped or queued again, or the root is queued a
\* second time.
Quiet ==
  LET r == cur_root_node IN
  /\ UNCHANGED <<cur_root_node, m_state>>
  /\ \A p \in Node : Current(p)' = Current(p)
  /\ Tokens \subseteq Queued'
  /\ Queued' \subseteq Queued \cup {r}
  /\ r \in Queued' \ Queued => m_state[r] = "wait_child"
  /\ \A p, x : Follows(x, p)' => Follows(x, p) \/ x \in Tokens \/ x = r
  /\ \A x : Follows(x, x)' => Follows(x, x) \/ x = r

\* A tree is loaded.
Loads(r) ==
  /\ r \in Roots
  /\ cur_root_node' = r
  /\ m_state' = [n \in Node |-> "init"]
  /\ m_fronts' = <<r>> /\ m_pre_fronts' = <<>>
  /\ pc' = "idle"

----------------------------------------------------------------------------
(* Every move keeps Steady.                                                *)

\* The part of Steady that does not look at the root's second visit.
Settled ==
  /\ OnPaths
  /\ Remembered
  /\ QueuedOnce
  /\ StaleFirst
  /\ StaleWithin

\* Everything in the queue is a node, and the queue gives the order.
Ordered ==
  /\ Queued \subseteq Node
  /\ Tokens \subseteq Queued
  /\ \A p, x : Follows(x, p) => p \in Queued /\ x \in Queued

\* That follows from the types,
LEMMA Sorted == Typed => Ordered
  BY WorkType DEF Tokens, Ordered

\* before a step and after it.
LEMMA SortedNext ==
  ASSUME Typed'
  PROVE  /\ Queued' \subseteq Node
         /\ \A p, x : Follows(x, p)' => p \in Queued' /\ x \in Queued'
<1>1. Typed' => Ordered'
  BY Sorted, PTL
<1> QED
  BY <1>1 DEF Ordered

\* What stays of a path: a token keeps its path if nothing changes at the nodes
\* above it.
LEMMA PathStays ==
  ASSUME Typed, NEW t \in Node, OnPath(t), UNCHANGED cur_root_node,
         \A p \in Node : t \in Strictly(p) =>
           (Waiting(p) => Waiting(p)') /\ \A c \in Current(p) : t \in Below(c) => c \in Current(p)'
  PROVE  OnPath(t)'
<1>1. cur_root_node' \in Lineage[t]
  BY DEF OnPath
<1>2. ASSUME NEW a \in Lineage[t], Parent[a] # NoNode PROVE Edge(a)'
  <2>1. a \in Node /\ Parent[a] \in Node /\ a \in ChildSet(Parent[a]) /\ t \in Below(a)
    BY <1>2, InLineage, InBelow, ParentHasChild
  <2>2. t \in Strictly(Parent[a])
    BY <2>1, ChildBelow
  <2>3. Edge(a)
    BY <1>2 DEF OnPath
  <2> QED
    BY <2>1, <2>2, <2>3 DEF Edge
<1> QED
  BY <1>1, <1>2 DEF OnPath

\* The path to a child of a node on a path.
LEMMA PathToChild ==
  ASSUME NEW n \in Node, NEW c \in ChildSet(n), OnPath(n), Waiting(n), c \in Current(n)
  PROVE  OnPath(c)
<1>1. Lineage[c] = {c} \cup Lineage[n] /\ Parent[c] = n
  BY ChildLineage, ChildHasParent
<1> QED
  BY <1>1 DEF OnPath, Edge

\* The path to the parent of a node on a path.
LEMMA PathToParent ==
  ASSUME NEW n \in Node, Parent[n] # NoNode, OnPath(n), n # cur_root_node
  PROVE  /\ OnPath(Parent[n])
         /\ Waiting(Parent[n])
         /\ n \in Current(Parent[n])
<1>1. Lineage[n] = {n} \cup Lineage[Parent[n]]
  BY TreeAssumption DEF Created
<1> QED
  BY <1>1 DEF OnPath, Edge

\* A token that moves down is one token per child it moves to.
LEMMA DownTokens ==
  ASSUME Typed, Typed', NEW n \in Node, NEW S, Down(n, S)
  PROVE  Tokens' = (Tokens \ {n}) \cup S
<1>1. Queued \subseteq Node /\ Queued' \subseteq Queued \cup S /\ S \subseteq Queued'
      /\ Queued \ {n} \subseteq Queued'
  BY Sorted DEF Down, Requeues, Ordered
<1>2. \A x \in Queued \ {n} : m_state'[x] = m_state[x] /\ x \in Queued'
  <2>1. \A x \in Queued : x \notin ChildSet(n)
    BY ChildBelow DEF Down
  <2> QED
    BY <1>1, <2>1 DEF Down
<1>3. n \notin S
  BY ChildBelow DEF Down, Strictly
<1>4. ASSUME NEW t \in Tokens' PROVE t \in (Tokens \ {n}) \cup S
  BY <1>1, <1>2 DEF Tokens, Down
<1>5. \A t \in (Tokens \ {n}) \cup S : t \in Tokens'
  BY <1>1, <1>2, <1>3 DEF Tokens, Down
<1> QED
  BY <1>4, <1>5

\* Down keeps the paths,
LEMMA DownPaths ==
  ASSUME Typed, Typed', NEW n \in Node, NEW S, Down(n, S), OnPaths
  PROVE  OnPaths'
<1>1. OnPath(n) /\ \A t \in Tokens : t \in Node /\ OnPath(t)
  BY Sorted DEF Down, OnPaths, Ordered
<1>2. \A t \in Tokens \ {n} : t \notin Strictly(n)
  BY <1>1, NoneBelow DEF Down
<1>3. ASSUME NEW t \in Node, OnPath(t), t \notin Strictly(n) PROVE OnPath(t)'
  <2>1. ASSUME NEW p \in Node, t \in Strictly(p) PROVE p # n /\ p \notin ChildSet(n)
    <3>1. p # n
      BY <1>3, <2>1
    <3>2. ASSUME p \in ChildSet(n) PROVE FALSE
      <4>1. t \in Below(p)
        BY <2>1 DEF Strictly
      <4> QED
        BY <1>3, <3>2, <4>1, ChildBelow
    <3> QED
      BY <3>1, <3>2
  <2>2. \A p \in Node : t \in Strictly(p) => m_state'[p] = m_state[p] /\ Current(p)' = Current(p)
    BY <2>1 DEF Down
  <2> QED
    BY <1>3, <2>2, PathStays DEF Waiting, Down
<1>4. OnPath(n)'
  <2>1. n \notin Strictly(n)
    BY DEF Strictly
  <2> QED
    BY <1>1, <1>3, <2>1
<1>5. ASSUME NEW c \in S PROVE OnPath(c)'
  <2>1. c \in ChildSet(n) /\ Lineage[c] = {c} \cup Lineage[n] /\ Parent[c] = n
    BY ChildLineage, ChildHasParent DEF Down
  <2>2. Edge(c)'
    BY <2>1 DEF Edge, Waiting, Down
  <2> QED
    BY <1>4, <2>1, <2>2 DEF OnPath
<1>6. Tokens' = (Tokens \ {n}) \cup S
  BY DownTokens
<1> QED
  BY <1>1, <1>2, <1>3, <1>5, <1>6 DEF OnPaths

\* and the rest.
LEMMA DownSettled ==
  ASSUME Typed, Typed', NEW n \in Node, NEW S, Down(n, S), Settled
  PROVE  Settled'
<1>1. /\ Queued \subseteq Node
      /\ Queued' \subseteq Queued \cup S /\ S \subseteq Queued' /\ Queued \ {n} \subseteq Queued'
      /\ \A p, x : Follows(x, p) => p \in Queued /\ x \in Queued
      /\ n \in Queued
  BY Sorted DEF Down, Requeues, Ordered, Tokens
<1>2. \A c \in ChildSet(n) : c \in Node /\ c \in Strictly(n) /\ Below(c) \subseteq Strictly(n)
  BY ChildBelow, ChildHasParent
<1>3. /\ Queued \cap ChildSet(n) = {} /\ S \subseteq ChildSet(n)
      /\ Queued \cap S = {}
      /\ n \notin ChildSet(n)
  BY <1>2 DEF Down, Strictly
<1>4. \A x : Follows(x, x)' => Follows(x, x)
  BY <1>3 DEF Down, Requeues
<1>5. OnPath(n) /\ \A p \in Node : n \in Strictly(p) => ~Sole(p) /\ m_state[p] # "blocking"
  BY NoneBelow DEF Settled, OnPaths, Down
\* A child of n is below what n is below.
<1>6. ASSUME NEW p \in Node, NEW x \in S, x \in Strictly(p)
      PROVE  p = n \/ n \in Strictly(p)
  <2>1. Parent[x] = n
    BY <1>3, ChildHasParent
  <2>2. n \in Below(p)
    BY <1>6, <2>1, ParentBelow
  <2> QED
    BY <2>2 DEF Strictly
<1>7. Remembered'
  <2> SUFFICES ASSUME NEW m \in Node
               PROVE  /\ m_state'[m] \notin {"entering", "revisiting"}
                      /\ m_state'[m] \in {"awaken", "blocking"} => m \in Queued'
                      /\ m_state'[m] = "awaken" => Current(m)' # {}
    BY DEF Remembered
  <2>1. CASE m = n
    BY <2>1 DEF Down
  <2>2. CASE m \in ChildSet(n)
    <3>1. m_state'[m] = "init" \/ m_state'[m] = m_state[m]
      BY <2>2 DEF Down
    <3>2. m_state[m] \notin {"entering", "revisiting", "awaken", "blocking"}
      BY <1>3, <2>2 DEF Settled, Remembered
    <3> QED
      BY <3>1, <3>2
  <2>3. CASE m \notin ChildSet(n) /\ m # n
    <3>1. m_state'[m] = m_state[m] /\ Current(m)' = Current(m)
      BY <2>3 DEF Down
    <3> QED
      BY <1>1, <2>3, <3>1 DEF Settled, Remembered
  <2> QED
    BY <2>1, <2>2, <2>3
<1>8. QueuedOnce'
  <2> SUFFICES ASSUME NEW m \in Node, m # cur_root_node
               PROVE  /\ m_state'[m] = "wait_child" => m \notin Queued'
                      /\ Follows(m, m)' => \/ m_state'[m] = "dead"
                                           \/ m_state'[m] = "awaken" /\ Kind[m] = "parallel"
    BY DEF QueuedOnce, Down
  <2>1. CASE m = n
    <3>1. n \notin Queued'
      BY <2>1 DEF Down
    <3> QED
      BY <2>1, <3>1, SortedNext
  <2>2. CASE m \in ChildSet(n)
    <3>1. ~Follows(m, m)'
      BY <1>1, <1>3, <1>4, <2>2
    <3>2. m \in Queued' => m \in S
      BY <1>1, <1>3, <2>2
    <3>3. m \in S => m_state'[m] = "init"
      BY DEF Down
    <3> QED
      BY <3>1, <3>2, <3>3
  <2>3. CASE m \notin ChildSet(n) /\ m # n
    <3>1. m_state'[m] = m_state[m] /\ (m \in Queued' => m \in Queued)
      BY <1>1, <1>3, <2>3 DEF Down
    <3> QED
      BY <1>4, <3>1 DEF Settled, QueuedOnce
  <2> QED
    BY <2>1, <2>2, <2>3
<1>9. StaleFirst'
  <2> SUFFICES ASSUME NEW p \in Queued', Sole(p)', NEW x \in Strictly(p), Follows(x, p)'
               PROVE  FALSE
    BY DEF StaleFirst, Strictly, Below
  <2>1. p \in Node /\ x \in Node
    BY SortedNext, InBelow
  <2>2. p # n
    BY DEF Down, Sole
  <2>3. CASE p \in S
    <3>1. p \in ChildSet(n) /\ x \in Strictly(n)
      BY <1>2, <1>3, <2>3 DEF Strictly
    <3>2. x \notin Queued
      BY <3>1 DEF Down
    <3>3. x \in S
      BY <1>1, <3>2 DEF Down
    <3>4. x \in Below(p)
      BY DEF Strictly
    <3>5. x = p
      BY <1>3, <3>1, <3>3, <3>4, SiblingsApart
    <3> QED
      BY <3>5 DEF Strictly
  <2>4. CASE p \notin S
    <3>1. p \in Queued /\ p \notin ChildSet(n) /\ Sole(p)
      <4>1. p \in Queued /\ p \notin ChildSet(n)
        BY <1>1, <1>3, <2>4
      <4>2. m_state'[p] = m_state[p]
        BY <2>1, <2>2, <4>1 DEF Down
      <4> QED
        BY <4>1, <4>2 DEF Sole
    <3>2. x \in S
      BY <3>1 DEF Settled, StaleFirst, Down
    <3>3. n \in Strictly(p)
      BY <1>6, <2>1, <2>2, <3>2
    <3> QED
      BY <1>5, <2>1, <3>1, <3>3
  <2> QED
    BY <2>3, <2>4
<1>10. StaleWithin'
  <2> SUFFICES ASSUME NEW p \in Node, NEW x \in Queued', x \in Strictly(p)
               PROVE  /\ m_state'[p] # "blocking"
                      /\ m_state'[p] = "wait_child" /\ Kind[p] # "parallel" =>
                           \E c \in Current(p)' : x \in Below(c)
    BY DEF StaleWithin, Strictly, Below
  <2>1. \A c \in Node : c \in Below(c)
    BY InBelow, InLineage
  <2>2. CASE p = n
    <3>1. x \in S
      BY <1>1, <2>2 DEF Down
    <3> QED
      BY <1>2, <1>3, <2>1, <2>2, <3>1 DEF Down
  <2>3. CASE p # n /\ x \in Queued
    <3>1. p \notin ChildSet(n)
      <4>1. p \in ChildSet(n) => x \in Strictly(n)
        BY <1>2 DEF Strictly
      <4> QED
        BY <2>3, <4>1 DEF Down
    <3>2. m_state'[p] = m_state[p] /\ Current(p)' = Current(p)
      BY <2>3, <3>1 DEF Down
    <3> QED
      BY <2>3, <3>2 DEF Settled, StaleWithin
  <2>4. CASE p # n /\ x \notin Queued
    <3>1. x \in S /\ n \in Strictly(p)
      BY <1>1, <1>6, <2>4
    <3>2. p \notin ChildSet(n)
      <4>1. ASSUME p \in ChildSet(n) PROVE FALSE
        <5>1. n \in Strictly(n)
          BY <1>2, <3>1, <4>1 DEF Strictly
        <5> QED
          BY <5>1 DEF Strictly
      <4> QED
        BY <4>1
    <3>3. m_state'[p] = m_state[p] /\ Current(p)' = Current(p)
      BY <2>4, <3>2 DEF Down
    <3>4. /\ m_state[p] # "blocking"
          /\ m_state[p] = "wait_child" /\ Kind[p] # "parallel" => \E c \in Current(p) : n \in Below(c)
      BY <1>1, <3>1 DEF Settled, StaleWithin
    <3>5. x \in Below(n)
      BY <1>2, <1>3, <3>1 DEF Strictly
    <3>6. \A c : n \in Below(c) => x \in Below(c)
      BY <3>5, BelowTransitive
    <3> QED
      BY <3>3, <3>4, <3>6
  <2> QED
    BY <2>2, <2>3, <2>4
<1>11. OnPaths'
  BY DownPaths DEF Settled
<1> QED
  BY <1>7, <1>8, <1>9, <1>10, <1>11 DEF Settled

\* A token that moves up takes the tokens below it along.
LEMMA UpTokens ==
  ASSUME Typed, Typed', NEW n \in Node, Up(n)
  PROVE  Tokens' = (Tokens \ Below(n)) \cup {Parent[n]}
<1>1. /\ Queued \subseteq Node
      /\ Queued' \subseteq Queued \cup {Parent[n]} /\ Parent[n] \in Queued'
      /\ Queued \ {n} \subseteq Queued'
  BY Sorted DEF Up, Requeues, Ordered
<1>2. Parent[n] \in Node /\ n \in ChildSet(Parent[n])
  BY ParentHasChild DEF Up
<1>3. n \in Below(n) /\ Parent[n] \notin Below(n)
  BY <1>2, InBelow, InLineage, ChildHasParent, TreeAssumption DEF Created, Up
<1>4. ASSUME NEW t \in Tokens' PROVE t \in (Tokens \ Below(n)) \cup {Parent[n]}
  <2> SUFFICES ASSUME t # Parent[n] PROVE t \in Tokens \ Below(n)
    OBVIOUS
  <2>1. t \in Queued /\ m_state'[t] \in {"init", "awaken", "blocking"}
    BY <1>1, <1>4 DEF Tokens
  <2>2. m_state'[t] = m_state[t] /\ t # n
    BY <1>1, <2>1 DEF Up
  <2>3. t \in Tokens
    BY <2>1, <2>2 DEF Tokens
  <2>4. t \notin Strictly(n)
    BY <2>1, <2>3 DEF Up
  <2> QED
    BY <2>2, <2>3, <2>4 DEF Strictly
<1>5. ASSUME NEW t \in Tokens \ Below(n), t # Parent[n] PROVE t \in Tokens'
  <2>1. t \in Queued /\ t # n /\ t \notin Strictly(n) /\ t \in Node
    BY <1>1, <1>3, <1>5 DEF Tokens, Strictly
  <2>2. m_state'[t] = m_state[t]
    BY <1>5, <2>1 DEF Up
  <2> QED
    BY <1>1, <1>5, <2>1, <2>2 DEF Tokens
<1>6. Parent[n] \in Tokens'
  BY <1>1 DEF Tokens, Up
<1> QED
  BY <1>4, <1>5, <1>6

\* A node that returns is not the root of the loaded tree, and its parent waits
\* for it.
LEMMA UpParent ==
  ASSUME NEW n \in Node, Typed, Up(n), OnPaths
  PROVE  /\ OnPath(n) /\ n # cur_root_node
         /\ Parent[n] \in Node /\ n \in ChildSet(Parent[n])
         /\ n \in Strictly(Parent[n]) /\ Parent[n] \notin Below(n) /\ n \in Below(n)
         /\ OnPath(Parent[n]) /\ Waiting(Parent[n]) /\ n \in Current(Parent[n])
<1>1. OnPath(n)
  BY DEF Up, OnPaths
<1>2. cur_root_node \in Node /\ cur_root_node \in Lineage[n]
  BY <1>1, InLineage DEF OnPath
<1>3. n # cur_root_node
  <2>1. cur_root_node \in Roots
    BY <1>2, TreeAssumption DEF Typed, TypeOK, Loadable
  <2> QED
    BY <2>1, TreeAssumption DEF Rooted, Up
<1>4. Parent[n] \in Node /\ n \in ChildSet(Parent[n])
  BY ParentHasChild DEF Up
<1>5. n \in Strictly(Parent[n])
  BY <1>4, ChildBelow
<1>6. Parent[n] \notin Below(n) /\ n \in Below(n)
  BY <1>4, InBelow, InLineage, TreeAssumption DEF Created, Up
<1> QED
  BY <1>1, <1>3, <1>4, <1>5, <1>6, PathToParent DEF Up

\* Up keeps the paths,
LEMMA UpPaths ==
  ASSUME Typed, Typed', NEW n \in Node, Up(n), OnPaths
  PROVE  OnPaths'
<1> DEFINE p == Parent[n]
<1>1. /\ OnPath(n) /\ OnPath(p) /\ Waiting(p) /\ n \in Current(p)
      /\ p \in Node /\ n \in ChildSet(p) /\ p \notin Below(n) /\ n \in Below(n)
  BY UpParent
<1> HIDE DEF p
<1>2. ASSUME NEW t \in Node, OnPath(t), t \notin Below(n) PROVE OnPath(t)'
  <2>1. ASSUME NEW a \in Node, t \in Strictly(a), Waiting(a)
        PROVE  Waiting(a)' /\ \A c \in Current(a) : t \in Below(c) => c \in Current(a)'
    <3>1. CASE a = p
      \* p is awake: then it is a parallel, or t is in the branch of n.
      <4>1. Kind[p] # "parallel" => FALSE
        <5> SUFFICES ASSUME Kind[p] # "parallel" PROVE FALSE
          OBVIOUS
        <5>1. PICK c \in Current(p) : t \in Below(c)
          BY <1>1, <1>2, <2>1, <3>1, PathWaits
        <5>2. c = n
          BY <1>1, <5>1, CurrentChildren
        <5> QED
          BY <1>2, <5>1, <5>2
      <4>2. m_state'[p] = "awaken"
        BY DEF Up, p
      <4>3. Current(p)' = Current(p)
        BY <1>1, <4>2 DEF Up
      <4> QED
        BY <3>1, <4>1, <4>2, <4>3 DEF Waiting
    <3>2. CASE a # p
      <4>1. a \notin Below(n)
        <5>1. t \in Below(a)
          BY <2>1 DEF Strictly
        <5> QED
          BY <1>2, <5>1, BelowTransitive
      <4>2. a # n /\ a \notin Strictly(n)
        BY <1>1, <4>1 DEF Strictly
      <4>3. m_state'[a] = m_state[a]
        BY <2>1, <3>2, <4>2 DEF Up, p
      <4>4. m_state'[a] # "dead"
        BY <2>1, <4>3 DEF Waiting
      <4>5. Current(a)' = Current(a)
        BY <4>4 DEF Up
      <4> QED
        BY <2>1, <4>3, <4>5 DEF Waiting
    <3> QED
      BY <3>1, <3>2
  <2>2. \A a \in Node : t \in Strictly(a) => Waiting(a)
    BY <1>2, PathWaits
  <2>3. UNCHANGED cur_root_node
    BY DEF Up
  <2> QED
    BY <1>2, <2>1, <2>2, <2>3, PathStays
<1>3. \A t \in Tokens : t \in Node /\ OnPath(t)
  BY Sorted DEF Ordered, OnPaths
<1>4. Tokens' = (Tokens \ Below(n)) \cup {p}
  BY UpTokens DEF p
<1> QED
  BY <1>1, <1>2, <1>3, <1>4 DEF OnPaths

\* and the rest.
LEMMA UpSettled ==
  ASSUME Typed, Typed', NEW n \in Node, Up(n), Settled
  PROVE  Settled'
<1> DEFINE p == Parent[n]
<1>1. /\ Queued \subseteq Node
      /\ Queued' \subseteq Queued \cup {p} /\ p \in Queued' /\ Queued \ {n} \subseteq Queued'
      /\ \A a, x : Follows(x, a) => a \in Queued /\ x \in Queued
      /\ n \in Queued
  BY Sorted DEF Up, Requeues, Ordered, Tokens
<1>2. \A x : Follows(x, x)' => Follows(x, x) \/ (x = p /\ p \in Queued)
  BY DEF Up, Requeues
<1>3. /\ OnPath(n) /\ n # cur_root_node /\ Waiting(p) /\ n \in Current(p)
      /\ p \in Node /\ n \in ChildSet(p) /\ n \in Strictly(p) /\ p \notin Below(n)
      /\ n \in Below(n) /\ p # n
  BY UpParent DEF Settled
<1>4. m_state'[n] = "dead" /\ m_state'[p] = "awaken"
  BY DEF Up
<1>5. \A m \in Node : \/ m = p
                      \/ m_state'[m] = m_state[m]
                      \/ m_state'[m] = "dead" /\ m \in Below(n)
  BY <1>3 DEF Up, Strictly
<1>6. \A m \in Node : m_state'[m] # "dead" => Current(m)' = Current(m)
  BY DEF Up
<1>7. Remembered'
  <2> SUFFICES ASSUME NEW m \in Node
               PROVE  /\ m_state'[m] \notin {"entering", "revisiting"}
                      /\ m_state'[m] \in {"awaken", "blocking"} => m \in Queued'
                      /\ m_state'[m] = "awaken" => Current(m)' # {}
    BY DEF Remembered
  <2>1. CASE m = p
    BY <1>1, <1>3, <1>4, <1>6, <2>1
  <2>2. CASE m_state'[m] = "dead"
    BY <2>2
  <2>3. CASE m # p /\ m_state'[m] # "dead"
    <3>1. m_state'[m] = m_state[m] /\ Current(m)' = Current(m) /\ m # n
      BY <1>4, <1>5, <1>6, <2>3
    <3> QED
      BY <1>1, <3>1 DEF Settled, Remembered
  <2> QED
    BY <2>1, <2>2, <2>3
<1>8. p # cur_root_node /\ p \in Queued => m_state[p] = "awaken" /\ Kind[p] = "parallel"
  BY <1>3 DEF Settled, QueuedOnce, Waiting
<1>9. QueuedOnce'
  <2> SUFFICES ASSUME NEW m \in Node, m # cur_root_node
               PROVE  /\ m_state'[m] = "wait_child" => m \notin Queued'
                      /\ Follows(m, m)' => \/ m_state'[m] = "dead"
                                           \/ m_state'[m] = "awaken" /\ Kind[m] = "parallel"
    BY DEF QueuedOnce, Up
  <2>1. CASE m = p
    <3>1. Follows(m, m)' => p \in Queued
      BY <1>2, <1>1, <2>1
    <3> QED
      BY <1>4, <1>8, <2>1, <3>1
  <2>2. CASE m_state'[m] = "dead"
    BY <2>2
  <2>3. CASE m # p /\ m_state'[m] # "dead"
    <3>1. m_state'[m] = m_state[m] /\ (m \in Queued' => m \in Queued) /\ (Follows(m, m)' => Follows(m, m))
      BY <1>2, <1>1, <1>5, <2>3
    <3> QED
      BY <3>1 DEF Settled, QueuedOnce
  <2> QED
    BY <2>1, <2>2, <2>3
\* What p is below, n is below.
<1>10. ASSUME NEW a \in Node, p \in Strictly(a) PROVE n \in Strictly(a)
  <2>1. p \in Below(a) /\ n \in Below(p)
    BY <1>3, <1>10 DEF Strictly
  <2>2. n \in Below(a)
    BY <2>1, BelowTransitive
  <2>3. n # a
    BY <1>3, <2>1
  <2> QED
    BY <2>2, <2>3 DEF Strictly
<1>11. StaleFirst'
  <2> SUFFICES ASSUME NEW a \in Queued', Sole(a)', NEW x \in Strictly(a), Follows(x, a)'
               PROVE  FALSE
    BY DEF StaleFirst, Strictly, Below
  <2>1. a \in Node /\ x \in Node /\ x \in Queued' /\ x # a
    BY SortedNext, InBelow
  <2>2. CASE a = p
    <3>1. Kind[p] # "parallel"
      BY <1>4, <2>2 DEF Sole
    <3>2. p \notin Queued
      <4>1. ASSUME p \in Queued PROVE FALSE
        <5>1. m_state[p] = "wait_child"
          BY <1>3, <3>1 DEF Waiting
        <5>2. Queued' = {p}
          BY <4>1, <5>1 DEF Up
        <5> QED
          BY <2>1, <2>2, <5>2
      <4> QED
        BY <4>1
    <3>3. x \in Below(n)
      \* What is queued below p is in the branch p is at.
      <4>1. x \in Queued
        BY <1>1, <2>1, <2>2
      <4>2. m_state[p] = "wait_child"
        BY <1>3, <3>1 DEF Waiting
      <4>3. PICK c \in Current(p) : x \in Below(c)
        BY <1>3, <2>2, <3>1, <4>1, <4>2 DEF Settled, StaleWithin
      <4> QED
        BY <1>3, <3>1, <4>3, CurrentChildren
    <3>4. ~Follows(x, p)
      BY <1>1, <3>2
    <3> QED
      BY <2>1, <2>2, <3>3, <3>4 DEF Up
  <2>3. CASE a # p
    <3>1. m_state'[a] = m_state[a] /\ Sole(a) /\ a \in Queued
      BY <1>1, <1>5, <2>1, <2>3 DEF Sole
    <3>2. x = p
      <4>1. Follows(x, a) \/ x = p
        BY <2>3 DEF Up
      <4> QED
        BY <3>1, <4>1 DEF Settled, StaleFirst
    <3>3. n \in Strictly(a)
      BY <1>10, <2>1, <3>2
    <3> QED
      BY <1>3, <2>1, <3>1, <3>3, NoneBelow
  <2> QED
    BY <2>2, <2>3
<1>12. StaleWithin'
  <2> SUFFICES ASSUME NEW a \in Node, NEW x \in Queued', x \in Strictly(a)
               PROVE  /\ m_state'[a] # "blocking"
                      /\ m_state'[a] = "wait_child" /\ Kind[a] # "parallel" =>
                           \E c \in Current(a)' : x \in Below(c)
    BY DEF StaleWithin, Strictly, Below
  <2>1. CASE a = p \/ m_state'[a] = "dead"
    BY <1>4, <2>1
  <2>2. CASE a # p /\ m_state'[a] # "dead"
    <3>1. m_state'[a] = m_state[a] /\ Current(a)' = Current(a)
      BY <1>5, <1>6, <2>2
    <3>2. CASE x \in Queued
      BY <3>1, <3>2 DEF Settled, StaleWithin
    <3>3. CASE x \notin Queued
      <4>1. x = p
        BY <1>1, <3>3
      <4>2. n \in Strictly(a)
        BY <1>10, <4>1
      <4>3. m_state[a] # "blocking"
        BY <1>1, <4>2 DEF Settled, StaleWithin
      <4>4. ASSUME m_state[a] = "wait_child", Kind[a] # "parallel"
            PROVE  \E c \in Current(a) : p \in Below(c)
        <5>1. PICK c \in Current(a) : n \in Below(c)
          BY <1>3, <4>2, PathWaits
        <5>2. c # n
          <6>1. c \in ChildSet(a) /\ Parent[c] = a
            BY <5>1, CurrentChildren, ChildHasParent
          <6> QED
            BY <2>2, <6>1
        <5>3. n \in Strictly(c) /\ c \in Node
          BY <5>1, <5>2, CurrentChildren, ChildHasParent DEF Strictly
        <5> QED
          BY <5>1, <5>3, ParentBelow
      <4> QED
        BY <3>1, <4>1, <4>3, <4>4
    <3> QED
      BY <3>2, <3>3
  <2> QED
    BY <2>1, <2>2
<1>13. OnPaths'
  BY UpPaths DEF Settled
<1> QED
  BY <1>7, <1>9, <1>11, <1>12, <1>13 DEF Settled

\* A node that blocks keeps its token.
LEMMA BlocksTokens ==
  ASSUME Typed, NEW n \in Node, Blocks(n)
  PROVE  Tokens' = Tokens
<1>1. Queued \subseteq Node /\ Queued' = Queued /\ n \in Queued
  BY Sorted DEF Blocks, Ordered, Tokens
<1>2. \A x \in Queued : x \notin ChildSet(n)
  BY ChildBelow DEF Blocks
<1>3. \A x \in Queued \ {n} : m_state'[x] = m_state[x]
  BY <1>1, <1>2 DEF Blocks
<1> QED
  BY <1>1, <1>3 DEF Tokens, Blocks

\* Blocking keeps the paths and the rest.
LEMMA BlocksSettled ==
  ASSUME Typed, Typed', NEW n \in Node, Blocks(n), Settled
  PROVE  Settled'
<1>1. /\ Queued \subseteq Node /\ Queued' = Queued /\ n \in Queued
      /\ \A p, x : Follows(x, p) => p \in Queued /\ x \in Queued
      /\ \A x : Follows(x, x)' => Follows(x, x)
  BY Sorted DEF Blocks, Ordered, Tokens
<1>2. \A c \in ChildSet(n) : c \in Node /\ c \in Strictly(n) /\ Below(c) \subseteq Strictly(n)
  BY ChildBelow, ChildHasParent
<1>3. Queued \cap ChildSet(n) = {} /\ n \notin ChildSet(n)
  BY <1>2 DEF Blocks, Strictly
<1>4. \A m \in Node \ {n} : m \notin ChildSet(n) => m_state'[m] = m_state[m] /\ Current(m)' = Current(m)
  BY DEF Blocks
<1>5. \A t \in Tokens : t \in Node /\ OnPath(t) /\ t \notin Strictly(n)
  BY <1>1 DEF Tokens, Settled, OnPaths, Blocks
<1>6. OnPaths'
  <2>1. ASSUME NEW t \in Tokens, NEW p \in Node, t \in Strictly(p)
        PROVE  p # n /\ p \notin ChildSet(n)
    <3>1. p \in ChildSet(n) => t \in Strictly(n)
      BY <1>2, <2>1 DEF Strictly
    <3> QED
      BY <1>5, <2>1, <3>1
  <2>2. ASSUME NEW t \in Tokens PROVE OnPath(t)'
    <3>1. \A p \in Node : t \in Strictly(p) => m_state'[p] = m_state[p] /\ Current(p)' = Current(p)
      BY <1>4, <2>1
    <3> QED
      BY <1>5, <3>1, PathStays DEF Waiting, Blocks
  <2> QED
    BY <2>2, BlocksTokens DEF OnPaths
<1>7. Remembered'
  <2> SUFFICES ASSUME NEW m \in Node
               PROVE  /\ m_state'[m] \notin {"entering", "revisiting"}
                      /\ m_state'[m] \in {"awaken", "blocking"} => m \in Queued'
                      /\ m_state'[m] = "awaken" => Current(m)' # {}
    BY DEF Remembered
  <2>1. CASE m = n
    BY <1>1, <2>1 DEF Blocks
  <2>2. CASE m \in ChildSet(n)
    <3>1. m_state'[m] = "init" \/ m_state'[m] = m_state[m]
      BY <2>2 DEF Blocks
    <3>2. m_state[m] \notin {"entering", "revisiting", "awaken", "blocking"}
      BY <1>3, <2>2 DEF Settled, Remembered
    <3> QED
      BY <3>1, <3>2
  <2>3. CASE m \notin ChildSet(n) /\ m # n
    BY <1>1, <1>4, <2>3 DEF Settled, Remembered
  <2> QED
    BY <2>1, <2>2, <2>3
<1>8. QueuedOnce'
  <2> SUFFICES ASSUME NEW m \in Node, m # cur_root_node
               PROVE  /\ m_state'[m] = "wait_child" => m \notin Queued'
                      /\ Follows(m, m)' => \/ m_state'[m] = "dead"
                                           \/ m_state'[m] = "awaken" /\ Kind[m] = "parallel"
    BY DEF QueuedOnce, Blocks
  <2>1. CASE m = n
    <3>1. ~Follows(n, n)
      BY <2>1 DEF Settled, QueuedOnce, Blocks, Sole
    <3> QED
      BY <1>1, <2>1, <3>1 DEF Blocks
  <2>2. CASE m \in ChildSet(n)
    BY <1>1, <1>3, <2>2
  <2>3. CASE m \notin ChildSet(n) /\ m # n
    BY <1>1, <1>4, <2>3 DEF Settled, QueuedOnce
  <2> QED
    BY <2>1, <2>2, <2>3
<1>9. StaleFirst'
  <2> SUFFICES ASSUME NEW p \in Queued, Sole(p)', NEW x \in Strictly(p), Follows(x, p)'
               PROVE  FALSE
    BY <1>1 DEF StaleFirst, Strictly, Below
  <2>1. p # n /\ p \notin ChildSet(n) /\ p \in Node
    BY <1>1, <1>3 DEF Blocks, Sole
  <2>2. Sole(p)
    BY <1>4, <2>1 DEF Sole
  <2>3. x = n
    BY <2>2 DEF Blocks, Settled, StaleFirst
  <2>4. OnPath(n)
    BY DEF Blocks, Settled, OnPaths
  <2> QED
    BY <2>1, <2>2, <2>3, <2>4, NoneBelow
<1>10. StaleWithin'
  <2> SUFFICES ASSUME NEW p \in Node, NEW x \in Queued, x \in Strictly(p)
               PROVE  /\ m_state'[p] # "blocking"
                      /\ m_state'[p] = "wait_child" /\ Kind[p] # "parallel" =>
                           \E c \in Current(p)' : x \in Below(c)
    BY <1>1 DEF StaleWithin, Strictly, Below
  <2>1. p # n /\ p \notin ChildSet(n)
    <3>1. p \in ChildSet(n) => x \in Strictly(n)
      BY <1>2 DEF Strictly
    <3> QED
      BY <3>1 DEF Blocks
  <2> QED
    BY <1>4, <2>1 DEF Settled, StaleWithin
<1> QED
  BY <1>6, <1>7, <1>8, <1>9, <1>10 DEF Settled

\* A step that moves no token keeps them all.
LEMMA QuietTokens ==
  ASSUME Typed, Quiet
  PROVE  Tokens' = Tokens
  BY DEF Tokens, Quiet

\* It keeps the paths and the rest: the root is below no node.
LEMMA QuietSettled ==
  ASSUME Typed, Typed', Quiet, Settled
  PROVE  Settled'
<1> DEFINE r == cur_root_node
<1>1. /\ Queued \subseteq Node /\ Queued' \subseteq Queued \cup {r} /\ Tokens \subseteq Queued'
      /\ r \in Queued' \ Queued => m_state[r] = "wait_child"
      /\ r' = r /\ m_state' = m_state
      /\ \A p \in Node : Current(p)' = Current(p)
  BY Sorted DEF Quiet, Ordered
<1>2. ASSUME NEW p \in Node, r \in Strictly(p) PROVE FALSE
  <2>1. r \in Node /\ Parent[r] = NoNode
    BY <1>2, InBelow, TreeAssumption DEF Typed, TypeOK, Rooted, Loadable
  <2> QED
    BY <1>2, <2>1, ParentBelow
<1>3. OnPaths'
  <2>1. ASSUME NEW t \in Tokens PROVE OnPath(t)'
    <3>1. t \in Node /\ OnPath(t)
      BY Sorted, <1>1 DEF Ordered, Settled, OnPaths
    <3> QED
      BY <1>1, <3>1, PathStays DEF Waiting
  <2> QED
    BY <2>1, QuietTokens DEF OnPaths
<1>4. Remembered'
  <2>1. \A m \in Node : m_state[m] \in {"awaken", "blocking"} => m \in Queued'
    BY <1>1 DEF Tokens, Settled, Remembered
  <2> QED
    BY <1>1, <2>1 DEF Settled, Remembered
<1>5. QueuedOnce'
  <2> SUFFICES ASSUME NEW m \in Node, m # r
               PROVE  /\ m_state[m] = "wait_child" => m \notin Queued'
                      /\ Follows(m, m)' => \/ m_state[m] = "dead"
                                           \/ m_state[m] = "awaken" /\ Kind[m] = "parallel"
    BY <1>1 DEF QueuedOnce
  <2>1. Follows(m, m)' => Follows(m, m)
    BY DEF Quiet
  <2> QED
    BY <1>1, <2>1 DEF Settled, QueuedOnce
<1>6. StaleFirst'
  <2> SUFFICES ASSUME NEW p \in Queued', Sole(p), NEW x \in Strictly(p), Follows(x, p)'
               PROVE  FALSE
    BY <1>1 DEF StaleFirst, Strictly, Below, Sole
  <2>1. p \in Queued /\ p \in Node
    BY <1>1 DEF Sole
  <2>2. Follows(x, p) \/ x \in Tokens
    BY <1>2, <2>1 DEF Quiet
  <2> QED
    BY <2>1, <2>2, NoneBelow DEF Settled, StaleFirst, OnPaths
<1>7. StaleWithin'
  <2> SUFFICES ASSUME NEW p \in Node, NEW x \in Queued', x \in Strictly(p)
               PROVE  /\ m_state[p] # "blocking"
                      /\ m_state[p] = "wait_child" /\ Kind[p] # "parallel" =>
                           \E c \in Current(p) : x \in Below(c)
    BY <1>1 DEF StaleWithin, Strictly, Below
  <2>1. CASE x \in Queued
    BY <2>1 DEF Settled, StaleWithin
  <2>2. CASE x = r
    BY <1>2, <2>2
  <2> QED
    BY <1>1, <2>1, <2>2
<1> QED
  BY <1>3, <1>4, <1>5, <1>6, <1>7 DEF Settled
----------------------------------------------------------------------------
(* Every operation stays in the loaded tree, stopped or not.               *)

InLoaded(n) == n \in Node /\ cur_root_node \in Lineage[n]

\* The neighbours of a node of the loaded tree are in the loaded tree.
LEMMA LoadedNeighbours ==
  ASSUME Typed, NEW n, InLoaded(n)
  PROVE  /\ n \in Node
         /\ \A c \in ChildSet(n) : InLoaded(c)
         /\ \A x \in Below(n) : InLoaded(x)
         /\ cur_root_node \in Node /\ Kind[cur_root_node] = "root" /\ Parent[cur_root_node] = NoNode
         /\ ~(Kind[n] = "root" /\ Parent[n] = NoNode) => InLoaded(Parent[n]) /\ n # cur_root_node
<1>1. n \in Node /\ cur_root_node \in Lineage[n]
  BY DEF InLoaded
<1>2. cur_root_node \in Roots
  BY <1>1, InLineage, TreeAssumption DEF Typed, TypeOK, Loadable
<1>3. cur_root_node \in Node /\ Kind[cur_root_node] = "root" /\ Parent[cur_root_node] = NoNode
  BY <1>2, TreeAssumption DEF Rooted
<1>4. \A x \in Below(n) : InLoaded(x)
  BY <1>1, InBelow, LineageTransitive DEF InLoaded
<1>5. \A c \in ChildSet(n) : InLoaded(c)
  BY <1>1, <1>4, ChildBelow, InBelow
<1>6. ASSUME ~(Kind[n] = "root" /\ Parent[n] = NoNode)
      PROVE  InLoaded(Parent[n]) /\ n # cur_root_node
  <2>1. Parent[n] # NoNode /\ n # cur_root_node
    BY <1>1, <1>3, <1>6, TreeAssumption DEF Rooted
  <2>2. Lineage[n] = {n} \cup Lineage[Parent[n]] /\ Parent[n] \in Node
    BY <1>1, <2>1, ParentHasChild, TreeAssumption DEF Created
  <2> QED
    BY <1>1, <2>1, <2>2 DEF InLoaded
<1> QED
  BY <1>1, <1>3, <1>4, <1>5, <1>6

\* Interrupting nodes of the loaded tree changes nothing outside of it.
LEMMA InterruptedLoaded ==
  ASSUME Typed, NEW st, NEW idx, NEW S, \A s \in S : InLoaded(s)
  PROVE  \A m \in Interrupted(st, idx, S) : InLoaded(m)
<1>1. \A m \in Interrupted(st, idx, S) : m \in Node /\ \E s \in S : s \in Lineage[m]
  BY DEF Interrupted
<1> QED
  BY <1>1, LoadedNeighbours, InBelow

\* What is left to show of a step that loads no tree.
LEMMA InTreeStays ==
  ASSUME Typed, Typed', InTree, UNCHANGED cur_root_node,
         \A n \in Queued' : n \in Queued \/ InLoaded(n),
         \A n \in Node : m_state'[n] = m_state[n] \/ InLoaded(n),
         pc' \in {"idle", "loop", "events"} => m_pre_fronts' = <<>>
  PROVE  InTree'
  BY DEF InTree, InLoaded

\* A crash changes nothing in the queues and the nodes.
LEMMA CrashInTree == ASSUME InTree, Crash PROVE InTree'
  BY DEF InTree, Crash, Queued, queueVars, nodeVars

\* notify_stop.
LEMMA StopInTree ==
  ASSUME Typed, Typed', InTree, UNCHANGED cur_root_node, NEW st, NEW idx, NEW q,
         \A s \in ToSet(q) : InLoaded(s),
         \A n \in Node : st[n] = m_state[n] \/ InLoaded(n),
         NotifyStop(st, idx, q),
         \A n \in ToSet(m_fronts') : InLoaded(n)
  PROVE  InTree'
<1>1. \A m \in Interrupted(st, idx, ToSet(q)) : InLoaded(m)
  BY InterruptedLoaded
<1>2. m_state' = Kill(st, Interrupted(st, idx, ToSet(q))) /\ m_pre_fronts' = <<>>
  BY DEF NotifyStop
<1>3. \A n \in Node : m_state'[n] = m_state[n] \/ InLoaded(n)
  BY <1>1, <1>2 DEF Kill
<1>4. ToSet(<<>>) = {}
  BY DEF ToSet
<1>5. Queued' = ToSet(m_fronts')
  BY <1>2, <1>4 DEF Queued
<1> QED
  BY <1>2, <1>3, <1>5, InTreeStays

\* The members of a queue after add_to_front.
LEMMA AddToFrontMembers ==
  ASSUME NEW q \in Seq(Node), NEW z \in Node
  PROVE  ToSet(AddToFront(q, z)) = ToSet(q) \cup {z}
<1>1. PICK s \in Seq(Node) : /\ AddToFront(q, z) = q \o s
                             /\ ToSet(s) \subseteq {z}
                             /\ z \in ToSet(q) \cup ToSet(s)
  BY AddToFrontAppends
<1>2. ToSet(q \o s) = ToSet(q) \cup ToSet(s)
  BY ConcatMembers
<1> QED
  BY <1>1, <1>2

\* The nodes queued are in the loaded tree.
LEMMA QueuedLoaded ==
  ASSUME Typed, InTree
  PROVE  \A n \in Queued : InLoaded(n)
  BY Sorted DEF Ordered, InTree, InLoaded

\* The visited node and what is left of the pass.
LEMMA Visited ==
  ASSUME Typed, NEW n \in Node, Visiting(n)
  PROVE  /\ n \in Queued
         /\ ToSet(Tail(m_pre_fronts)) \subseteq Queued
         /\ m_pre_fronts # <<>> /\ n = Head(m_pre_fronts) /\ pc = "fronts"
<1>1. m_pre_fronts \in Seq(Node) /\ m_pre_fronts # <<>> /\ n = Head(m_pre_fronts) /\ pc = "fronts"
  BY DEF Typed, TypeOK, Visiting
<1>2. ToSet(m_pre_fronts) = {n} \cup ToSet(Tail(m_pre_fronts))
  BY <1>1, TailOrder
<1> QED
  BY <1>1, <1>2 DEF Queued

\* A visit that goes on.
LEMMA StepInTree ==
  ASSUME Typed, Typed', InTree, NEW n \in Node, Visiting(n), Step(n),
         NEW z, InLoaded(z), m_fronts' = AddToFront(m_fronts, z),
         \A m \in Node : m_state'[m] = m_state[m] \/ InLoaded(m)
  PROVE  InTree'
<1>1. ToSet(m_fronts') = ToSet(m_fronts) \cup {z}
  BY AddToFrontMembers DEF Typed, TypeOK, InLoaded
<1>2. m_pre_fronts' = Tail(m_pre_fronts) \/ m_pre_fronts' = <<>>
  BY DEF Step
<1>3. ToSet(m_pre_fronts') \subseteq Queued /\ pc' = "fronts"
  <2>1. ToSet(<<>>) = {}
    BY DEF ToSet
  <2> QED
    BY <1>2, <2>1, Visited DEF Step
<1>4. \A m \in Queued' : m \in Queued \/ InLoaded(m)
  BY <1>1, <1>3 DEF Queued
<1> QED
  BY <1>3, <1>4, InTreeStays DEF Step

\* on_enter changes the node and its children.
LEMMA OnEnterLoaded ==
  ASSUME Typed, NEW n, InLoaded(n), NEW s
  PROVE  \A m \in Node : OnEnter(n, s)[m] = m_state[m] \/ InLoaded(m)
  BY LoadedNeighbours DEF OnEnter

\* The nodes of a chosen list of children.
LEMMA ChildAt ==
  ASSUME NEW n \in Node, NEW i \in 0..(Arity(n) - 1)
  PROVE  Child(n, i) \in ChildSet(n) /\ Child(n, i) \in Node /\ Child(n, i) # n
<1>1. Children[n] \in Seq(Node)
  BY TreeAssumption DEF Loadable
<1>2. Child(n, i) \in ChildSet(n)
  BY <1>1 DEF Child, Arity, ChildSet, ToSet
<1> QED
  BY <1>2, ChildHasParent, ChildBelow DEF Strictly

\* Visits of a fresh node that go on,
LEMMA EnterInTree ==
  ASSUME Typed, Typed', InTree, NEW n \in Node,
         \/ EnterFirst(n) \/ EnterShuffled(n) \/ EnterWeighted(n) \/ EnterParallel(n)
         \/ EnterAction(n) \/ EnterPending(n) \/ EnterWaitEvent(n)
  PROVE  InTree'
<1>1. Visiting(n) /\ Step(n) /\ m_state[n] = "init"
  BY DEF EnterFirst, EnterShuffled, EnterWeighted, EnterParallel, EnterAction, EnterPending,
         EnterWaitEvent, Fresh
<1>2. InLoaded(n) /\ \A c \in ChildSet(n) : InLoaded(c)
  BY <1>1, Visited, QueuedLoaded, LoadedNeighbours
<1>3. \A s, m : m \in Node => OnEnter(n, s)[m] = m_state[m] \/ InLoaded(m)
  BY <1>2, OnEnterLoaded
<1>4. Arity(n) \in Nat
  BY ArityType
<1>5. ASSUME NEW i \in 0..(Arity(n) - 1), m_fronts' = AddToFront(m_fronts, Child(n, i)),
             m_state' = OnEnter(n, "wait_child")
      PROVE  InTree'
  <2>1. InLoaded(Child(n, i))
    BY <1>2, ChildAt
  <2>2. \A m \in Node : m_state'[m] = m_state[m] \/ InLoaded(m)
    BY <1>3, <1>5
  <2> QED
    BY <1>1, <1>5, <2>1, <2>2, StepInTree
<1>6. CASE EnterFirst(n)
  <2>1. 0 \in 0..(Arity(n) - 1)
    BY <1>4, <1>6 DEF EnterFirst
  <2> QED
    BY <1>5, <1>6, <2>1 DEF EnterFirst
<1>7. CASE EnterShuffled(n)
  <2>1. PICK s \in [1..Arity(n) -> 0..(Arity(n) - 1)] :
          m_fronts' = AddToFront(m_fronts, Child(n, s[1]))
    BY <1>7 DEF EnterShuffled
  <2>2. s[1] \in 0..(Arity(n) - 1)
    BY <1>4, <1>7 DEF EnterShuffled
  <2> QED
    BY <1>5, <1>7, <2>1, <2>2 DEF EnterShuffled
<1>8. CASE EnterWeighted(n)
  BY <1>5, <1>8 DEF EnterWeighted
<1>9. CASE EnterParallel(n)
  <2>1. PICK k \in 0..Arity(n) : \E t \in [1..k -> 1..Arity(n)] :
          /\ \A i, j \in 1..k : i < j => t[i] < t[j]
          /\ m_fronts' = m_fronts \o [j \in 1..k |-> Children[n][t[j]]]
    BY <1>9 DEF EnterParallel
  <2>2. PICK t \in [1..k -> 1..Arity(n)] :
          /\ \A i, j \in 1..k : i < j => t[i] < t[j]
          /\ m_fronts' = m_fronts \o [j \in 1..k |-> Children[n][t[j]]]
    BY <2>1
  <2> DEFINE s == [j \in 1..k |-> Children[n][t[j]]]
  <2>3. s \in Seq(Node)
    BY <2>2, PickedDistinct
  <2>4. ToSet(s) \subseteq ChildSet(n)
    <3>1. DOMAIN Children[n] = 1..Arity(n)
      BY TreeAssumption DEF Loadable, Arity
    <3> QED
      BY <3>1 DEF ChildSet, ToSet
  <2>5. m_fronts' = m_fronts \o s
    BY <2>2
  <2> HIDE DEF s
  <2>6. ToSet(m_fronts') = ToSet(m_fronts) \cup ToSet(s)
    BY <2>3, <2>5, ConcatMembers DEF Typed, TypeOK
  <2>7. m_pre_fronts' = Tail(m_pre_fronts) \/ m_pre_fronts' = <<>>
    BY <1>1 DEF Step
  <2>8. ToSet(m_pre_fronts') \subseteq Queued /\ pc' = "fronts"
    <3>1. ToSet(<<>>) = {}
      BY DEF ToSet
    <3> QED
      BY <1>1, <2>7, <3>1, Visited DEF Step
  <2>9. \A m \in Queued' : m \in Queued \/ InLoaded(m)
    BY <1>2, <2>4, <2>6, <2>8 DEF Queued
  <2>10. \A m \in Node : m_state'[m] = m_state[m] \/ InLoaded(m)
    BY <1>3, <1>9 DEF EnterParallel
  <2> QED
    BY <1>1, <2>8, <2>9, <2>10, InTreeStays DEF Step
<1>10. CASE EnterAction(n)
  <2>1. InLoaded(Parent[n])
    BY <1>2, <1>10, LoadedNeighbours DEF EnterAction
  <2>2. /\ m_fronts' = AddToFront(m_fronts, Parent[n])
        /\ m_state' = [m_state EXCEPT ![n] = "dead", ![Parent[n]] = "awaken"]
    BY <1>10 DEF EnterAction, SetResult
  <2>3. \A m \in Node : m_state'[m] = m_state[m] \/ InLoaded(m)
    BY <1>2, <2>1, <2>2 DEF Typed, TypeOK
  <2> QED
    BY <1>1, <2>1, <2>2, <2>3, StepInTree
<1>11. CASE EnterPending(n) \/ EnterWaitEvent(n)
  <2>1. m_fronts' = AddToFront(m_fronts, n) /\ m_state' = OnEnter(n, "blocking")
    BY <1>11 DEF EnterPending, EnterWaitEvent
  <2>2. \A m \in Node : m_state'[m] = m_state[m] \/ InLoaded(m)
    BY <1>3, <2>1
  <2> QED
    BY <1>1, <1>2, <2>1, <2>2, StepInTree
<1> QED
  BY <1>6, <1>7, <1>8, <1>9, <1>10, <1>11

\* that stop the agent,
LEMMA HaltInTree ==
  ASSUME Typed, Typed', InTree, NEW n \in Node,
         \/ EnterUnknown(n) \/ EnterReset(n) \/ EnterHalts(n) \/ EnterFaults(n)
         \/ AdvanceHalts(n)
  PROVE  InTree'
<1>1. CASE Crash
  BY <1>1, CrashInTree
<1> SUFFICES ASSUME ~Crash PROVE InTree'
  BY <1>1
<1>2. Visiting(n)
  BY DEF EnterUnknown, EnterReset, EnterHalts, EnterFaults, AdvanceHalts, Fresh, Awoken
<1>3. InLoaded(n) /\ \A s \in ToSet(m_fronts) : InLoaded(s)
  BY <1>2, Visited, QueuedLoaded DEF Queued
<1>4. UNCHANGED cur_root_node /\ m_fronts' \in {<<>>, <<n>>}
  BY DEF EnterUnknown, EnterReset, EnterHalts, EnterFaults, AdvanceHalts, StopFaults
<1>5. ToSet(<<>>) = {} /\ ToSet(<<n>>) = {n}
  BY DEF ToSet
<1>6. CASE EnterUnknown(n)
  <2> DEFINE idx == [next_child_idx EXCEPT ![n] = 0]
             st == OnEnter(n, "entering")
             hit == Interrupted(st, idx, ToSet(m_fronts))
  <2>1. /\ m_state' = [Kill(st, hit) EXCEPT ![n] = "blocking"]
        /\ m_pre_fronts' = <<>>
    BY <1>6 DEF EnterUnknown, StopFaults
  <2>2. \A m \in Node : st[m] = m_state[m] \/ InLoaded(m)
    BY <1>3, OnEnterLoaded
  <2>3. \A m \in hit : InLoaded(m)
    BY <1>3, InterruptedLoaded
  <2> HIDE DEF idx, st, hit
  <2>4. \A m \in Node : m_state'[m] = m_state[m] \/ InLoaded(m)
    BY <1>3, <2>1, <2>2, <2>3 DEF Kill
  <2>5. \A m \in Queued' : InLoaded(m)
    BY <1>3, <1>4, <1>5, <2>1 DEF Queued
  <2> QED
    BY <1>4, <2>1, <2>4, <2>5, InTreeStays
<1>7. CASE EnterReset(n) \/ EnterHalts(n) \/ EnterFaults(n) \/ AdvanceHalts(n)
  <2>1. PICK st, idx : /\ NotifyStop(st, idx, m_fronts)
                       /\ st = m_state \/ \E s : st = OnEnter(n, s)
    BY <1>7 DEF EnterReset, EnterHalts, EnterFaults, AdvanceHalts, StopFaults
  <2>2. \A m \in Node : st[m] = m_state[m] \/ InLoaded(m)
    BY <1>3, <2>1, OnEnterLoaded
  <2> QED
    BY <1>3, <1>4, <1>5, <2>1, <2>2, StopInTree
<1> QED
  BY <1>6, <1>7

\* the visits of a node that a child has woken up, and those of a stale one,
LEMMA RevisitInTree ==
  ASSUME Typed, Typed', InTree, NEW n \in Node,
         \/ Requeue(n) \/ Drop(n) \/ Advance(n) \/ Return(n)
         \/ RevisitRoot(n) \/ RevisitParallel(n)
  PROVE  InTree'
<1>1. CASE Crash
  BY <1>1, CrashInTree
<1>2. Visiting(n)
  BY DEF Awoken, Requeue, Drop, Advance, Return, RevisitRoot, RevisitParallel
<1>3. InLoaded(n) /\ \A c \in ChildSet(n) : InLoaded(c)
  BY <1>2, Visited, QueuedLoaded, LoadedNeighbours
<1>4. CASE Requeue(n) \/ Drop(n)
  <2>1. /\ m_fronts' = m_fronts \/ m_fronts' = AddToFront(m_fronts, n)
        /\ m_pre_fronts' = Tail(m_pre_fronts) /\ pc' = pc
        /\ UNCHANGED <<cur_root_node, m_state>>
    BY <1>4 DEF Requeue, Drop, nodeVars, pollVars
  <2>2. ToSet(m_fronts') \subseteq ToSet(m_fronts) \cup {n}
    BY <2>1, AddToFrontMembers DEF Typed, TypeOK
  <2>3. \A x \in Queued' : x \in Queued \/ InLoaded(x)
    BY <1>2, <1>3, <2>1, <2>2, Visited DEF Queued
  <2> QED
    BY <1>2, <2>1, <2>3, InTreeStays, Visited
<1>5. CASE Advance(n)
  <2> DEFINE i == NextIndex(n, next_child_idx[n], ChildResult(n))
             c == Child(n, Cursor(n, i))
  <2>1. /\ i < Arity(n)
        /\ m_state' = [m_state EXCEPT ![n] = "wait_child", ![c] = "init"]
        /\ m_fronts' = AddToFront(m_fronts, c)
        /\ Step(n)
    BY <1>5 DEF Advance
  <2>2. i \in Nat
    BY DEF NextIndex, Typed, TypeOK
  <2> HIDE DEF i
  <2>3. Cursor(n, i) \in 0..(Arity(n) - 1)
    <3>1. m_shuffle[n] \in Seq(0..(Arity(n) - 1)) /\ Arity(n) \in Nat
      BY ArityType DEF Typed, TypeOK, Arity
    <3> QED
      BY <2>1, <2>2, <3>1 DEF Cursor
  <2>4. c \in ChildSet(n)
    BY <2>3, ChildAt
  <2> HIDE DEF c
  <2>5. InLoaded(c) /\ \A m \in Node : m_state'[m] = m_state[m] \/ InLoaded(m)
    BY <1>3, <2>1, <2>4 DEF Typed, TypeOK
  <2> QED
    BY <1>2, <2>1, <2>5, StepInTree
<1>6. CASE Return(n)
  <2>1. InLoaded(Parent[n])
    BY <1>3, <1>6, LoadedNeighbours DEF Return, Sequential
  <2>2. /\ m_fronts' = AddToFront(m_fronts, Parent[n])
        /\ m_state' = [m_state EXCEPT ![n] = "dead", ![Parent[n]] = "awaken"]
        /\ Step(n)
    BY <1>6 DEF Return, SetResult
  <2>3. \A m \in Node : m_state'[m] = m_state[m] \/ InLoaded(m)
    BY <1>3, <2>1, <2>2 DEF Typed, TypeOK
  <2> QED
    BY <1>2, <2>1, <2>2, <2>3, StepInTree
<1>7. CASE RevisitRoot(n)
  <2>1. 0 \in 0..(Arity(n) - 1)
    BY <1>7 DEF RevisitRoot, Awoken, Typed, Awakened
  <2>2. Child(n, 0) \in ChildSet(n)
    BY <2>1, ChildAt
  <2>3. \A m \in Node : m_state'[m] = m_state[m] \/ InLoaded(m)
    BY <1>3, <1>7, OnEnterLoaded DEF RevisitRoot
  <2> QED
    BY <1>2, <1>3, <1>7, <2>2, <2>3, StepInTree DEF RevisitRoot
<1>8. CASE RevisitParallel(n) /\ ~Crash
  <2> DEFINE hit == Interrupted(m_state, next_child_idx, ChildSet(n))
  <2>1. InLoaded(Parent[n])
    BY <1>3, <1>8, LoadedNeighbours DEF RevisitParallel
  <2>2. /\ m_fronts' = AddToFront(m_fronts, Parent[n])
        /\ m_state' = [Kill(m_state, hit) EXCEPT ![n] = "dead", ![Parent[n]] = "awaken"]
        /\ Step(n)
    BY <1>8 DEF RevisitParallel
  <2>3. \A m \in hit : InLoaded(m)
    BY <1>3, InterruptedLoaded
  <2> HIDE DEF hit
  <2>4. \A m \in Node : m_state'[m] = m_state[m] \/ InLoaded(m)
    BY <1>3, <2>1, <2>2, <2>3 DEF Kill
  <2> QED
    BY <1>2, <2>1, <2>2, <2>4, StepInTree
<1> QED
  BY <1>1, <1>4, <1>5, <1>6, <1>7, <1>8

\* the calls of the application,
LEMMA ApplicationInTree ==
  ASSUME Typed, Typed', InTree, Application
  PROVE  InTree'
<1> USE DEF queueVars, nodeVars, pollVars
<1>1. CASE Crash
  BY <1>1, CrashInTree
<1>2. ToSet(<<>>) = {} /\ \A x : ToSet(<<x>>) = {x}
  BY DEF ToSet
<1>3. ASSUME UNCHANGED <<cur_root_node, m_fronts, m_pre_fronts, m_state>>, pc = "idle"
      PROVE  InTree'
  BY <1>3 DEF InTree, Queued
<1>4. ASSUME NEW e \in Event, DispatchEvent(e) PROVE InTree'
  BY <1>3, <1>4 DEF DispatchEvent
<1>5. CASE PollCall \/ Enable
  BY <1>3, <1>5 DEF PollCall, Enable
<1>6. CASE (Disable \/ LoadSame) /\ ~Crash
  <2>1. /\ NotifyStop(m_state, next_child_idx, m_fronts)
        /\ m_fronts' = <<>> /\ UNCHANGED cur_root_node
    BY <1>6 DEF Disable, LoadSame, StopFaults
  <2>2. \A s \in ToSet(m_fronts) : InLoaded(s)
    BY QueuedLoaded DEF Queued
  <2> QED
    BY <1>2, <2>1, <2>2, StopInTree
<1>7. ASSUME NEW r \in Roots, LoadFirst(r) PROVE InTree'
  <2>1. \A n \in Node : cur_root_node \notin Lineage[n]
    BY <1>7, InLineage, TreeAssumption DEF LoadFirst, Loadable
  <2>2. m_pre_fronts' = <<>> /\ m_fronts' = AddToFront(m_fronts, r) /\ cur_root_node' = r
    BY <1>7 DEF LoadFirst, InTree
  <2>3. Queued = {}
    BY <2>1, Sorted DEF Ordered, InTree
  <2>4. Queued' = {r} /\ r \in Node
    <3>1. r \in Node
      BY TreeAssumption DEF Rooted
    <3> QED
      BY <1>2, <2>2, <2>3, <3>1, AddToFrontMembers DEF Queued, Typed, TypeOK
  <2>5. \A n \in Node : m_state'[n] = "init"
    BY <1>7, <2>1 DEF InTree, LoadFirst
  <2> QED
    BY <2>2, <2>4, <2>5, InLineage DEF InTree
<1>8. ASSUME NEW r \in Roots \cup {NoNode}, LoadOther(r), ~Crash PROVE InTree'
  <2>1. \A n \in Node : m_state'[n] = "init"
    BY <1>8 DEF LoadOther, Below, InTree
  <2>2. m_pre_fronts' = <<>> /\ m_fronts' \in {<<>>, <<r>>} /\ cur_root_node' = r
        /\ (r = NoNode => m_fronts' = <<>>)
    BY <1>8 DEF LoadOther
  <2>3. \A n \in Queued' : n = r /\ r # NoNode
    BY <1>2, <2>2 DEF Queued
  <2>4. r # NoNode => r \in Node /\ r \in Lineage[r]
    BY InLineage, TreeAssumption DEF Rooted
  <2> QED
    BY <2>1, <2>2, <2>3, <2>4 DEF InTree
<1>9. ASSUME NEW n \in Node, NEW r \in BOOLEAN, Complete(n, r) PROVE InTree'
  <2>1. InLoaded(n)
    BY <1>9 DEF Complete, InTree, InLoaded
  <2>2. InLoaded(Parent[n])
    BY <1>9, <2>1, LoadedNeighbours DEF Complete
  <2>3. /\ m_fronts' = AddToFront(m_fronts, Parent[n])
        /\ m_state' = [m_state EXCEPT ![n] = "dead", ![Parent[n]] = "awaken"]
        /\ UNCHANGED <<cur_root_node, m_pre_fronts>>
    BY <1>9 DEF Complete, SetResult
  <2>4. \A x \in Queued' : x \in Queued \/ InLoaded(x)
    BY <2>2, <2>3, AddToFrontMembers DEF Queued, Typed, TypeOK, InLoaded
  <2>5. \A m \in Node : m_state'[m] = m_state[m] \/ InLoaded(m)
    BY <2>1, <2>2, <2>3 DEF Typed, TypeOK
  <2>6. m_pre_fronts' = <<>>
    BY <1>9, <2>3 DEF Complete, InTree
  <2> QED
    BY <2>3, <2>4, <2>5, <2>6, InTreeStays
<1>10. ASSUME NEW n \in Node, CompleteDead(n), ~Crash PROVE InTree'
  <2>1. /\ NotifyStop(m_state, next_child_idx, m_fronts)
        /\ m_fronts' = <<>> /\ UNCHANGED cur_root_node
    BY <1>10 DEF CompleteDead, StopFaults
  <2>2. \A s \in ToSet(m_fronts) : InLoaded(s)
    BY QueuedLoaded DEF Queued
  <2> QED
    BY <1>2, <2>1, <2>2, StopInTree
<1> QED
  BY <1>1, <1>4, <1>5, <1>6, <1>7, <1>8, <1>9, <1>10 DEF Application

\* the steps of poll_events,
LEMMA EventsInTree ==
  ASSUME Typed, Typed', InTree, IgnoreEvent \/ HandleEvent \/ HandleDead
  PROVE  InTree'
<1> USE DEF queueVars, nodeVars, pollVars
<1>1. CASE Crash
  BY <1>1, CrashInTree
<1>2. CASE IgnoreEvent
  BY <1>2 DEF IgnoreEvent, InTree, Queued
<1>3. m_fronts \in Seq(Node)
  BY DEF Typed, TypeOK
<1>4. CASE HandleEvent
  <2>1. PICK k \in DOMAIN m_fronts :
          /\ First(k, Head(m_events))
          /\ m_state' = [m_state EXCEPT ![m_fronts[k]] = "dead",
                                       ![Parent[m_fronts[k]]] = "awaken"]
          /\ m_fronts' = Replaced(m_fronts, k, Parent[m_fronts[k]])
    BY <1>4 DEF HandleEvent
  <2> DEFINE n == m_fronts[k]
  <2>2. n \in Queued /\ Kind[n] = "wait_event"
    BY <2>1 DEF First, Listeners, Listens, Queued, ToSet
  <2>3. InLoaded(n) /\ InLoaded(Parent[n])
    BY <2>2, QueuedLoaded, LoadedNeighbours
  <2>4. ToSet(m_fronts') \subseteq ToSet(m_fronts) \cup {Parent[n]}
    BY <1>3, <2>1, <2>3, ReplacedMembers DEF InLoaded
  <2>5. \A m \in Node : m_state'[m] = m_state[m] \/ InLoaded(m)
    BY <2>1, <2>3 DEF Typed, TypeOK
  <2> HIDE DEF n
  <2>6. UNCHANGED <<cur_root_node, m_pre_fronts>> /\ m_pre_fronts = <<>>
    BY <1>4 DEF HandleEvent, Processing, InTree
  <2>7. \A x \in Queued' : x \in Queued \/ InLoaded(x)
    BY <2>3, <2>4, <2>6 DEF Queued
  <2> QED
    BY <2>5, <2>6, <2>7, InTreeStays
<1>5. CASE HandleDead /\ ~Crash
  <2>1. PICK k \in DOMAIN m_fronts :
          /\ NotifyStop(m_state, next_child_idx, SubSeq(m_fronts, 1, k - 1))
          /\ m_fronts' = SubSeq(m_fronts, k + 1, Len(m_fronts))
          /\ UNCHANGED cur_root_node
    BY <1>5 DEF HandleDead, StopFaults
  <2>2. k \in 1..Len(m_fronts) /\ Len(m_fronts) \in Nat
    BY <1>3
  <2>3. /\ ToSet(SubSeq(m_fronts, 1, k - 1)) \subseteq Queued
        /\ ToSet(SubSeq(m_fronts, k + 1, Len(m_fronts))) \subseteq Queued
    <3>1. /\ SubSeq(m_fronts, 1, k - 1) = [i \in 1..(k - 1) |-> m_fronts[i]]
          /\ \A i \in 1..(k - 1) : i \in 1..Len(m_fronts)
      BY <1>3, <2>2
    <3>2. /\ SubSeq(m_fronts, k + 1, Len(m_fronts)) =
               [i \in 1..(Len(m_fronts) - k) |-> m_fronts[k + i]]
          /\ \A i \in 1..(Len(m_fronts) - k) : k + i \in 1..Len(m_fronts)
      BY <1>3, <2>2
    <3>3. \A i \in 1..Len(m_fronts) : m_fronts[i] \in Queued
      BY <1>3 DEF Queued, ToSet
    <3> QED
      BY <3>1, <3>2, <3>3 DEF ToSet
  <2> QED
    BY <2>1, <2>3, QueuedLoaded, StopInTree
<1> QED
  BY <1>1, <1>2, <1>4, <1>5

\* and the steps of poll around a pass.
LEMMA PollInTree ==
  ASSUME Typed, Typed', InTree,
         \/ PollDisabled \/ PollRound \/ BeginPass
         \/ PollAgain \/ PollDone \/ PollRestart \/ PollRestartFaults
  PROVE  InTree'
<1> USE DEF queueVars, nodeVars, pollVars, flagVars
<1>1. CASE PollRestartFaults
  BY <1>1, CrashInTree DEF PollRestartFaults
<1>2. CASE PollDisabled \/ PollRound \/ PollAgain \/ PollDone
  BY <1>2 DEF PollDisabled, PollRound, PollAgain, PollDone, EndOfPass, InTree, Queued
<1>3. CASE BeginPass
  <2>1. Queued' = Queued
    <3>1. ToSet(<<>>) = {} /\ m_pre_fronts = <<>>
      BY <1>3 DEF ToSet, BeginPass, InTree
    <3> QED
      BY <1>3, <3>1 DEF BeginPass, Queued
  <2> QED
    BY <1>3, <2>1, InTreeStays DEF BeginPass
<1>4. CASE PollRestart
  <2>1. cur_root_node \in Node /\ InLoaded(cur_root_node)
    BY <1>4, InLineage, TreeAssumption DEF PollRestart, Typed, TypeOK, Rooted, InLoaded
  <2>2. ToSet(m_fronts') = ToSet(m_fronts) \cup {cur_root_node}
    BY <1>4, <2>1, AddToFrontMembers DEF PollRestart, Typed, TypeOK
  <2>3. \A x \in Queued' : x \in Queued \/ InLoaded(x)
    BY <1>4, <2>1, <2>2 DEF PollRestart, Queued
  <2> QED
    BY <1>4, <2>3, InTreeStays DEF PollRestart, EndOfPass
<1> QED
  BY <1>1, <1>2, <1>3, <1>4

\* An agent only queues and changes nodes of the loaded tree.
LEMMA NextInTree == Typed /\ Typed' /\ InTree /\ [Next]_vars => InTree'
<1>1. InTree /\ UNCHANGED vars => InTree'
  BY DEF vars, queueVars, nodeVars, pollVars, InTree, Queued
<1> QED
  BY <1>1, ApplicationInTree, EventsInTree, PollInTree, EnterInTree, HaltInTree, RevisitInTree
  DEF Next, Polling, Visit

----------------------------------------------------------------------------
(* Every visit of an intact agent is a move.                               *)

\* What a step of an intact agent starts from.
Ready == Typed /\ InTree /\ intact /\ Steady

\* What it has to be, and to keep for the root.
Moves ==
  /\ \/ \E n \in Node : Up(n) \/ Blocks(n) \/ \E S \in SUBSET Node : Down(n, S)
     \/ Quiet
  /\ RootAgain'
  /\ PassEnabled'

\* The work list begins with what is left of the pass.
LEMMA WorkParts ==
  Typed => /\ m_pre_fronts # <<>> => Work # <<>> /\ Head(Work) = Head(m_pre_fronts)
           /\ m_pre_fronts = <<>> => Work = m_fronts
           /\ m_fronts = <<>> => Work = m_pre_fronts
<1> SUFFICES ASSUME Typed
             PROVE  /\ m_pre_fronts # <<>> => Work # <<>> /\ Head(Work) = Head(m_pre_fronts)
                    /\ m_pre_fronts = <<>> => Work = m_fronts
                    /\ m_fronts = <<>> => Work = m_pre_fronts
  OBVIOUS
<1>1. m_fronts \in Seq(Node) /\ m_pre_fronts \in Seq(Node)
  BY DEF Typed, TypeOK
<1>2. m_pre_fronts # <<>> => Work # <<>> /\ Head(Work) = Head(m_pre_fronts)
  BY <1>1 DEF Work
<1> QED
  BY <1>1, <1>2, ConcatEmptySeq DEF Work

\* What is the same at a node keeps the children it is at.
LEMMA CurrentStays ==
  ASSUME NEW p \in Node, next_child_idx'[p] = next_child_idx[p], m_shuffle'[p] = m_shuffle[p],
         p \in visited' <=> p \in visited
  PROVE  Current(p)' = Current(p)
  BY DEF Current, Forwards, Cursor

\* The node that is visited.
LEMMA Turn ==
  ASSUME Typed, Steady, NEW n \in Node, Visiting(n), NEW Z, TakesTurn(n, Z)
  PROVE  /\ n \in Queued /\ Rest \subseteq Queued /\ Requeues(n, Z)
         /\ m_state[n] \in {"init", "awaken"} => n \in Tokens /\ OnPath(n)
         /\ Sole(n) => Queued \cap Strictly(n) = {}
         /\ m_state[n] = "init" \/ (Sole(n) /\ n # cur_root_node) => n \notin Rest
<1>1. n \in Queued /\ Rest \subseteq Queued /\ Requeues(n, Z)
  BY DEF TakesTurn, Requeues
<1>2. m_state[n] \in {"init", "awaken"} => n \in Tokens /\ OnPath(n)
  BY <1>1 DEF Tokens, Steady, OnPaths
<1>3. ASSUME Sole(n), NEW x \in Queued, x \in Strictly(n) PROVE FALSE
  <2>1. x # n
    BY <1>3 DEF Strictly
  <2>2. Follows(x, n)
    BY <1>3, <2>1 DEF TakesTurn
  <2> QED
    BY <1>1, <1>3, <2>2 DEF Steady, StaleFirst
<1>4. ASSUME m_state[n] = "init" \/ (Sole(n) /\ n # cur_root_node), n \in Rest PROVE FALSE
  <2>1. Follows(n, n)
    BY <1>4 DEF TakesTurn
  <2> QED
    BY <1>4, <2>1 DEF Steady, QueuedOnce, RootAgain, Sole
<1> QED
  BY <1>1, <1>2, <1>3, <1>4

\* A visit of another node than the root that does not queue the root does not
\* change what is said of it.
LEMMA RootAside ==
  ASSUME Ready, Typed', NEW n \in Node, Visiting(n), n # cur_root_node,
         NEW Z, TakesTurn(n, Z), cur_root_node \notin Z,
         m_pre_fronts' = Tail(m_pre_fronts),
         m_state'[cur_root_node] = m_state[cur_root_node],
         UNCHANGED <<cur_root_node, reset_flag, pc, m_enabled>>
  PROVE  RootAgain' /\ PassEnabled'
<1> DEFINE r == cur_root_node
<1>1. /\ Typed /\ Steady /\ RootAgain /\ m_enabled /\ pc = "fronts"
      /\ m_pre_fronts # <<>> /\ Head(m_pre_fronts) = n
      /\ Work # <<>> /\ Head(Work) = n
  BY WorkParts DEF Ready, Steady, Visiting, PassEnabled
<1>2. Head(<<r>>) = r
  OBVIOUS
<1>3. r' \in Queued' /\ m_state'[r'] = "wait_child" => m_pre_fronts' # <<>> /\ Head(m_pre_fronts') = r'
  <2> SUFFICES ASSUME r \in Queued', m_state[r] = "wait_child"
               PROVE  m_pre_fronts' # <<>> /\ Head(m_pre_fronts') = r
    OBVIOUS
  <2>1. r \in Queued
    BY <1>1, Turn DEF TakesTurn
  <2>2. PICK c \in ChildSet(r) : m_fronts = <<>> /\ Work \in {<<c, r>>, <<r, c>>}
    BY <1>1, <2>1 DEF RootAgain
  <2>3. Work = m_pre_fronts /\ Head(<<r, c>>) = r
    BY <1>1, <2>2, WorkParts
  <2>4. m_pre_fronts = <<c, r>>
    BY <1>1, <2>2, <2>3
  <2> QED
    BY <2>4
<1>4. ~(Follows(r, r))'
  <2>1. Follows(r, r)' => Follows(r, r)
    BY DEF TakesTurn
  <2>2. ~Follows(r, r)
    BY <1>1, <1>2 DEF RootAgain
  <2> QED
    BY <2>1, <2>2
<1>5. ~reset_flag'
  BY <1>1, <1>2 DEF RootAgain
<1> QED
  BY <1>1, <1>3, <1>4, <1>5 DEF RootAgain, PassEnabled

\* A visit goes on with the next node of the pass.
LEMMA StepOn ==
  ASSUME Ready, NEW n \in Node, Visiting(n), Step(n)
  PROVE  /\ m_pre_fronts' = Tail(m_pre_fronts)
         /\ UNCHANGED <<cur_root_node, reset_flag, pc, m_enabled, intact>>
  BY DEF Ready, Steady, PassEnabled, Visiting, Step, flagVars

\* on_enter moves the token down to the children it queues.
LEMMA EnterDown ==
  ASSUME Ready, Typed', NEW n \in Node, Fresh(n), Step(n),
         NEW S, S # {}, S \subseteq ChildSet(n),
         IF Kind[n] = "parallel" THEN S = ChildSet(n) ELSE \E c \in S : S = {c},
         NEW i, Reenter(n, i), m_state' = OnEnter(n, "wait_child"),
         \A p \in Node \ {n} : m_shuffle'[p] = m_shuffle[p],
         TakesTurn(n, S), Current(n)' = S
  PROVE  Down(n, S)
<1>1. Typed /\ Steady /\ Visiting(n) /\ m_state[n] = "init" /\ Sole(n)
  BY DEF Ready, Fresh, Sole
<1>2. /\ n \in Tokens /\ Queued \cap Strictly(n) = {} /\ n \notin Rest /\ Requeues(n, S)
  BY <1>1, Turn
<1>3. \A c \in ChildSet(n) : c # n /\ c \in Node
  BY ChildBelow DEF Strictly, Below
<1>4. /\ m_state'[n] = "wait_child"
      /\ \A c \in S : m_state'[c] = "init"
      /\ \A c \in ChildSet(n) : m_state'[c] \in {m_state[c], "init"}
      /\ \A m \in Node \ ({n} \cup ChildSet(n)) : m_state'[m] = m_state[m]
  BY <1>3 DEF OnEnter
<1>5. ASSUME NEW p \in Node \ {n} PROVE Current(p)' = Current(p)
  <2>1. next_child_idx'[p] = next_child_idx[p] /\ (p \in visited' <=> p \in visited)
    BY <1>1, <1>5 DEF Reenter, Typed, TypeOK
  <2> QED
    BY <1>5, <2>1, CurrentStays
<1>6. n \notin Queued'
  BY <1>2, <1>3 DEF TakesTurn
<1>7. \A p, x : Follows(x, p)' => Follows(x, p) \/ x \in S
  BY DEF TakesTurn
<1>8. UNCHANGED cur_root_node
  BY <1>1, StepOn
<1> QED
  BY <1>1, <1>2, <1>4, <1>5, <1>6, <1>7, <1>8 DEF Down

\* A fresh node other than the root.
LEMMA EnterAside ==
  ASSUME Ready, Typed', NEW n \in Node, Fresh(n), Step(n), n # cur_root_node,
         NEW S, Down(n, S), TakesTurn(n, S)
  PROVE  Moves
<1>1. Typed /\ Visiting(n) /\ n \in Node /\ OnPath(n)
  BY DEF Ready, Fresh, Down, Steady, OnPaths
<1>2. cur_root_node \in Node /\ cur_root_node \in Lineage[n] /\ Parent[cur_root_node] = NoNode
  BY <1>1, LoadedNeighbours DEF OnPath, InLoaded
<1>3. cur_root_node \notin ChildSet(n)
  BY <1>2, ChildHasParent, TreeAssumption DEF Loadable
<1>4. cur_root_node \notin S /\ m_state'[cur_root_node] = m_state[cur_root_node]
  BY <1>2, <1>3 DEF Down
<1>5. RootAgain' /\ PassEnabled'
  BY <1>1, <1>4, StepOn, RootAside
<1>6. S \in SUBSET Node
  BY ChildHasParent DEF Down
<1> QED
  BY <1>5, <1>6 DEF Moves

\* The root starts its tree: it is not queued again until a reset asks for it.
LEMMA EnterRoot ==
  ASSUME Ready, Typed', NEW n \in Node, Fresh(n), Step(n), n = cur_root_node,
         NEW c, Down(n, {c}), TakesTurn(n, {c}), m_fronts' = AddToFront(m_fronts, c)
  PROVE  Moves
<1>1. /\ Typed /\ Steady /\ RootAgain /\ Visiting(n) /\ m_state[n] = "init" /\ pc = "fronts"
      /\ m_pre_fronts # <<>>
  BY DEF Ready, Fresh, Steady, Visiting
<1>2. c \in ChildSet(n) /\ c \in Node /\ c # n
  BY ChildHasParent, ChildBelow DEF Down, Strictly
<1>3. n \notin Queued'
  BY <1>1, <1>2, Turn DEF TakesTurn
<1>4. ~Follows(n, n)'
  BY <1>3, SortedNext
<1>5. /\ m_pre_fronts' = Tail(m_pre_fronts)
      /\ UNCHANGED <<cur_root_node, reset_flag, pc, m_enabled>>
  BY <1>1, StepOn
<1>6. ASSUME reset_flag
      PROVE  m_pre_fronts' = <<>> /\ m_fronts' = <<c>>
  <2>1. Work = <<n>> /\ m_fronts = <<>>
    BY <1>1, <1>6 DEF RootAgain
  <2>2. m_pre_fronts = <<n>> /\ ToSet(<<>>) = {}
    BY <1>1, <2>1, WorkParts DEF ToSet
  <2>3. m_pre_fronts' = <<>>
    BY <1>5, <2>2
  <2>4. m_fronts' = <<c>>
    BY <2>1, <2>2 DEF AddToFront
  <2> QED
    BY <2>3, <2>4
<1>7. m_state'[n] = "wait_child" /\ m_state'[c] = "init"
  BY <1>2 DEF Down
<1>8. RootAgain'
  BY <1>1, <1>2, <1>3, <1>4, <1>5, <1>6, <1>7 DEF RootAgain
<1>9. PassEnabled'
  BY <1>1, <1>5 DEF Steady, PassEnabled
<1> QED
  BY <1>2, <1>8, <1>9 DEF Moves

\* on_enter of a composite.
LEMMA EnterMoves ==
  ASSUME Ready, Typed', NEW n \in Node,
         EnterFirst(n) \/ EnterShuffled(n) \/ EnterWeighted(n) \/ EnterParallel(n)
  PROVE  Moves
<1>1. /\ Typed /\ Fresh(n) /\ Visiting(n) /\ Step(n)
      /\ m_state' = OnEnter(n, "wait_child")
      /\ m_fronts \in Seq(Node)
  BY DEF Ready, EnterFirst, EnterShuffled, EnterWeighted, EnterParallel, Fresh, Typed, TypeOK
<1>2. m_pre_fronts' = Tail(m_pre_fronts) /\ UNCHANGED cur_root_node
  BY <1>1, StepOn
<1>3. Arity(n) \in Nat /\ visited \in SUBSET Node
  BY ArityType DEF Ready, Typed, TypeOK
<1>4. next_child_idx \in [Node -> Nat] /\ m_shuffle \in [Node -> Seq(Nat)]
  BY <1>1 DEF Typed, TypeOK
\* The sequential composites, that start child c.
<1>5. ASSUME NEW c \in ChildSet(n), Kind[n] # "parallel", NEW i, Reenter(n, i),
             m_fronts' = AddToFront(m_fronts, c),
             \A p \in Node \ {n} : m_shuffle'[p] = m_shuffle[p],
             Current(n)' = {c}
      PROVE  Moves
  <2>1. TakesTurn(n, {c})
    BY <1>1, <1>2, <1>5, ChildHasParent, TurnQueuesOne
  <2>2. Down(n, {c})
    BY <1>1, <1>5, <2>1, EnterDown
  <2> QED
    BY <1>1, <1>5, <2>1, <2>2, EnterAside, EnterRoot
<1>6. CASE EnterFirst(n)
  <2>1. /\ Kind[n] \notin {"parallel", "random_seq"} /\ 0 \in 0..(Arity(n) - 1)
        /\ Reenter(n, 0) /\ m_fronts' = AddToFront(m_fronts, Child(n, 0)) /\ m_shuffle' = m_shuffle
    BY <1>3, <1>6 DEF EnterFirst
  <2>2. next_child_idx'[n] = 0 /\ n \in visited'
    BY <1>4, <2>1 DEF Reenter
  <2>3. Current(n)' = {Child(n, 0)}
    BY <2>1, <2>2 DEF Current, Forwards, Cursor, Arity
  <2> QED
    BY <1>5, <2>1, <2>3, ChildAt
<1>7. CASE EnterShuffled(n)
  <2>1. PICK s \in [1..Arity(n) -> 0..(Arity(n) - 1)] :
          /\ m_shuffle' = [m_shuffle EXCEPT ![n] = s]
          /\ m_fronts' = AddToFront(m_fronts, Child(n, s[1]))
    BY <1>7 DEF EnterShuffled
  <2>2. Kind[n] = "random_seq" /\ Arity(n) > 0 /\ Reenter(n, 0)
    BY <1>7 DEF EnterShuffled
  <2>3. s[1] \in 0..(Arity(n) - 1) /\ s \in Seq(0..(Arity(n) - 1)) /\ Len(s) = Arity(n)
    BY <1>3, <2>2
  <2>4. next_child_idx'[n] = 0 /\ n \in visited' /\ m_shuffle'[n] = s
        /\ \A p \in Node \ {n} : m_shuffle'[p] = m_shuffle[p]
    BY <1>4, <2>1, <2>2 DEF Reenter
  <2>5. Cursor(n, next_child_idx[n])' = s[1]
    BY <2>2, <2>3, <2>4 DEF Cursor
  <2>6. Current(n)' = {Child(n, s[1])}
    BY <2>2, <2>3, <2>4, <2>5 DEF Current, Forwards, Arity
  <2> QED
    BY <1>5, <2>1, <2>2, <2>3, <2>4, <2>6, ChildAt
<1>8. CASE EnterWeighted(n)
  <2>1. PICK i \in 0..(Arity(n) - 1) : Reenter(n, i) /\ m_fronts' = AddToFront(m_fronts, Child(n, i))
    BY <1>8 DEF EnterWeighted
  <2>2. Kind[n] = "probility" /\ m_shuffle' = m_shuffle
    BY <1>8 DEF EnterWeighted
  <2>3. next_child_idx'[n] = i /\ n \in visited' /\ i < Arity(n)
    BY <1>3, <1>4, <2>1 DEF Reenter
  <2>4. Current(n)' = {Child(n, i)}
    BY <2>2, <2>3 DEF Current, Forwards, Cursor, Arity
  <2> QED
    BY <1>5, <2>1, <2>2, <2>4, ChildAt
<1>9. CASE EnterParallel(n)
  <2> DEFINE S == ChildSet(n)
  <2>1. PICK k \in 0..Arity(n) : \E t \in [1..k -> 1..Arity(n)] :
          /\ \A i, j \in 1..k : i < j => t[i] < t[j]
          /\ \A i \in 1..Arity(n) :
               (\E j \in 1..k : t[j] = i) <=> Children[n][i] \notin ToSet(m_fronts)
          /\ m_fronts' = m_fronts \o [j \in 1..k |-> Children[n][t[j]]]
    BY <1>9 DEF EnterParallel
  <2>2. PICK t \in [1..k -> 1..Arity(n)] :
          /\ \A i, j \in 1..k : i < j => t[i] < t[j]
          /\ \A i \in 1..Arity(n) :
               (\E j \in 1..k : t[j] = i) <=> Children[n][i] \notin ToSet(m_fronts)
          /\ m_fronts' = m_fronts \o [j \in 1..k |-> Children[n][t[j]]]
    BY <2>1
  <2> DEFINE s == [j \in 1..k |-> Children[n][t[j]]]
  <2>3. Kind[n] = "parallel" /\ Reenter(n, 0) /\ Arity(n) > 0 /\ m_shuffle' = m_shuffle
    BY <1>9 DEF EnterParallel
  <2>4. /\ Children[n] \in Seq(Node) /\ DOMAIN Children[n] = 1..Arity(n)
        /\ ChildSet(n) = {Children[n][i] : i \in 1..Arity(n)}
    <3>1. Children[n] \in Seq(Node) /\ DOMAIN Children[n] = 1..Arity(n)
      BY TreeAssumption DEF Loadable, Arity
    <3> QED
      BY <3>1 DEF ChildSet, ToSet
  <2>5. DOMAIN s = 1..k /\ k \in Nat
    BY <1>3
  <2>6. s \in Seq(Node) /\ IsInjective(s)
    BY <2>2, PickedDistinct
  <2>7. ToSet(s) \subseteq S
    BY <2>4, <2>5 DEF ToSet
  <2>8. S \subseteq ToSet(m_fronts) \cup ToSet(s)
    <3> SUFFICES ASSUME NEW i \in 1..Arity(n), Children[n][i] \notin ToSet(m_fronts)
                 PROVE  Children[n][i] \in ToSet(s)
      BY <2>4
    <3>1. PICK j \in 1..k : t[j] = i
      BY <2>2
    <3> QED
      BY <2>5, <3>1 DEF ToSet
  <2>9. n = Head(m_pre_fronts) /\ m_pre_fronts # <<>>
    BY <1>1 DEF Visiting
  <2> HIDE DEF s
  <2>10. m_fronts' = m_fronts \o s
    BY <2>2 DEF s
  <2>11. TakesTurn(n, S)
    BY <1>1, <1>2, <2>6, <2>7, <2>8, <2>9, <2>10, TurnAppends
  <2>12. S # {}
    <3>1. 1 \in 1..Arity(n)
      BY <1>3, <2>3
    <3> QED
      BY <2>4, <3>1
  <2>13. Current(n)' = S
    <3>1. n \in visited'
      BY <2>3 DEF Reenter
    <3> QED
      BY <2>3, <3>1 DEF Current, Forwards
  <2>14. Down(n, S)
    BY <1>1, <2>3, <2>11, <2>12, <2>13, EnterDown
  <2>15. n # cur_root_node
    <3>1. cur_root_node = n => Kind[n] = "root"
      BY <1>1, TreeAssumption DEF Typed, TypeOK, Rooted, Loadable
    <3> QED
      BY <2>3, <3>1
  <2> QED
    BY <1>1, <2>11, <2>14, <2>15, EnterAside
<1> QED
  BY <1>6, <1>7, <1>8, <1>9

\* on_enter of a leaf that blocks.
LEMMA BlockMoves ==
  ASSUME Ready, Typed', NEW n \in Node, EnterPending(n) \/ EnterWaitEvent(n)
  PROVE  Moves
<1>1. /\ Typed /\ Steady /\ Visiting(n) /\ Step(n) /\ m_state[n] = "init" /\ Sole(n)
      /\ m_state' = OnEnter(n, "blocking") /\ m_fronts' = AddToFront(m_fronts, n)
      /\ Reenter(n, 0) /\ m_shuffle' = m_shuffle /\ Kind[n] \in {"action", "wait_event"}
  BY DEF Ready, EnterPending, EnterWaitEvent, Fresh, Sole
<1>2. TakesTurn(n, {n})
  BY <1>1, StepOn, TurnQueuesOne
<1>3. /\ n \in Tokens /\ Queued \cap Strictly(n) = {} /\ n \notin Rest /\ OnPath(n)
  BY <1>1, <1>2, Turn
<1>4. \A c \in ChildSet(n) : c # n /\ c \in Node
  BY ChildBelow DEF Strictly, Below
<1>5. /\ m_state'[n] = "blocking"
      /\ \A c \in ChildSet(n) : m_state'[c] \in {m_state[c], "init"}
      /\ \A m \in Node \ ({n} \cup ChildSet(n)) : m_state'[m] = m_state[m]
  BY <1>1, <1>4 DEF OnEnter
<1>6. ASSUME NEW p \in Node \ {n} PROVE Current(p)' = Current(p)
  <2>1. next_child_idx'[p] = next_child_idx[p] /\ (p \in visited' <=> p \in visited)
    BY <1>1, <1>6 DEF Reenter, Typed, TypeOK
  <2> QED
    BY <1>1, <1>6, <2>1, CurrentStays
<1>7. Queued' = Queued
  BY <1>2 DEF TakesTurn
<1>8. /\ \A x : Follows(x, x)' => Follows(x, x)
      /\ \A p, x : Follows(x, p)' => Follows(x, p) \/ x = n
  BY <1>2, <1>3 DEF TakesTurn
<1>9. Blocks(n)
  BY <1>1, <1>3, <1>5, <1>6, <1>7, <1>8, StepOn DEF Blocks
<1>10. /\ cur_root_node \in Node /\ n # cur_root_node /\ Parent[cur_root_node] = NoNode
  BY <1>1, <1>3, LoadedNeighbours DEF OnPath, InLoaded
<1>11. cur_root_node \notin ChildSet(n)
  BY <1>10, ChildHasParent, TreeAssumption DEF Loadable
<1>12. m_state'[cur_root_node] = m_state[cur_root_node]
  BY <1>5, <1>10, <1>11
<1>13. RootAgain' /\ PassEnabled'
  BY <1>1, <1>2, <1>10, <1>12, StepOn, RootAside
<1> QED
  BY <1>9, <1>13 DEF Moves

\* A sequential composite that goes on with its next child.
LEMMA AdvanceMoves ==
  ASSUME Ready, Typed', NEW n \in Node, Advance(n)
  PROVE  Moves
<1> DEFINE i == NextIndex(n, next_child_idx[n], ChildResult(n))
           c == Child(n, Cursor(n, i))
<1>1. /\ Typed /\ Steady /\ Visiting(n) /\ Step(n) /\ m_state[n] = "awaken"
      /\ Sequential(n) /\ Kind[n] # "parallel" /\ Sole(n)
      /\ m_shuffle' = m_shuffle /\ visited' = visited
  BY DEF Ready, Advance, Awoken, Sequential, Sole
<1>2. /\ i < Arity(n)
      /\ next_child_idx' = [next_child_idx EXCEPT ![n] = i]
      /\ m_state' = [m_state EXCEPT ![n] = "wait_child", ![c] = "init"]
      /\ m_fronts' = AddToFront(m_fronts, c)
  BY DEF Advance
<1>3. i \in Nat
  BY <1>1 DEF NextIndex, Typed, TypeOK
<1> HIDE DEF i
<1>4. Cursor(n, i) \in 0..(Arity(n) - 1)
  <2>1. m_shuffle[n] \in Seq(0..(Arity(n) - 1)) /\ Arity(n) \in Nat
    BY <1>1, ArityType DEF Typed, TypeOK, Arity
  <2> QED
    BY <1>2, <1>3, <2>1 DEF Cursor
<1>5. c \in ChildSet(n) /\ c \in Node /\ c # n
  BY <1>4, ChildAt
<1>6. n \in visited
  BY <1>1 DEF Steady, Remembered, Current, Forwards
<1>7. Current(n)' = {c}
  <2>1. next_child_idx'[n] = i /\ Cursor(n, next_child_idx[n])' = Cursor(n, i)
    BY <1>1, <1>2 DEF Cursor, Typed, TypeOK
  <2>2. Cursor(n, i) < Arity(n)
    BY <1>4, ArityType
  <2> QED
    BY <1>1, <1>6, <2>1, <2>2 DEF Current, Forwards, Arity, c
<1> HIDE DEF c
<1>8. TakesTurn(n, {c})
  BY <1>1, <1>2, <1>5, StepOn, TurnQueuesOne
<1>9. n \in Tokens /\ OnPath(n) /\ Queued \cap Strictly(n) = {} /\ Requeues(n, {c})
  BY <1>1, <1>8, Turn
<1>10. /\ cur_root_node \in Node /\ n # cur_root_node /\ Parent[cur_root_node] = NoNode
  BY <1>1, <1>9, LoadedNeighbours DEF OnPath, InLoaded, Sequential
<1>11. n \notin Rest
  BY <1>1, <1>8, <1>10, Turn
<1>12. /\ m_state'[n] = "wait_child" /\ m_state'[c] = "init"
       /\ \A m \in Node \ {n, c} : m_state'[m] = m_state[m]
  BY <1>1, <1>2, <1>5 DEF Typed, TypeOK
<1>13. ASSUME NEW p \in Node \ {n} PROVE Current(p)' = Current(p)
  <2>1. next_child_idx'[p] = next_child_idx[p]
    BY <1>1, <1>2, <1>13 DEF Typed, TypeOK
  <2> QED
    BY <1>1, <1>13, <2>1, CurrentStays
<1>14. Down(n, {c})
  <2>1. n \notin Queued'
    BY <1>5, <1>8, <1>11 DEF TakesTurn
  <2>2. \A p, x : Follows(x, p)' => Follows(x, p) \/ x \in {c}
    BY <1>8 DEF TakesTurn
  <2>3. \A d \in ChildSet(n) : d # n /\ d \in Node
    BY ChildBelow DEF Strictly, Below
  <2>4. UNCHANGED cur_root_node
    BY <1>1, StepOn
  <2> QED
    BY <1>1, <1>5, <1>7, <1>9, <1>12, <1>13, <2>1, <2>2, <2>3, <2>4 DEF Down
<1>15. c # cur_root_node
  BY <1>5, <1>10, ChildHasParent, TreeAssumption DEF Loadable
<1>16. RootAgain' /\ PassEnabled'
  BY <1>1, <1>8, <1>10, <1>12, <1>15, StepOn, RootAside
<1> QED
  BY <1>5, <1>14, <1>16 DEF Moves

\* The root starts its tree again.  If a reset has queued it a second time, its
\* second visit finds it waiting and is dropped.
LEMMA RootMoves ==
  ASSUME Ready, Typed', NEW n \in Node, RevisitRoot(n)
  PROVE  Moves
<1> DEFINE c == Child(n, 0)
<1>1. /\ Typed /\ Steady /\ RootAgain /\ Visiting(n) /\ Step(n) /\ m_state[n] = "awaken"
      /\ Kind[n] = "root" /\ Parent[n] = NoNode /\ Sole(n)
      /\ m_state' = OnEnter(n, "wait_child") /\ m_fronts' = AddToFront(m_fronts, c)
      /\ Reenter(n, 0) /\ m_shuffle' = m_shuffle
      /\ m_pre_fronts # <<>> /\ Head(m_pre_fronts) = n
  BY DEF Ready, RevisitRoot, Awoken, Sole, Steady, Visiting
<1>2. 0 \in 0..(Arity(n) - 1)
  BY <1>1 DEF Typed, Awakened
<1>3. c \in ChildSet(n) /\ c \in Node /\ c # n
  BY <1>2, ChildAt
<1>4. Current(n)' = {c}
  <2>1. next_child_idx'[n] = 0 /\ n \in visited' /\ 0 < Arity(n)
    BY <1>1, <1>2, ArityType DEF Reenter, Typed, TypeOK
  <2> QED
    BY <1>1, <2>1 DEF Current, Forwards, Cursor, Arity
<1> HIDE DEF c
<1>5. TakesTurn(n, {c})
  BY <1>1, <1>3, StepOn, TurnQueuesOne
<1>6. n \in Tokens /\ OnPath(n) /\ Queued \cap Strictly(n) = {} /\ Requeues(n, {c})
  BY <1>1, <1>5, Turn
<1>7. n = cur_root_node
  <2>1. Lineage[n] = {n}
    BY <1>1, TreeAssumption DEF Created
  <2> QED
    BY <1>6, <2>1 DEF OnPath
<1>8. /\ m_pre_fronts' = Tail(m_pre_fronts)
      /\ UNCHANGED <<cur_root_node, reset_flag, pc, m_enabled>>
  BY <1>1, StepOn
<1>9. /\ m_state'[n] = "wait_child" /\ m_state'[c] = "init"
      /\ \A d \in ChildSet(n) : m_state'[d] \in {m_state[d], "init"}
      /\ \A m \in Node \ ({n} \cup ChildSet(n)) : m_state'[m] = m_state[m]
  <2>1. \A d \in ChildSet(n) : d # n /\ d \in Node
    BY ChildBelow DEF Strictly, Below
  <2> QED
    BY <1>1, <1>3, <2>1 DEF OnEnter
<1>10. ASSUME NEW p \in Node \ {n} PROVE Current(p)' = Current(p)
  <2>1. next_child_idx'[p] = next_child_idx[p] /\ (p \in visited' <=> p \in visited)
    BY <1>1, <1>10 DEF Reenter, Typed, TypeOK
  <2> QED
    BY <1>1, <1>10, <2>1, CurrentStays
<1>11. Down(n, {c})
  <2>1. \A p, x : Follows(x, p)' => Follows(x, p) \/ x \in {c}
    BY <1>5 DEF TakesTurn
  <2> QED
    BY <1>1, <1>3, <1>4, <1>6, <1>7, <1>8, <1>9, <1>10, <2>1 DEF Down
<1>12. ASSUME n \in Rest
       PROVE  m_fronts' = <<n, c>> /\ m_pre_fronts' = <<>>
  <2>1. Follows(n, n)
    BY <1>5, <1>12 DEF TakesTurn
  <2>2. m_pre_fronts = <<n>> /\ m_fronts = <<n>>
    BY <1>1, <1>7, <2>1 DEF RootAgain
  <2>3. m_fronts' = <<n, c>>
    BY <1>1, <1>3, <2>2, TwoQueued
  <2> QED
    BY <1>8, <2>2, <2>3
<1>13. n \in Queued' => n \in Rest
  BY <1>3, <1>5 DEF TakesTurn
<1>14. ~Follows(n, n)'
  <2> SUFFICES ASSUME Follows(n, n)' PROVE FALSE
    OBVIOUS
  <2>1. n \in Queued'
    BY SortedNext
  <2>2. m_fronts' = <<n, c>> /\ m_pre_fronts' = <<>>
    BY <1>12, <1>13, <2>1
  <2>3. Work' = <<n, c>>
    BY <1>3, <2>2 DEF Work
  <2> QED
    BY <1>3, <2>3 DEF Follows, Before
<1>15. ~reset_flag
  BY <1>1, <1>7 DEF RootAgain
<1>16. RootAgain'
  <2>1. ASSUME n \in Queued' PROVE Work' = <<n, c>> /\ m_pre_fronts' = <<>>
    <3>1. m_fronts' = <<n, c>> /\ m_pre_fronts' = <<>>
      BY <1>12, <1>13, <2>1
    <3> QED
      BY <1>3, <3>1 DEF Work
  <2> QED
    BY <1>3, <1>7, <1>8, <1>9, <1>14, <1>15, <2>1 DEF RootAgain
<1>17. PassEnabled'
  BY <1>1, <1>8 DEF Steady, PassEnabled
<1> QED
  BY <1>3, <1>11, <1>16, <1>17 DEF Moves

\* A visit that changes no state: a blocking node is queued again, a stale one
\* is not.
LEMMA StaleMoves ==
  ASSUME Ready, Typed', NEW n \in Node, Requeue(n) \/ Drop(n)
  PROVE  Moves
<1> DEFINE Z == IF m_state[n] = "blocking" THEN {n} ELSE {}
           r == cur_root_node
<1>1. /\ Typed /\ Steady /\ RootAgain /\ Visiting(n) /\ m_state[n] \notin {"init", "awaken"}
      /\ m_pre_fronts' = Tail(m_pre_fronts) /\ m_pre_fronts # <<>>
      /\ UNCHANGED <<cur_root_node, reset_flag, pc, m_enabled>>
      /\ UNCHANGED <<m_state, next_child_idx, m_shuffle, visited>>
  BY DEF Ready, Requeue, Drop, nodeVars, flagVars, pollVars, Visiting, Steady
<1>2. TakesTurn(n, Z)
  <2>1. CASE Requeue(n)
    BY <1>1, <2>1, TurnQueuesOne DEF Requeue
  <2>2. CASE Drop(n)
    BY <1>1, <2>2, TurnQueuesNone DEF Drop
  <2> QED
    BY <2>1, <2>2
<1>3. \A p \in Node : Current(p)' = Current(p)
  BY <1>1, CurrentStays
<1>4. Quiet
  <2>1. Tokens \subseteq Queued' /\ Queued' \subseteq Queued
    BY <1>1, <1>2 DEF TakesTurn, Tokens
  <2>2. Z \subseteq Tokens
    BY <1>2 DEF TakesTurn, Tokens
  <2> HIDE DEF Z
  <2>3. \A x \in Rest \cap Z : Follows(x, x)
    BY <1>2 DEF TakesTurn, Z
  <2>4. /\ \A p, x : Follows(x, p)' => Follows(x, p) \/ x \in Tokens
        /\ \A x : Follows(x, x)' => Follows(x, x)
    BY <1>2, <2>2, <2>3 DEF TakesTurn
  <2> QED
    BY <1>1, <1>3, <2>1, <2>4 DEF Quiet
<1>5. CASE n # r
  <2>1. r \notin Z
    BY <1>5
  <2> HIDE DEF Z
  <2>2. RootAgain' /\ PassEnabled'
    BY <1>1, <1>2, <1>5, <2>1, RootAside
  <2> QED
    BY <1>4, <2>2 DEF Moves
<1>6. CASE n = r
  <2>1. ~Follows(r, r)
    BY <1>1, <1>6 DEF RootAgain
  <2>2. r \notin Rest
    BY <1>2, <1>6, <2>1 DEF TakesTurn
  <2>3. ~Follows(r, r)'
    <3>1. \A x : Follows(x, x)' => Follows(x, x) \/ x \in Rest
      BY <1>2 DEF TakesTurn
    <3> QED
      BY <1>1, <2>1, <2>2, <3>1
  <2>4. m_state[r] = "wait_child" => r \notin Queued'
    BY <1>2, <2>2 DEF TakesTurn
  <2>5. ~reset_flag
    BY <1>1, <1>6 DEF RootAgain
  <2>6. m_state[r] # "dead"
    BY <1>1 DEF RootAgain
  <2>7. RootAgain' /\ PassEnabled'
    BY <1>1, <2>3, <2>4, <2>5, <2>6 DEF RootAgain, Steady, PassEnabled
  <2> QED
    BY <1>4, <2>7 DEF Moves
<1> QED
  BY <1>5, <1>6

\* What the root's children find when they return: the root waits, and if it is
\* queued the rest of the work list is known.
LEMMA RootWaits ==
  ASSUME Ready, NEW n \in Node, n \in Tokens, n # cur_root_node, Parent[n] = cur_root_node
  PROVE  /\ m_state[cur_root_node] = "wait_child"
         /\ cur_root_node \in Queued /\ (m_pre_fronts # <<>> => Head(m_pre_fronts) # cur_root_node) =>
              /\ m_state[n] = "init"
              /\ Work \in {<<n, cur_root_node>>, <<cur_root_node, n>>}
              /\ m_pre_fronts = <<>> \/ m_fronts = <<>>
<1> DEFINE r == cur_root_node
<1>1. Typed /\ OnPath(n) /\ RootAgain /\ n \in Queued
  BY DEF Ready, Steady, OnPaths, Tokens
<1>2. r \in Node /\ Kind[r] = "root" /\ Parent[n] # NoNode
  BY <1>1, LoadedNeighbours, TreeAssumption DEF OnPath, InLoaded, Loadable
<1>3. Waiting(r)
  BY <1>1, <1>2, PathToParent
<1>4. m_state[r] = "wait_child"
  BY <1>2, <1>3 DEF Waiting
<1>5. ASSUME r \in Queued, m_pre_fronts # <<>> => Head(m_pre_fronts) # r
      PROVE  /\ m_state[n] = "init" /\ Work \in {<<n, r>>, <<r, n>>}
             /\ m_pre_fronts = <<>> \/ m_fronts = <<>>
  <2>1. PICK c \in ChildSet(r) : /\ m_state[c] = "init" /\ Work \in {<<c, r>>, <<r, c>>}
                                 /\ m_pre_fronts = <<>> \/ m_fronts = <<>>
    BY <1>1, <1>4, <1>5 DEF RootAgain
  <2>2. n \in ToSet(Work)
    BY <1>1, WorkType
  <2>3. ToSet(<<c, r>>) = {c, r} /\ ToSet(<<r, c>>) = {c, r}
    BY DEF ToSet
  <2> QED
    BY <2>1, <2>2, <2>3
<1> QED
  BY <1>4, <1>5

\* A visited node that returns.
LEMMA ReturnUp ==
  ASSUME Ready, Typed', NEW n \in Node, Visiting(n), Step(n),
         m_state[n] \in {"init", "awaken"},
         ~(Kind[n] = "root" /\ Parent[n] = NoNode),
         m_fronts' = AddToFront(m_fronts, Parent[n]),
         m_state'[n] = "dead", m_state'[Parent[n]] = "awaken",
         \A m \in Node \ {n, Parent[n]} :
           m_state'[m] = m_state[m] \/ (m \in Strictly(n) /\ m_state'[m] = "dead"),
         \A t \in Tokens \cap Strictly(n) : m_state'[t] = "dead",
         \A m \in Node : m_state'[m] # "dead" => Current(m)' = Current(m)
  PROVE  Moves
<1> DEFINE r == cur_root_node
           p == Parent[n]
<1>1. /\ Typed /\ Steady /\ RootAgain /\ m_enabled /\ pc = "fronts"
      /\ m_pre_fronts # <<>> /\ Head(m_pre_fronts) = n /\ Work # <<>> /\ Head(Work) = n
  BY WorkParts DEF Ready, Steady, Visiting, PassEnabled
<1>2. p \in Node /\ p # NoNode
  BY HasParent, TreeAssumption DEF Loadable
<1>3. TakesTurn(n, {p})
  BY <1>1, <1>2, StepOn, TurnQueuesOne
<1>4. n \in Tokens /\ OnPath(n) /\ Requeues(n, {p}) /\ Rest \subseteq Queued
  BY <1>1, <1>3, Turn
<1>5. /\ r \in Node /\ n # r /\ Parent[r] = NoNode /\ Lineage[r] = {r}
  BY <1>1, <1>4, LoadedNeighbours, TreeAssumption DEF OnPath, InLoaded, Created
<1>6. /\ m_pre_fronts' = Tail(m_pre_fronts)
      /\ UNCHANGED <<cur_root_node, reset_flag, pc, m_enabled>>
  BY <1>1, StepOn
\* If the root is queued, it is behind n and there is nothing else.
<1>7. ASSUME p = r, r \in Queued
      PROVE  m_pre_fronts = <<n, r>> /\ m_fronts = <<>>
  <2>1. Work \in {<<n, r>>, <<r, n>>} /\ (m_pre_fronts = <<>> \/ m_fronts = <<>>)
    BY <1>1, <1>4, <1>5, <1>7, RootWaits
  <2>2. Head(<<r, n>>) = r /\ m_fronts = <<>>
    BY <1>1, <2>1
  <2> QED
    BY <1>1, <1>5, <2>1, <2>2, WorkParts
<1>8. ASSUME p = r, r \in Queued
      PROVE  m_pre_fronts' = <<r>> /\ m_fronts' = <<r>> /\ Queued' = {r}
  <2>1. m_pre_fronts = <<n, r>> /\ m_fronts = <<>>
    BY <1>7, <1>8
  <2>2. m_pre_fronts' = <<r>> /\ ToSet(<<>>) = {} /\ ToSet(<<r>>) = {r}
    BY <1>6, <2>1 DEF ToSet
  <2>3. m_fronts' = <<r>>
    BY <1>8, <2>1, <2>2 DEF AddToFront
  <2> QED
    BY <2>2, <2>3 DEF Queued
<1>9. Up(n)
  <2>1. p \in Queued /\ m_state[p] = "wait_child" => Queued' = {p}
    BY <1>1, <1>2, <1>8 DEF Steady, QueuedOnce
  <2>2. \A a, x : Follows(x, a)' => Follows(x, a) \/ x = p
    BY <1>3 DEF TakesTurn
  <2> QED
    BY <1>2, <1>4, <1>6, <2>1, <2>2 DEF Up
<1>10. CASE p # r
  <2>1. r \notin Strictly(n)
    BY <1>5 DEF Strictly, Below
  <2>2. m_state'[r] = m_state[r]
    BY <1>5, <1>10, <2>1
  <2>3. r \notin {p}
    BY <1>10
  <2>4. RootAgain' /\ PassEnabled'
    BY <1>3, <1>5, <1>6, <2>2, <2>3, RootAside
  <2> QED
    BY <1>9, <2>4 DEF Moves
<1>11. CASE p = r
  <2>1. ~reset_flag /\ ~Follows(r, r)
    <3>1. Head(<<r>>) = r
      OBVIOUS
    <3> QED
      BY <1>1, <1>5, <3>1 DEF RootAgain
  <2>2. Follows(r, r)' => r \in Rest
    <3>1. \A x : Follows(x, x)' => Follows(x, x) \/ x \in Rest
      BY <1>3 DEF TakesTurn
    <3> QED
      BY <1>6, <2>1, <3>1
  <2>3. r \in Rest => m_pre_fronts' = <<r>> /\ m_fronts' = <<r>>
    BY <1>4, <1>8, <1>11
  <2>4. RootAgain'
    BY <1>6, <1>11, <2>1, <2>2, <2>3 DEF RootAgain
  <2> QED
    BY <1>1, <1>6, <1>9, <2>4 DEF Moves, PassEnabled
<1> QED
  BY <1>10, <1>11

\* A synchronous action, and a sequential composite that is finished.
LEMMA ReturnMoves ==
  ASSUME Ready, Typed', NEW n \in Node, EnterAction(n) \/ Return(n)
  PROVE  Moves
<1>1. /\ Typed /\ Steady /\ Visiting(n) /\ Step(n) /\ m_state[n] \in {"init", "awaken"}
      /\ Sole(n) /\ ~(Kind[n] = "root" /\ Parent[n] = NoNode)
      /\ m_fronts' = AddToFront(m_fronts, Parent[n])
      /\ m_state' = [m_state EXCEPT ![n] = "dead", ![Parent[n]] = "awaken"]
      /\ m_shuffle' = m_shuffle
      /\ visited' = visited \cup {n} \/ visited' = visited
      /\ \E i : next_child_idx' = [next_child_idx EXCEPT ![n] = i]
  BY DEF Ready, EnterAction, Return, SetResult, Fresh, Awoken, Sequential, Sole, Reenter
<1>2. Parent[n] \in Node /\ Parent[n] # n
  BY <1>1, HasParent, ParentHasChild, ChildBelow, TreeAssumption DEF Strictly, Loadable
<1>3. TakesTurn(n, {Parent[n]})
  BY <1>1, <1>2, StepOn, TurnQueuesOne DEF Ready
<1>4. Queued \cap Strictly(n) = {}
  BY <1>1, <1>3, Turn
<1>5. /\ m_state'[n] = "dead" /\ m_state'[Parent[n]] = "awaken"
      /\ \A m \in Node \ {n, Parent[n]} : m_state'[m] = m_state[m]
  BY <1>1, <1>2 DEF Typed, TypeOK
<1>6. ASSUME NEW m \in Node, m_state'[m] # "dead" PROVE Current(m)' = Current(m)
  <2>1. m # n
    BY <1>5, <1>6
  <2>2. next_child_idx'[m] = next_child_idx[m] /\ (m \in visited' <=> m \in visited)
    BY <1>1, <2>1 DEF Typed, TypeOK
  <2> QED
    BY <1>1, <2>2, CurrentStays
<1> QED
  BY <1>1, <1>4, <1>5, <1>6, ReturnUp DEF Tokens

\* Interrupting the children of a node that a child has woken up reaches every
\* token below it.
LEMMA ReachesTokens ==
  ASSUME Ready, NEW n \in Node, NEW t \in Tokens \cap Strictly(n)
  PROVE  t \in Interrupted(m_state, next_child_idx, ChildSet(n))
<1>1. OnPath(t) /\ t \in Node /\ m_state[t] # "dead"
  BY InBelow DEF Ready, Steady, OnPaths, Tokens
<1>2. PICK c \in ChildSet(n) : t \in Below(c) /\ c \in Node /\ c \in Lineage[t] /\ Parent[c] = n
  BY BranchOf
<1>3. ASSUME NEW a \in (Lineage[t] \ Lineage[c]) \cup {c}
      PROVE  m_state[a] # "dead" /\ (a = c \/ a \in Forwards(next_child_idx, Parent[a]))
  <2>1. a \in Node /\ a \in Lineage[t]
    BY <1>1, <1>2, <1>3, InLineage
  <2>2. m_state[a] # "dead"
    <3>1. CASE a = t
      BY <1>1, <3>1
    <3>2. CASE a # t
      <4>1. t \in Strictly(a)
        BY <1>1, <2>1, <3>2, InBelow
      <4> QED
        BY <1>1, <2>1, <4>1, NoneBelow
    <3> QED
      BY <3>1, <3>2
  <2>3. a = c \/ a \in Forwards(next_child_idx, Parent[a])
    <3> SUFFICES ASSUME a # c, a \notin Lineage[c]
                 PROVE  a \in Forwards(next_child_idx, Parent[a])
      BY <1>3
    <3>1. c \in Lineage[a]
      BY <1>1, <1>2, <2>1, LineageChain
    <3>2. Parent[a] # NoNode
      BY <2>1, <3>1, TreeAssumption DEF Created
    <3> QED
      BY <1>1, <2>1, <3>2 DEF OnPath, Edge, Current
  <2> QED
    BY <2>2, <2>3
<1> QED
  BY <1>1, <1>2, <1>3 DEF Interrupted

\* A parallel that a child has woken up.
LEMMA ParallelMoves ==
  ASSUME Ready, Typed', intact', NEW n \in Node, RevisitParallel(n)
  PROVE  Moves
<1> DEFINE hit == Interrupted(m_state, next_child_idx, ChildSet(n))
           p == Parent[n]
<1>1. /\ Typed /\ Visiting(n) /\ Step(n) /\ m_state[n] = "awaken" /\ Kind[n] = "parallel"
      /\ m_state' = [Kill(m_state, hit) EXCEPT ![n] = "dead", ![p] = "awaken"]
      /\ m_fronts' = AddToFront(m_fronts, p)
      /\ next_child_idx' = Rewind(next_child_idx, hit)
      /\ UNCHANGED <<m_shuffle, visited>>
  BY DEF Ready, RevisitParallel, Awoken, Crash
<1>2. p \in Node /\ p # n /\ n \in Strictly(p)
  BY <1>1, HasParent, ParentHasChild, ChildBelow, TreeAssumption DEF Strictly, Loadable
<1>3. hit \subseteq Strictly(n)
  <2> SUFFICES ASSUME NEW m \in hit PROVE m \in Strictly(n)
    OBVIOUS
  <2>1. m \in Node /\ \E c \in ChildSet(n) : c \in Lineage[m]
    BY DEF Interrupted
  <2> QED
    BY <2>1, InBelow, ChildBelow
<1>4. \A t \in Tokens \cap Strictly(n) : t \in hit
  BY ReachesTokens
<1>5. p \notin Strictly(n)
  BY <1>2, InBelow, LineageAntisymmetric
<1> HIDE DEF hit
<1>6. n \notin hit /\ p \notin hit
  BY <1>3, <1>5 DEF Strictly
<1>7. /\ m_state'[n] = "dead" /\ m_state'[p] = "awaken"
      /\ \A m \in Node \ {n, p} : m_state'[m] = IF m \in hit THEN "dead" ELSE m_state[m]
  BY <1>1, <1>2 DEF Kill
<1>8. ASSUME NEW m \in Node, m_state'[m] # "dead" PROVE Current(m)' = Current(m)
  <2>1. m \notin hit
    BY <1>6, <1>7, <1>8
  <2>2. next_child_idx'[m] = next_child_idx[m]
    BY <1>1, <2>1 DEF Rewind
  <2> QED
    BY <1>1, <2>2, CurrentStays
<1>9. \A t \in Tokens \cap Strictly(n) : m_state'[t] = "dead"
  BY <1>3, <1>4, <1>5, <1>6, <1>7 DEF Strictly, Below
<1> QED
  BY <1>1, <1>3, <1>7, <1>8, <1>9, ReturnUp

----------------------------------------------------------------------------
(* What an intact agent does outside of a visit is a move, too.            *)

\* A queue without duplicates has no node before itself.
LEMMA OnlyOnce ==
  ASSUME NEW q \in Seq(Node), IsInjective(q), NEW x
  PROVE  ~Before(q, x, x)
<1>1. DOMAIN q = 1..Len(q) /\ Len(q) \in Nat
  OBVIOUS
<1>2. \A i, j \in 1..Len(q) : i < j => q[i] # q[j]
  BY <1>1 DEF IsInjective
<1> QED
  BY <1>1, <1>2 DEF Before

\* Outside of a pass the work list is m_fronts, before a step and after it.
LEMMA WorkIsFronts ==
  ASSUME Typed, Typed', m_pre_fronts = <<>>, m_pre_fronts' = <<>>
  PROVE  /\ Work = m_fronts /\ Work' = m_fronts'
         /\ Queued = ToSet(m_fronts) /\ Queued' = ToSet(m_fronts')
         /\ m_fronts \in Seq(Node) /\ m_fronts' \in Seq(Node)
<1>1. m_fronts \in Seq(Node) /\ m_fronts' \in Seq(Node)
  BY DEF Typed, TypeOK
<1>2. Work = m_fronts /\ Work' = m_fronts'
  BY <1>1, ConcatEmptySeq DEF Work
<1>3. ToSet(<<>>) = {}
  BY DEF ToSet
<1> QED
  BY <1>1, <1>2, <1>3 DEF Queued

\* A token that returns because of an event or of the owner of an action.
LEMMA OutsideUp ==
  ASSUME Ready, Typed', NEW n \in Node, n \in Tokens,
         Sole(n) \/ m_state[n] = "blocking",
         ~(Kind[n] = "root" /\ Parent[n] = NoNode),
         UNCHANGED <<cur_root_node, reset_flag, next_child_idx, m_shuffle, visited>>,
         m_pre_fronts = <<>>, pc # "fronts",
         m_state' = [m_state EXCEPT ![n] = "dead", ![Parent[n]] = "awaken"],
         Queued \ {n} \subseteq Queued', Parent[n] \in Queued', Queued' \subseteq Queued \cup {Parent[n]},
         m_state[n] = "init" => n \notin Queued',
         ~Follows(n, n), \A x : ~Follows(x, x)',
         \A a, x : Follows(x, a)' =>
           \/ Follows(x, a)
           \/ x = Parent[n]
           \/ a = Parent[n] /\ Follows(x, n),
         PassEnabled'
  PROVE  Moves
<1> DEFINE r == cur_root_node
           p == Parent[n]
<1>1. Typed /\ Steady /\ RootAgain /\ OnPath(n) /\ n \in Queued
  BY DEF Ready, Steady, OnPaths, Tokens
<1>2. p \in Node /\ p # NoNode /\ p # n
  BY HasParent, ParentHasChild, ChildBelow, TreeAssumption DEF Strictly, Loadable
<1>3. r \in Node /\ n # r
  BY <1>1, LoadedNeighbours DEF OnPath, InLoaded
<1>4. /\ m_state'[n] = "dead" /\ m_state'[p] = "awaken"
      /\ \A m \in Node \ {n, p} : m_state'[m] = m_state[m]
  BY <1>1, <1>2 DEF Typed, TypeOK
<1>5. \A m \in Node : Current(m)' = Current(m)
  BY CurrentStays
<1>6. \A t \in Tokens \cap Strictly(n) : FALSE
  BY <1>1, NoneBelow DEF Steady, OnPaths
<1>7. ASSUME NEW x, Follows(x, n) PROVE x \notin Below(n)
  <2>1. x \in Queued /\ x # n
    BY <1>1, <1>7, WorkType
  <2>2. x \notin Strictly(n)
    BY <1>1, <1>7, <2>1 DEF Steady, StaleFirst, StaleWithin
  <2> QED
    BY <2>1, <2>2 DEF Strictly
<1>8. ASSUME r \in Queued, m_state[r] = "wait_child"
      PROVE  p = r /\ m_state[n] = "init" /\ Queued = {n, r}
  <2>1. PICK c \in ChildSet(r) : m_state[c] = "init" /\ Work \in {<<c, r>>, <<r, c>>}
    BY <1>1, <1>8 DEF RootAgain
  <2>2. ToSet(<<c, r>>) = {c, r} /\ ToSet(<<r, c>>) = {c, r}
    BY DEF ToSet
  <2>3. Queued = {c, r}
    BY <1>1, <2>1, <2>2, WorkType
  <2>4. n = c /\ Parent[c] = r
    BY <1>1, <1>3, <2>3, ChildHasParent
  <2> QED
    BY <2>1, <2>3, <2>4
<1>9. p \in Queued /\ m_state[p] = "wait_child" => Queued' = {p}
  <2> SUFFICES ASSUME p \in Queued, m_state[p] = "wait_child" PROVE Queued' = {p}
    OBVIOUS
  <2>1. p = r
    BY <1>1, <1>2 DEF Steady, QueuedOnce
  <2> QED
    BY <1>8, <2>1
<1>10. Up(n)
  BY <1>2, <1>4, <1>5, <1>6, <1>7, <1>9 DEF Up, Requeues
<1>11. ~reset_flag
  <2>1. ToSet(<<r>>) = {r}
    BY DEF ToSet
  <2>2. Work # <<r>>
    BY <1>1, <1>3, <2>1, WorkType
  <2> QED
    BY <1>1, <2>2 DEF RootAgain
<1>12. RootAgain'
  <2>1. m_state'[r] # "dead"
    BY <1>1, <1>3, <1>4 DEF RootAgain
  <2>2. ~(r \in Queued' /\ m_state'[r] = "wait_child")
    BY <1>3, <1>4, <1>8
  <2> QED
    BY <1>11, <2>1, <2>2 DEF RootAgain
<1> QED
  BY <1>10, <1>12 DEF Moves

\* An event that makes a wait_event return,
LEMMA EventMoves ==
  ASSUME Ready, Typed', FrontsDistinct, FrontsDistinct', HandleEvent
  PROVE  Moves
<1>1. /\ Typed /\ Steady /\ m_pre_fronts = <<>> /\ m_pre_fronts' = <<>> /\ pc = "events"
      /\ UNCHANGED <<cur_root_node, reset_flag, next_child_idx, m_shuffle, visited, pc, m_enabled>>
  BY DEF Ready, HandleEvent, Processing, InTree, flagVars, pollVars
<1>2. PICK k \in DOMAIN m_fronts :
        /\ First(k, Head(m_events)) /\ m_state[m_fronts[k]] # "dead"
        /\ m_state' = [m_state EXCEPT ![m_fronts[k]] = "dead", ![Parent[m_fronts[k]]] = "awaken"]
        /\ m_fronts' = Replaced(m_fronts, k, Parent[m_fronts[k]])
  BY DEF HandleEvent
<1>3. /\ Work = m_fronts /\ Work' = m_fronts' /\ Queued = ToSet(m_fronts)
      /\ Queued' = ToSet(m_fronts') /\ m_fronts \in Seq(Node) /\ m_fronts' \in Seq(Node)
  BY <1>1, WorkIsFronts
<1>4. PICK n : n = m_fronts[k]
  OBVIOUS
<1>5. n \in Queued /\ Kind[n] = "wait_event" /\ m_state[n] # "dead"
  BY <1>2, <1>3, <1>4 DEF First, Listeners, Listens, ToSet
<1>6. n \in Node /\ n # cur_root_node /\ Parent[n] \in Node /\ Parent[n] # n
  <2>1. InLoaded(n)
    BY <1>5, QueuedLoaded DEF Ready
  <2>2. n \in Node /\ n # cur_root_node
    BY <1>1, <1>5, <2>1, LoadedNeighbours
  <2> QED
    BY <1>5, <2>2, HasParent, ParentHasChild, ChildBelow, TreeAssumption DEF Strictly, Loadable
<1>7. n \in Tokens /\ (Sole(n) \/ m_state[n] = "blocking")
  <2>1. m_state[n] \in States
    BY <1>1, <1>6 DEF Typed, TypeOK
  <2>2. m_state[n] \notin {"entering", "revisiting", "wait_child"}
    BY <1>1, <1>5, <1>6 DEF Steady, Remembered, QueuedOnce
  <2> QED
    BY <1>5, <2>1, <2>2 DEF Tokens, Sole, States
<1>8. /\ Queued' = (Queued \ {n}) \cup {Parent[n]}
      /\ \A a, x : Before(m_fronts', a, x) =>
           Before(m_fronts, a, x) \/ x = Parent[n] \/ (a = Parent[n] /\ Before(m_fronts, n, x))
  BY <1>2, <1>3, <1>6, <1>4, ReplacedOrder DEF FrontsDistinct
<1>9. \A a, x : Follows(x, a)' <=> Before(m_fronts', a, x)
  BY <1>3 DEF Follows, Before
<1>10. \A a, x : Follows(x, a) <=> Before(m_fronts, a, x)
  BY <1>3 DEF Follows
<1>11. ~Follows(n, n) /\ \A x : ~Follows(x, x)'
  BY <1>3, <1>9, <1>10, OnlyOnce DEF FrontsDistinct
<1>12. PassEnabled'
  BY <1>1 DEF Steady, PassEnabled
<1>13. m_state' = [m_state EXCEPT ![n] = "dead", ![Parent[n]] = "awaken"]
  BY <1>2, <1>4
<1>14. \A a, x : Follows(x, a)' =>
         Follows(x, a) \/ x = Parent[n] \/ (a = Parent[n] /\ Follows(x, n))
  BY <1>8, <1>9, <1>10
<1>15. /\ Queued \ {n} \subseteq Queued' /\ Parent[n] \in Queued' /\ n \notin Queued'
       /\ Queued' \subseteq Queued \cup {Parent[n]}
  BY <1>6, <1>8
<1>16. pc # "fronts" /\ ~(Kind[n] = "root" /\ Parent[n] = NoNode)
  BY <1>1, <1>5
<1> QED
  BY <1>1, <1>6, <1>7, <1>11, <1>12, <1>13, <1>14, <1>15, <1>16, OutsideUp

\* and the owner of an asynchronous action that reports its result.
LEMMA CompleteMoves ==
  ASSUME Ready, Typed', FrontsDistinct, FrontsDistinct', NEW n \in Node, NEW r, Complete(n, r)
  PROVE  Moves
<1>1. /\ Typed /\ Steady /\ m_pre_fronts = <<>> /\ m_pre_fronts' = <<>> /\ pc = "idle"
      /\ UNCHANGED <<cur_root_node, reset_flag, next_child_idx, m_shuffle, visited>>
      /\ m_state[n] = "blocking" /\ Kind[n] = "action" /\ pc' \in {"idle", "loop"}
      /\ m_state' = [m_state EXCEPT ![n] = "dead", ![Parent[n]] = "awaken"]
      /\ m_fronts' = AddToFront(m_fronts, Parent[n])
  BY DEF Ready, Complete, InTree, SetResult, Poll
<1>2. /\ Work = m_fronts /\ Work' = m_fronts' /\ Queued = ToSet(m_fronts)
      /\ Queued' = ToSet(m_fronts') /\ m_fronts \in Seq(Node) /\ m_fronts' \in Seq(Node)
  BY <1>1, WorkIsFronts
<1>3. n \in Tokens
  BY <1>1 DEF Steady, Remembered, Tokens
<1>4. Parent[n] \in Node
  BY <1>1, HasParent
<1>5. Queued' = Queued \cup {Parent[n]}
  BY <1>1, <1>2, <1>4, AddToFrontMembers
<1>6. PICK s \in Seq(Node) : /\ m_fronts' = m_fronts \o s /\ IsInjective(s)
                             /\ ToSet(s) \subseteq {Parent[n]}
  BY <1>1, <1>2, <1>4, AddToFrontAppends
<1>7. \A a, x : Before(m_fronts', a, x) => Before(m_fronts, a, x) \/ x = Parent[n]
  BY <1>2, <1>6, ConcatOrder
<1>8. \A a, x : Follows(x, a)' <=> Before(m_fronts', a, x)
  BY <1>2 DEF Follows, Before
<1>9. \A a, x : Follows(x, a) <=> Before(m_fronts, a, x)
  BY <1>2 DEF Follows
<1>10. ~Follows(n, n) /\ \A x : ~Follows(x, x)'
  BY <1>2, <1>8, <1>9, OnlyOnce DEF FrontsDistinct
<1>11. PassEnabled'
  BY <1>1 DEF PassEnabled
<1> QED
  BY <1>1, <1>3, <1>4, <1>5, <1>7, <1>8, <1>9, <1>10, <1>11, OutsideUp

\* A step that leaves the nodes and the work list as they are moves no token.
LEMMA SameWork ==
  ASSUME Typed, UNCHANGED <<cur_root_node, m_state, next_child_idx, m_shuffle, visited>>,
         Work' = Work, Queued' = Queued
  PROVE  Quiet /\ \A p, x : Follows(x, p)' <=> Follows(x, p)
<1>1. \A p \in Node : Current(p)' = Current(p)
  BY CurrentStays
<1>2. \A p, x : Follows(x, p)' <=> Follows(x, p)
  BY DEF Follows, Before
<1> QED
  BY <1>1, <1>2 DEF Quiet, Tokens

\* Outside of a visit most steps of poll and calls of the application are such.
LEMMA IdleMoves ==
  ASSUME Ready,
         UNCHANGED <<cur_root_node, m_fronts, m_pre_fronts, reset_flag,
                     m_state, next_child_idx, m_shuffle, visited>>,
         pc' = pc \/ (pc' # "fronts" /\ (pc # "fronts" \/ ~reset_flag)),
         PassEnabled'
  PROVE  Moves
<1>1. Typed /\ RootAgain
  BY DEF Ready, Steady
<1>2. Work' = Work /\ Queued' = Queued
  BY DEF Work, Queued
<1>3. Quiet /\ \A p, x : Follows(x, p)' <=> Follows(x, p)
  BY <1>1, <1>2, SameWork
<1>4. RootAgain'
  BY <1>1, <1>2, <1>3 DEF RootAgain
<1> QED
  BY <1>3, <1>4 DEF Moves

\* They are these.
LEMMA CallMoves ==
  ASSUME Ready,
         \/ \E e \in Event : DispatchEvent(e)
         \/ PollCall \/ Enable \/ PollDisabled \/ PollRound \/ IgnoreEvent
         \/ PollAgain \/ PollDone \/ UNCHANGED vars
  PROVE  Moves
<1> USE DEF queueVars, nodeVars, pollVars, flagVars
<1>1. PassEnabled
  BY DEF Ready, Steady
<1>2. UNCHANGED <<cur_root_node, m_fronts, m_pre_fronts, reset_flag,
                  m_state, next_child_idx, m_shuffle, visited>>
  BY DEF DispatchEvent, PollCall, Enable, PollDisabled, PollRound, IgnoreEvent, PollAgain,
         PollDone, Poll, vars
<1>3. pc' = pc \/ (pc' # "fronts" /\ (pc # "fronts" \/ ~reset_flag))
  BY DEF DispatchEvent, PollCall, Enable, PollDisabled, PollRound, IgnoreEvent, PollAgain,
         PollDone, Poll, EndOfPass, vars
<1>4. PassEnabled'
  BY <1>1 DEF DispatchEvent, PollCall, Enable, PollDisabled, PollRound, IgnoreEvent, PollAgain,
              PollDone, Poll, EndOfPass, PassEnabled, vars
<1> QED
  BY <1>2, <1>3, <1>4, IdleMoves

\* A pass takes the work list over as it is.
LEMMA BeginMoves ==
  ASSUME Ready, Typed', BeginPass
  PROVE  Moves
<1>1. /\ Typed /\ RootAgain /\ PassEnabled /\ m_pre_fronts = <<>> /\ pc = "events"
      /\ m_pre_fronts' = m_fronts /\ m_fronts' = <<>> /\ pc' = "fronts" /\ m_fronts \in Seq(Node)
      /\ UNCHANGED <<cur_root_node, reset_flag, m_enabled, m_state, next_child_idx,
                     m_shuffle, visited>>
  BY DEF Ready, Steady, BeginPass, InTree, flagVars, nodeVars, Typed, TypeOK
<1>2. Work = m_fronts /\ Work' = m_fronts /\ Queued' = Queued
  BY <1>1, ConcatEmptySeq DEF Work, Queued
<1>3. Quiet /\ \A p, x : Follows(x, p)' <=> Follows(x, p)
  BY <1>1, <1>2, SameWork
<1>4. ~Follows(cur_root_node, cur_root_node)
  <2>1. <<cur_root_node>> # <<>>
    OBVIOUS
  <2> QED
    BY <1>1, <2>1 DEF RootAgain
<1>5. RootAgain'
  BY <1>1, <1>2, <1>3, <1>4 DEF RootAgain
<1>6. PassEnabled'
  BY <1>1 DEF PassEnabled
<1> QED
  BY <1>3, <1>5, <1>6 DEF Moves

\* A reset queues the root behind the child that the root has just entered.
LEMMA RestartMoves ==
  ASSUME Ready, Typed', PollRestart
  PROVE  Moves
<1> DEFINE r == cur_root_node
<1>1. /\ Typed /\ RootAgain /\ m_pre_fronts = <<>> /\ m_pre_fronts' = <<>> /\ pc = "fronts"
      /\ reset_flag /\ ~reset_flag' /\ pc' = "loop" /\ r # NoNode
      /\ m_fronts' = AddToFront(m_fronts, r)
      /\ UNCHANGED <<cur_root_node, m_state, next_child_idx, m_shuffle, visited>>
  BY DEF Ready, Steady, PollRestart, EndOfPass, nodeVars
<1>2. r \in Node
  BY <1>1, TreeAssumption DEF Typed, TypeOK, Rooted
<1>3. Work # <<r>> \/ m_fronts # <<>>
  <2>1. <<r>> # <<>>
    OBVIOUS
  <2> QED
    BY <1>1, <2>1, WorkParts
<1>4. PICK c \in ChildSet(r) : m_fronts = <<c>> /\ m_state[c] = "init" /\ m_state[r] = "wait_child"
  BY <1>1, <1>3 DEF RootAgain
<1>5. c \in Node /\ c # r
  BY <1>2, ChildBelow, ChildHasParent DEF Strictly
<1>6. m_fronts' = <<c, r>>
  BY <1>1, <1>2, <1>4, <1>5, TwoQueued
<1>7. Work' = <<c, r>> /\ Queued' = {c, r} /\ Queued = {c}
  <2>1. ToSet(<<>>) = {} /\ ToSet(<<c>>) = {c} /\ ToSet(<<c, r>>) = {c, r}
    BY DEF ToSet
  <2>2. Work' = m_fronts'
    BY <1>1, <1>2, <1>5, <1>6, ConcatEmptySeq DEF Work
  <2> QED
    BY <1>1, <1>4, <1>6, <2>1, <2>2 DEF Queued
<1>8. \A p, x : Follows(x, p)' => p = c /\ x = r
  <2>1. \A p, x : Follows(x, p)' <=> Before(<<c, r>>, p, x)
    BY <1>7 DEF Follows, Before
  <2>2. \A i, j \in DOMAIN <<c, r>> : i < j => i = 1 /\ j = 2
    OBVIOUS
  <2> QED
    BY <2>1, <2>2 DEF Before
<1>9. \A p \in Node : Current(p)' = Current(p)
  BY <1>1, CurrentStays
<1>10. Quiet
  BY <1>1, <1>4, <1>7, <1>8, <1>9 DEF Quiet, Tokens
<1>11. RootAgain'
  <2>1. ~Follows(r, r)'
    BY <1>5, <1>8
  <2> QED
    BY <1>1, <1>4, <1>7, <2>1 DEF RootAgain
<1> QED
  BY <1>1, <1>10, <1>11 DEF Moves, PassEnabled

\* Loading a tree,
LEMMA LoadsTree ==
  ASSUME Typed, InTree,
         \/ \E r \in Roots : LoadFirst(r)
         \/ intact' /\ \E r \in Roots \cup {NoNode} : LoadOther(r)
  PROVE  \E r \in Roots : Loads(r)
<1>1. Typed /\ m_state \in [Node -> States] /\ m_fronts \in Seq(Node)
  BY DEF Typed, TypeOK
<1>2. ASSUME NEW r \in Roots, LoadFirst(r) PROVE Loads(r)
  <2>1. \A n \in Node : cur_root_node \notin Lineage[n]
    BY <1>2, InLineage, TreeAssumption DEF LoadFirst, Loadable
  <2>2. m_state = [n \in Node |-> "init"]
    BY <1>1, <2>1 DEF InTree
  <2>3. m_fronts = <<>>
    <3>1. Queued = {}
      BY <2>1, Sorted DEF Ordered, InTree
    <3>2. m_fronts # <<>> => m_fronts[1] \in ToSet(m_fronts)
      BY <1>1 DEF ToSet
    <3> QED
      BY <3>1, <3>2 DEF Queued
  <2>4. AddToFront(<<>>, r) = <<r>>
    BY DEF AddToFront, ToSet
  <2> QED
    BY <1>2, <2>2, <2>3, <2>4 DEF LoadFirst, InTree, Loads, nodeVars, pollVars
<1>3. ASSUME intact', NEW r \in Roots \cup {NoNode}, LoadOther(r) PROVE r \in Roots /\ Loads(r)
  <2>1. ~Crash
    BY <1>3 DEF Crash
  <2>2. r # NoNode
    BY <1>3, <2>1 DEF LoadOther
  <2>3. m_state' = [n \in Node |-> "init"]
    BY <1>3, <2>1 DEF LoadOther, Below, InTree
  <2> QED
    BY <1>3, <2>1, <2>2, <2>3 DEF LoadOther, Loads, pollVars
<1> QED
  BY <1>2, <1>3

\* which is where the invariant begins.
LEMMA LoadsSteady ==
  ASSUME Typed', NEW r, Loads(r)
  PROVE  Steady'
<1>1. /\ r \in Node /\ Parent[r] = NoNode /\ Lineage[r] = {r}
      /\ cur_root_node' = r /\ pc' = "idle" /\ m_fronts' = <<r>> /\ m_pre_fronts' = <<>>
  BY TreeAssumption DEF Loads, Rooted, Created
<1>2. \A n \in Node : m_state'[n] = "init"
  BY DEF Loads
<1>3. Work' = <<r>> /\ Queued' = {r}
  <2>1. ToSet(<<>>) = {} /\ ToSet(<<r>>) = {r}
    BY DEF ToSet
  <2>2. Work' = <<r>>
    BY <1>1, ConcatEmptySeq DEF Work
  <2> QED
    BY <1>1, <2>1, <2>2 DEF Queued
<1>4. \A p, x : ~Follows(x, p)'
  <2>1. \A p, x : Follows(x, p)' <=> Before(<<r>>, p, x)
    BY <1>3 DEF Follows, Before
  <2>2. \A i, j \in DOMAIN <<r>> : ~(i < j)
    OBVIOUS
  <2> QED
    BY <2>1, <2>2 DEF Before
<1>5. OnPaths'
  BY <1>1, <1>3 DEF OnPaths, OnPath, Tokens
<1>6. Remembered'
  BY <1>2 DEF Remembered
<1>7. QueuedOnce' /\ StaleFirst' /\ StaleWithin'
  BY <1>2, <1>4 DEF QueuedOnce, StaleFirst, StaleWithin
<1>8. RootAgain'
  BY <1>1, <1>2, <1>3, <1>4 DEF RootAgain
<1>9. PassEnabled'
  BY <1>1 DEF PassEnabled
<1> QED
  BY <1>5, <1>6, <1>7, <1>8, <1>9 DEF Steady

\* Every other operation stops the agent.
LEMMA Stops ==
  ASSUME NEW n \in Node,
         \/ Disable \/ LoadSame \/ HandleDead \/ PollRestartFaults
         \/ EnterUnknown(n) \/ EnterReset(n) \/ EnterHalts(n) \/ EnterFaults(n)
         \/ AdvanceHalts(n) \/ CompleteDead(n)
  PROVE  ~intact'
  BY DEF Disable, LoadSame, HandleDead, PollRestartFaults, EnterUnknown, EnterReset, EnterHalts,
         EnterFaults, AdvanceHalts, CompleteDead, NotifyStop, StopFaults, Crash

\* A visit of an intact agent.
LEMMA VisitMoves ==
  ASSUME Ready, Typed', intact', NEW n \in Node, Visit(n)
  PROVE  Moves
  BY Stops, StaleMoves, EnterMoves, ReturnMoves, BlockMoves, AdvanceMoves, RootMoves,
     ParallelMoves DEF Visit

\* Where an agent is intact after a step, the step was a move or loaded a tree.
LEMMA NextMoves ==
  ASSUME Typed, Typed', FrontsDistinct, FrontsDistinct', SteadyWhileIntact, intact', [Next]_vars
  PROVE  (Ready /\ Moves) \/ \E r \in Roots : Loads(r)
<1>1. CASE (\E r \in Roots : LoadFirst(r)) \/ \E r \in Roots \cup {NoNode} : LoadOther(r)
  BY <1>1, LoadsTree DEF SteadyWhileIntact
<1>2. ASSUME ~((\E r \in Roots : LoadFirst(r)) \/ \E r \in Roots \cup {NoNode} : LoadOther(r))
      PROVE  Ready /\ Moves
  <2>1. ~Disable /\ ~LoadSame /\ ~HandleDead /\ ~PollRestartFaults
        /\ \A n \in Node : ~CompleteDead(n)
    BY DEF Disable, LoadSame, HandleDead, PollRestartFaults, CompleteDead, NotifyStop, StopFaults,
           Crash
  <2>2. intact
    <3>1. ASSUME NEW n \in Node, Visit(n) PROVE intact
      BY <3>1, Stops DEF Visit, Requeue, Drop, EnterFirst, EnterShuffled, EnterWeighted,
         EnterParallel, EnterAction, EnterPending, EnterWaitEvent, Advance, Return, RevisitRoot,
         RevisitParallel, Step, Crash
    <3> QED
      BY <1>2, <2>1, <3>1 DEF Next, Application, Polling, DispatchEvent, PollCall, Enable,
         Complete, PollDisabled, PollRound, IgnoreEvent, HandleEvent, BeginPass, PollAgain,
         PollDone, PollRestart, vars
  <2>3. Ready
    BY <2>2 DEF Ready, SteadyWhileIntact
  <2> QED
    BY <1>2, <2>1, <2>3, CallMoves, CompleteMoves, EventMoves, BeginMoves, RestartMoves,
       VisitMoves DEF Next, Application, Polling
<1> QED
  BY <1>1, <1>2

\* A move keeps the invariant.
LEMMA MovesSteady ==
  ASSUME Typed, Typed', Steady, Moves
  PROVE  Steady'
<1>1. Settled
  BY DEF Steady, Settled
<1>2. Settled'
  BY <1>1, DownSettled, UpSettled, BlocksSettled, QuietSettled DEF Moves
<1> QED
  BY <1>2 DEF Moves, Settled, Steady

\* What an agent keeps true while it is intact: every token has control, no
\* woken or blocking node is forgotten, and whatever stale nodes the queues
\* hold are dropped before the node they are below starts over.
THEOREM SteadyAlways == Spec => []SteadyWhileIntact
<1>1. Init => SteadyWhileIntact
  <2>1. ToSet(<<>>) = {}
    BY DEF ToSet
  <2> QED
    BY <2>1 DEF Init, SteadyWhileIntact, InTree, Queued
<1>2. ASSUME Typed, Typed', FrontsDistinct, FrontsDistinct', SteadyWhileIntact, [Next]_vars
      PROVE  SteadyWhileIntact'
  <2>1. InTree'
    BY <1>2, NextInTree DEF SteadyWhileIntact
  <2>2. intact' => Steady'
    BY <1>2, NextMoves, MovesSteady, LoadsSteady DEF Ready
  <2> QED
    BY <2>1, <2>2 DEF SteadyWhileIntact
<1> QED
  BY <1>1, <1>2, TypedAlways, NoneQueuedTwice, PTL DEF Spec

----------------------------------------------------------------------------
(* What follows for control.                                               *)

\* A node that has control has every ancestor waiting for exactly its branch,
\* in every reachable state of every forest.
THEOREM ControlAlways == Spec => []ControlPath
<1>1. SteadyWhileIntact => ControlPath
  BY DEF SteadyWhileIntact, Steady, OnPaths, OnPath, Edge, Current, ControlPath
<1> QED
  BY <1>1, SteadyAlways, PTL

\* A composite that looks at a child's result is at a child that it has: no
\* on_revisit reads m_children past its end.
THEOREM CursorAlways == Spec => []CursorInRange
<1>1. SteadyWhileIntact => CursorInRange
  <2> SUFFICES ASSUME SteadyWhileIntact, intact, NEW n \in Node, Awoken(n), Sequential(n)
               PROVE  Cursor(n, next_child_idx[n]) < Arity(n)
    BY DEF CursorInRange
  <2>1. Current(n) # {}
    BY DEF SteadyWhileIntact, Steady, Remembered, Awoken
  <2>2. Kind[n] # "parallel"
    BY DEF Sequential, ListKinds
  <2> QED
    BY <2>1, <2>2 DEF Current, Forwards
<1> QED
  BY <1>1, SteadyAlways, PTL

----------------------------------------------------------------------------
(* No wakeup is lost.                                                      *)

\* Every composite above x waits for the branch that x is in.
Led(x) ==
  \A a \in Lineage[x] : Parent[a] # NoNode =>
    /\ m_state[Parent[a]] = "wait_child"
    /\ a \in Current(Parent[a])

\* ControlQueued, of an agent that is intact.
Reached ==
  \A x \in Below(cur_root_node) : Led(x) => x \in Tokens \/ m_state[x] = "wait_child"

\* By nodes instead of edges, after a step.
LEMMA LedAbove ==
  ASSUME NEW p \in Node, NEW x \in Strictly(p), Led(x)'
  PROVE  /\ m_state'[p] = "wait_child"
         /\ \E c \in ChildSet(p) : c \in Current(p)' /\ x \in Below(c)
<1>1. PICK c \in ChildSet(p) : x \in Below(c) /\ c \in Lineage[x] /\ Parent[c] = p
  BY BranchOf
<1>2. p # NoNode
  BY TreeAssumption DEF Loadable
<1> QED
  BY <1>1, <1>2 DEF Led

\* A step that does not bring a composite above x to wait for its branch has
\* not led to x.
LEMMA LedBefore ==
  ASSUME NEW x \in Node, Led(x)',
         \A p \in Node : x \in Strictly(p) /\ m_state'[p] = "wait_child" =>
           m_state[p] = "wait_child" /\ Current(p)' = Current(p)
  PROVE  Led(x)
<1> SUFFICES ASSUME NEW a \in Lineage[x], Parent[a] # NoNode
             PROVE  m_state[Parent[a]] = "wait_child" /\ a \in Current(Parent[a])
  BY DEF Led
<1>1. a \in Node /\ x \in Below(a)
  BY InLineage, InBelow
<1>2. Parent[a] \in Node /\ x \in Strictly(Parent[a])
  BY <1>1, ParentHasChild, ChildBelow
<1>3. m_state'[Parent[a]] = "wait_child" /\ a \in Current(Parent[a])'
  BY DEF Led
<1> QED
  BY <1>2, <1>3

\* A token that moves down leads on to the children it moves to.
LEMMA DownReaches ==
  ASSUME Typed, Typed', NEW n \in Node, NEW S, Down(n, S), Reached
  PROVE  Reached'
<1> SUFFICES ASSUME NEW x \in Below(cur_root_node), Led(x)'
             PROVE  x \in Tokens' \/ m_state'[x] = "wait_child"
  BY DEF Reached, Down
<1>1. x \in Node /\ (x \in Tokens' <=> x \in (Tokens \ {n}) \cup S)
  BY DownTokens, InBelow
<1>2. CASE x \in {n} \cup S
  BY <1>1, <1>2 DEF Down
<1>3. CASE x \in Strictly(n) \ S
  <2>1. PICK c \in ChildSet(n) : c \in Current(n)' /\ x \in Below(c)
    BY <1>3, LedAbove
  <2>2. c \in S /\ c \in Node /\ m_state'[c] = "init"
    BY <2>1, ChildHasParent DEF Down
  <2>3. x \in Strictly(c)
    BY <1>3, <2>1, <2>2 DEF Strictly
  <2> QED
    BY <2>2, <2>3, LedAbove
<1>4. CASE x \notin {n} \cup Strictly(n)
  <2>1. \A p \in Node : x \in Below(p) => p # n /\ p \notin ChildSet(n)
    BY <1>4, ChildBelow DEF Strictly
  <2>2. x \in Below(x)
    BY <1>1, InBelow, InLineage
  <2>3. m_state'[x] = m_state[x] /\ x # n
    BY <1>1, <2>1, <2>2 DEF Down
  <2>4. \A p \in Node : x \in Strictly(p) => m_state'[p] = m_state[p] /\ Current(p)' = Current(p)
    BY <2>1 DEF Down, Strictly
  <2>5. Led(x)
    BY <1>1, <2>4, LedBefore
  <2> QED
    BY <1>1, <2>3, <2>5 DEF Reached
<1> QED
  BY <1>2, <1>3, <1>4

\* A token that moves up leads no further than its parent.
LEMMA UpReaches ==
  ASSUME Typed, Typed', NEW n \in Node, Up(n), OnPaths, Reached
  PROVE  Reached'
<1> SUFFICES ASSUME NEW x \in Below(cur_root_node), Led(x)'
             PROVE  x \in Tokens' \/ m_state'[x] = "wait_child"
  BY DEF Reached, Up
<1> DEFINE P == Parent[n]
<1>1. x \in Node /\ (x \in Tokens' <=> x \in (Tokens \ Below(n)) \cup {P})
  BY UpTokens, InBelow
<1>2. P \in Node /\ n \in Strictly(P) /\ m_state'[P] = "awaken"
  BY UpParent DEF Up
<1>3. CASE x \in Below(P)
  <2>1. x \notin Strictly(P)
    BY <1>2, LedAbove
  <2> QED
    BY <1>1, <1>3, <2>1 DEF Strictly
<1>4. CASE x \notin Below(P)
  <2>1. \A p \in Node : x \in Below(p) => p \notin Below(P)
    BY <1>4, BelowTransitive
  <2>2. P \in Below(P) /\ Below(n) \subseteq Below(P) /\ n \in Below(n)
    BY <1>2, InBelow, InLineage, BelowTransitive DEF Strictly
  <2>3. \A p \in Node : x \in Below(p) => m_state'[p] = m_state[p]
    BY <2>1, <2>2 DEF Up, Strictly
  <2>4. x \in Below(x) /\ x \notin Below(n)
    BY <1>1, <1>4, <2>2, InBelow, InLineage
  <2>5. \A p \in Node : x \in Strictly(p) /\ m_state'[p] = "wait_child" =>
          m_state[p] = "wait_child" /\ Current(p)' = Current(p)
    BY <2>3 DEF Up, Strictly
  <2>6. Led(x)
    BY <1>1, <2>5, LedBefore
  <2> QED
    BY <1>1, <2>3, <2>4, <2>6 DEF Reached
<1> QED
  BY <1>3, <1>4

\* A node that blocks is where its token is.
LEMMA BlocksReaches ==
  ASSUME Typed, NEW n \in Node, Blocks(n), Reached
  PROVE  Reached'
<1> SUFFICES ASSUME NEW x \in Below(cur_root_node), Led(x)'
             PROVE  x \in Tokens' \/ m_state'[x] = "wait_child"
  BY DEF Reached, Blocks
<1>1. x \in Node /\ Tokens' = Tokens /\ n \in Tokens
  BY BlocksTokens, InBelow DEF Blocks
<1>2. x \notin Strictly(n)
  BY LedAbove DEF Blocks
<1>3. ASSUME x # n PROVE x \in Tokens \/ m_state'[x] = "wait_child"
  <2>1. \A p \in Node : x \in Below(p) => p # n /\ p \notin ChildSet(n)
    BY <1>2, <1>3, ChildBelow DEF Strictly
  <2>2. x \in Below(x)
    BY <1>1, InBelow, InLineage
  <2>3. m_state'[x] = m_state[x]
    BY <1>1, <2>1, <2>2 DEF Blocks
  <2>4. \A p \in Node : x \in Strictly(p) => m_state'[p] = m_state[p] /\ Current(p)' = Current(p)
    BY <2>1 DEF Blocks, Strictly
  <2>5. Led(x)
    BY <1>1, <2>4, LedBefore
  <2> QED
    BY <2>3, <2>5 DEF Reached
<1> QED
  BY <1>1, <1>3

\* Nothing is led elsewhere by a step that moves no token.
LEMMA QuietReaches ==
  ASSUME Typed, Quiet, Reached
  PROVE  Reached'
<1> SUFFICES ASSUME NEW x \in Below(cur_root_node), Led(x)'
             PROVE  x \in Tokens' \/ m_state'[x] = "wait_child"
  BY DEF Reached, Quiet
<1>1. x \in Node /\ Tokens' = Tokens
  BY QuietTokens, InBelow
<1>2. Led(x)
  BY <1>1, LedBefore DEF Quiet
<1> QED
  BY <1>1, <1>2 DEF Reached, Quiet

\* What a loaded tree has control of is its root.
LEMMA LoadsTokens ==
  ASSUME NEW r, Loads(r)
  PROVE  Tokens' = {r} /\ r \in Node
<1>1. ToSet(<<>>) = {} /\ ToSet(<<r>>) = {r}
  BY DEF ToSet
<1>2. r \in Node
  BY TreeAssumption DEF Rooted, Loads
<1> QED
  BY <1>1, <1>2 DEF Tokens, Queued, Loads

\* Nobody waits in a tree that has just been loaded.
LEMMA LoadsReaches ==
  ASSUME NEW r, Loads(r)
  PROVE  Reached'
<1> SUFFICES ASSUME NEW x \in Below(cur_root_node'), Led(x)'
             PROVE  x \in Tokens'
  BY DEF Reached
<1>1. x \in Below(r) /\ r \in Node /\ Tokens' = {r}
  BY LoadsTokens DEF Loads
<1>2. x \notin Strictly(r)
  BY <1>1, LedAbove DEF Loads
<1> QED
  BY <1>1, <1>2 DEF Strictly

\* Follow the children that the waiting composites are at, from the root down:
\* where nobody waits any more the node is queued and ready, or blocks.  No
\* sequence of returns, interruptions, events, resets and loads strands an
\* agent.
THEOREM QueuedAlways == Spec => []ControlQueued
<1>1. Init => ControlQueued
  BY DEF Init, ControlQueued
<1>2. ControlQueued <=> (intact => Reached)
  BY DEF ControlQueued, Reached, Led, Current
<1>3. ASSUME Typed, Typed', FrontsDistinct, FrontsDistinct', SteadyWhileIntact,
             intact => Reached, [Next]_vars
      PROVE  intact' => Reached'
  <2> SUFFICES ASSUME intact' PROVE Reached'
    OBVIOUS
  <2>1. CASE Ready /\ Moves
    <3>1. OnPaths /\ Reached
      BY <1>3, <2>1 DEF Ready, Steady
    <3> QED
      BY <1>3, <2>1, <3>1, DownReaches, UpReaches, BlocksReaches, QuietReaches DEF Moves
  <2>2. CASE \E r \in Roots : Loads(r)
    BY <2>2, LoadsReaches
  <2> QED
    BY <1>3, <2>1, <2>2, NextMoves
<1> QED
  BY <1>1, <1>2, <1>3, SteadyAlways, TypedAlways, NoneQueuedTwice, PTL DEF Spec

----------------------------------------------------------------------------
(* The agent implements the moving tokens of Configuration.                *)

\* Configuration speaks of the same trees.
LEMMA SameTree ==
  /\ C!Parent = Parent
  /\ \A n : C!ChildSet(n) = ChildSet(n) /\ C!Below(n) = Below(n)
<1>1. \A n : C!ChildSet(n) = ChildSet(n)
  BY DEF C!ChildSet, ChildSet, C!ToSet, ToSet
<1> QED
  BY <1>1 DEF C!Below, Below, C!Parent, Parent

\* A token that moves down.
LEMMA DownDescends ==
  ASSUME Typed, Typed', intact, intact', NEW n \in Node, NEW S, Down(n, S)
  PROVE  C!Descend(n)
<1>1. Tokens' = (Tokens \ {n}) \cup S
  BY DownTokens
<1>2. Tokens \cap Below(n) = {n}
  <2>1. n \in Below(n)
    BY InBelow, InLineage
  <2> QED
    BY <2>1 DEF Down, Tokens, Strictly
<1>3. IF Kind[n] = "parallel"
      THEN ChildSet(n) # {} /\ Tokens' = (Tokens \ {n}) \cup ChildSet(n)
      ELSE \E c \in ChildSet(n) : Tokens' = (Tokens \ {n}) \cup {c}
  BY <1>1 DEF Down
<1> QED
  BY <1>2, <1>3, SameTree DEF C!Descend, C!Alone

\* A token that moves up: only below a parallel are there others.
LEMMA UpAscends ==
  ASSUME Typed, Typed', intact, intact', NEW n \in Node, Up(n), OnPaths
  PROVE  C!Ascend(n)
<1>1. Tokens' = (Tokens \ Below(n)) \cup {Parent[n]}
  BY UpTokens
<1>2. n \in Tokens /\ Parent[n] # NoNode /\ n \in Below(n)
  BY InBelow, InLineage DEF Up
<1>3. ASSUME Kind[n] # "parallel" PROVE Tokens \cap Below(n) = {n}
  <2>1. Sole(n) \/ m_state[n] = "blocking"
    BY <1>2, <1>3 DEF Tokens, Sole
  <2>2. \A t \in Strictly(n) : t \notin Tokens
    BY <2>1, NoneBelow DEF OnPaths
  <2> QED
    BY <1>2, <2>2 DEF Strictly
<1> QED
  BY <1>1, <1>2, <1>3, SameTree DEF C!Ascend, C!Alone

\* The runtime's queues, states and indices implement the Configuration that the
\* documents describe: every step of the agent forks a token at a parallel,
\* moves one along one edge, or moves none, until the agent is stopped.
THEOREM AgentMovesTokens == Spec => ImplementsConfiguration
<1>1. Init => C!Init
  BY DEF Init, C!Init
<1>2. ASSUME Typed, Typed', FrontsDistinct, FrontsDistinct', SteadyWhileIntact, [Next]_vars
      PROVE  [C!Next]_(C!cvars)
  <2>1. CASE ~intact'
    <3>1. C!Halt
      BY <2>1 DEF C!Halt
    <3> QED
      BY <3>1 DEF C!Next
  <2>2. CASE intact' /\ \E r \in Roots : Loads(r)
    <3>1. PICK r \in Roots : Loads(r)
      BY <2>2
    <3>2. C!Load(r)
      BY <2>2, <3>1, LoadsTokens DEF C!Load
    <3> QED
      BY <3>2 DEF C!Next
  <2>3. CASE intact' /\ Ready /\ Moves
    <3>1. intact /\ OnPaths
      BY <2>3 DEF Ready, Steady
    <3>2. CASE \E n \in Node : \E S \in SUBSET Node : Down(n, S)
      BY <1>2, <2>3, <3>1, <3>2, DownDescends DEF C!Next
    <3>3. CASE \E n \in Node : Up(n)
      BY <1>2, <2>3, <3>1, <3>3, UpAscends DEF C!Next
    <3>4. CASE Quiet \/ \E n \in Node : Blocks(n)
      <4>1. Tokens' = Tokens
        BY <1>2, <3>4, BlocksTokens, QuietTokens
      <4> QED
        BY <2>3, <3>1, <4>1 DEF C!cvars
    <3> QED
      BY <2>3, <3>2, <3>3, <3>4 DEF Moves
  <2> QED
    BY <1>2, <2>1, <2>2, <2>3, NextMoves
<1> QED
  BY <1>1, <1>2, SteadyAlways, TypedAlways, NoneQueuedTwice, PTL
     DEF Spec, ImplementsConfiguration, C!Spec
============================================================================
