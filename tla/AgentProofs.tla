----------------------------- MODULE AgentProofs -----------------------------
(***************************************************************************)
(* Theorems about an agent with any set of trees, events and actions.      *)
(* The types of its members, and its work list: no node is queued twice,   *)
(* and a poll leaves nothing behind.                                       *)
(***************************************************************************)
EXTENDS AgentProperties, TreeProofs, SequenceTheorems

----------------------------------------------------------------------------
(* Trees.                                                                  *)

\* What a node that is not the root of a loaded tree can rely on.
LEMMA HasParent ==
  ASSUME NEW n \in Node, ~(Kind[n] = "root" /\ Parent[n] = NoNode)
  PROVE  Parent[n] \in Node /\ Arity(Parent[n]) \in Nat \ {0}
<1>1. Parent[n] # NoNode
  BY TreeAssumption DEF Rooted
<1> QED
  BY <1>1, ParentHasChild DEF Arity

\* Children are nodes.
LEMMA ChildType ==
  ASSUME NEW n \in Node, NEW i \in 0..(Arity(n) - 1)
  PROVE  Child(n, i) \in Node
<1>1. Children[n] \in Seq(Node)
  BY TreeAssumption DEF Loadable
<1> QED
  BY <1>1 DEF Child, Arity

\* The number of children is a number.
LEMMA ArityType == ASSUME NEW n \in Node PROVE Arity(n) \in Nat
  BY TreeAssumption DEF Loadable, Arity

----------------------------------------------------------------------------
(* Queues.                                                                 *)

\* The empty queue is a queue of anything.
LEMMA NoneQueued == \A S : <<>> \in Seq(S)
  OBVIOUS

\* A random_seq that was never entered has an empty m_shuffle.
LEMMA NoneShuffled ==
  \A n \in Node : <<>> \in Seq(Nat) /\ <<>> \in Seq(0..(Len(Children[n]) - 1))
  BY NoneQueued

\* The queue of one node.
LEMMA OneQueued == ASSUME NEW n \in Node PROVE <<n>> \in Seq(Node)
  OBVIOUS

\* add_to_front keeps a queue of nodes one.
LEMMA AddToFrontType ==
  ASSUME NEW q \in Seq(Node), NEW n \in Node
  PROVE  AddToFront(q, n) \in Seq(Node)
  BY DEF AddToFront

\* So does dropping a node from it,
LEMMA RemoveAtType ==
  ASSUME NEW q \in Seq(Node), NEW k \in DOMAIN q
  PROVE  RemoveAt(q, k) \in Seq(Node)
  BY DEF RemoveAt

\* and what the second loop of poll_events does with a node and its parent.
LEMMA ReplacedType ==
  ASSUME NEW q \in Seq(Node), NEW k \in DOMAIN q, NEW P \in Node
  PROVE  Replaced(q, k, P) \in Seq(Node)
<1>1. [q EXCEPT ![k] = P] \in Seq(Node) /\ DOMAIN [q EXCEPT ![k] = P] = DOMAIN q
  OBVIOUS
<1>2. CASE P \notin ToSet(q)
  BY <1>1, <1>2 DEF Replaced
<1>3. CASE P \in ToSet(q)
  <2> DEFINE j == CHOOSE i \in DOMAIN q : q[i] = P
  <2>1. j \in DOMAIN q
    BY <1>3 DEF ToSet
  <2>2. RemoveAt(q, k) \in Seq(Node)
    BY RemoveAtType
  <2>3. RemoveAt([q EXCEPT ![k] = P], j) \in Seq(Node)
    <3> HIDE DEF j
    <3> QED BY <2>1, <1>1, RemoveAtType
  <2> QED
    BY <1>3, <2>2, <2>3 DEF Replaced
<1> QED
  BY <1>2, <1>3

----------------------------------------------------------------------------
(* Type correctness.  A node that is woken up has children: that is why the *)
(* root can start over.                                                    *)

Awakened == \A n \in Node : m_state[n] = "awaken" => Arity(n) \in Nat \ {0}

Typed == TypeOK /\ Awakened

\* Everything TypeOK says of the members of nodes.
NodesTyped ==
  /\ m_state \in [Node -> States]
  /\ result \in [Node -> BOOLEAN]
  /\ next_child_idx \in [Node -> Nat]
  /\ m_shuffle \in [Node -> Seq(Nat)]
  /\ \A n \in Node : m_shuffle[n] \in Seq(0..(Len(Children[n]) - 1))
  /\ visited \in SUBSET Node

\* What interrupting a set of nodes does to the states and the indices.
LEMMA NotifyStopType ==
  ASSUME NEW st \in [Node -> States], NEW idx \in [Node -> Nat], NEW q,
         NotifyStop(st, idx, q)
  PROVE  /\ m_state' \in [Node -> States]
         /\ \A n \in Node : m_state'[n] = "awaken" => st[n] = "awaken"
         /\ next_child_idx' \in [Node -> Nat]
         /\ m_pre_fronts' \in Seq(Node)
         /\ m_enabled' = FALSE
         /\ intact' = FALSE
  BY DEF NotifyStop, Kill, Rewind, States

\* Interrupting leaves every index a number.
LEMMA RewindType ==
  ASSUME NEW idx \in [Node -> Nat], NEW hit
  PROVE  Rewind(idx, hit) \in [Node -> Nat]
  BY DEF Rewind

\* A fault leaves everything but its flag as it was.
LEMMA CrashType == ASSUME Typed, Crash PROVE Typed'
  BY DEF Typed, TypeOK, Awakened, Crash, queueVars, flagVars, nodeVars

\* set_result, on a waiting node or on a dead one.
LEMMA SetResultType ==
  ASSUME Typed, NEW n \in Node, NEW r \in BOOLEAN, NEW q \in Seq(Node),
         ~(Kind[n] = "root" /\ Parent[n] = NoNode), SetResult(n, r, q)
  PROVE  /\ result' \in [Node -> BOOLEAN]
         /\ m_state' \in [Node -> States]
         /\ Awakened'
         /\ m_fronts' \in Seq(Node)
<1>1. Parent[n] \in Node /\ Arity(Parent[n]) \in Nat \ {0}
  BY HasParent
<1>2. m_fronts' \in Seq(Node)
  BY <1>1, AddToFrontType DEF SetResult
<1>3. result' \in [Node -> BOOLEAN] /\ m_state' \in [Node -> States]
  BY <1>1 DEF SetResult, Typed, TypeOK, States
<1>4. Awakened'
  BY <1>1 DEF SetResult, Typed, TypeOK, Awakened, Arity
<1> QED
  BY <1>2, <1>3, <1>4

\* node::on_enter gives every child a state.
LEMMA OnEnterType ==
  ASSUME Typed, NEW n \in Node, NEW s \in States
  PROVE  /\ OnEnter(n, s) \in [Node -> States]
         /\ s # "awaken" => \A m \in Node : OnEnter(n, s)[m] = "awaken" =>
              m_state[m] = "awaken"
  BY DEF Typed, TypeOK, OnEnter, States

\* The members of a new agent have their types.
LEMMA InitTyped == Init => Typed
<1> SUFFICES ASSUME Init PROVE Typed
  OBVIOUS
<1>1. NodesTyped
  <2>1. m_shuffle \in [Node -> Seq(Nat)]
    BY NoneShuffled DEF Init
  <2>2. \A n \in Node : m_shuffle[n] \in Seq(0..(Len(Children[n]) - 1))
    BY NoneShuffled DEF Init
  <2> QED
    BY <2>1, <2>2 DEF Init, NodesTyped, States
<1> QED
  BY <1>1, NoneQueued DEF Init, Typed, TypeOK, Awakened, NodesTyped

\* Calls from outside a poll keep the types.
LEMMA ApplicationTyped == Typed /\ Application => Typed'
<1> SUFFICES ASSUME Typed, Application PROVE Typed'
  OBVIOUS
<1> USE DEF queueVars, flagVars, nodeVars, pollVars
<1>1. ASSUME NEW e \in Event, DispatchEvent(e) PROVE Typed'
  BY <1>1 DEF DispatchEvent, Poll, Typed, TypeOK, Awakened
<1>2. CASE PollCall
  BY <1>2 DEF PollCall, Poll, Typed, TypeOK, Awakened
<1>3. CASE Enable
  BY <1>3 DEF Enable, Poll, Typed, TypeOK, Awakened
<1>4. CASE Disable
  <2>1. CASE StopFaults(m_state, next_child_idx, m_fronts)
    BY <2>1, CrashType DEF StopFaults
  <2>2. CASE ~StopFaults(m_state, next_child_idx, m_fronts)
    <3>1. NotifyStop(m_state, next_child_idx, m_fronts)
      BY <1>4, <2>2 DEF Disable
    <3> QED
      BY <1>4, <2>2, <3>1, NoneQueued, NotifyStopType DEF Disable, Typed, TypeOK, Awakened
  <2> QED
    BY <2>1, <2>2
<1>5. ASSUME NEW r \in Roots, LoadFirst(r) PROVE Typed'
  <2>1. m_fronts' \in Seq(Node)
    BY <1>5, AddToFrontType, TreeAssumption DEF LoadFirst, Typed, TypeOK, Rooted
  <2> QED
    BY <1>5, <2>1 DEF LoadFirst, Typed, TypeOK, Awakened
<1>6. CASE LoadSame
  <2>1. CASE StopFaults(m_state, next_child_idx, m_fronts)
    BY <2>1, CrashType DEF StopFaults
  <2>2. CASE ~StopFaults(m_state, next_child_idx, m_fronts)
    <3>1. NotifyStop(m_state, next_child_idx, m_fronts)
      BY <1>6, <2>2 DEF LoadSame
    <3> QED
      BY <1>6, <2>2, <3>1, NoneQueued, NotifyStopType DEF LoadSame, Typed, TypeOK, Awakened
  <2> QED
    BY <2>1, <2>2
<1>7. ASSUME NEW r \in Roots \cup {NoNode}, LoadOther(r) PROVE Typed'
  <2>1. CASE Crash
    BY <2>1, CrashType
  <2>2. CASE ~Crash
    <3>1. m_fronts' \in Seq(Node)
      BY <1>7, <2>2, NoneQueued, OneQueued, TreeAssumption DEF LoadOther, Rooted
    <3>2. NodesTyped'
      <4>1. m_shuffle' \in [Node -> Seq(Nat)]
        BY <1>7, <2>2, NoneShuffled DEF LoadOther, Typed, TypeOK
      <4>2. \A n \in Node : m_shuffle'[n] \in Seq(0..(Len(Children[n]) - 1))
        BY <1>7, <2>2, NoneShuffled DEF LoadOther, Typed, TypeOK
      <4>3. next_child_idx' \in [Node -> Nat]
        <5>1. next_child_idx' = Rewind(next_child_idx, Below(cur_root_node))
          BY <1>7, <2>2 DEF LoadOther
        <5> QED
          BY <5>1, RewindType DEF Typed, TypeOK
      <4>4. m_state' \in [Node -> States] /\ result' \in [Node -> BOOLEAN]
        BY <1>7, <2>2 DEF LoadOther, Typed, TypeOK, States
      <4>5. visited' \in SUBSET Node
        BY <1>7, <2>2 DEF LoadOther, Typed, TypeOK
      <4> QED
        BY <4>1, <4>2, <4>3, <4>4, <4>5 DEF NodesTyped
    <3>3. Awakened'
      BY <1>7, <2>2 DEF LoadOther, Typed, TypeOK, Awakened, Arity
    <3> QED
      BY <1>7, <2>2, <3>1, <3>2, <3>3, NoneQueued DEF LoadOther, Typed, TypeOK, NodesTyped
  <2> QED
    BY <2>1, <2>2
<1>8. ASSUME NEW n \in Node, NEW r \in BOOLEAN, Complete(n, r) PROVE Typed'
  <2>1. ~(Kind[n] = "root" /\ Parent[n] = NoNode)
    BY <1>8 DEF Complete
  <2>2. SetResult(n, r, m_fronts) /\ m_fronts \in Seq(Node)
    BY <1>8 DEF Complete, Typed, TypeOK
  <2> QED
    BY <1>8, <2>1, <2>2, SetResultType DEF Complete, Poll, Typed, TypeOK
<1>9. ASSUME NEW n \in Node, CompleteDead(n) PROVE Typed'
  <2>1. CASE Crash
    BY <2>1, CrashType
  <2>2. CASE ~Crash
    <3>1. NotifyStop(m_state, next_child_idx, m_fronts)
      BY <1>9, <2>2 DEF CompleteDead, StopFaults
    <3> QED
      BY <1>9, <2>2, <3>1, NoneQueued, NotifyStopType
      DEF CompleteDead, StopFaults, Typed, TypeOK, Awakened
  <2> QED
    BY <2>1, <2>2
<1> QED
  BY <1>1, <1>2, <1>3, <1>4, <1>5, <1>6, <1>7, <1>8, <1>9 DEF Application

\* So do the steps of poll_events,
LEMMA EventsTyped ==
  ASSUME Typed, IgnoreEvent \/ HandleEvent \/ HandleDead
  PROVE  Typed'
<1> USE DEF queueVars, flagVars, nodeVars, pollVars
<1>1. m_events \in Seq(Event) /\ m_events # <<>> /\ Tail(m_events) \in Seq(Event)
  BY DEF IgnoreEvent, HandleEvent, HandleDead, Processing, Typed, TypeOK
<1>2. CASE IgnoreEvent
  BY <1>1, <1>2 DEF IgnoreEvent, Typed, TypeOK, Awakened
<1>3. CASE HandleEvent
  <2>1. PICK k \in DOMAIN m_fronts :
          /\ First(k, Head(m_events))
          /\ result' = [result EXCEPT ![m_fronts[k]] = TRUE]
          /\ m_state' = [m_state EXCEPT ![m_fronts[k]] = "dead",
                                       ![Parent[m_fronts[k]]] = "awaken"]
          /\ m_fronts' = Replaced(m_fronts, k, Parent[m_fronts[k]])
    BY <1>3 DEF HandleEvent
  <2> DEFINE n == m_fronts[k]
  <2>2. n \in Node /\ Kind[n] # "root"
    BY <2>1 DEF First, Listeners, Listens, Typed, TypeOK
  <2>3. Parent[n] \in Node /\ Arity(Parent[n]) \in Nat \ {0}
    BY <2>2, HasParent
  <2>4. m_fronts' \in Seq(Node)
    BY <2>1, <2>3, ReplacedType DEF Typed, TypeOK
  <2>5. result' \in [Node -> BOOLEAN] /\ m_state' \in [Node -> States]
    BY <2>1, <2>2, <2>3 DEF Typed, TypeOK, States
  <2>6. Awakened'
    BY <2>1, <2>2, <2>3 DEF Typed, TypeOK, Awakened, Arity
  <2> QED
    BY <1>1, <1>3, <2>4, <2>5, <2>6 DEF HandleEvent, Typed, TypeOK
<1>4. CASE HandleDead
  <2>1. PICK k \in DOMAIN m_fronts :
          \/ /\ NotifyStop(m_state, next_child_idx, SubSeq(m_fronts, 1, k - 1))
             /\ m_fronts' = SubSeq(m_fronts, k + 1, Len(m_fronts))
             /\ m_events' \in {<<>>, Tail(m_events)}
             /\ UNCHANGED <<cur_root_node, m_during_poll, reset_flag, result, m_shuffle,
                            visited, pollVars>>
          \/ Crash
    BY <1>4 DEF HandleDead, StopFaults
  <2>2. CASE Crash
    BY <2>2, CrashType
  <2>3. CASE ~Crash
    <3>1. NotifyStop(m_state, next_child_idx, SubSeq(m_fronts, 1, k - 1))
      BY <2>1, <2>3
    <3>2. m_fronts' \in Seq(Node)
      <4>1. m_fronts \in Seq(Node) /\ k \in 1..Len(m_fronts)
        BY DEF Typed, TypeOK
      <4>2. SubSeq(m_fronts, k + 1, Len(m_fronts)) \in Seq(Node)
        BY <4>1, SubSeqProperties
      <4> QED
        BY <2>1, <2>3, <4>2
    <3>3. m_events' \in Seq(Event)
      BY <1>1, <2>1, <2>3, NoneQueued
    <3> QED
      BY <2>1, <2>3, <3>1, <3>2, <3>3, NotifyStopType DEF Typed, TypeOK, Awakened
  <2> QED
    BY <2>2, <2>3
<1> QED
  BY <1>2, <1>3, <1>4

\* and the steps of poll around a pass.
LEMMA PollTyped ==
  ASSUME Typed,
         \/ PollDisabled \/ PollRound \/ BeginPass
         \/ PollAgain \/ PollDone \/ PollRestart \/ PollRestartFaults
  PROVE  Typed'
<1> USE DEF queueVars, flagVars, nodeVars, pollVars
<1>1. CASE PollDisabled
  BY <1>1 DEF PollDisabled, Typed, TypeOK, Awakened
<1>2. CASE PollRound
  BY <1>2 DEF PollRound, Typed, TypeOK, Awakened
<1>3. CASE BeginPass
  BY <1>3, NoneQueued DEF BeginPass, Typed, TypeOK, Awakened
<1>4. CASE PollAgain
  BY <1>4 DEF PollAgain, Typed, TypeOK, Awakened
<1>5. CASE PollDone
  BY <1>5 DEF PollDone, Typed, TypeOK, Awakened
<1>6. CASE PollRestart
  <2>1. cur_root_node \in Node /\ m_fronts \in Seq(Node)
    BY <1>6, TreeAssumption DEF PollRestart, Typed, TypeOK, Rooted
  <2> QED
    BY <1>6, <2>1, AddToFrontType DEF PollRestart, Typed, TypeOK, Awakened
<1>7. CASE PollRestartFaults
  BY <1>7, CrashType DEF PollRestartFaults
<1> QED
  BY <1>1, <1>2, <1>3, <1>4, <1>5, <1>6, <1>7

\* What a visit starts from: its node is queued.
LEMMA VisitingType ==
  ASSUME Typed, NEW n \in Node, Visiting(n)
  PROVE  /\ m_pre_fronts \in Seq(Node)
         /\ m_pre_fronts # <<>>
         /\ Tail(m_pre_fronts) \in Seq(Node)
  BY DEF Visiting, Typed, TypeOK

\* What is left of the pass after a visit.
LEMMA StepType ==
  ASSUME Typed, NEW n \in Node, Visiting(n), Step(n)
  PROVE  /\ m_pre_fronts' \in Seq(Node)
         /\ any_ready' = TRUE
         /\ UNCHANGED <<cur_root_node, flagVars, pc, poll_result, intact>>
  BY VisitingType, NoneQueued DEF Step

\* The part of Typed that notify_stop decides.
HaltedTyped ==
  /\ m_state \in [Node -> States]
  /\ Awakened
  /\ next_child_idx \in [Node -> Nat]
  /\ m_pre_fronts \in Seq(Node)
  /\ m_enabled \in BOOLEAN
  /\ intact \in BOOLEAN

\* A visit that stops the agent, whatever it did to the states before.
LEMMA HaltType ==
  ASSUME Typed, NEW n \in Node, NEW s \in States \ {"awaken"}, NEW idx \in [Node -> Nat],
         NotifyStop(OnEnter(n, s), idx, m_fronts)
  PROVE  HaltedTyped'
<1>1. OnEnter(n, s) \in [Node -> States]
  BY OnEnterType
<1>2. \A m \in Node : OnEnter(n, s)[m] = "awaken" => m_state[m] = "awaken"
  BY OnEnterType
<1> HIDE DEF OnEnter
<1> QED
  BY <1>1, <1>2, NotifyStopType DEF HaltedTyped, Typed, Awakened, Arity

\* What is left to show of a visit that enters n and goes on.
LEMMA EnterType ==
  ASSUME Typed, NEW n \in Node, Visiting(n), Step(n),
         NEW s \in States \ {"awaken"}, m_state' = OnEnter(n, s),
         NEW i \in Nat, Reenter(n, i),
         m_fronts' \in Seq(Node), m_events' \in Seq(Event),
         result' \in [Node -> BOOLEAN],
         m_shuffle' \in [Node -> Seq(Nat)],
         \A m \in Node : m_shuffle'[m] \in Seq(0..(Len(Children[m]) - 1))
  PROVE  Typed'
<1>1. m_state' \in [Node -> States]
  BY OnEnterType
<1>2. Awakened'
  BY OnEnterType DEF Typed, Awakened, Arity
<1>3. next_child_idx' \in [Node -> Nat] /\ visited' \in SUBSET Node
  BY DEF Reenter, Typed, TypeOK
<1> QED
  BY <1>1, <1>2, <1>3, StepType DEF flagVars, Typed, TypeOK

\* Visits that enter a node keep the types.
LEMMA EnterTyped ==
  ASSUME Typed, NEW n \in Node,
         \/ EnterFirst(n) \/ EnterShuffled(n) \/ EnterWeighted(n) \/ EnterParallel(n)
         \/ EnterAction(n) \/ EnterPending(n) \/ EnterWaitEvent(n)
  PROVE  Typed'
<1> USE DEF queueVars, flagVars, nodeVars, pollVars
<1>1. Visiting(n) /\ Step(n)
  BY DEF Fresh, EnterFirst, EnterShuffled, EnterWeighted, EnterParallel, EnterAction,
         EnterPending, EnterWaitEvent
<1>2. "wait_child" \in States \ {"awaken"} /\ "blocking" \in States \ {"awaken"}
  BY DEF States
<1>3. [result EXCEPT ![n] = FALSE] \in [Node -> BOOLEAN]
  BY DEF Typed, TypeOK
<1>4. CASE EnterFirst(n)
  <2>1. Child(n, 0) \in Node
    BY <1>4, ChildType, ArityType DEF EnterFirst
  <2>2. m_fronts' \in Seq(Node)
    BY <1>4, <2>1, AddToFrontType DEF EnterFirst, Typed, TypeOK
  <2> QED
    BY <1>1, <1>2, <1>3, <1>4, <2>2, EnterType DEF EnterFirst, Typed, TypeOK
<1>5. CASE EnterShuffled(n)
  <2>1. Arity(n) \in Nat \ {0} /\ Arity(n) = Len(Children[n])
    BY <1>5, ArityType DEF EnterShuffled, Arity
  <2>2. PICK t \in [1..Arity(n) -> 0..(Arity(n) - 1)] :
          /\ m_shuffle' = [m_shuffle EXCEPT ![n] = t]
          /\ m_fronts' = AddToFront(m_fronts, Child(n, t[1]))
    BY <1>5 DEF EnterShuffled
  <2>3. t \in Seq(Nat) /\ t \in Seq(0..(Arity(n) - 1))
    BY <2>1
  <2>4. m_shuffle' \in [Node -> Seq(Nat)]
    BY <2>2, <2>3 DEF Typed, TypeOK
  <2>5. \A m \in Node : m_shuffle'[m] \in Seq(0..(Len(Children[m]) - 1))
    BY <2>1, <2>2, <2>3 DEF Typed, TypeOK
  <2>6. Child(n, t[1]) \in Node
    BY <2>1, ChildType
  <2>7. m_fronts' \in Seq(Node)
    BY <2>2, <2>6, AddToFrontType DEF Typed, TypeOK
  <2> QED
    BY <1>1, <1>2, <1>3, <1>5, <2>4, <2>5, <2>7, EnterType DEF EnterShuffled, Typed, TypeOK
<1>6. CASE EnterWeighted(n)
  <2>1. PICK i \in 0..(Arity(n) - 1) :
          m_fronts' = AddToFront(m_fronts, Child(n, i)) /\ Reenter(n, i)
    BY <1>6 DEF EnterWeighted
  <2>2. Child(n, i) \in Node /\ i \in Nat
    BY ChildType, ArityType
  <2>3. m_fronts' \in Seq(Node)
    BY <2>1, <2>2, AddToFrontType DEF Typed, TypeOK
  <2> QED
    BY <1>1, <1>2, <1>3, <1>6, <2>1, <2>2, <2>3, EnterType DEF EnterWeighted, Typed, TypeOK
<1>7. CASE EnterParallel(n)
  <2>. PICK k \in 0..Arity(n) : \E t \in [1..k -> 1..Arity(n)] :
         m_fronts' = m_fronts \o [j \in 1..k |-> Children[n][t[j]]]
    BY <1>7 DEF EnterParallel
  <2>1. PICK t \in [1..k -> 1..Arity(n)] :
          m_fronts' = m_fronts \o [j \in 1..k |-> Children[n][t[j]]]
    OBVIOUS
  <2>2. \A j \in 1..k : Children[n][t[j]] \in Node
    BY TreeAssumption DEF Loadable, Arity
  <2>3. k \in Nat
    BY ArityType
  <2> DEFINE added == [j \in 1..k |-> Children[n][t[j]]]
  <2>4. added \in Seq(Node)
    <3>1. added \in [1..k -> Node]
      BY <2>2
    <3> HIDE DEF added
    <3> QED
      BY <3>1, <2>3
  <2>5. m_fronts' = m_fronts \o added
    BY <2>1
  <2>6. m_fronts' \in Seq(Node)
    <3> HIDE DEF added
    <3> QED
      BY <2>4, <2>5, ConcatProperties DEF Typed, TypeOK
  <2> QED
    BY <1>1, <1>2, <1>3, <1>7, <2>6, EnterType DEF EnterParallel, Typed, TypeOK
<1>8. ASSUME NEW e \in Event PROVE Append(m_events, e) \in Seq(Event)
  BY DEF Typed, TypeOK
<1>9. ASSUME m_events' \in Dispatched(n) PROVE m_events' \in Seq(Event)
  <2>1. m_events' = m_events \/ \E e \in Raises[n] : m_events' = Append(m_events, e)
    BY <1>9 DEF Dispatched
  <2>2. Raises[n] \subseteq Event
    BY ParameterAssumption
  <2> QED
    BY <1>8, <2>1, <2>2 DEF Typed, TypeOK
<1>10. CASE EnterAction(n)
  <2>1. PICK o \in Outcomes[n] : SetResult(n, o = "true", m_fronts)
    BY <1>10 DEF EnterAction
  <2>2. (o = "true") \in BOOLEAN /\ m_fronts \in Seq(Node)
    BY DEF Typed, TypeOK
  <2>3. ~(Kind[n] = "root" /\ Parent[n] = NoNode)
    BY <1>10 DEF EnterAction
  <2>4. /\ result' \in [Node -> BOOLEAN]
        /\ m_state' \in [Node -> States]
        /\ Awakened'
        /\ m_fronts' \in Seq(Node)
    BY <2>1, <2>2, <2>3, SetResultType
  <2>5. m_events' \in Seq(Event)
    BY <1>9, <1>10 DEF EnterAction
  <2> QED
    BY <1>1, <1>10, <2>4, <2>5, StepType DEF EnterAction, Reenter, Typed, TypeOK
<1>11. CASE EnterPending(n)
  <2>1. m_fronts' \in Seq(Node)
    BY <1>11, AddToFrontType DEF EnterPending, Typed, TypeOK
  <2>2. m_events' \in Seq(Event)
    BY <1>9, <1>11 DEF EnterPending
  <2> QED
    BY <1>1, <1>2, <1>3, <1>11, <2>1, <2>2, EnterType DEF EnterPending, Typed, TypeOK
<1>12. CASE EnterWaitEvent(n)
  <2>1. m_fronts' \in Seq(Node)
    BY <1>12, AddToFrontType DEF EnterWaitEvent, Typed, TypeOK
  <2> QED
    BY <1>1, <1>2, <1>3, <1>12, <2>1, EnterType DEF EnterWaitEvent, Typed, TypeOK
<1> QED
  BY <1>4, <1>5, <1>6, <1>7, <1>10, <1>11, <1>12

\* So do visits that stop the agent or fault,
LEMMA HaltTyped ==
  ASSUME Typed, NEW n \in Node,
         \/ EnterUnknown(n) \/ EnterReset(n) \/ EnterHalts(n) \/ EnterFaults(n)
         \/ AdvanceHalts(n)
  PROVE  Typed'
<1> USE DEF queueVars, flagVars, nodeVars, pollVars
<1>1. CASE Crash
  BY <1>1, CrashType
<1> SUFFICES ASSUME ~Crash PROVE Typed'
  BY <1>1
<1> DEFINE idx == [next_child_idx EXCEPT ![n] = 0]
<1>2. /\ idx \in [Node -> Nat]
      /\ [result EXCEPT ![n] = FALSE] \in [Node -> BOOLEAN]
      /\ visited \cup {n} \in SUBSET Node
  BY DEF Typed, TypeOK
<1>3. /\ "init" \in States \ {"awaken"}
      /\ "entering" \in States \ {"awaken"}
      /\ "blocking" \in States \ {"awaken"}
  BY DEF States
<1>4. CASE EnterUnknown(n)
  <2> DEFINE st == OnEnter(n, "entering")
             hit == Interrupted(st, idx, ToSet(m_fronts))
  <2>1. /\ m_state' = [Kill(st, hit) EXCEPT ![n] = "blocking"]
        /\ next_child_idx' = Rewind(idx, hit)
        /\ m_pre_fronts' = <<>> /\ m_enabled' = FALSE /\ intact' = FALSE
    BY <1>4 DEF EnterUnknown, StopFaults
  <2>2. HaltedTyped'
    <3>1. st \in [Node -> States] /\ \A m \in Node : st[m] = "awaken" => m_state[m] = "awaken"
      BY <1>3, OnEnterType
    <3> HIDE DEF idx, st, hit
    <3>2. m_state' \in [Node -> States]
      BY <1>3, <2>1, <3>1 DEF Kill, States
    <3>3. \A m \in Node : m_state'[m] = "awaken" => m_state[m] = "awaken"
      BY <2>1, <3>1 DEF Kill
    <3>4. next_child_idx' \in [Node -> Nat]
      BY <1>2, <2>1, RewindType
    <3> QED
      BY <2>1, <3>2, <3>3, <3>4, NoneQueued DEF HaltedTyped, Typed, Awakened, Arity
  <2>3. /\ m_fronts' = <<n>>
        /\ m_events' = <<>>
        /\ result' = [result EXCEPT ![n] = FALSE]
        /\ visited' = visited \cup {n}
        /\ UNCHANGED <<cur_root_node, m_during_poll, reset_flag, m_shuffle, pollVars>>
    BY <1>4 DEF EnterUnknown, StopFaults
  <2> QED
    BY <1>2, <2>2, <2>3, NoneQueued, OneQueued DEF HaltedTyped, Typed, TypeOK
<1>5. CASE EnterReset(n)
  <2>1. idx \in [Node -> Nat] /\ NotifyStop(OnEnter(n, "init"), idx, m_fronts)
    BY <1>2, <1>5 DEF EnterReset, StopFaults
  <2>2. HaltedTyped'
    <3> HIDE DEF idx
    <3> QED
      BY <1>3, <2>1, HaltType
  <2>3. /\ m_fronts' = <<>>
        /\ m_events' = <<>>
        /\ result' = [result EXCEPT ![n] = FALSE]
        /\ visited' = visited \cup {n}
        /\ reset_flag' = TRUE
        /\ UNCHANGED <<cur_root_node, m_during_poll, m_shuffle, pollVars>>
    BY <1>5 DEF EnterReset, StopFaults
  <2> QED
    BY <1>2, <2>2, <2>3, NoneQueued, OneQueued DEF HaltedTyped, Typed, TypeOK
<1>6. CASE EnterHalts(n)
  <2>1. idx \in [Node -> Nat] /\ NotifyStop(OnEnter(n, "entering"), idx, m_fronts)
    BY <1>2, <1>6 DEF EnterHalts, StopFaults
  <2>2. HaltedTyped'
    <3> HIDE DEF idx
    <3> QED
      BY <1>3, <2>1, HaltType
  <2>3. /\ m_fronts' = <<>>
        /\ m_events' = <<>>
        /\ result' = [result EXCEPT ![n] = FALSE]
        /\ visited' = visited \cup {n}
        /\ UNCHANGED <<cur_root_node, m_during_poll, reset_flag, m_shuffle, pollVars>>
    BY <1>6 DEF EnterHalts, StopFaults
  <2> QED
    BY <1>2, <2>2, <2>3, NoneQueued, OneQueued DEF HaltedTyped, Typed, TypeOK
<1>7. CASE AdvanceHalts(n)
  <2> DEFINE next == [next_child_idx EXCEPT ![n] =
                        NextIndex(n, next_child_idx[n], ChildResult(n))]
  <2>1. NotifyStop(m_state, next, m_fronts)
    BY <1>7 DEF AdvanceHalts, StopFaults
  <2>2. next \in [Node -> Nat]
    BY DEF NextIndex, Typed, TypeOK
  <2> HIDE DEF next
  <2>3. m_state' \in [Node -> States] /\ Awakened'
    BY <2>1, <2>2, NotifyStopType DEF Typed, TypeOK, Awakened, Arity
  <2> QED
    BY <1>7, <2>1, <2>2, <2>3, NotifyStopType, NoneQueued
    DEF AdvanceHalts, StopFaults, Typed, TypeOK
<1>8. CASE EnterFaults(n)
  BY <1>8 DEF EnterFaults
<1> QED
  BY <1>4, <1>5, <1>6, <1>7, <1>8

\* and visits of a node that a child has woken up.
LEMMA RevisitTyped ==
  ASSUME Typed, NEW n \in Node,
         \/ Requeue(n) \/ Drop(n) \/ Advance(n) \/ Return(n)
         \/ RevisitRoot(n) \/ RevisitParallel(n)
  PROVE  Typed'
<1> USE DEF queueVars, flagVars, nodeVars, pollVars
<1>1. Visiting(n)
  BY DEF Requeue, Drop, Advance, Return, RevisitRoot, RevisitParallel, Awoken
<1>2. CASE Requeue(n)
  <2>1. m_fronts' \in Seq(Node)
    BY <1>2, AddToFrontType DEF Requeue, Typed, TypeOK
  <2> QED
    BY <1>1, <1>2, <2>1, VisitingType DEF Requeue, Typed, TypeOK, Awakened
<1>3. CASE Drop(n)
  BY <1>1, <1>3, VisitingType DEF Drop, Typed, TypeOK, Awakened
<1>4. CASE Advance(n)
  <2> DEFINE i == NextIndex(n, next_child_idx[n], ChildResult(n))
             c == Child(n, Cursor(n, i))
  <2>1. /\ i < Arity(n)
        /\ next_child_idx' = [next_child_idx EXCEPT ![n] = i]
        /\ m_state' = [m_state EXCEPT ![n] = "wait_child", ![c] = "init"]
        /\ m_fronts' = AddToFront(m_fronts, c)
    BY <1>4 DEF Advance
  <2>2. i \in Nat
    BY DEF NextIndex, Typed, TypeOK
  <2> HIDE DEF i
  <2>3. Cursor(n, i) \in 0..(Arity(n) - 1)
    <3>1. m_shuffle[n] \in Seq(0..(Arity(n) - 1)) /\ Arity(n) \in Nat
      BY ArityType DEF Typed, TypeOK, Arity
    <3> QED
      BY <2>1, <2>2, <3>1 DEF Cursor
  <2>4. c \in Node
    BY <2>3, ChildType
  <2> HIDE DEF c
  <2>5. m_fronts' \in Seq(Node)
    BY <2>1, <2>4, AddToFrontType DEF Typed, TypeOK
  <2>6. m_state' \in [Node -> States] /\ Awakened'
    BY <2>1, <2>4 DEF Typed, TypeOK, Awakened, Arity, States
  <2>7. next_child_idx' \in [Node -> Nat]
    BY <2>1, <2>2 DEF Typed, TypeOK
  <2>8. Step(n)
    BY <1>4 DEF Advance
  <2> QED
    BY <1>1, <1>4, <2>5, <2>6, <2>7, <2>8, StepType DEF Advance, Typed, TypeOK
<1>5. CASE Return(n)
  <2> DEFINE r == Verdict(n, ChildResult(n))
  <2>1. SetResult(n, r, m_fronts) /\ m_fronts \in Seq(Node)
    BY <1>5 DEF Return, Typed, TypeOK
  <2>2. ~(Kind[n] = "root" /\ Parent[n] = NoNode)
    BY <1>5 DEF Return, Sequential
  <2>3. r \in BOOLEAN
    BY DEF Verdict, ChildResult
  <2> HIDE DEF r
  <2>4. /\ result' \in [Node -> BOOLEAN]
        /\ m_state' \in [Node -> States]
        /\ Awakened'
        /\ m_fronts' \in Seq(Node)
    BY <2>1, <2>2, <2>3, SetResultType
  <2>5. next_child_idx' \in [Node -> Nat]
    BY <1>5 DEF Return, Typed, TypeOK
  <2>6. Step(n)
    BY <1>5 DEF Return
  <2> QED
    BY <1>1, <1>5, <2>4, <2>5, <2>6, StepType DEF Return, Typed, TypeOK
<1>6. CASE RevisitRoot(n)
  <2>1. Arity(n) \in Nat \ {0}
    BY <1>6 DEF RevisitRoot, Awoken, Typed, Awakened
  <2>2. Child(n, 0) \in Node
    BY <2>1, ChildType
  <2>3. m_fronts' \in Seq(Node)
    BY <1>6, <2>2, AddToFrontType DEF RevisitRoot, Typed, TypeOK
  <2>4. "wait_child" \in States \ {"awaken"}
    BY DEF States
  <2> QED
    BY <1>1, <1>6, <2>3, <2>4, EnterType DEF RevisitRoot, Typed, TypeOK
<1>7. CASE RevisitParallel(n)
  <2> DEFINE hit == Interrupted(m_state, next_child_idx, ChildSet(n))
  <2>1. CASE Crash
    BY <2>1, CrashType
  <2>2. CASE ~Crash
    <3>1. Parent[n] \in Node /\ Arity(Parent[n]) \in Nat \ {0}
      BY <1>7, HasParent DEF RevisitParallel
    <3>2. /\ m_state' = [Kill(m_state, hit) EXCEPT ![n] = "dead", ![Parent[n]] = "awaken"]
          /\ result' = [result EXCEPT ![n] = LastDead(n)]
          /\ m_fronts' = AddToFront(m_fronts, Parent[n])
          /\ next_child_idx' = Rewind(next_child_idx, hit)
          /\ Step(n)
      BY <1>7, <2>2 DEF RevisitParallel
    <3> HIDE DEF hit
    <3>3. Kill(m_state, hit) \in [Node -> States]
      BY DEF Kill, Typed, TypeOK, States
    <3>4. \A m \in Node : Kill(m_state, hit)[m] = "awaken" => m_state[m] = "awaken"
      BY DEF Kill
    <3>5. m_state' \in [Node -> States] /\ Awakened'
      BY <3>1, <3>2, <3>3, <3>4 DEF Typed, Awakened, Arity, States
    <3>6. result' \in [Node -> BOOLEAN]
      BY <3>2 DEF LastDead, Typed, TypeOK
    <3>7. m_fronts' \in Seq(Node)
      BY <3>1, <3>2, AddToFrontType DEF Typed, TypeOK
    <3>8. next_child_idx' \in [Node -> Nat]
      BY <3>2, RewindType DEF Typed, TypeOK
    <3> QED
      BY <1>1, <1>7, <2>2, <3>2, <3>5, <3>6, <3>7, <3>8, StepType
      DEF RevisitParallel, Typed, TypeOK
  <2> QED
    BY <2>1, <2>2
<1> QED
  BY <1>2, <1>3, <1>4, <1>5, <1>6, <1>7

\* A stutter changes nothing.
LEMMA StutterTyped == Typed /\ UNCHANGED vars => Typed'
  BY DEF vars, queueVars, flagVars, nodeVars, pollVars, Typed, TypeOK, Awakened

\* Typed is an invariant.
THEOREM TypedAlways == Spec => []Typed
<1>1. Typed /\ Polling => Typed'
  BY EventsTyped, PollTyped, EnterTyped, HaltTyped, RevisitTyped DEF Polling, Visit
<1>2. Typed /\ [Next]_vars => Typed'
  BY <1>1, ApplicationTyped, StutterTyped DEF Next
<1> QED
  BY InitTyped, <1>2, PTL DEF Spec

\* Every reachable state of every agent is one its members can hold, whatever
\* trees it loads, whatever its actions answer and dispatch, and whenever the
\* application calls it.
THEOREM TypeCorrect == Spec => []TypeOK
<1>1. Typed => TypeOK
  BY DEF Typed
<1> QED
  BY TypedAlways, <1>1, PTL

----------------------------------------------------------------------------
(* What the operations on queues do to a queue without duplicates.         *)

\* Queueing a node that is not queued yet adds no duplicate.
LEMMA AppendDistinct ==
  ASSUME NEW q \in Seq(Node), NEW n \in Node, IsInjective(q), n \notin ToSet(q)
  PROVE  IsInjective(Append(q, n))
<1>1. /\ Len(Append(q, n)) = Len(q) + 1
      /\ \A i \in 1..Len(q) : Append(q, n)[i] = q[i]
      /\ Append(q, n)[Len(q) + 1] = n
  OBVIOUS
<1>2. \A i \in 1..Len(q) : q[i] # n
  BY DEF ToSet
<1>3. DOMAIN Append(q, n) = 1..(Len(q) + 1) /\ DOMAIN q = 1..Len(q)
  OBVIOUS
<1> QED
  BY <1>1, <1>2, <1>3 DEF IsInjective

\* add_to_front adds no duplicate.
LEMMA AddToFrontDistinct ==
  ASSUME NEW q \in Seq(Node), NEW n \in Node, IsInjective(q)
  PROVE  IsInjective(AddToFront(q, n))
  BY AppendDistinct DEF AddToFront

\* The empty queue and a queue of one node have no duplicates.
LEMMA ShortDistinct == IsInjective(<<>>) /\ \A n : IsInjective(<<n>>)
  BY DEF IsInjective

\* Nor has what is left of a queue without its first nodes.
LEMMA SubSeqDistinct ==
  ASSUME NEW q \in Seq(Node), IsInjective(q), NEW a \in 1..(Len(q) + 1), NEW b \in 0..Len(q)
  PROVE  IsInjective(SubSeq(q, a, b))
<1>1. SubSeq(q, a, b) = [i \in 1..(b - a + 1) |-> q[a + i - 1]]
  OBVIOUS
<1> QED
  BY <1>1 DEF IsInjective

\* The same of a queue without its first node.
LEMMA TailDistinct ==
  ASSUME NEW q \in Seq(Node), q # <<>>, IsInjective(q)
  PROVE  IsInjective(Tail(q))
<1>1. /\ Tail(q) = SubSeq(q, 2, Len(q))
      /\ 2 \in 1..(Len(q) + 1)
      /\ Len(q) \in 0..Len(q)
  OBVIOUS
<1>2. IsInjective(SubSeq(q, 2, Len(q)))
  BY <1>1, SubSeqDistinct
<1> QED
  BY <1>1, <1>2

\* RemoveAt closes the gap.
LEMMA RemoveAtElements ==
  ASSUME NEW q \in Seq(Node), NEW k \in 1..Len(q)
  PROVE  /\ RemoveAt(q, k) \in Seq(Node)
         /\ Len(RemoveAt(q, k)) = Len(q) - 1
         /\ \A i \in 1..(Len(q) - 1) :
              RemoveAt(q, k)[i] = IF i < k THEN q[i] ELSE q[i + 1]
<1> DEFINE a == SubSeq(q, 1, k - 1)
           b == SubSeq(q, k + 1, Len(q))
<1>1. a \in Seq(Node) /\ Len(a) = k - 1 /\ \A i \in 1..(k - 1) : a[i] = q[i]
  OBVIOUS
<1>2. b \in Seq(Node) /\ Len(b) = Len(q) - k /\ \A i \in 1..(Len(q) - k) : b[i] = q[k + i]
  OBVIOUS
<1>3. RemoveAt(q, k) = a \o b
  BY DEF RemoveAt
<1> HIDE DEF a, b
<1>4. /\ a \o b \in Seq(Node)
      /\ Len(a \o b) = Len(q) - 1
      /\ \A i \in 1..(Len(q) - 1) : (a \o b)[i] = IF i < k THEN a[i] ELSE b[i - (k - 1)]
  <2>1. /\ a \o b \in Seq(Node)
        /\ Len(a \o b) = Len(a) + Len(b)
        /\ \A i \in 1..(Len(a) + Len(b)) :
             (a \o b)[i] = IF i <= Len(a) THEN a[i] ELSE b[i - Len(a)]
    BY <1>1, <1>2, ConcatProperties
  <2>2. Len(q) \in Nat /\ k \in Nat
    OBVIOUS
  <2>3. \A i \in 1..(Len(q) - 1) : i <= k - 1 <=> i < k
    BY <2>2
  <2>4. Len(a) + Len(b) = Len(q) - 1
    BY <1>1, <1>2, <2>2
  <2> QED
    BY <1>1, <2>1, <2>3, <2>4
<1>5. ASSUME NEW i \in 1..(Len(q) - 1)
      PROVE  (a \o b)[i] = IF i < k THEN q[i] ELSE q[i + 1]
  <2>1. CASE i < k
    BY <1>1, <1>4, <2>1
  <2>2. CASE ~(i < k)
    <3>1. i - (k - 1) \in 1..(Len(q) - k) /\ k + (i - (k - 1)) = i + 1
      BY <2>2
    <3> QED
      BY <1>2, <1>4, <2>2, <3>1
  <2> QED
    BY <2>1, <2>2
<1> QED
  BY <1>3, <1>4, <1>5

\* Replacing the k-th node by P and keeping the first occurrence of P only, as
\* the second loop of poll_events does, leaves no duplicates.
LEMMA ReplacedDistinct ==
  ASSUME NEW q \in Seq(Node), IsInjective(q), NEW k \in 1..Len(q), NEW P \in Node
  PROVE  IsInjective(Replaced(q, k, P))
<1> DEFINE r == [q EXCEPT ![k] = P]
<1>1. /\ r \in Seq(Node) /\ Len(r) = Len(q) /\ DOMAIN r = 1..Len(q)
      /\ r[k] = P /\ \A i \in 1..Len(q) : i # k => r[i] = q[i]
  OBVIOUS
<1>2. \A i, j \in 1..Len(q) : q[i] = q[j] => i = j
  BY DEF IsInjective
<1> HIDE DEF r
<1>3. CASE P \notin ToSet(q)
  <2>1. \A i \in 1..Len(q) : q[i] # P
    BY <1>3 DEF ToSet
  <2> QED
    BY <1>1, <1>2, <1>3, <2>1 DEF Replaced, IsInjective, r
<1>4. CASE P \in ToSet(q)
  <2> DEFINE j == CHOOSE i \in DOMAIN q : q[i] = P
  <2>1. j \in 1..Len(q) /\ q[j] = P
    BY <1>4 DEF ToSet
  <2>2. Replaced(q, k, P) = IF j < k THEN RemoveAt(q, k) ELSE RemoveAt(r, j)
    BY <1>4 DEF Replaced, r
  <2> HIDE DEF j
  <2>3. CASE j < k
    <3>1. /\ RemoveAt(q, k) \in Seq(Node)
          /\ Len(RemoveAt(q, k)) = Len(q) - 1
          /\ \A i \in 1..(Len(q) - 1) :
               RemoveAt(q, k)[i] = IF i < k THEN q[i] ELSE q[i + 1]
      BY RemoveAtElements
    <3>2. \A x, y \in 1..(Len(q) - 1) : RemoveAt(q, k)[x] = RemoveAt(q, k)[y] => x = y
      BY <1>2, <3>1
    <3>3. DOMAIN RemoveAt(q, k) = 1..(Len(q) - 1)
      BY <3>1
    <3> QED
      BY <2>2, <2>3, <3>2, <3>3 DEF IsInjective
  <2>4. CASE ~(j < k)
    <3>1. \A i \in 1..Len(q) : q[i] = P => i = j
      BY <1>2, <2>1
    <3>2. \A i \in 1..Len(q) \ {j} : \A l \in 1..Len(q) \ {j} : r[i] = r[l] => i = l
      BY <1>1, <1>2, <3>1
    <3>3. /\ RemoveAt(r, j) \in Seq(Node)
          /\ Len(RemoveAt(r, j)) = Len(r) - 1
          /\ \A i \in 1..(Len(r) - 1) :
               RemoveAt(r, j)[i] = IF i < j THEN r[i] ELSE r[i + 1]
      BY <1>1, <2>1, RemoveAtElements
    <3>4. DOMAIN RemoveAt(r, j) = 1..(Len(q) - 1)
      BY <1>1, <3>3
    <3>5. \A x, y \in 1..(Len(q) - 1) : RemoveAt(r, j)[x] = RemoveAt(r, j)[y] => x = y
      BY <1>1, <2>1, <3>2, <3>3
    <3> QED
      BY <2>2, <2>4, <3>4, <3>5 DEF IsInjective
  <2> QED
    BY <2>3, <2>4
<1> QED
  BY <1>3, <1>4

\* Two queues without duplicates and without a common node make one.
LEMMA ConcatDistinct ==
  ASSUME NEW q \in Seq(Node), NEW r \in Seq(Node), IsInjective(q), IsInjective(r),
         \A i \in 1..Len(r) : r[i] \notin ToSet(q)
  PROVE  IsInjective(q \o r)
<1>1. /\ DOMAIN (q \o r) = 1..(Len(q) + Len(r))
      /\ \A i \in 1..Len(q) : (q \o r)[i] = q[i]
      /\ \A i \in 1..(Len(q) + Len(r)) : i > Len(q) => (q \o r)[i] = r[i - Len(q)]
  OBVIOUS
<1>2. \A i \in 1..Len(q), j \in 1..Len(r) : q[i] # r[j]
  BY DEF ToSet
<1>3. \A i, j \in 1..Len(q) : q[i] = q[j] => i = j
  BY DEF IsInjective
<1>4. \A i, j \in 1..Len(r) : r[i] = r[j] => i = j
  BY DEF IsInjective
<1>5. ASSUME NEW i \in 1..(Len(q) + Len(r)), NEW j \in 1..(Len(q) + Len(r)),
             (q \o r)[i] = (q \o r)[j]
      PROVE  i = j
  <2>1. CASE i <= Len(q) /\ j <= Len(q)
    BY <1>1, <1>3, <1>5, <2>1
  <2>2. CASE i > Len(q) /\ j > Len(q)
    BY <1>1, <1>4, <1>5, <2>2
  <2>3. CASE i <= Len(q) /\ j > Len(q)
    BY <1>1, <1>2, <1>5, <2>3
  <2>4. CASE i > Len(q) /\ j <= Len(q)
    BY <1>1, <1>2, <1>5, <2>4
  <2> QED
    BY <2>1, <2>2, <2>3, <2>4
<1> QED
  BY <1>1, <1>5 DEF IsInjective

----------------------------------------------------------------------------
(* No node is queued twice.                                                *)

\* A call that stops the agent leaves at most one node queued.
LEMMA HaltDistinct ==
  ASSUME FrontsDistinct,
         \/ Crash
         \/ /\ m_fronts' = <<>> \/ \E n \in Node : m_fronts' = <<n>>
            /\ m_pre_fronts' = <<>> \/ UNCHANGED m_pre_fronts
  PROVE  FrontsDistinct'
<1>1. CASE Crash
  BY <1>1 DEF Crash, FrontsDistinct, queueVars
<1>2. CASE ~Crash
  BY <1>2, ShortDistinct DEF FrontsDistinct
<1> QED
  BY <1>1, <1>2

\* Calls from outside a poll queue no node twice.
LEMMA ApplicationDistinct == Typed /\ FrontsDistinct /\ Application => FrontsDistinct'
<1> SUFFICES ASSUME Typed, FrontsDistinct, Application PROVE FrontsDistinct'
  OBVIOUS
<1>1. ASSUME NEW e \in Event, DispatchEvent(e) PROVE FrontsDistinct'
  BY <1>1 DEF DispatchEvent, FrontsDistinct
<1>2. CASE PollCall \/ Enable
  BY <1>2 DEF PollCall, Enable, FrontsDistinct, queueVars
<1>3. CASE Disable \/ LoadSame
  BY <1>3, HaltDistinct DEF Disable, LoadSame, NotifyStop, StopFaults
<1>4. ASSUME NEW r \in Roots, LoadFirst(r) PROVE FrontsDistinct'
  <2>1. r \in Node
    BY TreeAssumption DEF Rooted
  <2> QED
    BY <1>4, <2>1, AddToFrontDistinct DEF LoadFirst, FrontsDistinct, Typed, TypeOK
<1>5. ASSUME NEW r \in Roots \cup {NoNode}, LoadOther(r) PROVE FrontsDistinct'
  <2>1. r \in Node \/ r = NoNode
    BY TreeAssumption DEF Rooted
  <2> QED
    BY <1>5, <2>1, HaltDistinct DEF LoadOther
<1>6. ASSUME NEW n \in Node, NEW r \in BOOLEAN, Complete(n, r) PROVE FrontsDistinct'
  <2>1. ~(Kind[n] = "root" /\ Parent[n] = NoNode)
    BY <1>6 DEF Complete
  <2>2. Parent[n] \in Node
    BY <2>1, HasParent
  <2> QED
    BY <1>6, <2>2, AddToFrontDistinct
    DEF Complete, SetResult, FrontsDistinct, Typed, TypeOK
<1>7. ASSUME NEW n \in Node, CompleteDead(n) PROVE FrontsDistinct'
  BY <1>7, HaltDistinct DEF CompleteDead, NotifyStop, StopFaults
<1> QED
  BY <1>1, <1>2, <1>3, <1>4, <1>5, <1>6, <1>7 DEF Application

\* Nor do the steps of poll_events,
LEMMA EventsDistinct ==
  ASSUME Typed, FrontsDistinct, IgnoreEvent \/ HandleEvent \/ HandleDead
  PROVE  FrontsDistinct'
<1>1. m_fronts \in Seq(Node) /\ m_pre_fronts \in Seq(Node)
  BY DEF Typed, TypeOK
<1>2. CASE IgnoreEvent
  BY <1>2 DEF IgnoreEvent, FrontsDistinct
<1>3. CASE HandleEvent
  <2>1. PICK k \in DOMAIN m_fronts :
          /\ First(k, Head(m_events))
          /\ m_fronts' = Replaced(m_fronts, k, Parent[m_fronts[k]])
    BY <1>3 DEF HandleEvent
  <2>2. m_fronts[k] \in Node /\ Kind[m_fronts[k]] # "root" /\ k \in 1..Len(m_fronts)
    BY <1>1, <2>1 DEF First, Listeners, Listens
  <2>3. Parent[m_fronts[k]] \in Node
    BY <2>2, HasParent
  <2> QED
    BY <1>1, <1>3, <2>1, <2>2, <2>3, ReplacedDistinct DEF HandleEvent, FrontsDistinct
<1>4. CASE HandleDead
  <2>1. PICK k \in DOMAIN m_fronts :
          \/ /\ m_pre_fronts' = <<>>
             /\ m_fronts' = SubSeq(m_fronts, k + 1, Len(m_fronts))
          \/ Crash
    BY <1>4 DEF HandleDead, StopFaults, NotifyStop
  <2>2. k \in 1..Len(m_fronts) /\ Len(m_fronts) \in Nat
    BY <1>1
  <2>3. IsInjective(SubSeq(m_fronts, k + 1, Len(m_fronts)))
    BY <1>1, <2>2, SubSeqDistinct DEF FrontsDistinct
  <2> QED
    BY <2>1, <2>3, ShortDistinct DEF Crash, FrontsDistinct, queueVars
<1> QED
  BY <1>2, <1>3, <1>4

\* The children that a parallel queues are different nodes.
LEMMA PickedDistinct ==
  ASSUME NEW n \in Node, NEW k \in 0..Arity(n), NEW t \in [1..k -> 1..Arity(n)],
         \A i, j \in 1..k : i < j => t[i] < t[j]
  PROVE  /\ [j \in 1..k |-> Children[n][t[j]]] \in Seq(Node)
         /\ IsInjective([j \in 1..k |-> Children[n][t[j]]])
<1>1. Children[n] \in Seq(Node) /\ k \in Nat /\ Arity(n) = Len(Children[n])
  BY ArityType, TreeAssumption DEF Loadable, Arity
<1>2. \A i, j \in 1..k : t[i] = t[j] => i = j
  <2>1. \A i, j \in 1..k : t[i] \in Nat /\ t[j] \in Nat
    BY <1>1
  <2> QED
    BY <1>1, <2>1
<1>3. \A i, j \in 1..Arity(n) : Children[n][i] = Children[n][j] => i = j
  BY <1>1, TreeAssumption DEF Created
<1>4. [j \in 1..k |-> Children[n][t[j]]] \in [1..k -> Node]
  BY <1>1
<1>5. [j \in 1..k |-> Children[n][t[j]]] \in Seq(Node)
  BY <1>1, <1>4
<1> QED
  BY <1>2, <1>3, <1>5 DEF IsInjective

\* the visits that enter a node,
LEMMA EnterDistinct ==
  ASSUME Typed, FrontsDistinct, NEW n \in Node, Step(n), Visiting(n),
         \/ EnterFirst(n) \/ EnterShuffled(n) \/ EnterWeighted(n) \/ EnterParallel(n)
         \/ EnterAction(n) \/ EnterPending(n) \/ EnterWaitEvent(n)
  PROVE  FrontsDistinct'
<1>1. /\ m_fronts \in Seq(Node) /\ IsInjective(m_fronts)
      /\ m_pre_fronts \in Seq(Node) /\ IsInjective(m_pre_fronts) /\ m_pre_fronts # <<>>
  BY DEF Typed, TypeOK, FrontsDistinct, Visiting
<1>2. IsInjective(m_pre_fronts')
  BY <1>1, ShortDistinct, TailDistinct DEF Step
<1>3. ASSUME NEW m \in Node, m_fronts' = AddToFront(m_fronts, m) PROVE FrontsDistinct'
  BY <1>1, <1>2, <1>3, AddToFrontDistinct DEF FrontsDistinct
<1>4. Arity(n) \in Nat
  BY ArityType
<1>5. CASE EnterFirst(n)
  BY <1>3, <1>4, <1>5, ChildType DEF EnterFirst
<1>6. CASE EnterShuffled(n)
  <2>1. PICK t \in [1..Arity(n) -> 0..(Arity(n) - 1)] :
          m_fronts' = AddToFront(m_fronts, Child(n, t[1]))
    BY <1>6 DEF EnterShuffled
  <2>2. t[1] \in 0..(Arity(n) - 1)
    BY <1>4, <1>6, <2>1 DEF EnterShuffled
  <2> QED
    BY <1>3, <2>1, <2>2, ChildType
<1>7. CASE EnterWeighted(n)
  BY <1>3, <1>7, ChildType DEF EnterWeighted
<1>8. CASE EnterParallel(n)
  <2>1. PICK k \in 0..Arity(n) : \E t \in [1..k -> 1..Arity(n)] :
          /\ \A i, j \in 1..k : i < j => t[i] < t[j]
          /\ \A i \in 1..Arity(n) :
               (\E j \in 1..k : t[j] = i) <=> Children[n][i] \notin ToSet(m_fronts)
          /\ m_fronts' = m_fronts \o [j \in 1..k |-> Children[n][t[j]]]
    BY <1>8 DEF EnterParallel
  <2>2. PICK t \in [1..k -> 1..Arity(n)] :
          /\ \A i, j \in 1..k : i < j => t[i] < t[j]
          /\ \A i \in 1..Arity(n) :
               (\E j \in 1..k : t[j] = i) <=> Children[n][i] \notin ToSet(m_fronts)
          /\ m_fronts' = m_fronts \o [j \in 1..k |-> Children[n][t[j]]]
    BY <2>1
  <2> DEFINE r == [j \in 1..k |-> Children[n][t[j]]]
  <2>3. r \in Seq(Node) /\ IsInjective(r)
    BY <2>2, PickedDistinct
  <2>4. Len(r) = k
    BY <1>4
  <2>5. \A j \in 1..k : r[j] \notin ToSet(m_fronts)
    BY <2>2
  <2>6. m_fronts' = m_fronts \o r
    BY <2>2
  <2> HIDE DEF r
  <2> QED
    BY <1>1, <1>2, <2>3, <2>4, <2>5, <2>6, ConcatDistinct DEF FrontsDistinct
<1>9. CASE EnterAction(n)
  <2>1. m_fronts' = AddToFront(m_fronts, Parent[n])
    BY <1>9 DEF EnterAction, SetResult
  <2>2. Parent[n] \in Node
    BY <1>9, HasParent DEF EnterAction
  <2> QED
    BY <1>3, <2>1, <2>2
<1>10. CASE EnterPending(n) \/ EnterWaitEvent(n)
  BY <1>3, <1>10 DEF EnterPending, EnterWaitEvent
<1> QED
  BY <1>5, <1>6, <1>7, <1>8, <1>9, <1>10

\* the visits of a node that a child has woken up,
LEMMA RevisitDistinct ==
  ASSUME Typed, FrontsDistinct, NEW n \in Node, Visiting(n), Typed',
         \/ Requeue(n) \/ Drop(n) \/ Advance(n) \/ Return(n)
         \/ RevisitRoot(n) \/ RevisitParallel(n)
  PROVE  FrontsDistinct'
<1>1. /\ m_fronts \in Seq(Node) /\ IsInjective(m_fronts)
      /\ m_pre_fronts \in Seq(Node) /\ IsInjective(m_pre_fronts) /\ m_pre_fronts # <<>>
  BY DEF Typed, TypeOK, FrontsDistinct, Visiting
<1>2. CASE Crash
  BY <1>2, HaltDistinct
<1>3. CASE Drop(n)
  BY <1>1, <1>3, TailDistinct DEF Drop, FrontsDistinct
<1>4. CASE Requeue(n)
  BY <1>1, <1>4, TailDistinct, AddToFrontDistinct DEF Requeue, FrontsDistinct
<1>5. ASSUME Step(n), NEW m \in Node, m_fronts' = AddToFront(m_fronts, m)
      PROVE  FrontsDistinct'
  <2>1. IsInjective(m_pre_fronts')
    BY <1>1, <1>5, ShortDistinct, TailDistinct DEF Step
  <2> QED
    BY <1>1, <1>5, <2>1, AddToFrontDistinct DEF FrontsDistinct
<1>6. CASE Advance(n)
  <2> DEFINE i == NextIndex(n, next_child_idx[n], ChildResult(n))
             c == Child(n, Cursor(n, i))
  <2>1. i < Arity(n) /\ Step(n) /\ m_fronts' = AddToFront(m_fronts, c)
    BY <1>6 DEF Advance
  <2>2. i \in Nat
    BY DEF NextIndex, Typed, TypeOK
  <2> HIDE DEF i
  <2>3. Cursor(n, i) \in 0..(Arity(n) - 1)
    <3>1. m_shuffle[n] \in Seq(0..(Arity(n) - 1)) /\ Arity(n) \in Nat
      BY ArityType DEF Typed, TypeOK, Arity
    <3> QED
      BY <2>1, <2>2, <3>1 DEF Cursor
  <2> QED
    BY <1>5, <2>1, <2>3, ChildType
<1>7. ASSUME ~Crash, Return(n) \/ RevisitParallel(n) PROVE FrontsDistinct'
  <2>1. Step(n) /\ m_fronts' = AddToFront(m_fronts, Parent[n])
    BY <1>7 DEF Return, RevisitParallel, SetResult
  <2>2. Parent[n] \in Node
    BY <1>7, HasParent DEF Return, RevisitParallel, Sequential
  <2> QED
    BY <1>5, <2>1, <2>2
<1>8. CASE RevisitRoot(n)
  <2>1. Arity(n) \in Nat \ {0}
    BY <1>8 DEF RevisitRoot, Awoken, Typed, Awakened
  <2> QED
    BY <1>5, <1>8, <2>1, ChildType DEF RevisitRoot
<1> QED
  BY <1>2, <1>3, <1>4, <1>6, <1>7, <1>8

\* Visits that stop the agent.
LEMMA VisitHaltDistinct ==
  ASSUME FrontsDistinct, NEW n \in Node,
         \/ EnterUnknown(n) \/ EnterReset(n) \/ EnterHalts(n) \/ EnterFaults(n)
         \/ AdvanceHalts(n)
  PROVE  FrontsDistinct'
  BY HaltDistinct
  DEF EnterUnknown, EnterReset, EnterHalts, EnterFaults, AdvanceHalts, StopFaults, NotifyStop

\* and the steps of poll around a pass.
LEMMA PollDistinct ==
  ASSUME Typed, FrontsDistinct,
         \/ PollDisabled \/ PollRound \/ BeginPass
         \/ PollAgain \/ PollDone \/ PollRestart \/ PollRestartFaults
  PROVE  FrontsDistinct'
<1>1. CASE PollDisabled \/ PollRound \/ PollAgain \/ PollDone
  BY <1>1 DEF PollDisabled, PollRound, PollAgain, PollDone, FrontsDistinct, queueVars
<1>2. CASE BeginPass
  BY <1>2, ShortDistinct DEF BeginPass, FrontsDistinct
<1>3. CASE PollRestart
  <2>1. cur_root_node \in Node /\ m_fronts \in Seq(Node)
    BY <1>3, TreeAssumption DEF PollRestart, Typed, TypeOK, Rooted
  <2> QED
    BY <1>3, <2>1, AddToFrontDistinct DEF PollRestart, FrontsDistinct
<1>4. CASE PollRestartFaults
  BY <1>4, HaltDistinct DEF PollRestartFaults
<1> QED
  BY <1>1, <1>2, <1>3, <1>4

\* No node is queued twice in m_fronts or twice in the rest of a pass: add_to_
\* front, the re-queueing of poll_events and the batch of a parallel all keep
\* the queues free of duplicates.
THEOREM NoneQueuedTwice == Spec => []FrontsDistinct
<1>1. Init => FrontsDistinct
  BY ShortDistinct DEF Init, FrontsDistinct
<1>2. ASSUME Typed, Typed', FrontsDistinct, [Next]_vars PROVE FrontsDistinct'
  <2>1. CASE Application
    BY <1>2, <2>1, ApplicationDistinct
  <2>2. ASSUME NEW n \in Node, Visit(n) PROVE FrontsDistinct'
    BY <1>2, <2>2, EnterDistinct, RevisitDistinct, VisitHaltDistinct
    DEF Visit, Fresh, Awoken, EnterFirst, EnterShuffled, EnterWeighted, EnterParallel,
        EnterAction, EnterPending, EnterWaitEvent, Requeue, Drop, Advance, Return,
        RevisitRoot, RevisitParallel
  <2>3. CASE Polling
    BY <1>2, <2>2, <2>3, EventsDistinct, PollDistinct DEF Polling
  <2>4. CASE UNCHANGED vars
    BY <1>2, <2>4 DEF vars, queueVars, FrontsDistinct
  <2> QED
    BY <1>2, <2>1, <2>3, <2>4 DEF Next
<1>3. Spec => []Typed
  BY TypedAlways
<1> QED
  BY <1>1, <1>2, <1>3, PTL DEF Spec

----------------------------------------------------------------------------
(* A poll that ends in the regular way has nothing left to do.             *)

Blocked(q) == \A i \in DOMAIN q : m_state[q[i]] = "blocking"

\* As long as a pass of an enabled agent has run no node, it has only queued
\* blocking ones, and nobody has dispatched an event.
Settling ==
  pc = "fronts" /\ m_enabled /\ ~any_ready => m_events = <<>> /\ Blocked(m_fronts)

\* The calls of the application do not happen inside a pass.
LEMMA ApplicationSettling == Settling /\ Application => Settling'
<1> SUFFICES ASSUME Application PROVE pc' # "fronts"
  BY DEF Settling
<1> USE DEF queueVars, flagVars, nodeVars, pollVars, Crash, Poll
<1>1. ASSUME NEW e \in Event, DispatchEvent(e) PROVE pc' # "fronts"
  BY <1>1 DEF DispatchEvent
<1>2. CASE PollCall \/ Enable
  BY <1>2 DEF PollCall, Enable
<1>3. CASE Disable \/ LoadSame
  BY <1>3 DEF Disable, LoadSame, StopFaults
<1>4. ASSUME NEW r, LoadFirst(r) \/ LoadOther(r) PROVE pc' # "fronts"
  BY <1>4 DEF LoadFirst, LoadOther
<1>5. ASSUME NEW n, NEW r, Complete(n, r) PROVE pc' # "fronts"
  BY <1>5 DEF Complete
<1>6. ASSUME NEW n, CompleteDead(n) PROVE pc' # "fronts"
  BY <1>6 DEF CompleteDead, StopFaults
<1> QED
  BY <1>1, <1>2, <1>3, <1>4, <1>5, <1>6 DEF Application

\* Only the visits that requeue or drop a node leave any_ready as it is, unless
\* the agent stops.
LEMMA VisitSettling ==
  ASSUME Typed, Settling, NEW n \in Node, Visit(n)
  PROVE  Settling'
<1> USE DEF flagVars, pollVars
<1>1. CASE Requeue(n)
  <2>1. m_fronts \in Seq(Node)
    BY DEF Typed, TypeOK
  <2>2. m_state[n] = "blocking" /\ m_fronts' = AddToFront(m_fronts, n) /\ UNCHANGED m_state
    BY <1>1 DEF Requeue, nodeVars
  <2>3. Blocked(m_fronts) => Blocked(AddToFront(m_fronts, n))
    BY <2>1, <2>2 DEF AddToFront, Blocked
  <2> QED
    BY <1>1, <2>2, <2>3 DEF Requeue, Settling, Blocked
<1>2. CASE Drop(n)
  BY <1>2 DEF Drop, Settling, Blocked, nodeVars
<1>3. CASE Step(n)
  BY <1>3 DEF Step, Settling
<1>4. CASE Crash
  BY <1>4 DEF Crash, Settling
<1>5. CASE m_enabled' = FALSE
  BY <1>5 DEF Settling
<1> QED
  BY <1>1, <1>2, <1>3, <1>4, <1>5
  DEF Visit, EnterFirst, EnterShuffled, EnterWeighted, EnterParallel, EnterAction,
      EnterPending, EnterUnknown, EnterWaitEvent, EnterReset, EnterHalts, EnterFaults,
      Advance, Return, AdvanceHalts, RevisitRoot, RevisitParallel, NotifyStop, StopFaults

\* The steps of poll around the visits.
LEMMA PollSettling ==
  ASSUME Settling,
         \/ PollDisabled \/ PollRound \/ IgnoreEvent \/ HandleEvent \/ HandleDead
         \/ BeginPass \/ PollAgain \/ PollDone \/ PollRestart \/ PollRestartFaults
  PROVE  Settling'
<1>1. CASE BeginPass
  BY <1>1 DEF BeginPass, Settling, Blocked
<1>2. CASE ~BeginPass
  <2>1. pc' # "fronts"
    BY <1>2 DEF PollDisabled, PollRound, IgnoreEvent, HandleEvent, HandleDead, Processing,
                PollAgain, PollDone, PollRestart, PollRestartFaults, Crash, StopFaults,
                pollVars
  <2> QED
    BY <2>1 DEF Settling
<1> QED
  BY <1>1, <1>2

\* No other step than PollDone ends a poll.
LEMMA OnlyPollDone ==
  ASSUME Next, m_during_poll, ~m_during_poll'
  PROVE  PollDone
<1> USE DEF queueVars, flagVars, nodeVars, pollVars, Crash, Poll
<1>1. ~Application
  BY DEF Application, DispatchEvent, PollCall, Enable, Disable, LoadFirst, LoadSame,
         LoadOther, Complete, CompleteDead, StopFaults
<1>2. ASSUME NEW n \in Node PROVE ~Visit(n)
  BY DEF Visit, Requeue, Drop, Step, EnterFirst, EnterShuffled, EnterWeighted,
      EnterParallel, EnterAction, EnterPending, EnterUnknown, EnterWaitEvent, EnterReset,
      EnterHalts, EnterFaults, Advance, Return, AdvanceHalts, RevisitRoot,
      RevisitParallel, StopFaults
<1> QED
  BY <1>1, <1>2 DEF Next, Polling, PollDisabled, PollRound, IgnoreEvent, HandleEvent,
      HandleDead, BeginPass, PollAgain, PollRestart, PollRestartFaults, StopFaults

\* When a poll ends in the regular way on an agent that is still enabled, no
\* event is pending and every queued node blocks: whatever nodes and events the
\* rounds of the poll made, one of the rounds took them up.
THEOREM PollsSettle == Spec => PollSettles
<1>1. Init => Settling
  BY DEF Init, Settling
<1>2. Typed /\ Settling /\ [Next]_vars => Settling'
  <2>1. Settling /\ UNCHANGED vars => Settling'
    BY DEF vars, queueVars, flagVars, nodeVars, pollVars, Settling, Blocked
  <2> QED
    BY <2>1, ApplicationSettling, VisitSettling, PollSettling DEF Next, Polling
<1>3. Settling /\ [Next]_vars =>
        [m_during_poll /\ ~m_during_poll' /\ m_enabled' =>
           /\ m_events' = <<>>
           /\ \A i \in DOMAIN m_fronts' : m_state'[m_fronts'[i]] = "blocking"]_vars
  <2> SUFFICES ASSUME Settling, Next, m_during_poll, ~m_during_poll', m_enabled'
               PROVE  m_events' = <<>> /\ Blocked(m_fronts)'
    BY DEF Blocked
  <2>1. PollDone
    BY OnlyPollDone
  <2>2. m_events = <<>> /\ Blocked(m_fronts)
    BY <2>1 DEF PollDone, EndOfPass, Settling
  <2> QED
    BY <2>1, <2>2 DEF PollDone, queueVars, nodeVars, Blocked
<1> QED
  BY TypedAlways, <1>1, <1>2, <1>3, PTL DEF Spec, PollSettles
============================================================================
