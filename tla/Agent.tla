------------------------------- MODULE Agent -------------------------------
(***************************************************************************)
(* One agent: runtime/src/agent.cpp and the node classes of                *)
(* runtime/src/nodes.cpp it drives.                                        *)
(*                                                                         *)
(* The agent is single threaded, so what interleaves is its own work list: *)
(* a poll alternates between the pending events and a pass over m_fronts,  *)
(* nodes of several branches of a parallel take their steps in queue       *)
(* order, and whatever one visit changes is met by the later ones.  Each   *)
(* handled event and each visited node is one step of the model, with      *)
(* everything it calls (on_enter, visit_child, set_result, backtrace,      *)
(* interrupt, notify_stop) inside that step.  The calls an application     *)
(* makes happen while no poll is on the stack (pc = "idle"); an action may *)
(* dispatch events from inside a poll.                                     *)
(*                                                                         *)
(* Names are those of the source.  Child indices are 0-based, as in it.    *)
(***************************************************************************)
EXTENDS BTree

CONSTANTS
  Event,      \* event names
  NoEvent,    \* what EventOf gives for a node whose "event" entry is missing
  EventOf,    \* the event every wait_event is configured with
  Weights,    \* the "prob" entry of every probility node
  Outcomes,   \* what an action may do when it is entered
  Raises,     \* the events an action may dispatch while it is entered
  MaxEvents   \* bound on pending events: the vector is unbounded

\* "true" and "false" are the values of a synchronous action, "pending" is the
\* empty optional of an asynchronous one, "unknown" an action name the agent
\* has not registered, "invalid" a node without usable arguments (load_action_
\* config fails, or a blackboard key is missing).
OutcomeKinds == {"true", "false", "pending", "unknown", "invalid"}

ASSUME ParameterAssumption ==
  /\ NoEvent \notin Event
  /\ EventOf \in [Node -> Event \cup {NoEvent}]
  /\ Weights \in [Node -> Seq(Nat)]
  /\ Outcomes \in [Node -> SUBSET OutcomeKinds]
  /\ Raises \in [Node -> SUBSET Event]
  /\ MaxEvents \in Nat

VARIABLES
  \* members of agent
  cur_root_node, m_fronts, m_pre_fronts, m_events,
  m_enabled, m_during_poll, reset_flag,
  \* members of every node
  m_state, result, next_child_idx, m_shuffle,
  visited,      \* its create_children and on_enter ran: m_children, the loaded
                \* event name and m_shuffle are no longer empty
  \* where the code is
  pc,           \* "idle", or the place in agent::poll
  poll_result,  \* what poll_events returned in this round
  any_ready,    \* ready_count > 0 in this pass
  \* history
  intact        \* the loaded tree has been neither stopped nor crashed

queueVars == <<m_fronts, m_pre_fronts, m_events>>
flagVars  == <<m_enabled, m_during_poll, reset_flag>>
nodeVars  == <<m_state, result, next_child_idx, m_shuffle, visited>>
pollVars  == <<pc, poll_result, any_ready>>
vars == <<cur_root_node, queueVars, flagVars, nodeVars, pollVars, intact>>

States ==
  {"init", "entering", "awaken", "revisiting", "blocking", "wait_child", "dead"}

TypeOK ==
  /\ cur_root_node \in Roots \cup {NoNode}
  /\ m_fronts \in Seq(Node)
  /\ m_pre_fronts \in Seq(Node)
  /\ m_events \in Seq(Event)
  /\ m_enabled \in BOOLEAN
  /\ m_during_poll \in BOOLEAN
  /\ reset_flag \in BOOLEAN
  /\ m_state \in [Node -> States]
  /\ result \in [Node -> BOOLEAN]
  /\ next_child_idx \in [Node -> Nat]
  /\ m_shuffle \in [Node -> Seq(Nat)]
  /\ \A n \in Node : m_shuffle[n] \in Seq(0..(Len(Children[n]) - 1))
  /\ visited \in SUBSET Node
  /\ pc \in {"idle", "loop", "events", "fronts", "crashed"}
  /\ poll_result \in BOOLEAN
  /\ any_ready \in BOOLEAN
  /\ intact \in BOOLEAN

Init ==
  /\ cur_root_node = NoNode
  /\ m_fronts = <<>>
  /\ m_pre_fronts = <<>>
  /\ m_events = <<>>
  /\ m_enabled = FALSE
  /\ m_during_poll = FALSE
  /\ reset_flag = FALSE
  /\ m_state = [n \in Node |-> "init"]
  /\ result = [n \in Node |-> FALSE]
  /\ next_child_idx = [n \in Node |-> 0]
  /\ m_shuffle = [n \in Node |-> <<>>]
  /\ visited = {}
  /\ pc = "idle"
  /\ poll_result = FALSE
  /\ any_ready = FALSE
  /\ intact = FALSE

----------------------------------------------------------------------------
(* Queues, and the calls several handlers share.                           *)

\* Mutant: without the search for n.
AddToFrontAgain(q, n) == Append(q, n)

AddToFront(q, n) == IF n \in ToSet(q) THEN q ELSE Append(q, n)

Arity(n) == Len(Children[n])

Child(n, i) == Children[n][i + 1]

\* Mutant: the index is taken as the position.
CursorUnshuffled(n, i) == i

\* The position in m_children that a composite is at.  A random_seq looks its
\* index up in m_shuffle; past the end of m_shuffle the code reads one element
\* too far, but by then every child is dead and interrupting one does nothing.
Cursor(n, i) ==
  IF Kind[n] = "random_seq" /\ i < Len(m_shuffle[n]) THEN m_shuffle[n][i + 1] ELSE i

\* The children that interrupt passes on to.
Forwards(idx, n) ==
  CASE n \notin visited -> {}
    [] n \in visited /\ Kind[n] = "parallel" -> ChildSet(n)
    [] OTHER -> IF Cursor(n, idx[n]) < Arity(n) THEN {Child(n, Cursor(n, idx[n]))} ELSE {}

\* Mutant: interrupt is not passed on to the children.
InterruptedFlat(st, idx, S) == {s \in S : st[s] # "dead"}

\* Mutant: a node that is woken up is left to return by itself.
InterruptedAsleep(st, idx, S) ==
  {m \in Node : \E s \in S \cap Lineage[m] :
     \A a \in (Lineage[m] \ Lineage[s]) \cup {s} :
       st[a] \notin {"dead", "awaken"} /\ (a = s \/ a \in Forwards(idx, Parent[a]))}

\* The nodes that interrupting all of S kills: interrupt stops at a dead node
\* and otherwise goes on below it.
Interrupted(st, idx, S) ==
  {m \in Node : \E s \in S \cap Lineage[m] :
     \A a \in (Lineage[m] \ Lineage[s]) \cup {s} :
       st[a] # "dead" /\ (a = s \/ a \in Forwards(idx, Parent[a]))}

\* random_seq::interrupt indexes m_shuffle without a look at its size: on a
\* random_seq that was never entered it is empty, and the read faults.
Faults(hit) == \E n \in hit : Kind[n] = "random_seq" /\ m_shuffle[n] = <<>>

Kill(st, hit) == [n \in Node |-> IF n \in hit THEN "dead" ELSE st[n]]

Rewind(idx, hit) == [n \in Node |-> IF n \in hit THEN 0 ELSE idx[n]]

Crash ==
  /\ pc' = "crashed"
  /\ intact' = FALSE
  /\ UNCHANGED <<cur_root_node, queueVars, flagVars, nodeVars, poll_result, any_ready>>

\* notify_stop, called when the nodes' states are st and their indices idx:
\* interrupt what is queued in q (the caller's m_fronts) and empty the queues.
\* Nodes waiting in m_pre_fronts are dropped without being interrupted.
NotifyStop(st, idx, q) ==
  LET hit == Interrupted(st, idx, ToSet(q)) IN
  /\ ~Faults(hit)
  /\ m_state' = Kill(st, hit)
  /\ next_child_idx' = Rewind(idx, hit)
  /\ m_pre_fronts' = <<>>
  /\ m_enabled' = FALSE
  /\ intact' = FALSE

\* The other outcome of the same call.
StopFaults(st, idx, q) == Faults(Interrupted(st, idx, ToSet(q))) /\ Crash

\* The nested or the outermost call of poll.
Poll ==
  /\ pc' = IF m_during_poll THEN pc ELSE "loop"
  /\ m_during_poll' = TRUE

----------------------------------------------------------------------------
(* Calls of the application.                                               *)

DispatchEvent(e) ==
  /\ pc = "idle"
  /\ Len(m_events) < MaxEvents
  /\ m_events' = Append(m_events, e)
  /\ Poll
  /\ UNCHANGED <<cur_root_node, m_fronts, m_pre_fronts, m_enabled, reset_flag,
                 nodeVars, poll_result, any_ready, intact>>

PollCall ==
  /\ pc = "idle"
  /\ ~m_during_poll
  /\ Poll
  /\ UNCHANGED <<cur_root_node, queueVars, m_enabled, reset_flag, nodeVars,
                 poll_result, any_ready, intact>>

Enable ==
  /\ pc = "idle"
  /\ ~m_enabled
  /\ m_enabled' = TRUE
  /\ Poll
  /\ UNCHANGED <<cur_root_node, queueVars, reset_flag, nodeVars, poll_result,
                 any_ready, intact>>

Disable ==
  /\ pc = "idle"
  /\ m_enabled
  /\ \/ /\ NotifyStop(m_state, next_child_idx, m_fronts)
        /\ m_fronts' = <<>>
        /\ m_events' = <<>>
        /\ UNCHANGED <<cur_root_node, m_during_poll, reset_flag, result, m_shuffle,
                       visited, pollVars>>
     \/ StopFaults(m_state, next_child_idx, m_fronts)

\* load_btree before any tree is loaded, or after a load failed.
LoadFirst(r) ==
  /\ pc = "idle"
  /\ cur_root_node = NoNode
  /\ cur_root_node' = r
  /\ m_fronts' = AddToFront(m_fronts, r)
  /\ intact' = TRUE
  /\ UNCHANGED <<m_pre_fronts, m_events, flagVars, nodeVars, pollVars>>

\* load_btree with the name of the loaded tree only resets the agent: the node
\* objects stay as they are.
LoadSame ==
  /\ pc = "idle"
  /\ cur_root_node # NoNode
  /\ \/ /\ NotifyStop(m_state, next_child_idx, m_fronts)
        /\ m_fronts' = <<>>
        /\ m_events' = <<>>
        /\ reset_flag' = TRUE
        /\ UNCHANGED <<cur_root_node, m_during_poll, result, m_shuffle, visited,
                       pollVars>>
     \/ StopFaults(m_state, next_child_idx, m_fronts)

\* load_btree with another name deletes the old objects and makes a new root;
\* r = NoNode when that tree cannot be created.
LoadOther(r) ==
  /\ pc = "idle"
  /\ cur_root_node # NoNode
  /\ r # cur_root_node
  /\ LET fresh == Below(cur_root_node)
         hit == Interrupted(m_state, next_child_idx, ToSet(m_fronts)) IN
     \/ /\ ~Faults(hit)
        /\ m_state' = [n \in Node |-> IF n \in fresh THEN "init" ELSE m_state[n]]
        /\ result' = [n \in Node |-> IF n \in fresh THEN FALSE ELSE result[n]]
        /\ next_child_idx' = Rewind(next_child_idx, fresh)
        /\ m_shuffle' = [n \in Node |-> IF n \in fresh THEN <<>> ELSE m_shuffle[n]]
        /\ visited' = visited \ fresh
        /\ m_fronts' = IF r = NoNode THEN <<>> ELSE <<r>>
        /\ m_pre_fronts' = <<>>
        /\ m_events' = <<>>
        /\ m_enabled' = FALSE
        /\ reset_flag' = TRUE
        /\ cur_root_node' = r
        /\ intact' = (r # NoNode)
        /\ UNCHANGED <<m_during_poll, pollVars>>
     \/ Faults(hit) /\ Crash

\* Mutant: backtrace wakes the parent without queueing it.
SetResultQuietly(n, r, q) ==
  /\ result' = [result EXCEPT ![n] = r]
  /\ m_state' = [m_state EXCEPT ![n] = "dead", ![Parent[n]] = "awaken"]
  /\ m_fronts' = q

\* set_result on a node that is not dead, with backtrace: the node dies, its
\* parent wakes up, and q (the m_fronts without the node) gets the parent.
SetResult(n, r, q) ==
  /\ result' = [result EXCEPT ![n] = r]
  /\ m_state' = [m_state EXCEPT ![n] = "dead", ![Parent[n]] = "awaken"]
  /\ m_fronts' = AddToFront(q, Parent[n])

\* An action whose result somebody may report later.
Asynchronous(n) == Kind[n] = "action" /\ "pending" \in Outcomes[n]

\* The owner of an asynchronous action reports its result.  The node stays
\* queued; the next pass drops it.
Complete(n, r) ==
  /\ pc = "idle"
  /\ Kind[n] = "action"
  /\ m_state[n] = "blocking"
  /\ SetResult(n, r, m_fronts)
  /\ Poll
  /\ UNCHANGED <<cur_root_node, m_pre_fronts, m_events, m_enabled, reset_flag,
                 next_child_idx, m_shuffle, visited, poll_result, any_ready, intact>>

\* Mutant: the state of the node is not looked at.
CompleteDeadUnchecked(n) ==
  /\ pc = "idle"
  /\ Asynchronous(n)
  /\ n \in visited
  /\ m_state[n] = "dead"
  /\ SetResult(n, TRUE, m_fronts)
  /\ Poll
  /\ UNCHANGED <<cur_root_node, m_pre_fronts, m_events, m_enabled, reset_flag,
                 next_child_idx, m_shuffle, visited, poll_result, any_ready, intact>>

\* The owner reports a result, or a second one, when the node has returned or has
\* been interrupted: set_result stops the agent.
CompleteDead(n) ==
  /\ pc = "idle"
  /\ Asynchronous(n)
  /\ n \in visited
  /\ m_state[n] = "dead"
  /\ \/ /\ NotifyStop(m_state, next_child_idx, m_fronts)
        /\ m_fronts' = <<>>
        /\ m_events' = <<>>
        /\ UNCHANGED <<cur_root_node, m_during_poll, reset_flag, result, m_shuffle,
                       visited, pollVars>>
     \/ StopFaults(m_state, next_child_idx, m_fronts)

----------------------------------------------------------------------------
(* agent::poll and poll_events.                                            *)

\* poll returns from the middle of its loop and leaves m_during_poll set.
PollDisabled ==
  /\ pc = "loop"
  /\ ~m_enabled
  /\ pc' = "idle"
  /\ UNCHANGED <<cur_root_node, queueVars, flagVars, nodeVars, poll_result,
                 any_ready, intact>>

PollRound ==
  /\ pc = "loop"
  /\ m_enabled
  /\ pc' = "events"
  /\ poll_result' = (m_events # <<>>)
  /\ any_ready' = FALSE
  /\ UNCHANGED <<cur_root_node, queueVars, flagVars, nodeVars, intact>>

Listens(n, e) == Kind[n] = "wait_event" /\ n \in visited /\ EventOf[n] = e

Listeners(e) == {k \in DOMAIN m_fronts : Listens(m_fronts[k], e)}

\* The k-th queued node is the first that listens, whatever state it is in.
First(k, e) == k \in Listeners(e) /\ \A j \in Listeners(e) : k <= j

\* Re-queueing with P added in the place of the k-th node: add_to_front keeps
\* the first occurrence only.
Replaced(q, k, P) ==
  IF P \notin ToSet(q) THEN [q EXCEPT ![k] = P]
  ELSE LET j == CHOOSE i \in DOMAIN q : q[i] = P IN
       IF j < k THEN RemoveAt(q, k) ELSE RemoveAt([q EXCEPT ![k] = P], j)

Processing == pc = "events" /\ m_events # <<>>

\* Mutant: an event that nobody listens to is kept for the next round.
IgnoreEventKept ==
  /\ Processing
  /\ Listeners(Head(m_events)) = {}
  /\ m_events' = Append(Tail(m_events), Head(m_events))
  /\ UNCHANGED <<cur_root_node, m_fronts, m_pre_fronts, flagVars, nodeVars,
                 pollVars, intact>>

IgnoreEvent ==
  /\ Processing
  /\ Listeners(Head(m_events)) = {}
  /\ m_events' = Tail(m_events)
  /\ UNCHANGED <<cur_root_node, m_fronts, m_pre_fronts, flagVars, nodeVars,
                 pollVars, intact>>

HandleEvent ==
  /\ Processing
  /\ \E k \in DOMAIN m_fronts : LET n == m_fronts[k] IN
     /\ First(k, Head(m_events))
     /\ m_state[n] # "dead"
     /\ result' = [result EXCEPT ![n] = TRUE]
     /\ m_state' = [m_state EXCEPT ![n] = "dead", ![Parent[n]] = "awaken"]
     /\ m_fronts' = Replaced(m_fronts, k, Parent[n])
  /\ m_events' = Tail(m_events)
  /\ UNCHANGED <<cur_root_node, m_pre_fronts, flagVars, next_child_idx, m_shuffle,
                 visited, pollVars, intact>>

\* The listener was interrupted and is still queued: set_result stops the agent
\* in the middle of the two loops.  Only the nodes already re-queued are
\* interrupted, the rest is re-queued afterwards, and m_events is cleared while
\* it is iterated: the remaining events are seen, or not.
HandleDead ==
  /\ Processing
  /\ \E k \in DOMAIN m_fronts : LET before == SubSeq(m_fronts, 1, k - 1) IN
     /\ First(k, Head(m_events))
     /\ m_state[m_fronts[k]] = "dead"
     /\ \/ /\ NotifyStop(m_state, next_child_idx, before)
           /\ m_fronts' = SubSeq(m_fronts, k + 1, Len(m_fronts))
           /\ m_events' \in {<<>>, Tail(m_events)}
           /\ UNCHANGED <<cur_root_node, m_during_poll, reset_flag, result, m_shuffle,
                          visited, pollVars>>
        \/ StopFaults(m_state, next_child_idx, before)

----------------------------------------------------------------------------
(* poll_fronts.  m_pre_fronts is what is left of the pass.                 *)

BeginPass ==
  /\ pc = "events"
  /\ m_events = <<>>
  /\ m_pre_fronts' = m_fronts
  /\ m_fronts' = <<>>
  /\ pc' = "fronts"
  /\ UNCHANGED <<cur_root_node, m_events, flagVars, nodeVars, poll_result, any_ready,
                 intact>>

Visiting(n) == pc = "fronts" /\ m_pre_fronts # <<>> /\ n = Head(m_pre_fronts)

Requeue(n) ==
  /\ Visiting(n)
  /\ m_state[n] = "blocking"
  /\ m_fronts' = AddToFront(m_fronts, n)
  /\ m_pre_fronts' = Tail(m_pre_fronts)
  /\ UNCHANGED <<cur_root_node, m_events, flagVars, nodeVars, pollVars, intact>>

Drop(n) ==
  /\ Visiting(n)
  /\ m_state[n] \notin {"init", "awaken", "blocking"}
  /\ m_pre_fronts' = Tail(m_pre_fronts)
  /\ UNCHANGED <<cur_root_node, m_fronts, m_events, flagVars, nodeVars, pollVars, intact>>

\* What every visit of a ready node does, whatever its kind, unless the agent
\* is stopped by it.  On an agent that poll_events stopped before the pass, the
\* first visit is also the last.
Step(n) ==
  /\ m_pre_fronts' = IF m_enabled THEN Tail(m_pre_fronts) ELSE <<>>
  /\ any_ready' = TRUE
  /\ UNCHANGED <<cur_root_node, flagVars, pc, poll_result, intact>>

Fresh(n) == Visiting(n) /\ m_state[n] = "init"

\* Mutant: the children keep the state of their last run.
OnEnterStale(n, s) == [m_state EXCEPT ![n] = s]

\* node::on_enter when the node ends up in state s.
OnEnter(n, s) ==
  [m \in Node |-> IF m = n THEN s ELSE IF m \in ChildSet(n) THEN "init" ELSE m_state[m]]

\* Mutant: the index of the last run is kept.
ReenterKept(n, i) == next_child_idx' = next_child_idx /\ visited' = visited \cup {n}

Reenter(n, i) ==
  /\ next_child_idx' = [next_child_idx EXCEPT ![n] = i]
  /\ visited' = visited \cup {n}

EnterFirst(n) ==
  /\ Fresh(n)
  /\ Kind[n] \notin LeafKinds \cup {"random_seq", "probility", "parallel"}
  /\ Arity(n) > 0
  /\ m_state' = OnEnter(n, "wait_child")
  /\ m_fronts' = AddToFront(m_fronts, Child(n, 0))
  /\ result' = [result EXCEPT ![n] = FALSE]
  /\ Reenter(n, 0)
  /\ Step(n)
  /\ UNCHANGED <<m_events, m_shuffle>>

EnterShuffled(n) ==
  /\ Fresh(n)
  /\ Kind[n] = "random_seq"
  /\ Arity(n) > 0
  /\ \E s \in [1..Arity(n) -> 0..(Arity(n) - 1)] :
       /\ IsInjective(s)
       /\ m_shuffle' = [m_shuffle EXCEPT ![n] = s]
       /\ m_fronts' = AddToFront(m_fronts, Child(n, s[1]))
  /\ m_state' = OnEnter(n, "wait_child")
  /\ result' = [result EXCEPT ![n] = FALSE]
  /\ Reenter(n, 0)
  /\ Step(n)
  /\ UNCHANGED m_events

EnterWeighted(n) ==
  /\ Fresh(n)
  /\ Kind[n] = "probility"
  /\ Len(Weights[n]) = Arity(n)
  /\ \E i \in 0..(Arity(n) - 1) :
       /\ Weights[n][i + 1] > 0
       /\ m_fronts' = AddToFront(m_fronts, Child(n, i))
       /\ Reenter(n, i)
  /\ m_state' = OnEnter(n, "wait_child")
  /\ result' = [result EXCEPT ![n] = FALSE]
  /\ Step(n)
  /\ UNCHANGED <<m_events, m_shuffle>>

\* Every child is queued, in order; one that is queued already keeps its place.
EnterParallel(n) ==
  /\ Fresh(n)
  /\ Kind[n] = "parallel"
  /\ Arity(n) > 0
  /\ \E k \in 0..Arity(n) : \E t \in [1..k -> 1..Arity(n)] :
       /\ \A i, j \in 1..k : i < j => t[i] < t[j]
       /\ \A i \in 1..Arity(n) :
            (\E j \in 1..k : t[j] = i) <=> Children[n][i] \notin ToSet(m_fronts)
       /\ m_fronts' = m_fronts \o [j \in 1..k |-> Children[n][t[j]]]
  /\ m_state' = OnEnter(n, "wait_child")
  /\ result' = [result EXCEPT ![n] = FALSE]
  /\ Reenter(n, 0)
  /\ Step(n)
  /\ UNCHANGED <<m_events, m_shuffle>>

\* Nothing to run: on_enter stops the agent and leaves the node "entering".
EnterHalts(n) ==
  /\ Fresh(n)
  /\ \/ Kind[n] \notin LeafKinds \cup {"random_seq", "probility"} /\ Arity(n) = 0
     \/ Kind[n] = "probility" /\ Len(Weights[n]) # Arity(n)
     \/ Kind[n] = "wait_event" /\ EventOf[n] = NoEvent
     \/ Kind[n] = "action" /\ "invalid" \in Outcomes[n]
  /\ LET idx == [next_child_idx EXCEPT ![n] = 0] IN
     \/ /\ NotifyStop(OnEnter(n, "entering"), idx, m_fronts)
        /\ m_fronts' = <<>>
        /\ m_events' = <<>>
        /\ result' = [result EXCEPT ![n] = FALSE]
        /\ visited' = visited \cup {n}
        /\ UNCHANGED <<cur_root_node, m_during_poll, reset_flag, m_shuffle, pollVars>>
     \/ StopFaults(OnEnter(n, "entering"), idx, m_fronts)

\* m_shuffle[0] of an empty vector, and a remainder modulo zero.
EnterFaults(n) ==
  /\ Fresh(n)
  /\ \/ Kind[n] = "random_seq" /\ Arity(n) = 0
     \/ /\ Kind[n] = "probility"
        /\ Len(Weights[n]) = Arity(n)
        /\ \A i \in 1..Arity(n) : Weights[n][i] = 0
  /\ Crash

\* Mutant: the node's own event entry, which an action does not have.
DispatchedOwn(n) == {m_events, Append(m_events, EventOf[n])}

\* An action may dispatch an event before it answers; the nested poll returns
\* at once, so the event waits for the next round.
Dispatched(n) ==
  {m_events} \cup
  IF Len(m_events) < MaxEvents THEN {Append(m_events, e) : e \in Raises[n]} ELSE {}

EnterAction(n) ==
  /\ Fresh(n)
  /\ Kind[n] = "action"
  /\ \E o \in Outcomes[n] \cap {"true", "false"} : SetResult(n, o = "true", m_fronts)
  /\ m_events' \in Dispatched(n)
  /\ Reenter(n, 0)
  /\ Step(n)
  /\ UNCHANGED m_shuffle

EnterPending(n) ==
  /\ Fresh(n)
  /\ Kind[n] = "action"
  /\ "pending" \in Outcomes[n]
  /\ m_state' = OnEnter(n, "blocking")
  /\ m_fronts' = AddToFront(m_fronts, n)
  /\ result' = [result EXCEPT ![n] = FALSE]
  /\ m_events' \in Dispatched(n)
  /\ Reenter(n, 0)
  /\ Step(n)
  /\ UNCHANGED m_shuffle

\* agent_action stops the agent and answers with the empty optional: the node,
\* interrupted or not, blocks and queues itself on the stopped agent.
EnterUnknown(n) ==
  /\ Fresh(n)
  /\ Kind[n] = "action"
  /\ "unknown" \in Outcomes[n]
  /\ LET idx == [next_child_idx EXCEPT ![n] = 0]
         hit == Interrupted(OnEnter(n, "entering"), idx, ToSet(m_fronts)) IN
     \/ /\ ~Faults(hit)
        /\ m_state' = [Kill(OnEnter(n, "entering"), hit) EXCEPT ![n] = "blocking"]
        /\ next_child_idx' = Rewind(idx, hit)
        /\ m_pre_fronts' = <<>>
        /\ m_enabled' = FALSE
        /\ intact' = FALSE
        /\ m_fronts' = <<n>>
        /\ m_events' = <<>>
        /\ result' = [result EXCEPT ![n] = FALSE]
        /\ visited' = visited \cup {n}
        /\ UNCHANGED <<cur_root_node, m_during_poll, reset_flag, m_shuffle, pollVars>>
     \/ StopFaults(OnEnter(n, "entering"), idx, m_fronts)

EnterWaitEvent(n) ==
  /\ Fresh(n)
  /\ Kind[n] = "wait_event"
  /\ EventOf[n] # NoEvent
  /\ m_state' = OnEnter(n, "blocking")
  /\ m_fronts' = AddToFront(m_fronts, n)
  /\ result' = [result EXCEPT ![n] = FALSE]
  /\ Reenter(n, 0)
  /\ Step(n)
  /\ UNCHANGED <<m_events, m_shuffle>>

\* A reset node asks for the root to be queued again and stops the agent.
EnterReset(n) ==
  /\ Fresh(n)
  /\ Kind[n] = "reset"
  /\ LET idx == [next_child_idx EXCEPT ![n] = 0] IN
     \/ /\ NotifyStop(OnEnter(n, "init"), idx, m_fronts)
        /\ m_fronts' = <<>>
        /\ m_events' = <<>>
        /\ reset_flag' = TRUE
        /\ result' = [result EXCEPT ![n] = FALSE]
        /\ visited' = visited \cup {n}
        /\ UNCHANGED <<cur_root_node, m_during_poll, m_shuffle, pollVars>>
     \/ StopFaults(OnEnter(n, "init"), idx, m_fronts)

----------------------------------------------------------------------------
(* on_revisit: a child of n has returned.                                  *)

Awoken(n) == Visiting(n) /\ m_state[n] = "awaken"

\* A composite that runs one child at a time and answers to a parent.
Sequential(n) ==
  Kind[n] \notin LeafKinds \cup {"parallel"} /\ ~(Kind[n] = "root" /\ Parent[n] = NoNode)

\* What the child at the cursor answered.
ChildResult(n) ==
  \E i \in 0..(Arity(n) - 1) : i = Cursor(n, next_child_idx[n]) /\ result[Child(n, i)]

\* A list kind stops early at this child result.
Shortcut(n, r) ==
  \/ Kind[n] \in {"sequence", "random_seq"} /\ ~r
  \/ Kind[n] = "select" /\ r

\* Mutant: an if_else without a look at the condition.
NextIndexThen(n, i, r) ==
  IF Kind[n] = "while_loop" THEN IF i = 0 /\ r THEN 1 ELSE 0 ELSE i + 1

\* The index after child i returned r and the composite did not stop early.
NextIndex(n, i, r) ==
  CASE Kind[n] \in ListKinds -> i + 1
    [] Kind[n] = "if_else" -> IF i = 0 THEN IF r THEN 1 ELSE 2 ELSE i
    [] Kind[n] = "while_loop" -> IF i = 0 THEN IF r THEN 1 ELSE 0 ELSE 0
    [] OTHER -> i

\* Mutant: no early return.
SettlesAtEnd(n, i, r) ==
  CASE Kind[n] \in ListKinds -> i + 1 = Arity(n)
    [] Kind[n] = "if_else" -> i # 0
    [] Kind[n] = "while_loop" -> i = 0 /\ ~r
    [] OTHER -> TRUE

\* The composite is finished once child i has returned r.
Settles(n, i, r) ==
  CASE Kind[n] \in ListKinds -> Shortcut(n, r) \/ i + 1 = Arity(n)
    [] Kind[n] = "if_else" -> i # 0
    [] Kind[n] = "while_loop" -> i = 0 /\ ~r
    [] OTHER -> TRUE

\* The result of a composite that settles on child result r.
Verdict(n, r) ==
  CASE Kind[n] \in {"always_seq", "always_true", "while_loop"} -> TRUE
    [] Kind[n] = "negative" -> ~r
    [] OTHER -> r

Advance(n) ==
  /\ Awoken(n)
  /\ Sequential(n)
  /\ LET r == ChildResult(n)
         i == NextIndex(n, next_child_idx[n], r)
         c == Child(n, Cursor(n, i)) IN
     /\ ~Settles(n, next_child_idx[n], r)
     /\ i < Arity(n)
     /\ next_child_idx' = [next_child_idx EXCEPT ![n] = i]
     /\ m_state' = [m_state EXCEPT ![n] = "wait_child", ![c] = "init"]
     /\ m_fronts' = AddToFront(m_fronts, c)
  /\ Step(n)
  /\ UNCHANGED <<m_events, result, m_shuffle, visited>>

Return(n) ==
  /\ Awoken(n)
  /\ Sequential(n)
  /\ LET r == ChildResult(n)
         i == next_child_idx[n] IN
     /\ Settles(n, i, r)
     /\ SetResult(n, Verdict(n, r), m_fronts)
     /\ next_child_idx' = [next_child_idx EXCEPT
          ![n] = IF Kind[n] \in ListKinds /\ ~Shortcut(n, r) THEN i + 1 ELSE i]
  /\ Step(n)
  /\ UNCHANGED <<m_events, m_shuffle, visited>>

\* An if_else or a while_loop whose next child is missing.
AdvanceHalts(n) ==
  /\ Awoken(n)
  /\ Sequential(n)
  /\ LET r == ChildResult(n)
         i == NextIndex(n, next_child_idx[n], r)
         idx == [next_child_idx EXCEPT ![n] = i] IN
     /\ ~Settles(n, next_child_idx[n], r)
     /\ i >= Arity(n)
     /\ \/ /\ NotifyStop(m_state, idx, m_fronts)
           /\ m_fronts' = <<>>
           /\ m_events' = <<>>
           /\ UNCHANGED <<cur_root_node, m_during_poll, reset_flag, result, m_shuffle,
                          visited, pollVars>>
        \/ StopFaults(m_state, idx, m_fronts)

\* The root of the loaded tree starts over.
RevisitRoot(n) ==
  /\ Awoken(n)
  /\ Kind[n] = "root" /\ Parent[n] = NoNode
  /\ m_state' = OnEnter(n, "wait_child")
  /\ m_fronts' = AddToFront(m_fronts, Child(n, 0))
  /\ result' = [result EXCEPT ![n] = FALSE]
  /\ Reenter(n, 0)
  /\ Step(n)
  /\ UNCHANGED <<m_events, m_shuffle>>

\* The last child, in child order, that is dead before its turn to be
\* interrupted comes; FALSE if there is none.
LastDead(n) ==
  LET dead == {i \in 1..Arity(n) : m_state[Children[n][i]] = "dead"} IN
  \E i \in dead : (\A j \in dead : j <= i) /\ result[Children[n][i]]

RevisitParallel(n) ==
  /\ Awoken(n)
  /\ Kind[n] = "parallel"
  /\ LET hit == Interrupted(m_state, next_child_idx, ChildSet(n)) IN
     \/ /\ ~Faults(hit)
        /\ m_state' = [Kill(m_state, hit) EXCEPT ![n] = "dead", ![Parent[n]] = "awaken"]
        /\ result' = [result EXCEPT ![n] = LastDead(n)]
        /\ m_fronts' = AddToFront(m_fronts, Parent[n])
        /\ next_child_idx' = Rewind(next_child_idx, hit)
        /\ Step(n)
        /\ UNCHANGED <<m_events, m_shuffle, visited>>
     \/ Faults(hit) /\ Crash

----------------------------------------------------------------------------
(* The end of a pass, and of a poll.                                       *)

EndOfPass == pc = "fronts" /\ m_pre_fronts = <<>>

PollAgain ==
  /\ EndOfPass
  /\ ~reset_flag
  /\ poll_result \/ (m_enabled /\ any_ready)
  /\ pc' = "loop"
  /\ UNCHANGED <<cur_root_node, queueVars, flagVars, nodeVars, poll_result, any_ready,
                 intact>>

\* Mutant: a pass is the last one although it visited a node.
PollDoneEarly ==
  /\ EndOfPass
  /\ ~reset_flag
  /\ m_during_poll' = FALSE
  /\ pc' = "idle"
  /\ UNCHANGED <<cur_root_node, queueVars, m_enabled, reset_flag, nodeVars,
                 poll_result, any_ready, intact>>

PollDone ==
  /\ EndOfPass
  /\ ~reset_flag
  /\ ~(poll_result \/ (m_enabled /\ any_ready))
  /\ m_during_poll' = FALSE
  /\ pc' = "idle"
  /\ UNCHANGED <<cur_root_node, queueVars, m_enabled, reset_flag, nodeVars,
                 poll_result, any_ready, intact>>

\* Mutant: the flag stays set.
PollRestartAgain ==
  /\ EndOfPass
  /\ reset_flag
  /\ cur_root_node # NoNode
  /\ m_fronts' = AddToFront(m_fronts, cur_root_node)
  /\ pc' = "loop"
  /\ UNCHANGED <<cur_root_node, m_pre_fronts, m_events, flagVars, nodeVars,
                 poll_result, any_ready, intact>>

PollRestart ==
  /\ EndOfPass
  /\ reset_flag
  /\ cur_root_node # NoNode
  /\ reset_flag' = FALSE
  /\ m_fronts' = AddToFront(m_fronts, cur_root_node)
  /\ pc' = "loop"
  /\ UNCHANGED <<cur_root_node, m_pre_fronts, m_events, m_enabled, m_during_poll,
                 nodeVars, poll_result, any_ready, intact>>

\* Without a root a null pointer is queued, and the next pass dereferences it.
PollRestartFaults ==
  /\ EndOfPass
  /\ reset_flag
  /\ cur_root_node = NoNode
  /\ Crash

----------------------------------------------------------------------------
Application ==
  \/ \E e \in Event : DispatchEvent(e)
  \/ PollCall
  \/ Enable
  \/ Disable
  \/ \E r \in Roots : LoadFirst(r)
  \/ LoadSame
  \/ \E r \in Roots \cup {NoNode} : LoadOther(r)
  \/ \E n \in Node, r \in BOOLEAN : Complete(n, r)
  \/ \E n \in Node : CompleteDead(n)

Visit(n) ==
  \/ Requeue(n) \/ Drop(n)
  \/ EnterFirst(n) \/ EnterShuffled(n) \/ EnterWeighted(n) \/ EnterParallel(n)
  \/ EnterAction(n) \/ EnterPending(n) \/ EnterUnknown(n)
  \/ EnterWaitEvent(n) \/ EnterReset(n)
  \/ EnterHalts(n) \/ EnterFaults(n)
  \/ Advance(n) \/ Return(n) \/ AdvanceHalts(n)
  \/ RevisitRoot(n) \/ RevisitParallel(n)

\* The body of agent::poll.
Polling ==
  \/ PollDisabled \/ PollRound
  \/ IgnoreEvent \/ HandleEvent \/ HandleDead
  \/ BeginPass
  \/ \E n \in Node : Visit(n)
  \/ PollAgain \/ PollDone \/ PollRestart \/ PollRestartFaults

Next == Application \/ Polling

Spec == Init /\ [][Next]_vars

\* A call of poll runs on: it never waits for anything but its own next step.
FairSpec == Spec /\ WF_vars(Polling)
============================================================================
