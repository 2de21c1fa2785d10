-------------------------- MODULE AgentProperties --------------------------
(***************************************************************************)
(* What must be true of an agent, and what the documents say of it.        *)
(***************************************************************************)
EXTENDS Agent

Queued == ToSet(m_fronts) \cup ToSet(m_pre_fronts)

\* The nodes that have control: queued, and ready or blocking.
Tokens == {n \in Queued : m_state[n] \in {"init", "awaken", "blocking"}}

----------------------------------------------------------------------------
(* Refinement.                                                             *)

C == INSTANCE Configuration WITH config <- IF intact THEN Tokens ELSE {},
                                 halted <- ~intact

\* The queues, states and indices of the runtime implement the moving tokens
\* of Configuration: every visit and every handled event moves one token along
\* one edge, forks it at a parallel, or leaves it, whatever stale nodes the
\* queues still hold.
ImplementsConfiguration == C!Spec

----------------------------------------------------------------------------
(* Safety.                                                                 *)

Waiting(p) ==
  \/ m_state[p] = "wait_child"
  \/ Kind[p] = "parallel" /\ m_state[p] = "awaken"

\* A node has control only if every ancestor is waiting for exactly that
\* branch: no queued node survives the interruption, the return or the re-entry
\* of a composite above it, although add_to_front never removes one.
ControlPath ==
  intact => \A n \in Tokens :
    /\ cur_root_node \in Lineage[n]
    /\ \A a \in Lineage[n] : Parent[a] # NoNode =>
         /\ Waiting(Parent[a])
         /\ a \in Forwards(next_child_idx, Parent[a])

\* No lost wakeup: follow the children that the waiting composites are at, from
\* the root down; where nobody waits any more the node is queued and will be
\* run, or is blocking and can be reached by its event.
ControlQueued ==
  intact => \A n \in Below(cur_root_node) :
    (\A a \in Lineage[n] : Parent[a] # NoNode =>
       /\ m_state[Parent[a]] = "wait_child"
       /\ a \in Forwards(next_child_idx, Parent[a]))
    => n \in Tokens \/ m_state[n] = "wait_child"

\* A composite that looks at its child's result looks at a child it has: no
\* on_revisit compares next_child_idx with the number of children before it
\* uses it, and a composite that has returned has run past its last child.
CursorInRange ==
  intact => \A n \in Node : Awoken(n) /\ Sequential(n) =>
    Cursor(n, next_child_idx[n]) < Arity(n)

\* n has returned and its parent has not looked at the result yet.
Returned(n) ==
  /\ Parent[n] # NoNode
  /\ m_state[n] = "dead"
  /\ m_state[Parent[n]] = "awaken"
  /\ n \in Forwards(next_child_idx, Parent[n])

Ran(n, i, r) ==
  i < Arity(n) /\ m_state[Child(n, i)] = "dead" /\ result[Child(n, i)] = r

NotRun(n, i) == m_state[Child(n, i)] = "init"

\* The children ran in the order `order` until the first that answered `stop`,
\* and the last one answered v.
RanUntil(n, order, stop, v) ==
  \E k \in 1..Len(order) :
    /\ \A j \in 1..(k - 1) : Ran(n, order[j], ~stop)
    /\ \A j \in (k + 1)..Len(order) : NotRun(n, order[j])
    /\ Ran(n, order[k], v)
    /\ v # stop => k = Len(order)

Indices(n) == [j \in 1..Arity(n) |-> j - 1]

\* The children of n ran, or did not run, and answered as the run() function, or
\* the sentence, that bt_1_intro.md gives for its kind prescribes when it returns v.
RunGives(n, v) ==
  CASE Kind[n] = "sequence" -> RanUntil(n, Indices(n), FALSE, v)
    [] Kind[n] = "random_seq" -> RanUntil(n, m_shuffle[n], FALSE, v)
    [] Kind[n] = "select" -> RanUntil(n, Indices(n), TRUE, v)
    [] Kind[n] = "always_seq" ->
         v /\ \A c \in ChildSet(n) : m_state[c] = "dead"
    [] Kind[n] = "if_else" ->
         \/ Ran(n, 0, TRUE) /\ Ran(n, 1, v) /\ (Arity(n) > 2 => NotRun(n, 2))
         \/ Ran(n, 0, FALSE) /\ NotRun(n, 1) /\ Ran(n, 2, v)
    [] Kind[n] = "while_loop" -> v /\ Ran(n, 0, FALSE)
    [] Kind[n] = "negative" -> Ran(n, 0, ~v)
    [] Kind[n] = "always_true" -> v /\ \E r \in BOOLEAN : Ran(n, 0, r)
    [] Kind[n] \in {"root", "sub_tree"} -> Ran(n, 0, v)
    [] Kind[n] = "probility" ->
         \E i \in 0..(Arity(n) - 1) :
           /\ Weights[n][i + 1] > 0
           /\ Ran(n, i, v)
           /\ \A j \in (0..(Arity(n) - 1)) \ {i} : NotRun(n, j)
    [] OTHER -> TRUE

\* When a composite returns, it and its children have done what run() does.
RunSemantics == intact => \A n \in Node : Returned(n) => RunGives(n, result[n])

\* Every child of a race has ended, and the answer is one that a child gave.
RaceGives(n, v) ==
  Kind[n] = "parallel" =>
    /\ \A c \in ChildSet(n) : m_state[c] = "dead"
    /\ \E c \in ChildSet(n) : result[c] = v

\* A parallel has no run() in the documents.  doc/bt_1_intro.md:180 says that the
\* other children are interrupted as soon as one returns, which holds when the
\* parallel has returned; what it returns is parallel::on_revisit's choice, the
\* result of a child (ParallelReturnsTrue is what the document says).
RaceSettled == intact => \A n \in Node : Returned(n) => RaceGives(n, result[n])

\* When poll ends in the regular way on an agent that is still enabled there is
\* nothing left to do: every event was looked at and every queued node blocks.
PollSettles ==
  [][m_during_poll /\ ~m_during_poll' /\ m_enabled' =>
       /\ m_events' = <<>>
       /\ \A i \in DOMAIN m_fronts' : m_state'[m_fronts'[i]] = "blocking"]_vars

\* add_to_front keeps the queues free of duplicates, so no node is visited
\* twice in one pass and one event never completes a node twice.
FrontsDistinct == IsInjective(m_fronts) /\ IsInjective(m_pre_fronts)

----------------------------------------------------------------------------
(* Liveness.  An agent between two calls only moves when the application   *)
(* calls it, and nothing says that it does: the promises are about polls.  *)

\* On trees that block in every cycle of the root, every call of poll returns:
\* neither a reset, nor events dispatched by the actions it runs, nor branches
\* that wake each other up keep it going for ever.
PollReturns == pc = "loop" ~> pc \in {"idle", "crashed"}

\* An event that is pending when an enabled agent starts a round is taken from
\* the queue, whatever the round runs before and after it.
EventsTaken == m_events # <<>> /\ m_enabled /\ pc = "loop" ~> m_events = <<>>

\* No starvation: a node that has control and is ready during a poll of an
\* enabled agent is visited, interrupted, or given up by a stop.
ReadyVisited ==
  \A n \in Node :
    /\ pc \notin {"idle", "crashed"}
    /\ m_enabled
    /\ n \in Queued
    /\ m_state[n] \in {"init", "awaken"}
    ~> n \notin Queued \/ m_state[n] \notin {"init", "awaken"}

----------------------------------------------------------------------------
(* What the documents say and the code does not do.                        *)

\* The application has loaded a tree, the same or another one, and not polled.
Reloaded == pc = "idle" /\ reset_flag

\* doc/bt_1_intro.md:180: as soon as one child of a parallel returns, all the
\* others are interrupted.
ParallelInterrupts ==
  [][\A n \in Node : Awoken(n) /\ Kind[n] = "parallel" =>
       \A c \in ChildSet(n) : m_state'[c] = "dead"]_vars

\* doc/bt_1_intro.md:180: a parallel whose child has returned returns true.
ParallelReturnsTrue ==
  intact => \A n \in Node : Returned(n) /\ Kind[n] = "parallel" => result[n]

\* doc/bt_1_intro.md:181: the event that a wait_event is registered for makes it
\* return true.  It does not stop the agent.
EventKeepsRunning == [][Processing => m_enabled' = m_enabled]_vars

\* doc/bt_1_intro.md:206: a reset starts the AI over in its default state: unless
\* the application loads a tree, the root is run again.
ResetRestarts ==
  \A n \in Node : Fresh(n) /\ Kind[n] = "reset" ~> Visiting(cur_root_node) \/ Reloaded
============================================================================
