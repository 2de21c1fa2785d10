# behavior_tree runtime: TLA+ specifications, model checking and proofs

This directory holds TLA+ modules that model the runtime of the repository
(`src/runtime`, and the parts of `src/common` it is built on), the TLC
configurations that check them on small instances, and TLAPS proofs of what
holds for every instance. Definitions keep the names of the source, and every
definition that models code is translated from the lines that the `map` of
`PROJECT.json` names.

## 1. The system

A behaviour tree is loaded from JSON and run by an agent. Everything happens in
one thread; nothing in the repository locks or starts a thread. What makes the
code hard is that it is re-entrant and works on its own work list: nodes of
several branches of a `parallel` take turns, whatever one of them does changes
the queue that the others are in, actions and callbacks call back into the agent
whose poll is running, and completions arrive at any time between two polls.

| component | state | operations | interacts by |
|---|---|---|---|
| tree structure (`btree_desc.h`, `nodes.cpp` 51-105, 710-822, `agent.cpp` 298-335) | kinds, ordered children, parents; one instance of a sub tree per `sub_tree` node | `load_from_json`, `create_node_by_idx`, `create_children`, `create_tree` | created by `load_btree` and lazily on the first visit of a node |
| behaviour nodes (`nodes.cpp`, `nodes.h`) | `m_state`, `result`, `next_child_idx`, `m_shuffle`, `m_closure` | `visit`, `on_enter`, `on_revisit`, `visit_child`, `set_result`, `backtrace`, `interrupt` | `add_to_front`, `notify_stop`, `dispatch_event`, `poll` of the agent |
| agent scheduling (`agent.cpp`) | `m_fronts`, `m_pre_fronts`, `m_events`, `m_enabled`, `m_during_poll`, `reset_flag`, `cur_root_node` | `poll`, `poll_events`, `poll_fronts`, `poll_node`, `dispatch_event`, `enable`, `load_btree`, `reset`, `notify_stop` | visits nodes; called by the application, by actions and by timers |
| timers (`timer_manager.hpp`, `action_agent.cpp` 165-175, 345-407) | callbacks and a time-ordered queue for the process; `m_active_timers` and a sequence number per agent; a `timeout_closure` per waiting node | `add_timer_with_gap`, `cancel_timer`, `timer_manager::poll`; `wait_for_seconds`, `create_timer`, `add_timer`, `invoke_timer`, `remove_timer` | a callback calls `set_result`, which polls the agent |
| blackboard and its actions (`agent.cpp` 166-198, `action_agent.cpp` 32-118, 409-470) | a JSON object per agent | get, set, pop, arithmetic, comparison, choice from an array, size | called by action nodes and by the application; cleared by `reset` |
| persistence (`action_agent.cpp` 232-343, `encode`/`decode` of the nodes) | a JSON document | `encode`, `decode` | rebuilds tree, queue, timers and closures |
| debug queue, action catalogue, editor model, Qt windows | - | - | not part of running a tree |

Hard behaviours, and what must be true of them (section "hazards" of
`PROJECT.json` has each with its line):

* Nodes: interrupting a branch kills nodes that stay queued; a loop enters nodes
  again that still have old indices and results; every `on_revisit` indexes
  `m_children` by a counter that runs past the end. Correct means: control is
  exactly where the composites wait, nothing that was left runs on, a result that
  comes too late wakes nobody, and every composite runs its children as the `run()`
  function that `doc/bt_1_intro.md` gives for its kind.
* Scheduling: a pass walks over a snapshot of the queue while visits and events
  build the new one; `dispatch_event`, `notify_stop` and `load_btree` are called
  in the middle. Correct means: no node is queued twice, no wakeup is lost, a
  poll returns and leaves nothing undone.
* Timers: three tables with two numberings, cancelled timers that stay queued,
  and callbacks that start and cancel other timers. Correct means: no two timers
  share a handler, whoever looks for an entry finds it, a wait ends, and neither
  early nor late.
* Blackboard: actions read, compute and write JSON values with C++ numbers.
  Correct means: an int stays one, and an item of an array is dealt once.
* Persistence: `encode` writes what is queued as paths from the root and leaves
  the rest out; `decode` builds nodes, queue, closures and table from that, in
  its own process, where timers still run, or in a new one. Correct means: the
  document that is read can be written again, control is where it was, and a wait
  is found by its number.

## 2. Modules

| module | what it is |
|---|---|
| `BTree` | loaded trees: `Node`, `Kind`, `Children`, `Roots`, `Parent`, `Lineage` (a node's ancestors, the node included), with the assumptions about them (below) |
| `Configuration` | abstract specification of control: a set of tokens on the nodes, which descend, ascend, are left behind by a parallel, or are all lost by a stop. No queues, no states, no indices |
| `Agent` | the detailed specification: one agent and all node kinds; an action per call, handled event and visited node |
| `AgentProperties` | the properties of `Agent`, and the refinement mapping to `Configuration` |
| `AgentInvariant` | the inductive invariants of an intact agent: where tokens and stale nodes can be in the two queues, and what the children of a composite have done so far |
| `Forest`, `MCControl`, `MCParallel` | concrete forests for TLC |
| `Timers`, `MCTimers` | the timers of a process and of its agents |
| `Alarms` | abstract specification of the timers: callbacks with an agent and a number that run at most once, one at a time, or are lost |
| `Blackboard` | JSON values, the blackboard, and every synchronous action of `action_agent` as an operator on them |
| `Runtime` | composition: `Agent` with its blackboard and with the closures, entries and callbacks of its waits |
| `Persistence`, `MCPersistence` | `Runtime` with `encode`, `decode` and restarts of the process |
| `TreeProofs` | facts about every admissible forest: induction from the roots down, `Lineage` as an order |
| `ConfigurationProofs`, `AgentProofs`, `AlarmsProofs`, `TimersProofs` | theorems about the modules they are named for (`AgentProofs`: types and the work list) |
| `ControlProofs`, `SemanticsProofs` | theorems about `Agent`: where control is and the refinement of `Configuration`; what composites return |
| `RuntimeProofs` | theorems about `Runtime` and `Persistence`: blackboard, waits, saving and restoring |

### BTree

Every node OBJECT that can be made is a member of `Node`, so that there is one
parent and one place for each (`Created`: what `create_node_by_idx` gives).
`load_from_json` checks only that the indices of children and parents exist: a
type may be any string, and a child whose type is no `node_type` ends the list of
its siblings (`Children` ends before it, run `control`). Two things are assumed of
the tree files and checked by no code: that node 0 is of type `root` (`Rooted`), and
that no node has the type `"invalid"`, an enumerator for which `create_node_by_idx`
stops the agent while the parent is being entered.

### Agent

A step is what happens between two points where the order matters: one call of
the application (`DispatchEvent`, `PollCall`, `Enable`, `Disable`, `LoadFirst`,
`LoadSame`, `LoadOther`), the completion of an asynchronous action (`Complete`, or
`CompleteDead` for one that has ended), one event of `poll_events` (`IgnoreEvent`,
`HandleEvent`, `HandleDead`), the start and the end of a pass (`BeginPass`,
`PollAgain`, `PollDone`, `PollRestart`, `PollRestartFaults`, `PollDisabled`), and
ONE visit of a node in a pass, with everything that it calls. A visit of a queued
node is `Requeue` or `Drop` (it blocks, or is not ready), an `Enter...` action
(`on_enter` of its kind) or, when a child has woken it, `RevisitRoot`,
`RevisitParallel`, `Advance` (on to another child), `Return` (the composite returns)
or `AdvanceHalts` (the child does not exist, and the agent stops). `pc` is the place
in `agent::poll` that the thread is at; the nested `poll` of `dispatch_event` inside
an action returns at once because of `m_during_poll`, so it adds the event and
nothing else. `intact` is a history variable: the tree that is loaded has been
neither stopped nor crashed.

Data that no property tells apart is left out: action arguments and the
blackboard (an action's answer is a member of `Outcomes`: true, false, pending,
unknown, invalid), file names, event arguments and the debug log. A shuffle and
a weighted choice are nondeterministic. A null or out-of-range access ends in
`pc = "crashed"`; where the C++ standard leaves the outcome open and the build
may also go on, both outcomes are there.

The one assumption about the environment is when the owner of an asynchronous
action reports a result: between two polls, to a node that blocks (`Complete`) or to
one that is dead, because it was interrupted or has its result already
(`CompleteDead`, which stops the agent), and any number of times. That a late result
reaches a node that was set back to init or was entered again is left out here:
`set_result` cannot tell such a node from one that waits. The timers of the runtime
itself do it (`RingAlive` in `Runtime`, finding 7).

### Timers

`Wait` is `wait_for_seconds` with the closure that it replaces, the two entries
that it adds and the two handlers that `add_timer_with_gap` takes; `Interrupt`,
`Rearm` and `Delete` are what the rest of the tree does to a waiting node;
`PollStart`, `PopCancelled`, `PopInvoked`, `Return` and `PollEnd` are
`timer_manager::poll`, where `PopInvoked` is the callback up to `set_result` and
`Return` is what `remove_timer` does after it, so that everything the agent does
in its nested poll lies between the two. Of the trees only the
`wait_for_seconds` nodes remain, and each of those steps may happen whenever the
agent runs, whatever state the node is in, as `on_enter` sets back children in any
state: every tree's behaviour is among them. A callback on a deleted node
ends in `crashed`; on a dead node it stops the agent (`pc = "stop"`).

`Timers` implements `Alarms` (`ImplementsAlarms`): the pending callbacks are the
values of `m_callbacks`, the numbers that were given out are the agents'
`m_next_timer_seq`, and what rings is the timer whose callback is on the stack.

### Blackboard and Runtime

A step of `Runtime` is a step of `Agent` together with what the same call does to
the blackboard and to the waits: a node that dies loses its closure, which takes
one entry out of `m_active_timers` (`Releases`); `reset` clears the blackboard
(`Reset`, `Replace`); `Perform` is an action node with a request, whose answer is
the answer of `Agent`'s `EnterAction`; `WaitForSeconds` is an action node with
`wait_for_seconds`. What is new is the callback: `RingAlive`, `RingDead` and
`RingGone` are `invoke_timer` on a node that is not dead, dead or deleted, whatever
else it does at the time, and `RingUnlisted` finds no entry. Of the manager, only
what `Alarms` promises is used: a callback that is registered runs once or never.
After `decode` two callbacks may have one number, so `registered` is a bag; so is
`m_active_timers`, whose order nothing here depends on: `remove_timer` may take
any of several entries of a number.

A value is its type and its numbers. Doubles are whole numbers (the actions make
no fraction of whole numbers: `number_div` adds, see below), and an integer
result outside of int is any int.

### Persistence

`Save` is `encode` between two calls, `Restart` is the end of the process at any
time and a new agent, `Decode` is `decode` of the saved document by an agent in
any state, as `runtime/test/debug_test.cpp:149-151` does it. Chains are followed
as the code does, with the shuffle that was read before; an index or a chain that
leads nowhere is a fault. So is, in the model, a `random_seq` that is given the
shuffle of another one with more children or fewer (`Deals`): the code goes on
with it, and the model ends there. `saved_ready` is a history variable: when the document
was written every queued node was blocking. An agent that is decoded under that
premise, with no shuffle that moves an index (`Straight`) and no closure left over
in its nodes (`Released`), is `intact` again, so `ControlPath`, `ControlQueued` and
`WaitsHeld` speak of everything that it does from there.

## 3. What is model-checked

Each run is one entry of `PROJECT.json`; every property of a passing run has a
mutant of the code model that violates it.

| run | question | properties |
|---|---|---|
| `control` | every kind of composite, races that are decided in the pass that starts them, and one tree per configuration error | `TypeOK`, `CursorInRange`, `ControlPath`, `ControlQueued`, `RunSemantics`, `RunsSoFar`, `RaceSettled`, `FrontsDistinct`, `ImplementsConfiguration`, `PollSettles` |
| `parallel` | branches that race, in a loop that enters them again, with events dispatched by actions and with resets; does poll end, and does it do everything | `CursorInRange`, `ControlPath`, `ControlQueued`, `RaceSettled`, `SteadyWhileIntact`, `ImplementsConfiguration`, `PollReturns`, `EventsTaken`, `ReadyVisited` |
| `timers` | two agents with three waits | `HandlersDistinct`, `TimersListed`, `WaitsFull`, `ImplementsAlarms` |
| `restart` | waits, blackboard, encode, restart, decode | `RuntimeTypeOK`, `ControlPath`, `ControlQueued`, `WaitsHeld`, `RoundTrip`, `ChoiceKeepsItems` |
| `unentered_sibling`, `parallel_result`, `dead_listener`, `reset`, `lost_timer`, `late_timer`, `stale_alarm`, `restored_wait` | what the documents say and the code does not do | one property each, violated |

* `ControlPath` and `ControlQueued` are the two halves of "control is where the
  composites wait": no queued node survives what happened above it, and no
  waiting composite has lost the node that it waits for.
* `RunSemantics` compares, whenever a composite returns, what its children did
  with the `run()` function, or the sentence, of `doc/bt_1_intro.md` for its kind. It
  does not speak of parallels: the document gives no `run()` for them, and what it
  says that they return is refuted by `parallel_result`.
* `RaceSettled`: when a parallel has returned, all its children have ended, and it
  answers what one of them did. A branch that was woken up, queued or forgotten when
  the race was lost would survive it.
* `ImplementsConfiguration` is the refinement: with the queued nodes that are
  ready or blocking as the tokens, every step of `Agent` is a step of
  `Configuration` or a stutter.
* `CursorInRange` is why the unchecked indexing in `on_revisit` is safe.
* `SteadyWhileIntact` is the inductive invariant behind control, `RunsSoFar` the one
  behind `RunSemantics` (section 4).
* `RoundTrip`: encoding what was decoded gives the document again, in a new
  process whole, in the old one without the blackboard, which `load_btree` clears.
* `WaitsHeld`: the number of a wait that has control is listed for its node and
  for no other, whatever was interrupted, dropped, saved and restored before.
* `ChoiceKeepsItems`: what a choice deals and what it leaves are what was there.
* `PollSettles`, `EventsTaken` and `ReadyVisited`: a poll leaves nothing behind.

### Bounds, and why they are enough

* The forests have 15 trees (MC modules): each composite kind, each position it
  is hard in (inside a loop, below a parallel, beside a node that answers at
  once), and one tree per configuration error. An agent may load any tree of
  the run and change it at any time, so that stale members survive into the next
  tree's life.
* `MaxEvents = 2` bounds the pending events: two events suffice for one that is
  handled and one that is handled after the first changed the queue. Nothing else
  in `Agent` grows: the queues have no duplicates (proved), indices are bounded
  by the children.
* `Timers`: two waits of one agent (the fewest that can confuse their entries)
  and one of another (the fewest that can lose a callback to another agent),
  durations 1 and 2 (a later timer may be due first), `MaxTime = 3`, and
  `MaxSeq`, at most two waits ever started by the first agent and one by the
  second: two suffice for a wait that is started again while its old timer is
  pending. Both bounds are guards of the model and not of the code.
* `restart`: two trees, each with a wait. One has a wait that races with a
  `random_seq` of an event and an action that may stop the agent (so a wait can be
  interrupted, dropped, deleted, and saved below a parallel, beside a shuffle);
  the other waits, then takes an item out of an array that the application may
  have set or not, adds to it and resets. `MaxSeq = 2` and `MaxCallbacks = 2`: two
  waits suffice for a callback that outlives its wait and meets the next one, and
  for two callbacks with one number. One document per behaviour: what is decoded
  may be decoded again later, and is compared with what would be written.
  `MaxInt = 2` lets the sum overflow. The application dispatches events to an
  enabled agent only (what happens otherwise is in `control` and `parallel`).
* `CHECK_DEADLOCK FALSE`: an agent that has crashed stays so, and an agent that
  `reset` has wedged (below) does nothing any more; the clock of `Timers` ends.

### Fairness

`FairSpec` is `Spec /\ WF_vars(Polling)`, under which `parallel` and `reset` run: a
poll that has begun runs in its caller's thread until it returns, and nothing can
suspend it. There is no fairness for the application: nobody has to call the agent,
complete an action or dispatch an event, so the liveness properties speak of polls
only, and the trees of the `parallel` run block in every cycle of the root (an
unconditional loop of synchronous actions keeps any poll going for ever, by design).

### Findings

1. `unentered_sibling`: `doc/bt_1_intro.md:180` says that all other children of
   a parallel are interrupted as soon as one returns. If the first child answers
   in the pass in which it was queued, its siblings have not been entered;
   `random_seq::interrupt` (`nodes.cpp:293`) then reads `m_shuffle[0]` of an empty
   vector.
2. `parallel_result`: the same line says that the parallel then returns true. It
   returns the result of its last dead child (`nodes.cpp:523`): false if that child
   answered false.
3. `dead_listener`: `doc/bt_1_intro.md:181` says that an event makes its
   `WaitEvent` node return true. A `wait_event` that was interrupted earlier in
   the same pass is still in `m_fronts`; an event dispatched later in the pass
   reaches it, and `set_result` on a dead node stops the whole agent.
4. `reset`: `doc/bt_1_intro.md:206` says that a reset starts the AI over. The
   `reset` node stops the agent, and the poll that should restart it returns from
   its loop (`agent.cpp:32`) with `m_during_poll` set: no later poll does anything.
5. `lost_timer`: `data/actions.json:195` says that `wait_for_seconds` always
   returns true. `remove_timer` cancels by the agent's own sequence number where
   `timer_manager` expects its handler: ending one wait silently drops the
   callback of another, which never returns.
6. `late_timer`: `data/actions.json:188` says that its argument is the number of
   seconds to wait. `timer_manager` orders its queue from late to early and stops
   at the first timer that is not due, so a long timer holds back all short ones.
7. `stale_alarm`: the comment at `runtime/include/nodes.h:63` says that a closure
   releases the task of a node that is interrupted. It removes one of two entries
   and cancels the wrong handler, so that the callback still reaches the node: a
   dead one stops the agent, one that was set back to init or waits anew wakes its
   parent, a deleted one is undefined behaviour.
8. `restored_wait`: `data/actions.json:195` says that a wait always returns true.
   `decode` makes the closure and the entry of a saved wait again and registers no
   callback (`action_agent.cpp:337`): in a new process the wait blocks for ever. The
   property, `WaitsRestored`, says two more things of `decode`, which fail too, in
   longer traces. In the same process, `decode` sets `m_next_timer_seq` back
   (`action_agent.cpp:276`) while callbacks of later waits are registered, so that
   the next wait gets the number of an old callback and ends when that fires. And a
   wait that a stop dropped keeps its closure: restoring it lists the number for the
   new closure and then destroys the old one, whose destructor removes that entry
   (`action_agent.cpp:356`), so that no callback finds the wait.

The two timer mistakes also hide others: because the queue is ordered from late
to early, the stale callback of an interrupted wait can never end the node's
next wait early (`WaitsFull`; with the order the other way round TLC finds the
early end at once, which is that property's mutant). Repairing finding 6 alone
would bring it out.

The documents differ from the code in more places that no run checks; the modules
state what the code does:

* `action_agent.h:121` says that `number_div` divides; it adds (`Computed`).
* `action_agent.h:70` says that `has_key_value` is false without the key; compared
  with null it is true (`Performed`).

Of `decode` itself nothing is documented; findings 8 to 10 are about what the
documents say of every wait. What else the model showed about it, beyond what
`RoundTrip` states:

* A `random_seq` that was shuffled resumes in another child (`Descend`).
* An agent with a queued root, as right after `load_btree`, cannot be restored
  (`Restored`, the empty chain).
* A queued node that was not blocking never runs; a `wait_event` that is restored
  in a new process has no event name (`Listens` needs `visited`) and never hears.

Because of finding 10, `WaitsHeld` speaks of restored agents whose nodes had kept no
closure (`Released`).

## 4. What is proved

All theorems hold for every value of the constants that satisfies the named
assumptions of the modules (`BTree`'s about the forest, `ParameterAssumption`,
`TimersAssumption`, `MaxIntAssumption` about the width of int, `RuntimeAssumption`
about waits and requests); none of them uses a bound of a run. Where a module
caps a counter or ends a behaviour (`MaxEvents`, `MaxSeq`, `MaxCallbacks`, `MaxTime`,
one document, `Deals`), the theorems are about the module with the cap, at every
value of it.

| theorem | statement | argument |
|---|---|---|
| `AgentProofs!TypeCorrect` | `Spec => []TypeOK` | inductive invariant `Typed`: `TypeOK` and "an awaken node has children", without which `on_revisit` would index an empty `m_children` |
| `AgentProofs!NoneQueuedTwice` | `Spec => []FrontsDistinct` | with `Typed`; one lemma per operation on queues (append, drop, replace by the parent, the children of a parallel) |
| `AgentProofs!PollsSettle` | `Spec => PollSettles` | invariant `Settling`: what a round has queued or handled is reflected in `any_ready` and `poll_result`, so that `PollDone` is enabled only when nothing is left |
| `ControlProofs!SteadyAlways` | `Spec => []SteadyWhileIntact` | the inductive invariant, below |
| `ControlProofs!ControlAlways` | `Spec => []ControlPath` | `OnPaths`, a part of it |
| `ControlProofs!CursorAlways` | `Spec => []CursorInRange` | `Remembered`, a part of it: a composite that is woken up is at a child it has |
| `ControlProofs!QueuedAlways` | `Spec => []ControlQueued` | inductive relative to `SteadyWhileIntact`; one lemma per kind of move |
| `ControlProofs!AgentMovesTokens` | `Spec => ImplementsConfiguration` | step simulation: `Down` is `Descend`, `Up` is `Ascend`, `Blocks` and `Quiet` are stutters |
| `SemanticsProofs!RunsSoFarAlways` | `Spec => []RunsSoFar` | inductive relative to `SteadyWhileIntact`, below |
| `SemanticsProofs!SemanticsAlways` | `Spec => []RunSemantics` | the last part of `RunsSoFar` |
| `SemanticsProofs!RaceAlways` | `Spec => []RaceSettled` | the same part, for parallels |
| `ConfigurationProofs!ControlKept` | `Spec => [](TypeOK /\ Occupied)` of `Configuration` | a step takes the last token away only by halting |
| `ConfigurationProofs!ForksAreParallel` | `Spec => []ForkedOnlyByParallel` of `Configuration` | inductive as it stands, from the lemmas on `Lineage` in `TreeProofs` |
| `TimersProofs!WaitsLast` | `Spec => WaitsFull` | invariant `Covered`: a wait's entry is in the queue unless its time has passed; what is popped is the latest entry, so nothing earlier is still to come |
| `TimersProofs!HandlersNeverShared` | `Spec => []HandlersDistinct` | with `Numbered`: every handler in use was generated, and the one of a running callback is not 0 |
| `AlarmsProofs!RunsOnce` | `Spec => NeverAgain` of `Alarms` | every pending callback has a number that was given out, and a step adds only the next one |
| `TimersProofs!TimersAlwaysListed` | `Spec => []TimersListed` | invariant `Listed`: numbers are given out once, and a closure and a callback of the same timer have an entry EACH, so whichever goes first leaves one for the other |
| `TimersProofs!TimersAreAlarms` | `Spec => ImplementsAlarms` | step simulation with the same invariant `Listed`; distinct numbers make the callback that is taken out the only one of its number |
| `RuntimeProofs!RuntimeTypeCorrect` | `PersistenceSpec => []RuntimeTypeOK` | invariant `RuntimeInvariant`, below |
| `RuntimeProofs!WaitsHeldAlways` | `PersistenceSpec => []WaitsHeld` | `Held` and `DocumentHeld`, parts of it |
| `RuntimeProofs!RoundTripAlways` | `PersistenceSpec => RoundTrip` | with `Recorded`, below |
| `RuntimeProofs!ChoiceAlwaysKeepsItems` | `PersistenceSpec => ChoiceKeepsItems` | from `RuntimeTypeOK`: what is dealt is an injection into the places of the array, what is left are the other places, and items are counted by their places |

`RunsOnce` and `TimersAreAlarms` together: no callback of an agent's timer runs
twice, for all agents, trees and durations. `AgentMovesTokens` brings the two
theorems about `Configuration` to the code: an intact agent always has a node in
control, and two at once only below a parallel. Induction along a tree
(`TreeInduction`) is derived from the least depth of a counterexample.

### Why control stays on its path

`ControlPath` is not inductive. `add_to_front` never removes a node, so both
queues hold nodes that were interrupted. If a composite started over while such a
node of its own subtree was still ahead, that node would be set back to init and
run in a branch that nobody waits for. The invariant
`SteadyWhileIntact` (`AgentInvariant`) says where they can be:

* `StaleFirst`: what is queued below a node that is about to start its subtree
  anew (or to end it) is never behind that node in `m_pre_fronts \o m_fronts`, so
  it is visited, and dropped, first.
* `StaleWithin`: nothing is queued below a node that blocks, nor in a branch that
  a waiting sequential composite is not at.
* `QueuedOnce`: what is queued in both queues was interrupted since, or is a
  parallel that a second child has woken up.
* `Remembered`: what is woken up or blocks is queued, and is at a child it has.
* `RootAgain`: the exception. A reset queues the root while it may wait, so the
  root alone can be queued twice alive; the cases say what the work list is then.
* `OnPaths` is `ControlPath` by edges, and `InTree` says that only nodes of the
  loaded tree are queued or have run.

The proof has three layers. Each of the agent's operations is shown to be a move
of one token (`Down`, `Up`, `Blocks`) or of none (`Quiet`), each a few facts about
states, indices and queue order (`NextMoves`); each move keeps the first five
parts, without a look at the operations (`DownSettled`, `UpSettled`,
`BlocksSettled`, `QuietSettled`); and `RootAgain`, the part that is special, is
shown operation by operation. An agent that is stopped and an agent that loads a
tree again are covered: what stops sets `intact` to FALSE, and a load starts from
one queued root.

### Why composites return what run() does

`RunSemantics` looks at a composite when it has returned, and between its first
child and its last any number of steps of other branches take place. `RunsSoFar`
says what is true in between, of every node of an intact agent (`Progress`):

* a composite that waits or is woken up is `Halfway`: the children before
  `next_child_idx` have run and none of them ended it early, the ones after it have
  not run, the `if_else` is at the branch that its condition chose, the `probility`
  at a child with a weight, and `m_shuffle` deals every child once;
* a composite waits for no child that has returned, and it is woken up by one that
  has, so `on_revisit` never reads the result of an earlier run;
* a composite that has returned, and whose parent has not yet looked, has done what
  `run()` does (`RunGives`), or, if it is a parallel, has ended all its children
  (`RaceGives`), so it is still so when the parent looks.

A step happens at one node m that has control (`Touches`): it changes m, its
parent, its children, and what lies below nodes that it kills. Because control is
on its path (`SteadyWhileIntact`), m and its parent are exactly what their parents
are at, so no other composite loses what it has done (`OthersProgress`). What is
left is one lemma per operation, at m itself: on entry nothing has run
(`EnterProgress`), going on adds one child to the ones before the index
(`AdvanceProgress`), and a composite that settles has run (`ReturnProgress`,
`ParallelProgress`).

### Why a wait is found by its number

`WaitsHeld` speaks of an intact agent, and `decode` makes one from a document that
an intact agent wrote, perhaps in another process. So the invariant
(`RuntimeInvariant`) has two halves:

* `Running`, of the agent. `Typed` and `InTree` are those of `AgentProofs` and
  `ControlProofs`; `RingAlive`, which no step of `Agent` allows, keeps them too. `ActionsLast`
  says that control never gets below an action, whose children nobody enters: a
  wait is the last node of its chain. `TimersTyped` says that every entry has a
  number that was given out and names a node of the loaded tree that is not its
  root, or a deleted node;
  `BlackboardTyped` that every value fits, integers in int. `Held`: the closure of a
  queued, blocking wait is listed for it and for nobody else.
* `DocumentTyped` and `DocumentHeld`, of what was saved: the chains lead from the root
  along `Children` to the nodes of some queue (`Queueing`), in which two chains with
  the same number end at the same node.

The steps of a running agent are shown once for all that release closures
(`Releases`), and separately for a wait that starts, a load and the callbacks. For
`Decode` the proof follows the chains (`Placing` says what one of them does, `Reheld`
what the first k have done). A queue may hold a wait twice: then both chains carry
one number, the second closure removes an entry that the first one listed, and
one of the two entries is left. The nodes that a chain leads through are again the
path that it was written from (`Retraces`), which is where `Straight` is needed.

`RoundTrip` needs more (`Recorded`): that a document is made from ONE queue, ONE table
of closures and ONE of shuffles (`Written`), so that chains that share nodes do not
contradict each other; that only waits have closures, so that no node on the way
has one that was not written; that a queued root, whose chain would be empty,
never blocks (`BlockedLeaves`); and that a shuffle deals out every child (`Dealt`), so
that a new process can follow every index. After k chains the agent has what they
were written from (`Rewritten`).

`Restoring` and `Walk` are recursive functions over the document's sequences. That
they exist, and what holds at every index of them, is proved without an induction
theorem, from the least index at which it would fail (`RestoringSteps`, `WalkSteps`).

### What is only model-checked

* Liveness (`PollReturns`, `EventsTaken`, `ReadyVisited`): the prover has no fairness.
* `ControlPath` and `ControlQueued` under `PersistenceSpec` (run `restart`), which are
  proved under `Spec`. `decode` sets `reset_flag` while a tree is loaded, so that the next
  poll queues the root behind nodes that have control. `RootAgain`, a part of the
  inductive invariant, says that a reset leaves nothing but the root in the queue: it
  is false there, and what takes its place has not been stated.

## 5. What is not modelled, and the plan

Not modelled: the JSON parser's failures (a tree that does not load is
`LoadOther(NoNode)`), the debug command queue (nothing in the runtime reads what
it reports, and what a debugger makes of it is external; that `blackboard_pop`
reports nothing is a listed hazard), the editor's node model and the Qt windows
(user interface), trees with a node of type `"invalid"` (section 2), a result that an
action's owner reports for an earlier run of a node that runs again (section 2; the
callbacks of waits that do so are modelled), weights whose sum wraps at 2^32, a
negative gap, `is_timer_active` and `timer_handler_impl::cancel` (nothing calls
them).

Also not modelled: documents that `encode` has not written (missing members leave
`decode` half way, `action_agent.cpp:278`), `encode` called by an action in the
middle of a poll, and child indices above 255, which a chain stores in a uint8.
The action catalogue (`btree_actions.h`) is read by the editor only.

Left to do, in this order:

1. `SteadyWhileIntact` for restored agents: a `RootAgain` that lets a restored root be the
   last of the queue, then `ControlPath` and `ControlQueued` as theorems of `PersistenceSpec`.
2. What `Calculate` keeps, as lemmas for every value.
3. The action catalogue as a pure function.
