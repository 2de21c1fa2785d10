------------------------------- MODULE Timers -------------------------------
(***************************************************************************)
(* Timers: the process-wide timer_manager (timer_manager.hpp) and the      *)
(* agents that wait on it with the action wait_for_seconds (action_agent). *)
(*                                                                         *)
(* Three tables have to agree: the manager's callbacks, numbered with its  *)
(* handlers; every agent's m_active_timers, numbered with the agent's own  *)
(* sequence; and the timeout_closure that a waiting node owns.  Of the     *)
(* trees only the wait_for_seconds nodes are left: whatever the rest of a  *)
(* tree does to them (enter, interrupt, set back to init, delete) may      *)
(* happen whenever an agent runs.  Agents run between two polls of the     *)
(* manager, and one of them inside a callback, from set_result until its   *)
(* nested agent::poll returns.                                             *)
(***************************************************************************)
EXTENDS Naturals, Sequences, FiniteSets, SequencesExt, Functions

CONSTANTS
  Agents,   \* the agents of the process
  Waits,    \* their wait_for_seconds nodes
  Owner,    \* the agent of every node
  Gone,     \* a pointer to a deleted node
  Gaps,     \* the durations to wait: positive, wait_for_seconds has a minimum
  MaxTime,  \* bound on the clock, which does not run backwards
  MaxSeq    \* bound on the number of waits of every agent

ASSUME TimersAssumption ==
  /\ Owner \in [Waits -> Agents]
  /\ Gone \notin Waits
  /\ Gaps \subseteq Nat \ {0}
  /\ MaxTime \in Nat
  /\ MaxSeq \in [Agents -> Nat]

VARIABLES
  now,
  \* timer_manager
  max_handler_used, handler_for_reuse,
  m_callbacks,      \* handler -> the agent and the number that invoke_timer gets
  m_ts_handlers,    \* the queue, ordered by time
  \* every agent
  m_active_timers, m_next_timer_seq,
  \* every node
  m_state,
  m_closure,        \* m_timer_handler of its closure, 0 if there is none
  \* timer_manager::poll
  pc,
  in_now,           \* its argument
  firing,           \* the timer whose callback runs, and the node it has reached
  \* history
  due               \* when the last wait of a node may end

managerVars == <<max_handler_used, handler_for_reuse, m_callbacks, m_ts_handlers>>
agentVars   == <<m_active_timers, m_next_timer_seq, m_state, m_closure>>
vars == <<now, managerVars, agentVars, pc, in_now, firing, due>>

NoFiring == [agent |-> Gone, seq |-> 0, handler |-> 0, node |-> Gone]

TypeOK ==
  /\ now \in Nat
  /\ max_handler_used \in Nat
  /\ handler_for_reuse \in Seq(Nat \ {0})
  /\ DOMAIN m_callbacks \subseteq Nat \ {0}
  /\ m_callbacks \in [DOMAIN m_callbacks -> Agents \X (Nat \ {0})]
  /\ m_ts_handlers \subseteq [ts : Nat, handler : Nat \ {0}]
  /\ m_active_timers \in [Agents -> Seq([seq : Nat \ {0}, node : Waits \cup {Gone}])]
  /\ m_next_timer_seq \in [Agents -> Nat]
  /\ m_state \in [Waits -> {"init", "blocking", "dead"}]
  /\ m_closure \in [Waits -> Nat]
  /\ pc \in {"idle", "poll", "callback", "stop", "crashed"}
  /\ in_now \in Nat
  /\ firing \in [agent : Agents, seq : Nat, handler : Nat, node : Waits] \cup {NoFiring}
  /\ due \in [Waits -> Nat]

Init ==
  /\ now = 0
  /\ max_handler_used = 0
  /\ handler_for_reuse = <<>>
  /\ m_callbacks = <<>>
  /\ m_ts_handlers = {}
  /\ m_active_timers = [a \in Agents |-> <<>>]
  /\ m_next_timer_seq = [a \in Agents |-> 0]
  /\ m_state = [n \in Waits |-> "init"]
  /\ m_closure = [n \in Waits |-> 0]
  /\ pc = "idle"
  /\ in_now = 0
  /\ firing = NoFiring
  /\ due = [n \in Waits |-> 0]

\* The clock runs all the time; it is read when a poll starts and when an agent
\* starts a wait.
Tick ==
  /\ pc \in {"idle", "callback"}
  /\ now < MaxTime
  /\ now' = now + 1
  /\ UNCHANGED <<managerVars, agentVars, pc, in_now, firing, due>>

----------------------------------------------------------------------------
(* The tables.                                                             *)

\* The places of timer s in an agent's table.
Places(q, s) == {i \in DOMAIN q : q[i].seq = s}

\* remove_timer: the first entry of s goes, and the last one takes its place.
Removed(q, s) ==
  IF Places(q, s) = {} THEN q
  ELSE LET i == CHOOSE j \in Places(q, s) : \A k \in Places(q, s) : j <= k IN
       SubSeq([q EXCEPT ![i] = q[Len(q)]], 1, Len(q) - 1)

\* cancel_timer, called with the number of an AGENT's sequence: only if that
\* had an entry in the agent's table q.
Cancelled(cbs, q, s) ==
  IF Places(q, s) = {} THEN cbs ELSE Restrict(cbs, DOMAIN cbs \ {s})

\* Mutant: the number of a fired timer stays on the list.
GenHandlersKept(pool, max) ==
  IF Len(pool) >= 2
  THEN [handler |-> pool[Len(pool) - 1], pool |-> pool, max |-> max]
  ELSE [handler |-> max + 2 - Len(pool), pool |-> <<>>, max |-> max + 2 - Len(pool)]

\* gen_handler twice: add_timer_with_gap takes a handler that it does not use,
\* and add_timer_with_ts takes another.
GenHandlers(pool, max) ==
  IF Len(pool) >= 2
  THEN [handler |-> pool[Len(pool) - 1], pool |-> SubSeq(pool, 1, Len(pool) - 2),
        max |-> max]
  ELSE [handler |-> max + 2 - Len(pool), pool |-> <<>>, max |-> max + 2 - Len(pool)]

\* Mutant: one of the two calls of add_timer is missing.
RegisteredOnce(q, old, e) == Append(Removed(q, old), e)

\* m_active_timers after wait_for_seconds: the constructor of the closure adds
\* the entry, the closure it replaces removes its own, and add_timer adds the
\* entry again.
Registered(q, old, e) == Append(Removed(Append(q, e), old), e)

----------------------------------------------------------------------------
(* What happens to the nodes while an agent runs.                          *)

Running(a) == pc = "idle" \/ (pc \in {"callback", "stop"} /\ firing.agent = a)

\* wait_for_seconds at a node that is entered.
Wait(n, gap) ==
  LET a == Owner[n]
      seq == m_next_timer_seq[a] + 1
      gen == GenHandlers(handler_for_reuse, max_handler_used)
      e == [seq |-> seq, node |-> n] IN
  /\ Running(a)
  /\ pc # "stop"
  /\ m_state[n] = "init"
  /\ seq <= MaxSeq[a]
  /\ m_next_timer_seq' = [m_next_timer_seq EXCEPT ![a] = seq]
  /\ max_handler_used' = gen.max
  /\ handler_for_reuse' = gen.pool
  /\ m_ts_handlers' = m_ts_handlers \cup {[ts |-> now + gap, handler |-> gen.handler]}
  /\ m_callbacks' =
       Cancelled([h \in DOMAIN m_callbacks \cup {gen.handler} |->
                    IF h = gen.handler THEN <<a, seq>> ELSE m_callbacks[h]],
                 m_active_timers[a], m_closure[n])
  /\ m_active_timers' =
       [m_active_timers EXCEPT ![a] = Registered(@, m_closure[n], e)]
  /\ m_closure' = [m_closure EXCEPT ![n] = seq]
  /\ m_state' = [m_state EXCEPT ![n] = "blocking"]
  /\ due' = [due EXCEPT ![n] = now + gap]
  /\ UNCHANGED <<now, pc, in_now, firing>>

\* The destruction of n's closure.
DropClosure(n) ==
  LET a == Owner[n] IN
  /\ m_callbacks' = Cancelled(m_callbacks, m_active_timers[a], m_closure[n])
  /\ m_closure' = [m_closure EXCEPT ![n] = 0]
  /\ UNCHANGED <<max_handler_used, handler_for_reuse, m_ts_handlers, m_next_timer_seq>>

\* node::interrupt, on a dead node too.
Interrupt(n) ==
  /\ Running(Owner[n])
  /\ m_state[n] = "blocking" \/ m_closure[n] # 0
  /\ DropClosure(n)
  /\ m_active_timers' = [m_active_timers EXCEPT ![Owner[n]] = Removed(@, m_closure[n])]
  /\ m_state' = [m_state EXCEPT ![n] = "dead"]
  /\ UNCHANGED <<now, pc, in_now, firing, due>>

\* node::on_enter of n's parent, whatever state n is in.
Rearm(n) ==
  /\ Running(Owner[n])
  /\ pc # "stop"
  /\ m_state' = [m_state EXCEPT ![n] = "init"]
  /\ UNCHANGED <<now, managerVars, m_active_timers, m_next_timer_seq, m_closure, pc,
                 in_now, firing, due>>

\* load_btree deletes the nodes of the old tree.  It has stopped the agent, which
\* interrupts the nodes that are queued: not one that an earlier stop had dropped.
Delete(n) ==
  LET a == Owner[n] IN
  /\ pc = "idle"
  /\ DropClosure(n)
  /\ m_active_timers' = [m_active_timers EXCEPT ![a] =
       LET q == Removed(@, m_closure[n]) IN
       [i \in DOMAIN q |-> IF q[i].node = n THEN [q[i] EXCEPT !.node = Gone] ELSE q[i]]]
  /\ m_state' = [m_state EXCEPT ![n] = "init"]
  /\ UNCHANGED <<now, pc, in_now, firing, due>>

----------------------------------------------------------------------------
(* timer_manager::poll.                                                    *)

PollStart ==
  /\ pc = "idle"
  /\ pc' = "poll"
  /\ in_now' = now
  /\ UNCHANGED <<now, managerVars, agentVars, firing, due>>

\* Mutant: the queue is ordered the way its user expects.
IsTopEarliest(x, queue) == \A y \in queue : x.ts <= y.ts

\* std::priority_queue: the greatest pair comes first.
IsTop(x, queue) ==
  \A y \in queue : y.ts < x.ts \/ (y.ts = x.ts /\ y.handler <= x.handler)

Pops(x) ==
  /\ pc = "poll"
  /\ IsTop(x, m_ts_handlers)
  /\ x.ts < in_now
  /\ m_ts_handlers' = m_ts_handlers \ {x}

\* The timer was cancelled.
PopCancelled(x) ==
  /\ Pops(x)
  /\ x.handler \notin DOMAIN m_callbacks
  /\ handler_for_reuse' = Append(handler_for_reuse, x.handler)
  /\ UNCHANGED <<now, max_handler_used, m_callbacks, agentVars, pc, in_now, firing, due>>

\* Mutant: the callback is called where it is.
TakenNot(cbs, h) == cbs

\* A callback that is called is taken out first.
Taken(cbs, h) == Restrict(cbs, DOMAIN cbs \ {h})

\* The callback calls invoke_timer, which calls set_result on the node of the
\* first entry; there always is one (TimersListed).  A dead node stops its agent;
\* any other node dies and its agent runs; a deleted node is undefined behaviour.
PopInvoked(x) ==
  /\ Pops(x)
  /\ x.handler \in DOMAIN m_callbacks
  /\ LET a == m_callbacks[x.handler][1]
         s == m_callbacks[x.handler][2]
         q == m_active_timers[a] IN
     \E i \in Places(q, s) :
       /\ \A k \in Places(q, s) : i <= k
       /\ m_active_timers' = [m_active_timers EXCEPT ![a] = Removed(@, s)]
       /\ IF q[i].node = Gone
          THEN pc' = "crashed" /\ UNCHANGED <<firing, m_state>>
          ELSE /\ firing' = [agent |-> a, seq |-> s, handler |-> x.handler,
                             node |-> q[i].node]
               /\ pc' = IF m_state[q[i].node] = "dead" THEN "stop" ELSE "callback"
               /\ m_state' = [m_state EXCEPT ![q[i].node] = "dead"]
  /\ m_callbacks' = Taken(m_callbacks, x.handler)
  /\ UNCHANGED <<now, max_handler_used, handler_for_reuse, m_next_timer_seq, m_closure,
                 in_now, due>>

\* The callback returns: do_remove_timer with the agent's number, and the
\* handler is free again.
Return ==
  /\ pc \in {"callback", "stop"}
  /\ m_callbacks' = Restrict(m_callbacks, DOMAIN m_callbacks \ {firing.seq})
  /\ handler_for_reuse' = Append(handler_for_reuse, firing.handler)
  /\ pc' = "poll"
  /\ firing' = NoFiring
  /\ UNCHANGED <<now, max_handler_used, m_ts_handlers, agentVars, in_now, due>>

PollEnd ==
  /\ pc = "poll"
  /\ \A x \in m_ts_handlers : IsTop(x, m_ts_handlers) => x.ts >= in_now
  /\ pc' = "idle"
  /\ UNCHANGED <<now, managerVars, agentVars, in_now, firing, due>>

----------------------------------------------------------------------------
Next ==
  \/ Tick
  \/ \E n \in Waits : \E gap \in Gaps : Wait(n, gap)
  \/ \E n \in Waits : Interrupt(n) \/ Rearm(n) \/ Delete(n)
  \/ PollStart
  \/ \E x \in m_ts_handlers : PopCancelled(x)
  \/ \E x \in m_ts_handlers : PopInvoked(x)
  \/ Return
  \/ PollEnd

Spec == Init /\ [][Next]_vars

----------------------------------------------------------------------------
(* Refinement.                                                             *)

A == INSTANCE Alarms WITH
       issued <- m_next_timer_seq,
       pending <- {m_callbacks[h] : h \in DOMAIN m_callbacks},
       ringing <- IF pc \in {"callback", "stop"} THEN {<<firing.agent, firing.seq>>}
                  ELSE {}

\* Handlers that are used again, entries that are listed twice, and numbers that
\* are taken for handlers: for an agent all this is a callback that runs at most
\* once, alone, or is lost.  Runtime knows no more of the timers.
ImplementsAlarms == A!Spec

----------------------------------------------------------------------------
(* Safety.                                                                 *)

PendingHandlers == {x.handler : x \in m_ts_handlers}

\* No two timers share a handler: a number is pending once, a callback is
\* pending, and what gen_handler may hand out again is neither pending nor about
\* to be returned, although a cancelled timer stays in the queue.
HandlersDistinct ==
  /\ \A x, y \in m_ts_handlers : x.handler = y.handler => x = y
  /\ DOMAIN m_callbacks \subseteq PendingHandlers
  /\ IsInjective(handler_for_reuse)
  /\ ToSet(handler_for_reuse) \cap (PendingHandlers \cup {firing.handler}) = {}
  /\ firing.handler \notin PendingHandlers

\* A closure that is destroyed and a callback that fires find their entry,
\* whatever the other waits of the agent have added and removed: that is what the
\* entry that wait_for_seconds adds a second time is good for.
TimersListed ==
  /\ \A n \in Waits : m_closure[n] # 0 =>
       \E i \in DOMAIN m_active_timers[Owner[n]] :
         m_active_timers[Owner[n]][i] = [seq |-> m_closure[n], node |-> n]
  /\ \A h \in DOMAIN m_callbacks :
       Places(m_active_timers[m_callbacks[h][1]], m_callbacks[h][2]) # {}

\* A wait never ends early, although timers of earlier waits of the same node
\* stay registered and their callbacks end the wait they find.
WaitsFull ==
  [][\A n \in Waits :
       pc = "poll" /\ m_state[n] = "blocking" /\ m_state'[n] = "dead" => due[n] < now]_vars

----------------------------------------------------------------------------
(* What the documents say and the code does not do.                        *)

\* data/actions.json:195: wait_for_seconds always returns true.  While a node
\* waits, the callback that will end the wait is registered.
WaitsReturn ==
  pc # "crashed" => \A n \in Waits : m_state[n] = "blocking" =>
    \E h \in DOMAIN m_callbacks : m_callbacks[h] = <<Owner[n], m_closure[n]>>

\* data/actions.json:188: the argument is the number of seconds to wait.  When a
\* poll of the timers ends no wait that is due goes on.
WaitsPunctual ==
  [][PollEnd => \A x \in m_ts_handlers :
       x.handler \in DOMAIN m_callbacks => x.ts >= in_now]_vars
============================================================================
