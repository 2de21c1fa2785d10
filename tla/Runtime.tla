------------------------------ MODULE Runtime ------------------------------
(***************************************************************************)
(* An action_agent: the agent of Agent with its blackboard and its timers. *)
(* A step of this module is a step of Agent together with what the same    *)
(* call does to the blackboard (Blackboard) and to the closures of nodes   *)
(* that it starts, ends or deletes; and, new here, the callback of a timer *)
(* that reaches a node in whatever state the node then is.                 *)
(*                                                                         *)
(* Of the manager this module knows only what Timers implements (Alarms):  *)
(* a callback that is registered runs at most once, between two calls of   *)
(* the agent; one that is lost is one that never runs.  Time is left out,  *)
(* and so is the order of m_active_timers: it is a bag.  The application   *)
(* polls, and dispatches events to, an enabled agent only: what else it    *)
(* may do is in Agent.                                                     *)
(***************************************************************************)
EXTENDS AgentProperties, Blackboard, Bags

CONSTANTS
  Waits,     \* the action nodes with wait_for_seconds
  Request,   \* what the action nodes that use the blackboard ask for
  NoKey,     \* "from" of a request whose value is not taken from the blackboard
  Told,      \* the pairs of a key and a value that the application may set
  Gone,      \* a pointer to a deleted node
  MaxSeq,    \* bound on the numbers of waits
  MaxCallbacks  \* bound on the callbacks that are registered at a time

ASSUME RuntimeAssumption ==
  /\ Gone \notin Node
  /\ MaxSeq \in Nat
  /\ MaxCallbacks \in Nat
  /\ Waits \subseteq {n \in Node : Kind[n] = "action" /\ Outcomes[n] = {"pending"}}
  /\ DOMAIN Request \subseteq
       {n \in Node : Kind[n] = "action" /\ {"true", "false", "invalid"} \subseteq Outcomes[n]}
  /\ \A n \in DOMAIN Request :
       /\ DOMAIN Request[n] = {"action", "key", "value", "from", "dest", "count", "remove"}
       /\ Fits(Request[n].value)
       /\ Request[n].count \in Nat
  /\ \A t \in Told : Fits(t[2])

VARIABLES
  m_blackboard,
  m_active_timers,    \* the entries of waiting nodes
  m_next_timer_seq,
  m_closure,          \* the number of every node's timeout_closure, 0 if it has none
  registered          \* the numbers that the manager's callbacks for this agent hold

timerVars == <<m_active_timers, m_next_timer_seq, m_closure, registered>>
runtimeVars == <<vars, m_blackboard, timerVars>>

Entry(s, n) == [seq |-> s, node |-> n]

RuntimeTypeOK ==
  /\ TypeOK
  /\ \A k \in DOMAIN m_blackboard : Fits(m_blackboard[k])
  /\ IsABag(m_active_timers)
  /\ BagToSet(m_active_timers) \subseteq
       [seq : 1..MaxSeq, node : Node \cup {Gone}]
  /\ m_next_timer_seq \in 0..MaxSeq
  /\ m_closure \in [Node -> 0..MaxSeq]
  /\ IsABag(registered)
  /\ BagToSet(registered) \subseteq 1..MaxSeq

RuntimeInit ==
  /\ Init
  /\ m_blackboard = <<>>
  /\ m_active_timers = EmptyBag
  /\ m_next_timer_seq = 0
  /\ m_closure = [n \in Node |-> 0]
  /\ registered = EmptyBag

----------------------------------------------------------------------------
(* Closures and their entries.                                             *)

Entries(timers, s) == {e \in BagToSet(timers) : e.seq = s}

\* remove_timer for every number in S: one entry each, if there is one.
Unlisted(timers, S) ==
  timers (-) SetToBag({CHOOSE e \in Entries(timers, s) : TRUE :
                         s \in {t \in S : Entries(timers, t) # {}}})

Numbers(S) == {m_closure[n] : n \in S} \ {0}

Without(S) == [n \in Node |-> IF n \in S THEN 0 ELSE m_closure[n]]

\* A list of entries has as many copies of an entry as it has places for it.
Places(timers) == UNION {{<<e, i>> : i \in 1..timers[e]} : e \in BagToSet(timers)}

\* The address in e, once the nodes of S are deleted.
Dangling(e, S) == IF e.node \in S THEN Entry(e.seq, Gone) ELSE e

\* timers, once the nodes of S are deleted.
Deleted(timers, S) ==
  [f \in {Dangling(e, S) : e \in BagToSet(timers)} |->
     Cardinality({c \in Places(timers) : Dangling(c[1], S) = f})]

Dies(n) == m_state[n] # "dead" /\ m_state'[n] = "dead"

\* leave and interrupt: the closure of a node that dies is destroyed, and takes
\* an entry out of timers.
Releases(timers) ==
  /\ m_active_timers' = Unlisted(timers, Numbers({n \in Node : Dies(n)}))
  /\ m_closure' = [n \in Node |-> IF Dies(n) THEN 0 ELSE m_closure[n]]

Quietly ==
  /\ Releases(m_active_timers)
  /\ UNCHANGED <<m_blackboard, m_next_timer_seq, registered>>

\* reset clears the blackboard before it stops the agent.
Cleared ==
  /\ m_blackboard' = <<>>
  /\ Releases(m_active_timers)
  /\ UNCHANGED <<m_next_timer_seq, registered>>

----------------------------------------------------------------------------
(* Steps of Agent.                                                         *)

\* Calls and visits that touch neither the blackboard nor start a wait.
Plain ==
  /\ \/ m_enabled /\ (PollCall \/ \E e \in Event : DispatchEvent(e))
     \/ Enable \/ Disable
     \/ \E r \in Roots : LoadFirst(r)
     \/ \E n \in Node \ Waits, r \in BOOLEAN : Complete(n, r)
     \/ \E n \in Node \ Waits : CompleteDead(n)
     \/ /\ Polling
        /\ ~\E n \in Node :
             Fresh(n) /\ (n \in Waits \cup DOMAIN Request \/ Kind[n] = "reset")
  /\ Quietly

\* reset, called by load_btree or by a reset node.
Reset == (LoadSame \/ \E n \in Node : EnterReset(n)) /\ Cleared

\* load_btree with another name: the nodes of the old tree take their closures
\* with them, but an entry of theirs that is left keeps their address.
Replace ==
  /\ \E r \in Roots \cup {NoNode} : LoadOther(r)
  /\ m_blackboard' = <<>>
  /\ LET old == Below(cur_root_node)
         left == Unlisted(m_active_timers, Numbers(old)) IN
     IF pc' = "crashed" THEN UNCHANGED <<m_active_timers, m_closure>>
     ELSE /\ m_active_timers' = Deleted(left, old)
          /\ m_closure' = Without(old)
  /\ UNCHANGED <<m_next_timer_seq, registered>>

\* An action node whose argument is a key that the blackboard does not have.
Missing(r) == r.from # NoKey /\ r.from \notin DOMAIN m_blackboard

\* action::on_enter replaces a key by the value it has now.
Resolved(r) ==
  IF r.from = NoKey THEN r ELSE [r EXCEPT !.value = BlackboardGet(m_blackboard, r.from)]

Perform(n) ==
  /\ n \in DOMAIN Request
  /\ ~Missing(Request[n])
  /\ EnterAction(n)
  /\ \E o \in Performed(Resolved(Request[n]), m_blackboard) :
       result'[n] = o.answer /\ m_blackboard' = o.blackboard
  /\ Releases(m_active_timers)
  /\ UNCHANGED <<m_next_timer_seq, registered>>

PerformMissing(n) ==
  /\ n \in DOMAIN Request
  /\ Missing(Request[n])
  /\ EnterHalts(n)
  /\ Quietly

\* wait_for_seconds: the new closure lists its timer, the one that it replaces
\* removes its own, and add_timer lists the new one a second time.
WaitForSeconds(n) ==
  LET s == m_next_timer_seq + 1
      e == SetToBag({Entry(s, n)}) IN
  /\ n \in Waits
  /\ s <= MaxSeq
  /\ BagCardinality(registered) < MaxCallbacks
  /\ EnterPending(n)
  /\ m_next_timer_seq' = s
  /\ m_closure' = [m_closure EXCEPT ![n] = s]
  /\ m_active_timers' = Unlisted(m_active_timers (+) e, Numbers({n})) (+) e
  /\ registered' = registered (+) SetToBag({s})
  /\ UNCHANGED m_blackboard

----------------------------------------------------------------------------
(* Callbacks of the manager, and calls of the application on the blackboard. *)

Rings(s) ==
  /\ pc = "idle"
  /\ BagIn(s, registered)
  /\ registered' = registered (-) SetToBag({s})
  /\ UNCHANGED <<m_blackboard, m_next_timer_seq>>

\* invoke_timer finds no entry.
RingUnlisted(s) ==
  /\ Rings(s)
  /\ Entries(m_active_timers, s) = {}
  /\ UNCHANGED <<vars, m_active_timers, m_closure>>

\* set_result on the entry's node, which does not have to be waiting.  If it is
\* not, control has been given to its parent without need: the tree is not intact.
RingAlive(e) ==
  LET n == e.node IN
  /\ BagIn(e, m_active_timers)
  /\ Rings(e.seq)
  /\ n # Gone
  /\ m_state[n] # "dead"
  /\ SetResult(n, TRUE, m_fronts)
  /\ Poll
  /\ intact' = (intact /\ m_state[n] = "blocking")
  /\ Releases(m_active_timers (-) SetToBag({e}))
  /\ UNCHANGED <<cur_root_node, m_pre_fronts, m_events, m_enabled, reset_flag,
                 next_child_idx, m_shuffle, visited, poll_result, any_ready>>

\* set_result on a dead node stops the agent.
RingDead(e) ==
  /\ BagIn(e, m_active_timers)
  /\ Rings(e.seq)
  /\ e.node # Gone
  /\ m_state[e.node] = "dead"
  /\ \/ /\ NotifyStop(m_state, next_child_idx, m_fronts)
        /\ m_fronts' = <<>>
        /\ m_events' = <<>>
        /\ UNCHANGED <<cur_root_node, m_during_poll, reset_flag, result, m_shuffle,
                       visited, pollVars>>
     \/ StopFaults(m_state, next_child_idx, m_fronts)
  /\ Releases(m_active_timers (-) SetToBag({e}))

RingGone(e) ==
  /\ BagIn(e, m_active_timers)
  /\ Rings(e.seq)
  /\ e.node = Gone
  /\ Crash
  /\ UNCHANGED <<m_active_timers, m_closure>>

\* Only keys that the loaded tree uses: others make no difference.
Tell ==
  /\ pc = "idle"
  /\ \E t \in Told :
       /\ \E n \in Below(cur_root_node) \cap DOMAIN Request :
            t[1] \in {Request[n].key, Request[n].from}
       /\ \/ m_blackboard' = BlackboardSet(m_blackboard, t[1], t[2])
          \/ m_blackboard' = BlackboardPop(m_blackboard, t[1])
  /\ UNCHANGED <<vars, timerVars>>

Ring ==
  \/ \E s \in BagToSet(registered) : RingUnlisted(s)
  \/ \E e \in BagToSet(m_active_timers) : RingAlive(e) \/ RingDead(e) \/ RingGone(e)

RuntimeNext ==
  \/ Plain \/ Reset \/ Replace
  \/ \E n \in Node : Perform(n) \/ PerformMissing(n) \/ WaitForSeconds(n)
  \/ Ring
  \/ Tell
=============================================================================
