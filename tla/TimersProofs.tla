---------------------------- MODULE TimersProofs ----------------------------
(***************************************************************************)
(* What holds of the timers for every number of agents, nodes, waits and   *)
(* durations: no wait ends early, and no two timers share a handler.       *)
(***************************************************************************)
EXTENDS Timers, SequenceTheorems, WellFoundedInduction, TLAPS

USE TimersAssumption

----------------------------------------------------------------------------
(* No wait ends early.                                                     *)

\* Why a callback that ends the wrong wait does not end it early.  The queue
\* serves the LATEST time first: while the entry of a wait is queued, nothing
\* that is popped is due before it.  And a queue that has lost the entry has lost
\* it to a poll, whose time has passed.
Covered ==
  /\ now \in Nat /\ in_now \in Nat /\ in_now <= now
  /\ due \in [Waits -> Nat]
  /\ m_state \in [Waits -> {"init", "blocking", "dead"}]
  /\ \A x \in m_ts_handlers : x.ts \in Nat
  /\ \A n \in Waits : m_state[n] = "blocking" =>
       due[n] < now \/ \E x \in m_ts_handlers : x.ts = due[n]

\* What is popped is not earlier than any entry that is left, and it is due.
LEMMA PoppedIsLatest ==
  ASSUME Covered, NEW x \in m_ts_handlers, Pops(x)
  PROVE  x.ts < now /\ \A y \in m_ts_handlers : y.ts <= x.ts
<1>1. x.ts < in_now /\ \A y \in m_ts_handlers : y.ts < x.ts \/ y.ts = x.ts
  BY DEF Pops, IsTop
<1> QED
  BY <1>1 DEF Covered

\* A poll that starts, goes on or ends keeps Covered.
LEMMA PollCovered ==
  ASSUME Covered, PollStart \/ Return \/ PollEnd \/
                  \E x \in m_ts_handlers : PopCancelled(x) \/ PopInvoked(x)
  PROVE  Covered'
<1>1. CASE PollStart \/ Return \/ PollEnd
  <2>1. /\ UNCHANGED <<now, due, m_state, m_ts_handlers>>
        /\ in_now' = in_now \/ in_now' = now
    BY <1>1 DEF PollStart, Return, PollEnd, agentVars, managerVars
  <2> QED
    BY <2>1 DEF Covered
<1>2. ASSUME NEW x \in m_ts_handlers, PopCancelled(x) \/ PopInvoked(x)
      PROVE  Covered'
  <2>1. Pops(x) /\ UNCHANGED <<now, in_now, due>>
    BY <1>2 DEF PopCancelled, PopInvoked
  <2>2. m_ts_handlers' = m_ts_handlers \ {x}
    BY <2>1 DEF Pops
  <2>3. UNCHANGED m_state \/ \E n : m_state' = [m_state EXCEPT ![n] = "dead"]
    <3>1. CASE PopCancelled(x)
      BY <3>1 DEF PopCancelled, agentVars
    <3>2. CASE PopInvoked(x)
      BY <3>2 DEF PopInvoked
    <3> QED
      BY <1>2, <3>1, <3>2
  <2>4. x.ts < now
    BY <2>1, PoppedIsLatest
  <2>5. /\ m_state' \in [Waits -> {"init", "blocking", "dead"}]
        /\ \A n \in Waits : m_state'[n] = "blocking" => m_state[n] = "blocking"
    BY <2>3 DEF Covered
  <2>6. \A n \in Waits : m_state'[n] = "blocking" =>
           due[n] < now \/ \E y \in m_ts_handlers' : y.ts = due[n]
    BY <2>2, <2>4, <2>5 DEF Covered
  <2> QED
    BY <2>1, <2>2, <2>5, <2>6 DEF Covered
<1> QED
  BY <1>1, <1>2

\* So does the clock, and whatever happens to the nodes while an agent runs.
LEMMA NodesCovered ==
  ASSUME Covered,
         \/ Tick
         \/ \E n \in Waits : \E gap \in Gaps : Wait(n, gap)
         \/ \E n \in Waits : Interrupt(n) \/ Rearm(n) \/ Delete(n)
  PROVE  Covered'
<1>1. CASE Tick
  <2>1. /\ UNCHANGED <<in_now, due, m_state, m_ts_handlers>>
        /\ now' = now + 1
    BY <1>1 DEF Tick, agentVars, managerVars
  <2> QED
    BY <2>1 DEF Covered
<1>2. ASSUME NEW n \in Waits, NEW gap \in Gaps, Wait(n, gap)
      PROVE  Covered'
  <2>1. /\ now' = now /\ in_now' = in_now /\ now + gap \in Nat
        /\ due' = [due EXCEPT ![n] = now + gap]
        /\ m_state' = [m_state EXCEPT ![n] = "blocking"]
    BY <1>2 DEF Wait, Covered
  <2>2. PICK h : m_ts_handlers' = m_ts_handlers \cup {[ts |-> now + gap, handler |-> h]}
    BY <1>2 DEF Wait
  <2>3. /\ m_state' \in [Waits -> {"init", "blocking", "dead"}]
        /\ \A m \in Waits \ {n} : m_state'[m] = m_state[m] /\ due'[m] = due[m]
        /\ due' \in [Waits -> Nat] /\ due'[n] = now + gap
    BY <2>1 DEF Covered
  <2>4. \A m \in Waits : m_state'[m] = "blocking" =>
           due'[m] < now' \/ \E y \in m_ts_handlers' : y.ts = due'[m]
    <3>1. \E y \in m_ts_handlers' : y.ts = due'[n]
      <4>1. [ts |-> now + gap, handler |-> h] \in m_ts_handlers'
        BY <2>2
      <4>2. [ts |-> now + gap, handler |-> h].ts = due'[n]
        BY <2>3
      <4> QED
        BY <4>1, <4>2
    <3> QED
      BY <2>1, <2>2, <2>3, <3>1 DEF Covered
  <2>5. \A y \in m_ts_handlers' : y.ts \in Nat
    BY <2>1, <2>2 DEF Covered
  <2> QED
    BY <2>1, <2>3, <2>4, <2>5 DEF Covered
<1>3. ASSUME NEW n \in Waits, Interrupt(n) \/ Rearm(n) \/ Delete(n)
      PROVE  Covered'
  <2>1. UNCHANGED <<now, in_now, due, m_ts_handlers>>
    BY <1>3 DEF Interrupt, Rearm, Delete, DropClosure, managerVars
  <2>2. /\ m_state' \in [Waits -> {"init", "blocking", "dead"}]
        /\ \A m \in Waits : m_state'[m] = "blocking" => m_state[m] = "blocking"
    <3>1. m_state' = [m_state EXCEPT ![n] = "dead"] \/
          m_state' = [m_state EXCEPT ![n] = "init"]
      BY <1>3 DEF Interrupt, Rearm, Delete
    <3> QED
      BY <3>1 DEF Covered
  <2> QED
    BY <2>1, <2>2 DEF Covered
<1> QED
  BY <1>1, <1>2, <1>3

\* In a poll only PopInvoked ends a wait, and the wait is due.
LEMMA PollEndsDue ==
  ASSUME Covered, [Next]_vars, NEW n \in Waits, pc = "poll",
         m_state[n] = "blocking", m_state'[n] = "dead"
  PROVE  due[n] < now
<1>1. PICK x \in m_ts_handlers : PopInvoked(x)
  BY DEF Next, vars, agentVars, Tick, Wait, Interrupt, Rearm, Delete, Running,
         PollStart, PopCancelled, Return, PollEnd
<1>2. x.ts < now /\ \A y \in m_ts_handlers : y.ts <= x.ts
  BY <1>1, PoppedIsLatest DEF PopInvoked
<1>3. CASE \E y \in m_ts_handlers : y.ts = due[n]
  BY <1>2, <1>3 DEF Covered
<1> QED
  BY <1>3 DEF Covered

\* A wait never ends before its time, whichever callback ends it: for every set
\* of agents and nodes and every interleaving of waits, interruptions, deletions
\* and polls.
THEOREM WaitsLast == Spec => WaitsFull
<1>1. Init => Covered
  BY DEF Init, Covered
<1>2. Covered /\ [Next]_vars => Covered'
  <2>1. Covered /\ UNCHANGED vars => Covered'
    BY DEF Covered, vars, agentVars, managerVars
  <2> QED
    BY <2>1, PollCovered, NodesCovered DEF Next
<1>3. Covered /\ [Next]_vars =>
        [\A n \in Waits :
           pc = "poll" /\ m_state[n] = "blocking" /\ m_state'[n] = "dead" =>
             due[n] < now]_vars
  BY PollEndsDue
<1> QED
  BY <1>1, <1>2, <1>3, PTL DEF Spec, WaitsFull

----------------------------------------------------------------------------
(* No two timers share a handler.                                          *)

\* Every handler in use was generated, and a callback that runs has one.
Numbered ==
  /\ max_handler_used \in Nat
  /\ handler_for_reuse \in Seq(1..max_handler_used)
  /\ \A x \in m_ts_handlers : x.handler \in 1..max_handler_used
  /\ firing.handler \in 0..max_handler_used
  /\ pc \in {"callback", "stop"} => firing.handler # 0

\* Freeing a handler that is not free keeps the free handlers distinct.
LEMMA FreedDistinct ==
  ASSUME NEW m \in Nat, NEW q \in Seq(1..m), NEW h \in 1..m,
         IsInjective(q), h \notin ToSet(q)
  PROVE  /\ Append(q, h) \in Seq(1..m)
         /\ IsInjective(Append(q, h))
         /\ ToSet(Append(q, h)) = ToSet(q) \cup {h}
<1>1. /\ Append(q, h) \in Seq(1..m)
      /\ DOMAIN Append(q, h) = 1..(Len(q) + 1) /\ DOMAIN q = 1..Len(q) /\ Len(q) \in Nat
      /\ \A i \in 1..Len(q) : Append(q, h)[i] = q[i]
      /\ Append(q, h)[Len(q) + 1] = h
  OBVIOUS
<1>2. \A i \in 1..Len(q) : q[i] # h
  BY <1>1 DEF ToSet
<1>3. ToSet(Append(q, h)) = ToSet(q) \cup {h}
  <2>1. 1..(Len(q) + 1) = (1..Len(q)) \cup {Len(q) + 1}
    BY <1>1
  <2> QED
    BY <1>1, <2>1 DEF ToSet
<1> QED
  BY <1>1, <1>2, <1>3 DEF IsInjective

\* A generated handler was free, or never used before; it is not free any more.
LEMMA GeneratedIsNew ==
  ASSUME Numbered, IsInjective(handler_for_reuse),
         NEW gen, gen = GenHandlers(handler_for_reuse, max_handler_used)
  PROVE  /\ gen.max \in Nat /\ gen.max >= max_handler_used
         /\ gen.handler \in 1..gen.max
         /\ gen.handler \in ToSet(handler_for_reuse) \/ gen.handler > max_handler_used
         /\ gen.pool \in Seq(1..gen.max)
         /\ IsInjective(gen.pool)
         /\ ToSet(gen.pool) \subseteq ToSet(handler_for_reuse) \ {gen.handler}
<1> DEFINE q == handler_for_reuse
           m == max_handler_used
<1>1. q \in Seq(1..m) /\ m \in Nat /\ Len(q) \in Nat /\ DOMAIN q = 1..Len(q)
  BY DEF Numbered
<1>2. CASE Len(q) >= 2
  <2>1. gen = [handler |-> q[Len(q) - 1], pool |-> SubSeq(q, 1, Len(q) - 2), max |-> m]
    BY <1>2 DEF GenHandlers
  <2>2. Len(q) - 1 \in 1..Len(q) /\ Len(q) - 2 \in Nat
    BY <1>1, <1>2
  <2>3. /\ SubSeq(q, 1, Len(q) - 2) \in Seq(1..m)
        /\ DOMAIN SubSeq(q, 1, Len(q) - 2) = 1..(Len(q) - 2)
        /\ \A i \in 1..(Len(q) - 2) : SubSeq(q, 1, Len(q) - 2)[i] = q[i]
    BY <1>1, <2>2
  <2>4. 1..(Len(q) - 2) \subseteq 1..Len(q) /\ Len(q) - 1 \notin 1..(Len(q) - 2)
    BY <1>1, <2>2
  <2>5. IsInjective(SubSeq(q, 1, Len(q) - 2))
    BY <1>1, <2>3, <2>4 DEF IsInjective
  <2>6. \A i \in 1..(Len(q) - 2) : q[i] # q[Len(q) - 1]
    BY <1>1, <2>2, <2>4 DEF IsInjective
  <2>7. ToSet(SubSeq(q, 1, Len(q) - 2)) \subseteq ToSet(q) \ {q[Len(q) - 1]}
    BY <1>1, <2>3, <2>4, <2>6 DEF ToSet
  <2>8. q[Len(q) - 1] \in 1..m /\ q[Len(q) - 1] \in ToSet(q)
    <3>1. q[Len(q) - 1] \in 1..m
      BY <1>1, <2>2
    <3>2. q[Len(q) - 1] \in ToSet(q)
      BY <1>1, <2>2 DEF ToSet
    <3> QED
      BY <3>1, <3>2
  <2> QED
    BY <1>1, <2>1, <2>3, <2>5, <2>7, <2>8
<1>3. CASE ~(Len(q) >= 2)
  <2>1. gen = [handler |-> m + 2 - Len(q), pool |-> <<>>, max |-> m + 2 - Len(q)]
    BY <1>3 DEF GenHandlers
  <2>2. m + 2 - Len(q) \in Nat /\ m + 2 - Len(q) > m
    BY <1>1, <1>3
  <2>3. IsInjective(<<>>) /\ ToSet(<<>>) = {} /\ <<>> \in Seq(1..(m + 2 - Len(q)))
    BY DEF IsInjective, ToSet
  <2> QED
    BY <1>1, <2>1, <2>2, <2>3
<1> QED
  BY <1>2, <1>3

\* The inductive invariant.
Distinct == Numbered /\ HandlersDistinct

\* Cancelling only takes callbacks away.
LEMMA CancelledFewer ==
  ASSUME NEW cbs, NEW q, NEW s
  PROVE  DOMAIN Cancelled(cbs, q, s) \subseteq DOMAIN cbs
  BY DEF Cancelled, Restrict

\* Whatever happens to the nodes and starts no wait leaves the handlers alone,
\* apart from cancelled callbacks.
LEMMA FewerCallbacks ==
  ASSUME Distinct, DOMAIN m_callbacks' \subseteq DOMAIN m_callbacks,
         UNCHANGED <<max_handler_used, handler_for_reuse, m_ts_handlers, firing>>,
         pc' \in {"callback", "stop"} => pc \in {"callback", "stop"}
  PROVE  Distinct'
  BY DEF Distinct, Numbered, HandlersDistinct, PendingHandlers

\* A new wait takes a handler that is not in use.
LEMMA WaitDistinct ==
  ASSUME Distinct, NEW n \in Waits, NEW gap \in Gaps, Wait(n, gap)
  PROVE  Distinct'
<1> DEFINE gen == GenHandlers(handler_for_reuse, max_handler_used)
           e == [ts |-> now + gap, handler |-> gen.handler]
<1>1. /\ max_handler_used' = gen.max
      /\ handler_for_reuse' = gen.pool
      /\ m_ts_handlers' = m_ts_handlers \cup {e}
      /\ UNCHANGED <<pc, firing>>
  BY DEF Wait
<1>2. DOMAIN m_callbacks' \subseteq DOMAIN m_callbacks \cup {gen.handler}
  BY CancelledFewer DEF Wait
<1>3. /\ gen.max \in Nat /\ gen.max >= max_handler_used
      /\ gen.handler \in 1..gen.max
      /\ gen.handler \in ToSet(handler_for_reuse) \/ gen.handler > max_handler_used
      /\ gen.pool \in Seq(1..gen.max)
      /\ IsInjective(gen.pool)
      /\ ToSet(gen.pool) \subseteq ToSet(handler_for_reuse) \ {gen.handler}
  BY GeneratedIsNew DEF Distinct, HandlersDistinct
<1> HIDE DEF gen
<1>4. gen.handler \notin PendingHandlers /\ gen.handler # firing.handler
  BY <1>3 DEF Distinct, Numbered, HandlersDistinct, PendingHandlers
<1>5. PendingHandlers' = PendingHandlers \cup {gen.handler}
  <2>1. e.handler = gen.handler
    OBVIOUS
  <2> HIDE DEF e
  <2> QED
    BY <1>1, <2>1 DEF PendingHandlers
<1>6. HandlersDistinct'
  <2>1. \A x, y \in m_ts_handlers' : x.handler = y.handler => x = y
    BY <1>1, <1>4 DEF Distinct, HandlersDistinct, PendingHandlers
  <2>2. ToSet(handler_for_reuse') \cap (PendingHandlers' \cup {firing'.handler}) = {}
    BY <1>1, <1>3, <1>5 DEF Distinct, HandlersDistinct
  <2> QED
    BY <1>1, <1>2, <1>3, <1>4, <1>5, <2>1, <2>2 DEF Distinct, HandlersDistinct
<1>7. Numbered'
  <2>1. \A x \in m_ts_handlers' : x.handler \in 1..gen.max
    BY <1>1, <1>3 DEF Distinct, Numbered
  <2> QED
    BY <1>1, <1>3, <2>1 DEF Distinct, Numbered
<1> QED
  BY <1>6, <1>7 DEF Distinct

\* A popped handler leaves the queue, and is freed at once or when its callback
\* returns.
LEMMA PopDistinct ==
  ASSUME Distinct, NEW x \in m_ts_handlers, PopCancelled(x) \/ PopInvoked(x)
  PROVE  Distinct'
<1>1. m_ts_handlers' = m_ts_handlers \ {x} /\ UNCHANGED max_handler_used
  BY DEF PopCancelled, PopInvoked, Pops
<1>2. PendingHandlers' = PendingHandlers \ {x.handler} /\ x.handler \in PendingHandlers
  BY <1>1 DEF Distinct, HandlersDistinct, PendingHandlers
<1>3. CASE PopCancelled(x)
  <2>1. /\ handler_for_reuse' = Append(handler_for_reuse, x.handler)
        /\ UNCHANGED <<firing, pc, m_callbacks>>
        /\ x.handler \notin DOMAIN m_callbacks
    BY <1>3 DEF PopCancelled
  <2>2. /\ Append(handler_for_reuse, x.handler) \in Seq(1..max_handler_used)
        /\ IsInjective(Append(handler_for_reuse, x.handler))
        /\ ToSet(Append(handler_for_reuse, x.handler))
             = ToSet(handler_for_reuse) \cup {x.handler}
    <3>1. /\ max_handler_used \in Nat
          /\ handler_for_reuse \in Seq(1..max_handler_used)
          /\ x.handler \in 1..max_handler_used
          /\ IsInjective(handler_for_reuse)
      BY DEF Distinct, HandlersDistinct, Numbered
    <3>2. x.handler \notin ToSet(handler_for_reuse)
      BY <1>2 DEF Distinct, HandlersDistinct
    <3> QED
      BY <3>1, <3>2, FreedDistinct
  <2>3. Numbered'
    BY <1>1, <2>1, <2>2 DEF Distinct, Numbered
  <2>4. HandlersDistinct'
    BY <1>1, <1>2, <2>1, <2>2 DEF Distinct, HandlersDistinct
  <2> QED
    BY <2>3, <2>4 DEF Distinct
<1>4. CASE PopInvoked(x)
  <2>1. /\ UNCHANGED handler_for_reuse
        /\ DOMAIN m_callbacks' = DOMAIN m_callbacks \ {x.handler}
    BY <1>4 DEF PopInvoked, Taken, Restrict
  <2>2. \/ pc' = "crashed" /\ UNCHANGED firing
        \/ firing'.handler = x.handler
    <3>1. \/ pc' = "crashed" /\ UNCHANGED firing
          \/ \E a, s, n :
               firing' = [agent |-> a, seq |-> s, handler |-> x.handler, node |-> n]
      BY <1>4, Zenon DEF PopInvoked
    <3> QED
      BY <3>1
  <2>3. Numbered'
    <3>1. firing'.handler \in 0..max_handler_used
      BY <1>2, <2>2 DEF Distinct, Numbered
    <3>2. pc' \in {"callback", "stop"} => firing'.handler # 0
      BY <2>2 DEF Distinct, Numbered
    <3> QED
      BY <1>1, <2>1, <3>1, <3>2 DEF Distinct, Numbered
  <2>4. HandlersDistinct'
    BY <1>1, <1>2, <2>1, <2>2 DEF Distinct, HandlersDistinct
  <2> QED
    BY <2>3, <2>4 DEF Distinct
<1> QED
  BY <1>3, <1>4

\* A callback that returns frees its own handler.
LEMMA ReturnDistinct ==
  ASSUME Distinct, Return
  PROVE  Distinct'
<1>1. /\ handler_for_reuse' = Append(handler_for_reuse, firing.handler)
      /\ UNCHANGED <<max_handler_used, m_ts_handlers>>
      /\ pc' = "poll" /\ firing'.handler = 0
      /\ DOMAIN m_callbacks' \subseteq DOMAIN m_callbacks
  BY DEF Return, NoFiring, Restrict
<1>2. firing.handler \in 1..max_handler_used
  BY DEF Return, Distinct, Numbered
<1>3. /\ Append(handler_for_reuse, firing.handler) \in Seq(1..max_handler_used)
      /\ IsInjective(Append(handler_for_reuse, firing.handler))
      /\ ToSet(Append(handler_for_reuse, firing.handler))
           = ToSet(handler_for_reuse) \cup {firing.handler}
  <2>1. /\ max_handler_used \in Nat
        /\ handler_for_reuse \in Seq(1..max_handler_used)
        /\ IsInjective(handler_for_reuse)
    BY DEF Distinct, HandlersDistinct, Numbered
  <2>2. firing.handler \notin ToSet(handler_for_reuse)
    BY DEF Distinct, HandlersDistinct
  <2> QED
    BY <1>2, <2>1, <2>2, FreedDistinct
<1>4. Numbered'
  BY <1>1, <1>3 DEF Distinct, Numbered
<1>5. 0 \notin PendingHandlers /\ 0 \notin ToSet(handler_for_reuse)
  BY DEF Distinct, Numbered, PendingHandlers, ToSet
<1>6. HandlersDistinct'
  BY <1>1, <1>2, <1>3, <1>5 DEF Distinct, HandlersDistinct, PendingHandlers
<1> QED
  BY <1>4, <1>6 DEF Distinct

\* No two timers ever share a handler, although handlers are used again and the
\* queue keeps those of cancelled timers: for every number of agents and waits.
THEOREM HandlersNeverShared == Spec => []HandlersDistinct
<1>1. Init => Distinct
  <2>1. IsInjective(<<>>) /\ ToSet(<<>>) = {} /\ DOMAIN <<>> = {}
    BY DEF IsInjective, ToSet
  <2>2. <<>> \in Seq(1..0)
    OBVIOUS
  <2> QED
    BY <2>1, <2>2 DEF Init, Distinct, Numbered, HandlersDistinct, PendingHandlers, NoFiring
<1>2. Distinct /\ [Next]_vars => Distinct'
  <2> SUFFICES ASSUME Distinct, [Next]_vars PROVE Distinct'
    OBVIOUS
  <2>1. CASE Tick \/ PollStart \/ PollEnd \/ UNCHANGED vars
    BY <2>1, FewerCallbacks
    DEF Tick, PollStart, PollEnd, vars, managerVars, agentVars
  <2>2. ASSUME NEW n \in Waits, Interrupt(n) \/ Rearm(n) \/ Delete(n)
        PROVE  Distinct'
    BY <2>2, FewerCallbacks, CancelledFewer
    DEF Interrupt, Rearm, Delete, DropClosure, managerVars
  <2>3. CASE \E n \in Waits : \E gap \in Gaps : Wait(n, gap)
    BY <2>3, WaitDistinct
  <2>4. CASE \E x \in m_ts_handlers : PopCancelled(x) \/ PopInvoked(x)
    BY <2>4, PopDistinct
  <2>5. CASE Return
    BY <2>5, ReturnDistinct
  <2> QED
    BY <2>1, <2>2, <2>3, <2>4, <2>5 DEF Next
<1>3. Distinct => HandlersDistinct
  BY DEF Distinct
<1> QED
  BY <1>1, <1>2, <1>3, PTL DEF Spec

----------------------------------------------------------------------------
(* Every closure and every callback has its entry.                         *)

\* A timer has some entry; it has at least two.
Some(S) == S # {}
Two(S) == \E i, j \in S : i # j

\* The first entry of a timer exists if there is one.
LEMMA FirstPlace ==
  ASSUME NEW q, NEW s, Places(q, s) # {}, Places(q, s) \subseteq Nat
  PROVE  \E i \in Places(q, s) : \A k \in Places(q, s) : i <= k
<1> DEFINE R == {ss \in Nat \X Nat : ss[1] < ss[2]}
<1>1. IsWellFoundedOn(R, Nat)
  BY NatLessThanWellFounded DEF OpToRel
<1>2. \A i, k \in Nat : k < i => <<k, i>> \in R
  OBVIOUS
<1> HIDE DEF R
<1>3. PICK i \in Places(q, s) : \A k \in Places(q, s) : <<k, i>> \notin R
  BY <1>1, WFMin
<1>4. \A k \in Places(q, s) : ~(k < i) /\ k \in Nat /\ i \in Nat
  BY <1>2, <1>3
<1> QED
  BY <1>4

\* Removed takes one entry of s away and moves at most one of the others.
LEMMA RemovedEntries ==
  ASSUME NEW S, NEW q \in Seq(S), NEW s, Places(q, s) # {},
         NEW r, r = Removed(q, s)
  PROVE  /\ r \in Seq(S)
         /\ \E i \in Places(q, s) :
              /\ \A k \in DOMAIN q \ {i} :
                   LET j == IF k = Len(q) THEN i ELSE k IN
                   j \in DOMAIN r /\ r[j] = q[k]
              /\ \A j \in DOMAIN r : \E k \in DOMAIN q : r[j] = q[k]
<1> DEFINE i == CHOOSE j \in Places(q, s) : \A k \in Places(q, s) : j <= k
           moved == [q EXCEPT ![i] = q[Len(q)]]
<1>1. DOMAIN q = 1..Len(q) /\ Len(q) \in Nat
  OBVIOUS
<1>2. Places(q, s) \subseteq 1..Len(q)
  BY <1>1 DEF Places
<1>3. i \in Places(q, s)
  <2>1. \E j \in Places(q, s) : \A k \in Places(q, s) : j <= k
    BY <1>1, <1>2, FirstPlace
  <2> QED
    BY <2>1
<1>4. r = SubSeq(moved, 1, Len(q) - 1)
  BY DEF Removed
<1> HIDE DEF i
<1>5. i \in 1..Len(q) /\ Len(q) \in 1..Len(q) /\ Len(q) - 1 \in Nat
  BY <1>1, <1>2, <1>3
<1>6. /\ moved \in Seq(S) /\ Len(moved) = Len(q)
      /\ moved[i] = q[Len(q)]
      /\ \A k \in 1..Len(q) : k # i => moved[k] = q[k]
  BY <1>1, <1>5
<1> HIDE DEF moved
<1>7. /\ r \in Seq(S) /\ DOMAIN r = 1..(Len(q) - 1)
      /\ \A k \in 1..(Len(q) - 1) : r[k] = moved[k]
  BY <1>4, <1>5, <1>6
<1>8. ASSUME NEW k \in DOMAIN q \ {i}, NEW j, j = IF k = Len(q) THEN i ELSE k
      PROVE  j \in DOMAIN r /\ r[j] = q[k]
  BY <1>1, <1>5, <1>6, <1>7, <1>8
<1>9. ASSUME NEW j \in DOMAIN r
      PROVE  \E k \in DOMAIN q : r[j] = q[k]
  <2>1. j \in 1..Len(q)
    BY <1>1, <1>5, <1>7
  <2> QED
    BY <1>1, <1>5, <1>6, <1>7, <2>1
<1> QED
  BY <1>3, <1>7, <1>8, <1>9

\* So the other timers keep their entries, and s keeps one if it had two.
LEMMA RemovedPlaces ==
  ASSUME NEW S, NEW q \in Seq(S), NEW s
  PROVE  /\ Removed(q, s) \in Seq(S)
         /\ \A j \in DOMAIN Removed(q, s) : \E k \in DOMAIN q : Removed(q, s)[j] = q[k]
         /\ \A t : t # s /\ Some(Places(q, t)) => Some(Places(Removed(q, s), t))
         /\ \A t : t # s /\ Two(Places(q, t)) => Two(Places(Removed(q, s), t))
         /\ Two(Places(q, s)) => Some(Places(Removed(q, s), s))
<1>1. CASE Places(q, s) = {}
  BY <1>1 DEF Removed, Two, Some
<1>2. CASE Places(q, s) # {}
  <2> DEFINE r == Removed(q, s)
  <2>1. /\ r \in Seq(S)
        /\ \E i \in Places(q, s) :
             /\ \A k \in DOMAIN q \ {i} :
                  LET j == IF k = Len(q) THEN i ELSE k IN
                  j \in DOMAIN r /\ r[j] = q[k]
             /\ \A j \in DOMAIN r : \E k \in DOMAIN q : r[j] = q[k]
    BY <1>2, RemovedEntries
  <2> HIDE DEF r
  <2>2. PICK i \in Places(q, s) :
             /\ \A k \in DOMAIN q \ {i} :
                  LET j == IF k = Len(q) THEN i ELSE k IN
                  j \in DOMAIN r /\ r[j] = q[k]
             /\ \A j \in DOMAIN r : \E k \in DOMAIN q : r[j] = q[k]
    BY <2>1
  <2> DEFINE j(k) == IF k = Len(q) THEN i ELSE k
  <2>3. \A t : \A k \in Places(q, t) : k # i => j(k) \in Places(r, t)
    BY <2>2 DEF Places
  <2>4. \A k, l \in DOMAIN q \ {i} : k # l => j(k) # j(l)
    BY <2>2
  <2>5. \A t : t # s => i \notin Places(q, t)
    BY <2>2 DEF Places
  <2>6. \A t : Places(q, t) \subseteq DOMAIN q
    BY DEF Places
  <2> HIDE DEF j
  <2>7. \A t : t # s /\ Some(Places(q, t)) => Some(Places(r, t))
    BY <2>3, <2>5 DEF Some
  <2>8. ASSUME NEW t, t # s, Two(Places(q, t))
        PROVE  Two(Places(r, t))
    <3>1. PICK k, l \in Places(q, t) : k # l
      BY <2>8 DEF Two
    <3>2. k # i /\ l # i
      BY <2>5, <2>8
    <3>3. j(k) \in Places(r, t) /\ j(l) \in Places(r, t) /\ j(k) # j(l)
      BY <2>3, <2>4, <2>6, <3>1, <3>2
    <3> QED
      BY <3>3 DEF Two
  <2>9. Two(Places(q, s)) => Some(Places(r, s))
    <3>1. ASSUME NEW k \in Places(q, s), NEW l \in Places(q, s), k # l
          PROVE  Places(r, s) # {}
      <4>1. k # i \/ l # i
        BY <3>1
      <4> QED
        BY <2>3, <4>1
    <3> QED
      BY <3>1 DEF Two, Some
  <2> QED
    BY <2>1, <2>2, <2>7, <2>8, <2>9 DEF r
<1> QED
  BY <1>1, <1>2

\* Appending an entry adds its place.
LEMMA AppendedPlaces ==
  ASSUME NEW S, NEW q \in Seq(S), NEW e \in S
  PROVE  /\ Append(q, e) \in Seq(S)
         /\ \A t : Places(q, t) \subseteq Places(Append(q, e), t)
         /\ \A t : Len(q) + 1 \notin Places(q, t)
         /\ Len(q) + 1 \in Places(Append(q, e), e.seq)
         /\ \A j \in DOMAIN Append(q, e) :
              Append(q, e)[j] = e \/ \E k \in DOMAIN q : Append(q, e)[j] = q[k]
<1>1. /\ Append(q, e) \in Seq(S)
      /\ DOMAIN Append(q, e) = 1..(Len(q) + 1) /\ DOMAIN q = 1..Len(q) /\ Len(q) \in Nat
      /\ \A i \in 1..Len(q) : Append(q, e)[i] = q[i]
      /\ Append(q, e)[Len(q) + 1] = e
  OBVIOUS
<1>2. \A j \in 1..(Len(q) + 1) : j \in 1..Len(q) \/ j = Len(q) + 1
  BY <1>1
<1> QED
  BY <1>1, <1>2 DEF Places

\* The types of what the argument speaks about.
Entry == [seq : Nat \ {0}, node : Waits \cup {Gone}]

TablesOK ==
  /\ m_active_timers \in [Agents -> Seq(Entry)]
  /\ m_next_timer_seq \in [Agents -> Nat]
  /\ m_closure \in [Waits -> Nat]
  /\ \A h \in DOMAIN m_callbacks : m_callbacks[h] \in Agents \X (Nat \ {0})

\* Numbers are given out once: no closure, callback or entry has one that its
\* agent has not reached, and no two closures or callbacks have the same.
OnceNumbered ==
  /\ \A n \in Waits : m_closure[n] <= m_next_timer_seq[Owner[n]]
  /\ \A h \in DOMAIN m_callbacks : m_callbacks[h][2] <= m_next_timer_seq[m_callbacks[h][1]]
  /\ \A n, m \in Waits :
       n # m /\ Owner[n] = Owner[m] /\ m_closure[n] = m_closure[m] => m_closure[n] = 0
  /\ \A h, k \in DOMAIN m_callbacks : h # k => m_callbacks[h] # m_callbacks[k]

\* The entries of agent a's timer s.
At(a, s) == Places(m_active_timers[a], s)

\* A closure and a callback of the same timer have an entry EACH: the first of
\* the two that goes takes one away.
BothListed ==
  /\ \A n \in Waits : m_closure[n] # 0 => Some(At(Owner[n], m_closure[n]))
  /\ \A h \in DOMAIN m_callbacks : Some(At(m_callbacks[h][1], m_callbacks[h][2]))
  /\ \A n \in Waits : \A h \in DOMAIN m_callbacks :
       m_closure[n] # 0 /\ m_callbacks[h] = <<Owner[n], m_closure[n]>> =>
         Two(At(Owner[n], m_closure[n]))

\* The entries of a closure's timer are its node's, and numbers in use.
EntriesOK ==
  \A a \in Agents : \A i \in DOMAIN m_active_timers[a] :
    LET e == m_active_timers[a][i] IN
    /\ e.seq <= m_next_timer_seq[a]
    /\ \A n \in Waits : Owner[n] = a /\ e.seq = m_closure[n] => e.node = n

Listed == TablesOK /\ OnceNumbered /\ BothListed /\ EntriesOK

\* Listed is strong enough: a timer that has an entry has one with its node.
LEMMA ListedSuffices == Listed => TimersListed
<1> SUFFICES ASSUME Listed PROVE TimersListed
  OBVIOUS
<1>1. ASSUME NEW n \in Waits, m_closure[n] # 0
      PROVE  \E i \in DOMAIN m_active_timers[Owner[n]] :
               m_active_timers[Owner[n]][i] = [seq |-> m_closure[n], node |-> n]
  <2>1. Owner[n] \in Agents
    OBVIOUS
  <2>2. PICK i \in DOMAIN m_active_timers[Owner[n]] :
               m_active_timers[Owner[n]][i].seq = m_closure[n]
    BY <1>1 DEF Listed, BothListed, At, Places, Some
  <2>3. m_active_timers[Owner[n]][i].node = n
    BY <2>1, <2>2 DEF Listed, EntriesOK
  <2>4. m_active_timers[Owner[n]][i] \in Entry
    BY <2>1, <2>2 DEF Listed, TablesOK
  <2> QED
    BY <2>2, <2>3, <2>4 DEF Entry
<1>2. \A h \in DOMAIN m_callbacks :
        Places(m_active_timers[m_callbacks[h][1]], m_callbacks[h][2]) # {}
  BY DEF Listed, BothListed, At, Some
<1> QED
  BY <1>1, <1>2 DEF TimersListed

\* Cancelled takes callbacks away and leaves the others as they are.
LEMMA CancelledKeeps ==
  ASSUME NEW cbs, NEW q, NEW s
  PROVE  /\ DOMAIN Cancelled(cbs, q, s) \subseteq DOMAIN cbs
         /\ \A h \in DOMAIN Cancelled(cbs, q, s) : Cancelled(cbs, q, s)[h] = cbs[h]
  BY DEF Cancelled, Restrict

\* Callbacks that go, with everything else unchanged, keep Listed.
LEMMA FewerListed ==
  ASSUME Listed, UNCHANGED <<m_active_timers, m_next_timer_seq, m_closure>>,
         DOMAIN m_callbacks' \subseteq DOMAIN m_callbacks,
         \A h \in DOMAIN m_callbacks' : m_callbacks'[h] = m_callbacks[h]
  PROVE  Listed'
<1>1. TablesOK' /\ OnceNumbered'
  BY DEF Listed, TablesOK, OnceNumbered
<1>2. BothListed' /\ EntriesOK'
  BY DEF Listed, BothListed, EntriesOK, At
<1> QED
  BY <1>1, <1>2 DEF Listed

\* Entries that are removed, or lose a node that has no closure any more, keep
\* the rest in order.
LEMMA EntriesRemain ==
  ASSUME Listed, NEW a \in Agents,
         m_active_timers' \in [Agents -> Seq(Entry)],
         \A b \in Agents \ {a} : m_active_timers'[b] = m_active_timers[b],
         \A i \in DOMAIN m_active_timers'[a] : \E k \in DOMAIN m_active_timers[a] :
           LET d == m_active_timers'[a][i] e == m_active_timers[a][k] IN
           /\ d.seq = e.seq
           /\ d.node = e.node \/ \A n \in Waits : e.node = n => m_closure'[n] = 0,
         UNCHANGED m_next_timer_seq,
         \A n \in Waits : m_closure'[n] \in {0, m_closure[n]}
  PROVE  EntriesOK'
<1> SUFFICES ASSUME NEW b \in Agents, NEW i \in DOMAIN m_active_timers'[b]
    PROVE  LET d == m_active_timers'[b][i] IN
           /\ d.seq <= m_next_timer_seq[b]
           /\ \A n \in Waits : Owner[n] = b /\ d.seq = m_closure'[n] => d.node = n
  BY DEF EntriesOK
<1> DEFINE d == m_active_timers'[b][i]
<1>1. PICK k \in DOMAIN m_active_timers[b] :
        /\ d.seq = m_active_timers[b][k].seq
        /\ \/ d.node = m_active_timers[b][k].node
           \/ \A n \in Waits : m_active_timers[b][k].node = n => m_closure'[n] = 0
  <2>1. CASE b = a
    BY <2>1
  <2>2. CASE b # a
    <3>1. d = m_active_timers[b][i] /\ i \in DOMAIN m_active_timers[b]
      BY <2>2
    <3> QED
      BY <3>1
  <2> QED
    BY <2>1, <2>2
<1> DEFINE e == m_active_timers[b][k]
<1>2. e.seq # 0
  <2>1. m_active_timers[b] \in Seq(Entry)
    BY DEF Listed, TablesOK
  <2>2. e \in Entry
    BY <2>1
  <2> QED
    BY <2>2 DEF Entry
<1>3. /\ e.seq <= m_next_timer_seq[b]
      /\ \A n \in Waits : Owner[n] = b /\ e.seq = m_closure[n] => e.node = n
  BY DEF Listed, EntriesOK
<1> HIDE DEF d, e
<1>4. ASSUME NEW n \in Waits, Owner[n] = b, d.seq = m_closure'[n]
      PROVE  d.node = n
  <2>1. d.seq = e.seq /\ (d.node = e.node \/ \A m \in Waits : e.node = m => m_closure'[m] = 0)
    BY <1>1 DEF d, e
  <2>2. m_closure'[n] = m_closure[n] /\ m_closure'[n] # 0
    BY <1>2, <1>4, <2>1
  <2> QED
    BY <1>3, <1>4, <2>1, <2>2
<1>5. d.seq <= m_next_timer_seq[b]
  BY <1>1, <1>3 DEF d, e
<1> QED
  BY <1>4, <1>5 DEF d

\* A closure or a callback of timer <<a, s>> goes, with one entry of the timer.
OneOfTwo(a, s) ==
  /\ \A t : Places(m_active_timers'[a], t) = Places(Removed(m_active_timers[a], s), t)
  /\ \A b \in Agents \ {a} : m_active_timers'[b] = m_active_timers[b]
  /\ UNCHANGED m_next_timer_seq
  /\ DOMAIN m_callbacks' \subseteq DOMAIN m_callbacks
  /\ \A h \in DOMAIN m_callbacks' : m_callbacks'[h] = m_callbacks[h]
  /\ \A n \in Waits : m_closure'[n] \in {0, m_closure[n]}
  /\ \/ /\ \A n \in Waits : Owner[n] = a => m_closure'[n] # s
        /\ \E n \in Waits : Owner[n] = a /\ m_closure[n] = s
     \/ /\ \A h \in DOMAIN m_callbacks' : m_callbacks'[h] # <<a, s>>
        /\ \E h \in DOMAIN m_callbacks : m_callbacks[h] = <<a, s>>

\* The other one of the two, if it is still there, had an entry of its own.
LEMMA OneGoes ==
  ASSUME Listed, NEW a \in Agents, NEW s, s # 0, OneOfTwo(a, s)
  PROVE  OnceNumbered' /\ BothListed'
<1> USE DEF OneOfTwo
<1> DEFINE q == m_active_timers[a]
           P(b, t) == Places(m_active_timers[b], t)
           R(b, t) == Places(m_active_timers'[b], t)
<1>1. q \in Seq(Entry)
  BY DEF Listed, TablesOK
<1>2. /\ \A t : t # s /\ Some(Places(q, t)) => Some(Places(Removed(q, s), t))
      /\ \A t : t # s /\ Two(Places(q, t)) => Two(Places(Removed(q, s), t))
      /\ Two(Places(q, s)) => Some(Places(Removed(q, s), s))
  <2> HIDE DEF q
  <2>1. \A t : t # s /\ Some(Places(q, t)) => Some(Places(Removed(q, s), t))
    BY <1>1, RemovedPlaces
  <2>2. \A t : t # s /\ Two(Places(q, t)) => Two(Places(Removed(q, s), t))
    BY <1>1, RemovedPlaces
  <2>3. Two(Places(q, s)) => Some(Places(Removed(q, s), s))
    BY <1>1, RemovedPlaces
  <2> QED
    BY <2>1, <2>2, <2>3
<1>3. /\ \A b \in Agents : \A t : b # a \/ t # s =>
           /\ Some(P(b, t)) => Some(R(b, t))
           /\ Two(P(b, t)) => Two(R(b, t))
      /\ Two(P(a, s)) => Some(R(a, s))
  BY <1>2
<1>4. /\ \A n \in Waits : m_closure[n] # 0 => Some(P(Owner[n], m_closure[n]))
      /\ \A h \in DOMAIN m_callbacks : Some(P(m_callbacks[h][1], m_callbacks[h][2]))
      /\ \A n \in Waits : \A h \in DOMAIN m_callbacks :
           m_closure[n] # 0 /\ m_callbacks[h] = <<Owner[n], m_closure[n]>> =>
             Two(P(Owner[n], m_closure[n]))
  BY DEF Listed, BothListed, At
<1>5. \A h \in DOMAIN m_callbacks : m_callbacks[h] \in Agents \X (Nat \ {0})
  BY DEF Listed, TablesOK
<1>6. OnceNumbered'
  <2>1. \A n \in Waits : m_closure'[n] <= m_next_timer_seq[Owner[n]]
    <3> TAKE n \in Waits
    <3>1. /\ m_closure[n] <= m_next_timer_seq[Owner[n]]
          /\ m_next_timer_seq[Owner[n]] \in Nat
      BY DEF Listed, OnceNumbered, TablesOK
    <3> QED
      BY <3>1
  <2>2. \A n, m \in Waits :
          n # m /\ Owner[n] = Owner[m] /\ m_closure'[n] = m_closure'[m] => m_closure'[n] = 0
    BY DEF Listed, OnceNumbered
  <2> QED
    BY <2>1, <2>2 DEF Listed, OnceNumbered
<1> HIDE DEF P, R
<1>7. ASSUME NEW n \in Waits, m_closure'[n] # 0
      PROVE  Some(R(Owner[n], m_closure'[n]))
  <2>1. m_closure'[n] = m_closure[n] /\ Owner[n] \in Agents
    BY <1>7
  <2>2. CASE Owner[n] = a /\ m_closure[n] = s
    BY <1>3, <1>4, <2>1, <2>2
  <2> QED
    BY <1>3, <1>4, <1>7, <2>1, <2>2
<1>8. ASSUME NEW h \in DOMAIN m_callbacks'
      PROVE  Some(R(m_callbacks'[h][1], m_callbacks'[h][2]))
  <2>1. m_callbacks'[h] = m_callbacks[h] /\ h \in DOMAIN m_callbacks
    BY <1>8
  <2>2. CASE m_callbacks[h] = <<a, s>>
    BY <1>3, <1>4, <2>1, <2>2
  <2>3. CASE m_callbacks[h] # <<a, s>>
    <3>1. m_callbacks[h][1] # a \/ m_callbacks[h][2] # s
      BY <1>5, <2>1, <2>3
    <3> QED
      BY <1>3, <1>4, <1>5, <2>1, <3>1
  <2> QED
    BY <2>2, <2>3
<1>9. ASSUME NEW n \in Waits, NEW h \in DOMAIN m_callbacks',
             m_closure'[n] # 0, m_callbacks'[h] = <<Owner[n], m_closure'[n]>>
      PROVE  Two(R(Owner[n], m_closure'[n]))
  <2>1. /\ m_closure'[n] = m_closure[n] /\ Owner[n] \in Agents
        /\ m_callbacks'[h] = m_callbacks[h] /\ h \in DOMAIN m_callbacks
    BY <1>9
  <2>2. Owner[n] # a \/ m_closure[n] # s
    BY <1>9, <2>1
  <2> QED
    BY <1>3, <1>4, <1>9, <2>1, <2>2
<1>10. BothListed'
  BY <1>7, <1>8, <1>9 DEF BothListed, At, R
<1> QED
  BY <1>6, <1>10

\* What wait_for_seconds does to its agent's table: the new timer has two entries,
\* the timer of the closure it replaces has one less.
LEMMA RegisteredPlaces ==
  ASSUME NEW S, NEW q \in Seq(S), NEW old, NEW e \in S, e.seq # old
  PROVE  /\ Registered(q, old, e) \in Seq(S)
         /\ \A j \in DOMAIN Registered(q, old, e) :
              Registered(q, old, e)[j] = e \/
              \E k \in DOMAIN q : Registered(q, old, e)[j] = q[k]
         /\ \A t : t # old /\ Some(Places(q, t)) => Some(Places(Registered(q, old, e), t))
         /\ \A t : t # old /\ Two(Places(q, t)) => Two(Places(Registered(q, old, e), t))
         /\ Two(Places(q, old)) => Some(Places(Registered(q, old, e), old))
         /\ Two(Places(Registered(q, old, e), e.seq))
<1> DEFINE q1 == Append(q, e)
           q2 == Removed(q1, old)
           q3 == Append(q2, e)
<1>1. Registered(q, old, e) = q3
  BY DEF Registered
<1>2. /\ q1 \in Seq(S)
      /\ \A t : Places(q, t) \subseteq Places(q1, t)
      /\ Len(q) + 1 \in Places(q1, e.seq)
      /\ \A j \in DOMAIN q1 : q1[j] = e \/ \E k \in DOMAIN q : q1[j] = q[k]
  BY AppendedPlaces
<1> HIDE DEF q1
<1>3. /\ q2 \in Seq(S)
      /\ \A j \in DOMAIN q2 : \E k \in DOMAIN q1 : q2[j] = q1[k]
      /\ \A t : t # old /\ Some(Places(q1, t)) => Some(Places(q2, t))
      /\ \A t : t # old /\ Two(Places(q1, t)) => Two(Places(q2, t))
      /\ Two(Places(q1, old)) => Some(Places(q2, old))
  BY <1>2, RemovedPlaces
<1> HIDE DEF q2
<1>4. /\ q3 \in Seq(S)
      /\ \A t : Places(q2, t) \subseteq Places(q3, t)
      /\ \A t : Len(q2) + 1 \notin Places(q2, t)
      /\ Len(q2) + 1 \in Places(q3, e.seq)
      /\ \A j \in DOMAIN q3 : q3[j] = e \/ \E k \in DOMAIN q2 : q3[j] = q2[k]
  BY <1>3, AppendedPlaces
<1> HIDE DEF q3
<1>5. \A T, U : T \subseteq U => (Some(T) => Some(U)) /\ (Two(T) => Two(U))
  BY DEF Some, Two
<1>6. \A j \in DOMAIN q3 : q3[j] = e \/ \E k \in DOMAIN q : q3[j] = q[k]
  BY <1>2, <1>3, <1>4
<1>7. ASSUME NEW t, t # old, Some(Places(q, t))
      PROVE  Some(Places(q3, t))
  <2>1. Some(Places(q1, t))
    BY <1>2, <1>5, <1>7
  <2>2. Some(Places(q2, t))
    BY <1>3, <1>7, <2>1
  <2> QED
    BY <1>4, <1>5, <2>2
<1>8. ASSUME NEW t, t # old, Two(Places(q, t))
      PROVE  Two(Places(q3, t))
  <2>1. Two(Places(q1, t))
    BY <1>2, <1>5, <1>8
  <2>2. Two(Places(q2, t))
    BY <1>3, <1>8, <2>1
  <2> QED
    BY <1>4, <1>5, <2>2
<1>9. ASSUME Two(Places(q, old))
      PROVE  Some(Places(q3, old))
  <2>1. Two(Places(q1, old))
    BY <1>2, <1>5, <1>9
  <2>2. Some(Places(q2, old))
    BY <1>3, <2>1
  <2> QED
    BY <1>4, <1>5, <2>2
<1>10. Two(Places(q3, e.seq))
  <2>1. Some(Places(q1, e.seq))
    BY <1>2 DEF Some
  <2>2. PICK k : k \in Places(q2, e.seq)
    BY <1>3, <2>1 DEF Some
  <2>3. k \in Places(q3, e.seq) /\ k # Len(q2) + 1
    BY <1>4, <2>2
  <2> QED
    BY <1>4, <2>3 DEF Two
<1> QED
  BY <1>1, <1>4, <1>6, <1>7, <1>8, <1>9, <1>10

\* A node that starts to wait.
LEMMA WaitListed ==
  ASSUME Listed, NEW n \in Waits, NEW gap \in Gaps, Wait(n, gap)
  PROVE  Listed'
<1> DEFINE a == Owner[n]
           q == m_active_timers[a]
           old == m_closure[n]
           seq == m_next_timer_seq[a] + 1
           e == [seq |-> seq, node |-> n]
           g == GenHandlers(handler_for_reuse, max_handler_used).handler
<1>1. /\ a \in Agents /\ q \in Seq(Entry) /\ m_next_timer_seq[a] \in Nat
      /\ old \in Nat /\ old <= m_next_timer_seq[a]
  BY DEF Listed, TablesOK, OnceNumbered
<1>2. seq \in Nat \ {0} /\ seq > m_next_timer_seq[a] /\ seq # old /\ e \in Entry /\ e.seq = seq
  BY <1>1 DEF Entry
<1>3. /\ m_next_timer_seq' = [m_next_timer_seq EXCEPT ![a] = seq]
      /\ m_active_timers' = [m_active_timers EXCEPT ![a] = Registered(q, old, e)]
      /\ m_closure' = [m_closure EXCEPT ![n] = seq]
  BY DEF Wait
<1>4. /\ DOMAIN m_callbacks' \subseteq DOMAIN m_callbacks \cup {g}
      /\ \A h \in DOMAIN m_callbacks' :
           m_callbacks'[h] = IF h = g THEN <<a, seq>> ELSE m_callbacks[h]
  <2> DEFINE cbs == [h \in DOMAIN m_callbacks \cup {g} |->
                       IF h = g THEN <<a, seq>> ELSE m_callbacks[h]]
  <2>1. m_callbacks' = Cancelled(cbs, q, old)
    BY DEF Wait
  <2>2. /\ DOMAIN m_callbacks' \subseteq DOMAIN cbs
        /\ \A h \in DOMAIN m_callbacks' : m_callbacks'[h] = cbs[h]
    BY <2>1, CancelledKeeps
  <2> QED
    BY <2>2
<1> HIDE DEF a, q, old, seq, e, g
<1> DEFINE r == Registered(q, old, e)
<1>5. /\ r \in Seq(Entry)
      /\ \A j \in DOMAIN r : r[j] = e \/ \E k \in DOMAIN q : r[j] = q[k]
      /\ \A t : t # old /\ Some(Places(q, t)) => Some(Places(r, t))
      /\ \A t : t # old /\ Two(Places(q, t)) => Two(Places(r, t))
      /\ Two(Places(q, old)) => Some(Places(r, old))
      /\ Two(Places(r, seq))
  BY <1>1, <1>2, RegisteredPlaces
<1> HIDE DEF r
<1>6. /\ \A m \in Waits : m_closure'[m] = IF m = n THEN seq ELSE m_closure[m]
      /\ \A b \in Agents : m_active_timers'[b] = IF b = a THEN r ELSE m_active_timers[b]
      /\ \A b \in Agents : m_next_timer_seq'[b] = IF b = a THEN seq ELSE m_next_timer_seq[b]
  BY <1>1, <1>3 DEF Listed, TablesOK, r
<1>7. /\ \A h \in DOMAIN m_callbacks : m_callbacks[h] \in Agents \X (Nat \ {0})
      /\ \A b \in Agents : m_next_timer_seq[b] \in Nat
      /\ \A m \in Waits : m_closure[m] \in Nat
  BY DEF Listed, TablesOK
<1>8. TablesOK'
  <2>1. m_active_timers' \in [Agents -> Seq(Entry)]
    BY <1>3, <1>5 DEF Listed, TablesOK, r
  <2>2. m_next_timer_seq' \in [Agents -> Nat] /\ m_closure' \in [Waits -> Nat]
    BY <1>2, <1>3 DEF Listed, TablesOK
  <2>3. \A h \in DOMAIN m_callbacks' : m_callbacks'[h] \in Agents \X (Nat \ {0})
    BY <1>1, <1>2, <1>4, <1>7
  <2> QED
    BY <2>1, <2>2, <2>3 DEF TablesOK
<1>9. OnceNumbered'
  <2>1. /\ \A m \in Waits : m_closure[m] <= m_next_timer_seq[Owner[m]]
        /\ \A h \in DOMAIN m_callbacks :
             m_callbacks[h][2] <= m_next_timer_seq[m_callbacks[h][1]]
        /\ \A m, l \in Waits :
             m # l /\ Owner[m] = Owner[l] /\ m_closure[m] = m_closure[l] => m_closure[m] = 0
        /\ \A h, k \in DOMAIN m_callbacks : h # k => m_callbacks[h] # m_callbacks[k]
    BY DEF Listed, OnceNumbered
  <2>2. \A m \in Waits : m_closure'[m] <= m_next_timer_seq'[Owner[m]]
    BY <1>1, <1>2, <1>6, <1>7, <2>1 DEF a
  <2>3. \A h \in DOMAIN m_callbacks' :
          m_callbacks'[h][2] <= m_next_timer_seq'[m_callbacks'[h][1]]
    BY <1>1, <1>2, <1>4, <1>6, <1>7, <2>1
  <2>4. \A m, l \in Waits :
          m # l /\ Owner[m] = Owner[l] /\ m_closure'[m] = m_closure'[l] => m_closure'[m] = 0
    BY <1>1, <1>2, <1>6, <1>7, <2>1 DEF a
  <2>5. \A h \in DOMAIN m_callbacks : m_callbacks[h] # <<a, seq>>
    BY <1>1, <1>2, <1>7, <2>1
  <2>6. \A h, k \in DOMAIN m_callbacks' : h # k => m_callbacks'[h] # m_callbacks'[k]
    BY <1>4, <2>1, <2>5
  <2> QED
    BY <2>2, <2>3, <2>4, <2>6 DEF OnceNumbered
<1>10. EntriesOK'
  <2> SUFFICES ASSUME NEW b \in Agents, NEW i \in DOMAIN m_active_timers'[b]
      PROVE  LET d == m_active_timers'[b][i] IN
             /\ d.seq <= m_next_timer_seq'[b]
             /\ \A m \in Waits : Owner[m] = b /\ d.seq = m_closure'[m] => d.node = m
    BY DEF EntriesOK
  <2> DEFINE d == m_active_timers'[b][i]
  <2>1. \A m \in Waits : m_closure[m] <= m_next_timer_seq[Owner[m]]
    BY DEF Listed, OnceNumbered
  <2>2. (b = a /\ d = e) \/ \E k \in DOMAIN m_active_timers[b] : d = m_active_timers[b][k]
    BY <1>5, <1>6 DEF q
  <2>3. CASE b = a /\ d = e
    <3>1. e.node = n
      BY DEF e
    <3>2. \A m \in Waits : Owner[m] = a /\ m_closure'[m] = seq => m = n
      BY <1>1, <1>2, <1>6, <1>7, <2>1
    <3> QED
      BY <1>2, <1>6, <2>3, <3>1, <3>2
  <2>4. ASSUME NEW k \in DOMAIN m_active_timers[b], d = m_active_timers[b][k]
        PROVE  /\ d.seq <= m_next_timer_seq'[b]
               /\ \A m \in Waits : Owner[m] = b /\ d.seq = m_closure'[m] => d.node = m
    <3>1. /\ d.seq <= m_next_timer_seq[b]
          /\ \A m \in Waits : Owner[m] = b /\ d.seq = m_closure[m] => d.node = m
      BY <2>4 DEF Listed, EntriesOK
    <3>2. d.seq \in Nat
      <4>1. m_active_timers[b] \in Seq(Entry)
        BY DEF Listed, TablesOK
      <4>2. d \in Entry
        BY <2>4, <4>1
      <4> QED
        BY <4>2 DEF Entry
    <3> HIDE DEF d
    <3>3. d.seq <= m_next_timer_seq'[b]
      BY <1>1, <1>2, <1>6, <1>7, <3>1, <3>2
    <3>4. ASSUME NEW m \in Waits, Owner[m] = b, d.seq = m_closure'[m]
          PROVE  d.node = m
      <4>1. m # n
        BY <1>1, <1>2, <1>6, <3>1, <3>2, <3>4 DEF a
      <4> QED
        BY <1>6, <3>1, <3>4, <4>1
    <3> QED
      BY <3>3, <3>4
  <2> HIDE DEF d
  <2> QED
    BY <2>2, <2>3, <2>4 DEF d
<1>11. BothListed'
  <2> DEFINE P(b, t) == Places(m_active_timers[b], t)
             R(b, t) == Places(m_active_timers'[b], t)
  <2>1. /\ \A b \in Agents : \A t : b # a \/ t # old =>
             /\ Some(P(b, t)) => Some(R(b, t))
             /\ Two(P(b, t)) => Two(R(b, t))
        /\ Two(P(a, old)) => Some(R(a, old))
        /\ Two(R(a, seq))
    BY <1>1, <1>5, <1>6 DEF q
  <2>2. /\ \A m \in Waits : m_closure[m] # 0 => Some(P(Owner[m], m_closure[m]))
        /\ \A h \in DOMAIN m_callbacks : Some(P(m_callbacks[h][1], m_callbacks[h][2]))
        /\ \A m \in Waits : \A h \in DOMAIN m_callbacks :
             m_closure[m] # 0 /\ m_callbacks[h] = <<Owner[m], m_closure[m]>> =>
               Two(P(Owner[m], m_closure[m]))
    BY DEF Listed, BothListed, At
  <2>3. \A m \in Waits :
          m # n /\ m_closure[m] # 0 => Owner[m] # a \/ m_closure[m] # old
    BY DEF Listed, OnceNumbered, a, old
  <2>4. Some(R(a, seq))
    BY <2>1 DEF Some, Two
  <2> HIDE DEF P, R
  <2>5. ASSUME NEW m \in Waits, m_closure'[m] # 0
        PROVE  Some(R(Owner[m], m_closure'[m]))
    <3>1. CASE m = n
      BY <1>6, <2>4, <3>1 DEF a
    <3>2. CASE m # n
      <4>1. m_closure'[m] = m_closure[m] /\ Owner[m] \in Agents
        BY <1>6, <3>2
      <4> QED
        BY <2>1, <2>2, <2>3, <2>5, <3>2, <4>1
    <3> QED
      BY <3>1, <3>2
  <2>6. ASSUME NEW h \in DOMAIN m_callbacks'
        PROVE  Some(R(m_callbacks'[h][1], m_callbacks'[h][2]))
    <3>1. CASE h = g
      BY <1>4, <2>4, <3>1
    <3>2. CASE h # g
      <4>1. m_callbacks'[h] = m_callbacks[h] /\ h \in DOMAIN m_callbacks
        BY <1>4, <3>2
      <4>2. CASE m_callbacks[h] = <<a, old>>
        <5>1. old # 0
          BY <1>7, <4>1, <4>2
        <5>2. Two(P(a, old))
          BY <2>2, <4>1, <4>2, <5>1 DEF a, old
        <5> QED
          BY <2>1, <4>1, <4>2, <5>2
      <4>3. CASE m_callbacks[h] # <<a, old>>
        <5>1. m_callbacks[h][1] # a \/ m_callbacks[h][2] # old
          BY <1>7, <4>1, <4>3
        <5> QED
          BY <1>7, <2>1, <2>2, <4>1, <5>1
      <4> QED
        BY <4>2, <4>3
    <3> QED
      BY <3>1, <3>2
  <2>7. ASSUME NEW m \in Waits, NEW h \in DOMAIN m_callbacks',
               m_closure'[m] # 0, m_callbacks'[h] = <<Owner[m], m_closure'[m]>>
        PROVE  Two(R(Owner[m], m_closure'[m]))
    <3>1. CASE m = n
      BY <1>6, <2>1, <3>1 DEF a
    <3>2. CASE m # n /\ h = g
      BY <1>4, <2>1, <2>7, <3>2
    <3>3. CASE m # n /\ h # g
      <4>1. /\ m_closure'[m] = m_closure[m] /\ Owner[m] \in Agents
            /\ m_callbacks'[h] = m_callbacks[h] /\ h \in DOMAIN m_callbacks
        BY <1>4, <1>6, <3>3
      <4> QED
        BY <2>1, <2>2, <2>3, <2>7, <3>3, <4>1
    <3> QED
      BY <3>1, <3>2, <3>3
  <2> QED
    BY <2>5, <2>6, <2>7 DEF BothListed, At, R
<1> QED
  BY <1>8, <1>9, <1>10, <1>11 DEF Listed

\* A closure that is destroyed, be it of an interrupted or of a deleted node: q
\* is what it leaves of its agent's table.
LEMMA DropListed ==
  ASSUME Listed, NEW n \in Waits, DropClosure(n), NEW q, q \in Seq(Entry),
         m_active_timers' = [m_active_timers EXCEPT ![Owner[n]] = q],
         \A t : Places(q, t) = Places(Removed(m_active_timers[Owner[n]], m_closure[n]), t),
         \A i \in DOMAIN q : \E k \in DOMAIN m_active_timers[Owner[n]] :
           /\ q[i].seq = m_active_timers[Owner[n]][k].seq
           /\ \/ q[i].node = m_active_timers[Owner[n]][k].node
              \/ m_active_timers[Owner[n]][k].node = n
  PROVE  Listed'
<1> DEFINE a == Owner[n]
           s == m_closure[n]
<1>1. a \in Agents /\ s \in Nat
  BY DEF Listed, TablesOK
<1>2. /\ m_closure' = [m_closure EXCEPT ![n] = 0]
      /\ UNCHANGED m_next_timer_seq
      /\ DOMAIN m_callbacks' \subseteq DOMAIN m_callbacks
      /\ \A h \in DOMAIN m_callbacks' : m_callbacks'[h] = m_callbacks[h]
  BY CancelledKeeps DEF DropClosure
<1>3. /\ m_active_timers' \in [Agents -> Seq(Entry)]
      /\ m_active_timers'[a] = q
      /\ \A b \in Agents \ {a} : m_active_timers'[b] = m_active_timers[b]
  BY <1>1 DEF Listed, TablesOK
<1>4. /\ m_closure' \in [Waits -> Nat]
      /\ \A m \in Waits : m_closure'[m] \in {0, m_closure[m]}
      /\ m_closure'[n] = 0
  BY <1>2 DEF Listed, TablesOK
<1>5. TablesOK'
  BY <1>2, <1>3, <1>4 DEF Listed, TablesOK
<1>6. EntriesOK'
  <2>1. \A i \in DOMAIN m_active_timers'[a] : \E k \in DOMAIN m_active_timers[a] :
          LET d == m_active_timers'[a][i] e == m_active_timers[a][k] IN
          /\ d.seq = e.seq
          /\ d.node = e.node \/ \A m \in Waits : e.node = m => m_closure'[m] = 0
    <3> TAKE i \in DOMAIN m_active_timers'[a]
    <3>1. PICK k \in DOMAIN m_active_timers[a] :
            /\ q[i].seq = m_active_timers[a][k].seq
            /\ \/ q[i].node = m_active_timers[a][k].node
               \/ m_active_timers[a][k].node = n
      BY <1>3
    <3> QED
      BY <1>3, <1>4, <3>1
  <2> HIDE DEF a
  <2> QED
    BY <1>1, <1>2, <1>3, <1>4, <2>1, EntriesRemain
<1>7. OnceNumbered' /\ BothListed'
  <2>1. CASE s # 0
    <3>1. /\ \A m \in Waits : Owner[m] = a => m_closure'[m] # s
          /\ \E m \in Waits : Owner[m] = a /\ m_closure[m] = s
      BY <1>2, <1>4, <2>1 DEF Listed, TablesOK, OnceNumbered
    <3>2. \A t : Places(m_active_timers'[a], t) = Places(Removed(m_active_timers[a], s), t)
      BY <1>3
    <3>3. OneOfTwo(a, s)
      BY <1>2, <1>3, <1>4, <3>1, <3>2 DEF OneOfTwo
    <3> HIDE DEF a, s
    <3> QED
      BY <1>1, <2>1, <3>3, OneGoes
  <2>2. CASE s = 0
    <3>1. m_closure' = m_closure
      BY <1>2, <2>2 DEF Listed, TablesOK
    <3>2. m_active_timers[a] \in Seq(Entry)
      BY <1>1 DEF Listed, TablesOK
    <3>3. Places(m_active_timers[a], 0) = {}
      <4>1. \A i \in DOMAIN m_active_timers[a] : m_active_timers[a][i] \in Entry
        BY <3>2
      <4> QED
        BY <4>1 DEF Places, Entry
    <3>4. \A t : Places(m_active_timers'[a], t) = Places(m_active_timers[a], t)
      BY <1>3, <2>2, <3>3 DEF Removed
    <3>5. \A b \in Agents : \A t :
            Places(m_active_timers'[b], t) = Places(m_active_timers[b], t)
      BY <1>3, <3>4
    <3>6. \A h \in DOMAIN m_callbacks : m_callbacks[h] \in Agents \X (Nat \ {0})
      BY DEF Listed, TablesOK
    <3>7. OnceNumbered'
      BY <1>2, <3>1 DEF Listed, OnceNumbered
    <3>8. BothListed'
      <4> DEFINE P(b, t) == Places(m_active_timers[b], t)
                 R(b, t) == Places(m_active_timers'[b], t)
      <4>1. \A b \in Agents : \A t : R(b, t) = P(b, t)
        BY <3>5
      <4>2. /\ \A m \in Waits : m_closure[m] # 0 => Some(P(Owner[m], m_closure[m]))
            /\ \A h \in DOMAIN m_callbacks : Some(P(m_callbacks[h][1], m_callbacks[h][2]))
            /\ \A m \in Waits : \A h \in DOMAIN m_callbacks :
                 m_closure[m] # 0 /\ m_callbacks[h] = <<Owner[m], m_closure[m]>> =>
                   Two(P(Owner[m], m_closure[m]))
        BY DEF Listed, BothListed, At
      <4> HIDE DEF P, R
      <4>3. /\ \A m \in Waits : m_closure'[m] # 0 => Some(R(Owner[m], m_closure'[m]))
            /\ \A h \in DOMAIN m_callbacks' :
                 Some(R(m_callbacks'[h][1], m_callbacks'[h][2]))
            /\ \A m \in Waits : \A h \in DOMAIN m_callbacks' :
                 m_closure'[m] # 0 /\ m_callbacks'[h] = <<Owner[m], m_closure'[m]>> =>
                   Two(R(Owner[m], m_closure'[m]))
        BY <1>2, <3>1, <3>6, <4>1, <4>2
      <4> QED
        BY <4>3 DEF BothListed, At, R
    <3> QED
      BY <3>7, <3>8
  <2> QED
    BY <2>1, <2>2
<1> QED
  BY <1>5, <1>6, <1>7 DEF Listed

\* A node that is interrupted, set back to init or deleted.
LEMMA NodeListed ==
  ASSUME Listed, NEW n \in Waits, Interrupt(n) \/ Rearm(n) \/ Delete(n)
  PROVE  Listed'
<1> DEFINE a == Owner[n]
           q == Removed(m_active_timers[a], m_closure[n])
<1>1. m_active_timers[a] \in Seq(Entry)
  BY DEF Listed, TablesOK
<1>2. /\ q \in Seq(Entry)
      /\ \A i \in DOMAIN q : \E k \in DOMAIN m_active_timers[a] : q[i] = m_active_timers[a][k]
  BY <1>1, RemovedPlaces
<1>3. CASE Rearm(n)
  BY <1>3, FewerListed DEF Rearm, managerVars
<1>4. CASE Interrupt(n)
  <2>1. DropClosure(n) /\ m_active_timers' = [m_active_timers EXCEPT ![a] = q]
    BY <1>4 DEF Interrupt
  <2> HIDE DEF q
  <2>2. \A i \in DOMAIN q : \E k \in DOMAIN m_active_timers[a] :
          /\ q[i].seq = m_active_timers[a][k].seq
          /\ q[i].node = m_active_timers[a][k].node \/ m_active_timers[a][k].node = n
    BY <1>2
  <2>3. \A t : Places(q, t) = Places(Removed(m_active_timers[a], m_closure[n]), t)
    BY DEF q
  <2>4. q \in Seq(Entry)
    BY <1>2
  <2> QED
    BY <2>1, <2>2, <2>3, <2>4, DropListed
<1>5. CASE Delete(n)
  <2> DEFINE r == [i \in DOMAIN q |->
                     IF q[i].node = n THEN [q[i] EXCEPT !.node = Gone] ELSE q[i]]
  <2>1. DropClosure(n) /\ m_active_timers' = [m_active_timers EXCEPT ![a] = r]
    BY <1>5 DEF Delete
  <2> HIDE DEF q
  <2>2. /\ DOMAIN r = DOMAIN q
        /\ \A i \in DOMAIN q : /\ r[i] \in Entry /\ r[i].seq = q[i].seq
                               /\ r[i].node = q[i].node \/ q[i].node = n
    <3>1. \A i \in DOMAIN q : q[i] \in Entry
      BY <1>2
    <3> QED
      BY <3>1 DEF Entry
  <2>3. r \in Seq(Entry)
    BY <1>2, <2>2
  <2> HIDE DEF r
  <2>4. \A t : Places(r, t) = Places(q, t)
    BY <2>2 DEF Places
  <2>5. \A i \in DOMAIN r : \E k \in DOMAIN m_active_timers[a] :
          /\ r[i].seq = m_active_timers[a][k].seq
          /\ r[i].node = m_active_timers[a][k].node \/ m_active_timers[a][k].node = n
    BY <1>2, <2>2
  <2> QED
    BY <2>1, <2>3, <2>4, <2>5, DropListed DEF q
<1> QED
  BY <1>3, <1>4, <1>5

\* A callback that is invoked takes one of its timer's entries.
LEMMA PopListed ==
  ASSUME Listed, NEW x \in m_ts_handlers, PopCancelled(x) \/ PopInvoked(x)
  PROVE  Listed'
<1>1. CASE PopCancelled(x)
  BY <1>1, FewerListed DEF PopCancelled, agentVars
<1>2. CASE PopInvoked(x)
  <2> DEFINE a == m_callbacks[x.handler][1]
             s == m_callbacks[x.handler][2]
             q == Removed(m_active_timers[a], s)
  <2>1. /\ x.handler \in DOMAIN m_callbacks
        /\ m_active_timers' = [m_active_timers EXCEPT ![a] = q]
        /\ DOMAIN m_callbacks' = DOMAIN m_callbacks \ {x.handler}
        /\ \A h \in DOMAIN m_callbacks' : m_callbacks'[h] = m_callbacks[h]
        /\ UNCHANGED <<m_next_timer_seq, m_closure>>
    BY <1>2 DEF PopInvoked, Taken, Restrict
  <2>2. a \in Agents /\ s \in Nat \ {0} /\ m_callbacks[x.handler] = <<a, s>>
    BY <2>1 DEF Listed, TablesOK
  <2>3. m_active_timers[a] \in Seq(Entry)
    BY <2>2 DEF Listed, TablesOK
  <2>4. /\ q \in Seq(Entry)
        /\ \A i \in DOMAIN q :
             \E k \in DOMAIN m_active_timers[a] : q[i] = m_active_timers[a][k]
    BY <2>3, RemovedPlaces
  <2>5. /\ m_active_timers' \in [Agents -> Seq(Entry)]
        /\ m_active_timers'[a] = q
        /\ \A b \in Agents \ {a} : m_active_timers'[b] = m_active_timers[b]
    BY <2>1, <2>2, <2>4 DEF Listed, TablesOK
  <2>6. \A h \in DOMAIN m_callbacks' : m_callbacks'[h] # <<a, s>>
    BY <2>1, <2>2 DEF Listed, OnceNumbered
  <2>7. OneOfTwo(a, s)
    BY <2>1, <2>2, <2>5, <2>6 DEF OneOfTwo
  <2>8. TablesOK'
    BY <2>1, <2>5 DEF Listed, TablesOK
  <2>9. EntriesOK'
    <3>1. \A i \in DOMAIN m_active_timers'[a] : \E k \in DOMAIN m_active_timers[a] :
            LET d == m_active_timers'[a][i] e == m_active_timers[a][k] IN
            /\ d.seq = e.seq
            /\ d.node = e.node \/ \A m \in Waits : e.node = m => m_closure'[m] = 0
      <4> TAKE i \in DOMAIN m_active_timers'[a]
      <4>1. PICK k \in DOMAIN m_active_timers[a] : q[i] = m_active_timers[a][k]
        BY <2>4, <2>5
      <4> QED
        BY <2>5, <4>1
    <3>2. \A m \in Waits : m_closure'[m] \in {0, m_closure[m]}
      BY <2>1
    <3> HIDE DEF a
    <3> QED
      BY <2>1, <2>2, <2>5, <3>1, <3>2, EntriesRemain
  <2> HIDE DEF a, s
  <2>10. OnceNumbered' /\ BothListed'
    BY <2>2, <2>7, OneGoes
  <2> QED
    BY <2>8, <2>9, <2>10 DEF Listed
<1> QED
  BY <1>1, <1>2

\* The tables agree when there is no timer yet,
LEMMA ListedInit == Init => Listed
<1> SUFFICES ASSUME Init PROVE Listed
  OBVIOUS
<1>1. m_active_timers \in [Agents -> Seq(Entry)] /\ DOMAIN m_callbacks = {}
      /\ \A a \in Agents : DOMAIN m_active_timers[a] = {}
  BY DEF Init
<1> QED
  BY <1>1 DEF Init, Listed, TablesOK, OnceNumbered, BothListed, EntriesOK

\* and every step keeps them so.
LEMMA ListedKept == Listed /\ [Next]_vars => Listed'
<1> SUFFICES ASSUME Listed, [Next]_vars PROVE Listed'
  OBVIOUS
<1>1. CASE Tick \/ PollStart \/ PollEnd \/ UNCHANGED vars
  BY <1>1, FewerListed
  DEF Tick, PollStart, PollEnd, vars, managerVars, agentVars
<1>2. CASE Return
  BY <1>2, FewerListed DEF Return, agentVars, Restrict
<1>3. CASE \E n \in Waits : \E gap \in Gaps : Wait(n, gap)
  BY <1>3, WaitListed
<1>4. CASE \E n \in Waits : Interrupt(n) \/ Rearm(n) \/ Delete(n)
  BY <1>4, NodeListed
<1>5. CASE \E x \in m_ts_handlers : PopCancelled(x) \/ PopInvoked(x)
  BY <1>5, PopListed
<1> QED
  BY <1>1, <1>2, <1>3, <1>4, <1>5 DEF Next

\* Whatever the other waits of an agent add, remove and move, every closure that
\* is destroyed and every callback that fires finds an entry of its timer: for
\* every number of agents and nodes.
THEOREM TimersAlwaysListed == Spec => []TimersListed
  BY ListedInit, ListedKept, ListedSuffices, PTL DEF Spec

----------------------------------------------------------------------------
(* The refinement: Timers implements Alarms.                               *)

\* The variables of Alarms.
Pending == {m_callbacks[h] : h \in DOMAIN m_callbacks}

Ringing == IF pc \in {"callback", "stop"} THEN {<<firing.agent, firing.seq>>} ELSE {}

\* Callbacks that are taken away, while nothing rings or stops ringing, are lost.
LEMMA FewerLost ==
  ASSUME DOMAIN m_callbacks' \subseteq DOMAIN m_callbacks,
         \A h \in DOMAIN m_callbacks' : m_callbacks'[h] = m_callbacks[h]
  PROVE  Pending' \subseteq Pending
  BY DEF Pending

\* A wait registers the next number of its agent, and the closure that it
\* replaces may cancel any callback.
LEMMA WaitRegisters ==
  ASSUME Listed, NEW n \in Waits, NEW gap \in Gaps, Wait(n, gap)
  PROVE  A!Register(Owner[n])
<1> DEFINE a == Owner[n]
           g == GenHandlers(handler_for_reuse, max_handler_used).handler
           s == m_next_timer_seq[a] + 1
           cbs == [h \in DOMAIN m_callbacks \cup {g} |->
                     IF h = g THEN <<a, s>> ELSE m_callbacks[h]]
<1>1. /\ m_next_timer_seq' = [m_next_timer_seq EXCEPT ![a] = s]
      /\ m_callbacks' = Cancelled(cbs, m_active_timers[a], m_closure[n])
      /\ UNCHANGED <<pc, firing>>
  BY DEF Wait
<1> HIDE DEF g
<1>2. \A h \in DOMAIN m_callbacks' : h \in DOMAIN cbs /\ m_callbacks'[h] = cbs[h]
  BY <1>1, CancelledKeeps
<1>3. \A h \in DOMAIN cbs : cbs[h] \in Pending \cup {<<a, s>>}
  BY DEF Pending
<1>4. Pending' \subseteq Pending \cup {<<a, s>>}
  <2>1. \A h \in DOMAIN m_callbacks' : m_callbacks'[h] \in Pending \cup {<<a, s>>}
    <3> HIDE DEF cbs
    <3> QED
      BY <1>2, <1>3
  <2>2. Pending' = {m_callbacks'[h] : h \in DOMAIN m_callbacks'}
    BY DEF Pending
  <2> HIDE DEF s, cbs
  <2> QED
    BY <2>1, <2>2
<1> QED
  BY <1>1, <1>4 DEF A!Register, Pending

\* What is popped and invoked rings if nothing else does; on a deleted node it
\* is lost.
LEMMA InvokedRings ==
  ASSUME Listed, NEW x \in m_ts_handlers, PopInvoked(x)
  PROVE  A!Lose \/ \E y \in Pending : A!Ring(y)
<1> DEFINE h == x.handler
           y == m_callbacks[h]
<1>1. /\ h \in DOMAIN m_callbacks /\ pc = "poll"
      /\ DOMAIN m_callbacks' = DOMAIN m_callbacks \ {h}
      /\ \A k \in DOMAIN m_callbacks' : m_callbacks'[k] = m_callbacks[k]
      /\ UNCHANGED m_next_timer_seq
  BY DEF PopInvoked, Pops, Taken, Restrict
<1>2. y = <<y[1], y[2]>> /\ y \in Pending
  BY <1>1 DEF Listed, TablesOK, Pending
<1>3. Pending' = Pending \ {y}
  <2>1. \A k \in DOMAIN m_callbacks \ {h} : m_callbacks[k] # y
    BY <1>1 DEF Listed, OnceNumbered
  <2> QED
    BY <1>1, <2>1 DEF Pending
<1>4. \/ pc' = "crashed"
      \/ /\ pc' \in {"callback", "stop"}
         /\ firing'.agent = y[1] /\ firing'.seq = y[2]
  BY DEF PopInvoked
<1>5. Ringing = {} /\ (Ringing' = {} \/ Ringing' = {y})
  BY <1>1, <1>2, <1>4 DEF Ringing
<1> HIDE DEF y
<1> QED
  BY <1>1, <1>2, <1>3, <1>5 DEF A!Lose, A!Ring, Pending, Ringing

\* The callback that rings returns; the number that it cancels is any.
LEMMA ReturnReturns == ASSUME Return PROVE A!Return
<1>1. /\ DOMAIN m_callbacks' \subseteq DOMAIN m_callbacks
      /\ \A h \in DOMAIN m_callbacks' : m_callbacks'[h] = m_callbacks[h]
      /\ pc \in {"callback", "stop"} /\ pc' = "poll"
      /\ UNCHANGED m_next_timer_seq
  BY DEF Return, Restrict, agentVars
<1> QED
  BY <1>1, FewerLost DEF A!Return, Pending

\* What happens to the nodes otherwise, and the rest of a poll, loses callbacks
\* at most.
LEMMA OthersLose ==
  ASSUME \/ \E n \in Waits : Interrupt(n) \/ Rearm(n) \/ Delete(n)
         \/ Tick \/ PollStart \/ PollEnd \/ UNCHANGED vars
         \/ \E x \in m_ts_handlers : PopCancelled(x)
  PROVE  A!Lose
<1> DEFINE Fewer ==
             /\ DOMAIN m_callbacks' \subseteq DOMAIN m_callbacks
             /\ \A h \in DOMAIN m_callbacks' : m_callbacks'[h] = m_callbacks[h]
             /\ UNCHANGED <<m_next_timer_seq, firing>>
             /\ UNCHANGED pc \/ {pc, pc'} \subseteq {"idle", "poll"}
<1>1. ASSUME NEW n \in Waits, Interrupt(n) \/ Rearm(n) \/ Delete(n)
      PROVE  Fewer
  BY <1>1, CancelledKeeps DEF Interrupt, Rearm, Delete, DropClosure, managerVars
<1>2. ASSUME \/ Tick \/ PollStart \/ PollEnd \/ UNCHANGED vars
             \/ \E x \in m_ts_handlers : PopCancelled(x)
      PROVE  Fewer
  BY <1>2 DEF Tick, PollStart, PollEnd, vars, PopCancelled, Pops, managerVars, agentVars
<1>3. ASSUME Fewer PROVE A!Lose
  BY <1>3, FewerLost DEF A!Lose, Pending
<1> QED
  BY <1>1, <1>2, <1>3

\* The handlers, the queue and the three tables implement callbacks that run at
\* most once and one at a time, for every number of agents, nodes and waits.
THEOREM TimersAreAlarms == Spec => ImplementsAlarms
<1>1. Init => A!Init
  BY DEF Init, A!Init
<1>2. Listed /\ [Next]_vars => [A!Next]_(A!vars)
  <2> SUFFICES ASSUME Listed, [Next]_vars PROVE A!Next
    OBVIOUS
  <2>1. CASE \E n \in Waits : \E gap \in Gaps : Wait(n, gap)
    <3>1. PICK n \in Waits, gap \in Gaps : Wait(n, gap)
      BY <2>1
    <3>2. A!Register(Owner[n]) /\ Owner[n] \in Agents
      BY <3>1, WaitRegisters
    <3> QED
      BY <3>2 DEF A!Next
  <2>2. CASE \E x \in m_ts_handlers : PopInvoked(x)
    BY <2>2, InvokedRings DEF A!Next, Pending
  <2>3. CASE Return
    BY <2>3, ReturnReturns DEF A!Next
  <2> QED
    BY <2>1, <2>2, <2>3, OthersLose DEF Next, A!Next
<1> QED
  BY <1>1, <1>2, ListedInit, ListedKept, PTL DEF Spec, ImplementsAlarms, A!Spec
=============================================================================
