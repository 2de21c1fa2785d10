---------------------------- MODULE Persistence ----------------------------
(***************************************************************************)
(* encode and decode: an agent between two calls is written to a document, *)
(* the process goes on or dies, and the document is read by the same agent *)
(* or by a new one.                                                        *)
(*                                                                         *)
(* What is written is what m_fronts holds, as chains of child indices from *)
(* the root; decode makes the nodes on the chains again and puts the last  *)
(* ones into the queue.  Results, events, the queue of a pass and whatever *)
(* else a node has are not written.  "enabled" is written and never read.  *)
(***************************************************************************)
EXTENDS Runtime

VARIABLES
  document,      \* what encode returned last
  saved_ready    \* history: then the tree was intact and every queued node blocked

persistenceVars == <<runtimeVars, document, saved_ready>>

\* The null value that encode returns while no tree is loaded.
NoDocument ==
  [tree |-> NoNode, blackboards |-> <<>>, front_nodes |-> <<>>, next_timer_seq |-> 0]

PersistenceInit == RuntimeInit /\ document = NoDocument /\ saved_ready = FALSE

----------------------------------------------------------------------------
(* encode.                                                                 *)

IndexInParent(n) == CHOOSE i \in 0..(Arity(Parent[n]) - 1) : Child(Parent[n], i) = n

\* From the child of the root down to n.
Path(n) ==
  [k \in 1..(Cardinality(Lineage[n]) - 1) |->
     CHOOSE a \in Lineage[n] : Cardinality(Lineage[a]) = k + 1]

\* node::encode and random_seq::encode: "shuffle" is there or not.
NodeData(n) ==
  [closure |-> m_closure[n],
   shuffles |-> IF Kind[n] = "random_seq" THEN {m_shuffle[n]} ELSE {}]

Chain(n) ==
  [k \in DOMAIN Path(n) |->
     [idx |-> IndexInParent(Path(n)[k]), data |-> NodeData(Path(n)[k])]]

Encode ==
  IF cur_root_node = NoNode THEN NoDocument
  ELSE [tree |-> cur_root_node,
        blackboards |-> m_blackboard,
        front_nodes |-> [k \in DOMAIN m_fronts |-> Chain(m_fronts[k])],
        next_timer_seq |-> m_next_timer_seq]

\* Bound: one document in a behaviour.
Save ==
  /\ document = NoDocument
  /\ pc = "idle"
  /\ document' = Encode
  /\ saved_ready' = (intact /\ \A n \in ToSet(m_fronts) : m_state[n] = "blocking")
  /\ UNCHANGED runtimeVars

\* The process dies, at any time, and another one is started.
Restart ==
  /\ cur_root_node' = NoNode
  /\ m_fronts' = <<>> /\ m_pre_fronts' = <<>> /\ m_events' = <<>>
  /\ m_enabled' = FALSE /\ m_during_poll' = FALSE /\ reset_flag' = FALSE
  /\ m_state' = [n \in Node |-> "init"]
  /\ result' = [n \in Node |-> FALSE]
  /\ next_child_idx' = [n \in Node |-> 0]
  /\ m_shuffle' = [n \in Node |-> <<>>]
  /\ visited' = {}
  /\ pc' = "idle" /\ poll_result' = FALSE /\ any_ready' = FALSE
  /\ intact' = FALSE
  /\ m_blackboard' = <<>>
  /\ m_active_timers' = EmptyBag /\ m_next_timer_seq' = 0
  /\ m_closure' = [n \in Node |-> 0]
  /\ registered' = EmptyBag
  /\ UNCHANGED <<document, saved_ready>>

----------------------------------------------------------------------------
(* decode.  What it builds is a record t of the members that it writes.    *)

\* Mutant: the shuffle is not read.
ShuffleKept(t, n, data) == t.m_shuffle[n]

\* The shuffle of n once data has been decoded at it.
Shuffle(t, n, data) ==
  IF Kind[n] = "random_seq" /\ data.shuffles # {}
  THEN CHOOSE s \in data.shuffles : TRUE ELSE t.m_shuffle[n]

\* From n to the child that index i of a chain stands for when n's shuffle is s.
\* The index was written as one in m_children, and is read as one in m_shuffle.
\* An index out of range reads a pointer from nowhere.
Descend(n, s, i) ==
  CASE n = Gone -> Gone
    [] n # Gone /\ Kind[n] = "random_seq" ->
         IF i < Len(s) /\ s[i + 1] < Arity(n) THEN Child(n, s[i + 1]) ELSE Gone
    [] n # Gone /\ Kind[n] # "random_seq" ->
         IF Kind[n] = "action" \/ Arity(n) = 0 THEN n
         ELSE IF i < Arity(n) THEN Child(n, i) ELSE Gone

\* The nodes that a chain leads through: the j-th after j entries.
Walk(t, chain) ==
  LET at[j \in 0..Len(chain)] ==
        IF j = 0 THEN t.root
        ELSE LET n == at[j - 1] IN
             Descend(n, IF j = 1 \/ n = Gone THEN <<>> ELSE Shuffle(t, n, chain[j - 1].data),
                     chain[j].idx)
  IN at

\* Mutant: the index is not read.
LastAtNone(at, n, k) == 0

\* The last entry of a chain that is applied to n; 0 if there is none.
LastAt(at, n, k) ==
  LET here == {j \in 1..k : at[j - 1] = n} IN
  IF here = {} THEN 0 ELSE CHOOSE j \in here : \A i \in here : i <= j

\* Mutant: the closure is not created again.
ReopenedNot(t, n, s) == t

\* The closure that is created again lists its timer, then the one that it
\* replaces removes its own.
Reopened(t, n, s) ==
  [t EXCEPT !.m_closure[n] = s,
            !.m_active_timers =
              Unlisted(@ (+) SetToBag({Entry(s, n)}), {t.m_closure[n]} \ {0})]

\* s deals out the children of n, or nothing yet.
Deals(n, s) == s = <<>> \/ (Len(s) = Arity(n) /\ ToSet(s) = 0..(Arity(n) - 1))

\* One chain.  cur_chain.back() of an empty chain, which is what encode writes
\* for a queued root, reads in front of an empty vector.
\* Bound: a random_seq can be given a shuffle that was written for another one with
\* more children or fewer.  The code goes on with it; the model ends there.
Restored(t, chain) ==
  LET k == Len(chain)
      at == Walk(t, chain)
      through == {at[j] : j \in 0..(k - 1)}
      last == at[k]
      reached(n) == {j \in 1..k : at[j] = n}
      placed ==
        [t EXCEPT
           !.m_state = [n \in Node |-> IF n = last THEN "blocking"
                                       ELSE IF n \in through THEN "wait_child" ELSE @[n]],
           !.next_child_idx = [n \in Node |-> IF LastAt(at, n, k) = 0 THEN @[n]
                                              ELSE chain[LastAt(at, n, k)].idx],
           !.m_shuffle = [n \in Node |-> IF reached(n) = {} THEN @[n]
                            ELSE Shuffle(t, n, chain[CHOOSE j \in reached(n) : TRUE].data)],
           !.visited = @ \cup {n \in through : Kind[n] \notin LeafKinds},
           !.m_fronts = Append(@, last)]
  IN IF \/ t.faulted \/ k = 0 \/ Gone \in through \cup {last}
        \/ \E n \in Node : Kind[n] = "random_seq" /\ ~Deals(n, placed.m_shuffle[n])
     THEN [t EXCEPT !.faulted = TRUE]
     ELSE IF chain[k].data.closure = 0 THEN placed
     ELSE Reopened(placed, last, chain[k].data.closure)

\* The members when load_btree(d.tree) has returned and m_fronts is cleared.  A
\* tree of another name is deleted and made anew; the loaded one keeps its nodes,
\* the queued ones interrupted.
Loaded(d) ==
  LET hit == IF cur_root_node = NoNode THEN {}
             ELSE Interrupted(m_state, next_child_idx, ToSet(m_fronts))
      new == IF cur_root_node \in {NoNode, d.tree} THEN {} ELSE Below(cur_root_node) IN
  [root |-> d.tree,
   m_state |-> [n \in Node |-> IF n \in new THEN "init" ELSE Kill(m_state, hit)[n]],
   result |-> [n \in Node |-> IF n \in new THEN FALSE ELSE result[n]],
   next_child_idx |-> Rewind(next_child_idx, hit \cup new),
   m_shuffle |-> [n \in Node |-> IF n \in new THEN <<>> ELSE m_shuffle[n]],
   visited |-> visited \ new,
   m_closure |-> Without(new \cup hit),
   m_active_timers |-> EmptyBag,
   m_fronts |-> <<>>,
   faulted |-> Faults(hit)]

\* The members after every number of chains.
Restoring(d) ==
  LET after[k \in 0..Len(d.front_nodes)] ==
        IF k = 0 THEN Loaded(d) ELSE Restored(after[k - 1], d.front_nodes[k])
  IN after

\* No random_seq of the document sends its index to another child.
Straight(d) ==
  \A k \in DOMAIN d.front_nodes : LET c == d.front_nodes[k] IN
    \A j \in 2..Len(c) : \A s \in c[j - 1].data.shuffles : c[j].idx < Len(s) /\ s[c[j].idx + 1] = c[j].idx

\* No node keeps the closure of a wait that an earlier stop dropped: when a chain
\* replaces it, it removes the entry of the timer that is restored, if that has
\* the same number.
Released(d) == \A n \in Node : Loaded(d).m_closure[n] = 0

\* decode.  Timers are forgotten before load_btree, so the nodes that it stops
\* find nothing to cancel, and the callbacks that are registered stay so.
Decode ==
  /\ pc = "idle"
  /\ document.tree # NoNode
  /\ m_blackboard' = IF cur_root_node = NoNode THEN document.blackboards ELSE <<>>
  /\ m_next_timer_seq' = document.next_timer_seq
  /\ UNCHANGED <<registered, document, saved_ready>>
  /\ \E t \in {Restoring(document)[Len(document.front_nodes)]} :
     IF t.faulted
     THEN Crash /\ m_active_timers' = EmptyBag /\ UNCHANGED m_closure
     ELSE /\ cur_root_node' = t.root
          /\ m_state' = t.m_state
          /\ result' = t.result
          /\ next_child_idx' = t.next_child_idx
          /\ m_shuffle' = t.m_shuffle
          /\ visited' = t.visited
          /\ m_closure' = t.m_closure
          /\ m_active_timers' = t.m_active_timers
          /\ m_fronts' = t.m_fronts
          /\ intact' = (saved_ready /\ Straight(document) /\ Released(document))
          /\ IF cur_root_node = NoNode
             THEN UNCHANGED <<m_pre_fronts, m_events, m_enabled, reset_flag>>
             ELSE /\ m_pre_fronts' = <<>>
                  /\ m_events' = <<>>
                  /\ m_enabled' = FALSE
                  /\ reset_flag' = TRUE
          /\ UNCHANGED <<m_during_poll, pollVars>>

----------------------------------------------------------------------------
PersistenceNext ==
  \/ RuntimeNext /\ UNCHANGED <<document, saved_ready>>
  \/ Save
  \/ Restart
  \/ Decode

PersistenceSpec == PersistenceInit /\ [][PersistenceNext]_persistenceVars

----------------------------------------------------------------------------
(* Safety.                                                                 *)

\* What is saved while every queued node blocks comes back, in this process or
\* in another one: encoding the restored agent gives the document again, but for
\* a shuffled random_seq, and for the blackboard if a tree was loaded.
RoundTrip ==
  [][saved_ready /\ Straight(document) /\ Decode =>
       IF cur_root_node = NoNode THEN pc' # "crashed" /\ Encode' = document
       ELSE pc' = "crashed" \/ Encode' = [document EXCEPT !.blackboards = <<>>]]_persistenceVars

\* A wait that has control has a closure of its own, and its number is listed
\* for it, however many waits of other nodes ended, were interrupted, dropped,
\* saved and restored before: who looks for the number finds this node.
WaitsHeld ==
  intact => \A n \in Tokens : m_state[n] = "blocking" /\ n \in Waits =>
    /\ m_closure[n] # 0
    /\ \A e \in Entries(m_active_timers, m_closure[n]) : e.node = n
    /\ Entries(m_active_timers, m_closure[n]) # {}

\* Choosing with removal neither loses nor doubles an item: what dest gets and
\* what is left are together what the array was.
Items(v) == [x \in ToSet(v.items) |-> Cardinality({i \in DOMAIN v.items : v.items[i] = x})]

ChoiceKeepsItems ==
  [][\A n \in DOMAIN Request : LET r == Request[n] IN
       /\ Perform(n)
       /\ r.action \in {"choose_random", "choose_one_random"}
       /\ r.remove /\ r.key # r.dest
       /\ result'[n]
       => Items(m_blackboard'[r.key]) (+) Items(m_blackboard'[r.dest])
            = Items(m_blackboard[r.key])]_persistenceVars

----------------------------------------------------------------------------
(* What comments and documents say and the code does not do.               *)

\* runtime/include/nodes.h:63: a node's closure is there to release its task when
\* the node is interrupted.  A callback reaches a node for the wait it is in only.
InterruptReleases ==
  [][\A e \in BagToSet(m_active_timers) : (RingAlive(e) \/ RingDead(e)) =>
       m_closure[e.node] = e.seq]_persistenceVars

\* data/actions.json:188 and 195: a wait returns true when its seconds are over, one
\* that was saved too.  After decode every restored wait has its number listed and
\* one callback to it, and no callback has a number that a later wait will get.
WaitsRestored ==
  [][saved_ready /\ Straight(document) /\ Decode /\ pc' # "crashed" =>
       /\ \A n \in ToSet(m_fronts') \cap Waits : LET s == m_closure'[n] IN
            /\ Entries(m_active_timers', s) # {}
            /\ BagIn(s, registered') /\ registered'[s] = 1
       /\ \A s \in BagToSet(registered') : s <= m_next_timer_seq']_persistenceVars
=============================================================================
