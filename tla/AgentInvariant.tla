--------------------------- MODULE AgentInvariant ---------------------------
(***************************************************************************)
(* Why control stays on one path below every waiting composite: what an    *)
(* agent keeps true from one step to the next while its tree is intact.    *)
(* add_to_front never removes a node, so the queues hold stale nodes, and  *)
(* a node can be queued twice, in m_pre_fronts and in m_fronts.  The       *)
(* invariant says where they can be.                                       *)
(***************************************************************************)
EXTENDS AgentProperties

\* What is still to be visited, in order.
Work == m_pre_fronts \o m_fronts

\* p is in the queue before x is; a node is before itself if it is there twice.
Before(q, p, x) == \E i, j \in DOMAIN q : i < j /\ q[i] = p /\ q[j] = x

Follows(x, p) == Before(Work, p, x)

\* The subtree of p without p.
Strictly(p) == Below(p) \ {p}

\* The children that p is at.
Current(p) == Forwards(next_child_idx, p)

\* The next visit of p starts its subtree anew, or ends it.
Sole(p) == m_state[p] = "init" \/ (m_state[p] = "awaken" /\ Kind[p] # "parallel")

----------------------------------------------------------------------------
\* Only nodes of the loaded tree are queued, and no other node has run.
InTree ==
  /\ \A n \in Queued : cur_root_node \in Lineage[n]
  /\ \A n \in Node : cur_root_node \notin Lineage[n] => m_state[n] = "init"
  /\ pc \in {"idle", "loop", "events"} => m_pre_fronts = <<>>

\* Every token has control: ControlPath, by edges.
Edge(a) == Waiting(Parent[a]) /\ a \in Current(Parent[a])

OnPath(n) ==
  /\ cur_root_node \in Lineage[n]
  /\ \A a \in Lineage[n] : Parent[a] # NoNode => Edge(a)

OnPaths == \A n \in Tokens : OnPath(n)

\* Nothing that is woken up or blocks is forgotten, and a composite that is
\* woken up is at a child it has.
Remembered ==
  \A n \in Node :
    /\ m_state[n] \notin {"entering", "revisiting"}
    /\ m_state[n] \in {"awaken", "blocking"} => n \in Queued
    /\ m_state[n] = "awaken" => Current(n) # {}

\* A node that waits is not queued, and one that is queued twice was
\* interrupted since, or is a parallel that a second child has woken up.
QueuedOnce ==
  \A n \in Node \ {cur_root_node} :
    /\ m_state[n] = "wait_child" => n \notin Queued
    /\ Follows(n, n) => m_state[n] = "dead" \/ (m_state[n] = "awaken" /\ Kind[n] = "parallel")

\* Stale nodes are visited, and dropped, before a node above them starts over.
StaleFirst == \A p \in Queued : Sole(p) => \A x \in Strictly(p) : ~Follows(x, p)

\* Nothing is queued below a node that blocks, nor in a branch that a waiting
\* sequential composite is not at.
StaleWithin ==
  \A p \in Node : \A x \in Queued \cap Strictly(p) :
    /\ m_state[p] # "blocking"
    /\ m_state[p] = "wait_child" /\ Kind[p] # "parallel" =>
         \E c \in Current(p) : x \in Below(c)

\* The root is queued a second time by a reset and by nothing else: while it
\* waits for the child it has just entered, or when that child has returned at
\* once.
RootAgain ==
  LET r == cur_root_node IN
  /\ m_state[r] # "dead"
  /\ r \in Queued /\ m_state[r] = "wait_child" =>
       \/ m_pre_fronts # <<>> /\ Head(m_pre_fronts) = r
       \/ /\ m_pre_fronts = <<>> \/ m_fronts = <<>>
          /\ \E c \in ChildSet(r) : m_state[c] = "init" /\ Work \in {<<c, r>>, <<r, c>>}
  /\ Follows(r, r) => m_pre_fronts = <<r>> /\ m_fronts = <<r>> /\ m_state[r] = "awaken"
  /\ reset_flag =>
       \/ Work = <<r>> /\ m_state[r] = "init" /\ (pc = "fronts" => m_fronts = <<>>)
       \/ /\ pc = "fronts" /\ m_pre_fronts = <<>> /\ m_state[r] = "wait_child"
          /\ \E c \in ChildSet(r) : m_fronts = <<c>> /\ m_state[c] = "init"

\* A pass runs on an enabled agent.
PassEnabled == pc \in {"events", "fronts"} => m_enabled

Steady ==
  /\ PassEnabled
  /\ OnPaths
  /\ Remembered
  /\ QueuedOnce
  /\ StaleFirst
  /\ StaleWithin
  /\ RootAgain

\* What stays true while nothing has stopped the agent.
SteadyWhileIntact == InTree /\ (intact => Steady)

----------------------------------------------------------------------------
(* Why a composite returns what run() does.                                *)

\* random_seq has dealt out its children.
Shuffled(n) ==
  /\ m_shuffle[n] \in [1..Arity(n) -> 0..(Arity(n) - 1)]
  /\ IsInjective(m_shuffle[n])

\* What the children of a running composite have done, other than the one it is
\* at.
Halfway(n) ==
  LET i == next_child_idx[n] IN
  CASE Kind[n] \in ListKinds ->
         /\ Kind[n] = "random_seq" => Shuffled(n)
         /\ \A j \in 0..(Arity(n) - 1) :
              /\ j < i => \E r \in BOOLEAN : ~Shortcut(n, r) /\ Ran(n, Cursor(n, j), r)
              /\ j > i => NotRun(n, Cursor(n, j))
    [] Kind[n] = "if_else" ->
         /\ i \in 0..2
         /\ i = 1 => Ran(n, 0, TRUE)
         /\ i = 2 => Ran(n, 0, FALSE)
         /\ \A j \in 1..(Arity(n) - 1) : j # i => NotRun(n, j)
    [] Kind[n] = "while_loop" -> i \in 0..1
    [] Kind[n] = "probility" ->
         /\ i \in 0..(Arity(n) - 1) /\ Weights[n][i + 1] > 0
         /\ \A j \in 0..(Arity(n) - 1) : j # i => NotRun(n, j)
    [] OTHER -> i = 0

\* A composite waits for a child that has not returned, it is woken up because
\* one has, and when it has returned it did what run() does.
Progress(n) ==
  /\ m_state[n] \in {"wait_child", "awaken"} => Halfway(n)
  /\ m_state[n] = "wait_child" => \A c \in Current(n) : m_state[c] # "dead"
  /\ m_state[n] = "awaken" => \E c \in Current(n) : m_state[c] = "dead"
  /\ Returned(n) => RunGives(n, result[n]) /\ RaceGives(n, result[n])

\* What a composite has done so far is a beginning of its run().
RunsSoFar == intact => \A n \in Node : Progress(n)
============================================================================
