--------------------------- MODULE Configuration ---------------------------
(***************************************************************************)
(* What the runtime promises, without its queues: bt_1_intro.md describes  *)
(* a running tree by its structure, its blackboard and its Configuration,  *)
(* the set of active nodes.  Control is a set of tokens.  A token moves    *)
(* down to a child (to all of them at a parallel), or up to the parent     *)
(* when its node returns; a node that returns takes with it every token    *)
(* below it, which only a parallel can have.  Nothing else moves, appears  *)
(* or vanishes until the agent is stopped.                                 *)
(***************************************************************************)
EXTENDS BTree

VARIABLES
  config,  \* the active nodes
  halted   \* the agent was stopped, or has not loaded a tree yet

cvars == <<config, halted>>

Init == config = {} /\ halted = TRUE

Load(r) ==
  /\ config' = {r}
  /\ halted' = FALSE

\* The only token in n's subtree is n's own.
Alone(n) == config \cap Below(n) = {n}

Descend(n) ==
  /\ ~halted
  /\ Alone(n)
  /\ IF Kind[n] = "parallel"
     THEN /\ ChildSet(n) # {}
          /\ config' = (config \ {n}) \cup ChildSet(n)
     ELSE \E c \in ChildSet(n) : config' = (config \ {n}) \cup {c}
  /\ UNCHANGED halted

Ascend(n) ==
  /\ ~halted
  /\ n \in config
  /\ Kind[n] = "parallel" \/ Alone(n)
  /\ Parent[n] # NoNode
  /\ config' = (config \ Below(n)) \cup {Parent[n]}
  /\ UNCHANGED halted

Halt ==
  /\ config' = {}
  /\ halted' = TRUE

Next ==
  \/ \E r \in Roots : Load(r)
  \/ \E n \in Node : Descend(n) \/ Ascend(n)
  \/ Halt

Spec == Init /\ [][Next]_cvars

----------------------------------------------------------------------------
TypeOK == config \in SUBSET Node /\ halted \in BOOLEAN

\* Control is never lost: while the agent has not been stopped some node is
\* active, so no sequence of returns and interruptions strands the tree.
Occupied == ~halted => config # {}

\* Two nodes are active at once only because a parallel above both of them,
\* or one of the two itself, started several branches: control is never
\* forked by a sequential composite.
Forked(n, m) ==
  \E p \in Lineage[n] \cap Lineage[m] :
    /\ Kind[p] = "parallel"
    /\ Lineage[n] \cap Lineage[m] \subseteq Lineage[p]

ForkedOnlyByParallel == \A n, m \in config : n # m => Forked(n, m)
============================================================================
