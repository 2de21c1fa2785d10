------------------------------- MODULE Alarms -------------------------------
(***************************************************************************)
(* What the timers of a process promise its agents, whatever handlers and  *)
(* tables they keep: a callback is known by its agent and by the number    *)
(* that the agent gave it, it runs at most once, and callbacks run one at  *)
(* a time.  That it runs at all is not promised: any number of callbacks   *)
(* may be lost at any time.                                                *)
(***************************************************************************)
EXTENDS Naturals

CONSTANT Agents

VARIABLES
  issued,    \* the number of waits that every agent has started
  pending,   \* the callbacks that may run
  ringing    \* the callback that runs, if any

vars == <<issued, pending, ringing>>

Init ==
  /\ issued = [a \in Agents |-> 0]
  /\ pending = {}
  /\ ringing = {}

\* An agent starts a wait, inside a callback or outside.  That may cost it, or
\* another one, a callback.
Register(a) ==
  /\ issued' = [issued EXCEPT ![a] = @ + 1]
  /\ pending' \subseteq pending \cup {<<a, issued[a] + 1>>}
  /\ UNCHANGED ringing

Lose ==
  /\ pending' \subseteq pending
  /\ UNCHANGED <<issued, ringing>>

Ring(x) ==
  /\ ringing = {}
  /\ ringing' = {x}
  /\ pending' = pending \ {x}
  /\ UNCHANGED issued

Return ==
  /\ ringing # {}
  /\ ringing' = {}
  /\ pending' \subseteq pending
  /\ UNCHANGED issued

Next ==
  \/ \E a \in Agents : Register(a)
  \/ \E x \in pending : Ring(x)
  \/ Lose
  \/ Return

Spec == Init /\ [][Next]_vars

\* A callback that has run or was lost never runs again: its number is not given
\* out a second time.
NeverAgain ==
  [][\A a \in Agents, s \in Nat :
       s <= issued[a] /\ <<a, s>> \notin pending => <<a, s>> \notin pending']_vars
=============================================================================
