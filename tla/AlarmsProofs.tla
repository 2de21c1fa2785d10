---------------------------- MODULE AlarmsProofs ----------------------------
(***************************************************************************)
(* What an agent can rely on, for every number of agents and callbacks.    *)
(***************************************************************************)
EXTENDS Alarms, TLAPS

\* A callback that may run has a number that was given out.
Numbered ==
  /\ issued \in [Agents -> Nat]
  /\ \A x \in pending : \E a \in Agents : \E s \in Nat : x = <<a, s>> /\ s <= issued[a]

\* What a step may add is the number it gives out.
LEMMA OnlyTheNext ==
  ASSUME Numbered, [Next]_vars
  PROVE  /\ issued' \in [Agents -> Nat]
         /\ \A a \in Agents : issued[a] <= issued'[a]
         /\ \A x \in pending' : x \in pending \/
              \E a \in Agents : x = <<a, issued[a] + 1>> /\ issued'[a] = issued[a] + 1
<1>1. CASE \E a \in Agents : Register(a)
  <2>1. PICK a \in Agents : Register(a)
    BY <1>1
  <2>2. /\ issued' = [issued EXCEPT ![a] = issued[a] + 1]
        /\ \A x \in pending' : x \in pending \/ x = <<a, issued[a] + 1>>
    BY <2>1 DEF Register
  <2>3. issued[a] + 1 \in Nat /\ issued'[a] = issued[a] + 1
    BY <2>2 DEF Numbered
  <2> QED
    BY <2>2, <2>3 DEF Numbered
<1>2. CASE (\E x \in pending : Ring(x)) \/ Lose \/ Return \/ UNCHANGED vars
  <2>1. issued' = issued /\ pending' \subseteq pending
    BY <1>2 DEF Ring, Lose, Return, vars
  <2> QED
    BY <2>1 DEF Numbered
<1> QED
  BY <1>1, <1>2 DEF Next

\* A callback that has run, or was lost, never runs again, for every number of
\* agents: agents count on it when they stop to look for its node.
THEOREM RunsOnce == Spec => NeverAgain
<1>1. Init => Numbered
  BY DEF Init, Numbered
<1>2. Numbered /\ [Next]_vars => Numbered'
  <2> SUFFICES ASSUME Numbered, [Next]_vars PROVE Numbered'
    OBVIOUS
  <2>1. ASSUME NEW x \in pending'
        PROVE  \E a \in Agents : \E s \in Nat : x = <<a, s>> /\ s <= issued'[a]
    <3>1. CASE x \in pending
      <4>1. PICK a \in Agents, s \in Nat : x = <<a, s>> /\ s <= issued[a]
        BY <3>1 DEF Numbered
      <4>2. s <= issued'[a]
        BY <4>1, OnlyTheNext DEF Numbered
      <4> QED
        BY <4>1, <4>2
    <3>2. CASE \E a \in Agents : x = <<a, issued[a] + 1>> /\ issued'[a] = issued[a] + 1
      <4>1. PICK a \in Agents : x = <<a, issued[a] + 1>> /\ issued'[a] = issued[a] + 1
        BY <3>2
      <4>2. issued[a] + 1 \in Nat /\ issued[a] + 1 <= issued'[a]
        BY <4>1 DEF Numbered
      <4> QED
        BY <4>1, <4>2
    <3> QED
      BY <2>1, <3>1, <3>2, OnlyTheNext
  <2> QED
    BY <2>1, OnlyTheNext DEF Numbered
<1>3. Numbered /\ [Next]_vars =>
        [\A a \in Agents, s \in Nat :
           s <= issued[a] /\ <<a, s>> \notin pending => <<a, s>> \notin pending']_vars
  <2> SUFFICES ASSUME Numbered, [Next]_vars, NEW a \in Agents, NEW s \in Nat,
                      s <= issued[a], <<a, s>> \in pending'
               PROVE  <<a, s>> \in pending
    OBVIOUS
  <2>1. \A b \in Agents : <<a, s>> = <<b, issued[b] + 1>> => ~(s <= issued[a])
    BY DEF Numbered
  <2> QED
    BY <2>1, OnlyTheNext
<1> QED
  BY <1>1, <1>2, <1>3, PTL DEF Spec, NeverAgain
=============================================================================
