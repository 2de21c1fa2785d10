--------------------------- MODULE MCPersistence ---------------------------
(***************************************************************************)
(* Two trees of an agent with waits and a blackboard.                      *)
(*   r  lets a wait race against a random_seq of an event and an action    *)
(*      that may turn out to be unusable, which stops the agent;           *)
(*   s  waits, moves an item of an array that the application may set or   *)
(*      not, and resets the agent.                                         *)
(***************************************************************************)
EXTENDS Persistence, Forest

MCKind == Attribute([
  r_root |-> "root", r_race |-> "parallel", r_any |-> "random_seq",
  r_hear |-> "wait_event",
  s_root |-> "root", s_seq |-> "always_seq", s_again |-> "reset"],
  "action")

MCChildren == Attribute([
  r_root |-> <<"r_race">>,
  r_race |-> <<"r_any", "r_wait">>, r_any |-> <<"r_hear", "r_step">>,
  s_root |-> <<"s_seq">>, s_seq |-> <<"s_wait", "s_fill", "s_pick", "s_add", "s_again">>],
  <<>>)

MCEventOf == Attribute([r_hear |-> "test"], NoEvent)

MCWeights == [n \in Node |-> <<>>]

MCOutcomes == Attribute([r_wait |-> Async, r_step |-> {"invalid", "pending"}, s_wait |-> Async],
                        {"true", "false", "invalid"})

MCRaises == [n \in Node |-> {}]

Asks(action, key, value) ==
  [action |-> action, key |-> key, value |-> value, from |-> NoKey, dest |-> NoKey,
   count |-> 0, remove |-> FALSE]

Requests ==
  [s_fill |-> [Asks("set_key_value", "pool", Null) EXCEPT !.from = "all"],
   s_pick |-> [Asks("choose_one_random", "pool", Null) EXCEPT !.dest = "one",
                                                              !.remove = TRUE],
   s_add |-> Asks("number_add", "one", Whole(2))]

MCRequest == [n \in Node \cap DOMAIN Requests |-> Requests[n]]

MCTold == {<<"all", List(<<0, 1>>)>>}
=============================================================================
