----------------------------- MODULE Blackboard -----------------------------
(***************************************************************************)
(* The blackboard of an agent, and the synchronous actions of action_agent *)
(* on it, as operators: what a request does with a blackboard and answers. *)
(*                                                                         *)
(* A JSON value is its type and its numbers: <<x>> for a number, the items *)
(* of an array, nothing for anything else.  Doubles are whole numbers here *)
(* (no operation makes a fraction of whole numbers), so they differ from   *)
(* integers by their type only.                                            *)
(***************************************************************************)
EXTENDS Integers, Sequences, SequencesExt, Functions

CONSTANT MaxInt   \* the greatest int; the least is -MaxInt - 1

ASSUME MaxIntAssumption == MaxInt \in Nat \ {0}

Value(t, items) == [type |-> t, items |-> items]

Null == Value("null", <<>>)

Whole(x) == Value("int", <<x>>)

Double(x) == Value("float", <<x>>)

List(items) == Value("array", items)

IsNumber(v) == v.type \in {"int", "float"}

Number(v) == Head(v.items)

Ints == (-MaxInt - 1)..MaxInt

\* Mutant: the result is left as it is.
ToIntWide(x) == {x}

\* static_cast<int>: outside of int anything may come out.
ToInt(x) == IF x \in Ints THEN {x} ELSE Ints

\* What a blackboard holds.  Whole numbers are ints, as long as the application
\* and the trees write no greater ones.
Fits(v) ==
  /\ v = Value(v.type, v.items)
  /\ v.type \in {"null", "int", "float", "array", "other"}
  /\ Len(v.items) <= MaxInt
  /\ IsNumber(v) => Len(v.items) = 1
  /\ v.items \in Seq(IF v.type = "float" THEN Int ELSE Ints)

\* operator== of json: numbers are equal by value, whatever their types.
Equal(v, w) == v = w \/ (IsNumber(v) /\ IsNumber(w) /\ Number(v) = Number(w))

----------------------------------------------------------------------------
(* A blackboard is a function from the keys that it has.                   *)

BlackboardGet(bb, key) == IF key \in DOMAIN bb THEN bb[key] ELSE Null

BlackboardSet(bb, key, v) ==
  [k \in DOMAIN bb \cup {key} |-> IF k = key THEN v ELSE bb[k]]

BlackboardPop(bb, key) == Restrict(bb, DOMAIN bb \ {key})

Outcome(answer, bb) == [answer |-> answer, blackboard |-> bb]

Refused(bb) == {Outcome(FALSE, bb)}

----------------------------------------------------------------------------
(* A request r names an action, a key, a value and a second key; the       *)
(* choose actions also have a count and a flag.                            *)

Arithmetic == {"number_add", "number_dec", "number_multiply", "number_div"}

Comparisons == {"number_larger_than", "number_less_than"}

\* number_div adds.
Computed(action, x, y) ==
  CASE action \in {"number_add", "number_div"} -> x + y
    [] action = "number_dec" -> x - y
    [] action = "number_multiply" -> x * y

\* The sum is made of doubles and goes back to int when both were integers;
\* number_div always leaves a double.
Calculate(r, bb) ==
  LET old == BlackboardGet(bb, r.key)
      x == Computed(r.action, Number(old), Number(r.value))
      double == r.action = "number_div" \/ "float" \in {old.type, r.value.type} IN
  IF ~IsNumber(old) \/ ~IsNumber(r.value) THEN Refused(bb)
  ELSE {Outcome(TRUE, BlackboardSet(bb, r.key, v)) :
          v \in IF double THEN {Double(x)} ELSE {Whole(y) : y \in ToInt(x)}}

Compare(r, bb) ==
  LET old == BlackboardGet(bb, r.key) IN
  IF ~IsNumber(old) \/ ~IsNumber(r.value) THEN Refused(bb)
  ELSE {Outcome(IF r.action = "number_less_than" THEN Number(old) < Number(r.value)
                ELSE Number(old) > Number(r.value), bb)}

Shuffles(q) == {[i \in DOMAIN q |-> q[s[i]]] : s \in Bijection(DOMAIN q, DOMAIN q)}

\* Mutant: what was chosen is left out of the wrong end.
RemainderTop(q, k) == SubSeq(q, 1, k)

\* What remove_chosen leaves of the shuffled array.
Remainder(q, k) == SubSeq(q, k + 1, Len(q))

\* The array is read once, before dest is set.
Choose(r, bb) ==
  LET q == BlackboardGet(bb, r.key).items
      k == IF r.action = "choose_random" THEN r.count ELSE 1
      chosen(s) == IF r.action = "choose_random" THEN List(SubSeq(s, 1, k))
                   ELSE Whole(Head(s))
      kept(s, b) == IF r.remove THEN BlackboardSet(b, r.key, List(Remainder(s, k)))
                    ELSE b IN
  IF BlackboardGet(bb, r.key).type # "array" \/ Len(q) < k THEN Refused(bb)
  ELSE {Outcome(TRUE, kept(s, BlackboardSet(bb, r.dest, chosen(s)))) :
          s \in Shuffles(q)}

Pick(r, bb) ==
  LET old == BlackboardGet(bb, r.key) IN
  IF old.type # "array" \/ Len(old.items) <= r.count THEN Refused(bb)
  ELSE {Outcome(TRUE, BlackboardSet(bb, r.dest, Whole(old.items[r.count + 1])))}

Measure(r, bb) ==
  LET old == BlackboardGet(bb, r.key) IN
  IF old.type # "array" THEN Refused(bb)
  ELSE {Outcome(TRUE, BlackboardSet(bb, r.dest, Whole(Len(old.items))))}

\* What agent_action may do for r.  "log", "log_bb" and "nop" are what is left.
Performed(r, bb) ==
  CASE r.action = "has_key" -> {Outcome(r.key \in DOMAIN bb, bb)}
    [] r.action = "has_key_value" ->
         {Outcome(Equal(BlackboardGet(bb, r.key), r.value), bb)}
    [] r.action = "set_key_value" -> {Outcome(TRUE, BlackboardSet(bb, r.key, r.value))}
    [] r.action \in Arithmetic -> Calculate(r, bb)
    [] r.action \in Comparisons -> Compare(r, bb)
    [] r.action \in {"choose_random", "choose_one_random"} -> Choose(r, bb)
    [] r.action = "choose_idx" -> Pick(r, bb)
    [] r.action = "get_array_size" -> Measure(r, bb)
    [] OTHER -> {Outcome(TRUE, bb)}
=============================================================================
