---------------------------- MODULE RuntimeProofs ----------------------------
(***************************************************************************)
(* Theorems about an action_agent that is saved, restarted and restored,   *)
(* for every forest, every set of waits and every request.                 *)
(***************************************************************************)
EXTENDS Persistence, ControlProofs

----------------------------------------------------------------------------
(* The invariant.                                                          *)

\* Control never gets below an action, whose children nobody enters.
Runnable(n) == \A a \in Lineage[n] \ {n} : Kind[a] # "action"

ActionsLast ==
  \A n \in Node : n \in Queued \/ m_state[n] \notin {"init", "dead"} => Runnable(n)

\* What an entry can name.
Waiter(n) == InLoaded(n) /\ Runnable(n) /\ Parent[n] # NoNode

\* Entries, numbers and closures.
TimersTyped ==
  /\ IsABag(m_active_timers) /\ IsFiniteSet(DOMAIN m_active_timers)
  /\ \A e \in DOMAIN m_active_timers :
       /\ e \in [seq : 1..m_next_timer_seq, node : Node \cup {Gone}]
       /\ e.node # Gone => Waiter(e.node)
  /\ m_next_timer_seq \in 0..MaxSeq
  /\ m_closure \in [Node -> 0..MaxSeq]
  /\ \A n \in Node : m_closure[n] # 0 => InLoaded(n)
  /\ document.tree = NoNode => \A n \in Node : m_closure[n] <= m_next_timer_seq
  /\ IsABag(registered) /\ DOMAIN registered \subseteq 1..MaxSeq

BlackboardTyped == \A k \in DOMAIN m_blackboard : Fits(m_blackboard[k])

\* One element of a chain.
Link(max) == [idx : Nat, data : [closure : 0..max, shuffles : SUBSET Seq(Nat)]]

DocumentTyped ==
  /\ document.tree \in Roots \cup {NoNode}
  /\ document.tree = NoNode => document = NoDocument
  /\ \A k \in DOMAIN document.blackboards : Fits(document.blackboards[k])
  /\ document.next_timer_seq \in 0..MaxSeq
  /\ document.front_nodes \in Seq(Seq(Link(document.next_timer_seq)))
  /\ \A k \in DOMAIN document.front_nodes :
       Len(document.front_nodes[k]) > 0 => Arity(document.tree) > 0
  /\ saved_ready \in BOOLEAN

\* The closures of an intact tree: every node has one of its own, whose number
\* is the node's alone.
Held ==
  intact =>
    /\ \A n \in Node : m_closure[n] <= m_next_timer_seq
    /\ \A n, m \in Node : m_closure[n] # 0 /\ m_closure[n] = m_closure[m] => n = m
    /\ \A n \in Node : m_closure[n] # 0 =>
         \A e \in Entries(m_active_timers, m_closure[n]) : e.node = n
    /\ \A n \in Waits \cap Queued : m_state[n] = "blocking" =>
         m_closure[n] # 0 /\ Entries(m_active_timers, m_closure[n]) # {}

\* The number of the closure at the end of a chain.
Kept(c) == c[Len(c)].data.closure

\* c is the way to n that encode writes.
LeadsTo(c, n) ==
  /\ Runnable(n)
  /\ DOMAIN c = DOMAIN Path(n)
  /\ \A j \in DOMAIN c :
       /\ c[j].idx = IndexInParent(Path(n)[j])
       /\ Kind[Path(n)[j]] = "random_seq" => c[j].data.shuffles # {}

\* A document of an intact, blocking tree has the closures of its queued waits.
Queueing(q) ==
  \A k \in DOMAIN q : LET c == document.front_nodes[k] IN
    /\ document.tree \in Lineage[q[k]]
    /\ LeadsTo(c, q[k])
    /\ c # <<>> /\ q[k] \in Waits => Kept(c) # 0
    /\ \A l \in DOMAIN q : LET b == document.front_nodes[l] IN
         c # <<>> /\ b # <<>> =>
           /\ q[k] = q[l] => Kept(c) = Kept(b)
           /\ Kept(c) = Kept(b) /\ Kept(c) # 0 => q[k] = q[l]

DocumentHeld ==
  saved_ready => \E q \in [DOMAIN document.front_nodes -> Node] : Queueing(q)

----------------------------------------------------------------------------
(* Bags.                                                                   *)

\* A list of entries, or of callbacks.
Listing(B) == IsABag(B) /\ IsFiniteSet(DOMAIN B)

\* The empty list.
LEMMA NothingListed == Listing(EmptyBag) /\ DOMAIN EmptyBag = {}
  BY FS_EmptySet DEF Listing, IsABag, EmptyBag, SetToBag

\* What (+) adds to a list.
LEMMA ListedToo ==
  ASSUME NEW B, IsABag(B), NEW e
  PROVE  /\ IsABag(B (+) SetToBag({e}))
         /\ DOMAIN (B (+) SetToBag({e})) = DOMAIN B \cup {e}
         /\ IsFiniteSet(DOMAIN B) => IsFiniteSet(DOMAIN (B (+) SetToBag({e})))
         /\ e \in DOMAIN B => (B (+) SetToBag({e}))[e] > 1
<1>1. B \in [DOMAIN B -> {n \in Nat : n > 0}]
  BY DEF IsABag
<1>2. B (+) SetToBag({e}) =
        [x \in DOMAIN B \cup {e} |-> (IF x \in DOMAIN B THEN B[x] ELSE 0)
                                   + (IF x \in {e} THEN 1 ELSE 0)]
  BY DEF (+), SetToBag
<1> DEFINE copies(x) == (IF x \in DOMAIN B THEN B[x] ELSE 0) + (IF x \in {e} THEN 1 ELSE 0)
<1>3. \A x \in DOMAIN B \cup {e} : copies(x) \in {n \in Nat : n > 0}
  BY <1>1
<1>4. IsFiniteSet(DOMAIN B) => IsFiniteSet(DOMAIN B \cup {e})
  BY FS_AddElement
<1>5. e \in DOMAIN B => copies(e) > 1
  BY <1>1
<1>6. B (+) SetToBag({e}) = [x \in DOMAIN B \cup {e} |-> copies(x)]
  BY <1>2
<1> HIDE DEF copies
<1> QED
  BY <1>3, <1>4, <1>5, <1>6 DEF IsABag

\* What (-) leaves of a list.
LEMMA ListedStill ==
  ASSUME NEW B, IsABag(B), NEW S
  PROVE  /\ IsABag(B (-) SetToBag(S))
         /\ DOMAIN (B (-) SetToBag(S)) \subseteq DOMAIN B
         /\ IsFiniteSet(DOMAIN B) => IsFiniteSet(DOMAIN (B (-) SetToBag(S)))
         /\ \A e \in DOMAIN B : e \notin S \/ B[e] > 1 => e \in DOMAIN (B (-) SetToBag(S))
<1>1. B \in [DOMAIN B -> {n \in Nat : n > 0}]
  BY DEF IsABag
<1> DEFINE left == [e \in DOMAIN B |-> IF e \in S THEN B[e] - 1 ELSE B[e]]
<1>2. B (-) SetToBag(S) = [e \in {d \in DOMAIN left : left[d] > 0} |-> left[e]]
  BY DEF (-), SetToBag
<1>3. \A e \in DOMAIN B : left[e] \in Int /\ (left[e] > 0 <=> e \notin S \/ B[e] > 1)
  BY <1>1
<1>4. DOMAIN (B (-) SetToBag(S)) = {d \in DOMAIN B : left[d] > 0}
  BY <1>2
<1>5. B (-) SetToBag(S) \in [{d \in DOMAIN B : left[d] > 0} -> {n \in Nat : n > 0}]
  BY <1>2, <1>3
<1>6. IsFiniteSet(DOMAIN B) => IsFiniteSet({d \in DOMAIN B : left[d] > 0})
  BY FS_Subset
<1> HIDE DEF left
<1> QED
  BY <1>3, <1>4, <1>5, <1>6 DEF IsABag

\* remove_timer takes entries of its numbers out, and leaves a number that is not
\* its own, or is listed twice.
LEMMA UnlistedLess ==
  ASSUME NEW B, IsABag(B), NEW S
  PROVE  /\ IsABag(Unlisted(B, S))
         /\ DOMAIN Unlisted(B, S) \subseteq DOMAIN B
         /\ IsFiniteSet(DOMAIN B) => IsFiniteSet(DOMAIN Unlisted(B, S))
         /\ \A e \in DOMAIN B : e.seq \notin S \/ B[e] > 1 => e \in DOMAIN Unlisted(B, S)
<1> DEFINE out == {CHOOSE e \in Entries(B, s) : TRUE : s \in {t \in S : Entries(B, t) # {}}}
<1>1. Unlisted(B, S) = B (-) SetToBag(out)
  BY DEF Unlisted
<1>2. \A e \in out : e.seq \in S
  <2> SUFFICES ASSUME NEW s \in S, Entries(B, s) # {}
               PROVE  (CHOOSE e \in Entries(B, s) : TRUE).seq \in S
    OBVIOUS
  <2>1. (CHOOSE e \in Entries(B, s) : TRUE) \in Entries(B, s)
    OBVIOUS
  <2> QED
    BY <2>1 DEF Entries
<1> HIDE DEF out
<1> QED
  BY <1>1, <1>2, ListedStill

\* The copies of a finite list are finitely many.
LEMMA PlacesFinite ==
  ASSUME NEW B, IsABag(B), IsFiniteSet(DOMAIN B)
  PROVE  IsFiniteSet(Places(B))
<1> DEFINE row(e) == {<<e, i>> : i \in 1..B[e]}
           rows == {row(e) : e \in DOMAIN B}
<1>1. ASSUME NEW e \in DOMAIN B PROVE IsFiniteSet(row(e))
  <2>1. B[e] \in Nat
    BY DEF IsABag
  <2>2. IsFiniteSet(1..B[e])
    BY <2>1, FS_Interval
  <2> DEFINE f == [i \in 1..B[e] |-> <<e, i>>]
  <2>3. f \in Surjection(1..B[e], row(e))
    BY DEF Surjection
  <2> QED
    BY <2>2, <2>3, FS_Surjection
<1>2. IsFiniteSet(rows)
  <2> DEFINE f == [e \in DOMAIN B |-> row(e)]
  <2>1. f \in Surjection(DOMAIN B, rows)
    BY DEF Surjection
  <2> QED
    BY <2>1, FS_Surjection
<1>3. \A r \in rows : IsFiniteSet(r)
  BY <1>1
<1>4. Places(B) = UNION rows
  BY DEF Places, BagToSet
<1> HIDE DEF rows
<1> QED
  BY <1>2, <1>3, <1>4, FS_UNION

\* Deleting nodes changes no number, and no entry of another node.
LEMMA DeletedListing ==
  ASSUME NEW B, Listing(B), NEW S
  PROVE  /\ Listing(Deleted(B, S))
         /\ DOMAIN Deleted(B, S) = {Dangling(e, S) : e \in DOMAIN B}
<1> DEFINE named == {Dangling(e, S) : e \in DOMAIN B}
           copies(f) == {c \in Places(B) : Dangling(c[1], S) = f}
<1>1. Deleted(B, S) = [f \in named |-> Cardinality(copies(f))]
  BY DEF Deleted, BagToSet
<1>2. IsFiniteSet(named)
  <2> DEFINE g == [e \in DOMAIN B |-> Dangling(e, S)]
  <2>1. g \in Surjection(DOMAIN B, named)
    BY DEF Surjection
  <2> QED
    BY <2>1, FS_Surjection DEF Listing
<1>3. ASSUME NEW f \in named PROVE Cardinality(copies(f)) \in {n \in Nat : n > 0}
  <2>1. PICK e \in DOMAIN B : f = Dangling(e, S)
    OBVIOUS
  <2>2. 1 \in 1..B[e]
    BY DEF Listing, IsABag
  <2>3. <<e, 1>> \in copies(f)
    BY <2>1, <2>2 DEF Places, BagToSet
  <2>4. IsFiniteSet(copies(f))
    BY PlacesFinite, FS_Subset DEF Listing
  <2> HIDE DEF copies
  <2>5. Cardinality(copies(f)) \in Nat /\ Cardinality(copies(f)) # 0
    BY <2>3, <2>4, FS_CardinalityType, FS_EmptySet
  <2> QED
    BY <2>5
<1> HIDE DEF copies, named
<1>4. Deleted(B, S) \in [named -> {n \in Nat : n > 0}]
  BY <1>1, <1>3
<1>5. DOMAIN Deleted(B, S) = named
  BY <1>4
<1> QED
  BY <1>2, <1>4, <1>5 DEF Listing, IsABag, named

----------------------------------------------------------------------------
(* Blackboards.                                                            *)

BlackboardFits(bb) == \A k \in DOMAIN bb : Fits(bb[k])

\* Numbers that a blackboard can hold.
LEMMA NumbersFit ==
  /\ \A y \in Ints : Fits(Whole(y))
  /\ \A y \in Int : Fits(Double(y))
  /\ \A v : Fits(v) /\ IsNumber(v) => Number(v) \in Int
<1>1. MaxInt \in Nat /\ 1 <= MaxInt
  BY MaxIntAssumption
<1>2. \A S, y : y \in S => <<y>> \in Seq(S) /\ Len(<<y>>) = 1
  OBVIOUS
<1>3. ASSUME NEW y \in Ints PROVE Fits(Whole(y))
  BY <1>1, <1>2 DEF Fits, Whole, Value, IsNumber
<1>4. ASSUME NEW y \in Int PROVE Fits(Double(y))
  BY <1>1, <1>2 DEF Fits, Double, Value, IsNumber
<1>5. ASSUME NEW v, Fits(v), IsNumber(v) PROVE Number(v) \in Int
  <2>1. PICK S : v.items \in Seq(S) /\ S \in {Int, Ints} /\ Len(v.items) = 1
    BY <1>5 DEF Fits
  <2>2. Head(v.items) \in S
    BY <2>1
  <2>3. S \subseteq Int
    BY <1>1, <2>1 DEF Ints
  <2> QED
    BY <2>2, <2>3 DEF Number
<1> QED
  BY <1>3, <1>4, <1>5

\* Arrays that a blackboard can hold.
LEMMA ListsFit ==
  /\ \A q \in Seq(Ints) : Len(q) <= MaxInt => Fits(List(q))
  /\ \A v : Fits(v) /\ v.type = "array" => v.items \in Seq(Ints) /\ Len(v.items) <= MaxInt
  /\ Fits(Null)
  BY MaxIntAssumption DEF Fits, List, Null, Value, IsNumber

\* Reading and writing a key.
LEMMA KeysFit ==
  ASSUME NEW bb, BlackboardFits(bb), NEW key
  PROVE  /\ Fits(BlackboardGet(bb, key))
         /\ \A v : Fits(v) => BlackboardFits(BlackboardSet(bb, key, v))
         /\ BlackboardFits(BlackboardPop(bb, key))
<1>1. Fits(BlackboardGet(bb, key))
  BY ListsFit DEF BlackboardFits, BlackboardGet
<1>2. \A v : Fits(v) => BlackboardFits(BlackboardSet(bb, key, v))
  BY DEF BlackboardFits, BlackboardSet
<1>3. BlackboardFits(BlackboardPop(bb, key))
  BY DEF BlackboardFits, BlackboardPop, Restrict
<1> QED
  BY <1>1, <1>2, <1>3

\* Arithmetic,
LEMMA CalculateFits ==
  ASSUME NEW r, Fits(r.value), r.action \in Arithmetic, NEW bb, BlackboardFits(bb),
         NEW o \in Calculate(r, bb)
  PROVE  BlackboardFits(o.blackboard)
<1> DEFINE old == BlackboardGet(bb, r.key)
           x == Computed(r.action, Number(old), Number(r.value))
<1>1. CASE ~IsNumber(old) \/ ~IsNumber(r.value)
  BY <1>1 DEF Calculate, Refused, Outcome
<1>2. CASE IsNumber(old) /\ IsNumber(r.value)
  <2>1. Number(old) \in Int /\ Number(r.value) \in Int
    BY <1>2, KeysFit, NumbersFit
  <2>2. x \in Int
    <3>1. \A a, b \in Int : a + b \in Int /\ a - b \in Int /\ a * b \in Int
      OBVIOUS
    <3> QED
      BY <2>1, <3>1 DEF Computed, Arithmetic
  <2>3. \A y \in ToInt(x) : Fits(Whole(y))
    BY NumbersFit DEF ToInt
  <2>4. Fits(Double(x))
    BY <2>2, NumbersFit
  <2>5. \E v : Fits(v) /\ o = Outcome(TRUE, BlackboardSet(bb, r.key, v))
    <3> HIDE DEF x
    <3> DEFINE double == r.action = "number_div" \/ "float" \in {old.type, r.value.type}
    <3>1. Calculate(r, bb) =
            {Outcome(TRUE, BlackboardSet(bb, r.key, v)) :
               v \in IF double THEN {Double(x)} ELSE {Whole(y) : y \in ToInt(x)}}
      BY <1>2 DEF Calculate, x
    <3> HIDE DEF double
    <3> QED
      BY <2>3, <2>4, <3>1
  <2> QED
    BY <2>5, KeysFit DEF Outcome
<1> QED
  BY <1>1, <1>2

\* drawing from an array,
LEMMA ChooseFits ==
  ASSUME NEW r, r.count \in Nat, NEW bb, BlackboardFits(bb), NEW o \in Choose(r, bb)
  PROVE  BlackboardFits(o.blackboard)
<1> DEFINE q == BlackboardGet(bb, r.key).items
           k == IF r.action = "choose_random" THEN r.count ELSE 1
           chosen(s) == IF r.action = "choose_random" THEN List(SubSeq(s, 1, k))
                        ELSE Whole(Head(s))
           kept(s, b) == IF r.remove THEN BlackboardSet(b, r.key, List(Remainder(s, k)))
                         ELSE b
<1>1. CASE BlackboardGet(bb, r.key).type # "array" \/ Len(q) < k
  BY <1>1 DEF Choose, Refused, Outcome
<1>2. CASE ~(BlackboardGet(bb, r.key).type # "array" \/ Len(q) < k)
  <2>1. q \in Seq(Ints) /\ Len(q) <= MaxInt /\ k \in Nat /\ k <= Len(q)
    BY <1>2, KeysFit, ListsFit
  <2>2. PICK s \in Shuffles(q) :
          o = Outcome(TRUE, kept(s, BlackboardSet(bb, r.dest, chosen(s))))
    BY <1>2 DEF Choose
  <2>3. s \in Seq(Ints) /\ Len(s) = Len(q)
    <3>1. PICK p \in Bijection(DOMAIN q, DOMAIN q) : s = [i \in DOMAIN q |-> q[p[i]]]
      BY DEF Shuffles
    <3>2. p \in [DOMAIN q -> DOMAIN q]
      BY <3>1 DEF Bijection, Injection
    <3>3. DOMAIN q = 1..Len(q) /\ Len(q) \in Nat /\ \A i \in DOMAIN q : q[i] \in Ints
      BY <2>1
    <3> HIDE DEF q
    <3>4. \A i \in 1..Len(q) : q[p[i]] \in Ints
      BY <3>2, <3>3
    <3>5. \A m \in Nat : \A f \in [1..m -> Ints] : f \in Seq(Ints) /\ Len(f) = m
      OBVIOUS
    <3>6. s \in [1..Len(q) -> Ints]
      BY <3>1, <3>3, <3>4
    <3> QED
      BY <3>3, <3>5, <3>6
  <2>4. /\ SubSeq(s, 1, k) \in Seq(Ints) /\ Len(SubSeq(s, 1, k)) <= MaxInt
        /\ Remainder(s, k) \in Seq(Ints) /\ Len(Remainder(s, k)) <= MaxInt
    <3>1. Len(s) \in Nat /\ MaxInt \in Nat /\ k \in Nat /\ k <= Len(s) /\ Len(s) <= MaxInt
      BY <2>1, <2>3, MaxIntAssumption
    <3> HIDE DEF k, q
    <3>2. SubSeq(s, 1, k) \in Seq(Ints) /\ Len(SubSeq(s, 1, k)) = k
      BY <2>3, <3>1
    <3>3. Remainder(s, k) \in Seq(Ints) /\ Len(Remainder(s, k)) = Len(s) - k
      BY <2>3, <3>1 DEF Remainder
    <3> QED
      BY <3>1, <3>2, <3>3
  <2>5. Fits(List(SubSeq(s, 1, k))) /\ Fits(List(Remainder(s, k)))
    BY <2>4, ListsFit
  <2>6. r.action # "choose_random" => Fits(Whole(Head(s)))
    <3>1. r.action # "choose_random" => Head(s) \in Ints
      BY <2>1, <2>3
    <3> QED
      BY <3>1, NumbersFit
  <2>7. Fits(chosen(s))
    BY <2>5, <2>6
  <2> HIDE DEF chosen
  <2>8. BlackboardFits(BlackboardSet(bb, r.dest, chosen(s)))
    BY <2>7, KeysFit
  <2> HIDE DEF k
  <2>9. BlackboardFits(kept(s, BlackboardSet(bb, r.dest, chosen(s))))
    BY <2>5, <2>8, KeysFit
  <2> HIDE DEF kept
  <2> QED
    BY <2>2, <2>9 DEF Outcome
<1> QED
  BY <1>1, <1>2

\* reading an array,
LEMMA PickFits ==
  ASSUME NEW r, r.count \in Nat, NEW bb, BlackboardFits(bb),
         NEW o \in Pick(r, bb) \cup Measure(r, bb)
  PROVE  BlackboardFits(o.blackboard)
<1> DEFINE old == BlackboardGet(bb, r.key)
<1>1. Fits(old)
  BY KeysFit
<1>2. old.type = "array" => old.items \in Seq(Ints) /\ Len(old.items) <= MaxInt
  BY <1>1, ListsFit
<1>3. old.type = "array" => Fits(Whole(Len(old.items)))
  <2>1. old.type = "array" => Len(old.items) \in Ints
    BY <1>2, MaxIntAssumption DEF Ints
  <2> QED
    BY <2>1, NumbersFit
<1>4. old.type = "array" /\ r.count < Len(old.items) => Fits(Whole(old.items[r.count + 1]))
  <2>1. old.type = "array" /\ r.count < Len(old.items) => old.items[r.count + 1] \in Ints
    BY <1>2
  <2> QED
    BY <2>1, NumbersFit
<1>5. ASSUME NEW v, Fits(v), o = Outcome(TRUE, BlackboardSet(bb, r.dest, v))
      PROVE  BlackboardFits(o.blackboard)
  BY <1>5, KeysFit DEF Outcome
<1>6. CASE o \in Pick(r, bb)
  <2>1. \/ o = Outcome(FALSE, bb)
        \/ /\ old.type = "array" /\ ~(Len(old.items) <= r.count)
           /\ o = Outcome(TRUE, BlackboardSet(bb, r.dest, Whole(old.items[r.count + 1])))
    BY <1>6 DEF Pick, Refused
  <2>2. old.type = "array" /\ ~(Len(old.items) <= r.count) => r.count < Len(old.items)
    BY <1>2
  <2> QED
    BY <1>4, <1>5, <2>1, <2>2 DEF Outcome
<1>7. CASE o \in Measure(r, bb)
  <2>1. \/ o = Outcome(FALSE, bb)
        \/ /\ old.type = "array"
           /\ o = Outcome(TRUE, BlackboardSet(bb, r.dest, Whole(Len(old.items))))
    BY <1>7 DEF Measure, Refused
  <2> QED
    BY <1>3, <1>5, <2>1 DEF Outcome
<1> QED
  BY <1>6, <1>7

\* and every other action leave values that a blackboard can hold.
LEMMA PerformedFits ==
  ASSUME NEW r, Fits(r.value), r.count \in Nat, NEW bb, BlackboardFits(bb),
         NEW o \in Performed(r, bb)
  PROVE  BlackboardFits(o.blackboard)
<1>1. CASE r.action \in Arithmetic
  <2>1. Performed(r, bb) = Calculate(r, bb)
    BY <1>1 DEF Performed, Arithmetic, Comparisons
  <2> QED
    BY <1>1, <2>1, CalculateFits
<1>2. CASE r.action \in {"choose_random", "choose_one_random"}
  <2>1. Performed(r, bb) = Choose(r, bb)
    BY <1>2 DEF Performed, Arithmetic, Comparisons
  <2> QED
    BY <2>1, ChooseFits
<1>3. CASE r.action \in {"choose_idx", "get_array_size"}
  <2>1. o \in Pick(r, bb) \cup Measure(r, bb)
    BY <1>3 DEF Performed, Arithmetic, Comparisons
  <2> QED
    BY <2>1, PickFits
<1>4. CASE r.action = "set_key_value"
  <2>1. o = Outcome(TRUE, BlackboardSet(bb, r.key, r.value))
    BY <1>4 DEF Performed, Arithmetic, Comparisons
  <2> QED
    BY <2>1, KeysFit DEF Outcome
<1>5. CASE r.action \in Comparisons
  <2>1. Performed(r, bb) = Compare(r, bb)
    BY <1>5 DEF Performed, Arithmetic, Comparisons
  <2>2. o.blackboard = bb
    BY <2>1 DEF Compare, Refused, Outcome
  <2> QED
    BY <2>2
<1>6. CASE r.action \in {"has_key", "has_key_value"}
  <2>1. o.blackboard = bb
    BY <1>6 DEF Performed, Outcome, Arithmetic, Comparisons
  <2> QED
    BY <2>1
<1>7. CASE r.action \notin Arithmetic \cup Comparisons \cup
             {"choose_random", "choose_one_random", "choose_idx", "get_array_size",
              "set_key_value", "has_key", "has_key_value"}
  <2>1. Performed(r, bb) = {Outcome(TRUE, bb)}
    BY <1>7 DEF Performed
  <2>2. o.blackboard = bb
    BY <2>1 DEF Outcome
  <2> QED
    BY <2>2
<1> QED
  BY <1>1, <1>2, <1>3, <1>4, <1>5, <1>6, <1>7

----------------------------------------------------------------------------
(* Who gets control in a step of an agent.                                 *)

\* An action blocks because it has just begun to wait, or its agent is stopped.
Stirs(x) ==
  m_state'[x] # "blocking" \/ ~intact' \/ Kind[x] # "action" \/ EnterPending(x)

Gets(x) == Runnable(x) /\ Stirs(x)

\* Only a node that gets control is given a state it works in, or queued.
Spread ==
  /\ \A x \in Node : m_state'[x] \in {m_state[x], "init", "dead"} \/ Gets(x)
  /\ \A x \in Queued' : x \in Queued \/ Gets(x)

\* A parent is above no action that its child is not below of, and a child of a
\* composite is below no other action.
LEMMA RunnableNeighbours ==
  ASSUME NEW n \in Node
  PROVE  /\ Runnable(n) /\ Parent[n] # NoNode => Runnable(Parent[n])
         /\ Runnable(n) /\ Kind[n] # "action" => \A c \in ChildSet(n) : Runnable(c)
         /\ n \in Roots => Runnable(n)
<1>1. ASSUME Runnable(n), Parent[n] # NoNode PROVE Runnable(Parent[n])
  <2>1. Lineage[n] = {n} \cup Lineage[Parent[n]] /\ n \notin Lineage[Parent[n]]
    BY <1>1, TreeAssumption DEF Created
  <2> QED
    BY <1>1, <2>1 DEF Runnable
<1>2. ASSUME Runnable(n), Kind[n] # "action", NEW c \in ChildSet(n) PROVE Runnable(c)
  BY <1>2, ChildLineage DEF Runnable
<1>3. ASSUME n \in Roots PROVE Runnable(n)
  <2>1. Lineage[n] = {n}
    BY <1>3, TreeAssumption DEF Rooted, Created
  <2> QED
    BY <2>1 DEF Runnable
<1> QED
  BY <1>1, <1>2, <1>3

\* A crash gives control to nobody.
LEMMA CrashSpreads == ASSUME Crash PROVE Spread
  BY DEF Crash, Spread, Queued, queueVars, nodeVars

\* Nor does a stop, but for a node that queues itself on the stopped agent.
LEMMA StopSpreads ==
  ASSUME Typed, NEW n, Runnable(n), NEW st, NEW idx, NEW q, NotifyStop(st, idx, q),
         \A x \in Node : st[x] \in {m_state[x], "init", "dead"} \/ x = n,
         \A x \in ToSet(m_fronts') : x \in Queued \/ x = n
  PROVE  Spread
<1>1. m_state' = Kill(st, Interrupted(st, idx, ToSet(q))) /\ m_pre_fronts' = <<>> /\ ~intact'
  BY DEF NotifyStop
<1>2. Gets(n)
  BY <1>1 DEF Gets, Stirs
<1>3. \A x \in Node : m_state'[x] \in {m_state[x], "init", "dead"} \/ Gets(x)
  BY <1>1, <1>2 DEF Kill
<1>4. Queued' = ToSet(m_fronts')
  <2>1. ToSet(<<>>) = {}
    BY DEF ToSet
  <2> QED
    BY <1>1, <2>1 DEF Queued
<1> QED
  BY <1>2, <1>3, <1>4 DEF Spread

\* A visit that goes on.
LEMMA StepSpreads ==
  ASSUME Typed, NEW n \in Node, Visiting(n), Step(n),
         NEW z \in Node, Gets(z), m_fronts' = AddToFront(m_fronts, z),
         \A x \in Node : m_state'[x] \in {m_state[x], "init", "dead"} \/ Gets(x)
  PROVE  Spread
<1>1. ToSet(m_fronts') = ToSet(m_fronts) \cup {z}
  BY AddToFrontMembers DEF Typed, TypeOK
<1>2. ToSet(m_pre_fronts') \subseteq Queued
  <2>1. ToSet(<<>>) = {} /\ (m_pre_fronts' = Tail(m_pre_fronts) \/ m_pre_fronts' = <<>>)
    BY DEF ToSet, Step
  <2> QED
    BY <2>1, Visited
<1> QED
  BY <1>1, <1>2 DEF Spread, Queued

\* Visits of a fresh node that go on,
LEMMA EnterSpreads ==
  ASSUME Typed, InTree, ActionsLast, NEW n \in Node,
         \/ EnterFirst(n) \/ EnterShuffled(n) \/ EnterWeighted(n) \/ EnterParallel(n)
         \/ EnterAction(n) \/ EnterPending(n) \/ EnterWaitEvent(n)
  PROVE  Spread
<1>1. Visiting(n) /\ Step(n) /\ m_state[n] = "init"
  BY DEF EnterFirst, EnterShuffled, EnterWeighted, EnterParallel, EnterAction, EnterPending,
         EnterWaitEvent, Fresh
<1>2. Runnable(n)
  BY <1>1, Visited DEF ActionsLast
<1>3. Arity(n) \in Nat
  BY ArityType
<1>4. m_state \in [Node -> States]
  BY DEF Typed, TypeOK
<1>5. ASSUME m_state' = OnEnter(n, "wait_child"), Kind[n] # "action"
      PROVE  /\ \A x \in Node : m_state'[x] \in {m_state[x], "init", "dead"} \/ Gets(x)
             /\ \A c \in ChildSet(n) : c \in Node /\ Gets(c)
  <2>1. \A x \in Node : m_state'[x] = IF x = n THEN "wait_child"
                                      ELSE IF x \in ChildSet(n) THEN "init" ELSE m_state[x]
    BY <1>5 DEF OnEnter
  <2>2. Gets(n)
    BY <1>2, <2>1 DEF Gets, Stirs
  <2>3. ASSUME NEW c \in ChildSet(n) PROVE c \in Node /\ Gets(c)
    <3>1. c \in Node /\ Runnable(c)
      BY <1>2, <1>5, RunnableNeighbours, ChildHasParent
    <3>2. m_state'[c] # "blocking"
      BY <2>1, <3>1
    <3> QED
      BY <3>1, <3>2 DEF Gets, Stirs
  <2> QED
    BY <2>1, <2>2, <2>3
<1>6. ASSUME NEW i \in 0..(Arity(n) - 1), m_fronts' = AddToFront(m_fronts, Child(n, i)),
             m_state' = OnEnter(n, "wait_child"), Kind[n] # "action"
      PROVE  Spread
  <2>1. Child(n, i) \in Node /\ Gets(Child(n, i))
    BY <1>5, <1>6, ChildAt
  <2> QED
    BY <1>1, <1>5, <1>6, <2>1, StepSpreads
<1>7. CASE EnterFirst(n)
  <2>1. 0 \in 0..(Arity(n) - 1)
    BY <1>3, <1>7 DEF EnterFirst
  <2> QED
    BY <1>6, <1>7, <2>1 DEF EnterFirst, LeafKinds
<1>8. CASE EnterShuffled(n)
  <2>1. PICK s \in [1..Arity(n) -> 0..(Arity(n) - 1)] :
          m_fronts' = AddToFront(m_fronts, Child(n, s[1]))
    BY <1>8 DEF EnterShuffled
  <2>2. s[1] \in 0..(Arity(n) - 1)
    BY <1>3, <1>8 DEF EnterShuffled
  <2> QED
    BY <1>6, <1>8, <2>1, <2>2 DEF EnterShuffled
<1>9. CASE EnterWeighted(n)
  BY <1>6, <1>9 DEF EnterWeighted
<1>10. CASE EnterParallel(n)
  <2>1. PICK k \in 0..Arity(n) : \E t \in [1..k -> 1..Arity(n)] :
          /\ \A i, j \in 1..k : i < j => t[i] < t[j]
          /\ m_fronts' = m_fronts \o [j \in 1..k |-> Children[n][t[j]]]
    BY <1>10 DEF EnterParallel
  <2>2. PICK t \in [1..k -> 1..Arity(n)] :
          /\ \A i, j \in 1..k : i < j => t[i] < t[j]
          /\ m_fronts' = m_fronts \o [j \in 1..k |-> Children[n][t[j]]]
    BY <2>1
  <2> DEFINE s == [j \in 1..k |-> Children[n][t[j]]]
  <2>3. s \in Seq(Node)
    BY <2>2, PickedDistinct
  <2>4. ToSet(s) \subseteq ChildSet(n)
    <3>1. DOMAIN Children[n] = 1..Arity(n)
      BY TreeAssumption DEF Loadable, Arity
    <3> QED
      BY <3>1 DEF ChildSet, ToSet
  <2>5. m_fronts' = m_fronts \o s
    BY <2>2
  <2> HIDE DEF s
  <2>6. ToSet(m_fronts') = ToSet(m_fronts) \cup ToSet(s)
    BY <2>3, <2>5, ConcatMembers DEF Typed, TypeOK
  <2>7. ToSet(m_pre_fronts') \subseteq Queued
    <3>1. ToSet(<<>>) = {} /\ (m_pre_fronts' = Tail(m_pre_fronts) \/ m_pre_fronts' = <<>>)
      BY <1>1 DEF ToSet, Step
    <3> QED
      BY <1>1, <3>1, Visited
  <2>8. m_state' = OnEnter(n, "wait_child") /\ Kind[n] # "action"
    BY <1>10 DEF EnterParallel
  <2> QED
    BY <1>5, <2>4, <2>6, <2>7, <2>8 DEF Spread, Queued
<1>11. CASE EnterAction(n)
  <2>1. Parent[n] \in Node /\ Parent[n] # NoNode
    BY <1>11, HasParent, TreeAssumption DEF EnterAction, Loadable
  <2>2. /\ m_fronts' = AddToFront(m_fronts, Parent[n])
        /\ m_state' = [m_state EXCEPT ![n] = "dead", ![Parent[n]] = "awaken"]
    BY <1>11 DEF EnterAction, SetResult
  <2>3. m_state'[Parent[n]] = "awaken"
    BY <1>4, <2>1, <2>2
  <2>4. Gets(Parent[n])
    BY <1>2, <2>1, <2>3, RunnableNeighbours DEF Gets, Stirs
  <2>5. \A x \in Node : m_state'[x] \in {m_state[x], "init", "dead"} \/ Gets(x)
    BY <1>4, <2>1, <2>2, <2>4
  <2> QED
    BY <1>1, <2>1, <2>2, <2>4, <2>5, StepSpreads
<1>12. CASE EnterPending(n) \/ EnterWaitEvent(n)
  <2>1. m_fronts' = AddToFront(m_fronts, n) /\ m_state' = OnEnter(n, "blocking")
    BY <1>12 DEF EnterPending, EnterWaitEvent
  <2>2. Gets(n)
    BY <1>2, <1>12 DEF EnterWaitEvent, Gets, Stirs
  <2>3. \A x \in Node : m_state'[x] \in {m_state[x], "init", "dead"} \/ Gets(x)
    BY <2>1, <2>2 DEF OnEnter
  <2> QED
    BY <1>1, <2>1, <2>2, <2>3, StepSpreads
<1> QED
  BY <1>7, <1>8, <1>9, <1>10, <1>11, <1>12

\* that stop the agent,
LEMMA HaltSpreads ==
  ASSUME Typed, InTree, ActionsLast, NEW n \in Node,
         \/ EnterUnknown(n) \/ EnterReset(n) \/ EnterHalts(n) \/ EnterFaults(n)
         \/ AdvanceHalts(n)
  PROVE  Spread
<1>1. CASE Crash
  BY <1>1, CrashSpreads
<1> SUFFICES ASSUME ~Crash PROVE Spread
  BY <1>1
<1>2. Visiting(n)
  BY DEF EnterUnknown, EnterReset, EnterHalts, EnterFaults, AdvanceHalts, Fresh, Awoken
<1>3. Runnable(n)
  BY <1>2, Visited DEF ActionsLast
<1>4. m_fronts' \in {<<>>, <<n>>}
  BY DEF EnterUnknown, EnterReset, EnterHalts, EnterFaults, AdvanceHalts, StopFaults
<1>5. ToSet(<<>>) = {} /\ ToSet(<<n>>) = {n}
  BY DEF ToSet
<1>6. \A x \in ToSet(m_fronts') : x \in Queued \/ x = n
  BY <1>4, <1>5
<1>7. CASE EnterUnknown(n)
  <2>1. PICK hit : m_state' = [Kill(OnEnter(n, "entering"), hit) EXCEPT ![n] = "blocking"]
    BY <1>7 DEF EnterUnknown, StopFaults
  <2>2. Gets(n) /\ m_pre_fronts' = <<>>
    BY <1>3, <1>7 DEF EnterUnknown, StopFaults, Gets, Stirs
  <2>3. \A x \in Node : m_state'[x] \in {m_state[x], "init", "dead"} \/ x = n
    BY <2>1 DEF Kill, OnEnter
  <2>4. \A x \in Queued' : x \in Queued \/ x = n
    BY <1>5, <1>6, <2>2 DEF Queued
  <2> QED
    BY <2>2, <2>3, <2>4 DEF Spread
<1>8. CASE EnterReset(n) \/ EnterHalts(n) \/ EnterFaults(n) \/ AdvanceHalts(n)
  <2>1. PICK st, idx : /\ NotifyStop(st, idx, m_fronts)
                       /\ st = m_state \/ \E s : st = OnEnter(n, s)
    BY <1>8 DEF EnterReset, EnterHalts, EnterFaults, AdvanceHalts, StopFaults
  <2>2. \A x \in Node : st[x] \in {m_state[x], "init", "dead"} \/ x = n
    BY <2>1 DEF OnEnter
  <2> QED
    BY <1>3, <1>6, <2>1, <2>2, StopSpreads
<1> QED
  BY <1>7, <1>8

\* the visits of a node that a child has woken up, and those of a stale one,
LEMMA RevisitSpreads ==
  ASSUME Typed, InTree, ActionsLast, NEW n \in Node,
         \/ Requeue(n) \/ Drop(n) \/ Advance(n) \/ Return(n)
         \/ RevisitRoot(n) \/ RevisitParallel(n)
  PROVE  Spread
<1>1. CASE Crash
  BY <1>1, CrashSpreads
<1>2. Visiting(n)
  BY DEF Awoken, Requeue, Drop, Advance, Return, RevisitRoot, RevisitParallel
<1>3. n \in Queued /\ Runnable(n)
  BY <1>2, Visited DEF ActionsLast
<1>4. m_state \in [Node -> States]
  BY DEF Typed, TypeOK
<1>5. CASE Requeue(n) \/ Drop(n)
  <2>1. /\ m_fronts' = m_fronts \/ m_fronts' = AddToFront(m_fronts, n)
        /\ m_pre_fronts' = Tail(m_pre_fronts) /\ m_state' = m_state
    BY <1>5 DEF Requeue, Drop, nodeVars, pollVars
  <2>2. ToSet(m_fronts') \subseteq ToSet(m_fronts) \cup {n}
    BY <2>1, AddToFrontMembers DEF Typed, TypeOK
  <2>3. \A x \in Queued' : x \in Queued
    BY <1>2, <1>3, <2>1, <2>2, Visited DEF Queued
  <2> QED
    BY <2>1, <2>3 DEF Spread
<1>6. ASSUME NEW z \in Node, Runnable(z), m_state'[z] # "blocking", m_fronts' = AddToFront(m_fronts, z),
             Step(n), \A x \in Node : m_state'[x] \in {m_state[x], "init", "dead"} \/ x = z
                                        \/ (x = n /\ m_state'[x] # "blocking")
      PROVE  Spread
  <2>1. Gets(z) /\ (m_state'[n] # "blocking" => Gets(n))
    BY <1>3, <1>6 DEF Gets, Stirs
  <2>2. \A x \in Node : m_state'[x] \in {m_state[x], "init", "dead"} \/ Gets(x)
    BY <1>6, <2>1
  <2> QED
    BY <1>2, <1>6, <2>1, <2>2, StepSpreads
<1>7. CASE Advance(n)
  <2> DEFINE i == NextIndex(n, next_child_idx[n], ChildResult(n))
             c == Child(n, Cursor(n, i))
  <2>1. /\ i < Arity(n)
        /\ m_state' = [m_state EXCEPT ![n] = "wait_child", ![c] = "init"]
        /\ m_fronts' = AddToFront(m_fronts, c)
        /\ Step(n) /\ Kind[n] # "action"
    BY <1>7 DEF Advance, Sequential, LeafKinds
  <2>2. i \in Nat
    BY DEF NextIndex, Typed, TypeOK
  <2> HIDE DEF i
  <2>3. Cursor(n, i) \in 0..(Arity(n) - 1)
    <3>1. m_shuffle[n] \in Seq(0..(Arity(n) - 1)) /\ Arity(n) \in Nat
      BY ArityType DEF Typed, TypeOK, Arity
    <3> QED
      BY <2>1, <2>2, <3>1 DEF Cursor
  <2>4. c \in ChildSet(n) /\ c \in Node
    BY <2>3, ChildAt
  <2> HIDE DEF c
  <2>5. Runnable(c) /\ m_state'[c] # "blocking"
    BY <1>3, <1>4, <2>1, <2>4, RunnableNeighbours
  <2>6. \A x \in Node : m_state'[x] \in {m_state[x], "init", "dead"} \/ x = c
                          \/ (x = n /\ m_state'[x] # "blocking")
    BY <1>4, <2>1, <2>4
  <2> QED
    BY <1>6, <2>1, <2>4, <2>5, <2>6
<1>8. ASSUME Parent[n] \in Node, Parent[n] # NoNode, m_fronts' = AddToFront(m_fronts, Parent[n]),
             Step(n), NEW st \in [Node -> States],
             m_state' = [st EXCEPT ![n] = "dead", ![Parent[n]] = "awaken"],
             \A x \in Node : st[x] \in {m_state[x], "dead"}
      PROVE  Spread
  <2>1. Runnable(Parent[n]) /\ m_state'[Parent[n]] # "blocking"
    BY <1>3, <1>8, RunnableNeighbours
  <2>2. \A x \in Node : m_state'[x] \in {m_state[x], "init", "dead"} \/ x = Parent[n]
    BY <1>8
  <2> QED
    BY <1>6, <1>8, <2>1, <2>2
<1>9. Kind[n] \notin LeafKinds /\ ~(Kind[n] = "root" /\ Parent[n] = NoNode)
        => Parent[n] \in Node /\ Parent[n] # NoNode
  BY HasParent, TreeAssumption DEF Loadable
<1>10. CASE Return(n)
  <2>1. /\ m_fronts' = AddToFront(m_fronts, Parent[n])
        /\ m_state' = [m_state EXCEPT ![n] = "dead", ![Parent[n]] = "awaken"]
        /\ Step(n) /\ Kind[n] \notin LeafKinds /\ ~(Kind[n] = "root" /\ Parent[n] = NoNode)
    BY <1>10 DEF Return, SetResult, Sequential
  <2> QED
    BY <1>4, <1>8, <1>9, <2>1
<1>11. CASE RevisitRoot(n)
  <2>1. 0 \in 0..(Arity(n) - 1)
    BY <1>11 DEF RevisitRoot, Awoken, Typed, Awakened
  <2>2. Child(n, 0) \in ChildSet(n) /\ Child(n, 0) \in Node
    BY <2>1, ChildAt
  <2>3. /\ m_fronts' = AddToFront(m_fronts, Child(n, 0)) /\ Step(n) /\ Kind[n] # "action"
        /\ m_state' = OnEnter(n, "wait_child")
    BY <1>11 DEF RevisitRoot
  <2>4. \A x \in Node : m_state'[x] \in {m_state[x], "init", "dead"}
                          \/ (x = n /\ m_state'[x] # "blocking")
    BY <2>3 DEF OnEnter
  <2>5. Runnable(Child(n, 0)) /\ m_state'[Child(n, 0)] # "blocking"
    BY <1>3, <2>2, <2>3, RunnableNeighbours DEF OnEnter
  <2> QED
    BY <1>6, <2>2, <2>3, <2>4, <2>5
<1>12. CASE RevisitParallel(n) /\ ~Crash
  <2> DEFINE hit == Interrupted(m_state, next_child_idx, ChildSet(n))
  <2>1. /\ m_fronts' = AddToFront(m_fronts, Parent[n])
        /\ m_state' = [Kill(m_state, hit) EXCEPT ![n] = "dead", ![Parent[n]] = "awaken"]
        /\ Step(n) /\ Kind[n] = "parallel"
    BY <1>12 DEF RevisitParallel
  <2>2. Kill(m_state, hit) \in [Node -> States] /\ \A x \in Node : Kill(m_state, hit)[x] \in {m_state[x], "dead"}
    BY <1>4 DEF Kill, States
  <2> HIDE DEF hit
  <2>3. Parent[n] \in Node /\ Parent[n] # NoNode
    BY <1>9, <2>1 DEF LeafKinds
  <2> QED
    BY <1>8, <2>1, <2>2, <2>3
<1> QED
  BY <1>1, <1>5, <1>7, <1>10, <1>11, <1>12

\* the calls of the application,
LEMMA ApplicationSpreads ==
  ASSUME Typed, InTree, ActionsLast, Application
  PROVE  Spread
<1> USE DEF queueVars, nodeVars, pollVars
<1>1. CASE Crash
  BY <1>1, CrashSpreads
<1>2. ToSet(<<>>) = {} /\ \A x : ToSet(<<x>>) = {x}
  BY DEF ToSet
<1>3. ASSUME UNCHANGED <<m_fronts, m_pre_fronts, m_state>> PROVE Spread
  BY <1>3 DEF Spread, Queued
<1>4. ASSUME NEW e \in Event, DispatchEvent(e) PROVE Spread
  BY <1>3, <1>4 DEF DispatchEvent
<1>5. CASE PollCall \/ Enable
  BY <1>3, <1>5 DEF PollCall, Enable
<1>6. CASE (Disable \/ LoadSame) /\ ~Crash
  <2>1. NotifyStop(m_state, next_child_idx, m_fronts) /\ m_fronts' = <<>>
    BY <1>6 DEF Disable, LoadSame, StopFaults
  <2>2. m_state' = Kill(m_state, Interrupted(m_state, next_child_idx, ToSet(m_fronts)))
        /\ m_pre_fronts' = <<>>
    BY <2>1 DEF NotifyStop
  <2> QED
    BY <1>2, <2>1, <2>2 DEF Spread, Queued, Kill
<1>7. \A r \in Roots : r \in Node /\ Gets(r)
  BY RunnableNeighbours, TreeAssumption DEF Rooted, Gets, Stirs
<1>8. ASSUME NEW r \in Roots, LoadFirst(r) PROVE Spread
  <2>1. ToSet(m_fronts') = ToSet(m_fronts) \cup {r} /\ UNCHANGED <<m_pre_fronts, m_state>>
    BY <1>7, <1>8, AddToFrontMembers DEF LoadFirst, Typed, TypeOK
  <2> QED
    BY <1>7, <2>1 DEF Spread, Queued
<1>9. ASSUME NEW r \in Roots \cup {NoNode}, LoadOther(r), ~Crash PROVE Spread
  <2>1. \A n \in Node : m_state'[n] \in {m_state[n], "init"}
    BY <1>9 DEF LoadOther
  <2>2. m_pre_fronts' = <<>> /\ m_fronts' = IF r = NoNode THEN <<>> ELSE <<r>>
    BY <1>9 DEF LoadOther
  <2>3. \A n \in Queued' : n \in Roots
    BY <1>2, <2>2 DEF Queued
  <2> QED
    BY <1>7, <2>1, <2>3 DEF Spread
<1>10. ASSUME NEW n \in Node, NEW r \in BOOLEAN, Complete(n, r) PROVE Spread
  <2>1. Runnable(n) /\ Parent[n] \in Node /\ Parent[n] # NoNode
    BY <1>10, HasParent, TreeAssumption DEF Complete, ActionsLast, Loadable
  <2>2. /\ m_fronts' = AddToFront(m_fronts, Parent[n])
        /\ m_state' = [m_state EXCEPT ![n] = "dead", ![Parent[n]] = "awaken"]
        /\ UNCHANGED m_pre_fronts
    BY <1>10 DEF Complete, SetResult
  <2>3. Gets(Parent[n])
    BY <2>1, <2>2, RunnableNeighbours DEF Gets, Stirs, Typed, TypeOK
  <2>4. \A x \in Node : m_state'[x] \in {m_state[x], "init", "dead"} \/ Gets(x)
    BY <2>1, <2>2, <2>3 DEF Typed, TypeOK
  <2>5. ToSet(m_fronts') = ToSet(m_fronts) \cup {Parent[n]}
    BY <2>1, <2>2, AddToFrontMembers DEF Typed, TypeOK
  <2> QED
    BY <2>2, <2>3, <2>4, <2>5 DEF Spread, Queued
<1>11. ASSUME NEW n \in Node, CompleteDead(n), ~Crash PROVE Spread
  <2>1. NotifyStop(m_state, next_child_idx, m_fronts) /\ m_fronts' = <<>>
    BY <1>11 DEF CompleteDead, StopFaults
  <2>2. m_state' = Kill(m_state, Interrupted(m_state, next_child_idx, ToSet(m_fronts)))
        /\ m_pre_fronts' = <<>>
    BY <2>1 DEF NotifyStop
  <2> QED
    BY <1>2, <2>1, <2>2 DEF Spread, Queued, Kill
<1> QED
  BY <1>1, <1>4, <1>5, <1>6, <1>8, <1>9, <1>10, <1>11 DEF Application

\* the steps of poll_events,
LEMMA EventsSpreads ==
  ASSUME Typed, InTree, ActionsLast, IgnoreEvent \/ HandleEvent \/ HandleDead
  PROVE  Spread
<1> USE DEF queueVars, nodeVars, pollVars
<1>1. CASE Crash
  BY <1>1, CrashSpreads
<1>2. CASE IgnoreEvent
  BY <1>2 DEF IgnoreEvent, Spread, Queued
<1>3. m_fronts \in Seq(Node) /\ m_state \in [Node -> States]
  BY DEF Typed, TypeOK
<1>4. CASE HandleEvent
  <2>1. PICK k \in DOMAIN m_fronts :
          /\ First(k, Head(m_events))
          /\ m_state' = [m_state EXCEPT ![m_fronts[k]] = "dead",
                                       ![Parent[m_fronts[k]]] = "awaken"]
          /\ m_fronts' = Replaced(m_fronts, k, Parent[m_fronts[k]])
    BY <1>4 DEF HandleEvent
  <2> DEFINE n == m_fronts[k]
  <2>2. n \in Queued /\ Kind[n] = "wait_event" /\ n \in Node
    BY <1>3, <2>1 DEF First, Listeners, Listens, Queued, ToSet
  <2>3. Runnable(n) /\ Parent[n] \in Node /\ Parent[n] # NoNode
    BY <2>2, HasParent, TreeAssumption DEF ActionsLast, Loadable
  <2>4. ToSet(m_fronts') \subseteq ToSet(m_fronts) \cup {Parent[n]}
    BY <1>3, <2>1, <2>3, ReplacedMembers
  <2>5. m_state' = [m_state EXCEPT ![n] = "dead", ![Parent[n]] = "awaken"]
    BY <2>1
  <2> HIDE DEF n
  <2>6. Gets(Parent[n])
    BY <1>3, <2>2, <2>3, <2>5, RunnableNeighbours DEF Gets, Stirs
  <2>7. \A x \in Node : m_state'[x] \in {m_state[x], "init", "dead"} \/ Gets(x)
    BY <1>3, <2>2, <2>3, <2>5, <2>6
  <2>8. UNCHANGED m_pre_fronts
    BY <1>4 DEF HandleEvent
  <2> QED
    BY <2>4, <2>6, <2>7, <2>8 DEF Spread, Queued
<1>5. CASE HandleDead /\ ~Crash
  <2>1. PICK k \in DOMAIN m_fronts :
          /\ NotifyStop(m_state, next_child_idx, SubSeq(m_fronts, 1, k - 1))
          /\ m_fronts' = SubSeq(m_fronts, k + 1, Len(m_fronts))
    BY <1>5 DEF HandleDead, StopFaults
  <2>2. k \in 1..Len(m_fronts) /\ Len(m_fronts) \in Nat
    BY <1>3
  <2>3. ToSet(SubSeq(m_fronts, k + 1, Len(m_fronts))) \subseteq Queued
    <3>1. /\ SubSeq(m_fronts, k + 1, Len(m_fronts)) =
               [i \in 1..(Len(m_fronts) - k) |-> m_fronts[k + i]]
          /\ \A i \in 1..(Len(m_fronts) - k) : k + i \in 1..Len(m_fronts)
      BY <1>3, <2>2
    <3>2. \A i \in 1..Len(m_fronts) : m_fronts[i] \in Queued
      BY <1>3 DEF Queued, ToSet
    <3> QED
      BY <3>1, <3>2 DEF ToSet
  <2>4. /\ m_state' = Kill(m_state, Interrupted(m_state, next_child_idx, ToSet(SubSeq(m_fronts, 1, k - 1))))
        /\ m_pre_fronts' = <<>>
    BY <2>1 DEF NotifyStop
  <2>5. Queued' \subseteq Queued
    <3>1. ToSet(<<>>) = {}
      BY DEF ToSet
    <3> QED
      BY <2>1, <2>3, <2>4, <3>1 DEF Queued
  <2> QED
    BY <2>4, <2>5 DEF Spread, Kill
<1> QED
  BY <1>1, <1>2, <1>4, <1>5

\* and the steps of poll around a pass.
LEMMA PollSpreads ==
  ASSUME Typed, InTree,
         \/ PollDisabled \/ PollRound \/ BeginPass
         \/ PollAgain \/ PollDone \/ PollRestart \/ PollRestartFaults
  PROVE  Spread
<1> USE DEF queueVars, nodeVars, pollVars, flagVars
<1>1. CASE PollRestartFaults
  BY <1>1, CrashSpreads DEF PollRestartFaults
<1>2. CASE PollDisabled \/ PollRound \/ PollAgain \/ PollDone
  BY <1>2 DEF PollDisabled, PollRound, PollAgain, PollDone, Spread, Queued
<1>3. CASE BeginPass
  <2>1. ToSet(<<>>) = {}
    BY DEF ToSet
  <2> QED
    BY <1>3, <2>1 DEF BeginPass, Spread, Queued
<1>4. CASE PollRestart
  <2>1. cur_root_node \in Node /\ cur_root_node \in Roots /\ Kind[cur_root_node] # "action"
    BY <1>4, TreeAssumption DEF PollRestart, Typed, TypeOK, Rooted
  <2>2. ToSet(m_fronts') = ToSet(m_fronts) \cup {cur_root_node}
    BY <1>4, <2>1, AddToFrontMembers DEF PollRestart, Typed, TypeOK
  <2>3. Gets(cur_root_node)
    BY <2>1, RunnableNeighbours DEF Gets, Stirs
  <2> QED
    BY <1>4, <2>2, <2>3 DEF PollRestart, Spread, Queued
<1> QED
  BY <1>1, <1>2, <1>3, <1>4

\* Whatever an agent does, control stays above and outside of what is below an
\* action, and an action that blocks has begun to wait, and has blocked since.
LEMMA NextSpreads ==
  ASSUME Typed, Typed', InTree, ActionsLast, [Next]_vars
  PROVE  /\ ActionsLast'
         /\ intact' => \A x \in Queued' :
              Kind[x] = "action" /\ m_state'[x] = "blocking" =>
                EnterPending(x) \/ (x \in Queued /\ m_state[x] = "blocking")
<1>1. CASE UNCHANGED vars
  BY <1>1 DEF vars, queueVars, nodeVars, Spread, Queued, ActionsLast, Runnable
<1>2. CASE Next
  <2>1. Spread
    BY <1>2, ApplicationSpreads, EventsSpreads, PollSpreads, EnterSpreads, HaltSpreads,
       RevisitSpreads DEF Next, Polling, Visit
  <2>2. \A n \in Node : n \in Queued' \/ m_state'[n] \notin {"init", "dead"} => Runnable(n)
    BY <2>1 DEF Spread, Gets, ActionsLast
  <2>3. ActionsLast'
    BY <2>2 DEF ActionsLast, Runnable
  <2>4. ASSUME intact', NEW x \in Queued', Kind[x] = "action", m_state'[x] = "blocking",
               ~EnterPending(x)
        PROVE  x \in Queued /\ m_state[x] = "blocking"
    <3>1. ~Gets(x)
      BY <2>4 DEF Gets, Stirs
    <3>2. x \in Node
      BY SortedNext DEF Ordered
    <3> QED
      BY <2>1, <2>4, <3>1, <3>2 DEF Spread
  <2> QED
    BY <2>3, <2>4
<1> QED
  BY <1>1, <1>2

----------------------------------------------------------------------------
(* Steps of Agent, with what they do to timers and blackboard.             *)

\* What is true of the agent alone.
Agreed == Typed /\ InTree /\ ActionsLast

\* Every step of the agent keeps it.
LEMMA NextAgreed == Agreed /\ [Next]_vars => Agreed'
<1> SUFFICES ASSUME Agreed, [Next]_vars PROVE Agreed'
  OBVIOUS
<1>1. Typed'
  BY ApplicationTyped, EventsTyped, PollTyped, EnterTyped, HaltTyped, RevisitTyped, StutterTyped
  DEF Agreed, Next, Polling, Visit
<1> QED
  BY <1>1, NextInTree, NextSpreads DEF Agreed

\* What the agent does but load another tree.
Stays ==
  \/ \E e \in Event : DispatchEvent(e)
  \/ PollCall \/ Enable \/ Disable \/ LoadSame
  \/ \E n \in Node, r \in BOOLEAN : Complete(n, r)
  \/ \E n \in Node : CompleteDead(n)
  \/ Polling

\* Only load_btree changes the root, and makes the tree intact.
LEMMA RootStays ==
  ASSUME Stays
  PROVE  Next /\ UNCHANGED cur_root_node /\ (intact' => intact)
<1> USE DEF NotifyStop, StopFaults, Crash
<1>0. Next
  BY DEF Stays, Next, Application
<1>1. CASE \/ \E e \in Event : DispatchEvent(e)
           \/ PollCall \/ Enable \/ Disable \/ LoadSame
           \/ \E n \in Node, r \in BOOLEAN : Complete(n, r)
           \/ \E n \in Node : CompleteDead(n)
  BY <1>0, <1>1 DEF DispatchEvent, PollCall, Enable, Disable, LoadSame, Complete, CompleteDead
<1>2. ASSUME NEW n \in Node, Visit(n) PROVE UNCHANGED cur_root_node /\ (intact' => intact)
  <2>1. CASE Requeue(n) \/ Drop(n)
    BY <2>1 DEF Requeue, Drop
  <2>2. CASE Step(n)
    BY <2>2 DEF Step
  <2>3. CASE Crash
    BY <2>3
  <2>4. CASE EnterUnknown(n) \/ EnterReset(n) \/ EnterHalts(n) \/ EnterFaults(n) \/ AdvanceHalts(n)
    BY <2>4 DEF EnterUnknown, EnterReset, EnterHalts, EnterFaults, AdvanceHalts
  <2>5. CASE \/ EnterFirst(n) \/ EnterShuffled(n) \/ EnterWeighted(n) \/ EnterParallel(n)
             \/ EnterAction(n) \/ EnterPending(n) \/ EnterWaitEvent(n)
    BY <2>2, <2>5 DEF EnterFirst, EnterShuffled, EnterWeighted, EnterParallel, EnterAction,
       EnterPending, EnterWaitEvent
  <2>6. CASE Advance(n) \/ Return(n) \/ RevisitRoot(n) \/ RevisitParallel(n)
    <3>1. Step(n) \/ Crash
      BY <2>6 DEF Advance, Return, RevisitRoot, RevisitParallel
    <3> QED
      BY <2>2, <2>3, <3>1
  <2> QED
    BY <1>2, <2>1, <2>4, <2>5, <2>6 DEF Visit
<1>3. CASE Polling
  <2>1. CASE HandleDead
    BY <1>0, <2>1 DEF HandleDead
  <2> QED
    BY <1>0, <1>2, <1>3, <2>1 DEF Polling, PollDisabled, PollRound, IgnoreEvent, HandleEvent,
       BeginPass, PollAgain, PollDone, PollRestart, PollRestartFaults
<1> QED
  BY <1>0, <1>1, <1>3 DEF Stays

\* leave and interrupt take entries out and closures away.
LEMMA ReleasesTyped ==
  ASSUME TimersTyped, NEW timers, Listing(timers), DOMAIN timers \subseteq DOMAIN m_active_timers,
         Releases(timers), UNCHANGED <<m_next_timer_seq, document>>,
         IsABag(registered'), DOMAIN registered' \subseteq DOMAIN registered,
         \A n \in Node : InLoaded(n) => InLoaded(n)'
  PROVE  TimersTyped'
<1> DEFINE dying == {n \in Node : Dies(n)}
<1>1. m_active_timers' = Unlisted(timers, Numbers(dying))
  BY DEF Releases
<1> HIDE DEF dying
<1>2. /\ Listing(m_active_timers') /\ DOMAIN m_active_timers' \subseteq DOMAIN m_active_timers
  BY <1>1, UnlistedLess DEF Listing
<1>3. m_closure' = [n \in Node |-> IF Dies(n) THEN 0 ELSE m_closure[n]]
  BY DEF Releases
<1>4. m_closure' \in [Node -> 0..MaxSeq] /\ \A n \in Node : m_closure'[n] \in {0, m_closure[n]}
  BY <1>3, RuntimeAssumption DEF TimersTyped
<1>5. m_next_timer_seq \in Nat
  BY DEF TimersTyped
<1>6. \A e \in DOMAIN m_active_timers' :
       /\ e \in [seq : 1..m_next_timer_seq', node : Node \cup {Gone}]
       /\ e.node # Gone => Waiter(e.node)'
  BY <1>2 DEF TimersTyped, Waiter, Runnable, InLoaded
<1> QED
  BY <1>2, <1>4, <1>5, <1>6 DEF TimersTyped, Listing

\* No other node loses the entry of its closure.
LEMMA ReleasesHeld ==
  ASSUME Typed, TimersTyped, Held, intact' => intact,
         NEW timers, Listing(timers), DOMAIN timers \subseteq DOMAIN m_active_timers,
         Releases(timers), UNCHANGED m_next_timer_seq,
         intact' => \A n \in Waits : n \in Queued' /\ m_state'[n] = "blocking" =>
           /\ n \in Queued /\ m_state[n] = "blocking"
           /\ Entries(m_active_timers, m_closure[n]) \subseteq DOMAIN timers
  PROVE  Held'
<1> SUFFICES ASSUME intact' PROVE Held'
  BY DEF Held
<1> DEFINE dying == {n \in Node : Dies(n)}
<1>1. m_active_timers' = Unlisted(timers, Numbers(dying))
  BY DEF Releases
<1>2. /\ DOMAIN m_active_timers' \subseteq DOMAIN m_active_timers
      /\ \A e \in DOMAIN timers : e.seq \notin Numbers(dying) => e \in DOMAIN m_active_timers'
  BY <1>1, UnlistedLess DEF Listing
<1>3. \A n \in Node : m_closure'[n] = IF Dies(n) THEN 0 ELSE m_closure[n]
  BY DEF Releases
<1>4. \A s : Entries(m_active_timers', s) \subseteq Entries(m_active_timers, s)
  BY <1>2 DEF Entries, BagToSet
<1>5. \A n, m \in Node : m_closure[n] # 0 /\ m_closure[n] = m_closure[m] => n = m
  BY DEF Held
<1>6. ASSUME NEW n \in Waits \cap Queued', m_state'[n] = "blocking"
      PROVE  m_closure'[n] # 0 /\ Entries(m_active_timers', m_closure'[n]) # {}
  <2>1. n \in Node /\ ~Dies(n) /\ n \in Waits \cap Queued /\ m_state[n] = "blocking"
    BY <1>6, RuntimeAssumption DEF Dies
  <2>2. m_closure'[n] = m_closure[n] /\ m_closure[n] # 0
        /\ Entries(m_active_timers, m_closure[n]) # {}
    BY <1>3, <2>1 DEF Held
  <2>3. PICK e \in Entries(m_active_timers, m_closure[n]) : e \in DOMAIN timers
    BY <1>6, <2>2
  <2>4. e.seq = m_closure[n] /\ m_closure[n] \notin Numbers(dying)
    BY <1>5, <2>1, <2>2, <2>3 DEF Entries, Numbers
  <2>5. e \in DOMAIN m_active_timers'
    BY <1>2, <2>3, <2>4
  <2> QED
    BY <2>2, <2>4, <2>5 DEF Entries, BagToSet
<1> HIDE DEF dying
<1>7. \A n \in Node : m_closure'[n] <= m_next_timer_seq'
  BY <1>3 DEF Held, TimersTyped
<1>8. \A n, m \in Node : m_closure'[n] # 0 /\ m_closure'[n] = m_closure'[m] => n = m
  BY <1>3, <1>5
<1>9. \A n \in Node : m_closure'[n] # 0 =>
         \A e \in Entries(m_active_timers', m_closure'[n]) : e.node = n
  BY <1>3, <1>4 DEF Held
<1> QED
  BY <1>6, <1>7, <1>8, <1>9 DEF Held

\* The invariant of a running agent.
Running == Agreed /\ TimersTyped /\ BlackboardTyped /\ Held

\* A step of the agent that starts no wait.
LEMMA QuietRunning ==
  ASSUME Running, Stays, Releases(m_active_timers),
         UNCHANGED <<m_next_timer_seq, registered, document>>, BlackboardTyped',
         \A x \in Waits : ~EnterPending(x)
  PROVE  Running'
<1>1. Agreed' /\ Typed' /\ Next
  BY RootStays, NextAgreed DEF Running, Agreed
<1>2. UNCHANGED cur_root_node /\ (intact' => intact)
  BY RootStays
<1>3. TimersTyped'
  BY <1>2, ReleasesTyped DEF Running, TimersTyped, Listing, InLoaded
<1>4. \A s : Entries(m_active_timers, s) \subseteq DOMAIN m_active_timers
  BY DEF Entries, BagToSet
<1>5. intact' => \A n \in Waits : n \in Queued' /\ m_state'[n] = "blocking" =>
        n \in Queued /\ m_state[n] = "blocking"
  BY <1>1, NextSpreads, RuntimeAssumption DEF Running, Agreed
<1>6. Held'
  BY <1>2, <1>4, <1>5, ReleasesHeld DEF Running, Agreed, TimersTyped, Listing
<1> QED
  BY <1>1, <1>3, <1>6 DEF Running

\* A wait begins in a pass, at a node that is entered.
LEMMA WaitsBegin ==
  ASSUME NEW x \in Waits, EnterPending(x)
  PROVE  pc = "fronts" /\ x \in Node /\ Visiting(x) /\ Fresh(x) /\ Kind[x] = "action"
         /\ x \notin DOMAIN Request
  BY RuntimeAssumption DEF EnterPending, Fresh, Visiting

\* Loading a tree when none is loaded.
LEMMA LoadFirstRunning ==
  ASSUME Running, NEW r \in Roots, LoadFirst(r), Quietly, UNCHANGED document
  PROVE  Running'
<1>1. Agreed' /\ Next
  BY NextAgreed DEF Running, Next, Application
<1>2. \A n \in Node : ~InLoaded(n)
  BY InLineage, TreeAssumption DEF LoadFirst, InLoaded, Loadable
<1>3. TimersTyped'
  <2>1. /\ TimersTyped /\ Listing(m_active_timers) /\ Releases(m_active_timers)
        /\ UNCHANGED <<m_next_timer_seq, document>>
        /\ IsABag(registered') /\ DOMAIN registered' \subseteq DOMAIN registered
    BY DEF Quietly, Running, TimersTyped, Listing
  <2> QED
    BY <1>2, <2>1, ReleasesTyped
<1>4. \A n \in Node : m_closure'[n] = 0
  BY <1>2 DEF Quietly, Releases, Running, TimersTyped
<1>5. \A n \in Node : m_state'[n] = "init"
  BY <1>2 DEF Running, Agreed, InTree, InLoaded, LoadFirst, nodeVars
<1>6. Held'
  BY <1>3, <1>4, <1>5, RuntimeAssumption DEF Held, TimersTyped
<1> QED
  BY <1>1, <1>3, <1>6 DEF Running, Quietly, BlackboardTyped

\* Calls and visits that start no wait, and those that reset the agent.
LEMMA PlainRunning ==
  ASSUME Running, Plain \/ Reset, UNCHANGED document
  PROVE  Running'
<1>1. CASE \E r \in Roots : LoadFirst(r) /\ Quietly
  BY <1>1, LoadFirstRunning
<1>2. CASE ~\E r \in Roots : LoadFirst(r) /\ Quietly
  <2>1. Stays /\ (Quietly \/ Cleared)
    BY <1>2 DEF Plain, Reset, Stays, Polling, Visit
  <2>2. BlackboardTyped' /\ Releases(m_active_timers) /\ UNCHANGED <<m_next_timer_seq, registered>>
    BY <2>1 DEF Running, Quietly, Cleared, BlackboardTyped
  <2>3. pc = "idle" \/ (\E n \in Node : EnterReset(n)) \/ (\A x \in Waits : ~Fresh(x))
    BY <1>2, RuntimeAssumption DEF Plain, Reset, PollCall, DispatchEvent, Enable, Disable, LoadSame,
       Complete, CompleteDead
  <2>4. \A x \in Waits : ~EnterPending(x)
    BY <2>3, WaitsBegin DEF EnterReset, Fresh, Visiting
  <2> QED
    BY <2>1, <2>2, <2>4, QuietRunning
<1> QED
  BY <1>1, <1>2

\* Actions on the blackboard.
LEMMA PerformRunning ==
  ASSUME Running, NEW n \in Node, Perform(n) \/ PerformMissing(n), UNCHANGED document
  PROVE  Running'
<1>1. Stays
  BY DEF Perform, PerformMissing, Stays, Polling, Visit
<1>2. BlackboardTyped'
  <2>1. CASE PerformMissing(n)
    BY <2>1 DEF PerformMissing, Quietly, Running, BlackboardTyped
  <2>2. CASE Perform(n)
    <3> DEFINE r == Resolved(Request[n])
    <3>1. Fits(Request[n].value) /\ Request[n].count \in Nat
          /\ "value" \in DOMAIN Request[n] /\ BlackboardFits(m_blackboard)
      BY <2>2, RuntimeAssumption DEF Perform, Running, BlackboardTyped, BlackboardFits
    <3>2. Fits(BlackboardGet(m_blackboard, Request[n].from))
      BY <3>1, KeysFit
    <3>3. \A v, q : "value" \in DOMAIN q => [q EXCEPT !.value = v].value = v
                                            /\ [q EXCEPT !.value = v].count = q.count
      OBVIOUS
    <3>4. Fits(r.value) /\ r.count \in Nat
      BY <3>1, <3>2, <3>3 DEF Resolved
    <3> HIDE DEF r
    <3>5. PICK o \in Performed(r, m_blackboard) : m_blackboard' = o.blackboard
      BY <2>2 DEF Perform, r
    <3>6. BlackboardFits(o.blackboard)
      BY <3>1, <3>4, <3>5, PerformedFits
    <3> QED
      BY <3>5, <3>6 DEF BlackboardTyped, BlackboardFits
  <2> QED
    BY <2>1, <2>2
<1>3. Releases(m_active_timers) /\ UNCHANGED <<m_next_timer_seq, registered>>
  BY DEF Perform, PerformMissing, Quietly
<1>4. \A x \in Waits : ~EnterPending(x)
  <2>1. n \in DOMAIN Request /\ Visiting(n)
    BY DEF Perform, PerformMissing, EnterAction, EnterHalts, Fresh
  <2> QED
    BY <2>1, WaitsBegin DEF Visiting
<1> QED
  BY <1>1, <1>2, <1>3, <1>4, QuietRunning

\* Loading another tree deletes every node that anything is known of.
LEMMA ReplaceRunning ==
  ASSUME Running, Replace, UNCHANGED document
  PROVE  Running'
<1> DEFINE old == Below(cur_root_node)
           left == Unlisted(m_active_timers, Numbers(old))
<1>1. PICK r \in Roots \cup {NoNode} : LoadOther(r)
  BY DEF Replace
<1>2. Agreed'
  BY <1>1, NextAgreed DEF Running, Next, Application
<1>3. /\ m_blackboard' = <<>> /\ UNCHANGED <<m_next_timer_seq, registered>>
      /\ pc' = "crashed" => UNCHANGED <<m_active_timers, m_closure>>
      /\ pc' # "crashed" => m_active_timers' = Deleted(left, old) /\ m_closure' = Without(old)
  BY DEF Replace
<1>4. BlackboardTyped'
  BY <1>3 DEF BlackboardTyped
<1>5. CASE pc' = "crashed"
  <2>1. UNCHANGED <<cur_root_node, m_active_timers, m_closure>> /\ ~intact'
    BY <1>1, <1>3, <1>5 DEF LoadOther, Crash, pollVars
  <2>2. TimersTyped'
    BY <1>3, <2>1 DEF Running, TimersTyped, Waiter, InLoaded, Runnable
  <2> QED
    BY <1>2, <1>4, <2>1, <2>2 DEF Running, Held
<1>6. CASE pc' # "crashed"
  <2>1. \A n : InLoaded(n) => n \in old
    BY InBelow DEF InLoaded
  <2>2. Listing(left) /\ DOMAIN left \subseteq DOMAIN m_active_timers
    BY UnlistedLess DEF Running, TimersTyped, Listing
  <2> HIDE DEF left, old
  <2>3. Listing(m_active_timers') /\ DOMAIN m_active_timers' = {Dangling(e, old) : e \in DOMAIN left}
    BY <1>3, <1>6, <2>2, DeletedListing
  <2>4. ASSUME NEW f \in DOMAIN m_active_timers'
        PROVE  f \in [seq : 1..m_next_timer_seq, node : Node \cup {Gone}] /\ f.node = Gone
    <3>1. PICK e \in DOMAIN left : f = Dangling(e, old)
      BY <2>3, <2>4
    <3>2. /\ e \in [seq : 1..m_next_timer_seq, node : Node \cup {Gone}]
          /\ e.node # Gone => e.node \in old
      BY <2>1, <2>2 DEF Running, TimersTyped, Waiter
    <3> QED
      BY <3>1, <3>2 DEF Dangling, Entry
  <2>5. \A n \in Node : m_closure'[n] = 0
    BY <1>3, <1>6, <2>1 DEF Without, Running, TimersTyped
  <2>6. m_closure' \in [Node -> 0..MaxSeq]
    BY <1>3, <1>6, RuntimeAssumption DEF Without, Running, TimersTyped
  <2>7. TimersTyped'
    BY <1>3, <2>3, <2>4, <2>5, <2>6 DEF Running, TimersTyped, Listing
  <2>8. \A n \in Node : m_state'[n] = "init"
    BY <1>1, <1>6, InBelow DEF LoadOther, Crash, Running, Agreed, InTree
  <2>9. Held'
    BY <2>5, <2>7, <2>8, RuntimeAssumption DEF Held, TimersTyped
  <2> QED
    BY <1>2, <1>4, <2>7, <2>9 DEF Running
<1> QED
  BY <1>5, <1>6

\* A wait that begins gets the next number, which no other closure and no entry
\* has.
LEMMA WaitRunning ==
  ASSUME Running, NEW n \in Node, WaitForSeconds(n), UNCHANGED document
  PROVE  Running'
<1> DEFINE s == m_next_timer_seq + 1
           e == Entry(s, n)
           longer == m_active_timers (+) SetToBag({e})
           left == Unlisted(longer, Numbers({n}))
<1>1. /\ n \in Waits /\ s <= MaxSeq /\ EnterPending(n)
      /\ m_next_timer_seq' = s
      /\ m_closure' = [m_closure EXCEPT ![n] = s]
      /\ m_active_timers' = left (+) SetToBag({e})
      /\ registered' = registered (+) SetToBag({s})
      /\ UNCHANGED m_blackboard
  BY DEF WaitForSeconds
<1>2. Stays
  BY <1>1 DEF Stays, Polling, Visit
<1>3. Agreed' /\ Typed' /\ UNCHANGED cur_root_node /\ (intact' => intact) /\ Next
  BY <1>2, RootStays, NextAgreed DEF Running, Agreed
<1>4. BlackboardTyped'
  BY <1>1 DEF Running, BlackboardTyped
<1>5. /\ m_next_timer_seq \in Nat /\ s \in 1..MaxSeq
      /\ \A m \in Node : m_closure[m] \in 0..MaxSeq
      /\ m_closure \in [Node -> 0..MaxSeq]
  BY <1>1, RuntimeAssumption DEF Running, TimersTyped
<1>6. /\ Listing(m_active_timers)
      /\ \A f \in DOMAIN m_active_timers : f.seq \in 1..m_next_timer_seq
  BY DEF Running, TimersTyped, Listing
<1>7. /\ Listing(longer) /\ DOMAIN longer = DOMAIN m_active_timers \cup {e}
  BY <1>6, ListedToo DEF Listing
<1> HIDE DEF longer
<1>8. /\ Listing(left) /\ DOMAIN left \subseteq DOMAIN m_active_timers \cup {e}
      /\ \A f \in DOMAIN m_active_timers : f.seq \notin Numbers({n}) => f \in DOMAIN left
  BY <1>7, UnlistedLess DEF Listing
<1> HIDE DEF left
<1>9. /\ Listing(m_active_timers')
      /\ DOMAIN m_active_timers' = DOMAIN left \cup {e}
  BY <1>1, <1>8, ListedToo DEF Listing
<1>10. n \in Queued /\ InLoaded(n) /\ Waiter(n)
  <2>1. n \in Queued /\ Kind[n] = "action"
    BY <1>1, WaitsBegin, Visited DEF Running, Agreed
  <2>2. InLoaded(n) /\ Runnable(n)
    BY <2>1, QueuedLoaded DEF Running, Agreed, ActionsLast
  <2>3. Parent[n] # NoNode
    BY <2>1, TreeAssumption DEF Rooted
  <2> QED
    BY <2>1, <2>2, <2>3 DEF Waiter
<1>11. e = [seq |-> s, node |-> n] /\ e.seq = s /\ e.node = n
  BY DEF Entry
<1>12. \A x : Waiter(x) => Waiter(x)'
  BY <1>3 DEF Waiter, InLoaded, Runnable
<1> HIDE DEF e
<1>13. ASSUME NEW f \in DOMAIN m_active_timers'
       PROVE  /\ f \in [seq : 1..m_next_timer_seq', node : Node \cup {Gone}]
              /\ f.node # Gone => Waiter(f.node)'
  <2>1. CASE f = e
    BY <1>1, <1>5, <1>10, <1>11, <1>12, <2>1
  <2>2. CASE f \in DOMAIN m_active_timers
    <3>1. /\ f \in [seq : 1..m_next_timer_seq, node : Node \cup {Gone}]
          /\ f.node # Gone => Waiter(f.node)
      BY <2>2 DEF Running, TimersTyped
    <3> QED
      BY <1>1, <1>5, <1>12, <3>1
  <2> QED
    BY <1>8, <1>9, <1>13, <2>1, <2>2
<1>14. IsABag(registered') /\ DOMAIN registered' \subseteq 1..MaxSeq
  <2>1. IsABag(registered) /\ DOMAIN registered \subseteq 1..MaxSeq
    BY DEF Running, TimersTyped
  <2> HIDE DEF s
  <2>2. /\ IsABag(registered (+) SetToBag({s}))
        /\ DOMAIN (registered (+) SetToBag({s})) = DOMAIN registered \cup {s}
    BY <2>1, ListedToo
  <2> QED
    BY <1>1, <1>5, <2>1, <2>2
<1>15. \A m \in Node : m_closure'[m] = IF m = n THEN s ELSE m_closure[m]
  BY <1>1, <1>5
<1>16. TimersTyped'
  <2>1. m_closure' \in [Node -> 0..MaxSeq] /\ m_next_timer_seq' \in 0..MaxSeq
    BY <1>1, <1>5
  <2>2. \A m \in Node : m_closure'[m] # 0 => InLoaded(m)'
    BY <1>3, <1>10, <1>15 DEF Running, TimersTyped, InLoaded
  <2>3. document'.tree = NoNode => \A m \in Node : m_closure'[m] <= m_next_timer_seq'
    BY <1>1, <1>5, <1>15 DEF Running, TimersTyped
  <2> QED
    BY <1>9, <1>13, <1>14, <2>1, <2>2, <2>3 DEF TimersTyped, Listing
<1>17. ASSUME intact' PROVE Held'
  <2>1. /\ \A m \in Node : m_closure[m] <= m_next_timer_seq
        /\ \A m, x \in Node : m_closure[m] # 0 /\ m_closure[m] = m_closure[x] => m = x
    BY <1>3, <1>17 DEF Running, Held
  <2>2. \A m \in Node : m_closure'[m] <= m_next_timer_seq'
    BY <1>1, <1>5, <1>15, <2>1
  <2>3. \A m, x \in Node : m_closure'[m] # 0 /\ m_closure'[m] = m_closure'[x] => m = x
    BY <1>5, <1>15, <2>1
  <2>4. ASSUME NEW m \in Node, m_closure'[m] # 0, NEW f \in Entries(m_active_timers', m_closure'[m])
        PROVE  f.node = m
    <3>1. f \in DOMAIN m_active_timers \cup {e} /\ f.seq = m_closure'[m]
      BY <1>8, <1>9, <2>4 DEF Entries, BagToSet
    <3>2. CASE m = n
      BY <1>5, <1>6, <1>11, <1>15, <3>1, <3>2
    <3>3. CASE m # n
      <4>1. m_closure'[m] = m_closure[m] /\ m_closure[m] # s
        BY <1>5, <1>15, <2>1, <3>3
      <4>2. f \in Entries(m_active_timers, m_closure[m])
        BY <1>11, <3>1, <4>1 DEF Entries, BagToSet
      <4> QED
        BY <1>3, <1>17, <2>4, <4>1, <4>2 DEF Running, Held
    <3> QED
      BY <3>2, <3>3
  <2>5. ASSUME NEW m \in Waits \cap Queued', m_state'[m] = "blocking"
        PROVE  m_closure'[m] # 0 /\ Entries(m_active_timers', m_closure'[m]) # {}
    <3>1. CASE m = n
      BY <1>5, <1>9, <1>11, <1>15, <3>1, RuntimeAssumption DEF Entries, BagToSet
    <3>2. CASE m # n
      <4>1. m \in Node /\ Kind[m] = "action"
        BY <2>5, RuntimeAssumption
      <4>2. ~EnterPending(m)
        BY <1>1, <2>5, <3>2, WaitsBegin DEF Visiting
      <4>3. m \in Queued /\ m_state[m] = "blocking"
        BY <1>3, <1>17, <2>5, <4>1, <4>2, NextSpreads DEF Running, Agreed
      <4>4. m_closure[m] # 0 /\ Entries(m_active_timers, m_closure[m]) # {}
        BY <1>3, <1>17, <2>5, <4>3 DEF Running, Held
      <4>5. PICK f \in DOMAIN m_active_timers : f.seq = m_closure[m]
        BY <4>4 DEF Entries, BagToSet
      <4>6. f \in DOMAIN m_active_timers'
        BY <1>8, <1>9, <2>1, <3>2, <4>1, <4>4, <4>5 DEF Numbers
      <4> QED
        BY <1>15, <3>2, <4>1, <4>4, <4>5, <4>6 DEF Entries, BagToSet
    <3> QED
      BY <3>1, <3>2
  <2> QED
    BY <2>2, <2>3, <2>4, <2>5 DEF Held
<1>18. Held'
  BY <1>17 DEF Held
<1> QED
  BY <1>3, <1>4, <1>16, <1>18 DEF Running

\* Callbacks.  One that finds its entry takes it out.
LEMMA RingTakes ==
  ASSUME Running, NEW e \in DOMAIN m_active_timers, Rings(e.seq)
  PROVE  /\ Listing(m_active_timers (-) SetToBag({e}))
         /\ DOMAIN (m_active_timers (-) SetToBag({e})) \subseteq DOMAIN m_active_timers
         /\ \A f \in DOMAIN m_active_timers : f # e =>
              f \in DOMAIN (m_active_timers (-) SetToBag({e}))
         /\ UNCHANGED m_next_timer_seq
         /\ IsABag(registered') /\ DOMAIN registered' \subseteq DOMAIN registered
         /\ BlackboardTyped'
<1>1. /\ Listing(m_active_timers (-) SetToBag({e}))
      /\ DOMAIN (m_active_timers (-) SetToBag({e})) \subseteq DOMAIN m_active_timers
      /\ \A f \in DOMAIN m_active_timers : f # e =>
           f \in DOMAIN (m_active_timers (-) SetToBag({e}))
  BY ListedStill DEF Running, TimersTyped, Listing
<1>2. UNCHANGED m_next_timer_seq /\ BlackboardTyped'
  BY DEF Rings, Running, BlackboardTyped
<1>3. IsABag(registered') /\ DOMAIN registered' \subseteq DOMAIN registered
  BY ListedStill DEF Rings, Running, TimersTyped
<1> QED
  BY <1>1, <1>2, <1>3

\* It ends the wait of a node that waits, or wakes the parent of one that does
\* not, which is the end of the intact tree.
LEMMA RingAliveRunning ==
  ASSUME Running, NEW e \in DOMAIN m_active_timers, RingAlive(e), UNCHANGED document
  PROVE  Running'
<1> DEFINE n == e.node
           timers == m_active_timers (-) SetToBag({e})
<1>1. /\ Rings(e.seq) /\ n # Gone
      /\ SetResult(n, TRUE, m_fronts)
      /\ Poll
      /\ intact' = (intact /\ m_state[n] = "blocking")
      /\ Releases(timers)
      /\ UNCHANGED <<cur_root_node, m_pre_fronts, m_events, m_enabled, reset_flag,
                     next_child_idx, m_shuffle, visited, poll_result, any_ready>>
  BY DEF RingAlive
<1>2. InLoaded(n) /\ Runnable(n) /\ Parent[n] # NoNode /\ n \in Node
  BY <1>1 DEF Running, TimersTyped, Waiter, InLoaded
<1>3. Parent[n] \in Node
  BY <1>2, ParentHasChild
<1> HIDE DEF n, timers
<1>4. ~(Kind[n] = "root" /\ Parent[n] = NoNode)
  BY <1>2
<1>5. m_fronts \in Seq(Node) /\ TRUE \in BOOLEAN /\ Typed /\ pc = "idle"
  BY <1>1 DEF Running, Agreed, Typed, TypeOK, Rings
<1>6. result' \in [Node -> BOOLEAN] /\ m_state' \in [Node -> States] /\ Awakened' /\ m_fronts' \in Seq(Node)
  BY <1>1, <1>2, <1>4, <1>5, SetResultType
<1>7. Typed'
  BY <1>1, <1>5, <1>6 DEF Typed, TypeOK, Poll
<1>8. /\ m_fronts' = AddToFront(m_fronts, Parent[n])
      /\ m_state' = [m_state EXCEPT ![n] = "dead", ![Parent[n]] = "awaken"]
  BY <1>1 DEF SetResult
<1>9. m_state \in [Node -> States] /\ Queued' = Queued \cup {Parent[n]}
  <2>1. ToSet(m_fronts') = ToSet(m_fronts) \cup {Parent[n]}
    BY <1>3, <1>5, <1>8, AddToFrontMembers
  <2> QED
    BY <1>1, <1>5, <2>1 DEF Queued, Typed, TypeOK
<1>10. \A x \in Node : m_state'[x] = m_state[x] \/ (x = n /\ m_state'[x] = "dead")
                       \/ (x = Parent[n] /\ m_state'[x] = "awaken")
  BY <1>2, <1>3, <1>8, <1>9
<1>11. InTree'
  <2>1. InLoaded(Parent[n])
    BY <1>2, <1>4, <1>5, LoadedNeighbours
  <2>2. m_pre_fronts' = <<>>
    BY <1>1, <1>5 DEF Running, Agreed, InTree
  <2> QED
    BY <1>1, <1>2, <1>5, <1>7, <1>9, <1>10, <2>1, <2>2, InTreeStays DEF Running, Agreed
<1>12. ActionsLast'
  <2>1. Runnable(Parent[n])
    BY <1>2, RunnableNeighbours
  <2> QED
    BY <1>9, <1>10, <2>1 DEF Running, Agreed, ActionsLast, Runnable
<1>13. /\ Listing(timers) /\ DOMAIN timers \subseteq DOMAIN m_active_timers
       /\ \A f \in DOMAIN m_active_timers : f # e => f \in DOMAIN timers
       /\ UNCHANGED m_next_timer_seq
       /\ IsABag(registered') /\ DOMAIN registered' \subseteq DOMAIN registered
       /\ BlackboardTyped'
  BY <1>1, RingTakes DEF timers
<1>14. TimersTyped'
  BY <1>1, <1>13, ReleasesTyped DEF Running, InLoaded
<1>15. Held'
  <2>1. ASSUME intact', NEW x \in Waits, x \in Queued', m_state'[x] = "blocking"
        PROVE  /\ x \in Queued /\ m_state[x] = "blocking"
               /\ Entries(m_active_timers, m_closure[x]) \subseteq DOMAIN timers
    <3>1. x \in Node /\ x # n /\ x # Parent[n] /\ m_state[x] = "blocking" /\ x \in Queued
      BY <1>2, <1>3, <1>8, <1>9, <2>1, RuntimeAssumption
    <3>2. m_closure[x] # 0 /\ \A f \in Entries(m_active_timers, m_closure[x]) : f.node = x
      BY <1>1, <2>1, <3>1 DEF Running, Held
    <3> QED
      BY <1>13, <3>1, <3>2 DEF Entries, BagToSet, n
  <2> QED
    BY <1>1, <1>5, <1>13, <2>1, ReleasesHeld DEF Running
<1> QED
  BY <1>7, <1>11, <1>12, <1>13, <1>14, <1>15 DEF Running, Agreed

\* It stops the agent if its node is dead.
LEMMA RingDeadRunning ==
  ASSUME Running, NEW e \in DOMAIN m_active_timers, RingDead(e), UNCHANGED document
  PROVE  Running'
<1>1. /\ Listing(m_active_timers (-) SetToBag({e}))
      /\ DOMAIN (m_active_timers (-) SetToBag({e})) \subseteq DOMAIN m_active_timers
      /\ UNCHANGED m_next_timer_seq
      /\ IsABag(registered') /\ DOMAIN registered' \subseteq DOMAIN registered
      /\ BlackboardTyped'
  BY RingTakes DEF RingDead
<1>2. Typed /\ InTree /\ ActionsLast /\ TimersTyped
  BY DEF Running, Agreed
<1>3. UNCHANGED cur_root_node /\ ~intact' /\ Agreed'
  <2>1. CASE Crash
    <3>1. Typed' /\ InTree' /\ Spread
      BY <1>2, <2>1, CrashType, CrashInTree, CrashSpreads
    <3> QED
      BY <1>2, <2>1, <3>1 DEF Crash, Agreed, Spread, Gets, ActionsLast, Runnable
  <2>2. CASE ~Crash
    <3>1. /\ NotifyStop(m_state, next_child_idx, m_fronts)
          /\ m_fronts' = <<>>
          /\ m_events' = <<>>
          /\ UNCHANGED <<cur_root_node, m_during_poll, reset_flag, result, m_shuffle,
                         visited, pollVars>>
      BY <2>2 DEF RingDead, StopFaults
    <3>2. Typed'
      BY <1>2, <3>1, NoneQueued, NotifyStopType DEF Typed, TypeOK, Awakened, pollVars
    <3>3. ToSet(m_fronts') = {} /\ \A s \in ToSet(m_fronts) : InLoaded(s)
      BY <1>2, <3>1, QueuedLoaded DEF Queued, ToSet
    <3>4. InTree'
      BY <1>2, <3>1, <3>2, <3>3, StopInTree
    <3>5. /\ m_state' = Kill(m_state, Interrupted(m_state, next_child_idx, ToSet(m_fronts)))
          /\ m_pre_fronts' = <<>> /\ ~intact'
      BY <3>1 DEF NotifyStop
    <3>6. Queued' = {}
      <4>1. ToSet(<<>>) = {}
        BY DEF ToSet
      <4> QED
        BY <3>3, <3>5, <4>1 DEF Queued
    <3>7. ActionsLast'
      BY <1>2, <3>5, <3>6 DEF ActionsLast, Runnable, Kill
    <3> QED
      BY <3>1, <3>2, <3>4, <3>5, <3>7 DEF Agreed
  <2> QED
    BY <2>1, <2>2
<1>4. TimersTyped'
  <2>1. Releases(m_active_timers (-) SetToBag({e})) /\ \A n \in Node : InLoaded(n) => InLoaded(n)'
    BY <1>3 DEF RingDead, InLoaded
  <2> QED
    BY <1>1, <1>2, <2>1, ReleasesTyped
<1> QED
  BY <1>1, <1>3, <1>4 DEF Running, Held

\* A deleted node crashes the agent; a callback without an entry, and what the
\* application tells the blackboard, change no node.
LEMMA OtherRunning ==
  ASSUME Running, Tell \/ (\E s \in BagToSet(registered) : RingUnlisted(s))
                       \/ (\E e \in BagToSet(m_active_timers) : RingGone(e)),
         UNCHANGED document
  PROVE  Running'
<1> DEFINE still == UNCHANGED <<m_active_timers, m_closure, m_next_timer_seq>>
                    /\ IsABag(registered') /\ DOMAIN registered' \subseteq 1..MaxSeq
<1>1. ASSUME NEW s, Rings(s)
      PROVE  /\ UNCHANGED m_next_timer_seq /\ BlackboardTyped'
             /\ IsABag(registered') /\ DOMAIN registered' \subseteq 1..MaxSeq
  <2>1. IsABag(registered') /\ DOMAIN registered' \subseteq DOMAIN registered
    BY <1>1, ListedStill DEF Rings, Running, TimersTyped
  <2> QED
    BY <1>1, <2>1 DEF Rings, Running, TimersTyped, BlackboardTyped
<1>2. CASE Tell
  <2>1. still /\ UNCHANGED vars
    BY <1>2 DEF Tell, timerVars, Running, TimersTyped
  <2>2. PICK t \in Told : \/ m_blackboard' = BlackboardSet(m_blackboard, t[1], t[2])
                          \/ m_blackboard' = BlackboardPop(m_blackboard, t[1])
    BY <1>2 DEF Tell
  <2>3. BlackboardFits(m_blackboard')
    <3>1. BlackboardFits(m_blackboard) /\ Fits(t[2])
      BY RuntimeAssumption DEF Running, BlackboardTyped, BlackboardFits
    <3>2. /\ BlackboardFits(BlackboardSet(m_blackboard, t[1], t[2]))
          /\ BlackboardFits(BlackboardPop(m_blackboard, t[1]))
      BY <3>1, KeysFit
    <3> QED
      BY <2>2, <3>2
  <2> QED
    BY <2>1, <2>3, NextAgreed DEF Running, BlackboardTyped, BlackboardFits, vars, queueVars, nodeVars,
       TimersTyped, Waiter, InLoaded, Runnable, Held, Queued
<1>3. ASSUME NEW s, RingUnlisted(s) PROVE Running'
  <2>1. still /\ UNCHANGED vars /\ BlackboardTyped'
    BY <1>1, <1>3 DEF RingUnlisted
  <2> QED
    BY <2>1, NextAgreed DEF Running, vars, queueVars, nodeVars,
       TimersTyped, Waiter, InLoaded, Runnable, Held, Queued
<1>4. ASSUME NEW e, RingGone(e) PROVE Running'
  <2>1. still /\ Crash /\ BlackboardTyped'
    BY <1>1, <1>4 DEF RingGone
  <2>2. Typed' /\ InTree' /\ Spread
    BY <2>1, CrashType, CrashInTree, CrashSpreads DEF Running, Agreed
  <2>3. Agreed'
    BY <2>1, <2>2 DEF Crash, Running, Agreed, Spread, Gets, ActionsLast, Runnable
  <2> QED
    BY <2>1, <2>3 DEF Crash, Running, TimersTyped, Waiter, InLoaded, Runnable, Held
<1> QED
  BY <1>2, <1>3, <1>4

\* Every step of a running agent.
LEMMA NextRunning ==
  ASSUME Running, RuntimeNext, UNCHANGED document
  PROVE  Running'
<1>1. CASE Ring
  BY <1>1, RingAliveRunning, RingDeadRunning, OtherRunning DEF Ring, BagToSet
<1> QED
  BY <1>1, PlainRunning, ReplaceRunning, PerformRunning, WaitRunning, OtherRunning
  DEF RuntimeNext

----------------------------------------------------------------------------
(* The way from the root to a node.                                        *)

Depth(n) == Cardinality(Lineage[n])

\* A node without a parent is the first on every way that leads from it.
LEMMA DepthOfRoot == ASSUME NEW n \in Node, Parent[n] = NoNode PROVE Depth(n) = 1
<1>1. Lineage[n] = {n}
  BY TreeAssumption DEF Created
<1> QED
  BY <1>1, FS_Singleton DEF Depth

\* An ancestor is nearer to the root.
LEMMA DepthOfAncestor ==
  ASSUME NEW n \in Node, NEW a \in Lineage[n], a # n
  PROVE  Depth(a) < Depth(n)
<1>1. Parent[n] # NoNode /\ a \in Lineage[Parent[n]]
  BY TreeAssumption DEF Created
<1>2. Parent[n] \in Node
  BY <1>1, ParentHasChild
<1>3. Lineage[a] \subseteq Lineage[Parent[n]] /\ a \in Node
  BY <1>1, <1>2, LineageTransitive, InLineage
<1>4. IsFiniteSet(Lineage[Parent[n]])
  BY <1>2, TreeAssumption DEF Created
<1>5. Depth(a) <= Depth(Parent[n])
  BY <1>3, <1>4, FS_Subset DEF Depth
<1>6. Depth(n) = Depth(Parent[n]) + 1 /\ Depth(a) \in Nat /\ Depth(Parent[n]) \in Nat
  BY <1>1, <1>2, <1>3, DepthOfChild DEF Depth
<1> QED
  BY <1>5, <1>6

\* Above a node there is one at every depth,
LEMMA DepthReached ==
  ASSUME NEW n \in Node, NEW d \in 1..Depth(n)
  PROVE  \E a \in Lineage[n] : Depth(a) = d
<1> DEFINE S == {x \in Node : \A m \in 1..Depth(x) : \E a \in Lineage[x] : Depth(a) = m}
<1>1. ASSUME NEW x \in Node, Parent[x] = NoNode \/ Parent[x] \in S
      PROVE  x \in S
  <2>1. x \in Lineage[x] /\ Depth(x) \in Nat
    BY InLineage, DepthOfChild DEF Depth
  <2>2. CASE Parent[x] = NoNode
    <3>1. Depth(x) = 1
      BY <2>2, DepthOfRoot
    <3> QED
      BY <2>1, <3>1
  <2>3. CASE Parent[x] # NoNode
    <3>1. Parent[x] \in S /\ Lineage[Parent[x]] \subseteq Lineage[x] /\ Parent[x] \in Node
      BY <1>1, <2>3, TreeAssumption DEF Created
    <3>2. Depth(x) = Depth(Parent[x]) + 1 /\ Depth(Parent[x]) \in Nat
      BY <2>3, <3>1, DepthOfChild DEF Depth
    <3>3. ASSUME NEW m \in 1..Depth(x) PROVE \E a \in Lineage[x] : Depth(a) = m
      <4>1. m = Depth(x) \/ m \in 1..Depth(Parent[x])
        BY <3>2
      <4> QED
        BY <2>1, <3>1, <4>1
    <3> QED
      BY <3>3
  <2> QED
    BY <2>2, <2>3
<1>2. Node \subseteq S
  <2> HIDE DEF S
  <2> QED
    BY <1>1, TreeInduction
<1> QED
  BY <1>2

\* and only one.
LEMMA DepthUnique ==
  ASSUME NEW n \in Node, NEW a \in Lineage[n], NEW b \in Lineage[n], Depth(a) = Depth(b)
  PROVE  a = b
<1>1. a \in Node /\ b \in Node /\ Depth(a) \in Nat /\ Depth(b) \in Nat
  BY InLineage, DepthOfChild DEF Depth
<1>2. a \in Lineage[b] \/ b \in Lineage[a]
  BY LineageChain
<1> QED
  BY <1>1, <1>2, DepthOfAncestor

\* The place of a child among its siblings.
LEMMA IndexOfChild ==
  ASSUME NEW c \in Node, Parent[c] # NoNode
  PROVE  /\ IndexInParent(c) \in 0..(Arity(Parent[c]) - 1)
         /\ Child(Parent[c], IndexInParent(c)) = c
<1> DEFINE p == Parent[c]
<1>1. p \in Node /\ c \in ChildSet(p)
  BY ParentHasChild
<1>2. Children[p] \in Seq(Node) /\ Arity(p) \in Nat /\ Arity(p) = Len(Children[p])
  BY <1>1, TreeAssumption DEF Loadable, Arity
<1>3. PICK i \in DOMAIN Children[p] : Children[p][i] = c
  BY <1>1 DEF ChildSet, ToSet
<1>4. i \in 1..Arity(p)
  BY <1>2, <1>3
<1> HIDE DEF p
<1>5. i - 1 \in 0..(Arity(p) - 1) /\ Child(p, i - 1) = c
  <2>1. (i - 1) + 1 = i
    BY <1>4, <1>2
  <2> QED
    BY <1>2, <1>3, <1>4, <2>1 DEF Child
<1>6. \E j \in 0..(Arity(p) - 1) : Child(p, j) = c
  BY <1>5
<1>7. IndexInParent(c) = CHOOSE j \in 0..(Arity(p) - 1) : Child(p, j) = c
  BY DEF IndexInParent, p
<1>8. IndexInParent(c) \in 0..(Arity(p) - 1) /\ Child(p, IndexInParent(c)) = c
  BY <1>6, <1>7
<1> QED
  BY <1>8 DEF p

\* The nodes of a chain: every one is a child of the one before it, the first is
\* a child of the root, and the last is where the chain leads to.
LEMMA PathSteps ==
  ASSUME NEW n \in Node
  PROVE  /\ Depth(n) \in Nat \ {0} /\ DOMAIN Path(n) = 1..(Depth(n) - 1)
         /\ \A k \in 1..(Depth(n) - 1) :
              /\ Path(n)[k] \in Lineage[n] /\ Path(n)[k] \in Node
              /\ Parent[Path(n)[k]] \in Node \cap Lineage[n] /\ Parent[Path(n)[k]] # NoNode
              /\ k > 1 => Parent[Path(n)[k]] = Path(n)[k - 1]
              /\ k = 1 => \A r \in Roots : r \in Lineage[n] => Parent[Path(n)[k]] = r
              /\ k = Depth(n) - 1 => Path(n)[k] = n
         /\ Depth(n) = 1 => \A r \in Roots : r \in Lineage[n] => n = r
<1>1. Depth(n) \in Nat /\ n \in Lineage[n] /\ Lineage[n] \subseteq Node
  BY InLineage, DepthOfChild DEF Depth
<1>2. Depth(n) # 0
  <2>1. CASE Parent[n] = NoNode
    BY <2>1, DepthOfRoot
  <2>2. CASE Parent[n] # NoNode
    <3>1. Parent[n] \in Node
      BY <2>2, ParentHasChild
    <3> QED
      BY <2>2, <3>1, DepthOfChild DEF Depth
  <2> QED
    BY <2>1, <2>2
<1>3. DOMAIN Path(n) = 1..(Depth(n) - 1)
  BY DEF Path, Depth
<1>4. ASSUME NEW k \in 1..(Depth(n) - 1)
      PROVE  /\ Path(n)[k] \in Lineage[n] /\ Path(n)[k] \in Node
             /\ Depth(Path(n)[k]) = k + 1
             /\ Parent[Path(n)[k]] \in Node \cap Lineage[n] /\ Parent[Path(n)[k]] # NoNode
             /\ Depth(Parent[Path(n)[k]]) = k
  <2> DEFINE a == Path(n)[k]
  <2>1. a = CHOOSE x \in Lineage[n] : Depth(x) = k + 1
    BY DEF Path, Depth
  <2>2. k + 1 \in 1..Depth(n)
    BY <1>1, <1>4
  <2>3. a \in Lineage[n] /\ Depth(a) = k + 1
    BY <2>1, <2>2, DepthReached
  <2>4. a \in Node
    BY <1>1, <2>3
  <2> HIDE DEF a
  <2>5. Parent[a] # NoNode
    BY <1>4, <2>3, <2>4, DepthOfRoot
  <2>6. Parent[a] \in Node /\ Parent[a] \in Lineage[a]
    BY <2>4, <2>5, ParentHasChild, InLineage, TreeAssumption DEF Created
  <2>7. Depth(Parent[a]) = k
    BY <1>4, <2>3, <2>4, <2>5, <2>6, DepthOfChild DEF Depth
  <2>8. Parent[a] \in Lineage[n]
    BY <2>3, <2>6, LineageTransitive
  <2> QED
    BY <2>3, <2>4, <2>5, <2>6, <2>7, <2>8 DEF a
<1>5. \A r \in Roots : r \in Node /\ Depth(r) = 1
  BY DepthOfRoot, TreeAssumption DEF Rooted
<1>6. ASSUME NEW k \in 1..(Depth(n) - 1), k > 1 PROVE Parent[Path(n)[k]] = Path(n)[k - 1]
  <2>1. k - 1 \in 1..(Depth(n) - 1) /\ (k - 1) + 1 = k
    BY <1>1, <1>6
  <2> QED
    BY <1>4, <2>1, DepthUnique
<1>7. ASSUME NEW k \in 1..(Depth(n) - 1), k = 1, NEW r \in Roots, r \in Lineage[n]
      PROVE  Parent[Path(n)[k]] = r
  BY <1>4, <1>5, <1>7, DepthUnique
<1>8. ASSUME NEW k \in 1..(Depth(n) - 1), k = Depth(n) - 1 PROVE Path(n)[k] = n
  <2>1. Depth(Path(n)[k]) = Depth(n)
    BY <1>1, <1>4, <1>8
  <2> QED
    BY <1>1, <1>4, <2>1, DepthUnique
<1>9. ASSUME Depth(n) = 1, NEW r \in Roots, r \in Lineage[n] PROVE n = r
  BY <1>1, <1>5, <1>9, DepthUnique
<1> QED
  BY <1>1, <1>2, <1>3, <1>4, <1>6, <1>7, <1>8, <1>9

----------------------------------------------------------------------------
(* The process starts, and starts again.                                   *)

\* A new agent.
LEMMA InitRunning == RuntimeInit => Agreed /\ Held /\ BlackboardTyped /\ TimersTyped
<1> SUFFICES ASSUME RuntimeInit PROVE Agreed /\ Held /\ BlackboardTyped /\ TimersTyped
  OBVIOUS
<1>1. ToSet(<<>>) = {} /\ Queued = {}
  BY DEF ToSet, RuntimeInit, Init, Queued
<1>2. Typed
  BY InitTyped DEF RuntimeInit
<1>3. InTree /\ ActionsLast
  BY <1>1 DEF InTree, ActionsLast, RuntimeInit, Init
<1>4. Held /\ BlackboardTyped
  BY DEF Held, BlackboardTyped, RuntimeInit, Init
<1>5. TimersTyped
  <2>1. Listing(m_active_timers) /\ DOMAIN m_active_timers = {}
        /\ Listing(registered) /\ DOMAIN registered = {}
    BY NothingListed DEF RuntimeInit
  <2>2. m_closure \in [Node -> 0..MaxSeq] /\ m_next_timer_seq \in 0..MaxSeq
        /\ \A n \in Node : m_closure[n] = 0
    BY RuntimeAssumption DEF RuntimeInit
  <2>3. \A n \in Node : m_closure[n] <= m_next_timer_seq
    BY <2>2
  <2> QED
    BY <2>1, <2>2, <2>3 DEF TimersTyped, Listing
<1> QED
  BY <1>2, <1>3, <1>4, <1>5 DEF Agreed

\* What is true of an agent and its document.
RuntimeInvariant == Running /\ DocumentTyped /\ DocumentHeld

\* The null document.
LEMMA NoDocumentTyped == document = NoDocument /\ saved_ready = FALSE => DocumentTyped /\ DocumentHeld
<1> SUFFICES ASSUME document = NoDocument, saved_ready = FALSE PROVE DocumentTyped /\ DocumentHeld
  OBVIOUS
<1>1. /\ document.tree = NoNode /\ document.blackboards = <<>>
      /\ document.front_nodes = <<>> /\ document.next_timer_seq = 0
  BY DEF NoDocument
<1>2. \A S : <<>> \in Seq(S) /\ DOMAIN <<>> = {}
  OBVIOUS
<1>3. document.tree \in Roots \cup {NoNode} /\ document.next_timer_seq \in 0..MaxSeq
  BY <1>1, RuntimeAssumption
<1>4. DocumentTyped
  BY <1>1, <1>2, <1>3 DEF DocumentTyped
<1> QED
  BY <1>4 DEF DocumentHeld

\* In the beginning,
LEMMA InitInvariant == PersistenceInit => RuntimeInvariant
  BY InitRunning, NoDocumentTyped DEF PersistenceInit, RuntimeInvariant, Running

\* and after every crash of the process.
LEMMA RestartInvariant ==
  ASSUME RuntimeInvariant, Restart
  PROVE  RuntimeInvariant'
<1>1. RuntimeInit'
  BY DEF Restart, RuntimeInit, Init
<1>2. (Agreed /\ Held /\ BlackboardTyped /\ TimersTyped)'
  <2>1. RuntimeInit' => (Agreed /\ Held /\ BlackboardTyped /\ TimersTyped)'
    BY InitRunning, PTL
  <2> QED
    BY <1>1, <2>1
<1>3. DocumentTyped' /\ DocumentHeld'
  BY DEF Restart, RuntimeInvariant, DocumentTyped, DocumentHeld, Queueing
<1> QED
  BY <1>2, <1>3 DEF RuntimeInvariant, Running

----------------------------------------------------------------------------
(* encode.                                                                 *)

\* The chain of a queued node.
LEMMA ChainOf ==
  ASSUME Running, document.tree = NoNode, NEW n, InLoaded(n)
  PROVE  /\ Chain(n) \in Seq(Link(m_next_timer_seq))
         /\ DOMAIN Chain(n) = DOMAIN Path(n) /\ Len(Chain(n)) = Depth(n) - 1
         /\ \A j \in DOMAIN Path(n) :
              Chain(n)[j] = [idx |-> IndexInParent(Path(n)[j]), data |-> NodeData(Path(n)[j])]
         /\ Len(Chain(n)) > 0 => Arity(cur_root_node) > 0
<1>1. n \in Node /\ Typed /\ TimersTyped /\ Agreed
  BY DEF InLoaded, Running, Agreed
<1>2. Depth(n) \in Nat \ {0} /\ DOMAIN Path(n) = 1..(Depth(n) - 1)
  BY <1>1, PathSteps
<1>3. ASSUME NEW j \in DOMAIN Path(n)
      PROVE  /\ IndexInParent(Path(n)[j]) \in Nat
             /\ NodeData(Path(n)[j]) \in [closure : 0..m_next_timer_seq, shuffles : SUBSET Seq(Nat)]
  <2>1. Path(n)[j] \in Node /\ Parent[Path(n)[j]] \in Node /\ Parent[Path(n)[j]] # NoNode
    BY <1>1, <1>2, PathSteps
  <2>2. IndexInParent(Path(n)[j]) \in Nat
    BY <2>1, ArityType, IndexOfChild
  <2>3. m_closure[Path(n)[j]] \in 0..m_next_timer_seq
    BY <1>1, <2>1 DEF TimersTyped
  <2>4. m_shuffle[Path(n)[j]] \in Seq(Nat)
    BY <1>1, <2>1 DEF Typed, TypeOK
  <2> QED
    BY <2>2, <2>3, <2>4 DEF NodeData
<1>4. \A j \in DOMAIN Path(n) :
        Chain(n)[j] = [idx |-> IndexInParent(Path(n)[j]), data |-> NodeData(Path(n)[j])]
  BY DEF Chain
<1>5. DOMAIN Chain(n) = 1..(Depth(n) - 1)
  BY <1>2 DEF Chain
<1>6. ASSUME NEW j \in 1..(Depth(n) - 1) PROVE Chain(n)[j] \in Link(m_next_timer_seq)
  <2> DEFINE D == [closure : 0..m_next_timer_seq, shuffles : SUBSET Seq(Nat)]
             i == IndexInParent(Path(n)[j])
             d == NodeData(Path(n)[j])
  <2>1. i \in Nat /\ d \in D /\ Chain(n)[j] = [idx |-> i, data |-> d]
    BY <1>2, <1>3, <1>4
  <2>2. Link(m_next_timer_seq) = [idx : Nat, data : D]
    BY DEF Link
  <2> HIDE DEF i, d, D
  <2> QED
    BY <2>1, <2>2
<1>7. Chain(n) = [j \in 1..(Depth(n) - 1) |-> Chain(n)[j]]
  BY <1>2 DEF Chain
<1>8. \A S, f : \A m \in Nat : f = [j \in 1..m |-> f[j]] /\ (\A j \in 1..m : f[j] \in S)
                             => f \in Seq(S) /\ Len(f) = m
  OBVIOUS
<1>9. Chain(n) \in Seq(Link(m_next_timer_seq)) /\ Len(Chain(n)) = Depth(n) - 1
  <2>1. Depth(n) - 1 \in Nat
    BY <1>2
  <2> QED
    BY <1>6, <1>7, <1>8, <2>1
<1>10. ASSUME Len(Chain(n)) > 0 PROVE Arity(cur_root_node) > 0
  <2>1. 1 \in 1..(Depth(n) - 1)
    BY <1>2, <1>9, <1>10
  <2>2. cur_root_node \in Roots /\ cur_root_node \in Lineage[n]
    BY <1>1, LoadedNeighbours, TreeAssumption DEF InLoaded, Rooted
  <2>3. Parent[Path(n)[1]] = cur_root_node /\ Path(n)[1] \in Node /\ Parent[Path(n)[1]] # NoNode
    BY <1>1, <2>1, <2>2, PathSteps
  <2> QED
    BY <2>3, ParentHasChild DEF Arity
<1> QED
  BY <1>2, <1>4, <1>5, <1>9, <1>10

\* What is written down is what an intact, blocking tree holds.
LEMMA SaveInvariant ==
  ASSUME RuntimeInvariant, Save
  PROVE  RuntimeInvariant'
<1>1. /\ document = NoDocument /\ pc = "idle" /\ document' = Encode
      /\ saved_ready' = (intact /\ \A n \in ToSet(m_fronts) : m_state[n] = "blocking")
      /\ UNCHANGED runtimeVars
  BY DEF Save
<1>2. Running /\ document.tree = NoNode /\ Typed /\ TimersTyped /\ BlackboardTyped
  BY <1>1 DEF RuntimeInvariant, NoDocument, Running, Agreed
<1>3. Running'
  BY <1>1, <1>2, NextAgreed
  DEF Running, runtimeVars, timerVars, vars, queueVars, nodeVars, TimersTyped, BlackboardTyped,
      Waiter, InLoaded, Runnable, Held, Queued
<1>4. CASE cur_root_node = NoNode
  <2>1. document' = NoDocument
    BY <1>1, <1>4 DEF Encode
  <2>2. DocumentTyped /\ DocumentHeld /\ saved_ready' \in BOOLEAN
    BY <1>1, <1>2 DEF RuntimeInvariant, Typed, TypeOK
  <2>3. DocumentTyped'
    BY <1>1, <2>1, <2>2 DEF DocumentTyped
  <2>4. DocumentHeld'
    <3>1. document'.front_nodes = <<>> /\ DOMAIN <<>> = {}
      BY <2>1 DEF NoDocument
    <3>2. [k \in {} |-> NoNode] \in [{} -> Node] /\ DOMAIN [k \in {} |-> NoNode] = {}
      OBVIOUS
    <3> QED
      BY <3>1, <3>2 DEF DocumentHeld, Queueing
  <2> QED
    BY <1>3, <2>3, <2>4 DEF RuntimeInvariant
<1>5. CASE cur_root_node # NoNode
  <2>1. /\ document'.tree = cur_root_node /\ document'.blackboards = m_blackboard
        /\ document'.front_nodes = [k \in DOMAIN m_fronts |-> Chain(m_fronts[k])]
        /\ document'.next_timer_seq = m_next_timer_seq
    BY <1>1, <1>5 DEF Encode
  <2>2. m_fronts \in Seq(Node) /\ cur_root_node \in Roots /\ NoNode \notin Roots
    BY <1>2, <1>5, TreeAssumption DEF Typed, TypeOK, Rooted, Loadable
  <2>3. ASSUME NEW k \in DOMAIN m_fronts
        PROVE  /\ m_fronts[k] \in Queued /\ InLoaded(m_fronts[k]) /\ Runnable(m_fronts[k])
               /\ m_fronts[k] \in ToSet(m_fronts)
    <3>1. m_fronts[k] \in ToSet(m_fronts)
      BY DEF ToSet
    <3> QED
      BY <1>2, <2>2, <3>1 DEF Queued, InLoaded, Running, Agreed, InTree, ActionsLast
  <2>4. \A k \in DOMAIN m_fronts : Chain(m_fronts[k]) \in Seq(Link(m_next_timer_seq))
    BY <1>2, <2>3, ChainOf
  <2>5. document'.front_nodes \in Seq(Seq(Link(m_next_timer_seq)))
    <3>1. \A f, S : f \in Seq(Node) /\ (\A k \in DOMAIN f : Chain(f[k]) \in S)
                      => [k \in DOMAIN f |-> Chain(f[k])] \in Seq(S)
      OBVIOUS
    <3> QED
      BY <2>1, <2>2, <2>4, <3>1
  <2>6. DocumentTyped'
    <3>1. saved_ready' \in BOOLEAN /\ m_next_timer_seq \in 0..MaxSeq
      BY <1>1, <1>2 DEF Typed, TypeOK, TimersTyped
    <3>2. \A k \in DOMAIN document'.front_nodes :
            Len(document'.front_nodes[k]) > 0 => Arity(document'.tree) > 0
      BY <1>2, <2>1, <2>3, ChainOf
    <3>3. \A k \in DOMAIN document'.blackboards : Fits(document'.blackboards[k])
      BY <1>2, <2>1 DEF BlackboardTyped
    <3>4. document'.tree # NoNode /\ document'.tree \in Roots \cup {NoNode}
      BY <1>5, <2>1, <2>2
    <3> QED
      BY <2>1, <2>5, <3>1, <3>2, <3>3, <3>4 DEF DocumentTyped
  <2>7. ASSUME NEW k \in DOMAIN m_fronts
        PROVE  /\ cur_root_node \in Lineage[m_fronts[k]]
               /\ LeadsTo(Chain(m_fronts[k]), m_fronts[k])
               /\ Chain(m_fronts[k]) # <<>> => Kept(Chain(m_fronts[k])) = m_closure[m_fronts[k]]
    <3> DEFINE n == m_fronts[k]
    <3>1. n \in Node /\ InLoaded(n) /\ Runnable(n) /\ cur_root_node \in Lineage[n]
      BY <2>3 DEF InLoaded
    <3> HIDE DEF n
    <3>2. /\ Chain(n) \in Seq(Link(m_next_timer_seq))
          /\ DOMAIN Chain(n) = DOMAIN Path(n) /\ Len(Chain(n)) = Depth(n) - 1
          /\ \A j \in DOMAIN Path(n) :
               Chain(n)[j] = [idx |-> IndexInParent(Path(n)[j]), data |-> NodeData(Path(n)[j])]
      BY <1>2, <3>1, ChainOf
    <3>3. LeadsTo(Chain(n), n)
      <4>1. ASSUME NEW j \in DOMAIN Path(n)
            PROVE  /\ Chain(n)[j].idx = IndexInParent(Path(n)[j])
                   /\ Chain(n)[j].data = NodeData(Path(n)[j])
        BY <3>2
      <4>2. \A x : Kind[x] = "random_seq" => NodeData(x).shuffles # {}
        BY DEF NodeData
      <4> QED
        BY <3>1, <3>2, <4>1, <4>2 DEF LeadsTo
    <3>4. ASSUME Chain(n) # <<>> PROVE Kept(Chain(n)) = m_closure[n]
      <4>1. Len(Chain(n)) \in DOMAIN Chain(n)
        BY <3>2, <3>4
      <4>2. Path(n)[Len(Chain(n))] = n
        BY <3>1, <3>2, <4>1, PathSteps
      <4> QED
        BY <3>2, <4>1, <4>2 DEF Kept, NodeData
    <3> QED
      BY <3>1, <3>3, <3>4 DEF n
  <2>8. DocumentHeld'
    <3> SUFFICES ASSUME saved_ready'
                 PROVE  \E q \in [DOMAIN document'.front_nodes -> Node] :
                   \A k \in DOMAIN q : LET c == document'.front_nodes[k] IN
                     /\ document'.tree \in Lineage[q[k]]
                     /\ LeadsTo(c, q[k])
                     /\ c # <<>> /\ q[k] \in Waits => Kept(c) # 0
                     /\ \A l \in DOMAIN q : LET b == document'.front_nodes[l] IN
                          c # <<>> /\ b # <<>> =>
                            /\ q[k] = q[l] => Kept(c) = Kept(b)
                            /\ Kept(c) = Kept(b) /\ Kept(c) # 0 => q[k] = q[l]
      BY DEF DocumentHeld, Queueing, Kept, LeadsTo
    <3>1. m_fronts \in [DOMAIN document'.front_nodes -> Node]
      BY <2>1, <2>2
    <3>2. intact /\ Held /\ \A k \in DOMAIN m_fronts : m_state[m_fronts[k]] = "blocking"
      BY <1>1, <1>2, <2>3 DEF Running
    <3>3. \A k \in DOMAIN m_fronts : m_fronts[k] \in Waits => m_closure[m_fronts[k]] # 0
      BY <2>3, <3>2 DEF Held
    <3>4. \A k, l \in DOMAIN m_fronts :
            m_closure[m_fronts[k]] = m_closure[m_fronts[l]] /\ m_closure[m_fronts[k]] # 0
              => m_fronts[k] = m_fronts[l]
      BY <2>2, <3>2 DEF Held
    <3>5. \A k \in DOMAIN m_fronts : document'.front_nodes[k] = Chain(m_fronts[k])
      BY <2>1
    <3> QED
      BY <2>1, <2>7, <3>1, <3>3, <3>4, <3>5
  <2> QED
    BY <1>3, <2>6, <2>8 DEF RuntimeInvariant
<1> QED
  BY <1>4, <1>5

----------------------------------------------------------------------------
(* decode: one chain after the other.                                      *)

\* The members after every chain are those that its decoding makes of the ones
\* after the chain before.
LEMMA RestoringSteps ==
  ASSUME NEW d, Len(d.front_nodes) \in Nat
  PROVE  /\ Restoring(d)[0] = Loaded(d)
         /\ \A k \in 1..Len(d.front_nodes) :
              Restoring(d)[k] = Restored(Restoring(d)[k - 1], d.front_nodes[k])
<1> DEFINE fits(g, m) ==
             g = [k \in 0..m |-> IF k = 0 THEN Loaded(d)
                                 ELSE Restored(g[k - 1], d.front_nodes[k])]
           T == {m \in Nat : ~\E g : fits(g, m)}
<1>1. \E g : fits(g, 0)
  <2> DEFINE g == [k \in 0..0 |-> Loaded(d)]
  <2>1. fits(g, 0)
    OBVIOUS
  <2> QED
    BY <2>1
<1>2. ASSUME NEW m \in Nat, NEW g, fits(g, m) PROVE \E h : fits(h, m + 1)
  <2> DEFINE h == [k \in 0..(m + 1) |-> IF k = m + 1 THEN Restored(g[m], d.front_nodes[m + 1])
                                        ELSE g[k]]
  <2>1. h[0] = Loaded(d)
    BY <1>2
  <2>2. ASSUME NEW k \in 1..(m + 1) PROVE h[k] = Restored(h[k - 1], d.front_nodes[k])
    <3>1. CASE k = m + 1
      BY <3>1
    <3>2. CASE k # m + 1
      BY <1>2, <3>2
    <3> QED
      BY <3>1, <3>2
  <2>3. h = [k \in 0..(m + 1) |-> h[k]]
    OBVIOUS
  <2> HIDE DEF h
  <2>4. fits(h, m + 1)
    BY <2>1, <2>2, <2>3
  <2> QED
    BY <2>4
<1>3. \A m \in Nat : \E g : fits(g, m)
  <2> SUFFICES ASSUME T # {} PROVE FALSE
    OBVIOUS
  <2> HIDE DEF fits
  <2>1. PICK m \in T : \A x \in T : m <= x
    BY LeastNatural
  <2>2. m # 0 /\ m - 1 \in Nat /\ m - 1 \notin T
    BY <1>1, <2>1
  <2>3. PICK g : fits(g, m - 1)
    BY <2>2
  <2>4. \E h : fits(h, (m - 1) + 1)
    BY <1>2, <2>2, <2>3
  <2> QED
    BY <2>1, <2>4
<1>4. Restoring(d) = CHOOSE g : fits(g, Len(d.front_nodes))
  BY DEF Restoring
<1>5. fits(Restoring(d), Len(d.front_nodes))
  <2> HIDE DEF fits
  <2> QED
    BY <1>3, <1>4
<1> QED
  BY <1>5

\* Where one more entry of a chain leads to from n.
Onward(t, chain, j, n) ==
  Descend(n, IF j = 1 \/ n = Gone THEN <<>> ELSE Shuffle(t, n, chain[j - 1].data), chain[j].idx)

\* The nodes that a chain leads through follow one from another.
LEMMA WalkSteps ==
  ASSUME NEW t, NEW chain, Len(chain) \in Nat
  PROVE  /\ Walk(t, chain)[0] = t.root
         /\ \A j \in 1..Len(chain) :
              Walk(t, chain)[j] = Onward(t, chain, j, Walk(t, chain)[j - 1])
<1> DEFINE fits(g, m) ==
             g = [j \in 0..m |-> IF j = 0 THEN t.root ELSE Onward(t, chain, j, g[j - 1])]
           T == {m \in Nat : ~\E g : fits(g, m)}
<1>1. \E g : fits(g, 0)
  <2> DEFINE g == [j \in 0..0 |-> t.root]
  <2>1. fits(g, 0)
    OBVIOUS
  <2> QED
    BY <2>1
<1>2. ASSUME NEW m \in Nat, NEW g, fits(g, m) PROVE \E h : fits(h, m + 1)
  <2> DEFINE h == [j \in 0..(m + 1) |-> IF j = m + 1 THEN Onward(t, chain, m + 1, g[m])
                                        ELSE g[j]]
  <2>1. h[0] = t.root
    BY <1>2
  <2>2. ASSUME NEW j \in 1..(m + 1) PROVE h[j] = Onward(t, chain, j, h[j - 1])
    <3>1. CASE j = m + 1
      BY <3>1
    <3>2. CASE j # m + 1
      BY <1>2, <3>2
    <3> QED
      BY <3>1, <3>2
  <2>3. h = [j \in 0..(m + 1) |-> h[j]]
    OBVIOUS
  <2> HIDE DEF h
  <2>4. fits(h, m + 1)
    <3>1. ASSUME NEW j \in 0..(m + 1)
          PROVE  h[j] = IF j = 0 THEN t.root ELSE Onward(t, chain, j, h[j - 1])
      BY <2>1, <2>2
    <3> QED
      BY <2>3, <3>1
  <2> QED
    BY <2>4
<1>3. \A m \in Nat : \E g : fits(g, m)
  <2> SUFFICES ASSUME T # {} PROVE FALSE
    OBVIOUS
  <2> HIDE DEF fits
  <2>1. PICK m \in T : \A x \in T : m <= x
    BY LeastNatural
  <2>2. m # 0 /\ m - 1 \in Nat /\ m - 1 \notin T
    BY <1>1, <2>1
  <2>3. PICK g : fits(g, m - 1)
    BY <2>2
  <2>4. \E h : fits(h, (m - 1) + 1)
    BY <1>2, <2>2, <2>3
  <2> QED
    BY <2>1, <2>4
<1>4. Walk(t, chain) = CHOOSE g : fits(g, Len(chain))
  BY DEF Walk, Onward
<1>5. fits(Walk(t, chain), Len(chain))
  <2> HIDE DEF fits
  <2> QED
    BY <1>3, <1>4
<1> QED
  BY <1>5

\* A node that the tree of r has, and that control can get to.
Reachable(r, n) == n \in Node /\ r \in Lineage[n] /\ Runnable(n)

\* An index leads to a child, stays at a node that has none or is an action, or
\* leads nowhere.
LEMMA DescendTyped ==
  ASSUME NEW r, NEW n, Reachable(r, n), NEW s \in Seq(Nat), NEW i \in Nat
  PROVE  \/ Descend(n, s, i) = Gone
         \/ Descend(n, s, i) = n /\ (Kind[n] = "action" \/ Arity(n) = 0)
         \/ Reachable(r, Descend(n, s, i)) /\ Parent[Descend(n, s, i)] = n
<1>1. n \in Node /\ n # Gone /\ Arity(n) \in Nat
  BY ArityType, RuntimeAssumption DEF Reachable
<1>2. ASSUME NEW k \in 0..(Arity(n) - 1), Kind[n] # "action"
      PROVE  Reachable(r, Child(n, k)) /\ Parent[Child(n, k)] = n
  <2>1. Child(n, k) \in ChildSet(n) /\ Child(n, k) \in Node
    BY <1>1, <1>2, ChildAt
  <2>2. Parent[Child(n, k)] = n /\ n \in Lineage[Child(n, k)]
    BY <1>1, <2>1, ChildHasParent, ChildLineage, InLineage
  <2>3. r \in Lineage[Child(n, k)]
    BY <1>1, <2>1, <2>2, LineageTransitive DEF Reachable
  <2> QED
    BY <1>1, <1>2, <2>1, <2>2, <2>3, RunnableNeighbours DEF Reachable
<1>3. CASE Kind[n] = "random_seq"
  <2>1. CASE i < Len(s) /\ s[i + 1] < Arity(n)
    <3>1. s[i + 1] \in 0..(Arity(n) - 1)
      BY <1>1, <2>1
    <3>2. Descend(n, s, i) = Child(n, s[i + 1])
      BY <1>1, <1>3, <2>1 DEF Descend
    <3> QED
      BY <1>2, <1>3, <3>1, <3>2
  <2>2. CASE ~(i < Len(s) /\ s[i + 1] < Arity(n))
    BY <1>1, <1>3, <2>2 DEF Descend
  <2> QED
    BY <2>1, <2>2
<1>4. CASE Kind[n] # "random_seq"
  <2>1. Descend(n, s, i) = IF Kind[n] = "action" \/ Arity(n) = 0 THEN n
                           ELSE IF i < Arity(n) THEN Child(n, i) ELSE Gone
    BY <1>1, <1>4 DEF Descend
  <2> QED
    BY <1>1, <1>2, <2>1
<1> QED
  BY <1>3, <1>4

\* A chain leads through nodes of the tree, none of which but the first is a root.
LEMMA WalkTyped ==
  ASSUME NEW t, t.root \in Roots, t.m_shuffle \in [Node -> Seq(Nat)],
         NEW max, NEW chain \in Seq(Link(max)), Len(chain) > 0 => Arity(t.root) > 0,
         NEW j \in 0..Len(chain)
  PROVE  \/ Walk(t, chain)[j] = Gone
         \/ Reachable(t.root, Walk(t, chain)[j]) /\ (j > 0 => Parent[Walk(t, chain)[j]] # NoNode)
<1> DEFINE at == Walk(t, chain)
           ok(k) == at[k] = Gone \/ (Reachable(t.root, at[k]) /\ (k > 0 => Parent[at[k]] # NoNode))
           T == {k \in 0..Len(chain) : ~ok(k)}
<1>1. t.root \in Node /\ Kind[t.root] = "root" /\ Reachable(t.root, t.root)
  BY RunnableNeighbours, InLineage, TreeAssumption DEF Rooted, Reachable
<1>2. ok(0)
  BY <1>1, WalkSteps
<1>3. ASSUME NEW k \in 1..Len(chain), ok(k - 1) PROVE ok(k)
  <2> DEFINE n == at[k - 1]
             s == IF k = 1 \/ n = Gone THEN <<>> ELSE Shuffle(t, n, chain[k - 1].data)
  <2>1. at[k] = Descend(n, s, chain[k].idx)
    <3>1. at[k] = Onward(t, chain, k, n)
      BY WalkSteps
    <3> HIDE DEF n
    <3> QED
      BY <3>1 DEF Onward
  <2>2. chain[k].idx \in Nat
    <3>1. chain[k] \in Link(max)
      OBVIOUS
    <3> QED
      BY <3>1 DEF Link
  <2>3. CASE n = Gone
    BY <2>1, <2>3 DEF Descend
  <2>4. CASE n # Gone
    <3>1. Reachable(t.root, n) /\ (k - 1 > 0 => Parent[n] # NoNode)
      BY <1>3, <2>4
    <3>2. s \in Seq(Nat)
      <4>1. CASE k = 1
        BY <4>1
      <4>2. CASE k # 1
        <5>1. chain[k - 1] \in Link(max)
          BY <4>2
        <5>2. chain[k - 1].data.shuffles \in SUBSET Seq(Nat)
          BY <5>1 DEF Link
        <5>3. t.m_shuffle[n] \in Seq(Nat)
          BY <3>1 DEF Reachable
        <5> QED
          BY <2>4, <4>2, <5>2, <5>3 DEF Shuffle
      <4> QED
        BY <4>1, <4>2
    <3>3. n = t.root \/ k # 1
      BY WalkSteps
    <3> HIDE DEF n, s
    <3>4. \/ at[k] = Gone
          \/ at[k] = n /\ (Kind[n] = "action" \/ Arity(n) = 0)
          \/ Reachable(t.root, at[k]) /\ Parent[at[k]] = n
      BY <2>1, <2>2, <3>1, <3>2, DescendTyped
    <3>5. n \in Node /\ n # NoNode
      BY <3>1, TreeAssumption DEF Reachable, Loadable
    <3> HIDE DEF at
    <3>6. CASE k = 1
      BY <1>1, <3>3, <3>4, <3>5, <3>6
    <3>7. CASE k # 1
      BY <3>1, <3>4, <3>5, <3>7
    <3> QED
      BY <3>6, <3>7
  <2> QED
    BY <2>3, <2>4
<1>4. T = {}
  <2> HIDE DEF ok
  <2> SUFFICES ASSUME T # {} PROVE FALSE
    OBVIOUS
  <2>1. Len(chain) \in Nat /\ T \subseteq Nat
    OBVIOUS
  <2>2. PICK m \in T : \A x \in T : m <= x
    BY <2>1, LeastNatural
  <2>3. m \in 1..Len(chain) /\ m - 1 \in 0..Len(chain) /\ m - 1 \notin T
    BY <1>2, <2>1, <2>2
  <2> QED
    BY <1>3, <2>2, <2>3
<1> QED
  BY <1>4

\* What decode writes.
Members ==
  {"root", "m_state", "result", "next_child_idx", "m_shuffle", "visited", "m_closure",
   "m_active_timers", "m_fronts", "faulted"}

\* u is what one chain makes of t.
Placing(t, chain, u) ==
  LET k == Len(chain)
      at == Walk(t, chain)
      through == {at[j] : j \in 0..(k - 1)}
      s == chain[k].data.closure IN
  /\ k > 0 /\ Gone \notin through \cup {at[k]}
  /\ u.root = t.root /\ u.result = t.result
  /\ u.m_state = [n \in Node |-> IF n = at[k] THEN "blocking"
                                 ELSE IF n \in through THEN "wait_child" ELSE t.m_state[n]]
  /\ \A n \in Node :
       /\ u.next_child_idx[n] \in {t.next_child_idx[n]} \cup {chain[j].idx : j \in 1..k}
       /\ \/ u.m_shuffle[n] = t.m_shuffle[n]
          \/ Kind[n] = "random_seq" /\ \E j \in 1..k : u.m_shuffle[n] \in chain[j].data.shuffles
       /\ \/ u.m_shuffle[n] = t.m_shuffle[n] /\ n \notin {at[j] : j \in 1..k}
          \/ \E j \in 1..k : at[j] = n /\ u.m_shuffle[n] = Shuffle(t, n, chain[j].data)
       /\ Kind[n] = "random_seq" => Deals(n, u.m_shuffle[n])
  /\ DOMAIN u.next_child_idx = Node /\ DOMAIN u.m_shuffle = Node
  /\ u.next_child_idx = [n \in Node |-> u.next_child_idx[n]]
  /\ u.m_shuffle = [n \in Node |-> u.m_shuffle[n]]
  /\ u.visited \subseteq t.visited \cup through
  /\ u.m_fronts = Append(t.m_fronts, at[k])
  /\ s = 0 => u.m_closure = t.m_closure /\ u.m_active_timers = t.m_active_timers
  /\ s # 0 =>
       /\ u.m_closure = [t.m_closure EXCEPT ![at[k]] = s]
       /\ u.m_active_timers = Unlisted(t.m_active_timers (+) SetToBag({Entry(s, at[k])}),
                                       {t.m_closure[at[k]]} \ {0})

\* chain can be decoded: it is not empty, leads to nodes, and has their shuffles.
Readable(t, chain) ==
  /\ Len(chain) > 0
  /\ \A j \in 0..Len(chain) : Walk(t, chain)[j] # Gone
  /\ \A n \in Node : Kind[n] = "random_seq" =>
       /\ Deals(n, t.m_shuffle[n])
       /\ \A j \in 1..Len(chain) :
            Walk(t, chain)[j] = n => Deals(n, Shuffle(t, n, chain[j].data))

\* One chain is decoded, or it cannot be.
LEMMA RestoredMembers ==
  ASSUME NEW t, DOMAIN t = Members, NEW chain, Len(chain) \in Nat
  PROVE  /\ DOMAIN Restored(t, chain) = Members
         /\ Restored(t, chain).faulted \/ (~t.faulted /\ Placing(t, chain, Restored(t, chain)))
         /\ ~t.faulted /\ Readable(t, chain) => ~Restored(t, chain).faulted
<1> DEFINE k == Len(chain)
           at == Walk(t, chain)
           through == {at[j] : j \in 0..(k - 1)}
           last == at[k]
           s == chain[k].data.closure
           reached(n) == {j \in 1..k : at[j] = n}
           state == [n \in Node |-> IF n = last THEN "blocking"
                                    ELSE IF n \in through THEN "wait_child" ELSE t.m_state[n]]
           index == [n \in Node |-> IF LastAt(at, n, k) = 0 THEN t.next_child_idx[n]
                                    ELSE chain[LastAt(at, n, k)].idx]
           shuffle == [n \in Node |-> IF reached(n) = {} THEN t.m_shuffle[n]
                        ELSE Shuffle(t, n, chain[CHOOSE j \in reached(n) : TRUE].data)]
           entered == t.visited \cup {n \in through : Kind[n] \notin LeafKinds}
           fronts == Append(t.m_fronts, last)
           placed == [t EXCEPT !.m_state = state, !.next_child_idx = index,
                               !.m_shuffle = shuffle, !.visited = entered, !.m_fronts = fronts]
           u == Restored(t, chain)
           stuck == \/ t.faulted \/ k = 0 \/ Gone \in through \cup {last}
                    \/ \E n \in Node : Kind[n] = "random_seq" /\ ~Deals(n, placed.m_shuffle[n])
<1>1. u = IF stuck THEN [t EXCEPT !.faulted = TRUE]
          ELSE IF s = 0 THEN placed ELSE Reopened(placed, last, s)
  BY DEF Restored
<1>2. \A n \in Node : index[n] \in {t.next_child_idx[n]} \cup {chain[j].idx : j \in 1..k}
  <2> SUFFICES ASSUME NEW n \in Node, LastAt(at, n, k) # 0
               PROVE  LastAt(at, n, k) \in 1..k
    OBVIOUS
  <2> DEFINE here == {j \in 1..k : at[j - 1] = n}
  <2>1. here # {} /\ LastAt(at, n, k) = CHOOSE j \in here : \A i \in here : i <= j
    BY DEF LastAt
  <2>2. \E j \in here : \A i \in here : i <= j
    <3> DEFINE T == {k - j : j \in here}
    <3>1. T \subseteq Nat /\ T # {}
      BY <2>1
    <3>2. PICK x \in T : \A y \in T : x <= y
      BY <3>1, LeastNatural
    <3>3. PICK j \in here : x = k - j
      OBVIOUS
    <3>4. \A i \in here : k - j <= k - i
      BY <3>2, <3>3
    <3> QED
      BY <3>4
  <2> QED
    BY <2>1, <2>2
<1>3. \A n \in Node : \/ shuffle[n] = t.m_shuffle[n]
                      \/ Kind[n] = "random_seq" /\ \E j \in 1..k : shuffle[n] \in chain[j].data.shuffles
  BY DEF Shuffle
<1>4. \A n \in Node :
         \/ shuffle[n] = t.m_shuffle[n] /\ n \notin {at[j] : j \in 1..k}
         \/ \E j \in 1..k : at[j] = n /\ shuffle[n] = Shuffle(t, n, chain[j].data)
  <2> HIDE DEF at
  <2> SUFFICES ASSUME NEW n \in Node
               PROVE  \/ shuffle[n] = t.m_shuffle[n] /\ n \notin {at[j] : j \in 1..k}
                      \/ \E j \in 1..k : at[j] = n /\ shuffle[n] = Shuffle(t, n, chain[j].data)
    OBVIOUS
  <2>1. CASE reached(n) = {}
    BY <2>1
  <2>2. CASE reached(n) # {}
    <3>1. (CHOOSE j \in reached(n) : TRUE) \in reached(n)
      BY <2>2
    <3> QED
      BY <2>2, <3>1
  <2> QED
    BY <2>1, <2>2
<1>5. /\ DOMAIN placed = Members /\ placed.m_state = state /\ placed.next_child_idx = index
      /\ placed.m_shuffle = shuffle /\ placed.visited = entered /\ placed.m_fronts = fronts
      /\ placed.root = t.root /\ placed.result = t.result /\ placed.m_closure = t.m_closure
      /\ placed.m_active_timers = t.m_active_timers
  <2> HIDE DEF state, index, shuffle, entered, fronts
  <2> QED
    BY DEF Members
<1>6. CASE stuck
  <2>1. u = [t EXCEPT !.faulted = TRUE]
    BY <1>1, <1>6
  <2>2. DOMAIN u = Members /\ u.faulted
    BY <2>1 DEF Members
  <2>3. ASSUME ~t.faulted, Readable(t, chain) PROVE FALSE
    <3>1. k > 0 /\ Gone \notin through \cup {last}
      <4>1. \A j \in 0..k : at[j] # Gone
        BY <2>3 DEF Readable
      <4>2. k \in 0..k /\ 0..(k - 1) \subseteq 0..k
        OBVIOUS
      <4> HIDE DEF at
      <4> QED
        BY <2>3, <4>1, <4>2 DEF Readable
    <3>2. \A n \in Node : Kind[n] = "random_seq" => Deals(n, shuffle[n])
      <4> HIDE DEF shuffle, at
      <4> QED
        BY <1>4, <2>3 DEF Readable, at
    <3>3. \A n \in Node : Kind[n] = "random_seq" => Deals(n, placed.m_shuffle[n])
      <4> HIDE DEF shuffle, placed
      <4> QED
        BY <1>5, <3>2
    <3> HIDE DEF placed, through, last, shuffle
    <3> QED
      BY <1>6, <2>3, <3>1, <3>3
  <2> QED
    BY <2>2, <2>3
<1>7. CASE ~stuck
  <2>1. u = IF s = 0 THEN placed ELSE Reopened(placed, last, s)
    BY <1>1, <1>7
  <2>2. ~t.faulted /\ k > 0 /\ Gone \notin through \cup {last}
        /\ \A n \in Node : Kind[n] = "random_seq" => Deals(n, shuffle[n])
    <3>1. placed.m_shuffle = shuffle
      BY <1>5
    <3>2. ~t.faulted /\ k # 0 /\ Gone \notin through \cup {last}
          /\ \A n \in Node : Kind[n] = "random_seq" => Deals(n, placed.m_shuffle[n])
      <4> HIDE DEF placed, through, last
      <4> QED
        BY <1>7
    <3>3. k > 0
      BY <3>2
    <3> HIDE DEF placed, shuffle, through, last
    <3> QED
      BY <3>1, <3>2, <3>3
  <2>3. /\ DOMAIN u = Members /\ u.m_state = state /\ u.next_child_idx = index
        /\ u.m_shuffle = shuffle /\ u.visited = entered /\ u.m_fronts = fronts
        /\ u.root = t.root /\ u.result = t.result
        /\ s = 0 => u.m_closure = t.m_closure /\ u.m_active_timers = t.m_active_timers
        /\ s # 0 =>
             /\ u.m_closure = [t.m_closure EXCEPT ![last] = s]
             /\ u.m_active_timers = Unlisted(t.m_active_timers (+) SetToBag({Entry(s, last)}),
                                             {t.m_closure[last]} \ {0})
    <3> HIDE DEF placed, state, index, shuffle, entered, fronts, stuck, last, s, u
    <3>1. CASE s = 0
      BY <1>5, <2>1, <3>1
    <3>2. CASE s # 0
      BY <1>5, <2>1, <3>2 DEF Reopened, Members
    <3> QED
      BY <3>1, <3>2
  <2>4. /\ DOMAIN u.next_child_idx = Node /\ DOMAIN u.m_shuffle = Node
        /\ u.next_child_idx = [n \in Node |-> u.next_child_idx[n]]
        /\ u.m_shuffle = [n \in Node |-> u.m_shuffle[n]]
    <3>1. /\ DOMAIN index = Node /\ DOMAIN shuffle = Node
          /\ index = [n \in Node |-> index[n]] /\ shuffle = [n \in Node |-> shuffle[n]]
      OBVIOUS
    <3> HIDE DEF u, index, shuffle
    <3> QED
      BY <2>3, <3>1
  <2>5. entered \subseteq t.visited \cup through
    OBVIOUS
  <2>6. Placing(t, chain, u)
    <3> HIDE DEF u, index, shuffle, entered, stuck, placed
    <3> QED
      BY <1>2, <1>3, <1>4, <2>2, <2>3, <2>4, <2>5 DEF Placing
  <2>7. ~u.faulted
    <3> HIDE DEF state, index, shuffle, entered, fronts, stuck, last, s, u
    <3>1. placed.faulted = t.faulted
      BY DEF Members
    <3>2. DOMAIN Reopened(placed, last, s) = DOMAIN placed
          /\ Reopened(placed, last, s).faulted = placed.faulted
      <4> HIDE DEF placed
      <4> QED
        BY <1>5 DEF Reopened, Members
    <3> HIDE DEF placed
    <3> QED
      BY <2>1, <2>2, <3>1, <3>2
  <2> QED
    BY <2>2, <2>3, <2>6, <2>7
<1> QED
  BY <1>6, <1>7

\* The members t fit together as those of an agent.
NodesRebuilt(t) ==
  /\ t.m_state \in [Node -> States]
  /\ t.result \in [Node -> BOOLEAN]
  /\ t.next_child_idx \in [Node -> Nat]
  /\ t.m_shuffle \in [Node -> Seq(Nat)]
  /\ \A n \in Node : t.m_shuffle[n] \in Seq(0..(Len(Children[n]) - 1))
  /\ t.visited \in SUBSET Node
  /\ \A n \in Node :
       /\ t.m_state[n] = "awaken" => Arity(n) # 0
       /\ t.root \notin Lineage[n] => t.m_state[n] = "init"
       /\ t.m_state[n] \notin {"init", "dead"} => Runnable(n)

TimersRebuilt(t) ==
  /\ t.m_closure \in [Node -> 0..MaxSeq]
  /\ \A n \in Node : t.m_closure[n] # 0 => t.root \in Lineage[n]
  /\ Listing(t.m_active_timers)
  /\ \A e \in DOMAIN t.m_active_timers :
       /\ e \in [seq : 1..document.next_timer_seq, node : Node \cup {Gone}]
       /\ e.node # Gone => Reachable(t.root, e.node) /\ Parent[e.node] # NoNode

Rebuilt(t) ==
  /\ t.root = document.tree
  /\ NodesRebuilt(t)
  /\ TimersRebuilt(t)
  /\ t.m_fronts \in Seq(Node)
  /\ \A n \in ToSet(t.m_fronts) : Reachable(t.root, n)

\* They do after a chain if they did before.
LEMMA PlacingRebuilt ==
  ASSUME DocumentTyped, document.tree # NoNode,
         NEW t, Rebuilt(t), NEW chain \in Seq(Link(document.next_timer_seq)),
         Len(chain) > 0 => Arity(document.tree) > 0,
         NEW u, Placing(t, chain, u)
  PROVE  Rebuilt(u)
<1> DEFINE k == Len(chain)
           at == Walk(t, chain)
           through == {at[j] : j \in 0..(k - 1)}
           last == at[k]
           s == chain[k].data.closure
<1>1. /\ t.root = document.tree /\ t.root \in Roots /\ t.m_shuffle \in [Node -> Seq(Nat)]
      /\ document.next_timer_seq \in 0..MaxSeq /\ u.root = t.root /\ u.result = t.result
  BY DEF DocumentTyped, Rebuilt, NodesRebuilt, Placing
<1>2. k \in Nat /\ k > 0 /\ Gone \notin through \cup {last}
  BY DEF Placing
<1>3. /\ \A x \in through \cup {last} : Reachable(t.root, x)
      /\ Parent[last] # NoNode
  <2>1. ASSUME NEW j \in 0..k, at[j] # Gone
        PROVE  Reachable(t.root, at[j]) /\ (j > 0 => Parent[at[j]] # NoNode)
    BY <1>1, <2>1, WalkTyped
  <2>2. \A j \in 0..k : at[j] \in through \cup {last}
    BY <1>2
  <2> HIDE DEF at
  <2> QED
    BY <1>2, <2>1, <2>2
<1>4. ASSUME NEW j \in 1..k
      PROVE  /\ chain[j].idx \in Nat /\ chain[j].data.closure \in 0..document.next_timer_seq
             /\ chain[j].data.shuffles \in SUBSET Seq(Nat)
  <2>1. chain[j] \in Link(document.next_timer_seq)
    BY <1>4
  <2> QED
    BY <2>1 DEF Link
<1>5. last \in Node /\ through \subseteq Node
  BY <1>3 DEF Reachable
<1>6. NodesRebuilt(u)
  <2>1. NodesRebuilt(t)
    BY DEF Rebuilt
  <2>2. u.m_state = [n \in Node |-> IF n = last THEN "blocking"
                                    ELSE IF n \in through THEN "wait_child" ELSE t.m_state[n]]
    BY DEF Placing
  <2>3. u.m_state \in [Node -> States]
    <3> HIDE DEF last, through
    <3> QED
      BY <2>1, <2>2 DEF NodesRebuilt, States
  <2>4. ASSUME NEW n \in Node
        PROVE  /\ u.m_state[n] = "awaken" => Arity(n) # 0
               /\ u.root \notin Lineage[n] => u.m_state[n] = "init"
               /\ u.m_state[n] \notin {"init", "dead"} => Runnable(n)
    <3> HIDE DEF last, through
    <3>1. CASE n \in through \cup {last}
      <4>1. u.m_state[n] \in {"blocking", "wait_child"}
        BY <2>2, <3>1
      <4>2. Reachable(t.root, n)
        BY <1>3, <3>1
      <4> QED
        BY <1>1, <4>1, <4>2 DEF Reachable
    <3>2. CASE n \notin through \cup {last}
      BY <1>1, <2>1, <2>2, <3>2 DEF NodesRebuilt
    <3> QED
      BY <3>1, <3>2
  <2>5. u.next_child_idx \in [Node -> Nat]
    <3>1. \A n \in Node : u.next_child_idx[n] \in {t.next_child_idx[n]} \cup {chain[j].idx : j \in 1..k}
      BY DEF Placing
    <3>2. \A n \in Node : u.next_child_idx[n] \in Nat
      BY <1>4, <2>1, <3>1 DEF NodesRebuilt
    <3>3. u.next_child_idx = [n \in Node |-> u.next_child_idx[n]]
      BY DEF Placing
    <3> QED
      BY <3>2, <3>3
  <2>6. ASSUME NEW n \in Node
        PROVE  u.m_shuffle[n] \in Seq(Nat) /\ u.m_shuffle[n] \in Seq(0..(Len(Children[n]) - 1))
    <3>1. CASE u.m_shuffle[n] = t.m_shuffle[n]
      BY <2>1, <3>1 DEF NodesRebuilt
    <3>2. CASE u.m_shuffle[n] # t.m_shuffle[n]
      <4>1. Kind[n] = "random_seq" /\ \E j \in 1..k : u.m_shuffle[n] \in chain[j].data.shuffles
        BY <3>2 DEF Placing
      <4>2. Deals(n, u.m_shuffle[n])
        BY <4>1 DEF Placing
      <4>3. u.m_shuffle[n] \in Seq(Nat)
        BY <1>4, <4>1
      <4>4. \A i \in DOMAIN u.m_shuffle[n] : u.m_shuffle[n][i] \in 0..(Arity(n) - 1)
        BY <4>2, <4>3 DEF Deals, ToSet
      <4>5. \A q, S : q \in Seq(Nat) /\ (\A i \in DOMAIN q : q[i] \in S) => q \in Seq(S)
        OBVIOUS
      <4> QED
        BY <4>3, <4>4, <4>5 DEF Arity
    <3> QED
      BY <3>1, <3>2
  <2>7. u.m_shuffle = [n \in Node |-> u.m_shuffle[n]]
    BY DEF Placing
  <2>8. u.visited \in SUBSET Node
    <3>1. u.visited \subseteq t.visited \cup through
      BY DEF Placing
    <3> HIDE DEF through
    <3> QED
      BY <1>5, <2>1, <3>1 DEF NodesRebuilt
  <2>9. u.m_shuffle \in [Node -> Seq(Nat)]
    BY <2>6, <2>7
  <2> QED
    BY <1>1, <2>1, <2>3, <2>4, <2>5, <2>6, <2>8, <2>9 DEF NodesRebuilt
<1>7. TimersRebuilt(u)
  <2>1. TimersRebuilt(t)
    BY DEF Rebuilt
  <2>2. CASE s = 0
    <3>1. u.m_closure = t.m_closure /\ u.m_active_timers = t.m_active_timers
      BY <2>2 DEF Placing
    <3> QED
      BY <1>1, <2>1, <3>1 DEF TimersRebuilt
  <2>3. CASE s # 0
    <3> DEFINE e == Entry(s, last)
               listed == t.m_active_timers (+) SetToBag({e})
               old == {t.m_closure[last]} \ {0}
    <3>1. /\ u.m_closure = [t.m_closure EXCEPT ![last] = s]
          /\ u.m_active_timers = Unlisted(listed, old)
      BY <2>3 DEF Placing
    <3>2. s \in 1..document.next_timer_seq /\ s \in 0..MaxSeq
      <4>1. s \in 0..document.next_timer_seq
        BY <1>2, <1>4
      <4>2. document.next_timer_seq \in 0..MaxSeq /\ MaxSeq \in Nat
        BY <1>1, RuntimeAssumption
      <4> HIDE DEF s
      <4> QED
        BY <2>3, <4>1, <4>2
    <3>3. /\ IsABag(listed) /\ IsFiniteSet(DOMAIN listed)
          /\ DOMAIN listed = DOMAIN t.m_active_timers \cup {e}
      <4> HIDE DEF e
      <4> QED
        BY <2>1, ListedToo DEF TimersRebuilt, Listing
    <3>4. Listing(u.m_active_timers) /\ DOMAIN u.m_active_timers \subseteq DOMAIN t.m_active_timers \cup {e}
      <4> HIDE DEF listed, old, e
      <4> QED
        BY <3>1, <3>3, UnlistedLess DEF Listing
    <3>5. /\ e \in [seq : 1..document.next_timer_seq, node : Node \cup {Gone}]
          /\ Reachable(t.root, e.node) /\ Parent[e.node] # NoNode
      <4>1. e.node = last /\ e = [seq |-> s, node |-> last]
        BY DEF Entry
      <4> HIDE DEF e, last, s
      <4> QED
        BY <1>3, <1>5, <3>2, <4>1
    <3>6. /\ u.m_closure \in [Node -> 0..MaxSeq]
          /\ \A n \in Node : u.m_closure[n] # 0 => u.root \in Lineage[n]
      <4>1. t.root \in Lineage[last]
        BY <1>3 DEF Reachable
      <4> HIDE DEF last, s
      <4> QED
        BY <1>1, <1>5, <2>1, <3>1, <3>2, <4>1 DEF TimersRebuilt
    <3> HIDE DEF e
    <3> QED
      BY <1>1, <2>1, <3>4, <3>5, <3>6 DEF TimersRebuilt
  <2> QED
    BY <2>2, <2>3
<1>8. u.m_fronts \in Seq(Node) /\ \A n \in ToSet(u.m_fronts) : Reachable(u.root, n)
  <2>1. u.m_fronts = Append(t.m_fronts, last) /\ t.m_fronts \in Seq(Node)
    BY DEF Placing, Rebuilt
  <2>2. ToSet(u.m_fronts) \subseteq ToSet(t.m_fronts) \cup {last} /\ u.m_fronts \in Seq(Node)
    <3>1. \A q \in Seq(Node), x \in Node : Append(q, x) \in Seq(Node)
            /\ \A i \in DOMAIN Append(q, x) : Append(q, x)[i] = x \/ (i \in DOMAIN q /\ Append(q, x)[i] = q[i])
      OBVIOUS
    <3> HIDE DEF last
    <3> QED
      BY <1>5, <2>1, <3>1 DEF ToSet
  <2>3. \A n \in ToSet(t.m_fronts) : Reachable(t.root, n)
    BY DEF Rebuilt
  <2> HIDE DEF last
  <2> QED
    BY <1>1, <1>3, <2>2, <2>3
<1> QED
  BY <1>1, <1>6, <1>7, <1>8 DEF Rebuilt

\* load_btree leaves members that fit together.
LEMMA LoadedRebuilt ==
  ASSUME RuntimeInvariant, document.tree # NoNode
  PROVE  DOMAIN Loaded(document) = Members /\ Rebuilt(Loaded(document))
<1> DEFINE hit == IF cur_root_node = NoNode THEN {}
                  ELSE Interrupted(m_state, next_child_idx, ToSet(m_fronts))
           new == IF cur_root_node \in {NoNode, document.tree} THEN {} ELSE Below(cur_root_node)
           t == Loaded(document)
<1>1. Typed /\ InTree /\ ActionsLast /\ TimersTyped /\ document.tree \in Roots
  BY DEF RuntimeInvariant, Running, Agreed, DocumentTyped
<1>2. /\ t = [root |-> document.tree,
              m_state |-> [n \in Node |-> IF n \in new THEN "init" ELSE Kill(m_state, hit)[n]],
              result |-> [n \in Node |-> IF n \in new THEN FALSE ELSE result[n]],
              next_child_idx |-> Rewind(next_child_idx, hit \cup new),
              m_shuffle |-> [n \in Node |-> IF n \in new THEN <<>> ELSE m_shuffle[n]],
              visited |-> visited \ new,
              m_closure |-> Without(new \cup hit),
              m_active_timers |-> EmptyBag,
              m_fronts |-> <<>>,
              faulted |-> Faults(hit)]
  BY DEF Loaded
<1>3. /\ DOMAIN t = Members /\ t.root = document.tree
      /\ t.m_state = [n \in Node |-> IF n \in new THEN "init" ELSE Kill(m_state, hit)[n]]
      /\ t.result = [n \in Node |-> IF n \in new THEN FALSE ELSE result[n]]
      /\ t.next_child_idx = Rewind(next_child_idx, hit \cup new)
      /\ t.m_shuffle = [n \in Node |-> IF n \in new THEN <<>> ELSE m_shuffle[n]]
      /\ t.visited = visited \ new /\ t.m_closure = Without(new \cup hit)
      /\ t.m_active_timers = EmptyBag /\ t.m_fronts = <<>>
  <2> HIDE DEF t, new, hit
  <2> QED
    BY <1>2 DEF Members
<1>4. ASSUME NEW n \in Node PROVE n \in hit => InLoaded(n)
  <2>1. ToSet(m_fronts) \subseteq Queued
    BY DEF Queued
  <2>2. \A s \in ToSet(m_fronts) : InLoaded(s)
    BY <1>1, QueuedLoaded, <2>1
  <2>3. \A m \in Interrupted(m_state, next_child_idx, ToSet(m_fronts)) : InLoaded(m)
    BY <1>1, <2>2, InterruptedLoaded
  <2> QED
    BY <2>3
<1>5. ASSUME NEW n \in Node, document.tree \notin Lineage[n]
      PROVE  (n \in new \/ ~InLoaded(n)) /\ (n \in new \/ n \notin hit)
  <2>1. ~InLoaded(n) \/ n \in new
    <3>1. InLoaded(n) => cur_root_node # NoNode /\ n \in Below(cur_root_node)
      BY InLineage, TreeAssumption DEF InLoaded, Below, Loadable
    <3>2. InLoaded(n) => cur_root_node # document.tree
      BY <1>5 DEF InLoaded
    <3> QED
      BY <3>1, <3>2
  <2> HIDE DEF new, hit
  <2> QED
    BY <1>4, <2>1
<1>6. NodesRebuilt(t)
  <2>1. t.m_state \in [Node -> States]
    <3>1. m_state \in [Node -> States] /\ {"init", "dead"} \subseteq States
      BY <1>1 DEF Typed, TypeOK, States
    <3> HIDE DEF t, new, hit
    <3>2. \A n \in Node : t.m_state[n] \in States
      BY <1>3, <3>1 DEF Kill
    <3>3. t.m_state = [n \in Node |-> t.m_state[n]]
      BY <1>3
    <3> QED
      BY <3>2, <3>3
  <2>2. t.next_child_idx \in [Node -> Nat]
    <3>1. next_child_idx \in [Node -> Nat]
      BY <1>1 DEF Typed, TypeOK
    <3> HIDE DEF t, new, hit
    <3> QED
      BY <1>3, <3>1, RewindType
  <2>3. /\ t.m_shuffle \in [Node -> Seq(Nat)]
        /\ \A n \in Node : t.m_shuffle[n] \in Seq(0..(Len(Children[n]) - 1))
    <3>1. /\ m_shuffle \in [Node -> Seq(Nat)] /\ <<>> \in Seq(Nat)
          /\ \A n \in Node : m_shuffle[n] \in Seq(0..(Len(Children[n]) - 1))
                             /\ <<>> \in Seq(0..(Len(Children[n]) - 1))
      BY <1>1, NoneQueued DEF Typed, TypeOK
    <3> HIDE DEF t, new, hit
    <3>2. \A n \in Node : /\ t.m_shuffle[n] \in Seq(Nat)
                          /\ t.m_shuffle[n] \in Seq(0..(Len(Children[n]) - 1))
      BY <1>3, <3>1
    <3>3. t.m_shuffle = [n \in Node |-> t.m_shuffle[n]]
      BY <1>3
    <3> QED
      BY <3>2, <3>3
  <2>4. t.result \in [Node -> BOOLEAN] /\ t.visited \in SUBSET Node
    BY <1>1, <1>3 DEF Typed, TypeOK
  <2>5. ASSUME NEW n \in Node
        PROVE  /\ t.m_state[n] = "awaken" => Arity(n) # 0
               /\ t.root \notin Lineage[n] => t.m_state[n] = "init"
               /\ t.m_state[n] \notin {"init", "dead"} => Runnable(n)
    <3> HIDE DEF t, new, hit
    <3>1. t.m_state[n] \in {"init", "dead", m_state[n]}
      BY <1>3 DEF Kill
    <3>2. t.root \notin Lineage[n] => t.m_state[n] = "init"
      <4>1. ~InLoaded(n) => m_state[n] = "init"
        BY <1>1 DEF InTree, InLoaded
      <4> QED
        BY <1>3, <1>5, <4>1 DEF Kill
    <3>3. m_state[n] = "awaken" => Arity(n) # 0
      BY <1>1 DEF Typed, Awakened
    <3> QED
      BY <1>1, <3>1, <3>2, <3>3 DEF ActionsLast
  <2> HIDE DEF t
  <2> QED
    BY <2>1, <2>2, <2>3, <2>4, <2>5 DEF NodesRebuilt
<1>7. TimersRebuilt(t)
  <2>1. t.m_closure \in [Node -> 0..MaxSeq]
    BY <1>1, <1>3, RuntimeAssumption DEF TimersTyped, Without
  <2>2. ASSUME NEW n \in Node, t.m_closure[n] # 0 PROVE t.root \in Lineage[n]
    <3> HIDE DEF t, new, hit
    <3>1. n \notin new /\ m_closure[n] # 0
      BY <1>3, <2>2 DEF Without
    <3>2. InLoaded(n)
      BY <1>1, <3>1 DEF TimersTyped
    <3> QED
      BY <1>3, <1>5, <3>1, <3>2
  <2>3. Listing(t.m_active_timers) /\ DOMAIN t.m_active_timers = {}
    BY <1>3, NothingListed
  <2> HIDE DEF t
  <2> QED
    BY <2>1, <2>2, <2>3 DEF TimersRebuilt
<1>8. t.m_fronts \in Seq(Node) /\ ToSet(t.m_fronts) = {}
  <2>1. <<>> \in Seq(Node) /\ ToSet(<<>>) = {}
    BY DEF ToSet
  <2> QED
    BY <1>3, <2>1
<1> HIDE DEF t
<1>9. Rebuilt(t)
  BY <1>3, <1>6, <1>7, <1>8 DEF Rebuilt
<1> QED
  BY <1>3, <1>9 DEF t

\* Neither does any number of chains, unless a chain cannot be decoded.
LEMMA RestoringRebuilt ==
  ASSUME RuntimeInvariant, document.tree # NoNode,
         NEW k \in 0..Len(document.front_nodes)
  PROVE  LET t == Restoring(document)[k] IN DOMAIN t = Members /\ (t.faulted \/ Rebuilt(t))
<1> DEFINE after == Restoring(document)
           ok(j) == DOMAIN after[j] = Members /\ (after[j].faulted \/ Rebuilt(after[j]))
           T == {j \in 0..Len(document.front_nodes) : ~ok(j)}
<1>1. /\ DocumentTyped /\ document.front_nodes \in Seq(Seq(Link(document.next_timer_seq)))
      /\ Len(document.front_nodes) \in Nat
  BY DEF RuntimeInvariant, DocumentTyped
<1>2. ok(0)
  BY <1>1, RestoringSteps, LoadedRebuilt
<1>3. ASSUME NEW j \in 1..Len(document.front_nodes), ok(j - 1) PROVE ok(j)
  <2> DEFINE t == after[j - 1]
             chain == document.front_nodes[j]
             u == after[j]
  <2>1. u = Restored(t, chain)
    BY <1>1, RestoringSteps
  <2>2. chain \in Seq(Link(document.next_timer_seq)) /\ Len(chain) \in Nat
    BY <1>1
  <2>3. Len(chain) > 0 => Arity(document.tree) > 0
    BY <1>1 DEF DocumentTyped
  <2>4. DOMAIN t = Members /\ (t.faulted \/ Rebuilt(t))
    BY <1>3
  <2> HIDE DEF t, chain, u
  <2>5. DOMAIN u = Members /\ (u.faulted \/ (~t.faulted /\ Placing(t, chain, u)))
    BY <2>1, <2>2, <2>4, RestoredMembers
  <2>6. u.faulted \/ Rebuilt(u)
    BY <1>1, <2>2, <2>3, <2>4, <2>5, PlacingRebuilt
  <2> QED
    BY <2>5, <2>6 DEF u
<1>4. T = {}
  <2> HIDE DEF ok
  <2> SUFFICES ASSUME T # {} PROVE FALSE
    OBVIOUS
  <2>1. T \subseteq Nat
    BY <1>1
  <2>2. PICK m \in T : \A x \in T : m <= x
    BY <2>1, LeastNatural
  <2>3. m \in 1..Len(document.front_nodes) /\ m - 1 \in 0..Len(document.front_nodes)
        /\ m - 1 \notin T
    BY <1>1, <1>2, <2>1, <2>2
  <2> QED
    BY <1>3, <2>2, <2>3
<1> QED
  BY <1>4

----------------------------------------------------------------------------
(* decode: what was saved comes back.                                      *)

\* The chain of a node leads back to it.
LEMMA Retraces ==
  ASSUME NEW t, t.root \in Roots, NEW max, NEW chain \in Seq(Link(max)), Len(chain) > 0,
         NEW n \in Node, t.root \in Lineage[n], LeadsTo(chain, n),
         \A j \in 2..Len(chain) : \A s \in chain[j - 1].data.shuffles :
           chain[j].idx < Len(s) /\ s[chain[j].idx + 1] = chain[j].idx
  PROVE  /\ Walk(t, chain)[Len(chain)] = n
         /\ \A j \in 1..Len(chain) : Walk(t, chain)[j] = Path(n)[j]
<1> DEFINE at == Walk(t, chain)
           k == Len(chain)
           T == {j \in 1..k : at[j] # Path(n)[j]}
<1>1. k \in Nat /\ k > 0 /\ k = Depth(n) - 1 /\ Depth(n) \in Nat
  <2>1. DOMAIN chain = 1..k /\ k \in Nat
    OBVIOUS
  <2>2. 1..k = 1..(Depth(n) - 1) /\ Depth(n) \in Nat \ {0}
    BY <2>1, PathSteps DEF LeadsTo
  <2>3. \A x, y \in Nat : 1..x = 1..y => x = y
    <3> SUFFICES ASSUME NEW x \in Nat, NEW y \in Nat, 1..x = 1..y, x # y PROVE FALSE
      OBVIOUS
    <3>1. x \in 1..x <=> x \in 1..y
      OBVIOUS
    <3>2. y \in 1..x <=> y \in 1..y
      OBVIOUS
    <3> QED
      BY <3>1, <3>2
  <2>4. Depth(n) - 1 \in Nat
    BY <2>2
  <2> QED
    BY <2>1, <2>2, <2>3, <2>4
<1>2. ASSUME NEW j \in 1..k, j > 1 => at[j - 1] = Path(n)[j - 1] PROVE at[j] = Path(n)[j]
  <2> DEFINE x == Path(n)[j]
             p == at[j - 1]
             i == chain[j].idx
  <2>1. /\ x \in Lineage[n] /\ x \in Node /\ p = Parent[x] /\ p \in Node /\ p \in Lineage[n]
        /\ Parent[x] # NoNode
    <3>1. /\ x \in Lineage[n] /\ x \in Node /\ Parent[x] \in Node \cap Lineage[n]
          /\ Parent[x] # NoNode
          /\ j > 1 => Parent[x] = Path(n)[j - 1]
          /\ j = 1 => Parent[x] = t.root
      BY <1>1, PathSteps
    <3>2. j = 1 => at[j - 1] = t.root
      BY <1>1, WalkSteps
    <3> HIDE DEF at, x
    <3> QED
      BY <1>1, <1>2, <3>1, <3>2
  <2>2. i = IndexInParent(x) /\ i \in 0..(Arity(p) - 1) /\ Child(p, i) = x
    <3>1. i = IndexInParent(x)
      BY <1>1 DEF LeadsTo
    <3> HIDE DEF p, x, i
    <3> QED
      BY <2>1, <3>1, IndexOfChild
  <2>3. Arity(p) \in Nat /\ i < Arity(p) /\ p # Gone
    BY <2>1, <2>2, ArityType, RuntimeAssumption
  <2>4. Kind[p] # "action"
    <3>1. p # n
      <4> SUFFICES ASSUME p = n PROVE FALSE
        OBVIOUS
      <4>1. n \in Lineage[x]
        BY <2>1, ParentHasChild, ChildLineage, InLineage
      <4>2. x = n
        BY <2>1, <4>1, LineageAntisymmetric
      <4> QED
        BY <2>1, <4>2, InLineage, TreeAssumption DEF Created
    <3> QED
      BY <2>1, <3>1 DEF LeadsTo, Runnable
  <2>5. at[j] = Onward(t, chain, j, p)
    BY <1>1, WalkSteps
  <2>6. CASE Kind[p] = "random_seq"
    <3>1. p # t.root
      BY <2>6, TreeAssumption DEF Rooted
    <3>2. j # 1
      BY <1>1, <3>1, WalkSteps
    <3>3. j \in 2..k /\ j - 1 \in DOMAIN chain /\ p = Path(n)[j - 1]
      BY <1>1, <1>2, <3>2
    <3>4. chain[j - 1].data.shuffles # {}
      BY <2>6, <3>3 DEF LeadsTo
    <3> DEFINE s == Shuffle(t, p, chain[j - 1].data)
    <3>5. s \in chain[j - 1].data.shuffles
      BY <2>6, <3>4 DEF Shuffle
    <3>6. i < Len(s) /\ s[i + 1] = i
      BY <3>3, <3>5
    <3>7. at[j] = Descend(p, s, i)
      BY <2>3, <2>5, <3>2 DEF Onward
    <3> HIDE DEF s, p, i, at
    <3> QED
      BY <2>2, <2>3, <2>6, <3>6, <3>7 DEF Descend
  <2>7. CASE Kind[p] # "random_seq"
    <3> HIDE DEF p, at
    <3> QED
      BY <2>2, <2>3, <2>4, <2>5, <2>7 DEF Onward, Descend
  <2> QED
    BY <2>6, <2>7
<1>3. T = {}
  <2> HIDE DEF at
  <2> SUFFICES ASSUME T # {} PROVE FALSE
    OBVIOUS
  <2>1. T \subseteq Nat
    BY <1>1
  <2>2. PICK m \in T : \A y \in T : m <= y
    BY <2>1, LeastNatural
  <2>3. m > 1 => m - 1 \in 1..k /\ m - 1 \notin T
    BY <1>1, <2>1, <2>2
  <2> QED
    BY <1>2, <2>2, <2>3
<1>4. Path(n)[k] = n
  BY <1>1, PathSteps
<1> QED
  BY <1>1, <1>3, <1>4

\* k chains of a document of an intact, blocking tree have put its nodes back,
\* with the numbers that they had.
Reheld(t, q, k) ==
  /\ Len(t.m_fronts) = k
  /\ \A i \in 1..k :
       /\ t.m_fronts[i] = q[i]
       /\ document.front_nodes[i] # <<>>
       /\ t.m_closure[q[i]] = Kept(document.front_nodes[i])
       /\ Kept(document.front_nodes[i]) # 0 =>
            Entry(Kept(document.front_nodes[i]), q[i]) \in DOMAIN t.m_active_timers
  /\ \A n \in Node : t.m_closure[n] # 0 => \E i \in 1..k : n = q[i]
  /\ \A e \in DOMAIN t.m_active_timers : \E i \in 1..k :
       e = Entry(Kept(document.front_nodes[i]), q[i])

\* And so has one more.  A node that is queued twice has the same number in both
\* chains: its closure takes out what is listed twice by then.
LEMMA PlacingReheld ==
  ASSUME DocumentTyped, document.tree # NoNode, Straight(document),
         NEW q \in [DOMAIN document.front_nodes -> Node], Queueing(q),
         NEW k \in 1..Len(document.front_nodes),
         NEW t, Rebuilt(t), Reheld(t, q, k - 1),
         NEW u, Placing(t, document.front_nodes[k], u)
  PROVE  Reheld(u, q, k)
<1> DEFINE D == document.front_nodes
           chain == D[k]
           s == Kept(chain)
           n == q[k]
<1>1. /\ D \in Seq(Seq(Link(document.next_timer_seq))) /\ DOMAIN D = 1..Len(D) /\ Len(D) \in Nat
      /\ document.tree \in Roots /\ t.root = document.tree
  BY DEF DocumentTyped, Rebuilt
<1>2. chain \in Seq(Link(document.next_timer_seq)) /\ k \in DOMAIN q /\ k \in DOMAIN D
      /\ n \in Node /\ k \in Nat
  BY <1>1
<1>3. Len(chain) > 0 /\ chain # <<>> /\ s = chain[Len(chain)].data.closure
  BY <1>2 DEF Placing, Kept
<1>4. Walk(t, chain)[Len(chain)] = n
  <2>1. document.tree \in Lineage[n] /\ LeadsTo(chain, n)
    BY <1>2 DEF Queueing
  <2>2. \A j \in 2..Len(chain) : \A x \in chain[j - 1].data.shuffles :
          chain[j].idx < Len(x) /\ x[chain[j].idx + 1] = chain[j].idx
    BY <1>2 DEF Straight
  <2>3. t.root \in Roots /\ t.root \in Lineage[n]
    BY <1>1, <2>1
  <2> HIDE DEF chain, n, D
  <2> QED
    BY <1>2, <1>3, <2>1, <2>2, <2>3, Retraces
<1>5. /\ u.m_fronts = Append(t.m_fronts, n)
      /\ s = 0 => u.m_closure = t.m_closure /\ u.m_active_timers = t.m_active_timers
      /\ s # 0 =>
           /\ u.m_closure = [t.m_closure EXCEPT ![n] = s]
           /\ u.m_active_timers = Unlisted(t.m_active_timers (+) SetToBag({Entry(s, n)}),
                                           {t.m_closure[n]} \ {0})
  BY <1>3, <1>4 DEF Placing
<1>6. /\ t.m_fronts \in Seq(Node) /\ t.m_closure \in [Node -> 0..MaxSeq]
      /\ Listing(t.m_active_timers)
      /\ \A e \in DOMAIN t.m_active_timers : e.seq # 0
  BY DEF Rebuilt, TimersRebuilt
<1>7. ASSUME NEW i \in 1..(k - 1)
      PROVE  /\ i \in DOMAIN q /\ q[i] \in Node /\ i \in 1..k /\ D[i] # <<>>
             /\ t.m_closure[q[i]] = Kept(D[i])
             /\ q[i] = n => Kept(D[i]) = s
             /\ Kept(D[i]) = s /\ s # 0 => q[i] = n
  <2>1. i \in DOMAIN q /\ q[i] \in Node /\ i \in 1..k
    <3>1. i \in 1..k /\ i \in 1..Len(D) /\ DOMAIN q = 1..Len(D)
      BY <1>1, <1>2
    <3> QED
      BY <3>1
  <2>2. D[i] # <<>> /\ t.m_closure[q[i]] = Kept(D[i])
    BY DEF Reheld
  <2>3. /\ q[k] = q[i] => Kept(D[k]) = Kept(D[i])
        /\ Kept(D[k]) = Kept(D[i]) /\ Kept(D[k]) # 0 => q[k] = q[i]
    BY <1>2, <1>3, <2>1, <2>2 DEF Queueing
  <2> QED
    BY <2>1, <2>2, <2>3
<1>8. t.m_closure[n] # 0 => t.m_closure[n] = s
  BY <1>2, <1>7 DEF Reheld
<1>9. \A i \in 1..k : i = k \/ i \in 1..(k - 1)
  BY <1>2
<1>10. Len(u.m_fronts) = k /\ \A i \in 1..k : u.m_fronts[i] = q[i]
  <2>1. Len(t.m_fronts) = k - 1 /\ \A i \in 1..(k - 1) : t.m_fronts[i] = q[i]
    BY DEF Reheld
  <2>2. \A f \in Seq(Node), x \in Node :
          /\ Len(Append(f, x)) = Len(f) + 1 /\ Append(f, x)[Len(f) + 1] = x
          /\ \A i \in 1..Len(f) : Append(f, x)[i] = f[i]
    OBVIOUS
  <2> HIDE DEF n
  <2> QED
    BY <1>2, <1>5, <1>6, <1>9, <2>1, <2>2 DEF n
<1>11. \A i \in 1..k : D[i] # <<>> /\ u.m_closure[q[i]] = Kept(D[i])
  <2> HIDE DEF n, s, chain
  <2>1. u.m_closure[n] = s
    BY <1>2, <1>5, <1>6, <1>8
  <2>2. \A i \in 1..(k - 1) : D[i] # <<>> /\ u.m_closure[q[i]] = Kept(D[i])
    BY <1>2, <1>5, <1>6, <1>7, <2>1
  <2> QED
    BY <1>3, <1>9, <2>1, <2>2 DEF n, s, chain
<1>12. \A m \in Node : u.m_closure[m] # 0 => \E i \in 1..k : m = q[i]
  <2>1. ASSUME NEW m \in Node, u.m_closure[m] # 0 PROVE m = n \/ t.m_closure[m] # 0
    <3> HIDE DEF n, s
    <3> QED
      BY <1>2, <1>5, <1>6, <2>1
  <2>2. \A m \in Node : t.m_closure[m] # 0 => \E i \in 1..(k - 1) : m = q[i]
    BY DEF Reheld
  <2> QED
    BY <1>2, <1>7, <2>1, <2>2
<1>13. /\ \A e \in DOMAIN u.m_active_timers : \E i \in 1..k : e = Entry(Kept(D[i]), q[i])
       /\ \A i \in 1..k : Kept(D[i]) # 0 => Entry(Kept(D[i]), q[i]) \in DOMAIN u.m_active_timers
  <2>1. /\ \A e \in DOMAIN t.m_active_timers : \E i \in 1..(k - 1) : e = Entry(Kept(D[i]), q[i])
        /\ \A i \in 1..(k - 1) : Kept(D[i]) # 0 =>
             Entry(Kept(D[i]), q[i]) \in DOMAIN t.m_active_timers
    BY DEF Reheld
  <2>2. CASE s = 0
    BY <1>5, <1>7, <1>9, <2>1, <2>2
  <2>3. CASE s # 0
    <3> DEFINE here == Entry(s, n)
               listed == t.m_active_timers (+) SetToBag({here})
               old == {t.m_closure[n]} \ {0}
    <3>1. /\ IsABag(listed) /\ DOMAIN listed = DOMAIN t.m_active_timers \cup {here}
          /\ here \in DOMAIN t.m_active_timers => listed[here] > 1
      <4> HIDE DEF here
      <4> QED
        BY <1>6, ListedToo DEF Listing
    <3>2. /\ u.m_active_timers = Unlisted(listed, old)
          /\ DOMAIN Unlisted(listed, old) \subseteq DOMAIN listed
          /\ \A e \in DOMAIN listed : e.seq \notin old \/ listed[e] > 1
                                      => e \in DOMAIN Unlisted(listed, old)
      <4>1. u.m_active_timers = Unlisted(listed, old)
        BY <1>5, <2>3
      <4> HIDE DEF listed, old
      <4> QED
        BY <3>1, <4>1, UnlistedLess
    <3>3. ASSUME NEW e \in DOMAIN listed PROVE e.seq \notin old \/ listed[e] > 1
      <4>1. CASE t.m_closure[n] = 0
        BY <4>1
      <4>2. CASE t.m_closure[n] # 0
        <5>1. old = {s}
          BY <1>8, <4>2
        <5>2. PICK j \in 1..(k - 1) : n = q[j]
          BY <1>2, <4>2 DEF Reheld
        <5>3. Kept(D[j]) = s /\ here = Entry(Kept(D[j]), q[j])
          BY <1>7, <5>2
        <5>4. here \in DOMAIN t.m_active_timers
          BY <2>1, <2>3, <5>3
        <5>5. ASSUME e.seq = s, e # here PROVE FALSE
          <6>1. e \in DOMAIN t.m_active_timers
            BY <3>1, <5>5
          <6>2. PICK i \in 1..(k - 1) : e = Entry(Kept(D[i]), q[i])
            BY <2>1, <6>1
          <6>3. Kept(D[i]) = s /\ q[i] = n
            <7>1. e.seq = Kept(D[i])
              BY <6>2 DEF Entry
            <7> QED
              BY <1>7, <2>3, <5>5, <7>1
          <6> QED
            BY <5>5, <6>2, <6>3
        <5> HIDE DEF listed, old, here
        <5> QED
          BY <3>1, <5>1, <5>4, <5>5
      <4> QED
        BY <4>1, <4>2
    <3>4. DOMAIN u.m_active_timers = DOMAIN t.m_active_timers \cup {here}
      <4> HIDE DEF listed, old, here
      <4> QED
        BY <3>1, <3>2, <3>3
    <3>5. here = Entry(Kept(D[k]), q[k])
      OBVIOUS
    <3> HIDE DEF here
    <3> QED
      BY <1>2, <1>7, <1>9, <2>1, <3>4, <3>5
  <2> QED
    BY <2>2, <2>3
<1> QED
  BY <1>10, <1>11, <1>12, <1>13 DEF Reheld

\* All of them put all of it back.
LEMMA RestoringReheld ==
  ASSUME RuntimeInvariant, document.tree # NoNode,
         Straight(document), Released(document),
         NEW q \in [DOMAIN document.front_nodes -> Node], Queueing(q),
         NEW k \in 0..Len(document.front_nodes)
  PROVE  Restoring(document)[k].faulted \/ Reheld(Restoring(document)[k], q, k)
<1> DEFINE after == Restoring(document)
           ok(j) == after[j].faulted \/ Reheld(after[j], q, j)
           T == {j \in 0..Len(document.front_nodes) : ~ok(j)}
<1>1. /\ DocumentTyped /\ document.front_nodes \in Seq(Seq(Link(document.next_timer_seq)))
      /\ Len(document.front_nodes) \in Nat
  BY DEF RuntimeInvariant, DocumentTyped
<1>2. ok(0)
  <2>1. after[0] = Loaded(document)
    BY <1>1, RestoringSteps
  <2>2. /\ Loaded(document).m_fronts = <<>> /\ Loaded(document).m_active_timers = EmptyBag
        /\ \A n \in Node : Loaded(document).m_closure[n] = 0
    BY DEF Loaded, Released
  <2>3. DOMAIN EmptyBag = {} /\ Len(<<>>) = 0
    BY NothingListed
  <2> QED
    BY <2>1, <2>2, <2>3 DEF Reheld
<1>3. ASSUME NEW j \in 1..Len(document.front_nodes), ok(j - 1) PROVE ok(j)
  <2> DEFINE t == after[j - 1]
             chain == document.front_nodes[j]
             u == after[j]
  <2>1. u = Restored(t, chain) /\ Len(chain) \in Nat
    BY <1>1, RestoringSteps
  <2>2. DOMAIN t = Members /\ (t.faulted \/ Rebuilt(t))
    <3>1. j - 1 \in 0..Len(document.front_nodes)
      BY <1>1
    <3> QED
      BY <3>1, RestoringRebuilt
  <2>3. t.faulted \/ Reheld(t, q, j - 1)
    BY <1>3
  <2> HIDE DEF t, u
  <2>4. u.faulted \/ (~t.faulted /\ Placing(t, chain, u))
    BY <2>1, <2>2, RestoredMembers
  <2>5. u.faulted \/ Reheld(u, q, j)
    BY <1>1, <2>2, <2>3, <2>4, PlacingReheld
  <2> QED
    BY <2>5 DEF u
<1>4. T = {}
  <2> HIDE DEF ok
  <2> SUFFICES ASSUME T # {} PROVE FALSE
    OBVIOUS
  <2>1. T \subseteq Nat
    BY <1>1
  <2>2. PICK m \in T : \A x \in T : m <= x
    BY <2>1, LeastNatural
  <2>3. m \in 1..Len(document.front_nodes) /\ m - 1 \in 0..Len(document.front_nodes)
        /\ m - 1 \notin T
    BY <1>1, <1>2, <2>1, <2>2
  <2> QED
    BY <1>3, <2>2, <2>3
<1> QED
  BY <1>4

\* A decoded agent.
LEMMA DecodeInvariant ==
  ASSUME RuntimeInvariant, Decode
  PROVE  RuntimeInvariant'
<1> DEFINE last == Len(document.front_nodes)
           t == Restoring(document)[last]
<1>1. /\ pc = "idle" /\ document.tree # NoNode
      /\ m_blackboard' = IF cur_root_node = NoNode THEN document.blackboards ELSE <<>>
      /\ m_next_timer_seq' = document.next_timer_seq
      /\ UNCHANGED <<registered, document, saved_ready>>
  BY DEF Decode
<1>2. /\ Typed /\ InTree /\ ActionsLast /\ TimersTyped /\ DocumentTyped /\ DocumentHeld
      /\ document.tree \in Roots /\ document.next_timer_seq \in 0..MaxSeq
      /\ last \in Nat /\ last \in 0..last
  BY <1>1 DEF RuntimeInvariant, Running, Agreed, DocumentTyped
<1>3. t.faulted \/ Rebuilt(t)
  BY <1>1, <1>2, RestoringRebuilt
<1>4. DocumentTyped' /\ DocumentHeld'
  BY <1>1, <1>2 DEF DocumentTyped, DocumentHeld, Queueing
<1>5. BlackboardTyped'
  <2>1. \A k \in DOMAIN <<>> : Fits(<<>>[k])
    OBVIOUS
  <2> QED
    BY <1>1, <1>2, <2>1 DEF BlackboardTyped, DocumentTyped
<1>6. IsABag(registered') /\ DOMAIN registered' \subseteq 1..MaxSeq
  BY <1>1, <1>2 DEF TimersTyped
<1>7. CASE t.faulted
  <2>1. Crash /\ m_active_timers' = EmptyBag /\ UNCHANGED m_closure
    BY <1>7 DEF Decode
  <2>2. Typed' /\ InTree' /\ Spread
    BY <1>2, <2>1, CrashType, CrashInTree, CrashSpreads
  <2>3. Agreed'
    BY <1>2, <2>1, <2>2 DEF Crash, Agreed, Spread, Gets, ActionsLast, Runnable
  <2>4. Held'
    BY <2>1 DEF Crash, Held
  <2>5. TimersTyped'
    <3>1. IsABag(m_active_timers') /\ IsFiniteSet(DOMAIN m_active_timers')
          /\ DOMAIN m_active_timers' = {}
      BY <2>1, NothingListed DEF Listing
    <3>2. /\ m_closure' \in [Node -> 0..MaxSeq] /\ document'.tree # NoNode
          /\ \A n \in Node : m_closure'[n] # 0 => InLoaded(n)'
      BY <1>1, <1>2, <2>1 DEF TimersTyped, InLoaded, Crash
    <3> QED
      BY <1>1, <1>2, <1>6, <3>1, <3>2 DEF TimersTyped
  <2> QED
    BY <1>4, <1>5, <2>3, <2>4, <2>5 DEF RuntimeInvariant, Running
<1>8. CASE ~t.faulted
  <2>1. /\ cur_root_node' = t.root /\ m_state' = t.m_state /\ result' = t.result
        /\ next_child_idx' = t.next_child_idx /\ m_shuffle' = t.m_shuffle
        /\ visited' = t.visited /\ m_closure' = t.m_closure
        /\ m_active_timers' = t.m_active_timers /\ m_fronts' = t.m_fronts
        /\ intact' = (saved_ready /\ Straight(document) /\ Released(document))
        /\ IF cur_root_node = NoNode
           THEN UNCHANGED <<m_pre_fronts, m_events, m_enabled, reset_flag>>
           ELSE /\ m_pre_fronts' = <<>>
                /\ m_events' = <<>>
                /\ m_enabled' = FALSE
                /\ reset_flag' = TRUE
        /\ UNCHANGED <<m_during_poll, pollVars>>
    BY <1>8 DEF Decode
  <2>2. Rebuilt(t) /\ NodesRebuilt(t) /\ TimersRebuilt(t) /\ t.root = document.tree
    BY <1>3, <1>8 DEF Rebuilt
  <2> HIDE DEF t, last
  <2>3. m_pre_fronts' = <<>> /\ Queued' = ToSet(t.m_fronts)
    <3>1. m_pre_fronts' = <<>>
      BY <1>1, <1>2, <2>1 DEF InTree
    <3>2. ToSet(<<>>) = {}
      BY DEF ToSet
    <3> QED
      BY <2>1, <3>1, <3>2 DEF Queued
  <2>4. Typed'
    <3>1. /\ cur_root_node' \in Roots \cup {NoNode} /\ m_fronts' \in Seq(Node)
          /\ m_pre_fronts' \in Seq(Node)
          /\ m_state' \in [Node -> States] /\ result' \in [Node -> BOOLEAN]
          /\ next_child_idx' \in [Node -> Nat] /\ m_shuffle' \in [Node -> Seq(Nat)]
          /\ \A n \in Node : m_shuffle'[n] \in Seq(0..(Len(Children[n]) - 1))
          /\ visited' \in SUBSET Node
      BY <1>2, <2>1, <2>2, <2>3, NoneQueued DEF Rebuilt, NodesRebuilt
    <3>2. /\ m_events' \in Seq(Event) /\ m_enabled' \in BOOLEAN /\ reset_flag' \in BOOLEAN
      <4>1. <<>> \in Seq(Event)
        BY NoneQueued
      <4> QED
        BY <1>2, <2>1, <4>1 DEF Typed, TypeOK
    <3>3. /\ m_during_poll' \in BOOLEAN /\ poll_result' \in BOOLEAN /\ any_ready' \in BOOLEAN
          /\ pc' \in {"idle", "loop", "events", "fronts", "crashed"}
      BY <1>2, <2>1 DEF Typed, TypeOK, pollVars
    <3>4. intact' \in BOOLEAN
      BY <2>1
    <3>5. Awakened'
      BY <2>1, <2>2, ArityType DEF Awakened, NodesRebuilt
    <3> QED
      BY <3>1, <3>2, <3>3, <3>4, <3>5 DEF Typed, TypeOK
  <2>5. InTree' /\ ActionsLast'
    <3>1. \A n \in Queued' : Reachable(t.root, n)
      BY <2>2, <2>3 DEF Rebuilt
    <3>2. InTree'
      BY <2>1, <2>2, <2>3, <3>1 DEF InTree, NodesRebuilt, Reachable
    <3>3. ActionsLast'
      BY <2>1, <2>2, <3>1 DEF ActionsLast, Runnable, NodesRebuilt, Reachable
    <3> QED
      BY <3>2, <3>3
  <2>6. TimersTyped'
    <3>1. ASSUME NEW e \in DOMAIN m_active_timers'
          PROVE  /\ e \in [seq : 1..m_next_timer_seq', node : Node \cup {Gone}]
                 /\ e.node # Gone => Waiter(e.node)'
      <4>1. /\ e \in [seq : 1..document.next_timer_seq, node : Node \cup {Gone}]
            /\ e.node # Gone => Reachable(t.root, e.node) /\ Parent[e.node] # NoNode
        BY <2>1, <2>2 DEF TimersRebuilt
      <4> QED
        BY <1>1, <2>1, <4>1 DEF Waiter, InLoaded, Reachable, Runnable
    <3>2. /\ m_closure' \in [Node -> 0..MaxSeq] /\ document'.tree # NoNode
          /\ \A n \in Node : m_closure'[n] # 0 => InLoaded(n)'
          /\ IsABag(m_active_timers') /\ IsFiniteSet(DOMAIN m_active_timers')
      BY <1>1, <2>1, <2>2 DEF TimersRebuilt, InLoaded, Listing
    <3> QED
      BY <1>1, <1>2, <1>6, <3>1, <3>2 DEF TimersTyped
  <2>7. Held'
    <3> SUFFICES ASSUME intact' PROVE Held'
      BY DEF Held
    <3>1. saved_ready /\ Straight(document) /\ Released(document)
      BY <2>1
    <3>2. PICK q \in [DOMAIN document.front_nodes -> Node] : Queueing(q)
      BY <1>2, <3>1 DEF DocumentHeld
    <3>3. Reheld(t, q, last)
      BY <1>1, <1>2, <1>8, <3>1, <3>2, RestoringReheld DEF t, last
    <3> DEFINE D == document.front_nodes
    <3>4. D \in Seq(Seq(Link(document.next_timer_seq))) /\ DOMAIN q = 1..last /\ last = Len(D)
      BY <1>2 DEF DocumentTyped, last
    <3> HIDE DEF D
    <3>5. ASSUME NEW i \in 1..last
          PROVE  /\ q[i] \in Node /\ m_closure'[q[i]] = Kept(D[i])
                 /\ Kept(D[i]) \in 0..document.next_timer_seq
                 /\ Kept(D[i]) # 0 => Entry(Kept(D[i]), q[i]) \in DOMAIN m_active_timers'
                 /\ q[i] \in Waits => Kept(D[i]) # 0
                 /\ \A l \in 1..last : Kept(D[i]) = Kept(D[l]) /\ Kept(D[i]) # 0 => q[i] = q[l]
      <4>1. q[i] \in Node
        BY <3>4
      <4>2. /\ D[i] # <<>> /\ m_closure'[q[i]] = Kept(D[i])
            /\ Kept(D[i]) # 0 => Entry(Kept(D[i]), q[i]) \in DOMAIN m_active_timers'
        BY <2>1, <3>3 DEF Reheld, D
      <4>3. \A l \in 1..last : D[l] # <<>>
        BY <3>3 DEF Reheld, D
      <4>4. /\ q[i] \in Waits => Kept(D[i]) # 0
            /\ \A l \in 1..last : Kept(D[i]) = Kept(D[l]) /\ Kept(D[i]) # 0 => q[i] = q[l]
        BY <3>2, <3>4, <4>2, <4>3 DEF Queueing, D
      <4>5. D[i] \in Seq(Link(document.next_timer_seq))
        BY <3>4
      <4>6. D[i][Len(D[i])] \in Link(document.next_timer_seq)
        BY <4>2, <4>5
      <4>7. Kept(D[i]) \in 0..document.next_timer_seq
        BY <4>6 DEF Kept, Link
      <4> QED
        BY <4>1, <4>2, <4>4, <4>7
    <3>6. \A n \in Node : m_closure'[n] # 0 => \E i \in 1..last : n = q[i]
      BY <2>1, <3>3 DEF Reheld
    <3>7. \A e \in DOMAIN m_active_timers' : \E i \in 1..last : e = Entry(Kept(D[i]), q[i])
      BY <2>1, <3>3 DEF Reheld, D
    <3>8. \A n \in Node : m_closure'[n] <= m_next_timer_seq'
      <4>1. m_closure' \in [Node -> 0..MaxSeq]
        BY <2>1, <2>2 DEF TimersRebuilt
      <4> QED
        BY <1>1, <1>2, <3>5, <3>6, <4>1
    <3>9. \A n, m \in Node : m_closure'[n] # 0 /\ m_closure'[n] = m_closure'[m] => n = m
      BY <3>5, <3>6
    <3>10. ASSUME NEW n \in Node, m_closure'[n] # 0,
                  NEW e \in Entries(m_active_timers', m_closure'[n])
           PROVE  e.node = n
      <4>1. e \in DOMAIN m_active_timers' /\ e.seq = m_closure'[n]
        BY DEF Entries, BagToSet
      <4>2. PICK l \in 1..last : e = Entry(Kept(D[l]), q[l])
        BY <3>7, <4>1
      <4>3. PICK i \in 1..last : n = q[i]
        BY <3>6, <3>10
      <4>4. e.seq = Kept(D[l]) /\ e.node = q[l]
        BY <4>2 DEF Entry
      <4> QED
        BY <3>5, <3>10, <4>1, <4>3, <4>4
    <3>11. ASSUME NEW n \in Waits \cap Queued'
           PROVE  m_closure'[n] # 0 /\ Entries(m_active_timers', m_closure'[n]) # {}
      <4>1. PICK i \in 1..last : n = q[i]
        <5>1. n \in ToSet(t.m_fronts)
          BY <2>3
        <5>2. t.m_fronts \in Seq(Node) /\ Len(t.m_fronts) = last
              /\ \A i \in 1..last : t.m_fronts[i] = q[i]
          BY <2>2, <3>3 DEF Rebuilt, Reheld
        <5> QED
          BY <5>1, <5>2 DEF ToSet
      <4>2. m_closure'[n] # 0 /\ Entry(m_closure'[n], n) \in DOMAIN m_active_timers'
        BY <3>5, <4>1
      <4>3. Entry(m_closure'[n], n).seq = m_closure'[n]
        BY DEF Entry
      <4> QED
        BY <4>2, <4>3 DEF Entries, BagToSet
    <3> QED
      BY <3>8, <3>9, <3>10, <3>11 DEF Held
  <2> QED
    BY <1>4, <1>5, <2>4, <2>5, <2>6, <2>7 DEF RuntimeInvariant, Running, Agreed
<1> QED
  BY <1>7, <1>8

----------------------------------------------------------------------------
(* A document that is read and written again.                              *)

\* The chain of n, when closures and shuffles are K and S.
ChainWith(n, K, S) ==
  [j \in DOMAIN Path(n) |->
     [idx |-> IndexInParent(Path(n)[j]),
      data |-> [closure |-> K[Path(n)[j]],
                shuffles |-> IF Kind[Path(n)[j]] = "random_seq" THEN {S[Path(n)[j]]} ELSE {}]]]

\* Every random_seq has dealt out all its children, or was not entered.
Dealt == \A n \in Node : Kind[n] = "random_seq" => Deals(n, m_shuffle[n])

\* Only waits have closures.
Waited == \A n \in Node : m_closure[n] # 0 => n \in Waits

\* Composites and roots do not block.
BlockedLeaves == \A n \in Node : m_state[n] = "blocking" => Kind[n] \in LeafKinds

\* document is what encode makes of the queue q, the closures K and the shuffles S
\* of an intact, blocking tree.
Written(q, K, S) ==
  /\ document = [tree |-> document.tree,
                 blackboards |-> document.blackboards,
                 front_nodes |-> [k \in DOMAIN q |-> ChainWith(q[k], K, S)],
                 next_timer_seq |-> document.next_timer_seq]
  /\ q \in Seq(Node)
  /\ \A k \in DOMAIN q :
       /\ document.tree \in Lineage[q[k]] /\ Runnable(q[k]) /\ Parent[q[k]] # NoNode
       /\ q[k] \in Waits => K[q[k]] # 0
  /\ \A n \in Node : K[n] # 0 => n \in Waits
  /\ \A n \in Node : Kind[n] = "random_seq" => Deals(n, S[n])

\* A document that decode gives back needs closures and shuffles as encode found
\* them, and an agent whose own are of the same sort.
Recorded ==
  /\ Dealt
  /\ document.tree = NoNode \/ (saved_ready /\ Straight(document)) => Waited
  /\ document.tree = NoNode => BlockedLeaves
  /\ document.tree # NoNode /\ saved_ready => \E q, K, S : Written(q, K, S)

\* What a step can do to shuffles, and which nodes it blocks.
Orderly ==
  /\ \A n \in Node : m_shuffle'[n] = m_shuffle[n] \/ Deals(n, m_shuffle'[n])
  /\ \A n \in Node : m_state'[n] = "blocking" => m_state[n] = "blocking" \/ Kind[n] \in LeafKinds

\* A stop or a crash neither shuffles nor blocks a composite.
LEMMA StopOrderly ==
  ASSUME UNCHANGED m_shuffle, NEW st, NEW idx, NEW q, NotifyStop(st, idx, q),
         \A x \in Node : st[x] = "blocking" => m_state[x] = "blocking" \/ Kind[x] \in LeafKinds
  PROVE  Orderly
  BY DEF NotifyStop, Kill, Orderly

\* Visits of a fresh node,
LEMMA EnterOrderly ==
  ASSUME Typed, NEW n \in Node,
         \/ EnterFirst(n) \/ EnterShuffled(n) \/ EnterWeighted(n) \/ EnterParallel(n)
         \/ EnterAction(n) \/ EnterPending(n) \/ EnterWaitEvent(n)
  PROVE  Orderly
<1>1. m_state \in [Node -> States] /\ m_shuffle \in [Node -> Seq(Nat)]
  BY DEF Typed, TypeOK
<1>2. ASSUME NEW s, m_state' = OnEnter(n, s), s # "blocking" \/ Kind[n] \in LeafKinds
      PROVE  \A x \in Node : m_state'[x] = "blocking" => m_state[x] = "blocking" \/ Kind[x] \in LeafKinds
  BY <1>2 DEF OnEnter
<1>3. CASE EnterFirst(n) \/ EnterWeighted(n) \/ EnterParallel(n)
  <2>1. m_state' = OnEnter(n, "wait_child") /\ UNCHANGED m_shuffle
    BY <1>3 DEF EnterFirst, EnterWeighted, EnterParallel
  <2> QED
    BY <1>2, <2>1 DEF Orderly
<1>4. CASE EnterShuffled(n)
  <2>1. PICK s \in [1..Arity(n) -> 0..(Arity(n) - 1)] :
          IsInjective(s) /\ m_shuffle' = [m_shuffle EXCEPT ![n] = s]
    BY <1>4 DEF EnterShuffled
  <2>2. Deals(n, s)
    <3>1. Arity(n) \in Nat
      BY ArityType
    <3>2. s \in Seq(0..(Arity(n) - 1)) /\ Len(s) = Arity(n) /\ DOMAIN s = 1..Arity(n)
      BY <3>1
    <3>3. ToSet(s) = 0..(Arity(n) - 1)
      <4>1. s \in Injection(1..Arity(n), 0..(Arity(n) - 1))
        BY <2>1 DEF Injection
      <4>2. /\ IsFiniteSet(0..(Arity(n) - 1)) /\ 0 \in Int /\ Arity(n) - 1 \in Int
            /\ Cardinality(1..Arity(n)) = Arity(n) /\ Cardinality(0..(Arity(n) - 1)) = Arity(n)
        BY <3>1, FS_Interval
      <4>3. s \in Surjection(1..Arity(n), 0..(Arity(n) - 1))
        BY <4>1, <4>2, FS_Injection
      <4>4. \A i \in 0..(Arity(n) - 1) : \E j \in 1..Arity(n) : s[j] = i
        BY <4>3 DEF Surjection
      <4> HIDE DEF Deals
      <4> QED
        BY <3>2, <4>4 DEF ToSet
    <3> QED
      BY <3>2, <3>3 DEF Deals
  <2>3. m_state' = OnEnter(n, "wait_child")
    BY <1>4 DEF EnterShuffled
  <2> QED
    BY <1>1, <1>2, <2>1, <2>2, <2>3 DEF Orderly
<1>5. CASE EnterAction(n)
  <2>1. m_state' = [m_state EXCEPT ![n] = "dead", ![Parent[n]] = "awaken"] /\ UNCHANGED m_shuffle
    BY <1>5 DEF EnterAction, SetResult
  <2> QED
    BY <1>1, <2>1 DEF Orderly
<1>6. CASE EnterPending(n) \/ EnterWaitEvent(n)
  <2>1. m_state' = OnEnter(n, "blocking") /\ UNCHANGED m_shuffle /\ Kind[n] \in LeafKinds
    BY <1>6 DEF EnterPending, EnterWaitEvent, LeafKinds
  <2> QED
    BY <1>2, <2>1 DEF Orderly
<1> QED
  BY <1>3, <1>4, <1>5, <1>6

\* visits that stop the agent,
LEMMA HaltOrderly ==
  ASSUME Typed, NEW n \in Node,
         \/ EnterUnknown(n) \/ EnterReset(n) \/ EnterHalts(n) \/ EnterFaults(n)
         \/ AdvanceHalts(n)
  PROVE  Orderly
<1>1. CASE Crash
  BY <1>1 DEF Crash, Orderly, nodeVars
<1>2. ASSUME ~Crash, EnterReset(n) \/ EnterHalts(n) \/ EnterFaults(n)
      PROVE  Orderly
  <2>1. \E s, idx : NotifyStop(OnEnter(n, s), idx, m_fronts) /\ s # "blocking"
    BY <1>2 DEF EnterReset, EnterHalts, EnterFaults, StopFaults
  <2>2. PICK s, idx : NotifyStop(OnEnter(n, s), idx, m_fronts) /\ s # "blocking"
    BY <2>1
  <2>3. \A x \in Node : OnEnter(n, s)[x] = "blocking" => m_state[x] = "blocking"
    BY <2>2 DEF OnEnter
  <2>4. UNCHANGED m_shuffle
    BY <1>2 DEF EnterReset, EnterHalts, EnterFaults, StopFaults
  <2> QED
    BY <2>2, <2>3, <2>4, StopOrderly
<1>3. CASE ~Crash /\ AdvanceHalts(n)
  <2>1. UNCHANGED m_shuffle /\ \E idx : NotifyStop(m_state, idx, m_fronts)
    BY <1>3 DEF AdvanceHalts, StopFaults
  <2> QED
    BY <2>1, StopOrderly
<1>4. CASE ~Crash /\ EnterUnknown(n)
  <2>1. PICK hit : m_state' = [Kill(OnEnter(n, "entering"), hit) EXCEPT ![n] = "blocking"]
    BY <1>4 DEF EnterUnknown, StopFaults
  <2>2. \A x \in Node : m_state'[x] = "blocking" => m_state[x] = "blocking" \/ x = n
    BY <2>1 DEF Kill, OnEnter
  <2>3. UNCHANGED m_shuffle /\ Kind[n] \in LeafKinds
    BY <1>4 DEF EnterUnknown, StopFaults, LeafKinds
  <2> QED
    BY <2>2, <2>3 DEF Orderly
<1> QED
  BY <1>1, <1>2, <1>3, <1>4

\* visits of a node that a child has woken up, and of a stale one,
LEMMA RevisitOrderly ==
  ASSUME Typed, NEW n \in Node,
         \/ Requeue(n) \/ Drop(n) \/ Advance(n) \/ Return(n)
         \/ RevisitRoot(n) \/ RevisitParallel(n)
  PROVE  Orderly
<1>1. m_state \in [Node -> States]
  BY DEF Typed, TypeOK
<1>2. CASE Crash
  BY <1>2 DEF Crash, Orderly, nodeVars
<1>3. CASE Requeue(n) \/ Drop(n)
  BY <1>3 DEF Requeue, Drop, Orderly, nodeVars
<1>4. CASE Advance(n)
  <2>1. UNCHANGED m_shuffle /\ \E c : m_state' = [m_state EXCEPT ![n] = "wait_child", ![c] = "init"]
    BY <1>4 DEF Advance
  <2> QED
    BY <1>1, <2>1 DEF Orderly
<1>5. CASE Return(n)
  <2>1. UNCHANGED m_shuffle /\ m_state' = [m_state EXCEPT ![n] = "dead", ![Parent[n]] = "awaken"]
    BY <1>5 DEF Return, SetResult
  <2> QED
    BY <1>1, <2>1 DEF Orderly
<1>6. CASE RevisitRoot(n)
  BY <1>6 DEF RevisitRoot, OnEnter, Orderly
<1>7. CASE RevisitParallel(n) /\ ~Crash
  <2>1. /\ UNCHANGED m_shuffle
        /\ \E hit : m_state' = [Kill(m_state, hit) EXCEPT ![n] = "dead", ![Parent[n]] = "awaken"]
    BY <1>7 DEF RevisitParallel
  <2> QED
    BY <1>1, <2>1 DEF Orderly, Kill
<1> QED
  BY <1>2, <1>3, <1>4, <1>5, <1>6, <1>7

\* and everything else.
LEMMA NextOrderly == Typed /\ [Next]_vars => Orderly
<1> SUFFICES ASSUME Typed, [Next]_vars PROVE Orderly
  OBVIOUS
<1> USE DEF nodeVars, pollVars
<1>1. m_state \in [Node -> States]
  BY DEF Typed, TypeOK
<1>2. CASE Crash
  BY <1>2 DEF Crash, Orderly
<1>3. ASSUME UNCHANGED m_shuffle, NEW x, m_state' = [m_state EXCEPT ![x] = "dead", ![Parent[x]] = "awaken"]
      PROVE  Orderly
  BY <1>1, <1>3 DEF Orderly
<1>4. CASE UNCHANGED vars
  BY <1>4 DEF vars, Orderly
<1>5. ASSUME Application, ~Crash PROVE Orderly
  <2>1. ASSUME NEW e \in Event, DispatchEvent(e) PROVE Orderly
    BY <2>1 DEF DispatchEvent, Orderly
  <2>2. CASE PollCall \/ Enable
    BY <2>2 DEF PollCall, Enable, Orderly
  <2>3. CASE Disable \/ LoadSame
    <3>1. UNCHANGED m_shuffle /\ NotifyStop(m_state, next_child_idx, m_fronts)
      BY <1>5, <2>3 DEF Disable, LoadSame, StopFaults
    <3> QED
      BY <3>1, StopOrderly
  <2>4. ASSUME NEW r \in Roots, LoadFirst(r) PROVE Orderly
    BY <2>4 DEF LoadFirst, Orderly
  <2>5. ASSUME NEW r \in Roots \cup {NoNode}, LoadOther(r) PROVE Orderly
    BY <1>5, <2>5 DEF LoadOther, Orderly, Deals
  <2>6. ASSUME NEW n \in Node, NEW r \in BOOLEAN, Complete(n, r) PROVE Orderly
    BY <1>3, <2>6 DEF Complete, SetResult
  <2>7. ASSUME NEW n \in Node, CompleteDead(n) PROVE Orderly
    <3>1. UNCHANGED m_shuffle /\ NotifyStop(m_state, next_child_idx, m_fronts)
      BY <1>5, <2>7 DEF CompleteDead, StopFaults
    <3> QED
      BY <3>1, StopOrderly
  <2> QED
    BY <1>5, <2>1, <2>2, <2>3, <2>4, <2>5, <2>6, <2>7 DEF Application
<1>6. CASE IgnoreEvent
  BY <1>6 DEF IgnoreEvent, Orderly
<1>7. CASE HandleEvent
  <2>1. UNCHANGED m_shuffle /\ \E x : m_state' = [m_state EXCEPT ![x] = "dead", ![Parent[x]] = "awaken"]
    BY <1>7 DEF HandleEvent
  <2> QED
    BY <1>3, <2>1
<1>8. CASE HandleDead /\ ~Crash
  <2>1. UNCHANGED m_shuffle /\ \E q : NotifyStop(m_state, next_child_idx, q)
    BY <1>8 DEF HandleDead, StopFaults
  <2> QED
    BY <2>1, StopOrderly
<1>9. CASE PollDisabled \/ PollRound \/ BeginPass \/ PollAgain \/ PollDone \/ PollRestart
  BY <1>9 DEF PollDisabled, PollRound, BeginPass, PollAgain, PollDone, PollRestart, Orderly
<1>10. CASE PollRestartFaults
  BY <1>2, <1>10 DEF PollRestartFaults
<1>11. ASSUME NEW n \in Node, Visit(n) PROVE Orderly
  BY <1>11, EnterOrderly, HaltOrderly, RevisitOrderly DEF Visit
<1> QED
  BY <1>2, <1>4, <1>5, <1>6, <1>7, <1>8, <1>9, <1>10, <1>11 DEF Next, Polling

----------------------------------------------------------------------------
(* What a document relies on is true of every running agent.               *)

\* Closures are taken away, or those of waits.
LEMMA ClosuresOfWaits ==
  ASSUME Running, RuntimeNext, NEW n \in Node, m_closure'[n] # 0
  PROVE  m_closure'[n] = m_closure[n] \/ n \in Waits
<1>1. m_closure \in [Node -> 0..MaxSeq]
  BY DEF Running, TimersTyped
<1>2. ASSUME NEW timers, Releases(timers) PROVE m_closure'[n] = m_closure[n]
  BY <1>2 DEF Releases
<1>3. CASE Plain \/ Reset
  BY <1>2, <1>3 DEF Plain, Reset, Quietly, Cleared
<1>4. CASE Replace
  BY <1>4 DEF Replace, Without
<1>5. ASSUME NEW x \in Node, Perform(x) \/ PerformMissing(x) PROVE m_closure'[n] = m_closure[n]
  BY <1>2, <1>5 DEF Perform, PerformMissing, Quietly
<1>6. ASSUME NEW x \in Node, WaitForSeconds(x) PROVE m_closure'[n] = m_closure[n] \/ n \in Waits
  <2>1. x \in Waits /\ \E s : m_closure' = [m_closure EXCEPT ![x] = s]
    BY <1>6 DEF WaitForSeconds
  <2> QED
    BY <1>1, <2>1
<1>7. CASE Ring
  BY <1>2, <1>7 DEF Ring, RingUnlisted, RingAlive, RingDead, RingGone
<1>8. CASE Tell
  BY <1>8 DEF Tell, timerVars
<1> QED
  BY <1>3, <1>4, <1>5, <1>6, <1>7, <1>8 DEF RuntimeNext

\* Steps of a running agent are orderly.
LEMMA RunningOrderly ==
  ASSUME Running, RuntimeNext
  PROVE  Orderly
<1>1. Typed /\ m_state \in [Node -> States]
  BY DEF Running, Agreed, Typed, TypeOK
<1>2. CASE [Next]_vars
  BY <1>1, <1>2, NextOrderly
<1>3. Plain \/ Reset \/ Replace \/ (\E n \in Node : Perform(n) \/ PerformMissing(n) \/ WaitForSeconds(n))
        \/ Tell => [Next]_vars
  BY DEF Plain, Reset, Replace, Perform, PerformMissing, WaitForSeconds, Tell, Next, Application,
     Polling, Visit
<1>4. CASE Crash
  BY <1>4 DEF Crash, Orderly, nodeVars
<1>5. CASE Ring
  <2>1. ASSUME NEW s, RingUnlisted(s) PROVE [Next]_vars
    BY <2>1 DEF RingUnlisted
  <2>2. ASSUME NEW e, RingAlive(e) PROVE Orderly
    <3>1. /\ m_state' = [m_state EXCEPT ![e.node] = "dead", ![Parent[e.node]] = "awaken"]
          /\ UNCHANGED m_shuffle
      BY <2>2 DEF RingAlive, SetResult
    <3> QED
      BY <1>1, <3>1 DEF Orderly
  <2>3. ASSUME NEW e, RingDead(e), ~Crash PROVE Orderly
    <3>1. NotifyStop(m_state, next_child_idx, m_fronts) /\ UNCHANGED m_shuffle
      BY <2>3 DEF RingDead, StopFaults
    <3> QED
      BY <3>1, StopOrderly
  <2>4. ASSUME NEW e, RingGone(e) PROVE Crash
    BY <2>4 DEF RingGone
  <2> QED
    BY <1>2, <1>4, <1>5, <2>1, <2>2, <2>3, <2>4 DEF Ring
<1> QED
  BY <1>2, <1>3, <1>5 DEF RuntimeNext

\* Steps other than Save and Decode.
LEMMA RunningRecorded ==
  ASSUME Running, Recorded, RuntimeNext, UNCHANGED <<document, saved_ready>>
  PROVE  Recorded'
<1>1. Orderly
  BY RunningOrderly
<1>2. Dealt'
  BY <1>1 DEF Orderly, Recorded, Dealt
<1>3. Waited => Waited'
  BY ClosuresOfWaits DEF Waited
<1>4. BlockedLeaves => BlockedLeaves'
  BY <1>1 DEF Orderly, BlockedLeaves
<1> QED
  BY <1>2, <1>3, <1>4 DEF Recorded, Written, Straight

\* Starting, also again.
LEMMA InitRecorded ==
  /\ PersistenceInit => Recorded
  /\ Recorded /\ Restart => Recorded'
<1>1. ASSUME PersistenceInit PROVE Recorded
  BY <1>1 DEF PersistenceInit, RuntimeInit, Init, NoDocument, Recorded, Dealt, Deals, Waited,
     BlockedLeaves
<1>2. ASSUME Recorded, Restart PROVE Recorded'
  <2>1. Dealt' /\ Waited' /\ BlockedLeaves'
    BY <1>2 DEF Restart, Dealt, Deals, Waited, BlockedLeaves
  <2> QED
    BY <1>2, <2>1 DEF Restart, Recorded, Written, Straight
<1> QED
  BY <1>1, <1>2

\* encode writes what is queued, closures and shuffles.
LEMMA SaveRecorded ==
  ASSUME RuntimeInvariant, Recorded, Save
  PROVE  Recorded'
<1>1. /\ document = NoDocument /\ document' = Encode
      /\ saved_ready' = (intact /\ \A n \in ToSet(m_fronts) : m_state[n] = "blocking")
      /\ UNCHANGED runtimeVars /\ document.tree = NoNode
  BY DEF Save, NoDocument
<1>2. Dealt' /\ Waited' /\ BlockedLeaves' /\ Waited /\ Dealt /\ BlockedLeaves
  BY <1>1 DEF Recorded, Dealt, Waited, BlockedLeaves, runtimeVars, timerVars, vars, nodeVars
<1>3. ASSUME document'.tree # NoNode, saved_ready' PROVE \E q, K, S : Written(q, K, S)'
  <2>1. /\ cur_root_node # NoNode
        /\ document' = [tree |-> cur_root_node,
                        blackboards |-> m_blackboard,
                        front_nodes |-> [k \in DOMAIN m_fronts |-> Chain(m_fronts[k])],
                        next_timer_seq |-> m_next_timer_seq]
    BY <1>1, <1>3 DEF Encode, NoDocument
  <2>2. \A n : Chain(n) = ChainWith(n, m_closure, m_shuffle)
    BY DEF Chain, ChainWith, NodeData
  <2>3. document' = [tree |-> document'.tree,
                     blackboards |-> document'.blackboards,
                     front_nodes |-> [k \in DOMAIN m_fronts |->
                                        ChainWith(m_fronts[k], m_closure, m_shuffle)],
                     next_timer_seq |-> document'.next_timer_seq]
    BY <2>1, <2>2
  <2>4. m_fronts \in Seq(Node) /\ Running /\ Agreed /\ intact
    BY <1>1, <1>3 DEF RuntimeInvariant, Running, Agreed, Typed, TypeOK
  <2>5. ASSUME NEW k \in DOMAIN m_fronts
        PROVE  /\ cur_root_node \in Lineage[m_fronts[k]] /\ Runnable(m_fronts[k])
               /\ Parent[m_fronts[k]] # NoNode
               /\ m_fronts[k] \in Waits => m_closure[m_fronts[k]] # 0
    <3>1. m_fronts[k] \in ToSet(m_fronts) /\ m_fronts[k] \in Node
      BY <2>4 DEF ToSet
    <3>2. m_fronts[k] \in Queued /\ m_state[m_fronts[k]] = "blocking"
      BY <1>1, <1>3, <3>1 DEF Queued
    <3>3. cur_root_node \in Lineage[m_fronts[k]] /\ Runnable(m_fronts[k])
      BY <2>4, <3>1, <3>2 DEF Agreed, InTree, ActionsLast, InLoaded
    <3>4. Kind[m_fronts[k]] # "root"
      BY <1>2, <3>1, <3>2 DEF BlockedLeaves, LeafKinds
    <3>5. Parent[m_fronts[k]] # NoNode
      BY <3>1, <3>4, TreeAssumption DEF Rooted
    <3> QED
      BY <2>4, <3>2, <3>3, <3>5 DEF Running, Held
  <2>6. Written(m_fronts, m_closure, m_shuffle)'
    BY <1>1, <1>2, <2>1, <2>3, <2>4, <2>5
    DEF Written, Runnable, Dealt, Waited, Recorded, runtimeVars, timerVars, vars, queueVars, nodeVars,
        ChainWith
  <2> QED
    BY <2>6
<1> QED
  BY <1>2, <1>3 DEF Recorded

----------------------------------------------------------------------------
(* decode gives closures and shuffles back.                                *)

\* What encode wrote for the k-th node of q leads to it.
LEMMA WrittenChain ==
  ASSUME DocumentTyped, document.tree # NoNode, Straight(document),
         NEW q, NEW K, NEW S, Written(q, K, S), NEW k \in 1..Len(document.front_nodes),
         NEW t, t.root = document.tree
  PROVE  LET chain == document.front_nodes[k]
             n == q[k] IN
         /\ n \in Node /\ k \in DOMAIN q /\ Len(chain) > 0 /\ Len(chain) \in Nat
         /\ DOMAIN Path(n) = 1..Len(chain)
         /\ chain[Len(chain)].data.closure = K[n]
         /\ Walk(t, chain)[0] = document.tree /\ document.tree \in Node
         /\ Walk(t, chain)[Len(chain)] = n
         /\ \A j \in 1..Len(chain) :
              /\ Walk(t, chain)[j] = Path(n)[j] /\ Path(n)[j] \in Node
              /\ Kind[Path(n)[j]] = "random_seq" =>
                   Shuffle(t, Path(n)[j], chain[j].data) = S[Path(n)[j]]
<1> DEFINE D == document.front_nodes
           chain == D[k]
           n == q[k]
<1>1. /\ D = [i \in DOMAIN q |-> ChainWith(q[i], K, S)] /\ q \in Seq(Node)
      /\ D \in Seq(Seq(Link(document.next_timer_seq))) /\ document.tree \in Roots
  <2>1. document.front_nodes = [i \in DOMAIN q |-> ChainWith(q[i], K, S)]
    BY DEF Written
  <2> QED
    BY <2>1 DEF Written, DocumentTyped
<1>2. k \in DOMAIN D /\ DOMAIN D = DOMAIN q /\ n \in Node /\ chain \in Seq(Link(document.next_timer_seq))
      /\ chain = ChainWith(n, K, S) /\ k \in 1..Len(D)
  <2>1. k \in DOMAIN D /\ DOMAIN D = DOMAIN q
    BY <1>1
  <2> HIDE DEF D
  <2> QED
    BY <1>1, <2>1 DEF D
<1>3. document.tree \in Lineage[n] /\ Runnable(n) /\ Parent[n] # NoNode
  BY <1>2 DEF Written
<1>4. Straight(document) /\ \A j \in 2..Len(chain) : \A s \in chain[j - 1].data.shuffles :
        chain[j].idx < Len(s) /\ s[chain[j].idx + 1] = chain[j].idx
  BY <1>2 DEF Straight
<1> HIDE DEF D, chain, n
<1>5. /\ Depth(n) \in Nat \ {0} /\ DOMAIN Path(n) = 1..(Depth(n) - 1)
      /\ \A j \in 1..(Depth(n) - 1) : Path(n)[j] \in Node
      /\ Depth(n) # 1
  <2>1. Depth(n) = 1 => n = document.tree
    BY <1>1, <1>2, <1>3, PathSteps
  <2>2. Parent[document.tree] = NoNode
    BY <1>1, TreeAssumption DEF Rooted
  <2> QED
    BY <1>2, <1>3, <2>1, <2>2, PathSteps
<1>6. DOMAIN chain = 1..(Depth(n) - 1) /\ DOMAIN chain = DOMAIN Path(n)
  BY <1>2, <1>5 DEF ChainWith
<1>7. Len(chain) = Depth(n) - 1
  <2>1. DOMAIN chain = 1..Len(chain) /\ Len(chain) \in Nat
    BY <1>2
  <2>2. \A x, y \in Nat : 1..x = 1..y => x = y
    <3> SUFFICES ASSUME NEW x \in Nat, NEW y \in Nat, 1..x = 1..y, x # y PROVE FALSE
      OBVIOUS
    <3>1. x \in 1..x <=> x \in 1..y
      OBVIOUS
    <3>2. y \in 1..x <=> y \in 1..y
      OBVIOUS
    <3> QED
      BY <3>1, <3>2
  <2>3. Depth(n) - 1 \in Nat
    BY <1>5
  <2> QED
    BY <1>6, <2>1, <2>2, <2>3
<1>8. Len(chain) > 0 /\ Len(chain) \in Nat /\ DOMAIN Path(n) = 1..Len(chain)
  BY <1>5, <1>7
<1>9. ASSUME NEW j \in 1..Len(chain)
      PROVE  /\ chain[j].idx = IndexInParent(Path(n)[j])
             /\ chain[j].data.closure = K[Path(n)[j]]
             /\ Kind[Path(n)[j]] = "random_seq" => chain[j].data.shuffles = {S[Path(n)[j]]}
  <2>1. chain[j] = [idx |-> IndexInParent(Path(n)[j]),
                    data |-> [closure |-> K[Path(n)[j]],
                              shuffles |-> IF Kind[Path(n)[j]] = "random_seq"
                                           THEN {S[Path(n)[j]]} ELSE {}]]
    BY <1>2, <1>8 DEF ChainWith
  <2> QED
    BY <2>1
<1>10. LeadsTo(chain, n)
  BY <1>3, <1>6, <1>8, <1>9 DEF LeadsTo
<1>11. /\ Walk(t, chain)[Len(chain)] = n
       /\ \A j \in 1..Len(chain) : Walk(t, chain)[j] = Path(n)[j]
  <2>1. t.root \in Roots /\ t.root \in Lineage[n]
    BY <1>1, <1>3
  <2> QED
    BY <1>2, <1>4, <1>8, <1>10, <2>1, Retraces
<1>12. Walk(t, chain)[0] = document.tree /\ document.tree \in Node
  <2>1. Walk(t, chain)[0] = t.root
    BY <1>8, WalkSteps
  <2>2. document.tree \in Node
    BY <1>1, TreeAssumption DEF Rooted
  <2> QED
    BY <2>1, <2>2
<1>13. chain[Len(chain)].data.closure = K[n]
  <2>1. Len(chain) \in 1..Len(chain)
    BY <1>8
  <2>2. Path(n)[Len(chain)] = n
    BY <1>2, <1>7, <2>1, PathSteps
  <2> QED
    BY <1>9, <2>1, <2>2
<1>14. \A j \in 1..Len(chain) : Path(n)[j] \in Node /\
         (Kind[Path(n)[j]] = "random_seq" => Shuffle(t, Path(n)[j], chain[j].data) = S[Path(n)[j]])
  BY <1>5, <1>7, <1>9 DEF Shuffle
<1> QED
  BY <1>2, <1>8, <1>11, <1>12, <1>13, <1>14 DEF D, chain, n

\* k chains have put back what they were written from.
Rewritten(t, q, K, S, k) ==
  /\ Len(t.m_fronts) = k
  /\ \A n \in Node : t.m_closure[n] # 0 => n \in Waits
  /\ \A i \in 1..k :
       /\ t.m_fronts[i] = q[i]
       /\ t.m_closure[q[i]] = K[q[i]]
       /\ \A j \in DOMAIN Path(q[i]) :
            Kind[Path(q[i])[j]] = "random_seq" => t.m_shuffle[Path(q[i])[j]] = S[Path(q[i])[j]]

\* And one more has.
LEMMA PlacingRewritten ==
  ASSUME DocumentTyped, document.tree # NoNode, Straight(document),
         NEW q, NEW K, NEW S, Written(q, K, S), NEW k \in 1..Len(document.front_nodes),
         NEW t, Rebuilt(t), Rewritten(t, q, K, S, k - 1),
         NEW u, Placing(t, document.front_nodes[k], u)
  PROVE  Rewritten(u, q, K, S, k)
<1> DEFINE chain == document.front_nodes[k]
           n == q[k]
           s == K[n]
<1>1. t.root = document.tree /\ t.m_fronts \in Seq(Node) /\ t.m_closure \in [Node -> 0..MaxSeq]
      /\ Len(document.front_nodes) \in Nat /\ k \in Nat
  BY DEF Rebuilt, TimersRebuilt, DocumentTyped
<1>2. /\ n \in Node /\ k \in DOMAIN q /\ Len(chain) > 0 /\ Len(chain) \in Nat
      /\ DOMAIN Path(n) = 1..Len(chain)
      /\ chain[Len(chain)].data.closure = s
      /\ Walk(t, chain)[Len(chain)] = n
      /\ \A j \in 1..Len(chain) :
           /\ Walk(t, chain)[j] = Path(n)[j] /\ Path(n)[j] \in Node
           /\ Kind[Path(n)[j]] = "random_seq" =>
                Shuffle(t, Path(n)[j], chain[j].data) = S[Path(n)[j]]
  <2> HIDE DEF chain, n, s
  <2>1. LET c == document.front_nodes[k]
            x == q[k] IN
        /\ x \in Node /\ k \in DOMAIN q /\ Len(c) > 0 /\ Len(c) \in Nat
        /\ DOMAIN Path(x) = 1..Len(c)
        /\ c[Len(c)].data.closure = K[x]
        /\ Walk(t, c)[0] = document.tree /\ document.tree \in Node
        /\ Walk(t, c)[Len(c)] = x
        /\ \A j \in 1..Len(c) :
             /\ Walk(t, c)[j] = Path(x)[j] /\ Path(x)[j] \in Node
             /\ Kind[Path(x)[j]] = "random_seq" =>
                  Shuffle(t, Path(x)[j], c[j].data) = S[Path(x)[j]]
    BY <1>1, WrittenChain
  <2> QED
    BY <2>1 DEF chain, n, s
<1>3. q \in Seq(Node) /\ (n \in Waits => s # 0) /\ (s # 0 => n \in Waits)
  BY <1>2 DEF Written
<1>4. /\ u.m_fronts = Append(t.m_fronts, n)
      /\ s = 0 => u.m_closure = t.m_closure
      /\ s # 0 => u.m_closure = [t.m_closure EXCEPT ![n] = s]
      /\ \A m \in Node :
           \/ u.m_shuffle[m] = t.m_shuffle[m] /\ m \notin {Walk(t, chain)[j] : j \in 1..Len(chain)}
           \/ \E j \in 1..Len(chain) :
                Walk(t, chain)[j] = m /\ u.m_shuffle[m] = Shuffle(t, m, chain[j].data)
  <2> HIDE DEF n, s, chain
  <2>1. Placing(t, chain, u)
    BY DEF chain
  <2>2. /\ u.m_fronts = Append(t.m_fronts, n)
        /\ s = 0 => u.m_closure = t.m_closure
        /\ s # 0 => u.m_closure = [t.m_closure EXCEPT ![n] = s]
    BY <1>2, <2>1 DEF Placing
  <2>3. \A m \in Node :
           \/ u.m_shuffle[m] = t.m_shuffle[m] /\ m \notin {Walk(t, chain)[j] : j \in 1..Len(chain)}
           \/ \E j \in 1..Len(chain) :
                Walk(t, chain)[j] = m /\ u.m_shuffle[m] = Shuffle(t, m, chain[j].data)
    BY <2>1 DEF Placing
  <2> QED
    BY <2>2, <2>3
<1> HIDE DEF n, s, chain
<1>5. ASSUME NEW m \in Node, Kind[m] = "random_seq"
      PROVE  u.m_shuffle[m] = S[m] \/ (u.m_shuffle[m] = t.m_shuffle[m] /\ m \notin {Path(n)[j] : j \in DOMAIN Path(n)})
  <2>1. CASE \E j \in 1..Len(chain) :
               Walk(t, chain)[j] = m /\ u.m_shuffle[m] = Shuffle(t, m, chain[j].data)
    <3>1. PICK j \in 1..Len(chain) :
            Walk(t, chain)[j] = m /\ u.m_shuffle[m] = Shuffle(t, m, chain[j].data)
      BY <2>1
    <3>2. Path(n)[j] = m
      BY <1>2, <3>1
    <3> QED
      BY <1>2, <1>5, <3>1, <3>2
  <2>2. CASE m \notin {Walk(t, chain)[j] : j \in 1..Len(chain)} /\ u.m_shuffle[m] = t.m_shuffle[m]
    <3>1. \A j \in DOMAIN Path(n) : Walk(t, chain)[j] = Path(n)[j]
      BY <1>2
    <3> QED
      BY <1>2, <2>2, <3>1
  <2> QED
    BY <1>4, <2>1, <2>2
<1>6. \A i \in 1..k : i = k \/ (i \in 1..(k - 1) /\ i \in DOMAIN q)
  <2>1. DOMAIN q = 1..Len(q) /\ k <= Len(q) /\ Len(q) \in Nat
    BY <1>2, <1>3
  <2> QED
    BY <1>1, <2>1
<1>7. /\ u.m_closure \in [Node -> {u.m_closure[m] : m \in Node}]
      /\ \A m \in Node : m # n => u.m_closure[m] = t.m_closure[m]
      /\ u.m_closure[n] = s
  <2>1. t.m_closure[n] # 0 => n \in Waits
    BY <1>2 DEF Rewritten
  <2>2. CASE s = 0
    BY <1>1, <1>3, <1>4, <2>1, <2>2
  <2>3. CASE s # 0
    BY <1>1, <1>2, <1>4, <2>3
  <2> QED
    BY <2>2, <2>3
<1>8. \A m \in Node : u.m_closure[m] # 0 => m \in Waits
  BY <1>3, <1>7 DEF Rewritten
<1>9. Len(u.m_fronts) = k /\ \A i \in 1..k : u.m_fronts[i] = q[i]
  <2>1. Len(t.m_fronts) = k - 1 /\ \A i \in 1..(k - 1) : t.m_fronts[i] = q[i]
    BY DEF Rewritten
  <2>2. \A f \in Seq(Node), x \in Node :
          /\ Len(Append(f, x)) = Len(f) + 1 /\ Append(f, x)[Len(f) + 1] = x
          /\ \A i \in 1..Len(f) : Append(f, x)[i] = f[i]
    OBVIOUS
  <2> QED
    BY <1>1, <1>2, <1>4, <1>6, <2>1, <2>2 DEF n
<1>10. \A i \in 1..k : u.m_closure[q[i]] = K[q[i]]
  <2>1. ASSUME NEW i \in 1..(k - 1), i \in DOMAIN q PROVE u.m_closure[q[i]] = K[q[i]]
    <3>1. q[i] \in Node /\ t.m_closure[q[i]] = K[q[i]]
      BY <1>3, <2>1 DEF Rewritten
    <3> QED
      BY <1>7, <3>1 DEF s
  <2> QED
    BY <1>6, <1>7, <2>1 DEF n, s
<1>11. ASSUME NEW i \in 1..k, NEW j \in DOMAIN Path(q[i]), Kind[Path(q[i])[j]] = "random_seq"
       PROVE  u.m_shuffle[Path(q[i])[j]] = S[Path(q[i])[j]]
  <2> DEFINE m == Path(q[i])[j]
  <2>1. m \in Node
    <3>1. q[i] \in Node
      BY <1>2, <1>3, <1>6
    <3> QED
      BY <3>1, PathSteps
  <2>2. CASE i = k
    <3>1. m \in {Path(n)[l] : l \in DOMAIN Path(n)}
      BY <2>2 DEF n
    <3> HIDE DEF m
    <3> QED
      BY <1>5, <1>11, <2>1, <3>1 DEF m
  <2>3. CASE i \in 1..(k - 1)
    <3>1. t.m_shuffle[m] = S[m]
      BY <1>11, <2>3 DEF Rewritten
    <3> HIDE DEF m
    <3> QED
      BY <1>5, <1>11, <2>1, <3>1 DEF m
  <2> QED
    BY <1>6, <2>2, <2>3
<1> QED
  BY <1>8, <1>9, <1>10, <1>11 DEF Rewritten

\* All of them have.
LEMMA RestoringRewritten ==
  ASSUME RuntimeInvariant, Waited, document.tree # NoNode, Straight(document),
         NEW q, NEW K, NEW S, Written(q, K, S),
         NEW k \in 0..Len(document.front_nodes)
  PROVE  Restoring(document)[k].faulted \/ Rewritten(Restoring(document)[k], q, K, S, k)
<1> DEFINE after == Restoring(document)
           ok(j) == after[j].faulted \/ Rewritten(after[j], q, K, S, j)
           T == {j \in 0..Len(document.front_nodes) : ~ok(j)}
<1>1. /\ DocumentTyped /\ document.front_nodes \in Seq(Seq(Link(document.next_timer_seq)))
      /\ Len(document.front_nodes) \in Nat
  BY DEF RuntimeInvariant, DocumentTyped
<1>2. ok(0)
  <2>1. after[0] = Loaded(document)
    BY <1>1, RestoringSteps
  <2>2. Loaded(document).m_fronts = <<>>
        /\ \A n \in Node : Loaded(document).m_closure[n] \in {0, m_closure[n]}
    BY DEF Loaded, Without
  <2>3. \A n \in Node : Loaded(document).m_closure[n] # 0 => n \in Waits
    BY <2>2 DEF Waited
  <2> QED
    BY <2>1, <2>2, <2>3 DEF Rewritten
<1>3. ASSUME NEW j \in 1..Len(document.front_nodes), ok(j - 1) PROVE ok(j)
  <2> DEFINE t == after[j - 1]
             chain == document.front_nodes[j]
             u == after[j]
  <2>1. u = Restored(t, chain) /\ Len(chain) \in Nat
    BY <1>1, RestoringSteps
  <2>2. DOMAIN t = Members /\ (t.faulted \/ Rebuilt(t))
    <3>1. j - 1 \in 0..Len(document.front_nodes)
      BY <1>1
    <3> QED
      BY <3>1, RestoringRebuilt
  <2>3. t.faulted \/ Rewritten(t, q, K, S, j - 1)
    BY <1>3
  <2> HIDE DEF t, u
  <2>4. u.faulted \/ (~t.faulted /\ Placing(t, chain, u))
    BY <2>1, <2>2, RestoredMembers
  <2>5. u.faulted \/ Rewritten(u, q, K, S, j)
    BY <1>1, <2>2, <2>3, <2>4, PlacingRewritten
  <2> QED
    BY <2>5 DEF u
<1>4. T = {}
  <2> HIDE DEF ok
  <2> SUFFICES ASSUME T # {} PROVE FALSE
    OBVIOUS
  <2>1. T \subseteq Nat
    BY <1>1
  <2>2. PICK m \in T : \A x \in T : m <= x
    BY <2>1, LeastNatural
  <2>3. m \in 1..Len(document.front_nodes) /\ m - 1 \in 0..Len(document.front_nodes)
        /\ m - 1 \notin T
    BY <1>1, <1>2, <2>1, <2>2
  <2> QED
    BY <1>3, <2>2, <2>3
<1> QED
  BY <1>4

\* A shuffle that is read deals out the children, as the ones before did.
LEMMA RestoringDealt ==
  ASSUME RuntimeInvariant, Dealt, document.tree # NoNode,
         NEW k \in 0..Len(document.front_nodes),
         NEW n \in Node, Kind[n] = "random_seq", ~Restoring(document)[k].faulted
  PROVE  Deals(n, Restoring(document)[k].m_shuffle[n])
<1>1. document.front_nodes \in Seq(Seq(Link(document.next_timer_seq)))
      /\ Len(document.front_nodes) \in Nat
  BY DEF RuntimeInvariant, DocumentTyped
<1>2. CASE k = 0
  <2>1. Restoring(document)[0] = Loaded(document)
    BY <1>1, RestoringSteps
  <2>2. Loaded(document).m_shuffle[n] \in {<<>>, m_shuffle[n]}
    BY DEF Loaded
  <2> QED
    BY <1>2, <2>1, <2>2 DEF Dealt, Deals
<1>3. CASE k # 0
  <2> DEFINE t == Restoring(document)[k - 1]
             chain == document.front_nodes[k]
             u == Restoring(document)[k]
  <2>1. k \in 1..Len(document.front_nodes) /\ k - 1 \in 0..Len(document.front_nodes)
    BY <1>1, <1>3
  <2>2. u = Restored(t, chain) /\ Len(chain) \in Nat
    BY <1>1, <2>1, RestoringSteps
  <2>3. DOMAIN t = Members
    BY <2>1, RestoringRebuilt
  <2> HIDE DEF t, u, chain
  <2>4. u.faulted \/ Placing(t, chain, u)
    BY <2>2, <2>3, RestoredMembers
  <2>5. u.faulted \/ Deals(n, u.m_shuffle[n])
    BY <2>4 DEF Placing
  <2> QED
    BY <2>5 DEF u
<1> QED
  BY <1>2, <1>3

\* A new agent can read what was written.
LEMMA RestoringReads ==
  ASSUME RuntimeInvariant, Dealt, document.tree # NoNode, Straight(document),
         cur_root_node = NoNode,
         NEW q, NEW K, NEW S, Written(q, K, S),
         NEW k \in 0..Len(document.front_nodes)
  PROVE  ~Restoring(document)[k].faulted
<1> DEFINE after == Restoring(document)
           T == {j \in 0..Len(document.front_nodes) : after[j].faulted}
<1>1. /\ DocumentTyped /\ document.front_nodes \in Seq(Seq(Link(document.next_timer_seq)))
      /\ Len(document.front_nodes) \in Nat
  BY DEF RuntimeInvariant, DocumentTyped
<1>2. ~after[0].faulted
  <2>1. after[0] = Loaded(document)
    BY <1>1, RestoringSteps
  <2>2. Loaded(document).faulted = Faults({})
    BY DEF Loaded
  <2> QED
    BY <2>1, <2>2 DEF Faults
<1>3. ASSUME NEW j \in 1..Len(document.front_nodes), ~after[j - 1].faulted PROVE ~after[j].faulted
  <2> DEFINE t == after[j - 1]
             chain == document.front_nodes[j]
             n == q[j]
  <2>1. after[j] = Restored(t, chain) /\ j - 1 \in 0..Len(document.front_nodes)
    <3>1. \A N \in Nat : \A i \in 1..N : i - 1 \in 0..N
      OBVIOUS
    <3>2. j - 1 \in 0..Len(document.front_nodes)
      BY <1>1, <3>1
    <3>3. after[j] = Restored(t, chain)
      BY <1>1, RestoringSteps
    <3> QED
      BY <3>2, <3>3
  <2>2. DOMAIN t = Members /\ t.root = document.tree
    BY <1>3, <2>1, RestoringRebuilt DEF Rebuilt
  <2>3. \A x \in Node : Kind[x] = "random_seq" => Deals(x, t.m_shuffle[x])
    BY <1>3, <2>1, RestoringDealt
  <2> HIDE DEF t, chain, n, after
  <2>4. /\ n \in Node /\ Len(chain) > 0 /\ Len(chain) \in Nat
        /\ Walk(t, chain)[0] = document.tree /\ document.tree \in Node
        /\ \A i \in 1..Len(chain) :
             /\ Walk(t, chain)[i] = Path(n)[i] /\ Path(n)[i] \in Node
             /\ Kind[Path(n)[i]] = "random_seq" =>
                  Shuffle(t, Path(n)[i], chain[i].data) = S[Path(n)[i]]
    <3>1. LET c == document.front_nodes[j]
              x == q[j] IN
          /\ x \in Node /\ j \in DOMAIN q /\ Len(c) > 0 /\ Len(c) \in Nat
          /\ DOMAIN Path(x) = 1..Len(c)
          /\ c[Len(c)].data.closure = K[x]
          /\ Walk(t, c)[0] = document.tree /\ document.tree \in Node
          /\ Walk(t, c)[Len(c)] = x
          /\ \A i \in 1..Len(c) :
               /\ Walk(t, c)[i] = Path(x)[i] /\ Path(x)[i] \in Node
               /\ Kind[Path(x)[i]] = "random_seq" =>
                    Shuffle(t, Path(x)[i], c[i].data) = S[Path(x)[i]]
      BY <1>1, <2>2, WrittenChain
    <3> QED
      BY <3>1 DEF chain, n
  <2>5. \A x \in Node : Kind[x] = "random_seq" => Deals(x, S[x])
    BY DEF Written
  <2>6. Gone \notin Node
    BY RuntimeAssumption
  <2>7. Readable(t, chain)
    <3>1. \A i \in 0..Len(chain) : i = 0 \/ i \in 1..Len(chain)
      BY <2>4
    <3>2. \A i \in 0..Len(chain) : Walk(t, chain)[i] # Gone
      BY <2>4, <2>6, <3>1
    <3>3. ASSUME NEW x \in Node, Kind[x] = "random_seq", NEW i \in 1..Len(chain),
                 Walk(t, chain)[i] = x
          PROVE  Deals(x, Shuffle(t, x, chain[i].data))
      <4>1. Shuffle(t, x, chain[i].data) = S[x]
        BY <2>4, <3>3
      <4> QED
        BY <2>5, <3>3, <4>1
    <3> QED
      BY <2>3, <2>4, <3>2, <3>3 DEF Readable
  <2>8. ~t.faulted
    BY <1>3 DEF t, after
  <2> QED
    BY <2>1, <2>2, <2>4, <2>7, <2>8, RestoredMembers
<1>4. T = {}
  <2> HIDE DEF after
  <2> SUFFICES ASSUME T # {} PROVE FALSE
    OBVIOUS
  <2>1. T \subseteq Nat
    BY <1>1
  <2>2. PICK m \in T : \A x \in T : m <= x
    BY <2>1, LeastNatural
  <2>3. m \in 1..Len(document.front_nodes) /\ m - 1 \in 0..Len(document.front_nodes)
        /\ m - 1 \notin T
    BY <1>1, <1>2, <2>1, <2>2
  <2> QED
    BY <1>3, <2>2, <2>3
<1> QED
  BY <1>4

\* decode leaves closures and shuffles in order.
LEMMA DecodeRecorded ==
  ASSUME RuntimeInvariant, Recorded, Decode
  PROVE  Recorded'
<1> DEFINE N == Len(document.front_nodes)
           t == Restoring(document)[N]
<1>1. /\ UNCHANGED <<document, saved_ready>> /\ document.tree # NoNode /\ N \in Nat
      /\ N \in 0..N
  BY DEF Decode, RuntimeInvariant, DocumentTyped
<1>2. document'.tree # NoNode /\ saved_ready' => (\E q, K, S : Written(q, K, S))'
  <2>1. document.tree # NoNode /\ saved_ready => \E q, K, S : Written(q, K, S)
    BY DEF Recorded
  <2> QED
    BY <1>1, <2>1 DEF Written
<1> HIDE DEF t
<1>3. CASE t.faulted
  <2>1. UNCHANGED <<m_closure, m_shuffle>>
    BY <1>3 DEF Decode, Crash, nodeVars, t
  <2> QED
    BY <1>1, <1>2, <2>1 DEF Recorded, Dealt, Waited, Straight
<1>4. CASE ~t.faulted
  <2>1. m_shuffle' = t.m_shuffle /\ m_closure' = t.m_closure
    BY <1>4 DEF Decode, t
  <2>2. ASSUME NEW n \in Node, Kind[n] = "random_seq" PROVE Deals(n, t.m_shuffle[n])
    BY <1>1, <1>4, <2>2, RestoringDealt DEF Recorded, t
  <2>3. Dealt'
    <3> HIDE DEF Deals
    <3>1. \A n \in Node : Kind[n] = "random_seq" => Deals(n, m_shuffle'[n])
      BY <2>1, <2>2
    <3> QED
      BY <3>1 DEF Dealt, Deals
  <2>4. ASSUME saved_ready', Straight(document)' PROVE Waited'
    <3>1. saved_ready /\ Straight(document)
      BY <1>1, <2>4 DEF Straight
    <3>2. Waited /\ \E q, K, S : Written(q, K, S)
      BY <1>1, <3>1 DEF Recorded
    <3>3. PICK q, K, S : Written(q, K, S)
      BY <3>2
    <3>4. Rewritten(t, q, K, S, N)
      BY <1>1, <1>4, <3>1, <3>2, <3>3, RestoringRewritten DEF t
    <3>5. \A n \in Node : t.m_closure[n] # 0 => n \in Waits
      BY <3>4 DEF Rewritten
    <3> QED
      BY <2>1, <3>5 DEF Waited
  <2> QED
    BY <1>1, <1>2, <2>3, <2>4 DEF Recorded
<1> QED
  BY <1>3, <1>4

\* All of this holds in every state.
LEMMA NextRecorded ==
  ASSUME RuntimeInvariant, Recorded, [PersistenceNext]_persistenceVars
  PROVE  Recorded'
<1>1. CASE UNCHANGED persistenceVars
  BY <1>1 DEF persistenceVars, runtimeVars, timerVars, vars, nodeVars, Recorded, Dealt, Waited,
     BlockedLeaves, Written, Straight
<1>2. CASE PersistenceNext
  BY <1>2, RunningRecorded, SaveRecorded, InitRecorded, DecodeRecorded
  DEF PersistenceNext, RuntimeInvariant
<1> QED
  BY <1>1, <1>2

\* The chain of a node that has been put back, with its closure and its shuffles, is
\* the one that was read.
LEMMA RewrittenChain ==
  ASSUME NEW q, NEW K, NEW S, Written(q, K, S), NEW k, NEW t, Rewritten(t, q, K, S, k),
         NEW i \in 1..k, i \in DOMAIN q
  PROVE  ChainWith(q[i], t.m_closure, t.m_shuffle) = ChainWith(q[i], K, S)
<1>1. q[i] \in Node /\ Runnable(q[i])
  BY DEF Written
<1>2. ASSUME NEW j \in DOMAIN Path(q[i])
      PROVE  LET m == Path(q[i])[j] IN
             /\ t.m_closure[m] = K[m]
             /\ Kind[m] = "random_seq" => t.m_shuffle[m] = S[m]
  <2> DEFINE m == Path(q[i])[j]
  <2>1. m \in Node /\ m \in Lineage[q[i]]
    BY <1>1, PathSteps
  <2>2. Kind[m] = "random_seq" => t.m_shuffle[m] = S[m]
    BY <1>2 DEF Rewritten
  <2>3. t.m_closure[q[i]] = K[q[i]]
    BY DEF Rewritten
  <2> HIDE DEF m
  <2>4. t.m_closure[m] # 0 \/ K[m] # 0 => m \in Waits
    BY <2>1 DEF Rewritten, Written
  <2>5. m \in Waits => m = q[i]
    BY <1>1, <2>1, RuntimeAssumption DEF Runnable
  <2>6. t.m_closure[m] = K[m]
    BY <2>3, <2>4, <2>5
  <2> QED
    BY <2>2, <2>6 DEF m
<1> QED
  BY <1>2 DEF ChainWith

\* An agent that has read a document writes it, but for the blackboard.
LEMMA ReadEncodes ==
  ASSUME RuntimeInvariant, Recorded, saved_ready, Straight(document), Decode,
         ~Restoring(document)[Len(document.front_nodes)].faulted
  PROVE  pc' # "crashed" /\ Encode' = [document EXCEPT !.blackboards = m_blackboard']
<1> DEFINE N == Len(document.front_nodes)
           t == Restoring(document)[N]
<1>1. document.tree # NoNode /\ N \in Nat /\ N \in 0..N
  BY DEF Decode, RuntimeInvariant, DocumentTyped
<1>2. /\ cur_root_node' = t.root /\ m_fronts' = t.m_fronts
      /\ m_closure' = t.m_closure /\ m_shuffle' = t.m_shuffle
      /\ m_next_timer_seq' = document.next_timer_seq
      /\ pc' = "idle"
  BY DEF Decode, pollVars
<1>3. t.root = document.tree /\ t.m_fronts \in Seq(Node)
  <2>1. LET u == Restoring(document)[N] IN DOMAIN u = Members /\ (u.faulted \/ Rebuilt(u))
    BY <1>1, RestoringRebuilt
  <2>2. Rebuilt(t)
    BY <2>1
  <2> HIDE DEF t
  <2> QED
    BY <2>2 DEF Rebuilt
<1>4. PICK q, K, S : Written(q, K, S)
  BY <1>1 DEF Recorded
<1>5. Rewritten(t, q, K, S, N)
  <2>1. Waited
    BY DEF Recorded
  <2> QED
    BY <1>1, <1>4, <2>1, RestoringRewritten
<1> HIDE DEF t
<1>6. /\ document = [tree |-> document.tree,
                     blackboards |-> document.blackboards,
                     front_nodes |-> [k \in DOMAIN q |-> ChainWith(q[k], K, S)],
                     next_timer_seq |-> document.next_timer_seq]
      /\ q \in Seq(Node)
  BY <1>4 DEF Written
<1>7. DOMAIN q = 1..N
  <2>1. DOMAIN document.front_nodes = DOMAIN q
    <3>1. document.front_nodes = [k \in DOMAIN q |-> ChainWith(q[k], K, S)]
      BY <1>6
    <3> QED
      BY <3>1
  <2>2. document.front_nodes \in Seq(Seq(Link(document.next_timer_seq)))
    BY DEF RuntimeInvariant, DocumentTyped
  <2>3. DOMAIN document.front_nodes = 1..N
    BY <2>2
  <2> QED
    BY <2>1, <2>3
<1>8. DOMAIN t.m_fronts = 1..N /\ \A i \in 1..N : t.m_fronts[i] = q[i]
  <2>1. Len(t.m_fronts) = N /\ \A i \in 1..N : t.m_fronts[i] = q[i]
    BY <1>5 DEF Rewritten
  <2> QED
    BY <1>3, <2>1
<1>9. \A i \in 1..N : Chain(m_fronts[i])' = ChainWith(q[i], K, S)
  <2>1. ASSUME NEW i \in 1..N PROVE Chain(m_fronts[i])' = ChainWith(q[i], K, S)
    <3>1. Chain(m_fronts[i])' = ChainWith(m_fronts'[i], m_closure', m_shuffle')
      BY DEF Chain, ChainWith, NodeData
    <3>2. m_fronts'[i] = q[i]
      BY <1>2, <1>8
    <3>3. ChainWith(q[i], t.m_closure, t.m_shuffle) = ChainWith(q[i], K, S)
      BY <1>4, <1>5, <1>7, RewrittenChain
    <3> QED
      BY <1>2, <3>1, <3>2, <3>3
  <2> QED
    BY <2>1
<1>10. [k \in DOMAIN m_fronts |-> Chain(m_fronts[k])]' = [k \in DOMAIN q |-> ChainWith(q[k], K, S)]
  BY <1>2, <1>7, <1>8, <1>9
<1>11. Encode' = [tree |-> document.tree,
                  blackboards |-> m_blackboard',
                  front_nodes |-> [k \in DOMAIN q |-> ChainWith(q[k], K, S)],
                  next_timer_seq |-> document.next_timer_seq]
  BY <1>1, <1>2, <1>3, <1>10 DEF Encode
<1>12. [document EXCEPT !.blackboards = m_blackboard']
         = [tree |-> document.tree,
            blackboards |-> m_blackboard',
            front_nodes |-> [k \in DOMAIN q |-> ChainWith(q[k], K, S)],
            next_timer_seq |-> document.next_timer_seq]
  BY <1>6
<1> QED
  BY <1>2, <1>11, <1>12

----------------------------------------------------------------------------
(* Choosing with removal.                                                  *)

Count(q, x) == Cardinality({i \in DOMAIN q : q[i] = x})

\* How often an item is in an array.
LEMMA CountType ==
  ASSUME NEW S, NEW q \in Seq(S), NEW x
  PROVE  /\ Count(q, x) \in Nat
         /\ IsFiniteSet({i \in DOMAIN q : q[i] = x})
         /\ Count(q, x) # 0 <=> x \in ToSet(q)
<1> DEFINE A == {i \in DOMAIN q : q[i] = x}
<1>1. IsFiniteSet(A)
  <2>1. DOMAIN q = 1..Len(q) /\ Len(q) \in Nat
    OBVIOUS
  <2>2. IsFiniteSet(1..Len(q)) /\ A \in SUBSET (1..Len(q))
    BY <2>1, FS_Interval
  <2> HIDE DEF A
  <2> QED
    BY <2>2, FS_Subset
<1>2. A # {} <=> x \in ToSet(q)
  BY DEF ToSet
<1> HIDE DEF A
<1>3. Cardinality(A) \in Nat /\ (Cardinality(A) = 0 <=> A = {})
  BY <1>1, FS_CardinalityType, FS_EmptySet
<1> QED
  BY <1>1, <1>2, <1>3 DEF Count, A

\* Shuffling keeps every item,
LEMMA CountOfShuffle ==
  ASSUME NEW S, NEW q \in Seq(S), NEW s \in Shuffles(q), NEW x
  PROVE  s \in Seq(S) /\ Len(s) = Len(q) /\ Count(s, x) = Count(q, x)
<1>1. PICK p \in Bijection(DOMAIN q, DOMAIN q) : s = [i \in DOMAIN q |-> q[p[i]]]
  BY DEF Shuffles
<1>2. /\ p \in [DOMAIN q -> DOMAIN q]
      /\ \A i, j \in DOMAIN q : p[i] = p[j] => i = j
      /\ \A j \in DOMAIN q : \E i \in DOMAIN q : p[i] = j
  BY DEF Bijection, Injection, IsInjective, Surjection
<1>3. s \in Seq(S) /\ Len(s) = Len(q) /\ DOMAIN s = DOMAIN q
  <2>1. DOMAIN q = 1..Len(q) /\ Len(q) \in Nat
    OBVIOUS
  <2>2. \A i \in 1..Len(q) : q[p[i]] \in S
    BY <1>2, <2>1
  <2>3. \A f : \A m \in Nat : f = [i \in 1..m |-> f[i]] /\ (\A i \in 1..m : f[i] \in S)
                            => f \in Seq(S) /\ Len(f) = m
    OBVIOUS
  <2>4. s = [i \in 1..Len(q) |-> s[i]] /\ \A i \in 1..Len(q) : s[i] \in S
    BY <1>1, <2>1, <2>2
  <2> QED
    BY <1>1, <2>1, <2>3, <2>4
<1> DEFINE A == {i \in DOMAIN s : s[i] = x}
           B == {i \in DOMAIN q : q[i] = x}
           f == [i \in A |-> p[i]]
<1>4. f \in [A -> B]
  BY <1>1, <1>2, <1>3
<1>5. \A i, j \in A : f[i] = f[j] => i = j
  BY <1>2, <1>3
<1>6. \A j \in B : \E i \in A : f[i] = j
  BY <1>1, <1>2, <1>3
<1>7. IsFiniteSet(A)
  BY <1>3, CountType
<1> HIDE DEF A, B, f
<1>8. f \in Bijection(A, B)
  BY <1>4, <1>5, <1>6 DEF Bijection, Injection, IsInjective, Surjection
<1>9. Cardinality(B) = Cardinality(A)
  BY <1>7, <1>8, FS_Bijection DEF ExistsBijection
<1> QED
  BY <1>3, <1>9 DEF Count, A, B

\* and so does cutting in two.
LEMMA CountOfParts ==
  ASSUME NEW S, NEW q \in Seq(S), NEW k \in 0..Len(q), NEW x
  PROVE  /\ SubSeq(q, 1, k) \in Seq(S) /\ SubSeq(q, k + 1, Len(q)) \in Seq(S)
         /\ Count(q, x) = Count(SubSeq(q, 1, k), x) + Count(SubSeq(q, k + 1, Len(q)), x)
<1> DEFINE a == SubSeq(q, 1, k)
           b == SubSeq(q, k + 1, Len(q))
           A == {i \in DOMAIN a : a[i] = x}
           B == {i \in DOMAIN b : b[i] = x}
           Q == {i \in DOMAIN q : q[i] = x}
           K == {i \in Q : i > k}
           f == [i \in B |-> i + k]
<1>1. /\ Len(q) \in Nat /\ k \in Nat /\ DOMAIN q = 1..Len(q)
      /\ a \in Seq(S) /\ DOMAIN a = 1..k /\ \A i \in 1..k : a[i] = q[i]
      /\ b \in Seq(S) /\ DOMAIN b = 1..(Len(q) - k)
      /\ \A i \in 1..(Len(q) - k) : b[i] = q[i + k]
  OBVIOUS
<1> HIDE DEF a, b
<1>2. Q = A \cup K /\ A \cap K = {}
  BY <1>1
<1>3. f \in [B -> K]
  BY <1>1
<1>4. \A i, j \in B : f[i] = f[j] => i = j
  BY <1>1
<1>5. \A j \in K : \E i \in B : f[i] = j
  <2> SUFFICES ASSUME NEW j \in K PROVE j - k \in B /\ f[j - k] = j
    OBVIOUS
  <2>1. j - k \in 1..(Len(q) - k) /\ (j - k) + k = j
    BY <1>1
  <2> QED
    BY <1>1, <2>1
<1>6. IsFiniteSet(A) /\ IsFiniteSet(B) /\ Count(a, x) \in Nat /\ Count(b, x) \in Nat
  BY <1>1, CountType
<1> HIDE DEF A, B, K, Q, f
<1>7. f \in Bijection(B, K)
  BY <1>3, <1>4, <1>5 DEF Bijection, Injection, IsInjective, Surjection
<1>8. IsFiniteSet(K) /\ Cardinality(K) = Cardinality(B)
  BY <1>6, <1>7, FS_Bijection DEF ExistsBijection
<1>9. Cardinality(Q) = Cardinality(A) + Cardinality(K) - Cardinality({})
  <2>1. Cardinality(A \cup K) = Cardinality(A) + Cardinality(K) - Cardinality(A \cap K)
    BY <1>6, <1>8, FS_Union
  <2> QED
    BY <1>2, <2>1
<1>10. Count(a, x) = Cardinality(A) /\ Count(b, x) = Cardinality(B) /\ Count(q, x) = Cardinality(Q)
  BY DEF Count, A, B, Q
<1>11. Cardinality({}) = 0
  BY FS_EmptySet
<1>12. Count(q, x) = Count(a, x) + Count(b, x)
  BY <1>6, <1>8, <1>9, <1>10, <1>11
<1> QED
  BY <1>1, <1>12 DEF a, b

\* What is chosen and what is left, together.
LEMMA ItemsOfParts ==
  ASSUME NEW S, NEW a \in Seq(S), NEW b \in Seq(S), NEW q \in Seq(S),
         \A x : Count(q, x) = Count(a, x) + Count(b, x),
         NEW u, NEW v, NEW w, u.items = a, v.items = b, w.items = q
  PROVE  Items(v) (+) Items(u) = Items(w)
<1>1. /\ Items(u) = [x \in ToSet(a) |-> Count(a, x)]
      /\ Items(v) = [x \in ToSet(b) |-> Count(b, x)]
      /\ Items(w) = [x \in ToSet(q) |-> Count(q, x)]
  BY DEF Items, Count
<1>2. \A x : /\ Count(a, x) \in Nat /\ (Count(a, x) # 0 <=> x \in ToSet(a))
             /\ Count(b, x) \in Nat /\ (Count(b, x) # 0 <=> x \in ToSet(b))
             /\ Count(q, x) \in Nat /\ (Count(q, x) # 0 <=> x \in ToSet(q))
  BY CountType
<1>3. ToSet(q) = ToSet(a) \cup ToSet(b)
  <2>1. \A x : x \in ToSet(q) <=> x \in ToSet(a) \/ x \in ToSet(b)
    BY <1>2
  <2> QED
    BY <2>1
<1>4. Items(v) (+) Items(u) =
        [x \in ToSet(b) \cup ToSet(a) |->
           (IF x \in ToSet(b) THEN Count(b, x) ELSE 0) + (IF x \in ToSet(a) THEN Count(a, x) ELSE 0)]
  BY <1>1 DEF (+)
<1>5. \A x : (IF x \in ToSet(b) THEN Count(b, x) ELSE 0) + (IF x \in ToSet(a) THEN Count(a, x) ELSE 0)
             = Count(q, x)
  BY <1>2
<1> QED
  BY <1>1, <1>3, <1>4, <1>5

\* One step that chooses with removal.
LEMMA ChoiceParts ==
  ASSUME RuntimeTypeOK, NEW n \in DOMAIN Request, Perform(n),
         Request[n].action \in {"choose_random", "choose_one_random"},
         Request[n].remove, Request[n].key # Request[n].dest, result'[n]
  PROVE  Items(m_blackboard'[Request[n].key]) (+) Items(m_blackboard'[Request[n].dest])
           = Items(m_blackboard[Request[n].key])
<1> DEFINE r == Resolved(Request[n])
           bb == m_blackboard
           q == BlackboardGet(bb, r.key).items
           k == IF r.action = "choose_random" THEN r.count ELSE 1
           chosen(s) == IF r.action = "choose_random" THEN List(SubSeq(s, 1, k))
                        ELSE Whole(Head(s))
<1>1. /\ r.action = Request[n].action /\ r.key = Request[n].key /\ r.dest = Request[n].dest
      /\ r.remove /\ r.count \in Nat
  BY RuntimeAssumption DEF Resolved
<1>2. PICK o \in Performed(r, bb) : result'[n] = o.answer /\ m_blackboard' = o.blackboard
  BY DEF Perform
<1>3. o \in Choose(r, bb)
  BY <1>1, <1>2 DEF Performed, Arithmetic, Comparisons
<1> HIDE DEF r
<1>4. BlackboardGet(bb, r.key).type = "array" /\ ~(Len(q) < k)
  <2> SUFFICES ASSUME BlackboardGet(bb, r.key).type # "array" \/ Len(q) < k PROVE FALSE
    OBVIOUS
  <2>1. o.answer = FALSE
    BY <1>3 DEF Choose, Refused, Outcome
  <2> QED
    BY <1>2, <2>1
<1>5. PICK s \in Shuffles(q) :
        o = Outcome(TRUE, BlackboardSet(BlackboardSet(bb, r.dest, chosen(s)), r.key,
                                        List(Remainder(s, k))))
  BY <1>1, <1>3, <1>4 DEF Choose
<1>6. r.key \in DOMAIN bb /\ bb[r.key].items = q
  BY <1>4 DEF BlackboardGet, Null, Value
<1>7. q \in Seq(Ints) /\ k \in Nat /\ k <= Len(q)
  <2>1. Fits(BlackboardGet(bb, r.key))
    BY <1>6 DEF RuntimeTypeOK, BlackboardGet
  <2> QED
    BY <1>1, <1>4, <2>1, ListsFit
<1>8. /\ s \in Seq(Ints) /\ Len(s) = Len(q) /\ k \in 0..Len(s)
      /\ \A x : Count(s, x) = Count(q, x)
  <2> HIDE DEF q, k
  <2>1. s \in Seq(Ints) /\ Len(s) = Len(q) /\ \A x : Count(s, x) = Count(q, x)
    BY <1>7, CountOfShuffle
  <2> QED
    BY <1>7, <2>1
<1>9. m_blackboard'[r.key].items = SubSeq(s, k + 1, Len(s))
  <2>1. m_blackboard' = BlackboardSet(BlackboardSet(bb, r.dest, chosen(s)), r.key,
                                      List(Remainder(s, k)))
    BY <1>2, <1>5 DEF Outcome
  <2> QED
    BY <2>1 DEF BlackboardSet, List, Value, Remainder
<1>10. m_blackboard'[r.dest].items = SubSeq(s, 1, k)
  <2>1. m_blackboard'[r.dest] = chosen(s)
    <3> HIDE DEF chosen, k
    <3> QED
      BY <1>1, <1>2, <1>5 DEF BlackboardSet, Outcome
  <2>2. CASE r.action = "choose_random"
    <3>1. chosen(s) = List(SubSeq(s, 1, k))
      BY <2>2
    <3>2. \A x : List(x).items = x
      BY DEF List, Value
    <3> HIDE DEF chosen, k
    <3> QED
      BY <2>1, <3>1, <3>2
  <2>3. CASE r.action # "choose_random"
    <3>1. Len(s) > 0 /\ k = 1 /\ chosen(s) = Whole(Head(s))
      BY <1>8, <2>3
    <3>2. SubSeq(s, 1, 1) = <<Head(s)>>
      <4>1. SubSeq(s, 1, 1) \in Seq(Ints) /\ Len(SubSeq(s, 1, 1)) = 1
            /\ SubSeq(s, 1, 1)[1] = Head(s)
        BY <1>8, <3>1
      <4>2. \A S, f, x : f \in Seq(S) /\ Len(f) = 1 /\ f[1] = x => f = <<x>>
        OBVIOUS
      <4> QED
        BY <4>1, <4>2
    <3> HIDE DEF chosen, k
    <3> QED
      BY <2>1, <3>1, <3>2 DEF Whole, Value
  <2> QED
    BY <2>2, <2>3
<1>11. \A x : Count(q, x) = Count(SubSeq(s, 1, k), x) + Count(SubSeq(s, k + 1, Len(s)), x)
  BY <1>8, CountOfParts
<1>12. SubSeq(s, 1, k) \in Seq(Ints) /\ SubSeq(s, k + 1, Len(s)) \in Seq(Ints)
  BY <1>8, CountOfParts
<1>13. Items(m_blackboard'[r.key]) (+) Items(m_blackboard'[r.dest]) = Items(bb[r.key])
  <2> DEFINE a == SubSeq(s, 1, k)
             b == SubSeq(s, k + 1, Len(s))
             u == m_blackboard'[r.dest]
             v == m_blackboard'[r.key]
             w == bb[r.key]
  <2>1. /\ a \in Seq(Ints) /\ b \in Seq(Ints) /\ q \in Seq(Ints)
        /\ \A x : Count(q, x) = Count(a, x) + Count(b, x)
        /\ u.items = a /\ v.items = b /\ w.items = q
    BY <1>6, <1>7, <1>9, <1>10, <1>11, <1>12
  <2> HIDE DEF q, k, a, b, u, v, w
  <2>2. Items(v) (+) Items(u) = Items(w)
    BY <2>1, ItemsOfParts
  <2> QED
    BY <2>2 DEF u, v, w
<1> QED
  BY <1>1, <1>13

----------------------------------------------------------------------------
(* Theorems.                                                               *)

\* Every step keeps the invariant.
LEMMA NextInvariant ==
  RuntimeInvariant /\ [PersistenceNext]_persistenceVars => RuntimeInvariant'
<1> SUFFICES ASSUME RuntimeInvariant, [PersistenceNext]_persistenceVars PROVE RuntimeInvariant'
  OBVIOUS
<1>1. ASSUME UNCHANGED <<document, saved_ready>> PROVE DocumentTyped' /\ DocumentHeld'
  BY <1>1 DEF RuntimeInvariant, DocumentTyped, DocumentHeld, Queueing
<1>2. CASE RuntimeNext /\ UNCHANGED <<document, saved_ready>>
  BY <1>1, <1>2, NextRunning DEF RuntimeInvariant
<1>3. CASE UNCHANGED persistenceVars
  <2>1. Running'
    <3>1. Agreed'
      BY <1>3, NextAgreed DEF RuntimeInvariant, Running, persistenceVars, runtimeVars
    <3> QED
      BY <1>3, <3>1
      DEF RuntimeInvariant, Running, persistenceVars, runtimeVars, timerVars, vars, queueVars,
          nodeVars, TimersTyped, BlackboardTyped, Waiter, InLoaded, Runnable, Held, Queued
  <2> QED
    BY <1>1, <1>3, <2>1 DEF RuntimeInvariant, persistenceVars
<1> QED
  BY <1>2, <1>3, SaveInvariant, RestartInvariant, DecodeInvariant DEF PersistenceNext

\* The members of an agent, its blackboard, its timers and its closures have their
\* types, whatever happens to it, and whatever it is restored from.
THEOREM RuntimeTypeCorrect == PersistenceSpec => []RuntimeTypeOK
<1>1. RuntimeInvariant => RuntimeTypeOK
  <2> SUFFICES ASSUME RuntimeInvariant PROVE RuntimeTypeOK
    OBVIOUS
  <2>1. Typed /\ BlackboardTyped /\ TimersTyped
    BY DEF RuntimeInvariant, Running, Agreed
  <2>2. \A e \in DOMAIN m_active_timers : e \in [seq : 1..MaxSeq, node : Node \cup {Gone}]
    BY <2>1, RuntimeAssumption DEF TimersTyped
  <2> QED
    BY <2>1, <2>2 DEF RuntimeTypeOK, Typed, BlackboardTyped, TimersTyped, BagToSet
<1> QED
  BY <1>1, InitInvariant, NextInvariant, PTL DEF PersistenceSpec

\* A wait that has control has a closure of its own, and its number is listed for
\* it and for no other node: through every end, interruption, deletion, crash,
\* save and restore of this wait and of others.
THEOREM WaitsHeldAlways == PersistenceSpec => []WaitsHeld
<1>1. RuntimeInvariant => WaitsHeld
  <2> SUFFICES ASSUME RuntimeInvariant, intact,
                      NEW n \in Tokens, m_state[n] = "blocking", n \in Waits
               PROVE  /\ m_closure[n] # 0
                      /\ \A e \in Entries(m_active_timers, m_closure[n]) : e.node = n
                      /\ Entries(m_active_timers, m_closure[n]) # {}
    BY DEF WaitsHeld
  <2>1. n \in Queued /\ n \in Node
    BY RuntimeAssumption DEF Tokens
  <2> QED
    BY <2>1 DEF RuntimeInvariant, Running, Held
<1> QED
  BY <1>1, InitInvariant, NextInvariant, PTL DEF PersistenceSpec

\* What is saved while every queued node blocks comes back: encoding the restored
\* agent gives the document again, for every tree, however deep the chains and
\* however many.
THEOREM RoundTripAlways == PersistenceSpec => RoundTrip
<1>1. ASSUME RuntimeInvariant, Recorded, saved_ready, Straight(document), Decode
      PROVE  IF cur_root_node = NoNode THEN pc' # "crashed" /\ Encode' = document
             ELSE pc' = "crashed" \/ Encode' = [document EXCEPT !.blackboards = <<>>]
  <2> DEFINE t == Restoring(document)[Len(document.front_nodes)]
  <2>1. document.tree # NoNode
        /\ m_blackboard' = IF cur_root_node = NoNode THEN document.blackboards ELSE <<>>
    BY <1>1 DEF Decode
  <2>2. CASE t.faulted
    <3>1. pc' = "crashed"
      BY <1>1, <2>2 DEF Decode, Crash
    <3>2. cur_root_node # NoNode
      <4>1. Dealt /\ \E q, K, S : Written(q, K, S)
        BY <1>1, <2>1 DEF Recorded
      <4>2. Len(document.front_nodes) \in 0..Len(document.front_nodes)
        BY <1>1 DEF RuntimeInvariant, DocumentTyped
      <4> QED
        BY <1>1, <2>1, <2>2, <4>1, <4>2, RestoringReads
    <3> QED
      BY <3>1, <3>2
  <2>3. CASE ~t.faulted
    <3>1. pc' # "crashed" /\ Encode' = [document EXCEPT !.blackboards = m_blackboard']
      BY <1>1, <2>3, ReadEncodes
    <3>2. cur_root_node = NoNode => [document EXCEPT !.blackboards = m_blackboard'] = document
      <4>1. \E q, K, S : Written(q, K, S)
        BY <1>1, <2>1 DEF Recorded
      <4> QED
        BY <2>1, <4>1 DEF Written
    <3> QED
      BY <2>1, <3>1, <3>2
  <2> QED
    BY <2>2, <2>3
<1>2. RuntimeInvariant /\ Recorded =>
        [saved_ready /\ Straight(document) /\ Decode =>
           IF cur_root_node = NoNode THEN pc' # "crashed" /\ Encode' = document
           ELSE pc' = "crashed" \/ Encode' = [document EXCEPT !.blackboards = <<>>]]_persistenceVars
  BY <1>1
<1>3. PersistenceInit => RuntimeInvariant /\ Recorded
  BY InitInvariant, InitRecorded
<1>4. RuntimeInvariant /\ Recorded /\ [PersistenceNext]_persistenceVars
        => RuntimeInvariant' /\ Recorded'
  BY NextInvariant, NextRecorded
<1> QED
  BY <1>2, <1>3, <1>4, PTL DEF PersistenceSpec, RoundTrip

\* Choosing with removal neither loses nor doubles an item, whatever the array
\* and the count are.
THEOREM ChoiceAlwaysKeepsItems == PersistenceSpec => ChoiceKeepsItems
<1>1. RuntimeTypeOK =>
        [\A n \in DOMAIN Request : LET r == Request[n] IN
           /\ Perform(n)
           /\ r.action \in {"choose_random", "choose_one_random"}
           /\ r.remove /\ r.key # r.dest
           /\ result'[n]
           => Items(m_blackboard'[r.key]) (+) Items(m_blackboard'[r.dest])
                = Items(m_blackboard[r.key])]_persistenceVars
  BY ChoiceParts
<1> QED
  BY <1>1, RuntimeTypeCorrect, PTL DEF PersistenceSpec, ChoiceKeepsItems
=============================================================================
