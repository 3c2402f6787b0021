--------------------------- MODULE HybridParts_proofs ---------------------------
(* Theorems about parts of the hybrid runtime: the frame store, for every capacity *)
(* and every set of callees; the dictionary, which finds every word, whatever the  *)
(* names, the buckets, the resident words and the order of interning, declaring    *)
(* and calling; and the function values of the image, for every set of frozen      *)
(* values and every bound on records and assignments.                              *)
EXTENDS NativeFrames, NativeDictionary, ImageFunctions, OrderFacts

\* The greatest element that Highest chooses is there.
LEMMA HighestThere ==
  ASSUME NEW S \in SUBSET Nat, S # {}, NEW n \in Nat, \A x \in S : x <= n
  PROVE  /\ Highest(S) \in S
         /\ \A y \in S : y <= Highest(S)
<1>1. \E x \in S : \A y \in S : y <= x
  BY GreatestNatural
<1> QED
  BY <1>1 DEF Highest

\* Neither of two naturals passes their sum.
LEMMA PairBelowSum ==
  ASSUME NEW a \in Nat, NEW b \in Nat
  PROVE  {a, b} \in SUBSET Nat /\ a + b \in Nat /\ \A x \in {a, b} : x <= a + b
OBVIOUS

---------------------------------------------------------------------------
(* What a call holds *)

\* Every binding saved takes two words of an even number.
LEMMA SavedEven ==
  ASSUME NEW slots \in Seq(Slot)
  PROVE  /\ Saved(slots, 1) \in Nat /\ Saved(slots, 1) % 2 = 0
         /\ \A i \in DOMAIN slots : /\ Saved(slots, i) \in Nat /\ Saved(slots, i) % 2 = 0
                                    /\ Saved(slots, i) <= Saved(slots, 1)
<1>1. Len(slots) \in Nat /\ DOMAIN slots = 1 .. Len(slots)
  OBVIOUS
<1>2. ASSUME NEW k \in Nat PROVE (2 + 2 * k) \in Nat /\ (2 + 2 * k) % 2 = 0
  OBVIOUS
<1>3. Saved(slots, 1) = 2 + 2 * Len(slots)
  BY <1>1 DEF Saved
<1>4. ASSUME NEW i \in DOMAIN slots
      PROVE  /\ Len(slots) + 1 - i \in Nat
             /\ Saved(slots, i) = 2 + 2 * (Len(slots) + 1 - i)
             /\ Saved(slots, i) <= Saved(slots, 1)
  BY <1>1, <1>3 DEF Saved
<1> QED
  BY <1>1, <1>2, <1>3, <1>4

\* What a call needs at its entry and its exit: what it holds, or three words above what is
\* saved at one of its slots.
LEMMA CostKnown ==
  ASSUME NEW slots \in Seq(Slot)
  PROVE  /\ Cost(slots) = [retained |-> Saved(slots, 1), entry |-> Cost(slots).entry,
                            exit |-> Cost(slots).exit]
         /\ Cost(slots).entry \in Nat /\ Cost(slots).exit \in Nat
         /\ Saved(slots, 1) <= Cost(slots).entry /\ Saved(slots, 1) <= Cost(slots).exit
         /\ \/ Cost(slots).entry = Saved(slots, 1)
            \/ \E i \in DOMAIN slots : slots[i].argument /\ Cost(slots).entry = Saved(slots, i) + 3
         /\ \A i \in DOMAIN slots : slots[i].argument => Saved(slots, i) + 3 <= Cost(slots).entry
         /\ \/ Cost(slots).exit = Saved(slots, 1)
            \/ \E i \in DOMAIN slots : slots[i].result /\ Cost(slots).exit = Saved(slots, i) + 3
<1> DEFINE held == Saved(slots, 1)
           above(used) == {held} \cup {Saved(slots, i) + 3 : i \in used}
           inward == {i \in DOMAIN slots : slots[i].argument}
           exits == {i \in DOMAIN slots : slots[i].result}
<1>1. held \in Nat /\ \A i \in DOMAIN slots : Saved(slots, i) \in Nat /\ Saved(slots, i) <= held
  BY SavedEven
<1>2. ASSUME NEW used \in SUBSET DOMAIN slots
      PROVE  Highest(above(used)) \in above(used)
             /\ \A y \in above(used) : y <= Highest(above(used))
  <2>1. above(used) \in SUBSET Nat /\ above(used) # {} /\ held + 3 \in Nat
    BY <1>1
  <2>2. \A x \in above(used) : x <= held + 3
    BY <1>1
  <2> HIDE DEF above
  <2> QED BY <2>1, <2>2, HighestThere
<1>3. /\ Cost(slots).retained = held /\ Cost(slots).entry = Highest(above(inward))
      /\ Cost(slots).exit = Highest(above(exits))
      /\ Cost(slots) = [retained |-> held, entry |-> Cost(slots).entry, exit |-> Cost(slots).exit]
  BY DEF Cost
<1>4. /\ Cost(slots).entry \in above(inward) /\ \A y \in above(inward) : y <= Cost(slots).entry
      /\ Cost(slots).exit \in above(exits) /\ \A y \in above(exits) : y <= Cost(slots).exit
  <2>1. inward \in SUBSET DOMAIN slots /\ exits \in SUBSET DOMAIN slots
    OBVIOUS
  <2> HIDE DEF inward, exits, above
  <2> QED BY <2>1, <1>2, <1>3
<1>5. Cost(slots).entry \in Nat /\ Cost(slots).exit \in Nat
  <2>1. above(inward) \subseteq Nat /\ above(exits) \subseteq Nat
    BY <1>1
  <2> HIDE DEF above
  <2> QED BY <1>4, <2>1
<1>6. held <= Cost(slots).entry /\ held <= Cost(slots).exit
  BY <1>4
<1>7. Cost(slots).entry = held
      \/ \E i \in DOMAIN slots : slots[i].argument /\ Cost(slots).entry = Saved(slots, i) + 3
  BY <1>4
<1>8. \A i \in DOMAIN slots : slots[i].argument => Saved(slots, i) + 3 <= Cost(slots).entry
  BY <1>4
<1>9. Cost(slots).exit = held
      \/ \E i \in DOMAIN slots : slots[i].result /\ Cost(slots).exit = Saved(slots, i) + 3
  BY <1>4
<1> HIDE DEF above, inward, exits
<1> QED
  BY <1>3, <1>5, <1>6, <1>7, <1>8, <1>9

---------------------------------------------------------------------------
(* The inductive invariant *)

\* What the first i frames hold together is h[i],
\* and historically the entry of the i-th has fitted above what was held before it.
HeldBy(h) == /\ h \in [0 .. Len(frames) -> Nat] /\ h[0] = 0
             /\ \A i \in 1 .. Len(frames) : h[i] = h[i - 1] + frames[i].cost.retained
             /\ words = h[Len(frames)]
             /\ Limit = 0 => \A i \in 1 .. Len(frames) : h[i - 1] + frames[i].cost.entry <= Capacity

CallsKnown == \A i \in 2 .. Len(frames) : /\ frames[i].callee \in Shapes
                                         /\ frames[i].cost = Cost(frames[i].callee)

WithinStore == Limit = 0 => words <= Capacity

Inv == /\ TypeOK /\ OddBase /\ CallsKnown /\ WithinStore
       /\ \E h \in [0 .. Len(frames) -> Nat] : HeldBy(h)

CostRecord == [retained : Nat, entry : Nat, exit : Nat]
Frame == [cost : CostRecord, callee : Shapes \cup {<<>>}]

LEMMA OddPlusEven ==
  ASSUME NEW a \in Nat, NEW b \in Nat, b % 2 = 0
  PROVE  (a + b) % 2 = a % 2
<1>1. PICK k \in Nat : b = 2 * k
  BY Z3
<1> QED
  BY <1>1

\* A frame whose peak fits may be entered.
LEMMA EnterInv ==
  ASSUME Inv, NEW cost \in CostRecord, NEW callee \in Shapes \cup {<<>>}, Enter(cost, callee),
         UNCHANGED exhausted \/ exhausted' = "none",
         Limit = 0 => words + cost.entry <= Capacity, cost.retained <= cost.entry,
         frames = <<>> => cost = TopCost,
         frames # <<>> => callee \in Shapes /\ cost = Cost(callee) /\ cost.retained % 2 = 0
  PROVE  Inv'
<1> USE FramesAssumption
<1> DEFINE f == [cost |-> cost, callee |-> callee]
           n == Len(frames)
<1>1. /\ frames \in Seq(Frame) /\ words \in Nat /\ peak \in Nat /\ n \in Nat
      /\ f \in Frame /\ frames' = Append(frames, f) /\ words' = words + cost.retained
  BY DEF Inv, TypeOK, Enter, Frame, CostRecord
<1>2. /\ frames' \in Seq(Frame) /\ Len(frames') = n + 1 /\ frames'[n + 1] = f
      /\ \A i \in 1 .. n : frames'[i] = frames[i]
      /\ frames' # <<>>
  <2> HIDE DEF f
  <2> QED BY <1>1
<1>3. words' \in Nat /\ cost.retained \in Nat /\ cost.entry \in Nat
  BY <1>1 DEF CostRecord
<1>4. peak' \in Nat
  <2>1. peak' = Highest({peak, words + cost.entry}) /\ words + cost.entry \in Nat
    BY <1>1, <1>3 DEF Enter
  <2>2. {peak, words + cost.entry} \in SUBSET Nat /\ peak + (words + cost.entry) \in Nat
        /\ \A x \in {peak, words + cost.entry} : x <= peak + (words + cost.entry)
    BY <1>1, <2>1
  <2> QED BY <2>1, <2>2, HighestThere
<1>5. frames'[1].cost = TopCost
  <2>1. CASE frames = <<>>
    BY <2>1, <1>2
  <2>2. CASE frames # <<>>
    BY <2>2, <1>1, <1>2 DEF Inv, TypeOK
  <2> QED BY <2>1, <2>2
<1>6. TypeOK'
  BY <1>2, <1>3, <1>4, <1>5 DEF Inv, TypeOK, Frame, CostRecord
<1>7. CallsKnown'
  <2> SUFFICES ASSUME NEW i \in 2 .. n + 1
               PROVE frames'[i].callee \in Shapes /\ frames'[i].cost = Cost(frames'[i].callee)
    BY <1>2 DEF CallsKnown
  <2>1. CASE i = n + 1
    <3>1. frames # <<>> /\ frames'[i] = f
      BY <2>1, <1>1, <1>2
    <3> QED BY <3>1
  <2>2. CASE i \in 2 .. n
    <3>1. frames'[i] = frames[i]
      BY <2>2, <1>2
    <3> QED BY <2>2, <3>1 DEF Inv, CallsKnown
  <2> QED BY <2>1, <2>2, <1>1
<1>8. OddBase'
  <2>1. CASE frames = <<>>
    <3>1. words = 0
      BY <2>1 DEF Inv, HeldBy
    <3> QED BY <3>1, <2>1, <1>1 DEF Inv, OddBase, TopCost
  <2>2. CASE frames # <<>>
    <3>1. words % 2 = 1 /\ cost.retained % 2 = 0
      BY <2>2 DEF Inv, OddBase
    <3>2. (words + cost.retained) % 2 = 1
      BY <3>1, <1>1, <1>3, OddPlusEven
    <3> QED BY <3>2, <1>1 DEF Inv, OddBase
  <2> QED BY <2>1, <2>2
<1>9. WithinStore'
  BY <1>1, <1>3 DEF WithinStore
<1>10. \E h \in [0 .. Len(frames') -> Nat] : HeldBy(h)'
  <2>1. PICK h \in [0 .. n -> Nat] : HeldBy(h)
    BY DEF Inv
  <2>2. PICK g \in [0 .. n + 1 -> Nat] : g[n + 1] = words' /\ \A i \in 0 .. n : g[i] = h[i]
    <3> DEFINE more == [i \in 0 .. n + 1 |-> IF i = n + 1 THEN words' ELSE h[i]]
    <3>1. more \in [0 .. n + 1 -> Nat]
      BY <1>1, <1>3
    <3>2. more[n + 1] = words' /\ \A i \in 0 .. n : more[i] = h[i]
      BY <1>1
    <3> HIDE DEF more, f
    <3> QED BY <3>1, <3>2
  <2>3. g[n] = words /\ g[0] = 0
    BY <1>1, <2>1, <2>2 DEF HeldBy
  <2>4. ASSUME NEW i \in 1 .. n + 1
        PROVE /\ g[i] = g[i - 1] + frames'[i].cost.retained
              /\ Limit = 0 => g[i - 1] + frames'[i].cost.entry <= Capacity
    <3>1. CASE i = n + 1
      BY <3>1, <2>2, <2>3, <1>1, <1>2
    <3>2. CASE i \in 1 .. n
      <4>1. i - 1 \in 0 .. n /\ i \in 0 .. n /\ frames'[i] = frames[i]
        BY <3>2, <1>1, <1>2
      <4>2. /\ h[i] = h[i - 1] + frames[i].cost.retained
            /\ Limit = 0 => h[i - 1] + frames[i].cost.entry <= Capacity
        BY <3>2, <2>1 DEF HeldBy
      <4> QED BY <4>1, <4>2, <2>2
    <3> QED BY <3>1, <3>2, <1>1
  <2>5. g \in [0 .. Len(frames') -> Nat] /\ 1 .. Len(frames') = 1 .. n + 1 /\ words' = g[Len(frames')]
    BY <1>2, <2>2
  <2>6. HeldBy(g)'
    BY <2>3, <2>4, <2>5 DEF HeldBy
  <2> QED BY <2>5, <2>6
<1> QED
  BY <1>6, <1>7, <1>8, <1>9, <1>10 DEF Inv

\* Leaving the last frame returns what it held.
LEMMA ReturnInv ==
  ASSUME Inv, Return
  PROVE  Inv'
<1> USE FramesAssumption
<1> DEFINE n == Len(frames)
           cost == frames[n].cost
<1>1. /\ frames \in Seq(Frame) /\ words \in Nat /\ peak \in Nat /\ n \in Nat /\ n > 1
      /\ frames[n] \in Frame /\ cost \in CostRecord
      /\ cost.retained \in Nat /\ cost.exit \in Nat
  <2>1. frames \in Seq(Frame) /\ words \in Nat /\ peak \in Nat
    BY DEF Inv, TypeOK, Frame, CostRecord
  <2>2. n \in Nat /\ n > 1
    BY <2>1 DEF Return
  <2>3. frames[n] \in Frame
    BY <2>1, <2>2
  <2>4. cost \in CostRecord
    BY <2>3 DEF Frame
  <2> HIDE DEF cost
  <2>5. cost.retained \in Nat /\ cost.exit \in Nat
    BY <2>4 DEF CostRecord
  <2> QED BY <2>1, <2>2, <2>3, <2>4, <2>5
<1>2. /\ frames' = SubSeq(frames, 1, n - 1) /\ words' = words - cost.retained
      /\ peak' = Highest({peak, words - cost.retained + cost.exit}) /\ exhausted' = exhausted
      /\ Limit > 0 \/ words - cost.retained + cost.exit <= Capacity
  BY DEF Return, Front, LeaveFits
<1>0. n = Len(frames) /\ cost = frames[n].cost
  OBVIOUS
<1> HIDE DEF n, cost
<1>3. /\ frames' \in Seq(Frame) /\ Len(frames') = n - 1 /\ frames' # <<>>
      /\ \A i \in 1 .. n - 1 : frames'[i] = frames[i]
  <2>1. n - 1 \in Nat /\ n - 1 <= n /\ n - 1 > 0
    BY <1>1
  <2>2. frames' \in Seq(Frame) /\ Len(frames') = n - 1
    BY <1>0, <1>1, <1>2, <2>1
  <2>3. \A i \in 1 .. n - 1 : frames'[i] = frames[i]
    BY <1>0, <1>1, <1>2, <2>1
  <2>4. frames' # <<>>
    BY <2>1, <2>2
  <2> QED BY <2>2, <2>3, <2>4
<1>4. PICK h \in [0 .. n -> Nat] : HeldBy(h)
  BY <1>0 DEF Inv
<1>5. words' = h[n - 1] /\ words' \in Nat
  <2>1. n \in 1 .. n /\ n - 1 \in 0 .. n /\ n \in 0 .. n
    BY <1>1
  <2>2. words = h[n] /\ h[n] = h[n - 1] + cost.retained
    BY <1>0, <2>1, <1>4 DEF HeldBy
  <2> QED BY <2>1, <2>2, <1>1, <1>2
<1>6. peak' \in Nat
  <2>0. words' + cost.exit \in Nat
    BY <1>1, <1>5
  <2>1. /\ {peak, words' + cost.exit} \in SUBSET Nat /\ peak + (words' + cost.exit) \in Nat
        /\ \A x \in {peak, words' + cost.exit} : x <= peak + (words' + cost.exit)
    BY <1>1, <2>0, PairBelowSum, Zenon
  <2>2. peak' = Highest({peak, words' + cost.exit})
    BY <1>2
  <2> QED BY <2>1, <2>2, HighestThere
<1>7. TypeOK'
  <2>1. frames'[1].cost = TopCost /\ exhausted' \in {"none"} \cup BindingPhases \cup RebuildPhases
    BY <1>0, <1>1, <1>2, <1>3 DEF Inv, TypeOK
  <2> QED BY <2>1, <1>3, <1>5, <1>6 DEF TypeOK, Frame, CostRecord
<1>8. CallsKnown'
  <2>1. ASSUME NEW i \in 2 .. n - 1
        PROVE frames'[i].callee \in Shapes /\ frames'[i].cost = Cost(frames'[i].callee)
    <3>1. i \in 2 .. n /\ i \in 1 .. n - 1
      BY <1>1
    <3> QED BY <3>1, <1>0, <1>3 DEF Inv, CallsKnown
  <2> QED BY <2>1, <1>3 DEF CallsKnown
<1>9. OddBase'
  <2>1. cost.retained % 2 = 0
    <3>1. cost = Cost(frames[n].callee) /\ frames[n].callee \in Seq(Slot)
      BY <1>0, <1>1 DEF Inv, CallsKnown
    <3> QED BY <3>1, CostKnown, SavedEven
  <2>2. words' + cost.retained = words
    BY <1>1, <1>2
  <2>3. words' % 2 = words % 2
    <3> QED BY <1>1, <1>5, <2>1, <2>2, OddPlusEven
  <2> QED BY <1>1, <1>2, <2>3 DEF Inv, OddBase
<1>10. WithinStore'
  BY <1>1, <1>2, <1>5 DEF Inv, WithinStore
<1>11. \E g \in [0 .. Len(frames') -> Nat] : HeldBy(g)'
  <2>1. PICK g \in [0 .. n - 1 -> Nat] : \A i \in 0 .. n - 1 : g[i] = h[i]
    <3> DEFINE less == [i \in 0 .. n - 1 |-> h[i]]
    <3>1. less \in [0 .. n - 1 -> Nat] /\ \A i \in 0 .. n - 1 : less[i] = h[i]
      BY <1>1
    <3> HIDE DEF less
    <3> QED BY <3>1
  <2>2. ASSUME NEW i \in 1 .. n - 1
        PROVE /\ g[i] = g[i - 1] + frames'[i].cost.retained
              /\ Limit = 0 => g[i - 1] + frames'[i].cost.entry <= Capacity
    <3>1. i - 1 \in 0 .. n - 1 /\ i \in 0 .. n - 1 /\ i \in 1 .. n
      BY <1>1
    <3>3. frames'[i] = frames[i]
      BY <1>3
    <3>2. /\ h[i] = h[i - 1] + frames[i].cost.retained
          /\ Limit = 0 => h[i - 1] + frames[i].cost.entry <= Capacity
      BY <3>1, <1>0, <1>4 DEF HeldBy
    <3> QED BY <3>1, <3>2, <3>3, <2>1
  <2>3. g[0] = 0 /\ g[n - 1] = words'
    BY <1>0, <1>1, <1>4, <1>5, <2>1 DEF HeldBy
  <2>4. HeldBy(g)'
    BY <1>3, <2>1, <2>2, <2>3 DEF HeldBy
  <2> QED BY <1>3, <2>4
<1> QED
  BY <1>7, <1>8, <1>9, <1>10, <1>11 DEF Inv

\* The store is empty once the frames are unwound, whatever ended the program.
LEMMA UnwoundInv ==
  ASSUME Inv, Unwound, peak' \in Nat,
         exhausted' \in {"none"} \cup BindingPhases \cup RebuildPhases,
         exhausted' \notin {"binding_value", "binding_table"}
  PROVE  Inv'
<1> USE FramesAssumption
<1>1. frames' = <<>> /\ words' = 0 /\ Len(frames') = 0
  BY DEF Unwound
<1>2. TypeOK' /\ CallsKnown' /\ OddBase' /\ WithinStore'
  BY <1>1 DEF TypeOK, CallsKnown, OddBase, WithinStore
<1>3. PICK g \in [0 .. 0 -> Nat] : g[0] = 0
  <2> DEFINE none == [i \in 0 .. 0 |-> 0]
  <2>1. none \in [0 .. 0 -> Nat] /\ none[0] = 0
    OBVIOUS
  <2> HIDE DEF none
  <2> QED BY <2>1
<1>4. HeldBy(g)'
  BY <1>1, <1>3 DEF HeldBy
<1> QED
  BY <1>1, <1>2, <1>3, <1>4 DEF Inv

\* A call whose entry fits keeps the invariant.
LEMMA CallInv ==
  ASSUME Inv, NEW slots \in Shapes, Call(slots)
  PROVE  Inv'
<1> USE FramesAssumption
<1>1. slots \in Seq(Slot)
  OBVIOUS
<1>2. /\ Cost(slots) = [retained |-> Saved(slots, 1), entry |-> Cost(slots).entry,
                        exit |-> Cost(slots).exit]
      /\ Cost(slots).entry \in Nat /\ Cost(slots).exit \in Nat
      /\ Saved(slots, 1) <= Cost(slots).entry
      /\ Saved(slots, 1) \in Nat /\ Saved(slots, 1) % 2 = 0
  BY <1>1, CostKnown, SavedEven
<1>3. /\ Cost(slots) \in CostRecord /\ Cost(slots).retained = Saved(slots, 1)
      /\ Cost(slots).retained <= Cost(slots).entry /\ Cost(slots).retained % 2 = 0
  BY <1>2 DEF CostRecord
<1>4. /\ Enter(Cost(slots), slots) /\ UNCHANGED exhausted /\ frames # <<>>
      /\ Limit = 0 => words + Cost(slots).entry <= Capacity
  BY DEF Call, Fits
<1> QED
  BY <1>3, <1>4, EnterInv

\* A statement starts on an empty store.
LEMMA StartInv ==
  ASSUME Inv, Start
  PROVE  Inv'
<1> USE FramesAssumption
<1>1. TopCost \in CostRecord /\ TopCost.retained <= TopCost.entry
  BY DEF TopCost, CostRecord
<1>2. /\ Enter(TopCost, <<>>) /\ exhausted' = "none" /\ frames = <<>>
      /\ Limit = 0 => words + TopCost.entry <= Capacity
  BY DEF Start, Fits
<1> QED
  BY <1>1, <1>2, EnterInv

\* The highest word a binding reaches is a number.
LEMMA PeakKnown ==
  ASSUME Inv, NEW slots \in Seq(Slot), NEW i \in DOMAIN slots
  PROVE  PeakBinding(slots, i) \in Nat
<1> DEFINE reached == {words + Saved(slots, j) + 3 : j \in {k \in i .. Len(slots) : slots[k].argument}}
           bound == peak + (words + Saved(slots, 1) + 3)
<1>1. peak \in Nat /\ words \in Nat
  BY DEF Inv, TypeOK
<1>2. i .. Len(slots) \subseteq DOMAIN slots
  OBVIOUS
<1>3. /\ Saved(slots, 1) \in Nat
      /\ \A j \in DOMAIN slots : Saved(slots, j) \in Nat /\ Saved(slots, j) <= Saved(slots, 1)
  BY SavedEven
<1>4. {peak} \cup reached \in SUBSET Nat /\ {peak} \cup reached # {} /\ bound \in Nat
  BY <1>1, <1>2, <1>3
<1>5. \A x \in {peak} \cup reached : x <= bound
  BY SMTT(40), <1>1, <1>2, <1>3
<1>6. PeakBinding(slots, i) = Highest({peak} \cup reached)
  BY DEF PeakBinding
<1> HIDE DEF reached, bound
<1> QED
  BY <1>4, <1>5, <1>6, HighestThere

\* With an odd base only the read of the target or of the slot count can fall on the
\* watched word, whose offset is odd.
LEMMA TrappedPhase ==
  ASSUME Inv, frames # <<>>, NEW slots \in Seq(Slot), NEW i \in DOMAIN slots,
         NEW k \in 1 .. 4, Reads(slots, i)[k].at = Capacity
  PROVE  Reads(slots, i)[k].phase \in {"binding_target", "binding_count"}
<1> USE FramesAssumption
<1> DEFINE base == words + Saved(slots, i)
<1>1. words \in Nat /\ words % 2 = 1 /\ Saved(slots, i) \in Nat /\ Saved(slots, i) % 2 = 0
  BY SavedEven DEF Inv, TypeOK, OddBase
<1>2. base \in Nat /\ base % 2 = 1
  BY <1>1, OddPlusEven
<1>3. Reads(slots, i) =
        <<[at |-> base, phase |-> "binding_target"], [at |-> base + 3, phase |-> "binding_value"],
          [at |-> base + 2, phase |-> "binding_count"], [at |-> base + 1, phase |-> "binding_table"]>>
  BY DEF Reads
<1> HIDE DEF base
<1>4. (base + 3) % 2 = 0 /\ (base + 1) % 2 = 0
  BY <1>2
<1>5. CASE k = 1
  BY <1>5, <1>3
<1>6. CASE k = 2
  BY <1>6, <1>3, <1>4
<1>7. CASE k = 3
  BY <1>7, <1>3
<1>8. CASE k = 4
  BY <1>8, <1>3, <1>4
<1> QED
  BY <1>5, <1>6, <1>7, <1>8

\* A call that ends the program leaves the store empty and names a phase that is rendered.
LEMMA CallFailsInv ==
  ASSUME Inv, NEW slots \in Shapes, CallFails(slots)
  PROVE  Inv'
<1> USE FramesAssumption
<1>1. slots \in Seq(Slot) /\ frames # <<>> /\ Unwound
  BY DEF CallFails
<1>2. /\ peak \in Nat /\ exhausted \in {"none"} \cup BindingPhases \cup RebuildPhases
      /\ exhausted \notin {"binding_value", "binding_table"}
  BY DEF Inv, TypeOK, OddBase
<1>3. \A i \in DOMAIN slots : PeakBinding(slots, i) \in Nat
  BY <1>1, PeakKnown
<1>4. CASE Limit > 0 /\ Len(frames) > Limit /\ UNCHANGED <<peak, exhausted>>
  BY <1>4, <1>1, <1>2, UnwoundInv
<1>5. ASSUME NEW i \in DOMAIN slots, FirstTrapped(slots, i), peak' = PeakBinding(slots, i),
             exhausted' = Reads(slots, i)[CHOOSE k \in 1 .. 4 : Reads(slots, i)[k].at = Capacity].phase
      PROVE Inv'
  <2>1. \E k \in 1 .. 4 : Reads(slots, i)[k].at = Capacity
    BY <1>5 DEF FirstTrapped, Trapped
  <2>2. PICK k \in 1 .. 4 : /\ Reads(slots, i)[k].at = Capacity
                            /\ exhausted' = Reads(slots, i)[k].phase
    BY <2>1, <1>5
  <2>3. exhausted' \in {"binding_target", "binding_count"}
    BY <2>2, <1>1, TrappedPhase
  <2>4. /\ exhausted' \in {"none"} \cup BindingPhases \cup RebuildPhases
        /\ exhausted' \notin {"binding_value", "binding_table"}
    BY <2>3 DEF BindingPhases
  <2> QED BY <2>4, <1>1, <1>3, <1>5, UnwoundInv
<1>6. ASSUME NEW i \in DOMAIN slots, peak' = PeakBinding(slots, i), UNCHANGED exhausted
      PROVE Inv'
  BY <1>6, <1>1, <1>2, <1>3, UnwoundInv
<1>7. CASE peak' = PeakBinding(slots, 1) /\ UNCHANGED exhausted
  <2>1. CASE slots # <<>>
    <3>1. 1 \in DOMAIN slots
      BY <2>1, <1>1
    <3> QED BY <3>1, <1>7, <1>6
  <2>2. CASE slots = <<>>
    <3>1. {k \in 1 .. Len(slots) : slots[k].argument} = {}
      BY <2>2
    <3>2. PeakBinding(slots, 1) = Highest({peak})
      BY <3>1 DEF PeakBinding
    <3>3. {peak} \in SUBSET Nat /\ \A x \in {peak} : x <= peak
      BY <1>2
    <3>4. Highest({peak}) \in {peak}
      BY <3>3, <1>2, HighestThere
    <3> QED BY <3>2, <3>4, <1>7, <1>1, <1>2, UnwoundInv
  <2> QED BY <2>1, <2>2
<1> QED
  BY <1>4, <1>5, <1>6, <1>7 DEF CallFails

\* The reads of a rebuild have phases of a rebuild.
LEMMA RebuildKnown ==
  ASSUME NEW n \in Nat
  PROVE  /\ Len(RebuildReads(n)) \in Nat /\ DOMAIN RebuildReads(n) = 1 .. Len(RebuildReads(n))
         /\ \A k \in DOMAIN RebuildReads(n) : RebuildReads(n)[k].phase \in RebuildPhases
<1> DEFINE R == RebuildReads(n)
           word == [i \in 1 .. n |-> [at |-> words + i, phase |-> "rebuild_argument"]]
           first == <<[at |-> words + n + 4, phase |-> "rebuild_extent"]>>
           last == <<[at |-> words + n + 3, phase |-> "rebuild_restore"],
                     [at |-> words + n + 2, phase |-> "rebuild_continuation"]>>
           Read == [at : {words + n + 4, words + n + 3, words + n + 2} \cup {words + i : i \in 1 .. n},
                    phase : RebuildPhases]
<1>1. first \in Seq(Read) /\ last \in Seq(Read)
  BY DEF RebuildPhases
<1>2. word \in Seq(Read)
  BY DEF RebuildPhases
<1>3. R = (first \o word) \o last
  BY DEF RebuildReads
<1> HIDE DEF first, word, last
<1>4. R \in Seq(Read)
  <2> HIDE DEF Read
  <2> QED BY <1>1, <1>2, <1>3
<1>5. Len(R) \in Nat /\ DOMAIN R = 1 .. Len(R) /\ \A k \in DOMAIN R : R[k] \in Read
  <2> HIDE DEF Read, R
  <2> QED BY <1>4
<1> HIDE DEF R
<1>6. \A k \in DOMAIN R : R[k].phase \in RebuildPhases
  BY <1>5
<1> QED
  BY <1>5, <1>6 DEF R

\* A rebuild that meets the watched word ends the program in a phase of its own.
LEMMA RebuildFailsInv ==
  ASSUME Inv, NEW n \in 1 .. MaxArguments, RebuildFails(n)
  PROVE  Inv'
<1> USE FramesAssumption
<1> DEFINE R == RebuildReads(n)
           hit == {k \in DOMAIN R : R[k].at = Capacity}
           First(k) == R[k].at = Capacity /\ \A j \in 1 .. k - 1 : R[j].at # Capacity
<1>1. n \in Nat
  OBVIOUS
<1>4. DOMAIN R = 1 .. Len(R) /\ Len(R) \in Nat
  BY <1>1, RebuildKnown
<1>2. hit \in SUBSET Nat /\ hit # {}
  <2>1. \E k \in DOMAIN R : R[k].at = Capacity
    BY DEF RebuildFails, RebuildTrapped
  <2>2. DOMAIN R \subseteq Nat
    BY <1>4
  <2> HIDE DEF R
  <2> QED BY <2>1, <2>2
<1>3. PICK k \in hit : \A j \in hit : k <= j
  <2> HIDE DEF hit
  <2> QED BY <1>2, LeastNatural
<1>5. First(k)
  <2> SUFFICES ASSUME NEW j \in 1 .. k - 1, R[j].at = Capacity PROVE FALSE
    BY <1>3
  <2>1. j \in DOMAIN R /\ j < k /\ j \in Nat
    BY <1>3, <1>4
  <2> QED BY <2>1, <1>2, <1>3
<1>6. exhausted' = R[CHOOSE i \in DOMAIN R : First(i)].phase
  BY DEF RebuildFails
<1>7. PICK i \in DOMAIN R : exhausted' = R[i].phase
  BY <1>3, <1>5, <1>6
<1>8. exhausted' \in RebuildPhases
  BY <1>1, <1>7, RebuildKnown
<1>9. peak' \in Nat /\ Unwound
  BY DEF RebuildFails, Inv, TypeOK
<1> QED
  BY <1>8, <1>9, UnwoundInv DEF RebuildPhases

\* A rebuild moves only the peak.
LEMMA RebuildInv ==
  ASSUME Inv, NEW n \in 1 .. MaxArguments, Rebuild(n)
  PROVE  Inv'
<1> USE FramesAssumption
<1>1. peak \in Nat /\ words \in Nat /\ RebuildPeak(n) \in Nat
  BY DEF Inv, TypeOK, RebuildPeak
<1>2. peak' \in Nat
  <2>1. /\ {peak, words + RebuildPeak(n)} \in SUBSET Nat
        /\ peak + (words + RebuildPeak(n)) \in Nat
        /\ \A x \in {peak, words + RebuildPeak(n)} : x <= peak + (words + RebuildPeak(n))
    BY <1>1
  <2>2. Highest({peak, words + RebuildPeak(n)}) \in Nat
    BY <2>1, HighestThere
  <2> QED BY <2>2, <1>1 DEF Rebuild
<1>3. UNCHANGED <<frames, words, exhausted>>
  BY DEF Rebuild
<1> QED
  BY <1>2, <1>3 DEF Inv, TypeOK, OddBase, CallsKnown, WithinStore, HeldBy

\* Inv is inductive.
LEMMA InvStep ==
  ASSUME Inv, [Next]_vars
  PROVE  Inv'
<1>1. CASE Start
  BY <1>1, StartInv
<1>2. CASE Return
  BY <1>2, ReturnInv
<1>3. CASE ReturnFails \/ Finish
  <2>1. /\ Unwound /\ peak' \in Nat /\ exhausted' \in {"none"} \cup BindingPhases \cup RebuildPhases
        /\ exhausted' \notin {"binding_value", "binding_table"}
    BY <1>3 DEF ReturnFails, Finish, Inv, TypeOK, OddBase
  <2> QED BY <2>1, UnwoundInv
<1>4. CASE \E slots \in Shapes : Call(slots) \/ CallFails(slots)
  BY <1>4, CallInv, CallFailsInv
<1>5. CASE \E n \in 1 .. MaxArguments : Rebuild(n) \/ RebuildFails(n)
  BY <1>5, RebuildInv, RebuildFailsInv
<1>6. CASE UNCHANGED vars
  BY <1>6 DEF vars, Inv, TypeOK, OddBase, CallsKnown, WithinStore, HeldBy
<1> QED
  BY <1>1, <1>2, <1>3, <1>4, <1>5, <1>6 DEF Next

LEMMA InitInv == Init => Inv
<1> SUFFICES ASSUME Init PROVE Inv
  OBVIOUS
<1>1. frames = <<>> /\ words = 0 /\ Len(frames) = 0 /\ frames \in Seq(Frame)
  BY DEF Init
<1>2. TypeOK /\ CallsKnown /\ OddBase /\ WithinStore
  BY <1>1, FramesAssumption DEF Init, TypeOK, CallsKnown, OddBase, WithinStore, Frame, CostRecord
<1>3. PICK g \in [0 .. 0 -> Nat] : g[0] = 0
  <2> DEFINE none == [i \in 0 .. 0 |-> 0]
  <2>1. none \in [0 .. 0 -> Nat] /\ none[0] = 0
    OBVIOUS
  <2> HIDE DEF none
  <2> QED BY <2>1
<1>4. HeldBy(g)
  BY <1>1, <1>3 DEF HeldBy
<1> QED
  BY <1>1, <1>2, <1>3, <1>4 DEF Inv

\* In every behaviour of every store.
LEMMA Invariant == Spec => []Inv
<1>1. Inv /\ [Next]_vars => Inv'
  BY InvStep
<1> QED
  BY <1>1, InitInv, PTL DEF Spec

---------------------------------------------------------------------------
(* The theorems *)

\* What the recursive sum of Balanced is: there is one function of the frames' costs.
LEMMA HeldUnique ==
  ASSUME TypeOK, NEW h \in [0 .. Len(frames) -> Nat], HeldBy(h), NEW g,
         g = [i \in 0 .. Len(frames) |-> IF i = 0 THEN 0 ELSE g[i - 1] + frames[i].cost.retained]
  PROVE  g[Len(frames)] = words
<1> DEFINE n == Len(frames)
           wrong == {i \in 0 .. n : g[i] # h[i]}
<1>1. n \in Nat
  BY DEF TypeOK
<1>2. ASSUME wrong # {} PROVE FALSE
  <2>1. wrong \in SUBSET Nat
    BY <1>1
  <2>2. PICK i \in wrong : \A j \in wrong : i <= j
    <3> HIDE DEF wrong
    <3> QED BY <1>2, <2>1, LeastNatural
  <2>3. i \in 0 .. n /\ g[i] # h[i]
    BY <2>2
  <2>4. CASE i = 0
    BY <2>3, <2>4, <1>1 DEF HeldBy
  <2>5. CASE i # 0
    <3>1. i \in 1 .. n /\ i - 1 \in 0 .. n /\ i - 1 < i
      BY <2>3, <2>5, <1>1
    <3>2. i - 1 \notin wrong
      <4> HIDE DEF wrong
      <4> QED BY <3>1, <2>1, <2>2
    <3>3. g[i - 1] = h[i - 1]
      BY <3>1, <3>2
    <3>4. g[i] = g[i - 1] + frames[i].cost.retained
      BY <3>1, <2>3, <2>5
    <3>5. h[i] = h[i - 1] + frames[i].cost.retained
      BY <3>1 DEF HeldBy
    <3> QED BY <3>3, <3>4, <3>5, <2>3
  <2> QED BY <2>4, <2>5
<1>3. n \in 0 .. n
  BY <1>1
<1>4. n \notin wrong
  <2> HIDE DEF wrong
  <2> QED BY <1>2
<1>5. g[n] = h[n]
  BY <1>3, <1>4
<1> QED
  BY <1>5 DEF HeldBy

LEMMA InvBalanced == Inv => Balanced
<1> SUFFICES ASSUME Inv PROVE Balanced
  OBVIOUS
<1> DEFINE n == Len(frames)
           Sum(g) == g = [i \in 0 .. n |-> IF i = 0 THEN 0 ELSE g[i - 1] + frames[i].cost.retained]
           held == CHOOSE g : Sum(g)
<1>1. TypeOK /\ WithinStore /\ n \in Nat
  BY DEF Inv, TypeOK
<1>2. PICK h \in [0 .. n -> Nat] : HeldBy(h)
  BY DEF Inv
<1>3. Sum(h)
  <2>1. \A i \in 0 .. n : h[i] = IF i = 0 THEN 0 ELSE h[i - 1] + frames[i].cost.retained
    BY <1>1, <1>2 DEF HeldBy
  <2> QED BY <2>1, <1>2
<1>4. Sum(held)
  <2> HIDE DEF Sum
  <2> QED BY <1>3
<1> HIDE DEF held
<1>5. held[n] = words
  BY <1>1, <1>2, <1>4, HeldUnique
<1> QED
  BY <1>5, <1>1 DEF Balanced, WithinStore, held

LEMMA InvUnported == Inv => UnportedOnlyWhenFull
<1> SUFFICES ASSUME Inv, NEW slots \in Shapes, Limit = 0, frames # <<>>,
                    \A i \in DOMAIN slots : ~Trapped(slots, i)
             PROVE  Fits(Cost(slots)) <=> words + Cost(slots).retained <= Capacity
  BY DEF UnportedOnlyWhenFull
<1> USE FramesAssumption
<1> DEFINE entry == Cost(slots).entry
           retained == Cost(slots).retained
<1>1. /\ slots \in Seq(Slot) /\ words \in Nat /\ words % 2 = 1
      /\ Fits(Cost(slots)) <=> words + entry <= Capacity
  BY DEF Inv, TypeOK, OddBase, Fits
<1>2. /\ retained = Saved(slots, 1) /\ retained \in Nat /\ entry \in Nat /\ retained <= entry
      /\ \A i \in DOMAIN slots : /\ Saved(slots, i) \in Nat /\ Saved(slots, i) % 2 = 0
                                 /\ Saved(slots, i) <= retained
      /\ \/ entry = retained
         \/ \E i \in DOMAIN slots : slots[i].argument /\ entry = Saved(slots, i) + 3
  BY <1>1, CostKnown, SavedEven
<1> HIDE DEF entry, retained
<1>3. ASSUME words + retained <= Capacity, ~(words + entry <= Capacity) PROVE FALSE
  <2>1. PICK i \in DOMAIN slots : slots[i].argument /\ entry = Saved(slots, i) + 3
    BY <1>2, <1>3
  <2> DEFINE base == words + Saved(slots, i)
  <2>2. base \in Nat /\ base % 2 = 1
    BY <1>1, <1>2, OddPlusEven
  <2>3. base <= Capacity /\ base + 3 > Capacity
    <3>1. /\ Saved(slots, i) \in Nat /\ Saved(slots, i) <= retained /\ Capacity \in Nat
          /\ retained \in Nat /\ words \in Nat
      BY <1>1, <1>2
    <3>2. words + Saved(slots, i) <= Capacity
      BY <3>1, <1>3
    <3>3. ~(words + (Saved(slots, i) + 3) <= Capacity)
      BY <1>3, <2>1
    <3> QED BY <3>1, <3>2, <3>3
  <2>4. Capacity = base \/ Capacity = base + 2
    <3> HIDE DEF base
    <3>1. Capacity = base \/ Capacity = base + 1 \/ Capacity = base + 2
      BY <2>2, <2>3
    <3>2. (base + 1) % 2 = 0
      BY <2>2
    <3> QED BY <3>1, <3>2
  <2>5. /\ Reads(slots, i)[1].at = base /\ Reads(slots, i)[3].at = base + 2
    BY DEF Reads
  <2>6. \E k \in 1 .. 4 : Reads(slots, i)[k].at = Capacity
    BY <2>4, <2>5
  <2> QED BY <2>1, <2>6 DEF Trapped
<1> QED
  BY <1>1, <1>2, <1>3 DEF retained

LEMMA InvLate == Inv => LateFailure
<1> USE FramesAssumption
<1> DEFINE n == Len(frames)
           slots == frames[n].callee
           cost == frames[n].cost
<1> SUFFICES ASSUME Inv, n > 1, ~LeaveFits(cost)
             PROVE  \E i \in DOMAIN slots : slots[i].result /\ \A j \in 1 .. i : ~slots[j].argument
  BY DEF LateFailure
<1>1. n \in Nat /\ n > 1 /\ words \in Nat
  BY DEF Inv, TypeOK
<1>2. slots \in Seq(Slot) /\ cost = Cost(slots)
  BY <1>1 DEF Inv, CallsKnown
<1>3. Limit = 0 /\ ~(words - cost.retained + cost.exit <= Capacity)
  BY DEF LeaveFits
<1>4. PICK h \in [0 .. n -> Nat] : HeldBy(h)
  BY DEF Inv
<1>5. /\ h[n - 1] \in Nat /\ words = h[n - 1] + cost.retained
      /\ h[n - 1] + cost.entry <= Capacity
  <2>1. n \in 1 .. n /\ n - 1 \in 0 .. n
    BY <1>1
  <2> QED BY <2>1, <1>3, <1>4 DEF HeldBy
<1> HIDE DEF n, slots, cost
<1>6. /\ cost.retained \in Nat /\ cost.entry \in Nat /\ cost.exit \in Nat
      /\ cost.retained = Saved(slots, 1) /\ Saved(slots, 1) <= cost.entry
  BY <1>2, CostKnown, SavedEven
<1>7. cost.exit > cost.entry
  <2>1. words - cost.retained = h[n - 1]
    BY <1>5, <1>6
  <2>2. ~(h[n - 1] + cost.exit <= Capacity) /\ h[n - 1] + cost.entry <= Capacity /\ Capacity \in Nat
    BY <1>3, <1>5, <2>1
  <2> QED BY <2>2, <1>5, <1>6
<1>8. PICK i \in DOMAIN slots : slots[i].result /\ cost.exit = Saved(slots, i) + 3
  <2>1. \/ cost.exit = Saved(slots, 1)
        \/ \E i \in DOMAIN slots : slots[i].result /\ cost.exit = Saved(slots, i) + 3
    BY <1>2, CostKnown
  <2> QED BY <2>1, <1>6, <1>7
<1>9. ASSUME NEW j \in 1 .. i, slots[j].argument PROVE FALSE
  <2>1. j \in DOMAIN slots /\ Len(slots) \in Nat /\ i \in Nat /\ j \in Nat /\ j <= i
    BY <1>2
  <2>2. Saved(slots, j) + 3 <= cost.entry
    BY <2>1, <1>2, <1>9, CostKnown
  <2>3. Saved(slots, i) <= Saved(slots, j)
    BY <2>1 DEF Saved
  <2>4. Saved(slots, i) \in Nat /\ Saved(slots, j) \in Nat
    BY <1>2, <2>1, SavedEven
  <2> QED BY <2>2, <2>3, <2>4, <1>6, <1>7, <1>8
<1> QED
  BY <1>8, <1>9

---------------------------------------------------------------------------
(* What goes unwatched *)

\* Of the words a rebuild of n arguments uses all but the (n + 1)st are read.
LEMMA RebuildReaches ==
  ASSUME words \in Nat, NEW n \in Nat, NEW at \in 1 .. n + 4, at # n + 1
  PROVE  \E k \in DOMAIN RebuildReads(n) : RebuildReads(n)[k].at = words + at
<1> DEFINE word == [i \in 1 .. n |-> [at |-> words + i, phase |-> "rebuild_argument"]]
           first == <<[at |-> words + n + 4, phase |-> "rebuild_extent"]>>
           last == <<[at |-> words + n + 3, phase |-> "rebuild_restore"],
                     [at |-> words + n + 2, phase |-> "rebuild_continuation"]>>
           Read == [at : Nat, phase : RebuildPhases]
           R == InTurn(first, word, last)
           k == IF at = n + 4 THEN 1 ELSE IF at <= n THEN at + 1 ELSE IF at = n + 3 THEN n + 2 ELSE n + 3
<1>1. first \in Seq(Read) /\ last \in Seq(Read) /\ Len(first) = 1 /\ Len(last) = 2
  BY DEF RebuildPhases
<1>2. word \in Seq(Read) /\ Len(word) = n
  BY DEF RebuildPhases
<1>3. first[1].at = words + n + 4 /\ last[1].at = words + n + 3 /\ last[2].at = words + n + 2
  OBVIOUS
<1>4. \A i \in 1 .. n : word[i].at = words + i
  OBVIOUS
<1> HIDE DEF first, word, last, Read
<1>6. /\ DOMAIN R = 1 .. n + 3 /\ R[1] = first[1] /\ R[n + 2] = last[1] /\ R[n + 3] = last[2]
      /\ \A i \in 1 .. n : R[i + 1] = word[i]
  <2>1. PICK a \in Seq(Read), b \in Seq(Read), c \in Seq(Read) : a = first /\ b = word /\ c = last
    BY <1>1, <1>2
  <2>0. n \in Nat /\ a \in Seq(Read) /\ b \in Seq(Read) /\ c \in Seq(Read)
    OBVIOUS
  <2>2. Len(a) = 1 /\ Len(b) = n /\ Len(c) = 2
    BY <1>1, <1>2, <2>1
  <2> HIDE DEF R, k
  <2>3. DOMAIN InTurn(a, b, c) = 1 .. n + 3
    BY <2>0, <2>2, Followed
  <2>4. InTurn(a, b, c)[1] = a[1]
    BY <2>0, <2>2, Followed
  <2>5. InTurn(a, b, c)[n + 2] = c[1]
    BY <2>0, <2>2, Followed
  <2>6. InTurn(a, b, c)[n + 3] = c[2]
    BY SMTT(40), <2>0, <2>2, Followed
  <2>7. ASSUME NEW i \in 1 .. n PROVE InTurn(a, b, c)[i + 1] = b[i]
    BY <2>0, <2>2, FollowedMiddle
  <2>8. R = InTurn(a, b, c)
    BY <2>1, Zenon DEF R
  <2>9. \A i \in 1 .. n : R[i + 1] = word[i]
    BY <2>1, <2>7, <2>8, Zenon
  <2> QED BY <2>1, <2>3, <2>4, <2>5, <2>6, <2>8, <2>9, Zenon
<1>8. k \in 1 .. n + 3
  OBVIOUS
<1>9. R[k].at = words + at
  <2> HIDE DEF R
  <2>1. CASE at = n + 4
    BY <2>1, <1>3, <1>6
  <2>2. CASE at <= n
    <3>1. at \in 1 .. n /\ k = at + 1
      BY <2>2 DEF k
    <3> QED BY <3>1, <1>4, <1>6
  <2>3. CASE at = n + 3
    BY <2>3, <1>3, <1>6
  <2>4. CASE at = n + 2
    BY <2>4, <1>3, <1>6
  <2> QED BY <2>1, <2>2, <2>3, <2>4
<1>10. RebuildReads(n) = R
  BY Zenon DEF RebuildReads, InTurn, R, first, word, last
<1> HIDE DEF R, k
<1> QED
  BY <1>6, <1>8, <1>9, <1>10

\* A step that goes on past the watched word is a rebuild whose unread word it is.
LEMMA OvershootStep ==
  ASSUME Inv, [Next]_vars, Limit = 0, frames' # <<>>, peak' > Capacity
  PROVE  \/ peak > Capacity \/ words = Capacity
         \/ \E n \in 1 .. MaxArguments : peak' = words + n + 4 /\ words + n + 1 = Capacity
<1> USE FramesAssumption
<1>1. words \in Nat /\ peak \in Nat /\ words <= Capacity
  BY DEF Inv, TypeOK, WithinStore
<1>2. ASSUME NEW x \in Nat PROVE Highest({peak, x}) \in {peak, x}
  <2>1. {peak, x} \in SUBSET Nat /\ peak + x \in Nat /\ \A y \in {peak, x} : y <= peak + x
    BY <1>1
  <2> QED BY <2>1, HighestThere
<1>3. ASSUME NEW x \in Nat, peak' = Highest({peak, x}), x <= Capacity PROVE peak > Capacity
  BY <1>1, <1>2, <1>3
<1>4. CASE Start
  <2>1. words + 3 <= Capacity /\ peak' = Highest({peak, words + 3})
    BY <1>4 DEF Start, Fits, Enter, TopCost
  <2> QED BY <2>1, <1>1, <1>3
<1>5. ASSUME NEW slots \in Shapes, Call(slots) PROVE peak > Capacity
  <2>1. Cost(slots).entry \in Nat
    BY CostKnown
  <2>2. words + Cost(slots).entry <= Capacity /\ peak' = Highest({peak, words + Cost(slots).entry})
    BY <1>5 DEF Call, Fits, Enter
  <2> QED BY <2>1, <2>2, <1>1, <1>3
<1>6. CASE Return
  <2> DEFINE cost == frames[Len(frames)].cost
             used == words - cost.retained
  <2>1. cost \in CostRecord
    <3>1. frames \in Seq(Frame) /\ Len(frames) > 1
      BY <1>6 DEF Inv, TypeOK, CostRecord, Frame, Return
    <3>2. frames[Len(frames)] \in Frame
      <4> HIDE DEF cost, used
      <4>1. Len(frames) \in Nat /\ \A i \in 1 .. Len(frames) : frames[i] \in Frame
        BY <3>1
      <4> QED BY <3>1, <4>1
    <3> QED BY <3>2 DEF Frame
  <2>2. words' \in Nat /\ words' = used
    BY <1>6, ReturnInv DEF Return, Inv, TypeOK
  <2>3. used + cost.exit <= Capacity /\ peak' = Highest({peak, used + cost.exit})
    BY <1>6 DEF Return, LeaveFits
  <2>4. used + cost.exit \in Nat
    BY <2>1, <2>2 DEF CostRecord
  <2> QED BY <2>3, <2>4, <1>3
<1>7. ASSUME NEW n \in 1 .. MaxArguments, Rebuild(n)
      PROVE  peak > Capacity \/ words = Capacity \/ (peak' = words + n + 4 /\ words + n + 1 = Capacity)
  <2>1. peak' \in {peak, words + n + 4} /\ n \in Nat
    <3>1. peak' = Highest({peak, words + RebuildPeak(n)}) /\ words + RebuildPeak(n) \in Nat
      BY <1>1, <1>7 DEF Rebuild, RebuildPeak
    <3>2. words + RebuildPeak(n) = words + n + 4
      BY <1>1 DEF RebuildPeak
    <3> QED BY <3>1, <3>2, <1>2
  <2>2. \A k \in DOMAIN RebuildReads(n) : RebuildReads(n)[k].at # Capacity
    BY <1>7 DEF Rebuild, RebuildTrapped
  <2>3. \A at \in 1 .. n + 4 : at # n + 1 => words + at # Capacity
    BY ZenonT(60), <1>1, <2>1, <2>2, RebuildReaches
  <2>4. SUFFICES ASSUME peak' = words + n + 4, words # Capacity PROVE words + n + 1 = Capacity
    BY <1>1, <2>1
  <2>5. Capacity - words \in 1 .. n + 4 /\ words + (Capacity - words) = Capacity
    BY <1>1, <2>1, <2>4
  <2> QED BY <1>1, <2>1, <2>3, <2>5
<1>8. CASE ReturnFails \/ Finish \/ (\E slots \in Shapes : CallFails(slots))
           \/ \E n \in 1 .. MaxArguments : RebuildFails(n)
  BY <1>8 DEF ReturnFails, Finish, CallFails, RebuildFails, Unwound
<1>9. CASE UNCHANGED vars
  BY <1>9 DEF vars
<1> QED
  BY <1>4, <1>5, <1>6, <1>7, <1>8, <1>9 DEF Next

\* The store and the frames keep their types, whatever the capacity and the callees.
THEOREM FramesTyped == Spec => []TypeOK
<1>1. Inv => TypeOK
  BY DEF Inv
<1> QED
  BY <1>1, Invariant, PTL

\* Three words for the statement and an even number for each call: of the four reads of a
\* binding only those of the target and of the slot count can fall on the watched word.
THEOREM RenderedPhases == Spec => []OddBase
<1>1. Inv => OddBase
  BY DEF Inv
<1> QED
  BY <1>1, Invariant, PTL

\* activation_words_ is the sum of what the frames hold, over every order of calls,
\* returns, rebuilds and failures, and historically it never passes the watched word.
THEOREM LedgerBalances == Spec => []Balanced
<1> QED
  BY InvBalanced, Invariant, PTL

\* When no read of its bindings was trapped a call fits exactly if what it keeps fits.
THEOREM UnportedFull == Spec => []UnportedOnlyWhenFull
<1> QED
  BY InvUnported, Invariant, PTL

\* A return can fail only in a function whose first result precedes its first argument.
THEOREM ReturnsFailLate == Spec => []LateFailure
<1> QED
  BY InvLate, Invariant, PTL

\* Whatever is called, returned from, rebuilt or refused: the ledger is what the frames hold,
\* with the phases and the refusals that follow from its parity.
THEOREM LedgerHolds == Spec => []LedgerBalanced
<1>1. Inv => LedgerBalanced
  BY InvBalanced, InvUnported, InvLate DEF Inv, LedgerBalanced
<1> QED
  BY <1>1, Invariant, PTL

\* A program that goes on has overshot the store only by the word that a rebuild does not
\* read, or from a store that was exactly full (native_rebuild_exhaustion).
THEOREM OvershootsUnread == Spec => OvershootOnlyUnread
<1>1. Inv /\ [Next]_vars =>
        (Limit = 0 /\ frames' # <<>> /\ peak' > Capacity
           => \/ peak > Capacity \/ words = Capacity
              \/ \E n \in 1 .. MaxArguments : peak' = words + n + 4 /\ words + n + 1 = Capacity)
  BY OvershootStep
<1> QED
  BY <1>1, Invariant, PTL DEF Spec, OvershootOnlyUnread

---------------------------------------------------------------------------
(* The dictionary *)


Words == [name : Names, link : {0} \cup Handles, class : Classes, explicit : BOOLEAN]

\* What is saved of a word is its class.
SavesTyped == saves \in Seq([word : DOMAIN entries, property : [class : Classes, explicit : BOOLEAN,
                                                              link : {0} \cup Handles]])
              /\ Len(saves) <= MaxSaves

WordsTyped == /\ DOMAIN entries \subseteq Handles /\ entries \in [DOMAIN entries -> Words]
              /\ heads \in [Buckets -> {0} \cup DOMAIN entries]

\* c lists the words of every bucket from its head.
Listed(c) == /\ c \in [Buckets -> Seq(DOMAIN entries)]
             /\ Chains(c, entries)
             /\ \A b \in Buckets : heads[b] = IF c[b] = <<>> THEN 0 ELSE c[b][1]

DictionaryInv == WordsTyped /\ SavesTyped /\ \E c \in [Buckets -> Seq(DOMAIN entries)] : Listed(c)

---------------------------------------------------------------------------
(* The walk along a chain *)

\* A sequence without repetitions over a finite set is no longer than the set.
LEMMA NoLonger ==
  ASSUME NEW S, IsFiniteSet(S), NEW q \in Seq(S),
         \A i, j \in DOMAIN q : q[i] = q[j] => i = j
  PROVE  Len(q) <= Cardinality(S)
<1> DEFINE D == 1 .. Len(q)
<1>1. Len(q) \in Nat /\ DOMAIN q = D /\ \A i \in D : q[i] \in S
  OBVIOUS
<1>2. IsFiniteSet(D) /\ Cardinality(D) = Len(q)
  BY <1>1, FS_Interval
<1> DEFINE f == [i \in D |-> q[i]]
<1>3. f \in Injection(D, S)
  <2>1. f \in [D -> S] /\ \A i, j \in D : f[i] = f[j] => i = j
    BY <1>1
  <2> QED BY <2>1 DEF Injection, IsInjective
<1> QED
  BY <1>2, <1>3, FS_Injection

\* The first k + 1 words of a chain, or all of it.
Prefix(q, k) == SubSeq(q, 1, IF k < Len(q) THEN k + 1 ELSE Len(q))

\* The walk of Chain: one step is taken at a time, while the chain goes on.
Walk(g, w, head, n) ==
  g = [k \in 0 .. n |->
         IF k = 0 THEN IF head = 0 THEN <<>> ELSE <<head>>
         ELSE LET q == g[k - 1]
              IN IF q = <<>> \/ Len(q) <= k - 1 \/ w[q[Len(q)]].link = 0 THEN q
                 ELSE Append(q, w[q[Len(q)]].link)]

\* A chain as a sequence: where it begins and what follows each of its words.
Along(q, w, head) == /\ head = IF q = <<>> THEN 0 ELSE q[1]
                     /\ \A i \in DOMAIN q : w[q[i]].link = IF i = Len(q) THEN 0 ELSE q[i + 1]

\* A step of the walk lengthens the prefix by one word until the chain ends.
LEMMA WalkStep ==
  ASSUME NEW D, 0 \notin D, NEW w, NEW q \in Seq(D), NEW head, Along(q, w, head),
         NEW k \in Nat, k # 0
  PROVE  Prefix(q, k) = LET p == Prefix(q, k - 1)
                        IN IF p = <<>> \/ Len(p) <= k - 1 \/ w[p[Len(p)]].link = 0 THEN p
                           ELSE Append(p, w[p[Len(p)]].link)
<1> DEFINE p == Prefix(q, k - 1)
           m == Len(q)
<1>1. m \in Nat /\ DOMAIN q = 1 .. m /\ \A i \in 1 .. m : q[i] \in D
  OBVIOUS
<1>2. CASE m < k
  <2>0. ~(k - 1 < m) /\ ~(k < m)
    BY <1>1, <1>2
  <2>1. p = SubSeq(q, 1, m) /\ Prefix(q, k) = SubSeq(q, 1, m)
    BY <2>0, Zenon DEF Prefix
  <2>2. p = q /\ Prefix(q, k) = q
    BY <2>1, SubSeqFull
  <2>3. Len(p) <= k - 1
    BY <1>1, <1>2, <2>2
  <2> QED BY <2>2, <2>3
<1>3. CASE m = k
  <2>0. k - 1 < m /\ ~(k < m) /\ k - 1 + 1 = m
    BY <1>1, <1>3
  <2>1. p = SubSeq(q, 1, m) /\ Prefix(q, k) = SubSeq(q, 1, m)
    BY <2>0, Zenon DEF Prefix
  <2>2. p = q /\ Prefix(q, k) = q
    BY <2>1, SubSeqFull
  <2>3. w[p[Len(p)]].link = 0
    BY <1>1, <1>3, <2>2 DEF Along
  <2> QED BY <2>2, <2>3
<1>4. CASE m > k
  <2>1. p = SubSeq(q, 1, k) /\ Prefix(q, k) = SubSeq(q, 1, k + 1)
    <3>1. k - 1 < m /\ k < m /\ k - 1 + 1 = k
      BY <1>1, <1>4
    <3> QED BY <3>1, Zenon DEF Prefix
  <2>2. p \in Seq(D) /\ Len(p) = k /\ p[k] = q[k] /\ p # <<>>
    <3>1. \A i \in 1 .. k : q[i] \in D
      BY <1>1, <1>4
    <3>2. /\ SubSeq(q, 1, k) \in Seq(D) /\ Len(SubSeq(q, 1, k)) = IF 1 <= k THEN k - 1 + 1 ELSE 0
          /\ \A i \in 1 .. k - 1 + 1 : SubSeq(q, 1, k)[i] = q[1 + i - 1]
      BY <3>1, SubSeqProperties
    <3> DEFINE r == SubSeq(q, 1, k)
    <3> HIDE DEF r
    <3>3. r \in Seq(D) /\ Len(r) = k /\ r[k] = q[k]
      BY <3>2 DEF r
    <3>4. r # <<>>
      BY <3>3
    <3> QED BY <2>1, <3>3, <3>4, Zenon DEF r
  <2>3. w[p[Len(p)]].link = q[k + 1] /\ q[k + 1] \in D /\ q[k + 1] # 0
    BY <1>1, <1>4, <2>2 DEF Along
  <2>4. 1 \in 1 .. m /\ k + 1 \in 1 .. m /\ k + 1 - 1 = k
    BY <1>1, <1>4
  <2>5. SubSeq(q, 1, k + 1) = SubSeq(q, 1, k + 1 - 1) \o <<q[k + 1]>>
    BY <2>4, SubSeqRecursiveSecond
  <2>6. Append(p, q[k + 1]) = p \o <<q[k + 1]>>
    BY <2>2, <2>3, AppendIsConcat
  <2>7. Prefix(q, k) = Append(p, q[k + 1])
    BY <2>1, <2>4, <2>5, <2>6
  <2>8. ~(Len(p) <= k - 1)
    BY <2>2
  <2> QED BY <2>2, <2>3, <2>7, <2>8
<1>5. m < k \/ m = k \/ m > k
  <2> HIDE DEF m, p
  <2> QED BY <1>1
<1> QED
  BY <1>2, <1>3, <1>4, <1>5, Zenon

\* There is one walk, and with enough steps it ends with the whole chain.
LEMMA WalkIs ==
  ASSUME NEW D, 0 \notin D, NEW w, NEW q \in Seq(D), NEW head, Along(q, w, head),
         NEW n \in Nat, Len(q) <= n
  PROVE  /\ \E g : Walk(g, w, head, n)
         /\ \A g : Walk(g, w, head, n) => g[n] = q
<1> DEFINE Next1(p, k) == IF p = <<>> \/ Len(p) <= k - 1 \/ w[p[Len(p)]].link = 0 THEN p
                          ELSE Append(p, w[p[Len(p)]].link)
           prefixes == [k \in 0 .. n |-> Prefix(q, k)]
<1>1. Len(q) \in Nat /\ \A i \in 1 .. Len(q) : q[i] \in D
  OBVIOUS
<1>2. Prefix(q, 0) = IF head = 0 THEN <<>> ELSE <<head>>
  <2>1. CASE q = <<>>
    <3>1. Len(q) = 0 /\ ~(0 < Len(q)) /\ head = 0
      BY <2>1 DEF Along
    <3>2. SubSeq(q, 1, 0) = <<>>
      BY SubSeqEmpty
    <3> QED BY <3>1, <3>2, Zenon DEF Prefix
  <2>2. CASE q # <<>>
    <3>1. 0 < Len(q) /\ 0 + 1 = 1 /\ 1 \in 1 .. Len(q) /\ 1 - 1 = 0
      BY <2>2, <1>1, EmptySeq
    <3>2. head = q[1] /\ head # 0 /\ q[1] \in D
      BY <2>2, <3>1, <1>1 DEF Along
    <3>3. SubSeq(q, 1, 1) = SubSeq(q, 1, 1 - 1) \o <<q[1]>>
      BY <3>1, SubSeqRecursiveSecond
    <3>4. SubSeq(q, 1, 0) = <<>>
      BY SubSeqEmpty
    <3>5. <<>> \o <<q[1]>> = <<q[1]>>
      BY <3>2
    <3>6. SubSeq(q, 1, 1) = <<q[1]>>
      BY <3>1, <3>3, <3>4, <3>5
    <3> QED BY <3>1, <3>2, <3>6, Zenon DEF Prefix
  <2> QED BY <2>1, <2>2
<1>3. ASSUME NEW k \in Nat, k # 0 PROVE Prefix(q, k) = Next1(Prefix(q, k - 1), k)
  BY <1>3, WalkStep, Zenon
<1>4. Walk(prefixes, w, head, n)
  <2> HIDE DEF Next1
  <2>1. ASSUME NEW k \in 0 .. n
        PROVE  prefixes[k] = IF k = 0 THEN IF head = 0 THEN <<>> ELSE <<head>>
                             ELSE Next1(prefixes[k - 1], k)
    <3>1. prefixes[k] = Prefix(q, k)
      OBVIOUS
    <3>2. CASE k = 0
      BY <1>2, <3>1, <3>2, Zenon
    <3>3. CASE k # 0
      <4>1. k \in Nat /\ k - 1 \in 0 .. n
        BY <3>3
      <4>2. prefixes[k - 1] = Prefix(q, k - 1)
        BY <4>1
      <4> HIDE DEF prefixes
      <4> QED BY <1>3, <3>1, <3>3, <4>1, <4>2, Zenon
    <3> QED BY <3>2, <3>3
  <2>2. prefixes = [k \in 0 .. n |-> prefixes[k]]
    OBVIOUS
  <2> HIDE DEF prefixes
  <2>3. prefixes = [k \in 0 .. n |-> IF k = 0 THEN IF head = 0 THEN <<>> ELSE <<head>>
                                     ELSE Next1(prefixes[k - 1], k)]
    BY <2>1, <2>2, Zenon
  <2> QED BY <2>3, Zenon DEF Walk, Next1
<1>5. ASSUME NEW g, Walk(g, w, head, n) PROVE g[n] = Prefix(q, n)
  <2> DEFINE wrong == {k \in 0 .. n : g[k] # Prefix(q, k)}
  <2>1. ASSUME NEW k \in 0 .. n
        PROVE  g[k] = IF k = 0 THEN IF head = 0 THEN <<>> ELSE <<head>> ELSE Next1(g[k - 1], k)
    BY <1>5, <2>1, Zenon DEF Walk
  <2> HIDE DEF Next1
  <2>2. ASSUME wrong # {} PROVE FALSE
    <3>1. wrong \in SUBSET Nat
      OBVIOUS
    <3>2. PICK k \in wrong : \A j \in wrong : k <= j
      <4> HIDE DEF wrong
      <4> QED BY <2>2, <3>1, LeastNatural
    <3>3. k \in 0 .. n /\ k \in Nat /\ g[k] # Prefix(q, k)
      OBVIOUS
    <3>4. k # 0
      BY <1>2, <2>1, <3>3, Zenon
    <3>5. k - 1 \in 0 .. n /\ ~(k <= k - 1)
      BY <3>3, <3>4
    <3>6. g[k - 1] = Prefix(q, k - 1)
      BY <3>2, <3>5
    <3> QED BY <1>3, <2>1, <3>3, <3>4, <3>6, Zenon
  <2>3. n \in 0 .. n
    OBVIOUS
  <2> QED BY <2>2, <2>3
<1>6. Prefix(q, n) = q
  <2>1. CASE n < Len(q)
    BY <1>1, <2>1
  <2>2. CASE ~(n < Len(q))
    <3>1. Prefix(q, n) = SubSeq(q, 1, Len(q))
      BY <2>2, Zenon DEF Prefix
    <3> QED BY <3>1, SubSeqFull
  <2> QED BY <2>1, <2>2
<1> QED
  BY <1>4, <1>5, <1>6, Zenon

\* What Chain computes is the list of the words of the bucket.
LEMMA ChainIs ==
  ASSUME WordsTyped, IsFiniteSet(Handles), 0 \notin Handles,
         NEW c, Listed(c), NEW b \in Buckets
  PROVE  Chain(b) = c[b]
<1> DEFINE n == Cardinality(DOMAIN entries)
           upTo == CHOOSE g : Walk(g, entries, heads[b], n)
<1>1. IsFiniteSet(DOMAIN entries) /\ n \in Nat /\ 0 \notin DOMAIN entries
  BY FS_Subset, FS_CardinalityType DEF WordsTyped
<1>2. c[b] \in Seq(DOMAIN entries)
  BY DEF Listed
<1>3. \A i, j \in DOMAIN c[b] : c[b][i] = c[b][j] => i = j
  BY DEF Listed, Chains
<1>4. Len(c[b]) <= n
  BY <1>1, <1>2, <1>3, NoLonger
<1>5. Along(c[b], entries, heads[b])
  BY DEF Listed, Chains, Along
<1>6. PICK D, w, q, head, m : D = DOMAIN entries /\ w = entries /\ q = c[b] /\ head = heads[b] /\ m = n
  OBVIOUS
<1> HIDE DEF n
<1>7. /\ \E g : Walk(g, w, head, m)
      /\ \A g : Walk(g, w, head, m) => g[m] = q
  <2>1. 0 \notin D /\ q \in Seq(D) /\ Along(q, w, head) /\ m \in Nat /\ Len(q) <= m
    BY <1>1, <1>2, <1>4, <1>5, <1>6
  <2> QED BY <2>1, WalkIs
<1>8. upTo[n] = c[b]
  <2>1. Walk(upTo, entries, heads[b], n)
    BY <1>6, <1>7, Zenon
  <2> QED BY <1>6, <1>7, <2>1, Zenon
<1> QED
  BY <1>8, Zenon DEF Chain, Walk, n

---------------------------------------------------------------------------
(* The search *)

LEMMA Assumed ==
  ASSUME DictionaryAssumption
  PROVE  /\ Bucket \in [Names -> Buckets] /\ IsFiniteSet(Handles) /\ 0 \notin Handles
         /\ MaxSaves \in Nat
BY DEF DictionaryAssumption

\* A word is found by its name.
LEMMA LookupFinds ==
  ASSUME DictionaryAssumption, DictionaryInv, NEW h \in DOMAIN entries
  PROVE  Lookup(entries[h].name) = h
<1>1. PICK c \in [Buckets -> Seq(DOMAIN entries)] : Listed(c)
  BY DEF DictionaryInv
<1> DEFINE n == entries[h].name
           b == Bucket[n]
           q == c[b]
           named == {i \in DOMAIN q : entries[q[i]].name = n}
<1>2. n \in Names /\ b \in Buckets
  BY Assumed DEF DictionaryInv, WordsTyped, Words
<1>3. Chain(b) = q
  BY <1>1, <1>2, Assumed, ChainIs DEF DictionaryInv
<1>4. PICK i \in DOMAIN q : q[i] = h
  BY <1>1 DEF Listed, Chains
<1>5. named = {i}
  <2>1. i \in named
    BY <1>4
  <2>2. ASSUME NEW j \in named PROVE j = i
    <3>1. j \in DOMAIN q /\ q[j] \in DOMAIN entries /\ entries[q[j]].name = n
      BY <1>1, <1>2 DEF Listed, Chains
    <3>2. q[j] = h
      BY <1>1, <3>1 DEF Listed, Chains
    <3> QED BY <1>1, <1>2, <1>4, <3>1, <3>2 DEF Listed, Chains
  <2> QED BY <2>1, <2>2
<1>6. i \in Nat
  <2>1. q \in Seq(DOMAIN entries)
    BY <1>1, <1>2
  <2> QED BY <1>4, <2>1
<1> HIDE DEF q, b
<1>7. Lookup(n) = LET p == Chain(b)
                      S == {k \in DOMAIN p : entries[p[k]].name = n}
                  IN IF S = {} THEN 0 ELSE p[CHOOSE k \in S : \A j \in S : k <= j]
  BY Zenon DEF Lookup, b
<1>8. Lookup(n) = IF named = {} THEN 0 ELSE q[CHOOSE k \in named : \A j \in named : k <= j]
  BY <1>3, <1>7, Zenon
<1>9. (CHOOSE k \in {i} : \A j \in {i} : k <= j) = i
  BY <1>6
<1> QED
  BY <1>4, <1>5, <1>8, <1>9

\* A name that is not found is the name of no word.
LEMMA LookupMisses ==
  ASSUME DictionaryAssumption, DictionaryInv, NEW n, Lookup(n) = 0, NEW h \in DOMAIN entries
  PROVE  entries[h].name # n
BY LookupFinds, Assumed DEF DictionaryInv, WordsTyped

---------------------------------------------------------------------------
(* The invariant is inductive *)

\* What leaves the names and the links leaves the chains.
LEMMA ChainsStay ==
  ASSUME DictionaryInv, DOMAIN entries' = DOMAIN entries, heads' = heads,
         \A h \in DOMAIN entries : entries'[h].name = entries[h].name /\ entries'[h].link = entries[h].link
  PROVE  \E c \in [Buckets -> Seq(DOMAIN entries')] : Listed(c)'
<1>1. PICK c \in [Buckets -> Seq(DOMAIN entries)] : Listed(c)
  BY DEF DictionaryInv
<1>2. Chains(c, entries')
  <2>1. ASSUME NEW b \in Buckets, NEW i \in DOMAIN c[b]
        PROVE  /\ c[b][i] \in DOMAIN entries' /\ Bucket[entries'[c[b][i]].name] = b
               /\ entries'[c[b][i]].link = IF i = Len(c[b]) THEN 0 ELSE c[b][i + 1]
               /\ \A j \in DOMAIN c[b] : c[b][i] = c[b][j] => i = j
    BY <1>1 DEF Listed, Chains
  <2>2. ASSUME NEW h \in DOMAIN entries'
        PROVE  \E i \in DOMAIN c[Bucket[entries'[h].name]] : c[Bucket[entries'[h].name]][i] = h
    <3>1. h \in DOMAIN entries /\ entries'[h].name = entries[h].name
      BY <2>2
    <3>2. \E i \in DOMAIN c[Bucket[entries[h].name]] : c[Bucket[entries[h].name]][i] = h
      BY <1>1, <3>1, Zenon DEF Listed, Chains
    <3> QED BY <3>1, <3>2, Zenon
  <2>3. ASSUME NEW h \in DOMAIN entries', NEW g \in DOMAIN entries', entries'[h].name = entries'[g].name
        PROVE  h = g
    BY <1>1, <2>3 DEF Listed, Chains
  <2> QED BY <2>1, <2>2, <2>3, Zenon DEF Chains
<1>3. c \in [Buckets -> Seq(DOMAIN entries')]
  BY <1>1, Zenon
<1>4. \A b \in Buckets : heads'[b] = IF c[b] = <<>> THEN 0 ELSE c[b][1]
  BY <1>1, Zenon DEF Listed
<1> QED
  BY <1>2, <1>3, <1>4, Zenon DEF Listed

\* The class of a word may become any other.
LEMMA ExchangedInv ==
  ASSUME DictionaryInv, NEW h \in DOMAIN entries, NEW property, property.class \in Classes,
         entries' = Exchanged(h, property), heads' = heads
  PROVE  /\ WordsTyped' /\ DOMAIN entries' = DOMAIN entries
         /\ \E c \in [Buckets -> Seq(DOMAIN entries')] : Listed(c)'
<1>1. entries \in [DOMAIN entries -> Words] /\ entries' = [entries EXCEPT ![h].class = property.class]
  BY DEF DictionaryInv, WordsTyped, Exchanged
<1>2. /\ DOMAIN entries' = DOMAIN entries /\ entries' \in [DOMAIN entries -> Words]
      /\ \A g \in DOMAIN entries : entries'[g].name = entries[g].name /\ entries'[g].link = entries[g].link
  BY <1>1 DEF Words
<1> QED
  BY <1>2, ChainsStay DEF DictionaryInv, WordsTyped

LEMMA InstallInv ==
  ASSUME DictionaryAssumption, DictionaryInv, NEW h \in Handles, NEW class \in {"variable", "undeclared"},
         Install(h, class)
  PROVE  DictionaryInv'
<1>1. class \in Classes /\ h \in DOMAIN entries /\ heads' = heads
  BY DEF Classes, Install
<1>2. /\ WordsTyped' /\ DOMAIN entries' = DOMAIN entries
      /\ \E c \in [Buckets -> Seq(DOMAIN entries')] : Listed(c)'
  <2> DEFINE property == [class |-> class, explicit |-> FALSE, link |-> 0]
  <2>1. entries' = Exchanged(h, property) /\ property.class \in Classes
    BY <1>1 DEF Install
  <2> HIDE DEF property
  <2> QED BY <1>1, <2>1, ExchangedInv
<1>3. SavesTyped'
  <2> DEFINE save == [word |-> h, property |-> Property(h)]
             Save == [word : DOMAIN entries, property : [class : Classes, explicit : BOOLEAN,
                                                       link : {0} \cup Handles]]
  <2>1. entries[h] \in Words
    BY <1>1 DEF DictionaryInv, WordsTyped
  <2>2. save \in Save
    BY <1>1, <2>1 DEF Property, Words
  <2>3. saves' = Append(saves, save) /\ Len(saves) < MaxSaves /\ saves \in Seq(Save) /\ MaxSaves \in Nat
    BY Assumed DEF Install, DictionaryInv, SavesTyped
  <2> HIDE DEF save, Save
  <2>4. saves' \in Seq(Save) /\ Len(saves') <= MaxSaves
    BY <2>2, <2>3
  <2> QED BY <1>2, <2>4 DEF SavesTyped, Save
<1> QED
  BY <1>2, <1>3 DEF DictionaryInv

LEMMA ReinstateInv ==
  ASSUME DictionaryAssumption, DictionaryInv, Reinstate
  PROVE  DictionaryInv'
<1> DEFINE s == saves[Len(saves)]
           Save == [word : DOMAIN entries, property : [class : Classes, explicit : BOOLEAN,
                                                     link : {0} \cup Handles]]
<1>1. saves \in Seq(Save) /\ saves # <<>> /\ saves' = ButLast(saves) /\ Len(saves) <= MaxSaves
  BY DEF DictionaryInv, SavesTyped, Reinstate
<1> HIDE DEF Save
<1>2. s \in Save /\ ButLast(saves) \in Seq(Save) /\ Len(ButLast(saves)) <= Len(saves) /\ Len(saves) \in Nat
  <2>1. Len(saves) \in Nat \ {0} /\ \A i \in 1 .. Len(saves) : saves[i] \in Save
    BY <1>1
  <2>2. Len(saves) - 1 \in Int /\ \A i \in 1 .. Len(saves) - 1 : saves[i] \in Save
    BY <2>1
  <2>3. /\ SubSeq(saves, 1, Len(saves) - 1) \in Seq(Save)
        /\ Len(SubSeq(saves, 1, Len(saves) - 1)) <= Len(saves)
    BY <1>1, <2>1, <2>2, SubSeqProperties
  <2> QED BY <2>1, <2>3 DEF ButLast
<1>3. s.word \in DOMAIN entries /\ s.property.class \in Classes
  BY <1>2 DEF Save
<1>4. entries' = Exchanged(s.word, s.property) /\ heads' = heads
  BY DEF Reinstate
<1>5. /\ WordsTyped' /\ DOMAIN entries' = DOMAIN entries
      /\ \E c \in [Buckets -> Seq(DOMAIN entries')] : Listed(c)'
  <2> HIDE DEF s
  <2> QED BY <1>3, <1>4, ExchangedInv
<1>6. saves' \in Seq(Save) /\ Len(saves') <= MaxSaves
  BY <1>1, <1>2, Assumed
<1> QED
  BY <1>5, <1>6 DEF DictionaryInv, SavesTyped, Save

LEMMA DeclareInv ==
  ASSUME DictionaryInv, NEW h \in Handles, NEW explicit \in BOOLEAN, Declare(h, explicit)
  PROVE  DictionaryInv'
<1>1. /\ entries \in [DOMAIN entries -> Words] /\ h \in DOMAIN entries /\ heads' = heads /\ saves' = saves
      /\ entries' = [entries EXCEPT ![h].class = "variable", ![h].explicit = explicit]
  BY DEF DictionaryInv, WordsTyped, Declare
<1>2. /\ DOMAIN entries' = DOMAIN entries /\ entries' \in [DOMAIN entries -> Words]
      /\ \A g \in DOMAIN entries : entries'[g].name = entries[g].name /\ entries'[g].link = entries[g].link
  BY <1>1 DEF Words, Classes
<1>3. WordsTyped' /\ SavesTyped'
  BY <1>1, <1>2 DEF DictionaryInv, WordsTyped, SavesTyped
<1> QED
  BY <1>1, <1>2, <1>3, ChainsStay DEF DictionaryInv

\* A new word joins the end of the chain of its bucket.
LEMMA InternInv ==
  ASSUME DictionaryAssumption, DictionaryInv, NEW n \in Names, NEW h \in Handles, Intern(n, h)
  PROVE  DictionaryInv'
<1>1. PICK c \in [Buckets -> Seq(DOMAIN entries)] : Listed(c)
  BY DEF DictionaryInv
<1> DEFINE b == Bucket[n]
           q == c[b]
           W == With(h, New(n))
           D == DOMAIN entries \cup {h}
<1>2. b \in Buckets /\ h \notin DOMAIN entries /\ h # 0 /\ h \in Handles
  BY Assumed DEF Intern
<1>3. Chain(b) = q
  BY <1>1, <1>2, Assumed, ChainIs DEF DictionaryInv
<1>4. q \in Seq(DOMAIN entries) /\ entries \in [DOMAIN entries -> Words]
  BY <1>1, <1>2 DEF DictionaryInv, WordsTyped
<1>5. /\ W \in [D -> Words] /\ W[h] = New(n) /\ \A g \in DOMAIN entries : W[g] = entries[g]
  <2>1. New(n) \in Words
    BY DEF New, Words, Classes
  <2>2. W = [g \in D |-> IF g = h THEN New(n) ELSE entries[g]]
    BY Zenon DEF With
  <2> HIDE DEF W
  <2> QED BY <1>2, <1>4, <2>1, <2>2
<1>6. entries' = IF q = <<>> THEN W ELSE [W EXCEPT ![q[Len(q)]].link = h]
  BY <1>3, Zenon DEF Intern, Appended
<1>7. heads' = [heads EXCEPT ![b] = IF @ = 0 THEN h ELSE @] /\ saves' = saves
  BY DEF Intern
<1> HIDE DEF W, b
<1>8. /\ DOMAIN entries' = D /\ entries' \in [D -> Words] /\ entries'[h].name = n /\ entries'[h].link = 0
      /\ \A g \in DOMAIN entries :
           /\ entries'[g].name = entries[g].name
           /\ entries'[g].link = IF q # <<>> /\ g = q[Len(q)] THEN h ELSE entries[g].link
  <2>1. New(n).name = n /\ New(n).link = 0
    BY DEF New
  <2>2. CASE q = <<>>
    BY <1>5, <1>6, <2>1, <2>2
  <2>3. CASE q # <<>>
    <3> DEFINE last == q[Len(q)]
    <3>1. last \in DOMAIN entries /\ last \in D /\ last # h
      BY <1>2, <1>4, <2>3, EmptySeq
    <3>2. entries' = [W EXCEPT ![last].link = h] /\ h \in {0} \cup Handles
      BY <1>2, <1>6, <2>3
    <3> HIDE DEF last
    <3>3. /\ entries' \in [D -> Words]
          /\ \A g \in D : g # last => entries'[g] = W[g]
          /\ entries'[last].name = W[last].name /\ entries'[last].link = h
      BY <1>5, <3>1, <3>2 DEF Words
    <3>4. entries'[h].name = n /\ entries'[h].link = 0
      BY <1>5, <2>1, <3>1, <3>3
    <3>5. ASSUME NEW g \in DOMAIN entries
          PROVE  /\ entries'[g].name = entries[g].name
                 /\ entries'[g].link = IF g = last THEN h ELSE entries[g].link
      BY <1>5, <3>1, <3>3
    <3> QED BY <2>3, <3>3, <3>4, <3>5 DEF last
  <2> QED BY <2>2, <2>3
<1> DEFINE e == [c EXCEPT ![b] = Append(q, h)]
<1>9. /\ e \in [Buckets -> Seq(D)] /\ e[b] = Append(q, h)
      /\ \A a \in Buckets : a # b => e[a] = c[a]
  <2>1. \A a \in Buckets : c[a] \in Seq(D)
    BY <1>1, SeqMonotonic
  <2>2. Append(q, h) \in Seq(D)
    BY <1>2, <2>1
  <2> HIDE DEF q, D
  <2> QED BY <1>1, <1>2, <2>1, <2>2
<1> DEFINE m == Len(q)
<1>10. /\ m \in Nat /\ DOMAIN q = 1 .. m /\ (q = <<>> <=> m = 0)
       /\ \A i \in 1 .. m : q[i] \in DOMAIN entries
  BY <1>4, EmptySeq
<1>11. /\ Len(e[b]) = m + 1 /\ DOMAIN e[b] = 1 .. m + 1 /\ e[b][m + 1] = h
       /\ \A i \in 1 .. m : e[b][i] = q[i]
  <2>1. h \in D /\ q \in Seq(D)
    BY <1>4, SeqMonotonic
  <2>2. /\ Append(q, h) \in Seq(D) /\ Len(Append(q, h)) = Len(q) + 1
        /\ \A i \in 1 .. Len(q) : Append(q, h)[i] = q[i]
        /\ Append(q, h)[Len(q) + 1] = h
    <3> HIDE DEF q, D
    <3> QED BY <2>1, AppendProperties
  <2> HIDE DEF q, D, e
  <2> QED BY <1>9, <2>2
<1>12. /\ \A a \in Buckets : \A i \in DOMAIN c[a] : c[a][i] \in DOMAIN entries /\ Bucket[entries[c[a][i]].name] = a
       /\ \A a \in Buckets : \A i \in DOMAIN c[a] : entries[c[a][i]].link = IF i = Len(c[a]) THEN 0 ELSE c[a][i + 1]
       /\ \A a \in Buckets : \A i, j \in DOMAIN c[a] : c[a][i] = c[a][j] => i = j
  BY <1>1 DEF Listed, Chains
<1> HIDE DEF e, D, m
<1>13. ASSUME NEW i \in 1 .. m + 1
       PROVE  /\ e[b][i] \in DOMAIN entries' /\ Bucket[entries'[e[b][i]].name] = b
              /\ entries'[e[b][i]].link = IF i = Len(e[b]) THEN 0 ELSE e[b][i + 1]
              /\ \A j \in 1 .. m + 1 : e[b][i] = e[b][j] => i = j
  <2>1. CASE i = m + 1
    <3>1. e[b][i] = h /\ h \in D /\ i = Len(e[b]) /\ Bucket[n] = b
      BY <1>11, <2>1 DEF D, b
    <3>2. ASSUME NEW j \in 1 .. m + 1, e[b][i] = e[b][j] PROVE i = j
      <4>1. CASE j \in 1 .. m
        BY <1>2, <1>10, <1>11, <3>1, <3>2, <4>1
      <4>2. j \in 1 .. m \/ j = m + 1
        BY <1>10
      <4> QED BY <2>1, <4>1, <4>2
    <3> QED BY <1>8, <3>1, <3>2
  <2>2. CASE i # m + 1
    <3>1. i \in 1 .. m /\ i \in DOMAIN q /\ e[b][i] = q[i] /\ q[i] \in DOMAIN entries /\ i # Len(e[b])
          /\ m \in DOMAIN q /\ q # <<>> /\ i + 1 \in 1 .. m + 1
      BY <1>10, <1>11, <2>2
    <3>2. q[i] \in DOMAIN entries' /\ Bucket[entries'[q[i]].name] = b
      BY <1>2, <1>8, <1>12, <3>1 DEF D
    <3>3. entries'[q[i]].link = e[b][i + 1]
      <4>1. CASE i = m
        BY <1>8, <1>11, <3>1, <4>1 DEF m
      <4>2. CASE i # m
        <5>1. q[i] # q[m]
          BY <1>2, <1>12, <3>1, <4>2
        <5>2. entries'[q[i]].link = entries[q[i]].link
          BY <1>8, <3>1, <5>1 DEF m
        <5>3. entries[q[i]].link = q[i + 1]
          BY <1>2, <1>12, <3>1, <4>2 DEF m
        <5>4. i + 1 \in 1 .. m
          BY <1>10, <3>1, <4>2
        <5> QED BY <1>11, <5>2, <5>3, <5>4
      <4> QED BY <4>1, <4>2
    <3>4. ASSUME NEW j \in 1 .. m + 1, e[b][i] = e[b][j] PROVE i = j
      <4>1. CASE j = m + 1
        BY <1>2, <1>11, <3>1, <3>4, <4>1
      <4>2. CASE j \in 1 .. m
        <5>1. j \in DOMAIN q /\ q[i] = q[j]
          BY <1>10, <1>11, <3>1, <3>4, <4>2
        <5> QED BY <1>2, <1>12, <3>1, <5>1
      <4>3. j \in 1 .. m \/ j = m + 1
        BY <1>10
      <4> QED BY <4>1, <4>2, <4>3
    <3> QED BY <3>1, <3>2, <3>3, <3>4
  <2> QED BY <2>1, <2>2
<1>14. ASSUME NEW a \in Buckets, a # b, NEW i \in DOMAIN e[a]
       PROVE  /\ e[a][i] \in DOMAIN entries' /\ Bucket[entries'[e[a][i]].name] = a
              /\ entries'[e[a][i]].link = IF i = Len(e[a]) THEN 0 ELSE e[a][i + 1]
              /\ \A j \in DOMAIN e[a] : e[a][i] = e[a][j] => i = j
  <2>1. e[a] = c[a]
    BY <1>9, <1>14
  <2>2. e[a][i] \in DOMAIN entries /\ Bucket[entries[e[a][i]].name] = a
    BY <1>12, <2>1
  <2>3. q # <<>> => e[a][i] # q[Len(q)]
    <3> SUFFICES ASSUME q # <<>>, e[a][i] = q[Len(q)] PROVE FALSE
      OBVIOUS
    <3>1. m \in DOMAIN q /\ m = Len(q)
      BY <1>10 DEF m
    <3>2. Bucket[entries[q[m]].name] = b
      BY <1>2, <1>12, <3>1
    <3> QED BY <1>14, <2>2, <3>1, <3>2
  <2>4. entries'[e[a][i]].link = entries[e[a][i]].link /\ entries'[e[a][i]].name = entries[e[a][i]].name
    BY <1>8, <2>2, <2>3
  <2> QED BY <1>8, <1>12, <2>1, <2>2, <2>4 DEF D
<1>15. ASSUME NEW g \in DOMAIN entries'
       PROVE  \E i \in DOMAIN e[Bucket[entries'[g].name]] : e[Bucket[entries'[g].name]][i] = g
  <2>1. CASE g = h
    <3>1. Bucket[entries'[g].name] = b /\ m + 1 \in DOMAIN e[b]
      BY <1>8, <1>10, <1>11, <2>1 DEF b
    <3> QED BY <1>11, <2>1, <3>1
  <2>2. CASE g # h
    <3> DEFINE a == Bucket[entries[g].name]
    <3>1. g \in DOMAIN entries
      BY <1>8, <2>2 DEF D
    <3>2. entries'[g].name = entries[g].name /\ a \in Buckets
      BY <1>4, <1>8, <3>1, Assumed DEF Words
    <3>3. PICK i \in DOMAIN c[a] : c[a][i] = g
      BY <1>1, <3>1 DEF Listed, Chains
    <3>4. i \in DOMAIN e[a] /\ e[a][i] = g
      <4>1. CASE a = b
        <5>1. i \in 1 .. m /\ i \in 1 .. m + 1
          BY <1>10, <3>3, <4>1
        <5> HIDE DEF a
        <5> QED BY <1>11, <3>3, <4>1, <5>1
      <4>2. CASE a # b
        <5>1. e[a] = c[a]
          BY <1>9, <3>2, <4>2
        <5> QED BY <3>3, <5>1
      <4> QED BY <4>1, <4>2
    <3> QED BY <3>2, <3>4
  <2> QED BY <2>1, <2>2
<1>16. ASSUME NEW g \in DOMAIN entries', NEW k \in DOMAIN entries', entries'[g].name = entries'[k].name
       PROVE  g = k
  <2>1. Lookup(n) = 0
    BY DEF Intern
  <2>2. \A x \in DOMAIN entries : entries'[x].name = entries[x].name /\ entries[x].name # n
    BY <1>8, <2>1, LookupMisses
  <2>3. CASE g \in DOMAIN entries /\ k \in DOMAIN entries
    BY <1>1, <1>16, <2>2, <2>3 DEF Listed, Chains
  <2>4. CASE g \notin DOMAIN entries \/ k \notin DOMAIN entries
    BY <1>8, <1>16, <2>2, <2>4 DEF D
  <2> QED BY <2>3, <2>4
<1>17. Chains(e, entries')
  <2>1. ASSUME NEW a \in Buckets, NEW i \in DOMAIN e[a]
        PROVE  /\ e[a][i] \in DOMAIN entries' /\ Bucket[entries'[e[a][i]].name] = a
               /\ entries'[e[a][i]].link = IF i = Len(e[a]) THEN 0 ELSE e[a][i + 1]
               /\ \A j \in DOMAIN e[a] : e[a][i] = e[a][j] => i = j
    <3>1. CASE a = b
      BY <1>11, <1>13, <3>1
    <3>2. CASE a # b
      BY <1>14, <3>2
    <3> QED BY <3>1, <3>2
  <2> QED BY <1>15, <1>16, <2>1, Zenon DEF Chains
<1>18. /\ heads' \in [Buckets -> {0} \cup D]
       /\ \A a \in Buckets : heads'[a] = IF e[a] = <<>> THEN 0 ELSE e[a][1]
  <2>1. heads \in [Buckets -> {0} \cup DOMAIN entries] /\ \A a \in Buckets : heads[a] = IF c[a] = <<>> THEN 0 ELSE c[a][1]
    BY <1>1 DEF DictionaryInv, WordsTyped, Listed
  <2>2. heads' \in [Buckets -> {0} \cup D]
    BY <1>7, <2>1 DEF D
  <2>3. ASSUME NEW a \in Buckets, a # b PROVE heads'[a] = IF e[a] = <<>> THEN 0 ELSE e[a][1]
    BY <1>7, <1>9, <2>1, <2>3
  <2>4. heads'[b] = IF e[b] = <<>> THEN 0 ELSE e[b][1]
    <3>1. e[b] # <<>>
      BY <1>10, <1>11
    <3>2. CASE q = <<>>
      <4>1. heads[b] = 0 /\ m + 1 = 1
        BY <1>2, <1>10, <2>1, <3>2
      <4>2. heads'[b] = h
        BY <1>2, <1>7, <2>1, <4>1
      <4> QED BY <1>11, <3>1, <4>1, <4>2
    <3>3. CASE q # <<>>
      <4>1. 1 \in 1 .. m
        BY <1>10, <3>3
      <4>2. heads[b] = q[1] /\ heads[b] # 0
        BY <1>2, <1>10, <2>1, <3>3, <4>1, Assumed DEF DictionaryInv, WordsTyped
      <4>3. heads'[b] = q[1]
        BY <1>2, <1>7, <2>1, <4>2
      <4> QED BY <1>11, <3>1, <4>1, <4>3
    <3> QED BY <3>2, <3>3
  <2> QED BY <2>2, <2>3, <2>4
<1>19. WordsTyped'
  BY <1>2, <1>8, <1>18 DEF D, DictionaryInv, WordsTyped
<1>20. SavesTyped'
  <2> DEFINE Save(S) == [word : S, property : [class : Classes, explicit : BOOLEAN, link : {0} \cup Handles]]
  <2>1. saves \in Seq(Save(DOMAIN entries)) /\ Len(saves) <= MaxSaves
    BY DEF DictionaryInv, SavesTyped
  <2>2. Save(DOMAIN entries) \subseteq Save(DOMAIN entries')
    BY <1>8 DEF D
  <2>3. saves \in Seq(Save(DOMAIN entries'))
    <3> HIDE DEF Save
    <3> QED BY <2>1, <2>2, SeqMonotonic
  <2> QED BY <1>7, <2>1, <2>3 DEF SavesTyped
<1> QED
  BY <1>8, <1>9, <1>17, <1>18, <1>19, <1>20 DEF DictionaryInv, Listed

\* The resident words are in their chains.
LEMMA DictionaryStarts ==
  ASSUME DictionaryAssumption, DictionaryInit
  PROVE  DictionaryInv
<1> DEFINE R == DOMAIN Resident
           linked == {Resident[h].link : h \in R}
           first(b) == {h \in R \ linked : Bucket[Resident[h].name] = b}
<1>1. PICK c \in [Buckets -> Listings] : Chains(c, Resident)
  BY DEF DictionaryAssumption
<1>2. /\ R \subseteq Handles /\ \A h \in R : Resident[h] \in [name : Names, link : {0} \cup R]
  BY DEF DictionaryAssumption
<1>3. entries = [h \in R |-> [name |-> Resident[h].name, link |-> Resident[h].link,
                            class |-> "resident", explicit |-> FALSE]]
  BY DEF DictionaryInit
<1>4. /\ DOMAIN entries = R /\ entries \in [R -> Words]
      /\ \A h \in R : entries[h].name = Resident[h].name /\ entries[h].link = Resident[h].link
  BY <1>2, <1>3 DEF Words, Classes
<1>5. c \in [Buckets -> Seq(R)]
  <2>1. ASSUME NEW b \in Buckets PROVE c[b] \in Seq(R)
    <3>1. PICK k \in 0 .. Cardinality(R) : c[b] \in [1 .. k -> R]
      BY <1>1 DEF Listings
    <3>2. k \in Nat
      BY <1>2, FS_Subset, FS_CardinalityType DEF DictionaryAssumption
    <3> QED BY <3>1, <3>2, SeqDef
  <2> QED BY <1>1, <2>1
<1>6. Chains(c, entries)
  BY <1>1, <1>4 DEF Chains
<1>7. ASSUME NEW b \in Buckets
      PROVE  heads[b] = IF c[b] = <<>> THEN 0 ELSE c[b][1]
  <2>1. heads[b] = IF first(b) = {} THEN 0 ELSE CHOOSE h \in first(b) : TRUE
    BY Zenon DEF DictionaryInit
  <2>2. first(b) = IF c[b] = <<>> THEN {} ELSE {c[b][1]}
    <3>1. ASSUME NEW h \in first(b) PROVE c[b] # <<>> /\ h = c[b][1]
      <4>1. h \in R /\ h \notin linked /\ Bucket[Resident[h].name] = b
        OBVIOUS
      <4>2. PICK i \in DOMAIN c[b] : c[b][i] = h
        BY <1>1, <4>1 DEF Chains
      <4>3. c[b] \in Seq(R) /\ i \in 1 .. Len(c[b]) /\ DOMAIN c[b] = 1 .. Len(c[b]) /\ Len(c[b]) \in Nat
        BY <1>5, <4>2
      <4>4. i = 1
        <5> SUFFICES ASSUME i # 1 PROVE FALSE
          OBVIOUS
        <5>1. i - 1 \in DOMAIN c[b] /\ i - 1 # Len(c[b]) /\ i - 1 + 1 = i
          BY <4>3
        <5>2. Resident[c[b][i - 1]].link = h /\ c[b][i - 1] \in R
          BY <1>1, <4>2, <5>1 DEF Chains
        <5> QED BY <4>1, <5>2
      <4> QED BY <4>2, <4>3, <4>4
    <3>2. ASSUME c[b] # <<>> PROVE c[b][1] \in first(b)
      <4>1. c[b] \in Seq(R) /\ 1 \in DOMAIN c[b]
        BY <1>5, <3>2, EmptySeq
      <4>2. c[b][1] \in R /\ Bucket[Resident[c[b][1]].name] = b
        BY <1>1, <4>1 DEF Chains
      <4>3. ASSUME c[b][1] \in linked PROVE FALSE
        <5>1. PICK g \in R : Resident[g].link = c[b][1]
          BY <4>3
        <5> DEFINE a == Bucket[Resident[g].name]
        <5>2. a \in Buckets /\ c[b][1] # 0
          BY <1>2, <4>2, Assumed
        <5>3. PICK i \in DOMAIN c[a] : c[a][i] = g
          BY <1>1 DEF Chains
        <5>4. i # Len(c[a]) /\ c[a][i + 1] = c[b][1]
          BY <1>1, <5>1, <5>2, <5>3 DEF Chains
        <5>5. i + 1 \in DOMAIN c[a] /\ i + 1 # 1
          BY <1>5, <5>2, <5>3, <5>4
        <5>6. a = b
          BY <1>1, <4>2, <5>2, <5>4, <5>5 DEF Chains
        <5>7. i + 1 = 1
          BY <1>1, <4>1, <5>4, <5>5, <5>6 DEF Chains
        <5> QED BY <5>5, <5>7
      <4> QED BY <4>2, <4>3
    <3> QED BY <3>1, <3>2
  <2> HIDE DEF first
  <2> QED BY <2>1, <2>2
<1>8. heads \in [Buckets -> {0} \cup R]
  <2>1. DOMAIN heads = Buckets /\ heads = [b \in Buckets |-> heads[b]]
    BY DEF DictionaryInit
  <2>2. \A b \in Buckets : heads[b] \in {0} \cup R
    <3>1. \A b \in Buckets : c[b] = <<>> \/ c[b][1] \in R
      BY <1>5, EmptySeq
    <3> QED BY <1>7, <3>1
  <2> QED BY <2>1, <2>2
<1>9. SavesTyped
  BY Assumed DEF DictionaryInit, SavesTyped
<1> QED
  BY <1>2, <1>4, <1>5, <1>6, <1>7, <1>8, <1>9 DEF DictionaryInv, WordsTyped, Listed

LEMMA DictionaryStep ==
  ASSUME DictionaryAssumption, DictionaryInv, [DictionaryNext]_dictionary
  PROVE  DictionaryInv'
<1>1. CASE \E n \in Names, h \in Handles : Intern(n, h)
  BY <1>1, InternInv
<1>2. CASE \E h \in Handles, explicit \in BOOLEAN : Declare(h, explicit)
  BY <1>2, DeclareInv
<1>3. CASE \E h \in Handles, class \in {"variable", "undeclared"} : Install(h, class)
  BY <1>3, InstallInv
<1>4. CASE Reinstate
  BY <1>4, ReinstateInv
<1>5. CASE Abandon
  <2>1. entries' = entries /\ heads' = heads /\ saves' = <<>>
    BY <1>5 DEF Abandon
  <2>2. SavesTyped'
    BY <2>1, Assumed DEF SavesTyped
  <2> QED BY <2>1, <2>2, ChainsStay DEF DictionaryInv, WordsTyped
<1>6. CASE UNCHANGED dictionary
  BY <1>6, ChainsStay DEF dictionary, DictionaryInv, WordsTyped, SavesTyped
<1> QED
  BY <1>1, <1>2, <1>3, <1>4, <1>5, <1>6 DEF DictionaryNext

LEMMA DictionaryInvariant == DictionaryAssumption => (DictionarySpec => []DictionaryInv)
<1> SUFFICES ASSUME DictionaryAssumption PROVE DictionarySpec => []DictionaryInv
  OBVIOUS
<1>1. DictionaryInit => DictionaryInv
  BY DictionaryStarts
<1>2. DictionaryInv /\ [DictionaryNext]_dictionary => DictionaryInv'
  BY DictionaryStep
<1> QED
  BY <1>1, <1>2, PTL DEF DictionarySpec

---------------------------------------------------------------------------
(* What the invariant gives *)

\* The words, the heads and the links are of their types.
LEMMA InvTyped ==
  ASSUME DictionaryAssumption, DictionaryInv
  PROVE  DictionaryOK
<1>1. PICK c \in [Buckets -> Seq(DOMAIN entries)] : Listed(c)
  BY DEF DictionaryInv
<1>2. ASSUME NEW h \in DOMAIN entries
      PROVE  entries[h] \in [name : Names, link : {0} \cup DOMAIN entries, class : Classes, explicit : BOOLEAN]
  <2>1. entries[h] \in Words
    BY DEF DictionaryInv, WordsTyped
  <2> DEFINE b == Bucket[entries[h].name]
  <2>2. b \in Buckets
    BY <2>1, Assumed DEF Words
  <2>3. PICK i \in DOMAIN c[b] : c[b][i] = h
    BY <1>1 DEF Listed, Chains
  <2>4. entries[h].link = IF i = Len(c[b]) THEN 0 ELSE c[b][i + 1]
    BY <1>1, <2>2, <2>3 DEF Listed, Chains
  <2>5. i # Len(c[b]) => c[b][i + 1] \in DOMAIN entries
    <3>1. c[b] \in Seq(DOMAIN entries)
      BY <1>1, <2>2
    <3> HIDE DEF b
    <3>2. i # Len(c[b]) => i + 1 \in 1 .. Len(c[b])
      BY <2>3, <3>1
    <3> QED BY <3>1, <3>2
  <2>6. entries[h].link \in {0} \cup DOMAIN entries
    BY <2>4, <2>5
  <2> QED BY <2>1, <2>6 DEF Words
<1>3. \A i \in DOMAIN saves : saves[i].word \in DOMAIN entries
  <2> DEFINE Save == [word : DOMAIN entries, property : [class : Classes, explicit : BOOLEAN,
                                                       link : {0} \cup Handles]]
  <2>1. saves \in Seq(Save)
    BY DEF DictionaryInv, SavesTyped
  <2> HIDE DEF Save
  <2>2. \A i \in DOMAIN saves : saves[i] \in Save
    BY <2>1
  <2> QED BY <2>2 DEF Save
<1> QED
  BY <1>2, <1>3 DEF DictionaryOK, DictionaryInv, WordsTyped, SavesTyped

\* A word that heads its bucket or is linked to another is not moved, and only a
\* declaration takes away or gives the flag of a word.
LEMMA StepKeeps ==
  ASSUME DictionaryAssumption, DictionaryInv, [DictionaryNext]_dictionary
  PROVE  /\ \A b \in Buckets : heads[b] # 0 => heads'[b] = heads[b]
         /\ \A h \in DOMAIN entries : entries[h].link # 0 => entries'[h].link = entries[h].link
         /\ \A h \in DOMAIN entries :
              entries'[h].explicit # entries[h].explicit => saves' = saves /\ entries'[h].class = "variable"
<1>0. entries \in [DOMAIN entries -> Words] /\ heads \in [Buckets -> {0} \cup DOMAIN entries]
  BY DEF DictionaryInv, WordsTyped
<1>1. CASE \E n \in Names, h \in Handles : Intern(n, h)
  <2>1. PICK n \in Names, h \in Handles : Intern(n, h)
    BY <1>1
  <2>2. PICK c \in [Buckets -> Seq(DOMAIN entries)] : Listed(c)
    BY DEF DictionaryInv
  <2> DEFINE q == c[Bucket[n]]
             W == With(h, New(n))
  <2>3. Bucket[n] \in Buckets /\ Chain(Bucket[n]) = q
    BY <2>2, Assumed, ChainIs DEF DictionaryInv
  <2>4. h \notin DOMAIN entries /\ heads' = [heads EXCEPT ![Bucket[n]] = IF @ = 0 THEN h ELSE @]
    BY <2>1 DEF Intern
  <2>5. entries' = IF q = <<>> THEN W ELSE [W EXCEPT ![q[Len(q)]].link = h]
    BY <2>1, <2>3, Zenon DEF Intern, Appended
  <2>6. \A g \in DOMAIN entries : g \in DOMAIN W /\ W[g] = entries[g]
    BY <2>4 DEF With
  <2>7. q # <<>> => entries[q[Len(q)]].link = 0 /\ q[Len(q)] \in DOMAIN entries
    <3>1. ASSUME q # <<>> PROVE Len(q) \in DOMAIN q
      BY <2>2, <2>3, <3>1, EmptySeq
    <3> QED BY <2>2, <2>3, <3>1 DEF Listed, Chains
  <2> HIDE DEF q, W
  <2>8. ASSUME NEW g \in DOMAIN entries
        PROVE  entries'[g].explicit = entries[g].explicit /\ (entries[g].link # 0 => entries'[g].link = entries[g].link)
    <3>1. CASE q = <<>>
      BY <2>5, <2>6, <3>1
    <3>2. CASE q # <<>>
      <4> DEFINE last == q[Len(q)]
      <4>1. entries' = [W EXCEPT ![last].link = h] /\ W[last] = entries[last] /\ last \in DOMAIN W
            /\ entries[last] \in Words /\ entries[last].link = 0
        BY <1>0, <2>5, <2>6, <2>7, <3>2
      <4> HIDE DEF last
      <4>2. CASE g # last
        BY <2>6, <4>1, <4>2
      <4>3. CASE g = last
        <5>1. entries'[last] = [entries[last] EXCEPT !.link = h]
          BY <4>1, Zenon
        <5>2. entries'[last].explicit = entries[last].explicit
          BY <4>1, <5>1 DEF Words
        <5> QED BY <4>1, <4>3, <5>2
      <4> QED BY <4>2, <4>3
    <3> QED BY <3>1, <3>2
  <2> QED BY <1>0, <2>3, <2>4, <2>8
<1>2. CASE \E h \in Handles, explicit \in BOOLEAN : Declare(h, explicit)
  BY <1>0, <1>2 DEF Declare, Words
<1>3. ASSUME NEW h \in DOMAIN entries, NEW property, entries' = Exchanged(h, property)
      PROVE  \A g \in DOMAIN entries : entries'[g].link = entries[g].link /\ entries'[g].explicit = entries[g].explicit
  BY <1>0, <1>3 DEF Exchanged, Words
<1>4. CASE \E h \in Handles, class \in {"variable", "undeclared"} : Install(h, class)
  <2>1. PICK h \in Handles, class \in {"variable", "undeclared"} : Install(h, class)
    BY <1>4
  <2> DEFINE property == [class |-> class, explicit |-> FALSE, link |-> 0]
  <2>2. entries' = Exchanged(h, property) /\ h \in DOMAIN entries /\ heads' = heads
    BY <2>1 DEF Install
  <2> HIDE DEF property
  <2> QED BY <1>3, <2>2
<1>5. CASE Reinstate
  <2> DEFINE s == saves[Len(saves)]
  <2>1. entries' = Exchanged(s.word, s.property) /\ heads' = heads /\ saves # <<>>
    BY <1>5 DEF Reinstate
  <2>2. s.word \in DOMAIN entries
    <3>1. DictionaryOK
      BY InvTyped
    <3>2. Len(saves) \in DOMAIN saves
      BY <2>1, EmptySeq DEF DictionaryInv, SavesTyped
    <3> QED BY <3>1, <3>2 DEF DictionaryOK
  <2> HIDE DEF s
  <2> QED BY <1>3, <2>1, <2>2
<1>6. CASE Abandon \/ UNCHANGED dictionary
  BY <1>6 DEF Abandon, dictionary
<1> QED
  BY <1>1, <1>2, <1>4, <1>5, <1>6 DEF DictionaryNext

---------------------------------------------------------------------------
(* The theorems *)

\* Every word is found by its name at its handle, whatever was interned, declared, called or
\* abandoned before; the chains only grow at their ends, and the flag of an explicit
\* declaration survives the calls that bind the word (intern, exchange_binding_class).
THEOREM NamesAreReached == DictionaryAssumption => (DictionarySpec => NamesReachable)
<1> SUFFICES ASSUME DictionaryAssumption PROVE DictionarySpec => NamesReachable
  OBVIOUS
<1>1. DictionaryInv => DictionaryOK /\ Reachable
  BY InvTyped, LookupFinds DEF Reachable
<1>2. DictionaryInv /\ [DictionaryNext]_dictionary =>
        [/\ \A b \in Buckets : heads[b] # 0 => heads'[b] = heads[b]
         /\ \A h \in DOMAIN entries : entries[h].link # 0 => entries'[h].link = entries[h].link]_dictionary
  BY StepKeeps
<1>3. DictionaryInv /\ [DictionaryNext]_dictionary =>
        [\A h \in DOMAIN entries :
           entries'[h].explicit # entries[h].explicit => saves' = saves /\ entries'[h].class = "variable"]_dictionary
  BY StepKeeps
<1>4. DictionarySpec => []DictionaryInv
  BY DictionaryInvariant
<1> QED
  BY <1>1, <1>2, <1>3, <1>4, PTL DEF DictionarySpec, NamesReachable, ChainsGrow, FlagsSurvive

---------------------------------------------------------------------------
(* Function values of the image *)

Value == ({"data", "function", "strip"} \X Nat) \cup Frozen
RecordType == [closure : BOOLEAN, protected : BOOLEAN,
               updater : Value, props : Value, part : Value, frozen : Value]
Remembered == [updater : Nat, part : Value, frozen : Seq(Value)]

FunctionsTyped == /\ functions \in Seq(RecordType) /\ strips \in Seq(Seq(Value))
          /\ born \in Seq(Remembered) /\ touched \in SUBSET Value

\* What a function has as its strip is one of the strips, and an updater that was made is there.
Placed == /\ \A f \in DOMAIN functions : 
               IsStrip(functions[f].frozen) => \E s \in DOMAIN strips : functions[f].frozen = Strip(s)
          /\ \A n \in DOMAIN born : born[n].updater \in DOMAIN functions

FunctionsInv == FunctionsTyped /\ Placed /\ StripsApart /\ UpdatersApply

LEMMA Sorts ==
  /\ \A n, k : Strip(n) = Strip(k) => n = k
  /\ \A n : IsStrip(Strip(n)) /\ ~IsStrip(Function(n)) /\ Strip(n)[2] = n /\ Function(n)[2] = n
  /\ \A n, k : Function(n) = Function(k) => n = k
  /\ ~IsStrip(Undef) /\ ~IsStrip(Bare)
BY DEF Strip, Function, IsStrip, Undef, Bare

LEMMA ValuesTyped ==
  ASSUME FunctionsTyped
  PROVE  /\ Values \subseteq Value
         /\ \A v \in Values : IsStrip(v) => \E s \in DOMAIN strips : v = Strip(s)
BY DEF FunctionsTyped, Values, Value, Undef, Bare, Function, Strip, IsStrip

LEMMA UpdaterTyped ==
  ASSUME FunctionsTyped, NEW f
  PROVE  UpdaterOf(f) \in Value
<1>1. CASE HasRecord(f)
  <2>1. functions[f[2]] \in RecordType
    BY <1>1 DEF HasRecord, FunctionsTyped
  <2>2. functions[f[2]].updater \in Value
    BY <2>1 DEF RecordType
  <2> QED BY <1>1, <2>2 DEF UpdaterOf, Record
<1>2. CASE ~HasRecord(f)
  BY <1>2 DEF UpdaterOf, Undef, Value
<1> QED
  BY <1>1, <1>2

LEMMA FunctionsStart == FunctionsInit => FunctionsInv
<1> SUFFICES ASSUME FunctionsInit PROVE FunctionsInv
  OBVIOUS
<1>1. Function(2) \in Value /\ Undef \in Value
  BY DEF Function, Undef, Value
<1>2. /\ functions = <<[closure |-> FALSE, protected |-> TRUE, updater |-> Function(2), props |-> Undef,
                        part |-> Undef, frozen |-> Undef],
                       [closure |-> FALSE, protected |-> FALSE, updater |-> Undef, props |-> Undef,
                        part |-> Undef, frozen |-> Undef]>>
      /\ strips = <<>> /\ born = <<>> /\ touched = {}
  BY DEF FunctionsInit, Fresh
<1>3. DOMAIN functions = 1 .. 2 /\ \A f \in 1 .. 2 : functions[f].frozen = Undef
  BY <1>2
<1>4. functions \in Seq(RecordType)
  BY <1>1, <1>2 DEF RecordType
<1>5. strips \in Seq(Seq(Value)) /\ born \in Seq(Remembered) /\ touched \in SUBSET Value
  BY <1>2
<1>6. DOMAIN born = {}
  BY <1>2
<1>7. Placed /\ StripsApart /\ UpdatersApply
  BY <1>3, <1>6, Sorts DEF Placed, StripsApart, UpdatersApply
<1> QED
  BY <1>4, <1>5, <1>7 DEF FunctionsInv, FunctionsTyped

---------------------------------------------------------------------------
(* Making functions *)

\* What a sequence put behind another one adds.
LEMMA Appending ==
  ASSUME NEW T, NEW s \in Seq(T), NEW t \in Seq(T)
  PROVE  /\ DOMAIN s \subseteq DOMAIN (s \o t)
         /\ \A i \in DOMAIN s : (s \o t)[i] = s[i]
         /\ \A i \in DOMAIN t : /\ Len(s) + i \in DOMAIN (s \o t) /\ Len(s) + i \notin DOMAIN s
                                /\ (s \o t)[Len(s) + i] = t[i]
         /\ \A k \in DOMAIN (s \o t) : k \in DOMAIN s \/ \E i \in DOMAIN t : k = Len(s) + i
         /\ \A i, j \in DOMAIN t : Len(s) + i = Len(s) + j => i = j
<1>1. /\ DOMAIN s = 1 .. Len(s) /\ DOMAIN t = 1 .. Len(t) /\ Len(s) \in Nat /\ Len(t) \in Nat
      /\ DOMAIN (s \o t) = 1 .. (Len(s) + Len(t))
  OBVIOUS
<1>2. ASSUME NEW k \in DOMAIN (s \o t), k \notin DOMAIN s PROVE \E i \in DOMAIN t : k = Len(s) + i
  <2>1. k - Len(s) \in DOMAIN t /\ k = Len(s) + (k - Len(s))
    BY <1>1, <1>2
  <2> QED BY <2>1
<1>3. \A i, j \in DOMAIN t : Len(s) + i = Len(s) + j => i = j
  BY <1>1
<1> QED
  BY <1>1, <1>2, <1>3

\* The new functions have new strips, each its own, and what is remembered of them is so.
Sound(fs, ss, remembered) ==
  /\ fs \in Seq(RecordType) /\ ss \in Seq(Seq(Value)) /\ remembered \in Seq(Remembered)
  /\ \A i \in DOMAIN fs : \E s \in DOMAIN ss : fs[i].frozen = Strip(Len(strips) + s)
  /\ \A i, j \in DOMAIN fs : fs[i].frozen = fs[j].frozen => i = j
  /\ \A n \in DOMAIN remembered : \E i \in DOMAIN fs, s \in DOMAIN ss :
       /\ remembered[n].updater = Len(functions) + i /\ fs[i].part = remembered[n].part
       /\ fs[i].frozen = Strip(Len(strips) + s) /\ ss[s] = remembered[n].frozen

LEMMA MakesInv ==
  ASSUME FunctionsInv, NEW fs, NEW ss, NEW remembered, Sound(fs, ss, remembered), Makes(fs, ss, remembered)
  PROVE  FunctionsInv'
<1> DEFINE F(i) == Len(functions) + i
           S(i) == Len(strips) + i
           B(i) == Len(born) + i
<1>1. /\ functions' = functions \o fs /\ strips' = strips \o ss /\ born' = born \o remembered
      /\ touched' = touched
  BY DEF Makes
<1>2. /\ functions \in Seq(RecordType) /\ strips \in Seq(Seq(Value)) /\ born \in Seq(Remembered)
      /\ touched \in SUBSET Value
      /\ fs \in Seq(RecordType) /\ ss \in Seq(Seq(Value)) /\ remembered \in Seq(Remembered)
  BY DEF FunctionsInv, FunctionsTyped, Sound
<1>3. FunctionsTyped'
  BY <1>1, <1>2 DEF FunctionsTyped
<1>4. /\ DOMAIN functions \subseteq DOMAIN functions'
      /\ \A f \in DOMAIN functions : functions'[f] = functions[f]
      /\ \A i \in DOMAIN fs : F(i) \in DOMAIN functions' /\ functions'[F(i)] = fs[i]
      /\ \A f \in DOMAIN functions' : f \in DOMAIN functions \/ \E i \in DOMAIN fs : f = F(i)
  BY SMTT(40), <1>1, <1>2, Appending
<1>5. /\ DOMAIN strips \subseteq DOMAIN strips'
      /\ \A s \in DOMAIN strips : strips'[s] = strips[s]
      /\ \A s \in DOMAIN ss : S(s) \in DOMAIN strips' /\ S(s) \notin DOMAIN strips /\ strips'[S(s)] = ss[s]
  <2> DEFINE T == Seq(Value)
  <2>1. strips \in Seq(T) /\ ss \in Seq(T)
    BY <1>2
  <2> HIDE DEF T
  <2> QED BY <1>1, <2>1, Appending
<1>6. /\ \A n \in DOMAIN born : n \in DOMAIN born' /\ born'[n] = born[n]
      /\ \A n \in DOMAIN remembered : born'[B(n)] = remembered[n]
      /\ \A n \in DOMAIN born' : n \in DOMAIN born \/ \E i \in DOMAIN remembered : n = B(i)
  BY SMTT(40), <1>1, <1>2, Appending
<1>7. /\ \A i \in DOMAIN fs : \E s \in DOMAIN ss : fs[i].frozen = Strip(S(s))
      /\ \A i, j \in DOMAIN fs : fs[i].frozen = fs[j].frozen => i = j
      /\ \A n \in DOMAIN remembered : \E i \in DOMAIN fs, s \in DOMAIN ss :
           /\ remembered[n].updater = F(i) /\ fs[i].part = remembered[n].part
           /\ fs[i].frozen = Strip(S(s)) /\ ss[s] = remembered[n].frozen
  BY DEF Sound
<1> HIDE DEF F, S, B
<1>8. ASSUME NEW i \in DOMAIN fs
      PROVE  /\ IsStrip(fs[i].frozen) /\ \E s \in DOMAIN strips' : fs[i].frozen = Strip(s)
             /\ \A f \in DOMAIN functions : functions[f].frozen # fs[i].frozen
  <2>1. PICK s \in DOMAIN ss : fs[i].frozen = Strip(S(s))
    BY <1>7
  <2>2. S(s) \in DOMAIN strips' /\ S(s) \notin DOMAIN strips
    BY <1>5
  <2>3. IsStrip(fs[i].frozen)
    BY <2>1, Sorts
  <2>4. ASSUME NEW f \in DOMAIN functions PROVE functions[f].frozen # fs[i].frozen
    BY <2>1, <2>2, <2>3, Sorts DEF FunctionsInv, Placed
  <2> QED BY <2>1, <2>2, <2>3, <2>4
<1>9. Placed'
  <2>1. ASSUME NEW f \in DOMAIN functions', IsStrip(functions'[f].frozen)
        PROVE  \E s \in DOMAIN strips' : functions'[f].frozen = Strip(s)
    <3>1. CASE f \in DOMAIN functions
      BY <3>1, <2>1, <1>4, <1>5 DEF FunctionsInv, Placed
    <3>2. CASE \E i \in DOMAIN fs : f = F(i)
      BY <3>2, <1>4, <1>8
    <3> QED BY <3>1, <3>2, <1>4
  <2>2. ASSUME NEW n \in DOMAIN born' PROVE born'[n].updater \in DOMAIN functions'
    <3>1. CASE n \in DOMAIN born
      BY <3>1, <1>4, <1>6 DEF FunctionsInv, Placed
    <3>2. CASE \E k \in DOMAIN remembered : n = B(k)
      BY <3>2, <1>4, <1>6, <1>7
    <3> QED BY <3>1, <3>2, <1>6
  <2> QED BY <2>1, <2>2 DEF Placed
<1>10. StripsApart'
  <2>1. ASSUME NEW f \in DOMAIN functions', NEW g \in DOMAIN functions', f # g,
               IsStrip(functions'[f].frozen), functions'[f].frozen = functions'[g].frozen
        PROVE  functions'[f].frozen \in touched'
    <3>1. CASE f \in DOMAIN functions /\ g \in DOMAIN functions
      BY <3>1, <2>1, <1>1, <1>4 DEF FunctionsInv, StripsApart
    <3>2. ASSUME NEW i \in DOMAIN fs, f = F(i) PROVE FALSE
      BY <3>2, <2>1, <1>4, <1>7, <1>8
    <3>3. ASSUME NEW i \in DOMAIN fs, g = F(i) PROVE FALSE
      BY <3>3, <2>1, <1>4, <1>7, <1>8
    <3> QED BY <3>1, <3>2, <3>3, <1>4
  <2> QED BY <2>1 DEF StripsApart
<1>11. UpdatersApply'
  <2>1. ASSUME NEW n \in DOMAIN born',
               {Function(born'[n].updater), functions'[born'[n].updater].frozen} \cap touched' = {}
        PROVE  /\ functions'[born'[n].updater].part = born'[n].part
               /\ \E s \in DOMAIN strips' : /\ functions'[born'[n].updater].frozen = Strip(s)
                                            /\ strips'[s] = born'[n].frozen
    <3>1. CASE n \in DOMAIN born
      <4>1. born'[n] = born[n] /\ born[n].updater \in DOMAIN functions
            /\ functions'[born[n].updater] = functions[born[n].updater]
        BY <3>1, <1>4, <1>6 DEF FunctionsInv, Placed
      <4>2. {Function(born[n].updater), functions[born[n].updater].frozen} \cap touched = {}
        BY <4>1, <2>1, <1>1
      <4>3. /\ functions[born[n].updater].part = born[n].part
            /\ functions[born[n].updater].frozen \in {Strip(s) : s \in DOMAIN strips}
            /\ strips[functions[born[n].updater].frozen[2]] = born[n].frozen
        BY <3>1, <4>2 DEF FunctionsInv, UpdatersApply
      <4>4. PICK s \in DOMAIN strips : functions[born[n].updater].frozen = Strip(s)
        BY <4>3
      <4>5. strips[s] = born[n].frozen
        BY <4>3, <4>4, Sorts
      <4>6. s \in DOMAIN strips' /\ strips'[s] = strips[s]
        BY <1>5
      <4> QED BY <4>1, <4>3, <4>4, <4>5, <4>6
    <3>2. CASE \E k \in DOMAIN remembered : n = B(k)
      BY <3>2, <1>4, <1>5, <1>6, <1>7
    <3> QED BY <3>1, <3>2, <1>6
  <2> QED BY <2>1, Sorts DEF UpdatersApply
<1> QED
  BY <1>3, <1>9, <1>10, <1>11 DEF FunctionsInv

LEMMA PartApplyInv ==
  ASSUME FunctionsInv, NEW f \in Values, NEW x \in Frozen, PARTAPPLY(f, <<x>>)
  PROVE  FunctionsInv'
<1> DEFINE h == Len(functions) + 1
           u == UpdaterOf(f)
           n == Len(strips)
           whole == Fresh(TRUE, Function(h + 1), f, Strip(n + 1))
           updater == Fresh(TRUE, Undef, u, Strip(n + 2))
           alone == Fresh(TRUE, Undef, f, Strip(n + 1))
           kept == [updater |-> h + 1, part |-> u, frozen |-> <<x>>]
<1>1. /\ FunctionsTyped /\ f \in Value /\ x \in Value /\ Undef \in Value
      /\ Len(functions) \in Nat /\ n \in Nat /\ h \in Nat /\ h + 1 \in Nat /\ n + 1 \in Nat /\ n + 2 \in Nat
  BY ValuesTyped DEF FunctionsInv, FunctionsTyped, Value, Undef
<1>2. u \in Value
  BY <1>1, UpdaterTyped
<1>3. Function(h + 1) \in Value /\ Strip(n + 1) \in Value /\ Strip(n + 2) \in Value
  BY <1>1 DEF Function, Strip, Value
<1>4. \/ Fails(12202)
      \/ Makes(<<alone>>, <<<<x>>>>, <<>>)
      \/ Makes(<<whole, updater>>, <<<<x>>, <<x>>>>, <<kept>>)
  BY DEF PARTAPPLY, UpdaterStrip
<1> HIDE DEF h, u, n
<1>5. /\ alone \in RecordType /\ alone.frozen = Strip(n + 1)
      /\ whole \in RecordType /\ whole.frozen = Strip(n + 1)
      /\ updater \in RecordType /\ updater.frozen = Strip(n + 2) /\ updater.part = u
  <2>1. alone \in RecordType /\ alone.frozen = Strip(n + 1)
    BY <1>1, <1>3 DEF Fresh, RecordType
  <2>2. whole \in RecordType /\ whole.frozen = Strip(n + 1)
    BY <1>1, <1>3 DEF Fresh, RecordType
  <2>3. updater \in RecordType /\ updater.frozen = Strip(n + 2) /\ updater.part = u
    BY <1>1, <1>2, <1>3 DEF Fresh, RecordType
  <2> QED BY <2>1, <2>2, <2>3
<1>6. kept \in Remembered /\ kept.updater = h + 1 /\ kept.part = u /\ kept.frozen = <<x>>
  BY <1>1, <1>2 DEF Remembered
<1>7. Strip(n + 1) # Strip(n + 2) /\ h + 1 = Len(functions) + 2
  BY <1>1, Sorts DEF h
<1> HIDE DEF alone, whole, updater, kept
<1>8. Sound(<<alone>>, <<<<x>>>>, <<>>)
  <2>1. <<alone>> \in Seq(RecordType) /\ <<<<x>>>> \in Seq(Seq(Value)) /\ <<>> \in Seq(Remembered)
    BY <1>1, <1>5
  <2>2. 1 \in DOMAIN <<<<x>>>> /\ DOMAIN <<alone>> = {1} /\ <<alone>>[1] = alone
    OBVIOUS
  <2>3. \A i \in DOMAIN <<alone>> : \E s \in DOMAIN <<<<x>>>> : <<alone>>[i].frozen = Strip(Len(strips) + s)
    BY <1>5, <2>2 DEF n
  <2> QED BY <2>1, <2>2, <2>3 DEF Sound
<1>9. Sound(<<whole, updater>>, <<<<x>>, <<x>>>>, <<kept>>)
  <2> DEFINE fs == <<whole, updater>>
             ss == <<<<x>>, <<x>>>>
             rs == <<kept>>
  <2>1. fs \in Seq(RecordType) /\ ss \in Seq(Seq(Value)) /\ rs \in Seq(Remembered)
    BY <1>1, <1>5, <1>6
  <2>2. /\ DOMAIN fs = {1, 2} /\ fs[1] = whole /\ fs[2] = updater
        /\ DOMAIN ss = {1, 2} /\ ss[1] = <<x>> /\ ss[2] = <<x>> /\ DOMAIN rs = {1} /\ rs[1] = kept
    OBVIOUS
  <2> HIDE DEF fs, ss, rs
  <2>3. fs[1].frozen = Strip(Len(strips) + 1) /\ fs[2].frozen = Strip(Len(strips) + 2)
    BY <1>5, <2>2 DEF n
  <2>4. \A i \in DOMAIN fs : \E s \in DOMAIN ss : fs[i].frozen = Strip(Len(strips) + s)
    BY <2>2, <2>3
  <2>5. \A i, j \in DOMAIN fs : fs[i].frozen = fs[j].frozen => i = j
    BY <1>5, <1>7, <2>2
  <2>6. ASSUME NEW k \in DOMAIN rs
        PROVE  /\ rs[k].updater = Len(functions) + 2 /\ fs[2].part = rs[k].part
               /\ fs[2].frozen = Strip(Len(strips) + 2) /\ ss[2] = rs[k].frozen
    BY <1>5, <1>6, <1>7, <2>2, <2>3
  <2>7. \A k \in DOMAIN rs : \E i \in DOMAIN fs, s \in DOMAIN ss :
          /\ rs[k].updater = Len(functions) + i /\ fs[i].part = rs[k].part
          /\ fs[i].frozen = Strip(Len(strips) + s) /\ ss[s] = rs[k].frozen
    <3>1. 2 \in DOMAIN fs /\ 2 \in DOMAIN ss
      BY <2>2
    <3> QED BY <2>6, <3>1
  <2>8. Sound(fs, ss, rs)
    BY <2>1, <2>4, <2>5, <2>7 DEF Sound
  <2> QED BY <2>8 DEF fs, ss, rs
<1>10. CASE Fails(12202)
  BY <1>10 DEF Fails, functional, FunctionsInv, FunctionsTyped, Placed, StripsApart, UpdatersApply
<1> QED
  BY <1>4, <1>8, <1>9, <1>10, MakesInv

LEMMA ComposeInv ==
  ASSUME FunctionsInv, NEW f \in Values, NEW g \in Values, FNCOMP(f, g)
  PROVE  FunctionsInv'
<1> DEFINE n == Len(strips)
           made == Fresh(FALSE, Undef, Bare, Strip(n + 1))
<1>1. /\ f \in Value /\ g \in Value /\ Undef \in Value /\ Bare \in Value
      /\ n \in Nat /\ n + 1 \in Nat
  BY ValuesTyped DEF FunctionsInv, FunctionsTyped, Value, Undef, Bare
<1>2. Strip(n + 1) \in Value
  BY <1>1 DEF Strip, Value
<1>3. Makes(<<made>>, <<<<f, g>>>>, <<>>) \/ Fails(10210)
  BY DEF FNCOMP
<1>4. made \in RecordType /\ made.frozen = Strip(n + 1)
  BY <1>1, <1>2 DEF Fresh, RecordType
<1> HIDE DEF made, n
<1>5. Sound(<<made>>, <<<<f, g>>>>, <<>>)
  <2>1. <<made>> \in Seq(RecordType) /\ <<<<f, g>>>> \in Seq(Seq(Value)) /\ <<>> \in Seq(Remembered)
    BY <1>1, <1>4
  <2>2. 1 \in DOMAIN <<<<f, g>>>> /\ DOMAIN <<made>> = {1} /\ <<made>>[1] = made
    OBVIOUS
  <2>3. \A i \in DOMAIN <<made>> : \E s \in DOMAIN <<<<f, g>>>> : <<made>>[i].frozen = Strip(Len(strips) + s)
    BY <1>4, <2>2 DEF n
  <2> QED BY <2>1, <2>2, <2>3 DEF Sound
<1>6. CASE Fails(10210)
  BY <1>6 DEF Fails, functional, FunctionsInv, FunctionsTyped, Placed, StripsApart, UpdatersApply
<1> QED
  BY <1>3, <1>5, <1>6, MakesInv

---------------------------------------------------------------------------
(* Assigning components *)

\* Reading, and what a diagnostic leaves.
LEMMA StutterInv == ASSUME FunctionsInv, UNCHANGED functional PROVE FunctionsInv'
BY DEF functional, FunctionsInv, FunctionsTyped, Placed, StripsApart, UpdatersApply

\* Another part of a function: neither its strip nor what any strip holds changes.
LEMMA FieldInv ==
  ASSUME FunctionsInv, NEW f \in Values, NEW v \in Values, NEW field \in {"updater", "props", "part"},
         AssignField(field, f, v)
  PROVE  FunctionsInv'
<1>1. CASE \E error : Fails(error)
  BY <1>1, StutterInv DEF Fails
<1>2. CASE /\ f[2] \in DOMAIN functions /\ IsFunction(f)
           /\ Assigns([functions EXCEPT ![f[2]][field] = v], strips, {f})
  <2>1. /\ functions \in Seq(RecordType) /\ strips \in Seq(Seq(Value)) /\ born \in Seq(Remembered)
        /\ touched \in SUBSET Value /\ v \in Value /\ f \in Value
    BY ValuesTyped DEF FunctionsInv, FunctionsTyped
  <2>2. /\ functions' = [functions EXCEPT ![f[2]][field] = v] /\ strips' = strips
        /\ born' = born /\ touched' = touched \cup {f}
    BY <1>2 DEF Assigns
  <2>3. functions[f[2]] \in RecordType
    BY <1>2, <2>1
  <2> DEFINE r == [functions[f[2]] EXCEPT ![field] = v]
  <2>4. r \in RecordType /\ r.frozen = functions[f[2]].frozen
    BY <2>1, <2>3 DEF RecordType
  <2>5. functions' = [functions EXCEPT ![f[2]] = r]
    BY <2>2
  <2> HIDE DEF r
  <2>6. /\ functions' \in Seq(RecordType) /\ DOMAIN functions' = DOMAIN functions
        /\ \A g \in DOMAIN functions : functions'[g].frozen = functions[g].frozen
        /\ \A g \in DOMAIN functions : g # f[2] => functions'[g] = functions[g]
    BY <2>1, <2>4, <2>5, <1>2
  <2>7. f = Function(f[2])
    BY <1>2 DEF IsFunction, Values, Function, Strip, Undef, Bare
  <2>8. FunctionsTyped'
    BY <2>1, <2>2, <2>6 DEF FunctionsTyped
  <2>9. Placed' /\ StripsApart'
    BY <2>2, <2>6 DEF FunctionsInv, Placed, StripsApart
  <2>10. UpdatersApply'
    <3> SUFFICES ASSUME NEW n \in DOMAIN born,
                        {Function(born[n].updater), functions'[born[n].updater].frozen} \cap touched' = {}
                 PROVE  /\ functions'[born[n].updater].part = born[n].part
                        /\ functions'[born[n].updater].frozen \in {Strip(s) : s \in DOMAIN strips'}
                        /\ strips'[functions'[born[n].updater].frozen[2]] = born[n].frozen
      BY <2>2 DEF UpdatersApply
    <3>1. born[n].updater \in DOMAIN functions /\ born[n].updater # f[2]
      BY <2>2, <2>7 DEF FunctionsInv, Placed
    <3>2. functions'[born[n].updater] = functions[born[n].updater]
      BY <2>6, <3>1
    <3> QED BY <2>2, <3>2 DEF FunctionsInv, UpdatersApply
  <2> QED BY <2>8, <2>9, <2>10 DEF FunctionsInv
<1> QED
  BY <1>1, <1>2 DEF AssignField, Assignable, HasRecord

\* The strip as a whole is assigned: the program has given it.
LEMMA WholeInv ==
  ASSUME FunctionsInv, NEW f \in Values, NEW v \in Values, HasRecord(f),
         Assigns([functions EXCEPT ![f[2]].frozen = v], strips, {f, v})
  PROVE  FunctionsInv'
<1>1. /\ functions \in Seq(RecordType) /\ strips \in Seq(Seq(Value)) /\ born \in Seq(Remembered)
      /\ touched \in SUBSET Value /\ v \in Value /\ f \in Value
  BY ValuesTyped DEF FunctionsInv, FunctionsTyped
<1>2. /\ functions' = [functions EXCEPT ![f[2]].frozen = v] /\ strips' = strips
      /\ born' = born /\ touched' = touched \cup {f, v}
  BY DEF Assigns
<1>3. f[2] \in DOMAIN functions /\ functions[f[2]] \in RecordType
  BY <1>1 DEF HasRecord
<1> DEFINE r == [functions[f[2]] EXCEPT !.frozen = v]
<1>4. r \in RecordType /\ r.frozen = v
  BY <1>1, <1>3 DEF RecordType
<1>5. functions' = [functions EXCEPT ![f[2]] = r]
  BY <1>2
<1> HIDE DEF r
<1>6. /\ functions' \in Seq(RecordType) /\ DOMAIN functions' = DOMAIN functions
      /\ functions'[f[2]].frozen = v
      /\ \A g \in DOMAIN functions : g # f[2] => functions'[g] = functions[g]
  BY <1>1, <1>3, <1>4, <1>5
<1>7. f = Function(f[2])
  BY DEF HasRecord, IsFunction, Values, Function, Strip, Undef, Bare
<1>8. FunctionsTyped'
  BY <1>1, <1>2, <1>6 DEF FunctionsTyped
<1>9. Placed'
  <2>1. IsStrip(v) => \E s \in DOMAIN strips : v = Strip(s)
    BY ValuesTyped DEF FunctionsInv
  <2> QED BY <1>2, <1>6, <2>1 DEF FunctionsInv, Placed
<1>10. StripsApart'
  <2> SUFFICES ASSUME NEW g \in DOMAIN functions, NEW h \in DOMAIN functions, g # h,
                      IsStrip(functions'[g].frozen), functions'[g].frozen = functions'[h].frozen
               PROVE  functions'[g].frozen \in touched'
    BY <1>6 DEF StripsApart
  <2>1. CASE g = f[2] \/ h = f[2]
    BY <2>1, <1>2, <1>6
  <2>2. CASE g # f[2] /\ h # f[2]
    BY <2>2, <1>2, <1>6 DEF FunctionsInv, StripsApart
  <2> QED BY <2>1, <2>2
<1>11. UpdatersApply'
  <2> SUFFICES ASSUME NEW n \in DOMAIN born,
                      {Function(born[n].updater), functions'[born[n].updater].frozen} \cap touched' = {}
               PROVE  /\ functions'[born[n].updater].part = born[n].part
                      /\ functions'[born[n].updater].frozen \in {Strip(s) : s \in DOMAIN strips'}
                      /\ strips'[functions'[born[n].updater].frozen[2]] = born[n].frozen
    BY <1>2 DEF UpdatersApply
  <2>1. born[n].updater \in DOMAIN functions /\ born[n].updater # f[2]
    BY <1>2, <1>7 DEF FunctionsInv, Placed
  <2>2. functions'[born[n].updater] = functions[born[n].updater]
    BY <1>6, <2>1
  <2> QED BY <1>2, <2>2 DEF FunctionsInv, UpdatersApply
<1> QED
  BY <1>8, <1>9, <1>10, <1>11 DEF FunctionsInv

\* A component of the strip: another function that has the strip was given it.
LEMMA ComponentInv ==
  ASSUME FunctionsInv, NEW f \in Values, NEW v \in Values, NEW i, HasRecord(f),
         Subscripted(i, Record(f).frozen),
         Assigns(functions, [strips EXCEPT ![Record(f).frozen[2]][i] = v], {f})
  PROVE  FunctionsInv'
<1> DEFINE x == functions[f[2]].frozen
           t == x[2]
<1>1. /\ functions \in Seq(RecordType) /\ strips \in Seq(Seq(Value)) /\ born \in Seq(Remembered)
      /\ touched \in SUBSET Value /\ v \in Value /\ f \in Value
  BY ValuesTyped DEF FunctionsInv, FunctionsTyped
<1>2. /\ functions' = functions /\ strips' = [strips EXCEPT ![t][i] = v]
      /\ born' = born /\ touched' = touched \cup {f}
  BY DEF Assigns, Record
<1>3. f[2] \in DOMAIN functions /\ IsStrip(x) /\ t \in DOMAIN strips /\ i \in DOMAIN strips[t]
  BY DEF HasRecord, Subscripted, Record
<1>4. x = Strip(t)
  BY <1>3, Sorts DEF FunctionsInv, Placed
<1>5. f = Function(f[2])
  BY DEF HasRecord, IsFunction, Values, Function, Strip, Undef, Bare
<1> DEFINE w == [strips[t] EXCEPT ![i] = v]
<1>6. w \in Seq(Value)
  BY SMTT(40), <1>1, <1>3
<1>7. strips' = [strips EXCEPT ![t] = w]
  BY <1>2
<1> HIDE DEF w, t, x
<1>8. /\ strips' \in Seq(Seq(Value)) /\ DOMAIN strips' = DOMAIN strips
      /\ \A s \in DOMAIN strips : s # t => strips'[s] = strips[s]
  <2> DEFINE T == Seq(Value)
  <2>1. strips \in Seq(T) /\ w \in T
    BY <1>1, <1>6
  <2> HIDE DEF T
  <2>2. strips' \in Seq(T) /\ DOMAIN strips' = DOMAIN strips
    BY <1>3, <1>7, <2>1
  <2>3. \A s \in DOMAIN strips : s # t => strips'[s] = strips[s]
    BY <1>3, <1>7, <2>1
  <2> QED BY <2>2, <2>3 DEF T
<1>9. FunctionsTyped'
  BY <1>1, <1>2, <1>8 DEF FunctionsTyped
<1>10. Placed' /\ StripsApart'
  BY <1>2, <1>8 DEF FunctionsInv, Placed, StripsApart
<1>11. UpdatersApply'
  <2> SUFFICES ASSUME NEW n \in DOMAIN born,
                      {Function(born[n].updater), functions[born[n].updater].frozen} \cap touched' = {}
               PROVE  /\ functions[born[n].updater].part = born[n].part
                      /\ functions[born[n].updater].frozen \in {Strip(s) : s \in DOMAIN strips'}
                      /\ strips'[functions[born[n].updater].frozen[2]] = born[n].frozen
    BY <1>2 DEF UpdatersApply
  <2>1. born[n].updater \in DOMAIN functions /\ born[n].updater # f[2]
    BY <1>2, <1>5 DEF FunctionsInv, Placed
  <2>2. /\ functions[born[n].updater].part = born[n].part
        /\ functions[born[n].updater].frozen \in {Strip(s) : s \in DOMAIN strips}
        /\ strips[functions[born[n].updater].frozen[2]] = born[n].frozen
    BY <1>2 DEF FunctionsInv, UpdatersApply
  <2>3. PICK s \in DOMAIN strips : functions[born[n].updater].frozen = Strip(s)
    BY <2>2
  <2>4. s # t
    <3>1. SUFFICES ASSUME s = t PROVE FALSE
      OBVIOUS
    <3>2. functions[born[n].updater].frozen = functions[f[2]].frozen
      BY <1>4, <2>3, <3>1 DEF x
    <3>3. functions[born[n].updater].frozen \in touched
      BY <1>3, <2>1, <3>2 DEF FunctionsInv, StripsApart, x
    <3> QED BY <1>2, <3>3
  <2>5. strips'[s] = strips[s] /\ functions[born[n].updater].frozen[2] = s
    BY <1>8, <2>3, <2>4, Sorts
  <2> QED BY <1>8, <2>2, <2>5
<1> QED
  BY <1>9, <1>10, <1>11 DEF FunctionsInv

LEMMA FunctionsStep == FunctionsInv /\ [FunctionsNext]_functional => FunctionsInv'
<1> SUFFICES ASSUME FunctionsInv, [FunctionsNext]_functional PROVE FunctionsInv'
  OBVIOUS
<1>1. ASSUME NEW f \in Values, NEW x \in Frozen, PARTAPPLY(f, <<x>>) PROVE FunctionsInv'
  BY <1>1, PartApplyInv
<1>2. ASSUME NEW f \in Values, NEW g \in Values, FNCOMP(f, g) PROVE FunctionsInv'
  BY <1>2, ComposeInv
<1>3. ASSUME NEW f \in Values, UPDATER(f) \/ FNPROPS(f) \/ FNPART(f) PROVE FunctionsInv'
  BY <1>3, StutterInv DEF UPDATER, FNPROPS, FNPART, Inspects, Fails
<1>4. ASSUME NEW f \in Values, NEW i \in {1, 2, Whole}, FROZVAL(i, f) PROVE FunctionsInv'
  BY <1>4, StutterInv DEF FROZVAL, Inspects, Fails
<1>5. ASSUME NEW f \in Values, NEW i \in {1, 2, Whole}, NEW v \in Values, AssignFrozen(i, f, v) PROVE FunctionsInv'
  <2>1. CASE \E error : Fails(error)
    BY <2>1, StutterInv DEF Fails
  <2>2. CASE HasRecord(f) /\ Assigns([functions EXCEPT ![f[2]].frozen = v], strips, {f, v})
    BY <2>2, WholeInv
  <2>3. CASE /\ HasRecord(f) /\ Subscripted(i, Record(f).frozen)
             /\ Assigns(functions, [strips EXCEPT ![Record(f).frozen[2]][i] = v], {f})
    BY <2>3, ComponentInv
  <2> QED BY <1>5, <2>1, <2>2, <2>3 DEF AssignFrozen, Assignable
<1>6. ASSUME NEW f \in Values, NEW v \in Values, NEW field \in {"updater", "props", "part"},
             AssignField(field, f, v)
      PROVE  FunctionsInv'
  BY <1>6, FieldInv
<1>7. CASE UNCHANGED functional
  BY <1>7, StutterInv
<1> QED
  BY <1>1, <1>2, <1>3, <1>4, <1>5, <1>6, <1>7 DEF FunctionsNext

LEMMA FunctionsInvariant == FunctionsSpec => []FunctionsInv
BY FunctionsStart, FunctionsStep, PTL DEF FunctionsSpec

\* Whatever is assigned to functions, compositions and partial applications, an updater made by
\* PARTAPPLY applies what it did when it was made, unless it or its strip was given to a function.
THEOREM UpdatersKeep == FunctionsSpec => []UpdatersStand
<1>1. FunctionsInv => UpdatersStand
  BY DEF FunctionsInv, UpdatersStand
<1> QED BY <1>1, FunctionsInvariant, PTL

\* Two functions share a strip only if the program gave it to one of them.
THEOREM StripsStayApart == FunctionsSpec => []StripsApart
<1>1. FunctionsInv => StripsApart
  BY DEF FunctionsInv
<1> QED BY <1>1, FunctionsInvariant, PTL
=============================================================================
