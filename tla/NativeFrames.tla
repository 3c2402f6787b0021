------------------------------ MODULE NativeFrames ------------------------------
(***************************************************************************)
(* The frame store of the hybrid runtime (src/poplan.cpp): how many words  *)
(* the activations of a program hold, and the reads that would have fallen *)
(* on the collision watchpoint of the historical machine, which ends the   *)
(* program with diagnostic 13000.  What a call binds is in NativeClosures; *)
(* here a callee is the sequence of its slots.                             *)
(*                                                                         *)
(* With Limit = 0 the store has Capacity words; otherwise calls are        *)
(* limited in number and the store is not (options_.activation_limit).     *)
(***************************************************************************)
EXTENDS Naturals, Sequences

CONSTANTS Capacity,      \* 067000 - 066001: the watched word, from the start of the store
          Shapes,        \* the slots of the callees: sequences of [argument, result]
          MaxArguments,  \* arguments a call rebuilds
          Limit

Slot == [argument : BOOLEAN, result : BOOLEAN]

ASSUME FramesAssumption == /\ Capacity \in Nat /\ Capacity % 2 = 1 /\ Capacity >= 3
                           /\ Shapes \subseteq Seq(Slot)
                           /\ MaxArguments \in Nat /\ Limit \in Nat

VARIABLES frames,     \* accounting_frames_, outermost first: [cost, callee]
          words,      \* activation_words_
          peak,       \* activation_peak_
          exhausted   \* last_exhaustion_: the phase it names, or "none"

vars == <<frames, words, peak, exhausted>>

Highest(S) == CHOOSE x \in S : \A y \in S : y <= x
Front(q) == SubSeq(q, 1, Len(q) - 1)

\* Words held once the slots from i on are saved: two for the function and the return
\* link, two for each binding.
Saved(slots, i) == 2 + 2 * (Len(slots) + 1 - i)

\* Mutation: a result is restored before any binding is.
CostExitTop(slots) ==
  LET held == Saved(slots, 1)
      borrowed(used) == {held} \cup {Saved(slots, i) + 3 : i \in used}
  IN [retained |-> held,
      entry |-> Highest(borrowed({i \in DOMAIN slots : slots[i].argument})),
      exit |-> Highest(borrowed({i \in {1} : \E j \in DOMAIN slots : slots[j].result}))]

\* native_binding_frame_cost: an argument or a result borrows three words above what is
\* saved when it is installed or restored.
Cost(slots) ==
  LET held == Saved(slots, 1)
      borrowed(used) == {held} \cup {Saved(slots, i) + 3 : i \in used}
  IN [retained |-> held,
      entry |-> Highest(borrowed({i \in DOMAIN slots : slots[i].argument})),
      exit |-> Highest(borrowed({i \in DOMAIN slots : slots[i].result}))]

TopCost == [retained |-> 3, entry |-> 3, exit |-> 3]

Init == frames = <<>> /\ words = 0 /\ peak = 0 /\ exhausted = "none"

\* enter_frame: the peak of the entry must fit.
Fits(cost) == IF Limit > 0 THEN Len(frames) <= Limit ELSE words + cost.entry <= Capacity

Enter(cost, callee) ==
               /\ frames' = Append(frames, [cost |-> cost, callee |-> callee])
               /\ words' = words + cost.retained
               /\ peak' = Highest({peak, words + cost.entry})

\* unwind_frames: the charges go, nothing is borrowed.
Unwound == frames' = <<>> /\ words' = 0

\* execute() of a compiled statement.
Start == /\ frames = <<>> /\ Fits(TopCost) /\ Enter(TopCost, <<>>)
         /\ exhausted' = "none"

\* Where, when slot i is being bound, the words above the saved ones are read, in order.
Reads(slots, i) ==
  LET base == words + Saved(slots, i)
  IN <<[at |-> base, phase |-> "binding_target"], [at |-> base + 3, phase |-> "binding_value"],
       [at |-> base + 2, phase |-> "binding_count"], [at |-> base + 1, phase |-> "binding_table"]>>

\* The watched word is read when slot i is bound.
Trapped(slots, i) == /\ Limit = 0 /\ slots[i].argument
                     /\ \E k \in 1..4 : Reads(slots, i)[k].at = Capacity

\* The slots are bound from the last to the first.
FirstTrapped(slots, i) == /\ Trapped(slots, i)
                          /\ \A j \in i + 1..Len(slots) : ~Trapped(slots, j)

PeakBinding(slots, i) ==
  Highest({peak} \cup {words + Saved(slots, j) + 3 : j \in {k \in i..Len(slots) : slots[k].argument}})

\* Mutation: the frame is entered whether or not it fits.
CallUnchecked(slots) ==
  /\ frames # <<>> /\ \A i \in DOMAIN slots : ~Trapped(slots, i)
  /\ Enter(Cost(slots), slots) /\ UNCHANGED exhausted

Call(slots) ==
  /\ frames # <<>> /\ (Limit > 0 => Len(frames) <= Limit)
  /\ \A i \in DOMAIN slots : ~Trapped(slots, i)
  /\ Fits(Cost(slots)) /\ Enter(Cost(slots), slots)
  /\ UNCHANGED exhausted

\* A call that ends the program: the activation limit, the watched word, an operand
\* missing for slot i, or a frame that does not fit though no read was trapped.
CallFails(slots) ==
  /\ frames # <<>>
  /\ \/ Limit > 0 /\ Len(frames) > Limit /\ UNCHANGED <<peak, exhausted>>
     \/ \E i \in DOMAIN slots :
          /\ FirstTrapped(slots, i)
          /\ peak' = PeakBinding(slots, i)
          /\ LET R == Reads(slots, i)
             IN exhausted' = R[CHOOSE k \in 1..4 : R[k].at = Capacity].phase
     \/ \E i \in DOMAIN slots :
          /\ slots[i].argument /\ \A j \in i + 1..Len(slots) : ~Trapped(slots, j)
          /\ peak' = PeakBinding(slots, i) /\ UNCHANGED exhausted
     \/ /\ \A i \in DOMAIN slots : ~Trapped(slots, i)
        /\ ~Fits(Cost(slots))
        /\ peak' = PeakBinding(slots, 1) /\ UNCHANGED exhausted
  /\ Unwound

\* leave_frame: the peak of the restoration must fit.
LeaveFits(cost) == Limit > 0 \/ words - cost.retained + cost.exit <= Capacity

Return ==
  LET cost == frames[Len(frames)].cost
      base == words - cost.retained
  IN /\ Len(frames) > 1 /\ LeaveFits(cost)
     /\ peak' = Highest({peak, base + cost.exit})
     /\ words' = base /\ frames' = Front(frames)
     /\ UNCHANGED exhausted

ReturnFails == /\ Len(frames) > 1 /\ ~LeaveFits(frames[Len(frames)].cost)
               /\ Unwound /\ UNCHANGED <<peak, exhausted>>

\* native_rebuild_exhaustion: the reads of rebuilding n arguments, in order.
RebuildReads(n) ==
  <<[at |-> words + n + 4, phase |-> "rebuild_extent"]>>
  \o [i \in 1..n |-> [at |-> words + i, phase |-> "rebuild_argument"]]
  \o <<[at |-> words + n + 3, phase |-> "rebuild_restore"],
       [at |-> words + n + 2, phase |-> "rebuild_continuation"]>>

\* native_argument_frame_cost
RebuildPeak(n) == n + 4

\* Mutation: the copy of the arguments is not watched.
RebuildTrappedEnds(n) ==
  Limit = 0 /\ Capacity \in {words + n + 4, words + n + 3, words + n + 2}

RebuildTrapped(n) == /\ Limit = 0
                     /\ \E k \in DOMAIN RebuildReads(n) : RebuildReads(n)[k].at = Capacity

Rebuild(n) == /\ frames # <<>> /\ n > 0 /\ ~RebuildTrapped(n)
              /\ peak' = IF Limit > 0 THEN peak ELSE Highest({peak, words + RebuildPeak(n)})
              /\ UNCHANGED <<frames, words, exhausted>>

RebuildFails(n) ==
  /\ frames # <<>> /\ n > 0 /\ RebuildTrapped(n)
  /\ LET R == RebuildReads(n)
         first == CHOOSE k \in DOMAIN R : /\ R[k].at = Capacity
                                          /\ \A j \in 1..k - 1 : R[j].at # Capacity
     IN exhausted' = R[first].phase
  /\ Unwound /\ UNCHANGED peak

\* The end of the statement, SETPOP, a diagnostic or an unported facility.
Finish == frames # <<>> /\ Unwound /\ UNCHANGED <<peak, exhausted>>

Next == \/ Start \/ Return \/ ReturnFails \/ Finish
        \/ \E slots \in Shapes : Call(slots) \/ CallFails(slots)
        \/ \E n \in 1..MaxArguments : Rebuild(n) \/ RebuildFails(n)

Spec == Init /\ [][Next]_vars

---------------------------------------------------------------------------
(* Properties *)

BindingPhases == {"binding_target", "binding_value", "binding_count", "binding_table"}
RebuildPhases == {"rebuild_extent", "rebuild_argument", "rebuild_restore", "rebuild_continuation"}

\* The frames are costs of callees below the one of the statement.
TypeOK == /\ words \in Nat /\ peak \in Nat
          /\ frames \in Seq([cost : [retained : Nat, entry : Nat, exit : Nat],
                             callee : Shapes \cup {<<>>}])
          /\ frames # <<>> => frames[1].cost = TopCost
          /\ exhausted \in {"none"} \cup BindingPhases \cup RebuildPhases

\* activation_words_ is what the frames left on the ledger hold, however they were
\* entered, left or abandoned; historically it never passes the watched word.
Balanced == LET held[i \in 0..Len(frames)] ==
                  IF i = 0 THEN 0 ELSE held[i - 1] + frames[i].cost.retained
            IN words = held[Len(frames)] /\ (Limit = 0 => words <= Capacity)

\* Three words for the statement and an even number for each call: only the read of the
\* target (03230) and of the slot count can fall on the watched word while a call binds
\* its arguments, the phases whose value is rendered.
OddBase == /\ frames # <<>> => words % 2 = 1
           /\ exhausted \notin {"binding_value", "binding_table"}

\* The reads of a rebuild of n arguments are watched one by one, and of the n + 4 words
\* it uses one, the (n + 1)st, is only written: what goes on has needed more than the
\* Capacity only if the store was exactly full or ended at that word.
OvershootOnlyUnread ==
  [][Limit = 0 /\ frames' # <<>> /\ peak' > Capacity
       => \/ peak > Capacity \/ words = Capacity
          \/ \E n \in 1..MaxArguments : peak' = words + n + 4 /\ words + n + 1 = Capacity]_vars

\* A call fails in a phase that has not been ported only when the bindings themselves do
\* not fit: if it is the three words an argument borrows that pass the watched word, one
\* of their reads falls on it.
UnportedOnlyWhenFull ==
  \A slots \in Shapes :
    Limit = 0 /\ frames # <<>> /\ (\A i \in DOMAIN slots : ~Trapped(slots, i))
      => (Fits(Cost(slots)) <=> words + Cost(slots).retained <= Capacity)

\* A return finds no room only in a function whose first result comes before its first
\* argument: any other needs for its restoration no more than it had for its entry.
LateFailure ==
  LET top == frames[Len(frames)]
  IN Len(frames) > 1 /\ ~LeaveFits(top.cost) =>
       \E i \in DOMAIN top.callee : /\ top.callee[i].result
                                    /\ \A j \in 1..i : ~top.callee[j].argument

\* activation_words_ is what the frames on the ledger hold; its parity keeps some reads
\* unwatched; and a call or a return fails only where its bindings or its results do not
\* fit (enter_frame, leave_frame).
LedgerBalanced == TypeOK /\ Balanced /\ OddBase /\ UnportedOnlyWhenFull /\ LateFailure
=============================================================================
