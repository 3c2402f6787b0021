---------------------------- MODULE AbstractHeap ----------------------------
(***************************************************************************)
(* What the reference compiler's storage allocator promises its callers,   *)
(* whatever lists it keeps: words First..Limit-1 are handed out in blocks, *)
(* and no word belongs to two blocks at once.                              *)
(***************************************************************************)
EXTENDS Naturals

CONSTANTS First, Limit

VARIABLE owned  \* the blocks callers hold

Block == [address : First..(Limit - 1), words : 1..(Limit - First)]
Extent(b) == b.address..(b.address + b.words - 1)
Overlap(b, c) == Extent(b) \cap Extent(c) # {}

Init == owned = {}

\* A block of words nobody holds is handed out.
Acquire(b) == /\ Extent(b) \subseteq First..(Limit - 1)
              /\ \A c \in owned : ~Overlap(b, c)
              /\ owned' = owned \cup {b}

\* Blocks are given back, one by a release or many by a collection.
Reclaim(B) == /\ B \subseteq owned
              /\ owned' = owned \ B

Next == (\E b \in Block : Acquire(b)) \/ (\E B \in SUBSET owned : Reclaim(B))

Spec == Init /\ [][Next]_owned
=============================================================================
