--------------------------- MODULE NativeAllocator ---------------------------
(***************************************************************************)
(* NativeAllocator of the hybrid runtime (src/poplan.cpp): the free lists  *)
(* of the reference compiler's storage.  Small sizes have exact-size       *)
(* chains used first in, last out; everything else is taken from the high  *)
(* end of the first sufficient extent of the common list.  Nothing is ever *)
(* merged; a collection rebuilds the common list from the gaps between the *)
(* marked blocks and forgets the chains.  A gap that no marked block ends  *)
(* below the last whole word of the mark bitmap is lost until a later      *)
(* collection.                                                             *)
(***************************************************************************)
EXTENDS Naturals, Sequences, FiniteSets

CONSTANTS First, Limit,  \* the arena is First..Limit-1
          SmallLimit,    \* sizes below it have chains of their own (021)
          BitmapWord     \* storage words per word of the mark bitmap (48)

ASSUME ArenaAssumption == First \in Nat \ {0} /\ Limit \in Nat /\ First <= Limit
ASSUME SizesAssumption == SmallLimit \in Nat \ {0} /\ BitmapWord \in Nat \ {0}

VARIABLES live,        \* blocks handed out
          common,      \* the common list of free extents
          small,       \* size -> the chain of free blocks of that size
          unavailable  \* gaps the last collection could not link

heap == <<live, common, small, unavailable>>

Arena == First..(Limit - 1)
Block == [address : Arena, words : 1..(Limit - First)]
Extent(b) == b.address..(b.address + b.words - 1)
Image(q) == {q[k] : k \in DOMAIN q}
SmallSizes == 1..(SmallLimit - 1)

\* Every list the allocator keeps holds blocks inside the arena, of at least one word.
TypeOK == /\ live \in SUBSET Block
          /\ common \in Seq(Block)
          /\ small \in [SmallSizes -> Seq(Block)]
          /\ unavailable \in SUBSET Block

Init == /\ live = {}
        /\ common = IF First = Limit THEN <<>>
                    ELSE <<[address |-> First, words |-> Limit - First]>>
        /\ small = [n \in SmallSizes |-> <<>>]
        /\ unavailable = {}

---------------------------------------------------------------------------
(* try_allocate(n), returning block r *)

Chained(n) == n \in SmallSizes /\ small[n] # <<>>

FromChain(n, r) ==
  /\ Chained(n)
  /\ r = Head(small[n])
  /\ small' = [small EXCEPT ![n] = Tail(@)]
  /\ live' = live \cup {r}
  /\ UNCHANGED <<common, unavailable>>

Without(q, k) == [i \in 1..(Len(q) - 1) |-> IF i < k THEN q[i] ELSE q[i + 1]]

\* The list once n words are cut from its k-th extent.
Shrunk(q, k, n) ==
  IF q[k].words = n THEN Without(q, k)
  ELSE [q EXCEPT ![k] = [address |-> @.address, words |-> @.words - n]]

FirstFit(n, k) == /\ k \in DOMAIN common /\ common[k].words >= n
                  /\ \A j \in 1..(k - 1) : common[j].words < n

\* Mutation: the block is cut from the low end, the extent keeps its address.
CutLow(extent, n) == [address |-> extent.address, words |-> n]

\* The high end of an extent.
Cut(extent, n) == [address |-> extent.address + (extent.words - n), words |-> n]

FromCommon(n, r) ==
  /\ n > 0 /\ ~Chained(n)
  /\ \E k \in DOMAIN common :
       /\ FirstFit(n, k)
       /\ r = Cut(common[k], n)
       /\ common' = Shrunk(common, k, n)
  /\ live' = live \cup {r}
  /\ UNCHANGED <<small, unavailable>>

TryAllocate(n, r) == FromChain(n, r) \/ FromCommon(n, r)

\* Status collection_required.
CannotAllocate(n) ==
  n > 0 /\ ~Chained(n) /\ \A k \in DOMAIN common : common[k].words < n

---------------------------------------------------------------------------
(* release(b) *)

LiveAfter(b) == live \ {b}

Release(b) ==
  /\ b \in live
  /\ live' = LiveAfter(b)
  /\ IF b.words \in SmallSizes
     THEN /\ small' = [small EXCEPT ![b.words] = <<b>> \o @]
          /\ UNCHANGED common
     ELSE /\ common' = <<b>> \o common
          /\ UNCHANGED small
  /\ UNCHANGED unavailable

---------------------------------------------------------------------------
(* collect(marked): M are the live blocks at the marked addresses *)

Words(B) == UNION {Extent(b) : b \in B}

\* The maximal runs of words no block of M covers.
Gaps(M) == {g \in Block :
              /\ Extent(g) \subseteq Arena \ Words(M)
              /\ g.address = First \/ g.address - 1 \in Words(M)
              /\ g.address + g.words = Limit \/ g.address + g.words \in Words(M)}

\* A gap is linked when the marked word that ends it is scanned.
ScanEnd == (Limit \div BitmapWord) * BitmapWord
Linked(M) == {g \in Gaps(M) : g.address + g.words \in Words(M)
                                /\ g.address + g.words < ScanEnd}

\* In address order.
Ascending(B) ==
  {q \in [1..Cardinality(B) -> B] :
     /\ Image(q) = B
     /\ \A i, j \in 1..Cardinality(B) : i < j => q[i].address < q[j].address}

\* Mutation: the chains survive although their blocks are gaps now.
ChainsKept == small

ChainsAfter == [n \in SmallSizes |-> <<>>]

Collect(M) ==
  /\ M \subseteq live
  /\ live' = M
  /\ \E q \in Ascending(Linked(M)) : common' = q
  /\ small' = ChainsAfter
  /\ unavailable' = Gaps(M) \ Linked(M)

---------------------------------------------------------------------------
Next == \/ \E n \in 1..(Limit - First), r \in Block : TryAllocate(n, r)
        \/ \E b \in live : Release(b)
        \/ \E M \in SUBSET live : Collect(M)

Spec == Init /\ [][Next]_heap

---------------------------------------------------------------------------
(* Properties *)

Listed(s) == UNION {Image(s[n]) : n \in SmallSizes}
Chains == Listed(small)
Blocks == live \cup Image(common) \cup Chains \cup unavailable

Distinct(q) == \A i, j \in DOMAIN q : q[i] = q[j] => i = j

\* Every block is on exactly one list, once, and a chain holds its own size.
EachOnce == /\ Distinct(common)
            /\ \A n \in SmallSizes : /\ Distinct(small[n])
                                     /\ \A b \in Image(small[n]) : b.words = n
            /\ live \cap (Image(common) \cup Chains \cup unavailable) = {}
            /\ Image(common) \cap (Chains \cup unavailable) = {}
            /\ Chains \cap unavailable = {}

Disjoint(B) == \A b, c \in B : b # c => Extent(b) \cap Extent(c) = {}

\* The words of the arena are divided among the blocks: none is lost, none is
\* in two blocks, after any sequence of allocations, releases and collections.
Partition == /\ EachOnce
             /\ Disjoint(Blocks)
             /\ Words(Blocks) = Arena

Heap == INSTANCE AbstractHeap WITH owned <- live
\* The free lists implement a heap that never hands out a held word.
ImplementsHeap == Heap!Spec
=============================================================================
