----------------------- MODULE NativeAllocator_proofs -----------------------
(***************************************************************************)
(* Proofs about NativeAllocator for every arena, size limit and bitmap     *)
(* word: its types, the partition of the arena, and that it implements     *)
(* AbstractHeap.                                                           *)
(***************************************************************************)
EXTENDS NativeAllocator, OrderFacts

---------------------------------------------------------------------------
(* Sequences without repetition, as lists of blocks *)

\* Taking the head of a list without repetition takes one block.
LEMMA TailList ==
  ASSUME NEW S, NEW q \in Seq(S), q # <<>>, Distinct(q)
  PROVE  /\ Tail(q) \in Seq(S) /\ Distinct(Tail(q))
         /\ Head(q) \in Image(q)
         /\ Image(Tail(q)) = Image(q) \ {Head(q)}
<1>1. Tail(q) \in Seq(S) /\ Len(Tail(q)) = Len(q) - 1 /\ Len(q) \in Nat \ {0}
  OBVIOUS
<1>2. \A i \in 1..(Len(q) - 1) : Tail(q)[i] = q[i + 1]
  OBVIOUS
<1>3. Head(q) = q[1] /\ 1 \in DOMAIN q
  OBVIOUS
<1>4. Distinct(Tail(q))
  BY <1>1, <1>2 DEF Distinct
<1>5. Image(Tail(q)) = Image(q) \ {Head(q)}
  <2>1. ASSUME NEW x \in Image(Tail(q)) PROVE x \in Image(q) \ {Head(q)}
    BY <1>1, <1>2, <1>3 DEF Image, Distinct
  <2>2. ASSUME NEW x \in Image(q) \ {Head(q)} PROVE x \in Image(Tail(q))
    <3>1. PICK i \in DOMAIN q : x = q[i]
      BY DEF Image
    <3>2. i # 1 /\ i - 1 \in DOMAIN Tail(q)
      BY <3>1, <1>1, <1>3
    <3>3. Tail(q)[i - 1] = x
      BY <3>1, <3>2, <1>1, <1>2
    <3> QED BY <3>2, <3>3 DEF Image
  <2> QED BY <2>1, <2>2
<1> QED
  BY <1>1, <1>3, <1>4, <1>5 DEF Image

\* Pushing a new block keeps a list without repetition and adds that block.
LEMMA PushList ==
  ASSUME NEW S, NEW q \in Seq(S), NEW b \in S, b \notin Image(q), Distinct(q)
  PROVE  /\ <<b>> \o q \in Seq(S) /\ Distinct(<<b>> \o q)
         /\ Image(<<b>> \o q) = {b} \cup Image(q)
<1> DEFINE p == <<b>> \o q
<1>1. p \in Seq(S) /\ Len(p) = Len(q) + 1 /\ Len(q) \in Nat
  OBVIOUS
<1>2. p[1] = b /\ \A i \in 2..Len(p) : p[i] = q[i - 1] /\ i - 1 \in DOMAIN q
  BY <1>1
<1>3. \A i \in DOMAIN q : p[i + 1] = q[i] /\ i + 1 \in DOMAIN p
  BY <1>1
<1>4. DOMAIN p = 1..Len(p) /\ 1 \in DOMAIN p
  BY <1>1
<1> HIDE DEF p
<1>5. Distinct(p)
  BY <1>1, <1>2, <1>4 DEF Distinct, Image
<1>6. ASSUME NEW x \in Image(p) PROVE x \in {b} \cup Image(q)
  <2>1. PICK i \in 1..Len(p) : x = p[i]
    BY <1>4 DEF Image
  <2>2. CASE i = 1
    BY <2>1, <2>2, <1>2
  <2>3. CASE i \in 2..Len(p)
    BY <2>1, <2>3, <1>2 DEF Image
  <2> QED BY <2>1, <2>2, <2>3, <1>1
<1>7. ASSUME NEW x \in {b} \cup Image(q) PROVE x \in Image(p)
  BY <1>2, <1>3, <1>4 DEF Image
<1> QED
  BY <1>1, <1>5, <1>6, <1>7 DEF p

\* Unlinking one element takes exactly that block.
LEMMA WithoutList ==
  ASSUME NEW S, NEW q \in Seq(S), NEW k \in DOMAIN q, Distinct(q)
  PROVE  /\ Without(q, k) \in Seq(S) /\ Distinct(Without(q, k))
         /\ Image(Without(q, k)) = Image(q) \ {q[k]}
<1> DEFINE p == Without(q, k)
<1>1. Len(q) \in Nat \ {0} /\ DOMAIN q = 1..Len(q) /\ \A i \in DOMAIN q : q[i] \in S
  OBVIOUS
<1>2. DOMAIN p = 1..(Len(q) - 1)
  BY DEF Without
<1>3. \A i \in DOMAIN p : p[i] = IF i < k THEN q[i] ELSE q[i + 1]
  BY DEF Without
<1>4. p \in Seq(S)
  <2>1. \A i \in DOMAIN p : p[i] \in S
    BY <1>1, <1>2, <1>3
  <2>2. p \in [1..(Len(q) - 1) -> S]
    BY <1>1, <1>2, <2>1 DEF Without
  <2> QED BY <2>2, <1>1
<1> HIDE DEF p
<1>5. Distinct(p)
  BY <1>1, <1>2, <1>3 DEF Distinct
<1>6. ASSUME NEW x \in Image(p) PROVE x \in Image(q) \ {q[k]}
  BY <1>1, <1>2, <1>3 DEF Image, Distinct
<1>7. ASSUME NEW x \in Image(q) \ {q[k]} PROVE x \in Image(p)
  <2>1. PICK i \in DOMAIN q : x = q[i] /\ i # k
    BY DEF Image
  <2>2. CASE i < k
    BY <2>1, <2>2, <1>1, <1>2, <1>3 DEF Image
  <2>3. CASE i > k
    <3>1. i - 1 \in DOMAIN p /\ p[i - 1] = q[i]
      BY <2>1, <2>3, <1>1, <1>2, <1>3
    <3> QED BY <3>1, <2>1 DEF Image
  <2> QED BY <2>1, <2>2, <2>3, <1>1
<1> QED
  BY <1>4, <1>5, <1>6, <1>7 DEF p

\* Shrinking an element in place exchanges one block for another.
LEMMA ReplacedList ==
  ASSUME NEW q, NEW p, NEW k \in DOMAIN q, DOMAIN p = DOMAIN q,
         \A i \in DOMAIN q : i # k => p[i] = q[i],
         p[k] \notin Image(q), Distinct(q)
  PROVE  /\ Distinct(p)
         /\ Image(p) = (Image(q) \ {q[k]}) \cup {p[k]}
<1>1. Distinct(p)
  BY DEF Distinct, Image
<1>2. Image(p) = (Image(q) \ {q[k]}) \cup {p[k]}
  BY DEF Image, Distinct
<1> QED
  BY <1>1, <1>2

---------------------------------------------------------------------------
(* Blocks and the words they cover *)

\* A block covers at least one word, all of them in the arena.
LEMMA BlockWords ==
  ASSUME NEW b \in Block
  PROVE  /\ b.address \in Nat /\ b.words \in Nat /\ b.words > 0
         /\ b.address >= First /\ b.address < Limit
         /\ b.address \in Extent(b)
         /\ \A w : w \in Extent(b) <=>
                     w \in Nat /\ b.address <= w /\ w < b.address + b.words
<1>1. b.address \in Arena /\ b.words \in 1..(Limit - First)
  BY DEF Block
<1> QED
  BY <1>1, ArenaAssumption DEF Arena, Extent

\* Blocks with the same address and length are the same.
LEMMA BlockEqual ==
  ASSUME NEW b \in Block, NEW c \in Block, b.address = c.address, b.words = c.words
  PROVE  b = c
BY DEF Block

\* There are finitely many blocks, so a set of them has a cardinality.
LEMMA FiniteBlocks ==
  ASSUME NEW B \in SUBSET Block
  PROVE  Cardinality(B) \in Nat
<1> DEFINE P == Arena \X (1..(Limit - First))
           f == [p \in P |-> [address |-> p[1], words |-> p[2]]]
<1>1. IsFiniteSet(P)
  <2>1. IsFiniteSet(Arena)
    BY FS_Interval, ArenaAssumption DEF Arena
  <2>2. IsFiniteSet(1..(Limit - First))
    BY FS_Interval, ArenaAssumption
  <2> QED BY <2>1, <2>2, FS_Product
<1>2. f \in Surjection(P, Block)
  <2>1. f \in [P -> Block]
    BY DEF Block
  <2>2. ASSUME NEW b \in Block PROVE \E p \in P : f[p] = b
    <3>1. <<b.address, b.words>> \in P /\ f[<<b.address, b.words>>] = b
      BY DEF Block
    <3> QED BY <3>1
  <2> QED BY <2>1, <2>2 DEF Surjection
<1>3. IsFiniteSet(Block)
  BY <1>1, <1>2, FS_Surjection
<1> QED
  BY <1>3, FS_Subset, FS_CardinalityType

\* Cutting a block in two keeps the division of the arena.
LEMMA SplitBlock ==
  ASSUME NEW B \in SUBSET Block, Disjoint(B),
         NEW e \in B, NEW r \in Block, NEW s \in Block,
         Extent(r) \cap Extent(s) = {}, Extent(r) \cup Extent(s) = Extent(e)
  PROVE  /\ Disjoint((B \ {e}) \cup {r, s})
         /\ Words((B \ {e}) \cup {r, s}) = Words(B)
         /\ r # s
<1> DEFINE D == (B \ {e}) \cup {r, s}
<1>1. ASSUME NEW c \in B \ {e} PROVE Extent(c) \cap (Extent(r) \cup Extent(s)) = {}
  BY DEF Disjoint
<1>2. Disjoint(D)
  BY <1>1 DEF Disjoint
<1>3. Words(D) = Words(B)
  BY DEF Words
<1>4. r # s
  BY BlockWords
<1> QED
  BY <1>2, <1>3, <1>4

---------------------------------------------------------------------------
(* The inductive invariant, action by action *)

Inv == TypeOK /\ Partition

\* The blocks the allocator knows of are blocks of the arena.
LEMMA BlocksTyped ==
  ASSUME TypeOK
  PROVE  Blocks \in SUBSET Block
<1>1. \A q \in Seq(Block) : Image(q) \in SUBSET Block
  BY DEF Image
<1>2. Chains \in SUBSET Block
  BY <1>1 DEF TypeOK, Chains, Listed
<1> QED
  BY <1>1, <1>2 DEF TypeOK, Blocks

\* Exchanging one chain exchanges its blocks.
LEMMA ReplaceChain ==
  ASSUME NEW s \in [SmallSizes -> Seq(Block)], NEW t \in [SmallSizes -> Seq(Block)],
         NEW n \in SmallSizes, \A m \in SmallSizes : m # n => t[m] = s[m],
         \A m \in SmallSizes : \A b \in Image(s[m]) : b.words = m
  PROVE  Listed(t) = (Listed(s) \ Image(s[n])) \cup Image(t[n])
<1>1. \A m \in SmallSizes : m # n => Image(s[m]) \cap Image(s[n]) = {}
  OBVIOUS
<1>2. ASSUME NEW b \in Listed(t) PROVE b \in (Listed(s) \ Image(s[n])) \cup Image(t[n])
  <2>1. PICK m \in SmallSizes : b \in Image(t[m])
    BY DEF Listed
  <2>2. CASE m = n
    BY <2>1, <2>2
  <2>3. CASE m # n
    BY <2>1, <2>3, <1>1 DEF Listed
  <2> QED BY <2>2, <2>3
<1>3. ASSUME NEW b \in (Listed(s) \ Image(s[n])) \cup Image(t[n]) PROVE b \in Listed(t)
  BY DEF Listed
<1> QED
  BY <1>2, <1>3

\* The constructor's single extent is the arena.
LEMMA InitInv == Init => Inv
<1> SUFFICES ASSUME Init PROVE Inv
  OBVIOUS
<1>1. Chains = {} /\ live = {} /\ unavailable = {}
  BY DEF Init, Chains, Listed, Image
<1>2. \A n \in SmallSizes : small[n] = <<>>
  BY DEF Init
<1>3. small \in [SmallSizes -> Seq(Block)]
  BY DEF Init
<1>4. CASE First = Limit
  <2>1. common = <<>> /\ Arena = {}
    BY <1>4, ArenaAssumption DEF Init, Arena
  <2> QED BY <1>1, <1>2, <1>3, <2>1
       DEF Inv, TypeOK, Partition, EachOnce, Disjoint, Distinct, Blocks, Words, Image
<1>5. CASE First # Limit
  <2> DEFINE b == [address |-> First, words |-> Limit - First]
  <2>1. common = <<b>> /\ b \in Block
    BY <1>5, ArenaAssumption DEF Init, Block, Arena
  <2>2. Image(common) = {b} /\ Distinct(common) /\ common \in Seq(Block)
    BY <2>1 DEF Image, Distinct
  <2>3. Extent(b) = Arena
    BY ArenaAssumption DEF Extent, Arena
  <2>4. Blocks = {b}
    BY <1>1, <2>2 DEF Blocks
  <2> HIDE DEF b
  <2>5. Words(Blocks) = Arena /\ Disjoint(Blocks)
    BY <2>3, <2>4 DEF Words, Disjoint
  <2>6. EachOnce
    BY <1>1, <1>2, <2>2 DEF EachOnce, Distinct, Image
  <2>7. TypeOK
    BY <1>1, <1>3, <2>2 DEF TypeOK
  <2> QED BY <2>5, <2>6, <2>7 DEF Inv, Partition
<1> QED
  BY <1>4, <1>5

\* Taking the head of a small chain only makes it live.
LEMMA FromChainInv ==
  ASSUME Inv, NEW n \in 1..(Limit - First), NEW r \in Block, FromChain(n, r)
  PROVE  Inv' /\ r \in Blocks \ live
<1> USE DEF Inv
<1>1. n \in SmallSizes /\ small[n] \in Seq(Block) /\ small[n] # <<>> /\ Distinct(small[n])
  BY DEF FromChain, Chained, TypeOK, Partition, EachOnce
<1> DEFINE q == Tail(small[n])
<1>2. /\ q \in Seq(Block) /\ Distinct(q) /\ r \in Image(small[n])
      /\ Image(q) = Image(small[n]) \ {r}
  BY <1>1, TailList DEF FromChain
<1> HIDE DEF q
<1>3. small' = [small EXCEPT ![n] = q] /\ live' = live \cup {r}
      /\ common' = common /\ unavailable' = unavailable
  BY DEF FromChain, q
<1>4. \A m \in SmallSizes : \A b \in Image(small[m]) : b.words = m
  BY DEF Partition, EachOnce
<1>5. \A b \in Image(q) : b.words = n
  BY <1>1, <1>2, <1>4
<1>6. Chains' = (Chains \ Image(small[n])) \cup Image(q)
  <2>1. /\ small \in [SmallSizes -> Seq(Block)] /\ small' \in [SmallSizes -> Seq(Block)]
        /\ small'[n] = q /\ \A m \in SmallSizes : m # n => small'[m] = small[m]
    BY <1>1, <1>2, <1>3 DEF TypeOK
  <2> QED BY SMTT(40), <2>1, <1>1, <1>4, ReplaceChain DEF Chains
<1>7. Image(small[n]) \subseteq Chains
  BY <1>1 DEF Chains, Listed
<1>8. Chains' = Chains \ {r} /\ r \in Chains
  BY <1>2, <1>6, <1>7
<1>9. Blocks' = Blocks /\ r \in Blocks \ live
  BY <1>3, <1>8 DEF Blocks, Partition, EachOnce
<1>10. TypeOK'
  BY <1>1, <1>2, <1>3 DEF TypeOK
<1>11. \A m \in SmallSizes : Distinct(small'[m]) /\ \A b \in Image(small'[m]) : b.words = m
  BY <1>1, <1>2, <1>3, <1>4, <1>5 DEF TypeOK, Partition, EachOnce
<1>12. EachOnce'
  BY <1>3, <1>8, <1>11 DEF Partition, EachOnce
<1> QED
  BY <1>9, <1>10, <1>12 DEF Partition

\* Cutting a common extent divides its words between the remainder and the new block.
LEMMA FromCommonInv ==
  ASSUME Inv, NEW n \in 1..(Limit - First), NEW r \in Block, FromCommon(n, r)
  PROVE  Inv' /\ \E e \in Blocks \ live : Extent(r) \subseteq Extent(e)
<1> USE DEF Inv
<1>1. PICK k \in DOMAIN common :
        /\ common[k].words >= n
        /\ r = Cut(common[k], n)
        /\ common' = IF common[k].words = n THEN Without(common, k)
                     ELSE [common EXCEPT ![k] =
                             [address |-> @.address, words |-> @.words - n]]
  BY DEF FromCommon, FirstFit, Shrunk
<1> DEFINE e == common[k]
           rest == [address |-> e.address, words |-> e.words - n]
<1>2. e \in Image(common) /\ e \in Block /\ common \in Seq(Block) /\ Distinct(common)
  BY <1>1 DEF Image, TypeOK, Partition, EachOnce
<1>3. Blocks \in SUBSET Block /\ e \in Blocks \ live
  BY <1>2, BlocksTyped DEF Blocks, Partition, EachOnce
<1>4. live' = live \cup {r} /\ small' = small /\ unavailable' = unavailable /\ Chains' = Chains
  BY DEF FromCommon, Chains
<1>5. r.address = e.address + (e.words - n) /\ r.words = n
  BY <1>1 DEF Cut
<1>6. e.address \in Nat /\ e.words \in Nat /\ n \in Nat /\ n > 0 /\ n <= e.words
  BY <1>1, <1>2, BlockWords, ArenaAssumption
<1>7. Extent(r) \subseteq Extent(e)
  BY <1>5, <1>6 DEF Extent
<1> HIDE DEF e, rest
<1>8. CASE e.words = n
  <2>1. r = e
    BY <1>2, <1>5, <1>6, <1>8, BlockEqual
  <2>2. common' \in Seq(Block) /\ Distinct(common') /\ Image(common') = Image(common) \ {e}
    BY <1>1, <1>2, <1>8, WithoutList DEF e
  <2>3. Blocks' = Blocks
    BY <2>1, <2>2, <1>2, <1>4 DEF Blocks
  <2>4. TypeOK'
    BY <2>2, <1>4 DEF TypeOK
  <2>5. EachOnce'
    BY <2>1, <2>2, <1>2, <1>4 DEF Partition, EachOnce
  <2> QED BY <2>3, <2>4, <2>5, <1>3, <1>7 DEF Partition
<1>9. CASE e.words # n
  <2>1. rest \in Block /\ rest.address = e.address /\ rest.words = e.words - n
    BY <1>2, <1>6, <1>9, ArenaAssumption DEF Block, rest
  <2>2. Extent(r) \cap Extent(rest) = {} /\ Extent(r) \cup Extent(rest) = Extent(e)
    BY <2>1, <1>5, <1>6, <1>9 DEF Extent
  <2>3. /\ Disjoint((Blocks \ {e}) \cup {r, rest})
        /\ Words((Blocks \ {e}) \cup {r, rest}) = Arena
        /\ r # rest
    BY <2>1, <2>2, <1>3, SplitBlock DEF Partition
  <2>4. r \notin Blocks /\ rest \notin Blocks
    <3>1. r # e /\ rest # e
      BY <2>1, <1>5, <1>6, <1>9
    <3>2. r.address \in Extent(r) /\ rest.address \in Extent(rest)
      BY <2>1, BlockWords
    <3>3. Extent(r) \cap Extent(e) # {} /\ Extent(rest) \cap Extent(e) # {}
      BY <3>2, <2>2
    <3> QED BY <3>1, <3>3, <1>3 DEF Partition, Disjoint
  <2>5. common' = [common EXCEPT ![k] = rest] /\ rest \notin Image(common)
    BY <2>4, <1>1, <1>9 DEF rest, e, Blocks
  <2>6. /\ common' \in Seq(Block) /\ Distinct(common')
        /\ Image(common') = (Image(common) \ {e}) \cup {rest}
    <3>1. /\ common' \in Seq(Block) /\ DOMAIN common' = DOMAIN common /\ common'[k] = rest
          /\ \A i \in DOMAIN common : i # k => common'[i] = common[i]
      BY <2>1, <2>5, <1>1, <1>2
    <3>2. k \in DOMAIN common /\ common'[k] \notin Image(common) /\ Distinct(common)
      BY <3>1, <2>5, <1>1, <1>2
    <3>3. Distinct(common') /\ Image(common') = (Image(common) \ {common[k]}) \cup {common'[k]}
      BY <3>1, <3>2, ReplacedList
    <3> QED BY <3>1, <3>3 DEF e
  <2>7. Blocks' = (Blocks \ {e}) \cup {r, rest}
    BY <2>6, <1>2, <1>4 DEF Blocks, Partition, EachOnce
  <2>8. TypeOK'
    BY <2>6, <1>4 DEF TypeOK
  <2>9. EachOnce'
    BY <2>3, <2>4, <2>6, <1>4 DEF Partition, EachOnce, Blocks
  <2> QED BY <2>3, <2>7, <2>8, <2>9, <1>3, <1>7 DEF Partition
<1> QED
  BY <1>8, <1>9

\* A released block goes to the head of one list and to no other.
LEMMA ReleaseInv ==
  ASSUME Inv, NEW b \in live, Release(b)
  PROVE  Inv'
<1> USE DEF Inv
<1>1. live' = live \ {b} /\ unavailable' = unavailable /\ b \in Block
      /\ b \notin Image(common) \cup Chains \cup unavailable
  BY DEF Release, LiveAfter, TypeOK, Partition, EachOnce
<1>2. CASE b.words \in SmallSizes
  <2> DEFINE n == b.words
             q == <<b>> \o small[n]
  <2>1. small' = [small EXCEPT ![n] = q] /\ common' = common /\ small[n] \in Seq(Block)
    BY <1>2 DEF Release, TypeOK
  <2>2. Image(small[n]) \subseteq Chains /\ Distinct(small[n])
    BY <1>2 DEF Chains, Listed, Partition, EachOnce
  <2>3. q \in Seq(Block) /\ Distinct(q) /\ Image(q) = {b} \cup Image(small[n])
    BY <2>1, <2>2, <1>1, PushList
  <2> HIDE DEF q
  <2>4. \A m \in SmallSizes : \A c \in Image(small[m]) : c.words = m
    BY DEF Partition, EachOnce
  <2>5. \A c \in Image(q) : c.words = n
    BY <2>3, <2>4, <1>2
  <2>6. Chains' = (Chains \ Image(small[n])) \cup Image(q)
    <3>1. /\ small \in [SmallSizes -> Seq(Block)] /\ small' \in [SmallSizes -> Seq(Block)]
          /\ small'[n] = q /\ \A m \in SmallSizes : m # n => small'[m] = small[m]
      BY <1>2, <2>1, <2>3 DEF TypeOK
    <3> QED BY <3>1, <1>2, <2>4, ReplaceChain DEF Chains
  <2>7. Chains' = Chains \cup {b}
    BY <2>2, <2>3, <2>6
  <2>8. Blocks' = Blocks
    BY <2>1, <2>7, <1>1 DEF Blocks
  <2>9. TypeOK'
    BY <1>1, <1>2, <2>1, <2>3 DEF TypeOK
  <2>10. \A m \in SmallSizes : Distinct(small'[m]) /\ \A c \in Image(small'[m]) : c.words = m
    BY <1>2, <2>1, <2>3, <2>4, <2>5 DEF TypeOK, Partition, EachOnce
  <2>11. EachOnce'
    BY <1>1, <2>1, <2>7, <2>10 DEF Partition, EachOnce
  <2> QED BY <2>8, <2>9, <2>11 DEF Partition
<1>3. CASE b.words \notin SmallSizes
  <2>1. common' = <<b>> \o common /\ small' = small /\ Chains' = Chains
    BY <1>3 DEF Release, Chains
  <2>2. /\ common' \in Seq(Block) /\ Distinct(common')
        /\ Image(common') = {b} \cup Image(common)
    BY <2>1, <1>1, PushList DEF TypeOK, Partition, EachOnce
  <2>3. Blocks' = Blocks
    BY <2>1, <2>2, <1>1 DEF Blocks
  <2>4. TypeOK'
    BY <1>1, <2>1, <2>2 DEF TypeOK
  <2>5. EachOnce'
    BY <1>1, <2>1, <2>2 DEF Partition, EachOnce
  <2> QED BY <2>3, <2>4, <2>5 DEF Partition
<1> QED
  BY <1>2, <1>3

---------------------------------------------------------------------------
(* A collection divides the arena anew: the kept blocks and their gaps *)

\* A gap is a block of words that no kept block covers.
LEMMA GapWords ==
  ASSUME NEW M \in SUBSET Block, NEW g \in Gaps(M)
  PROVE  /\ g \in Block
         /\ \A w \in Extent(g) : w \in Arena /\ w \notin Words(M)
BY DEF Gaps

\* Two gaps that share a word begin and end at the same words.
LEMMA GapsDisjoint ==
  ASSUME NEW M \in SUBSET Block
  PROVE  Disjoint(Gaps(M))
<1>1. ASSUME NEW g \in Gaps(M), NEW h \in Gaps(M), NEW w \in Extent(g) \cap Extent(h)
      PROVE  g.address >= h.address /\ g.address + g.words <= h.address + h.words
  <2>1. g \in Block /\ h \in Block
    BY <1>1, GapWords
  <2>2. /\ g.address \in Nat /\ h.address \in Nat /\ g.words \in Nat /\ h.words \in Nat
        /\ w \in Nat /\ g.address <= w /\ h.address <= w
        /\ w < g.address + g.words /\ w < h.address + h.words
        /\ g.address >= First /\ h.address >= First
    BY <1>1, <2>1, BlockWords
  <2>3. g.address + g.words <= Limit
    <3>1. g.address + g.words - 1 \in Extent(g)
      BY <2>1, <2>2, BlockWords
    <3> QED BY <3>1, <2>2, GapWords, ArenaAssumption DEF Arena
  <2>4. CASE g.address < h.address
    <3>1. h.address - 1 \in Extent(g)
      BY <2>1, <2>2, <2>4, BlockWords
    <3>2. h.address # First
      BY <2>2, <2>4, ArenaAssumption
    <3>3. h.address - 1 \in Words(M)
      BY <3>2, <1>1 DEF Gaps
    <3> QED BY <3>1, <3>3, GapWords
  <2>5. CASE g.address + g.words > h.address + h.words
    <3>1. h.address + h.words \in Extent(g)
      BY <2>1, <2>2, <2>5, BlockWords
    <3>2. h.address + h.words # Limit
      BY <2>2, <2>3, <2>5, ArenaAssumption
    <3>3. h.address + h.words \in Words(M)
      BY <3>2, <1>1 DEF Gaps
    <3> QED BY <3>1, <3>3, GapWords
  <2> QED BY <2>2, <2>4, <2>5
<1>2. ASSUME NEW g \in Gaps(M), NEW h \in Gaps(M), Extent(g) \cap Extent(h) # {}
      PROVE  g = h
  <2>1. PICK w : w \in Extent(g) \cap Extent(h)
    BY <1>2
  <2>2. g.address >= h.address /\ g.address + g.words <= h.address + h.words
    BY <2>1, <1>1
  <2>3. h.address >= g.address /\ h.address + h.words <= g.address + g.words
    BY <2>1, <1>1
  <2>4. g \in Block /\ h \in Block
    BY GapWords
  <2>5. g.address = h.address /\ g.words = h.words
    BY <2>2, <2>3, <2>4, BlockWords
  <2> QED BY <2>4, <2>5, BlockEqual
<1> QED
  BY <1>2 DEF Disjoint

\* Every word outside the kept blocks is in a gap: the maximal run around it.
LEMMA GapsCover ==
  ASSUME NEW M \in SUBSET Block, NEW w \in Arena, w \notin Words(M)
  PROVE  \E g \in Gaps(M) : w \in Extent(g)
<1>1. w \in Nat /\ First <= w /\ w < Limit /\ First \in Nat /\ First > 0 /\ Limit \in Nat
  BY ArenaAssumption DEF Arena
<1> DEFINE S == {a \in First..w : \A x \in a..w : x \notin Words(M)}
           E == {z \in (w + 1)..Limit : z = Limit \/ z \in Words(M)}
<1>2. PICK a \in S : \A x \in S : a <= x
  <2>1. S \in SUBSET Nat /\ w \in S
    BY <1>1
  <2> QED BY <2>1, LeastNatural
<1>3. PICK z \in E : \A x \in E : z <= x
  <2>1. E \in SUBSET Nat /\ Limit \in E
    BY <1>1
  <2> QED BY <2>1, LeastNatural
<1>4. a \in First..w /\ \A x \in a..w : x \notin Words(M)
  BY <1>2
<1>5. z \in (w + 1)..Limit /\ (z = Limit \/ z \in Words(M))
  BY <1>3
<1>6. a = First \/ a - 1 \in Words(M)
  <2> SUFFICES ASSUME a # First, a - 1 \notin Words(M) PROVE FALSE
    OBVIOUS
  <2>1. a - 1 \in First..w
    BY <1>1, <1>4
  <2>2. \A x \in (a - 1)..w : x = a - 1 \/ x \in a..w
    BY <1>1, <1>4
  <2>3. a - 1 \in S
    BY <2>1, <2>2, <1>4
  <2> QED BY <2>3, <1>1, <1>2, <1>4
<1>7. \A x \in (w + 1)..(z - 1) : x \notin Words(M)
  <2> SUFFICES ASSUME NEW x \in (w + 1)..(z - 1), x \in Words(M) PROVE FALSE
    OBVIOUS
  <2>1. x \in E
    BY <1>1, <1>5
  <2> QED BY <2>1, <1>1, <1>3, <1>5
<1> DEFINE g == [address |-> a, words |-> z - a]
<1> HIDE DEF S, E
<1>8. g \in Block /\ g.address = a /\ g.words = z - a /\ g.address + g.words = z
  BY <1>1, <1>4, <1>5 DEF Block, Arena
<1>9. \A x \in Extent(g) : x \in Arena /\ x \notin Words(M)
  <2> SUFFICES ASSUME NEW x \in Extent(g) PROVE x \in Arena /\ x \notin Words(M)
    OBVIOUS
  <2>1. x \in Nat /\ a <= x /\ x < z
    BY <1>8, BlockWords
  <2>2. x \in Arena
    BY <2>1, <1>1, <1>4, <1>5 DEF Arena
  <2>3. x \in a..w \/ x \in (w + 1)..(z - 1)
    BY <2>1, <1>1, <1>4, <1>5
  <2> QED BY <2>2, <2>3, <1>4, <1>7
<1>10. w \in Extent(g)
  BY <1>1, <1>4, <1>5, <1>8, BlockWords
<1> HIDE DEF g
<1>11. g \in Gaps(M)
  BY <1>5, <1>6, <1>8, <1>9 DEF Gaps
<1> QED
  BY <1>10, <1>11

\* A set of gaps sorted by address is a list without repetition of them.
LEMMA AscendingList ==
  ASSUME NEW B \in SUBSET Block, NEW q \in Ascending(B)
  PROVE  q \in Seq(Block) /\ Distinct(q) /\ Image(q) = B
<1> DEFINE n == Cardinality(B)
<1>1. n \in Nat
  BY FiniteBlocks
<1> HIDE DEF n
<1>2. /\ q \in [1..n -> B] /\ Image(q) = B
      /\ \A i, j \in 1..n : i < j => q[i].address < q[j].address
  BY DEF Ascending, n
<1>3. q \in Seq(Block)
  BY <1>1, <1>2
<1>4. ASSUME NEW i \in 1..n, NEW j \in 1..n, q[i] = q[j] PROVE i = j
  <2>1. q[i].address \in Nat
    BY <1>2, BlockWords
  <2>2. ~(i < j) /\ ~(j < i)
    BY <2>1, <1>2, <1>4
  <2> QED BY <2>2, <1>1
<1> QED
  BY <1>2, <1>3, <1>4 DEF Distinct

\* After a collection kept blocks, linked gaps and lost gaps divide the arena.
LEMMA CollectInv ==
  ASSUME Inv, NEW M \in SUBSET live, Collect(M)
  PROVE  Inv'
<1> USE DEF Inv
<1>1. M \in SUBSET Block /\ Linked(M) \in SUBSET Block /\ Gaps(M) \in SUBSET Block
  BY DEF TypeOK, Linked, Gaps
<1>2. common' \in Seq(Block) /\ Distinct(common') /\ Image(common') = Linked(M)
  BY <1>1, AscendingList DEF Collect
<1>3. live' = M /\ unavailable' = Gaps(M) \ Linked(M)
  BY DEF Collect
<1>4. small' = [n \in SmallSizes |-> <<>>] /\ Chains' = {}
  BY DEF Collect, ChainsAfter, Chains, Listed, Image
<1>5. TypeOK'
  BY <1>1, <1>2, <1>3, <1>4 DEF TypeOK
<1>6. Linked(M) \subseteq Gaps(M)
  BY DEF Linked
<1>7. Blocks' = M \cup Gaps(M)
  BY <1>2, <1>3, <1>4, <1>6 DEF Blocks
<1>8. \A b \in M, g \in Gaps(M) : Extent(b) \cap Extent(g) = {}
  BY GapWords, <1>1 DEF Words
<1>9. M \cap Gaps(M) = {}
  <2>1. \A b \in M : b.address \in Extent(b)
    BY <1>1, BlockWords
  <2> QED BY <2>1, <1>8
<1>10. EachOnce'
  <2>1. \A n \in SmallSizes : small'[n] = <<>>
    BY <1>4
  <2>2. \A n \in SmallSizes : Distinct(small'[n]) /\ Image(small'[n]) = {}
    BY <2>1 DEF Distinct, Image
  <2> QED BY <2>2, <1>2, <1>3, <1>4, <1>6, <1>9 DEF EachOnce
<1>11. Disjoint(M)
  BY DEF Partition, Disjoint, Blocks
<1>12. Disjoint(Blocks')
  BY <1>1, <1>7, <1>8, <1>11, GapsDisjoint DEF Disjoint
<1>13. Words(M \cup Gaps(M)) = Arena
  <2>1. \A w \in Words(M) : w \in Arena
    BY DEF Partition, Words, Blocks
  <2>2. \A w \in Words(Gaps(M)) : w \in Arena
    BY <1>1, GapWords DEF Words
  <2>3. \A w \in Arena : w \in Words(M) \/ w \in Words(Gaps(M))
    BY <1>1, GapsCover DEF Words
  <2>4. Words(M \cup Gaps(M)) = Words(M) \cup Words(Gaps(M))
    BY DEF Words
  <2> QED BY <2>1, <2>2, <2>3, <2>4
<1> QED
  BY <1>5, <1>7, <1>10, <1>12, <1>13 DEF Partition

---------------------------------------------------------------------------
(* The theorems *)

\* Every operation of the allocator keeps the invariant.
LEMMA NextInv == Inv /\ [Next]_heap => Inv'
<1> SUFFICES ASSUME Inv, [Next]_heap PROVE Inv'
  OBVIOUS
<1>1. ASSUME NEW n \in 1..(Limit - First), NEW r \in Block, TryAllocate(n, r) PROVE Inv'
  BY <1>1, FromChainInv, FromCommonInv DEF TryAllocate
<1>2. ASSUME NEW b \in live, Release(b) PROVE Inv'
  BY <1>2, ReleaseInv
<1>3. ASSUME NEW M \in SUBSET live, Collect(M) PROVE Inv'
  BY <1>3, CollectInv
<1>4. CASE UNCHANGED heap
  BY <1>4 DEF heap, Inv, TypeOK, Partition, EachOnce, Blocks, Chains
<1> QED
  BY <1>1, <1>2, <1>3, <1>4 DEF Next

\* The invariant holds in every reachable state.
LEMMA Invariance == Spec => []Inv
BY InitInv, NextInv, PTL DEF Spec

\* The allocator's lists always hold blocks inside the arena.
THEOREM TypeCorrect == Spec => []TypeOK
<1>1. Inv => TypeOK
  BY DEF Inv
<1> QED
  BY <1>1, Invariance, PTL

\* However blocks are handed out, released and collected, the live blocks, the
\* free extents and chains and the lost gaps divide the arena: NativeAllocator
\* neither loses a word nor hands one out twice.
THEOREM PartitionHolds == Spec => []Partition
<1>1. Inv => Partition
  BY DEF Inv
<1> QED
  BY <1>1, Invariance, PTL

\* Every operation is an operation of the abstract heap or leaves it alone.
LEMMA StepImplements == Inv /\ [Next]_heap => [Heap!Next]_live
<1> SUFFICES ASSUME Inv, [Next]_heap PROVE [Heap!Next]_live
  OBVIOUS
<1> USE DEF Inv
<1>1. ASSUME NEW n \in 1..(Limit - First), NEW r \in Block, TryAllocate(n, r)
      PROVE  Heap!Next
  <2>1. live' = live \cup {r}
    BY <1>1 DEF TryAllocate, FromChain, FromCommon
  <2>2. PICK e \in Blocks \ live : Extent(r) \subseteq Extent(e)
    BY <1>1, FromChainInv, FromCommonInv DEF TryAllocate
  <2>3. \A c \in live : Extent(c) \cap Extent(e) = {}
    BY <2>2 DEF Partition, Disjoint, Blocks
  <2>4. Extent(e) \subseteq Arena
    BY <2>2 DEF Partition, Words
  <2>5. Heap!Acquire(r)
    BY <2>1, <2>2, <2>3, <2>4 DEF Heap!Acquire, Heap!Overlap, Heap!Extent, Extent, Arena
  <2> QED BY <2>5 DEF Heap!Next, Heap!Block, Block, Arena
<1>2. ASSUME NEW b \in live, Release(b) PROVE Heap!Next
  <2>1. Heap!Reclaim({b})
    BY <1>2 DEF Heap!Reclaim, Release, LiveAfter
  <2> QED BY <2>1 DEF Heap!Next
<1>3. ASSUME NEW M \in SUBSET live, Collect(M) PROVE Heap!Next
  <2>1. Heap!Reclaim(live \ M)
    BY <1>3 DEF Heap!Reclaim, Collect
  <2> QED BY <2>1 DEF Heap!Next
<1>4. CASE UNCHANGED heap
  BY <1>4 DEF heap
<1> QED
  BY <1>1, <1>2, <1>3, <1>4 DEF Next

\* The free lists implement the heap callers are promised: try_allocate hands
\* out words nobody holds, release and collect only take blocks back.
THEOREM HeapImplemented == Spec => ImplementsHeap
<1>1. Init => Heap!Init
  BY DEF Init, Heap!Init
<1> QED
  BY <1>1, Invariance, StepImplements, PTL DEF Spec, ImplementsHeap, Heap!Spec
=============================================================================
