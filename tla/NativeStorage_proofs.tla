------------------------- MODULE NativeStorage_proofs -------------------------
(* Proofs about the owner of the hybrid runtime's storage. *)
EXTENDS NativeStorage, FiniteSetTheorems, SequenceTheorems, TLAPS

Allocator == INSTANCE NativeAllocator_proofs

---------------------------------------------------------------------------
(* The invariant *)

Object == [kind : {"pair", "reference", "function"}, fields : Seq(Value), program : 0..MaxProgram]
Program == [source : Sources, roots : SUBSET Handles]
Request == [do : {"allocate", "release", "done", "collect"}, words : Nat,
            owner : Owner \cup ({"program"} \X Programs) \cup {<<"collection">>, <<"literal", "op">>}]

\* The tables and what is in them.
TablesTyped ==
  /\ DOMAIN objects \subseteq Handles /\ objects \in [DOMAIN objects -> Object]
  /\ DOMAIN programs \subseteq Programs /\ programs \in [DOMAIN programs -> Program]
  /\ running \in 0..MaxProgram /\ collected \in BOOLEAN
  /\ nextHandle \in 1..(MaxHandle + 1) /\ nextProgram \in 1..(MaxProgram + 1)
  /\ \A p \in DOMAIN programs : p < nextProgram

\* Every block has one owner, and an owner is in the tables.
BlocksOwned ==
  /\ Allocator!Inv
  /\ DOMAIN held \subseteq Owner /\ held \in [DOMAIN held -> Heap!Block]
  /\ SoleOwner
  /\ \A h : <<"object", h>> \in DOMAIN held => h \in DOMAIN objects \ Functions
  /\ \A o \in DOMAIN held : o[1] \in Parts => o[2] \in DOMAIN programs

\* The handles that were handed out and not collected.
Standing == {h \in DOMAIN objects : h < nextHandle}
Reference == Standing \cup {0}
Saved == UNION {[N -> Reference] : N \in SUBSET Names}
Frame == [function : Functions, saved : Saved]

\* What execution and compilation hold refers to one of those; what is called, or
\* instantiated, is a function.
ExecutionStands ==
  /\ DOMAIN bindings \subseteq Names /\ bindings \in [DOMAIN bindings -> Reference]
  /\ values \in Seq(Reference) /\ Len(values) <= MaxStack
  /\ frames \in Seq(Frame)
  /\ nested \subseteq Functions

\* And so does what the tables hold.
RecordsStand ==
  /\ \A h \in DOMAIN objects : Image(objects[h].fields) \subseteq Reference
  /\ \A p \in DOMAIN programs : programs[p].roots \subseteq Functions

ReferencesStand == ExecutionStands /\ RecordsStand

Compiling(p) == todo # <<>> /\ Subject = <<"program", p>>
Constructing(h) == todo # <<>> /\ Subject = <<"object", h>>

\* An object has its block unless its constructor is under way, a function its program
\* and what was compiled from it; programs are executed, compiled or of a function.
ObjectsPlaced ==
  /\ Functions \subseteq Standing
  /\ \A h \in Standing \ Functions : <<"object", h>> \in DOMAIN held
  /\ \A h \in DOMAIN objects \ Standing : h = nextHandle /\ Constructing(h)
  /\ \A h \in Functions : /\ objects[h].program \in DOMAIN programs
                          /\ programs[objects[h].program].source.kind # Statement
                          /\ \A part \in {"descriptor", "code"} :
                               <<part, objects[h].program>> \in DOMAIN held
  /\ running # 0 => running \in DOMAIN programs /\ programs[running].source.kind = Statement
  /\ \A p \in DOMAIN programs : p = running \/ Compiling(p) \/ p \in ProgramsOf(Functions)

Asks(step, o) == step.do = "allocate" /\ step.owner = o /\ step.words > 0

\* What compiling p may ask for: a literal, or something of its own.
Own(p, o) == o \in (Parts \X {p}) \cup ({"node"} \X {p} \X Nat)
For(p, o) == o \in {"literal"} \X Literals \/ Own(p, o)

\* The requests q of a compilation as program p, when A are the owners of blocks: what is
\* given back is a node, once, and was obtained.
Requests(q, p, A) ==
  /\ q \in Seq(Request)
  /\ \A i \in DOMAIN q :
       \/ q[i].do = "allocate" /\ (q[i].words = 0 \/ For(p, q[i].owner))
       \/ /\ q[i].do = "release" /\ q[i].owner \in {"node"} \X {p} \X Nat
          /\ q[i].owner \in A \/ \E j \in 1 .. i - 1 : Asks(q[j], q[i].owner)
          /\ \A j \in DOMAIN q : q[j].do = "release" /\ q[j].owner = q[i].owner => i = j

\* Descriptor and code are there or will be asked for.
Completes(q, p, A) ==
  \A part \in {"descriptor", "code"} : <<part, p>> \in A \/ \E i \in DOMAIN q : Asks(q[i], <<part, p>>)

Placing(h) ==
  LET o == <<"object", h>>
  IN /\ h = nextHandle /\ h \in DOMAIN objects \ Functions /\ Len(values) < MaxStack
     /\ \/ todo = <<Ask(Size(objects[h].kind), o), Done(o)>>
        \/ todo = <<Done(o)>> /\ o \in DOMAIN held

Naming(n) ==
  LET o == <<"word", n>>
  IN n \in Names \ DOMAIN bindings /\ todo \in {<<Ask(NameWords, o), Done(o)>>, <<Done(o)>>}

Building(p, q) ==
  /\ p \in DOMAIN programs \ ProgramsOf(Functions) /\ running = 0
  /\ programs[p].source.kind # Statement => nextHandle <= MaxHandle
  /\ todo = Append(q, Done(<<"program", p>>))
  /\ Requests(q, p, DOMAIN held) /\ Completes(q, p, DOMAIN held)

\* What is left of the operation under way.
Underway == \/ todo = <<>> \/ todo = <<Sweeping>>
            \/ \E h \in Handles : Placing(h)
            \/ \E n \in Names : Naming(n)
            \/ \E p \in Programs, q \in Seq(Request) : Building(p, q)

\* After a collection nothing is left that it could have freed.
Swept == collected => /\ Missing
                      /\ live = Image(held)
                      /\ DOMAIN objects = Reached \cup Unplaced
                      /\ ProgramsOf(Functions) \subseteq ProgramsOf(Reached)

Inv == TablesTyped /\ BlocksOwned /\ ReferencesStand /\ ObjectsPlaced /\ Underway /\ Swept

---------------------------------------------------------------------------
(* The allocator *)

Assumed == Allocator!ArenaAssumption /\ Allocator!SizesAssumption

LEMMA AssumedHolds == StorageAssumption => Assumed
BY DEF StorageAssumption, Assumed, Allocator!ArenaAssumption, Allocator!SizesAssumption

LEMMA SameBlocks ==
  /\ Heap!Block = Allocator!Block
  /\ \A b : Heap!Extent(b) = Allocator!Extent(b)
BY DEF Heap!Block, Allocator!Block, Heap!Arena, Allocator!Arena, Heap!Extent, Allocator!Extent

LEMMA SameTypes == Heap!TypeOK <=> Allocator!TypeOK
BY DEF Heap!TypeOK, Allocator!TypeOK, Heap!Block, Allocator!Block, Heap!Arena, Allocator!Arena,
       Heap!SmallSizes, Allocator!SmallSizes

LEMMA SameCollect == ASSUME NEW M PROVE Heap!Collect(M) <=> Allocator!Collect(M)
BY DEF Heap!Collect, Heap!ChainsAfter, Heap!Gaps, Heap!Linked, Heap!Block, Heap!SmallSizes,
       Heap!Arena, Heap!Image, Heap!Extent, Heap!Words, Heap!Ascending, Heap!ScanEnd, Heap!Cardinality,
       Allocator!Collect, Allocator!ChainsAfter, Allocator!Gaps, Allocator!Linked, Allocator!Block,
       Allocator!SmallSizes, Allocator!Arena, Allocator!Image, Allocator!Extent, Allocator!Words,
       Allocator!Ascending, Allocator!ScanEnd, Allocator!Cardinality

LEMMA SameRelease == ASSUME NEW b PROVE Heap!Release(b) <=> Allocator!Release(b)
BY DEF Heap!Release, Heap!LiveAfter, Heap!SmallSizes,
       Allocator!Release, Allocator!LiveAfter, Allocator!SmallSizes

LEMMA SameAllocate == ASSUME NEW n, NEW r PROVE Heap!TryAllocate(n, r) <=> Allocator!TryAllocate(n, r)
BY DEF Heap!TryAllocate, Heap!FromChain, Heap!FromCommon, Heap!Chained, Heap!SmallSizes, Heap!FirstFit,
       Heap!Cut, Heap!Shrunk, Heap!Without,
       Allocator!TryAllocate, Allocator!FromChain, Allocator!FromCommon, Allocator!Chained,
       Allocator!SmallSizes, Allocator!FirstFit, Allocator!Cut, Allocator!Shrunk, Allocator!Without

LEMMA SameInit == Heap!Init <=> Allocator!Init
BY DEF Heap!Init, Allocator!Init, Heap!SmallSizes, Allocator!SmallSizes

\* A block that was free shares no word with a block handed out.
LEMMA Obtained ==
  ASSUME StorageAssumption, Allocator!Inv, NEW n \in Nat \ {0}, NEW r \in Heap!Block, Heap!TryAllocate(n, r)
  PROVE  /\ Allocator!Inv' /\ live' = live \cup {r}
         /\ \A b \in live : Heap!Extent(b) \cap Heap!Extent(r) = {}
<1>1. Allocator!TryAllocate(n, r) /\ r \in Allocator!Block /\ Assumed
  BY SameAllocate, SameBlocks, AssumedHolds
<1>2. live' = live \cup {r}
  BY <1>1 DEF Allocator!TryAllocate, Allocator!FromChain, Allocator!FromCommon
<1>3. \A b, c \in Allocator!Blocks : b # c => Allocator!Extent(b) \cap Allocator!Extent(c) = {}
  BY DEF Allocator!Inv, Allocator!Partition, Allocator!Disjoint
<1>4. live \subseteq Allocator!Blocks
  BY DEF Allocator!Blocks
<1>5. CASE Allocator!FromChain(n, r)
  <2>1. n \in 1 .. (Limit - First)
    <3>1. n \in Allocator!SmallSizes /\ small[n] # <<>> /\ r = Head(small[n])
      BY <1>5 DEF Allocator!FromChain, Allocator!Chained
    <3>2. small[n] \in Seq(Allocator!Block) /\ \A b \in Allocator!Image(small[n]) : b.words = n
      BY <3>1 DEF Allocator!Inv, Allocator!TypeOK, Allocator!Partition, Allocator!EachOnce
    <3>3. r \in Allocator!Image(small[n])
      BY <3>1, <3>2 DEF Allocator!Image
    <3> QED BY <1>1, <3>2, <3>3 DEF Allocator!Block
  <2>2. Allocator!Inv' /\ r \in Allocator!Blocks \ live
    BY <1>1, <1>5, <2>1, Allocator!FromChainInv DEF Assumed
  <2> QED BY <1>2, <1>3, <1>4, <2>2, SameBlocks
<1>6. CASE Allocator!FromCommon(n, r)
  <2>1. n \in 1 .. (Limit - First)
    <3>1. \E k \in DOMAIN common : r = Allocator!Cut(common[k], n)
      BY <1>6 DEF Allocator!FromCommon
    <3> QED BY <1>1, <3>1 DEF Allocator!Cut, Allocator!Block
  <2>2. Allocator!Inv' /\ \E e \in Allocator!Blocks \ live : Allocator!Extent(r) \subseteq Allocator!Extent(e)
    BY <1>1, <1>6, <2>1, Allocator!FromCommonInv DEF Assumed
  <2> QED BY <1>2, <1>3, <1>4, <2>2, SameBlocks
<1> QED
  BY <1>1, <1>5, <1>6 DEF Allocator!TryAllocate

LEMMA GivenBack ==
  ASSUME StorageAssumption, Allocator!Inv, NEW b, Heap!Release(b)
  PROVE  Allocator!Inv' /\ live' = live \ {b}
<1>1. Allocator!Release(b) /\ Assumed
  BY SameRelease, AssumedHolds
<1>2. b \in live /\ live' = live \ {b}
  BY <1>1 DEF Allocator!Release, Allocator!LiveAfter
<1> QED
  BY <1>1, <1>2, Allocator!ReleaseInv DEF Assumed

LEMMA Collected ==
  ASSUME StorageAssumption, Allocator!Inv, NEW M, Heap!Collect(M)
  PROVE  Allocator!Inv' /\ live' = M
<1>1. Allocator!Collect(M) /\ Assumed
  BY SameCollect, AssumedHolds
<1>2. M \in SUBSET live /\ live' = M
  BY <1>1 DEF Allocator!Collect
<1> QED
  BY <1>1, <1>2, Allocator!CollectInv DEF Assumed

LEMMA Untouched ==
  ASSUME Allocator!Inv, UNCHANGED heap
  PROVE  Allocator!Inv' /\ live' = live
BY DEF heap, Allocator!Inv, Allocator!TypeOK, Allocator!Partition, Allocator!EachOnce,
       Allocator!Blocks, Allocator!Chains, Allocator!Listed

LEMMA Started ==
  ASSUME StorageAssumption, Heap!Init
  PROVE  Allocator!Inv /\ live = {}
<1>1. Allocator!Init /\ Assumed
  BY SameInit, AssumedHolds
<1> QED
  BY <1>1, Allocator!InitInv DEF Allocator!Init, Assumed

---------------------------------------------------------------------------
(* The requests of an operation *)

LEMMA Queue ==
  ASSUME NEW S, NEW q \in Seq(S), NEW x \in S
  PROVE  /\ Append(q, x) \in Seq(S) /\ Append(q, x) # <<>> /\ Append(q, x)[Len(Append(q, x))] = x
         /\ q = <<>> => Head(Append(q, x)) = x /\ Tail(Append(q, x)) = <<>>
         /\ q # <<>> => /\ Head(Append(q, x)) = q[1] /\ Tail(q) \in Seq(S)
                        /\ Tail(Append(q, x)) = Append(Tail(q), x)
OBVIOUS

LEMMA OneStep ==
  ASSUME NEW d, NEW t, t = <<d>>
  PROVE  t # <<>> /\ Head(t) = d /\ Tail(t) = <<>> /\ t[Len(t)] = d
OBVIOUS

LEMMA TwoSteps ==
  ASSUME NEW a, NEW d, NEW t, t = <<a, d>>
  PROVE  t # <<>> /\ Head(t) = a /\ Tail(t) = <<d>> /\ t[Len(t)] = d
OBVIOUS

LEMMA Rest ==
  ASSUME NEW q \in Seq(Request), q # <<>>
  PROVE  /\ Tail(q) \in Seq(Request) /\ q[1] \in Request
         /\ \A i \in DOMAIN Tail(q) : i + 1 \in DOMAIN q /\ Tail(q)[i] = q[i + 1] /\ i \in Nat \ {0}
         /\ \A i \in DOMAIN q : (i = 1 \/ i - 1 \in DOMAIN Tail(q)) /\ i \in Nat
         /\ 1 \in DOMAIN q
OBVIOUS

\* What the compilation owns may become more, and others may come and go.
LEMMA RequestsKeep ==
  ASSUME NEW q, NEW p, NEW A, NEW B, Requests(q, p, A), Completes(q, p, A),
         \A o \in A : Own(p, o) => o \in B
  PROVE  Requests(q, p, B) /\ Completes(q, p, B)
<1>1. Requests(q, p, B)
  BY DEF Requests, Own
<1>2. \A part \in {"descriptor", "code"} : Own(p, <<part, p>>)
  BY DEF Own, Parts
<1> QED
  BY <1>1, <1>2 DEF Completes

\* After what was asked for first has been obtained.
LEMMA RequestsAdvance ==
  ASSUME NEW q, NEW p, NEW A, NEW B, Requests(q, p, A), Completes(q, p, A), q # <<>>,
         q[1].do = "allocate", A \subseteq B, q[1].words = 0 \/ q[1].owner \in B
  PROVE  Requests(Tail(q), p, B) /\ Completes(Tail(q), p, B)
<1>1. q \in Seq(Request)
  BY DEF Requests
<1> DEFINE t == Tail(q)
<1>2. /\ t \in Seq(Request) /\ q[1] \in Request /\ 1 \in DOMAIN q
      /\ \A i \in DOMAIN t : i + 1 \in DOMAIN q /\ t[i] = q[i + 1] /\ i \in Nat \ {0}
      /\ \A i \in DOMAIN q : (i = 1 \/ i - 1 \in DOMAIN t) /\ i \in Nat
  BY <1>1, Rest
<1> HIDE DEF t
<1>3. \A o : Asks(q[1], o) => o \in B
  BY <1>2 DEF Asks, Request
<1>4. ASSUME NEW i \in DOMAIN t
      PROVE  \/ t[i].do = "allocate" /\ (t[i].words = 0 \/ For(p, t[i].owner))
             \/ /\ t[i].do = "release" /\ t[i].owner \in {"node"} \X {p} \X Nat
                /\ t[i].owner \in B \/ \E j \in 1 .. i - 1 : Asks(t[j], t[i].owner)
                /\ \A j \in DOMAIN t : t[j].do = "release" /\ t[j].owner = t[i].owner => i = j
  <2>1. i + 1 \in DOMAIN q /\ t[i] = q[i + 1] /\ i \in Nat \ {0}
    BY <1>2
  <2>2. CASE q[i + 1].do = "allocate"
    BY <2>1, <2>2 DEF Requests
  <2>3. CASE q[i + 1].do # "allocate"
    <3>1. /\ q[i + 1].do = "release" /\ q[i + 1].owner \in {"node"} \X {p} \X Nat
          /\ q[i + 1].owner \in A \/ \E j \in 1 .. i + 1 - 1 : Asks(q[j], q[i + 1].owner)
          /\ \A j \in DOMAIN q : q[j].do = "release" /\ q[j].owner = q[i + 1].owner => i + 1 = j
      BY SMTT(40), <2>1, <2>3 DEF Requests
    <3>2. t[i].owner \in B \/ \E j \in 1 .. i - 1 : Asks(t[j], t[i].owner)
      <4>1. CASE q[i + 1].owner \in A
        BY <4>1, <2>1
      <4>2. ASSUME NEW j \in 1 .. i, Asks(q[j], q[i + 1].owner) PROVE <3>2
        <5>1. CASE j = 1
          BY <4>2, <5>1, <1>3, <2>1
        <5>2. CASE j # 1
          <6>1. j - 1 \in 1 .. i - 1 /\ j - 1 + 1 = j
            BY <5>2, <2>1
          <6>2. DOMAIN t = 1 .. Len(t) /\ Len(t) \in Nat
            BY <1>2
          <6>3. i \in 1 .. Len(t) /\ j - 1 \in 1 .. Len(t)
            BY <6>1, <6>2, <2>1
          <6>4. t[j - 1] = q[j]
            BY <1>2, <6>1, <6>2, <6>3
          <6> QED BY <4>2, <6>1, <6>4, <2>1
        <5> QED BY <5>1, <5>2
      <4> QED BY <3>1, <4>1, <4>2, <2>1
    <3>3. ASSUME NEW j \in DOMAIN t, t[j].do = "release", t[j].owner = t[i].owner PROVE i = j
      <4>1. j + 1 \in DOMAIN q /\ t[j] = q[j + 1] /\ j \in Nat
        BY <1>2
      <4>2. i + 1 = j + 1
        BY <3>1, <3>3, <4>1, <2>1
      <4> QED BY <4>1, <4>2, <2>1
    <3> QED BY <3>1, <3>2, <3>3, <2>1
  <2> QED BY <2>2, <2>3
<1>5. Requests(t, p, B)
  BY <1>2, <1>4 DEF Requests
<1>6. Completes(t, p, B)
  <2>1. ASSUME NEW part \in {"descriptor", "code"}, NEW i \in DOMAIN q, Asks(q[i], <<part, p>>)
        PROVE  <<part, p>> \in B \/ \E j \in DOMAIN t : Asks(t[j], <<part, p>>)
    <3>1. CASE i = 1
      BY <3>1, <2>1, <1>3
    <3>2. CASE i # 1
      <4>1. i - 1 \in DOMAIN t /\ i \in Nat
        BY <3>2, <1>2
      <4>2. t[i - 1] = q[i]
        BY <4>1, <1>2
      <4> QED BY <4>1, <4>2, <2>1
    <3> QED BY <3>1, <3>2
  <2> QED BY <2>1 DEF Completes
<1> QED
  BY <1>5, <1>6 DEF t

\* A node that is given back was there, and the next requests do without it.
LEMMA RequestsReturn ==
  ASSUME NEW q, NEW p, NEW A, Requests(q, p, A), Completes(q, p, A), q # <<>>, q[1].do = "release"
  PROVE  /\ q[1].owner \in A /\ q[1].owner \in {"node"} \X {p} \X Nat
         /\ Requests(Tail(q), p, A \ {q[1].owner}) /\ Completes(Tail(q), p, A \ {q[1].owner})
<1>1. q \in Seq(Request)
  BY DEF Requests
<1> DEFINE t == Tail(q)
           B == A \ {q[1].owner}
<1>2. /\ t \in Seq(Request) /\ q[1] \in Request /\ 1 \in DOMAIN q
      /\ \A i \in DOMAIN t : i + 1 \in DOMAIN q /\ t[i] = q[i + 1] /\ i \in Nat \ {0}
      /\ \A i \in DOMAIN q : (i = 1 \/ i - 1 \in DOMAIN t) /\ i \in Nat
  BY <1>1, Rest
<1>3. \A o : ~Asks(q[1], o)
  BY DEF Asks
<1>4. q[1].owner \in A /\ q[1].owner \in {"node"} \X {p} \X Nat
  <2>1. /\ q[1].owner \in {"node"} \X {p} \X Nat
        /\ q[1].owner \in A \/ \E j \in 1 .. 1 - 1 : Asks(q[j], q[1].owner)
    BY <1>2 DEF Requests
  <2> QED BY <2>1
<1> HIDE DEF t, B
<1>5. ASSUME NEW i \in DOMAIN t
      PROVE  \/ t[i].do = "allocate" /\ (t[i].words = 0 \/ For(p, t[i].owner))
             \/ /\ t[i].do = "release" /\ t[i].owner \in {"node"} \X {p} \X Nat
                /\ t[i].owner \in B \/ \E j \in 1 .. i - 1 : Asks(t[j], t[i].owner)
                /\ \A j \in DOMAIN t : t[j].do = "release" /\ t[j].owner = t[i].owner => i = j
  <2>1. i + 1 \in DOMAIN q /\ t[i] = q[i + 1] /\ i \in Nat \ {0}
    BY <1>2
  <2>2. CASE q[i + 1].do = "allocate"
    BY <2>1, <2>2 DEF Requests
  <2>3. CASE q[i + 1].do # "allocate"
    <3>1. /\ q[i + 1].do = "release" /\ q[i + 1].owner \in {"node"} \X {p} \X Nat
          /\ q[i + 1].owner \in A \/ \E j \in 1 .. i + 1 - 1 : Asks(q[j], q[i + 1].owner)
          /\ \A j \in DOMAIN q : q[j].do = "release" /\ q[j].owner = q[i + 1].owner => i + 1 = j
      BY <2>1, <2>3 DEF Requests
    <3>2. t[i].owner \in B \/ \E j \in 1 .. i - 1 : Asks(t[j], t[i].owner)
      <4>0. q[1].owner # q[i + 1].owner
        BY <3>1, <1>2, <2>1
      <4>1. CASE q[i + 1].owner \in A
        BY <4>0, <4>1, <2>1 DEF B
      <4>2. ASSUME NEW j \in 1 .. i, Asks(q[j], q[i + 1].owner) PROVE <3>2
        <5>1. j # 1
          BY <4>2, <1>3
        <5>2. j - 1 \in 1 .. i - 1 /\ j - 1 + 1 = j
          BY <5>1, <2>1
        <5>3. DOMAIN t = 1 .. Len(t) /\ Len(t) \in Nat
          BY <1>2
        <5>4. i \in 1 .. Len(t) /\ j - 1 \in 1 .. Len(t)
          BY <5>2, <5>3, <2>1
        <5>5. t[j - 1] = q[j]
          BY <1>2, <5>2, <5>3, <5>4
        <5> QED BY <4>2, <5>2, <5>5, <2>1
      <4> QED BY <3>1, <4>1, <4>2, <2>1
    <3>3. ASSUME NEW j \in DOMAIN t, t[j].do = "release", t[j].owner = t[i].owner PROVE i = j
      <4>1. j + 1 \in DOMAIN q /\ t[j] = q[j + 1] /\ j \in Nat
        BY <1>2
      <4>2. i + 1 = j + 1
        BY <3>1, <3>3, <4>1, <2>1
      <4> QED BY <4>1, <4>2, <2>1
    <3> QED BY <3>1, <3>2, <3>3, <2>1
  <2> QED BY <2>2, <2>3
<1>6. Requests(t, p, B)
  BY <1>2, <1>5 DEF Requests
<1>7. Completes(t, p, B)
  <2>1. ASSUME NEW part \in {"descriptor", "code"}, NEW i \in DOMAIN q, Asks(q[i], <<part, p>>)
        PROVE  \E j \in DOMAIN t : Asks(t[j], <<part, p>>)
    <3>1. i # 1
      BY <2>1, <1>3
    <3>2. i - 1 \in DOMAIN t /\ i \in Nat
      BY <3>1, <1>2
    <3>3. t[i - 1] = q[i]
      BY <3>2, <1>2
    <3> QED BY <3>2, <3>3, <2>1
  <2>2. ASSUME NEW part \in {"descriptor", "code"}, <<part, p>> \in A
        PROVE  <<part, p>> \in B
    BY <1>4, <2>2 DEF B
  <2> QED BY <2>1, <2>2 DEF Completes
<1> QED
  BY <1>4, <1>6, <1>7 DEF t, B

---------------------------------------------------------------------------
(* What a compilation asks for *)

Then(a, b) == a \o b
Asked(q) == {q[i].owner : i \in {j \in DOMAIN q : q[j].do = "allocate" /\ q[j].words > 0}}
Returned(q) == {q[i].owner : i \in {j \in DOMAIN q : q[j].do = "release"}}

LEMMA ThenIs ==
  ASSUME NEW a \in Seq(Request), NEW b \in Seq(Request)
  PROVE  /\ Then(a, b) \in Seq(Request)
         /\ \A i \in DOMAIN a : i \in DOMAIN Then(a, b) /\ Then(a, b)[i] = a[i]
         /\ \A i \in DOMAIN b : Len(a) + i \in DOMAIN Then(a, b) /\ Then(a, b)[Len(a) + i] = b[i]
         /\ \A i \in DOMAIN Then(a, b) : i \in DOMAIN a \/ i - Len(a) \in DOMAIN b
         /\ Len(a) \in Nat /\ Len(b) \in Nat /\ DOMAIN a = 1 .. Len(a) /\ DOMAIN b = 1 .. Len(b)
<1>1. /\ Then(a, b) \in Seq(Request) /\ Len(Then(a, b)) = Len(a) + Len(b)
      /\ \A i \in 1 .. Len(a) + Len(b) : Then(a, b)[i] = IF i <= Len(a) THEN a[i] ELSE b[i - Len(a)]
  BY ConcatProperties DEF Then
<1>2. Len(a) \in Nat /\ Len(b) \in Nat /\ DOMAIN a = 1 .. Len(a) /\ DOMAIN b = 1 .. Len(b)
  OBVIOUS
<1>3. DOMAIN Then(a, b) = 1 .. Len(a) + Len(b)
  BY <1>1
<1>4. \A i \in DOMAIN a : i \in DOMAIN Then(a, b) /\ Then(a, b)[i] = a[i]
  BY <1>1, <1>2, <1>3
<1>5. ASSUME NEW i \in DOMAIN b
      PROVE  Len(a) + i \in DOMAIN Then(a, b) /\ Then(a, b)[Len(a) + i] = b[i]
  <2>1. Len(a) + i \in 1 .. Len(a) + Len(b) /\ ~(Len(a) + i <= Len(a)) /\ Len(a) + i - Len(a) = i
    BY <1>2
  <2> QED BY <2>1, <1>1, <1>3
<1>6. \A i \in DOMAIN Then(a, b) : i \in DOMAIN a \/ i - Len(a) \in DOMAIN b
  BY <1>2, <1>3
<1> QED
  BY <1>1, <1>2, <1>4, <1>5, <1>6

\* One piece of work after another.
LEMMA Joined ==
  ASSUME NEW a, NEW b, NEW p, NEW A, NEW B, Requests(a, p, A), Requests(b, p, B),
         B \subseteq A \cup Asked(a), Returned(a) \cap Returned(b) = {}
  PROVE  /\ Requests(Then(a, b), p, A)
         /\ Asked(a) \cup Asked(b) \subseteq Asked(Then(a, b))
         /\ Returned(Then(a, b)) \subseteq Returned(a) \cup Returned(b)
<1>1. a \in Seq(Request) /\ b \in Seq(Request)
  BY DEF Requests
<1> DEFINE q == Then(a, b)
           m == Len(a)
<1>2. /\ q \in Seq(Request)
      /\ \A i \in DOMAIN a : i \in DOMAIN q /\ q[i] = a[i]
      /\ \A i \in DOMAIN b : m + i \in DOMAIN q /\ q[m + i] = b[i]
      /\ \A i \in DOMAIN q : i \in DOMAIN a \/ i - m \in DOMAIN b
      /\ m \in Nat /\ Len(b) \in Nat /\ DOMAIN a = 1 .. m /\ DOMAIN b = 1 .. Len(b)
  BY <1>1, ThenIs
<1> HIDE DEF q, m
<1>3. \A i \in DOMAIN q : i \in Nat /\ (i \in DOMAIN a \/ \E j \in DOMAIN b : i = m + j)
  <2>1. ASSUME NEW i \in DOMAIN q PROVE i \in Nat
    BY <1>2
  <2>2. ASSUME NEW i \in DOMAIN q, i \notin DOMAIN a PROVE i = m + (i - m) /\ i - m \in DOMAIN b
    BY <1>2, <2>1, <2>2
  <2> QED BY <2>1, <2>2
<1>4. ASSUME NEW i \in DOMAIN a
      PROVE  \/ q[i].do = "allocate" /\ (q[i].words = 0 \/ For(p, q[i].owner))
             \/ /\ q[i].do = "release" /\ q[i].owner \in {"node"} \X {p} \X Nat
                /\ q[i].owner \in A \/ \E j \in 1 .. i - 1 : Asks(q[j], q[i].owner)
                /\ \A j \in DOMAIN q : q[j].do = "release" /\ q[j].owner = q[i].owner => i = j
  <2>1. q[i] = a[i] /\ i \in 1 .. m
    BY <1>2
  <2>2. CASE a[i].do = "allocate"
    BY <2>1, <2>2 DEF Requests
  <2>3. CASE a[i].do # "allocate"
    <3>1. /\ a[i].do = "release" /\ a[i].owner \in {"node"} \X {p} \X Nat
          /\ a[i].owner \in A \/ \E j \in 1 .. i - 1 : Asks(a[j], a[i].owner)
          /\ \A j \in DOMAIN a : a[j].do = "release" /\ a[j].owner = a[i].owner => i = j
      BY <2>3 DEF Requests
    <3>2. \A j \in 1 .. i - 1 : q[j] = a[j]
      BY <1>2, <2>1
    <3>3. ASSUME NEW j \in DOMAIN q, q[j].do = "release", q[j].owner = q[i].owner PROVE i = j
      <4>1. CASE j \in DOMAIN a
        BY <4>1, <3>1, <3>3, <1>2, <2>1
      <4>2. ASSUME NEW k \in DOMAIN b, j = m + k PROVE FALSE
        <5>1. q[j] = b[k]
          BY <4>2, <1>2
        <5>2. b[k].owner \in Returned(b) /\ a[i].owner \in Returned(a)
          BY <5>1, <3>3, <3>1 DEF Returned
        <5> QED BY <5>1, <5>2, <3>3, <2>1
      <4> QED BY <4>1, <4>2, <1>3
    <3> QED BY <3>1, <3>2, <3>3, <2>1
  <2> QED BY <2>2, <2>3
<1>5. ASSUME NEW k \in DOMAIN b, NEW i, i = m + k
      PROVE  \/ q[i].do = "allocate" /\ (q[i].words = 0 \/ For(p, q[i].owner))
             \/ /\ q[i].do = "release" /\ q[i].owner \in {"node"} \X {p} \X Nat
                /\ q[i].owner \in A \/ \E j \in 1 .. i - 1 : Asks(q[j], q[i].owner)
                /\ \A j \in DOMAIN q : q[j].do = "release" /\ q[j].owner = q[i].owner => i = j
  <2>1. q[i] = b[k] /\ k \in 1 .. Len(b) /\ i \in Nat /\ i > m
    BY <1>2, <1>5
  <2>2. CASE b[k].do = "allocate"
    BY <2>1, <2>2 DEF Requests
  <2>3. CASE b[k].do # "allocate"
    <3>1. /\ b[k].do = "release" /\ b[k].owner \in {"node"} \X {p} \X Nat
          /\ b[k].owner \in B \/ \E j \in 1 .. k - 1 : Asks(b[j], b[k].owner)
          /\ \A j \in DOMAIN b : b[j].do = "release" /\ b[j].owner = b[k].owner => k = j
      BY <2>3 DEF Requests
    <3>2. b[k].owner \in A \/ \E j \in 1 .. i - 1 : Asks(q[j], b[k].owner)
      <4>1. CASE b[k].owner \in Asked(a)
        <5>1. PICK j \in DOMAIN a : a[j].do = "allocate" /\ a[j].words > 0 /\ a[j].owner = b[k].owner
          BY <4>1 DEF Asked
        <5>2. j \in 1 .. i - 1 /\ q[j] = a[j]
          BY <1>2, <2>1
        <5> QED BY <5>1, <5>2 DEF Asks
      <4>2. ASSUME NEW j \in 1 .. k - 1, Asks(b[j], b[k].owner) PROVE <3>2
        <5>1. m + j \in 1 .. i - 1 /\ j \in DOMAIN b
          BY <1>2, <1>5, <2>1
        <5>2. q[m + j] = b[j]
          BY <5>1, <1>2
        <5> QED BY <4>2, <5>1, <5>2
      <4> QED BY <3>1, <4>1, <4>2
    <3>3. ASSUME NEW j \in DOMAIN q, q[j].do = "release", q[j].owner = q[i].owner PROVE i = j
      <4>1. CASE j \in DOMAIN a
        <5>1. q[j] = a[j]
          BY <4>1, <1>2
        <5>2. b[k].owner \in Returned(b) /\ a[j].owner \in Returned(a)
          BY <4>1, <5>1, <3>3, <3>1 DEF Returned
        <5> QED BY <5>1, <5>2, <3>3, <2>1
      <4>2. ASSUME NEW l \in DOMAIN b, j = m + l PROVE i = j
        <5>1. q[j] = b[l]
          BY <4>2, <1>2
        <5>2. k = l
          BY <5>1, <3>1, <3>3, <2>1
        <5> QED BY <5>2, <4>2, <1>5
      <4> QED BY <4>1, <4>2, <1>3
    <3> QED BY <3>1, <3>2, <3>3, <2>1
  <2> QED BY <2>2, <2>3
<1>6. Requests(q, p, A)
  <2>1. ASSUME NEW i \in DOMAIN q
        PROVE  \/ q[i].do = "allocate" /\ (q[i].words = 0 \/ For(p, q[i].owner))
               \/ /\ q[i].do = "release" /\ q[i].owner \in {"node"} \X {p} \X Nat
                  /\ q[i].owner \in A \/ \E j \in 1 .. i - 1 : Asks(q[j], q[i].owner)
                  /\ \A j \in DOMAIN q : q[j].do = "release" /\ q[j].owner = q[i].owner => i = j
    <3>1. CASE i \in DOMAIN a
      BY <3>1, <1>4
    <3>2. ASSUME NEW k \in DOMAIN b, i = m + k PROVE <2>1!2
      BY <3>2, <1>5
    <3> QED BY <3>1, <3>2, <1>3
  <2> QED BY <1>2, <2>1, Zenon DEF Requests
<1>7. Asked(a) \subseteq Asked(q)
  BY <1>2 DEF Asked
<1>8. Asked(b) \subseteq Asked(q)
  <2>1. ASSUME NEW j \in DOMAIN b, b[j].do = "allocate", b[j].words > 0 PROVE b[j].owner \in Asked(q)
    <3>1. m + j \in DOMAIN q /\ q[m + j] = b[j]
      BY <1>2
    <3> QED BY <2>1, <3>1 DEF Asked
  <2> QED BY <2>1 DEF Asked
<1>9. Returned(q) \subseteq Returned(a) \cup Returned(b)
  <2>1. ASSUME NEW i \in DOMAIN q, q[i].do = "release" PROVE q[i].owner \in Returned(a) \cup Returned(b)
    <3>1. CASE i \in DOMAIN a
      BY <3>1, <2>1, <1>2 DEF Returned
    <3>2. ASSUME NEW k \in DOMAIN b, i = m + k PROVE q[i].owner \in Returned(b)
      <4>1. q[i] = b[k]
        BY <3>2, <1>2
      <4> QED BY <2>1, <4>1 DEF Returned
    <3> QED BY <3>1, <3>2, <1>3
  <2> QED BY <2>1 DEF Returned
<1> QED
  BY <1>6, <1>7, <1>8, <1>9 DEF q

Constant(e) == Ask(IF e \in Literals THEN LiteralWords ELSE 0, <<"literal", e>>)
Operations(p, s) == [k \in 1..(2 * Len(s.emissions)) |->
                       IF k % 2 = 0 THEN Ask(NodeWords, <<"node", p, k \div 2>>)
                       ELSE Constant(s.emissions[(k + 1) \div 2])]
Environment(p, s) == [k \in 1..(Len(s.locals) + s.captures) |->
                        Ask(NodeWords, <<"node", p, Len(s.emissions) + k>>)]
Arrays(p, s) == <<Ask(DescriptorWords, <<"descriptor", p>>),
                  Ask(Array(Len(s.locals)), <<"bindings", p>>),
                  Ask(Array(s.captures), <<"captures", p>>)>>
CapturesBack(p, s) == [k \in 1..s.captures |-> Give(<<"node", p, Len(s.emissions) + Len(s.locals) + k>>)]
Executable(p, s) == <<Ask(Len(s.emissions) + 1, <<"code", p>>)>>
OperationsBack(p, s) == [k \in 1..Len(s.emissions) |-> Give(<<"node", p, k>>)]

LEMMA InPieces ==
  ASSUME NEW p, NEW s
  PROVE  Compilation(p, s) =
           Then(Then(Then(Then(Then(Operations(p, s), Environment(p, s)), Arrays(p, s)),
                          CapturesBack(p, s)), Executable(p, s)), OperationsBack(p, s))
BY Zenon DEF Compilation, Then, Operations, Environment, Arrays, CapturesBack, Executable, OperationsBack, Constant

\* A piece that only asks.
LEMMA Asking ==
  ASSUME NEW q \in Seq(Request), NEW p, NEW A,
         \A i \in DOMAIN q : q[i].do = "allocate" /\ (q[i].words = 0 \/ For(p, q[i].owner))
  PROVE  Requests(q, p, A) /\ Returned(q) = {}
BY DEF Requests, Returned

Nodes(p, m, n) == {<<"node", p, m + k>> : k \in 1 .. n}
NodesBack(p, m, n) == [k \in 1 .. n |-> Give(<<"node", p, m + k>>)]

\* A piece that only gives back, each node once.
LEMMA Giving ==
  ASSUME NEW n \in Nat, NEW p \in Programs, NEW m \in Nat, NEW A, Nodes(p, m, n) \subseteq A
  PROVE  Requests(NodesBack(p, m, n), p, A) /\ Returned(NodesBack(p, m, n)) = Nodes(p, m, n)
<1> DEFINE q == NodesBack(p, m, n)
<1>0. q = [k \in 1 .. n |-> Give(<<"node", p, m + k>>)]
  BY DEF NodesBack
<1> HIDE DEF q
<1>1. \A k \in 1 .. n : /\ q[k].do = "release" /\ q[k].owner = <<"node", p, m + k>> /\ m + k \in Nat
                        /\ q[k] \in Request
  BY <1>0 DEF Give, Request, Owner, Parts
<1>2. q \in Seq(Request) /\ DOMAIN q = 1 .. n
  <2>1. q \in [1 .. n -> Request]
    BY <1>0, <1>1
  <2> QED BY <2>1, SeqDef
<1>3. \A i, j \in 1 .. n : q[i].owner = q[j].owner => i = j
  <2>1. ASSUME NEW i \in 1 .. n, NEW j \in 1 .. n, <<"node", p, m + i>> = <<"node", p, m + j>> PROVE i = j
    <3>1. m + i = m + j
      BY <2>1
    <3> QED BY <3>1
  <2> QED BY <1>1, <2>1
<1>4. Requests(q, p, A)
  <2>1. \A i \in 1 .. n : q[i].owner \in {"node"} \X {p} \X Nat /\ q[i].owner \in A
    <3>1. ASSUME NEW i \in 1 .. n PROVE <<"node", p, m + i>> \in Nodes(p, m, n)
      BY DEF Nodes
    <3>2. ASSUME NEW i \in 1 .. n PROVE <<"node", p, m + i>> \in {"node"} \X {p} \X Nat
      <4>1. m + i \in Nat
        OBVIOUS
      <4> QED BY <4>1
    <3> QED BY <1>1, <3>1, <3>2
  <2>2. \A i \in DOMAIN q :
          /\ q[i].do = "release" /\ q[i].owner \in {"node"} \X {p} \X Nat
          /\ q[i].owner \in A
          /\ \A j \in DOMAIN q : q[j].do = "release" /\ q[j].owner = q[i].owner => i = j
    BY <1>1, <1>2, <1>3, <2>1
  <2> QED BY <1>2, <2>2, Zenon DEF Requests
<1>5. Returned(q) = Nodes(p, m, n)
  BY <1>1, <1>2 DEF Returned, Nodes
<1> QED
  BY <1>4, <1>5 DEF q

LEMMA CompilationRequests ==
  ASSUME StorageAssumption, NEW s \in Sources, NEW p \in Programs, NEW A
  PROVE  Requests(Compilation(p, s), p, A) /\ Completes(Compilation(p, s), p, A)
<1> DEFINE n == Len(s.emissions)
           l == Len(s.locals)
           c == s.captures
           node(k) == <<"node", p, k>>
<1>1. /\ n \in Nat /\ l \in Nat /\ c \in Nat /\ s.emissions \in Seq(Literals \cup {"op"})
      /\ NodeWords \in Nat \ {0} /\ LiteralWords \in Nat /\ DescriptorWords \in Nat \ {0}
  BY DEF StorageAssumption
<1>2. \A k \in Nat : node(k) \in Owner /\ Own(p, node(k))
  BY DEF Owner, Own, Parts
<1> HIDE DEF n, l, c, node
<1>3. /\ Operations(p, s) \in Seq(Request)
      /\ \A i \in DOMAIN Operations(p, s) :
           /\ Operations(p, s)[i].do = "allocate"
           /\ Operations(p, s)[i].words = 0 \/ For(p, Operations(p, s)[i].owner)
      /\ \A k \in 1 .. n : node(k) \in Asked(Operations(p, s))
  <2> DEFINE q == Operations(p, s)
  <2>1. q = [k \in 1 .. (2 * n) |-> IF k % 2 = 0 THEN Ask(NodeWords, node(k \div 2))
                                   ELSE Constant(s.emissions[(k + 1) \div 2])]
    BY DEF Operations, n, node
  <2> HIDE DEF q
  <2>2. ASSUME NEW k \in 1 .. (2 * n), k % 2 = 0
        PROVE  q[k] \in Request /\ q[k].do = "allocate" /\ For(p, q[k].owner) /\ q[k] = Ask(NodeWords, node(k \div 2))
    <3>1. k \div 2 \in Nat /\ q[k] = Ask(NodeWords, node(k \div 2))
      BY <1>1, <2>1, <2>2
    <3> QED BY <1>1, <1>2, <3>1 DEF Ask, Request, For
  <2>3. ASSUME NEW k \in 1 .. (2 * n), k % 2 # 0
        PROVE  q[k] \in Request /\ q[k].do = "allocate" /\ (q[k].words = 0 \/ For(p, q[k].owner))
    <3>1. (k + 1) \div 2 \in 1 .. n
      BY <1>1
    <3>2. PICK e \in Literals \cup {"op"} : e = s.emissions[(k + 1) \div 2]
      BY <1>1, <3>1 DEF n
    <3>3. q[k] = Constant(e)
      BY <2>1, <2>3, <3>2
    <3>4. <<"literal", e>> \in Owner \cup {<<"literal", "op">>} /\ (e \in Literals => For(p, <<"literal", e>>))
      BY DEF Owner, For
    <3> QED BY <1>1, <3>3, <3>4 DEF Constant, Ask, Request
  <2>4. q \in [1 .. (2 * n) -> Request] /\ 2 * n \in Nat
    BY <1>1, <2>1, <2>2, <2>3
  <2>5. q \in Seq(Request) /\ DOMAIN q = 1 .. (2 * n)
    BY <2>4, SeqDef
  <2>6. ASSUME NEW k \in 1 .. n PROVE node(k) \in Asked(q)
    <3>1. 2 * k \in 1 .. (2 * n) /\ (2 * k) % 2 = 0 /\ (2 * k) \div 2 = k
      BY <1>1
    <3>2. q[2 * k] = Ask(NodeWords, node(k))
      BY <2>2, <3>1
    <3> QED BY <1>1, <2>5, <3>1, <3>2 DEF Asked, Ask
  <2> QED BY <2>2, <2>3, <2>5, <2>6 DEF q
<1>4. /\ Environment(p, s) \in Seq(Request)
      /\ \A i \in DOMAIN Environment(p, s) :
           Environment(p, s)[i].do = "allocate" /\ For(p, Environment(p, s)[i].owner)
      /\ \A k \in 1 .. c : node(n + l + k) \in Asked(Environment(p, s))
  <2> DEFINE q == Environment(p, s)
  <2>1. q = [k \in 1 .. (l + c) |-> Ask(NodeWords, node(n + k))]
    BY DEF Environment, n, l, c, node
  <2> HIDE DEF q
  <2>2. ASSUME NEW k \in 1 .. (l + c)
        PROVE  q[k] \in Request /\ q[k].do = "allocate" /\ For(p, q[k].owner) /\ q[k] = Ask(NodeWords, node(n + k))
    <3>1. n + k \in Nat /\ q[k] = Ask(NodeWords, node(n + k))
      BY <1>1, <2>1
    <3> QED BY <1>1, <1>2, <3>1 DEF Ask, Request, For
  <2>3. \A k \in 1 .. (l + c) : q[k] \in Request
    BY <2>2
  <2>4. q \in [1 .. (l + c) -> Request] /\ l + c \in Nat
    <3>1. l + c \in Nat
      BY <1>1
    <3> QED BY <2>1, <2>3, <3>1, Zenon
  <2>5. q \in Seq(Request) /\ DOMAIN q = 1 .. (l + c)
    BY <2>4, SeqDef
  <2>6. ASSUME NEW k \in 1 .. c PROVE node(n + l + k) \in Asked(q)
    <3>1. l + k \in 1 .. (l + c) /\ n + (l + k) = n + l + k
      BY <1>1
    <3>2. q[l + k] = Ask(NodeWords, node(n + l + k))
      BY <2>2, <3>1
    <3> QED BY <1>1, <2>5, <3>1, <3>2 DEF Asked, Ask
  <2> QED BY <2>2, <2>5, <2>6 DEF q
<1>5. /\ Arrays(p, s) \in Seq(Request)
      /\ \A i \in DOMAIN Arrays(p, s) : Arrays(p, s)[i].do = "allocate" /\ For(p, Arrays(p, s)[i].owner)
      /\ <<"descriptor", p>> \in Asked(Arrays(p, s))
  <2> DEFINE a == Ask(DescriptorWords, <<"descriptor", p>>)
             b == Ask(Array(l), <<"bindings", p>>)
             d == Ask(Array(c), <<"captures", p>>)
  <2>1. Array(l) \in Nat /\ Array(c) \in Nat
    BY <1>1 DEF Array
  <2>2. \A o \in {<<"descriptor", p>>, <<"bindings", p>>, <<"captures", p>>} : o \in Owner /\ For(p, o)
    BY DEF Owner, For, Own, Parts
  <2>3. /\ a \in Request /\ b \in Request /\ d \in Request
        /\ \A x \in {a, b, d} : x.do = "allocate" /\ For(p, x.owner)
        /\ a.do = "allocate" /\ a.words > 0 /\ a.owner = <<"descriptor", p>>
    BY <1>1, <2>1, <2>2 DEF Ask, Request
  <2>4. Arrays(p, s) = <<a, b, d>>
    BY DEF Arrays, l, c
  <2> HIDE DEF a, b, d
  <2>5. /\ <<a, b, d>> \in Seq(Request) /\ DOMAIN <<a, b, d>> = 1 .. 3
        /\ <<a, b, d>>[1] = a /\ <<a, b, d>>[2] = b /\ <<a, b, d>>[3] = d
    BY <2>3
  <2>6. <<"descriptor", p>> \in Asked(<<a, b, d>>)
    BY <2>3, <2>5 DEF Asked
  <2> QED BY <2>3, <2>4, <2>5, <2>6
<1>6. /\ Executable(p, s) \in Seq(Request)
      /\ \A i \in DOMAIN Executable(p, s) : Executable(p, s)[i].do = "allocate" /\ For(p, Executable(p, s)[i].owner)
      /\ <<"code", p>> \in Asked(Executable(p, s))
  <2> DEFINE a == Ask(n + 1, <<"code", p>>)
  <2>1. <<"code", p>> \in Owner /\ For(p, <<"code", p>>) /\ n + 1 \in Nat /\ n + 1 > 0
    BY <1>1 DEF Owner, For, Own, Parts
  <2>2. a \in Request /\ a.do = "allocate" /\ For(p, a.owner) /\ a.words > 0 /\ a.owner = <<"code", p>>
    BY <2>1 DEF Ask, Request
  <2>3. Executable(p, s) = <<a>>
    BY DEF Executable, n
  <2> HIDE DEF a
  <2>4. <<a>> \in Seq(Request) /\ DOMAIN <<a>> = 1 .. 1 /\ <<a>>[1] = a
    BY <2>2
  <2>5. <<"code", p>> \in Asked(<<a>>)
    BY <2>2, <2>4 DEF Asked
  <2> QED BY <2>2, <2>3, <2>4, <2>5
<1> DEFINE q1 == Operations(p, s)
           q2 == Then(q1, Environment(p, s))
           q3 == Then(q2, Arrays(p, s))
           q4 == Then(q3, CapturesBack(p, s))
           q5 == Then(q4, Executable(p, s))
           q6 == Then(q5, OperationsBack(p, s))
<1> HIDE DEF q1, q2, q3, q4, q5, q6
<1>11. Requests(q1, p, A) /\ Returned(q1) = {} /\ \A k \in 1 .. n : node(k) \in Asked(q1)
  BY <1>3, Asking DEF q1
<1>12. /\ Requests(q2, p, A) /\ Returned(q2) = {} /\ \A k \in 1 .. n : node(k) \in Asked(q2)
       /\ \A k \in 1 .. c : node(n + l + k) \in Asked(q2)
  <2>1. Requests(Environment(p, s), p, {}) /\ Returned(Environment(p, s)) = {}
    BY <1>4, Asking
  <2>2. /\ Requests(q2, p, A) /\ Asked(q1) \cup Asked(Environment(p, s)) \subseteq Asked(q2)
        /\ Returned(q2) \subseteq Returned(q1) \cup Returned(Environment(p, s))
    <3>1. {} \subseteq A \cup Asked(q1) /\ Returned(q1) \cap Returned(Environment(p, s)) = {}
      BY <1>11, <2>1
    <3> QED BY <1>11, <2>1, <3>1, Joined, Zenon DEF q2
  <2> QED BY <1>4, <1>11, <2>1, <2>2
<1>13. /\ Requests(q3, p, A) /\ Returned(q3) = {} /\ \A k \in 1 .. n : node(k) \in Asked(q3)
       /\ \A k \in 1 .. c : node(n + l + k) \in Asked(q3)
       /\ <<"descriptor", p>> \in Asked(q3)
  <2>1. Requests(Arrays(p, s), p, {}) /\ Returned(Arrays(p, s)) = {}
    BY <1>5, Asking
  <2>2. /\ Requests(q3, p, A) /\ Asked(q2) \cup Asked(Arrays(p, s)) \subseteq Asked(q3)
        /\ Returned(q3) \subseteq Returned(q2) \cup Returned(Arrays(p, s))
    BY <1>12, <2>1, Joined DEF q3
  <2> QED BY <1>5, <1>12, <2>1, <2>2
<1>14. /\ Requests(q4, p, A) /\ Returned(q4) \subseteq Nodes(p, n + l, c)
       /\ \A k \in 1 .. n : node(k) \in Asked(q4)
       /\ <<"descriptor", p>> \in Asked(q4)
  <2>1. n + l \in Nat /\ Nodes(p, n + l, c) \subseteq Asked(q3)
    BY <1>1, <1>13 DEF Nodes, node
  <2>2. CapturesBack(p, s) = NodesBack(p, n + l, c)
    BY DEF CapturesBack, NodesBack, n, l, c
  <2>3. Requests(CapturesBack(p, s), p, Asked(q3)) /\ Returned(CapturesBack(p, s)) = Nodes(p, n + l, c)
    BY <1>1, <2>1, <2>2, Giving
  <2>4. /\ Requests(q4, p, A) /\ Asked(q3) \cup Asked(CapturesBack(p, s)) \subseteq Asked(q4)
        /\ Returned(q4) \subseteq Returned(q3) \cup Returned(CapturesBack(p, s))
    <3>1. Asked(q3) \subseteq A \cup Asked(q3) /\ Returned(q3) \cap Returned(CapturesBack(p, s)) = {}
      BY <1>13
    <3> QED BY <1>13, <2>3, <3>1, Joined, Zenon DEF q4
  <2> QED BY <1>13, <2>3, <2>4
<1>15. /\ Requests(q5, p, A) /\ Returned(q5) \subseteq Nodes(p, n + l, c)
       /\ \A k \in 1 .. n : node(k) \in Asked(q5)
       /\ <<"descriptor", p>> \in Asked(q5) /\ <<"code", p>> \in Asked(q5)
  <2>1. Requests(Executable(p, s), p, {}) /\ Returned(Executable(p, s)) = {}
    BY <1>6, Asking
  <2>2. /\ Requests(q5, p, A) /\ Asked(q4) \cup Asked(Executable(p, s)) \subseteq Asked(q5)
        /\ Returned(q5) \subseteq Returned(q4) \cup Returned(Executable(p, s))
    <3>1. {} \subseteq A \cup Asked(q4) /\ Returned(q4) \cap Returned(Executable(p, s)) = {}
      BY <2>1
    <3> QED BY <1>14, <2>1, <3>1, Joined, Zenon DEF q5
  <2> QED BY <1>6, <1>14, <2>1, <2>2
<1>16. Requests(q6, p, A) /\ <<"descriptor", p>> \in Asked(q6) /\ <<"code", p>> \in Asked(q6)
  <2>1. 0 \in Nat /\ Nodes(p, 0, n) \subseteq Asked(q5)
    BY <1>1, <1>15 DEF Nodes, node
  <2>2. OperationsBack(p, s) = NodesBack(p, 0, n)
    BY <1>1 DEF OperationsBack, NodesBack, n
  <2>3. Requests(OperationsBack(p, s), p, Asked(q5)) /\ Returned(OperationsBack(p, s)) = Nodes(p, 0, n)
    BY <1>1, <2>1, <2>2, Giving
  <2>4. \A i \in 1 .. c, k \in 1 .. n : <<"node", p, n + l + i>> # <<"node", p, 0 + k>>
    BY <1>1
  <2>5. /\ Asked(q5) \subseteq A \cup Asked(q5) /\ Returned(q5) \cap Returned(OperationsBack(p, s)) = {}
    BY <1>15, <2>3, <2>4 DEF Nodes
  <2>6. /\ Requests(q6, p, A) /\ Asked(q5) \cup Asked(OperationsBack(p, s)) \subseteq Asked(q6)
    BY <1>15, <2>3, <2>5, Joined, Zenon DEF q6
  <2> QED BY <1>15, <2>6
<1>17. q6 = Compilation(p, s)
  BY InPieces DEF q1, q2, q3, q4, q5, q6
<1>18. Completes(q6, p, A)
  BY <1>16 DEF Completes, Asked, Asks
<1> QED
  BY <1>16, <1>17, <1>18

---------------------------------------------------------------------------
(* The operation under way *)

LEMMA Steps ==
  ASSUME NEW n, NEW o
  PROVE  /\ Ask(n, o).do = "allocate" /\ Ask(n, o).words = n /\ Ask(n, o).owner = o
         /\ Done(o).do = "done" /\ Done(o).owner = o
         /\ Sweeping.do = "collect"
BY DEF Ask, Done, Sweeping

LEMMA DoneRequest ==
  ASSUME NEW p \in Programs PROVE Done(<<"program", p>>) \in Request
BY DEF Done, Request

LEMMA DoingIs ==
  ASSUME NEW what, Doing(what) PROVE todo # <<>> /\ Wanted.do = what
BY DEF Doing, Wanted

LEMMA DoingOnly ==
  /\ Doing("allocate") => Wanted.do # "release" /\ Wanted.do # "done" /\ Wanted.do = "allocate"
  /\ Doing("release") => Wanted.do # "allocate" /\ Wanted.do # "done" /\ Wanted.do = "release"
  /\ Doing("done") => Wanted.do # "allocate" /\ Wanted.do # "release" /\ Wanted.do = "done"
BY DoingIs

LEMMA NotSweeping ==
  ASSUME NEW what, Doing(what), what # "collect" PROVE todo # <<>> /\ todo # <<Sweeping>>
<1> SUFFICES ASSUME todo = <<Sweeping>> PROVE FALSE
  BY DoingIs
<1>1. Head(todo) = Sweeping
  BY OneStep, Zenon
<1>2. Sweeping.do = what
  BY <1>1, DoingIs DEF Wanted
<1> QED
  BY <1>2, Steps

\* What is left of a compilation.
LEMMA BuildingIs ==
  ASSUME NEW p \in Programs, NEW q \in Seq(Request), Building(p, q)
  PROVE  /\ todo # <<>> /\ Subject = <<"program", p>>
         /\ q = <<>> => Wanted.do = "done"
         /\ q # <<>> => /\ Wanted = q[1] /\ q[1] \in Request /\ Tail(q) \in Seq(Request)
                        /\ Wanted.do = "allocate" \/ Wanted.do = "release"
                        /\ Tail(todo) = Append(Tail(q), Done(<<"program", p>>))
<1> DEFINE d == Done(<<"program", p>>)
<1>1. d \in Request /\ todo = Append(q, d) /\ d.owner = <<"program", p>> /\ d.do = "done"
  BY DoneRequest, Steps DEF Building
<1> HIDE DEF d
<1>2. /\ todo # <<>> /\ todo[Len(todo)] = d
      /\ q = <<>> => Head(todo) = d /\ Tail(todo) = <<>>
      /\ q # <<>> => Head(todo) = q[1] /\ Tail(q) \in Seq(Request) /\ Tail(todo) = Append(Tail(q), d)
  BY <1>1, Queue
<1>3. q # <<>> => q[1] \in Request /\ q[1].do \in {"allocate", "release"}
  <2>1. q # <<>> => 1 \in DOMAIN q
    OBVIOUS
  <2> QED BY <2>1 DEF Building, Requests
<1> QED
  BY <1>1, <1>2, <1>3 DEF Subject, Wanted, d

LEMMA PlacingIs ==
  ASSUME NEW h, Placing(h)
  PROVE  /\ todo # <<>> /\ Subject = <<"object", h>> /\ h = nextHandle /\ h \in DOMAIN objects \ Functions
         /\ Len(values) < MaxStack
         /\ \/ /\ Wanted.do = "allocate" /\ Wanted.words = Size(objects[h].kind)
               /\ Wanted.owner = <<"object", h>> /\ Tail(todo) = <<Done(<<"object", h>>)>>
            \/ Wanted.do = "done" /\ <<"object", h>> \in DOMAIN held
<1> DEFINE o == <<"object", h>>
           a == Ask(Size(objects[h].kind), o)
           d == Done(o)
<1>1. /\ h = nextHandle /\ h \in DOMAIN objects \ Functions /\ Len(values) < MaxStack
      /\ (todo = <<a, d>> \/ (todo = <<d>> /\ o \in DOMAIN held))
  BY DEF Placing
<1>2. /\ d.owner = o /\ d.do = "done" /\ a.do = "allocate" /\ a.owner = o
      /\ a.words = Size(objects[h].kind)
  BY Steps
<1> HIDE DEF o, a, d
<1>3. CASE todo = <<a, d>>
  <2>1. todo # <<>> /\ Head(todo) = a /\ Tail(todo) = <<d>> /\ todo[Len(todo)] = d
    BY <1>3, TwoSteps, Zenon
  <2> QED BY <1>1, <1>2, <2>1, Zenon DEF Subject, Wanted, o, d
<1>4. CASE todo = <<d>> /\ o \in DOMAIN held
  <2>1. todo # <<>> /\ Head(todo) = d /\ todo[Len(todo)] = d
    BY <1>4, OneStep, Zenon
  <2> QED BY <1>1, <1>2, <1>4, <2>1, Zenon DEF Subject, Wanted, o
<1> QED
  BY <1>1, <1>3, <1>4

LEMMA NamingIs ==
  ASSUME NEW n, Naming(n)
  PROVE  /\ todo # <<>> /\ Subject = <<"word", n>> /\ n \in Names \ DOMAIN bindings
         /\ \/ /\ Wanted.do = "allocate" /\ Wanted.words = NameWords
               /\ Wanted.owner = <<"word", n>> /\ Tail(todo) = <<Done(<<"word", n>>)>>
            \/ Wanted.do = "done"
<1> DEFINE o == <<"word", n>>
           a == Ask(NameWords, o)
           d == Done(o)
<1>1. n \in Names \ DOMAIN bindings /\ (todo = <<a, d>> \/ todo = <<d>>)
  BY DEF Naming
<1>2. d.owner = o /\ d.do = "done" /\ a.do = "allocate" /\ a.owner = o /\ a.words = NameWords
  BY Steps
<1> HIDE DEF o, a, d
<1>3. CASE todo = <<a, d>>
  <2>1. todo # <<>> /\ Head(todo) = a /\ Tail(todo) = <<d>> /\ todo[Len(todo)] = d
    BY <1>3, TwoSteps, Zenon
  <2> QED BY <1>1, <1>2, <2>1, Zenon DEF Subject, Wanted, o, d
<1>4. CASE todo = <<d>>
  <2>1. todo # <<>> /\ Head(todo) = d /\ todo[Len(todo)] = d
    BY <1>4, OneStep, Zenon
  <2> QED BY <1>1, <1>2, <2>1, Zenon DEF Subject, Wanted, o
<1> QED
  BY <1>1, <1>3, <1>4

\* What is asked for becomes the block of something in the tables.
MayOwn(o) == /\ o \in Owner
             /\ \A h : o = <<"object", h>> => h \in DOMAIN objects \ Functions
             /\ o[1] \in Parts => o[2] \in DOMAIN programs
FitToAsk == Wanted.words \in Nat /\ (Wanted.words > 0 => MayOwn(Wanted.owner))

LEMMA AskForward ==
  ASSUME StorageAssumption, TablesTyped, Underway, Doing("allocate")
  PROVE  FitToAsk
<1>1. ASSUME NEW h \in Handles, Placing(h) PROVE FitToAsk
  <2>1. /\ Wanted.words = Size(objects[h].kind) /\ Wanted.owner = <<"object", h>>
        /\ h \in DOMAIN objects \ Functions
    BY <1>1, PlacingIs, DoingOnly, Zenon
  <2>2. Wanted.words \in Nat /\ Wanted.owner = <<"object", h>>
    BY <2>1 DEF Size
  <2>3. <<"object", h>> \in Owner /\ <<"object", h>>[1] \notin Parts /\ \A g : <<"object", g>> = <<"object", h>> => g = h
    BY DEF Owner, Parts
  <2> QED BY <2>1, <2>2, <2>3 DEF FitToAsk, MayOwn
<1>2. ASSUME NEW n \in Names, Naming(n) PROVE FitToAsk
  <2>1. Wanted.words = NameWords /\ Wanted.owner = <<"word", n>>
    BY <1>2, NamingIs, DoingOnly, Zenon
  <2>2. Wanted.words \in Nat /\ Wanted.owner = <<"word", n>>
    BY <2>1 DEF StorageAssumption
  <2>3. <<"word", n>> \in Owner /\ <<"word", n>>[1] \notin Parts /\ \A g : <<"object", g>> # <<"word", n>>
    BY DEF Owner, Parts
  <2> QED BY <2>2, <2>3 DEF FitToAsk, MayOwn
<1>3. ASSUME NEW p \in Programs, NEW q \in Seq(Request), Building(p, q) PROVE FitToAsk
  <2>1. q # <<>> /\ Wanted = q[1] /\ q[1].do = "allocate" /\ q[1] \in Request
    <3>1. q # <<>>
      BY <1>3, BuildingIs, DoingOnly, Zenon
    <3>2. Wanted = q[1] /\ q[1] \in Request
      BY <1>3, <3>1, BuildingIs, Zenon
    <3>3. q[1].do = Wanted.do
      BY <3>2
    <3> QED BY <1>3, <3>1, <3>2, <3>3, BuildingIs, DoingOnly, Zenon
  <2>2. q[1].words = 0 \/ For(p, q[1].owner)
    <3>1. 1 \in DOMAIN q
      BY <2>1
    <3> QED BY <1>3, <2>1, <3>1 DEF Building, Requests
  <2>3. ASSUME NEW o, For(p, o)
        PROVE  o \in Owner /\ (o[1] \in Parts => o[2] = p) /\ \A h : o # <<"object", h>>
    BY <2>3 DEF For, Own, Owner, Parts
  <2>4. q[1].words \in Nat /\ p \in DOMAIN programs
    BY <1>3, <2>1 DEF Request, Building
  <2>5. For(p, q[1].owner) => MayOwn(q[1].owner)
    BY <2>3, <2>4 DEF MayOwn
  <2> QED BY <2>1, <2>2, <2>4, <2>5 DEF FitToAsk
<1>4. todo # <<Sweeping>> /\ todo # <<>>
  BY NotSweeping
<1> QED
  BY <1>1, <1>2, <1>3, <1>4 DEF Underway

\* The request is answered, and the operation goes on.
LEMMA AskAdvance ==
  ASSUME StorageAssumption, TablesTyped, Underway, Doing("allocate"), todo' = Tail(todo),
         UNCHANGED <<objects, programs, bindings, values, running, nextHandle>>,
         DOMAIN held \subseteq DOMAIN held', Wanted.words = 0 \/ Wanted.owner \in DOMAIN held'
  PROVE  Underway' /\ todo # <<>> /\ todo' # <<>> /\ Subject' = Subject
<1> DEFINE Goal == Underway' /\ todo # <<>> /\ todo' # <<>> /\ Subject' = Subject
<1>0. Functions' = Functions /\ ProgramsOf(Functions)' = ProgramsOf(Functions)
  BY DEF Functions, ProgramsOf
<1>1. ASSUME NEW h \in Handles, Placing(h) PROVE Goal
  <2> DEFINE o == <<"object", h>>
             d == Done(o)
  <2>1. /\ todo # <<>> /\ Subject = o /\ h = nextHandle /\ h \in DOMAIN objects \ Functions
        /\ Len(values) < MaxStack
        /\ Wanted.words = Size(objects[h].kind) /\ Wanted.owner = o /\ Tail(todo) = <<d>>
    BY <1>1, PlacingIs, DoingOnly, Zenon
  <2>2. o \in DOMAIN held'
    BY <2>1 DEF Size
  <2>3. d.owner = o
    BY Steps
  <2>4. Placing(h)'
    BY <1>0, <2>1, <2>2 DEF Placing
  <2> HIDE DEF d, o
  <2>5. todo' # <<>> /\ todo'[Len(todo')] = d
    <3>1. todo' = <<d>>
      BY <2>1
    <3> QED BY <3>1, OneStep, Zenon
  <2> QED BY <2>1, <2>3, <2>4, <2>5 DEF Underway, Subject
<1>2. ASSUME NEW n \in Names, Naming(n) PROVE Goal
  <2> DEFINE o == <<"word", n>>
             d == Done(o)
  <2>1. todo # <<>> /\ Subject = o /\ n \in Names \ DOMAIN bindings /\ Tail(todo) = <<d>>
    BY <1>2, NamingIs, DoingOnly, Zenon
  <2>2. d.owner = o
    BY Steps
  <2>3. Naming(n)'
    BY <2>1 DEF Naming
  <2> HIDE DEF d, o
  <2>4. todo' # <<>> /\ todo'[Len(todo')] = d
    <3>1. todo' = <<d>>
      BY <2>1
    <3> QED BY <3>1, OneStep, Zenon
  <2> QED BY <2>1, <2>2, <2>3, <2>4 DEF Underway, Subject
<1>3. ASSUME NEW p \in Programs, NEW q \in Seq(Request), Building(p, q) PROVE Goal
  <2>1. /\ q # <<>> /\ Wanted = q[1] /\ q[1].do = "allocate" /\ Tail(q) \in Seq(Request)
        /\ todo # <<>> /\ Subject = <<"program", p>>
        /\ todo' = Append(Tail(q), Done(<<"program", p>>))
    <3>1. q # <<>>
      BY <1>3, BuildingIs, DoingOnly, Zenon
    <3>2. Wanted = q[1] /\ q[1] \in Request
      BY <1>3, <3>1, BuildingIs, Zenon
    <3>3. q[1].do = Wanted.do
      BY <3>2
    <3> QED BY <1>3, <3>1, <3>2, <3>3, BuildingIs, DoingOnly, Zenon
  <2>2. Requests(Tail(q), p, DOMAIN held') /\ Completes(Tail(q), p, DOMAIN held')
    BY <1>3, <2>1, RequestsAdvance DEF Building
  <2>3. Building(p, Tail(q))'
    BY <1>0, <1>3, <2>1, <2>2 DEF Building
  <2>4. todo' # <<>> /\ todo'[Len(todo')] = Done(<<"program", p>>)
    BY <2>1, DoneRequest, Queue
  <2>5. Underway'
    BY <2>1, <2>3, Zenon DEF Underway
  <2>6. Subject' = <<"program", p>>
    BY <2>4, Steps, Zenon DEF Subject
  <2> QED BY <2>1, <2>4, <2>5, <2>6, Zenon
<1>4. todo # <<Sweeping>> /\ todo # <<>>
  BY NotSweeping
<1> QED
  BY <1>1, <1>2, <1>3, <1>4 DEF Underway

\* A node is given back, and the operation goes on.
LEMMA GiveAdvance ==
  ASSUME StorageAssumption, TablesTyped, Underway, Doing("release"), todo' = Tail(todo),
         UNCHANGED <<objects, programs, bindings, values, running, nextHandle>>,
         DOMAIN held' = DOMAIN held \ {Wanted.owner}
  PROVE  /\ Wanted.owner \in DOMAIN held /\ Wanted.owner \in {"node"} \X Programs \X Nat
         /\ Underway' /\ todo # <<>> /\ todo' # <<>> /\ Subject' = Subject
<1> DEFINE Goal == /\ Wanted.owner \in DOMAIN held /\ Wanted.owner \in {"node"} \X Programs \X Nat
                   /\ Underway' /\ todo # <<>> /\ todo' # <<>> /\ Subject' = Subject
<1>0. Functions' = Functions /\ ProgramsOf(Functions)' = ProgramsOf(Functions)
  BY DEF Functions, ProgramsOf
<1>1. ASSUME NEW h \in Handles, Placing(h) PROVE FALSE
  BY <1>1, PlacingIs, DoingOnly, Zenon
<1>2. ASSUME NEW n \in Names, Naming(n) PROVE FALSE
  BY <1>2, NamingIs, DoingOnly, Zenon
<1>3. ASSUME NEW p \in Programs, NEW q \in Seq(Request), Building(p, q) PROVE Goal
  <2>1. /\ q # <<>> /\ Wanted = q[1] /\ q[1].do = "release" /\ Tail(q) \in Seq(Request)
        /\ todo # <<>> /\ Subject = <<"program", p>>
        /\ todo' = Append(Tail(q), Done(<<"program", p>>))
    <3>1. q # <<>>
      BY <1>3, BuildingIs, DoingOnly, Zenon
    <3>2. Wanted = q[1] /\ q[1] \in Request
      BY <1>3, <3>1, BuildingIs, Zenon
    <3>3. q[1].do = Wanted.do
      BY <3>2
    <3> QED BY <1>3, <3>1, <3>2, <3>3, BuildingIs, DoingOnly, Zenon
  <2>2. /\ Wanted.owner \in DOMAIN held /\ Wanted.owner \in {"node"} \X {p} \X Nat
        /\ Requests(Tail(q), p, DOMAIN held') /\ Completes(Tail(q), p, DOMAIN held')
    BY <1>3, <2>1, RequestsReturn DEF Building
  <2>3. Building(p, Tail(q))'
    BY <1>0, <1>3, <2>1, <2>2 DEF Building
  <2>4. todo' # <<>> /\ todo'[Len(todo')] = Done(<<"program", p>>)
    BY <2>1, DoneRequest, Queue
  <2>5. Underway'
    BY <2>1, <2>3, Zenon DEF Underway
  <2>6. Subject' = <<"program", p>>
    BY <2>4, Steps, Zenon DEF Subject
  <2>7. Wanted.owner \in {"node"} \X Programs \X Nat
    BY <2>2
  <2> QED BY <2>1, <2>2, <2>4, <2>5, <2>6, <2>7, Zenon
<1>4. todo # <<Sweeping>> /\ todo # <<>>
  BY NotSweeping
<1> QED
  BY <1>1, <1>2, <1>3, <1>4 DEF Underway

\* What has been done when an operation ends.
LEMMA Ended ==
  ASSUME StorageAssumption, TablesTyped, Underway, Doing("done")
  PROVE  /\ todo # <<>>
         /\ \A h : Subject = <<"object", h>> =>
              /\ h = nextHandle /\ h \in Handles /\ h \in DOMAIN objects \ Functions
              /\ <<"object", h>> \in DOMAIN held /\ Len(values) < MaxStack
         /\ \A n : Subject = <<"word", n>> => n \in Names \ DOMAIN bindings
         /\ \A p : Subject = <<"program", p>> =>
              /\ p \in DOMAIN programs \ ProgramsOf(Functions) /\ running = 0
              /\ programs[p].source.kind # Statement => nextHandle <= MaxHandle
              /\ \A part \in {"descriptor", "code"} : <<part, p>> \in DOMAIN held
         /\ \/ \E h : Subject = <<"object", h>>
            \/ \E n : Subject = <<"word", n>>
            \/ \E p : Subject = <<"program", p>>
<1> DEFINE Goal ==
      /\ todo # <<>>
      /\ \A h : Subject = <<"object", h>> =>
           /\ h = nextHandle /\ h \in Handles /\ h \in DOMAIN objects \ Functions
              /\ <<"object", h>> \in DOMAIN held /\ Len(values) < MaxStack
      /\ \A n : Subject = <<"word", n>> => n \in Names \ DOMAIN bindings
      /\ \A p : Subject = <<"program", p>> =>
           /\ p \in DOMAIN programs \ ProgramsOf(Functions) /\ running = 0
           /\ programs[p].source.kind # Statement => nextHandle <= MaxHandle
           /\ \A part \in {"descriptor", "code"} : <<part, p>> \in DOMAIN held
      /\ \/ \E h : Subject = <<"object", h>>
         \/ \E n : Subject = <<"word", n>>
         \/ \E p : Subject = <<"program", p>>
<1>0. \A x, y : /\ <<"object", x>> # <<"word", y>> /\ <<"object", x>> # <<"program", y>>
                /\ <<"word", x>> # <<"program", y>>
                /\ <<"object", x>> = <<"object", y>> => x = y
                /\ <<"word", x>> = <<"word", y>> => x = y
                /\ <<"program", x>> = <<"program", y>> => x = y
  OBVIOUS
<1>1. ASSUME NEW h \in Handles, Placing(h) PROVE Goal
  <2>1. /\ todo # <<>> /\ Subject = <<"object", h>> /\ h = nextHandle /\ h \in DOMAIN objects \ Functions
        /\ <<"object", h>> \in DOMAIN held /\ Len(values) < MaxStack
    BY <1>1, PlacingIs, DoingOnly, Zenon
  <2> QED BY <2>1, <1>0
<1>2. ASSUME NEW n \in Names, Naming(n) PROVE Goal
  <2>1. todo # <<>> /\ Subject = <<"word", n>> /\ n \in Names \ DOMAIN bindings
    BY <1>2, NamingIs
  <2> QED BY <2>1, <1>0
<1>3. ASSUME NEW p \in Programs, NEW q \in Seq(Request), Building(p, q) PROVE Goal
  <2>1. q = <<>> /\ todo # <<>> /\ Subject = <<"program", p>>
    BY <1>3, BuildingIs, DoingOnly, Zenon
  <2>2. \A part \in {"descriptor", "code"} : <<part, p>> \in DOMAIN held
    BY <1>3, <2>1 DEF Building, Completes
  <2> QED BY <1>0, <1>3, <2>1, <2>2 DEF Building
<1>4. todo # <<Sweeping>> /\ todo # <<>>
  BY NotSweeping
<1> QED
  BY <1>1, <1>2, <1>3, <1>4 DEF Underway

---------------------------------------------------------------------------
(* Tables *)

LEMMA OnlyDomain == ASSUME NEW f, NEW S PROVE DOMAIN Only(f, S) = DOMAIN f \cap S
BY DEF Only

LEMMA OnlyAt == ASSUME NEW f, NEW S, NEW x \in DOMAIN f, x \in S PROVE Only(f, S)[x] = f[x]
BY DEF Only

LEMMA OnlyTyped ==
  ASSUME NEW f, NEW S, NEW g, g = Only(f, S), NEW T, f \in [DOMAIN f -> T]
  PROVE  g \in [DOMAIN g -> T]
BY DEF Only

LEMMA ButDomain == ASSUME NEW f, NEW S PROVE DOMAIN But(f, S) = DOMAIN f \ S
BY DEF But, Only

LEMMA ButAt == ASSUME NEW f, NEW S, NEW x \in DOMAIN f, x \notin S PROVE But(f, S)[x] = f[x]
BY DEF But, Only

LEMMA ButTyped ==
  ASSUME NEW f, NEW S, NEW g, g = But(f, S), NEW T, f \in [DOMAIN f -> T]
  PROVE  g \in [DOMAIN g -> T]
BY OnlyTyped DEF But

LEMMA WithDomain == ASSUME NEW f, NEW x, NEW v PROVE DOMAIN With(f, x, v) = DOMAIN f \cup {x}
BY DEF With

LEMMA WithAt == ASSUME NEW f, NEW x, NEW v PROVE With(f, x, v)[x] = v
BY DEF With

LEMMA WithElse ==
  ASSUME NEW f, NEW x, NEW v, NEW y \in DOMAIN f, y # x PROVE With(f, x, v)[y] = f[y]
BY DEF With

LEMMA WithTyped ==
  ASSUME NEW f, NEW x, NEW v, NEW g, g = With(f, x, v), NEW T, f \in [DOMAIN f -> T], v \in T
  PROVE  g \in [DOMAIN g -> T]
BY DEF With

LEMMA ImageIs ==
  ASSUME NEW f, NEW T, f \in [DOMAIN f -> T]
  PROVE  Image(f) \subseteq T /\ \A x \in DOMAIN f : f[x] \in Image(f)
BY DEF Image

\* A smaller table has a smaller image.
LEMMA ImagePart ==
  ASSUME NEW f, NEW g, DOMAIN g \subseteq DOMAIN f, \A x \in DOMAIN g : g[x] = f[x]
  PROVE  Image(g) \subseteq Image(f)
BY DEF Image

\* Nothing is left of the last collection once a request is answered or an operation begins.
LEMMA NothingSwept ==
  ASSUME Inv, ~Missing
  PROVE  collected = FALSE
BY DEF Inv, Swept, TablesTyped

LEMMA SameSubject ==
  ASSUME todo # <<>>, todo' # <<>>, Subject' = Subject
  PROVE  /\ \A p : Compiling(p)' <=> Compiling(p)
         /\ \A h : Constructing(h)' <=> Constructing(h)
BY DEF Compiling, Constructing

\* Requests change the owners of blocks and nothing else.
LEMMA SameTables ==
  ASSUME Inv, UNCHANGED <<records, bindings, execution, nested, counters>>, collected' \in BOOLEAN
  PROVE  /\ TablesTyped' /\ ReferencesStand' /\ Functions' = Functions /\ Standing' = Standing
         /\ UNCHANGED <<objects, programs, bindings, values, running, nextHandle>>
         /\ ProgramsOf(Functions)' = ProgramsOf(Functions)
<1>1. UNCHANGED <<objects, programs, bindings, values, frames, running, nested, nextHandle, nextProgram>>
  BY DEF records, execution, counters
<1>2. TablesTyped' /\ Functions' = Functions /\ Standing' = Standing
  BY <1>1 DEF Inv, TablesTyped, Functions, Standing
<1>3. ReferencesStand'
  BY <1>1, <1>2 DEF Inv, ReferencesStand, ExecutionStands, RecordsStand, Reference, Frame, Saved
<1>4. ProgramsOf(Functions)' = ProgramsOf(Functions)
  BY <1>1, <1>2 DEF ProgramsOf
<1> QED
  BY <1>1, <1>2, <1>3, <1>4

\* What objects own stays where it is, and so does what functions need.
LEMMA StillPlaced ==
  ASSUME Inv, UNCHANGED <<records, bindings, execution, nested, counters>>,
         \A o \in DOMAIN held : o[1] # "node" => o \in DOMAIN held',
         todo # <<>>, todo' # <<>>, Subject' = Subject
  PROVE  ObjectsPlaced'
<1>1. /\ UNCHANGED <<objects, programs, running, nextHandle>>
      /\ Functions' = Functions /\ Standing' = Standing /\ ProgramsOf(Functions)' = ProgramsOf(Functions)
  <2>1. UNCHANGED <<objects, programs, running, nextHandle>>
    BY DEF records, execution, counters
  <2> QED BY <2>1 DEF Functions, Standing, ProgramsOf
<1>2. \A x : <<"object", x>>[1] # "node" /\ <<"descriptor", x>>[1] # "node" /\ <<"code", x>>[1] # "node"
  OBVIOUS
<1>3. \A h \in Functions : \A part \in {"descriptor", "code"} : <<part, objects[h].program>> \in DOMAIN held'
  BY <1>2 DEF Inv, ObjectsPlaced
<1>4. \A h \in Standing \ Functions : <<"object", h>> \in DOMAIN held'
  BY <1>2 DEF Inv, ObjectsPlaced
<1> QED
  BY <1>1, <1>3, <1>4, SameSubject DEF Inv, ObjectsPlaced

LEMMA AlreadyHeldKeeps ==
  ASSUME StorageAssumption, Inv, AlreadyHeld
  PROVE  Inv'
<1>1. /\ Doing("allocate") /\ ~Missing /\ todo' = Tail(todo) /\ UNCHANGED <<heap, held, collected>>
      /\ UNCHANGED <<records, bindings, execution, nested, counters>>
  BY DEF AlreadyHeld, storage
<1>2. /\ TablesTyped' /\ ReferencesStand' /\ Functions' = Functions
      /\ UNCHANGED <<objects, programs, bindings, values, running, nextHandle>>
  <2>1. collected' \in BOOLEAN
    BY <1>1 DEF Inv, TablesTyped
  <2> QED BY <1>1, <2>1, SameTables
<1>3. Wanted.words = 0 \/ Wanted.owner \in DOMAIN held
  <2>1. Wanted.words \in Nat
    BY <1>1, AskForward DEF Inv, FitToAsk
  <2> QED BY <1>1, <2>1 DEF Missing
<1>4. Underway' /\ todo # <<>> /\ todo' # <<>> /\ Subject' = Subject
  BY <1>1, <1>2, <1>3, AskAdvance DEF Inv
<1>5. ObjectsPlaced'
  BY <1>1, <1>4, StillPlaced
<1>6. BlocksOwned'
  <2>1. Allocator!Inv' /\ live' = live
    BY <1>1, Untouched DEF Inv, BlocksOwned
  <2> QED BY <1>1, <1>2, <2>1 DEF Inv, BlocksOwned, SoleOwner, Heap!Extent
<1>7. Swept'
  BY <1>1, NothingSwept DEF Swept
<1> QED
  BY <1>2, <1>4, <1>5, <1>6, <1>7 DEF Inv

LEMMA AllocateKeeps ==
  ASSUME StorageAssumption, Inv, Allocate
  PROVE  Inv'
<1>1. PICK r \in Heap!Block : /\ Heap!TryAllocate(Wanted.words, r)
                              /\ held' = With(held, Wanted.owner, r)
  BY DEF Allocate
<1>2. /\ Doing("allocate") /\ Missing /\ todo' = Tail(todo) /\ collected' = FALSE
      /\ UNCHANGED <<records, bindings, execution, nested, counters>>
  BY DEF Allocate, Missing
<1>3. /\ TablesTyped' /\ ReferencesStand' /\ Functions' = Functions
      /\ UNCHANGED <<objects, programs, bindings, values, running, nextHandle>>
  BY <1>2, SameTables
<1>4. Wanted.words \in Nat \ {0} /\ MayOwn(Wanted.owner) /\ Wanted.owner \notin DOMAIN held
  BY <1>2, AskForward DEF Inv, FitToAsk, Missing
<1>5. /\ DOMAIN held' = DOMAIN held \cup {Wanted.owner} /\ held'[Wanted.owner] = r
      /\ \A o \in DOMAIN held : held'[o] = held[o]
      /\ held' \in [DOMAIN held' -> Heap!Block]
  <2>1. held \in [DOMAIN held -> Heap!Block]
    BY DEF Inv, BlocksOwned
  <2>2. held' \in [DOMAIN held' -> Heap!Block]
    BY <1>1, <2>1, WithTyped
  <2>3. DOMAIN held' = DOMAIN held \cup {Wanted.owner}
    BY <1>1, WithDomain
  <2>4. held'[Wanted.owner] = r
    BY <1>1, WithAt
  <2>5. \A o \in DOMAIN held : held'[o] = held[o]
    BY <1>1, <1>4, WithElse
  <2> QED BY <2>2, <2>3, <2>4, <2>5
<1>6. Underway' /\ todo # <<>> /\ todo' # <<>> /\ Subject' = Subject
  BY <1>2, <1>3, <1>5, AskAdvance DEF Inv
<1>7. ObjectsPlaced'
  BY <1>2, <1>5, <1>6, StillPlaced
<1>8. BlocksOwned'
  <2>1. /\ Allocator!Inv' /\ live' = live \cup {r}
        /\ \A b \in live : Heap!Extent(b) \cap Heap!Extent(r) = {}
    BY <1>1, <1>4, Obtained DEF Inv, BlocksOwned
  <2>2. Image(held') \subseteq live'
    BY <1>5, <2>1 DEF Inv, BlocksOwned, SoleOwner, Image
  <2>3. ASSUME NEW o \in DOMAIN held', NEW q \in DOMAIN held', o # q
        PROVE  Heap!Extent(held'[o]) \cap Heap!Extent(held'[q]) = {}
    <3>1. \A x \in DOMAIN held : held[x] \in live
      BY DEF Inv, BlocksOwned, SoleOwner, Image
    <3>2. \A x, y \in DOMAIN held : x # y => Heap!Extent(held[x]) \cap Heap!Extent(held[y]) = {}
      BY DEF Inv, BlocksOwned, SoleOwner
    <3> QED BY <1>5, <2>1, <2>3, <3>1, <3>2
  <2>4. SoleOwner'
    BY <2>2, <2>3 DEF SoleOwner, Heap!Extent
  <2>5. DOMAIN held' \subseteq Owner
    BY <1>4, <1>5 DEF Inv, BlocksOwned, MayOwn
  <2>6. \A h : <<"object", h>> \in DOMAIN held' => h \in DOMAIN objects \ Functions
    BY <1>4, <1>5 DEF Inv, BlocksOwned, MayOwn
  <2>7. \A o \in DOMAIN held' : o[1] \in Parts => o[2] \in DOMAIN programs
    BY <1>4, <1>5 DEF Inv, BlocksOwned, MayOwn
  <2>8. Heap!Block' = Heap!Block
    OBVIOUS
  <2> QED BY <1>3, <1>5, <2>1, <2>4, <2>5, <2>6, <2>7, <2>8 DEF BlocksOwned
<1>9. Swept'
  BY <1>2 DEF Swept
<1> QED
  BY <1>3, <1>6, <1>7, <1>8, <1>9 DEF Inv

LEMMA ReleaseKeeps ==
  ASSUME StorageAssumption, Inv, Release
  PROVE  Inv'
<1>1. /\ Doing("release") /\ Heap!Release(held[Wanted.owner]) /\ held' = But(held, {Wanted.owner})
      /\ todo' = Tail(todo) /\ UNCHANGED collected
      /\ UNCHANGED <<records, bindings, execution, nested, counters>>
  BY DEF Release, Released
<1>2. /\ TablesTyped' /\ ReferencesStand' /\ Functions' = Functions
      /\ UNCHANGED <<objects, programs, bindings, values, running, nextHandle>>
  <2>1. collected' \in BOOLEAN
    BY <1>1 DEF Inv, TablesTyped
  <2> QED BY <1>1, <2>1, SameTables
<1>3. /\ DOMAIN held' = DOMAIN held \ {Wanted.owner}
      /\ \A o \in DOMAIN held' : held'[o] = held[o]
      /\ held' \in [DOMAIN held' -> Heap!Block]
  <2>1. held \in [DOMAIN held -> Heap!Block]
    BY DEF Inv, BlocksOwned
  <2>2. held' \in [DOMAIN held' -> Heap!Block]
    BY <1>1, <2>1, ButTyped
  <2>3. DOMAIN held' = DOMAIN held \ {Wanted.owner}
    BY <1>1, ButDomain
  <2>4. \A o \in DOMAIN held \ {Wanted.owner} : held'[o] = held[o]
    BY <1>1, ButAt
  <2> QED BY <2>2, <2>3, <2>4
<1>4. /\ Wanted.owner \in DOMAIN held /\ Wanted.owner \in {"node"} \X Programs \X Nat
      /\ Underway' /\ todo # <<>> /\ todo' # <<>> /\ Subject' = Subject
  BY <1>1, <1>2, <1>3, GiveAdvance DEF Inv
<1>5. ObjectsPlaced'
  <2>1. Wanted.owner[1] = "node"
    BY <1>4
  <2> QED BY <1>1, <1>3, <1>4, <2>1, StillPlaced
<1>6. BlocksOwned'
  <2>1. Allocator!Inv' /\ live' = live \ {held[Wanted.owner]}
    BY <1>1, GivenBack DEF Inv, BlocksOwned
  <2>2. \A x, y \in DOMAIN held : x # y => Heap!Extent(held[x]) \cap Heap!Extent(held[y]) = {}
    BY DEF Inv, BlocksOwned, SoleOwner
  <2>3. \A x \in DOMAIN held : held[x] \in live /\ Heap!Extent(held[x]) # {}
    <3>1. \A b \in Heap!Block : b.address \in Heap!Extent(b)
      BY DEF Heap!Block, Heap!Extent, Heap!Arena, StorageAssumption
    <3> QED BY <3>1 DEF Inv, BlocksOwned, SoleOwner, Image
  <2>4. Image(held') \subseteq live'
    BY <1>3, <1>4, <2>1, <2>2, <2>3 DEF Image
  <2>5. SoleOwner'
    BY <1>3, <2>2, <2>4 DEF SoleOwner, Heap!Extent
  <2> QED BY <1>2, <1>3, <2>1, <2>5 DEF Inv, BlocksOwned
<1>7. Swept'
  <2>1. ~Missing
    BY <1>1, DoingOnly DEF Missing
  <2> QED BY <1>1, <2>1, NothingSwept DEF Swept
<1> QED
  BY <1>2, <1>4, <1>5, <1>6, <1>7 DEF Inv

---------------------------------------------------------------------------
(* Execution *)

LEMMA IdleIs ==
  ASSUME Inv, Idle
  PROVE  /\ ~Missing /\ collected = FALSE /\ Standing = DOMAIN objects
         /\ \A p \in DOMAIN programs : p = running \/ p \in ProgramsOf(Functions)
<1>1. ~Missing /\ todo = <<>>
  BY DEF Idle, Missing, Doing
<1>2. \A x : ~Compiling(x) /\ ~Constructing(x)
  BY <1>1 DEF Compiling, Constructing
<1>3. Standing = DOMAIN objects
  BY <1>2 DEF Inv, ObjectsPlaced, Standing
<1> QED
  BY <1>1, <1>2, <1>3, NothingSwept DEF Inv, ObjectsPlaced

LEMMA SameReferences ==
  ASSUME UNCHANGED <<objects, nextHandle>>
  PROVE  Functions' = Functions /\ Standing' = Standing /\ Reference' = Reference /\ Saved' = Saved /\ Frame' = Frame
BY DEF Functions, Standing, Reference, Saved, Frame

\* Steps that leave storage and the records alone.
LEMMA ExecutionKeeps ==
  ASSUME StorageAssumption, Inv, Idle, UNCHANGED <<storage, records, running, collected, counters>>,
         ExecutionStands', Underway'
  PROVE  Inv'
<1>1. /\ UNCHANGED <<heap, held, objects, programs, running, collected, nextHandle, nextProgram>>
      /\ Functions' = Functions /\ Standing' = Standing /\ Reference' = Reference
      /\ ProgramsOf(Functions)' = ProgramsOf(Functions)
  <2>1. UNCHANGED <<heap, held, objects, programs, running, collected, nextHandle, nextProgram>>
    BY DEF storage, records, counters
  <2>2. Functions' = Functions /\ Standing' = Standing /\ Reference' = Reference
    BY <2>1, SameReferences
  <2> QED BY <2>1, <2>2 DEF ProgramsOf
<1>2. TablesTyped'
  BY <1>1 DEF Inv, TablesTyped
<1>3. ReferencesStand'
  BY <1>1 DEF Inv, ReferencesStand, RecordsStand
<1>4. ObjectsPlaced'
  BY <1>1, IdleIs DEF Inv, ObjectsPlaced
<1>5. BlocksOwned'
  <2>1. Allocator!Inv' /\ live' = live
    BY <1>1, Untouched DEF Inv, BlocksOwned
  <2> QED BY <1>1, <2>1 DEF Inv, BlocksOwned, SoleOwner, Heap!Extent
<1>6. Swept'
  BY <1>1, IdleIs DEF Swept
<1> QED
  BY <1>2, <1>3, <1>4, <1>5, <1>6 DEF Inv

LEMMA Below ==
  ASSUME NEW S, NEW q \in Seq(S), NEW n \in Nat, n <= Len(q)
  PROVE  SubSeq(q, 1, Len(q) - n) \in Seq(S) /\ Len(SubSeq(q, 1, Len(q) - n)) = Len(q) - n
<1> DEFINE m == Len(q) - n
<1>1. m \in Nat /\ m <= Len(q) /\ \A i \in 1 .. m : q[i] \in S
  OBVIOUS
<1> HIDE DEF m
<1>2. 1 \in Int /\ m \in Int /\ (IF 1 <= m THEN m - 1 + 1 ELSE 0) = m
  BY <1>1
<1>3. SubSeq(q, 1, m) \in Seq(S) /\ Len(SubSeq(q, 1, m)) = IF 1 <= m THEN m - 1 + 1 ELSE 0
  BY <1>1, <1>2, SubSeqProperties
<1> QED
  BY <1>2, <1>3 DEF m

LEMMA OnStack ==
  ASSUME NEW S, NEW q \in Seq(S), NEW x \in S
  PROVE  /\ Append(q, x) \in Seq(S) /\ Len(Append(q, x)) = Len(q) + 1
         /\ q # <<>> => /\ q[Len(q)] \in S /\ Len(q) \in Nat \ {0}
                        /\ SubSeq(q, 1, Len(q) - 1) \in Seq(S) /\ Len(SubSeq(q, 1, Len(q) - 1)) = Len(q) - 1
<1>1. Append(q, x) \in Seq(S) /\ Len(Append(q, x)) = Len(q) + 1
  OBVIOUS
<1>2. ASSUME q # <<>>
      PROVE  /\ q[Len(q)] \in S /\ Len(q) \in Nat \ {0}
             /\ SubSeq(q, 1, Len(q) - 1) \in Seq(S) /\ Len(SubSeq(q, 1, Len(q) - 1)) = Len(q) - 1
  <2>1. Len(q) \in Nat \ {0} /\ q[Len(q)] \in S
    BY <1>2
  <2>2. 1 \in Nat /\ 1 <= Len(q)
    BY <2>1
  <2> QED BY <2>1, <2>2, Below
<1> QED
  BY <1>1, <1>2

LEMMA IdleStays ==
  ASSUME Idle, UNCHANGED operation PROVE Underway' /\ UNCHANGED collected
BY DEF Idle, operation, Underway

LEMMA LoadKeeps ==
  ASSUME StorageAssumption, Inv, NEW n, Load(n)
  PROVE  Inv'
<1>1. /\ Idle /\ n \in DOMAIN bindings /\ Len(values) < MaxStack /\ values' = Append(values, bindings[n])
      /\ UNCHANGED <<storage, records, bindings, frames, nested, running, operation, counters>>
  BY DEF Load, Running
<1>2. /\ bindings[n] \in Reference /\ values \in Seq(Reference) /\ MaxStack \in Nat
      /\ UNCHANGED <<objects, nextHandle>>
  BY <1>1 DEF Inv, ReferencesStand, ExecutionStands, StorageAssumption, records, counters
<1>3. values' \in Seq(Reference) /\ Len(values') <= MaxStack
  BY <1>1, <1>2, OnStack
<1>4. ExecutionStands'
  BY <1>1, <1>2, <1>3, SameReferences DEF Inv, ReferencesStand, ExecutionStands
<1> QED
  BY <1>1, <1>4, IdleStays, ExecutionKeeps

LEMMA StoreKeeps ==
  ASSUME StorageAssumption, Inv, NEW n, Store(n)
  PROVE  Inv'
<1>1. /\ Idle /\ n \in DOMAIN bindings /\ values # <<>>
      /\ bindings' = [bindings EXCEPT ![n] = values[Len(values)]]
      /\ values' = SubSeq(values, 1, Len(values) - 1)
      /\ UNCHANGED <<storage, records, frames, nested, running, operation, counters>>
  BY DEF Store, Running, Dropped
<1>2. /\ bindings \in [DOMAIN bindings -> Reference] /\ values \in Seq(Reference) /\ MaxStack \in Nat
      /\ Len(values) <= MaxStack /\ DOMAIN bindings \subseteq Names
      /\ UNCHANGED <<objects, nextHandle>>
  BY <1>1 DEF Inv, ReferencesStand, ExecutionStands, StorageAssumption, records, counters
<1>3. /\ values' \in Seq(Reference) /\ Len(values') <= MaxStack /\ values[Len(values)] \in Reference
  BY <1>1, <1>2, OnStack
<1>4. DOMAIN bindings' = DOMAIN bindings /\ bindings' \in [DOMAIN bindings -> Reference]
  BY <1>1, <1>2, <1>3
<1>5. ExecutionStands'
  BY <1>1, <1>2, <1>3, <1>4, SameReferences DEF Inv, ReferencesStand, ExecutionStands
<1> QED
  BY <1>1, <1>5, IdleStays, ExecutionKeeps

LEMMA EraseKeeps ==
  ASSUME StorageAssumption, Inv, Erase
  PROVE  Inv'
<1>1. /\ Idle /\ values # <<>> /\ values' = SubSeq(values, 1, Len(values) - 1)
      /\ UNCHANGED <<storage, records, bindings, frames, nested, running, operation, counters>>
  BY DEF Erase, Running, Dropped
<1>2. /\ values \in Seq(Reference) /\ MaxStack \in Nat /\ Len(values) <= MaxStack
      /\ UNCHANGED <<objects, nextHandle>>
  BY <1>1 DEF Inv, ReferencesStand, ExecutionStands, StorageAssumption, records, counters
<1>3. values' \in Seq(Reference) /\ Len(values') <= MaxStack
  BY <1>1, <1>2, OnStack
<1>4. ExecutionStands'
  BY <1>1, <1>2, <1>3, SameReferences DEF Inv, ReferencesStand, ExecutionStands
<1> QED
  BY <1>1, <1>4, IdleStays, ExecutionKeeps

LEMMA AbandonKeeps ==
  ASSUME StorageAssumption, Inv, Abandon
  PROVE  Inv'
<1>1. /\ Idle /\ nested' = {} /\ values' = <<>>
      /\ UNCHANGED <<storage, records, bindings, frames, running, operation, counters>>
  BY DEF Abandon
<1>2. MaxStack \in Nat /\ UNCHANGED <<objects, nextHandle>>
  BY <1>1 DEF StorageAssumption, records, counters
<1>3. values' \in Seq(Reference) /\ Len(values') <= MaxStack
  BY <1>1, <1>2
<1>4. ExecutionStands'
  BY <1>1, <1>2, <1>3, SameReferences DEF Inv, ReferencesStand, ExecutionStands
<1> QED
  BY <1>1, <1>4, IdleStays, ExecutionKeeps

LEMMA SavedIs ==
  ASSUME NEW f
  PROVE  f \in Saved <=> DOMAIN f \subseteq Names /\ f \in [DOMAIN f -> Reference]
<1>1. ASSUME f \in Saved PROVE DOMAIN f \subseteq Names /\ f \in [DOMAIN f -> Reference]
  <2>1. PICK N \in SUBSET Names : f \in [N -> Reference]
    BY <1>1 DEF Saved
  <2> QED BY <2>1
<1>2. ASSUME DOMAIN f \subseteq Names, f \in [DOMAIN f -> Reference] PROVE f \in Saved
  BY <1>2 DEF Saved
<1> QED
  BY <1>1, <1>2

LEMMA FrameIs ==
  ASSUME NEW r \in Frame
  PROVE  r.function \in Functions /\ DOMAIN r.saved \subseteq Names /\ r.saved \in [DOMAIN r.saved -> Reference]
<1>1. r.function \in Functions /\ r.saved \in Saved
  BY DEF Frame
<1> QED
  BY <1>1, SavedIs

LEMMA CallKeeps ==
  ASSUME StorageAssumption, Inv, NEW n, Call(n)
  PROVE  Inv'
<1> DEFINE locals == Image(programs[objects[bindings[n]].program].source.locals)
           saved == Only(bindings, locals)
           frame == [function |-> bindings[n], saved |-> saved]
<1>1. /\ Idle /\ n \in DOMAIN bindings /\ bindings[n] \in Functions
      /\ frames' = Append(frames, frame)
      /\ bindings' = [m \in DOMAIN bindings |-> IF m \in locals THEN 0 ELSE bindings[m]]
      /\ UNCHANGED <<storage, records, values, nested, running, operation, counters>>
  BY DEF Call, Running
<1>2. /\ bindings \in [DOMAIN bindings -> Reference] /\ DOMAIN bindings \subseteq Names
      /\ frames \in Seq(Frame)
      /\ UNCHANGED <<objects, nextHandle>>
  BY <1>1 DEF Inv, ReferencesStand, ExecutionStands, StorageAssumption, records, counters
<1>3. saved \in Saved
  <2>1. saved \in [DOMAIN saved -> Reference]
    BY <1>2, OnlyTyped
  <2>2. DOMAIN saved \subseteq Names
    BY <1>2, OnlyDomain
  <2> HIDE DEF saved
  <2> QED BY <2>1, <2>2, SavedIs
<1>4. DOMAIN bindings' = DOMAIN bindings /\ bindings' \in [DOMAIN bindings -> Reference]
  <2>1. 0 \in Reference
    BY DEF Reference
  <2> HIDE DEF locals
  <2> QED BY <1>1, <1>2, <2>1
<1>5. frames' \in Seq(Frame)
  <2> HIDE DEF saved
  <2>1. frame \in Frame
    BY <1>1, <1>3 DEF Frame
  <2> HIDE DEF frame
  <2> QED BY <1>1, <1>2, <2>1, OnStack
<1>6. ExecutionStands'
  BY <1>1, <1>2, <1>4, <1>5, SameReferences DEF Inv, ReferencesStand, ExecutionStands
<1> QED
  BY <1>1, <1>6, IdleStays, ExecutionKeeps

LEMMA ReturnKeeps ==
  ASSUME StorageAssumption, Inv, Return
  PROVE  Inv'
<1> DEFINE saved == frames[Len(frames)].saved
<1>1. /\ Idle /\ frames # <<>> /\ frames' = SubSeq(frames, 1, Len(frames) - 1)
      /\ bindings' = Over(saved, bindings)
      /\ UNCHANGED <<storage, records, values, nested, running, operation, counters>>
  BY DEF Return, Running
<1>2. /\ bindings \in [DOMAIN bindings -> Reference] /\ DOMAIN bindings \subseteq Names
      /\ frames \in Seq(Frame)
      /\ UNCHANGED <<objects, nextHandle>>
  BY <1>1 DEF Inv, ReferencesStand, ExecutionStands, StorageAssumption, records, counters
<1>3. frames' \in Seq(Frame) /\ frames[Len(frames)] \in Frame
  BY <1>1, <1>2, OnStack
<1>4. DOMAIN saved \subseteq Names /\ saved \in [DOMAIN saved -> Reference]
  BY <1>3, FrameIs
<1>5. DOMAIN bindings' \subseteq Names /\ bindings' \in [DOMAIN bindings' -> Reference]
  <2> HIDE DEF saved
  <2> QED BY <1>1, <1>2, <1>4 DEF Over
<1>6. ExecutionStands'
  BY <1>1, <1>2, <1>3, <1>5, SameReferences DEF Inv, ReferencesStand, ExecutionStands
<1> QED
  BY <1>1, <1>6, IdleStays, ExecutionKeeps

LEMMA InternKeeps ==
  ASSUME StorageAssumption, Inv, NEW n \in Names, Intern(n)
  PROVE  Inv'
<1>1. /\ Idle /\ n \notin DOMAIN bindings /\ todo' = <<Ask(NameWords, <<"word", n>>), Done(<<"word", n>>)>>
      /\ UNCHANGED <<storage, records, bindings, execution, nested, collected, counters>>
  BY DEF Intern
<1>2. UNCHANGED <<objects, nextHandle, values, frames, running>>
  BY <1>1 DEF records, counters, execution
<1>3. Naming(n)'
  BY <1>1 DEF Naming
<1>4. Underway'
  BY <1>3 DEF Underway
<1>5. ExecutionStands'
  BY <1>1, <1>2, SameReferences DEF Inv, ReferencesStand, ExecutionStands
<1> QED
  BY <1>1, <1>2, <1>4, <1>5, ExecutionKeeps

---------------------------------------------------------------------------
(* Operations that begin and end *)

\* Steps that leave storage alone, and keep what owns it.
LEMMA BlocksStay ==
  ASSUME Inv, UNCHANGED storage, DOMAIN objects \ Functions \subseteq (DOMAIN objects \ Functions)',
         DOMAIN programs \subseteq DOMAIN programs'
  PROVE  BlocksOwned'
<1>1. UNCHANGED <<heap, held>>
  BY DEF storage
<1>2. Allocator!Inv' /\ live' = live
  BY <1>1, Untouched DEF Inv, BlocksOwned
<1> QED
  BY <1>1, <1>2 DEF Inv, BlocksOwned, SoleOwner, Heap!Extent

LEMMA Subjects ==
  ASSUME StorageAssumption, Inv, Doing("done")
  PROVE  /\ ~Missing /\ collected = FALSE
         /\ Subject[1] = "object" => Constructing(Subject[2]) /\ \A p : ~Compiling(p)
         /\ Subject[1] = "program" => Compiling(Subject[2]) /\ \A h : ~Constructing(h)
         /\ Subject[1] = "word" => /\ Subject = <<"word", Subject[2]>>
                                   /\ \A x : ~Compiling(x) /\ ~Constructing(x)
<1>1. ~Missing /\ collected = FALSE /\ todo # <<>>
  BY DoingOnly, DoingIs, NothingSwept DEF Missing
<1>2. CASE \E h : Subject = <<"object", h>>
  BY <1>1, <1>2 DEF Constructing, Compiling
<1>3. CASE \E n : Subject = <<"word", n>>
  BY <1>1, <1>3 DEF Constructing, Compiling
<1>4. CASE \E p : Subject = <<"program", p>>
  BY <1>1, <1>4 DEF Constructing, Compiling
<1> QED
  BY <1>2, <1>3, <1>4, Ended DEF Inv

LEMMA InternedKeeps ==
  ASSUME StorageAssumption, Inv, Interned
  PROVE  Inv'
<1> DEFINE n == Subject[2]
<1>1. /\ Doing("done") /\ Subject[1] = "word" /\ bindings' = With(bindings, n, 0) /\ todo' = <<>>
      /\ UNCHANGED <<storage, records, execution, nested, collected, counters>>
  BY DEF Interned
<1>2. UNCHANGED <<objects, programs, values, frames, running, nextHandle, nextProgram>>
  BY <1>1 DEF records, counters, execution
<1>3. /\ n \in Names /\ \A x : ~Compiling(x) /\ ~Constructing(x)
      /\ collected = FALSE
  BY <1>1, Subjects, Ended DEF Inv
<1> HIDE DEF n
<1>4. /\ Functions' = Functions /\ Standing' = Standing /\ Reference' = Reference /\ Frame' = Frame
      /\ ProgramsOf(Functions)' = ProgramsOf(Functions)
  BY <1>2, SameReferences DEF ProgramsOf
<1>5. ExecutionStands'
  <2>1. /\ bindings \in [DOMAIN bindings -> Reference] /\ 0 \in Reference /\ DOMAIN bindings \subseteq Names
    BY DEF Inv, ReferencesStand, ExecutionStands, Reference
  <2>2. bindings' \in [DOMAIN bindings' -> Reference]
    BY <1>1, <2>1, WithTyped
  <2>3. DOMAIN bindings' \subseteq Names
    <3>1. DOMAIN bindings' = DOMAIN bindings \cup {n}
      BY <1>1, WithDomain
    <3> QED BY <1>3, <2>1, <3>1
  <2> QED BY <1>1, <1>2, <1>4, <2>2, <2>3 DEF Inv, ReferencesStand, ExecutionStands
<1>6. TablesTyped' /\ RecordsStand'
  BY <1>1, <1>2, <1>4 DEF Inv, TablesTyped, ReferencesStand, RecordsStand
<1>7. ObjectsPlaced'
  BY <1>1, <1>2, <1>3, <1>4 DEF Inv, ObjectsPlaced, storage
<1>8. BlocksOwned'
  BY <1>1, <1>2, <1>4, BlocksStay
<1>9. Underway' /\ Swept'
  BY <1>1, <1>3 DEF Underway, Swept
<1> QED
  BY <1>5, <1>6, <1>7, <1>8, <1>9 DEF Inv, ReferencesStand

LEMMA ObjectMadeKeeps ==
  ASSUME StorageAssumption, Inv, ObjectMade
  PROVE  Inv'
<1> DEFINE h == Subject[2]
<1>1. /\ Doing("done") /\ Subject[1] = "object" /\ values' = Append(values, h) /\ todo' = <<>>
      /\ nextHandle' = nextHandle + 1
      /\ UNCHANGED <<storage, records, bindings, frames, nested, running, collected, nextProgram>>
  BY DEF ObjectMade
<1>2. /\ h = nextHandle /\ h \in Handles /\ h \in DOMAIN objects \ Functions
      /\ <<"object", h>> \in DOMAIN held /\ Len(values) < MaxStack
      /\ \A p : ~Compiling(p)
      /\ collected = FALSE
  <2>1. Subject = <<"object", h>> /\ (\A p : ~Compiling(p)) /\ collected = FALSE
    BY <1>1, Subjects DEF Constructing
  <2> HIDE DEF h
  <2> QED BY <1>1, <2>1, Ended DEF Inv
<1> HIDE DEF h
<1>3. UNCHANGED <<objects, programs>> /\ nextHandle \in Nat
  BY <1>1 DEF records, Inv, TablesTyped
<1>4. /\ Functions' = Functions /\ ProgramsOf(Functions)' = ProgramsOf(Functions)
  BY <1>3 DEF Functions, ProgramsOf
<1>5. Standing \subseteq Standing' /\ Standing' = DOMAIN objects /\ DOMAIN objects \ Standing \subseteq {h}
  <2>1. DOMAIN objects \subseteq Nat
    BY DEF Inv, TablesTyped, Handles
  <2>2. \A x \in DOMAIN objects \ Standing : x = nextHandle
    BY DEF Inv, ObjectsPlaced
  <2>3. \A x \in DOMAIN objects : x < nextHandle' <=> x < nextHandle \/ x = nextHandle
    BY <1>1, <1>3, <2>1
  <2>4. Standing \subseteq Standing'
    BY <1>3, <2>3 DEF Standing
  <2>5. Standing' = DOMAIN objects
    BY <1>3, <2>2, <2>3 DEF Standing
  <2> QED BY <1>2, <2>2, <2>4, <2>5
<1>6. Reference \subseteq Reference' /\ Saved \subseteq Saved' /\ Frame \subseteq Frame' /\ h \in Reference'
  <2>1. Reference \subseteq Reference' /\ h \in Reference'
    BY <1>2, <1>5 DEF Reference
  <2>2. Saved \subseteq Saved'
    BY <2>1 DEF Saved
  <2> QED BY <1>4, <2>1, <2>2 DEF Frame
<1>7. ExecutionStands'
  <2>1. values \in Seq(Reference') /\ frames \in Seq(Frame') /\ bindings \in [DOMAIN bindings -> Reference']
    BY <1>6 DEF Inv, ReferencesStand, ExecutionStands
  <2>2. values' \in Seq(Reference') /\ Len(values') <= MaxStack
    <3>1. MaxStack \in Nat /\ Len(values) \in Nat
      BY <2>1 DEF StorageAssumption
    <3> QED BY <1>1, <1>2, <1>6, <2>1, <3>1, OnStack
  <2> QED BY <1>1, <1>4, <2>1, <2>2 DEF Inv, ReferencesStand, ExecutionStands
<1>8. TablesTyped' /\ RecordsStand'
  <2>1. nextHandle' \in 1 .. MaxHandle + 1
    BY <1>1, <1>2 DEF Handles, StorageAssumption
  <2>2. TablesTyped'
    BY <1>1, <1>3, <2>1 DEF Inv, TablesTyped
  <2>3. RecordsStand'
    BY <1>3, <1>4, <1>6 DEF Inv, ReferencesStand, RecordsStand
  <2> QED BY <2>2, <2>3
<1>9. ObjectsPlaced'
  BY <1>1, <1>2, <1>3, <1>4, <1>5 DEF Inv, ObjectsPlaced, storage
<1>10. BlocksOwned'
  BY <1>1, <1>3, <1>4, BlocksStay
<1>11. Underway' /\ Swept'
  BY <1>1, <1>2 DEF Underway, Swept
<1> QED
  BY <1>7, <1>8, <1>9, <1>10, <1>11 DEF Inv, ReferencesStand

LEMMA EndStatementKeeps ==
  ASSUME StorageAssumption, Inv, EndStatement
  PROVE  Inv'
<1>1. /\ Idle /\ running # 0 /\ held' = But(held, PartsOf({running})) /\ programs' = But(programs, {running})
      /\ frames' = <<>> /\ values' \in {values, <<>>} /\ running' = 0
      /\ UNCHANGED <<heap, objects, bindings, nested, operation, counters>>
  BY DEF EndStatement, Running
<1>2. UNCHANGED <<objects, nextHandle, nextProgram, todo, collected>> /\ todo = <<>>
  BY <1>1 DEF counters, operation, Idle
<1>3. /\ Functions' = Functions /\ Standing' = Standing /\ Reference' = Reference /\ Frame' = Frame
      /\ ProgramsOf(Functions)' = ProgramsOf(Functions)
  BY <1>2, SameReferences DEF ProgramsOf
<1>4. /\ DOMAIN held' = DOMAIN held \ PartsOf({running})
      /\ DOMAIN programs' = DOMAIN programs \ {running}
  BY <1>1, ButDomain
<1>5. /\ \A o \in DOMAIN held' : held'[o] = held[o]
      /\ \A p \in DOMAIN programs' : programs'[p] = programs[p]
  BY <1>1, <1>4, ButAt
<1>6. running \notin ProgramsOf(Functions)
  BY <1>1 DEF Inv, ObjectsPlaced, ProgramsOf
<1>7. ExecutionStands'
  <2>1. values' \in Seq(Reference) /\ Len(values') <= MaxStack
    <3>1. <<>> \in Seq(Reference) /\ Len(<<>>) <= MaxStack
      BY DEF StorageAssumption
    <3> QED BY <1>1, <3>1 DEF Inv, ReferencesStand, ExecutionStands
  <2> QED BY <1>1, <1>3, <2>1 DEF Inv, ReferencesStand, ExecutionStands
<1>8. TablesTyped' /\ RecordsStand'
  <2>1. programs \in [DOMAIN programs -> Program]
    BY DEF Inv, TablesTyped
  <2>2. programs' \in [DOMAIN programs' -> Program]
    BY <1>1, <2>1, ButTyped
  <2>3. running' \in 0 .. MaxProgram
    BY <1>1 DEF StorageAssumption
  <2>4. TablesTyped'
    BY <1>2, <1>4, <2>2, <2>3 DEF Inv, TablesTyped
  <2>5. RecordsStand'
    BY <1>2, <1>3, <1>4, <1>5 DEF Inv, ReferencesStand, RecordsStand
  <2> QED BY <2>4, <2>5
<1>9. ObjectsPlaced'
  <2>1. \A h : <<"object", h>> \in DOMAIN held => <<"object", h>> \in DOMAIN held'
    BY <1>4 DEF PartsOf, Parts
  <2>2. ASSUME NEW h \in Functions, NEW part \in {"descriptor", "code"}
        PROVE  /\ objects[h].program \in DOMAIN programs' /\ <<part, objects[h].program>> \in DOMAIN held'
               /\ programs'[objects[h].program].source.kind # Statement
    <3>1. /\ objects[h].program \in DOMAIN programs /\ <<part, objects[h].program>> \in DOMAIN held
          /\ programs[objects[h].program].source.kind # Statement
      BY DEF Inv, ObjectsPlaced
    <3>2. objects[h].program # running
      BY <1>6 DEF ProgramsOf
    <3>3. <<part, objects[h].program>> \notin PartsOf({running})
      BY <3>2 DEF PartsOf
    <3> QED BY <1>4, <1>5, <3>1, <3>2, <3>3
  <2> QED BY <1>1, <1>2, <1>3, <1>4, <2>1, <2>2, IdleIs DEF Inv, ObjectsPlaced
<1>10. BlocksOwned'
  <2>1. Allocator!Inv' /\ live' = live
    BY <1>1, Untouched DEF Inv, BlocksOwned
  <2>2. held \in [DOMAIN held -> Heap!Block]
    BY DEF Inv, BlocksOwned
  <2>3. held' \in [DOMAIN held' -> Heap!Block]
    BY <1>1, <2>2, ButTyped
  <2>4. Image(held') \subseteq Image(held)
    BY <1>4, <1>5, ImagePart
  <2>5. SoleOwner'
    BY <1>4, <1>5, <2>1, <2>4 DEF Inv, BlocksOwned, SoleOwner, Heap!Extent
  <2>6. \A o \in DOMAIN held' : o[1] \in Parts => o[2] \in DOMAIN programs'
    BY <1>4 DEF Inv, BlocksOwned, PartsOf
  <2> QED BY <1>2, <1>3, <1>4, <2>1, <2>3, <2>5, <2>6 DEF Inv, BlocksOwned
<1>11. Underway' /\ Swept'
  BY <1>1, <1>2, IdleIs DEF Underway, Swept
<1> QED
  BY <1>7, <1>8, <1>9, <1>10, <1>11 DEF Inv, ReferencesStand

LEMMA SetFieldKeeps ==
  ASSUME StorageAssumption, Inv, NEW h, NEW i, NEW v, SetField(h, i, v)
  PROVE  Inv'
<1> DEFINE fields == [objects[h].fields EXCEPT ![i] = v]
<1>1. /\ Idle /\ h \in Image(values) \ {0} /\ i \in DOMAIN objects[h].fields
      /\ v \in Image(values) \cup {0}
      /\ objects' = [objects EXCEPT ![h].fields[i] = v]
      /\ UNCHANGED <<storage, programs, bindings, execution, nested, operation, counters>>
  BY DEF SetField
<1>2. UNCHANGED <<programs, values, frames, running, nextHandle, nextProgram, todo, collected>> /\ todo = <<>>
  BY <1>1 DEF counters, operation, execution, Idle
<1>3. h \in DOMAIN objects /\ v \in Reference /\ Reference \subseteq Value
  <2>1. Image(values) \subseteq Reference
    BY DEF Inv, ReferencesStand, ExecutionStands, Image
  <2>2. Reference \subseteq DOMAIN objects \cup {0} /\ 0 \in Reference
    BY DEF Reference, Standing
  <2>3. DOMAIN objects \subseteq 1 .. MaxHandle /\ MaxHandle \in Nat
    BY DEF Inv, TablesTyped, Handles, StorageAssumption
  <2>4. Reference \subseteq Value
    BY <2>2, <2>3 DEF Value
  <2> QED BY <1>1, <2>1, <2>2, <2>4
<1>4. objects[h].fields \in Seq(Value) /\ Image(objects[h].fields) \subseteq Reference /\ objects \in [DOMAIN objects -> Object]
  <2>1. objects \in [DOMAIN objects -> Object]
    BY DEF Inv, TablesTyped
  <2> QED BY <1>3, <2>1 DEF Object, Inv, ReferencesStand, RecordsStand
<1>5. fields \in Seq(Value) /\ Image(fields) \subseteq Reference
  <2>1. fields \in Seq(Value)
    BY <1>1, <1>3, <1>4
  <2>2. Image(fields) \subseteq Reference
    BY <1>3, <1>4 DEF Image
  <2> QED BY <2>1, <2>2
<1>6. /\ DOMAIN objects' = DOMAIN objects
      /\ objects' = [objects EXCEPT ![h] = [objects[h] EXCEPT !.fields = fields]]
  BY <1>1, <1>3
<1> HIDE DEF fields
<1>7. [objects[h] EXCEPT !.fields = fields] \in Object /\ [objects[h] EXCEPT !.fields = fields].fields = fields
      /\ [objects[h] EXCEPT !.fields = fields].kind = objects[h].kind
      /\ [objects[h] EXCEPT !.fields = fields].program = objects[h].program
  <2>1. objects[h] \in Object
    BY <1>3, <1>4
  <2> QED BY <1>5, <2>1 DEF Object
<1>8. /\ \A x \in DOMAIN objects : objects'[x].kind = objects[x].kind /\ objects'[x].program = objects[x].program
      /\ \A x \in DOMAIN objects : Image(objects'[x].fields) \subseteq Reference
      /\ objects' \in [DOMAIN objects' -> Object]
  <2>1. \A x \in DOMAIN objects : x # h => objects'[x] = objects[x]
    BY <1>3, <1>6
  <2>2. objects'[h] = [objects[h] EXCEPT !.fields = fields]
    BY <1>3, <1>6
  <2>3. \A x \in DOMAIN objects : objects'[x].kind = objects[x].kind /\ objects'[x].program = objects[x].program
    BY <1>7, <2>1, <2>2
  <2>4. \A x \in DOMAIN objects : Image(objects'[x].fields) \subseteq Reference
    BY <1>5, <1>7, <2>1, <2>2 DEF Inv, ReferencesStand, RecordsStand
  <2>5. objects' \in [DOMAIN objects' -> Object]
    BY <1>4, <1>6, <1>7
  <2> QED BY <2>3, <2>4, <2>5
<1>9. /\ Functions' = Functions /\ Standing' = Standing /\ Reference' = Reference
      /\ ProgramsOf(Functions)' = ProgramsOf(Functions)
  <2>1. Functions' = Functions /\ Standing' = Standing
    BY <1>2, <1>6, <1>8 DEF Functions, Standing
  <2> QED BY <1>8, <2>1 DEF Reference, ProgramsOf, Functions
<1>10. ExecutionStands'
  <2>1. Saved' = Saved /\ Frame' = Frame
    BY <1>9 DEF Saved, Frame
  <2> QED BY <1>1, <1>2, <1>9, <2>1 DEF Inv, ReferencesStand, ExecutionStands
<1>11. TablesTyped' /\ RecordsStand'
  BY <1>2, <1>6, <1>8, <1>9 DEF Inv, TablesTyped, ReferencesStand, RecordsStand
<1>12. ObjectsPlaced'
  <2>1. \A x \in Functions : objects'[x].program = objects[x].program
    BY <1>8 DEF Functions
  <2>2. UNCHANGED held /\ Standing = DOMAIN objects
    BY <1>1, IdleIs DEF storage
  <2>3. \A x \in Functions : /\ objects[x].program \in DOMAIN programs
                            /\ programs[objects[x].program].source.kind # Statement
                            /\ \A part \in {"descriptor", "code"} :
                                 <<part, objects[x].program>> \in DOMAIN held
    BY DEF Inv, ObjectsPlaced
  <2>4. \A x \in Functions : /\ objects'[x].program \in DOMAIN programs'
                            /\ programs'[objects'[x].program].source.kind # Statement
                            /\ \A part \in {"descriptor", "code"} :
                                 <<part, objects'[x].program>> \in DOMAIN held'
    BY <1>2, <2>1, <2>2, <2>3
  <2>5. \A p \in DOMAIN programs : p = running \/ p \in ProgramsOf(Functions)
    BY <1>1, IdleIs
  <2> QED BY <1>2, <1>6, <1>9, <2>2, <2>4, <2>5 DEF Inv, ObjectsPlaced
<1>13. BlocksOwned'
  BY <1>1, <1>2, <1>6, <1>9, BlocksStay
<1>14. Underway' /\ Swept'
  BY <1>1, <1>2, IdleIs DEF Underway, Swept
<1> QED
  BY <1>10, <1>11, <1>12, <1>13, <1>14 DEF Inv, ReferencesStand

LEMMA NewObjectKeeps ==
  ASSUME StorageAssumption, Inv, NEW kind \in Constructors, NEW n \in 0..2, NewObject(kind, n)
  PROVE  Inv'
<1>0. PICK h : h = nextHandle
  OBVIOUS
<1> DEFINE fields == [i \in 1..Size(kind) |-> IF i <= n THEN Arguments(n)[i] ELSE 0]
           record == [kind |-> kind, program |-> 0, fields |-> fields]
           o == <<"object", h>>
<1>1. /\ Idle /\ h <= MaxHandle /\ n <= Size(kind) /\ n <= Len(values) /\ Len(values) - n < MaxStack
      /\ objects' = With(objects, h, record)
      /\ values' = SubSeq(values, 1, Len(values) - n)
      /\ todo' = <<Ask(Size(kind), o), Done(o)>>
      /\ UNCHANGED <<storage, programs, bindings, frames, nested, running, collected, counters>>
  BY <1>0 DEF NewObject, Dropped
<1>2. UNCHANGED <<nextHandle, nextProgram>> /\ kind \in {"pair", "reference"} /\ nextHandle' = h
  BY <1>0, <1>1 DEF counters, StorageAssumption
<1>3. /\ h \notin DOMAIN objects /\ h \in Handles /\ h \in Nat \ {0}
      /\ \A x \in DOMAIN objects : x < nextHandle
  <2>1. \A x \in DOMAIN objects : x < nextHandle
    BY <1>1, IdleIs DEF Standing
  <2>2. h \in Nat \ {0} /\ MaxHandle \in Nat
    BY SMTT(40), <1>0 DEF Inv, TablesTyped, StorageAssumption
  <2> QED BY <1>0, <1>1, <2>1, <2>2 DEF Handles
<1>4. values \in Seq(Reference) /\ Reference \subseteq Value /\ 0 \in Reference
  <2>1. Reference \subseteq DOMAIN objects \cup {0} /\ 0 \in Reference
    BY DEF Reference, Standing
  <2>2. DOMAIN objects \subseteq 1 .. MaxHandle /\ MaxHandle \in Nat
    BY DEF Inv, TablesTyped, Handles, StorageAssumption
  <2>3. Reference \subseteq Value
    BY <2>1, <2>2 DEF Value
  <2> QED BY <2>1, <2>3 DEF Inv, ReferencesStand, ExecutionStands
<1>5. /\ fields \in Seq(Reference) /\ fields \in Seq(Value) /\ Image(fields) \subseteq Reference
      /\ values' \in Seq(Reference) /\ Len(values') < MaxStack
  <2>1. n \in Nat /\ MaxStack \in Nat /\ Size(kind) \in Nat
    BY DEF StorageAssumption, Size
  <2>2. \A i \in 1 .. n : Arguments(n)[i] \in Reference
    <3>1. /\ Len(values) - n + 1 \in Int /\ Len(values) \in Int
          /\ \A i \in Len(values) - n + 1 .. Len(values) : values[i] \in Reference
      BY <1>1, <1>4, <2>1
    <3>2. \A i \in 1 .. Len(values) - (Len(values) - n + 1) + 1 : Arguments(n)[i] = values[Len(values) - n + 1 + i - 1]
      BY <3>1, SubSeqProperties DEF Arguments
    <3> QED BY SMTT(40), <1>1, <1>4, <2>1, <3>1, <3>2
  <2>3. \A i \in 1 .. Size(kind) : fields[i] \in Reference
    BY <1>4, <2>1, <2>2
  <2>4. fields \in [1 .. Size(kind) -> Reference]
    BY <2>3
  <2> HIDE DEF fields
  <2>5. fields \in Seq(Reference) /\ fields \in Seq(Value) /\ Image(fields) \subseteq Reference
    BY <1>4, <2>1, <2>4 DEF Image
  <2>6. values' \in Seq(Reference) /\ Len(values') = Len(values) - n
    BY <1>1, <1>4, <2>1, Below
  <2> QED BY <1>1, <2>5, <2>6
<1> HIDE DEF fields
<1>6. record \in Object /\ record.kind = kind /\ record.fields = fields
  <2>1. 0 \in 0 .. MaxProgram
    BY DEF StorageAssumption
  <2> QED BY <1>2, <1>5, <2>1 DEF Object
<1> HIDE DEF record
<1>7. DOMAIN objects' = DOMAIN objects \cup {h}
  BY <1>1, WithDomain
<1>8. objects'[h] = record /\ \A x \in DOMAIN objects : objects'[x] = objects[x]
  <2>1. objects'[h] = record
    BY <1>1, WithAt
  <2>2. \A x \in DOMAIN objects : objects'[x] = objects[x]
    BY <1>1, <1>3, WithElse
  <2> QED BY <2>1, <2>2
<1>9. objects' \in [DOMAIN objects' -> Object]
  <2>1. objects \in [DOMAIN objects -> Object]
    BY DEF Inv, TablesTyped
  <2> QED BY <1>1, <1>6, <2>1, WithTyped
<1>10. /\ Functions' = Functions /\ Standing' = Standing /\ Reference' = Reference
       /\ ProgramsOf(Functions)' = ProgramsOf(Functions) /\ Frame' = Frame
       /\ h \in DOMAIN objects' \ Functions'
  <2>1. h \notin Functions'
    BY <1>2, <1>6, <1>8 DEF Functions
  <2>2. Functions' = Functions
    BY <1>3, <1>7, <1>8, <2>1 DEF Functions
  <2>3. Standing' = Standing
    BY <1>0, <1>2, <1>3, <1>7 DEF Standing
  <2>4. Reference' = Reference
    BY <2>3 DEF Reference
  <2>5. ProgramsOf(Functions)' = ProgramsOf(Functions)
    BY <1>8, <2>2 DEF ProgramsOf, Functions
  <2>6. Frame' = Frame
    BY <2>2, <2>4 DEF Frame, Saved
  <2> QED BY <1>7, <2>1, <2>2, <2>3, <2>4, <2>5, <2>6
<1>11. ExecutionStands'
  <2>1. Len(values') <= MaxStack
    BY <1>5 DEF StorageAssumption
  <2> QED BY <1>1, <1>5, <1>10, <2>1 DEF Inv, ReferencesStand, ExecutionStands
<1>12. TablesTyped' /\ RecordsStand'
  <2>1. TablesTyped'
    BY <1>1, <1>2, <1>3, <1>7, <1>9 DEF Inv, TablesTyped
  <2>2. RecordsStand'
    BY <1>1, <1>5, <1>6, <1>7, <1>8, <1>10 DEF Inv, ReferencesStand, RecordsStand
  <2> QED BY <2>1, <2>2
<1>13. Placing(h)' /\ Constructing(h)' /\ todo' # <<>>
  <2>1. Size(objects'[h].kind) = Size(kind)
    BY <1>6, <1>8
  <2>2. Placing(h)'
    BY <1>1, <1>2, <1>5, <1>10, <2>1 DEF Placing
  <2>3. todo' # <<>> /\ todo'[Len(todo')] = Done(o)
    BY <1>1, TwoSteps, Zenon
  <2> QED BY <2>2, <2>3, Steps, Zenon DEF Constructing, Subject
<1>14. ObjectsPlaced'
  <2>1. DOMAIN objects' \ Standing' \subseteq {h}
    BY <1>1, <1>7, <1>10, IdleIs
  <2>2. \A x \in Functions : x \in DOMAIN objects /\ objects'[x] = objects[x]
    BY <1>8 DEF Functions
  <2> QED BY <1>1, <1>2, <1>10, <1>13, <2>1, <2>2, IdleIs DEF Inv, ObjectsPlaced, storage
<1>15. BlocksOwned'
  <2>1. UNCHANGED <<storage, programs>>
    BY <1>1
  <2>2. DOMAIN objects \ Functions \subseteq DOMAIN objects' \ Functions'
    BY <1>7, <1>10
  <2> QED BY <2>1, <2>2, BlocksStay
<1>16. Underway' /\ Swept'
  <2>1. Underway'
    BY <1>3, <1>13 DEF Underway
  <2> QED BY <1>1, <2>1, IdleIs DEF Swept
<1> QED
  BY <1>11, <1>12, <1>14, <1>15, <1>16 DEF Inv, ReferencesStand

LEMMA RetainKeeps ==
  ASSUME StorageAssumption, Inv, NEW s \in Sources, NEW R, Retain(s, R)
  PROVE  Inv'
<1>0. PICK p : p = nextProgram
  OBVIOUS
<1> DEFINE record == [source |-> s, roots |-> R]
           q == Compilation(p, s)
           d == Done(<<"program", p>>)
<1>1. /\ Idle /\ running = 0 /\ p <= MaxProgram /\ (s.kind # Statement => nextHandle <= MaxHandle)
      /\ R \subseteq nested
      /\ programs' = With(programs, p, record) /\ nextProgram' = p + 1 /\ todo' = Append(q, d)
      /\ UNCHANGED <<storage, objects, bindings, execution, nested, collected, nextHandle>>
  BY <1>0 DEF Retain
<1>2. UNCHANGED <<values, frames, running>>
  BY <1>1 DEF execution
<1>3. p \in Programs /\ p \notin DOMAIN programs /\ p \in Nat \ {0}
  <2>1. p \in Nat \ {0} /\ MaxProgram \in Nat /\ \A x \in DOMAIN programs : x < p
    BY SMTT(40), <1>0 DEF Inv, TablesTyped, StorageAssumption
  <2> QED BY <1>1, <2>1 DEF Programs
<1>4. nested \subseteq Functions /\ Functions \subseteq Handles
  BY DEF Inv, ReferencesStand, ExecutionStands, TablesTyped, Functions
<1>5. record \in Program /\ record.source = s /\ record.roots = R
  BY <1>1, <1>4 DEF Program
<1> HIDE DEF record
<1>6. DOMAIN programs' = DOMAIN programs \cup {p}
  BY <1>1, WithDomain
<1>7. programs'[p] = record /\ \A x \in DOMAIN programs : programs'[x] = programs[x]
  <2>1. programs'[p] = record
    BY <1>1, WithAt
  <2>2. \A x \in DOMAIN programs : programs'[x] = programs[x]
    BY <1>1, <1>3, WithElse
  <2> QED BY <2>1, <2>2
<1>8. programs' \in [DOMAIN programs' -> Program]
  <2>1. programs \in [DOMAIN programs -> Program]
    BY DEF Inv, TablesTyped
  <2> QED BY <1>1, <1>5, <2>1, WithTyped
<1>9. /\ Functions' = Functions /\ Standing' = Standing /\ Reference' = Reference /\ Frame' = Frame
      /\ ProgramsOf(Functions)' = ProgramsOf(Functions) /\ p \notin ProgramsOf(Functions)
  <2>1. p \notin ProgramsOf(Functions)
    BY <1>3 DEF Inv, ObjectsPlaced, ProgramsOf
  <2> QED BY <1>1, <2>1, SameReferences DEF ProgramsOf
<1>10. ExecutionStands'
  BY <1>1, <1>2, <1>9 DEF Inv, ReferencesStand, ExecutionStands
<1>11. TablesTyped' /\ RecordsStand'
  <2>1. nextProgram' \in 1 .. MaxProgram + 1 /\ \A x \in DOMAIN programs' : x < nextProgram'
    <3>1. \A x \in DOMAIN programs : x < p /\ x \in Nat
      BY <1>0 DEF Inv, TablesTyped, Programs
    <3>2. MaxProgram \in Nat
      BY DEF StorageAssumption
    <3> QED BY <1>1, <1>3, <1>6, <3>1, <3>2
  <2>2. TablesTyped'
    BY <1>1, <1>2, <1>3, <1>6, <1>8, <2>1 DEF Inv, TablesTyped
  <2>3. RecordsStand'
    BY <1>1, <1>4, <1>5, <1>6, <1>7, <1>9 DEF Inv, ReferencesStand, RecordsStand
  <2> QED BY <2>2, <2>3
<1>12. Requests(q, p, DOMAIN held) /\ Completes(q, p, DOMAIN held)
  BY <1>3, CompilationRequests
<1> HIDE DEF q
<1>13. Building(p, q)' /\ q \in Seq(Request)
  <2>1. Building(p, q)'
    BY <1>1, <1>2, <1>5, <1>6, <1>7, <1>9, <1>12 DEF Building, storage
  <2> QED BY <1>12, <2>1 DEF Requests
<1>14. Underway' /\ Compiling(p)'
  <2>1. todo' # <<>> /\ todo'[Len(todo')] = d
    BY <1>1, <1>3, <1>13, DoneRequest, Queue
  <2>2. d.owner = <<"program", p>>
    BY Steps
  <2> HIDE DEF d
  <2>3. Compiling(p)'
    BY <2>1, <2>2, Zenon DEF Compiling, Subject
  <2> QED BY <1>3, <1>13, <2>3 DEF Underway
<1>15. ObjectsPlaced'
  <2>1. UNCHANGED held /\ Standing = DOMAIN objects
    BY <1>1, IdleIs DEF storage
  <2>2. \A x \in Functions : objects[x].program \in DOMAIN programs /\ objects[x].program # p
    BY <1>3 DEF Inv, ObjectsPlaced
  <2>3. \A x \in DOMAIN programs' : x = p \/ x = running \/ x \in ProgramsOf(Functions)
    BY <1>1, <1>6, IdleIs
  <2> QED BY <1>1, <1>2, <1>6, <1>7, <1>9, <1>14, <2>1, <2>2, <2>3 DEF Inv, ObjectsPlaced
<1>16. BlocksOwned'
  <2>1. UNCHANGED <<storage, objects>>
    BY <1>1
  <2> QED BY <1>6, <1>9, <2>1, BlocksStay
<1>17. Swept'
  BY <1>1, IdleIs DEF Swept
<1> QED
  BY <1>10, <1>11, <1>14, <1>15, <1>16, <1>17 DEF Inv, ReferencesStand

LEMMA Bounds ==
  ASSUME StorageAssumption, TablesTyped
  PROVE  /\ nextHandle \in Nat \ {0} /\ MaxHandle \in Nat
         /\ \A p \in DOMAIN programs : p \in 0 .. MaxProgram
         /\ \A h \in DOMAIN objects : h \in Nat
BY SMTT(40) DEF StorageAssumption, TablesTyped, Programs, Handles

\* A handle of a new function.
FunctionAddedTo(h, p) ==
  /\ DOMAIN objects' = DOMAIN objects \cup {h} /\ h \notin DOMAIN objects /\ h \in Handles
  /\ objects'[h].program = p /\ \A x \in DOMAIN objects : objects'[x] = objects[x]
  /\ objects' \in [DOMAIN objects' -> Object]
  /\ Functions' = Functions \cup {h} /\ Standing' = DOMAIN objects'
  /\ Reference \subseteq Reference' /\ Saved \subseteq Saved' /\ Frame \subseteq Frame' /\ h \in Reference'
  /\ ProgramsOf(Functions)' = ProgramsOf(Functions) \cup {p}
  /\ nextHandle' \in 1 .. MaxHandle + 1
  /\ \A x \in DOMAIN objects' : Image(objects'[x].fields) \subseteq Reference'

LEMMA FunctionAdded ==
  ASSUME StorageAssumption, Inv, NEW h, h = nextHandle, h <= MaxHandle, Standing = DOMAIN objects,
         NEW p \in DOMAIN programs,
         objects' = With(objects, h, [kind |-> "function", fields |-> <<>>, program |-> p]),
         nextHandle' = h + 1
  PROVE  FunctionAddedTo(h, p)
<1> DEFINE record == [kind |-> "function", fields |-> <<>>, program |-> p]
<1>1. /\ h \notin DOMAIN objects /\ h \in Handles /\ h \in Nat \ {0} /\ nextHandle' \in 1 .. MaxHandle + 1
      /\ \A x \in DOMAIN objects : x < h /\ x \in Nat
  <2>1. \A x \in DOMAIN objects : x < h /\ x \in Nat
    BY Bounds DEF Standing, Inv
  <2>2. h \in Nat \ {0} /\ MaxHandle \in Nat
    BY Bounds DEF Inv
  <2> QED BY <2>1, <2>2 DEF Handles
<1>2. record \in Object /\ record.kind = "function" /\ record.program = p /\ Image(record.fields) = {}
  <2>1. p \in 0 .. MaxProgram
    BY Bounds DEF Inv
  <2> QED BY <2>1 DEF Object, Image
<1> HIDE DEF record
<1>3. DOMAIN objects' = DOMAIN objects \cup {h}
  BY WithDomain DEF record
<1>4. objects'[h] = record
  BY WithAt DEF record
<1>5. \A x \in DOMAIN objects : objects'[x] = objects[x]
  BY <1>1, WithElse DEF record
<1>6. objects' \in [DOMAIN objects' -> Object]
  <2>1. objects \in [DOMAIN objects -> Object] /\ objects' = With(objects, h, record)
    BY DEF Inv, TablesTyped, record
  <2> QED BY <1>2, <2>1, WithTyped
<1>7. Functions' = Functions \cup {h}
  BY <1>2, <1>3, <1>4, <1>5 DEF Functions
<1>8. Standing' = DOMAIN objects'
  <2>1. \A x \in DOMAIN objects' : x < nextHandle'
    BY <1>1, <1>3
  <2> QED BY <2>1 DEF Standing
<1>9. Reference \subseteq Reference' /\ Saved \subseteq Saved' /\ Frame \subseteq Frame' /\ h \in Reference'
  <2>1. Reference \subseteq Reference' /\ h \in Reference'
    BY <1>3, <1>8 DEF Reference
  <2>2. Saved \subseteq Saved'
    BY <2>1 DEF Saved
  <2> QED BY <1>7, <2>1, <2>2 DEF Frame
<1>10. ProgramsOf(Functions)' = ProgramsOf(Functions) \cup {p}
  <2>1. \A x \in Functions : objects'[x].program = objects[x].program
    BY <1>5 DEF Functions
  <2>2. objects'[h].program = p
    BY <1>2, <1>4
  <2> QED BY <1>7, <2>1, <2>2 DEF ProgramsOf
<1>11. \A x \in DOMAIN objects' : Image(objects'[x].fields) \subseteq Reference'
  BY <1>2, <1>3, <1>4, <1>5, <1>9 DEF Inv, ReferencesStand, RecordsStand
<1> QED
  BY <1>1, <1>2, <1>3, <1>4, <1>5, <1>6, <1>7, <1>8, <1>9, <1>10, <1>11 DEF FunctionAddedTo

LEMMA CapturedKeeps ==
  ASSUME StorageAssumption, Inv, NEW h, Captured(h)
  PROVE  Inv'
<1>1. /\ Idle /\ frames # <<>> /\ Len(values) < MaxStack
      /\ h \in programs[objects[frames[Len(frames)].function].program].roots
      /\ UNCHANGED <<storage, programs, bindings, frames, nested, running, collected, nextProgram>>
  BY DEF Captured, Running
<1>2. h \in Functions /\ objects[h].program \in DOMAIN programs /\ h \in Reference
  <2>1. frames[Len(frames)].function \in Functions
    <3>1. frames \in Seq(Frame)
      BY DEF Inv, ReferencesStand, ExecutionStands
    <3>2. frames[Len(frames)] \in Frame
      BY <1>1, <3>1, OnStack
    <3> QED BY <3>2, FrameIs
  <2>2. objects[frames[Len(frames)].function].program \in DOMAIN programs
    BY <2>1 DEF Inv, ObjectsPlaced
  <2>3. h \in Functions
    BY <1>1, <2>2 DEF Inv, ReferencesStand, RecordsStand
  <2> QED BY <2>3 DEF Inv, ObjectsPlaced, Reference
<1>3. /\ values \in Seq(Reference) /\ frames \in Seq(Frame) /\ bindings \in [DOMAIN bindings -> Reference]
      /\ MaxStack \in Nat /\ nested \subseteq Functions /\ DOMAIN bindings \subseteq Names
  BY DEF Inv, ReferencesStand, ExecutionStands, StorageAssumption
<1>4. CASE ~Experimental
  <2>1. values' = Append(values, h) /\ UNCHANGED <<objects, nextHandle, todo>>
    BY <1>4 DEF Captured
  <2>2. values' \in Seq(Reference) /\ Len(values') <= MaxStack
    BY <1>1, <1>2, <1>3, <2>1, OnStack
  <2>3. ExecutionStands'
    BY <1>1, <1>3, <2>1, <2>2, SameReferences DEF ExecutionStands
  <2>4. Underway' /\ UNCHANGED <<records, counters>>
    BY <1>1, <2>1 DEF Idle, Underway, records, counters
  <2> QED BY <1>1, <2>3, <2>4, ExecutionKeeps
<1>5. CASE Experimental
  <2>0. PICK g : g = nextHandle
    OBVIOUS
  <2>1. PICK p : p = objects[h].program
    OBVIOUS
  <2>2. /\ g <= MaxHandle
        /\ objects' = With(objects, g, [kind |-> "function", fields |-> <<>>, program |-> p])
        /\ values' = Append(values, g) /\ nextHandle' = g + 1
        /\ todo' = <<>> \/ todo' = <<Sweeping>>
    BY <1>5, <2>0, <2>1 DEF Captured
  <2>3. p \in DOMAIN programs /\ Standing = DOMAIN objects /\ collected = FALSE /\ p \in ProgramsOf(Functions)
    BY <1>1, <1>2, <2>1, IdleIs DEF ProgramsOf
  <2>4. FunctionAddedTo(g, p)
    BY <2>0, <2>2, <2>3, FunctionAdded
  <2>5. ExecutionStands'
    <3>1. values \in Seq(Reference') /\ frames \in Seq(Frame') /\ bindings \in [DOMAIN bindings -> Reference']
      BY <1>3, <2>4 DEF FunctionAddedTo
    <3>2. values' \in Seq(Reference') /\ Len(values') <= MaxStack
      <4>1. Len(values) \in Nat
        BY <3>1
      <4> QED BY <1>1, <1>3, <2>2, <2>4, <3>1, <4>1, OnStack DEF FunctionAddedTo
    <3> QED BY <1>1, <1>3, <2>4, <3>1, <3>2 DEF ExecutionStands, FunctionAddedTo
  <2>6. TablesTyped' /\ RecordsStand'
    <3>1. TablesTyped'
      BY <1>1, <2>4 DEF Inv, TablesTyped, FunctionAddedTo
    <3>2. RecordsStand'
      BY <1>1, <2>4 DEF Inv, ReferencesStand, RecordsStand, FunctionAddedTo
    <3> QED BY <3>1, <3>2
  <2>7. ObjectsPlaced'
    <3>1. UNCHANGED <<held, programs, running>>
      BY <1>1 DEF storage
    <3>2. \A x \in Functions : objects'[x] = objects[x]
      BY <2>4 DEF FunctionAddedTo, Functions
    <3>3. ASSUME NEW x \in Functions'
          PROVE  /\ objects'[x].program \in DOMAIN programs
                 /\ programs[objects'[x].program].source.kind # Statement
                 /\ \A part \in {"descriptor", "code"} : <<part, objects'[x].program>> \in DOMAIN held
      <4>1. CASE x = g
        BY <1>2, <2>1, <2>4, <4>1 DEF FunctionAddedTo, Inv, ObjectsPlaced
      <4>2. CASE x \in Functions
        BY <3>2, <4>2 DEF Inv, ObjectsPlaced
      <4> QED BY <2>4, <4>1, <4>2 DEF FunctionAddedTo
    <3>4. \A x \in DOMAIN programs : x = running \/ x \in ProgramsOf(Functions)
      BY <1>1, IdleIs
    <3>5. \A x \in DOMAIN objects' \ Functions' : <<"object", x>> \in DOMAIN held
      BY <2>3, <2>4 DEF FunctionAddedTo, Inv, ObjectsPlaced
    <3>6. Functions' \subseteq Standing' /\ DOMAIN objects' = Standing' /\ ProgramsOf(Functions) \subseteq ProgramsOf(Functions)'
      BY <2>4 DEF FunctionAddedTo, Functions
    <3>7. running # 0 => running \in DOMAIN programs /\ programs[running].source.kind = Statement
      BY DEF Inv, ObjectsPlaced
    <3> QED BY <3>1, <3>3, <3>4, <3>5, <3>6, <3>7 DEF ObjectsPlaced
  <2>8. BlocksOwned'
    BY <1>1, <2>4, BlocksStay DEF FunctionAddedTo
  <2>9. Underway' /\ Swept'
    BY <1>1, <2>2, <2>3 DEF Underway, Swept
  <2> QED BY <2>5, <2>6, <2>7, <2>8, <2>9 DEF Inv, ReferencesStand
<1> QED
  BY <1>4, <1>5

LEMMA CompiledKeeps ==
  ASSUME StorageAssumption, Inv, NEW n \in Names, Compiled(n)
  PROVE  Inv'
<1>0. PICK p : p = Subject[2]
  OBVIOUS
<1> DEFINE kind == programs[p].source.kind
<1>1. /\ Doing("done") /\ Subject[1] = "program"
      /\ held' = But(held, {o \in PartsOf({p}) : o[1] = "node"}) /\ todo' = <<>>
      /\ UNCHANGED <<heap, programs, values, frames, collected, nextProgram>>
  BY <1>0 DEF Compiled, Finalized
<1>2. \/ kind = Statement /\ running' = p /\ UNCHANGED <<objects, nextHandle, nested, bindings>>
      \/ /\ kind # Statement
         /\ objects' = With(objects, nextHandle, [kind |-> "function", fields |-> <<>>, program |-> p])
         /\ nextHandle' = nextHandle + 1 /\ UNCHANGED running
         /\ \/ nested' = nested \cup {nextHandle} /\ UNCHANGED bindings
            \/ n \in DOMAIN bindings /\ bindings' = [bindings EXCEPT ![n] = nextHandle] /\ nested' = {}
  BY <1>0 DEF Compiled
<1>3. /\ p \in DOMAIN programs \ ProgramsOf(Functions) /\ running = 0
      /\ kind # Statement => nextHandle <= MaxHandle
      /\ \A part \in {"descriptor", "code"} : <<part, p>> \in DOMAIN held
      /\ \A h : ~Constructing(h)
      /\ \A x : Compiling(x) => x = p
      /\ collected = FALSE
  <2>1. Subject = <<"program", p>> /\ (\A h : ~Constructing(h)) /\ collected = FALSE
    BY <1>0, <1>1, Subjects DEF Compiling
  <2> HIDE DEF kind
  <2>2. \A x : Compiling(x) => x = p
    BY <2>1 DEF Compiling
  <2> QED BY <1>1, <2>1, <2>2, Ended DEF Inv, kind
<1>4. Standing = DOMAIN objects
  BY <1>3 DEF Inv, ObjectsPlaced, Standing
<1>5. DOMAIN held' = DOMAIN held \ {o \in PartsOf({p}) : o[1] = "node"}
  BY <1>1, ButDomain
<1>6. \A o \in DOMAIN held' : held'[o] = held[o]
  BY <1>1, <1>5, ButAt
<1>7. \A o \in DOMAIN held : o[1] # "node" => o \in DOMAIN held'
  BY <1>5
<1>8. /\ \A x : <<"object", x>> \in DOMAIN held => <<"object", x>> \in DOMAIN held'
      /\ \A x, part : part \in {"descriptor", "code"} /\ <<part, x>> \in DOMAIN held => <<part, x>> \in DOMAIN held'
  <2>1. \A x : <<"object", x>>[1] # "node"
    OBVIOUS
  <2>2. \A x, part : part \in {"descriptor", "code"} => <<part, x>>[1] # "node"
    OBVIOUS
  <2> QED BY <1>7, <2>1, <2>2
<1>9. ASSUME DOMAIN objects \ Functions \subseteq DOMAIN objects' \ Functions' PROVE BlocksOwned'
  <2>1. Allocator!Inv' /\ live' = live
    BY <1>1, Untouched DEF Inv, BlocksOwned
  <2>2. held \in [DOMAIN held -> Heap!Block]
    BY DEF Inv, BlocksOwned
  <2>3. held' \in [DOMAIN held' -> Heap!Block]
    BY <1>1, <2>2, ButTyped
  <2>4. Image(held') \subseteq Image(held)
    BY <1>5, <1>6, ImagePart
  <2>5. SoleOwner'
    BY <1>5, <1>6, <2>1, <2>4 DEF Inv, BlocksOwned, SoleOwner, Heap!Extent
  <2>6. /\ \A o \in DOMAIN held' : o[1] \in Parts => o[2] \in DOMAIN programs'
        /\ DOMAIN held' \subseteq Owner
    BY <1>1, <1>5 DEF Inv, BlocksOwned
  <2>7. \A h : <<"object", h>> \in DOMAIN held' => h \in DOMAIN objects' \ Functions'
    BY <1>5, <1>9 DEF Inv, BlocksOwned
  <2> QED BY <2>1, <2>3, <2>5, <2>6, <2>7 DEF BlocksOwned
<1>10. Underway' /\ Swept'
  BY <1>1, <1>3 DEF Underway, Swept
<1>11. /\ \A x \in DOMAIN programs : x = p \/ x \in ProgramsOf(Functions)
       /\ \A x \in DOMAIN objects \ Functions : <<"object", x>> \in DOMAIN held'
       /\ \A x \in Functions : /\ objects[x].program \in DOMAIN programs
                               /\ programs[objects[x].program].source.kind # Statement
                               /\ \A part \in {"descriptor", "code"} : <<part, objects[x].program>> \in DOMAIN held'
       /\ \A part \in {"descriptor", "code"} : <<part, p>> \in DOMAIN held'
  <2>1. \A x \in DOMAIN programs : x = p \/ x \in ProgramsOf(Functions)
    <3>1. \A x \in DOMAIN programs : x # 0
      BY DEF Inv, TablesTyped, Programs
    <3> QED BY <1>3, <3>1 DEF Inv, ObjectsPlaced
  <2>2. \A x \in DOMAIN objects \ Functions : <<"object", x>> \in DOMAIN held'
    BY <1>4, <1>8 DEF Inv, ObjectsPlaced
  <2>3. \A x \in Functions : /\ objects[x].program \in DOMAIN programs
                             /\ programs[objects[x].program].source.kind # Statement
                             /\ \A part \in {"descriptor", "code"} : <<part, objects[x].program>> \in DOMAIN held'
    BY <1>8 DEF Inv, ObjectsPlaced
  <2>4. \A part \in {"descriptor", "code"} : <<part, p>> \in DOMAIN held'
    BY <1>3, <1>8
  <2> QED BY <2>1, <2>2, <2>3, <2>4
<1>12. CASE kind = Statement
  <2>1. running' = p /\ UNCHANGED <<objects, nextHandle, nested, bindings>>
    BY <1>2, <1>12
  <2>2. /\ Functions' = Functions /\ Standing' = Standing /\ Reference' = Reference /\ Frame' = Frame
        /\ ProgramsOf(Functions)' = ProgramsOf(Functions)
    BY <2>1, SameReferences DEF ProgramsOf
  <2>3. ExecutionStands' /\ RecordsStand'
    BY <1>1, <2>1, <2>2 DEF Inv, ReferencesStand, ExecutionStands, RecordsStand
  <2>4. TablesTyped'
    <3>1. running' \in 0 .. MaxProgram
      BY <1>3, <2>1, Bounds DEF Inv
    <3> QED BY <1>1, <2>1, <3>1 DEF Inv, TablesTyped
  <2>5. ObjectsPlaced'
    <3>1. Functions \subseteq Standing
      BY DEF Inv, ObjectsPlaced
    <3> QED BY <1>1, <1>3, <1>4, <1>11, <1>12, <2>1, <2>2, <3>1 DEF ObjectsPlaced
  <2>6. BlocksOwned'
    BY <1>9, <2>1, <2>2
  <2> QED BY <1>10, <2>3, <2>4, <2>5, <2>6 DEF Inv, ReferencesStand
<1>13. CASE kind # Statement
  <2>0. PICK g : g = nextHandle
    OBVIOUS
  <2>1. /\ g <= MaxHandle /\ nextHandle' = g + 1 /\ UNCHANGED running
        /\ objects' = With(objects, g, [kind |-> "function", fields |-> <<>>, program |-> p])
        /\ \/ nested' = nested \cup {g} /\ UNCHANGED bindings
           \/ n \in DOMAIN bindings /\ bindings' = [bindings EXCEPT ![n] = g] /\ nested' = {}
    BY <1>2, <1>3, <1>13, <2>0
  <2>2. FunctionAddedTo(g, p)
    BY <1>3, <1>4, <2>0, <2>1, FunctionAdded
  <2>3. ExecutionStands'
    <3>1. /\ values \in Seq(Reference') /\ frames \in Seq(Frame') /\ bindings \in [DOMAIN bindings -> Reference']
          /\ nested \subseteq Functions' /\ g \in Functions' /\ g \in Reference'
      BY <2>2 DEF FunctionAddedTo, Inv, ReferencesStand, ExecutionStands
    <3>2. nested' \subseteq Functions'
      BY <2>1, <3>1
    <3>3. DOMAIN bindings' = DOMAIN bindings /\ bindings' \in [DOMAIN bindings -> Reference']
      BY <2>1, <3>1
    <3> QED BY <1>1, <3>1, <3>2, <3>3 DEF Inv, ReferencesStand, ExecutionStands
  <2>4. TablesTyped' /\ RecordsStand'
    <3>1. TablesTyped'
      BY <1>1, <2>1, <2>2 DEF Inv, TablesTyped, FunctionAddedTo
    <3>2. RecordsStand'
      BY <1>1, <2>2 DEF Inv, ReferencesStand, RecordsStand, FunctionAddedTo
    <3> QED BY <3>1, <3>2
  <2>5. ObjectsPlaced'
    <3>2. \A x \in Functions : objects'[x] = objects[x]
      BY <2>2 DEF FunctionAddedTo, Functions
    <3>3. ASSUME NEW x \in Functions'
          PROVE  /\ objects'[x].program \in DOMAIN programs
                 /\ programs[objects'[x].program].source.kind # Statement
                 /\ \A part \in {"descriptor", "code"} : <<part, objects'[x].program>> \in DOMAIN held'
      <4>1. CASE x = g
        BY <1>3, <1>11, <1>13, <2>2, <4>1 DEF FunctionAddedTo
      <4>2. CASE x \in Functions
        BY <1>11, <3>2, <4>2
      <4> QED BY <2>2, <4>1, <4>2 DEF FunctionAddedTo
    <3>4. \A x \in DOMAIN programs : x \in ProgramsOf(Functions)'
      BY <1>11, <2>2 DEF FunctionAddedTo
    <3>5. \A x \in DOMAIN objects' \ Functions' : <<"object", x>> \in DOMAIN held'
      BY <1>11, <2>2 DEF FunctionAddedTo
    <3>6. Functions' \subseteq Standing' /\ DOMAIN objects' = Standing'
      BY <2>2 DEF FunctionAddedTo, Functions
    <3> QED BY <1>1, <1>3, <2>1, <3>3, <3>4, <3>5, <3>6 DEF ObjectsPlaced
  <2>6. BlocksOwned'
    BY <1>9, <2>2 DEF FunctionAddedTo
  <2> QED BY <1>10, <2>3, <2>4, <2>5, <2>6 DEF Inv, ReferencesStand
<1> QED
  BY <1>12, <1>13

LEMMA ExhaustedKeeps ==
  ASSUME StorageAssumption, Inv, Exhausted
  PROVE  Inv'
<1>0. PICK gone : gone = IF Subject[1] = "program" THEN {Subject[2]} ELSE {}
  OBVIOUS
<1>1. /\ Missing /\ todo' = <<>> /\ collected' = FALSE
      /\ held' = But(held, PartsOf(gone)) /\ programs' = But(programs, gone)
      /\ objects' = But(objects, Unplaced)
      /\ UNCHANGED <<heap, bindings, execution, nested, counters>>
  BY <1>0 DEF Exhausted, MustCollect, Forgotten
<1>2. UNCHANGED <<values, frames, running, nextHandle, nextProgram>>
  BY <1>1 DEF execution, counters
<1>3. /\ gone \cap ProgramsOf(Functions) = {}
      /\ running \notin gone \/ running = 0
      /\ \A x : Compiling(x) => x \in gone
  <2>1. \A x : Compiling(x) => x \in gone
    BY <1>0 DEF Compiling
  <2>2. ASSUME NEW h \in Handles, Placing(h) PROVE gone = {}
    <3>1. Subject = <<"object", h>>
      BY <2>2, PlacingIs, Zenon
    <3> QED BY <1>0, <3>1
  <2>3. ASSUME NEW n \in Names, Naming(n) PROVE gone = {}
    <3>1. Subject = <<"word", n>>
      BY <2>3, NamingIs, Zenon
    <3> QED BY <1>0, <3>1
  <2>4. ASSUME NEW p \in Programs, NEW q \in Seq(Request), Building(p, q)
        PROVE  gone = {p} /\ p \notin ProgramsOf(Functions) /\ running = 0
    BY <1>0, <2>4, BuildingIs DEF Building
  <2>5. todo # <<>> /\ todo # <<Sweeping>>
    BY <1>1, NotSweeping DEF Missing
  <2> QED BY <2>1, <2>2, <2>3, <2>4, <2>5 DEF Inv, Underway
<1>4. DOMAIN held' = DOMAIN held \ PartsOf(gone)
  BY <1>1, ButDomain
<1>5. DOMAIN programs' = DOMAIN programs \ gone
  BY <1>1, ButDomain
<1>6. DOMAIN objects' = DOMAIN objects \ Unplaced
  BY <1>1, ButDomain
<1>7. /\ \A o \in DOMAIN held' : held'[o] = held[o]
      /\ \A p \in DOMAIN programs' : programs'[p] = programs[p]
      /\ \A h \in DOMAIN objects' : objects'[h] = objects[h]
  <2>1. \A o \in DOMAIN held' : held'[o] = held[o]
    BY <1>1, <1>4, ButAt
  <2>2. \A p \in DOMAIN programs' : programs'[p] = programs[p]
    BY <1>1, <1>5, ButAt
  <2>3. \A h \in DOMAIN objects' : objects'[h] = objects[h]
    BY <1>1, <1>6, ButAt
  <2> QED BY <2>1, <2>2, <2>3
<1>8. /\ Unplaced \cap Standing = {} /\ Unplaced \cap Functions = {}
      /\ \A h \in DOMAIN objects : h \notin Unplaced => h \in Functions \/ <<"object", h>> \in DOMAIN held
  BY DEF Inv, ObjectsPlaced, Unplaced, Functions
<1>9. Functions' = Functions /\ Standing' = Standing /\ Functions \subseteq DOMAIN objects'
  <2>1. Functions' = Functions
    BY <1>6, <1>7, <1>8 DEF Functions
  <2>2. Standing' = Standing
    BY <1>2, <1>6, <1>8 DEF Standing
  <2> QED BY <1>6, <1>8, <2>1, <2>2 DEF Functions
<1>10. /\ Reference' = Reference /\ Frame' = Frame /\ ProgramsOf(Functions)' = ProgramsOf(Functions)
  <2>1. Reference' = Reference
    BY <1>9 DEF Reference
  <2>2. Frame' = Frame
    BY <1>9, <2>1 DEF Frame, Saved
  <2>3. ProgramsOf(Functions)' = ProgramsOf(Functions)
    BY <1>7, <1>9 DEF ProgramsOf
  <2> QED BY <2>1, <2>2, <2>3
<1>11. DOMAIN objects' = Standing
  <2>1. \A h \in DOMAIN objects \ Standing : h \in Unplaced
    <3>1. ASSUME NEW h \in DOMAIN objects \ Standing PROVE h \in Unplaced
      <4>1. h = nextHandle /\ Constructing(h) /\ h \notin Functions /\ h \in Handles
        BY DEF Inv, ObjectsPlaced, TablesTyped
      <4>2. ASSUME NEW x \in Handles, Placing(x) PROVE Wanted.owner = <<"object", x>> /\ x = h
        <5>1. Doing("allocate")
          BY <1>1 DEF Missing
        <5>2. Wanted.owner = <<"object", x>> /\ x = nextHandle
          BY <4>2, <5>1, PlacingIs, DoingOnly, Zenon
        <5> QED BY <4>1, <5>2
      <4>3. ASSUME NEW n \in Names, Naming(n) PROVE FALSE
        BY <4>1, <4>3, NamingIs DEF Constructing
      <4>4. ASSUME NEW p \in Programs, NEW q \in Seq(Request), Building(p, q) PROVE FALSE
        BY <4>1, <4>4, BuildingIs DEF Constructing
      <4>5. todo # <<>> /\ todo # <<Sweeping>>
        BY <1>1, NotSweeping DEF Missing
      <4>6. Wanted.owner = <<"object", h>>
        BY <4>2, <4>3, <4>4, <4>5 DEF Inv, Underway
      <4>7. <<"object", h>> \notin DOMAIN held
        BY <1>1, <4>6 DEF Missing
      <4> QED BY <4>1, <4>7 DEF Unplaced, Functions
    <3> QED BY <3>1
  <2> QED BY <1>6, <1>8, <2>1 DEF Standing
<1>12. ExecutionStands' /\ RecordsStand'
  <2>1. ExecutionStands'
    BY <1>1, <1>2, <1>9, <1>10 DEF Inv, ReferencesStand, ExecutionStands
  <2>2. RecordsStand'
    BY <1>5, <1>6, <1>7, <1>9, <1>10 DEF Inv, ReferencesStand, RecordsStand
  <2> QED BY <2>1, <2>2
<1>13. TablesTyped'
  <2>1. objects \in [DOMAIN objects -> Object] /\ programs \in [DOMAIN programs -> Program]
    BY DEF Inv, TablesTyped
  <2>2. objects' \in [DOMAIN objects' -> Object]
    BY <1>1, <2>1, ButTyped
  <2>3. programs' \in [DOMAIN programs' -> Program]
    BY <1>1, <2>1, ButTyped
  <2> QED BY <1>1, <1>2, <1>5, <1>6, <2>2, <2>3 DEF Inv, TablesTyped
<1>14. BlocksOwned'
  <2>1. Allocator!Inv' /\ live' = live
    BY <1>1, Untouched DEF Inv, BlocksOwned
  <2>2. held \in [DOMAIN held -> Heap!Block]
    BY DEF Inv, BlocksOwned
  <2>3. held' \in [DOMAIN held' -> Heap!Block]
    BY <1>1, <2>2, ButTyped
  <2>4. Image(held') \subseteq Image(held)
    BY <1>4, <1>7, ImagePart
  <2>5. SoleOwner'
    BY <1>4, <1>7, <2>1, <2>4 DEF Inv, BlocksOwned, SoleOwner, Heap!Extent
  <2>6. \A o \in DOMAIN held' : o[1] \in Parts => o[2] \in DOMAIN programs'
    BY <1>4, <1>5 DEF Inv, BlocksOwned, PartsOf
  <2>7. \A h : <<"object", h>> \in DOMAIN held' => h \in DOMAIN objects' \ Functions'
    BY <1>4, <1>6, <1>9 DEF Inv, BlocksOwned, Unplaced
  <2>8. DOMAIN held' \subseteq Owner
    BY <1>4 DEF Inv, BlocksOwned
  <2> QED BY <2>1, <2>3, <2>5, <2>6, <2>7, <2>8 DEF BlocksOwned
<1>15. ObjectsPlaced'
  <2>1. \A h : <<"object", h>> \in DOMAIN held => <<"object", h>> \in DOMAIN held'
    BY <1>4 DEF PartsOf, Parts
  <2>2. ASSUME NEW h \in Functions, NEW part \in {"descriptor", "code"}
        PROVE  /\ objects'[h].program \in DOMAIN programs' /\ <<part, objects'[h].program>> \in DOMAIN held'
               /\ programs'[objects'[h].program].source.kind # Statement
    <3>1. /\ objects[h].program \in DOMAIN programs /\ <<part, objects[h].program>> \in DOMAIN held
          /\ programs[objects[h].program].source.kind # Statement
      BY DEF Inv, ObjectsPlaced
    <3>2. objects[h].program \notin gone
      <4>1. objects[h].program \in ProgramsOf(Functions)
        BY DEF ProgramsOf
      <4> QED BY <1>3, <4>1
    <3>3. <<part, objects[h].program>> \notin PartsOf(gone)
      BY <3>2 DEF PartsOf
    <3>4. objects'[h] = objects[h]
      BY <1>7, <1>9
    <3> QED BY <1>4, <1>5, <1>7, <3>1, <3>2, <3>3, <3>4
  <2>3. running # 0 => running \in DOMAIN programs' /\ programs'[running].source.kind = Statement
    BY <1>3, <1>5, <1>7 DEF Inv, ObjectsPlaced
  <2>4. \A p \in DOMAIN programs' : p = running \/ p \in ProgramsOf(Functions)
    BY <1>3, <1>5 DEF Inv, ObjectsPlaced
  <2>5. Functions \subseteq Standing /\ \A h \in Standing \ Functions : <<"object", h>> \in DOMAIN held'
    BY <2>1 DEF Inv, ObjectsPlaced
  <2> QED BY <1>2, <1>9, <1>10, <1>11, <2>2, <2>3, <2>4, <2>5 DEF ObjectsPlaced
<1>16. Underway' /\ Swept'
  BY <1>1 DEF Underway, Swept
<1> QED
  BY <1>12, <1>13, <1>14, <1>15, <1>16 DEF Inv, ReferencesStand

---------------------------------------------------------------------------
(* collect() *)

Roots == RootValues \ {0}

\* The marking ends with the least set that has the roots and what they lead to.
LEMMA ReachedLeast ==
  ASSUME NEW V \in SUBSET Handles, Closed(V, Roots)
  PROVE  Reached \subseteq V
BY DEF Reached, Roots

LEMMA ReachedClosed ==
  ASSUME NEW V \in SUBSET Handles, Closed(V, Roots)
  PROVE  Closed(Reached, Roots)
<1>1. Roots \subseteq Reached
  BY DEF Closed, Reached, Roots
<1>2. ASSUME NEW h \in Reached, NEW x \in Successors(h) \ {0} PROVE x \in Reached
  <2>1. h \in V /\ x \in V
    BY <1>2, ReachedLeast DEF Closed
  <2>2. ASSUME NEW W \in SUBSET Handles, Closed(W, Roots) PROVE x \in W
    <3>1. h \in W
      BY <1>2, <2>2, ReachedLeast
    <3> QED BY <1>2, <2>2, <3>1 DEF Closed
  <2> QED BY <2>1, <2>2 DEF Reached, Roots
<1> QED
  BY <1>1, <1>2 DEF Closed

\* What the tables refer to is in the tables: what stands is closed.
LEMMA StandingClosed ==
  ASSUME StorageAssumption, Inv
  PROVE  Standing \in SUBSET Handles /\ Closed(Standing, Roots)
<1>1. Standing \in SUBSET Handles /\ Functions \subseteq Standing
  BY DEF Standing, Inv, TablesTyped, ObjectsPlaced
<1>2. Image(values) \subseteq Reference /\ Image(bindings) \subseteq Reference
  BY DEF Inv, ReferencesStand, ExecutionStands, Image
<1>3. PendingFields \subseteq Reference
  BY DEF PendingFields, Unplaced, Inv, ReferencesStand, RecordsStand
<1>4. ASSUME NEW i \in DOMAIN frames PROVE FrameRoots(frames[i]) \subseteq Reference
  <2>1. frames[i] \in Frame
    BY DEF Inv, ReferencesStand, ExecutionStands
  <2>2. frames[i].function \in Functions /\ frames[i].saved \in [DOMAIN frames[i].saved -> Reference]
    BY <2>1, FrameIs
  <2> QED BY <1>1, <2>2 DEF FrameRoots, Image, Reference
<1>5. \A p \in FreePrograms : programs[p].roots \subseteq Reference
  BY <1>1 DEF FreePrograms, Inv, ReferencesStand, RecordsStand, Reference
<1>6. nested \subseteq Reference
  BY <1>1 DEF Inv, ReferencesStand, ExecutionStands, Reference
<1>7. RootValues \subseteq Reference
  BY <1>2, <1>3, <1>4, <1>5, <1>6 DEF RootValues
<1>8. ASSUME NEW h \in Standing PROVE Successors(h) \subseteq Reference
  <2>1. Image(objects[h].fields) \subseteq Reference
    BY DEF Standing, Inv, ReferencesStand, RecordsStand
  <2>2. ASSUME NEW p \in ProgramsOf({h}) PROVE programs[p].roots \subseteq Reference
    BY <1>1 DEF ProgramsOf, Inv, ReferencesStand, RecordsStand, ObjectsPlaced, Reference
  <2> QED BY <2>1, <2>2 DEF Successors
<1> QED
  BY <1>1, <1>7, <1>8 DEF Closed, Roots, Reference

\* What a collection visits, then, has the roots, what they lead to, and stands.
LEMMA ReachedIs ==
  ASSUME StorageAssumption, Inv
  PROVE  /\ Reached \subseteq Standing /\ Reached \in SUBSET Handles /\ Closed(Reached, Roots)
BY StandingClosed, ReachedLeast, ReachedClosed


\* Another marking finds the same when what it starts from is the same, and what was
\* found leads where it did.
LEMMA ReachedAgain ==
  ASSUME NEW V \in SUBSET Handles, Closed(V, Roots),
         Roots' = Roots, \A h \in Reached : Successors(h)' = Successors(h)
  PROVE  Reached' = Reached
<1>0. PICK R : R = Reached
  OBVIOUS
<1>1. R \in SUBSET Handles /\ Roots \subseteq R /\ \A h \in R : Successors(h) \ {0} \subseteq R
  <2>1. R \in SUBSET Handles
    BY <1>0 DEF Reached
  <2> QED BY <1>0, <2>1, ReachedClosed DEF Closed
<1>2. Roots' \subseteq R /\ \A h \in R : Successors(h)' \ {0} \subseteq R
  BY <1>0, <1>1
<1>3. Reached' \subseteq R
  BY <1>1, <1>2 DEF Reached, Roots, Closed
<1>4. ASSUME NEW h \in R, NEW W \in SUBSET Handles, Roots' \subseteq W,
             \A x \in W : Successors(x)' \ {0} \subseteq W
      PROVE  h \in W
  <2>1. R \cap W \in SUBSET Handles /\ Closed(R \cap W, Roots)
    BY <1>0, <1>1, <1>4 DEF Closed
  <2>2. R \subseteq R \cap W
    BY <1>0, <2>1, ReachedLeast
  <2> QED BY <2>2
<1>5. R \subseteq Reached'
  BY <1>1, <1>4 DEF Reached, Roots, Closed
<1> QED
  BY <1>0, <1>3, <1>5

LEMMA SeqOf ==
  ASSUME NEW S, NEW T, NEW q \in Seq(S), \A i \in DOMAIN q : q[i] \in T
  PROVE  q \in Seq(T)
<1>1. Len(q) \in Nat /\ DOMAIN q = 1 .. Len(q) /\ q \in [1 .. Len(q) -> T]
  OBVIOUS
<1> QED
  BY <1>1

\* What a collection keeps.
KeptOwners == {o \in DOMAIN held : o[1] = "object" => o[2] \in KeptObjects}
              \ PartsOf(DOMAIN programs \ KeptPrograms)

LEMMA KeptIs ==
  ASSUME StorageAssumption, Inv
  PROVE  /\ Unplaced \cap Standing = {} /\ Unplaced \cap Functions = {} /\ Functions \subseteq Standing
         /\ KeptObjects = Reached \cup Unplaced /\ KeptObjects \subseteq DOMAIN objects
         /\ ProgramsOf(Reached) = ProgramsOf(Functions \cap Reached)
         /\ ProgramsOf(Reached) \subseteq ProgramsOf(Functions) /\ ProgramsOf(Functions) \subseteq DOMAIN programs
         /\ KeptPrograms = FreePrograms \cup ProgramsOf(Reached) /\ KeptPrograms \subseteq DOMAIN programs
         /\ KeptOwners = Marked
<1>1. Unplaced \cap Standing = {} /\ Unplaced \cap Functions = {} /\ Functions \subseteq Standing
  BY DEF Inv, ObjectsPlaced, Unplaced, Functions
<1>2. KeptObjects = Reached \cup Unplaced /\ KeptObjects \subseteq DOMAIN objects
  BY ReachedIs DEF KeptObjects, Standing, Unplaced
<1>3. ProgramsOf(Reached) = ProgramsOf(Functions \cap Reached) /\ ProgramsOf(Reached) \subseteq ProgramsOf(Functions)
  BY DEF ProgramsOf
<1>4. ProgramsOf(Functions) \subseteq DOMAIN programs
  BY DEF ProgramsOf, Inv, ObjectsPlaced
<1>5. KeptPrograms = FreePrograms \cup ProgramsOf(Reached) /\ KeptPrograms \subseteq DOMAIN programs
  BY <1>3, <1>4 DEF KeptPrograms, FreePrograms
<1>6. ASSUME NEW o \in DOMAIN held PROVE o \in KeptOwners <=> o \in Marked
  <2>1. CASE o[1] = "object"
    <3>1. o[1] \notin Parts /\ o[1] # "word" /\ o[1] # "literal"
      BY <2>1 DEF Parts
    <3>2. o[2] \notin Unplaced
      <4>1. o = <<"object", o[2]>>
        <5>1. o \in Owner
          BY DEF Inv, BlocksOwned
        <5> QED BY <2>1, <5>1 DEF Owner, Parts
      <4> QED BY <4>1 DEF Unplaced
    <3> QED BY <1>2, <2>1, <3>1, <3>2 DEF KeptOwners, Marked, MarkedParts, PartsOf
  <2>2. CASE o[1] \in Parts
    <3>1. o[1] # "object" /\ o[1] # "word" /\ o[1] # "literal"
      BY <2>2 DEF Parts
    <3>2. o[2] \in DOMAIN programs
      BY <2>2 DEF Inv, BlocksOwned
    <3> QED BY <1>5, <2>2, <3>1, <3>2 DEF KeptOwners, Marked, MarkedParts, PartsOf
  <2>3. CASE o[1] \in {"word", "literal"}
    <3>1. o[1] # "object" /\ o[1] \notin Parts
      BY <2>3 DEF Parts
    <3> QED BY <2>3, <3>1 DEF KeptOwners, Marked, PartsOf
  <2>4. o[1] = "object" \/ o[1] \in Parts \/ o[1] \in {"word", "literal"}
    <3>1. o \in Owner
      BY DEF Inv, BlocksOwned
    <3> QED BY <3>1 DEF Owner, Parts
  <2> QED BY <2>1, <2>2, <2>3, <2>4
<1>7. KeptOwners \subseteq DOMAIN held /\ Marked \subseteq DOMAIN held
  BY DEF KeptOwners, Marked, MarkedParts, PartsOf
<1>8. KeptOwners = Marked
  BY <1>6, <1>7
<1> QED
  BY <1>1, <1>2, <1>3, <1>4, <1>5, <1>8

\* What a collection does to the tables.
CollectsTables ==
  /\ DOMAIN objects' = Reached \cup Unplaced /\ \A h \in DOMAIN objects' : objects'[h] = objects[h]
  /\ DOMAIN programs' = KeptPrograms /\ \A p \in DOMAIN programs' : programs'[p] = programs[p]
  /\ DOMAIN held' = Marked /\ \A o \in DOMAIN held' : held'[o] = held[o]
  /\ objects' \in [DOMAIN objects' -> Object] /\ programs' \in [DOMAIN programs' -> Program]
  /\ held' \in [DOMAIN held' -> Heap!Block]
  /\ Functions' = Functions \cap Reached /\ Standing' = Reached /\ Reference' = Reached \cup {0}
  /\ ProgramsOf(Functions)' = ProgramsOf(Reached)
  /\ UNCHANGED <<bindings, values, frames, running, nested, nextHandle, nextProgram>>

LEMMA CollectTables ==
  ASSUME StorageAssumption, Inv, Collect
  PROVE  CollectsTables
<1>1. /\ objects' = Only(objects, KeptObjects) /\ programs' = Only(programs, KeptPrograms)
      /\ held' = Only(held, KeptOwners)
      /\ UNCHANGED <<bindings, execution, nested, counters>>
  BY DEF Collect, KeptOwners
<1>2. UNCHANGED <<bindings, values, frames, running, nested, nextHandle, nextProgram>>
  BY <1>1 DEF execution, counters
<1>3. DOMAIN objects' = DOMAIN objects \cap KeptObjects
  BY <1>1, OnlyDomain
<1>4. DOMAIN programs' = DOMAIN programs \cap KeptPrograms
  BY <1>1, OnlyDomain
<1>5. DOMAIN held' = DOMAIN held \cap KeptOwners
  BY <1>1, OnlyDomain
<1>6. DOMAIN objects' = Reached \cup Unplaced /\ DOMAIN programs' = KeptPrograms /\ DOMAIN held' = Marked
  <2>1. KeptOwners \subseteq DOMAIN held
    BY DEF KeptOwners
  <2> QED BY <1>3, <1>4, <1>5, <2>1, KeptIs
<1>7. \A h \in DOMAIN objects' : objects'[h] = objects[h]
  BY <1>1, <1>3, OnlyAt
<1>8. \A p \in DOMAIN programs' : programs'[p] = programs[p]
  BY <1>1, <1>4, OnlyAt
<1>9. \A o \in DOMAIN held' : held'[o] = held[o]
  BY <1>1, <1>5, OnlyAt
<1>10. objects \in [DOMAIN objects -> Object] /\ programs \in [DOMAIN programs -> Program] /\ held \in [DOMAIN held -> Heap!Block]
  BY DEF Inv, TablesTyped, BlocksOwned
<1>11. objects' \in [DOMAIN objects' -> Object]
  BY <1>1, <1>10, OnlyTyped
<1>12. programs' \in [DOMAIN programs' -> Program]
  BY <1>1, <1>10, OnlyTyped
<1>13. held' \in [DOMAIN held' -> Heap!Block]
  BY <1>1, <1>10, OnlyTyped
<1>14. Functions' = Functions \cap Reached
  <2>1. \A h \in DOMAIN objects' : h \in DOMAIN objects
    BY <1>3
  <2> QED BY <1>6, <1>7, <2>1, KeptIs DEF Functions
<1>15. Standing' = Reached /\ Reference' = Reached \cup {0}
  <2>1. Reached \subseteq Standing /\ Unplaced \cap Standing = {}
    BY ReachedIs, KeptIs
  <2>2. Standing' = Reached
    BY <1>2, <1>3, <1>6, <2>1 DEF Standing
  <2> QED BY <2>2 DEF Reference
<1>16. ProgramsOf(Functions)' = ProgramsOf(Reached)
  <2>1. \A h \in Functions \cap Reached : objects'[h] = objects[h]
    BY <1>6, <1>7
  <2> QED BY <1>14, <2>1 DEF ProgramsOf
<1> QED
  BY <1>2, <1>6, <1>7, <1>8, <1>9, <1>11, <1>12, <1>13, <1>14, <1>15, <1>16 DEF CollectsTables

\* What was found refers to what was found.
LEMMA ReachedRefers ==
  ASSUME StorageAssumption, Inv
  PROVE  /\ Image(values) \subseteq Reached \cup {0} /\ Image(bindings) \subseteq Reached \cup {0}
         /\ nested \subseteq Reached
         /\ \A i \in DOMAIN frames : FrameRoots(frames[i]) \subseteq Reached \cup {0}
         /\ \A h \in Unplaced : Image(objects[h].fields) \subseteq Reached \cup {0}
         /\ \A p \in FreePrograms : programs[p].roots \subseteq Reached
         /\ \A h \in Reached : Image(objects[h].fields) \subseteq Reached \cup {0}
         /\ \A p \in ProgramsOf(Reached) : programs[p].roots \subseteq Reached
<1>1. Roots \subseteq Reached /\ \A h \in Reached : h \in DOMAIN objects /\ Successors(h) \ {0} \subseteq Reached
  BY ReachedIs DEF Closed, Standing
<1>2. RootValues \subseteq Reached \cup {0}
  BY <1>1 DEF Roots
<1>3. 0 \notin Handles /\ Functions \subseteq Handles
  BY DEF Handles, Functions, Inv, TablesTyped
<1>4. /\ Image(values) \subseteq RootValues /\ Image(bindings) \subseteq RootValues /\ nested \subseteq RootValues
      /\ \A h \in Unplaced : Image(objects[h].fields) \subseteq RootValues
  BY DEF RootValues, PendingFields
<1>5. \A i \in DOMAIN frames : FrameRoots(frames[i]) \subseteq RootValues
  BY DEF RootValues
<1>6. \A p \in FreePrograms : programs[p].roots \subseteq RootValues
  BY DEF RootValues
<1>7. nested \subseteq Functions /\ \A p \in DOMAIN programs : programs[p].roots \subseteq Functions
  BY DEF Inv, ReferencesStand, ExecutionStands, RecordsStand
<1>8. \A h \in Reached : Image(objects[h].fields) \subseteq Successors(h)
  BY <1>1 DEF Successors
<1>9. ASSUME NEW p \in ProgramsOf(Reached) PROVE programs[p].roots \subseteq Reached
  <2>1. PICK h \in Reached \cap Functions : p = objects[h].program
    BY DEF ProgramsOf
  <2>2. p \in ProgramsOf({h})
    BY <2>1 DEF ProgramsOf
  <2>3. programs[p].roots \subseteq Successors(h)
    BY <1>1, <2>1, <2>2 DEF Successors
  <2>4. p \in DOMAIN programs
    BY KeptIs
  <2> QED BY <1>1, <1>3, <1>7, <2>1, <2>3, <2>4
<1>10. \A p \in FreePrograms : programs[p].roots \subseteq Reached
  BY <1>2, <1>3, <1>6, <1>7 DEF FreePrograms
<1>11. nested \subseteq Reached
  BY <1>2, <1>3, <1>4, <1>7
<1> QED
  BY <1>1, <1>2, <1>4, <1>5, <1>8, <1>9, <1>10, <1>11

LEMMA CollectReferences ==
  ASSUME StorageAssumption, Inv, CollectsTables
  PROVE  ReferencesStand'
<1>1. values \in Seq(Reference') /\ bindings \in [DOMAIN bindings -> Reference']
  <2>1. values \in Seq(Reference) /\ bindings \in [DOMAIN bindings -> Reference]
    BY DEF Inv, ReferencesStand, ExecutionStands
  <2>2. \A i \in DOMAIN values : values[i] \in Reference'
    BY ReachedRefers DEF CollectsTables, Image
  <2>3. \A n \in DOMAIN bindings : bindings[n] \in Reference'
    BY ReachedRefers DEF CollectsTables, Image
  <2>4. values \in Seq(Reference')
    BY <2>1, <2>2, SeqOf
  <2> QED BY <2>1, <2>3, <2>4
<1>2. frames \in Seq(Frame')
  <2>1. frames \in Seq(Frame)
    BY DEF Inv, ReferencesStand, ExecutionStands
  <2>2. ASSUME NEW i \in DOMAIN frames PROVE frames[i] \in Frame'
    <3>1. frames[i] \in Frame
      BY <2>1
    <3>2. /\ frames[i].function \in Functions /\ DOMAIN frames[i].saved \subseteq Names
          /\ frames[i].saved \in [DOMAIN frames[i].saved -> Reference]
      BY <3>1, FrameIs
    <3>3. frames[i].function \in Reached \cup {0} /\ Image(frames[i].saved) \subseteq Reached \cup {0}
      BY ReachedRefers DEF FrameRoots
    <3>4. frames[i].function \in Functions'
      <4>1. 0 \notin Functions
        BY DEF Functions, Inv, TablesTyped, Handles
      <4> QED BY <3>2, <3>3, <4>1 DEF CollectsTables
    <3>5. frames[i].saved \in [DOMAIN frames[i].saved -> Reference']
      BY <3>2, <3>3 DEF CollectsTables, Image
    <3>6. frames[i].saved \in Saved'
      BY <3>2, <3>5 DEF Saved
    <3> QED BY <3>1, <3>4, <3>6 DEF Frame
  <2> QED BY <2>1, <2>2, SeqOf
<1>3. nested \subseteq Functions'
  BY ReachedRefers DEF CollectsTables, Inv, ReferencesStand, ExecutionStands
<1>4. ExecutionStands'
  BY <1>1, <1>2, <1>3 DEF CollectsTables, Inv, ReferencesStand, ExecutionStands
<1>5. \A h \in DOMAIN objects' : Image(objects'[h].fields) \subseteq Reference'
  BY ReachedRefers DEF CollectsTables
<1>6. \A p \in DOMAIN programs' : programs'[p].roots \subseteq Functions'
  <2>1. \A p \in KeptPrograms : programs[p].roots \subseteq Reached
    BY ReachedRefers, KeptIs
  <2>2. \A p \in KeptPrograms : programs[p].roots \subseteq Functions
    BY KeptIs DEF Inv, ReferencesStand, RecordsStand
  <2> QED BY <2>1, <2>2 DEF CollectsTables
<1> QED
  BY <1>4, <1>5, <1>6 DEF ReferencesStand, RecordsStand

LEMMA CollectBlocks ==
  ASSUME StorageAssumption, Inv, CollectsTables, Heap!Collect({held[o] : o \in Marked})
  PROVE  BlocksOwned' /\ live' = Image(held')
<1>1. Allocator!Inv' /\ live' = {held[o] : o \in Marked}
  BY Collected DEF Inv, BlocksOwned
<1>2. live' = Image(held')
  BY <1>1 DEF CollectsTables, Image
<1>3. DOMAIN held' \subseteq DOMAIN held /\ \A o \in DOMAIN held' : held'[o] = held[o]
  BY DEF CollectsTables, Marked, MarkedParts, PartsOf
<1>4. SoleOwner'
  BY <1>2, <1>3 DEF Inv, BlocksOwned, SoleOwner, Heap!Extent
<1>5. ASSUME NEW h, <<"object", h>> \in DOMAIN held' PROVE h \in DOMAIN objects' \ Functions'
  <2>1. h \in Reached /\ h \in DOMAIN objects \ Functions
    BY <1>3, <1>5 DEF CollectsTables, Marked, MarkedParts, PartsOf, Parts, Inv, BlocksOwned
  <2> QED BY <2>1 DEF CollectsTables
<1>6. ASSUME NEW o \in DOMAIN held', o[1] \in Parts PROVE o[2] \in DOMAIN programs'
  <2>1. o \in Marked /\ o[1] # "word" /\ o[1] # "literal" /\ o[1] # "object"
    BY <1>6 DEF CollectsTables, Parts
  <2>2. o[2] \in FreePrograms \cup ProgramsOf(Reached)
    BY <2>1 DEF Marked, MarkedParts, PartsOf
  <2> QED BY <2>2, KeptIs DEF CollectsTables
<1>7. DOMAIN held' \subseteq Owner /\ held' \in [DOMAIN held' -> Heap!Block]
  BY <1>3 DEF CollectsTables, Inv, BlocksOwned
<1> QED
  BY <1>1, <1>2, <1>4, <1>5, <1>6, <1>7 DEF BlocksOwned

\* Nothing under way loses what it has built.
LEMMA CollectPlaced ==
  ASSUME StorageAssumption, Inv, CollectsTables, todo' = todo \/ \A x : ~Compiling(x) /\ ~Constructing(x)
  PROVE  ObjectsPlaced'
<1>1. \A x : (Compiling(x) => Compiling(x)') /\ (Constructing(x) => Constructing(x)')
  BY DEF Compiling, Constructing, Subject
<1>2. \A h \in Standing' \ Functions' : <<"object", h>> \in DOMAIN held'
  <2>1. \A h \in Reached \ Functions : <<"object", h>> \in DOMAIN held
    BY ReachedIs DEF Inv, ObjectsPlaced
  <2> QED BY <2>1 DEF CollectsTables, Marked
<1>3. \A h \in DOMAIN objects' \ Standing' : h = nextHandle' /\ Constructing(h)'
  <2>1. \A h \in Unplaced : h = nextHandle /\ Constructing(h)
    BY KeptIs DEF Inv, ObjectsPlaced, Unplaced
  <2> QED BY <1>1, <2>1 DEF CollectsTables
<1>4. ASSUME NEW h \in Functions'
      PROVE  /\ objects'[h].program \in DOMAIN programs'
             /\ programs'[objects'[h].program].source.kind # Statement
             /\ \A part \in {"descriptor", "code"} : <<part, objects'[h].program>> \in DOMAIN held'
  <2>1. h \in Functions /\ h \in Reached /\ objects'[h] = objects[h]
    BY DEF CollectsTables
  <2>2. objects[h].program \in ProgramsOf(Reached)
    BY <2>1 DEF ProgramsOf
  <2>3. objects[h].program \in DOMAIN programs'
    BY <2>2, KeptIs DEF CollectsTables
  <2>4. ASSUME NEW part \in {"descriptor", "code"} PROVE <<part, objects[h].program>> \in DOMAIN held'
    <3>1. <<part, objects[h].program>> \in DOMAIN held /\ part \in Parts
      BY <2>1 DEF Inv, ObjectsPlaced, Parts
    <3> QED BY <2>2, <3>1 DEF CollectsTables, Marked, MarkedParts, PartsOf
  <2>5. programs[objects[h].program].source.kind # Statement
    BY <2>1 DEF Inv, ObjectsPlaced
  <2> QED BY <2>1, <2>3, <2>4, <2>5 DEF CollectsTables
<1>5. running' # 0 => running' \in DOMAIN programs' /\ programs'[running'].source.kind = Statement
  <2>1. ASSUME running # 0 PROVE running \in KeptPrograms /\ programs[running].source.kind = Statement
    <3>1. running \in DOMAIN programs /\ programs[running].source.kind = Statement
      BY <2>1 DEF Inv, ObjectsPlaced
    <3>2. running \notin ProgramsOf(Functions)
      BY <3>1 DEF Inv, ObjectsPlaced, ProgramsOf
    <3> QED BY <3>1, <3>2 DEF KeptPrograms, FreePrograms
  <2> QED BY <2>1 DEF CollectsTables
<1>6. \A p \in DOMAIN programs' : p = running' \/ Compiling(p)' \/ p \in ProgramsOf(Functions)'
  <2>1. \A p \in FreePrograms : p = running \/ Compiling(p)
    BY DEF FreePrograms, Inv, ObjectsPlaced
  <2> QED BY SMTT(40), <1>1, <2>1, KeptIs DEF CollectsTables
<1>7. Functions' \subseteq Standing'
  BY DEF CollectsTables
<1> QED
  BY <1>2, <1>3, <1>4, <1>5, <1>6, <1>7 DEF ObjectsPlaced

\* What a compilation obtained stays.
LEMMA CollectUnderway ==
  ASSUME StorageAssumption, Inv, CollectsTables, Missing, UNCHANGED todo
  PROVE  Underway'
<1>0. UNCHANGED <<todo, bindings, values, running, nextHandle>> /\ todo # <<>> /\ todo # <<Sweeping>>
  BY NotSweeping DEF CollectsTables, Missing
<1>1. ASSUME NEW h \in Handles, Placing(h) PROVE Underway'
  <2>1. h = nextHandle /\ h \in DOMAIN objects \ Functions /\ Len(values) < MaxStack
    BY <1>1, PlacingIs
  <2>2. Wanted.owner = <<"object", h>>
    BY <1>1, PlacingIs, DoingOnly, Zenon DEF Missing
  <2>3. h \in Unplaced /\ <<"object", h>> \notin DOMAIN held
    BY <2>1, <2>2 DEF Missing, Unplaced, Functions
  <2>4. h \in DOMAIN objects' \ Functions' /\ objects'[h] = objects[h]
    BY <2>1, <2>3 DEF CollectsTables
  <2>5. todo = <<Ask(Size(objects[h].kind), <<"object", h>>), Done(<<"object", h>>)>>
    BY <1>1, <2>3 DEF Placing
  <2>6. Placing(h)'
    BY <1>0, <2>1, <2>4, <2>5 DEF Placing
  <2> QED BY <2>6 DEF Underway
<1>2. ASSUME NEW n \in Names, Naming(n) PROVE Underway'
  <2>1. Naming(n)'
    BY <1>0, <1>2 DEF Naming
  <2> QED BY <2>1 DEF Underway
<1>3. ASSUME NEW p \in Programs, NEW q \in Seq(Request), Building(p, q) PROVE Underway'
  <2>1. p \in FreePrograms
    BY <1>3 DEF Building, FreePrograms
  <2>2. p \in DOMAIN programs' /\ programs'[p] = programs[p] /\ p \notin ProgramsOf(Functions)'
    BY <1>3, <2>1, KeptIs DEF CollectsTables, Building
  <2>3. \A o \in DOMAIN held : Own(p, o) => o \in DOMAIN held'
    BY <2>1 DEF CollectsTables, Marked, MarkedParts, PartsOf, Own, Parts
  <2>4. Requests(q, p, DOMAIN held') /\ Completes(q, p, DOMAIN held')
    BY <1>3, <2>3, RequestsKeep DEF Building
  <2>5. Building(p, q)'
    BY <1>0, <1>3, <2>2, <2>4 DEF Building
  <2> QED BY <2>5 DEF Underway
<1> QED
  BY <1>0, <1>1, <1>2, <1>3 DEF Inv, Underway

\* A second collection would find nothing to free.
LEMMA CollectSwept ==
  ASSUME StorageAssumption, Inv, CollectsTables, live' = Image(held'), Missing, UNCHANGED todo
  PROVE  Swept'
<1>1. FreePrograms' = FreePrograms
  BY KeptIs DEF CollectsTables, FreePrograms
<1>2. Unplaced' = Unplaced
  <2>1. Unplaced \subseteq Unplaced'
    BY DEF CollectsTables, Unplaced, Marked, MarkedParts, PartsOf
  <2>2. ASSUME NEW h \in Reached PROVE h \notin Unplaced'
    <3>1. objects'[h] = objects[h]
      BY <2>2 DEF CollectsTables
    <3>2. h \in Functions \/ <<"object", h>> \in DOMAIN held
      BY <2>2, ReachedIs DEF Inv, ObjectsPlaced
    <3>3. <<"object", h>> \in DOMAIN held => <<"object", h>> \in DOMAIN held'
      BY <2>2 DEF CollectsTables, Marked
    <3> QED BY <3>1, <3>2, <3>3 DEF Unplaced, Functions
  <2>3. Unplaced' \subseteq DOMAIN objects'
    BY DEF Unplaced
  <2> QED BY <2>1, <2>2, <2>3 DEF CollectsTables
<1>3. RootValues' = RootValues
  <2>1. PendingFields' = PendingFields
    BY <1>2 DEF PendingFields, CollectsTables
  <2>2. \A p \in FreePrograms : programs'[p] = programs[p]
    BY KeptIs DEF CollectsTables
  <2> QED BY <1>1, <2>1, <2>2 DEF RootValues, CollectsTables
<1>4. ASSUME NEW h \in Reached PROVE Successors(h)' = Successors(h)
  <2>1. h \in DOMAIN objects /\ h \in DOMAIN objects' /\ objects'[h] = objects[h]
    BY <1>4, ReachedIs DEF CollectsTables, Standing
  <2>2. ProgramsOf({h})' = ProgramsOf({h})
    BY <1>4, <2>1 DEF ProgramsOf, CollectsTables
  <2>3. \A p \in ProgramsOf({h}) : programs'[p] = programs[p]
    <3>1. ProgramsOf({h}) \subseteq ProgramsOf(Reached)
      BY <1>4 DEF ProgramsOf
    <3> QED BY <3>1, KeptIs DEF CollectsTables
  <2> QED BY ZenonT(60), <2>1, <2>2, <2>3 DEF Successors
<1>5. Reached' = Reached
  <2>1. Roots' = Roots
    BY <1>3 DEF Roots
  <2>2. Standing \in SUBSET Handles /\ Closed(Standing, Roots)
    BY StandingClosed
  <2> QED BY <1>4, <2>1, <2>2, ReachedAgain
<1>6. Missing'
  <2>1. Wanted' = Wanted /\ (Doing("allocate") => Doing("allocate")')
    BY DEF Wanted, Doing
  <2>2. DOMAIN held' \subseteq DOMAIN held
    BY DEF CollectsTables, Marked, MarkedParts, PartsOf
  <2> QED BY <2>1, <2>2 DEF Missing
<1>7. ProgramsOf(Reached)' = ProgramsOf(Functions)'
  BY <1>5 DEF CollectsTables, ProgramsOf
<1> QED
  BY <1>2, <1>5, <1>6, <1>7 DEF Swept, CollectsTables

LEMMA CollectTyped ==
  ASSUME StorageAssumption, Inv, CollectsTables, collected' \in BOOLEAN
  PROVE  TablesTyped'
<1>1. DOMAIN objects' \subseteq DOMAIN objects /\ DOMAIN programs' \subseteq DOMAIN programs
  BY KeptIs DEF CollectsTables
<1> QED
  BY <1>1 DEF CollectsTables, Inv, TablesTyped

LEMMA CollectKeeps ==
  ASSUME StorageAssumption, Inv, Collect
  PROVE  Inv'
<1>1. Heap!Collect({held[o] : o \in Marked})
  BY DEF Collect
<1>2. CollectsTables
  BY CollectTables
<1>3. ReferencesStand' /\ BlocksOwned' /\ live' = Image(held')
  BY <1>1, <1>2, CollectReferences, CollectBlocks
<1>4. CASE Missing /\ ~collected /\ collected' = TRUE /\ UNCHANGED todo
  <2>1. TablesTyped' /\ ObjectsPlaced' /\ Underway' /\ Swept'
    BY <1>2, <1>3, <1>4, CollectTyped, CollectPlaced, CollectUnderway, CollectSwept
  <2> QED BY <1>3, <2>1 DEF Inv
<1>5. CASE Doing("collect") /\ todo' = Tail(todo) /\ UNCHANGED collected
  <2>1. todo # <<>> /\ Wanted.do = "collect"
    BY <1>5, DoingIs
  <2>2. Wanted.do # "allocate" /\ Wanted.do # "release" /\ Wanted.do # "done"
    BY <2>1
  <2>3. ASSUME NEW h \in Handles, Placing(h) PROVE FALSE
    BY <2>2, <2>3, PlacingIs, Zenon
  <2>4. ASSUME NEW n \in Names, Naming(n) PROVE FALSE
    BY <2>2, <2>4, NamingIs, Zenon
  <2>5. ASSUME NEW p \in Programs, NEW q \in Seq(Request), Building(p, q) PROVE FALSE
    BY <2>2, <2>5, BuildingIs, Zenon
  <2>6. todo = <<Sweeping>>
    BY <2>1, <2>3, <2>4, <2>5 DEF Inv, Underway
  <2>7. todo' = <<>> /\ Subject = Sweeping.owner
    <3>1. Tail(todo) = <<>> /\ todo[Len(todo)] = Sweeping
      BY <2>6, OneStep, Zenon
    <3> QED BY <1>5, <3>1 DEF Subject
  <2>8. \A x : ~Compiling(x) /\ ~Constructing(x)
    <3>1. Subject = <<"collection">>
      BY <2>7 DEF Sweeping
    <3> QED BY <3>1 DEF Compiling, Constructing
  <2>9. collected = FALSE
    <3>1. ~Missing
      BY <2>2, DoingIs DEF Missing
    <3> QED BY <3>1, NothingSwept
  <2>10. TablesTyped' /\ ObjectsPlaced'
    BY <1>2, <1>5, <2>8, <2>9, CollectTyped, CollectPlaced
  <2>11. Underway' /\ Swept'
    BY <1>5, <2>7, <2>9 DEF Underway, Swept
  <2> QED BY <1>3, <2>10, <2>11 DEF Inv
<1> QED
  BY <1>4, <1>5 DEF Collect, MustCollect

---------------------------------------------------------------------------
(* The theorems *)

LEMMA InitInv ==
  ASSUME StorageAssumption, Init
  PROVE  Inv
<1>1. /\ Heap!Init /\ held = <<>> /\ objects = <<>> /\ programs = <<>> /\ bindings = <<>>
      /\ values = <<>> /\ frames = <<>> /\ nested = {}
      /\ running = 0 /\ todo = <<>> /\ collected = FALSE
      /\ nextHandle = 1 /\ nextProgram = 1
  BY DEF Init
<1>2. Allocator!Inv /\ live = {}
  BY <1>1, Started
<1>3. /\ DOMAIN held = {} /\ DOMAIN objects = {} /\ DOMAIN programs = {} /\ DOMAIN bindings = {}
      /\ Functions = {} /\ Standing = {} /\ Image(held) = {}
  BY <1>1 DEF Functions, Standing, Image
<1>4. TablesTyped
  <2>1. MaxHandle \in Nat /\ MaxProgram \in Nat
    BY DEF StorageAssumption
  <2>2. /\ running \in 0..MaxProgram /\ nextHandle \in 1..(MaxHandle + 1)
        /\ nextProgram \in 1..(MaxProgram + 1)
    BY <1>1, <2>1
  <2>3. objects \in [DOMAIN objects -> Object] /\ programs \in [DOMAIN programs -> Program]
    <3>1. \A S : <<>> \in [{} -> S]
      OBVIOUS
    <3> QED BY <1>1, <1>3, <3>1
  <2>4. collected \in BOOLEAN
    BY <1>1
  <2> QED BY <1>3, <2>2, <2>3, <2>4 DEF TablesTyped
<1>5. BlocksOwned
  BY <1>2, <1>3 DEF BlocksOwned, SoleOwner
<1>6. ReferencesStand
  BY <1>1, <1>3 DEF ReferencesStand, ExecutionStands, RecordsStand, StorageAssumption
<1>7. ObjectsPlaced
  BY <1>1, <1>3 DEF ObjectsPlaced
<1>8. Underway /\ Swept
  BY <1>1 DEF Underway, Swept
<1> QED
  BY <1>4, <1>5, <1>6, <1>7, <1>8 DEF Inv

LEMMA StutterInv ==
  ASSUME StorageAssumption, Inv, UNCHANGED vars
  PROVE  Inv'
<1>1. /\ UNCHANGED <<storage, records, bindings, execution, nested, counters>>
      /\ UNCHANGED <<heap, held, todo, collected, objects, programs, bindings, values, frames, running, nested,
                     nextHandle, nextProgram>>
  BY DEF vars, storage, records, execution, operation, counters
<1>2. /\ TablesTyped' /\ ReferencesStand' /\ Functions' = Functions /\ Standing' = Standing
      /\ ProgramsOf(Functions)' = ProgramsOf(Functions)
  <2>1. collected' \in BOOLEAN
    BY <1>1 DEF Inv, TablesTyped
  <2> QED BY <1>1, <2>1, SameTables
<1>3. BlocksOwned'
  BY <1>1, <1>2, BlocksStay
<1>4. ObjectsPlaced'
  BY <1>1, <1>2 DEF Inv, ObjectsPlaced, Compiling, Constructing, Subject
<1>5. Underway'
  BY <1>1, <1>2 DEF Inv, Underway, Placing, Naming, Building
<1>6. Unplaced' = Unplaced /\ FreePrograms' = FreePrograms
  BY <1>1, <1>2 DEF Unplaced, FreePrograms
<1>7. Reached' = Reached
  <2>1. RootValues' = RootValues
    BY <1>1, <1>6 DEF RootValues, PendingFields
  <2>2. \A h : Successors(h)' = Successors(h)
    BY <1>1, <1>2 DEF Successors, ProgramsOf
  <2>3. Roots' = Roots
    BY <2>1 DEF Roots
  <2>4. Standing \in SUBSET Handles /\ Closed(Standing, Roots)
    BY StandingClosed
  <2> QED BY <2>2, <2>3, <2>4, ReachedAgain
<1>8. ProgramsOf(Reached)' = ProgramsOf(Reached)
  BY <1>1, <1>2, <1>7 DEF ProgramsOf
<1>9. live' = live
  BY <1>1 DEF heap
<1>10. Swept'
  BY <1>1, <1>2, <1>6, <1>7, <1>8, <1>9 DEF Inv, Swept, Missing, Doing, Wanted
<1> QED
  BY <1>2, <1>3, <1>4, <1>5, <1>10 DEF Inv

LEMMA NextInv ==
  ASSUME StorageAssumption, Inv, Next
  PROVE  Inv'
<1>1. CASE AlreadyHeld \/ Allocate \/ Release \/ Exhausted \/ Collect
  BY <1>1, AlreadyHeldKeeps, AllocateKeeps, ReleaseKeeps, ExhaustedKeeps, CollectKeeps
<1>2. ASSUME NEW kind \in Constructors, NEW n \in 0..2, NewObject(kind, n) PROVE Inv'
  BY <1>2, NewObjectKeeps
<1>3. CASE ObjectMade \/ Interned
  BY <1>3, ObjectMadeKeeps, InternedKeeps
<1>4. ASSUME NEW n \in Names, Intern(n) \/ Compiled(n) \/ Load(n) \/ Store(n) \/ Call(n) PROVE Inv'
  BY <1>4, InternKeeps, CompiledKeeps, LoadKeeps, StoreKeeps, CallKeeps
<1>5. ASSUME NEW h \in Handles, NEW i \in 1..2, NEW v \in Value, SetField(h, i, v) PROVE Inv'
  BY <1>5, SetFieldKeeps
<1>6. ASSUME NEW s \in Sources, NEW R \in SUBSET nested, Retain(s, R) PROVE Inv'
  BY <1>6, RetainKeeps
<1>7. ASSUME NEW h \in Handles, Captured(h) PROVE Inv'
  BY <1>7, CapturedKeeps
<1>8. CASE Erase \/ Return \/ EndStatement \/ Abandon
  BY <1>8, EraseKeeps, ReturnKeeps, EndStatementKeeps, AbandonKeeps
<1> QED
  BY <1>1, <1>2, <1>3, <1>4, <1>5, <1>6, <1>7, <1>8 DEF Next

\* The invariant holds of every run.
THEOREM InvHolds == ASSUME StorageAssumption PROVE Spec => []Inv
<1>1. Init => Inv
  BY InitInv
<1>2. Inv /\ [Next]_vars => Inv'
  BY NextInv, StutterInv
<1> QED
  BY <1>1, <1>2, PTL DEF Spec

LEMMA Typed ==
  ASSUME StorageAssumption, Inv
  PROVE  TypeOK
<1>1. Heap!TypeOK
  BY SameTypes DEF Inv, BlocksOwned, Allocator!Inv
<1>2. DOMAIN held \subseteq Owner /\ Image(held) \subseteq Heap!Block
  BY DEF Inv, BlocksOwned, Image
<1>3. /\ DOMAIN objects \subseteq Handles
      /\ \A h \in DOMAIN objects :
           /\ objects[h].kind \in {"pair", "reference", "function"}
           /\ objects[h].fields \in Seq(Value)
           /\ objects[h].program \in 0..MaxProgram
  <2>1. DOMAIN objects \subseteq Handles /\ \A h \in DOMAIN objects : objects[h] \in Object
    BY DEF Inv, TablesTyped
  <2> QED BY <2>1 DEF Object
<1>4. /\ DOMAIN programs \subseteq Programs
      /\ \A p \in DOMAIN programs : programs[p].source \in Sources /\ programs[p].roots \subseteq Handles
  <2>1. DOMAIN programs \subseteq Programs /\ \A p \in DOMAIN programs : programs[p] \in Program
    BY DEF Inv, TablesTyped
  <2> QED BY <2>1 DEF Program
<1>5. Reference \subseteq Value /\ Functions \subseteq Handles
  <2>1. Standing \subseteq Handles /\ Functions \subseteq Handles
    BY <1>3 DEF Standing, Functions
  <2>2. MaxHandle \in Nat
    BY DEF StorageAssumption
  <2> QED BY <2>1, <2>2 DEF Reference, Handles, Value
<1>6. DOMAIN bindings \subseteq Names /\ Image(bindings) \subseteq Value
  BY <1>5 DEF Inv, ReferencesStand, ExecutionStands, Image
<1>7. values \in Seq(Value) /\ Len(values) <= MaxStack
  BY <1>5 DEF Inv, ReferencesStand, ExecutionStands
<1>8. ASSUME NEW i \in DOMAIN frames
      PROVE  /\ frames[i].function \in Handles /\ DOMAIN frames[i].saved \subseteq Names
             /\ Image(frames[i].saved) \subseteq Value
  <2>1. frames[i] \in Frame
    BY DEF Inv, ReferencesStand, ExecutionStands
  <2>2. /\ frames[i].function \in Functions /\ DOMAIN frames[i].saved \subseteq Names
        /\ frames[i].saved \in [DOMAIN frames[i].saved -> Reference]
    BY <2>1, FrameIs
  <2> QED BY <1>5, <2>2 DEF Image
<1>9. nested \subseteq Handles
  BY <1>5 DEF Inv, ReferencesStand, ExecutionStands
<1>10. Idle => Unplaced = {}
  BY IdleIs, KeptIs DEF Unplaced
<1>11. /\ running \in 0..MaxProgram /\ collected \in BOOLEAN
       /\ nextHandle \in 1..(MaxHandle + 1) /\ nextProgram \in 1..(MaxProgram + 1)
  BY DEF Inv, TablesTyped
<1> QED
  BY <1>1, <1>2, <1>3, <1>4, <1>6, <1>7, <1>8, <1>9, <1>10, <1>11 DEF TypeOK

\* Every live extent has one owner, and every table is of its type, whatever asks for
\* storage and whenever a collection answers.
THEOREM ExtentsAreOwned == ASSUME StorageAssumption PROVE Spec => []ExtentsOwned
<1>1. Inv => ExtentsOwned
  BY Typed DEF ExtentsOwned, Inv, BlocksOwned
<1> QED
  BY <1>1, InvHolds, PTL

\* What execution, a suspended caller, a constructor or the compiler can still use, and
\* what the marking meets, is in the tables with its storage.
THEOREM HandlesAreKept == ASSUME StorageAssumption PROVE Spec => []HandlesKept
<1>1. ASSUME Inv, NEW h \in Standing PROVE Placed(h)
  <2>1. h \in DOMAIN objects /\ (h \in Functions <=> objects[h].kind = "function")
    BY DEF Standing, Functions
  <2>2. /\ objects[h].kind = "function" =>
             /\ objects[h].program \in DOMAIN programs
             /\ \A part \in {"descriptor", "code"} : <<part, objects[h].program>> \in DOMAIN held
        /\ objects[h].kind # "function" => <<"object", h>> \in DOMAIN held
    BY <1>1, <2>1 DEF Inv, ObjectsPlaced
  <2> QED BY <2>1, <2>2 DEF Placed
<1>2. ASSUME Inv PROVE InUse \ {0} \subseteq Standing
  <2>1. InUse \subseteq RootValues
    BY DEF InUse, RootValues
  <2> QED BY <1>2, <2>1, ReachedIs DEF Closed, Roots
<1>3. ASSUME Inv, NEW h \in Reached PROVE Successors(h) \ {0} \subseteq Standing
  BY <1>3, ReachedIs DEF Closed
<1>4. Inv => HandlesKept
  BY <1>1, <1>2, <1>3 DEF HandlesKept
<1> QED
  BY <1>4, InvHolds, PTL

\* Storage is reported exhausted only when a collection has just left nothing to free.
THEOREM ExhaustionIsHonest == ASSUME StorageAssumption PROVE Spec => ExhaustionHonest
<1>1. ASSUME Inv, Exhausted PROVE HonestExhaustion
  <2>1. /\ live = Image(held) /\ DOMAIN objects = Reached \cup Unplaced
        /\ ProgramsOf(Functions) \subseteq ProgramsOf(Reached)
    BY <1>1 DEF Exhausted, Inv, Swept
  <2>2. \A p \in DOMAIN programs : p = running \/ Compiling(p) \/ p \in ProgramsOf(Functions)
    BY <1>1 DEF Inv, ObjectsPlaced
  <2> QED BY <2>1, <2>2 DEF HonestExhaustion, Compiling
<1>2. Inv /\ [Next]_vars => [HonestExhaustion]_vars
  BY <1>1 DEF HonestExhaustion
<1> QED
  BY <1>2, InvHolds, PTL DEF Spec, ExhaustionHonest
=============================================================================
