----------------------------- MODULE ImageStorage -----------------------------
(***************************************************************************)
(* Storage of the original image as the generated routines of              *)
(* src/machine.cpp keep it: the heads of the free lists and the links and  *)
(* sizes of free blocks are halves of words of memory, and the words of a  *)
(* block in use are the program's.  The native allocator claims to make    *)
(* the same decisions (docs/native-allocation.md).                         *)
(*                                                                         *)
(* The collector at 05523 is code of the image, run by single instructions *)
(* and no part of src/: only what its caller and the routines find         *)
(* afterwards is here.                                                     *)
(***************************************************************************)
EXTENDS Integers, FiniteSetsExt, SequencesExt

CONSTANTS First, Limit,    \* the arena, memory words 00017 and 17010
          SmallLimit,      \* sizes below it have a list of their own (021)
          BitmapWord,      \* words of storage per word of the collector's bitmap (48)
          FunctionWords    \* words of a function's descriptor (5)

VARIABLES
  memory,   \* address -> [size, link], the halves of a word
  request,  \* the size a routine waits for while storage is collected, or 0
  status,   \* "runs", "collects", "collected" or "halted"
  freeing,  \* blocks the routine under way has still to release
  node,     \* a node it has still to release, or 0
  live,     \* ghost: blocks in use
  lost      \* ghost: gaps the last collection did not link

vars == <<memory, request, status, freeing, node, live, lost>>

\* 05502+n; the common list's is HeadOf(0).  The heads lie below the arena: SmallLimit < First.
HeadOf(n) == 1 + n

Arena == First .. Limit - 1
Word(size, link) == [size |-> size, link |-> link]
Unbound == Word(0, 0)   \* 02213, and the word at address 0
Extent(a, n) == a .. a + n - 1
Block == [address : Arena, words : 1 .. Limit - First]

\* The addresses of the list at a head, as long as no address repeats.
Listed(m, head) ==
  LET at[k \in 0 .. Limit] == IF k = 0 THEN m[head].link
                              ELSE IF at[k - 1] = 0 THEN 0 ELSE m[at[k - 1]].link
  IN SelectSeq([k \in 1 .. Limit |-> at[k - 1]], LAMBDA a : a # 0)

\* 20660: one extent between the bounds.
Init == /\ memory = [a \in 0 .. Limit - 1 |-> CASE a = HeadOf(0) -> Word(0, First)
                                                [] a = First -> Word(Limit - First, 0)
                                                [] OTHER -> Unbound]
        /\ request = 0 /\ status = "runs" /\ freeing = <<>> /\ node = 0
        /\ live = {} /\ lost = {}

Idle == status = "runs" /\ freeing = <<>> /\ node = 0

---------------------------------------------------------------------------
(* 05447: try to find n words *)

Cleared(m, a, n) == [x \in DOMAIN m |-> IF x \in Extent(a, n) THEN Unbound ELSE m[x]]

Granted(m, a, n) == /\ memory' = Cleared(m, a, n)
                    /\ live' = live \cup {[address |-> a, words |-> n]}
                    /\ request' = 0 /\ status' = "runs" /\ UNCHANGED <<freeing, node, lost>>

OfItsSize(n) == n < SmallLimit /\ memory[HeadOf(n)].link # 0

\* The head takes over the link of the first block.
TakeFirst(n) == LET a == memory[HeadOf(n)].link
                IN OfItsSize(n) /\ Granted([memory EXCEPT ![HeadOf(n)] = Word(0, memory[a].link)], a, n)

\* The first block of the common list that is large enough, after its predecessor.
Sufficient(n, k) == LET list == Listed(memory, HeadOf(0))
                    IN /\ k \in DOMAIN list /\ memory[list[k]].size >= n
                       /\ \A j \in 1 .. k - 1 : memory[list[j]].size < n

\* 05475: a block used up gives its link to the predecessor, which keeps its size.
Unlinked(before, block) == [memory EXCEPT ![before].link = memory[block].link]

\* 05470: otherwise the last words are taken and the rest keeps its place.
TakeCommon(n) ==
  LET list == Listed(memory, HeadOf(0))
  IN /\ ~OfItsSize(n)
     /\ \E k \in DOMAIN list :
          LET block == list[k]
              rest == memory[block].size - n
              before == IF k = 1 THEN HeadOf(0) ELSE list[k - 1]
          IN /\ Sufficient(n, k)
             /\ IF rest = 0 THEN Granted(Unlinked(before, block), block, n)
                ELSE Granted([memory EXCEPT ![block].size = rest], block + rest, n)

Take(n) == TakeFirst(n) \/ TakeCommon(n)
Found(n) == OfItsSize(n) \/ \E k \in DOMAIN Listed(memory, HeadOf(0)) : Sufficient(n, k)

\* 05430: nothing for no words; otherwise the caller and the size are saved and 05447 runs.
Request(n) == /\ Idle
              /\ \/ Take(n)
                 \/ /\ ~Found(n) /\ request' = n /\ status' = "collects"
                    /\ UNCHANGED <<memory, freeing, node, live, lost>>

\* 05434: once storage has been collected 05447 runs again; a second failure ends the
\* session (05440).
Retry == /\ status = "collected"
         /\ \/ Take(request)
            \/ /\ ~Found(request) /\ status' = "halted"
               /\ UNCHANGED <<memory, request, freeing, node, live, lost>>

---------------------------------------------------------------------------
(* 05523, from what its callers find: the gaps between marked blocks, in ascending order *)

Words(B) == UNION {Extent(b.address, b.words) : b \in B}
Gaps(M) == {g \in Block :
              /\ Extent(g.address, g.words) \cap Words(M) = {}
              /\ g.address + g.words <= Limit
              /\ g.address = First \/ g.address - 1 \in Words(M)
              /\ g.address + g.words = Limit \/ g.address + g.words \in Words(M)}
Linked(M) == {g \in Gaps(M) : /\ g.address + g.words \in Words(M)
                              /\ g.address + g.words < (Limit \div BitmapWord) * BitmapWord}

Collected(M) ==
  LET list == SetToSortSeq(Linked(M), LAMBDA g, h : g.address < h.address)
      Next_(k) == IF k = Len(list) THEN 0 ELSE list[k + 1].address
  IN /\ status = "collects" /\ M \subseteq live
     /\ memory' = [a \in DOMAIN memory |->
                     CASE a = HeadOf(0) -> Word(0, IF list = <<>> THEN 0 ELSE list[1].address)
                       [] a \in {HeadOf(n) : n \in 1 .. SmallLimit - 1} -> Unbound
                       [] \E k \in DOMAIN list : list[k].address = a ->
                            LET k == CHOOSE i \in DOMAIN list : list[i].address = a
                            IN Word(list[k].words, Next_(k))
                       [] OTHER -> memory[a]]
     /\ live' = M /\ lost' = Gaps(M) \ Linked(M)
     /\ status' = "collected" /\ UNCHANGED <<request, freeing, node>>

---------------------------------------------------------------------------
(* 03506, 03516: release a block *)

Pushed(m, head, a) == [m EXCEPT ![a] = m[head], ![head] = Word(0, a)]

\* Mutant: sizes up to the limit, it included, go to lists of their size.
ReleasedUpTo(m, a, n) ==
  IF n <= SmallLimit THEN Pushed(m, HeadOf(n), a)
  ELSE [m EXCEPT ![a] = Word(n, m[HeadOf(0)].link), ![HeadOf(0)] = Word(0, a)]

\* A small block forgets its size; a large one keeps it in the common list.
Released(m, a, n) ==
  IF n = 0 THEN m
  ELSE IF n < SmallLimit THEN Pushed(m, HeadOf(n), a)
  ELSE [m EXCEPT ![a] = Word(n, m[HeadOf(0)].link), ![HeadOf(0)] = Word(0, a)]

Gone(a, n) == live' = live \ {[address |-> a, words |-> n]}

Release(b) == /\ Idle
              /\ memory' = Released(memory, b.address, b.words)
              /\ Gone(b.address, b.words) /\ UNCHANGED <<request, status, freeing, node, lost>>

\* 03521: the code of a function, the block its last word names, if any, and the descriptor;
\* their first words hold the sizes.
DescribedBy(d, c, v) ==
  [a \in DOMAIN memory |-> CASE a = d.address -> Word(0, c.words)
                             [] a = d.address + FunctionWords - 1 -> Word(0, IF v = d THEN 0 ELSE v.address)
                             [] a = v.address -> Word(0, v.words)
                             [] OTHER -> memory[a]]

ReleaseFunction(d, c, v) ==
  LET m == DescribedBy(d, c, v)
      vector == m[d.address + FunctionWords - 1].link
  IN /\ Idle
     /\ d.words = FunctionWords /\ c \notin {d, v}   \* v = d: no vector
     /\ memory' = Released(m, c.address, m[d.address].link)
     /\ Gone(c.address, c.words)
     /\ freeing' = IF vector = 0 THEN <<d.address>> ELSE <<vector, d.address>>
     /\ UNCHANGED <<request, status, node, lost>>

ReleaseRest ==
  /\ freeing # <<>>
  /\ LET a == freeing[1]
         n == IF Len(freeing) = 2 THEN memory[a].link ELSE FunctionWords
     IN /\ memory' = IF Len(freeing) = 2 THEN Released(memory, a, n)
                     ELSE Pushed(memory, HeadOf(FunctionWords), a)
        /\ Gone(a, n)
  /\ freeing' = Tail(freeing) /\ UNCHANGED <<request, status, node, lost>>

\* 03531: nodes of two words, the second of which links to the next; here one or two.
ReleaseNodes(a, b) ==
  LET m == [memory EXCEPT ![b + 1] = Unbound, ![a + 1] = Word(0, IF b = a THEN 0 ELSE b)]
  IN /\ Idle /\ {[address |-> a, words |-> 2], [address |-> b, words |-> 2]} \subseteq live
     /\ memory' = Pushed(m, HeadOf(2), a) /\ node' = m[a + 1].link /\ Gone(a, 2)
     /\ UNCHANGED <<request, status, freeing, lost>>

ReleaseNode == /\ node # 0
               /\ memory' = Pushed(memory, HeadOf(2), node) /\ node' = memory[node + 1].link
               /\ Gone(node, 2) /\ UNCHANGED <<request, status, freeing, lost>>

---------------------------------------------------------------------------
Next == \/ \E n \in 1 .. Limit - First : Request(n)
        \/ Retry
        \/ \E M \in SUBSET live : Collected(M)
        \/ \E b \in live : Release(b)
        \/ \E d, c, v \in live : ReleaseFunction(d, c, v)
        \/ ReleaseRest
        \/ \E b, c \in live : ReleaseNodes(b.address, c.address)
        \/ ReleaseNode

Spec == Init /\ [][Next]_vars

---------------------------------------------------------------------------
(* Properties *)

Sized(list) == [k \in DOMAIN list |-> [address |-> list[k], words |-> memory[list[k]].size]]
OfSize(list, n) == [k \in DOMAIN list |-> [address |-> list[k], words |-> n]]

CommonList == Sized(Listed(memory, HeadOf(0)))
SmallLists == [n \in 1 .. SmallLimit - 1 |-> OfSize(Listed(memory, HeadOf(n)), n)]

Native == INSTANCE NativeAllocator WITH
  common <- CommonList, small <- SmallLists, unavailable <- lost

\* A step of the image as a step of the native allocator: the block taken, the block released
\* or the blocks kept say which.
NativeStep == \/ UNCHANGED <<live, lost, CommonList, SmallLists>>
              \/ \E b \in live' \ live : Native!TryAllocate(b.words, b)
              \/ \E b \in live \ live' : Native!Release(b)
              \/ Native!Collect(live')

\* The image collects or gives up only when the native allocator finds nothing.
WaitsAsNative == request # 0 => (status = "collected" \/ Native!CannotAllocate(request))

\* The lists in memory change as those of the native allocator, block for block.
ActsAsNative == Native!Init /\ [][NativeStep]_vars /\ []WaitsAsNative

\* 10402: what COREUSED counts as free.
CoreFree == LET list == Listed(memory, HeadOf(0))
            IN MapThenSumSet(LAMBDA k : memory[list[k]].size, DOMAIN list)

\* COREUSED never calls free what is in use.
CoreIsUsed == MapThenSumSet(LAMBDA b : b.words, live) <= Limit - (CoreFree + First)
=============================================================================
