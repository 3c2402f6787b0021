--------------------------- MODULE MCNativeStorage ---------------------------
(* Small arenas for TLC. *)
EXTENDS NativeStorage

VARIABLE arena

\* A statement with a literal, and a function.
MCFlat ==
  {[emissions |-> <<"op", "L">>, locals |-> <<>>, captures |-> 0, kind |-> "statement"],
   [emissions |-> <<"op">>, locals |-> <<>>, captures |-> 0, kind |-> "function"]}

\* A function that has a local variable and defines another function.
MCNested ==
  {[emissions |-> <<"op">>, locals |-> <<>>, captures |-> 0, kind |-> "statement"],
   [emissions |-> <<"op">>, locals |-> <<>>, captures |-> 0, kind |-> "child"],
   [emissions |-> <<"op">>, locals |-> <<"X">>, captures |-> 1, kind |-> "function"]}

MCSources == MCFlat \cup MCNested

\* Eight words, without closures.
Flat == INSTANCE NativeStorage WITH
  Limit <- 9, Sources <- MCFlat, Experimental <- FALSE, MaxHandle <- 3, MaxProgram <- 2,
  MaxStack <- 1, MaxDepth <- 1

\* Closures with cells, in an arena that holds two instances of a nested function.
Nested == INSTANCE NativeStorage WITH Literals <- {}, Sources <- MCNested, Constructors <- {}

ASSUME StorageAssumption /\ Flat!StorageAssumption /\ Nested!StorageAssumption

ArenasInit == \/ arena = "flat" /\ Flat!Init
              \/ arena = "nested" /\ Nested!Init

ArenasNext == /\ UNCHANGED arena
              /\ \/ arena = "flat" /\ Flat!Next
                 \/ arena = "nested" /\ Nested!Next

\* Both are arenas of NativeStorage with the larger constants, whose properties are checked.
ArenasSpec == ArenasInit /\ [][ArenasNext]_<<vars, arena>>
=============================================================================
