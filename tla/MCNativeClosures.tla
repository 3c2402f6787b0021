--------------------------- MODULE MCNativeClosures ---------------------------
(* FUNCTION A A; VARS B; FUNCTION B A; ... END; ... END, small enough for   *)
(* TLC: the nested function shares the local B of its parent and shadows A. *)
EXTENDS NativeClosures

CONSTANTS A, B

MCBodies == {1, 2}
MCName == <<A, B>>
MCChildren == << {2}, {} >>
MCFormals == << <<[word |-> A, argument |-> TRUE], [word |-> B, argument |-> FALSE]>>,
                <<[word |-> A, argument |-> TRUE]>> >>

VARIABLE part

\* Without cells, as the hybrid runtime runs unless --experimental is given.
Historical == INSTANCE NativeClosures WITH
  Experimental <- FALSE, MaxDepth <- 2, MaxCell <- 1, MaxStack <- 1

PartsInit == \/ part = "cells" /\ Init
             \/ part = "historical" /\ Historical!Init

PartsNext == /\ UNCHANGED part
             /\ \/ part = "cells" /\ Next
                \/ part = "historical" /\ Historical!Next

\* The properties are those of NativeClosures: they hold of both parts.
PartsSpec == PartsInit /\ [][PartsNext]_<<vars, part>>

=============================================================================
