----------------------------- MODULE MCBindings -----------------------------
(* Small instances of Bindings for TLC. *)
EXTENDS Bindings

\* A header that shadows a resident name, and one that sees it.
MCShadow == {[args |-> <<"HD">>, locals |-> <<>>, results |-> <<>>],
             [args |-> <<>>, locals |-> <<>>, results |-> <<>>]}

\* A header that binds the same name twice, as a local and as a result.
MCTwice == {[args |-> <<>>, locals |-> <<"HD">>, results |-> <<"HD">>]}

MCSignatures == MCShadow \cup MCTwice

VARIABLE scenario

\* A name the constructor protects.
Shadow == INSTANCE Bindings WITH
  Signatures <- MCShadow, MaxCell <- 3, MaxFaults <- 0

\* A name of the user's.
Twice == INSTANCE Bindings WITH
  Resident <- {}, Signatures <- MCTwice, MaxIdent <- 1, MaxStack <- 1

ASSUME /\ Shadow!NamesAssumption /\ Shadow!SignaturesAssumption /\ Shadow!BoundsAssumption
       /\ Twice!NamesAssumption /\ Twice!SignaturesAssumption /\ Twice!BoundsAssumption

ScenariosInit == \/ scenario = "shadow" /\ Shadow!Init
                 \/ scenario = "twice" /\ Twice!Init

ScenariosNext == /\ UNCHANGED scenario
                 /\ \/ scenario = "shadow" /\ Shadow!Next
                    \/ scenario = "twice" /\ Twice!Next

\* Both run under the larger constants of Bindings itself, whose properties are checked.
ScenariosSpec == ScenariosInit /\ [][ScenariosNext]_<<vars, scenario>>
=============================================================================
