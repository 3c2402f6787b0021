--------------------------- MODULE MCNativeCompiler ----------------------------
(* Four kinds of source in one run: token streams of any order over three    *)
(* alphabets, each within bounds of its own, and conditionals whose meaning  *)
(* is known.                                                                 *)
EXTENDS NativeMeaning

MeaningWords == {"a", "b", "c", "p", "q", "r"}
MCWords == MeaningWords \cup {"x"}
MeaningAlphabet == MeaningWords \cup {"IF", "THEN", "AND", "OR", "ELSE", "ELSEIF", "CLOSE"}

A == Leaf("a")
B == Leaf("b")
D == Leaf("c")
P == Leaf("p")
Q == Leaf("q")
R == Leaf("r")
Joint == {"AND", "OR"}

\* One arm with up to three terms; two arms; an arm or a term that is a conditional.
Short(then) == {Arm(<<A>>, <<>>, then)} \cup {Arm(<<A, B>>, <<j>>, then) : j \in Joint}
Long(then) == {Arm(<<A, B, D>>, <<j, k>>, then) : j \in Joint, k \in Joint}
Ends(w) == {<<>>, <<w>>}
Flat == {IfTree(<<a>>, e) : a \in Short(P) \cup Long(P), e \in Ends(R)}
Two == {IfTree(<<a, Arm(<<D, B>>, <<j>>, Q)>>, e) : a \in Short(P), j \in Joint, e \in Ends(R)}
Three == {IfTree(<<a, Arm(<<B>>, <<>>, Q), Arm(<<D>>, <<>>, A)>>, e) : a \in Short(P), e \in Ends(R)}
Inner == {IfTree(<<Arm(<<B, D>>, <<j>>, Q)>>, e) : j \in Joint, e \in Ends(R)}
Full == {i \in Inner : i.otherwise # <<>>}
InArm == {IfTree(<<a>>, e) : a \in UNION {Short(i) : i \in Inner}, e \in Ends(P) \cup {<<i>> : i \in Inner}}
InTerm == {IfTree(<<Arm(<<i, A>>, <<j>>, P)>>, e) : i \in Full, j \in Joint, e \in Ends(R)}
          \cup {IfTree(<<Arm(<<A, i>>, <<j>>, P)>>, e) : i \in Full, j \in Joint, e \in Ends(R)}

MeaningSources == Flat \cup Two \cup Three \cup InArm \cup InTerm

VARIABLE part

\* Conditionals with groups and what may interrupt them.
Conditionals == INSTANCE NativeCompiler WITH
  MaxOperations <- 4, MaxPending <- 3, MaxFunctions <- 0,
  Alphabet <- {"IF", "THEN", "AND", "OR", "ELSE", "ELSEIF", "CLOSE", "x", "(", ")", ";"}

\* Definitions, nested and abandoned.
Definitions == INSTANCE NativeCompiler WITH
  MaxOperations <- 2, MaxPending <- 1, MaxFunctions <- 1,
  Alphabet <- {"FUNCTION", "END", "RETURN", "VARS", "x", ";", "->", "IF", "ERASE"}

\* Expressions, calls and everything that may be wrong with them.
Expressions == INSTANCE NativeCompiler WITH
  MaxOperations <- 2, MaxPending <- 2, MaxFunctions <- 0,
  Alphabet <- {"x", "1", "13 digits", "?", "(", ")", ",", ";", "=>", "->", "+", "ERASE",
               "NOT", "TRUE", "<>", "COMMENT"}

all == <<vars, source, read>>

PartsInit == \/ part = "conditionals" /\ Conditionals!Init /\ source = NoName /\ read = 0
             \/ part = "definitions" /\ Definitions!Init /\ source = NoName /\ read = 0
             \/ part = "expressions" /\ Expressions!Init /\ source = NoName /\ read = 0
             \/ part = "meaning" /\ MeaningInit

PartsNext == /\ UNCHANGED part
             /\ \/ part = "conditionals" /\ Conditionals!Next /\ UNCHANGED <<source, read>>
                \/ part = "definitions" /\ Definitions!Next /\ UNCHANGED <<source, read>>
                \/ part = "expressions" /\ Expressions!Next /\ UNCHANGED <<source, read>>
                \/ part = "meaning" /\ (Feed \/ Done)

PartsSpec == PartsInit /\ [][PartsNext]_<<all, part>>

---------------------------------------------------------------------------
(* The properties of NativeCompiler hold in every part. *)

\* A closed conditional computes what its source means (the branches of accept_token).
MeaningIsKept == part = "meaning" => MeaningKept
=============================================================================
