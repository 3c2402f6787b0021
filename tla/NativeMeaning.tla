----------------------------- MODULE NativeMeaning ------------------------------
(***************************************************************************)
(* What the compiled operations of a conditional compute, against the      *)
(* meaning docs/native-booleans.md gives the source: terms are evaluated   *)
(* from left to right until an AND term is false, an OR term is true or    *)
(* there are no more.  Conditionals are fed to the compiler of             *)
(* NativeCompiler token by token and their code is interpreted the way     *)
(* execute() does.                                                         *)
(*                                                                         *)
(* A term or an arm is a word, whose value is true or false, or a nested   *)
(* conditional.                                                            *)
(***************************************************************************)
EXTENDS NativeCompiler

Seqs == INSTANCE SequencesExt

VARIABLES source, read

CONSTANT Sources  \* conditionals, as trees

\* A tree is a word, << w >>, or arms and what follows ELSE: an arm is a sequence of terms,
\* the separators between them and what follows THEN.
Leaf(w) == [word |-> w, arms |-> <<>>, otherwise |-> <<>>]
IfTree(arms, otherwise) == [word |-> NoName, arms |-> arms, otherwise |-> otherwise]
Arm(terms, joints, then) == [terms |-> terms, joints |-> joints, then |-> then]

RECURSIVE TokensOf(_)
TokensOf(tree) ==
  LET terms(arm) == Seqs!FlattenSeq([i \in DOMAIN arm.terms |->
                      (IF i = 1 THEN <<>> ELSE <<arm.joints[i - 1]>>) \o TokensOf(arm.terms[i])])
      arms == [i \in DOMAIN tree.arms |-> <<IF i = 1 THEN "IF" ELSE "ELSEIF">> \o terms(tree.arms[i])
                                          \o <<"THEN">> \o TokensOf(tree.arms[i].then)]
  IN IF tree.arms = <<>> THEN <<tree.word>>
     ELSE Seqs!FlattenSeq(arms) \o (IF tree.otherwise = <<>> THEN <<>> ELSE <<"ELSE">> \o TokensOf(tree.otherwise[1]))
          \o <<"CLOSE">>

\* The word a tree leaves on the stack, NoName if it leaves none, when the words of
\* true are true.
RECURSIVE Meaning(_, _)
Meaning(tree, true) ==
  LET holds(arm) ==
        LET value(i) == Meaning(arm.terms[i], true) \in true
            decisive(i) == i = Len(arm.terms) \/ arm.joints[i] = (IF value(i) THEN "OR" ELSE "AND")
        IN value(Least({i \in DOMAIN arm.terms : decisive(i)}))
      taken == {i \in DOMAIN tree.arms : holds(tree.arms[i])}
  IN IF tree.arms = <<>> THEN tree.word
     ELSE IF taken # {} THEN Meaning(tree.arms[Least(taken)].then, true)
     ELSE IF tree.otherwise # <<>> THEN Meaning(tree.otherwise[1], true)
     ELSE NoName

\* execute(): the operations from i on, with the words on the stack.
RECURSIVE Run(_, _, _, _)
Run(ops, i, stack, true) ==
  IF i > Len(ops) THEN stack
  ELSE LET op == ops[i]
           isTrue == Last(stack) \in true
       IN CASE IsBranch(op) /\ op.target = 0 -> <<"no label">>
            [] op.kind = "load" -> Run(ops, i + 1, Append(stack, op.word), true)
            [] op.kind = "label" -> Run(ops, i + 1, stack, true)
            [] op.kind = "jump" -> Run(ops, op.target + 1, stack, true)
            [] op.kind = "branch_false" -> Run(ops, IF isTrue THEN i + 1 ELSE op.target + 1, Front(stack), true)
            [] op.kind = "branch_true" -> Run(ops, IF isTrue THEN op.target + 1 ELSE i + 1, Front(stack), true)

MeaningInit == Init /\ source \in Sources /\ read = 0

Feed == /\ read < Len(TokensOf(source)) /\ Accept(TokensOf(source)[read + 1])
        /\ read' = read + 1 /\ UNCHANGED source

Done == read = Len(TokensOf(source)) /\ UNCHANGED <<vars, source, read>>

MeaningSpec == MeaningInit /\ [][Feed \/ Done]_<<vars, source, read>>

---------------------------------------------------------------------------
(* Properties *)

\* Once a conditional is closed its code leaves what the source means, whichever of its
\* words are true (the branches accept_token patches at THEN, ELSE, ELSEIF and CLOSE lead
\* where evaluation from left to right goes).
MeaningKept ==
  read = Len(TokensOf(source)) =>
    /\ c.conditionals = <<>> /\ c.pending = <<>>
    /\ \A true \in SUBSET Words :
         LET meant == Meaning(source, true)
         IN Run(c.operations, 1, <<>>, true) = IF meant = NoName THEN <<>> ELSE <<meant>>
=============================================================================
