------------------------------ MODULE Meaning -------------------------------
(***************************************************************************)
(* What programs of the standalone interpreter mean, by their structure,   *)
(* and that the code the compiler emits does just that.                    *)
(*                                                                         *)
(* A program is a sequence of trees; a tree has a field `is' and the parts *)
(* its kind has.                                                           *)
(***************************************************************************)
EXTENDS Code

CONSTANT Programs

VARIABLE program

---------------------------------------------------------------------------
(* The text of a program *)

RECURSIVE Text(_), Listed(_, _)
Listed(trees, separator) ==
  IF trees = <<>> THEN <<>>
  ELSE Text(Head(trees)) \o (IF Len(trees) = 1 THEN <<>> ELSE <<Sym(separator)>>)
       \o Listed(Tail(trees), separator)

Tests(t) == LET part[i \in 0 .. Len(t.tests)] ==
                  IF i = 0 THEN <<>>
                  ELSE part[i - 1] \o (IF i = 1 THEN <<>> ELSE <<Sym(t.joins[i - 1])>>)
                       \o Text(t.tests[i])
            IN part[Len(t.tests)]

Text(t) ==
  CASE t.is = "number" -> <<Number(t.n)>>
    [] t.is = "name" -> <<Sym(t.name)>>
    [] t.is = "binary" -> Text(t.left) \o <<Sym(t.op)>> \o Text(t.right)
    [] t.is = "neg" -> <<Sym("-")>> \o Text(t.of)
    [] t.is = "paren" -> <<Sym("(")>> \o Listed(t.body, ";") \o <<Sym(")")>>
    [] t.is = "list" -> <<Sym("[%")>> \o Listed(t.body, ",") \o <<Sym("%]")>>
    [] t.is = "call" -> Text(t.of) \o <<Sym("(")>> \o Listed(t.body, ",") \o <<Sym(")")>>
    [] t.is = "dot" -> Text(t.of) \o <<Sym("."), Sym(t.name)>>
    [] t.is = "if" ->
         <<Sym("IF")>> \o Tests(t) \o <<Sym("THEN")>> \o Listed(t.body, ";")
         \o (IF t.other = <<>> THEN <<>> ELSE <<Sym("ELSE")>> \o Listed(t.other, ";"))
         \o <<Sym("CLOSE")>>
    [] t.is = "ifelse" ->
         <<Sym("IF")>> \o Tests(t) \o <<Sym("THEN")>> \o Listed(t.body, ";")
         \o <<Sym("ELSEIF")>> \o Tail(Text(t.other))
    [] t.is = "exit" -> <<Sym("IF")>> \o Tests(t) \o <<Sym("THEN")>> \o Listed(t.body, ";")
                        \o <<Sym("EXIT")>>
    [] t.is = "while" -> <<Sym("LOOPIF")>> \o Tests(t) \o <<Sym("THEN")>> \o Listed(t.body, ";")
                         \o <<Sym("CLOSE")>>
    [] t.is = "for" -> <<Sym("FORALL"), Sym(t.name)>> \o Text(t.range[1])
                       \o Text(t.range[2]) \o Text(t.range[3]) \o <<Sym(";")>> \o Listed(t.body, ";") \o <<Sym("CLOSE")>>
    [] t.is = "repeat" -> <<Sym("l"), Sym(":")>> \o Listed(t.body, ";")
                          \o <<Sym("IF")>> \o Tests(t)
                          \o <<Sym("THEN"), Sym("GOTO"), Sym("l"), Sym("CLOSE")>>
    [] t.is = "set" -> Text(t.of) \o <<Sym("->"), Sym(t.name)>>
    [] t.is = "update" -> Text(t.of) \o <<Sym("->"), Sym("f"), Sym("(")>> \o Listed(t.body, ",")
                          \o <<Sym(")")>>
    [] t.is = "print" -> Text(t.of) \o <<Sym("=>")>>
    [] t.is = "return" -> <<Sym("RETURN")>>
---------------------------------------------------------------------------
(* The meaning of a program: what it does to [stack, env, printed, over] *)

RECURSIVE Mean(_, _), MeanAll(_, _), Holds(_, _, _), While(_, _), For(_, _, _, _), Repeat(_, _)

MeanAll(trees, st) == IF trees = <<>> THEN st ELSE MeanAll(Tail(trees), Mean(Head(trees), st))

Pushed(st, v) == [st EXCEPT !.stack = Append(@, v)]
Popped(st) == [st EXCEPT !.stack = Drop(@, 1)]

\* The state after the tests from the i-th on, and whether they hold.
Holds(t, i, st) ==
  LET after == Mean(t.tests[i], st)
      true == Last(after.stack) # 0
  IN IF i = Len(t.tests) \/ t.joins[i] = (IF true THEN "OR" ELSE "AND")
     THEN [st |-> Popped(after), true |-> true]
     ELSE Holds(t, i + 1, Popped(after))

While(t, st) ==
  IF st.over THEN st
  ELSE LET h == Holds(t, 1, st) IN IF h.true THEN While(t, MeanAll(t.body, h.st)) ELSE h.st

Repeat(t, st) ==
  LET h == Holds(t, 1, MeanAll(t.body, st)) IN IF h.true THEN Repeat(t, h.st) ELSE h.st

For(t, step, limit, st) ==
  LET n == st.env[t.name] IN
  IF st.over \/ (IF step > 0 THEN n > limit ELSE n < limit) THEN st
  ELSE LET after == MeanAll(t.body, st) IN
       For(t, step, limit, IF after.over THEN after ELSE [after EXCEPT !.env[t.name] = @ + step])

Mean(t, st) ==
  IF st.over THEN st ELSE
  CASE t.is = "number" -> Pushed(st, t.n)
    [] t.is = "name" -> Pushed(st, st.env[t.name])
    [] t.is = "binary" -> [Mean(t.right, Mean(t.left, st)) EXCEPT !.stack = Operated(t.op, @)]
    [] t.is = "neg" -> [Mean(t.of, st) EXCEPT !.stack = Operated("@NEG", @)]
    [] t.is = "paren" -> MeanAll(t.body, st)
    [] t.is = "list" ->
         LET after == MeanAll(t.body, [st EXCEPT !.stack = <<>>]) IN
         [after EXCEPT !.stack = IF after.over THEN st.stack \o @
                                 ELSE Append(st.stack, ListOf(@))]
    [] t.is = "call" ->
         LET of == Mean(t.of, st) IN
         [MeanAll(t.body, Popped(of)) EXCEPT !.stack = Called(Last(of.stack), @)]
    [] t.is = "dot" -> [Mean(t.of, st) EXCEPT !.stack = Called(st.env[t.name], @)]
    [] t.is \in {"if", "ifelse", "exit"} ->
         LET h == Holds(t, 1, st) IN
         IF h.true THEN [MeanAll(t.body, h.st) EXCEPT !.over = @ \/ t.is = "exit"]
         ELSE IF t.is = "if" THEN MeanAll(t.other, h.st)
         ELSE IF t.is = "ifelse" THEN Mean(t.other, h.st)
         ELSE h.st
    [] t.is = "while" -> While(t, st)
    [] t.is = "for" ->
         LET after == MeanAll(t.range, st)
             n == Len(after.stack)
         IN For(t, after.stack[n - 1], after.stack[n],
                [after EXCEPT !.env[t.name] = after.stack[n - 2], !.stack = Drop(@, 3)])
    [] t.is = "repeat" -> Repeat(t, st)
    [] t.is = "set" -> LET after == Mean(t.of, st) IN
                       [Popped(after) EXCEPT !.env[t.name] = Last(after.stack)]
    [] t.is = "update" -> LET after == MeanAll(t.body, Mean(t.of, st)) IN
                          [after EXCEPT !.env["y"] = Updated(after.stack), !.stack = Drop(@, 3)]
    [] t.is = "print" -> LET after == Mean(t.of, st) IN
                         [after EXCEPT !.printed = Append(@, after.stack), !.stack = <<>>]
    [] t.is = "return" -> [st EXCEPT !.over = TRUE]

\* Each statement is a program of its own: leaving one does not leave the next.
RECURSIVE MeanStatements(_, _)
MeanStatements(trees, st) ==
  IF trees = <<>> THEN st
  ELSE MeanStatements(Tail(trees), [Mean(Head(trees), st) EXCEPT !.over = FALSE])

MeaningInit == program \in Programs /\ Starts(Listed(program, ";"))

MeaningNext == Next /\ UNCHANGED program

MeaningSpec == MeaningInit /\ [][MeaningNext]_<<vars, program>> /\ WF_vars(Next)

---------------------------------------------------------------------------
(* Properties *)

\* A program that has run has left on the stack, in the variables and in the output what its
\* structure says: operators, calls, lists, assignments, conditionals and loops in each
\* other, and the loops of a frame are all over (compiler.cpp, Runtime::run).
CodeMeans ==
  Finished =>
    LET st == MeanStatements(program, [stack |-> <<>>, env |-> FirstEnv, printed |-> <<>>,
                                       over |-> FALSE])
    IN stack = st.stack /\ env = st.env /\ printed = st.printed
=============================================================================
