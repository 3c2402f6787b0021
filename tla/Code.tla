-------------------------------- MODULE Code ---------------------------------
(***************************************************************************)
(* What the standalone compiler's code does (standalone/src/compiler.cpp)  *)
(* when the VM runs it (Runtime::run).                                     *)
(*                                                                         *)
(* The compiler is a recursive descent over the tokens that emits code;    *)
(* the VM's operations are actions.  Texts are well formed: what happens   *)
(* to text the compiler refuses is in Session, functions and their         *)
(* bindings are in Bindings.  Values are numbers: f and g are functions, a *)
(* list is a number made of its items; + and - have one precedence and *   *)
(* a higher one.                                                           *)
(***************************************************************************)
EXTENDS Integers, Sequences

VARIABLES
  toks,     \* the text not compiled yet
  code, pc, \* the statement being run
  stack,
  env,      \* the variables' values
  loops, bases, callees, \* the frame's loops, list_bases and callees
  printed   \* what => has written

vars == <<toks, code, pc, stack, env, loops, bases, callees, printed>>
frame == <<loops, bases, callees>>

Names == {"x", "y", "f", "g"}
F == 101  \* F(a, b) is a - 2b; its updater v -> F(a, b) sets y to v - 2a - 3b
G == 102  \* G(a) is 3a + 1
FirstEnv == [n \in Names |-> CASE n = "x" -> 2 [] n = "y" -> 0 [] n = "f" -> F [] n = "g" -> G]
ListOf(items) == 1000 + (LET h[i \in 0 .. Len(items)] ==
                               IF i = 0 THEN Len(items) ELSE 5 * h[i - 1] + items[i]
                         IN h[Len(items)])
Precedence == [o \in {"+", "-", "*"} |-> IF o = "*" THEN 60 ELSE 50]
Arithmetic(o, a, b) == CASE o = "+" -> a + b [] o = "-" -> a - b [] o = "*" -> a * b

Last(s) == s[Len(s)]
Drop(s, n) == SubSeq(s, 1, Len(s) - n)

\* A call of a function, or of the operator named o, on a stack.
Called(f, s) == IF f = F THEN Append(Drop(s, 2), s[Len(s) - 1] - 2 * Last(s))
                ELSE Append(Drop(s, 1), 3 * Last(s) + 1)
Operated(o, s) == IF o = "@NEG" THEN Append(Drop(s, 1), 0 - Last(s))
                  ELSE Append(Drop(s, 2), Arithmetic(o, s[Len(s) - 1], Last(s)))
Updated(s) == s[Len(s) - 2] - 2 * s[Len(s) - 1] - 3 * Last(s)

---------------------------------------------------------------------------
(* The compiler: c has the tokens left and the code emitted so far *)

Number(n) == [text |-> "number", value |-> n]
Sym(t) == [text |-> t, value |-> 0]

At(c, t) == c.toks # <<>> /\ Head(c.toks).text = t
Take(c) == [c EXCEPT !.toks = Tail(@)]
Emit(c, op, name, value) ==
  [c EXCEPT !.code = Append(@, [op |-> op, name |-> name, value |-> value])]
Here(c) == Len(c.code) + 1
Patch(c, places) ==
  [c EXCEPT !.code = [i \in DOMAIN @ |->
                        IF i \in places THEN [@[i] EXCEPT !.value = Here(c)] ELSE @[i]]]

RECURSIVE Sequence(_, _), Expression(_, _), Binary(_, _), Primary(_), Postfix(_)
RECURSIVE Arguments(_, _), Assignment(_), Imperative(_), Conditional(_, _)
RECURSIVE ConditionTest(_, _), StatementTail(_)

Sequence(c, stops) ==
  CASE \E s \in stops : At(c, s) -> c
    [] At(c, ";") \/ At(c, ",") -> Sequence(Take(c), stops)
    [] OTHER -> Sequence(Imperative(c), stops)

Expression(c, minimum) == Binary(Primary(c), minimum)

\* Mutant: an operand to the right takes in operators of the same precedence.
BinaryRight(c, minimum) ==
  IF \E o \in DOMAIN Precedence : At(c, o) /\ Precedence[o] >= minimum
  THEN LET o == Head(c.toks).text IN
       Binary(Emit(Expression(Take(c), Precedence[o]), "call", o, 0), minimum)
  ELSE c

Binary(c, minimum) ==
  IF \E o \in DOMAIN Precedence : At(c, o) /\ Precedence[o] >= minimum
  THEN LET o == Head(c.toks).text IN
       Binary(Emit(Expression(Take(c), Precedence[o] + 1), "call", o, 0), minimum)
  ELSE c

Primary(c) ==
  LET t == Head(c.toks)
      d == Take(c)
  IN Postfix(
       CASE t.text = "number" -> Emit(d, "push", "", t.value)
         [] t.text = "." -> Emit(Expression(d, 90), "call_value", "", 0)
         [] t.text = "+" -> Primary(d)
         [] t.text = "-" -> Emit(Expression(d, 70), "call", "@NEG", 0)
         [] t.text = "(" -> Take(Sequence(d, {")"}))
         [] t.text = "[%" -> Emit(Take(Sequence(Emit(d, "begin_list", "", 0), {"%]"})),
                                  "end_list", "", 0)
         [] t.text = "IF" -> Conditional(d, FALSE)
         [] t.text \in Names -> Emit(d, "load", t.text, 0))

\* A name before the arguments is called by its name, any other value is saved.
Postfix(c) ==
  CASE At(c, "(") /\ Last(c.code).op = "load" ->
         LET d == [Take(c) EXCEPT !.code = Drop(@, 1)] IN
         Postfix(Emit(Arguments(d, ")"), "call", Last(c.code).name, 0))
    [] At(c, "(") /\ Last(c.code).op # "load" ->
         Postfix(Emit(Arguments(Emit(Take(c), "save_callable", "", 0), ")"), "call_saved", "", 0))
    [] At(c, ".") -> Postfix(Emit(Expression(Take(c), 90), "call_value", "", 0))
    [] OTHER -> c

Arguments(c, end) ==
  CASE At(c, end) -> Take(c)
    [] At(c, ",") \/ At(c, ";") -> Arguments(Take(c), end)
    [] OTHER -> Arguments(Imperative(c), end)

Assignment(c) ==
  IF ~At(c, "->") THEN c
  ELSE LET name == c.toks[2].text
           d == Take(Take(c))
       IN Assignment(IF At(d, "(") THEN Emit(Arguments(Take(d), ")"), "update", name, 0)
                     ELSE Emit(d, "store", name, 0))

Conditional(c, loop) ==
  ConditionTest(Sequence(c, {"AND", "OR", "THEN"}),
                [loop |-> loop, start |-> Here(c), yes |-> {}, no |-> {}])

\* Code after EXIT, CLOSE, ELSE or ELSEIF; `no' are the branches past the body.
ConditionBody(c, s, no) ==
  CASE At(c, "EXIT") -> Patch(Emit(Take(c), "ret", "", 0), no)
    [] ~At(c, "EXIT") /\ s.loop -> Patch(Emit(Take(c), "jump", "", s.start), no)
    [] At(c, "CLOSE") /\ ~s.loop -> Patch(Take(c), no)
    [] OTHER ->
         LET d == Patch(Emit(c, "jump", "", 0), no)
             other == IF At(d, "ELSEIF") THEN Conditional(Take(d), FALSE)
                      ELSE Take(Sequence(Take(d), {"CLOSE"}))
         IN Patch(other, {Here(c)})

ConditionTest(c, s) ==
  CASE At(c, "AND") ->
         ConditionTest(Sequence(Emit(Take(c), "branch_false", "", 0), {"AND", "OR", "THEN"}),
                       [s EXCEPT !.no = @ \cup {Here(c)}])
    [] At(c, "OR") ->
         ConditionTest(Sequence(Emit(Take(c), "branch_true", "", 0), {"AND", "OR", "THEN"}),
                       [s EXCEPT !.yes = @ \cup {Here(c)}])
    [] At(c, "THEN") ->
         LET d == Patch(Emit(Take(c), "branch_false", "", 0), s.yes) IN
         ConditionBody(Sequence(d, {"ELSE", "ELSEIF", "CLOSE", "EXIT"}), s, s.no \cup {Here(c)})

\* FORALL name start step limit; ... CLOSE
ForAll(c) ==
  LET name == Head(c.toks).text
      d == Expression(Expression(Expression(Take(c), 0), 0), 0)
      e == Emit(Emit(d, "for_setup", name, 0), "for_test", "", 0)
      f == Emit(Take(Sequence(e, {"CLOSE"})), "for_next", "", Here(d) + 1)
  IN Patch(f, {Here(d) + 1})

PrintItem(c) == IF At(c, "=>") THEN Emit(Take(c), "print", "", 0) ELSE c

Imperative(c) ==
  CASE At(c, "RETURN") -> Emit(Take(c), "ret", "", 0)
    [] At(c, "GOTO") -> Emit(Take(Take(c)), "go", c.toks[2].text, 0)
    [] At(c, "LOOPIF") -> Conditional(Take(c), TRUE)
    [] At(c, "FORALL") -> PrintItem(ForAll(Take(c)))
    [] At(c, "->") -> Assignment(c)
    [] Len(c.toks) > 1 /\ c.toks[2].text = ":" ->
         Emit(Take(Take(c)), "label", Head(c.toks).text, 0)
    [] OTHER -> PrintItem(Assignment(Expression(c, 0)))

\* The jumps to labels of this code.
Resolved(c) ==
  [i \in DOMAIN c |->
     IF c[i].op = "go"
     THEN [c[i] EXCEPT !.op = "jump",
                       !.value = CHOOSE l \in DOMAIN c : c[l].op = "label" /\ c[l].name = c[i].name]
     ELSE c[i]]

StatementTail(c) ==
  CASE c.code # <<>> /\ Last(c.code).op = "print" -> c
    [] At(c, ",") -> StatementTail(Imperative(Take(c)))
    [] At(c, ";") -> Take(c)
    [] OTHER -> c

RECURSIVE Statement(_)
Statement(text) ==
  IF Head(text).text \in {";", ","} THEN Statement(Tail(text))
  ELSE LET c == StatementTail(Imperative([toks |-> text, code |-> <<>>]))
       IN [c EXCEPT !.code = Resolved(@)]

---------------------------------------------------------------------------
(* The VM *)

Starts(text) ==
  /\ toks = text /\ code = <<>> /\ pc = 1 /\ stack = <<>> /\ env = FirstEnv
  /\ loops = <<>> /\ bases = <<>> /\ callees = <<>> /\ printed = <<>>

\* @NEXT: the next statement, in a frame of its own.
Compile ==
  /\ pc > Len(code) /\ \E i \in DOMAIN toks : toks[i].text \notin {";", ","}
  /\ LET c == Statement(toks) IN toks' = c.toks /\ code' = c.code
  /\ pc' = 1 /\ loops' = <<>> /\ bases' = <<>> /\ callees' = <<>>
  /\ UNCHANGED <<stack, env, printed>>

Doing(op) == pc <= Len(code) /\ code[pc].op = op
Op == code[pc]
Rest == UNCHANGED <<toks, code>>

\* An operation that only changes the stack.
Leaves(s) == pc' = pc + 1 /\ stack' = s /\ Rest /\ UNCHANGED <<env, frame, printed>>

Push == Doing("push") /\ Leaves(Append(stack, Op.value))
Load == Doing("load") /\ Leaves(Append(stack, env[Op.name]))
Call == Doing("call") /\ Leaves(IF Op.name \in Names THEN Called(env[Op.name], stack)
                               ELSE Operated(Op.name, stack))
CallValue == Doing("call_value") /\ Leaves(Called(Last(stack), Drop(stack, 1)))

Store == /\ Doing("store") /\ pc' = pc + 1
         /\ env' = [env EXCEPT ![Op.name] = Last(stack)] /\ stack' = Drop(stack, 1)
         /\ Rest /\ UNCHANGED <<frame, printed>>

Update == /\ Doing("update") /\ pc' = pc + 1
          /\ env' = [env EXCEPT !["y"] = Updated(stack)] /\ stack' = Drop(stack, 3)
          /\ Rest /\ UNCHANGED <<frame, printed>>

SaveCallable == /\ Doing("save_callable") /\ pc' = pc + 1
                /\ callees' = Append(callees, Last(stack)) /\ stack' = Drop(stack, 1)
                /\ Rest /\ UNCHANGED <<env, loops, bases, printed>>

CallSaved == /\ Doing("call_saved") /\ pc' = pc + 1
             /\ stack' = Called(Last(callees), stack) /\ callees' = Drop(callees, 1)
             /\ Rest /\ UNCHANGED <<env, loops, bases, printed>>

BeginList == /\ Doing("begin_list") /\ pc' = pc + 1 /\ bases' = Append(bases, Len(stack))
             /\ Rest /\ UNCHANGED <<stack, env, loops, callees, printed>>

EndList == /\ Doing("end_list") /\ pc' = pc + 1 /\ bases' = Drop(bases, 1)
           /\ stack' = Append(SubSeq(stack, 1, Last(bases)),
                              ListOf(SubSeq(stack, Last(bases) + 1, Len(stack))))
           /\ Rest /\ UNCHANGED <<env, loops, callees, printed>>

\* ret, jump, label and the branches.
Jump ==
  /\ \/ Doing("ret") /\ pc' = Len(code) + 1 /\ UNCHANGED stack
     \/ Doing("jump") /\ pc' = Op.value /\ UNCHANGED stack
     \/ Doing("label") /\ pc' = pc + 1 /\ UNCHANGED stack
     \/ /\ Doing("branch_false") \/ Doing("branch_true")
        /\ pc' = IF (Last(stack) = 0) = (Op.op = "branch_false") THEN Op.value ELSE pc + 1
        /\ stack' = Drop(stack, 1)
  /\ Rest /\ UNCHANGED <<env, frame, printed>>

\* Start, step and limit of a loop.
ForSetup ==
  /\ Doing("for_setup") /\ pc' = pc + 1
  /\ env' = [env EXCEPT ![Op.name] = stack[Len(stack) - 2]]
  /\ loops' = Append(loops, [name |-> Op.name, step |-> stack[Len(stack) - 1],
                             limit |-> Last(stack)])
  /\ stack' = Drop(stack, 3)
  /\ Rest /\ UNCHANGED <<bases, callees, printed>>

ForTest ==
  /\ Doing("for_test")
  /\ LET l == Last(loops)
         n == env[l.name]
     IN IF IF l.step > 0 THEN n > l.limit ELSE n < l.limit
        THEN pc' = Op.value /\ loops' = Drop(loops, 1)
        ELSE pc' = pc + 1 /\ UNCHANGED loops
  /\ Rest /\ UNCHANGED <<stack, env, bases, callees, printed>>

ForNext ==
  /\ Doing("for_next") /\ pc' = Op.value
  /\ env' = [env EXCEPT ![Last(loops).name] = @ + Last(loops).step]
  /\ Rest /\ UNCHANGED <<stack, frame, printed>>

\* The whole stack, outside a function.
PrintStack == /\ Doing("print") /\ pc' = pc + 1 /\ printed' = Append(printed, stack)
              /\ stack' = <<>> /\ Rest /\ UNCHANGED <<env, frame>>

Next == \/ Compile \/ Push \/ Load \/ Call \/ CallValue \/ Store \/ Update \/ SaveCallable
        \/ CallSaved \/ BeginList \/ EndList \/ Jump \/ ForSetup \/ ForTest \/ ForNext
        \/ PrintStack

Finished == pc > Len(code) /\ \A i \in DOMAIN toks : toks[i].text \in {";", ","}
=============================================================================
