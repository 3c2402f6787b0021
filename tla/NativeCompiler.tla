----------------------------- MODULE NativeCompiler -----------------------------
(***************************************************************************)
(* NativeSession of the hybrid runtime (src/poplan.cpp): accept_token      *)
(* compiles POP source token by token into a sequence of operations whose  *)
(* branches are patched when the label they lead to is emitted.  A         *)
(* finished statement is executed, a finished definition becomes a         *)
(* function; an error in the source abandons whatever is being compiled    *)
(* and the rest of the line, and a facility that is not implemented ends   *)
(* the session.                                                            *)
(*                                                                         *)
(* A token is one of a few spellings.  Texts of messages and warnings, the *)
(* history of tokens and the charge of an operation are not modelled.      *)
(***************************************************************************)
EXTENDS Naturals, Sequences, FiniteSets

CONSTANTS Words,     \* names of the program: neither resident nor reserved
          Alphabet,  \* the tokens of the instance
          MaxOperations, MaxPending, MaxFunctions  \* bounds of the instance

Calls == {"ERASE", "SETPOP"}
Primitives == {"NOT"}           \* INTOF, SIGN, ISINTEGER, ISREAL and ISFUNC are alike
Literals == {"UNDEF", "TRUE"}   \* FALSE is like TRUE
Operators == {"+", "*", "="}    \* - is like +, / like *; orders rebuild after comparing
Facilities == {"HD"}            \* any other resident name
Infix == {"<>"}                 \* any other resident operator
Heads == {"IF", "AND", "OR", "THEN", "ELSE", "ELSEIF", "CLOSE"}
Reserved == Heads \cup {"FUNCTION", "END", "RETURN", "VARS", "COMMENT"}
Resident == Calls \cup Primitives \cup Literals \cup Facilities \cup Infix \cup Reserved
Malformed == {"?", "13 digits"}
NoName == "none"
Spellings == Resident \cup Operators \cup Malformed \cup {"(", ")", ",", ";", "=>", "->", "1"}
Tokens == Words \cup Spellings

ASSUME AlphabetAssumption ==
  /\ Alphabet \subseteq Tokens /\ Words \cap (Spellings \cup {NoName}) = {}
  /\ MaxOperations \in Nat /\ MaxPending \in Nat /\ MaxFunctions \in Nat

\* The priorities of the resident operators: the lower binds tighter.
Priority == [t \in Operators |-> CASE t = "*" -> 4 [] t = "+" -> 5 [] t = "=" -> 7]

VARIABLES c,         \* what reset_compiler() resets
          comment,   \* comment_
          declared,  \* word -> "undeclared", "implicit" or "explicit"
          functions, \* how many functions have been made: their handles are 1..functions
          state      \* result_.state

session == <<comment, declared, functions, state>>
vars == <<c, session>>

\* pending holds groups, with the call they are for, and operators; definition is << >> or
\* the one being compiled; held is what frame_roots() has for this compilation.
Fresh == [operations |-> <<>>, roots |-> <<>>, pending |-> <<>>, conditionals |-> <<>>,
          definition |-> <<>>, enclosing |-> <<>>, held |-> {},
          operand |-> TRUE, start |-> TRUE, assignment |-> FALSE, assigned |-> FALSE,
          declaration |-> FALSE, count |-> 0, call |-> NoName, open |-> FALSE, deferred |-> FALSE]

Init == /\ c = Fresh /\ comment = FALSE /\ declared = [w \in Words |-> "undeclared"]
        /\ functions = 0 /\ state = "input_required"

Last(q) == q[Len(q)]
Front(q) == SubSeq(q, 1, Len(q) - 1)
InDefinition == c.definition # <<>>
Current == Last(c.definition)
InHeader == InDefinition /\ Current.header
InConditional == c.conditionals # <<>>
Conditional == Last(c.conditionals)

\* token_count_ only matters while it is 0 or 1.
Compile(d) == /\ Len(d.operations) <= MaxOperations /\ Len(d.pending) <= MaxPending
              /\ c' = [d EXCEPT !.count = IF @ = 2 THEN 2 ELSE @ + 1]

\* The next token is the first of a statement.
Begin(d) == /\ Len(d.operations) <= MaxOperations
            /\ c' = [d EXCEPT !.count = 0, !.operand = TRUE, !.start = TRUE, !.assigned = FALSE]

\* recover(): the statement and everything around it is abandoned.
Recover == c' = Fresh /\ UNCHANGED session

Unsupported == state' = "unsupported" /\ UNCHANGED <<c, comment, declared, functions>>

---------------------------------------------------------------------------
(* Emission *)

\* A branch leads to target, an index of operations, 0 while it is not known; a call or
\* a comparison of staged operands rebuilds them.
Operation(kind, word) == [kind |-> kind, word |-> word, target |-> 0, rebuilt |-> 0]
Emit(d, ops) == [d EXCEPT !.operations = @ \o ops]
Staged(op) == op.kind \in {"constant", "load"}
IsGroup(p) == p.operator = "group"
Group(callee, from) == [operator |-> "group", unary |-> FALSE, call |-> callee, from |-> from]
Pushed(p) == [c EXCEPT !.pending = Append(@, p), !.operand = TRUE, !.start = TRUE]
Operand(d) == [d EXCEPT !.operand = FALSE, !.start = FALSE]

\* How many of the last k pending operators come after the innermost group.
Least(S) == CHOOSE i \in S : \A j \in S : i <= j
Loose == Least({k \in 0..Len(c.pending) : k = Len(c.pending) \/ IsGroup(c.pending[Len(c.pending) - k])})

\* drain, k times: an equality of two staged operands rebuilds both.
Drain(k) ==
  LET n == Len(c.operations)
      pair == n >= 2 /\ Staged(c.operations[n]) /\ Staged(c.operations[n - 1])
      p(i) == c.pending[Len(c.pending) + 1 - i]
      op(i) == IF p(i).operator = "="
               THEN [Operation("compare", "=") EXCEPT !.rebuilt = IF i = 1 /\ pair THEN 2 ELSE 0]
               ELSE Operation(IF p(i).unary THEN "unary" ELSE "binary", p(i).operator)
  IN [Emit(c, [i \in 1..k |-> op(i)]) EXCEPT !.pending = SubSeq(@, 1, Len(@) - k)]

Drained == Drain(Loose)

\* The operators that bind at least as tightly as p.
Tighter(p) == Least({k \in 0..Loose : k = Loose \/ Priority[c.pending[Len(c.pending) - k].operator] > p})

Patched(d, branches, label) ==
  [d EXCEPT !.operations = [i \in DOMAIN @ |-> IF i \in branches THEN [@[i] EXCEPT !.target = label] ELSE @[i]]]

---------------------------------------------------------------------------
(* Tokens that are an error or a comment whatever is being compiled *)

Listening == state = "input_required" /\ ~comment

\* A number too long, or the token after an operator or a resident name was assigned to.
Faulty(t) == Listening /\ (t = "13 digits" \/ c.deferred) /\ Recover

Ready(t) == Listening /\ ~c.deferred /\ t # "13 digits" /\ ~(t = "COMMENT" /\ c.count = 0)

NotCode(t) == Ready(t) /\ t = "?" /\ Unsupported

\* A comment starts where a statement does and ends with its semicolon.
Comment(t) ==
  /\ state = "input_required"
  /\ \/ ~comment /\ c.count = 0 /\ t = "COMMENT" /\ comment' = TRUE
     \/ comment /\ comment' = (t # ";")
  /\ UNCHANGED <<c, declared, functions, state>>

---------------------------------------------------------------------------
(* Definitions *)

Bound(d, w) == \E i \in DOMAIN d.bindings : d.bindings[i].word = w
Defines(d, w) == d.name = w \/ Bound(d, w)
Local(w) == \/ InDefinition /\ Defines(Current, w)
            \/ \E i \in DOMAIN c.enclosing : Defines(c.enclosing[i].definition, w)
Binding(w, argument) == [word |-> w, argument |-> argument]
WithLocal(d, w, argument) == [d EXCEPT !.bindings = Append(@, Binding(w, argument))]

\* The name of an outermost function is declared, that of an inner one is a local word of
\* the function around it; the words that follow are its parameters.
HeaderName(t) ==
  /\ t \in Words /\ Current.name = NoName
  /\ LET d == [c EXCEPT !.definition = <<[Current EXCEPT !.name = t]>>]
         n == Len(c.enclosing)
     IN IF n = 0 THEN Compile(d) /\ declared' = [declared EXCEPT ![t] = "explicit"]
        ELSE /\ ~Bound(c.enclosing[n].definition, t)
             /\ Compile([d EXCEPT !.enclosing[n].definition = WithLocal(@, t, FALSE)])
             /\ UNCHANGED declared

HeaderFormal(t) == /\ t \in Words /\ Current.name # NoName /\ ~Bound(Current, t)
                   /\ Compile([c EXCEPT !.definition = <<WithLocal(Current, t, TRUE)>>])
                   /\ UNCHANGED declared

HeaderEnd(t) == /\ t = ";" /\ Current.name # NoName
                /\ c' = [c EXCEPT !.definition = <<[Current EXCEPT !.header = FALSE]>>, !.count = 0]
                /\ UNCHANGED declared

HeaderFails(t) == IF t \in Words THEN IF Current.name # NoName THEN Bound(Current, t)
                                      ELSE c.enclosing # <<>> /\ Bound(Last(c.enclosing).definition, t)
                  ELSE ~(t = ";" /\ Current.name # NoName)

Header(t) == /\ Ready(t) /\ t # "?" /\ InHeader
             /\ \/ /\ HeaderName(t) \/ HeaderFormal(t) \/ HeaderEnd(t)
                   /\ UNCHANGED <<comment, functions, state>>
                \/ HeaderFails(t) /\ Unsupported

Body(t) == Ready(t) /\ t # "?" /\ ~InHeader

Function(t) ==
  /\ Body(t) /\ t = "FUNCTION" /\ ~c.declaration
  /\ IF c.count # 0 \/ c.pending # <<>> \/ InConditional \/ (~InDefinition /\ c.operations # <<>>)
     THEN Unsupported
     ELSE /\ Len(c.enclosing) + functions < MaxFunctions
          /\ Compile([c EXCEPT
               !.enclosing = IF ~InDefinition THEN @
                             ELSE Append(@, [operations |-> c.operations, roots |-> c.roots, definition |-> Current]),
               !.operations = IF InDefinition THEN <<>> ELSE @,
               !.roots = IF InDefinition THEN <<>> ELSE @,
               !.definition = <<[header |-> TRUE, name |-> NoName, bindings |-> <<>>]>>])
          /\ UNCHANGED session

\* The program around an inner function captures it and stores it in its name.
Enclosed(f) ==
  LET outer == Last(c.enclosing)
      capture == [Operation("captured_value", NoName) EXCEPT !.target = Len(outer.roots) + 1]
  IN [c EXCEPT !.operations = outer.operations \o <<capture, Operation("store", Current.name)>>,
               !.roots = Append(outer.roots, f), !.definition = <<outer.definition>>,
               !.enclosing = Front(@), !.pending = <<>>, !.assignment = FALSE, !.declaration = FALSE]

\* Mutation: an inner function is not held while the outer one is compiled.
HoldingNone(f) == Enclosed(f)

Holding(f) == [Enclosed(f) EXCEPT !.held = @ \cup {f}]

\* END makes the function, if there is storage, and binds an outermost one to its name.
End(t) ==
  /\ Body(t) /\ t = "END" /\ InDefinition /\ ~c.declaration
  /\ \/ Unsupported
     \/ /\ ~InConditional /\ ~c.assignment /\ Drained.pending = <<>>
        /\ Len(Drained.operations) <= MaxOperations
        /\ functions' = functions + 1
        /\ IF c.enclosing = <<>> THEN c' = Fresh ELSE Begin(Holding(functions'))
        /\ UNCHANGED <<comment, declared, state>>

Return(t) ==
  /\ Body(t) /\ t = "RETURN" /\ InDefinition /\ ~c.declaration
  /\ IF c.assignment \/ ~c.start THEN Unsupported
     ELSE Compile([Emit(c, <<Operation("return_value", NoName)>>) EXCEPT !.operand = FALSE]) /\ UNCHANGED session

Misplaced(t) == Body(t) /\ t = "VARS" /\ InConditional /\ Unsupported

\* The tokens looked at before a pending call is.
Early(t) == \/ t = "FUNCTION" /\ ~c.declaration
            \/ t = "VARS" /\ InConditional
            \/ t \in {"END", "RETURN"} /\ InDefinition /\ ~c.declaration

\* After the name of a primitive comes (, after ERASE or SETPOP ( and ).
CallToken(t) ==
  /\ Body(t) /\ ~Early(t) /\ c.call # NoName
  /\ IF t # (IF c.open THEN ")" ELSE "(") THEN Unsupported
     ELSE /\ UNCHANGED session
          /\ IF c.call \in Primitives THEN Compile([Pushed(Group(c.call, 0)) EXCEPT !.call = NoName])
             ELSE IF ~c.open THEN Compile([c EXCEPT !.open = TRUE])
             ELSE Compile([Operand(Emit(c, <<Operation(c.call, NoName)>>)) EXCEPT !.call = NoName, !.open = FALSE])

Free(t) == Body(t) /\ ~Early(t) /\ c.call = NoName
Plain(t) == Free(t) /\ ~c.declaration

---------------------------------------------------------------------------
(* Conditionals.  A conditional owns the group it pushed: pending has more *)
(* than boundary elements while one of its expressions is compiled.        *)

If(t) ==
  /\ Plain(t) /\ t = "IF"
  /\ IF ~c.operand \/ c.assignment THEN Unsupported
     ELSE /\ Compile([Pushed(Group(NoName, 0)) EXCEPT !.conditionals =
               Append(@, [boundary |-> Len(c.pending), phase |-> "condition", falseBranch |-> {},
                          exits |-> {}, falseTerms |-> {}, trueTerms |-> {}])]) /\ UNCHANGED session

\* The expression in front of a separator is complete: only the group of the conditional
\* is left above its boundary.
Completed == InConditional /\ Len(Drained.pending) = Conditional.boundary + 1 /\ ~c.assignment

Replaced(d, k) == [d EXCEPT !.conditionals = Append(Front(@), k)]

\* AND leads to the false arm of the conditional, OR to its true arm.
AndOr(t) ==
  /\ Plain(t) /\ t \in {"AND", "OR"}
  /\ IF ~Completed \/ Conditional.phase # "condition" THEN Recover
     ELSE LET k == Conditional
              d == Emit(Drained, <<Operation(IF t = "AND" THEN "branch_false" ELSE "branch_true", NoName)>>)
              at == {Len(d.operations)}
              new == IF t = "AND" THEN [k EXCEPT !.falseTerms = @ \cup at] ELSE [k EXCEPT !.trueTerms = @ \cup at]
          IN /\ Compile([Replaced(d, new) EXCEPT !.operand = TRUE, !.start = TRUE, !.assigned = FALSE])
             /\ UNCHANGED session

Then(t) ==
  /\ Plain(t) /\ t = "THEN"
  /\ IF ~Completed \/ Conditional.phase # "condition" THEN Unsupported
     ELSE LET k == Conditional
              d == Emit(Drained, <<Operation("branch_false", NoName)>>)
              n == Len(d.operations)
              e == IF k.trueTerms = {} THEN d
                   ELSE Patched(Emit(d, <<Operation("label", NoName)>>), k.trueTerms, n + 1)
          IN /\ Begin(Replaced(e, [k EXCEPT !.falseBranch = {n}, !.trueTerms = {}, !.phase = "consequent"]))
             /\ UNCHANGED session

\* Mutation: the ANDs of the condition are forgotten.
ToFalseArmThen(k) == IF k.phase = "consequent" THEN k.falseBranch ELSE {}

\* The branch of THEN and those of the ANDs lead to the false arm.
ToFalseArm(k) == IF k.phase = "consequent" THEN k.falseBranch \cup k.falseTerms ELSE {}

Else(t) ==
  /\ Plain(t) /\ t \in {"ELSE", "ELSEIF"}
  /\ IF ~Completed \/ Conditional.phase = "alternative" THEN Unsupported
     ELSE IF Conditional.phase = "condition" THEN Recover
     ELSE LET k == Conditional
              d == Emit(Drained, <<Operation("jump", NoName), Operation("label", NoName)>>)
              n == Len(d.operations)
          IN /\ Begin(Replaced(Patched(d, ToFalseArm(k), n),
                        [k EXCEPT !.exits = @ \cup {n - 1}, !.falseTerms = {}, !.falseBranch = {},
                                  !.phase = IF t = "ELSEIF" THEN "condition" ELSE "alternative"]))
             /\ UNCHANGED session

\* Mutation: only the first arm leaves for the end of the conditional.
ToEndFirst(k) == {e \in k.exits : \A f \in k.exits : e <= f}

ToEnd(k) == k.exits

Close(t) ==
  /\ Plain(t) /\ t = "CLOSE"
  /\ IF ~Completed THEN Unsupported
     ELSE IF Conditional.phase = "condition" THEN Recover
     ELSE LET d == Emit(Drained, <<Operation("label", NoName)>>)
              e == Patched(d, ToFalseArm(Conditional) \cup ToEnd(Conditional), Len(d.operations))
          IN /\ Compile([Operand(e) EXCEPT !.conditionals = Front(@), !.pending = Front(@), !.assigned = FALSE])
             /\ UNCHANGED session

---------------------------------------------------------------------------
(* Statements *)

\* finish_statement() outside definitions: the program is executed, which may end at a
\* facility that is not implemented.
Executed == /\ c' = Fresh /\ state' \in {"input_required", "unsupported"}
            /\ UNCHANGED <<comment, declared, functions>>

Vars(t) == /\ Plain(t) /\ t = "VARS" /\ c.count = 0
           /\ Compile([c EXCEPT !.declaration = TRUE]) /\ UNCHANGED session

Declare(t) ==
  /\ Free(t) /\ c.declaration /\ t \notin {";", "=>"}
  /\ IF t \notin Words THEN Recover
     ELSE IF InDefinition /\ Bound(Current, t) THEN Unsupported
     ELSE /\ IF InDefinition
             THEN Compile([c EXCEPT !.definition = <<WithLocal(Current, t, FALSE)>>]) /\ UNCHANGED declared
             ELSE Compile(c) /\ declared' = [declared EXCEPT ![t] = "explicit"]
          /\ UNCHANGED <<comment, functions, state>>

\* ; and => in front of the next statement of a body, an arm or the session.  => ends a
\* declaration only to be taken for the end of a statement.
StatementEnd(t) ==
  /\ Free(t) /\ t \in {";", "=>"}
  /\ LET d == [Emit(Drained, IF t = "=>" THEN <<Operation("print", NoName)>> ELSE <<>>)
               EXCEPT !.declaration = FALSE]
         inArm == InConditional /\ Len(d.pending) = Conditional.boundary + 1
     IN IF c.assignment \/ (d.pending # <<>> /\ ~inArm) THEN Recover
        ELSE IF ~InConditional /\ ~InDefinition THEN Len(d.operations) <= MaxOperations /\ Executed
        ELSE IF InConditional /\ Conditional.phase = "condition" THEN Unsupported
        ELSE Begin(d) /\ UNCHANGED session

---------------------------------------------------------------------------
(* Expressions *)

Separator(t) == t \in Heads \cup {";", "=>"}
Term(t) == Plain(t) /\ ~Separator(t) /\ t # "->" /\ ~(t = "VARS" /\ c.count = 0) /\ ~c.assigned

\* After an assignment comes the end of its statement or another arrow.
Assigned(t) == /\ Plain(t) /\ ~Separator(t) /\ t # "->" /\ ~(t = "VARS" /\ c.count = 0)
               /\ c.assigned /\ Recover

ArrowOrComma(t) ==
  /\ IF t = "->" THEN Plain(t) ELSE Term(t) /\ t = ","
  /\ IF c.assignment THEN Recover
     ELSE /\ Compile(IF t = "->" THEN [Drained EXCEPT !.assignment = TRUE, !.assigned = FALSE]
                     ELSE [Drained EXCEPT !.operand = TRUE, !.start = TRUE])
          /\ UNCHANGED session

\* After a word that was loaded ( opens the arguments of a call of it.
Open(t) ==
  /\ Term(t) /\ t = "("
  /\ LET applied == ~c.operand /\ ~c.assignment /\ c.operations # <<>> /\ Last(c.operations).kind = "load"
         ops == IF applied THEN Front(c.operations) ELSE c.operations
         callee == IF applied THEN Last(c.operations).word ELSE NoName
     IN IF ~applied /\ (~c.operand \/ c.assignment) THEN Unsupported
        ELSE Compile([Pushed(Group(callee, Len(ops))) EXCEPT !.operations = ops]) /\ UNCHANGED session

\* The innermost group belongs to a conditional.
Owned == InConditional /\ Len(Drained.pending) = Conditional.boundary + 1

CloseGroup(t) ==
  /\ Term(t) /\ t = ")"
  /\ LET d == Drained
         group == Last(d.pending)
         simple == \A i \in group.from + 1..Len(d.operations) : Staged(d.operations[i])
         call == [Operation("call", group.call) EXCEPT
                    !.rebuilt = IF simple THEN Len(d.operations) - group.from ELSE 0]
     IN IF d.pending = <<>> THEN Recover
        ELSE IF Owned THEN Unsupported
        ELSE /\ Compile([Operand(Emit(d, IF group.call = NoName THEN <<>>
                                         ELSE IF group.call \in Primitives THEN <<Operation(group.call, NoName)>>
                                         ELSE <<call>>)) EXCEPT !.pending = Front(@)])
             /\ UNCHANGED session

Operator(t) ==
  /\ Term(t) /\ t \in Operators
  /\ IF c.assignment THEN Compile([c EXCEPT !.deferred = TRUE])
     ELSE Compile([Drain(Tighter(Priority[t])) EXCEPT
                     !.pending = Append(@, [operator |-> t, unary |-> c.start /\ t = "+", call |-> NoName, from |-> 0]),
                     !.operand = TRUE, !.start = FALSE])
  /\ UNCHANGED session

Number(t) == /\ Term(t) /\ t = "1"
             /\ IF c.assignment \/ ~c.operand THEN Recover
                ELSE Compile(Operand(Emit(c, <<Operation("constant", NoName)>>))) /\ UNCHANGED session

\* A word nobody declared is declared, with a warning.
Noted(w) == declared' = IF declared[w] = "undeclared" /\ ~Local(w)
                        THEN [declared EXCEPT ![w] = "implicit"] ELSE declared

Word(t) ==
  /\ Term(t) /\ t \in Words /\ Noted(t) /\ UNCHANGED <<comment, functions, state>>
  /\ IF ~c.operand /\ ~c.assignment THEN c' = Fresh
     ELSE IF ~c.assignment THEN Compile(Operand(Emit(c, <<Operation("load", t)>>)))
     ELSE Compile([Operand(Emit(c, <<Operation("store", t)>>)) EXCEPT !.assignment = FALSE, !.assigned = TRUE])

ResidentName(t) ==
  /\ Term(t) /\ t \in Resident
  /\ IF t \in Infix THEN Unsupported
     ELSE IF ~c.operand /\ ~c.assignment THEN Recover
     ELSE IF t \in Calls \/ (t \in Primitives /\ ~c.assignment)
     THEN Compile([c EXCEPT !.call = t]) /\ UNCHANGED session
     ELSE IF t \notin Literals THEN Unsupported
     ELSE IF c.assignment THEN Compile([c EXCEPT !.deferred = TRUE]) /\ UNCHANGED session
     ELSE /\ Compile(Operand(Emit(c, <<Operation(IF t = "TRUE" THEN "constant" ELSE "load", t)>>)))
          /\ UNCHANGED session

\* The end of the input abandons an unfinished compilation and executes nothing.
EndOfInput == /\ state = "input_required" /\ c' = Fresh /\ state' = "finished"
              /\ UNCHANGED <<comment, declared, functions>>

\* A name that has no record yet, in a header, in a declaration or in an expression, is
\* interned first, for which there may be no storage even after a collection.
NoStorage(t) ==
  /\ t \in Words /\ declared[t] = "undeclared" /\ ~Local(t)
  /\ (Ready(t) /\ InHeader) \/ (Free(t) /\ c.declaration) \/ Term(t)
  /\ Unsupported

Accept(t) ==
  \/ Faulty(t) \/ NotCode(t) \/ NoStorage(t) \/ Comment(t) \/ Header(t) \/ Function(t) \/ End(t) \/ Return(t) \/ Misplaced(t)
  \/ CallToken(t) \/ If(t) \/ AndOr(t) \/ Then(t) \/ Else(t) \/ Close(t) \/ Vars(t) \/ Declare(t)
  \/ StatementEnd(t) \/ Assigned(t) \/ ArrowOrComma(t) \/ Open(t) \/ CloseGroup(t) \/ Operator(t)
  \/ Number(t) \/ Word(t) \/ ResidentName(t)

Next == (\E t \in Alphabet : Accept(t)) \/ EndOfInput

Spec == Init /\ [][Next]_vars

---------------------------------------------------------------------------
(* Properties *)

\* The compiler's stacks hold what they are for, within the bounds.
TypeOK ==
  /\ Len(c.operations) <= MaxOperations /\ Len(c.pending) <= MaxPending
  /\ \A i \in DOMAIN c.operations : c.operations[i].target \in 0..MaxOperations
  /\ \A i \in DOMAIN c.pending : c.pending[i].operator \in Operators \cup {"group"}
  /\ Len(c.definition) <= 1 /\ (c.enclosing # <<>> => InDefinition)
  /\ c.call \in Calls \cup Primitives \cup {NoName} /\ (c.open => c.call \in Calls)
  /\ c.held \subseteq 1..functions /\ declared \in [Words -> {"undeclared", "implicit", "explicit"}]
  /\ comment \in BOOLEAN /\ state \in {"input_required", "finished", "unsupported"}

IsBranch(op) == op.kind \in {"branch_false", "branch_true", "jump"}

\* A branch leads forwards to a label, the assertion of execute() ("native branch target
\* is not a POP label"); those that have no target yet are exactly the ones an open
\* conditional remembers, once each; what a program captures is one of its roots.
BranchesLinked ==
  LET remembered(k) == k.exits \cup k.falseTerms \cup k.trueTerms \cup k.falseBranch
      K == c.conditionals
  IN /\ \A i \in DOMAIN c.operations :
          LET op == c.operations[i]
          IN /\ IsBranch(op) => \/ /\ op.target \in i + 1..Len(c.operations)
                                   /\ c.operations[op.target].kind = "label"
                                \/ op.target = 0 /\ \E j \in DOMAIN K : i \in remembered(K[j])
             /\ op.kind = "captured_value" => op.target \in DOMAIN c.roots
     /\ \A j \in DOMAIN K : \A i \in remembered(K[j]) :
          /\ IsBranch(c.operations[i]) /\ c.operations[i].target = 0
          /\ \A l \in DOMAIN K \ {j} : i \notin remembered(K[l])

\* An open conditional still has the group it pushed, inside that of the conditional
\* around it: no ), operator or end of a statement takes it away.
ConditionalsNest ==
  \A i \in DOMAIN c.conditionals :
    LET k == c.conditionals[i]
    IN /\ k.boundary < Len(c.pending) /\ IsGroup(c.pending[k.boundary + 1])
       /\ i > 1 => c.conditionals[i - 1].boundary < k.boundary

\* The functions captured by the programs being compiled are held in frame_roots(), where
\* a collection finds them: no finished descriptor refers to them yet.
RootsHeld ==
  LET handles(q) == {q[i] : i \in DOMAIN q}
  IN handles(c.roots) \cup UNION {handles(c.enclosing[i].roots) : i \in DOMAIN c.enclosing} \subseteq c.held

\* A word in the code being compiled is declared, explicitly or with a warning, or it is
\* local to a definition around it.
WordsKnown == \A i \in DOMAIN c.operations :
                LET w == c.operations[i].word
                IN w \in Words => Local(w) \/ declared[w] # "undeclared"

\* An open conditional keeps the group it pushed, and branches lead to labels or are
\* remembered by one open conditional (accept_token, AND to CLOSE).
ConditionalsWellFormed == ConditionalsNest /\ BranchesLinked

\* The compiler's stacks are of their types, functions captured by programs being
\* compiled are held in frame_roots(), and words in the code being compiled are
\* declared or local (note_identifier).
DefinitionsSound == TypeOK /\ RootsHeld /\ WordsKnown
=============================================================================
