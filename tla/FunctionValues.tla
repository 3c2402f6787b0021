---------------------------- MODULE FunctionValues ----------------------------
(***************************************************************************)
(* Function values of the standalone interpreter and their updaters:       *)
(* primitives, partial applications, compositions and functions of the     *)
(* program (partial, updater, has_updater and call in runtime.cpp; PARTAPPLY, *)
(* FNCOMP, FROZVAL, FNPART and UPDATER in primitives.cpp).                 *)
(*                                                                         *)
(* Function 1 is the primitive CONT, whose update stores into a reference; *)
(* 2 is a primitive that has no update and pushes a value; 3 is a function *)
(* of the program, which takes nothing and stores a value of its own.      *)
(***************************************************************************)
EXTENDS Naturals, Sequences

CONSTANTS Refs,      \* references, model values
          Numbers,   \* what they hold, model values
          Own,       \* the reference function 3 stores into, and what
          MaxFunctions, MaxSteps, MaxCalls

VARIABLES
  functions, \* by handle: [is, fields, updater, assigned]; updater 0 is no function
  content,   \* what each reference holds
  born,      \* ghost: what each partial was at its creation, the functions in it included
  steps

vars == <<functions, content, born, steps>>

F(h) == [fn |-> h]                      \* a function as a value
Handles == DOMAIN functions
IsFunction(v) == v \notin Refs \cup Numbers

\* has_updater: an updater assigned or made decides; otherwise only a primitive has one.
HasUpdater(fs, h) == IF fs[h].assigned \/ fs[h].updater # 0 THEN fs[h].updater # 0
                     ELSE fs[h].is = "cont"

\* The functions after updater(h) has been asked for: the first time, the update of a
\* primitive becomes a function of its own (@UPDAT).
Asked(fs, h) ==
  IF ~fs[h].assigned /\ fs[h].updater = 0 /\ HasUpdater(fs, h)
  THEN Append([fs EXCEPT ![h].updater = Len(fs) + 1],
              [is |-> "update", fields |-> <<F(h)>>, updater |-> 0, assigned |-> FALSE])
  ELSE fs

Partial(fields, updater) ==
  [is |-> "partial", fields |-> fields, updater |-> updater, assigned |-> TRUE]

\* partial(): the paired updater has the components of the moment.
PartialOf(fs, h, frozen) ==
  IF ~HasUpdater(fs, h) THEN Append(fs, Partial(Append(frozen, F(h)), 0))
  ELSE LET asked == Asked(fs, h)
           paired == Append(asked, Partial(Append(frozen, F(asked[h].updater)), 0))
       IN Append(paired, Partial(Append(frozen, F(h)), Len(paired)))

---------------------------------------------------------------------------
(* What a call does: to a state [stack, content], or a fault *)

Fault == [fault |-> TRUE, stack |-> <<>>, content |-> [r \in Refs |-> 0]]
Went(stack, cont) == [fault |-> FALSE, stack |-> stack, content |-> cont]

Top(stack) == stack[Len(stack)]
Popped(stack, n) == SubSeq(stack, 1, Len(stack) - n)

\* CONT: the reference is above the value an update stores.
Cont(update, s) ==
  LET n == IF update THEN 2 ELSE 1
  IN IF Len(s.stack) < n \/ Top(s.stack) \notin Refs THEN Fault
     ELSE IF update THEN Went(Popped(s.stack, 2),
                              [s.content EXCEPT ![Top(s.stack)] = s.stack[Len(s.stack) - 1]])
     ELSE Went(Append(Popped(s.stack, 1), s.content[Top(s.stack)]), s.content)

\* call() and invoke() of the functions fs, and the calls they queue; a run that exceeds the
\* number of calls ends with the operation limit, a fault.
RECURSIVE Call(_, _, _, _, _)
Call(fs, h, update, s, calls) ==
  LET f == fs[h]
      Value(v, t) == IF IsFunction(v) THEN Call(fs, v.fn, FALSE, t, calls - 1) ELSE Fault
  IN CASE s.fault \/ calls = 0 -> Fault
       [] update /\ (f.assigned \/ f.updater # 0) ->
            IF f.updater = 0 THEN Fault ELSE Call(fs, f.updater, FALSE, s, calls - 1)
       [] update /\ ~HasUpdater(fs, h) -> Fault
       [] f.is = "cont" -> Cont(update, s)
       [] f.is = "update" ->
            IF fs[f.fields[1].fn].is = "cont" THEN Cont(TRUE, s) ELSE Fault
       [] f.is = "plain" -> Went(Append(s.stack, Own[2]), s.content)
       [] f.is = "user" -> Went(s.stack, [s.content EXCEPT ![Own[1]] = Own[2]])
       [] f.is = "partial" ->
            Value(Top(f.fields), Went(s.stack \o Popped(f.fields, 1), s.content))
       [] f.is = "composition" -> Value(f.fields[2], Value(f.fields[1], s))

---------------------------------------------------------------------------
Primitive(kind) == [is |-> kind, fields |-> <<>>, updater |-> 0, assigned |-> FALSE]

Init == /\ functions = <<Primitive("cont"), Primitive("plain"), Primitive("user")>>
        /\ content = [r \in Refs |-> Own[2]]
        /\ born = [h \in 1 .. 3 |-> <<>>]
        /\ steps = 0

\* What is remembered of the functions fs at the creation of the last of them.
Born(fs) == [h \in DOMAIN fs |-> IF h \in DOMAIN born THEN born[h]
                                 ELSE IF h = Len(fs) THEN fs ELSE <<>>]

PartApply == \E h \in Handles, frozen \in {<<v>> : v \in Refs \cup Numbers} :
               LET fs == PartialOf(functions, h, frozen)
               IN /\ Len(fs) <= MaxFunctions
                  /\ functions' = fs /\ born' = Born(fs) /\ UNCHANGED content

Compose == \E a, b \in Handles :
             /\ Len(functions) < MaxFunctions
             /\ functions' = Append(functions, [is |-> "composition", fields |-> <<F(a), F(b)>>,
                                                updater |-> 0, assigned |-> FALSE])
             /\ born' = Append(born, <<>>) /\ UNCHANGED content

\* UPDATER, for its value.
AskUpdater == \E h \in Handles :
                LET fs == Asked(functions, h)
                IN /\ fs # functions /\ Len(fs) <= MaxFunctions
                   /\ functions' = fs /\ UNCHANGED content
                   /\ born' = IF Len(fs) = Len(functions) THEN born ELSE Append(born, <<>>)

\* The functions that calling h applies.
Parts(h) == {functions[h].fields[i].fn : i \in {j \in DOMAIN functions[h].fields : IsFunction(functions[h].fields[j])}}
RECURSIVE Applied(_, _)
Applied(seen, new) == IF new \subseteq seen THEN seen
                      ELSE Applied(seen \cup new, UNION {Parts(g) : g \in new})

\* What is still to be expected after the function g has been changed: nothing of a partial
\* whose updater applies it.
BornWithout(g) ==
  [h \in Handles |-> IF born[h] # <<>> /\ functions[h].updater # 0
                        /\ g \in Applied({}, {functions[h].updater})
                     THEN <<>> ELSE born[h]]

\* An updater is assigned; primitives are protected.  0 is any value that is no function.
AssignUpdater == \E h \in Handles, u \in Handles \cup {0} :
                   /\ functions[h].is \notin {"cont", "plain"}
                   /\ functions' = [functions EXCEPT ![h].updater = u, ![h].assigned = TRUE]
                   /\ born' = [born EXCEPT ![h] = <<>>]
                   /\ UNCHANGED content

\* Mutant: a component is changed in the paired updater as well.
ReplacedInBoth(h, i, v) ==
  LET fs == [functions EXCEPT ![h].fields[i] = v]
      u == fs[h].updater
  IN IF u # 0 /\ i < Len(fs[h].fields) /\ fs[u].is = "partial"
     THEN [fs EXCEPT ![u].fields[i] = v] ELSE fs

Replaced(h, i, v) == [functions EXCEPT ![h].fields[i] = v]

\* FROZVAL and FNPART of a partial application.
SetPart == \E h \in Handles :
             /\ functions[h].is = "partial"
             /\ \E i \in DOMAIN functions[h].fields, v \in Refs \cup Numbers \cup {F(g) : g \in Handles} :
                  /\ i = Len(functions[h].fields) => IsFunction(v)
                  /\ functions' = Replaced(h, i, v)
             /\ born' = BornWithout(h) /\ UNCHANGED content

\* A function is called, plainly or for its update, above one value.
Apply == \E h \in Handles, update \in BOOLEAN, v \in Refs \cup Numbers :
           LET end == Call(functions, h, update, Went(<<v>>, content), MaxCalls)
           IN /\ ~end.fault /\ content' = end.content
              /\ UNCHANGED <<functions, born>>

Next == /\ steps < MaxSteps /\ steps' = steps + 1
        /\ PartApply \/ Compose \/ AskUpdater \/ AssignUpdater \/ SetPart \/ Apply

Spec == Init /\ [][Next]_vars

---------------------------------------------------------------------------
(* Properties *)

\* What can be stored where by an update of a function that the program leaves alone.
Updates(fs, h, v, cont) == Call(fs, h, TRUE, Went(<<v>>, cont), MaxCalls)

\* The update of a partial application stays what it was when that was made, whatever happens
\* since to its components or to the function in it, its updater included (partial()); only
\* an updater assigned to it, or a change to what its own updater applies, changes it.
UpdatersKept ==
  \A h \in Handles : born[h] # <<>> =>
    \A v \in Numbers : Updates(functions, h, v, content) = Updates(born[h], h, v, content)
=============================================================================
