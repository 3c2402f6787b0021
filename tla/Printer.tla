------------------------------- MODULE Printer -------------------------------
(***************************************************************************)
(* Printing of the standalone interpreter: the operation => and the task   *)
(* stack of next_print (standalone/src/runtime.cpp).                       *)
(*                                                                         *)
(* A printer frame performs one task per step.  A step may have to wait    *)
(* for a dynamic list to be forced, and its text may go through a consumer *)
(* of the program (CUCHOUT), which runs before the next task; suppliers    *)
(* and consumers may change the lists being printed, or fault.             *)
(*                                                                         *)
(* Values are items, NIL and pairs, which are numbered.  A text is printed *)
(* whole: the consumer's characters are one call here.                     *)
(***************************************************************************)
EXTENDS Naturals, Sequences

CONSTANTS NIL, F,       \* the empty list, a supplier of the program
          Items,        \* items: values printed by their own text
          Heaps,        \* the pairs at the start: sequences of [front, back]
          Printed,      \* sequences of values to print
          MaxPairs, MaxChanges, MaxTexts  \* bounds; printing gets stuck at MaxTexts

VARIABLES
  pair,     \* front, back, forcing
  values,   \* what is printed (the stack at =>)
  frames,   \* the VM's frames, the running one last
  consumer, \* CUCHOUT is a function of the program
  changes,  \* changes of pairs by suppliers and consumers so far
  out       \* the texts written

vars == <<pair, values, frames, consumer, changes, out>>

Value(x) == [do |-> "value", x |-> x]
Text(t) == [do |-> "text", x |-> t]
Leave(x) == [do |-> "leave", x |-> x]
Node(x) == [do |-> "node", x |-> x]
First(x) == [do |-> "first", x |-> x]   \* list_node with index 1: no separator
Read(x) == [do |-> "read", x |-> x]     \* list_read

\* Operation::Kind::print: "** ", the values with ", " between them, the end of the line.
PrintTasks ==
  LET n == Len(values) IN
  <<Text("end")>> \o
  [k \in 1 .. 2 * n |-> LET i == n - (k - 1) \div 2 IN
                        IF k % 2 = 1 THEN Value(values[i]) ELSE Text(IF i = 1 THEN " " ELSE ", ")]
  \o <<Text("**")>>

PrinterFrame == [do |-> "print", tasks |-> PrintTasks, visiting |-> {}]

Top == frames[Len(frames)]
Below == SubSeq(frames, 1, Len(frames) - 1)
Running(what) == frames # <<>> /\ Top.do = what
Task == Top.tasks[Len(Top.tasks)]
Others == SubSeq(Top.tasks, 1, Len(Top.tasks) - 1)

Lazy(x) == x \in DOMAIN pair /\ pair[x].back = F
IsEmpty(x) == x = NIL \/ (Lazy(x) /\ pair[x].front = 0)
With(c, r) == [d \in DOMAIN pair |-> IF d = c THEN r ELSE pair[d]]

Init ==
  /\ \E heap \in Heaps :
       pair = [c \in DOMAIN heap |->
                 [front |-> heap[c].front, back |-> heap[c].back, forcing |-> FALSE]]
  /\ values \in Printed /\ consumer \in BOOLEAN
  /\ frames = <<PrinterFrame>> /\ changes = 0 /\ out = <<>>

\* print_step: the task is replaced by `tasks', and its text is written or given to CUCHOUT.
Performed(tasks, visiting, text) ==
  LET printer == [Top EXCEPT !.tasks = Others \o tasks, !.visiting = visiting]
      left == IF printer.tasks = <<>> THEN Below ELSE Append(Below, printer)
  IN /\ Len(out) < MaxTexts
     /\ IF consumer /\ text # ""
        THEN frames' = Append(left, [do |-> "consume", text |-> text]) /\ out' = out
        ELSE frames' = left /\ out' = IF text = "" THEN out ELSE Append(out, text)

Quiet == UNCHANGED <<pair, values, consumer, changes>>

PrintText == Running("print") /\ Task.do = "text" /\ Performed(<<>>, Top.visiting, Task.x) /\ Quiet

PrintLeave ==
  Running("print") /\ Task.do = "leave" /\ Performed(<<>>, Top.visiting \ {Task.x}, "") /\ Quiet

PrintValue ==
  /\ Running("print") /\ Task.do = "value"
  /\ CASE Task.x \in Items -> Performed(<<>>, Top.visiting, Task.x)
       [] Task.x = NIL -> Performed(<<>>, Top.visiting, "[]")
       [] OTHER -> IF Task.x \in Top.visiting THEN Performed(<<>>, Top.visiting, "<cycle>")
                   ELSE Performed(<<Text("]"), First(Task.x)>>, Top.visiting, "[")
  /\ Quiet

Listing == Running("print") /\ Task.do \in {"node", "first", "read"}

\* A dynamic pair is forced first and the task left as it is (NeedList).
PrintForce ==
  /\ Listing /\ Lazy(Task.x) /\ pair[Task.x].front # 0 /\ ~pair[Task.x].forcing
  /\ pair' = With(Task.x, [pair[Task.x] EXCEPT !.forcing = TRUE])
  /\ frames' = Append(frames, [do |-> "supply", x |-> Task.x])
  /\ UNCHANGED <<values, consumer, changes, out>>

\* Mutant: the pair is left behind before its tail is printed.
EntryEarly(x) == <<Node(pair[x].back), Leave(x), Value(pair[x].front)>>

\* The tail is saved before the head is printed.
Entry(x) == <<Leave(x), Node(pair[x].back), Value(pair[x].front)>>

PrintNode ==
  /\ Listing /\ (Lazy(Task.x) => pair[Task.x].front = 0)
  /\ LET x == Task.x
         v == Top.visiting
     IN CASE IsEmpty(x) -> Performed(<<>>, v, "")
          [] ~IsEmpty(x) /\ x \in Items -> Performed(<<Value(x)>>, v, " | ")
          [] x \in v -> Performed(<<>>, v, IF Task.do = "node" THEN " <cycle>" ELSE "<cycle>")
          [] x \in DOMAIN pair \ v /\ ~IsEmpty(x) ->
               IF Task.do = "node" THEN Performed(<<Read(x)>>, v, " ")
               ELSE Performed(Entry(x), v \cup {x}, "")
  /\ Quiet

\* A fault drops every printer; so does a supplier whose own list is looked at again.
Fault ==
  /\ frames' = <<>> /\ pair' = [c \in DOMAIN pair |-> [pair[c] EXCEPT !.forcing = FALSE]]
  /\ consumer' = FALSE /\ changes' = MaxChanges + 1
  /\ UNCHANGED <<values, out>>

PrintRecursive == Listing /\ Lazy(Task.x) /\ pair[Task.x].forcing /\ pair[Task.x].front # 0 /\ Fault

---------------------------------------------------------------------------
(* The program's functions *)

\* v -> HD(c) or v -> TL(c)
Change ==
  /\ Running("supply") \/ Running("consume")
  /\ changes < MaxChanges /\ changes' = changes + 1
  /\ \E c \in {d \in DOMAIN pair : ~Lazy(d)}, v \in DOMAIN pair \cup {NIL} :
       pair' \in {With(c, [pair[c] EXCEPT !.front = v]), With(c, [pair[c] EXCEPT !.back = v])}
  /\ UNCHANGED <<values, frames, consumer, out>>

Consume ==
  /\ Running("consume")
  /\ \/ out' = Append(out, Top.text) /\ frames' = Below
        /\ UNCHANGED <<pair, values, consumer, changes>>
     \/ changes < MaxChanges /\ Fault

\* The supplier's item and @FORCD, or TERMIN.
Supply ==
  /\ Running("supply")
  /\ \/ /\ frames' = Below
        /\ \/ pair' = With(Top.x, [front |-> 0, back |-> F, forcing |-> FALSE])
           \/ /\ Len(pair) < MaxPairs
              /\ \E i \in Items :
                   pair' = Append(With(Top.x, [front |-> i, back |-> Len(pair) + 1,
                                               forcing |-> FALSE]),
                                  [front |-> 1, back |-> F, forcing |-> FALSE])
        /\ UNCHANGED <<values, consumer, changes, out>>
     \/ changes < MaxChanges /\ Fault

Next == \/ PrintText \/ PrintLeave \/ PrintValue \/ PrintForce \/ PrintNode \/ PrintRecursive
        \/ Change \/ Consume \/ Supply

Spec == Init /\ [][Next]_vars /\ WF_vars(Next)

---------------------------------------------------------------------------
(* Properties *)

RECURSIVE TextOf(_, _), Elements(_, _, _)
\* What a value prints as inside the lists `within', by the structure of the value.
TextOf(x, within) ==
  CASE x \in Items -> <<x>>
    [] x = NIL -> <<"[]">>
    [] x \in within -> <<"<cycle>">>
    [] OTHER -> <<"[">> \o Elements(x, within, TRUE) \o <<"]">>
Elements(x, within, first) ==
  CASE x = NIL \/ (x \in DOMAIN pair /\ pair[x].front = 0) -> <<>>
    [] x \in Items -> <<" | ", x>>
    [] x \in within -> <<IF first THEN "<cycle>" ELSE " <cycle>">>
    [] OTHER -> (IF first THEN <<>> ELSE <<" ">>) \o TextOf(pair[x].front, within \cup {x})
                \o Elements(pair[x].back, within \cup {x}, FALSE)

RECURSIVE Joined(_)
Joined(i) == (IF i = 1 THEN <<" ">> ELSE <<", ">>) \o TextOf(values[i], {})
             \o IF i = Len(values) THEN <<"end">> ELSE Joined(i + 1)

\* When nothing has changed the lists meanwhile, what was written is what the values, with
\* their dynamic parts forced, print as: no wait for a supplier repeats or loses a text, and
\* shared and cyclic pairs are told apart (next_print, print_step).
PrintsTheValue == frames = <<>> /\ changes = 0 => out = <<"**">> \o Joined(1)

\* Whatever suppliers and consumers change, printing ends (visiting in next_print).
PrintingEnds == <>(frames = <<>>)
=============================================================================
