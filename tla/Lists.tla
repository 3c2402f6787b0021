-------------------------------- MODULE Lists --------------------------------
(***************************************************************************)
(* Dynamic lists, the source cursor and macros of the standalone           *)
(* interpreter (standalone/src/runtime.cpp, primitives.cpp).               *)
(*                                                                         *)
(* A list is NIL or a pair.  A pair whose tail is a function is dynamic:   *)
(* empty when its head is 0, otherwise still to be forced by a call of the *)
(* function.  The text of the program is such a list, PROGLIST, supplied   *)
(* by @PHYS from the host; taking a token leaves a cursor behind, a pair   *)
(* with source_forward set to its tail, which whoever looks at it resolves.*)
(*                                                                         *)
(* The primitives that look at lists are NULL, TL, LENGTH, <> and          *)
(* ITEMREAD; they run again from their arguments whenever a pair had to be *)
(* forced.  Items are numbers: tokens of the host from 1, items made by    *)
(* suppliers and macros from 11.  NEXTCH is a sequence, ERRFUN returns at  *)
(* once, and cells are never collected.                                    *)
(***************************************************************************)
EXTENDS Naturals, Sequences, FiniteSets

CONSTANTS NIL, NONE, PHYS, TERMIN, \* the empty list, no value, @PHYS, TERMIN
          Suppliers,               \* functions of the program given to FNTOLIST
          Names,                   \* list variables of the program
          MacroTokens,             \* tokens of the host that name macros
          Rebinding,               \* the program assigns PROGLIST and NEXTCH
          MaxCells, MaxSteps, MaxTokens, MaxMade  \* bounds

VARIABLES
  cell,      \* the pairs: front, back, forcing, source_forward
  stack,     \* the value stack
  frames,    \* the VM's frames, the running one last
  list,      \* what the program's variables hold
  proglist, nextch,
  fed, next, eof, \* tokens the host has fed, the next one to read, input_eof
  expansion, \* macro_expansion
  pending,   \* macro_pending of the parser
  made,      \* items made so far
  steps,     \* steps of the program so far
  got,       \* ghost: the items that were read, in order
  faulted    \* ghost: some fault has happened

source == <<proglist, nextch, expansion, pending>>
host == <<fed, next, eof>>
vars == <<cell, stack, frames, list, source, host, made, steps, got, faulted>>

Empty == 9  \* the token @EMPTY

Pair(h, t) == [front |-> h, back |-> t, forcing |-> FALSE, forward |-> NONE]
Dynamic(f) == Pair(1, f)

CallFrame(op, to) == [do |-> "call", op |-> op, to |-> to, args |-> stack]
ReadFrame == [do |-> "call", op |-> "ITEMREAD", to |-> NONE, args |-> stack]
NextFrame == [do |-> "next", args |-> stack]
Supplier(f) == [do |-> "supplier", f |-> f]
Forced(c, f) == [do |-> "forced", cell |-> c, f |-> f]
Macro == [do |-> "macro"]
Insertion == [do |-> "insertion"]

Top == frames[Len(frames)]
Below == SubSeq(frames, 1, Len(frames) - 1)
Running(what) == frames # <<>> /\ Top.do = what

---------------------------------------------------------------------------
(* Looking at a list *)

With(m, c, r) == [d \in DOMAIN m |-> IF d = c THEN r ELSE m[d]]

Forwarded(m, v) == v \in DOMAIN m /\ m[v].forward # NONE

\* The pair or NIL at the end of the cursors from v, and those cursors.
RECURSIVE End(_, _)
End(m, v) == IF Forwarded(m, v) THEN End(m, m[v].forward) ELSE v

RECURSIVE Cursors(_, _)
Cursors(m, v) == IF Forwarded(m, v) THEN {v} \cup Cursors(m, m[v].forward) ELSE {}

Lazy(m, v) == v \in DOMAIN m /\ m[v].back \in Suppliers \cup {PHYS}

\* What empty_list finds: the list is empty or a pair, or has to be forced.
Looked(m, v) ==
  LET e == End(m, v) IN
  CASE e = NIL \/ (Lazy(m, e) /\ m[e].front = 0) -> "empty"
    [] e # NIL /\ Lazy(m, e) /\ m[e].front # 0 -> IF m[e].forcing THEN "recursive" ELSE "force"
    [] OTHER -> "pair"

\* Mutant: a cursor keeps the token it was left at.
SettledTails(m, v) ==
  LET e == End(m, v)
      copy(c) == IF e = NIL THEN Pair(0, PHYS)
                 ELSE [m[e] EXCEPT !.forward = NONE, !.front = m[c].front]
  IN [c \in DOMAIN m |-> IF c \in Cursors(m, v) THEN copy(c) ELSE m[c]]

\* The cursors from v become copies of what they lead to.
Settled(m, v) ==
  LET e == End(m, v)
      copy == IF e = NIL THEN Pair(0, PHYS) ELSE [m[e] EXCEPT !.forward = NONE]
  IN [c \in DOMAIN m |-> IF c \in Cursors(m, v) THEN copy ELSE m[c]]

\* items(v): the items up to the end of the list or to the pair to be forced.
RECURSIVE Walk(_, _, _)
Walk(m, v, items) ==
  IF Looked(m, v) = "pair"
  THEN LET s == Settled(m, v) IN Walk(s, s[v].back, Append(items, s[v].front))
  ELSE [is |-> Looked(m, v), cell |-> IF Looked(m, v) = "empty" THEN Settled(m, v) ELSE m,
        at |-> End(m, v), items |-> items]

\* peek_source: the source ends, goes on in the next chain, has an item or needs one.
RECURSIVE Peek(_, _, _)
Peek(m, p, chains) ==
  IF Looked(m, p) = "empty" /\ chains # <<>>
  THEN Peek(Settled(m, p), Head(chains), Tail(chains))
  ELSE [is |-> Looked(m, p), proglist |-> p, nextch |-> chains, at |-> End(m, p),
        cell |-> IF Looked(m, p) \in {"empty", "pair"} THEN Settled(m, p) ELSE m]

\* prepend_tokens: pairs in front of p, the last item first.
Prepended(m, p, items) ==
  m \o [i \in 1 .. Len(items) |->
          Pair(items[Len(items) + 1 - i], IF i = 1 THEN p ELSE Len(m) + i - 1)]
Start(m, p, items) == IF items = <<>> THEN p ELSE Len(m) + Len(items)

---------------------------------------------------------------------------
Init ==
  /\ cell = <<Dynamic(PHYS)>> /\ proglist = 1 /\ nextch = <<>>
  /\ stack = <<>> /\ frames = <<>> /\ list = [x \in Names |-> NIL]
  /\ fed = 0 /\ next = 1 /\ eof = FALSE
  /\ expansion = <<>> /\ pending = FALSE
  /\ made = 0 /\ steps = 0 /\ got = <<>> /\ faulted = FALSE

Room(n) == Len(cell) + n <= MaxCells

\* Mutant: pairs stay marked after a fault.
FaultMarked(m) ==
  /\ Room(1) /\ cell' = Append(m, Dynamic(PHYS))
  /\ proglist' = Len(m) + 1 /\ nextch' = <<>> /\ pending' = FALSE
  /\ frames' = <<>> /\ stack' = <<>> /\ faulted' = TRUE
  /\ UNCHANGED <<list, host, expansion, made, steps, got>>

\* A fault: unwind, an empty stack and a new source (initialize_source).
Fault(m) ==
  /\ Room(1)
  /\ cell' = Append([c \in DOMAIN m |-> [m[c] EXCEPT !.forcing = FALSE]], Dynamic(PHYS))
  /\ proglist' = Len(m) + 1 /\ nextch' = <<>> /\ pending' = FALSE
  /\ frames' = <<>> /\ stack' = <<>> /\ faulted' = TRUE
  /\ UNCHANGED <<list, host, expansion, made, steps, got>>

\* NeedList: the arguments are back on the stack, the call is to run again
\* after the supplier of pair e and @FORCD.
Need(m, e) ==
  /\ cell' = With(m, e, [m[e] EXCEPT !.forcing = TRUE])
  /\ frames' = frames \o <<Forced(e, m[e].back), Supplier(m[e].back)>>
  /\ UNCHANGED <<stack, list, host, made, steps, got, faulted>>

\* The call of the running frame has popped n arguments; its result goes to x.
Done(m, n, to, value) ==
  /\ cell' = m /\ frames' = Below
  /\ stack' = SubSeq(stack, 1, Len(stack) - n)
  /\ list' = IF to = NONE THEN list ELSE [list EXCEPT ![to] = value]
  /\ UNCHANGED <<source, host, made, steps, got, faulted>>

---------------------------------------------------------------------------
(* Code of the program: the main text, a supplier or a macro *)

Stepping ==
  /\ steps < MaxSteps /\ steps' = steps + 1
  /\ frames = <<>> \/ Running("macro") \/ (Running("supplier") /\ Top.f \in Suppliers)

FnToList(x, f) ==
  /\ Stepping /\ Room(1)
  /\ cell' = Append(cell, Dynamic(f)) /\ list' = [list EXCEPT ![x] = Len(cell) + 1]
  /\ UNCHANGED <<stack, frames, source, host, made, got, faulted>>

\* PROGLIST -> x and x -> PROGLIST; the old source may go on after x.
SaveSource(x) ==
  /\ Stepping /\ list' = [list EXCEPT ![x] = proglist]
  /\ UNCHANGED <<cell, stack, frames, source, host, made, got, faulted>>

AssignSource(x) ==
  /\ Rebinding /\ Stepping /\ proglist' = list[x]
  /\ nextch' \in {nextch, <<proglist>> \o nextch}
  /\ UNCHANGED <<cell, stack, frames, list, expansion, pending, host, made, got, faulted>>

\* A call with its arguments on the stack.
Push(op, args, to) ==
  /\ Stepping /\ stack' = stack \o args
  /\ frames' = Append(frames, [CallFrame(op, to) EXCEPT !.args = stack'])
  /\ UNCHANGED <<cell, list, source, host, made, got, faulted>>

Observe(x) ==
  \/ \E op \in {"NULL", "LENGTH"} : Push(op, <<list[x]>>, NONE)
  \/ \E y \in Names : Push("TL", <<list[x]>>, y) \/ Push("<>", <<list[x], list[y]>>, x)

ReadItem == Push("ITEMREAD", <<>>, NONE)

\* The VM goes on with @NEXT when the code of a statement has run.
NextStatement ==
  /\ frames = <<>> /\ steps < MaxSteps /\ steps' = steps + 1
  /\ frames' = <<NextFrame>>
  /\ UNCHANGED <<cell, stack, list, source, host, made, got, faulted>>

---------------------------------------------------------------------------
(* Primitives *)

Calling(op) == Running("call") /\ Top.op = op
Arg == stack[Len(stack)]

Null ==
  /\ Calling("NULL")
  /\ CASE Looked(cell, Arg) = "force" -> Need(cell, End(cell, Arg)) /\ UNCHANGED source
       [] Looked(cell, Arg) = "recursive" -> Fault(cell)
       [] OTHER -> Done(Settled(cell, Arg), 1, NONE, NIL)

TailOf ==
  /\ Calling("TL")
  /\ CASE Looked(cell, Arg) = "force" -> Need(cell, End(cell, Arg)) /\ UNCHANGED source
       [] Looked(cell, Arg) = "recursive" -> Fault(cell)
       [] Looked(cell, Arg) = "empty" -> Fault(Settled(cell, Arg))
       [] OTHER -> LET s == Settled(cell, Arg) IN Done(s, 1, Top.to, s[Arg].back)

Length ==
  /\ Calling("LENGTH")
  /\ LET w == Walk(cell, Arg, <<>>) IN
     CASE w.is = "force" -> Need(w.cell, w.at) /\ UNCHANGED source
       [] w.is = "recursive" -> Fault(w.cell)
       [] OTHER -> Done(w.cell, 1, NONE, NIL)

\* Only the first operand of <> is copied; the second is shared.
Join ==
  /\ Calling("<>")
  /\ LET w == Walk(cell, stack[Len(stack) - 1], <<>>) IN
     CASE w.is = "force" -> Need(w.cell, w.at) /\ UNCHANGED source
       [] w.is = "recursive" -> Fault(w.cell)
       [] OTHER -> /\ Room(Len(w.items))
                   /\ Done(Prepended(w.cell, Arg, w.items), 2, Top.to,
                           Start(w.cell, Arg, w.items))

\* Mutant: the token stays where it was while its pair is the last one known.
TakenUnlessLast(p) ==
  LET c == p.cell[p.proglist] IN
  IF Lazy(p.cell, c.back) THEN p.cell
  ELSE With(p.cell, p.proglist, [c EXCEPT !.forward = c.back])

\* read_token: the pair that held the token becomes a cursor to its tail.
Taken(p) == LET c == p.cell[p.proglist] IN With(p.cell, p.proglist, [c EXCEPT !.forward = c.back])

\* ITEMREAD runs again after a macro and the insertion of its expansion.
ItemRead ==
  /\ Calling("ITEMREAD")
  /\ LET p == Peek(cell, proglist, nextch)
         item == p.cell[p.proglist].front
         token == /\ cell' = Taken(p)
                  /\ UNCHANGED <<stack, list, expansion, pending, host, made, steps, faulted>>
     IN CASE p.is = "recursive" -> Fault(p.cell)
          [] p.is = "force" -> /\ Need(p.cell, p.at) /\ proglist' = p.proglist
                               /\ nextch' = p.nextch /\ UNCHANGED <<expansion, pending>>
          [] p.is = "empty" -> /\ cell' = p.cell /\ proglist' = p.proglist
                               /\ nextch' = p.nextch /\ frames' = Below
                               /\ UNCHANGED <<stack, list, expansion, pending, host, made,
                                              steps, got, faulted>>
          [] OTHER -> /\ token /\ proglist' = p.proglist /\ nextch' = p.nextch
                      /\ IF item \in MacroTokens
                         THEN frames' = Below \o <<ReadFrame, Insertion, Macro>> /\ got' = got
                         ELSE frames' = Below /\ got' = Append(got, item)

\* @NEXT: the parser takes the expansion of the macro it called, or @EMPTY, and
\* then a token; a macro is called and @NEXT runs again.
Next1 ==
  /\ Running("next")
  /\ LET items == IF ~pending THEN <<>> ELSE IF expansion = <<>> THEN <<Empty>> ELSE expansion
         p == Peek(Prepended(cell, proglist, items), Start(cell, proglist, items), nextch)
         item == p.cell[p.proglist].front
     IN /\ Room(Len(items))
        /\ IF p.is = "recursive" THEN Fault(p.cell)
           ELSE /\ proglist' = p.proglist /\ nextch' = p.nextch
                /\ expansion' = IF pending THEN <<>> ELSE expansion
                /\ CASE p.is = "force" -> Need(p.cell, p.at) /\ pending' = FALSE
                     [] p.is = "empty" ->
                          /\ cell' = p.cell /\ frames' = <<>> /\ pending' = FALSE
                          /\ steps' = MaxSteps
                          /\ UNCHANGED <<stack, list, host, made, got, faulted>>
                     [] OTHER ->
                          /\ cell' = Taken(p) /\ pending' = (item \in MacroTokens)
                          /\ frames' = IF pending' THEN <<NextFrame, Macro>> ELSE <<>>
                          /\ got' = IF pending' THEN got ELSE Append(got, item)
                          /\ UNCHANGED <<stack, list, host, made, steps, faulted>>

---------------------------------------------------------------------------
(* Suppliers *)

\* @PHYS reads the host's input, the end of it, or waits for more (NeedInput).
Physical ==
  /\ Running("supplier") /\ Top.f = PHYS
  /\ \/ next <= fed /\ stack' = Append(stack, next) /\ next' = next + 1
     \/ next > fed /\ eof /\ stack' = Append(stack, TERMIN) /\ UNCHANGED next
  /\ frames' = Below
  /\ UNCHANGED <<cell, list, source, fed, eof, made, steps, got, faulted>>

Feed ==
  /\ Running("supplier") /\ Top.f = PHYS /\ next > fed /\ ~eof
  /\ \/ fed < MaxTokens /\ fed' = fed + 1 /\ UNCHANGED eof
     \/ eof' = TRUE /\ UNCHANGED fed
  /\ UNCHANGED <<cell, stack, frames, list, source, next, made, steps, got, faulted>>

\* A function of the program makes an item, ends its list or faults.
Supply ==
  /\ Running("supplier") /\ Top.f \in Suppliers
  /\ \/ /\ \/ made < MaxMade /\ made' = made + 1 /\ stack' = Append(stack, 10 + made')
           \/ stack' = Append(stack, TERMIN) /\ UNCHANGED made
        /\ frames' = Below
        /\ UNCHANGED <<cell, list, source, host, steps, got, faulted>>
     \/ Fault(cell)

\* @FORCD: the pair gets its head and a dynamic tail, or is empty for good.
Finish ==
  /\ Running("forced")
  /\ IF Arg = TERMIN
     THEN cell' = With(cell, Top.cell, Pair(0, Top.f))
     ELSE /\ Room(1)
          /\ cell' = Append(With(cell, Top.cell, Pair(Arg, Len(cell) + 1)),
                            Dynamic(Top.f))
  /\ stack' = SubSeq(stack, 1, Len(stack) - 1) /\ frames' = Below
  /\ UNCHANGED <<list, source, host, made, steps, got, faulted>>

---------------------------------------------------------------------------
(* Macros *)

\* MACRESULTS replaces what an earlier call has left.
MacResults ==
  /\ Running("macro") /\ made < MaxMade
  /\ made' = made + 1 /\ expansion' = <<10 + made'>>
  /\ UNCHANGED <<cell, stack, frames, list, proglist, nextch, pending, host, steps, got, faulted>>

MacroEnds ==
  /\ Running("macro")
  /\ \/ frames' = Below
        /\ UNCHANGED <<cell, stack, list, source, host, made, steps, got, faulted>>
     \/ Fault(cell)

\* @IMAC
Insert ==
  /\ Running("insertion") /\ Room(Len(expansion))
  /\ cell' = Prepended(cell, proglist, expansion)
  /\ proglist' = Start(cell, proglist, expansion)
  /\ expansion' = <<>> /\ frames' = Below
  /\ UNCHANGED <<stack, list, nextch, pending, host, made, steps, got, faulted>>

---------------------------------------------------------------------------
Next ==
  \/ \E x \in Names : \/ \E f \in Suppliers : FnToList(x, f)
                      \/ SaveSource(x) \/ AssignSource(x) \/ Observe(x)
  \/ ReadItem \/ NextStatement
  \/ Null \/ TailOf \/ Length \/ Join \/ ItemRead \/ Next1
  \/ Physical \/ Feed \/ Supply \/ Finish
  \/ MacResults \/ MacroEnds \/ Insert

Spec == Init /\ [][Next]_vars

---------------------------------------------------------------------------
(* Properties *)

ForcingHasEnd ==
  LET waiting == {i \in DOMAIN frames : frames[i].do = "forced"} IN
  /\ {c \in DOMAIN cell : cell[c].forcing} = {frames[i].cell : i \in waiting}
  /\ \A i, j \in waiting : frames[i].cell = frames[j].cell => i = j

ArgumentsKept ==
  \A i \in DOMAIN frames :
    /\ frames[i].do \in {"call", "next"} =>
         /\ Len(frames[i].args) <= Len(stack)
         /\ SubSeq(stack, 1, Len(frames[i].args)) = frames[i].args
    /\ frames[i].do = "forced" /\ i = Len(frames) =>
         Len(stack) = Len(frames[i - 1].args) + 1

\* A pair is marked as being forced exactly while its @FORCD waits, and for one @FORCD only;
\* a primitive that waits for it finds its arguments again when it is retried, and @FORCD
\* finds just the item above them (force_list, unwind, NeedList in Runtime::call).
RetriesKept == ForcingHasEnd /\ ArgumentsKept

\* The items of a list that have been forced.
RECURSIVE Known(_, _)
Known(m, v) ==
  IF Looked(m, v) # "pair" THEN <<>>
  ELSE <<m[End(m, v)].front>> \o Known(m, m[End(m, v)].back)

\* How many items come before pair c in list v; none is past the end.
RECURSIVE Before(_, _, _)
Before(m, v, c) ==
  CASE v = c -> 0
    [] v # c /\ Forwarded(m, v) -> Before(m, m[v].forward, c)
    [] v # c /\ ~Forwarded(m, v) /\ Looked(m, v) = "pair" -> 1 + Before(m, m[v].back, c)
    [] OTHER -> 99

IsPrefixOf(s, t) == Len(s) <= Len(t) /\ SubSeq(t, 1, Len(s)) = s

\* A token is taken in this step: its pair becomes a cursor.
Takes == /\ proglist' \in DOMAIN cell' /\ cell'[proglist'].forward # NONE
         /\ proglist' \in DOMAIN cell => cell[proglist'] # cell'[proglist']

GrowsOnly ==
  \A x \in Names : list'[x] = list[x] =>
    LET old == Known(cell, list[x])
        at == IF Takes THEN Before(cell, list[x], proglist') ELSE 99
        kept == IF at < Len(old) THEN SubSeq(old, 1, at) \o SubSeq(old, at + 2, Len(old))
                ELSE old
    IN IsPrefixOf(kept, Known(cell', list[x]))

\* A list the program holds only grows at its end, whoever forces it; the one change is that
\* a token taken from PROGLIST disappears from the lists that go through its pair, and from
\* no other place (empty_list, @FORCD, read_token).
ListsGrowOnly == [][GrowsOnly]_vars

IsHost(item) == item <= MaxTokens
Given(items) == SelectSeq(items, LAMBDA i : ~IsHost(i) /\ i # Empty)
Plain(items) == SelectSeq(items, LAMBDA i : IsHost(i) /\ i \notin MacroTokens)

\* Tokens are delivered once and in order, however far the program has looked ahead in
\* PROGLIST and whatever macros put in front; none is lost unless a fault dropped what was
\* looked at (read_token, @PHYS, @IMAC, macro_done).
TokensDelivered ==
  /\ \A i, j \in DOMAIN got : i < j /\ got[i] # Empty => got[i] # got[j]
  /\ LET plain == Plain(got) IN \A i \in 2 .. Len(plain) : plain[i - 1] < plain[i]
  /\ LET given == Given(got) IN \A i \in 2 .. Len(given) : given[i - 1] < given[i]
  /\ ~faulted =>
       Plain(got \o Known(cell, proglist)) \o
         Plain(IF Running("forced") /\ Top.f = PHYS /\ Arg # TERMIN THEN <<Arg>> ELSE <<>>)
       = Plain([i \in 1 .. next - 1 |-> i])
=============================================================================
