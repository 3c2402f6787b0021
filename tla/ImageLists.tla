------------------------------ MODULE ImageLists ------------------------------
(***************************************************************************)
(* Lists of the original image as the generated routines of                *)
(* src/machine.cpp walk them: forcing (p21464-p21516), HD, TL and NULL     *)
(* (p17013-p17047), COPYLIST and <> (p21125-p21170), LENGTH (p11432),      *)
(* MAPLIST and APPLIST (p12125-p12156), DEST, ISLINK and FNTOLIST.         *)
(*                                                                         *)
(* A list is NIL or a pair.  A pair whose back is a function is still to   *)
(* be forced by a call of the function, or has ended when its front is     *)
(* false.  The routines keep what they work on in cells of their own and   *)
(* save these on the hardware stack, since a function that is called may   *)
(* walk lists itself.                                                      *)
(*                                                                         *)
(* A link to pair a is the number -a, items are positive.  The functions   *)
(* are the program's: they start operations and return.  Pairs are never   *)
(* collected here; the words of MAPLIST and APPLIST are bound by their     *)
(* environment, which is data of the image.                                *)
(***************************************************************************)
EXTENDS Integers, Sequences, FiniteSets

CONSTANTS
  Suppliers,                     \* functions made into lists, from 101
  MaxItems, MaxStarted, MaxDepth \* bounds

VARIABLES
  pairs,     \* address -> front and back
  static,    \* the routines' own cells
  tasks,     \* what is on the hardware stack: operations and called functions
  answer,    \* the list a function that was called has forced, or Unanswered
  known,     \* lists of the program
  started,   \* how many operations have been started
  done,      \* the operation the step has finished, or Nothing
  supplied,  \* ghost: what each supplier has returned
  reentered  \* ghost: a supplier has read the end of the list it is asked for

vars == <<pairs, static, tasks, answer, known, started, done, supplied, reentered>>

NIL == 0
TRUE_ == 51
FALSE_ == 52
Unanswered == 53
Nothing == [op |-> "", list |-> NIL, second |-> NIL, taken |-> <<>>, result |-> NIL]

Link(a) == -a
IsLink(v) == v < 0

\* 10725: a list of what a function returns.
FNTOLIST(f) == [front |-> TRUE_, back |-> f]

Init ==
  /\ pairs = [i \in 1 .. Cardinality(Suppliers) |-> FNTOLIST(100 + i)]
  /\ static = [cell |-> NIL, rest |-> NIL, first |-> NIL, last |-> NIL, second |-> NIL,
               list |-> NIL, mapped |-> NIL]
  /\ tasks = <<>> /\ answer = Unanswered
  /\ known = {NIL, 9} \cup {Link(i) : i \in 1 .. Cardinality(Suppliers)}
  /\ started = 0 /\ done = Nothing
  /\ supplied = [f \in Suppliers |-> <<>>] /\ reentered = FALSE

---------------------------------------------------------------------------
Top == tasks[Len(tasks)]
Below == SubSeq(tasks, 1, Len(tasks) - 1)

\* The program runs: its own text, or a function of it that was called.
Program == IF tasks = <<>> THEN TRUE ELSE Top.op \in {"supplier", "function"}

\* What a saved task gets back, and what it keeps.
Task(op, v, w) == [op |-> op, list |-> v, second |-> w, saved |-> static, rest |-> IF op = "MAPLIST" THEN NIL ELSE v,
                   taken |-> <<>>]

\* 05215, 05217: a new pair; the old ones stay.
Cons(m, x, y) == Append(m, [front |-> x, back |-> y])

\* 21464, 21473, 21476: a list is NIL or ended, a pair, to be forced, or no list at all.
Looked(v) ==
  IF v = NIL THEN "empty"
  ELSE IF ~IsLink(v) THEN "error"
  ELSE IF pairs[-v].back \notin Suppliers THEN "pair"
  ELSE IF pairs[-v].front = FALSE_ THEN "empty" ELSE "force"

\* What the running operation looks at: the routine's own cell, or the stack.
Operand ==
  CASE Top.op \in {"COPYLIST", "<>"} -> static.rest
    [] Top.op \in {"MAPLIST", "APPLIST"} -> static.list
    [] OTHER -> Top.rest

Looking == tasks # <<>> /\ ~Program
State == IF answer = Unanswered THEN Looked(Operand) ELSE IF answer = NIL THEN "empty" ELSE "pair"
Pair == pairs[-Operand]

\* 21141, 21125, 12125, 12145: an operation begins.
Entered(op, v, w) ==
  CASE op = "COPYLIST" -> [static EXCEPT !.rest = v, !.first = NIL]
    [] op = "<>" -> [static EXCEPT !.rest = v, !.first = NIL, !.second = w]
    [] op \in {"MAPLIST", "APPLIST"} -> [static EXCEPT !.list = v, !.mapped = NIL]
    [] OTHER -> static

Operations == {"COPYLIST", "<>", "LENGTH", "MAPLIST", "APPLIST", "HD", "TL", "NULL", "DEST", "ISLINK"}

Start(op, v, w) ==
  /\ Program /\ started < MaxStarted /\ Len(tasks) < MaxDepth
  /\ op = "<>" \/ w = NIL
  /\ tasks' = Append(tasks, Task(op, v, w)) /\ static' = Entered(op, v, w)
  /\ started' = started + 1 /\ done' = Nothing
  /\ UNCHANGED <<pairs, answer, known, supplied, reentered>>

---------------------------------------------------------------------------
(* Forcing *)

\* 21476: the function of the pair is called, the pair and the function are on the stack.
Force ==
  /\ Looking /\ State = "force" /\ Len(tasks) < MaxDepth
  /\ static' = [static EXCEPT !.cell = Operand]
  /\ tasks' = Append(tasks, Task("supplier", Operand, Pair.back))
  /\ reentered' = (reentered \/ \E i \in DOMAIN tasks : tasks[i].op = "supplier" /\ tasks[i].list = Operand)
  /\ done' = Nothing
  /\ UNCHANGED <<pairs, answer, known, started, supplied>>

\* Mutant: the pair is taken from the cell of the routine.
ForcedLast == static.cell

\* 21501: the pair is taken back from the stack.
Forced == Top.list

\* 21501-21510: the list ends, or it has one more item and is to be forced after that.
Supply ==
  /\ tasks # <<>> /\ Top.op = "supplier"
  /\ LET c == Forced
         f == Top.second
         item == 1 + Cardinality(UNION {{<<g, i>> : i \in DOMAIN supplied[g]} : g \in Suppliers})
     IN /\ \/ /\ pairs' = [pairs EXCEPT ![-c].front = FALSE_] /\ answer' = NIL
              /\ UNCHANGED supplied
           \/ /\ item <= MaxItems
              /\ pairs' = [Cons(pairs, TRUE_, f) EXCEPT ![-c] = [front |-> item, back |-> Link(Len(pairs) + 1)]]
              /\ answer' = c /\ supplied' = [supplied EXCEPT ![f] = Append(@, item)]
        /\ static' = [static EXCEPT !.cell = c]
  /\ tasks' = Below /\ done' = Nothing
  /\ UNCHANGED <<known, started, reentered>>

---------------------------------------------------------------------------
(* Walking *)

\* 21170, 21135, 12142, 12156: an operation gives back what it used.
Restored(t) ==
  CASE t.op = "COPYLIST" -> [static EXCEPT !.rest = t.saved.rest, !.first = t.saved.first, !.last = t.saved.last]
    [] t.op = "<>" -> [static EXCEPT !.rest = t.saved.rest, !.first = t.saved.first, !.last = t.saved.last,
                                     !.second = t.saved.second]
    [] t.op \in {"MAPLIST", "APPLIST"} -> [static EXCEPT !.list = t.saved.list, !.mapped = t.saved.mapped]
    [] OTHER -> static

Finish(m, x) ==
  /\ pairs' = m /\ tasks' = Below /\ static' = Restored(Top)
  /\ known' = known \cup (IF IsLink(x) THEN {x} ELSE {})
  /\ done' = [op |-> Top.op, list |-> Top.list, second |-> Top.second, taken |-> Top.taken, result |-> x]
  /\ answer' = Unanswered /\ UNCHANGED <<started, supplied, reentered>>

GoOn(m, s, t) ==
  /\ pairs' = m /\ static' = s /\ tasks' = t /\ answer' = Unanswered /\ done' = Nothing
  /\ UNCHANGED <<known, started, supplied, reentered>>

Taking(t, x) == [t EXCEPT !.taken = Append(@, x)]
With(t) == Append(Below, t)

\* 21151-21153, 21162-21167: the first pair of the copy, or one behind the last.
CopyElement ==
  LET new == Link(Len(pairs) + 1)
      m == Cons(pairs, Pair.front, NIL)
  IN /\ Top.op \in {"COPYLIST", "<>"}
     /\ IF Top.taken = <<>>
        THEN GoOn(m, [static EXCEPT !.first = new, !.last = new, !.rest = Pair.back],
                  With(Taking(Top, Pair.front)))
        ELSE GoOn([m EXCEPT ![-static.last].back = new], [static EXCEPT !.last = new, !.rest = Pair.back],
                  With(Taking(Top, Pair.front)))

\* 11436, 11440: one more.
CountElement ==
  /\ Top.op = "LENGTH"
  /\ GoOn(pairs, static, With([Taking(Top, Pair.front) EXCEPT !.rest = Pair.back]))

\* 12133, 12151: the function is called with the element.
CallWithElement ==
  /\ Top.op \in {"MAPLIST", "APPLIST"} /\ Len(tasks) < MaxDepth
  /\ GoOn(pairs, static, Append(With(Taking(Top, Pair.front)), Task("function", Pair.front, NIL)))

\* What the functions make of an item.
Image(x) == x + 10

\* 12135-12141, 12153, 12154: what it returns is put behind the last pair of the result, and
\* the list is looked at again.
Return ==
  /\ tasks # <<>> /\ Top.op = "function"
  /\ LET t == Below[Len(Below)]
         up == SubSeq(Below, 1, Len(Below) - 1)
         new == Link(Len(pairs) + 1)
         next == pairs[-static.list].back
     IN IF t.op = "APPLIST" THEN GoOn(pairs, [static EXCEPT !.list = next], Below)
        ELSE IF t.rest = NIL
        THEN GoOn(Cons(pairs, Image(Top.list), NIL), [static EXCEPT !.list = next, !.mapped = new],
                  Append(up, [t EXCEPT !.rest = new]))
        ELSE GoOn([Cons(pairs, Image(Top.list), NIL) EXCEPT ![-t.rest].back = new],
                  [static EXCEPT !.list = next], Append(up, [t EXCEPT !.rest = new]))

\* 17015, 17023, 17047, 10361, 10535: a pair is there.
GlanceAtPair ==
  \/ Top.op = "HD" /\ Finish(pairs, Pair.front)
  \/ Top.op = "TL" /\ Finish(pairs, Pair.back)
  \/ Top.op = "DEST" /\ Finish(pairs, Pair.back)
  \/ Top.op = "NULL" /\ Finish(pairs, FALSE_)
  \/ Top.op = "ISLINK" /\ Finish(pairs, TRUE_)

AtElement ==
  /\ Looking /\ State = "pair"
  /\ CopyElement \/ CountElement \/ CallWithElement \/ GlanceAtPair

\* 12020, 12021, 12024: the error is reported and the program starts anew; cells stay as they are.
Fail ==
  /\ tasks' = <<>> /\ answer' = Unanswered /\ done' = Nothing
  /\ UNCHANGED <<pairs, static, known, started, supplied, reentered>>

\* 21131: the second list behind the copy's last pair.
Joined(m, last) == [m EXCEPT ![-last].back = static.second]

\* 21146, 21157, 21131, 21134, 11441, 12142, 12156: the list is empty or has ended.
AtEnd ==
  /\ Looking /\ State = "empty"
  /\ \/ Top.op = "COPYLIST" /\ Finish(pairs, IF Top.taken = <<>> THEN NIL ELSE static.first)
     \/ Top.op = "<>" /\ Top.taken = <<>> /\ Finish(pairs, static.second)
     \/ Top.op = "<>" /\ Top.taken # <<>> /\ Finish(Joined(pairs, static.last), static.first)
     \/ Top.op = "LENGTH" /\ Finish(pairs, Len(Top.taken))
     \/ Top.op = "MAPLIST" /\ Finish(pairs, static.mapped)
     \/ Top.op = "APPLIST" /\ Finish(pairs, NIL)
     \/ Top.op = "NULL" /\ Finish(pairs, TRUE_)
     \/ Top.op = "ISLINK" /\ Finish(pairs, FALSE_)
     \/ Top.op \in {"HD", "TL", "DEST"} /\ Fail

\* 21516; ISLINK answers false for what is no pair.
AtNoList ==
  /\ Looking /\ State = "error"
  /\ IF Top.op = "ISLINK" THEN Finish(pairs, FALSE_) ELSE Fail

Next ==
  \/ \E op \in Operations, v, w \in known : Start(op, v, w)
  \/ Force \/ Supply \/ Return \/ AtElement \/ AtEnd \/ AtNoList

Spec == Init /\ [][Next]_vars

---------------------------------------------------------------------------
(* Properties *)

\* The pairs from v that have been forced.
RunFrom(v) ==
  LET n == Len(pairs)
      upTo[i \in 0 .. n] ==
        IF i = 0 THEN <<v>>
        ELSE LET q == upTo[i - 1]
                 x == q[Len(q)]
             IN IF Len(q) < i \/ ~IsLink(x) THEN q
                ELSE IF pairs[-x].back \in Suppliers THEN q ELSE Append(q, pairs[-x].back)
  IN SubSeq(upTo[n], 1, Len(upTo[n]) - 1)

Items(v) == [i \in DOMAIN RunFrom(v) |-> pairs[-RunFrom(v)[i]].front]
Cells(v) == {RunFrom(v)[i] : i \in DOMAIN RunFrom(v)}

\* A copy, a joined list and a mapped one have the elements of the list they were made from,
\* in pairs of their own; every element is seen once, in the order in which it was supplied.
ListsRight ==
  ~reentered =>
    /\ \A i \in 1 .. Cardinality(Suppliers) : Items(Link(i)) = supplied[100 + i]
    /\ done.op \in {"COPYLIST", "<>", "LENGTH", "MAPLIST", "APPLIST"} => done.taken = Items(done.list)
    /\ done.op = "COPYLIST" =>
         Items(done.result) = Items(done.list) /\ Cells(done.result) \cap Cells(done.list) = {}
    /\ done.op = "<>" =>
         /\ Items(done.result) = Items(done.list) \o Items(done.second)
         /\ Cells(done.result) \cap Cells(done.list) \subseteq Cells(done.second)
    /\ done.op = "MAPLIST" => Items(done.result) = [i \in DOMAIN Items(done.list) |-> Image(Items(done.list)[i])]
    /\ done.op = "LENGTH" => done.result = Len(Items(done.list))

\* Lists of the program only ever get longer by being forced.
Unaltered ==
  ~reentered' => \A x \in UNION {Cells(w) : w \in known} : pairs'[-x] = pairs[-x]
=============================================================================
