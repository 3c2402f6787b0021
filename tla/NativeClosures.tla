---------------------------- MODULE NativeClosures ----------------------------
(***************************************************************************)
(* NativeRuntime::execute of the hybrid runtime (src/poplan.cpp): calls    *)
(* that rebind words.  Historically a call saves the bindings of the words *)
(* its callee declares and a return puts the saved values back.  With      *)
(* experimental closures a binding lives in a cell; a call installs the    *)
(* cells the function captured and fresh ones for its own words, and a     *)
(* return reinstates the cells of the caller with what they hold by then.  *)
(* SETPOP, diagnostics and exhaustion drop the frames and keep whatever is *)
(* installed.                                                              *)
(*                                                                         *)
(* Bodies are not modelled: a function may execute any instruction over    *)
(* any word, and a statement may end whenever no call is active.  Compiled *)
(* bodies stay: NativeStorage is about their storage.  The frame store is  *)
(* not counted: historically a call may find it full at any access.        *)
(***************************************************************************)
EXTENDS Integers, Sequences, FiniteSets

CONSTANTS Words,
          Bodies,    \* compiled functions, by the handle of their prototype
          Name,      \* body -> the word its definition binds or declares
          Formals,   \* body -> sequence of [word, argument], as declared
          Children,  \* body -> the bodies defined in it
          Experimental,
          MaxDepth,  \* activations
          MaxHandle, MaxCell, MaxStack  \* bounds of the instance

ASSUME BodiesAssumption ==
  /\ Experimental \in BOOLEAN
  /\ MaxHandle \in Nat /\ MaxCell \in Nat /\ MaxDepth \in Nat /\ MaxStack \in Nat
  /\ \E n \in 0..MaxHandle : Bodies = 1..n
  /\ \A b \in Bodies :
       /\ Children[b] \subseteq Bodies /\ Name[b] \in Words
       /\ Formals[b] \in Seq([word : Words, argument : BOOLEAN])
       /\ \A i, j \in DOMAIN Formals[b] :
            i # j => Formals[b][i].word # Formals[b][j].word

VARIABLES binding,    \* word -> value
          class,      \* word -> its class is the one of a word never declared
          functions,  \* instance -> [body, environment]
          cells,      \* cells_: cell -> value
          active,     \* active_cells_: word -> cell
          frames,     \* activations, outermost first; entered is the view when the
                      \* call was made and is read by properties only
          values, floor, below,  \* values_, empty_stack_cell_, below_empty_
          nextHandle, nextCell

stack == <<values, floor, below>>
bindings == <<binding, class, active>>
counters == <<nextHandle, nextCell>>
vars == <<bindings, functions, cells, frames, stack, counters>>

Undefined == 0
Number == MaxHandle + 1
Handles == 1..MaxHandle
Cells == 1..MaxCell
Value == {Undefined, Number} \cup Handles

Image(f) == {f[x] : x \in DOMAIN f}
Only(f, S) == [x \in DOMAIN f \cap S |-> f[x]]
But(f, S) == Only(f, DOMAIN f \ S)
Over(f, g) == [x \in DOMAIN f \cup DOMAIN g |-> IF x \in DOMAIN f THEN f[x] ELSE g[x]]
With(f, x, v) == Over([y \in {x} |-> v], f)
Last(q) == q[Len(q)]
Front(q) == SubSeq(q, 1, Len(q) - 1)

IsFunction(v) == v \in Bodies \cup DOMAIN functions
Body(v) == IF v \in Bodies THEN v ELSE functions[v].body
Environment(v) == IF v \in Bodies THEN <<>> ELSE functions[v].environment
Outermost == Bodies \ UNION {Children[b] : b \in Bodies}

Init == /\ binding = [w \in Words |-> Undefined] /\ class = [w \in Words |-> TRUE]
        /\ functions = <<>> /\ cells = <<>> /\ active = <<>>
        /\ frames = <<>> /\ values = <<>> /\ floor = Number /\ below = FALSE
        /\ nextHandle = Cardinality(Bodies) + 1 /\ nextCell = 1

---------------------------------------------------------------------------
(* The stack: a missing operand is taken once from the cell below it. *)

CanPop == values # <<>> \/ ~below
Top == IF values # <<>> THEN Last(values) ELSE floor
Pop == IF values # <<>> THEN values' = Front(values) /\ UNCHANGED <<floor, below>>
       ELSE below' = TRUE /\ UNCHANGED <<values, floor>>

Push(v) == IF below THEN floor' = v /\ below' = FALSE /\ UNCHANGED values
           ELSE /\ Len(values) < MaxStack
                /\ values' = Append(values, v) /\ UNCHANGED <<floor, below>>

\* reset_stack(), by => and by recover().
ResetStack == /\ values' = <<>> /\ below' = FALSE
              /\ UNCHANGED <<bindings, functions, cells, frames, floor, counters>>

\* bind(): the word and, if it has one, its active cell.
Bind(w, v) == /\ binding' = [binding EXCEPT ![w] = v]
              /\ cells' = IF w \in DOMAIN active THEN [cells EXCEPT ![active[w]] = v] ELSE cells

---------------------------------------------------------------------------
(* Installing and restoring bindings.  A view is what the words mean. *)

view == [binding |-> binding, class |-> class, active |-> active]

\* Mutation: the word is unbound before it is saved.
SavedUnbound(v, w) == [word |-> w, value |-> Undefined, class |-> v.class[w],
                       cell |-> IF w \in DOMAIN v.active THEN v.active[w] ELSE 0]

\* The record of a binding about to be replaced.
SavedOf(v, w) == [word |-> w, value |-> v.binding[w], class |-> v.class[w],
                  cell |-> IF w \in DOMAIN v.active THEN v.active[w] ELSE 0]

Installed(v, w, cell, value) ==
  [binding |-> [v.binding EXCEPT ![w] = value],
   class |-> [v.class EXCEPT ![w] = FALSE],
   active |-> IF cell = 0 THEN v.active ELSE With(v.active, w, cell)]

\* Mutation: the value read when the call was made, not the one the cell holds now.
RestoredValueOld(s, C) == s.value

RestoredValue(s, C) == IF s.cell = 0 THEN s.value ELSE C[s.cell]

Restored(v, s, C) ==
  [binding |-> [v.binding EXCEPT ![s.word] = RestoredValue(s, C)],
   class |-> [v.class EXCEPT ![s.word] = s.class],
   active |-> IF s.cell = 0 THEN But(v.active, {s.word})
              ELSE With(v.active, s.word, s.cell)]

\* The view after replaying saved backwards, with the cells holding C.
RestoredAll(v, saved, C) ==
  LET n == Len(saved)
      f[k \in 0..n] == IF k = 0 THEN v ELSE Restored(f[k - 1], saved[n + 1 - k], C)
  IN f[n]

\* The words a call installs: each is [word, cell, captured, argument].
CapturedSteps(h) ==
  LET E == Environment(h)
      w == CHOOSE q \in [1..Cardinality(DOMAIN E) -> DOMAIN E] : Image(q) = DOMAIN E
  IN [i \in DOMAIN w |-> [word |-> w[i], cell |-> E[w[i]],
                          captured |-> TRUE, argument |-> FALSE]]

OwnSteps(h) ==
  LET n == Len(Formals[Body(h)])
      own(i) == Formals[Body(h)][n + 1 - i]
  IN [i \in 1..n |-> [word |-> own(i).word, captured |-> FALSE, argument |-> own(i).argument,
                      cell |-> IF Experimental THEN nextCell + i - 1 ELSE 0]]

\* Mutation: the captured words come last.
StepsOwnFirst(h) == OwnSteps(h) \o CapturedSteps(h)

\* The captured words with their cells, then the function's own from the last to the
\* first, which shadow them.
Steps(h) == CapturedSteps(h) \o OwnSteps(h)

\* What a call knows after its first k steps.
Progress(h) ==
  LET q == Steps(h)
      f[k \in 0..Len(q)] ==
        IF k = 0 THEN [view |-> view, saved |-> <<>>, cells |-> cells,
                       values |-> values, below |-> below]
        ELSE LET g == f[k - 1]
                 s == q[k]
                 v == IF s.captured THEN g.cells[s.cell]
                      ELSE IF ~s.argument THEN Undefined
                      ELSE IF g.values = <<>> THEN floor ELSE Last(g.values)
             IN [view |-> Installed(g.view, s.word, s.cell, v),
                 saved |-> Append(g.saved, SavedOf(g.view, s.word)),
                 cells |-> IF s.cell = 0 THEN g.cells ELSE With(g.cells, s.cell, v),
                 values |-> IF s.argument /\ g.values # <<>> THEN Front(g.values) ELSE g.values,
                 below |-> g.below \/ (s.argument /\ g.values = <<>>)]
  IN f

\* The k-th step wants an operand there is none for.
Lacks(h, k) == LET g == Progress(h)[k - 1]
               IN Steps(h)[k].argument /\ g.values = <<>> /\ g.below

Become(v) == binding' = v.binding /\ class' = v.class /\ active' = v.active

Knows(g) == /\ Become(g.view) /\ cells' = g.cells
            /\ values' = g.values /\ below' = g.below /\ UNCHANGED floor

\* Its own words shadow the captured ones.
NewEnvironment(h) ==
  LET own == {OwnSteps(h)[i] : i \in DOMAIN Formals[Body(h)]}
  IN IF ~Experimental THEN <<>>
     ELSE Over([w \in {s.word : s \in own} |-> (CHOOSE s \in own : s.word = w).cell],
               Environment(h))

Callable(w) == /\ IsFunction(binding[w])
               /\ Experimental =>
                    nextCell + Len(Formals[Body(binding[w])]) <= MaxCell + 1

Call(w) ==
  /\ Callable(w) /\ Len(frames) < MaxDepth
  /\ LET h == binding[w]
         last == Progress(h)[Len(Steps(h))]
     IN /\ \A k \in DOMAIN Steps(h) : ~Lacks(h, k)
        /\ Knows(last)
        /\ frames' = Append(frames, [function |-> h, environment |-> NewEnvironment(h),
                                     saved |-> last.saved, entered |-> view])
        /\ nextCell' = IF Experimental THEN nextCell + Len(Formals[Body(h)]) ELSE nextCell
  /\ UNCHANGED <<functions, nextHandle>>

\* Underflow in the middle of a call, or historically the watchpoint: just before or
\* after an argument is bound, or when the frame is entered.  Nothing is put back, and the
\* cell numbered for the word whose operand is missing is not used again.
FailedCall(w) ==
  /\ Callable(w)
  /\ LET h == binding[w]
         q == Steps(h)
         P == Progress(h)
         Reaches(k) == \A i \in 1..k : ~Lacks(h, i)
     IN \E k \in 0..Len(q) :
          \/ /\ k > 0 /\ Reaches(k - 1) /\ Lacks(h, k)
             /\ nextCell' = IF Experimental THEN nextCell + k - Len(CapturedSteps(h)) ELSE nextCell
             /\ Knows(IF Experimental THEN P[k - 1]
                      ELSE [P[k - 1] EXCEPT !.view = Installed(@, q[k].word, 0, Undefined)])
          \/ /\ ~Experimental /\ Reaches(k)
             /\ k = Len(q) \/ (k > 0 /\ q[k].argument)
             /\ UNCHANGED nextCell
             /\ \/ Knows(P[k])
                \/ k > 0 /\ Knows([P[k] EXCEPT !.view = Installed(@, q[k].word, 0, Undefined)])
  /\ frames' = <<>>
  /\ UNCHANGED <<functions, nextHandle>>

Return == /\ frames # <<>>
          /\ Become(RestoredAll(view, Last(frames).saved, cells))
          /\ frames' = Front(frames)
          /\ UNCHANGED <<functions, cells, stack, counters>>

\* finish() in the middle of a call: SETPOP, a diagnostic, an unported facility, a
\* full frame store or the activation limit.
Stop == /\ frames # <<>>
        /\ frames' = <<>>
        /\ UNCHANGED <<bindings, functions, cells, stack, counters>>

---------------------------------------------------------------------------
(* collect() as far as functions and cells are concerned *)

\* Mutation: the cells a return will reinstate are not roots.
FrameCellsOwn(f) == Image(f.environment)

FrameCells(f) == (Image(f.environment) \cup {f.saved[i].cell : i \in DOMAIN f.saved}) \ {0}

RootCells == Image(active) \cup UNION {FrameCells(frames[i]) : i \in DOMAIN frames}
RootFunctions ==
  LET saved(f) == {f.saved[i].value : i \in DOMAIN f.saved}
  IN (Image(values) \cup {floor} \cup Image(binding)
      \cup UNION {{frames[i].function} \cup saved(frames[i]) : i \in DOMAIN frames})

\* C and H hold the roots and what they lead to, when the instances are F and new is on the
\* stack.
Closed(C, H, F, new) ==
  /\ RootCells \subseteq C /\ (RootFunctions \cup new) \cap DOMAIN F \subseteq H
  /\ \A h \in H : Image(F[h].environment) \subseteq C
  /\ \A c \in C : cells[c] \in DOMAIN F => cells[c] \in H

\* What the worklist has marked when it is empty: the least such sets.
Reached(F, new) ==
  LET closed == {M \in (SUBSET DOMAIN cells) \X (SUBSET DOMAIN F) : Closed(M[1], M[2], F, new)}
  IN [cells |-> {c \in DOMAIN cells : \A M \in closed : c \in M[1]},
      functions |-> {h \in DOMAIN F : \A M \in closed : h \in M[2]}]

Sweep(F, new) == LET R == Reached(F, new)
                 IN functions' = Only(F, R.functions) /\ cells' = Only(cells, R.cells)

\* Before a statement runs storage may have to be found for it.
Collect == /\ frames = <<>>
           /\ Sweep(functions, {})
           /\ UNCHANGED <<bindings, frames, stack, counters>>

---------------------------------------------------------------------------
(* The other instructions, and definitions *)

Constant == /\ Push(Number)
            /\ UNCHANGED <<bindings, functions, cells, frames, counters>>

Load(w) == /\ Push(binding[w])
           /\ UNCHANGED <<bindings, functions, cells, frames, counters>>

Store(w) == /\ CanPop /\ Pop /\ Bind(w, Top)
            /\ UNCHANGED <<class, active, functions, frames, counters>>

Erase == /\ CanPop /\ Pop
         /\ UNCHANGED <<bindings, functions, cells, frames, counters>>

\* captured_value.  Every 256th handle is followed by a collection.
Captured(b) ==
  /\ frames # <<>> /\ b \in Children[Body(Last(frames).function)]
  /\ IF Experimental
     THEN LET F == With(functions, nextHandle, [body |-> b, environment |-> Last(frames).environment])
          IN /\ nextHandle <= MaxHandle
             /\ Push(nextHandle)
             /\ nextHandle' = nextHandle + 1
             /\ \/ Sweep(F, {nextHandle})
                \/ functions' = F /\ UNCHANGED cells
     ELSE Push(b) /\ UNCHANGED <<functions, cells, nextHandle>>
  /\ UNCHANGED <<bindings, frames, nextCell>>

\* VARS, or the first use of a word outside definitions.
Declare(w) == /\ frames = <<>>
              /\ class' = [class EXCEPT ![w] = FALSE]
              /\ UNCHANGED <<binding, active, functions, cells, frames, stack, counters>>

\* END of an outermost definition, whose header declared the word.
Define(b) == /\ frames = <<>> /\ b \in Outermost
             /\ Bind(Name[b], b)
             /\ class' = [class EXCEPT ![Name[b]] = FALSE]
             /\ UNCHANGED <<active, functions, frames, stack, counters>>

Next == \/ \E w \in Words : Call(w) \/ FailedCall(w) \/ Load(w) \/ Store(w) \/ Declare(w)
        \/ \E b \in Bodies : Captured(b) \/ Define(b)
        \/ Constant \/ Erase \/ Return \/ Stop \/ ResetStack \/ Collect

Spec == Init /\ [][Next]_vars

---------------------------------------------------------------------------
(* Properties *)

View == [binding : [Words -> Value], class : [Words -> BOOLEAN],
         active : UNION {[S -> Cells] : S \in SUBSET Words}]

\* Views, cells, functions and frames hold handles and cells that have been handed out;
\* a word without a cell has no entry in active_cells_.
TypeOK ==
  /\ view \in View
  /\ DOMAIN functions \subseteq Handles \ Bodies
  /\ \A h \in DOMAIN functions : /\ functions[h].body \in Bodies
                                /\ DOMAIN functions[h].environment \subseteq Words
                                /\ Image(functions[h].environment) \subseteq Cells
  /\ DOMAIN cells \subseteq Cells /\ Image(cells) \subseteq Value
  /\ \A i \in DOMAIN frames :
       /\ frames[i].function \in Handles
       /\ Image(frames[i].environment) \subseteq Cells
       /\ \A j \in DOMAIN frames[i].saved :
            /\ frames[i].saved[j].word \in Words /\ frames[i].saved[j].value \in Value
            /\ frames[i].saved[j].class \in BOOLEAN
            /\ frames[i].saved[j].cell \in {0} \cup Cells
       /\ frames[i].entered \in View
  /\ values \in Seq(Value)
  /\ floor \in Value /\ below \in BOOLEAN
  /\ nextHandle \in 1..MaxHandle + 1 /\ nextCell \in 1..MaxCell + 1

\* The view returning from the activations i and deeper would restore.
AfterReturns(i) ==
  LET back[k \in i - 1..Len(frames)] ==
        IF k = Len(frames) THEN view ELSE RestoredAll(back[k + 1], frames[k + 1].saved, cells)
  IN back[i - 1]

\* Returning from any number of the active calls gives every word the class and the
\* cell it had when the outermost of them was made, and a word that call rebound the
\* value it had, or the one its cell holds by now.
RestoresCaller ==
  \A i \in DOMAIN frames :
    LET v == AfterReturns(i)
        was == frames[i].entered
    IN /\ v.class = was.class /\ v.active = was.active
       /\ \A j \in DOMAIN frames[i].saved :
            LET w == frames[i].saved[j].word
            IN v.binding[w] = IF w \in DOMAIN was.active THEN cells[was.active[w]]
                              ELSE was.binding[w]

\* A word with an active cell has the value of the cell, whichever way it was
\* installed, written, restored or left behind by an abandoned call.
ViewAgrees == \A w \in DOMAIN active : binding[w] = cells[active[w]]

\* While a function runs, the words of its environment have the cells of the
\* environment: a call it made, or an instance of itself it called, is gone from the view.
LexicalView == frames # <<>> => \A w \in DOMAIN Last(frames).environment :
                                  /\ w \in DOMAIN active
                                  /\ active[w] = Last(frames).environment[w]

\* A collection, between statements or in the middle of calls, leaves every cell and
\* function that the view, a return or a reachable function leads to.
CellsLive ==
  /\ Image(active) \subseteq DOMAIN cells
  /\ \A i \in DOMAIN frames :
       /\ Image(frames[i].environment) \subseteq DOMAIN cells
       /\ \A j \in DOMAIN frames[i].saved : frames[i].saved[j].cell \in {0} \cup DOMAIN cells
  /\ \A h \in DOMAIN functions : Image(functions[h].environment) \subseteq DOMAIN cells
  /\ RootFunctions \cup Image(cells)
       \subseteq {Undefined, Number} \cup Bodies \cup DOMAIN functions

\* The state is of its types, and a collection keeps the cells that returns and functions
\* need (mark_cell).
CellsKept == TypeOK /\ CellsLive
=============================================================================
