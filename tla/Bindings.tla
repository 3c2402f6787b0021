------------------------------ MODULE Bindings ------------------------------
(***************************************************************************)
(* The dynamic bindings of the standalone interpreter: words, identifier   *)
(* records, cells, closures, call frames, CANCEL, protected identifiers    *)
(* and the mark-and-sweep collector (standalone/src/runtime.cpp).          *)
(*                                                                         *)
(* A name reaches its value in three hops: words_[name].binding_record is  *)
(* an identifier, active[identifier] is a cell, cells[cell] is the value.  *)
(* Calling a closure rebinds identifiers in `active' and remembers what it *)
(* shadowed in frame.saved; a normal return puts those cells back, a fault *)
(* leaves them where they are, a replaced source unwinds all of them.      *)
(*                                                                         *)
(* Bodies are abstracted: the top frame may take any instruction whose     *)
(* identifiers its program was compiled against.  Handles are taken from   *)
(* one counter per sort instead of the single next_; they are never reused *)
(* in either.                                                              *)
(***************************************************************************)
EXTENDS Naturals, Sequences, FiniteSets

CONSTANTS Names,       \* the names the programs mention
          Resident,    \* the names the constructor protects
          Signatures,  \* headers of the functions: [args, locals, results]
          MaxIdent, MaxCell, MaxFn,       \* bounds on handles
          MaxFrames, MaxStack, MaxFaults  \* bounds on depth and on faults

ASSUME NamesAssumption == Names # {} /\ IsFiniteSet(Names) /\ Resident \subseteq Names
ASSUME SignaturesAssumption ==
  Signatures \subseteq [args : Seq(Names), locals : Seq(Names), results : Seq(Names)]
ASSUME BoundsAssumption ==
  /\ {MaxIdent, MaxCell, MaxFn, MaxFrames, MaxStack, MaxFaults} \subseteq Nat
  /\ Cardinality(Resident) <= MaxIdent /\ Cardinality(Resident) <= MaxCell

VARIABLES
  record,    \* words_: name -> its identifier, or 0 when it has none
  protected, \* identifier -> the cell protected_cell names, or 0
  active,    \* identifier -> cell
  cells,     \* cell -> value
  closures,  \* function object -> its program and captured environment
  frames,    \* the VM's frames, the running one last
  stack,     \* the value stack
  next,      \* the next handle of each sort
  faults,    \* faults and SETPOPs so far
  entered    \* ghost: what `active' was when each frame was entered

vars == <<record, protected, active, cells, closures, frames, stack, next,
          faults, entered>>

Undef == <<"undef", 0>>
Number == <<"number", 0>>
Primitive == <<"primitive", 0>>
Atoms == {Undef, Number, Primitive}

Value == Atoms \cup ({"function", "reference"} \X Nat)

Maps(D, R) == UNION {[S -> R] : S \in SUBSET D}
Over(f, g) == [x \in DOMAIN f \cup DOMAIN g |-> IF x \in DOMAIN f THEN f[x] ELSE g[x]]
Only(f, S) == [x \in DOMAIN f \cap S |-> f[x]]

Top == frames[Len(frames)]
InProgram == frames # <<>>

---------------------------------------------------------------------------
(* Cells and identifiers *)

\* cell(): an identifier without a cell gets a fresh, undefined one.
CellOf(i) == IF i \in DOMAIN active THEN active[i] ELSE next.cell

ProtectedBinding(i) == protected[i] # 0 /\ CellOf(i) = protected[i]

\* The effect of cell(i) on the tables, the ghost maps included.
TouchedActive(i) == Over(active, [j \in {i} |-> next.cell])
TouchedCells(i) == IF i \in DOMAIN active THEN cells
                   ELSE Over(cells, [c \in {next.cell} |-> Undef])
TouchedEntered(i) == [k \in DOMAIN entered |->
                        IF i \in DOMAIN active THEN entered[k]
                        ELSE Over(entered[k], [j \in {i} |-> next.cell])]
TouchedNext(i) == IF i \in DOMAIN active THEN next
                  ELSE [next EXCEPT !.cell = @ + 1]

Touch(i) ==
  /\ TouchedNext(i).cell <= MaxCell
  /\ active' = TouchedActive(i)
  /\ entered' = TouchedEntered(i)
  /\ next' = TouchedNext(i)

---------------------------------------------------------------------------
(* Frames: what a call installs and what leaving the frame puts back *)

\* The names a call binds, in the order call() installs them.
OwnNames(sig) == sig.locals \o sig.results \o
                 [k \in 1..Len(sig.args) |-> sig.args[Len(sig.args) + 1 - k]]

FirstAt(ids, i) == CHOOSE j \in DOMAIN ids :
                     ids[j] = i /\ \A k \in 1..(j - 1) : ids[k] # i
LastAt(ids, i, n) == CHOOSE j \in 1..n :
                     ids[j] = i /\ \A k \in (j + 1)..n : ids[k] # i
Bound(ids) == {ids[j] : j \in DOMAIN ids}

\* Mutation: frame.saved replayed from the front.
RestoreForwards(saved, m) ==
  LET own == [j \in DOMAIN saved.own |-> saved.own[j][1]]
  IN [i \in DOMAIN m \cup DOMAIN saved.captured \cup Bound(own) |->
        IF i \in Bound(own) THEN saved.own[LastAt(own, i, Len(own))][2]
        ELSE IF i \in DOMAIN saved.captured THEN saved.captured[i]
        ELSE m[i]]

\* frame.saved is replayed backwards, so of two entries for one identifier
\* the earlier one is what remains; the captured cells were saved first.
Restore(saved, m) ==
  LET own == [j \in DOMAIN saved.own |-> saved.own[j][1]]
  IN [i \in DOMAIN m \cup DOMAIN saved.captured \cup Bound(own) |->
        IF i \in DOMAIN saved.captured THEN saved.captured[i]
        ELSE IF i \in Bound(own) THEN saved.own[FirstAt(own, i)][2]
        ELSE m[i]]

Saves(frame, i) == \/ i \in DOMAIN frame.saved.captured
                   \/ \E j \in DOMAIN frame.saved.own : frame.saved.own[j][1] = i

\* unwind(true) replays every frame, the innermost first: what remains for an
\* identifier is what the outermost frame that shadowed it had saved.
RestoreAll ==
  [i \in DOMAIN active |->
     IF \A k \in DOMAIN frames : ~Saves(frames[k], i) THEN active[i]
     ELSE LET k == CHOOSE k \in DOMAIN frames :
                     Saves(frames[k], i) /\ \A l \in 1..(k - 1) : ~Saves(frames[l], i)
          IN Restore(frames[k].saved, active)[i]]

---------------------------------------------------------------------------
NoSignature == [args |-> <<>>, locals |-> <<>>, results |-> <<>>]
Identifier == 1..MaxIdent
Cell == 1..MaxCell

Program == [sig : Signatures \cup {NoSignature},
            syms : [Names -> Identifier],  \* Program::symbols
            free : SUBSET Names,           \* not protected when compiled
            scope : SUBSET Names,          \* bound by it or around it
            function : BOOLEAN]
Environment == Maps(Identifier, Cell)
Closure == [program : Program, env : Environment]
Saved == [captured : Environment, own : Seq(Identifier \X Cell)]
Frame == [program : Program, function : 0..MaxFn, env : Environment, saved : Saved]

\* Every table of the runtime maps handles to handles or values of the right sort, and
\* frames remember a view per activation.
TypeOK ==
  /\ record \in [Names -> 0..MaxIdent]
  /\ protected \in Maps(Identifier, 0..MaxCell)
  /\ active \in Environment
  /\ cells \in [DOMAIN cells -> Value] /\ DOMAIN cells \subseteq Cell
  /\ closures \in [DOMAIN closures -> Closure] /\ DOMAIN closures \subseteq 1..MaxFn
  /\ frames \in Seq(Frame) /\ Len(frames) <= MaxFrames
  /\ stack \in Seq(Value)
  /\ next \in [ident : 1..(MaxIdent + 1), cell : 1..(MaxCell + 1), fn : 1..(MaxFn + 1)]
  /\ faults \in 0..MaxFaults
  /\ entered \in Seq(Environment) /\ Len(entered) = Len(frames)
---------------------------------------------------------------------------
(* The constructor: every resident name is an identifier bound to a        *)
(* primitive and protected in the cell it has then.  Which name gets which *)
(* handle is immaterial.                                                   *)
InitOver(num) ==
  /\ record = [n \in Names |-> IF n \in Resident THEN num[n] ELSE 0]
  /\ protected = [i \in {num[n] : n \in Resident} |-> i]
  /\ active = [i \in {num[n] : n \in Resident} |-> i]
  /\ cells = [i \in {num[n] : n \in Resident} |-> Primitive]
  /\ next = [ident |-> Cardinality(Resident) + 1,
             cell |-> Cardinality(Resident) + 1, fn |-> 1]

Numberings == {num \in [Resident -> 1..Cardinality(Resident)] :
                 \A m, n \in Resident : num[m] = num[n] => m = n}

Init == /\ InitOver(CHOOSE num \in Numberings : TRUE)
        /\ closures = <<>> /\ frames = <<>> /\ stack = <<>>
        /\ faults = 0 /\ entered = <<>>

---------------------------------------------------------------------------
(* Compilation resolves every name to the identifier its word has now and  *)
(* refuses to emit a store to a name that is protected now, unless the     *)
(* program or one around it binds that name.                               *)

Missing == {n \in Names : record[n] = 0}

\* identifier(): the words without a record get fresh ones, in any order.
NewRecords == {num \in [Missing -> next.ident..(next.ident + Cardinality(Missing) - 1)] :
                 \A m, n \in Missing : num[m] = num[n] => m = n}

Compiled(syms) ==
  [sig |-> NoSignature, syms |-> syms, scope |-> {}, function |-> FALSE,
   free |-> {n \in Names : \/ syms[n] \notin DOMAIN protected
                           \/ ~ProtectedBinding(syms[n])}]

Nested(program, sig) ==
  [program EXCEPT !.sig = sig, !.function = TRUE,
                  !.scope = @ \cup Bound(OwnNames(sig))]

Emitted(program) == program.free \cup program.scope

\* word.binding_record after identifier() has filled in the missing ones.
Resolved(num) == Over(num, record)

\* A top-level statement is compiled and its program starts: from the source,
\* or, above running frames, from the text given to POPVAL or COMPIL.
Statement ==
  /\ Len(frames) < MaxFrames
  /\ next.ident + Cardinality(Missing) - 1 <= MaxIdent
  /\ LET num == CHOOSE f \in NewRecords : TRUE
     IN /\ record' = Resolved(num)
        /\ protected' = Over(protected, [i \in {num[n] : n \in Missing} |-> 0])
        /\ frames' = Append(frames, [program |-> Compiled(Resolved(num)), function |-> 0,
                                     env |-> <<>>, saved |-> [captured |-> <<>>, own |-> <<>>]])
  /\ next' = [next EXCEPT !.ident = @ + Cardinality(Missing)]
  /\ entered' = Append(entered, active)
  /\ UNCHANGED <<active, cells, closures, stack, faults>>

---------------------------------------------------------------------------
(* Instructions of the running program *)

Push(v) == /\ Len(stack) < MaxStack
           /\ stack' = Append(stack, v)
Popped == SubSeq(stack, 1, Len(stack) - 1)
Last == stack[Len(stack)]

Literal ==
  /\ InProgram
  /\ Push(Number)
  /\ UNCHANGED <<record, protected, active, cells, closures, frames, next, faults, entered>>

Load(n) ==
  /\ InProgram
  /\ LET i == Top.program.syms[n]
     IN /\ Touch(i)
        /\ cells' = TouchedCells(i)
        /\ Push(TouchedCells(i)[CellOf(i)])
  /\ UNCHANGED <<record, protected, closures, frames, faults>>

\* Mutation: assign() trusts the compiler's check.
AssignUnchecked(i, v) ==
  /\ Touch(i)
  /\ cells' = [TouchedCells(i) EXCEPT ![CellOf(i)] = v]

\* assign() refuses a protected cell when it runs, whatever the compiler said.
Assign(i, v) ==
  /\ ~ProtectedBinding(i)
  /\ Touch(i)
  /\ cells' = [TouchedCells(i) EXCEPT ![CellOf(i)] = v]

Store(n) ==
  /\ InProgram /\ stack # <<>>
  /\ n \in Emitted(Top.program)
  /\ Assign(Top.program.syms[n], Last)
  /\ stack' = Popped
  /\ UNCHANGED <<record, protected, closures, frames, faults>>

\* VARS at top level: the identifier gets a cell, what it holds stays.
Declare(n) ==
  /\ InProgram /\ ~Top.program.function
  /\ n \in Emitted(Top.program)
  /\ Touch(Top.program.syms[n])
  /\ cells' = TouchedCells(Top.program.syms[n])
  /\ UNCHANGED <<record, protected, closures, frames, stack, faults>>

\* for_setup and for_next go through bind(), which asks nothing.
Loop(n) ==
  /\ InProgram /\ stack # <<>> /\ Last = Number
  /\ n \in Emitted(Top.program)
  /\ LET i == Top.program.syms[n]
     IN /\ Touch(i)
        /\ cells' = [TouchedCells(i) EXCEPT ![CellOf(i)] = Number]
  /\ stack' = Popped
  /\ UNCHANGED <<record, protected, closures, frames, faults>>

\* REFOF of a word: the reference follows the identifier, not the cell.
RefOf(n) ==
  /\ InProgram /\ record[n] # 0
  /\ ~ProtectedBinding(record[n])
  /\ Touch(record[n])
  /\ cells' = TouchedCells(record[n])
  /\ Push(<<"reference", record[n]>>)
  /\ UNCHANGED <<record, protected, closures, frames, faults>>

ReadReference ==
  /\ InProgram /\ stack # <<>> /\ Last[1] = "reference"
  /\ Touch(Last[2])
  /\ cells' = TouchedCells(Last[2])
  /\ stack' = Append(Popped, TouchedCells(Last[2])[CellOf(Last[2])])
  /\ UNCHANGED <<record, protected, closures, frames, faults>>

\* v -> CONT(r): the value lies under the reference.
WriteReference ==
  /\ InProgram /\ Len(stack) >= 2 /\ Last[1] = "reference"
  /\ Assign(Last[2], stack[Len(stack) - 1])
  /\ stack' = SubSeq(stack, 1, Len(stack) - 2)
  /\ UNCHANGED <<record, protected, closures, frames, faults>>

\* FUNCTION ... END, LAMBDA: the closure captures the cells of its maker.
MakeClosure(sig) ==
  /\ InProgram /\ next.fn <= MaxFn
  /\ Push(<<"function", next.fn>>)
  /\ closures' = Over(closures, [h \in {next.fn} |->
                   [program |-> Nested(Top.program, sig), env |-> Top.env]])
  /\ next' = [next EXCEPT !.fn = @ + 1]
  /\ UNCHANGED <<record, protected, active, cells, frames, faults, entered>>

\* CANCEL, at top level only: the word forgets its identifier.  Programs
\* already compiled, closures and references keep it.
Cancel(n) ==
  /\ InProgram /\ ~Top.program.function
  /\ record[n] = Top.program.syms[n]
  /\ record' = [record EXCEPT ![n] = 0]
  /\ UNCHANGED <<protected, active, cells, closures, frames, stack, next, faults, entered>>

\* call() of a closure: rebind what it captured, then its locals and results,
\* then its arguments, last argument first.
Call ==
  /\ InProgram /\ stack # <<>> /\ Last[1] = "function"
  /\ Len(frames) < MaxFrames
  /\ LET f == closures[Last[2]]
         own == OwnNames(f.program.sig)
         ids == [j \in DOMAIN own |-> f.program.syms[own[j]]]
         n == Len(ids)
         arity == Len(f.program.sig.args)
         below == Len(stack) - 1
         unbound == (DOMAIN f.env \cup Bound(ids)) \ DOMAIN active
         rank(i) == next.cell + n + Cardinality({k \in unbound : k < i})
         new == [i \in unbound |-> rank(i)]
         outer == Over(active, new)
         inner == Over(f.env, outer)
         fresh(j) == next.cell + j - 1
         argument(j) == stack[below + 1 - (j - (n - arity))]
         saved == [captured |-> [i \in DOMAIN f.env |-> outer[i]],
                   own |-> [j \in 1..n |->
                     <<ids[j], IF \E k \in 1..(j - 1) : ids[k] = ids[j]
                               THEN fresh(LastAt(ids, ids[j], j - 1))
                               ELSE inner[ids[j]]>>]]
         env == [i \in DOMAIN f.env \cup Bound(ids) |->
                   IF i \in Bound(ids) THEN fresh(LastAt(ids, i, n)) ELSE f.env[i]]
     IN /\ below >= arity
        /\ next.cell + n + Cardinality(unbound) - 1 <= MaxCell
        /\ active' = Over(env, outer)
        /\ cells' = [c \in DOMAIN cells \cup (next.cell..(next.cell + n + Cardinality(unbound) - 1)) |->
                       IF c \in DOMAIN cells THEN cells[c]
                       ELSE IF c - next.cell + 1 \in (n - arity + 1)..n
                            THEN argument(c - next.cell + 1) ELSE Undef]
        /\ frames' = Append(frames, [program |-> f.program, function |-> Last[2],
                                     env |-> env, saved |-> saved])
        /\ entered' = Append([k \in DOMAIN entered |-> Over(entered[k], new)], outer)
        /\ next' = [next EXCEPT !.cell = @ + n + Cardinality(unbound)]
        /\ stack' = SubSeq(stack, 1, below - arity)
  /\ UNCHANGED <<record, protected, closures, faults>>

\* The end of a frame: push the results, then put the shadowed cells back.
Return ==
  /\ InProgram
  /\ LET results == Top.program.sig.results
     IN /\ Len(stack) + Len(results) <= MaxStack
        /\ stack' = stack \o [k \in DOMAIN results |-> cells[active[Top.program.syms[results[k]]]]]
  /\ active' = Restore(Top.saved, active)
  /\ frames' = SubSeq(frames, 1, Len(frames) - 1)
  /\ entered' = SubSeq(entered, 1, Len(entered) - 1)
  /\ UNCHANGED <<record, protected, cells, closures, next, faults>>

---------------------------------------------------------------------------
(* Abnormal ends *)

\* A fault or SETPOP: unwind(false) drops the frames and keeps `active'.
Fault ==
  /\ InProgram /\ faults < MaxFaults
  /\ faults' = faults + 1
  /\ frames' = <<>> /\ stack' = <<>> /\ entered' = <<>>
  /\ UNCHANGED <<record, protected, active, cells, closures, next>>

\* feed() with another source while frames wait for input: unwind(true).
ReplaceSource ==
  /\ InProgram
  /\ active' = RestoreAll
  /\ frames' = <<>> /\ stack' = <<>> /\ entered' = <<>>
  /\ UNCHANGED <<record, protected, cells, closures, next, faults>>

---------------------------------------------------------------------------
(* collect() *)

Identifiers(S) == {<<"identifier", i>> : i \in S}
CellNodes(S) == {<<"cell", c>> : c \in S}
Held(v) == CASE v[1] = "function" -> {v}
             [] v[1] = "reference" -> Identifiers({v[2]})
             [] OTHER -> {}
Image(f) == {f[x] : x \in DOMAIN f}
EnvironmentNodes(env) == Identifiers(DOMAIN env) \cup CellNodes(Image(env))
SavedNodes(saved) ==
  EnvironmentNodes(saved.captured)
    \cup Identifiers({saved.own[j][1] : j \in DOMAIN saved.own})
    \cup CellNodes({saved.own[j][2] : j \in DOMAIN saved.own})
ProgramNodes(program) == Identifiers(Image(program.syms))

\* Mutation: the shadowed bindings are not roots.
FrameNodesUnsaved(f) ==
  (IF f.function = 0 THEN {} ELSE {<<"function", f.function>>})
    \cup ProgramNodes(f.program) \cup EnvironmentNodes(f.env)

FrameNodes(f) ==
  (IF f.function = 0 THEN {} ELSE {<<"function", f.function>>})
    \cup ProgramNodes(f.program) \cup EnvironmentNodes(f.env) \cup SavedNodes(f.saved)

Roots == (UNION {Held(stack[k]) : k \in DOMAIN stack})
           \cup Identifiers({record[n] : n \in Names} \ {0})
           \cup UNION {FrameNodes(frames[k]) : k \in DOMAIN frames}

Successors(x) ==
  CASE x[1] = "identifier" -> IF x[2] \in DOMAIN active THEN CellNodes({active[x[2]]}) ELSE {}
    [] x[1] = "cell" -> Held(cells[x[2]])
    [] x[1] = "function" -> ProgramNodes(closures[x[2]].program)
                              \cup EnvironmentNodes(closures[x[2]].env)

\* The marks after n rounds of the worklist.
Marks[n \in Nat] ==
  IF n = 0 THEN Roots
  ELSE LET M == Marks[n - 1] IN M \cup UNION {Successors(x) : x \in M}

Closed(M) == Roots \subseteq M /\ \A x \in M : Successors(x) \subseteq M

Marked(M, sort) == {x[2] : x \in {y \in M : y[1] = sort}}

Collect ==
  \E M \in {Marks[MaxIdent + MaxCell + MaxFn]} :
    /\ Closed(M)     \* the worklist is empty
    /\ active' = Only(active, Marked(M, "identifier"))
    /\ protected' = Only(protected, Marked(M, "identifier"))
    /\ closures' = Only(closures, Marked(M, "function"))
    /\ cells' = Only(cells, Marked(M, "cell"))
    /\ entered' = [k \in DOMAIN entered |-> Only(entered[k], Marked(M, "identifier"))]
    /\ UNCHANGED <<record, frames, stack, next, faults>>

---------------------------------------------------------------------------
Next ==
  \/ Statement \/ Literal \/ ReadReference \/ WriteReference
  \/ Call \/ Return \/ Fault \/ ReplaceSource \/ Collect
  \/ \E n \in Names : Load(n) \/ Store(n) \/ Declare(n) \/ Loop(n) \/ RefOf(n) \/ Cancel(n)
  \/ \E sig \in Signatures : MakeClosure(sig)

Spec == Init /\ [][Next]_vars

---------------------------------------------------------------------------
(* Properties *)

\* Every handle a later instruction may follow is live: cells.at() and
\* object() never miss, whatever was captured, shadowed, cancelled or
\* collected before (runtime.cpp: collect, binding, call).
NoDangling ==
  /\ \A n \in Names : record[n] # 0 => record[n] \in DOMAIN protected
  /\ DOMAIN active \subseteq DOMAIN protected
  /\ Image(active) \subseteq DOMAIN cells
  /\ \A v \in Image(stack) \cup Image(cells) :
       /\ v[1] = "function" => v[2] \in DOMAIN closures
       /\ v[1] = "reference" => v[2] \in DOMAIN protected
  /\ \A h \in DOMAIN closures :
       /\ Image(closures[h].program.syms) \cup DOMAIN closures[h].env \subseteq DOMAIN protected
       /\ Image(closures[h].env) \subseteq DOMAIN cells
  /\ \A k \in DOMAIN frames :
       LET f == frames[k]
       IN /\ f.function # 0 => f.function \in DOMAIN closures
          /\ Image(f.program.syms) \cup DOMAIN f.env \cup {i \in Identifier : Saves(f, i)}
               \subseteq DOMAIN protected
          /\ Image(f.env) \cup Image(f.saved.captured)
               \cup {f.saved.own[j][2] : j \in DOMAIN f.saved.own} \subseteq DOMAIN cells

\* Undoing what the innermost frames saved gives back, at every depth, the
\* bindings their caller had (call, the end of a frame, unwind(true)).
RestoresCaller ==
  \A k \in DOMAIN frames :
    Restore(frames[k].saved, IF k = Len(frames) THEN active ELSE entered[k + 1]) = entered[k]

\* Leaving frames without a fault leaves every identifier bound as it was when
\* the outermost frame left was entered, even if a name is captured and local
\* at once, or twice local (run: the end of a frame; feed: unwind(true)).
LeavesAsEntered ==
  Len(frames') < Len(frames) /\ faults' = faults => active' = entered[Len(frames') + 1]

\* Handles are of their types and every handle an instruction may follow is live (collect,
\* binding, call).
NoHandleDangles == TypeOK /\ NoDangling

\* Undoing what frames saved gives every caller its bindings back, and leaving frames without
\* a fault does so (call, the end of a frame, unwind(true)).
BindingsRestored == [][RestoresCaller' /\ LeavesAsEntered]_vars

\* Only FORALL writes the cell of a protected identifier: an assignment, a
\* reference or a declaration never does, whichever program holds it.
ProtectedByAssignment ==
  [][\A i \in DOMAIN protected :
       protected[i] # 0 /\ protected[i] \in DOMAIN cells' /\ cells'[protected[i]] # cells[protected[i]]
         => \E n \in Names : Loop(n)]_vars

\* No step changes what a protected identifier holds in its protected cell:
\* the claim of standalone/docs/status.md.
ProtectedUnchanged ==
  [][\A i \in DOMAIN protected :
       protected[i] # 0 /\ protected[i] \in DOMAIN cells' =>
         cells'[protected[i]] = cells[protected[i]]]_vars
=============================================================================
