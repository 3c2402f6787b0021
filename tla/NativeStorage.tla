---------------------------- MODULE NativeStorage ----------------------------
(***************************************************************************)
(* NativeRuntime of the hybrid runtime (src/poplan.cpp) as the owner of    *)
(* the storage NativeAllocator hands out: objects, interned words and      *)
(* literals, compiled programs and the extents a compilation borrows.  An  *)
(* allocation that fails collects once and tries again, in the middle of   *)
(* whatever operation asked for it, so what that operation has built so    *)
(* far must already be reachable from a root.                              *)
(*                                                                         *)
(* One action is one request to the allocator: todo lists what is left of  *)
(* the operation under way.  A value is a handle, or 0 for a number.       *)
(***************************************************************************)
EXTENDS Naturals, Sequences, FiniteSets

CONSTANTS First, Limit, SmallLimit, BitmapWord,  \* as in NativeAllocator
          Names, Literals,
          Sources,    \* what the reader can deliver to the compiler
          Experimental,  \* --native-closures=experimental
          Constructors,  \* of "pair" and "reference", what the program makes
          NameWords,  \* 4, at 1105
          LiteralWords, NodeWords,  \* 2 and 2
          DescriptorWords,          \* 5
          MaxHandle, MaxProgram, MaxStack, MaxDepth  \* bounds of the instance

Statement == "statement"
Child == "child"        \* a function defined inside another
Function == "function"

\* A function has literals, locals and captures; what is asked for has a size.
StorageAssumption ==
  /\ First \in Nat \ {0} /\ Limit \in Nat /\ First <= Limit
  /\ SmallLimit \in Nat \ {0} /\ BitmapWord \in Nat \ {0}
  /\ NameWords \in Nat \ {0} /\ LiteralWords \in Nat \ {0}
  /\ NodeWords \in Nat \ {0} /\ DescriptorWords \in Nat \ {0}
  /\ \A s \in Sources : /\ s.emissions \in Seq(Literals \cup {"op"})
                        /\ s.locals \in Seq(Names) /\ s.captures \in Nat
                        /\ s.kind \in {Statement, Child, Function}
  /\ Constructors \subseteq {"pair", "reference"}
  /\ Experimental \in BOOLEAN
  /\ {MaxHandle, MaxProgram, MaxStack, MaxDepth} \subseteq Nat

VARIABLES live, common, small, unavailable,  \* the allocator
          held,      \* owner -> its block
          objects,   \* handle -> [kind, fields, program]
          programs,  \* id -> [source, roots]
          bindings,  \* interned name -> value
          values,    \* the POP stack
          frames,    \* accounting_frames_: [function, saved]
          nested,    \* frame_roots_: children of the definition being compiled
          running,   \* the statement being executed, or 0
          todo, collected,         \* the operation under way
          nextHandle, nextProgram

heap == <<live, common, small, unavailable>>
counters == <<nextHandle, nextProgram>>
storage == <<heap, held>>
records == <<objects, programs>>
execution == <<values, frames, running>>
operation == <<todo, collected>>
vars == <<storage, records, bindings, execution, nested, operation, counters>>

Heap == INSTANCE NativeAllocator

Handles == 1..MaxHandle
Value == 0..MaxHandle
Programs == 1..MaxProgram
Image(f) == {f[x] : x \in DOMAIN f}
Only(f, S) == [x \in DOMAIN f \cap S |-> f[x]]
But(f, S) == Only(f, DOMAIN f \ S)
With(f, x, v) == [y \in DOMAIN f \cup {x} |-> IF y = x THEN v ELSE f[y]]
Over(g, f) == [y \in DOMAIN g \cup DOMAIN f |-> IF y \in DOMAIN g THEN g[y] ELSE f[y]]

\* Owners that belong to a program, and what else owns a block.
Parts == {"node", "descriptor", "bindings", "captures", "code"}
PartsOf(P) == {o \in DOMAIN held : o[1] \in Parts /\ o[2] \in P}
Owner == ({"object"} \X Handles) \cup ({"word"} \X Names) \cup ({"literal"} \X Literals)
         \cup (Parts \X Programs) \cup ({"node"} \X Programs \X Nat)

Functions == {h \in DOMAIN objects : objects[h].kind = "function"}
ProgramsOf(H) == {objects[h].program : h \in H \cap Functions}

Init == /\ Heap!Init
        /\ held = <<>> /\ objects = <<>> /\ programs = <<>> /\ bindings = <<>>
        /\ values = <<>> /\ frames = <<>> /\ nested = {}
        /\ running = 0 /\ todo = <<>> /\ collected = FALSE
        /\ nextHandle = 1 /\ nextProgram = 1

---------------------------------------------------------------------------
(* The operation under way *)

Ask(n, o) == [do |-> "allocate", words |-> n, owner |-> o]
Give(o) == [do |-> "release", words |-> 0, owner |-> o]
Done(o) == [do |-> "done", words |-> 0, owner |-> o]
Sweeping == [do |-> "collect", words |-> 0, owner |-> <<"collection">>]

Idle == todo = <<>>
Doing(what) == todo # <<>> /\ Head(todo).do = what
Subject == todo[Len(todo)].owner
Wanted == Head(todo)

\* The object whose record exists and whose block does not yet.
Unplaced == {h \in DOMAIN objects : /\ objects[h].kind # "function"
                                    /\ <<"object", h>> \notin DOMAIN held}

\* Nothing is asked of the allocator for a literal met before or an array of no words.
Missing == Doing("allocate") /\ Wanted.words > 0 /\ Wanted.owner \notin DOMAIN held

AlreadyHeld == /\ Doing("allocate") /\ ~Missing
               /\ todo' = Tail(todo)
               /\ UNCHANGED <<storage, records, bindings, execution, nested, collected, counters>>

Allocate == /\ Missing
            /\ \E r \in Heap!Block : /\ Heap!TryAllocate(Wanted.words, r)
                                     /\ held' = With(held, Wanted.owner, r)
            /\ todo' = Tail(todo) /\ collected' = FALSE
            /\ UNCHANGED <<records, bindings, execution, nested, counters>>

Released(o) == But(held, {o})

Release == /\ Doing("release")
           /\ Heap!Release(held[Wanted.owner])
           /\ held' = Released(Wanted.owner)
           /\ todo' = Tail(todo)
           /\ UNCHANGED <<records, bindings, execution, nested, collected, counters>>

MustCollect == Missing /\ Heap!CannotAllocate(Wanted.words)

Forgotten == Unplaced

\* The second attempt fails too: the operation leaves no record behind.  Extents a
\* compilation had obtained are not released, they are garbage.
Exhausted ==
  /\ MustCollect /\ collected
  /\ LET gone == IF Subject[1] = "program" THEN {Subject[2]} ELSE {}
     IN /\ held' = But(held, PartsOf(gone))
        /\ programs' = But(programs, gone)
  /\ objects' = But(objects, Forgotten)
  /\ todo' = <<>> /\ collected' = FALSE
  /\ UNCHANGED <<heap, bindings, execution, nested, counters>>

---------------------------------------------------------------------------
(* collect() *)

\* Mutation: the programs of unreachable functions are roots like any other.
FreeProgramsAll == DOMAIN programs

\* Programs of functions are kept by their functions; the others are roots, the one
\* being compiled among them.
FreePrograms == DOMAIN programs \ ProgramsOf(Functions)

FrameRoots(f) == {f.function} \cup Image(f.saved)

PendingFields == UNION {Image(objects[h].fields) : h \in Unplaced}

RootValues == Image(values) \cup Image(bindings) \cup nested \cup PendingFields
              \cup (UNION {FrameRoots(frames[i]) : i \in DOMAIN frames})
              \cup (UNION {programs[p].roots : p \in FreePrograms})

Successors(h) ==
  IF h \notin DOMAIN objects THEN {}   \* object() throws
  ELSE Image(objects[h].fields) \cup (UNION {programs[p].roots : p \in ProgramsOf({h})})

Closed(V, roots) == roots \subseteq V /\ \A h \in V : Successors(h) \ {0} \subseteq V

\* What the worklist has visited when it is empty: the least set with the roots and
\* what they lead to.
Reached == LET roots == RootValues \ {0}
               closed == {V \in SUBSET Handles : Closed(V, roots)}
           IN {h \in Handles : \A V \in closed : h \in V}

\* Mutation: a program found through its function gives up the nodes of its bindings
\* and operations.
MarkedPartsFinal(P) == {o \in PartsOf(P) : o[1] # "node"}

MarkedParts(P) == PartsOf(P)

Marked == {o \in DOMAIN held : o[1] \in {"word", "literal"}}
          \cup {o \in DOMAIN held : o[1] = "object" /\ o[2] \in Reached}
          \cup MarkedParts(FreePrograms \cup ProgramsOf(Reached))

\* Mutation: the program of an erased function goes although an instance of it lives.
KeptProgramsStrict ==
  DOMAIN programs \ ProgramsOf(Functions \ Reached)

\* A program goes with the last of its functions.
KeptPrograms == FreePrograms \cup ProgramsOf(Functions \cap Reached)

KeptObjects == (Reached \cup Unplaced) \cap DOMAIN objects

Collect ==
  /\ \/ /\ MustCollect /\ ~collected
        /\ collected' = TRUE /\ UNCHANGED todo
     \/ /\ Doing("collect")
        /\ todo' = Tail(todo) /\ UNCHANGED collected
  /\ Heap!Collect({held[o] : o \in Marked})
  /\ objects' = Only(objects, KeptObjects)
  /\ programs' = Only(programs, KeptPrograms)
  /\ held' = Only(held, {o \in DOMAIN held : o[1] = "object" => o[2] \in KeptObjects}
                         \ PartsOf(DOMAIN programs \ KeptPrograms))
  /\ UNCHANGED <<bindings, execution, nested, counters>>

---------------------------------------------------------------------------
(* allocate_object, intern *)

Size(kind) == IF kind = "pair" THEN 2 ELSE 1
Arguments(n) == SubSeq(values, Len(values) - n + 1, Len(values))
Dropped(n) == SubSeq(values, 1, Len(values) - n)

\* The record is published before storage is asked for; fields not given are unbound.
NewObject(kind, n) ==
  /\ Idle /\ nextHandle <= MaxHandle
  /\ n <= Size(kind) /\ n <= Len(values) /\ Len(values) - n < MaxStack
  /\ objects' = With(objects, nextHandle,
                     [kind |-> kind, program |-> 0,
                      fields |-> [i \in 1..Size(kind) |-> IF i <= n THEN Arguments(n)[i] ELSE 0]])
  /\ values' = Dropped(n)
  /\ todo' = LET o == <<"object", nextHandle>> IN <<Ask(Size(kind), o), Done(o)>>
  /\ UNCHANGED <<storage, programs, bindings, frames, nested, running, collected, counters>>

ObjectMade == /\ Doing("done") /\ Subject[1] = "object"
              /\ values' = Append(values, Subject[2])
              /\ nextHandle' = nextHandle + 1
              /\ todo' = <<>>
              /\ UNCHANGED <<storage, records, bindings, frames, nested, running, collected, nextProgram>>

Intern(n) == /\ Idle /\ running = 0
             /\ n \notin DOMAIN bindings
             /\ todo' = LET o == <<"word", n>> IN <<Ask(NameWords, o), Done(o)>>
             /\ UNCHANGED <<storage, records, bindings, execution, nested, collected, counters>>

Interned == /\ Doing("done") /\ Subject[1] = "word"
            /\ bindings' = With(bindings, Subject[2], 0)
            /\ todo' = <<>>
            /\ UNCHANGED <<storage, records, execution, nested, collected, counters>>

\* store(target, field, value)
SetField(h, i, v) ==
  /\ Idle
  /\ h \in Image(values) \ {0} /\ i \in DOMAIN objects[h].fields
  /\ v \in Image(values) \cup {0}
  /\ objects' = [objects EXCEPT ![h].fields[i] = v]
  /\ UNCHANGED <<storage, programs, bindings, execution, nested, operation, counters>>

---------------------------------------------------------------------------
(* retain_program, compile_storage, make_function *)

Array(n) == IF n = 0 THEN 0 ELSE n + 1

\* The requests of compile_storage for source s as program p, in order: a node for every
\* operation, after its literal, and for every binding and capture, the descriptor and
\* the arrays, the nodes of the captures back, the code, the other nodes back.
Compilation(p, s) ==
  LET operations == Len(s.emissions)
      locals == Len(s.locals)
      Node(k) == <<"node", p, k>>
      Constant(e) == Ask(IF e \in Literals THEN LiteralWords ELSE 0, <<"literal", e>>)
  IN [k \in 1..(2 * operations) |->
        IF k % 2 = 0 THEN Ask(NodeWords, Node(k \div 2)) ELSE Constant(s.emissions[(k + 1) \div 2])]
     \o [k \in 1..(locals + s.captures) |-> Ask(NodeWords, Node(operations + k))]
     \o <<Ask(DescriptorWords, <<"descriptor", p>>),
          Ask(Array(locals), <<"bindings", p>>),
          Ask(Array(s.captures), <<"captures", p>>)>>
     \o [k \in 1..s.captures |-> Give(Node(operations + locals + k))]
     \o <<Ask(operations + 1, <<"code", p>>)>>
     \o [k \in 1..operations |-> Give(Node(k))]

Retain(s, R) ==
  /\ Idle /\ running = 0
  /\ nextProgram <= MaxProgram
  /\ s.kind # Statement => nextHandle <= MaxHandle
  /\ Image(s.locals) \subseteq DOMAIN bindings
  /\ s.kind = Statement => nested = {}
  /\ R \subseteq nested /\ Cardinality(R) = s.captures
  /\ programs' = With(programs, nextProgram, [source |-> s, roots |-> R])
  /\ nextProgram' = nextProgram + 1
  /\ todo' = Append(Compilation(nextProgram, s), Done(<<"program", nextProgram>>))
  /\ UNCHANGED <<storage, objects, bindings, execution, nested, collected, nextHandle>>

\* The definition being read is given up; recover() resets the stack as well.
Abandon == /\ Idle /\ nested # {}
           /\ nested' = {} /\ values' = <<>>
           /\ UNCHANGED <<storage, records, bindings, frames, running, operation, counters>>

\* finish_compilation_context: the nodes still held are given up, not released.
Finalized(p) == But(held, {o \in PartsOf({p}) : o[1] = "node"})

\* A statement runs, a child waits for its parent, a function is bound to its name.
Compiled(n) ==
  /\ Doing("done") /\ Subject[1] = "program"
  /\ LET p == Subject[2]
         kind == programs[p].source.kind
     IN /\ held' = Finalized(p)
        /\ IF kind = Statement
           THEN running' = p /\ UNCHANGED <<objects, nextHandle, nested, bindings>>
           ELSE /\ objects' = With(objects, nextHandle, [kind |-> "function", fields |-> <<>>, program |-> p])
                /\ nextHandle' = nextHandle + 1
                /\ UNCHANGED running
                /\ IF kind = Child
                   THEN nested' = nested \cup {nextHandle} /\ UNCHANGED bindings
                   ELSE /\ n \in DOMAIN bindings
                        /\ bindings' = [bindings EXCEPT ![n] = nextHandle]
                        /\ nested' = {}
  /\ todo' = <<>>
  /\ UNCHANGED <<heap, programs, values, frames, collected, nextProgram>>

---------------------------------------------------------------------------
(* The statement being executed *)

Running == Idle /\ running # 0

Load(n) == /\ Running /\ n \in DOMAIN bindings /\ Len(values) < MaxStack
           /\ values' = Append(values, bindings[n])
           /\ UNCHANGED <<storage, records, bindings, frames, nested, running, operation, counters>>

Store(n) == /\ Running /\ n \in DOMAIN bindings /\ values # <<>>
            /\ bindings' = [bindings EXCEPT ![n] = values[Len(values)]]
            /\ values' = Dropped(1)
            /\ UNCHANGED <<storage, records, frames, nested, running, operation, counters>>

Erase == /\ Running /\ values # <<>>
         /\ values' = Dropped(1)
         /\ UNCHANGED <<storage, records, bindings, frames, nested, running, operation, counters>>

\* captured_value: the nested function itself, or with experimental closures another
\* function of its program, without a block; every 256th handle is followed by a
\* collection.
Captured(h) ==
  /\ Running /\ frames # <<>> /\ Len(values) < MaxStack
  /\ h \in programs[objects[frames[Len(frames)].function].program].roots
  /\ IF Experimental
     THEN /\ nextHandle <= MaxHandle
          /\ objects' = With(objects, nextHandle,
                             [kind |-> "function", fields |-> <<>>, program |-> objects[h].program])
          /\ values' = Append(values, nextHandle)
          /\ nextHandle' = nextHandle + 1
          /\ todo' \in {<<>>, <<Sweeping>>}
     ELSE values' = Append(values, h) /\ UNCHANGED <<objects, nextHandle, todo>>
  /\ UNCHANGED <<storage, programs, bindings, frames, nested, running, collected, nextProgram>>

\* A call saves the bindings of the callee's locals, which become unbound.
Call(n) ==
  /\ Running /\ n \in DOMAIN bindings /\ bindings[n] \in Functions
  /\ Len(frames) < MaxDepth
  /\ LET locals == Image(programs[objects[bindings[n]].program].source.locals)
     IN /\ frames' = Append(frames, [function |-> bindings[n], saved |-> Only(bindings, locals)])
        /\ bindings' = [m \in DOMAIN bindings |-> IF m \in locals THEN 0 ELSE bindings[m]]
  /\ UNCHANGED <<storage, records, values, nested, running, operation, counters>>

Return == /\ Running /\ frames # <<>>
          /\ bindings' = Over(frames[Len(frames)].saved, bindings)
          /\ frames' = SubSeq(frames, 1, Len(frames) - 1)
          /\ UNCHANGED <<storage, records, values, nested, running, operation, counters>>

\* release_program when execute() has returned, after its last operation or, through
\* finish(), in the middle of a call; recover() then resets the stack.
EndStatement ==
  /\ Running
  /\ held' = But(held, PartsOf({running}))
  /\ programs' = But(programs, {running})
  /\ frames' = <<>>
  /\ IF frames = <<>> THEN values' \in {values, <<>>} ELSE values' = <<>>
  /\ running' = 0
  /\ UNCHANGED <<heap, objects, bindings, nested, operation, counters>>

---------------------------------------------------------------------------
Next == \/ AlreadyHeld \/ Allocate \/ Release \/ Exhausted \/ Collect
        \/ \E kind \in Constructors, n \in 0..2 : NewObject(kind, n)
        \/ ObjectMade \/ Interned
        \/ \E n \in Names : Intern(n) \/ Compiled(n) \/ Load(n) \/ Store(n) \/ Call(n)
        \/ \E h \in Handles, i \in 1..2, v \in Value : SetField(h, i, v)
        \/ \E s \in Sources, R \in SUBSET nested : Retain(s, R)
        \/ \E h \in Handles : Captured(h)
        \/ Erase \/ Return \/ EndStatement \/ Abandon

Spec == Init /\ [][Next]_vars

---------------------------------------------------------------------------
(* Properties *)

\* Every owner, handle and program is one the runtime hands out, and the only objects
\* without a block are functions and the one whose constructor is waiting for it.
TypeOK ==
  /\ Heap!TypeOK
  /\ DOMAIN held \subseteq Owner /\ Image(held) \subseteq Heap!Block
  /\ DOMAIN objects \subseteq Handles
  /\ \A h \in DOMAIN objects :
       /\ objects[h].kind \in {"pair", "reference", "function"}
       /\ objects[h].fields \in Seq(Value)
       /\ objects[h].program \in 0..MaxProgram
  /\ DOMAIN programs \subseteq Programs
  /\ \A p \in DOMAIN programs : /\ programs[p].source \in Sources
                                /\ programs[p].roots \subseteq Handles
  /\ DOMAIN bindings \subseteq Names /\ Image(bindings) \subseteq Value
  /\ values \in Seq(Value) /\ Len(values) <= MaxStack
  /\ \A i \in DOMAIN frames : /\ frames[i].function \in Handles
                              /\ DOMAIN frames[i].saved \subseteq Names
                              /\ Image(frames[i].saved) \subseteq Value
  /\ nested \subseteq Handles
  /\ running \in 0..MaxProgram
  /\ collected \in BOOLEAN
  /\ Idle => Unplaced = {}   \* only a constructor under way has no block yet
  /\ nextHandle \in 1..(MaxHandle + 1) /\ nextProgram \in 1..(MaxProgram + 1)

\* Whatever asks for storage and whenever a collection answers, two owners never
\* hold the same word, and no owner holds a block the allocator may hand out again.
SoleOwner == /\ Image(held) \subseteq live
             /\ \A o, q \in DOMAIN held :
                  o # q => Heap!Extent(held[o]) \cap Heap!Extent(held[q]) = {}

\* object(), compiled_storage() and programs_ answer for h.
Placed(h) == /\ h \in DOMAIN objects
             /\ objects[h].kind = "function" =>
                  /\ objects[h].program \in DOMAIN programs
                  /\ \A part \in {"descriptor", "code"} :
                       <<part, objects[h].program>> \in DOMAIN held
             /\ objects[h].kind # "function" =>
                  \/ <<"object", h>> \in DOMAIN held
                  \/ todo # <<>> /\ Subject = <<"object", h>>

InUse == Image(values) \cup Image(bindings) \cup nested \cup PendingFields
         \cup (UNION {FrameRoots(frames[i]) : i \in DOMAIN frames})

\* A handle that execution, or a suspended caller, or a constructor can still use, or
\* that the marking of collect() meets, resolves (object() does not throw), and a
\* function that can be called or returned to has descriptor and code.
HandlesKept ==
  /\ \A v \in InUse \ {0} : Placed(v)
  /\ \A h \in Reached : \A v \in Successors(h) \ {0} : Placed(v)

\* Storage is reported exhausted only when what is left of the arena is in use: every
\* live block has an owner, every object is reachable, and every program is being
\* compiled, executed or owned by a reachable function.
HonestExhaustion ==
  Exhausted => /\ live = Image(held)
               /\ DOMAIN objects = Reached \cup Unplaced
               /\ \A p \in DOMAIN programs : \/ p = running
                                            \/ Subject = <<"program", p>>
                                            \/ p \in ProgramsOf(Reached)

\* The tables are of their types and every live extent has one owner (allocate_storage,
\* compile_storage, collect).
ExtentsOwned == TypeOK /\ SoleOwner

\* Storage is exhausted only when what is reachable leaves no room (allocate_storage).
ExhaustionHonest == [][HonestExhaustion]_vars
=============================================================================
