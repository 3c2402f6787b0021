# TLA+ models of re-poplan

The repository holds two programs that run POP-2. `standalone/` is an interpreter
written from scratch in C++17. `src/` is the reference compiler POPLAN of the
BESM-6: its routines transliterated to C++ (`machine.cpp`), the processor they run
on (`machine_cpu.cpp`), and an image-independent reimplementation of its runtime
(`poplan.cpp`, the "native" runtime). The two share no code.

The modules here are written from the C++ code. `PROJECT.json` names, for every
definition, the lines it stands for.

## Inventory

### Standalone interpreter (`standalone/`)

| Part | State | Operations | What is hard | What makes it correct |
|---|---|---|---|---|
| Bindings and collector (`runtime.cpp`) | `words_`, identifier objects, `active`, `cells`, closures, `frames[].saved`, `next_` | `identifier`, `cell`, `bind`, `assign`, `call`, end of frame, `unwind`, `cancel_word`, `collect` | shallow dynamic binding with captured cells; roots held only by suspended frames; protection checked twice, at different times | callers get their bindings back; no live handle dangles; protected cells keep their value |
| Source session (`runtime.cpp`, `@NEXT` and recovery in `primitives.cpp`, statement loop in `compiler.cpp`) | `pending_`, `input`, `input_position`, `parser`, `sources`, `session_active_`, `handling_error`, `lex_failure_` | `feed`, `resume`, `lex_available`, `run`, `compile_tokens`, `restore_source`, `@NEXT`, `@ERRDN`, `SETPOP` | suspension at any token, retry, nesting, errors inside error handlers, deferred lexer errors | the effects do not depend on how the text is cut; recovery loses nothing it should keep; sessions end |
| Lazy lists and source cursor | pairs with a supplier, `forcing`, `source_forward`, `source_token` | `force_list`, `@FORCD`, `peek_source`, `read_token`, `prepend_tokens` | suppliers that suspend, fault or change the list they supply; primitives run again after a force | an element is produced once, in order; a retry starts from the same arguments |
| Macros | `macros`, `macro_expansion`, `Compiler::macro_pending` | `MACRESULTS`, `@IMAC`, `macro_done` | expansion left over by a fault; lookahead past the macro | an expansion replaces the call that made it |
| Compiler | task stack, scopes, programs under construction | one method per construct | re-entry after `NeedInput`; labels of nested constructs | code does what the program means |
| Printer | `PrintState` tasks | `next_print`, `print_step` | lists changed while printed, cycles, consumers that fault | prints the list as it was met |
| Values, lexer | none | `arithmetic`, `compare`, `tokenize`, `decode` | overflow, INT64_MIN, reals beside integers | exact or a fault |
| Data primitives | strips, arrays, records, functions and updaters | one branch of `invoke` each | initializers that change what is being built; updater dispatch through compositions; index bounds | updater and selector agree; nothing else changes |
| Command line | none | `main` | none | out of scope |

### Reference compiler (`src/`)

| Part | State | Operations | What is hard | What makes it correct |
|---|---|---|---|---|
| `NativeAllocator` | live blocks, common list, small-size chains, lost gaps | constructor, `try_allocate`, `release`, `collect` | exact-size chains, high-end split, no merging, gaps that are lost | the blocks divide the arena |
| Native storage and objects | objects, roots, literals, retained programs | `allocate_storage`, `allocate_object`, `intern_literal`, `compile_storage`, `collect` | a collection inside an allocation; partial failure | every reachable object keeps its block |
| Native frames and execution | bindings, binding cells, closures, frames, the value stack and the cell below it, the words of the frame store | `execute`, `bind`, `enter_frame`, `leave_frame`, `unwind_frames`, `instantiate_function` | words rebound by calls, cells shared by closures, calls abandoned half way, peaks and the watched word of the frame store | callers get their view back; a closure sees its own cells; the store's words are accounted for |
| `NativeDictionary` | records and collision chains | `intern`, `find`, `exchange_class` | a chain link shares a word with the class that calls save and restore | every name found once, whatever calls restore |
| Native reader | decoder, pending characters, token in progress | `feed`, `next`, `discard_line` | a token cut anywhere; errors inside a token | tokens do not depend on cuts |
| Native compiler (`NativeSession`) | operations, pending constructs, contexts of definitions | `accept_token` | branches patched later; errors that abandon nested definitions | every branch lands in its own construct; code means what the docs say |
| Processor and extracodes | registers, memory, the terminal | `step`, `dispatch_translated_routine`, `e71`, `run_image_shell` | instructions run again when input is late; routines run whole | a whole does what its instructions do |
| Arithmetic | none | `native_number_*`, `NumericScratch` | 40-bit mantissas, signs, normalisation, rounding | the value, rounded once |
| Generated routines | the machine's memory | about 500 routines in `machine.cpp` | everything above, in halves of machine words | as the native runtime claims to do |
| Console | line buffer, code tables | read, write, convert | conversion tables | round trips |

`PROJECT.json` lists the hazards of the code one by one, each with the properties
that would notice it going wrong.

## Modules

| Module | Extends | Stands for |
|---|---|---|
| `Bindings` | | bindings, frames, closures, protection and the collector of the standalone interpreter |
| `Session` | | a standalone source session from `feed` to its end |
| `Lexer` | | bytes and characters to tokens, whole and in pieces |
| `Streams` | | sources that functions supply: `COMPILE`, `CARRYON` and characters read beside the compiler |
| `Splits` | `Session` | the harness `splits` of `standalone/tests/session_test.cpp`: one session fed whole, one in pieces |
| `Lists` | | dynamic lists, the source cursor and macros |
| `Printer` | | the operation `=>` and the tasks of `next_print` |
| `Code` | | the standalone compiler's code and the virtual machine that runs it |
| `Meaning` | `Code` | what programs mean by their structure |
| `Values` | | numbers of the standalone interpreter |
| `Components` | | strips, strings, records and arrays |
| `FunctionValues` | | partial applications, compositions, updaters |
| `AbstractHeap` | | what callers of the native allocator rely on |
| `NativeAllocator` | | the allocator itself; refines `AbstractHeap` |
| `NativeStorage` | instantiates `NativeAllocator` | the native runtime as owner of that storage: objects, words, literals, programs, roots, collections |
| `NativeClosures` | | calls, returns and closures of the native runtime's `execute` |
| `NativeFrames` | | the words of the frame store and its watched word |
| `NativeDictionary` | | the hash table of words and what calls save of its records |
| `NativeReader` | | bytes to tokens |
| `NativeCompiler` | | tokens to operations |
| `NativeMeaning` | `NativeCompiler` | what the operations of conditionals compute, against `docs/native-booleans.md` |
| `NativeNumbers` | | arithmetic of 48-bit words |
| `Processor` | | instructions, extracodes and whole routines |
| `ImageStorage` | instantiates `NativeAllocator` | the image's own storage routines, beside the native allocator |
| `ImageWords` | | the image's tables of names and literals, its calls and its stacks |
| `ImageScanner` | instantiates `NativeReader` | the image's token reader, beside the native one |
| `ImageLists` | | the image's dynamic lists and the routines that walk them |
| `ImageData` | | the image's strips and records, whole and packed |
| `ImageFunctions` | | the image's partial applications, compositions and updaters |
| `OrderFacts` | | least and greatest elements of sets of naturals, used as induction in the proofs |
| `Bindings_proofs`, `NativeAllocator_proofs`, `NativeStorage_proofs`, `NativeClosures_proofs`, `NativeCompiler_proofs`, `Session_proofs` | the modules named | the proofs |
| `HybridParts_proofs` | `NativeFrames`, `NativeDictionary`, `ImageFunctions` | the proofs of these three |
| `MC...` | the modules they check | constants for TLC |

### Bindings

A name reaches its value through its identifier (`record`), the identifier's active
cell (`active`) and the cell (`cells`). `Call` follows `Runtime::call`: it installs
the captured cells, then fresh cells for locals, results and arguments, and saves
each binding it replaces. `Return` pushes the results and replays `frame.saved`
backwards. `Fault` drops the frames and keeps the bindings, as `unwind(false)` does
and the README of the interpreter documents; `ReplaceSource` is `unwind(true)`.
`Compiled` and `Emitted` are the check `Compiler::emit` makes when the statement is
compiled; `Assign` is the check made when it runs. `Collect` marks from the roots
`collect()` uses and keeps what is marked.

Function bodies are not modelled: the running frame may execute any instruction whose
names its program was compiled against, in any order. This includes every body a
compiler could emit and is why the properties hold for all of them. Values are
reduced to functions, references and a number. The single counter `next_` is split
into one counter per sort so that handles of one sort stay comparable in a small
model. The ghost `entered` remembers the bindings at the entry of each frame.

### Session and Splits

A text is a sequence of tokens with a line each; a statement is operands joined by
operators, and running it evaluates the operands: an effect, a fault, `SETPOP`,
`ITEMREAD`, or a nested text given to `POPVAL`. One action is one token forced into
`PROGLIST` (`ForceToken`), one step of the compiler (`Begin` to `Complete`), one operand
run, or one call of the host. A token is known by its place in the text, one of a nested
text by the place of the operand and its own. `Blocked` is the state in which `run` has thrown
`NeedInput` and `feed` returns `need_input`; only then may the host feed on. A fault
schedules ERRFUN over `@ERRDN`; a fault while `handling_error` is set gets a direct
diagnostic. The constant `Handlers` says what the program has bound ERRFUN to.

`spoilt` is a ghost: the lines that `LinesSurvive` says nothing of. They are those of a
statement cut short by an error, `SETPOP` or another source, and of the token refused or
looked ahead then (`Pending`); the line of the next unread token when a statement is refused,
which is what `SkipLine` drops and may be the whole line after the refused one (`Overrun`);
and what is behind a malformed byte in its chunk (`Discarded`). Take any of these away and
the run finds a text that loses the line.
`Splits` composes two sessions of one runtime: the first is fed the whole text, the
second any pieces; `whole` keeps the effects of the first.

### Lexer and Streams

`Lexer` calls `tokenize` again from the start of what is left whenever there is more of
it, as `lex_available` and the readers of `INCHARITEM` do; a character stands for its
class, and the two bytes of a letter may come apart. `Streams` has a source for each
`COMPILE` or `CARRYON` in progress; the compiler asks for a token, calls the supplier
when the source has none, and the supplier may compile another source, fault, or give the
end. What each source delivered is noted beside what it was asked for.

### Lists, Printer

In `Lists` a pair is a number with a head and a tail; `force_list` runs the supplier
as a frame that may change any pair, read tokens itself, be interrupted by a lack of
input or fault, and `@FORCD` stores what it made. The primitives `NULL`, `TL`,
`LENGTH`, `<>` and `ITEMREAD` are actions that either complete or force and are run
again. Macros insert their expansion where the reader stands. In `Printer` a frame
performs the tasks of `next_print`, one a step, while suppliers and consumers change
the lists; a ghost follows what the reader of the output should see.

### Code, Meaning

`Code` has the emitting methods of the compiler (`Emit`, `Label`, `Patch`) and one
action per operation of the virtual machine. `Meaning` evaluates the trees the texts
come from. They are compared when the machine stops.

### Values, Components, FunctionValues

`Values` are operators checked over every pair of small numbers; integers have
`Width` bits and overflow there. `Components` has an action per primitive, with
`NEWARRAY`'s initializer interleaved with all of them. `FunctionValues` dispatches
calls and updates through partial applications and compositions as `call`, `updater`
and `has_updater` do; the three walk the same structure separately in the code.

### NativeAllocator

`common` and `small` are the lists with their order, `live` the blocks handed out,
`unavailable` the gaps a collection could not link. `Collect` takes the set of kept
blocks; the collector that finds it is in `NativeStorage`.

### NativeStorage

`NativeStorage` drives the allocator the way `NativeRuntime` does. An operation of the
runtime is a list of requests (`todo`); `Allocate` serves the next one, `Collect` is
the collection an unserved request starts, and `Exhausted` is the second failure.
Everything else happens only between operations (`Idle`). So a collection meets the
state exactly as the code has left it at that request: the record of an object
without a block, a literal's entry without one, a compilation with some of its nodes.
`held` says who owns which block; the collection marks blocks through their owners and
hands them to `Heap!Collect`. `Reached` is the least set of handles that holds the roots
and is closed under what an object refers to; the code finds it with a worklist and a list
of visited handles. `Missing` says that the request at hand asks for a block there is not:
an array of no words and a literal met before ask for none. `Compilation` lists the requests of `compile_storage` in
order: a node for each operation, local and capture, the descriptor, the two chains,
the code, with the releases in between.

`Sources` are the programs that may be compiled: statements, functions, and functions
defined inside others, whose handles wait in `nested` (`frame_roots_`). A program is
its size, not its instructions: while it runs any load, store, call or return may
happen. The sizes of words, literals and nodes are constants; the code has 4, 2, 2 and
5, the runs use 1 so that a small arena holds a few of each. Startup reservations and
exceptions of the host's own allocator are left out.

### NativeClosures, NativeFrames, NativeDictionary

A view is what the words mean: the binding, the class and, with experimental closures,
the active cell of each. `Call` builds it step by step (`Progress`) from the words the
function captured and its own, in the order of the code; `FailedCall` stops at any
step where an operand is missing or, historically, where the frame store can be full,
and keeps what has been installed; `Return` replays `saved` backwards. `Captured` is
the instruction that makes an instance, with the collection that every 256th handle
brings: any handle may be the 256th; `Reached` is the least pair of sets that the marking
can leave, whatever the order of its worklist. A call that fails half way has numbered
a cell for the word whose operand is missing, and never uses the number again
(poplan.cpp:2084): `FailedCall` counts it. The ghost `entered` remembers the view at entry.

`NativeFrames` counts words: what a call needs at its peak, keeps, and needs again on
its way out, and which reads of its bindings would have fallen on the watched word. A
callee is the sequence of its slots. `NativeDictionary` keeps property words, whose
address half is the link of a collision chain and whose other half is the class that
`execute` saves and restores with `exchange_class`.

### NativeReader, NativeCompiler, NativeMeaning

One action per state of the reader's scan and per kind of token that `accept_token`
tells apart. The compiler's operations are a sequence with unpatched branches; the
constructs in progress are the stack `pending`, and definitions suspend the program
around them. `NativeMeaning` feeds conditionals and interprets the result under every
valuation of their words.

### Processor, NativeNumbers and the modules of the image

`Processor` runs an image twice at once: an instruction at a time, and with generated
routines and call glue taken whole, and lets input arrive late. The image modules give
each routine of `machine.cpp` its own action; halves of a memory word that share the
word in the image share it here. `ImageStorage` keeps the native allocator beside the
image's memory and refines its actions; `ImageScanner` compares with what
`NativeReader` reads of the same text. In `ImageLists` a routine keeps what it works on in
cells of its own and on the hardware stack, since the supplier it calls may walk lists
itself; a ghost keeps the elements each list will have had. In
`ImageData` a class is its layout, found as `RECORDFNS` and `STRIPFNS` find it, and its
objects are words; a ghost keeps what was last stored in each component. Field functions
of packed records are compiled by the image from templates that are not in the source:
`Place` has the word and the shift that `p11152`-`p11234` put into them. A block is asked
for only where there is room; what happens when there is none is `ImageStorage`'s. In `ImageFunctions` a function
is the address of a record of four words, and `born` remembers what each updater that
`PARTAPPLY` made was meant to apply. `NativeNumbers` has the image's, the
processor's and the native versions of each operation.

## Runs

A run whose name is a program or a part of one checks several modules: a behaviour is
of one part, chosen in its initial state, and the variables of the others rest. The
parts share no state, so this is the union of their checks, and every property is
written over the part it is about.

| Run | Shows | Bounds and why they are enough |
|---|---|---|
| `Bindings` | `BindingsRestored`, `NoHandleDangles`, `ProtectedByAssignment` | one name, a header that binds it as local and as result, one that shadows it and one that does not, two identifiers so that `CANCEL` can make a second, three frames: a closure made inside another captures the name and binds it twice; a shadowing call of a resident name (three cells, no fault) and a name bound twice (five cells, one fault) are two scenarios of one behaviour each |
| `BindingsProtected` | `ProtectedUnchanged` is violated | as above |
| `Session` | `NestingMatches`, `NoReplay`, `SourcesSurvive`, `CutsIndependent`, `SessionEnds` | eleven texts of up to eight tokens, two with refused statements before others on the same and on the next line and one with a malformed byte (left out of `CutsIndependent`), four handlers, two sessions one after the other, every cut of the text, replacement by another source; texts of up to four characters of every class, cut anywhere, for both callers of `tokenize`; an outer and an inner source of up to four characters, each of which may compile, read, leave or fault |
| `SessionLeak` | `GuardHasEnd` is violated when sources may be replaced | as above |
| `SplitsLine` | `CutsIndependent` is violated by texts the compiler refuses in the middle of a line | as above |
| `NativeAllocator` | `Partition`, refinement of `AbstractHeap` | seven words, chains for sizes one and two, bitmap words of three so that the arena ends inside one |
| `NativeStorage` | `ExtentsOwned`, `HandlesKept`, `ExhaustionHonest` | eight words, one name, one literal, three handles, two programs: storage runs out in every operation, before and after a collection, with garbage and without; and a child, its parent and a statement in sixteen words, where an instance outlives the function that made it and shares its program |
| `NativeClosures` | `RestoresCaller`, `ViewAgrees`, `LexicalView`, `CellsKept` | a parent with a formal and a local, a child that shadows the formal and shares the local; three frames, four cells, one instance, called inside its parent, after it returned, and under views left by abandoned calls; the same with historical bindings. The stack is its lowest cell only |
| `NativeCompiler` | `ConditionalsWellFormed`, `DefinitionsSound`, `MeaningIsKept` | three alphabets (conditionals, definitions, expressions) in every order up to a length that closes two nested constructs; conditionals with all four connectives and one nesting |
| `NativeParts` | `LedgerBalanced`, `NamesReachable`, `OvershootUnread`, `TextsDelivered` | fifteen words of frame store with callees whose peaks fall on each phase of the watched word; a second store with a limit on calls and its own ledger; names of which two collide and one is resident; texts of every class of byte cut anywhere |
| `Standalone` | `RetriesKept`, `TokensDelivered`, `ListsGrowOnly`, `PrintsTheValue`, `CodeRunsAsMeant`, `NumbersRight`, `DataKept`, `UpdatersKept` | four or five pairs, one supplier, two macros one after the other; every shape of two printed pairs; programs with each construct inside each other; integers of four bits beside reals of three digits; two strips, an array and its initializer; three functions made from three |
| `Machine` | `ArithmeticRight`, `WholesDoAsParts`, `EachFoundOnce`, `ImageReads`, `ImageActsAsNative`, `CallersRestored`, `DataRight`, `UpdatersStand` | every pair of words with four bits of mantissa; images of sixteen words that call, transfer and stop; an arena of five words; four names and two literals in four buckets with a call in progress; texts of up to five characters with a buffer of seven; two suppliers of two items, which walk and change lists themselves, five calls deep; words of five bits, components of none to four bits, four shapes of records, one class besides the standard ones, two objects and two assignments; a protected function, its updater and two functions made from what there is, with one assignment |

Fairness: `Session.cfg` assumes that the interpreter keeps running (`run` is a loop) and
that the host that is asked for input eventually feeds the rest of its text, as
`main.cpp` and the tests do. `PrintsTheValue` and `TextsDelivered` assume that the
printer's and the reader's own loops go on: weak fairness of `PrinterNext` and of
`ReaderNext`, which have no one to wait for once the input is there. Nothing else is
assumed fair.

`CHECK_DEADLOCK FALSE` appears where the bounded instance stops: handles used up, all
sessions done, the text read.

## Disagreements found

With a run that shows them:

* `for_setup` and `for_next` bypass protection. `docs/status.md` says loop assignment
  enforces it. (`BindingsProtected`)
* `feed` with another source while ERRFUN waits for input leaves `handling_error`
  set; the next session's first error does not reach ERRFUN. (`SessionLeak`)
* What is skipped after a compile error depends on how much of the line was fed.
  (`SplitsLine`)

Met while modelling, without a run of their own; the models do what the code does and
the properties exclude or describe the case:

* A `(` directly after a conditional takes the last load of its last arm as callee
  (`standalone/src/compiler.cpp`, about 287-300).
* `GOTO` out of a nested `FORALL` leaves `f.loops` pushed (`runtime.cpp` 552-575).
* E71 with an output control word before an input one repeats the output on each
  retry, and two input words lose a line on a retry. E71 clears register 16 before it
  throws, so one addressed through register 16 is retried at another address. An input
  line longer than the buffer loses its rest (`machine.cpp`, about 333).
* A generated routine whose STX rewrites one of its later instructions may fail half way.
* Comparisons whose difference underflows answer as if the operands were equal, and
  bits of unnormalised operands are lost in the processor's addition.
* The updater of `SUBSCR` on a string passes a surrogate code, clears the text and then
  throws in `encode`: the string is left truncated (`primitives.cpp`, about 160-173).
* `Machine::p16645` (`poplan.cpp:706`) reads a real number again from the line buffer.
  When the 126-character buffer fills inside the literal a shorter number is delivered;
  after it has filled a number directly behind another may be read as both; after an
  error in the line a stale spelling may be read. `docs/cpp-port-plan.md:294-296` calls
  the retained spelling authoritative. All readers share the buffer.
* `1$x` and `1$ ;`: an exponent mark without digits throws `NeedInput` although the next
  character is there (`standalone/src/value.cpp` 296-300), so everything fed after it is held
  until the end of the input, and fails then.
* What the interpreter drops after a compile error is the line of the next unread token
  (`runtime.cpp` 628-634). When the refused token is the last of its line, its own line is
  already read and the whole following line goes. `tests/session_test.cpp:172` demands that a
  diagnostic loses no following source, of a fault at run time, where it is so. `SourcesSurvive`
  names the line as an exclusion (`Overrun`), and its texts have operands on such a line.
* A supplier that faults while a source inside it is in the middle of a statement loses the
  rest of the host's line (`runtime.cpp` 621-633). What is dropped after invalid UTF-8
  depends on how much had been fed.
* A supplier of the image that reads the end of the list it is being asked for loses items
  (p21464-p21510 set no mark while they force); the standalone interpreter faults.
* The updater of `FROZVAL` in the image, given a whole strip, stores the value before it
  checks that it is a strip (p10656).
* `p20124` tests register 15 where it means 16; its early exit is harmless.
* The native reader and the image differ: `12.` and `1.$` are refused natively and are
  `12` and then `.` (or error 0300) in the image; bases `2:` and `8:` exist only in the
  image; after a thirteenth digit the image goes on behind it and the native reader
  discards the line.

## Proofs

`NativeAllocator_proofs` proves, for every arena, size limit and bitmap word that
satisfy `ArenaAssumption` and `SizesAssumption`:

* `TypeCorrect`: `Spec => []TypeOK`
* `PartitionHolds`: `Spec => []Partition`
* `HeapImplemented`: `Spec => ImplementsHeap`

The invariant is `Inv == TypeOK /\ Partition`. Neither part is inductive alone: a cut
keeps types only if the extent is at least as long as the request, and a partition is
kept by a push only if the pushed block is on no list. The proof has one lemma per
action. `FromChainInv` and `ReleaseInv` move a block between sets; `FromCommonInv` cuts
an extent in two (`SplitBlock`); `CollectInv` shows that the kept blocks and their gaps
divide the arena anew: gaps that share a word begin and end together (`GapsDisjoint`),
and the maximal run around a word no block keeps is a gap (`GapsCover`, by
`LeastNatural`). The refinement uses `Inv` to show that the block handed out lies in
a block that was not live.

`HybridParts_proofs` proves, for every capacity, limit and set of callees that satisfy
the assumptions of `NativeFrames`:

* `FramesTyped`: the store and its frames keep their types;
* `RenderedPhases`: the words below a frame are odd in number, so that of the four reads
  of a binding only two can fall on the watched word;
* `LedgerBalances`: the words in use are the sum of what the frames hold and never pass
  the watched word;
* `UnportedFull`: a call whose reads were not trapped fits exactly if what it keeps fits;
* `ReturnsFailLate`: a return fails only in a function whose first result precedes its
  first argument.

The invariant is `Inv == TypeOK /\ OddBase /\ CallsKnown /\ WithinStore` with a ledger:
there is a function `h` from depths to words that begins at the base, grows by what each
frame holds and ends at the words in use. The ledger replaces a sum over the frames,
which would be a recursion the provers cannot unfold. Every slot holds an even number of
words, so a base that is odd once is odd at every depth.

* `LedgerHolds`: all of these, as the run states them (`LedgerBalanced`), with the peak and
  the refusals;
* `OvershootsUnread`: a program that goes on has overshot the store only by the word that a
  rebuild does not read, or from a store that was exactly full.

`NativeStorage_proofs` proves, for every arena, every set of sources and all bounds that
satisfy `StorageAssumption`:

* `ExtentsAreOwned`: `Spec => []ExtentsOwned`
* `HandlesAreKept`: `Spec => []HandlesKept`
* `ExhaustionIsHonest`: `Spec => ExhaustionHonest`

from one invariant (`InvHolds`), the conjunction of

* `TablesTyped`: objects and programs are of their types;
* `BlocksOwned`: the allocator's own invariant and one owner for each block. The lemmas of
  `NativeAllocator_proofs` are used as they stand, through an instance;
* `ReferencesStand`: what execution (`ExecutionStands`) and the tables (`RecordsStand`)
  hold refers to handles that were handed out and not collected. `HandlesKept` speaks of
  what is reachable now; this speaks of every reference and so survives a step that makes
  something reachable;
* `ObjectsPlaced`: an object has its block and a function its program, except the one that
  is being made;
* `Underway`: what is left of the operation under way is the rest of placing one object, of
  naming one word or of building one program, whose remaining releases give back, once,
  nodes that were obtained, and whose remaining requests include the parts it lacks.
  Without it nothing says that the owner of the next request is the object whose record
  has no block;
* `Swept`: after the collection that an operation makes nothing is left that it could have
  freed. It is kept by the steps between the collection and the second failure, because
  these change nothing that `Reached` depends on; `ReachedIs` shows that a least closed set
  exists and `ReachedAgain` that it stays the same when roots and successors do.

TLC checks `Inv` on the two instances of the run before it was proved. There is one lemma
per action; those on tables (`With`, `Only`) say what the domain, the values and the type
of a changed table are.

`HybridParts_proofs` also proves `NamesAreReached`, `Spec => NamesReachable`, for every
resident table whose chains list its words once (`DictionaryAssumption`, which the run
evaluates on the table it uses). The invariant says that there is, for each bucket, a
sequence that lists its words and that the links follow (`Listed`). `Chain`, the walk that
`find` makes, is a recursive function; `Walk` characterises it, and the walk along links
that follow a sequence is that sequence (`WalkStep`). Calls save the class of a word with
its link in one half word each, so that what is restored must not be an old link: the
invariant needs that only classes of words are saved.

`Session_proofs` proves, for every text, nested text and `Handlers`: `SessionTyped`;
`NestingHolds` (`Spec => []NestingMatches`); `EffectsOnce` (`Spec => []NoReplay`); and `GuardEnds`, that `handling_error` is set
only while the continuation that clears it waits, where the host feeds one source to its
end (`~Strangers`) - the hypothesis that `SessionLeak` shows to be needed. The invariant
`TypeInv /\ Grounded /\ Quiet /\ Nested` counts the frames a source waits in, and adds that
the lowest frame is one of them and that without frames nothing is suspended: a reset
drops all frames at once and is harmless only because of these.

`NoReplay` says of the effects only that no token is among them twice. What makes it true is
that a token is in one place at a time. `Held` is all that keeps tokens: the host's text, the
input, the cell looked ahead, the statement being compiled, what each frame has still to
evaluate, the three of these that each suspended source keeps, and the effects. The invariant
adds to the one above

* `Apart`: no token is in two of these places, nor twice in one;
* `InnerLater`: no token of a nested text is anywhere as long as the operand it is nested in is.
  Without it nothing says that the tokens that `POPVAL` brings are new;
* `Numbered`, that the text's tokens are known by their places, since each session starts
  from the text again.

A step moves tokens in one of four ways, and there is a lemma for each: places are renamed and
may lose tokens (`Renamed`: a statement becomes a frame, a source is suspended or resumed, an
error goes back to the outermost source and skips a line), the first token of a place goes to
the end of another (`Moved`), a place is divided (`Divided`: the host feeds), or the tokens of a
place nobody holds arrive (`Arrived`, for which `PlaceLeft` shows that leaving the operand was
enough). A retried operation that had kept its token as well as taken it would break `Apart` at
once, long before its effect is repeated.

Of `ImageFunctions` it proves `UpdatersKeep` (`Spec => []UpdatersStand`) and
`StripsStayApart` for every set of frozen values. Each is inductive only with the other and
with `Placed`: the strip of a function is one of the strips, so that a new one is no one's.

`Bindings_proofs` proves, for all names, headers (of any length, with names repeated in any
way) and bounds that satisfy the assumptions of `Bindings`: `HandlesLive`
(`Spec => []NoHandleDangles`), `CallersGetBindingsBack` (`Spec => BindingsRestored`) and
`OnlyLoopsWriteProtected` (`Spec => ProtectedByAssignment`), all from `BindingsInvariant`.
The three properties speak of different tables; what ties them is who a cell is for. A cell
is claimed for an identifier by `active`, by the environment of a closure, by a frame (what
it installed and what it shadowed) or by a protection. The invariant adds to
`NoHandleDangles` and to `RestoresCaller` of the present frames:

* `HandedOut`, a claimed cell is below the counter, and `OneOwner`, it is claimed for one
  identifier: a closure or a shadowed binding cannot bring the protected cell of one word
  back as the cell of another, which `assign()`, that compares the cell of the identifier
  it was given, would then let through;
* `ShadowedBound`, what a frame shadowed is still bound, so that undoing it changes no
  domain and touching an identifier commutes with it; and `ResultsBound`, a return finds the
  cells of its results.

A call is the hard step: what it saves for a name bound twice is the cell it gave the name
the first time, and `RemainsFirst` shows that what is left after undoing is what was there
before. `RestoreAllIs` shows that `RestoreAll`, which takes for each identifier what the
outermost frame that shadowed it saved, gives what that frame was entered with: the views of
the frames are walked with the least and the greatest frame at which they differ, in place
of an induction. `CollectInv` needs that the marks are closed, not how they were found.

`NativeClosures_proofs` proves, for all bodies (formals, nesting and sharing in any way),
all bounds and both modes, that satisfy `BodiesAssumption`:

* `CallersAreRestored`: `Spec => []RestoresCaller`
* `ValuesAgree`: `Spec => []ViewAgrees`
* `EnvironmentsSeen`: `Spec => []LexicalView`
* `CellsStay`: `Spec => []CellsKept`

all from one invariant (`InvHolds`). Besides types, `Counted` (handles and cells are new when
they are given out) and `NoCells` (historically there are none) it has

* `OneWord`: there is an owner for every cell, the one word it is installed, saved or
  captured for. Were a cell shared by two words, the first to be written would change the
  value the second has and `ViewAgrees` would fail. A number used again after a call was
  abandoned would do this; an early form of `FailedCall` forgot that the code had counted
  it (poplan.cpp:2084), and it was this part that could not be proved for it;
* `Chained`: for each active call and the view in which the next one was made (or the
  present one), what was first saved of a word is what the word meant at the call; a word of
  which nothing was saved has its class and cell still; and the words of the environment
  have its cells. `RestoresCaller` says what replaying a whole stack of frames gives and is
  not inductive as such: a call disturbs all of its terms. `Chained` speaks of one frame at
  a time, and `ChainRestores` recovers the property;
* `Live`, which is `CellsLive` said of one cell or handle at a time. Writing the value a
  cell has and reading the cell back both need it: `cells_.at` would throw.

`Call` runs through `Steps` with a recursive function, `Progress`. What its steps keep is
stated of the k-th (`Midway`) and of where the call ends (`Settled`, `Recorded`), and holds
of every k because there is no least k of which it does not (`UpTo`). A word that is captured
and also a formal is saved twice: the second record holds the captured cell, and only the
first one says what the caller meant, which is why frames are replayed backwards. A call
that fails is a prefix of the same steps. `CollectKeeps` needs that the marks are closed and
hold the roots (`ClosedKeeps`), which the least closed sets do.

`NativeCompiler_proofs` proves, for every set of words, every alphabet and all bounds that
satisfy `AlphabetAssumption`, and so for every sequence of tokens:

* `ConditionalsStayWell`: `Spec => []ConditionalsWellFormed`
* `DefinitionsStaySound`: `Spec => []DefinitionsSound`

from one invariant (`InvHolds`), `Good` of what is being compiled with its bounds. None of the
parts of the two properties is inductive alone. `Good` adds

* `Remembers` and `Phased`: what a conditional remembers waits, and which of its four sets may
  hold anything depends on what of it is being compiled. `CLOSE` patches `falseBranch`,
  `falseTerms` and `exits` and throws the rest away: a branch of `OR` would be left without a
  target if `trueTerms` were not empty once the condition is behind. `ELSE` after `ELSE` is
  refused because there is nothing left to lead to a second false arm;
* `Program`: an operation that does not branch has no target, and there is a capture as far
  into the program as there are roots. The second says that the index of a root stays within
  the program. It and the first are why an operation may be taken back: `(` after a loaded
  word removes the load, which nothing leads to because it is no label (`TakenProgram`);
* `SetAside`: the programs around an inner function have all their branches linked, their
  roots held and their words in a scope of their own (`ScopeTo`). A function starts only
  between statements, outside conditionals, which makes it true;
* `WordsIn` of the names of pending calls also: a name leaves the code when `(` opens its
  arguments and comes back with `)`;
* `Defined`: the name of an inner function is a word of the definition around it, so that the
  store the `END` emits into the outer program is of a known word.

There is a lemma per kind of token, and lemmas on what tokens share: emitting, pushing,
draining the pending operators down to the innermost group (`NestedLoose` shows that no
conditional's group is among them), branching, patching (`PatchGood`) and giving a conditional
back another of its states (`ReseatGood`).

Only model-checked:

* liveness: `SessionEnds`, `PrintsTheValue`, `TextsDelivered`;
* what recursive definitions compute: evaluation of programs, printing, the token readers,
  the arithmetic of all three versions (`CodeRunsAsMeant`, `MeaningIsKept`, `NumbersRight`,
  `ArithmeticRight`, `ImageReads`);
* properties that compare two runs of the same program (`CutsIndependent`,
  `WholesDoAsParts`, `ImageActsAsNative`);
* those of `Lists` and `FunctionValues`, whose operators (the end of a list, what a call
  applies) are `RECURSIVE`, and of `Components`, where what an array holds is said by induction
  over its dimensions;
* `SourcesSurvive`: that every operand outside the excluded lines is reached by the end of the
  text is an argument over the whole of it, by induction on what is left to read.

## Not modelled

* Of `machine.cpp`: the routines of the image's compiler, printer and files and the
  dispatch table; disks (E70), clocks, elementary functions (E50); instructions on bits
  and exponents. The image's collector at 05523 is not in the repository's code.
* Standalone: the operation limit (`runtime.cpp:608`), `EQUAL`, `LISTREAD`, `APPLIST`; reals'
  arithmetic is the host's.
* The native scratch words that primitives of the image keep (03303, 03374, 15765) are
  not charged natively and not here. Calls of the image assume their arguments are there;
  its reader assumes that suppliers give characters and do not read tokens themselves;
  exponents out of range (0271) are left out.
* A collection or another entry between the image's search for a word and its entry: both are
  one routine call of the image here. What is printed of a list that changes meanwhile is not
  compared, only that printing ends and keeps the pairs it is inside. Arrays and records have
  a few components, so that faults of large shapes only are not seen.
* Files and streams, command lines, the console's tables, the POP-2 libraries.

## Plan

What remains, in this order:

1. Proofs: `UpdatersKept` of `FunctionValues`, as that of `ImageFunctions`, once its calls are
   written as a recursive function; of `Components`, that widths stay and faults change nothing.
2. More of the image: its words, its compiler and its printer.
3. `EQUAL` and `LISTREAD` in `Lists`.
