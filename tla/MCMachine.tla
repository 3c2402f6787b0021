------------------------------- MODULE MCMachine -------------------------------
(* The numbers of words, the processor, and the storage, the words, the reader, the lists, *)
(* the strips and records, and the functions of the original image, each on its own, in   *)
(* one run: a behaviour is of one part and the others rest.                               *)
EXTENDS Processor, ImageFunctions, TLC

VARIABLES part,
          left, right, operation, result,                          \* NativeNumbers
          cells, request, status, freeing, node, live, lost,       \* ImageStorage
          heads, records, search, found, values, stack, acc,       \* ImageWords
          staged, current, link, needed, frames,
          text, reader, mode, item, items,                         \* ImageScanner
          pairs, static, tasks, answer, known, started, done, supplied, reentered,  \* ImageLists
          classes, objects, memory, stores, meant                  \* ImageData

\* Mantissas of four bits and exponents of four.
Words == INSTANCE NativeNumbers WITH M <- 4, E <- 4, Exponents <- {0, 2, 5, 8, 10, 11}

\* Lists of their own for sizes 1 and 2, blocks of which also make a function, and two words
\* of the collector's bitmap.
Storage == INSTANCE ImageStorage WITH
  First <- 4, Limit <- 9, SmallLimit <- 3, BitmapWord <- 4, FunctionWords <- 2, memory <- cells

Binding(w, c, a, r) == [word |-> w, class |-> c, argument |-> a, result |-> r]
Callee(e, b, z, i) == [environment |-> e, bindings |-> b, frozen |-> z, inner |-> i]
Keyed(names, literals) == [t \in {"names", "literals"} |-> IF t = "names" THEN names ELSE literals]

\* One resident word has a chain of its own, and one shares a word of the table.
MCBucket == ("hd" :> 0) @@ ("tl" :> 2) @@ ("x" :> 0) @@ ("y" :> 1) @@ ("1" :> 2) @@ ("2" :> 3)
MCResident == (1 :> "hd") @@ (2 :> "tl")

\* Names and literals are entered while a call has exchanged the class of a word.
Entering == INSTANCE ImageWords WITH
  Keys <- Keyed({"hd", "tl", "x", "y"}, {"1", "2"}), Bucket <- MCBucket, Resident <- MCResident,
  Arena <- 3 .. 6, Functions <- "f" :> Callee(TRUE, <<Binding(1, "function", FALSE, FALSE)>>, <<>>, ""),
  Data <- {}, True <- "1", False <- "undef", Sites <- {"s"}, MaxFrames <- 1, MaxValues <- 1

\* Calls that bind two words in either order, one that binds none and one with a frozen value.
MCFunctions ==
  ("f" :> Callee(TRUE, <<Binding(1, "variable", TRUE, FALSE), Binding(2, "function", FALSE, TRUE)>>, <<>>, ""))
  @@ ("g" :> Callee(TRUE, <<Binding(2, "variable", TRUE, TRUE), Binding(1, "variable", TRUE, FALSE)>>, <<>>, ""))
  @@ ("=" :> Callee(FALSE, <<>>, <<>>, "")) @@ ("p" :> Callee(TRUE, <<>>, <<"1">>, "f"))

Calling == INSTANCE ImageWords WITH
  Keys <- Keyed({"hd", "tl"}, {}), Bucket <- MCBucket, Resident <- MCResident, Arena <- {},
  Functions <- MCFunctions, Data <- {"1"}, True <- "1", False <- "undef",
  Sites <- {"s"}, MaxFrames <- 2, MaxValues <- 2

\* Short texts of every class the native reader shares, numbers with everything that may go on
\* with them, marks and strings, and numbers where the buffer ends.
Strings(n, S) == [1 .. n -> S]
Behind(s, T) == {s \o t : t \in T}
ImageTexts ==
  UNION {Strings(n, {"a", "1", "+", ".", "$", "(", " ", "nl"}) : n \in 0 .. 3}
  \cup Strings(5, {"1", ".", "$", "+"}) \cup Strings(4, {"1", ".", "nl", "a"})
  \cup Behind(<<"nl">>, Strings(4, {"1", "2", "8", ":", "."}))
  \cup Strings(3, {"(", "%", ")", "_", "#", "'", "a"}) \cup Behind(<<"'">>, Strings(4, {"'", "a"}))
  \cup Behind(<<"a", "a", " ", " ">>, Strings(4, {"1", "."}))

Reading == INSTANCE ImageScanner WITH
  Texts <- ImageTexts, Room <- 7, NameLength <- 3, MaxDigits <- 3, BinaryDigits <- 2, OctalDigits <- 1

\* Two suppliers, whose functions may read the lists they supply.
Listing == INSTANCE ImageLists WITH
  Suppliers <- {101, 102}, MaxItems <- 2, MaxStarted <- 2, MaxDepth <- 5

\* Words of five bits, and fields that fill a word or leave some of its bits.
NoCount == -1
Structures == INSTANCE ImageData WITH
  WordBits <- 5, Widest <- 4, CharBits <- 2, Given <- {NoCount, 1, 2}, Filling <- {NoCount, 6},
  Junk <- {21}, StripSizes <- {NoCount, 0, 1, 3, 5}, Counts <- {NoCount, 0, 1, 3},
  RecordSizes <- {<<>>, <<3, 4, 1, 0>>, <<0, 2, 2>>, <<1, NoCount>>},
  MaxClasses <- 3, MaxObjects <- 2, MaxStores <- 2

\* A protected function and its updater, and two more made from what there is.
MCFrozen == {<<"data", 0>>}

---------------------------------------------------------------------------
(* Memories: an image that calls a compiled routine, twice transfers input, and stops *)

I(op, reg, address) == [op |-> op, reg |-> reg, address |-> address]
Idle == I("UTC", 0, 0)

Image(call, after) ==
  [a \in 0 .. 15 |->
     CASE a = 1 -> Code(I("VTM", Base, 8), I("ITA", 0, Base))
       [] a = 2 -> Code(call, I("VJM", Link, 16))
       [] a = 3 -> Code(I("XTS", 0, 14), after)
       [] a = 4 -> Code(I("VTM", Base, 8), Idle)
       [] a = 5 -> Code(I("E71", Base, 1), Idle)
       [] a = 6 -> Code(I("E75", 0, 12), I("UZA", 0, 7))
       [] a = 7 -> Code(I("E74", 0, 0), Idle)
       [] a = 8 -> Ready
       [] a = 9 -> Control("in", 13, 1, FALSE)
       [] a = 10 -> Control("out", 13, 1, TRUE)
       [] a = 11 -> Control("console", 13, 1, TRUE)
       [] a = 12 -> Number(1)
       [] a = 14 -> Number(17)
       [] a = 15 -> Number(4)
       [] OTHER -> Number(0)]

\* Where a compiled routine's first words are.
Compiled(h) ==
  [a \in 16 .. 31 |->
     CASE a = 16 -> Code(h[1], h[2])
       [] a = 17 -> Code(h[3], h[4])
       [] a = 18 -> Code(I("UJ", Link, 0), Idle)
       [] OTHER -> Number(0)]

Halves == {I("UTC", 0, 1), I("XTS", Base, 4), I("STX", 0, 14), I("VTM", Base, 10),
           I("E71", 0, 8), I("WTC", 0, 12), I("UJ", Link, 0)}

MCMemories ==
  {[a \in 0 .. 31 |-> IF a < 16 THEN Image(c, I("UJ", 0, 4))[a] ELSE Compiled(h)[a]] :
     c \in {I("XTA", 0, 14), I("ATX", Stack, 0)}, h \in [1 .. 4 -> Halves]}
  \cup {[a \in 0 .. 31 |->
          IF a < 16 THEN Image(c, u)[a]
          ELSE Compiled(<<I("UTC", 0, 1), I("E71", 0, 8), I("XTS", Base, 4), I("UJ", Link, 0)>>)[a]] :
          c \in {I("ITS", 0, Base), I("STI", 0, Extra), I("ATI", 0, Base), I("MTJ", Stack, Base),
                 I("J+M", Base, Base), I("UTM", Base, 1), I("WTC", 0, 12), I("XTA", Stack, 0),
                 I("STI", 0, Stack)},
          u \in {I("VLM", Base, 4), I("V1M", Base, 4), I("VZM", 0, 4), I("U1A", 0, 4),
                 I("E67", 0, 15), I("STOP", 0, 0)}}

MCLines == {<<>>, <<<<"a", "b">>>>, <<<<"a">>, <<"c", "b">>, <<>>>>}

---------------------------------------------------------------------------
numbers == <<left, right, operation, result>>
storage == <<cells, request, status, freeing, node, live, lost>>
words == <<heads, records, search, found, values, stack, acc, staged, current, link, needed, frames>>
scanner == <<text, reader, mode, item, items>>
lists == <<pairs, static, tasks, answer, known, started, done, supplied, reentered>>
structures == <<classes, objects, memory, stores, meant>>
others == <<lists, structures, functional>>
all == <<part, numbers, storage, words, scanner, others, vars>>

RestingNumbers == left = Words!Zero /\ right = Words!Zero /\ operation = "" /\ result = Words!Zero
RestingProcessor == typed = <<>> /\ machine = Booted([a \in 0 .. 31 |-> Number(0)]) /\ plain = machine

PartsInit ==
  /\ part \in {"numbers", "processor", "storage", "entering", "calling", "reading", "lists", "data", "functions"}
  /\ IF part = "numbers" THEN Words!Init ELSE RestingNumbers
  /\ IF part = "processor" THEN Init ELSE RestingProcessor
  /\ Storage!Init
  /\ IF part = "calling" THEN Calling!Init ELSE Entering!Init
  /\ text \in IF part = "reading" THEN ImageTexts ELSE {<<>>}
  /\ Reading!Init /\ Listing!Init /\ Structures!DataInit /\ FunctionsInit

\* The processor stops, faults, or waits at the end of its input; storage is exhausted; the
\* text is read; the bounds on lists and functions are reached.
Over == \/ part \in {"numbers", "storage", "entering", "reading", "lists", "data", "functions"}
        \/ part = "processor" /\ \/ machine.status \in {"halted", "fault"}
                                 \/ machine.status = "input" /\ typed = <<>>

PartsNext ==
  \/ part = "numbers" /\ Words!Next /\ UNCHANGED <<part, storage, words, scanner, others, vars>>
  \/ part = "processor" /\ Next /\ UNCHANGED <<part, numbers, storage, words, scanner, others>>
  \/ part = "storage" /\ Storage!Next /\ UNCHANGED <<part, numbers, words, scanner, others, vars>>
  \/ part = "entering" /\ Entering!Next /\ UNCHANGED <<part, numbers, storage, scanner, others, vars>>
  \/ part = "calling" /\ Calling!Next /\ UNCHANGED <<part, numbers, storage, scanner, others, vars>>
  \/ part = "reading" /\ Reading!Next /\ UNCHANGED <<part, numbers, storage, words, others, vars>>
  \/ part = "lists" /\ Listing!Next /\ UNCHANGED <<part, numbers, storage, words, scanner, structures, functional, vars>>
  \/ part = "data" /\ Structures!DataNext /\ UNCHANGED <<part, numbers, storage, words, scanner, lists, functional, vars>>
  \/ part = "functions" /\ FunctionsNext /\ UNCHANGED <<part, numbers, storage, words, scanner, lists, structures, vars>>
  \/ Over /\ UNCHANGED all

PartsSpec == PartsInit /\ [][PartsNext]_all

---------------------------------------------------------------------------
(* Properties: those of the modules, for the part they are about *)

\* Integer results are exact or diagnosed, real ones within a unit of their last place, and
\* comparisons agree with the exact values (NumericScratch, native_number_*); the routines of
\* the image give the same (p06712, p06623-p06660).
ArithmeticRight == part = "numbers" => Words!NumbersRight

\* Whole routines and retried transfers do what single instructions do with all the input
\* at hand (Machine::step, execute_generated_routine, emulate_e71, run_image_shell).
WholesDoAsParts == part = "processor" => WholesAgree

\* The image takes, releases and collects the blocks that the native allocator does, from lists
\* in the same order, gives up where it does, and COREUSED counts no block in use as free
\* (p05447, p03506-p03534, p10402).
ImageActsAsNative ==
  /\ [][part = "storage" => Storage!NativeStep]_all
  /\ [](part = "storage" => Storage!WaitsAsNative /\ Storage!CoreIsUsed)

\* Each name and each literal has one record, found by its key, whatever is entered in the
\* other half of the word or while classes are exchanged (p01107-p01167, p03206-p03260).
EachFoundOnce == part = "entering" => Entering!EachFoundOnce

\* A return gives the caller its words, its place and its stack back, and calls and moved
\* arguments need the words of the stack that the native frame store charges (p02750-p03261,
\* p15765, p20110, p20124).
CallersRestored == [][part = "calling" => Calling!Restoring /\ Calling!Charging]_all

\* The image's token reader loses no character, gives real numbers the value they are spelled
\* with, and delivers the tokens that the native reader does (p16341-p16747, p16645).
ImageReads == part = "reading" => Reading!NothingLost /\ Reading!RealsAsRead /\ Reading!ReadsAsNative

\* A copy, a joined and a mapped list have the elements of the list they were made from, each
\* supplied once, and lists only change by being forced, even if the functions called walk lists
\* themselves (p21464-p21516, p21125-p21170, p12125-p12156, p11432).  The components of strips
\* and records have what was last stored in them and do not overlap (p11102-p11757).
DataRight == /\ [](part = "lists" => Listing!ListsRight)
             /\ [][part = "lists" => Listing!Unaltered]_all
             /\ [](part = "data" => Structures!DataHolds)
=============================================================================
