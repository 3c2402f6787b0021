------------------------------ MODULE MCStandalone ------------------------------
(* Lists and macros, the printer, the compiler's code, the numbers, the objects  *)
(* with components and the function values of the standalone interpreter, each   *)
(* on its own, in one run: they share no state here, so a behaviour is of one    *)
(* part and the others rest.                                                     *)
EXTENDS Meaning, FiniteSets

CONSTANTS Nil, None, Phys, Termin, Giver, Atom,          \* model values
          RefX, RefY, NumX, NumY

VARIABLES part,
          cell, args, calls, list, proglist, nextch,                \* Lists
          fed, next, eof, expansion, pending, made, steps, got, faulted,
          pair, values, tasks, consumer, changes, out,              \* Printer
          operands, primitive, results,                             \* Values
          objects, making, written, broke,                          \* Components
          functions, content, born,                                 \* FunctionValues
          done                                                      \* both

\* Lists of the program: two variables, a function that supplies items, PROGLIST rebound.
Dynamic == INSTANCE Lists WITH
  NIL <- Nil, NONE <- None, PHYS <- Phys, TERMIN <- Termin,
  Suppliers <- {Giver}, Names <- {"x", "y"}, MacroTokens <- {}, Rebinding <- TRUE,
  MaxCells <- 6, MaxSteps <- 4, MaxTokens <- 2, MaxMade <- 2, stack <- args, frames <- calls

\* The source: four tokens, the second and third of which name macros; a variable looks ahead.
Source == INSTANCE Lists WITH
  NIL <- Nil, NONE <- None, PHYS <- Phys, TERMIN <- Termin,
  Suppliers <- {}, Names <- {"x"}, MacroTokens <- {2, 3}, Rebinding <- FALSE,
  MaxCells <- 8, MaxSteps <- 5, MaxTokens <- 4, MaxMade <- 2, stack <- args, frames <- calls

\* Two pairs in every shape: shared, cyclic, improper or dynamic.
Parts == {Atom, 1, 2, Nil}
Pairs == {[front |-> x, back |-> y] : x, y \in Parts} \cup {[front |-> 1, back |-> Giver]}

Printer == INSTANCE Printer WITH
  NIL <- Nil, F <- Giver, Items <- {Atom}, Heaps <- Pairs \X Pairs,
  Printed <- {<<1>>, <<2, Atom>>}, MaxPairs <- 3, MaxChanges <- 1, MaxTexts <- 30, pair <- pair, frames <- tasks

\* Integers of four bits and reals of two: more digits in an integer than in a real.
Numeric == INSTANCE Values WITH Width <- 4, Digits <- 2, Exponents <- 0 .. 4

\* Strips and records of one bit, a string and arrays, some of whose bounds are in no order.
Data == INSTANCE Components WITH
  Values <- {-1, 1, 3, Atom}, Integers_ <- {-1, 0, 1, 3}, Encodable <- {1}, Unpaired <- 3,
  Records <- {<<0, 1>>}, Strips <- {1}, Sizes <- {1, 2},
  BoundsLists <- {<<<<1, 2>>>>, <<<<-2, 2>>>>, <<<<2, 1>>>>,
                  <<<<0, 1>>, <<1, 2>>>>, <<<<1, 2>>, <<-1, 1>>>>},
  MaxTotal <- 5, MaxInteger <- 4, MaxObjects <- 3, MaxSteps <- 6, fault <- broke, steps <- done

Functions_ == INSTANCE FunctionValues WITH
  Refs <- {RefX, RefY}, Numbers <- {NumX, NumY}, Own <- <<RefX, NumX>>,
  MaxFunctions <- 8, MaxSteps <- 3, MaxCalls <- 6, steps <- done

---------------------------------------------------------------------------
(* Programs *)

Num(n) == [is |-> "number", n |-> n]
Nam(x) == [is |-> "name", name |-> x]
Bin(o, l, r) == [is |-> "binary", op |-> o, left |-> l, right |-> r]
Neg(e) == [is |-> "neg", of |-> e]
Paren(b) == [is |-> "paren", body |-> b]
Lst(b) == [is |-> "list", body |-> b]
Cal(f, b) == [is |-> "call", of |-> f, body |-> b]
Dot(e, f) == [is |-> "dot", of |-> e, name |-> f]
If(c, j, b, o) == [is |-> "if", tests |-> c, joins |-> j, body |-> b, other |-> o]
IfElse(c, j, b, o) == [is |-> "ifelse", tests |-> c, joins |-> j, body |-> b, other |-> o]
Exit(c, j, b) == [is |-> "exit", tests |-> c, joins |-> j, body |-> b]
Loop(c, b) == [is |-> "while", tests |-> c, joins |-> <<>>, body |-> b]
Forall(x, r, b) == [is |-> "for", name |-> x, range |-> r, body |-> b]
Rep(b, c, j) == [is |-> "repeat", body |-> b, tests |-> c, joins |-> j]
Set(e, x) == [is |-> "set", of |-> e, name |-> x]
Upd(e, b) == [is |-> "update", of |-> e, body |-> b]
Pri(e) == [is |-> "print", of |-> e]
Return == [is |-> "return"]

X == Nam("x")
Y == Nam("y")
SumUp == Set(Bin("+", Y, X), "y")
Decrease == Set(Bin("-", X, Num(1)), "x")

Simple == {Num(3), X, Paren(<<X>>), Cal(Nam("g"), <<X>>), Neg(X),
           Paren(<<Bin("-", Num(5), X)>>), Dot(X, "g")}
Product == Bin("*", X, Num(7))
Left == Simple \cup {Bin(o, l, r) : o \in {"-", "*"}, l \in {X, Num(3)}, r \in {X, Num(4)}}
Operations == {Bin("-", l, r) : l \in Left, r \in Simple \cup {Product}}
              \cup {Bin("*", l, r) : l \in Simple \cup {Product}, r \in Simple}

Truths == {<<Num(i), Num(j), Num(k)>> : i, j, k \in {0, 1}}
Ifs == {If(t, <<j, k>>, <<Num(7)>>, <<Num(8)>>) : t \in Truths, j, k \in {"AND", "OR"}}
       \cup {IfElse(<<t, u>>, <<j>>, <<X>>, If(<<Y>>, <<>>, <<Num(6)>>, o)) :
               t \in {Num(0), X}, u \in {Num(0), Y}, j \in {"AND", "OR"}, o \in {<<>>, <<Num(9)>>}}

Choice(c) == If(<<c>>, <<>>, <<Nam("g")>>, <<>>)
Calls == {Cal(Nam("f"), <<e, b>>) :
            e \in Simple, b \in {Y, Paren(<<Set(Num(4), "x"), X>>), Lst(<<X, Num(2)>>)}}
         \cup {Cal(Paren(<<Choice(c), Num(5), Paren(<<Nam("f")>>)>>), <<X, Num(1)>>) :
                 c \in {Num(0), Num(1), X}}

Loops ==
  {Loop(<<X>>, <<Decrease, b>>) :
     b \in {SumUp, Exit(<<Y>>, <<>>, <<Num(5)>>), Num(4),
            If(<<X, Num(0)>>, <<"OR">>, <<Return>>, <<>>)}}
  \cup {Forall("x", <<Num(1), s, l>>, <<b>>) :
          s \in {Num(1), Num(2)}, l \in {Num(3), Num(0)},
          b \in {SumUp, Forall("y", <<Num(2), Num(1), X>>, <<Y>>),
                 Exit(<<Num(0), X>>, <<"AND">>, <<X>>), Lst(<<X, Return>>)}}
  \cup {Paren(<<Rep(<<Decrease, Num(1)>>, t, <<"OR">>)>>) : t \in {<<X, Y>>, <<Num(0), X>>}}

Downward == {<<Set(Neg(Num(1)), "y"), Forall("x", <<Num(3), Y, l>>, <<X, Return>>),
               Forall("x", <<Num(3), Y, l>>, <<X>>), Pri(Paren(<<X>>))>> : l \in {Num(1), Num(4)}}

MCPrograms ==
  Downward \cup
  {<<s, Pri(Paren(<<X, Y>>))>> :
     s \in {Set(e, "y") : e \in Operations} \cup Ifs \cup Calls \cup Loops
           \cup {Upd(e, <<X, Num(2)>>) : e \in {X, Bin("*", X, X)}} \cup {Pri(i) : i \in Ifs}}

---------------------------------------------------------------------------
lists == <<cell, args, calls, list, proglist, nextch, fed, next, eof, expansion, pending, made,
           steps, got, faulted>>
printer == <<pair, values, tasks, consumer, changes, out>>
program_ == <<vars, program>>
numbers == <<operands, primitive, results>>
data == <<objects, making, written, broke>>
fns == <<functions, content, born>>
others == <<lists, printer, program_, numbers>>
all == <<part, others, data, fns, done>>

PartsInit ==
  /\ part \in {"lists", "source", "printer", "code", "values", "data", "functions"}
  /\ IF part = "source" THEN Source!Init ELSE Dynamic!Init
  /\ Printer!Init
  /\ part # "printer" => values = <<1>> /\ consumer /\ pair[1].front = Atom /\ pair[2].front = Atom
                         /\ pair[1].back = Atom /\ pair[2].back = Atom
  /\ Numeric!Init
  /\ part # "values" => operands[1] = Numeric!Whole(0) /\ operands[2] = Numeric!Whole(0)
  /\ Data!Init /\ Functions_!Init
  /\ MeaningInit
  /\ part # "code" => program = <<Set(Bin("-", X, X), "y"), Pri(Paren(<<X, Y>>))>>

PrinterNext == part = "printer" /\ Printer!Next /\ UNCHANGED <<part, lists, program_, numbers, data, fns, done>>
CodeNext == part = "code" /\ MeaningNext /\ UNCHANGED <<part, lists, printer, numbers, data, fns, done>>

\* Only a program that has run to its end may stop: any other is a deadlock.
Over == (part = "code" => Finished) /\ UNCHANGED all

PartsNext == \/ part = "lists" /\ Dynamic!Next /\ UNCHANGED <<part, printer, program_, numbers, data, fns, done>>
             \/ part = "source" /\ Source!Next /\ UNCHANGED <<part, printer, program_, numbers, data, fns, done>>
             \/ part = "values" /\ Numeric!Next /\ UNCHANGED <<part, lists, printer, program_, data, fns, done>>
             \/ part = "data" /\ Data!Next /\ UNCHANGED <<part, others, fns>>
             \/ part = "functions" /\ Functions_!Next /\ UNCHANGED <<part, others, data>>
             \/ PrinterNext \/ CodeNext \/ Over

\* run() goes on by itself while it prints.
PartsSpec == PartsInit /\ [][PartsNext]_all /\ WF_all(PrinterNext)

---------------------------------------------------------------------------
(* Properties: those of the modules, for the part they are about *)

\* A suspended primitive and the pair it waits for find each other again, or a fault has
\* dropped both (force_list, unwind, NeedList in Runtime::call).
RetriesKept == part \in {"lists", "source"} => Source!ForcingHasEnd /\ Source!ArgumentsKept

\* Lists only grow at their ends; a token taken is all that disappears from them
\* (empty_list, @FORCD, read_token).
ListsGrowOnly == [][/\ part = "lists" => Dynamic!GrowsOnly
                   /\ part = "source" => Source!GrowsOnly]_all

\* Tokens are delivered once and in order through lookahead and macros (read_token, @PHYS,
\* @IMAC, macro_done).
TokensDelivered == part = "source" => Source!TokensDelivered

\* The printer writes what the structure of the values says, and printing ends whatever suppliers
\* and consumers change (next_print, print_step, `visiting').
PrintsTheValue == /\ [](part = "printer" => Printer!PrintsTheValue)
                  /\ part = "printer" => Printer!PrintingEnds

\* A program leaves what its structure says (compiler.cpp, Runtime::run).
CodeRunsAsMeant == part = "code" => CodeMeans

\* Components are read where they were written and fit their width, through constructors,
\* selectors, copies, initializers and new bounds (Runtime::invoke: @SINIT, @SGET, @FIELD,
\* @ASET, @ARRIN, BOUNDSLIST), and a primitive that faults changes no object but a string.
DataKept == /\ [](part = "data" => Data!ArraysAgree /\ Data!WidthsKept)
            /\ Data!FaultsChangeNothing

\* The update of a partial application stays what it was when that was made (partial()).
UpdatersKept == part = "functions" => Functions_!UpdatersKept

\* Integer arithmetic is exact or faults, and numbers compare as their exact values do
\* (value.cpp, the numeric primitives).
NumbersRight == part = "values" => Numeric!ValuesRight
=============================================================================
