------------------------------ MODULE MCSession ------------------------------
(* The session fed by a host, the two sessions of Splits, the reading of tokens and the *)
(* sources that functions supply, in one run: a behaviour is of one of them and the     *)
(* others rest.                                                                         *)
EXTENDS Splits, TLC

CONSTANTS
  Termin,  \* a model value
  Costly   \* scripts where what is lost depends on what is fed, see SplitsLine

VARIABLES
  harness,
  piece,                                        \* a text for Lexer or for Streams
  by, fed, pending, closed, kept, events,       \* Lexer
  at, now, interrupted, running, value, noted  \* Streams

\* Statements that end in a separator; one line may hold several; the last
\* ones are refused by the compiler where the text ends.
MCEven == {
  <<<<"value", 1>>, <<";", 1>>, <<"error", 2>>, <<";", 2>>, <<"value", 3>>, <<";", 3>>>>,
  <<<<"read", 1>>, <<"op", 1>>, <<"value", 1>>, <<";", 1>>, <<"value", 2>>, <<"value", 3>>>>,
  <<<<"nested", 1>>, <<"op", 1>>, <<"value", 1>>, <<"value", 2>>, <<"reset", 3>>, <<";", 3>>,
    <<"value", 4>>>>,
  <<<<";", 1>>, <<"value", 1>>, <<";", 1>>, <<"error", 2>>, <<";", 2>>, <<"bad", 3>>>>,
  <<<<"value", 1>>, <<"op", 1>>, <<"nested", 1>>, <<";", 1>>, <<"error", 2>>, <<";", 2>>,
    <<"value", 3>>, <<";", 3>>>>,
  <<<<"value", 1>>, <<";", 1>>, <<"op", 2>>>>,
  <<<<"value", 1>>, <<";", 1>>, <<"value", 2>>, <<"op", 2>>, <<";", 2>>>>,
  <<<<"value", 1>>, <<";", 1>>, <<"value", 2>>, <<"op", 2>>>>}
MCHandlers == {"returns", "reads", "faults", "resets"}
MCInners == {<<"value", ";", "read", ";">>, <<"read", ";", "value", "error">>}

\* Statements the compiler refuses, with statements behind them: on the same line, on the
\* line after the one whose last token is refused, and on lines after that one.
MCWrong == {
  <<<<"value", 1>>, <<"op", 1>>, <<";", 1>>, <<"value", 2>>, <<";", 2>>, <<"value", 3>>>>,
  <<<<"op", 1>>, <<"value", 1>>, <<";", 1>>, <<"value", 2>>, <<"op", 2>>>>}

\* An operand between a malformed byte and the end of its line, and one on the next.
MCMalformed == {<<<<"value", 1>>, <<"bad", 1>>, <<"value", 1>>, <<";", 1>>, <<"value", 2>>, <<";", 2>>>>}

MCScripts == MCEven \cup MCWrong \cup MCMalformed
MCCostly == MCWrong \cup MCMalformed

\* Short texts of every class of characters, with numbers, quotes, comments, bytes and signs.
Short(n, A) == UNION {[1 .. k -> A] : k \in 0 .. n}
Pieces == Short(4, {"1", "2", ".", "$", "-", ":", "a"}) \cup Short(4, {"'", "\"", "a", " ", "nl"})
         \cup Short(4, {"C", ";", "a", " "}) \cup Short(4, {"lead", "cont", "bad", "a", " "})
         \cup Short(3, {"-", ">", "=", "/", "%", "(", ")"}) \cup Short(3, {"_", "a", "nl", "'"})

Cut == INSTANCE Lexer WITH Texts <- Pieces, text <- piece

\* The host compiles or searches an outer stream, whose statements or whose supplier compile
\* an inner one, read characters past the statement, end early, leave or fault.
Outer == Short(3, {"a", "R", ";", "^", "!", "in"}) \cup Short(4, {"a", ";", "in", "E"})
         \cup {<<x, ";">> \o s : x \in {"C", "I", "K", "N", "G"}, s \in Short(2, {"a", ";", "^", "R"})}
Inner == {<<>>, <<"a", ";">>, <<";", "!">>, <<"E", ";", "R", ";", "G", ";">>, <<"I", ";", "a">>}
Supplied == [host : {<<"C", ";", "a", ";">>, <<"K", ";", "C", ";", "a">>}, outer : Outer, inner : Inner]

Nested == INSTANCE Streams WITH
  Texts <- Supplied, text <- piece, source <- now, sources <- interrupted, frames <- running, log <- noted

---------------------------------------------------------------------------
tokens == <<by, fed, pending, closed, kept, events>>
streams == <<at, now, interrupted, running, value, noted>>
all == <<vars, whole, harness, piece, tokens, streams>>

\* A host that feeds anything at any time, the two sessions of Splits, and the others.
HarnessInit ==
  /\ harness \in {"free", "splits", "lexing", "streams"}
  /\ SplitsInit
  /\ harness \in {"lexing", "streams"} =>
       /\ text = Tokens(CHOOSE t \in Scripts : TRUE)
       /\ errfun = "returns" /\ inner = CHOOSE t \in Inners : TRUE
  /\ piece \in CASE harness = "lexing" -> Pieces [] harness = "streams" -> Supplied [] OTHER -> {<<>>}
  /\ IF harness = "lexing" THEN Cut!Init
     ELSE by = "" /\ fed = 0 /\ pending = <<>> /\ closed = FALSE /\ kept = <<>> /\ events = <<>>
  /\ IF harness = "streams" THEN Nested!Init
     ELSE at = 0 /\ now = 0 /\ interrupted = <<>> /\ running = <<>> /\ value = "" /\ noted = <<>>

HarnessNext ==
  /\ UNCHANGED harness
  /\ \/ harness = "free" /\ Next /\ UNCHANGED <<whole, piece, tokens, streams>>
     \/ harness = "splits" /\ SplitsNext /\ UNCHANGED <<piece, tokens, streams>>
     \/ harness = "lexing" /\ Cut!Next /\ UNCHANGED <<vars, whole, streams>>
     \/ harness = "streams" /\ Nested!Next /\ UNCHANGED <<vars, whole, tokens>>

HarnessSpec == HarnessInit /\ [][HarnessNext]_all

FairHarness == HarnessSpec /\ Fairness

---------------------------------------------------------------------------
(* Properties: what holds of one harness only *)

\* Lines after a diagnostic are seen through, but for the line that is skipped after a refused
\* statement and the other exclusions of LinesSurvive; sources inside each other are read each
\* as its statements say (compile, the end of a statement; compile_stream, restore_source, @FEED).
SourcesSurvive == /\ harness \in {"free", "splits"} => LinesSurvive
                  /\ harness = "streams" => Nested!StreamsRead

\* Wherever the text is cut, it has the same effects and the same tokens, of which none is
\* held without need (lex_available, tokenize, @READ, NeedInput).  Excluded are the texts of
\* Costly: what follows a refused statement or a malformed byte is dropped as far as it is fed.
CutsIndependent == /\ harness = "splits" /\ text \notin {Tokens(s) : s \in Costly} => SplitIndependence
                   /\ harness = "lexing" => Cut!Reading
=============================================================================
