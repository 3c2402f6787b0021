------------------------------- MODULE Session -------------------------------
(***************************************************************************)
(* A source session of the standalone interpreter: feed() and resume(),    *)
(* the @NEXT loop that compiles and runs one statement at a time, nested   *)
(* sources (POPVAL), suspension for input, and recovery from errors        *)
(* through ERRFUN and SETPOP (standalone/src/runtime.cpp, primitives.cpp,  *)
(* compiler.cpp).                                                          *)
(*                                                                         *)
(* The text is a sequence of tokens [kind, line, id].  A statement is      *)
(*     operand (op operand)*  [;]                                          *)
(* and running it evaluates its operands from left to right:               *)
(*   value   has an effect, recorded in `out';                             *)
(*   error   faults;           reset   calls SETPOP;                       *)
(*   read    takes the next token of the source (ITEMREAD);                *)
(*   nested  compiles and runs the text `inner' (POPVAL);                    *)
(* `bad' is a malformed byte: no token, but a failure of the lexer.        *)
(***************************************************************************)
EXTENDS Naturals, Sequences, FiniteSets

CONSTANTS Scripts,     \* the texts: sequences of <<kind, line>>
          Inners,      \* the texts of nested sources: sequences of kinds
          Handlers,    \* what ERRFUN may do: returns, reads, faults, resets
          MaxSessions, \* bound on the sessions opened one after another
          Strangers    \* TRUE: the host may feed bytes of another source

Operands == {"value", "error", "reset", "read", "nested"}
Kinds == Operands \cup {"op", ";"}

ASSUME ScriptsAssumption == \A s \in Scripts : s \in Seq((Kinds \cup {"bad"}) \X Nat)
ASSUME InnersAssumption == \A s \in Inners : s \in Seq(Kinds \ {"nested"})
ASSUME HandlersAssumption == Handlers \subseteq {"returns", "reads", "faults", "resets"}
ASSUME BoundsAssumption == MaxSessions \in Nat /\ Strangers \in BOOLEAN

VARIABLES
  text,     \* the text of this run, what ERRFUN is bound to and what
  errfun,   \* POPVAL is given
  inner,
  unfed,    \* the part of the text the host still holds
  live,     \* session_active_
  sessions, \* sessions opened so far
  input,    \* lexed tokens from input_position on
  eof,      \* input_eof
  failure,  \* lex_failure_ is set
  ahead,    \* tokens forced into PROGLIST and not yet taken
  parser,   \* the compiler's state, <<>> when there is none
  sources,  \* the suspended source contexts
  frames,   \* the VM's frames, the running one last
  handling, \* handling_error
  out,      \* effects of this session: ids of evaluated operands and read tokens
  spoilt    \* ghost: the lines that an error, a reset or a malformed byte may cost a token

source == <<input, eof, failure, ahead, parser, sources>>
vars == <<text, errfun, inner, unfed, live, sessions, input, eof, failure, ahead,
          parser, sources, frames, handling, out, spoilt>>

\* A token is known by its place in the text and, from 1, in a text nested in an operand
\* there; a nested text nests no other.
Id == Nat \X Nat
Token == {t \in [kind : Kinds, line : Nat, id : Id] : t.kind = "nested" => t.id[2] = 0}

Tokens(script) == [i \in DOMAIN script |->
                     [kind |-> script[i][1], line |-> script[i][2], id |-> <<i, 0>>]]
\* The tokens of the text nested in operand t.
InnerTokens(t) == [i \in DOMAIN inner |->
                     [kind |-> inner[i], line |-> t.line, id |-> <<t.id[1], i>>]]

Top == frames[Len(frames)]
Below == SubSeq(frames, 1, Len(frames) - 1)
NextFrame == [does |-> "next", items |-> <<>>]
Run(items) == [does |-> "run", items |-> items]
Handler == [does |-> "handler", items |-> <<>>]
ErrorDone == [does |-> "errdone", items |-> <<>>]
Frame == [does : {"next", "run", "handler", "errdone"}, items : Seq(Token)]

NoParser == <<>>
Parser == {NoParser} \cup [at : {"start", "operand", "after"}, items : Seq(Token)]
Context == [input : Seq(Token), eof : BOOLEAN, failure : BOOLEAN, ahead : Seq(Token),
            parser : Parser]

\* Tokens, contexts and frames keep their shape, and only effects of the text come out.
TypeOK ==
  /\ unfed \in Seq({text[k] : k \in DOMAIN text}) /\ errfun \in Handlers /\ inner \in Inners
  /\ live \in BOOLEAN /\ eof \in BOOLEAN /\ failure \in BOOLEAN /\ handling \in BOOLEAN
  /\ sessions \in 0..MaxSessions
  /\ input \in Seq(Token) /\ ahead \in Seq(Token)
  /\ parser \in Parser /\ sources \in Seq(Context) /\ frames \in Seq(Frame)
  /\ out \in Seq(Id) /\ spoilt \in SUBSET Nat

Init ==
  /\ \E s \in Scripts : text = Tokens(s)
  /\ errfun \in Handlers /\ inner \in Inners
  /\ unfed = <<>> /\ live = FALSE /\ sessions = 0
  /\ input = <<>> /\ eof = TRUE /\ failure = FALSE /\ ahead = <<>>
  /\ parser = NoParser /\ sources = <<>> /\ frames = <<>>
  /\ handling = FALSE /\ out = <<>> /\ spoilt = {}

---------------------------------------------------------------------------
(* What the source still has to give *)

\* The running frame wants a token; @NEXT does until it has nothing to parse.
Reading == /\ frames # <<>>
           /\ \/ Top.does = "next"
              \/ Top.does = "run" /\ Top.items # <<>> /\ Head(Top.items).kind = "read"
              \/ Top.does = "handler" /\ errfun = "reads"

Ready == ahead # <<>>
AtEnd == ahead = <<>> /\ input = <<>> /\ eof /\ ~failure
Blocked == Reading /\ ahead = <<>> /\ input = <<>> /\ ~eof /\ ~failure

\* Mutation: the token stays in the input.
InputKept == input

InputLeft == Tail(input)

\* @PHYS and @FORCD: the next physical token becomes a cell of PROGLIST.
ForceToken ==
  /\ Reading /\ ahead = <<>> /\ input # <<>>
  /\ ahead' = <<Head(input)>>
  /\ input' = InputLeft
  /\ UNCHANGED <<text, errfun, inner, unfed, live, sessions, eof, failure, parser,
                 sources, frames, handling, out, spoilt>>

---------------------------------------------------------------------------
(* Errors *)

\* The context the session was in before any nested source.
Outermost ==
  IF sources = <<>> THEN [input |-> input, eof |-> eof, failure |-> failure, ahead |-> ahead]
  ELSE sources[1]

\* Mutation: everything that has been fed is skipped.
SkipRest(q) == <<>>

\* What is left of q behind the line its first token is on.
SkipLine(q) ==
  IF q = <<>> THEN q
  ELSE LET same == {n \in 1..Len(q) : \A k \in 1..n : q[k].line = q[1].line}
       IN SubSeq(q, Cardinality(same) + 1, Len(q))

\* Mutation: the rest of the line is skipped after every error.
SkippedAlways(rest) == SkipLine(rest)

\* Only an error of the compiler costs the rest of the line.
Skipped(rest) == IF parser # NoParser THEN SkipLine(rest) ELSE rest

\* Mutation: the nested source is not left.
AbandonInner(rest) ==
  /\ input' = rest
  /\ eof' = Outermost.eof
  /\ parser' = NoParser /\ ahead' = <<>> /\ UNCHANGED sources

\* unwind(false), parser.reset(), initialize_source(): back to the outermost
\* source, with nothing looked ahead.
Abandon(rest) ==
  /\ input' = rest
  /\ eof' = Outermost.eof
  /\ parser' = NoParser /\ sources' = <<>> /\ ahead' = <<>>

\* Mutation: an error inside ERRFUN calls ERRFUN again.
GuardIgnored == FALSE

\* An error while ERRFUN runs gets a direct diagnostic instead.
Guarded == handling

\* The lines of the statement that is being compiled.
Parsed == IF parser = NoParser THEN {} ELSE {parser.items[k].line : k \in DOMAIN parser.items}

\* The lines an error costs: those of the operands that were compiled and not
\* evaluated, and that of the token looked ahead, which initialize_source drops.
Pending ==
  Parsed
    \cup {t.line : t \in UNION {{frames[k].items[j] : j \in DOMAIN frames[k].items} : k \in DOMAIN frames}}
    \cup {Outermost.ahead[k].line : k \in DOMAIN Outermost.ahead}

\* The line a refused statement costs is that of the next token to be read: the
\* line after its own when the refused token was the last of it.
Overrun == IF parser # NoParser /\ ~Guarded /\ Outermost.input # <<>>
           THEN {Outermost.input[1].line} ELSE {}

\* A fault, lex being what is left of a lexer failure, line what it hit.
Fault(line, lex) ==
  /\ failure' = lex
  /\ spoilt' = spoilt \cup line \cup Pending \cup Overrun
  /\ IF Guarded
     THEN /\ Abandon(Outermost.input)
          /\ handling' = FALSE
          /\ frames' = <<NextFrame>>
     ELSE /\ Abandon(Skipped(Outermost.input))
          /\ handling' = TRUE
          /\ frames' = <<ErrorDone, Handler>>
  /\ UNCHANGED <<text, errfun, inner, unfed, live, sessions, out>>

\* handling_error after SETPOP.
GuardAfterReset == FALSE

\* SETPOP.
Reset ==
  /\ Abandon(Outermost.input)
  /\ failure' = Outermost.failure
  /\ spoilt' = spoilt \cup Pending
  /\ handling' = GuardAfterReset
  /\ frames' = <<NextFrame>>
  /\ UNCHANGED <<text, errfun, inner, unfed, live, sessions, out>>

\* The deferred failure of the lexer surfaces once its tokens are used up.
LexerFailure ==
  /\ Reading /\ ahead = <<>> /\ input = <<>> /\ failure
  /\ Fault({}, FALSE)

---------------------------------------------------------------------------
(* @NEXT: compile one statement *)

Compiling == frames # <<>> /\ Top.does = "next" /\ (Ready \/ AtEnd)

Parse(state) ==
  /\ parser' = state
  /\ UNCHANGED <<text, errfun, inner, unfed, live, sessions, input, eof, failure,
                 sources, frames, handling, out, spoilt>>

Take == ahead' = Tail(ahead)

Begin ==
  /\ Compiling /\ Ready /\ parser = NoParser
  /\ Parse([at |-> "start", items |-> <<>>])
  /\ UNCHANGED ahead

\* A separator before any statement is dropped.
Separator ==
  /\ Compiling /\ Ready /\ parser # NoParser
  /\ parser.at = "start" /\ Head(ahead).kind = ";"
  /\ Parse(parser) /\ Take

Operand ==
  /\ Compiling /\ Ready /\ parser # NoParser
  /\ parser.at \in {"start", "operand"} /\ Head(ahead).kind \in Operands
  /\ Parse([at |-> "after", items |-> Append(parser.items, Head(ahead))])
  /\ Take

Operator ==
  /\ Compiling /\ Ready /\ parser # NoParser
  /\ parser.at = "after" /\ Head(ahead).kind = "op"
  /\ Parse([parser EXCEPT !.at = "operand"]) /\ Take

\* primary() takes the token it cannot use, or finds the text has ended.
SyntaxError ==
  /\ Compiling /\ parser # NoParser
  /\ \/ /\ Ready
        /\ \/ parser.at = "start" /\ Head(ahead).kind = "op"
           \/ parser.at = "operand" /\ Head(ahead).kind \in {"op", ";"}
        /\ Fault({Head(ahead).line}, Outermost.failure)
     \/ AtEnd /\ parser.at = "operand" /\ Fault({}, Outermost.failure)

\* statement_tail(): a separator is taken, any other token is left.
Rest == IF Ready /\ Head(ahead).kind = ";" THEN Tail(ahead) ELSE ahead

\* The statement is complete: run it, then come back for the next.
Complete ==
  /\ Compiling /\ parser # NoParser
  /\ parser.at = "after" /\ (Ready => Head(ahead).kind # "op")
  /\ ahead' = Rest
  /\ parser' = NoParser
  /\ frames' = Append(frames, Run(parser.items))
  /\ UNCHANGED <<text, errfun, inner, unfed, live, sessions, input, eof, failure,
                 sources, handling, out, spoilt>>

\* Separators up to the end of the text: no statement.
Nothing ==
  /\ Compiling /\ AtEnd /\ parser # NoParser /\ parser.at = "start"
  /\ Parse(NoParser) /\ UNCHANGED ahead

\* The end of a source returns to the one it was nested in, if any.
EndOfSource ==
  /\ Compiling /\ AtEnd /\ parser = NoParser
  /\ frames' = Below
  /\ IF sources = <<>>
     THEN UNCHANGED source
     ELSE LET s == sources[Len(sources)]
          IN /\ input' = s.input /\ eof' = s.eof /\ failure' = s.failure
             /\ ahead' = s.ahead /\ parser' = s.parser
             /\ sources' = SubSeq(sources, 1, Len(sources) - 1)
  /\ UNCHANGED <<text, errfun, inner, unfed, live, sessions, handling, out, spoilt>>

---------------------------------------------------------------------------
(* Running a statement *)

Running(kind) == /\ frames # <<>> /\ Top.does = "run" /\ Top.items # <<>>
                 /\ Head(Top.items).kind = kind
Advanced == Append(Below, Run(Tail(Top.items)))

Evaluate ==
  /\ Running("value")
  /\ out' = Append(out, Head(Top.items).id)
  /\ frames' = Advanced
  /\ UNCHANGED <<text, errfun, inner, unfed, live, sessions, source, handling, spoilt>>

ReadItem ==
  /\ Running("read") /\ (Ready \/ AtEnd)
  /\ ahead' = IF Ready THEN Tail(ahead) ELSE ahead
  /\ out' = IF Ready THEN Append(out, Head(ahead).id) ELSE out
  /\ frames' = Advanced
  /\ UNCHANGED <<text, errfun, inner, unfed, live, sessions, input, eof, failure,
                 parser, sources, handling, spoilt>>

Error == Running("error") /\ Fault({}, Outermost.failure)
SetPop == Running("reset") /\ Reset

Saved == [input |-> input, eof |-> eof, failure |-> failure, ahead |-> ahead,
          parser |-> parser]

\* compile_tokens(): the whole nested text is on PROGLIST at once.
Nest ==
  /\ Running("nested")
  /\ sources' = Append(sources, Saved)
  /\ input' = <<>> /\ eof' = TRUE /\ failure' = FALSE /\ parser' = NoParser
  /\ ahead' = InnerTokens(Head(Top.items))
  /\ frames' = Append(Advanced, NextFrame)
  /\ UNCHANGED <<text, errfun, inner, unfed, live, sessions, handling, out, spoilt>>

\* The frame of a finished statement; its @NEXT continuation is below.
Leave ==
  /\ frames # <<>> /\ Top.does = "run" /\ Top.items = <<>>
  /\ frames' = Below
  /\ UNCHANGED <<text, errfun, inner, unfed, live, sessions, source, handling, out, spoilt>>

---------------------------------------------------------------------------
(* ERRFUN and what follows it *)

HandlerReturns ==
  /\ frames # <<>> /\ Top.does = "handler" /\ errfun = "returns"
  /\ frames' = Below
  /\ UNCHANGED <<text, errfun, inner, unfed, live, sessions, source, handling, out, spoilt>>

HandlerReads ==
  /\ frames # <<>> /\ Top.does = "handler" /\ errfun = "reads" /\ (Ready \/ AtEnd)
  /\ ahead' = IF Ready THEN Tail(ahead) ELSE ahead
  /\ out' = IF Ready THEN Append(out, Head(ahead).id) ELSE out
  /\ frames' = Below
  /\ UNCHANGED <<text, errfun, inner, unfed, live, sessions, input, eof, failure,
                 parser, sources, handling, spoilt>>

HandlerFaults == /\ frames # <<>> /\ Top.does = "handler" /\ errfun = "faults"
                 /\ Fault({}, Outermost.failure)
HandlerResets == /\ frames # <<>> /\ Top.does = "handler" /\ errfun = "resets"
                 /\ Reset

\* @ERRDN: the standard source again, and the next statement.
Recovered ==
  /\ frames # <<>> /\ Top.does = "errdone"
  /\ handling' = FALSE
  /\ ahead' = <<>>
  /\ frames' = Append(Below, NextFrame)
  /\ UNCHANGED <<text, errfun, inner, unfed, live, sessions, input, eof, failure,
                 parser, sources, out, spoilt>>

---------------------------------------------------------------------------
(* The host *)

\* lex_available(): the tokens of a chunk up to a malformed byte, which
\* discards the rest of the chunk.
Bad(chunk) == {k \in DOMAIN chunk : chunk[k].kind = "bad"}

Lexed(chunk) == IF Bad(chunk) = {} THEN chunk
                ELSE SubSeq(chunk, 1, (CHOOSE k \in Bad(chunk) : \A j \in Bad(chunk) : k <= j) - 1)

\* The lines that lose tokens to a malformed byte before them in their chunk.
Discarded(chunk) == {chunk[k].line : k \in {j \in DOMAIN chunk : \E b \in Bad(chunk) : b <= j}}

\* The host feeds the next n tokens; `final' says they are the last.
Chunk(rest, n, final) ==
  /\ n <= Len(rest) /\ (final => n = Len(rest))
  /\ unfed' = SubSeq(rest, n + 1, Len(rest))
  /\ eof' = final
  /\ failure' = (Bad(SubSeq(rest, 1, n)) # {})

Open(n, final) ==
  /\ ~live /\ frames = <<>> /\ sessions < MaxSessions
  /\ Chunk(text, n, final)
  /\ input' = Lexed(SubSeq(text, 1, n))
  /\ live' = TRUE /\ sessions' = sessions + 1
  /\ ahead' = <<>> /\ parser' = NoParser
  /\ frames' = <<NextFrame>>
  /\ out' = <<>> /\ spoilt' = Discarded(SubSeq(text, 1, n))
  /\ UNCHANGED <<text, errfun, inner, sources, handling>>

\* feed() returns only at need_input, so that is when it is called again.
Feed(n, final) ==
  /\ live /\ Blocked
  /\ Chunk(unfed, n, final) /\ (n = 0 => final)
  /\ input' = Lexed(SubSeq(unfed, 1, n))
  /\ spoilt' = spoilt \cup Discarded(SubSeq(unfed, 1, n))
  /\ UNCHANGED <<text, errfun, inner, live, sessions, ahead, parser, sources, frames,
                 handling, out>>

\* feed() of another source: the session is torn down, with a diagnostic.
Stranger ==
  /\ Strangers /\ live /\ Blocked
  /\ live' = FALSE /\ frames' = <<>>
  /\ Abandon(Outermost.input)
  /\ failure' = Outermost.failure
  /\ spoilt' = spoilt \cup Pending
  /\ UNCHANGED <<text, errfun, inner, unfed, sessions, handling, out>>

\* resume(): run() has emptied the frames.
Finish ==
  /\ live /\ frames = <<>>
  /\ live' = FALSE
  /\ UNCHANGED <<text, errfun, inner, unfed, sessions, source, frames, handling, out, spoilt>>

---------------------------------------------------------------------------
VM == \/ ForceToken \/ LexerFailure
      \/ Begin \/ Separator \/ Operand \/ Operator \/ SyntaxError
      \/ Complete \/ Nothing \/ EndOfSource
      \/ Evaluate \/ ReadItem \/ Error \/ SetPop \/ Nest \/ Leave
      \/ HandlerReturns \/ HandlerReads \/ HandlerFaults \/ HandlerResets \/ Recovered
      \/ Finish

Host == \/ \E n \in 0..Len(text), final \in BOOLEAN : Open(n, final)
        \/ \E n \in 0..Len(unfed), final \in BOOLEAN : Feed(n, final)
        \/ Stranger

Next == VM \/ Host

Spec == Init /\ [][Next]_vars

\* The VM keeps running, and the host feeds on to the end of its text.
Fairness == /\ WF_vars(VM)
            /\ WF_vars(\E n \in 0..Len(unfed), final \in BOOLEAN : Feed(n, final))
FairSpec == Spec /\ Fairness

---------------------------------------------------------------------------
(* Properties *)

Occurs(id) == \E k \in DOMAIN out : out[k] = id

\* A retry after a suspension repeats no effect and reads no token twice
\* (run: NeedInput and NeedList put the operation back).
NoReplay == \A j, k \in DOMAIN out : out[j] = out[k] => j = k

\* Every source suspended by POPVAL waits under exactly one parser, and ERRFUN
\* runs on the outermost source (compile_tokens, restore_source, unwind).
NestingMatches ==
  frames # <<>> =>
    Len(sources) + 1 = Cardinality({k \in DOMAIN frames : frames[k].does \in {"next", "errdone"}})

\* Of a text fed to its end, a line is seen through: by the end of the session each
\* of its operands was evaluated or was taken by ITEMREAD.  Four kinds of line are
\* excluded, all in `spoilt': one with a statement cut short by an error, SETPOP or
\* another source (Pending, and the token refused); one looked ahead when that happened (Pending);
\* the one that the next unread token is on when a statement is refused, which may
\* be the whole line after it (Overrun); and what is behind a malformed byte in its
\* chunk (Discarded).  A refused statement costs no line beyond these, and an error
\* while running none but its own ones (session_test.cpp: "lost following source").
LinesSurvive ==
  ~live /\ sessions > 0 /\ unfed = <<>> =>
    \A k \in DOMAIN text : text[k].kind = "value" /\ text[k].line \notin spoilt
                             => Occurs(text[k].id)

\* handling_error is set only while the continuation that clears it is
\* waiting, so a new error reaches ERRFUN unless ERRFUN itself made it.
GuardHasEnd == handling => \E k \in DOMAIN frames : frames[k].does = "errdone"

\* A session whose text is fed to the end ends, even if ERRFUN faults, resets
\* or reads the source itself.
SessionEnds == live ~> ~live
=============================================================================
