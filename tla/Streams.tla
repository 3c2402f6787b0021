------------------------------- MODULE Streams -------------------------------
(***************************************************************************)
(* Sources that functions of the program supply, character by character:   *)
(* COMPILE and CARRYON of the standalone interpreter (compile_stream and   *)
(* restore_source in runtime.cpp, @FEED, @SKIP and @NEXT in                *)
(* primitives.cpp).                                                        *)
(*                                                                         *)
(* The compiler asks for a token; when the source has none and has not     *)
(* ended, its supplier is called and its character fed.  The supplier may  *)
(* compile another source itself before it gives the character, or fault.  *)
(* A statement may read the same stream of characters the compiler reads.  *)
(*                                                                         *)
(* Characters are letters, which form words, and ";".  The statement C     *)
(* compiles the stream "outer", I the stream "inner", K and N are CARRYON  *)
(* of them, R reads a character of "outer", G is GOON and every other word *)
(* is an effect.  A stream may hold, before a character, "!" for a fault   *)
(* and "in" for COMPILE of the stream "inner".  The host's text is one     *)
(* line.                                                                   *)
(***************************************************************************)
EXTENDS Naturals, Sequences, TLC

CONSTANTS Texts,    \* host's text, outer and inner: records of sequences of characters
          Termin    \* a model value

VARIABLES at,       \* how much each stream has given
          source,   \* the current source
          sources,  \* those it interrupts
          frames, value, log

vars == <<at, source, sources, frames, value, log>>

VARIABLE text
Streams == {"outer", "inner"}
Letters == {"a", "C", "I", "K", "N", "R", "G", "E"}

\* The tokens that characters make; the last word is complete only at the end of the text.
Lexed(chars, eof) ==
  LET ends == {k \in DOMAIN chars : chars[k] = ";"}
      last == IF eof THEN Len(chars) ELSE IF ends = {} THEN 0 ELSE CHOOSE k \in ends : \A j \in ends : j <= k
      tokens[k \in 0 .. last] ==
        IF k = 0 THEN <<>>
        ELSE IF chars[k] = ";" THEN Append(tokens[k - 1], <<";">>)
        ELSE IF k > 1 /\ chars[k - 1] # ";" THEN [tokens[k - 1] EXCEPT ![Len(tokens[k - 1])] = Append(@, chars[k])]
        ELSE Append(tokens[k - 1], <<chars[k]>>)
  IN [tokens |-> tokens[last], rest |-> SubSeq(chars, last + 1, Len(chars))]

Host(chars) == [supplier |-> "", pending |-> <<>>, input |-> Lexed(chars, TRUE).tokens,
                eof |-> TRUE, parsing |-> FALSE, word |-> <<>>, nil |-> FALSE]

Stream(f) == [supplier |-> f, pending |-> <<>>, input |-> <<>>, eof |-> FALSE,
              parsing |-> FALSE, word |-> <<>>, nil |-> FALSE]

Init == /\ text \in Texts
        /\ at = [f \in Streams |-> 0] /\ source = Host(text.host) /\ sources = <<>>
        /\ frames = <<[is |-> "next"]>> /\ value = "" /\ log = <<>>

---------------------------------------------------------------------------
(* Frames *)

Top(kind) == frames # <<>> /\ frames[Len(frames)].is = kind
Lower == SubSeq(frames, 1, Len(frames) - 1)
Frame(kind) == [is |-> kind]
Supply(f) == [is |-> "supply", of |-> f]
Run(w) == [is |-> "run", word |-> w]

\* What read_physical_token finds.
Available == ~source.nil /\ source.input # <<>>
AtEnd == ~Available /\ (source.nil \/ source.eof)
Needed == ~Available /\ ~AtEnd

\* A frame that found no token runs again when a character has been fed (NeedInput in run).
Wanted == /\ Needed /\ (Top("next") \/ Top("skip"))
          /\ frames' = frames \o <<Frame("feed"), Supply(source.supplier)>>
          /\ UNCHANGED <<at, source, sources, value, log, text>>

\* Another source takes over (compile_stream).
Enter(f, below, skipping) ==
  /\ sources' = Append(sources, source) /\ source' = Stream(f)
  /\ frames' = Append(below, Frame(IF skipping THEN "skip" ELSE "next"))

\* A fault ends every source but the host's, and what was running; if a statement was being
\* compiled the rest of the host's line goes (run, unwind).
Fail == LET host == IF sources = <<>> THEN source ELSE sources[1]
        IN /\ source' = [host EXCEPT !.parsing = FALSE, !.word = <<>>,
                                     !.input = IF source.parsing THEN <<>> ELSE @]
           /\ sources' = <<>> /\ frames' = <<Frame("next")>> /\ log' = Append(log, <<"fault">>)
           /\ value' = ""

Failing == Fail /\ UNCHANGED <<at, text>>

---------------------------------------------------------------------------
(* @NEXT *)

\* The source has ended between statements: the one it interrupted goes on.
LeaveSource == /\ Top("next") /\ AtEnd /\ ~source.parsing
               /\ frames' = Lower
               /\ IF sources = <<>> THEN UNCHANGED <<source, sources>>
                  ELSE source' = sources[Len(sources)] /\ sources' = SubSeq(sources, 1, Len(sources) - 1)
               /\ UNCHANGED <<at, value, log, text>>

Token == Head(source.input)

\* The compiler takes a word, or separators before it.
Compile == /\ Top("next") /\ Available /\ (source.word = <<>> \/ Token # <<";">>)
           /\ source' = [source EXCEPT !.input = Tail(@), !.parsing = TRUE,
                                       !.word = IF Token = <<";">> THEN <<>> ELSE Token]
           /\ UNCHANGED <<at, sources, frames, value, log, text>>

\* A separator, or the end of the source, completes the statement; it runs and @NEXT is next.
RunStatement ==
  /\ Top("next") /\ source.parsing
  /\ \/ /\ Available /\ source.word # <<>> /\ Token = <<";">>
        /\ source' = [source EXCEPT !.input = Tail(@), !.parsing = FALSE, !.word = <<>>]
     \/ AtEnd /\ source' = [source EXCEPT !.parsing = FALSE, !.word = <<>>]
  /\ frames' = IF source.word = <<>> THEN frames ELSE Append(frames, Run(source.word))
  /\ UNCHANGED <<at, sources, value, log, text>>

\* CARRYON reads up to END, then @NEXT goes on (@SKIP).
Skip == /\ Top("skip")
        /\ \/ /\ Available /\ source' = [source EXCEPT !.input = Tail(@)]
              /\ frames' = IF Token = <<"E">> THEN Append(Lower, Frame("next")) ELSE frames
              /\ UNCHANGED <<at, sources, value, log, text>>
           \/ AtEnd /\ Failing

---------------------------------------------------------------------------
(* Statements *)

Statement == frames[Len(frames)].word

Compiles == <<"C">> :> "outer" @@ <<"I">> :> "inner"
Carries == <<"K">> :> "outer" @@ <<"N">> :> "inner"

Start == /\ Top("run") /\ Statement \in DOMAIN Compiles \cup DOMAIN Carries
         /\ IF Statement \in DOMAIN Compiles THEN Enter(Compiles[Statement], Lower, FALSE)
            ELSE Enter(Carries[Statement], Lower, TRUE)
         /\ UNCHANGED <<at, value, log, text>>

Effect == /\ Top("run") /\ Statement \notin DOMAIN Compiles \cup DOMAIN Carries \cup {<<"R">>, <<"G">>}
          /\ log' = Append(log, <<Statement, at>>) /\ frames' = Lower
          /\ UNCHANGED <<at, source, sources, value, text>>

ReadRaw == /\ Top("run") /\ Statement = <<"R">>
           /\ frames' = Lower \o <<Frame("note"), Supply("outer")>>
           /\ UNCHANGED <<at, source, sources, value, log, text>>

Note == /\ Top("note") /\ log' = Append(log, <<value>>) /\ frames' = Lower /\ value' = ""
        /\ UNCHANGED <<at, source, sources, text>>

\* GOON leaves a source inside another (@GOON).
Goon == /\ Top("run") /\ Statement = <<"G">>
        /\ source' = [source EXCEPT !.nil = IF sources = <<>> THEN @ ELSE TRUE] /\ frames' = Lower
        /\ UNCHANGED <<at, sources, value, log, text>>

---------------------------------------------------------------------------
(* Suppliers and @FEED *)

Of == frames[Len(frames)].of
Left == SubSeq(text[Of], at[Of] + 1, Len(text[Of]))
Special == Left # <<>> /\ Head(Left) \in {"!", "in"}
Advance == at' = [at EXCEPT ![Of] = @ + 1]

Give == /\ Top("supply") /\ ~Special
        /\ IF Left = <<>> THEN value' = Termin /\ UNCHANGED at ELSE value' = Head(Left) /\ Advance
        /\ frames' = Lower
        /\ UNCHANGED <<source, sources, log, text>>

SupplierCompiles == /\ Top("supply") /\ Left # <<>> /\ Head(Left) = "in" /\ Advance
                    /\ Enter("inner", frames, FALSE)
                    /\ UNCHANGED <<value, log, text>>

SupplierFaults == Top("supply") /\ Left # <<>> /\ Head(Left) = "!" /\ Advance /\ Fail /\ UNCHANGED text

\* TERMIN and ^ end the source; another character may complete tokens (@FEED, lex_available).
Feed == /\ Top("feed") /\ value # ""
        /\ LET eof == value \in {Termin, "^"}
               c == Lexed(IF eof THEN source.pending ELSE Append(source.pending, value), eof)
           IN source' = [source EXCEPT !.pending = c.rest, !.input = @ \o c.tokens, !.eof = eof,
                                       !.supplier = IF eof THEN "" ELSE @]
        /\ frames' = Lower /\ value' = ""
        /\ UNCHANGED <<at, sources, log, text>>

Next == \/ Wanted \/ LeaveSource \/ Compile \/ RunStatement \/ Skip
        \/ Start \/ Effect \/ ReadRaw \/ Note \/ Goon
        \/ Give \/ SupplierCompiles \/ SupplierFaults \/ Feed

Spec == Init /\ [][Next]_<<vars, text>>

---------------------------------------------------------------------------
(* What the text means: every source is read a statement at a time, and nothing past it *)

Finishes(r) == r.fault = ""

\* The next character of stream f, with what its supplier does before.
RECURSIVE Item(_, _), Word(_, _, _, _), Body(_, _, _), Sought(_, _, _), Does(_, _)
Item(f, r) ==
  IF r.at[f] = Len(text[f]) THEN [r EXCEPT !.char = Termin]
  ELSE LET c == text[f][r.at[f] + 1]
           on == [r EXCEPT !.at[f] = @ + 1, !.char = c]
       IN CASE c = "!" -> [on EXCEPT !.fault = "here"]
            [] c = "in" -> LET inner == Body("inner", on, FALSE)
                           IN IF Finishes(inner) THEN Item(f, inner) ELSE inner
            [] OTHER -> on

\* The next statement of a source: its word, and whether the source ends behind it.
Word(f, r, w, begun) ==
  LET i == Item(f, r)
  IN CASE i.fault = "here" -> [i EXCEPT !.fault = IF begun THEN "line" ELSE "statement"]
       [] i.fault # "" -> i
       [] i.char \in {Termin, "^"} -> [i EXCEPT !.word = w, !.ended = TRUE]
       [] i.char # ";" -> Word(f, i, Append(w, i.char), begun)
       [] w = <<>> -> Word(f, i, <<>>, TRUE)
       [] OTHER -> [i EXCEPT !.word = w, !.ended = FALSE]

\* All statements of a source up to its end or GOON.
Body(f, r, begun) ==
  LET s == Word(f, r, <<>>, begun)
      ended == s.ended
      done == IF Finishes(s) /\ s.word # <<>> THEN Does(s.word, s) ELSE s
  IN IF ~Finishes(done) \/ ended \/ s.word = <<"G">> THEN done ELSE Body(f, done, FALSE)

\* CARRYON: everything up to the word E is passed over.
Sought(f, r, w) ==
  LET i == Item(f, r)
  IN CASE i.fault = "here" -> [i EXCEPT !.fault = "statement"]
       [] i.fault # "" -> i
       [] i.char \in {Termin, "^"} -> IF w = <<"E">> THEN i ELSE [i EXCEPT !.fault = "statement"]
       [] i.char # ";" -> Sought(f, i, Append(w, i.char))
       [] w = <<"E">> -> Body(f, i, TRUE)
       [] OTHER -> Sought(f, i, <<>>)

Does(w, r) ==
  CASE w \in DOMAIN Compiles -> Body(Compiles[w], r, FALSE)
    [] w \in DOMAIN Carries -> Sought(Carries[w], r, <<>>)
    [] w = <<"R">> -> LET i == Item("outer", r)
                      IN CASE i.fault = "" -> [i EXCEPT !.log = Append(@, <<i.char>>)]
                           [] i.fault = "here" -> [i EXCEPT !.fault = "statement"]
                           [] OTHER -> i
    [] w = <<"G">> -> r
    [] OTHER -> [r EXCEPT !.log = Append(@, <<w, r.at>>)]

\* The host's statements; a fault ends the one, or with it the rest of the line.
Meaning ==
  LET words == SelectSeq(Lexed(text.host, TRUE).tokens, LAMBDA t : t # <<";">>)
      start == [at |-> [f \in Streams |-> 0], log |-> <<>>, fault |-> "", char |-> "", word |-> <<>>, ended |-> FALSE]
      after[k \in 0 .. Len(words)] ==
        IF k = 0 THEN start
        ELSE LET before == after[k - 1]
                 r == Does(words[k], before)
             IN IF before.fault = "line" THEN before
                ELSE IF Finishes(r) THEN r
                ELSE [r EXCEPT !.log = Append(@, <<"fault">>), !.fault = IF @ = "line" THEN @ ELSE ""]
  IN after[Len(words)].log

---------------------------------------------------------------------------
(* Property *)

\* A source is compiled and run as if its statements were read one at a time: each runs before
\* the supplier is asked for more than its separator, a source inside another, even one its
\* supplier compiles in the middle of a word, leaves the other where it was, and characters
\* past the end of a source stay with the supplier (compile_stream, restore_source, @FEED).
StreamsRead == frames = <<>> => log = Meaning
=============================================================================
