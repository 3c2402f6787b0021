-------------------------------- MODULE Lexer --------------------------------
(***************************************************************************)
(* Reading tokens in the standalone interpreter: tokenize in value.cpp,    *)
(* and the two callers that give it a text piece by piece.  lex_available  *)
(* (runtime.cpp) takes tokens off the bytes a host has fed; the readers    *)
(* INCHARITEM makes (@READ, @RCHAR in primitives.cpp) take them off the    *)
(* characters a supplier has delivered.  Both call tokenize again from the *)
(* start of what is left whenever there is more of it.                     *)
(*                                                                         *)
(* A character stands for its class; "C" is a word of its own, COMMENT,    *)
(* and "lead", "cont" are the two bytes of a letter "Z".  What a session   *)
(* does with tokens is in Session; there every failure is taken at once,   *)
(* as here.                                                                *)
(***************************************************************************)
EXTENDS Naturals, Sequences

CONSTANT Texts  \* sequences of bytes

LOCAL INSTANCE SequencesExt
LOCAL INSTANCE FiniteSetsExt

Digits == {"1", "2"}
Letters == {"a", "C", "Z"}
Blanks == {" ", "nl"}
WordCharacters == Letters \cup {"_"}
Pairs == {<<"-", ">">>, <<"=", ">">>, <<"=", "<">>, <<">", "=">>, <<"/", "=">>, <<"/", "/">>,
          <<":", ":">>, <<"<", ">">>, <<"(", "%">>, <<"%", ")">>}
Waiting == {"-", "=", "<", ">", "/", ":", "(", "%", "."}

---------------------------------------------------------------------------
(* tokenize: the first token of the characters c *)

At(c, p, S) == p <= Len(c) /\ c[p] \in S

\* The first position from p on that holds none of S, past the end if all do.
Beyond(c, p, S) == Min({q \in p .. Len(c) : c[q] \notin S} \cup {IF p > Len(c) THEN p ELSE Len(c) + 1})

Token(kind, c, p, q) == [result |-> "token", token |-> [kind |-> kind, text |-> SubSeq(c, p, q - 1)], next |-> q]
Need == [result |-> "need"]
Unfinished(eof, why) == IF eof THEN [result |-> "fault", why |-> why] ELSE Need

\* A token that more characters could lengthen.
Growing(kind, c, p, q, eof) == IF q > Len(c) /\ ~eof THEN Need ELSE Token(kind, c, p, q)

Underscored(c, p, eof) ==
  IF p = Len(c) THEN Unfinished(eof, "underscore") ELSE Token("number", c, p, p + 2)

\* Where a quoted text that begins at p is closed, or 0; a doubled ' stands for itself.
Closing(c, p, eof) ==
  LET closed[q \in p .. Len(c) + 1] ==
        CASE q > Len(c) -> 0
          [] c[q] # c[p] -> closed[q + 1]
          [] c[p] = "'" /\ q = Len(c) /\ ~eof -> 0
          [] c[p] = "'" /\ At(c, q + 1, {"'"}) -> closed[q + 2]
          [] OTHER -> q
  IN closed[p + 1]

Quoted(c, p, eof) ==
  LET q == Closing(c, p, eof)
  IN IF q = 0 THEN Unfinished(eof, "quote")
     ELSE Token(IF c[p] = "'" THEN "string" ELSE "quoted", c, p, q + 1)

Number(c, p, eof) ==
  LET whole == Beyond(c, p, Digits)
      based == Beyond(c, whole + 1, Digits)
      real == IF At(c, whole, {"."}) /\ At(c, whole + 1, Digits) THEN Beyond(c, whole + 1, Digits) ELSE whole
      signed == IF At(c, real + 1, {"-"}) THEN real + 2 ELSE real + 1
      scaled == Beyond(c, signed, Digits)
  IN CASE At(c, whole, {":"}) /\ SubSeq(c, p, whole - 1) = <<"2">> -> Growing("number", c, p, based, eof)
       [] ~eof /\ whole = Len(c) /\ c[whole] = "." -> Need
       [] ~At(c, real, {"$"}) -> Growing("number", c, p, real, eof)
       [] scaled = signed -> Unfinished(eof, "exponent")
       [] OTHER -> Growing("number", c, p, scaled, eof)

Symbol(c, p, eof) ==
  IF ~eof /\ p = Len(c) /\ c[p] \in Waiting THEN Need
  ELSE Token("symbol", c, p, IF p < Len(c) /\ <<c[p], c[p + 1]>> \in Pairs THEN p + 2 ELSE p + 1)

Scan(c, eof) ==
  LET scan[p \in 1 .. Len(c) + 1] ==
        CASE p > Len(c) -> [result |-> "end"]
          [] c[p] \in Blanks -> scan[p + 1]
          [] c[p] = "_" -> Underscored(c, p, eof)
          [] c[p] \in {"'", "\""} -> Quoted(c, p, eof)
          [] c[p] \in Digits \/ (c[p] = "." /\ At(c, p + 1, Digits)) -> Number(c, p, eof)
          [] c[p] \in Letters ->
               LET q == Beyond(c, p, WordCharacters \cup Digits)
                   closed == {k \in q .. Len(c) : c[k] = ";"}
               IN IF q > Len(c) /\ ~eof THEN Need
                  ELSE IF SubSeq(c, p, q - 1) # <<"C">> THEN Token("word", c, p, q)
                  ELSE IF closed # {} THEN scan[Min(closed) + 1]
                  ELSE IF eof THEN scan[Len(c) + 1] ELSE Need
          [] OTHER -> Symbol(c, p, eof)
  IN scan[1]

---------------------------------------------------------------------------
(* decode: the characters of bytes up to the first that is wrong or incomplete *)

Decoded(b) ==
  LET decoded[k \in 1 .. Len(b) + 1] ==
        CASE k > Len(b) -> [chars |-> <<>>, error |-> ""]
          [] b[k] = "lead" /\ k = Len(b) -> [chars |-> <<>>, error |-> "truncated"]
          [] b[k] = "lead" /\ b[k + 1] = "cont" ->
               [chars |-> <<"Z">> \o decoded[k + 2].chars, error |-> decoded[k + 2].error]
          [] b[k] \in {"lead", "cont", "bad"} -> [chars |-> <<>>, error |-> "invalid"]
          [] OTHER -> [chars |-> <<b[k]>> \o decoded[k + 1].chars, error |-> decoded[k + 1].error]
  IN decoded[1]

\* How many bytes the first n characters took.
Width(chars, n) == n + Cardinality({k \in 1 .. n : chars[k] = "Z"})

\* lex_available on the bytes that are pending: the events for the program, tokens and at most
\* one failure, and the bytes that stay pending.
Lexed(bytes, eof) ==
  LET lexed[k \in 1 .. Len(bytes) + 1] ==
        LET rest == SubSeq(bytes, k, Len(bytes))
            d == Decoded(rest)
            hopeless == d.error = "invalid" \/ (d.error = "truncated" /\ eof)
            s == Scan(d.chars, eof /\ d.error = "")
            on(n) == lexed[k + Width(d.chars, n)]
            fails(why) == [events |-> <<[kind |-> "failure", text |-> why]>>, pending |-> <<>>]
        IN CASE rest = <<>> -> [events |-> <<>>, pending |-> <<>>]
             [] s.result = "fault" -> fails(s.why)
             [] s.result = "token" ->
                  [events |-> <<s.token>> \o on(s.next - 1).events, pending |-> on(s.next - 1).pending]
             [] s.result = "end" /\ d.chars # <<>> -> on(Len(d.chars))
             [] OTHER -> IF hopeless THEN fails(d.error) ELSE [events |-> <<>>, pending |-> rest]
  IN lexed[1]

---------------------------------------------------------------------------
VARIABLES by,       \* who reads: the session or an item reader
          text,     \* what there is to read
          fed,      \* how much of it was fed or supplied
          pending,  \* pending_, or the buffer of the reader
          closed,   \* input_eof, or TERMIN has come
          kept,     \* the reader's items that wait to be given
          events    \* what the program has got

vars == <<by, text, fed, pending, closed, kept, events>>

Init == /\ by \in {"session", "reader"} /\ text \in Texts
        /\ by = "reader" => \A k \in DOMAIN text : text[k] \notin {"lead", "cont", "bad"}
        /\ fed = 0 /\ pending = <<>> /\ closed = FALSE /\ kept = <<>> /\ events = <<>>

\* The host feeds more bytes, the last of them perhaps with eof (feed).
Feed(n, eof) ==
  /\ by = "session" /\ ~closed /\ fed + n <= Len(text) /\ (eof => fed + n = Len(text))
  /\ fed' = fed + n /\ closed' = eof
  /\ LET l == Lexed(pending \o SubSeq(text, fed + 1, fed + n), eof)
     IN pending' = l.pending /\ events' = events \o l.events
  /\ UNCHANGED <<by, text, kept>>

Ended == events # <<>> /\ events[Len(events)].kind \in {"termin", "failure"}

Give(e) == events' = Append(events, e)

\* A call of the reader: an item it kept, or the next token of its buffer (@READ).
Mark == [kind |-> "word", text |-> <<"\"">>]
GiveKept == /\ by = "reader" /\ kept # <<>>
            /\ Give(Head(kept)) /\ kept' = Tail(kept)
            /\ UNCHANGED <<by, text, fed, pending, closed>>

Read == /\ by = "reader" /\ ~Ended /\ kept = <<>>
        /\ LET s == Scan(pending, closed) IN
           \/ /\ s.result = "token"
              /\ pending' = SubSeq(pending, s.next, Len(pending))
              /\ IF s.token.kind = "quoted"
                 THEN Give(Mark) /\ kept' = <<[s.token EXCEPT !.kind = "word"], Mark>>
                 ELSE Give(s.token) /\ kept' = kept
           \/ /\ s.result = "end" /\ closed
              /\ Give([kind |-> "termin", text |-> <<>>]) /\ UNCHANGED <<pending, kept>>
           \/ /\ s.result = "fault"
              /\ Give([kind |-> "failure", text |-> s.why]) /\ UNCHANGED <<pending, kept>>
        /\ UNCHANGED <<by, text, fed, closed>>

\* The buffer has no token: the supplier is called and its character added (@RCHAR).
Supply == /\ by = "reader" /\ kept = <<>> /\ ~closed /\ Scan(pending, FALSE).result \in {"need", "end"}
          /\ IF fed = Len(text) THEN closed' = TRUE /\ UNCHANGED <<fed, pending>>
             ELSE fed' = fed + 1 /\ pending' = Append(pending, text[fed + 1]) /\ closed' = closed
          /\ UNCHANGED <<by, text, kept, events>>

Next == \/ \E n \in 0 .. Len(text), eof \in BOOLEAN : Feed(n, eof)
        \/ GiveKept \/ Read \/ Supply

Spec == Init /\ [][Next]_vars

---------------------------------------------------------------------------
(* Properties *)

Whole == Lexed(text, TRUE).events

UpToFailure(es) ==
  LET f == {k \in DOMAIN es : es[k].kind = "failure"} IN IF f = {} THEN es ELSE SubSeq(es, 1, Min(f))

\* However a text is cut, inside a token, a character or a comment, the session gets the tokens
\* of the whole text, up to the first failure and that failure (lex_available).
PiecesRead ==
  by = "session" => IF closed THEN UpToFailure(events) = UpToFailure(Whole)
                    ELSE IsPrefix(UpToFailure(events), UpToFailure(Whole))

\* What a reader makes of a token: a quoted word comes with its marks.
Items(es) == FlattenSeq([k \in DOMAIN es |->
               IF es[k].kind = "quoted" THEN <<Mark, [es[k] EXCEPT !.kind = "word"], Mark>> ELSE <<es[k]>>])

\* A reader over the same characters gives the items of the same tokens, then TERMIN, or the
\* same failure (@READ).
ReaderAgrees ==
  by = "reader" =>
    LET got == IF Ended /\ events[Len(events)].kind = "termin" THEN Front(events) ELSE events
    IN /\ IsPrefix(got \o kept, Items(Whole))
       /\ Ended => got = Items(Whole)

\* Continuations of which two at least make different first tokens of a text that is not complete.
Continuations == {<<>>, <<" ">>, <<"1">>, <<">">>, <<"%">>, <<"<">>, <<"/">>, <<":">>, <<")">>, <<"=">>, <<"'">>, <<"\"">>,
                  <<";", "a">>, <<";", "1">>}

\* An exponent mark with no digits behind it: the token can only fail, but does so at the end
\* of the input.
NoExponent(c) == LET s == Scan(Append(c, "1"), TRUE) IN s.result = "fault" /\ s.why = "exponent"

\* A token is held back only while what follows could change it: a statement that ends runs
\* before the host or the supplier is asked for more (tokenize).
HeldForCause ==
  LET c == IF by = "session" THEN Decoded(pending).chars ELSE pending
      settled == Cardinality({LET s == Scan(c \o u, TRUE)
                              IN IF s.result = "token" THEN <<s.token.kind, s.token.text>> ELSE <<s.result>> : u \in Continuations}) = 1
  IN ~closed /\ Scan(c, FALSE).result = "need" /\ ~NoExponent(c) => ~settled

Reading == PiecesRead /\ ReaderAgrees /\ HeldForCause
=============================================================================
