------------------------------ MODULE NativeReader ------------------------------
(***************************************************************************)
(* NativeReader (src/poplan.cpp): feed() decodes bytes into characters as  *)
(* they arrive, next() scans the characters into tokens and stops, possibly*)
(* in the middle of a token, when it has none left; discard_line() skips   *)
(* the rest of a line after an error.  NativeSession::feed() asks for      *)
(* tokens until the reader needs input.                                    *)
(*                                                                         *)
(* A byte is a member of a small set with one representative for every     *)
(* class of the reader: "lead" and "cont" are the bytes of a Cyrillic      *)
(* letter "Z".  The first ) is the token the session refuses.  A number    *)
(* ends at MaxDigits digits (13 in the code).                              *)
(***************************************************************************)
EXTENDS Naturals, Sequences, FiniteSets

CONSTANTS Texts,      \* the texts to read, sequences of bytes
          MaxDigits

Letters == {"a", "Z"}
Digits == {"1"}
OperatorChars == {"+"}   \* class 3
Delimiters == {"(", ")"} \* anything of no other class is a token of its own
Bytes == {"a", "1", "+", ".", "$", "(", ")", " ", "nl", "tab", "cr", "lead", "cont"}

VARIABLES text, fed,             \* the source and how many of its bytes have been fed
          utf8,                  \* bytes of an incomplete character
          input,                 \* input_ from cursor_ on
          mode, spelling, line, column, start, eof, discarding,
          tokens, waiting        \* what next() has returned, and whether it needs input

position == <<line, column, start>>
scan == <<utf8, input, mode, spelling, line, column, start, eof, discarding>>
vars == <<text, fed, scan, tokens, waiting>>

Init == /\ text \in Texts /\ fed = 0 /\ utf8 = <<>> /\ input = <<>> /\ mode = "idle"
        /\ spelling = <<>> /\ line = 1 /\ column = 0 /\ start = 0
        /\ eof = FALSE /\ discarding = FALSE /\ tokens = <<>> /\ waiting = TRUE

---------------------------------------------------------------------------
(* feed() *)

Width(b) == IF b \in {"lead", "cont"} THEN 2 ELSE 1

\* encode_gost_text: a malformed byte is a space, and so is a control character.
Encoded(bytes) ==
  IF bytes = <<"lead", "cont">> THEN <<"Z">>
  ELSE [i \in DOMAIN bytes |-> IF bytes[i] \in {"lead", "cont", "nl", "tab", "cr"} THEN " " ELSE bytes[i]]

Character(bytes) == CASE bytes = <<"nl">> -> <<"nl">> [] bytes = <<"tab">> -> <<" ">>
                      [] bytes = <<"cr">> -> <<>> [] OTHER -> Encoded(bytes)

\* The characters of bytes, and the bytes of a last one that is not complete; at the end
\* of the input it is decoded as it is.
Decoded(bytes, ended) ==
  LET D[i \in 1..Len(bytes) + 1] ==
        IF i > Len(bytes) THEN [chars |-> <<>>, rest |-> <<>>]
        ELSE LET last == i + Width(bytes[i]) - 1
                 upto == IF last > Len(bytes) THEN Len(bytes) ELSE last
             IN IF last > Len(bytes) /\ ~ended THEN [chars |-> <<>>, rest |-> SubSeq(bytes, i, Len(bytes))]
                ELSE [D[upto + 1] EXCEPT !.chars = Character(SubSeq(bytes, i, upto)) \o @]
  IN D[1]

\* A piece of n bytes, the last one or not; a piece without bytes is the end of the input.
Feed(n, ended) ==
  LET d == Decoded(utf8 \o SubSeq(text, fed + 1, fed + n), ended)
  IN /\ waiting /\ ~eof /\ fed + n <= Len(text)
     /\ (ended => fed + n = Len(text)) /\ (n > 0 \/ ended)
     /\ fed' = fed + n /\ utf8' = d.rest /\ input' = input \o d.chars
     /\ eof' = ended /\ waiting' = FALSE
     /\ UNCHANGED <<text, mode, spelling, position, discarding, tokens>>

---------------------------------------------------------------------------
(* next() *)

Has(s, ch) == \E i \in DOMAIN s : s[i] = ch
AllDigits(s) == \A i \in DOMAIN s : s[i] \in Digits

\* ch goes on with the token of this kind spelt s so far.
More(ch, kind, s) ==
  CASE kind = "word" -> ch \in Letters \cup Digits
    [] kind = "operators" -> ch \in OperatorChars
    [] kind = "number" -> \/ ch \in Digits
                          \/ ch = "." /\ ~Has(s, ".")
                          \/ ch = "$" /\ Has(s, ".") /\ ~Has(s, "$")
                          \/ ch = "+" /\ s[Len(s)] = "$"

KindOf(ch) == CASE ch \in Letters -> "word" [] ch \in OperatorChars -> "operators"
                [] ch \in Digits \cup {"."} -> "number" [] OTHER -> "single"

\* A number of MaxDigits digits is complete without a look at what follows.
Full(kind, s) == kind = "number" /\ Len(s) = MaxDigits /\ AllDigits(s)

Token(s, from) == [spelling |-> s, line |-> line, start |-> from]

\* The session discards the rest of the line after a token it refuses.
Delivered(token, rest) ==
  /\ tokens' = Append(tokens, token) /\ mode' = "idle" /\ spelling' = <<>>
  /\ discarding' = (token.spelling = <<")">>) /\ input' = rest
  /\ UNCHANGED <<text, fed, utf8, eof, waiting, line, column>>

Reading == ~waiting /\ input # <<>>
First == Head(input)
Skip(inLine) == /\ input' = Tail(input) /\ column' = (IF inLine THEN column + 1 ELSE 0)
                /\ line' = (IF inLine THEN line ELSE line + 1)
                /\ UNCHANGED <<text, fed, utf8, mode, spelling, start, eof, waiting>>

\* Mutation: the discarded line has no end.
DiscardAll == Reading /\ discarding /\ Skip(First # "nl") /\ UNCHANGED <<discarding, tokens>>

Discard == /\ Reading /\ discarding /\ discarding' = (First # "nl") /\ Skip(First # "nl") /\ UNCHANGED tokens

NewLine == /\ Reading /\ ~discarding /\ mode = "idle" /\ First = "nl"
           /\ tokens' = Append(tokens, Token(<<"nl">>, 0)) /\ Skip(FALSE) /\ UNCHANGED discarding

Blank == /\ Reading /\ ~discarding /\ mode = "idle" /\ First = " " /\ Skip(TRUE) /\ UNCHANGED <<discarding, tokens>>

\* The character belongs to the token being read, or starts one.
Take ==
  LET kind == IF mode = "idle" THEN KindOf(First) ELSE mode
      s == Append(spelling, First)
      from == IF mode = "idle" THEN column ELSE start
  IN /\ Reading /\ ~discarding /\ First \notin {"nl", " "}
     /\ mode # "idle" => More(First, mode, spelling)
     /\ column' = column + 1 /\ start' = from /\ input' = Tail(input)
     /\ UNCHANGED <<text, fed, utf8, eof, waiting, line>>
     /\ IF kind = "single" \/ Full(kind, s)
        THEN /\ tokens' = Append(tokens, Token(s, from)) /\ mode' = "idle" /\ spelling' = <<>>
             /\ discarding' = (s = <<")">>)
        ELSE /\ mode' = kind /\ spelling' = s /\ UNCHANGED <<discarding, tokens>>

\* The character ends the token and stays.
Complete == /\ Reading /\ ~discarding /\ mode # "idle" /\ ~More(First, mode, spelling)
            /\ Delivered(Token(spelling, start), input) /\ UNCHANGED start

\* Mutation: the end of a piece ends the token.
NeedInputEnds == /\ ~waiting /\ input = <<>> /\ ~eof /\ waiting' = TRUE
                 /\ tokens' = IF mode = "idle" THEN tokens ELSE Append(tokens, Token(spelling, start))
                 /\ mode' = "idle" /\ spelling' = <<>>
                 /\ UNCHANGED <<text, fed, utf8, input, position, eof, discarding>>

\* Without input the token being read is kept for the next piece.
NeedInput == /\ ~waiting /\ input = <<>> /\ ~eof /\ waiting' = TRUE
             /\ UNCHANGED <<text, fed, scan, tokens>>

Finished == tokens # <<>> /\ tokens[Len(tokens)].spelling = <<>>

EndOfInput == /\ ~waiting /\ input = <<>> /\ eof /\ ~Finished
              /\ Delivered(Token(spelling, IF mode = "idle" THEN column ELSE start), <<>>) /\ UNCHANGED start

Scan == Discard \/ NewLine \/ Blank \/ Take \/ Complete \/ NeedInput \/ EndOfInput

Next == (\E n \in 0..Len(text), ended \in BOOLEAN : Feed(n, ended)) \/ Scan

\* The session calls next() until it needs input and the shell feeds until the text ends.
Spec == Init /\ [][Next]_vars /\ WF_vars(Next)

---------------------------------------------------------------------------
(* Properties *)

\* The reader's state is of its types; nothing is fed past the end of the text.
TypeOK ==
  /\ fed \in 0..Len(text) /\ Len(utf8) <= 1 /\ eof \in BOOLEAN /\ discarding \in BOOLEAN /\ waiting \in BOOLEAN
  /\ mode \in {"idle", "word", "operators", "number"} /\ (mode = "idle") = (spelling = <<>>)
  /\ line <= Len(text) + 1 /\ column <= Len(text) /\ ~(discarding /\ mode # "idle")

\* What the tokens of a whole text are, told without the reader's modes: a token is the
\* longest stretch all of whose beginnings are tokens of its kind.
Prefixes(s) == {SubSeq(s, 1, n) : n \in 1..Len(s)}
IsToken(s) ==
  LET kind == KindOf(s[1])
      count(ch) == {i \in DOMAIN s : s[i] = ch}
      rest == 2..Len(s)
  IN CASE kind = "single" -> Len(s) = 1
       [] kind = "word" -> \A i \in rest : s[i] \in Letters \cup Digits
       [] kind = "operators" -> \A i \in rest : s[i] \in OperatorChars
       [] kind = "number" ->
            /\ \A i \in rest : s[i] \in Digits \cup {".", "$", "+"}
            /\ \A ch \in {".", "$"} : \A i, j \in count(ch) : i = j
            /\ \A i \in count("$") : \E j \in count(".") : j < i
            /\ \A i \in count("+") : i > 1 /\ s[i - 1] = "$"
            /\ ~(Len(s) > MaxDigits /\ AllDigits(SubSeq(s, 1, MaxDigits)))

Whole == Decoded(text, TRUE).chars

Expected ==
  LET W == Whole
      lineOf(i) == 1 + Cardinality({j \in 1..i - 1 : W[j] = "nl"})
      startOf(i) == Cardinality({j \in 1..i - 1 : \A k \in j..i - 1 : W[k] # "nl"})
      token(i, j) == [spelling |-> SubSeq(W, i, j), line |-> lineOf(i), start |-> startOf(i)]
      longest(i) == CHOOSE j \in i..Len(W) :
                      /\ \A k \in i..j : IsToken(SubSeq(W, i, k))
                      /\ j < Len(W) => ~IsToken(SubSeq(W, i, j + 1))
      endOfLine(i) == CHOOSE j \in i..Len(W) + 1 :
                        /\ \A k \in i..j - 1 : W[k] # "nl"
                        /\ j <= Len(W) => W[j] = "nl"
      T[i \in 1..Len(W) + 2] ==
        IF i > Len(W) THEN <<token(Len(W) + 1, Len(W))>>
        ELSE IF W[i] = " " THEN T[i + 1]
        ELSE IF W[i] = "nl" THEN <<[token(i, i) EXCEPT !.start = 0]>> \o T[i + 1]
        ELSE IF W[i] = ")" THEN <<token(i, i)>> \o T[endOfLine(i) + 1]
        ELSE <<token(i, longest(i))>> \o T[longest(i) + 1]
  IN T[1]

IsPrefixOf(s, t) == Len(s) <= Len(t) /\ s = SubSeq(t, 1, Len(s))

\* However the bytes of a text are cut into pieces, in the middle of a character, of a
\* token or of a discarded line, the reader delivers the tokens of the whole text, each
\* with its line and column, in order (NativeReader keeps what a piece left unfinished).
SplitIndependent == IsPrefixOf(tokens, Expected)

\* A text that is fed to its end is delivered to its last token and then the reader stops.
AllDelivered == <>(tokens = Expected)
=============================================================================
