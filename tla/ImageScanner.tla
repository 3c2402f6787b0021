----------------------------- MODULE ImageScanner -----------------------------
(***************************************************************************)
(* The token reader of the original image, as its routines 16341-16747     *)
(* stand in src/machine.cpp and src/poplan.cpp.  A record holds the        *)
(* current character and up to two that were looked at (words 0, +1, +2)   *)
(* and a function that supplies more (word -2); every current character    *)
(* also goes into the line buffer at 16557.  Real numbers are delivered by *)
(* Machine::p16645, which reads them in that buffer.                       *)
(*                                                                         *)
(* A character stands for its class (reader_class).  Which characters make *)
(* pairs and which codes are compared with is data of the image.  The      *)
(* value of a number is told by the spelling it is computed from, and      *)
(* exponents out of range (0271) are left out; so are a supplier that      *)
(* itself reads tokens and one that supplies other things than characters. *)
(***************************************************************************)
EXTENDS Naturals, SequencesExt

CONSTANTS Texts,
          Room,          \* characters the line buffer holds (126)
          NameLength,    \* characters of a name that count (6)
          MaxDigits,     \* decimal digits of an integer (12)
          BinaryDigits, OctalDigits   \* of one with a base (40, 13)

VARIABLES text,
          reader,   \* [current, next, after, left, line, taken]: left is what the supplier still
                    \* has, taken (ghost) the characters that were current
          mode, item,
          items     \* what was delivered

vars == <<text, reader, mode, item, items>>

None == ""
End == "end"   \* TERMIN, the supplier's answer after the last character

Class(c) == CASE c = " " -> 0 [] c = "a" -> 1 [] c \in {"1", "2", "8"} -> 2 [] c \in {"+", "-", ":"} -> 3
              [] c = ")" -> 4 [] c = "(" -> 5 [] c = "%" -> 6 [] c = "." -> 7 [] c = "'" -> 8
              [] c = "_" -> 9 [] c = "$" -> 10 [] c = End -> 11 [] c = "nl" -> 12 [] c = "#" -> 13
IsDigit(c) == Class(c) = 2

\* 16610: a digit of the base, whose mask (16647, 16650) has no bit of it.
OfBase(base, c) == IsDigit(c) /\ c \in IF base = "2" THEN {"1"} ELSE {"1", "2"}

Init == /\ text \in Texts
        /\ reader = [current |-> None, next |-> None, after |-> None, left |-> text, line |-> <<>>, taken |-> <<>>]
        /\ mode = "idle" /\ item = <<>> /\ items = <<>>

---------------------------------------------------------------------------
(* The record *)

Supplied(r) == IF r.left = <<>> THEN End ELSE Head(r.left)
Asked(r) == [r EXCEPT !.left = IF @ = <<>> THEN @ ELSE Tail(@)]

\* 16467: the current character goes into the buffer, which starts anew when it is full.
Buffered(r) == [r EXCEPT !.line = IF Len(@) + 1 = Room THEN <<>> ELSE Append(@, r.current),
                         !.taken = Append(@, r.current)]

\* Mutant: of two characters looked at the second is dropped.
ShiftedOne(r) == Buffered(IF r.next = None THEN [Asked(r) EXCEPT !.current = Supplied(r)]
                          ELSE [r EXCEPT !.current = r.next, !.next = None, !.after = None])

\* 16457: the next character becomes current.
Shifted(r) == Buffered(IF r.next = None THEN [Asked(r) EXCEPT !.current = Supplied(r)]
                       ELSE [r EXCEPT !.current = r.next, !.next = r.after, !.after = None])

\* 16477: there is a next character.
Filled(r) == IF r.next # None THEN r ELSE [Asked(r) EXCEPT !.next = Supplied(r)]

\* 16627, 16665: one more is asked for and put behind it.
Ahead(r) == [Asked(r) EXCEPT !.after = Supplied(r)]

Advanced(r) == Filled(Shifted(r))   \* 16505

---------------------------------------------------------------------------
(* Items *)

Deliver(r, kind, s, value) ==
  /\ reader' = r /\ items' = Append(items, [kind |-> kind, spelling |-> s, value |-> value, at |-> Len(r.taken)])
  /\ mode' = "idle" /\ item' = <<>> /\ UNCHANGED text
Whole(r, kind, s) == Deliver(r, kind, s, s)
Fails(r, code) == Deliver(r, "error", <<code>>, <<>>)

GoesOn(r, m, s) == reader' = r /\ mode' = m /\ item' = s /\ UNCHANGED <<text, items>>

\* The spellings p16645 and native_parse_real_literal take: digits, if any, a point, digits,
\* and an exponent, perhaps with a sign.
IsReal(s) ==
  \E p \in DOMAIN s, q \in DOMAIN s \cup {Len(s) + 1} :
    LET from == IF q < Len(s) /\ s[q + 1] \in {"+", "-"} THEN q + 2 ELSE q + 1
    IN /\ s[p] = "." /\ q > p + 1 /\ \A i \in 1 .. q - 1 : i = p \/ IsDigit(s[i])
       /\ q <= Len(s) => /\ s[q] = "$" /\ from <= Len(s)
                         /\ \A i \in from .. Len(s) : IsDigit(s[i])

\* 16645: what the buffer holds is taken for the number if it is one, not what was read.
Real(r, s) == Deliver(r, "number", s, IF IsReal(r.line) THEN r.line ELSE s)

---------------------------------------------------------------------------
(* 16341: an item starts *)

Starting(r) == mode = "idle" /\ (items # <<>> => items[Len(items)].kind # "end") /\ r = Shifted(reader)

Skip == \E r \in {Shifted(reader)} :
          Starting(r) /\ \/ Class(r.current) = 0 /\ GoesOn(r, "idle", <<>>)
                         \/ Class(r.current) = 12 /\ GoesOn([r EXCEPT !.line = <<>>], "idle", <<>>)

StartWord == \E r \in {Shifted(reader)} :
               Starting(r) /\ \/ Class(r.current) = 1 /\ GoesOn(Filled(r), "name", <<r.current>>)
                              \/ Class(r.current) = 3 /\ GoesOn(Filled(r), "operators", <<r.current>>)

\* 16616: a 2 or an 8 before a colon is a base if a digit of it follows the colon.
StartNumber ==
  \E r \in {Shifted(reader)} :
    LET s == Filled(r)
        t == Ahead(s)
        u == Advanced(Advanced(t))
    IN /\ Starting(r) /\ IsDigit(r.current)
       /\ IF r.current \in {"2", "8"} /\ s.next = ":"
          THEN IF OfBase(r.current, t.after) THEN GoesOn(u, "based", <<r.current, ":", u.current>>)
               ELSE GoesOn(t, "decimal", <<r.current>>)
          ELSE GoesOn(s, "decimal", <<r.current>>)

Pair(r) == Whole(Advanced(r), "word", <<r.current, r.next>>)

\* 16745: a point starts a number if a digit follows it.
Point(r) == IF IsDigit(r.next) THEN GoesOn(Advanced(r), "fraction", <<".", r.next>>)
            ELSE Whole(r, "word", <<".">>)

\* 16511, 16513, 16522: single characters and pairs.
StartMark ==
  \E r \in {Shifted(reader)} :
    LET s == Filled(r)
    IN /\ Starting(r)
       /\ \/ Class(r.current) = 4 /\ Whole(r, "word", <<r.current>>)
          \/ Class(r.current) = 5 /\ IF s.next = "%" THEN Pair(s) ELSE Whole(s, "word", <<r.current>>)
          \/ Class(r.current) = 6 /\ IF s.next \in {")", "]"} THEN Pair(s) ELSE Fails(s, "4")
          \/ Class(r.current) = 7 /\ Point(s)

\* 16530, 16372, 16375 and the errors of 16351.
StartOther ==
  \E r \in {Shifted(reader)} :
    /\ Starting(r)
    /\ \/ Class(r.current) = 8 /\ GoesOn(Advanced(r), "string", <<>>)
       \/ Class(r.current) = 9 /\ Whole(Shifted(r), "character", <<Shifted(r).current>>)
       \/ Class(r.current) = 10 /\ Fails(r, "2")
       \/ Class(r.current) = 11 /\ Whole(r, "end", <<>>)
       \/ Class(r.current) = 13 /\ Fails(r, "3")

---------------------------------------------------------------------------
(* and goes on *)

\* 16405-16417: names take letters and digits, other words operator characters; six count.
Word ==
  LET kinds == IF mode = "name" THEN {1, 2} ELSE {3}
  IN /\ mode \in {"name", "operators"}
     /\ IF Class(reader.next) \in kinds
        THEN GoesOn(Advanced(reader), mode, IF Len(item) < NameLength THEN Append(item, reader.next) ELSE item)
        ELSE Whole(reader, "word", item)

\* 16634-16640: the digit that would be one too many is read before that is found.
Based ==
  LET base == item[1]
      most == IF base = "2" THEN BinaryDigits ELSE OctalDigits
  IN /\ mode = "based"
     /\ IF ~OfBase(base, reader.next) THEN Whole(reader, "number", item)
        ELSE IF Len(item) - 2 = most THEN Fails(Advanced(reader), IF base = "2" THEN "277" ELSE "275")
        ELSE GoesOn(Advanced(reader), "based", Append(item, reader.next))

\* 16665-16672: a point belongs to the number if a digit follows it.
Pointed(r) == LET u == Advanced(Advanced(r))
              IN IF IsDigit(r.after) THEN GoesOn(u, "fraction", item \o <<".", u.current>>)
                 ELSE Whole(r, "number", item)

\* 16653-16663.
Decimal ==
  /\ mode = "decimal"
  /\ IF IsDigit(reader.next)
     THEN IF Len(item) = MaxDigits THEN Fails(Advanced(reader), "273")
          ELSE GoesOn(Advanced(reader), "decimal", Append(item, reader.next))
     ELSE IF reader.next = "." THEN Pointed(Ahead(reader)) ELSE Whole(reader, "number", item)

\* 16710-16720: after its mark an exponent may have a sign and has a digit.
Marked(r) ==
  LET x == Advanced(r)
  IN CASE IsDigit(r.next) -> GoesOn(x, "exponent", item \o <<"$", r.next>>)
       [] r.next \in {"+", "-"} -> IF IsDigit(x.next) THEN GoesOn(Advanced(x), "exponent", item \o <<"$", r.next, x.next>>)
                                  ELSE Fails(x, "300")
       [] OTHER -> Fails(r, "300")

\* 16676-16705.
Fraction == /\ mode = "fraction"
            /\ CASE IsDigit(reader.next) -> GoesOn(Advanced(reader), "fraction", Append(item, reader.next))
                 [] Class(reader.next) = 10 -> Marked(Advanced(reader))
                 [] OTHER -> Real(reader, item)

\* 16722-16731.
Exponent == /\ mode = "exponent"
            /\ IF IsDigit(reader.next) THEN GoesOn(Advanced(reader), "exponent", Append(item, reader.next))
               ELSE Real(reader, item)

\* 16537-16552: INIT makes the string, and its characters come off the stack from the last to the
\* first; one without characters is a constant of the image.
Strung == Whole(reader, "string", item)

\* 16532: a doubled quote stands for one; the text's end in a string is left out.
String ==
  /\ mode = "string" /\ reader.current # End
  /\ IF reader.current # "'" THEN GoesOn(Advanced(reader), "string", Append(item, reader.current))
     ELSE IF reader.next = "'" THEN GoesOn(Advanced(Advanced(reader)), "string", Append(item, "'"))
     ELSE Strung

Next == \/ Skip \/ StartWord \/ StartNumber \/ StartMark \/ StartOther
        \/ Word \/ Based \/ Decimal \/ Fraction \/ Exponent \/ String

Spec == Init /\ [][Next]_vars

---------------------------------------------------------------------------
(* Properties *)

Present(s) == SelectSeq(s, LAMBDA c : c \notin {None, End})

\* No character is lost, doubled or out of its place, however many were looked at.
NothingLost == Present(reader.taken \o <<reader.next, reader.after>>) \o reader.left = text

\* Characters since the last newline before the n-th that was taken.
Column(n) == LET k == {0} \cup {i \in 1 .. n : reader.taken[i] = "nl"}
             IN n - (CHOOSE i \in k : \A j \in k : j <= i)

\* On a line that has not filled the buffer a real number has the value it is spelled with;
\* later, or after an error, what the buffer holds may begin within it or be more than it.
RealsAsRead ==
  \A k \in DOMAIN items :
    LET i == items[k]
    IN /\ i.kind = "number" /\ Column(i.at) < Room
       /\ \A j \in 1 .. k : items[j].kind # "error"
       => i.value = i.spelling

\* The native reader's tokens of the same text, and which it accepts (native_parse_real_literal,
\* reader_number; an unsupported token ends its session).
Native == INSTANCE NativeReader WITH
  MaxDigits <- MaxDigits + 1, fed <- 0, utf8 <- <<>>, input <- <<>>, spelling <- item, line <- 1,
  column <- 0, start <- 0, eof <- FALSE, discarding <- FALSE, tokens <- <<>>, waiting <- TRUE

Compared == \A i \in DOMAIN text : text[i] \in {"a", "1", "+", ".", "$", "(", " ", "nl"}
Tokens == LET t == Native!Expected
          IN SelectSeq([k \in DOMAIN t |-> t[k].spelling], LAMBDA s : s \notin {<<>>, <<"nl">>})
Accepted(s) == CASE s[1] \in {"1", "."} -> IsReal(s) \/ \A i \in DOMAIN s : IsDigit(s[i]) /\ Len(s) <= MaxDigits
                 [] OTHER -> s # <<"$">>
Named(s) == IF s[1] \in {"1", "."} \/ Len(s) <= NameLength THEN s ELSE SubSeq(s, 1, NameLength)

\* Up to the first token that the native session refuses the image delivers the same ones, and
\* goes on exactly as long.
ReadsAsNative ==
  Compared =>
    LET t == Tokens
        good == {n \in 0 .. Len(t) : \A k \in 1 .. n : Accepted(t[k])}
    IN /\ \A k \in DOMAIN items : k \in good => items[k].spelling = Named(t[k])
       /\ Len(t) \in good => /\ Len(items) <= Len(t) + 1
                             /\ \A k \in DOMAIN items : (items[k].kind = "end") = (k = Len(t) + 1)
=============================================================================
