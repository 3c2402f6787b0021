------------------------------- MODULE ImageData -------------------------------
(***************************************************************************)
(* Strips and records of the original image as the generated routines of   *)
(* src/machine.cpp make them: INIT, SUBSCR, INITC, SUBSCC, STRIPFNS        *)
(* (p11464-p11757) and RECORDFNS with the constructors and components of   *)
(* its classes (p11102-p11353).                                            *)
(*                                                                         *)
(* A component of size 0 takes a word; one of another size takes as many   *)
(* bits, and several share a word.  The components of a strip are equally  *)
(* wide and found by dividing; the fields of a record are laid out when    *)
(* its class is made, and what finds them is compiled from there.          *)
(*                                                                         *)
(* The image's constants are not in the source: the width of a word and    *)
(* the widest component are parameters here.                               *)
(***************************************************************************)
EXTENDS Integers, Sequences, SequencesExt

CONSTANTS
  WordBits,  \* bits of a word that components may take
  Widest,    \* bits of the widest component
  CharBits,  \* bits of a component of a chain
  Given,     \* values stored, and indices asked for
  Filling,   \* values a constructor is given
  Junk,      \* what a new word may hold: UNDEF's (02213)
  StripSizes, Counts, RecordSizes, \* what classes and strips are asked for
  MaxClasses, MaxObjects, MaxStores \* bounds

VARIABLES
  classes,  \* the classes made, the two standard ones first
  objects,  \* strips and records: class and address
  memory,   \* the words of their blocks
  stores,   \* how many assignments there have been
  meant     \* ghost: of each object, what was last stored in each component

data == <<classes, objects, memory, stores, meant>>

NotNatural == -1 \* a negative integer or no integer
Unset == -2      \* a component nothing has been stored in

IsCount(v) == v \in Nat \ {0}
IsSize(v) == v \in 0 .. Widest

---------------------------------------------------------------------------
(* Classes *)

\* 11571, 11601: of the components of a packed strip, how many share a word.
PerWord(size) == IF size = 0 THEN 1 ELSE WordBits \div size

\* 11604-11623, 11627: the descriptor holds size, number in a word and associated word, and
\* the functions made refer to it.
StripClass(size) == [sort |-> "strip", size |-> size, per |-> PerWord(size), fields |-> <<>>]

\* 11760: a chain's components.
Full == 1
Chain == 2
StandardClasses == <<StripClass(0), StripClass(CharBits)>>

\* A layout in progress: words taken, the bit of the last one to go on with, and the fields.
\* 11132: no bit of a word is left before the first field.
Spent == WordBits + 1
NoFields == [words |-> 0, at |-> Spent, fields |-> <<>>]

\* 11244-11257: a field of size 0 is a word, and what follows begins another.
WholeField(l) ==
  [words |-> l.words + 1, at |-> Spent,
   fields |-> Append(l.fields, [word |-> l.words + 1, shift |-> 0, size |-> 0])]

\* 11152: is there room for the field in the word the last field is in?
Room(l, size) == l.at + size <= WordBits + 1

\* 11165, 11204: the field is that many bits from there, leftmost first.
PackedField(l, size) ==
  [words |-> l.words, at |-> l.at + size,
   fields |-> Append(l.fields, [word |-> l.words, shift |-> WordBits + 1 - l.at - size, size |-> size])]

\* 11147-11152: one size of the list.
Field(l, size) ==
  IF size = 0 THEN WholeField(l)
  ELSE PackedField(IF Room(l, size) THEN l ELSE [l EXCEPT !.words = @ + 1, !.at = 1], size)

\* 11235: the descriptor gets the length of a record.
RecordClass(sizes) ==
  LET l == FoldLeft(Field, NoFields, sizes)
  IN [sort |-> "record", size |-> l.words, per |-> 0, fields |-> l.fields]

---------------------------------------------------------------------------
(* Where a component is *)

\* 11703-11710: the quotient is the word after the header, and the remainder counts from the left;
\* a record has no header.
Place(c, i) ==
  IF c.sort = "record" THEN c.fields[i]
  ELSE [word |-> 2 + ((i - 1) \div c.per),
        shift |-> c.size * (c.per - 1 - ((i - 1) % c.per)), size |-> c.size]

\* 11720: the word shifted and masked.
Part(w, p) == IF p.size = 0 THEN w ELSE (w \div 2 ^ p.shift) % 2 ^ p.size

\* 11731: the part is cleared and the value, masked, shifted into it.
Spliced(w, p, v) ==
  IF p.size = 0 THEN v ELSE w - Part(w, p) * 2 ^ p.shift + (v % 2 ^ p.size) * 2 ^ p.shift

Address(o, p) == objects[o].at + p.word - 1

Component(o, i) == LET p == Place(classes[objects[o].class], i) IN Part(memory[Address(o, p)], p)

\* A strip's is in its header.
Components(o) ==
  LET c == classes[objects[o].class]
  IN IF c.sort = "record" THEN Len(c.fields) ELSE memory[objects[o].at]

---------------------------------------------------------------------------
(* Making classes and objects *)

\* The diagnostic; nothing has been changed.
Fails(error) == error # 0 /\ UNCHANGED data

Makes(c) ==
  /\ Len(classes) < MaxClasses
  /\ classes' = Append(classes, c) /\ UNCHANGED <<objects, memory, stores, meant>>

\* 11553-11564, 11631
STRIPFNS(size) == IF IsSize(size) THEN Makes(StripClass(size)) ELSE Fails(10110)

\* 11102-11111, 11147-11152: no list of no sizes.
RECORDFNS(sizes) ==
  IF sizes # <<>> /\ \A k \in DOMAIN sizes : IsSize(sizes[k]) THEN Makes(RecordClass(sizes)) ELSE Fails(10040)

\* What each component of a class takes: the value, or the bits of it there is room for.
Kept(c, i, v) == LET s == Place(c, i).size IN IF s = 0 THEN v ELSE v % 2 ^ s

Creates(class, words, known) ==
  /\ Len(objects) < MaxObjects
  /\ objects' = Append(objects, [class |-> class, at |-> Len(memory) + 1])
  /\ memory' = memory \o words /\ meant' = Append(meant, known)
  /\ UNCHANGED <<classes, stores>>

\* 11651-11663: the words for so many components, the last one perhaps in part.
BlockWords(c, count) == ((count - 1) \div c.per) + 1

\* 11506, 11647: an initiator of any strip class takes a positive number; 11464, 11665: the words
\* of the block are filled alike, Junk (05455), and its header holds the number of components.
Initiate(class, count) ==
  IF ~IsCount(count) THEN Fails(10070)
  ELSE \E junk \in Junk :
         Creates(class, <<count>> \o [w \in 1 .. BlockWords(classes[class], count) |-> junk],
                 [i \in 1 .. count |-> Unset])

\* 11726, 11731: the values a component takes.
Takes(c, i, v) == Place(c, i).size = 0 \/ v \in Nat

\* 11343, 11731
Assigned(words, a, p, v) == [words EXCEPT ![a] = Spliced(@, p, v)]

\* 11274-11304: a constructor assigns to the components of the new record from the last on.
Construct(class, values) ==
  LET c == classes[class]
      n == Len(c.fields)
      last(words, k) == LET i == n + 1 - k IN Assigned(words, Place(c, i).word, Place(c, i), values[i])
  IN IF \A i \in 1 .. n : Takes(c, i, values[i])
     THEN \E junk \in Junk :
            Creates(class, FoldLeft(last, [w \in 1 .. c.size |-> junk], [k \in 1 .. n |-> k]),
                    [i \in 1 .. n |-> Kept(c, i, values[i])])
     ELSE Fails(10060)

---------------------------------------------------------------------------
(* Reading and assigning to components *)

\* 11673, 11536, 11330: the operand has the class of the function.
OfClass(o, class) == o \in DOMAIN objects /\ objects[o].class = class

\* 11541: the index is an integer, positive, and not above the number in the header.
Within(o, i) == i \in 1 .. Components(o)

WrongClass(class) == IF classes[class].sort = "strip" THEN 10105 ELSE 10050

\* 11524-11530, 11717, 11330: the operand is looked at before the index.
Select(class, i, o) ==
  IF ~OfClass(o, class) THEN Fails(WrongClass(class))
  ELSE IF ~Within(o, i) THEN Fails(10100)
  ELSE UNCHANGED data

\* 11531-11535, 11726, 11343: and the index before the value.
Update(class, i, o, v) ==
  LET c == classes[class]
  IN IF ~OfClass(o, class) THEN Fails(WrongClass(class))
     ELSE IF ~Within(o, i) THEN Fails(10100)
     ELSE IF ~Takes(c, i, v) THEN Fails(10075)
     ELSE /\ stores < MaxStores /\ stores' = stores + 1
          /\ memory' = Assigned(memory, Address(o, Place(c, i)), Place(c, i), v)
          /\ meant' = [meant EXCEPT ![o][i] = Kept(c, i, v)]
          /\ UNCHANGED <<classes, objects>>

DataInit == classes = StandardClasses /\ objects = <<>> /\ memory = <<>> /\ stores = 0 /\ meant = <<>>

Strips == {class \in DOMAIN classes : classes[class].sort = "strip"}
Records == DOMAIN classes \ Strips

DataNext ==
  \/ \E size \in StripSizes : STRIPFNS(size)
  \/ \E sizes \in RecordSizes : RECORDFNS(sizes)
  \/ \E class \in Strips, count \in Counts : Initiate(class, count)
  \/ \E class \in Records :
       \E values \in [DOMAIN classes[class].fields -> Filling] : Construct(class, values)
  \/ \E class \in DOMAIN classes, o \in DOMAIN objects :
       \E i \in IF class \in Strips THEN Given ELSE DOMAIN classes[class].fields :
         Select(class, i, o) \/ \E v \in Given : Update(class, i, o, v)

DataSpec == DataInit /\ [][DataNext]_data

---------------------------------------------------------------------------
(* Properties *)

\* A strip has as many components as were asked for, and every component has what was last
\* stored in it, or the bits of that it has room for, whatever has been stored in its neighbours
\* and in other blocks, and whatever its block held before (p11665, p11720, p11731, p11274).
ComponentsKept ==
  \A o \in DOMAIN objects :
    /\ DOMAIN meant[o] = 1 .. Components(o)
    /\ \A i \in DOMAIN meant[o] : meant[o][i] # Unset => Component(o, i) = meant[o][i]

Bits(p) == IF p.size = 0 THEN 1 .. WordBits ELSE p.shift + 1 .. p.shift + p.size

\* The components of an object are within the words of its block, and no two of them share a
\* bit (p11651, p11703, p11152).
PlacesApart ==
  \A o \in DOMAIN objects : LET c == classes[objects[o].class] IN
    \A i \in DOMAIN meant[o] :
      /\ Address(o, Place(c, i)) < IF o < Len(objects) THEN objects[o + 1].at ELSE Len(memory) + 1
      /\ Bits(Place(c, i)) \subseteq 1 .. WordBits
      /\ \A j \in 1 .. i - 1 :
           Place(c, i).word = Place(c, j).word => Bits(Place(c, i)) \cap Bits(Place(c, j)) = {}

DataHolds == ComponentsKept /\ PlacesApart
=============================================================================
