------------------------------ MODULE Components ------------------------------
(***************************************************************************)
(* Objects with components of the standalone interpreter: strips, strings, *)
(* records and arrays, with the functions RECORDFNS, STRIPFNS and NEWARRAY *)
(* make for them (Runtime::invoke in standalone/src/primitives.cpp).       *)
(*                                                                         *)
(* A primitive is one action with its operands; the stack around them is   *)
(* left out.  NEWARRAY runs the program's initializer for each component   *)
(* and the initializer may call any other primitive, or fault.             *)
(***************************************************************************)
EXTENDS Integers, Sequences, FiniteSetsExt

CONSTANTS
  Values,      \* values components may get, some of them integers
  Integers_,   \* which of them
  Encodable,   \* which integers are characters; one above the last is in no range
  Unpaired,    \* an integer in the range of characters that has no encoding
  Records,     \* the classes of RECORDFNS: the widths of their components
  Strips,      \* the classes of STRIPFNS: the width of theirs
  BoundsLists, \* lists of pairs of bounds
  Sizes,       \* sizes of strips
  MaxTotal,    \* the greatest std::size_t
  MaxInteger,  \* the greatest integer
  MaxObjects, MaxSteps

VARIABLES
  objects,  \* by handle, in the order they were made
  making,   \* arrays being initialized, the innermost last: [array, offset]
  written,  \* ghost: what has been given to each component of a strip, by its position
  fault,    \* whether the last primitive faulted
  steps

vars == <<objects, making, written, fault, steps>>

Standard == <<>>                \* the class of INIT and INITC; one of STRIPFNS is its width
Handles == DOMAIN objects
Of(kind) == {h \in Handles : objects[h].is = kind}

\* component(): a component of n bits; with 0 it is any value.
Fits(value, width) ==
  width = 0 \/ (value \in Integers_ /\ value >= 0 /\ value < 2 ^ width)

Made(object) == Append(objects, object)

\* A fault drops the calls under way, initializers among them.
Faults == fault' = TRUE /\ making' = <<>> /\ UNCHANGED <<objects, written>>

\* A primitive that only returns something, if its operands have it.
Reads(there) == IF there THEN fault' = FALSE /\ UNCHANGED <<objects, making, written>> ELSE Faults

---------------------------------------------------------------------------
(* Records *)

\* @REC: the last component is on top and is tested first; all are popped or none is kept.
ConsRecord(widths) ==
  \E fields \in [DOMAIN widths -> Values] :
    IF \A i \in DOMAIN widths : Fits(fields[i], widths[i])
    THEN /\ Len(objects) < MaxObjects
         /\ objects' = Made([is |-> "record", widths |-> widths, fields |-> fields])
         /\ written' = Append(written, fields)
         /\ fault' = FALSE /\ UNCHANGED making
    ELSE Faults

\* @DEST and @FIELD of one class given an object of any kind.
OpenRecord(widths, h) ==
  Reads(objects[h].is = "record" /\ objects[h].widths = widths)

SetField(widths, i, h, value) ==
  IF objects[h].is = "record" /\ objects[h].widths = widths /\ Fits(value, widths[i])
  THEN /\ objects' = [objects EXCEPT ![h].fields[i] = value]
       /\ written' = [written EXCEPT ![h][i] = value]
       /\ fault' = FALSE /\ UNCHANGED making
  ELSE Faults

---------------------------------------------------------------------------
(* Strips and strings *)

Zeros(n) == [i \in 1 .. n |-> 0]

\* @SINIT, INIT and INITC.
NewStrip(class, width, n) ==
  /\ Len(objects) < MaxObjects
  /\ objects' = Made([is |-> "strip", class |-> class, width |-> width, fields |-> Zeros(n)])
  /\ written' = Append(written, Zeros(n)) /\ fault' = FALSE /\ UNCHANGED making

\* A strip a selector of a class may reach; SUBSCR and SUBSCC have no class.
Reaches(class, h, i) == /\ objects[h].is = "strip" /\ i \in DOMAIN objects[h].fields
                        /\ class # Standard => objects[h].class = class

Subscript(class, h, i) ==
  Reads(Reaches(class, h, i) \/ (objects[h].is = "string" /\ i \in DOMAIN objects[h].fields))

SetSubscript(class, h, i, value) ==
  IF Reaches(class, h, i) /\ Fits(value, objects[h].width)
  THEN /\ objects' = [objects EXCEPT ![h].fields[i] = value]
       /\ written' = [written EXCEPT ![h][i] = value]
       /\ fault' = FALSE /\ UNCHANGED making
  ELSE Faults

\* A string is encoded anew, character after character: one that has no encoding ends that
\* half way.
SetCharacter(h, i, value) ==
  IF objects[h].is = "string" /\ i \in DOMAIN objects[h].fields
     /\ value \in Encodable \cup {Unpaired}
  THEN IF value = Unpaired
       THEN /\ objects' = [objects EXCEPT ![h].fields = SubSeq(@, 1, i - 1)]
            /\ written' = [written EXCEPT ![h] = SubSeq(@, 1, i - 1)]
            /\ fault' = TRUE /\ making' = <<>>
       ELSE /\ objects' = [objects EXCEPT ![h].fields[i] = value]
            /\ written' = [written EXCEPT ![h][i] = value]
            /\ fault' = FALSE /\ UNCHANGED making
  ELSE Faults

\* DATALENGTH counts the components of strips and strings only.
DataLength(h) == Reads(objects[h].is \in {"strip", "string"})

\* COPY: a new object of the kind, with components of its own; no copy of a function.
Copy(h) == IF objects[h].is = "array" THEN Faults
           ELSE /\ Len(objects) < MaxObjects
                /\ objects' = Made(objects[h])
                /\ written' = Append(written, written[h])
                /\ fault' = FALSE /\ UNCHANGED making

---------------------------------------------------------------------------
(* Arrays *)

\* The list of bounds, taken pair by pair: the spans must be integers and their product a
\* size below the limit.
Total(bounds, limit) ==
  LET total[i \in 0 .. Len(bounds)] ==
        IF i = 0 THEN 1
        ELSE LET span == bounds[i][2] - bounds[i][1] + 1
             IN IF total[i - 1] = 0 \/ bounds[i][2] < bounds[i][1] \/ span > MaxInteger
                   \/ span > limit \div total[i - 1]
                THEN 0 ELSE total[i - 1] * span
  IN IF bounds = <<>> THEN 0 ELSE total[Len(bounds)]

\* The offset of a list of indices: the last varies fastest.
OffsetColumns(bounds, indices) ==
  LET walk[i \in 0 .. Len(bounds)] ==
        IF i = 0 THEN [offset |-> 0, stride |-> 1]
        ELSE [offset |-> walk[i - 1].offset + (indices[i] - bounds[i][1]) * walk[i - 1].stride,
              stride |-> walk[i - 1].stride * (bounds[i][2] - bounds[i][1] + 1)]
  IN walk[Len(bounds)].offset

Offset(bounds, indices) ==
  LET walk[i \in 1 .. Len(bounds) + 1] ==
        IF i = Len(bounds) + 1 THEN [offset |-> 0, stride |-> 1]
        ELSE [offset |-> walk[i + 1].offset + (indices[i] - bounds[i][1]) * walk[i + 1].stride,
              stride |-> walk[i + 1].stride * (bounds[i][2] - bounds[i][1] + 1)]
  IN walk[1].offset

\* The indices @ARRIN gives the initializer for an offset.
IndicesAt(bounds, offset) ==
  LET walk[i \in 1 .. Len(bounds) + 1] ==
        IF i = Len(bounds) + 1 THEN [left |-> offset, at |-> <<>>]
        ELSE LET span == bounds[i][2] - bounds[i][1] + 1
             IN [left |-> walk[i + 1].left \div span,
                 at |-> <<bounds[i][1] + (walk[i + 1].left % span)>> \o walk[i + 1].at]
  IN walk[1].at

Tuples(bounds) ==
  {t \in [DOMAIN bounds -> UNION {b[1] .. b[2] : b \in {bounds[i] : i \in DOMAIN bounds}}] :
     \A i \in DOMAIN bounds : t[i] \in bounds[i][1] .. bounds[i][2]}

\* How many lists of indices come before one.
Position(bounds, indices) ==
  Cardinality({t \in Tuples(bounds) :
                 \E i \in DOMAIN bounds : t[i] < indices[i] /\ \A j \in 1 .. i - 1 : t[j] = indices[j]})

\* NEWARRAY, INIT and @ARRIN up to the first call of the initializer.
NewArray(bounds) ==
  LET total == Total(bounds, MaxTotal)
      strip == Len(objects) + 1
  IN IF total = 0 THEN Faults
     ELSE /\ Len(objects) + 2 <= MaxObjects
          /\ objects' = Append(Made([is |-> "strip", class |-> Standard, width |-> 0,
                                     fields |-> Zeros(total)]),
                               [is |-> "array", bounds |-> bounds, storage |-> strip, total |-> total])
          /\ written' = Append(Append(written, Zeros(total)), <<>>)
          /\ making' = Append(making, [array |-> strip + 1, offset |-> 0])
          /\ fault' = FALSE

\* The initializer returns a value for the next component; after the last one the array
\* is left on the stack.
Initialized(value) ==
  LET m == making[Len(making)]
      a == objects[m.array]
      outer == SubSeq(making, 1, Len(making) - 1)
  IN /\ making # <<>>
     /\ objects' = [objects EXCEPT ![a.storage].fields[m.offset + 1] = value]
     /\ written' = [written EXCEPT ![a.storage][Position(a.bounds, IndicesAt(a.bounds, m.offset)) + 1] = value]
     /\ making' = IF m.offset + 1 = a.total THEN outer
                  ELSE Append(outer, [m EXCEPT !.offset = @ + 1])
     /\ fault' = FALSE

\* Arrays the program can reach: those whose initialization has ended.  One that a fault
\* abandoned is in no variable either.
Reachable == {h \in Of("array") : /\ \A i \in DOMAIN making : making[i].array # h}

InBounds(bounds, indices) == /\ DOMAIN indices = DOMAIN bounds
                             /\ \A i \in DOMAIN bounds : indices[i] \in bounds[i][1] .. bounds[i][2]

Access(h, indices) ==
  LET a == objects[h]
  IN Reads(/\ InBounds(a.bounds, indices)
           /\ Offset(a.bounds, indices) + 1 \in DOMAIN objects[a.storage].fields)

SetAccess(h, indices, value) ==
  LET a == objects[h]
      at == Offset(a.bounds, indices) + 1
  IN IF InBounds(a.bounds, indices) /\ at \in DOMAIN objects[a.storage].fields
     THEN /\ objects' = [objects EXCEPT ![a.storage].fields[at] = value]
          /\ written' = [written EXCEPT ![a.storage][Position(a.bounds, indices) + 1] = value]
          /\ fault' = FALSE /\ UNCHANGED making
     ELSE Faults

\* BOUNDSLIST given new bounds: they may cover less than the storage.
SetBounds(h, bounds) ==
  IF Total(bounds, objects[h].total) = 0 THEN Faults
  ELSE /\ objects' = [objects EXCEPT ![h].bounds = bounds]
       /\ fault' = FALSE /\ UNCHANGED <<making, written>>

---------------------------------------------------------------------------
\* A string of two characters stands in the program.
Init == /\ objects = <<[is |-> "string", fields |-> <<1, 1>>]>> /\ written = <<<<1, 1>>>>
        /\ making = <<>> /\ fault = FALSE /\ steps = 0

OnRecords == \E widths \in Records :
               \/ ConsRecord(widths)
               \/ \E h \in Handles : \/ OpenRecord(widths, h)
                                     \/ \E i \in DOMAIN widths, v \in Values : SetField(widths, i, h, v)

OnStrips ==
  \/ \E n \in Sizes : \/ \E width \in Strips : NewStrip(<<width>>, width, n)
                      \/ NewStrip(Standard, 0, n)
  \/ \E h \in Handles, i \in Sizes, class \in {Standard} \cup {<<width>> : width \in Strips} :
       \/ Subscript(class, h, i)
       \/ \E v \in Values : IF objects[h].is = "string" THEN SetCharacter(h, i, v)
                            ELSE SetSubscript(class, h, i, v)
  \/ \E h \in Handles : Copy(h) \/ DataLength(h)

OnArrays ==
  \/ \E bounds \in BoundsLists : NewArray(bounds)
  \/ \E v \in Values : Initialized(v)
  \/ \E h \in Reachable :
       \/ \E bounds \in BoundsLists : SetBounds(h, bounds)
       \/ \E t \in Tuples(objects[h].bounds) : \/ Access(h, t)
                                               \/ \E v \in Values : SetAccess(h, t, v)

Next == /\ steps < MaxSteps /\ steps' = steps + 1
        /\ OnRecords \/ OnStrips \/ OnArrays

Spec == Init /\ [][Next]_vars

---------------------------------------------------------------------------
(* Properties *)

\* Whatever order a program reads, writes, copies and rebounds in, an array's component at
\* some indices is the one last given to the list of indices at that place of the
\* lexicographic order, initialization included; and it is there.
ArraysAgree ==
  /\ \A h \in Handles : objects[h].is # "array" => objects[h].fields = written[h]
  /\ \A h \in Reachable :
       \A t \in Tuples(objects[h].bounds) :
         /\ Position(objects[h].bounds, t) < objects[h].total
         /\ objects[objects[h].storage].fields[Offset(objects[h].bounds, t) + 1]
              = written[objects[h].storage][Position(objects[h].bounds, t) + 1]

\* No route to a component (constructors, selectors of the class, SUBSCR, copies) leaves a
\* value that does not fit its width.
WidthsKept ==
  \A h \in Handles :
    /\ objects[h].is = "record" => \A i \in DOMAIN objects[h].fields : Fits(objects[h].fields[i], objects[h].widths[i])
    /\ objects[h].is = "strip" => \A i \in DOMAIN objects[h].fields : Fits(objects[h].fields[i], objects[h].width)

\* A primitive that faults leaves every object as it was, but for a string whose new
\* character has no encoding.
FaultsChangeNothing ==
  [][fault' => \A h \in Handles :
                 objects'[h] = objects[h] \/ (objects[h].is = "string" /\ objects'[h].is = "string")]_vars
=============================================================================
