------------------------------ MODULE ImageWords ------------------------------
(***************************************************************************)
(* Words of the original image as the generated routines of                *)
(* src/machine.cpp keep them: the tables of names and of literals          *)
(* (p01107-p01167), the calls that bind words (p02750-p03261, p15765), the *)
(* stack of values, and arguments moved through the hardware stack         *)
(* (p20110, p20124).                                                       *)
(*                                                                         *)
(* A record's third word holds its class above and its link in the address *)
(* part: calls exchange the one and the table of names writes the other.   *)
(* Hashes, masks and the code of functions are data of the image.          *)
(***************************************************************************)
EXTENDS Integers, FiniteSets, SequencesExt

CONSTANTS
  Keys,       \* table -> what is entered in it: names, and words of literals
  Bucket,     \* key -> half of a word of its table
  Resident,   \* address -> name: words of the image (find_static_keyword)
  Arena,      \* addresses of storage
  True, False,
  Functions,  \* value -> [environment, bindings, frozen, inner]
  Data, Sites, MaxFrames, MaxValues

Tables == {"names", "literals"}
Undef == "undef"

VARIABLES
  heads,    \* table -> words, each an upper and a lower address (01200, 06143)
  records,  \* address -> [table, key, link, class, value]
  search,   \* a key that was not found, or NoSearch
  found,    \* what the step, if a search, answered (r16), or 0
  values,   \* the POP stack (r6), its top first
  stack,    \* the hardware stack (r17), its top last
  acc,      \* the accumulator, where arguments are moved
  staged,   \* how many arguments are on the hardware stack
  current,  \* the word of the current function (03274)
  link,     \* where the step, if a return, goes on (r15)
  needed,   \* ghost: the words the step, if a call, a return or a move of arguments, has
            \* needed of the hardware stack
  frames    \* ghost: the calls that have not returned

tables == <<heads, records, search>>
calls == <<stack, current, frames>>
vars == <<tables, found, values, calls, acc, staged, link, needed>>

NoSearch == [table |-> "", key |-> "", last |-> 0]
Highest(S) == CHOOSE x \in S : \A y \in S : y <= x
Drop(q, n) == SubSeq(q, 1, Len(q) - n)

Record(t, k) == [table |-> t, key |-> k, link |-> 0, class |-> "unbound", value |-> Undef]

\* One resident word in each chain that has any.
Init ==
  /\ records = [a \in DOMAIN Resident |-> [Record("names", Resident[a]) EXCEPT !.class = "variable"]]
  /\ heads = [t \in Tables |->
               [w \in {Bucket[k] \div 2 : k \in Keys[t]} |->
                 LET of(half) == {a \in DOMAIN Resident : t = "names" /\ Bucket[Resident[a]] = 2 * w + half}
                     head(half) == IF of(half) = {} THEN 0 ELSE CHOOSE a \in of(half) : TRUE
                 IN [upper |-> head(0), lower |-> head(1)]]]
  /\ search = NoSearch /\ found = 0 /\ values = <<>> /\ stack = <<>> /\ acc = Undef
  /\ staged = 0 /\ current = "" /\ link = "" /\ needed = 0 /\ frames = <<>>

Quiet == search = NoSearch /\ staged = 0

---------------------------------------------------------------------------
(* Tables *)

HeadOf(t, k) == LET w == heads[t][Bucket[k] \div 2] IN IF Bucket[k] % 2 = 1 THEN w.lower ELSE w.upper

\* The records of a chain, as long as links lead on.
Chain(t, k) ==
  LET n == Cardinality(DOMAIN records)
      upTo[i \in 0 .. n] ==
        LET q == upTo[i - 1]
            next == records[q[Len(q)]].link
        IN IF i = 0 THEN IF HeadOf(t, k) = 0 THEN <<>> ELSE <<HeadOf(t, k)>>
           ELSE IF Len(q) < i \/ next = 0 THEN q ELSE Append(q, next)
  IN upTo[n]

Static(t, k) == IF t = "names" THEN {a \in DOMAIN Resident : Resident[a] = k} ELSE {}

\* 01107, 01167: a name of the image is found at once, others along their chain; for a key that
\* is not there storage is asked for, to go on at 01140 in an empty chain or at 01151.
LookUp(t, k) ==
  LET q == Chain(t, k)
      with == {i \in DOMAIN q : records[q[i]].key = k}
  IN /\ Quiet
     /\ \/ \E a \in Static(t, k) : found' = a /\ UNCHANGED search
        \/ /\ Static(t, k) = {} /\ with # {}
           /\ found' = q[CHOOSE i \in with : \A j \in with : i <= j] /\ UNCHANGED search
        \/ /\ Static(t, k) = {} /\ with = {} /\ found' = 0
           /\ search' = [table |-> t, key |-> k, last |-> IF q = <<>> THEN 0 ELSE q[Len(q)]]
  /\ link' = "" /\ needed' = 0 /\ UNCHANGED <<heads, records, values, calls, acc, staged>>

\* A step of XOR into an address: nothing else was there, or what comes out is none.
Added(x, a) == IF x = 0 THEN a ELSE -1

\* Mutant: the word is stored, not added to.
HeadedAnew(w, k, a) == IF Bucket[k] % 2 = 1 THEN [upper |-> 0, lower |-> a] ELSE [upper |-> a, lower |-> 0]

\* 01140: the address is added to a half of the word of the table, whose other half stays.
Headed(w, k, a) == IF Bucket[k] % 2 = 1 THEN [w EXCEPT !.lower = Added(@, a)] ELSE [w EXCEPT !.upper = Added(@, a)]

\* 01140 or 01151, then 01154: the new record is entered and filled.
Entered(a) ==
  /\ search # NoSearch /\ a \in Arena \ DOMAIN records
  /\ LET k == search.key
         t == search.table
         linked == IF search.last = 0 THEN records
                   ELSE [records EXCEPT ![search.last].link = Added(@, a)]
     IN /\ records' = [b \in DOMAIN records \cup {a} |-> IF b = a THEN Record(t, k) ELSE linked[b]]
        /\ heads' = IF search.last = 0
                    THEN [heads EXCEPT ![t][Bucket[k] \div 2] = Headed(@, k, a)] ELSE heads
  /\ found' = a /\ search' = NoSearch /\ link' = "" /\ needed' = 0
  /\ UNCHANGED <<values, calls, acc, staged>>

---------------------------------------------------------------------------
(* Values *)

Simple == Quiet /\ found' = 0 /\ link' = "" /\ needed' = 0 /\ UNCHANGED <<heads, search, calls, acc, staged>>

Push(v) == /\ Simple /\ UNCHANGED records
           /\ Len(values) < MaxValues /\ values' = <<v>> \o values

\* 03301, 03303.
Named(a) == a \in DOMAIN records /\ records[a].table = "names"
Load(a) == Named(a) /\ Push(records[a].value)
Store(a) == /\ Simple /\ Named(a) /\ values # <<>>
            /\ records' = [records EXCEPT ![a].value = Head(values)]
            /\ values' = Tail(values)

---------------------------------------------------------------------------
(* Calls *)

Keep(s) == [s EXCEPT !.peak = Highest({s.peak, Len(s.stack)})]
PushedWords(s, q) == Keep([s EXCEPT !.stack = @ \o q])
Borrowing(s, n) == [s EXCEPT !.peak = Highest({s.peak, Len(s.stack) + n})]
State == [stack |-> stack, values |-> values, records |-> records, peak |-> Len(stack)]

\* 03214-03232, one binding: the value and the class are saved, the binding's class and UNDEF
\* installed, and an argument taken, with three registers on the stack meanwhile.
Bound(s, b) ==
  LET r == s.records[b.word]
      t == PushedWords(s, <<r.value, r.class>>)
      v == IF b.argument THEN Head(s.values) ELSE Undef
      u == [t EXCEPT !.records[b.word] = [r EXCEPT !.class = b.class, !.value = v],
                     !.values = IF b.argument THEN Tail(@) ELSE @]
  IN IF b.argument THEN Borrowing(u, 3) ELSE u

\* 03242-03256, one binding: a result is pushed, and class and value are taken back.
Restored(s, b) ==
  LET n == Len(s.stack)
      t == [s EXCEPT !.records[b.word].class = s.stack[n], !.records[b.word].value = s.stack[n - 1],
                     !.stack = Drop(@, 2)]
  IN IF b.result THEN [t EXCEPT !.values = <<s.records[b.word].value>> \o @,
                                !.peak = Highest({@, n + 3})]
     ELSE t

Bindings(f) == IF f # "" /\ Functions[f].environment THEN Functions[f].bindings ELSE <<>>
Arguments(f) == Cardinality({i \in DOMAIN Bindings(f) : Bindings(f)[i].argument})

\* 15765: the frozen values are pushed in their order.
Thawed(s, f) == [s EXCEPT !.values = Reverse(Functions[f].frozen) \o @]

\* 02750 leads by way of 15765 to the function proper; the header and the bindings, from the
\* last to the first, go on the stack (03206), or the header alone (03261).  Arguments that are
\* not there are taken from what lies beyond the stack; here they are there.
Called(f, site, s) ==
  LET bs == Bindings(f)
  IN /\ Len(s.values) >= Arguments(f) /\ Len(s.values) <= MaxValues
     /\ LET header == PushedWords(s, <<current, site>>)
            u == FoldLeft(Bound, header, Reverse(bs))
        IN stack' = u.stack /\ values' = u.values /\ records' = u.records /\ needed' = u.peak
     /\ current' = f
     /\ frames' = Append(frames, [function |-> f, previous |-> current, site |-> site,
                                  base |-> Len(stack),
                                  words |-> [w \in {bs[i].word : i \in DOMAIN bs} |-> s.records[w]]])

Call(f, site) ==
  /\ Quiet /\ Len(frames) < MaxFrames
  /\ IF Functions[f].inner = "" THEN Called(f, site, State)
     ELSE Called(Functions[f].inner, site, Thawed(State, f))
  /\ found' = 0 /\ link' = "" /\ UNCHANGED <<heads, search, acc, staged>>

\* Mutant: bindings are restored in the order they were installed in.
ReturnedFromBackwards(s) ==
  /\ frames # <<>>
  /\ LET u == FoldLeft(Restored, s, Reverse(Bindings(current)))
         n == Len(u.stack)
     IN /\ stack' = Drop(u.stack, 2) /\ link' = u.stack[n] /\ current' = u.stack[n - 1]
        /\ values' = u.values /\ records' = u.records /\ needed' = u.peak
  /\ frames' = Drop(frames, 1) /\ found' = 0 /\ UNCHANGED <<heads, search, acc, staged>>

\* 03235: the descriptor in 03274 leads to the bindings, from the first to the last; below them
\* are the link and the caller's descriptor.
ReturnedFrom(s) ==
  /\ frames # <<>>
  /\ LET u == FoldLeft(Restored, s, Bindings(current))
         n == Len(u.stack)
     IN /\ stack' = Drop(u.stack, 2) /\ link' = u.stack[n] /\ current' = u.stack[n - 1]
        /\ values' = u.values /\ records' = u.records /\ needed' = u.peak
  /\ frames' = Drop(frames, 1) /\ found' = 0 /\ UNCHANGED <<heads, search, acc, staged>>

Results(f) == Cardinality({i \in DOMAIN Bindings(f) : Bindings(f)[i].result})

Return == /\ Quiet /\ current # "=" /\ Len(values) + Results(current) <= MaxValues
          /\ ReturnedFrom(State)

\* 03374: two values are compared as words; 03314 pushes the answer and returns.
Same ==
  /\ Quiet /\ current = "=" /\ Len(values) >= 2
  /\ LET answer == IF values[1] = values[2] THEN True ELSE False
     IN ReturnedFrom([State EXCEPT !.values = <<answer>> \o SubSeq(@, 3, Len(@))])

\* 13362: an error abandons calls and both stacks, and no binding is restored.
Setpop == /\ Quiet /\ stack' = <<>> /\ values' = <<>> /\ frames' = <<>> /\ link' = "top"
          /\ found' = 0 /\ needed' = 0 /\ UNCHANGED <<tables, acc, staged, current>>

---------------------------------------------------------------------------
(* Arguments on their way to a call *)

\* 20110: n values move to the hardware stack, above a word that is left as it was; the last
\* of them ends in the accumulator.  Of more than one, three registers are saved above them.
Transfer(n) ==
  /\ Quiet /\ n > 0 /\ Len(values) >= n
  /\ LET moved == Reverse(SubSeq(values, 1, n))
     IN stack' = stack \o <<Undef>> \o Drop(moved, 1) /\ acc' = moved[n]
  /\ values' = SubSeq(values, n + 1, Len(values))
  /\ needed' = Len(stack) + IF n = 1 THEN 1 ELSE n + 4
  /\ staged' = n
  /\ found' = 0 /\ link' = "" /\ UNCHANGED <<tables, current, frames>>

\* 20124: n values move back from the stack, the accumulator on top of it, above which four
\* words are used.
Build ==
  /\ staged > 0
  /\ LET n == staged
         q == Append(stack, acc)
     IN /\ values' = Reverse(SubSeq(q, Len(q) - n + 1, Len(q))) \o values
        /\ stack' = Drop(stack, n)
        /\ needed' = Len(stack) + 4
  /\ staged' = 0 /\ acc' = Undef
  /\ found' = 0 /\ link' = "" /\ UNCHANGED <<tables, current, frames>>

---------------------------------------------------------------------------
Next == \/ \E t \in Tables : \E k \in Keys[t] : LookUp(t, k)
        \/ \E a \in Arena : Entered(a)
        \/ \E v \in Data : Push(v)
        \/ \E a \in DOMAIN records : Load(a) \/ Store(a)
        \/ \E f \in DOMAIN Functions, s \in Sites : Call(f, s)
        \/ Return \/ Same \/ Setpop
        \/ \E n \in 1 .. MaxValues : Transfer(n)
        \/ Build

Spec == Init /\ [][Next]_vars

---------------------------------------------------------------------------
(* Properties *)

\* Every record is found by its key, and once only: neither half of a word of a table disturbs
\* the other, and no exchange of classes a link.
EachFoundOnce ==
  \A a \in DOMAIN records :
    LET q == Chain(records[a].table, records[a].key)
    IN \E i \in DOMAIN q : q[i] = a /\ \A j \in DOMAIN q \ {i} : records[q[j]].key # records[a].key

\* A return leaves the caller its words as they were, whatever was entered or assigned to them
\* during the call, and goes on where it was made.
Restoring ==
  Len(frames') < Len(frames) /\ link' # "top" =>
        LET f == frames[Len(frames)]
        IN /\ Len(stack') = f.base /\ stack' = SubSeq(stack, 1, f.base)
           /\ link' = f.site /\ current' = f.previous
           /\ \A i \in DOMAIN Bindings(f.function) :
                LET w == Bindings(f.function)[i].word
                IN /\ records'[w].value = f.words[w].value
                   /\ records'[w].class = f.words[w].class

CallersRestored == [][Restoring]_vars

\* A call in the terms of the native frame store.
Slots(f) == [i \in DOMAIN Bindings(f) |-> [argument |-> Bindings(f)[i].argument,
                                          result |-> Bindings(f)[i].result]]
Native == INSTANCE NativeFrames WITH
  Capacity <- 99, Limit <- 0, MaxArguments <- MaxValues, Shapes <- {},
  frames <- <<>>, words <- 0, peak <- 0, exhausted <- "none"

\* The hardware stack holds and needs, for calls, returns and arguments, exactly what the native
\* frame store charges for them.
Charging ==
  needed' > 0 =>
       LET f == IF Len(frames') > Len(frames) THEN current' ELSE current
           cost == Native!Cost(Slots(f))
       IN CASE Len(frames') > Len(frames) -> /\ Len(stack') = Len(stack) + cost.retained
                                             /\ needed' = Len(stack) + cost.entry
            [] Len(frames') < Len(frames) -> /\ Len(stack) = Len(stack') + cost.retained
                                             /\ needed' = Len(stack') + cost.exit
            [] staged' > 0 -> /\ Len(stack') = Len(stack) + staged'
                              /\ needed' <= Len(stack) + Native!RebuildPeak(staged')
            [] staged > 0 -> needed' = Len(stack') + Native!RebuildPeak(staged)

ChargedAsNative == [][Charging]_vars
=============================================================================
