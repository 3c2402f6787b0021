------------------------- MODULE NativeClosures_proofs -------------------------
(* Theorems about calls and closures of the native runtime, for all programs,   *)
(* historically and with cells: callers get their words back, the value of a    *)
(* word is its cell's, a running function sees its environment, and collections *)
(* keep the cells that are needed.                                              *)
EXTENDS NativeClosures, OrderFacts

Env == UNION {[S -> Cells] : S \in SUBSET Words}
Saves == [word : Words, value : Value, class : BOOLEAN, cell : {0} \cup Cells]
Frames == [function : Handles, environment : Env, saved : Seq(Saves), entered : View]
Instances == [body : Bodies, environment : Env]

Typed ==
  /\ binding \in [Words -> Value] /\ class \in [Words -> BOOLEAN] /\ active \in Env
  /\ functions \in [DOMAIN functions -> Instances]
  /\ cells \in [DOMAIN cells -> Value]
  /\ frames \in Seq(Frames)
  /\ values \in Seq(Value) /\ floor \in Value /\ below \in BOOLEAN
  /\ nextHandle \in 1 .. MaxHandle + 1 /\ nextCell \in 1 .. MaxCell + 1

\* Handles and cells are new when they are given out, and environments are finite.
Counted ==
  /\ Bodies \subseteq 1 .. nextHandle - 1
  /\ DOMAIN functions \subseteq (1 .. nextHandle - 1) \ Bodies
  /\ DOMAIN cells \subseteq 1 .. nextCell - 1
  /\ \A i \in DOMAIN frames : IsFiniteSet(DOMAIN frames[i].environment)
  /\ \A h \in DOMAIN functions : IsFiniteSet(DOMAIN functions[h].environment)

\* Every cell belongs to one word, wherever it is installed, saved or captured.
Respects(owner) ==
  /\ \A w \in DOMAIN active : owner[active[w]] = w
  /\ \A i \in DOMAIN frames :
       /\ \A w \in DOMAIN frames[i].environment : owner[frames[i].environment[w]] = w
       /\ \A j \in DOMAIN frames[i].saved :
            frames[i].saved[j].cell # 0 => owner[frames[i].saved[j].cell] = frames[i].saved[j].word
  /\ \A h \in DOMAIN functions :
       \A w \in DOMAIN functions[h].environment : owner[functions[h].environment[w]] = w

OneWord == \E owner \in [Cells -> Words \cup {Undefined}] : Respects(owner)

\* Historically there are no cells.
NoCells ==
  ~Experimental => /\ DOMAIN active = {} /\ DOMAIN functions = {}
                   /\ \A i \in DOMAIN frames :
                        /\ DOMAIN frames[i].environment = {}
                        /\ \A j \in DOMAIN frames[i].saved : frames[i].saved[j].cell = 0

CellIn(a, w) == IF w \in DOMAIN a THEN a[w] ELSE 0

\* The view when the i-th call was made, or now.
At(i) == IF i <= Len(frames) THEN frames[i].entered ELSE view

\* What a call saved of a word first is what the word meant at the call, and a word of which
\* it saved nothing means in the callee what it meant at the call.
FirstSaved(f) ==
  \A j \in DOMAIN f.saved :
    (\A m \in 1 .. j - 1 : f.saved[m].word # f.saved[j].word)
      => f.saved[j] = SavedOf(f.entered, f.saved[j].word)

Passes(f, next) ==
  \A w \in Words :
    (\A j \in DOMAIN f.saved : f.saved[j].word # w)
      => next.class[w] = f.entered.class[w] /\ CellIn(next.active, w) = CellIn(f.entered.active, w)

\* The words of its environment have its cells.
Sees(f, next) ==
  \A w \in DOMAIN f.environment : CellIn(next.active, w) = f.environment[w]

Chained == \A i \in DOMAIN frames :
             FirstSaved(frames[i]) /\ Passes(frames[i], At(i + 1)) /\ Sees(frames[i], At(i + 1))

\* Cells and functions that something leads to are there: CellsLive, said of one thing at a time.
Known == {Undefined, Number} \cup Bodies \cup DOMAIN functions

Live ==
  /\ \A w \in DOMAIN active : active[w] \in DOMAIN cells
  /\ \A i \in DOMAIN frames :
       /\ frames[i].function \in Known
       /\ \A w \in DOMAIN frames[i].environment : frames[i].environment[w] \in DOMAIN cells
       /\ \A j \in DOMAIN frames[i].saved : /\ frames[i].saved[j].cell \in {0} \cup DOMAIN cells
                                            /\ frames[i].saved[j].value \in Known
  /\ \A h \in DOMAIN functions :
       \A w \in DOMAIN functions[h].environment : functions[h].environment[w] \in DOMAIN cells
  /\ \A k \in DOMAIN values : values[k] \in Known
  /\ floor \in Known
  /\ \A w \in Words : binding[w] \in Known
  /\ \A c \in DOMAIN cells : cells[c] \in Known

Inv == Typed /\ Counted /\ OneWord /\ NoCells /\ Chained /\ ViewAgrees /\ Live

---------------------------------------------------------------------------
(* Partial functions from words to cells *)

LEMMA CellInType ==
  ASSUME NEW a \in Env, NEW w
  PROVE  /\ DOMAIN a \in SUBSET Words /\ (w \in DOMAIN a => w \in Words /\ a[w] \in Cells /\ CellIn(a, w) = a[w])
         /\ (w \notin DOMAIN a => CellIn(a, w) = 0)
         /\ CellIn(a, w) \in {0} \cup Cells
         /\ (CellIn(a, w) # 0 => w \in DOMAIN a)
BY DEF Env, CellIn

\* Cells are told from no cell.
LEMMA CellsPositive == \A c \in Cells : c \in Nat /\ c # 0
BY BodiesAssumption DEF Cells

\* Two that have the same cells are the same.
LEMMA SameCells ==
  ASSUME NEW a \in Env, NEW b \in Env, \A w \in Words : CellIn(a, w) = CellIn(b, w)
  PROVE  a = b
<1>1. PICK S \in SUBSET Words : a \in [S -> Cells]
  BY DEF Env
<1>2. PICK T \in SUBSET Words : b \in [T -> Cells]
  BY DEF Env
<1>3. ASSUME NEW w \in Words PROVE (w \in S <=> w \in T) /\ (w \in S => a[w] = b[w])
  BY <1>1, <1>2, CellsPositive DEF CellIn
<1>4. S = T
  BY <1>3
<1> QED
  BY <1>1, <1>2, <1>3, <1>4

\* A cell given to a word.
LEMMA Given ==
  ASSUME NEW a \in Env, NEW w \in Words, NEW c \in Cells
  PROVE  /\ With(a, w, c) \in Env
         /\ DOMAIN (With(a, w, c)) = DOMAIN a \cup {w}
         /\ (With(a, w, c))[w] = c
         /\ \A x \in DOMAIN a : x # w => (With(a, w, c))[x] = a[x]
         /\ CellIn(With(a, w, c), w) = c
         /\ \A x \in Words : x # w => CellIn(With(a, w, c), x) = CellIn(a, x)
<1>1. PICK S \in SUBSET Words : a \in [S -> Cells]
  BY DEF Env
<1>2. With(a, w, c) = [x \in {w} \cup S |-> IF x = w THEN c ELSE a[x]]
  BY <1>1 DEF With, Over
<1>3. With(a, w, c) \in [{w} \cup S -> Cells] /\ {w} \cup S \in SUBSET Words
  BY <1>1, <1>2
<1> QED
  BY <1>1, <1>2, <1>3 DEF Env, CellIn

LEMMA GivenCells ==
  \A a \in Env, w \in Words, c \in Cells :
    /\ With(a, w, c) \in Env /\ DOMAIN With(a, w, c) = DOMAIN a \cup {w}
    /\ CellIn(With(a, w, c), w) = c
    /\ \A x \in Words : x # w => CellIn(With(a, w, c), x) = CellIn(a, x)
<1> TAKE a \in Env, w \in Words, c \in Cells
<1> QED
  BY Given, SMTT(60)

\* A word that loses its cell.
LEMMA Dropped ==
  ASSUME NEW a \in Env, NEW w
  PROVE  /\ But(a, {w}) \in Env
         /\ DOMAIN But(a, {w}) = DOMAIN a \ {w}
         /\ CellIn(But(a, {w}), w) = 0
         /\ \A x \in DOMAIN a : x # w => But(a, {w})[x] = a[x]
         /\ \A x \in Words : x # w => CellIn(But(a, {w}), x) = CellIn(a, x)
<1>1. PICK S \in SUBSET Words : a \in [S -> Cells]
  BY DEF Env
<1>2. But(a, {w}) = [x \in S \ {w} |-> a[x]]
  BY <1>1 DEF But, Only
<1>3. But(a, {w}) \in [S \ {w} -> Cells] /\ S \ {w} \in SUBSET Words
  BY <1>1, <1>2
<1> QED
  BY <1>1, <1>2, <1>3 DEF Env, CellIn

\* The induction the proofs use: a set of naturals that goes from 0 as far as n.
LEMMA UpTo ==
  ASSUME NEW n \in Nat, NEW S, 0 \in S, \A k \in 0 .. n : k \in S /\ k < n => k + 1 \in S
  PROVE  \A k \in 0 .. n : k \in S
<1> SUFFICES ASSUME NEW z \in 0 .. n, z \notin S PROVE FALSE
  OBVIOUS
<1> DEFINE B == {k \in 0 .. n : k \notin S}
<1>1. B \in SUBSET Nat /\ B # {}
  OBVIOUS
<1>2. PICK m \in B : \A k \in B : m <= k
  <2> HIDE DEF B
  <2> QED BY <1>1, LeastNatural
<1>3. m \in Nat /\ m # 0 /\ m - 1 \in 0 .. n /\ m - 1 < n /\ m - 1 + 1 = m
  BY <1>2
<1>4. m - 1 \in S
  BY <1>2, <1>3
<1> QED
  BY <1>2, <1>3, <1>4

---------------------------------------------------------------------------
(* One binding installed, saved and restored *)

LEMMA ValueFacts == Undefined \in Value /\ Number \in Value /\ Handles \subseteq Value /\ Bodies \subseteq Handles
BY BodiesAssumption DEF Value, Handles

LEMMA ViewParts ==
  ASSUME NEW v \in View
  PROVE  /\ v.binding \in [Words -> Value] /\ v.class \in [Words -> BOOLEAN] /\ v.active \in Env
         /\ v = [binding |-> v.binding, class |-> v.class, active |-> v.active]
BY DEF View, Env

\* Two views that give a word the same meaning, and one in which the word is given a value and a cell.
Same(u, v, w) ==
  u.binding[w] = v.binding[w] /\ u.class[w] = v.class[w] /\ CellIn(u.active, w) = CellIn(v.active, w)
Taken(u, v, w, c, value) ==
  /\ u.binding[w] = value
  /\ CellIn(u.active, w) = IF c = 0 THEN CellIn(v.active, w) ELSE c
  /\ DOMAIN u.active = IF c = 0 THEN DOMAIN v.active ELSE DOMAIN v.active \cup {w}

LEMMA InstalledIs ==
  ASSUME NEW v \in View, NEW w \in Words, NEW c \in {0} \cup Cells, NEW value \in Value
  PROVE  /\ Installed(v, w, c, value) \in View /\ Taken(Installed(v, w, c, value), v, w, c, value)
         /\ \A x \in Words : x # w => Same(Installed(v, w, c, value), v, x)
<1> DEFINE u == Installed(v, w, c, value)
<1>1. /\ u.binding = [v.binding EXCEPT ![w] = value] /\ u.class = [v.class EXCEPT ![w] = FALSE]
      /\ u.active = IF c = 0 THEN v.active ELSE With(v.active, w, c)
      /\ u = [binding |-> u.binding, class |-> u.class, active |-> u.active]
  BY DEF Installed
<1>2. c # 0 => /\ With(v.active, w, c) \in Env /\ CellIn(With(v.active, w, c), w) = c
               /\ DOMAIN With(v.active, w, c) = DOMAIN v.active \cup {w}
               /\ \A x \in Words : x # w => CellIn(With(v.active, w, c), x) = CellIn(v.active, x)
  <2> SUFFICES ASSUME c # 0 PROVE /\ With(v.active, w, c) \in Env /\ CellIn(With(v.active, w, c), w) = c
                                   /\ DOMAIN With(v.active, w, c) = DOMAIN v.active \cup {w}
                                   /\ \A x \in Words : x # w => CellIn(With(v.active, w, c), x) = CellIn(v.active, x)
    OBVIOUS
  <2>1. c \in Cells /\ v.active \in Env
    BY ViewParts
  <2> QED BY <2>1, GivenCells, ZenonT(60)
<1>3. u \in View
  <2>1. u.binding \in [Words -> Value] /\ u.class \in [Words -> BOOLEAN] /\ u.active \in Env
    <3> HIDE DEF u
    <3> QED BY <1>1, <1>2, ViewParts
  <2> HIDE DEF u
  <2> QED BY <1>1, <2>1 DEF View, Env
<1> HIDE DEF u
<1>4. u.binding[w] = value /\ u.class[w] = FALSE /\ \A x \in Words : x # w => u.binding[x] = v.binding[x] /\ u.class[x] = v.class[x]
  BY <1>1, ViewParts
<1>5. Taken(u, v, w, c, value)
  BY <1>1, <1>2, <1>4 DEF Taken, CellIn
<1>6. \A x \in Words : x # w => Same(u, v, x)
  BY <1>1, <1>2, <1>4 DEF Same
<1> QED
  BY <1>3, <1>5, <1>6 DEF u

LEMMA RestoredIs ==
  ASSUME NEW v \in View, NEW s \in Saves, NEW C, RestoredValue(s, C) \in Value
  PROVE  LET u == Restored(v, s, C) IN
         /\ u \in View
         /\ u.binding[s.word] = RestoredValue(s, C) /\ u.class[s.word] = s.class
         /\ CellIn(u.active, s.word) = s.cell
         /\ \A x \in Words : x # s.word => /\ u.binding[x] = v.binding[x] /\ u.class[x] = v.class[x]
                                           /\ CellIn(u.active, x) = CellIn(v.active, x)
<1> DEFINE u == Restored(v, s, C)
<1>0. s.word \in Words /\ s.class \in BOOLEAN /\ s.cell \in {0} \cup Cells
  BY DEF Saves
<1>1. /\ u.binding = [v.binding EXCEPT ![s.word] = RestoredValue(s, C)] /\ u.class = [v.class EXCEPT ![s.word] = s.class]
      /\ u.active = IF s.cell = 0 THEN But(v.active, {s.word}) ELSE With(v.active, s.word, s.cell)
      /\ u = [binding |-> u.binding, class |-> u.class, active |-> u.active]
  BY DEF Restored
<1>2. s.cell # 0 => /\ With(v.active, s.word, s.cell) \in Env /\ CellIn(With(v.active, s.word, s.cell), s.word) = s.cell
                    /\ \A x \in Words : x # s.word => CellIn(With(v.active, s.word, s.cell), x) = CellIn(v.active, x)
  <2> SUFFICES ASSUME s.cell # 0
               PROVE  /\ With(v.active, s.word, s.cell) \in Env /\ CellIn(With(v.active, s.word, s.cell), s.word) = s.cell
                      /\ \A x \in Words : x # s.word => CellIn(With(v.active, s.word, s.cell), x) = CellIn(v.active, x)
    OBVIOUS
  <2>1. s.cell \in Cells /\ v.active \in Env
    BY <1>0, ViewParts
  <2>2. s.word \in Words
    BY <1>0
  <2> QED BY <2>1, <2>2, GivenCells, ZenonT(60)
<1>3. /\ But(v.active, {s.word}) \in Env /\ CellIn(But(v.active, {s.word}), s.word) = 0
      /\ \A x \in Words : x # s.word => CellIn(But(v.active, {s.word}), x) = CellIn(v.active, x)
  BY ViewParts, Dropped
<1>4. u \in View
  <2>1. u.binding \in [Words -> Value] /\ u.class \in [Words -> BOOLEAN] /\ u.active \in Env
    <3> HIDE DEF u
    <3> QED BY <1>0, <1>1, <1>2, <1>3, ViewParts
  <2> HIDE DEF u
  <2> QED BY <1>1, <2>1 DEF View, Env
<1> HIDE DEF u
<1>5. /\ u.binding[s.word] = RestoredValue(s, C) /\ u.class[s.word] = s.class
      /\ \A x \in Words : x # s.word => u.binding[x] = v.binding[x] /\ u.class[x] = v.class[x]
  BY <1>0, <1>1, ViewParts
<1> QED
  BY <1>1, <1>2, <1>3, <1>4, <1>5 DEF u

LEMMA SavedIs ==
  ASSUME NEW v \in View, NEW w \in Words
  PROVE  /\ SavedOf(v, w) \in Saves /\ SavedOf(v, w).word = w /\ SavedOf(v, w).value = v.binding[w]
         /\ SavedOf(v, w).class = v.class[w] /\ SavedOf(v, w).cell = CellIn(v.active, w)
<1>1. v.binding[w] \in Value /\ v.class[w] \in BOOLEAN /\ CellIn(v.active, w) \in {0} \cup Cells
  BY ViewParts, CellInType
<1> QED
  BY <1>1 DEF SavedOf, Saves, CellIn

---------------------------------------------------------------------------
(* The bindings of a call restored from the last *)

\* The views on the way.
Backwards(f, v, saved, C) ==
  f = [k \in 0 .. Len(saved) |-> IF k = 0 THEN v ELSE Restored(f[k - 1], saved[Len(saved) + 1 - k], C)]

LEMMA BackwardsThere ==
  ASSUME NEW v, NEW saved, Len(saved) \in Nat, NEW C
  PROVE  \E f : Backwards(f, v, saved, C) /\ RestoredAll(v, saved, C) = f[Len(saved)]
<1> DEFINE n == Len(saved)
           Good(f, m) == f = [k \in 0 .. m |-> IF k = 0 THEN v ELSE Restored(f[k - 1], saved[n + 1 - k], C)]
           S == {m \in 0 .. n : \E f : Good(f, m)}
<1>1. 0 \in S
  <2>1. Good([k \in 0 .. 0 |-> v], 0)
    OBVIOUS
  <2>2. 0 \in 0 .. n
    OBVIOUS
  <2> HIDE DEF Good
  <2> QED BY <2>1, <2>2
<1>2. ASSUME NEW m \in 0 .. n, m \in S, m < n PROVE m + 1 \in S
  <2>1. PICK f : Good(f, m)
    BY <1>2
  <2> DEFINE r == Restored(f[m], saved[n - m], C)
             g == [k \in 0 .. m + 1 |-> IF k = m + 1 THEN r ELSE f[k]]
  <2>2. DOMAIN f = 0 .. m /\ f[0] = v /\ \A k \in 1 .. m : f[k] = Restored(f[k - 1], saved[n + 1 - k], C)
    <3> HIDE DEF r, g
    <3> QED BY <2>1
  <2>3. ASSUME NEW k \in 0 .. m + 1
        PROVE  g[k] = IF k = 0 THEN v ELSE Restored(g[k - 1], saved[n + 1 - k], C)
    <3>1. CASE k = 0
      BY <2>2, <3>1
    <3>2. CASE k \in 1 .. m
      <4>1. g[k] = f[k] /\ g[k - 1] = f[k - 1]
        <5> HIDE DEF r
        <5> QED BY <3>2
      <4> HIDE DEF g
      <4> QED BY <4>1, <2>2, <3>2
    <3>3. CASE k = m + 1
      <4>1. g[k] = r /\ g[k - 1] = f[m] /\ n + 1 - k = n - m /\ k # 0
        <5> HIDE DEF r
        <5> QED BY <3>3
      <4> HIDE DEF g
      <4> QED BY <4>1
    <3> HIDE DEF g
    <3> QED BY <3>1, <3>2, <3>3
  <2>4. Good(g, m + 1)
    <3>1. g = [k \in 0 .. m + 1 |-> g[k]]
      <4> HIDE DEF r
      <4> QED OBVIOUS
    <3> HIDE DEF g
    <3> QED BY <2>3, <3>1
  <2>5. m + 1 \in 0 .. n
    BY <1>2
  <2> HIDE DEF g
  <2> QED BY <2>4, <2>5
<1>3. n \in S
  <2>1. n \in Nat /\ n \in 0 .. n
    OBVIOUS
  <2>2. \A k \in 0 .. n : k \in S /\ k < n => k + 1 \in S
    <3> HIDE DEF S
    <3> QED BY <1>2
  <2> HIDE DEF S, n
  <2> QED BY <1>1, <2>1, <2>2, UpTo, Zenon
<1>4. \E f : Good(f, n)
  BY <1>3
<1>5. Good(CHOOSE f : Good(f, n), n)
  <2> HIDE DEF Good
  <2> QED BY <1>4
<1>6. RestoredAll(v, saved, C) = (CHOOSE f : Good(f, n))[n]
  BY DEF RestoredAll
<1> QED
  <2>1. Backwards(CHOOSE f : Good(f, n), v, saved, C)
    <3> HIDE DEF Good
    <3>1. \A f : Good(f, n) => Backwards(f, v, saved, C)
      BY DEF Good, Backwards
    <3> QED BY <3>1, <1>5
  <2> HIDE DEF Good
  <2> QED BY <1>6, <2>1

\* A view in which a word means what was saved.
Has(u, s, C) ==
  u.binding[s.word] = RestoredValue(s, C) /\ u.class[s.word] = s.class /\ CellIn(u.active, s.word) = s.cell

\* What restoring leaves of a word that was not saved is what there was, and of one that was,
\* what was saved of it first.
LEMMA RestoredAllIs ==
  ASSUME NEW v \in View, NEW saved \in Seq(Saves), NEW C,
         \A j \in DOMAIN saved : RestoredValue(saved[j], C) \in Value
  PROVE  /\ RestoredAll(v, saved, C) \in View
         /\ \A w \in Words : (\A j \in DOMAIN saved : saved[j].word # w) => Same(RestoredAll(v, saved, C), v, w)
         /\ \A j \in DOMAIN saved : (\A m \in 1 .. j - 1 : saved[m].word # saved[j].word)
                                      => Has(RestoredAll(v, saved, C), saved[j], C)
<1> DEFINE n == Len(saved)
<1>1. n \in Nat /\ DOMAIN saved = 1 .. n /\ \A j \in 1 .. n : saved[j] \in Saves /\ saved[j].word \in Words
  <2>1. n \in Nat /\ DOMAIN saved = 1 .. n /\ \A j \in 1 .. n : saved[j] \in Saves
    OBVIOUS
  <2>2. \A s \in Saves : s.word \in Words
    BY DEF Saves
  <2> HIDE DEF n
  <2> QED BY <2>1, <2>2
<1>2. PICK f : Backwards(f, v, saved, C) /\ RestoredAll(v, saved, C) = f[n]
  BY <1>1, BackwardsThere
<1>3. f[0] = v /\ \A k \in 0 .. n - 1 : f[k + 1] = Restored(f[k], saved[n - k], C)
  <2>1. \A k \in 0 .. n : f[k] = IF k = 0 THEN v ELSE Restored(f[k - 1], saved[n + 1 - k], C)
    <3>1. f = [k \in 0 .. n |-> IF k = 0 THEN v ELSE Restored(f[k - 1], saved[n + 1 - k], C)]
      BY <1>2 DEF Backwards
    <3> HIDE DEF n
    <3> QED BY <3>1
  <2>2. f[0] = v
    <3> HIDE DEF n
    <3> QED BY <1>1, <2>1
  <2>3. ASSUME NEW k \in 0 .. n - 1 PROVE f[k + 1] = Restored(f[k], saved[n - k], C)
    <3> HIDE DEF n
    <3>1. k + 1 \in 0 .. n /\ k + 1 # 0 /\ k + 1 - 1 = k /\ n + 1 - (k + 1) = n - k
      BY <1>1
    <3>2. f[k + 1] = Restored(f[k + 1 - 1], saved[n + 1 - (k + 1)], C)
      BY <2>1, <3>1
    <3> QED BY <3>1, <3>2
  <2> QED BY <2>2, <2>3
<1> DEFINE P(k) == /\ f[k] \in View
                   /\ \A w \in Words : (\A j \in n + 1 - k .. n : saved[j].word # w) => Same(f[k], v, w)
                   /\ \A j \in n + 1 - k .. n : (\A m \in n + 1 - k .. j - 1 : saved[m].word # saved[j].word)
                                                  => Has(f[k], saved[j], C)
           S == {k \in 0 .. n : P(k)}
<1> HIDE DEF n
<1>4. 0 \in S
  <2>1. \A j \in n + 1 - 0 .. n : FALSE
    BY <1>1
  <2>2. \A w : Same(v, v, w)
    BY DEF Same
  <2> QED BY <1>1, <1>3, <2>1, <2>2
<1>5. ASSUME NEW k \in 0 .. n, k \in S, k < n PROVE k + 1 \in S
  <2> DEFINE i == n - k
             u == f[k + 1]
  <2>1. i \in 1 .. n /\ n + 1 - k = i + 1 /\ n + 1 - (k + 1) = i /\ k + 1 \in 0 .. n /\ k \in 0 .. n - 1
    BY <1>1, <1>5
  <2>2. u = Restored(f[k], saved[i], C)
    BY <1>3, <2>1
  <2>3. saved[i] \in Saves /\ saved[i].word \in Words /\ RestoredValue(saved[i], C) \in Value /\ f[k] \in View
    BY <1>1, <1>5, <2>1
  <2> HIDE DEF u, i
  <2>4. u \in View /\ Has(u, saved[i], C) /\ \A w \in Words : w # saved[i].word => Same(u, f[k], w)
    BY <2>2, <2>3, RestoredIs DEF Has, Same
  <2>5. /\ \A w \in Words : (\A j \in i + 1 .. n : saved[j].word # w) => Same(f[k], v, w)
        /\ \A j \in i + 1 .. n : (\A m \in i + 1 .. j - 1 : saved[m].word # saved[j].word) => Has(f[k], saved[j], C)
    BY <1>5, <2>1
  <2>6. ASSUME NEW w \in Words, \A j \in i .. n : saved[j].word # w PROVE Same(u, v, w)
    <3>1. Same(f[k], v, w) /\ Same(u, f[k], w)
      BY <2>1, <2>4, <2>5, <2>6
    <3> QED BY <3>1 DEF Same
  <2>7. ASSUME NEW j \in i .. n, \A m \in i .. j - 1 : saved[m].word # saved[j].word
        PROVE  Has(u, saved[j], C)
    <3>1. CASE j = i
      BY <2>4, <3>1
    <3>2. CASE j # i
      <4>1. j \in i + 1 .. n /\ saved[i].word # saved[j].word /\ saved[j].word \in Words
        BY <1>1, <2>1, <2>7, <3>2
      <4>2. Has(f[k], saved[j], C) /\ Same(u, f[k], saved[j].word)
        BY <2>1, <2>4, <2>5, <2>7, <4>1
      <4> QED BY <4>2 DEF Same, Has
    <3> QED BY <3>1, <3>2
  <2>8. P(k + 1)
    BY <2>1, <2>4, <2>6, <2>7 DEF u
  <2> HIDE DEF P
  <2> QED BY <2>1, <2>8
<1>6. P(n)
  <2>1. \A k \in 0 .. n : k \in S /\ k < n => k + 1 \in S
    <3> HIDE DEF S
    <3> QED BY <1>5
  <2>2. n \in 0 .. n
    BY <1>1
  <2>3. n \in S
    <3> HIDE DEF S
    <3> QED BY <1>1, <1>4, <2>1, <2>2, UpTo, Zenon
  <2> HIDE DEF P
  <2> QED BY <2>3
<1> QED
  BY <1>1, <1>2, <1>6

---------------------------------------------------------------------------
(* What returns restore *)

\* The first record of a word.
LEMMA FirstOf ==
  ASSUME NEW saved \in Seq(Saves), NEW j \in DOMAIN saved
  PROVE  \E i \in DOMAIN saved : /\ saved[i].word = saved[j].word
                                 /\ \A m \in 1 .. i - 1 : saved[m].word # saved[i].word
<1> DEFINE S == {i \in DOMAIN saved : saved[i].word = saved[j].word}
<1>1. S \in SUBSET Nat /\ S # {} /\ DOMAIN saved = 1 .. Len(saved) /\ Len(saved) \in Nat
  OBVIOUS
<1>2. PICK i \in S : \A x \in S : i <= x
  <2> HIDE DEF S
  <2> QED BY <1>1, LeastNatural
<1>3. ASSUME NEW m \in 1 .. i - 1 PROVE saved[m].word # saved[i].word
  <2>1. m \in DOMAIN saved /\ ~(i <= m)
    BY <1>1, <1>2
  <2> QED BY <1>2, <2>1
<1> QED
  BY <1>2, <1>3

LEMMA FrameParts ==
  ASSUME NEW f \in Frames
  PROVE  /\ f.function \in Handles /\ f.environment \in Env /\ f.saved \in Seq(Saves) /\ f.entered \in View
         /\ DOMAIN f.saved = 1 .. Len(f.saved) /\ Len(f.saved) \in Nat
         /\ \A j \in DOMAIN f.saved : f.saved[j] \in Saves /\ f.saved[j].word \in Words /\ f.saved[j].cell \in {0} \cup Cells
                                      /\ f.saved[j].value \in Value
<1>1. f.function \in Handles /\ f.environment \in Env /\ f.saved \in Seq(Saves) /\ f.entered \in View
  BY DEF Frames
<1>2. DOMAIN f.saved = 1 .. Len(f.saved) /\ Len(f.saved) \in Nat /\ \A j \in DOMAIN f.saved : f.saved[j] \in Saves
  BY <1>1
<1>3. \A s \in Saves : s.word \in Words /\ s.cell \in {0} \cup Cells /\ s.value \in Value
  BY DEF Saves
<1> QED
  BY <1>1, <1>2, <1>3

\* What a return finds in cells or in its records is a value.
LEMMA RestoredValues ==
  ASSUME Typed, Live, NEW i \in DOMAIN frames
  PROVE  \A j \in DOMAIN frames[i].saved : RestoredValue(frames[i].saved[j], cells) \in Value
<1> TAKE j \in DOMAIN frames[i].saved
<1> DEFINE s == frames[i].saved[j]
<1>1. frames[i] \in Frames
  BY DEF Typed
<1>2. s.value \in Value /\ s.cell \in {0} \cup DOMAIN cells
  BY <1>1, FrameParts DEF Live
<1>3. s.cell # 0 => cells[s.cell] \in Value
  BY <1>2 DEF Typed
<1> QED
  BY <1>2, <1>3 DEF RestoredValue

\* A return in a view whose words mean what they meant when the callee was entered.
LEMMA ReturnsTo ==
  ASSUME Typed, Live, NEW i \in DOMAIN frames, FirstSaved(frames[i]),
         NEW next \in View, Passes(frames[i], next),
         NEW v \in View, v.class = next.class, v.active = next.active
  PROVE  LET u == RestoredAll(v, frames[i].saved, cells)
             was == frames[i].entered
         IN /\ u \in View /\ u.class = was.class /\ u.active = was.active
            /\ \A j \in DOMAIN frames[i].saved :
                 LET w == frames[i].saved[j].word
                 IN u.binding[w] = IF w \in DOMAIN was.active THEN cells[was.active[w]] ELSE was.binding[w]
<1> DEFINE f == frames[i]
           saved == f.saved
           was == f.entered
           u == RestoredAll(v, saved, cells)
<1>1. f \in Frames
  BY DEF Typed
<1>2. saved \in Seq(Saves) /\ was \in View /\ \A j \in DOMAIN saved : saved[j].word \in Words
  BY <1>1, FrameParts
<1>3. \A j \in DOMAIN saved : RestoredValue(saved[j], cells) \in Value
  BY RestoredValues
<1>4. FirstSaved(f) /\ Passes(f, next)
  OBVIOUS
<1> HIDE DEF f
<1>5. /\ u \in View
      /\ \A w \in Words : (\A j \in DOMAIN saved : saved[j].word # w) => Same(u, v, w)
      /\ \A j \in DOMAIN saved : (\A m \in 1 .. j - 1 : saved[m].word # saved[j].word) => Has(u, saved[j], cells)
  <2> HIDE DEF saved, u
  <2>1. /\ RestoredAll(v, saved, cells) \in View
        /\ \A w \in Words : (\A j \in DOMAIN saved : saved[j].word # w) => Same(RestoredAll(v, saved, cells), v, w)
        /\ \A j \in DOMAIN saved : (\A m \in 1 .. j - 1 : saved[m].word # saved[j].word)
                                     => Has(RestoredAll(v, saved, cells), saved[j], cells)
    BY <1>2, <1>3, RestoredAllIs
  <2> QED BY <2>1 DEF u
<1> HIDE DEF u
<1>6. ASSUME NEW j \in DOMAIN saved
      PROVE  LET w == saved[j].word IN
             /\ u.class[w] = was.class[w] /\ CellIn(u.active, w) = CellIn(was.active, w)
             /\ u.binding[w] = IF w \in DOMAIN was.active THEN cells[was.active[w]] ELSE was.binding[w]
  <2> DEFINE w == saved[j].word
  <2>1. PICK k \in DOMAIN saved : saved[k].word = w /\ \A m \in 1 .. k - 1 : saved[m].word # saved[k].word
    BY <1>2, FirstOf
  <2>2. w \in Words
    BY <1>2
  <2>3. saved[k] = SavedOf(was, w) /\ Has(u, saved[k], cells)
    BY <1>4, <1>5, <2>1 DEF FirstSaved
  <2>4. /\ saved[k].value = was.binding[w] /\ saved[k].class = was.class[w]
        /\ saved[k].cell = CellIn(was.active, w)
    BY <1>2, <2>2, <2>3, SavedIs
  <2>5. /\ u.binding[w] = RestoredValue(saved[k], cells) /\ u.class[w] = saved[k].class /\ CellIn(u.active, w) = saved[k].cell
    BY <2>1, <2>3 DEF Has
  <2>6. was.active \in Env
    BY <1>2, ViewParts
  <2> HIDE DEF w, was, saved
  <2>7. CASE w \in DOMAIN was.active
    <3>1. CellIn(was.active, w) = was.active[w] /\ was.active[w] \in Cells
      BY <2>6, <2>7, CellInType
    <3>2. RestoredValue(saved[k], cells) = cells[was.active[w]]
      BY <2>4, <3>1, CellsPositive DEF RestoredValue
    <3> QED BY <2>4, <2>5, <2>7, <3>2 DEF w
  <2>8. CASE w \notin DOMAIN was.active
    <3>1. RestoredValue(saved[k], cells) = was.binding[w]
      BY <2>4, <2>8 DEF RestoredValue, CellIn
    <3> QED BY <2>4, <2>5, <2>8, <3>1 DEF w
  <2> QED BY <2>7, <2>8
<1>7. ASSUME NEW w \in Words
      PROVE  u.class[w] = was.class[w] /\ CellIn(u.active, w) = CellIn(was.active, w)
  <2>1. CASE \E j \in DOMAIN saved : saved[j].word = w
    BY <1>6, <2>1
  <2>2. CASE \A j \in DOMAIN saved : saved[j].word # w
    <3>1. Same(u, v, w)
      BY <1>5, <2>2
    <3>2. next.class[w] = was.class[w] /\ CellIn(next.active, w) = CellIn(was.active, w)
      BY <1>4, <2>2 DEF Passes
    <3> QED BY <3>1, <3>2 DEF Same
  <2> QED BY <2>1, <2>2
<1>8. u.class = was.class
  <2>1. u.class \in [Words -> BOOLEAN] /\ was.class \in [Words -> BOOLEAN]
    BY <1>2, <1>5, ViewParts
  <2> HIDE DEF was
  <2> QED BY <1>7, <2>1
<1>9. u.active = was.active
  <2>1. u.active \in Env /\ was.active \in Env
    BY <1>2, <1>5, ViewParts
  <2> HIDE DEF was
  <2> QED BY <1>7, <2>1, SameCells
<1> QED
  BY <1>5, <1>6, <1>8, <1>9 DEF u, f

\* The views that returns from the innermost call outwards restore.
Outwards(f, i) ==
  f = [k \in i - 1 .. Len(frames) |->
         IF k = Len(frames) THEN view ELSE RestoredAll(f[k + 1], frames[k + 1].saved, cells)]

LEMMA OutwardsThere ==
  ASSUME NEW i \in DOMAIN frames, frames \in Seq(Frames)
  PROVE  \E f : Outwards(f, i) /\ AfterReturns(i) = f[i - 1]
<1> DEFINE n == Len(frames)
           Good(f, m) == f = [k \in m .. n |-> IF k = n THEN view ELSE RestoredAll(f[k + 1], frames[k + 1].saved, cells)]
           S == {d \in 0 .. n : \E f : Good(f, n - d)}
<1>0. n \in Nat /\ i \in 1 .. n
  OBVIOUS
<1>1. 0 \in S
  <2>1. Good([k \in n .. n |-> view], n)
    OBVIOUS
  <2>2. 0 \in 0 .. n /\ n - 0 = n
    BY <1>0
  <2> HIDE DEF Good, n
  <2> QED BY <2>1, <2>2
<1>2. ASSUME NEW d \in 0 .. n, d \in S, d < n PROVE d + 1 \in S
  <2> DEFINE m == n - d - 1
  <2> HIDE DEF n
  <2>1. m \in 0 .. n - 1 /\ n - d = m + 1 /\ n - (d + 1) = m /\ d + 1 \in 0 .. n /\ m \in Nat
    BY <1>0, <1>2
  <2>2. PICK f : Good(f, m + 1)
    BY <1>2, <2>1
  <2> HIDE DEF m
  <2> DEFINE r == RestoredAll(f[m + 1], frames[m + 1].saved, cells)
             g == [k \in m .. n |-> IF k = m THEN r ELSE f[k]]
  <2>3. DOMAIN f = m + 1 .. n /\ \A k \in m + 1 .. n : f[k] = IF k = n THEN view ELSE RestoredAll(f[k + 1], frames[k + 1].saved, cells)
    <3> HIDE DEF r, g
    <3> QED BY <2>2
  <2>4. ASSUME NEW k \in m .. n
        PROVE  g[k] = IF k = n THEN view ELSE RestoredAll(g[k + 1], frames[k + 1].saved, cells)
    <3>1. CASE k = m
      <4>1. g[k] = r /\ g[k + 1] = f[m + 1] /\ k # n
        <5> HIDE DEF r
        <5> QED BY <1>0, <2>1, <3>1
      <4> HIDE DEF g
      <4> QED BY <3>1, <4>1
    <3>2. CASE k \in m + 1 .. n
      <4>1. g[k] = f[k] /\ (k # n => g[k + 1] = f[k + 1])
        <5> HIDE DEF r
        <5> QED BY <1>0, <2>1, <3>2
      <4> HIDE DEF g
      <4> QED BY <4>1, <2>3, <3>2
    <3>3. k = m \/ k \in m + 1 .. n
      BY <1>0, <2>1
    <3> HIDE DEF g
    <3> QED BY <3>1, <3>2, <3>3
  <2>5. Good(g, m)
    <3>1. g = [k \in m .. n |-> g[k]]
      <4> HIDE DEF r
      <4> QED OBVIOUS
    <3> HIDE DEF g
    <3> QED BY <2>4, <3>1
  <2>6. \E h : Good(h, n - (d + 1))
    <3> HIDE DEF g, Good
    <3> QED BY <2>1, <2>5
  <2> HIDE DEF g, Good
  <2> QED BY <2>1, <2>6
<1>3. n - (i - 1) \in S
  <2>1. n - (i - 1) \in 0 .. n
    <3> HIDE DEF n
    <3> QED BY <1>0
  <2>2. \A d \in 0 .. n : d \in S /\ d < n => d + 1 \in S
    <3> HIDE DEF S
    <3> QED BY <1>2
  <2> HIDE DEF S, n
  <2> QED BY <1>0, <1>1, <2>1, <2>2, UpTo, Zenon
<1>4. \E f : Good(f, i - 1)
  <2>1. n - (n - (i - 1)) = i - 1
    <3> HIDE DEF n
    <3> QED BY <1>0
  <2> HIDE DEF Good, n
  <2> QED BY <1>3, <2>1
<1>5. Good(CHOOSE f : Good(f, i - 1), i - 1)
  <2> HIDE DEF Good
  <2> QED BY <1>4
<1>6. AfterReturns(i) = (CHOOSE f : Good(f, i - 1))[i - 1]
  BY DEF AfterReturns
<1>7. Outwards(CHOOSE f : Good(f, i - 1), i)
  <2> HIDE DEF Good
  <2>1. \A f : Good(f, i - 1) => Outwards(f, i)
    BY DEF Good, Outwards
  <2> QED BY <2>1, <1>5
<1> HIDE DEF Good
<1> QED
  BY <1>6, <1>7

LEMMA AtParts ==
  ASSUME Typed, NEW i \in 1 .. Len(frames) + 1
  PROVE  At(i) \in View /\ (i \in DOMAIN frames => At(i) = frames[i].entered)
         /\ (i = Len(frames) + 1 => At(i) = view)
<1>1. view \in View
  BY DEF Typed, View, view, Env
<1>2. frames \in Seq(Frames) /\ Len(frames) \in Nat /\ DOMAIN frames = 1 .. Len(frames)
  BY DEF Typed
<1>3. i \in DOMAIN frames => frames[i].entered \in View
  BY <1>2, FrameParts
<1> QED
  BY <1>1, <1>2, <1>3 DEF At

\* Returning from calls leaves every caller what it had.
LEMMA ChainRestores ==
  ASSUME Typed, Live, Chained
  PROVE  RestoresCaller
<1> SUFFICES ASSUME NEW i \in DOMAIN frames
             PROVE  LET v == AfterReturns(i)
                        was == frames[i].entered
                    IN /\ v.class = was.class /\ v.active = was.active
                       /\ \A j \in DOMAIN frames[i].saved :
                            LET w == frames[i].saved[j].word
                            IN v.binding[w] = IF w \in DOMAIN was.active THEN cells[was.active[w]]
                                              ELSE was.binding[w]
  BY DEF RestoresCaller
<1> DEFINE n == Len(frames)
<1>1. frames \in Seq(Frames) /\ n \in Nat /\ DOMAIN frames = 1 .. n /\ i \in 1 .. n
  BY DEF Typed
<1>2. PICK f : Outwards(f, i) /\ AfterReturns(i) = f[i - 1]
  BY <1>1, OutwardsThere
<1>3. \A k \in i - 1 .. n : f[k] = IF k = n THEN view ELSE RestoredAll(f[k + 1], frames[k + 1].saved, cells)
  BY <1>2 DEF Outwards
<1> HIDE DEF n
<1> DEFINE P(k) == f[k] \in View /\ f[k].class = At(k + 1).class /\ f[k].active = At(k + 1).active
           S == {d \in 0 .. n : d > n - i + 1 \/ P(n - d)}
<1>4. 0 \in S
  <2>1. f[n] = view /\ At(n + 1) = view /\ At(n + 1) \in View
    <3>1. n \in i - 1 .. n /\ n + 1 \in 1 .. n + 1
      BY <1>1
    <3>2. f[n] = view
      BY <1>3, <3>1
    <3>3. At(n + 1) = view /\ At(n + 1) \in View
      BY <3>1, AtParts DEF n
    <3> QED BY <3>2, <3>3
  <2>2. P(n)
    BY <2>1
  <2>3. n - 0 = n /\ 0 \in 0 .. n
    BY <1>1
  <2> HIDE DEF P
  <2> QED BY <2>2, <2>3
<1>5. ASSUME NEW d \in 0 .. n, d \in S, d < n PROVE d + 1 \in S
  <2>1. CASE d + 1 > n - i + 1
    BY <1>1, <1>5, <2>1
  <2>2. CASE ~(d + 1 > n - i + 1)
    <3> DEFINE k == n - d
    <3>1. /\ k \in 1 .. n /\ k - 1 \in i - 1 .. n /\ k - 1 # n /\ k - 1 + 1 = k /\ n - (d + 1) = k - 1
          /\ ~(d > n - i + 1) /\ d + 1 \in 0 .. n /\ k + 1 \in 1 .. n + 1 /\ k \in 1 .. n + 1
      BY <1>1, <1>5, <2>2
    <3>2. P(k)
      <4> HIDE DEF P
      <4> QED BY <1>5, <3>1
    <3> HIDE DEF k
    <3>3. k \in DOMAIN frames /\ FirstSaved(frames[k]) /\ Passes(frames[k], At(k + 1))
      BY <1>1, <3>1 DEF Chained
    <3>4. At(k + 1) \in View /\ At(k) = frames[k].entered
      BY <1>1, <3>1, <3>3, AtParts DEF n
    <3>5. f[k - 1] = RestoredAll(f[k], frames[k].saved, cells)
      BY <1>3, <3>1
    <3> DEFINE v == f[k]
               next == At(k + 1)
    <3>6. v \in View /\ next \in View /\ v.class = next.class /\ v.active = next.active /\ Passes(frames[k], next)
      BY <3>2, <3>3, <3>4
    <3> HIDE DEF v, next
    <3>7. LET u == RestoredAll(v, frames[k].saved, cells)
          IN u \in View /\ u.class = frames[k].entered.class /\ u.active = frames[k].entered.active
      BY <3>3, <3>6, ReturnsTo
    <3>8. P(k - 1)
      BY <3>1, <3>4, <3>5, <3>7 DEF v
    <3> HIDE DEF P
    <3> QED BY <3>1, <3>8
  <2> QED BY <2>1, <2>2
<1>6. ASSUME NEW k \in i - 1 .. n PROVE P(k)
  <2>1. n - k \in 0 .. n /\ ~(n - k > n - i + 1) /\ n - (n - k) = k
    BY <1>1
  <2>2. \A d \in 0 .. n : d \in S /\ d < n => d + 1 \in S
    <3> HIDE DEF S
    <3> QED BY <1>5
  <2>3. n - k \in S
    <3> HIDE DEF S
    <3> QED BY <1>1, <1>4, <2>1, <2>2, UpTo, Zenon
  <2> HIDE DEF P
  <2> QED BY <2>1, <2>3
<1>7. i - 1 \in i - 1 .. n /\ i \in i - 1 .. n /\ i - 1 # n /\ i - 1 + 1 = i /\ i + 1 \in 1 .. n + 1
  BY <1>1
<1>8. P(i)
  BY <1>6, <1>7
<1>9. f[i - 1] = RestoredAll(f[i], frames[i].saved, cells)
  BY <1>3, <1>7
<1>10. FirstSaved(frames[i]) /\ Passes(frames[i], At(i + 1)) /\ At(i + 1) \in View
  BY <1>1, <1>7, AtParts DEF n, Chained
<1> DEFINE v == f[i]
           next == At(i + 1)
<1>11. v \in View /\ next \in View /\ v.class = next.class /\ v.active = next.active /\ Passes(frames[i], next)
  BY <1>8, <1>10
<1> HIDE DEF v, next, P, S
<1>12. LET u == RestoredAll(v, frames[i].saved, cells)
           was == frames[i].entered
       IN /\ u \in View /\ u.class = was.class /\ u.active = was.active
          /\ \A j \in DOMAIN frames[i].saved :
               LET w == frames[i].saved[j].word
               IN u.binding[w] = IF w \in DOMAIN was.active THEN cells[was.active[w]] ELSE was.binding[w]
  BY <1>10, <1>11, ReturnsTo
<1>13. AfterReturns(i) = RestoredAll(v, frames[i].saved, cells)
  BY <1>2, <1>9 DEF v
<1> QED
  BY SMTT(60), <1>12, <1>13

---------------------------------------------------------------------------
(* Returns *)

\* Every word of a restored view means what it did or what was saved of it.
LEMMA RestoredWords ==
  ASSUME Typed, Live, NEW i \in DOMAIN frames
  PROVE  LET u == RestoredAll(view, frames[i].saved, cells) IN
         /\ u \in View
         /\ \A w \in Words : \/ Same(u, view, w)
                             \/ \E j \in DOMAIN frames[i].saved : frames[i].saved[j].word = w /\ Has(u, frames[i].saved[j], cells)
<1> DEFINE saved == frames[i].saved
           u == RestoredAll(view, saved, cells)
<1>1. saved \in Seq(Saves) /\ \A j \in DOMAIN saved : RestoredValue(saved[j], cells) \in Value
  <2>1. frames[i] \in Frames
    BY DEF Typed
  <2> QED BY <2>1, FrameParts, RestoredValues
<1>2. view \in View
  BY DEF Typed, View, view, Env
<1> DEFINE v == view
<1> HIDE DEF saved, v
<1>3. /\ RestoredAll(v, saved, cells) \in View
      /\ \A w \in Words : (\A j \in DOMAIN saved : saved[j].word # w) => Same(RestoredAll(v, saved, cells), v, w)
      /\ \A j \in DOMAIN saved : (\A m \in 1 .. j - 1 : saved[m].word # saved[j].word)
                                   => Has(RestoredAll(v, saved, cells), saved[j], cells)
  BY <1>1, <1>2, RestoredAllIs DEF v
<1> HIDE DEF u
<1>4. ASSUME NEW w \in Words
      PROVE  Same(u, v, w) \/ \E j \in DOMAIN saved : saved[j].word = w /\ Has(u, saved[j], cells)
  <2>1. CASE \A j \in DOMAIN saved : saved[j].word # w
    BY <1>3, <2>1 DEF u, v
  <2>2. CASE \E j \in DOMAIN saved : saved[j].word = w
    <3>1. PICK j \in DOMAIN saved : saved[j].word = w
      BY <2>2
    <3>2. PICK k \in DOMAIN saved : saved[k].word = saved[j].word /\ \A m \in 1 .. k - 1 : saved[m].word # saved[k].word
      BY <1>1, FirstOf
    <3> QED BY <1>3, <3>1, <3>2 DEF u, v
  <2> QED BY <2>1, <2>2
<1> QED
  BY <1>3, <1>4 DEF u, v, saved

LEMMA ReturnKeeps ==
  ASSUME Inv, Return
  PROVE  Inv'
<1> DEFINE n == Len(frames)
           saved == frames[n].saved
           u == RestoredAll(view, saved, cells)
<1>0. Typed /\ Counted /\ OneWord /\ NoCells /\ Chained /\ ViewAgrees /\ Live
  BY DEF Inv
<1>1. frames \in Seq(Frames) /\ n \in Nat /\ n # 0 /\ DOMAIN frames = 1 .. n /\ n \in DOMAIN frames /\ frames[n] \in Frames
  BY <1>0 DEF Typed, Return
<1>2. /\ binding' = u.binding /\ class' = u.class /\ active' = u.active
      /\ UNCHANGED <<functions, cells, stack, counters>>
      /\ Last(frames) = frames[n]
  BY DEF Return, Become, Last
<1>3. frames' \in Seq(Frames) /\ Len(frames') = n - 1 /\ DOMAIN frames' = 1 .. n - 1 /\ \A i \in 1 .. n - 1 : frames'[i] = frames[i]
  BY <1>1 DEF Return, Front
<1>4. /\ u \in View
      /\ \A w \in Words : \/ Same(u, view, w)
                          \/ \E j \in DOMAIN saved : saved[j].word = w /\ Has(u, saved[j], cells)
  BY <1>0, <1>1, RestoredWords
<1>5. u.class = frames[n].entered.class /\ u.active = frames[n].entered.active
  <2>1. At(n + 1) = view /\ view \in View
    BY <1>0, <1>1, AtParts
  <2>2. FirstSaved(frames[n]) /\ Passes(frames[n], view)
    BY <1>0, <1>1, <2>1 DEF Chained
  <2> DEFINE next == view
  <2> HIDE DEF next
  <2>3. next \in View /\ Passes(frames[n], next)
    BY <2>1, <2>2 DEF next
  <2>4. LET x == RestoredAll(next, frames[n].saved, cells)
        IN x.class = frames[n].entered.class /\ x.active = frames[n].entered.active
    BY <1>0, <1>1, <2>2, <2>3, ReturnsTo
  <2> QED BY <2>4 DEF next
<1>6. \A j \in DOMAIN saved : /\ saved[j] \in Saves /\ saved[j].word \in Words /\ saved[j].cell \in {0} \cup DOMAIN cells
                              /\ saved[j].value \in Known
  BY <1>0, <1>1, FrameParts DEF Live
<1>7. u.binding \in [Words -> Value] /\ u.class \in [Words -> BOOLEAN] /\ u.active \in Env
  BY <1>4, ViewParts
<1>v. view.binding = binding /\ view.class = class /\ view.active = active
  BY DEF view
<1> HIDE DEF u, saved, n
<1>8. Typed'
  BY <1>0, <1>2, <1>3, <1>7 DEF Typed, stack, counters
<1>9. Counted'
  BY <1>0, <1>1, <1>2, <1>3 DEF Counted, counters
\* What a word is left with: its cell, and its value if it has one.
<1>10. ASSUME NEW w \in Words
       PROVE  \/ /\ binding'[w] = binding[w] /\ CellIn(active', w) = CellIn(active, w)
              \/ \E j \in DOMAIN saved : /\ saved[j].word = w /\ CellIn(active', w) = saved[j].cell
                                         /\ binding'[w] = RestoredValue(saved[j], cells)
  BY <1>2, <1>4, <1>v DEF Same, Has
<1>11. active \in Env /\ active' \in Env
  BY <1>0, <1>2, <1>7 DEF Typed
<1>12. OneWord'
  <2>1. PICK owner \in [Cells -> Words \cup {Undefined}] : Respects(owner)
    BY <1>0 DEF OneWord
  <2>2. ASSUME NEW w \in DOMAIN active' PROVE owner[active'[w]] = w
    <3>1. w \in Words /\ CellIn(active', w) = active'[w] /\ CellIn(active', w) # 0
      BY <1>11, CellInType, CellsPositive
    <3>2. CASE CellIn(active', w) = CellIn(active, w)
      <4>1. w \in DOMAIN active /\ active[w] = active'[w]
        BY <1>11, <3>1, <3>2, CellInType
      <4> QED BY <2>1, <4>1 DEF Respects
    <3>3. CASE \E j \in DOMAIN saved : saved[j].word = w /\ CellIn(active', w) = saved[j].cell
      BY <1>1, <2>1, <3>1, <3>3 DEF Respects, saved
    <3> QED BY <1>10, <3>1, <3>2, <3>3
  <2>3. Respects(owner)'
    BY <1>1, <1>2, <1>3, <2>1, <2>2 DEF Respects
  <2> QED BY <2>3 DEF OneWord
<1>13. NoCells'
  <2> SUFFICES ASSUME ~Experimental
               PROVE  /\ DOMAIN active' = {} /\ DOMAIN functions' = {}
                      /\ \A i \in DOMAIN frames' : /\ DOMAIN frames'[i].environment = {}
                                                   /\ \A j \in DOMAIN frames'[i].saved : frames'[i].saved[j].cell = 0
    BY DEF NoCells
  <2>1. \A i \in DOMAIN frames : /\ DOMAIN frames[i].environment = {}
                                 /\ \A j \in DOMAIN frames[i].saved : frames[i].saved[j].cell = 0
    BY <1>0 DEF NoCells
  <2>2. DOMAIN active = {} /\ DOMAIN functions = {}
    BY <1>0 DEF NoCells
  <2>3. ASSUME NEW w \in DOMAIN active' PROVE FALSE
    <3>1. w \in Words /\ CellIn(active', w) # 0
      BY <1>11, CellInType, CellsPositive
    <3>2. CellIn(active, w) = 0 /\ \A j \in DOMAIN saved : saved[j].cell = 0
      BY <1>1, <2>1, <2>2 DEF CellIn, saved
    <3> QED BY <1>10, <3>1, <3>2
  <2> QED BY <1>1, <1>2, <1>3, <2>1, <2>2, <2>3
<1>14. Chained'
  <2> SUFFICES ASSUME NEW i \in 1 .. n - 1
               PROVE  FirstSaved(frames[i]) /\ Passes(frames[i], At(i + 1)') /\ Sees(frames[i], At(i + 1)')
    BY <1>3 DEF Chained, FirstSaved, Passes, Sees
  <2>1. i \in DOMAIN frames /\ i + 1 \in DOMAIN frames /\ FirstSaved(frames[i]) /\ Passes(frames[i], At(i + 1)) /\ Sees(frames[i], At(i + 1))
    BY <1>0, <1>1 DEF Chained
  <2>2. At(i + 1).class = At(i + 1)'.class /\ At(i + 1).active = At(i + 1)'.active
    <3>1. At(i + 1) = frames[i + 1].entered
      BY <1>1, <2>1 DEF At, n
    <3>2. CASE i + 1 <= n - 1
      <4>1. At(i + 1)' = frames'[i + 1].entered /\ frames'[i + 1] = frames[i + 1]
        BY <1>1, <1>3, <3>2 DEF At
      <4> QED BY <3>1, <4>1
    <3>3. CASE ~(i + 1 <= n - 1)
      <4>1. i + 1 = n
        BY <1>1, <3>3
      <4>2. At(i + 1)' = view' /\ view'.class = u.class /\ view'.active = u.active
        BY <1>2, <1>3, <3>3 DEF At, view
      <4> QED BY <1>5, <3>1, <4>1, <4>2
    <3> QED BY <3>2, <3>3
  <2>3. Passes(frames[i], At(i + 1)')
    BY <2>1, <2>2 DEF Passes
  <2>4. Sees(frames[i], At(i + 1)')
    BY <2>1, <2>2 DEF Sees
  <2> QED BY <2>1, <2>3, <2>4
<1>15. ViewAgrees'
  <2> SUFFICES ASSUME NEW w \in DOMAIN active' PROVE binding'[w] = cells[active'[w]]
    BY <1>2 DEF ViewAgrees
  <2>1. w \in Words /\ CellIn(active', w) = active'[w] /\ CellIn(active', w) # 0
    BY <1>11, CellInType, CellsPositive
  <2>2. CASE binding'[w] = binding[w] /\ CellIn(active', w) = CellIn(active, w)
    <3>1. w \in DOMAIN active /\ active[w] = active'[w]
      BY <1>11, <2>1, <2>2, CellInType
    <3> QED BY <1>0, <2>2, <3>1 DEF ViewAgrees
  <2>3. CASE \E j \in DOMAIN saved : /\ saved[j].word = w /\ CellIn(active', w) = saved[j].cell
                                     /\ binding'[w] = RestoredValue(saved[j], cells)
    BY <2>1, <2>3 DEF RestoredValue
  <2> QED BY <1>10, <2>1, <2>2, <2>3
<1>16. Live'
  <2>1. Known' = Known
    BY <1>2 DEF Known
  <2>2. ASSUME NEW w \in DOMAIN active' PROVE active'[w] \in DOMAIN cells
    <3>1. w \in Words /\ CellIn(active', w) = active'[w] /\ CellIn(active', w) # 0
      BY <1>11, CellInType, CellsPositive
    <3>2. CASE CellIn(active', w) = CellIn(active, w)
      <4>1. w \in DOMAIN active /\ active[w] = active'[w]
        BY <1>11, <3>1, <3>2, CellInType
      <4> QED BY <1>0, <4>1 DEF Live
    <3> QED BY <1>6, <1>10, <3>1, <3>2
  <2>3. ASSUME NEW w \in Words PROVE binding'[w] \in Known
    <3>1. binding[w] \in Known /\ \A c \in DOMAIN cells : cells[c] \in Known
      BY <1>0 DEF Live
    <3> QED BY <1>6, <1>10, <3>1 DEF RestoredValue
  <2> QED BY <1>0, <1>1, <1>2, <1>3, <2>1, <2>2, <2>3 DEF Live, stack
<1> QED
  BY <1>8, <1>9, <1>12, <1>13, <1>14, <1>15, <1>16 DEF Inv

---------------------------------------------------------------------------
(* The stack, bindings and definitions *)

StackTyped(K) == /\ values \in Seq(Value) /\ floor \in Value /\ below \in BOOLEAN
                 /\ \A k \in DOMAIN values : values[k] \in K
                 /\ floor \in K

LEMMA InvStack ==
  ASSUME Inv
  PROVE  StackTyped(Known)
BY DEF Inv, Typed, Live, StackTyped

LEMMA PopKeeps ==
  ASSUME NEW K, StackTyped(K), Pop
  PROVE  StackTyped(K)' /\ Top \in Value /\ Top \in K
<1>1. values \in Seq(Value) /\ Len(values) \in Nat /\ DOMAIN values = 1 .. Len(values) /\ floor \in Value /\ floor \in K
      /\ \A k \in DOMAIN values : values[k] \in K
  BY DEF StackTyped
<1>2. CASE values # <<>>
  <2>1. Len(values) \in DOMAIN values
    BY <1>1, <1>2
  <2>2. values' = SubSeq(values, 1, Len(values) - 1) /\ UNCHANGED <<floor, below>> /\ Top = values[Len(values)]
    BY <1>2 DEF Pop, Front, Top, Last
  <2>3. values' \in Seq(Value) /\ Len(values') = Len(values) - 1 /\ \A k \in DOMAIN values' : k \in DOMAIN values /\ values'[k] = values[k]
    BY <1>1, <2>1, <2>2
  <2> QED BY <1>1, <2>1, <2>2, <2>3 DEF StackTyped
<1>3. CASE values = <<>>
  BY <1>1, <1>3 DEF Pop, Top, StackTyped
<1> QED
  BY <1>2, <1>3

LEMMA PushKeeps ==
  ASSUME NEW K, StackTyped(K), NEW v \in Value, v \in K, Push(v)
  PROVE  StackTyped(K)'
<1>1. values \in Seq(Value) /\ Len(values) \in Nat /\ DOMAIN values = 1 .. Len(values)
      /\ \A k \in DOMAIN values : values[k] \in K
  BY DEF StackTyped
<1>2. CASE below
  BY <1>2 DEF Push, StackTyped
<1>3. CASE ~below
  <2>1. values' = Append(values, v) /\ UNCHANGED <<floor, below>>
    BY <1>3 DEF Push
  <2>2. values' \in Seq(Value) /\ DOMAIN values' = 1 .. Len(values) + 1
        /\ \A k \in 1 .. Len(values) + 1 : values'[k] = IF k = Len(values) + 1 THEN v ELSE values[k]
    BY <1>1, <2>1
  <2>3. \A k \in DOMAIN values' : values'[k] \in K
    BY <1>1, <2>2
  <2> QED BY <2>1, <2>2, <2>3 DEF StackTyped
<1> QED
  BY <1>2, <1>3

\* Steps of the stack alone.
LEMMA StackKeeps ==
  ASSUME Inv, StackTyped(Known)', UNCHANGED <<bindings, functions, cells, frames, counters>>
  PROVE  Inv'
<1>0. Typed /\ Counted /\ OneWord /\ NoCells /\ Chained /\ ViewAgrees /\ Live
  BY DEF Inv
<1> USE DEF bindings, counters
<1>1. Typed'
  BY <1>0 DEF Typed, StackTyped
<1>2. Counted'
  BY <1>0 DEF Counted
<1>3. OneWord'
  BY <1>0 DEF OneWord, Respects
<1>4. NoCells'
  BY <1>0 DEF NoCells
<1>5. Chained'
  <2>1. view' = view
    BY DEF view
  <2> QED BY <1>0, <2>1 DEF Chained, FirstSaved, Passes, Sees, At
<1>6. ViewAgrees'
  BY <1>0 DEF ViewAgrees
<1>7. Live'
  BY <1>0 DEF Live, StackTyped, Known
<1> QED
  BY <1>1, <1>2, <1>3, <1>4, <1>5, <1>6, <1>7 DEF Inv

\* A word bound to something known: its cell follows, and no other word has that cell.
LEMMA BindKeeps ==
  ASSUME Inv, NEW w \in Words, NEW v \in Value, v \in Known, Bind(w, v), StackTyped(Known)',
         UNCHANGED <<active, functions, frames, counters>>,
         class' \in [Words -> BOOLEAN], class' = class \/ frames = <<>>
  PROVE  Inv'
<1>0. Typed /\ Counted /\ OneWord /\ NoCells /\ Chained /\ ViewAgrees /\ Live
  BY DEF Inv
<1> USE DEF counters
<1>1. /\ binding' = [binding EXCEPT ![w] = v]
      /\ cells' = IF w \in DOMAIN active THEN [cells EXCEPT ![active[w]] = v] ELSE cells
  BY DEF Bind
<1>2. DOMAIN cells' = DOMAIN cells /\ cells' \in [DOMAIN cells -> Value] /\ binding' \in [Words -> Value]
  BY <1>0, <1>1 DEF Typed
<1>3. Typed'
  BY <1>0, <1>2 DEF Typed, StackTyped
<1>4. Counted'
  BY <1>0, <1>2 DEF Counted
<1>5. OneWord'
  BY <1>0 DEF OneWord, Respects
<1>6. NoCells'
  BY <1>0 DEF NoCells
<1>7. Chained'
  <2>1. frames \in Seq(Frames) /\ DOMAIN frames = 1 .. Len(frames)
    BY <1>0 DEF Typed
  <2> SUFFICES ASSUME NEW i \in DOMAIN frames
               PROVE  FirstSaved(frames[i]) /\ Passes(frames[i], At(i + 1)') /\ Sees(frames[i], At(i + 1)')
    BY DEF Chained, FirstSaved, Passes, Sees
  <2>2. class' = class
    BY <2>1
  <2>3. At(i + 1)'.class = At(i + 1).class /\ At(i + 1)'.active = At(i + 1).active
    BY <2>2 DEF At, view
  <2>4. FirstSaved(frames[i]) /\ Passes(frames[i], At(i + 1)) /\ Sees(frames[i], At(i + 1))
    BY <1>0 DEF Chained
  <2>5. Passes(frames[i], At(i + 1)')
    BY <2>3, <2>4 DEF Passes
  <2>6. Sees(frames[i], At(i + 1)')
    BY <2>3, <2>4 DEF Sees
  <2> QED BY <2>4, <2>5, <2>6
<1>8. ViewAgrees'
  <2> SUFFICES ASSUME NEW x \in DOMAIN active PROVE binding'[x] = cells'[active[x]]
    BY DEF ViewAgrees
  <2>1. PICK owner \in [Cells -> Words \cup {Undefined}] : Respects(owner)
    BY <1>0 DEF OneWord
  <2>2. active \in Env /\ binding[x] = cells[active[x]] /\ active[x] \in DOMAIN cells /\ x \in Words
    BY <1>0, CellInType DEF Typed, ViewAgrees, Live
  <2>3. CASE x = w
    BY <1>0, <1>1, <2>2, <2>3 DEF Typed
  <2>4. CASE x # w
    <3>1. w \in DOMAIN active => active[w] # active[x]
      BY <2>1, <2>4 DEF Respects
    <3>2. binding'[x] = binding[x] /\ cells'[active[x]] = cells[active[x]]
      BY <1>0, <1>1, <2>2, <2>4, <3>1 DEF Typed
    <3> QED BY <2>2, <3>2
  <2> QED BY <2>3, <2>4
<1>9. Live'
  <2>1. Known' = Known
    BY DEF Known
  <2>2. \A x \in Words : binding'[x] \in Known
    BY <1>0, <1>1 DEF Live, Typed
  <2>3. \A c \in DOMAIN cells' : cells'[c] \in Known
    BY <1>0, <1>1 DEF Live, Typed
  <2> QED BY <1>0, <1>2, <2>1, <2>2, <2>3 DEF Live, StackTyped
<1> QED
  BY <1>3, <1>4, <1>5, <1>6, <1>7, <1>8, <1>9 DEF Inv

LEMMA DeclareKeeps ==
  ASSUME Inv, NEW w \in Words, Declare(w)
  PROVE  Inv'
<1>0. Typed /\ Counted /\ OneWord /\ NoCells /\ Chained /\ ViewAgrees /\ Live
  BY DEF Inv
<1>1. /\ frames = <<>> /\ class' = [class EXCEPT ![w] = FALSE]
      /\ UNCHANGED <<binding, active, functions, cells, frames, values, floor, below, nextHandle, nextCell>>
  BY DEF Declare, stack, counters
<1>2. Typed' /\ Counted' /\ OneWord' /\ NoCells' /\ ViewAgrees'
  <2>1. Typed'
    BY <1>0, <1>1 DEF Typed
  <2>2. Counted' /\ NoCells' /\ ViewAgrees'
    BY <1>0, <1>1 DEF Counted, NoCells, ViewAgrees
  <2>3. OneWord'
    BY <1>0, <1>1 DEF OneWord, Respects
  <2> QED BY <2>1, <2>2, <2>3
<1>3. Chained'
  BY <1>1 DEF Chained
<1>4. Live'
  BY <1>0, <1>1 DEF Live, Known
<1> QED
  BY <1>2, <1>3, <1>4 DEF Inv

\* What an abandoned call leaves: the frames go.
LEMMA StopKeeps ==
  ASSUME Inv, Stop
  PROVE  Inv'
<1>0. Typed /\ Counted /\ OneWord /\ NoCells /\ Chained /\ ViewAgrees /\ Live
  BY DEF Inv
<1>1. /\ frames' = <<>>
      /\ UNCHANGED <<binding, class, active, functions, cells, values, floor, below, nextHandle, nextCell>>
  BY DEF Stop, bindings, stack, counters
<1>2. frames' \in Seq(Frames) /\ DOMAIN frames' = {}
  BY <1>1
<1>3. Typed'
  BY <1>0, <1>1, <1>2 DEF Typed
<1>4. Counted' /\ NoCells' /\ ViewAgrees'
  BY <1>0, <1>1, <1>2 DEF Counted, NoCells, ViewAgrees
<1>5. OneWord'
  BY <1>0, <1>1, <1>2 DEF OneWord, Respects
<1>6. Chained'
  BY <1>2 DEF Chained
<1>7. Live'
  BY <1>0, <1>1, <1>2 DEF Live, Known
<1> QED
  BY <1>3, <1>4, <1>5, <1>6, <1>7 DEF Inv

---------------------------------------------------------------------------
(* Collections *)

LEMMA OnlyIs ==
  ASSUME NEW f, NEW S, S \subseteq DOMAIN f
  PROVE  DOMAIN Only(f, S) = S /\ \A x \in S : Only(f, S)[x] = f[x]
BY DEF Only

\* Instances F, some of them only just made, of which those in H are kept with the cells in C.
LEMMA ClosedKeeps ==
  ASSUME Inv, NEW F, F \in [DOMAIN F -> Instances], NEW C, NEW H, NEW new, NEW K,
         DOMAIN functions \subseteq DOMAIN F,
         \A h \in DOMAIN F : IsFiniteSet(DOMAIN F[h].environment),
         \A owner : Respects(owner) => \A h \in DOMAIN F :
           \A w \in DOMAIN F[h].environment : owner[F[h].environment[w]] = w,
         ~Experimental => DOMAIN F = {},
         H \subseteq DOMAIN F, C \subseteq DOMAIN cells, Closed(C, H, F, new),
         functions' = Only(F, H), cells' = Only(cells, C), UNCHANGED <<bindings, frames, nextCell>>,
         nextHandle' \in nextHandle .. MaxHandle + 1, DOMAIN F \subseteq (1 .. nextHandle' - 1) \ Bodies,
         new \subseteq DOMAIN F, K = Image(values) \cup {floor} \cup new, StackTyped(K)'
  PROVE  Inv'
<1>0. Typed /\ Counted /\ OneWord /\ NoCells /\ Chained /\ ViewAgrees /\ Live
  BY DEF Inv
<1>1. /\ DOMAIN functions' = H /\ \A h \in H : functions'[h] = F[h]
      /\ DOMAIN cells' = C /\ \A c \in C : cells'[c] = cells[c]
  BY OnlyIs
<1>2. functions' \in [H -> Instances] /\ cells' \in [C -> Value]
  <2>1. functions' = [h \in H |-> F[h]] /\ cells' = [c \in C |-> cells[c]]
    BY DEF Only
  <2>2. cells \in [DOMAIN cells -> Value]
    BY <1>0 DEF Typed
  <2> QED BY <2>1, <2>2
<1>3. /\ RootCells \subseteq C /\ (RootFunctions \cup new) \cap DOMAIN F \subseteq H
      /\ \A h \in H : Image(F[h].environment) \subseteq C
      /\ \A c \in C : cells[c] \in DOMAIN F => cells[c] \in H
  BY DEF Closed
<1>4. binding' = binding /\ class' = class /\ active' = active /\ frames' = frames /\ nextCell' = nextCell
  BY DEF bindings
<1>5. Typed'
  <2>1. nextHandle' \in 1 .. MaxHandle + 1
    BY <1>0, BodiesAssumption DEF Typed
  <2> QED BY <1>0, <1>1, <1>2, <1>4, <2>1 DEF Typed, StackTyped
<1>6. Counted'
  <2>1. nextHandle \in Nat /\ nextHandle' \in Nat /\ nextHandle <= nextHandle'
    BY <1>0, BodiesAssumption DEF Typed
  <2>2. Bodies \subseteq 1 .. nextHandle' - 1
    BY <1>0, <2>1 DEF Counted
  <2> QED BY <1>0, <1>1, <1>4, <2>2 DEF Counted
<1>7. OneWord'
  <2>1. PICK owner \in [Cells -> Words \cup {Undefined}] : Respects(owner)
    BY <1>0 DEF OneWord
  <2>2. \A h \in DOMAIN F : \A w \in DOMAIN F[h].environment : owner[F[h].environment[w]] = w
    BY <2>1
  <2>3. Respects(owner)'
    BY <1>1, <1>4, <2>1, <2>2 DEF Respects
  <2> QED BY <2>3 DEF OneWord
<1>8. NoCells'
  BY <1>0, <1>1, <1>4 DEF NoCells
<1>9. Chained'
  <2>1. view' = view
    BY <1>4 DEF view
  <2> QED BY <1>0, <1>4, <2>1 DEF Chained, FirstSaved, Passes, Sees, At
<1>10. \A w \in DOMAIN active : active[w] \in C
  BY <1>3 DEF RootCells, Image
<1>11. ViewAgrees'
  BY <1>0, <1>1, <1>4, <1>10 DEF ViewAgrees
<1> DEFINE Rooted(x) == x \in RootFunctions \cup new
<1>12. ASSUME NEW x, x \in Known \/ x \in new, Rooted(x) PROVE x \in Known'
  <2>1. x \in DOMAIN F => x \in H
    BY <1>3, <1>12
  <2>2. x \in {Undefined, Number} \cup Bodies \/ x \in DOMAIN F
    BY <1>12 DEF Known
  <2> QED BY <1>1, <2>1, <2>2 DEF Known
<1>13. /\ \A k \in DOMAIN values : values[k] \in RootFunctions
       /\ floor \in RootFunctions
       /\ \A w \in DOMAIN binding : binding[w] \in RootFunctions
       /\ \A i \in DOMAIN frames : /\ frames[i].function \in RootFunctions
                                   /\ \A j \in DOMAIN frames[i].saved : frames[i].saved[j].value \in RootFunctions
  BY DEF RootFunctions, Image
<1>14. DOMAIN binding = Words
  BY <1>0 DEF Typed
<1>15. ASSUME NEW x \in K PROVE x \in Known'
  <2>1. CASE x \in new
    BY <1>12, <2>1
  <2>2. CASE x = floor
    <3>1. x \in Known /\ x \in RootFunctions
      BY <1>0, <1>13, <2>2 DEF Live
    <3> QED BY <1>12, <3>1
  <2>3. CASE x \in Image(values)
    <3>1. x \in Known /\ x \in RootFunctions
      BY <1>0, <1>13, <2>3 DEF Live, Image
    <3> QED BY <1>12, <3>1
  <2> QED BY <2>1, <2>2, <2>3
<1>16. (\A k \in DOMAIN values' : values'[k] \in Known') /\ floor' \in Known'
  BY <1>15 DEF StackTyped
<1>17. \A w \in Words : binding[w] \in Known'
  <2> TAKE w \in Words
  <2>1. binding[w] \in Known /\ binding[w] \in RootFunctions
    BY <1>0, <1>13, <1>14 DEF Live
  <2> QED BY <1>12, <2>1
<1>18. ASSUME NEW i \in DOMAIN frames
       PROVE  /\ frames[i].function \in Known'
              /\ \A w \in DOMAIN frames[i].environment : frames[i].environment[w] \in C
              /\ \A j \in DOMAIN frames[i].saved : /\ frames[i].saved[j].cell \in {0} \cup C
                                                   /\ frames[i].saved[j].value \in Known'
  <2>1. frames[i].function \in Known'
    <3>1. frames[i].function \in Known /\ frames[i].function \in RootFunctions
      BY <1>0, <1>13 DEF Live
    <3> QED BY <1>12, <3>1
  <2>2. FrameCells(frames[i]) \subseteq C
    BY <1>3 DEF RootCells
  <2>3. ASSUME NEW w \in DOMAIN frames[i].environment PROVE frames[i].environment[w] \in C
    <3>1. frames[i].environment[w] # 0
      <4>1. frames[i] \in Frames
        BY <1>0 DEF Typed
      <4>2. frames[i].environment \in Env
        BY <4>1, FrameParts
      <4> QED BY <4>2, CellInType, CellsPositive
    <3> QED BY <2>2, <3>1 DEF FrameCells, Image
  <2>4. ASSUME NEW j \in DOMAIN frames[i].saved
        PROVE  frames[i].saved[j].cell \in {0} \cup C /\ frames[i].saved[j].value \in Known'
    <3>1. frames[i].saved[j].cell \in {0} \cup C
      BY <2>2 DEF FrameCells
    <3>2. frames[i].saved[j].value \in Known /\ frames[i].saved[j].value \in RootFunctions
      BY <1>0, <1>13 DEF Live
    <3> QED BY <1>12, <3>1, <3>2
  <2> QED BY <2>1, <2>3, <2>4
<1>19. \A c \in C : cells[c] \in Known'
  <2> TAKE c \in C
  <2>1. cells[c] \in Known
    BY <1>0 DEF Live
  <2>2. cells[c] \in {Undefined, Number} \cup Bodies \/ cells[c] \in DOMAIN F
    BY <2>1 DEF Known
  <2> QED BY <1>1, <1>3, <2>2 DEF Known
<1>20. \A h \in H : \A w \in DOMAIN F[h].environment : F[h].environment[w] \in C
  BY <1>3 DEF Image
<1>21. Live'
  BY <1>1, <1>4, <1>10, <1>16, <1>17, <1>18, <1>19, <1>20 DEF Live
<1> QED
  BY <1>5, <1>6, <1>7, <1>8, <1>9, <1>11, <1>21 DEF Inv

\* Everything there is holds the roots and what they lead to, and so does the least such set.
LEMMA AllClosed ==
  ASSUME Inv, NEW F, NEW new, DOMAIN functions \subseteq DOMAIN F,
         \A h \in DOMAIN F : \A w \in DOMAIN F[h].environment : F[h].environment[w] \in DOMAIN cells
  PROVE  Closed(DOMAIN cells, DOMAIN F, F, new)
<1>0. Typed /\ Live
  BY DEF Inv
<1>1. RootCells \subseteq DOMAIN cells
  BY <1>0 DEF RootCells, FrameCells, Image, Live
<1> QED
  BY <1>1 DEF Closed, Image

LEMMA ReachedClosed ==
  ASSUME Inv, NEW F, NEW new, DOMAIN functions \subseteq DOMAIN F,
         \A h \in DOMAIN F : \A w \in DOMAIN F[h].environment : F[h].environment[w] \in DOMAIN cells
  PROVE  LET R == Reached(F, new) IN
         R.cells \subseteq DOMAIN cells /\ R.functions \subseteq DOMAIN F /\ Closed(R.cells, R.functions, F, new)
<1> DEFINE closed == {M \in (SUBSET DOMAIN cells) \X (SUBSET DOMAIN F) : Closed(M[1], M[2], F, new)}
           C == {c \in DOMAIN cells : \A M \in closed : c \in M[1]}
           H == {h \in DOMAIN F : \A M \in closed : h \in M[2]}
<1>1. Reached(F, new) = [cells |-> C, functions |-> H]
  BY DEF Reached
<1>2. Closed(DOMAIN cells, DOMAIN F, F, new)
  BY AllClosed
<1>3. \A M \in closed : Closed(M[1], M[2], F, new)
  OBVIOUS
<1> HIDE DEF closed
<1>4. RootCells \subseteq C
  BY <1>2, <1>3 DEF Closed
<1>5. (RootFunctions \cup new) \cap DOMAIN F \subseteq H
  BY <1>3 DEF Closed
<1>6. \A h \in H : Image(F[h].environment) \subseteq C
  BY <1>2, <1>3 DEF Closed
<1>7. \A c \in C : cells[c] \in DOMAIN F => cells[c] \in H
  BY <1>3 DEF Closed
<1>8. C \subseteq DOMAIN cells /\ H \subseteq DOMAIN F
  OBVIOUS
<1> HIDE DEF C, H
<1> QED
  BY <1>1, <1>4, <1>5, <1>6, <1>7, <1>8 DEF Closed

LEMMA CollectKeeps ==
  ASSUME Inv, Collect
  PROVE  Inv'
<1>0. Typed /\ Counted /\ OneWord /\ NoCells /\ Live
  BY DEF Inv
<1> DEFINE R == Reached(functions, {})
<1>1. /\ functions' = Only(functions, R.functions) /\ cells' = Only(cells, R.cells)
      /\ UNCHANGED <<bindings, frames, nextCell>> /\ nextHandle' = nextHandle
      /\ UNCHANGED <<values, floor, below>>
  BY DEF Collect, Sweep, counters, stack
<1>2. PICK F : F = functions
  OBVIOUS
<1>3. PICK K : K = Image(values) \cup {floor} \cup {}
  OBVIOUS
<1>4. \A h \in DOMAIN F : \A w \in DOMAIN F[h].environment : F[h].environment[w] \in DOMAIN cells
  BY <1>0, <1>2 DEF Live
<1>5. DOMAIN functions \subseteq DOMAIN F
  BY <1>2
<1>6. R.cells \subseteq DOMAIN cells /\ R.functions \subseteq DOMAIN F /\ Closed(R.cells, R.functions, F, {})
  BY <1>2, <1>4, <1>5, ReachedClosed
<1>7. PICK C, H : C = R.cells /\ H = R.functions
  OBVIOUS
<1> HIDE DEF R
<1>8. StackTyped(K)'
  <2>1. values \in Seq(Value) /\ floor \in Value /\ below \in BOOLEAN
    BY <1>0 DEF Typed
  <2>2. \A k \in DOMAIN values : values[k] \in K
    BY <1>3 DEF Image
  <2> QED BY <1>1, <1>3, <2>1, <2>2 DEF StackTyped
<1>9. /\ F \in [DOMAIN F -> Instances] /\ \A h \in DOMAIN F : IsFiniteSet(DOMAIN F[h].environment)
      /\ DOMAIN F \subseteq (1 .. nextHandle' - 1) \ Bodies /\ (~Experimental => DOMAIN F = {})
      /\ nextHandle' \in nextHandle .. MaxHandle + 1
  BY <1>0, <1>1, <1>2, BodiesAssumption DEF Typed, Counted, NoCells
<1>10. \A owner : Respects(owner) => \A h \in DOMAIN F :
         \A w \in DOMAIN F[h].environment : owner[F[h].environment[w]] = w
  BY <1>2 DEF Respects
<1>11. functions' = Only(F, H) /\ cells' = Only(cells, C)
  BY <1>1, <1>2, <1>7
<1>12. H \subseteq DOMAIN F /\ C \subseteq DOMAIN cells /\ Closed(C, H, F, {})
  BY <1>6, <1>7
<1> QED
  BY <1>1, <1>3, <1>5, <1>8, <1>9, <1>10, <1>11, <1>12, ClosedKeeps

---------------------------------------------------------------------------
(* Functions that capture their environment *)

\* An instance with the environment of the running function.
LEMMA InstanceMade ==
  ASSUME Inv, Experimental, frames # <<>>, nextHandle \in Handles, NEW b \in Bodies, NEW F,
         F = With(functions, nextHandle, [body |-> b, environment |-> Last(frames).environment])
  PROVE  /\ F \in [DOMAIN F -> Instances] /\ DOMAIN F = DOMAIN functions \cup {nextHandle}
         /\ \A h \in DOMAIN F : IsFiniteSet(DOMAIN F[h].environment)
         /\ \A owner : Respects(owner) => \A h \in DOMAIN F :
              \A w \in DOMAIN F[h].environment : owner[F[h].environment[w]] = w
         /\ \A h \in DOMAIN F : \A w \in DOMAIN F[h].environment : F[h].environment[w] \in DOMAIN cells
         /\ DOMAIN F \subseteq (1 .. nextHandle) \ Bodies
<1> DEFINE n == Len(frames)
           E == frames[n].environment
           r == [body |-> b, environment |-> E]
<1>0. Typed /\ Counted /\ Live
  BY DEF Inv
<1>1. n \in DOMAIN frames /\ Last(frames) = frames[n] /\ frames[n] \in Frames
  BY <1>0 DEF Typed, Last
<1>2. E \in Env /\ IsFiniteSet(DOMAIN E) /\ \A w \in DOMAIN E : E[w] \in DOMAIN cells
  BY <1>0, <1>1, FrameParts DEF Counted, Live
<1>3. r \in Instances /\ r.environment = E
  <2> HIDE DEF E
  <2> QED BY <1>2 DEF Instances
<1>4. F = With(functions, nextHandle, r)
  BY <1>1
<1>5. \A owner : Respects(owner) => \A w \in DOMAIN E : owner[E[w]] = w
  BY <1>1 DEF Respects
<1> HIDE DEF r, E, n
<1>6. F = [y \in {nextHandle} \cup DOMAIN functions |-> IF y = nextHandle THEN r ELSE functions[y]]
  BY <1>4 DEF With, Over
<1>7. \A h \in DOMAIN F : (h = nextHandle /\ F[h] = r) \/ (h \in DOMAIN functions /\ F[h] = functions[h])
  BY <1>6
<1>8. DOMAIN F = DOMAIN functions \cup {nextHandle} /\ F \in [DOMAIN F -> Instances]
  BY <1>0, <1>3, <1>6 DEF Typed
<1>9. DOMAIN F \subseteq (1 .. nextHandle) \ Bodies
  <2>1. nextHandle \in Nat /\ nextHandle >= 1
    BY BodiesAssumption DEF Handles
  <2> QED BY <1>0, <1>8, <2>1, BodiesAssumption DEF Counted
<1>10. \A h \in DOMAIN F : IsFiniteSet(DOMAIN F[h].environment)
  BY <1>0, <1>2, <1>3, <1>7 DEF Counted
<1>11. \A h \in DOMAIN F : \A w \in DOMAIN F[h].environment : F[h].environment[w] \in DOMAIN cells
  BY <1>0, <1>2, <1>3, <1>7 DEF Live
<1>12. \A owner : Respects(owner) => \A h \in DOMAIN F :
              \A w \in DOMAIN F[h].environment : owner[F[h].environment[w]] = w
  BY <1>3, <1>5, <1>7 DEF Respects
<1> QED
  BY <1>8, <1>9, <1>10, <1>11, <1>12

LEMMA CapturedKeeps ==
  ASSUME Inv, NEW b \in Bodies, Captured(b)
  PROVE  Inv'
<1>0. Typed /\ Counted /\ OneWord /\ NoCells /\ Live
  BY DEF Inv
<1>1. CASE ~Experimental
  <2>1. Push(b) /\ UNCHANGED <<functions, cells, nextHandle, nextCell, bindings, frames>>
    BY <1>1 DEF Captured
  <2>2. b \in Value /\ b \in Known
    BY ValueFacts DEF Known
  <2>3. StackTyped(Known)'
    <3>1. Known' = Known
      BY <2>1 DEF Known
    <3>2. PICK K : K = Known
      OBVIOUS
    <3>3. StackTyped(K) /\ b \in K
      BY <2>2, <3>2, InvStack
    <3>4. StackTyped(K)'
      BY <2>1, <2>2, <3>3, PushKeeps
    <3> QED BY <3>1, <3>2, <3>4
  <2> QED BY <2>1, <2>3, StackKeeps DEF counters
<1>2. CASE Experimental
  <2>1. PICK F : F = With(functions, nextHandle, [body |-> b, environment |-> Last(frames).environment])
    OBVIOUS
  <2>2. /\ frames # <<>> /\ nextHandle <= MaxHandle /\ Push(nextHandle) /\ nextHandle' = nextHandle + 1
        /\ \/ Sweep(F, {nextHandle})
           \/ functions' = F /\ UNCHANGED cells
        /\ UNCHANGED <<bindings, frames, nextCell>>
    BY <1>2, <2>1 DEF Captured
  <2>3. nextHandle \in Handles /\ nextHandle \in Value /\ nextHandle' \in nextHandle .. MaxHandle + 1 /\ nextHandle' - 1 = nextHandle
    BY SMTT(40), <1>0, <2>2, BodiesAssumption DEF Typed, Handles, Value
  <2>4. /\ F \in [DOMAIN F -> Instances] /\ DOMAIN F = DOMAIN functions \cup {nextHandle}
        /\ \A h \in DOMAIN F : IsFiniteSet(DOMAIN F[h].environment)
        /\ \A owner : Respects(owner) => \A h \in DOMAIN F :
             \A w \in DOMAIN F[h].environment : owner[F[h].environment[w]] = w
        /\ \A h \in DOMAIN F : \A w \in DOMAIN F[h].environment : F[h].environment[w] \in DOMAIN cells
        /\ DOMAIN F \subseteq (1 .. nextHandle) \ Bodies
    BY <1>2, <2>1, <2>2, <2>3, InstanceMade
  <2>5. PICK new : new = {nextHandle}
    OBVIOUS
  <2>6. DOMAIN functions \subseteq DOMAIN F /\ new \subseteq DOMAIN F
    BY <2>4, <2>5
  <2>7. PICK C, H : /\ H \subseteq DOMAIN F /\ C \subseteq DOMAIN cells /\ Closed(C, H, F, new)
                    /\ functions' = Only(F, H) /\ cells' = Only(cells, C)
    <3>1. CASE Sweep(F, {nextHandle})
      <4>1. LET R == Reached(F, new)
            IN /\ R.cells \subseteq DOMAIN cells /\ R.functions \subseteq DOMAIN F
               /\ Closed(R.cells, R.functions, F, new)
        BY <2>4, <2>6, ReachedClosed
      <4>2. LET R == Reached(F, new) IN functions' = Only(F, R.functions) /\ cells' = Only(cells, R.cells)
        BY <2>5, <3>1 DEF Sweep
      <4> QED BY <4>1, <4>2
    <3>2. CASE functions' = F /\ UNCHANGED cells
      <4>1. Closed(DOMAIN cells, DOMAIN F, F, new)
        BY <2>4, <2>6, AllClosed
      <4>2. Only(F, DOMAIN F) = F
        BY <2>4 DEF Only
      <4>3. Only(cells, DOMAIN cells) = cells
        BY <1>0 DEF Only, Typed
      <4> QED BY <3>2, <4>1, <4>2, <4>3
    <3> QED BY <2>2, <3>1, <3>2
  <2>8. PICK K : K = Image(values) \cup {floor} \cup new
    OBVIOUS
  <2>9. StackTyped(K)'
    <3>1. values \in Seq(Value) /\ floor \in Value /\ below \in BOOLEAN
      BY <1>0 DEF Typed
    <3>2. \A k \in DOMAIN values : values[k] \in K
      BY <2>8 DEF Image
    <3>3. StackTyped(K) /\ nextHandle \in K
      BY <2>5, <2>8, <3>1, <3>2 DEF StackTyped
    <3> QED BY <2>2, <2>3, <3>3, PushKeeps
  <2>10. DOMAIN F \subseteq (1 .. nextHandle' - 1) \ Bodies
    BY <2>3, <2>4
  <2> QED BY <1>2, <2>2, <2>3, <2>4, <2>6, <2>7, <2>8, <2>9, <2>10, ClosedKeeps
<1> QED
  BY <1>1, <1>2

---------------------------------------------------------------------------
(* What a call installs *)

Enclosed(h) == DOMAIN Environment(h)
Declared(h) == Len(Formals[Body(h)])

\* The function of a call: its body and its environment.
LEMMA CalleeIs ==
  ASSUME Inv, NEW h, IsFunction(h)
  PROVE  /\ h \in Handles /\ h \in Known /\ Body(h) \in Bodies
         /\ Environment(h) \in Env /\ IsFiniteSet(Enclosed(h))
         /\ \A w \in Enclosed(h) : w \in Words /\ Environment(h)[w] \in DOMAIN cells
         /\ \A owner : Respects(owner) => \A w \in Enclosed(h) : owner[Environment(h)[w]] = w
         /\ ~Experimental => Enclosed(h) = {}
<1>0. Typed /\ Counted /\ NoCells /\ Live
  BY DEF Inv
<1>1. h \in Bodies \/ (h \notin Bodies /\ h \in DOMAIN functions)
  BY DEF IsFunction
<1>2. CASE h \in Bodies
  <2>1. DOMAIN <<>> = {} /\ <<>> \in [{} -> Cells]
    OBVIOUS
  <2>2. Environment(h) = <<>> /\ Body(h) = h
    BY <1>2 DEF Environment, Body
  <2>3. {} \in SUBSET Words /\ IsFiniteSet({})
    BY FS_EmptySet
  <2> QED BY <1>2, <2>1, <2>2, <2>3, ValueFacts DEF Env, Enclosed, Known
<1>3. CASE h \notin Bodies /\ h \in DOMAIN functions
  <2>1. functions[h] \in Instances /\ Environment(h) = functions[h].environment /\ Body(h) = functions[h].body
    BY <1>0, <1>3 DEF Typed, Environment, Body
  <2>2. h \in Handles
    BY <1>0, <1>3, BodiesAssumption DEF Typed, Counted, Handles
  <2>3. Environment(h) \in Env /\ Body(h) \in Bodies
    BY <2>1 DEF Instances
  <2>4. IsFiniteSet(Enclosed(h))
    BY <1>0, <1>3, <2>1 DEF Counted, Enclosed
  <2>5. \A w \in Enclosed(h) : w \in Words /\ Environment(h)[w] \in DOMAIN cells
    BY <1>0, <1>3, <2>1, <2>3, CellInType DEF Live, Enclosed
  <2>6. \A owner : Respects(owner) => \A w \in Enclosed(h) : owner[Environment(h)[w]] = w
    BY <1>3, <2>1 DEF Respects, Enclosed
  <2>7. Experimental
    BY <1>0, <1>3 DEF NoCells
  <2> QED BY <1>3, <2>2, <2>3, <2>4, <2>5, <2>6, <2>7 DEF Known
<1> QED
  BY <1>1, <1>2, <1>3

LEMMA CapturedIs ==
  ASSUME NEW h, IsFiniteSet(Enclosed(h))
  PROVE  LET q == CapturedSteps(h) IN
         /\ Len(q) \in Nat /\ q \in Seq(Image(q)) /\ DOMAIN q = 1 .. Len(q)
         /\ \A k \in 1 .. Len(q) : /\ q[k].word \in Enclosed(h) /\ q[k].cell = Environment(h)[q[k].word]
                                   /\ q[k].captured = TRUE /\ q[k].argument = FALSE
         /\ \A w \in Enclosed(h) : \E k \in 1 .. Len(q) : q[k].word = w
         /\ (Enclosed(h) = {} => Len(q) = 0)
<1> DEFINE E == Environment(h)
           D == Enclosed(h)
           n == Cardinality(D)
           W == CHOOSE q \in [1 .. n -> D] : Image(q) = D
           q == CapturedSteps(h)
<1>1. n \in Nat /\ ExistsBijection(1 .. n, D)
  BY FS_CardinalityType
<1>2. PICK b : b \in Bijection(1 .. n, D)
  BY <1>1, Zenon DEF ExistsBijection
<1>3. b \in [1 .. n -> D] /\ \A w \in D : \E k \in 1 .. n : b[k] = w
  <2> HIDE DEF D, n
  <2> QED BY <1>2 DEF Bijection, Surjection
<1>4. Image(b) = D
  <2> HIDE DEF D, n
  <2> QED BY <1>3 DEF Image
<1>5. W \in [1 .. n -> D] /\ Image(W) = D
  <2> HIDE DEF D, n
  <2> QED BY <1>3, <1>4, Zenon
<1>6. q = [i \in DOMAIN W |-> [word |-> W[i], cell |-> E[W[i]], captured |-> TRUE, argument |-> FALSE]]
  BY DEF CapturedSteps, Enclosed
<1> HIDE DEF W, n, D, q, E
<1>7. DOMAIN q = 1 .. n /\ q = [i \in 1 .. n |-> [word |-> W[i], cell |-> E[W[i]], captured |-> TRUE, argument |-> FALSE]]
  BY <1>5, <1>6
<1>8. \A k \in 1 .. n : /\ q[k].word \in D /\ q[k].cell = E[q[k].word] /\ q[k].captured = TRUE /\ q[k].argument = FALSE
                        /\ q[k].word = W[k] /\ q[k] \in Image(q)
  BY <1>5, <1>7 DEF Image
<1>9. q \in Seq(Image(q)) /\ Len(q) = n
  <2>1. q \in [1 .. n -> Image(q)]
    BY <1>7 DEF Image
  <2> QED BY <1>1, <2>1
<1>10. \A w \in D : \E k \in 1 .. n : q[k].word = w
  BY <1>5, <1>8 DEF Image
<1>11. D = {} => n = 0
  BY FS_EmptySet, <1>1 DEF n
<1> QED
  BY <1>1, <1>7, <1>8, <1>9, <1>10, <1>11 DEF q, E, D

LEMMA OwnIs ==
  ASSUME NEW h, Body(h) \in Bodies
  PROVE  LET q == OwnSteps(h) IN
         /\ Declared(h) \in Nat /\ q \in Seq(Image(q)) /\ Len(q) = Declared(h) /\ DOMAIN q = 1 .. Declared(h)
         /\ \A k \in 1 .. Declared(h) :
              /\ q[k].word \in Words /\ q[k].captured = FALSE /\ q[k].argument \in BOOLEAN
              /\ q[k].cell = IF Experimental THEN nextCell + k - 1 ELSE 0
         /\ \A j, k \in 1 .. Declared(h) : j # k => q[j].word # q[k].word
<1> DEFINE q == OwnSteps(h)
           F == Formals[Body(h)]
           n == Declared(h)
<1>1. /\ F \in Seq([word : Words, argument : BOOLEAN])
      /\ \A i, j \in DOMAIN F : i # j => F[i].word # F[j].word
  BY BodiesAssumption
<1>2. n \in Nat /\ DOMAIN F = 1 .. n /\ n = Len(F)
  BY <1>1 DEF Declared
<1>3. \A i \in 1 .. n : F[i].word \in Words /\ F[i].argument \in BOOLEAN
  <2>0. PICK R : R = [word : Words, argument : BOOLEAN]
    OBVIOUS
  <2> HIDE DEF F, n
  <2>1. \A i \in 1 .. n : F[i] \in R
    <3>1. F \in Seq(R)
      BY <1>1, <2>0
    <3> QED BY <1>2, <3>1
  <2>2. \A r \in R : r.word \in Words /\ r.argument \in BOOLEAN
    BY <2>0
  <2> QED BY <2>1, <2>2
<1>4. q = [i \in 1 .. n |-> [word |-> F[n + 1 - i].word, captured |-> FALSE, argument |-> F[n + 1 - i].argument,
                             cell |-> IF Experimental THEN nextCell + i - 1 ELSE 0]]
  BY DEF OwnSteps, Declared
<1> HIDE DEF F, n, q
<1>5. \A k \in 1 .. n : n + 1 - k \in 1 .. n
  BY <1>2
<1>6. \A k \in 1 .. n : /\ q[k].word = F[n + 1 - k].word /\ q[k].captured = FALSE /\ q[k].argument = F[n + 1 - k].argument
                        /\ q[k].cell = IF Experimental THEN nextCell + k - 1 ELSE 0
  BY <1>4
<1>7. ASSUME NEW j \in 1 .. n, NEW k \in 1 .. n, j # k PROVE q[j].word # q[k].word
  <2>1. n + 1 - j # n + 1 - k
    BY <1>2, <1>7
  <2> QED BY <1>1, <1>2, <1>5, <1>6, <2>1
<1>8. q \in Seq(Image(q)) /\ Len(q) = n /\ DOMAIN q = 1 .. n
  <2>1. DOMAIN q = 1 .. n
    BY <1>4
  <2>2. q \in [1 .. n -> Image(q)]
    BY <1>4, <2>1 DEF Image
  <2> QED BY <1>2, <2>1, <2>2
<1> QED
  BY <1>2, <1>3, <1>5, <1>6, <1>7, <1>8 DEF q, n

Covers(q, m, D) == \A w \in D : \E k \in 1 .. m : q[k].word = w

\* The captured words, then the function's own with the next cells.
LEMMA StepsAre ==
  ASSUME Inv, NEW h, IsFunction(h)
  PROVE  LET q == Steps(h)
             m == Len(CapturedSteps(h))
             n == Declared(h)
         IN /\ m \in Nat /\ n \in Nat /\ Len(q) = m + n /\ DOMAIN q = 1 .. m + n
            /\ \A k \in 1 .. m : /\ q[k].word \in Enclosed(h) /\ q[k].cell = Environment(h)[q[k].word]
                                 /\ q[k].captured = TRUE /\ q[k].argument = FALSE
            /\ Covers(q, m, Enclosed(h))
            /\ \A k \in m + 1 .. m + n : /\ q[k].word \in Words /\ q[k].captured = FALSE /\ q[k].argument \in BOOLEAN
                                         /\ q[k].cell = IF Experimental THEN nextCell + (k - m) - 1 ELSE 0
                                         /\ q[k].word = OwnSteps(h)[k - m].word /\ q[k].cell = OwnSteps(h)[k - m].cell
            /\ \A j, k \in m + 1 .. m + n : j # k => q[j].word # q[k].word
            /\ ~Experimental => m = 0
<1> DEFINE C == CapturedSteps(h)
           O == OwnSteps(h)
           m == Len(C)
           n == Declared(h)
           q == Steps(h)
<1>0. Body(h) \in Bodies /\ IsFiniteSet(Enclosed(h)) /\ (~Experimental => Enclosed(h) = {})
  BY CalleeIs
<1>1. /\ m \in Nat /\ C \in Seq(Image(C)) /\ DOMAIN C = 1 .. m
      /\ \A k \in 1 .. m : /\ C[k].word \in Enclosed(h) /\ C[k].cell = Environment(h)[C[k].word]
                           /\ C[k].captured = TRUE /\ C[k].argument = FALSE
      /\ \A w \in Enclosed(h) : \E k \in 1 .. m : C[k].word = w
      /\ (Enclosed(h) = {} => m = 0)
  BY <1>0, CapturedIs
<1>2. /\ n \in Nat /\ O \in Seq(Image(O)) /\ Len(O) = n /\ DOMAIN O = 1 .. n
      /\ \A k \in 1 .. n :
           /\ O[k].word \in Words /\ O[k].captured = FALSE /\ O[k].argument \in BOOLEAN
           /\ O[k].cell = IF Experimental THEN nextCell + k - 1 ELSE 0
      /\ \A j, k \in 1 .. n : j # k => O[j].word # O[k].word
  BY <1>0, OwnIs
<1>3. q = C \o O
  BY DEF Steps
<1> HIDE DEF C, O, m, n, q
<1>4. /\ Len(q) = m + n /\ DOMAIN q = 1 .. m + n
      /\ \A k \in 1 .. m : q[k] = C[k]
      /\ \A k \in m + 1 .. m + n : q[k] = O[k - m]
  <2>1. PICK T : C \in Seq(T) /\ O \in Seq(T)
    <3>1. \A S, T : S \in Seq(T) => \A U : S \in Seq(T \cup U) /\ S \in Seq(U \cup T)
      OBVIOUS
    <3>2. C \in Seq(Image(C) \cup Image(O)) /\ O \in Seq(Image(C) \cup Image(O))
      BY <1>1, <1>2, <3>1, Zenon
    <3> QED BY <3>2
  <2>2. Len(C) = m /\ Len(O) = n
    BY <1>2 DEF m
  <2>3. /\ C \o O \in Seq(T) /\ Len(C \o O) = Len(C) + Len(O)
        /\ \A k \in 1 .. Len(C) + Len(O) : (C \o O)[k] = IF k <= Len(C) THEN C[k] ELSE O[k - Len(C)]
    BY <2>1, ConcatProperties, Zenon
  <2>4. Len(q) = m + n /\ q \in Seq(T) /\ \A k \in 1 .. m + n : q[k] = IF k <= m THEN C[k] ELSE O[k - m]
    BY <1>3, <2>2, <2>3
  <2>5. DOMAIN q = 1 .. m + n
    BY <2>4
  <2>6. \A k \in 1 .. m : k \in 1 .. m + n /\ k <= m
    BY <1>1, <1>2
  <2>7. \A k \in m + 1 .. m + n : k \in 1 .. m + n /\ ~(k <= m)
    BY <1>1, <1>2
  <2> QED BY <2>4, <2>5, <2>6, <2>7
<1>5. \A k \in m + 1 .. m + n : k - m \in 1 .. n
  BY <1>1, <1>2
<1>6. \A j, k \in m + 1 .. m + n : j # k => j - m # k - m
  BY <1>1, <1>2
<1>7. \A k \in 1 .. m : /\ q[k].word \in Enclosed(h) /\ q[k].cell = Environment(h)[q[k].word]
                        /\ q[k].captured = TRUE /\ q[k].argument = FALSE
  BY <1>1, <1>4
<1>8. Covers(q, m, Enclosed(h))
  BY <1>1, <1>4 DEF Covers
<1>9. ASSUME NEW k \in m + 1 .. m + n
      PROVE  /\ q[k].word \in Words /\ q[k].captured = FALSE /\ q[k].argument \in BOOLEAN
             /\ q[k].cell = IF Experimental THEN nextCell + (k - m) - 1 ELSE 0
             /\ q[k].word = O[k - m].word /\ q[k].cell = O[k - m].cell
  BY <1>2, <1>4, <1>5
<1>10. \A j, k \in m + 1 .. m + n : j # k => q[j].word # q[k].word
  BY <1>2, <1>4, <1>5, <1>6
<1> QED
  BY <1>0, <1>1, <1>2, <1>4, <1>7, <1>8, <1>9, <1>10 DEF C, O, m, n, q

---------------------------------------------------------------------------
(* A call, one word after another *)

Start == [view |-> view, saved |-> <<>>, cells |-> cells, values |-> values, below |-> below]

Operand(g, s) == IF s.captured THEN g.cells[s.cell]
                 ELSE IF ~s.argument THEN Undefined
                 ELSE IF g.values = <<>> THEN floor ELSE Last(g.values)

Advance(g, s) ==
  [view |-> Installed(g.view, s.word, s.cell, Operand(g, s)),
   saved |-> Append(g.saved, SavedOf(g.view, s.word)),
   cells |-> IF s.cell = 0 THEN g.cells ELSE With(g.cells, s.cell, Operand(g, s)),
   values |-> IF s.argument /\ g.values # <<>> THEN Front(g.values) ELSE g.values,
   below |-> g.below \/ (s.argument /\ g.values = <<>>)]

LEMMA ProgressThere ==
  ASSUME NEW h, Len(Steps(h)) \in Nat
  PROVE  /\ Progress(h)[0] = Start
         /\ \A k \in 1 .. Len(Steps(h)) : Progress(h)[k] = Advance(Progress(h)[k - 1], Steps(h)[k])
<1> DEFINE q == Steps(h)
           n == Len(q)
           Good(f, m) == f = [k \in 0 .. m |-> IF k = 0 THEN Start ELSE Advance(f[k - 1], q[k])]
           S == {m \in 0 .. n : \E f : Good(f, m)}
<1>1. 0 \in S
  <2>1. Good([k \in 0 .. 0 |-> Start], 0)
    <3> HIDE DEF q
    <3> QED OBVIOUS
  <2>2. 0 \in 0 .. n
    OBVIOUS
  <2> HIDE DEF Good
  <2> QED BY <2>1, <2>2
<1>2. ASSUME NEW m \in 0 .. n, m \in S, m < n PROVE m + 1 \in S
  <2>1. PICK f : Good(f, m)
    BY <1>2
  <2> DEFINE r == Advance(f[m], q[m + 1])
             g == [k \in 0 .. m + 1 |-> IF k = m + 1 THEN r ELSE f[k]]
  <2>2. DOMAIN f = 0 .. m /\ f[0] = Start /\ \A k \in 1 .. m : f[k] = Advance(f[k - 1], q[k])
    <3> HIDE DEF r, g, q
    <3> QED BY <2>1
  <2>3. ASSUME NEW k \in 0 .. m + 1
        PROVE  g[k] = IF k = 0 THEN Start ELSE Advance(g[k - 1], q[k])
    <3>1. CASE k = 0
      <4>1. g[k] = f[0]
        <5> HIDE DEF r, q
        <5> QED BY <3>1
      <4> HIDE DEF g
      <4> QED BY <2>2, <3>1, <4>1
    <3>2. CASE k \in 1 .. m
      <4>1. g[k] = f[k] /\ g[k - 1] = f[k - 1]
        <5> HIDE DEF r, q
        <5> QED BY <3>2
      <4> HIDE DEF g, q
      <4> QED BY <4>1, <2>2, <3>2
    <3>3. CASE k = m + 1
      <4>1. g[k] = r /\ g[k - 1] = f[m] /\ k # 0
        <5> HIDE DEF r, q
        <5> QED BY <3>3
      <4> HIDE DEF g, q
      <4> QED BY <3>3, <4>1
    <3> HIDE DEF g, q
    <3> QED BY <3>1, <3>2, <3>3
  <2>4. Good(g, m + 1)
    <3>1. g = [k \in 0 .. m + 1 |-> g[k]]
      <4> HIDE DEF r
      <4> QED OBVIOUS
    <3> HIDE DEF g, q
    <3> QED BY <2>3, <3>1
  <2>5. m + 1 \in 0 .. n
    BY <1>2
  <2> HIDE DEF g, Good
  <2> QED BY <2>4, <2>5
<1>3. n \in S
  <2>1. n \in Nat /\ n \in 0 .. n
    OBVIOUS
  <2>2. \A k \in 0 .. n : k \in S /\ k < n => k + 1 \in S
    <3> HIDE DEF S
    <3> QED BY <1>2
  <2> HIDE DEF S, n
  <2> QED BY <1>1, <2>1, <2>2, UpTo, Zenon
<1>4. \E f : Good(f, n)
  BY <1>3
<1>5. Good(CHOOSE f : Good(f, n), n)
  <2> HIDE DEF Good
  <2> QED BY <1>4
<1>6. Progress(h) = CHOOSE f : Good(f, n)
  BY Zenon DEF Progress, Start, Advance, Operand
<1> DEFINE f == Progress(h)
<1>7. f = [k \in 0 .. n |-> IF k = 0 THEN Start ELSE Advance(f[k - 1], q[k])]
  BY <1>5, <1>6
<1> HIDE DEF f, n, q
<1>8. n \in Nat
  BY DEF n, q
<1>9. \A k \in 0 .. n : f[k] = IF k = 0 THEN Start ELSE Advance(f[k - 1], q[k])
  BY <1>7
<1> QED
  BY <1>8, <1>9 DEF f, n, q

\* A step a call may take: the cell it installs belongs to its word.
Fits(s, owner, top) ==
  /\ s.word \in Words /\ s.cell \in {0} \cup Cells /\ s.cell < top
  /\ (s.captured => s.cell \in DOMAIN cells)
  /\ (s.cell # 0 => owner[s.cell] = s.word)
  /\ (Experimental <=> s.cell # 0)

\* Cells are numbered below top and words agree with those they have.
Settled(g, owner, top) ==
  /\ g.view \in View
  /\ g.cells \in [DOMAIN g.cells -> Value] /\ DOMAIN cells \subseteq DOMAIN g.cells /\ DOMAIN g.cells \subseteq 1 .. top - 1
  /\ g.values \in Seq(Value) /\ g.below \in BOOLEAN
  /\ \A c \in DOMAIN g.cells : g.cells[c] \in Known
  /\ \A k \in DOMAIN g.values : g.values[k] \in Known
  /\ \A w \in Words : g.view.binding[w] \in Known
  /\ \A w \in DOMAIN g.view.active : /\ g.view.active[w] \in DOMAIN g.cells /\ owner[g.view.active[w]] = w
                                     /\ g.view.binding[w] = g.cells[g.view.active[w]]
  /\ (~Experimental => DOMAIN g.view.active = {})

LEMMA SettledStart ==
  ASSUME Inv, NEW owner, Respects(owner), NEW top \in Nat, nextCell <= top
  PROVE  Settled(Start, owner, top)
<1>0. Typed /\ Counted /\ NoCells /\ ViewAgrees /\ Live
  BY DEF Inv
<1>1. /\ Start.view = view /\ Start.cells = cells /\ Start.values = values /\ Start.below = below
      /\ view.binding = binding /\ view.active = active
  BY DEF Start, view
<1>2. view \in View
  BY <1>0 DEF Typed, View, view, Env
<1>3. DOMAIN cells \subseteq 1 .. top - 1
  BY <1>0, BodiesAssumption DEF Typed, Counted
<1>4. cells \in [DOMAIN cells -> Value] /\ values \in Seq(Value) /\ below \in BOOLEAN
  BY <1>0 DEF Typed
<1>5. /\ \A c \in DOMAIN cells : cells[c] \in Known
      /\ \A k \in DOMAIN values : values[k] \in Known
      /\ \A w \in Words : binding[w] \in Known
  BY <1>0 DEF Live
<1>6. \A w \in DOMAIN active : active[w] \in DOMAIN cells /\ owner[active[w]] = w /\ binding[w] = cells[active[w]]
  BY <1>0 DEF Live, Respects, ViewAgrees
<1>7. ~Experimental => DOMAIN active = {}
  BY <1>0 DEF NoCells
<1> QED
  BY <1>1, <1>2, <1>3, <1>4, <1>5, <1>6, <1>7 DEF Settled

LEMMA AdvanceParts ==
  ASSUME NEW g, NEW s
  PROVE  LET r == Advance(g, s) IN
         /\ r.view = Installed(g.view, s.word, s.cell, Operand(g, s))
         /\ r.saved = Append(g.saved, SavedOf(g.view, s.word))
         /\ r.cells = IF s.cell = 0 THEN g.cells ELSE With(g.cells, s.cell, Operand(g, s))
         /\ r.values = IF s.argument /\ g.values # <<>> THEN Front(g.values) ELSE g.values
         /\ r.below = (g.below \/ (s.argument /\ g.values = <<>>))
BY DEF Advance

\* What a word is bound to is known.
LEMMA OperandIs ==
  ASSUME Inv, NEW owner, NEW top, NEW g, Settled(g, owner, top), NEW s, Fits(s, owner, top)
  PROVE  Operand(g, s) \in Value /\ Operand(g, s) \in Known
<1>0. Typed /\ Live
  BY DEF Inv
<1>1. CASE s.captured
  <2>1. s.cell \in DOMAIN g.cells
    BY <1>1 DEF Fits, Settled
  <2> QED BY <1>1, <2>1 DEF Settled, Operand
<1>2. CASE ~s.captured /\ ~s.argument
  BY <1>2, ValueFacts DEF Operand, Known
<1>3. CASE ~s.captured /\ s.argument /\ g.values = <<>>
  BY <1>0, <1>3 DEF Typed, Live, Operand
<1>4. CASE ~s.captured /\ s.argument /\ g.values # <<>>
  <2>1. g.values \in Seq(Value) /\ Operand(g, s) = g.values[Len(g.values)] /\ Len(g.values) \in DOMAIN g.values
    BY <1>4 DEF Operand, Settled, Last
  <2> QED BY <2>1 DEF Settled
<1> QED
  BY <1>1, <1>2, <1>3, <1>4

LEMMA FrontIs ==
  ASSUME NEW T, NEW q \in Seq(T), q # <<>>
  PROVE  Front(q) \in Seq(T) /\ \A k \in DOMAIN Front(q) : k \in DOMAIN q /\ Front(q)[k] = q[k]
<1>1. Len(q) \in Nat /\ Len(q) # 0
  OBVIOUS
<1> QED
  BY <1>1 DEF Front

LEMMA SettledStep ==
  ASSUME Inv, NEW owner, NEW top \in Nat, NEW g, Settled(g, owner, top), NEW s, Fits(s, owner, top),
         s.argument \in BOOLEAN
  PROVE  Settled(Advance(g, s), owner, top)
<1>0. PICK r, v, C, u : r = Advance(g, s) /\ v = Operand(g, s) /\ C = r.cells /\ u = r.view
  OBVIOUS
<1>1. v \in Value /\ v \in Known
  BY <1>0, OperandIs
<1>2. /\ u = Installed(g.view, s.word, s.cell, v)
      /\ C = IF s.cell = 0 THEN g.cells ELSE With(g.cells, s.cell, v)
      /\ r.values = IF s.argument /\ g.values # <<>> THEN Front(g.values) ELSE g.values
      /\ r.below = (g.below \/ (s.argument /\ g.values = <<>>))
  BY <1>0, AdvanceParts
<1>3. s.word \in Words /\ s.cell \in {0} \cup Cells /\ g.view \in View /\ g.view.active \in Env
  BY ViewParts DEF Fits, Settled
<1>4. /\ u \in View /\ u.binding[s.word] = v
      /\ CellIn(u.active, s.word) = IF s.cell = 0 THEN CellIn(g.view.active, s.word) ELSE s.cell
      /\ \A x \in Words : x # s.word => /\ u.binding[x] = g.view.binding[x]
                                        /\ CellIn(u.active, x) = CellIn(g.view.active, x)
      /\ DOMAIN u.active = IF s.cell = 0 THEN DOMAIN g.view.active ELSE DOMAIN g.view.active \cup {s.word}
      /\ u.active \in Env
  <2>1. PICK w, c, x : w = s.word /\ c = s.cell /\ x = g.view
    OBVIOUS
  <2>2. u = Installed(x, w, c, v) /\ w \in Words /\ c \in {0} \cup Cells /\ x \in View
    BY <1>2, <1>3, <2>1
  <2>3. u \in View /\ Taken(u, x, w, c, v) /\ \A y \in Words : y # w => Same(u, x, y)
    BY <1>1, <2>2, InstalledIs
  <2>4. u.active \in Env
    BY <2>3, ViewParts
  <2> QED BY <2>1, <2>3, <2>4 DEF Taken, Same
<1>5. /\ DOMAIN g.cells \subseteq DOMAIN C /\ DOMAIN C \subseteq DOMAIN g.cells \cup {s.cell}
      /\ (s.cell # 0 => s.cell \in DOMAIN C /\ C[s.cell] = v)
      /\ \A c \in DOMAIN g.cells : c # s.cell => C[c] = g.cells[c]
      /\ (s.cell = 0 => C = g.cells)
  <2>1. CASE s.cell = 0
    BY <1>2, <2>1
  <2>2. CASE s.cell # 0
    <3>1. PICK c, D : c = s.cell /\ D = g.cells
      OBVIOUS
    <3>2. C = With(D, c, v)
      BY <1>2, <2>2, <3>1
    <3>3. C = [y \in {c} \cup DOMAIN D |-> IF y = c THEN v ELSE D[y]]
      BY <3>2 DEF With, Over
    <3> QED BY <2>2, <3>1, <3>3
  <2> QED BY <2>1, <2>2
<1>6. \A c \in DOMAIN C : C[c] \in Value /\ C[c] \in Known
  BY <1>1, <1>5 DEF Settled
<1>7. C \in [DOMAIN C -> Value]
  <2>1. s.cell # 0 => C = [c \in DOMAIN C |-> C[c]]
    BY <1>2 DEF With, Over
  <2>2. g.cells \in [DOMAIN g.cells -> Value]
    BY DEF Settled
  <2> QED BY <1>5, <1>6, <2>1, <2>2
<1>8. DOMAIN cells \subseteq DOMAIN C /\ DOMAIN C \subseteq 1 .. top - 1
  <2>1. DOMAIN g.cells \subseteq 1 .. top - 1 /\ DOMAIN cells \subseteq DOMAIN g.cells
    BY DEF Settled
  <2>2. s.cell # 0 => s.cell \in 1 .. top - 1
    BY <1>3, BodiesAssumption DEF Fits, Cells
  <2>3. s.cell = 0 => DOMAIN C = DOMAIN g.cells
    BY <1>5
  <2> QED BY <1>5, <2>1, <2>2, <2>3
<1>9. r.values \in Seq(Value) /\ r.below \in BOOLEAN /\ \A k \in DOMAIN r.values : r.values[k] \in Known
  <2>1. g.values \in Seq(Value) /\ g.below \in BOOLEAN /\ \A k \in DOMAIN g.values : g.values[k] \in Known
    BY DEF Settled
  <2>2. g.values # <<>> => /\ Front(g.values) \in Seq(Value)
                           /\ \A k \in DOMAIN Front(g.values) : Front(g.values)[k] \in Known
    BY <2>1, FrontIs
  <2> QED BY <1>2, <2>1, <2>2
<1>10. \A w \in Words : u.binding[w] \in Known
  BY <1>1, <1>4 DEF Settled
<1>11. ASSUME NEW w \in DOMAIN u.active
       PROVE  u.active[w] \in DOMAIN C /\ owner[u.active[w]] = w /\ u.binding[w] = C[u.active[w]]
  <2>0. w \in Words /\ CellIn(u.active, w) = u.active[w] /\ u.active[w] \in Cells /\ u.active[w] # 0
    BY <1>4, CellInType, CellsPositive
  <2>1. CASE w = s.word /\ s.cell # 0
    BY <1>4, <1>5, <2>0, <2>1 DEF Fits
  <2>2. CASE ~(w = s.word /\ s.cell # 0)
    <3>1. CellIn(g.view.active, w) = u.active[w]
      BY <1>4, <2>0, <2>2
    <3>2. w \in DOMAIN g.view.active /\ g.view.active[w] = u.active[w]
      BY <1>3, <2>0, <3>1, CellInType
    <3>3. u.active[w] \in DOMAIN g.cells /\ owner[u.active[w]] = w /\ g.view.binding[w] = g.cells[u.active[w]]
      BY <3>2 DEF Settled
    <3>4. w # s.word
      BY <2>2, <3>2 DEF Settled, Fits
    <3>5. u.active[w] # s.cell
      BY <2>0, <3>3, <3>4 DEF Fits
    <3> QED BY <1>4, <1>5, <2>0, <3>3, <3>4, <3>5
  <2> QED BY <2>1, <2>2
<1>12. ~Experimental => DOMAIN u.active = {}
  BY <1>4 DEF Settled, Fits
<1> QED
  BY <1>0, <1>4, <1>6, <1>7, <1>8, <1>9, <1>10, <1>11, <1>12 DEF Settled

\* What has been saved after k steps of q: of each word first what it meant at the call.
Recorded(g, q, k, owner) ==
  /\ g.saved \in Seq(Saves) /\ Len(g.saved) = k
  /\ \A j \in 1 .. k : /\ g.saved[j].word = q[j].word /\ g.saved[j].value \in Known
                       /\ g.saved[j].cell \in {0} \cup DOMAIN g.cells
                       /\ (g.saved[j].cell # 0 => owner[g.saved[j].cell] = g.saved[j].word)
                       /\ (~Experimental => g.saved[j].cell = 0)
  /\ \A j \in 1 .. k : (\A m \in 1 .. j - 1 : q[m].word # q[j].word) => g.saved[j] = SavedOf(view, q[j].word)
  /\ \A w \in Words : (\A j \in 1 .. k : q[j].word # w) => Same(g.view, view, w)
  /\ \A j \in 1 .. k : (\A i \in j + 1 .. k : q[i].word # q[j].word) /\ q[j].cell # 0
                         => CellIn(g.view.active, q[j].word) = q[j].cell

LEMMA RecordedStart ==
  ASSUME NEW q, NEW owner
  PROVE  Recorded(Start, q, 0, owner)
<1>1. Start.saved = <<>> /\ Start.view = view
  BY DEF Start
<1>2. \A w : Same(view, view, w)
  BY DEF Same
<1>3. <<>> \in Seq(Saves) /\ Len(<<>>) = 0 /\ 1 .. 0 = {}
  OBVIOUS
<1> QED
  BY <1>1, <1>2, <1>3 DEF Recorded

LEMMA SameSaved ==
  ASSUME NEW u, NEW v, NEW w, Same(u, v, w), u.active \in Env, v.active \in Env
  PROVE  SavedOf(u, w) = SavedOf(v, w)
<1>1. u.binding[w] = v.binding[w] /\ u.class[w] = v.class[w] /\ CellIn(u.active, w) = CellIn(v.active, w)
  BY DEF Same
<1>2. \A x : SavedOf(x, w) = [word |-> w, value |-> x.binding[w], class |-> x.class[w], cell |-> CellIn(x.active, w)]
  BY DEF SavedOf, CellIn
<1> QED
  BY <1>1, <1>2

LEMMA RecordedStep ==
  ASSUME Inv, NEW owner, NEW top \in Nat, NEW g, Settled(g, owner, top), NEW q, NEW k \in Nat,
         Fits(q[k + 1], owner, top), Recorded(g, q, k, owner), \A j \in 1 .. k : q[j].word \in Words
  PROVE  Recorded(Advance(g, q[k + 1]), q, k + 1, owner)
<1>0. PICK r, v, s, u, x, e : /\ s = q[k + 1] /\ r = Advance(g, s) /\ v = Operand(g, s) /\ u = r.view
                              /\ x = g.view /\ e = SavedOf(g.view, s.word)
  OBVIOUS
<1>1. v \in Value /\ v \in Known
  BY <1>0, OperandIs
<1>2. s.word \in Words /\ s.cell \in {0} \cup Cells /\ x \in View /\ x.active \in Env
  BY <1>0, ViewParts DEF Fits, Settled
<1>3. u \in View /\ Taken(u, x, s.word, s.cell, v) /\ \A y \in Words : y # s.word => Same(u, x, y)
  <2>1. PICK w, c : w = s.word /\ c = s.cell
    OBVIOUS
  <2>2. u = Installed(x, w, c, v) /\ w \in Words /\ c \in {0} \cup Cells
    BY <1>0, <1>2, <2>1, AdvanceParts
  <2>3. u \in View /\ Taken(u, x, w, c, v) /\ \A y \in Words : y # w => Same(u, x, y)
    BY <1>1, <1>2, <2>2, InstalledIs
  <2> QED BY <2>1, <2>3
<1>4. DOMAIN g.cells \subseteq DOMAIN r.cells
  <2>1. r.cells = IF s.cell = 0 THEN g.cells ELSE With(g.cells, s.cell, v)
    BY <1>0, AdvanceParts
  <2> QED BY <2>1 DEF With, Over
<1>5. e \in Saves /\ e.word = s.word /\ e.value = x.binding[s.word] /\ e.cell = CellIn(x.active, s.word)
  BY <1>0, <1>2, SavedIs
<1>6. /\ g.saved \in Seq(Saves) /\ Len(g.saved) = k
      /\ \A j \in 1 .. k : /\ g.saved[j].word = q[j].word /\ g.saved[j].value \in Known
                           /\ g.saved[j].cell \in {0} \cup DOMAIN g.cells
                           /\ (g.saved[j].cell # 0 => owner[g.saved[j].cell] = g.saved[j].word)
                           /\ (~Experimental => g.saved[j].cell = 0)
      /\ \A j \in 1 .. k : (\A m \in 1 .. j - 1 : q[m].word # q[j].word) => g.saved[j] = SavedOf(view, q[j].word)
      /\ \A w \in Words : (\A j \in 1 .. k : q[j].word # w) => Same(x, view, w)
      /\ \A j \in 1 .. k : (\A i \in j + 1 .. k : q[i].word # q[j].word) /\ q[j].cell # 0
                             => CellIn(x.active, q[j].word) = q[j].cell
  BY <1>0 DEF Recorded
<1>7. /\ r.saved \in Seq(Saves) /\ Len(r.saved) = k + 1 /\ r.saved[k + 1] = e
      /\ \A j \in 1 .. k : r.saved[j] = g.saved[j]
  <2>1. r.saved = Append(g.saved, e)
    BY <1>0, AdvanceParts
  <2> QED BY <1>5, <1>6, <2>1
<1>8. \A j \in 1 .. k + 1 : j \in 1 .. k \/ j = k + 1
  OBVIOUS
<1>9. e.value \in Known /\ e.cell \in {0} \cup DOMAIN g.cells /\ (e.cell # 0 => owner[e.cell] = e.word) /\ (~Experimental => e.cell = 0)
  <2>1. e.value \in Known
    BY <1>0, <1>2, <1>5 DEF Settled
  <2>2. CASE s.word \in DOMAIN x.active
    <3>1. CellIn(x.active, s.word) = x.active[s.word]
      BY <2>2 DEF CellIn
    <3> QED BY <1>0, <1>5, <2>1, <2>2, <3>1 DEF Settled
  <2>3. CASE s.word \notin DOMAIN x.active
    <3>1. CellIn(x.active, s.word) = 0
      BY <2>3 DEF CellIn
    <3> QED BY <1>5, <2>1, <3>1
  <2> QED BY <2>2, <2>3
<1>10. ASSUME NEW j \in 1 .. k + 1
       PROVE  /\ r.saved[j].word = q[j].word /\ r.saved[j].value \in Known
              /\ r.saved[j].cell \in {0} \cup DOMAIN r.cells
              /\ (r.saved[j].cell # 0 => owner[r.saved[j].cell] = r.saved[j].word)
              /\ (~Experimental => r.saved[j].cell = 0)
  <2>1. CASE j = k + 1
    BY <1>0, <1>4, <1>5, <1>7, <1>9, <2>1
  <2>2. CASE j \in 1 .. k
    BY <1>4, <1>6, <1>7, <2>2
  <2> QED BY <1>8, <2>1, <2>2
<1>11. ASSUME NEW j \in 1 .. k + 1, \A m \in 1 .. j - 1 : q[m].word # q[j].word
       PROVE  r.saved[j] = SavedOf(view, q[j].word)
  <2>1. CASE j = k + 1
    <3>1. Same(x, view, s.word)
      <4>1. j - 1 = k
        BY <2>1
      <4>2. \A m \in 1 .. k : q[m].word # s.word
        BY <1>0, <1>11, <2>1, <4>1
      <4> QED BY <1>2, <1>6, <4>2
    <3>2. view.active \in Env
      BY DEF Inv, Typed, view
    <3>3. SavedOf(x, s.word) = SavedOf(view, s.word)
      <4>1. PICK y, w : y = view /\ w = s.word
        OBVIOUS
      <4>2. Same(x, y, w) /\ x.active \in Env /\ y.active \in Env
        BY <1>2, <3>1, <3>2, <4>1
      <4>3. SavedOf(x, w) = SavedOf(y, w)
        BY <4>2, SameSaved
      <4> QED BY <4>1, <4>3
    <3> QED BY <1>0, <1>7, <2>1, <3>3
  <2>2. CASE j \in 1 .. k
    BY <1>6, <1>7, <1>11, <2>2
  <2> QED BY <1>8, <2>1, <2>2
<1>12. ASSUME NEW w \in Words, \A j \in 1 .. k + 1 : q[j].word # w
       PROVE  Same(u, view, w)
  <2>1. k + 1 \in 1 .. k + 1 /\ \A j \in 1 .. k : j \in 1 .. k + 1
    OBVIOUS
  <2>2. Same(x, view, w) /\ Same(u, x, w)
    BY <1>0, <1>3, <1>6, <1>12, <2>1
  <2> QED BY <2>2 DEF Same
<1>13. ASSUME NEW j \in 1 .. k + 1, \A i \in j + 1 .. k + 1 : q[i].word # q[j].word, q[j].cell # 0
       PROVE  CellIn(u.active, q[j].word) = q[j].cell
  <2>1. CASE j = k + 1
    BY <1>0, <1>3, <1>13, <2>1 DEF Taken
  <2>2. CASE j \in 1 .. k
    <3>1. k + 1 \in j + 1 .. k + 1 /\ \A i \in j + 1 .. k : i \in j + 1 .. k + 1
      BY <2>2
    <3>2. q[j].word # s.word /\ CellIn(x.active, q[j].word) = q[j].cell
      BY <1>0, <1>6, <1>13, <2>2, <3>1
    <3>3. Same(u, x, q[j].word)
      BY <1>3, <2>2, <3>2
    <3> QED BY <3>2, <3>3 DEF Same
  <2> QED BY <1>8, <2>1, <2>2
<1>14. r = Advance(g, q[k + 1]) /\ u = r.view
  BY <1>0
<1> QED
  BY <1>7, <1>10, <1>11, <1>12, <1>13, <1>14 DEF Recorded

LEMMA MidwayAll ==
  ASSUME Inv, NEW h, NEW owner, Respects(owner), NEW top \in Nat, nextCell <= top,
         Len(Steps(h)) \in Nat, NEW K \in 0 .. Len(Steps(h)),
         \A j \in 1 .. K : /\ Fits(Steps(h)[j], owner, top) /\ Steps(h)[j].argument \in BOOLEAN
                           /\ Steps(h)[j].word \in Words
  PROVE  Settled(Progress(h)[K], owner, top) /\ Recorded(Progress(h)[K], Steps(h), K, owner)
<1>1. PICK q, P : q = Steps(h) /\ P = Progress(h)
  OBVIOUS
<1>2. /\ Len(q) \in Nat /\ K \in 0 .. Len(q) /\ K \in Nat
      /\ \A j \in 1 .. K : Fits(q[j], owner, top) /\ q[j].argument \in BOOLEAN /\ q[j].word \in Words
  BY <1>1
<1>3. P[0] = Start /\ \A k \in 1 .. Len(q) : P[k] = Advance(P[k - 1], q[k])
  BY <1>1, ProgressThere
<1> DEFINE S == {k \in 0 .. K : Settled(P[k], owner, top) /\ Recorded(P[k], q, k, owner)}
<1>4. 0 \in S
  <2>1. Settled(Start, owner, top) /\ Recorded(Start, q, 0, owner)
    BY SettledStart, RecordedStart
  <2> QED BY <1>2, <1>3, <2>1
<1>5. ASSUME NEW k \in 0 .. K, k \in S, k < K PROVE k + 1 \in S
  <2>1. k + 1 \in 0 .. K /\ k + 1 \in 1 .. K /\ k + 1 \in 1 .. Len(q) /\ k + 1 - 1 = k /\ k \in Nat
    BY <1>2, <1>5
  <2>2. PICK g, s : g = P[k] /\ s = q[k + 1]
    OBVIOUS
  <2>3. Settled(g, owner, top) /\ Recorded(g, q, k, owner)
    BY <1>5, <2>2
  <2>4. Fits(s, owner, top) /\ s.argument \in BOOLEAN /\ \A j \in 1 .. k : q[j].word \in Words
    BY <1>2, <2>1, <2>2
  <2>5. P[k + 1] = Advance(g, s)
    BY <1>3, <2>1, <2>2
  <2>6. Settled(Advance(g, s), owner, top)
    BY <2>3, <2>4, SettledStep
  <2>7. Recorded(Advance(g, s), q, k + 1, owner)
    <3>1. Fits(q[k + 1], owner, top) /\ Recorded(g, q, k, owner)
      BY <2>2, <2>3, <2>4
    <3>2. Recorded(Advance(g, q[k + 1]), q, k + 1, owner)
      BY <2>1, <2>3, <2>4, <3>1, RecordedStep
    <3> QED BY <2>2, <3>2
  <2> QED BY <2>1, <2>5, <2>6, <2>7
<1>6. K \in S
  <2>1. \A k \in 0 .. K : k \in S /\ k < K => k + 1 \in S
    <3> HIDE DEF S
    <3> QED BY <1>5
  <2>2. K \in 0 .. K
    BY <1>2
  <2> HIDE DEF S
  <2> QED BY <1>2, <1>4, <2>1, <2>2, UpTo, Zenon
<1> QED
  BY <1>1, <1>6

\* Who owns a cell matters only for the cells there are.
LEMMA OwnersAgree ==
  ASSUME Inv, NEW o, Respects(o), NEW owner, \A c \in DOMAIN cells : owner[c] = o[c]
  PROVE  Respects(owner)
<1>0. Typed /\ Live
  BY DEF Inv
<1>1. \A w \in DOMAIN active : owner[active[w]] = w
  BY <1>0 DEF Live, Respects
<1>2. ASSUME NEW i \in DOMAIN frames
      PROVE  /\ \A w \in DOMAIN frames[i].environment : owner[frames[i].environment[w]] = w
             /\ \A j \in DOMAIN frames[i].saved :
                  frames[i].saved[j].cell # 0 => owner[frames[i].saved[j].cell] = frames[i].saved[j].word
  BY <1>0 DEF Live, Respects
<1>3. \A h \in DOMAIN functions : \A w \in DOMAIN functions[h].environment : owner[functions[h].environment[w]] = w
  BY <1>0 DEF Live, Respects
<1> QED
  BY <1>1, <1>2, <1>3 DEF Respects

\* The cells a call installs belong to their words.
LEMMA OwnersThere ==
  ASSUME Inv, NEW h, IsFunction(h)
  PROVE  \E owner \in [Cells -> Words \cup {Undefined}] :
           /\ Respects(owner)
           /\ \A j \in 1 .. Len(Steps(h)) :
                Steps(h)[j].cell \in Cells => owner[Steps(h)[j].cell] = Steps(h)[j].word
<1>0. Typed /\ Counted /\ OneWord
  BY DEF Inv
<1>1. PICK q, m, n, E : q = Steps(h) /\ m = Len(CapturedSteps(h)) /\ n = Declared(h) /\ E = Environment(h)
  OBVIOUS
<1>2. /\ m \in Nat /\ n \in Nat /\ Len(q) = m + n
      /\ \A k \in 1 .. m : q[k].word \in Enclosed(h) /\ q[k].cell = E[q[k].word]
      /\ \A k \in m + 1 .. m + n : q[k].word \in Words /\ q[k].cell = IF Experimental THEN nextCell + (k - m) - 1 ELSE 0
      /\ ~Experimental => m = 0
  BY <1>1, StepsAre
<1>3. PICK o \in [Cells -> Words \cup {Undefined}] : Respects(o)
  BY <1>0 DEF OneWord
<1>4. nextCell \in Nat /\ nextCell >= 1 /\ DOMAIN cells \subseteq 1 .. nextCell - 1
  BY <1>0, BodiesAssumption DEF Typed, Counted
<1> DEFINE own(c) == Experimental /\ c \in nextCell .. nextCell + n - 1
           owner == [c \in Cells |-> IF own(c) THEN q[m + (c - nextCell) + 1].word ELSE o[c]]
<1>5. \A c \in Cells : own(c) => m + (c - nextCell) + 1 \in m + 1 .. m + n
  BY <1>2, <1>4
<1>6. owner \in [Cells -> Words \cup {Undefined}]
  BY <1>2, <1>5
<1>7. \A c \in DOMAIN cells : c \in Cells /\ ~own(c)
  BY SMTT(40), <1>0, <1>2, <1>4, BodiesAssumption DEF Cells, Typed
<1>8. \A c \in Cells : owner[c] = IF own(c) THEN q[m + (c - nextCell) + 1].word ELSE o[c]
  OBVIOUS
<1>9. \A c \in DOMAIN cells : owner[c] = o[c]
  <2> HIDE DEF owner, own
  <2> QED BY <1>7, <1>8
<1>10. Respects(owner)
  <2> HIDE DEF owner
  <2> QED BY <1>3, <1>9, OwnersAgree
<1>11. ASSUME NEW j \in 1 .. m + n, q[j].cell \in Cells PROVE owner[q[j].cell] = q[j].word
  <2>1. CASE j \in 1 .. m
    <3>0. q[j].word \in Enclosed(h) /\ q[j].cell = E[q[j].word]
      BY <1>2, <2>1
    <3>a. \A w \in Enclosed(h) : E[w] \in DOMAIN cells /\ o[E[w]] = w
      BY <1>1, <1>3, CalleeIs
    <3>1. q[j].cell \in DOMAIN cells /\ o[q[j].cell] = q[j].word
      BY <3>0, <3>a
    <3> HIDE DEF owner
    <3> QED BY <1>9, <3>1
  <2>2. CASE j \in m + 1 .. m + n /\ Experimental
    <3>1. q[j].cell = nextCell + (j - m) - 1
      BY <1>2, <2>2
    <3>2. own(q[j].cell) /\ m + (q[j].cell - nextCell) + 1 = j
      BY <1>2, <1>4, <2>2, <3>1
    <3> HIDE DEF owner, own
    <3> QED BY <1>8, <1>11, <3>2
  <2>3. CASE j \in m + 1 .. m + n /\ ~Experimental
    BY <1>2, <1>11, <2>3, CellsPositive
  <2> QED BY <1>2, <2>1, <2>2, <2>3
<1> HIDE DEF owner
<1> QED
  BY <1>1, <1>2, <1>6, <1>10, <1>11

LEMMA StepsAlike ==
  ASSUME Inv, NEW h, IsFunction(h)
  PROVE  \A j \in 1 .. Len(Steps(h)) :
           /\ Steps(h)[j].word \in Words /\ Steps(h)[j].argument \in BOOLEAN
           /\ (Steps(h)[j].captured => Steps(h)[j].cell \in DOMAIN cells)
           /\ (Steps(h)[j].argument => j > Len(CapturedSteps(h)))
           /\ \/ Steps(h)[j].cell \in DOMAIN cells /\ Experimental
              \/ /\ j > Len(CapturedSteps(h))
                 /\ Steps(h)[j].cell = IF Experimental THEN nextCell + (j - Len(CapturedSteps(h))) - 1 ELSE 0
<1> DEFINE q == Steps(h)
           m == Len(CapturedSteps(h))
           n == Declared(h)
           E == Environment(h)
<1>2. /\ m \in Nat /\ n \in Nat /\ Len(q) = m + n
      /\ \A k \in 1 .. m : q[k].word \in Enclosed(h) /\ q[k].cell = E[q[k].word]
      /\ \A k \in m + 1 .. m + n : q[k].word \in Words /\ q[k].cell = IF Experimental THEN nextCell + (k - m) - 1 ELSE 0
      /\ ~Experimental => m = 0
  BY StepsAre
<1>3. \A k \in 1 .. m : q[k].argument = FALSE
  BY StepsAre, Zenon
<1>a. \A k \in m + 1 .. m + n : q[k].captured = FALSE /\ q[k].argument \in BOOLEAN
  BY StepsAre, Zenon
<1>4. \A w \in Enclosed(h) : w \in Words /\ E[w] \in DOMAIN cells
  BY CalleeIs
<1> HIDE DEF q, m, n, E
<1> SUFFICES ASSUME NEW j \in 1 .. m + n
             PROVE  /\ q[j].word \in Words /\ q[j].argument \in BOOLEAN
                    /\ (q[j].captured => q[j].cell \in DOMAIN cells)
                    /\ (q[j].argument => j > m)
                    /\ \/ q[j].cell \in DOMAIN cells /\ Experimental
                       \/ j > m /\ q[j].cell = IF Experimental THEN nextCell + (j - m) - 1 ELSE 0
  BY <1>2 DEF q, m
<1>5. CASE j \in 1 .. m
  <2>1. q[j].argument = FALSE
    BY <1>3, <1>5
  <2>2. q[j].word \in Words /\ q[j].cell \in DOMAIN cells
    BY <1>2, <1>4, <1>5
  <2>3. Experimental
    BY <1>2, <1>5
  <2> QED BY <2>1, <2>2, <2>3, Zenon
<1>6. CASE j \in m + 1 .. m + n
  <2>1. q[j].captured = FALSE /\ q[j].argument \in BOOLEAN
    BY <1>a, <1>6
  <2>2. j > m /\ q[j].word \in Words /\ q[j].cell = IF Experimental THEN nextCell + (j - m) - 1 ELSE 0
    BY <1>2, <1>6
  <2> QED BY <2>1, <2>2
<1> QED
  BY <1>2, <1>5, <1>6

\* The steps of a call whose cells are numbered below top.
LEMMA StepsFit ==
  ASSUME Inv, NEW h, IsFunction(h), NEW owner, NEW top \in 1 .. MaxCell + 1, nextCell <= top,
         \A j \in 1 .. Len(Steps(h)) : Steps(h)[j].cell \in Cells => owner[Steps(h)[j].cell] = Steps(h)[j].word,
         NEW K \in 0 .. Len(Steps(h)), Experimental => nextCell + (K - Len(CapturedSteps(h))) <= top
  PROVE  \A j \in 1 .. K : /\ Fits(Steps(h)[j], owner, top) /\ Steps(h)[j].argument \in BOOLEAN
                           /\ Steps(h)[j].word \in Words
<1>0. Typed /\ Counted
  BY DEF Inv
<1>1. PICK q, m : q = Steps(h) /\ m = Len(CapturedSteps(h))
  OBVIOUS
<1>2. \A j \in 1 .. Len(q) :
        /\ q[j].word \in Words /\ q[j].argument \in BOOLEAN
        /\ (q[j].captured => q[j].cell \in DOMAIN cells)
        /\ \/ q[j].cell \in DOMAIN cells /\ Experimental
           \/ j > m /\ q[j].cell = IF Experimental THEN nextCell + (j - m) - 1 ELSE 0
  BY <1>1, StepsAlike
<1>3. nextCell \in Nat /\ nextCell >= 1 /\ DOMAIN cells \subseteq 1 .. nextCell - 1 /\ DOMAIN cells \subseteq Cells
      /\ top \in Nat /\ top <= MaxCell + 1 /\ MaxCell \in Nat
  BY SMTT(40), <1>0, BodiesAssumption DEF Typed, Counted, Cells
<1>4. Len(q) \in Nat /\ m \in Nat
  BY <1>1, StepsAre
<1> SUFFICES ASSUME NEW j \in 1 .. K
             PROVE  Fits(q[j], owner, top) /\ q[j].argument \in BOOLEAN /\ q[j].word \in Words
  BY <1>1
<1>5. j \in 1 .. Len(q) /\ K \in Nat /\ j <= K /\ j \in Nat
  BY <1>1, <1>4
<1>6. /\ q[j].word \in Words /\ q[j].argument \in BOOLEAN /\ (q[j].captured => q[j].cell \in DOMAIN cells)
      /\ (q[j].cell \in Cells => owner[q[j].cell] = q[j].word)
  BY <1>1, <1>2, <1>5
<1>7. CASE q[j].cell \in DOMAIN cells /\ Experimental
  <2>1. q[j].cell < top /\ q[j].cell \in Cells /\ q[j].cell # 0
    BY <1>3, <1>7, CellsPositive
  <2> QED BY <1>6, <1>7, <2>1 DEF Fits
<1>8. CASE j > m /\ Experimental /\ q[j].cell = nextCell + (j - m) - 1
  <2>1. nextCell + (K - m) <= top
    BY <1>1, <1>8
  <2>2. q[j].cell < top /\ q[j].cell \in Cells /\ q[j].cell # 0
    BY SMTT(40), <1>3, <1>4, <1>5, <1>8, <2>1 DEF Cells
  <2> QED BY <1>6, <1>8, <2>2 DEF Fits
<1>9. CASE ~Experimental /\ q[j].cell = 0
  BY <1>3, <1>6, <1>9 DEF Fits
<1> QED
  BY <1>2, <1>5, <1>7, <1>8, <1>9

---------------------------------------------------------------------------
(* Calls that fail *)

LEMMA AbandonKeeps ==
  ASSUME Inv, NEW owner \in [Cells -> Words \cup {Undefined}], Respects(owner), NEW g,
         Settled(g, owner, nextCell'), Knows(g), frames' = <<>>, UNCHANGED <<functions, nextHandle>>,
         nextCell' \in nextCell .. MaxCell + 1
  PROVE  Inv'
<1>0. Typed /\ Counted /\ NoCells /\ Live
  BY DEF Inv
<1>1. /\ binding' = g.view.binding /\ class' = g.view.class /\ active' = g.view.active /\ cells' = g.cells
      /\ values' = g.values /\ below' = g.below /\ floor' = floor
      /\ functions' = functions /\ nextHandle' = nextHandle
  BY DEF Knows, Become
<1>2. /\ g.view \in View /\ g.cells \in [DOMAIN g.cells -> Value] /\ DOMAIN cells \subseteq DOMAIN g.cells
      /\ DOMAIN g.cells \subseteq 1 .. nextCell' - 1 /\ g.values \in Seq(Value) /\ g.below \in BOOLEAN
  BY DEF Settled
<1>3. binding' \in [Words -> Value] /\ class' \in [Words -> BOOLEAN] /\ active' \in Env
  BY <1>1, <1>2, ViewParts
<1>4. frames' \in Seq(Frames) /\ DOMAIN frames' = {}
  OBVIOUS
<1>5. nextCell' \in 1 .. MaxCell + 1
  BY <1>0, BodiesAssumption DEF Typed
<1>6. Typed'
  <2>1. functions' \in [DOMAIN functions' -> Instances] /\ floor' \in Value /\ nextHandle' \in 1 .. MaxHandle + 1
    BY <1>0, <1>1 DEF Typed
  <2>2. cells' \in [DOMAIN cells' -> Value] /\ values' \in Seq(Value) /\ below' \in BOOLEAN
    BY <1>1, <1>2
  <2> QED BY <1>3, <1>4, <1>5, <2>1, <2>2 DEF Typed
<1>7. Counted'
  <2>1. DOMAIN cells' \subseteq 1 .. nextCell' - 1
    BY <1>1, <1>2
  <2> QED BY <1>0, <1>1, <1>4, <2>1 DEF Counted
<1>8. \A w \in DOMAIN active' : /\ active'[w] \in DOMAIN cells' /\ owner[active'[w]] = w
                                /\ binding'[w] = cells'[active'[w]]
  BY <1>1 DEF Settled
<1>9. OneWord'
  <2>1. Respects(owner)'
    BY <1>1, <1>4, <1>8 DEF Respects
  <2> QED BY <2>1 DEF OneWord
<1>10. NoCells'
  BY <1>0, <1>1, <1>4 DEF NoCells, Settled
<1>11. Chained'
  BY <1>4 DEF Chained
<1>12. ViewAgrees'
  BY <1>8 DEF ViewAgrees
<1>13. Live'
  <2>1. Known' = Known
    BY <1>1 DEF Known
  <2>2. /\ \A c \in DOMAIN cells' : cells'[c] \in Known
        /\ \A k \in DOMAIN values' : values'[k] \in Known
        /\ \A w \in Words : binding'[w] \in Known
    BY <1>1 DEF Settled
  <2>3. \A h \in DOMAIN functions' : \A w \in DOMAIN functions'[h].environment :
          functions'[h].environment[w] \in DOMAIN cells'
    BY <1>0, <1>1, <1>2 DEF Live
  <2>4. floor' \in Known
    BY <1>0, <1>1 DEF Live
  <2> QED BY <1>4, <1>8, <2>1, <2>2, <2>3, <2>4 DEF Live
<1> QED
  BY <1>6, <1>7, <1>9, <1>10, <1>11, <1>12, <1>13 DEF Inv

LEMMA ProgressShape ==
  ASSUME NEW h, Len(Steps(h)) \in Nat, NEW k \in 0 .. Len(Steps(h))
  PROVE  LET g == Progress(h)[k]
         IN g = [view |-> g.view, saved |-> g.saved, cells |-> g.cells, values |-> g.values, below |-> g.below]
<1>1. Progress(h)[k] = Start \/ \E g, s : Progress(h)[k] = Advance(g, s)
  <2>1. CASE k = 0
    BY <2>1, ProgressThere
  <2>2. CASE k \in 1 .. Len(Steps(h))
    BY <2>2, ProgressThere
  <2> QED BY <2>1, <2>2
<1>2. CASE Progress(h)[k] = Start
  BY <1>2 DEF Start
<1>3. CASE \E g, s : Progress(h)[k] = Advance(g, s)
  BY <1>3 DEF Advance
<1> QED
  BY <1>1, <1>2, <1>3

\* Historically the word whose binding was interrupted is left without a value.
LEMMA SettledUnbound ==
  ASSUME Inv, ~Experimental, NEW owner, NEW top, NEW g, Settled(g, owner, top), NEW w \in Words,
         g = [view |-> g.view, saved |-> g.saved, cells |-> g.cells, values |-> g.values, below |-> g.below]
  PROVE  Settled([g EXCEPT !.view = Installed(@, w, 0, Undefined)], owner, top)
<1>1. PICK r, u, x : r = [g EXCEPT !.view = u] /\ u = Installed(x, w, 0, Undefined) /\ x = g.view
  OBVIOUS
<1>2. r.view = u /\ r.cells = g.cells /\ r.values = g.values /\ r.below = g.below
  BY <1>1
<1>3. x \in View /\ 0 \in {0} \cup Cells /\ Undefined \in Value
  BY <1>1, ValueFacts DEF Settled
<1>4. u \in View /\ Taken(u, x, w, 0, Undefined) /\ \A y \in Words : y # w => Same(u, x, y)
  <2>1. PICK c, v : c = 0 /\ v = Undefined
    OBVIOUS
  <2>2. u = Installed(x, w, c, v) /\ c \in {0} \cup Cells /\ v \in Value
    BY <1>1, <1>3, <2>1
  <2>3. u \in View /\ Taken(u, x, w, c, v) /\ \A y \in Words : y # w => Same(u, x, y)
    BY <1>3, <2>2, InstalledIs
  <2> QED BY <2>1, <2>3
<1>5. DOMAIN u.active = DOMAIN x.active /\ u.binding[w] = Undefined /\ \A y \in Words : y # w => u.binding[y] = x.binding[y]
  BY <1>4 DEF Taken, Same
<1>6. DOMAIN x.active = {} /\ \A y \in Words : x.binding[y] \in Known
  BY <1>1 DEF Settled
<1>7. \A y \in Words : u.binding[y] \in Known
  BY <1>5, <1>6 DEF Known
<1>8. Settled(r, owner, top)
  BY <1>2, <1>4, <1>5, <1>6, <1>7 DEF Settled
<1> QED
  BY <1>1, <1>8

\* What a call knows after K steps whose cells are numbered below top.
LEMMA Midway ==
  ASSUME Inv, NEW h, IsFunction(h), NEW K \in 0 .. Len(Steps(h)), NEW top \in nextCell .. MaxCell + 1,
         Experimental => nextCell + (K - Len(CapturedSteps(h))) <= top
  PROVE  \E owner \in [Cells -> Words \cup {Undefined}] :
           /\ Respects(owner)
           /\ \A j \in 1 .. Len(Steps(h)) : Steps(h)[j].cell \in Cells => owner[Steps(h)[j].cell] = Steps(h)[j].word
           /\ Settled(Progress(h)[K], owner, top) /\ Recorded(Progress(h)[K], Steps(h), K, owner)
<1>1. PICK owner \in [Cells -> Words \cup {Undefined}] :
         /\ Respects(owner)
         /\ \A j \in 1 .. Len(Steps(h)) : Steps(h)[j].cell \in Cells => owner[Steps(h)[j].cell] = Steps(h)[j].word
  BY OwnersThere
<1>2. top \in 1 .. MaxCell + 1 /\ top \in Nat /\ nextCell <= top
  BY BodiesAssumption DEF Inv, Typed
<1>3. Len(Steps(h)) \in Nat
  <2>1. PICK m, n : m = Len(CapturedSteps(h)) /\ n = Declared(h)
    OBVIOUS
  <2>2. m \in Nat /\ n \in Nat /\ Len(Steps(h)) = m + n
    BY <2>1, StepsAre
  <2> QED BY <2>2
<1>4. \A j \in 1 .. K : Fits(Steps(h)[j], owner, top) /\ Steps(h)[j].argument \in BOOLEAN /\ Steps(h)[j].word \in Words
  BY <1>1, <1>2, StepsFit
<1>5. Settled(Progress(h)[K], owner, top) /\ Recorded(Progress(h)[K], Steps(h), K, owner)
  BY <1>1, <1>2, <1>3, <1>4, MidwayAll
<1> QED
  BY <1>1, <1>5

LEMMA FailedKeeps ==
  ASSUME Inv, NEW w \in Words, FailedCall(w)
  PROVE  Inv'
<1>1. PICK h, q, P, m, n : h = binding[w] /\ q = Steps(h) /\ P = Progress(h) /\ m = Len(CapturedSteps(h)) /\ n = Declared(h)
  OBVIOUS
<1>2. /\ IsFunction(h) /\ (Experimental => nextCell + n <= MaxCell + 1)
      /\ frames' = <<>> /\ UNCHANGED <<functions, nextHandle>>
  BY <1>1 DEF FailedCall, Callable, Declared
<1>3. \E k \in 0 .. Len(q) :
        \/ /\ k > 0 /\ Lacks(h, k)
           /\ nextCell' = IF Experimental THEN nextCell + k - m ELSE nextCell
           /\ Knows(IF Experimental THEN P[k - 1]
                    ELSE [P[k - 1] EXCEPT !.view = Installed(@, q[k].word, 0, Undefined)])
        \/ /\ ~Experimental /\ UNCHANGED nextCell
           /\ \/ Knows(P[k])
              \/ k > 0 /\ Knows([P[k] EXCEPT !.view = Installed(@, q[k].word, 0, Undefined)])
  BY <1>1 DEF FailedCall
<1>4. m \in Nat /\ n \in Nat /\ Len(q) = m + n
  BY <1>1, <1>2, StepsAre
<1>5. \A k \in 1 .. Len(q) : q[k].word \in Words /\ (q[k].argument => k > m)
  BY <1>1, <1>2, StepsAlike
<1>6. nextCell \in Nat /\ nextCell <= MaxCell + 1 /\ MaxCell \in Nat
  BY BodiesAssumption DEF Inv, Typed
<1>7. ASSUME NEW K \in 0 .. Len(q), nextCell' \in nextCell .. MaxCell + 1,
             Experimental => nextCell + (K - m) <= nextCell',
             \/ Knows(P[K])
             \/ ~Experimental /\ \E x \in Words : Knows([P[K] EXCEPT !.view = Installed(@, x, 0, Undefined)])
      PROVE  Inv'
  <2>1. PICK top : top = nextCell'
    OBVIOUS
  <2>2. PICK owner \in [Cells -> Words \cup {Undefined}] : Respects(owner) /\ Settled(P[K], owner, top)
    <3>1. top \in nextCell .. MaxCell + 1 /\ (Experimental => nextCell + (K - Len(CapturedSteps(h))) <= top)
      BY <1>1, <1>7, <2>1
    <3>2. \E owner \in [Cells -> Words \cup {Undefined}] : Respects(owner) /\ Settled(Progress(h)[K], owner, top)
      BY <1>1, <1>2, <3>1, Midway
    <3> QED BY <1>1, <3>2
  <2>3. \E g : Settled(g, owner, top) /\ Knows(g)
    <3>1. CASE Knows(P[K])
      BY <2>2, <3>1
    <3>2. CASE ~Experimental /\ \E x \in Words : Knows([P[K] EXCEPT !.view = Installed(@, x, 0, Undefined)])
      <4>1. PICK x \in Words : Knows([P[K] EXCEPT !.view = Installed(@, x, 0, Undefined)])
        BY <3>2
      <4>2. PICK g : g = P[K]
        OBVIOUS
      <4>3. g = [view |-> g.view, saved |-> g.saved, cells |-> g.cells, values |-> g.values, below |-> g.below]
        <5>1. Len(Steps(h)) \in Nat /\ K \in 0 .. Len(Steps(h))
          BY <1>1, <1>4
        <5> QED BY <1>1, <4>2, <5>1, ProgressShape
      <4>4. Settled([g EXCEPT !.view = Installed(@, x, 0, Undefined)], owner, top)
        BY <2>2, <3>2, <4>2, <4>3, SettledUnbound
      <4> QED BY <4>1, <4>2, <4>4
    <3> QED BY <1>7, <3>1, <3>2
  <2> QED BY <1>2, <1>7, <2>1, <2>2, <2>3, AbandonKeeps
<1>8. PICK k \in 0 .. Len(q) :
        \/ /\ k > 0 /\ Lacks(h, k)
           /\ nextCell' = IF Experimental THEN nextCell + k - m ELSE nextCell
           /\ Knows(IF Experimental THEN P[k - 1]
                    ELSE [P[k - 1] EXCEPT !.view = Installed(@, q[k].word, 0, Undefined)])
        \/ /\ ~Experimental /\ UNCHANGED nextCell
           /\ \/ Knows(P[k])
              \/ k > 0 /\ Knows([P[k] EXCEPT !.view = Installed(@, q[k].word, 0, Undefined)])
  BY <1>3
<1>9. CASE k > 0 /\ Lacks(h, k) /\ Experimental /\ nextCell' = nextCell + k - m /\ Knows(P[k - 1])
  <2>1. k \in 1 .. m + n /\ k - 1 \in 0 .. Len(q)
    BY <1>4, <1>9
  <2>2. q[k].argument
    BY <1>1, <1>9 DEF Lacks
  <2>3. k > m
    BY <1>4, <1>5, <2>1, <2>2
  <2>4. nextCell' \in nextCell .. MaxCell + 1 /\ nextCell + ((k - 1) - m) <= nextCell'
    BY <1>2, <1>4, <1>6, <1>9, <2>1, <2>3
  <2> QED BY <1>7, <1>9, <2>1, <2>4
<1>10. CASE ~Experimental /\ nextCell' = nextCell
  <2>1. nextCell' \in nextCell .. MaxCell + 1
    BY <1>6, <1>10
  <2>2. \E K \in 0 .. Len(q) :
          \/ Knows(P[K])
          \/ \E x \in Words : Knows([P[K] EXCEPT !.view = Installed(@, x, 0, Undefined)])
    <3>1. k > 0 => q[k].word \in Words /\ k - 1 \in 0 .. Len(q)
      BY <1>4, <1>5
    <3> QED BY <1>8, <1>10, <3>1
  <2> QED BY <1>7, <1>10, <2>1, <2>2
<1> QED
  BY <1>8, <1>9, <1>10

---------------------------------------------------------------------------
(* Calls *)

\* The environment of a call has the cells that are installed last.
LEMMA EnvironmentIs ==
  ASSUME Inv, NEW h, IsFunction(h), Experimental => nextCell + Declared(h) <= MaxCell + 1
  PROVE  /\ NewEnvironment(h) \in Env /\ IsFiniteSet(DOMAIN NewEnvironment(h))
         /\ (~Experimental => DOMAIN NewEnvironment(h) = {})
         /\ \A w \in DOMAIN NewEnvironment(h) : \E k \in 1 .. Len(Steps(h)) :
              /\ Steps(h)[k].word = w /\ Steps(h)[k].cell = NewEnvironment(h)[w]
              /\ \A i \in k + 1 .. Len(Steps(h)) : Steps(h)[i].word # w
<1>1. PICK q, O, m, n, E, N : /\ q = Steps(h) /\ O = OwnSteps(h) /\ m = Len(CapturedSteps(h)) /\ n = Declared(h)
                              /\ E = Environment(h) /\ N = NewEnvironment(h)
  OBVIOUS
<1>2. CASE ~Experimental
  <2>1. N = <<>>
    BY <1>1, <1>2 DEF NewEnvironment
  <2>2. DOMAIN <<>> = {} /\ <<>> \in [{} -> Cells] /\ {} \in SUBSET Words
    OBVIOUS
  <2>3. N \in Env /\ DOMAIN N = {} /\ IsFiniteSet({})
    BY <2>1, <2>2, FS_EmptySet DEF Env
  <2> QED BY <1>1, <2>3
<1>3. CASE Experimental
  <2>1. /\ m \in Nat /\ n \in Nat /\ Len(q) = m + n
        /\ \A k \in 1 .. m : q[k].word \in Enclosed(h) /\ q[k].cell = E[q[k].word]
        /\ \A w \in Enclosed(h) : \E k \in 1 .. m : q[k].word = w
        /\ \A k \in m + 1 .. m + n : q[k].word = O[k - m].word /\ q[k].cell = O[k - m].cell
        /\ \A j, k \in m + 1 .. m + n : j # k => q[j].word # q[k].word
    <3>1. /\ m \in Nat /\ n \in Nat /\ Len(q) = m + n
          /\ \A k \in 1 .. m : q[k].word \in Enclosed(h) /\ q[k].cell = E[q[k].word]
      BY <1>1, StepsAre
    <3>2. \A w \in Enclosed(h) : \E k \in 1 .. m : q[k].word = w
      <4>1. Covers(q, m, Enclosed(h))
        BY <1>1, StepsAre
      <4> QED BY <4>1 DEF Covers
    <3>3. \A k \in m + 1 .. m + n : q[k].word = O[k - m].word /\ q[k].cell = O[k - m].cell
      BY <1>1, StepsAre
    <3>4. \A j, k \in m + 1 .. m + n : j # k => q[j].word # q[k].word
      <4>1. \A j, k \in Len(CapturedSteps(h)) + 1 .. Len(CapturedSteps(h)) + Declared(h) :
              j # k => Steps(h)[j].word # Steps(h)[k].word
        BY StepsAre, Zenon
      <4> QED BY <1>1, <4>1
    <3> QED BY <3>1, <3>2, <3>3, <3>4
  <2>2. E \in Env /\ IsFiniteSet(Enclosed(h)) /\ DOMAIN E = Enclosed(h) /\ Body(h) \in Bodies
    BY <1>1, CalleeIs DEF Enclosed
  <2>3. \A i \in 1 .. n : O[i].word \in Words /\ O[i].cell = nextCell + i - 1
    BY <1>1, <1>3, <2>2, OwnIs
  <2>4. DOMAIN Formals[Body(h)] = 1 .. n
    <3>1. Formals[Body(h)] \in Seq([word : Words, argument : BOOLEAN])
      BY <2>2, BodiesAssumption
    <3> QED BY <1>1, <3>1 DEF Declared
  <2> DEFINE own == {O[i] : i \in 1 .. n}
             D == {s.word : s \in own}
             A == [w \in D |-> (CHOOSE s \in own : s.word = w).cell]
  <2>5. N = Over(A, E)
    BY <1>1, <1>3, <2>4 DEF NewEnvironment
  <2>6. \A i \in 1 .. n : O[i].word \in D
    OBVIOUS
  <2>7. ASSUME NEW w \in D PROVE \E i \in 1 .. n : O[i].word = w /\ A[w] = O[i].cell
    <3>1. \E s \in own : s.word = w
      OBVIOUS
    <3>2. PICK s : s \in own /\ s.word = w /\ s = CHOOSE x \in own : x.word = w
      <4> HIDE DEF own
      <4> QED BY <3>1
    <3>3. A[w] = s.cell
      <4> HIDE DEF own
      <4> QED BY <3>2
    <3> HIDE DEF A, D
    <3> QED BY <3>2, <3>3
  <2>8. IsFiniteSet(D)
    <3>1. PICK f : f = [i \in 1 .. n |-> O[i].word]
      OBVIOUS
    <3>2. f \in [1 .. n -> D] /\ \A w \in D : \E i \in 1 .. n : f[i] = w
      <4> HIDE DEF A, D, own
      <4> QED BY <2>6, <2>7, <3>1
    <3>3. ExistsSurjection(1 .. n, D)
      <4> HIDE DEF A, D, own
      <4> QED BY <3>2 DEF ExistsSurjection, Surjection
    <3> HIDE DEF A, D, own
    <3> QED BY <2>1, <3>3, FS_NatSurjection
  <2>9. DOMAIN A = D
    OBVIOUS
  <2> HIDE DEF A, D, own
  <2>10. N = [w \in D \cup DOMAIN E |-> IF w \in D THEN A[w] ELSE E[w]]
    BY <2>5, <2>9 DEF Over
  <2>11. IsFiniteSet(DOMAIN N)
    <3>1. IsFiniteSet(D \cup DOMAIN E)
      BY <2>2, <2>8, FS_Union
    <3> QED BY <2>10, <3>1
  <2>12. nextCell \in Nat /\ nextCell >= 1 /\ MaxCell \in Nat /\ nextCell + n <= MaxCell + 1
    BY <1>1, <1>3, BodiesAssumption DEF Inv, Typed
  <2>13. \A w \in D : w \in Words /\ A[w] \in Cells
    <3>1. \A i \in 1 .. n : O[i].cell \in Cells
      BY <2>1, <2>3, <2>12 DEF Cells
    <3> QED BY <2>3, <2>7, <3>1
  <2>14. N \in Env
    <3>1. \A w \in DOMAIN E : w \in Words /\ E[w] \in Cells
      BY <2>2, CellInType
    <3>2. D \cup DOMAIN E \in SUBSET Words /\ N \in [D \cup DOMAIN E -> Cells]
      BY <2>10, <2>13, <3>1
    <3> QED BY <3>2 DEF Env
  <2>15. ASSUME NEW w \in DOMAIN N
         PROVE  \E k \in 1 .. m + n : q[k].word = w /\ q[k].cell = N[w] /\ \A i \in k + 1 .. m + n : q[i].word # w
    <3>1. CASE w \in D
      <4>1. PICK i \in 1 .. n : O[i].word = w /\ N[w] = O[i].cell
        BY <2>7, <2>10, <3>1
      <4>2. m + i \in m + 1 .. m + n /\ (m + i) - m = i /\ m + i \in 1 .. m + n
        BY <2>1
      <4>3. q[m + i].word = w /\ q[m + i].cell = N[w]
        BY <2>1, <4>1, <4>2
      <4>4. \A j \in (m + i) + 1 .. m + n : j \in m + 1 .. m + n /\ j # m + i
        BY <2>1
      <4>5. \A j \in (m + i) + 1 .. m + n : q[j].word # w
        BY <2>1, <4>2, <4>3, <4>4
      <4> QED BY <4>2, <4>3, <4>5
    <3>2. CASE w \notin D
      <4>1. w \in Enclosed(h) /\ N[w] = E[w]
        BY <2>2, <2>10, <3>2
      <4>2. PICK K : K = {k \in 1 .. m : q[k].word = w}
        OBVIOUS
      <4>3. K \in SUBSET Nat /\ K # {} /\ \A x \in K : x <= m
        BY <2>1, <4>1, <4>2
      <4>4. PICK k \in K : \A y \in K : y <= k
        BY <2>1, <4>3, GreatestNatural
      <4>5. k \in 1 .. m /\ k \in 1 .. m + n /\ q[k].word = w /\ q[k].cell = N[w]
        BY <2>1, <4>1, <4>2, <4>4
      <4>6. ASSUME NEW i \in k + 1 .. m + n PROVE q[i].word # w
        <5>1. CASE i \in 1 .. m
          <6>1. ~(i <= k)
            BY <4>5
          <6> QED BY <4>2, <4>4, <5>1, <6>1
        <5>2. CASE i \in m + 1 .. m + n
          <6>1. i - m \in 1 .. n
            BY <2>1, <5>2
          <6> QED BY <2>1, <2>6, <3>2, <5>2, <6>1
        <5> QED BY <2>1, <4>5, <5>1, <5>2
      <4> QED BY <4>5, <4>6
    <3> QED BY <3>1, <3>2
  <2> QED BY <1>1, <1>3, <2>1, <2>11, <2>14, <2>15
<1> QED
  BY <1>2, <1>3

\* What a call saved, passes on and shows its callee.
LEMMA CallLinks ==
  ASSUME Inv, NEW h, NEW q, NEW L \in Nat, L = Len(q), NEW owner, NEW g, Recorded(g, q, L, owner),
         NEW E \in Env, NEW f, f.saved = g.saved, f.entered = view, f.environment = E,
         \A w \in DOMAIN E : \E k \in 1 .. L : /\ q[k].word = w /\ q[k].cell = E[w]
                                               /\ \A i \in k + 1 .. L : q[i].word # w,
         \A w \in DOMAIN E : owner[E[w]] = w,
         NEW next, next.class = g.view.class, next.active = g.view.active
  PROVE  FirstSaved(f) /\ Passes(f, next) /\ Sees(f, next)
<1>1. PICK saved, v : saved = g.saved /\ v = view
  OBVIOUS
<1>2. saved \in Seq(Saves) /\ DOMAIN saved = 1 .. L /\ \A j \in 1 .. L : saved[j].word = q[j].word
  <2>1. saved \in Seq(Saves) /\ Len(saved) = L
    BY <1>1 DEF Recorded
  <2>2. \A j \in 1 .. L : saved[j].word = q[j].word
    BY <1>1 DEF Recorded
  <2> QED BY <2>1, <2>2
<1>3. ASSUME NEW j \in 1 .. L, \A m \in 1 .. j - 1 : saved[m].word # saved[j].word
      PROVE  saved[j] = SavedOf(v, saved[j].word)
  <2>1. \A m \in 1 .. j - 1 : m \in 1 .. L
    OBVIOUS
  <2>2. \A m \in 1 .. j - 1 : q[m].word # q[j].word
    BY <1>2, <1>3, <2>1
  <2>3. saved[j] = SavedOf(v, q[j].word)
    BY <1>1, <2>2 DEF Recorded
  <2> QED BY <1>2, <2>3
<1>4. FirstSaved(f)
  BY <1>1, <1>2, <1>3 DEF FirstSaved
<1>5. ASSUME NEW w \in Words, \A j \in DOMAIN saved : saved[j].word # w
      PROVE  next.class[w] = v.class[w] /\ CellIn(next.active, w) = CellIn(v.active, w)
  <2>1. \A j \in 1 .. L : q[j].word # w
    BY <1>2, <1>5
  <2>2. Same(g.view, v, w)
    BY <1>1, <2>1 DEF Recorded
  <2> QED BY <2>2 DEF Same
<1>6. Passes(f, next)
  BY <1>1, <1>5 DEF Passes
<1>7. ASSUME NEW w \in DOMAIN E PROVE CellIn(next.active, w) = E[w]
  <2>1. PICK k \in 1 .. L : q[k].word = w /\ q[k].cell = E[w] /\ \A i \in k + 1 .. L : q[i].word # w
    OBVIOUS
  <2>2. E[w] # 0
    BY CellInType, CellsPositive
  <2>3. CellIn(g.view.active, q[k].word) = q[k].cell
    BY <2>1, <2>2 DEF Recorded
  <2> QED BY <2>1, <2>3
<1>8. Sees(f, next)
  BY <1>7 DEF Sees
<1> QED
  BY <1>4, <1>6, <1>8

\* The state a call leads to, taken apart.
LEMMA CallIs ==
  ASSUME Inv, NEW w \in Words, Call(w)
  PROVE  \E h, g, f : \E owner \in [Cells -> Words \cup {Undefined}] :
           /\ IsFunction(h)
           /\ Knows(g) /\ frames' = Append(frames, f) /\ UNCHANGED <<functions, nextHandle>>
           /\ nextCell' \in nextCell .. MaxCell + 1
           /\ Respects(owner) /\ Settled(g, owner, nextCell')
           /\ f.function = h /\ f.environment \in Env /\ f.saved = g.saved /\ f.entered = view /\ f.saved \in Seq(Saves)
           /\ f = [function |-> f.function, environment |-> f.environment, saved |-> f.saved, entered |-> f.entered]
           /\ IsFiniteSet(DOMAIN f.environment) /\ (~Experimental => DOMAIN f.environment = {})
           /\ \A x \in DOMAIN f.environment : owner[f.environment[x]] = x
           /\ \A j \in DOMAIN f.saved : /\ f.saved[j].value \in Known /\ f.saved[j].cell \in {0} \cup DOMAIN g.cells
                                        /\ (f.saved[j].cell # 0 => owner[f.saved[j].cell] = f.saved[j].word)
                                        /\ (~Experimental => f.saved[j].cell = 0)
           /\ FirstSaved(f) /\ Passes(f, g.view) /\ Sees(f, g.view)
<1>1. PICK h, q, m, n, L, g, E, top, f :
        /\ h = binding[w] /\ q = Steps(h) /\ m = Len(CapturedSteps(h)) /\ n = Declared(h) /\ L = Len(q)
        /\ g = Progress(h)[L] /\ E = NewEnvironment(h) /\ top = nextCell'
        /\ f = [function |-> h, environment |-> E, saved |-> g.saved, entered |-> view]
  OBVIOUS
<1>2. /\ IsFunction(h) /\ (Experimental => nextCell + n <= MaxCell + 1)
      /\ Knows(g) /\ frames' = Append(frames, f) /\ UNCHANGED <<functions, nextHandle>>
      /\ top = IF Experimental THEN nextCell + n ELSE nextCell
  BY <1>1 DEF Call, Callable, Declared
<1>3. m \in Nat /\ n \in Nat /\ L = m + n
  BY <1>1, <1>2, StepsAre
<1>4. nextCell \in Nat /\ nextCell <= MaxCell + 1 /\ MaxCell \in Nat
  BY BodiesAssumption DEF Inv, Typed
<1>5. top \in nextCell .. MaxCell + 1 /\ L \in 0 .. L /\ L \in Nat /\ (Experimental => nextCell + (L - m) <= top)
  BY <1>2, <1>3, <1>4
<1>6. PICK owner \in [Cells -> Words \cup {Undefined}] :
        /\ Respects(owner) /\ Settled(g, owner, top) /\ Recorded(g, q, L, owner)
        /\ \A j \in 1 .. L : q[j].cell \in Cells => owner[q[j].cell] = q[j].word
  <2>1. L \in 0 .. Len(Steps(h)) /\ (Experimental => nextCell + (L - Len(CapturedSteps(h))) <= top)
    BY <1>1, <1>5
  <2>2. \E owner \in [Cells -> Words \cup {Undefined}] :
           /\ Respects(owner)
           /\ \A j \in 1 .. Len(Steps(h)) : Steps(h)[j].cell \in Cells => owner[Steps(h)[j].cell] = Steps(h)[j].word
           /\ Settled(Progress(h)[L], owner, top) /\ Recorded(Progress(h)[L], Steps(h), L, owner)
    BY <1>2, <1>5, <2>1, Midway
  <2> QED BY <1>1, <2>2
<1>7. /\ E \in Env /\ IsFiniteSet(DOMAIN E) /\ (~Experimental => DOMAIN E = {})
      /\ \A x \in DOMAIN E : \E k \in 1 .. L : q[k].word = x /\ q[k].cell = E[x] /\ \A i \in k + 1 .. L : q[i].word # x
  BY SMTT(60), <1>1, <1>2, EnvironmentIs
<1>8. \A x \in DOMAIN E : owner[E[x]] = x
  <2> TAKE x \in DOMAIN E
  <2>1. PICK k \in 1 .. L : q[k].word = x /\ q[k].cell = E[x]
    BY <1>7
  <2>2. E[x] \in Cells
    BY <1>7, CellInType
  <2> QED BY <1>6, <2>1, <2>2
<1>9. f.function = h /\ f.environment = E /\ f.saved = g.saved /\ f.entered = view
  BY <1>1
<1>10. f.saved \in Seq(Saves) /\ DOMAIN f.saved = 1 .. L
  <2>1. g.saved \in Seq(Saves) /\ Len(g.saved) = L
    BY <1>6 DEF Recorded
  <2> QED BY <1>9, <2>1
<1>11. \A j \in DOMAIN f.saved : /\ f.saved[j].value \in Known /\ f.saved[j].cell \in {0} \cup DOMAIN g.cells
                                 /\ (f.saved[j].cell # 0 => owner[f.saved[j].cell] = f.saved[j].word)
                                 /\ (~Experimental => f.saved[j].cell = 0)
  BY <1>6, <1>9, <1>10 DEF Recorded
<1>12. FirstSaved(f) /\ Passes(f, g.view) /\ Sees(f, g.view)
  <2>1. PICK next : next = g.view
    OBVIOUS
  <2>2. next.class = g.view.class /\ next.active = g.view.active /\ L = Len(q)
    BY <1>1, <2>1
  <2>3. FirstSaved(f) /\ Passes(f, next) /\ Sees(f, next)
    BY <1>5, <1>6, <1>7, <1>8, <1>9, <2>2, CallLinks
  <2> QED BY <2>1, <2>3
<1>13. f = [function |-> f.function, environment |-> f.environment, saved |-> f.saved, entered |-> f.entered]
  BY <1>1
<1>14. nextCell' \in nextCell .. MaxCell + 1 /\ Settled(g, owner, nextCell')
  BY <1>1, <1>5, <1>6
<1> QED
  BY <1>2, <1>6, <1>7, <1>8, <1>9, <1>10, <1>11, <1>12, <1>13, <1>14

LEMMA CallKeeps ==
  ASSUME Inv, NEW w \in Words, Call(w)
  PROVE  Inv'
<1>0. Typed /\ Counted /\ NoCells /\ Chained /\ Live
  BY DEF Inv
<1>1. PICK h, g, f : \E owner \in [Cells -> Words \cup {Undefined}] :
           /\ IsFunction(h)
           /\ Knows(g) /\ frames' = Append(frames, f) /\ UNCHANGED <<functions, nextHandle>>
           /\ nextCell' \in nextCell .. MaxCell + 1
           /\ Respects(owner) /\ Settled(g, owner, nextCell')
           /\ f.function = h /\ f.environment \in Env /\ f.saved = g.saved /\ f.entered = view /\ f.saved \in Seq(Saves)
           /\ f = [function |-> f.function, environment |-> f.environment, saved |-> f.saved, entered |-> f.entered]
           /\ IsFiniteSet(DOMAIN f.environment) /\ (~Experimental => DOMAIN f.environment = {})
           /\ \A x \in DOMAIN f.environment : owner[f.environment[x]] = x
           /\ \A j \in DOMAIN f.saved : /\ f.saved[j].value \in Known /\ f.saved[j].cell \in {0} \cup DOMAIN g.cells
                                        /\ (f.saved[j].cell # 0 => owner[f.saved[j].cell] = f.saved[j].word)
                                        /\ (~Experimental => f.saved[j].cell = 0)
           /\ FirstSaved(f) /\ Passes(f, g.view) /\ Sees(f, g.view)
  BY CallIs
<1>2. PICK owner \in [Cells -> Words \cup {Undefined}] :
           /\ IsFunction(h)
           /\ Knows(g) /\ frames' = Append(frames, f) /\ UNCHANGED <<functions, nextHandle>>
           /\ nextCell' \in nextCell .. MaxCell + 1
           /\ Respects(owner) /\ Settled(g, owner, nextCell')
           /\ f.function = h /\ f.environment \in Env /\ f.saved = g.saved /\ f.entered = view /\ f.saved \in Seq(Saves)
           /\ f = [function |-> f.function, environment |-> f.environment, saved |-> f.saved, entered |-> f.entered]
           /\ IsFiniteSet(DOMAIN f.environment) /\ (~Experimental => DOMAIN f.environment = {})
           /\ \A x \in DOMAIN f.environment : owner[f.environment[x]] = x
           /\ \A j \in DOMAIN f.saved : /\ f.saved[j].value \in Known /\ f.saved[j].cell \in {0} \cup DOMAIN g.cells
                                        /\ (f.saved[j].cell # 0 => owner[f.saved[j].cell] = f.saved[j].word)
                                        /\ (~Experimental => f.saved[j].cell = 0)
           /\ FirstSaved(f) /\ Passes(f, g.view) /\ Sees(f, g.view)
  BY <1>1
<1>3. /\ binding' = g.view.binding /\ class' = g.view.class /\ active' = g.view.active /\ cells' = g.cells
      /\ values' = g.values /\ below' = g.below /\ floor' = floor
      /\ functions' = functions /\ nextHandle' = nextHandle
  BY <1>2 DEF Knows, Become
<1>4. /\ g.view \in View /\ g.cells \in [DOMAIN g.cells -> Value] /\ DOMAIN cells \subseteq DOMAIN g.cells
      /\ DOMAIN g.cells \subseteq 1 .. nextCell' - 1 /\ g.values \in Seq(Value) /\ g.below \in BOOLEAN
  BY <1>2 DEF Settled
<1>5. binding' \in [Words -> Value] /\ class' \in [Words -> BOOLEAN] /\ active' \in Env /\ view' = g.view
  BY <1>3, <1>4, ViewParts DEF view
<1>6. PICK n : n = Len(frames)
  OBVIOUS
<1>7. f \in Frames
  <2>1. f.function \in Handles
    BY <1>2, CalleeIs
  <2>2. view \in View
    BY <1>0 DEF Typed, View, view, Env
  <2>3. f.entered \in View
    BY <1>2, <2>2
  <2>4. \A a \in Handles, b \in Env, c \in Seq(Saves), d \in View :
          [function |-> a, environment |-> b, saved |-> c, entered |-> d] \in Frames
    BY DEF Frames
  <2> QED BY <1>2, <2>1, <2>3, <2>4
<1>8. /\ frames' \in Seq(Frames) /\ DOMAIN frames' = 1 .. n + 1 /\ DOMAIN frames = 1 .. n /\ n \in Nat
      /\ Len(frames') = n + 1 /\ frames'[n + 1] = f /\ \A i \in 1 .. n : frames'[i] = frames[i]
  <2>1. frames \in Seq(Frames) /\ frames' = Append(frames, f)
    BY <1>0, <1>2 DEF Typed
  <2> QED BY <1>6, <1>7, <2>1
<1>9. \A i \in 1 .. n + 1 : i \in 1 .. n \/ i = n + 1
  BY <1>8
<1>10. nextCell' \in 1 .. MaxCell + 1
  BY <1>0, <1>2, BodiesAssumption DEF Typed
<1>11. Typed'
  <2>1. functions' \in [DOMAIN functions' -> Instances] /\ floor' \in Value /\ nextHandle' \in 1 .. MaxHandle + 1
    BY <1>0, <1>3 DEF Typed
  <2>2. cells' \in [DOMAIN cells' -> Value] /\ values' \in Seq(Value) /\ below' \in BOOLEAN
    BY <1>3, <1>4
  <2> QED BY <1>5, <1>8, <1>10, <2>1, <2>2 DEF Typed
<1>12. Counted'
  <2>1. DOMAIN cells' \subseteq 1 .. nextCell' - 1
    BY <1>3, <1>4
  <2>2. \A i \in DOMAIN frames' : IsFiniteSet(DOMAIN frames'[i].environment)
    BY <1>0, <1>2, <1>8, <1>9 DEF Counted
  <2> QED BY <1>0, <1>3, <2>1, <2>2 DEF Counted
<1>13. \A x \in DOMAIN active' : /\ active'[x] \in DOMAIN cells' /\ owner[active'[x]] = x
                                 /\ binding'[x] = cells'[active'[x]]
  BY <1>2, <1>3 DEF Settled
<1>14. OneWord'
  <2>1. ASSUME NEW i \in DOMAIN frames'
        PROVE  /\ \A x \in DOMAIN frames'[i].environment : owner[frames'[i].environment[x]] = x
               /\ \A j \in DOMAIN frames'[i].saved :
                    frames'[i].saved[j].cell # 0 => owner[frames'[i].saved[j].cell] = frames'[i].saved[j].word
    <3>1. CASE i = n + 1
      BY <1>2, <1>8, <3>1
    <3>2. CASE i \in 1 .. n
      BY <1>2, <1>8, <3>2 DEF Respects
    <3> QED BY <1>8, <1>9, <3>1, <3>2
  <2>2. \A k \in DOMAIN functions' : \A x \in DOMAIN functions'[k].environment : owner[functions'[k].environment[x]] = x
    BY <1>2, <1>3 DEF Respects
  <2>3. Respects(owner)'
    BY <1>13, <2>1, <2>2 DEF Respects
  <2> QED BY <2>3 DEF OneWord
<1>15. NoCells'
  <2> SUFFICES ASSUME ~Experimental
               PROVE  /\ DOMAIN active' = {} /\ DOMAIN functions' = {}
                      /\ \A i \in DOMAIN frames' : /\ DOMAIN frames'[i].environment = {}
                                                   /\ \A j \in DOMAIN frames'[i].saved : frames'[i].saved[j].cell = 0
    BY DEF NoCells
  <2>1. DOMAIN active' = {} /\ DOMAIN functions' = {}
    BY <1>0, <1>2, <1>3 DEF NoCells, Settled
  <2>2. ASSUME NEW i \in DOMAIN frames'
        PROVE  DOMAIN frames'[i].environment = {} /\ \A j \in DOMAIN frames'[i].saved : frames'[i].saved[j].cell = 0
    <3>1. CASE i = n + 1
      BY <1>2, <1>8, <3>1
    <3>2. CASE i \in 1 .. n
      BY <1>0, <1>8, <3>2 DEF NoCells
    <3> QED BY <1>8, <1>9, <3>1, <3>2
  <2> QED BY <2>1, <2>2
<1>16. Chained'
  <2> SUFFICES ASSUME NEW i \in 1 .. n + 1
               PROVE  FirstSaved(frames'[i]) /\ Passes(frames'[i], At(i + 1)') /\ Sees(frames'[i], At(i + 1)')
    BY <1>8 DEF Chained, FirstSaved, Passes, Sees
  <2>1. CASE i = n + 1
    <3>1. At(i + 1)' = g.view
      BY <1>5, <1>8, <2>1 DEF At
    <3> QED BY <1>2, <1>8, <2>1, <3>1
  <2>2. CASE i \in 1 .. n
    <3>1. FirstSaved(frames[i]) /\ Passes(frames[i], At(i + 1)) /\ Sees(frames[i], At(i + 1))
      BY <1>0, <1>8, <2>2 DEF Chained
    <3>2. At(i + 1)' = At(i + 1)
      <4>1. CASE i = n
        <5>1. At(i + 1) = view
          BY <1>6, <1>8, <4>1 DEF At
        <5>2. At(i + 1)' = frames'[n + 1].entered
          BY <1>8, <4>1 DEF At
        <5> QED BY <1>2, <1>8, <5>1, <5>2
      <4>2. CASE i # n
        <5>1. i + 1 \in 1 .. n /\ i + 1 <= n /\ i + 1 <= n + 1
          BY <1>8, <2>2, <4>2
        <5>2. At(i + 1) = frames[i + 1].entered
          BY <1>6, <5>1 DEF At
        <5>3. At(i + 1)' = frames'[i + 1].entered
          BY <1>8, <5>1 DEF At
        <5> QED BY <1>8, <5>1, <5>2, <5>3
      <4> QED BY <4>1, <4>2
    <3>3. frames'[i] = frames[i]
      BY <1>8, <2>2
    <3> QED BY <3>1, <3>2, <3>3
  <2> QED BY <1>9, <2>1, <2>2
<1>17. ViewAgrees'
  BY <1>13 DEF ViewAgrees
<1>18. Live'
  <2>1. Known' = Known
    BY <1>3 DEF Known
  <2>2. /\ \A c \in DOMAIN cells' : cells'[c] \in Known
        /\ \A k \in DOMAIN values' : values'[k] \in Known
        /\ \A x \in Words : binding'[x] \in Known
    BY <1>2, <1>3 DEF Settled
  <2>3. \A k \in DOMAIN functions' : \A x \in DOMAIN functions'[k].environment :
          functions'[k].environment[x] \in DOMAIN cells'
    BY <1>0, <1>3, <1>4 DEF Live
  <2>4. floor' \in Known
    BY <1>0, <1>3 DEF Live
  <2>5. ASSUME NEW i \in DOMAIN frames'
        PROVE  /\ frames'[i].function \in Known
               /\ \A x \in DOMAIN frames'[i].environment : frames'[i].environment[x] \in DOMAIN cells'
               /\ \A j \in DOMAIN frames'[i].saved : /\ frames'[i].saved[j].cell \in {0} \cup DOMAIN cells'
                                                     /\ frames'[i].saved[j].value \in Known
    <3>1. CASE i = n + 1
      <4>1. f.function \in Known
        BY <1>2, CalleeIs
      <4>2. \A x \in DOMAIN f.environment : f.environment[x] \in DOMAIN cells'
        <5> TAKE x \in DOMAIN f.environment
        <5>1. x \in Words /\ f.environment[x] # 0 /\ x \in DOMAIN f.environment
          BY <1>2, CellInType, CellsPositive
        <5>2. CellIn(active', x) = f.environment[x]
          BY <1>2, <1>3, <5>1 DEF Sees
        <5>3. x \in DOMAIN active' /\ active'[x] = f.environment[x]
          BY <1>5, <5>1, <5>2, CellInType
        <5> QED BY <1>13, <5>3
      <4>3. \A j \in DOMAIN f.saved : f.saved[j].cell \in {0} \cup DOMAIN cells' /\ f.saved[j].value \in Known
        BY <1>2, <1>3
      <4> QED BY <1>8, <3>1, <4>1, <4>2, <4>3
    <3>2. CASE i \in 1 .. n
      <4>1. /\ frames[i].function \in Known
            /\ \A x \in DOMAIN frames[i].environment : frames[i].environment[x] \in DOMAIN cells
            /\ \A j \in DOMAIN frames[i].saved : frames[i].saved[j].cell \in {0} \cup DOMAIN cells /\ frames[i].saved[j].value \in Known
        BY <1>0, <1>8, <3>2 DEF Live
      <4> QED BY <1>3, <1>4, <1>8, <3>2, <4>1
    <3> QED BY <1>8, <1>9, <3>1, <3>2
  <2> QED BY <1>13, <2>1, <2>2, <2>3, <2>4, <2>5 DEF Live
<1> QED
  BY <1>11, <1>12, <1>14, <1>15, <1>16, <1>17, <1>18 DEF Inv

---------------------------------------------------------------------------
(* The invariant *)

LEMMA InitKeeps == Init => Inv
<1> SUFFICES ASSUME Init PROVE Inv
  OBVIOUS
<1>1. /\ binding = [w \in Words |-> Undefined] /\ class = [w \in Words |-> TRUE]
      /\ functions = <<>> /\ cells = <<>> /\ active = <<>>
      /\ frames = <<>> /\ values = <<>> /\ floor = Number /\ below = FALSE
      /\ nextHandle = Cardinality(Bodies) + 1 /\ nextCell = 1
  BY DEF Init
<1>2. PICK n \in 0 .. MaxHandle : Bodies = 1 .. n
  BY BodiesAssumption
<1>3. n \in Nat /\ n <= MaxHandle /\ MaxHandle \in Nat /\ MaxCell \in Nat
  BY <1>2, BodiesAssumption
<1>4. Cardinality(Bodies) = n
  <2>1. 1 \in Int /\ n \in Int /\ (IF 1 > n THEN 0 ELSE n - 1 + 1) = n
    BY <1>3
  <2>2. Cardinality(1 .. n) = IF 1 > n THEN 0 ELSE n - 1 + 1
    BY <2>1, FS_Interval
  <2> QED BY <1>2, <2>1, <2>2
<1>5. /\ DOMAIN <<>> = {} /\ <<>> \in [{} -> Cells] /\ <<>> \in [{} -> Instances] /\ <<>> \in [{} -> Value]
      /\ <<>> \in Seq(Frames) /\ <<>> \in Seq(Value) /\ {} \in SUBSET Words
  OBVIOUS
<1>6. DOMAIN active = {} /\ DOMAIN functions = {} /\ DOMAIN cells = {} /\ DOMAIN frames = {} /\ DOMAIN values = {}
  BY <1>1, <1>5
<1>7. Typed
  <2>1. binding \in [Words -> Value] /\ class \in [Words -> BOOLEAN] /\ floor \in Value /\ below \in BOOLEAN
    BY <1>1, ValueFacts
  <2>2. active \in Env
    BY <1>1, <1>5 DEF Env
  <2>3. functions \in [DOMAIN functions -> Instances] /\ cells \in [DOMAIN cells -> Value]
    BY <1>1, <1>5
  <2>4. frames \in Seq(Frames) /\ values \in Seq(Value)
    BY <1>1, <1>5
  <2>5. nextHandle \in 1 .. MaxHandle + 1 /\ nextCell \in 1 .. MaxCell + 1
    BY <1>1, <1>3, <1>4
  <2> QED BY <2>1, <2>2, <2>3, <2>4, <2>5 DEF Typed
<1>8. Counted
  BY <1>1, <1>2, <1>3, <1>4, <1>6 DEF Counted
<1>9. OneWord
  <2>1. PICK owner : owner = [c \in Cells |-> Undefined]
    OBVIOUS
  <2>2. owner \in [Cells -> Words \cup {Undefined}] /\ Respects(owner)
    BY <1>6, <2>1 DEF Respects
  <2> QED BY <2>2 DEF OneWord
<1>10. NoCells /\ Chained /\ ViewAgrees
  BY <1>6 DEF NoCells, Chained, ViewAgrees
<1>11. Live
  BY <1>1, <1>6 DEF Live, Known
<1> QED
  BY <1>7, <1>8, <1>9, <1>10, <1>11 DEF Inv

\* Instructions that only push or pop.
LEMMA StackSteps ==
  ASSUME Inv, UNCHANGED <<bindings, functions, cells, frames, counters>>,
         \/ Pop
         \/ \E v \in Value : v \in Known /\ Push(v)
         \/ values' = <<>> /\ below' = FALSE /\ floor' = floor
  PROVE  Inv'
<1>1. PICK K : K = Known
  OBVIOUS
<1>2. StackTyped(K)
  BY <1>1, InvStack
<1>3. ASSUME Pop PROVE StackTyped(K)'
  BY <1>2, <1>3, PopKeeps
<1>4. ASSUME \E v \in Value : v \in Known /\ Push(v) PROVE StackTyped(K)'
  <2>1. PICK v \in Value : v \in Known /\ Push(v)
    BY <1>4
  <2>2. v \in K
    BY <1>1, <2>1
  <2>3. StackTyped(K)'
    BY <1>2, <2>1, <2>2, PushKeeps
  <2> QED BY <2>3
<1>5. ASSUME values' = <<>>, below' = FALSE, floor' = floor PROVE StackTyped(K)'
  <2>1. <<>> \in Seq(Value) /\ DOMAIN <<>> = {}
    OBVIOUS
  <2> QED BY <1>2, <1>5, <2>1 DEF StackTyped
<1>6. StackTyped(K)'
  BY <1>3, <1>4, <1>5
<1>7. Known' = Known
  BY DEF Known
<1>8. StackTyped(Known)'
  BY <1>1, <1>6, <1>7 DEF StackTyped
<1> QED
  BY <1>8, StackKeeps

LEMMA StoreKeeps ==
  ASSUME Inv, NEW w \in Words, Store(w)
  PROVE  Inv'
<1>1. Pop /\ Bind(w, Top) /\ UNCHANGED <<class, active, functions, frames, counters>>
  BY DEF Store
<1>2. PICK K, v : K = Known /\ v = Top
  OBVIOUS
<1>3. StackTyped(K)
  BY <1>2, InvStack
<1>4. StackTyped(K)' /\ Top \in Value /\ Top \in K
  BY <1>1, <1>3, PopKeeps
<1>5. Known' = Known
  BY <1>1 DEF Known
<1>6. StackTyped(Known)'
  BY <1>2, <1>4, <1>5 DEF StackTyped
<1>7. v \in Value /\ v \in Known /\ Bind(w, v)
  BY <1>1, <1>2, <1>4
<1>8. class' \in [Words -> BOOLEAN] /\ class' = class
  BY <1>1 DEF Inv, Typed
<1> QED
  BY <1>1, <1>6, <1>7, <1>8, BindKeeps

LEMMA DefineKeeps ==
  ASSUME Inv, NEW b \in Bodies, Define(b)
  PROVE  Inv'
<1>1. /\ frames = <<>> /\ Bind(Name[b], b) /\ class' = [class EXCEPT ![Name[b]] = FALSE]
      /\ UNCHANGED <<active, functions, frames, stack, counters>>
  BY DEF Define
<1>2. PICK w : w = Name[b]
  OBVIOUS
<1>3. w \in Words /\ b \in Value /\ b \in Known
  BY <1>2, BodiesAssumption, ValueFacts DEF Known
<1>4. class' \in [Words -> BOOLEAN]
  BY <1>1 DEF Inv, Typed
<1>5. StackTyped(Known)'
  <2>1. Known' = Known /\ values' = values /\ floor' = floor /\ below' = below
    BY <1>1 DEF Known, stack
  <2>2. StackTyped(Known)
    BY InvStack
  <2> QED BY <2>1, <2>2 DEF StackTyped
<1>6. Bind(w, b)
  BY <1>1, <1>2
<1> QED
  BY <1>1, <1>3, <1>4, <1>5, <1>6, BindKeeps

LEMMA StutterKeeps ==
  ASSUME Inv, UNCHANGED vars
  PROVE  Inv'
<1>1. UNCHANGED <<bindings, functions, cells, frames, counters, values, floor, below>>
  BY DEF vars, stack
<1>2. StackTyped(Known)'
  <2>1. Known' = Known
    BY <1>1 DEF Known
  <2>2. StackTyped(Known)
    BY InvStack
  <2> QED BY <1>1, <2>1, <2>2 DEF StackTyped
<1> QED
  BY <1>1, <1>2, StackKeeps

LEMMA NextKeeps == Inv /\ [Next]_vars => Inv'
<1> SUFFICES ASSUME Inv, [Next]_vars PROVE Inv'
  OBVIOUS
<1>1. ASSUME NEW w \in Words, Call(w) PROVE Inv'
  BY <1>1, CallKeeps
<1>2. ASSUME NEW w \in Words, FailedCall(w) PROVE Inv'
  BY <1>2, FailedKeeps
<1>3. ASSUME NEW w \in Words, Load(w) PROVE Inv'
  <2>1. Push(binding[w]) /\ UNCHANGED <<bindings, functions, cells, frames, counters>>
    BY <1>3 DEF Load
  <2>2. binding[w] \in Value /\ binding[w] \in Known
    BY DEF Inv, Typed, Live
  <2> QED BY <2>1, <2>2, StackSteps
<1>4. ASSUME NEW w \in Words, Store(w) PROVE Inv'
  BY <1>4, StoreKeeps
<1>5. ASSUME NEW w \in Words, Declare(w) PROVE Inv'
  BY <1>5, DeclareKeeps
<1>6. ASSUME NEW b \in Bodies, Captured(b) PROVE Inv'
  BY <1>6, CapturedKeeps
<1>7. ASSUME NEW b \in Bodies, Define(b) PROVE Inv'
  BY <1>7, DefineKeeps
<1>8. CASE Constant
  <2>1. Push(Number) /\ UNCHANGED <<bindings, functions, cells, frames, counters>>
    BY <1>8 DEF Constant
  <2>2. Number \in Value /\ Number \in Known
    BY ValueFacts DEF Known
  <2> QED BY <2>1, <2>2, StackSteps
<1>9. CASE Erase
  <2>1. Pop /\ UNCHANGED <<bindings, functions, cells, frames, counters>>
    BY <1>9 DEF Erase
  <2> QED BY <2>1, StackSteps
<1>10. CASE Return
  BY <1>10, ReturnKeeps
<1>11. CASE Stop
  BY <1>11, StopKeeps
<1>12. CASE ResetStack
  <2>1. values' = <<>> /\ below' = FALSE /\ floor' = floor /\ UNCHANGED <<bindings, functions, cells, frames, counters>>
    BY <1>12 DEF ResetStack
  <2> QED BY <2>1, StackSteps
<1>13. CASE Collect
  BY <1>13, CollectKeeps
<1>14. CASE UNCHANGED vars
  BY <1>14, StutterKeeps
<1> QED
  BY <1>1, <1>2, <1>3, <1>4, <1>5, <1>6, <1>7, <1>8, <1>9, <1>10, <1>11, <1>12, <1>13, <1>14 DEF Next

\* What the calls, returns, collections and failures of any program keep.
THEOREM InvHolds == Spec => []Inv
<1> QED BY InitKeeps, NextKeeps, PTL DEF Spec

---------------------------------------------------------------------------
(* What the properties say follows *)

LEMMA InvTypes ==
  ASSUME Inv
  PROVE  TypeOK
<1>1. Typed /\ Counted
  BY DEF Inv
<1>2. view \in View
  BY <1>1 DEF Typed, view, View, Env
<1>3. DOMAIN functions \subseteq Handles \ Bodies
  BY <1>1, BodiesAssumption DEF Typed, Counted, Handles
<1>4. ASSUME NEW h \in DOMAIN functions
      PROVE  /\ functions[h].body \in Bodies /\ DOMAIN functions[h].environment \subseteq Words
             /\ Image(functions[h].environment) \subseteq Cells
  <2>1. functions[h] \in Instances
    BY <1>1 DEF Typed
  <2>2. functions[h].body \in Bodies /\ functions[h].environment \in Env
    BY <2>1 DEF Instances
  <2> QED BY <2>2, CellInType DEF Image
<1>5. DOMAIN cells \subseteq Cells /\ Image(cells) \subseteq Value
  <2>1. DOMAIN cells \subseteq Cells
    BY <1>1, BodiesAssumption DEF Typed, Counted, Cells
  <2>2. \A c \in DOMAIN cells : cells[c] \in Value
    BY <1>1 DEF Typed
  <2> QED BY <2>1, <2>2 DEF Image
<1>6. ASSUME NEW i \in DOMAIN frames
      PROVE  /\ frames[i].function \in Handles
             /\ Image(frames[i].environment) \subseteq Cells
             /\ \A j \in DOMAIN frames[i].saved :
                  /\ frames[i].saved[j].word \in Words /\ frames[i].saved[j].value \in Value
                  /\ frames[i].saved[j].class \in BOOLEAN
                  /\ frames[i].saved[j].cell \in {0} \cup Cells
             /\ frames[i].entered \in View
  <2>1. frames[i] \in Frames
    BY <1>1 DEF Typed
  <2>2. /\ frames[i].function \in Handles /\ frames[i].environment \in Env
        /\ frames[i].saved \in Seq(Saves) /\ frames[i].entered \in View
    BY <2>1 DEF Frames
  <2>3. \A j \in DOMAIN frames[i].saved : frames[i].saved[j] \in Saves
    BY <2>2
  <2>4. Image(frames[i].environment) \subseteq Cells
    BY <2>2, CellInType DEF Image
  <2> QED BY <2>2, <2>3, <2>4 DEF Saves
<1> QED
  BY <1>1, <1>2, <1>3, <1>4, <1>5, <1>6 DEF TypeOK, Typed

LEMMA InvLive ==
  ASSUME Inv
  PROVE  CellsLive
<1>1. Live
  BY DEF Inv
<1>2. Image(active) \subseteq DOMAIN cells
  BY <1>1 DEF Live, Image
<1>3. ASSUME NEW i \in DOMAIN frames
      PROVE  /\ Image(frames[i].environment) \subseteq DOMAIN cells
             /\ \A j \in DOMAIN frames[i].saved : frames[i].saved[j].cell \in {0} \cup DOMAIN cells
  BY <1>1 DEF Live, Image
<1>4. ASSUME NEW h \in DOMAIN functions PROVE Image(functions[h].environment) \subseteq DOMAIN cells
  BY <1>1 DEF Live, Image
<1>5. Image(values) \subseteq Known /\ floor \in Known /\ Image(cells) \subseteq Known
  BY <1>1 DEF Live, Image
<1>6. Image(binding) \subseteq Known
  BY <1>1 DEF Live, Image, Inv, Typed
<1>7. UNION {{frames[i].function} \cup {frames[i].saved[j].value : j \in DOMAIN frames[i].saved} :
             i \in DOMAIN frames} \subseteq Known
  BY <1>1 DEF Live
<1>8. RootFunctions \cup Image(cells) \subseteq Known
  BY <1>5, <1>6, <1>7 DEF RootFunctions
<1> QED
  BY <1>2, <1>3, <1>4, <1>8 DEF CellsLive, Known

LEMMA InvLexical ==
  ASSUME Inv
  PROVE  LexicalView
<1> SUFFICES ASSUME frames # <<>>, NEW w \in DOMAIN Last(frames).environment
             PROVE  w \in DOMAIN active /\ active[w] = Last(frames).environment[w]
  BY DEF LexicalView
<1>1. PICK n \in Nat, f \in Frames : n = Len(frames) /\ n \in DOMAIN frames /\ f = frames[n]
  BY DEF Inv, Typed
<1>2. Last(frames) = f
  BY <1>1 DEF Last
<1>3. At(n + 1) = view
  BY <1>1 DEF At
<1>4. Sees(f, view)
  BY <1>1, <1>3 DEF Inv, Chained
<1>5. view.active = active
  BY DEF view
<1>6. CellIn(active, w) = f.environment[w]
  BY <1>2, <1>4, <1>5 DEF Sees
<1>7. f.environment \in Env /\ active \in Env
  BY DEF Frames, Inv, Typed
<1>8. f.environment[w] \in Cells
  BY <1>2, <1>7, CellInType
<1>9. CellIn(active, w) # 0
  BY <1>6, <1>8, CellsPositive
<1> QED
  BY <1>2, <1>6, <1>7, <1>9, CellInType

\* For every program and every number of activations: returning from any number of the
\* active calls gives every word the class and the cell it had when the outermost of them
\* was made, and a word that call rebound the value it had or its cell holds by now
\* (NativeRuntime::execute, saved_bindings replayed from the innermost frame outwards).
THEOREM CallersAreRestored == Spec => []RestoresCaller
<1>1. Inv => RestoresCaller
  BY ChainRestores DEF Inv
<1> QED BY <1>1, InvHolds, PTL

\* A word with an active cell always has the value of the cell: calls, writes (bind),
\* returns and abandoned calls never change the one without the other.
THEOREM ValuesAgree == Spec => []ViewAgrees
<1>1. Inv => ViewAgrees
  BY DEF Inv
<1> QED BY <1>1, InvHolds, PTL

\* While a function runs, the words of its environment have the cells of the environment,
\* however many calls it made and whatever they installed (execute, active_cells_).
THEOREM EnvironmentsSeen == Spec => []LexicalView
<1>1. Inv => LexicalView
  BY InvLexical
<1> QED BY <1>1, InvHolds, PTL

\* Types are kept, and no collection takes a cell or a function that the view, a return, the
\* stack or a reachable function leads to (NativeRuntime::collect, mark_cell).
THEOREM CellsStay == Spec => []CellsKept
<1>1. Inv => CellsKept
  BY InvTypes, InvLive DEF CellsKept
<1> QED BY <1>1, InvHolds, PTL
=============================================================================
