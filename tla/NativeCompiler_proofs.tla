------------------------- MODULE NativeCompiler_proofs -------------------------
(* Theorems about the native compiler, for every alphabet and every sequence of  *)
(* tokens: conditionals stay nested and their branches linked, captured          *)
(* functions are held, and the words of what is compiled are known.              *)
EXTENDS NativeCompiler, OrderFacts

Kinds == {"constant", "load", "store", "print", "compare", "unary", "binary", "return_value", "call",
          "captured_value", "label", "jump", "branch_false", "branch_true"} \cup Calls \cup Primitives
Op == [kind : Kinds, word : Tokens \cup {NoName}, target : Nat, rebuilt : Int]
Pending == [operator : Operators \cup {"group"}, unary : BOOLEAN, call : Tokens \cup {NoName}, from : Nat]
Phases == {"condition", "consequent", "alternative"}
Unclosed == [boundary : Nat, phase : Phases, falseBranch : SUBSET Nat, exits : SUBSET Nat,
          falseTerms : SUBSET Nat, trueTerms : SUBSET Nat]
Definition == [header : BOOLEAN, name : Words \cup {NoName},
               bindings : Seq([word : Words, argument : BOOLEAN])]
Around == [operations : Seq(Op), roots : Seq(Nat), definition : Definition]
Compilation ==
  [operations : Seq(Op), roots : Seq(Nat), pending : Seq(Pending), conditionals : Seq(Unclosed),
   definition : Seq(Definition), enclosing : Seq(Around), held : SUBSET Nat,
   operand : BOOLEAN, start : BOOLEAN, assignment : BOOLEAN, assigned : BOOLEAN,
   declaration : BOOLEAN, count : 0 .. 2, call : Calls \cup Primitives \cup {NoName},
   open : BOOLEAN, deferred : BOOLEAN]

Remembered(k) == k.exits \cup k.falseTerms \cup k.trueTerms \cup k.falseBranch

\* The branch at i leads forwards to a label.
Linked(ops, i) == ops[i].target \in i + 1 .. Len(ops) /\ ops[ops[i].target].kind = "label"

\* Branches are linked or remembered by one of the open conditionals K, and what is captured
\* is a root.
Program(ops, roots, K) ==
  /\ \A i \in DOMAIN ops :
       /\ IsBranch(ops[i]) => Linked(ops, i) \/ (ops[i].target = 0 /\ \E j \in DOMAIN K : i \in Remembered(K[j]))
       /\ ops[i].kind = "captured_value" => ops[i].target \in 1 .. Len(roots) /\ ops[i].target <= i
       /\ ~IsBranch(ops[i]) /\ ops[i].kind # "captured_value" => ops[i].target = 0
  /\ roots # <<>> => \E i \in DOMAIN ops : ops[i].kind = "captured_value" /\ Len(roots) <= i

Waits(ops, i, kind) == i \in DOMAIN ops /\ ops[i].target = 0 /\ ops[i].kind = kind

\* What an open conditional remembers.
Remembers(ops, k) ==
  /\ \A i \in k.exits : Waits(ops, i, "jump")
  /\ \A i \in k.trueTerms : Waits(ops, i, "branch_true")
  /\ \A i \in k.falseTerms \cup k.falseBranch : Waits(ops, i, "branch_false")

\* Which branches wait for a label depends on what is being compiled.
Phased(k) ==
  /\ k.phase = "condition" => k.falseBranch = {}
  /\ k.phase # "condition" => k.trueTerms = {}
  /\ k.phase = "alternative" => k.falseTerms = {} /\ k.falseBranch = {}

Opened(ops, K) ==
  \A j \in DOMAIN K :
    /\ Remembers(ops, K[j])
    /\ \A i \in Remembered(K[j]) : \A l \in DOMAIN K \ {j} : i \notin Remembered(K[l])

\* An open conditional has its group, and is in order.
Nested(pending, K) ==
  \A i \in DOMAIN K :
    /\ Phased(K[i])
    /\ K[i].boundary < Len(pending) /\ IsGroup(pending[K[i].boundary + 1])
    /\ \A j \in 1 .. i - 1 : K[j].boundary < K[i].boundary

\* The words a program may use: those of the definitions around it and declared ones.
Within(S, w) == \E x \in S : Defines(x, w)
KnownIn(S, decl, w) == w \in Words => decl[w] # "undeclared" \/ Within(S, w)
ScopeTo(q, i) == {q[j].definition : j \in 1 .. i}
Scope(d) == {d.definition[i] : i \in DOMAIN d.definition} \cup ScopeTo(d.enclosing, Len(d.enclosing))

WordsIn(d, decl) ==
  /\ \A i \in DOMAIN d.operations : KnownIn(Scope(d), decl, d.operations[i].word)
  /\ \A i \in DOMAIN d.pending : KnownIn(Scope(d), decl, d.pending[i].call)

\* Programs set aside while an inner function is compiled.
SetAside(q, decl, H) ==
  \A i \in DOMAIN q :
    /\ Program(q[i].operations, q[i].roots, <<>>)
    /\ \A j \in DOMAIN q[i].operations : KnownIn(ScopeTo(q, i), decl, q[i].operations[j].word)
    /\ \A j \in DOMAIN q[i].roots : q[i].roots[j] \in H

\* The names of inner functions are words of the ones around them.
Defined(d) ==
  /\ Len(d.definition) <= 1
  /\ d.enclosing # <<>> =>
       /\ d.definition # <<>>
       /\ d.definition[1].name \in Words => Bound(d.enclosing[Len(d.enclosing)].definition, d.definition[1].name)
  /\ \A i \in 2 .. Len(d.enclosing) :
       LET w == d.enclosing[i].definition.name
       IN w \in Words => Bound(d.enclosing[i - 1].definition, w)

Held(d, n) == /\ \A i \in DOMAIN d.roots : d.roots[i] \in d.held
              /\ d.held \subseteq 1 .. n

Good(d, decl, n) ==
  /\ d \in Compilation
  /\ Program(d.operations, d.roots, d.conditionals)
  /\ Opened(d.operations, d.conditionals)
  /\ Nested(d.pending, d.conditionals)
  /\ WordsIn(d, decl)
  /\ SetAside(d.enclosing, decl, d.held)
  /\ Defined(d)
  /\ Held(d, n)
  /\ d.open => d.call \in Calls

Bounded(d) == Len(d.operations) <= MaxOperations /\ Len(d.pending) <= MaxPending

Rest == /\ declared \in [Words -> {"undeclared", "implicit", "explicit"}] /\ functions \in Nat
        /\ comment \in BOOLEAN /\ state \in {"input_required", "finished", "unsupported"}

Inv == Good(c, declared, functions) /\ Bounded(c) /\ Rest

---------------------------------------------------------------------------
(* Compilations *)

\* Two compilations that differ in what the parser expects next only.
Alike(d, e) ==
  /\ e.operations = d.operations /\ e.roots = d.roots /\ e.pending = d.pending
  /\ e.conditionals = d.conditionals /\ e.definition = d.definition /\ e.enclosing = d.enclosing
  /\ e.held = d.held

Flagged(d, e) == e \in Compilation /\ Alike(d, e) /\ e.open = d.open /\ e.call = d.call

LEMMA FlagKeeps ==
  ASSUME NEW d \in Compilation, NEW b \in BOOLEAN
  PROVE  /\ Flagged(d, [d EXCEPT !.operand = b])
         /\ Flagged(d, [d EXCEPT !.start = b])
         /\ Flagged(d, [d EXCEPT !.assignment = b])
         /\ Flagged(d, [d EXCEPT !.assigned = b])
         /\ Flagged(d, [d EXCEPT !.declaration = b])
         /\ Flagged(d, [d EXCEPT !.deferred = b])
<1>1. Flagged(d, [d EXCEPT !.operand = b])
  BY DEF Compilation, Flagged, Alike
<1>2. Flagged(d, [d EXCEPT !.start = b])
  BY DEF Compilation, Flagged, Alike
<1>3. Flagged(d, [d EXCEPT !.assignment = b])
  BY DEF Compilation, Flagged, Alike
<1>4. Flagged(d, [d EXCEPT !.assigned = b])
  BY DEF Compilation, Flagged, Alike
<1>5. Flagged(d, [d EXCEPT !.declaration = b])
  BY DEF Compilation, Flagged, Alike
<1>6. Flagged(d, [d EXCEPT !.deferred = b])
  BY DEF Compilation, Flagged, Alike
<1> QED BY <1>1, <1>2, <1>3, <1>4, <1>5, <1>6

LEMMA CountKeeps ==
  ASSUME NEW d \in Compilation, NEW n \in 0 .. 2
  PROVE  Flagged(d, [d EXCEPT !.count = n])
BY DEF Compilation, Flagged, Alike

LEMMA FlaggedTwice ==
  ASSUME NEW d, NEW e, NEW f, Flagged(d, e), Flagged(e, f)
  PROVE  Flagged(d, f)
BY DEF Flagged, Alike

LEMMA FlaggedGood ==
  ASSUME NEW d, NEW e, NEW decl, NEW n, Good(d, decl, n), Flagged(d, e)
  PROVE  Good(e, decl, n)
<1>1. Scope(e) = Scope(d)
  BY DEF Scope, Flagged, Alike
<1>2. WordsIn(e, decl)
  BY <1>1 DEF Good, WordsIn, Flagged, Alike
<1> QED
  BY <1>2 DEF Good, Flagged, Alike, Defined, Held

LEMMA CompileKeeps ==
  ASSUME NEW d, Compile(d), Good(d, declared', functions')
  PROVE  Good(c', declared', functions') /\ Bounded(c')
<1>1. d \in Compilation
  BY DEF Good
<1>2. PICK n : n = IF d.count = 2 THEN 2 ELSE d.count + 1
  OBVIOUS
<1>3. n \in 0 .. 2
  BY <1>1, <1>2 DEF Compilation
<1>4. PICK e : e = [d EXCEPT !.count = n]
  OBVIOUS
<1>5. c' = e
  BY <1>2, <1>4 DEF Compile
<1>6. Flagged(d, e)
  BY <1>1, <1>3, <1>4, CountKeeps
<1>7. Good(e, declared', functions')
  BY <1>6, FlaggedGood
<1>8. Len(d.operations) <= MaxOperations /\ Len(d.pending) <= MaxPending
  BY DEF Compile
<1>9. Bounded(e)
  BY <1>6, <1>8 DEF Bounded, Flagged, Alike
<1> QED
  BY <1>5, <1>7, <1>9

\* An operand follows.
LEMMA ExpectKeeps ==
  ASSUME NEW d \in Compilation, NEW o \in BOOLEAN, NEW s \in BOOLEAN
  PROVE  Flagged(d, [d EXCEPT !.operand = o, !.start = s])
<1>1. PICK e : e = [d EXCEPT !.operand = o]
  OBVIOUS
<1>2. [d EXCEPT !.operand = o, !.start = s] = [e EXCEPT !.start = s]
  BY <1>1
<1>3. Flagged(d, e)
  BY <1>1, FlagKeeps
<1>4. PICK f : f = [e EXCEPT !.start = s]
  OBVIOUS
<1>5. Flagged(e, f)
  BY <1>3, <1>4, FlagKeeps DEF Flagged
<1>6. Flagged(d, f)
  BY <1>3, <1>5, FlaggedTwice
<1> QED
  BY <1>2, <1>4, <1>6

LEMMA BeginKeeps ==
  ASSUME NEW d, Begin(d), Good(d, declared', functions'), Len(d.pending) <= MaxPending
  PROVE  Good(c', declared', functions') /\ Bounded(c')
<1>1. d \in Compilation
  BY DEF Good
<1>2. PICK e1 : e1 = [d EXCEPT !.count = 0]
  OBVIOUS
<1>3. PICK e2 : e2 = [e1 EXCEPT !.operand = TRUE, !.start = TRUE]
  OBVIOUS
<1>4. PICK e3 : e3 = [e2 EXCEPT !.assigned = FALSE]
  OBVIOUS
<1>5. c' = e3
  BY <1>2, <1>3, <1>4 DEF Begin
<1>6. Flagged(d, e1)
  <2>1. PICK n : n = 0
    OBVIOUS
  <2>2. n \in 0 .. 2 /\ e1 = [d EXCEPT !.count = n]
    BY <1>2, <2>1
  <2> QED BY <1>1, <2>2, CountKeeps
<1>7. Flagged(e1, e2)
  BY <1>3, <1>6, ExpectKeeps DEF Flagged
<1>8. Flagged(e2, e3)
  BY <1>4, <1>7, FlagKeeps DEF Flagged
<1>9. Flagged(d, e3)
  BY <1>6, <1>7, <1>8, FlaggedTwice
<1>10. Good(e3, declared', functions')
  BY <1>9, FlaggedGood
<1>11. Len(d.operations) <= MaxOperations
  BY DEF Begin
<1>12. Bounded(e3)
  BY <1>9, <1>11 DEF Bounded, Flagged, Alike
<1> QED
  BY <1>5, <1>10, <1>12

LEMMA FreshGood ==
  ASSUME NEW decl, NEW n \in Nat
  PROVE  Good(Fresh, decl, n) /\ Bounded(Fresh)
<1>1. /\ <<>> \in Seq(Op) /\ <<>> \in Seq(Nat) /\ <<>> \in Seq(Pending) /\ <<>> \in Seq(Unclosed)
      /\ <<>> \in Seq(Definition) /\ <<>> \in Seq(Around) /\ DOMAIN <<>> = {} /\ Len(<<>>) = 0
  OBVIOUS
<1>2. /\ Fresh.operations = <<>> /\ Fresh.roots = <<>> /\ Fresh.pending = <<>> /\ Fresh.conditionals = <<>>
      /\ Fresh.definition = <<>> /\ Fresh.enclosing = <<>> /\ Fresh.held = {} /\ Fresh.open = FALSE
  BY DEF Fresh
<1>3. Fresh \in Compilation
  BY <1>1 DEF Fresh, Compilation
<1>4. Program(Fresh.operations, Fresh.roots, Fresh.conditionals) /\ Opened(Fresh.operations, Fresh.conditionals)
  BY <1>1, <1>2 DEF Program, Opened
<1>5. Nested(Fresh.pending, Fresh.conditionals) /\ WordsIn(Fresh, decl) /\ SetAside(Fresh.enclosing, decl, Fresh.held)
  BY <1>1, <1>2 DEF Nested, WordsIn, SetAside
<1>6. Defined(Fresh) /\ Held(Fresh, n) /\ Bounded(Fresh)
  BY <1>1, <1>2, AlphabetAssumption DEF Defined, Held, Bounded
<1> QED
  BY <1>2, <1>3, <1>4, <1>5, <1>6 DEF Good

---------------------------------------------------------------------------
(* Code *)

\* What ends in what was there before.
Extends(ext, ops) == Len(ops) <= Len(ext) /\ \A i \in DOMAIN ops : ext[i] = ops[i]

LEMMA ExtendsIs ==
  ASSUME NEW T, NEW ops \in Seq(T), NEW new \in Seq(T)
  PROVE  /\ ops \o new \in Seq(T) /\ Len(ops \o new) = Len(ops) + Len(new)
         /\ Extends(ops \o new, ops)
         /\ \A i \in DOMAIN new : (ops \o new)[Len(ops) + i] = new[i]
         /\ \A i \in DOMAIN (ops \o new) : i \in DOMAIN ops \/ \E j \in DOMAIN new : i = Len(ops) + j
<1>1. /\ ops \o new \in Seq(T) /\ Len(ops \o new) = Len(ops) + Len(new)
      /\ \A i \in 1 .. Len(ops) + Len(new) : (ops \o new)[i] = IF i <= Len(ops) THEN ops[i] ELSE new[i - Len(ops)]
  BY ConcatProperties
<1>2. Extends(ops \o new, ops)
  BY <1>1 DEF Extends
<1>3. ASSUME NEW i \in DOMAIN new PROVE (ops \o new)[Len(ops) + i] = new[i]
  <2>1. Len(ops) + i \in 1 .. Len(ops) + Len(new) /\ ~(Len(ops) + i <= Len(ops)) /\ Len(ops) + i - Len(ops) = i
    OBVIOUS
  <2> QED BY <1>1, <2>1
<1>4. ASSUME NEW i \in DOMAIN (ops \o new), i \notin DOMAIN ops PROVE \E j \in DOMAIN new : i = Len(ops) + j
  <2>1. i \in 1 .. Len(ops) + Len(new) /\ ~(i <= Len(ops))
    BY <1>1, <1>4
  <2>2. i - Len(ops) \in DOMAIN new /\ i = Len(ops) + (i - Len(ops))
    BY <2>1
  <2> QED BY <2>2
<1> QED
  BY <1>1, <1>2, <1>3, <1>4

\* One operation more.
Emitted(ops, op, ext) == ext = ops \o <<op>>

LEMMA EmittedIs ==
  ASSUME NEW ops \in Seq(Op), NEW op \in Op, NEW ext, Emitted(ops, op, ext)
  PROVE  /\ ext \in Seq(Op) /\ Len(ext) = Len(ops) + 1 /\ Len(ops) + 1 \in Nat
         /\ Extends(ext, ops) /\ ext[Len(ops) + 1] = op
         /\ \A i \in DOMAIN ext : i \in DOMAIN ops \/ i = Len(ops) + 1
<1>1. PICK o : o = <<op>>
  OBVIOUS
<1>2. o \in Seq(Op) /\ Len(o) = 1 /\ DOMAIN o = {1} /\ o[1] = op
  BY <1>1
<1>3. ext = ops \o o
  BY <1>1 DEF Emitted
<1>4. /\ ops \o o \in Seq(Op) /\ Len(ops \o o) = Len(ops) + Len(o)
      /\ Extends(ops \o o, ops)
      /\ \A i \in DOMAIN o : (ops \o o)[Len(ops) + i] = o[i]
      /\ \A i \in DOMAIN (ops \o o) : i \in DOMAIN ops \/ \E j \in DOMAIN o : i = Len(ops) + j
  BY <1>2, ExtendsIs
<1> QED
  BY <1>2, <1>3, <1>4

\* Links and waiting branches are where they were.
LEMMA GrownLinks ==
  ASSUME NEW ops \in Seq(Op), NEW ext \in Seq(Op), Extends(ext, ops)
  PROVE  /\ \A i \in DOMAIN ops : Linked(ops, i) => Linked(ext, i)
         /\ \A i, kind : Waits(ops, i, kind) => Waits(ext, i, kind)
         /\ \A k : Remembers(ops, k) => Remembers(ext, k)
         /\ \A i \in DOMAIN ops : i \in DOMAIN ext /\ ext[i] = ops[i]
<1>1. \A i \in DOMAIN ops : i \in DOMAIN ext /\ ext[i] = ops[i]
  BY DEF Extends
<1>2. ASSUME NEW i \in DOMAIN ops, Linked(ops, i) PROVE Linked(ext, i)
  <2>1. PICK t \in DOMAIN ops : t = ops[i].target
    BY <1>2 DEF Linked
  <2>2. ext[i] = ops[i] /\ ext[t] = ops[t] /\ t \in i + 1 .. Len(ext) /\ ops[t].kind = "label"
    BY <1>1, <1>2, <2>1 DEF Linked, Extends
  <2> QED BY <2>1, <2>2 DEF Linked
<1>3. ASSUME NEW i, NEW kind, Waits(ops, i, kind) PROVE Waits(ext, i, kind)
  BY <1>1, <1>3 DEF Waits
<1>4. ASSUME NEW k, Remembers(ops, k) PROVE Remembers(ext, k)
  BY <1>3, <1>4 DEF Remembers
<1> QED
  BY <1>1, <1>2, <1>3, <1>4

\* Operations that neither branch nor capture.
Plainly(op) == ~IsBranch(op) /\ op.kind # "captured_value" /\ op.target = 0

LEMMA PlainProgram ==
  ASSUME NEW ops \in Seq(Op), NEW ext \in Seq(Op), Extends(ext, ops), NEW roots \in Seq(Nat), NEW K \in Seq(Unclosed),
         \A i \in DOMAIN ext : i \in DOMAIN ops \/ Plainly(ext[i]),
         Program(ops, roots, K), Opened(ops, K)
  PROVE  Program(ext, roots, K) /\ Opened(ext, K)
<1>1. /\ \A i \in DOMAIN ops : Linked(ops, i) => Linked(ext, i)
      /\ \A k : Remembers(ops, k) => Remembers(ext, k)
      /\ \A i \in DOMAIN ops : i \in DOMAIN ext /\ ext[i] = ops[i]
  BY GrownLinks
<1>2. ASSUME NEW i \in DOMAIN ext
      PROVE  /\ IsBranch(ext[i]) => Linked(ext, i) \/ (ext[i].target = 0 /\ \E j \in DOMAIN K : i \in Remembered(K[j]))
             /\ ext[i].kind = "captured_value" => ext[i].target \in 1 .. Len(roots) /\ ext[i].target <= i
             /\ ~IsBranch(ext[i]) /\ ext[i].kind # "captured_value" => ext[i].target = 0
  <2>1. CASE i \in DOMAIN ops
    BY <1>1, <2>1 DEF Program
  <2>2. CASE i \notin DOMAIN ops
    BY <2>2 DEF Plainly
  <2> QED BY <2>1, <2>2
<1>3. roots # <<>> => \E i \in DOMAIN ext : ext[i].kind = "captured_value" /\ Len(roots) <= i
  BY <1>1 DEF Program
<1>4. Opened(ext, K)
  BY <1>1 DEF Opened
<1> QED
  BY <1>2, <1>3, <1>4 DEF Program

\* The last of the open conditionals remembers one branch more.
LEMMA WaitingProgram ==
  ASSUME NEW ops \in Seq(Op), NEW ext \in Seq(Op), Extends(ext, ops), Len(ext) = Len(ops) + 1,
         IsBranch(ext[Len(ext)]), ext[Len(ext)].target = 0,
         NEW roots \in Seq(Nat), NEW K \in Seq(Unclosed), NEW L \in Seq(Unclosed), NEW n \in Nat,
         Len(K) = n, Len(L) = n, n # 0, \A j \in 1 .. n - 1 : L[j] = K[j],
         Remembered(L[n]) = Remembered(K[n]) \cup {Len(ext)}, Remembers(ext, L[n]),
         Program(ops, roots, K), Opened(ops, K)
  PROVE  Program(ext, roots, L) /\ Opened(ext, L)
<1> DEFINE m == Len(ext)
<1>0. m \in DOMAIN ext /\ m \notin DOMAIN ops /\ \A i \in DOMAIN ext : i \in DOMAIN ops \/ i = m
  OBVIOUS
<1>1. /\ \A i \in DOMAIN ops : Linked(ops, i) => Linked(ext, i)
      /\ \A k : Remembers(ops, k) => Remembers(ext, k)
      /\ \A i \in DOMAIN ops : i \in DOMAIN ext /\ ext[i] = ops[i]
  BY GrownLinks
<1>2. /\ DOMAIN L = DOMAIN K /\ n \in DOMAIN L
      /\ \A j \in DOMAIN L : j = n \/ L[j] = K[j]
      /\ \A j \in DOMAIN K : Remembered(K[j]) \subseteq Remembered(L[j])
  BY DEF Extends
<1>3. ASSUME NEW i \in DOMAIN ext
      PROVE  /\ IsBranch(ext[i]) => Linked(ext, i) \/ (ext[i].target = 0 /\ \E j \in DOMAIN L : i \in Remembered(L[j]))
             /\ ext[i].kind = "captured_value" => ext[i].target \in 1 .. Len(roots) /\ ext[i].target <= i
             /\ ~IsBranch(ext[i]) /\ ext[i].kind # "captured_value" => ext[i].target = 0
  <2>1. CASE i \in DOMAIN ops
    BY <1>1, <1>2, <2>1 DEF Program
  <2>2. CASE i = m
    <3>1. ext[i].kind # "captured_value"
      BY <2>2 DEF IsBranch
    <3> QED BY <1>2, <2>2, <3>1
  <2> QED BY <1>0, <2>1, <2>2
<1>4. roots # <<>> => \E i \in DOMAIN ext : ext[i].kind = "captured_value" /\ Len(roots) <= i
  BY <1>1 DEF Program
<1>5. ASSUME NEW j \in DOMAIN L PROVE Remembers(ext, L[j])
  BY <1>1, <1>2, <1>5 DEF Opened
<1>6. ASSUME NEW j \in DOMAIN L, NEW i \in Remembered(L[j]), NEW l \in DOMAIN L \ {j}
      PROVE  i \notin Remembered(L[l])
  <2>1. \A k \in DOMAIN K : \A x \in Remembered(K[k]) : x \in DOMAIN ops
    BY DEF Opened, Remembers, Remembered, Waits
  <2>2. \A k \in DOMAIN L : \A x \in Remembered(L[k]) : x \in Remembered(K[k]) \/ (k = n /\ x = m)
    BY <1>2
  <2>3. \A x \in Remembered(K[j]) : x \notin Remembered(K[l])
    BY <1>2, <1>6 DEF Opened
  <2> QED BY <1>0, <1>2, <1>6, <2>1, <2>2, <2>3
<1> QED
  BY <1>3, <1>4, <1>5, <1>6 DEF Program, Opened

PatchedOps(ops, B, label) ==
  [i \in DOMAIN ops |-> IF i \in B THEN [ops[i] EXCEPT !.target = label] ELSE ops[i]]

LEMMA PatchIs ==
  ASSUME NEW ops \in Seq(Op), NEW B, NEW l \in Nat
  PROVE  /\ PatchedOps(ops, B, l) \in Seq(Op) /\ Len(PatchedOps(ops, B, l)) = Len(ops)
         /\ \A i \in DOMAIN ops :
              /\ PatchedOps(ops, B, l)[i].kind = ops[i].kind /\ PatchedOps(ops, B, l)[i].word = ops[i].word
              /\ (i \in B => PatchedOps(ops, B, l)[i].target = l)
              /\ (i \notin B => PatchedOps(ops, B, l)[i] = ops[i])
<1>1. PICK p : p = PatchedOps(ops, B, l)
  OBVIOUS
<1>2. DOMAIN p = 1 .. Len(ops) /\ Len(ops) \in Nat
  BY <1>1 DEF PatchedOps
<1>3. ASSUME NEW i \in DOMAIN ops
      PROVE  /\ p[i] \in Op /\ p[i].kind = ops[i].kind /\ p[i].word = ops[i].word
             /\ (i \in B => p[i].target = l) /\ (i \notin B => p[i] = ops[i])
  <2>1. p[i] = IF i \in B THEN [ops[i] EXCEPT !.target = l] ELSE ops[i]
    BY <1>1 DEF PatchedOps
  <2>2. ops[i] \in Op
    OBVIOUS
  <2> QED BY <2>1, <2>2 DEF Op
<1>4. p \in [1 .. Len(ops) -> Op]
  BY <1>1, <1>2, <1>3 DEF PatchedOps
<1>5. p \in Seq(Op) /\ Len(p) = Len(ops)
  BY <1>2, <1>4
<1> QED
  BY <1>1, <1>3, <1>5

\* Branches of the last of the open conditionals K are led to a label.
Resolves(ops, p, B, label, K, n) ==
  /\ label \in DOMAIN ops /\ ops[label].kind = "label" /\ p = PatchedOps(ops, B, label)
  /\ \A i \in B : i \in DOMAIN ops /\ i < label
  /\ n \in Nat /\ Len(K) = n /\ n # 0 /\ B \subseteq Remembered(K[n])

\* It forgets them or is forgotten.
Forgets(p, B, K, L, n) ==
  /\ Len(L) \in {n - 1, n} /\ \A j \in 1 .. n - 1 : L[j] = K[j]
  /\ Len(L) = n => Remembered(L[n]) = Remembered(K[n]) \ B /\ Remembers(p, L[n])
  /\ Len(L) # n => Remembered(K[n]) \subseteq B

LEMMA ResolvedProgram ==
  ASSUME NEW ops \in Seq(Op), NEW p \in Seq(Op), NEW B, NEW label,
         NEW roots \in Seq(Nat), NEW K \in Seq(Unclosed), NEW L \in Seq(Unclosed), NEW n,
         Resolves(ops, p, B, label, K, n), Forgets(p, B, K, L, n),
         Program(ops, roots, K), Opened(ops, K)
  PROVE  Program(p, roots, L) /\ Opened(p, L)
<1>0. /\ label \in DOMAIN ops /\ ops[label].kind = "label" /\ p = PatchedOps(ops, B, label)
      /\ \A i \in B : i \in DOMAIN ops /\ i < label
      /\ n \in Nat /\ Len(K) = n /\ n # 0 /\ B \subseteq Remembered(K[n])
      /\ Len(L) \in {n - 1, n} /\ \A j \in 1 .. n - 1 : L[j] = K[j]
      /\ Len(L) = n => Remembered(L[n]) = Remembered(K[n]) \ B /\ Remembers(p, L[n])
      /\ Len(L) # n => Remembered(K[n]) \subseteq B
  BY DEF Resolves, Forgets
<1>1. /\ Len(p) = Len(ops) /\ DOMAIN p = DOMAIN ops
      /\ \A i \in DOMAIN ops :
           /\ p[i].kind = ops[i].kind /\ (i \in B => p[i].target = label) /\ (i \notin B => p[i] = ops[i])
  <2>1. label \in Nat
    BY <1>0
  <2> QED BY <1>0, <2>1, PatchIs
<1>2. /\ n \in DOMAIN K /\ \A j \in DOMAIN L : j \in DOMAIN K /\ (j # n => L[j] = K[j])
      /\ \A j \in DOMAIN K : j # n => j \in DOMAIN L
      /\ (n \in DOMAIN L <=> Len(L) = n)
  BY <1>0
<1>3. \A i \in B : ops[i].target = 0 /\ IsBranch(ops[i])
  <2>1. Remembers(ops, K[n])
    BY <1>2 DEF Opened
  <2> QED BY <1>0, <2>1 DEF Remembers, Remembered, Waits, IsBranch
<1>4. \A j \in DOMAIN K : j # n => \A i \in Remembered(K[j]) : i \notin B
  BY <1>0, <1>2 DEF Opened
<1>5. ASSUME NEW i \in DOMAIN p
      PROVE  /\ IsBranch(p[i]) => Linked(p, i) \/ (p[i].target = 0 /\ \E j \in DOMAIN L : i \in Remembered(L[j]))
             /\ p[i].kind = "captured_value" => p[i].target \in 1 .. Len(roots) /\ p[i].target <= i
             /\ ~IsBranch(p[i]) /\ p[i].kind # "captured_value" => p[i].target = 0
  <2>1. CASE i \in B
    <3>1. p[i].target = label /\ p[label].kind = "label" /\ label \in i + 1 .. Len(p)
      BY <1>0, <1>1, <2>1
    <3>2. Linked(p, i) /\ IsBranch(p[i])
      BY <1>1, <1>3, <2>1, <3>1 DEF Linked, IsBranch
    <3>3. p[i].kind # "captured_value"
      BY <3>2 DEF IsBranch
    <3> QED BY <3>2, <3>3
  <2>2. CASE i \notin B
    <3>1. p[i] = ops[i] /\ i \in DOMAIN ops
      BY <1>1, <2>2
    <3>2. ASSUME Linked(ops, i) PROVE Linked(p, i)
      <4>1. PICK t \in DOMAIN ops : t = ops[i].target
        BY <3>2 DEF Linked
      <4>2. p[t].kind = ops[t].kind /\ t \in i + 1 .. Len(p) /\ ops[t].kind = "label"
        BY <1>1, <3>2, <4>1 DEF Linked
      <4> QED BY <3>1, <4>1, <4>2 DEF Linked
    <3>3. ASSUME NEW j \in DOMAIN K, i \in Remembered(K[j]) PROVE \E l \in DOMAIN L : i \in Remembered(L[l])
      BY <1>0, <1>2, <2>2, <3>3
    <3> QED BY <3>1, <3>2, <3>3 DEF Program
  <2> QED BY <2>1, <2>2
<1>6. roots # <<>> => \E i \in DOMAIN p : p[i].kind = "captured_value" /\ Len(roots) <= i
  BY <1>1 DEF Program
<1>7. ASSUME NEW j \in DOMAIN L PROVE Remembers(p, L[j])
  <2>1. CASE j = n
    BY <1>0, <1>2, <1>7, <2>1
  <2>2. CASE j # n
    <3>1. L[j] = K[j] /\ Remembers(ops, K[j]) /\ j \in DOMAIN K
      BY <1>2, <1>7, <2>2 DEF Opened
    <3>2. \A i \in Remembered(K[j]) : i \in DOMAIN ops => p[i] = ops[i]
      BY <1>1, <1>4, <2>2, <3>1
    <3> QED BY <1>1, <3>1, <3>2 DEF Remembers, Remembered, Waits
  <2> QED BY <2>1, <2>2
<1>8. ASSUME NEW j \in DOMAIN L, NEW i \in Remembered(L[j]), NEW l \in DOMAIN L \ {j}
      PROVE  i \notin Remembered(L[l])
  <2>1. \A k \in DOMAIN L : Remembered(L[k]) \subseteq Remembered(K[k])
    BY <1>0, <1>2
  <2>2. \A x \in Remembered(K[j]) : x \notin Remembered(K[l])
    BY <1>2, <1>8 DEF Opened
  <2> QED BY <1>8, <2>1, <2>2
<1> QED
  BY <1>5, <1>6, <1>7, <1>8 DEF Program, Opened

---------------------------------------------------------------------------
(* Pending groups and operators *)

LEMMA LeastIs ==
  ASSUME NEW S \in SUBSET Nat, S # {}
  PROVE  Least(S) \in S /\ \A i \in S : Least(S) <= i
<1>1. \E i \in S : \A j \in S : i <= j
  BY LeastNatural
<1> QED
  BY <1>1 DEF Least

\* Above the innermost group there are operators only.
LEMMA LooseIs ==
  ASSUME c.pending \in Seq(Pending)
  PROVE  /\ Loose \in 0 .. Len(c.pending)
         /\ \A m \in Nat : m < Loose => m < Len(c.pending) /\ ~IsGroup(c.pending[Len(c.pending) - m])
         /\ Loose < Len(c.pending) => IsGroup(c.pending[Len(c.pending) - Loose])
<1> DEFINE S == {k \in 0 .. Len(c.pending) : k = Len(c.pending) \/ IsGroup(c.pending[Len(c.pending) - k])}
<1>1. S \in SUBSET Nat /\ S # {} /\ Len(c.pending) \in Nat
  OBVIOUS
<1>2. Loose = Least(S)
  BY DEF Loose
<1>3. Loose \in S /\ \A i \in S : Loose <= i
  <2> HIDE DEF S
  <2> QED BY <1>1, <1>2, LeastIs
<1>4. ASSUME NEW m \in Nat, m < Loose PROVE m < Len(c.pending) /\ ~IsGroup(c.pending[Len(c.pending) - m])
  <2>1. Loose \in 0 .. Len(c.pending) /\ m \in 0 .. Len(c.pending) /\ m < Len(c.pending)
    BY <1>1, <1>3, <1>4
  <2>2. m \notin S
    BY <1>3, <1>4, <2>1
  <2> QED BY <2>1, <2>2
<1>5. Loose \in 0 .. Len(c.pending) /\ (Loose = Len(c.pending) \/ IsGroup(c.pending[Len(c.pending) - Loose]))
  BY <1>3
<1> QED
  BY <1>4, <1>5

\* So fewer pending operators do not touch the groups of open conditionals.
LEMMA NestedLoose ==
  ASSUME NEW K \in Seq(Unclosed), c.pending \in Seq(Pending), Nested(c.pending, K),
         NEW k \in 0 .. Loose
  PROVE  /\ SubSeq(c.pending, 1, Len(c.pending) - k) \in Seq(Pending)
         /\ Len(SubSeq(c.pending, 1, Len(c.pending) - k)) = Len(c.pending) - k
         /\ \A i \in 1 .. Len(c.pending) - k : SubSeq(c.pending, 1, Len(c.pending) - k)[i] = c.pending[i]
         /\ Nested(SubSeq(c.pending, 1, Len(c.pending) - k), K)
<1>0. PICK n \in Nat : n = Len(c.pending)
  OBVIOUS
<1>1. PICK q : n = Len(c.pending) /\ q = SubSeq(c.pending, 1, n - k)
  BY <1>0
<1>2. Loose \in 0 .. n /\ \A m \in Nat : m < Loose => ~IsGroup(c.pending[n - m])
  BY <1>1, LooseIs
<1>3. n - k \in 0 .. n
  BY <1>2
<1>4. q \in Seq(Pending) /\ Len(q) = n - k /\ \A i \in 1 .. n - k : q[i] = c.pending[i]
  BY <1>1, <1>3
<1>5. ASSUME NEW i \in DOMAIN K
      PROVE  K[i].boundary < Len(q) /\ IsGroup(q[K[i].boundary + 1])
  <2>0. K[i] \in Unclosed
    OBVIOUS
  <2>1. PICK b \in Nat : b = K[i].boundary
    BY <2>0 DEF Unclosed
  <2>2. b < n /\ IsGroup(c.pending[b + 1])
    BY <1>1, <2>1 DEF Nested
  <2>3. b < n - k
    <3>1. SUFFICES ASSUME ~(b < n - k) PROVE FALSE
      OBVIOUS
    <3>2. n - 1 - b \in Nat /\ n - 1 - b < Loose /\ n - (n - 1 - b) = b + 1
      BY <1>2, <2>2, <3>1
    <3> QED BY <1>2, <2>2, <3>2
  <2> QED BY <1>4, <2>1, <2>2, <2>3
<1>6. Nested(q, K)
  BY <1>5 DEF Nested
<1> QED
  BY <1>1, <1>4, <1>6

---------------------------------------------------------------------------
(* Compilations of which one part changes *)

LEMMA OperationsSet ==
  ASSUME NEW d \in Compilation, NEW v \in Seq(Op), NEW e, e = [d EXCEPT !.operations = v]
  PROVE  /\ e \in Compilation /\ e.operations = v
         /\ e.roots = d.roots /\ e.pending = d.pending /\ e.conditionals = d.conditionals
         /\ e.definition = d.definition /\ e.enclosing = d.enclosing /\ e.held = d.held
         /\ e.open = d.open /\ e.call = d.call
BY DEF Compilation

LEMMA PendingSet ==
  ASSUME NEW d \in Compilation, NEW v \in Seq(Pending), NEW e, e = [d EXCEPT !.pending = v]
  PROVE  /\ e \in Compilation /\ e.pending = v
         /\ e.roots = d.roots /\ e.operations = d.operations /\ e.conditionals = d.conditionals
         /\ e.definition = d.definition /\ e.enclosing = d.enclosing /\ e.held = d.held
         /\ e.open = d.open /\ e.call = d.call
BY DEF Compilation

LEMMA ConditionalsSet ==
  ASSUME NEW d \in Compilation, NEW v \in Seq(Unclosed), NEW e, e = [d EXCEPT !.conditionals = v]
  PROVE  /\ e \in Compilation /\ e.conditionals = v
         /\ e.roots = d.roots /\ e.operations = d.operations /\ e.pending = d.pending
         /\ e.definition = d.definition /\ e.enclosing = d.enclosing /\ e.held = d.held
         /\ e.open = d.open /\ e.call = d.call
BY DEF Compilation

LEMMA DefinitionSet ==
  ASSUME NEW d \in Compilation, NEW v \in Seq(Definition), NEW e, e = [d EXCEPT !.definition = v]
  PROVE  /\ e \in Compilation /\ e.definition = v
         /\ e.roots = d.roots /\ e.operations = d.operations /\ e.pending = d.pending
         /\ e.conditionals = d.conditionals /\ e.enclosing = d.enclosing /\ e.held = d.held
         /\ e.open = d.open /\ e.call = d.call
BY DEF Compilation

LEMMA EnclosingSet ==
  ASSUME NEW d \in Compilation, NEW v \in Seq(Around), NEW e, e = [d EXCEPT !.enclosing = v]
  PROVE  /\ e \in Compilation /\ e.enclosing = v
         /\ e.roots = d.roots /\ e.operations = d.operations /\ e.pending = d.pending
         /\ e.conditionals = d.conditionals /\ e.definition = d.definition /\ e.held = d.held
         /\ e.open = d.open /\ e.call = d.call
BY DEF Compilation

LEMMA RootsSet ==
  ASSUME NEW d \in Compilation, NEW v \in Seq(Nat), NEW e, e = [d EXCEPT !.roots = v]
  PROVE  /\ e \in Compilation /\ e.roots = v
         /\ e.enclosing = d.enclosing /\ e.operations = d.operations /\ e.pending = d.pending
         /\ e.conditionals = d.conditionals /\ e.definition = d.definition /\ e.held = d.held
         /\ e.open = d.open /\ e.call = d.call
BY DEF Compilation

LEMMA HeldSet ==
  ASSUME NEW d \in Compilation, NEW v \in SUBSET Nat, NEW e, e = [d EXCEPT !.held = v]
  PROVE  /\ e \in Compilation /\ e.held = v
         /\ e.enclosing = d.enclosing /\ e.operations = d.operations /\ e.pending = d.pending
         /\ e.conditionals = d.conditionals /\ e.definition = d.definition /\ e.roots = d.roots
         /\ e.open = d.open /\ e.call = d.call
BY DEF Compilation

LEMMA CallSet ==
  ASSUME NEW d \in Compilation, NEW v \in Calls \cup Primitives \cup {NoName}, NEW e, e = [d EXCEPT !.call = v]
  PROVE  e \in Compilation /\ Alike(d, e) /\ e.call = v /\ e.open = d.open
BY DEF Compilation, Alike

LEMMA OpenSet ==
  ASSUME NEW d \in Compilation, NEW v \in BOOLEAN, NEW e, e = [d EXCEPT !.open = v]
  PROVE  e \in Compilation /\ Alike(d, e) /\ e.open = v /\ e.call = d.call
BY DEF Compilation, Alike

LEMMA AlikeGood ==
  ASSUME NEW d, NEW e \in Compilation, NEW decl, NEW n, Good(d, decl, n), Alike(d, e),
         e.open => e.call \in Calls
  PROVE  Good(e, decl, n)
<1>1. Scope(e) = Scope(d)
  BY DEF Scope, Alike
<1>2. WordsIn(e, decl)
  BY <1>1 DEF Good, WordsIn, Alike
<1> QED
  BY <1>2 DEF Good, Alike, Defined, Held

\* Operations that do not branch are emitted.
LEMMA EmitGood ==
  ASSUME NEW d, NEW decl, NEW n, Good(d, decl, n), NEW ops \in Seq(Op), NEW e, e = Emit(d, ops),
         \A i \in DOMAIN ops : Plainly(ops[i]) /\ KnownIn(Scope(d), decl, ops[i].word)
  PROVE  /\ Good(e, decl, n) /\ e.operations = d.operations \o ops
         /\ e.pending = d.pending /\ e.conditionals = d.conditionals /\ e.roots = d.roots
         /\ e.definition = d.definition /\ e.enclosing = d.enclosing /\ e.held = d.held
         /\ e.open = d.open /\ e.call = d.call /\ Scope(e) = Scope(d)
<1>0. d \in Compilation
  BY DEF Good
<1>1. d.operations \in Seq(Op) /\ d.roots \in Seq(Nat) /\ d.conditionals \in Seq(Unclosed)
  BY <1>0 DEF Compilation
<1>2. PICK ext : ext = d.operations \o ops
  OBVIOUS
<1>3. /\ ext \in Seq(Op) /\ Extends(ext, d.operations)
      /\ \A i \in DOMAIN ops : ext[Len(d.operations) + i] = ops[i]
      /\ \A i \in DOMAIN ext : i \in DOMAIN d.operations \/ \E j \in DOMAIN ops : i = Len(d.operations) + j
  BY <1>1, <1>2, ExtendsIs
<1>4. e = [d EXCEPT !.operations = ext]
  BY <1>2 DEF Emit
<1>5. /\ e \in Compilation /\ e.operations = ext
      /\ e.roots = d.roots /\ e.pending = d.pending /\ e.conditionals = d.conditionals
      /\ e.definition = d.definition /\ e.enclosing = d.enclosing /\ e.held = d.held
      /\ e.open = d.open /\ e.call = d.call
  BY <1>0, <1>3, <1>4, OperationsSet
<1>6. Scope(e) = Scope(d)
  BY <1>5 DEF Scope
<1>7. \A i \in DOMAIN ext : i \in DOMAIN d.operations \/ Plainly(ext[i])
  BY <1>3
<1>8. Program(ext, d.roots, d.conditionals) /\ Opened(ext, d.conditionals)
  BY <1>1, <1>3, <1>7, PlainProgram DEF Good
<1>9. \A i \in DOMAIN ext : KnownIn(Scope(d), decl, ext[i].word)
  <2>1. \A i \in DOMAIN d.operations : ext[i] = d.operations[i] /\ KnownIn(Scope(d), decl, d.operations[i].word)
    BY <1>3 DEF Extends, Good, WordsIn
  <2> QED BY <1>3, <2>1
<1>10. WordsIn(e, decl)
  BY <1>5, <1>6, <1>9 DEF WordsIn, Good
<1>11. Good(e, decl, n)
  BY <1>5, <1>8, <1>10 DEF Good, Defined, Held
<1> QED
  BY <1>2, <1>5, <1>6, <1>11

\* What is pending changes.
LEMMA PendingGood ==
  ASSUME NEW d, NEW decl, NEW n, Good(d, decl, n), NEW q \in Seq(Pending), NEW e, e = [d EXCEPT !.pending = q],
         Nested(q, d.conditionals), \A i \in DOMAIN q : KnownIn(Scope(d), decl, q[i].call)
  PROVE  /\ Good(e, decl, n) /\ e.operations = d.operations
         /\ e.pending = q /\ e.conditionals = d.conditionals /\ e.roots = d.roots
         /\ e.definition = d.definition /\ e.enclosing = d.enclosing /\ e.held = d.held
         /\ e.open = d.open /\ e.call = d.call /\ Scope(e) = Scope(d)
<1>0. d \in Compilation
  BY DEF Good
<1>1. /\ e \in Compilation /\ e.pending = q
      /\ e.roots = d.roots /\ e.operations = d.operations /\ e.conditionals = d.conditionals
      /\ e.definition = d.definition /\ e.enclosing = d.enclosing /\ e.held = d.held
      /\ e.open = d.open /\ e.call = d.call
  BY <1>0, PendingSet
<1>2. Scope(e) = Scope(d)
  BY <1>1 DEF Scope
<1>3. WordsIn(e, decl)
  BY <1>1, <1>2 DEF WordsIn, Good
<1>4. Good(e, decl, n)
  BY <1>1, <1>3 DEF Good, Defined, Held
<1> QED
  BY <1>1, <1>2, <1>4

\* What is not a name of the program is known everywhere.
LEMMA SpellingsKnown ==
  ASSUME NEW S, NEW decl, NEW w \in Spellings \cup {NoName}
  PROVE  KnownIn(S, decl, w) /\ w \in Tokens \cup {NoName}
BY AlphabetAssumption DEF KnownIn, Tokens

LEMMA OperationIs ==
  ASSUME NEW kind \in Kinds, NEW w \in Tokens \cup {NoName}
  PROVE  /\ Operation(kind, w) \in Op /\ Operation(kind, w).kind = kind
         /\ Operation(kind, w).word = w /\ Operation(kind, w).target = 0
BY DEF Operation, Op

\* Pending operators become operations, down to the innermost group at most.
LEMMA DrainGood ==
  ASSUME NEW decl, NEW n, Good(c, decl, n), NEW k \in 0 .. Loose, NEW e, e = Drain(k)
  PROVE  /\ Good(e, decl, n) /\ e.pending = SubSeq(c.pending, 1, Len(c.pending) - k)
         /\ e.conditionals = c.conditionals /\ e.roots = c.roots
         /\ e.definition = c.definition /\ e.enclosing = c.enclosing /\ e.held = c.held
         /\ e.open = c.open /\ e.call = c.call /\ Scope(e) = Scope(c)
<1>0. c \in Compilation /\ c.pending \in Seq(Pending) /\ c.conditionals \in Seq(Unclosed)
  BY DEF Good, Compilation
<1>1. PICK m \in Nat : m = Len(c.pending)
  BY <1>0
<1> DEFINE w == Len(c.operations)
           pair == w >= 2 /\ Staged(c.operations[w]) /\ Staged(c.operations[w - 1])
           p(i) == c.pending[m + 1 - i]
           op(i) == IF p(i).operator = "="
                    THEN [Operation("compare", "=") EXCEPT !.rebuilt = IF i = 1 /\ pair THEN 2 ELSE 0]
                    ELSE Operation(IF p(i).unary THEN "unary" ELSE "binary", p(i).operator)
<1>2. PICK ops : ops = [i \in 1 .. k |-> op(i)]
  OBVIOUS
<1>3. PICK d : d = Emit(c, ops)
  OBVIOUS
<1>4. PICK q : q = SubSeq(c.pending, 1, m - k)
  OBVIOUS
<1>5. /\ Loose \in 0 .. m
      /\ \A x \in Nat : x < Loose => x < m /\ ~IsGroup(c.pending[m - x])
  BY <1>0, <1>1, LooseIs
<1>6. ASSUME NEW i \in 1 .. k
      PROVE  op(i) \in Op /\ Plainly(op(i)) /\ op(i).word \in Operators
  <2>1. PICK j \in 1 .. m : j = m + 1 - i /\ j = m - (i - 1) /\ i - 1 \in Nat /\ i - 1 < Loose
    BY <1>5
  <2>2. PICK z : z = c.pending[j]
    OBVIOUS
  <2>3. ~IsGroup(z) /\ z \in Pending
    BY <1>0, <1>1, <1>5, <2>1, <2>2
  <2>4. z.operator \in Operators /\ z.unary \in BOOLEAN
    BY <2>3 DEF IsGroup, Pending
  <2>5. z.operator \in Tokens \cup {NoName} /\ "=" \in Tokens \cup {NoName} /\ "=" \in Operators
    BY <2>4, SpellingsKnown DEF Spellings, Operators
  <2>6. PICK r \in Nat : r = IF i = 1 /\ pair THEN 2 ELSE 0
    OBVIOUS
  <2>7. PICK u \in {"unary", "binary"} : u = IF z.unary THEN "unary" ELSE "binary"
    OBVIOUS
  <2>8. PICK x : x = IF z.operator = "=" THEN [Operation("compare", "=") EXCEPT !.rebuilt = r]
                     ELSE Operation(u, z.operator)
    OBVIOUS
  <2>9. op(i) = x
    BY <2>1, <2>2, <2>6, <2>7, <2>8
  <2>10. x \in Op /\ x.kind \in {"compare", "unary", "binary"} /\ x.target = 0 /\ x.word \in Operators
    <3>1. CASE z.operator = "="
      BY <2>5, <2>8, <3>1 DEF Op, Operation, Kinds
    <3>2. CASE z.operator # "="
      BY <2>4, <2>5, <2>8, <3>2 DEF Op, Operation, Kinds
    <3> QED BY <3>1, <3>2
  <2>11. Plainly(x)
    BY <2>10 DEF Plainly, IsBranch
  <2> QED BY <2>9, <2>10, <2>11
<1>7. e = [d EXCEPT !.pending = q]
  <2>1. Drain(k) = [Emit(c, ops) EXCEPT !.pending = SubSeq(@, 1, Len(@) - k)]
    BY <1>1, <1>2 DEF Drain
  <2>2. d.pending = c.pending
    BY <1>3 DEF Emit
  <2> QED BY <1>1, <1>3, <1>4, <2>1, <2>2
<1> HIDE DEF op, p, pair, w
<1>8. ops \in Seq(Op) /\ \A i \in DOMAIN ops : Plainly(ops[i]) /\ ops[i].word \in Operators
  <2>1. k \in Nat /\ DOMAIN ops = 1 .. k
    BY <1>2, <1>5
  <2>2. ops \in [1 .. k -> Op]
    BY <1>2, <1>6
  <2> QED BY <1>2, <1>6, <2>1, <2>2
<1>9. \A i \in DOMAIN ops : Plainly(ops[i]) /\ KnownIn(Scope(c), decl, ops[i].word)
  BY <1>8, SpellingsKnown DEF Spellings
<1>10. /\ Good(d, decl, n)
       /\ d.pending = c.pending /\ d.conditionals = c.conditionals /\ d.roots = c.roots
       /\ d.definition = c.definition /\ d.enclosing = c.enclosing /\ d.held = c.held
       /\ d.open = c.open /\ d.call = c.call /\ Scope(d) = Scope(c)
  BY <1>3, <1>8, <1>9, EmitGood
<1>11. /\ q \in Seq(Pending) /\ Len(q) = m - k /\ \A i \in 1 .. m - k : q[i] = c.pending[i]
       /\ Nested(q, c.conditionals)
  BY <1>0, <1>1, <1>4, NestedLoose DEF Good
<1>12. \A i \in DOMAIN q : KnownIn(Scope(d), decl, q[i].call)
  BY <1>0, <1>1, <1>5, <1>10, <1>11 DEF Good, WordsIn
<1>13. /\ Good(e, decl, n)
       /\ e.pending = q /\ e.conditionals = d.conditionals /\ e.roots = d.roots
       /\ e.definition = d.definition /\ e.enclosing = d.enclosing /\ e.held = d.held
       /\ e.open = d.open /\ e.call = d.call /\ Scope(e) = Scope(d)
  BY <1>7, <1>10, <1>11, <1>12, PendingGood
<1> QED
  BY <1>1, <1>4, <1>10, <1>13

---------------------------------------------------------------------------
(* Tokens that change flags or emit operations *)

LEMMA Settled ==
  ASSUME Inv, NEW d, Compile(d), Good(d, declared, functions), UNCHANGED session
  PROVE  Inv'
<1>1. declared' = declared /\ functions' = functions /\ comment' = comment /\ state' = state
  BY DEF session
<1>2. Good(d, declared', functions')
  BY <1>1
<1>3. Good(c', declared', functions') /\ Bounded(c')
  BY <1>2, CompileKeeps
<1>4. Rest'
  BY <1>1 DEF Inv, Rest
<1> QED
  BY <1>3, <1>4 DEF Inv

LEMMA Recovered ==
  ASSUME c' = Fresh, Rest'
  PROVE  Inv'
<1>1. functions' \in Nat
  BY DEF Rest
<1>2. PICK n, decl : n \in Nat /\ n = functions' /\ decl = declared'
  BY <1>1
<1>3. Good(Fresh, decl, n) /\ Bounded(Fresh)
  BY <1>2, FreshGood
<1> QED
  BY <1>2, <1>3 DEF Inv

LEMMA RecoverKeeps ==
  ASSUME Inv, Recover
  PROVE  Inv'
<1>1. Rest'
  BY DEF Recover, session, Inv, Rest
<1> QED
  BY <1>1, Recovered DEF Recover

LEMMA UnsupportedKeeps ==
  ASSUME Inv, Unsupported
  PROVE  Inv'
<1>1. Rest' /\ c' = c /\ declared' = declared /\ functions' = functions
  BY DEF Unsupported, Inv, Rest
<1>2. Good(c, declared, functions) /\ Bounded(c)
  BY DEF Inv
<1> QED
  BY <1>1, <1>2 DEF Inv

LEMMA DrainedGood ==
  ASSUME NEW decl, NEW n, Good(c, decl, n), NEW e, e = Drained
  PROVE  /\ Good(e, decl, n) /\ Len(e.pending) = Len(c.pending) - Loose
         /\ Len(e.pending) \in 0 .. Len(c.pending)
         /\ \A i \in DOMAIN e.pending : e.pending[i] = c.pending[i]
         /\ (e.pending # <<>> => IsGroup(Last(e.pending)))
         /\ e.conditionals = c.conditionals /\ e.roots = c.roots
         /\ e.definition = c.definition /\ e.enclosing = c.enclosing /\ e.held = c.held
         /\ e.open = c.open /\ e.call = c.call /\ Scope(e) = Scope(c)
<1>0. c.pending \in Seq(Pending) /\ c.conditionals \in Seq(Unclosed)
  BY DEF Good, Compilation
<1>1. PICK m \in Nat, k \in Nat : m = Len(c.pending) /\ k = Loose
  BY <1>0, LooseIs
<1>2. k \in 0 .. m /\ (k < m => IsGroup(c.pending[m - k]))
  BY <1>0, <1>1, LooseIs
<1>3. /\ Good(e, decl, n) /\ e.pending = SubSeq(c.pending, 1, m - k)
      /\ e.conditionals = c.conditionals /\ e.roots = c.roots
      /\ e.definition = c.definition /\ e.enclosing = c.enclosing /\ e.held = c.held
      /\ e.open = c.open /\ e.call = c.call /\ Scope(e) = Scope(c)
  <2>1. k \in 0 .. Loose /\ e = Drain(k)
    BY <1>1, <1>2 DEF Drained
  <2> QED BY <1>1, <2>1, DrainGood
<1>4. m - k \in 0 .. m
  BY <1>2
<1>5. Len(e.pending) = m - k /\ \A i \in 1 .. m - k : e.pending[i] = c.pending[i]
  BY <1>0, <1>1, <1>3, <1>4
<1>6. DOMAIN e.pending = 1 .. m - k
  BY <1>0, <1>1, <1>3, <1>4
<1>7. ASSUME e.pending # <<>> PROVE IsGroup(Last(e.pending))
  <2>1. m - k > 0
    BY <1>0, <1>1, <1>3, <1>4, <1>5, <1>7
  <2>2. k < m /\ m - k \in 1 .. m - k
    BY <1>2, <2>1
  <2> QED BY <1>2, <1>5, <2>2 DEF Last
<1> QED
  BY <1>1, <1>3, <1>4, <1>5, <1>6, <1>7

\* One operation is emitted.
LEMMA EmitOne ==
  ASSUME NEW d, NEW decl, NEW n, Good(d, decl, n), NEW op \in Op, Plainly(op),
         KnownIn(Scope(d), decl, op.word), NEW e, e = Emit(d, <<op>>)
  PROVE  /\ Good(e, decl, n) /\ e.operations = d.operations \o <<op>>
         /\ e.pending = d.pending /\ e.conditionals = d.conditionals /\ e.roots = d.roots
         /\ e.definition = d.definition /\ e.enclosing = d.enclosing /\ e.held = d.held
         /\ e.open = d.open /\ e.call = d.call /\ Scope(e) = Scope(d)
<1>1. PICK ops : ops = <<op>>
  OBVIOUS
<1>2. ops \in Seq(Op) /\ DOMAIN ops = {1} /\ ops[1] = op
  BY <1>1
<1>3. \A i \in DOMAIN ops : Plainly(ops[i]) /\ KnownIn(Scope(d), decl, ops[i].word)
  BY <1>2
<1>4. e = Emit(d, ops)
  BY <1>1
<1>5. /\ Good(e, decl, n) /\ e.operations = d.operations \o ops
      /\ e.pending = d.pending /\ e.conditionals = d.conditionals /\ e.roots = d.roots
      /\ e.definition = d.definition /\ e.enclosing = d.enclosing /\ e.held = d.held
      /\ e.open = d.open /\ e.call = d.call /\ Scope(e) = Scope(d)
  BY SMTT(40), <1>2, <1>3, <1>4, EmitGood
<1> QED
  BY <1>1, <1>5

LEMMA OperandGood ==
  ASSUME NEW d, NEW decl, NEW n, Good(d, decl, n), NEW e, e = Operand(d)
  PROVE  Good(e, decl, n) /\ Flagged(d, e)
<1>1. d \in Compilation
  BY DEF Good
<1>2. PICK b \in BOOLEAN : b = FALSE
  OBVIOUS
<1>3. e = [d EXCEPT !.operand = b, !.start = b]
  BY <1>2 DEF Operand
<1>4. Flagged(d, e)
  BY <1>1, <1>3, ExpectKeeps
<1> QED
  BY <1>4, FlaggedGood

LEMMA FlagGood ==
  ASSUME NEW d, NEW decl, NEW n, Good(d, decl, n), NEW b \in BOOLEAN
  PROVE  /\ Good([d EXCEPT !.operand = b], decl, n) /\ Good([d EXCEPT !.start = b], decl, n)
         /\ Good([d EXCEPT !.assignment = b], decl, n) /\ Good([d EXCEPT !.assigned = b], decl, n)
         /\ Good([d EXCEPT !.declaration = b], decl, n) /\ Good([d EXCEPT !.deferred = b], decl, n)
<1>1. d \in Compilation
  BY DEF Good
<1>2. /\ Flagged(d, [d EXCEPT !.operand = b]) /\ Flagged(d, [d EXCEPT !.start = b])
      /\ Flagged(d, [d EXCEPT !.assignment = b]) /\ Flagged(d, [d EXCEPT !.assigned = b])
      /\ Flagged(d, [d EXCEPT !.declaration = b]) /\ Flagged(d, [d EXCEPT !.deferred = b])
  BY <1>1, FlagKeeps
<1> QED
  BY <1>2, FlaggedGood

\* An operation with a spelling of the language.
LEMMA SpelledOp ==
  ASSUME NEW kind \in Kinds, kind \notin {"captured_value", "jump", "branch_false", "branch_true"},
         NEW w \in Spellings \cup {NoName}, NEW S, NEW decl, NEW op, op = Operation(kind, w)
  PROVE  op \in Op /\ Plainly(op) /\ KnownIn(S, decl, op.word)
<1>1. w \in Tokens \cup {NoName} /\ KnownIn(S, decl, w)
  BY SpellingsKnown
<1>2. op \in Op /\ op.kind = kind /\ op.word = w /\ op.target = 0
  BY <1>1, OperationIs
<1> QED
  BY <1>1, <1>2 DEF Plainly, IsBranch

LEMMA PushGood ==
  ASSUME NEW d, NEW decl, NEW n, Good(d, decl, n), NEW p \in Pending, KnownIn(Scope(d), decl, p.call),
         NEW e, e = [d EXCEPT !.pending = Append(@, p)]
  PROVE  /\ Good(e, decl, n) /\ e.operations = d.operations
         /\ e.pending = Append(d.pending, p) /\ e.conditionals = d.conditionals /\ e.roots = d.roots
         /\ e.definition = d.definition /\ e.enclosing = d.enclosing /\ e.held = d.held
         /\ e.open = d.open /\ e.call = d.call /\ Scope(e) = Scope(d)
<1>0. d \in Compilation /\ d.pending \in Seq(Pending) /\ d.conditionals \in Seq(Unclosed)
  BY DEF Good, Compilation
<1>1. PICK q : q = Append(d.pending, p)
  OBVIOUS
<1>2. /\ q \in Seq(Pending) /\ Len(q) = Len(d.pending) + 1 /\ q[Len(q)] = p
      /\ \A i \in DOMAIN d.pending : q[i] = d.pending[i]
      /\ \A i \in DOMAIN q : i \in DOMAIN d.pending \/ i = Len(q)
  BY <1>0, <1>1
<1>3. ASSUME NEW i \in DOMAIN d.conditionals
      PROVE  d.conditionals[i].boundary < Len(q) /\ IsGroup(q[d.conditionals[i].boundary + 1])
  <2>1. d.conditionals[i] \in Unclosed
    BY <1>0
  <2>2. PICK b \in Nat : b = d.conditionals[i].boundary
    BY <2>1 DEF Unclosed
  <2>3. b < Len(d.pending) /\ IsGroup(d.pending[b + 1])
    BY <2>2 DEF Good, Nested
  <2>4. b + 1 \in DOMAIN d.pending
    BY <1>0, <2>3
  <2> QED BY <1>0, <1>2, <2>2, <2>3, <2>4
<1>4. Nested(q, d.conditionals)
  BY <1>3 DEF Nested, Good
<1>5. \A i \in DOMAIN q : KnownIn(Scope(d), decl, q[i].call)
  BY <1>2 DEF Good, WordsIn
<1>6. e = [d EXCEPT !.pending = q]
  BY <1>1
<1>7. /\ Good(e, decl, n) /\ e.operations = d.operations
      /\ e.pending = q /\ e.conditionals = d.conditionals /\ e.roots = d.roots
      /\ e.definition = d.definition /\ e.enclosing = d.enclosing /\ e.held = d.held
      /\ e.open = d.open /\ e.call = d.call /\ Scope(e) = Scope(d)
  BY <1>2, <1>4, <1>5, <1>6, PendingGood
<1> QED
  BY <1>1, <1>7

LEMMA GroupIs ==
  ASSUME NEW w \in Tokens \cup {NoName}, NEW from \in Nat
  PROVE  Group(w, from) \in Pending /\ Group(w, from).call = w /\ IsGroup(Group(w, from))
BY DEF Group, Pending, IsGroup

\* A group is pushed, and an operand expected.
LEMMA PushedGood ==
  ASSUME NEW decl, NEW n, Good(c, decl, n), NEW p \in Pending, KnownIn(Scope(c), decl, p.call),
         NEW e, e = Pushed(p)
  PROVE  /\ Good(e, decl, n) /\ e.operations = c.operations
         /\ e.pending = Append(c.pending, p) /\ e.conditionals = c.conditionals /\ e.roots = c.roots
         /\ e.definition = c.definition /\ e.enclosing = c.enclosing /\ e.held = c.held
         /\ e.open = c.open /\ e.call = c.call /\ Scope(e) = Scope(c)
<1>1. PICK d : d = [c EXCEPT !.pending = Append(@, p)]
  OBVIOUS
<1>2. PICK b \in BOOLEAN : b = TRUE
  OBVIOUS
<1>3. e = [d EXCEPT !.operand = b, !.start = b]
  BY <1>1, <1>2 DEF Pushed
<1>4. /\ Good(d, decl, n) /\ d.operations = c.operations
      /\ d.pending = Append(c.pending, p) /\ d.conditionals = c.conditionals /\ d.roots = c.roots
      /\ d.definition = c.definition /\ d.enclosing = c.enclosing /\ d.held = c.held
      /\ d.open = c.open /\ d.call = c.call /\ Scope(d) = Scope(c)
  BY <1>1, PushGood
<1>5. Flagged(d, e)
  BY <1>3, <1>4, ExpectKeeps DEF Good
<1>6. Good(e, decl, n)
  BY <1>4, <1>5, FlaggedGood
<1>7. Scope(e) = Scope(d)
  BY <1>5 DEF Scope, Flagged, Alike
<1> QED
  BY <1>4, <1>5, <1>6, <1>7 DEF Flagged, Alike

LEMMA ReturnKeeps ==
  ASSUME Inv, NEW t, Return(t)
  PROVE  Inv'
<1>1. CASE Unsupported
  BY <1>1, UnsupportedKeeps
<1>2. CASE Compile([Emit(c, <<Operation("return_value", NoName)>>) EXCEPT !.operand = FALSE]) /\ UNCHANGED session
  <2>1. PICK op : op = Operation("return_value", NoName)
    OBVIOUS
  <2>2. PICK e : e = Emit(c, <<op>>)
    OBVIOUS
  <2>3. op \in Op /\ Plainly(op) /\ KnownIn(Scope(c), declared, op.word)
    BY <2>1, SpelledOp DEF Kinds
  <2>4. Good(e, declared, functions)
    BY <2>2, <2>3, EmitOne DEF Inv
  <2>5. PICK d : d = [e EXCEPT !.operand = FALSE]
    OBVIOUS
  <2>6. Good(d, declared, functions)
    BY <2>4, <2>5, FlagGood
  <2>7. Compile(d)
    BY <1>2, <2>1, <2>2, <2>5
  <2> QED BY <1>2, <2>6, <2>7, Settled
<1> QED
  BY <1>1, <1>2 DEF Return

LEMMA CallTokenKeeps ==
  ASSUME Inv, NEW t, CallToken(t)
  PROVE  Inv'
<1>0. /\ Good(c, declared, functions) /\ c \in Compilation /\ c.call # NoName
      /\ c.call \in Calls \cup Primitives \cup {NoName}
  BY DEF Inv, Good, Compilation, CallToken
<1>1. CASE Unsupported
  BY <1>1, UnsupportedKeeps
<1>2. CASE UNCHANGED session /\ c.call \in Primitives /\ Compile([Pushed(Group(c.call, 0)) EXCEPT !.call = NoName])
  <2>1. PICK w \in Tokens \cup {NoName} : w = c.call /\ KnownIn(Scope(c), declared, w)
    BY <1>2, SpellingsKnown DEF Spellings, Resident
  <2>2. PICK p : p = Group(w, 0)
    OBVIOUS
  <2>3. p \in Pending /\ p.call = w
    BY <2>2, GroupIs
  <2>4. PICK e : e = Pushed(p)
    OBVIOUS
  <2>5. Good(e, declared, functions) /\ e.open = c.open
    BY <1>0, <2>1, <2>3, <2>4, PushedGood
  <2>6. PICK d : d = [e EXCEPT !.call = NoName]
    OBVIOUS
  <2>7. ~c.open
    BY <1>0, <1>2 DEF Good, Calls, Primitives, Compilation
  <2>8. d \in Compilation /\ Alike(e, d) /\ d.open = e.open
    BY <2>5, <2>6, CallSet DEF Good
  <2>9. Good(d, declared, functions)
    BY <2>5, <2>7, <2>8, AlikeGood
  <2>10. Compile(d)
    BY <1>2, <2>1, <2>2, <2>4, <2>6
  <2> QED BY <1>2, <2>9, <2>10, Settled
<1>3. CASE UNCHANGED session /\ c.call \notin Primitives /\ Compile([c EXCEPT !.open = TRUE])
  <2>1. PICK d : d = [c EXCEPT !.open = TRUE]
    OBVIOUS
  <2>2. d \in Compilation /\ Alike(c, d) /\ d.call = c.call
    BY <1>0, <2>1, OpenSet
  <2>3. Good(d, declared, functions)
    BY <1>0, <1>3, <2>2, AlikeGood
  <2> QED BY <1>3, <2>1, <2>3, Settled
<1>4. CASE /\ UNCHANGED session /\ c.call \notin Primitives
           /\ Compile([Operand(Emit(c, <<Operation(c.call, NoName)>>)) EXCEPT !.call = NoName, !.open = FALSE])
  <2>1. PICK op : op = Operation(c.call, NoName)
    OBVIOUS
  <2>2. c.call \in Kinds /\ c.call \notin {"captured_value", "jump", "branch_false", "branch_true"}
    BY <1>0, <1>4 DEF Kinds, Calls
  <2>3. op \in Op /\ Plainly(op) /\ KnownIn(Scope(c), declared, op.word)
    BY <2>1, <2>2, SpelledOp
  <2>4. PICK e : e = Emit(c, <<op>>)
    OBVIOUS
  <2>5. Good(e, declared, functions)
    BY <1>0, <2>3, <2>4, EmitOne
  <2>6. PICK f : f = Operand(e)
    OBVIOUS
  <2>7. Good(f, declared, functions)
    BY <2>5, <2>6, OperandGood
  <2>8. PICK g : g = [f EXCEPT !.call = NoName]
    OBVIOUS
  <2>9. g \in Compilation /\ Alike(f, g)
    BY <2>7, <2>8, CallSet DEF Good
  <2>10. PICK d : d = [g EXCEPT !.open = FALSE]
    OBVIOUS
  <2>11. d \in Compilation /\ Alike(g, d) /\ d.open = FALSE
    BY <2>9, <2>10, OpenSet
  <2>12. Good(d, declared, functions)
    BY <2>7, <2>9, <2>11, AlikeGood DEF Alike
  <2>13. Compile(d)
    BY <1>4, <2>1, <2>4, <2>6, <2>8, <2>10
  <2> QED BY <1>4, <2>12, <2>13, Settled
<1> QED
  BY <1>1, <1>2, <1>3, <1>4 DEF CallToken

LEMMA VarsKeeps ==
  ASSUME Inv, NEW t, Vars(t)
  PROVE  Inv'
<1>1. PICK d : d = [c EXCEPT !.declaration = TRUE]
  OBVIOUS
<1>2. Good(d, declared, functions)
  BY <1>1, FlagGood DEF Inv
<1> QED
  BY <1>1, <1>2, Settled DEF Vars

LEMMA NumberKeeps ==
  ASSUME Inv, NEW t, Number(t)
  PROVE  Inv'
<1>1. CASE Recover
  BY <1>1, RecoverKeeps
<1>2. CASE Compile(Operand(Emit(c, <<Operation("constant", NoName)>>))) /\ UNCHANGED session
  <2>1. PICK op : op = Operation("constant", NoName)
    OBVIOUS
  <2>2. PICK e : e = Emit(c, <<op>>)
    OBVIOUS
  <2>3. op \in Op /\ Plainly(op) /\ KnownIn(Scope(c), declared, op.word)
    BY <2>1, SpelledOp DEF Kinds
  <2>4. Good(e, declared, functions)
    BY <2>2, <2>3, EmitOne DEF Inv
  <2>5. PICK d : d = Operand(e)
    OBVIOUS
  <2>6. Good(d, declared, functions)
    BY <2>4, <2>5, OperandGood
  <2>7. Compile(d)
    BY <1>2, <2>1, <2>2, <2>5
  <2> QED BY <1>2, <2>6, <2>7, Settled
<1> QED
  BY <1>1, <1>2 DEF Number

LEMMA ArrowOrCommaKeeps ==
  ASSUME Inv, NEW t, ArrowOrComma(t)
  PROVE  Inv'
<1>0. PICK e : e = Drained
  OBVIOUS
<1>1. Good(e, declared, functions)
  BY <1>0, DrainedGood DEF Inv
<1>2. CASE Recover
  BY <1>2, RecoverKeeps
<1>3. CASE UNCHANGED session /\ Compile([Drained EXCEPT !.assignment = TRUE, !.assigned = FALSE])
  <2>1. PICK f : f = [e EXCEPT !.assignment = TRUE]
    OBVIOUS
  <2>2. Good(f, declared, functions)
    BY <1>1, <2>1, FlagGood
  <2>3. PICK d : d = [f EXCEPT !.assigned = FALSE]
    OBVIOUS
  <2>4. Good(d, declared, functions)
    BY <2>2, <2>3, FlagGood
  <2>5. Compile(d)
    BY <1>0, <1>3, <2>1, <2>3
  <2> QED BY <1>3, <2>4, <2>5, Settled
<1>4. CASE UNCHANGED session /\ Compile([Drained EXCEPT !.operand = TRUE, !.start = TRUE])
  <2>1. PICK f : f = [e EXCEPT !.operand = TRUE]
    OBVIOUS
  <2>2. Good(f, declared, functions)
    BY <1>1, <2>1, FlagGood
  <2>3. PICK d : d = [f EXCEPT !.start = TRUE]
    OBVIOUS
  <2>4. Good(d, declared, functions)
    BY <2>2, <2>3, FlagGood
  <2>5. Compile(d)
    BY <1>0, <1>4, <2>1, <2>3
  <2> QED BY <1>4, <2>4, <2>5, Settled
<1> QED
  BY <1>2, <1>3, <1>4 DEF ArrowOrComma

LEMMA TighterLoose ==
  ASSUME NEW p, c.pending \in Seq(Pending)
  PROVE  Tighter(p) \in 0 .. Loose
<1> DEFINE S == {k \in 0 .. Loose : k = Loose \/ Priority[c.pending[Len(c.pending) - k].operator] > p}
<1>1. Loose \in Nat
  BY LooseIs
<1>2. S \in SUBSET Nat /\ Loose \in S
  BY <1>1
<1>3. Tighter(p) = Least(S)
  BY DEF Tighter
<1>4. Least(S) \in S
  <2> HIDE DEF S
  <2> QED BY <1>2, LeastIs
<1> QED
  BY <1>3, <1>4

LEMMA OperatorKeeps ==
  ASSUME Inv, NEW t, Operator(t)
  PROVE  Inv'
<1>0. Good(c, declared, functions) /\ c.pending \in Seq(Pending) /\ c.start \in BOOLEAN
  BY DEF Inv, Good, Compilation
<1>1. CASE UNCHANGED session /\ Compile([c EXCEPT !.deferred = TRUE])
  <2>1. PICK d : d = [c EXCEPT !.deferred = TRUE]
    OBVIOUS
  <2>2. Good(d, declared, functions)
    BY <1>0, <2>1, FlagGood
  <2> QED BY <1>1, <2>1, <2>2, Settled
<1>2. CASE /\ UNCHANGED session
           /\ Compile([Drain(Tighter(Priority[t])) EXCEPT
                         !.pending = Append(@, [operator |-> t, unary |-> c.start /\ t = "+", call |-> NoName, from |-> 0]),
                         !.operand = TRUE, !.start = FALSE])
  <2>1. PICK e, k : k = Tighter(Priority[t]) /\ e = Drain(k)
    OBVIOUS
  <2>2. k \in 0 .. Loose
    BY <1>0, <2>1, TighterLoose
  <2>3. Good(e, declared, functions)
    BY <1>0, <2>1, <2>2, DrainGood
  <2>4. PICK b \in BOOLEAN : b = (c.start /\ t = "+")
    OBVIOUS
  <2>5. PICK p : p = [operator |-> t, unary |-> b, call |-> NoName, from |-> 0]
    OBVIOUS
  <2>6. p \in Pending /\ p.call = NoName
    BY <2>5 DEF Operator, Pending
  <2>7. KnownIn(Scope(e), declared, p.call)
    BY <2>6, SpellingsKnown
  <2>8. PICK f : f = [e EXCEPT !.pending = Append(@, p)]
    OBVIOUS
  <2>9. Good(f, declared, functions)
    BY <2>3, <2>6, <2>7, <2>8, PushGood
  <2>10. PICK g : g = [f EXCEPT !.operand = TRUE]
    OBVIOUS
  <2>11. Good(g, declared, functions)
    BY <2>9, <2>10, FlagGood
  <2>12. PICK d : d = [g EXCEPT !.start = FALSE]
    OBVIOUS
  <2>13. Good(d, declared, functions)
    BY <2>11, <2>12, FlagGood
  <2>14. d = [e EXCEPT !.pending = Append(@, p), !.operand = TRUE, !.start = FALSE]
    BY <2>8, <2>10, <2>12
  <2>15. Compile(d)
    BY <1>2, <2>1, <2>4, <2>5, <2>14
  <2> QED BY <1>2, <2>13, <2>15, Settled
<1> QED
  BY <1>1, <1>2 DEF Operator

LEMMA ResidentNameKeeps ==
  ASSUME Inv, NEW t, ResidentName(t)
  PROVE  Inv'
<1>0. Good(c, declared, functions) /\ c \in Compilation
  BY DEF Inv, Good
<1>1. CASE Unsupported
  BY <1>1, UnsupportedKeeps
<1>2. CASE Recover
  BY <1>2, RecoverKeeps
<1>3. CASE t \in Calls \cup Primitives /\ UNCHANGED session /\ Compile([c EXCEPT !.call = t])
  <2>1. PICK d : d = [c EXCEPT !.call = t]
    OBVIOUS
  <2>2. c.call = NoName /\ ~c.open
    <3>1. c.call = NoName
      BY DEF ResidentName, Term, Plain, Free
    <3>2. c.call \notin Calls
      BY <3>1 DEF Calls, NoName
    <3>3. c.open => c.call \in Calls
      BY <1>0 DEF Good
    <3> QED BY <3>1, <3>2, <3>3
  <2>3. d \in Compilation /\ Alike(c, d) /\ d.open = c.open
    BY <1>0, <1>3, <2>1, CallSet
  <2>4. Good(d, declared, functions)
    BY <1>0, <2>2, <2>3, AlikeGood
  <2> QED BY <1>3, <2>1, <2>4, Settled
<1>4. CASE UNCHANGED session /\ Compile([c EXCEPT !.deferred = TRUE])
  <2>1. PICK d : d = [c EXCEPT !.deferred = TRUE]
    OBVIOUS
  <2>2. Good(d, declared, functions)
    BY <1>0, <2>1, FlagGood
  <2> QED BY <1>4, <2>1, <2>2, Settled
<1>5. CASE /\ t \in Literals /\ UNCHANGED session
           /\ Compile(Operand(Emit(c, <<Operation(IF t = "TRUE" THEN "constant" ELSE "load", t)>>)))
  <2>0. PICK kind \in {"constant", "load"} : kind = IF t = "TRUE" THEN "constant" ELSE "load"
    OBVIOUS
  <2>1. PICK op : op = Operation(kind, t)
    OBVIOUS
  <2>2. PICK e : e = Emit(c, <<op>>)
    OBVIOUS
  <2>3. t \in Spellings
    BY DEF ResidentName, Spellings
  <2>4. op \in Op /\ Plainly(op) /\ KnownIn(Scope(c), declared, op.word)
    BY <2>1, <2>3, SpelledOp DEF Kinds
  <2>5. Good(e, declared, functions)
    BY <1>0, <2>2, <2>4, EmitOne
  <2>6. PICK d : d = Operand(e)
    OBVIOUS
  <2>7. Good(d, declared, functions)
    BY <2>5, <2>6, OperandGood
  <2>8. Compile(d)
    BY <1>5, <2>0, <2>1, <2>2, <2>6
  <2> QED BY <1>5, <2>7, <2>8, Settled
<1> QED
  BY <1>1, <1>2, <1>3, <1>4, <1>5 DEF ResidentName

LEMMA Started ==
  ASSUME Inv, NEW d, Begin(d), Good(d, declared, functions), UNCHANGED session,
         Len(d.pending) <= Len(c.pending)
  PROVE  Inv'
<1>1. declared' = declared /\ functions' = functions /\ comment' = comment /\ state' = state
  BY DEF session
<1>2. Good(d, declared', functions')
  BY <1>1
<1>3. Len(d.pending) <= MaxPending
  <2>1. c.pending \in Seq(Pending) /\ d.pending \in Seq(Pending) /\ Len(c.pending) <= MaxPending
    BY DEF Inv, Good, Compilation, Bounded
  <2>2. Len(c.pending) \in Nat /\ Len(d.pending) \in Nat
    BY <2>1
  <2> QED BY <2>1, <2>2, AlphabetAssumption
<1>4. Good(c', declared', functions') /\ Bounded(c')
  BY <1>2, <1>3, BeginKeeps
<1>5. Rest'
  BY <1>1 DEF Inv, Rest
<1> QED
  BY <1>4, <1>5 DEF Inv

LEMMA FaultyKeeps ==
  ASSUME Inv, NEW t, Faulty(t) \/ Assigned(t)
  PROVE  Inv'
BY RecoverKeeps DEF Faulty, Assigned

LEMMA RefusedKeeps ==
  ASSUME Inv, NEW t, NotCode(t) \/ NoStorage(t) \/ Misplaced(t)
  PROVE  Inv'
BY UnsupportedKeeps DEF NotCode, NoStorage, Misplaced

LEMMA CommentKeeps ==
  ASSUME Inv, NEW t, Comment(t)
  PROVE  Inv'
<1>1. c' = c /\ declared' = declared /\ functions' = functions /\ Rest'
  BY DEF Comment, Inv, Rest
<1>2. Good(c, declared, functions) /\ Bounded(c)
  BY DEF Inv
<1> QED
  BY <1>1, <1>2 DEF Inv

LEMMA EndOfInputKeeps ==
  ASSUME Inv, EndOfInput
  PROVE  Inv'
<1>1. c' = Fresh /\ Rest'
  BY DEF EndOfInput, Inv, Rest
<1> QED
  BY <1>1, Recovered

\* Code, conditionals and what is pending change together.
LEMMA RebuiltGood ==
  ASSUME NEW d, NEW decl, NEW n, Good(d, decl, n), NEW e \in Compilation,
         e.roots = d.roots /\ e.definition = d.definition /\ e.enclosing = d.enclosing /\ e.held = d.held,
         e.open = d.open /\ e.call = d.call,
         Program(e.operations, d.roots, e.conditionals), Opened(e.operations, e.conditionals),
         Nested(e.pending, e.conditionals),
         \A i \in DOMAIN e.operations : KnownIn(Scope(d), decl, e.operations[i].word),
         \A i \in DOMAIN e.pending : KnownIn(Scope(d), decl, e.pending[i].call)
  PROVE  Good(e, decl, n) /\ Scope(e) = Scope(d)
<1>1. Scope(e) = Scope(d)
  BY DEF Scope
<1>2. WordsIn(e, decl)
  BY <1>1 DEF WordsIn
<1> QED
  BY <1>1, <1>2 DEF Good, Defined, Held

\* A conditional that remembers nothing yet has the group just pushed.
LEMMA InnerGood ==
  ASSUME NEW d, NEW decl, NEW n, Good(d, decl, n), NEW k \in Unclosed, Remembered(k) = {}, k.phase = "condition",
         NEW m \in Nat, k.boundary = m, Len(d.pending) = m + 1, IsGroup(d.pending[m + 1]),
         \A j \in DOMAIN d.conditionals : d.conditionals[j].boundary < m,
         NEW e, e = [d EXCEPT !.conditionals = Append(@, k)]
  PROVE  Good(e, decl, n)
<1>0. d \in Compilation /\ d.conditionals \in Seq(Unclosed)
  BY DEF Good, Compilation
<1>1. PICK K : K = Append(d.conditionals, k)
  OBVIOUS
<1>2. PICK l \in Nat : l = Len(d.conditionals)
  BY <1>0
<1>3. /\ K \in Seq(Unclosed) /\ Len(K) = l + 1 /\ K[l + 1] = k
      /\ \A j \in 1 .. l : K[j] = d.conditionals[j]
      /\ DOMAIN K = 1 .. l + 1 /\ DOMAIN d.conditionals = 1 .. l
  BY <1>0, <1>1, <1>2
<1>4. /\ e \in Compilation /\ e.conditionals = K
      /\ e.roots = d.roots /\ e.operations = d.operations /\ e.pending = d.pending
      /\ e.definition = d.definition /\ e.enclosing = d.enclosing /\ e.held = d.held
      /\ e.open = d.open /\ e.call = d.call
  <2>1. e = [d EXCEPT !.conditionals = K]
    BY <1>1
  <2>2. d \in Compilation
    BY <1>0
  <2>3. K \in Seq(Unclosed)
    BY <1>3
  <2> QED BY <2>1, <2>2, <2>3, ConditionalsSet DEF Compilation
<1>5. Program(d.operations, d.roots, K)
  <2>1. ASSUME NEW i, NEW j \in DOMAIN d.conditionals, i \in Remembered(d.conditionals[j])
        PROVE  \E x \in DOMAIN K : i \in Remembered(K[x])
    BY <1>3, <2>1
  <2> QED BY <2>1 DEF Good, Program
<1>6. Opened(d.operations, K)
  <2>1. Remembers(d.operations, k)
    BY DEF Remembers, Remembered
  <2>2. ASSUME NEW j \in DOMAIN K PROVE Remembers(d.operations, K[j])
    <3>1. CASE j = l + 1
      BY <1>3, <2>1, <3>1
    <3>2. CASE j \in 1 .. l
      BY <1>3, <3>2 DEF Good, Opened
    <3> QED BY <1>3, <3>1, <3>2
  <2>3. ASSUME NEW j \in DOMAIN K, NEW i \in Remembered(K[j]), NEW x \in DOMAIN K \ {j}
        PROVE  i \notin Remembered(K[x])
    <3>1. CASE j = l + 1 \/ x = l + 1
      BY <1>3, <2>3, <3>1
    <3>2. CASE j \in 1 .. l /\ x \in 1 .. l
      BY <1>3, <2>3, <3>2 DEF Good, Opened
    <3> QED BY <1>3, <3>1, <3>2
  <2> QED BY <2>2, <2>3 DEF Opened
<1>7. Nested(d.pending, K)
  <2>1. ASSUME NEW i \in DOMAIN K
        PROVE  /\ Phased(K[i]) /\ K[i].boundary < Len(d.pending) /\ IsGroup(d.pending[K[i].boundary + 1])
               /\ \A j \in 1 .. i - 1 : K[j].boundary < K[i].boundary
    <3>1. CASE i = l + 1
      <4>1. Phased(k)
        BY DEF Phased, Remembered
      <4>2. \A j \in 1 .. l : K[j].boundary < m
        BY <1>3
      <4> QED BY <1>3, <3>1, <4>1, <4>2
    <3>2. CASE i \in 1 .. l
      <4>1. \A j \in 1 .. i - 1 : j \in 1 .. l
        BY <1>2, <3>2
      <4> QED BY <1>3, <3>2, <4>1 DEF Good, Nested
    <3> QED BY <1>3, <3>1, <3>2
  <2> QED BY <2>1 DEF Nested
<1> QED
  BY ZenonT(60), <1>4, <1>5, <1>6, <1>7, RebuiltGood DEF Good, WordsIn

LEMMA IfKeeps ==
  ASSUME Inv, NEW t, If(t)
  PROVE  Inv'
<1>0. /\ Good(c, declared, functions) /\ c \in Compilation /\ c.pending \in Seq(Pending)
      /\ c.conditionals \in Seq(Unclosed)
  BY DEF Inv, Good, Compilation
<1>1. CASE Unsupported
  BY <1>1, UnsupportedKeeps
<1>2. CASE /\ UNCHANGED session
           /\ Compile([Pushed(Group(NoName, 0)) EXCEPT !.conditionals =
               Append(@, [boundary |-> Len(c.pending), phase |-> "condition", falseBranch |-> {},
                          exits |-> {}, falseTerms |-> {}, trueTerms |-> {}])])
  <2>1. PICK p : p = Group(NoName, 0)
    OBVIOUS
  <2>2. p \in Pending /\ p.call = NoName /\ IsGroup(p)
    BY <2>1, GroupIs
  <2>3. KnownIn(Scope(c), declared, p.call)
    BY <2>2, SpellingsKnown
  <2>4. PICK e : e = Pushed(p)
    OBVIOUS
  <2>5. /\ Good(e, declared, functions) /\ e.operations = c.operations
        /\ e.pending = Append(c.pending, p) /\ e.conditionals = c.conditionals /\ e.roots = c.roots
        /\ e.definition = c.definition /\ e.enclosing = c.enclosing /\ e.held = c.held
        /\ e.open = c.open /\ e.call = c.call /\ Scope(e) = Scope(c)
    BY <1>0, <2>2, <2>3, <2>4, PushedGood
  <2>6. PICK m \in Nat : m = Len(c.pending)
    BY <1>0
  <2>7. PICK k : k = [boundary |-> m, phase |-> "condition", falseBranch |-> {},
                          exits |-> {}, falseTerms |-> {}, trueTerms |-> {}]
    OBVIOUS
  <2>8. k \in Unclosed /\ Remembered(k) = {} /\ k.boundary = m
    BY <2>7 DEF Unclosed, Phases, Remembered
  <2>9. PICK K : K = Append(c.conditionals, k)
    OBVIOUS
  <2>10. PICK d : d = [e EXCEPT !.conditionals = K]
    OBVIOUS
  <2>11. Compile(d)
    BY <1>2, <2>1, <2>4, <2>5, <2>6, <2>7, <2>9, <2>10
  <2>12. Good(d, declared, functions)
    <3>1. Len(e.pending) = m + 1 /\ e.pending[m + 1] = p
      BY <1>0, <2>2, <2>5, <2>6
    <3>2. \A j \in DOMAIN e.conditionals : e.conditionals[j].boundary < m
      BY <1>0, <2>5, <2>6 DEF Good, Nested
    <3>3. d = [e EXCEPT !.conditionals = Append(@, k)]
      BY <2>5, <2>9, <2>10
    <3>4. k.phase = "condition"
      BY <2>7
    <3> QED BY <2>2, <2>5, <2>8, <3>1, <3>2, <3>3, <3>4, InnerGood
  <2> QED BY <1>2, <2>11, <2>12, Settled
<1> QED
  BY <1>1, <1>2 DEF If

LEMMA FrontIs ==
  ASSUME NEW T, NEW q \in Seq(T), q # <<>>, NEW x \in T
  PROVE  /\ Len(q) \in Nat \ {0} /\ Last(q) = q[Len(q)] /\ Last(q) \in T /\ Len(q) \in DOMAIN q
         /\ Front(q) \in Seq(T) /\ Len(Front(q)) = Len(q) - 1
         /\ \A j \in 1 .. Len(q) - 1 : Front(q)[j] = q[j]
         /\ Append(Front(q), x) \in Seq(T) /\ Len(Append(Front(q), x)) = Len(q)
         /\ Append(Front(q), x)[Len(q)] = x
         /\ \A j \in 1 .. Len(q) - 1 : Append(Front(q), x)[j] = q[j]
<1>1. PICK n \in Nat \ {0} : n = Len(q)
  BY EmptySeq
<1>2. q[n] \in T /\ n \in DOMAIN q /\ Last(q) = q[n]
  BY <1>1 DEF Last
<1>3. PICK f : f = SubSeq(q, 1, n - 1)
  OBVIOUS
<1>4. n - 1 \in 0 .. n /\ f = Front(q)
  BY <1>1, <1>3 DEF Front
<1>5. f \in Seq(T) /\ Len(f) = n - 1 /\ \A j \in 1 .. n - 1 : f[j] = q[j]
  BY <1>1, <1>3, <1>4
<1>6. PICK a : a = Append(f, x)
  OBVIOUS
<1>7. a \in Seq(T) /\ Len(a) = n /\ a[n] = x /\ \A j \in 1 .. n - 1 : a[j] = f[j]
  BY <1>1, <1>5, <1>6
<1> QED
  BY <1>1, <1>2, <1>4, <1>5, <1>6, <1>7

\* The last conditional is replaced by one with the same group.
LEMMA NestedReplaced ==
  ASSUME NEW q, NEW K \in Seq(Unclosed), NEW L \in Seq(Unclosed), NEW n \in Nat \ {0}, Nested(q, K),
         Len(K) = n, Len(L) = n, \A j \in 1 .. n - 1 : L[j] = K[j],
         L[n].boundary = K[n].boundary, Phased(L[n])
  PROVE  Nested(q, L)
<1>1. \A j \in DOMAIN L : j \in DOMAIN K /\ L[j].boundary = K[j].boundary /\ (j # n => L[j] = K[j])
  OBVIOUS
<1>2. ASSUME NEW i \in DOMAIN L
      PROVE  /\ Phased(L[i]) /\ L[i].boundary < Len(q) /\ IsGroup(q[L[i].boundary + 1])
             /\ \A j \in 1 .. i - 1 : L[j].boundary < L[i].boundary
  <2>1. Phased(L[i])
    BY <1>1, <1>2 DEF Nested
  <2>2. \A j \in 1 .. i - 1 : j \in DOMAIN L
    BY <1>2
  <2> QED BY <1>1, <1>2, <2>1, <2>2 DEF Nested
<1> QED
  BY <1>2 DEF Nested

\* A branch is emitted that the last conditional remembers.
Branched(d, kind, op, k, ext, e) ==
  /\ kind \in {"jump", "branch_false", "branch_true"} /\ op = Operation(kind, NoName)
  /\ Emitted(d.operations, op, ext) /\ e = Replaced(Emit(d, <<op>>), k)
  /\ k \in Unclosed /\ k.boundary = Last(d.conditionals).boundary /\ Phased(k) /\ Remembers(ext, k)
  /\ Remembered(k) = Remembered(Last(d.conditionals)) \cup {Len(d.operations) + 1}

LEMMA BranchGood ==
  ASSUME NEW d, NEW decl, NEW n, Good(d, decl, n), d.conditionals # <<>>,
         NEW kind, NEW k, NEW op, NEW ext, NEW e, Branched(d, kind, op, k, ext, e)
  PROVE  /\ Good(e, decl, n) /\ e.operations = ext /\ e.conditionals # <<>> /\ Last(e.conditionals) = k
         /\ e.pending = d.pending /\ e.conditionals = Append(Front(d.conditionals), k) /\ e.roots = d.roots
         /\ e.definition = d.definition /\ e.enclosing = d.enclosing /\ e.held = d.held
         /\ e.open = d.open /\ e.call = d.call /\ Scope(e) = Scope(d)
<1>a. /\ kind \in {"jump", "branch_false", "branch_true"} /\ op = Operation(kind, NoName)
      /\ Emitted(d.operations, op, ext) /\ e = Replaced(Emit(d, <<op>>), k)
      /\ k \in Unclosed /\ k.boundary = Last(d.conditionals).boundary /\ Phased(k) /\ Remembers(ext, k)
      /\ Remembered(k) = Remembered(Last(d.conditionals)) \cup {Len(d.operations) + 1}
  BY DEF Branched
<1>0. d \in Compilation /\ d.conditionals \in Seq(Unclosed) /\ d.operations \in Seq(Op) /\ d.roots \in Seq(Nat)
  BY DEF Good, Compilation
<1>1. PICK K, m, L : K = d.conditionals /\ m = Len(K) /\ L = Append(Front(K), k)
  OBVIOUS
<1>2. /\ m \in Nat \ {0} /\ Last(K) = K[m] /\ m \in DOMAIN K /\ K \in Seq(Unclosed)
      /\ L \in Seq(Unclosed) /\ Len(L) = m /\ L[m] = k /\ \A j \in 1 .. m - 1 : L[j] = K[j]
  <2>1. K \in Seq(Unclosed) /\ K # <<>>
    BY <1>0, <1>1
  <2>2. /\ Len(K) \in Nat \ {0} /\ Last(K) = K[Len(K)] /\ Len(K) \in DOMAIN K
        /\ Append(Front(K), k) \in Seq(Unclosed) /\ Len(Append(Front(K), k)) = Len(K)
        /\ Append(Front(K), k)[Len(K)] = k
        /\ \A j \in 1 .. Len(K) - 1 : Append(Front(K), k)[j] = K[j]
    BY <1>a, <2>1, FrontIs
  <2> QED BY <1>1, <2>1, <2>2
<1>3. op \in Op /\ op.kind = kind /\ op.word = NoName /\ op.target = 0
  <2>1. kind \in Kinds /\ NoName \in Tokens \cup {NoName}
    BY <1>a DEF Kinds
  <2> QED BY <1>a, <2>1, OperationIs
<1>6. /\ ext \in Seq(Op) /\ Len(ext) = Len(d.operations) + 1
      /\ Extends(ext, d.operations) /\ ext[Len(d.operations) + 1] = op
      /\ \A i \in DOMAIN ext : i \in DOMAIN d.operations \/ i = Len(d.operations) + 1
  BY <1>0, <1>a, <1>3, EmittedIs
<1>7. PICK f : f = [d EXCEPT !.operations = ext]
  OBVIOUS
<1>8. /\ f \in Compilation /\ f.operations = ext
      /\ f.roots = d.roots /\ f.pending = d.pending /\ f.conditionals = d.conditionals
      /\ f.definition = d.definition /\ f.enclosing = d.enclosing /\ f.held = d.held
      /\ f.open = d.open /\ f.call = d.call
  <2>1. d \in Compilation
    BY <1>0
  <2>2. ext \in Seq(Op)
    BY <1>6
  <2> QED BY <1>7, <2>1, <2>2, OperationsSet DEF Compilation
<1>9. e = [f EXCEPT !.conditionals = L]
  <2>1. f = Emit(d, <<op>>)
    BY <1>a, <1>7 DEF Emit, Emitted
  <2> QED BY <1>a, <1>1, <1>8, <2>1 DEF Replaced
<1>10. /\ e \in Compilation /\ e.conditionals = L
       /\ e.roots = f.roots /\ e.operations = f.operations /\ e.pending = f.pending
       /\ e.definition = f.definition /\ e.enclosing = f.enclosing /\ e.held = f.held
       /\ e.open = f.open /\ e.call = f.call
  BY <1>2, <1>8, <1>9, ConditionalsSet
<1>11. Program(ext, d.roots, L) /\ Opened(ext, L)
  <2>1. IsBranch(ext[Len(ext)]) /\ ext[Len(ext)].target = 0
    BY <1>a, <1>3, <1>6 DEF IsBranch
  <2>2. Remembered(L[m]) = Remembered(K[m]) \cup {Len(ext)} /\ Remembers(ext, L[m])
    BY <1>a, <1>1, <1>2, <1>6
  <2>3. Program(d.operations, d.roots, K) /\ Opened(d.operations, K)
    BY <1>1 DEF Good
  <2>4. m \in Nat /\ m # 0 /\ Len(K) = m
    BY <1>1, <1>2
  <2>5. d.operations \in Seq(Op) /\ d.roots \in Seq(Nat) /\ ext \in Seq(Op)
    BY <1>0, <1>6
  <2>6. Extends(ext, d.operations) /\ Len(ext) = Len(d.operations) + 1
    BY <1>6
  <2>7. K \in Seq(Unclosed) /\ L \in Seq(Unclosed) /\ Len(L) = m /\ \A j \in 1 .. m - 1 : L[j] = K[j]
    BY <1>2
  <2> QED BY <2>1, <2>2, <2>3, <2>4, <2>5, <2>6, <2>7, WaitingProgram
<1>12. Nested(d.pending, L)
  <2>1. Nested(d.pending, K) /\ L[m].boundary = K[m].boundary /\ Phased(L[m]) /\ Len(K) = m
    BY <1>a, <1>1, <1>2 DEF Good
  <2> QED BY <1>2, <2>1, NestedReplaced
<1>13. \A i \in DOMAIN ext : KnownIn(Scope(d), decl, ext[i].word)
  <2>1. KnownIn(Scope(d), decl, op.word)
    BY <1>3, SpellingsKnown
  <2> QED BY <1>6, <2>1 DEF Good, WordsIn, Extends
<1>14. Good(e, decl, n) /\ Scope(e) = Scope(d)
  <2>1. /\ e \in Compilation /\ e.conditionals = L /\ e.operations = ext
        /\ e.roots = d.roots /\ e.pending = d.pending
        /\ e.definition = d.definition /\ e.enclosing = d.enclosing /\ e.held = d.held
        /\ e.open = d.open /\ e.call = d.call
    BY <1>8, <1>10
  <2>2. \A i \in DOMAIN d.pending : KnownIn(Scope(d), decl, d.pending[i].call)
    BY DEF Good, WordsIn
  <2> QED BY <1>11, <1>12, <1>13, <2>1, <2>2, RebuiltGood
<1>15. e.conditionals # <<>> /\ Last(e.conditionals) = k
  BY <1>2, <1>10 DEF Last
<1> QED
  BY <1>1, <1>8, <1>10, <1>14, <1>15

\* The last conditional goes on: it remembers the same.
Reseated(d, k, e) ==
  /\ k \in Unclosed /\ k.boundary = Last(d.conditionals).boundary /\ Phased(k)
  /\ Remembered(k) = Remembered(Last(d.conditionals)) /\ Remembers(d.operations, k) /\ e = Replaced(d, k)

LEMMA ReseatGood ==
  ASSUME NEW d, NEW decl, NEW n, Good(d, decl, n), d.conditionals # <<>>,
         NEW k, NEW e, Reseated(d, k, e)
  PROVE  Good(e, decl, n) /\ e.pending = d.pending
<1>a. /\ k \in Unclosed /\ k.boundary = Last(d.conditionals).boundary /\ Phased(k)
      /\ Remembered(k) = Remembered(Last(d.conditionals)) /\ Remembers(d.operations, k) /\ e = Replaced(d, k)
  BY DEF Reseated
<1>0. d \in Compilation /\ d.conditionals \in Seq(Unclosed)
  BY DEF Good, Compilation
<1>1. PICK K, m, L : K = d.conditionals /\ m = Len(K) /\ L = Append(Front(K), k)
  OBVIOUS
<1>2. /\ m \in Nat \ {0} /\ Last(K) = K[m] /\ m \in DOMAIN K /\ K \in Seq(Unclosed)
      /\ L \in Seq(Unclosed) /\ Len(L) = m /\ L[m] = k /\ \A j \in 1 .. m - 1 : L[j] = K[j]
  <2>1. K \in Seq(Unclosed) /\ K # <<>>
    BY <1>0, <1>1
  <2>2. /\ Len(K) \in Nat \ {0} /\ Last(K) = K[Len(K)] /\ Len(K) \in DOMAIN K
        /\ Append(Front(K), k) \in Seq(Unclosed) /\ Len(Append(Front(K), k)) = Len(K)
        /\ Append(Front(K), k)[Len(K)] = k
        /\ \A j \in 1 .. Len(K) - 1 : Append(Front(K), k)[j] = K[j]
    BY <1>a, <2>1, FrontIs
  <2> QED BY <1>1, <2>1, <2>2
<1>3. e = [d EXCEPT !.conditionals = L]
  BY <1>a, <1>1 DEF Replaced
<1>4. /\ e \in Compilation /\ e.conditionals = L
      /\ e.roots = d.roots /\ e.operations = d.operations /\ e.pending = d.pending
      /\ e.definition = d.definition /\ e.enclosing = d.enclosing /\ e.held = d.held
      /\ e.open = d.open /\ e.call = d.call
  <2>1. d \in Compilation
    BY <1>0
  <2>2. L \in Seq(Unclosed)
    BY <1>2
  <2> QED BY <1>3, <2>1, <2>2, ConditionalsSet DEF Compilation
<1>5. /\ Len(K) = m /\ DOMAIN L = DOMAIN K
      /\ \A j \in DOMAIN L : Remembered(L[j]) = Remembered(K[j]) /\ (j # m => L[j] = K[j])
  BY <1>a, <1>1, <1>2
<1>6. Program(d.operations, d.roots, L)
  BY <1>1, <1>5 DEF Good, Program
<1>7. Opened(d.operations, L)
  <2>1. ASSUME NEW j \in DOMAIN L PROVE Remembers(d.operations, L[j])
    BY <1>a, <1>1, <1>2, <1>5 DEF Good, Opened
  <2>2. Opened(d.operations, K)
    BY <1>1 DEF Good
  <2>3. ASSUME NEW j \in DOMAIN L, NEW i \in Remembered(L[j]), NEW l \in DOMAIN L \ {j}
        PROVE  i \notin Remembered(L[l])
    <3>1. i \in Remembered(K[j]) /\ j \in DOMAIN K /\ l \in DOMAIN K \ {j} /\ Remembered(L[l]) = Remembered(K[l])
      BY <1>5, <2>3
    <3> QED BY <2>2, <3>1 DEF Opened
  <2> QED BY <2>1, <2>3 DEF Opened
<1>8. Nested(d.pending, L)
  <2>1. Nested(d.pending, K) /\ L[m].boundary = K[m].boundary /\ Phased(L[m]) /\ Len(K) = m
    BY <1>a, <1>1, <1>2 DEF Good
  <2> QED BY <1>2, <2>1, NestedReplaced
<1>9. Good(e, decl, n)
  BY <1>4, <1>6, <1>7, <1>8, RebuiltGood DEF Good, WordsIn
<1> QED
  BY <1>4, <1>9

\* The last operation is a label, and branches that the last conditional remembers are led to
\* it: they leave what it remembers.
PatchedTo(d, label, B, k, e) ==
  /\ label = Len(d.operations) /\ d.operations # <<>> /\ d.operations[label].kind = "label"
  /\ B \subseteq Remembered(Last(d.conditionals)) /\ e = Replaced(Patched(d, B, label), k)
  /\ k \in Unclosed /\ k.boundary = Last(d.conditionals).boundary /\ Phased(k)
  /\ Remembered(k) = Remembered(Last(d.conditionals)) \ B /\ Remembers(d.operations, k)

LEMMA PatchGood ==
  ASSUME NEW d, NEW decl, NEW n, Good(d, decl, n), d.conditionals # <<>>,
         NEW label, NEW B, NEW k, NEW e, PatchedTo(d, label, B, k, e)
  PROVE  Good(e, decl, n) /\ e.pending = d.pending
<1>a. /\ label = Len(d.operations) /\ d.operations # <<>> /\ d.operations[label].kind = "label"
      /\ B \subseteq Remembered(Last(d.conditionals)) /\ e = Replaced(Patched(d, B, label), k)
      /\ k \in Unclosed /\ k.boundary = Last(d.conditionals).boundary /\ Phased(k)
      /\ Remembered(k) = Remembered(Last(d.conditionals)) \ B /\ Remembers(d.operations, k)
  BY DEF PatchedTo
<1>0. d \in Compilation /\ d.conditionals \in Seq(Unclosed) /\ d.operations \in Seq(Op) /\ d.roots \in Seq(Nat)
  BY DEF Good, Compilation
<1>1. PICK K, m, L : K = d.conditionals /\ m = Len(K) /\ L = Append(Front(K), k)
  OBVIOUS
<1>2. /\ m \in Nat \ {0} /\ Last(K) = K[m] /\ m \in DOMAIN K /\ K \in Seq(Unclosed)
      /\ L \in Seq(Unclosed) /\ Len(L) = m /\ L[m] = k /\ \A j \in 1 .. m - 1 : L[j] = K[j]
  <2>1. K \in Seq(Unclosed) /\ K # <<>>
    BY <1>0, <1>1
  <2>2. /\ Len(K) \in Nat \ {0} /\ Last(K) = K[Len(K)] /\ Len(K) \in DOMAIN K
        /\ Append(Front(K), k) \in Seq(Unclosed) /\ Len(Append(Front(K), k)) = Len(K)
        /\ Append(Front(K), k)[Len(K)] = k
        /\ \A j \in 1 .. Len(K) - 1 : Append(Front(K), k)[j] = K[j]
    BY <1>a, <2>1, FrontIs
  <2> QED BY <1>1, <2>1, <2>2
<1>3. PICK p : p = PatchedOps(d.operations, B, label)
  OBVIOUS
<1>4. label \in Nat \ {0} /\ label \in DOMAIN d.operations
  BY <1>0, <1>a, EmptySeq
<1>5. /\ p \in Seq(Op) /\ Len(p) = label
      /\ \A i \in DOMAIN d.operations : p[i].word = d.operations[i].word /\ (i \notin B => p[i] = d.operations[i])
      /\ DOMAIN p = DOMAIN d.operations
  BY <1>0, <1>a, <1>3, <1>4, PatchIs
<1>6. PICK f : f = [d EXCEPT !.operations = p]
  OBVIOUS
<1>7. /\ f \in Compilation /\ f.operations = p
      /\ f.roots = d.roots /\ f.pending = d.pending /\ f.conditionals = d.conditionals
      /\ f.definition = d.definition /\ f.enclosing = d.enclosing /\ f.held = d.held
      /\ f.open = d.open /\ f.call = d.call
  <2>1. d \in Compilation
    BY <1>0
  <2>2. p \in Seq(Op)
    BY <1>5
  <2> QED BY <1>6, <2>1, <2>2, OperationsSet DEF Compilation
<1>8. e = [f EXCEPT !.conditionals = L]
  <2>1. f = Patched(d, B, label)
    BY <1>3, <1>6 DEF Patched, PatchedOps
  <2> QED BY <1>a, <1>1, <1>7, <2>1 DEF Replaced
<1>9. /\ e \in Compilation /\ e.conditionals = L
      /\ e.roots = f.roots /\ e.operations = f.operations /\ e.pending = f.pending
      /\ e.definition = f.definition /\ e.enclosing = f.enclosing /\ e.held = f.held
      /\ e.open = f.open /\ e.call = f.call
  BY <1>2, <1>7, <1>8, ConditionalsSet
<1>10. \A i \in B : i \in DOMAIN d.operations /\ i < label
  <2>1. Remembers(d.operations, K[m])
    BY <1>1, <1>2 DEF Good, Opened
  <2>2. \A i \in B : i \in DOMAIN d.operations /\ i # label
    BY <1>a, <1>1, <1>2, <2>1 DEF Remembers, Remembered, Waits
  <2> QED BY <1>0, <1>a, <1>4, <2>2
<1>11. Remembers(p, L[m])
  <2>1. \A i \in Remembered(k) : i \notin B
    BY <1>a
  <2>2. \A i, kind : Waits(d.operations, i, kind) /\ i \notin B => Waits(p, i, kind)
    BY <1>5 DEF Waits
  <2> QED BY <1>a, <1>2, <2>1, <2>2 DEF Remembers, Remembered
<1>12. Program(p, d.roots, L) /\ Opened(p, L)
  <2>1. Program(d.operations, d.roots, K) /\ Opened(d.operations, K) /\ B \subseteq Remembered(K[m])
    BY <1>a, <1>1, <1>2 DEF Good
  <2>2. Forgets(p, B, K, L, m)
    BY <1>a, <1>1, <1>2, <1>11 DEF Forgets
  <2>3. Resolves(d.operations, p, B, label, K, m)
    BY <1>a, <1>1, <1>2, <1>3, <1>4, <1>10, <2>1 DEF Resolves
  <2>4. d.operations \in Seq(Op) /\ p \in Seq(Op) /\ d.roots \in Seq(Nat) /\ K \in Seq(Unclosed) /\ L \in Seq(Unclosed)
    BY <1>0, <1>2, <1>5
  <2> QED BY <2>1, <2>2, <2>3, <2>4, ResolvedProgram
<1>13. Nested(d.pending, L)
  <2>1. Nested(d.pending, K) /\ L[m].boundary = K[m].boundary /\ Phased(L[m]) /\ Len(K) = m
    BY <1>a, <1>1, <1>2 DEF Good
  <2> QED BY <1>2, <2>1, NestedReplaced
<1>14. \A i \in DOMAIN p : KnownIn(Scope(d), decl, p[i].word)
  BY <1>5 DEF Good, WordsIn
<1>15. Good(e, decl, n)
  <2>1. /\ e \in Compilation /\ e.conditionals = L /\ e.operations = p
        /\ e.roots = d.roots /\ e.pending = d.pending
        /\ e.definition = d.definition /\ e.enclosing = d.enclosing /\ e.held = d.held
        /\ e.open = d.open /\ e.call = d.call
    BY <1>7, <1>9
  <2>2. \A i \in DOMAIN d.pending : KnownIn(Scope(d), decl, d.pending[i].call)
    BY DEF Good, WordsIn
  <2> QED BY <1>12, <1>13, <1>14, <2>1, <2>2, RebuiltGood
<1> QED
  BY <1>7, <1>9, <1>15

LEMMA LastOpen ==
  ASSUME NEW d, NEW decl, NEW n, Good(d, decl, n), d.conditionals # <<>>, NEW k, k = Last(d.conditionals)
  PROVE  /\ k \in Unclosed /\ Remembers(d.operations, k) /\ Phased(k)
         /\ k.phase \in Phases /\ k.exits \subseteq Nat /\ k.falseTerms \subseteq Nat
         /\ k.trueTerms \subseteq Nat /\ k.falseBranch \subseteq Nat
<1>0. d.conditionals \in Seq(Unclosed)
  BY DEF Good, Compilation
<1>1. PICK m : m = Len(d.conditionals)
  OBVIOUS
<1>2. m \in DOMAIN d.conditionals /\ k = d.conditionals[m]
  BY <1>0, <1>1, EmptySeq DEF Last
<1>3. k \in Unclosed
  BY <1>0, <1>2
<1>4. Remembers(d.operations, k) /\ Phased(k)
  BY <1>2 DEF Good, Opened, Nested
<1> QED
  BY <1>3, <1>4 DEF Unclosed

LEMMA EmittedWaits ==
  ASSUME NEW ops \in Seq(Op), NEW kind \in {"jump", "branch_false", "branch_true"},
         NEW op, op = Operation(kind, NoName), NEW ext, Emitted(ops, op, ext)
  PROVE  /\ ext \in Seq(Op) /\ Len(ext) = Len(ops) + 1 /\ Len(ops) + 1 \in Nat
         /\ Waits(ext, Len(ops) + 1, kind)
         /\ \A k : Remembers(ops, k) => Remembers(ext, k)
<1>1. op \in Op /\ op.kind = kind /\ op.target = 0
  <2>1. kind \in Kinds /\ NoName \in Tokens \cup {NoName}
    BY DEF Kinds
  <2> QED BY <2>1, OperationIs
<1>4. /\ ext \in Seq(Op) /\ Len(ext) = Len(ops) + 1 /\ Len(ops) + 1 \in Nat
      /\ Extends(ext, ops) /\ ext[Len(ops) + 1] = op
  BY <1>1, EmittedIs
<1>5. \A k : Remembers(ops, k) => Remembers(ext, k)
  BY <1>4, GrownLinks
<1>6. Waits(ext, Len(ops) + 1, kind)
  BY <1>1, <1>4 DEF Waits
<1> QED
  BY <1>4, <1>5, <1>6

LEMMA AndOrKeeps ==
  ASSUME Inv, NEW t, AndOr(t)
  PROVE  Inv'
<1>1. CASE Recover
  BY <1>1, RecoverKeeps
<1>2. CASE ~(~Completed \/ Conditional.phase # "condition")
  <2>1. PICK e, k : e = Drained /\ k = Conditional
    OBVIOUS
  <2>2. /\ Good(e, declared, functions) /\ e.conditionals = c.conditionals /\ e.conditionals # <<>>
        /\ k = Last(e.conditionals) /\ k.phase = "condition"
    <3>1. Good(e, declared, functions) /\ e.conditionals = c.conditionals
      BY <2>1, DrainedGood DEF Inv
    <3> QED BY <1>2, <2>1, <3>1 DEF Completed, InConditional, Conditional
  <2>3. /\ k \in Unclosed /\ Remembers(e.operations, k) /\ Phased(k)
        /\ k.exits \subseteq Nat /\ k.falseTerms \subseteq Nat
        /\ k.trueTerms \subseteq Nat /\ k.falseBranch \subseteq Nat
    BY <2>2, LastOpen
  <2>4. PICK kind \in {"branch_false", "branch_true"} : kind = IF t = "AND" THEN "branch_false" ELSE "branch_true"
    OBVIOUS
  <2>5. PICK op : op = Operation(kind, NoName)
    OBVIOUS
  <2>6. PICK ext : ext = e.operations \o <<op>> /\ Emitted(e.operations, op, ext)
    BY DEF Emitted
  <2>7. PICK m : m = Len(e.operations) + 1
    OBVIOUS
  <2>8. /\ Len(ext) = m /\ m \in Nat /\ Waits(ext, m, kind) /\ Remembers(ext, k)
    <3>1. e.operations \in Seq(Op)
      BY <2>2 DEF Good, Compilation
    <3>2. kind \in {"jump", "branch_false", "branch_true"}
      BY <2>4
    <3>3. /\ Len(ext) = Len(e.operations) + 1 /\ Len(e.operations) + 1 \in Nat
          /\ Waits(ext, Len(e.operations) + 1, kind)
          /\ \A x : Remembers(e.operations, x) => Remembers(ext, x)
      BY SMTT(40), <2>5, <2>6, <3>1, <3>2, EmittedWaits
    <3> QED BY <2>3, <2>7, <3>3
  <2>9. PICK f : f = Emit(e, <<op>>)
    OBVIOUS
  <2>10. Len(f.operations) = m
    <3>1. e \in Compilation
      BY <2>2 DEF Good
    <3>2. f.operations = ext
      BY <2>6, <2>9, <3>1 DEF Emit, Compilation
    <3> QED BY <2>8, <3>2
  <2>11. PICK new : new = IF t = "AND" THEN [k EXCEPT !.falseTerms = @ \cup {m}] ELSE [k EXCEPT !.trueTerms = @ \cup {m}]
    OBVIOUS
  <2>12. /\ new \in Unclosed /\ new.boundary = k.boundary /\ Phased(new)
         /\ Remembered(new) = Remembered(k) \cup {m} /\ Remembers(ext, new)
    <3>1. CASE t = "AND"
      <4>1. /\ new \in Unclosed /\ new.boundary = k.boundary /\ new.phase = k.phase /\ new.exits = k.exits
            /\ new.trueTerms = k.trueTerms /\ new.falseBranch = k.falseBranch /\ new.falseTerms = k.falseTerms \cup {m}
        BY <2>3, <2>8, <2>11, <3>1 DEF Unclosed
      <4>2. Phased(new) /\ Remembered(new) = Remembered(k) \cup {m}
        BY <2>2, <2>3, <4>1 DEF Phased, Remembered
      <4>3. Remembers(ext, new)
        BY <2>4, <2>8, <3>1, <4>1 DEF Remembers
      <4> QED BY <4>1, <4>2, <4>3
    <3>2. CASE t # "AND"
      <4>1. /\ new \in Unclosed /\ new.boundary = k.boundary /\ new.phase = k.phase /\ new.exits = k.exits
            /\ new.falseTerms = k.falseTerms /\ new.falseBranch = k.falseBranch /\ new.trueTerms = k.trueTerms \cup {m}
        BY <2>3, <2>8, <2>11, <3>2 DEF Unclosed
      <4>2. Phased(new) /\ Remembered(new) = Remembered(k) \cup {m}
        BY <2>2, <2>3, <4>1 DEF Phased, Remembered
      <4>3. Remembers(ext, new)
        BY <2>4, <2>8, <3>2, <4>1 DEF Remembers
      <4> QED BY <4>1, <4>2, <4>3
    <3> QED BY <3>1, <3>2
  <2>13. PICK g : g = Replaced(f, new)
    OBVIOUS
  <2>14. Good(g, declared, functions)
    <3>1. Branched(e, kind, op, new, ext, g)
      BY <2>2, <2>4, <2>5, <2>6, <2>7, <2>9, <2>12, <2>13 DEF Branched
    <3> QED BY <2>2, <3>1, BranchGood
  <2>15. PICK h1 : h1 = [g EXCEPT !.operand = TRUE]
    OBVIOUS
  <2>16. PICK h2 : h2 = [h1 EXCEPT !.start = TRUE]
    OBVIOUS
  <2>17. PICK h3 : h3 = [h2 EXCEPT !.assigned = FALSE]
    OBVIOUS
  <2>18. Good(h3, declared, functions)
    BY <2>14, <2>15, <2>16, <2>17, FlagGood
  <2>19. Compile(h3) /\ UNCHANGED session
    BY <1>2, <2>1, <2>4, <2>5, <2>9, <2>10, <2>11, <2>13, <2>15, <2>16, <2>17 DEF AndOr
  <2> QED BY <2>18, <2>19, Settled
<1> QED
  BY <1>1, <1>2 DEF AndOr

\* What a complete condition or arm of the last conditional leaves.
LEMMA CompletedIs ==
  ASSUME Inv, Completed, NEW e, e = Drained, NEW k, k = Conditional
  PROVE  /\ Good(e, declared, functions) /\ e.conditionals = c.conditionals /\ e.conditionals # <<>>
         /\ Len(e.pending) \in 0 .. Len(c.pending) /\ Len(e.pending) = k.boundary + 1
         /\ k = Last(e.conditionals) /\ k \in Unclosed /\ Remembers(e.operations, k) /\ Phased(k)
         /\ k.phase \in Phases /\ k.exits \subseteq Nat /\ k.falseTerms \subseteq Nat
         /\ k.trueTerms \subseteq Nat /\ k.falseBranch \subseteq Nat
<1>1. /\ Good(e, declared, functions) /\ e.conditionals = c.conditionals
      /\ Len(e.pending) \in 0 .. Len(c.pending)
  BY DrainedGood DEF Inv
<1>2. e.conditionals # <<>> /\ k = Last(e.conditionals) /\ Len(e.pending) = k.boundary + 1
  BY <1>1 DEF Completed, InConditional, Conditional
<1>3. /\ k \in Unclosed /\ Remembers(e.operations, k) /\ Phased(k)
      /\ k.phase \in Phases /\ k.exits \subseteq Nat /\ k.falseTerms \subseteq Nat
      /\ k.trueTerms \subseteq Nat /\ k.falseBranch \subseteq Nat
  BY <1>1, <1>2, LastOpen
<1> QED
  BY <1>1, <1>2, <1>3

\* A label is emitted.
Labelled(d, e) == e = Emit(d, <<Operation("label", NoName)>>)

LEMMA LabelGood ==
  ASSUME NEW d, NEW decl, NEW n, Good(d, decl, n), NEW e, Labelled(d, e)
  PROVE  /\ Good(e, decl, n) /\ e.operations = d.operations \o <<Operation("label", NoName)>>
         /\ Len(e.operations) = Len(d.operations) + 1 /\ e.operations # <<>>
         /\ e.operations[Len(e.operations)].kind = "label"
         /\ \A k : Remembers(d.operations, k) => Remembers(e.operations, k)
         /\ e.pending = d.pending /\ e.conditionals = d.conditionals
<1>0. d.operations \in Seq(Op)
  BY DEF Good, Compilation
<1>1. PICK op : op = Operation("label", NoName)
  OBVIOUS
<1>2. op \in Op /\ Plainly(op) /\ KnownIn(Scope(d), decl, op.word) /\ op.kind = "label"
  <2>1. op \in Op /\ Plainly(op) /\ KnownIn(Scope(d), decl, op.word)
    BY <1>1, SpelledOp DEF Kinds
  <2>2. op.kind = "label"
    BY <1>1 DEF Operation
  <2> QED BY <2>1, <2>2
<1>3. /\ Good(e, decl, n) /\ e.operations = d.operations \o <<op>>
      /\ e.pending = d.pending /\ e.conditionals = d.conditionals
  BY <1>1, <1>2, EmitOne DEF Labelled
<1>4. PICK ext : Emitted(d.operations, op, ext) /\ ext = d.operations \o <<op>>
  BY DEF Emitted
<1>6. ext \in Seq(Op) /\ Len(ext) = Len(d.operations) + 1 /\ Extends(ext, d.operations) /\ ext[Len(d.operations) + 1] = op
  BY <1>0, <1>2, <1>4, EmittedIs
<1>7. \A k : Remembers(d.operations, k) => Remembers(ext, k)
  BY <1>0, <1>6, GrownLinks
<1>8. ext # <<>> /\ ext[Len(ext)].kind = "label"
  BY <1>0, <1>2, <1>6
<1> QED
  BY <1>1, <1>3, <1>4, <1>6, <1>7, <1>8

\* A conditional that goes on twice goes on once, whatever is emitted and patched meanwhile.
LEMMA Overtaken ==
  ASSUME NEW d \in Compilation, d.conditionals # <<>>, NEW k1 \in Unclosed, NEW k2 \in Unclosed,
         NEW new, NEW B, NEW l
  PROVE  /\ Replaced(Replaced(d, k1), k2) = Replaced(d, k2)
         /\ Replaced(Patched(Emit(Replaced(d, k1), new), B, l), k2) = Replaced(Patched(Emit(d, new), B, l), k2)
<1>0. d.conditionals \in Seq(Unclosed)
  BY DEF Compilation
<1>1. PICK K : K = d.conditionals
  OBVIOUS
<1>2. PICK F : F = Front(K)
  OBVIOUS
<1>3. PICK L1 : L1 = Append(F, k1)
  OBVIOUS
<1>4. PICK L2 : L2 = Append(F, k2)
  OBVIOUS
<1>5. F \in Seq(Unclosed)
  BY <1>0, <1>1, <1>2, FrontIs
<1>6. Front(L1) = F
  BY <1>3, <1>5 DEF Front
<1>7. PICK f : f = [d EXCEPT !.conditionals = L1]
  OBVIOUS
<1>8. Replaced(d, k1) = f /\ Replaced(d, k2) = [d EXCEPT !.conditionals = L2]
  BY <1>1, <1>2, <1>3, <1>4, <1>7 DEF Replaced
<1>9. f.conditionals = L1 /\ f.operations = d.operations
  BY <1>7 DEF Compilation
<1>10. Replaced(f, k2) = [f EXCEPT !.conditionals = L2]
  BY <1>4, <1>6, <1>9 DEF Replaced
<1>11. [f EXCEPT !.conditionals = L2] = [d EXCEPT !.conditionals = L2]
  BY <1>7 DEF Compilation
<1>12. PICK o : o = d.operations \o new
  OBVIOUS
<1>13. PICK p : p = PatchedOps(o, B, l)
  OBVIOUS
<1>14. PICK g : g = [f EXCEPT !.operations = p]
  OBVIOUS
<1>15. Patched(Emit(f, new), B, l) = g
  <2>1. PICK h : h = [f EXCEPT !.operations = o]
    OBVIOUS
  <2>2. Emit(f, new) = h
    BY <1>9, <1>12, <2>1 DEF Emit
  <2>3. h.operations = o
    BY <1>7, <2>1 DEF Compilation
  <2>4. Patched(h, B, l) = [h EXCEPT !.operations = p]
    BY <1>13, <2>3 DEF Patched, PatchedOps
  <2>5. [h EXCEPT !.operations = p] = g
    BY <1>7, <1>14, <2>1 DEF Compilation
  <2> QED BY <2>2, <2>4, <2>5
<1>16. PICK x : x = [d EXCEPT !.operations = p]
  OBVIOUS
<1>17. Patched(Emit(d, new), B, l) = x
  <2>1. PICK h : h = [d EXCEPT !.operations = o]
    OBVIOUS
  <2>2. Emit(d, new) = h
    BY <1>12, <2>1 DEF Emit
  <2>3. h.operations = o
    BY <2>1 DEF Compilation
  <2>4. Patched(h, B, l) = [h EXCEPT !.operations = p]
    BY <1>13, <2>3 DEF Patched, PatchedOps
  <2>5. [h EXCEPT !.operations = p] = x
    BY <1>16, <2>1 DEF Compilation
  <2> QED BY <2>2, <2>4, <2>5
<1>18. g.conditionals = L1 /\ x.conditionals = K
  BY <1>1, <1>7, <1>14, <1>16 DEF Compilation
<1>19. Replaced(g, k2) = [g EXCEPT !.conditionals = L2] /\ Replaced(x, k2) = [x EXCEPT !.conditionals = L2]
  BY <1>2, <1>4, <1>6, <1>18 DEF Replaced
<1>20. [g EXCEPT !.conditionals = L2] = [x EXCEPT !.conditionals = L2]
  BY <1>7, <1>14, <1>16 DEF Compilation
<1> QED
  BY <1>8, <1>10, <1>11, <1>15, <1>17, <1>19, <1>20

LEMMA ThenKeeps ==
  ASSUME Inv, NEW t, Then(t)
  PROVE  Inv'
<1>1. CASE Unsupported
  BY <1>1, UnsupportedKeeps
<1>2. CASE ~(~Completed \/ Conditional.phase # "condition")
  <2>1. PICK e, k : e = Drained /\ k = Conditional
    OBVIOUS
  <2>2. /\ Good(e, declared, functions) /\ e.conditionals # <<>>
        /\ Len(e.pending) \in 0 .. Len(c.pending)
        /\ k = Last(e.conditionals) /\ k \in Unclosed /\ Remembers(e.operations, k) /\ Phased(k)
        /\ k.exits \subseteq Nat /\ k.falseTerms \subseteq Nat
        /\ k.trueTerms \subseteq Nat /\ k.falseBranch \subseteq Nat
    BY <1>2, <2>1, CompletedIs
  <2>3. k.phase = "condition" /\ k.falseBranch = {}
    BY <1>2, <2>1, <2>2 DEF Phased
  <2>4. PICK kind \in {"jump", "branch_false", "branch_true"} : kind = "branch_false"
    OBVIOUS
  <2>5. PICK op : op = Operation(kind, NoName)
    OBVIOUS
  <2>6. PICK ext : ext = e.operations \o <<op>> /\ Emitted(e.operations, op, ext)
    BY DEF Emitted
  <2>7. PICK m : m = Len(e.operations) + 1
    OBVIOUS
  <2>8. /\ Len(ext) = m /\ m \in Nat /\ Waits(ext, m, "branch_false") /\ Remembers(ext, k)
    <3>1. e.operations \in Seq(Op)
      BY <2>2 DEF Good, Compilation
    <3>3. /\ Len(ext) = Len(e.operations) + 1 /\ Len(e.operations) + 1 \in Nat
          /\ Waits(ext, Len(e.operations) + 1, kind)
          /\ \A x : Remembers(e.operations, x) => Remembers(ext, x)
      BY SMTT(40), <2>5, <2>6, <3>1, EmittedWaits
    <3> QED BY <2>2, <2>4, <2>7, <3>3
  \* Before the conditional goes on, the branch is one more of those to its false arm.
  <2>9. PICK k1 : k1 = [k EXCEPT !.falseTerms = @ \cup {m}]
    OBVIOUS
  <2>10. /\ k1 \in Unclosed /\ k1.boundary = k.boundary /\ Phased(k1)
         /\ Remembered(k1) = Remembered(k) \cup {m} /\ Remembers(ext, k1)
    <3>1. /\ k1 \in Unclosed /\ k1.boundary = k.boundary /\ k1.phase = k.phase /\ k1.exits = k.exits
          /\ k1.trueTerms = k.trueTerms /\ k1.falseBranch = k.falseBranch /\ k1.falseTerms = k.falseTerms \cup {m}
      BY <2>2, <2>8, <2>9 DEF Unclosed
    <3>2. Phased(k1) /\ Remembered(k1) = Remembered(k) \cup {m}
      BY <2>2, <2>3, <3>1 DEF Phased, Remembered
    <3>3. Remembers(ext, k1)
      BY <2>8, <3>1 DEF Remembers
    <3> QED BY <3>1, <3>2, <3>3
  <2>11. PICK k2 : k2 = [k EXCEPT !.falseBranch = {m}, !.trueTerms = {}, !.phase = "consequent"]
    OBVIOUS
  <2>12. /\ k2 \in Unclosed /\ k2.boundary = k1.boundary /\ Phased(k2) /\ Remembers(ext, k2)
         /\ Remembered(k2) = Remembered(k1) \ k.trueTerms /\ k.trueTerms \subseteq Remembered(k1)
    <3>1. /\ k2.boundary = k.boundary /\ k2.phase = "consequent" /\ k2.exits = k.exits
          /\ k2.trueTerms = {} /\ k2.falseBranch = {m} /\ k2.falseTerms = k.falseTerms
      BY <2>2, <2>11 DEF Unclosed
    <3>2. k2 = [boundary |-> k.boundary, phase |-> "consequent", falseBranch |-> {m}, exits |-> k.exits,
                falseTerms |-> k.falseTerms, trueTerms |-> {}]
      BY <2>2, <2>11 DEF Unclosed
    <3>3. k.boundary \in Nat
      BY <2>2 DEF Unclosed
    <3>4. k2 \in Unclosed
      BY <2>2, <2>8, <3>2, <3>3 DEF Unclosed, Phases
    <3>5. Phased(k2)
      BY <3>1 DEF Phased
    <3>6. Remembers(ext, k2)
      BY <2>8, <3>1 DEF Remembers
    <3>7. k1.exits = k.exits /\ k1.trueTerms = k.trueTerms /\ k1.falseBranch = {} /\ k1.falseTerms = k.falseTerms \cup {m}
      BY <2>2, <2>3, <2>8, <2>9 DEF Unclosed
    <3>8. \A i \in k.trueTerms : i \notin k.exits /\ i \notin k.falseTerms /\ i # m
      BY <2>8 DEF Remembers, Waits
    <3>9. Remembered(k2) = Remembered(k1) \ k.trueTerms /\ k.trueTerms \subseteq Remembered(k1)
      BY <3>1, <3>7, <3>8 DEF Remembered
    <3> QED BY <2>10, <3>1, <3>4, <3>5, <3>6, <3>9
  <2>13. PICK d : d = Emit(e, <<op>>)
    OBVIOUS
  <2>14. PICK e1 : e1 = Replaced(d, k1)
    OBVIOUS
  <2>15. /\ Good(e1, declared, functions) /\ e1.operations = ext /\ e1.conditionals # <<>>
         /\ Last(e1.conditionals) = k1 /\ e1.conditionals = Append(Front(e.conditionals), k1)
         /\ e1.pending = e.pending
    <3>1. Branched(e, kind, op, k1, ext, e1)
      BY <2>2, <2>4, <2>5, <2>6, <2>7, <2>10, <2>13, <2>14 DEF Branched
    <3> QED BY <2>2, <3>1, BranchGood
  <2>16. d \in Compilation /\ d.conditionals # <<>> /\ d.operations = ext
    <3>1. e \in Compilation
      BY <2>2 DEF Good
    <3>2. ext \in Seq(Op)
      BY <2>15 DEF Good, Compilation
    <3>3. d = [e EXCEPT !.operations = ext]
      BY <2>6, <2>13 DEF Emit
    <3> QED BY <2>2, <3>1, <3>2, <3>3 DEF Compilation
  <2>17. CASE k.trueTerms = {}
    <3>1. PICK e2 : e2 = Replaced(e1, k2)
      OBVIOUS
    <3>2. e2 = Replaced(d, k2)
      BY <2>10, <2>12, <2>14, <2>16, <3>1, Overtaken
    <3>3. Good(e2, declared, functions) /\ e2.pending = e1.pending
      <4>1. Reseated(e1, k2, e2)
        BY <2>12, <2>15, <2>17, <3>1 DEF Reseated
      <4> QED BY <2>15, <4>1, ReseatGood
    <3>4. Begin(e2) /\ UNCHANGED session
      BY <1>2, <2>1, <2>4, <2>5, <2>8, <2>11, <2>13, <2>16, <2>17, <3>2 DEF Then
    <3>5. Len(e2.pending) <= Len(c.pending)
      BY <2>2, <2>15, <3>3
    <3> QED BY <3>3, <3>4, <3>5, Started
  <2>18. CASE k.trueTerms # {}
    <3>1. PICK e2 : e2 = Emit(e1, <<Operation("label", NoName)>>)
      OBVIOUS
    <3>2. /\ Good(e2, declared, functions) /\ Len(e2.operations) = m + 1 /\ e2.operations # <<>>
          /\ e2.operations[m + 1].kind = "label" /\ Remembers(e2.operations, k2)
          /\ e2.pending = e1.pending /\ e2.conditionals = e1.conditionals
      <4>1. Labelled(e1, e2)
        BY <3>1 DEF Labelled
      <4>2. /\ Good(e2, declared, functions) /\ Len(e2.operations) = Len(e1.operations) + 1 /\ e2.operations # <<>>
            /\ e2.operations[Len(e2.operations)].kind = "label"
            /\ \A x : Remembers(e1.operations, x) => Remembers(e2.operations, x)
            /\ e2.pending = e1.pending /\ e2.conditionals = e1.conditionals
        BY ZenonT(60), <2>15, <4>1, LabelGood
      <4> QED BY <2>8, <2>12, <2>15, <4>2
    <3>3. PICK e3 : e3 = Replaced(Patched(e2, k.trueTerms, m + 1), k2)
      OBVIOUS
    <3>4. Good(e3, declared, functions) /\ e3.pending = e2.pending
      <4>1. PatchedTo(e2, m + 1, k.trueTerms, k2, e3)
        BY <2>12, <2>15, <3>2, <3>3 DEF PatchedTo
      <4> QED BY <2>15, <3>2, <4>1, PatchGood
    <3>5. e3 = Replaced(Patched(Emit(d, <<Operation("label", NoName)>>), k.trueTerms, m + 1), k2)
      BY <2>10, <2>12, <2>14, <2>16, <3>1, <3>3, Overtaken
    <3>6. Begin(e3) /\ UNCHANGED session
      BY <1>2, <2>1, <2>4, <2>5, <2>8, <2>11, <2>13, <2>16, <2>18, <3>5 DEF Then
    <3>7. Len(e3.pending) <= Len(c.pending)
      BY <2>2, <2>15, <3>2, <3>4
    <3> QED BY <3>4, <3>6, <3>7, Started
  <2> QED BY <2>17, <2>18
<1> QED
  BY <1>1, <1>2 DEF Then

LEMMA EmitTwice ==
  ASSUME NEW d \in Compilation, NEW a \in Op, NEW b \in Op
  PROVE  Emit(Emit(d, <<a>>), <<b>>) = Emit(d, <<a, b>>)
<1>1. PICK ops \in Seq(Op) : ops = d.operations
  BY DEF Compilation
<1>2. (ops \o <<a>>) \o <<b>> = ops \o <<a, b>>
  <2>1. PICK u, v, w : u = <<a>> /\ v = <<b>> /\ w = <<a, b>>
    OBVIOUS
  <2>2. /\ u \in Seq(Op) /\ v \in Seq(Op) /\ w \in Seq(Op) /\ Len(u) = 1 /\ Len(v) = 1 /\ Len(w) = 2
        /\ u[1] = a /\ v[1] = b /\ w[1] = a /\ w[2] = b
    BY <2>1
  <2>3. PICK n \in Nat : n = Len(ops)
    OBVIOUS
  <2>4. PICK x, y, z : x = ops \o u /\ y = x \o v /\ z = ops \o w
    OBVIOUS
  <2>5. x \in Seq(Op) /\ Len(x) = n + 1 /\ \A i \in 1 .. n + 1 : x[i] = IF i <= n THEN ops[i] ELSE u[i - n]
    <3>1. /\ ops \o u \in Seq(Op) /\ Len(ops \o u) = Len(ops) + Len(u)
          /\ \A i \in 1 .. Len(ops) + Len(u) : (ops \o u)[i] = IF i <= Len(ops) THEN ops[i] ELSE u[i - Len(ops)]
      BY <2>2, ConcatProperties
    <3> QED BY <2>2, <2>3, <2>4, <3>1
  <2>6. y \in Seq(Op) /\ Len(y) = n + 2 /\ \A i \in 1 .. n + 2 : y[i] = IF i <= n + 1 THEN x[i] ELSE v[i - (n + 1)]
    <3>1. /\ x \o v \in Seq(Op) /\ Len(x \o v) = Len(x) + Len(v)
          /\ \A i \in 1 .. Len(x) + Len(v) : (x \o v)[i] = IF i <= Len(x) THEN x[i] ELSE v[i - Len(x)]
      BY <2>2, <2>5, ConcatProperties
    <3> QED BY <2>2, <2>3, <2>4, <2>5, <3>1
  <2>7. z \in Seq(Op) /\ Len(z) = n + 2 /\ \A i \in 1 .. n + 2 : z[i] = IF i <= n THEN ops[i] ELSE w[i - n]
    <3>1. /\ ops \o w \in Seq(Op) /\ Len(ops \o w) = Len(ops) + Len(w)
          /\ \A i \in 1 .. Len(ops) + Len(w) : (ops \o w)[i] = IF i <= Len(ops) THEN ops[i] ELSE w[i - Len(ops)]
      BY <2>2, ConcatProperties
    <3> QED BY <2>2, <2>3, <2>4, <3>1
  <2>8. ASSUME NEW i \in 1 .. n + 2 PROVE y[i] = z[i]
    <3>1. CASE i <= n
      BY <2>3, <2>5, <2>6, <2>7, <3>1
    <3>2. CASE i = n + 1
      <4>1. i - n = 1 /\ ~(i <= n) /\ i \in 1 .. n + 1 /\ i <= n + 1
        BY <2>3, <3>2
      <4> QED BY <2>2, <2>5, <2>6, <2>7, <4>1
    <3>3. CASE i = n + 2
      <4>1. i - n = 2 /\ i - (n + 1) = 1 /\ ~(i <= n) /\ ~(i <= n + 1)
        BY <2>3, <3>3
      <4> QED BY <2>2, <2>6, <2>7, <4>1
    <3> QED BY <2>3, <3>1, <3>2, <3>3
  <2>9. y = z
    BY <2>6, <2>7, <2>8, SeqEqual
  <2> QED BY <2>1, <2>4, <2>9
<1>3. PICK x : x = ops \o <<a>>
  OBVIOUS
<1>4. PICK y : y = ops \o <<a, b>>
  OBVIOUS
<1>5. PICK e : e = [d EXCEPT !.operations = x]
  OBVIOUS
<1>6. e.operations = x
  BY <1>5 DEF Compilation
<1>7. Emit(d, <<a>>) = e /\ Emit(d, <<a, b>>) = [d EXCEPT !.operations = y]
  BY <1>1, <1>3, <1>4, <1>5 DEF Emit
<1>8. Emit(e, <<b>>) = [e EXCEPT !.operations = y]
  BY <1>2, <1>3, <1>4, <1>6 DEF Emit
<1>9. [e EXCEPT !.operations = y] = [d EXCEPT !.operations = y]
  BY <1>5 DEF Compilation
<1> QED
  BY <1>7, <1>8, <1>9

LEMMA ElseKeeps ==
  ASSUME Inv, NEW t, Else(t)
  PROVE  Inv'
<1>1. CASE Unsupported
  BY <1>1, UnsupportedKeeps
<1>2. CASE Recover
  BY <1>2, RecoverKeeps
<1>3. CASE Completed /\ Conditional.phase # "alternative" /\ Conditional.phase # "condition"
  <2>1. PICK e, k : e = Drained /\ k = Conditional
    OBVIOUS
  <2>2. /\ Good(e, declared, functions) /\ e.conditionals # <<>>
        /\ Len(e.pending) \in 0 .. Len(c.pending)
        /\ k = Last(e.conditionals) /\ k \in Unclosed /\ Remembers(e.operations, k) /\ Phased(k)
        /\ k.phase \in Phases /\ k.exits \subseteq Nat /\ k.falseTerms \subseteq Nat
        /\ k.trueTerms \subseteq Nat /\ k.falseBranch \subseteq Nat
    BY <1>3, <2>1, CompletedIs
  <2>3. k.phase = "consequent" /\ k.trueTerms = {} /\ ToFalseArm(k) = k.falseBranch \cup k.falseTerms
    BY <1>3, <2>1, <2>2 DEF Phased, Phases, ToFalseArm
  <2>4. PICK kind \in {"jump", "branch_false", "branch_true"} : kind = "jump"
    OBVIOUS
  <2>5. PICK op : op = Operation(kind, NoName)
    OBVIOUS
  <2>6. PICK ext : ext = e.operations \o <<op>> /\ Emitted(e.operations, op, ext)
    BY DEF Emitted
  <2>7. PICK m : m = Len(e.operations) + 1
    OBVIOUS
  <2>8. /\ Len(ext) = m /\ m \in Nat /\ Waits(ext, m, "jump") /\ Remembers(ext, k) /\ ext \in Seq(Op)
    <3>1. PICK o \in Seq(Op) : o = e.operations
      BY <2>2 DEF Good, Compilation
    <3>2. kind \in {"jump", "branch_false", "branch_true"}
      BY <2>4
    <3>3. op = Operation(kind, NoName) /\ Emitted(o, op, ext) /\ Remembers(o, k)
      BY <2>2, <2>5, <2>6, <3>1
    <3>4. /\ Len(ext) = Len(o) + 1 /\ Len(o) + 1 \in Nat
          /\ Waits(ext, Len(o) + 1, kind) /\ ext \in Seq(Op) /\ Remembers(ext, k)
      BY <3>2, <3>3, EmittedWaits
    <3> QED BY <2>4, <2>7, <3>1, <3>4
  <2>9. PICK k1 : k1 = [k EXCEPT !.exits = @ \cup {m}]
    OBVIOUS
  <2>10. /\ k1 \in Unclosed /\ k1.boundary = k.boundary /\ k1.phase = k.phase /\ k1.exits = k.exits \cup {m}
         /\ k1.trueTerms = k.trueTerms /\ k1.falseBranch = k.falseBranch /\ k1.falseTerms = k.falseTerms
    BY <2>2, <2>8, <2>9 DEF Unclosed
  <2>11. /\ Phased(k1) /\ Remembered(k1) = Remembered(k) \cup {m} /\ Remembers(ext, k1)
    <3>1. Phased(k1) /\ Remembered(k1) = Remembered(k) \cup {m}
      BY <2>2, <2>10 DEF Phased, Remembered
    <3>2. Remembers(ext, k1)
      BY <2>8, <2>10 DEF Remembers
    <3> QED BY <3>1, <3>2
  <2>12. PICK new \in Phases : new = (IF t = "ELSEIF" THEN "condition" ELSE "alternative")
    BY DEF Phases
  <2>13. PICK k2 : k2 = [k EXCEPT !.exits = @ \cup {m}, !.falseTerms = {}, !.falseBranch = {}, !.phase = new]
    OBVIOUS
  <2>14. /\ k2 \in Unclosed /\ k2.boundary = k.boundary /\ k2.exits = k.exits \cup {m}
         /\ k2.trueTerms = {} /\ k2.falseBranch = {} /\ k2.falseTerms = {}
    <3>1. k2 = [boundary |-> k.boundary, phase |-> new, falseBranch |-> {}, exits |-> k.exits \cup {m},
                falseTerms |-> {}, trueTerms |-> k.trueTerms]
      BY <2>2, <2>13 DEF Unclosed
    <3>2. k.boundary \in Nat
      BY <2>2 DEF Unclosed
    <3> QED BY <2>2, <2>3, <2>8, <2>12, <3>1, <3>2 DEF Unclosed
  <2>15. /\ Phased(k2) /\ Remembers(ext, k2)
         /\ Remembered(k2) = Remembered(k1) \ ToFalseArm(k) /\ ToFalseArm(k) \subseteq Remembered(k1)
    <3>1. Phased(k2)
      BY <2>14 DEF Phased
    <3>2. Remembers(ext, k2)
      BY <2>11, <2>10, <2>14 DEF Remembers
    <3>3. \A i \in ToFalseArm(k) : i \notin k.exits /\ i # m
      BY <2>3, <2>8 DEF Remembers, Waits
    <3>4. Remembered(k2) = Remembered(k1) \ ToFalseArm(k) /\ ToFalseArm(k) \subseteq Remembered(k1)
      BY <2>3, <2>10, <2>14, <3>3 DEF Remembered
    <3> QED BY <3>1, <3>2, <3>4
  <2>16. PICK d : d = Emit(e, <<op>>)
    OBVIOUS
  <2>17. PICK e1 : e1 = Replaced(d, k1)
    OBVIOUS
  <2>18. /\ Good(e1, declared, functions) /\ e1.operations = ext /\ e1.conditionals # <<>>
         /\ Last(e1.conditionals) = k1 /\ e1.pending = e.pending
    <3>1. Branched(e, kind, op, k1, ext, e1)
      BY <2>2, <2>4, <2>5, <2>6, <2>7, <2>10, <2>11, <2>16, <2>17 DEF Branched
    <3> QED BY <2>2, <3>1, BranchGood
  <2>19. e \in Compilation /\ d \in Compilation /\ d.conditionals # <<>>
    <3>1. e \in Compilation
      BY <2>2 DEF Good
    <3>2. d = [e EXCEPT !.operations = ext]
      BY <2>6, <2>16 DEF Emit
    <3> QED BY <2>2, <2>8, <3>1, <3>2 DEF Compilation
  <2>20. PICK label \in Op : label = Operation("label", NoName)
    BY SpelledOp DEF Kinds
  <2>21. PICK e2 : e2 = Emit(e1, <<label>>)
    OBVIOUS
  <2>22. /\ Good(e2, declared, functions) /\ Len(e2.operations) = m + 1 /\ e2.operations # <<>>
         /\ e2.operations[m + 1].kind = "label" /\ Remembers(e2.operations, k2)
         /\ e2.pending = e1.pending /\ e2.conditionals = e1.conditionals
    <3>1. Labelled(e1, e2)
      BY <2>20, <2>21 DEF Labelled
    <3>2. /\ Good(e2, declared, functions) /\ Len(e2.operations) = Len(e1.operations) + 1 /\ e2.operations # <<>>
          /\ e2.operations[Len(e2.operations)].kind = "label"
          /\ \A x : Remembers(e1.operations, x) => Remembers(e2.operations, x)
          /\ e2.pending = e1.pending /\ e2.conditionals = e1.conditionals
      BY SMTT(40), <2>18, <3>1, LabelGood
    <3> QED BY <2>8, <2>15, <2>18, <3>2
  <2>23. PICK e3 : e3 = Replaced(Patched(e2, ToFalseArm(k), m + 1), k2)
    OBVIOUS
  <2>24. Good(e3, declared, functions) /\ e3.pending = e2.pending
    <3>1. PatchedTo(e2, m + 1, ToFalseArm(k), k2, e3)
      BY <2>10, <2>14, <2>15, <2>18, <2>22, <2>23 DEF PatchedTo
    <3> QED BY <2>18, <2>22, <3>1, PatchGood
  <2>25. e3 = Replaced(Patched(Emit(e, <<op, label>>), ToFalseArm(k), m + 1), k2)
    <3>1. e3 = Replaced(Patched(Emit(d, <<label>>), ToFalseArm(k), m + 1), k2)
      BY <2>10, <2>14, <2>17, <2>19, <2>21, <2>23, Overtaken
    <3>2. op \in Op
      BY <2>5, SpellingsKnown, OperationIs DEF Kinds
    <3>3. Emit(d, <<label>>) = Emit(e, <<op, label>>)
      BY <2>16, <2>19, <3>2, EmitTwice
    <3> QED BY <3>1, <3>3
  <2>26. Len(Emit(e, <<op, label>>).operations) = m + 1
    <3>1. op \in Op
      BY <2>5, SpellingsKnown, OperationIs DEF Kinds
    <3>2. Emit(d, <<label>>) = Emit(e, <<op, label>>)
      BY <2>16, <2>19, <3>1, EmitTwice
    <3>3. Emit(d, <<label>>).operations = ext \o <<label>>
      BY <2>6, <2>16, <2>19 DEF Emit, Compilation
    <3> QED BY <2>8, <3>2, <3>3
  <2>27. Begin(e3) /\ UNCHANGED session
    <3>1. PICK x, l : x = Emit(Drained, <<Operation("jump", NoName), Operation("label", NoName)>>) /\ l = Len(x.operations)
      OBVIOUS
    <3>2. /\ Begin(Replaced(Patched(x, ToFalseArm(k), l),
                  [k EXCEPT !.exits = @ \cup {l - 1}, !.falseTerms = {}, !.falseBranch = {}, !.phase = new]))
          /\ UNCHANGED session
      BY <1>3, <2>1, <2>12, <3>1 DEF Else
    <3>3. x = Emit(e, <<op, label>>)
      BY <2>1, <2>4, <2>5, <2>20, <3>1
    <3>4. l = m + 1 /\ l - 1 = m
      BY <2>8, <2>26, <3>1, <3>3
    <3> QED BY <2>13, <2>25, <3>2, <3>3, <3>4
  <2>28. Len(e3.pending) <= Len(c.pending)
    BY <2>2, <2>18, <2>22, <2>24
  <2> QED BY <2>24, <2>27, <2>28, Started
<1> QED
  BY <1>1, <1>2, <1>3 DEF Else

\* The last conditional and its group go; all it remembers leads to the last label.
Finished(d, label, B, e) ==
  LET k == Last(d.conditionals)
  IN /\ d.conditionals # <<>> /\ label = Len(d.operations) /\ d.operations # <<>> /\ d.operations[label].kind = "label"
     /\ B = Remembered(k) /\ Len(d.pending) = k.boundary + 1
     /\ e = [Patched(d, B, label) EXCEPT !.conditionals = Front(@), !.pending = Front(@)]

LEMMA FinishGood ==
  ASSUME NEW d, NEW decl, NEW n, Good(d, decl, n), NEW label, NEW B, NEW e, Finished(d, label, B, e)
  PROVE  Good(e, decl, n)
<1>a. PICK k : /\ k = Last(d.conditionals) /\ d.conditionals # <<>> /\ label = Len(d.operations)
               /\ d.operations # <<>> /\ d.operations[label].kind = "label"
               /\ B = Remembered(k) /\ Len(d.pending) = k.boundary + 1
               /\ e = [Patched(d, B, label) EXCEPT !.conditionals = Front(@), !.pending = Front(@)]
  BY DEF Finished
<1>0. /\ d \in Compilation /\ d.conditionals \in Seq(Unclosed) /\ d.operations \in Seq(Op) /\ d.roots \in Seq(Nat)
      /\ d.pending \in Seq(Pending)
  BY DEF Good, Compilation
<1>1. PICK K, m, L : K = d.conditionals /\ m = Len(K) /\ L = Front(K)
  OBVIOUS
<1>2. /\ m \in Nat \ {0} /\ k = K[m] /\ m \in DOMAIN K /\ K \in Seq(Unclosed) /\ k \in Unclosed
      /\ L \in Seq(Unclosed) /\ Len(L) = m - 1 /\ \A j \in 1 .. m - 1 : L[j] = K[j]
  <2>1. K \in Seq(Unclosed) /\ K # <<>>
    BY <1>a, <1>0, <1>1
  <2>2. k \in Unclosed
    BY <1>a, LastOpen
  <2>3. /\ Len(K) \in Nat \ {0} /\ Last(K) = K[Len(K)] /\ Len(K) \in DOMAIN K
        /\ Front(K) \in Seq(Unclosed) /\ Len(Front(K)) = Len(K) - 1
        /\ \A j \in 1 .. Len(K) - 1 : Front(K)[j] = K[j]
    BY <2>1, <2>2, FrontIs
  <2> QED BY <1>a, <1>1, <2>1, <2>2, <2>3
<1>3. PICK p : p = PatchedOps(d.operations, B, label)
  OBVIOUS
<1>4. label \in Nat \ {0} /\ label \in DOMAIN d.operations
  BY <1>0, <1>a, EmptySeq
<1>5. /\ p \in Seq(Op) /\ Len(p) = label
      /\ \A i \in DOMAIN d.operations : p[i].word = d.operations[i].word /\ (i \notin B => p[i] = d.operations[i])
      /\ DOMAIN p = DOMAIN d.operations
  BY <1>0, <1>a, <1>3, <1>4, PatchIs
<1>6. PICK q : q = Front(d.pending)
  OBVIOUS
<1>7. PICK b \in Nat : b = k.boundary
  BY <1>2 DEF Unclosed
<1>8. q \in Seq(Pending) /\ Len(q) = b /\ \A i \in 1 .. b : q[i] = d.pending[i]
  <2>1. Len(d.pending) = b + 1
    BY <1>a, <1>7
  <2>2. q = SubSeq(d.pending, 1, b)
    BY <1>6, <2>1 DEF Front
  <2> QED BY <1>0, <2>1, <2>2
<1>9. PICK f : f = [d EXCEPT !.operations = p]
  OBVIOUS
<1>10. PICK g : g = [f EXCEPT !.conditionals = L]
  OBVIOUS
<1>11. e = [g EXCEPT !.pending = q]
  <2>1. f = Patched(d, B, label)
    BY <1>3, <1>9 DEF Patched, PatchedOps
  <2>2. f.conditionals = K /\ f.pending = d.pending
    BY <1>0, <1>1, <1>9 DEF Compilation
  <2>3. e = [f EXCEPT !.conditionals = L, !.pending = q]
    BY <1>a, <1>1, <1>6, <2>1, <2>2
  <2> QED BY <1>10, <2>3
<1>12. /\ e.operations = p /\ e.conditionals = L /\ e.pending = q
       /\ e.roots = d.roots /\ e.definition = d.definition /\ e.enclosing = d.enclosing /\ e.held = d.held
       /\ e.open = d.open /\ e.call = d.call /\ e \in Compilation
  <2>1. /\ f \in Compilation /\ f.operations = p
        /\ f.roots = d.roots /\ f.definition = d.definition /\ f.enclosing = d.enclosing /\ f.held = d.held
        /\ f.open = d.open /\ f.call = d.call
    <3>1. d \in Compilation
      BY <1>0
    <3>2. p \in Seq(Op)
      BY <1>5
    <3> QED BY <1>9, <3>1, <3>2, OperationsSet DEF Compilation
  <2>2. /\ g \in Compilation /\ g.operations = f.operations /\ g.conditionals = L
        /\ g.roots = f.roots /\ g.definition = f.definition /\ g.enclosing = f.enclosing /\ g.held = f.held
        /\ g.open = f.open /\ g.call = f.call
    <3>1. L \in Seq(Unclosed) /\ f \in Compilation
      BY <1>2, <2>1
    <3> QED BY <1>10, <3>1, ConditionalsSet DEF Compilation
  <2>3. /\ e \in Compilation /\ e.operations = g.operations /\ e.conditionals = g.conditionals /\ e.pending = q
        /\ e.roots = g.roots /\ e.definition = g.definition /\ e.enclosing = g.enclosing /\ e.held = g.held
        /\ e.open = g.open /\ e.call = g.call
    <3>1. q \in Seq(Pending) /\ g \in Compilation
      BY <1>8, <2>2
    <3> QED BY <1>11, <3>1, PendingSet DEF Compilation
  <2> QED BY <2>1, <2>2, <2>3
<1>13. Program(p, d.roots, L) /\ Opened(p, L)
  <2>1. Remembers(d.operations, K[m])
    BY <1>1, <1>2 DEF Good, Opened
  <2>2. \A i \in B : i \in DOMAIN d.operations /\ i # label
    BY ZenonT(60), <1>a, <1>1, <1>2, <2>1 DEF Remembers, Remembered, Waits
  <2>3. \A i \in B : i \in DOMAIN d.operations /\ i < label
    BY <1>0, <1>a, <1>4, <2>2
  <2>4. Program(d.operations, d.roots, K) /\ Opened(d.operations, K)
    BY <1>1 DEF Good
  <2>5. Len(K) = m /\ B = Remembered(K[m])
    BY <1>a, <1>1, <1>2
  <2>6. Forgets(p, B, K, L, m)
    BY <1>2, <2>5 DEF Forgets
  <2>7. Resolves(d.operations, p, B, label, K, m)
    BY <1>a, <1>2, <1>3, <1>4, <2>3, <2>5 DEF Resolves
  <2>8. d.operations \in Seq(Op) /\ p \in Seq(Op) /\ d.roots \in Seq(Nat) /\ K \in Seq(Unclosed) /\ L \in Seq(Unclosed)
    BY <1>0, <1>2, <1>5
  <2> QED BY <2>4, <2>6, <2>7, <2>8, ResolvedProgram
<1>14. Nested(q, L)
  <2>1. Nested(d.pending, K)
    BY <1>1 DEF Good
  <2>2. ASSUME NEW i \in DOMAIN L
        PROVE  /\ Phased(L[i]) /\ L[i].boundary < Len(q) /\ IsGroup(q[L[i].boundary + 1])
               /\ \A j \in 1 .. i - 1 : L[j].boundary < L[i].boundary
    <3>1. i \in DOMAIN K /\ i \in 1 .. m - 1 /\ L[i] = K[i] /\ \A j \in 1 .. i - 1 : L[j] = K[j]
      BY <1>1, <1>2, <2>2
    <3>2. K[i] \in Unclosed /\ K[i].boundary < K[m].boundary
      BY <1>2, <2>1, <3>1 DEF Nested
    <3>3. PICK x \in Nat : x = K[i].boundary
      BY <3>2 DEF Unclosed
    <3>4. x < b /\ x + 1 \in 1 .. b
      BY <1>2, <1>7, <3>2, <3>3
    <3>5. IsGroup(d.pending[x + 1]) /\ Phased(K[i]) /\ \A j \in 1 .. i - 1 : K[j].boundary < K[i].boundary
      BY <2>1, <3>1, <3>3 DEF Nested
    <3> QED BY <1>8, <3>1, <3>3, <3>4, <3>5
  <2> QED BY <2>2 DEF Nested
<1>15. \A i \in DOMAIN p : KnownIn(Scope(d), decl, p[i].word)
  BY <1>5 DEF Good, WordsIn
<1>16. \A i \in DOMAIN q : KnownIn(Scope(d), decl, q[i].call)
  <2>1. \A i \in DOMAIN q : i \in DOMAIN d.pending /\ q[i] = d.pending[i]
    <3>1. Len(d.pending) = b + 1
      BY <1>a, <1>7
    <3>2. DOMAIN d.pending = 1 .. b + 1 /\ DOMAIN q = 1 .. b
      BY <1>0, <1>8, <3>1
    <3> QED BY <1>8, <3>2
  <2> QED BY <2>1 DEF Good, WordsIn
<1> QED
  BY <1>12, <1>13, <1>14, <1>15, <1>16, RebuiltGood

LEMMA CloseKeeps ==
  ASSUME Inv, NEW t, Close(t)
  PROVE  Inv'
<1>1. CASE Unsupported
  BY <1>1, UnsupportedKeeps
<1>2. CASE Recover
  BY <1>2, RecoverKeeps
<1>3. CASE Completed /\ Conditional.phase # "condition"
  <2>1. PICK e, k : e = Drained /\ k = Conditional
    OBVIOUS
  <2>2. /\ Good(e, declared, functions) /\ e.conditionals # <<>> /\ Len(e.pending) = k.boundary + 1
        /\ k = Last(e.conditionals) /\ k \in Unclosed /\ Phased(k) /\ k.phase \in Phases
    BY <1>3, <2>1, CompletedIs
  <2>3. ToFalseArm(k) \cup ToEnd(k) = Remembered(k)
    BY <1>3, <2>1, <2>2 DEF Phased, Phases, ToFalseArm, ToEnd, Remembered
  <2>4. PICK d : d = Emit(e, <<Operation("label", NoName)>>)
    OBVIOUS
  <2>5. PICK l : l = Len(d.operations)
    OBVIOUS
  <2>6. /\ Good(d, declared, functions) /\ d.operations # <<>> /\ d.operations[l].kind = "label"
        /\ d.pending = e.pending /\ d.conditionals = e.conditionals
    <3>1. Labelled(e, d)
      BY <2>4 DEF Labelled
    <3> QED BY <2>2, <2>5, <3>1, LabelGood
  <2>7. PICK p : p = Patched(d, Remembered(k), l)
    OBVIOUS
  <2>8. PICK f : f = [p EXCEPT !.conditionals = Front(@), !.pending = Front(@)]
    OBVIOUS
  <2>9. Good(f, declared, functions)
    <3>1. Finished(d, l, Remembered(k), f)
      BY <2>2, <2>5, <2>6, <2>7, <2>8 DEF Finished
    <3> QED BY <2>6, <3>1, FinishGood
  <2>10. PICK h1 : h1 = [f EXCEPT !.operand = FALSE]
    OBVIOUS
  <2>11. PICK h2 : h2 = [h1 EXCEPT !.start = FALSE]
    OBVIOUS
  <2>12. PICK h3 : h3 = [h2 EXCEPT !.assigned = FALSE]
    OBVIOUS
  <2>13. Good(h3, declared, functions)
    BY <2>9, <2>10, <2>11, <2>12, FlagGood
  <2>14. h3 = [Operand(p) EXCEPT !.conditionals = Front(@), !.pending = Front(@), !.assigned = FALSE]
    <3>1. d \in Compilation
      BY <2>6 DEF Good
    <3>2. PICK po : po = PatchedOps(d.operations, Remembered(k), l)
      OBVIOUS
    <3>3. p = [d EXCEPT !.operations = po]
      BY <2>7, <3>2 DEF Patched, PatchedOps
    <3>4. PICK C, Q : C = Front(d.conditionals) /\ Q = Front(d.pending)
      OBVIOUS
    <3>5. p.conditionals = d.conditionals /\ p.pending = d.pending
      BY <3>1, <3>3 DEF Compilation
    <3>6. f = [p EXCEPT !.conditionals = C, !.pending = Q]
      BY <2>8, <3>4, <3>5
    <3>7. PICK o : o = [p EXCEPT !.operand = FALSE, !.start = FALSE]
      OBVIOUS
    <3>8. o = Operand(p) /\ o.conditionals = d.conditionals /\ o.pending = d.pending
      BY <3>1, <3>3, <3>7 DEF Operand, Compilation
    <3>9. [Operand(p) EXCEPT !.conditionals = Front(@), !.pending = Front(@), !.assigned = FALSE]
            = [o EXCEPT !.conditionals = C, !.pending = Q, !.assigned = FALSE]
      BY <3>4, <3>8
    <3>10. h3 = [o EXCEPT !.conditionals = C, !.pending = Q, !.assigned = FALSE]
      BY <2>10, <2>11, <2>12, <3>1, <3>3, <3>6, <3>7 DEF Compilation
    <3> QED BY <3>9, <3>10
  <2>15. Compile(h3) /\ UNCHANGED session
    BY <1>3, <2>1, <2>3, <2>4, <2>5, <2>7, <2>14 DEF Close
  <2> QED BY <2>13, <2>15, Settled
<1> QED
  BY <1>1, <1>2, <1>3 DEF Close

LEMMA CloseGroupKeeps ==
  ASSUME Inv, NEW t, CloseGroup(t)
  PROVE  Inv'
<1>1. CASE Unsupported
  BY <1>1, UnsupportedKeeps
<1>2. CASE Recover
  BY <1>2, RecoverKeeps
<1> DEFINE group == Last(Drained.pending)
           simple == \A i \in group.from + 1..Len(Drained.operations) : Staged(Drained.operations[i])
           call == [Operation("call", group.call) EXCEPT
                      !.rebuilt = IF simple THEN Len(Drained.operations) - group.from ELSE 0]
           ops == IF group.call = NoName THEN <<>>
                  ELSE IF group.call \in Primitives THEN <<Operation(group.call, NoName)>> ELSE <<call>>
<1>3. CASE /\ Drained.pending # <<>> /\ ~Owned /\ UNCHANGED session
           /\ Compile([Operand(Emit(Drained, ops)) EXCEPT !.pending = Front(@)])
  <2>1. PICK d : d = Drained
    OBVIOUS
  <2>2. /\ Good(d, declared, functions) /\ d.conditionals = c.conditionals /\ Scope(d) = Scope(c)
        /\ d.pending # <<>>
    BY <1>3, <2>1, DrainedGood DEF Inv
  <2>3. /\ d.pending \in Seq(Pending) /\ d.conditionals \in Seq(Unclosed) /\ d.operations \in Seq(Op)
    BY <2>2 DEF Good, Compilation
  <2>4. PICK m \in Nat \ {0} : m = Len(d.pending)
    BY <2>2, <2>3, EmptySeq
  <2>5. PICK g : g = d.pending[m]
    OBVIOUS
  <2>6. g = group /\ g \in Pending /\ KnownIn(Scope(d), declared, g.call)
    BY <2>1, <2>2, <2>3, <2>4, <2>5 DEF Last, Good, WordsIn
  <2>7. g.call \in Tokens \cup {NoName} /\ g.from \in Nat
    BY <2>6 DEF Pending
  <2>8. PICK r \in Int : r = IF simple THEN Len(d.operations) - g.from ELSE 0
    BY <2>3, <2>7
  <2>9. PICK x : x = [Operation("call", g.call) EXCEPT !.rebuilt = r]
    OBVIOUS
  <2>10. x \in Op /\ Plainly(x) /\ x.word = g.call
    <3>1. x \in Op /\ x.kind = "call" /\ x.target = 0 /\ x.word = g.call
      BY <2>7, <2>8, <2>9 DEF Operation, Op, Kinds
    <3> QED BY <3>1 DEF Plainly, IsBranch
  <2>11. PICK o : o = IF g.call = NoName THEN <<>>
                      ELSE IF g.call \in Primitives THEN <<Operation(g.call, NoName)>> ELSE <<x>>
    OBVIOUS
  <2>12. o = ops
    BY <2>1, <2>6, <2>8, <2>9, <2>11
  <2>13. o \in Seq(Op) /\ \A i \in DOMAIN o : Plainly(o[i]) /\ KnownIn(Scope(d), declared, o[i].word)
    <3>1. CASE g.call = NoName
      <4>1. o = <<>>
        BY <2>11, <3>1
      <4> QED BY <4>1
    <3>2. CASE g.call # NoName /\ g.call \in Primitives
      <4>1. PICK y : y = Operation(g.call, NoName)
        OBVIOUS
      <4>2. y \in Op /\ Plainly(y) /\ KnownIn(Scope(d), declared, y.word)
        BY <3>2, <4>1, SpelledOp DEF Kinds, Primitives
      <4>3. o = <<y>>
        BY <2>11, <3>2, <4>1
      <4> QED BY <4>2, <4>3
    <3>3. CASE g.call # NoName /\ g.call \notin Primitives
      <4>1. o = <<x>>
        BY <2>11, <3>3
      <4> QED BY <2>6, <2>10, <4>1
    <3> QED BY <3>1, <3>2, <3>3
  <2>14. PICK e : e = Emit(d, o)
    OBVIOUS
  <2>15. /\ Good(e, declared, functions) /\ e.pending = d.pending /\ e.conditionals = d.conditionals
    BY <2>2, <2>13, <2>14, EmitGood
  <2>16. PICK f : f = Operand(e)
    OBVIOUS
  <2>17. Good(f, declared, functions) /\ f.pending = d.pending /\ f.conditionals = d.conditionals
    BY <2>15, <2>16, OperandGood DEF Flagged, Alike
  <2>18. PICK q : q = Front(d.pending)
    OBVIOUS
  <2>19. q \in Seq(Pending) /\ Len(q) = m - 1 /\ \A i \in 1 .. m - 1 : q[i] = d.pending[i]
    <3>1. q = SubSeq(d.pending, 1, m - 1)
      BY <2>4, <2>18 DEF Front
    <3> QED BY <2>3, <2>4, <3>1
  <2>20. Nested(q, d.conditionals)
    <3>1. PICK K : K = d.conditionals /\ K \in Seq(Unclosed) /\ Nested(d.pending, K)
      BY <2>2, <2>3 DEF Good
    <3>2. ASSUME NEW i \in DOMAIN K
          PROVE  /\ Phased(K[i]) /\ K[i].boundary < Len(q) /\ IsGroup(q[K[i].boundary + 1])
                 /\ \A j \in 1 .. i - 1 : K[j].boundary < K[i].boundary
      <4>1. PICK n \in Nat \ {0} : n = Len(K) /\ n \in DOMAIN K
        BY <3>1, <3>2
      <4>2. K[i] \in Unclosed /\ K[n] \in Unclosed
        BY <3>1, <3>2, <4>1
      <4>3. PICK b \in Nat, z \in Nat : b = K[i].boundary /\ z = K[n].boundary
        BY <4>2 DEF Unclosed
      <4>4. b < m /\ z < m /\ IsGroup(d.pending[b + 1])
        BY <2>4, <3>1, <3>2, <4>1, <4>3 DEF Nested
      <4>5. i < n => b < z
        BY <3>1, <3>2, <4>1, <4>3 DEF Nested
      <4>6. m # z + 1
        <5>1. K = c.conditionals /\ K # <<>>
          BY <2>2, <3>1, <4>1
        <5> QED BY <1>3, <2>1, <2>4, <4>1, <4>3, <5>1 DEF Owned, InConditional, Conditional, Last
      <4>7. b < m - 1 /\ b + 1 \in 1 .. m - 1
        BY SMTT(40), <3>1, <3>2, <4>1, <4>3, <4>4, <4>5, <4>6
      <4>8. Phased(K[i]) /\ \A j \in 1 .. i - 1 : K[j].boundary < K[i].boundary
        BY <3>1, <3>2 DEF Nested
      <4> QED BY <2>19, <4>3, <4>4, <4>7, <4>8
    <3> QED BY <3>1, <3>2 DEF Nested
  <2>21. PICK h : h = [f EXCEPT !.pending = q]
    OBVIOUS
  <2>22. Good(h, declared, functions)
    <3>1. \A i \in DOMAIN q : i \in DOMAIN f.pending /\ q[i] = f.pending[i]
      BY <2>3, <2>4, <2>17, <2>19
    <3>2. \A i \in DOMAIN q : KnownIn(Scope(f), declared, q[i].call)
      BY <2>17, <3>1 DEF Good, WordsIn
    <3> QED BY <2>17, <2>19, <2>20, <2>21, <3>2, PendingGood
  <2>23. Compile(h)
    BY <1>3, <2>1, <2>12, <2>14, <2>16, <2>17, <2>18, <2>21
  <2> QED BY <1>3, <2>22, <2>23, Settled
<1> QED
  BY <1>1, <1>2, <1>3 DEF CloseGroup

\* Declaring more loses no word.
Widens(decl, more) == \A w \in Words : decl[w] # "undeclared" => more[w] # "undeclared"

LEMMA WiderGood ==
  ASSUME NEW d, NEW decl, NEW more, NEW n, Good(d, decl, n), Widens(decl, more)
  PROVE  Good(d, more, n)
<1>1. \A S, w : KnownIn(S, decl, w) => KnownIn(S, more, w)
  BY DEF Widens, KnownIn
<1>2. WordsIn(d, more)
  BY <1>1 DEF Good, WordsIn
<1>3. SetAside(d.enclosing, more, d.held)
  BY <1>1 DEF Good, SetAside
<1> QED
  BY <1>2, <1>3 DEF Good

LEMMA NotedIs ==
  ASSUME Rest, NEW w \in Words, Noted(w)
  PROVE  /\ declared' \in [Words -> {"undeclared", "implicit", "explicit"}]
         /\ Widens(declared, declared') /\ (declared'[w] # "undeclared" \/ Local(w))
<1>1. declared \in [Words -> {"undeclared", "implicit", "explicit"}]
  BY DEF Rest
<1>2. CASE declared[w] = "undeclared" /\ ~Local(w)
  <2>1. declared' = [declared EXCEPT ![w] = "implicit"]
    BY <1>2 DEF Noted
  <2> QED BY <1>1, <2>1 DEF Widens
<1>3. CASE ~(declared[w] = "undeclared" /\ ~Local(w))
  <2>1. declared' = declared
    BY <1>3 DEF Noted
  <2> QED BY <1>1, <1>3, <2>1 DEF Widens
<1> QED
  BY <1>2, <1>3

LEMMA ScopeIs ==
  ASSUME NEW decl, NEW n, Good(c, decl, n), NEW w, Local(w)
  PROVE  Within(Scope(c), w)
<1>1. CASE InDefinition /\ Defines(Current, w)
  <2>1. c.definition \in Seq(Definition) /\ c.definition # <<>>
    BY <1>1 DEF Good, Compilation, InDefinition
  <2>2. PICK m : m = Len(c.definition)
    OBVIOUS
  <2>3. m \in DOMAIN c.definition /\ Current = c.definition[m]
    BY <2>1, <2>2, EmptySeq DEF Current, Last
  <2> QED BY <1>1, <2>3 DEF Within, Scope
<1>2. CASE \E i \in DOMAIN c.enclosing : Defines(c.enclosing[i].definition, w)
  <2>1. PICK i \in DOMAIN c.enclosing : Defines(c.enclosing[i].definition, w)
    BY <1>2
  <2>2. c.enclosing \in Seq(Around)
    BY DEF Good, Compilation
  <2>3. i \in 1 .. Len(c.enclosing)
    BY <2>1, <2>2
  <2> QED BY <2>1, <2>3 DEF Within, Scope, ScopeTo
<1> QED
  BY <1>1, <1>2 DEF Local

LEMMA WordKeeps ==
  ASSUME Inv, NEW t, Word(t)
  PROVE  Inv'
<1>0. t \in Words /\ Noted(t) /\ comment' = comment /\ functions' = functions /\ state' = state /\ Rest
  BY DEF Inv, Word
<1>1. /\ declared' \in [Words -> {"undeclared", "implicit", "explicit"}]
      /\ Widens(declared, declared') /\ (declared'[t] # "undeclared" \/ Local(t))
  BY <1>0, NotedIs
<1>2. Rest'
  BY <1>0, <1>1 DEF Rest
<1>3. PICK more : more = declared'
  OBVIOUS
<1>4. Good(c, more, functions)
  BY <1>1, <1>3, WiderGood DEF Inv
<1>5. KnownIn(Scope(c), more, t)
  BY <1>1, <1>3, <1>4, ScopeIs DEF KnownIn
<1>6. ASSUME NEW kind \in {"load", "store"}, NEW e, e = Operand(Emit(c, <<Operation(kind, t)>>))
      PROVE  Good(e, more, functions)
  <2>1. PICK op : op = Operation(kind, t)
    OBVIOUS
  <2>2. kind \in Kinds /\ t \in Tokens \cup {NoName}
    BY <1>0, <1>6 DEF Kinds, Tokens
  <2>3. op \in Op /\ op.kind = kind /\ op.word = t /\ op.target = 0
    BY <2>1, <2>2, OperationIs
  <2>4. Plainly(op)
    BY <1>6, <2>3 DEF Plainly, IsBranch
  <2>5. PICK f : f = Emit(c, <<op>>)
    OBVIOUS
  <2>6. Good(f, more, functions)
    BY <1>4, <1>5, <2>3, <2>4, <2>5, EmitOne
  <2> QED BY <1>6, <2>1, <2>5, <2>6, OperandGood
<1>7. CASE c' = Fresh
  BY <1>2, <1>7, Recovered
<1>8. ASSUME NEW d, Compile(d), Good(d, more, functions)
      PROVE  Inv'
  <2>1. Good(d, declared', functions')
    BY <1>0, <1>3, <1>8
  <2>2. Good(c', declared', functions') /\ Bounded(c')
    BY <1>8, <2>1, CompileKeeps
  <2> QED BY <1>2, <2>2 DEF Inv
<1>9. CASE Compile(Operand(Emit(c, <<Operation("load", t)>>)))
  <2>1. PICK d : d = Operand(Emit(c, <<Operation("load", t)>>))
    OBVIOUS
  <2>2. Good(d, more, functions)
    BY <1>6, <2>1
  <2> QED BY <1>8, <1>9, <2>1, <2>2
<1>10. CASE Compile([Operand(Emit(c, <<Operation("store", t)>>)) EXCEPT !.assignment = FALSE, !.assigned = TRUE])
  <2>1. PICK d : d = Operand(Emit(c, <<Operation("store", t)>>))
    OBVIOUS
  <2>2. Good(d, more, functions)
    BY <1>6, <2>1
  <2>3. PICK e : e = [d EXCEPT !.assignment = FALSE]
    OBVIOUS
  <2>4. Good(e, more, functions)
    BY <2>2, <2>3, FlagGood
  <2>5. PICK f : f = [e EXCEPT !.assigned = TRUE]
    OBVIOUS
  <2>6. Good(f, more, functions)
    BY <2>4, <2>5, FlagGood
  <2>7. Compile(f)
    BY <1>10, <2>1, <2>3, <2>5
  <2> QED BY <1>8, <2>6, <2>7
<1> QED
  BY <1>7, <1>9, <1>10 DEF Word

LEMMA StatementEndKeeps ==
  ASSUME Inv, NEW t, StatementEnd(t)
  PROVE  Inv'
<1>1. CASE Unsupported
  BY <1>1, UnsupportedKeeps
<1>2. CASE Recover
  BY <1>2, RecoverKeeps
<1>3. CASE Executed
  <2>1. c' = Fresh /\ Rest'
    BY <1>3 DEF Executed, Inv, Rest
  <2> QED BY <2>1, Recovered
<1> DEFINE ops == IF t = "=>" THEN <<Operation("print", NoName)>> ELSE <<>>
<1>4. CASE Begin([Emit(Drained, ops) EXCEPT !.declaration = FALSE]) /\ UNCHANGED session
  <2>1. PICK d : d = Drained
    OBVIOUS
  <2>2. /\ Good(d, declared, functions) /\ Len(d.pending) \in 0 .. Len(c.pending)
    BY <2>1, DrainedGood DEF Inv
  <2>3. PICK op : op = Operation("print", NoName)
    OBVIOUS
  <2>4. op \in Op /\ Plainly(op) /\ KnownIn(Scope(d), declared, op.word)
    BY <2>3, SpelledOp DEF Kinds
  <2>5. PICK o : o = IF t = "=>" THEN <<op>> ELSE <<>>
    OBVIOUS
  <2>6. o \in Seq(Op) /\ \A i \in DOMAIN o : Plainly(o[i]) /\ KnownIn(Scope(d), declared, o[i].word)
    <3>1. CASE t = "=>"
      BY <2>4, <2>5, <3>1
    <3>2. CASE t # "=>"
      <4>1. o = <<>>
        BY <2>5, <3>2
      <4> QED BY <4>1
    <3> QED BY <3>1, <3>2
  <2>7. PICK e : e = Emit(d, o)
    OBVIOUS
  <2>8. Good(e, declared, functions) /\ e.pending = d.pending
    BY <2>2, <2>6, <2>7, EmitGood
  <2>9. PICK f : f = [e EXCEPT !.declaration = FALSE]
    OBVIOUS
  <2>10. Good(f, declared, functions)
    BY <2>8, <2>9, FlagGood
  <2>11. f.pending = e.pending
    BY <2>9
  <2>12. Begin(f)
    BY <1>4, <2>1, <2>3, <2>5, <2>7, <2>9
  <2>13. Len(f.pending) <= Len(c.pending)
    BY <2>2, <2>8, <2>11
  <2> QED BY <1>4, <2>10, <2>12, <2>13, Started
<1> QED
  BY <1>1, <1>2, <1>3, <1>4 DEF StatementEnd

\* The last operation is taken back: it neither branches nor captures, and it is no label.
LEMMA TakenProgram ==
  ASSUME NEW ops \in Seq(Op), NEW m \in Nat \ {0}, Len(ops) = m, ops[m].kind = "load",
         NEW rest \in Seq(Op), Len(rest) = m - 1, \A i \in 1 .. m - 1 : rest[i] = ops[i],
         NEW roots \in Seq(Nat), NEW K \in Seq(Unclosed), Program(ops, roots, K), Opened(ops, K)
  PROVE  Program(rest, roots, K) /\ Opened(rest, K)
<1>1. /\ DOMAIN ops = 1 .. m /\ DOMAIN rest = 1 .. m - 1 /\ \A i \in DOMAIN rest : i \in DOMAIN ops /\ rest[i] = ops[i]
      /\ \A i \in DOMAIN ops : i = m \/ i \in DOMAIN rest
  OBVIOUS
<1>2. ASSUME NEW i \in DOMAIN rest
      PROVE  /\ IsBranch(rest[i]) => Linked(rest, i) \/ (rest[i].target = 0 /\ \E j \in DOMAIN K : i \in Remembered(K[j]))
             /\ rest[i].kind = "captured_value" => rest[i].target \in 1 .. Len(roots) /\ rest[i].target <= i
             /\ ~IsBranch(rest[i]) /\ rest[i].kind # "captured_value" => rest[i].target = 0
  <2>1. rest[i] = ops[i] /\ i \in DOMAIN ops
    BY <1>1, <1>2
  <2>2. ASSUME Linked(ops, i) PROVE Linked(rest, i)
    <3>1. PICK l \in DOMAIN ops : l = ops[i].target /\ l \in i + 1 .. m /\ ops[l].kind = "label"
      BY <1>1, <2>2 DEF Linked
    <3>2. l # m
      BY <3>1
    <3>3. l \in DOMAIN rest /\ rest[l] = ops[l] /\ l \in i + 1 .. Len(rest)
      BY <1>1, <1>2, <3>1, <3>2
    <3> QED BY <2>1, <3>1, <3>3 DEF Linked
  <2> QED BY <2>1, <2>2 DEF Program
<1>3. roots # <<>> => \E i \in DOMAIN rest : rest[i].kind = "captured_value" /\ Len(roots) <= i
  <2>1. ASSUME roots # <<>> PROVE \E i \in DOMAIN rest : rest[i].kind = "captured_value" /\ Len(roots) <= i
    <3>1. PICK i \in DOMAIN ops : ops[i].kind = "captured_value" /\ Len(roots) <= i
      BY <2>1 DEF Program
    <3>2. i # m
      BY <3>1
    <3> QED BY <1>1, <3>1, <3>2
  <2> QED BY <2>1
<1>4. ASSUME NEW i, NEW kind \in {"jump", "branch_true", "branch_false"}, Waits(ops, i, kind)
      PROVE  Waits(rest, i, kind)
  <2>1. i # m
    BY <1>4 DEF Waits
  <2> QED BY <1>1, <1>4, <2>1 DEF Waits
<1>5. \A j \in DOMAIN K : Remembers(rest, K[j])
  <2>1. ASSUME NEW k, Remembers(ops, k) PROVE Remembers(rest, k)
    BY <1>4, <2>1 DEF Remembers
  <2> QED BY <2>1 DEF Opened
<1> QED
  BY <1>2, <1>3, <1>5 DEF Program, Opened

LEMMA TakenGood ==
  ASSUME NEW d, NEW decl, NEW n, Good(d, decl, n), d.operations # <<>>, Last(d.operations).kind = "load",
         NEW e, e = [d EXCEPT !.operations = Front(d.operations)]
  PROVE  /\ Good(e, decl, n) /\ KnownIn(Scope(d), decl, Last(d.operations).word)
         /\ Last(d.operations).word \in Tokens \cup {NoName}
<1>0. d \in Compilation /\ d.operations \in Seq(Op) /\ d.roots \in Seq(Nat) /\ d.conditionals \in Seq(Unclosed)
  BY DEF Good, Compilation
<1>1. PICK m \in Nat \ {0} : m = Len(d.operations) /\ m \in DOMAIN d.operations
  BY SMTT(40), <1>0, EmptySeq
<1>2. PICK op : op = d.operations[m]
  OBVIOUS
<1>3. op \in Op /\ op = Last(d.operations) /\ op.kind = "load" /\ KnownIn(Scope(d), decl, op.word)
  BY <1>0, <1>1, <1>2 DEF Last, Good, WordsIn
<1>4. PICK rest : rest = SubSeq(d.operations, 1, m - 1)
  OBVIOUS
<1>5. rest \in Seq(Op) /\ Len(rest) = m - 1 /\ \A i \in 1 .. m - 1 : rest[i] = d.operations[i]
  BY <1>0, <1>1, <1>4
<1>6. e = [d EXCEPT !.operations = rest]
  BY <1>1, <1>4 DEF Front
<1>7. /\ e \in Compilation /\ e.operations = rest
      /\ e.roots = d.roots /\ e.pending = d.pending /\ e.conditionals = d.conditionals
      /\ e.definition = d.definition /\ e.enclosing = d.enclosing /\ e.held = d.held
      /\ e.open = d.open /\ e.call = d.call
  <2>1. rest \in Seq(Op)
    BY <1>5
  <2>2. d \in Compilation
    BY <1>0
  <2> QED BY <1>6, <2>1, <2>2, OperationsSet DEF Compilation
<1>8. Program(rest, d.roots, d.conditionals) /\ Opened(rest, d.conditionals)
  <2>1. Program(d.operations, d.roots, d.conditionals) /\ Opened(d.operations, d.conditionals)
    BY DEF Good
  <2>2. d.operations[m].kind = "load"
    BY <1>2, <1>3
  <2> QED BY <1>0, <1>1, <1>5, <2>1, <2>2, TakenProgram
<1>9. \A i \in DOMAIN rest : KnownIn(Scope(d), decl, rest[i].word)
  <2>1. \A i \in DOMAIN rest : i \in DOMAIN d.operations /\ rest[i] = d.operations[i]
    BY <1>0, <1>1, <1>5
  <2> QED BY <2>1 DEF Good, WordsIn
<1>10. Good(e, decl, n)
  <2>1. \A i \in DOMAIN d.pending : KnownIn(Scope(d), decl, d.pending[i].call)
    BY DEF Good, WordsIn
  <2>2. Nested(d.pending, d.conditionals)
    BY DEF Good
  <2> QED BY <1>7, <1>8, <1>9, <2>1, <2>2, RebuiltGood
<1>11. op.word \in Tokens \cup {NoName}
  BY <1>3 DEF Op
<1> QED
  BY <1>3, <1>10, <1>11

LEMMA OpenKeeps ==
  ASSUME Inv, NEW t, Open(t)
  PROVE  Inv'
<1>0. Good(c, declared, functions) /\ c \in Compilation /\ c.operations \in Seq(Op)
  BY DEF Inv, Good, Compilation
<1>1. CASE Unsupported
  BY <1>1, UnsupportedKeeps
<1> DEFINE applied == ~c.operand /\ ~c.assignment /\ c.operations # <<>> /\ Last(c.operations).kind = "load"
<1>2. PICK ops : ops = IF applied THEN Front(c.operations) ELSE c.operations
  OBVIOUS
<1>3. PICK callee : callee = IF applied THEN Last(c.operations).word ELSE NoName
  OBVIOUS
<1>4. CASE UNCHANGED session /\ Compile([Pushed(Group(callee, Len(ops))) EXCEPT !.operations = ops])
  <2>1. PICK d : d = [c EXCEPT !.operations = ops]
    OBVIOUS
  <2>2. Good(d, declared, functions) /\ KnownIn(Scope(c), declared, callee) /\ callee \in Tokens \cup {NoName}
    <3>1. CASE applied
      <4>1. ops = Front(c.operations) /\ callee = Last(c.operations).word
        BY <1>2, <1>3, <3>1
      <4> QED BY <1>0, <2>1, <3>1, <4>1, TakenGood
    <3>2. CASE ~applied
      <4>1. ops = c.operations /\ callee = NoName
        BY <1>2, <1>3, <3>2
      <4>2. d = c
        BY <1>0, <2>1, <4>1 DEF Compilation
      <4> QED BY <1>0, <4>1, <4>2, SpellingsKnown
    <3> QED BY <3>1, <3>2
  <2>3. d \in Compilation /\ d.operations = ops /\ ops \in Seq(Op)
    <3>1. d \in Compilation
      BY <2>2 DEF Good
    <3>2. d.operations = ops
      BY <1>0, <2>1 DEF Compilation
    <3> QED BY <3>1, <3>2 DEF Compilation
  <2>4. PICK from \in Nat : from = Len(ops)
    BY <2>3
  <2>5. PICK p : p = Group(callee, from)
    OBVIOUS
  <2>6. p \in Pending /\ p.call = callee
    BY <2>2, <2>4, <2>5, GroupIs
  <2>7. Scope(d) = Scope(c)
    BY <2>1, <1>0 DEF Scope, Compilation
  <2>8. PICK e : e = [d EXCEPT !.pending = Append(@, p)]
    OBVIOUS
  <2>9. Good(e, declared, functions)
    BY <2>2, <2>6, <2>7, <2>8, PushGood
  <2>10. PICK f : f = [e EXCEPT !.operand = TRUE]
    OBVIOUS
  <2>11. Good(f, declared, functions)
    BY <2>9, <2>10, FlagGood
  <2>12. PICK g : g = [f EXCEPT !.start = TRUE]
    OBVIOUS
  <2>13. Good(g, declared, functions)
    BY <2>11, <2>12, FlagGood
  <2>14. g = [Pushed(p) EXCEPT !.operations = ops]
    <3>1. PICK q : q = Append(c.pending, p)
      OBVIOUS
    <3>2. d.pending = c.pending
      BY <1>0, <2>1 DEF Compilation
    <3>3. e = [d EXCEPT !.pending = q]
      BY <2>8, <3>1, <3>2
    <3>4. Pushed(p) = [c EXCEPT !.pending = q, !.operand = TRUE, !.start = TRUE]
      BY <3>1 DEF Pushed
    <3> QED BY <1>0, <2>1, <2>10, <2>12, <3>3, <3>4 DEF Compilation
  <2>15. Compile(g)
    BY <1>4, <2>4, <2>5, <2>14
  <2> QED BY <1>4, <2>13, <2>15, Settled
<1>5. Unsupported \/ (UNCHANGED session /\ Compile([Pushed(Group(callee, Len(ops))) EXCEPT !.operations = ops]))
  BY <1>2, <1>3 DEF Open
<1> QED
  BY <1>1, <1>4, <1>5

\* The innermost definition gets a name, a word or a body: what was in scope stays in scope.
LEMMA DefinitionGood ==
  ASSUME NEW d, NEW decl, NEW n, Good(d, decl, n), NEW y, d.definition = <<y>>, NEW x \in Definition,
         \A w \in Words : Defines(y, w) => Defines(x, w),
         (d.enclosing # <<>> /\ x.name \in Words) => Bound(d.enclosing[Len(d.enclosing)].definition, x.name),
         NEW e, e = [d EXCEPT !.definition = <<x>>]
  PROVE  /\ Good(e, decl, n) /\ e.definition = <<x>> /\ e.enclosing = d.enclosing
         /\ e.operations = d.operations /\ e.pending = d.pending
<1>0. d \in Compilation /\ Defined(d)
  BY DEF Good
<1>1. PICK v : v = <<x>>
  OBVIOUS
<1>2. v \in Seq(Definition) /\ Len(v) = 1 /\ v # <<>> /\ DOMAIN v = {1} /\ v[1] = x
  BY <1>1
<1>3. e = [d EXCEPT !.definition = v]
  BY <1>1
<1>4. /\ e \in Compilation /\ e.definition = v
      /\ e.roots = d.roots /\ e.operations = d.operations /\ e.pending = d.pending
      /\ e.conditionals = d.conditionals /\ e.enclosing = d.enclosing /\ e.held = d.held
      /\ e.open = d.open /\ e.call = d.call
  BY <1>0, <1>2, <1>3, DefinitionSet
<1>5. Scope(d) = {y} \cup ScopeTo(d.enclosing, Len(d.enclosing))
  BY DEF Scope
<1>6. Scope(e) = {x} \cup ScopeTo(d.enclosing, Len(d.enclosing))
  BY <1>2, <1>4 DEF Scope
<1>7. ASSUME NEW w, KnownIn(Scope(d), decl, w) PROVE KnownIn(Scope(e), decl, w)
  <2>1. ASSUME w \in Words, Within(Scope(d), w) PROVE Within(Scope(e), w)
    <3>1. PICK z \in Scope(d) : Defines(z, w)
      BY <2>1 DEF Within
    <3>2. CASE z = y
      BY <1>6, <2>1, <3>1, <3>2 DEF Within
    <3>3. CASE z \in ScopeTo(d.enclosing, Len(d.enclosing))
      BY <1>6, <3>1, <3>3 DEF Within
    <3> QED BY <1>5, <3>1, <3>2, <3>3
  <2> QED BY <1>7, <2>1 DEF KnownIn
<1>8. WordsIn(e, decl)
  BY <1>4, <1>7 DEF Good, WordsIn
<1>9. Defined(e)
  BY <1>0, <1>2, <1>4 DEF Defined
<1>10. Held(e, n)
  BY <1>4 DEF Good, Held
<1> QED
  BY <1>1, <1>4, <1>8, <1>9, <1>10 DEF Good

\* The definition being compiled, and the words it has with one more.
LEMMA CurrentIs ==
  ASSUME NEW decl, NEW n, Good(c, decl, n), InDefinition
  PROVE  /\ Current \in Definition /\ c.definition = <<Current>>
         /\ Current.name \in Words \cup {NoName} /\ Current.bindings \in Seq([word : Words, argument : BOOLEAN])
<1>1. c.definition \in Seq(Definition) /\ Len(c.definition) <= 1 /\ c.definition # <<>>
  BY DEF Good, Compilation, Defined, InDefinition
<1>2. Len(c.definition) = 1
  <2>1. PICK q : q = c.definition
    OBVIOUS
  <2>2. PICK m : m = Len(q)
    OBVIOUS
  <2>3. m \in Nat /\ m # 0 /\ m <= 1
    <3>1. q \in Seq(Definition) /\ q # <<>>
      BY <1>1, <2>1
    <3> QED BY <1>1, <2>1, <2>2, <3>1, EmptySeq
  <2>4. m = 1
    BY <2>3
  <2>5. Len(q) = 1
    BY <2>2, <2>4
  <2> QED BY <2>1, <2>5
<1>3. Current = c.definition[1] /\ Current \in Definition
  BY <1>1, <1>2 DEF Current, Last
<1>4. c.definition = <<Current>>
  BY <1>1, <1>2, <1>3
<1> QED
  BY <1>3, <1>4 DEF Definition

LEMMA WithLocalIs ==
  ASSUME NEW d \in Definition, NEW t \in Words, NEW b \in BOOLEAN, NEW x, x = WithLocal(d, t, b)
  PROVE  /\ x \in Definition /\ x.name = d.name /\ Bound(x, t)
         /\ \A w : Bound(d, w) => Bound(x, w)
         /\ \A w : Defines(d, w) => Defines(x, w)
<1>1. PICK p : p = Binding(t, b)
  OBVIOUS
<1>2. p \in [word : Words, argument : BOOLEAN] /\ p.word = t
  BY <1>1 DEF Binding
<1>3. PICK q : q = d.bindings
  OBVIOUS
<1>4. q \in Seq([word : Words, argument : BOOLEAN])
  BY <1>3 DEF Definition
<1>5. PICK r : r = Append(q, p)
  OBVIOUS
<1>6. /\ r \in Seq([word : Words, argument : BOOLEAN]) /\ Len(r) = Len(q) + 1 /\ r[Len(q) + 1] = p
      /\ \A i \in 1 .. Len(q) : r[i] = q[i]
  BY <1>2, <1>4, <1>5, AppendProperties
<1>7. x = [d EXCEPT !.bindings = r]
  BY <1>1, <1>3, <1>5 DEF WithLocal
<1>8. x \in Definition /\ x.name = d.name /\ x.bindings = r
  BY <1>6, <1>7 DEF Definition
<1>9. Bound(x, t)
  <2>1. Len(q) + 1 \in DOMAIN r /\ r[Len(q) + 1].word = t
    BY <1>2, <1>4, <1>6
  <2> QED BY <1>8, <2>1 DEF Bound
<1>10. ASSUME NEW w, Bound(d, w) PROVE Bound(x, w)
  <2>1. PICK i \in DOMAIN q : q[i].word = w
    BY <1>3, <1>10 DEF Bound
  <2>2. i \in DOMAIN r /\ r[i] = q[i]
    BY <1>4, <1>6, <2>1
  <2> QED BY <1>8, <2>1, <2>2 DEF Bound
<1> QED
  BY <1>8, <1>9, <1>10 DEF Defines

LEMMA DeclareKeeps ==
  ASSUME Inv, NEW t, Declare(t)
  PROVE  Inv'
<1>0. Good(c, declared, functions) /\ Rest /\ Bounded(c)
  BY DEF Inv
<1>1. CASE Recover
  BY <1>1, RecoverKeeps
<1>2. CASE Unsupported
  BY <1>2, UnsupportedKeeps
<1>3. CASE /\ t \in Words /\ InDefinition /\ Compile([c EXCEPT !.definition = <<WithLocal(Current, t, FALSE)>>])
           /\ UNCHANGED session
  <2>1. PICK x : x = WithLocal(Current, t, FALSE)
    OBVIOUS
  <2>2. PICK y : y = Current
    OBVIOUS
  <2>3. c.definition = <<y>> /\ y \in Definition
    BY <1>0, <1>3, <2>2, CurrentIs
  <2>4. PICK b \in BOOLEAN : b = FALSE
    OBVIOUS
  <2>5. x = WithLocal(y, t, b)
    BY <2>1, <2>2, <2>4
  <2>6. /\ x \in Definition /\ x.name = y.name
        /\ \A w : Defines(y, w) => Defines(x, w)
    BY <1>3, <2>3, <2>5, WithLocalIs
  <2>7. (c.enclosing # <<>> /\ x.name \in Words) => Bound(c.enclosing[Len(c.enclosing)].definition, x.name)
    BY <1>0, <2>3, <2>6 DEF Good, Defined
  <2>8. PICK d : d = [c EXCEPT !.definition = <<x>>]
    OBVIOUS
  <2>9. Good(d, declared, functions)
    <3>1. \A w \in Words : Defines(y, w) => Defines(x, w)
      BY <2>6
    <3>2. x \in Definition
      BY <2>6
    <3> QED BY <1>0, <2>3, <2>7, <2>8, <3>1, <3>2, DefinitionGood
  <2>10. Compile(d)
    BY <1>3, <2>1, <2>8
  <2> QED BY <1>3, <2>9, <2>10, Settled
<1>4. CASE /\ t \in Words /\ Compile(c) /\ declared' = [declared EXCEPT ![t] = "explicit"]
           /\ UNCHANGED <<comment, functions, state>>
  <2>1. /\ declared' \in [Words -> {"undeclared", "implicit", "explicit"}] /\ Widens(declared, declared')
    BY <1>0, <1>4 DEF Rest, Widens
  <2>2. PICK more : more = declared'
    OBVIOUS
  <2>3. Good(c, more, functions)
    BY <1>0, <2>1, <2>2, WiderGood
  <2>4. Good(c, declared', functions')
    BY <1>4, <2>2, <2>3
  <2>5. Good(c', declared', functions') /\ Bounded(c')
    BY <1>4, <2>4, CompileKeeps
  <2>6. Rest'
    BY <1>0, <1>4, <2>1 DEF Rest
  <2> QED BY <2>5, <2>6 DEF Inv
<1> QED
  BY <1>1, <1>2, <1>3, <1>4 DEF Declare, session

\* The definition around the one being compiled gets a word.
Widened(q, r, m) ==
  /\ q \in Seq(Around) /\ r \in Seq(Around) /\ m \in Nat \ {0} /\ Len(q) = m /\ Len(r) = m
  /\ \A i \in 1 .. m - 1 : r[i] = q[i]
  /\ r[m].operations = q[m].operations /\ r[m].roots = q[m].roots
  /\ r[m].definition.name = q[m].definition.name
  /\ \A w : Bound(q[m].definition, w) => Bound(r[m].definition, w)

LEMMA WidenedScope ==
  ASSUME NEW q, NEW r, NEW m, Widened(q, r, m), NEW S, NEW i \in 1 .. m, NEW decl, NEW w,
         KnownIn(S \cup ScopeTo(q, i), decl, w)
  PROVE  KnownIn(S \cup ScopeTo(r, i), decl, w)
<1>1. ASSUME w \in Words, Within(S \cup ScopeTo(q, i), w) PROVE Within(S \cup ScopeTo(r, i), w)
  <2>1. PICK x \in S \cup ScopeTo(q, i) : Defines(x, w)
    BY <1>1 DEF Within
  <2>2. CASE x \in S
    BY <2>1, <2>2 DEF Within
  <2>3. CASE x \in ScopeTo(q, i)
    <3>1. PICK j \in 1 .. i : x = q[j].definition
      BY <2>3 DEF ScopeTo
    <3>2. Defines(r[j].definition, w)
      <4>1. m \in Nat \ {0}
        BY DEF Widened
      <4>2. CASE j = m
        BY <2>1, <3>1, <4>2 DEF Widened, Defines
      <4>3. CASE j # m
        <5>1. j \in 1 .. m - 1
          BY <3>1, <4>1, <4>3
        <5> QED BY <2>1, <3>1, <5>1 DEF Widened
      <4> QED BY <4>2, <4>3
    <3>3. r[j].definition \in ScopeTo(r, i)
      BY <3>1 DEF ScopeTo
    <3> QED BY <3>2, <3>3 DEF Within
  <2> QED BY <2>1, <2>2, <2>3
<1> QED
  BY <1>1 DEF KnownIn

Outside(d, r, m, e) == Widened(d.enclosing, r, m) /\ e = [d EXCEPT !.enclosing = r]

LEMMA OuterGood ==
  ASSUME NEW d, NEW decl, NEW n, Good(d, decl, n), NEW r, NEW m, NEW e, Outside(d, r, m, e)
  PROVE  /\ Good(e, decl, n) /\ e.enclosing = r /\ e.definition = d.definition
<1>0. d \in Compilation /\ Defined(d) /\ SetAside(d.enclosing, decl, d.held) /\ WordsIn(d, decl)
  BY DEF Good
<1>1. PICK q : q = d.enclosing
  OBVIOUS
<1>2. /\ Widened(q, r, m) /\ q \in Seq(Around) /\ r \in Seq(Around) /\ m \in Nat \ {0} /\ Len(q) = m /\ Len(r) = m
      /\ DOMAIN q = 1 .. m /\ DOMAIN r = 1 .. m
  BY <1>1 DEF Outside, Widened
<1>3. /\ e \in Compilation /\ e.enclosing = r
      /\ e.operations = d.operations /\ e.pending = d.pending
      /\ e.conditionals = d.conditionals /\ e.definition = d.definition /\ e.held = d.held
      /\ e.open = d.open /\ e.call = d.call
  BY <1>0, <1>2, EnclosingSet DEF Outside
<1>4. e.roots = d.roots
  BY <1>0 DEF Compilation, Outside
<1>5. PICK S : S = {d.definition[i] : i \in DOMAIN d.definition}
  OBVIOUS
<1>6. Scope(d) = S \cup ScopeTo(q, m) /\ Scope(e) = S \cup ScopeTo(r, m)
  BY <1>1, <1>2, <1>3, <1>5 DEF Scope
<1>7. \A w : KnownIn(Scope(d), decl, w) => KnownIn(Scope(e), decl, w)
  <2>1. m \in 1 .. m /\ Widened(q, r, m)
    BY <1>2
  <2>2. ASSUME NEW w, KnownIn(Scope(d), decl, w) PROVE KnownIn(Scope(e), decl, w)
    <3>1. KnownIn(S \cup ScopeTo(q, m), decl, w)
      BY <1>6, <2>2
    <3>2. KnownIn(S \cup ScopeTo(r, m), decl, w)
      BY <2>1, <3>1, WidenedScope
    <3> QED BY <1>6, <3>2
  <2> QED BY <2>2
<1>8. WordsIn(e, decl)
  BY <1>0, <1>3, <1>7 DEF WordsIn
<1>9. ASSUME NEW i \in DOMAIN r
      PROVE  r[i].operations = q[i].operations /\ r[i].roots = q[i].roots
  <2>1. CASE i = m
    BY <1>2, <2>1 DEF Widened
  <2>2. CASE i # m
    <3>1. i \in 1 .. m - 1
      BY <1>2, <1>9, <2>2
    <3> QED BY <1>2, <3>1 DEF Widened
  <2> QED BY <2>1, <2>2
<1>10. SetAside(r, decl, d.held)
  <2>1. SetAside(q, decl, d.held)
    BY <1>0, <1>1
  <2>2. ASSUME NEW i \in DOMAIN r, NEW w, KnownIn(ScopeTo(q, i), decl, w) PROVE KnownIn(ScopeTo(r, i), decl, w)
    <3>1. PICK E : E = {}
      OBVIOUS
    <3>2. ScopeTo(q, i) = E \cup ScopeTo(q, i) /\ ScopeTo(r, i) = E \cup ScopeTo(r, i)
      BY <3>1
    <3>3. i \in 1 .. m
      BY <1>2, <2>2
    <3>4. KnownIn(E \cup ScopeTo(r, i), decl, w)
      <4>1. KnownIn(E \cup ScopeTo(q, i), decl, w)
        BY <2>2, <3>2
      <4> QED BY <1>2, <3>3, <4>1, WidenedScope
    <3> QED BY <3>2, <3>4
  <2>3. ASSUME NEW i \in DOMAIN r
        PROVE  /\ Program(r[i].operations, r[i].roots, <<>>)
               /\ \A j \in DOMAIN r[i].operations : KnownIn(ScopeTo(r, i), decl, r[i].operations[j].word)
               /\ \A j \in DOMAIN r[i].roots : r[i].roots[j] \in d.held
    <3>1. i \in DOMAIN q /\ r[i].operations = q[i].operations /\ r[i].roots = q[i].roots
      BY <1>2, <1>9, <2>3
    <3>2. /\ Program(q[i].operations, q[i].roots, <<>>)
          /\ \A j \in DOMAIN q[i].operations : KnownIn(ScopeTo(q, i), decl, q[i].operations[j].word)
          /\ \A j \in DOMAIN q[i].roots : q[i].roots[j] \in d.held
      BY <2>1, <3>1 DEF SetAside
    <3> QED BY <2>2, <2>3, <3>1, <3>2
  <2> QED BY <2>3 DEF SetAside
<1>11. Defined(e)
  <2>1. ASSUME e.enclosing # <<>>
        PROVE  /\ e.definition # <<>>
               /\ e.definition[1].name \in Words => Bound(r[m].definition, e.definition[1].name)
    <3>1. q # <<>>
      BY <1>2
    <3> QED BY <1>0, <1>1, <1>2, <1>3, <3>1 DEF Defined, Widened
  <2>2. ASSUME NEW i \in 2 .. m, r[i].definition.name \in Words
        PROVE  Bound(r[i - 1].definition, r[i].definition.name)
    <3>1. i - 1 \in 1 .. m - 1
      BY <1>2, <2>2
    <3>2. r[i - 1] = q[i - 1]
      BY <1>2, <3>1 DEF Widened
    <3>3. r[i].definition.name = q[i].definition.name
      <4>1. CASE i = m
        BY <1>2, <4>1 DEF Widened
      <4>2. CASE i # m
        <5>1. i \in 1 .. m - 1
          BY <1>2, <2>2, <4>2
        <5> QED BY <1>2, <5>1 DEF Widened
      <4> QED BY <4>1, <4>2
    <3> QED BY <1>0, <1>1, <1>2, <2>2, <3>2, <3>3 DEF Defined
  <2>3. Len(e.definition) <= 1
    BY <1>0, <1>3 DEF Defined
  <2> QED BY <1>2, <1>3, <2>1, <2>2, <2>3 DEF Defined
<1>12. Held(e, n)
  BY <1>3, <1>4 DEF Good, Held
<1>13. SetAside(e.enclosing, decl, e.held)
  BY <1>3, <1>10
<1> QED
  BY <1>3, <1>4, <1>8, <1>11, <1>12, <1>13 DEF Good

\* The program around the one being compiled gets the name of the inner function.
NamedIn(m, t, r, e) ==
  /\ m \in Nat /\ m # 0 /\ m = Len(c.enclosing) /\ t \in Words
  /\ r = [c.enclosing EXCEPT ![m].definition = WithLocal(@, t, FALSE)]
  /\ e = [c EXCEPT !.enclosing = r]

LEMMA OuterLocal ==
  ASSUME NEW decl, NEW n, Good(c, decl, n), NEW m, NEW t, NEW r, NEW e, NamedIn(m, t, r, e)
  PROVE  /\ Good(e, decl, n) /\ e.enclosing = r /\ e.definition = c.definition
         /\ Len(r) = m /\ Bound(r[m].definition, t)
<1>0. /\ m \in Nat /\ m # 0 /\ m = Len(c.enclosing) /\ t \in Words
      /\ r = [c.enclosing EXCEPT ![m].definition = WithLocal(@, t, FALSE)]
      /\ e = [c EXCEPT !.enclosing = r]
  BY DEF NamedIn
<1>1. PICK q : q = c.enclosing
  OBVIOUS
<1>2. q \in Seq(Around) /\ Len(q) = m /\ m \in DOMAIN q /\ DOMAIN q = 1 .. m
  BY <1>0, <1>1 DEF Good, Compilation
<1>3. PICK a \in Around : a = q[m]
  BY <1>2
<1>4. PICK y \in Definition : y = a.definition
  BY <1>3 DEF Around
<1>5. PICK b \in BOOLEAN : b = FALSE
  OBVIOUS
<1>6. PICK x : x = WithLocal(y, t, b)
  OBVIOUS
<1>7. x \in Definition /\ x.name = y.name /\ Bound(x, t) /\ \A w : Bound(y, w) => Bound(x, w)
  BY <1>0, <1>6, WithLocalIs
<1>8. PICK z : z = [a EXCEPT !.definition = x]
  OBVIOUS
<1>9. z \in Around /\ z.operations = a.operations /\ z.roots = a.roots /\ z.definition = x
  BY <1>7, <1>8 DEF Around
<1>10. r = [q EXCEPT ![m] = z]
  BY <1>0, <1>1, <1>2, <1>3, <1>4, <1>5, <1>6, <1>8
<1>11. r \in Seq(Around) /\ Len(r) = m /\ r[m] = z /\ \A i \in 1 .. m - 1 : r[i] = q[i]
  <2>1. /\ [q EXCEPT ![m] = z] \in Seq(Around) /\ Len([q EXCEPT ![m] = z]) = Len(q)
        /\ \A i \in 1 .. Len(q) : [q EXCEPT ![m] = z][i] = IF i = m THEN z ELSE q[i]
    <3>1. m \in 1 .. Len(q) /\ z \in Around /\ q \in Seq(Around)
      BY <1>2, <1>9
    <3> QED BY <3>1, ExceptSeq
  <2>2. r \in Seq(Around) /\ Len(r) = m /\ \A i \in 1 .. m : r[i] = IF i = m THEN z ELSE q[i]
    BY <1>2, <1>10, <2>1
  <2>3. \A i \in 1 .. m - 1 : i \in 1 .. m /\ i # m
    BY <1>0
  <2> QED BY <1>2, <2>2, <2>3
<1>12. Widened(q, r, m)
  BY <1>2, <1>3, <1>4, <1>7, <1>9, <1>11 DEF Widened
<1>13. Good(e, decl, n) /\ e.enclosing = r /\ e.definition = c.definition
  <2>1. PICK d : d = c
    OBVIOUS
  <2>2. Outside(d, r, m, e) /\ Good(d, decl, n)
    BY <1>0, <1>1, <1>12, <2>1 DEF Outside
  <2>3. Good(e, decl, n) /\ e.enclosing = r /\ e.definition = d.definition
    BY <2>2, OuterGood
  <2> QED BY <2>1, <2>3
<1> QED
  BY <1>7, <1>9, <1>11, <1>13

LEMMA HeaderNameKeeps ==
  ASSUME Inv, NEW t, InDefinition, HeaderName(t), UNCHANGED <<comment, functions, state>>
  PROVE  Inv'
<1>0. /\ Good(c, declared, functions) /\ Rest /\ c \in Compilation /\ c.enclosing \in Seq(Around)
      /\ t \in Words /\ Current.name = NoName
  BY DEF Inv, HeaderName, Good, Compilation
<1>1. PICK y \in Definition : y = Current /\ c.definition = <<y>> /\ y.name = NoName
  BY <1>0, CurrentIs
<1>2. PICK x : x = [y EXCEPT !.name = t]
  OBVIOUS
<1>3. x \in Definition /\ x.name = t /\ x.bindings = y.bindings
  BY <1>0, <1>2 DEF Definition
<1>4. \A w \in Words : Defines(y, w) => Defines(x, w)
  BY <1>1, <1>3, AlphabetAssumption DEF Defines, Bound
<1>5. PICK m \in Nat : m = Len(c.enclosing)
  BY <1>0
<1>6. CASE m = 0
  <2>1. c.enclosing = <<>>
    BY <1>0, <1>5, <1>6, EmptySeq
  <2>2. PICK d : d = [c EXCEPT !.definition = <<x>>]
    OBVIOUS
  <2>3. Good(d, declared, functions)
    <3>1. (c.enclosing # <<>> /\ x.name \in Words) => Bound(c.enclosing[Len(c.enclosing)].definition, x.name)
      BY <2>1
    <3>2. c.definition = <<y>>
      BY <1>1
    <3>3. x \in Definition
      BY <1>3
    <3> QED BY <1>0, <1>4, <2>2, <3>1, <3>2, <3>3, DefinitionGood
  <2>4. Compile(d) /\ declared' = [declared EXCEPT ![t] = "explicit"]
    BY <1>1, <1>2, <1>5, <1>6, <2>2 DEF HeaderName
  <2>5. /\ declared' \in [Words -> {"undeclared", "implicit", "explicit"}] /\ Widens(declared, declared')
    BY <1>0, <2>4 DEF Rest, Widens
  <2>6. PICK more : more = declared'
    OBVIOUS
  <2>7. Good(d, more, functions)
    BY <2>3, <2>5, <2>6, WiderGood
  <2>8. Good(d, declared', functions')
    BY <2>6, <2>7
  <2>9. Good(c', declared', functions') /\ Bounded(c')
    BY <2>4, <2>8, CompileKeeps
  <2>10. Rest'
    BY <1>0, <2>5 DEF Rest
  <2> QED BY <2>9, <2>10 DEF Inv
<1>7. CASE m # 0
  <2>1. PICK r : r = [c.enclosing EXCEPT ![m].definition = WithLocal(@, t, FALSE)]
    OBVIOUS
  <2>2. PICK e : e = [c EXCEPT !.enclosing = r]
    OBVIOUS
  <2>3. /\ Good(e, declared, functions) /\ e.enclosing = r /\ e.definition = c.definition
        /\ Len(r) = m /\ Bound(r[m].definition, t)
    <3>1. Good(c, declared, functions) /\ t \in Words
      BY <1>0
    <3>2. m \in Nat /\ m # 0 /\ m = Len(c.enclosing)
      BY <1>5, <1>7
    <3>3. NamedIn(m, t, r, e)
      BY <2>1, <2>2, <3>1, <3>2 DEF NamedIn
    <3> QED BY <3>1, <3>3, OuterLocal
  <2>4. PICK f : f = [e EXCEPT !.definition = <<x>>]
    OBVIOUS
  <2>5. Good(f, declared, functions)
    <3>1. (e.enclosing # <<>> /\ x.name \in Words) => Bound(e.enclosing[Len(e.enclosing)].definition, x.name)
      BY <1>3, <2>3
    <3>2. e.definition = <<y>>
      BY <1>1, <2>3
    <3>3. x \in Definition
      BY <1>3
    <3>4. Good(e, declared, functions)
      BY <2>3
    <3> QED BY <1>4, <2>4, <3>1, <3>2, <3>3, <3>4, DefinitionGood
  <2>6. PICK d : d = [c EXCEPT !.definition = <<x>>]
    OBVIOUS
  <2>7. PICK g : g = [d EXCEPT !.enclosing[m].definition = WithLocal(@, t, FALSE)]
    OBVIOUS
  <2>8. f = g
    <3>1. d.enclosing = c.enclosing
      BY <1>0, <2>6 DEF Compilation
    <3>2. g = [d EXCEPT !.enclosing = r]
      BY <2>1, <2>7, <3>1
    <3> QED BY <1>0, <2>2, <2>4, <2>6, <3>2 DEF Compilation
  <2>9. Compile(g) /\ UNCHANGED declared
    BY <1>1, <1>2, <1>5, <1>7, <2>6, <2>7 DEF HeaderName
  <2> QED BY <2>5, <2>8, <2>9, Settled DEF session
<1> QED
  BY <1>6, <1>7

LEMMA HeaderKeeps ==
  ASSUME Inv, NEW t, Header(t)
  PROVE  Inv'
<1>0. /\ Good(c, declared, functions) /\ Rest /\ c \in Compilation /\ Bounded(c) /\ InDefinition
  BY DEF Inv, Header, Good, InHeader
<1>1. CASE HeaderFails(t) /\ Unsupported
  BY <1>1, UnsupportedKeeps
<1>2. CASE HeaderName(t) /\ UNCHANGED <<comment, functions, state>>
  BY <1>0, <1>2, HeaderNameKeeps
<1>3. PICK y \in Definition : y = Current /\ c.definition = <<y>>
  BY <1>0, CurrentIs
<1>4. CASE HeaderFormal(t) /\ UNCHANGED <<comment, functions, state>>
  <2>1. PICK b \in BOOLEAN : b = TRUE
    OBVIOUS
  <2>2. PICK x : x = WithLocal(y, t, b)
    OBVIOUS
  <2>3. t \in Words /\ Compile([c EXCEPT !.definition = <<x>>]) /\ UNCHANGED session
    BY <1>3, <1>4, <2>1, <2>2 DEF HeaderFormal, session
  <2>4. x \in Definition /\ x.name = y.name /\ \A w : Defines(y, w) => Defines(x, w)
    BY <2>2, <2>3, WithLocalIs
  <2>5. (c.enclosing # <<>> /\ x.name \in Words) => Bound(c.enclosing[Len(c.enclosing)].definition, x.name)
    BY <1>0, <1>3, <2>4 DEF Good, Defined
  <2>6. PICK d : d = [c EXCEPT !.definition = <<x>>]
    OBVIOUS
  <2>7. Good(d, declared, functions)
    <3>1. \A w \in Words : Defines(y, w) => Defines(x, w)
      BY <2>4
    <3>2. x \in Definition
      BY <2>4
    <3>3. c.definition = <<y>>
      BY <1>3
    <3> QED BY <1>0, <2>5, <2>6, <3>1, <3>2, <3>3, DefinitionGood
  <2> QED BY <2>3, <2>6, <2>7, Settled
<1>5. CASE HeaderEnd(t) /\ UNCHANGED <<comment, functions, state>>
  <2>1. PICK x : x = [y EXCEPT !.header = FALSE]
    OBVIOUS
  <2>2. x \in Definition /\ x.name = y.name /\ x.bindings = y.bindings
    BY <2>1 DEF Definition
  <2>3. \A w \in Words : Defines(y, w) => Defines(x, w)
    BY <2>2 DEF Defines, Bound
  <2>4. (c.enclosing # <<>> /\ x.name \in Words) => Bound(c.enclosing[Len(c.enclosing)].definition, x.name)
    BY <1>0, <1>3, <2>2 DEF Good, Defined
  <2>5. PICK d : d = [c EXCEPT !.definition = <<x>>]
    OBVIOUS
  <2>6. Good(d, declared, functions) /\ d.operations = c.operations /\ d.pending = c.pending
    <3>2. x \in Definition
      BY <2>2
    <3>3. c.definition = <<y>>
      BY <1>3
    <3> QED BY <1>0, <2>3, <2>4, <2>5, <3>2, <3>3, DefinitionGood
  <2>7. PICK n \in 0 .. 2 : n = 0
    OBVIOUS
  <2>8. PICK e : e = [d EXCEPT !.count = n]
    OBVIOUS
  <2>9. Flagged(d, e)
    BY <2>6, <2>8, CountKeeps DEF Good
  <2>10. Good(e, declared, functions)
    BY <2>6, <2>9, FlaggedGood
  <2>11. Bounded(e)
    BY <1>0, <2>6, <2>9 DEF Bounded, Flagged, Alike
  <2>12. c' = e /\ UNCHANGED session
    BY <1>3, <1>5, <2>1, <2>5, <2>7, <2>8 DEF HeaderEnd, session
  <2>13. Inv' = (Good(e, declared, functions) /\ Bounded(e) /\ Rest)
    BY <2>12 DEF session, Inv, Rest, Bounded, Good
  <2> QED BY <1>0, <2>10, <2>11, <2>13
<1> QED
  BY <1>1, <1>2, <1>4, <1>5 DEF Header

\* A definition starts: nothing is compiled for it yet.
Blank(d) == d.operations = <<>> /\ d.roots = <<>> /\ d.pending = <<>> /\ d.conditionals = <<>>

LEMMA BlankGood ==
  ASSUME NEW d \in Compilation, NEW decl, NEW n, Blank(d), SetAside(d.enclosing, decl, d.held), Defined(d),
         d.held \subseteq 1 .. n, d.open => d.call \in Calls
  PROVE  Good(d, decl, n)
<1>1. DOMAIN <<>> = {}
  OBVIOUS
<1>2. Program(d.operations, d.roots, d.conditionals) /\ Opened(d.operations, d.conditionals)
  BY <1>1 DEF Blank, Program, Opened
<1>3. Nested(d.pending, d.conditionals) /\ WordsIn(d, decl) /\ Held(d, n)
  BY <1>1 DEF Blank, Nested, WordsIn, Held
<1> QED
  BY <1>2, <1>3 DEF Good

\* The program that is set aside is in order, and its words are the ones of its definition.
LEMMA AsideGood ==
  ASSUME NEW decl, NEW n, Good(c, decl, n), InDefinition, c.conditionals = <<>>,
         NEW a, a = [operations |-> c.operations, roots |-> c.roots, definition |-> Current],
         NEW r, r = Append(c.enclosing, a)
  PROVE  /\ r \in Seq(Around) /\ Len(r) = Len(c.enclosing) + 1 /\ r[Len(r)] = a /\ a.definition = Current
         /\ SetAside(r, decl, c.held)
         /\ \A i \in 2 .. Len(r) :
              r[i].definition.name \in Words => Bound(r[i - 1].definition, r[i].definition.name)
<1>1. /\ c \in Compilation /\ c.operations \in Seq(Op) /\ c.roots \in Seq(Nat)
      /\ Current \in Definition /\ c.definition = <<Current>>
  BY CurrentIs DEF Good, Compilation
<1>2. a \in Around /\ a.operations = c.operations /\ a.roots = c.roots /\ a.definition = Current
  BY <1>1 DEF Around
<1>3. PICK q \in Seq(Around) : q = c.enclosing
  BY <1>1 DEF Compilation
<1>4. PICK m \in Nat : m = Len(q)
  OBVIOUS
<1>5. /\ r \in Seq(Around) /\ Len(r) = m + 1 /\ r[m + 1] = a /\ \A i \in 1 .. m : r[i] = q[i]
  BY <1>2, <1>3, <1>4, AppendProperties
<1>6. \A i \in 1 .. m : ScopeTo(r, i) = ScopeTo(q, i)
  <2>1. ASSUME NEW i \in 1 .. m PROVE ScopeTo(r, i) = ScopeTo(q, i)
    <3>1. \A j \in 1 .. i : j \in 1 .. m /\ r[j] = q[j]
      BY <1>5, <2>1
    <3> QED BY <3>1 DEF ScopeTo
  <2> QED BY <2>1
<1>7. ScopeTo(r, m + 1) = Scope(c)
  <2>1. ScopeTo(r, m + 1) = {Current} \cup ScopeTo(q, m)
    <3>1. \A x : x \in ScopeTo(r, m + 1) <=> \E j \in 1 .. m + 1 : x = r[j].definition
      BY DEF ScopeTo
    <3>2. \A x : x \in ScopeTo(q, m) <=> \E j \in 1 .. m : x = r[j].definition
      BY <1>5 DEF ScopeTo
    <3>3. \A j : j \in 1 .. m + 1 <=> j \in 1 .. m \/ j = m + 1
      OBVIOUS
    <3>4. \A x : x \in ScopeTo(r, m + 1) <=> x = Current \/ x \in ScopeTo(q, m)
      BY <1>2, <1>5, <3>1, <3>2, <3>3
    <3> QED BY <3>4
  <2>2. Scope(c) = {Current} \cup ScopeTo(q, m)
    <3>1. PICK v : v = c.definition
      OBVIOUS
    <3>2. DOMAIN v = {1} /\ v[1] = Current
      BY <1>1, <3>1
    <3>3. {v[i] : i \in DOMAIN v} = {Current}
      BY <3>2
    <3> QED BY <1>3, <1>4, <3>1, <3>3 DEF Scope
  <2> QED BY <2>1, <2>2
<1>8. SetAside(r, decl, c.held)
  <2>1. ASSUME NEW i \in 1 .. m + 1
        PROVE  /\ Program(r[i].operations, r[i].roots, <<>>)
               /\ \A j \in DOMAIN r[i].operations : KnownIn(ScopeTo(r, i), decl, r[i].operations[j].word)
               /\ \A j \in DOMAIN r[i].roots : r[i].roots[j] \in c.held
    <3>1. CASE i \in 1 .. m
      <4>1. r[i] = q[i] /\ i \in DOMAIN q /\ ScopeTo(r, i) = ScopeTo(q, i)
        BY <1>3, <1>4, <1>5, <1>6, <3>1
      <4>2. SetAside(q, decl, c.held)
        BY <1>3 DEF Good
      <4>3. /\ Program(q[i].operations, q[i].roots, <<>>)
            /\ \A j \in DOMAIN q[i].operations : KnownIn(ScopeTo(q, i), decl, q[i].operations[j].word)
            /\ \A j \in DOMAIN q[i].roots : q[i].roots[j] \in c.held
        BY <4>1, <4>2 DEF SetAside
      <4> QED BY <4>1, <4>3
    <3>2. CASE i = m + 1
      <4>1. r[i] = a /\ ScopeTo(r, i) = Scope(c)
        BY <1>5, <1>7, <3>2
      <4>2. Program(a.operations, a.roots, <<>>)
        BY <1>2 DEF Good
      <4>3. \A j \in DOMAIN a.operations : KnownIn(Scope(c), decl, a.operations[j].word)
        BY <1>2 DEF Good, WordsIn
      <4>4. \A j \in DOMAIN a.roots : a.roots[j] \in c.held
        BY <1>2 DEF Good, Held
      <4> QED BY <4>1, <4>2, <4>3, <4>4
    <3>3. i \in 1 .. m \/ i = m + 1
      BY <1>4, <2>1
    <3> QED BY <3>1, <3>2, <3>3
  <2> QED BY <1>5, <2>1 DEF SetAside
<1>9. ASSUME NEW i \in 2 .. m + 1, r[i].definition.name \in Words
      PROVE  Bound(r[i - 1].definition, r[i].definition.name)
  <2>0. Defined(c)
    BY DEF Good
  <2>1. CASE i = m + 1
    <3>1. i - 1 = m /\ m \in 1 .. m /\ r[i - 1] = q[m] /\ r[i].definition = Current
      BY <1>2, <1>5, <1>9, <2>1
    <3>2. q # <<>>
      BY <1>4, <3>1
    <3>3. c.definition[1] = Current
      BY <1>1
    <3>4. Current.name \in Words => Bound(q[m].definition, Current.name)
      BY <1>3, <1>4, <2>0, <3>2, <3>3 DEF Defined
    <3> QED BY <1>9, <3>1, <3>4
  <2>2. CASE i # m + 1
    <3>1. i \in 2 .. m /\ i \in 1 .. m /\ i - 1 \in 1 .. m
      BY <1>9, <2>2
    <3>2. r[i] = q[i] /\ r[i - 1] = q[i - 1]
      BY <1>5, <3>1
    <3>3. q[i].definition.name \in Words => Bound(q[i - 1].definition, q[i].definition.name)
      BY <1>3, <1>4, <2>0, <3>1 DEF Defined
    <3> QED BY <1>9, <3>2, <3>3
  <2> QED BY <2>1, <2>2
<1> QED
  BY <1>2, <1>3, <1>4, <1>5, <1>8, <1>9

\* The five fields a definition starts with.
Entered(d, q, x, e) ==
  e = [d EXCEPT !.enclosing = q, !.operations = <<>>, !.roots = <<>>, !.definition = <<x>>]

LEMMA EnteredIs ==
  ASSUME NEW d \in Compilation, NEW q \in Seq(Around), NEW x \in Definition, NEW e, Entered(d, q, x, e)
  PROVE  /\ e \in Compilation /\ e.operations = <<>> /\ e.roots = <<>> /\ e.definition = <<x>>
         /\ e.enclosing = q /\ e.pending = d.pending /\ e.conditionals = d.conditionals
         /\ e.held = d.held /\ e.open = d.open /\ e.call = d.call
<1>1. PICK v : v = <<x>>
  OBVIOUS
<1>2. v \in Seq(Definition) /\ <<>> \in Seq(Op) /\ <<>> \in Seq(Nat)
  BY <1>1
<1>3. PICK e1 : e1 = [d EXCEPT !.enclosing = q]
  OBVIOUS
<1>4. e1 \in Compilation
  BY <1>3, EnclosingSet
<1>5. PICK none \in Seq(Op) : none = <<>>
  BY <1>2
<1>6. PICK e2 : e2 = [e1 EXCEPT !.operations = none]
  OBVIOUS
<1>7. e2 \in Compilation
  BY <1>4, <1>6, OperationsSet
<1>8. PICK empty \in Seq(Nat) : empty = <<>>
  BY <1>2
<1>9. PICK e3 : e3 = [e2 EXCEPT !.roots = empty]
  OBVIOUS
<1>10. e3 \in Compilation
  BY <1>7, <1>9, RootsSet
<1>11. PICK e4 : e4 = [e3 EXCEPT !.definition = v]
  OBVIOUS
<1>12. e4 \in Compilation
  BY <1>2, <1>10, <1>11, DefinitionSet
<1>13. e = e4
  BY <1>1, <1>3, <1>5, <1>6, <1>8, <1>9, <1>11 DEF Entered
<1>14. /\ e.operations = <<>> /\ e.roots = <<>> /\ e.definition = <<x>>
       /\ e.enclosing = q /\ e.pending = d.pending /\ e.conditionals = d.conditionals
       /\ e.held = d.held /\ e.open = d.open /\ e.call = d.call
  BY DEF Entered, Compilation
<1> QED
  BY <1>12, <1>13, <1>14

LEMMA FunctionKeeps ==
  ASSUME Inv, NEW t, Function(t)
  PROVE  Inv'
<1>0. /\ Good(c, declared, functions) /\ Rest /\ c \in Compilation /\ Defined(c) /\ SetAside(c.enclosing, declared, c.held)
      /\ Program(c.operations, c.roots, c.conditionals) /\ c.held \subseteq 1 .. functions /\ (c.open => c.call \in Calls)
      /\ c.enclosing \in Seq(Around) /\ c.operations \in Seq(Op) /\ c.roots \in Seq(Nat)
  BY DEF Inv, Good, Held, Compilation
<1>1. CASE Unsupported
  BY <1>1, UnsupportedKeeps
<1>2. PICK x : x = [header |-> TRUE, name |-> NoName, bindings |-> <<>>]
  OBVIOUS
<1>3. x \in Definition /\ x.name \notin Words
  <2>1. <<>> \in Seq([word : Words, argument : BOOLEAN])
    OBVIOUS
  <2>2. x.name = NoName
    BY <1>2
  <2> QED BY <1>2, <2>1, <2>2, AlphabetAssumption DEF Definition
<1>4. CASE /\ c.pending = <<>> /\ c.conditionals = <<>> /\ (~InDefinition => c.operations = <<>>) /\ UNCHANGED session
           /\ Compile([c EXCEPT
               !.enclosing = IF ~InDefinition THEN @
                             ELSE Append(@, [operations |-> c.operations, roots |-> c.roots, definition |-> Current]),
               !.operations = IF InDefinition THEN <<>> ELSE @,
               !.roots = IF InDefinition THEN <<>> ELSE @,
               !.definition = <<[header |-> TRUE, name |-> NoName, bindings |-> <<>>]>>])
  <2>1. CASE InDefinition
    <3>1. PICK a : a = [operations |-> c.operations, roots |-> c.roots, definition |-> Current]
      OBVIOUS
    <3>2. PICK r : r = Append(c.enclosing, a)
      OBVIOUS
    <3>3. /\ r \in Seq(Around) /\ Len(r) = Len(c.enclosing) + 1 /\ r[Len(r)] = a
          /\ SetAside(r, declared, c.held)
          /\ \A i \in 2 .. Len(r) :
               r[i].definition.name \in Words => Bound(r[i - 1].definition, r[i].definition.name)
      BY ZenonT(60), <1>0, <1>4, <2>1, <3>1, <3>2, AsideGood
    <3>4. PICK e : Entered(c, r, x, e)
      BY DEF Entered
    <3>5. /\ e \in Compilation /\ e.operations = <<>> /\ e.roots = <<>> /\ e.definition = <<x>>
          /\ e.enclosing = r /\ e.pending = c.pending /\ e.conditionals = c.conditionals
          /\ e.held = c.held /\ e.open = c.open /\ e.call = c.call
      BY <1>0, <1>3, <3>3, <3>4, EnteredIs
    <3>6. Blank(e)
      BY <1>4, <3>5 DEF Blank
    <3>7. Defined(e)
      BY <1>3, <3>3, <3>5 DEF Defined
    <3>8. Good(e, declared, functions)
      <4>1. SetAside(e.enclosing, declared, e.held) /\ e.held \subseteq 1 .. functions /\ (e.open => e.call \in Calls)
        BY <1>0, <3>3, <3>5
      <4> QED BY <3>5, <3>6, <3>7, <4>1, BlankGood
    <3>9. Compile(e)
      BY <1>2, <1>4, <2>1, <3>1, <3>2, <3>4 DEF Entered
    <3> QED BY <1>4, <3>8, <3>9, Settled
  <2>2. CASE ~InDefinition
    <3>1. c.enclosing = <<>> /\ c.operations = <<>>
      BY <1>0, <1>4, <2>2 DEF Defined, InDefinition
    <3>2. c.roots = <<>>
      BY <1>0, <3>1 DEF Program
    <3>3. PICK e : Entered(c, c.enclosing, x, e)
      BY DEF Entered
    <3>4. /\ e \in Compilation /\ e.operations = <<>> /\ e.roots = <<>> /\ e.definition = <<x>>
          /\ e.enclosing = c.enclosing /\ e.pending = c.pending /\ e.conditionals = c.conditionals
          /\ e.held = c.held /\ e.open = c.open /\ e.call = c.call
      BY <1>0, <1>3, <3>3, EnteredIs
    <3>5. Blank(e)
      BY <1>4, <3>4 DEF Blank
    <3>6. Defined(e)
      <4>1. Len(e.definition) = 1 /\ e.enclosing = <<>>
        BY <3>1, <3>4
      <4> QED BY <4>1 DEF Defined
    <3>7. Good(e, declared, functions)
      <4>1. SetAside(e.enclosing, declared, e.held) /\ e.held \subseteq 1 .. functions /\ (e.open => e.call \in Calls)
        BY <1>0, <3>4
      <4> QED BY <3>4, <3>5, <3>6, <4>1, BlankGood
    <3>8. Compile(e)
      <4>1. [c EXCEPT
               !.enclosing = IF ~InDefinition THEN @
                             ELSE Append(@, [operations |-> c.operations, roots |-> c.roots, definition |-> Current]),
               !.operations = IF InDefinition THEN <<>> ELSE @,
               !.roots = IF InDefinition THEN <<>> ELSE @,
               !.definition = <<[header |-> TRUE, name |-> NoName, bindings |-> <<>>]>>] = e
        BY <1>0, <1>2, <2>2, <3>1, <3>2, <3>3 DEF Entered
      <4> QED BY <1>4, <4>1
    <3> QED BY <1>4, <3>7, <3>8, Settled
  <2> QED BY <2>1, <2>2
<1> QED
  BY <1>1, <1>4 DEF Function, InConditional

\* The program around an inner function captures one root more.
Captured(ops, roots, f, w, ext, more) ==
  /\ ops \in Seq(Op) /\ roots \in Seq(Nat) /\ f \in Nat /\ w \in Words \cup {NoName}
  /\ ext = ops \o <<[Operation("captured_value", NoName) EXCEPT !.target = Len(roots) + 1], Operation("store", w)>>
  /\ more = Append(roots, f)

LEMMA CaptureProgram ==
  ASSUME NEW ops, NEW roots, NEW f, NEW w, NEW ext, NEW more, Captured(ops, roots, f, w, ext, more),
         Program(ops, roots, <<>>)
  PROVE  /\ ext \in Seq(Op) /\ more \in Seq(Nat) /\ Program(ext, more, <<>>)
         /\ \A i \in DOMAIN more : more[i] = f \/ (i \in DOMAIN roots /\ more[i] = roots[i])
         /\ \A i \in DOMAIN ext : \/ i \in DOMAIN ops /\ ext[i] = ops[i]
                                  \/ ext[i].word = NoName \/ ext[i].word = w
<1>1. ops \in Seq(Op) /\ roots \in Seq(Nat) /\ f \in Nat /\ w \in Words \cup {NoName} /\ more = Append(roots, f)
  BY DEF Captured
<1>2. PICK r \in Nat : r = Len(roots)
  BY <1>1
<1>3. PICK m \in Nat : m = Len(ops)
  BY <1>1
<1>4. PICK cap : cap = [Operation("captured_value", NoName) EXCEPT !.target = r + 1]
  OBVIOUS
<1>5. PICK st : st = Operation("store", w)
  OBVIOUS
<1>6. cap \in Op /\ cap.kind = "captured_value" /\ cap.target = r + 1 /\ cap.word = NoName
  <2>1. NoName \in Tokens \cup {NoName} /\ "captured_value" \in Kinds
    BY DEF Kinds
  <2>2. PICK o \in Op : o = Operation("captured_value", NoName) /\ o.kind = "captured_value" /\ o.word = NoName
    BY <2>1, OperationIs
  <2> QED BY <1>2, <1>4, <2>2 DEF Op
<1>7. st \in Op /\ st.kind = "store" /\ st.target = 0 /\ st.word = w
  <2>1. w \in Tokens \cup {NoName} /\ "store" \in Kinds
    BY <1>1 DEF Tokens, Kinds
  <2> QED BY <1>5, <2>1, OperationIs
<1>8. PICK new : new = <<cap, st>>
  OBVIOUS
<1>9. new \in Seq(Op) /\ Len(new) = 2 /\ DOMAIN new = {1, 2} /\ new[1] = cap /\ new[2] = st
  BY <1>6, <1>7, <1>8
<1>10. ext = ops \o new
  BY <1>2, <1>4, <1>5, <1>8 DEF Captured
<1>11. /\ ops \o new \in Seq(Op) /\ Len(ops \o new) = Len(ops) + Len(new)
       /\ Extends(ops \o new, ops)
       /\ \A i \in DOMAIN new : (ops \o new)[Len(ops) + i] = new[i]
       /\ \A i \in DOMAIN (ops \o new) : i \in DOMAIN ops \/ \E j \in DOMAIN new : i = Len(ops) + j
  <2>1. ops \in Seq(Op)
    BY <1>1
  <2>2. new \in Seq(Op)
    BY <1>9
  <2> QED BY <2>1, <2>2, ExtendsIs
<1>12. /\ ext \in Seq(Op) /\ Len(ext) = m + 2 /\ Extends(ext, ops) /\ ext[m + 1] = cap /\ ext[m + 2] = st
       /\ \A i \in DOMAIN ext : i \in DOMAIN ops \/ i = m + 1 \/ i = m + 2
  BY <1>3, <1>9, <1>10, <1>11
<1>13. /\ \A i \in DOMAIN ops : Linked(ops, i) => Linked(ext, i)
       /\ \A i \in DOMAIN ops : i \in DOMAIN ext /\ ext[i] = ops[i]
  BY <1>1, <1>12, GrownLinks
<1>14. /\ more \in Seq(Nat) /\ Len(more) = r + 1 /\ more[r + 1] = f /\ \A i \in 1 .. r : more[i] = roots[i]
  BY <1>1, <1>2, AppendProperties
<1>15. r <= m
  <2>1. CASE r = 0
    BY <1>3, <2>1
  <2>2. CASE r # 0
    <3>1. roots # <<>>
      BY <1>2, <2>2
    <3>2. PICK i \in DOMAIN ops : Len(roots) <= i
      BY <3>1 DEF Program
    <3> QED BY <1>1, <1>2, <1>3, <3>2
  <2> QED BY <2>1, <2>2
<1>16. ASSUME NEW i \in DOMAIN ext
       PROVE  /\ IsBranch(ext[i]) => Linked(ext, i)
              /\ ext[i].kind = "captured_value" => ext[i].target \in 1 .. Len(more) /\ ext[i].target <= i
              /\ ~IsBranch(ext[i]) /\ ext[i].kind # "captured_value" => ext[i].target = 0
  <2>1. CASE i \in DOMAIN ops
    <3>1. ext[i] = ops[i]
      BY <1>13, <2>1
    <3>2. DOMAIN <<>> = {}
      OBVIOUS
    <3>3. /\ IsBranch(ops[i]) => Linked(ops, i)
          /\ ops[i].kind = "captured_value" => ops[i].target \in 1 .. Len(roots) /\ ops[i].target <= i
          /\ ~IsBranch(ops[i]) /\ ops[i].kind # "captured_value" => ops[i].target = 0
      BY <2>1, <3>2 DEF Program
    <3>4. 1 .. Len(roots) \subseteq 1 .. Len(more)
      BY <1>2, <1>14
    <3> QED BY <1>13, <2>1, <3>1, <3>3, <3>4
  <2>2. CASE i = m + 1
    BY <1>2, <1>3, <1>6, <1>12, <1>14, <1>15, <2>2 DEF IsBranch
  <2>3. CASE i = m + 2
    BY <1>7, <1>12, <2>3 DEF IsBranch
  <2> QED BY <1>12, <2>1, <2>2, <2>3
<1>17. \E i \in DOMAIN ext : ext[i].kind = "captured_value" /\ Len(more) <= i
  <2>1. m + 1 \in DOMAIN ext /\ Len(more) <= m + 1
    BY <1>2, <1>3, <1>12, <1>14, <1>15
  <2> QED BY <1>6, <1>12, <2>1
<1>18. Program(ext, more, <<>>)
  BY <1>16, <1>17 DEF Program
<1>19. ASSUME NEW i \in DOMAIN more PROVE more[i] = f \/ (i \in DOMAIN roots /\ more[i] = roots[i])
  <2>1. i \in 1 .. r + 1 /\ DOMAIN roots = 1 .. r
    BY <1>1, <1>2, <1>14
  <2>2. i = r + 1 \/ i \in 1 .. r
    BY <1>2, <2>1
  <2> QED BY <1>14, <2>1, <2>2
<1>20. ASSUME NEW i \in DOMAIN ext
       PROVE  \/ i \in DOMAIN ops /\ ext[i] = ops[i]
              \/ ext[i].word = NoName \/ ext[i].word = w
  BY <1>6, <1>7, <1>12, <1>13
<1> QED
  BY <1>12, <1>14, <1>18, <1>19, <1>20

\* What is set aside around the outer program.
Emerged(q, m, decl, H, G, r) ==
  /\ q \in Seq(Around) /\ m \in Nat \ {0} /\ m = Len(q) /\ SetAside(q, decl, H) /\ H \subseteq G
  /\ r = Front(q)

LEMMA FrontAside ==
  ASSUME NEW q, NEW m, NEW decl, NEW H, NEW G, NEW r, Emerged(q, m, decl, H, G, r)
  PROVE  /\ r \in Seq(Around) /\ Len(r) = m - 1 /\ SetAside(r, decl, G)
         /\ \A i \in 1 .. m - 1 : r[i] = q[i]
         /\ {q[m].definition} \cup ScopeTo(r, m - 1) = ScopeTo(q, m)
<1>0. q \in Seq(Around) /\ m \in Nat \ {0} /\ m = Len(q) /\ SetAside(q, decl, H) /\ H \subseteq G
  BY DEF Emerged
<1>1. r = SubSeq(q, 1, m - 1)
  BY DEF Emerged, Front
<1>2. r \in Seq(Around) /\ Len(r) = m - 1 /\ \A i \in 1 .. m - 1 : r[i] = q[i]
  BY <1>0, <1>1
<1>3. ASSUME NEW i \in 1 .. m - 1
      PROVE  /\ Program(r[i].operations, r[i].roots, <<>>)
             /\ \A j \in DOMAIN r[i].operations : KnownIn(ScopeTo(r, i), decl, r[i].operations[j].word)
             /\ \A j \in DOMAIN r[i].roots : r[i].roots[j] \in G
  <2>1. r[i] = q[i] /\ i \in DOMAIN q
    BY <1>0, <1>2, <1>3
  <2>2. ScopeTo(r, i) = ScopeTo(q, i)
    <3>1. \A j \in 1 .. i : j \in 1 .. m - 1 /\ r[j] = q[j]
      BY <1>0, <1>2, <1>3
    <3> QED BY <3>1 DEF ScopeTo
  <2>3. /\ Program(q[i].operations, q[i].roots, <<>>)
        /\ \A j \in DOMAIN q[i].operations : KnownIn(ScopeTo(q, i), decl, q[i].operations[j].word)
        /\ \A j \in DOMAIN q[i].roots : q[i].roots[j] \in G
    BY <1>0, <2>1 DEF SetAside
  <2> QED BY <2>1, <2>2, <2>3
<1>4. SetAside(r, decl, G)
  BY <1>2, <1>3 DEF SetAside
<1>5. {q[m].definition} \cup ScopeTo(r, m - 1) = ScopeTo(q, m)
  <2>1. \A x : x \in ScopeTo(q, m) <=> \E j \in 1 .. m : x = q[j].definition
    BY DEF ScopeTo
  <2>2. \A x : x \in ScopeTo(r, m - 1) <=> \E j \in 1 .. m - 1 : x = q[j].definition
    BY <1>2 DEF ScopeTo
  <2>3. \A j : j \in 1 .. m <=> j \in 1 .. m - 1 \/ j = m
    BY <1>0
  <2>4. \A x : x \in ScopeTo(q, m) <=> x = q[m].definition \/ x \in ScopeTo(r, m - 1)
    BY <2>1, <2>2, <2>3
  <2> QED BY <2>4
<1> QED
  BY <1>2, <1>4, <1>5

\* The fields an inner function changes when it ends.
Returned(d, ext, more, y, r, H, e) ==
  /\ d \in Compilation /\ ext \in Seq(Op) /\ more \in Seq(Nat) /\ y \in Definition /\ r \in Seq(Around) /\ H \in SUBSET Nat
  /\ e = [[d EXCEPT !.operations = ext, !.roots = more, !.definition = <<y>>, !.enclosing = r, !.pending = <<>>,
                   !.assignment = FALSE, !.declaration = FALSE] EXCEPT !.held = H]

LEMMA ReturnedIs ==
  ASSUME NEW d, NEW ext, NEW more, NEW y, NEW r, NEW H, NEW e, Returned(d, ext, more, y, r, H, e)
  PROVE  /\ e \in Compilation /\ e.operations = ext /\ e.roots = more /\ e.definition = <<y>>
         /\ e.enclosing = r /\ e.pending = <<>> /\ e.conditionals = d.conditionals
         /\ e.held = H /\ e.open = d.open /\ e.call = d.call
<1>0. /\ d \in Compilation /\ ext \in Seq(Op) /\ more \in Seq(Nat) /\ y \in Definition /\ r \in Seq(Around)
      /\ H \in SUBSET Nat
  BY DEF Returned
<1>1. PICK v \in Seq(Definition) : v = <<y>>
  <2>1. <<y>> \in Seq(Definition)
    BY <1>0
  <2> QED BY <2>1
<1>2. PICK none \in Seq(Pending) : none = <<>>
  <2>1. <<>> \in Seq(Pending)
    OBVIOUS
  <2> QED BY <2>1
<1>3. PICK b \in BOOLEAN : b = FALSE
  OBVIOUS
<1>4. PICK e1 : e1 = [d EXCEPT !.operations = ext]
  OBVIOUS
<1>5. e1 \in Compilation
  BY <1>0, <1>4, OperationsSet
<1>6. PICK e2 : e2 = [e1 EXCEPT !.roots = more]
  OBVIOUS
<1>7. e2 \in Compilation
  BY <1>0, <1>5, <1>6, RootsSet
<1>8. PICK e3 : e3 = [e2 EXCEPT !.definition = v]
  OBVIOUS
<1>9. e3 \in Compilation
  BY <1>7, <1>8, DefinitionSet
<1>10. PICK e4 : e4 = [e3 EXCEPT !.enclosing = r]
  OBVIOUS
<1>11. e4 \in Compilation
  BY <1>0, <1>9, <1>10, EnclosingSet
<1>12. PICK e5 : e5 = [e4 EXCEPT !.pending = none]
  OBVIOUS
<1>13. e5 \in Compilation
  BY <1>11, <1>12, PendingSet
<1>14. PICK e6 : e6 = [e5 EXCEPT !.assignment = b]
  OBVIOUS
<1>15. e6 \in Compilation
  BY <1>13, <1>14, FlagKeeps DEF Flagged
<1>16. PICK e7 : e7 = [e6 EXCEPT !.declaration = b]
  OBVIOUS
<1>17. e7 \in Compilation
  BY <1>15, <1>16, FlagKeeps DEF Flagged
<1>18. PICK e8 : e8 = [e7 EXCEPT !.held = H]
  OBVIOUS
<1>19. e8 \in Compilation
  BY <1>0, <1>17, <1>18, HeldSet
<1>20. e = e8
  BY <1>1, <1>2, <1>3, <1>4, <1>6, <1>8, <1>10, <1>12, <1>14, <1>16, <1>18 DEF Returned
<1>21. /\ e.operations = ext /\ e.roots = more /\ e.definition = <<y>>
       /\ e.enclosing = r /\ e.pending = <<>> /\ e.conditionals = d.conditionals
       /\ e.held = H /\ e.open = d.open /\ e.call = d.call
  BY <1>0 DEF Returned, Compilation
<1> QED
  BY <1>19, <1>20, <1>21

\* An inner function ends: the program around it goes on, and captures the function.
LEMMA HoldingGood ==
  ASSUME Good(c, declared, functions), functions \in Nat, NEW f, f = functions + 1, c.enclosing # <<>>,
         c.conditionals = <<>>, NEW e, e = Holding(f)
  PROVE  Good(e, declared, f) /\ e.pending = <<>>
<1>0. /\ c \in Compilation /\ c.enclosing \in Seq(Around) /\ c.held \in SUBSET Nat /\ f \in Nat
      /\ Defined(c) /\ SetAside(c.enclosing, declared, c.held) /\ c.held \subseteq 1 .. functions
      /\ (c.open => c.call \in Calls)
  BY DEF Good, Compilation, Held
<1>1. PICK q \in Seq(Around) : q = c.enclosing /\ q # <<>>
  BY <1>0
<1>2. PICK m \in Nat \ {0} : m = Len(q) /\ m \in DOMAIN q
  BY <1>1, EmptySeq
<1>3. PICK outer \in Around : outer = q[m]
  BY <1>2
<1>4. PICK ops \in Seq(Op), roots \in Seq(Nat), y \in Definition :
        ops = outer.operations /\ roots = outer.roots /\ y = outer.definition
  BY DEF Around
<1>5. InDefinition
  BY <1>0 DEF Defined, InDefinition
<1>6. Current \in Definition /\ c.definition = <<Current>> /\ Current.name \in Words \cup {NoName}
  BY <1>5, CurrentIs
<1>7. PICK w \in Words \cup {NoName} : w = Current.name
  BY <1>6
<1>8. PICK ext, more : Captured(ops, roots, f, w, ext, more)
  BY <1>0 DEF Captured
<1>9. Program(ops, roots, <<>>)
  BY <1>0, <1>1, <1>2, <1>3, <1>4 DEF SetAside
<1>10. /\ ext \in Seq(Op) /\ more \in Seq(Nat) /\ Program(ext, more, <<>>)
       /\ \A i \in DOMAIN more : more[i] = f \/ (i \in DOMAIN roots /\ more[i] = roots[i])
       /\ \A i \in DOMAIN ext : \/ i \in DOMAIN ops /\ ext[i] = ops[i]
                                \/ ext[i].word = NoName \/ ext[i].word = w
  BY <1>8, <1>9, CaptureProgram
<1>11. PICK H \in SUBSET Nat : H = c.held \cup {f}
  BY <1>0
<1>12. PICK r : r = Front(q)
  OBVIOUS
<1>13. /\ r \in Seq(Around) /\ Len(r) = m - 1 /\ SetAside(r, declared, H)
       /\ \A i \in 1 .. m - 1 : r[i] = q[i]
       /\ {q[m].definition} \cup ScopeTo(r, m - 1) = ScopeTo(q, m)
  <2>1. Emerged(q, m, declared, c.held, H, r)
    BY <1>0, <1>1, <1>2, <1>11, <1>12 DEF Emerged
  <2> QED BY <2>1, FrontAside
<1>14. Returned(c, ext, more, y, r, H, e)
  <2>1. Last(c.enclosing) = outer
    BY <1>1, <1>2, <1>3 DEF Last
  <2>2. /\ c \in Compilation /\ ext \in Seq(Op) /\ more \in Seq(Nat) /\ y \in Definition /\ r \in Seq(Around)
        /\ H \in SUBSET Nat
    BY <1>0, <1>4, <1>10, <1>11, <1>13
  <2>3. e = [[c EXCEPT !.operations = ext, !.roots = more, !.definition = <<y>>, !.enclosing = r, !.pending = <<>>,
                       !.assignment = FALSE, !.declaration = FALSE] EXCEPT !.held = H]
    <3>1. e = [Enclosed(f) EXCEPT !.held = Enclosed(f).held \cup {f}]
      BY DEF Holding
    <3>2. Enclosed(f) = [c EXCEPT !.operations = ext, !.roots = more, !.definition = <<y>>, !.enclosing = r,
                                  !.pending = <<>>, !.assignment = FALSE, !.declaration = FALSE]
      BY <1>1, <1>4, <1>7, <1>8, <1>12, <2>1 DEF Enclosed, Captured
    <3>3. Enclosed(f).held = c.held
      BY <1>0, <3>2 DEF Compilation
    <3> QED BY <1>11, <3>1, <3>2, <3>3
  <2> QED BY <2>2, <2>3 DEF Returned
<1>15. /\ e \in Compilation /\ e.operations = ext /\ e.roots = more /\ e.definition = <<y>>
       /\ e.enclosing = r /\ e.pending = <<>> /\ e.conditionals = c.conditionals
       /\ e.held = H /\ e.open = c.open /\ e.call = c.call
  BY <1>14, ReturnedIs
<1>16. Scope(e) = ScopeTo(q, m)
  <2>1. PICK v : v = e.definition
    OBVIOUS
  <2>2. {v[i] : i \in DOMAIN v} = {y}
    <3>1. v = <<y>>
      BY <1>15, <2>1
    <3>2. DOMAIN v = {1} /\ v[1] = y
      BY <3>1
    <3> QED BY <3>2
  <2>3. Scope(e) = {v[i] : i \in DOMAIN v} \cup ScopeTo(e.enclosing, Len(e.enclosing))
    BY <2>1 DEF Scope
  <2>4. Scope(e) = {y} \cup ScopeTo(r, m - 1)
    BY <1>13, <1>15, <2>2, <2>3
  <2> QED BY <1>3, <1>4, <1>13, <2>4
<1>17. KnownIn(ScopeTo(q, m), declared, w)
  <2>1. ASSUME w \in Words PROVE Within(ScopeTo(q, m), w)
    <3>1. c.definition[1] = Current
      BY <1>6
    <3>2. Bound(q[m].definition, w)
      BY <1>0, <1>1, <1>2, <1>7, <2>1, <3>1 DEF Defined
    <3>3. q[m].definition \in ScopeTo(q, m)
      BY <1>2 DEF ScopeTo
    <3> QED BY <3>2, <3>3 DEF Within, Defines
  <2> QED BY <2>1 DEF KnownIn
<1>18. WordsIn(e, declared)
  <2>1. ASSUME NEW i \in DOMAIN ext PROVE KnownIn(ScopeTo(q, m), declared, ext[i].word)
    <3>1. CASE i \in DOMAIN ops /\ ext[i] = ops[i]
      <4>1. \A j \in DOMAIN q[m].operations : KnownIn(ScopeTo(q, m), declared, q[m].operations[j].word)
        BY <1>0, <1>1, <1>2 DEF SetAside
      <4> QED BY <1>3, <1>4, <3>1, <4>1
    <3>2. CASE ext[i].word = NoName
      BY <3>2, AlphabetAssumption DEF KnownIn
    <3>3. CASE ext[i].word = w
      BY <1>17, <3>3
    <3> QED BY <1>10, <2>1, <3>1, <3>2, <3>3
  <2>2. DOMAIN <<>> = {}
    OBVIOUS
  <2> QED BY <1>15, <1>16, <2>1, <2>2 DEF WordsIn
<1>19. Defined(e)
  <2>1. Len(e.definition) <= 1 /\ e.definition # <<>> /\ e.definition[1] = y
    <3>1. PICK v : v = e.definition
      OBVIOUS
    <3>2. v = <<y>>
      BY <1>15, <3>1
    <3>3. Len(v) = 1 /\ v # <<>> /\ v[1] = y
      BY <3>2
    <3>4. Len(v) <= 1
      BY <3>3
    <3> QED BY <3>1, <3>3, <3>4
  <2>2. ASSUME r # <<>>, y.name \in Words PROVE Bound(r[Len(r)].definition, y.name)
    <3>1. m \in 2 .. Len(q) /\ m - 1 \in 1 .. m - 1
      <4>1. Len(r) # 0
        BY <1>13, <2>2, EmptySeq
      <4> QED BY <1>2, <1>13, <4>1
    <3>2. Bound(q[m - 1].definition, q[m].definition.name)
      BY <1>0, <1>1, <1>3, <1>4, <2>2, <3>1 DEF Defined
    <3>3. r[Len(r)] = q[m - 1]
      BY <1>13, <3>1
    <3> QED BY <1>3, <1>4, <3>2, <3>3
  <2>3. ASSUME NEW i \in 2 .. Len(r), r[i].definition.name \in Words
        PROVE  Bound(r[i - 1].definition, r[i].definition.name)
    <3>1. i \in 1 .. m - 1 /\ i - 1 \in 1 .. m - 1 /\ i \in 2 .. Len(q)
      BY <1>2, <1>13, <2>3
    <3>2. r[i] = q[i] /\ r[i - 1] = q[i - 1]
      BY <1>13, <3>1
    <3>3. q[i].definition.name \in Words => Bound(q[i - 1].definition, q[i].definition.name)
      BY <1>0, <1>1, <3>1 DEF Defined
    <3> QED BY <2>3, <3>2, <3>3
  <2> QED BY <1>15, <2>1, <2>2, <2>3 DEF Defined
<1>20. Held(e, f)
  <2>1. \A i \in DOMAIN roots : roots[i] \in c.held
    BY <1>0, <1>1, <1>2, <1>3, <1>4 DEF SetAside
  <2>2. \A i \in DOMAIN more : more[i] \in H
    BY <1>10, <1>11, <2>1
  <2>3. H \subseteq 1 .. f
    BY <1>0, <1>11
  <2> QED BY <1>15, <2>2, <2>3 DEF Held
<1>21. Opened(e.operations, e.conditionals) /\ Nested(e.pending, e.conditionals)
  <2>1. DOMAIN <<>> = {}
    OBVIOUS
  <2> QED BY <1>15, <2>1 DEF Opened, Nested
<1>22. Program(e.operations, e.roots, e.conditionals) /\ SetAside(e.enclosing, declared, e.held) /\ (e.open => e.call \in Calls)
  BY <1>0, <1>10, <1>13, <1>15
<1> QED
  BY <1>15, <1>18, <1>19, <1>20, <1>21, <1>22 DEF Good

LEMMA EndKeeps ==
  ASSUME Inv, NEW t, End(t)
  PROVE  Inv'
<1>0. Good(c, declared, functions) /\ Rest /\ functions \in Nat /\ Bounded(c)
  BY DEF Inv, Rest
<1>1. CASE Unsupported
  BY <1>1, UnsupportedKeeps
<1>2. CASE /\ ~InConditional /\ functions' = functions + 1
           /\ IF c.enclosing = <<>> THEN c' = Fresh ELSE Begin(Holding(functions'))
           /\ UNCHANGED <<comment, declared, state>>
  <2>1. Rest'
    BY <1>0, <1>2 DEF Rest
  <2>2. CASE c' = Fresh
    BY <2>1, <2>2, Recovered
  <2>3. CASE c.enclosing # <<>> /\ Begin(Holding(functions'))
    <3>1. PICK f : f = functions + 1
      OBVIOUS
    <3>2. PICK e : e = Holding(f)
      OBVIOUS
    <3>3. c.conditionals = <<>>
      BY <1>2 DEF InConditional
    <3>4. Good(e, declared, f) /\ e.pending = <<>>
      BY <1>0, <2>3, <3>1, <3>2, <3>3, HoldingGood
    <3>5. Begin(e) /\ Good(e, declared', functions')
      BY <1>2, <2>3, <3>1, <3>2, <3>4
    <3>6. Len(e.pending) <= MaxPending
      BY <3>4, AlphabetAssumption
    <3>7. Good(c', declared', functions') /\ Bounded(c')
      BY <3>5, <3>6, BeginKeeps
    <3> QED BY <2>1, <3>7 DEF Inv
  <2> QED BY <1>2, <2>2, <2>3
<1> QED
  BY <1>1, <1>2 DEF End

---------------------------------------------------------------------------
(* The invariant, and what it says *)

LEMMA InitKeeps ==
  ASSUME Init
  PROVE  Inv
<1>1. c = Fresh /\ functions = 0
  BY DEF Init
<1>2. Rest
  BY DEF Init, Rest
<1>3. PICK n \in Nat : n = functions
  BY <1>1
<1>4. Good(Fresh, declared, n) /\ Bounded(Fresh)
  BY <1>3, FreshGood
<1> QED
  BY <1>1, <1>2, <1>3, <1>4 DEF Inv

LEMMA NextKeeps ==
  ASSUME Inv, [Next]_vars
  PROVE  Inv'
<1>1. CASE UNCHANGED vars
  BY <1>1 DEF vars, session, Inv, Good, Bounded, Rest
<1>2. CASE EndOfInput
  BY <1>2, EndOfInputKeeps
<1>3. ASSUME NEW t, Accept(t) PROVE Inv'
  <2>1. CASE Faulty(t) \/ Assigned(t)
    BY <2>1, FaultyKeeps
  <2>2. CASE NotCode(t) \/ NoStorage(t) \/ Misplaced(t)
    BY <2>2, RefusedKeeps
  <2>3. CASE Comment(t)
    BY <2>3, CommentKeeps
  <2>4. CASE Header(t)
    BY <2>4, HeaderKeeps
  <2>5. CASE Function(t)
    BY <2>5, FunctionKeeps
  <2>6. CASE End(t)
    BY <2>6, EndKeeps
  <2>7. CASE Return(t)
    BY <2>7, ReturnKeeps
  <2>8. CASE CallToken(t)
    BY <2>8, CallTokenKeeps
  <2>9. CASE If(t)
    BY <2>9, IfKeeps
  <2>10. CASE AndOr(t)
    BY <2>10, AndOrKeeps
  <2>11. CASE Then(t)
    BY <2>11, ThenKeeps
  <2>12. CASE Else(t)
    BY <2>12, ElseKeeps
  <2>13. CASE Close(t)
    BY <2>13, CloseKeeps
  <2>14. CASE Vars(t)
    BY <2>14, VarsKeeps
  <2>15. CASE Declare(t)
    BY <2>15, DeclareKeeps
  <2>16. CASE StatementEnd(t)
    BY <2>16, StatementEndKeeps
  <2>17. CASE ArrowOrComma(t)
    BY <2>17, ArrowOrCommaKeeps
  <2>18. CASE Open(t)
    BY <2>18, OpenKeeps
  <2>19. CASE CloseGroup(t)
    BY <2>19, CloseGroupKeeps
  <2>20. CASE Operator(t)
    BY <2>20, OperatorKeeps
  <2>21. CASE Number(t)
    BY <2>21, NumberKeeps
  <2>22. CASE Word(t)
    BY <2>22, WordKeeps
  <2>23. CASE ResidentName(t)
    BY <2>23, ResidentNameKeeps
  <2> QED
    BY <1>3, <2>1, <2>2, <2>3, <2>4, <2>5, <2>6, <2>7, <2>8, <2>9, <2>10, <2>11, <2>12, <2>13, <2>14, <2>15,
       <2>16, <2>17, <2>18, <2>19, <2>20, <2>21, <2>22, <2>23 DEF Accept
<1> QED
  BY <1>1, <1>2, <1>3 DEF Next

\* The inductive invariant of the native compiler: whatever the tokens, what accept_token
\* has compiled so far is a program whose branches are linked or remembered, whose
\* conditionals are nested and whose words are known, and so are the programs set aside
\* for the functions around it.
THEOREM InvHolds == Spec => []Inv
<1>1. Init => Inv
  BY InitKeeps
<1>2. Inv /\ [Next]_vars => Inv'
  BY NextKeeps
<1> QED
  BY <1>1, <1>2, PTL DEF Spec

LEMMA ConditionalsFollow ==
  ASSUME Inv
  PROVE  ConditionalsWellFormed
<1>0. /\ Program(c.operations, c.roots, c.conditionals) /\ Opened(c.operations, c.conditionals)
      /\ Nested(c.pending, c.conditionals)
      /\ c.conditionals \in Seq(Unclosed) /\ c.operations \in Seq(Op) /\ c.roots \in Seq(Nat)
  BY DEF Inv, Good, Compilation
<1>1. ConditionalsNest
  <2>1. ASSUME NEW i \in DOMAIN c.conditionals, i > 1
        PROVE  c.conditionals[i - 1].boundary < c.conditionals[i].boundary
    <3>1. i - 1 \in 1 .. i - 1
      BY <1>0, <2>1
    <3> QED BY <1>0, <3>1 DEF Nested
  <2>2. ASSUME NEW i \in DOMAIN c.conditionals
        PROVE  /\ c.conditionals[i].boundary < Len(c.pending)
               /\ IsGroup(c.pending[c.conditionals[i].boundary + 1])
    BY <1>0 DEF Nested
  <2> QED BY <2>1, <2>2 DEF ConditionalsNest
<1>2. ASSUME NEW i \in DOMAIN c.operations
      PROVE  /\ IsBranch(c.operations[i]) =>
                  \/ /\ c.operations[i].target \in i + 1 .. Len(c.operations)
                     /\ c.operations[c.operations[i].target].kind = "label"
                  \/ /\ c.operations[i].target = 0
                     /\ \E j \in DOMAIN c.conditionals : i \in Remembered(c.conditionals[j])
             /\ c.operations[i].kind = "captured_value" => c.operations[i].target \in DOMAIN c.roots
  BY <1>0 DEF Program, Linked
<1>3. ASSUME NEW j \in DOMAIN c.conditionals, NEW i \in Remembered(c.conditionals[j])
      PROVE  /\ IsBranch(c.operations[i]) /\ c.operations[i].target = 0
             /\ \A l \in DOMAIN c.conditionals \ {j} : i \notin Remembered(c.conditionals[l])
  <2>1. Remembers(c.operations, c.conditionals[j])
    BY <1>0 DEF Opened
  <2>2. \E kind \in {"jump", "branch_true", "branch_false"} : Waits(c.operations, i, kind)
    BY <1>3, <2>1 DEF Remembers, Remembered
  <2>3. IsBranch(c.operations[i]) /\ c.operations[i].target = 0
    BY <2>2 DEF Waits, IsBranch
  <2> QED BY <1>0, <2>3 DEF Opened
<1>4. BranchesLinked
  BY <1>2, <1>3 DEF BranchesLinked, Remembered
<1> QED
  BY <1>1, <1>4 DEF ConditionalsWellFormed

\* Whatever the tokens: an open conditional keeps the group it pushed, inside that of the
\* conditional around it, and every branch leads forwards to a label or is remembered by
\* exactly one open conditional (accept_token, from IF to CLOSE).
THEOREM ConditionalsStayWell == Spec => []ConditionalsWellFormed
<1>1. Inv => ConditionalsWellFormed
  BY ConditionalsFollow
<1> QED
  BY <1>1, InvHolds, PTL

LEMMA TypesFollow ==
  ASSUME Inv
  PROVE  TypeOK
<1>0. /\ Good(c, declared, functions) /\ Bounded(c) /\ Rest /\ c \in Compilation /\ Defined(c) /\ Held(c, functions)
      /\ Program(c.operations, c.roots, c.conditionals) /\ c.operations \in Seq(Op) /\ c.pending \in Seq(Pending)
      /\ MaxOperations \in Nat
  BY AlphabetAssumption DEF Inv, Good, Compilation
<1>1. PICK m \in Nat : m = Len(c.operations) /\ m <= MaxOperations /\ DOMAIN c.operations = 1 .. m
  BY <1>0 DEF Bounded
<1>2. ASSUME NEW i \in DOMAIN c.operations PROVE c.operations[i].target \in 0 .. MaxOperations
  <2>1. PICK t \in Nat : t = c.operations[i].target
    <3>1. PICK o \in Op : o = c.operations[i]
      BY <1>0, <1>2
    <3>2. o.target \in Nat
      BY DEF Op
    <3> QED BY <3>1, <3>2
  <2>2. CASE IsBranch(c.operations[i])
    <3>1. CASE Linked(c.operations, i)
      BY <1>0, <1>1, <2>1, <3>1 DEF Linked
    <3>2. CASE t = 0
      BY <1>0, <2>1, <3>2
    <3> QED BY <1>0, <2>1, <2>2, <3>1, <3>2 DEF Program
  <2>3. CASE c.operations[i].kind = "captured_value"
    <3>1. t <= i
      BY <1>0, <2>1, <2>3 DEF Program
    <3> QED BY <1>0, <1>1, <2>1, <3>1
  <2>4. CASE ~IsBranch(c.operations[i]) /\ c.operations[i].kind # "captured_value"
    BY <1>0, <2>4 DEF Program
  <2> QED BY <2>2, <2>3, <2>4
<1>3. ASSUME NEW i \in DOMAIN c.pending PROVE c.pending[i].operator \in Operators \cup {"group"}
  <2>1. PICK p \in Pending : p = c.pending[i]
    BY <1>0, <1>3
  <2>2. p.operator \in Operators \cup {"group"}
    BY DEF Pending
  <2> QED BY <2>1, <2>2
<1>4. Len(c.definition) <= 1 /\ (c.enclosing # <<>> => InDefinition)
  BY <1>0 DEF Defined, InDefinition
<1>5. c.call \in Calls \cup Primitives \cup {NoName} /\ (c.open => c.call \in Calls)
  BY <1>0 DEF Compilation, Good
<1>6. c.held \subseteq 1 .. functions
  BY <1>0 DEF Held
<1> QED
  BY <1>0, <1>2, <1>3, <1>4, <1>5, <1>6 DEF TypeOK, Bounded, Rest

LEMMA RootsFollow ==
  ASSUME Inv
  PROVE  RootsHeld
<1>1. /\ c \in Compilation /\ c.enclosing \in Seq(Around) /\ SetAside(c.enclosing, declared, c.held)
      /\ \A i \in DOMAIN c.roots : c.roots[i] \in c.held
  BY DEF Inv, Good, Held, Compilation
<1>2. \A i \in DOMAIN c.enclosing : \A j \in DOMAIN c.enclosing[i].roots : c.enclosing[i].roots[j] \in c.held
  BY <1>1 DEF SetAside
<1> QED
  BY <1>1, <1>2 DEF RootsHeld

\* What is in scope is local.
LEMMA LocalIs ==
  ASSUME NEW decl, NEW n, Good(c, decl, n), NEW w, Within(Scope(c), w)
  PROVE  Local(w)
<1>0. c.definition \in Seq(Definition) /\ c.enclosing \in Seq(Around)
  BY DEF Good, Compilation
<1>1. PICK x \in Scope(c) : Defines(x, w)
  BY DEF Within
<1>2. CASE \E i \in DOMAIN c.definition : x = c.definition[i]
  <2>1. PICK i \in DOMAIN c.definition : x = c.definition[i]
    BY <1>2
  <2>2. InDefinition
    <3>1. c.definition # <<>>
      BY <2>1
    <3> QED BY <3>1 DEF InDefinition
  <2>3. c.definition = <<Current>>
    BY <2>2, CurrentIs
  <2>4. x = Current
    <3>1. PICK v : v = <<Current>>
      OBVIOUS
    <3>2. DOMAIN v = {1} /\ v[1] = Current
      BY <3>1
    <3>3. i \in DOMAIN v /\ x = v[i]
      BY <2>1, <2>3, <3>1
    <3> QED BY <3>2, <3>3
  <2> QED BY <1>1, <2>2, <2>4 DEF Local
<1>3. CASE x \in ScopeTo(c.enclosing, Len(c.enclosing))
  <2>1. PICK i \in 1 .. Len(c.enclosing) : x = c.enclosing[i].definition
    BY <1>3 DEF ScopeTo
  <2>2. i \in DOMAIN c.enclosing
    BY <1>0, <2>1
  <2> QED BY <1>1, <2>1, <2>2 DEF Local
<1> QED
  BY <1>1, <1>2, <1>3 DEF Scope

LEMMA WordsFollow ==
  ASSUME Inv
  PROVE  WordsKnown
<1>1. Good(c, declared, functions) /\ WordsIn(c, declared)
  BY DEF Inv, Good
<1>2. ASSUME NEW i \in DOMAIN c.operations, NEW w, w = c.operations[i].word, w \in Words
      PROVE  Local(w) \/ declared[w] # "undeclared"
  <2>1. declared[w] # "undeclared" \/ Within(Scope(c), w)
    BY <1>1, <1>2 DEF WordsIn, KnownIn
  <2> QED BY <1>1, <2>1, LocalIs
<1> QED
  BY <1>2 DEF WordsKnown

\* Whatever the tokens: the compiler's stacks hold what they are for, the functions
\* captured by what is being compiled are held in frame_roots() until a finished
\* descriptor refers to them, and every word of the code is declared or local
\* (note_identifier, the END of accept_token).
THEOREM DefinitionsStaySound == Spec => []DefinitionsSound
<1>1. Inv => DefinitionsSound
  BY TypesFollow, RootsFollow, WordsFollow DEF DefinitionsSound
<1> QED
  BY <1>1, InvHolds, PTL
=============================================================================
