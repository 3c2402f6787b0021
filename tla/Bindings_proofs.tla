--------------------------- MODULE Bindings_proofs ---------------------------
(* Handles, shadowed bindings and protected identifiers of the standalone   *)
(* interpreter, for every program and every bound.                          *)
EXTENDS Bindings, OrderFacts

---------------------------------------------------------------------------
(* The invariant: which identifier a cell is for *)

\* The frame f remembers that the cell c is for the identifier i.
FrameBinds(f, i, c) ==
  \/ i \in DOMAIN f.env /\ f.env[i] = c
  \/ i \in DOMAIN f.saved.captured /\ f.saved.captured[i] = c
  \/ \E j \in DOMAIN f.saved.own : f.saved.own[j][1] = i /\ f.saved.own[j][2] = c

\* So does the table of active bindings, a closure or a frame.
Binds(i, c) ==
  \/ i \in DOMAIN active /\ active[i] = c
  \/ \E h \in DOMAIN closures : i \in DOMAIN closures[h].env /\ closures[h].env[i] = c
  \/ \E k \in DOMAIN frames : FrameBinds(frames[k], i, c)

\* The cell c is protected for i.
Protects(i, c) == i \in DOMAIN protected /\ protected[i] = c

Claims(i, c) == Binds(i, c) \/ Protects(i, c)

\* A cell that anything remembers was handed out before, and to one identifier only.
HandedOut == \A i \in Identifier, c \in Cell : Claims(i, c) => c < next.cell
OneOwner == \A i, j \in Identifier, c \in Cell : Claims(i, c) /\ Claims(j, c) => i = j

\* What a frame shadowed is still bound, by it or by what it called, and so are its results.
ShadowedBound ==
  \A k \in DOMAIN frames : \A i \in Identifier : Saves(frames[k], i) => i \in DOMAIN active
ResultsBound ==
  \A k \in DOMAIN frames : \A r \in DOMAIN frames[k].program.sig.results :
    frames[k].program.syms[frames[k].program.sig.results[r]] \in DOMAIN active

\* The handles in a value are live.
ValueLive(v) == /\ v[1] = "function" => v[2] \in DOMAIN closures
                /\ v[1] = "reference" => v[2] \in DOMAIN protected

NamesLive == \A n \in Names : record[n] # 0 => record[n] \in DOMAIN protected
BindingsLive == \A i \in Identifier, c \in Cell : Binds(i, c) => i \in DOMAIN protected /\ c \in DOMAIN cells
ValuesLive == /\ \A k \in DOMAIN stack : ValueLive(stack[k])
              /\ \A c \in DOMAIN cells : ValueLive(cells[c])
ProgramsLive ==
  /\ \A h \in DOMAIN closures : \A n \in Names : closures[h].program.syms[n] \in DOMAIN protected
  /\ \A k \in DOMAIN frames : \A n \in Names : frames[k].program.syms[n] \in DOMAIN protected
  /\ \A k \in DOMAIN frames : frames[k].function # 0 => frames[k].function \in DOMAIN closures

Live == NamesLive /\ BindingsLive /\ ValuesLive /\ ProgramsLive

Inv == /\ TypeOK /\ Live /\ RestoresCaller
       /\ HandedOut /\ OneOwner /\ ShadowedBound /\ ResultsBound

---------------------------------------------------------------------------
(* Maps *)

LEMMA MapIs ==
  ASSUME NEW D, NEW R, NEW f
  PROVE  f \in Maps(D, R) <=> /\ f = [x \in DOMAIN f |-> f[x]]
                              /\ DOMAIN f \subseteq D
                              /\ \A x \in DOMAIN f : f[x] \in R
<1>1. f \in Maps(D, R) <=> DOMAIN f \subseteq D /\ f \in [DOMAIN f -> R]
  BY DEF Maps
<1>2. f \in [DOMAIN f -> R] <=> f = [x \in DOMAIN f |-> f[x]] /\ \A x \in DOMAIN f : f[x] \in R
  OBVIOUS
<1> QED
  BY <1>1, <1>2

LEMMA OverIs ==
  ASSUME NEW f, NEW g
  PROVE  /\ DOMAIN Over(f, g) = DOMAIN f \cup DOMAIN g
         /\ Over(f, g) = [x \in DOMAIN Over(f, g) |-> Over(f, g)[x]]
         /\ \A x \in DOMAIN f : Over(f, g)[x] = f[x]
         /\ \A x \in DOMAIN g : x \notin DOMAIN f => Over(f, g)[x] = g[x]
BY DEF Over

LEMMA OnlyIs ==
  ASSUME NEW f, NEW S
  PROVE  /\ DOMAIN Only(f, S) = DOMAIN f \cap S
         /\ Only(f, S) = [x \in DOMAIN Only(f, S) |-> Only(f, S)[x]]
         /\ \A x \in DOMAIN f \cap S : Only(f, S)[x] = f[x]
BY DEF Only

LEMMA OverMaps ==
  ASSUME NEW D, NEW R, NEW f \in Maps(D, R), NEW g \in Maps(D, R)
  PROVE  Over(f, g) \in Maps(D, R)
<1>1. DOMAIN f \subseteq D /\ \A x \in DOMAIN f : f[x] \in R
  BY MapIs, Zenon
<1>2. DOMAIN g \subseteq D /\ \A x \in DOMAIN g : g[x] \in R
  BY MapIs, Zenon
<1>3. PICK h : h = Over(f, g)
  OBVIOUS
<1>4. h = [x \in DOMAIN h |-> h[x]] /\ DOMAIN h \subseteq D /\ \A x \in DOMAIN h : h[x] \in R
  BY <1>1, <1>2, <1>3 DEF Over
<1> QED
  BY <1>3, <1>4 DEF Maps

LEMMA OnlyMaps ==
  ASSUME NEW D, NEW R, NEW f \in Maps(D, R), NEW S
  PROVE  Only(f, S) \in Maps(D, R)
<1>1. DOMAIN f \subseteq D /\ \A x \in DOMAIN f : f[x] \in R
  BY MapIs, Zenon
<1>3. PICK h : h = Only(f, S)
  OBVIOUS
<1>4. h = [x \in DOMAIN h |-> h[x]] /\ DOMAIN h \subseteq D /\ \A x \in DOMAIN h : h[x] \in R
  BY <1>1, <1>3 DEF Only
<1> QED
  BY <1>3, <1>4 DEF Maps

\* Two maps of one domain that agree are the same.
LEMMA SameMap ==
  ASSUME NEW f, NEW g, f = [x \in DOMAIN f |-> f[x]], g = [x \in DOMAIN g |-> g[x]],
         DOMAIN f = DOMAIN g, \A x \in DOMAIN f : f[x] = g[x]
  PROVE  f = g
OBVIOUS

---------------------------------------------------------------------------
(* Restore: what a frame gives back *)

Shadowed(saved) == DOMAIN saved.captured \cup {saved.own[j][1] : j \in DOMAIN saved.own}
Remains(saved, i) ==
  IF i \in DOMAIN saved.captured THEN saved.captured[i]
  ELSE saved.own[FirstAt([j \in DOMAIN saved.own |-> saved.own[j][1]], i)][2]

LEMMA SavesIs ==
  ASSUME NEW f, NEW i
  PROVE  Saves(f, i) <=> i \in Shadowed(f.saved)
BY DEF Saves, Shadowed

\* A restored table holds what the frame saved, and under the rest what it is restored over.
LEMMA RestoreIs ==
  ASSUME NEW saved, NEW m
  PROVE  Restore(saved, m) = [i \in DOMAIN m \cup Shadowed(saved) |->
                                IF i \in Shadowed(saved) THEN Remains(saved, i) ELSE m[i]]
<1> DEFINE own == [j \in DOMAIN saved.own |-> saved.own[j][1]]
<1>1. Bound(own) = {saved.own[j][1] : j \in DOMAIN saved.own}
  BY DEF Bound
<1>2. Restore(saved, m) = [i \in DOMAIN m \cup DOMAIN saved.captured \cup Bound(own) |->
        IF i \in DOMAIN saved.captured THEN saved.captured[i]
        ELSE IF i \in Bound(own) THEN saved.own[FirstAt(own, i)][2]
        ELSE m[i]]
  BY Zenon DEF Restore
<1>3. \A i : Remains(saved, i) = IF i \in DOMAIN saved.captured THEN saved.captured[i]
                                 ELSE saved.own[FirstAt(own, i)][2]
  BY Zenon DEF Remains
<1>4. Shadowed(saved) = DOMAIN saved.captured \cup Bound(own)
  BY <1>1, Zenon DEF Shadowed
<1> HIDE DEF own
<1> QED
  BY <1>2, <1>3, <1>4

LEMMA RestoreParts ==
  ASSUME NEW saved, NEW m
  PROVE  /\ DOMAIN Restore(saved, m) = DOMAIN m \cup Shadowed(saved)
         /\ \A i \in Shadowed(saved) : Restore(saved, m)[i] = Remains(saved, i)
         /\ \A i \in DOMAIN m : i \notin Shadowed(saved) => Restore(saved, m)[i] = m[i]
<1>1. PICK r : r = Restore(saved, m)
  OBVIOUS
<1>2. r = [i \in DOMAIN m \cup Shadowed(saved) |->
                                IF i \in Shadowed(saved) THEN Remains(saved, i) ELSE m[i]]
  BY <1>1, RestoreIs, Zenon
<1>3. /\ DOMAIN r = DOMAIN m \cup Shadowed(saved)
      /\ \A i \in Shadowed(saved) : r[i] = Remains(saved, i)
      /\ \A i \in DOMAIN m : i \notin Shadowed(saved) => r[i] = m[i]
  BY <1>2
<1> QED
  BY <1>1, <1>3, Zenon

LEMMA RestoreShadowed ==
  ASSUME NEW saved, NEW m, NEW i \in Shadowed(saved)
  PROVE  Restore(saved, m)[i] = Remains(saved, i)
BY RestoreParts

LEMMA RestoreElse ==
  ASSUME NEW saved, NEW m, NEW i \in DOMAIN m, i \notin Shadowed(saved)
  PROVE  Restore(saved, m)[i] = m[i]
BY RestoreParts

\* What remains of a name bound twice is what it was bound to first.
LEMMA RemainsFirst ==
  ASSUME NEW saved, saved.own \in Seq(Identifier \X Cell), NEW i \in Shadowed(saved),
         i \notin DOMAIN saved.captured
  PROVE  \E j \in DOMAIN saved.own : /\ saved.own[j][1] = i /\ Remains(saved, i) = saved.own[j][2]
                                     /\ \A k \in 1 .. (j - 1) : saved.own[k][1] # i
<1> DEFINE own == [j \in DOMAIN saved.own |-> saved.own[j][1]]
           S == {j \in DOMAIN own : own[j] = i}
<1>1. DOMAIN own = DOMAIN saved.own /\ DOMAIN own = 1 .. Len(saved.own) /\ Len(saved.own) \in Nat
      /\ \A j \in DOMAIN own : own[j] = saved.own[j][1]
  OBVIOUS
<1>2. S \in SUBSET Nat /\ S # {}
  BY <1>1 DEF Shadowed
<1>3. PICK x \in S : \A y \in S : x <= y
  <2> HIDE DEF S
  <2> QED BY <1>2, LeastNatural
<1>4. x \in DOMAIN own /\ own[x] = i /\ \A k \in 1 .. (x - 1) : own[k] # i
  <2>1. x \in DOMAIN own /\ own[x] = i
    BY <1>3
  <2>2. ASSUME NEW k \in 1 .. (x - 1), own[k] = i PROVE FALSE
    <3>1. k \in DOMAIN own /\ k < x /\ x \in Nat /\ k \in Nat
      BY <2>1, <1>1
    <3>2. k \in S
      BY <3>1, <2>2
    <3>3. x <= k
      BY <3>2, <1>3, Zenon
    <3> QED BY <3>1, <3>3
  <2> QED BY <2>1, <2>2
<1>5. PICK j : j = FirstAt(own, i)
  OBVIOUS
<1>6. j \in DOMAIN own /\ own[j] = i /\ \A k \in 1 .. (j - 1) : own[k] # i
  BY <1>4, <1>5, Zenon DEF FirstAt
<1>7. Remains(saved, i) = saved.own[j][2]
  BY <1>5, Zenon DEF Remains
<1>8. \A k \in 1 .. (j - 1) : saved.own[k][1] # i
  <2> HIDE DEF own
  <2>1. \A k \in 1 .. (j - 1) : k \in DOMAIN own
    BY <1>6, <1>1
  <2> QED BY <2>1, <1>1, <1>6
<1> QED
  BY <1>1, <1>6, <1>7, <1>8

LEMMA RemainsBound ==
  ASSUME NEW f, f.saved.own \in Seq(Identifier \X Cell), NEW i \in Shadowed(f.saved)
  PROVE  FrameBinds(f, i, Remains(f.saved, i))
<1>1. CASE i \in DOMAIN f.saved.captured
  BY <1>1, Zenon DEF Remains, FrameBinds
<1>2. CASE i \notin DOMAIN f.saved.captured
  <2>1. PICK s : s = f.saved
    OBVIOUS
  <2>2. PICK j \in DOMAIN s.own : /\ s.own[j][1] = i /\ Remains(s, i) = s.own[j][2]
                                  /\ \A k \in 1 .. (j - 1) : s.own[k][1] # i
    <3>1. s.own \in Seq(Identifier \X Cell) /\ i \in Shadowed(s) /\ i \notin DOMAIN s.captured
      BY <1>2, <2>1
    <3> QED BY <3>1, RemainsFirst
  <2> QED BY <2>1, <2>2, Zenon DEF FrameBinds
<1> QED
  BY <1>1, <1>2

\* Undoing what a frame saved commutes with what the caller's and the callee's tables gain
\* together, and with what they lose together when the frame's own part stays.
LEMMA RestoreOver ==
  ASSUME NEW saved, NEW m, NEW new
  PROVE  Restore(saved, Over(m, new)) = Over(Restore(saved, m), new)
<1>1. PICK r : r = Restore(saved, m) /\ r = [i \in DOMAIN m \cup Shadowed(saved) |->
                                IF i \in Shadowed(saved) THEN Remains(saved, i) ELSE m[i]]
  BY RestoreIs, Zenon
<1>2. PICK o : o = Over(m, new) /\ o = [x \in DOMAIN m \cup DOMAIN new |-> IF x \in DOMAIN m THEN m[x] ELSE new[x]]
  BY Zenon DEF Over
<1>3. PICK s : s = Restore(saved, o) /\ s = [i \in DOMAIN o \cup Shadowed(saved) |->
                                IF i \in Shadowed(saved) THEN Remains(saved, i) ELSE o[i]]
  BY RestoreIs, Zenon
<1>4. PICK t : t = Over(r, new) /\ t = [x \in DOMAIN r \cup DOMAIN new |-> IF x \in DOMAIN r THEN r[x] ELSE new[x]]
  BY Zenon DEF Over
<1>5. DOMAIN s = DOMAIN t
  BY <1>1, <1>2, <1>3, <1>4
<1>6. \A x \in DOMAIN s : s[x] = t[x]
  BY <1>1, <1>2, <1>3, <1>4
<1>7. s = t
  BY <1>3, <1>4, <1>5, <1>6
<1> QED
  BY <1>1, <1>2, <1>3, <1>4, <1>7, Zenon

LEMMA RestoreOnly ==
  ASSUME NEW saved, NEW m, NEW S, Shadowed(saved) \subseteq S
  PROVE  Restore(saved, Only(m, S)) = Only(Restore(saved, m), S)
<1>1. PICK r : r = Restore(saved, m) /\ r = [i \in DOMAIN m \cup Shadowed(saved) |->
                                IF i \in Shadowed(saved) THEN Remains(saved, i) ELSE m[i]]
  BY RestoreIs, Zenon
<1>2. PICK o : o = Only(m, S) /\ o = [x \in DOMAIN m \cap S |-> m[x]]
  BY Zenon DEF Only
<1>3. PICK s : s = Restore(saved, o) /\ s = [i \in DOMAIN o \cup Shadowed(saved) |->
                                IF i \in Shadowed(saved) THEN Remains(saved, i) ELSE o[i]]
  BY RestoreIs, Zenon
<1>4. PICK t : t = Only(r, S) /\ t = [x \in DOMAIN r \cap S |-> r[x]]
  BY Zenon DEF Only
<1>5. DOMAIN s = DOMAIN t
  BY <1>1, <1>2, <1>3, <1>4
<1>6. \A x \in DOMAIN s : s[x] = t[x]
  BY <1>1, <1>2, <1>3, <1>4
<1>7. s = t
  BY <1>3, <1>4, <1>5, <1>6
<1> QED
  BY <1>1, <1>2, <1>3, <1>4, <1>7, Zenon

---------------------------------------------------------------------------
(* Types *)

LEMMA EnvironmentIs ==
  ASSUME NEW f
  PROVE  f \in Environment <=> /\ f = [x \in DOMAIN f |-> f[x]]
                               /\ DOMAIN f \subseteq Identifier
                               /\ \A x \in DOMAIN f : f[x] \in Cell
BY MapIs, Zenon DEF Environment

LEMMA SignatureTyped ==
  ASSUME NEW sig \in Signatures \cup {NoSignature}
  PROVE  sig.args \in Seq(Names) /\ sig.locals \in Seq(Names) /\ sig.results \in Seq(Names)
<1>1. CASE sig \in Signatures
  BY <1>1, SignaturesAssumption
<1>2. CASE sig = NoSignature
  BY <1>2 DEF NoSignature
<1> QED
  BY <1>1, <1>2

LEMMA ProgramTyped ==
  ASSUME NEW p \in Program
  PROVE  /\ p.sig \in Signatures \cup {NoSignature} /\ p.syms \in [Names -> Identifier]
         /\ p.free \in SUBSET Names /\ p.scope \in SUBSET Names /\ p.function \in BOOLEAN
BY DEF Program

LEMMA SavedTyped ==
  ASSUME NEW s \in Saved
  PROVE  s.captured \in Environment /\ s.own \in Seq(Identifier \X Cell)
BY DEF Saved

LEMMA FrameTyped ==
  ASSUME NEW f \in Frame
  PROVE  /\ f.program \in Program /\ f.function \in 0 .. MaxFn /\ f.env \in Environment
         /\ f.saved.captured \in Environment /\ f.saved.own \in Seq(Identifier \X Cell)
<1>1. f.program \in Program /\ f.function \in 0 .. MaxFn /\ f.env \in Environment /\ f.saved \in Saved
  BY DEF Frame
<1> QED
  BY <1>1, SavedTyped

LEMMA ClosureTyped ==
  ASSUME NEW f \in Closure
  PROVE  f.program \in Program /\ f.env \in Environment
BY DEF Closure

LEMMA ShadowedTyped ==
  ASSUME NEW f \in Frame
  PROVE  Shadowed(f.saved) \in SUBSET Identifier
<1>1. PICK own \in Seq(Identifier \X Cell) : own = f.saved.own
  BY FrameTyped
<1>2. \A j \in DOMAIN own : own[j][1] \in Identifier
  OBVIOUS
<1>3. DOMAIN f.saved.captured \subseteq Identifier
  BY FrameTyped, EnvironmentIs, Zenon
<1> QED
  BY <1>1, <1>2, <1>3 DEF Shadowed

\* What a frame remembers is of identifiers and cells.
LEMMA RemainsTyped ==
  ASSUME NEW f \in Frame, NEW i \in Shadowed(f.saved)
  PROVE  i \in Identifier /\ Remains(f.saved, i) \in Cell
<1>1. i \in Identifier
  BY ShadowedTyped
<1>2. CASE i \in DOMAIN f.saved.captured
  <2>1. f.saved.captured[i] \in Cell
    BY <1>2, FrameTyped, EnvironmentIs, Zenon
  <2> QED BY <1>1, <1>2, <2>1 DEF Remains
<1>3. CASE i \notin DOMAIN f.saved.captured
  <2>1. PICK own \in Seq(Identifier \X Cell) : own = f.saved.own
    BY FrameTyped
  <2>2. \A j \in DOMAIN own : own[j][2] \in Cell
    OBVIOUS
  <2>3. PICK s : s = f.saved
    OBVIOUS
  <2>4. PICK j \in DOMAIN s.own : /\ s.own[j][1] = i /\ Remains(s, i) = s.own[j][2]
                                  /\ \A k \in 1 .. (j - 1) : s.own[k][1] # i
    <3>1. s.own \in Seq(Identifier \X Cell) /\ i \in Shadowed(s) /\ i \notin DOMAIN s.captured
      BY <1>3, <2>1, <2>3
    <3> QED BY <3>1, RemainsFirst
  <2> QED BY <1>1, <2>1, <2>2, <2>3, <2>4
<1> QED
  BY <1>2, <1>3

LEMMA RestoreTyped ==
  ASSUME NEW f \in Frame, NEW m \in Environment
  PROVE  Restore(f.saved, m) \in Environment
<1>1. PICK r : r = Restore(f.saved, m) /\ r = [i \in DOMAIN m \cup Shadowed(f.saved) |->
                                IF i \in Shadowed(f.saved) THEN Remains(f.saved, i) ELSE m[i]]
  BY RestoreIs, Zenon
<1>2. DOMAIN m \subseteq Identifier /\ \A x \in DOMAIN m : m[x] \in Cell
  BY EnvironmentIs, Zenon
<1>3. \A i \in Shadowed(f.saved) : i \in Identifier /\ Remains(f.saved, i) \in Cell
  BY RemainsTyped
<1>4. r = [x \in DOMAIN r |-> r[x]] /\ DOMAIN r \subseteq Identifier /\ \A x \in DOMAIN r : r[x] \in Cell
  BY <1>1, <1>2, <1>3
<1> QED
  BY <1>1, <1>4, EnvironmentIs

---------------------------------------------------------------------------
(* What every step uses *)

\* Cells named for the first time are fresh and for one identifier each.
LEMMA ClaimsGrow ==
  ASSUME next.cell \in Nat, next'.cell \in Nat, next.cell <= next'.cell, HandedOut, OneOwner, NEW N,
         \A i \in Identifier, c \in Cell : Claims(i, c)' => Claims(i, c) \/ <<i, c>> \in N,
         \A i \in Identifier, c \in Cell : <<i, c>> \in N => next.cell <= c /\ c < next'.cell,
         \A i, j \in Identifier, c \in Cell : <<i, c>> \in N /\ <<j, c>> \in N => i = j
  PROVE  HandedOut' /\ OneOwner'
<1>1. ASSUME NEW i \in Identifier, NEW c \in Cell, Claims(i, c)' PROVE c < next'.cell
  <2>1. CASE Claims(i, c)
    <3>1. c < next.cell /\ c \in Int
      BY <2>1 DEF HandedOut, Cell
    <3> QED BY <3>1
  <2>2. CASE <<i, c>> \in N
    BY <2>2
  <2> QED BY <1>1, <2>1, <2>2
<1>2. ASSUME NEW i \in Identifier, NEW j \in Identifier, NEW c \in Cell, Claims(i, c)', Claims(j, c)'
      PROVE  i = j
  <2>1. Claims(i, c) => c < next.cell
    BY DEF HandedOut
  <2>2. Claims(j, c) => c < next.cell
    BY DEF HandedOut
  <2>3. c \in Int
    BY DEF Cell
  <2>4. Claims(i, c) \/ <<i, c>> \in N
    BY <1>2
  <2>5. Claims(j, c) \/ <<j, c>> \in N
    BY <1>2
  <2>6. CASE Claims(i, c) /\ Claims(j, c)
    BY <2>6 DEF OneOwner
  <2>7. CASE <<i, c>> \in N /\ <<j, c>> \in N
    BY <2>7
  <2>8. <<i, c>> \in N => next.cell <= c
    OBVIOUS
  <2>9. <<j, c>> \in N => next.cell <= c
    OBVIOUS
  <2>10. ~(c < next.cell /\ next.cell <= c)
    BY <2>3
  <2> QED BY <2>1, <2>2, <2>4, <2>5, <2>6, <2>7, <2>8, <2>9, <2>10, Zenon
<1>3. HandedOut'
  BY <1>1 DEF HandedOut
<1>4. OneOwner'
  BY <1>2 DEF OneOwner
<1> QED
  BY <1>3, <1>4

LEMMA Counters ==
  ASSUME TypeOK
  PROVE  /\ next.cell \in 1 .. MaxCell + 1 /\ next.ident \in 1 .. MaxIdent + 1 /\ next.fn \in 1 .. MaxFn + 1
         /\ next = [ident |-> next.ident, cell |-> next.cell, fn |-> next.fn]
         /\ {MaxIdent, MaxCell, MaxFn, MaxFrames, MaxStack, MaxFaults} \subseteq Nat
BY BoundsAssumption DEF TypeOK

LEMMA ActiveTyped ==
  ASSUME TypeOK
  PROVE  /\ active = [x \in DOMAIN active |-> active[x]] /\ DOMAIN active \subseteq Identifier
         /\ \A x \in DOMAIN active : active[x] \in Cell
<1>1. active \in Environment
  BY DEF TypeOK
<1> QED
  BY <1>1, EnvironmentIs, Zenon

LEMMA ProtectedTyped ==
  ASSUME TypeOK
  PROVE  /\ protected = [x \in DOMAIN protected |-> protected[x]] /\ DOMAIN protected \subseteq Identifier
         /\ \A x \in DOMAIN protected : protected[x] \in 0 .. MaxCell
<1>1. PICK R : R = 0 .. MaxCell /\ protected \in Maps(Identifier, R)
  BY DEF TypeOK
<1>2. /\ protected = [x \in DOMAIN protected |-> protected[x]]
      /\ DOMAIN protected \subseteq Identifier /\ \A x \in DOMAIN protected : protected[x] \in R
  BY <1>1 DEF Maps
<1> QED
  BY <1>1, <1>2

LEMMA FramesTyped ==
  ASSUME TypeOK
  PROVE  /\ frames \in Seq(Frame) /\ Len(frames) \in Nat /\ DOMAIN frames = 1 .. Len(frames)
         /\ \A k \in DOMAIN frames : frames[k] \in Frame
         /\ entered \in Seq(Environment) /\ Len(entered) = Len(frames) /\ DOMAIN entered = DOMAIN frames
         /\ \A k \in DOMAIN frames : entered[k] \in Environment
BY DEF TypeOK

\* The running frame's program and the program of every closure name identifiers with records.
LEMMA TopTyped ==
  ASSUME TypeOK, InProgram
  PROVE  Top \in Frame /\ Len(frames) \in DOMAIN frames /\ Top = frames[Len(frames)] /\ Len(frames) > 0
<1>1. frames # <<>>
  BY DEF InProgram
<1>2. frames \in Seq(Frame)
  BY DEF TypeOK
<1>3. Len(frames) \in DOMAIN frames /\ Len(frames) > 0 /\ frames[Len(frames)] \in Frame
  BY <1>1, <1>2
<1> QED
  BY <1>3 DEF Top

LEMMA ValuesTyped ==
  ASSUME TypeOK
  PROVE  /\ stack \in Seq(Value) /\ Len(stack) \in Nat /\ DOMAIN stack = 1 .. Len(stack)
         /\ cells = [c \in DOMAIN cells |-> cells[c]] /\ DOMAIN cells \subseteq Cell
         /\ \A c \in DOMAIN cells : cells[c] \in Value
BY DEF TypeOK

LEMMA AtomsLive ==
  \A v \in Atoms : ValueLive(v)
BY DEF Atoms, Undef, Number, Primitive, ValueLive

LEMMA SequenceMade ==
  ASSUME NEW S, NEW s \in Seq(S), NEW T, NEW t, t = [k \in DOMAIN t |-> t[k]], DOMAIN t = DOMAIN s,
         \A k \in DOMAIN t : t[k] \in T
  PROVE  t \in Seq(T) /\ Len(t) = Len(s)
OBVIOUS

LEMMA ReversedTyped ==
  ASSUME NEW T, NEW s \in Seq(T)
  PROVE  [k \in 1 .. Len(s) |-> s[Len(s) + 1 - k]] \in Seq(T)
OBVIOUS

LEMMA OverEmpty ==
  ASSUME NEW f, NEW g, f = [x \in DOMAIN f |-> f[x]], DOMAIN g = {}
  PROVE  Over(f, g) = f
BY DEF Over

---------------------------------------------------------------------------
(* cell(i) *)

\* The identifier has a cell afterwards: the one it had, or a fresh one.
LEMMA Touched ==
  ASSUME TypeOK, NEW i \in Identifier, Touch(i)
  PROVE  \E new :
           /\ new \in Environment /\ DOMAIN new = {i} \ DOMAIN active
           /\ (\A x \in DOMAIN new : new[x] = next.cell)
           /\ active' = Over(active, new)
           /\ entered' = [k \in DOMAIN entered |-> Over(entered[k], new)]
           /\ DOMAIN TouchedCells(i) = DOMAIN cells \cup {new[x] : x \in DOMAIN new}
           /\ next' \in [ident : 1 .. (MaxIdent + 1), cell : 1 .. (MaxCell + 1), fn : 1 .. (MaxFn + 1)]
           /\ next'.cell = next.cell + (IF i \in DOMAIN active THEN 0 ELSE 1)
<1>0. /\ next \in [ident : 1 .. (MaxIdent + 1), cell : 1 .. (MaxCell + 1), fn : 1 .. (MaxFn + 1)]
      /\ next.cell \in 1 .. (MaxCell + 1) /\ MaxCell \in Nat
  BY Counters DEF TypeOK
<1>1. CASE i \in DOMAIN active
  <2>1. PICK new : new = [x \in {} |-> next.cell]
    OBVIOUS
  <2>2. DOMAIN new = {} /\ new = [x \in DOMAIN new |-> new[x]]
    BY <2>1
  <2>3. new \in Environment
    BY <2>2, EnvironmentIs
  <2>4. active' = Over(active, new)
    <3>1. active' = Over(active, [j \in {i} |-> next.cell])
      BY DEF Touch, TouchedActive
    <3>2. PICK g : g = [j \in {i} |-> next.cell]
      OBVIOUS
    <3>3. DOMAIN g \subseteq DOMAIN active
      BY <3>2, <1>1
    <3>4. active = [x \in DOMAIN active |-> active[x]]
      BY ActiveTyped
    <3>5. Over(active, g) = active
      BY <3>3, <3>4 DEF Over
    <3>6. Over(active, new) = active
      BY <2>2, <3>4, OverEmpty, Zenon
    <3> QED BY <3>1, <3>2, <3>5, <3>6, Zenon
  <2>5. \A k \in DOMAIN entered : Over(entered[k], new) = entered[k]
    <3>1. ASSUME NEW k \in DOMAIN entered PROVE Over(entered[k], new) = entered[k]
      <4>1. PICK e \in Environment : e = entered[k]
        BY FramesTyped
      <4>2. e = [x \in DOMAIN e |-> e[x]]
        BY EnvironmentIs, Zenon
      <4> QED BY <4>1, <4>2, <2>2, OverEmpty, Zenon
    <3> QED BY <3>1
  <2>6. entered' = [k \in DOMAIN entered |-> Over(entered[k], new)]
    <3>1. entered' = [k \in DOMAIN entered |-> entered[k]]
      BY <1>1 DEF Touch, TouchedEntered
    <3> QED BY <3>1, <2>5
  <2>7. TouchedCells(i) = cells /\ next' = next
    BY <1>1 DEF TouchedCells, Touch, TouchedNext
  <2>8. {new[x] : x \in DOMAIN new} = {}
    BY <2>2
  <2>9. DOMAIN TouchedCells(i) = DOMAIN cells \cup {new[x] : x \in DOMAIN new}
    BY <2>7, <2>8
  <2>10. DOMAIN new = {i} \ DOMAIN active /\ \A x \in DOMAIN new : new[x] = next.cell
    BY <2>2, <1>1
  <2>11. next'.cell = next.cell + (IF i \in DOMAIN active THEN 0 ELSE 1)
    BY <2>7, <1>1, <1>0
  <2>12. next' \in [ident : 1 .. (MaxIdent + 1), cell : 1 .. (MaxCell + 1), fn : 1 .. (MaxFn + 1)]
    BY <2>7, <1>0
  <2> QED BY <2>3, <2>4, <2>6, <2>9, <2>10, <2>11, <2>12
<1>2. CASE i \notin DOMAIN active
  <2>1. PICK new : new = [j \in {i} |-> next.cell]
    OBVIOUS
  <2>2. DOMAIN new = {i} /\ new = [x \in DOMAIN new |-> new[x]] /\ \A x \in DOMAIN new : new[x] = next.cell
    BY <2>1
  <2>3. next' = [next EXCEPT !.cell = @ + 1] /\ next'.cell <= MaxCell
    BY <1>2 DEF Touch, TouchedNext
  <2>4. next'.cell = next.cell + 1 /\ next.cell \in Cell
        /\ next' \in [ident : 1 .. (MaxIdent + 1), cell : 1 .. (MaxCell + 1), fn : 1 .. (MaxFn + 1)]
    BY <2>3, <1>0 DEF Cell
  <2>5. new \in Environment
    <3>1. DOMAIN new \subseteq Identifier /\ \A x \in DOMAIN new : new[x] \in Cell
      BY <2>2, <2>4
    <3> QED BY <3>1, <2>2, EnvironmentIs
  <2>6. active' = Over(active, new)
    BY <2>1 DEF Touch, TouchedActive
  <2>7. entered' = [k \in DOMAIN entered |-> Over(entered[k], new)]
    BY <2>1, <1>2 DEF Touch, TouchedEntered
  <2>8. TouchedCells(i) = Over(cells, [c \in {next.cell} |-> Undef])
    BY <1>2 DEF TouchedCells
  <2>9. DOMAIN TouchedCells(i) = DOMAIN cells \cup {next.cell}
    BY <2>8 DEF Over
  <2>10. {new[x] : x \in DOMAIN new} = {next.cell}
    BY <2>2
  <2>11. DOMAIN TouchedCells(i) = DOMAIN cells \cup {new[x] : x \in DOMAIN new}
    BY <2>9, <2>10
  <2>12. DOMAIN new = {i} \ DOMAIN active
    BY <2>2, <1>2
  <2>13. next'.cell = next.cell + (IF i \in DOMAIN active THEN 0 ELSE 1)
    BY <2>4, <1>2
  <2> QED BY <2>2, <2>4, <2>5, <2>6, <2>7, <2>11, <2>12, <2>13
<1> QED
  BY <1>1, <1>2

\* What cell(i) makes of the cells: the value it adds is undefined.
LEMMA TouchedValues ==
  ASSUME TypeOK, ValuesLive, NEW i \in Identifier, next.cell \in Cell \/ i \in DOMAIN active
  PROVE  /\ TouchedCells(i) = [c \in DOMAIN TouchedCells(i) |-> TouchedCells(i)[c]]
         /\ DOMAIN TouchedCells(i) \subseteq Cell
         /\ \A c \in DOMAIN TouchedCells(i) : TouchedCells(i)[c] \in Value /\ ValueLive(TouchedCells(i)[c])
         /\ DOMAIN cells \subseteq DOMAIN TouchedCells(i)
         /\ \A c \in DOMAIN cells : TouchedCells(i)[c] = cells[c]
         /\ active \in Environment /\ BindingsLive => CellOf(i) \in DOMAIN TouchedCells(i)
<1>0. /\ cells = [c \in DOMAIN cells |-> cells[c]] /\ DOMAIN cells \subseteq Cell
      /\ \A c \in DOMAIN cells : cells[c] \in Value /\ ValueLive(cells[c])
  BY ValuesTyped DEF ValuesLive
<1>1. CASE i \in DOMAIN active
  <2>1. TouchedCells(i) = cells /\ CellOf(i) = active[i]
    BY <1>1 DEF TouchedCells, CellOf
  <2>2. BindingsLive => active[i] \in DOMAIN cells
    <3>1. active[i] \in Cell
      BY <1>1, ActiveTyped
    <3> QED BY <3>1, <1>1, Zenon DEF BindingsLive, Binds
  <2> QED BY <2>1, <2>2, <1>0
<1>2. CASE i \notin DOMAIN active
  <2>1. TouchedCells(i) = Over(cells, [c \in {next.cell} |-> Undef]) /\ CellOf(i) = next.cell /\ next.cell \in Cell
    BY <1>2 DEF TouchedCells, CellOf
  <2>2. PICK t : t = TouchedCells(i) /\ t = [x \in DOMAIN cells \cup {next.cell} |-> IF x \in DOMAIN cells THEN cells[x] ELSE Undef]
    BY <2>1 DEF Over
  <2>3. Undef \in Value /\ ValueLive(Undef)
    BY AtomsLive DEF Atoms, Value
  <2>4. /\ t = [c \in DOMAIN t |-> t[c]] /\ DOMAIN t \subseteq Cell /\ DOMAIN cells \subseteq DOMAIN t
        /\ (\A c \in DOMAIN cells : t[c] = cells[c])
        /\ next.cell \in DOMAIN t
    BY <2>2, <1>0, <2>1
  <2>5. \A c \in DOMAIN t : t[c] \in Value /\ ValueLive(t[c])
    BY <2>2, <1>0, <2>3
  <2> QED BY <2>1, <2>2, <2>4, <2>5, Zenon
<1> QED
  BY <1>1, <1>2

\* A step that gives an identifier its cell and writes live values keeps the invariant.
LEMMA TouchInv ==
  ASSUME Inv, NEW i \in Identifier, i \in DOMAIN protected, Touch(i),
         UNCHANGED <<record, protected, closures, frames, faults>>,
         cells' = [c \in DOMAIN cells' |-> cells'[c]], DOMAIN cells' = DOMAIN TouchedCells(i),
         \A c \in DOMAIN cells' : cells'[c] \in Value /\ ValueLive(cells'[c]),
         stack' \in Seq(Value), \A k \in DOMAIN stack' : ValueLive(stack'[k])
  PROVE  Inv'
<1>0. TypeOK /\ Live /\ RestoresCaller /\ HandedOut /\ OneOwner /\ ShadowedBound /\ ResultsBound
  BY DEF Inv
<1>1. PICK new : /\ new \in Environment /\ DOMAIN new = {i} \ DOMAIN active
           /\ (\A x \in DOMAIN new : new[x] = next.cell)
           /\ active' = Over(active, new)
           /\ entered' = [k \in DOMAIN entered |-> Over(entered[k], new)]
           /\ DOMAIN TouchedCells(i) = DOMAIN cells \cup {new[x] : x \in DOMAIN new}
           /\ next' \in [ident : 1 .. (MaxIdent + 1), cell : 1 .. (MaxCell + 1), fn : 1 .. (MaxFn + 1)]
           /\ next'.cell = next.cell + (IF i \in DOMAIN active THEN 0 ELSE 1)
  BY <1>0, Touched
<1>2. /\ active \in Environment /\ next.cell \in Nat
      /\ record \in [Names -> 0 .. MaxIdent] /\ protected \in Maps(Identifier, 0 .. MaxCell)
      /\ closures \in [DOMAIN closures -> Closure] /\ DOMAIN closures \subseteq 1 .. MaxFn
      /\ frames \in Seq(Frame) /\ Len(frames) <= MaxFrames /\ faults \in 0 .. MaxFaults
      /\ entered \in Seq(Environment) /\ Len(entered) = Len(frames) /\ DOMAIN cells \subseteq Cell
  <2>1. next.cell \in Nat
    BY <1>0, Counters
  <2> QED BY <2>1, <1>0 DEF TypeOK
<1>3. /\ DOMAIN active' = DOMAIN active \cup DOMAIN new
      /\ \A x \in DOMAIN active : active'[x] = active[x]
      /\ \A x \in DOMAIN new : active'[x] = next.cell
  <2>1. /\ DOMAIN Over(active, new) = DOMAIN active \cup DOMAIN new
        /\ \A x \in DOMAIN active : Over(active, new)[x] = active[x]
        /\ \A x \in DOMAIN new : x \notin DOMAIN active => Over(active, new)[x] = new[x]
    BY DEF Over
  <2> QED BY <2>1, <1>1
<1>4. \A x \in DOMAIN new : x = i /\ next.cell \in DOMAIN cells' /\ next.cell \in Cell /\ next'.cell = next.cell + 1
  <2>1. \A x \in DOMAIN new : new[x] \in Cell
    BY <1>1, EnvironmentIs, Zenon
  <2> QED BY <2>1, <1>1, <1>2
<1>5. TypeOK'
  <2>1. active' \in Environment
    BY <1>1, <1>2, OverMaps DEF Environment
  <2>2. entered' \in Seq(Environment) /\ Len(entered') = Len(frames')
    <3>1. \A k \in DOMAIN entered : Over(entered[k], new) \in Environment
      <4>1. ASSUME NEW k \in DOMAIN entered PROVE Over(entered[k], new) \in Environment
        <5>1. entered[k] \in Environment
          BY <1>2
        <5> QED BY <5>1, <1>1, OverMaps DEF Environment
      <4> QED BY <4>1
    <3>2. DOMAIN entered' = DOMAIN entered /\ \A k \in DOMAIN entered' : entered'[k] \in Environment
      BY <3>1, <1>1
    <3>3. entered' = [k \in DOMAIN entered' |-> entered'[k]]
      BY <1>1
    <3> QED BY <3>2, <3>3, <1>2, SequenceMade
  <2>3. DOMAIN cells' \subseteq Cell
    <3>1. \A x \in DOMAIN new : new[x] \in Cell
      BY <1>1, EnvironmentIs, Zenon
    <3> QED BY <3>1, <1>1, <1>2
  <2>4. cells' \in [DOMAIN cells' -> Value]
    OBVIOUS
  <2> QED BY <2>1, <2>2, <2>3, <2>4, <1>1, <1>2 DEF TypeOK
<1>6. RestoresCaller'
  <2>1. ASSUME NEW k \in DOMAIN frames
        PROVE Restore(frames[k].saved, IF k = Len(frames) THEN active' ELSE entered'[k + 1]) = entered'[k]
    <3>1. PICK m : m = IF k = Len(frames) THEN active ELSE entered[k + 1]
      OBVIOUS
    <3>2. Restore(frames[k].saved, m) = entered[k]
      BY <3>1, <1>0 DEF RestoresCaller
    <3>3. (IF k = Len(frames) THEN active' ELSE entered'[k + 1]) = Over(m, new)
      BY <3>1, <1>1, <1>2
    <3>4. entered'[k] = Over(entered[k], new)
      BY <1>1, <1>2
    <3>5. Restore(frames[k].saved, Over(m, new)) = Over(Restore(frames[k].saved, m), new)
      BY RestoreOver
    <3> QED BY <3>2, <3>3, <3>4, <3>5
  <2> QED BY <2>1 DEF RestoresCaller
<1>7. ASSUME NEW x \in Identifier, NEW c \in Cell, Binds(x, c)'
      PROVE  Binds(x, c) \/ (x \in DOMAIN new /\ c = next.cell)
  <2>1. CASE x \in DOMAIN active' /\ active'[x] = c
    <3>1. CASE x \in DOMAIN active
      BY <3>1, <2>1, <1>3 DEF Binds
    <3>2. CASE x \in DOMAIN new
      BY <3>2, <2>1, <1>3
    <3> QED BY <2>1, <1>3, <3>1, <3>2
  <2>2. CASE ~(x \in DOMAIN active' /\ active'[x] = c)
    BY <2>2, <1>7, Zenon DEF Binds
  <2> QED BY <2>1, <2>2
<1>8. HandedOut' /\ OneOwner'
  <2>1. PICK N : N = {<<x, next.cell>> : x \in DOMAIN new}
    OBVIOUS
  <2>2. \A x \in Identifier, c \in Cell : Claims(x, c)' => Claims(x, c) \/ <<x, c>> \in N
    BY <1>7, <2>1 DEF Claims, Protects
  <2>3. \A x, y \in Identifier, c \in Cell : <<x, c>> \in N /\ <<y, c>> \in N => x = y
    BY <2>1, <1>4
  <2>4. \A x \in Identifier, c \in Cell : <<x, c>> \in N => next.cell <= c /\ c < next'.cell
    BY <2>1, <1>4, <1>2
  <2>5. next'.cell \in Nat /\ next.cell <= next'.cell
    BY <1>1, <1>2
  <2> QED BY <2>2, <2>3, <2>4, <2>5, <1>0, <1>2, ClaimsGrow
<1>9. Live'
  <2>1. NamesLive' /\ ProgramsLive'
    BY <1>0 DEF Live, NamesLive, ProgramsLive
  <2>2. ValuesLive'
    BY DEF ValuesLive, ValueLive
  <2>3. BindingsLive'
    <3>1. ASSUME NEW x \in Identifier, NEW c \in Cell, Binds(x, c)'
          PROVE  x \in DOMAIN protected /\ c \in DOMAIN cells'
      <4>1. CASE Binds(x, c)
        BY <4>1, <1>0, <1>1 DEF Live, BindingsLive
      <4>2. CASE x \in DOMAIN new /\ c = next.cell
        BY <4>2, <1>4
      <4> QED BY <1>7, <3>1, <4>1, <4>2
    <3> QED BY <3>1 DEF BindingsLive
  <2> QED BY <2>1, <2>2, <2>3 DEF Live
<1>10. ShadowedBound' /\ ResultsBound'
  BY <1>0, <1>3 DEF ShadowedBound, ResultsBound
<1> QED
  BY <1>5, <1>6, <1>8, <1>9, <1>10 DEF Inv

LEMMA TouchRoom ==
  ASSUME TypeOK, NEW i \in Identifier, Touch(i)
  PROVE  next.cell \in Cell \/ i \in DOMAIN active
<1>1. /\ next \in [ident : 1 .. (MaxIdent + 1), cell : 1 .. (MaxCell + 1), fn : 1 .. (MaxFn + 1)]
      /\ next.cell \in 1 .. (MaxCell + 1) /\ MaxCell \in Nat
  BY Counters DEF TypeOK
<1> SUFFICES ASSUME i \notin DOMAIN active PROVE next.cell \in Cell
  OBVIOUS
<1>2. next'= [next EXCEPT !.cell = @ + 1] /\ next'.cell <= MaxCell
  BY DEF Touch, TouchedNext
<1> QED
  BY <1>1, <1>2 DEF Cell

\* Every handle the running program was compiled against is an identifier's.
LEMMA SymbolLive ==
  ASSUME Inv, InProgram, NEW n \in Names
  PROVE  Top.program.syms[n] \in Identifier /\ Top.program.syms[n] \in DOMAIN protected
<1>1. /\ Top \in Frame /\ Len(frames) \in DOMAIN frames /\ Top = frames[Len(frames)]
  BY TopTyped DEF Inv
<1>2. Top.program \in Program
  BY <1>1, FrameTyped
<1>3. Top.program.syms \in [Names -> Identifier]
  BY <1>2, ProgramTyped
<1>4. Top.program.syms[n] \in DOMAIN protected
  BY <1>1 DEF Inv, Live, ProgramsLive
<1> QED
  BY <1>3, <1>4

\* The values taken from a stack are live, and so is what is left.
LEMMA StackLive ==
  ASSUME Inv
  PROVE  /\ stack \in Seq(Value) /\ \A k \in 1 .. Len(stack) : stack[k] \in Value /\ ValueLive(stack[k])
         /\ \A m \in 0 .. Len(stack) : /\ SubSeq(stack, 1, m) \in Seq(Value)
                                       /\ \A k \in DOMAIN SubSeq(stack, 1, m) : ValueLive(SubSeq(stack, 1, m)[k])
<1>1. stack \in Seq(Value) /\ \A k \in 1 .. Len(stack) : stack[k] \in Value /\ ValueLive(stack[k])
  BY DEF Inv, TypeOK, Live, ValuesLive
<1>2. ASSUME NEW m \in 0 .. Len(stack)
      PROVE  /\ SubSeq(stack, 1, m) \in Seq(Value)
             /\ \A k \in DOMAIN SubSeq(stack, 1, m) : ValueLive(SubSeq(stack, 1, m)[k])
  <2>1. SubSeq(stack, 1, m) \in Seq(Value) /\ DOMAIN SubSeq(stack, 1, m) = 1 .. m
        /\ \A k \in 1 .. m : SubSeq(stack, 1, m)[k] = stack[k]
    BY <1>1
  <2>2. \A k \in 1 .. m : k \in 1 .. Len(stack)
    BY <1>1
  <2> QED BY <2>1, <2>2, <1>1
<1> QED
  BY <1>1, <1>2

LEMMA AppendLive ==
  ASSUME NEW s \in Seq(Value), NEW v \in Value, ValueLive(v), \A k \in DOMAIN s : ValueLive(s[k])
  PROVE  Append(s, v) \in Seq(Value) /\ \A k \in DOMAIN Append(s, v) : ValueLive(Append(s, v)[k])
<1>1. Append(s, v) \in Seq(Value) /\ DOMAIN Append(s, v) = 1 .. Len(s) + 1 /\ Append(s, v)[Len(s) + 1] = v
      /\ \A k \in 1 .. Len(s) : Append(s, v)[k] = s[k]
  OBVIOUS
<1>2. \A k \in 1 .. Len(s) + 1 : k \in 1 .. Len(s) \/ k = Len(s) + 1
  OBVIOUS
<1>3. DOMAIN s = 1 .. Len(s)
  OBVIOUS
<1>4. ASSUME NEW k \in DOMAIN Append(s, v) PROVE ValueLive(Append(s, v)[k])
  <2>1. k \in 1 .. Len(s) \/ k = Len(s) + 1
    BY <1>1, <1>2
  <2>2. CASE k \in 1 .. Len(s)
    BY <2>2, <1>1, <1>3
  <2>3. CASE k = Len(s) + 1
    BY <2>3, <1>1
  <2> QED BY <2>1, <2>2, <2>3
<1> QED
  BY <1>1, <1>4

LEMMA ConcatLive ==
  ASSUME NEW s \in Seq(Value), NEW t \in Seq(Value),
         \A k \in DOMAIN s : ValueLive(s[k]), \A k \in DOMAIN t : ValueLive(t[k])
  PROVE  s \o t \in Seq(Value) /\ \A k \in DOMAIN (s \o t) : ValueLive((s \o t)[k])
<1>1. /\ s \o t \in Seq(Value) /\ Len(s \o t) = Len(s) + Len(t)
      /\ \A i \in 1 .. Len(s) + Len(t) : (s \o t)[i] = IF i <= Len(s) THEN s[i] ELSE t[i - Len(s)]
  BY ConcatProperties
<1>2. DOMAIN (s \o t) = 1 .. Len(s) + Len(t) /\ DOMAIN s = 1 .. Len(s) /\ DOMAIN t = 1 .. Len(t)
      /\ Len(s) \in Nat /\ Len(t) \in Nat
  BY <1>1
<1>3. ASSUME NEW k \in DOMAIN (s \o t) PROVE ValueLive((s \o t)[k])
  <2>1. CASE k <= Len(s)
    <3>1. k \in DOMAIN s /\ (s \o t)[k] = s[k]
      BY <2>1, <1>1, <1>2
    <3> QED BY <3>1
  <2>2. CASE ~(k <= Len(s))
    <3>1. k - Len(s) \in DOMAIN t /\ (s \o t)[k] = t[k - Len(s)]
      BY <2>2, <1>1, <1>2
    <3> QED BY <3>1
  <2> QED BY <2>1, <2>2
<1> QED
  BY <1>1, <1>3

\* A value written into a cell that exists.
LEMMA WrittenLive ==
  ASSUME Inv, NEW i \in Identifier, Touch(i), NEW v \in Value, ValueLive(v),
         cells' = [TouchedCells(i) EXCEPT ![CellOf(i)] = v]
  PROVE  /\ cells' = [c \in DOMAIN cells' |-> cells'[c]] /\ DOMAIN cells' = DOMAIN TouchedCells(i)
         /\ \A c \in DOMAIN cells' : cells'[c] \in Value /\ ValueLive(cells'[c])
<1>1. next.cell \in Cell \/ i \in DOMAIN active
  BY TouchRoom DEF Inv
<1>2. /\ TouchedCells(i) = [c \in DOMAIN TouchedCells(i) |-> TouchedCells(i)[c]]
      /\ \A c \in DOMAIN TouchedCells(i) : TouchedCells(i)[c] \in Value /\ ValueLive(TouchedCells(i)[c])
  BY <1>1, TouchedValues DEF Inv, Live
<1>3. PICK t : t = TouchedCells(i)
  OBVIOUS
<1>4. PICK c0 : c0 = CellOf(i)
  OBVIOUS
<1>5. cells' = [t EXCEPT ![c0] = v]
  BY <1>3, <1>4
<1>6. DOMAIN cells' = DOMAIN t /\ cells' = [c \in DOMAIN cells' |-> cells'[c]]
      /\ \A c \in DOMAIN cells' : cells'[c] = t[c] \/ cells'[c] = v
  BY <1>5
<1> QED
  BY <1>2, <1>3, <1>6

LEMMA TouchedLive ==
  ASSUME Inv, NEW i \in Identifier, i \in DOMAIN protected, Touch(i)
  PROVE  /\ TouchedCells(i) = [c \in DOMAIN TouchedCells(i) |-> TouchedCells(i)[c]]
         /\ \A c \in DOMAIN TouchedCells(i) : TouchedCells(i)[c] \in Value /\ ValueLive(TouchedCells(i)[c])
         /\ CellOf(i) \in DOMAIN TouchedCells(i)
<1>1. next.cell \in Cell \/ i \in DOMAIN active
  BY TouchRoom DEF Inv
<1>2. active \in Environment /\ BindingsLive
  BY DEF Inv, TypeOK, Live
<1> QED
  BY <1>1, <1>2, TouchedValues DEF Inv, Live

LEMMA LastLive ==
  ASSUME Inv, stack # <<>>
  PROVE  /\ Last \in Value /\ ValueLive(Last)
         /\ Popped \in Seq(Value) /\ \A k \in DOMAIN Popped : ValueLive(Popped[k])
<1>1. stack \in Seq(Value)
  BY StackLive
<1>2. Len(stack) \in 1 .. Len(stack) /\ Len(stack) - 1 \in 0 .. Len(stack)
  BY <1>1
<1> QED
  BY <1>2, StackLive DEF Last, Popped

LEMMA LoadInv ==
  ASSUME Inv, NEW n \in Names, Load(n)
  PROVE  Inv'
<1>1. PICK i : i = Top.program.syms[n]
  OBVIOUS
<1>2. /\ Touch(i) /\ cells' = TouchedCells(i) /\ stack' = Append(stack, TouchedCells(i)[CellOf(i)])
      /\ UNCHANGED <<record, protected, closures, frames, faults>> /\ InProgram
  BY <1>1 DEF Load, Push
<1>3. i \in Identifier /\ i \in DOMAIN protected
  BY <1>1, <1>2, SymbolLive
<1>4. /\ cells' = [c \in DOMAIN cells' |-> cells'[c]]
      /\ \A c \in DOMAIN cells' : cells'[c] \in Value /\ ValueLive(cells'[c])
      /\ CellOf(i) \in DOMAIN cells'
  BY <1>2, <1>3, TouchedLive
<1>5. stack' \in Seq(Value) /\ \A k \in DOMAIN stack' : ValueLive(stack'[k])
  <2>1. PICK v : v = TouchedCells(i)[CellOf(i)]
    OBVIOUS
  <2>2. v \in Value /\ ValueLive(v)
    BY <2>1, <1>2, <1>4
  <2>3. stack \in Seq(Value) /\ \A k \in DOMAIN stack : ValueLive(stack[k])
    BY DEF Inv, TypeOK, Live, ValuesLive
  <2> QED BY <2>1, <2>2, <2>3, <1>2, AppendLive
<1> QED
  BY <1>2, <1>3, <1>4, <1>5, TouchInv

LEMMA DeclareInv ==
  ASSUME Inv, NEW n \in Names, Declare(n)
  PROVE  Inv'
<1>1. PICK i : i = Top.program.syms[n]
  OBVIOUS
<1>2. /\ Touch(i) /\ cells' = TouchedCells(i) /\ stack' = stack
      /\ UNCHANGED <<record, protected, closures, frames, faults>> /\ InProgram
  BY <1>1 DEF Declare
<1>3. i \in Identifier /\ i \in DOMAIN protected
  BY <1>1, <1>2, SymbolLive
<1>4. /\ cells' = [c \in DOMAIN cells' |-> cells'[c]]
      /\ \A c \in DOMAIN cells' : cells'[c] \in Value /\ ValueLive(cells'[c])
  BY <1>2, <1>3, TouchedLive
<1>5. stack' \in Seq(Value) /\ \A k \in DOMAIN stack' : ValueLive(stack'[k])
  BY <1>2 DEF Inv, TypeOK, Live, ValuesLive
<1> QED
  BY <1>2, <1>3, <1>4, <1>5, TouchInv

LEMMA StoreInv ==
  ASSUME Inv, NEW n \in Names, Store(n)
  PROVE  Inv'
<1>1. PICK i : i = Top.program.syms[n]
  OBVIOUS
<1>2. /\ Touch(i) /\ cells' = [TouchedCells(i) EXCEPT ![CellOf(i)] = Last] /\ stack' = Popped
      /\ UNCHANGED <<record, protected, closures, frames, faults>> /\ InProgram /\ stack # <<>>
  BY <1>1 DEF Store, Assign
<1>3. i \in Identifier /\ i \in DOMAIN protected
  BY <1>1, <1>2, SymbolLive
<1>4. /\ Last \in Value /\ ValueLive(Last)
      /\ stack' \in Seq(Value) /\ \A k \in DOMAIN stack' : ValueLive(stack'[k])
  BY <1>2, LastLive
<1>5. /\ cells' = [c \in DOMAIN cells' |-> cells'[c]] /\ DOMAIN cells' = DOMAIN TouchedCells(i)
      /\ \A c \in DOMAIN cells' : cells'[c] \in Value /\ ValueLive(cells'[c])
  BY <1>2, <1>3, <1>4, WrittenLive
<1> QED
  BY <1>2, <1>3, <1>4, <1>5, TouchInv

LEMMA LoopInv ==
  ASSUME Inv, NEW n \in Names, Loop(n)
  PROVE  Inv'
<1>1. PICK i : i = Top.program.syms[n]
  OBVIOUS
<1>2. /\ Touch(i) /\ cells' = [TouchedCells(i) EXCEPT ![CellOf(i)] = Number] /\ stack' = Popped
      /\ UNCHANGED <<record, protected, closures, frames, faults>> /\ InProgram /\ stack # <<>>
  BY <1>1 DEF Loop
<1>3. i \in Identifier /\ i \in DOMAIN protected
  BY <1>1, <1>2, SymbolLive
<1>4. Number \in Value /\ ValueLive(Number)
  BY AtomsLive DEF Atoms, Value
<1>5. stack' \in Seq(Value) /\ \A k \in DOMAIN stack' : ValueLive(stack'[k])
  BY <1>2, LastLive
<1>6. /\ cells' = [c \in DOMAIN cells' |-> cells'[c]] /\ DOMAIN cells' = DOMAIN TouchedCells(i)
      /\ \A c \in DOMAIN cells' : cells'[c] \in Value /\ ValueLive(cells'[c])
  BY <1>2, <1>3, <1>4, WrittenLive
<1> QED
  BY <1>2, <1>3, <1>5, <1>6, TouchInv

LEMMA RefOfInv ==
  ASSUME Inv, NEW n \in Names, RefOf(n)
  PROVE  Inv'
<1>1. PICK i : i = record[n]
  OBVIOUS
<1>2. /\ Touch(i) /\ cells' = TouchedCells(i) /\ stack' = Append(stack, <<"reference", i>>) /\ i # 0
      /\ UNCHANGED <<record, protected, closures, frames, faults>>
  BY <1>1 DEF RefOf, Push
<1>3. i \in Identifier /\ i \in DOMAIN protected
  <2>1. record \in [Names -> 0 .. MaxIdent]
    BY DEF Inv, TypeOK
  <2>2. i \in Identifier
    BY <2>1, <1>1, <1>2 DEF Identifier
  <2>3. i \in DOMAIN protected
    BY <1>1, <1>2 DEF Inv, Live, NamesLive
  <2> QED BY <2>2, <2>3
<1>4. /\ cells' = [c \in DOMAIN cells' |-> cells'[c]]
      /\ \A c \in DOMAIN cells' : cells'[c] \in Value /\ ValueLive(cells'[c])
  BY <1>2, <1>3, TouchedLive
<1>5. stack' \in Seq(Value) /\ \A k \in DOMAIN stack' : ValueLive(stack'[k])
  <2>1. PICK v : v = <<"reference", i>>
    OBVIOUS
  <2>2. v \in Value /\ ValueLive(v)
    BY <2>1, <1>3 DEF Value, ValueLive, Identifier
  <2>3. stack \in Seq(Value) /\ \A k \in DOMAIN stack : ValueLive(stack[k])
    BY DEF Inv, TypeOK, Live, ValuesLive
  <2> QED BY <2>1, <2>2, <2>3, <1>2, AppendLive
<1> QED
  BY <1>2, <1>3, <1>4, <1>5, TouchInv

\* A reference on the stack follows an identifier with a record.
LEMMA ReferenceLive ==
  ASSUME Inv, stack # <<>>, Last[1] = "reference"
  PROVE  Last[2] \in Identifier /\ Last[2] \in DOMAIN protected
<1>1. ValueLive(Last)
  BY LastLive
<1>2. Last[2] \in DOMAIN protected
  BY <1>1 DEF ValueLive
<1> QED
  BY <1>2, ProtectedTyped DEF Inv

LEMMA ReadReferenceInv ==
  ASSUME Inv, ReadReference
  PROVE  Inv'
<1>1. PICK i : i = Last[2]
  OBVIOUS
<1>2. /\ Touch(i) /\ cells' = TouchedCells(i) /\ stack' = Append(Popped, TouchedCells(i)[CellOf(i)])
      /\ UNCHANGED <<record, protected, closures, frames, faults>> /\ stack # <<>>
  BY <1>1 DEF ReadReference
<1>3. i \in Identifier /\ i \in DOMAIN protected
  BY <1>1, ReferenceLive DEF ReadReference
<1>4. /\ cells' = [c \in DOMAIN cells' |-> cells'[c]]
      /\ \A c \in DOMAIN cells' : cells'[c] \in Value /\ ValueLive(cells'[c])
      /\ CellOf(i) \in DOMAIN cells'
  BY <1>2, <1>3, TouchedLive
<1>5. stack' \in Seq(Value) /\ \A k \in DOMAIN stack' : ValueLive(stack'[k])
  <2>1. PICK v : v = TouchedCells(i)[CellOf(i)]
    OBVIOUS
  <2>2. v \in Value /\ ValueLive(v)
    BY <2>1, <1>2, <1>4
  <2>3. Popped \in Seq(Value) /\ \A k \in DOMAIN Popped : ValueLive(Popped[k])
    BY <1>2, LastLive
  <2> QED BY <2>1, <2>2, <2>3, <1>2, AppendLive
<1> QED
  BY <1>2, <1>3, <1>4, <1>5, TouchInv

LEMMA WriteReferenceInv ==
  ASSUME Inv, WriteReference
  PROVE  Inv'
<1>1. PICK i : i = Last[2]
  OBVIOUS
<1>2. PICK v : v = stack[Len(stack) - 1]
  OBVIOUS
<1>3. /\ Touch(i) /\ cells' = [TouchedCells(i) EXCEPT ![CellOf(i)] = v]
      /\ stack' = SubSeq(stack, 1, Len(stack) - 2) /\ Len(stack) >= 2
      /\ UNCHANGED <<record, protected, closures, frames, faults>>
  BY <1>1, <1>2 DEF WriteReference, Assign
<1>4. stack \in Seq(Value) /\ stack # <<>> /\ Len(stack) - 1 \in 1 .. Len(stack) /\ Len(stack) - 2 \in 0 .. Len(stack)
  BY <1>3, StackLive
<1>5. i \in Identifier /\ i \in DOMAIN protected
  BY <1>1, <1>4, ReferenceLive DEF WriteReference
<1>6. /\ v \in Value /\ ValueLive(v)
      /\ stack' \in Seq(Value) /\ \A k \in DOMAIN stack' : ValueLive(stack'[k])
  BY <1>2, <1>3, <1>4, StackLive
<1>7. /\ cells' = [c \in DOMAIN cells' |-> cells'[c]] /\ DOMAIN cells' = DOMAIN TouchedCells(i)
      /\ \A c \in DOMAIN cells' : cells'[c] \in Value /\ ValueLive(cells'[c])
  BY <1>3, <1>5, <1>6, WrittenLive
<1> QED
  BY <1>3, <1>5, <1>6, <1>7, TouchInv

---------------------------------------------------------------------------
(* Steps that give no cell *)

LEMMA LiteralInv ==
  ASSUME Inv, Literal
  PROVE  Inv'
<1>1. /\ stack' = Append(stack, Number)
      /\ UNCHANGED <<record, protected, active, cells, closures, frames, next, faults, entered>>
  BY DEF Literal, Push
<1>2. stack' \in Seq(Value) /\ \A k \in DOMAIN stack' : ValueLive(stack'[k])
  <2>1. Number \in Value /\ ValueLive(Number)
    BY AtomsLive DEF Atoms, Value
  <2>2. stack \in Seq(Value) /\ \A k \in DOMAIN stack : ValueLive(stack[k])
    BY DEF Inv, TypeOK, Live, ValuesLive
  <2> QED BY <2>1, <2>2, <1>1, AppendLive
<1>3. TypeOK'
  BY <1>1, <1>2 DEF Inv, TypeOK
<1>4. Live'
  <2>1. NamesLive' /\ ProgramsLive' /\ BindingsLive'
    BY <1>1 DEF Inv, Live, NamesLive, ProgramsLive, BindingsLive, Binds
  <2>2. \A v : ValueLive(v)' <=> ValueLive(v)
    BY <1>1 DEF ValueLive
  <2>3. ValuesLive'
    BY <1>1, <1>2 DEF Inv, Live, ValuesLive, ValueLive
  <2> QED BY <2>1, <2>3 DEF Live
<1>5. RestoresCaller' /\ ShadowedBound' /\ ResultsBound'
  BY <1>1 DEF Inv, RestoresCaller, ShadowedBound, ResultsBound
<1>6. HandedOut' /\ OneOwner'
  BY <1>1 DEF Inv, HandedOut, OneOwner, Claims, Binds, Protects
<1> QED
  BY <1>3, <1>4, <1>5, <1>6 DEF Inv

LEMMA CancelInv ==
  ASSUME Inv, NEW n \in Names, Cancel(n)
  PROVE  Inv'
<1>1. /\ record' = [record EXCEPT ![n] = 0]
      /\ UNCHANGED <<protected, active, cells, closures, frames, stack, next, faults, entered>>
  BY DEF Cancel
<1>2. record' \in [Names -> 0 .. MaxIdent] /\ \A m \in Names : record'[m] # 0 => record'[m] = record[m]
  BY <1>1, BoundsAssumption DEF Inv, TypeOK
<1>3. TypeOK'
  BY <1>1, <1>2 DEF Inv, TypeOK
<1>4. Live'
  <2>1. ProgramsLive' /\ BindingsLive' /\ ValuesLive'
    BY <1>1 DEF Inv, Live, ProgramsLive, BindingsLive, Binds, ValuesLive, ValueLive
  <2>2. NamesLive'
    BY <1>1, <1>2 DEF Inv, Live, NamesLive
  <2> QED BY <2>1, <2>2 DEF Live
<1>5. RestoresCaller' /\ ShadowedBound' /\ ResultsBound'
  BY <1>1 DEF Inv, RestoresCaller, ShadowedBound, ResultsBound
<1>6. HandedOut' /\ OneOwner'
  BY <1>1 DEF Inv, HandedOut, OneOwner, Claims, Binds, Protects
<1> QED
  BY <1>3, <1>4, <1>5, <1>6 DEF Inv

\* A closure made of the running program captures what its frame captured.
LEMMA MakeClosureInv ==
  ASSUME Inv, NEW sig \in Signatures, MakeClosure(sig)
  PROVE  Inv'
<1> DEFINE f == [program |-> Nested(Top.program, sig), env |-> Top.env]
<1>1. /\ stack' = Append(stack, <<"function", next.fn>>) /\ next.fn <= MaxFn
      /\ closures' = Over(closures, [h \in {next.fn} |-> f]) /\ next' = [next EXCEPT !.fn = @ + 1]
      /\ UNCHANGED <<record, protected, active, cells, frames, faults, entered>> /\ InProgram
  BY DEF MakeClosure, Push
<1>2. /\ Top \in Frame /\ Len(frames) \in DOMAIN frames /\ Top = frames[Len(frames)]
      /\ Top.program \in Program /\ Top.env \in Environment
  BY <1>1, TopTyped, FrameTyped DEF Inv
<1>3. f \in Closure /\ f.program.syms = Top.program.syms /\ f.env = Top.env
  <2>1. /\ Top.program.sig \in Signatures \cup {NoSignature} /\ Top.program.syms \in [Names -> Identifier]
        /\ Top.program.free \in SUBSET Names /\ Top.program.scope \in SUBSET Names
    BY <1>2, ProgramTyped
  <2>2. Bound(OwnNames(sig)) \in SUBSET Names
    <3>1. sig.args \in Seq(Names) /\ sig.locals \in Seq(Names) /\ sig.results \in Seq(Names)
      BY SignatureTyped
    <3>2. PICK a \in Seq(Names) : a = [k \in 1 .. Len(sig.args) |-> sig.args[Len(sig.args) + 1 - k]]
      BY <3>1, ReversedTyped
    <3>3. PICK b \in Seq(Names) : b = OwnNames(sig)
      <4>1. (sig.locals \o sig.results) \o a \in Seq(Names)
        BY <3>1, <3>2
      <4> QED BY <4>1, <3>2 DEF OwnNames
    <3>4. \A k \in DOMAIN b : b[k] \in Names
      OBVIOUS
    <3> QED BY <3>3, <3>4 DEF Bound
  <2>3. Top.program.scope \cup Bound(OwnNames(sig)) \in SUBSET Names
    BY <2>1, <2>2
  <2>4. PICK p : p = Nested(Top.program, sig)
    OBVIOUS
  <2>5. p = [Top.program EXCEPT !.sig = sig, !.function = TRUE,
                                !.scope = Top.program.scope \cup Bound(OwnNames(sig))]
    BY <2>4 DEF Nested
  <2>6. p \in Program /\ p.syms = Top.program.syms
    BY <1>2, <2>3, <2>5 DEF Program
  <2> QED BY <2>4, <2>6, <1>2 DEF Closure
<1> HIDE DEF f
<1>4. /\ next.fn \in 1 .. MaxFn /\ MaxFn \in Nat /\ closures \in [DOMAIN closures -> Closure]
      /\ DOMAIN closures \subseteq 1 .. MaxFn
  <2>1. next.fn \in 1 .. MaxFn + 1 /\ MaxFn \in Nat
    BY Counters DEF Inv
  <2>2. next.fn \in 1 .. MaxFn
    BY <2>1, <1>1
  <2> QED BY <2>1, <2>2 DEF Inv, TypeOK
<1>5. /\ DOMAIN closures' = DOMAIN closures \cup {next.fn}
      /\ closures' \in [DOMAIN closures' -> Closure] /\ DOMAIN closures' \subseteq 1 .. MaxFn
      /\ \A h \in DOMAIN closures' : \/ h \in DOMAIN closures /\ closures'[h] = closures[h]
                                     \/ closures'[h] = f
  <2>1. PICK c : c = closures' /\ c = [h \in DOMAIN closures \cup {next.fn} |->
                          IF h \in DOMAIN closures THEN closures[h] ELSE f]
    BY <1>1 DEF Over
  <2>2. /\ DOMAIN c = DOMAIN closures \cup {next.fn}
        /\ c \in [DOMAIN c -> Closure] /\ DOMAIN c \subseteq 1 .. MaxFn
        /\ \A h \in DOMAIN c : \/ h \in DOMAIN closures /\ c[h] = closures[h]
                               \/ c[h] = f
    BY <2>1, <1>3, <1>4
  <2> QED BY <2>1, <2>2
<1>6. /\ next' \in [ident : 1 .. (MaxIdent + 1), cell : 1 .. (MaxCell + 1), fn : 1 .. (MaxFn + 1)]
      /\ next'.cell = next.cell
  <2>1. next \in [ident : 1 .. (MaxIdent + 1), cell : 1 .. (MaxCell + 1), fn : 1 .. (MaxFn + 1)]
    BY DEF Inv, TypeOK
  <2> QED BY <2>1, <1>1, <1>4
<1>7. stack' \in Seq(Value) /\ \A k \in DOMAIN stack' : stack'[k] = <<"function", next.fn>> \/ ValueLive(stack'[k])
  <2>1. PICK v : v = <<"function", next.fn>>
    OBVIOUS
  <2>2. v \in Value
    BY <2>1, <1>4 DEF Value
  <2>3. stack \in Seq(Value) /\ \A k \in 1 .. Len(stack) : ValueLive(stack[k])
    BY StackLive
  <2>4. stack' \in Seq(Value) /\ DOMAIN stack' = 1 .. Len(stack) + 1 /\ stack'[Len(stack) + 1] = v
        /\ \A k \in 1 .. Len(stack) : stack'[k] = stack[k]
    BY <2>1, <2>2, <2>3, <1>1
  <2>5. \A k \in 1 .. Len(stack) + 1 : k \in 1 .. Len(stack) \/ k = Len(stack) + 1
    BY <2>3
  <2> QED BY <2>1, <2>3, <2>4, <2>5
<1>8. TypeOK'
  BY <1>1, <1>5, <1>6, <1>7 DEF Inv, TypeOK
<1>9. ASSUME NEW i \in Identifier, NEW c \in Cell, Binds(i, c)' PROVE Binds(i, c)
  <2>1. CASE \E h \in DOMAIN closures' : i \in DOMAIN closures'[h].env /\ closures'[h].env[i] = c
    <3>1. PICK h \in DOMAIN closures' : i \in DOMAIN closures'[h].env /\ closures'[h].env[i] = c
      BY <2>1
    <3>2. CASE h \in DOMAIN closures /\ closures'[h] = closures[h]
      BY <3>1, <3>2, Zenon DEF Binds
    <3>3. CASE closures'[h] = f
      <4>1. FrameBinds(frames[Len(frames)], i, c)
        BY <3>1, <3>3, <1>2, <1>3 DEF FrameBinds
      <4> QED BY <4>1, <1>2, Zenon DEF Binds
    <3> QED BY <3>2, <3>3, <1>5
  <2>2. CASE ~\E h \in DOMAIN closures' : i \in DOMAIN closures'[h].env /\ closures'[h].env[i] = c
    BY <2>2, <1>9, <1>1 DEF Binds
  <2> QED BY <2>1, <2>2
<1>10. HandedOut' /\ OneOwner'
  BY <1>1, <1>6, <1>9 DEF Inv, HandedOut, OneOwner, Claims, Protects
<1>11. Live'
  <2>1. NamesLive' /\ BindingsLive'
    BY <1>1, <1>9 DEF Inv, Live, NamesLive, BindingsLive
  <2>2. ProgramsLive'
    <3>1. \A n \in Names : f.program.syms[n] \in DOMAIN protected
      BY <1>2, <1>3 DEF Inv, Live, ProgramsLive
    <3> QED BY <3>1, <1>1, <1>5 DEF Inv, Live, ProgramsLive
  <2>3. ValuesLive'
    <3>1. <<"function", next.fn>>[1] = "function" /\ <<"function", next.fn>>[2] = next.fn /\ "function" # "reference"
      OBVIOUS
    <3>2. \A v : ValueLive(v) => (v[1] = "function" => v[2] \in DOMAIN closures') /\ (v[1] = "reference" => v[2] \in DOMAIN protected')
      BY <1>1, <1>5 DEF ValueLive
    <3>3. next.fn \in DOMAIN closures'
      BY <1>5
    <3>4. ASSUME NEW k \in DOMAIN stack'
          PROVE  /\ stack'[k][1] = "function" => stack'[k][2] \in DOMAIN closures'
                 /\ stack'[k][1] = "reference" => stack'[k][2] \in DOMAIN protected'
      <4>1. CASE stack'[k] = <<"function", next.fn>>
        BY <4>1, <3>1, <3>3
      <4>2. CASE ValueLive(stack'[k])
        BY <4>2, <3>2
      <4> QED BY <4>1, <4>2, <1>7
    <3>5. ASSUME NEW c \in DOMAIN cells'
          PROVE  /\ cells'[c][1] = "function" => cells'[c][2] \in DOMAIN closures'
                 /\ cells'[c][1] = "reference" => cells'[c][2] \in DOMAIN protected'
      <4>1. ValueLive(cells'[c])
        BY <1>1 DEF Inv, Live, ValuesLive
      <4> QED BY <4>1, <3>2
    <3> QED BY <3>4, <3>5 DEF ValuesLive, ValueLive
  <2> QED BY <2>1, <2>2, <2>3 DEF Live
<1>12. RestoresCaller' /\ ShadowedBound' /\ ResultsBound'
  BY <1>1 DEF Inv, RestoresCaller, ShadowedBound, ResultsBound
<1> QED
  BY <1>8, <1>10, <1>11, <1>12 DEF Inv

\* A finite set can be numbered from any natural on.
LEMMA Numbered ==
  ASSUME NEW S, IsFiniteSet(S), NEW a \in Nat
  PROVE  /\ Cardinality(S) \in Nat
         /\ \E num \in [S -> a .. (a + Cardinality(S) - 1)] : \A m, n \in S : num[m] = num[n] => m = n
<1>1. PICK n : n = Cardinality(S)
  OBVIOUS
<1>2. n \in Nat
  BY <1>1, FS_CardinalityType
<1>3. PICK T : T = a .. (a + n - 1)
  OBVIOUS
<1>4. IsFiniteSet(T) /\ Cardinality(T) = n
  <2>1. a \in Int /\ a + n - 1 \in Int /\ (IF a > a + n - 1 THEN 0 ELSE (a + n - 1) - a + 1) = n
    BY <1>2
  <2>2. IsFiniteSet(a .. (a + n - 1)) /\ Cardinality(a .. (a + n - 1)) = IF a > a + n - 1 THEN 0 ELSE (a + n - 1) - a + 1
    BY <2>1, FS_Interval
  <2> QED BY <2>1, <2>2, <1>3
<1>5. ExistsBijection(S, T)
  BY <1>1, <1>4, FS_SameCardinalityBij
<1>6. PICK num : num \in Bijection(S, T)
  BY <1>5, Zenon DEF ExistsBijection
<1>7. num \in [S -> T] /\ \A m, k \in DOMAIN num : num[m] = num[k] => m = k
  BY <1>6 DEF Bijection, Injection, IsInjective
<1>8. \A m, k \in S : num[m] = num[k] => m = k
  BY <1>7
<1> QED
  BY <1>1, <1>2, <1>3, <1>7, <1>8

LEMMA StatementInv ==
  ASSUME Inv, Statement
  PROVE  Inv'
<1> DEFINE saved == [captured |-> <<>>, own |-> <<>>]
           num == CHOOSE f \in NewRecords : TRUE
           f == [program |-> Compiled(Resolved(num)), function |-> 0, env |-> <<>>, saved |-> saved]
<1>1. /\ Len(frames) < MaxFrames /\ next.ident + Cardinality(Missing) - 1 <= MaxIdent
      /\ record' = Resolved(num)
      /\ protected' = Over(protected, [i \in {num[n] : n \in Missing} |-> 0])
      /\ frames' = Append(frames, f)
      /\ next' = [next EXCEPT !.ident = @ + Cardinality(Missing)]
      /\ entered' = Append(entered, active)
      /\ UNCHANGED <<active, cells, closures, stack, faults>>
  BY DEF Statement
<1>2. /\ Missing \in SUBSET Names /\ Cardinality(Missing) \in Nat
      /\ num \in [Missing -> next.ident .. (next.ident + Cardinality(Missing) - 1)]
  <2>1. Missing \in SUBSET Names /\ IsFiniteSet(Missing)
    <3>1. Missing \in SUBSET Names
      BY DEF Missing
    <3> QED BY <3>1, NamesAssumption, FS_Subset
  <2>2. next.ident \in Nat
    BY Counters DEF Inv
  <2>3. /\ Cardinality(Missing) \in Nat
        /\ \E g \in [Missing -> next.ident .. (next.ident + Cardinality(Missing) - 1)] :
              \A m, n \in Missing : g[m] = g[n] => m = n
    BY <2>1, <2>2, Numbered
  <2>4. \E g : g \in NewRecords
    BY <2>3, Zenon DEF NewRecords
  <2>5. num \in NewRecords
    BY <2>4, Zenon
  <2> QED BY <2>1, <2>3, <2>5 DEF NewRecords
<1> HIDE DEF num
<1>3. \A n \in Missing : num[n] \in Identifier
  <2>1. next.ident \in 1 .. MaxIdent + 1 /\ MaxIdent \in Nat
    BY Counters DEF Inv
  <2> QED BY <2>1, <1>1, <1>2 DEF Identifier
<1>4. /\ record' \in [Names -> Identifier]
      /\ \A n \in Names : (n \in Missing /\ record'[n] = num[n]) \/ (n \notin Missing /\ record'[n] = record[n])
  <2>1. PICK r : r = record' /\ r = [x \in Missing \cup Names |-> IF x \in Missing THEN num[x] ELSE record[x]]
    <3>1. DOMAIN num = Missing /\ DOMAIN record = Names
      BY <1>2 DEF Inv, TypeOK
    <3> QED BY <3>1, <1>1 DEF Resolved, Over
  <2>2. ASSUME NEW n \in Names \ Missing PROVE record[n] \in Identifier
    BY <2>2 DEF Inv, TypeOK, Missing, Identifier
  <2> QED BY <2>1, <2>2, <1>2, <1>3
<1>5. /\ protected' \in Maps(Identifier, 0 .. MaxCell)
      /\ DOMAIN protected' = DOMAIN protected \cup {num[n] : n \in Missing}
      /\ \A i \in DOMAIN protected' : \/ i \in DOMAIN protected /\ protected'[i] = protected[i]
                                      \/ protected'[i] = 0
  <2>1. PICK g : g = [i \in {num[n] : n \in Missing} |-> 0]
    OBVIOUS
  <2>2. g \in Maps(Identifier, 0 .. MaxCell)
    <3>1. g = [x \in DOMAIN g |-> g[x]] /\ DOMAIN g \subseteq Identifier /\ \A x \in DOMAIN g : g[x] \in 0 .. MaxCell
      BY <2>1, <1>3, BoundsAssumption
    <3> QED BY <3>1 DEF Maps
  <2>3. protected \in Maps(Identifier, 0 .. MaxCell)
    BY DEF Inv, TypeOK
  <2>4. protected' \in Maps(Identifier, 0 .. MaxCell)
    BY <2>1, <2>2, <2>3, <1>1, OverMaps
  <2>5. PICK p : p = protected' /\ p = [x \in DOMAIN protected \cup {num[n] : n \in Missing} |->
                                          IF x \in DOMAIN protected THEN protected[x] ELSE 0]
    BY <1>1 DEF Over
  <2> QED BY <2>4, <2>5
<1>6. \A n \in Names : record'[n] \in Identifier /\ record'[n] \in DOMAIN protected'
  <2>1. ASSUME NEW n \in Names PROVE record'[n] \in DOMAIN protected'
    <3>1. CASE n \in Missing /\ record'[n] = num[n]
      BY <3>1, <1>5
    <3>2. CASE n \notin Missing /\ record'[n] = record[n]
      <4>1. record[n] # 0
        BY <3>2 DEF Missing
      <4> QED BY <4>1, <3>2, <1>5 DEF Inv, Live, NamesLive
    <3> QED BY <3>1, <3>2, <1>4
  <2> QED BY <2>1, <1>4
<1>7. /\ f \in Frame /\ f.program.syms = record' /\ f.program.sig = NoSignature /\ f.function = 0
      /\ f.env = <<>> /\ f.saved = saved /\ f.program.sig.results = <<>>
  <2>1. <<>> \in Environment
    <3>1. PICK e : e = <<>>
      OBVIOUS
    <3>2. e = [x \in DOMAIN e |-> e[x]] /\ DOMAIN e = {}
      BY <3>1
    <3> QED BY <3>1, <3>2, EnvironmentIs
  <2>2. saved \in Saved
    BY <2>1 DEF Saved
  <2>3. PICK p : p = Compiled(Resolved(num))
    OBVIOUS
  <2>4. p \in Program /\ p.syms = record' /\ p.sig = NoSignature
    <3>1. record' = Resolved(num)
      BY <1>1
    <3>2. \E F \in SUBSET Names : p = [sig |-> NoSignature, syms |-> record', scope |-> {}, function |-> FALSE, free |-> F]
      BY <2>3, <3>1 DEF Compiled
    <3> QED BY <3>2, <1>4 DEF Program
  <2> HIDE DEF saved
  <2>5. 0 \in 0 .. MaxFn
    BY BoundsAssumption
  <2>6. f \in Frame /\ f.program = p /\ f.function = 0 /\ f.env = <<>> /\ f.saved = saved
    BY <2>1, <2>2, <2>3, <2>4, <2>5 DEF Frame
  <2> QED BY <2>4, <2>6 DEF NoSignature
<1>8. Shadowed(f.saved) = {} /\ f.saved.captured = <<>> /\ f.saved.own = <<>>
  BY <1>7 DEF Shadowed
<1> HIDE DEF f, saved
<1>9. /\ frames \in Seq(Frame) /\ Len(frames) \in Nat
      /\ frames' \in Seq(Frame) /\ Len(frames') = Len(frames) + 1 /\ frames'[Len(frames) + 1] = f
      /\ \A k \in 1 .. Len(frames) : frames'[k] = frames[k]
      /\ entered \in Seq(Environment) /\ Len(entered) = Len(frames)
      /\ entered' \in Seq(Environment) /\ Len(entered') = Len(frames) + 1 /\ entered'[Len(frames) + 1] = active
      /\ \A k \in 1 .. Len(frames) : entered'[k] = entered[k]
  BY <1>1, <1>7 DEF Inv, TypeOK
<1>10. \A k \in DOMAIN frames' : (k \in DOMAIN frames /\ k \in 1 .. Len(frames)) \/ k = Len(frames) + 1
  BY <1>9
<1>11. /\ next' \in [ident : 1 .. (MaxIdent + 1), cell : 1 .. (MaxCell + 1), fn : 1 .. (MaxFn + 1)]
       /\ next'.cell = next.cell
  <2>1. next \in [ident : 1 .. (MaxIdent + 1), cell : 1 .. (MaxCell + 1), fn : 1 .. (MaxFn + 1)] /\ MaxIdent \in Nat
    BY BoundsAssumption DEF Inv, TypeOK
  <2>2. next' = [ident |-> next.ident + Cardinality(Missing), cell |-> next.cell, fn |-> next.fn]
    BY <2>1, <1>1
  <2>3. next.ident + Cardinality(Missing) \in 1 .. MaxIdent + 1
    BY <2>1, <1>1, <1>2
  <2> QED BY <2>1, <2>2, <2>3
<1>12. TypeOK'
  <2>1. record' \in [Names -> 0 .. MaxIdent]
    BY <1>4 DEF Identifier
  <2>2. Len(frames') <= MaxFrames
    BY <1>1, <1>9, BoundsAssumption
  <2>3. active' \in Environment /\ cells' \in [DOMAIN cells' -> Value] /\ DOMAIN cells' \subseteq Cell
        /\ closures' \in [DOMAIN closures' -> Closure] /\ DOMAIN closures' \subseteq 1 .. MaxFn
        /\ stack' \in Seq(Value) /\ faults' \in 0 .. MaxFaults
    BY <1>1 DEF Inv, TypeOK
  <2> QED BY <2>1, <2>2, <2>3, <1>5, <1>9, <1>11 DEF TypeOK
<1>13. ASSUME NEW i \in Identifier, NEW c \in Cell, Binds(i, c)' PROVE Binds(i, c)
  <2>1. CASE \E k \in DOMAIN frames' : FrameBinds(frames'[k], i, c)
    <3>1. PICK k \in DOMAIN frames' : FrameBinds(frames'[k], i, c)
      BY <2>1
    <3>2. CASE k \in DOMAIN frames
      <4>1. frames'[k] = frames[k]
        BY <3>2, <1>9
      <4> QED BY <3>1, <3>2, <4>1, Zenon DEF Binds
    <3>3. CASE k = Len(frames) + 1
      <4>1. FrameBinds(f, i, c)
        BY <3>1, <3>3, <1>9
      <4>2. DOMAIN f.env = {} /\ DOMAIN f.saved.captured = {} /\ DOMAIN f.saved.own = {}
        BY <1>7, <1>8
      <4> QED BY <4>1, <4>2 DEF FrameBinds
    <3> QED BY <3>1, <3>2, <3>3, <1>10
  <2>2. CASE ~\E k \in DOMAIN frames' : FrameBinds(frames'[k], i, c)
    BY <2>2, <1>13, <1>1 DEF Binds
  <2> QED BY <2>1, <2>2
<1>14. HandedOut' /\ OneOwner'
  <2>1. ASSUME NEW i \in Identifier, NEW c \in Cell, Claims(i, c)' PROVE Claims(i, c)
    <3>1. CASE Binds(i, c)'
      BY <3>1, <1>13 DEF Claims
    <3>2. CASE Protects(i, c)'
      <4>1. c # 0
        BY DEF Cell
      <4>2. i \in DOMAIN protected' /\ protected'[i] = c
        BY <3>2 DEF Protects
      <4> QED BY <4>1, <4>2, <1>5 DEF Protects, Claims
    <3> QED BY <2>1, <3>1, <3>2 DEF Claims
  <2> QED BY <2>1, <1>11 DEF Inv, HandedOut, OneOwner
<1>15. Live'
  <2>1. NamesLive'
    BY <1>6 DEF NamesLive
  <2>2. BindingsLive'
    BY <1>1, <1>5, <1>13 DEF Inv, Live, BindingsLive
  <2>3. ValuesLive'
    BY <1>1, <1>5 DEF Inv, Live, ValuesLive, ValueLive
  <2>4. ProgramsLive'
    <3>1. \A h \in DOMAIN closures : \A n \in Names : closures[h].program.syms[n] \in DOMAIN protected'
      BY <1>5 DEF Inv, Live, ProgramsLive
    <3>2. ASSUME NEW k \in DOMAIN frames'
          PROVE  /\ \A n \in Names : frames'[k].program.syms[n] \in DOMAIN protected'
                 /\ frames'[k].function # 0 => frames'[k].function \in DOMAIN closures
      <4>1. CASE k \in DOMAIN frames /\ k \in 1 .. Len(frames)
        BY <4>1, <1>5, <1>9 DEF Inv, Live, ProgramsLive
      <4>2. CASE k = Len(frames) + 1
        BY <4>2, <1>6, <1>7, <1>9
      <4> QED BY <4>1, <4>2, <1>10
    <3> QED BY <3>1, <3>2, <1>1 DEF ProgramsLive
  <2> QED BY <2>1, <2>2, <2>3, <2>4 DEF Live
<1>16. RestoresCaller'
  <2>1. ASSUME NEW k \in DOMAIN frames'
        PROVE Restore(frames'[k].saved, IF k = Len(frames') THEN active' ELSE entered'[k + 1]) = entered'[k]
    <3>1. CASE k \in DOMAIN frames /\ k \in 1 .. Len(frames)
      <4>1. (IF k = Len(frames') THEN active' ELSE entered'[k + 1]) = (IF k = Len(frames) THEN active ELSE entered[k + 1])
        <5>1. CASE k = Len(frames)
          BY <5>1, <1>1, <1>9
        <5>2. CASE k # Len(frames)
          <6>1. k + 1 \in 1 .. Len(frames) /\ k # Len(frames')
            BY <5>2, <3>1, <1>9
          <6> QED BY <6>1, <5>2, <1>9
        <5> QED BY <5>1, <5>2
      <4>2. Restore(frames[k].saved, IF k = Len(frames) THEN active ELSE entered[k + 1]) = entered[k]
        BY <3>1 DEF Inv, RestoresCaller
      <4> QED BY <4>1, <4>2, <3>1, <1>9
    <3>2. CASE k = Len(frames) + 1
      <4>1. frames'[k] = f /\ entered'[k] = active /\ k = Len(frames')
        BY <3>2, <1>9
      <4>2. PICK r : r = Restore(f.saved, active) /\ r = [i \in DOMAIN active \cup Shadowed(f.saved) |->
                                IF i \in Shadowed(f.saved) THEN Remains(f.saved, i) ELSE active[i]]
        BY RestoreIs, Zenon
      <4>3. active = [x \in DOMAIN active |-> active[x]]
        BY ActiveTyped DEF Inv
      <4>4. r = active
        BY <4>2, <4>3, <1>8
      <4> QED BY <4>1, <4>2, <4>4, <1>1
    <3> QED BY <3>1, <3>2, <1>10
  <2> QED BY <2>1 DEF RestoresCaller
<1>17. ShadowedBound' /\ ResultsBound'
  <2>1. ASSUME NEW k \in DOMAIN frames'
        PROVE  /\ \A i \in Identifier : Saves(frames'[k], i) => i \in DOMAIN active
               /\ \A r \in DOMAIN frames'[k].program.sig.results :
                    frames'[k].program.syms[frames'[k].program.sig.results[r]] \in DOMAIN active
    <3>1. CASE k \in DOMAIN frames /\ k \in 1 .. Len(frames)
      BY <3>1, <1>9 DEF Inv, ShadowedBound, ResultsBound
    <3>2. CASE k = Len(frames) + 1
      <4>1. \A i : ~Saves(f, i)
        BY <1>8, SavesIs
      <4>2. DOMAIN f.program.sig.results = {}
        BY <1>7
      <4> QED BY <4>1, <4>2, <3>2, <1>9
    <3> QED BY <3>1, <3>2, <1>10
  <2> QED BY <2>1, <1>1 DEF ShadowedBound, ResultsBound
<1> QED
  BY <1>12, <1>14, <1>15, <1>16, <1>17 DEF Inv

---------------------------------------------------------------------------
(* Leaving all frames *)

\* The bindings the k-th frame was entered with, and the present ones after the last frame.
View(k) == IF k = Len(frames) + 1 THEN active ELSE entered[k]

LEMMA ViewRestores ==
  ASSUME Inv, NEW k \in 1 .. Len(frames)
  PROVE  View(k) = Restore(frames[k].saved, View(k + 1))
<1>1. Len(frames) \in Nat /\ k \in DOMAIN frames
  BY FramesTyped DEF Inv
<1>2. Restore(frames[k].saved, IF k = Len(frames) THEN active ELSE entered[k + 1]) = entered[k]
  BY <1>1 DEF Inv, RestoresCaller
<1>3. View(k) = entered[k] /\ View(k + 1) = IF k = Len(frames) THEN active ELSE entered[k + 1]
  BY <1>1 DEF View
<1> QED
  BY <1>2, <1>3

\* All of them bind the same identifiers.
LEMMA ViewDomain ==
  ASSUME Inv, NEW k \in 1 .. Len(frames) + 1
  PROVE  DOMAIN View(k) = DOMAIN active
<1> DEFINE n == Len(frames)
           S == {m \in 1 .. n + 1 : DOMAIN View(m) # DOMAIN active}
<1>1. n \in Nat
  BY FramesTyped DEF Inv
<1> HIDE DEF n
<1> SUFFICES ASSUME S # {} PROVE FALSE
  BY <1>1 DEF n
<1>2. S \in SUBSET Nat /\ n + 1 \in Nat /\ \A x \in S : x <= n + 1
  BY <1>1
<1>3. PICK g \in S : \A y \in S : y <= g
  <2> HIDE DEF S
  <2>1. PICK m \in Nat : m = n + 1
    BY <1>2
  <2>2. S \in SUBSET Nat /\ S # {} /\ \A x \in S : x <= m
    BY <1>2, <2>1
  <2> QED BY <2>2, GreatestNatural
<1>4. g \in 1 .. n + 1 /\ DOMAIN View(g) # DOMAIN active
  BY <1>3
<1>5. DOMAIN View(n + 1) = DOMAIN active
  BY DEF View, n
<1>6. g \in 1 .. n /\ g + 1 \in 1 .. n + 1 /\ ~(g + 1 <= g)
  BY <1>1, <1>4, <1>5
<1>7. g + 1 \notin S
  <2> HIDE DEF S
  <2> QED BY <1>3, <1>6
<1>8. DOMAIN View(g + 1) = DOMAIN active
  BY <1>6, <1>7
<1>9. View(g) = Restore(frames[g].saved, View(g + 1))
  BY <1>6, ViewRestores DEF n
<1>10. Shadowed(frames[g].saved) \subseteq DOMAIN active
  <2>1. g \in DOMAIN frames /\ frames[g] \in Frame
    BY <1>6, FramesTyped DEF Inv, n
  <2>2. \A i \in Identifier : Saves(frames[g], i) => i \in DOMAIN active
    BY <2>1 DEF Inv, ShadowedBound
  <2> QED BY <2>1, <2>2, ShadowedTyped, SavesIs
<1>11. DOMAIN Restore(frames[g].saved, View(g + 1)) = DOMAIN View(g + 1) \cup Shadowed(frames[g].saved)
  BY RestoreParts
<1> QED
  BY <1>4, <1>8, <1>9, <1>10, <1>11

\* Until a frame shadows an identifier its binding is the one the outermost frame found.
LEMMA ViewUntilShadowed ==
  ASSUME Inv, NEW i \in DOMAIN active, NEW b \in 1 .. Len(frames) + 1,
         \A l \in 1 .. (b - 1) : ~Saves(frames[l], i)
  PROVE  View(b)[i] = View(1)[i]
<1> DEFINE n == Len(frames)
           S == {m \in 1 .. b : View(m)[i] # View(1)[i]}
<1>1. n \in Nat /\ b \in 1 .. n + 1
  BY FramesTyped DEF Inv
<1> HIDE DEF n
<1> SUFFICES ASSUME S # {} PROVE FALSE
  BY <1>1
<1>2. S \in SUBSET Nat
  BY <1>1
<1>3. PICK g \in S : \A y \in S : g <= y
  <2> HIDE DEF S
  <2> QED BY <1>2, LeastNatural
<1>4. g \in 1 .. b /\ View(g)[i] # View(1)[i]
  BY <1>3
<1>5. g - 1 \in 1 .. b /\ g - 1 \in 1 .. n /\ g - 1 \in 1 .. (b - 1) /\ (g - 1) + 1 = g /\ g \in 1 .. n + 1 /\ ~(g <= g - 1)
  BY <1>1, <1>4
<1>6. g - 1 \notin S
  <2> HIDE DEF S
  <2> QED BY <1>3, <1>5
<1>7. View(g - 1)[i] = View(1)[i]
  BY <1>5, <1>6
<1>8. View(g - 1) = Restore(frames[g - 1].saved, View(g))
  BY <1>5, ViewRestores DEF n
<1>9. i \notin Shadowed(frames[g - 1].saved) /\ i \in DOMAIN View(g)
  <2>1. ~Saves(frames[g - 1], i)
    BY <1>5
  <2>2. DOMAIN View(g) = DOMAIN active
    BY <1>5, ViewDomain DEF n
  <2> QED BY <2>1, <2>2, SavesIs
<1>10. Restore(frames[g - 1].saved, View(g))[i] = View(g)[i]
  <2> HIDE DEF S
  <2> QED BY <1>9, RestoreElse
<1> QED
  BY <1>4, <1>7, <1>8, <1>10

\* unwind(true) gives back what the outermost frame was entered with.
LEMMA RestoreAllIs ==
  ASSUME Inv, InProgram
  PROVE  /\ RestoreAll = entered[1] /\ RestoreAll \in Environment
         /\ \A i \in DOMAIN RestoreAll : Binds(i, RestoreAll[i])
<1>1. /\ Len(frames) \in Nat /\ Len(frames) > 0 /\ DOMAIN frames = 1 .. Len(frames)
      /\ \A k \in DOMAIN frames : frames[k] \in Frame
      /\ entered[1] \in Environment
  <2>1. Len(frames) \in DOMAIN frames /\ Len(frames) > 0
    BY TopTyped DEF Inv
  <2>2. Len(frames) \in Nat /\ DOMAIN frames = 1 .. Len(frames)
        /\ (\A k \in DOMAIN frames : frames[k] \in Frame) /\ \A k \in DOMAIN frames : entered[k] \in Environment
    BY FramesTyped DEF Inv
  <2>3. 1 \in DOMAIN frames
    BY <2>1, <2>2
  <2> QED BY <2>1, <2>2, <2>3
<1>2. View(1) = entered[1]
  BY <1>1 DEF View
<1>3. entered[1] = [x \in DOMAIN entered[1] |-> entered[1][x]] /\ DOMAIN entered[1] = DOMAIN active
  <2>1. entered[1] = [x \in DOMAIN entered[1] |-> entered[1][x]]
    BY <1>1, EnvironmentIs, Zenon
  <2>2. 1 \in 1 .. Len(frames) + 1
    BY <1>1
  <2>3. DOMAIN View(1) = DOMAIN active
    BY <2>2, ViewDomain
  <2> QED BY <2>1, <2>3, <1>2
<1>4. PICK r : r = RestoreAll
  OBVIOUS
<1>5. DOMAIN r = DOMAIN active /\ r = [x \in DOMAIN r |-> r[x]]
  BY <1>4 DEF RestoreAll
<1>6. ASSUME NEW i \in DOMAIN active PROVE r[i] = entered[1][i] /\ Binds(i, r[i])
  <2>1. CASE \A k \in DOMAIN frames : ~Saves(frames[k], i)
    <3>1. r[i] = active[i]
      BY <2>1, <1>4 DEF RestoreAll
    <3>2. View(Len(frames) + 1) = active
      BY DEF View
    <3>3. Len(frames) + 1 \in 1 .. Len(frames) + 1 /\ \A l \in 1 .. ((Len(frames) + 1) - 1) : ~Saves(frames[l], i)
      BY <2>1, <1>1
    <3>4. View(Len(frames) + 1)[i] = View(1)[i]
      BY <3>3, ViewUntilShadowed
    <3>5. Binds(i, active[i])
      BY DEF Binds
    <3> QED BY <3>1, <3>2, <3>4, <3>5, <1>2
  <2>2. CASE ~\A k \in DOMAIN frames : ~Saves(frames[k], i)
    <3> DEFINE S == {k \in DOMAIN frames : Saves(frames[k], i)}
    <3>1. S \in SUBSET Nat /\ S # {}
      BY <2>2, <1>1
    <3>2. PICK x \in S : \A y \in S : x <= y
      <4> HIDE DEF S
      <4> QED BY <3>1, LeastNatural
    <3>3. x \in DOMAIN frames /\ Saves(frames[x], i) /\ \A l \in 1 .. (x - 1) : ~Saves(frames[l], i)
      <4>1. x \in DOMAIN frames /\ Saves(frames[x], i)
        BY <3>2
      <4>2. ASSUME NEW l \in 1 .. (x - 1), Saves(frames[l], i) PROVE FALSE
        <5>1. l \in DOMAIN frames /\ ~(x <= l)
          BY <4>1, <1>1
        <5>2. l \in S
          BY <5>1, <4>2
        <5> HIDE DEF S
        <5> QED BY <5>1, <5>2, <3>2
      <4> QED BY <4>1, <4>2
    <3>4. PICK k : k = CHOOSE m \in DOMAIN frames :
                         Saves(frames[m], i) /\ \A l \in 1 .. (m - 1) : ~Saves(frames[l], i)
      OBVIOUS
    <3>5. k \in DOMAIN frames /\ Saves(frames[k], i) /\ \A l \in 1 .. (k - 1) : ~Saves(frames[l], i)
      BY <3>3, <3>4, Zenon
    <3>6. r[i] = Restore(frames[k].saved, active)[i]
      <4>1. r[i] = IF \A m \in DOMAIN frames : ~Saves(frames[m], i) THEN active[i]
                   ELSE LET m == CHOOSE m \in DOMAIN frames :
                                   Saves(frames[m], i) /\ \A l \in 1 .. (m - 1) : ~Saves(frames[l], i)
                        IN Restore(frames[m].saved, active)[i]
        BY <1>4, Zenon DEF RestoreAll
      <4> QED BY <4>1, <3>4, <2>2, Zenon
    <3>7. i \in Shadowed(frames[k].saved) /\ frames[k] \in Frame /\ k \in 1 .. Len(frames) /\ k \in 1 .. Len(frames) + 1
      BY <3>5, <1>1, SavesIs
    <3>8. r[i] = Remains(frames[k].saved, i)
      BY <3>6, <3>7, RestoreParts
    <3>9. View(k)[i] = Remains(frames[k].saved, i)
      <4>1. View(k) = Restore(frames[k].saved, View(k + 1))
        BY <3>7, ViewRestores
      <4> HIDE DEF S
      <4> QED BY <4>1, <3>7, RestoreShadowed
    <3>10. View(k)[i] = View(1)[i]
      BY <3>5, <3>7, ViewUntilShadowed
    <3>11. Binds(i, Remains(frames[k].saved, i))
      <4>1. frames[k].saved.own \in Seq(Identifier \X Cell)
        BY <3>7, FrameTyped
      <4>2. FrameBinds(frames[k], i, Remains(frames[k].saved, i))
        BY <4>1, <3>7, RemainsBound
      <4> QED BY <4>2, <3>5, Zenon DEF Binds
    <3> QED BY <3>8, <3>9, <3>10, <3>11, <1>2
  <2> QED BY <2>1, <2>2
<1>7. r = entered[1]
  BY <1>3, <1>5, <1>6
<1> QED
  BY <1>1, <1>4, <1>5, <1>6, <1>7

\* Leaving every frame with bindings that something remembered keeps the invariant.
LEMMA Emptied ==
  ASSUME Inv, frames' = <<>>, stack' = <<>>, entered' = <<>>, active' \in Environment,
         \A i \in DOMAIN active' : Binds(i, active'[i]), faults' \in 0 .. MaxFaults,
         UNCHANGED <<record, protected, cells, closures, next>>
  PROVE  Inv'
<1>1. /\ frames' \in Seq(Frame) /\ Len(frames') = 0 /\ DOMAIN frames' = {} /\ stack' \in Seq(Value)
      /\ DOMAIN stack' = {} /\ entered' \in Seq(Environment) /\ Len(entered') = 0
  OBVIOUS
<1>2. TypeOK'
  <2>1. 0 <= MaxFrames
    BY BoundsAssumption
  <2> QED BY <1>1, <2>1 DEF Inv, TypeOK
<1>3. ASSUME NEW i \in Identifier, NEW c \in Cell, Binds(i, c)' PROVE Binds(i, c)
  BY <1>1, <1>3 DEF Binds
<1>4. Live'
  <2>1. NamesLive' /\ ProgramsLive' /\ ValuesLive'
    BY <1>1 DEF Inv, Live, NamesLive, ProgramsLive, ValuesLive, ValueLive
  <2>2. BindingsLive'
    BY <1>3 DEF Inv, Live, BindingsLive
  <2> QED BY <2>1, <2>2 DEF Live
<1>5. HandedOut' /\ OneOwner'
  <2>1. \A i \in Identifier, c \in Cell : Claims(i, c)' => Claims(i, c)
    BY <1>3 DEF Claims, Protects
  <2> QED BY <2>1 DEF Inv, HandedOut, OneOwner
<1>6. RestoresCaller' /\ ShadowedBound' /\ ResultsBound'
  BY <1>1 DEF RestoresCaller, ShadowedBound, ResultsBound
<1> QED
  BY <1>2, <1>4, <1>5, <1>6 DEF Inv

LEMMA FaultInv ==
  ASSUME Inv, Fault
  PROVE  Inv'
<1>1. /\ frames' = <<>> /\ stack' = <<>> /\ entered' = <<>> /\ faults' = faults + 1 /\ faults < MaxFaults
      /\ UNCHANGED <<record, protected, active, cells, closures, next>>
  BY DEF Fault
<1>2. faults' \in 0 .. MaxFaults
  BY <1>1, BoundsAssumption DEF Inv, TypeOK
<1>3. active' \in Environment /\ \A i \in DOMAIN active' : Binds(i, active'[i])
  BY <1>1 DEF Inv, TypeOK, Binds
<1> QED
  BY <1>1, <1>2, <1>3, Emptied

LEMMA ReplaceSourceInv ==
  ASSUME Inv, ReplaceSource
  PROVE  Inv' /\ active' = entered[1]
<1>1. /\ frames' = <<>> /\ stack' = <<>> /\ entered' = <<>> /\ active' = RestoreAll /\ InProgram
      /\ UNCHANGED <<record, protected, cells, closures, next, faults>>
  BY DEF ReplaceSource
<1>2. /\ active' = entered[1] /\ active' \in Environment /\ \A i \in DOMAIN active' : Binds(i, active'[i])
  BY <1>1, RestoreAllIs
<1>3. faults' \in 0 .. MaxFaults
  BY <1>1 DEF Inv, TypeOK
<1> QED
  BY <1>1, <1>2, <1>3, Emptied

---------------------------------------------------------------------------
(* Leaving one frame *)

\* The results a frame leaves are values of cells it bound, all live.
LEMMA ResultsLive ==
  ASSUME Inv, InProgram,
         NEW s, s = [k \in DOMAIN Top.program.sig.results |-> cells[active[Top.program.syms[Top.program.sig.results[k]]]]]
  PROVE  s \in Seq(Value) /\ \A k \in DOMAIN s : ValueLive(s[k])
<1>1. /\ Top \in Frame /\ Len(frames) \in DOMAIN frames /\ Top = frames[Len(frames)]
  BY TopTyped DEF Inv
<1>2. PICK p : p = Top.program
  OBVIOUS
<1>3. p.syms \in [Names -> Identifier] /\ p.sig.results \in Seq(Names)
  <2>1. p \in Program
    BY <1>1, <1>2, FrameTyped
  <2>2. p.sig \in Signatures \cup {NoSignature} /\ p.syms \in [Names -> Identifier]
    BY <2>1, ProgramTyped
  <2> QED BY <2>2, SignatureTyped
<1>4. \A r \in DOMAIN p.sig.results : p.syms[p.sig.results[r]] \in DOMAIN active
  BY <1>1, <1>2 DEF Inv, ResultsBound
<1>5. ASSUME NEW r \in DOMAIN p.sig.results
      PROVE  s[r] \in Value /\ ValueLive(s[r])
  <2>1. PICK i : i = p.syms[p.sig.results[r]]
    OBVIOUS
  <2>2. i \in DOMAIN active
    BY <2>1, <1>4
  <2>3. i \in Identifier /\ active[i] \in Cell
    BY <2>2, ActiveTyped DEF Inv
  <2>4. active[i] \in DOMAIN cells
    <3>1. Binds(i, active[i])
      BY <2>2 DEF Binds
    <3> QED BY <3>1, <2>3 DEF Inv, Live, BindingsLive
  <2>5. s[r] = cells[active[i]]
    BY <1>2, <2>1
  <2>6. cells[active[i]] \in Value
    BY <2>4, ValuesTyped DEF Inv
  <2>7. ValueLive(cells[active[i]])
    BY <2>4 DEF Inv, Live, ValuesLive
  <2> QED BY <2>5, <2>6, <2>7
<1>6. DOMAIN s = DOMAIN p.sig.results /\ s = [k \in DOMAIN s |-> s[k]]
  BY <1>2
<1>7. s \in Seq(Value)
  <2>1. PICK t \in Seq(Names) : t = p.sig.results
    BY <1>3
  <2>2. PICK u : u = s
    OBVIOUS
  <2>3. u = [k \in DOMAIN u |-> u[k]] /\ DOMAIN u = DOMAIN t /\ \A k \in DOMAIN u : u[k] \in Value
    BY <2>1, <2>2, <1>5, <1>6
  <2>4. u \in Seq(Value)
    BY <2>3, SequenceMade, Zenon
  <2> QED BY <2>2, <2>4
<1> QED
  BY <1>5, <1>6, <1>7

LEMMA ReturnInv ==
  ASSUME Inv, Return
  PROVE  Inv' /\ active' = entered[Len(frames)]
<1> DEFINE n == Len(frames)
<1>1. /\ active' = Restore(Top.saved, active)
      /\ frames' = SubSeq(frames, 1, n - 1) /\ entered' = SubSeq(entered, 1, Len(entered) - 1)
      /\ UNCHANGED <<record, protected, cells, closures, next, faults>> /\ InProgram
  BY DEF Return
<1>2. PICK s : /\ s = [k \in DOMAIN Top.program.sig.results |-> cells[active[Top.program.syms[Top.program.sig.results[k]]]]]
               /\ stack' = stack \o s
  BY DEF Return
<1>3. s \in Seq(Value) /\ \A k \in DOMAIN s : ValueLive(s[k])
  BY <1>1, <1>2, ResultsLive
<1>4. stack' \in Seq(Value) /\ \A k \in DOMAIN stack' : ValueLive(stack'[k])
  <2>1. stack \in Seq(Value) /\ \A k \in DOMAIN stack : ValueLive(stack[k])
    BY DEF Inv, TypeOK, Live, ValuesLive
  <2> QED BY <2>1, <1>2, <1>3, ConcatLive
<1>5. /\ frames \in Seq(Frame) /\ n \in Nat /\ n > 0 /\ n \in DOMAIN frames /\ Top = frames[n] /\ Top \in Frame
      /\ DOMAIN frames = 1 .. n
      /\ entered \in Seq(Environment) /\ Len(entered) = n /\ DOMAIN entered = 1 .. n
  BY <1>1, TopTyped, FramesTyped DEF Inv
<1> HIDE DEF n
<1>6. /\ frames' \in Seq(Frame) /\ Len(frames') = n - 1 /\ DOMAIN frames' = 1 .. n - 1
      /\ \A k \in 1 .. n - 1 : frames'[k] = frames[k] /\ k \in DOMAIN frames
      /\ entered' \in Seq(Environment) /\ Len(entered') = n - 1
      /\ \A k \in 1 .. n - 1 : entered'[k] = entered[k]
  BY <1>1, <1>5
<1>7. active' = entered[n]
  BY <1>1, <1>5 DEF Inv, RestoresCaller, n
<1>8. active \in Environment /\ active' \in Environment
  <2>1. entered[n] \in Environment
    BY <1>5
  <2> QED BY <2>1, <1>7 DEF Inv, TypeOK
<1>9. DOMAIN active \subseteq DOMAIN active' /\ \A i \in DOMAIN active' : Binds(i, active'[i])
  <2>1. /\ DOMAIN active' = DOMAIN active \cup Shadowed(Top.saved)
        /\ \A i \in Shadowed(Top.saved) : active'[i] = Remains(Top.saved, i)
        /\ \A i \in DOMAIN active : i \notin Shadowed(Top.saved) => active'[i] = active[i]
    <3>1. PICK sv : sv = Top.saved
      OBVIOUS
    <3>2. PICK m : m = active
      OBVIOUS
    <3>3. /\ DOMAIN Restore(sv, m) = DOMAIN m \cup Shadowed(sv)
          /\ \A i \in Shadowed(sv) : Restore(sv, m)[i] = Remains(sv, i)
          /\ \A i \in DOMAIN m : i \notin Shadowed(sv) => Restore(sv, m)[i] = m[i]
      BY RestoreParts
    <3> QED BY <3>1, <3>2, <3>3, <1>1
  <2>2. ASSUME NEW i \in Shadowed(Top.saved) PROVE Binds(i, Remains(Top.saved, i))
    <3>1. Top.saved.own \in Seq(Identifier \X Cell)
      BY <1>5, FrameTyped
    <3>2. FrameBinds(Top, i, Remains(Top.saved, i))
      BY <3>1, RemainsBound
    <3> QED BY <3>2, <1>5, Zenon DEF Binds
  <2>3. \A i \in DOMAIN active : Binds(i, active[i])
    BY DEF Binds
  <2> QED BY <2>1, <2>2, <2>3
<1>10. TypeOK'
  <2>1. n <= MaxFrames /\ MaxFrames \in Nat
    BY BoundsAssumption DEF Inv, TypeOK, n
  <2>2. Len(frames') <= MaxFrames
    BY <2>1, <1>5, <1>6
  <2> QED BY <2>2, <1>1, <1>4, <1>6, <1>8 DEF Inv, TypeOK
<1>11. ASSUME NEW i \in Identifier, NEW c \in Cell, Binds(i, c)' PROVE Binds(i, c)
  <2>1. CASE i \in DOMAIN active' /\ active'[i] = c
    BY <2>1, <1>9
  <2>2. CASE \E k \in DOMAIN frames' : FrameBinds(frames'[k], i, c)
    BY <2>2, <1>6 DEF Binds
  <2>3. CASE ~(i \in DOMAIN active' /\ active'[i] = c) /\ ~(\E k \in DOMAIN frames' : FrameBinds(frames'[k], i, c))
    BY <2>3, <1>11, <1>1 DEF Binds
  <2> QED BY <2>1, <2>2, <2>3
<1>12. HandedOut' /\ OneOwner'
  <2>1. \A i \in Identifier, c \in Cell : Claims(i, c)' => Claims(i, c)
    BY <1>1, <1>11 DEF Claims, Protects
  <2> QED BY <2>1, <1>1 DEF Inv, HandedOut, OneOwner
<1>13. Live'
  <2>1. NamesLive' /\ BindingsLive'
    BY <1>1, <1>11 DEF Inv, Live, NamesLive, BindingsLive
  <2>2. ValuesLive'
    <3>1. \A c \in DOMAIN cells' : ValueLive(cells'[c])
      BY <1>1 DEF Inv, Live, ValuesLive
    <3> QED BY <3>1, <1>1, <1>4 DEF ValuesLive, ValueLive
  <2>3. ProgramsLive'
    BY <1>1, <1>6 DEF Inv, Live, ProgramsLive
  <2> QED BY <2>1, <2>2, <2>3 DEF Live
<1>14. RestoresCaller'
  <2>1. ASSUME NEW k \in DOMAIN frames'
        PROVE Restore(frames'[k].saved, IF k = Len(frames') THEN active' ELSE entered'[k + 1]) = entered'[k]
    <3>1. (IF k = Len(frames') THEN active' ELSE entered'[k + 1]) = entered[k + 1] /\ k # n
      <4>1. CASE k = n - 1
        BY <4>1, <1>5, <1>6, <1>7
      <4>2. CASE k # n - 1
        <5>1. k + 1 \in 1 .. n - 1
          BY <4>2, <1>5, <1>6
        <5> QED BY <5>1, <4>2, <1>5, <1>6
      <4> QED BY <4>1, <4>2
    <3>2. Restore(frames[k].saved, IF k = Len(frames) THEN active ELSE entered[k + 1]) = entered[k]
      BY <1>6 DEF Inv, RestoresCaller
    <3> QED BY <3>1, <3>2, <1>6 DEF n
  <2> QED BY <2>1 DEF RestoresCaller
<1>15. ShadowedBound' /\ ResultsBound'
  BY <1>6, <1>9 DEF Inv, ShadowedBound, ResultsBound
<1> QED
  BY <1>7, <1>10, <1>12, <1>13, <1>14, <1>15 DEF Inv, n

---------------------------------------------------------------------------
(* collect() *)

LEMMA MarkedIs ==
  ASSUME NEW M, NEW s, NEW h, <<s, h>> \in M
  PROVE  h \in Marked(M, s)
BY DEF Marked

LEMMA MarkedBy ==
  ASSUME NEW M, NEW s, NEW h, h \in Marked(M, s)
  PROVE  \E x \in M : x[1] = s /\ x[2] = h
BY DEF Marked

LEMMA EnvironmentMarked ==
  ASSUME NEW M, NEW env, EnvironmentNodes(env) \subseteq M
  PROVE  \A i \in DOMAIN env : i \in Marked(M, "identifier") /\ env[i] \in Marked(M, "cell")
<1>1. ASSUME NEW i \in DOMAIN env PROVE <<"identifier", i>> \in M /\ <<"cell", env[i]>> \in M
  <2>1. <<"identifier", i>> \in EnvironmentNodes(env)
    BY DEF EnvironmentNodes, Identifiers
  <2>2. env[i] \in Image(env)
    BY DEF Image
  <2>3. <<"cell", env[i]>> \in EnvironmentNodes(env)
    BY <2>2 DEF EnvironmentNodes, CellNodes
  <2> QED BY <2>1, <2>3
<1> QED
  BY <1>1, MarkedIs

LEMMA ProgramMarked ==
  ASSUME NEW M, NEW p \in Program, ProgramNodes(p) \subseteq M
  PROVE  \A n \in Names : p.syms[n] \in Marked(M, "identifier")
<1>1. DOMAIN p.syms = Names
  BY ProgramTyped
<1>2. ASSUME NEW n \in Names PROVE <<"identifier", p.syms[n]>> \in M
  <2>1. p.syms[n] \in Image(p.syms)
    BY <1>1 DEF Image
  <2> QED BY <2>1 DEF ProgramNodes, Identifiers
<1> QED
  BY <1>2, MarkedIs

LEMMA HeldMarked ==
  ASSUME NEW M, NEW v, Held(v) \subseteq M
  PROVE  /\ v[1] = "function" => v[2] \in Marked(M, "function")
         /\ v[1] = "reference" => v[2] \in Marked(M, "identifier")
<1>1. CASE v[1] = "function"
  <2>1. v \in M
    BY <1>1 DEF Held
  <2>2. v[2] \in Marked(M, "function")
    BY <1>1, <2>1 DEF Marked
  <2> QED BY <1>1, <2>2
<1>2. CASE v[1] = "reference"
  <2>1. Held(v) = Identifiers({v[2]})
    BY <1>2 DEF Held
  <2>2. <<"identifier", v[2]>> \in M
    BY <2>1 DEF Identifiers
  <2> QED BY <1>2, <2>2, MarkedIs
<1> QED
  BY <1>1, <1>2

\* What a closed set of marks holds on to.
LEMMA ClosedMarks ==
  ASSUME TypeOK, NEW M, Closed(M)
  PROVE  /\ \A i \in DOMAIN active : i \in Marked(M, "identifier") => active[i] \in Marked(M, "cell")
         /\ \A c \in Marked(M, "cell") :
              /\ cells[c][1] = "function" => cells[c][2] \in Marked(M, "function")
              /\ cells[c][1] = "reference" => cells[c][2] \in Marked(M, "identifier")
         /\ \A h \in DOMAIN closures : h \in Marked(M, "function") =>
              /\ \A n \in Names : closures[h].program.syms[n] \in Marked(M, "identifier")
              /\ \A i \in DOMAIN closures[h].env : i \in Marked(M, "identifier") /\ closures[h].env[i] \in Marked(M, "cell")
<1>1. ASSUME NEW i \in DOMAIN active, i \in Marked(M, "identifier") PROVE active[i] \in Marked(M, "cell")
  <2>1. PICK x \in M : x[1] = "identifier" /\ x[2] = i
    BY <1>1, MarkedBy
  <2>2. Successors(x) = CellNodes({active[i]})
    BY <2>1 DEF Successors
  <2>3. Successors(x) \subseteq M
    BY DEF Closed
  <2>4. <<"cell", active[i]>> \in M
    BY <2>2, <2>3 DEF CellNodes
  <2> QED BY <2>4, MarkedIs
<1>2. ASSUME NEW c \in Marked(M, "cell")
      PROVE  /\ cells[c][1] = "function" => cells[c][2] \in Marked(M, "function")
             /\ cells[c][1] = "reference" => cells[c][2] \in Marked(M, "identifier")
  <2>1. PICK x \in M : x[1] = "cell" /\ x[2] = c
    BY <1>2, MarkedBy
  <2>2. Successors(x) = Held(cells[c])
    BY <2>1 DEF Successors
  <2>3. Successors(x) \subseteq M
    BY DEF Closed
  <2> QED BY <2>2, <2>3, HeldMarked
<1>3. ASSUME NEW h \in DOMAIN closures, h \in Marked(M, "function")
      PROVE  /\ \A n \in Names : closures[h].program.syms[n] \in Marked(M, "identifier")
             /\ \A i \in DOMAIN closures[h].env : i \in Marked(M, "identifier") /\ closures[h].env[i] \in Marked(M, "cell")
  <2>1. PICK x \in M : x[1] = "function" /\ x[2] = h
    BY <1>3, MarkedBy
  <2>2. Successors(x) = ProgramNodes(closures[h].program) \cup EnvironmentNodes(closures[h].env)
    BY <2>1 DEF Successors
  <2>3. Successors(x) \subseteq M
    BY DEF Closed
  <2>4. ProgramNodes(closures[h].program) \subseteq M /\ EnvironmentNodes(closures[h].env) \subseteq M
    BY <2>2, <2>3
  <2>5. closures[h] \in Closure
    BY DEF TypeOK
  <2>6. closures[h].program \in Program
    BY <2>5, ClosureTyped
  <2> QED BY <2>4, <2>6, ProgramMarked, EnvironmentMarked
<1> QED
  BY <1>1, <1>2, <1>3

LEMMA RootMarks ==
  ASSUME TypeOK, NEW M, Closed(M)
  PROVE  /\ \A n \in Names : record[n] # 0 => record[n] \in Marked(M, "identifier")
         /\ \A k \in DOMAIN stack : /\ stack[k][1] = "function" => stack[k][2] \in Marked(M, "function")
                                    /\ stack[k][1] = "reference" => stack[k][2] \in Marked(M, "identifier")
         /\ \A k \in DOMAIN frames :
              /\ frames[k].function # 0 => frames[k].function \in Marked(M, "function")
              /\ \A n \in Names : frames[k].program.syms[n] \in Marked(M, "identifier")
              /\ \A i, c : FrameBinds(frames[k], i, c) => i \in Marked(M, "identifier") /\ c \in Marked(M, "cell")
              /\ Shadowed(frames[k].saved) \subseteq Marked(M, "identifier")
<1>0. Roots \subseteq M
  BY DEF Closed
<1>1. ASSUME NEW n \in Names, record[n] # 0 PROVE record[n] \in Marked(M, "identifier")
  <2>1. <<"identifier", record[n]>> \in Identifiers({record[m] : m \in Names} \ {0})
    BY <1>1 DEF Identifiers
  <2>2. <<"identifier", record[n]>> \in M
    BY <2>1, <1>0 DEF Roots
  <2> QED BY <2>2, MarkedIs
<1>2. ASSUME NEW k \in DOMAIN stack
      PROVE  /\ stack[k][1] = "function" => stack[k][2] \in Marked(M, "function")
             /\ stack[k][1] = "reference" => stack[k][2] \in Marked(M, "identifier")
  <2>1. Held(stack[k]) \subseteq M
    BY <1>0 DEF Roots
  <2> QED BY <2>1, HeldMarked
<1>3. ASSUME NEW k \in DOMAIN frames
      PROVE  /\ frames[k].function # 0 => frames[k].function \in Marked(M, "function")
             /\ \A n \in Names : frames[k].program.syms[n] \in Marked(M, "identifier")
             /\ \A i, c : FrameBinds(frames[k], i, c) => i \in Marked(M, "identifier") /\ c \in Marked(M, "cell")
             /\ Shadowed(frames[k].saved) \subseteq Marked(M, "identifier")
  <2>1. FrameNodes(frames[k]) \subseteq M
    BY <1>0 DEF Roots
  <2>2. PICK f \in Frame : f = frames[k]
    BY FramesTyped
  <2>3. /\ (f.function # 0 => <<"function", f.function>> \in M)
        /\ ProgramNodes(f.program) \subseteq M /\ EnvironmentNodes(f.env) \subseteq M /\ SavedNodes(f.saved) \subseteq M
    BY <2>1, <2>2 DEF FrameNodes
  <2>4. /\ EnvironmentNodes(f.saved.captured) \subseteq M
        /\ Identifiers({f.saved.own[j][1] : j \in DOMAIN f.saved.own}) \subseteq M
        /\ CellNodes({f.saved.own[j][2] : j \in DOMAIN f.saved.own}) \subseteq M
    BY <2>3 DEF SavedNodes
  <2>5. \A j \in DOMAIN f.saved.own : <<"identifier", f.saved.own[j][1]>> \in M /\ <<"cell", f.saved.own[j][2]>> \in M
    BY <2>4 DEF Identifiers, CellNodes
  <2>6. \A j \in DOMAIN f.saved.own : f.saved.own[j][1] \in Marked(M, "identifier") /\ f.saved.own[j][2] \in Marked(M, "cell")
    <3>1. ASSUME NEW j \in DOMAIN f.saved.own
          PROVE  f.saved.own[j][1] \in Marked(M, "identifier") /\ f.saved.own[j][2] \in Marked(M, "cell")
      <4>1. <<"identifier", f.saved.own[j][1]>> \in M /\ <<"cell", f.saved.own[j][2]>> \in M
        BY <2>5
      <4> QED BY <4>1, MarkedIs, Zenon
    <3> QED BY <3>1
  <2>7. \A i \in DOMAIN f.saved.captured : i \in Marked(M, "identifier") /\ f.saved.captured[i] \in Marked(M, "cell")
    BY <2>4, EnvironmentMarked
  <2>8. \A i \in DOMAIN f.env : i \in Marked(M, "identifier") /\ f.env[i] \in Marked(M, "cell")
    BY <2>3, EnvironmentMarked
  <2>9. \A n \in Names : f.program.syms[n] \in Marked(M, "identifier")
    <3>1. f.program \in Program
      BY FrameTyped
    <3> QED BY <3>1, <2>3, ProgramMarked
  <2>10. f.function # 0 => f.function \in Marked(M, "function")
    BY <2>3, MarkedIs
  <2>11. \A i, c : FrameBinds(f, i, c) => i \in Marked(M, "identifier") /\ c \in Marked(M, "cell")
    BY <2>6, <2>7, <2>8 DEF FrameBinds
  <2>12. Shadowed(f.saved) \subseteq Marked(M, "identifier")
    BY <2>6, <2>7 DEF Shadowed
  <2> QED BY <2>2, <2>9, <2>10, <2>11, <2>12
<1> QED
  BY <1>1, <1>2, <1>3

LEMMA CollectInv ==
  ASSUME Inv, Collect
  PROVE  Inv' /\ \A c \in DOMAIN cells' : c \in DOMAIN cells /\ cells'[c] = cells[c]
<1>1. PICK M : /\ Closed(M)
               /\ active' = Only(active, Marked(M, "identifier"))
               /\ protected' = Only(protected, Marked(M, "identifier"))
               /\ closures' = Only(closures, Marked(M, "function"))
               /\ cells' = Only(cells, Marked(M, "cell"))
               /\ entered' = [k \in DOMAIN entered |-> Only(entered[k], Marked(M, "identifier"))]
               /\ UNCHANGED <<record, frames, stack, next, faults>>
  BY DEF Collect
<1>2. PICK I, C, F : I = Marked(M, "identifier") /\ C = Marked(M, "cell") /\ F = Marked(M, "function")
  OBVIOUS
<1>3. TypeOK
  BY DEF Inv
<1>4. /\ \A i \in DOMAIN active : i \in I => active[i] \in C
      /\ \A c \in C : /\ cells[c][1] = "function" => cells[c][2] \in F
                      /\ cells[c][1] = "reference" => cells[c][2] \in I
      /\ \A h \in DOMAIN closures : h \in F =>
           /\ \A n \in Names : closures[h].program.syms[n] \in I
           /\ \A i \in DOMAIN closures[h].env : i \in I /\ closures[h].env[i] \in C
  BY <1>1, <1>2, <1>3, ClosedMarks
<1>5. /\ \A n \in Names : record[n] # 0 => record[n] \in I
      /\ \A k \in DOMAIN stack : /\ stack[k][1] = "function" => stack[k][2] \in F
                                 /\ stack[k][1] = "reference" => stack[k][2] \in I
      /\ \A k \in DOMAIN frames :
           /\ frames[k].function # 0 => frames[k].function \in F
           /\ \A n \in Names : frames[k].program.syms[n] \in I
           /\ \A i, c : FrameBinds(frames[k], i, c) => i \in I /\ c \in C
           /\ Shadowed(frames[k].saved) \subseteq I
  BY <1>1, <1>2, <1>3, RootMarks
<1>6. /\ active' = Only(active, I) /\ protected' = Only(protected, I) /\ closures' = Only(closures, F)
      /\ cells' = Only(cells, C) /\ entered' = [k \in DOMAIN entered |-> Only(entered[k], I)]
      /\ UNCHANGED <<record, frames, stack, next, faults>>
  BY <1>1, <1>2
<1>7. /\ DOMAIN active' = DOMAIN active \cap I /\ \A i \in DOMAIN active' : active'[i] = active[i]
      /\ DOMAIN protected' = DOMAIN protected \cap I /\ \A i \in DOMAIN protected' : protected'[i] = protected[i]
  BY <1>6 DEF Only
<1>8. /\ DOMAIN closures' = DOMAIN closures \cap F /\ \A h \in DOMAIN closures' : closures'[h] = closures[h]
      /\ closures' = [h \in DOMAIN closures' |-> closures'[h]]
      /\ DOMAIN cells' = DOMAIN cells \cap C /\ \A c \in DOMAIN cells' : cells'[c] = cells[c]
      /\ cells' = [c \in DOMAIN cells' |-> cells'[c]]
  BY <1>6 DEF Only
<1>9. TypeOK'
  <2>1. active' \in Environment
    <3>1. active \in Environment
      BY <1>3 DEF TypeOK
    <3> QED BY <3>1, <1>6, OnlyMaps DEF Environment
  <2>2. protected' \in Maps(Identifier, 0 .. MaxCell)
    <3>1. protected \in Maps(Identifier, 0 .. MaxCell)
      BY <1>3 DEF TypeOK
    <3> QED BY <3>1, <1>6, OnlyMaps
  <2>3. closures' \in [DOMAIN closures' -> Closure] /\ DOMAIN closures' \subseteq 1 .. MaxFn
    <3>1. DOMAIN closures \subseteq 1 .. MaxFn /\ \A h \in DOMAIN closures : closures[h] \in Closure
      BY <1>3 DEF TypeOK
    <3> QED BY <3>1, <1>8
  <2>4. cells' \in [DOMAIN cells' -> Value] /\ DOMAIN cells' \subseteq Cell
    BY <1>3, <1>8, ValuesTyped
  <2>5. entered' \in Seq(Environment) /\ Len(entered') = Len(entered)
    <3>1. entered \in Seq(Environment)
      BY <1>3 DEF TypeOK
    <3>2. ASSUME NEW k \in DOMAIN entered PROVE Only(entered[k], I) \in Environment
      <4>1. entered[k] \in Environment
        BY <3>1
      <4> QED BY <4>1, OnlyMaps DEF Environment
    <3>3. /\ entered' = [k \in DOMAIN entered' |-> entered'[k]] /\ DOMAIN entered' = DOMAIN entered
          /\ \A k \in DOMAIN entered' : entered'[k] \in Environment
      BY <3>2, <1>6
    <3> QED BY <3>1, <3>3, SequenceMade
  <2> QED BY <2>1, <2>2, <2>3, <2>4, <2>5, <1>3, <1>6 DEF TypeOK
<1>10. ASSUME NEW i \in Identifier, NEW c \in Cell, Binds(i, c)' PROVE Binds(i, c) /\ i \in I /\ c \in C
  <2>1. CASE i \in DOMAIN active' /\ active'[i] = c
    <3>1. i \in DOMAIN active /\ i \in I /\ active[i] = c
      BY <2>1, <1>7
    <3> QED BY <3>1, <1>4 DEF Binds
  <2>2. CASE \E h \in DOMAIN closures' : i \in DOMAIN closures'[h].env /\ closures'[h].env[i] = c
    <3>1. PICK h \in DOMAIN closures' : i \in DOMAIN closures'[h].env /\ closures'[h].env[i] = c
      BY <2>2
    <3>2. h \in DOMAIN closures /\ h \in F /\ closures'[h] = closures[h]
      BY <1>8
    <3> QED BY <3>1, <3>2, <1>4 DEF Binds
  <2>3. CASE \E k \in DOMAIN frames' : FrameBinds(frames'[k], i, c)
    <3>1. PICK k \in DOMAIN frames : FrameBinds(frames[k], i, c)
      BY <2>3, <1>6
    <3> QED BY <3>1, <1>5 DEF Binds
  <2> QED BY <2>1, <2>2, <2>3, <1>10 DEF Binds
<1>11. HandedOut' /\ OneOwner'
  <2>1. \A i \in Identifier, c \in Cell : Claims(i, c)' => Claims(i, c)
    BY <1>7, <1>10 DEF Claims, Protects
  <2> QED BY <2>1, <1>6 DEF Inv, HandedOut, OneOwner
<1>12. Live'
  <2>1. NamesLive'
    BY <1>5, <1>6, <1>7 DEF Inv, Live, NamesLive
  <2>2. BindingsLive'
    BY <1>7, <1>8, <1>10 DEF Inv, Live, BindingsLive
  <2>3. ValuesLive'
    <3>1. ASSUME NEW k \in DOMAIN stack
          PROVE  /\ stack[k][1] = "function" => stack[k][2] \in DOMAIN closures'
                 /\ stack[k][1] = "reference" => stack[k][2] \in DOMAIN protected'
      <4>1. ValueLive(stack[k])
        BY DEF Inv, Live, ValuesLive
      <4> QED BY <4>1, <1>5, <1>7, <1>8 DEF ValueLive
    <3>2. ASSUME NEW c \in DOMAIN cells'
          PROVE  /\ cells'[c][1] = "function" => cells'[c][2] \in DOMAIN closures'
                 /\ cells'[c][1] = "reference" => cells'[c][2] \in DOMAIN protected'
      <4>1. c \in DOMAIN cells /\ c \in C /\ cells'[c] = cells[c]
        BY <1>8
      <4>2. ValueLive(cells[c])
        BY <4>1 DEF Inv, Live, ValuesLive
      <4> QED BY <4>1, <4>2, <1>4, <1>7, <1>8 DEF ValueLive
    <3> QED BY <3>1, <3>2, <1>6 DEF ValuesLive, ValueLive
  <2>4. ProgramsLive'
    <3>1. \A h \in DOMAIN closures' : \A n \in Names : closures'[h].program.syms[n] \in DOMAIN protected'
      BY <1>4, <1>7, <1>8 DEF Inv, Live, ProgramsLive
    <3>2. \A k \in DOMAIN frames : /\ \A n \in Names : frames[k].program.syms[n] \in DOMAIN protected'
                                   /\ frames[k].function # 0 => frames[k].function \in DOMAIN closures'
      BY <1>5, <1>7, <1>8 DEF Inv, Live, ProgramsLive
    <3> QED BY <3>1, <3>2, <1>6 DEF ProgramsLive
  <2> QED BY <2>1, <2>2, <2>3, <2>4 DEF Live
<1>13. RestoresCaller'
  <2>1. ASSUME NEW k \in DOMAIN frames
        PROVE Restore(frames[k].saved, IF k = Len(frames) THEN active' ELSE entered'[k + 1]) = entered'[k]
    <3>0. Len(frames) \in Nat /\ DOMAIN frames = 1 .. Len(frames) /\ DOMAIN entered = DOMAIN frames
      BY <1>3, FramesTyped
    <3>1. PICK m : m = IF k = Len(frames) THEN active ELSE entered[k + 1]
      OBVIOUS
    <3>2. Restore(frames[k].saved, m) = entered[k]
      BY <3>1 DEF Inv, RestoresCaller
    <3>3. (IF k = Len(frames) THEN active' ELSE entered'[k + 1]) = Only(m, I)
      BY <3>0, <3>1, <1>6
    <3>4. entered'[k] = Only(entered[k], I)
      BY <3>0, <1>6
    <3>5. Restore(frames[k].saved, Only(m, I)) = Only(Restore(frames[k].saved, m), I)
      <4>1. Shadowed(frames[k].saved) \subseteq I
        BY <1>5
      <4> QED BY <4>1, RestoreOnly
    <3> QED BY <3>2, <3>3, <3>4, <3>5
  <2> QED BY <2>1, <1>6 DEF RestoresCaller
<1>14. ShadowedBound'
  <2>1. ASSUME NEW k \in DOMAIN frames, NEW i \in Identifier, Saves(frames[k], i) PROVE i \in DOMAIN active'
    <3>1. i \in DOMAIN active
      BY <2>1 DEF Inv, ShadowedBound
    <3>2. i \in I
      BY <2>1, <1>5, SavesIs
    <3> QED BY <3>1, <3>2, <1>7
  <2> QED BY <2>1, <1>6 DEF ShadowedBound
<1>15. ResultsBound'
  <2>1. ASSUME NEW k \in DOMAIN frames, NEW r \in DOMAIN frames[k].program.sig.results
        PROVE  frames[k].program.syms[frames[k].program.sig.results[r]] \in DOMAIN active'
    <3>1. frames[k].program.syms[frames[k].program.sig.results[r]] \in DOMAIN active
      BY DEF Inv, ResultsBound
    <3>2. frames[k].program.sig.results[r] \in Names
      <4>1. frames[k] \in Frame
        BY <1>3, FramesTyped
      <4>2. frames[k].program \in Program
        BY <4>1, FrameTyped
      <4>3. frames[k].program.sig \in Signatures \cup {NoSignature}
        BY <4>2, ProgramTyped
      <4>4. frames[k].program.sig.results \in Seq(Names)
        BY <4>3, SignatureTyped
      <4> QED BY <4>4
    <3> QED BY <3>1, <3>2, <1>5, <1>7
  <2> QED BY <2>1, <1>6 DEF ResultsBound
<1> QED
  BY <1>8, <1>9, <1>11, <1>12, <1>13, <1>14, <1>15 DEF Inv

---------------------------------------------------------------------------
(* What a call binds and saves *)

LEMMA LastAtIs ==
  ASSUME NEW T, NEW ids \in Seq(T), NEW m \in 0 .. Len(ids), NEW i, \E k \in 1 .. m : ids[k] = i
  PROVE  LastAt(ids, i, m) \in 1 .. m /\ ids[LastAt(ids, i, m)] = i
<1> DEFINE S == {k \in 1 .. m : ids[k] = i}
<1>1. S \in SUBSET Nat /\ S # {} /\ m \in Nat /\ \A x \in S : x <= m
  OBVIOUS
<1>2. PICK g \in S : \A y \in S : y <= g
  <2> HIDE DEF S
  <2> QED BY <1>1, GreatestNatural
<1>3. g \in 1 .. m /\ ids[g] = i /\ \A k \in (g + 1) .. m : ids[k] # i
  <2>1. g \in 1 .. m /\ ids[g] = i
    BY <1>2
  <2>2. ASSUME NEW k \in (g + 1) .. m, ids[k] = i PROVE FALSE
    <3>1. k \in 1 .. m /\ ~(k <= g)
      BY <2>1
    <3>2. k \in S
      BY <3>1, <2>2
    <3> HIDE DEF S
    <3> QED BY <3>1, <3>2, <1>2
  <2> QED BY <2>1, <2>2
<1>4. PICK j : j = LastAt(ids, i, m)
  OBVIOUS
<1>5. j \in 1 .. m /\ ids[j] = i
  BY <1>3, <1>4, Zenon DEF LastAt
<1> QED
  BY <1>4, <1>5

\* The environment of a call: the cells the closure captured and the fresh ones of its own names.
CallEnv(env0, ids, base) ==
  [i \in DOMAIN env0 \cup Bound(ids) |->
     IF i \in Bound(ids) THEN base + LastAt(ids, i, Len(ids)) - 1 ELSE env0[i]]

\* What it shadows: the captured identifiers' cells, then its own names' one after another.
CallSaved(env0, ids, outer, base) ==
  [captured |-> [i \in DOMAIN env0 |-> outer[i]],
   own |-> [j \in 1 .. Len(ids) |->
     <<ids[j], IF \E k \in 1 .. (j - 1) : ids[k] = ids[j]
               THEN base + LastAt(ids, ids[j], j - 1) - 1
               ELSE Over(env0, outer)[ids[j]]>>]]

\* What they are made from, and what is true of them.
CallShape(env0, ids, base) ==
  /\ env0 \in Environment /\ ids \in Seq(Identifier)
  /\ base \in 1 .. MaxCell + 1 /\ base + Len(ids) - 1 <= MaxCell
CallCovers(env0, ids, outer) ==
  outer \in Environment /\ DOMAIN env0 \cup Bound(ids) \subseteq DOMAIN outer
EnvShape(env0, ids, base, env) ==
  /\ env \in Environment /\ DOMAIN env = DOMAIN env0 \cup Bound(ids)
  /\ \A i \in DOMAIN env : \/ i \in DOMAIN env0 /\ env[i] = env0[i]
                           \/ \E j \in 1 .. Len(ids) : ids[j] = i /\ env[i] = base + j - 1
SavedShape(env0, ids, base, outer, saved) ==
  /\ saved \in Saved
  /\ Shadowed(saved) = DOMAIN env0 \cup Bound(ids)
  /\ \A i \in Shadowed(saved) : Remains(saved, i) = outer[i]
  /\ saved.captured = [i \in DOMAIN env0 |-> outer[i]]
  /\ \A j \in DOMAIN saved.own :
       /\ saved.own[j][1] \in DOMAIN outer
       /\ \/ saved.own[j][2] = outer[saved.own[j][1]]
          \/ saved.own[j][1] \in DOMAIN env0 /\ saved.own[j][2] = env0[saved.own[j][1]]
          \/ \E k \in 1 .. Len(ids) : ids[k] = saved.own[j][1] /\ saved.own[j][2] = base + k - 1

LEMMA CallEnvIs ==
  ASSUME NEW env0, NEW ids, NEW base, CallShape(env0, ids, base)
  PROVE  EnvShape(env0, ids, base, CallEnv(env0, ids, base))
<1> env0 \in Environment /\ ids \in Seq(Identifier) /\ base \in 1 .. MaxCell + 1 /\ base + Len(ids) - 1 <= MaxCell
  BY DEF CallShape
<1>1. PICK e : e = CallEnv(env0, ids, base)
  OBVIOUS
<1>2. /\ DOMAIN e = DOMAIN env0 \cup Bound(ids) /\ e = [x \in DOMAIN e |-> e[x]]
      /\ \A i \in DOMAIN e : e[i] = IF i \in Bound(ids) THEN base + LastAt(ids, i, Len(ids)) - 1 ELSE env0[i]
  BY <1>1 DEF CallEnv
<1>3. MaxCell \in Nat /\ Len(ids) \in Nat /\ DOMAIN ids = 1 .. Len(ids)
  BY BoundsAssumption
<1>4. /\ DOMAIN env0 \subseteq Identifier /\ \A x \in DOMAIN env0 : env0[x] \in Cell
  BY EnvironmentIs, Zenon
<1>5. ASSUME NEW i \in Bound(ids)
      PROVE  i \in Identifier /\ \E j \in 1 .. Len(ids) : ids[j] = i /\ e[i] = base + j - 1
  <2>1. PICK k \in 1 .. Len(ids) : ids[k] = i
    BY <1>3 DEF Bound
  <2>2. PICK j : j = LastAt(ids, i, Len(ids))
    OBVIOUS
  <2>3. j \in 1 .. Len(ids) /\ ids[j] = i
    <3>1. Len(ids) \in 0 .. Len(ids)
      BY <1>3
    <3> QED BY <2>1, <2>2, <3>1, LastAtIs
  <2>4. i \in Identifier
    BY <2>1
  <2> QED BY <2>2, <2>3, <2>4, <1>2
<1>6. \A i \in DOMAIN e : \/ i \in DOMAIN env0 /\ e[i] = env0[i]
                          \/ \E j \in 1 .. Len(ids) : ids[j] = i /\ e[i] = base + j - 1
  BY <1>2, <1>5
<1>7. \A x \in DOMAIN e : x \in Identifier /\ e[x] \in Cell
  <2>1. ASSUME NEW x \in DOMAIN e PROVE x \in Identifier /\ e[x] \in Cell
    <3>1. CASE x \in Bound(ids)
      <4>1. PICK j \in 1 .. Len(ids) : ids[j] = x /\ e[x] = base + j - 1
        BY <3>1, <1>5
      <4>2. base + j - 1 \in Cell
        BY <1>3 DEF Cell
      <4> QED BY <4>1, <4>2, <3>1, <1>5
    <3>2. CASE x \notin Bound(ids)
      BY <3>2, <1>2, <1>4
    <3> QED BY <3>1, <3>2
  <2> QED BY <2>1
<1>8. e \in Environment
  BY <1>2, <1>7, EnvironmentIs
<1> QED
  BY <1>1, <1>2, <1>6, <1>8, Zenon DEF EnvShape

LEMMA CallSavedIs ==
  ASSUME NEW env0, NEW ids, NEW base, CallShape(env0, ids, base), NEW outer, CallCovers(env0, ids, outer)
  PROVE  SavedShape(env0, ids, base, outer, CallSaved(env0, ids, outer, base))
<1> env0 \in Environment /\ ids \in Seq(Identifier) /\ base \in 1 .. MaxCell + 1 /\ base + Len(ids) - 1 <= MaxCell
  BY DEF CallShape
<1> outer \in Environment /\ DOMAIN env0 \cup Bound(ids) \subseteq DOMAIN outer
  BY DEF CallCovers
<1>1. PICK captured, own : /\ captured = [i \in DOMAIN env0 |-> outer[i]]
        /\ own = [j \in 1 .. Len(ids) |->
                   <<ids[j], IF \E k \in 1 .. (j - 1) : ids[k] = ids[j]
                             THEN base + LastAt(ids, ids[j], j - 1) - 1
                             ELSE Over(env0, outer)[ids[j]]>>]
  OBVIOUS
<1>2. PICK s : s = CallSaved(env0, ids, outer, base)
  OBVIOUS
<1>3. s = [captured |-> captured, own |-> own]
  BY <1>1, <1>2 DEF CallSaved
<1>4. s.captured = captured /\ s.own = own
  BY <1>3
<1>5. MaxCell \in Nat /\ Len(ids) \in Nat /\ DOMAIN ids = 1 .. Len(ids) /\ \A j \in 1 .. Len(ids) : ids[j] \in Identifier
  BY BoundsAssumption
<1>6. /\ DOMAIN outer \subseteq Identifier /\ \A x \in DOMAIN outer : outer[x] \in Cell
  BY EnvironmentIs, Zenon
<1>7. /\ DOMAIN env0 \subseteq Identifier /\ \A x \in DOMAIN env0 : env0[x] \in Cell
  BY EnvironmentIs, Zenon
<1>8. \A j \in 1 .. Len(ids) : ids[j] \in DOMAIN outer
  BY <1>5 DEF Bound
<1>9. captured \in Environment /\ DOMAIN captured = DOMAIN env0 /\ \A i \in DOMAIN env0 : captured[i] = outer[i]
  <2>1. /\ captured = [x \in DOMAIN captured |-> captured[x]] /\ DOMAIN captured = DOMAIN env0
        /\ \A i \in DOMAIN env0 : captured[i] = outer[i]
    BY <1>1
  <2>2. DOMAIN captured \subseteq Identifier /\ \A x \in DOMAIN captured : captured[x] \in Cell
    BY <2>1, <1>6
  <2> QED BY <2>1, <2>2, EnvironmentIs
<1>10. DOMAIN own = 1 .. Len(ids) /\ own = [j \in DOMAIN own |-> own[j]]
  BY <1>1
<1>11. ASSUME NEW j \in 1 .. Len(ids)
       PROVE  /\ own[j] \in Identifier \X Cell /\ own[j][1] = ids[j]
              /\ (\A k \in 1 .. (j - 1) : ids[k] # ids[j]) /\ ids[j] \notin DOMAIN env0 => own[j][2] = outer[ids[j]]
              /\ \/ own[j][2] = outer[ids[j]]
                 \/ ids[j] \in DOMAIN env0 /\ own[j][2] = env0[ids[j]]
                 \/ \E k \in 1 .. Len(ids) : ids[k] = ids[j] /\ own[j][2] = base + k - 1
  <2>1. PICK c : c = IF \E k \in 1 .. (j - 1) : ids[k] = ids[j]
                     THEN base + LastAt(ids, ids[j], j - 1) - 1
                     ELSE Over(env0, outer)[ids[j]]
    OBVIOUS
  <2>2. own[j] = <<ids[j], c>>
    BY <1>1, <2>1
  <2>3. own[j][1] = ids[j] /\ own[j][2] = c
    BY <2>2
  <2>4. CASE \E k \in 1 .. (j - 1) : ids[k] = ids[j]
    <3>1. PICK k : k = LastAt(ids, ids[j], j - 1)
      OBVIOUS
    <3>2. k \in 1 .. (j - 1) /\ ids[k] = ids[j]
      <4>1. j - 1 \in 0 .. Len(ids)
        BY <1>5
      <4> QED BY <4>1, <3>1, <2>4, LastAtIs
    <3>3. c = base + k - 1 /\ k \in 1 .. Len(ids)
      BY <3>1, <3>2, <2>1, <2>4, <1>5
    <3>4. c \in Cell
      BY <3>3, <1>5 DEF Cell
    <3> QED BY <3>2, <3>3, <3>4, <2>2, <2>3, <2>4, <1>5
  <2>5. CASE ~\E k \in 1 .. (j - 1) : ids[k] = ids[j]
    <3>1. c = Over(env0, outer)[ids[j]]
      BY <2>1, <2>5
    <3>2. \/ ids[j] \in DOMAIN env0 /\ c = env0[ids[j]]
          \/ ids[j] \notin DOMAIN env0 /\ c = outer[ids[j]]
      BY <3>1, <1>8 DEF Over
    <3>3. c \in Cell
      BY <3>2, <1>6, <1>7, <1>8
    <3> QED BY <3>2, <3>3, <2>2, <2>3, <2>5, <1>5
  <2> QED BY <2>4, <2>5
<1>12. own \in Seq(Identifier \X Cell)
  <2>1. \A j \in DOMAIN own : own[j] \in Identifier \X Cell
    BY <1>10, <1>11
  <2>2. DOMAIN own = DOMAIN ids
    BY <1>5, <1>10
  <2> QED BY <2>1, <2>2, <1>10, SequenceMade
<1>13. s \in Saved
  BY <1>3, <1>9, <1>12 DEF Saved
<1>14. Shadowed(s) = DOMAIN env0 \cup Bound(ids)
  <2>1. \A j \in DOMAIN own : own[j][1] = ids[j]
    BY <1>10, <1>11
  <2>2. {own[j][1] : j \in DOMAIN own} = Bound(ids)
    BY <2>1, <1>5, <1>10 DEF Bound
  <2> QED BY <2>2, <1>4, <1>9 DEF Shadowed
<1>15. ASSUME NEW i \in Shadowed(s) PROVE Remains(s, i) = outer[i]
  <2>1. CASE i \in DOMAIN s.captured
    BY <2>1, <1>4, <1>9 DEF Remains
  <2>2. CASE i \notin DOMAIN s.captured
    <3>1. PICK j \in DOMAIN s.own : /\ s.own[j][1] = i /\ Remains(s, i) = s.own[j][2]
                                    /\ \A k \in 1 .. (j - 1) : s.own[k][1] # i
      <4>1. s.own \in Seq(Identifier \X Cell)
        BY <1>4, <1>12
      <4> QED BY <4>1, <2>2, RemainsFirst
    <3>2. j \in 1 .. Len(ids) /\ own[j][1] = i /\ ids[j] = i /\ ids[j] \notin DOMAIN env0
      BY <3>1, <2>2, <1>4, <1>9, <1>10, <1>11
    <3>3. \A k \in 1 .. (j - 1) : k \in 1 .. Len(ids) /\ ids[k] # ids[j]
      <4>1. \A k \in 1 .. (j - 1) : k \in 1 .. Len(ids)
        BY <3>2, <1>5
      <4>2. \A k \in 1 .. Len(ids) : own[k][1] = ids[k]
        BY <1>11
      <4> QED BY <4>1, <4>2, <3>1, <3>2, <1>4
    <3>4. own[j][2] = outer[ids[j]]
      BY <3>2, <3>3, <1>11
    <3> QED BY <3>1, <3>2, <3>4, <1>4
  <2> QED BY <2>1, <2>2
<1>16. ASSUME NEW j \in DOMAIN own
       PROVE /\ own[j][1] \in DOMAIN outer
             /\ \/ own[j][2] = outer[own[j][1]]
                \/ own[j][1] \in DOMAIN env0 /\ own[j][2] = env0[own[j][1]]
                \/ \E k \in 1 .. Len(ids) : ids[k] = own[j][1] /\ own[j][2] = base + k - 1
  BY <1>8, <1>10, <1>11
<1>17. SavedShape(env0, ids, base, outer, s)
  BY <1>1, <1>4, <1>13, <1>14, <1>15, <1>16 DEF SavedShape
<1> QED
  BY <1>2, <1>17

---------------------------------------------------------------------------
(* Calls *)

\* The identifiers of the names a closure binds, those a call has to touch first, and the cells
\* these get: the fresh ones after those of its own names.
OwnIds(f) == [j \in DOMAIN OwnNames(f.program.sig) |-> f.program.syms[OwnNames(f.program.sig)[j]]]
Lacking(f) == (DOMAIN f.env \cup Bound(OwnIds(f))) \ DOMAIN active
Fresh(f) == [i \in Lacking(f) |->
               next.cell + Len(OwnIds(f)) + Cardinality({k \in Lacking(f) : k < i})]
CalledFrame(f) ==
  [program |-> f.program, function |-> Last[2], env |-> CallEnv(f.env, OwnIds(f), next.cell),
   saved |-> CallSaved(f.env, OwnIds(f), Over(active, Fresh(f)), next.cell)]

\* Three sequences, the last one reversed.
Joined(a, b, c) == a \o b \o [k \in 1 .. Len(c) |-> c[Len(c) + 1 - k]]

LEMMA JoinedReversed ==
  ASSUME NEW T, NEW a \in Seq(T), NEW b \in Seq(T), NEW c \in Seq(T)
  PROVE  /\ Joined(a, b, c) \in Seq(T)
         /\ Len(Joined(a, b, c)) = Len(a) + Len(b) + Len(c)
<1>1. PICK v \in Seq(T) : v = [k \in 1 .. Len(c) |-> c[Len(c) + 1 - k]]
  BY ReversedTyped
<1>2. Len(v) = Len(c) /\ Len(a) \in Nat /\ Len(b) \in Nat /\ Len(c) \in Nat
  <2>1. DOMAIN v = 1 .. Len(c) /\ Len(c) \in Nat
    BY <1>1
  <2>2. DOMAIN v = 1 .. Len(v) /\ Len(v) \in Nat
    OBVIOUS
  <2> QED BY <2>1, <2>2
<1>3. PICK w : w = a \o b
  OBVIOUS
<1>4. /\ w \in Seq(T) /\ Len(w) = Len(a) + Len(b)
      /\ \A i \in 1 .. Len(a) + Len(b) : w[i] = IF i <= Len(a) THEN a[i] ELSE b[i - Len(a)]
  BY <1>3, ConcatProperties
<1>5. PICK o : o = w \o v
  OBVIOUS
<1>6. /\ o \in Seq(T) /\ Len(o) = Len(w) + Len(v)
      /\ \A i \in 1 .. Len(w) + Len(v) : o[i] = IF i <= Len(w) THEN w[i] ELSE v[i - Len(w)]
  <2>1. v \in Seq(T) /\ w \in Seq(T)
    BY <1>1, <1>4
  <2>2. /\ w \o v \in Seq(T) /\ Len(w \o v) = Len(w) + Len(v)
        /\ \A i \in 1 .. Len(w) + Len(v) : (w \o v)[i] = IF i <= Len(w) THEN w[i] ELSE v[i - Len(w)]
    BY <2>1, ConcatProperties
  <2> QED BY <2>2, <1>5, Zenon
<1>7. o = Joined(a, b, c)
  BY <1>1, <1>3, <1>5, Zenon DEF Joined
<1>8. o \in Seq(T) /\ Len(o) = Len(a) + Len(b) + Len(c)
  BY <1>2, <1>4, <1>6
<1> QED
  BY <1>7, <1>8, Zenon

LEMMA JoinedTyped ==
  ASSUME NEW T, NEW a \in Seq(T), NEW b \in Seq(T), NEW c \in Seq(T)
  PROVE  Joined(a, b, c) \in Seq(T)
BY JoinedReversed, Zenon

LEMMA JoinedLength ==
  ASSUME NEW T, NEW a \in Seq(T), NEW b \in Seq(T), NEW c \in Seq(T)
  PROVE  Len(Joined(a, b, c)) = Len(a) + Len(b) + Len(c)
BY JoinedReversed, SMT

LEMMA JoinedMiddle ==
  ASSUME NEW T, NEW a \in Seq(T), NEW b \in Seq(T), NEW c \in Seq(T), NEW r \in DOMAIN b
  PROVE  \E j \in DOMAIN Joined(a, b, c) : Joined(a, b, c)[j] = b[r]
<1>1. PICK v \in Seq(T) : v = [k \in 1 .. Len(c) |-> c[Len(c) + 1 - k]]
  BY ReversedTyped
<1>2. Len(v) = Len(c) /\ Len(a) \in Nat /\ Len(b) \in Nat /\ Len(c) \in Nat
  <2>1. DOMAIN v = 1 .. Len(c) /\ Len(c) \in Nat
    BY <1>1
  <2>2. DOMAIN v = 1 .. Len(v) /\ Len(v) \in Nat
    OBVIOUS
  <2> QED BY <2>1, <2>2
<1>3. PICK w : w = a \o b
  OBVIOUS
<1>4. /\ w \in Seq(T) /\ Len(w) = Len(a) + Len(b)
      /\ \A i \in 1 .. Len(a) + Len(b) : w[i] = IF i <= Len(a) THEN a[i] ELSE b[i - Len(a)]
  BY <1>3, ConcatProperties
<1>5. PICK o : o = w \o v
  OBVIOUS
<1>6. /\ o \in Seq(T) /\ Len(o) = Len(w) + Len(v)
      /\ \A i \in 1 .. Len(w) + Len(v) : o[i] = IF i <= Len(w) THEN w[i] ELSE v[i - Len(w)]
  <2>1. v \in Seq(T) /\ w \in Seq(T)
    BY <1>1, <1>4
  <2>2. /\ w \o v \in Seq(T) /\ Len(w \o v) = Len(w) + Len(v)
        /\ \A i \in 1 .. Len(w) + Len(v) : (w \o v)[i] = IF i <= Len(w) THEN w[i] ELSE v[i - Len(w)]
    BY <2>1, ConcatProperties
  <2> QED BY <2>2, <1>5, Zenon
<1>7. \E j \in DOMAIN o : o[j] = b[r]
  <2>1. r \in 1 .. Len(b)
    OBVIOUS
  <2>2. Len(a) + r \in 1 .. Len(w) + Len(v) /\ Len(a) + r \in 1 .. Len(a) + Len(b)
    BY <2>1, <1>2, <1>4
  <2>3. o[Len(a) + r] = w[Len(a) + r] /\ w[Len(a) + r] = b[r]
    BY <2>1, <2>2, <1>2, <1>4, <1>6
  <2>4. Len(a) + r \in DOMAIN o
    BY <2>2, <1>6
  <2> QED BY <2>3, <2>4
<1>8. o = Joined(a, b, c)
  BY <1>1, <1>3, <1>5, Zenon DEF Joined
<1> QED
  BY <1>7, <1>8, Zenon

LEMMA OwnNamesTyped ==
  ASSUME NEW sig \in Signatures \cup {NoSignature}
  PROVE  \E own \in Seq(Names) :
           /\ own = OwnNames(sig)
           /\ Len(own) = Len(sig.locals) + Len(sig.results) + Len(sig.args)
           /\ \A r \in DOMAIN sig.results : \E j \in DOMAIN own : own[j] = sig.results[r]
<1>1. sig.args \in Seq(Names) /\ sig.locals \in Seq(Names) /\ sig.results \in Seq(Names)
  BY SignatureTyped
<1>2. OwnNames(sig) = Joined(sig.locals, sig.results, sig.args)
  BY Zenon DEF OwnNames, Joined
<1>3. PICK o : o = Joined(sig.locals, sig.results, sig.args)
  OBVIOUS
<1>4. /\ o \in Seq(Names)
      /\ Len(o) = Len(sig.locals) + Len(sig.results) + Len(sig.args)
      /\ \A r \in DOMAIN sig.results : \E j \in DOMAIN o : o[j] = sig.results[r]
  <2>1. PICK a, b, c : a = sig.locals /\ b = sig.results /\ c = sig.args
    OBVIOUS
  <2>2. a \in Seq(Names) /\ b \in Seq(Names) /\ c \in Seq(Names) /\ o = Joined(a, b, c)
    BY <1>1, <1>3, <2>1
  <2>3. o \in Seq(Names)
    BY <2>2, JoinedTyped
  <2>4. Len(o) = Len(a) + Len(b) + Len(c)
    BY <2>2, JoinedLength
  <2>5. \A r \in DOMAIN b : \E j \in DOMAIN o : o[j] = b[r]
    BY <2>2, JoinedMiddle
  <2> QED BY <2>1, <2>3, <2>4, <2>5
<1> QED
  BY <1>2, <1>3, <1>4, Zenon

LEMMA OwnIdsTyped ==
  ASSUME NEW f \in Closure
  PROVE  /\ OwnIds(f) \in Seq(Identifier) /\ Len(OwnIds(f)) \in Nat
         /\ Len(OwnIds(f)) = Len(OwnNames(f.program.sig)) /\ Len(OwnIds(f)) >= Len(f.program.sig.args)
         /\ Bound(OwnIds(f)) \subseteq {f.program.syms[n] : n \in Names}
         /\ \A r \in DOMAIN f.program.sig.results : f.program.syms[f.program.sig.results[r]] \in Bound(OwnIds(f))
<1>1. PICK p \in Program : p = f.program
  BY ClosureTyped
<1>2. p.sig \in Signatures \cup {NoSignature} /\ p.syms \in [Names -> Identifier]
  BY ProgramTyped
<1>3. PICK own \in Seq(Names) :
        /\ own = OwnNames(p.sig) /\ Len(own) = Len(p.sig.locals) + Len(p.sig.results) + Len(p.sig.args)
        /\ \A r \in DOMAIN p.sig.results : \E j \in DOMAIN own : own[j] = p.sig.results[r]
  BY <1>2, OwnNamesTyped
<1>4. PICK ids : ids = OwnIds(f)
  OBVIOUS
<1>5. ids = [j \in DOMAIN own |-> p.syms[own[j]]]
  BY <1>1, <1>3, <1>4, Zenon DEF OwnIds
<1>6. \A j \in DOMAIN own : own[j] \in Names
  OBVIOUS
<1>7. ids = [j \in DOMAIN ids |-> ids[j]] /\ DOMAIN ids = DOMAIN own /\ \A j \in DOMAIN ids : ids[j] \in Identifier
  BY <1>2, <1>5, <1>6
<1>8. ids \in Seq(Identifier) /\ Len(ids) = Len(own)
  BY <1>7, SequenceMade
<1>9. Len(p.sig.locals) \in Nat /\ Len(p.sig.results) \in Nat /\ Len(p.sig.args) \in Nat
  BY <1>2, SignatureTyped
<1>10. Bound(ids) \subseteq {p.syms[n] : n \in Names}
  BY <1>5, <1>6, <1>7 DEF Bound
<1>11. \A r \in DOMAIN p.sig.results : p.syms[p.sig.results[r]] \in Bound(ids)
  BY <1>3, <1>5, <1>7 DEF Bound
<1>12. Len(own) \in Nat /\ Len(own) >= Len(p.sig.args)
  <2>1. PICK x \in Nat, y \in Nat, z \in Nat :
          x = Len(p.sig.locals) /\ y = Len(p.sig.results) /\ z = Len(p.sig.args)
    BY <1>9
  <2>2. Len(own) = x + y + z
    BY <1>3, <2>1, Zenon
  <2>3. Len(own) \in Nat /\ Len(own) >= z
    BY <2>2
  <2> QED BY <2>1, <2>3, Zenon
<1> HIDE DEF OwnNames
<1>13. own = OwnNames(f.program.sig) /\ Len(ids) = Len(own)
  BY <1>1, <1>3, <1>8, Zenon
<1> QED
  BY <1>1, <1>4, <1>8, <1>10, <1>11, <1>12, <1>13

\* What a call of the closure f does.
Calls(f) ==
  /\ InProgram /\ stack # <<>> /\ Last[1] = "function" /\ Len(frames) < MaxFrames
  /\ Len(stack) - 1 >= Len(f.program.sig.args)
  /\ next.cell + Len(OwnIds(f)) + Cardinality(Lacking(f)) - 1 <= MaxCell
  /\ active' = Over(CallEnv(f.env, OwnIds(f), next.cell), Over(active, Fresh(f)))
  /\ cells' = [c \in DOMAIN cells \cup (next.cell .. (next.cell + Len(OwnIds(f)) + Cardinality(Lacking(f)) - 1)) |->
                 IF c \in DOMAIN cells THEN cells[c]
                 ELSE IF c - next.cell + 1 \in (Len(OwnIds(f)) - Len(f.program.sig.args) + 1) .. Len(OwnIds(f))
                      THEN stack[(Len(stack) - 1) + 1
                                 - ((c - next.cell + 1) - (Len(OwnIds(f)) - Len(f.program.sig.args)))]
                      ELSE Undef]
  /\ frames' = Append(frames, CalledFrame(f))
  /\ entered' = Append([k \in DOMAIN entered |-> Over(entered[k], Fresh(f))], Over(active, Fresh(f)))
  /\ next' = [next EXCEPT !.cell = @ + Len(OwnIds(f)) + Cardinality(Lacking(f))]
  /\ stack' = SubSeq(stack, 1, (Len(stack) - 1) - Len(f.program.sig.args))
  /\ UNCHANGED <<record, protected, closures, faults>>

LEMMA CallIs ==
  ASSUME Call
  PROVE  Calls(closures[Last[2]])
BY Zenon DEF Call, Calls, OwnIds, Lacking, Fresh, CalledFrame, CallEnv, CallSaved


\* How many members of a set of numbers lie below one of them tells it from the others.
LEMMA Ranks ==
  ASSUME NEW S \in SUBSET Nat, IsFiniteSet(S), NEW x \in S
  PROVE  /\ Cardinality({k \in S : k < x}) \in Nat
         /\ Cardinality({k \in S : k < x}) < Cardinality(S)
         /\ \A y \in S : Cardinality({k \in S : k < x}) = Cardinality({k \in S : k < y}) => x = y
<1> DEFINE B(z) == {k \in S : k < z}
<1>1. ASSUME NEW z \in S PROVE IsFiniteSet(B(z)) /\ Cardinality(B(z)) \in Nat
  <2>1. B(z) \in SUBSET S
    OBVIOUS
  <2>2. IsFiniteSet(B(z))
    BY <2>1, FS_Subset
  <2> QED BY <2>2, FS_CardinalityType
<1>2. Cardinality(B(x)) < Cardinality(S)
  <2>1. B(x) \in SUBSET S /\ x \notin B(x)
    OBVIOUS
  <2>2. B(x) # S
    BY <2>1
  <2>3. Cardinality(B(x)) <= Cardinality(S) /\ (Cardinality(B(x)) = Cardinality(S) => S = B(x))
    BY <2>1, FS_Subset
  <2>4. Cardinality(S) \in Nat
    BY FS_CardinalityType
  <2> QED BY <2>2, <2>3, <2>4, <1>1
<1>3. ASSUME NEW y \in S, NEW z \in S, y < z PROVE Cardinality(B(y)) < Cardinality(B(z))
  <2>1. B(y) \in SUBSET B(z) /\ y \in B(z) /\ y \notin B(y)
    <3>1. y \in Nat /\ z \in Nat /\ \A k \in S : k \in Nat
      OBVIOUS
    <3>2. \A k \in S : k < y => k < z
      <4>1. ASSUME NEW k \in Nat, k < y PROVE k < z
        BY <3>1, <4>1, <1>3
      <4> QED BY <3>1, <4>1
    <3>3. ~(y < y)
      BY <3>1
    <3> QED BY <3>2, <3>3, <1>3, Zenon
  <2>2. B(y) # B(z)
    BY <2>1
  <2>3. Cardinality(B(y)) <= Cardinality(B(z)) /\ (Cardinality(B(y)) = Cardinality(B(z)) => B(z) = B(y))
    BY <2>1, <1>1, FS_Subset
  <2> QED BY <2>2, <2>3, <1>1
<1>4. ASSUME NEW y \in S, Cardinality(B(x)) = Cardinality(B(y)) PROVE x = y
  <2>1. ~(x < y) /\ ~(y < x)
    BY <1>1, <1>3, <1>4
  <2> QED BY <2>1
<1> QED
  BY <1>1, <1>2, <1>4

LEMMA FreshIs ==
  ASSUME TypeOK, NEW f \in Closure,
         next.cell + Len(OwnIds(f)) + Cardinality(Lacking(f)) - 1 <= MaxCell
  PROVE  /\ Lacking(f) \in SUBSET Identifier /\ Cardinality(Lacking(f)) \in Nat
         /\ Fresh(f) \in Environment /\ DOMAIN Fresh(f) = Lacking(f)
         /\ \A x \in Lacking(f) : /\ next.cell + Len(OwnIds(f)) <= Fresh(f)[x]
                                  /\ Fresh(f)[x] < next.cell + Len(OwnIds(f)) + Cardinality(Lacking(f))
         /\ \A x, y \in Lacking(f) : Fresh(f)[x] = Fresh(f)[y] => x = y
<1>1. PICK n \in Nat : n = Len(OwnIds(f))
  BY OwnIdsTyped
<1>2. PICK S : S = Lacking(f)
  OBVIOUS
<1>3. S \in SUBSET Identifier /\ S \in SUBSET Nat
  <2>1. Bound(OwnIds(f)) \subseteq Identifier
    <3>1. PICK ids \in Seq(Identifier) : ids = OwnIds(f)
      BY OwnIdsTyped
    <3>2. \A j \in DOMAIN ids : ids[j] \in Identifier
      OBVIOUS
    <3> QED BY <3>1, <3>2 DEF Bound
  <2>2. DOMAIN f.env \subseteq Identifier
    BY ClosureTyped, EnvironmentIs, Zenon
  <2>3. S \in SUBSET Identifier
    BY <2>1, <2>2, <1>2 DEF Lacking
  <2> QED BY <2>3 DEF Identifier
<1>4. IsFiniteSet(S) /\ Cardinality(S) \in Nat
  <2>1. MaxIdent \in Nat
    BY BoundsAssumption
  <2>2. IsFiniteSet(1 .. MaxIdent)
    BY <2>1, FS_Interval
  <2>3. IsFiniteSet(S)
    BY <2>2, <1>3, FS_Subset DEF Identifier
  <2> QED BY <2>3, FS_CardinalityType
<1>5. PICK u \in Nat : u = Cardinality(S)
  BY <1>4
<1>6. next.cell \in 1 .. MaxCell + 1 /\ MaxCell \in Nat /\ next.cell + n + u - 1 <= MaxCell
  <2>1. next.cell \in 1 .. MaxCell + 1 /\ MaxCell \in Nat
    BY Counters
  <2>2. next.cell + n + u - 1 <= MaxCell
    BY <1>1, <1>2, <1>5
  <2> QED BY <2>1, <2>2
<1>7. PICK g : g = Fresh(f)
  OBVIOUS
<1>8. g = [i \in S |-> next.cell + n + Cardinality({k \in S : k < i})]
  BY <1>1, <1>2, <1>7 DEF Fresh
<1>9. ASSUME NEW x \in S PROVE g[x] \in Int /\ next.cell + n <= g[x] /\ g[x] < next.cell + n + u
  <2>1. PICK r : r = Cardinality({k \in S : k < x})
    OBVIOUS
  <2>2. r \in Nat /\ r < u
    BY <2>1, <1>3, <1>4, <1>5, Ranks
  <2>3. g[x] = next.cell + n + r
    BY <2>1, <1>8
  <2> QED BY <2>2, <2>3, <1>6
<1>10. ASSUME NEW x \in S, NEW y \in S, g[x] = g[y] PROVE x = y
  <2>1. PICK r, t : r = Cardinality({k \in S : k < x}) /\ t = Cardinality({k \in S : k < y})
    OBVIOUS
  <2>2. r \in Nat /\ t \in Nat /\ (r = t => x = y)
    BY <2>1, <1>3, <1>4, Ranks
  <2>3. g[x] = next.cell + n + r /\ g[y] = next.cell + n + t
    BY <2>1, <1>8
  <2> QED BY <2>2, <2>3, <1>6, <1>10
<1>11. g \in Environment /\ DOMAIN g = S
  <2>1. g = [x \in DOMAIN g |-> g[x]] /\ DOMAIN g = S
    BY <1>8
  <2>2. \A x \in S : g[x] \in Cell
    BY <1>6, <1>9 DEF Cell
  <2>3. DOMAIN g \subseteq Identifier /\ \A x \in DOMAIN g : g[x] \in Cell
    BY <2>1, <2>2, <1>3
  <2>4. g \in Environment
    BY <2>1, <2>3, EnvironmentIs
  <2> QED BY <2>1, <2>4
<1> QED
  BY <1>1, <1>2, <1>3, <1>4, <1>5, <1>7, <1>9, <1>10, <1>11

\* Where the bindings of a call come from: those there were, or fresh cells for one identifier each.
Handed(f) == {<<i, Fresh(f)[i]>> : i \in Lacking(f)}
               \cup {<<OwnIds(f)[j], next.cell + j - 1>> : j \in 1 .. Len(OwnIds(f))}

LEMMA HandedIs ==
  ASSUME TypeOK, NEW f \in Closure,
         next.cell + Len(OwnIds(f)) + Cardinality(Lacking(f)) - 1 <= MaxCell
  PROVE  /\ \A i, c : <<i, c>> \in Handed(f) =>
              /\ i \in Identifier /\ i \in DOMAIN f.env \cup Bound(OwnIds(f))
              /\ c \in Int /\ next.cell <= c
              /\ c < next.cell + Len(OwnIds(f)) + Cardinality(Lacking(f))
         /\ \A i, j, c : <<i, c>> \in Handed(f) /\ <<j, c>> \in Handed(f) => i = j
<1>1. PICK ids, base, n, S, u, new :
        /\ ids = OwnIds(f) /\ base = next.cell /\ n = Len(ids)
        /\ S = Lacking(f) /\ u = Cardinality(S) /\ new = Fresh(f)
  OBVIOUS
<1>2. ids \in Seq(Identifier) /\ n \in Nat /\ DOMAIN ids = 1 .. n
  <2>1. ids \in Seq(Identifier) /\ n \in Nat
    BY <1>1, OwnIdsTyped
  <2> QED BY <2>1, <1>1
<1>3. /\ S \in SUBSET Identifier /\ u \in Nat /\ base + n + u - 1 <= MaxCell
      /\ (\A x \in S : base + n <= new[x] /\ new[x] < base + n + u /\ new[x] \in Int)
      /\ \A x, y \in S : new[x] = new[y] => x = y
  <2>1. /\ S \in SUBSET Identifier /\ u \in Nat /\ new \in Environment /\ DOMAIN new = S
        /\ (\A x \in S : base + n <= new[x] /\ new[x] < base + n + u)
        /\ \A x, y \in S : new[x] = new[y] => x = y
    BY <1>1, FreshIs
  <2>2. \A x \in S : new[x] \in Int
    <3>1. \A x \in DOMAIN new : new[x] \in Cell
      BY <2>1, EnvironmentIs, Zenon
    <3> QED BY <2>1, <3>1 DEF Cell
  <2>3. base + n + u - 1 <= MaxCell
    BY <1>1
  <2> QED BY <2>1, <2>2, <2>3
<1>4. base \in 1 .. MaxCell + 1 /\ MaxCell \in Nat
  BY <1>1, Counters
<1>5. PICK N : N = Handed(f)
  OBVIOUS
<1>6. N = {<<i, new[i]>> : i \in S} \cup {<<ids[j], base + j - 1>> : j \in 1 .. n}
  BY <1>1, <1>5 DEF Handed
<1>7. ASSUME NEW i, NEW c, <<i, c>> \in N
      PROVE  \/ i \in S /\ c = new[i]
             \/ \E j \in 1 .. n : i = ids[j] /\ c = base + j - 1
  BY <1>6, <1>7
<1>8. ASSUME NEW i, NEW c, <<i, c>> \in N
      PROVE  /\ i \in Identifier /\ i \in DOMAIN f.env \cup Bound(ids)
             /\ c \in Int /\ base <= c /\ c < base + n + u
  <2>1. CASE i \in S /\ c = new[i]
    <3>1. i \in DOMAIN f.env \cup Bound(ids)
      BY <2>1, <1>1 DEF Lacking
    <3>2. c \in Int /\ base <= c /\ c < base + n + u
      BY <2>1, <1>2, <1>3, <1>4
    <3> QED BY <3>1, <3>2, <2>1, <1>3
  <2>2. CASE \E j \in 1 .. n : i = ids[j] /\ c = base + j - 1
    <3>1. i \in Bound(ids) /\ i \in Identifier
      BY <2>2, <1>2 DEF Bound
    <3>2. c \in Int /\ base <= c /\ c < base + n + u
      BY <2>2, <1>2, <1>3, <1>4
    <3> QED BY <3>1, <3>2
  <2> QED BY <2>1, <2>2, <1>7, <1>8
<1>9. ASSUME NEW i, NEW j, NEW c, <<i, c>> \in N, <<j, c>> \in N PROVE i = j
  <2>1. \/ i \in S /\ c = new[i]
        \/ \E k \in 1 .. n : i = ids[k] /\ c = base + k - 1
    BY <1>7, <1>9
  <2>2. \/ j \in S /\ c = new[j]
        \/ \E k \in 1 .. n : j = ids[k] /\ c = base + k - 1
    BY <1>7, <1>9
  <2>3. CASE i \in S /\ c = new[i] /\ j \in S /\ c = new[j]
    BY <2>3, <1>3
  <2>4. CASE i \in S /\ c = new[i] /\ \E k \in 1 .. n : j = ids[k] /\ c = base + k - 1
    BY <2>4, <1>2, <1>3, <1>4
  <2>5. CASE j \in S /\ c = new[j] /\ \E k \in 1 .. n : i = ids[k] /\ c = base + k - 1
    BY <2>5, <1>2, <1>3, <1>4
  <2>6. CASE (\E k \in 1 .. n : i = ids[k] /\ c = base + k - 1) /\ \E k \in 1 .. n : j = ids[k] /\ c = base + k - 1
    BY <2>6, <1>2, <1>4
  <2> QED BY <2>1, <2>2, <2>3, <2>4, <2>5, <2>6
<1> QED
  BY <1>1, <1>5, <1>8, <1>9

LEMMA CallInv ==
  ASSUME Inv, Call
  PROVE  Inv' /\ \A c \in DOMAIN cells : c \in DOMAIN cells' /\ cells'[c] = cells[c]
<1>1. TypeOK
  BY DEF Inv
<1>2. Last[1] = "function" /\ stack # <<>> /\ Last[2] \in DOMAIN closures /\ Last \in Value
  <2>1. Last[1] = "function" /\ stack # <<>>
    BY Zenon DEF Call
  <2>2. ValueLive(Last) /\ Last \in Value
    BY <2>1, LastLive
  <2> QED BY <2>1, <2>2 DEF ValueLive
<1>3. PICK f \in Closure : f = closures[Last[2]]
  BY <1>1, <1>2 DEF TypeOK
<1>4. Calls(f)
  BY <1>3, CallIs, Zenon
<1>5. PICK ids, base, n, u, new, outer, env, fr :
        /\ ids = OwnIds(f) /\ base = next.cell /\ n = Len(ids) /\ u = Cardinality(Lacking(f)) /\ new = Fresh(f)
        /\ outer = Over(active, new) /\ env = CallEnv(f.env, ids, base) /\ fr = CalledFrame(f)
  OBVIOUS
<1>6. /\ InProgram /\ Len(frames) < MaxFrames /\ Len(stack) - 1 >= Len(f.program.sig.args)
      /\ base + n + u - 1 <= MaxCell
      /\ active' = Over(env, outer) /\ frames' = Append(frames, fr)
      /\ entered' = Append([k \in DOMAIN entered |-> Over(entered[k], new)], outer)
      /\ next' = [next EXCEPT !.cell = @ + n + u]
      /\ stack' = SubSeq(stack, 1, (Len(stack) - 1) - Len(f.program.sig.args))
      /\ UNCHANGED <<record, protected, closures, faults>>
  BY <1>4, <1>5, Zenon DEF Calls
<1>7. /\ cells' = [c \in DOMAIN cells \cup (base .. (base + n + u - 1)) |->
                 IF c \in DOMAIN cells THEN cells[c]
                 ELSE IF c - base + 1 \in (n - Len(f.program.sig.args) + 1) .. n
                      THEN stack[(Len(stack) - 1) + 1 - ((c - base + 1) - (n - Len(f.program.sig.args)))]
                      ELSE Undef]
  BY <1>4, <1>5, Zenon DEF Calls
<1>8. /\ ids \in Seq(Identifier) /\ n \in Nat /\ DOMAIN ids = 1 .. n /\ n >= Len(f.program.sig.args)
      /\ Bound(ids) \subseteq {f.program.syms[m] : m \in Names}
      /\ \A r \in DOMAIN f.program.sig.results : f.program.syms[f.program.sig.results[r]] \in Bound(ids)
  <2>1. /\ ids \in Seq(Identifier) /\ n \in Nat /\ n >= Len(f.program.sig.args)
        /\ Bound(ids) \subseteq {f.program.syms[m] : m \in Names}
        /\ \A r \in DOMAIN f.program.sig.results : f.program.syms[f.program.sig.results[r]] \in Bound(ids)
    BY <1>5, OwnIdsTyped
  <2> QED BY <2>1, <1>5
<1>9. /\ Lacking(f) \in SUBSET Identifier /\ u \in Nat
      /\ new \in Environment /\ DOMAIN new = Lacking(f)
  <2>1. next.cell + Len(OwnIds(f)) + Cardinality(Lacking(f)) - 1 <= MaxCell
    BY <1>5, <1>6
  <2> QED BY <2>1, <1>1, <1>5, FreshIs
<1>10. base \in 1 .. MaxCell + 1 /\ MaxCell \in Nat /\ base + n - 1 <= MaxCell
  <2>1. base \in 1 .. MaxCell + 1 /\ MaxCell \in Nat
    BY <1>1, <1>5, Counters
  <2> QED BY <2>1, <1>6, <1>8, <1>9
<1>11. PICK N : /\ N = Handed(f)
                /\ N = {<<i, new[i]>> : i \in Lacking(f)} \cup {<<ids[j], base + j - 1>> : j \in 1 .. n}
  BY <1>5 DEF Handed
<1>12. /\ \A i, c : <<i, c>> \in N => /\ i \in Identifier /\ i \in DOMAIN f.env \cup Bound(ids)
                                      /\ c \in Int /\ base <= c /\ c < base + n + u
       /\ \A i, j, c : <<i, c>> \in N /\ <<j, c>> \in N => i = j
  <2>1. next.cell + Len(OwnIds(f)) + Cardinality(Lacking(f)) - 1 <= MaxCell
    BY <1>5, <1>6
  <2> QED BY <2>1, <1>1, <1>5, <1>11, HandedIs
<1>13. f.env \in Environment /\ f.program \in Program
  BY ClosureTyped
<1>14. /\ outer \in Environment /\ DOMAIN outer = DOMAIN active \cup Lacking(f)
       /\ DOMAIN f.env \cup Bound(ids) \subseteq DOMAIN outer
       /\ \A i \in DOMAIN outer : \/ i \in DOMAIN active /\ outer[i] = active[i]
                                  \/ i \in DOMAIN new /\ outer[i] = new[i]
  <2>1. active \in Environment
    BY <1>1 DEF TypeOK
  <2>2. outer \in Environment
    BY <2>1, <1>5, <1>9, OverMaps DEF Environment
  <2>3. DOMAIN outer = DOMAIN active \cup DOMAIN new
        /\ \A i \in DOMAIN outer : \/ i \in DOMAIN active /\ outer[i] = active[i]
                                   \/ i \in DOMAIN new /\ outer[i] = new[i]
    BY <1>5 DEF Over
  <2>4. DOMAIN f.env \cup Bound(ids) \subseteq DOMAIN active \cup Lacking(f)
    BY <1>5 DEF Lacking
  <2> QED BY <2>2, <2>3, <2>4, <1>9
<1>15. /\ env \in Environment /\ DOMAIN env = DOMAIN f.env \cup Bound(ids)
       /\ \A i \in DOMAIN env : \/ i \in DOMAIN f.env /\ env[i] = f.env[i]
                                \/ \E j \in 1 .. n : ids[j] = i /\ env[i] = base + j - 1
  <2>1. CallShape(f.env, ids, base)
    BY <1>5, <1>8, <1>10, <1>13 DEF CallShape
  <2>2. EnvShape(f.env, ids, base, env)
    BY <2>1, <1>5, CallEnvIs, Zenon
  <2> QED BY <2>2, <1>5, Zenon DEF EnvShape
<1>16. /\ fr = [program |-> f.program, function |-> Last[2], env |-> env,
                saved |-> CallSaved(f.env, ids, outer, base)]
  BY <1>5, Zenon DEF CalledFrame
<1>17. /\ fr.program = f.program /\ fr.function = Last[2] /\ fr.env = env
       /\ fr.saved = CallSaved(f.env, ids, outer, base)
  BY <1>16
<1>18. /\ fr.saved \in Saved
       /\ Shadowed(fr.saved) = DOMAIN f.env \cup Bound(ids)
       /\ \A i \in Shadowed(fr.saved) : Remains(fr.saved, i) = outer[i]
       /\ fr.saved.captured = [i \in DOMAIN f.env |-> outer[i]]
       /\ \A j \in DOMAIN fr.saved.own :
              /\ fr.saved.own[j][1] \in DOMAIN outer
              /\ \/ fr.saved.own[j][2] = outer[fr.saved.own[j][1]]
                 \/ fr.saved.own[j][1] \in DOMAIN f.env /\ fr.saved.own[j][2] = f.env[fr.saved.own[j][1]]
                 \/ \E k \in 1 .. n : ids[k] = fr.saved.own[j][1] /\ fr.saved.own[j][2] = base + k - 1
  <2>1. CallShape(f.env, ids, base)
    BY <1>5, <1>8, <1>10, <1>13 DEF CallShape
  <2>2. CallCovers(f.env, ids, outer)
    BY <1>14 DEF CallCovers
  <2>3. SavedShape(f.env, ids, base, outer, fr.saved)
    BY <2>1, <2>2, <1>17, CallSavedIs, Zenon
  <2> QED BY <2>3, <1>5, Zenon DEF SavedShape
<1>19. fr \in Frame
  <2>1. Last[2] \in 0 .. MaxFn
    <3>1. Last[2] \in 1 .. MaxFn /\ MaxFn \in Nat
      BY <1>1, <1>2, BoundsAssumption DEF TypeOK
    <3> QED BY <3>1
  <2> QED BY <2>1, <1>13, <1>15, <1>16, <1>17, <1>18 DEF Frame
<1>20. /\ active' \in Environment /\ DOMAIN active' = DOMAIN outer
       /\ \A i \in DOMAIN active' : \/ i \in DOMAIN env /\ active'[i] = env[i]
                                    \/ i \notin DOMAIN env /\ active'[i] = outer[i]
  <2>1. active' \in Environment
    BY <1>6, <1>14, <1>15, OverMaps DEF Environment
  <2>2. DOMAIN active' = DOMAIN env \cup DOMAIN outer
        /\ \A i \in DOMAIN active' : \/ i \in DOMAIN env /\ active'[i] = env[i]
                                     \/ i \notin DOMAIN env /\ active'[i] = outer[i]
    BY <1>6 DEF Over
  <2> QED BY <2>1, <2>2, <1>14, <1>15
<1>21. PICK past : past = [k \in DOMAIN entered |-> Over(entered[k], new)]
  OBVIOUS
<1>22. past \in Seq(Environment) /\ Len(past) = Len(frames) /\ \A k \in DOMAIN frames : past[k] = Over(entered[k], new)
  <2>1. entered \in Seq(Environment) /\ Len(entered) = Len(frames) /\ DOMAIN entered = DOMAIN frames
        /\ \A k \in DOMAIN frames : entered[k] \in Environment
    BY <1>1, FramesTyped
  <2>2. past = [k \in DOMAIN past |-> past[k]] /\ DOMAIN past = DOMAIN entered
        /\ \A k \in DOMAIN past : past[k] = Over(entered[k], new)
    BY <1>21
  <2>3. \A k \in DOMAIN past : past[k] \in Environment
    BY <2>1, <2>2, <1>9, OverMaps DEF Environment
  <2>4. past \in Seq(Environment) /\ Len(past) = Len(entered)
    BY <2>1, <2>2, <2>3, SequenceMade
  <2> QED BY <2>1, <2>2, <2>4
<1>23. /\ frames \in Seq(Frame) /\ Len(frames) \in Nat /\ DOMAIN frames = 1 .. Len(frames)
       /\ frames' \in Seq(Frame) /\ Len(frames') = Len(frames) + 1 /\ frames'[Len(frames) + 1] = fr
       /\ \A k \in 1 .. Len(frames) : frames'[k] = frames[k]
  <2>1. frames \in Seq(Frame)
    BY <1>1 DEF TypeOK
  <2> QED BY <2>1, <1>6, <1>19
<1>24. /\ entered' \in Seq(Environment) /\ Len(entered') = Len(frames) + 1 /\ entered'[Len(frames) + 1] = outer
       /\ \A k \in 1 .. Len(frames) : entered'[k] = Over(entered[k], new)
  <2>1. entered' = Append(past, outer)
    BY <1>6, <1>21
  <2>2. /\ entered' \in Seq(Environment) /\ Len(entered') = Len(past) + 1 /\ entered'[Len(past) + 1] = outer
        /\ \A k \in 1 .. Len(past) : entered'[k] = past[k]
    BY <2>1, <1>14, <1>22
  <2> QED BY <2>2, <1>22, <1>23
<1>25. \A k \in DOMAIN frames' : (k \in DOMAIN frames /\ k \in 1 .. Len(frames)) \/ k = Len(frames) + 1
  BY <1>23
<1> base \in Nat /\ n \in Nat /\ u \in Nat /\ MaxCell \in Nat /\ base >= 1 /\ base + n + u <= MaxCell + 1
  <2>1. base \in Nat /\ n \in Nat /\ u \in Nat /\ MaxCell \in Nat /\ base >= 1
    BY <1>8, <1>9, <1>10
  <2>2. base + n + u - 1 <= MaxCell
    BY <1>6
  <2> QED BY <2>1, <2>2
<1>26. /\ next' \in [ident : 1 .. (MaxIdent + 1), cell : 1 .. (MaxCell + 1), fn : 1 .. (MaxFn + 1)]
       /\ next'.cell = base + n + u
  <2>1. next \in [ident : 1 .. (MaxIdent + 1), cell : 1 .. (MaxCell + 1), fn : 1 .. (MaxFn + 1)]
    BY <1>1 DEF TypeOK
  <2>2. next' = [ident |-> next.ident, cell |-> base + n + u, fn |-> next.fn]
    BY <2>1, <1>5, <1>6
  <2>3. base + n + u \in 1 .. MaxCell + 1
    OBVIOUS
  <2> QED BY <2>1, <2>2, <2>3
<1>27. PICK s \in Seq(Value), l \in Nat, a \in Nat :
         /\ s = stack /\ l = Len(s) /\ a = Len(f.program.sig.args) /\ l - 1 >= a /\ n >= a
         /\ \A k \in 1 .. l : s[k] \in Value /\ ValueLive(s[k])
         /\ \A m \in 0 .. l : /\ SubSeq(s, 1, m) \in Seq(Value)
                             /\ \A k \in DOMAIN SubSeq(s, 1, m) : ValueLive(SubSeq(s, 1, m)[k])
  <2>1. /\ stack \in Seq(Value) /\ \A k \in 1 .. Len(stack) : stack[k] \in Value /\ ValueLive(stack[k])
        /\ \A m \in 0 .. Len(stack) : /\ SubSeq(stack, 1, m) \in Seq(Value)
                                      /\ \A k \in DOMAIN SubSeq(stack, 1, m) : ValueLive(SubSeq(stack, 1, m)[k])
    BY StackLive
  <2>2. Len(stack) \in Nat /\ Len(f.program.sig.args) \in Nat
    <3>1. f.program.sig \in Signatures \cup {NoSignature}
      BY <1>13, ProgramTyped
    <3>2. f.program.sig.args \in Seq(Names)
      BY <3>1, SignatureTyped
    <3> QED BY <2>1, <3>2
  <2> QED BY <2>1, <2>2, <1>6, <1>8
<1>28. stack' \in Seq(Value) /\ \A k \in DOMAIN stack' : ValueLive(stack'[k])
  <2>1. stack' = SubSeq(s, 1, (l - 1) - a)
    BY <1>6, <1>27, Zenon
  <2>2. (l - 1) - a \in 0 .. l
    BY <1>27
  <2> QED BY <2>1, <2>2, <1>27, Zenon
<1>29. /\ cells' = [c \in DOMAIN cells' |-> cells'[c]] /\ DOMAIN cells' = DOMAIN cells \cup (base .. (base + n + u - 1))
       /\ \A c \in DOMAIN cells : cells'[c] = cells[c]
       /\ \A c \in DOMAIN cells' : \/ c \in DOMAIN cells
                                   \/ (\E k \in 1 .. l : cells'[c] = s[k])
                                   \/ cells'[c] = Undef
  <2>1. PICK b : b = cells'
    OBVIOUS
  <2>2. b = [c \in DOMAIN cells \cup (base .. (base + n + u - 1)) |->
               IF c \in DOMAIN cells THEN cells[c]
               ELSE IF c - base + 1 \in (n - a + 1) .. n
                    THEN s[(l - 1) + 1 - ((c - base + 1) - (n - a))]
                    ELSE Undef]
    BY <2>1, <1>7, <1>27, Zenon
  <2>3. /\ b = [c \in DOMAIN b |-> b[c]] /\ DOMAIN b = DOMAIN cells \cup (base .. (base + n + u - 1))
        /\ \A c \in DOMAIN cells : b[c] = cells[c]
    BY <2>2
  <2>4. ASSUME NEW c \in DOMAIN b, c \notin DOMAIN cells
        PROVE  (\E k \in 1 .. l : b[c] = s[k]) \/ b[c] = Undef
    <3>1. CASE c - base + 1 \in (n - a + 1) .. n
      <4>1. b[c] = s[(l - 1) + 1 - ((c - base + 1) - (n - a))]
        BY <2>2, <2>4, <3>1
      <4>2. c \in Int
        BY <2>3, <2>4, <1>8, <1>9, <1>10
      <4>3. (l - 1) + 1 - ((c - base + 1) - (n - a)) \in 1 .. l
        <5>1. PICK d \in Int : d = c - base + 1
          BY <4>2
        <5>2. l \in Nat /\ a \in Nat /\ l - 1 >= a /\ d \in (n - a + 1) .. n
          BY <3>1, <5>1, <1>27
        <5>3. (l - 1) + 1 - (d - (n - a)) \in 1 .. l
          BY <5>2
        <5> QED BY <5>1, <5>3
      <4> QED BY <4>1, <4>3
    <3>2. CASE c - base + 1 \notin (n - a + 1) .. n
      BY <2>2, <2>4, <3>2
    <3> QED BY <3>1, <3>2
  <2> QED BY <2>1, <2>3, <2>4
<1>30. /\ DOMAIN cells' \subseteq Cell
       /\ \A c \in DOMAIN cells' : cells'[c] \in Value /\ ValueLive(cells'[c])
  <2>1. DOMAIN cells \subseteq Cell /\ \A c \in DOMAIN cells : cells[c] \in Value
    BY <1>1, ValuesTyped
  <2>2. \A c \in DOMAIN cells : ValueLive(cells[c])
    BY DEF Inv, Live, ValuesLive
  <2>3. base .. (base + n + u - 1) \subseteq Cell
    BY DEF Cell
  <2>4. Undef \in Value /\ ValueLive(Undef)
    BY AtomsLive DEF Value, Atoms
  <2>5. \A k \in 1 .. l : s[k] \in Value /\ ValueLive(s[k])
    BY <1>27
  <2>6. DOMAIN cells' \subseteq Cell
    BY <2>1, <2>3, <1>29
  <2> HIDE DEF Undef
  <2>7. ASSUME NEW c \in DOMAIN cells' PROVE cells'[c] \in Value /\ ValueLive(cells'[c])
    <3>1. CASE c \in DOMAIN cells
      BY <3>1, <2>1, <2>2, <1>29
    <3>2. CASE \E k \in 1 .. l : cells'[c] = s[k]
      BY <3>2, <2>5
    <3>3. CASE cells'[c] = Undef
      BY <3>3, <2>4
    <3> QED BY <3>1, <3>2, <3>3, <1>29
  <2> QED BY <2>6, <2>7
<1>31. TypeOK'
  <2>1. record' \in [Names -> 0 .. MaxIdent] /\ protected' \in Maps(Identifier, 0 .. MaxCell)
        /\ closures' \in [DOMAIN closures' -> Closure] /\ DOMAIN closures' \subseteq 1 .. MaxFn
        /\ faults' \in 0 .. MaxFaults
    BY <1>1, <1>6 DEF TypeOK
  <2>2. cells' \in [DOMAIN cells' -> Value] /\ DOMAIN cells' \subseteq Cell
    BY <1>29, <1>30
  <2>3. frames' \in Seq(Frame) /\ Len(frames') <= MaxFrames
    BY <1>6, <1>23, BoundsAssumption
  <2>4. entered' \in Seq(Environment) /\ Len(entered') = Len(frames')
    BY <1>23, <1>24
  <2> QED BY <2>1, <2>2, <2>3, <2>4, <1>20, <1>26, <1>28 DEF TypeOK
<1>32. ASSUME NEW i \in Identifier, NEW c \in Cell, FrameBinds(fr, i, c) PROVE Binds(i, c) \/ <<i, c>> \in N
  <2>1. ASSUME i \in DOMAIN f.env, f.env[i] = c PROVE Binds(i, c)
    BY <2>1, <1>2, <1>3, Zenon DEF Binds
  <2>2. ASSUME i \in DOMAIN outer, outer[i] = c PROVE Binds(i, c) \/ <<i, c>> \in N
    <3>1. CASE i \in DOMAIN active /\ outer[i] = active[i]
      BY <3>1, <2>2 DEF Binds
    <3>2. CASE i \in DOMAIN new /\ outer[i] = new[i]
      BY <3>2, <2>2, <1>9, <1>11
    <3> QED BY <3>1, <3>2, <2>2, <1>14
  <2>3. ASSUME NEW j \in 1 .. n, ids[j] = i, c = base + j - 1 PROVE <<i, c>> \in N
    BY <2>3, <1>11
  <2>4. CASE i \in DOMAIN fr.env /\ fr.env[i] = c
    BY <2>1, <2>3, <2>4, <1>15, <1>17
  <2>5. CASE i \in DOMAIN fr.saved.captured /\ fr.saved.captured[i] = c
    <3>1. i \in DOMAIN f.env /\ outer[i] = c
      BY <2>5, <1>18
    <3> QED BY <3>1, <2>2, <1>14
  <2>6. CASE \E j \in DOMAIN fr.saved.own : fr.saved.own[j][1] = i /\ fr.saved.own[j][2] = c
    <3>1. PICK j \in DOMAIN fr.saved.own : fr.saved.own[j][1] = i /\ fr.saved.own[j][2] = c
      BY <2>6
    <3>2. /\ i \in DOMAIN outer
          /\ \/ c = outer[i]
             \/ i \in DOMAIN f.env /\ c = f.env[i]
             \/ \E k \in 1 .. n : ids[k] = i /\ c = base + k - 1
      BY <3>1, <1>18, Zenon
    <3> QED BY <3>2, <2>1, <2>2, <2>3
  <2> QED BY <2>4, <2>5, <2>6, <1>32 DEF FrameBinds
<1>33. ASSUME NEW i \in Identifier, NEW c \in Cell, Binds(i, c)' PROVE Binds(i, c) \/ <<i, c>> \in N
  <2>1. CASE i \in DOMAIN active' /\ active'[i] = c
    <3>1. CASE i \in DOMAIN env /\ active'[i] = env[i]
      <4>1. FrameBinds(fr, i, c)
        BY <2>1, <3>1, <1>17 DEF FrameBinds
      <4> QED BY <4>1, <1>32
    <3>2. CASE i \notin DOMAIN env /\ active'[i] = outer[i]
      <4>1. i \in DOMAIN outer /\ outer[i] = c
        BY <2>1, <3>2, <1>20
      <4>2. CASE i \in DOMAIN active /\ outer[i] = active[i]
        BY <4>1, <4>2 DEF Binds
      <4>3. CASE i \in DOMAIN new /\ outer[i] = new[i]
        BY <4>1, <4>3, <1>9, <1>11
      <4> QED BY <4>1, <4>2, <4>3, <1>14
    <3> QED BY <2>1, <3>1, <3>2, <1>20
  <2>2. CASE \E h \in DOMAIN closures' : i \in DOMAIN closures'[h].env /\ closures'[h].env[i] = c
    BY <2>2, <1>6 DEF Binds
  <2>3. CASE \E k \in DOMAIN frames' : FrameBinds(frames'[k], i, c)
    <3>1. PICK k \in DOMAIN frames' : FrameBinds(frames'[k], i, c)
      BY <2>3
    <3>2. CASE k \in DOMAIN frames /\ k \in 1 .. Len(frames)
      <4>1. frames'[k] = frames[k]
        BY <3>2, <1>23
      <4> QED BY <3>1, <3>2, <4>1, Zenon DEF Binds
    <3>3. CASE k = Len(frames) + 1
      <4>1. FrameBinds(fr, i, c)
        BY <3>1, <3>3, <1>23
      <4> QED BY <4>1, <1>32
    <3> QED BY <3>2, <3>3, <1>25
  <2> QED BY <2>1, <2>2, <2>3, <1>33 DEF Binds
<1>34. HandedOut' /\ OneOwner'
  <2>1. next.cell \in Nat /\ next'.cell \in Nat /\ next.cell <= next'.cell
    <3>1. base + n + u \in Nat /\ base <= base + n + u
      OBVIOUS
    <3> QED BY <3>1, <1>5, <1>26
  <2>2. \A i \in Identifier, c \in Cell : Claims(i, c)' => Claims(i, c) \/ <<i, c>> \in N
    <3>1. ASSUME NEW i \in Identifier, NEW c \in Cell, Claims(i, c)' PROVE Claims(i, c) \/ <<i, c>> \in N
      <4>1. CASE Binds(i, c)'
        BY <4>1, <1>33 DEF Claims
      <4>2. CASE Protects(i, c)'
        BY <4>2, <1>6 DEF Protects, Claims
      <4> QED BY <3>1, <4>1, <4>2 DEF Claims
    <3> QED BY <3>1
  <2>3. \A i \in Identifier, c \in Cell : <<i, c>> \in N => next.cell <= c /\ c < next'.cell
    BY <1>5, <1>12, <1>26
  <2>4. \A i, j \in Identifier, c \in Cell : <<i, c>> \in N /\ <<j, c>> \in N => i = j
    BY <1>12
  <2>5. HandedOut /\ OneOwner
    BY DEF Inv
  <2> QED BY <2>1, <2>2, <2>3, <2>4, <2>5, ClaimsGrow, Zenon
<1>35. DOMAIN f.env \cup Bound(ids) \subseteq DOMAIN protected
  <2>1. ASSUME NEW i \in DOMAIN f.env PROVE i \in DOMAIN protected
    <3>1. i \in Identifier /\ f.env[i] \in Cell
      BY <2>1, <1>13, EnvironmentIs, Zenon
    <3>2. Binds(i, f.env[i])
      BY <2>1, <1>2, <1>3, Zenon DEF Binds
    <3> QED BY <3>1, <3>2 DEF Inv, Live, BindingsLive
  <2>2. \A m \in Names : f.program.syms[m] \in DOMAIN protected
    BY <1>2, <1>3 DEF Inv, Live, ProgramsLive
  <2> QED BY <2>1, <2>2, <1>8
<1>36. Live'
  <2>1. NamesLive'
    BY <1>6 DEF Inv, Live, NamesLive
  <2>2. ASSUME NEW i \in Identifier, NEW c \in Cell, Binds(i, c)' PROVE i \in DOMAIN protected' /\ c \in DOMAIN cells'
    <3>1. CASE Binds(i, c)
      BY <3>1, <1>6, <1>29 DEF Inv, Live, BindingsLive
    <3>2. CASE <<i, c>> \in N
      <4>1. i \in DOMAIN f.env \cup Bound(ids) /\ c \in Int /\ base <= c /\ c < base + n + u
        BY <3>2, <1>12
      <4>2. c \in base .. (base + n + u - 1)
        BY <4>1
      <4> QED BY <4>1, <4>2, <1>6, <1>29, <1>35
    <3> QED BY <2>2, <3>1, <3>2, <1>33
  <2>3. BindingsLive'
    BY <2>2 DEF BindingsLive
  <2>4. \A v : ValueLive(v)' <=> ValueLive(v)
    BY <1>6 DEF ValueLive
  <2>5. ValuesLive'
    BY <2>4, <1>28, <1>30 DEF ValuesLive, ValueLive
  <2>6. ProgramsLive'
    <3>1. \A h \in DOMAIN closures : \A m \in Names : closures[h].program.syms[m] \in DOMAIN protected
      BY DEF Inv, Live, ProgramsLive
    <3>2. ASSUME NEW k \in DOMAIN frames'
          PROVE  /\ \A m \in Names : frames'[k].program.syms[m] \in DOMAIN protected
                 /\ frames'[k].function # 0 => frames'[k].function \in DOMAIN closures
      <4>1. CASE k \in DOMAIN frames /\ k \in 1 .. Len(frames)
        BY <4>1, <1>23 DEF Inv, Live, ProgramsLive
      <4>2. CASE k = Len(frames) + 1
        BY <4>2, <3>1, <1>2, <1>3, <1>17, <1>23
      <4> QED BY <4>1, <4>2, <1>25
    <3> QED BY <3>1, <3>2, <1>6 DEF ProgramsLive
  <2> QED BY <2>1, <2>3, <2>5, <2>6 DEF Live
<1>37. Restore(fr.saved, active') = outer
  <2>1. PICK r : r = Restore(fr.saved, active') /\ r = [i \in DOMAIN active' \cup Shadowed(fr.saved) |->
                                IF i \in Shadowed(fr.saved) THEN Remains(fr.saved, i) ELSE active'[i]]
    BY RestoreIs, Zenon
  <2>2. DOMAIN r = DOMAIN outer /\ r = [i \in DOMAIN r |-> r[i]]
    BY <2>1, <1>14, <1>18, <1>20
  <2>3. outer = [i \in DOMAIN outer |-> outer[i]]
    BY <1>14, EnvironmentIs, Zenon
  <2>4. ASSUME NEW i \in DOMAIN r PROVE r[i] = outer[i]
    <3>1. CASE i \in Shadowed(fr.saved)
      BY <3>1, <2>1, <1>18
    <3>2. CASE i \notin Shadowed(fr.saved)
      <4>1. i \notin DOMAIN env /\ i \in DOMAIN active'
        BY <3>2, <2>2, <1>15, <1>18, <1>20
      <4>2. r[i] = active'[i]
        BY <3>2, <2>1, <4>1
      <4> QED BY <4>1, <4>2, <1>20
    <3> QED BY <3>1, <3>2
  <2>5. r = outer
    BY <2>2, <2>3, <2>4
  <2> QED BY <2>1, <2>5
<1>38. RestoresCaller'
  <2>1. ASSUME NEW k \in DOMAIN frames'
        PROVE Restore(frames'[k].saved, IF k = Len(frames') THEN active' ELSE entered'[k + 1]) = entered'[k]
    <3>1. CASE k \in DOMAIN frames /\ k \in 1 .. Len(frames)
      <4>1. PICK m : m = IF k = Len(frames) THEN active ELSE entered[k + 1]
        OBVIOUS
      <4>2. (IF k = Len(frames') THEN active' ELSE entered'[k + 1]) = Over(m, new)
        <5>1. CASE k = Len(frames)
          BY <5>1, <4>1, <1>5, <1>23, <1>24
        <5>2. CASE k # Len(frames)
          <6>1. k + 1 \in 1 .. Len(frames) /\ k # Len(frames')
            BY <5>2, <3>1, <1>23
          <6> QED BY <6>1, <5>2, <4>1, <1>24
        <5> QED BY <5>1, <5>2
      <4>3. Restore(frames[k].saved, m) = entered[k]
        BY <3>1, <4>1 DEF Inv, RestoresCaller
      <4>4. Restore(frames[k].saved, Over(m, new)) = Over(entered[k], new)
        <5>1. Restore(frames[k].saved, Over(m, new)) = Over(Restore(frames[k].saved, m), new)
          BY RestoreOver
        <5> QED BY <5>1, <4>3, Zenon
      <4>5. frames'[k] = frames[k] /\ entered'[k] = Over(entered[k], new)
        BY <3>1, <1>23, <1>24
      <4> QED BY <4>2, <4>4, <4>5, Zenon
    <3>2. CASE k = Len(frames) + 1
      <4>1. frames'[k] = fr /\ entered'[k] = outer /\ k = Len(frames')
        BY <3>2, <1>23, <1>24
      <4> QED BY <4>1, <1>37, Zenon
    <3> QED BY <3>1, <3>2, <1>25
  <2> QED BY <2>1 DEF RestoresCaller
<1>39. ShadowedBound' /\ ResultsBound'
  <2>1. DOMAIN active \subseteq DOMAIN active'
    BY <1>14, <1>20
  <2>2. ASSUME NEW k \in DOMAIN frames'
        PROVE  /\ \A i \in Identifier : Saves(frames'[k], i) => i \in DOMAIN active'
               /\ \A r \in DOMAIN frames'[k].program.sig.results :
                    frames'[k].program.syms[frames'[k].program.sig.results[r]] \in DOMAIN active'
    <3>1. CASE k \in DOMAIN frames /\ k \in 1 .. Len(frames)
      BY <3>1, <2>1, <1>23 DEF Inv, ShadowedBound, ResultsBound
    <3>2. CASE k = Len(frames) + 1
      <4>1. \A i : Saves(fr, i) => i \in DOMAIN active'
        BY <1>14, <1>18, <1>20, SavesIs
      <4>2. \A r \in DOMAIN fr.program.sig.results : fr.program.syms[fr.program.sig.results[r]] \in DOMAIN active'
        BY <1>8, <1>14, <1>17, <1>20
      <4> QED BY <4>1, <4>2, <3>2, <1>23
    <3> QED BY <3>1, <3>2, <1>25
  <2> QED BY <2>2 DEF ShadowedBound, ResultsBound
<1> QED
  BY <1>29, <1>31, <1>34, <1>36, <1>38, <1>39 DEF Inv

---------------------------------------------------------------------------
(* The constructor *)

LEMMA InitInv ==
  ASSUME Init
  PROVE  Inv
<1> DEFINE num == CHOOSE g \in Numberings : TRUE
           R == {num[n] : n \in Resident}
<1>1. /\ record = [n \in Names |-> IF n \in Resident THEN num[n] ELSE 0]
      /\ protected = [i \in R |-> i] /\ active = [i \in R |-> i] /\ cells = [i \in R |-> Primitive]
      /\ next = [ident |-> Cardinality(Resident) + 1, cell |-> Cardinality(Resident) + 1, fn |-> 1]
      /\ closures = <<>> /\ frames = <<>> /\ stack = <<>> /\ faults = 0 /\ entered = <<>>
  BY Zenon DEF Init, InitOver
<1>2. /\ Cardinality(Resident) \in Nat
      /\ num \in [Resident -> 1 .. Cardinality(Resident)] /\ \A m, n \in Resident : num[m] = num[n] => m = n
  <2>1. IsFiniteSet(Resident)
    BY NamesAssumption, FS_Subset
  <2>2. 1 \in Nat
    OBVIOUS
  <2>3. /\ Cardinality(Resident) \in Nat
        /\ \E g \in [Resident -> 1 .. (1 + Cardinality(Resident) - 1)] : \A m, n \in Resident : g[m] = g[n] => m = n
    BY <2>1, <2>2, Numbered
  <2>4. 1 + Cardinality(Resident) - 1 = Cardinality(Resident)
    BY <2>3
  <2>5. \E g : g \in Numberings
    BY <2>3, <2>4, Zenon DEF Numberings
  <2>6. num \in Numberings
    BY <2>5, Zenon
  <2> QED BY <2>3, <2>6 DEF Numberings
<1> HIDE DEF num
<1>3. PICK u \in Nat : u = Cardinality(Resident) /\ u <= MaxIdent /\ u <= MaxCell
  BY <1>2, BoundsAssumption
<1>4. {MaxIdent, MaxCell, MaxFn, MaxFrames, MaxStack, MaxFaults} \subseteq Nat
  BY BoundsAssumption
<1>5. \A i \in R : i \in 1 .. u /\ i \in Identifier /\ i \in Cell /\ i # 0
  BY <1>2, <1>3, <1>4 DEF Identifier, Cell
<1> HIDE DEF R
<1>6. TypeOK
  <2>1. record \in [Names -> 0 .. MaxIdent]
    <3>1. \A n \in Resident : num[n] \in 0 .. MaxIdent
      BY <1>2, <1>3, <1>4
    <3> QED BY <3>1, <1>1, <1>4
  <2>2. protected \in Maps(Identifier, 0 .. MaxCell)
    <3>1. protected = [x \in DOMAIN protected |-> protected[x]] /\ DOMAIN protected \subseteq Identifier
      BY <1>1, <1>5
    <3>2. \A x \in DOMAIN protected : protected[x] \in 0 .. MaxCell
      BY <1>1, <1>5 DEF Cell
    <3> QED BY <3>1, <3>2, MapIs
  <2>3. active \in Environment
    <3>1. active = [x \in DOMAIN active |-> active[x]] /\ DOMAIN active \subseteq Identifier
          /\ \A x \in DOMAIN active : active[x] \in Cell
      BY <1>1, <1>5
    <3> QED BY <3>1, EnvironmentIs
  <2>4. cells \in [DOMAIN cells -> Value] /\ DOMAIN cells \subseteq Cell
    <3>1. Primitive \in Value
      BY DEF Value, Atoms
    <3> HIDE DEF Primitive
    <3> QED BY <3>1, <1>1, <1>5
  <2>5. closures \in [DOMAIN closures -> Closure] /\ DOMAIN closures \subseteq 1 .. MaxFn
    <3>1. PICK c : c = closures
      OBVIOUS
    <3>2. c = <<>>
      BY <3>1, <1>1
    <3>3. DOMAIN c = {} /\ c = [x \in DOMAIN c |-> c[x]]
      BY <3>2
    <3> QED BY <3>1, <3>3
  <2>6. frames \in Seq(Frame) /\ Len(frames) <= MaxFrames /\ stack \in Seq(Value) /\ faults \in 0 .. MaxFaults
        /\ entered \in Seq(Environment) /\ Len(entered) = Len(frames)
    BY <1>1, <1>4
  <2>7. next \in [ident : 1 .. (MaxIdent + 1), cell : 1 .. (MaxCell + 1), fn : 1 .. (MaxFn + 1)]
    <3>1. u + 1 \in 1 .. MaxIdent + 1 /\ u + 1 \in 1 .. MaxCell + 1 /\ 1 \in 1 .. MaxFn + 1
      BY <1>3, <1>4
    <3> QED BY <3>1, <1>1, <1>3
  <2> QED BY <2>1, <2>2, <2>3, <2>4, <2>5, <2>6, <2>7 DEF TypeOK
<1>7. DOMAIN closures = {} /\ DOMAIN frames = {} /\ DOMAIN stack = {}
  BY <1>1
<1>8. \A i, c : (Binds(i, c) => i \in R /\ c = i) /\ (Protects(i, c) => i \in R /\ c = i)
  BY <1>1, <1>7 DEF Binds, Protects
<1>9. HandedOut /\ OneOwner
  <2>1. \A i \in R : i < next.cell
    BY <1>1, <1>3, <1>5
  <2> QED BY <2>1, <1>8 DEF HandedOut, OneOwner, Claims
<1>10. Live
  <2>1. NamesLive
    BY <1>1 DEF NamesLive, R
  <2>2. BindingsLive
    BY <1>1, <1>8 DEF BindingsLive
  <2>3. ValuesLive
    <3>1. ValueLive(Primitive)
      BY AtomsLive DEF Atoms
    <3> HIDE DEF Primitive
    <3> QED BY <3>1, <1>1, <1>7 DEF ValuesLive
  <2>4. ProgramsLive
    BY <1>7 DEF ProgramsLive
  <2> QED BY <2>1, <2>2, <2>3, <2>4 DEF Live
<1>11. RestoresCaller /\ ShadowedBound /\ ResultsBound
  BY <1>7 DEF RestoresCaller, ShadowedBound, ResultsBound
<1> QED
  BY <1>6, <1>9, <1>10, <1>11 DEF Inv

---------------------------------------------------------------------------
(* What the invariant says of handles *)

LEMMA LiveMeans ==
  ASSUME Inv
  PROVE  NoHandleDangles
<1>1. TypeOK /\ NamesLive /\ BindingsLive /\ ValuesLive /\ ProgramsLive
  BY DEF Inv, Live
<1>2. \A f, i, c : f \in Environment /\ i \in DOMAIN f => i \in Identifier /\ f[i] \in Cell
  BY EnvironmentIs, Zenon
<1>3. /\ DOMAIN active \subseteq DOMAIN protected /\ Image(active) \subseteq DOMAIN cells
  <2>1. ASSUME NEW i \in DOMAIN active PROVE i \in DOMAIN protected /\ active[i] \in DOMAIN cells
    <3>1. i \in Identifier /\ active[i] \in Cell
      BY <1>1, ActiveTyped
    <3>2. Binds(i, active[i])
      BY DEF Binds
    <3> QED BY <3>1, <3>2, <1>1 DEF BindingsLive
  <2> QED BY <2>1 DEF Image
<1>4. ASSUME NEW v \in Image(stack) \cup Image(cells) PROVE ValueLive(v)
  BY <1>1, <1>4 DEF Image, ValuesLive
<1>5. ASSUME NEW h \in DOMAIN closures
      PROVE  /\ Image(closures[h].program.syms) \cup DOMAIN closures[h].env \subseteq DOMAIN protected
             /\ Image(closures[h].env) \subseteq DOMAIN cells
  <2>1. closures[h] \in Closure
    BY <1>1 DEF TypeOK
  <2>2. ASSUME NEW i \in DOMAIN closures[h].env
        PROVE  i \in DOMAIN protected /\ closures[h].env[i] \in DOMAIN cells
    <3>1. closures[h].env \in Environment
      BY <2>1, ClosureTyped
    <3>2. i \in Identifier /\ closures[h].env[i] \in Cell
      BY <3>1, EnvironmentIs, Zenon
    <3>3. Binds(i, closures[h].env[i])
      BY Zenon DEF Binds
    <3> QED BY <3>2, <3>3, <1>1 DEF BindingsLive
  <2>3. DOMAIN closures[h].program.syms = Names
    BY <2>1, ClosureTyped, ProgramTyped
  <2>4. \A n \in Names : closures[h].program.syms[n] \in DOMAIN protected
    BY <1>1 DEF ProgramsLive
  <2> QED BY <2>2, <2>3, <2>4 DEF Image
<1>6. ASSUME NEW k \in DOMAIN frames, NEW f, f = frames[k]
      PROVE  /\ f.function # 0 => f.function \in DOMAIN closures
             /\ Image(f.program.syms) \cup DOMAIN f.env \cup {i \in Identifier : Saves(f, i)}
                  \subseteq DOMAIN protected
             /\ Image(f.env) \cup Image(f.saved.captured)
                  \cup {f.saved.own[j][2] : j \in DOMAIN f.saved.own} \subseteq DOMAIN cells
  <2>1. f \in Frame
    BY <1>1, <1>6, FramesTyped
  <2>2. /\ f.program \in Program /\ f.env \in Environment
        /\ f.saved.captured \in Environment /\ f.saved.own \in Seq(Identifier \X Cell)
    BY <2>1, FrameTyped
  <2>3. \A i \in Identifier, c \in Cell : FrameBinds(f, i, c) => i \in DOMAIN protected /\ c \in DOMAIN cells
    BY <1>1, <1>6, Zenon DEF Binds, BindingsLive
  <2>4. ASSUME NEW i \in DOMAIN f.env PROVE i \in DOMAIN protected /\ f.env[i] \in DOMAIN cells
    <3>1. i \in Identifier /\ f.env[i] \in Cell
      BY <2>2, EnvironmentIs, Zenon
    <3>2. FrameBinds(f, i, f.env[i])
      BY DEF FrameBinds
    <3> QED BY <3>1, <3>2, <2>3
  <2>5. ASSUME NEW i \in DOMAIN f.saved.captured
        PROVE  i \in DOMAIN protected /\ f.saved.captured[i] \in DOMAIN cells
    <3>1. i \in Identifier /\ f.saved.captured[i] \in Cell
      BY <2>2, EnvironmentIs, Zenon
    <3>2. FrameBinds(f, i, f.saved.captured[i])
      BY DEF FrameBinds
    <3> QED BY <3>1, <3>2, <2>3
  <2>6. ASSUME NEW j \in DOMAIN f.saved.own
        PROVE  f.saved.own[j][1] \in DOMAIN protected /\ f.saved.own[j][2] \in DOMAIN cells
    <3>1. f.saved.own[j] \in Identifier \X Cell
      BY <2>2
    <3>2. f.saved.own[j][1] \in Identifier /\ f.saved.own[j][2] \in Cell
      BY <3>1
    <3>3. FrameBinds(f, f.saved.own[j][1], f.saved.own[j][2])
      BY Zenon DEF FrameBinds
    <3> QED BY <3>2, <3>3, <2>3
  <2>7. DOMAIN f.program.syms = Names
    BY <2>2, ProgramTyped
  <2>8. \A n \in Names : f.program.syms[n] \in DOMAIN protected
    BY <1>1, <1>6 DEF ProgramsLive
  <2>9. f.function # 0 => f.function \in DOMAIN closures
    BY <1>1, <1>6 DEF ProgramsLive
  <2>10. \A i : Saves(f, i) => i \in DOMAIN protected
    BY <2>5, <2>6 DEF Saves
  <2>11. Image(f.program.syms) \subseteq DOMAIN protected /\ Image(f.env) \subseteq DOMAIN cells
         /\ Image(f.saved.captured) \subseteq DOMAIN cells
    BY <2>4, <2>5, <2>7, <2>8 DEF Image
  <2> QED BY <2>4, <2>6, <2>9, <2>10, <2>11
<1>7. NoDangling
  <2>1. \A n \in Names : record[n] # 0 => record[n] \in DOMAIN protected
    BY <1>1 DEF NamesLive
  <2>2. \A v \in Image(stack) \cup Image(cells) :
          /\ v[1] = "function" => v[2] \in DOMAIN closures
          /\ v[1] = "reference" => v[2] \in DOMAIN protected
    BY <1>4 DEF ValueLive
  <2> QED BY <2>1, <2>2, <1>3, <1>5, <1>6, Zenon DEF NoDangling
<1> QED
  BY <1>1, <1>7 DEF NoHandleDangles

---------------------------------------------------------------------------
(* Every step keeps the invariant *)

LEMMA StutterInv ==
  ASSUME Inv, UNCHANGED vars
  PROVE  Inv'
<1>1. /\ record' = record /\ protected' = protected /\ active' = active /\ cells' = cells /\ closures' = closures
      /\ frames' = frames /\ stack' = stack /\ next' = next /\ faults' = faults /\ entered' = entered
  BY DEF vars
<1>2. TypeOK'
  BY <1>1 DEF Inv, TypeOK
<1>3. \A i, c : (Binds(i, c)' <=> Binds(i, c)) /\ (Claims(i, c)' <=> Claims(i, c))
  BY <1>1 DEF Binds, Claims, Protects
<1>4. Live'
  BY <1>1, <1>3 DEF Inv, Live, NamesLive, BindingsLive, ValuesLive, ValueLive, ProgramsLive
<1>5. RestoresCaller' /\ ShadowedBound' /\ ResultsBound'
  BY <1>1 DEF Inv, RestoresCaller, ShadowedBound, ResultsBound
<1>6. HandedOut' /\ OneOwner'
  BY <1>1, <1>3 DEF Inv, HandedOut, OneOwner
<1> QED
  BY <1>2, <1>4, <1>5, <1>6 DEF Inv

LEMMA NextInv ==
  ASSUME Inv, [Next]_vars
  PROVE  Inv'
<1>1. CASE Statement
  BY <1>1, StatementInv
<1>2. CASE Literal
  BY <1>2, LiteralInv
<1>3. CASE ReadReference
  BY <1>3, ReadReferenceInv
<1>4. CASE WriteReference
  BY <1>4, WriteReferenceInv
<1>5. CASE Call
  BY <1>5, CallInv
<1>6. CASE Return
  BY <1>6, ReturnInv
<1>7. CASE Fault
  BY <1>7, FaultInv
<1>8. CASE ReplaceSource
  BY <1>8, ReplaceSourceInv
<1>9. CASE Collect
  BY <1>9, CollectInv
<1>10. CASE \E n \in Names : Load(n) \/ Store(n) \/ Declare(n) \/ Loop(n) \/ RefOf(n) \/ Cancel(n)
  BY <1>10, LoadInv, StoreInv, DeclareInv, LoopInv, RefOfInv, CancelInv
<1>11. CASE \E sig \in Signatures : MakeClosure(sig)
  BY <1>11, MakeClosureInv
<1>12. CASE UNCHANGED vars
  BY <1>12, StutterInv
<1> QED
  BY <1>1, <1>2, <1>3, <1>4, <1>5, <1>6, <1>7, <1>8, <1>9, <1>10, <1>11, <1>12 DEF Next

\* Frames are left by a return, a replaced source or a fault only.
LEMMA NextLeaves ==
  ASSUME Inv, [Next]_vars
  PROVE  LeavesAsEntered
<1>1. frames \in Seq(Frame) /\ Len(frames) \in Nat
  BY FramesTyped DEF Inv
<1>2. ASSUME frames' = frames PROVE LeavesAsEntered
  BY <1>1, <1>2 DEF LeavesAsEntered
<1>3. ASSUME NEW f, frames' = Append(frames, f) PROVE LeavesAsEntered
  <2>1. Len(frames') = Len(frames) + 1
    BY <1>1, <1>3
  <2> QED BY <2>1, <1>1 DEF LeavesAsEntered
<1>4. CASE Statement \/ Call
  BY <1>3, <1>4, Zenon DEF Statement, Call
<1>5. CASE Return
  <2>1. active' = entered[Len(frames)]
    BY <1>5, ReturnInv
  <2>2. frames' = SubSeq(frames, 1, Len(frames) - 1) /\ InProgram
    BY <1>5 DEF Return
  <2>3. Len(frames) > 0
    BY <2>2, TopTyped DEF Inv
  <2>4. Len(frames') + 1 = Len(frames)
    <3>1. PICK s \in Seq(Frame), n \in Nat : s = frames /\ n = Len(s) - 1
      BY <2>3, <1>1
    <3>2. Len(SubSeq(s, 1, n)) = n
      BY <3>1
    <3> QED BY <3>1, <3>2, <2>2, <1>1
  <2> QED BY <2>1, <2>4 DEF LeavesAsEntered
<1>6. CASE ReplaceSource
  <2>1. active' = entered[1]
    BY <1>6, ReplaceSourceInv
  <2>2. frames' = <<>>
    BY <1>6 DEF ReplaceSource
  <2>3. Len(frames') + 1 = 1
    BY <2>2
  <2> QED BY <2>1, <2>3 DEF LeavesAsEntered
<1>7. CASE Fault
  <2>1. faults' = faults + 1 /\ faults \in Nat
    BY <1>7 DEF Fault, Inv, TypeOK
  <2>2. faults' # faults
    BY <2>1
  <2> QED BY <2>2 DEF LeavesAsEntered
<1>8. CASE Literal \/ ReadReference \/ WriteReference \/ Collect
  BY <1>2, <1>8 DEF Literal, ReadReference, WriteReference, Collect
<1>9. CASE \E n \in Names : Load(n) \/ Store(n) \/ Declare(n) \/ Loop(n) \/ RefOf(n) \/ Cancel(n)
  <2>1. frames' = frames
    BY <1>9, Zenon DEF Load, Store, Declare, Loop, RefOf, Cancel
  <2> QED BY <2>1, <1>2
<1>10. CASE \E sig \in Signatures : MakeClosure(sig)
  BY <1>2, <1>10 DEF MakeClosure
<1>11. CASE UNCHANGED vars
  BY <1>2, <1>11 DEF vars
<1> QED
  BY <1>4, <1>5, <1>6, <1>7, <1>8, <1>9, <1>10, <1>11 DEF Next

---------------------------------------------------------------------------
(* Protected cells *)

\* A cell protected for an identifier is no fresh one.
LEMMA ProtectedOld ==
  ASSUME Inv, NEW i \in DOMAIN protected, protected[i] # 0
  PROVE  /\ i \in Identifier /\ protected[i] \in Cell /\ protected[i] # next.cell
         /\ \A j \in DOMAIN active : active[j] = protected[i] => j = i
<1>1. i \in Identifier /\ protected[i] \in Cell /\ MaxCell \in Nat
  <2>1. i \in Identifier /\ protected[i] \in 0 .. MaxCell
    BY ProtectedTyped DEF Inv
  <2> QED BY <2>1, BoundsAssumption DEF Cell
<1>2. Claims(i, protected[i])
  BY DEF Claims, Protects
<1>3. protected[i] < next.cell
  BY <1>1, <1>2 DEF Inv, HandedOut
<1>4. next.cell \in Nat /\ protected[i] \in Nat
  <2>1. next.cell \in 1 .. MaxCell + 1
    BY Counters DEF Inv
  <2> QED BY <2>1, <1>1 DEF Cell
<1>5. ASSUME NEW j \in DOMAIN active, active[j] = protected[i] PROVE j = i
  <2>1. j \in Identifier
    BY ActiveTyped DEF Inv
  <2>2. Claims(j, protected[i])
    BY <1>5 DEF Claims, Binds
  <2> QED BY <2>1, <2>2, <1>1, <1>2 DEF Inv, OneOwner
<1> QED
  BY <1>1, <1>3, <1>4, <1>5

\* Giving an identifier a cell leaves the protected ones alone; so does an assignment.
LEMMA TouchKeeps ==
  ASSUME Inv, NEW j \in Identifier, Touch(j), NEW i \in DOMAIN protected, protected[i] # 0,
         protected[i] \in DOMAIN TouchedCells(j)
  PROVE  TouchedCells(j)[protected[i]] = cells[protected[i]]
<1>1. TypeOK /\ ValuesLive
  BY DEF Inv, Live
<1>2. PICK new : /\ new \in Environment /\ DOMAIN new = {j} \ DOMAIN active
           /\ (\A x \in DOMAIN new : new[x] = next.cell)
           /\ active' = Over(active, new)
           /\ entered' = [k \in DOMAIN entered |-> Over(entered[k], new)]
           /\ DOMAIN TouchedCells(j) = DOMAIN cells \cup {new[x] : x \in DOMAIN new}
           /\ next' \in [ident : 1 .. (MaxIdent + 1), cell : 1 .. (MaxCell + 1), fn : 1 .. (MaxFn + 1)]
           /\ next'.cell = next.cell + (IF j \in DOMAIN active THEN 0 ELSE 1)
  BY <1>1, Touched
<1>3. protected[i] # next.cell
  BY ProtectedOld
<1>4. protected[i] \in DOMAIN cells
  BY <1>2, <1>3
<1>5. next.cell \in Cell \/ j \in DOMAIN active
  BY <1>1, TouchRoom
<1>6. \A c \in DOMAIN cells : TouchedCells(j)[c] = cells[c]
  BY <1>1, <1>5, TouchedValues
<1> QED
  BY <1>4, <1>6

LEMMA AssignKeeps ==
  ASSUME Inv, NEW j \in Identifier, NEW v, Assign(j, v), NEW i \in DOMAIN protected, protected[i] # 0,
         protected[i] \in DOMAIN cells'
  PROVE  cells'[protected[i]] = cells[protected[i]]
<1>1. ~ProtectedBinding(j) /\ Touch(j) /\ cells' = [TouchedCells(j) EXCEPT ![CellOf(j)] = v]
  BY Zenon DEF Assign
<1>2. PICK t, c : t = TouchedCells(j) /\ c = CellOf(j)
  OBVIOUS
<1>3. cells' = [t EXCEPT ![c] = v]
  BY <1>1, <1>2
<1>4. DOMAIN cells' = DOMAIN t /\ \A d \in DOMAIN t : d # c => cells'[d] = t[d]
  BY <1>3
<1>5. c # protected[i]
  <2>1. ASSUME c = protected[i] PROVE FALSE
    <3>1. j \in DOMAIN active /\ active[j] = protected[i]
      BY <2>1, <1>2, ProtectedOld DEF CellOf
    <3>2. j = i
      BY <3>1, ProtectedOld
    <3> QED BY <3>2, <2>1, <1>1, <1>2 DEF ProtectedBinding
  <2> QED BY <2>1
<1>6. t[protected[i]] = cells[protected[i]]
  BY <1>1, <1>2, <1>4, TouchKeeps
<1> QED
  BY <1>4, <1>5, <1>6

LEMMA NextProtects ==
  ASSUME Inv, [Next]_vars, NEW i \in DOMAIN protected, protected[i] # 0, protected[i] \in DOMAIN cells',
         cells'[protected[i]] # cells[protected[i]]
  PROVE  \E n \in Names : Loop(n)
<1>1. ASSUME cells' = cells PROVE FALSE
  BY <1>1
<1>2. ASSUME NEW j \in Identifier, Touch(j), cells' = TouchedCells(j) PROVE FALSE
  <2>1. protected[i] \in DOMAIN TouchedCells(j)
    BY <1>2
  <2>2. TouchedCells(j)[protected[i]] = cells[protected[i]]
    BY <2>1, <1>2, TouchKeeps
  <2> QED BY <2>2, <1>2
<1>3. ASSUME NEW j \in Identifier, NEW v, Assign(j, v) PROVE FALSE
  BY <1>3, AssignKeeps
<1>4. ~Statement /\ ~Literal /\ ~Return /\ ~Fault /\ ~ReplaceSource
      /\ ~UNCHANGED vars /\ (\A n \in Names : ~Cancel(n)) /\ \A sig \in Signatures : ~MakeClosure(sig)
  BY <1>1 DEF Statement, Literal, Return, Fault, ReplaceSource, Cancel, MakeClosure, vars
<1>5. CASE Collect
  BY <1>5, CollectInv
<1>6. CASE Call
  <2>1. protected[i] \in DOMAIN cells
    <3>1. TypeOK
      BY DEF Inv
    <3>2. stack # <<>> /\ Last[1] = "function"
      BY <1>6, Zenon DEF Call
    <3>3. Last[2] \in DOMAIN closures
      BY <3>2, LastLive DEF ValueLive
    <3>4. PICK f \in Closure : f = closures[Last[2]]
      BY <3>1, <3>3 DEF TypeOK
    <3>5. Calls(f)
      BY <1>6, <3>4, CallIs, Zenon
    <3>6. PICK b : b = next.cell + Len(OwnIds(f)) + Cardinality(Lacking(f)) - 1
      OBVIOUS
    <3>7. DOMAIN cells' = DOMAIN cells \cup (next.cell .. b)
      BY <3>5, <3>6, Zenon DEF Calls
    <3>8. protected[i] \in Cell /\ protected[i] < next.cell
      <4>1. i \in Identifier /\ protected[i] \in Cell
        BY ProtectedOld
      <4>2. Claims(i, protected[i])
        BY DEF Claims, Protects
      <4> QED BY <4>1, <4>2 DEF Inv, HandedOut
    <3>9. next.cell \in Int
      BY <3>1, Counters
    <3>10. b \in Int
      <4>1. /\ next.cell + Len(OwnIds(f)) + Cardinality(Lacking(f)) - 1 <= MaxCell
        BY <3>5, Zenon DEF Calls
      <4>2. Cardinality(Lacking(f)) \in Nat
        BY <3>1, <4>1, FreshIs
      <4>3. Len(OwnIds(f)) \in Nat
        BY OwnIdsTyped
      <4> QED BY <4>2, <4>3, <3>6, <3>9
    <3>11. protected[i] \notin next.cell .. b
      BY <3>8, <3>9, <3>10 DEF Cell
    <3> QED BY <3>7, <3>11
  <2>2. cells'[protected[i]] = cells[protected[i]]
    BY <2>1, <1>6, CallInv
  <2> QED BY <2>2
<1>7. CASE ReadReference
  <2>1. stack # <<>> /\ Last[1] = "reference" /\ Touch(Last[2]) /\ cells' = TouchedCells(Last[2])
    BY <1>7 DEF ReadReference
  <2>2. Last[2] \in Identifier
    BY <2>1, ReferenceLive
  <2> QED BY <2>1, <2>2, <1>2
<1>8. CASE WriteReference
  <2>1. Last[1] = "reference" /\ Assign(Last[2], stack[Len(stack) - 1]) /\ Len(stack) >= 2
    BY <1>8 DEF WriteReference
  <2>2. stack # <<>>
    BY <2>1
  <2>3. Last[2] \in Identifier
    BY <2>1, <2>2, ReferenceLive
  <2> QED BY <2>1, <2>3, <1>3
<1>9. ASSUME NEW n \in Names, Load(n) PROVE FALSE
  <2>1. InProgram /\ Touch(Top.program.syms[n]) /\ cells' = TouchedCells(Top.program.syms[n])
    BY <1>9 DEF Load
  <2>2. Top.program.syms[n] \in Identifier
    BY <2>1, SymbolLive
  <2> QED BY <2>1, <2>2, <1>2
<1>10. ASSUME NEW n \in Names, Declare(n) PROVE FALSE
  <2>1. InProgram /\ Touch(Top.program.syms[n]) /\ cells' = TouchedCells(Top.program.syms[n])
    BY <1>10 DEF Declare
  <2>2. Top.program.syms[n] \in Identifier
    BY <2>1, SymbolLive
  <2> QED BY <2>1, <2>2, <1>2
<1>11. ASSUME NEW n \in Names, Store(n) PROVE FALSE
  <2>1. InProgram /\ Assign(Top.program.syms[n], Last)
    BY <1>11 DEF Store
  <2>2. Top.program.syms[n] \in Identifier
    BY <2>1, SymbolLive
  <2> QED BY <2>1, <2>2, <1>3
<1>12. ASSUME NEW n \in Names, RefOf(n) PROVE FALSE
  <2>1. record[n] # 0 /\ Touch(record[n]) /\ cells' = TouchedCells(record[n])
    BY <1>12 DEF RefOf
  <2>2. record[n] \in DOMAIN protected
    BY <2>1 DEF Inv, Live, NamesLive
  <2>3. record[n] \in Identifier
    BY <2>2, ProtectedTyped DEF Inv
  <2> QED BY <2>1, <2>3, <1>2
<1> QED
  BY <1>4, <1>5, <1>6, <1>7, <1>8, <1>9, <1>10, <1>11, <1>12 DEF Next

---------------------------------------------------------------------------
(* The theorems *)

\* The handles, the shadowed bindings and the owners of the cells are always as the invariant
\* says, whatever the programs do (standalone/src/runtime.cpp).
THEOREM BindingsInvariant == Spec => []Inv
<1>1. Init => Inv
  BY InitInv
<1>2. Inv /\ [Next]_vars => Inv'
  BY NextInv
<1> QED
  BY <1>1, <1>2, PTL DEF Spec

\* No handle an instruction may follow is ever dead: not after any collection, cancellation,
\* fault or unwinding (collect, binding, call).
THEOREM HandlesLive == Spec => []NoHandleDangles
<1>1. Inv => NoHandleDangles
  BY LiveMeans
<1> QED
  BY <1>1, BindingsInvariant, PTL

\* A frame always gives its caller back the bindings it was entered with, one frame at a time at
\* their ends and all at once when the source is replaced (call, the end of a frame, unwind(true)).
THEOREM CallersGetBindingsBack == Spec => BindingsRestored
<1>1. Inv /\ [Next]_vars => [RestoresCaller' /\ LeavesAsEntered]_vars
  <2>1. ASSUME Inv, [Next]_vars PROVE RestoresCaller' /\ LeavesAsEntered
    <3>1. Inv'
      BY <2>1, NextInv
    <3>2. LeavesAsEntered
      BY <2>1, NextLeaves
    <3> QED BY <3>1, <3>2 DEF Inv
  <2> QED BY <2>1
<1> QED
  BY <1>1, BindingsInvariant, PTL DEF Spec, BindingsRestored

\* No assignment, reference, declaration, call or collection changes what a protected identifier's
\* cell holds; only a FORALL loop does (assign, bind).
THEOREM OnlyLoopsWriteProtected == Spec => ProtectedByAssignment
<1> DEFINE Kept == \A i \in DOMAIN protected :
                     protected[i] # 0 /\ protected[i] \in DOMAIN cells' /\ cells'[protected[i]] # cells[protected[i]]
                       => \E n \in Names : Loop(n)
<1>1. Inv /\ [Next]_vars => [Kept]_vars
  <2>1. ASSUME Inv, [Next]_vars PROVE Kept
    BY <2>1, NextProtects
  <2> QED BY <2>1
<1> QED
  BY <1>1, BindingsInvariant, PTL DEF Spec, ProtectedByAssignment
=============================================================================
