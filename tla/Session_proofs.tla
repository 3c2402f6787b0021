---------------------------- MODULE Session_proofs -----------------------------
(* Theorems about source sessions, for every text, nested text and ERRFUN.   *)
EXTENDS Session, OrderFacts, SequenceTheorems

TextToken == [kind : Kinds \cup {"bad"}, line : Nat, id : Nat \X {0}]

TypeInv == TypeOK /\ text \in Seq(TextToken) /\ sessions \in Nat

---------------------------------------------------------------------------
(* What is left of a sequence *)

LEMMA SubSeqTyped ==
  ASSUME NEW T, NEW q \in Seq(T), NEW m \in 1 .. Len(q) + 1, NEW n \in 0 .. Len(q)
  PROVE  /\ SubSeq(q, m, n) \in Seq(T)
         /\ Len(SubSeq(q, m, n)) = IF m <= n THEN n - m + 1 ELSE 0
         /\ \A i \in 1 .. Len(SubSeq(q, m, n)) : SubSeq(q, m, n)[i] = q[m + i - 1]
<1>1. ASSUME NEW i \in m .. n PROVE q[i] \in T
  OBVIOUS
<1> QED
  BY <1>1, SubSeqProperties

LEMMA SkipLineTyped ==
  ASSUME NEW q \in Seq(Token)
  PROVE  /\ SkipLine(q) \in Seq(Token)
         /\ \E d \in Nat : \A i \in DOMAIN SkipLine(q) : i + d \in DOMAIN q /\ SkipLine(q)[i] = q[i + d]
<1> DEFINE same == {n \in 1..Len(q) : \A k \in 1..n : q[k].line = q[1].line}
<1>1. CASE q = <<>>
  <2>1. SkipLine(q) = q /\ DOMAIN q = {}
    BY <1>1 DEF SkipLine
  <2> QED BY <2>1
<1>2. CASE q # <<>>
  <2>1. IsFiniteSet(1 .. Len(q)) /\ Cardinality(1 .. Len(q)) = Len(q) /\ Len(q) \in Nat
    <3>1. Len(q) \in Nat /\ Len(q) >= 1
      BY <1>2
    <3> QED BY <3>1, FS_Interval
  <2>2. same \subseteq 1 .. Len(q)
    OBVIOUS
  <2>3. Cardinality(same) \in Nat /\ Cardinality(same) <= Len(q)
    <3> HIDE DEF same
    <3> QED BY <2>1, <2>2, FS_Subset, FS_CardinalityType
  <2>4. PICK d \in Nat : d <= Len(q) /\ SkipLine(q) = SubSeq(q, d + 1, Len(q))
    BY <1>2, <2>3 DEF SkipLine
  <2> HIDE DEF same
  <2>5. PICK s : s = SkipLine(q)
    OBVIOUS
  <2>6. s \in Seq(Token) /\ Len(s) = Len(q) - d /\ \A i \in 1 .. Len(s) : s[i] = q[i + d]
    <3>1. d + 1 \in 1 .. Len(q) + 1 /\ Len(q) \in 0 .. Len(q)
      BY <2>1, <2>4
    <3>2. /\ SubSeq(q, d + 1, Len(q)) \in Seq(Token)
          /\ Len(SubSeq(q, d + 1, Len(q))) = IF d + 1 <= Len(q) THEN Len(q) - (d + 1) + 1 ELSE 0
          /\ \A i \in 1 .. Len(SubSeq(q, d + 1, Len(q))) : SubSeq(q, d + 1, Len(q))[i] = q[(d + 1) + i - 1]
      BY <3>1, SubSeqTyped
    <3>3. /\ s \in Seq(Token)
          /\ Len(s) = IF d + 1 <= Len(q) THEN Len(q) - (d + 1) + 1 ELSE 0
          /\ \A i \in 1 .. Len(s) : s[i] = q[(d + 1) + i - 1]
      BY <2>4, <2>5, <3>2
    <3>4. \A i \in Nat : (d + 1) + i - 1 = i + d
      OBVIOUS
    <3> QED BY <2>1, <2>4, <3>3, <3>4
  <2>7. DOMAIN s = 1 .. Len(s) /\ DOMAIN q = 1 .. Len(q)
    BY <2>6
  <2>8. \A i \in DOMAIN s : i + d \in DOMAIN q /\ s[i] = q[i + d]
    BY <2>1, <2>6, <2>7
  <2> QED BY <2>5, <2>6, <2>8
<1> QED
  BY <1>1, <1>2

\* The tokens before the first malformed byte have no malformed one among them.
LEMMA LexedTyped ==
  ASSUME NEW q \in Seq(TextToken)
  PROVE  /\ Lexed(q) \in Seq(Token)
         /\ \A i \in DOMAIN Lexed(q) : i \in DOMAIN q /\ Lexed(q)[i] = q[i]
<1>1. \A k \in DOMAIN q : k \notin Bad(q) => q[k] \in Token
  <2> SUFFICES ASSUME NEW k \in DOMAIN q, k \notin Bad(q) PROVE q[k] \in Token
    OBVIOUS
  <2>1. q[k] \in TextToken /\ q[k].kind # "bad"
    BY DEF Bad
  <2> QED BY <2>1 DEF TextToken, Token, Id
<1>2. CASE Bad(q) = {}
  BY <1>1, <1>2 DEF Lexed
<1>3. CASE Bad(q) # {}
  <2> DEFINE first == CHOOSE k \in Bad(q) : \A j \in Bad(q) : k <= j
  <2>1. Bad(q) \in SUBSET Nat
    BY DEF Bad
  <2>2. first \in Bad(q) /\ \A j \in Bad(q) : first <= j
    BY <1>3, <2>1, LeastNatural
  <2>3. Lexed(q) = SubSeq(q, 1, first - 1)
    BY <1>3 DEF Lexed
  <2> HIDE DEF first
  <2>4. first \in 1 .. Len(q)
    BY <2>2 DEF Bad
  <2>5. PICK s : s = Lexed(q)
    OBVIOUS
  <2>6. s \in Seq(TextToken) /\ Len(s) = first - 1 /\ \A i \in 1 .. (first - 1) : s[i] = q[i]
    BY <2>3, <2>4, <2>5, SubSeqTyped
  <2>7. \A i \in 1 .. (first - 1) : q[i] \in Token
    BY <1>1, <2>2, <2>4
  <2>8. s \in Seq(Token)
    BY <2>6, <2>7
  <2>9. DOMAIN s = 1 .. first - 1 /\ DOMAIN q = 1 .. Len(q)
    BY <2>6
  <2>10. \A i \in 1 .. first - 1 : i \in 1 .. Len(q)
    BY <2>4
  <2> QED BY <2>5, <2>6, <2>8, <2>9, <2>10
<1> QED
  BY <1>2, <1>3

---------------------------------------------------------------------------
(* Frames *)

\* The frames under which a source is being compiled, or will be after ERRFUN.
Waiting(fs) == {k \in DOMAIN fs : fs[k].does \in {"next", "errdone"}}
Waits(f) == f.does \in {"next", "errdone"}

LEMMA Pushed ==
  ASSUME NEW fs \in Seq(Frame), NEW f \in Frame
  PROVE  /\ Append(fs, f) \in Seq(Frame) /\ Append(fs, f) # <<>>
         /\ Len(Append(fs, f)) = Len(fs) + 1 /\ Append(fs, f)[Len(fs) + 1] = f
         /\ \A k \in DOMAIN fs : k \in DOMAIN Append(fs, f) /\ Append(fs, f)[k] = fs[k]
         /\ fs = <<>> => Append(fs, f)[1] = f
         /\ fs # <<>> => Append(fs, f)[1] = fs[1]
         /\ Cardinality(Waiting(fs)) \in Nat
         /\ Waits(f) => Cardinality(Waiting(Append(fs, f))) = Cardinality(Waiting(fs)) + 1
         /\ ~Waits(f) => Cardinality(Waiting(Append(fs, f))) = Cardinality(Waiting(fs))
<1>1. /\ DOMAIN fs = 1 .. Len(fs) /\ Len(fs) \in Nat
      /\ DOMAIN Append(fs, f) = 1 .. Len(fs) + 1 /\ Append(fs, f)[Len(fs) + 1] = f
      /\ \A k \in 1 .. Len(fs) : Append(fs, f)[k] = fs[k]
  OBVIOUS
<1>2. IsFiniteSet(Waiting(fs)) /\ Len(fs) + 1 \notin Waiting(fs)
  <2>1. IsFiniteSet(1 .. Len(fs))
    BY <1>1, FS_Interval
  <2>2. Waiting(fs) \subseteq 1 .. Len(fs)
    BY <1>1 DEF Waiting
  <2> QED BY <1>1, <2>1, <2>2, FS_Subset
<1>3. Waits(f) => Waiting(Append(fs, f)) = Waiting(fs) \cup {Len(fs) + 1}
  BY <1>1 DEF Waiting, Waits
<1>4. ~Waits(f) => Waiting(Append(fs, f)) = Waiting(fs)
  BY <1>1 DEF Waiting, Waits
<1>5. Cardinality(Waiting(fs)) \in Nat
      /\ Cardinality(Waiting(fs) \cup {Len(fs) + 1}) = Cardinality(Waiting(fs)) + 1
  BY <1>2, FS_CardinalityType, FS_AddElement
<1>6. /\ Append(fs, f) \in Seq(Frame) /\ Append(fs, f) # <<>>
      /\ Len(Append(fs, f)) = Len(fs) + 1 /\ Append(fs, f)[Len(fs) + 1] = f
      /\ \A k \in DOMAIN fs : k \in DOMAIN Append(fs, f) /\ Append(fs, f)[k] = fs[k]
  BY <1>1
<1>7. /\ fs = <<>> => Append(fs, f)[1] = f
      /\ fs # <<>> => Append(fs, f)[1] = fs[1]
  BY <1>1
<1>8. /\ Cardinality(Waiting(fs)) \in Nat
      /\ Waits(f) => Cardinality(Waiting(Append(fs, f))) = Cardinality(Waiting(fs)) + 1
      /\ ~Waits(f) => Cardinality(Waiting(Append(fs, f))) = Cardinality(Waiting(fs))
  BY <1>3, <1>4, <1>5
<1> QED
  BY <1>6, <1>7, <1>8

LEMMA NoFrames == Cardinality(Waiting(<<>>)) = 0
<1>1. Waiting(<<>>) = {}
  BY DEF Waiting
<1> QED BY <1>1, FS_EmptySet

LEMMA Stacked ==
  ASSUME frames \in Seq(Frame), frames # <<>>
  PROVE  /\ Top \in Frame /\ Below \in Seq(Frame) /\ frames = Append(Below, Top)
         /\ Below = <<>> => frames[1] = Top
         /\ Below # <<>> => frames[1] = Below[1]
<1>1. Len(frames) \in Nat /\ Len(frames) >= 1 /\ DOMAIN frames = 1 .. Len(frames)
  OBVIOUS
<1>2. Top \in Frame
  BY <1>1 DEF Top
<1>3. /\ Below \in Seq(Frame) /\ Len(Below) = Len(frames) - 1
      /\ \A i \in 1 .. Len(Below) : Below[i] = frames[i]
  BY <1>1, SubSeqTyped DEF Below
<1>4. frames = Append(Below, Top)
  <2> DEFINE b == Below
             t == Top
  <2>1. /\ Append(b, t) \in Seq(Frame) /\ Len(Append(b, t)) = Len(frames)
        /\ \A i \in 1 .. Len(b) : Append(b, t)[i] = b[i]
        /\ Append(b, t)[Len(frames)] = t
    <3> HIDE DEF b, t
    <3>1. b \in Seq(Frame) /\ t \in Frame /\ Len(b) = Len(frames) - 1
      BY <1>2, <1>3 DEF b, t
    <3>2. Len(frames) = Len(b) + 1 /\ DOMAIN b = 1 .. Len(b)
      BY <1>1, <3>1
    <3>3. /\ Append(b, t) \in Seq(Frame) /\ Len(Append(b, t)) = Len(b) + 1 /\ Append(b, t)[Len(b) + 1] = t
          /\ \A k \in DOMAIN b : Append(b, t)[k] = b[k]
      BY <3>1, Pushed
    <3> QED BY <3>2, <3>3
  <2>2. t = frames[Len(frames)]
    BY DEF Top
  <2> HIDE DEF b, t
  <2>3. \A i \in 1 .. Len(frames) : Append(b, t)[i] = frames[i]
    BY <1>1, <1>3, <2>1, <2>2 DEF b
  <2> QED BY <1>1, <2>1, <2>3, SeqEqual DEF b, t
<1> QED
  BY <1>2, <1>3, <1>4, Pushed

---------------------------------------------------------------------------
(* The invariant *)

\* The lowest frame is one a source waits in.
Grounded == frames # <<>> => Waits(frames[1])

\* Without frames no source is suspended.
Quiet == frames = <<>> => sources = <<>>

Nested == frames # <<>> => Len(sources) + 1 = Cardinality(Waiting(frames))

Inv == TypeInv /\ Grounded /\ Quiet /\ Nested

LEMMA TokensTyped ==
  ASSUME NEW s \in Scripts
  PROVE  Tokens(s) \in Seq(TextToken)
<1>1. s \in Seq((Kinds \cup {"bad"}) \X Nat)
  BY ScriptsAssumption
<1>2. \A i \in DOMAIN s : s[i] \in (Kinds \cup {"bad"}) \X Nat /\ i \in Nat
  BY <1>1
<1>3. \A i \in 1 .. Len(s) : [kind |-> s[i][1], line |-> s[i][2], id |-> <<i, 0>>] \in TextToken
  BY <1>1, <1>2 DEF TextToken
<1>4. Tokens(s) = [i \in 1 .. Len(s) |-> [kind |-> s[i][1], line |-> s[i][2], id |-> <<i, 0>>]]
  BY <1>1 DEF Tokens
<1> QED
  BY <1>1, <1>3, <1>4

LEMMA InnerTyped ==
  ASSUME TypeInv, NEW t \in Token
  PROVE  InnerTokens(t) \in Seq(Token)
<1>1. inner \in Seq(Kinds \ {"nested"})
  BY InnersAssumption DEF TypeInv, TypeOK
<1>2. \A i \in 1 .. Len(inner) : [kind |-> inner[i], line |-> t.line, id |-> <<t.id[1], i>>] \in Token
  BY <1>1 DEF Token, Id
<1>3. InnerTokens(t) = [i \in 1 .. Len(inner) |-> [kind |-> inner[i], line |-> t.line, id |-> <<t.id[1], i>>]]
  BY <1>1 DEF InnerTokens
<1> QED
  BY <1>1, <1>2, <1>3

LEMMA InitInv == Init => Inv
<1> SUFFICES ASSUME Init PROVE Inv
  OBVIOUS
<1>1. text \in Seq(TextToken)
  BY TokensTyped DEF Init
<1>2. TypeInv
  <2>1. unfed \in Seq({text[k] : k \in DOMAIN text})
    BY DEF Init
  <2>2. parser \in Parser
    BY DEF Init, Parser
  <2>3. sessions \in 0 .. MaxSessions /\ sessions \in Nat
    BY BoundsAssumption DEF Init
  <2>4. /\ input \in Seq(Token) /\ ahead \in Seq(Token) /\ sources \in Seq(Context) /\ frames \in Seq(Frame)
        /\ out \in Seq(Id) /\ spoilt \in SUBSET Nat
    BY DEF Init
  <2>5. live \in BOOLEAN /\ eof \in BOOLEAN /\ failure \in BOOLEAN /\ handling \in BOOLEAN
    BY DEF Init
  <2>6. errfun \in Handlers /\ inner \in Inners
    BY DEF Init
  <2> QED BY <1>1, <2>1, <2>2, <2>3, <2>4, <2>5, <2>6 DEF TypeInv, TypeOK
<1> QED
  BY <1>2 DEF Init, Inv, Grounded, Quiet, Nested

\* The context that an error or a reset goes back to.
LEMMA OutermostTyped ==
  ASSUME TypeInv
  PROVE  /\ Outermost.input \in Seq(Token) /\ Outermost.eof \in BOOLEAN
         /\ Outermost.failure \in BOOLEAN /\ Outermost.ahead \in Seq(Token)
<1>1. CASE sources = <<>>
  BY <1>1 DEF Outermost, TypeInv, TypeOK
<1>2. CASE sources # <<>>
  <2>1. sources[1] \in Context
    BY <1>2 DEF TypeInv, TypeOK
  <2> QED BY <1>2, <2>1 DEF Outermost, Context
<1> QED
  BY <1>1, <1>2

---------------------------------------------------------------------------
(* Errors and resets *)

\* What a fault or a reset makes of the frames.
LEMMA Recovering ==
  /\ <<NextFrame>> \in Seq(Frame) /\ <<ErrorDone, Handler>> \in Seq(Frame)
  /\ Cardinality(Waiting(<<NextFrame>>)) = 1 /\ Cardinality(Waiting(<<ErrorDone, Handler>>)) = 1
  /\ Waits(<<NextFrame>>[1]) /\ Waits(<<ErrorDone, Handler>>[1])
<1>1. NextFrame \in Frame /\ ErrorDone \in Frame /\ Handler \in Frame
  BY DEF NextFrame, ErrorDone, Handler, Frame
<1>2. /\ Waits(NextFrame) /\ Waits(ErrorDone) /\ ~Waits(Handler)
  BY DEF NextFrame, ErrorDone, Handler, Waits
<1>3. \A a : DOMAIN <<a>> = {1} /\ <<a>>[1] = a
  OBVIOUS
<1>4. \A a, b : DOMAIN <<a, b>> = {1, 2} /\ <<a, b>>[1] = a /\ <<a, b>>[2] = b
  OBVIOUS
<1>5. Waiting(<<NextFrame>>) = {1}
  BY <1>2, <1>3 DEF Waiting, Waits
<1>6. Waiting(<<ErrorDone, Handler>>) = {1}
  BY <1>2, <1>4 DEF Waiting, Waits
<1>7. <<NextFrame>> \in Seq(Frame) /\ <<ErrorDone, Handler>> \in Seq(Frame)
  BY <1>1
<1> QED
  BY <1>2, <1>5, <1>6, <1>7, FS_Singleton

LEMMA AbandonInv ==
  ASSUME Inv, NEW rest \in Seq(Token), Abandon(rest),
         failure' \in BOOLEAN, handling' \in BOOLEAN, spoilt' \in SUBSET Nat,
         frames' \in {<<>>, <<NextFrame>>, <<ErrorDone, Handler>>}, live' \in BOOLEAN,
         UNCHANGED <<text, errfun, inner, unfed, sessions, out>>
  PROVE  Inv'
<1>1. input' = rest /\ eof' \in BOOLEAN /\ parser' = NoParser /\ sources' = <<>> /\ ahead' = <<>>
  BY OutermostTyped DEF Abandon, Inv
<1>2. parser' \in Parser
  BY <1>1 DEF Parser
<1>3. frames' \in Seq(Frame)
  <2>1. <<>> \in Seq(Frame)
    OBVIOUS
  <2> QED BY <2>1, Recovering, Zenon
<1>4. /\ text' = text /\ errfun' = errfun /\ inner' = inner /\ unfed' = unfed /\ sessions' = sessions
      /\ out' = out
  OBVIOUS
<1>5. sources' \in Seq(Context) /\ ahead' \in Seq(Token)
  BY <1>1
<1>6. TypeInv'
  BY <1>1, <1>2, <1>3, <1>4, <1>5 DEF TypeInv, TypeOK, Inv
<1>7. Grounded' /\ Quiet' /\ Nested'
  BY <1>1, Recovering DEF Grounded, Quiet, Nested
<1> QED
  BY <1>6, <1>7 DEF Inv

\* The lines of what is lost.
LEMMA LinesTyped ==
  ASSUME TypeInv
  PROVE  Pending \in SUBSET Nat /\ Overrun \in SUBSET Nat
<1>1. ASSUME NEW k \in DOMAIN frames, NEW j \in DOMAIN frames[k].items
      PROVE  frames[k].items[j].line \in Nat
  <2>1. frames[k] \in Frame
    BY DEF TypeInv, TypeOK
  <2> DEFINE q == frames[k].items
  <2>2. q \in Seq(Token) /\ j \in DOMAIN q
    BY <2>1 DEF Frame
  <2> HIDE DEF q
  <2>3. q[j] \in Token
    BY <2>2
  <2> QED BY <2>3 DEF Token, q
<1>2. ASSUME NEW k \in DOMAIN Outermost.ahead PROVE Outermost.ahead[k].line \in Nat
  <2> DEFINE q == Outermost.ahead
  <2>1. q \in Seq(Token) /\ k \in DOMAIN q
    BY OutermostTyped
  <2> HIDE DEF q
  <2>2. q[k] \in Token
    BY <2>1
  <2> QED BY <2>2 DEF Token, q
<1>3. Parsed \in SUBSET Nat
  <2> SUFFICES ASSUME parser # NoParser, NEW k \in DOMAIN parser.items PROVE parser.items[k].line \in Nat
    BY DEF Parsed
  <2> DEFINE q == parser.items
  <2>1. q \in Seq(Token) /\ k \in DOMAIN q
    BY DEF TypeInv, TypeOK, Parser
  <2> HIDE DEF q
  <2>2. q[k] \in Token
    BY <2>1
  <2> QED BY <2>2 DEF Token, q
<1>4. Overrun \in SUBSET Nat
  <2> SUFFICES ASSUME Outermost.input # <<>> PROVE Outermost.input[1].line \in Nat
    BY DEF Overrun
  <2> DEFINE q == Outermost.input
  <2>1. q \in Seq(Token) /\ q # <<>>
    BY OutermostTyped
  <2> HIDE DEF q
  <2>2. q[1] \in Token
    BY <2>1
  <2> QED BY <2>2 DEF Token, q
<1> QED
  <2> DEFINE run == {t.line : t \in UNION {{frames[k].items[j] : j \in DOMAIN frames[k].items} : k \in DOMAIN frames}}
             looked == {Outermost.ahead[k].line : k \in DOMAIN Outermost.ahead}
  <2>1. run \in SUBSET Nat
    BY <1>1
  <2>2. looked \in SUBSET Nat
    BY <1>2
  <2>3. Pending = Parsed \cup run \cup looked
    BY DEF Pending
  <2> HIDE DEF run, looked
  <2> QED BY <1>3, <1>4, <2>1, <2>2, <2>3

\* And of what a malformed byte discards.
LEMMA DiscardedTyped ==
  ASSUME NEW q \in Seq(TextToken)
  PROVE  Discarded(q) \in SUBSET Nat
<1>1. \A k \in DOMAIN q : q[k].line \in Nat
  <2>1. \A k \in DOMAIN q : q[k] \in TextToken
    OBVIOUS
  <2> QED BY <2>1 DEF TextToken
<1> QED
  BY <1>1 DEF Discarded

LEMMA FaultInv ==
  ASSUME Inv, NEW line \in SUBSET Nat, NEW lex \in BOOLEAN, Fault(line, lex)
  PROVE  Inv'
<1>1. Outermost.input \in Seq(Token) /\ Skipped(Outermost.input) \in Seq(Token)
  BY OutermostTyped, SkipLineTyped DEF Skipped, Inv
<1>2. Pending \in SUBSET Nat /\ Overrun \in SUBSET Nat /\ spoilt \in SUBSET Nat
  BY LinesTyped DEF Inv, TypeInv, TypeOK
<1>3. /\ Abandon(Outermost.input) \/ Abandon(Skipped(Outermost.input))
      /\ failure' \in BOOLEAN /\ handling' \in BOOLEAN
      /\ frames' \in {<<>>, <<NextFrame>>, <<ErrorDone, Handler>>}
      /\ UNCHANGED <<text, errfun, inner, unfed, sessions, out>> /\ live' = live
  BY DEF Fault
<1>4. spoilt' \in SUBSET Nat
  BY <1>2 DEF Fault
<1>5. live' \in BOOLEAN
  BY <1>3 DEF Inv, TypeInv, TypeOK
<1> QED
  BY <1>1, <1>3, <1>4, <1>5, AbandonInv

LEMMA ResetInv == ASSUME Inv, Reset PROVE Inv'
<1>1. Outermost.input \in Seq(Token) /\ Outermost.failure \in BOOLEAN
  BY OutermostTyped DEF Inv
<1>2. Pending \in SUBSET Nat /\ spoilt \in SUBSET Nat
  BY LinesTyped DEF Inv, TypeInv, TypeOK
<1>3. /\ Abandon(Outermost.input) /\ failure' \in BOOLEAN /\ handling' \in BOOLEAN
      /\ frames' \in {<<>>, <<NextFrame>>, <<ErrorDone, Handler>>}
      /\ UNCHANGED <<text, errfun, inner, unfed, sessions, out>> /\ live' = live
  BY <1>1 DEF Reset, GuardAfterReset
<1>4. spoilt' \in SUBSET Nat
  BY <1>2 DEF Reset
<1>5. live' \in BOOLEAN
  BY <1>3 DEF Inv, TypeInv, TypeOK
<1> QED
  BY <1>1, <1>3, <1>4, <1>5, AbandonInv

---------------------------------------------------------------------------
(* The actions *)

\* A step of the VM that changes no text and keeps the types.
LEMMA TypeKept ==
  ASSUME TypeInv, UNCHANGED <<text, errfun, inner, unfed, live, sessions, spoilt>>,
         input' \in Seq(Token), ahead' \in Seq(Token), parser' \in Parser,
         eof' \in BOOLEAN, failure' \in BOOLEAN, handling' \in BOOLEAN,
         sources' \in Seq(Context), frames' \in Seq(Frame), out' \in Seq(Id)
  PROVE  TypeInv'
BY DEF TypeInv, TypeOK

\* One that leaves the frames and the suspended sources.
LEMMA SourceInv ==
  ASSUME Inv, UNCHANGED <<text, errfun, inner, unfed, live, sessions, spoilt, handling, sources, frames, out>>,
         input' \in Seq(Token), ahead' \in Seq(Token), parser' \in Parser,
         UNCHANGED <<eof, failure>>
  PROVE  Inv'
<1>1. TypeInv'
  BY TypeKept DEF Inv, TypeInv, TypeOK
<1> QED
  BY <1>1 DEF Inv, Grounded, Quiet, Nested

LEMMA Taken ==
  ASSUME NEW T, NEW q \in Seq(T), q # <<>>
  PROVE  Head(q) \in T /\ Tail(q) \in Seq(T)
BY HeadTailProperties

LEMMA ForceInv == ASSUME Inv, ForceToken PROVE Inv'
<1>1. Head(input) \in Token /\ Tail(input) \in Seq(Token)
  BY Taken DEF ForceToken, Inv, TypeInv, TypeOK
<1> QED
  BY <1>1, SourceInv DEF ForceToken, InputLeft, Inv, TypeInv, TypeOK

\* The compiler has a state.
ParserState == [at : {"start", "operand", "after"}, items : Seq(Token)]

LEMMA ParserThere == ASSUME TypeInv, parser # NoParser PROVE parser \in ParserState
BY DEF TypeInv, TypeOK, Parser, ParserState

LEMMA ParseInv ==
  ASSUME Inv, NEW state \in ParserState \cup {NoParser}, Parse(state),
         ahead' \in Seq(Token)
  PROVE  Inv'
<1>1. state \in Parser
  BY DEF Parser, ParserState
<1> QED
  BY <1>1, SourceInv DEF Parse, Inv, TypeInv, TypeOK

LEMMA CompilingInv ==
  ASSUME Inv, Begin \/ Separator \/ Operand \/ Operator \/ Nothing
  PROVE  Inv'
<1>1. ahead \in Seq(Token)
  BY DEF Inv, TypeInv, TypeOK
<1>2. CASE Begin
  <2>1. [at |-> "start", items |-> <<>>] \in ParserState
    BY DEF ParserState
  <2> QED BY <1>1, <1>2, <2>1, ParseInv DEF Begin
<1>3. CASE Separator
  <2>1. ahead' \in Seq(Token)
    BY <1>1, <1>3, Taken DEF Separator, Take, Ready
  <2> QED BY <1>3, <2>1, ParseInv, ParserThere DEF Separator, Inv
<1>4. CASE Operand
  <2>1. Head(ahead) \in Token /\ ahead' \in Seq(Token)
    BY <1>1, <1>4, Taken DEF Operand, Take, Ready
  <2>2. parser.items \in Seq(Token)
    BY <1>4, ParserThere DEF Operand, ParserState, Inv
  <2>3. [at |-> "after", items |-> Append(parser.items, Head(ahead))] \in ParserState
    BY <2>1, <2>2 DEF ParserState
  <2> QED BY <1>4, <2>1, <2>3, ParseInv DEF Operand
<1>5. CASE Operator
  <2>1. ahead' \in Seq(Token)
    BY <1>1, <1>5, Taken DEF Operator, Take, Ready
  <2>2. [parser EXCEPT !.at = "operand"] \in ParserState
    BY <1>5, ParserThere DEF Operator, ParserState, Inv
  <2> QED BY <1>5, <2>1, <2>2, ParseInv DEF Operator
<1>6. CASE Nothing
  BY <1>1, <1>6, ParseInv DEF Nothing
<1> QED
  BY <1>2, <1>3, <1>4, <1>5, <1>6

LEMMA SyntaxErrorInv == ASSUME Inv, SyntaxError PROVE Inv'
<1>1. Outermost.failure \in BOOLEAN
  BY OutermostTyped DEF Inv
<1>2. CASE Ready /\ Fault({Head(ahead).line}, Outermost.failure)
  <2>1. Head(ahead) \in Token
    BY <1>2, Taken DEF Ready, Inv, TypeInv, TypeOK
  <2>2. {Head(ahead).line} \in SUBSET Nat
    BY <2>1 DEF Token
  <2> QED BY <1>1, <1>2, <2>2, FaultInv
<1>3. CASE Fault({}, Outermost.failure)
  BY <1>1, <1>3, FaultInv
<1> QED
  BY <1>2, <1>3 DEF SyntaxError

LEMMA CompleteInv == ASSUME Inv, Complete PROVE Inv'
<1>1. parser.items \in Seq(Token)
  BY ParserThere DEF Complete, ParserState, Inv
<1>2. Run(parser.items) \in Frame /\ ~Waits(Run(parser.items))
  BY <1>1 DEF Run, Frame, Waits
<1>3. frames \in Seq(Frame) /\ frames # <<>> /\ frames' = Append(frames, Run(parser.items)) /\ sources' = sources
  BY DEF Complete, Compiling, Inv, TypeInv, TypeOK
<1>4. ahead' \in Seq(Token) /\ parser' \in Parser
  BY Taken DEF Complete, Rest, Ready, Parser, Inv, TypeInv, TypeOK
<1>5. TypeInv'
  <2>1. frames' \in Seq(Frame)
    BY <1>2, <1>3, Pushed
  <2> QED BY <1>4, <2>1, TypeKept DEF Complete, Inv, TypeInv, TypeOK
<1>6. /\ frames' # <<>> /\ frames'[1] = frames[1]
      /\ Cardinality(Waiting(frames')) = Cardinality(Waiting(frames))
  BY <1>2, <1>3, Pushed
<1> QED
  BY <1>3, <1>5, <1>6 DEF Inv, Grounded, Quiet, Nested

\* A frame that no source waits in lies on others, and may go or be replaced by another such.
LEMMA Lifted ==
  ASSUME Inv, frames # <<>>, ~Waits(Top)
  PROVE  /\ Below \in Seq(Frame) /\ Below # <<>> /\ Waits(Below[1])
         /\ Cardinality(Waiting(Below)) = Len(sources) + 1
         /\ \A items \in Seq(Token) :
              /\ Append(Below, Run(items)) \in Seq(Frame) /\ Append(Below, Run(items)) # <<>>
              /\ Append(Below, Run(items))[1] = Below[1]
              /\ Cardinality(Waiting(Append(Below, Run(items)))) = Len(sources) + 1
<1>1. /\ Top \in Frame /\ Below \in Seq(Frame) /\ frames = Append(Below, Top)
      /\ Below = <<>> => frames[1] = Top
      /\ Below # <<>> => frames[1] = Below[1]
  BY Stacked DEF Inv, TypeInv, TypeOK
<1>2. Below # <<>> /\ Waits(Below[1])
  BY <1>1 DEF Inv, Grounded
<1>3. Cardinality(Waiting(Below)) = Cardinality(Waiting(frames))
  BY <1>1, Pushed
<1>4. Cardinality(Waiting(Below)) = Len(sources) + 1
  BY <1>3 DEF Inv, Nested
<1>5. ASSUME NEW items \in Seq(Token) PROVE Run(items) \in Frame /\ ~Waits(Run(items))
  BY DEF Run, Frame, Waits
<1>6. ASSUME NEW items \in Seq(Token)
      PROVE  /\ Append(Below, Run(items)) \in Seq(Frame) /\ Append(Below, Run(items)) # <<>>
             /\ Append(Below, Run(items))[1] = Below[1]
             /\ Cardinality(Waiting(Append(Below, Run(items)))) = Len(sources) + 1
  BY <1>1, <1>2, <1>4, <1>5, Pushed
<1> QED
  BY <1>1, <1>2, <1>4, <1>6

\* The rest of a running statement.
LEMMA RunningTyped ==
  ASSUME Inv, frames # <<>>, Top.does = "run"
  PROVE  /\ Top.items \in Seq(Token) /\ ~Waits(Top)
         /\ Top.items # <<>> => Head(Top.items) \in Token /\ Tail(Top.items) \in Seq(Token)
<1>1. Top \in Frame
  BY Stacked DEF Inv, TypeInv, TypeOK
<1>2. Top.items \in Seq(Token) /\ ~Waits(Top)
  BY <1>1 DEF Frame, Waits
<1> QED
  BY <1>2, Taken

\* A step inside a statement or out of it, or out of ERRFUN.
LEMMA LiftedInv ==
  ASSUME Inv, frames # <<>>, ~Waits(Top), NEW items \in Seq(Token),
         frames' \in {Below, Append(Below, Run(items))},
         UNCHANGED <<text, errfun, inner, unfed, live, sessions, spoilt, handling>>,
         UNCHANGED <<input, eof, failure, parser, sources>>,
         ahead' \in Seq(Token), out' \in Seq(Id)
  PROVE  Inv'
<1>1. frames' \in Seq(Frame) /\ frames' # <<>> /\ Waits(frames'[1])
      /\ Cardinality(Waiting(frames')) = Len(sources) + 1
  <2>1. CASE frames' = Below
    BY <2>1, Lifted
  <2>2. CASE frames' = Append(Below, Run(items))
    BY <2>2, Lifted
  <2> QED BY <2>1, <2>2
<1>2. TypeInv'
  BY <1>1, TypeKept DEF Inv, TypeInv, TypeOK
<1> QED
  BY <1>1, <1>2 DEF Inv, Grounded, Quiet, Nested

\* What ITEMREAD takes, and what it leaves.
LEMMA ItemTyped ==
  ASSUME Inv
  PROVE  /\ (IF Ready THEN Tail(ahead) ELSE ahead) \in Seq(Token)
         /\ (IF Ready THEN Append(out, Head(ahead).id) ELSE out) \in Seq(Id)
<1>1. ahead \in Seq(Token) /\ out \in Seq(Id)
  BY DEF Inv, TypeInv, TypeOK
<1>2. CASE Ready
  <2>1. Head(ahead) \in Token /\ Tail(ahead) \in Seq(Token)
    BY <1>1, <1>2, Taken DEF Ready
  <2>2. Head(ahead).id \in Id
    BY <2>1 DEF Token
  <2> QED BY <1>1, <1>2, <2>1, <2>2
<1>3. CASE ~Ready
  BY <1>1, <1>3
<1> QED
  BY <1>2, <1>3

LEMMA RunningInv ==
  ASSUME Inv, Evaluate \/ ReadItem \/ Leave
  PROVE  Inv'
<1>1. frames # <<>> /\ Top.does = "run"
  BY DEF Evaluate, ReadItem, Leave, Running
<1>2. ~Waits(Top) /\ Top.items \in Seq(Token)
  BY <1>1, RunningTyped
<1>3. ahead \in Seq(Token) /\ out \in Seq(Id)
  BY DEF Inv, TypeInv, TypeOK
<1>4. CASE Evaluate
  <2>1. Head(Top.items) \in Token /\ Tail(Top.items) \in Seq(Token)
    BY <1>1, <1>4, RunningTyped DEF Evaluate, Running
  <2>2. Head(Top.items).id \in Id
    BY <2>1 DEF Token
  <2>3. out' \in Seq(Id)
    BY <1>3, <1>4, <2>2 DEF Evaluate
  <2> QED BY <1>1, <1>2, <1>3, <1>4, <2>1, <2>3, LiftedInv DEF Evaluate, Advanced, source
<1>5. CASE ReadItem
  <2>1. Tail(Top.items) \in Seq(Token)
    BY <1>1, <1>5, RunningTyped DEF ReadItem, Running
  <2>2. ahead' \in Seq(Token) /\ out' \in Seq(Id)
    BY <1>5, ItemTyped DEF ReadItem
  <2>3. frames' = Append(Below, Run(Tail(Top.items)))
    BY <1>5 DEF ReadItem, Advanced
  <2> QED BY <1>1, <1>2, <1>5, <2>1, <2>2, <2>3, LiftedInv DEF ReadItem
<1>6. CASE Leave
  BY <1>1, <1>2, <1>3, <1>6, LiftedInv DEF Leave, source
<1> QED
  BY <1>4, <1>5, <1>6

LEMMA HandlerInv ==
  ASSUME Inv, HandlerReturns \/ HandlerReads
  PROVE  Inv'
<1>1. frames # <<>> /\ ~Waits(Top) /\ frames' = Below
  BY DEF HandlerReturns, HandlerReads, Waits
<1>2. ahead \in Seq(Token) /\ out \in Seq(Id) /\ <<>> \in Seq(Token)
  BY DEF Inv, TypeInv, TypeOK
<1>3. CASE HandlerReturns
  BY <1>1, <1>2, <1>3, LiftedInv DEF HandlerReturns, source
<1>4. CASE HandlerReads
  <2>1. ahead' \in Seq(Token) /\ out' \in Seq(Id)
    BY <1>4, ItemTyped DEF HandlerReads
  <2> QED BY <1>1, <1>2, <1>4, <2>1, LiftedInv DEF HandlerReads
<1> QED
  BY <1>3, <1>4

\* POPVAL: one more source, and one more frame that waits for it.
LEMMA NestInv == ASSUME Inv, Nest PROVE Inv'
<1>1. frames # <<>> /\ Top.does = "run" /\ Top.items # <<>>
  BY DEF Nest, Running
<1>2. ~Waits(Top) /\ Head(Top.items) \in Token /\ Tail(Top.items) \in Seq(Token)
  BY <1>1, RunningTyped
<1> DEFINE held == Advanced
<1>3. /\ held \in Seq(Frame) /\ held # <<>> /\ Waits(held[1])
      /\ Cardinality(Waiting(held)) = Len(sources) + 1
  BY <1>1, <1>2, Lifted DEF Advanced
<1> HIDE DEF held
<1>4. NextFrame \in Frame /\ Waits(NextFrame)
  BY DEF NextFrame, Frame, Waits
<1>5. frames' = Append(held, NextFrame)
  BY DEF Nest, held
<1>6. /\ frames' \in Seq(Frame) /\ frames' # <<>> /\ frames'[1] = held[1]
      /\ Cardinality(Waiting(frames')) = Cardinality(Waiting(held)) + 1
  BY <1>3, <1>4, <1>5, Pushed
<1>7. Saved \in Context
  BY DEF Saved, Context, Inv, TypeInv, TypeOK
<1>8. sources \in Seq(Context) /\ sources' = Append(sources, Saved)
  BY DEF Nest, Inv, TypeInv, TypeOK
<1>9. sources' \in Seq(Context) /\ Len(sources') = Len(sources) + 1 /\ Len(sources) \in Nat
  BY <1>7, <1>8
<1>10. TypeInv'
  <2>1. ahead' \in Seq(Token)
    BY <1>2, InnerTyped DEF Nest, Inv
  <2>2. parser' \in Parser
    BY DEF Nest, Parser
  <2>3. input' \in Seq(Token) /\ eof' \in BOOLEAN /\ failure' \in BOOLEAN
    <3>1. input' = <<>> /\ eof' = TRUE /\ failure' = FALSE
      BY Zenon DEF Nest
    <3>2. <<>> \in Seq(Token)
      OBVIOUS
    <3>3. eof' \in BOOLEAN /\ failure' \in BOOLEAN
      BY <3>1, Zenon
    <3>4. input' \in Seq(Token)
      BY <3>1, <3>2, Zenon
    <3> QED BY <3>3, <3>4, Zenon
  <2> QED BY <1>6, <1>9, <2>1, <2>2, <2>3, TypeKept DEF Nest, Inv, TypeInv, TypeOK
<1> QED
  BY <1>3, <1>6, <1>9, <1>10 DEF Inv, Grounded, Quiet, Nested

\* What is below a frame in which a source waits.
LEMMA WaitingBelow ==
  ASSUME Inv, frames # <<>>, Waits(Top)
  PROVE  /\ Below \in Seq(Frame) /\ Cardinality(Waiting(Below)) = Len(sources)
         /\ Below = <<>> => sources = <<>>
         /\ Below # <<>> => sources # <<>> /\ Waits(Below[1])
         /\ sources \in Seq(Context) /\ Len(sources) \in Nat
<1>1. /\ Top \in Frame /\ Below \in Seq(Frame) /\ frames = Append(Below, Top)
      /\ Below # <<>> => frames[1] = Below[1]
  BY Stacked DEF Inv, TypeInv, TypeOK
<1>2. Cardinality(Waiting(frames)) = Cardinality(Waiting(Below)) + 1 /\ Cardinality(Waiting(Below)) \in Nat
  BY <1>1, Pushed
<1>3. sources \in Seq(Context) /\ Len(sources) \in Nat
  BY DEF Inv, TypeInv, TypeOK
<1>4. Cardinality(Waiting(Below)) = Len(sources)
  BY <1>2, <1>3 DEF Inv, Nested
<1>5. Below = <<>> => sources = <<>>
  BY <1>3, <1>4, NoFrames
<1>6. ASSUME Below # <<>> PROVE sources # <<>> /\ Waits(Below[1])
  <2>1. Waits(Below[1])
    BY <1>1, <1>6 DEF Inv, Grounded
  <2>2. 1 \in Waiting(Below)
    BY <1>1, <1>6, <2>1 DEF Waiting, Waits
  <2>3. IsFiniteSet(Waiting(Below))
    <3>1. Len(Below) \in Nat /\ DOMAIN Below = 1 .. Len(Below)
      BY <1>1
    <3>2. IsFiniteSet(1 .. Len(Below)) /\ Waiting(Below) \subseteq 1 .. Len(Below)
      BY <3>1, FS_Interval DEF Waiting
    <3> QED BY <3>2, FS_Subset
  <2>4. Cardinality(Waiting(Below)) # 0
    BY <2>2, <2>3, FS_EmptySet
  <2> QED BY <1>4, <2>1, <2>4
<1> QED
  BY <1>1, <1>3, <1>4, <1>5, <1>6

\* The end of a source: the innermost suspended one goes on, in the frame below.
LEMMA EndOfSourceInv == ASSUME Inv, EndOfSource PROVE Inv'
<1>1. frames # <<>> /\ Waits(Top) /\ frames' = Below
  BY DEF EndOfSource, Compiling, Waits
<1>2. /\ frames' \in Seq(Frame) /\ Cardinality(Waiting(frames')) = Len(sources)
      /\ frames' = <<>> => sources = <<>>
      /\ frames' # <<>> => sources # <<>> /\ Waits(frames'[1])
      /\ sources \in Seq(Context) /\ Len(sources) \in Nat
  BY <1>1, WaitingBelow
<1>3. CASE sources = <<>>
  <2>1. frames' = <<>> /\ UNCHANGED source
    BY <1>2, <1>3 DEF EndOfSource
  <2>2. TypeInv'
    BY <1>2, <2>1, TypeKept DEF EndOfSource, source, Inv, TypeInv, TypeOK
  <2> QED BY <1>3, <2>1, <2>2 DEF Inv, Grounded, Quiet, Nested, source
<1>4. CASE sources # <<>>
  <2> DEFINE s == sources[Len(sources)]
  <2>1. s \in Context /\ Len(sources) >= 1
    BY <1>2, <1>4
  <2>2. /\ input' = s.input /\ eof' = s.eof /\ failure' = s.failure
        /\ ahead' = s.ahead /\ parser' = s.parser
        /\ sources' = SubSeq(sources, 1, Len(sources) - 1)
    BY <1>4 DEF EndOfSource
  <2>3. sources' \in Seq(Context) /\ Len(sources') = Len(sources) - 1
    BY <1>2, <2>1, <2>2, SubSeqTyped
  <2> HIDE DEF s
  <2>4. TypeInv'
    BY <1>2, <2>1, <2>2, <2>3, TypeKept DEF EndOfSource, Context, Inv, TypeInv, TypeOK
  <2>5. frames' # <<>>
    BY <1>2, <1>4, NoFrames
  <2> QED BY <1>2, <2>3, <2>4, <2>5 DEF Inv, Grounded, Quiet, Nested
<1> QED
  BY <1>3, <1>4

\* ERRFUN has returned: the frame that waited for it becomes that of the next statement.
LEMMA RecoveredInv == ASSUME Inv, Recovered PROVE Inv'
<1>1. frames # <<>> /\ Waits(Top) /\ frames' = Append(Below, NextFrame)
  BY DEF Recovered, Waits
<1>2. NextFrame \in Frame /\ Waits(NextFrame)
  BY DEF NextFrame, Frame, Waits
<1> DEFINE low == Below
<1>3. low \in Seq(Frame) /\ Cardinality(Waiting(low)) = Len(sources) /\ (low # <<>> => Waits(low[1]))
      /\ Len(sources) \in Nat
  BY <1>1, WaitingBelow
<1>4. frames' = Append(low, NextFrame)
  BY <1>1
<1> HIDE DEF low
<1>5. /\ frames' \in Seq(Frame) /\ frames' # <<>>
      /\ Cardinality(Waiting(frames')) = Len(sources) + 1 /\ Waits(frames'[1])
  BY <1>2, <1>3, <1>4, Pushed
<1>6. TypeInv'
  <2>1. ahead' \in Seq(Token) /\ handling' \in BOOLEAN
    <3>1. ahead' = <<>> /\ handling' = FALSE
      BY Zenon DEF Recovered
    <3>2. <<>> \in Seq(Token)
      OBVIOUS
    <3>3. handling' \in BOOLEAN
      BY <3>1, Zenon
    <3>4. ahead' \in Seq(Token)
      BY <3>1, <3>2, Zenon
    <3> QED BY <3>3, <3>4, Zenon
  <2> QED BY <1>5, <2>1, TypeKept DEF Recovered, Inv, TypeInv, TypeOK
<1> QED
  BY <1>5, <1>6 DEF Recovered, Inv, Grounded, Quiet, Nested

---------------------------------------------------------------------------
(* The host *)

\* The tokens of the text that the host still holds are tokens of the text.
LEMMA ChunkTyped ==
  ASSUME NEW T, NEW rest \in Seq(T), NEW n \in Nat, n <= Len(rest)
  PROVE  SubSeq(rest, n + 1, Len(rest)) \in Seq(T) /\ SubSeq(rest, 1, n) \in Seq(T)
<1>1. n + 1 \in 1 .. Len(rest) + 1 /\ 1 \in 1 .. Len(rest) + 1 /\ n \in 0 .. Len(rest) /\ Len(rest) \in 0 .. Len(rest)
  OBVIOUS
<1> QED
  BY <1>1, SubSeqTyped

LEMMA OpenInv == ASSUME Inv, NEW n \in Nat, NEW final \in BOOLEAN, Open(n, final) PROVE Inv'
<1> DEFINE T == {text[k] : k \in DOMAIN text}
<1>1. text \in Seq(TextToken) /\ text \in Seq(T) /\ T \subseteq TextToken
  BY DEF Inv, TypeInv
<1>2. n <= Len(text) /\ unfed' = SubSeq(text, n + 1, Len(text)) /\ eof' = final /\ failure' \in BOOLEAN
  BY DEF Open, Chunk
<1>3. unfed' \in Seq(T)
  <2> HIDE DEF T
  <2> QED BY <1>1, <1>2, ChunkTyped
<1>4. input' \in Seq(Token)
  BY <1>1, <1>2, ChunkTyped, LexedTyped DEF Open
<1>5. sessions' \in 0 .. MaxSessions /\ sessions' \in Nat
  BY BoundsAssumption DEF Open, Inv, TypeInv, TypeOK
<1>6. sources' = <<>> /\ frames' = <<NextFrame>>
  BY DEF Open, Inv, Quiet
<1>7. frames' \in Seq(Frame) /\ sources' \in Seq(Context)
  BY <1>6, Recovering
<1>8. parser' \in Parser
  BY DEF Open, Parser
<1>9. ahead' \in Seq(Token) /\ out' \in Seq(Id) /\ spoilt' \in SUBSET Nat /\ live' \in BOOLEAN
  <2>1. SubSeq(text, 1, n) \in Seq(TextToken)
    BY <1>1, <1>2, ChunkTyped
  <2>2. spoilt' = Discarded(SubSeq(text, 1, n))
    BY DEF Open
  <2>3. spoilt' \in SUBSET Nat
    BY <2>1, <2>2, DiscardedTyped
  <2> QED BY <2>3 DEF Open
<1>10. /\ text' = text /\ errfun' = errfun /\ inner' = inner /\ handling' = handling
  BY DEF Open
<1>11. TypeInv'
  BY <1>2, <1>3, <1>4, <1>5, <1>7, <1>8, <1>9, <1>10 DEF Inv, TypeInv, TypeOK
<1> QED
  BY <1>6, <1>11, Recovering DEF Inv, Grounded, Quiet, Nested

LEMMA FeedInv == ASSUME Inv, NEW n \in Nat, NEW final \in BOOLEAN, Feed(n, final) PROVE Inv'
<1> DEFINE T == {text[k] : k \in DOMAIN text}
<1>1. T \subseteq TextToken /\ unfed \in Seq(T)
  BY DEF Inv, TypeInv, TypeOK
<1>2. n <= Len(unfed) /\ unfed' = SubSeq(unfed, n + 1, Len(unfed)) /\ eof' = final /\ failure' \in BOOLEAN
  BY DEF Feed, Chunk
<1>3. unfed' \in Seq(T) /\ unfed \in Seq(TextToken)
  <2> HIDE DEF T
  <2> QED BY <1>1, <1>2, ChunkTyped, SeqMonotonic
<1>4. input' \in Seq(Token)
  BY <1>2, <1>3, ChunkTyped, LexedTyped DEF Feed
<1>5. UNCHANGED <<text, errfun, inner, live, sessions, ahead, parser, sources, frames,
                  handling, out>>
  BY DEF Feed
<1>6. spoilt' \in SUBSET Nat
  <2>1. SubSeq(unfed, 1, n) \in Seq(TextToken)
    BY <1>2, <1>3, ChunkTyped
  <2>2. spoilt \in SUBSET Nat /\ Discarded(SubSeq(unfed, 1, n)) \in SUBSET Nat
    BY <2>1, DiscardedTyped DEF Inv, TypeInv, TypeOK
  <2> QED BY <2>2 DEF Feed
<1>7. TypeInv'
  BY <1>2, <1>3, <1>4, <1>5, <1>6 DEF Inv, TypeInv, TypeOK
<1> QED
  BY <1>5, <1>7 DEF Inv, Grounded, Quiet, Nested

LEMMA StrangerInv == ASSUME Inv, Stranger PROVE Inv'
<1>1. Outermost.input \in Seq(Token) /\ Outermost.failure \in BOOLEAN
  BY OutermostTyped DEF Inv
<1>2. failure' \in BOOLEAN /\ handling' \in BOOLEAN /\ spoilt' \in SUBSET Nat /\ live' \in BOOLEAN
  BY <1>1, LinesTyped DEF Stranger, Inv, TypeInv, TypeOK
<1> QED
  BY <1>1, <1>2, AbandonInv DEF Stranger

LEMMA FinishInv == ASSUME Inv, Finish PROVE Inv'
<1>1. TypeInv'
  BY DEF Finish, source, Inv, TypeInv, TypeOK
<1> QED
  BY <1>1 DEF Finish, source, Inv, Grounded, Quiet, Nested

LEMMA NextInv == Inv /\ [Next]_vars => Inv'
<1> SUFFICES ASSUME Inv, [Next]_vars PROVE Inv'
  OBVIOUS
<1>1. ASSUME VM PROVE Inv'
  <2>1. CASE LexerFailure
    BY <2>1, FaultInv DEF LexerFailure
  <2>2. CASE Error \/ HandlerFaults
    <3>1. Outermost.failure \in BOOLEAN
      BY OutermostTyped DEF Inv
    <3> QED BY <2>2, <3>1, FaultInv DEF Error, HandlerFaults
  <2>3. CASE SetPop \/ HandlerResets
    BY <2>3, ResetInv DEF SetPop, HandlerResets
  <2> QED
    BY <1>1, <2>1, <2>2, <2>3, ForceInv, CompilingInv, SyntaxErrorInv, CompleteInv, EndOfSourceInv,
       RunningInv, NestInv, HandlerInv, RecoveredInv, FinishInv DEF VM
<1>2. ASSUME Host PROVE Inv'
  <2>1. \A q : Len(q) \in Nat => 0 .. Len(q) \subseteq Nat
    OBVIOUS
  <2>2. Len(text) \in Nat /\ Len(unfed) \in Nat
    BY DEF Inv, TypeInv, TypeOK
  <2> QED BY <1>2, <2>1, <2>2, OpenInv, FeedInv, StrangerInv DEF Host
<1>3. CASE UNCHANGED vars
  <2>1. TypeInv'
    BY <1>3 DEF vars, Inv, TypeInv, TypeOK
  <2> QED BY <1>3, <2>1 DEF vars, Inv, Grounded, Quiet, Nested
<1> QED
  BY <1>1, <1>2, <1>3 DEF Next

LEMMA Invariant == Spec => []Inv
BY InitInv, NextInv, PTL DEF Spec

\* The continuation that clears handling_error stays until it runs.
LEMMA EndKept ==
  ASSUME Inv, GuardHasEnd, frames # <<>>, Top.does # "errdone", handling' = handling,
         NEW f \in Frame, NEW g \in Frame,
         frames' \in {Below, Append(Below, f), Append(Append(Below, f), g), Append(frames, f)}
  PROVE  GuardHasEnd'
<1>1. /\ Top \in Frame /\ Below \in Seq(Frame) /\ frames \in Seq(Frame) /\ frames = Append(Below, Top)
  BY Stacked DEF Inv, TypeInv, TypeOK
<1>2. SUFFICES ASSUME handling' PROVE \E k \in DOMAIN frames' : frames'[k].does = "errdone"
  BY DEF GuardHasEnd
<1>3. PICK k \in DOMAIN frames : frames[k].does = "errdone"
  BY <1>2 DEF GuardHasEnd
<1> DEFINE low == Below
           top == Top
<1>4. low \in Seq(Frame) /\ top \in Frame /\ top.does # "errdone" /\ frames = Append(low, top)
  BY <1>1
<1> HIDE DEF low, top
<1>5. k \in DOMAIN low /\ low[k].does = "errdone"
  <2>1. DOMAIN low = 1 .. Len(low) /\ Len(low) \in Nat /\ DOMAIN frames = 1 .. Len(frames)
        /\ Len(frames) = Len(low) + 1 /\ frames[Len(low) + 1] = top
        /\ \A j \in DOMAIN low : frames[j] = low[j]
    BY <1>1, <1>4, Pushed
  <2> QED BY <1>3, <1>4, <2>1
<1>6. Append(low, f) \in Seq(Frame) /\ k \in DOMAIN Append(low, f) /\ Append(low, f)[k] = low[k]
  BY <1>4, <1>5, Pushed
<1>7. k \in DOMAIN Append(Append(low, f), g) /\ Append(Append(low, f), g)[k] = low[k]
  BY <1>6, Pushed
<1>8. k \in DOMAIN Append(frames, f) /\ Append(frames, f)[k] = frames[k]
  BY <1>1, <1>3, Pushed
<1>9. CASE frames' = Below
  BY <1>5, <1>9 DEF low
<1>10. CASE frames' = Append(Below, f)
  BY <1>5, <1>6, <1>10 DEF low
<1>11. CASE frames' = Append(Append(Below, f), g)
  BY <1>5, <1>7, <1>11 DEF low
<1>12. CASE frames' = Append(frames, f)
  BY <1>3, <1>8, <1>12
<1> QED
  BY <1>9, <1>10, <1>11, <1>12

LEMMA GuardNext ==
  ASSUME ~Strangers, Inv, GuardHasEnd, [Next]_vars
  PROVE  GuardHasEnd'
<1>1. ASSUME NEW line, NEW lex, Fault(line, lex) PROVE GuardHasEnd'
  <2>1. CASE handling' = FALSE
    BY <2>1 DEF GuardHasEnd
  <2>2. CASE frames' = <<ErrorDone, Handler>>
    <3>1. 1 \in DOMAIN frames' /\ frames'[1] = ErrorDone
      BY <2>2
    <3> QED BY <3>1 DEF GuardHasEnd, ErrorDone
  <2> QED BY <1>1, <2>1, <2>2 DEF Fault
<1>2. ASSUME Reset PROVE GuardHasEnd'
  BY <1>2 DEF Reset, GuardAfterReset, GuardHasEnd
<1>3. CASE UNCHANGED <<frames, handling>>
  BY <1>3 DEF GuardHasEnd
<1>4. NextFrame \in Frame
  BY DEF NextFrame, Frame
<1>5. ASSUME Complete PROVE GuardHasEnd'
  <2>1. Run(parser.items) \in Frame
    BY <1>5, ParserThere DEF Complete, ParserState, Inv, Run, Frame
  <2>2. frames # <<>> /\ Top.does # "errdone" /\ frames' = Append(frames, Run(parser.items)) /\ handling' = handling
    BY <1>5 DEF Complete, Compiling
  <2> QED BY <2>1, <2>2, EndKept
<1>6. ASSUME EndOfSource \/ Leave \/ HandlerReturns \/ HandlerReads PROVE GuardHasEnd'
  <2>1. frames # <<>> /\ Top.does # "errdone" /\ frames' = Below /\ handling' = handling
    BY <1>6 DEF EndOfSource, Compiling, Leave, HandlerReturns, HandlerReads
  <2> QED BY <1>4, <2>1, EndKept
<1>7. ASSUME Evaluate \/ ReadItem \/ Nest PROVE GuardHasEnd'
  <2>1. frames # <<>> /\ Top.does = "run" /\ Top.items # <<>> /\ handling' = handling
        /\ frames' \in {Append(Below, Run(Tail(Top.items))), Append(Append(Below, Run(Tail(Top.items))), NextFrame)}
    BY <1>7 DEF Evaluate, ReadItem, Nest, Running, Advanced
  <2>2. Run(Tail(Top.items)) \in Frame
    BY <2>1, RunningTyped DEF Run, Frame
  <2> QED BY <1>4, <2>1, <2>2, EndKept
<1>8. ASSUME Recovered PROVE GuardHasEnd'
  BY <1>8 DEF Recovered, GuardHasEnd
<1>9. ASSUME NEW n, NEW final, Open(n, final) PROVE GuardHasEnd'
  BY <1>9 DEF Open, GuardHasEnd
<1>10. ASSUME VM PROVE GuardHasEnd'
  <2>1. CASE ForceToken \/ Begin \/ Separator \/ Operand \/ Operator \/ Nothing \/ Finish
    <3>1. UNCHANGED <<frames, handling>>
      BY <2>1 DEF ForceToken, Begin, Separator, Operand, Operator, Nothing, Parse, Finish
    <3> QED BY <1>3, <3>1
  <2>2. CASE LexerFailure \/ SyntaxError \/ Error \/ HandlerFaults
    BY <1>1, <2>2 DEF LexerFailure, SyntaxError, Error, HandlerFaults
  <2>3. CASE SetPop \/ HandlerResets
    BY <1>2, <2>3 DEF SetPop, HandlerResets
  <2> QED BY <1>5, <1>6, <1>7, <1>8, <1>10, <2>1, <2>2, <2>3 DEF VM
<1>11. ASSUME NEW n, NEW final, Feed(n, final) PROVE GuardHasEnd'
  BY <1>3, <1>11 DEF Feed
<1>12. ~Stranger
  BY DEF Stranger
<1>13. CASE UNCHANGED vars
  BY <1>3, <1>13 DEF vars
<1> QED
  BY <1>9, <1>10, <1>11, <1>12, <1>13 DEF Next, Host

\* Tokens, contexts and frames keep their shape over every order of pieces, errors and resets.
THEOREM SessionTyped == Spec => []TypeOK
<1>1. Inv => TypeOK
  BY DEF Inv, TypeInv
<1> QED BY <1>1, Invariant, PTL

\* Every source that POPVAL has suspended waits under exactly one parser, for any text nested any
\* number of times and any ERRFUN.
THEOREM NestingHolds == Spec => []NestingMatches
<1>1. Inv => NestingMatches
  BY DEF Inv, Nested, Waiting, NestingMatches
<1> QED BY <1>1, Invariant, PTL

\* Where the host feeds one source to its end, handling_error is set only while the continuation
\* that clears it waits; the run SessionLeak shows how a second source breaks this.
THEOREM GuardEnds == ~Strangers => (Spec => []GuardHasEnd)
<1> SUFFICES ASSUME ~Strangers PROVE Spec => []GuardHasEnd
  OBVIOUS
<1>1. Init => GuardHasEnd
  BY DEF Init, GuardHasEnd
<1>2. Inv /\ GuardHasEnd /\ [Next]_vars => GuardHasEnd'
  BY GuardNext
<1> QED BY <1>1, <1>2, Invariant, PTL DEF Spec

---------------------------------------------------------------------------
(* Where the tokens are *)

\* The stores that keep tokens, and the one of the effects; a frame and a suspended source
\* have theirs.
Unfed == <<1, 0>>
Input == <<2, 0>>
Ahead == <<3, 0>>
Items == <<4, 0>>
Out == <<5, 0>>
FrameAt(k) == <<6, k>>
InputAt(k) == <<7, k>>
AheadAt(k) == <<8, k>>
ItemsAt(k) == <<9, k>>
Stores == {Unfed, Input, Ahead, Items, Out} \cup {FrameAt(k) : k \in Nat}
            \cup {InputAt(k) : k \in Nat} \cup {AheadAt(k) : k \in Nat} \cup {ItemsAt(k) : k \in Nat}

Ids(q) == [k \in DOMAIN q |-> q[k].id]
ItemsOf(p) == IF p = NoParser THEN <<>> ELSE p.items

\* The tokens in each store, by their places in the text.
HeldOf(u, n, a, p, o, fs, ss) ==
  [x \in Stores |->
     IF x = Unfed THEN Ids(u) ELSE IF x = Input THEN Ids(n) ELSE IF x = Ahead THEN Ids(a)
     ELSE IF x = Items THEN Ids(ItemsOf(p)) ELSE IF x = Out THEN o
     ELSE IF x[1] = 6 /\ x[2] \in DOMAIN fs THEN Ids(fs[x[2]].items)
     ELSE IF x[1] = 7 /\ x[2] \in DOMAIN ss THEN Ids(ss[x[2]].input)
     ELSE IF x[1] = 8 /\ x[2] \in DOMAIN ss THEN Ids(ss[x[2]].ahead)
     ELSE IF x[1] = 9 /\ x[2] \in DOMAIN ss THEN Ids(ItemsOf(ss[x[2]].parser)) ELSE <<>>]

Held == HeldOf(unfed, input, ahead, parser, out, frames, sources)

\* No token is in two places, and none nested in an operand is anywhere while the operand is.
Apart(Q) == \A x, y \in Stores : \A i \in DOMAIN Q[x], j \in DOMAIN Q[y] : Q[x][i] = Q[y][j] => x = y /\ i = j
InnerLater(Q) == \A x, y \in Stores : \A i \in DOMAIN Q[x], j \in DOMAIN Q[y] :
                   Q[x][i][2] # 0 => Q[y][j] # <<Q[x][i][1], 0>>
Once(Q) == Apart(Q) /\ InnerLater(Q)

Holdings == [Stores -> Seq(Id)]

\* r is a run of consecutive elements of q.
From(r, q) == \E d \in Nat : \A i \in DOMAIN r : i + d \in DOMAIN q /\ r[i] = q[i + d]

LEMMA FromSelf ==
  ASSUME NEW q \in Seq(Id)
  PROVE  From(q, q) /\ From(<<>>, q) /\ (q # <<>> => From(Tail(q), q))
<1>1. From(q, q)
  <2>1. 0 \in Nat /\ \A i \in DOMAIN q : i + 0 = i
    OBVIOUS
  <2> QED BY <2>1 DEF From
<1>2. From(<<>>, q)
  <2>1. DOMAIN <<>> = {} /\ 0 \in Nat
    OBVIOUS
  <2> QED BY <2>1 DEF From
<1>3. ASSUME q # <<>> PROVE From(Tail(q), q)
  <2>1. \A i \in DOMAIN Tail(q) : i + 1 \in DOMAIN q /\ Tail(q)[i] = q[i + 1]
    BY <1>3
  <2> QED BY <2>1 DEF From
<1> QED
  BY <1>1, <1>2, <1>3

\* Stores may be renamed and lose tokens.
LEMMA Renamed ==
  ASSUME NEW Q \in Holdings, NEW R \in Holdings, Once(Q), NEW f \in [Stores -> Stores],
         \A x, y \in Stores : R[x] # <<>> /\ R[y] # <<>> /\ f[x] = f[y] => x = y,
         \A x \in Stores : From(R[x], Q[f[x]])
  PROVE  Once(R)
<1>1. ASSUME NEW x \in Stores, NEW i \in DOMAIN R[x]
      PROVE  R[x] # <<>> /\ i \in Nat /\ f[x] \in Stores
  <2>1. R[x] \in Seq(Id)
    BY DEF Holdings
  <2> QED BY <2>1
<1>2. Apart(R)
  <2> SUFFICES ASSUME NEW x \in Stores, NEW y \in Stores, NEW i \in DOMAIN R[x], NEW j \in DOMAIN R[y],
                      R[x][i] = R[y][j]
               PROVE  x = y /\ i = j
    BY DEF Apart
  <2>1. PICK d \in Nat : \A k \in DOMAIN R[x] : k + d \in DOMAIN Q[f[x]] /\ R[x][k] = Q[f[x]][k + d]
    BY DEF From
  <2>2. PICK e \in Nat : \A k \in DOMAIN R[y] : k + e \in DOMAIN Q[f[y]] /\ R[y][k] = Q[f[y]][k + e]
    BY DEF From
  <2>3. f[x] = f[y] /\ i + d = j + e
    BY <1>1, <2>1, <2>2 DEF Once, Apart
  <2>4. x = y
    BY <1>1, <2>3
  <2>5. R[x][i] = Q[f[x]][i + d] /\ R[x][j] = Q[f[x]][j + d] /\ i + d \in DOMAIN Q[f[x]] /\ j + d \in DOMAIN Q[f[x]]
    BY <2>1, <2>4
  <2>6. i + d = j + d
    BY <1>1, <2>4, <2>5 DEF Once, Apart
  <2> QED BY <1>1, <2>4, <2>6
<1>3. InnerLater(R)
  <2> SUFFICES ASSUME NEW x \in Stores, NEW y \in Stores, NEW i \in DOMAIN R[x], NEW j \in DOMAIN R[y],
                      R[x][i][2] # 0
               PROVE  R[y][j] # <<R[x][i][1], 0>>
    BY DEF InnerLater
  <2>1. PICK d \in Nat : \A k \in DOMAIN R[x] : k + d \in DOMAIN Q[f[x]] /\ R[x][k] = Q[f[x]][k + d]
    BY DEF From
  <2>2. PICK e \in Nat : \A k \in DOMAIN R[y] : k + e \in DOMAIN Q[f[y]] /\ R[y][k] = Q[f[y]][k + e]
    BY DEF From
  <2> QED BY <1>1, <2>1, <2>2 DEF Once, InnerLater
<1> QED
  BY <1>2, <1>3 DEF Once

LEMMA Thinned ==
  ASSUME NEW Q \in Holdings, NEW R \in Holdings, Once(Q), \A x \in Stores : From(R[x], Q[x])
  PROVE  Once(R)
<1> DEFINE f == [x \in Stores |-> x]
<1>1. f \in [Stores -> Stores] /\ \A x \in Stores : f[x] = x
  OBVIOUS
<1> HIDE DEF f
<1> QED
  BY <1>1, Renamed

\* Every token was in some store before, and different ones were at different places.
Traces(Q, R, s, m) ==
  /\ \A x \in Stores : \A i \in DOMAIN R[x] :
       s[x][i] \in Stores /\ m[x][i] \in DOMAIN Q[s[x][i]] /\ R[x][i] = Q[s[x][i]][m[x][i]]
  /\ \A x, y \in Stores : \A i \in DOMAIN R[x], j \in DOMAIN R[y] :
       s[x][i] = s[y][j] /\ m[x][i] = m[y][j] => x = y /\ i = j

LEMMA Traced ==
  ASSUME NEW Q, NEW R, Once(Q), NEW s, NEW m, Traces(Q, R, s, m)
  PROVE  Once(R)
<1>1. Apart(R)
  BY DEF Once, Apart, Traces
<1>2. InnerLater(R)
  <2> SUFFICES ASSUME NEW x \in Stores, NEW y \in Stores, NEW i \in DOMAIN R[x], NEW j \in DOMAIN R[y],
                      R[x][i][2] # 0
               PROVE  R[y][j] # <<R[x][i][1], 0>>
    BY DEF InnerLater
  <2> QED BY DEF Once, InnerLater, Traces
<1> QED
  BY <1>1, <1>2 DEF Once

Shorter(S, Q, R) == \A x \in S : From(R[x], Q[x])
Distant(S, Q, R, d) ==
  \A x \in S : \A i \in DOMAIN R[x] : i + d[x] \in DOMAIN Q[x] /\ R[x][i] = Q[x][i + d[x]]

\* How far each store has moved up.
LEMMA Distances ==
  ASSUME NEW S, NEW Q, NEW R, Shorter(S, Q, R)
  PROVE  \E d \in [S -> Nat] : Distant(S, Q, R, d)
<1> DEFINE Far(x, e) == \A i \in DOMAIN R[x] : i + e \in DOMAIN Q[x] /\ R[x][i] = Q[x][i + e]
           d == [x \in S |-> CHOOSE e \in Nat : Far(x, e)]
<1>1. ASSUME NEW x \in S PROVE \E e \in Nat : Far(x, e)
  BY DEF From, Shorter
<1>2. \A x \in S : d[x] \in Nat /\ Far(x, d[x])
  <2> HIDE DEF Far
  <2> QED BY <1>1
<1>3. d \in [S -> Nat]
  <2> HIDE DEF Far
  <2> QED BY <1>2
<1> HIDE DEF d
<1>4. Distant(S, Q, R, d)
  BY <1>2 DEF Distant
<1> QED
  BY <1>3, <1>4

\* The first token of a store goes to the end of another.
LEMMA Moved ==
  ASSUME NEW Q \in Holdings, NEW R \in Holdings, Once(Q), NEW a \in Stores, NEW b \in Stores, a # b,
         Q[a] # <<>>, R[a] = Tail(Q[a]), R[b] = Append(Q[b], Head(Q[a])),
         \A x \in Stores \ {a, b} : From(R[x], Q[x])
  PROVE  Once(R)
<1>1. /\ Q[a] \in Seq(Id) /\ Q[b] \in Seq(Id) /\ 1 \in DOMAIN Q[a] /\ Head(Q[a]) = Q[a][1]
      /\ \A x \in Stores : DOMAIN R[x] \subseteq Nat \ {0}
  <2>1. \A x \in Stores : R[x] \in Seq(Id)
    BY DEF Holdings
  <2>2. \A q \in Seq(Id) : DOMAIN q \subseteq Nat \ {0}
    OBVIOUS
  <2> QED BY <2>1, <2>2 DEF Holdings
<1>2. PICK n \in Nat : n = Len(Q[b]) + 1
  BY <1>1
<1>3. /\ DOMAIN R[b] = 1 .. n /\ R[b][n] = Q[a][1] /\ \A i \in 1 .. n : i # n => i \in DOMAIN Q[b] /\ R[b][i] = Q[b][i]
      /\ \A i \in DOMAIN R[a] : i + 1 \in DOMAIN Q[a] /\ R[a][i] = Q[a][i + 1]
  BY <1>1, <1>2
<1>4. PICK e \in [Stores \ {a, b} -> Nat] : \A x \in Stores \ {a, b} : \A i \in DOMAIN R[x] :
              i + e[x] \in DOMAIN Q[x] /\ R[x][i] = Q[x][i + e[x]]
  <2>1. PICK S : S = Stores \ {a, b}
    OBVIOUS
  <2>2. Shorter(S, Q, R)
    BY <2>1 DEF Shorter
  <2>3. \E e \in [S -> Nat] : Distant(S, Q, R, e)
    BY <2>2, Distances
  <2> QED BY <2>1, <2>3 DEF Distant


<1> DEFINE d == [x \in Stores |-> IF x = a THEN 1 ELSE IF x = b THEN 0 ELSE e[x]]
           s == [x \in Stores |-> [i \in Nat |-> IF x = b /\ i = n THEN a ELSE x]]
           m == [x \in Stores |-> [i \in Nat |-> IF x = b /\ i = n THEN 1 ELSE i + d[x]]]
<1>5. d[a] = 1 /\ d[b] = 0 /\ \A x \in Stores : d[x] \in Nat
  <2>1. \A x \in Stores \ {a, b} : e[x] \in Nat
    BY <1>4
  <2> QED BY <2>1
<1>6. \A x \in Stores : \A i \in DOMAIN R[x] : /\ s[x][i] = IF x = b /\ i = n THEN a ELSE x
                                               /\ m[x][i] = IF x = b /\ i = n THEN 1 ELSE i + d[x]
  <2> HIDE DEF d
  <2> QED BY <1>1
<1>7. \A x \in Stores : \A i \in DOMAIN R[x] :
           ~(x = b /\ i = n) => i + d[x] \in DOMAIN Q[x] /\ R[x][i] = Q[x][i + d[x]]
  <2> SUFFICES ASSUME NEW x \in Stores, NEW i \in DOMAIN R[x], ~(x = b /\ i = n)
               PROVE  i + d[x] \in DOMAIN Q[x] /\ R[x][i] = Q[x][i + d[x]]
    OBVIOUS
  <2>1. CASE x = a
    BY <1>3, <1>5, <2>1
  <2>2. CASE x = b
    <3>1. i + d[x] = i
      <4> HIDE DEF d
      <4> QED BY <1>1, <1>5, <2>2
    <3> QED BY <1>3, <2>2, <3>1
  <2>3. CASE x \notin {a, b}
    BY <1>4, <2>3
  <2> QED BY <2>1, <2>2, <2>3
<1> HIDE DEF d, s, m
<1>8. \A x \in Stores : \A i \in DOMAIN R[x] :
           s[x][i] \in Stores /\ m[x][i] \in DOMAIN Q[s[x][i]] /\ R[x][i] = Q[s[x][i]][m[x][i]]
  BY SMTT(40), <1>1, <1>3, <1>6, <1>7
<1>9. ASSUME NEW x \in Stores, NEW y \in Stores, NEW i \in DOMAIN R[x], NEW j \in DOMAIN R[y],
             s[x][i] = s[y][j], m[x][i] = m[y][j]
      PROVE  x = y /\ i = j
  <2>1. i \in Nat \ {0} /\ j \in Nat \ {0} /\ d[x] \in Nat /\ d[y] \in Nat
    BY <1>1, <1>5
  <2>2. /\ s[x][i] = (IF x = b /\ i = n THEN a ELSE x) /\ m[x][i] = IF x = b /\ i = n THEN 1 ELSE i + d[x]
        /\ s[y][j] = (IF y = b /\ j = n THEN a ELSE y) /\ m[y][j] = IF y = b /\ j = n THEN 1 ELSE j + d[y]
    BY <1>6
  <2>3. CASE x = b /\ i = n
    <3>1. y = b /\ j = n
      <4>1. CASE y = a
        <5>1. m[y][j] = j + 1 /\ m[x][i] = 1
          BY <1>5, <2>2, <2>3, <4>1
        <5>2. j + 1 = 1
          BY <1>9, <5>1, Zenon
        <5>3. \A k \in Nat \ {0} : k + 1 # 1
          OBVIOUS
        <5> QED BY <2>1, <5>2, <5>3, Zenon

      <4>2. CASE y # a
        <5>1. s[x][i] = a /\ s[y][j] = a
          BY <1>9, <2>2, <2>3
        <5>2. ~(y = b /\ j = n) => s[y][j] = y
          BY <2>2
        <5> QED BY <4>2, <5>1, <5>2

      <4> QED BY <4>1, <4>2
    <3> QED BY <2>3, <3>1
  <2>4. CASE y = b /\ j = n
    <3>1. x = b /\ i = n
      <4>1. CASE x = a
        <5>1. m[x][i] = i + 1 /\ m[y][j] = 1
          BY <1>5, <2>2, <2>4, <4>1
        <5>2. i + 1 = 1
          BY <1>9, <5>1, Zenon
        <5>3. \A k \in Nat \ {0} : k + 1 # 1
          OBVIOUS
        <5> QED BY <2>1, <5>2, <5>3, Zenon
      <4>2. CASE x # a
        <5>1. s[y][j] = a /\ s[x][i] = a
          BY <1>9, <2>2, <2>4
        <5>2. ~(x = b /\ i = n) => s[x][i] = x
          BY <2>2
        <5> QED BY <4>2, <5>1, <5>2
      <4> QED BY <4>1, <4>2
    <3> QED BY <2>4, <3>1
  <2>5. CASE ~(x = b /\ i = n) /\ ~(y = b /\ j = n)
    <3>1. x = y /\ i + d[x] = j + d[x]
      BY <1>9, <2>2, <2>5
    <3> QED BY <2>1, <3>1
  <2> QED BY <2>3, <2>4, <2>5
<1>10. Traces(Q, R, s, m)
  BY <1>8, <1>9 DEF Traces
<1> QED
  BY <1>10, Traced

\* A store is cut in two: the beginning goes to another.
LEMMA Divided ==
  ASSUME NEW Q \in Holdings, NEW R \in Holdings, Once(Q), NEW a \in Stores, NEW b \in Stores, a # b,
         NEW n \in Nat, \A i \in DOMAIN R[a] : i + n \in DOMAIN Q[a] /\ R[a][i] = Q[a][i + n],
         \A i \in DOMAIN R[b] : i <= n /\ i \in DOMAIN Q[a] /\ R[b][i] = Q[a][i],
         \A x \in Stores \ {a, b} : R[x] = Q[x]
  PROVE  Once(R)
<1> DEFINE s == [x \in Stores |-> [i \in Nat |-> IF x = b THEN a ELSE x]]
           m == [x \in Stores |-> [i \in Nat |-> IF x = a THEN i + n ELSE i]]
<1>1. \A x \in Stores : DOMAIN R[x] \subseteq Nat \ {0}
  <2>1. \A x \in Stores : R[x] \in Seq(Id)
    BY DEF Holdings
  <2>2. \A q \in Seq(Id) : DOMAIN q \subseteq Nat \ {0}
    OBVIOUS
  <2> QED BY <2>1, <2>2
<1>2. \A x \in Stores : \A i \in DOMAIN R[x] : s[x][i] = (IF x = b THEN a ELSE x) /\ m[x][i] = IF x = a THEN i + n ELSE i
  BY <1>1
<1> HIDE DEF s, m
<1>3. \A x \in Stores : \A i \in DOMAIN R[x] :
           s[x][i] \in Stores /\ m[x][i] \in DOMAIN Q[s[x][i]] /\ R[x][i] = Q[s[x][i]][m[x][i]]
  BY <1>2
<1>4. ASSUME NEW x \in Stores, NEW y \in Stores, NEW i \in DOMAIN R[x], NEW j \in DOMAIN R[y],
             s[x][i] = s[y][j], m[x][i] = m[y][j]
      PROVE  x = y /\ i = j
  <2>1. i \in Nat \ {0} /\ j \in Nat \ {0}
    BY <1>1
  <2>2. x = b => i <= n
    OBVIOUS
  <2>3. y = b => j <= n
    OBVIOUS
  <2> QED BY <1>2, <1>4, <2>1, <2>2, <2>3
<1>5. Traces(Q, R, s, m)
  BY <1>3, <1>4 DEF Traces
<1> QED
  BY <1>5, Traced

\* The tokens of a nested text arrive, when no token of the operand's place is anywhere.
LEMMA Arrived ==
  ASSUME NEW Q \in Holdings, NEW R \in Holdings, Once(Q), NEW b \in Stores, NEW place \in Nat,
         \A i \in DOMAIN R[b] : R[b][i] = <<place, i>>,
         \A x \in Stores : \A i \in DOMAIN Q[x] : Q[x][i][1] # place,
         \A x \in Stores \ {b} : R[x] = Q[x]
  PROVE  Once(R)
<1>1. \A i \in DOMAIN R[b] : i \in Nat \ {0}
  <2>1. R[b] \in Seq(Id)
    BY DEF Holdings
  <2>2. \A q \in Seq(Id) : DOMAIN q \subseteq Nat \ {0}
    OBVIOUS
  <2> QED BY <2>1, <2>2
<1>2. \A i \in DOMAIN R[b] : R[b][i][1] = place /\ R[b][i][2] = i
  OBVIOUS
<1>3. Apart(R)
  <2> SUFFICES ASSUME NEW x \in Stores, NEW y \in Stores, NEW i \in DOMAIN R[x], NEW j \in DOMAIN R[y],
                      R[x][i] = R[y][j]
               PROVE  x = y /\ i = j
    BY DEF Apart
  <2>1. CASE x = b /\ y = b
    BY <1>2, <2>1
  <2>2. CASE x # b /\ y # b
    BY <2>2 DEF Once, Apart
  <2>3. CASE x = b /\ y # b
    BY <1>2, <2>3
  <2>4. CASE x # b /\ y = b
    BY <1>2, <2>4
  <2> QED BY <2>1, <2>2, <2>3, <2>4
<1>4. InnerLater(R)
  <2> SUFFICES ASSUME NEW x \in Stores, NEW y \in Stores, NEW i \in DOMAIN R[x], NEW j \in DOMAIN R[y],
                      R[x][i][2] # 0
               PROVE  R[y][j] # <<R[x][i][1], 0>>
    BY DEF InnerLater
  <2>1. CASE x = b /\ y # b
    <3>1. Q[y][j][1] # place /\ R[x][i][1] = place /\ R[y][j] = Q[y][j]
      BY <1>2, <2>1
    <3> QED BY <3>1
  <2>2. CASE x # b /\ y # b
    BY <2>2 DEF Once, InnerLater
  <2>3. CASE y = b
    BY <1>1, <1>2, <2>3
  <2> QED BY <2>1, <2>2, <2>3
<1> QED
  BY <1>3, <1>4 DEF Once

LEMMA StoreIs ==
  ASSUME NEW x \in Stores
  PROVE  \/ x \in {Unfed, Input, Ahead, Items, Out}
         \/ \E k \in Nat : x \in {FrameAt(k), InputAt(k), AheadAt(k), ItemsAt(k)}
BY DEF Stores

LEMMA Stored ==
  /\ Unfed \in Stores /\ Input \in Stores /\ Ahead \in Stores /\ Items \in Stores /\ Out \in Stores
  /\ \A k \in Nat : FrameAt(k) \in Stores /\ InputAt(k) \in Stores /\ AheadAt(k) \in Stores /\ ItemsAt(k) \in Stores
BY DEF Stores

\* What the kth frame and the kth suspended source hold.
Stacks(Q, fs, ss, k) ==
  /\ Q[FrameAt(k)] = IF k \in DOMAIN fs THEN Ids(fs[k].items) ELSE <<>>
  /\ Q[InputAt(k)] = IF k \in DOMAIN ss THEN Ids(ss[k].input) ELSE <<>>
  /\ Q[AheadAt(k)] = IF k \in DOMAIN ss THEN Ids(ss[k].ahead) ELSE <<>>
  /\ Q[ItemsAt(k)] = IF k \in DOMAIN ss THEN Ids(ItemsOf(ss[k].parser)) ELSE <<>>

LEMMA HeldIs ==
  ASSUME NEW u, NEW n, NEW a, NEW p, NEW o, NEW fs, NEW ss, NEW Q, Q = HeldOf(u, n, a, p, o, fs, ss)
  PROVE  /\ Q[Unfed] = Ids(u) /\ Q[Input] = Ids(n) /\ Q[Ahead] = Ids(a) /\ Q[Items] = Ids(ItemsOf(p)) /\ Q[Out] = o
         /\ \A k \in Nat : Stacks(Q, fs, ss, k)
<1>1. \A x \in Stores : Q[x] =
     IF x = Unfed THEN Ids(u) ELSE IF x = Input THEN Ids(n) ELSE IF x = Ahead THEN Ids(a)
     ELSE IF x = Items THEN Ids(ItemsOf(p)) ELSE IF x = Out THEN o
     ELSE IF x[1] = 6 /\ x[2] \in DOMAIN fs THEN Ids(fs[x[2]].items)
     ELSE IF x[1] = 7 /\ x[2] \in DOMAIN ss THEN Ids(ss[x[2]].input)
     ELSE IF x[1] = 8 /\ x[2] \in DOMAIN ss THEN Ids(ss[x[2]].ahead)
     ELSE IF x[1] = 9 /\ x[2] \in DOMAIN ss THEN Ids(ItemsOf(ss[x[2]].parser)) ELSE <<>>
  BY DEF HeldOf
<1>2. Input # Unfed /\ Ahead \notin {Unfed, Input} /\ Items \notin {Unfed, Input, Ahead} /\ Out \notin {Unfed, Input, Ahead, Items}
  BY DEF Unfed, Input, Ahead, Items, Out
<1>3. Q[Unfed] = Ids(u) /\ Q[Input] = Ids(n) /\ Q[Ahead] = Ids(a) /\ Q[Items] = Ids(ItemsOf(p)) /\ Q[Out] = o
  BY <1>1, <1>2, Stored
<1>4. ASSUME NEW k \in Nat
      PROVE  Stacks(Q, fs, ss, k)
  <2>1. \A x \in {FrameAt(k), InputAt(k), AheadAt(k), ItemsAt(k)} :
           x \notin {Unfed, Input, Ahead, Items, Out} /\ x[2] = k /\ x \in Stores
    <3>1. /\ FrameAt(k)[2] = k /\ InputAt(k)[2] = k /\ AheadAt(k)[2] = k /\ ItemsAt(k)[2] = k
          /\ FrameAt(k)[1] = 6 /\ InputAt(k)[1] = 7 /\ AheadAt(k)[1] = 8 /\ ItemsAt(k)[1] = 9
      BY DEF FrameAt, InputAt, AheadAt, ItemsAt
    <3>2. Unfed[1] = 1 /\ Input[1] = 2 /\ Ahead[1] = 3 /\ Items[1] = 4 /\ Out[1] = 5
      BY DEF Unfed, Input, Ahead, Items, Out
    <3>3. /\ FrameAt(k) \in Stores /\ InputAt(k) \in Stores /\ AheadAt(k) \in Stores /\ ItemsAt(k) \in Stores
      BY Stored
    <3> QED BY <3>1, <3>2, <3>3
  <2>2. FrameAt(k)[1] = 6 /\ InputAt(k)[1] = 7 /\ AheadAt(k)[1] = 8 /\ ItemsAt(k)[1] = 9
    BY DEF FrameAt, InputAt, AheadAt, ItemsAt
  <2>3. /\ FrameAt(k) \in Stores /\ FrameAt(k) \notin {Unfed, Input, Ahead, Items, Out} /\ FrameAt(k)[2] = k
        /\ InputAt(k) \in Stores /\ InputAt(k) \notin {Unfed, Input, Ahead, Items, Out} /\ InputAt(k)[2] = k
        /\ AheadAt(k) \in Stores /\ AheadAt(k) \notin {Unfed, Input, Ahead, Items, Out} /\ AheadAt(k)[2] = k
        /\ ItemsAt(k) \in Stores /\ ItemsAt(k) \notin {Unfed, Input, Ahead, Items, Out} /\ ItemsAt(k)[2] = k
    BY <2>1
  <2>4. Q[FrameAt(k)] = IF k \in DOMAIN fs THEN Ids(fs[k].items) ELSE <<>>
    BY <1>1, <2>2, <2>3
  <2>5. Q[InputAt(k)] = IF k \in DOMAIN ss THEN Ids(ss[k].input) ELSE <<>>
    BY <1>1, <2>2, <2>3
  <2>6. Q[AheadAt(k)] = IF k \in DOMAIN ss THEN Ids(ss[k].ahead) ELSE <<>>
    BY <1>1, <2>2, <2>3
  <2>7. Q[ItemsAt(k)] = IF k \in DOMAIN ss THEN Ids(ItemsOf(ss[k].parser)) ELSE <<>>
    BY <1>1, <2>2, <2>3
  <2> QED BY <2>4, <2>5, <2>6, <2>7 DEF Stacks
<1> QED
  BY <1>3, <1>4

LEMMA IdsAre ==
  ASSUME NEW T, \A t \in T : t.id \in Id, NEW q \in Seq(T)
  PROVE  /\ Ids(q) \in Seq(Id) /\ DOMAIN Ids(q) = DOMAIN q /\ Len(Ids(q)) = Len(q)
         /\ \A i \in DOMAIN q : Ids(q)[i] = q[i].id
         /\ (q = <<>> <=> Ids(q) = <<>>)
         /\ (q # <<>> => Ids(Tail(q)) = Tail(Ids(q)) /\ Head(Ids(q)) = Head(q).id)
         /\ \A t \in T : Ids(Append(q, t)) = Append(Ids(q), t.id)
<1>1. PICK n \in Nat : n = Len(q) /\ DOMAIN q = 1 .. n
  OBVIOUS
<1>2. \A i \in 1 .. n : q[i].id \in Id
  BY <1>1
<1>3. Ids(q) = [k \in 1 .. n |-> q[k].id]
  BY <1>1 DEF Ids
<1>4. Ids(q) \in Seq(Id) /\ DOMAIN Ids(q) = 1 .. n /\ Len(Ids(q)) = n
  BY <1>2, <1>3
<1>5. q = <<>> <=> Ids(q) = <<>>
  BY <1>1, <1>4, EmptySeq
<1>6. ASSUME q # <<>> PROVE Ids(Tail(q)) = Tail(Ids(q)) /\ Head(Ids(q)) = Head(q).id
  <2>1. n \in Nat \ {0}
    BY <1>1, <1>6, EmptySeq
  <2>2. PICK r : r = Ids(q)
    OBVIOUS
  <2>3. r \in Seq(Id) /\ Len(r) = n /\ r # <<>> /\ \A i \in 1 .. n : r[i] = q[i].id
    BY <1>3, <1>4, <1>5, <1>6, <2>2
  <2>4. /\ DOMAIN Tail(q) = 1 .. n - 1 /\ \A i \in 1 .. n - 1 : Tail(q)[i] = q[i + 1]
        /\ Tail(r) \in Seq(Id) /\ Len(Tail(r)) = n - 1 /\ \A i \in 1 .. n - 1 : Tail(r)[i] = r[i + 1]
        /\ Head(q) = q[1] /\ Head(r) = r[1]
    BY <1>1, <1>6, <2>1, <2>3
  <2>5. PICK s : s = Tail(q)
    OBVIOUS
  <2>6. PICK z : z = Tail(r)
    OBVIOUS
  <2>7. DOMAIN s = 1 .. n - 1 /\ \A i \in 1 .. n - 1 : s[i] = q[i + 1]
    BY <2>4, <2>5
  <2>8. z \in Seq(Id) /\ DOMAIN z = 1 .. n - 1 /\ \A i \in 1 .. n - 1 : z[i] = r[i + 1]
    BY <2>1, <2>4, <2>6
  <2>9. Ids(s) = [i \in 1 .. n - 1 |-> s[i].id] /\ z = [i \in 1 .. n - 1 |-> z[i]]
    BY <2>7, <2>8 DEF Ids
  <2>10. \A i \in 1 .. n - 1 : s[i].id = z[i]
    BY <2>1, <2>3, <2>7, <2>8
  <2>11. Ids(s) = z
    BY <2>9, <2>10
  <2>12. Head(r) = Head(q).id
    BY <2>1, <2>3, <2>4
  <2> QED BY <2>2, <2>5, <2>6, <2>11, <2>12
<1>7. ASSUME NEW t \in T PROVE Ids(Append(q, t)) = Append(Ids(q), t.id)
  <2>1. PICK r : r = Ids(q)
    OBVIOUS
  <2>2. r \in Seq(Id) /\ Len(r) = n /\ \A i \in 1 .. n : r[i] = q[i].id
    BY <1>3, <1>4, <2>1
  <2>3. PICK s : s = Append(q, t)
    OBVIOUS
  <2>4. PICK z : z = Append(r, t.id)
    OBVIOUS
  <2>5. DOMAIN s = 1 .. n + 1 /\ \A i \in 1 .. n + 1 : s[i] = IF i = n + 1 THEN t ELSE q[i]
    BY <1>1, <2>3
  <2>6. z \in Seq(Id) /\ DOMAIN z = 1 .. n + 1 /\ \A i \in 1 .. n + 1 : z[i] = IF i = n + 1 THEN t.id ELSE r[i]
    BY <2>2, <2>4
  <2>7. Ids(s) = [i \in 1 .. n + 1 |-> s[i].id] /\ z = [i \in 1 .. n + 1 |-> z[i]]
    BY <2>5, <2>6 DEF Ids
  <2>8. \A i \in 1 .. n + 1 : s[i].id = z[i]
    BY <2>2, <2>5, <2>6
  <2>9. Ids(s) = z
    BY <2>7, <2>8
  <2> QED BY <2>1, <2>3, <2>4, <2>9

<1> QED
  BY <1>1, <1>3, <1>4, <1>5, <1>6, <1>7

LEMMA TokenIds ==
  /\ \A t \in Token : t.id \in Id
  /\ \A t \in TextToken : t.id \in Id
BY DEF Token, TextToken, Id

LEMMA TokensHave ==
  ASSUME NEW q \in Seq(Token)
  PROVE  /\ Ids(q) \in Seq(Id) /\ DOMAIN Ids(q) = DOMAIN q /\ Len(Ids(q)) = Len(q)
         /\ \A i \in DOMAIN q : Ids(q)[i] = q[i].id
         /\ (q = <<>> <=> Ids(q) = <<>>)
         /\ (q # <<>> => Ids(Tail(q)) = Tail(Ids(q)) /\ Head(Ids(q)) = Head(q).id)
         /\ \A t \in Token : Ids(Append(q, t)) = Append(Ids(q), t.id)
BY TokenIds, IdsAre

LEMMA NoIds == Ids(<<>>) = <<>> /\ ItemsOf(NoParser) = <<>>
BY DEF Ids, ItemsOf

LEMMA ItemsTyped ==
  ASSUME NEW p \in Parser
  PROVE  ItemsOf(p) \in Seq(Token)
BY DEF Parser, ItemsOf, NoParser

Components(u, n, a, p, o, fs, ss) ==
  /\ u \in Seq(TextToken) /\ n \in Seq(Token) /\ a \in Seq(Token) /\ p \in Parser /\ o \in Seq(Id)
  /\ fs \in Seq(Frame) /\ ss \in Seq(Context)

LEMMA HeldTyped ==
  ASSUME NEW u, NEW n, NEW a, NEW p, NEW o, NEW fs, NEW ss, NEW Q, Q = HeldOf(u, n, a, p, o, fs, ss),
         Components(u, n, a, p, o, fs, ss)
  PROVE  Q \in Holdings
<1>1. \A q \in Seq(Token) : Ids(q) \in Seq(Id)
  BY TokensHave
<1>2. Ids(u) \in Seq(Id) /\ <<>> \in Seq(Id) /\ o \in Seq(Id)
  <2>1. u \in Seq(TextToken) /\ o \in Seq(Id)
    BY DEF Components
  <2> QED BY SMTT(40), <2>1, TokenIds, IdsAre
<1>3. Q[Unfed] \in Seq(Id) /\ Q[Input] \in Seq(Id) /\ Q[Ahead] \in Seq(Id) /\ Q[Items] \in Seq(Id) /\ Q[Out] \in Seq(Id)
  BY <1>1, <1>2, HeldIs, ItemsTyped DEF Components
<1>4. ASSUME NEW k \in Nat
      PROVE  \A x \in {FrameAt(k), InputAt(k), AheadAt(k), ItemsAt(k)} : Q[x] \in Seq(Id)
  <2>1. Stacks(Q, fs, ss, k)
    BY HeldIs
  <2>2. Q[FrameAt(k)] \in Seq(Id)
    <3>1. k \in DOMAIN fs => fs[k] \in Frame
      BY DEF Components
    <3> QED BY <1>1, <1>2, <2>1, <3>1 DEF Stacks, Frame
  <2>3. k \in DOMAIN ss => ss[k] \in Context
    BY DEF Components
  <2>4. k \in DOMAIN ss => ss[k].input \in Seq(Token) /\ ss[k].ahead \in Seq(Token) /\ ItemsOf(ss[k].parser) \in Seq(Token)
    BY <2>3, ItemsTyped DEF Context
  <2>5. Q[InputAt(k)] \in Seq(Id) /\ Q[AheadAt(k)] \in Seq(Id) /\ Q[ItemsAt(k)] \in Seq(Id)
    BY <1>1, <1>2, <2>1, <2>4 DEF Stacks
  <2> QED BY <2>2, <2>5
<1>5. \A x \in Stores : Q[x] \in Seq(Id)
  BY <1>3, <1>4, StoreIs
<1>6. Q = [x \in Stores |-> Q[x]]
  BY DEF HeldOf
<1> QED
  BY <1>5, <1>6 DEF Holdings

---------------------------------------------------------------------------
(* Effects are those of different tokens *)

\* The tokens of the text are numbered in order.
Numbered == \A k \in DOMAIN text : text[k].id = <<k, 0>>

InvOnce == Inv /\ Numbered /\ Once(Held)

\* What a step makes of the tokens Q in the stores.
Between(Q, R) ==
  /\ Q \in Holdings /\ R \in Holdings
  /\ Q[Unfed] = Ids(unfed) /\ Q[Input] = Ids(input) /\ Q[Ahead] = Ids(ahead)
  /\ Q[Items] = Ids(ItemsOf(parser)) /\ Q[Out] = out
  /\ R[Unfed] = Ids(unfed') /\ R[Input] = Ids(input') /\ R[Ahead] = Ids(ahead')
  /\ R[Items] = Ids(ItemsOf(parser')) /\ R[Out] = out'
  /\ \A k \in Nat : Stacks(Q, frames, sources, k) /\ Stacks(R, frames', sources', k)
  /\ \A x \in Stores : \/ R[x] = Q[x]
                       \/ x = Unfed /\ unfed' # unfed
                       \/ x = Input /\ input' # input
                       \/ x = Ahead /\ ahead' # ahead
                       \/ x = Items /\ parser' # parser
                       \/ x = Out /\ out' # out
                       \/ frames' # frames /\ \E k \in Nat : x = FrameAt(k)
                       \/ sources' # sources /\ \E k \in Nat : x \in {InputAt(k), AheadAt(k), ItemsAt(k)}
  /\ Components(unfed, input, ahead, parser, out, frames, sources)
  /\ Components(unfed', input', ahead', parser', out', frames', sources')
  /\ Once(Q) /\ (Once(R) => Once(Held)')

LEMMA StepBetween ==
  ASSUME InvOnce, Inv'
  PROVE  \E Q, R : Between(Q, R)
<1>1. PICK Q : Q = HeldOf(unfed, input, ahead, parser, out, frames, sources)
  OBVIOUS
<1>2. PICK R : R = HeldOf(unfed', input', ahead', parser', out', frames', sources')
  OBVIOUS
<1>3. ASSUME NEW q \in Seq(TextToken), NEW u \in Seq({q[k] : k \in DOMAIN q}) PROVE u \in Seq(TextToken)
  <2>1. {q[k] : k \in DOMAIN q} \subseteq TextToken
    OBVIOUS
  <2> QED BY <2>1, SeqMonotonic
<1>4. Components(unfed, input, ahead, parser, out, frames, sources)
  BY <1>3 DEF Components, InvOnce, Inv, TypeInv, TypeOK
<1>5. Components(unfed', input', ahead', parser', out', frames', sources')
  BY <1>3 DEF Components, Inv, TypeInv, TypeOK
<1>6. Q \in Holdings /\ R \in Holdings
  BY <1>1, <1>2, <1>4, <1>5, HeldTyped
<1>7. /\ Q[Unfed] = Ids(unfed) /\ Q[Input] = Ids(input) /\ Q[Ahead] = Ids(ahead)
      /\ Q[Items] = Ids(ItemsOf(parser)) /\ Q[Out] = out
      /\ \A k \in Nat : Stacks(Q, frames, sources, k)
  BY <1>1, HeldIs
<1>8. /\ R[Unfed] = Ids(unfed') /\ R[Input] = Ids(input') /\ R[Ahead] = Ids(ahead')
      /\ R[Items] = Ids(ItemsOf(parser')) /\ R[Out] = out'
      /\ \A k \in Nat : Stacks(R, frames', sources', k)
  BY <1>2, HeldIs
<1>9. \A x \in Stores : \/ R[x] = Q[x]
                        \/ x = Unfed /\ unfed' # unfed
                        \/ x = Input /\ input' # input
                        \/ x = Ahead /\ ahead' # ahead
                        \/ x = Items /\ parser' # parser
                        \/ x = Out /\ out' # out
                        \/ frames' # frames /\ \E k \in Nat : x = FrameAt(k)
                        \/ sources' # sources /\ \E k \in Nat : x \in {InputAt(k), AheadAt(k), ItemsAt(k)}
  <2> SUFFICES ASSUME NEW x \in Stores
               PROVE  \/ R[x] = Q[x]
                      \/ x = Unfed /\ unfed' # unfed
                      \/ x = Input /\ input' # input
                      \/ x = Ahead /\ ahead' # ahead
                      \/ x = Items /\ parser' # parser
                      \/ x = Out /\ out' # out
                      \/ frames' # frames /\ \E k \in Nat : x = FrameAt(k)
                      \/ sources' # sources /\ \E k \in Nat : x \in {InputAt(k), AheadAt(k), ItemsAt(k)}
    OBVIOUS
  <2>1. CASE x \in {Unfed, Input, Ahead, Items, Out}
    BY <1>7, <1>8, <2>1
  <2>2. CASE \E k \in Nat : x \in {FrameAt(k), InputAt(k), AheadAt(k), ItemsAt(k)}
    <3>1. PICK k \in Nat : x \in {FrameAt(k), InputAt(k), AheadAt(k), ItemsAt(k)}
      BY <2>2
    <3>2. Stacks(Q, frames, sources, k) /\ Stacks(R, frames', sources', k)
      BY <1>7, <1>8
    <3> QED BY <3>1, <3>2 DEF Stacks
  <2> QED BY <2>1, <2>2, StoreIs
<1>10. Once(Q) /\ (Once(R) => Once(Held)')
  BY <1>1, <1>2 DEF InvOnce, Held
<1>11. Between(Q, R)
  BY <1>4, <1>5, <1>6, <1>7, <1>8, <1>9, <1>10 DEF Between
<1> QED
  BY <1>11

LEMMA Shorter1 ==
  ASSUME NEW Q \in Holdings, NEW x \in Stores
  PROVE  /\ Q[x] \in Seq(Id) /\ From(Q[x], Q[x]) /\ From(<<>>, Q[x])
         /\ (Q[x] # <<>> => From(Tail(Q[x]), Q[x]))
<1>1. Q[x] \in Seq(Id)
  BY DEF Holdings
<1> QED
  BY <1>1, FromSelf

LEMMA ForceOnce == ASSUME InvOnce, Inv', ForceToken PROVE Once(Held)'
<1>1. PICK Q, R : Between(Q, R)
  BY StepBetween
<1>2. /\ input # <<>> /\ input' = Tail(input) /\ ahead = <<>> /\ ahead' = <<Head(input)>>
      /\ UNCHANGED <<unfed, parser, out, frames, sources>>
  BY DEF ForceToken, InputLeft
<1>3. input \in Seq(Token) /\ Head(input) \in Token
  BY <1>1, <1>2, Taken DEF Between, Components
<1>4. /\ Q[Input] # <<>> /\ R[Input] = Tail(Q[Input]) /\ Head(Q[Input]) = Head(input).id
  BY <1>1, <1>2, <1>3, TokensHave DEF Between
<1>5. R[Ahead] = Append(Q[Ahead], Head(Q[Input]))
  <2>1. ahead \in Seq(Token) /\ ahead' = Append(ahead, Head(input))
    BY <1>2
  <2>2. Ids(Append(ahead, Head(input))) = Append(Ids(ahead), Head(input).id)
    BY <1>3, <2>1, TokensHave
  <2> QED BY <1>1, <1>4, <2>1, <2>2 DEF Between
<1>6. \A x \in Stores \ {Input, Ahead} : From(R[x], Q[x])
  <2>1. \A x \in Stores \ {Input, Ahead} : R[x] = Q[x]
    BY <1>1, <1>2 DEF Between
  <2> QED BY <1>1, <2>1, Shorter1 DEF Between
<1>7. Input \in Stores /\ Ahead \in Stores /\ Input # Ahead
  BY Stored DEF Input, Ahead
<1>8. Once(R)
  BY <1>1, <1>4, <1>5, <1>6, <1>7, Moved DEF Between
<1> QED
  BY <1>1, <1>8 DEF Between

\* What the stacks keep.
StacksLess(Q, R) ==
  \A k \in Nat : /\ From(R[FrameAt(k)], Q[FrameAt(k)]) /\ From(R[InputAt(k)], Q[InputAt(k)])
                 /\ From(R[AheadAt(k)], Q[AheadAt(k)]) /\ From(R[ItemsAt(k)], Q[ItemsAt(k)])

LEMMA Everywhere ==
  ASSUME NEW Q, NEW R, StacksLess(Q, R), NEW S \in SUBSET {Unfed, Input, Ahead, Items, Out},
         \A x \in {Unfed, Input, Ahead, Items, Out} \ S : From(R[x], Q[x])
  PROVE  \A x \in Stores \ S : From(R[x], Q[x])
<1> SUFFICES ASSUME NEW x \in Stores, x \notin S PROVE From(R[x], Q[x])
  OBVIOUS
<1>1. CASE x \in {Unfed, Input, Ahead, Items, Out}
  BY <1>1
<1>2. CASE \E k \in Nat : x \in {FrameAt(k), InputAt(k), AheadAt(k), ItemsAt(k)}
  BY <1>2 DEF StacksLess
<1> QED
  BY <1>1, <1>2, StoreIs

\* Each frame that stays keeps its items, or all but the first.
FramesLess ==
  \A k \in DOMAIN frames' :
    \/ frames'[k].items = <<>>
    \/ k \in DOMAIN frames /\ frames'[k].items = frames[k].items
    \/ k \in DOMAIN frames /\ frames[k].items # <<>> /\ frames'[k].items = Tail(frames[k].items)

LEMMA FramesFrom ==
  ASSUME NEW Q, NEW R, Between(Q, R), FramesLess, NEW k \in Nat
  PROVE  From(R[FrameAt(k)], Q[FrameAt(k)])
<1>1. Stacks(Q, frames, sources, k) /\ Stacks(R, frames', sources', k)
  BY DEF Between
<1>2. FrameAt(k) \in Stores
  BY Stored
<1>3. \A x \in Stores : /\ From(Q[x], Q[x]) /\ From(<<>>, Q[x])
                        /\ (Q[x] # <<>> => From(Tail(Q[x]), Q[x]))
  BY Shorter1 DEF Between
<1>4. CASE k \notin DOMAIN frames' \/ frames'[k].items = <<>>
  <2>1. R[FrameAt(k)] = <<>>
    BY <1>1, <1>4, NoIds DEF Stacks
  <2> QED BY <1>2, <1>3, <2>1
<1>5. CASE k \in DOMAIN frames' /\ k \in DOMAIN frames /\ frames'[k].items = frames[k].items
  <2>1. R[FrameAt(k)] = Q[FrameAt(k)]
    BY <1>1, <1>5 DEF Stacks
  <2> QED BY <1>2, <1>3, <2>1
<1>6. CASE k \in DOMAIN frames' /\ k \in DOMAIN frames /\ frames[k].items # <<>> /\ frames'[k].items = Tail(frames[k].items)
  <2>1. frames[k] \in Frame
    BY <1>6 DEF Between, Components
  <2>2. frames[k].items \in Seq(Token)
    BY <2>1 DEF Frame
  <2>3. Q[FrameAt(k)] # <<>> /\ R[FrameAt(k)] = Tail(Q[FrameAt(k)])
    BY <1>1, <1>6, <2>2, TokensHave DEF Stacks
  <2> QED BY <1>2, <1>3, <2>3
<1> QED
  BY <1>4, <1>5, <1>6 DEF FramesLess

LEMMA Lessened ==
  ASSUME NEW Q, NEW R, Between(Q, R), FramesLess, UNCHANGED sources
  PROVE  StacksLess(Q, R)
<1> SUFFICES ASSUME NEW k \in Nat
             PROVE  /\ From(R[FrameAt(k)], Q[FrameAt(k)]) /\ From(R[InputAt(k)], Q[InputAt(k)])
                    /\ From(R[AheadAt(k)], Q[AheadAt(k)]) /\ From(R[ItemsAt(k)], Q[ItemsAt(k)])
  BY DEF StacksLess
<1>1. Stacks(Q, frames, sources, k) /\ Stacks(R, frames', sources', k)
  BY DEF Between
<1>2. InputAt(k) \in Stores /\ AheadAt(k) \in Stores /\ ItemsAt(k) \in Stores
  BY Stored
<1>3. \A x \in Stores : From(Q[x], Q[x])
  BY Shorter1 DEF Between
<1>4. R[InputAt(k)] = Q[InputAt(k)] /\ R[AheadAt(k)] = Q[AheadAt(k)] /\ R[ItemsAt(k)] = Q[ItemsAt(k)]
  BY <1>1 DEF Stacks
<1> QED
  BY <1>2, <1>3, <1>4, FramesFrom

\* The frames a step leaves.
LEMMA FramesKept ==
  ASSUME frames \in Seq(Frame)
  PROVE  /\ frames' = frames => FramesLess
         /\ frames # <<>> /\ frames' = Below => FramesLess
         /\ frames # <<>> /\ frames' = Append(Below, NextFrame) => FramesLess
         /\ frames # <<>> /\ Top.items # <<>> /\ frames' = Advanced => FramesLess
<1>1. frames' = frames => FramesLess
  BY DEF FramesLess
<1>2. ASSUME frames # <<>>
      PROVE  /\ frames' = Below => FramesLess
             /\ frames' = Append(Below, NextFrame) => FramesLess
             /\ Top.items # <<>> /\ frames' = Advanced => FramesLess
  <2>1. PICK n \in Nat : n = Len(frames)
    OBVIOUS
  <2>2. n >= 1 /\ n \in DOMAIN frames /\ DOMAIN frames = 1 .. n /\ Top = frames[n]
    BY <1>2, <2>1 DEF Top
  <2>3. PICK b : b = Below
    OBVIOUS
  <2>4. b \in Seq(Frame) /\ DOMAIN b = 1 .. n - 1 /\ \A i \in 1 .. n - 1 : b[i] = frames[i]
    <3>1. 1 \in 1 .. Len(frames) + 1 /\ Len(frames) - 1 \in 0 .. Len(frames)
      BY <2>1, <2>2
    <3> QED BY <2>1, <2>2, <2>3, <3>1, SubSeqTyped DEF Below
  <2>5. ASSUME frames' = b PROVE FramesLess
    <3>1. \A k \in DOMAIN b : k \in DOMAIN frames /\ b[k] = frames[k]
      BY <2>2, <2>4
    <3> QED BY <2>5, <3>1 DEF FramesLess
  <2>6. \A f : DOMAIN Append(b, f) = 1 .. n /\ Append(b, f)[n] = f /\ \A i \in 1 .. n - 1 : Append(b, f)[i] = b[i]
    BY <2>2, <2>4
  <2>7. NextFrame.items = <<>> /\ Run(Tail(Top.items)).items = Tail(Top.items)
    BY DEF NextFrame, Run
  <2> DEFINE Ends(f) == /\ frames' = Append(b, f)
                        /\ \/ f.items = <<>>
                           \/ frames[n].items # <<>> /\ f.items = Tail(frames[n].items)
  <2>8. ASSUME NEW f, Ends(f) PROVE FramesLess
    <3> SUFFICES ASSUME NEW k \in 1 .. n
                 PROVE  \/ frames'[k].items = <<>>
                        \/ k \in DOMAIN frames /\ frames'[k].items = frames[k].items
                        \/ k \in DOMAIN frames /\ frames[k].items # <<>> /\ frames'[k].items = Tail(frames[k].items)
      BY <2>6, <2>8 DEF FramesLess
    <3>1. CASE k = n
      BY <2>2, <2>6, <2>8, <3>1
    <3>2. CASE k # n
      BY <2>2, <2>4, <2>6, <2>8, <3>2
    <3> QED BY <3>1, <3>2
  <2> HIDE DEF Ends
  <2>9. ASSUME frames' = Append(Below, NextFrame) PROVE FramesLess
    <3>1. PICK f : f = NextFrame
      OBVIOUS
    <3>2. Ends(f)
      BY <2>3, <2>7, <2>9, <3>1 DEF Ends
    <3> QED BY <2>8, <3>2
  <2>10. ASSUME Top.items # <<>>, frames' = Advanced PROVE FramesLess
    <3>1. PICK f : f = Run(Tail(Top.items))
      OBVIOUS
    <3>2. Ends(f)
      BY <2>2, <2>3, <2>7, <2>10, <3>1 DEF Advanced, Ends

    <3> QED BY <2>8, <3>2
  <2> QED BY <2>3, <2>5, <2>9, <2>10

<1> QED
  BY <1>1, <1>2

\* Steps after which the stores hold no more than before.
LessAhead == \/ ahead' = ahead
             \/ ahead' = <<>>
             \/ ahead # <<>> /\ ahead' = Tail(ahead)

LEMMA AheadLess ==
  ASSUME NEW Q, NEW R, Between(Q, R), LessAhead
  PROVE  From(R[Ahead], Q[Ahead])
<1>1. Ahead \in Stores /\ R[Ahead] = Ids(ahead') /\ Q[Ahead] = Ids(ahead) /\ ahead \in Seq(Token)
  BY Stored DEF Between, Components
<1>2. /\ From(Q[Ahead], Q[Ahead]) /\ From(<<>>, Q[Ahead])
      /\ (Q[Ahead] # <<>> => From(Tail(Q[Ahead]), Q[Ahead]))
  BY <1>1, Shorter1 DEF Between
<1>3. CASE ahead' = ahead
  BY <1>1, <1>2, <1>3
<1>4. CASE ahead' = <<>>
  BY <1>1, <1>2, <1>4, NoIds
<1>5. CASE ahead # <<>> /\ ahead' = Tail(ahead)
  <2>1. Q[Ahead] # <<>> /\ R[Ahead] = Tail(Q[Ahead])
    BY <1>1, <1>5, TokensHave
  <2> QED BY <1>2, <2>1
<1> QED
  BY <1>3, <1>4, <1>5 DEF LessAhead

LEMMA LessOnce ==
  ASSUME InvOnce, Inv', FramesLess, LessAhead, UNCHANGED <<unfed, out, sources, input>>,
         ItemsOf(parser') = <<>> \/ ItemsOf(parser') = ItemsOf(parser)
  PROVE  Once(Held)'
<1>1. PICK Q, R : Between(Q, R)
  BY StepBetween
<1>2. StacksLess(Q, R)
  BY <1>1, Lessened
<1>3. From(R[Ahead], Q[Ahead])
  BY <1>1, AheadLess
<1>4. R[Unfed] = Q[Unfed] /\ R[Input] = Q[Input] /\ R[Out] = Q[Out] /\ (R[Items] = <<>> \/ R[Items] = Q[Items])
  BY <1>1, NoIds DEF Between
<1>5. \A x \in Stores : From(Q[x], Q[x]) /\ From(<<>>, Q[x])
  BY <1>1, Shorter1 DEF Between
<1>6. From(R[Unfed], Q[Unfed]) /\ From(R[Input], Q[Input]) /\ From(R[Out], Q[Out]) /\ From(R[Items], Q[Items])
  BY <1>4, <1>5, Stored
<1>7. \A x \in {Unfed, Input, Ahead, Items, Out} \ {} : From(R[x], Q[x])
  BY <1>3, <1>6
<1>8. \A x \in Stores \ {} : From(R[x], Q[x])
  <2>1. {} \in SUBSET {Unfed, Input, Ahead, Items, Out}
    OBVIOUS
  <2>2. PICK S : S = {}
    OBVIOUS
  <2> QED BY <1>2, <1>7, <2>1, <2>2, Everywhere
<1>9. Once(R)
  BY <1>1, <1>8, Thinned DEF Between
<1> QED
  BY <1>1, <1>9 DEF Between

\* A step of the compiler that keeps or drops its state.
LEMMA ParseOnce ==
  ASSUME InvOnce, Inv', Begin \/ Separator \/ Operator \/ Nothing
  PROVE  Once(Held)'
<1>1. UNCHANGED <<unfed, out, sources, input, frames>> /\ LessAhead
  BY DEF Begin, Separator, Operator, Nothing, Parse, Take, Ready, LessAhead
<1>2. ItemsOf(parser') = <<>> \/ ItemsOf(parser') = ItemsOf(parser)
  <2>1. CASE Begin \/ Nothing
    BY <2>1 DEF Begin, Nothing, Parse, ItemsOf, NoParser
  <2>2. CASE Separator
    BY <2>2 DEF Separator, Parse
  <2>3. CASE Operator
    <3>1. parser \in ParserState /\ parser # NoParser
      BY <2>3, ParserThere DEF Operator, InvOnce, Inv
    <3>2. parser' = [parser EXCEPT !.at = "operand"]
      BY <2>3 DEF Operator, Parse
    <3>3. parser'.items = parser.items /\ parser'.at = "operand"
      BY <3>1, <3>2 DEF ParserState
    <3>4. parser' # NoParser
      <4>1. parser' \in ParserState
        BY <3>1, <3>2 DEF ParserState
      <4>2. PICK p \in ParserState : p = parser'
        BY <4>1
      <4>3. DOMAIN p = {"at", "items"} /\ DOMAIN NoParser = {}
        BY DEF ParserState, NoParser
      <4> QED BY <4>2, <4>3
    <3> QED BY <3>1, <3>3, <3>4 DEF ItemsOf
  <2> QED BY <2>1, <2>2, <2>3
<1>3. FramesLess
  BY <1>1 DEF FramesLess
<1> QED
  BY <1>1, <1>2, <1>3, LessOnce

\* The token looked ahead goes to the statement.
LEMMA OperandOnce == ASSUME InvOnce, Inv', Operand PROVE Once(Held)'
<1>1. PICK Q, R : Between(Q, R)
  BY StepBetween
<1>2. /\ ahead # <<>> /\ ahead' = Tail(ahead)
      /\ parser' = [at |-> "after", items |-> Append(parser.items, Head(ahead))]
      /\ parser # NoParser /\ UNCHANGED <<unfed, input, out, frames, sources>>
  BY DEF Operand, Take, Parse, Ready
<1>3. ahead \in Seq(Token) /\ Head(ahead) \in Token /\ parser \in ParserState
  BY <1>1, <1>2, Taken, ParserThere DEF Between, Components, InvOnce, Inv
<1>4. Q[Ahead] # <<>> /\ R[Ahead] = Tail(Q[Ahead]) /\ Head(Q[Ahead]) = Head(ahead).id
  BY <1>1, <1>2, <1>3, TokensHave DEF Between
<1>5. R[Items] = Append(Q[Items], Head(Q[Ahead]))
  <2>1. PICK q \in Seq(Token) : q = parser.items
    BY <1>3 DEF ParserState
  <2>2. parser' # NoParser /\ parser'.items = Append(q, Head(ahead))
    <3>1. PICK p : p = [at |-> "after", items |-> Append(q, Head(ahead))]
      OBVIOUS
    <3>2. DOMAIN p = {"at", "items"} /\ DOMAIN NoParser = {} /\ p.items = Append(q, Head(ahead))
      BY <3>1 DEF NoParser
    <3> QED BY <1>2, <2>1, <3>1, <3>2
  <2>3. ItemsOf(parser) = q /\ ItemsOf(parser') = Append(q, Head(ahead))
    BY <1>2, <2>1, <2>2 DEF ItemsOf
  <2>4. Ids(Append(q, Head(ahead))) = Append(Ids(q), Head(ahead).id)
    BY <1>3, <2>1, TokensHave
  <2> QED BY <1>1, <1>4, <2>3, <2>4 DEF Between
<1>6. \A x \in Stores \ {Ahead, Items} : From(R[x], Q[x])
  <2>1. \A x \in Stores \ {Ahead, Items} : R[x] = Q[x]
    BY <1>1, <1>2 DEF Between
  <2> QED BY <1>1, <2>1, Shorter1 DEF Between
<1>7. Ahead \in Stores /\ Items \in Stores /\ Ahead # Items
  BY Stored DEF Ahead, Items
<1>8. Once(R)
  BY <1>1, <1>4, <1>5, <1>6, <1>7, Moved DEF Between
<1> QED
  BY <1>1, <1>8 DEF Between

\* A statement that ends, an ERRFUN that returns, and the source resumed after it.
LEMMA ReturnOnce ==
  ASSUME InvOnce, Inv', Leave \/ HandlerReturns \/ Recovered
  PROVE  Once(Held)'
<1>1. UNCHANGED <<unfed, out, sources, input, parser>> /\ LessAhead /\ frames # <<>>
      /\ (frames' = Below \/ frames' = Append(Below, NextFrame))
  BY DEF Leave, HandlerReturns, Recovered, LessAhead, source
<1>2. FramesLess
  BY <1>1, FramesKept DEF InvOnce, Inv, TypeInv, TypeOK
<1>3. ItemsOf(parser') = ItemsOf(parser)
  BY <1>1
<1> QED
  BY <1>1, <1>2, <1>3, LessOnce

\* The token of a read goes to the effects.
LEMMA TakenOnce ==
  ASSUME InvOnce, Inv', FramesLess, UNCHANGED <<unfed, input, parser, sources>>,
         ahead # <<>>, ahead' = Tail(ahead), out' = Append(out, Head(ahead).id)
  PROVE  Once(Held)'
<1>1. PICK Q, R : Between(Q, R)
  BY StepBetween
<1>2. ahead \in Seq(Token) /\ Head(ahead) \in Token
  BY <1>1, Taken DEF Between, Components
<1>3. Q[Ahead] # <<>> /\ R[Ahead] = Tail(Q[Ahead]) /\ Head(Q[Ahead]) = Head(ahead).id
  BY <1>1, <1>2, TokensHave DEF Between
<1>4. R[Out] = Append(Q[Out], Head(Q[Ahead]))
  BY <1>1, <1>3 DEF Between
<1>5. \A x \in Stores \ {Ahead, Out} : From(R[x], Q[x])
  <2>1. R[Unfed] = Q[Unfed] /\ R[Input] = Q[Input] /\ R[Items] = Q[Items]
    BY <1>1 DEF Between
  <2>2. \A x \in Stores : From(Q[x], Q[x])
    BY <1>1, Shorter1 DEF Between
  <2>3. \A x \in {Unfed, Input, Ahead, Items, Out} \ {Ahead, Out} : From(R[x], Q[x])
    BY <2>1, <2>2, Stored
  <2>4. StacksLess(Q, R)
    BY <1>1, Lessened
  <2>5. {Ahead, Out} \in SUBSET {Unfed, Input, Ahead, Items, Out}
    OBVIOUS
  <2>6. PICK S : S = {Ahead, Out}
    OBVIOUS
  <2> QED BY <2>3, <2>4, <2>5, <2>6, Everywhere
<1>6. Ahead \in Stores /\ Out \in Stores /\ Ahead # Out
  BY Stored DEF Ahead, Out
<1>7. Once(R)
  BY <1>1, <1>3, <1>4, <1>5, <1>6, Moved DEF Between
<1> QED
  BY <1>1, <1>7 DEF Between

LEMMA ReadOnce ==
  ASSUME InvOnce, Inv', ReadItem \/ HandlerReads
  PROVE  Once(Held)'
<1>1. UNCHANGED <<unfed, input, parser, sources>> /\ frames # <<>>
      /\ \/ frames' = Below
         \/ /\ Top.items # <<>>
            /\ frames' = Advanced
  BY DEF ReadItem, HandlerReads, Running
<1>2. FramesLess
  BY <1>1, FramesKept DEF InvOnce, Inv, TypeInv, TypeOK
<1>3. CASE Ready
  <2>1. ahead # <<>> /\ ahead' = Tail(ahead) /\ out' = Append(out, Head(ahead).id)
    BY <1>3 DEF ReadItem, HandlerReads, Ready
  <2> QED BY <1>1, <1>2, <2>1, TakenOnce
<1>4. CASE ~Ready
  <2>1. LessAhead /\ out' = out
    BY <1>4 DEF ReadItem, HandlerReads, LessAhead
  <2>2. ItemsOf(parser') = ItemsOf(parser)
    BY <1>1
  <2> QED BY <1>1, <1>2, <2>1, <2>2, LessOnce
<1> QED
  BY <1>3, <1>4

\* The operand of a value goes to the effects.
LEMMA EvaluateOnce == ASSUME InvOnce, Inv', Evaluate PROVE Once(Held)'
<1>1. PICK Q, R : Between(Q, R)
  BY StepBetween
<1>2. /\ frames # <<>> /\ Top.does = "run" /\ Top.items # <<>> /\ out' = Append(out, Head(Top.items).id)
      /\ frames' = Advanced /\ UNCHANGED <<unfed, input, ahead, parser, sources>>
  BY DEF Evaluate, Running, source
<1>3. PICK n \in Nat : n = Len(frames) /\ n >= 1 /\ DOMAIN frames = 1 .. n /\ Top = frames[n]
  <2>1. frames \in Seq(Frame)
    BY <1>1 DEF Between, Components
  <2> QED BY <1>2, <2>1 DEF Top
<1>4. PICK q \in Seq(Token) : q = Top.items /\ q # <<>> /\ Head(q) \in Token /\ Tail(q) \in Seq(Token)
  BY <1>2, RunningTyped DEF InvOnce, Inv
<1>5. n \in DOMAIN frames' /\ frames'[n].items = Tail(q)
  <2>1. PICK b \in Seq(Frame) : b = Below /\ Len(b) = n - 1
    <3>1. frames \in Seq(Frame) /\ 1 \in 1 .. Len(frames) + 1 /\ Len(frames) - 1 \in 0 .. Len(frames)
      BY <1>1, <1>3 DEF Between, Components
    <3>2. Below \in Seq(Frame) /\ Len(Below) = n - 1
      BY <1>3, <3>1, SubSeqTyped DEF Below
    <3> QED BY <3>2
  <2>2. PICK f : f = Run(Tail(q))
    OBVIOUS
  <2>3. DOMAIN Append(b, f) = 1 .. n /\ Append(b, f)[n] = f
    BY <1>3, <2>1
  <2>4. f.items = Tail(q) /\ frames' = Append(b, f)
    BY <1>2, <1>4, <2>1, <2>2 DEF Advanced, Run
  <2> QED BY <1>3, <2>3, <2>4
<1>6. Q[FrameAt(n)] = Ids(q) /\ R[FrameAt(n)] = Ids(Tail(q))
  <2>1. Stacks(Q, frames, sources, n) /\ Stacks(R, frames', sources', n)
    BY <1>1 DEF Between
  <2> QED BY <1>3, <1>4, <1>5, <2>1 DEF Stacks
<1>7. Q[FrameAt(n)] # <<>> /\ R[FrameAt(n)] = Tail(Q[FrameAt(n)]) /\ Head(Q[FrameAt(n)]) = Head(q).id
  BY <1>4, <1>6, TokensHave
<1>8. R[Out] = Append(Q[Out], Head(Q[FrameAt(n)]))
  BY <1>1, <1>2, <1>4, <1>7 DEF Between
<1>9. \A x \in Stores \ {FrameAt(n), Out} : From(R[x], Q[x])
  <2>1. R[Unfed] = Q[Unfed] /\ R[Input] = Q[Input] /\ R[Ahead] = Q[Ahead] /\ R[Items] = Q[Items]
    BY <1>1, <1>2 DEF Between
  <2>2. \A x \in Stores : From(Q[x], Q[x])
    BY <1>1, Shorter1 DEF Between
  <2>3. \A x \in {Unfed, Input, Ahead, Items, Out} \ {Out} : From(R[x], Q[x])
    BY <2>1, <2>2, Stored
  <2>4. FramesLess
    BY <1>1, <1>2, FramesKept DEF Between, Components
  <2>5. StacksLess(Q, R)
    BY <1>1, <1>2, <2>4, Lessened
  <2>6. {Out} \in SUBSET {Unfed, Input, Ahead, Items, Out}
    OBVIOUS
  <2>7. PICK S : S = {Out}
    OBVIOUS
  <2>8. \A x \in Stores \ S : From(R[x], Q[x])
    BY <2>3, <2>5, <2>6, <2>7, Everywhere
  <2> QED BY <2>7, <2>8
<1>10. FrameAt(n) \in Stores /\ Out \in Stores /\ FrameAt(n) # Out
  BY Stored DEF FrameAt, Out
<1>11. PICK a \in Stores : a = FrameAt(n)
  BY <1>10
<1>12. Once(R)
  BY <1>1, <1>7, <1>8, <1>9, <1>10, <1>11, Moved DEF Between
<1> QED
  BY <1>1, <1>12 DEF Between

\* The statement's operands go to a frame of their own.
LEMMA CompleteOnce == ASSUME InvOnce, Inv', Complete PROVE Once(Held)'
<1>1. PICK Q, R : Between(Q, R)
  BY StepBetween
<1>2. /\ frames' = Append(frames, Run(parser.items)) /\ parser # NoParser /\ parser' = NoParser
      /\ LessAhead /\ UNCHANGED <<unfed, input, out, sources>>
  BY DEF Complete, Rest, Ready, LessAhead
<1>3. PICK n \in Nat : n = Len(frames) /\ DOMAIN frames = 1 .. n
  <2>1. frames \in Seq(Frame)
    BY <1>1 DEF Between, Components
  <2> QED BY <2>1
<1>4. PICK q : q = parser.items
  OBVIOUS
<1>5. /\ DOMAIN frames' = 1 .. n + 1 /\ frames'[n + 1].items = q
      /\ \A k \in 1 .. n : frames'[k] = frames[k]
  <2>1. PICK f : f = Run(q)
    OBVIOUS
  <2>2. frames' = Append(frames, f) /\ f.items = q /\ frames \in Seq(Frame)
    BY <1>1, <1>2, <1>4, <2>1 DEF Run, Between, Components
  <2>3. /\ DOMAIN Append(frames, f) = 1 .. n + 1 /\ Append(frames, f)[n + 1] = f
        /\ \A k \in 1 .. n : Append(frames, f)[k] = frames[k]
    BY <1>3, <2>2
  <2> QED BY <2>2, <2>3
<1> DEFINE f == [x \in Stores |-> IF x = FrameAt(n + 1) THEN Items ELSE x]
<1>6. f \in [Stores -> Stores] /\ \A x \in Stores : f[x] = IF x = FrameAt(n + 1) THEN Items ELSE x
  BY Stored
<1> HIDE DEF f
<1>7. R[Items] = <<>> /\ R[FrameAt(n + 1)] = Q[Items]
  <2>1. R[Items] = <<>> /\ Q[Items] = Ids(q)
    BY <1>1, <1>2, <1>4, NoIds DEF Between, ItemsOf
  <2>2. Stacks(R, frames', sources', n + 1)
    BY <1>1 DEF Between
  <2> QED BY <1>5, <2>1, <2>2 DEF Stacks
<1>8. \A x \in Stores : From(Q[x], Q[x]) /\ From(<<>>, Q[x])
  BY <1>1, Shorter1 DEF Between
<1>9. \A x \in Stores \ {FrameAt(n + 1), Items, Ahead} : R[x] = Q[x]
  <2> SUFFICES ASSUME NEW x \in Stores, x # FrameAt(n + 1), x # Items, x # Ahead PROVE R[x] = Q[x]
    OBVIOUS
  <2>1. CASE \E k \in Nat : x = FrameAt(k)
    <3>1. PICK k \in Nat : x = FrameAt(k)
      BY <2>1
    <3>2. Stacks(Q, frames, sources, k) /\ Stacks(R, frames', sources', k) /\ k # n + 1
      BY <1>1, <3>1 DEF Between
    <3>3. k \in DOMAIN frames' <=> k \in DOMAIN frames
      BY <1>3, <1>5, <3>2
    <3> QED BY <1>3, <1>5, <3>1, <3>2, <3>3 DEF Stacks
  <2>2. CASE ~\E k \in Nat : x = FrameAt(k)
    BY <1>1, <1>2, <2>2 DEF Between
  <2> QED BY <2>1, <2>2
<1>10. From(R[Ahead], Q[Ahead])
  BY <1>1, <1>2, AheadLess
<1>11. Items # Ahead /\ FrameAt(n + 1) # Ahead /\ FrameAt(n + 1) # Items
  BY DEF Items, Ahead, FrameAt
<1>12. \A x \in Stores : From(R[x], Q[f[x]])
  BY <1>6, <1>7, <1>8, <1>9, <1>10, <1>11, Stored
<1>13. \A x, y \in Stores : R[x] # <<>> /\ R[y] # <<>> /\ f[x] = f[y] => x = y
  BY <1>6, <1>7
<1>14. Once(R)
  BY <1>1, <1>6, <1>12, <1>13, Renamed DEF Between
<1> QED
  BY <1>1, <1>14 DEF Between

\* The source below is restored.
LEMMA EndOfSourceOnce == ASSUME InvOnce, Inv', EndOfSource PROVE Once(Held)'
<1>1. PICK Q, R : Between(Q, R)
  BY StepBetween
<1>2. /\ frames # <<>> /\ frames' = Below /\ UNCHANGED <<unfed, out>>
      /\ ahead = <<>> /\ input = <<>> /\ parser = NoParser
  BY DEF EndOfSource, Compiling, AtEnd
<1>3. FramesLess
  BY <1>1, <1>2, FramesKept DEF Between, Components
<1>4. CASE sources = <<>>
  <2>1. UNCHANGED <<input, ahead, parser, sources>>
    BY <1>4 DEF EndOfSource, source
  <2>2. LessAhead /\ ItemsOf(parser') = ItemsOf(parser)
    BY <2>1 DEF LessAhead
  <2> QED BY <1>2, <1>3, <2>1, <2>2, LessOnce
<1>5. CASE sources # <<>>
  <2>1. PICK n \in Nat : n = Len(sources) /\ n >= 1 /\ DOMAIN sources = 1 .. n
    <3>1. sources \in Seq(Context)
      BY <1>1 DEF Between, Components
    <3> QED BY <1>5, <3>1
  <2>2. /\ input' = sources[n].input /\ ahead' = sources[n].ahead /\ parser' = sources[n].parser
        /\ sources' = SubSeq(sources, 1, n - 1)
    BY <1>5, <2>1 DEF EndOfSource
  <2>3. DOMAIN sources' = 1 .. n - 1 /\ \A k \in 1 .. n - 1 : sources'[k] = sources[k]
    <3>1. sources \in Seq(Context) /\ 1 \in 1 .. Len(sources) + 1 /\ n - 1 \in 0 .. Len(sources)
      BY <1>1, <2>1 DEF Between, Components
    <3>2. PICK s : s = SubSeq(sources, 1, n - 1)
      OBVIOUS
    <3>3. s \in Seq(Context) /\ Len(s) = n - 1 /\ \A i \in 1 .. n - 1 : s[i] = sources[i]
      BY <2>1, <3>1, <3>2, SubSeqTyped
    <3> QED BY <2>1, <2>2, <3>2, <3>3
  <2> DEFINE f == [x \in Stores |-> IF x = Input THEN InputAt(n) ELSE IF x = Ahead THEN AheadAt(n)
                                    ELSE IF x = Items THEN ItemsAt(n) ELSE x]
  <2>4. f \in [Stores -> Stores] /\ \A x \in Stores : f[x] = IF x = Input THEN InputAt(n) ELSE IF x = Ahead THEN AheadAt(n)
                                                            ELSE IF x = Items THEN ItemsAt(n) ELSE x
    BY Stored
  <2> HIDE DEF f
  <2>5. /\ R[Input] = Q[InputAt(n)] /\ R[Ahead] = Q[AheadAt(n)] /\ R[Items] = Q[ItemsAt(n)]
        /\ R[InputAt(n)] = <<>> /\ R[AheadAt(n)] = <<>> /\ R[ItemsAt(n)] = <<>>
    <3>1. Stacks(Q, frames, sources, n) /\ Stacks(R, frames', sources', n)
      BY <1>1 DEF Between
    <3>2. n \in DOMAIN sources /\ n \notin DOMAIN sources'
      BY <2>1, <2>3
    <3>3. R[Input] = Ids(input') /\ R[Ahead] = Ids(ahead') /\ R[Items] = Ids(ItemsOf(parser'))
      BY <1>1 DEF Between
    <3> QED BY <2>2, <3>1, <3>2, <3>3 DEF Stacks
  <2>6. \A x \in Stores : From(Q[x], Q[x]) /\ From(<<>>, Q[x])
    BY <1>1, Shorter1 DEF Between
  <2>7. ASSUME NEW x \in Stores, x \notin {Input, Ahead, Items}
        PROVE  From(R[x], Q[x])
    <3>1. CASE x \in {Unfed, Out}
      <4>1. R[Unfed] = Q[Unfed] /\ R[Out] = Q[Out]
        BY <1>1, <1>2 DEF Between
      <4> QED BY <2>6, <3>1, <4>1
    <3>2. CASE \E k \in Nat : x = FrameAt(k)
      <4>1. PICK k \in Nat : x = FrameAt(k)
        BY <3>2
      <4> QED BY <1>1, <1>3, <4>1, FramesFrom
    <3>3. CASE \E k \in Nat : x \in {InputAt(k), AheadAt(k), ItemsAt(k)}
      <4>1. PICK k \in Nat : x \in {InputAt(k), AheadAt(k), ItemsAt(k)}
        BY <3>3
      <4>2. Stacks(Q, frames, sources, k) /\ Stacks(R, frames', sources', k)
        BY <1>1 DEF Between
      <4>3. k \in DOMAIN sources' => k \in DOMAIN sources /\ sources'[k] = sources[k]
        BY <2>1, <2>3
      <4>4. R[x] = <<>> \/ R[x] = Q[x]
        BY <4>1, <4>2, <4>3 DEF Stacks
      <4> QED BY <2>6, <4>4
    <3> QED BY <2>7, <3>1, <3>2, <3>3, StoreIs
  <2>8. \A x \in Stores : From(R[x], Q[f[x]])
    <3>1. Input \in Stores /\ Ahead \in Stores /\ Items \in Stores
          /\ InputAt(n) \in Stores /\ AheadAt(n) \in Stores /\ ItemsAt(n) \in Stores
      BY Stored
    <3>2. f[Input] = InputAt(n) /\ f[Ahead] = AheadAt(n) /\ f[Items] = ItemsAt(n)
      BY <2>4, <3>1 DEF Input, Ahead, Items
    <3>3. From(R[Input], Q[f[Input]]) /\ From(R[Ahead], Q[f[Ahead]]) /\ From(R[Items], Q[f[Items]])
      BY <2>5, <2>6, <3>1, <3>2
    <3>4. \A x \in Stores : x \notin {Input, Ahead, Items} => f[x] = x
      BY <2>4
    <3> QED BY <2>7, <3>3, <3>4
  <2>9. \A x, y \in Stores : R[x] # <<>> /\ R[y] # <<>> /\ f[x] = f[y] => x = y
    <3>1. /\ InputAt(n)[1] = 7 /\ AheadAt(n)[1] = 8 /\ ItemsAt(n)[1] = 9
      BY DEF InputAt, AheadAt, ItemsAt
    <3> QED BY <2>4, <2>5, <3>1
  <2>10. Once(R)
    BY <1>1, <2>4, <2>8, <2>9, Renamed DEF Between
  <2> QED BY <1>1, <2>10 DEF Between
<1> QED
  BY <1>4, <1>5

LEMMA SkipLineFrom ==
  ASSUME NEW q \in Seq(Token)
  PROVE  From(Ids(SkipLine(q)), Ids(q))
<1>1. PICK s \in Seq(Token) : s = SkipLine(q)
  BY SkipLineTyped
<1>2. PICK d \in Nat : \A i \in DOMAIN s : i + d \in DOMAIN q /\ s[i] = q[i + d]
  BY <1>1, SkipLineTyped
<1>3. /\ DOMAIN Ids(s) = DOMAIN s /\ \A i \in DOMAIN s : Ids(s)[i] = s[i].id
      /\ DOMAIN Ids(q) = DOMAIN q /\ \A i \in DOMAIN q : Ids(q)[i] = q[i].id
  BY TokensHave
<1>4. \A i \in DOMAIN Ids(s) : i + d \in DOMAIN Ids(q) /\ Ids(s)[i] = Ids(q)[i + d]
  BY <1>2, <1>3
<1> QED
  BY <1>1, <1>4 DEF From

\* An error, SETPOP or a stranger leaves what the outermost source holds.
LEMMA AbandonOnce ==
  ASSUME InvOnce, Inv', NEW rest, rest = Outermost.input \/ rest = SkipLine(Outermost.input),
         Abandon(rest), UNCHANGED <<unfed, out>>, \A k \in DOMAIN frames' : frames'[k].items = <<>>
  PROVE  Once(Held)'
<1>1. PICK Q, R : Between(Q, R)
  BY StepBetween
<1>2. input' = rest /\ parser' = NoParser /\ sources' = <<>> /\ ahead' = <<>>
  BY DEF Abandon
<1> DEFINE f == [x \in Stores |-> IF x = Input /\ sources # <<>> THEN InputAt(1) ELSE x]
<1>3. f \in [Stores -> Stores] /\ \A x \in Stores : f[x] = IF x = Input /\ sources # <<>> THEN InputAt(1) ELSE x
  BY Stored
<1> HIDE DEF f
<1>4. R[Unfed] = Q[Unfed] /\ R[Out] = Q[Out] /\ R[Ahead] = <<>> /\ R[Items] = <<>>
  BY <1>1, <1>2, NoIds DEF Between
<1>5. \A k \in Nat : R[FrameAt(k)] = <<>> /\ R[InputAt(k)] = <<>> /\ R[AheadAt(k)] = <<>> /\ R[ItemsAt(k)] = <<>>
  <2> SUFFICES ASSUME NEW k \in Nat
               PROVE  R[FrameAt(k)] = <<>> /\ R[InputAt(k)] = <<>> /\ R[AheadAt(k)] = <<>> /\ R[ItemsAt(k)] = <<>>
    OBVIOUS
  <2>1. Stacks(R, frames', sources', k)
    BY <1>1 DEF Between
  <2>2. k \notin DOMAIN sources'
    BY <1>2
  <2> QED BY <2>1, <2>2, NoIds DEF Stacks
<1>6. From(R[Input], Q[f[Input]])
  <2>1. PICK q : q = Outermost.input
    OBVIOUS
  <2>2. q \in Seq(Token)
    BY <2>1, OutermostTyped DEF InvOnce, Inv
  <2>3. Q[f[Input]] = Ids(q)
    <3>1. CASE sources = <<>>
      BY <1>1, <1>3, <2>1, <3>1, Stored DEF Outermost, Between
    <3>2. CASE sources # <<>>
      <4>1. 1 \in DOMAIN sources
        <5>1. sources \in Seq(Context)
          BY <1>1 DEF Between, Components
        <5> QED BY <3>2, <5>1
      <4>2. Stacks(Q, frames, sources, 1)
        BY <1>1 DEF Between
      <4>3. q = sources[1].input
        BY <2>1, <3>2 DEF Outermost
      <4> QED BY <1>3, <3>2, <4>1, <4>2, <4>3, Stored DEF Stacks
    <3> QED BY <3>1, <3>2
  <2>4. R[Input] = Ids(q) \/ R[Input] = Ids(SkipLine(q))
    BY <1>1, <1>2, <2>1 DEF Between
  <2>5. From(Ids(q), Ids(q)) /\ From(Ids(SkipLine(q)), Ids(q))
    BY <2>2, TokensHave, FromSelf, SkipLineFrom
  <2> QED BY <2>3, <2>4, <2>5
<1>7. \A x \in Stores : From(Q[x], Q[x]) /\ From(<<>>, Q[x])
  BY <1>1, Shorter1 DEF Between
<1>8. \A x \in Stores : R[x] # <<>> => x \in {Unfed, Out, Input}
  BY <1>4, <1>5, StoreIs
<1>9. \A x \in Stores : From(R[x], Q[f[x]])
  <2>1. \A x \in Stores : x # Input => f[x] = x
    BY <1>3
  <2>2. Unfed # Input /\ Out # Input
    BY DEF Unfed, Out, Input
  <2>3. \A x \in Stores : x # Input => R[x] = Q[x] \/ R[x] = <<>>
    BY <1>4, <1>8, <2>2
  <2> QED BY <1>6, <1>7, <2>1, <2>3
<1>10. \A x, y \in Stores : R[x] # <<>> /\ R[y] # <<>> /\ f[x] = f[y] => x = y
  <2>1. InputAt(1) \notin {Unfed, Out, Input}
    BY DEF InputAt, Unfed, Out, Input
  <2> QED BY <1>3, <1>8, <2>1
<1>11. Once(R)
  BY <1>1, <1>3, <1>9, <1>10, Renamed DEF Between
<1> QED
  BY <1>1, <1>11 DEF Between

\* The frames after an error.
LEMMA RecoveringEmpty ==
  /\ \A k \in DOMAIN <<NextFrame>> : <<NextFrame>>[k].items = <<>>
  /\ \A k \in DOMAIN <<ErrorDone, Handler>> : <<ErrorDone, Handler>>[k].items = <<>>
  /\ \A k \in DOMAIN <<>> : <<>>[k].items = <<>>
<1>1. \A a : DOMAIN <<a>> = {1} /\ <<a>>[1] = a
  OBVIOUS
<1>2. \A a, b : DOMAIN <<a, b>> = {1, 2} /\ <<a, b>>[1] = a /\ <<a, b>>[2] = b
  OBVIOUS
<1>3. NextFrame.items = <<>> /\ ErrorDone.items = <<>> /\ Handler.items = <<>>
  BY DEF NextFrame, ErrorDone, Handler
<1>4. DOMAIN <<>> = {}
  OBVIOUS
<1> QED
  BY <1>1, <1>2, <1>3, <1>4

LEMMA FaultOnce ==
  ASSUME InvOnce, Inv', NEW line, NEW lex, Fault(line, lex)
  PROVE  Once(Held)'
<1>1. CASE Guarded
  BY <1>1, AbandonOnce, RecoveringEmpty DEF Fault
<1>2. CASE ~Guarded
  <2>1. PICK rest : rest = Skipped(Outermost.input)
    OBVIOUS
  <2>2. rest = Outermost.input \/ rest = SkipLine(Outermost.input)
    BY <2>1 DEF Skipped
  <2>3. Abandon(rest) /\ frames' = <<ErrorDone, Handler>> /\ UNCHANGED <<unfed, out>>
    BY <1>2, <2>1 DEF Fault
  <2> QED BY <2>2, <2>3, AbandonOnce, RecoveringEmpty
<1> QED
  BY <1>1, <1>2

LEMMA ResetOnce == ASSUME InvOnce, Inv', Reset \/ Stranger PROVE Once(Held)'
<1>1. Abandon(Outermost.input) /\ UNCHANGED <<unfed, out>> /\ frames' \in {<<>>, <<NextFrame>>}
  BY DEF Reset, Stranger
<1>2. \A k \in DOMAIN frames' : frames'[k].items = <<>>
  BY <1>1, RecoveringEmpty
<1>3. PICK rest : rest = Outermost.input
  OBVIOUS
<1> QED
  BY <1>1, <1>2, <1>3, AbandonOnce

\* A nested text is of tokens of its operand's place.
LEMMA NestedIds ==
  ASSUME TypeInv, NEW t \in Token, t.kind = "nested"
  PROVE  /\ t.id[1] \in Nat /\ t.id = <<t.id[1], 0>>
         /\ \A i \in DOMAIN Ids(InnerTokens(t)) : Ids(InnerTokens(t))[i] = <<t.id[1], i>>
<1>1. t.id \in Nat \X Nat /\ t.id[2] = 0
  BY DEF Token, Id
<1>2. t.id[1] \in Nat /\ t.id = <<t.id[1], 0>>
  BY <1>1
<1>3. PICK s : s = InnerTokens(t)
  OBVIOUS
<1>4. \A i \in DOMAIN s : s[i].id = <<t.id[1], i>>
  BY <1>3 DEF InnerTokens
<1>5. \A i \in DOMAIN Ids(s) : i \in DOMAIN s /\ Ids(s)[i] = s[i].id
  BY DEF Ids
<1> QED
  BY <1>2, <1>3, <1>4, <1>5

\* The place of an operand is that of no other token, once the operand is left.
LEMMA PlaceLeft ==
  ASSUME NEW Q \in Holdings, NEW P \in Holdings, Once(Q), NEW f \in [Stores -> Stores],
         \A x \in Stores : From(P[x], Q[f[x]]),
         NEW a \in Stores, Q[a] # <<>>, P[a] = Tail(Q[a]), \A x \in Stores : f[x] = a => x = a,
         NEW place \in Nat, Head(Q[a]) = <<place, 0>>
  PROVE  \A x \in Stores : \A i \in DOMAIN P[x] : P[x][i][1] # place
<1> SUFFICES ASSUME NEW x \in Stores, NEW i \in DOMAIN P[x], P[x][i][1] = place PROVE FALSE
  OBVIOUS
<1>1. PICK d \in Nat : \A k \in DOMAIN P[x] : k + d \in DOMAIN Q[f[x]] /\ P[x][k] = Q[f[x]][k + d]
  BY DEF From
<1>2. PICK z : z = P[x][i]
  OBVIOUS
<1>3. z \in Id /\ i \in Nat \ {0}
  <2>1. PICK q \in Seq(Id) : q = P[x]
    BY DEF Holdings
  <2>2. i \in DOMAIN q /\ z = q[i]
    BY <1>2, <2>1
  <2> QED BY <2>2
<1>4. PICK q \in Seq(Id) : q = Q[a]
  BY DEF Holdings
<1>5. 1 \in DOMAIN Q[a] /\ Q[a][1] = <<place, 0>>
  BY <1>4
<1>6. f[x] \in Stores /\ i + d \in DOMAIN Q[f[x]] /\ Q[f[x]][i + d] = z
  BY <1>1, <1>2
<1>7. z[2] = 0
  <2>1. ASSUME z[2] # 0 PROVE Q[a][1] # <<z[1], 0>>
    BY <1>5, <1>6, <2>1 DEF Once, InnerLater
  <2> QED BY <1>2, <1>5, <2>1
<1>8. z = <<place, 0>>
  <2>1. z \in Nat \X Nat /\ z[1] = place
    BY <1>2, <1>3 DEF Id
  <2>2. z = <<z[1], z[2]>>
    BY <2>1
  <2> QED BY <1>7, <2>1, <2>2

<1>9. f[x] = a /\ i + d = 1
  <2>1. \A y \in Stores : \A k \in DOMAIN Q[y], j \in DOMAIN Q[a] : Q[y][k] = Q[a][j] => y = a /\ k = j
    BY DEF Once, Apart
  <2> QED BY <1>5, <1>6, <1>8, <2>1
<1>10. x = a
  BY <1>9
<1>11. i + 1 \in DOMAIN Q[a] /\ P[x][i] = Q[a][i + 1]
  <2>1. PICK r \in Seq(Id) : r = P[x]
    BY DEF Holdings
  <2>2. r = Tail(q) /\ q # <<>> /\ i \in DOMAIN r
    BY <1>4, <1>10, <2>1
  <2>3. i + 1 \in DOMAIN q /\ r[i] = q[i + 1]
    BY <2>2
  <2> QED BY <1>4, <2>1, <2>3
<1>12. i + 1 = 1
  <2>1. Q[a][i + 1] = Q[a][1]
    BY <1>2, <1>5, <1>8, <1>11
  <2>2. PICK j : j = i + 1
    OBVIOUS
  <2> QED BY <1>5, <1>11, <2>1, <2>2 DEF Once, Apart

<1> QED
  BY <1>3, <1>12

\* The source is suspended, and the nested text is looked ahead.
LEMMA NestOnce == ASSUME InvOnce, Inv', Nest PROVE Once(Held)'
<1>1. PICK Q, R : Between(Q, R)
  BY StepBetween
<1>2. /\ frames # <<>> /\ Top.does = "run" /\ Top.items # <<>> /\ Head(Top.items).kind = "nested"
      /\ frames' = Append(Advanced, NextFrame) /\ sources' = Append(sources, Saved)
      /\ input' = <<>> /\ parser' = NoParser /\ ahead' = InnerTokens(Head(Top.items))
      /\ UNCHANGED <<unfed, out>>
  BY DEF Nest, Running
<1>3. PICK n \in Nat : n = Len(frames) /\ n >= 1 /\ DOMAIN frames = 1 .. n /\ Top = frames[n]
  <2>1. frames \in Seq(Frame)
    BY <1>1 DEF Between, Components
  <2> QED BY <1>2, <2>1 DEF Top
<1>4. PICK q \in Seq(Token) : q = Top.items /\ q # <<>> /\ Head(q) \in Token /\ Tail(q) \in Seq(Token)
  BY <1>2, RunningTyped DEF InvOnce, Inv
<1>5. PICK m \in Nat : m = Len(sources) /\ DOMAIN sources = 1 .. m
  <2>1. sources \in Seq(Context)
    BY <1>1 DEF Between, Components
  <2> QED BY <2>1
<1>6. PICK place \in Nat : /\ Head(q).id = <<place, 0>>
                           /\ \A i \in DOMAIN Ids(ahead') : Ids(ahead')[i] = <<place, i>>
  <2>1. Head(q).kind = "nested" /\ ahead' = InnerTokens(Head(q)) /\ TypeInv
    BY <1>2, <1>4 DEF InvOnce, Inv
  <2>2. PICK t \in Token : t = Head(q)
    BY <1>4
  <2>3. PICK place : place = t.id[1]
    OBVIOUS
  <2> QED BY <2>1, <2>2, <2>3, NestedIds
<1>7. /\ DOMAIN frames' = 1 .. n + 1 /\ frames'[n + 1].items = <<>> /\ frames'[n].items = Tail(q)
      /\ \A k \in 1 .. n - 1 : frames'[k] = frames[k]
  <2>1. PICK b : b = Below
    OBVIOUS
  <2>2. b \in Seq(Frame) /\ Len(b) = n - 1 /\ \A i \in 1 .. n - 1 : b[i] = frames[i]
    <3>1. frames \in Seq(Frame) /\ 1 \in 1 .. Len(frames) + 1 /\ Len(frames) - 1 \in 0 .. Len(frames)
      BY <1>1, <1>3 DEF Between, Components
    <3> QED BY <1>3, <2>1, <3>1, SubSeqTyped DEF Below
  <2>3. PICK f : f = Run(Tail(q))
    OBVIOUS
  <2>4. f \in Frame /\ f.items = Tail(q) /\ NextFrame \in Frame /\ NextFrame.items = <<>>
    BY <1>4, <2>3 DEF Run, NextFrame, Frame
  <2>5. PICK c : c = Append(b, f)
    OBVIOUS
  <2>6. c \in Seq(Frame) /\ Len(c) = n /\ c[n] = f /\ \A i \in 1 .. n - 1 : c[i] = b[i]
    BY <1>3, <2>2, <2>4, <2>5
  <2>7. PICK g : g = NextFrame
    OBVIOUS
  <2>8. DOMAIN Append(c, g) = 1 .. n + 1 /\ Append(c, g)[n + 1] = g /\ \A i \in 1 .. n : Append(c, g)[i] = c[i]
    BY <1>3, <2>4, <2>6, <2>7
  <2>9. frames' = Append(c, g)
    BY <1>2, <1>4, <2>1, <2>3, <2>5, <2>7 DEF Advanced
  <2>10. n \in 1 .. n /\ \A i \in 1 .. n - 1 : i \in 1 .. n
    BY <1>3
  <2> QED BY <2>2, <2>4, <2>6, <2>7, <2>8, <2>9, <2>10
<1>8. /\ DOMAIN sources' = 1 .. m + 1 /\ sources'[m + 1] = Saved /\ \A k \in 1 .. m : sources'[k] = sources[k]
  <2>1. PICK c : c = Saved
    OBVIOUS
  <2>2. sources \in Seq(Context)
    BY <1>1 DEF Between, Components
  <2>3. DOMAIN Append(sources, c) = 1 .. m + 1 /\ Append(sources, c)[m + 1] = c
        /\ \A k \in 1 .. m : Append(sources, c)[k] = sources[k]
    BY <1>5, <2>2
  <2> QED BY <1>2, <2>1, <2>3
\* Between the two, nothing is looked ahead.
<1>9. PICK P : P = HeldOf(unfed', input', <<>>, parser', out', frames', sources')
  OBVIOUS
<1>10. /\ P \in Holdings /\ P[Unfed] = Q[Unfed] /\ P[Out] = Q[Out] /\ P[Input] = <<>> /\ P[Ahead] = <<>> /\ P[Items] = <<>>
       /\ \A k \in Nat : Stacks(P, frames', sources', k)
  <2>1. Components(unfed', input', <<>>, parser', out', frames', sources')
    <3>1. <<>> \in Seq(Token)
      OBVIOUS
    <3> QED BY <1>1, <3>1 DEF Between, Components
  <2>2. P \in Holdings
    BY <1>9, <2>1, HeldTyped
  <2>3. P[Unfed] = Ids(unfed') /\ P[Input] = Ids(input') /\ P[Ahead] = Ids(<<>>)
        /\ P[Items] = Ids(ItemsOf(parser')) /\ P[Out] = out' /\ \A k \in Nat : Stacks(P, frames', sources', k)
    BY <1>9, HeldIs
  <2>4. Q[Unfed] = Ids(unfed) /\ Q[Out] = out
    BY <1>1 DEF Between
  <2> QED BY <1>2, <2>2, <2>3, <2>4, NoIds
<1> DEFINE f == [x \in Stores |-> IF x = InputAt(m + 1) THEN Input ELSE IF x = AheadAt(m + 1) THEN Ahead
                                  ELSE IF x = ItemsAt(m + 1) THEN Items ELSE x]
<1>11. f \in [Stores -> Stores] /\ \A x \in Stores : f[x] = IF x = InputAt(m + 1) THEN Input ELSE IF x = AheadAt(m + 1) THEN Ahead
                                                            ELSE IF x = ItemsAt(m + 1) THEN Items ELSE x
  BY Stored
<1> HIDE DEF f
<1>12. P[InputAt(m + 1)] = Q[Input] /\ P[AheadAt(m + 1)] = Q[Ahead] /\ P[ItemsAt(m + 1)] = Q[Items]
  <2>1. Stacks(P, frames', sources', m + 1)
    BY <1>10
  <2>2. Saved.input = input /\ Saved.ahead = ahead /\ Saved.parser = parser
    BY DEF Saved
  <2>3. Q[Input] = Ids(input) /\ Q[Ahead] = Ids(ahead) /\ Q[Items] = Ids(ItemsOf(parser))
    BY <1>1 DEF Between
  <2> QED BY <1>8, <2>1, <2>2, <2>3 DEF Stacks
<1>13. \A x \in Stores : From(Q[x], Q[x]) /\ From(<<>>, Q[x])
  BY <1>1, Shorter1 DEF Between
<1>14. Q[FrameAt(n)] # <<>> /\ P[FrameAt(n)] = Tail(Q[FrameAt(n)]) /\ Head(Q[FrameAt(n)]) = <<place, 0>>
  <2>1. Stacks(Q, frames, sources, n) /\ Stacks(P, frames', sources', n)
    BY <1>1, <1>10 DEF Between
  <2>2. Q[FrameAt(n)] = Ids(q) /\ P[FrameAt(n)] = Ids(Tail(q))
    BY <1>3, <1>4, <1>7, <2>1 DEF Stacks
  <2> QED BY <1>4, <1>6, <2>2, TokensHave
<1>15. ASSUME NEW k \in Nat, k # n PROVE P[FrameAt(k)] = <<>> \/ P[FrameAt(k)] = Q[FrameAt(k)]
  <2>1. Stacks(Q, frames, sources, k) /\ Stacks(P, frames', sources', k)
    BY <1>1, <1>10 DEF Between
  <2>2. CASE k \in 1 .. n - 1
    BY <1>3, <1>7, <2>1, <2>2 DEF Stacks
  <2>3. CASE k \notin 1 .. n
    <3>1. k \notin DOMAIN frames' \/ frames'[k].items = <<>>
      BY <1>7, <2>3
    <3> QED BY <2>1, <3>1, NoIds DEF Stacks
  <2> QED BY <1>3, <1>15, <2>2, <2>3
<1>16. ASSUME NEW k \in Nat, k # m + 1, NEW x \in {InputAt(k), AheadAt(k), ItemsAt(k)}
       PROVE  P[x] = Q[x]
  <2>1. Stacks(Q, frames, sources, k) /\ Stacks(P, frames', sources', k)
    BY <1>1, <1>10 DEF Between
  <2>2. k \in DOMAIN sources' <=> k \in DOMAIN sources
    BY <1>5, <1>8, <1>16
  <2> QED BY <1>5, <1>8, <1>16, <2>1, <2>2 DEF Stacks
<1>17. \A x \in Stores : From(P[x], Q[f[x]])
  <2> SUFFICES ASSUME NEW x \in Stores PROVE From(P[x], Q[f[x]])
    OBVIOUS
  <2>1. CASE x \in {InputAt(m + 1), AheadAt(m + 1), ItemsAt(m + 1)}
    <3>1. AheadAt(m + 1) # InputAt(m + 1) /\ ItemsAt(m + 1) \notin {InputAt(m + 1), AheadAt(m + 1)}
      BY DEF InputAt, AheadAt, ItemsAt
    <3>2. P[x] = Q[f[x]] /\ f[x] \in Stores
      BY <1>11, <1>12, <2>1, <3>1
    <3> QED BY <1>13, <3>2
  <2>2. CASE x \notin {InputAt(m + 1), AheadAt(m + 1), ItemsAt(m + 1)}
    <3>1. f[x] = x
      BY <1>11, <2>2
    <3>2. CASE x \in {Unfed, Input, Ahead, Items, Out}
      BY <1>10, <1>13, <3>1, <3>2
    <3>3. CASE \E k \in Nat : x = FrameAt(k)
      <4>1. PICK k \in Nat : x = FrameAt(k)
        BY <3>3
      <4>2. CASE k = n
        <5>1. From(Tail(Q[x]), Q[x])
          BY <1>1, <1>14, <4>1, <4>2, Shorter1 DEF Between
        <5> QED BY <1>14, <3>1, <4>1, <4>2, <5>1
      <4>3. CASE k # n
        BY <1>13, <1>15, <3>1, <4>1, <4>3
      <4> QED BY <4>2, <4>3
    <3>4. CASE \E k \in Nat : x \in {InputAt(k), AheadAt(k), ItemsAt(k)}
      <4>1. PICK k \in Nat : x \in {InputAt(k), AheadAt(k), ItemsAt(k)}
        BY <3>4
      <4>2. k # m + 1
        BY <2>2, <4>1
      <4> QED BY <1>13, <1>16, <3>1, <4>1, <4>2
    <3> QED BY <3>2, <3>3, <3>4, StoreIs
  <2> QED BY <2>1, <2>2
<1>18. \A x, y \in Stores : P[x] # <<>> /\ P[y] # <<>> /\ f[x] = f[y] => x = y
  <2>1. InputAt(m + 1)[1] = 7 /\ AheadAt(m + 1)[1] = 8 /\ ItemsAt(m + 1)[1] = 9
        /\ Input[1] = 2 /\ Ahead[1] = 3 /\ Items[1] = 4
    BY DEF InputAt, AheadAt, ItemsAt, Input, Ahead, Items
  <2> QED BY <1>10, <1>11, <2>1
<1>19. Once(P)
  BY <1>1, <1>10, <1>11, <1>17, <1>18, Renamed DEF Between
<1>20. \A x \in Stores : \A i \in DOMAIN P[x] : P[x][i][1] # place
  <2>1. PICK a \in Stores : a = FrameAt(n)
    BY Stored
  <2>2. \A x \in Stores : f[x] = a => x = a
    <3>1. a \notin {Input, Ahead, Items}
      BY <2>1 DEF FrameAt, Input, Ahead, Items
    <3> QED BY <1>11, <3>1
  <2>3. Q[a] # <<>> /\ P[a] = Tail(Q[a]) /\ Head(Q[a]) = <<place, 0>>
    BY <1>14, <2>1
  <2>4. Q \in Holdings /\ P \in Holdings /\ Once(Q) /\ f \in [Stores -> Stores]
    BY <1>1, <1>10, <1>11 DEF Between
  <2> QED BY <1>17, <2>2, <2>3, <2>4, PlaceLeft
<1>21. \A x \in Stores \ {Ahead} : R[x] = P[x]
  <2> SUFFICES ASSUME NEW x \in Stores, x # Ahead PROVE R[x] = P[x]
    OBVIOUS
  <2>1. CASE x \in {Unfed, Input, Items, Out}
    BY <1>1, <1>2, <1>10, <2>1, NoIds DEF Between
  <2>2. CASE \E k \in Nat : x \in {FrameAt(k), InputAt(k), AheadAt(k), ItemsAt(k)}
    <3>1. PICK k \in Nat : x \in {FrameAt(k), InputAt(k), AheadAt(k), ItemsAt(k)}
      BY <2>2
    <3>2. Stacks(R, frames', sources', k) /\ Stacks(P, frames', sources', k)
      BY <1>1, <1>10 DEF Between
    <3> QED BY <3>1, <3>2 DEF Stacks
  <2> QED BY <2>1, <2>2, StoreIs
<1>22. \A i \in DOMAIN R[Ahead] : R[Ahead][i] = <<place, i>>
  BY <1>1, <1>6 DEF Between
<1>23. Once(R)
  <2>1. R \in Holdings /\ P \in Holdings /\ Ahead \in Stores
    BY <1>1, <1>10, Stored DEF Between
  <2>2. PICK b \in Stores : b = Ahead
    BY <2>1
  <2> QED BY <1>19, <1>20, <1>21, <1>22, <2>1, <2>2, Arrived

<1> QED
  BY <1>1, <1>23 DEF Between

\* The host keeps the rest of the text it feeds.
LEMMA Fed ==
  ASSUME NEW Q \in Holdings, NEW R \in Holdings, Once(Q), NEW u \in Seq(TextToken), NEW n \in Nat, n <= Len(u),
         Q[Unfed] = Ids(u), R[Unfed] = Ids(SubSeq(u, n + 1, Len(u))),
         R[Input] = Ids(Lexed(SubSeq(u, 1, n))), \A x \in Stores \ {Unfed, Input} : R[x] = Q[x]
  PROVE  Once(R)
<1>1. n + 1 \in 1 .. Len(u) + 1 /\ Len(u) \in 0 .. Len(u) /\ 1 \in 1 .. Len(u) + 1 /\ n \in 0 .. Len(u)
      /\ DOMAIN u = 1 .. Len(u) /\ Len(u) \in Nat
  OBVIOUS
<1>2. \A i \in DOMAIN u : Q[Unfed][i] = u[i].id
  BY DEF Ids
<1>3. DOMAIN Q[Unfed] = DOMAIN u
  BY DEF Ids
<1>4. \A i \in DOMAIN R[Unfed] : i + n \in DOMAIN Q[Unfed] /\ R[Unfed][i] = Q[Unfed][i + n]
  <2>1. PICK r : r = SubSeq(u, n + 1, Len(u))
    OBVIOUS
  <2>2. /\ r \in Seq(TextToken) /\ Len(r) = IF n + 1 <= Len(u) THEN Len(u) - (n + 1) + 1 ELSE 0
        /\ \A i \in 1 .. Len(r) : r[i] = u[(n + 1) + i - 1]
    BY <1>1, <2>1, SubSeqTyped
  <2>3. \A i \in Nat : (n + 1) + i - 1 = i + n
    OBVIOUS
  <2>9. PICK w \in Nat : w = Len(u) /\ n <= w
    BY <1>1
  <2>10. Len(r) = w - n
    BY <2>2, <2>9
  <2>11. DOMAIN r = 1 .. Len(r)
    BY <2>2
  <2>4. DOMAIN r = 1 .. Len(u) - n /\ \A i \in DOMAIN r : r[i] = u[i + n]
    <3>1. \A i \in 1 .. Len(r) : i \in Nat
      OBVIOUS
    <3> QED BY <2>2, <2>3, <2>9, <2>10, <2>11, <3>1

  <2>5. \A i
 \in DOMAIN r : i + n \in DOMAIN u
    BY <1>1, <2>4
  <2>6. DOMAIN R[Unfed] = DOMAIN r /\ \A i \in DOMAIN r : R[Unfed][i] = r[i].id
    BY <2>1 DEF Ids
  <2> QED BY <1>2, <1>3, <2>4, <2>5, <2>6
<1>5. \A i \in DOMAIN R[Input] : i <= n /\ i \in DOMAIN Q[Unfed] /\ R[Input][i] = Q[Unfed][i]
  <2>1. PICK r : r = SubSeq(u, 1, n)
    OBVIOUS
  <2>2. /\ r \in Seq(TextToken) /\ Len(r) = IF 1 <= n THEN n - 1 + 1 ELSE 0
        /\ \A i \in 1 .. Len(r) : r[i] = u[1 + i - 1]
    BY <1>1, <2>1, SubSeqTyped
  <2>3. \A i \in Nat : 1 + i - 1 = i
    OBVIOUS
  <2>4. DOMAIN r = 1 .. n /\ \A i \in DOMAIN r : r[i] = u[i] /\ i <= n /\ i \in DOMAIN u
    BY <1>1, <2>2, <2>3
  <2>5. PICK s : s = Lexed(r)
    OBVIOUS
  <2>6. \A i \in DOMAIN s : i \in DOMAIN r /\ s[i] = r[i]
    BY <2>2, <2>5, LexedTyped
  <2>7. DOMAIN R[Input] = DOMAIN s /\ \A i \in DOMAIN s : R[Input][i] = s[i].id
    BY <2>1, <2>5 DEF Ids
  <2> QED BY <1>2, <1>3, <2>4, <2>6, <2>7
<1>6. Unfed \in Stores /\ Input \in Stores /\ Unfed # Input
  BY Stored DEF Unfed, Input
<1>7. PICK a \in Stores : a = Unfed
  BY <1>6
<1>8. PICK b \in Stores : b = Input
  BY <1>6
<1> QED
  BY <1>4, <1>5, <1>6, <1>7, <1>8, Divided

LEMMA FeedOnce ==
  ASSUME InvOnce, Inv', NEW n \in Nat, NEW final \in BOOLEAN, Feed(n, final)
  PROVE  Once(Held)'
<1>1. PICK Q, R : Between(Q, R)
  BY StepBetween
<1>2. /\ n <= Len(unfed) /\ unfed' = SubSeq(unfed, n + 1, Len(unfed)) /\ input' = Lexed(SubSeq(unfed, 1, n))
      /\ UNCHANGED <<ahead, parser, out, frames, sources>>
  BY DEF Feed, Chunk
<1>3. \A x \in Stores \ {Unfed, Input} : R[x] = Q[x]
  BY <1>1, <1>2 DEF Between
<1>4. PICK u \in Seq(TextToken) : u = unfed
  BY <1>1 DEF Between, Components
<1>5. /\ Q[Unfed] = Ids(u) /\ R[Unfed] = Ids(SubSeq(u, n + 1, Len(u)))
      /\ R[Input] = Ids(Lexed(SubSeq(u, 1, n))) /\ n <= Len(u)
  BY <1>1, <1>2, <1>4 DEF Between
<1>6. Once(R)
  BY <1>1, <1>3, <1>5, Fed DEF Between
<1> QED
  BY <1>1, <1>6 DEF Between

\* A session starts with the whole text at the host.
LEMMA OpenOnce ==
  ASSUME InvOnce, Inv', NEW n \in Nat, NEW final \in BOOLEAN, Open(n, final)
  PROVE  Once(Held)'
<1>1. PICK Q, R : Between(Q, R)
  BY StepBetween
<1>2. /\ n <= Len(text) /\ unfed' = SubSeq(text, n + 1, Len(text)) /\ input' = Lexed(SubSeq(text, 1, n))
      /\ ahead' = <<>> /\ parser' = NoParser /\ out' = <<>> /\ frames' = <<NextFrame>> /\ sources' = sources
  BY DEF Open, Chunk
<1>3. sources = <<>>
  BY DEF Open, InvOnce, Inv, Quiet
<1>4. PICK u \in Seq(TextToken) : u = text
  BY DEF InvOnce, Inv, TypeInv
<1>5. PICK P : P = HeldOf(u, <<>>, <<>>, NoParser, <<>>, frames', sources')
  OBVIOUS
<1>6. /\ P \in Holdings /\ P[Unfed] = Ids(u) /\ P[Out] = <<>> /\ P[Input] = <<>> /\ P[Ahead] = <<>> /\ P[Items] = <<>>
      /\ \A k \in Nat : Stacks(P, frames', sources', k)
  <2>1. Components(u, <<>>, <<>>, NoParser, <<>>, frames', sources')
    <3>1. <<>> \in Seq(Token) /\ <<>> \in Seq(Id) /\ NoParser \in Parser
      BY DEF Parser
    <3> QED BY <1>1, <3>1 DEF Between, Components
  <2>2. P \in Holdings
    BY <1>5, <2>1, HeldTyped
  <2>3. P[Unfed] = Ids(u) /\ P[Input] = Ids(<<>>) /\ P[Ahead] = Ids(<<>>)
        /\ P[Items] = Ids(ItemsOf(NoParser)) /\ P[Out] = <<>> /\ \A k \in Nat : Stacks(P, frames', sources', k)
    BY <1>5, HeldIs
  <2> QED BY <2>2, <2>3, NoIds
<1>7. \A k \in Nat : \A x \in {FrameAt(k), InputAt(k), AheadAt(k), ItemsAt(k)} : P[x] = <<>> /\ R[x] = <<>>
  <2> SUFFICES ASSUME NEW k \in Nat
               PROVE  \A x \in {FrameAt(k), InputAt(k), AheadAt(k), ItemsAt(k)} : P[x] = <<>> /\ R[x] = <<>>
    OBVIOUS
  <2>1. Stacks(P, frames', sources', k) /\ Stacks(R, frames', sources', k)
    BY <1>1, <1>6 DEF Between
  <2>2. k \notin DOMAIN sources'
    BY <1>2, <1>3
  <2>3. k \in DOMAIN frames' => frames'[k].items = <<>>
    BY <1>2, RecoveringEmpty
  <2> QED BY <2>1, <2>2, <2>3, NoIds DEF Stacks
<1>8. \A x \in Stores : x # Unfed => P[x] = <<>>
  BY <1>6, <1>7, StoreIs
<1>9. \A i \in DOMAIN P[Unfed] : P[Unfed][i] = <<i, 0>>
  <2>1. \A i \in DOMAIN Ids(u) : i \in DOMAIN u /\ Ids(u)[i] = u[i].id
    BY DEF Ids
  <2> QED BY <1>4, <1>6, <2>1 DEF InvOnce, Numbered
<1>10. Once(P)
  <2>1. \A x \in Stores : \A i \in DOMAIN P[x] : x = Unfed /\ P[x][i] = <<i, 0>>
    <3>1. DOMAIN <<>> = {}
      OBVIOUS
    <3> QED BY <1>8, <1>9, <3>1
  <2>2. Apart(P)
    BY <2>1 DEF Apart
  <2>3. InnerLater(P)
    <3>1. \A x \in Stores : \A i \in DOMAIN P[x] : P[x][i][2] = 0
      BY <2>1
    <3> QED BY <3>1 DEF InnerLater
  <2> QED BY <2>2, <2>3 DEF Once
<1>11. \A x \in Stores \ {Unfed, Input} : R[x] = P[x]
  <2>1. R[Ahead] = <<>> /\ R[Items] = <<>> /\ R[Out] = <<>>
    BY <1>1, <1>2, NoIds DEF Between
  <2> QED BY <1>6, <1>7, <2>1, StoreIs
<1>12. /\ R[Unfed] = Ids(SubSeq(u, n + 1, Len(u))) /\ R[Input] = Ids(Lexed(SubSeq(u, 1, n))) /\ n <= Len(u)
       /\ R \in Holdings
  BY <1>1, <1>2, <1>4 DEF Between
<1>13. Once(R)
  BY <1>6, <1>10, <1>11, <1>12, Fed
<1> QED
  BY <1>1, <1>13 DEF Between

LEMMA InitOnce == Init => Numbered /\ Once(Held)
<1> SUFFICES ASSUME Init PROVE Numbered /\ Once(Held)
  OBVIOUS
<1>1. Numbered
  <2>1. PICK s \in Scripts : text = Tokens(s)
    BY DEF Init
  <2> QED BY <2>1 DEF Numbered, Tokens
<1>2. PICK Q : Q = HeldOf(<<>>, <<>>, <<>>, NoParser, <<>>, <<>>, <<>>)
  OBVIOUS
<1>3. \A x \in Stores : Q[x] = <<>>
  <2>1. /\ Q[Unfed] = Ids(<<>>) /\ Q[Input] = Ids(<<>>) /\ Q[Ahead] = Ids(<<>>) /\ Q[Items] = Ids(ItemsOf(NoParser))
        /\ Q[Out] = <<>> /\ \A k \in Nat : Stacks(Q, <<>>, <<>>, k)
    BY <1>2, HeldIs
  <2>2. \A k \in Nat : \A x \in {FrameAt(k), InputAt(k), AheadAt(k), ItemsAt(k)} : Q[x] = <<>>
    <3>1. DOMAIN <<>> = {}
      OBVIOUS
    <3> QED BY <2>1, <3>1 DEF Stacks
  <2> QED BY <2>1, <2>2, NoIds, StoreIs
<1>4. Once(Q)
  <2>1. \A x \in Stores : DOMAIN Q[x] = {}
    BY <1>3
  <2> QED BY <2>1 DEF Once, Apart, InnerLater
<1>5. Held = Q
  BY <1>2 DEF Held, Init
<1> QED
  BY <1>1, <1>4, <1>5

LEMMA NextOnce == InvOnce /\ Inv' /\ [Next]_vars => InvOnce'
<1> SUFFICES ASSUME InvOnce, Inv', [Next]_vars PROVE InvOnce'
  OBVIOUS
<1>1. Numbered'
  <2>1. text' = text
    BY DEF Next, VM, Host, vars, ForceToken, LexerFailure, Begin, Separator, Operand, Operator, SyntaxError,
           Complete, Nothing, EndOfSource, Evaluate, ReadItem, Error, SetPop, Nest, Leave, HandlerReturns,
           HandlerReads, HandlerFaults, HandlerResets, Recovered, Finish, Open, Feed, Stranger, Fault, Reset, Parse
  <2> QED BY <2>1 DEF InvOnce, Numbered
<1>2. ASSUME VM PROVE Once(Held)'
  <2>1. CASE LexerFailure \/ Error \/ HandlerFaults \/ SyntaxError
    BY <2>1, FaultOnce DEF LexerFailure, Error, HandlerFaults, SyntaxError
  <2>2. CASE SetPop \/ HandlerResets
    BY <2>2, ResetOnce DEF SetPop, HandlerResets
  <2>3. CASE Finish
    <3>1. UNCHANGED <<unfed, out, sources, input, parser, ahead, frames>>
      BY <2>3 DEF Finish, source
    <3>2. FramesLess /\ LessAhead /\ ItemsOf(parser') = ItemsOf(parser)
      BY <3>1 DEF FramesLess, LessAhead
    <3> QED BY <3>1, <3>2, LessOnce
  <2> QED
    BY <1>2, <2>1, <2>2, <2>3, ForceOnce, ParseOnce, OperandOnce, CompleteOnce, EndOfSourceOnce, EvaluateOnce,
       ReadOnce, NestOnce, ReturnOnce DEF VM
<1>3. ASSUME Host PROVE Once(Held)'
  <2>1. \A q : Len(q) \in Nat => 0 .. Len(q) \subseteq Nat
    OBVIOUS
  <2>2. Len(text) \in Nat /\ Len(unfed) \in Nat
    <3>1. TypeInv
      BY DEF InvOnce, Inv
    <3>2. \E S : unfed \in Seq(S)
      BY <3>1 DEF TypeInv, TypeOK
    <3>3. text \in Seq(TextToken)
      BY <3>1 DEF TypeInv
    <3> QED BY <3>2, <3>3
  <2> QED BY <1>3, <2>1, <2>2, OpenOnce, FeedOnce, ResetOnce DEF Host
<1>4. ASSUME UNCHANGED vars PROVE Once(Held)'
  <2>1. UNCHANGED <<unfed, out, sources, input, parser, ahead, frames>>

    BY <1>4 DEF vars
  <2>2. FramesLess /\ LessAhead /\ ItemsOf(parser') = ItemsOf(parser)
    BY <2>1 DEF FramesLess, LessAhead
  <2> QED BY <2>1, <2>2, LessOnce
<1> QED
  BY <1>1, <1>2, <1>3, <1>4 DEF Next, InvOnce

\* Whatever suspends, faults or resets the session, no operand is evaluated and no token
\* read twice: the machine keeps each token it has not used in one place, and puts back
\* what it had not taken (NeedInput and NeedList; compile_tokens; initialize_source).
THEOREM EffectsOnce == Spec => []NoReplay
<1>1. Init => InvOnce
  BY InitInv, InitOnce DEF InvOnce
<1>2. InvOnce /\ [Next]_vars => InvOnce'
  BY NextInv, NextOnce DEF InvOnce
<1>3. InvOnce => NoReplay
  <2> SUFFICES ASSUME InvOnce PROVE NoReplay
    OBVIOUS
  <2>1. PICK Q : Q = Held
    OBVIOUS
  <2>2. Q[Out] = out /\ Apart(Q) /\ Out \in Stores
    BY <2>1, HeldIs, Stored DEF Held, InvOnce, Once
  <2> QED BY <2>2 DEF NoReplay, Apart
<1> QED
  BY <1>1, <1>2, <1>3, PTL DEF Spec

=============================================================================
