----------------------------- MODULE NativeNumbers -----------------------------
(***************************************************************************)
(* The arithmetic of 48-bit words (NumericScratch and native_number_* in   *)
(* machine.cpp), which the native runtime and the processor share.         *)
(*                                                                         *)
(* A word is an exponent of E bits and a mantissa of M bits and a sign;    *)
(* its value is m * 2^e / 2^(Bias+M).  In the code M = 40 and E = 7.  An   *)
(* integer is a word whose exponent is Tag.                                *)
(***************************************************************************)
EXTENDS Integers, FiniteSets

CONSTANTS M, E,
          Exponents   \* exponents of the reals that are operands

VARIABLES
  left, right,  \* two numbers
  operation,    \* what was done with them, or ""
  result        \* the word it gave, or Trap

vars == <<left, right, operation, result>>

Bias == 2 ^ (E - 1)
Tag == Bias + M
Half == 2 ^ (M - 1)
Full == 2 ^ M

Word(e, m) == [e |-> e, m |-> m]
Zero == Word(0, 0)
Trap == Word(-1, 0)   \* an exception or a diagnostic
Integer(n) == Word(Tag, n)
IsInteger(w) == w.e \div 2 = Tag \div 2   \* the tag's mask leaves the last bit out

Normal(m) == m >= Half \/ m < -Half
Reals == {Zero} \cup {Word(e, m) : e \in Exponents, m \in {n \in -Full .. Full - 1 : Normal(n)}}
Numbers == Reals \cup {Integer(n) : n \in -Full .. Full - 1}

Abs(n) == IF n < 0 THEN -n ELSE n

---------------------------------------------------------------------------
(* NumericScratch *)

\* The mode's bits: normalization and rounding disabled.
Normalizing(mode) == mode % 2 = 0
Rounding(mode) == (mode \div 2) % 2 = 0

\* Places to the left until the highest bit of v is the mantissa's highest.
Places(v) == M - 1 - (CHOOSE i \in 0 .. M - 1 : 2 ^ i <= v /\ v < 2 ^ (i + 1))

\* A mantissa m and the M bits below it, shifted left until m is normal; `in` are the bits
\* that came in from below.
Normalized(m, low, e) ==
  LET by(c) == [m |-> m * 2 ^ c + low \div 2 ^ (M - c), e |-> e - c, in |-> low \div 2 ^ (M - c)]
      below(n, c) == [m |-> n * 2 ^ c, e |-> e - M - c, in |-> low]
  IN CASE Normal(m) -> [m |-> m, e |-> e, in |-> 0]
       [] m > 0 -> by(Places(m))
       [] m < -1 -> by(Places(-m - 1))
       [] m = 0 /\ low > 0 -> below(low, Places(low))
       [] m = -1 /\ low < Full - 1 -> below(low - Full, Places(Full - 1 - low))
       [] m = -1 /\ low = Full - 1 -> [m |-> -Full, e |-> e - 2 * M, in |-> 1]
       [] OTHER -> [m |-> 0, e |-> e, in |-> 0]

\* normalize_and_round.
NormalizeAndRound(m, e, low, round, mode) ==
  LET n == IF Normalizing(mode) THEN Normalized(m, low, e) ELSE [m |-> m, e |-> e, in |-> 0]
      bits == IF round /\ n.in = 0 /\ Rounding(mode) /\ n.m % 2 = 0 THEN n.m + 1 ELSE n.m
  IN CASE n.e < 0 \/ (Normalizing(mode) /\ n.m = 0) -> Zero
       [] n.e >= 2 ^ E -> Trap
       [] OTHER -> Word(n.e, bits)

\* multiply_mantissas, by halves of the right one; the low part is never negative.
Product(l, r) ==
  LET S == M \div 2
      high == Abs(l) * (Abs(r) \div 2 ^ S)
      low == (Abs(l) * (Abs(r) % (2 ^ S))) + ((high % (2 ^ S)) * 2 ^ S)
      top == (high \div 2 ^ S) + (low \div Full)
  IN IF (l < 0) = (r < 0) THEN [m |-> top, low |-> low % Full]
     ELSE LET rest == Full - (low % Full) IN [m |-> (rest \div Full) - top - 1, low |-> rest % Full]

Outgrown(m) == m >= Full \/ m < -Full

\* multiply.
Multiply(acc, value, mode) ==
  LET p == Product(acc.m, value.m)
      e == acc.e + value.e - Bias
      far == Outgrown(p.m)
  IN IF acc = Zero \/ value = Zero THEN Zero
     ELSE NormalizeAndRound(IF far THEN p.m \div 2 ELSE p.m, IF far THEN e + 1 ELSE e,
                            p.low, p.low # 0, mode)

\* The smaller operand's mantissa d places down: what is left of it and the bits below.
Aligned(m, d) ==
  LET sign == IF m < 0 THEN -1 ELSE 0
  IN CASE d <= M -> [m |-> m \div 2 ^ d, low |-> (m * 2 ^ (M - d)) % Full]
       [] d > M /\ d <= 2 * M -> [m |-> sign, low |-> (m \div 2 ^ (d - M)) % Full]
       [] OTHER -> [m |-> sign, low |-> sign % Full]

\* Mutant: nothing is done about a sum with one bit too many.
ArithmeticAddOutgrown(acc, value, mode) ==
  LET small == IF acc.e < value.e THEN acc ELSE value
      large == IF acc.e < value.e THEN value ELSE acc
      d == large.e - small.e
      s == Aligned(small.m, d)
  IN NormalizeAndRound(s.m + large.m, large.e, s.low, d > 0 /\ s.low # 0, mode)

\* arithmetic_add; an operand to be negated comes negated.
ArithmeticAdd(acc, value, mode) ==
  LET small == IF acc.e < value.e THEN acc ELSE value
      large == IF acc.e < value.e THEN value ELSE acc
      d == large.e - small.e
      s == Aligned(small.m, d)
      sum == s.m + large.m
      round == IF d <= M THEN s.low # 0 ELSE small.m # 0
  IN IF Outgrown(sum)
     THEN NormalizeAndRound(sum \div 2, large.e + 1, s.low \div 2 + (sum % 2) * Half,
                            round \/ sum % 2 = 1, mode)
     ELSE NormalizeAndRound(sum, large.e, s.low, round, mode)

Minus(w) == [w EXCEPT !.m = -@]

\* The digits of a quotient: one a step, positive or negative, or none where the rest is small.
Digits(dividend, divisor) ==
  LET rest[i \in 0 .. M] ==
        IF i = 0 THEN [q |-> 0, d |-> dividend]
        ELSE LET r == rest[i - 1]
                 bit == 2 ^ (M - i)
             IN CASE r.d = 0 -> r
                  [] r.d # 0 /\ Abs(r.d) < Half -> [r EXCEPT !.d = 2 * r.d]
                  [] Abs(r.d) >= Half /\ (r.d > 0) = (divisor > 0) ->
                       [q |-> r.q + bit, d |-> 2 * r.d - divisor]
                  [] OTHER -> [q |-> r.q - bit, d |-> 2 * r.d + divisor]
  IN rest[M].q

\* divide: only a normal divisor is not zero.
Divide(acc, value, mode) ==
  LET far == Abs(acc.m) >= Abs(value.m)
      d == IF far THEN acc.m ELSE 2 * acc.m
      e == acc.e - value.e + Bias
  IN CASE ~Normal(value.m) -> Trap
       [] value.m = Half -> NormalizeAndRound(acc.m, e + 1, 0, FALSE, mode)
       [] OTHER -> NormalizeAndRound(Digits(d, 2 * value.m), IF far THEN e + 1 ELSE e,
                                     0, FALSE, mode)

---------------------------------------------------------------------------
(* native_number_binary, native_number_compare, native_number_intof *)

Truth(t) == Integer(IF t THEN 1 ELSE 0)
Untagged(w) == IF IsInteger(w) THEN ArithmeticAdd(w, Zero, 6) ELSE w

\* Results of integers are tagged again, and every result is checked for its range.
Tagged(w) == IF w = Trap THEN Trap ELSE ArithmeticAdd(w, Integer(0), 3)
InRange(w) == IF w.e > Tag THEN Trap ELSE w

NativeBinary(op, a, b) ==
  LET l == Untagged(a)
      r == Untagged(b)
      raw == CASE op = "+" -> ArithmeticAdd(l, r, 6)
               [] op = "-" -> ArithmeticAdd(l, Minus(r), 6)
               [] op = "*" -> Multiply(l, r, 6)
               [] op = "/" -> Divide(l, r, 6)
      integers == IsInteger(a) /\ IsInteger(b) /\ op # "/"
  IN InRange(IF integers THEN Tagged(raw) ELSE raw)

\* a < b and a > b by the sign of a difference; =< and >= are their negations.
NativeLess(a, b) == ArithmeticAdd(a, Minus(b), 6).m < 0

NativeIntOf(w) == ArithmeticAdd(w, Integer(0), 7)

---------------------------------------------------------------------------
(* The same in the image (p06712, p06733-p06757, p06623-p06660): a word above the tag is *)
(* no number, and a difference is taken in the mode an earlier instruction left           *)

IsNumber(w) == w.e <= Tag
Untyped(w) == IF w.e = Tag THEN ArithmeticAdd(w, Zero, 6) ELSE w

\* Register 13 counts the integers; the stack keeps an integer as the real it was made.
ImageBinary(op, a, b) ==
  LET x == Untyped(a)
      y == Untyped(b)
      integers == Cardinality({i \in {1, 2} : (<<a, b>>)[i].e = Tag})
      raw == CASE op = "+" -> ArithmeticAdd(x, y, 6)
               [] op = "-" -> ArithmeticAdd(x, Minus(y), 6)
               [] op = "*" -> Multiply(x, y, 6)
               [] op = "/" -> Divide(x, y, 6)
      kept == IF integers = 2 /\ op # "/" THEN Tagged(raw) ELSE raw
  IN IF ~IsNumber(a) \/ ~IsNumber(b) \/ ~IsNumber(kept) THEN Trap ELSE kept

\* 06631 subtracts the newer word from the older one, 06623 the other way round; the others
\* exchange the answers.
ImageLess(a, b, mode) == IF ~IsNumber(a) \/ ~IsNumber(b) THEN Trap
                         ELSE Truth(ArithmeticAdd(a, Minus(b), mode).m < 0)

---------------------------------------------------------------------------
(* What a program does *)

Init == left \in Numbers /\ right \in Numbers /\ operation = "" /\ result = Zero

Does(name, w) ==
  operation = "" /\ operation' = name /\ result' = w /\ UNCHANGED <<left, right>>

Binary == \E op \in {"+", "-", "*", "/"} : Does(op, NativeBinary(op, left, right))

Compare == \/ Does("<", Truth(NativeLess(left, right)))
           \/ Does(">", Truth(NativeLess(right, left)))

IntOf == ~IsInteger(left) /\ right = Zero /\ Does("INTOF", NativeIntOf(left))

\* Instructions of the processor, in the mode it is booted in.
Instruction == \/ Does("A+X", ArithmeticAdd(left, right, 0))
               \/ Does("A*X", Multiply(left, right, 0))

Next == Binary \/ Compare \/ IntOf \/ Instruction

Spec == Init /\ [][Next]_vars

---------------------------------------------------------------------------
(* Properties, on exact values n * 2^k in units of 2^-(Bias+M) *)

Scaled(n, k, e) == IF k >= e THEN n * 2 ^ (k - e) ELSE n \div 2 ^ (e - k)
Least(a, b) == IF a < b THEN a ELSE b
Sum(sign) == [k |-> Least(left.e, right.e),
              n |-> Scaled(left.m, left.e, Least(left.e, right.e))
                    + sign * Scaled(right.m, right.e, Least(left.e, right.e))]
Prod == [n |-> left.m * right.m, k |-> left.e + right.e - Tag]

\* x lies where words with exponent e lie, or below them.
Within(x, e) == Scaled(x.n, x.k, e) \in -Full .. Full - 1
Underflows(x) == Scaled(x.n, x.k, 0) \in -Half .. Half - 1
Equals(w, x) == w.m = Scaled(x.n, x.k, w.e) /\ (w.e <= x.k \/ x.n % (2 ^ (w.e - x.k)) = 0)

\* Integers give the integer, other numbers the floor; a result out of range gives none.
RightResult(x) ==
  IF ~Within(x, Tag) THEN result = Trap
  ELSE IF IsInteger(left) /\ IsInteger(right) THEN IsInteger(result) /\ Equals(result, x)
  ELSE IF Underflows(x) THEN result = Zero
  ELSE Normal(result.m) /\ result.m = Scaled(x.n, x.k, result.e)

\* The exact result where a word holds it, otherwise less than a unit of the last place away;
\* of operands that are normal, as bits of others may be lost.
RightRounded(x) ==
  IF IsInteger(left) \/ IsInteger(right) THEN TRUE
  ELSE IF result = Trap THEN ~Within(x, 2 ^ E - 1)
  ELSE IF Underflows(x) THEN result = Zero
  ELSE \/ Equals(result, x)
       \/ LET floor == Scaled(x.n, x.k, result.e)
          IN result.m \in floor .. floor + 1 /\ ~Equals(Word(result.e, floor), x)

\* A quotient is less than a unit of its last place away from the exact one.
RightQuotient ==
  IF result = Trap
  THEN right.m = 0 \/ Abs(left.m) * 2 ^ left.e >= Abs(right.m) * 2 ^ right.e * (Full - 1)
  ELSE right.m # 0 /\
       LET k == Tag + left.e - right.e - result.e   \* left.m * 2^k / right.m is exact
           up(n) == IF k > 0 THEN n * 2 ^ k ELSE n
           down(n) == IF k < 0 THEN n * 2 ^ (-k) ELSE n
       IN \/ result = Zero /\ Abs(up(left.m)) <= Abs(down(right.m)) * Half
          \/ Abs(up(left.m) - down(result.m * right.m)) < Abs(down(right.m))

\* A comparison is right, but for a difference too small for a word.
RightAnswer(difference) ==
  \/ result = Truth(difference.n < 0)
  \/ result = Truth(FALSE) /\ Underflows(difference)

\* What the image gives, whatever the mode left for its comparisons.
AsInTheImage ==
  /\ operation \in {"+", "-", "*", "/"} => result = ImageBinary(operation, left, right)
  /\ operation = "<" =>
       \A mode \in {0, 3, 6, 7} : ImageLess(left, right, mode) = result \/ Underflows(Sum(-1))
  /\ operation = ">" =>
       \A mode \in {0, 3, 6, 7} :
         ImageLess(right, left, mode) = result \/ Underflows([Sum(-1) EXCEPT !.n = -@])

\* Integer results are exact or diagnosed, real ones are the floor of the exact result or
\* within a unit of it, comparisons and INTOF agree with the exact values (normalize_and_round,
\* arithmetic_add, multiply, divide, native_number_binary, _compare and _intof).
NumbersRight ==
  /\ AsInTheImage
  /\ CASE operation = "+" -> RightResult(Sum(1))
       [] operation = "-" -> RightResult(Sum(-1))
       [] operation = "*" -> RightResult(Prod)
       [] operation = "/" -> RightQuotient
       [] operation = "<" -> RightAnswer(Sum(-1))
       [] operation = ">" -> RightAnswer([Sum(-1) EXCEPT !.n = -@])
       [] operation = "INTOF" -> result = Integer(Scaled(left.m, left.e, Tag))
       [] operation = "A+X" -> RightRounded(Sum(1))
       [] operation = "A*X" -> RightRounded(Prod)
       [] OTHER -> TRUE
=============================================================================
