-------------------------------- MODULE Values --------------------------------
(***************************************************************************)
(* Numbers of the standalone interpreter (standalone/src/value.cpp and the *)
(* numeric primitives of primitives.cpp).                                  *)
(*                                                                         *)
(* A number is an integer of Width bits or a real.  A real has at most     *)
(* Digits significant binary digits, fewer than an integer may have, and   *)
(* is written in halves: [is |-> "real", n |-> 3] is 1.5, and an integer   *)
(* is [is |-> "integer", n |-> its value].  The arithmetic of reals is the *)
(* host's and is not modelled.                                             *)
(***************************************************************************)
EXTENDS Integers, Sequences

CONSTANTS Width, Digits, Exponents  \* exponents of reals: a set of naturals

VARIABLES
  operands,  \* the two numbers on the stack
  primitive, \* the one that was called, or ""
  results    \* the numbers it left; none after a fault

vars == <<operands, primitive, results>>

Low == -(2 ^ (Width - 1))
High == 2 ^ (Width - 1) - 1
Fits(n) == n \in Low .. High

Whole(n) == [is |-> "integer", n |-> n]
Real(n) == [is |-> "real", n |-> n]
Integral(v) == v.is = "integer"

Halves == {s * d * 2 ^ e : s \in {-1, 1}, d \in 0 .. 2 ^ Digits - 1, e \in Exponents}
Numbers == {Whole(n) : n \in Low .. High} \cup {Real(n) : n \in Halves}

---------------------------------------------------------------------------
(* value.cpp *)

Sign(n) == IF n > 0 THEN 1 ELSE IF n < 0 THEN -1 ELSE 0

\* The conversion of a real to an integer drops the fraction.
Truncated(h) == IF h >= 0 THEN h \div 2 ELSE -((-h) \div 2)

\* Mutant: an integer is converted before it is compared with a real, to the nearest
\* real that has no more digits.
CompareIntRealConverted(i, h) ==
  Sign((CHOOSE n \in Halves : \A m \in Halves :
          (IF n > 2 * i THEN n - 2 * i ELSE 2 * i - n) <= (IF m > 2 * i THEN m - 2 * i ELSE 2 * i - m))
       - h)

\* compare(i, h) for an integer and a real: the real's range first, then its integral
\* part, then its fraction.
CompareIntReal(i, h) ==
  CASE h >= 2 * (High + 1) -> -1
    [] h < 2 * Low -> 1
    [] OTHER -> IF i # Truncated(h) THEN Sign(i - Truncated(h))
                ELSE -Sign(h - 2 * Truncated(h))

Compare(a, b) ==
  CASE Integral(a) /\ ~Integral(b) -> CompareIntReal(a.n, b.n)
    [] ~Integral(a) /\ Integral(b) -> -CompareIntReal(b.n, a.n)
    [] OTHER -> Sign(a.n - b.n)

\* The set of a result that fits, empty where it does not.
Checked(n) == {n} \cap Low .. High

Product(xs, ys) == {x * y : x \in xs, y \in ys} \cap Low .. High

\* x ! n by squaring; the square that is not needed is not computed.
RECURSIVE Power(_, _, _)
Power(result, xs, exponent) ==
  IF exponent = 0 THEN result
  ELSE LET r == IF exponent % 2 = 1 THEN Product(result, xs) ELSE result
           rest == exponent \div 2
       IN IF rest # 0 /\ Product(xs, xs) = {} THEN {}
          ELSE Power(r, IF rest = 0 THEN xs ELSE Product(xs, xs), rest)

---------------------------------------------------------------------------
(* The primitives *)

Init == operands \in Numbers \X Numbers /\ primitive = "" /\ results = <<>>

a == operands[1]
b == operands[2]

Does(name, left) ==
  /\ primitive = "" /\ primitive' = name
  /\ results' = left /\ UNCHANGED operands

Result(ns) == IF ns = {} THEN <<>> ELSE <<Whole(CHOOSE n \in ns : TRUE)>>

Arithmetic ==
  /\ Integral(a) /\ Integral(b)
  /\ \/ Does("+", Result(Checked(a.n + b.n)))
     \/ Does("-", Result(Checked(a.n - b.n)))
     \/ Does("*", Result(Checked(a.n * b.n)))

\* With a negative exponent ! works on reals.
ToPower == /\ Integral(a) /\ Integral(b) /\ b.n >= 0
           /\ Does("!", Result(Power({1}, {a.n}, b.n)))

\* // leaves the remainder below the quotient.
Divide ==
  /\ Integral(a) /\ Integral(b)
  /\ Does("//",
       IF b.n = 0 \/ (a.n = Low /\ b.n = -1) THEN <<>>
       ELSE LET abs(n) == IF n < 0 THEN -n ELSE n
                q == Sign(a.n) * Sign(b.n) * (abs(a.n) \div abs(b.n))
                r == a.n - q * b.n
            IN IF r # 0 /\ (r < 0) # (b.n < 0) THEN <<Whole(r + b.n), Whole(q - 1)>>
               ELSE <<Whole(r), Whole(q)>>)

Truth(t) == <<Whole(IF t THEN 1 ELSE 0)>>

Relation ==
  \/ Does("<", Truth(Compare(a, b) < 0))
  \/ Does(">", Truth(Compare(a, b) > 0))
  \/ Does("=<", Truth(Compare(a, b) <= 0))
  \/ Does(">=", Truth(Compare(a, b) >= 0))

\* INTOF and SIGN take the upper number.
IntOf ==
  /\ ~Integral(b)
  /\ LET n == b.n \div 2 IN Does("INTOF", IF Fits(n) THEN <<a, Whole(n)>> ELSE <<>>)

SignOf == Does("SIGN", <<a, Whole(Compare(b, Whole(0)))>>)

\* LOGSHIFT: the bits of the first, left or right by the second.
Shift ==
  /\ Integral(a) /\ Integral(b)
  /\ LET bits == a.n % 2 ^ Width
         n == IF b.n >= Width \/ b.n <= -Width THEN 0
              ELSE IF b.n < 0 THEN bits \div 2 ^ (-b.n) ELSE (bits * 2 ^ b.n) % 2 ^ Width
     IN Does("LOGSHIFT", <<Whole(IF n > High THEN n - 2 ^ Width ELSE n)>>)

Next == Arithmetic \/ ToPower \/ Divide \/ Relation \/ IntOf \/ SignOf \/ Shift

Spec == Init /\ [][Next]_vars

---------------------------------------------------------------------------
(* Properties *)

\* What a number is, in halves.
Exact(v) == IF Integral(v) THEN 2 * v.n ELSE v.n

\* The one result, or a fault where the exact one is no integer of Width bits.
RightWhole(n) == results = IF Fits(n) THEN <<Whole(n)>> ELSE <<>>

TrueIf(t) == results[1].n = IF t THEN 1 ELSE 0

\* Integer arithmetic is exact or faults, powers included; // is division to the floor with
\* a remainder of the divisor's sign, and faults only by zero or where the quotient does not
\* fit; and two numbers compare as their exact values do, even
\* where the integer has more digits than a real (arithmetic, compare, Runtime::invoke).
ValuesRight ==
  CASE primitive = "+" -> RightWhole(a.n + b.n)
    [] primitive = "-" -> RightWhole(a.n - b.n)
    [] primitive = "*" -> RightWhole(a.n * b.n)
    [] primitive = "!" -> RightWhole(IF b.n = 0 THEN 1 ELSE a.n ^ b.n)
    [] primitive = "//" ->
         IF results = <<>> THEN b.n = 0 \/ (b.n = -1 /\ ~Fits(-a.n))
         ELSE LET r == results[1].n
                  q == results[2].n
              IN Fits(q) /\ q * b.n + r = a.n /\ (IF b.n > 0 THEN 0 <= r /\ r < b.n ELSE b.n < r /\ r <= 0)
    [] primitive = "<" -> TrueIf(Exact(a) < Exact(b))
    [] primitive = ">" -> TrueIf(Exact(a) > Exact(b))
    [] primitive = "=<" -> TrueIf(Exact(a) <= Exact(b))
    [] primitive = ">=" -> TrueIf(Exact(a) >= Exact(b))
    [] primitive = "SIGN" -> results[2].n = Sign(Exact(b))
    [] primitive = "INTOF" ->
         IF results = <<>> THEN ~(2 * Low <= b.n /\ b.n < 2 * (High + 1))
         ELSE 2 * results[2].n <= b.n /\ b.n < 2 * results[2].n + 2
    [] OTHER -> TRUE
=============================================================================
