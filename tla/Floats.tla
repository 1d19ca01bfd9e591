------------------------------- MODULE Floats -------------------------------
(***************************************************************************)
(* Floating-point numbers in cells, in the layout of IEEE single precision *)
(* with FracBits bits of fraction, and the arithmetic of the x87 unit:     *)
(* exact results, rounded to the nearest number of ExtendedBits bits when  *)
(* they stay in a register and to the nearest cell when they are stored.   *)
(* Exponents of registers are unbounded here.                              *)
(***************************************************************************)
EXTENDS CellWords

CONSTANTS FracBits, ExtendedBits

\* The x87 unit has 64 bits, or 53, for the 24 of a cell.
ASSUME FloatsAssumption ==
  /\ FracBits \in 1..(CellBits - 3)
  /\ ExtendedBits \in Nat /\ ExtendedBits >= 2 * (FracBits + 1) + 2

\* Bits of infinity, without the sign; above it are the NaNs.
SignBit == 2^(CellBits - 1)
Infinity == SignBit - 2^FracBits

\* Numbers are counted in units of the least one that is not 0.
Magnitude(bits) ==
  LET e == bits \div 2^FracBits  f == bits % 2^FracBits
  IN IF e = 0 THEN f ELSE (2^FracBits + f) * 2^(e - 1)
One == Magnitude((2^(CellBits - 2 - FracBits) - 1) * 2^FracBits)

\* n / d units or, for a root, the number whose square is that.
Num(neg, n, d) == [kind |-> "num", neg |-> neg, n |-> n, d |-> d, root |-> FALSE]
Inf(neg) == [Num(neg, 0, 1) EXCEPT !.kind = "inf"]
NaN == [Num(FALSE, 0, 1) EXCEPT !.kind = "nan"]

\* FLD and FILD: exact.
Value(cell) ==
  LET bits == cell % SignBit  neg == cell >= SignBit
  IN IF bits > Infinity THEN NaN ELSE IF bits = Infinity THEN Inf(neg)
     ELSE Num(neg, Magnitude(bits), 1)
Whole(n) == Num(n < 0, Abs(n) * One, 1)

IsNaN(x) == x.kind = "nan"
IsInf(x) == x.kind = "inf"
IsZero(x) == x.kind = "num" /\ x.n = 0
Units(x) == IF x.neg THEN -x.n ELSE x.n

\* Arithmetic on values of cells.
Plus(x, y) ==
  CASE IsNaN(x) \/ IsNaN(y) \/ (IsInf(x) /\ IsInf(y) /\ x.neg # y.neg) -> NaN
    [] IsInf(x) -> x
    [] IsInf(y) -> y
    [] OTHER -> LET sum == Units(x) + Units(y)
                IN Num(sum < 0 \/ (x.neg /\ y.neg), Abs(sum), 1)
Minus(x, y) == Plus(x, [y EXCEPT !.neg = ~@])
Times(x, y) ==
  LET neg == x.neg # y.neg
  IN CASE IsNaN(x) \/ IsNaN(y) \/ (IsInf(x) /\ IsZero(y)) \/ (IsZero(x) /\ IsInf(y)) -> NaN
       [] IsInf(x) \/ IsInf(y) -> Inf(neg)
       [] OTHER -> Num(neg, x.n * y.n, One)
Over(x, y) ==
  LET neg == x.neg # y.neg
  IN CASE IsNaN(x) \/ IsNaN(y) \/ (IsInf(x) /\ IsInf(y)) \/ (IsZero(x) /\ IsZero(y)) -> NaN
       [] IsInf(x) \/ IsZero(y) -> Inf(neg)
       [] IsInf(y) -> Num(neg, 0, 1)
       [] OTHER -> Num(neg, x.n * One, y.n)
Root(x) ==
  CASE x.kind = "num" /\ x.neg /\ x.n # 0 -> NaN
    [] IsInf(x) /\ x.neg -> NaN
    [] x.kind = "num" -> [x EXCEPT !.n = @ * One, !.root = TRUE]
    [] OTHER -> x
Absolute(x) == [x EXCEPT !.neg = FALSE]

\* "less", "equal", "greater", or "unordered" if there is a NaN.
Ordering(x, y) ==
  LET rank(z) == IF IsInf(z) THEN Units([z EXCEPT !.n = Magnitude(Infinity)]) ELSE Units(z)
  IN CASE IsNaN(x) \/ IsNaN(y) -> "unordered"
       [] rank(x) < rank(y) -> "less"
       [] rank(x) = rank(y) -> "equal"
       [] OTHER -> "greater"
-----------------------------------------------------------------------------
\* Whether x, without its sign, is below n / 2 units; whether it is just that.
Below(x, n) == IF x.root THEN 4 * x.n < n * n * x.d ELSE 2 * x.n < n * x.d
Exactly(x, n) == IF x.root THEN 4 * x.n = n * n * x.d ELSE 2 * x.n = n * x.d

\* The bits nearest to x: those with an even last bit if two are.  What is
\* nearer to the number above all numbers than to the largest is infinite.
Nearest(x) ==
  LET middle(b) == Magnitude(b) + Magnitude(b + 1)
      even(b) == b % 2 = 0
  IN CHOOSE b \in 0..Infinity :
       /\ b < Infinity => Below(x, middle(b)) \/ (even(b) /\ Exactly(x, middle(b)))
       /\ b > 0 => ~(Below(x, middle(b - 1)) \/ (~even(b) /\ Exactly(x, middle(b - 1))))

\* FSTP: cells that x may be stored as.  Which NaN a NaN is is left open.
Singles(x) ==
  LET bits == CASE IsNaN(x) -> (Infinity + 2^(FracBits - 1))..(SignBit - 1)
                [] IsInf(x) -> {Infinity}
                [] OTHER -> {Nearest(x)}
  IN IF IsNaN(x) THEN bits \cup {SignBit + b : b \in bits}
     ELSE {IF x.neg THEN SignBit + b ELSE b : b \in bits}

\* x as a register holds it: a whole number of ExtendedBits bits, times a power
\* of 2, halves rounded to an even number.
InRegister(x) ==
  LET n == x.n  d == x.d
      Bits2(k) == CHOOSE j \in 0..30 : k < 2^j /\ (j > 0 => k >= 2^(j - 1))
      \* the greatest power of 2 not above x (squared, for a root)
      log == CHOOSE k \in (-Bits2(d))..Bits2(n) :
               IF k >= 0 THEN n >= d * 2^k /\ n < 2 * d * 2^k
               ELSE n * 2^(-k) >= d /\ n * 2^(-k) < 2 * d
      e == (IF x.root THEN log \div 2 ELSE log) - (ExtendedBits - 1)
      by == IF x.root THEN 2 * e ELSE e
      up == IF by < 0 THEN n * 2^(-by) ELSE n
      down == IF by > 0 THEN d * 2^by ELSE d
      scaled == [x EXCEPT !.n = up, !.d = down]
      q == CHOOSE k \in 2^(ExtendedBits - 1)..2^ExtendedBits :
             /\ Below(scaled, 2 * k + 1) \/ (k % 2 = 0 /\ Exactly(scaled, 2 * k + 1))
             /\ ~(Below(scaled, 2 * k - 1) \/ (k % 2 = 1 /\ Exactly(scaled, 2 * k - 1)))
  IN IF x.kind # "num" \/ n = 0 THEN x
     ELSE IF e >= 0 THEN Num(x.neg, q * 2^e, 1) ELSE Num(x.neg, q, 2^(-e))
=============================================================================
