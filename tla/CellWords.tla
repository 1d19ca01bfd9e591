----------------------------- MODULE CellWords ------------------------------
(***************************************************************************)
(* Cells: words of four bytes in two's complement, numbered from 0, and    *)
(* memory: a byte for every address, little-endian.  Bytes are as wide as  *)
(* ByteBits says.                                                          *)
(***************************************************************************)
EXTENDS Integers

CONSTANT ByteBits

ASSUME CellWordsAssumption == ByteBits \in Nat \ {0}

CellBits == 4 * ByteBits
Cell == 0..(2^CellBits - 1)
Byte == 0..(2^ByteBits - 1)

Wrap(n) == n % 2^CellBits
Signed(c) == IF c < 2^(CellBits - 1) THEN c ELSE c - 2^CellBits
Bits(c, from, n) == (c \div 2^from) % 2^n
ByteOf(c, k) == Bits(c, k * ByteBits, ByteBits)
Abs(n) == IF n < 0 THEN -n ELSE n

\* Quotient rounded towards zero.
Trunc(a, b) == LET q == Abs(a) \div Abs(b) IN IF (a < 0) = (b < 0) THEN q ELSE -q

\* The bits of a cell, by their numbers, and the number with given bits.
Ones(c) == {k \in 0..(CellBits - 1) : Bits(c, k, 1) = 1}
Number(bits) ==
  LET sum[k \in 0..CellBits] ==
        IF k = 0 THEN 0 ELSE sum[k - 1] + (IF k - 1 \in bits THEN 2^(k - 1) ELSE 0)
  IN sum[CellBits]
And(a, b) == Number(Ones(a) \cap Ones(b))
Or(a, b) == Number(Ones(a) \cup Ones(b))
Xor(a, b) == Number((Ones(a) \ Ones(b)) \cup (Ones(b) \ Ones(a)))

\* The n bytes from address a on, n <= 4, as a number; and a number stored.
Peek(mem, a, n) ==
  LET part(k) == IF k < n THEN mem[Wrap(a + k)] * 2^(k * ByteBits) ELSE 0
  IN part(0) + part(1) + part(2) + part(3)
Poke(mem, a, n, c) ==
  [b \in Cell |-> IF Wrap(b - a) < n THEN ByteOf(c, Wrap(b - a)) ELSE mem[b]]
=============================================================================
