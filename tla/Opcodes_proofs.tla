--------------------------- MODULE Opcodes_proofs ---------------------------
(**************************************************************************)
(* Proofs about Opcodes: the machine code of every instruction does what   *)
(* AMXInstructions defines, for any width of bytes, place of the data      *)
(* section, operands, registers and memory.  First arithmetic modulo the   *)
(* cell, bytes and bits; then registers and memory as a script sees them;  *)
(* then one lemma for each instruction; the theorems are at the end.       *)
(**************************************************************************)
EXTENDS Opcodes, DataLemmas

-----------------------------------------------------------------------------
(* Division and powers of two. *)

LEMMA PowerType ==
  ASSUME NEW n \in Nat
  PROVE  2^n \in Nat \ {0}
<1>1. IsFiniteSet(1..n) /\ Cardinality(1..n) = n
  BY FS_Interval
<1>2. IsFiniteSet(SUBSET (1..n)) /\ Cardinality(SUBSET (1..n)) = 2^n
  BY <1>1, FS_SUBSET
<1>3. Cardinality(SUBSET (1..n)) \in Nat
  BY <1>2, FS_CardinalityType
<1>4. Cardinality(SUBSET (1..n)) # 0
  BY <1>2, FS_EmptySet
<1> QED
  BY <1>2, <1>3, <1>4

LEMMA Doubled ==
  ASSUME NEW n \in Nat
  PROVE  2^(n + 1) = 2 * 2^n
<1> DEFINE S == SUBSET (1..n)
           T == {X \cup {n + 1} : X \in S}
           f == [X \in S |-> X \cup {n + 1}]
<1>1. IsFiniteSet(S) /\ Cardinality(S) = 2^n /\ 2^n \in Nat
  <2>1. IsFiniteSet(1..n) /\ Cardinality(1..n) = n
    BY FS_Interval
  <2> QED
    BY <2>1, FS_SUBSET, PowerType
<1>2. IsFiniteSet(SUBSET (1..(n + 1))) /\ Cardinality(SUBSET (1..(n + 1))) = 2^(n + 1)
  <2>1. IsFiniteSet(1..(n + 1)) /\ Cardinality(1..(n + 1)) = n + 1
    BY FS_Interval
  <2> QED
    BY <2>1, FS_SUBSET
<1>3. IsFiniteSet(T) /\ Cardinality(T) = Cardinality(S)
  <2>1. f \in Bijection(S, T)
    <3>1. f \in [S -> T] /\ \A t \in T : \E X \in S : f[X] = t
      OBVIOUS
    <3>2. \A X, Y \in S : f[X] = f[Y] => X = Y
      <4> TAKE X, Y \in S
      <4>1. X = (X \cup {n + 1}) \ {n + 1} /\ Y = (Y \cup {n + 1}) \ {n + 1}
        OBVIOUS
      <4> QED
        BY <4>1
    <3> HIDE DEF f, S, T
    <3>3. f \in Injection(S, T)
      BY <3>1, <3>2 DEF Injection, IsInjective
    <3>4. f \in Surjection(S, T)
      BY <3>1 DEF Surjection
    <3> QED
      BY <3>3, <3>4 DEF Bijection
  <2> QED
    BY <1>1, <2>1, FS_Bijection DEF ExistsBijection
<1>4. SUBSET (1..(n + 1)) = S \cup T
  <2>1. ASSUME NEW X \in SUBSET (1..(n + 1)) PROVE X \in S \cup T
    <3>1. CASE n + 1 \in X
      <4>1. X \ {n + 1} \in S /\ X = (X \ {n + 1}) \cup {n + 1}
        BY <3>1
      <4> QED
        BY <4>1
    <3>2. CASE n + 1 \notin X
      BY <3>2
    <3> QED
      BY <3>1, <3>2
  <2>2. ASSUME NEW X \in S PROVE X \cup {n + 1} \in SUBSET (1..(n + 1)) /\ X \in SUBSET (1..(n + 1))
    <3>1. 1..n \subseteq 1..(n + 1) /\ n + 1 \in 1..(n + 1)
      OBVIOUS
    <3>2. X \subseteq 1..n
      OBVIOUS
    <3>3. X \subseteq 1..(n + 1)
      BY <3>1, <3>2
    <3>4. X \cup {n + 1} \subseteq 1..(n + 1)
      BY <3>1, <3>3
    <3> QED
      BY <3>3, <3>4
  <2>3. T \subseteq SUBSET (1..(n + 1)) /\ S \subseteq SUBSET (1..(n + 1))
    <3>1. ASSUME NEW Y \in T PROVE Y \in SUBSET (1..(n + 1))
      <4>1. PICK X \in S : Y = X \cup {n + 1}
        OBVIOUS
      <4> HIDE DEF S, T
      <4> QED
        BY <2>2, <4>1
    <3> HIDE DEF S, T
    <3>2. S \subseteq SUBSET (1..(n + 1))
      BY <2>2
    <3> QED
      BY <3>1, <3>2
  <2> HIDE DEF S, T
  <2> QED
    BY <2>1, <2>3
<1>5. S \cap T = {}
  OBVIOUS
<1>6. Cardinality(S \cup T) = Cardinality(S) + Cardinality(T)
  <2> HIDE DEF S, T
  <2>1. Cardinality(S \cup T) = Cardinality(S) + Cardinality(T) - Cardinality(S \cap T)
    BY <1>1, <1>3, FS_Union
  <2>2. Cardinality(S \cap T) = 0
    BY <1>5, FS_EmptySet
  <2> QED
    BY <1>1, <1>3, <2>1, <2>2
<1> HIDE DEF S, T
<1>7. 2^(n + 1) = 2^n + 2^n
  BY <1>1, <1>2, <1>3, <1>4, <1>6
<1> QED
  BY <1>1, <1>7

LEMMA PowerSum ==
  ASSUME NEW m \in Nat, NEW n \in Nat
  PROVE  2^(m + n) = 2^m * 2^n
<1> DEFINE T == {k \in Nat : 2^(m + k) = 2^m * 2^k}
<1>1. 0 \in T
  <2>1. 2^0 = 1 /\ m + 0 = m /\ 2^m \in Nat
    BY PowerType
  <2> QED
    BY <2>1
<1>2. ASSUME NEW k \in T PROVE k + 1 \in T
  <2>1. 2^(m + (k + 1)) = 2 * 2^(m + k)
    <3>1. m + (k + 1) = (m + k) + 1 /\ m + k \in Nat
      OBVIOUS
    <3> QED
      BY <3>1, Doubled
  <2>2. 2^(k + 1) = 2 * 2^k /\ 2^k \in Nat /\ 2^m \in Nat
    BY Doubled, PowerType
  <2> QED
    BY <2>1, <2>2
<1>3. T = Nat
  BY <1>1, <1>2, InductiveSet
<1> QED
  BY <1>3

LEMMA DivisionUnique ==
  ASSUME NEW x \in Int, NEW d \in Nat, d > 0, NEW q \in Int, NEW r \in Int,
         x = d * q + r, 0 <= r, r < d
  PROVE  x \div d = q /\ x % d = r
<1>1. x \div d = q
  OBVIOUS
<1>2. x % d = r
  OBVIOUS
<1> QED
  BY <1>1, <1>2

LEMMA Division ==
  ASSUME NEW x \in Int, NEW d \in Nat \ {0}
  PROVE  /\ x \div d \in Int /\ x % d \in 0..(d - 1)
         /\ x = d * (x \div d) + (x % d)
<1>1. PICK q \in Int : q = x \div d
  OBVIOUS
<1>2. d * q <= x /\ x < d * (q + 1)
  BY <1>1
<1>3. PICK r \in Int : r = x - d * q
  OBVIOUS
<1>4. x = d * q + r /\ 0 <= r /\ r < d
  BY <1>2, <1>3
<1>5. x % d = r
  BY <1>4, DivisionUnique
<1> QED
  BY <1>1, <1>4, <1>5
-----------------------------------------------------------------------------
(* Cells. *)

LEMMA DivisionParts ==
  ASSUME NEW x \in Int, NEW d \in Nat \ {0}
  PROVE  \E q \in Int, r \in 0..(d - 1) : x = d * q + r
BY Division

LEMMA CellBitsType ==
  /\ CellBits \in Nat /\ CellBits >= 4 /\ ByteBits \in Nat /\ ByteBits >= 1
  /\ 2^CellBits \in Nat \ {0} /\ 2^ByteBits \in Nat \ {0} /\ 2^(CellBits - 1) \in Nat \ {0}
  /\ 2^CellBits = 2 * 2^(CellBits - 1)
<1>1. CellBits \in Nat /\ CellBits >= 4 /\ ByteBits \in Nat /\ ByteBits >= 1
  BY CellWordsAssumption DEF CellBits
<1>2. PICK k \in Nat : k = CellBits - 1 /\ CellBits = k + 1
  BY <1>1
<1>3. 2^(k + 1) = 2 * 2^k /\ 2^k \in Nat \ {0} /\ 2^(k + 1) \in Nat \ {0}
  BY Doubled, PowerType
<1>4. 2^ByteBits \in Nat \ {0}
  BY <1>1, PowerType
<1> QED
  BY <1>1, <1>2, <1>3, <1>4

\* Powers of two that are met: those of a byte, and small ones.
LEMMA SmallPowers ==
  /\ 2^0 = 1 /\ 2^1 = 2 /\ 2^2 = 4 /\ 2^CellBits >= 16 /\ 2^ByteBits >= 2
<1>1. 2^0 = 1 /\ 2^(0 + 1) = 2 * 2^0 /\ 2^(1 + 1) = 2 * 2^1 /\ 2^(2 + 1) = 2 * 2^2 /\ 2^(3 + 1) = 2 * 2^3
  BY Doubled
<1>2. 2^0 = 1 /\ 2^1 = 2 /\ 2^2 = 4 /\ 2^4 = 16
  <2>1. 0 + 1 = 1 /\ 1 + 1 = 2 /\ 2 + 1 = 3 /\ 3 + 1 = 4
    OBVIOUS
  <2>2. 2^1 = 2 /\ 2^2 = 2 * 2^1 /\ 2^3 = 2 * 2^2 /\ 2^4 = 2 * 2^3
    BY <1>1, <2>1
  <2> QED
    BY <2>2
<1>3. PICK k \in Nat : CellBits = 4 + k
  BY CellBitsType
<1>4. 2^(4 + k) = 2^4 * 2^k /\ 2^k \in Nat \ {0}
  BY PowerSum, PowerType
<1>5. 2^CellBits >= 16
  BY <1>2, <1>3, <1>4
<1>6. \E j \in Nat : ByteBits = 1 + j
  <2>1. ByteBits - 1 \in Nat /\ ByteBits = 1 + (ByteBits - 1)
    BY CellWordsAssumption
  <2> QED
    BY <2>1
<1>9. PICK j \in Nat : ByteBits = 1 + j
  BY <1>6
<1>7. 2^(1 + j) = 2^1 * 2^j /\ 2^j \in Nat \ {0}
  BY PowerSum, PowerType
<1>8. 2^ByteBits >= 2
  BY <1>2, <1>9, <1>7
<1> QED
  BY <1>2, <1>5, <1>8

LEMMA WrapType ==
  ASSUME NEW x \in Int
  PROVE  Wrap(x) \in Cell
BY CellBitsType, Division DEF Wrap, Cell

LEMMA CellType ==
  ASSUME NEW x \in Cell
  PROVE  x \in Int /\ x \in Nat /\ 0 <= x /\ x < 2^CellBits
BY CellBitsType DEF Cell

LEMMA WrapCell ==
  ASSUME NEW x \in Cell
  PROVE  Wrap(x) = x
<1>1. PICK m \in Nat \ {0} : m = 2^CellBits
  BY CellBitsType
<1>2. x \in Int /\ 0 <= x /\ x < m
  BY <1>1 DEF Cell
<1>3. x = m * 0 + x
  BY <1>1, <1>2
<1>4. x % m = x
  BY <1>1, <1>2, <1>3, DivisionUnique
<1> QED
  BY <1>1, <1>4 DEF Wrap

\* What differs by whole turns is one cell.
LEMMA WrapTurns ==
  ASSUME NEW x \in Int, NEW k \in Int
  PROVE  Wrap(x + k * 2^CellBits) = Wrap(x)
<1>1. PICK m \in Nat \ {0} : m = 2^CellBits
  BY CellBitsType
<1>2. /\ x \div m \in Int /\ x % m \in 0..(m - 1)
      /\ x = m * (x \div m) + (x % m)
  BY Division
<1>3. PICK q \in Int, r \in Int : q = x \div m /\ r = x % m
  BY <1>2
<1>4. PICK y \in Int, p \in Int : y = x + k * m /\ p = q + k
  OBVIOUS
<1>5. y = m * p + r /\ 0 <= r /\ r < m
  BY <1>2, <1>3, <1>4
<1>6. y % m = r
  BY <1>5, DivisionUnique
<1>7. Wrap(x + k * m) = r /\ Wrap(x) = r
  BY <1>1, <1>3, <1>4, <1>6 DEF Wrap
<1> QED
  BY <1>1, <1>7

LEMMA WrapSame ==
  ASSUME NEW x \in Int, NEW y \in Int, NEW k \in Int, x = y + k * 2^CellBits
  PROVE  Wrap(x) = Wrap(y)
BY WrapTurns

LEMMA WrapParts ==
  ASSUME NEW x \in Int
  PROVE  \E k \in Int : x = Wrap(x) + k * 2^CellBits
<1>1. PICK m \in Nat \ {0} : m = 2^CellBits
  BY CellBitsType
<1>2. /\ x \div m \in Int /\ x % m \in 0..(m - 1)
      /\ x = m * (x \div m) + (x % m)
  BY Division
<1>3. x = (x % m) + (x \div m) * m
  BY <1>2
<1> QED
  BY <1>1, <1>2, <1>3 DEF Wrap

LEMMA WrapAdd ==
  ASSUME NEW x \in Int, NEW y \in Int
  PROVE  /\ Wrap(Wrap(x) + y) = Wrap(x + y) /\ Wrap(y + Wrap(x)) = Wrap(y + x)
         /\ Wrap(Wrap(x) - y) = Wrap(x - y) /\ Wrap(y - Wrap(x)) = Wrap(y - x)
<1>1. PICK k \in Int : x = Wrap(x) + k * 2^CellBits
  BY WrapParts
<1>2. PICK w \in Int : w = Wrap(x)
  BY WrapType, CellType
<1>3. PICK m \in Nat : m = 2^CellBits
  BY CellBitsType
<1>4. PICK a \in Int, b \in Int : a = x + y /\ b = w + y
  OBVIOUS
<1>5. a = b + k * m
  BY <1>1, <1>2, <1>3, <1>4
<1>6. Wrap(a) = Wrap(b)
  BY <1>3, <1>5, WrapSame
<1>7. PICK d \in Int, e \in Int : d = x - y /\ e = w - y
  OBVIOUS
<1>8. d = e + k * m
  BY <1>1, <1>2, <1>3, <1>7
<1>9. Wrap(d) = Wrap(e)
  BY <1>3, <1>8, WrapSame
<1>10. PICK f \in Int, g \in Int, n \in Int : f = y - x /\ g = y - w /\ n = -k
  OBVIOUS
<1>11. f = g + n * m
  <2>1. x = w + k * m
    BY <1>1, <1>2, <1>3
  <2>2. y - (w + k * m) = (y - w) + (-k) * m
    OBVIOUS
  <2> QED
    BY <2>1, <2>2, <1>10
<1>12. Wrap(f) = Wrap(g)
  BY <1>3, <1>11, WrapSame
<1>13. y + x = a /\ y + w = b
  BY <1>4
<1> QED
  BY <1>2, <1>4, <1>6, <1>7, <1>9, <1>10, <1>12, <1>13

LEMMA WrapTimes ==
  ASSUME NEW x \in Int, NEW y \in Int
  PROVE  Wrap(Wrap(x) * y) = Wrap(x * y)
<1>1. PICK k \in Int : x = Wrap(x) + k * 2^CellBits
  BY WrapParts
<1>2. PICK w \in Int : w = Wrap(x)
  BY WrapType, CellType
<1>3. PICK m \in Nat : m = 2^CellBits
  BY CellBitsType
<1>4. x * y = (w + k * m) * y
  BY <1>1, <1>2, <1>3
<1>5. (w + k * m) * y = w * y + (k * y) * m
  OBVIOUS
<1>6. x * y \in Int /\ w * y \in Int /\ k * y \in Int
  OBVIOUS
<1> QED
  BY <1>2, <1>3, <1>4, <1>5, <1>6, WrapSame

\* A cell, as an address from the data section on, and back.
LEMMA WrapBack ==
  ASSUME NEW x \in Cell, NEW y \in Int
  PROVE  Wrap(Wrap(y + x) - y) = x /\ Wrap(y + Wrap(x - y)) = x
<1>1. x \in Int /\ y + x \in Int /\ (y + x) - y = x /\ x - y \in Int /\ y + (x - y) = x
  BY CellType
<1>2. Wrap(Wrap(y + x) - y) = Wrap((y + x) - y)
  BY <1>1, WrapAdd
<1>3. Wrap(y + Wrap(x - y)) = Wrap(y + (x - y))
  BY <1>1, WrapAdd
<1> QED
  BY <1>1, <1>2, <1>3, WrapCell

LEMMA SignedType ==
  ASSUME NEW x \in Cell
  PROVE  /\ Signed(x) \in Int /\ -2^(CellBits - 1) <= Signed(x) /\ Signed(x) < 2^(CellBits - 1)
         /\ \E k \in Int : Signed(x) = x + k * 2^CellBits
<1>1. PICK h \in Nat \ {0} : h = 2^(CellBits - 1) /\ 2^CellBits = 2 * h
  BY CellBitsType
<1>2. CASE x < h
  <2>1. Signed(x) = x /\ x \in Int /\ x = x + 0 * 2^CellBits
    BY <1>1, <1>2, CellType DEF Signed
  <2> QED
    BY <1>1, <1>2, <2>1, CellType
<1>3. CASE ~(x < h)
  <2>1. Signed(x) = x - 2 * h /\ x \in Int /\ x < 2 * h /\ x >= h
    BY <1>1, <1>3, CellType DEF Signed
  <2>2. Signed(x) = x + (-1) * 2^CellBits
    BY <1>1, <2>1
  <2> QED
    BY <1>1, <2>1, <2>2
<1> QED
  BY <1>2, <1>3

LEMMA WrapSigned ==
  ASSUME NEW x \in Cell
  PROVE  Wrap(Signed(x)) = x
<1>1. PICK k \in Int : Signed(x) = x + k * 2^CellBits
  BY SignedType
<1> QED
  BY <1>1, SignedType, CellType, WrapSame, WrapCell
-----------------------------------------------------------------------------
(* What a step of the machine code is in the abstract machine. *)

State == [eax : Cell, ecx : Cell, ebp : Cell, esp : Cell, hea : Cell,
          ram : [Cell -> Byte], out : {"next", "jump", "BOUNDS"}]

\* The abstract machine has the same cells.
LEMMA SameWords ==
  /\ Machine!CellBits = CellBits /\ Machine!Cell = Cell
  /\ \A x : Machine!Wrap(x) = Wrap(x)
  /\ \A x : Machine!Signed(x) = Signed(x)
  /\ \A x, k : Machine!ByteOf(x, k) = ByteOf(x, k)
<1>1. Machine!CellBits = CellBits
  BY DEF Machine!CellBits, CellBits
<1>2. Machine!Cell = Cell
  BY <1>1 DEF Machine!Cell, Cell
<1>3. \A x : Machine!Wrap(x) = Wrap(x)
  BY <1>1 DEF Machine!Wrap, Wrap
<1>4. \A x : Machine!Signed(x) = Signed(x)
  BY <1>1 DEF Machine!Signed, Signed
<1>5. \A x, k : Machine!ByteOf(x, k) = ByteOf(x, k)
  BY DEF Machine!ByteOf, ByteOf, Machine!Bits, Bits
<1> QED
  BY <1>1, <1>2, <1>3, <1>4, <1>5

LEMMA SameNumbers ==
  /\ \A x, y : Machine!And(x, y) = And(x, y)
  /\ \A x, y : Machine!Or(x, y) = Or(x, y)
  /\ \A x, y : Machine!Xor(x, y) = Xor(x, y)
BY DEF Machine!And, And, Machine!Or, Or, Machine!Xor, Xor, Machine!Number, Number, Machine!Ones, Ones,
       Machine!CellBits, CellBits, Machine!Bits, Bits

LEMMA SameMemory ==
  /\ \A m, a, n : Machine!Peek(m, a, n) = Peek(m, a, n)
  /\ \A m, a, n, v : Machine!Poke(m, a, n, v) = Poke(m, a, n, v)
BY DEF Machine!Peek, Peek, Machine!Poke, Poke, Machine!Wrap, Wrap, Machine!CellBits, CellBits,
       Machine!Cell, Cell, Machine!ByteOf, ByteOf, Machine!Bits, Bits

LEMMA BitsType ==
  ASSUME NEW v \in Int, NEW k \in Nat
  PROVE  ByteOf(v, k) \in Byte
<1>1. PICK p \in Nat : p = k * ByteBits
  BY CellBitsType
<1>2. PICK d \in Nat \ {0} : d = 2^p
  BY PowerType
<1>3. PICK q \in Int : q = v \div d
  BY Division
<1>4. q % 2^ByteBits \in 0..(2^ByteBits - 1)
  BY CellBitsType, Division
<1> QED
  BY <1>1, <1>2, <1>3, <1>4 DEF ByteOf, Bits, Byte

\* The bytes of a word.
LEMMA BytePowers ==
  ASSUME NEW B \in Nat, B = 2^ByteBits
  PROVE  /\ 2^(0 * ByteBits) = 1 /\ 2^(1 * ByteBits) = B /\ 2^(2 * ByteBits) = B * B
         /\ 2^(3 * ByteBits) = B * (B * B) /\ 2^CellBits = B * (B * (B * B))
<1>1. PICK b \in Nat : b = ByteBits
  BY CellBitsType
<1>2. 2^(b + b) = 2^b * 2^b
  BY PowerSum
<1>3. PICK e \in Nat : e = b + b
  OBVIOUS
<1>4. 2^(b + e) = 2^b * 2^e
  BY PowerSum
<1>5. PICK g \in Nat : g = b + e
  OBVIOUS
<1>6. 2^(b + g) = 2^b * 2^g
  BY PowerSum
<1>7. 0 * b = 0 /\ 1 * b = b /\ 2 * b = e /\ 3 * b = g /\ 4 * b = b + g
  BY <1>3, <1>5
<1>8. 2^e = B * B /\ 2^g = B * (B * B)
  BY <1>1, <1>2, <1>3, <1>4, <1>5
<1>9. 2^(4 * b) = B * (B * (B * B))
  BY <1>1, <1>6, <1>7, <1>8
<1> QED
  BY <1>1, <1>7, <1>8, <1>9, SmallPowers DEF CellBits

LEMMA BytesBound ==
  ASSUME NEW B \in Nat, B > 0, NEW p \in 0..(B - 1), NEW q \in 0..(B - 1), NEW r \in 0..(B - 1),
         NEW t \in 0..(B - 1)
  PROVE  LET sum == ((p + q * B) + r * (B * B)) + t * (B * (B * B))
         IN sum \in Nat /\ sum < B * (B * (B * B))
<1>1. PICK B2 \in Nat : B2 = B * B
  OBVIOUS
<1>2. PICK B3 \in Nat : B3 = B * B2
  OBVIOUS
<1>3. PICK B4 \in Nat : B4 = B * B3
  OBVIOUS
<1>4. q * B \in Nat /\ r * B2 \in Nat /\ t * B3 \in Nat
  OBVIOUS
<1>5. q * B <= B2 - B
  <2>1. q * B <= (B - 1) * B /\ (B - 1) * B = B * B - B
    OBVIOUS
  <2> QED
    BY <2>1, <1>1
<1>6. r * B2 <= B3 - B2
  <2>1. r * B2 <= (B - 1) * B2 /\ (B - 1) * B2 = B * B2 - B2
    OBVIOUS
  <2> QED
    BY <2>1, <1>2
<1>7. t * B3 <= B4 - B3
  <2>1. t * B3 <= (B - 1) * B3 /\ (B - 1) * B3 = B * B3 - B3
    OBVIOUS
  <2> QED
    BY <2>1, <1>3
<1>8. ((p + q * B) + r * B2) + t * B3 \in Nat /\ ((p + q * B) + r * B2) + t * B3 < B4
  BY <1>4, <1>5, <1>6, <1>7
<1> QED
  BY <1>1, <1>2, <1>3, <1>8

LEMMA PeekType ==
  ASSUME NEW mem \in [Cell -> Byte], NEW a \in Int, NEW n \in Nat
  PROVE  Peek(mem, a, n) \in Cell
<1>1. PICK B \in Nat \ {0} : B = 2^ByteBits
  BY CellBitsType
<1> DEFINE byte(k) == IF k < n THEN mem[Wrap(a + k)] ELSE 0
<1>2. ASSUME NEW k \in Nat PROVE byte(k) \in 0..(B - 1)
  <2>1. mem[Wrap(a + k)] \in Byte
    BY WrapType
  <2> QED
    BY <2>1, <1>1 DEF Byte
<1>3. PICK p \in 0..(B - 1), q \in 0..(B - 1), r \in 0..(B - 1), t \in 0..(B - 1) :
        p = byte(0) /\ q = byte(1) /\ r = byte(2) /\ t = byte(3)
  <2>1. byte(0) \in 0..(B - 1) /\ byte(1) \in 0..(B - 1) /\ byte(2) \in 0..(B - 1) /\ byte(3) \in 0..(B - 1)
    <3> HIDE DEF byte
    <3> QED
      BY <1>2
  <2> HIDE DEF byte
  <2> QED
    BY <2>1
<1>4. Peek(mem, a, n) = ((p + q * B) + r * (B * B)) + t * (B * (B * B))
  BY <1>1, <1>3, BytePowers DEF Peek
<1>5. ((p + q * B) + r * (B * B)) + t * (B * (B * B)) \in Nat
  BY <1>1, BytesBound
<1>6. ((p + q * B) + r * (B * B)) + t * (B * (B * B)) < 2^CellBits
  <2>1. 2^CellBits = B * (B * (B * B))
    BY <1>1, BytePowers
  <2>2. ((p + q * B) + r * (B * B)) + t * (B * (B * B)) < B * (B * (B * B))
    BY <1>1, BytesBound
  <2> QED
    BY <2>1, <2>2
<1> QED
  BY <1>4, <1>5, <1>6, CellBitsType DEF Cell

\* Addresses count from the data section in the abstract machine.
LEMMA ShiftedAddress ==
  ASSUME NEW a \in Int, NEW x \in Int, Wrap(x) = Wrap(Ebx + a), NEW k \in Int
  PROVE  Wrap(x + k) = Wrap(Ebx + Wrap(a + k))
<1>1. Ebx \in Int /\ Ebx + a \in Int /\ a + k \in Int /\ (Ebx + a) + k = Ebx + (a + k)
  BY OpcodesAssumption, CellType
<1>2. Wrap(Wrap(x) + k) = Wrap(x + k) /\ Wrap(Wrap(Ebx + a) + k) = Wrap((Ebx + a) + k)
  BY <1>1, WrapAdd
<1>3. Wrap(Ebx + Wrap(a + k)) = Wrap(Ebx + (a + k))
  BY <1>1, WrapAdd
<1> QED
  BY <1>1, <1>2, <1>3

LEMMA PeekView ==
  ASSUME c \in State, NEW a \in Int, NEW x \in Int, Wrap(x) = Wrap(Ebx + a), NEW n \in Nat
  PROVE  Peek(c.ram, Wrap(x), n) = Peek(View(c).mem, a, n) /\ Peek(c.ram, Wrap(x), n) \in Cell
<1>1. ASSUME NEW k \in Int PROVE c.ram[Wrap(Wrap(x) + k)] = View(c).mem[Wrap(a + k)]
  <2>1. Wrap(Wrap(x) + k) = Wrap(x + k)
    BY WrapAdd
  <2>2. Wrap(x + k) = Wrap(Ebx + Wrap(a + k))
    BY ShiftedAddress
  <2>3. Wrap(a + k) \in Cell
    BY WrapType
  <2> QED
    BY <2>1, <2>2, <2>3 DEF View, Data
<1>2. Peek(c.ram, Wrap(x), n) = Peek(View(c).mem, a, n)
  BY <1>1 DEF Peek
<1>3. c.ram \in [Cell -> Byte] /\ Wrap(x) \in Int
  BY WrapType, CellType DEF State
<1>4. Peek(c.ram, Wrap(x), n) \in Cell
  BY <1>3, PeekType
<1> QED
  BY <1>2, <1>4

LEMMA DwordView ==
  ASSUME c \in State, NEW a \in Int, NEW x \in Int, Wrap(x) = Wrap(Ebx + a)
  PROVE  Dword(x) = Machine!At(a) /\ Dword(x) \in Cell
<1>1. Dword(x) = Peek(View(c).mem, a, 4) /\ Dword(x) \in Cell
  BY PeekView DEF Dword
<1>2. Machine!At(a) = Peek(View(c).mem, a, 4)
  BY SameMemory DEF Machine!At
<1> QED
  BY <1>1, <1>2

LEMMA PokeView ==
  ASSUME c \in State, NEW a \in Int, NEW x \in Int, Wrap(x) = Wrap(Ebx + a), NEW n \in Nat, NEW v \in Int
  PROVE  /\ Data(Poke(c.ram, Wrap(x), n, v)) = Poke(View(c).mem, a, n, v)
         /\ Poke(c.ram, Wrap(x), n, v) \in [Cell -> Byte]
<1>1. ASSUME NEW b \in Cell
      PROVE  Poke(c.ram, Wrap(x), n, v)[Wrap(Ebx + b)] = Poke(View(c).mem, a, n, v)[b]
  <2>1. Ebx \in Int /\ Ebx + b \in Int /\ b \in Int /\ Wrap(Ebx + b) \in Cell
    BY OpcodesAssumption, CellType, WrapType
  <2>2. Wrap(Wrap(Ebx + b) - Wrap(x)) = Wrap((Ebx + b) - Wrap(x))
    <3>1. PICK y \in Int : y = Wrap(x)
      BY WrapType, CellType
    <3> QED
      BY <2>1, <3>1, WrapAdd
  <2>3. Wrap((Ebx + b) - Wrap(x)) = Wrap((Ebx + b) - (Ebx + a))
    BY <2>1, WrapAdd
  <2>4. (Ebx + b) - (Ebx + a) = b - a
    BY <2>1
  <2> QED
    BY <2>1, <2>2, <2>3, <2>4 DEF Poke, View, Data
<1>2. ASSUME NEW b \in Cell PROVE Poke(c.ram, Wrap(x), n, v)[b] \in Byte
  <2>1. b - Wrap(x) \in Int
    BY WrapType, CellType
  <2>2. Wrap(b - Wrap(x)) \in Nat
    BY <2>1, WrapType, CellType
  <2>3. ByteOf(v, Wrap(b - Wrap(x))) \in Byte
    BY <2>2, BitsType
  <2> QED
    BY <2>3 DEF Poke, State
<1> QED
  BY <1>1, <1>2 DEF Poke, Data
-----------------------------------------------------------------------------
(* Steps that set a register, store, or push. *)

LEMMA StepSame ==
  ASSUME instr = None, NEW i \in Instructions, instr' = i, i.op \notin Machine!FloatFunctions,
         View(c') = Machine!Meaning(i)
  PROVE  Machine!Next
BY SameWords DEF Machine!Next, Machine!Outcomes, View

LEMMA SetsRegister ==
  ASSUME c \in State, NEW r \in {"pri", "alt"}, NEW v \in Int, NEW w \in Int, Wrap(v) = Wrap(w),
         c' = Mov(Reg[r], v)
  PROVE  c' \in State /\ View(c') = Machine!Set(r, w)
<1>1. Machine!Set(r, w) = [View(c) EXCEPT ![r] = Wrap(w)]
  BY SameWords DEF Machine!Set
<1>2. Wrap(v) \in Cell
  BY WrapType
<1>3. CASE r = "pri"
  <2>1. c' = [c EXCEPT !.eax = Wrap(v)]
    BY <1>3 DEF Mov, Reg
  <2>2. c' \in State
    BY <1>2, <2>1 DEF State
  <2>3. /\ c'.eax = Wrap(v) /\ c'.ecx = c.ecx /\ c'.ebp = c.ebp /\ c'.esp = c.esp
        /\ c'.hea = c.hea /\ c'.ram = c.ram /\ c'.out = c.out
    BY <2>1 DEF State
  <2>4. View(c') = [View(c) EXCEPT !.pri = Wrap(v)]
    BY <2>3 DEF View
  <2> QED
    BY <1>1, <1>3, <2>2, <2>4
<1>4. CASE r = "alt"
  <2>1. c' = [c EXCEPT !.ecx = Wrap(v)]
    BY <1>4 DEF Mov, Reg
  <2>2. c' \in State
    BY <1>2, <2>1 DEF State
  <2>3. /\ c'.eax = c.eax /\ c'.ecx = Wrap(v) /\ c'.ebp = c.ebp /\ c'.esp = c.esp
        /\ c'.hea = c.hea /\ c'.ram = c.ram /\ c'.out = c.out
    BY <2>1 DEF State
  <2>4. View(c') = [View(c) EXCEPT !.alt = Wrap(v)]
    BY <2>3 DEF View
  <2> QED
    BY <1>1, <1>4, <2>2, <2>4
<1> QED
  BY <1>3, <1>4

LEMMA SetsPri ==
  ASSUME c \in State, NEW v \in Int, NEW w \in Int, Wrap(v) = Wrap(w), c' = Mov("eax", v)
  PROVE  c' \in State /\ View(c') = Machine!Set("pri", w)
<1>1. c' = Mov(Reg["pri"], v)
  BY DEF Reg
<1> QED
  BY <1>1, SetsRegister

LEMMA StoredState ==
  ASSUME c \in State, NEW a \in Int, NEW x \in Int, Wrap(x) = Wrap(Ebx + a), NEW n \in Nat, NEW v \in Int
  PROVE  MovTo(x, n, v) \in State /\ View(MovTo(x, n, v)) = Machine!Stored(a, n, v)
<1>1. Machine!Stored(a, n, v) = [View(c) EXCEPT !.mem = Poke(View(c).mem, a, n, v)]
  BY SameMemory, SameWords DEF Machine!Stored
<1>2. /\ Poke(c.ram, Wrap(x), n, v) \in [Cell -> Byte]
      /\ Data(Poke(c.ram, Wrap(x), n, v)) = Poke(View(c).mem, a, n, v)
  BY PokeView
<1>3. PICK m \in [Cell -> Byte] : m = Poke(c.ram, Wrap(x), n, v) /\ Data(m) = Poke(View(c).mem, a, n, v)
  BY <1>2
<1>4. PICK y \in State : y = [c EXCEPT !.ram = m]
  BY DEF State
<1>5. /\ y.eax = c.eax /\ y.ecx = c.ecx /\ y.ebp = c.ebp /\ y.esp = c.esp
      /\ y.hea = c.hea /\ y.ram = m /\ y.out = c.out
  BY <1>4 DEF State
<1>6. View(y) = [View(c) EXCEPT !.mem = Data(m)]
  BY <1>5 DEF View
<1>7. MovTo(x, n, v) = y
  BY <1>3, <1>4 DEF MovTo
<1> QED
  BY <1>1, <1>3, <1>6, <1>7

LEMMA StoresNumber ==
  ASSUME c \in State, NEW a \in Int, NEW x \in Int, Wrap(x) = Wrap(Ebx + a), NEW n \in Nat, NEW v \in Int,
         c' = MovTo(x, n, v)
  PROVE  c' \in State /\ View(c') = Machine!Stored(a, n, v)
<1>1. MovTo(x, n, v) \in State /\ View(MovTo(x, n, v)) = Machine!Stored(a, n, v)
  BY StoredState
<1> QED
  BY <1>1

LEMMA StackAddress ==
  ASSUME c \in State
  PROVE  /\ View(c).stk = Stk /\ Stk \in Cell /\ Stk \in Int /\ c.esp \in Int /\ Ebx \in Int
         /\ \A k \in Int : Wrap(c.esp + k) = Wrap(Ebx + (Stk + k)) /\ Wrap(c.esp + k) = Wrap(Ebx + Wrap(Stk + k))
         /\ \A k \in Int : Wrap(Wrap(c.esp + k) - Ebx) = Wrap(Stk + k)
<1>1. c.esp \in Cell /\ c.esp \in Int /\ Ebx \in Int
  BY OpcodesAssumption, CellType DEF State
<1>2. Stk \in Cell /\ Stk \in Int /\ View(c).stk = Stk
  BY <1>1, WrapType, CellType DEF Stk, View
<1>3. Wrap(Ebx + Stk) = c.esp
  BY <1>1, WrapBack DEF Stk
<1>4. ASSUME NEW k \in Int
      PROVE  /\ Wrap(c.esp + k) = Wrap(Ebx + (Stk + k)) /\ Wrap(c.esp + k) = Wrap(Ebx + Wrap(Stk + k))
             /\ Wrap(Wrap(c.esp + k) - Ebx) = Wrap(Stk + k)
  <2>1. Wrap(Wrap(Ebx + Stk) + k) = Wrap((Ebx + Stk) + k) /\ (Ebx + Stk) + k = Ebx + (Stk + k)
    BY <1>1, <1>2, WrapAdd
  <2>2. Wrap(Ebx + Wrap(Stk + k)) = Wrap(Ebx + (Stk + k))
    BY <1>1, <1>2, WrapAdd
  <2>3. Wrap(Wrap(c.esp + k) - Ebx) = Wrap((c.esp + k) - Ebx)
    <3>1. c.esp + k \in Int
      BY <1>1
    <3> QED
      BY <1>1, <3>1, WrapAdd
  <2>4. (c.esp + k) - Ebx = (c.esp - Ebx) + k /\ c.esp - Ebx \in Int
    BY <1>1
  <2>5. Wrap(Wrap(c.esp - Ebx) + k) = Wrap((c.esp - Ebx) + k)
    BY <2>4, WrapAdd
  <2> QED
    BY <1>3, <2>1, <2>2, <2>3, <2>4, <2>5 DEF Stk
<1> QED
  BY <1>1, <1>2, <1>4

LEMMA FrameAddress ==
  ASSUME c \in State
  PROVE  /\ View(c).frm \in Cell /\ View(c).frm \in Int /\ c.ebp \in Int /\ Ebx \in Int
         /\ \A k \in Int : Wrap(c.ebp + k) = Wrap(Ebx + Wrap(View(c).frm + k))
         /\ \A k \in Int : Wrap((c.ebp + k) - Ebx) = Wrap(View(c).frm + k)
<1>1. c.ebp \in Cell /\ c.ebp \in Int /\ Ebx \in Int
  BY OpcodesAssumption, CellType DEF State
<1>2. PICK f \in Cell : f = View(c).frm /\ f = Wrap(c.ebp - Ebx)
  BY <1>1, WrapType DEF View
<1>3. f \in Int /\ Wrap(Ebx + f) = c.ebp
  BY <1>1, <1>2, CellType, WrapBack
<1>4. ASSUME NEW k \in Int
      PROVE  Wrap(c.ebp + k) = Wrap(Ebx + Wrap(f + k)) /\ Wrap((c.ebp + k) - Ebx) = Wrap(f + k)
  <2>1. Wrap(Wrap(Ebx + f) + k) = Wrap((Ebx + f) + k) /\ (Ebx + f) + k = Ebx + (f + k)
    BY <1>1, <1>3, WrapAdd
  <2>2. Wrap(Ebx + Wrap(f + k)) = Wrap(Ebx + (f + k))
    BY <1>1, <1>3, WrapAdd
  <2>3. (c.ebp + k) - Ebx = (c.ebp - Ebx) + k /\ c.ebp - Ebx \in Int
    BY <1>1
  <2>4. Wrap(Wrap(c.ebp - Ebx) + k) = Wrap((c.ebp - Ebx) + k)
    BY <2>3, WrapAdd
  <2> QED
    BY <1>2, <1>3, <2>1, <2>2, <2>3, <2>4
<1> QED
  BY <1>1, <1>2, <1>3, <1>4

LEMMA Pushes ==
  ASSUME c \in State, NEW v \in Int, c' = Push(c, v)
  PROVE  c' \in State /\ View(c') = Machine!Pushed(v)
<1>1. PICK a \in Int, x \in Int : a = Wrap(Stk - 4) /\ x = c.esp - 4
  <2>1. Stk \in Int /\ c.esp \in Int
    BY StackAddress
  <2>2. Stk - 4 \in Int /\ c.esp - 4 \in Int
    BY <2>1
  <2>3. Wrap(Stk - 4) \in Int
    BY <2>2, WrapType, CellType
  <2> QED
    BY <2>2, <2>3
<1>2. Wrap(x) = Wrap(Ebx + a) /\ Wrap(Wrap(x) - Ebx) = a
  <2>1. x = c.esp + (-4) /\ Stk - 4 = Stk + (-4) /\ -4 \in Int
    BY <1>1, StackAddress
  <2> QED
    BY <1>1, <2>1, StackAddress
<1>3. /\ Poke(c.ram, Wrap(x), 4, v) \in [Cell -> Byte]
      /\ Data(Poke(c.ram, Wrap(x), 4, v)) = Poke(View(c).mem, a, 4, v)
  BY <1>2, PokeView
<1>4. PICK m \in [Cell -> Byte] : m = Poke(c.ram, Wrap(x), 4, v) /\ Data(m) = Poke(View(c).mem, a, 4, v)
  BY <1>3
<1>5. c' = [c EXCEPT !.esp = Wrap(x), !.ram = m]
  BY <1>1, <1>4 DEF Push
<1>6. Wrap(x) \in Cell
  BY WrapType
<1>7. c' \in State
  BY <1>5, <1>6 DEF State
<1> DEFINE t == [pri |-> c.eax, alt |-> c.ecx, frm |-> View(c).frm, stk |-> a, hea |-> c.hea,
                 mem |-> Poke(View(c).mem, a, 4, v), out |-> c.out]
<1>8. View(c') = t
  <2>1. /\ c'.eax = c.eax /\ c'.ecx = c.ecx /\ c'.ebp = c.ebp /\ c'.esp = Wrap(x)
        /\ c'.hea = c.hea /\ c'.ram = m /\ c'.out = c.out
    BY <1>5 DEF State
  <2>2. Wrap(c'.esp - Ebx) = a /\ Data(c'.ram) = Poke(View(c).mem, a, 4, v)
    BY <1>2, <1>4, <2>1
  <2> QED
    BY <2>1, <2>2 DEF View
<1>9. Machine!Pushed(v) = t
  <2>1. Machine!Pushed(v) = [View(c) EXCEPT !.stk = a, !.mem = Poke(View(c).mem, a, 4, v)]
    BY <1>1, SameMemory, SameWords, StackAddress DEF Machine!Pushed
  <2> QED
    BY <2>1 DEF View
<1> QED
  BY <1>7, <1>8, <1>9
-----------------------------------------------------------------------------
(* States that differ from another in one place. *)

LEMMA ViewRegister ==
  ASSUME NEW x \in State, NEW r \in {"pri", "alt"}, NEW v \in Cell
  PROVE  [x EXCEPT ![Reg[r]] = v] \in State /\ View([x EXCEPT ![Reg[r]] = v]) = [View(x) EXCEPT ![r] = v]
<1>1. CASE r = "pri"
  <2>1. PICK y \in State : y = [x EXCEPT !.eax = v]
    BY DEF State
  <2>2. /\ y.eax = v /\ y.ecx = x.ecx /\ y.ebp = x.ebp /\ y.esp = x.esp
        /\ y.hea = x.hea /\ y.ram = x.ram /\ y.out = x.out
    BY <2>1 DEF State
  <2>3. View(y) = [View(x) EXCEPT !.pri = v]
    BY <2>2 DEF View
  <2>4. Reg[r] = "eax"
    BY <1>1 DEF Reg
  <2> QED
    BY <1>1, <2>1, <2>3, <2>4
<1>2. CASE r = "alt"
  <2>1. PICK y \in State : y = [x EXCEPT !.ecx = v]
    BY DEF State
  <2>2. /\ y.eax = x.eax /\ y.ecx = v /\ y.ebp = x.ebp /\ y.esp = x.esp
        /\ y.hea = x.hea /\ y.ram = x.ram /\ y.out = x.out
    BY <2>1 DEF State
  <2>3. View(y) = [View(x) EXCEPT !.alt = v]
    BY <2>2 DEF View
  <2>4. Reg[r] = "ecx"
    BY <1>2 DEF Reg
  <2> QED
    BY <1>2, <2>1, <2>3, <2>4
<1> QED
  BY <1>1, <1>2

LEMMA ViewStack ==
  ASSUME NEW x \in State, NEW e \in Cell
  PROVE  [x EXCEPT !.esp = e] \in State /\ View([x EXCEPT !.esp = e]) = [View(x) EXCEPT !.stk = Wrap(e - Ebx)]
<1>1. PICK y \in State : y = [x EXCEPT !.esp = e]
  BY DEF State
<1>2. /\ y.eax = x.eax /\ y.ecx = x.ecx /\ y.ebp = x.ebp /\ y.esp = e
      /\ y.hea = x.hea /\ y.ram = x.ram /\ y.out = x.out
  BY <1>1 DEF State
<1>3. View(y) = [View(x) EXCEPT !.stk = Wrap(e - Ebx)]
  BY <1>2 DEF View
<1> QED
  BY <1>1, <1>3

LEMMA ViewFrame ==
  ASSUME NEW x \in State, NEW e \in Cell
  PROVE  [x EXCEPT !.ebp = e] \in State /\ View([x EXCEPT !.ebp = e]) = [View(x) EXCEPT !.frm = Wrap(e - Ebx)]
<1>1. PICK y \in State : y = [x EXCEPT !.ebp = e]
  BY DEF State
<1>2. /\ y.eax = x.eax /\ y.ecx = x.ecx /\ y.ebp = e /\ y.esp = x.esp
      /\ y.hea = x.hea /\ y.ram = x.ram /\ y.out = x.out
  BY <1>1 DEF State
<1>3. View(y) = [View(x) EXCEPT !.frm = Wrap(e - Ebx)]
  BY <1>2 DEF View
<1> QED
  BY <1>1, <1>3

LEMMA ViewHeap ==
  ASSUME NEW x \in State, NEW v \in Cell
  PROVE  [x EXCEPT !.hea = v] \in State /\ View([x EXCEPT !.hea = v]) = [View(x) EXCEPT !.hea = v]
<1>1. PICK y \in State : y = [x EXCEPT !.hea = v]
  BY DEF State
<1>2. /\ y.eax = x.eax /\ y.ecx = x.ecx /\ y.ebp = x.ebp /\ y.esp = x.esp
      /\ y.hea = v /\ y.ram = x.ram /\ y.out = x.out
  BY <1>1 DEF State
<1>3. View(y) = [View(x) EXCEPT !.hea = v]
  BY <1>2 DEF View
<1> QED
  BY <1>1, <1>3

LEMMA ViewOut ==
  ASSUME NEW x \in State, NEW o \in {"next", "jump", "BOUNDS"}
  PROVE  [x EXCEPT !.out = o] \in State /\ View([x EXCEPT !.out = o]) = [View(x) EXCEPT !.out = o]
<1>1. PICK y \in State : y = [x EXCEPT !.out = o]
  BY DEF State
<1>2. /\ y.eax = x.eax /\ y.ecx = x.ecx /\ y.ebp = x.ebp /\ y.esp = x.esp
      /\ y.hea = x.hea /\ y.ram = x.ram /\ y.out = o
  BY <1>1 DEF State
<1>3. View(y) = [View(x) EXCEPT !.out = o]
  BY <1>2 DEF View
<1> QED
  BY <1>1, <1>3

LEMMA SetsBoth ==
  ASSUME c \in State, NEW v \in Cell, NEW w \in Cell, c' = [c EXCEPT !.eax = v, !.ecx = w]
  PROVE  c' \in State /\ View(c') = [View(c) EXCEPT !.pri = v, !.alt = w]
<1>1. PICK x \in State : x = [c EXCEPT !.eax = v] /\ View(x) = [View(c) EXCEPT !.pri = v]
  <2>1. Reg["pri"] = "eax"
    BY DEF Reg
  <2> QED
    BY <2>1, ViewRegister
<1>2. PICK y \in State : y = [x EXCEPT !.ecx = w] /\ View(y) = [View(x) EXCEPT !.alt = w]
  <2>1. Reg["alt"] = "ecx"
    BY DEF Reg
  <2> QED
    BY <2>1, ViewRegister
<1>3. c' = y
  BY <1>1, <1>2 DEF State
<1>4. View(y) = [View(c) EXCEPT !.pri = v, !.alt = w]
  BY <1>1, <1>2
<1> QED
  BY <1>3, <1>4

-----------------------------------------------------------------------------
(* The instructions, one by one. *)

LEMMA Fields ==
  ASSUME c \in State
  PROVE  /\ c.eax \in Cell /\ c.ecx \in Cell /\ c.ebp \in Cell /\ c.esp \in Cell /\ c.hea \in Cell
         /\ c.eax \in Int /\ c.ecx \in Int /\ c.ebp \in Int /\ c.esp \in Int /\ c.hea \in Int
         /\ c.ram \in [Cell -> Byte] /\ Ebx \in Cell /\ Ebx \in Int
         /\ View(c).pri = c.eax /\ View(c).alt = c.ecx /\ View(c).hea = c.hea /\ View(c).out = c.out
         /\ View(c)["pri"] = c.eax /\ View(c)["alt"] = c.ecx
<1>1. c.eax \in Cell /\ c.ecx \in Cell /\ c.ebp \in Cell /\ c.esp \in Cell /\ c.hea \in Cell /\ Ebx \in Cell
  BY OpcodesAssumption DEF State
<1> QED
  BY <1>1, CellType DEF State, View

LEMMA RegisterValue ==
  ASSUME c \in State, NEW r \in {"pri", "alt"}
  PROVE  /\ c[Reg[r]] = View(c)[r] /\ c[Reg[r]] \in Cell /\ c[Reg[r]] \in Int
         /\ View(c)[r] \in Cell /\ View(c)[r] \in Int
BY Fields DEF Reg

LEMMA Form ==
  ASSUME NEW i \in Instructions
  PROVE  /\ i.n \in Cell /\ i.n \in Int
         /\ i.op \in {"LOAD", "STOR", "CONST", "ADDR", "ALIGN", "MOVE", "PUSH.R", "POP", "SWAP", "SHL.C",
                     "SHR.C", "SIGN", "ZERO.R", "INC.R", "DEC.R", "EQ.C"} => i.r \in {"pri", "alt"}
         /\ i.op \in {"LOAD", "STOR", "PUSH", "ZERO", "INC", "DEC"} => i.m \in {"DATA", "S", "REF", "REF.S", "I"}
BY OpcodesAssumption, CellType DEF WellFormed, Reg

\* An operand in memory has the same place in both.
LEMMA OperandAddress ==
  ASSUME c \in State, NEW i \in Instructions, i.m \in {"DATA", "S", "REF", "REF.S", "I"}
  PROVE  /\ Ptr(i) \in Int /\ Machine!Address(i) \in Int
         /\ Wrap(Ptr(i)) = Wrap(Ebx + Machine!Address(i))
<1>1. i.n \in Int
  BY Form
<1>2. CASE i.m = "DATA"
  <2>1. Ptr(i) = Ebx + i.n /\ Machine!Address(i) = i.n
    BY <1>2 DEF Ptr, Machine!Address
  <2> QED
    BY <1>1, <2>1, Fields
<1>3. CASE i.m = "S"
  <2>1. Ptr(i) = c.ebp + i.n /\ Machine!Address(i) = Wrap(View(c).frm + i.n)
    BY <1>3, SameWords DEF Ptr, Machine!Address
  <2>2. Wrap(c.ebp + i.n) = Wrap(Ebx + Wrap(View(c).frm + i.n)) /\ View(c).frm + i.n \in Int /\ c.ebp + i.n \in Int
    BY <1>1, FrameAddress
  <2> QED
    BY <2>1, <2>2, WrapType, CellType
<1>4. CASE i.m = "REF"
  <2>1. Ptr(i) = Ebx + Dword(Ebx + i.n) /\ Machine!Address(i) = Machine!At(i.n)
    BY <1>4 DEF Ptr, Machine!Address
  <2>2. Ebx + i.n \in Int
    BY <1>1, Fields
  <2>3. Dword(Ebx + i.n) = Machine!At(i.n) /\ Dword(Ebx + i.n) \in Cell
    BY <1>1, <2>2, DwordView
  <2> QED
    BY <2>1, <2>3, Fields, CellType
<1>5. CASE i.m = "REF.S"
  <2>1. Ptr(i) = Ebx + Dword(c.ebp + i.n) /\ Machine!Address(i) = Machine!At(Wrap(View(c).frm + i.n))
    BY <1>5, SameWords DEF Ptr, Machine!Address
  <2>2. Wrap(c.ebp + i.n) = Wrap(Ebx + Wrap(View(c).frm + i.n)) /\ View(c).frm + i.n \in Int /\ c.ebp + i.n \in Int
    BY <1>1, FrameAddress
  <2>3. PICK a \in Int : a = Wrap(View(c).frm + i.n)
    BY <2>2, WrapType, CellType
  <2>4. Dword(c.ebp + i.n) = Machine!At(a) /\ Dword(c.ebp + i.n) \in Cell
    BY <2>2, <2>3, DwordView
  <2> QED
    BY <2>1, <2>3, <2>4, Fields, CellType
<1>6. CASE i.m = "I"
  <2>1. Ptr(i) = Ebx + c.eax /\ Machine!Address(i) = c.eax
    BY <1>6, Fields DEF Ptr, Machine!Address
  <2> QED
    BY <2>1, Fields
<1> QED
  BY <1>2, <1>3, <1>4, <1>5, <1>6

LEMMA OperandValue ==
  ASSUME c \in State, NEW i \in Instructions, i.m \in {"DATA", "S", "REF", "REF.S", "I"}
  PROVE  Dword(Ptr(i)) = Machine!At(Machine!Address(i)) /\ Dword(Ptr(i)) \in Cell /\ Dword(Ptr(i)) \in Int
<1>1. PICK a \in Int, x \in Int : a = Machine!Address(i) /\ x = Ptr(i) /\ Wrap(x) = Wrap(Ebx + a)
  BY OperandAddress
<1> QED
  BY <1>1, DwordView, CellType

LEMMA HeapSpaceValue ==
  ASSUME c \in State
  PROVE  /\ (c.esp - Ebx) - c.hea \in Int /\ View(c).stk - View(c).hea \in Int
         /\ Wrap((c.esp - Ebx) - c.hea) = Wrap(View(c).stk - View(c).hea)
<1>1. PICK d \in Int : d = c.esp - Ebx
  BY Fields
<1>2. Wrap(Wrap(d) - c.hea) = Wrap(d - c.hea)
  BY Fields, WrapAdd
<1> QED
  BY <1>1, <1>2, Fields, StackAddress DEF Stk

LEMMA AddSame ==
  ASSUME c \in State, NEW i \in Instructions, Add(i)
  PROVE  c' \in State /\ View(c') = Machine!Meaning(i)
<1>1. i.op = "ADD" /\ c' = Mov("eax", c.eax + c.ecx)
  BY DEF Add, Is, Emit
<1>2. Machine!Meaning(i) = Machine!Set("pri", View(c).pri + View(c).alt)
  BY <1>1, SameWords DEF Machine!Meaning, Machine!Computes, Machine!Relations
<1>3. PICK v \in Int, w \in Int : v = c.eax + c.ecx /\ w = View(c).pri + View(c).alt /\ Wrap(v) = Wrap(w)
  BY Fields
<1> QED
  BY <1>1, <1>2, <1>3, SetsPri

LEMMA SubSame ==
  ASSUME c \in State, NEW i \in Instructions, Sub(i)
  PROVE  c' \in State /\ View(c') = Machine!Meaning(i)
<1>1. i.op = "SUB" /\ c' = Mov("eax", c.eax - c.ecx)
  BY DEF Sub, Is, Emit
<1>2. Machine!Meaning(i) = Machine!Set("pri", View(c).pri - View(c).alt)
  BY <1>1, SameWords DEF Machine!Meaning, Machine!Computes, Machine!Relations
<1>3. PICK v \in Int, w \in Int : v = c.eax - c.ecx /\ w = View(c).pri - View(c).alt /\ Wrap(v) = Wrap(w)
  BY Fields
<1> QED
  BY <1>1, <1>2, <1>3, SetsPri

LEMMA UmulSame ==
  ASSUME c \in State, NEW i \in Instructions, Umul(i)
  PROVE  c' \in State /\ View(c') = Machine!Meaning(i)
<1>1. i.op = "UMUL" /\ c' = Mov("eax", c.eax * c.ecx)
  BY DEF Umul, Is, Emit
<1>2. Machine!Meaning(i) = Machine!Set("pri", View(c).pri * View(c).alt)
  BY <1>1, SameWords DEF Machine!Meaning, Machine!Computes, Machine!Relations
<1>3. PICK v \in Int, w \in Int : v = c.eax * c.ecx /\ w = View(c).pri * View(c).alt /\ Wrap(v) = Wrap(w)
  BY Fields
<1> QED
  BY <1>1, <1>2, <1>3, SetsPri

LEMMA SmulSame ==
  ASSUME c \in State, NEW i \in Instructions, Smul(i)
  PROVE  c' \in State /\ View(c') = Machine!Meaning(i)
<1>1. i.op = "SMUL" /\ c' = Mov("eax", Signed(c.eax) * Signed(c.ecx))
  BY DEF Smul, Is, Emit
<1>2. Machine!Meaning(i) = Machine!Set("pri", Signed(View(c).pri) * Signed(View(c).alt))
  BY <1>1, SameWords DEF Machine!Meaning, Machine!Computes, Machine!Relations
<1>3. PICK v \in Int, w \in Int : v = Signed(c.eax) * Signed(c.ecx) /\ w = Signed(View(c).pri) * Signed(View(c).alt) /\ Wrap(v) = Wrap(w)
  BY Fields, SignedType
<1> QED
  BY <1>1, <1>2, <1>3, SetsPri

LEMMA SmulCSame ==
  ASSUME c \in State, NEW i \in Instructions, SmulC(i)
  PROVE  c' \in State /\ View(c') = Machine!Meaning(i)
<1>1. i.op = "SMUL.C" /\ c' = Mov("eax", Signed(c.eax) * Signed(i.n))
  BY DEF SmulC, Is, Emit
<1>2. Machine!Meaning(i) = Machine!Set("pri", Signed(View(c).pri) * Signed(i.n))
  BY <1>1, SameWords DEF Machine!Meaning, Machine!Computes, Machine!Relations
<1>3. PICK v \in Int, w \in Int : v = Signed(c.eax) * Signed(i.n) /\ w = Signed(View(c).pri) * Signed(i.n) /\ Wrap(v) = Wrap(w)
  BY Fields, SignedType, Form
<1> QED
  BY <1>1, <1>2, <1>3, SetsPri

LEMMA NotSame ==
  ASSUME c \in State, NEW i \in Instructions, Not_(i)
  PROVE  c' \in State /\ View(c') = Machine!Meaning(i)
<1>1. i.op = "NOT" /\ c' = Mov("eax", Setcc(c.eax = 0))
  BY DEF Not_, Is, Emit
<1>2. Machine!Meaning(i) = Machine!Set("pri", Setcc(View(c).pri = 0))
  BY <1>1, SameWords DEF Machine!Meaning, Machine!Computes, Machine!Relations, Machine!Truth, Setcc
<1>3. PICK v \in Int, w \in Int : v = Setcc(c.eax = 0) /\ w = Setcc(View(c).pri = 0) /\ Wrap(v) = Wrap(w)
  BY Fields DEF Setcc
<1> QED
  BY <1>1, <1>2, <1>3, SetsPri

LEMMA ConstSame ==
  ASSUME c \in State, NEW i \in Instructions, Const(i)
  PROVE  c' \in State /\ View(c') = Machine!Meaning(i)
<1>1. i.op = "CONST" /\ c' = Mov(Reg[i.r], i.n)
  BY DEF Const, Is, Emit
<1>2. i.r \in {"pri", "alt"} /\ i.n \in Cell /\ i.n \in Int
  BY <1>1, Form
<1>3. Machine!Meaning(i) = Machine!Set(i.r, i.n)
  BY <1>1, SameWords DEF Machine!Meaning
<1>4. PICK v \in Int, w \in Int : v = i.n /\ w = i.n /\ Wrap(v) = Wrap(w)
  BY <1>2, Fields, RegisterValue
<1> QED
  BY <1>1, <1>2, <1>3, <1>4, SetsRegister

LEMMA ZeroRSame ==
  ASSUME c \in State, NEW i \in Instructions, ZeroR(i)
  PROVE  c' \in State /\ View(c') = Machine!Meaning(i)
<1>1. i.op = "ZERO.R" /\ c' = Mov(Reg[i.r], 0)
  BY DEF ZeroR, Is, Emit
<1>2. i.r \in {"pri", "alt"} /\ i.n \in Cell /\ i.n \in Int
  BY <1>1, Form
<1>3. Machine!Meaning(i) = Machine!Set(i.r, 0)
  BY <1>1, SameWords DEF Machine!Meaning, Machine!Computes, Machine!Relations
<1>4. PICK v \in Int, w \in Int : v = 0 /\ w = 0 /\ Wrap(v) = Wrap(w)
  BY <1>2, Fields, RegisterValue
<1> QED
  BY <1>1, <1>2, <1>3, <1>4, SetsRegister

LEMMA IncRSame ==
  ASSUME c \in State, NEW i \in Instructions, IncR(i)
  PROVE  c' \in State /\ View(c') = Machine!Meaning(i)
<1>1. i.op = "INC.R" /\ c' = Mov(Reg[i.r], c[Reg[i.r]] + 1)
  BY DEF IncR, Is, Emit
<1>2. i.r \in {"pri", "alt"} /\ i.n \in Cell /\ i.n \in Int
  BY <1>1, Form
<1>3. Machine!Meaning(i) = Machine!Set(i.r, View(c)[i.r] + 1)
  BY <1>1, SameWords DEF Machine!Meaning, Machine!Computes, Machine!Relations
<1>4. PICK v \in Int, w \in Int : v = c[Reg[i.r]] + 1 /\ w = View(c)[i.r] + 1 /\ Wrap(v) = Wrap(w)
  BY <1>2, Fields, RegisterValue
<1> QED
  BY <1>1, <1>2, <1>3, <1>4, SetsRegister

LEMMA DecRSame ==
  ASSUME c \in State, NEW i \in Instructions, DecR(i)
  PROVE  c' \in State /\ View(c') = Machine!Meaning(i)
<1>1. i.op = "DEC.R" /\ c' = Mov(Reg[i.r], c[Reg[i.r]] - 1)
  BY DEF DecR, Is, Emit
<1>2. i.r \in {"pri", "alt"} /\ i.n \in Cell /\ i.n \in Int
  BY <1>1, Form
<1>3. Machine!Meaning(i) = Machine!Set(i.r, View(c)[i.r] - 1)
  BY <1>1, SameWords DEF Machine!Meaning, Machine!Computes, Machine!Relations
<1>4. PICK v \in Int, w \in Int : v = c[Reg[i.r]] - 1 /\ w = View(c)[i.r] - 1 /\ Wrap(v) = Wrap(w)
  BY <1>2, Fields, RegisterValue
<1> QED
  BY <1>1, <1>2, <1>3, <1>4, SetsRegister

LEMMA AddrSame ==
  ASSUME c \in State, NEW i \in Instructions, Addr(i)
  PROVE  c' \in State /\ View(c') = Machine!Meaning(i)
<1>1. i.op = "ADDR" /\ c' = Mov(Reg[i.r], (c.ebp + i.n) - Ebx)
  BY DEF Addr, Is, Emit
<1>2. i.r \in {"pri", "alt"} /\ i.n \in Cell /\ i.n \in Int
  BY <1>1, Form
<1>3. Machine!Meaning(i) = Machine!Set(i.r, View(c).frm + i.n)
  BY <1>1, SameWords DEF Machine!Meaning
<1>4. PICK v \in Int, w \in Int : v = (c.ebp + i.n) - Ebx /\ w = View(c).frm + i.n /\ Wrap(v) = Wrap(w)
  BY <1>2, FrameAddress
<1> QED
  BY <1>1, <1>2, <1>3, <1>4, SetsRegister

LEMMA IdxaddrSame ==
  ASSUME c \in State, NEW i \in Instructions, Idxaddr(i)
  PROVE  c' \in State /\ View(c') = Machine!Meaning(i)
<1>1. i.op = "IDXADDR" /\ c' = Mov("eax", c.ecx + c.eax * 2^2)
  BY DEF Idxaddr, Is, Emit
<1>2. Machine!Meaning(i) = Machine!Set("pri", View(c).alt + View(c).pri * 4)
  BY <1>1, SameWords DEF Machine!Meaning
<1>3. PICK v \in Int, w \in Int : v = c.ecx + c.eax * 2^2 /\ w = View(c).alt + View(c).pri * 4 /\ Wrap(v) = Wrap(w)
  BY Fields, SmallPowers
<1> QED
  BY <1>1, <1>2, <1>3, SetsPri

LEMMA HeapspaceSame ==
  ASSUME c \in State, NEW i \in Instructions, Heapspace(i)
  PROVE  c' \in State /\ View(c') = Machine!Meaning(i)
<1>1. i.op = "heapspace" /\ c' = Mov("eax", (c.esp - Ebx) - c.hea)
  BY DEF Heapspace, Is, Emit
<1>2. Machine!Meaning(i) = Machine!Set("pri", View(c).stk - View(c).hea)
  BY <1>1, SameWords DEF Machine!Meaning, Machine!Computes, Machine!Relations
<1>3. PICK v \in Int, w \in Int : v = (c.esp - Ebx) - c.hea /\ w = View(c).stk - View(c).hea /\ Wrap(v) = Wrap(w)
  BY HeapSpaceValue
<1> QED
  BY <1>1, <1>2, <1>3, SetsPri

LEMMA LoadMode ==
  ASSUME NEW i \in Instructions, i.op \in {"LOAD", "STOR", "PUSH", "ZERO", "INC", "DEC"}
  PROVE  i.m \in {"DATA", "S", "REF", "REF.S", "I"}
BY Form

LEMMA BytesLoaded ==
  ASSUME c \in State, NEW i \in Instructions, i.op \in {"LODB.I"}
  PROVE  /\ Peek(c.ram, Wrap(Ebx + c.eax), i.n) = Peek(View(c).mem, View(c).pri, i.n)
         /\ Peek(c.ram, Wrap(Ebx + c.eax), i.n) \in Int
<1>1. i.n \in Nat
  BY OpcodesAssumption DEF WellFormed
<1>2. PICK a \in Int, x \in Int : a = c.eax /\ x = Ebx + c.eax /\ a = View(c).pri
  BY Fields
<1>3. Peek(c.ram, Wrap(x), i.n) = Peek(View(c).mem, a, i.n) /\ Peek(c.ram, Wrap(x), i.n) \in Cell
  BY <1>1, <1>2, PeekView
<1> QED
  BY <1>2, <1>3, CellType

LEMMA ShiftType ==
  ASSUME NEW i \in Instructions
  PROVE  2^i.n \in Int
BY Form, CellType, PowerType

LEMMA IndexedValue ==
  ASSUME c \in State, NEW f \in Int
  PROVE  /\ Dword((Ebx + c.ecx) + c.eax * f) = Machine!At(Wrap(View(c).alt + View(c).pri * f))
         /\ Dword((Ebx + c.ecx) + c.eax * f) \in Int
<1>1. PICK p \in Int : p = c.eax * f
  BY Fields
<1>2. PICK a \in Int, x \in Int : a = Wrap(c.ecx + p) /\ x = (Ebx + c.ecx) + p
  BY Fields, WrapType, CellType
<1>3. Wrap(Ebx + a) = Wrap(x)
  <2>1. PICK y \in Int : y = c.ecx + p
    BY Fields
  <2>2. Wrap(Ebx + Wrap(y)) = Wrap(Ebx + y)
    BY Fields, WrapAdd
  <2>3. Ebx + y = x
    BY <1>2, <2>1, Fields
  <2> QED
    BY <1>2, <2>1, <2>2, <2>3
<1>4. Dword(x) = Machine!At(a) /\ Dword(x) \in Int
  BY <1>3, DwordView, CellType
<1> QED
  BY <1>1, <1>2, <1>4, Fields

LEMMA NegativeDifference ==
  ASSUME c \in State
  PROVE  /\ -Wrap(c.eax - c.ecx) \in Int /\ View(c).alt - View(c).pri \in Int
         /\ Wrap(-Wrap(c.eax - c.ecx)) = Wrap(View(c).alt - View(c).pri)
<1>1. PICK d \in Int : d = c.eax - c.ecx
  BY Fields
<1>2. Wrap(0 - Wrap(d)) = Wrap(0 - d)
  BY WrapAdd
<1>3. PICK w \in Int : w = Wrap(d)
  BY WrapType, CellType
<1>4. 0 - w = -w /\ 0 - d = c.ecx - c.eax
  BY <1>1, Fields
<1> QED
  BY <1>1, <1>2, <1>3, <1>4, Fields

LEMMA NegativeSigned ==
  ASSUME c \in State
  PROVE  /\ -c.eax \in Int /\ -Signed(View(c).pri) \in Int
         /\ Wrap(-c.eax) = Wrap(-Signed(View(c).pri))
<1>1. PICK z \in Int : z = Signed(c.eax) /\ Wrap(z) = c.eax
  BY Fields, SignedType, WrapSigned
<1>2. Wrap(0 - Wrap(z)) = Wrap(0 - z)
  BY WrapAdd
<1>3. 0 - c.eax = -c.eax /\ 0 - z = -z
  BY Fields
<1> QED
  BY <1>1, <1>2, <1>3, Fields

LEMMA Inverted ==
  ASSUME c \in State
  PROVE  /\ 2^CellBits - 1 - c.eax \in Int /\ -1 - View(c).pri \in Int
         /\ Wrap(2^CellBits - 1 - c.eax) = Wrap(-1 - View(c).pri)
<1>1. PICK m \in Int : m = 2^CellBits
  BY CellBitsType
<1>2. PICK x \in Int, y \in Int : x = m - 1 - c.eax /\ y = -1 - c.eax
  BY Fields
<1>3. x = y + 1 * m
  BY <1>2, Fields
<1>4. Wrap(x) = Wrap(y)
  BY <1>1, <1>3, WrapSame
<1> QED
  BY <1>1, <1>2, <1>4, Fields

\* ADD or SUB, by the sign of the operand, is an addition.
LEMMA SignedAddition ==
  ASSUME NEW v \in Int, NEW n \in Cell
  PROVE  AddSigned(v, n) = Wrap(v + n) /\ AddSigned(v, n) \in Cell /\ AddSigned(v, n) \in Int
         /\ Wrap(AddSigned(v, n)) = Wrap(v + n) /\ v + n \in Int
<1>1. AddSigned(v, n) = Wrap(v + n)
  <2>1. CASE Signed(n) >= 0
    BY <2>1 DEF AddSigned
  <2>2. CASE ~(Signed(n) >= 0)
    <3>1. PICK z \in Int : z = Signed(n) /\ Wrap(z) = n
      BY SignedType, WrapSigned
    <3>2. PICK y \in Int : y = -z
      OBVIOUS
    <3>3. Wrap(v - Wrap(y)) = Wrap(v - y)
      BY WrapAdd
    <3>4. v - y = v + z
      BY <3>2
    <3>5. Wrap(v + Wrap(z)) = Wrap(v + z)
      BY WrapAdd
    <3>6. AddSigned(v, n) = Wrap(v - Wrap(y))
      BY <2>2, <3>1, <3>2 DEF AddSigned
    <3> QED
      BY <3>1, <3>3, <3>4, <3>5, <3>6
  <2> QED
    BY <2>1, <2>2
<1>2. v + n \in Int
  BY CellType
<1> QED
  BY <1>1, <1>2, WrapType, CellType, WrapCell

LEMMA SignType ==
  ASSUME NEW v \in Int
  PROVE  ByteOf(v, 0) \in Int /\ ByteOf(v, 0) - 2^ByteBits \in Int
<1>1. ByteOf(v, 0) \in Byte
  BY BitsType
<1> QED
  BY <1>1, CellBitsType DEF Byte

LEMMA LoadSame ==
  ASSUME c \in State, NEW i \in Instructions, Load(i)
  PROVE  c' \in State /\ View(c') = Machine!Meaning(i)
<1>1. i.op = "LOAD" /\ c' = Mov(Reg[i.r], Dword(Ptr(i)))
  BY DEF Load, Is, Emit
<1>2. i.r \in {"pri", "alt"} /\ i.n \in Cell /\ i.n \in Int
  BY <1>1, Form
<1>3. Machine!Meaning(i) = Machine!Set(i.r, Machine!At(Machine!Address(i)))
  BY <1>1, SameWords, SameMemory DEF Machine!Meaning
<1>4. PICK v \in Int, w \in Int : v = Dword(Ptr(i)) /\ w = Machine!At(Machine!Address(i)) /\ Wrap(v) = Wrap(w)
  BY <1>1, <1>2, LoadMode, OperandValue
<1> QED
  BY <1>1, <1>2, <1>3, <1>4, SetsRegister

LEMMA LodbSame ==
  ASSUME c \in State, NEW i \in Instructions, Lodb(i)
  PROVE  c' \in State /\ View(c') = Machine!Meaning(i)
<1>1. i.op = "LODB.I" /\ c' = Mov("eax", Peek(c.ram, Wrap(Ebx + c.eax), i.n))
  BY DEF Lodb, Is, Emit
<1>2. Machine!Meaning(i) = Machine!Set("pri", Peek(View(c).mem, View(c).pri, i.n))
  BY <1>1, SameWords, SameMemory DEF Machine!Meaning
<1>3. PICK v \in Int, w \in Int : v = Peek(c.ram, Wrap(Ebx + c.eax), i.n) /\ w = Peek(View(c).mem, View(c).pri, i.n) /\ Wrap(v) = Wrap(w)
  BY <1>1, BytesLoaded
<1> QED
  BY <1>1, <1>2, <1>3, SetsPri

LEMMA LidxSame ==
  ASSUME c \in State, NEW i \in Instructions, Lidx(i)
  PROVE  c' \in State /\ View(c') = Machine!Meaning(i)
<1>1. i.op = "LIDX" /\ c' = Mov("eax", Dword((Ebx + c.ecx) + c.eax * 2^2))
  BY DEF Lidx, Is, Emit
<1>2. Machine!Meaning(i) = Machine!Set("pri", Machine!At(Wrap(View(c).alt + View(c).pri * 4)))
  BY <1>1, SameWords, SameMemory DEF Machine!Meaning
<1>3. PICK v \in Int, w \in Int : v = Dword((Ebx + c.ecx) + c.eax * 2^2) /\ w = Machine!At(Wrap(View(c).alt + View(c).pri * 4)) /\ Wrap(v) = Wrap(w)
  BY <1>1, IndexedValue, SmallPowers
<1> QED
  BY <1>1, <1>2, <1>3, SetsPri

LEMMA LidxBSame ==
  ASSUME c \in State, NEW i \in Instructions, LidxB(i)
  PROVE  c' \in State /\ View(c') = Machine!Meaning(i)
<1>1. i.op = "LIDX.B" /\ c' = Mov("eax", Dword((Ebx + c.ecx) + c.eax * 2^i.n))
  BY DEF LidxB, Is, Emit
<1>2. Machine!Meaning(i) = Machine!Set("pri", Machine!At(Wrap(View(c).alt + View(c).pri * 2^i.n)))
  BY <1>1, SameWords, SameMemory DEF Machine!Meaning
<1>3. PICK v \in Int, w \in Int : v = Dword((Ebx + c.ecx) + c.eax * 2^i.n) /\ w = Machine!At(Wrap(View(c).alt + View(c).pri * 2^i.n)) /\ Wrap(v) = Wrap(w)
  BY <1>1, IndexedValue, ShiftType
<1> QED
  BY <1>1, <1>2, <1>3, SetsPri

LEMMA IdxaddrBSame ==
  ASSUME c \in State, NEW i \in Instructions, IdxaddrB(i)
  PROVE  c' \in State /\ View(c') = Machine!Meaning(i)
<1>1. i.op = "IDXADDR.B" /\ c' = Mov("eax", c.ecx + c.eax * 2^i.n)
  BY DEF IdxaddrB, Is, Emit
<1>2. Machine!Meaning(i) = Machine!Set("pri", View(c).alt + View(c).pri * 2^i.n)
  BY <1>1, SameWords, SameMemory DEF Machine!Meaning
<1>3. PICK v \in Int, w \in Int : v = c.ecx + c.eax * 2^i.n /\ w = View(c).alt + View(c).pri * 2^i.n /\ Wrap(v) = Wrap(w)
  BY <1>1, Fields, ShiftType
<1> QED
  BY <1>1, <1>2, <1>3, SetsPri

LEMMA SubAltSame ==
  ASSUME c \in State, NEW i \in Instructions, SubAlt(i)
  PROVE  c' \in State /\ View(c') = Machine!Meaning(i)
<1>1. i.op = "SUB.ALT" /\ c' = Mov("eax", -Wrap(c.eax - c.ecx))
  BY DEF SubAlt, Is, Emit
<1>2. Machine!Meaning(i) = Machine!Set("pri", View(c).alt - View(c).pri)
  BY <1>1, SameWords, SameMemory DEF Machine!Meaning, Machine!Computes, Machine!Relations
<1>3. PICK v \in Int, w \in Int : v = -Wrap(c.eax - c.ecx) /\ w = View(c).alt - View(c).pri /\ Wrap(v) = Wrap(w)
  BY <1>1, NegativeDifference
<1> QED
  BY <1>1, <1>2, <1>3, SetsPri

LEMMA NegSame ==
  ASSUME c \in State, NEW i \in Instructions, Neg(i)
  PROVE  c' \in State /\ View(c') = Machine!Meaning(i)
<1>1. i.op = "NEG" /\ c' = Mov("eax", -c.eax)
  BY DEF Neg, Is, Emit
<1>2. Machine!Meaning(i) = Machine!Set("pri", -Signed(View(c).pri))
  BY <1>1, SameWords, SameMemory DEF Machine!Meaning, Machine!Computes, Machine!Relations
<1>3. PICK v \in Int, w \in Int : v = -c.eax /\ w = -Signed(View(c).pri) /\ Wrap(v) = Wrap(w)
  BY <1>1, NegativeSigned
<1> QED
  BY <1>1, <1>2, <1>3, SetsPri

LEMMA InvertSame ==
  ASSUME c \in State, NEW i \in Instructions, Invert(i)
  PROVE  c' \in State /\ View(c') = Machine!Meaning(i)
<1>1. i.op = "INVERT" /\ c' = Mov("eax", 2^CellBits - 1 - c.eax)
  BY DEF Invert, Is, Emit
<1>2. Machine!Meaning(i) = Machine!Set("pri", -1 - View(c).pri)
  BY <1>1, SameWords, SameMemory DEF Machine!Meaning, Machine!Computes, Machine!Relations
<1>3. PICK v \in Int, w \in Int : v = 2^CellBits - 1 - c.eax /\ w = -1 - View(c).pri /\ Wrap(v) = Wrap(w)
  BY <1>1, Inverted
<1> QED
  BY <1>1, <1>2, <1>3, SetsPri

LEMMA AddCSame ==
  ASSUME c \in State, NEW i \in Instructions, AddC(i)
  PROVE  c' \in State /\ View(c') = Machine!Meaning(i)
<1>1. i.op = "ADD.C" /\ c' = Mov("eax", AddSigned(c.eax, i.n))
  BY DEF AddC, Is, Emit
<1>2. Machine!Meaning(i) = Machine!Set("pri", View(c).pri + i.n)
  BY <1>1, SameWords, SameMemory DEF Machine!Meaning, Machine!Computes, Machine!Relations
<1>3. PICK v \in Int, w \in Int : v = AddSigned(c.eax, i.n) /\ w = View(c).pri + i.n /\ Wrap(v) = Wrap(w)
  BY <1>1, Fields, Form, SignedAddition
<1> QED
  BY <1>1, <1>2, <1>3, SetsPri

LEMMA SignSame ==
  ASSUME c \in State, NEW i \in Instructions, Sign(i)
  PROVE  c' \in State /\ View(c') = Machine!Meaning(i)
<1>1. i.op = "SIGN" /\ c' = Mov(Reg[i.r], Sx(ByteOf(c[Reg[i.r]], 0)))
  BY DEF Sign, Is, Emit
<1>2. i.r \in {"pri", "alt"} /\ i.n \in Cell /\ i.n \in Int
  BY <1>1, Form
<1>3. Machine!Meaning(i) = Machine!Set(i.r, (IF ByteOf(View(c)[i.r], 0) < 2^(ByteBits - 1) THEN ByteOf(View(c)[i.r], 0) ELSE ByteOf(View(c)[i.r], 0) - 2^ByteBits))
  BY <1>1, SameWords, SameMemory DEF Machine!Meaning, Machine!Computes, Machine!Relations
<1>4. PICK v \in Int, w \in Int : v = Sx(ByteOf(c[Reg[i.r]], 0)) /\ w = (IF ByteOf(View(c)[i.r], 0) < 2^(ByteBits - 1) THEN ByteOf(View(c)[i.r], 0) ELSE ByteOf(View(c)[i.r], 0) - 2^ByteBits) /\ Wrap(v) = Wrap(w)
  BY <1>1, <1>2, RegisterValue, SignType DEF Sx
<1> QED
  BY <1>1, <1>2, <1>3, <1>4, SetsRegister

LEMMA EqCSame ==
  ASSUME c \in State, NEW i \in Instructions, EqC(i)
  PROVE  c' \in State /\ View(c') = Machine!Meaning(i)
<1>1. i.op = "EQ.C" /\ c' = Mov("eax", Setcc(Cond("e", c[Reg[i.r]], i.n)))
  BY DEF EqC, Is, Emit
<1>2. i.r \in {"pri", "alt"}
  BY <1>1, Form
<1>3. Machine!Meaning(i) = Machine!Set("pri", Setcc(View(c)[i.r] = i.n))
  BY <1>1 DEF Machine!Meaning, Machine!Computes, Machine!Relations, Machine!Truth, Setcc
<1>4. PICK v \in Int : v = Setcc(Cond("e", c[Reg[i.r]], i.n)) /\ v = Setcc(View(c)[i.r] = i.n)
  BY <1>2, RegisterValue DEF Setcc, Cond
<1> QED
  BY <1>1, <1>3, <1>4, SetsPri

LEMMA StackTop ==
  ASSUME c \in State
  PROVE  /\ View(c).stk \in Int /\ c.esp \in Int /\ Wrap(c.esp) = Wrap(Ebx + View(c).stk)
         /\ Dword(c.esp) = Machine!At(View(c).stk) /\ Dword(c.esp) \in Cell
<1>1. PICK a \in Int, x \in Int : a = View(c).stk /\ x = c.esp
  BY StackAddress
<1>2. x + 0 = x /\ a + 0 = a /\ Wrap(x + 0) = Wrap(Ebx + (a + 0))
  BY <1>1, StackAddress
<1>3. Wrap(x) = Wrap(Ebx + a)
  BY <1>2
<1>4. Dword(x) = Machine!At(a) /\ Dword(x) \in Cell
  BY <1>3, DwordView
<1> QED
  BY <1>1, <1>3, <1>4

LEMMA StorSame ==
  ASSUME c \in State, NEW i \in Instructions, Stor(i)
  PROVE  c' \in State /\ View(c') = Machine!Meaning(i)
<1>1. i.op = "STOR" /\ c' = MovTo(Ptr(i), 4, c[Reg[i.r]])
  BY DEF Stor, Is, Emit
<1>2. Machine!Meaning(i) = Machine!Stored(Machine!Address(i), 4, View(c)[i.r])
  BY <1>1, SameWords, SameMemory DEF Machine!Meaning
<1>3. PICK a \in Int, x \in Int : a = Machine!Address(i) /\ x = Ptr(i) /\ Wrap(x) = Wrap(Ebx + a)
  BY <1>1, LoadMode, OperandAddress
<1>4. PICK v \in Int : v = c[Reg[i.r]] /\ v = View(c)[i.r]
  BY <1>1, Form, RegisterValue
<1> QED
  BY <1>1, <1>2, <1>3, <1>4, StoresNumber

LEMMA StorISame ==
  ASSUME c \in State, NEW i \in Instructions, StorI(i)
  PROVE  c' \in State /\ View(c') = Machine!Meaning(i)
<1>1. i.op = "STOR.I" /\ c' = MovTo(Ebx + c.ecx, 4, c.eax)
  BY DEF StorI, Is, Emit
<1>2. Machine!Meaning(i) = Machine!Stored(View(c).alt, 4, View(c).pri)
  BY <1>1, SameWords, SameMemory DEF Machine!Meaning
<1>3. PICK a \in Int, x \in Int : a = View(c).alt /\ x = Ebx + c.ecx /\ Wrap(x) = Wrap(Ebx + a)
  BY <1>1, Fields
<1>4. PICK v \in Int : v = c.eax /\ v = View(c).pri
  BY <1>1, Fields
<1> QED
  BY <1>1, <1>2, <1>3, <1>4, StoresNumber

LEMMA StrbSame ==
  ASSUME c \in State, NEW i \in Instructions, Strb(i)
  PROVE  c' \in State /\ View(c') = Machine!Meaning(i)
<1>1. i.op = "STRB.I" /\ c' = MovTo(Ebx + c.ecx, i.n, c.eax)
  BY DEF Strb, Is, Emit
<1>2. Machine!Meaning(i) = Machine!Stored(View(c).alt, i.n, View(c).pri)
  BY <1>1, SameWords, SameMemory DEF Machine!Meaning
<1>3. PICK a \in Int, x \in Int : a = View(c).alt /\ x = Ebx + c.ecx /\ Wrap(x) = Wrap(Ebx + a)
  BY <1>1, Fields
<1>4. PICK v \in Int : v = c.eax /\ v = View(c).pri
  BY <1>1, Fields
<1>5. i.n \in Nat
  BY Form, CellType
<1> QED
  BY <1>1, <1>2, <1>3, <1>4, <1>5, StoresNumber

LEMMA ZeroSame ==
  ASSUME c \in State, NEW i \in Instructions, Zero(i)
  PROVE  c' \in State /\ View(c') = Machine!Meaning(i)
<1>1. i.op = "ZERO" /\ c' = MovTo(Ptr(i), 4, 0)
  BY DEF Zero, Is, Emit
<1>2. Machine!Meaning(i) = Machine!Stored(Machine!Address(i), 4, 0)
  BY <1>1, SameWords, SameMemory DEF Machine!Meaning
<1>3. PICK a \in Int, x \in Int : a = Machine!Address(i) /\ x = Ptr(i) /\ Wrap(x) = Wrap(Ebx + a)
  BY <1>1, LoadMode, OperandAddress
<1>4. PICK v \in Int : v = 0 /\ v = 0
  BY <1>1, Fields
<1> QED
  BY <1>1, <1>2, <1>3, <1>4, StoresNumber

LEMMA IncSame ==
  ASSUME c \in State, NEW i \in Instructions, Inc(i)
  PROVE  c' \in State /\ View(c') = Machine!Meaning(i)
<1>1. i.op = "INC" /\ c' = MovTo(Ptr(i), 4, Wrap(Dword(Ptr(i)) + 1))
  BY DEF Inc, Is, Emit
<1>2. Machine!Meaning(i) = Machine!Stored(Machine!Address(i), 4, Wrap(Machine!At(Machine!Address(i)) + 1))
  BY <1>1, SameWords, SameMemory DEF Machine!Meaning
<1>3. PICK a \in Int, x \in Int : a = Machine!Address(i) /\ x = Ptr(i) /\ Wrap(x) = Wrap(Ebx + a)
  BY <1>1, LoadMode, OperandAddress
<1>4. PICK v \in Int : v = Wrap(Dword(Ptr(i)) + 1) /\ v = Wrap(Machine!At(Machine!Address(i)) + 1)
  BY <1>1, LoadMode, OperandValue, WrapType, CellType
<1> QED
  BY <1>1, <1>2, <1>3, <1>4, StoresNumber

LEMMA DecSame ==
  ASSUME c \in State, NEW i \in Instructions, Dec(i)
  PROVE  c' \in State /\ View(c') = Machine!Meaning(i)
<1>1. i.op = "DEC" /\ c' = MovTo(Ptr(i), 4, Wrap(Dword(Ptr(i)) - 1))
  BY DEF Dec, Is, Emit
<1>2. Machine!Meaning(i) = Machine!Stored(Machine!Address(i), 4, Wrap(Machine!At(Machine!Address(i)) - 1))
  BY <1>1, SameWords, SameMemory DEF Machine!Meaning
<1>3. PICK a \in Int, x \in Int : a = Machine!Address(i) /\ x = Ptr(i) /\ Wrap(x) = Wrap(Ebx + a)
  BY <1>1, LoadMode, OperandAddress
<1>4. PICK v \in Int : v = Wrap(Dword(Ptr(i)) - 1) /\ v = Wrap(Machine!At(Machine!Address(i)) - 1)
  BY <1>1, LoadMode, OperandValue, WrapType, CellType
<1> QED
  BY <1>1, <1>2, <1>3, <1>4, StoresNumber

LEMMA PushRSame ==
  ASSUME c \in State, NEW i \in Instructions, PushR(i)
  PROVE  c' \in State /\ View(c') = Machine!Meaning(i)
<1>1. i.op = "PUSH.R" /\ c' = Push(c, c[Reg[i.r]])
  BY DEF PushR, Is, Emit
<1>2. Machine!Meaning(i) = Machine!Pushed(View(c)[i.r])
  BY <1>1, SameWords, SameMemory DEF Machine!Meaning
<1>3. PICK v \in Int : v = c[Reg[i.r]] /\ v = View(c)[i.r]
  BY <1>1, Form, RegisterValue
<1> QED
  BY <1>1, <1>2, <1>3, Pushes

LEMMA PushCSame ==
  ASSUME c \in State, NEW i \in Instructions, PushC(i)
  PROVE  c' \in State /\ View(c') = Machine!Meaning(i)
<1>1. i.op = "PUSH.C" /\ c' = Push(c, i.n)
  BY DEF PushC, Is, Emit
<1>2. Machine!Meaning(i) = Machine!Pushed(i.n)
  BY <1>1, SameWords, SameMemory DEF Machine!Meaning
<1>3. PICK v \in Int : v = i.n /\ v = i.n
  BY <1>1, Form
<1> QED
  BY <1>1, <1>2, <1>3, Pushes

LEMMA PushMSame ==
  ASSUME c \in State, NEW i \in Instructions, PushM(i)
  PROVE  c' \in State /\ View(c') = Machine!Meaning(i)
<1>1. i.op = "PUSH" /\ c' = Push(c, Dword(Ptr(i)))
  BY DEF PushM, Is, Emit
<1>2. Machine!Meaning(i) = Machine!Pushed(Machine!At(Machine!Address(i)))
  BY <1>1, SameWords, SameMemory DEF Machine!Meaning
<1>3. PICK v \in Int : v = Dword(Ptr(i)) /\ v = Machine!At(Machine!Address(i))
  BY <1>1, LoadMode, OperandValue
<1> QED
  BY <1>1, <1>2, <1>3, Pushes

LEMMA PushAdrSame ==
  ASSUME c \in State, NEW i \in Instructions, PushAdr(i)
  PROVE  c' \in State /\ View(c') = Machine!Meaning(i)
<1>1. i.op = "PUSH.ADR" /\ c' = Push(c, Wrap((c.ebp + i.n) - Ebx))
  BY DEF PushAdr, Is, Emit
<1>2. Machine!Meaning(i) = Machine!Pushed(Wrap(View(c).frm + i.n))
  BY <1>1, SameWords, SameMemory DEF Machine!Meaning
<1>3. PICK v \in Int : v = Wrap((c.ebp + i.n) - Ebx) /\ v = Wrap(View(c).frm + i.n)
  BY <1>1, Form, FrameAddress, WrapType, CellType
<1> QED
  BY <1>1, <1>2, <1>3, Pushes

LEMMA MoveSame ==
  ASSUME c \in State, NEW i \in Instructions, Move(i)
  PROVE  c' \in State /\ View(c') = Machine!Meaning(i)
<1>1. i.op = "MOVE" /\ c' = Mov(Reg[i.r], c[OtherReg[i.r]])
  BY DEF Move, Is, Emit
<1>2. i.r \in {"pri", "alt"}
  BY <1>1, Form
<1>3. PICK q \in {"pri", "alt"} : q # i.r /\ OtherReg[i.r] = Reg[q]
  BY <1>2 DEF Reg, OtherReg
<1>4. (CHOOSE p \in Machine!Registers : p # i.r) = q
  BY <1>2, <1>3 DEF Machine!Registers
<1>5. Machine!Meaning(i) = Machine!Set(i.r, View(c)[q])
  BY <1>1, <1>4 DEF Machine!Meaning
<1>6. PICK v \in Int : v = c[Reg[q]] /\ v = View(c)[q]
  BY RegisterValue
<1> QED
  BY <1>1, <1>2, <1>3, <1>5, <1>6, SetsRegister

LEMMA XchgSame ==
  ASSUME c \in State, NEW i \in Instructions, Xchg(i)
  PROVE  c' \in State /\ View(c') = Machine!Meaning(i)
<1>1. i.op = "XCHG" /\ c' = [c EXCEPT !.eax = c.ecx, !.ecx = c.eax]
  BY DEF Xchg, Is, Emit
<1>2. Machine!Meaning(i) = [View(c) EXCEPT !.pri = c.ecx, !.alt = c.eax]
  BY <1>1, Fields DEF Machine!Meaning
<1> QED
  BY <1>1, <1>2, Fields, SetsBoth

LEMMA LctrlSame ==
  ASSUME c \in State, NEW i \in Instructions, Lctrl(i)
  PROVE  c' \in State /\ View(c') = Machine!Meaning(i)
<1> DEFINE code == CASE i.n = 2 -> c.hea [] i.n = 4 -> c.esp - Ebx [] i.n = 5 -> c.ebp - Ebx
           value == CASE i.n = 2 -> View(c).hea [] i.n = 4 -> View(c).stk [] i.n = 5 -> View(c).frm
<1>1. i.op = "LCTRL" /\ c' = Mov("eax", code)
  BY DEF Lctrl, Is, Emit
<1>2. i.n \in {2, 4, 5}
  BY <1>1, OpcodesAssumption DEF WellFormed
<1>3. Machine!Meaning(i) = Machine!Set("pri", value)
  BY <1>1 DEF Machine!Meaning
<1>4. code \in Int /\ value \in Int /\ Wrap(code) = Wrap(value)
  <2>1. CASE i.n = 2
    <3>1. code = c.hea /\ value = View(c).hea
      BY <2>1
    <3> QED
      BY <3>1, Fields
  <2>2. CASE i.n = 4
    <3>1. code = c.esp - Ebx /\ value = View(c).stk
      BY <2>2
    <3>2. PICK w \in Cell : w = View(c).stk /\ w = Wrap(c.esp - Ebx)
      BY StackAddress DEF Stk
    <3>3. c.esp - Ebx \in Int /\ View(c).stk \in Int /\ Wrap(c.esp - Ebx) = Wrap(View(c).stk)
      BY <3>2, Fields, WrapCell, CellType
    <3> HIDE DEF code, value
    <3> QED
      BY <3>1, <3>3
  <2>3. CASE i.n = 5
    <3>1. code = c.ebp - Ebx /\ value = View(c).frm
      BY <2>3
    <3>2. PICK w \in Cell : w = View(c).frm /\ w = Wrap(c.ebp - Ebx)
      BY FrameAddress DEF View
    <3>3. c.ebp - Ebx \in Int /\ View(c).frm \in Int /\ Wrap(c.ebp - Ebx) = Wrap(View(c).frm)
      BY <3>2, Fields, WrapCell, CellType
    <3> HIDE DEF code, value
    <3> QED
      BY <3>1, <3>3
  <2> QED
    BY <1>2, <2>1, <2>2, <2>3
<1> HIDE DEF code, value
<1> QED
  BY <1>1, <1>3, <1>4, SetsPri

LEMMA SctrlSame ==
  ASSUME c \in State, NEW i \in Instructions, Sctrl(i)
  PROVE  c' \in State /\ View(c') = Machine!Meaning(i)
<1>1. /\ i.op = "SCTRL"
      /\ c' = CASE i.n = 2 -> Mov("hea", c.eax) [] i.n = 4 -> Mov("esp", Ebx + c.eax)
                [] i.n = 5 -> Mov("ebp", Ebx + c.eax)
  BY DEF Sctrl, Is, Emit
<1>2. i.n \in {2, 4, 5}
  BY <1>1, OpcodesAssumption DEF WellFormed
<1>3. Machine!Meaning(i) =
        Machine!Set(CASE i.n = 2 -> "hea" [] i.n = 4 -> "stk" [] i.n = 5 -> "frm", c.eax)
  <2>1. Machine!Meaning(i) =
          Machine!Set(CASE i.n = 2 -> "hea" [] i.n = 4 -> "stk" [] i.n = 5 -> "frm", View(c).pri)
    BY <1>1 DEF Machine!Meaning
  <2> QED
    BY <2>1, Fields
<1>4. PICK e \in Cell : e = Wrap(Ebx + c.eax) /\ Wrap(e - Ebx) = c.eax
  <2>1. PICK a \in Cell, b \in Int : a = c.eax /\ b = Ebx
    BY Fields
  <2>2. Wrap(b + a) \in Cell
    BY <2>1, CellType, WrapType
  <2>3. Wrap(Wrap(b + a) - b) = a
    BY WrapBack
  <2> QED
    BY <2>1, <2>2, <2>3
<1>5. Wrap(c.eax) = c.eax /\ c.eax \in Cell
  BY Fields, WrapCell
<1>6. CASE i.n = 2
  <2>1. c' = [c EXCEPT !.hea = c.eax]
    <3>1. c' = Mov("hea", c.eax)
      BY <1>1, <1>6
    <3> QED
      BY <1>5, <3>1 DEF Mov
  <2>2. Machine!Meaning(i) = Machine!Set("hea", c.eax)
    BY <1>3, <1>6
  <2>3. Machine!Meaning(i) = [View(c) EXCEPT !.hea = c.eax]
    BY <1>5, <2>2, SameWords DEF Machine!Set
  <2> QED
    BY <1>5, <2>1, <2>3, ViewHeap
<1>7. CASE i.n = 4
  <2>1. c' = [c EXCEPT !.esp = e]
    <3>1. c' = Mov("esp", Ebx + c.eax)
      BY <1>1, <1>7
    <3> QED
      BY <1>4, <3>1 DEF Mov
  <2>2. Machine!Meaning(i) = Machine!Set("stk", c.eax)
    BY <1>3, <1>7
  <2>3. Machine!Meaning(i) = [View(c) EXCEPT !.stk = c.eax]
    BY <1>5, <2>2, SameWords DEF Machine!Set
  <2> QED
    BY <1>4, <2>1, <2>3, ViewStack
<1>8. CASE i.n = 5
  <2>1. c' = [c EXCEPT !.ebp = e]
    <3>1. c' = Mov("ebp", Ebx + c.eax)
      BY <1>1, <1>8
    <3> QED
      BY <1>4, <3>1 DEF Mov
  <2>2. Machine!Meaning(i) = Machine!Set("frm", c.eax)
    BY <1>3, <1>8
  <2>3. Machine!Meaning(i) = [View(c) EXCEPT !.frm = c.eax]
    BY <1>5, <2>2, SameWords DEF Machine!Set
  <2> QED
    BY <1>4, <2>1, <2>3, ViewFrame
<1> QED
  BY <1>2, <1>6, <1>7, <1>8

LEMMA PopSame ==
  ASSUME c \in State, NEW i \in Instructions, Pop(i)
  PROVE  c' \in State /\ View(c') = Machine!Meaning(i)
<1>1. i.op = "POP" /\ c' = [Mov(Reg[i.r], Dword(c.esp)) EXCEPT !.esp = Wrap(@ + 4)]
  BY DEF Pop, Is, Emit
<1>2. i.r \in {"pri", "alt"}
  BY <1>1, Form
<1>3. PICK v \in Cell : v = Dword(c.esp) /\ v = Machine!At(View(c).stk) /\ Wrap(v) = v
  BY StackTop, WrapCell
<1>4. PICK x \in State : x = [c EXCEPT ![Reg[i.r]] = v] /\ View(x) = [View(c) EXCEPT ![i.r] = v]
  <2>1. /\ [c EXCEPT ![Reg[i.r]] = v] \in State
        /\ View([c EXCEPT ![Reg[i.r]] = v]) = [View(c) EXCEPT ![i.r] = v]
    BY <1>2, ViewRegister
  <2> QED
    BY <2>1
<1>5. x.esp = c.esp /\ View(x).stk = View(c).stk
  <2>1. Reg[i.r] \in {"eax", "ecx"}
    BY <1>2 DEF Reg
  <2>2. x.esp = c.esp
    BY <1>4, <2>1 DEF State
  <2> QED
    BY <2>2 DEF View
<1>6. PICK e \in Cell : e = Wrap(c.esp + 4) /\ Wrap(e - Ebx) = Wrap(View(c).stk + 4)
  BY Fields, StackAddress, WrapType
<1>7. c' = [x EXCEPT !.esp = e]
  <2>1. c' = [[c EXCEPT ![Reg[i.r]] = v] EXCEPT !.esp = Wrap(@ + 4)]
    BY <1>1, <1>3 DEF Mov
  <2> QED
    BY <1>4, <1>5, <1>6, <2>1
<1>8. Machine!Meaning(i) = [View(x) EXCEPT !.stk = Wrap(View(c).stk + 4)]
  <2>1. Machine!Meaning(i) = [Machine!Set(i.r, v) EXCEPT !.stk = Machine!Wrap(@ + 4)]
    BY <1>1, <1>3 DEF Machine!Meaning
  <2>2. Machine!Set(i.r, v) = View(x)
    BY <1>3, <1>4, SameWords DEF Machine!Set
  <2> QED
    BY <1>5, <2>1, <2>2, SameWords
<1> QED
  BY <1>6, <1>7, <1>8, ViewStack

LEMMA SwapSame ==
  ASSUME c \in State, NEW i \in Instructions, Swap(i)
  PROVE  c' \in State /\ View(c') = Machine!Meaning(i)
<1>1. i.op = "SWAP" /\ c' = [MovTo(c.esp, 4, c[Reg[i.r]]) EXCEPT ![Reg[i.r]] = Dword(c.esp)]
  BY DEF Swap, Is, Emit
<1>2. i.r \in {"pri", "alt"}
  BY <1>1, Form
<1>3. PICK v \in Cell : v = Dword(c.esp) /\ v = Machine!At(View(c).stk)
  BY StackTop
<1>4. PICK u \in Int : u = c[Reg[i.r]] /\ u = View(c)[i.r]
  BY <1>2, RegisterValue
<1>5. PICK a \in Int, y \in Int : a = View(c).stk /\ y = c.esp /\ Wrap(y) = Wrap(Ebx + a)
  BY StackTop
<1>6. PICK x \in State : x = MovTo(c.esp, 4, u) /\ View(x) = Machine!Stored(a, 4, u)
  <2>1. MovTo(y, 4, u) \in State /\ View(MovTo(y, 4, u)) = Machine!Stored(a, 4, u)
    BY <1>5, StoredState
  <2> QED
    BY <1>5, <2>1
<1>7. c' = [x EXCEPT ![Reg[i.r]] = v]
  BY <1>1, <1>3, <1>4, <1>6
<1>8. Machine!Meaning(i) = [Machine!Stored(View(c).stk, 4, View(c)[i.r]) EXCEPT ![i.r] = Machine!At(View(c).stk)]
  BY <1>1 DEF Machine!Meaning
<1>9. Machine!Meaning(i) = [View(x) EXCEPT ![i.r] = v]
  BY <1>3, <1>4, <1>5, <1>6, <1>8
<1>10. /\ [x EXCEPT ![Reg[i.r]] = v] \in State
       /\ View([x EXCEPT ![Reg[i.r]] = v]) = [View(x) EXCEPT ![i.r] = v]
  BY <1>2, ViewRegister
<1> QED
  BY <1>7, <1>9, <1>10

LEMMA StackSame ==
  ASSUME c \in State, NEW i \in Instructions, Stack(i)
  PROVE  c' \in State /\ View(c') = Machine!Meaning(i)
<1>1. i.op = "STACK" /\ c' = [Mov("ecx", c.esp - Ebx) EXCEPT !.esp = AddSigned(@, i.n)]
  BY DEF Stack, Is, Emit
<1>2. PICK v \in Cell : v = Wrap(c.esp - Ebx) /\ v = View(c).stk
  BY StackAddress DEF Stk
<1>3. PICK x \in State : x = [c EXCEPT !.ecx = v] /\ View(x) = [View(c) EXCEPT !.alt = v]
  <2>1. Reg["alt"] = "ecx"
    BY DEF Reg
  <2> QED
    BY <2>1, ViewRegister
<1>4. x.esp = c.esp /\ View(x).stk = View(c).stk
  BY <1>3 DEF State, View
<1>5. PICK e \in Cell : e = AddSigned(c.esp, i.n) /\ Wrap(e - Ebx) = Wrap(View(c).stk + i.n)
  BY Fields, Form, SignedAddition, StackAddress
<1>6. c' = [x EXCEPT !.esp = e]
  BY <1>1, <1>2, <1>3, <1>4, <1>5 DEF Mov
<1>7. Machine!Meaning(i) = [View(x) EXCEPT !.stk = Wrap(View(c).stk + i.n)]
  <2>1. Machine!Meaning(i) = [View(c) EXCEPT !.alt = View(c).stk, !.stk = Wrap(View(c).stk + i.n)]
    BY <1>1, SameWords DEF Machine!Meaning
  <2> QED
    BY <1>2, <1>3, <2>1
<1> QED
  BY <1>5, <1>6, <1>7, ViewStack

LEMMA HeapSame ==
  ASSUME c \in State, NEW i \in Instructions, Heap(i)
  PROVE  c' \in State /\ View(c') = Machine!Meaning(i)
<1>1. i.op = "HEAP" /\ c' = [Mov("ecx", c.hea) EXCEPT !.hea = AddSigned(@, i.n)]
  BY DEF Heap, Is, Emit
<1>2. PICK v \in Cell : v = Wrap(c.hea) /\ v = View(c).hea /\ v = c.hea
  BY Fields, WrapCell
<1>3. PICK x \in State : x = [c EXCEPT !.ecx = v] /\ View(x) = [View(c) EXCEPT !.alt = v]
  <2>1. Reg["alt"] = "ecx"
    BY DEF Reg
  <2> QED
    BY <2>1, ViewRegister
<1>4. x.hea = c.hea /\ View(x).hea = View(c).hea
  BY <1>3 DEF State, View
<1>5. PICK e \in Cell : e = AddSigned(c.hea, i.n) /\ e = Wrap(View(c).hea + i.n)
  BY Fields, Form, SignedAddition
<1>6. c' = [x EXCEPT !.hea = e]
  BY <1>1, <1>2, <1>3, <1>4, <1>5 DEF Mov
<1>7. Machine!Meaning(i) = [View(x) EXCEPT !.hea = e]
  <2>1. Machine!Meaning(i) = [View(c) EXCEPT !.alt = View(c).hea, !.hea = Wrap(View(c).hea + i.n)]
    BY <1>1, SameWords DEF Machine!Meaning
  <2> QED
    BY <1>2, <1>3, <1>5, <2>1
<1> QED
  BY <1>5, <1>6, <1>7, ViewHeap

\* A number with given bits is a number: the sum that defines it exists.
LEMMA NumberType ==
  ASSUME NEW bits
  PROVE  Number(bits) \in Nat
<1> DEFINE bit(k) == IF k - 1 \in bits THEN 2^(k - 1) ELSE 0
           Sums(f, n) == f = [k \in 0..n |-> IF k = 0 THEN 0 ELSE f[k - 1] + bit(k)]
           T == {n \in Nat : \E f \in [0..n -> Nat] : Sums(f, n)}
           sum == CHOOSE f : Sums(f, CellBits)
<1>1. ASSUME NEW k \in Nat, k # 0 PROVE bit(k) \in Nat
  <2>1. k - 1 \in Nat
    BY <1>1
  <2>2. 2^(k - 1) \in Nat
    BY <2>1, PowerType
  <2> QED
    BY <2>2
<1>2. 0 \in T
  <2>1. PICK f \in [0..0 -> Nat] : f = [k \in 0..0 |-> 0]
    OBVIOUS
  <2>2. Sums(f, 0)
    BY <2>1
  <2> QED
    BY <2>2
<1>3. ASSUME NEW n \in T PROVE n + 1 \in T
  <2>1. PICK f \in [0..n -> Nat] : Sums(f, n)
    OBVIOUS
  <2> DEFINE g == [k \in 0..(n + 1) |-> IF k = n + 1 THEN f[n] + bit(n + 1) ELSE f[k]]
  <2>2. n \in Nat /\ n + 1 \in Nat /\ n + 1 # 0 /\ f[n] \in Nat /\ bit(n + 1) \in Nat
    <3>1. n \in Nat /\ n + 1 \in Nat /\ n + 1 # 0 /\ f[n] \in Nat
      OBVIOUS
    <3> HIDE DEF bit
    <3> QED
      BY <3>1, <1>1
  <2>3. \A k \in 0..n : f[k] = IF k = 0 THEN 0 ELSE f[k - 1] + bit(k)
    <3> HIDE DEF bit
    <3> QED
      BY <2>1
  <2> HIDE DEF bit
  <2>4. g \in [0..(n + 1) -> Nat]
    <3>1. ASSUME NEW k \in 0..(n + 1), k # n + 1 PROVE f[k] \in Nat
      <4>1. k \in 0..n
        BY <2>2, <3>1
      <4> QED
        BY <4>1
    <3> QED
      BY <2>2, <3>1
  <2>5. ASSUME NEW k \in 0..(n + 1) PROVE g[k] = IF k = 0 THEN 0 ELSE g[k - 1] + bit(k)
    <3>1. CASE k = n + 1
      <4>1. k # 0 /\ k - 1 = n /\ n \in 0..(n + 1) /\ n # n + 1
        BY <2>2, <3>1
      <4>2. g[k] = f[n] + bit(k) /\ g[k - 1] = f[n]
        BY <3>1, <4>1
      <4> QED
        BY <4>1, <4>2
    <3>2. CASE k # n + 1
      <4>1. k \in 0..n /\ (k # 0 => k - 1 \in 0..n /\ k - 1 # n + 1 /\ k - 1 \in 0..(n + 1))
        BY <2>2, <3>2
      <4>2. g[k] = f[k] /\ (k # 0 => g[k - 1] = f[k - 1])
        BY <3>2, <4>1
      <4> QED
        BY <2>3, <4>1, <4>2
    <3> QED
      BY <3>1, <3>2
  <2>6. g = [k \in 0..(n + 1) |-> IF k = 0 THEN 0 ELSE g[k - 1] + bit(k)]
    <3>1. DOMAIN g = 0..(n + 1) /\ g = [k \in DOMAIN g |-> g[k]]
      OBVIOUS
    <3> HIDE DEF g
    <3> QED
      BY <2>5, <3>1
  <2>7. Sums(g, n + 1)
    <3> HIDE DEF g
    <3> QED
      BY <2>6
  <2> HIDE DEF g, Sums
  <2> QED
    BY <2>2, <2>4, <2>7
<1>4. T = Nat
  <2>1. T \in SUBSET Nat
    OBVIOUS
  <2> HIDE DEF T
  <2> QED
    BY <1>2, <1>3, <2>1, InductiveSet
<1>5. Sums(sum, CellBits)
  <2>1. \E f : Sums(f, CellBits)
    BY <1>4, CellBitsType
  <2> HIDE DEF Sums
  <2> QED
    BY <2>1
<1>6. Number(bits) = sum[CellBits]
  BY DEF Number
<1> DEFINE U == {n \in Nat : n \in 0..CellBits => sum[n] \in Nat}
<1>7. \A k \in 0..CellBits : sum[k] = IF k = 0 THEN 0 ELSE sum[k - 1] + bit(k)
  <2> HIDE DEF sum, bit
  <2> QED
    BY <1>5
<1> HIDE DEF sum, bit
<1>8. 0 \in U
  BY <1>7
<1>9. ASSUME NEW n \in U PROVE n + 1 \in U
  <2>1. SUFFICES ASSUME n + 1 \in 0..CellBits PROVE sum[n + 1] \in Nat
    OBVIOUS
  <2>2. n \in 0..CellBits /\ n + 1 # 0 /\ (n + 1) - 1 = n /\ n + 1 \in Nat /\ sum[n] \in Nat
    BY <2>1, CellBitsType
  <2>3. PICK m \in Nat : m = n + 1 /\ m # 0 /\ m - 1 = n /\ m \in 0..CellBits
    BY <2>1, <2>2
  <2>4. bit(m) \in Nat
    BY <1>1, <2>3
  <2>5. sum[m] = sum[m - 1] + bit(m)
    BY <1>7, <2>3
  <2> QED
    BY <2>2, <2>3, <2>4, <2>5
<1>10. U = Nat
  <2>1. U \in SUBSET Nat
    OBVIOUS
  <2> HIDE DEF U
  <2> QED
    BY <1>8, <1>9, <2>1, InductiveSet
<1>11. CellBits \in U /\ CellBits \in 0..CellBits
  BY <1>10, CellBitsType
<1>12. sum[CellBits] \in Nat
  BY <1>11
<1> QED
  BY <1>6, <1>12

LEMMA LogicType ==
  ASSUME NEW v, NEW w
  PROVE  And(v, w) \in Int /\ Or(v, w) \in Int /\ Xor(v, w) \in Int
BY NumberType DEF And, Or, Xor

LEMMA Comparisons ==
  ASSUME NEW rel \in DOMAIN Codes, NEW a, NEW b
  PROVE  Cond(Codes[rel], a, b) <=> Machine!Comparison(rel, a, b)
<1>1. rel \in {"EQ", "NEQ", "LESS", "LEQ", "GRTR", "GEQ", "SLESS", "SLEQ", "SGRTR", "SGEQ"}
  BY DEF Codes
<1>2. CASE rel = "EQ"
  BY <1>2, SameWords DEF Codes, Cond, Machine!Comparison
<1>3. CASE rel = "NEQ"
  BY <1>3, SameWords DEF Codes, Cond, Machine!Comparison
<1>4. CASE rel = "LESS"
  BY <1>4, SameWords DEF Codes, Cond, Machine!Comparison
<1>5. CASE rel = "LEQ"
  BY <1>5, SameWords DEF Codes, Cond, Machine!Comparison
<1>6. CASE rel = "GRTR"
  BY <1>6, SameWords DEF Codes, Cond, Machine!Comparison
<1>7. CASE rel = "GEQ"
  BY <1>7, SameWords DEF Codes, Cond, Machine!Comparison
<1>8. CASE rel = "SLESS"
  BY <1>8, SameWords DEF Codes, Cond, Machine!Comparison
<1>9. CASE rel = "SLEQ"
  BY <1>9, SameWords DEF Codes, Cond, Machine!Comparison
<1>10. CASE rel = "SGRTR"
  BY <1>10, SameWords DEF Codes, Cond, Machine!Comparison
<1>11. CASE rel = "SGEQ"
  BY <1>11, SameWords DEF Codes, Cond, Machine!Comparison
<1> QED
  BY <1>1, <1>2, <1>3, <1>4, <1>5, <1>6, <1>7, <1>8, <1>9, <1>10, <1>11

LEMMA CompareSame ==
  ASSUME c \in State, NEW i \in Instructions, Compare(i)
  PROVE  c' \in State /\ View(c') = Machine!Meaning(i)
<1>1. i.op \in DOMAIN Codes /\ c' = Mov("eax", Setcc(Cond(Codes[i.op], c.eax, c.ecx)))
  BY DEF Compare, Is, Emit
<1>2. i.op \in {"EQ", "NEQ", "LESS", "LEQ", "GRTR", "GEQ", "SLESS", "SLEQ", "SGRTR", "SGEQ"}
  BY <1>1 DEF Codes
<1>3. Machine!Meaning(i) = Machine!Set("pri", Setcc(Machine!Comparison(i.op, View(c).pri, View(c).alt)))
  <2>1. Machine!Meaning(i) = Machine!Computes(i)
    BY <1>2 DEF Machine!Meaning
  <2>2. Machine!Computes(i) = Machine!Set("pri", Machine!Truth(Machine!Comparison(i.op, View(c).pri, View(c).alt)))
    BY <1>2 DEF Machine!Computes, Machine!Relations
  <2> QED
    BY <2>1, <2>2 DEF Machine!Truth, Setcc
<1>4. Cond(Codes[i.op], c.eax, c.ecx) <=> Machine!Comparison(i.op, View(c).pri, View(c).alt)
  BY <1>1, Fields, Comparisons
<1>5. PICK v \in Int : /\ v = Setcc(Cond(Codes[i.op], c.eax, c.ecx))
                       /\ v = Setcc(Machine!Comparison(i.op, View(c).pri, View(c).alt))
  BY <1>4 DEF Setcc
<1> QED
  BY <1>1, <1>3, <1>5, SetsPri

LEMMA JumpSame ==
  ASSUME c \in State, NEW i \in Instructions, Jump(i)
  PROVE  c' \in State /\ View(c') = Machine!Meaning(i)
<1>1. i.op = "J" /\ c' = Goto(Cond(Codes[i.m], c.eax, c.ecx)) /\ i.m \in DOMAIN Codes
  BY OpcodesAssumption DEF Jump, Is, Emit, WellFormed
<1>2. Cond(Codes[i.m], c.eax, c.ecx) <=> Machine!Comparison(i.m, View(c).pri, View(c).alt)
  BY <1>1, Fields, Comparisons
<1>3. PICK o \in {"next", "jump", "BOUNDS"} : o = IF Cond(Codes[i.m], c.eax, c.ecx) THEN "jump" ELSE "next"
  OBVIOUS
<1>4. c' = [c EXCEPT !.out = o]
  BY <1>1, <1>3 DEF Goto
<1>5. Machine!Meaning(i) = [View(c) EXCEPT !.out = o]
  <2>1. Machine!Meaning(i) = Machine!Control(i)
    BY <1>1 DEF Machine!Meaning, Machine!Computes, Machine!Relations
  <2>2. Machine!Control(i) =
          [View(c) EXCEPT !.out = IF Machine!Comparison(i.m, View(c).pri, View(c).alt) THEN "jump" ELSE "next"]
    BY <1>1 DEF Machine!Control
  <2>3. o = IF Machine!Comparison(i.m, View(c).pri, View(c).alt) THEN "jump" ELSE "next"
    BY <1>2, <1>3
  <2> QED
    BY <2>1, <2>2, <2>3
<1> QED
  BY <1>4, <1>5, ViewOut

LEMMA JzerSame ==
  ASSUME c \in State, NEW i \in Instructions, Jzer(i)
  PROVE  c' \in State /\ View(c') = Machine!Meaning(i)
<1>1. i.op = "JZER" /\ c' = [c EXCEPT !.out = IF c.eax = 0 THEN "jump" ELSE "next"]
  BY DEF Jzer, Is, Emit, Goto
<1>2. PICK o \in {"next", "jump", "BOUNDS"} : o = IF c.eax = 0 THEN "jump" ELSE "next"
  OBVIOUS
<1>3. Machine!Meaning(i) = Machine!Control(i)
  BY <1>1 DEF Machine!Meaning, Machine!Computes, Machine!Relations
<1>4. Machine!Control(i) = [View(c) EXCEPT !.out = IF View(c).pri = 0 THEN "jump" ELSE "next"]
  BY <1>1 DEF Machine!Control
<1> QED
  BY <1>1, <1>2, <1>3, <1>4, Fields, ViewOut

LEMMA JnzSame ==
  ASSUME c \in State, NEW i \in Instructions, Jnz(i)
  PROVE  c' \in State /\ View(c') = Machine!Meaning(i)
<1>1. i.op = "JNZ" /\ c' = [c EXCEPT !.out = IF c.eax # 0 THEN "jump" ELSE "next"]
  BY DEF Jnz, Is, Emit, Goto
<1>2. PICK o \in {"next", "jump", "BOUNDS"} : o = IF c.eax # 0 THEN "jump" ELSE "next"
  OBVIOUS
<1>3. Machine!Meaning(i) = Machine!Control(i)
  BY <1>1 DEF Machine!Meaning, Machine!Computes, Machine!Relations
<1>4. Machine!Control(i) = [View(c) EXCEPT !.out = IF View(c).pri # 0 THEN "jump" ELSE "next"]
  BY <1>1 DEF Machine!Control
<1> QED
  BY <1>1, <1>2, <1>3, <1>4, Fields, ViewOut

LEMMA BoundsSame ==
  ASSUME c \in State, NEW i \in Instructions, Bounds(i)
  PROVE  c' \in State /\ View(c') = Machine!Meaning(i)
<1> DEFINE code == IF Cond("g", c.eax, i.n) \/ Cond("l", c.eax, 0) THEN "BOUNDS" ELSE "next"
           value == IF Signed(View(c).pri) > i.n \/ Signed(View(c).pri) < 0 THEN "BOUNDS" ELSE "next"
<1>1. i.op = "BOUNDS" /\ c' = [c EXCEPT !.out = code]
  BY DEF Bounds, Is, Emit
<1>2. Signed(i.n) = i.n /\ Signed(0) = 0
  <2>1. i.n < 2^(CellBits - 1)
    BY <1>1, OpcodesAssumption DEF WellFormed
  <2>2. 0 < 2^(CellBits - 1)
    BY CellBitsType
  <2> QED
    BY <2>1, <2>2 DEF Signed
<1>3. Cond("g", c.eax, i.n) <=> Signed(c.eax) > i.n
  BY <1>2 DEF Cond
<1>4. Cond("l", c.eax, 0) <=> Signed(c.eax) < 0
  BY <1>2 DEF Cond
<1>5. code = value
  BY <1>3, <1>4, Fields
<1>6. code \in {"next", "jump", "BOUNDS"}
  OBVIOUS
<1>7. Machine!Meaning(i) = Machine!Control(i)
  BY <1>1 DEF Machine!Meaning, Machine!Computes, Machine!Relations
<1>8. Machine!Control(i) = [View(c) EXCEPT !.out = value]
  BY <1>1, SameWords DEF Machine!Control
<1> HIDE DEF code, value
<1> QED
  BY <1>1, <1>5, <1>6, <1>7, <1>8, ViewOut

LEMMA AlignSame ==
  ASSUME c \in State, NEW i \in Instructions, Align(i)
  PROVE  c' \in State /\ View(c') = Machine!Meaning(i)
<1>1. /\ i.op = "ALIGN" /\ i.r \in {"pri", "alt"}
      /\ c' = IF i.n < 4 THEN Mov(Reg[i.r], Xor(c[Reg[i.r]], 4 - i.n)) ELSE c
  BY Form DEF Align, Is, Emit
<1>2. Machine!Meaning(i) = IF i.n < 4 THEN Machine!Set(i.r, Xor(View(c)[i.r], 4 - i.n)) ELSE View(c)
  BY <1>1, SameNumbers DEF Machine!Meaning
<1>3. PICK v \in Int : v = Xor(c[Reg[i.r]], 4 - i.n) /\ v = Xor(View(c)[i.r], 4 - i.n)
  BY <1>1, LogicType, RegisterValue
<1>4. CASE i.n < 4
  BY <1>1, <1>2, <1>3, <1>4, SetsRegister
<1>5. CASE ~(i.n < 4)
  BY <1>1, <1>2, <1>5
<1> QED
  BY <1>4, <1>5

LEMMA LogicSame ==
  ASSUME c \in State, NEW i \in Instructions, Logic(i)
  PROVE  c' \in State /\ View(c') = Machine!Meaning(i)
<1>1. /\ i.op \in {"AND", "OR", "XOR"}
      /\ c' = Mov("eax", CASE i.op = "AND" -> And(c.eax, c.ecx) [] i.op = "OR" -> Or(c.eax, c.ecx)
                          [] i.op = "XOR" -> Xor(c.eax, c.ecx))
  BY DEF Logic, Is, Emit
<1>2. CASE i.op = "AND"
  <2>1. c' = Mov("eax", And(c.eax, c.ecx))
    BY <1>1, <1>2
  <2>2. Machine!Meaning(i) = Machine!Set("pri", And(View(c).pri, View(c).alt))
    BY <1>2, SameNumbers DEF Machine!Meaning, Machine!Computes, Machine!Relations
  <2> QED
    BY <2>1, <2>2, LogicType, Fields, SetsPri
<1>3. CASE i.op = "OR"
  <2>1. c' = Mov("eax", Or(c.eax, c.ecx))
    BY <1>1, <1>3
  <2>2. Machine!Meaning(i) = Machine!Set("pri", Or(View(c).pri, View(c).alt))
    BY <1>3, SameNumbers DEF Machine!Meaning, Machine!Computes, Machine!Relations
  <2> QED
    BY <2>1, <2>2, LogicType, Fields, SetsPri
<1>4. CASE i.op = "XOR"
  <2>1. c' = Mov("eax", Xor(c.eax, c.ecx))
    BY <1>1, <1>4
  <2>2. Machine!Meaning(i) = Machine!Set("pri", Xor(View(c).pri, View(c).alt))
    BY <1>4, SameNumbers DEF Machine!Meaning, Machine!Computes, Machine!Relations
  <2> QED
    BY <2>1, <2>2, LogicType, Fields, SetsPri
<1> QED
  BY <1>1, <1>2, <1>3, <1>4

\* Shifts by less than a cell's bits are what the processor shifts by.
LEMMA ShiftCount ==
  ASSUME NEW n \in Int, 0 <= n, n < CellBits
  PROVE  Shift(n) = n /\ 2^n \in Nat \ {0}
<1>1. PICK m \in Nat : m = CellBits /\ m > 0
  BY CellBitsType
<1>2. n = m * 0 + n
  BY <1>1
<1>3. n % m = n
  BY <1>1, <1>2, DivisionUnique
<1> QED
  BY <1>1, <1>3, PowerType DEF Shift

LEMMA ShiftsSame ==
  ASSUME c \in State, NEW i \in Instructions, Allowed(i), Shifts(i)
  PROVE  c' \in State /\ View(c') = Machine!Meaning(i)
<1>1. /\ i.op \in {"SHL", "SHR", "SSHR"}
      /\ c' = Mov("eax", CASE i.op = "SHL" -> Shl(c.eax, c.ecx) [] i.op = "SHR" -> Shr(c.eax, c.ecx)
                          [] i.op = "SSHR" -> Sar(c.eax, c.ecx))
  BY DEF Shifts, Is, Emit
<1>2. c.ecx < CellBits
  BY <1>1 DEF Allowed
<1>3. PICK f \in Nat \ {0} : f = 2^c.ecx /\ 2^Shift(c.ecx) = f
  BY <1>2, Fields, CellType, ShiftCount
<1>4. CASE i.op = "SHL"
  <2>1. c' = Mov("eax", c.eax * f)
    BY <1>1, <1>3, <1>4 DEF Shl
  <2>2. Machine!Meaning(i) = Machine!Set("pri", View(c).pri * 2^View(c).alt)
    BY <1>4 DEF Machine!Meaning, Machine!Computes, Machine!Relations
  <2>3. PICK v \in Int : v = c.eax * f
    BY Fields
  <2> QED
    BY <1>3, <2>1, <2>2, <2>3, Fields, SetsPri
<1>5. CASE i.op = "SHR"
  <2>1. c' = Mov("eax", c.eax \div f)
    BY <1>1, <1>3, <1>5 DEF Shr
  <2>2. Machine!Meaning(i) = Machine!Set("pri", View(c).pri \div 2^View(c).alt)
    BY <1>5 DEF Machine!Meaning, Machine!Computes, Machine!Relations
  <2>3. PICK v \in Int : v = c.eax \div f
    BY Fields, Division
  <2> QED
    BY <1>3, <2>1, <2>2, <2>3, Fields, SetsPri
<1>6. CASE i.op = "SSHR"
  <2>1. c' = Mov("eax", Signed(c.eax) \div f)
    BY <1>1, <1>3, <1>6 DEF Sar
  <2>2. Machine!Meaning(i) = Machine!Set("pri", Signed(View(c).pri) \div 2^View(c).alt)
    BY <1>6, SameWords DEF Machine!Meaning, Machine!Computes, Machine!Relations
  <2>3. PICK v \in Int : v = Signed(c.eax) \div f
    BY Fields, SignedType, Division
  <2> QED
    BY <1>3, <2>1, <2>2, <2>3, Fields, SetsPri
<1> QED
  BY <1>1, <1>4, <1>5, <1>6

LEMMA ShiftsCSame ==
  ASSUME c \in State, NEW i \in Instructions, ShiftsC(i)
  PROVE  c' \in State /\ View(c') = Machine!Meaning(i)
<1>1. /\ i.op \in {"SHL.C", "SHR.C"}
      /\ c' = Mov(Reg[i.r], IF i.op = "SHL.C" THEN Shl(c[Reg[i.r]], i.n) ELSE Shr(c[Reg[i.r]], i.n))
  BY DEF ShiftsC, Is, Emit
<1>2. i.r \in {"pri", "alt"} /\ i.n \in Int /\ 0 <= i.n /\ i.n < CellBits
  BY <1>1, Form, CellType, OpcodesAssumption DEF WellFormed
<1>3. PICK f \in Nat \ {0} : f = 2^i.n /\ 2^Shift(i.n) = f
  BY <1>2, ShiftCount
<1>4. PICK u \in Int : u = c[Reg[i.r]] /\ u = View(c)[i.r]
  BY <1>2, RegisterValue
<1>5. CASE i.op = "SHL.C"
  <2>1. c' = Mov(Reg[i.r], u * f)
    BY <1>1, <1>3, <1>4, <1>5 DEF Shl
  <2>2. Machine!Meaning(i) = Machine!Set(i.r, View(c)[i.r] * 2^i.n)
    BY <1>5 DEF Machine!Meaning, Machine!Computes, Machine!Relations
  <2>3. PICK v \in Int : v = u * f
    OBVIOUS
  <2> QED
    BY <1>2, <1>3, <1>4, <2>1, <2>2, <2>3, SetsRegister
<1>6. CASE i.op = "SHR.C"
  <2>1. c' = Mov(Reg[i.r], u \div f)
    BY <1>1, <1>3, <1>4, <1>6 DEF Shr
  <2>2. Machine!Meaning(i) = Machine!Set(i.r, View(c)[i.r] \div 2^i.n)
    BY <1>6 DEF Machine!Meaning, Machine!Computes, Machine!Relations
  <2>3. PICK v \in Int : v = u \div f
    BY Division
  <2> QED
    BY <1>2, <1>3, <1>4, <2>1, <2>2, <2>3, SetsRegister
<1> QED
  BY <1>1, <1>5, <1>6

LEMMA CellDivision ==
  ASSUME NEW a \in Cell, NEW b \in Cell, b # 0
  PROVE  a \div b \in Cell /\ a % b \in Cell
<1>1. a \in Nat /\ a < 2^CellBits /\ b \in Nat \ {0} /\ b < 2^CellBits
  BY CellType
<1>2. PICK q \in Int, r \in 0..(b - 1) : q = a \div b /\ r = a % b /\ a = b * q + r
  <2>1. a \div b \in Int /\ a % b \in 0..(b - 1) /\ a = b * (a \div b) + (a % b)
    <3>1. PICK x \in Int, d \in Nat \ {0} : x = a /\ d = b
      BY <1>1
    <3>2. x \div d \in Int /\ x % d \in 0..(d - 1) /\ x = d * (x \div d) + (x % d)
      BY Division
    <3> QED
      BY <3>1, <3>2
  <2> QED
    BY <2>1
<1>3. q >= 0
  <2>1. SUFFICES ASSUME q <= -1 PROVE FALSE
    BY <1>2
  <2>2. b * q <= b * (-1)
    BY <1>1, <2>1
  <2> QED
    BY <1>1, <1>2, <2>2
<1>4. q <= b * q
  <2>1. (b - 1) * q >= 0 /\ (b - 1) * q = b * q - q /\ b * q \in Int
    BY <1>1, <1>3
  <2> QED
    BY <2>1
<1>5. q \in 0..a /\ r \in 0..b
  BY <1>1, <1>2, <1>3, <1>4
<1> QED
  BY <1>1, <1>2, <1>5, CellBitsType DEF Cell

LEMMA UdivSame ==
  ASSUME c \in State, NEW i \in Instructions, Allowed(i), Udiv(i)
  PROVE  c' \in State /\ View(c') = Machine!Meaning(i)
<1>1. i.op = "UDIV" /\ c' = [c EXCEPT !.eax = c.eax \div c.ecx, !.ecx = c.eax % c.ecx]
  BY DEF Udiv, Is, Emit
<1>2. c.ecx # 0
  BY <1>1 DEF Allowed
<1>3. PICK v \in Cell, w \in Cell : v = c.eax \div c.ecx /\ w = c.eax % c.ecx
  BY <1>2, Fields, CellDivision
<1>4. Machine!Meaning(i) = Machine!UnsignedDivision(View(c).pri, View(c).alt)
  BY <1>1 DEF Machine!Meaning, Machine!Computes, Machine!Relations
<1>5. Machine!Meaning(i) = [View(c) EXCEPT !.pri = v, !.alt = w]
  BY <1>3, <1>4, Fields DEF Machine!UnsignedDivision
<1> QED
  BY <1>1, <1>3, <1>5, SetsBoth

LEMMA UdivAltSame ==
  ASSUME c \in State, NEW i \in Instructions, Allowed(i), UdivAlt(i)
  PROVE  c' \in State /\ View(c') = Machine!Meaning(i)
<1>1. i.op = "UDIV.ALT" /\ c' = [c EXCEPT !.eax = c.ecx \div c.eax, !.ecx = c.ecx % c.eax]
  BY DEF UdivAlt, Is, Emit
<1>2. c.eax # 0
  BY <1>1 DEF Allowed
<1>3. PICK v \in Cell, w \in Cell : v = c.ecx \div c.eax /\ w = c.ecx % c.eax
  BY <1>2, Fields, CellDivision
<1>4. Machine!Meaning(i) = Machine!UnsignedDivision(View(c).alt, View(c).pri)
  BY <1>1 DEF Machine!Meaning, Machine!Computes, Machine!Relations
<1>5. Machine!Meaning(i) = [View(c) EXCEPT !.pri = v, !.alt = w]
  BY <1>3, <1>4, Fields DEF Machine!UnsignedDivision
<1> QED
  BY <1>1, <1>3, <1>5, SetsBoth

\* Parameters of native functions are on the stack in both.
LEMMA Parameters ==
  ASSUME c \in State, NEW k \in Int
  PROVE  Arg(k) = Machine!Param(k) /\ Arg(k) \in Cell /\ Arg(k) \in Int
<1>1. PICK d \in Int : d = 4 * k
  OBVIOUS
<1>2. PICK x \in Int, a \in Int : x = c.esp + d /\ a = Wrap(View(c).stk + d)
  BY StackTop, WrapType, CellType
<1>3. Wrap(x) = Wrap(Ebx + a)
  BY <1>2, StackAddress
<1>4. Dword(x) = Machine!At(a) /\ Dword(x) \in Cell
  BY <1>3, DwordView
<1>5. Arg(k) = Dword(x) /\ Machine!Param(k) = Machine!At(a)
  BY <1>1, <1>2, SameWords DEF Arg, Machine!Param
<1> QED
  BY <1>4, <1>5, CellType

LEMMA ClampSame ==
  ASSUME c \in State, NEW i \in Instructions, Clamp(i)
  PROVE  c' \in State /\ View(c') = Machine!Meaning(i)
<1>1. PICK v \in Cell, low \in Cell, high \in Cell :
        /\ v = Arg(1) /\ v = Machine!Param(1) /\ low = Arg(2) /\ low = Machine!Param(2)
        /\ high = Arg(3) /\ high = Machine!Param(3)
  BY Parameters
<1>2. /\ i.op = "clamp"
      /\ c' = Mov("eax", IF Cond("le", v, low) THEN low ELSE IF Cond("ge", v, high) THEN high ELSE v)
  BY <1>1 DEF Clamp, Is, Emit
<1>3. Machine!Meaning(i) =
        Machine!Set("pri", IF Signed(v) <= Signed(low) THEN low ELSE IF Signed(v) >= Signed(high) THEN high ELSE v)
  BY <1>1, <1>2, SameWords DEF Machine!Meaning, Machine!Computes, Machine!Relations
<1>4. PICK w \in Int :
        /\ w = IF Cond("le", v, low) THEN low ELSE IF Cond("ge", v, high) THEN high ELSE v
        /\ w = IF Signed(v) <= Signed(low) THEN low ELSE IF Signed(v) >= Signed(high) THEN high ELSE v
  BY CellType DEF Cond
<1> QED
  BY <1>2, <1>3, <1>4, SetsPri

LEMMA MinSame ==
  ASSUME c \in State, NEW i \in Instructions, Min_(i)
  PROVE  c' \in State /\ View(c') = Machine!Meaning(i)
<1>1. PICK v \in Cell, w \in Cell :
        v = Arg(1) /\ v = Machine!Param(1) /\ w = Arg(2) /\ w = Machine!Param(2)
  BY Parameters
<1>2. i.op = "min" /\ c' = Mov("eax", IF Cond("ge", w, v) THEN v ELSE w)
  BY <1>1 DEF Min_, Is, Emit
<1>3. Machine!Meaning(i) = Machine!Set("pri", IF Machine!Comparison("SLEQ", v, w) THEN v ELSE w)
  BY <1>1, <1>2 DEF Machine!Meaning, Machine!Computes, Machine!Relations
<1>4. Machine!Comparison("SLEQ", v, w) <=> Cond("ge", w, v)
  BY SignedType, SameWords DEF Machine!Comparison, Cond
<1>5. PICK u \in Int : /\ u = IF Cond("ge", w, v) THEN v ELSE w
                       /\ u = IF Machine!Comparison("SLEQ", v, w) THEN v ELSE w
  BY <1>4, CellType
<1> QED
  BY <1>2, <1>3, <1>5, SetsPri

LEMMA MaxSame ==
  ASSUME c \in State, NEW i \in Instructions, Max_(i)
  PROVE  c' \in State /\ View(c') = Machine!Meaning(i)
<1>1. PICK v \in Cell, w \in Cell :
        v = Arg(1) /\ v = Machine!Param(1) /\ w = Arg(2) /\ w = Machine!Param(2)
  BY Parameters
<1>2. i.op = "max" /\ c' = Mov("eax", IF Cond("le", w, v) THEN v ELSE w)
  BY <1>1 DEF Max_, Is, Emit
<1>3. Machine!Meaning(i) = Machine!Set("pri", IF Machine!Comparison("SGEQ", v, w) THEN v ELSE w)
  BY <1>1, <1>2 DEF Machine!Meaning, Machine!Computes, Machine!Relations
<1>4. Machine!Comparison("SGEQ", v, w) <=> Cond("le", w, v)
  BY SignedType, SameWords DEF Machine!Comparison, Cond
<1>5. PICK u \in Int : /\ u = IF Cond("le", w, v) THEN v ELSE w
                       /\ u = IF Machine!Comparison("SGEQ", v, w) THEN v ELSE w
  BY <1>4, CellType
<1> QED
  BY <1>2, <1>3, <1>5, SetsPri

LEMMA NumargsSame ==
  ASSUME c \in State, NEW i \in Instructions, Numargs(i)
  PROVE  c' \in State /\ View(c') = Machine!Meaning(i)
<1>1. i.op = "numargs" /\ c' = Mov("eax", Shr(Dword(c.ebp + 8), 2))
  BY DEF Numargs, Is, Emit
<1>2. PICK x \in Int, a \in Int : x = c.ebp + 8 /\ a = Wrap(View(c).frm + 8) /\ Wrap(x) = Wrap(Ebx + a)
  BY FrameAddress, WrapType, CellType
<1>3. PICK v \in Int : v = Dword(x) /\ v = Machine!At(a)
  BY <1>2, DwordView, CellType
<1>4. 2^Shift(2) = 4
  <2>1. 2 \in Int /\ 0 <= 2 /\ 2 < CellBits
    BY CellBitsType
  <2> QED
    BY <2>1, ShiftCount, SmallPowers
<1>5. c' = Mov("eax", v \div 4)
  BY <1>1, <1>2, <1>3, <1>4 DEF Shr
<1>6. Machine!Meaning(i) = Machine!Set("pri", v \div 4)
  BY <1>1, <1>2, <1>3, SameWords DEF Machine!Meaning, Machine!Computes, Machine!Relations
<1>7. v \div 4 \in Int
  BY Division
<1> QED
  BY <1>5, <1>6, <1>7, SetsPri

\* The abstract machine has the same floating-point numbers.
LEMMA SameFloats ==
  /\ \A x : Machine!Value(x) = Value(x)
  /\ \A x, y : Machine!Ordering(x, y) = Ordering(x, y)
<1>1. \A x : Machine!Magnitude(x) = Magnitude(x)
  BY DEF Machine!Magnitude, Magnitude
<1>2. Machine!SignBit = SignBit /\ Machine!Infinity = Infinity
  BY SameWords DEF Machine!SignBit, SignBit, Machine!Infinity, Infinity
<1>3. \A x : Machine!Value(x) = Value(x)
  BY <1>1, <1>2 DEF Machine!Value, Value, Machine!NaN, NaN, Machine!Inf, Inf, Machine!Num, Num
<1>4. \A x, y : Machine!Ordering(x, y) = Ordering(x, y)
  BY <1>1, <1>2 DEF Machine!Ordering, Ordering, Machine!IsInf, IsInf, Machine!IsNaN, IsNaN, Machine!Units, Units
<1> QED
  BY <1>3, <1>4

LEMMA FloatcmpSame ==
  ASSUME c \in State, NEW i \in Instructions, Floatcmp(i)
  PROVE  c' \in State /\ View(c') = Machine!Meaning(i)
<1>1. PICK x, y : x = FloatArg(1) /\ x = Machine!FloatParam(1) /\ y = FloatArg(2) /\ y = Machine!FloatParam(2)
  BY Parameters, SameFloats DEF FloatArg, Machine!FloatParam
<1>2. PICK o \in {"less", "equal", "greater", "unordered"} : o = Ordering(x, y)
  BY DEF Ordering
<1> DEFINE ah == Fcom(x, y)
           v == IF ~(ah.c2 = ah.c3) THEN 0 ELSE IF ah.c0 THEN -1 ELSE 1
<1>3. i.op = "floatcmp" /\ c' = Mov("eax", v)
  BY <1>1 DEF Floatcmp, Is, Emit
<1>4. Machine!Meaning(i) = Machine!Set("pri", Machine!FloatComparison(x, y))
  BY <1>1, <1>3 DEF Machine!Meaning, Machine!Computes, Machine!Relations
<1>5. ah = [c0 |-> o \in {"less", "unordered"}, c2 |-> o = "unordered", c3 |-> o \in {"equal", "unordered"}]
  BY <1>2 DEF Fcom
<1>6. v = Machine!FloatComparison(x, y) /\ v \in Int
  <2>1. Machine!FloatComparison(x, y) =
          CASE o \in {"less", "unordered"} -> -1 [] o = "equal" -> 0 [] o = "greater" -> 1
    BY <1>2, SameFloats DEF Machine!FloatComparison
  <2>2. CASE o = "less"
    <3>1. (o \in {"less", "unordered"}) = TRUE /\ (o = "unordered") = FALSE
          /\ (o \in {"equal", "unordered"}) = FALSE
      BY <2>2
    <3>2. ah = [c0 |-> TRUE, c2 |-> FALSE, c3 |-> FALSE]
      BY <1>5, <3>1
    <3>3. v = -1
      <4>1. ah.c0 = TRUE /\ ah.c2 = FALSE /\ ah.c3 = FALSE
        BY <3>2
      <4> HIDE DEF ah
      <4> QED
        BY <4>1
    <3>4. Machine!FloatComparison(x, y) = -1
      BY <2>1, <2>2
    <3> QED
      BY <3>3, <3>4
  <2>3. CASE o = "equal"
    <3>1. (o \in {"less", "unordered"}) = FALSE /\ (o = "unordered") = FALSE
          /\ (o \in {"equal", "unordered"}) = TRUE
      BY <2>3
    <3>2. ah = [c0 |-> FALSE, c2 |-> FALSE, c3 |-> TRUE]
      BY <1>5, <3>1
    <3>3. v = 0
      <4>1. ah.c0 = FALSE /\ ah.c2 = FALSE /\ ah.c3 = TRUE
        BY <3>2
      <4> HIDE DEF ah
      <4> QED
        BY <4>1
    <3>4. Machine!FloatComparison(x, y) = 0
      BY <2>1, <2>3
    <3> QED
      BY <3>3, <3>4
  <2>4. CASE o = "greater"
    <3>1. (o \in {"less", "unordered"}) = FALSE /\ (o = "unordered") = FALSE
          /\ (o \in {"equal", "unordered"}) = FALSE
      BY <2>4
    <3>2. ah = [c0 |-> FALSE, c2 |-> FALSE, c3 |-> FALSE]
      BY <1>5, <3>1
    <3>3. v = 1
      <4>1. ah.c0 = FALSE /\ ah.c2 = FALSE /\ ah.c3 = FALSE
        BY <3>2
      <4> HIDE DEF ah
      <4> QED
        BY <4>1
    <3>4. Machine!FloatComparison(x, y) = 1
      BY <2>1, <2>4
    <3> QED
      BY <3>3, <3>4
  <2>5. CASE o = "unordered"
    <3>1. (o \in {"less", "unordered"}) = TRUE /\ (o = "unordered") = TRUE
          /\ (o \in {"equal", "unordered"}) = TRUE
      BY <2>5
    <3>2. ah = [c0 |-> TRUE, c2 |-> TRUE, c3 |-> TRUE]
      BY <1>5, <3>1
    <3>3. v = -1
      <4>1. ah.c0 = TRUE /\ ah.c2 = TRUE /\ ah.c3 = TRUE
        BY <3>2
      <4> HIDE DEF ah
      <4> QED
        BY <4>1
    <3>4. Machine!FloatComparison(x, y) = -1
      BY <2>1, <2>5
    <3> QED
      BY <3>3, <3>4
  <2> QED
    BY <1>2, <2>2, <2>3, <2>4, <2>5
<1> HIDE DEF v
<1> QED
  BY <1>3, <1>4, <1>6, SetsPri

\* Four bytes, as a word, and the bytes of that word.
Word(B, p, q, r, t) == ((p + q * B) + r * (B * B)) + t * (B * (B * B))

\* The halves of that word.
Halves(B, p, q, r, t) ==
  /\ Word(B, p, q, r, t) \div (B * B) = r + t * B
  /\ Word(B, p, q, r, t) % (B * B) = p + q * B

LEMMA WordBytes ==
  ASSUME NEW B \in Nat, B = 2^ByteBits, NEW p \in 0..(B - 1), NEW q \in 0..(B - 1), NEW r \in 0..(B - 1),
         NEW t \in 0..(B - 1)
  PROVE  /\ Word(B, p, q, r, t) \in Cell
         /\ ByteOf(Word(B, p, q, r, t), 0) = p /\ ByteOf(Word(B, p, q, r, t), 1) = q
         /\ ByteOf(Word(B, p, q, r, t), 2) = r /\ ByteOf(Word(B, p, q, r, t), 3) = t
         /\ Halves(B, p, q, r, t)
<1>1. /\ B > 0 /\ p \in Int /\ q \in Int /\ r \in Int /\ t \in Int
      /\ 0 <= p /\ p < B /\ 0 <= q /\ q < B /\ 0 <= r /\ r < B /\ 0 <= t /\ t < B
  BY CellBitsType
<1>2. PICK B2 \in Nat : B2 = B * B
  OBVIOUS
<1>3. PICK B3 \in Nat : B3 = B * B2
  OBVIOUS
<1>4. B2 > 0 /\ B3 > 0
  <2>1. B2 > 0
    BY <1>1, <1>2
  <2> QED
    BY <1>1, <1>3, <2>1
<1>5. PICK u \in Int : u = r + t * B
  OBVIOUS
<1>6. PICK v \in Int : v = q + u * B
  OBVIOUS
<1>7. PICK w \in Int : w = Word(B, p, q, r, t)
  BY DEF Word
<1>8. w = B * v + p
  <2>1. (q + (r + t * B) * B) * B = q * B + r * (B * B) + t * (B * (B * B))
    OBVIOUS
  <2> QED
    BY <1>5, <1>6, <1>7, <2>1 DEF Word
<1>9. w = B2 * u + (p + q * B)
  <2>1. (r + t * B) * (B * B) = r * (B * B) + t * (B * (B * B))
    OBVIOUS
  <2> QED
    BY <1>2, <1>5, <1>7, <2>1 DEF Word
<1>10. w = B3 * t + ((p + q * B) + r * B2)
  BY <1>2, <1>3, <1>7 DEF Word
<1>11. p + q * B \in Int /\ 0 <= p + q * B /\ p + q * B < B2
  <2>1. q * B <= (B - 1) * B /\ (B - 1) * B = B * B - B /\ q * B >= 0
    BY <1>1
  <2> QED
    BY <1>2, <2>1
<1>12. (p + q * B) + r * B2 \in Int /\ 0 <= (p + q * B) + r * B2 /\ (p + q * B) + r * B2 < B3
  <2>1. r * B2 <= (B - 1) * B2 /\ (B - 1) * B2 = B * B2 - B2 /\ r * B2 >= 0
    BY <1>4
  <2> QED
    BY <1>3, <1>11, <2>1
<1>13. w \div 1 = w /\ w % B = p
  <2>1. w = 1 * w + 0
    OBVIOUS
  <2>2. w \div 1 = w
    BY <2>1, DivisionUnique
  <2>3. w % B = p
    BY <1>1, <1>8, DivisionUnique
  <2> QED
    BY <2>2, <2>3
<1>14. w \div B = v /\ v % B = q
  <2>1. w \div B = v
    BY <1>1, <1>8, DivisionUnique
  <2>2. v = B * u + q
    BY <1>6
  <2>3. v % B = q
    BY <1>1, <2>2, DivisionUnique
  <2> QED
    BY <2>1, <2>3
<1>15. w \div B2 = u /\ w % B2 = p + q * B /\ u % B = r
  <2>1. PICK y \in Int : y = p + q * B
    BY <1>11
  <2>2. w \div B2 = u /\ w % B2 = y
    BY <1>4, <1>9, <1>11, <2>1, DivisionUnique
  <2>3. u = B * t + r
    BY <1>5
  <2>4. u % B = r
    BY <1>1, <2>3, DivisionUnique
  <2> QED
    BY <2>1, <2>2, <2>4
<1>16. w \div B3 = t /\ t % B = t
  <2>1. PICK y \in Int : y = (p + q * B) + r * B2
    BY <1>12
  <2>2. w \div B3 = t
    <3>1. w = B3 * t + y /\ 0 <= y /\ y < B3
      BY <1>10, <1>12, <2>1
    <3> QED
      BY <1>1, <1>4, <3>1, DivisionUnique
  <2>3. t = B * 0 + t
    BY <1>1
  <2>4. t % B = t
    BY <1>1, <2>3, DivisionUnique
  <2> QED
    BY <2>2, <2>4
<1>17. 2^(0 * ByteBits) = 1 /\ 2^(1 * ByteBits) = B /\ 2^(2 * ByteBits) = B2 /\ 2^(3 * ByteBits) = B3
  BY <1>2, <1>3, BytePowers
<1>18. ByteOf(w, 0) = p /\ ByteOf(w, 1) = q /\ ByteOf(w, 2) = r /\ ByteOf(w, 3) = t
  BY <1>13, <1>14, <1>15, <1>16, <1>17 DEF ByteOf, Bits
<1>19. w \in Cell
  <2>1. w \in Nat
    BY <1>1, <1>7, BytesBound DEF Word
  <2>2. w < B * (B * (B * B))
    BY <1>1, <1>7, BytesBound DEF Word
  <2>3. 2^CellBits = B * (B * (B * B))
    BY BytePowers
  <2> QED
    BY <2>1, <2>2, <2>3, CellBitsType DEF Cell
<1> QED
  BY <1>2, <1>5, <1>7, <1>15, <1>18, <1>19 DEF Halves

LEMMA WordParts ==
  ASSUME NEW B \in Nat, B = 2^ByteBits, NEW w \in Cell
  PROVE  \E p \in 0..(B - 1), q \in 0..(B - 1), r \in 0..(B - 1), t \in 0..(B - 1) : w = Word(B, p, q, r, t)
<1>1. B \in Nat \ {0} /\ w \in Nat /\ w < B * (B * (B * B))
  BY CellBitsType, CellType, BytePowers
<1>a. B \in Nat \ {0} /\ w \in Int
  BY <1>1
<1>2. PICK v \in Int, p \in 0..(B - 1) : w = B * v + p
  BY <1>a, DivisionParts
<1>3. PICK u \in Int, q \in 0..(B - 1) : v = B * u + q
  BY <1>a, DivisionParts
<1>4. PICK t \in Int, r \in 0..(B - 1) : u = B * t + r
  BY <1>a, DivisionParts
<1>5. w = Word(B, p, q, r, t)
  <2>1. v = B * (B * t + r) + q
    BY <1>3, <1>4
  <2>2. w = B * (B * (B * t + r) + q) + p
    BY <1>2, <2>1
  <2>3. B * (B * (B * t + r) + q) + p = ((p + q * B) + r * (B * B)) + t * (B * (B * B))
    OBVIOUS
  <2> QED
    BY <2>2, <2>3 DEF Word
<1>6. t \in 0..(B - 1)
  <2>1. t >= 0
    <3>1. SUFFICES ASSUME t <= -1 PROVE FALSE
      OBVIOUS
    <3>2. u <= -1
      <4>1. B * t <= B * (-1)
        BY <1>1, <3>1
      <4> QED
        BY <1>1, <1>4, <4>1
    <3>3. v <= -1
      <4>1. B * u <= B * (-1)
        BY <1>1, <3>2
      <4> QED
        BY <1>1, <1>3, <4>1
    <3>4. B * v <= B * (-1)
      BY <1>1, <3>3
    <3> QED
      BY <1>1, <1>2, <3>4
  <2>2. t < B
    <3>1. SUFFICES ASSUME t >= B PROVE FALSE
      OBVIOUS
    <3>2. u >= B * B
      <4>1. B * t >= B * B
        BY <1>1, <3>1
      <4> QED
        BY <1>4, <4>1
    <3>3. v >= B * (B * B)
      <4>1. PICK b2 \in Int : b2 = B * B
        OBVIOUS
      <4>2. B * u >= B * b2
        BY <1>1, <3>2, <4>1
      <4> QED
        BY <1>3, <4>1, <4>2
    <3>4. w >= B * (B * (B * B))
      <4>1. PICK b3 \in Int : b3 = B * (B * B)
        OBVIOUS
      <4>2. B * v >= B * b3
        BY <1>1, <3>3, <4>1
      <4> QED
        BY <1>2, <4>1, <4>2
    <3> QED
      BY <1>1, <3>4
  <2> QED
    BY <2>1, <2>2
<1> QED
  BY <1>5, <1>6

LEMMA Exchanged ==
  ASSUME NEW B \in Nat, B = 2^ByteBits, NEW p \in 0..(B - 1), NEW q \in 0..(B - 1), NEW r \in 0..(B - 1),
         NEW t \in 0..(B - 1)
  PROVE  ExchangeLow(Word(B, p, q, r, t)) = Word(B, q, p, r, t)
<1>1. PICK w \in Int : /\ w = Word(B, p, q, r, t)
                       /\ ByteOf(w, 0) = p /\ ByteOf(w, 1) = q
  <2>1. /\ Word(B, p, q, r, t) \in Cell
        /\ ByteOf(Word(B, p, q, r, t), 0) = p /\ ByteOf(Word(B, p, q, r, t), 1) = q
    BY WordBytes
  <2> QED
    BY <2>1, CellType
<1>2. ExchangeLow(w) = w - (p + q * B) + q + p * B
  BY <1>1 DEF ExchangeLow
<1>3. PICK z \in Int : z = r * (B * B) + t * (B * (B * B))
  OBVIOUS
<1>4. w = (p + q * B) + z /\ Word(B, q, p, r, t) = (q + p * B) + z
  BY <1>1, <1>3 DEF Word
<1> QED
  BY <1>1, <1>2, <1>4

LEMMA SwapcharsSame ==
  ASSUME c \in State, NEW i \in Instructions, Swapchars(i)
  PROVE  c' \in State /\ View(c') = Machine!Meaning(i)
<1>1. PICK B \in Nat : B = 2^ByteBits
  BY CellBitsType
<1>2. PICK w \in Cell : w = Arg(1) /\ w = Machine!Param(1)
  BY Parameters
<1>3. PICK p \in 0..(B - 1), q \in 0..(B - 1), r \in 0..(B - 1), t \in 0..(B - 1) : w = Word(B, p, q, r, t)
  BY <1>1, WordParts
<1>4. PICK x \in Int : x = ExchangeLow(w) /\ x = Word(B, q, p, r, t)
  <2>1. Word(B, q, p, r, t) \in Cell
    BY <1>1, WordBytes
  <2>2. ExchangeLow(Word(B, p, q, r, t)) = Word(B, q, p, r, t)
    BY <1>1, Exchanged
  <2> QED
    BY <1>3, <2>1, <2>2, CellType
<1>5. 2^(2 * ByteBits) = B * B
  BY <1>1, BytePowers
<1>6. x \div (B * B) = r + t * B /\ x % (B * B) = q + p * B
  <2>1. Halves(B, q, p, r, t)
    BY <1>1, WordBytes
  <2> QED
    BY <1>4, <2>1 DEF Halves
<1>7. (x \div (B * B)) + (x % (B * B)) * (B * B) = Word(B, r, t, q, p)
  <2>1. (r + t * B) + (q + p * B) * (B * B) = ((r + t * B) + q * (B * B)) + p * (B * (B * B))
    OBVIOUS
  <2> QED
    BY <1>6, <2>1 DEF Word
<1>8. i.op = "swapchars" /\ c' = Mov("eax", Word(B, t, r, q, p))
  <2>1. i.op = "swapchars" /\ c' = Mov("eax", ExchangeLow(Word(B, r, t, q, p)))
    BY <1>2, <1>4, <1>5, <1>7 DEF Swapchars, Is, Emit
  <2>2. ExchangeLow(Word(B, r, t, q, p)) = Word(B, t, r, q, p)
    BY <1>1, Exchanged
  <2> QED
    BY <2>1, <2>2
<1> DEFINE swapped == [k \in Cell |-> ByteOf(w, 3 - k)]
<1>9. Peek(swapped, 0, 4) = Word(B, t, r, q, p)
  <2>1. ByteOf(w, 0) = p /\ ByteOf(w, 1) = q /\ ByteOf(w, 2) = r /\ ByteOf(w, 3) = t
    BY <1>1, <1>3, WordBytes
  <2>2. 0 \in Cell /\ 1 \in Cell /\ 2 \in Cell /\ 3 \in Cell
    BY CellBitsType, SmallPowers DEF Cell
  <2>3. /\ Wrap(0 + 0) = 0 /\ Wrap(0 + 1) = 1 /\ Wrap(0 + 2) = 2 /\ Wrap(0 + 3) = 3
    BY <2>2, WrapCell
  <2>4. swapped[0] = t /\ swapped[1] = r /\ swapped[2] = q /\ swapped[3] = p
    BY <2>1, <2>2
  <2> HIDE DEF swapped
  <2>5. Peek(swapped, 0, 4) =
          ((swapped[0] * 2^(0 * ByteBits) + swapped[1] * 2^(1 * ByteBits)) + swapped[2] * 2^(2 * ByteBits))
             + swapped[3] * 2^(3 * ByteBits)
    BY <2>3 DEF Peek
  <2>6. 2^(0 * ByteBits) = 1 /\ 2^(1 * ByteBits) = B /\ 2^(2 * ByteBits) = B * B /\ 2^(3 * ByteBits) = B * (B * B)
    BY <1>1, BytePowers
  <2>7. Peek(swapped, 0, 4) = ((t * 1 + r * B) + q * (B * B)) + p * (B * (B * B))
    BY <2>4, <2>5, <2>6
  <2> QED
    BY <2>7 DEF Word
<1>10. Machine!Meaning(i) = Machine!Set("pri", Peek(swapped, 0, 4))
  <2>1. Machine!Meaning(i) =
          Machine!Set("pri", Machine!Peek([k \in Machine!Cell |-> Machine!ByteOf(Machine!Param(1), 3 - k)], 0, 4))
    BY <1>8 DEF Machine!Meaning, Machine!Computes, Machine!Relations
  <2>2. [k \in Machine!Cell |-> Machine!ByteOf(Machine!Param(1), 3 - k)] = swapped
    BY <1>2, SameWords
  <2> HIDE DEF swapped
  <2> QED
    BY <2>1, <2>2, SameMemory
<1>11. Word(B, t, r, q, p) \in Int
  BY <1>1, WordBytes, CellType
<1> QED
  BY <1>8, <1>9, <1>10, <1>11, SetsPri
-----------------------------------------------------------------------------
(* Signed division. *)

LEMMA AbsType ==
  ASSUME NEW a \in Int
  PROVE  Abs(a) \in Nat /\ (a >= 0 => Abs(a) = a) /\ (a < 0 => Abs(a) = -a) /\ (a # 0 => Abs(a) > 0)
BY DEF Abs

\* A quotient rounded towards zero leaves a remainder of the dividend's sign.
LEMMA TruncParts ==
  ASSUME NEW a \in Int, NEW b \in Int, b # 0
  PROVE  \E q \in Int, r \in Int :
           /\ q = Trunc(a, b) /\ a = b * q + r
           /\ -Abs(b) < r /\ r < Abs(b) /\ -Abs(a) <= r /\ r <= Abs(a)
           /\ (a >= 0 => r >= 0) /\ (a <= 0 => r <= 0)
<1>1. PICK x \in Nat, d \in Nat \ {0} : x = Abs(a) /\ d = Abs(b)
  BY AbsType
<1>2. PICK n \in Int, m \in 0..(d - 1) : n = x \div d /\ x = d * n + m
  <2>1. x \in Int /\ d \in Nat \ {0}
    BY <1>1
  <2> QED
    BY <2>1, Division
<1>3. m \in Int /\ 0 <= m /\ m < d /\ d \in Int /\ x \in Int
  BY <1>1, <1>2
<1>4. n >= 0
  <2> SUFFICES ASSUME n <= -1 PROVE FALSE
    BY <1>2
  <2>1. d * n <= d * (-1)
    BY <1>3
  <2> QED
    BY <1>1, <1>2, <1>3, <2>1
<1>5. m <= x
  <2>1. d * n >= 0
    BY <1>3, <1>4
  <2> QED
    BY <1>2, <1>3, <2>1
<1>6. Trunc(a, b) = IF (a < 0) = (b < 0) THEN n ELSE -n
  BY <1>1, <1>2 DEF Trunc
<1>7. CASE a >= 0 /\ b >= 0
  <2>1. Trunc(a, b) = n
    <3>1. (a < 0) = FALSE /\ (b < 0) = FALSE
      BY <1>7
    <3> QED
      BY <1>6, <3>1
  <2>2. a = b * n + m
    BY <1>1, <1>2, <1>7, AbsType
  <2>3. -Abs(b) < m /\ m < Abs(b) /\ -Abs(a) <= m /\ m <= Abs(a)
    BY <1>1, <1>3, <1>5
  <2>4. (a >= 0 => m >= 0) /\ (a <= 0 => m <= 0)
    BY <1>3, <1>7, <2>3, AbsType
  <2> QED
    BY <1>2, <1>3, <2>1, <2>2, <2>3, <2>4
<1>8. CASE a < 0 /\ b < 0
  <2>1. Trunc(a, b) = n
    <3>1. (a < 0) = TRUE /\ (b < 0) = TRUE
      BY <1>8
    <3> QED
      BY <1>6, <3>1
  <2>2. a = b * n + (-m) /\ -m \in Int
    <3>1. -a = (-b) * n + m
      BY <1>1, <1>2, <1>8, AbsType
    <3>2. (-b) * n = -(b * n)
      OBVIOUS
    <3> QED
      BY <1>3, <3>1, <3>2
  <2>3. -Abs(b) < -m /\ -m < Abs(b) /\ -Abs(a) <= -m /\ -m <= Abs(a)
    BY <1>1, <1>3, <1>5
  <2> QED
    BY <1>3, <1>8, <2>1, <2>2, <2>3
<1>9. CASE a < 0 /\ b >= 0
  <2>1. Trunc(a, b) = -n
    <3>1. (a < 0) = TRUE /\ (b < 0) = FALSE
      BY <1>9
    <3> QED
      BY <1>6, <3>1
  <2>2. a = b * (-n) + (-m) /\ -m \in Int /\ -n \in Int
    <3>1. -a = b * n + m
      BY <1>1, <1>2, <1>9, AbsType
    <3>2. b * (-n) = -(b * n)
      OBVIOUS
    <3> QED
      BY <1>3, <3>1, <3>2
  <2>3. -Abs(b) < -m /\ -m < Abs(b) /\ -Abs(a) <= -m /\ -m <= Abs(a)
    BY <1>1, <1>3, <1>5
  <2> QED
    BY <1>3, <1>9, <2>1, <2>2, <2>3
<1>10. CASE a >= 0 /\ b < 0
  <2>1. Trunc(a, b) = -n
    <3>1. (a < 0) = FALSE /\ (b < 0) = TRUE
      BY <1>10
    <3> QED
      BY <1>6, <3>1
  <2>a. -Abs(b) < m /\ m < Abs(b) /\ -Abs(a) <= m /\ m <= Abs(a)
    BY <1>1, <1>3, <1>5
  <2>b. (a >= 0 => m >= 0) /\ (a <= 0 => m <= 0)
    BY <1>3, <1>10, <2>a, AbsType
  <2>2. a = b * (-n) + m /\ -n \in Int
    <3>1. a = (-b) * n + m
      BY <1>1, <1>2, <1>10, AbsType
    <3>2. (-b) * n = b * (-n)
      OBVIOUS
    <3> QED
      BY <1>3, <3>1, <3>2
  <2> QED
    BY <1>3, <2>1, <2>2, <2>a, <2>b
<1> QED
  BY <1>7, <1>8, <1>9, <1>10

\* A remainder of the divisor's sign is the one that is defined.
LEMMA ModUnique ==
  ASSUME NEW a \in Int, NEW b \in Int, b # 0, NEW k \in Int, NEW r \in Int, a = b * k + r,
         b > 0 => 0 <= r /\ r < b,
         b < 0 => b < r /\ r <= 0
  PROVE  Machine!Mod(a, b) = r
<1>1. CASE b > 0
  <2>1. a % b = r
    BY <1>1, DivisionUnique
  <2> QED
    BY <1>1, <2>1 DEF Machine!Mod
<1>2. CASE b < 0
  <2>1. PICK d \in Nat \ {0}, x \in Int, m \in Int : d = -b /\ x = -a /\ m = -r
    BY <1>2
  <2>2. x = d * k + m
    <3>1. (-b) * k = -(b * k)
      OBVIOUS
    <3> QED
      BY <2>1, <3>1
  <2>3. 0 <= m /\ m < d
    BY <1>2, <2>1
  <2>4. x % d = m
    BY <2>1, <2>2, <2>3, DivisionUnique
  <2>5. Machine!Mod(a, b) = -(x % d)
    BY <1>2, <2>1 DEF Machine!Mod
  <2> QED
    BY <2>1, <2>4, <2>5
<1> QED
  BY <1>1, <1>2

\* The cell of a number is that number again, unless it is too large.
LEMMA SignedWrap ==
  ASSUME NEW x \in Int, -2^(CellBits - 1) <= x, x < 2^(CellBits - 1)
  PROVE  Signed(Wrap(x)) = x
<1>1. PICK h \in Nat \ {0} : h = 2^(CellBits - 1) /\ 2^CellBits = 2 * h
  BY CellBitsType
<1>2. CASE x >= 0
  <2>1. x \in Cell
    BY <1>1, <1>2 DEF Cell
  <2> QED
    BY <1>1, <2>1, WrapCell DEF Signed
<1>3. CASE x < 0
  <2>1. x + 2^CellBits \in Cell
    BY <1>1, <1>3 DEF Cell
  <2>2. Wrap(x) = x + 2 * h
    <3>1. PICK y \in Cell : y = x + 2^CellBits /\ y \in Int
      BY <2>1, CellType
    <3>2. y = x + 1 * 2^CellBits
      BY <1>1, <3>1
    <3>3. Wrap(y) = Wrap(x)
      BY <3>1, <3>2, WrapSame
    <3> QED
      BY <1>1, <3>1, <3>3, WrapCell
  <2>3. ~(x + 2 * h < h) /\ (x + 2 * h) - 2 * h = x
    BY <1>1
  <2> QED
    BY <1>1, <2>2, <2>3 DEF Signed
<1> QED
  BY <1>2, <1>3

\* CDQ makes two words of one without a change of the number.
LEMMA Doubleword ==
  ASSUME NEW v \in Cell
  PROVE  Signed(Cdq(v)) * 2^CellBits + v = Signed(v)
<1>1. PICK h \in Nat \ {0} : h = 2^(CellBits - 1) /\ 2^CellBits = 2 * h
  BY CellBitsType
<1>2. v \in Int /\ Signed(v) \in Int
  BY CellType, SignedType
<1>3. CASE Signed(v) < 0
  <2>1. Cdq(v) = 2 * h - 1
    BY <1>1, <1>3 DEF Cdq
  <2>2. Signed(2 * h - 1) = -1
    BY <1>1 DEF Signed
  <2>3. ~(v < h) /\ Signed(v) = v - 2 * h
    BY <1>1, <1>2, <1>3, CellType DEF Signed
  <2> QED
    BY <1>1, <1>2, <2>1, <2>2, <2>3
<1>4. CASE ~(Signed(v) < 0)
  <2>1. Cdq(v) = 0
    BY <1>4 DEF Cdq
  <2>2. Signed(0) = 0
    BY <1>1 DEF Signed
  <2>3. Signed(v) = v
    BY <1>1, <1>2, <1>4, CellType DEF Signed
  <2> QED
    BY <1>1, <1>2, <2>1, <2>2, <2>3
<1> QED
  BY <1>3, <1>4

\* Quotient and remainder of numbers.
Divided(a, b, q, r) ==
  /\ q = Trunc(a, b) /\ a = b * q + r
  /\ -Abs(b) < r /\ r < Abs(b) /\ -Abs(a) <= r /\ r <= Abs(a)
  /\ (a >= 0 => r >= 0) /\ (a <= 0 => r <= 0)

LEMMA IdivParts ==
  ASSUME NEW v \in Cell, NEW w \in Cell, NEW a \in Int, NEW b \in Int, a = Signed(v), b = Signed(w), b # 0
  PROVE  \E q \in Int, r \in Int :
           /\ Divided(a, b, q, r)
           /\ Idiv(Cdq(v), v, w).eax = Wrap(q) /\ Idiv(Cdq(v), v, w).edx = Wrap(r)
<1>1. PICK q \in Int, r \in Int :
           /\ q = Trunc(a, b) /\ a = b * q + r
           /\ -Abs(b) < r /\ r < Abs(b) /\ -Abs(a) <= r /\ r <= Abs(a)
           /\ (a >= 0 => r >= 0) /\ (a <= 0 => r <= 0)
  BY TruncParts
<1>2. Idiv(Cdq(v), v, w) = [eax |-> Wrap(q), edx |-> Wrap(a - q * b)]
  BY <1>1, Doubleword DEF Idiv
<1>3. a - q * b = r
  <2>1. q * b = b * q
    OBVIOUS
  <2> QED
    BY <1>1, <2>1
<1>4. Idiv(Cdq(v), v, w).eax = Wrap(q) /\ Idiv(Cdq(v), v, w).edx = Wrap(r)
  BY <1>2, <1>3
<1> QED
  BY <1>1, <1>4 DEF Divided

\* A dividing cell is not 0 as a signed number either.
LEMMA SignedNonzero ==
  ASSUME NEW w \in Cell, w # 0
  PROVE  Signed(w) # 0
BY CellBitsType, CellType DEF Signed

\* PRI and ALT after a division.
Results(q, m) == [c EXCEPT !.eax = Wrap(q), !.ecx = Wrap(m)]

\* A remainder of a division by b.
Remainder(a, b, k, m) == a = b * k + m /\ -Abs(b) < m /\ m < Abs(b)

\* Dividing the remainder plus the divisor leaves the remainder that is meant.
LEMMA SecondDivision ==
  ASSUME NEW p \in Cell, NEW v \in Cell, NEW a \in Int, NEW b \in Int, a = Signed(p), b = Signed(v), v # 0,
         SumFits(a, b)
  PROVE  \E q \in Int, m \in Int, k \in Int :
           /\ SdivCode(p, v) = Results(q, m)
           /\ q = Trunc(a, b) /\ m = Machine!Mod(a, b) /\ Remainder(a, b, k, m)
<1>1. b # 0
  BY SignedNonzero
<1>a. PICK q \in Int, r \in Int :
        /\ Divided(a, b, q, r)
        /\ Idiv(Cdq(p), p, v).eax = Wrap(q) /\ Idiv(Cdq(p), p, v).edx = Wrap(r)
  BY <1>1, IdivParts
<1>2. /\ q = Trunc(a, b) /\ a = b * q + r
      /\ -Abs(b) < r /\ r < Abs(b) /\ -Abs(a) <= r /\ r <= Abs(a)
      /\ Idiv(Cdq(p), p, v).eax = Wrap(q) /\ Idiv(Cdq(p), p, v).edx = Wrap(r)
  BY <1>a DEF Divided
<1>3. PICK h \in Nat : h = 2^(CellBits - 1)
  BY CellBitsType
<1>4. PICK x \in Int : x = r + b
  OBVIOUS
<1>5. PICK s \in Cell : s = Wrap(Wrap(r) + v) /\ Signed(s) = x
  <2>1. Wrap(Wrap(r) + v) \in Cell
    BY WrapType, CellType
  <2>2. Wrap(Wrap(r) + v) = Wrap(x)
    <3>1. v \in Int /\ Wrap(r) \in Int
      BY WrapType, CellType
    <3>2. Wrap(Wrap(r) + v) = Wrap(r + v)
      BY <3>1, WrapAdd
    <3>3. Wrap(r + Wrap(b)) = Wrap(r + b) /\ Wrap(b) = v
      BY WrapAdd, WrapSigned
    <3> QED
      BY <1>4, <3>2, <3>3
  <2>3. -h <= x /\ x < h
    <3>1. PICK y \in Int : y = b * q /\ y = q * b
      OBVIOUS
    <3>2. Trunc(a, b) * b = y /\ a = y + r
      BY <1>2, <3>1
    <3>3. (a - y) + b = x
      BY <1>4, <3>2
    <3> QED
      BY <1>3, <3>2, <3>3 DEF SumFits
  <2> QED
    BY <1>3, <2>1, <2>2, <2>3, SignedWrap
<1>b. PICK t \in Int, m \in Int : Divided(x, b, t, m) /\ Idiv(Cdq(s), s, v).edx = Wrap(m)
  BY <1>1, <1>5, IdivParts
<1>6. /\ x = b * t + m
      /\ -Abs(b) < m /\ m < Abs(b)
      /\ (x >= 0 => m >= 0) /\ (x <= 0 => m <= 0)
      /\ Idiv(Cdq(s), s, v).edx = Wrap(m)
  BY <1>b DEF Divided
<1>7. PICK k \in Int : k = q + t - 1
  OBVIOUS
<1>8. a = b * k + m
  <2>1. b * (q + t - 1) = b * q + b * t - b
    OBVIOUS
  <2>2. PICK y \in Int, z \in Int : y = b * q /\ z = b * t
    OBVIOUS
  <2>3. b * k = y + z - b
    BY <1>7, <2>1, <2>2
  <2>4. a = y + r
    BY <1>2, <2>2
  <2>5. x = z + m
    BY <1>6, <2>2
  <2>6. PICK u \in Int : u = b * k
    OBVIOUS
  <2>7. u = y + z - b
    BY <2>3, <2>6
  <2>8. a = u + m
    BY <1>4, <2>4, <2>5, <2>7
  <2> QED
    BY <2>6, <2>8
<1>9. (b > 0 => 0 <= m /\ m < b) /\ (b < 0 => b < m /\ m <= 0)
  BY <1>1, <1>2, <1>4, <1>6, AbsType
<1>10. Machine!Mod(a, b) = m
  BY <1>1, <1>8, <1>9, ModUnique
<1>11. SdivCode(p, v) = Results(q, m)
  BY <1>2, <1>5, <1>6 DEF SdivCode, Results
<1> QED
  <2>1. Remainder(a, b, k, m)
    BY <1>6, <1>8 DEF Remainder
  <2> QED
    BY <1>2, <1>10, <1>11, <2>1

LEMMA SameTrunc ==
  \A a, b : Machine!Trunc(a, b) = Trunc(a, b)
BY DEF Machine!Trunc, Trunc, Machine!Abs, Abs

LEMMA SdivValue ==
  ASSUME c \in State, ~WideDivision, NEW p \in Cell, NEW v \in Cell, Divides(p, v), c' = SdivCode(p, v)
  PROVE  c' \in State /\ View(c') = Machine!SignedDivision(p, v)
<1>1. PICK a \in Int, b \in Int : a = Signed(p) /\ b = Signed(v)
  BY SignedType
<1>2. v # 0 /\ SumFits(a, b)
  BY <1>1 DEF Divides
<1>3. PICK q \in Int, m \in Int :
        /\ SdivCode(p, v) = Results(q, m)
        /\ q = Trunc(a, b) /\ m = Machine!Mod(a, b)
  BY <1>1, <1>2, SecondDivision
<1>4. PICK x \in Cell, y \in Cell : x = Wrap(q) /\ y = Wrap(m)
  BY WrapType
<1>5. Machine!SignedDivision(p, v) = [View(c) EXCEPT !.pri = x, !.alt = y]
  BY <1>1, <1>3, <1>4, SameWords, SameTrunc DEF Machine!SignedDivision
<1>6. c' = [c EXCEPT !.eax = x, !.ecx = y]
  BY <1>3, <1>4 DEF Results
<1> QED
  BY <1>5, <1>6, SetsBoth

LEMMA SdivSame ==
  ASSUME c \in State, ~WideDivision, NEW i \in Instructions, Allowed(i), Sdiv(i)
  PROVE  c' \in State /\ View(c') = Machine!Meaning(i)
<1>1. i.op = "SDIV" /\ c' = SdivCode(c.eax, c.ecx)
  BY DEF Sdiv, Is, Emit
<1>2. Divides(c.eax, c.ecx)
  BY <1>1 DEF Allowed
<1>3. Machine!Meaning(i) = Machine!SignedDivision(View(c).pri, View(c).alt)
  BY <1>1 DEF Machine!Meaning, Machine!Computes, Machine!Relations
<1>4. Machine!Meaning(i) = Machine!SignedDivision(c.eax, c.ecx)
  BY <1>3, Fields
<1> QED
  BY <1>1, <1>2, <1>4, Fields, SdivValue

LEMMA SdivAltSame ==
  ASSUME c \in State, ~WideDivision, NEW i \in Instructions, Allowed(i), SdivAlt(i)
  PROVE  c' \in State /\ View(c') = Machine!Meaning(i)
<1>1. i.op = "SDIV.ALT" /\ c' = SdivCode(c.ecx, c.eax)
  BY DEF SdivAlt, Is, Emit
<1>2. Divides(c.ecx, c.eax)
  BY <1>1 DEF Allowed
<1>3. Machine!Meaning(i) = Machine!SignedDivision(View(c).alt, View(c).pri)
  BY <1>1 DEF Machine!Meaning, Machine!Computes, Machine!Relations
<1>4. Machine!Meaning(i) = Machine!SignedDivision(c.ecx, c.eax)
  BY <1>3, Fields
<1> QED
  BY <1>1, <1>2, <1>4, Fields, SdivValue

\* Whatever the operands, the registers hold cells again.
LEMMA SdivType ==
  ASSUME c \in State, NEW p \in Cell, NEW v \in Cell, v # 0, c' = SdivCode(p, v)
  PROVE  c' \in State
<1>1. PICK a \in Int, b \in Int : a = Signed(p) /\ b = Signed(v) /\ b # 0
  BY SignedType, SignedNonzero
<1>2. PICK q \in Int, r \in Int :
        Idiv(Cdq(p), p, v).eax = Wrap(q) /\ Idiv(Cdq(p), p, v).edx = Wrap(r)
  BY <1>1, IdivParts
<1>3. PICK s \in Cell : s = Wrap(Wrap(r) + v)
  BY WrapType, CellType
<1>4. PICK d \in Int : d = Signed(s)
  BY SignedType
<1>5. PICK m \in Int : Idiv(Cdq(s), s, v).edx = Wrap(m)
  BY <1>1, <1>4, IdivParts
<1>6. SdivCode(p, v) = Results(q, m)
  BY <1>2, <1>3, <1>5 DEF SdivCode, Results
<1> QED
  BY <1>6, WrapType, SetsBoth DEF Results

\* After a division ALT is the remainder: smaller than the divisor, and apart
\* from the dividend by a multiple of it.
LEMMA SdivRemainder ==
  ASSUME c \in State, ~WideDivision, Divides(c.eax, c.ecx), c' = SdivCode(c.eax, c.ecx)
  PROVE  LET a == Signed(c.eax)  b == Signed(c.ecx)  r == Signed(c'.ecx)
         IN Abs(r) < Abs(b) /\ Abs(a - r) % Abs(b) = 0
<1>1. PICK a \in Int, b \in Int : a = Signed(c.eax) /\ b = Signed(c.ecx)
  BY Fields, SignedType
<1>2. c.ecx # 0 /\ SumFits(a, b) /\ b # 0
  BY <1>1, Fields, SignedNonzero DEF Divides
<1>a. PICK q \in Int, m \in Int, k \in Int :
        /\ SdivCode(c.eax, c.ecx) = Results(q, m)
        /\ Remainder(a, b, k, m)
  BY <1>1, <1>2, Fields, SecondDivision
<1>3. /\ SdivCode(c.eax, c.ecx) = Results(q, m)
      /\ a = b * k + m /\ -Abs(b) < m /\ m < Abs(b)
  BY <1>a DEF Remainder
<1>4. c'.ecx = Wrap(m)
  BY <1>3 DEF State, Results
<1>5. PICK h \in Nat : h = 2^(CellBits - 1)
  BY CellBitsType
<1>6. Signed(Wrap(m)) = m
  <2>1. -h <= b /\ b < h
    BY <1>1, <1>5, Fields, SignedType
  <2>2. -h <= m /\ m < h
    BY <1>3, <1>5, <2>1, AbsType
  <2> QED
    BY <1>5, <2>2, SignedWrap
<1>7. Abs(m) < Abs(b)
  BY <1>3, AbsType
<1>8. Abs(a - m) % Abs(b) = 0
  <2>1. PICK y \in Int, d \in Nat \ {0} : y = a - m /\ d = Abs(b)
    BY <1>2, AbsType
  <2>2. y = b * k
    <3>1. PICK z \in Int : z = b * k
      OBVIOUS
    <3>2. a = z + m
      BY <1>3, <3>1
    <3> QED
      BY <2>1, <3>1, <3>2
  <2>3. PICK n \in Int, x \in Int : x = Abs(y) /\ x = d * n + 0
    <3>1. b = d \/ b = -d
      BY <2>1 DEF Abs
    <3>2. y = d * k \/ y = d * (-k)
      <4>1. (-d) * k = d * (-k)
        OBVIOUS
      <4> QED
        BY <2>2, <3>1, <4>1
    <3>3. PICK n \in Int : y = d * n
      BY <3>2
    <3>4. Abs(y) = d * n \/ Abs(y) = d * (-n)
      <4>1. d * (-n) = -(d * n)
        OBVIOUS
      <4> QED
        BY <3>3, <4>1 DEF Abs
    <3> QED
      BY <3>4
  <2>4. x % d = 0
    BY <2>3, DivisionUnique
  <2> QED
    BY <2>1, <2>3, <2>4
<1> QED
  BY <1>1, <1>4, <1>6, <1>7, <1>8
-----------------------------------------------------------------------------
(* Blocks of memory.  Saving ALT in dead memory leaves the rest of it. *)

LEMMA DistanceSame ==
  ASSUME NEW a \in Int, NEW e \in Int
  PROVE  /\ Wrap(Wrap(Ebx + a) - Wrap(Ebx + e)) = Wrap(a - e)
         /\ Wrap(Ebx + a) - Wrap(Ebx + e) \in Int
<1>1. PICK x \in Int, y \in Int, t \in Int : x = Ebx + a /\ y = Ebx + e /\ t = Wrap(y)
  <2>1. Ebx \in Int
    BY OpcodesAssumption, CellType
  <2>2. Ebx + a \in Int /\ Ebx + e \in Int /\ Wrap(Ebx + e) \in Int
    BY <2>1, WrapType, CellType
  <2> QED
    BY <2>2
<1>2. Wrap(Wrap(x) - t) = Wrap(x - t)
  BY WrapAdd
<1>3. Wrap(x - Wrap(y)) = Wrap(x - y)
  BY WrapAdd
<1>4. x - y = a - e
  <2>1. Ebx \in Int
    BY OpcodesAssumption, CellType
  <2> QED
    BY <1>1, <2>1
<1>5. Wrap(x) \in Int
  BY WrapType, CellType
<1> QED
  BY <1>1, <1>2, <1>3, <1>4, <1>5

LEMMA SourceSame ==
  ASSUME NEW a \in Int, NEW e \in Int, NEW f \in Int
  PROVE  Wrap(Wrap(Ebx + f) + (Wrap(Ebx + a) - Wrap(Ebx + e))) = Wrap(Ebx + Wrap(f + (a - e)))
<1>1. PICK n \in Int, d \in Int, x \in Int :
        n = Wrap(Ebx + a) - Wrap(Ebx + e) /\ d = a - e /\ x = Ebx + f /\ Wrap(n) = Wrap(d)
  <2>1. Ebx + f \in Int /\ a - e \in Int
    BY OpcodesAssumption, CellType
  <2>2. /\ Wrap(Ebx + a) - Wrap(Ebx + e) \in Int
        /\ Wrap(Wrap(Ebx + a) - Wrap(Ebx + e)) = Wrap(a - e)
    BY DistanceSame
  <2> QED
    BY <2>1, <2>2
<1>2. Wrap(Wrap(x) + n) = Wrap(x + n)
  BY WrapAdd
<1>3. Wrap(x + Wrap(n)) = Wrap(x + n) /\ Wrap(x + Wrap(d)) = Wrap(x + d)
  BY WrapAdd
<1>4. Wrap(x + d) = Wrap(Ebx + Wrap(f + d))
  <2>1. Wrap(x) = Wrap(Ebx + f)
    BY <1>1
  <2> QED
    BY <2>1, ShiftedAddress
<1> QED
  BY <1>1, <1>2, <1>3, <1>4

LEMMA SavedMemory ==
  ASSUME c \in State, Hea + 4 <= Stk
  PROVE  /\ Saved \in State
         /\ Saved = [c EXCEPT !.ram = Saved.ram] /\ Saved.ram \in [Cell -> Byte]
         /\ \A d \in Cell \ (Hea..(Stk - 1)) : Saved.ram[Wrap(Ebx + d)] = c.ram[Wrap(Ebx + d)]
<1>1. PICK x \in Int, a \in Int : x = c.esp - 4 /\ a = Stk - 4
  BY StackAddress
<1>2. Wrap(x) = Wrap(Ebx + a)
  <2>1. x = c.esp + (-4) /\ a = Stk + (-4) /\ -4 \in Int
    BY <1>1, StackAddress
  <2> QED
    BY <2>1, StackAddress
<1>3. PICK r \in [Cell -> Byte] :
        r = Poke(c.ram, Wrap(x), 4, c.ecx) /\ Data(r) = Poke(View(c).mem, a, 4, c.ecx)
  <2>1. c.ecx \in Int
    BY Fields
  <2>2. /\ Poke(c.ram, Wrap(x), 4, c.ecx) \in [Cell -> Byte]
        /\ Data(Poke(c.ram, Wrap(x), 4, c.ecx)) = Poke(View(c).mem, a, 4, c.ecx)
    BY <1>2, <2>1, PokeView
  <2> QED
    BY <2>2
<1>4. Saved = [c EXCEPT !.ram = r]
  BY <1>1, <1>3 DEF Saved, Push, State
<1>5. Saved \in State /\ Saved.ram = r
  BY <1>4 DEF State
<1>6. ASSUME NEW d \in Cell \ (Hea..(Stk - 1))
      PROVE  r[Wrap(Ebx + d)] = c.ram[Wrap(Ebx + d)]
  <2>1. Data(r)[d] = r[Wrap(Ebx + d)] /\ View(c).mem[d] = c.ram[Wrap(Ebx + d)]
    BY DEF Data, View
  <2>2. PICK M \in Nat, h \in Int, s \in Int :
          /\ M = 2^CellBits /\ h = Hea /\ s = Stk /\ d \in Int /\ 0 <= d /\ d < M
          /\ 0 <= h /\ 0 <= s /\ s < M /\ h + 4 <= s
    <3>1. Hea \in Cell /\ Stk \in Cell
      BY Fields, StackAddress DEF Hea
    <3> QED
      BY <3>1, CellType, CellBitsType
  <2>3. d < h \/ d >= s
    BY <2>2
  <2>4. PICK y \in Int, k \in Int : y = d - a /\ y = Wrap(y) + k * M /\ Wrap(y) \in Int
    <3>1. d - a \in Int
      BY <1>1, <2>2
    <3> QED
      BY <2>2, <3>1, WrapParts, WrapType, CellType
  <2>5. ~(Wrap(d - a) < 4)
    <3>1. CASE d >= s
      <4>1. y \in Cell /\ y >= 4
        BY <1>1, <2>2, <2>4, <3>1 DEF Cell
      <4> QED
        BY <2>4, <4>1, WrapCell
    <3>2. CASE d < h
      <4>a. y = d - s + 4
        BY <1>1, <2>2, <2>4
      <4>1. y + M \in Cell /\ y + M >= 4 /\ y + M \in Int
        BY <2>2, <3>2, <4>a DEF Cell
      <4>2. Wrap(y + M) = Wrap(y)
        <5>1. y + M = y + 1 * 2^CellBits
          BY <2>2
        <5> QED
          BY <4>1, <5>1, WrapSame
      <4> QED
        BY <2>4, <4>1, <4>2, WrapCell
    <3> QED
      BY <2>3, <3>1, <3>2
  <2>6. Poke(View(c).mem, a, 4, c.ecx)[d] = View(c).mem[d]
    BY <2>5 DEF Poke
  <2> QED
    BY <1>3, <2>1, <2>6
<1> QED
  BY <1>4, <1>5, <1>6

\* What a step must do: dead memory is left open.
Close(t) ==
  /\ \A f \in DOMAIN t \ {"mem"} : View(c')[f] = t[f]
  /\ \A a \in Cell \ Machine!Dead(t) : View(c').mem[a] = t.mem[a]

LEMMA StepClose ==
  ASSUME instr = None, NEW i \in Instructions, instr' = i, i.op \notin Machine!FloatFunctions,
         Close(Machine!Meaning(i))
  PROVE  Machine!Next
BY SameWords DEF Machine!Next, Machine!Outcomes, View, Close

LEMMA CloseMemory ==
  ASSUME c \in State, NEW m, NEW r \in [Cell -> Byte], c' = [c EXCEPT !.ram = r],
         \A d \in Cell \ (Hea..(Stk - 1)) : r[Wrap(Ebx + d)] = m[d]
  PROVE  c' \in State /\ Close([View(c) EXCEPT !.mem = m])
<1> DEFINE t == [View(c) EXCEPT !.mem = m]
<1>1. c' \in State /\ c'.ram = r
  BY DEF State
<1>2. /\ t.stk = Stk /\ t.hea = Hea /\ t.mem = m
      /\ DOMAIN t = {"pri", "alt", "frm", "stk", "hea", "mem", "out"}
  BY DEF View, Stk, Hea
<1>3. View(c') = [View(c) EXCEPT !.mem = Data(r)]
  BY DEF View, State
<1>4. \A f \in DOMAIN t \ {"mem"} : View(c')[f] = t[f]
  BY <1>3 DEF View
<1>5. ASSUME NEW a \in Cell \ Machine!Dead(t) PROVE View(c').mem[a] = t.mem[a]
  <2>1. Hea \in Int /\ Stk \in Int /\ a \in Int
    BY Fields, StackAddress, CellType DEF Hea
  <2>2. ~(Hea <= a /\ a < Stk)
    BY <1>2, SameWords DEF Machine!Dead
  <2>3. a \notin Hea..(Stk - 1)
    BY <2>1, <2>2
  <2>4. View(c').mem[a] = r[Wrap(Ebx + a)]
    BY <1>1 DEF View, Data
  <2> QED
    BY <1>2, <2>3, <2>4
<1> HIDE DEF t
<1>6. Close(t)
  BY <1>4, <1>5 DEF Close
<1> QED
  BY <1>1, <1>6 DEF t

LEMMA CloseResult ==
  ASSUME c \in State, Hea + 4 <= Stk, NEW v \in Cell, c' = [Saved EXCEPT !.eax = v]
  PROVE  c' \in State /\ Close([View(c) EXCEPT !.pri = v])
<1> DEFINE t == [View(c) EXCEPT !.pri = v]
<1>1. PICK r \in [Cell -> Byte] :
        /\ Saved = [c EXCEPT !.ram = r]
        /\ \A d \in Cell \ (Hea..(Stk - 1)) : r[Wrap(Ebx + d)] = c.ram[Wrap(Ebx + d)]
  BY SavedMemory
<1>2. c' = [[c EXCEPT !.ram = r] EXCEPT !.eax = v]
  BY <1>1
<1>3. c' \in State /\ c'.ram = r
  BY <1>2 DEF State
<1>4. /\ t.stk = Stk /\ t.hea = Hea /\ t.mem = Data(c.ram)
      /\ DOMAIN t = {"pri", "alt", "frm", "stk", "hea", "mem", "out"}
  BY DEF View, Stk, Hea
<1>5. /\ c'.eax = v /\ c'.ecx = c.ecx /\ c'.ebp = c.ebp /\ c'.esp = c.esp /\ c'.hea = c.hea
      /\ c'.out = c.out
  BY <1>2 DEF State
<1>6. \A f \in DOMAIN t \ {"mem"} : View(c')[f] = t[f]
  BY <1>4, <1>5 DEF View
<1>7. ASSUME NEW a \in Cell \ Machine!Dead(t) PROVE View(c').mem[a] = t.mem[a]
  <2>1. Hea \in Int /\ Stk \in Int /\ a \in Int
    BY Fields, StackAddress, CellType DEF Hea
  <2>2. ~(Hea <= a /\ a < Stk)
    BY <1>4, SameWords DEF Machine!Dead
  <2>3. a \notin Hea..(Stk - 1)
    BY <2>1, <2>2
  <2>4. View(c').mem[a] = r[Wrap(Ebx + a)]
    BY <1>3 DEF View, Data
  <2> QED
    BY <1>1, <1>4, <2>3, <2>4 DEF Data
<1> HIDE DEF t
<1>8. Close(t)
  BY <1>6, <1>7 DEF Close
<1> QED
  BY <1>3, <1>8 DEF t

LEMMA WholeUnits ==
  ASSUME NEW n \in Nat
  PROVE  Unit(n) * (n \div Unit(n)) = n
<1>1. PICK u \in Nat \ {0} : u = Unit(n) /\ n % u = 0
  <2>1. n % 1 = 0
    OBVIOUS
  <2> QED
    BY <2>1 DEF Unit
<1>2. n = u * (n \div u) + (n % u) /\ n \div u \in Int
  BY Division, SMTT(30)
<1>3. PICK q \in Int : q = n \div u
  BY <1>2
<1>4. n = u * q + 0
  <2>1. n = u * q + (n % u)
    BY <1>2, <1>3
  <2> QED
    BY <1>1, <2>1
<1>5. n = u * q
  <2>1. PICK z \in Int : z = u * q
    OBVIOUS
  <2> QED
    BY <1>4, <2>1
<1> QED
  BY <1>1, <1>3, <1>5

\* A byte that a block has is outside dead memory.
LEMMA LiveByte ==
  ASSUME c \in State, NEW f \in Cell, NEW n \in Nat, Live(f, n), NEW x \in Int, Wrap(x) < n
  PROVE  Wrap(f + x) \in Cell \ (Hea..(Stk - 1))
<1>1. PICK k \in Int : k = Wrap(x) /\ k \in 0..(n - 1)
  BY WrapType, CellType
<1>2. f \in Int /\ f + k \in Int
  BY <1>1, CellType
<1>3. Wrap(f + k) = Wrap(f + x)
  BY <1>1, <1>2, WrapAdd
<1>4. Wrap(f + k) \notin Hea..(Stk - 1)
  BY <1>1 DEF Live
<1> QED
  BY <1>2, <1>3, <1>4, WrapType

LEMMA MovsClose ==
  ASSUME c \in State, Hea + 4 <= Stk, NEW i \in Instructions, Allowed(i), Movs(i)
  PROVE  c' \in State /\ Close(Machine!Meaning(i))
<1> DEFINE moved == [a \in Cell |-> IF Wrap(a - View(c).alt) < i.n
                                      THEN View(c).mem[Wrap(View(c).pri + (a - View(c).alt))]
                                      ELSE View(c).mem[a]]
           from == Wrap(Ebx + c.eax)
           to == Wrap(Ebx + c.ecx)
           r == [a \in Cell |-> IF Wrap(a - to) < i.n THEN Saved.ram[Wrap(from + (a - to))] ELSE Saved.ram[a]]
<1>1. i.op = "MOVS" /\ i.n \in Nat /\ i.n \in Cell
  BY Form, CellType DEF Movs, Is
<1>2. Live(c.eax, i.n)
  BY <1>1 DEF Allowed
<1>3. Saved \in State /\ Saved = [c EXCEPT !.ram = Saved.ram] /\ Saved.ram \in [Cell -> Byte]
  BY SavedMemory
<1>4. c' = [Saved EXCEPT !.ram = r]
  <2>1. Unit(i.n) * (i.n \div Unit(i.n)) = i.n
    BY <1>1, WholeUnits
  <2> QED
    BY <2>1 DEF Movs, Emit
<1>5. Machine!Meaning(i) = [View(c) EXCEPT !.mem = moved]
  <2>1. Machine!Meaning(i) =
          [View(c) EXCEPT !.mem = [a \in Machine!Cell |->
             IF Machine!Wrap(a - View(c).alt) < i.n
             THEN View(c).mem[Machine!Wrap(View(c).pri + (a - View(c).alt))] ELSE @[a]]]
    BY <1>1 DEF Machine!Meaning
  <2> QED
    BY <2>1, SameWords
<1>6. r \in [Cell -> Byte]
  <2> SUFFICES ASSUME NEW a \in Cell PROVE r[a] \in Byte
    OBVIOUS
  <2>1. a - to \in Int /\ from + (a - to) \in Int
    BY Fields, CellType, WrapType
  <2>2. Wrap(from + (a - to)) \in Cell
    BY <2>1, WrapType
  <2> HIDE DEF from, to
  <2> QED
    BY <1>3, <2>2
<1>7. ASSUME NEW d \in Cell \ (Hea..(Stk - 1)) PROVE r[Wrap(Ebx + d)] = moved[d]
  <2>1. PICK x \in Int : x = d - c.ecx /\ x = d - View(c).alt
    BY Fields, CellType
  <2>2. PICK a \in Cell : a = Wrap(Ebx + d)
    BY Fields, CellType, WrapType
  <2>3. Wrap(a - to) = Wrap(x)
    <3>1. d \in Int /\ c.ecx \in Int
      BY Fields, CellType
    <3>2. Wrap(Wrap(Ebx + d) - to) = Wrap(d - c.ecx)
      BY <3>1, DistanceSame
    <3> QED
      BY <2>1, <2>2, <3>2
  <2>4. Wrap(from + (a - to)) = Wrap(Ebx + Wrap(c.eax + x))
    <3>1. d \in Int /\ c.ecx \in Int /\ c.eax \in Int
      BY Fields, CellType
    <3>2. Wrap(from + (Wrap(Ebx + d) - to)) = Wrap(Ebx + Wrap(c.eax + (d - c.ecx)))
      BY <3>1, SourceSame
    <3> QED
      BY <2>1, <2>2, <3>2
  <2>5. Saved.ram[a] = View(c).mem[d]
    <3>1. Saved.ram[Wrap(Ebx + d)] = c.ram[Wrap(Ebx + d)]
      BY SavedMemory
    <3>2. View(c).mem[d] = c.ram[Wrap(Ebx + d)]
      BY DEF View, Data
    <3> QED
      BY <2>2, <3>1, <3>2
  <2>6. CASE Wrap(x) < i.n
    <3>1. PICK f \in Cell \ (Hea..(Stk - 1)) : f = Wrap(c.eax + x)
      BY <1>1, <1>2, <2>6, Fields, LiveByte
    <3>2. Saved.ram[Wrap(Ebx + f)] = View(c).mem[f]
      BY SavedMemory DEF View, Data
    <3>3. moved[d] = View(c).mem[Wrap(View(c).pri + x)]
      BY <2>1, <2>6
    <3>4. r[a] = Saved.ram[Wrap(from + (a - to))]
      BY <2>3, <2>6
    <3> HIDE DEF moved, r, from, to
    <3> QED
      BY <2>2, <2>4, <3>1, <3>2, <3>3, <3>4, Fields
  <2>7. CASE ~(Wrap(x) < i.n)
    <3>1. moved[d] = View(c).mem[d]
      BY <2>1, <2>7
    <3>2. r[a] = Saved.ram[a]
      BY <2>3, <2>7
    <3> HIDE DEF moved, r, from, to
    <3> QED
      BY <2>2, <2>5, <3>1, <3>2
  <2> QED
    BY <2>6, <2>7
<1>8. c' = [c EXCEPT !.ram = r]
  BY <1>3, <1>4 DEF State
<1> HIDE DEF moved, r, from, to
<1> QED
  BY <1>5, <1>6, <1>7, <1>8, CloseMemory

LEMMA FillClose ==
  ASSUME c \in State, Hea + 4 <= Stk, NEW i \in Instructions, Fill(i)
  PROVE  c' \in State /\ Close(Machine!Meaning(i))
<1> DEFINE filled == [a \in Cell |-> IF Wrap(a - View(c).alt) < i.n
                                       THEN ByteOf(View(c).pri, Wrap(a - View(c).alt) % 4)
                                       ELSE View(c).mem[a]]
           to == Wrap(Ebx + c.ecx)
           r == [a \in Cell |-> IF Wrap(a - to) < i.n THEN ByteOf(c.eax, Wrap(a - to) % 4) ELSE Saved.ram[a]]
<1>1. i.op = "FILL" /\ i.n \in Nat /\ i.n % 4 = 0
  BY Form, CellType, OpcodesAssumption DEF Fill, Is, WellFormed
<1>2. Saved \in State /\ Saved = [c EXCEPT !.ram = Saved.ram] /\ Saved.ram \in [Cell -> Byte]
  BY SavedMemory
<1>3. c' = [Saved EXCEPT !.ram = r]
  <2>1. 4 * (i.n \div 4) = i.n
    BY <1>1
  <2> QED
    BY <2>1 DEF Fill, Emit
<1>4. Machine!Meaning(i) = [View(c) EXCEPT !.mem = filled]
  <2>1. Machine!Meaning(i) =
          [View(c) EXCEPT !.mem = [a \in Machine!Cell |->
             IF Machine!Wrap(a - View(c).alt) < i.n
             THEN Machine!ByteOf(View(c).pri, Machine!Wrap(a - View(c).alt) % 4) ELSE @[a]]]
    BY <1>1 DEF Machine!Meaning
  <2> QED
    BY <2>1, SameWords
<1>5. r \in [Cell -> Byte]
  <2> SUFFICES ASSUME NEW a \in Cell PROVE r[a] \in Byte
    OBVIOUS
  <2>1. a - to \in Int
    BY Fields, CellType, WrapType
  <2>2. Wrap(a - to) % 4 \in Nat
    BY <2>1, WrapType, CellType
  <2>3. ByteOf(c.eax, Wrap(a - to) % 4) \in Byte
    BY <2>2, Fields, BitsType
  <2> HIDE DEF to
  <2> QED
    BY <1>2, <2>3
<1>6. ASSUME NEW d \in Cell \ (Hea..(Stk - 1)) PROVE r[Wrap(Ebx + d)] = filled[d]
  <2>1. PICK x \in Int : x = d - c.ecx /\ x = d - View(c).alt
    BY Fields, CellType
  <2>2. PICK a \in Cell : a = Wrap(Ebx + d)
    BY Fields, CellType, WrapType
  <2>3. Wrap(a - to) = Wrap(x)
    <3>1. d \in Int /\ c.ecx \in Int
      BY Fields, CellType
    <3>2. Wrap(Wrap(Ebx + d) - to) = Wrap(d - c.ecx)
      BY <3>1, DistanceSame
    <3> QED
      BY <2>1, <2>2, <3>2
  <2>4. Saved.ram[a] = View(c).mem[d]
    <3>1. Saved.ram[Wrap(Ebx + d)] = c.ram[Wrap(Ebx + d)]
      BY SavedMemory
    <3>2. View(c).mem[d] = c.ram[Wrap(Ebx + d)]
      BY DEF View, Data
    <3> QED
      BY <2>2, <3>1, <3>2
  <2>5. filled[d] = IF Wrap(x) < i.n THEN ByteOf(View(c).pri, Wrap(x) % 4) ELSE View(c).mem[d]
    BY <2>1
  <2>6. r[a] = IF Wrap(x) < i.n THEN ByteOf(c.eax, Wrap(x) % 4) ELSE Saved.ram[a]
    BY <2>3
  <2> HIDE DEF filled, r, to
  <2> QED
    BY <2>2, <2>4, <2>5, <2>6, Fields
<1>7. c' = [c EXCEPT !.ram = r]
  BY <1>2, <1>3 DEF State
<1> HIDE DEF filled, r, to
<1> QED
  BY <1>4, <1>5, <1>6, <1>7, CloseMemory

\* A scan of two blocks ends, at the first difference if there is one.
LEMMA ScanEnds ==
  ASSUME NEW n \in Nat \ {0}, NEW x, NEW y
  PROVE  \E k \in 0..(n - 1) : (\A j \in 0..(k - 1) : x[j] = y[j]) /\ (x[k] # y[k] \/ k = n - 1)
<1> DEFINE differ == {k \in 0..(n - 1) : x[k] # y[k]}
<1>1. CASE differ = {}
  <2>1. n - 1 \in 0..(n - 1) /\ \A j \in 0..((n - 1) - 1) : x[j] = y[j]
    BY <1>1
  <2> QED
    BY <2>1
<1>2. CASE differ # {}
  <2>1. PICK f \in differ : \A j \in differ : f <= j
    <3>1. differ \in SUBSET Nat
      OBVIOUS
    <3> HIDE DEF differ
    <3> QED
      BY <1>2, <3>1, LeastNatural
  <2>2. f \in 0..(n - 1) /\ x[f] # y[f]
    BY <2>1
  <2>3. ASSUME NEW j \in 0..(f - 1) PROVE x[j] = y[j]
    BY <2>1, <2>2
  <2> QED
    BY <2>2, <2>3
<1> QED
  BY <1>1, <1>2

LEMMA FirstDifference ==
  ASSUME NEW n \in Nat \ {0}, NEW x, NEW y, NEW differ, differ = {k \in 0..(n - 1) : x[k] # y[k]},
         NEW last \in 0..(n - 1), \A j \in 0..(last - 1) : x[j] = y[j], x[last] # y[last] \/ last = n - 1
  PROVE  /\ differ = {} => x[last] = y[last]
         /\ differ # {} => last \in differ /\ \A j \in differ : last <= j
<1>1. ASSUME NEW j \in differ PROVE last <= j
  OBVIOUS
<1>2. ASSUME NEW j \in differ PROVE last \in differ
  <2>1. CASE x[last] # y[last]
    BY <2>1
  <2>2. CASE last = n - 1
    <3>1. j <= last /\ last <= j /\ j \in Int
      BY <1>1, <2>2
    <3> QED
      BY <3>1
  <2> QED
    BY <2>1, <2>2
<1> QED
  BY <1>1, <1>2

\* The bytes of the blocks at ALT and PRI, and where a scan of them ends.
BlockAt(e) == [k \in Int |-> c.ram[Wrap(Ebx + e + k)]]

LEMMA BlockBytes ==
  ASSUME c \in State, NEW e \in Int, NEW k \in Int
  PROVE  BlockAt(e)[k] = View(c).mem[Wrap(e + k)] /\ BlockAt(e)[k] \in Int
<1>1. PICK p \in Int : p = Ebx + e
  BY Fields
<1>2. Wrap(p) = Wrap(Ebx + e)
  BY <1>1
<1>3. Wrap(p + k) = Wrap(Ebx + Wrap(e + k))
  BY <1>2, ShiftedAddress
<1>4. Wrap(e + k) \in Cell /\ Wrap(p + k) \in Cell
  BY WrapType
<1>5. BlockAt(e)[k] = c.ram[Wrap(p + k)]
  BY <1>1 DEF BlockAt
<1>6. c.ram[Wrap(p + k)] = View(c).mem[Wrap(e + k)]
  BY <1>3, <1>4 DEF View, Data
<1>7. c.ram[Wrap(p + k)] \in Byte
  BY <1>4, Fields
<1> QED
  BY <1>5, <1>6, <1>7, CellBitsType DEF Byte

LEMMA CmpsClose ==
  ASSUME c \in State, Hea + 4 <= Stk, NEW i \in Instructions, Cmps(i)
  PROVE  c' \in State /\ Close(Machine!Meaning(i))
<1>1. i.op = "CMPS"
  BY DEF Cmps, Is
<1>2. PICK n \in Nat \ {0} : n = i.n
  <2>1. i.n \in Nat /\ i.n > 0
    BY <1>1, Form, CellType, OpcodesAssumption DEF WellFormed
  <2> QED
    BY <2>1
<1>3. PICK x, y : x = BlockAt(c.ecx) /\ y = BlockAt(c.eax)
  OBVIOUS
<1>4. \A k \in Int : x[k] = c.ram[Wrap(Ebx + c.ecx + k)] /\ y[k] = c.ram[Wrap(Ebx + c.eax + k)]
  BY <1>3 DEF BlockAt
<1>5. ASSUME NEW k \in Int
      PROVE  /\ x[k] = View(c).mem[Wrap(View(c).alt + k)] /\ y[k] = View(c).mem[Wrap(View(c).pri + k)]
             /\ x[k] \in Int /\ y[k] \in Int
  <2>1. PICK a \in Int, b \in Int : a = c.ecx /\ a = View(c).alt /\ b = c.eax /\ b = View(c).pri
    BY Fields
  <2>2. /\ BlockAt(a)[k] = View(c).mem[Wrap(a + k)] /\ BlockAt(a)[k] \in Int
        /\ BlockAt(b)[k] = View(c).mem[Wrap(b + k)] /\ BlockAt(b)[k] \in Int
    BY BlockBytes
  <2>3. x = BlockAt(a) /\ y = BlockAt(b)
    BY <1>3, <2>1
  <2> QED
    BY <2>1, <2>2, <2>3
<1>6. PICK last : last = CHOOSE k \in 0..(i.n - 1) :
                           /\ \A j \in 0..(k - 1) :
                                c.ram[Wrap(Ebx + c.ecx + j)] = c.ram[Wrap(Ebx + c.eax + j)]
                           /\ \/ c.ram[Wrap(Ebx + c.ecx + k)] # c.ram[Wrap(Ebx + c.eax + k)]
                              \/ k = i.n - 1
  OBVIOUS
<1>7. c' = [Saved EXCEPT !.eax =
              IF c.ram[Wrap(Ebx + c.ecx + last)] > c.ram[Wrap(Ebx + c.eax + last)] THEN 1
              ELSE IF c.ram[Wrap(Ebx + c.ecx + last)] < c.ram[Wrap(Ebx + c.eax + last)] THEN 2^CellBits - 1
              ELSE 0]
  BY <1>6 DEF Cmps, Emit
<1>8. /\ last \in 0..(n - 1) /\ \A j \in 0..(last - 1) : x[j] = y[j]
      /\ x[last] # y[last] \/ last = n - 1
  <2>1. PICK k \in 0..(n - 1) : (\A j \in 0..(k - 1) : x[j] = y[j]) /\ (x[k] # y[k] \/ k = n - 1)
    BY ScanEnds
  <2>2. /\ \A j \in 0..(k - 1) : c.ram[Wrap(Ebx + c.ecx + j)] = c.ram[Wrap(Ebx + c.eax + j)]
        /\ c.ram[Wrap(Ebx + c.ecx + k)] # c.ram[Wrap(Ebx + c.eax + k)] \/ k = i.n - 1
    BY <1>2, <1>4, <2>1
  <2>3. /\ last \in 0..(i.n - 1)
        /\ \A j \in 0..(last - 1) : c.ram[Wrap(Ebx + c.ecx + j)] = c.ram[Wrap(Ebx + c.eax + j)]
        /\ c.ram[Wrap(Ebx + c.ecx + last)] # c.ram[Wrap(Ebx + c.eax + last)] \/ last = i.n - 1
    BY <1>2, <1>6, <2>2
  <2> QED
    BY <1>2, <1>4, <2>3
<1>9. PICK found : found = IF x[last] > y[last] THEN 1 ELSE IF x[last] < y[last] THEN 2^CellBits - 1 ELSE 0
  OBVIOUS
<1>10. c' = [Saved EXCEPT !.eax = found]
  BY <1>4, <1>7, <1>8, <1>9
<1>11. PICK differ : differ = {k \in 0..(n - 1) : x[k] # y[k]}
  OBVIOUS
<1>12. /\ differ = {} => x[last] = y[last]
       /\ differ # {} => last \in differ /\ \A j \in differ : last <= j
  BY <1>8, <1>11, FirstDifference
<1>13. Machine!Meaning(i) = Machine!Set("pri", Machine!Blocks(n))
  BY <1>1, <1>2 DEF Machine!Meaning
<1>14. Machine!Blocks(n) = IF differ = {} THEN 0 ELSE IF x[last] > y[last] THEN 1 ELSE -1
  <2>1. {k \in 0..(n - 1) : View(c).mem[Machine!Wrap(View(c).alt + k)] # View(c).mem[Machine!Wrap(View(c).pri + k)]}
          = differ
    BY <1>5, <1>11, SameWords
  <2>2. PICK first : first = CHOOSE k \in differ : \A j \in differ : k <= j
    OBVIOUS
  <2>3. Machine!Blocks(n) =
          IF differ = {} THEN 0
          ELSE IF View(c).mem[Machine!Wrap(View(c).alt + first)] > View(c).mem[Machine!Wrap(View(c).pri + first)]
               THEN 1 ELSE -1
    BY <2>1, <2>2 DEF Machine!Blocks
  <2>4. differ # {} => first = last
    <3> SUFFICES ASSUME differ # {} PROVE first = last
      OBVIOUS
    <3>1. first \in differ /\ \A j \in differ : first <= j
      BY <1>12, <2>2
    <3>2. first <= last /\ last <= first /\ first \in Int /\ last \in Int
      BY <1>8, <1>11, <1>12, <3>1
    <3> QED
      BY <3>2
  <2>5. /\ x[last] = View(c).mem[Machine!Wrap(View(c).alt + last)]
        /\ y[last] = View(c).mem[Machine!Wrap(View(c).pri + last)]
    BY <1>5, <1>8, SameWords
  <2> QED
    BY <2>3, <2>4, <2>5
<1>15. found \in Cell /\ found = Wrap(Machine!Blocks(n))
  <2>1. 1 \in Cell /\ 0 \in Cell /\ 2^CellBits - 1 \in Cell /\ Wrap(-1) = 2^CellBits - 1
    <3>1. 1 \in Cell /\ 0 \in Cell /\ 2^CellBits - 1 \in Cell
      BY CellBitsType, SmallPowers DEF Cell
    <3>2. PICK M \in Int : M = 2^CellBits
      BY CellBitsType
    <3>3. M - 1 = -1 + 1 * 2^CellBits
      BY <3>2
    <3>4. Wrap(M - 1) = Wrap(-1)
      BY <3>2, <3>3, WrapSame
    <3> QED
      BY <3>1, <3>2, <3>4, WrapCell
  <2>2. x[last] \in Int /\ y[last] \in Int
    BY <1>5, <1>8
  <2>3. differ # {} => x[last] # y[last]
    BY <1>11, <1>12
  <2>4. CASE differ = {}
    BY <1>9, <1>12, <1>14, <2>1, <2>2, <2>4, WrapCell
  <2>5. CASE differ # {} /\ x[last] > y[last]
    BY <1>9, <1>14, <2>1, <2>2, <2>5, WrapCell
  <2>6. CASE differ # {} /\ ~(x[last] > y[last])
    BY <1>9, <1>14, <2>1, <2>2, <2>3, <2>6, WrapCell
  <2> QED
    BY <2>4, <2>5, <2>6
<1>16. Machine!Meaning(i) = [View(c) EXCEPT !.pri = found]
  BY <1>13, <1>15, SameWords DEF Machine!Set
<1> QED
  BY <1>10, <1>15, <1>16, CloseResult

-----------------------------------------------------------------------------
(* Floating-point results are cells. *)

LEMMA InfinityType ==
  Infinity \in Nat /\ Infinity < SignBit /\ SignBit \in Nat /\ 2^CellBits = 2 * SignBit /\ 2^(FracBits - 1) \in Nat
<1>1. FracBits \in Nat /\ FracBits - 1 \in Nat /\ FracBits <= CellBits - 3
  BY FloatsAssumption, CellBitsType
<1>2. PICK k \in Nat : CellBits - 1 = FracBits + k
  BY <1>1, CellBitsType
<1>3. PICK f \in Nat \ {0}, g \in Nat \ {0}, h \in Nat \ {0} :
        f = 2^FracBits /\ g = 2^k /\ h = SignBit /\ h = f * g
  <2>1. 2^(FracBits + k) = 2^FracBits * 2^k
    BY <1>1, PowerSum
  <2>2. 2^FracBits \in Nat \ {0} /\ 2^k \in Nat \ {0} /\ 2^(FracBits + k) \in Nat \ {0}
    BY <1>1, PowerType
  <2>3. SignBit = 2^(FracBits + k)
    BY <1>2 DEF SignBit
  <2> QED
    BY <2>1, <2>2, <2>3
<1>4. h >= f
  <2>1. f * g >= f * 1
    OBVIOUS
  <2> QED
    BY <1>3, <2>1
<1> QED
  BY <1>1, <1>3, <1>4, PowerType, CellBitsType DEF Infinity, SignBit

\* There is a nearest number: the least that is not below, or infinity.
LEMMA NearestType ==
  ASSUME NEW x
  PROVE  Nearest(x) \in 0..Infinity
<1> DEFINE near(b) == Below(x, Magnitude(b) + Magnitude(b + 1))
           half(b) == Exactly(x, Magnitude(b) + Magnitude(b + 1))
           R == {b \in 0..Infinity : b < Infinity => near(b) \/ (b % 2 = 0 /\ half(b))}
<1>1. Infinity \in R /\ R \in SUBSET Nat
  BY InfinityType
<1>2. PICK b \in R : \A d \in R : b <= d
  <2> HIDE DEF R
  <2> QED
    BY <1>1, LeastNatural
<1>3. b \in 0..Infinity /\ (b < Infinity => near(b) \/ (b % 2 = 0 /\ half(b)))
  OBVIOUS
<1>4. ASSUME b > 0 PROVE ~(near(b - 1) \/ (~(b % 2 = 0) /\ half(b - 1)))
  <2>1. b - 1 \in 0..Infinity /\ b - 1 < Infinity
    BY <1>3, <1>4, InfinityType
  <2>2. b - 1 \notin R
    <3> HIDE DEF R
    <3> QED
      BY <1>2, <1>3, <2>1
  <2>3. ~(near(b - 1) \/ ((b - 1) % 2 = 0 /\ half(b - 1)))
    <3> HIDE DEF near, half
    <3> QED
      BY <2>1, <2>2
  <2>4. ~(b % 2 = 0) => (b - 1) % 2 = 0
    BY <1>3
  <2> HIDE DEF near, half
  <2> QED
    BY <2>3, <2>4
<1>5. \E d \in 0..Infinity :
        /\ d < Infinity => Below(x, Magnitude(d) + Magnitude(d + 1))
                           \/ (d % 2 = 0 /\ Exactly(x, Magnitude(d) + Magnitude(d + 1)))
        /\ d > 0 => ~(Below(x, Magnitude(d - 1) + Magnitude((d - 1) + 1))
                      \/ (~(d % 2 = 0) /\ Exactly(x, Magnitude(d - 1) + Magnitude((d - 1) + 1))))
  BY <1>3, <1>4
<1> QED
  BY <1>5 DEF Nearest

LEMMA SinglesType ==
  ASSUME NEW x, NEW v \in Singles(x)
  PROVE  v \in Cell
<1>1. PICK m \in Nat, n \in Nat : m = Infinity /\ n = SignBit /\ m < n /\ 2^CellBits = 2 * n
  BY InfinityType
<1>2. PICK b \in 0..(n - 1) : v = b \/ v = n + b
  <2>1. CASE IsNaN(x)
    <3>1. PICK l \in Nat : l = Infinity + 2^(FracBits - 1)
      BY InfinityType
    <3>2. v \in (l..(n - 1)) \cup {n + b : b \in l..(n - 1)}
      <4>1. PICK bits : bits = CASE IsNaN(x) -> (Infinity + 2^(FracBits - 1))..(SignBit - 1)
                                 [] IsInf(x) -> {Infinity}
                                 [] OTHER -> {Nearest(x)}
        OBVIOUS
      <4>2. bits = l..(n - 1)
        BY <1>1, <2>1, <3>1, <4>1 DEF IsNaN, IsInf
      <4>3. v \in bits \cup {SignBit + b : b \in bits}
        BY <2>1, <4>1 DEF Singles
      <4> QED
        BY <1>1, <4>2, <4>3
    <3>3. l..(n - 1) \subseteq 0..(n - 1)
      BY <3>1
    <3> QED
      BY <3>2, <3>3
  <2>2. CASE ~IsNaN(x) /\ IsInf(x)
    <3>1. v = m \/ v = n + m
      BY <1>1, <2>2 DEF Singles
    <3> QED
      BY <1>1, <3>1
  <2>3. CASE ~IsNaN(x) /\ ~IsInf(x)
    <3>1. PICK b \in 0..m : b = Nearest(x)
      BY <1>1, NearestType
    <3>2. v = b \/ v = n + b
      BY <1>1, <2>3, <3>1 DEF Singles
    <3> QED
      BY <1>1, <3>2
  <2> QED
    BY <2>1, <2>2, <2>3
<1> QED
  BY <1>1, <1>2 DEF Cell

LEMMA FloatStored ==
  ASSUME c \in State, NEW i, NEW x, Fstp(i, x)
  PROVE  c' \in State
<1>1. PICK v \in Cell : c' = [MovTo(c.esp - 4, 4, v) EXCEPT !.eax = v]
  BY SinglesType DEF Fstp, Emit
<1>2. PICK e \in Int, a \in Int : e = c.esp - 4 /\ a = Stk - 4 /\ Wrap(e) = Wrap(Ebx + a)
  <2>1. c.esp - 4 = c.esp + (-4) /\ Stk - 4 = Stk + (-4) /\ -4 \in Int /\ c.esp - 4 \in Int /\ Stk - 4 \in Int
    BY StackAddress
  <2>2. Wrap(c.esp + (-4)) = Wrap(Ebx + (Stk + (-4)))
    BY <2>1, StackAddress
  <2> QED
    BY <2>1, <2>2
<1>3. MovTo(e, 4, v) \in State
  BY <1>2, CellType, StoredState
<1> QED
  BY <1>1, <1>2, <1>3 DEF State
-----------------------------------------------------------------------------
(* Every instruction. *)

LEMMA Executed ==
  ASSUME NEW i, Translated(i)
  PROVE  instr' = i
<1>1. CASE Load(i)
  BY <1>1 DEF Load, Emit
<1>2. CASE Lodb(i)
  BY <1>2 DEF Lodb, Emit
<1>3. CASE Const(i)
  BY <1>3 DEF Const, Emit
<1>4. CASE Addr(i)
  BY <1>4 DEF Addr, Emit
<1>5. CASE Stor(i)
  BY <1>5 DEF Stor, Emit
<1>6. CASE StorI(i)
  BY <1>6 DEF StorI, Emit
<1>7. CASE Strb(i)
  BY <1>7 DEF Strb, Emit
<1>8. CASE Lidx(i)
  BY <1>8 DEF Lidx, Emit
<1>9. CASE LidxB(i)
  BY <1>9 DEF LidxB, Emit
<1>10. CASE Idxaddr(i)
  BY <1>10 DEF Idxaddr, Emit
<1>11. CASE IdxaddrB(i)
  BY <1>11 DEF IdxaddrB, Emit
<1>12. CASE Align(i)
  BY <1>12 DEF Align, Emit
<1>13. CASE Lctrl(i)
  BY <1>13 DEF Lctrl, Emit
<1>14. CASE Sctrl(i)
  BY <1>14 DEF Sctrl, Emit
<1>15. CASE Move(i)
  BY <1>15 DEF Move, Emit
<1>16. CASE Xchg(i)
  BY <1>16 DEF Xchg, Emit
<1>17. CASE PushR(i)
  BY <1>17 DEF PushR, Emit
<1>18. CASE PushC(i)
  BY <1>18 DEF PushC, Emit
<1>19. CASE PushM(i)
  BY <1>19 DEF PushM, Emit
<1>20. CASE PushAdr(i)
  BY <1>20 DEF PushAdr, Emit
<1>21. CASE Pop(i)
  BY <1>21 DEF Pop, Emit
<1>22. CASE Swap(i)
  BY <1>22 DEF Swap, Emit
<1>23. CASE Stack(i)
  BY <1>23 DEF Stack, Emit
<1>24. CASE Heap(i)
  BY <1>24 DEF Heap, Emit
<1>25. CASE AddC(i)
  BY <1>25 DEF AddC, Emit
<1>26. CASE Shifts(i)
  BY <1>26 DEF Shifts, Emit
<1>27. CASE ShiftsC(i)
  BY <1>27 DEF ShiftsC, Emit
<1>28. CASE Smul(i)
  BY <1>28 DEF Smul, Emit
<1>29. CASE Umul(i)
  BY <1>29 DEF Umul, Emit
<1>30. CASE SmulC(i)
  BY <1>30 DEF SmulC, Emit
<1>31. CASE Sdiv(i)
  BY <1>31 DEF Sdiv, Emit
<1>32. CASE SdivAlt(i)
  BY <1>32 DEF SdivAlt, Emit
<1>33. CASE Udiv(i)
  BY <1>33 DEF Udiv, Emit
<1>34. CASE UdivAlt(i)
  BY <1>34 DEF UdivAlt, Emit
<1>35. CASE Add(i)
  BY <1>35 DEF Add, Emit
<1>36. CASE Sub(i)
  BY <1>36 DEF Sub, Emit
<1>37. CASE SubAlt(i)
  BY <1>37 DEF SubAlt, Emit
<1>38. CASE Logic(i)
  BY <1>38 DEF Logic, Emit
<1>39. CASE Not_(i)
  BY <1>39 DEF Not_, Emit
<1>40. CASE Neg(i)
  BY <1>40 DEF Neg, Emit
<1>41. CASE Invert(i)
  BY <1>41 DEF Invert, Emit
<1>42. CASE Sign(i)
  BY <1>42 DEF Sign, Emit
<1>43. CASE ZeroR(i)
  BY <1>43 DEF ZeroR, Emit
<1>44. CASE IncR(i)
  BY <1>44 DEF IncR, Emit
<1>45. CASE DecR(i)
  BY <1>45 DEF DecR, Emit
<1>46. CASE Zero(i)
  BY <1>46 DEF Zero, Emit
<1>47. CASE Inc(i)
  BY <1>47 DEF Inc, Emit
<1>48. CASE Dec(i)
  BY <1>48 DEF Dec, Emit
<1>49. CASE Compare(i)
  BY <1>49 DEF Compare, Emit
<1>50. CASE EqC(i)
  BY <1>50 DEF EqC, Emit
<1>51. CASE Jump(i)
  BY <1>51 DEF Jump, Emit
<1>52. CASE Jzer(i)
  BY <1>52 DEF Jzer, Emit
<1>53. CASE Jnz(i)
  BY <1>53 DEF Jnz, Emit
<1>54. CASE Bounds(i)
  BY <1>54 DEF Bounds, Emit
<1>55. CASE Movs(i)
  BY <1>55 DEF Movs, Emit
<1>56. CASE Cmps(i)
  BY <1>56 DEF Cmps, Emit
<1>57. CASE Fill(i)
  BY <1>57 DEF Fill, Emit
<1>58. CASE Clamp(i)
  BY <1>58 DEF Clamp, Emit
<1>59. CASE Heapspace(i)
  BY <1>59 DEF Heapspace, Emit
<1>60. CASE Numargs(i)
  BY <1>60 DEF Numargs, Emit
<1>61. CASE Min_(i)
  BY <1>61 DEF Min_, Emit
<1>62. CASE Max_(i)
  BY <1>62 DEF Max_, Emit
<1>63. CASE Swapchars(i)
  BY <1>63 DEF Swapchars, Emit
<1>64. CASE Float_(i)
  BY <1>64 DEF Float_, Fstp, Emit
<1>65. CASE Floatabs(i)
  BY <1>65 DEF Floatabs, Fstp, Emit
<1>66. CASE Floatadd(i)
  BY <1>66 DEF Floatadd, Fstp, Emit
<1>67. CASE Floatsub(i)
  BY <1>67 DEF Floatsub, Fstp, Emit
<1>68. CASE Floatmul(i)
  BY <1>68 DEF Floatmul, Fstp, Emit
<1>69. CASE Floatdiv(i)
  BY <1>69 DEF Floatdiv, Fstp, Emit
<1>70. CASE Floatsqroot(i)
  BY <1>70 DEF Floatsqroot, Fstp, Emit
<1>71. CASE Floatcmp(i)
  BY <1>71 DEF Floatcmp, Emit
<1> QED
  BY <1>1, <1>2, <1>3, <1>4, <1>5, <1>6, <1>7, <1>8, <1>9, <1>10, <1>11, <1>12, <1>13, <1>14, <1>15,
     <1>16, <1>17, <1>18, <1>19, <1>20, <1>21, <1>22, <1>23, <1>24, <1>25, <1>26, <1>27, <1>28,
     <1>29, <1>30, <1>31, <1>32, <1>33, <1>34, <1>35, <1>36, <1>37, <1>38, <1>39, <1>40, <1>41,
     <1>42, <1>43, <1>44, <1>45, <1>46, <1>47, <1>48, <1>49, <1>50, <1>51, <1>52, <1>53, <1>54,
     <1>55, <1>56, <1>57, <1>58, <1>59, <1>60, <1>61, <1>62, <1>63, <1>64, <1>65, <1>66, <1>67,
     <1>68, <1>69, <1>70, <1>71 DEF Translated

LEMMA OnlySdiv ==
  ASSUME NEW i, Translated(i), i.op = "SDIV"
  PROVE  Sdiv(i)
<1>1. CASE Load(i)
  BY <1>1 DEF Load, Is
<1>2. CASE Lodb(i)
  BY <1>2 DEF Lodb, Is
<1>3. CASE Const(i)
  BY <1>3 DEF Const, Is
<1>4. CASE Addr(i)
  BY <1>4 DEF Addr, Is
<1>5. CASE Stor(i)
  BY <1>5 DEF Stor, Is
<1>6. CASE StorI(i)
  BY <1>6 DEF StorI, Is
<1>7. CASE Strb(i)
  BY <1>7 DEF Strb, Is
<1>8. CASE Lidx(i)
  BY <1>8 DEF Lidx, Is
<1>9. CASE LidxB(i)
  BY <1>9 DEF LidxB, Is
<1>10. CASE Idxaddr(i)
  BY <1>10 DEF Idxaddr, Is
<1>11. CASE IdxaddrB(i)
  BY <1>11 DEF IdxaddrB, Is
<1>12. CASE Align(i)
  BY <1>12 DEF Align, Is
<1>13. CASE Lctrl(i)
  BY <1>13 DEF Lctrl, Is
<1>14. CASE Sctrl(i)
  BY <1>14 DEF Sctrl, Is
<1>15. CASE Move(i)
  BY <1>15 DEF Move, Is
<1>16. CASE Xchg(i)
  BY <1>16 DEF Xchg, Is
<1>17. CASE PushR(i)
  BY <1>17 DEF PushR, Is
<1>18. CASE PushC(i)
  BY <1>18 DEF PushC, Is
<1>19. CASE PushM(i)
  BY <1>19 DEF PushM, Is
<1>20. CASE PushAdr(i)
  BY <1>20 DEF PushAdr, Is
<1>21. CASE Pop(i)
  BY <1>21 DEF Pop, Is
<1>22. CASE Swap(i)
  BY <1>22 DEF Swap, Is
<1>23. CASE Stack(i)
  BY <1>23 DEF Stack, Is
<1>24. CASE Heap(i)
  BY <1>24 DEF Heap, Is
<1>25. CASE AddC(i)
  BY <1>25 DEF AddC, Is
<1>26. CASE Shifts(i)
  BY <1>26 DEF Shifts, Is
<1>27. CASE ShiftsC(i)
  BY <1>27 DEF ShiftsC, Is
<1>28. CASE Smul(i)
  BY <1>28 DEF Smul, Is
<1>29. CASE Umul(i)
  BY <1>29 DEF Umul, Is
<1>30. CASE SmulC(i)
  BY <1>30 DEF SmulC, Is
<1>31. CASE Sdiv(i)
  BY <1>31
<1>32. CASE SdivAlt(i)
  BY <1>32 DEF SdivAlt, Is
<1>33. CASE Udiv(i)
  BY <1>33 DEF Udiv, Is
<1>34. CASE UdivAlt(i)
  BY <1>34 DEF UdivAlt, Is
<1>35. CASE Add(i)
  BY <1>35 DEF Add, Is
<1>36. CASE Sub(i)
  BY <1>36 DEF Sub, Is
<1>37. CASE SubAlt(i)
  BY <1>37 DEF SubAlt, Is
<1>38. CASE Logic(i)
  BY <1>38 DEF Logic, Is
<1>39. CASE Not_(i)
  BY <1>39 DEF Not_, Is
<1>40. CASE Neg(i)
  BY <1>40 DEF Neg, Is
<1>41. CASE Invert(i)
  BY <1>41 DEF Invert, Is
<1>42. CASE Sign(i)
  BY <1>42 DEF Sign, Is
<1>43. CASE ZeroR(i)
  BY <1>43 DEF ZeroR, Is
<1>44. CASE IncR(i)
  BY <1>44 DEF IncR, Is
<1>45. CASE DecR(i)
  BY <1>45 DEF DecR, Is
<1>46. CASE Zero(i)
  BY <1>46 DEF Zero, Is
<1>47. CASE Inc(i)
  BY <1>47 DEF Inc, Is
<1>48. CASE Dec(i)
  BY <1>48 DEF Dec, Is
<1>49. CASE Compare(i)
  BY <1>49 DEF Compare, Is, Codes
<1>50. CASE EqC(i)
  BY <1>50 DEF EqC, Is
<1>51. CASE Jump(i)
  BY <1>51 DEF Jump, Is
<1>52. CASE Jzer(i)
  BY <1>52 DEF Jzer, Is
<1>53. CASE Jnz(i)
  BY <1>53 DEF Jnz, Is
<1>54. CASE Bounds(i)
  BY <1>54 DEF Bounds, Is
<1>55. CASE Movs(i)
  BY <1>55 DEF Movs, Is
<1>56. CASE Cmps(i)
  BY <1>56 DEF Cmps, Is
<1>57. CASE Fill(i)
  BY <1>57 DEF Fill, Is
<1>58. CASE Clamp(i)
  BY <1>58 DEF Clamp, Is
<1>59. CASE Heapspace(i)
  BY <1>59 DEF Heapspace, Is
<1>60. CASE Numargs(i)
  BY <1>60 DEF Numargs, Is
<1>61. CASE Min_(i)
  BY <1>61 DEF Min_, Is
<1>62. CASE Max_(i)
  BY <1>62 DEF Max_, Is
<1>63. CASE Swapchars(i)
  BY <1>63 DEF Swapchars, Is
<1>64. CASE Float_(i)
  BY <1>64 DEF Float_, Is
<1>65. CASE Floatabs(i)
  BY <1>65 DEF Floatabs, Is
<1>66. CASE Floatadd(i)
  BY <1>66 DEF Floatadd, Is
<1>67. CASE Floatsub(i)
  BY <1>67 DEF Floatsub, Is
<1>68. CASE Floatmul(i)
  BY <1>68 DEF Floatmul, Is
<1>69. CASE Floatdiv(i)
  BY <1>69 DEF Floatdiv, Is
<1>70. CASE Floatsqroot(i)
  BY <1>70 DEF Floatsqroot, Is
<1>71. CASE Floatcmp(i)
  BY <1>71 DEF Floatcmp, Is
<1> QED
  BY <1>1, <1>2, <1>3, <1>4, <1>5, <1>6, <1>7, <1>8, <1>9, <1>10, <1>11, <1>12, <1>13, <1>14, <1>15,
     <1>16, <1>17, <1>18, <1>19, <1>20, <1>21, <1>22, <1>23, <1>24, <1>25, <1>26, <1>27, <1>28,
     <1>29, <1>30, <1>31, <1>32, <1>33, <1>34, <1>35, <1>36, <1>37, <1>38, <1>39, <1>40, <1>41,
     <1>42, <1>43, <1>44, <1>45, <1>46, <1>47, <1>48, <1>49, <1>50, <1>51, <1>52, <1>53, <1>54,
     <1>55, <1>56, <1>57, <1>58, <1>59, <1>60, <1>61, <1>62, <1>63, <1>64, <1>65, <1>66, <1>67,
     <1>68, <1>69, <1>70, <1>71 DEF Translated

LEMMA StepType ==
  ASSUME c \in State, Hea + 4 <= Stk, NEW i \in Instructions, Allowed(i), Translated(i)
  PROVE  c' \in State
<1>1. CASE Load(i)
  BY <1>1, LoadSame
<1>2. CASE Lodb(i)
  BY <1>2, LodbSame
<1>3. CASE Const(i)
  BY <1>3, ConstSame
<1>4. CASE Addr(i)
  BY <1>4, AddrSame
<1>5. CASE Stor(i)
  BY <1>5, StorSame
<1>6. CASE StorI(i)
  BY <1>6, StorISame
<1>7. CASE Strb(i)
  BY <1>7, StrbSame
<1>8. CASE Lidx(i)
  BY <1>8, LidxSame
<1>9. CASE LidxB(i)
  BY <1>9, LidxBSame
<1>10. CASE Idxaddr(i)
  BY <1>10, IdxaddrSame
<1>11. CASE IdxaddrB(i)
  BY <1>11, IdxaddrBSame
<1>12. CASE Align(i)
  BY <1>12, AlignSame
<1>13. CASE Lctrl(i)
  BY <1>13, LctrlSame
<1>14. CASE Sctrl(i)
  BY <1>14, SctrlSame
<1>15. CASE Move(i)
  BY <1>15, MoveSame
<1>16. CASE Xchg(i)
  BY <1>16, XchgSame
<1>17. CASE PushR(i)
  BY <1>17, PushRSame
<1>18. CASE PushC(i)
  BY <1>18, PushCSame
<1>19. CASE PushM(i)
  BY <1>19, PushMSame
<1>20. CASE PushAdr(i)
  BY <1>20, PushAdrSame
<1>21. CASE Pop(i)
  BY <1>21, PopSame
<1>22. CASE Swap(i)
  BY <1>22, SwapSame
<1>23. CASE Stack(i)
  BY <1>23, StackSame
<1>24. CASE Heap(i)
  BY <1>24, HeapSame
<1>25. CASE AddC(i)
  BY <1>25, AddCSame
<1>26. CASE Shifts(i)
  BY <1>26, ShiftsSame
<1>27. CASE ShiftsC(i)
  BY <1>27, ShiftsCSame
<1>28. CASE Smul(i)
  BY <1>28, SmulSame
<1>29. CASE Umul(i)
  BY <1>29, UmulSame
<1>30. CASE SmulC(i)
  BY <1>30, SmulCSame
<1>31. CASE Sdiv(i)
  <2>1. c.ecx # 0 /\ c' = SdivCode(c.eax, c.ecx)
    BY <1>31 DEF Sdiv, Is, Emit, Allowed, Divides
  <2> QED
    BY <2>1, Fields, SdivType
<1>32. CASE SdivAlt(i)
  <2>1. c.eax # 0 /\ c' = SdivCode(c.ecx, c.eax)
    BY <1>32 DEF SdivAlt, Is, Emit, Allowed, Divides
  <2> QED
    BY <2>1, Fields, SdivType
<1>33. CASE Udiv(i)
  BY <1>33, UdivSame
<1>34. CASE UdivAlt(i)
  BY <1>34, UdivAltSame
<1>35. CASE Add(i)
  BY <1>35, AddSame
<1>36. CASE Sub(i)
  BY <1>36, SubSame
<1>37. CASE SubAlt(i)
  BY <1>37, SubAltSame
<1>38. CASE Logic(i)
  BY <1>38, LogicSame
<1>39. CASE Not_(i)
  BY <1>39, NotSame
<1>40. CASE Neg(i)
  BY <1>40, NegSame
<1>41. CASE Invert(i)
  BY <1>41, InvertSame
<1>42. CASE Sign(i)
  BY <1>42, SignSame
<1>43. CASE ZeroR(i)
  BY <1>43, ZeroRSame
<1>44. CASE IncR(i)
  BY <1>44, IncRSame
<1>45. CASE DecR(i)
  BY <1>45, DecRSame
<1>46. CASE Zero(i)
  BY <1>46, ZeroSame
<1>47. CASE Inc(i)
  BY <1>47, IncSame
<1>48. CASE Dec(i)
  BY <1>48, DecSame
<1>49. CASE Compare(i)
  BY <1>49, CompareSame
<1>50. CASE EqC(i)
  BY <1>50, EqCSame
<1>51. CASE Jump(i)
  BY <1>51, JumpSame
<1>52. CASE Jzer(i)
  BY <1>52, JzerSame
<1>53. CASE Jnz(i)
  BY <1>53, JnzSame
<1>54. CASE Bounds(i)
  BY <1>54, BoundsSame
<1>55. CASE Movs(i)
  BY <1>55, MovsClose
<1>56. CASE Cmps(i)
  BY <1>56, CmpsClose
<1>57. CASE Fill(i)
  BY <1>57, FillClose
<1>58. CASE Clamp(i)
  BY <1>58, ClampSame
<1>59. CASE Heapspace(i)
  BY <1>59, HeapspaceSame
<1>60. CASE Numargs(i)
  BY <1>60, NumargsSame
<1>61. CASE Min_(i)
  BY <1>61, MinSame
<1>62. CASE Max_(i)
  BY <1>62, MaxSame
<1>63. CASE Swapchars(i)
  BY <1>63, SwapcharsSame
<1>64. CASE Float_(i)
  BY <1>64, FloatStored DEF Float_
<1>65. CASE Floatabs(i)
  BY <1>65, FloatStored DEF Floatabs
<1>66. CASE Floatadd(i)
  BY <1>66, FloatStored DEF Floatadd
<1>67. CASE Floatsub(i)
  BY <1>67, FloatStored DEF Floatsub
<1>68. CASE Floatmul(i)
  BY <1>68, FloatStored DEF Floatmul
<1>69. CASE Floatdiv(i)
  BY <1>69, FloatStored DEF Floatdiv
<1>70. CASE Floatsqroot(i)
  BY <1>70, FloatStored DEF Floatsqroot
<1>71. CASE Floatcmp(i)
  BY <1>71, FloatcmpSame
<1> QED
  BY <1>1, <1>2, <1>3, <1>4, <1>5, <1>6, <1>7, <1>8, <1>9, <1>10, <1>11, <1>12, <1>13, <1>14, <1>15,
     <1>16, <1>17, <1>18, <1>19, <1>20, <1>21, <1>22, <1>23, <1>24, <1>25, <1>26, <1>27, <1>28,
     <1>29, <1>30, <1>31, <1>32, <1>33, <1>34, <1>35, <1>36, <1>37, <1>38, <1>39, <1>40, <1>41,
     <1>42, <1>43, <1>44, <1>45, <1>46, <1>47, <1>48, <1>49, <1>50, <1>51, <1>52, <1>53, <1>54,
     <1>55, <1>56, <1>57, <1>58, <1>59, <1>60, <1>61, <1>62, <1>63, <1>64, <1>65, <1>66, <1>67,
     <1>68, <1>69, <1>70, <1>71 DEF Translated

LEMMA StepMeaning ==
  ASSUME c \in State, Hea + 4 <= Stk, ~WideDivision, NEW i \in Instructions,
         i.op \notin Machine!FloatFunctions, Allowed(i), Translated(i)
  PROVE  View(c') = Machine!Meaning(i) \/ Close(Machine!Meaning(i))
<1>1. CASE Load(i)
  BY <1>1, LoadSame
<1>2. CASE Lodb(i)
  BY <1>2, LodbSame
<1>3. CASE Const(i)
  BY <1>3, ConstSame
<1>4. CASE Addr(i)
  BY <1>4, AddrSame
<1>5. CASE Stor(i)
  BY <1>5, StorSame
<1>6. CASE StorI(i)
  BY <1>6, StorISame
<1>7. CASE Strb(i)
  BY <1>7, StrbSame
<1>8. CASE Lidx(i)
  BY <1>8, LidxSame
<1>9. CASE LidxB(i)
  BY <1>9, LidxBSame
<1>10. CASE Idxaddr(i)
  BY <1>10, IdxaddrSame
<1>11. CASE IdxaddrB(i)
  BY <1>11, IdxaddrBSame
<1>12. CASE Align(i)
  BY <1>12, AlignSame
<1>13. CASE Lctrl(i)
  BY <1>13, LctrlSame
<1>14. CASE Sctrl(i)
  BY <1>14, SctrlSame
<1>15. CASE Move(i)
  BY <1>15, MoveSame
<1>16. CASE Xchg(i)
  BY <1>16, XchgSame
<1>17. CASE PushR(i)
  BY <1>17, PushRSame
<1>18. CASE PushC(i)
  BY <1>18, PushCSame
<1>19. CASE PushM(i)
  BY <1>19, PushMSame
<1>20. CASE PushAdr(i)
  BY <1>20, PushAdrSame
<1>21. CASE Pop(i)
  BY <1>21, PopSame
<1>22. CASE Swap(i)
  BY <1>22, SwapSame
<1>23. CASE Stack(i)
  BY <1>23, StackSame
<1>24. CASE Heap(i)
  BY <1>24, HeapSame
<1>25. CASE AddC(i)
  BY <1>25, AddCSame
<1>26. CASE Shifts(i)
  BY <1>26, ShiftsSame
<1>27. CASE ShiftsC(i)
  BY <1>27, ShiftsCSame
<1>28. CASE Smul(i)
  BY <1>28, SmulSame
<1>29. CASE Umul(i)
  BY <1>29, UmulSame
<1>30. CASE SmulC(i)
  BY <1>30, SmulCSame
<1>31. CASE Sdiv(i)
  BY <1>31, SdivSame
<1>32. CASE SdivAlt(i)
  BY <1>32, SdivAltSame
<1>33. CASE Udiv(i)
  BY <1>33, UdivSame
<1>34. CASE UdivAlt(i)
  BY <1>34, UdivAltSame
<1>35. CASE Add(i)
  BY <1>35, AddSame
<1>36. CASE Sub(i)
  BY <1>36, SubSame
<1>37. CASE SubAlt(i)
  BY <1>37, SubAltSame
<1>38. CASE Logic(i)
  BY <1>38, LogicSame
<1>39. CASE Not_(i)
  BY <1>39, NotSame
<1>40. CASE Neg(i)
  BY <1>40, NegSame
<1>41. CASE Invert(i)
  BY <1>41, InvertSame
<1>42. CASE Sign(i)
  BY <1>42, SignSame
<1>43. CASE ZeroR(i)
  BY <1>43, ZeroRSame
<1>44. CASE IncR(i)
  BY <1>44, IncRSame
<1>45. CASE DecR(i)
  BY <1>45, DecRSame
<1>46. CASE Zero(i)
  BY <1>46, ZeroSame
<1>47. CASE Inc(i)
  BY <1>47, IncSame
<1>48. CASE Dec(i)
  BY <1>48, DecSame
<1>49. CASE Compare(i)
  BY <1>49, CompareSame
<1>50. CASE EqC(i)
  BY <1>50, EqCSame
<1>51. CASE Jump(i)
  BY <1>51, JumpSame
<1>52. CASE Jzer(i)
  BY <1>52, JzerSame
<1>53. CASE Jnz(i)
  BY <1>53, JnzSame
<1>54. CASE Bounds(i)
  BY <1>54, BoundsSame
<1>55. CASE Movs(i)
  BY <1>55, MovsClose
<1>56. CASE Cmps(i)
  BY <1>56, CmpsClose
<1>57. CASE Fill(i)
  BY <1>57, FillClose
<1>58. CASE Clamp(i)
  BY <1>58, ClampSame
<1>59. CASE Heapspace(i)
  BY <1>59, HeapspaceSame
<1>60. CASE Numargs(i)
  BY <1>60, NumargsSame
<1>61. CASE Min_(i)
  BY <1>61, MinSame
<1>62. CASE Max_(i)
  BY <1>62, MaxSame
<1>63. CASE Swapchars(i)
  BY <1>63, SwapcharsSame
<1>64. CASE Float_(i)
  BY <1>64 DEF Float_, Is, Machine!FloatFunctions
<1>65. CASE Floatabs(i)
  BY <1>65 DEF Floatabs, Is, Machine!FloatFunctions
<1>66. CASE Floatadd(i)
  BY <1>66 DEF Floatadd, Is, Machine!FloatFunctions
<1>67. CASE Floatsub(i)
  BY <1>67 DEF Floatsub, Is, Machine!FloatFunctions
<1>68. CASE Floatmul(i)
  BY <1>68 DEF Floatmul, Is, Machine!FloatFunctions
<1>69. CASE Floatdiv(i)
  BY <1>69 DEF Floatdiv, Is, Machine!FloatFunctions
<1>70. CASE Floatsqroot(i)
  BY <1>70 DEF Floatsqroot, Is, Machine!FloatFunctions
<1>71. CASE Floatcmp(i)
  BY <1>71, FloatcmpSame
<1> QED
  BY <1>1, <1>2, <1>3, <1>4, <1>5, <1>6, <1>7, <1>8, <1>9, <1>10, <1>11, <1>12, <1>13, <1>14, <1>15,
     <1>16, <1>17, <1>18, <1>19, <1>20, <1>21, <1>22, <1>23, <1>24, <1>25, <1>26, <1>27, <1>28,
     <1>29, <1>30, <1>31, <1>32, <1>33, <1>34, <1>35, <1>36, <1>37, <1>38, <1>39, <1>40, <1>41,
     <1>42, <1>43, <1>44, <1>45, <1>46, <1>47, <1>48, <1>49, <1>50, <1>51, <1>52, <1>53, <1>54,
     <1>55, <1>56, <1>57, <1>58, <1>59, <1>60, <1>61, <1>62, <1>63, <1>64, <1>65, <1>66, <1>67,
     <1>68, <1>69, <1>70, <1>71 DEF Translated
-----------------------------------------------------------------------------
(* The theorems. *)

\* Only a start is followed by an instruction.
Inv ==
  /\ c \in State /\ instr \in Instructions \cup {None}
  /\ instr = None => c \in Starts

LEMMA StartRoom ==
  ASSUME Inv, instr = None
  PROVE  c \in State /\ Hea + 4 <= Stk
BY OpcodesAssumption DEF Inv, Hea, Stk

LEMMA InvInit ==
  Init => Inv
BY OpcodesAssumption DEF Init, Inv, State

LEMMA InvNext ==
  Inv /\ [Next]_vars => Inv'
<1> SUFFICES ASSUME Inv, [Next]_vars PROVE Inv'
  OBVIOUS
<1>1. CASE UNCHANGED vars
  BY <1>1 DEF Inv, vars
<1>2. ASSUME NEW i \in Instructions, instr = None, Allowed(i), Translated(i) PROVE Inv'
  <2>1. c' \in State
    BY <1>2, StartRoom, StepType
  <2>2. instr' = i /\ i # None
    BY <1>2, Executed, OpcodesAssumption
  <2> QED
    BY <2>1, <2>2 DEF Inv
<1> QED
  BY <1>1, <1>2 DEF Next, Stop

\* Whatever is executed, registers hold cells, memory holds bytes, and a script
\* goes on at the next instruction, at the operand of a jump, or ends.
THEOREM Types == Spec => []TypeOK
<1>1. Inv => TypeOK
  BY DEF Inv, TypeOK, State
<1> QED
  BY <1>1, InvInit, InvNext, PTL DEF Spec

\* The machine code that the JIT compiler emits for an instruction (and for the
\* natives compiled in line, except the seven that return a floating-point
\* number) computes what the definition of the instruction says: for every
\* width of bytes, place of the data section, well-formed instructions and start.
\* Signed divisions are those whose remainder + divisor does not overflow (SumFits).
THEOREM SameComputation ==
  ASSUME ~WideDivision, \A i \in Instructions : i.op \notin Machine!FloatFunctions
  PROVE  Spec => ComputesSame
<1>1. Init => Machine!Init
  BY OpcodesAssumption DEF Init, Machine!Init, View
<1>2. Inv /\ [Next]_vars => [Machine!Next]_<<View(c), instr>>
  <2> SUFFICES ASSUME Inv, [Next]_vars PROVE [Machine!Next]_<<View(c), instr>>
    OBVIOUS
  <2>1. CASE UNCHANGED vars
    BY <2>1 DEF vars, View
  <2>2. ASSUME NEW i \in Instructions, instr = None, Allowed(i), Translated(i) PROVE Machine!Next
    <3>1. instr' = i /\ i.op \notin Machine!FloatFunctions
      BY <2>2, Executed
    <3>2. View(c') = Machine!Meaning(i) \/ Close(Machine!Meaning(i))
      BY <2>2, <3>1, StartRoom, StepMeaning
    <3> QED
      BY <2>2, <3>1, <3>2, StepSame, StepClose
  <2> QED
    BY <2>1, <2>2 DEF Next, Stop
<1> QED
  BY <1>1, <1>2, InvInit, InvNext, PTL DEF Spec, ComputesSame, Machine!Spec

\* ALT after SDIV is the remainder that the comment of SDIV promises, for
\* operands with which adding the divisor to a remainder does not overflow.
THEOREM Remainders == ASSUME ~WideDivision PROVE Spec => RemainderOK
<1> DEFINE A == instr'.op = "SDIV" =>
                  LET a == Signed(c.eax)  b == Signed(c.ecx)  r == Signed(c'.ecx)
                  IN Abs(r) < Abs(b) /\ Abs(a - r) % Abs(b) = 0
<1>1. Inv /\ [Next]_vars => [A]_vars
  <2> SUFFICES ASSUME Inv, Next, ~(UNCHANGED vars), instr'.op = "SDIV" PROVE A
    OBVIOUS
  <2>1. PICK i \in Instructions : instr = None /\ Allowed(i) /\ Translated(i)
    BY DEF Next, Stop
  <2>2. i.op = "SDIV"
    BY <2>1, Executed
  <2>3. Sdiv(i)
    BY <2>1, <2>2, OnlySdiv
  <2>4. Divides(c.eax, c.ecx) /\ c' = SdivCode(c.eax, c.ecx)
    BY <2>1, <2>2, <2>3 DEF Allowed, Sdiv, Emit
  <2> QED
    BY <2>1, <2>4, StartRoom, SdivRemainder
<1> HIDE DEF A
<1>2. Spec => [][A]_vars
  BY <1>1, InvInit, InvNext, PTL DEF Spec
<1> QED
  BY <1>2 DEF A, RemainderOK
==============================================================================
