-------------------------- MODULE AMXInstructions ---------------------------
(***************************************************************************)
(* What the instructions of the abstract machine do to its registers and   *)
(* data, by the definitions that the comments of compiler_impl.cpp quote   *)
(* and the tests use.  Control flow between instructions is in ScriptFlow. *)
(*                                                                         *)
(* An instruction is a record: op, the register r it has in its name, how  *)
(* it addresses memory (m: "DATA", "S", "REF", "REF.S" or "I"), operand n. *)
(***************************************************************************)
EXTENDS Floats

CONSTANTS Instructions, None

VARIABLES
  s,       \* [pri, alt, frm, stk, hea, mem, out]
  instr    \* the instruction that has been executed

At(a) == Peek(s.mem, a, 4)

\* Between heap and stack nothing is kept.
Dead(t) == {a \in Cell : t.hea <= a /\ a < t.stk}

Address(i) ==
  CASE i.m = "DATA" -> i.n
    [] i.m = "S" -> Wrap(s.frm + i.n)
    [] i.m = "REF" -> At(i.n)
    [] i.m = "REF.S" -> At(Wrap(s.frm + i.n))
    [] i.m = "I" -> s.pri

Registers == {"pri", "alt"}
Truth(b) == IF b THEN 1 ELSE 0
Set(r, v) == [s EXCEPT ![r] = Wrap(v)]
Stored(a, n, v) == [s EXCEPT !.mem = Poke(@, a, n, v)]
Pushed(v) == [s EXCEPT !.stk = Wrap(@ - 4), !.mem = Poke(@, Wrap(s.stk - 4), 4, v)]

\* Parameter k of a native function.
Param(k) == At(Wrap(s.stk + 4 * k))

Comparison(rel, a, b) ==
  LET x == Signed(a)  y == Signed(b)
  IN CASE rel = "EQ" -> a = b    [] rel = "NEQ" -> a # b
       [] rel = "LESS" -> a < b  [] rel = "LEQ" -> a <= b
       [] rel = "GRTR" -> a > b  [] rel = "GEQ" -> a >= b
       [] rel = "SLESS" -> x < y [] rel = "SLEQ" -> x <= y
       [] rel = "SGRTR" -> x > y [] rel = "SGEQ" -> x >= y
Relations == {"EQ", "NEQ", "LESS", "LEQ", "GRTR", "GEQ", "SLESS", "SLEQ", "SGRTR", "SGEQ"}

\* The remainder has the sign of the divisor (tests/bug42.pwn).
Mod(a, b) == IF b > 0 THEN a % b ELSE -((-a) % (-b))
SignedDivision(a, b) ==
  [s EXCEPT !.pri = Wrap(Trunc(Signed(a), Signed(b))), !.alt = Wrap(Mod(Signed(a), Signed(b)))]
UnsignedDivision(a, b) == [s EXCEPT !.pri = a \div b, !.alt = a % b]

\* Comparison of two blocks, of which the one at ALT counts as the left one.
Blocks(n) ==
  LET differ == {k \in 0..(n - 1) : s.mem[Wrap(s.alt + k)] # s.mem[Wrap(s.pri + k)]}
      first == CHOOSE k \in differ : \A j \in differ : k <= j
  IN IF differ = {} THEN 0
     ELSE IF s.mem[Wrap(s.alt + first)] > s.mem[Wrap(s.pri + first)] THEN 1 ELSE -1

\* Parameter k, a floating-point number.
FloatParam(k) == Value(Param(k))

\* Native functions of floating-point numbers: their exact results.
FloatResult(i) ==
  CASE i.op = "float" -> Whole(Signed(Param(1)))
    [] i.op = "floatabs" -> Absolute(FloatParam(1))
    [] i.op = "floatadd" -> Plus(FloatParam(1), FloatParam(2))
    [] i.op = "floatsub" -> Minus(FloatParam(1), FloatParam(2))
    [] i.op = "floatmul" -> Times(FloatParam(1), FloatParam(2))
    [] i.op = "floatdiv" -> Over(FloatParam(1), FloatParam(2))
    [] i.op = "floatsqroot" -> Root(FloatParam(1))
FloatFunctions ==
  {"float", "floatabs", "floatadd", "floatsub", "floatmul", "floatdiv", "floatsqroot"}

\* Unordered counts as less (tests/floatcmp.pwn).
FloatComparison(x, y) ==
  CASE Ordering(x, y) \in {"less", "unordered"} -> -1
    [] Ordering(x, y) = "equal" -> 0
    [] Ordering(x, y) = "greater" -> 1

\* Where to go on: "next", at the operand of a jump, or out of the script.
Control(i) ==
  [s EXCEPT !.out =
     CASE i.op = "BOUNDS" -> IF Signed(s.pri) > i.n \/ Signed(s.pri) < 0 THEN "BOUNDS" ELSE "next"
       [] i.op = "JZER" -> IF s.pri = 0 THEN "jump" ELSE "next"
       [] i.op = "JNZ" -> IF s.pri # 0 THEN "jump" ELSE "next"
       [] i.op = "J" -> IF Comparison(i.m, s.pri, s.alt) THEN "jump" ELSE "next"]
\* Arithmetic, and the native functions that are compiled in line.
Computes(i) ==
  CASE i.op = "SHL" -> Set("pri", s.pri * 2^s.alt)
    [] i.op = "SHR" -> Set("pri", s.pri \div 2^s.alt)
    [] i.op = "SSHR" -> Set("pri", Signed(s.pri) \div 2^s.alt)
    [] i.op = "SHL.C" -> Set(i.r, s[i.r] * 2^i.n)
    [] i.op = "SHR.C" -> Set(i.r, s[i.r] \div 2^i.n)
    [] i.op = "SMUL" -> Set("pri", Signed(s.pri) * Signed(s.alt))
    [] i.op = "UMUL" -> Set("pri", s.pri * s.alt)
    [] i.op = "SMUL.C" -> Set("pri", Signed(s.pri) * Signed(i.n))
    [] i.op = "SDIV" -> SignedDivision(s.pri, s.alt)
    [] i.op = "SDIV.ALT" -> SignedDivision(s.alt, s.pri)
    [] i.op = "UDIV" -> UnsignedDivision(s.pri, s.alt)
    [] i.op = "UDIV.ALT" -> UnsignedDivision(s.alt, s.pri)
    [] i.op = "ADD" -> Set("pri", s.pri + s.alt)
    [] i.op = "SUB" -> Set("pri", s.pri - s.alt)
    [] i.op = "SUB.ALT" -> Set("pri", s.alt - s.pri)
    [] i.op = "AND" -> Set("pri", And(s.pri, s.alt))
    [] i.op = "OR" -> Set("pri", Or(s.pri, s.alt))
    [] i.op = "XOR" -> Set("pri", Xor(s.pri, s.alt))
    [] i.op = "NOT" -> Set("pri", Truth(s.pri = 0))
    [] i.op = "NEG" -> Set("pri", -Signed(s.pri))
    [] i.op = "INVERT" -> Set("pri", -1 - s.pri)
    [] i.op = "ADD.C" -> Set("pri", s.pri + i.n)
    [] i.op = "ZERO.R" -> Set(i.r, 0)
    [] i.op = "SIGN" -> Set(i.r, IF ByteOf(s[i.r], 0) < 2^(ByteBits - 1) THEN ByteOf(s[i.r], 0)
                                 ELSE ByteOf(s[i.r], 0) - 2^ByteBits)
    [] i.op \in Relations -> Set("pri", Truth(Comparison(i.op, s.pri, s.alt)))
    [] i.op = "EQ.C" -> Set("pri", Truth(s[i.r] = i.n))
    [] i.op = "INC.R" -> Set(i.r, s[i.r] + 1)
    [] i.op = "DEC.R" -> Set(i.r, s[i.r] - 1)
    [] i.op = "clamp" -> Set("pri", LET v == Param(1) low == Param(2) high == Param(3)
                                    IN IF Signed(v) <= Signed(low) THEN low
                                       ELSE IF Signed(v) >= Signed(high) THEN high ELSE v)
    [] i.op = "heapspace" -> Set("pri", s.stk - s.hea)
    [] i.op = "numargs" -> Set("pri", At(Wrap(s.frm + 8)) \div 4)
    [] i.op = "min" -> Set("pri", IF Comparison("SLEQ", Param(1), Param(2)) THEN Param(1) ELSE Param(2))
    [] i.op = "max" -> Set("pri", IF Comparison("SGEQ", Param(1), Param(2)) THEN Param(1) ELSE Param(2))
    [] i.op = "floatcmp" -> Set("pri", FloatComparison(FloatParam(1), FloatParam(2)))
    [] i.op = "swapchars" -> Set("pri", Peek([k \in Cell |-> ByteOf(Param(1), 3 - k)], 0, 4))
    [] OTHER -> Control(i)

\* Loads, stores, the stack, blocks of memory.
Meaning(i) ==
  CASE i.op = "LOAD" -> Set(i.r, At(Address(i)))
    [] i.op = "STOR" -> Stored(Address(i), 4, s[i.r])
    [] i.op = "STOR.I" -> Stored(s.alt, 4, s.pri)
    [] i.op = "LODB.I" -> Set("pri", Peek(s.mem, s.pri, i.n))
    [] i.op = "STRB.I" -> Stored(s.alt, i.n, s.pri)
    [] i.op = "CONST" -> Set(i.r, i.n)
    [] i.op = "ADDR" -> Set(i.r, s.frm + i.n)
    [] i.op = "LIDX" -> Set("pri", At(Wrap(s.alt + s.pri * 4)))
    [] i.op = "LIDX.B" -> Set("pri", At(Wrap(s.alt + s.pri * 2^i.n)))
    [] i.op = "IDXADDR" -> Set("pri", s.alt + s.pri * 4)
    [] i.op = "IDXADDR.B" -> Set("pri", s.alt + s.pri * 2^i.n)
    [] i.op = "ALIGN" -> IF i.n < 4 THEN Set(i.r, Xor(s[i.r], 4 - i.n)) ELSE s
    [] i.op = "LCTRL" -> Set("pri", CASE i.n = 2 -> s.hea [] i.n = 4 -> s.stk [] i.n = 5 -> s.frm)
    [] i.op = "SCTRL" -> Set(CASE i.n = 2 -> "hea" [] i.n = 4 -> "stk" [] i.n = 5 -> "frm", s.pri)
    [] i.op = "MOVE" -> Set(i.r, s[CHOOSE q \in Registers : q # i.r])
    [] i.op = "XCHG" -> [s EXCEPT !.pri = s.alt, !.alt = s.pri]
    [] i.op = "PUSH.R" -> Pushed(s[i.r])
    [] i.op = "PUSH.C" -> Pushed(i.n)
    [] i.op = "PUSH" -> Pushed(At(Address(i)))
    [] i.op = "PUSH.ADR" -> Pushed(Wrap(s.frm + i.n))
    [] i.op = "POP" -> [Set(i.r, At(s.stk)) EXCEPT !.stk = Wrap(@ + 4)]
    [] i.op = "SWAP" -> [Stored(s.stk, 4, s[i.r]) EXCEPT ![i.r] = At(s.stk)]
    [] i.op = "STACK" -> [s EXCEPT !.alt = s.stk, !.stk = Wrap(@ + i.n)]
    [] i.op = "HEAP" -> [s EXCEPT !.alt = s.hea, !.hea = Wrap(@ + i.n)]
    [] i.op = "ZERO" -> Stored(Address(i), 4, 0)
    [] i.op = "INC" -> Stored(Address(i), 4, Wrap(At(Address(i)) + 1))
    [] i.op = "DEC" -> Stored(Address(i), 4, Wrap(At(Address(i)) - 1))
    [] i.op = "MOVS" -> [s EXCEPT !.mem = [a \in Cell |-> IF Wrap(a - s.alt) < i.n
                                             THEN s.mem[Wrap(s.pri + (a - s.alt))] ELSE @[a]]]
    [] i.op = "CMPS" -> Set("pri", Blocks(i.n))
    [] i.op = "FILL" -> [s EXCEPT !.mem = [a \in Cell |-> IF Wrap(a - s.alt) < i.n
                                             THEN ByteOf(s.pri, Wrap(a - s.alt) % 4) ELSE @[a]]]
    [] OTHER -> Computes(i)

\* Which NaN a NaN is is open.
Outcomes(i) ==
  IF i.op \in FloatFunctions THEN {Set("pri", v) : v \in Singles(FloatResult(i))} ELSE {Meaning(i)}

Init == instr = None /\ s.out = "next"

\* What is left in dead memory is open.
Next ==
  /\ instr = None /\ instr' \in Instructions
  /\ \E t \in Outcomes(instr') :
       LET u == s'
       IN /\ \A f \in DOMAIN t \ {"mem"} : u[f] = t[f]
          /\ \A a \in Cell \ Dead(t) : u.mem[a] = t.mem[a]

Spec == Init /\ [][Next]_<<s, instr>>
=============================================================================
