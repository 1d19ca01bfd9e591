------------------------------ MODULE Opcodes -------------------------------
(***************************************************************************)
(* The machine code that Compile emits for each instruction, executed:     *)
(* compiler_impl.cpp, lines 275 to 1148, and the natives compiled in line. *)
(* EBX is the address of the data section.  EDX, ESI, EDI and the flags do *)
(* not live from one instruction to the next and are bound inside actions. *)
(*                                                                         *)
(* It implements AMXInstructions, which see for the form of instructions.  *)
(***************************************************************************)
EXTENDS Floats

CONSTANTS
  Instructions,
  Ebx,          \* where the data section is
  Starts,       \* states in which an instruction may start
  WideDivision, \* whether scripts divide where SDIV's sum overflows
  None

VARIABLES
  c,            \* registers eax, ecx, ebp, esp; amx->hea; memory; where to go
  instr         \* the instruction that has been executed

vars == <<c, instr>>

Reg == [pri |-> "eax", alt |-> "ecx"]
OtherReg == [pri |-> "ecx", alt |-> "eax"]

Dword(a) == Peek(c.ram, Wrap(a), 4)
Mov(r, v) == [c EXCEPT ![r] = Wrap(v)]
MovTo(a, n, v) == [c EXCEPT !.ram = Poke(@, Wrap(a), n, v)]
Push(t, v) == [t EXCEPT !.esp = Wrap(@ - 4), !.ram = Poke(@, Wrap(t.esp - 4), 4, v)]

\* dword_ptr(ebx, operand), dword_ptr(ebp, operand), and through EDX.
Ptr(i) ==
  CASE i.m = "DATA" -> Ebx + i.n
    [] i.m = "S" -> c.ebp + i.n
    [] i.m = "REF" -> Ebx + Dword(Ebx + i.n)
    [] i.m = "REF.S" -> Ebx + Dword(c.ebp + i.n)
    [] i.m = "I" -> Ebx + c.eax

\* The condition codes by relation.
Codes == [EQ |-> "e", NEQ |-> "ne", LESS |-> "b", LEQ |-> "be", GRTR |-> "a", GEQ |-> "ae",
          SLESS |-> "l", SLEQ |-> "le", SGRTR |-> "g", SGEQ |-> "ge"]

\* Conditions of SETcc and Jcc after CMP a, b.
Cond(cc, a, b) ==
  LET x == Signed(a)  y == Signed(b)
  IN CASE cc = "e" -> a = b  [] cc = "ne" -> a # b
       [] cc = "b" -> a < b  [] cc = "be" -> a <= b
       [] cc = "a" -> a > b  [] cc = "ae" -> a >= b
       [] cc = "l" -> x < y  [] cc = "le" -> x <= y
       [] cc = "g" -> x > y  [] cc = "ge" -> x >= y
Setcc(b) == IF b THEN 1 ELSE 0

Shift(n) == n % CellBits
Shl(v, n) == v * 2^Shift(n)
Shr(v, n) == v \div 2^Shift(n)
Sar(v, n) == Signed(v) \div 2^Shift(n)
Sx(b) == IF b < 2^(ByteBits - 1) THEN b ELSE b - 2^ByteBits

\* CDQ, and IDIV of EDX:EAX.
Cdq(v) == IF Signed(v) < 0 THEN 2^CellBits - 1 ELSE 0
Idiv(edx, eax, v) ==
  LET dividend == Signed(edx) * 2^CellBits + eax
      quotient == Trunc(dividend, Signed(v))
  IN [eax |-> Wrap(quotient), edx |-> Wrap(dividend - quotient * Signed(v))]

\* SDIV adds the divisor to the remainder of IDIV: is the sum a signed cell?
SumFits(a, b) ==
  LET sum == (a - Trunc(a, b) * b) + b
  IN -2^(CellBits - 1) <= sum /\ sum < 2^(CellBits - 1)

\* What scripts do.  Blocks are apart from each other and do not reach into
\* dead memory; jumps of the stack stay above the heap; nothing is divided by
\* 0, nor the least cell by -1, which would be a divide error of the processor.
Hea == c.hea
Stk == Wrap(c.esp - Ebx)
Live(a, n) == \A k \in 0..(n - 1) : Wrap(a + k) \notin Hea..(Stk - 1)
Divides(a, b) ==
  /\ b # 0 /\ ~(a = 2^(CellBits - 1) /\ b = 2^CellBits - 1)
  /\ WideDivision \/ SumFits(Signed(a), Signed(b))
Allowed(i) ==
  CASE i.op = "SDIV" -> Divides(c.eax, c.ecx)
    [] i.op = "SDIV.ALT" -> Divides(c.ecx, c.eax)
    [] i.op = "UDIV" -> c.ecx # 0
    [] i.op = "UDIV.ALT" -> c.eax # 0
    [] i.op \in {"SHL", "SHR", "SSHR"} -> c.ecx < CellBits
    [] i.op \in {"MOVS", "CMPS"} ->
         /\ Live(c.eax, i.n) /\ Live(c.ecx, i.n)
         /\ {Wrap(c.eax + k) : k \in 0..(i.n - 1)} \cap {Wrap(c.ecx + k) : k \in 0..(i.n - 1)} = {}
    [] i.op = "FILL" -> Live(c.ecx, i.n)
    [] i.op = "SCTRL" -> i.n # 5 => IF i.n = 2 THEN c.eax <= Stk ELSE c.eax > Hea + 4
    [] OTHER -> TRUE

\* Instructions as the compiler of scripts writes them.
WellFormed(i) ==
  /\ i.n \in Cell
  /\ i.op \in {"LOAD", "STOR", "CONST", "ADDR", "ALIGN", "MOVE", "PUSH.R", "POP", "SWAP", "SHL.C",
               "SHR.C", "SIGN", "ZERO.R", "INC.R", "DEC.R", "EQ.C"} => i.r \in DOMAIN Reg
  /\ i.op \in {"LOAD", "STOR", "PUSH", "ZERO", "INC", "DEC"} => i.m \in {"DATA", "S", "REF", "REF.S", "I"}
  /\ i.op = "J" => i.m \in DOMAIN Codes
  /\ i.op \in {"LCTRL", "SCTRL"} => i.n \in {2, 4, 5}
  /\ i.op \in {"LODB.I", "STRB.I"} => i.n \in {1, 2, 4}
  /\ i.op \in {"SHL.C", "SHR.C"} => i.n < CellBits
  /\ i.op = "BOUNDS" => i.n < 2^(CellBits - 1)
  /\ i.op \in {"MOVS", "CMPS"} => i.n > 0
  /\ i.op = "FILL" => i.n % 4 = 0

\* Below the stack there is room for a cell.
ASSUME OpcodesAssumption ==
  /\ Ebx \in Cell /\ WideDivision \in BOOLEAN
  /\ None \notin Instructions /\ \A i \in Instructions : WellFormed(i)
  /\ Starts \subseteq [eax : Cell, ecx : Cell, ebp : Cell, esp : Cell, hea : Cell,
                      ram : [Cell -> Byte], out : {"next"}]
  /\ \A t \in Starts : t.hea + 4 <= Wrap(t.esp - Ebx)
-----------------------------------------------------------------------------
Init == instr = None /\ c \in Starts

Emit(i, t) == instr' = i /\ c' = t
Is(i, ops) == i.op \in ops

Load(i) == Is(i, {"LOAD"}) /\ Emit(i, Mov(Reg[i.r], Dword(Ptr(i))))
Lodb(i) == Is(i, {"LODB.I"}) /\ Emit(i, Mov("eax", Peek(c.ram, Wrap(Ebx + c.eax), i.n)))
Const(i) == Is(i, {"CONST"}) /\ Emit(i, Mov(Reg[i.r], i.n))
Addr(i) == Is(i, {"ADDR"}) /\ Emit(i, Mov(Reg[i.r], (c.ebp + i.n) - Ebx))
Stor(i) == Is(i, {"STOR"}) /\ Emit(i, MovTo(Ptr(i), 4, c[Reg[i.r]]))
StorI(i) == Is(i, {"STOR.I"}) /\ Emit(i, MovTo(Ebx + c.ecx, 4, c.eax))
Strb(i) == Is(i, {"STRB.I"}) /\ Emit(i, MovTo(Ebx + c.ecx, i.n, c.eax))
Lidx(i) == Is(i, {"LIDX"}) /\ Emit(i, Mov("eax", Dword((Ebx + c.ecx) + c.eax * 2^2)))
LidxB(i) == Is(i, {"LIDX.B"}) /\ Emit(i, Mov("eax", Dword((Ebx + c.ecx) + c.eax * 2^i.n)))
Idxaddr(i) == Is(i, {"IDXADDR"}) /\ Emit(i, Mov("eax", c.ecx + c.eax * 2^2))
IdxaddrB(i) == Is(i, {"IDXADDR.B"}) /\ Emit(i, Mov("eax", c.ecx + c.eax * 2^i.n))
Align(i) ==
  /\ Is(i, {"ALIGN"})
  /\ Emit(i, IF i.n < 4 THEN Mov(Reg[i.r], Xor(c[Reg[i.r]], 4 - i.n)) ELSE c)
Lctrl(i) ==
  /\ Is(i, {"LCTRL"})
  /\ Emit(i, Mov("eax", CASE i.n = 2 -> c.hea [] i.n = 4 -> c.esp - Ebx [] i.n = 5 -> c.ebp - Ebx))
Sctrl(i) ==
  /\ Is(i, {"SCTRL"})
  /\ Emit(i, CASE i.n = 2 -> Mov("hea", c.eax) [] i.n = 4 -> Mov("esp", Ebx + c.eax)
               [] i.n = 5 -> Mov("ebp", Ebx + c.eax))
Move(i) == Is(i, {"MOVE"}) /\ Emit(i, Mov(Reg[i.r], c[OtherReg[i.r]]))
Xchg(i) == Is(i, {"XCHG"}) /\ Emit(i, [c EXCEPT !.eax = c.ecx, !.ecx = c.eax])
PushR(i) == Is(i, {"PUSH.R"}) /\ Emit(i, Push(c, c[Reg[i.r]]))
PushC(i) == Is(i, {"PUSH.C"}) /\ Emit(i, Push(c, i.n))
PushM(i) == Is(i, {"PUSH"}) /\ Emit(i, Push(c, Dword(Ptr(i))))
PushAdr(i) == Is(i, {"PUSH.ADR"}) /\ Emit(i, Push(c, Wrap((c.ebp + i.n) - Ebx)))
Pop(i) == Is(i, {"POP"}) /\ Emit(i, [Mov(Reg[i.r], Dword(c.esp)) EXCEPT !.esp = Wrap(@ + 4)])
Swap(i) ==
  /\ Is(i, {"SWAP"})
  /\ Emit(i, [MovTo(c.esp, 4, c[Reg[i.r]]) EXCEPT ![Reg[i.r]] = Dword(c.esp)])

\* With a bug: the result is not cut off to a cell.
AddWide(v, n) == v + n

\* ADD of a positive operand, SUB of the negative of another.
AddSigned(v, n) == IF Signed(n) >= 0 THEN Wrap(v + n) ELSE Wrap(v - Wrap(-Signed(n)))
Stack(i) ==
  /\ Is(i, {"STACK"})
  /\ Emit(i, [Mov("ecx", c.esp - Ebx) EXCEPT !.esp = AddSigned(@, i.n)])
Heap(i) == Is(i, {"HEAP"}) /\ Emit(i, [Mov("ecx", c.hea) EXCEPT !.hea = AddSigned(@, i.n)])
AddC(i) == Is(i, {"ADD.C"}) /\ Emit(i, Mov("eax", AddSigned(c.eax, i.n)))

Shifts(i) ==
  /\ Is(i, {"SHL", "SHR", "SSHR"})
  /\ Emit(i, Mov("eax", CASE i.op = "SHL" -> Shl(c.eax, c.ecx) [] i.op = "SHR" -> Shr(c.eax, c.ecx)
                          [] i.op = "SSHR" -> Sar(c.eax, c.ecx)))
ShiftsC(i) ==
  /\ Is(i, {"SHL.C", "SHR.C"})
  /\ LET v == c[Reg[i.r]] IN Emit(i, Mov(Reg[i.r], IF i.op = "SHL.C" THEN Shl(v, i.n) ELSE Shr(v, i.n)))
Smul(i) == Is(i, {"SMUL"}) /\ Emit(i, Mov("eax", Signed(c.eax) * Signed(c.ecx)))
Umul(i) == Is(i, {"UMUL"}) /\ Emit(i, Mov("eax", c.eax * c.ecx))
SmulC(i) == Is(i, {"SMUL.C"}) /\ Emit(i, Mov("eax", Signed(c.eax) * Signed(i.n)))

\* With a bug: the remainder of the first division is kept.
SdivOnce(p, v) == LET once == Idiv(Cdq(p), p, v) IN [c EXCEPT !.eax = once.eax, !.ecx = once.edx]

\* PRI / ALT, then (remainder + ALT) / ALT for a remainder of ALT's sign.
SdivCode(p, v) ==
  LET first == Idiv(Cdq(p), p, v)
      sum == Wrap(first.edx + v)
      second == Idiv(Cdq(sum), sum, v)
  IN [c EXCEPT !.eax = first.eax, !.ecx = second.edx]
Sdiv(i) == Is(i, {"SDIV"}) /\ Emit(i, SdivCode(c.eax, c.ecx))
SdivAlt(i) == Is(i, {"SDIV.ALT"}) /\ Emit(i, SdivCode(c.ecx, c.eax))
Udiv(i) == Is(i, {"UDIV"}) /\ Emit(i, [c EXCEPT !.eax = c.eax \div c.ecx, !.ecx = c.eax % c.ecx])
UdivAlt(i) == Is(i, {"UDIV.ALT"}) /\ Emit(i, [c EXCEPT !.eax = c.ecx \div c.eax, !.ecx = c.ecx % c.eax])

Add(i) == Is(i, {"ADD"}) /\ Emit(i, Mov("eax", c.eax + c.ecx))
Sub(i) == Is(i, {"SUB"}) /\ Emit(i, Mov("eax", c.eax - c.ecx))
SubAlt(i) == Is(i, {"SUB.ALT"}) /\ Emit(i, Mov("eax", -Wrap(c.eax - c.ecx)))
Logic(i) ==
  /\ Is(i, {"AND", "OR", "XOR"})
  /\ Emit(i, Mov("eax", CASE i.op = "AND" -> And(c.eax, c.ecx) [] i.op = "OR" -> Or(c.eax, c.ecx)
                          [] i.op = "XOR" -> Xor(c.eax, c.ecx)))
Not_(i) == Is(i, {"NOT"}) /\ Emit(i, Mov("eax", Setcc(c.eax = 0)))
Neg(i) == Is(i, {"NEG"}) /\ Emit(i, Mov("eax", -c.eax))
Invert(i) == Is(i, {"INVERT"}) /\ Emit(i, Mov("eax", 2^CellBits - 1 - c.eax))
Sign(i) == Is(i, {"SIGN"}) /\ Emit(i, Mov(Reg[i.r], Sx(ByteOf(c[Reg[i.r]], 0))))
ZeroR(i) == Is(i, {"ZERO.R"}) /\ Emit(i, Mov(Reg[i.r], 0))
IncR(i) == Is(i, {"INC.R"}) /\ Emit(i, Mov(Reg[i.r], c[Reg[i.r]] + 1))
DecR(i) == Is(i, {"DEC.R"}) /\ Emit(i, Mov(Reg[i.r], c[Reg[i.r]] - 1))
Zero(i) == Is(i, {"ZERO"}) /\ Emit(i, MovTo(Ptr(i), 4, 0))
Inc(i) == Is(i, {"INC"}) /\ Emit(i, MovTo(Ptr(i), 4, Wrap(Dword(Ptr(i)) + 1)))
Dec(i) == Is(i, {"DEC"}) /\ Emit(i, MovTo(Ptr(i), 4, Wrap(Dword(Ptr(i)) - 1)))

Compare(i) == Is(i, DOMAIN Codes) /\ Emit(i, Mov("eax", Setcc(Cond(Codes[i.op], c.eax, c.ecx))))
EqC(i) == Is(i, {"EQ.C"}) /\ Emit(i, Mov("eax", Setcc(Cond("e", c[Reg[i.r]], i.n))))
Goto(b) == [c EXCEPT !.out = IF b THEN "jump" ELSE "next"]
Jump(i) == Is(i, {"J"}) /\ Emit(i, Goto(Cond(Codes[i.m], c.eax, c.ecx)))
Jzer(i) == Is(i, {"JZER"}) /\ Emit(i, Goto(c.eax = 0))
Jnz(i) == Is(i, {"JNZ"}) /\ Emit(i, Goto(c.eax # 0))
Bounds(i) ==
  /\ Is(i, {"BOUNDS"})
  /\ Emit(i, [c EXCEPT !.out = IF Cond("g", c.eax, i.n) \/ Cond("l", c.eax, 0) THEN "BOUNDS" ELSE "next"])

\* PUSH ECX and POP ECX leave ALT below the stack.
Saved == [Push(c, c.ecx) EXCEPT !.esp = c.esp]

\* MOVSD, MOVSW or MOVSB.
Unit(n) == IF n % 4 = 0 THEN 4 ELSE IF n % 2 = 0 THEN 2 ELSE 1
Movs(i) ==
  LET moved == Unit(i.n) * (i.n \div Unit(i.n))
      from == Wrap(Ebx + c.eax)
      to == Wrap(Ebx + c.ecx)
  IN /\ Is(i, {"MOVS"})
     /\ Emit(i, [Saved EXCEPT !.ram = [a \in Cell |->
                   IF Wrap(a - to) < moved THEN Saved.ram[Wrap(from + (a - to))] ELSE @[a]]])

\* REPE CMPSB ends at the first difference, if there is one.
Cmps(i) ==
  LET x(k) == c.ram[Wrap(Ebx + c.ecx + k)]
      y(k) == c.ram[Wrap(Ebx + c.eax + k)]
      last == CHOOSE k \in 0..(i.n - 1) :
                /\ \A j \in 0..(k - 1) : x(j) = y(j)
                /\ x(k) # y(k) \/ k = i.n - 1
  IN /\ Is(i, {"CMPS"})
     /\ Emit(i, [Saved EXCEPT !.eax = IF x(last) > y(last) THEN 1
                                      ELSE IF x(last) < y(last) THEN 2^CellBits - 1 ELSE 0])
Fill(i) ==
  LET to == Wrap(Ebx + c.ecx)
  IN /\ Is(i, {"FILL"})
     /\ Emit(i, [Saved EXCEPT !.ram = [a \in Cell |->
                   IF Wrap(a - to) < 4 * (i.n \div 4) THEN ByteOf(c.eax, Wrap(a - to) % 4) ELSE @[a]]])

\* Natives compiled in line; their parameters are on the stack.
Arg(k) == Dword(c.esp + 4 * k)
Clamp(i) ==
  LET edx == Arg(1)
  IN Is(i, {"clamp"}) /\ Emit(i, Mov("eax", IF Cond("le", edx, Arg(2)) THEN Arg(2)
                                            ELSE IF Cond("ge", edx, Arg(3)) THEN Arg(3) ELSE edx))
Heapspace(i) == Is(i, {"heapspace"}) /\ Emit(i, Mov("eax", (c.esp - Ebx) - c.hea))
Numargs(i) == Is(i, {"numargs"}) /\ Emit(i, Mov("eax", Shr(Dword(c.ebp + 8), 2)))
Min_(i) == Is(i, {"min"}) /\ Emit(i, Mov("eax", IF Cond("ge", Arg(2), Arg(1)) THEN Arg(1) ELSE Arg(2)))
Max_(i) == Is(i, {"max"}) /\ Emit(i, Mov("eax", IF Cond("le", Arg(2), Arg(1)) THEN Arg(1) ELSE Arg(2)))

\* XCHG AH, AL; ROR 16; XCHG AH, AL.
ExchangeLow(v) ==
  v - (ByteOf(v, 0) + ByteOf(v, 1) * 2^ByteBits) + ByteOf(v, 1) + ByteOf(v, 0) * 2^ByteBits
Swapchars(i) ==
  LET x == ExchangeLow(Arg(1))
      half == 2^(2 * ByteBits)
  IN Is(i, {"swapchars"}) /\ Emit(i, Mov("eax", ExchangeLow((x \div half) + (x % half) * half)))

\* FLD of a parameter.
FloatArg(k) == Value(Arg(k))

\* FSTP of the result to where the stack ends, and from there to EAX.
Fstp(i, x) ==
  \E v \in Singles(InRegister(x)) : Emit(i, [MovTo(c.esp - 4, 4, v) EXCEPT !.eax = v])

Float_(i) == Is(i, {"float"}) /\ Fstp(i, Whole(Signed(Arg(1))))
Floatabs(i) == Is(i, {"floatabs"}) /\ Fstp(i, Absolute(FloatArg(1)))
Floatadd(i) == Is(i, {"floatadd"}) /\ Fstp(i, Plus(FloatArg(1), FloatArg(2)))
Floatsub(i) == Is(i, {"floatsub"}) /\ Fstp(i, Minus(FloatArg(1), FloatArg(2)))
Floatmul(i) == Is(i, {"floatmul"}) /\ Fstp(i, Times(FloatArg(1), FloatArg(2)))
Floatdiv(i) == Is(i, {"floatdiv"}) /\ Fstp(i, Over(FloatArg(1), FloatArg(2)))
Floatsqroot(i) == Is(i, {"floatsqroot"}) /\ Fstp(i, Root(FloatArg(1)))

\* FCOMPP: the flags C0, C2 and C3.
Fcom(x, y) ==
  LET o == Ordering(x, y)
  IN [c0 |-> o \in {"less", "unordered"}, c2 |-> o = "unordered", c3 |-> o \in {"equal", "unordered"}]

\* The parity of C2 and C3 is even if they are the same.
Floatcmp(i) ==
  LET ah == Fcom(FloatArg(1), FloatArg(2))
      less_or_greater == ah.c2 = ah.c3
  IN Is(i, {"floatcmp"}) /\ Emit(i, Mov("eax", IF ~less_or_greater THEN 0 ELSE IF ah.c0 THEN -1 ELSE 1))

Stop == instr # None /\ UNCHANGED vars

Translated(i) ==
  \/ Load(i) \/ Lodb(i) \/ Const(i) \/ Addr(i) \/ Stor(i) \/ StorI(i) \/ Strb(i)
  \/ Lidx(i) \/ LidxB(i) \/ Idxaddr(i) \/ IdxaddrB(i) \/ Align(i) \/ Lctrl(i) \/ Sctrl(i)
  \/ Move(i) \/ Xchg(i) \/ PushR(i) \/ PushC(i) \/ PushM(i) \/ PushAdr(i) \/ Pop(i) \/ Swap(i)
  \/ Stack(i) \/ Heap(i) \/ AddC(i) \/ Shifts(i) \/ ShiftsC(i) \/ Smul(i) \/ Umul(i) \/ SmulC(i)
  \/ Sdiv(i) \/ SdivAlt(i) \/ Udiv(i) \/ UdivAlt(i) \/ Add(i) \/ Sub(i) \/ SubAlt(i)
  \/ Logic(i) \/ Not_(i) \/ Neg(i) \/ Invert(i) \/ Sign(i) \/ ZeroR(i) \/ IncR(i) \/ DecR(i)
  \/ Zero(i) \/ Inc(i) \/ Dec(i) \/ Compare(i) \/ EqC(i) \/ Jump(i) \/ Jzer(i) \/ Jnz(i)
  \/ Bounds(i) \/ Movs(i) \/ Cmps(i) \/ Fill(i) \/ Clamp(i) \/ Heapspace(i) \/ Numargs(i)
  \/ Min_(i) \/ Max_(i) \/ Swapchars(i)
  \/ Float_(i) \/ Floatabs(i) \/ Floatadd(i) \/ Floatsub(i) \/ Floatmul(i) \/ Floatdiv(i)
  \/ Floatsqroot(i) \/ Floatcmp(i)

\* Bound: one instruction.  What it does depends on nothing but the state.
Next == (instr = None /\ \E i \in Instructions : Allowed(i) /\ Translated(i)) \/ Stop

Spec == Init /\ [][Next]_vars
-----------------------------------------------------------------------------
\* Types of the state.
TypeOK ==
  /\ instr \in Instructions \cup {None}
  /\ \A r \in {"eax", "ecx", "ebp", "esp", "hea"} : c[r] \in Cell
  /\ c.ram \in [Cell -> Byte]
  /\ c.out \in {"next", "jump", "BOUNDS"}

\* Registers and memory as a script has them: its addresses are from EBX on.
Data(ram) == [a \in Cell |-> ram[Wrap(Ebx + a)]]
View(x) ==
  [pri |-> x.eax, alt |-> x.ecx, frm |-> Wrap(x.ebp - Ebx), stk |-> Wrap(x.esp - Ebx), hea |-> x.hea,
   mem |-> Data(x.ram), out |-> x.out]

Machine == INSTANCE AMXInstructions WITH s <- View(c)

\* The machine code of an instruction does to registers, stack, heap and data
\* what the definition of the instruction says, and nothing else.
ComputesSame == Machine!Spec

\* After a signed division ALT is PRI mod ALT (compiler_impl.cpp:734): it is
\* smaller than the divisor and differs from the dividend by a multiple of it.
RemainderOK ==
  [][instr'.op = "SDIV" =>
       LET a == Signed(c.eax)  b == Signed(c.ecx)  r == Signed(c'.ecx)
       IN Abs(r) < Abs(b) /\ Abs(a - r) % Abs(b) = 0]_vars
=============================================================================
