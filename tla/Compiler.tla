------------------------------ MODULE Compiler ------------------------------
(***************************************************************************)
(* CompilerImpl::Compile, as far as it decides where compiled code goes    *)
(* next: two passes of the disassembler over the AMX code, one to reserve  *)
(* the table of instructions and one to translate; a label for every       *)
(* address that is passed or named; functions aligned; and in the end the  *)
(* table with which run-time jumps, Exec and sleep find their way between  *)
(* AMX addresses and machine code.  compiler_impl.cpp, disasm.cpp.         *)
(*                                                                         *)
(* AMX addresses are counted in cells; machine code in units of which an   *)
(* instruction that emits anything emits one.  What the other instructions *)
(* compute is left out: "const" stands for all of them.                    *)
(***************************************************************************)
EXTENDS Integers, Sequences, FiniteSets

CONSTANTS
  Programs,  \* AMX programs: code (instructions by address), size, publics
             \* and natives (name and function address, by number from 1)
  Intrinsics,\* the natives that are compiled in line: by name, the address of
             \* the function that is replaced
  EnableSysreqD, \* amx->sysreq_d, and enable_sysreq_d_
  Align,     \* functions begin at multiples of this (16 bytes)
  Helpers,   \* size of the code that is emitted before the script's
  Base,      \* address of the code buffer in memory
  None

VARIABLES
  prog,      \* the program
  bound,     \* the natives whose addresses have been registered
  patched,   \* where the interpreter has put SYSREQ.D for SYSREQ.C
  phase,     \* "table", "decode", and then "ready" or "null"
  cur,       \* cur_address_ of the disassembler
  size,      \* asm_.getCodeSize()
  entries,   \* rib->instr_table_size
  map,       \* instr_map_: AMX address to code position
  labels,    \* label_map_: AMX address to position, None until it is bound
  code,      \* what has been emitted, by position
  table      \* rib->instr_table

compilerVars == <<prog, bound, patched, phase, cur, size, entries, map, labels, code, table>>
-----------------------------------------------------------------------------
(* Instructions [op, arg] and the disassembler.                             *)

\* Instruction::size, in cells.  The records of a case table are pairs of a
\* value and an address, the first one for the default.
Cells(i) ==
  CASE i.op \in {"nop", "proc", "push.pri", "jump.pri", "retn", "sysreq.pri"} -> 1
    [] i.op = "casetbl" -> 1 + 2 * Len(i.arg)
    [] OTHER -> 2

\* DecodeInstruction knows the opcode.
Decodes(i) == i.op # "data"

(* The tables of natives: amxref.cpp.  Number 0 is none. *)

\* GetNativeName
Native(n) == n \in DOMAIN prog.natives
Name(n) == prog.natives[n].name

\* GetNativeAddress
Address(n) == IF n \in bound THEN prog.natives[n].address ELSE 0

\* FindNative: the first that has the address.
FindNative(address) ==
  LET found == {n \in DOMAIN prog.natives : Address(n) = address}
  IN IF found = {} THEN 0 ELSE CHOOSE n \in found : \A m \in found : n <= m

\* The instruction at a, as it stands in memory.
InstrAt(a) ==
  LET i == prog.code[a]
  IN IF a \in patched THEN [op |-> "sysreq.d", arg |-> Address(i.arg)] ELSE i

\* The switch in Compile has a case for it, and a native it calls has a name.
Translates(i) ==
  CASE i.op = "sysreq.c" -> Native(i.arg)
    [] i.op = "sysreq.d" -> FindNative(i.arg) # 0
    [] OTHER -> i.op \notin {"data", "jrel"}

\* NOP, BREAK and CASETBL emit nothing, nor does what has no case.
EmitsNothing(i) == i.op \in {"nop", "casetbl", "data", "jrel"}

\* Addresses the instruction at a names.
Dests(p, i) ==
  CASE i.op \in {"jump", "jzer", "call"} -> {i.arg}
    [] i.op = "switch" -> {p.code[i.arg].arg[k][2] : k \in DOMAIN p.code[i.arg].arg}
    [] OTHER -> {}

\* What scripts are like that the Pawn compiler has made: instructions follow
\* one another, jumps lead to instructions and calls to functions, a native
\* call or a sleep is never the last thing in a function, and control does not
\* run off the end of the code.  A native that has the name of an intrinsic is
\* the function that the name stands for.
WellFormed(p) ==
  LET at == DOMAIN p.code
  IN /\ 0 \in at /\ \A a \in at : a + Cells(p.code[a]) \in at \cup {p.size}
     /\ \A a, b \in at : a < b => a + Cells(p.code[a]) <= b
     /\ \A a \in at :
          LET i == p.code[a]
          IN /\ i.op = "switch" => i.arg \in at /\ p.code[i.arg].op = "casetbl"
             /\ Dests(p, i) \subseteq at
             /\ i.op = "call" => p.code[i.arg].op = "proc"
             /\ i.op \in {"sysreq.c", "sysreq.pri"} \/ (i.op = "halt" /\ i.arg = "SLEEP") =>
                  \E b \in at : /\ b > a /\ ~EmitsNothing(p.code[b])
                                /\ \A c \in at : c \in (a + 1)..b => p.code[c].op # "proc"
             /\ a + Cells(i) = p.size => i.op = "retn"
     /\ p.publics \subseteq {a \in at : p.code[a].op = "proc"}
     /\ \A n \in DOMAIN p.natives : p.natives[n].name \in DOMAIN Intrinsics =>
          p.natives[n].address = Intrinsics[p.natives[n].name]

ASSUME CompilerAssumption ==
  /\ Align \in Nat \ {0} /\ Helpers \in Nat \ {0} /\ Base \in Nat /\ None \notin Nat
  /\ \A p \in Programs : WellFormed(p) /\ p.size < Base

\* What stands in a script as it is loaded.  Its numbers are below the addresses
\* of machine code; SYSREQ.D is not in it, the interpreter makes that.
IsScript(p) ==
  /\ p.size \in Nat /\ DOMAIN p.code \subseteq 0..(p.size - 1)
  /\ \A a \in DOMAIN p.code :
       LET i == p.code[a]
       IN /\ i.op \notin {"sysreq.d", "intrinsic", "jump.helper"}
          /\ i.op = "const" => i.arg \in 0..(Base - 1)
          /\ i.op = "casetbl" =>
               i.arg # <<>> /\ i.arg \in Seq({n \in Int : n < Base} \X Nat)
  /\ DOMAIN p.natives \subseteq 1..(Base - 1)
  /\ \A n \in DOMAIN p.natives : p.natives[n].address \in Nat \ {0}

ASSUME ScriptAssumption == \A p \in Programs : IsScript(p)
-----------------------------------------------------------------------------
CompilerInit ==
  /\ prog \in Programs /\ bound = {} /\ patched = {}
  /\ phase = "table" /\ cur = 0 /\ size = 0 /\ entries = 0
  /\ map = <<>> /\ labels = <<>> /\ code = <<>> /\ table = <<>>

\* amx_Register, by the server or by a plugin: before the script is compiled or
\* after it, but not during compilation.
Register(n) ==
  /\ phase \in {"table", "ready"} /\ Native(n) /\ n \notin bound
  /\ bound' = bound \cup {n}
  /\ UNCHANGED <<prog, patched, phase, cur, size, entries, map, labels, code, table>>

\* The interpreter has called a native before the script is compiled, from
\* OnJITCompile; amx_Callback patches the instruction.
Patch(a) ==
  /\ EnableSysreqD /\ phase = "table" /\ a \in DOMAIN prog.code \ patched
  /\ prog.code[a].op = "sysreq.c" /\ prog.code[a].arg \in bound
  /\ patched' = patched \cup {a}
  /\ UNCHANGED <<prog, bound, phase, cur, size, entries, map, labels, code, table>>

\* With a bug: only instructions that emit code are counted.
EntriesShort == Cardinality({a \in DOMAIN prog.code : ~EmitsNothing(prog.code[a])})

\* The first pass counts instructions up to the first it cannot decode.
Entries ==
  Cardinality({a \in DOMAIN prog.code :
                 \A b \in DOMAIN prog.code : b <= a => Decodes(prog.code[b])})

\* EmitInstrTable reserves the table; then the helpers are emitted.
EmitInstrTable ==
  /\ phase = "table"
  /\ entries' = Entries
  /\ size' = Entries + Helpers
  /\ phase' = "decode"
  /\ UNCHANGED <<prog, bound, patched, cur, map, labels, code, table>>

Aligned(pos) == CHOOSE q \in pos..(pos + Align - 1) : q % Align = 0

\* SYSREQ.C and SYSREQ.D of native n, called as i says: by name if it can be
\* done in line, else by address if that is known, else by number.
EmittedSysreq(i, n) ==
  IF Name(n) \in DOMAIN Intrinsics THEN [op |-> "intrinsic", arg |-> Name(n)]
  ELSE IF i.op = "sysreq.c" /\ EnableSysreqD /\ Address(n) # 0
       THEN [op |-> "sysreq.d", arg |-> Address(n)]
       ELSE i

\* The machine code of the instruction at cip.
Emitted(i, cip) ==
  CASE i.op = "lctrl6" -> [op |-> "const", arg |-> cip + Cells(i)]
    [] i.op \in {"sctrl6", "jump.pri"} -> [op |-> "jump.helper", arg |-> None]
    [] i.op = "switch" -> [op |-> "switch", arg |-> prog.code[i.arg].arg]
    [] i.op = "sysreq.c" -> EmittedSysreq(i, i.arg)
    [] i.op = "sysreq.d" -> EmittedSysreq(i, FindNative(i.arg))
    [] OTHER -> i

\* With a bug: the position is taken after the code has been emitted.
RecordedLate(i, pos) == IF EmitsNothing(i) THEN pos ELSE pos + 1

\* The position that goes into instr_map_.
Recorded(i, pos) == pos

\* The address after cur that is named or bound keeps its label.
LabelsWith(cip, pos, dests) ==
  [a \in DOMAIN labels \cup dests \cup {cip} |->
     IF a = cip THEN pos ELSE IF a \in DOMAIN labels THEN labels[a] ELSE None]

\* One turn of the loop in Compile: decode, align, bind, record, translate.
\* An instruction that is not decoded or has no case ends compilation;
\* OnJITError is told by JITHandler, which see.
CompileInstr ==
  /\ phase = "decode" /\ cur < prog.size
  /\ LET i == InstrAt(cur)
         pos == IF i.op = "proc" THEN Aligned(size) ELSE size
     IN IF ~Decodes(i)
        THEN phase' = "null" /\ UNCHANGED <<cur, size, map, labels, code>>
        ELSE /\ cur' = cur + Cells(i)
             /\ labels' = LabelsWith(cur, pos, Dests(prog, i))
             /\ map' = [a \in DOMAIN map \cup {cur} |->
                          IF a = cur THEN Recorded(i, pos) ELSE map[a]]
             /\ IF EmitsNothing(i) \/ ~Translates(i) THEN size' = pos /\ UNCHANGED code
                ELSE /\ size' = pos + 1
                     /\ code' = [q \in DOMAIN code \cup {pos} |->
                                   IF q = pos THEN Emitted(i, cur) ELSE code[q]]
             /\ phase' = IF Translates(i) THEN phase ELSE "null"
  /\ UNCHANGED <<prog, bound, patched, entries, table>>

\* The k-th entry of instr_map_: std::map is ordered by key.
Entry(k) ==
  LET a == CHOOSE a \in DOMAIN map : Cardinality({b \in DOMAIN map : b <= a}) = k
  IN [address |-> a, ptr |-> Base + map[a]]

\* Everything has been translated: make the code and fill the table.
CompilerFinish ==
  /\ phase = "decode" /\ cur >= prog.size
  /\ table' = [k \in 1..Cardinality(DOMAIN map) |-> Entry(k)]
  /\ phase' = "ready"
  /\ UNCHANGED <<prog, bound, patched, cur, size, entries, map, labels, code>>

CompilerNext ==
  \/ \E n \in DOMAIN prog.natives : Register(n)
  \/ \E a \in DOMAIN prog.code : Patch(a)
  \/ EmitInstrTable \/ CompileInstr \/ CompilerFinish
-----------------------------------------------------------------------------
(* The lookups of the runtime.                                              *)

\* std::lower_bound in a range that is ordered the right way: the first of
\* the positions that are not below.
LowerBound(notBelow) ==
  IF notBelow = {} THEN entries + 1
  ELSE CHOOSE k \in notBelow : \A j \in notBelow : k <= j

\* With a bug: upper_bound.
GetJITInstrPtrUpper(address) ==
  LET k == LowerBound({j \in DOMAIN table : table[j].address > address})
  IN IF k <= entries /\ table[k].address = address THEN table[k].ptr ELSE 0

\* JumpLookup.
GetJITInstrPtr(address) ==
  LET k == LowerBound({j \in DOMAIN table : table[j].address >= address})
  IN IF k <= entries /\ table[k].address = address THEN table[k].ptr ELSE 0

\* With a bug: the entry before the one that is searched.
GetANXAddressBefore(ptr) ==
  LET k == LowerBound({j \in DOMAIN table : table[j].ptr >= ptr})
  IN IF k <= entries /\ table[k].ptr = ptr /\ k > 1 THEN table[k - 1].address ELSE 0

\* ReverseJumpLookup.
GetANXAddressByJITInstrPtr(ptr) ==
  LET k == LowerBound({j \in DOMAIN table : table[j].ptr >= ptr})
  IN IF k <= entries /\ table[k].ptr = ptr THEN table[k].address ELSE 0
=============================================================================
