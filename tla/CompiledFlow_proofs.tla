------------------------ MODULE CompiledFlow_proofs -------------------------
(***************************************************************************)
(* Proofs about the two passes of the compiler and about the code they     *)
(* make, for any well-formed script: the table of instructions and the     *)
(* labels are right, and control stays in the code.                        *)
(***************************************************************************)
EXTENDS CompiledFlow, DataLemmas

At == DOMAIN prog.code
Op(a) == prog.code[a].op

\* The length of the machine code of the instruction at a, if it has any.
Units(a) == IF EmitsNothing(prog.code[a]) THEN 0 ELSE 1

\* What has been decoded and translated.
Decoded == {a \in At : a < cur}

\* x is machine code for the instruction at a.
Translation(p, a, x) ==
  LET i == p.code[a]
  IN CASE i.op = "lctrl6" -> x.op = "const" /\ x.arg = a + Cells(i)
       [] i.op \in {"sctrl6", "jump.pri"} -> x.op = "jump.helper"
       [] i.op = "switch" -> x.op = "switch" /\ x.arg = p.code[i.arg].arg
       [] i.op = "sysreq.c" ->
            /\ i.arg \in DOMAIN p.natives
            /\ \/ x.op = "sysreq.c" /\ x.arg = i.arg
               \/ x.op = "sysreq.d" /\ x.arg = p.natives[i.arg].address
               \/ x.op = "intrinsic" /\ Intrinsics[x.arg] = p.natives[i.arg].address
       [] OTHER -> x = i

\* Code follows code as instructions follow one another; only functions may be
\* preceded by padding.
MapOK ==
  /\ DOMAIN map = Decoded
  /\ \A a \in Decoded : map[a] \in Nat /\ map[a] >= 1 /\ map[a] + Units(a) <= size
  /\ \A a, b \in Decoded : a < b => map[a] + Units(a) <= map[b]
  /\ \A a, b \in Decoded : b = a + Cells(prog.code[a]) /\ Op(b) # "proc" =>
                             map[b] = map[a] + Units(a)
  /\ \A a \in Decoded : cur = a + Cells(prog.code[a]) => size = map[a] + Units(a)

LabelsOK == \A a \in Decoded : a \in DOMAIN labels /\ labels[a] = map[a]

CodeOK ==
  /\ DOMAIN code = {map[a] : a \in {b \in Decoded : Units(b) = 1}}
  /\ \A a \in Decoded : Op(a) \notin {"data", "jrel"}
  /\ \A a \in Decoded : Units(a) = 1 => Translation(prog, a, code[map[a]])

TranslatedOK == MapOK /\ LabelsOK /\ CodeOK

TableOK == table = [k \in 1..Cardinality(DOMAIN map) |-> Entry(k)]

CompilerTypes ==
  /\ prog \in Programs /\ bound \subseteq DOMAIN prog.natives
  /\ patched \subseteq {a \in At : Op(a) = "sysreq.c" /\ prog.code[a].arg \in bound}
  /\ phase \in {"table", "decode", "ready", "null"}
  /\ cur \in At \cup {prog.size} /\ size \in Nat /\ entries \in Nat
  /\ DOMAIN map \subseteq At /\ DOMAIN labels \subseteq At
  /\ \A a \in DOMAIN labels : labels[a] \in 0..size \cup {None}

CompilerInv ==
  /\ CompilerTypes
  /\ phase = "table" => cur = 0 /\ map = <<>> /\ labels = <<>> /\ code = <<>>
  /\ phase # "table" => entries = Entries /\ size >= 1
  /\ phase \in {"decode", "ready"} => TranslatedOK
  /\ phase = "ready" => cur = prog.size /\ TableOK

-----------------------------------------------------------------------------
(* Scripts. *)

\* Instructions follow one another without gap.
LEMMA InOrder ==
  ASSUME NEW p \in Programs
  PROVE  /\ p.size \in Nat /\ p.size < Base /\ Base \in Nat /\ 0 \in DOMAIN p.code
         /\ DOMAIN p.code \subseteq 0..(p.size - 1)
         /\ \A a \in DOMAIN p.code : /\ Cells(p.code[a]) \in Nat \ {0}
                                     /\ a + Cells(p.code[a]) \in DOMAIN p.code \cup {p.size}
         /\ \A a, b \in DOMAIN p.code : a < b => a + Cells(p.code[a]) <= b
<1>1. IsScript(p) /\ WellFormed(p) /\ p.size < Base /\ Base \in Nat
  BY ScriptAssumption, CompilerAssumption
<1>2. /\ 0 \in DOMAIN p.code
      /\ \A a \in DOMAIN p.code : a + Cells(p.code[a]) \in DOMAIN p.code \cup {p.size}
      /\ \A a, b \in DOMAIN p.code : a < b => a + Cells(p.code[a]) <= b
  BY <1>1 DEF WellFormed
<1>3. p.size \in Nat /\ DOMAIN p.code \subseteq 0..(p.size - 1)
  BY <1>1 DEF IsScript
<1>4. ASSUME NEW a \in DOMAIN p.code PROVE Cells(p.code[a]) \in Nat \ {0}
  <2>1. CASE p.code[a].op = "casetbl"
    <3>1. p.code[a].arg \in Seq({n \in Int : n < Base} \X Nat)
      BY <1>1, <2>1 DEF IsScript
    <3>2. Len(p.code[a].arg) \in Nat
      BY <3>1, LenProperties
    <3> QED
      BY <2>1, <3>2 DEF Cells
  <2>2. CASE p.code[a].op # "casetbl"
    BY <2>2 DEF Cells
  <2> QED
    BY <2>1, <2>2
<1> QED
  BY <1>1, <1>2, <1>3, <1>4

\* Jumps lead to instructions.
LEMMA DestsThere ==
  ASSUME NEW p \in Programs, NEW a \in DOMAIN p.code
  PROVE  Dests(p, p.code[a]) \subseteq DOMAIN p.code
<1>1. WellFormed(p)
  BY CompilerAssumption
<1> QED
  BY <1>1 DEF WellFormed

\* Code ends with RETN.
LEMMA LastInstr ==
  ASSUME NEW p \in Programs
  PROVE  \E z \in DOMAIN p.code : p.code[z].op = "retn" /\ \A a \in DOMAIN p.code : a <= z
<1>1. /\ p.size \in Nat /\ 0 \in DOMAIN p.code /\ DOMAIN p.code \subseteq 0..(p.size - 1)
      /\ \A a \in DOMAIN p.code : /\ Cells(p.code[a]) \in Nat \ {0}
                                  /\ a + Cells(p.code[a]) \in DOMAIN p.code \cup {p.size}
  BY InOrder
<1>2. PICK z \in DOMAIN p.code : \A a \in DOMAIN p.code : a <= z
  <2>1. DOMAIN p.code \in SUBSET Nat /\ \A a \in DOMAIN p.code : a <= p.size
    BY <1>1
  <2> QED
    BY <1>1, <2>1, GreatestNatural
<1>3. z + Cells(p.code[z]) = p.size
  <2>1. Cells(p.code[z]) \in Nat \ {0} /\ z \in Nat
    BY <1>1
  <2>2. z + Cells(p.code[z]) \notin DOMAIN p.code
    BY <1>2, <2>1
  <2> QED
    BY <1>1, <2>2
<1>4. p.code[z].op = "retn"
  <2>1. WellFormed(p)
    BY CompilerAssumption
  <2> QED
    BY <1>3, <2>1 DEF WellFormed
<1> QED
  BY <1>2, <1>4
-----------------------------------------------------------------------------
(* Translation. *)

\* Natives are found by their addresses.
LEMMA FoundNative ==
  ASSUME NEW address, prog \in Programs, FindNative(address) # 0
  PROVE  /\ Native(FindNative(address)) /\ Address(FindNative(address)) = address
<1> DEFINE found == {n \in DOMAIN prog.natives : Address(n) = address}
<1>1. found \in SUBSET Nat
  <2>1. IsScript(prog) /\ Base \in Nat
    BY ScriptAssumption, CompilerAssumption
  <2> QED
    BY <2>1 DEF IsScript
<1>2. found # {}
  BY DEF FindNative
<1>3. FindNative(address) = CHOOSE n \in found : \A m \in found : n <= m
  BY <1>2 DEF FindNative
<1>4. \E n \in found : \A m \in found : n <= m
  <2> HIDE DEF found
  <2> QED
    BY <1>1, <1>2, LeastNatural
<1>5. FindNative(address) \in found
  BY <1>3, <1>4
<1> QED
  BY <1>5 DEF Native

\* The code of a native that is compiled in line is the function of that native.
LEMMA InlineRight ==
  ASSUME NEW n, prog \in Programs, Native(n), Name(n) \in DOMAIN Intrinsics
  PROVE  Intrinsics[Name(n)] = prog.natives[n].address
<1>1. WellFormed(prog)
  BY CompilerAssumption
<1>2. \A m \in DOMAIN prog.natives : prog.natives[m].name \in DOMAIN Intrinsics =>
        prog.natives[m].address = Intrinsics[prog.natives[m].name]
  BY <1>1 DEF WellFormed
<1> QED
  BY <1>2 DEF Native, Name

\* What the interpreter has patched is still a call of a native.
LEMMA Instr ==
  ASSUME CompilerTypes, NEW a \in At
  PROVE  \/ InstrAt(a) = prog.code[a] /\ a \notin patched
         \/ /\ a \in patched /\ Op(a) = "sysreq.c" /\ prog.code[a].arg \in bound
            /\ InstrAt(a) = [op |-> "sysreq.d",
                             arg |-> prog.natives[prog.code[a].arg].address]
<1>1. CASE a \notin patched
  BY <1>1 DEF InstrAt
<1>2. CASE a \in patched
  <2>1. Op(a) = "sysreq.c" /\ prog.code[a].arg \in bound
    BY <1>2 DEF CompilerTypes
  <2> QED
    BY <1>2, <2>1 DEF InstrAt, Address
<1> QED
  BY <1>1, <1>2

\* Whatever is known of natives when an instruction is compiled, its code is a
\* translation of it.
LEMMA EmittedRight ==
  ASSUME CompilerTypes, NEW a \in At, Translates(InstrAt(a))
  PROVE  Translation(prog, a, Emitted(InstrAt(a), a))
<1> DEFINE i == prog.code[a]
<1>1. prog \in Programs /\ bound \subseteq DOMAIN prog.natives
  BY DEF CompilerTypes
<1>2. i.op # "sysreq.d" /\ \A n \in DOMAIN prog.natives : prog.natives[n].address # 0
  <2>1. IsScript(prog)
    BY <1>1, ScriptAssumption
  <2> QED
    BY <2>1 DEF IsScript, At
<1>3. CASE InstrAt(a) = i /\ i.op # "sysreq.c"
  BY <1>2, <1>3 DEF Emitted, Translation
<1>4. CASE InstrAt(a) = i /\ i.op = "sysreq.c"
  <2>1. Native(i.arg)
    BY <1>4 DEF Translates
  <2>2. Emitted(i, a) = EmittedSysreq(i, i.arg)
    BY <1>4 DEF Emitted
  <2>3. CASE Name(i.arg) \in DOMAIN Intrinsics
    <3>1. Emitted(i, a) = [op |-> "intrinsic", arg |-> Name(i.arg)]
      BY <2>2, <2>3 DEF EmittedSysreq
    <3>2. Intrinsics[Name(i.arg)] = prog.natives[i.arg].address
      BY <1>1, <2>1, <2>3, InlineRight
    <3> QED
      BY <1>4, <2>1, <3>1, <3>2 DEF Translation, Native
  <2>4. CASE Name(i.arg) \notin DOMAIN Intrinsics /\ EnableSysreqD /\ Address(i.arg) # 0
    <3>1. Emitted(i, a) = [op |-> "sysreq.d", arg |-> Address(i.arg)]
      BY <1>4, <2>2, <2>4 DEF EmittedSysreq
    <3>2. Address(i.arg) = prog.natives[i.arg].address
      BY <2>4 DEF Address
    <3> QED
      BY <1>4, <2>1, <3>1, <3>2 DEF Translation, Native
  <2>5. CASE Name(i.arg) \notin DOMAIN Intrinsics /\ ~(EnableSysreqD /\ Address(i.arg) # 0)
    <3>1. Emitted(i, a) = i
      BY <1>4, <2>2, <2>5 DEF EmittedSysreq
    <3> QED
      BY <1>4, <2>1, <3>1 DEF Translation, Native
  <2> QED
    BY <2>3, <2>4, <2>5
<1>5. CASE /\ a \in patched /\ i.op = "sysreq.c" /\ i.arg \in bound
           /\ InstrAt(a) = [op |-> "sysreq.d", arg |-> prog.natives[i.arg].address]
  <2>1. PICK address : address = prog.natives[i.arg].address
    OBVIOUS
  <2>2. InstrAt(a).op = "sysreq.d" /\ InstrAt(a).arg = address /\ address # 0
    BY <1>1, <1>2, <1>5, <2>1
  <2>3. PICK n : n = FindNative(address)
    OBVIOUS
  <2>4. n # 0
    BY <2>2, <2>3 DEF Translates
  <2>5. Native(n) /\ Address(n) = address
    BY <1>1, <2>3, <2>4, FoundNative
  <2>6. prog.natives[n].address = address
    BY <2>2, <2>5 DEF Address
  <2>7. Emitted(InstrAt(a), a) = EmittedSysreq(InstrAt(a), n)
    BY <2>2, <2>3 DEF Emitted
  <2>8. Native(i.arg)
    BY <1>1, <1>5 DEF Native
  <2>9. CASE Name(n) \in DOMAIN Intrinsics
    <3>1. Emitted(InstrAt(a), a) = [op |-> "intrinsic", arg |-> Name(n)]
      BY <2>7, <2>9 DEF EmittedSysreq
    <3>2. Intrinsics[Name(n)] = address
      BY <1>1, <2>5, <2>6, <2>9, InlineRight
    <3>3. i.op = "sysreq.c" /\ i.arg \in DOMAIN prog.natives
      BY <1>5, <2>8 DEF Native
    <3>4. PICK x : /\ x = Emitted(InstrAt(a), a) /\ x.op = "intrinsic"
                   /\ Intrinsics[x.arg] = prog.natives[i.arg].address
      BY <2>1, <3>1, <3>2
    <3>5. Translation(prog, a, x)
      BY <3>3, <3>4 DEF Translation
    <3> QED
      BY <3>4, <3>5
  <2>10. CASE Name(n) \notin DOMAIN Intrinsics
    <3>1. Emitted(InstrAt(a), a) = InstrAt(a)
      BY <2>2, <2>7, <2>10 DEF EmittedSysreq
    <3> QED
      BY <1>5, <2>1, <2>2, <2>8, <3>1 DEF Translation, Native
  <2> QED
    BY <2>9, <2>10
<1> QED
  BY <1>3, <1>4, <1>5, Instr DEF Op

\* Every stretch of Align positions has one that is a multiple of it.
LEMMA AlignedThere ==
  ASSUME NEW pos \in Nat
  PROVE  Aligned(pos) \in Nat /\ Aligned(pos) >= pos
<1> DEFINE T == {n \in Nat : \E q \in n..(n + Align - 1) : q % Align = 0}
<1>1. Align \in Nat \ {0}
  BY CompilerAssumption
<1>2. 0 \in T
  BY <1>1
<1>3. ASSUME NEW n \in T PROVE n + 1 \in T
  <2>1. PICK q \in n..(n + Align - 1) : q % Align = 0
    OBVIOUS
  <2>2. CASE q = n
    <3>1. q \in Nat
      BY <1>1
    <3>2. (q + Align) % Align = 0
      BY <1>1, <2>1, <3>1, NextMultiple, Zenon
    <3> QED
      BY <1>1, <2>2, <3>2
  <2>3. CASE q # n
    BY <1>1, <2>1, <2>3
  <2> QED
    BY <2>2, <2>3
<1>4. pos \in T
  <2>1. T \in SUBSET Nat
    OBVIOUS
  <2> HIDE DEF T
  <2> QED
    BY <1>2, <1>3, <2>1, InductiveSet
<1>5. \E q \in pos..(pos + Align - 1) : q % Align = 0
  BY <1>4
<1>6. Aligned(pos) \in pos..(pos + Align - 1)
  BY <1>5 DEF Aligned
<1> QED
  BY <1>1, <1>6
-----------------------------------------------------------------------------
(* The two passes keep CompilerInv. *)

LEMMA CompilerInvInit == CompilerInit => CompilerInv
<1> SUFFICES ASSUME CompilerInit PROVE CompilerInv
  OBVIOUS
<1>1. prog \in Programs /\ 0 \in At /\ DOMAIN map = {} /\ DOMAIN labels = {}
  BY InOrder DEF CompilerInit, At
<1>2. CompilerTypes
  BY <1>1 DEF CompilerInit, CompilerTypes
<1> QED
  BY <1>2 DEF CompilerInit, CompilerInv

LEMMA RegisterKeeps ==
  ASSUME CompilerInv, NEW n \in DOMAIN prog.natives, Register(n)
  PROVE  CompilerInv'
<1>1. /\ UNCHANGED <<prog, patched, phase, cur, size, entries, map, labels, code, table>>
      /\ bound' = bound \cup {n}
  BY DEF Register
<1>2. CompilerTypes'
  BY <1>1 DEF CompilerInv, CompilerTypes, At, Op
<1>3. TranslatedOK => TranslatedOK'
  BY <1>1 DEF TranslatedOK, MapOK, LabelsOK, CodeOK, Decoded, At, Op, Units
<1>4. TableOK => TableOK'
  BY <1>1 DEF TableOK, Entry
<1>5. Entries' = Entries
  BY <1>1 DEF Entries
<1> QED
  BY <1>1, <1>2, <1>3, <1>4, <1>5 DEF CompilerInv

LEMMA PatchKeeps ==
  ASSUME CompilerInv, NEW a \in DOMAIN prog.code, Patch(a)
  PROVE  CompilerInv'
<1>1. /\ UNCHANGED <<prog, bound, phase, cur, size, entries, map, labels, code, table>>
      /\ patched' = patched \cup {a} /\ phase = "table"
      /\ Op(a) = "sysreq.c" /\ prog.code[a].arg \in bound
  BY DEF Patch, Op
<1>2. CompilerTypes'
  BY <1>1 DEF CompilerInv, CompilerTypes, At, Op
<1> QED
  BY <1>1, <1>2 DEF CompilerInv

LEMMA CodeFinite ==
  ASSUME NEW p \in Programs
  PROVE  DOMAIN p.code \in SUBSET Nat /\ IsFiniteSet(DOMAIN p.code)
<1>1. p.size \in Nat /\ DOMAIN p.code \subseteq 0..(p.size - 1)
  BY InOrder
<1>2. IsFiniteSet(0..(p.size - 1))
  <2>1. 0 \in Int /\ p.size - 1 \in Int
    BY <1>1
  <2> QED
    BY <2>1, FS_Interval
<1> QED
  BY <1>1, <1>2, FS_Subset

LEMMA EmitTableKeeps == CompilerInv /\ EmitInstrTable => CompilerInv'
<1> SUFFICES ASSUME CompilerInv, EmitInstrTable PROVE CompilerInv'
  OBVIOUS
<1>1. /\ UNCHANGED <<prog, bound, patched, cur, map, labels, code, table>>
      /\ phase = "table" /\ phase' = "decode" /\ entries' = Entries /\ size' = Entries + Helpers
      /\ cur = 0 /\ map = <<>> /\ labels = <<>> /\ code = <<>> /\ prog \in Programs
  BY DEF EmitInstrTable, CompilerInv, CompilerTypes
<1>2. Entries \in Nat
  <2> DEFINE counted == {a \in DOMAIN prog.code :
                           \A b \in DOMAIN prog.code : b <= a => Decodes(prog.code[b])}
  <2>1. counted \in SUBSET DOMAIN prog.code
    OBVIOUS
  <2>2. Entries = Cardinality(counted)
    BY DEF Entries
  <2>3. IsFiniteSet(DOMAIN prog.code)
    BY <1>1, CodeFinite
  <2> HIDE DEF counted
  <2> QED
    BY <2>1, <2>2, <2>3, FS_Subset, FS_CardinalityType
<1>3. size' \in Nat /\ size' >= 1 /\ entries' \in Nat /\ entries' = Entries'
  <2>1. Helpers \in Nat \ {0}
    BY CompilerAssumption
  <2>2. Entries' = Entries
    BY <1>1 DEF Entries
  <2> QED
    BY <1>1, <1>2, <2>1, <2>2
<1>4. CompilerTypes'
  BY <1>1, <1>3 DEF CompilerInv, CompilerTypes, At, Op
<1>5. Decoded' = {} /\ DOMAIN map' = {} /\ DOMAIN code' = {}
  <2>1. At \subseteq Nat
    BY <1>1, CodeFinite DEF At
  <2>2. cur' = 0 /\ At' = At
    BY <1>1 DEF At
  <2>3. Decoded' = {}
    <3> SUFFICES ASSUME NEW a \in Decoded' PROVE FALSE
      OBVIOUS
    <3>1. a \in At' /\ a < cur'
      BY DEF Decoded
    <3> QED
      BY <2>1, <2>2, <3>1
  <2>4. DOMAIN map = {} /\ DOMAIN code = {}
    BY <1>1
  <2> QED
    BY <1>1, <2>3, <2>4
<1>6. MapOK'
  BY <1>5 DEF MapOK
<1>7. LabelsOK' /\ CodeOK'
  BY <1>5 DEF LabelsOK, CodeOK
<1> QED
  BY <1>1, <1>3, <1>4, <1>6, <1>7 DEF CompilerInv, TranslatedOK

LEMMA FinishKeeps == CompilerInv /\ CompilerFinish => CompilerInv'
<1> SUFFICES ASSUME CompilerInv, CompilerFinish PROVE CompilerInv'
  OBVIOUS
<1>1. /\ UNCHANGED <<prog, bound, patched, cur, size, entries, map, labels, code>>
      /\ phase = "decode" /\ phase' = "ready" /\ cur >= prog.size
      /\ table' = [k \in 1..Cardinality(DOMAIN map) |-> Entry(k)]
  BY DEF CompilerFinish
<1>2. CompilerTypes'
  BY <1>1 DEF CompilerInv, CompilerTypes, At, Op
<1>3. TranslatedOK'
  <2>1. TranslatedOK
    BY <1>1 DEF CompilerInv
  <2> QED
    BY <1>1, <2>1 DEF TranslatedOK, MapOK, LabelsOK, CodeOK, Decoded, At, Op, Units
<1>4. TableOK'
  BY <1>1 DEF TableOK, Entry
<1>5. cur = prog.size
  <2>1. /\ prog \in Programs /\ cur \in At \cup {prog.size}
    BY DEF CompilerInv, CompilerTypes
  <2>2. prog.size \in Nat /\ At \subseteq 0..(prog.size - 1)
    BY <2>1, InOrder DEF At
  <2> QED
    BY <1>1, <2>1, <2>2
<1>6. entries' = Entries' /\ size' >= 1
  BY <1>1 DEF CompilerInv, Entries
<1> QED
  BY <1>1, <1>2, <1>3, <1>4, <1>5, <1>6 DEF CompilerInv

\* One turn of the loop: the instruction at cur, its position, and what it
\* adds to maps, labels and code.
Turn(i, pos) ==
  /\ i = InstrAt(cur) /\ pos = IF i.op = "proc" THEN Aligned(size) ELSE size
  /\ UNCHANGED <<prog, bound, patched, entries, table>>
  /\ cur' = cur + Cells(i)
  /\ labels' = LabelsWith(cur, pos, Dests(prog, i))
  /\ map' = [a \in DOMAIN map \cup {cur} |-> IF a = cur THEN pos ELSE map[a]]
  /\ IF EmitsNothing(i) \/ ~Translates(i) THEN size' = pos /\ UNCHANGED code
     ELSE /\ size' = pos + 1
          /\ code' = [q \in DOMAIN code \cup {pos} |->
                        IF q = pos THEN Emitted(i, cur) ELSE code[q]]
  /\ phase' = IF Translates(i) THEN phase ELSE "null"

\* An instruction is as long as it stands in the script, patched or not.
LEMMA TurnAt ==
  ASSUME CompilerInv, phase = "decode", cur < prog.size, NEW i, NEW pos, Turn(i, pos)
  PROVE  /\ cur \in At /\ cur' \in At \cup {prog.size} /\ At \subseteq Nat
         /\ \A a \in At : a < cur' <=> a < cur \/ a = cur
         /\ Decoded' = Decoded \cup {cur} /\ cur \notin Decoded
         /\ pos \in Nat /\ pos >= size /\ (Op(cur) # "proc" => pos = size)
         /\ EmitsNothing(i) <=> Units(cur) = 0
         /\ Cells(i) = Cells(prog.code[cur]) /\ Dests(prog, i) \subseteq At
<1>1. /\ prog \in Programs /\ cur \in At \cup {prog.size} /\ size \in Nat /\ prog' = prog
      /\ cur' = cur + Cells(i) /\ i = InstrAt(cur)
      /\ pos = IF i.op = "proc" THEN Aligned(size) ELSE size
  BY DEF CompilerInv, CompilerTypes, Turn
<1>2. /\ prog.size \in Nat /\ At \subseteq 0..(prog.size - 1)
      /\ \A a \in At : /\ Cells(prog.code[a]) \in Nat \ {0}
                       /\ a + Cells(prog.code[a]) \in At \cup {prog.size}
      /\ \A a, b \in At : a < b => a + Cells(prog.code[a]) <= b
  BY <1>1, InOrder DEF At
<1>3. cur \in At
  BY <1>1, <1>2
<1>4. /\ Cells(i) = Cells(prog.code[cur]) /\ (EmitsNothing(i) <=> EmitsNothing(prog.code[cur]))
      /\ (i.op = "proc" <=> Op(cur) = "proc") /\ Dests(prog, i) \subseteq At
  <2>1. CASE i = prog.code[cur]
    BY <1>1, <1>3, <2>1, DestsThere DEF Op, At
  <2>2. CASE i.op = "sysreq.d" /\ Op(cur) = "sysreq.c"
    BY <2>2 DEF Cells, EmitsNothing, Dests, Op
  <2> QED
    BY <1>1, <1>3, <2>1, <2>2, Instr DEF CompilerInv
<1>5. cur' \in At \cup {prog.size} /\ \A a \in At : a < cur' <=> a < cur \/ a = cur
  <2>1. cur' = cur + Cells(prog.code[cur]) /\ Cells(prog.code[cur]) \in Nat \ {0} /\ cur \in Nat
    BY <1>1, <1>2, <1>3, <1>4
  <2>2. ASSUME NEW a \in At PROVE a < cur' <=> a < cur \/ a = cur
    <3>1. a \in Nat /\ (cur < a => cur' <= a)
      BY <1>2, <1>3, <2>1
    <3> QED
      BY <2>1, <3>1
  <2> QED
    BY <1>2, <1>3, <2>1, <2>2
<1>6. Decoded' = Decoded \cup {cur} /\ cur \notin Decoded
  <2>1. At' = At /\ ~(cur < cur)
    BY <1>1, <1>2, <1>3 DEF At
  <2> QED
    BY <1>3, <1>5, <2>1 DEF Decoded
<1>7. pos \in Nat /\ pos >= size /\ (Op(cur) # "proc" => pos = size)
  BY <1>1, <1>4, AlignedThere
<1> QED
  BY <1>2, <1>3, <1>4, <1>5, <1>6, <1>7 DEF Units

LEMMA TurnKeepsTypes ==
  ASSUME CompilerInv, phase = "decode", cur < prog.size, NEW i, NEW pos, Turn(i, pos)
  PROVE  CompilerTypes' /\ size' \in Nat /\ size' >= pos
<1>1. /\ CompilerTypes /\ prog' = prog /\ bound' = bound /\ patched' = patched
      /\ entries' = entries /\ At' = At
  BY DEF CompilerInv, Turn, At
<1>2. /\ cur \in At /\ cur' \in At \cup {prog.size} /\ Dests(prog, i) \subseteq At
      /\ pos \in Nat /\ pos >= size /\ size \in Nat
  BY TurnAt DEF CompilerInv, CompilerTypes
<1>3. size' \in Nat /\ size' >= pos
  BY <1>2 DEF Turn
<1>4. DOMAIN map' \subseteq At
  BY <1>1, <1>2 DEF Turn, CompilerTypes
<1>5. /\ DOMAIN labels' \subseteq At
      /\ \A a \in DOMAIN labels' : labels'[a] \in 0..size' \cup {None}
  <2>1. labels' = LabelsWith(cur, pos, Dests(prog, i))
    BY DEF Turn
  <2>2. DOMAIN labels' = DOMAIN labels \cup Dests(prog, i) \cup {cur}
    BY <2>1 DEF LabelsWith
  <2>3. ASSUME NEW a \in DOMAIN labels' PROVE labels'[a] \in 0..size' \cup {None}
    <3>1. labels'[a] = IF a = cur THEN pos ELSE IF a \in DOMAIN labels THEN labels[a] ELSE None
      BY <2>1, <2>2 DEF LabelsWith
    <3>2. a \in DOMAIN labels => labels[a] \in 0..size \cup {None}
      BY <1>1 DEF CompilerTypes
    <3> QED
      BY <1>2, <1>3, <3>1, <3>2
  <2> QED
    BY <1>1, <1>2, <2>2, <2>3 DEF CompilerTypes
<1>6. phase' \in {"table", "decode", "ready", "null"}
  BY DEF Turn
<1>7. patched' \subseteq {a \in At' : Op(a)' = "sysreq.c" /\ prog'.code[a].arg \in bound'}
  BY <1>1 DEF CompilerTypes, Op
<1> QED
  BY <1>1, <1>2, <1>3, <1>4, <1>5, <1>6, <1>7 DEF CompilerTypes

\* The maps, when the instruction has been translated.
LEMMA TurnTranslates ==
  ASSUME CompilerInv, phase = "decode", cur < prog.size, NEW i, NEW pos, Turn(i, pos),
         Translates(i)
  PROVE  TranslatedOK'
<1>1. /\ prog' = prog /\ At' = At /\ prog.code' = prog.code
      /\ map' = [a \in DOMAIN map \cup {cur} |-> IF a = cur THEN pos ELSE map[a]]
  BY DEF Turn, At
<1>2. /\ cur \in At /\ At \subseteq Nat /\ cur \in Nat /\ cur' = cur + Cells(prog.code[cur])
      /\ Decoded' = Decoded \cup {cur} /\ cur \notin Decoded
      /\ pos \in Nat /\ pos >= size /\ pos >= 1 /\ (Op(cur) # "proc" => pos = size)
      /\ size \in Nat /\ (EmitsNothing(i) <=> Units(cur) = 0)
  <2>1. size \in Nat /\ size >= 1
    BY DEF CompilerInv, CompilerTypes
  <2>2. cur' = cur + Cells(i)
    BY DEF Turn
  <2> QED
    BY <2>1, <2>2, TurnAt
<1>3. MapOK /\ LabelsOK /\ CodeOK
  BY DEF CompilerInv, TranslatedOK
<1>4. size' = pos + Units(cur)
  BY <1>2 DEF Turn, Units
<1>5. \A a \in At : Units(a)' = Units(a) /\ Op(a)' = Op(a) /\ Units(a) \in {0, 1}
  BY <1>1 DEF Units, Op
<1>6. map'[cur] = pos /\ DOMAIN map' = Decoded' /\ \A a \in Decoded : map'[a] = map[a]
  BY <1>1, <1>2, <1>3 DEF MapOK
<1>7. \A a \in Decoded : /\ a \in At /\ a \in Nat /\ a < cur /\ map[a] \in Nat /\ map[a] >= 1
                         /\ map[a] + Units(a) <= size
  BY <1>2, <1>3 DEF MapOK, Decoded
<1>8. MapOK'
  <2>1. \A a \in Decoded' : map'[a] \in Nat /\ map'[a] >= 1 /\ map'[a] + Units(a)' <= size'
    BY <1>2, <1>4, <1>5, <1>6, <1>7
  <2>2. ASSUME NEW a \in Decoded', NEW b \in Decoded', a < b
        PROVE  map'[a] + Units(a)' <= map'[b]
    <3>1. a \in Decoded
      <4>1. ~(cur < b)
        BY <1>2, <1>7
      <4> QED
        BY <1>2, <2>2, <4>1
    <3>2. CASE b = cur
      BY <1>2, <1>5, <1>6, <1>7, <3>1, <3>2
    <3>3. CASE b \in Decoded
      BY <1>3, <1>5, <1>6, <1>7, <2>2, <3>1, <3>3 DEF MapOK
    <3> QED
      BY <1>2, <3>2, <3>3
  <2>3. ASSUME NEW a \in Decoded', NEW b \in Decoded',
             b = a + Cells(prog.code[a]), Op(b) # "proc"
        PROVE  map'[b] = map'[a] + Units(a)'
    <3>1. a \in Decoded
      <4>1. Cells(prog.code[cur]) \in Nat \ {0}
        BY <1>2, InOrder DEF CompilerInv, CompilerTypes, At
      <4>2. cur + Cells(prog.code[cur]) \notin Decoded'
        BY <1>2, <1>7, <4>1
      <4> QED
        BY <1>2, <2>3, <4>2
    <3>2. CASE b = cur
      BY <1>2, <1>3, <1>5, <1>6, <1>7, <2>3, <3>1, <3>2 DEF MapOK
    <3>3. CASE b \in Decoded
      BY <1>3, <1>5, <1>6, <1>7, <2>3, <3>1, <3>3 DEF MapOK
    <3> QED
      BY <1>2, <3>2, <3>3
  <2>4. ASSUME NEW a \in Decoded', cur' = a + Cells(prog.code[a])
        PROVE  size' = map'[a] + Units(a)'
    <3>1. a = cur
      <4> SUFFICES ASSUME a \in Decoded PROVE FALSE
        BY <1>2
      <4>1. a + Cells(prog.code[a]) <= cur
        BY <1>2, <1>7, InOrder DEF CompilerInv, CompilerTypes, At
      <4>2. Cells(prog.code[cur]) \in Nat \ {0}
        BY <1>2, InOrder DEF CompilerInv, CompilerTypes, At
      <4> QED
        BY <1>2, <2>4, <4>1, <4>2
    <3> QED
      BY <1>2, <1>4, <1>5, <1>6, <3>1
  <2>5. ASSUME NEW a \in Decoded', NEW b \in Decoded',
               b = a + Cells(prog.code[a])', Op(b)' # "proc"
        PROVE  map'[b] = map'[a] + Units(a)'
    <3>1. a \in At /\ b \in At
      BY <1>2, <1>7
    <3>2. b = a + Cells(prog.code[a]) /\ Op(b) # "proc"
      BY <1>1, <1>5, <2>5, <3>1
    <3> QED
      BY <2>3, <3>2
  <2>6. ASSUME NEW a \in Decoded', cur' = a + Cells(prog.code[a])'
        PROVE  size' = map'[a] + Units(a)'
    <3>1. cur' = a + Cells(prog.code[a])
      BY <1>1, <2>6
    <3> QED
      BY <2>4, <3>1
  <2> QED
    BY <1>6, <2>1, <2>2, <2>5, <2>6 DEF MapOK
<1>9. LabelsOK'
  <2>1. labels' = LabelsWith(cur, pos, Dests(prog, i))
    BY DEF Turn
  <2>2. labels'[cur] = pos /\ cur \in DOMAIN labels'
    BY <2>1 DEF LabelsWith
  <2>3. \A a \in Decoded : a \in DOMAIN labels' /\ labels'[a] = labels[a]
    BY <1>2, <1>3, <2>1 DEF LabelsWith, LabelsOK
  <2> QED
    BY <1>2, <1>3, <1>6, <2>2, <2>3 DEF LabelsOK
<1>10. Op(cur) \notin {"data", "jrel"}
  BY <1>2, Instr DEF CompilerInv, Translates, Op, Turn
<1>11. CodeOK'
  <2>1. Translation(prog, cur, Emitted(i, cur))
    BY <1>2, EmittedRight DEF CompilerInv, Turn
  <2>2. \A a \in Decoded' : Op(a)' \notin {"data", "jrel"}
    BY <1>2, <1>3, <1>5, <1>7, <1>10 DEF CodeOK
  <2>3. \A a \in {b \in Decoded : Units(b) = 1} :
          map[a] \in DOMAIN code /\ Translation(prog, a, code[map[a]])
    BY <1>3 DEF CodeOK
  <2>4. CASE Units(cur) = 0
    <3>1. code' = code
      BY <1>2, <2>4 DEF Turn
    <3>2. \A a \in Decoded' : Units(a)' = 1 => a \in Decoded
      BY <1>2, <1>5, <2>4
    <3>3. {map'[a] : a \in {b \in Decoded' : Units(b)' = 1}} = {map[a] : a \in {b \in Decoded : Units(b) = 1}}
      BY <1>2, <1>5, <1>6, <1>7, <3>2
    <3>4. \A a \in Decoded' : Units(a)' = 1 => Translation(prog, a, code'[map'[a]])
      BY <1>5, <1>6, <1>7, <2>3, <3>1, <3>2
    <3> QED
      BY <1>1, <1>3, <2>2, <3>1, <3>3, <3>4 DEF CodeOK
  <2>5. CASE Units(cur) = 1
    <3>1. code' = [q \in DOMAIN code \cup {pos} |-> IF q = pos THEN Emitted(i, cur) ELSE code[q]]
      BY <1>2, <2>5 DEF Turn
    <3>2. \A a \in Decoded : Units(a) = 1 => map[a] # pos
      BY <1>2, <1>7
    <3>3. {map'[a] : a \in {b \in Decoded' : Units(b)' = 1}}
            = {map[a] : a \in {b \in Decoded : Units(b) = 1}} \cup {pos}
      BY <1>2, <1>5, <1>6, <1>7, <2>5
    <3>4. ASSUME NEW a \in Decoded', Units(a)' = 1 PROVE Translation(prog, a, code'[map'[a]])
      <4>1. CASE a = cur
        BY <1>6, <2>1, <3>1, <4>1
      <4>2. CASE a \in Decoded
        <5>1. map[a] \in DOMAIN code /\ Translation(prog, a, code[map[a]]) /\ map[a] # pos
          BY <1>5, <1>7, <2>3, <3>2, <3>4, <4>2
        <5>2. map'[a] = map[a] /\ code'[map[a]] = code[map[a]]
          BY <1>6, <3>1, <4>2, <5>1
        <5> QED
          BY <5>1, <5>2
      <4> QED
        BY <1>2, <4>1, <4>2
    <3>5. DOMAIN code' = DOMAIN code \cup {pos}
      BY <3>1
    <3> QED
      BY <1>1, <1>3, <2>2, <3>3, <3>4, <3>5 DEF CodeOK
  <2> QED
    BY <1>2, <1>5, <2>4, <2>5
<1> QED
  BY <1>8, <1>9, <1>11 DEF TranslatedOK

LEMMA CompileKeeps == CompilerInv /\ CompileInstr => CompilerInv'
<1> SUFFICES ASSUME CompilerInv, CompileInstr PROVE CompilerInv'
  OBVIOUS
<1>1. phase = "decode" /\ cur < prog.size /\ entries = Entries /\ size >= 1 /\ size \in Nat
  BY DEF CompileInstr, CompilerInv, CompilerTypes
<1>2. entries' = Entries'
  BY <1>1 DEF CompileInstr, Entries
<1>3. CASE ~Decodes(InstrAt(cur))
  <2>1. /\ UNCHANGED <<prog, bound, patched, cur, size, entries, map, labels, code, table>>
        /\ phase' = "null"
    BY <1>3 DEF CompileInstr
  <2>2. CompilerTypes'
    BY <2>1 DEF CompilerInv, CompilerTypes, At, Op
  <2> QED
    BY <1>1, <1>2, <2>1, <2>2 DEF CompilerInv
<1>4. CASE Decodes(InstrAt(cur))
  <2>1. PICK i : i = InstrAt(cur)
    OBVIOUS
  <2>2. PICK pos : pos = IF i.op = "proc" THEN Aligned(size) ELSE size
    OBVIOUS
  <2>3. Turn(i, pos)
    BY <1>4, <2>1, <2>2 DEF CompileInstr, Turn, Recorded
  <2>4. CompilerTypes' /\ size' >= 1
    BY <1>1, <2>3, TurnKeepsTypes, TurnAt
  <2>5. phase' \in {"decode", "null"} /\ (phase' = "decode" => TranslatedOK')
    BY <1>1, <2>3, TurnTranslates DEF Turn
  <2> QED
    BY <1>2, <2>4, <2>5 DEF CompilerInv
<1> QED
  BY <1>3, <1>4

LEMMA CompilerKeeps == CompilerInv /\ CompilerNext => CompilerInv'
BY RegisterKeeps, PatchKeeps, EmitTableKeeps, CompileKeeps, FinishKeeps DEF CompilerNext

LEMMA CompilerStays == CompilerInv /\ UNCHANGED compilerVars => CompilerInv'
<1> SUFFICES ASSUME CompilerInv, UNCHANGED compilerVars PROVE CompilerInv'
  OBVIOUS
<1>1. UNCHANGED <<prog, bound, patched, phase, cur, size, entries, map, labels, code, table>>
  BY DEF compilerVars
<1>2. CompilerTypes'
  BY <1>1 DEF CompilerInv, CompilerTypes, At, Op
<1>3. TranslatedOK => TranslatedOK'
  BY <1>1 DEF TranslatedOK, MapOK, LabelsOK, CodeOK, Decoded, At, Op, Units
<1>4. TableOK => TableOK'
  BY <1>1 DEF TableOK, Entry
<1>5. Entries' = Entries
  BY <1>1 DEF Entries
<1> QED
  BY <1>1, <1>2, <1>3, <1>4, <1>5 DEF CompilerInv
-----------------------------------------------------------------------------
(* Finished code. *)

Ready == CompilerInv /\ phase = "ready"

LEMMA AllTranslated ==
  ASSUME Ready
  PROVE  /\ prog \in Programs /\ At \in SUBSET Nat /\ IsFiniteSet(At) /\ Decoded = At
         /\ DOMAIN map = At /\ entries = Cardinality(At)
         /\ \A a \in At : Op(a) \notin {"data", "jrel"}
<1>1. prog \in Programs /\ TranslatedOK /\ cur = prog.size /\ entries = Entries
  BY DEF Ready, CompilerInv, CompilerTypes
<1>2. At \in SUBSET Nat /\ IsFiniteSet(At) /\ \A a \in At : a < prog.size
  <2>1. prog.size \in Nat /\ At \subseteq 0..(prog.size - 1)
    BY <1>1, InOrder DEF At
  <2>2. IsFiniteSet(At)
    BY <1>1, CodeFinite DEF At
  <2> QED
    BY <2>1, <2>2
<1>3. Decoded = At
  BY <1>1, <1>2 DEF Decoded
<1>4. \A a \in At : Op(a) \notin {"data", "jrel"}
  BY <1>1, <1>3 DEF TranslatedOK, CodeOK
<1>5. Entries = Cardinality(At)
  <2>1. \A a \in DOMAIN prog.code : Decodes(prog.code[a])
    BY <1>4 DEF Decodes, Op, At
  <2>2. {a \in DOMAIN prog.code :
           \A b \in DOMAIN prog.code : b <= a => Decodes(prog.code[b])} = DOMAIN prog.code
    BY <2>1
  <2> QED
    BY <2>2 DEF Entries, At
<1>6. DOMAIN map = At
  BY <1>1, <1>3 DEF TranslatedOK, MapOK
<1> QED
  BY <1>1, <1>2, <1>3, <1>4, <1>5, <1>6

\* Code follows code.
LEMMA MapRight ==
  ASSUME Ready
  PROVE  /\ \A a \in At : map[a] \in Nat /\ map[a] >= 1 /\ Units(a) \in {0, 1}
         /\ \A a, b \in At : a < b => map[a] + Units(a) <= map[b]
         /\ \A a, b \in At : b = a + Cells(prog.code[a]) /\ Op(b) # "proc" =>
                               map[b] = map[a] + Units(a)
         /\ \A a \in At : a \in DOMAIN labels /\ labels[a] = map[a]
<1>1. TranslatedOK /\ Decoded = At
  BY AllTranslated DEF Ready, CompilerInv
<1> QED
  BY <1>1 DEF TranslatedOK, MapOK, LabelsOK, Units

\* The table has the instructions in order.
LEMMA TableEntries ==
  ASSUME Ready
  PROVE  /\ entries \in Nat /\ DOMAIN table = 1..entries
         /\ \A k \in 1..entries : /\ table[k].address \in At
                                  /\ Rank(At, table[k].address) = k
                                  /\ table[k].ptr = Base + map[table[k].address]
         /\ \A a \in At : Rank(At, a) \in 1..entries /\ table[Rank(At, a)].address = a
<1>1. At \in SUBSET Nat /\ IsFiniteSet(At) /\ DOMAIN map = At /\ entries = Cardinality(At)
  BY AllTranslated
<1>2. table = [k \in 1..entries |-> Entry(k)]
  BY <1>1 DEF Ready, CompilerInv, TableOK
<1>3. /\ entries \in Nat /\ \A a \in At : Rank(At, a) \in 1..entries
      /\ \A a, b \in At : a < b => Rank(At, a) < Rank(At, b)
      /\ \A k \in 1..entries : \E a \in At : Rank(At, a) = k
  BY <1>1, Ranks
<1>4. ASSUME NEW k \in 1..entries
      PROVE  /\ table[k].address \in At /\ Rank(At, table[k].address) = k
             /\ table[k].ptr = Base + map[table[k].address]
  <2>1. PICK c : c = CHOOSE a \in DOMAIN map : Cardinality({b \in DOMAIN map : b <= a}) = k
    OBVIOUS
  <2>2. \E a \in DOMAIN map : Cardinality({b \in DOMAIN map : b <= a}) = k
    BY <1>1, <1>3 DEF Rank, UpTo
  <2>3. c \in DOMAIN map /\ Cardinality({b \in DOMAIN map : b <= c}) = k
    BY <2>1, <2>2
  <2>4. c \in At /\ Rank(At, c) = k
    BY <1>1, <2>3 DEF Rank, UpTo
  <2>5. Entry(k) = [address |-> c, ptr |-> Base + map[c]]
    BY <2>1 DEF Entry
  <2> QED
    BY <1>2, <2>4, <2>5
<1>5. ASSUME NEW a \in At PROVE table[Rank(At, a)].address = a
  <2>1. PICK b \in At : b = table[Rank(At, a)].address /\ Rank(At, b) = Rank(At, a)
    BY <1>3, <1>4
  <2>2. a \in Nat /\ b \in Nat /\ Rank(At, a) \in Nat
    BY <1>1, <1>3
  <2>3. a < b \/ b < a \/ a = b
    BY <2>2
  <2> QED
    BY <1>3, <2>1, <2>2, <2>3
<1> QED
  BY <1>2, <1>3, <1>4, <1>5

LEMMA InTableOrder ==
  ASSUME Ready, NEW j \in 1..entries, NEW k \in 1..entries, j < k
  PROVE  table[j].address < table[k].address /\ table[j].ptr <= table[k].ptr
<1>1. /\ entries \in Nat /\ table[j].address \in At /\ table[k].address \in At
      /\ Rank(At, table[j].address) = j /\ Rank(At, table[k].address) = k
      /\ table[j].ptr = Base + map[table[j].address] /\ table[k].ptr = Base + map[table[k].address]
  BY TableEntries
<1>2. At \in SUBSET Nat /\ \A a, b \in At : a < b => Rank(At, a) < Rank(At, b)
  BY AllTranslated, Ranks
<1>3. PICK a \in At, b \in At : a = table[j].address /\ b = table[k].address
  BY <1>1
<1>4. a < b
  <2>1. a \in Nat /\ b \in Nat /\ j \in Nat /\ k \in Nat
    BY <1>1, <1>2
  <2>2. a # b /\ ~(b < a)
    BY <1>1, <1>2, <1>3, <2>1
  <2> QED
    BY <2>1, <2>2
<1>5. map[a] <= map[b]
  BY <1>4, MapRight
<1>6. Base \in Nat /\ map[a] \in Nat /\ map[b] \in Nat
  BY MapRight, CompilerAssumption
<1> QED
  BY <1>1, <1>3, <1>4, <1>5, <1>6

\* What binary search finds.
LEMMA Searched ==
  ASSUME NEW S \in SUBSET (1..entries), entries \in Nat
  PROVE  /\ S = {} => LowerBound(S) = entries + 1
         /\ S # {} => LowerBound(S) \in S /\ \A j \in S : LowerBound(S) <= j
<1>1. CASE S = {}
  BY <1>1 DEF LowerBound
<1>2. CASE S # {}
  <2>1. S \in SUBSET Nat
    OBVIOUS
  <2>2. \E k \in S : \A j \in S : k <= j
    BY <1>2, <2>1, LeastNatural
  <2> QED
    BY <1>2, <2>2 DEF LowerBound
<1> QED
  BY <1>1, <1>2

\* Machine code is found by the address of its instruction, ...
LEMMA JITInstrPtr ==
  ASSUME Ready, NEW x \in Int
  PROVE  /\ x \in At => GetJITInstrPtr(x) = Base + map[x]
         /\ x \notin At => GetJITInstrPtr(x) = 0
<1> DEFINE S == {j \in DOMAIN table : table[j].address >= x}
           k == LowerBound(S)
<1>1. /\ entries \in Nat /\ DOMAIN table = 1..entries
      /\ \A j \in 1..entries : /\ table[j].address \in At
                               /\ table[j].ptr = Base + map[table[j].address]
      /\ \A a \in At : Rank(At, a) \in 1..entries /\ table[Rank(At, a)].address = a
  BY TableEntries
<1>2. /\ S = {} => k = entries + 1
      /\ S # {} => k \in S /\ \A j \in S : k <= j
  <2>1. S \in SUBSET (1..entries)
    BY <1>1
  <2> HIDE DEF S
  <2> QED
    BY <1>1, <2>1, Searched
<1>3. GetJITInstrPtr(x) = IF k <= entries /\ table[k].address = x THEN table[k].ptr ELSE 0
  BY DEF GetJITInstrPtr
<1>4. At \in SUBSET Nat
  BY AllTranslated
<1>5. ASSUME x \notin At PROVE GetJITInstrPtr(x) = 0
  <2>1. CASE S = {}
    <3>1. ~(k <= entries)
      BY <1>1, <1>2, <2>1
    <3> HIDE DEF k
    <3> QED
      BY <1>3, <3>1
  <2>2. CASE S # {}
    <3>1. k \in 1..entries
      BY <1>1, <1>2, <2>2
    <3> HIDE DEF k
    <3> QED
      BY <1>1, <1>3, <1>5, <3>1
  <2> QED
    BY <2>1, <2>2
<1>6. ASSUME x \in At PROVE GetJITInstrPtr(x) = Base + map[x]
  <2>1. PICK r \in 1..entries : r = Rank(At, x) /\ table[r].address = x
    BY <1>1, <1>6
  <2>2. r \in S
    BY <1>1, <2>1
  <2>3. k \in 1..entries /\ table[k].address >= x /\ k <= r
    BY <1>1, <1>2, <2>2
  <2> HIDE DEF k, S
  <2>4. k = r
    <3> SUFFICES ASSUME k < r PROVE FALSE
      BY <1>1, <2>1, <2>3
    <3>1. table[k].address < x
      BY <2>1, <2>3, InTableOrder
    <3>2. table[k].address \in Nat
      BY <1>1, <1>4, <2>3
    <3> QED
      BY <2>3, <3>1, <3>2
  <2>5. k <= entries
    BY <1>1, <2>3
  <2> QED
    BY <1>1, <1>3, <1>6, <2>1, <2>4, <2>5
<1> QED
  BY <1>5, <1>6

\* ... and a place in the code, if an instruction begins there, by its place.
LEMMA AMXAddress ==
  ASSUME Ready, NEW b \in At
  PROVE  /\ GetANXAddressByJITInstrPtr(Base + map[b]) \in At
         /\ map[GetANXAddressByJITInstrPtr(Base + map[b])] = map[b]
<1> DEFINE S == {j \in DOMAIN table : table[j].ptr >= Base + map[b]}
           k == LowerBound(S)
<1>1. /\ entries \in Nat /\ DOMAIN table = 1..entries
      /\ \A j \in 1..entries : /\ table[j].address \in At
                               /\ table[j].ptr = Base + map[table[j].address]
      /\ Rank(At, b) \in 1..entries /\ table[Rank(At, b)].address = b
  BY TableEntries
<1>2. /\ S = {} => k = entries + 1
      /\ S # {} => k \in S /\ \A j \in S : k <= j
  <2>1. S \in SUBSET (1..entries)
    BY <1>1
  <2> HIDE DEF S
  <2> QED
    BY <1>1, <2>1, Searched
<1>3. Base \in Nat /\ \A a \in At : map[a] \in Nat
  BY MapRight, CompilerAssumption
<1>4. PICK r \in 1..entries : r = Rank(At, b) /\ table[r].address = b /\ table[r].ptr = Base + map[b]
  BY <1>1
<1>5. r \in S
  BY <1>1, <1>3, <1>4
<1>6. k \in 1..entries /\ table[k].ptr >= Base + map[b] /\ k <= r
  BY <1>1, <1>2, <1>5
<1>7. GetANXAddressByJITInstrPtr(Base + map[b]) =
        IF k <= entries /\ table[k].ptr = Base + map[b] THEN table[k].address ELSE 0
  BY DEF GetANXAddressByJITInstrPtr
<1> HIDE DEF k, S
<1>8. PICK a \in At : a = table[k].address /\ table[k].ptr = Base + map[a]
  BY <1>1, <1>6
<1>9. table[k].ptr = Base + map[b]
  <2>1. table[k].ptr <= table[r].ptr
    <3>1. k = r \/ k < r
      BY <1>1, <1>6
    <3>2. CASE k = r
      BY <1>3, <1>4, <3>2
    <3>3. CASE k < r
      BY <1>6, <3>3, InTableOrder
    <3> QED
      BY <3>1, <3>2, <3>3
  <2> QED
    BY <1>3, <1>4, <1>6, <1>8, <2>1
<1>10. map[a] = map[b]
  BY <1>3, <1>8, <1>9
<1>11. k <= entries
  BY <1>1, <1>6
<1> QED
  BY <1>7, <1>8, <1>9, <1>10, <1>11
-----------------------------------------------------------------------------
(* Places in the code. *)

\* There is code to run from p on.
Spot(p) == p \in Nat \ {0} /\ \E a \in Effective : map[a] >= p

LEMMA EffectiveCode ==
  ASSUME Ready
  PROVE  /\ Effective \subseteq At /\ \A a \in Effective : Units(a) = 1
         /\ DOMAIN code = {map[a] : a \in Effective}
         /\ \A a \in Effective : Translation(prog, a, code[map[a]])
<1>1. CodeOK /\ Decoded = At
  BY AllTranslated DEF Ready, CompilerInv, TranslatedOK
<1>2. {a \in Decoded : Units(a) = 1} = Effective
  BY <1>1 DEF Effective, Units, At
<1>3. Effective \subseteq At
  BY DEF Effective, At
<1>4. \A a \in Effective : a \in Decoded /\ Units(a) = 1
  BY <1>2
<1> QED
  BY <1>1, <1>2, <1>3, <1>4 DEF CodeOK

\* The code that runs from a place on is that of the next instruction that has any.
LEMMA Landed ==
  ASSUME Ready, NEW p, Spot(p)
  PROVE  /\ AddressAt(p) \in Effective /\ map[AddressAt(p)] >= p
         /\ \A b \in Effective : map[b] >= p => AddressAt(p) <= b
         /\ Landing(p) = map[AddressAt(p)]
         /\ Translation(prog, AddressAt(p), code[Landing(p)])
<1> DEFINE S == {a \in Effective : map[a] >= p}
<1>1. /\ Effective \subseteq At /\ DOMAIN code = {map[a] : a \in Effective}
      /\ \A a \in Effective : Translation(prog, a, code[map[a]])
  BY EffectiveCode
<1>2. /\ At \in SUBSET Nat /\ \A a \in At : map[a] \in Nat
      /\ \A a, b \in At : a < b => map[a] + Units(a) <= map[b]
      /\ \A a \in At : Units(a) \in {0, 1}
  BY AllTranslated, MapRight
<1>3. PICK a \in S : \A b \in S : a <= b
  <2>1. S \in SUBSET Nat /\ S # {}
    BY <1>1, <1>2 DEF Spot
  <2> HIDE DEF S
  <2> QED
    BY <2>1, LeastNatural
<1>4. /\ AddressAt(p) \in Effective /\ map[AddressAt(p)] >= p
      /\ \A b \in Effective : map[b] >= p => AddressAt(p) <= b
  <2>1. a \in Effective /\ map[a] >= p /\ \A b \in Effective : map[b] >= p => a <= b
    BY <1>3
  <2> HIDE DEF S
  <2> QED
    BY <2>1 DEF AddressAt
<1>5. PICK c \in Effective : c = AddressAt(p)
  BY <1>4
<1>6. c \in Nat /\ map[c] \in Nat /\ p \in Nat /\ map[c] \in DOMAIN code /\ map[c] >= p
  BY <1>1, <1>2, <1>4, <1>5 DEF Spot
<1>7. \A r \in DOMAIN code : r >= p => map[c] <= r
  <2> SUFFICES ASSUME NEW b \in Effective, map[b] >= p PROVE map[c] <= map[b]
    BY <1>1
  <2>1. c <= b
    BY <1>4, <1>5
  <2>2. c \in At /\ b \in At /\ b \in Nat /\ map[b] \in Nat /\ Units(c) \in {0, 1}
    BY <1>1, <1>2
  <2>3. CASE c = b
    BY <1>6, <2>3
  <2>4. CASE c < b
    BY <1>2, <1>6, <2>2, <2>4
  <2> QED
    BY <1>6, <2>1, <2>2, <2>3, <2>4
<1>8. PICK q : q = Landing(p)
  OBVIOUS
<1>9. q \in DOMAIN code /\ q >= p /\ \A r \in DOMAIN code : r >= p => q <= r
  BY <1>6, <1>7, <1>8 DEF Landing
<1>10. q = map[c]
  <2>1. q \in Nat
    BY <1>1, <1>2, <1>9
  <2> QED
    BY <1>6, <1>7, <1>9, <2>1
<1> QED
  BY <1>1, <1>4, <1>5, <1>8, <1>10

\* Every instruction has a place, ...
LEMMA PlaceOf ==
  ASSUME Ready, NEW a \in At
  PROVE  Spot(map[a]) /\ \A b \in Effective : map[b] >= map[a] <=> b >= a
<1>1. /\ prog \in Programs /\ At \in SUBSET Nat /\ \A b \in At : map[b] \in Nat /\ map[b] >= 1
      /\ \A b, c \in At : b < c => map[b] + Units(b) <= map[c]
      /\ \A b \in At : Units(b) \in {0, 1}
  BY AllTranslated, MapRight
<1>2. Effective \subseteq At /\ \A b \in Effective : Units(b) = 1
  BY EffectiveCode
<1>3. ASSUME NEW b \in Effective PROVE map[b] >= map[a] <=> b >= a
  <2>1. a \in Nat /\ b \in Nat /\ b \in At /\ map[a] \in Nat /\ map[b] \in Nat /\ Units(b) = 1
    BY <1>1, <1>2
  <2>2. CASE b < a
    BY <1>1, <2>1, <2>2
  <2>3. CASE a < b
    <3>1. map[a] + Units(a) <= map[b] /\ Units(a) \in {0, 1}
      BY <1>1, <2>1, <2>3
    <3> QED
      BY <2>1, <2>3, <3>1
  <2>4. CASE a = b
    BY <2>1, <2>4
  <2> QED
    BY <2>1, <2>2, <2>3, <2>4
<1>4. PICK z \in At : Op(z) = "retn" /\ \A b \in At : b <= z
  BY <1>1, LastInstr DEF At, Op
<1>5. z \in Effective
  BY <1>4 DEF Effective, EmitsNothing, At, Op
<1>6. map[z] >= map[a]
  <2>1. a <= z /\ a \in Nat /\ z \in Nat
    BY <1>1, <1>4
  <2> QED
    BY <1>3, <1>5, <2>1
<1>7. map[a] \in Nat \ {0}
  BY <1>1
<1> QED
  BY <1>3, <1>5, <1>6, <1>7 DEF Spot

\* ... and so has what is behind it, unless it is RETN.
LEMMA PlaceBehind ==
  ASSUME Ready, NEW a \in Effective, Op(a) # "retn"
  PROVE  /\ Spot(map[a] + 1)
         /\ \A b \in Effective : map[b] >= map[a] + 1 <=> b >= a + Cells(prog.code[a])
<1>1. /\ prog \in Programs /\ At \in SUBSET Nat /\ \A b \in At : map[b] \in Nat /\ map[b] >= 1
      /\ \A b, c \in At : b < c => map[b] + Units(b) <= map[c]
      /\ \A b \in At : Units(b) \in {0, 1}
  BY AllTranslated, MapRight
<1>2. Effective \subseteq At /\ \A b \in Effective : Units(b) = 1
  BY EffectiveCode
<1>3. /\ Cells(prog.code[a]) \in Nat \ {0}
      /\ \A b \in At : a < b => a + Cells(prog.code[a]) <= b
  BY <1>1, <1>2, InOrder DEF At
<1>4. ASSUME NEW b \in Effective
      PROVE  map[b] >= map[a] + 1 <=> b >= a + Cells(prog.code[a])
  <2>1. /\ a \in Nat /\ b \in Nat /\ b \in At /\ a \in At /\ map[a] \in Nat /\ map[b] \in Nat
        /\ Units(b) = 1 /\ Units(a) = 1
    BY <1>1, <1>2
  <2>2. CASE b < a
    <3>1. map[b] + 1 <= map[a]
      BY <1>1, <2>1, <2>2
    <3> QED
      BY <1>3, <2>1, <2>2, <3>1
  <2>3. CASE a < b
    <3>1. map[a] + 1 <= map[b] /\ a + Cells(prog.code[a]) <= b
      BY <1>1, <1>3, <2>1, <2>3
    <3> QED
      BY <1>3, <2>1, <3>1
  <2>4. CASE a = b
    BY <1>3, <2>1, <2>4
  <2> QED
    BY <2>1, <2>2, <2>3, <2>4
<1>5. PICK z \in At : Op(z) = "retn" /\ \A b \in At : b <= z
  BY <1>1, LastInstr DEF At, Op
<1>6. z \in Effective
  BY <1>5 DEF Effective, EmitsNothing, At, Op
<1>7. a < z /\ a \in Nat /\ z \in Nat
  <2>1. a \in At /\ a \in Nat /\ z \in Nat /\ a # z
    BY <1>1, <1>2, <1>5
  <2> QED
    BY <1>5, <2>1
<1>8. map[z] >= map[a] + 1
  BY <1>3, <1>4, <1>6, <1>7
<1>9. map[a] + 1 \in Nat \ {0}
  BY <1>1, <1>2
<1> QED
  BY <1>4, <1>6, <1>8, <1>9 DEF Spot

\* The instruction puts the script to sleep, or calls a native that may.
SleepsAt(a) == Op(a) \in {"sysreq.c", "sysreq.pri"} \/ (Op(a) = "halt" /\ prog.code[a].arg = "SLEEP")

\* Behind it begins the code of the next instruction.
LEMMA BehindSleep ==
  ASSUME Ready, NEW a \in Effective, SleepsAt(a)
  PROVE  \E b \in At : b = a + Cells(prog.code[a]) /\ map[b] = map[a] + 1
<1>1. /\ prog \in Programs /\ At \in SUBSET Nat /\ a \in At /\ Units(a) = 1
  BY AllTranslated, EffectiveCode
<1>2. WellFormed(prog)
  BY <1>1, CompilerAssumption
<1>3. PICK b \in At : /\ b > a
                      /\ \A c \in At : c \in (a + 1)..b => Op(c) # "proc"
  BY <1>1, <1>2 DEF WellFormed, SleepsAt, Op, At
<1>4. PICK c : c = a + Cells(prog.code[a])
  OBVIOUS
<1>5. /\ Cells(prog.code[a]) \in Nat \ {0} /\ c \in At \cup {prog.size} /\ c <= b
      /\ prog.size \in Nat /\ At \subseteq 0..(prog.size - 1)
  BY <1>1, <1>3, <1>4, InOrder DEF At
<1>6. c \in At /\ c \in (a + 1)..b
  BY <1>1, <1>3, <1>4, <1>5
<1>7. map[c] = map[a] + Units(a)
  BY <1>1, <1>3, <1>4, <1>6, MapRight
<1> QED
  BY <1>1, <1>4, <1>6, <1>7

\* The way there and back.
LEMMA SleepPlace ==
  ASSUME Ready, NEW a \in Effective, SleepsAt(a)
  PROVE  LET c == GetANXAddressByJITInstrPtr(Base + (map[a] + 1))
         IN c \in At /\ map[c] = map[a] + 1 /\ GetJITInstrPtr(c) = Base + (map[a] + 1)
<1>1. PICK b \in At : map[b] = map[a] + 1
  BY BehindSleep
<1>2. PICK c : c = GetANXAddressByJITInstrPtr(Base + (map[a] + 1))
  OBVIOUS
<1>3. c \in At /\ map[c] = map[b]
  BY <1>1, <1>2, AMXAddress
<1>4. c \in Int
  BY <1>3, AllTranslated
<1> QED
  BY <1>1, <1>2, <1>3, <1>4, JITInstrPtr
-----------------------------------------------------------------------------
(* Control stays in the code. *)

\* PRI: a number, or an address of machine code with code to run from there on.
ValueOK(v) == v \in Nat /\ (v >= Base => Spot(v - Base))

\* Return addresses, and below all of them the one of ExecHelper.
StackOK(s) ==
  /\ s \in Seq(Nat) /\ Len(s) >= 1 /\ s[Len(s)] = CallReturn
  /\ \A k \in 1..(Len(s) - 1) : s[k] >= Base /\ Spot(s[k] - Base)

Idle == eip = 0 /\ eax = 0 /\ stk = <<>>
Working == /\ phase = "ready" /\ bound = DOMAIN prog.natives
           /\ Spot(eip) /\ ValueOK(eax) /\ StackOK(stk)
Asleep == SleepsAt(AddressAt(eip)) /\ cip = GetANXAddressByJITInstrPtr(Base + After)

FlowInv ==
  /\ CompilerInv /\ mode \in {"idle", "run", "sleep"} /\ cip \in Nat
  /\ mode = "idle" => Idle
  /\ mode # "idle" => Working
  /\ mode = "sleep" => Asleep

\* PRI and the stack as the script sees them.
PriOf(v) == IF v >= Base THEN <<"place", AddressAt(v - Base)>> ELSE <<"num", v>>
StackOf(s) == [k \in 1..Len(s) |-> AsPlace(s[k])]

LEMMA Views == FlowPri = PriOf(eax) /\ FlowStack = StackOf(stk)
BY DEF FlowPri, PriOf, FlowStack, StackOf

\* A step of the code, as the script sees it.
LEMMA Works ==
  ASSUME CompilerInv, UNCHANGED compilerVars, phase = "ready", bound = DOMAIN prog.natives,
         mode' = "run", Spot(eip'), ValueOK(eax'), StackOK(stk'), cip' \in Nat
  PROVE  /\ FlowInv' /\ UNCHANGED prog /\ FlowCip' = AddressAt(eip')
         /\ FlowPri' = PriOf(eax') /\ FlowStack' = StackOf(stk')
<1>1. UNCHANGED <<prog, bound, phase, map>>
  BY DEF compilerVars
<1>2. CompilerInv'
  BY CompilerStays
<1>3. Working'
  BY <1>1 DEF Working, Spot, ValueOK, StackOK, Effective, CallReturn
<1>4. FlowInv'
  BY <1>2, <1>3 DEF FlowInv
<1>5. FlowCip' = AddressAt(eip')
  BY <1>1 DEF FlowCip, AddressAt, Effective
<1>6. FlowPri' = PriOf(eax')
  BY <1>1 DEF FlowPri, PriOf, AddressAt, Effective
<1>7. FlowStack' = StackOf(stk')
  BY <1>1 DEF FlowStack, StackOf, AsPlace, AddressAt, Effective
<1> QED
  BY <1>1, <1>4, <1>5, <1>6, <1>7

\* Behind a sleep.
LEMMA FallsAsleep ==
  ASSUME Ready, FlowInv, mode = "run", UNCHANGED compilerVars, mode' = "sleep", eip' = eip,
         SleepsAt(AddressAt(eip)), cip' = GetANXAddressByJITInstrPtr(Base + After),
         ValueOK(eax'), stk' = stk
  PROVE  /\ FlowInv' /\ UNCHANGED <<prog, FlowStack>> /\ FlowCip' = AddressAt(After)
         /\ FlowPri' = PriOf(eax')
<1>1. UNCHANGED <<prog, bound, phase, map, entries, table, code>>
  BY DEF compilerVars
<1>2. CompilerInv' /\ Working /\ cip' \in Nat /\ GetJITInstrPtr(cip') = Base + After
  <2>1. CompilerInv' /\ Working
    BY CompilerStays DEF FlowInv
  <2>2. PICK a \in Effective : a = AddressAt(eip) /\ Landing(eip) = map[a]
    BY <2>1, Landed DEF Working
  <2>3. After = map[a] + 1
    BY <2>2 DEF After, Here
  <2>4. PICK c : c = GetANXAddressByJITInstrPtr(Base + (map[a] + 1))
    OBVIOUS
  <2>5. c \in At /\ GetJITInstrPtr(c) = Base + (map[a] + 1)
    BY <2>2, <2>4, SleepPlace
  <2>6. At \subseteq Nat /\ cip' = c
    BY <2>3, <2>4, AllTranslated
  <2> QED
    BY <2>1, <2>3, <2>5, <2>6
<1>3. Working'
  BY <1>1, <1>2 DEF Working, Spot, ValueOK, StackOK, Effective, CallReturn
<1>4. Asleep'
  <2>1. After' = After
    BY <1>1 DEF After, Here, Landing
  <2>2. SleepsAt(AddressAt(eip))'
    BY <1>1 DEF SleepsAt, AddressAt, Effective, Op
  <2> QED
    BY <1>1, <2>1, <2>2 DEF Asleep, GetANXAddressByJITInstrPtr, LowerBound
<1>5. FlowInv'
  BY <1>2, <1>3, <1>4 DEF FlowInv
<1>6. FlowCip' = AddressAt(After)
  <2>1. FlowCip' = AddressAt(GetJITInstrPtr(cip') - Base)
    BY <1>1 DEF FlowCip, AddressAt, Effective, GetJITInstrPtr, LowerBound
  <2>2. GetJITInstrPtr(cip') - Base = After
    <3>1. Base \in Nat /\ After \in Int
      <4>1. PICK a \in Effective : a = AddressAt(eip) /\ Landing(eip) = map[a]
        BY <1>2, Landed DEF Working
      <4>2. map[a] \in Nat
        BY <4>1, MapRight, EffectiveCode
      <4> QED
        BY <4>1, <4>2, CompilerAssumption DEF After, Here
    <3> QED
      BY <1>2, <3>1
  <2> QED
    BY <2>1, <2>2
<1>7. FlowPri' = PriOf(eax')
  BY <1>1 DEF FlowPri, PriOf, AddressAt, Effective
<1>8. UNCHANGED FlowStack
  BY <1>1 DEF FlowStack, AsPlace, AddressAt, Effective
<1> QED
  BY <1>1, <1>5, <1>6, <1>7, <1>8

\* Control is back in ExecHelper.
LEMMA Ends ==
  ASSUME CompilerInv, UNCHANGED compilerVars, mode' = "idle", eip' = 0, stk' = <<>>, eax' = 0,
         cip' \in Nat
  PROVE  FlowInv' /\ Flow!Finish
<1>1. UNCHANGED prog /\ prog \in Programs
  BY DEF compilerVars, CompilerInv, CompilerTypes
<1>2. CompilerInv'
  BY CompilerStays
<1>3. FlowInv'
  BY <1>2 DEF FlowInv, Idle
<1>4. FlowCip' = 0
  BY DEF FlowCip
<1>5. FlowPri' = <<"num", 0>>
  <2>1. ~(0 >= Base)
    BY <1>1, InOrder
  <2> QED
    BY <2>1 DEF FlowPri
<1>6. FlowStack' = <<>>
  BY DEF FlowStack
<1> QED
  BY <1>1, <1>3, <1>4, <1>5, <1>6 DEF Flow!Finish, Flow!Num
-----------------------------------------------------------------------------
(* Where the script is. *)

\* The first instruction from an address on is the one whose code runs from its
\* place on.
LEMMA SamePlace ==
  ASSUME Ready, NEW x, NEW p, Spot(p), \A b \in Effective : map[b] >= p <=> b >= x
  PROVE  Flow!From(x) = AddressAt(p)
<1> DEFINE S == {b \in DOMAIN prog.code : b >= x /\ prog.code[b].op \notin {"nop", "casetbl"}}
<1>1. /\ At \in SUBSET Nat /\ \A a \in At : Op(a) \notin {"data", "jrel"}
  BY AllTranslated
<1>2. S = {b \in Effective : b >= x}
  BY <1>1 DEF Effective, EmitsNothing, At, Op
<1>3. PICK c \in Effective : /\ c = AddressAt(p) /\ map[c] >= p
                             /\ \A b \in Effective : map[b] >= p => c <= b
  BY Landed
<1>4. c \in S /\ (\A b \in S : c <= b) /\ S \subseteq Nat
  BY <1>1, <1>2, <1>3, EffectiveCode
<1>5. Flow!From(x) = CHOOSE b \in S : \A d \in S : b <= d
  BY DEF Flow!From
<1> HIDE DEF S
<1>6. PICK d : d = CHOOSE b \in S : \A e \in S : b <= e
  OBVIOUS
<1>7. d \in S /\ \A b \in S : d <= b
  BY <1>4, <1>6
<1>8. c \in Nat /\ d \in Nat /\ c <= d /\ d <= c
  BY <1>4, <1>7
<1>9. c = d
  BY <1>8
<1> QED
  BY <1>3, <1>5, <1>6, <1>9

\* A jump to an address.
LEMMA FromPlace ==
  ASSUME Ready, NEW x \in At
  PROVE  Spot(map[x]) /\ Flow!From(x) = AddressAt(map[x]) /\ labels[x] = map[x]
<1>1. PICK p : p = map[x]
  OBVIOUS
<1>2. Spot(p) /\ \A b \in Effective : map[b] >= p <=> b >= x
  BY <1>1, PlaceOf
<1>3. Flow!From(x) = AddressAt(p)
  BY <1>2, SamePlace
<1> QED
  BY <1>1, <1>2, <1>3, MapRight

\* The instruction whose code runs.
LEMMA AtWork ==
  ASSUME FlowInv, mode = "run"
  PROVE  /\ Ready /\ Working
         /\ \E a \in Effective :
              /\ a = FlowCip /\ a = AddressAt(eip) /\ a \in At /\ a \in Nat /\ After = map[a] + 1
              /\ map[a] \in Nat /\ Translation(prog, a, Piece)
              /\ Op(a) \notin {"nop", "casetbl", "data", "jrel", "sysreq.d", "intrinsic", "jump.helper"}
              /\ Flow!Width = Cells(prog.code[a])
              /\ Op(a) # "retn" => Spot(After) /\ Flow!Behind = AddressAt(After)
<1>1. Ready /\ Working
  BY DEF FlowInv, Ready, Working
<1>2. PICK a \in Effective : a = AddressAt(eip) /\ Here = map[a] /\ Translation(prog, a, Piece)
  BY <1>1, Landed DEF Working, Here, Piece
<1>3. a \in At /\ a \in Nat /\ After = map[a] + 1 /\ map[a] \in Nat
  BY <1>1, <1>2, AllTranslated, MapRight, EffectiveCode DEF After
<1>4. FlowCip = a
  BY <1>2 DEF FlowCip
<1>5. Op(a) \notin {"nop", "casetbl", "data", "jrel", "sysreq.d", "intrinsic", "jump.helper"}
  <2>1. prog \in Programs
    BY <1>1, AllTranslated
  <2>2. IsScript(prog)
    BY <2>1, ScriptAssumption
  <2> QED
    BY <1>2, <1>3, <2>2 DEF Effective, EmitsNothing, Op, IsScript, At
<1>6. Flow!Width = Cells(prog.code[a])
  BY <1>4, <1>5 DEF Flow!Width, Flow!Instr, Cells, Op
<1>7. ASSUME Op(a) # "retn" PROVE Spot(After) /\ Flow!Behind = AddressAt(After)
  <2>1. PICK p, x : p = map[a] + 1 /\ x = a + Cells(prog.code[a])
    OBVIOUS
  <2>2. Spot(p) /\ \A b \in Effective : map[b] >= p <=> b >= x
    BY <1>1, <1>7, <2>1, PlaceBehind
  <2>3. Flow!From(x) = AddressAt(p)
    BY <1>1, <2>2, SamePlace
  <2> QED
    BY <1>3, <1>4, <1>6, <2>1, <2>2, <2>3 DEF Flow!Behind
<1> QED
  BY <1>1, <1>2, <1>3, <1>4, <1>5, <1>6, <1>7

\* A jump.
LEMMA Goes ==
  ASSUME FlowInv, mode = "run", NEW p, Spot(p), Goto(p)
  PROVE  FlowInv' /\ Flow!Goto(AddressAt(p))
<1>1. /\ eip' = p /\ UNCHANGED compilerVars /\ mode' = "run"
      /\ UNCHANGED <<mode, eax, stk, cip>>
  BY DEF Goto
<1>2. /\ CompilerInv /\ phase = "ready" /\ bound = DOMAIN prog.natives /\ cip \in Nat
      /\ ValueOK(eax) /\ StackOK(stk)
  BY DEF FlowInv, Working
<1>3. Spot(eip') /\ ValueOK(eax') /\ StackOK(stk') /\ cip' \in Nat
  BY <1>1, <1>2
<1>4. /\ FlowInv' /\ UNCHANGED prog /\ FlowCip' = AddressAt(eip')
      /\ FlowPri' = PriOf(eax') /\ FlowStack' = StackOf(stk')
  BY <1>1, <1>2, <1>3, Works
<1> QED
  BY <1>1, <1>4, Views DEF Flow!Goto

\* A computation.
LEMMA Sets ==
  ASSUME FlowInv, mode = "run", Op(FlowCip) # "retn", NEW v, ValueOK(v), Set(v)
  PROVE  FlowInv' /\ Flow!Set(PriOf(v))
<1>1. /\ eip' = After /\ UNCHANGED compilerVars /\ mode' = "run" /\ eax' = v
      /\ UNCHANGED <<mode, stk, cip>>
  BY DEF Set
<1>2. /\ CompilerInv /\ phase = "ready" /\ bound = DOMAIN prog.natives /\ cip \in Nat
      /\ StackOK(stk)
  BY DEF FlowInv, Working
<1>3. Spot(After) /\ Flow!Behind = AddressAt(After)
  BY AtWork
<1>4. Spot(eip') /\ ValueOK(eax') /\ StackOK(stk') /\ cip' \in Nat
  BY <1>1, <1>2, <1>3
<1>5. /\ FlowInv' /\ UNCHANGED prog /\ FlowCip' = AddressAt(eip')
      /\ FlowPri' = PriOf(eax') /\ FlowStack' = StackOf(stk')
  BY <1>1, <1>2, <1>4, Works
<1> QED
  BY <1>1, <1>3, <1>5, Views DEF Flow!Set
-----------------------------------------------------------------------------
(* One instruction each. *)

\* What a piece of code has been made of.
LEMMA PieceOf ==
  ASSUME NEW a, NEW x, Translation(prog, a, x),
         Op(a) \notin {"sysreq.d", "intrinsic", "jump.helper"}
  PROVE  /\ Op(a) = "retn" => x.op = "retn"
         /\ x.op \in {"proc", "jump", "jzer", "call", "retn", "lctrl8", "sctrl8", "push.pri",
                      "sysreq.pri", "halt"} => Op(a) = x.op /\ x = prog.code[a]
         /\ x.op = "const" => \/ Op(a) = "const" /\ x = prog.code[a]
                              \/ Op(a) = "lctrl6" /\ x.arg = a + Cells(prog.code[a])
         /\ x.op = "switch" => Op(a) = "switch" /\ x.arg = prog.code[prog.code[a].arg].arg
         /\ x.op = "jump.helper" => Op(a) \in {"sctrl6", "jump.pri"}
         /\ x.op \in {"sysreq.c", "sysreq.d", "intrinsic"} =>
              /\ Op(a) = "sysreq.c" /\ prog.code[a].arg \in DOMAIN prog.natives
              /\ x.op = "sysreq.c" => x.arg = prog.code[a].arg
              /\ x.op = "sysreq.d" => x.arg = prog.natives[prog.code[a].arg].address
              /\ x.op = "intrinsic" =>
                   Intrinsics[x.arg] = prog.natives[prog.code[a].arg].address
BY DEF Translation, Op

LEMMA ProcGoes == FlowInv /\ Proc => FlowInv' /\ Flow!Proc
<1> SUFFICES ASSUME FlowInv, Proc PROVE FlowInv' /\ Flow!Proc
  OBVIOUS
<1>1. mode = "run" /\ Piece.op = "proc" /\ Goto(After)
  BY DEF Proc, Running
<1>2. PICK a \in Effective :
        /\ a = FlowCip /\ Translation(prog, a, Piece)
        /\ Op(a) \notin {"sysreq.d", "intrinsic", "jump.helper"}
        /\ Op(a) # "retn" => Spot(After) /\ Flow!Behind = AddressAt(After)
  BY <1>1, AtWork
<1>3. Op(a) = "proc"
  BY <1>1, <1>2, PieceOf
<1>4. PICK p : p = After
  OBVIOUS
<1>5. FlowInv' /\ Flow!Goto(AddressAt(p))
  BY <1>1, <1>2, <1>3, <1>4, Goes
<1> QED
  BY <1>1, <1>2, <1>3, <1>4, <1>5 DEF Flow!Proc, Flow!Running, Flow!Instr, Op

\* LCTRL 6 is translated to the number it stands for.
LEMMA ConstGoes == FlowInv /\ Const => FlowInv' /\ (Flow!Const \/ Flow!GetCip)
<1> SUFFICES ASSUME FlowInv, Const PROVE FlowInv' /\ (Flow!Const \/ Flow!GetCip)
  OBVIOUS
<1>1. mode = "run" /\ Piece.op = "const" /\ Set(Piece.arg)
  BY DEF Const, Running
<1>2. PICK a \in Effective :
        /\ a = FlowCip /\ a \in At /\ Translation(prog, a, Piece) /\ Ready
        /\ Op(a) \notin {"sysreq.d", "intrinsic", "jump.helper"}
        /\ Flow!Width = Cells(prog.code[a])
  BY <1>1, AtWork
<1>3. \/ Op(a) = "const" /\ Piece = prog.code[a]
      \/ Op(a) = "lctrl6" /\ Piece.arg = a + Cells(prog.code[a])
  BY <1>1, <1>2, PieceOf
<1>4. PICK v : v = Piece.arg
  OBVIOUS
<1>5. prog \in Programs
  BY <1>2, AllTranslated
<1>6. v \in Nat /\ v < Base /\ Base \in Nat
  <2>1. CASE Op(a) = "const" /\ Piece = prog.code[a]
    <3>1. IsScript(prog)
      BY <1>5, ScriptAssumption
    <3>2. v \in 0..(Base - 1) /\ Base \in Nat
      BY <1>2, <1>4, <2>1, <3>1, CompilerAssumption DEF IsScript, At, Op
    <3> QED
      BY <3>2
  <2>2. CASE Op(a) = "lctrl6" /\ Piece.arg = a + Cells(prog.code[a])
    <3>1. /\ v \in At \cup {prog.size} /\ At \subseteq 0..(prog.size - 1)
          /\ prog.size \in Nat /\ prog.size < Base /\ Base \in Nat
      BY <1>2, <1>4, <1>5, <2>2, InOrder DEF At
    <3> QED
      BY <3>1
  <2> QED
    BY <1>3, <2>1, <2>2
<1>7. ValueOK(v) /\ PriOf(v) = <<"num", v>>
  BY <1>6 DEF ValueOK, PriOf
<1>8. FlowInv' /\ Flow!Set(<<"num", v>>)
  <2>1. FlowInv' /\ Flow!Set(PriOf(v))
    BY <1>1, <1>2, <1>3, <1>4, <1>7, Sets
  <2> QED
    BY <1>7, <2>1
<1>9. CASE Op(a) = "const" /\ Piece = prog.code[a]
  BY <1>1, <1>2, <1>4, <1>8, <1>9
     DEF Flow!Const, Flow!Running, Flow!Instr, Flow!Num, Op
<1>10. CASE Op(a) = "lctrl6" /\ Piece.arg = a + Cells(prog.code[a])
  BY <1>1, <1>2, <1>4, <1>8, <1>10
     DEF Flow!GetCip, Flow!Running, Flow!Instr, Flow!Num, Op
<1> QED
  BY <1>3, <1>8, <1>9, <1>10

\* A jump to a label.
LEMMA Destination ==
  ASSUME Ready, NEW a \in At, Op(a) \in {"jump", "jzer", "call"}
  PROVE  LET d == prog.code[a].arg
         IN d \in At /\ Spot(labels[d]) /\ Flow!From(d) = AddressAt(labels[d])
<1>1. prog \in Programs
  BY AllTranslated
<1>2. Dests(prog, prog.code[a]) = {prog.code[a].arg}
  BY DEF Dests, Op
<1>3. prog.code[a].arg \in At
  BY <1>1, <1>2, DestsThere DEF At
<1> QED
  BY <1>3, FromPlace

LEMMA JumpGoes == FlowInv /\ Jump => FlowInv' /\ Flow!Jump
<1> SUFFICES ASSUME FlowInv, Jump PROVE FlowInv' /\ Flow!Jump
  OBVIOUS
<1>1. mode = "run" /\ Piece.op = "jump" /\ Goto(labels[Piece.arg])
  BY DEF Jump, Running
<1>2. PICK a \in Effective :
        /\ a = FlowCip /\ a \in At /\ Translation(prog, a, Piece) /\ Ready
        /\ Op(a) \notin {"sysreq.d", "intrinsic", "jump.helper"}
  BY <1>1, AtWork
<1>3. Op(a) = "jump" /\ Piece = prog.code[a]
  BY <1>1, <1>2, PieceOf
<1>4. PICK p : p = labels[Piece.arg]
  OBVIOUS
<1>5. Spot(p) /\ Flow!From(Piece.arg) = AddressAt(p)
  BY <1>2, <1>3, <1>4, Destination
<1>6. FlowInv' /\ Flow!Goto(AddressAt(p))
  BY <1>1, <1>4, <1>5, Goes
<1> QED
  BY <1>1, <1>2, <1>3, <1>5, <1>6 DEF Flow!Jump, Flow!Running, Flow!Instr, Op

LEMMA JzerGoes == FlowInv /\ Jzer => FlowInv' /\ Flow!Jzer
<1> SUFFICES ASSUME FlowInv, Jzer PROVE FlowInv' /\ Flow!Jzer
  OBVIOUS
<1>1. /\ mode = "run" /\ Piece.op = "jzer"
      /\ Goto(IF eax = 0 THEN labels[Piece.arg] ELSE After)
  BY DEF Jzer, Running
<1>2. PICK a \in Effective :
        /\ a = FlowCip /\ a \in At /\ Translation(prog, a, Piece) /\ Ready
        /\ Op(a) \notin {"sysreq.d", "intrinsic", "jump.helper"}
        /\ Op(a) # "retn" => Spot(After) /\ Flow!Behind = AddressAt(After)
  BY <1>1, AtWork
<1>3. Op(a) = "jzer" /\ Piece = prog.code[a]
  BY <1>1, <1>2, PieceOf
<1>4. PICK p : p = IF eax = 0 THEN labels[Piece.arg] ELSE After
  OBVIOUS
<1>5. /\ Spot(labels[Piece.arg]) /\ Flow!From(Piece.arg) = AddressAt(labels[Piece.arg])
      /\ Spot(After) /\ Flow!Behind = AddressAt(After)
  BY <1>2, <1>3, Destination
<1>6. FlowPri = <<"num", 0>> <=> eax = 0
  <2>1. Base \in Nat /\ 0 < Base
    BY <1>2, AllTranslated, InOrder
  <2>2. eax \in Nat
    BY <1>1 DEF FlowInv, Working, ValueOK
  <2> QED
    BY <2>1, <2>2 DEF FlowPri
<1>7. Spot(p)
  BY <1>4, <1>5
<1>8. FlowInv' /\ Flow!Goto(AddressAt(p))
  BY <1>1, <1>4, <1>7, Goes
<1>9. AddressAt(p) = IF FlowPri = <<"num", 0>> THEN Flow!From(Piece.arg) ELSE Flow!Behind
  BY <1>4, <1>5, <1>6
<1> QED
  BY <1>1, <1>2, <1>3, <1>8, <1>9 DEF Flow!Jzer, Flow!Running, Flow!Instr, Flow!Num, Op
-----------------------------------------------------------------------------
(* The stack of return addresses. *)

\* One more return address, ...
LEMMA Pushed ==
  ASSUME Base \in Nat, NEW s, StackOK(s), NEW x \in Nat, x >= Base, Spot(x - Base)
  PROVE  /\ StackOK(<<x>> \o s)
         /\ StackOf(<<x>> \o s) = <<AddressAt(x - Base)>> \o StackOf(s)
<1> DEFINE t == <<x>> \o s
<1>1. /\ s \in Seq(Nat) /\ Len(s) \in Nat /\ Len(s) >= 1 /\ s[Len(s)] = Base
      /\ \A k \in 1..(Len(s) - 1) : s[k] >= Base /\ Spot(s[k] - Base)
  BY LenProperties DEF StackOK, CallReturn
<1>2. /\ t \in Seq(Nat) /\ Len(t) = Len(s) + 1 /\ t[1] = x
      /\ \A k \in 2..(Len(s) + 1) : t[k] = s[k - 1]
  <2>1. <<x>> \in Seq(Nat) /\ Len(<<x>>) = 1 /\ <<x>>[1] = x
    OBVIOUS
  <2>2. /\ t \in Seq(Nat) /\ Len(t) = 1 + Len(s)
        /\ \A k \in 1..(1 + Len(s)) : t[k] = IF k <= 1 THEN <<x>>[k] ELSE s[k - 1]
    BY <1>1, <2>1, ConcatProperties
  <2> HIDE DEF t
  <2>3. t[1] = x
    BY <1>1, <2>1, <2>2
  <2>4. ASSUME NEW k \in 2..(Len(s) + 1) PROVE t[k] = s[k - 1]
    <3>1. k \in 1..(1 + Len(s)) /\ ~(k <= 1)
      BY <1>1
    <3> QED
      BY <2>2, <3>1
  <2> QED
    BY <1>1, <2>2, <2>3, <2>4
<1> HIDE DEF t
<1>3. StackOK(t)
  <2>1. t[Len(t)] = Base
    <3>1. PICK n \in Nat : n = Len(s) /\ n >= 1 /\ Len(t) = n + 1 /\ s[n] = Base
      BY <1>1, <1>2
    <3>2. n + 1 \in 2..(n + 1) /\ (n + 1) - 1 = n
      BY <3>1
    <3>3. t[n + 1] = s[(n + 1) - 1]
      BY <1>2, <3>1, <3>2
    <3> QED
      BY <3>1, <3>2, <3>3
  <2>2. ASSUME NEW k \in 1..(Len(t) - 1) PROVE t[k] >= Base /\ Spot(t[k] - Base)
    <3>1. CASE k = 1
      BY <1>2, <3>1
    <3>2. CASE k # 1
      <4>1. k \in 2..(Len(s) + 1) /\ k - 1 \in 1..(Len(s) - 1)
        BY <1>1, <1>2, <3>2
      <4>2. t[k] = s[k - 1]
        BY <1>2, <4>1
      <4> QED
        BY <1>1, <4>1, <4>2
    <3> QED
      BY <3>1, <3>2
  <2> QED
    BY <1>1, <1>2, <2>1, <2>2 DEF StackOK, CallReturn
<1>4. StackOf(t) = <<AddressAt(x - Base)>> \o StackOf(s)
  <2> DEFINE u == <<AddressAt(x - Base)>> \o StackOf(s)
  <2>1. AsPlace(x) = AddressAt(x - Base)
    <3>1. x # CallReturn
      BY DEF Spot, CallReturn
    <3> QED
      BY <3>1 DEF AsPlace
  <2>2. /\ Len(StackOf(s)) = Len(s) /\ \A k \in 1..Len(s) : StackOf(s)[k] = AsPlace(s[k])
        /\ StackOf(s) \in Seq({AsPlace(s[k]) : k \in 1..Len(s)})
    BY <1>1 DEF StackOf
  <2>3. u = [k \in 1..(Len(s) + 1) |-> IF k = 1 THEN AddressAt(x - Base) ELSE StackOf(s)[k - 1]]
    BY <1>1, <2>2
  <2>4. StackOf(t) = [k \in 1..(Len(s) + 1) |-> AsPlace(t[k])]
    BY <1>2 DEF StackOf
  <2>5. ASSUME NEW k \in 1..(Len(s) + 1)
        PROVE  AsPlace(t[k]) = IF k = 1 THEN AddressAt(x - Base) ELSE StackOf(s)[k - 1]
    <3>1. CASE k = 1
      BY <1>2, <2>1, <3>1
    <3>2. CASE k # 1
      <4>1. k \in 2..(Len(s) + 1) /\ k - 1 \in 1..Len(s)
        BY <1>1, <3>2
      <4> QED
        BY <1>2, <2>2, <3>2, <4>1
    <3> QED
      BY <3>1, <3>2
  <2> HIDE DEF u
  <2> QED
    BY <2>3, <2>4, <2>5 DEF u
<1> QED
  BY <1>3, <1>4 DEF t

\* ... and one less.
LEMMA Popped ==
  ASSUME Base \in Nat, Effective \subseteq Nat, NEW s, StackOK(s)
  PROVE  /\ Head(s) = s[1] /\ Head(StackOf(s)) = AsPlace(Head(s))
         /\ Head(s) # CallReturn =>
              /\ Head(s) >= Base /\ Spot(Head(s) - Base)
              /\ StackOK(Tail(s)) /\ StackOf(Tail(s)) = Tail(StackOf(s))
<1> DEFINE t == Tail(s)
<1>1. /\ s \in Seq(Nat) /\ Len(s) \in Nat /\ Len(s) >= 1 /\ s[Len(s)] = Base /\ s # <<>>
      /\ \A k \in 1..(Len(s) - 1) : s[k] >= Base /\ Spot(s[k] - Base)
  BY LenProperties, EmptySeq DEF StackOK, CallReturn
<1>2. Head(s) = s[1]
  BY <1>1
<1>3. /\ Len(StackOf(s)) = Len(s) /\ \A k \in 1..Len(s) : StackOf(s)[k] = AsPlace(s[k])
      /\ StackOf(s) \in Seq({AsPlace(s[k]) : k \in 1..Len(s)})
  BY <1>1 DEF StackOf
<1>4. Head(StackOf(s)) = AsPlace(s[1])
  BY <1>1, <1>3
<1>5. ASSUME Head(s) # CallReturn
      PROVE  /\ Head(s) >= Base /\ Spot(Head(s) - Base)
             /\ StackOK(t) /\ StackOf(t) = Tail(StackOf(s))
  <2>1. Len(s) >= 2
    BY <1>1, <1>2, <1>5 DEF CallReturn
  <2>2. /\ t \in Seq(Nat) /\ Len(t) = Len(s) - 1
        /\ \A k \in 1..(Len(s) - 1) : t[k] = s[k + 1]
    BY <1>1, HeadTailProperties
  <2> HIDE DEF t
  <2>3. StackOK(t)
    <3>1. t[Len(t)] = Base
      BY <1>1, <2>1, <2>2
    <3>2. ASSUME NEW k \in 1..(Len(t) - 1) PROVE t[k] >= Base /\ Spot(t[k] - Base)
      <4>1. k \in 1..(Len(s) - 1) /\ k + 1 \in 1..(Len(s) - 1)
        BY <1>1, <2>2
      <4>2. t[k] = s[k + 1]
        BY <2>2, <4>1
      <4> QED
        BY <1>1, <4>1, <4>2
    <3> QED
      BY <1>1, <2>1, <2>2, <3>1, <3>2 DEF StackOK, CallReturn
  <2>4. StackOf(t) = Tail(StackOf(s))
    <3>1. StackOf(t) = [k \in 1..(Len(s) - 1) |-> AsPlace(t[k])]
      BY <2>2 DEF StackOf
    <3>2. Tail(StackOf(s)) = [k \in 1..(Len(s) - 1) |-> StackOf(s)[k + 1]]
      <4>1. PICK S, q : q = StackOf(s) /\ S = {AsPlace(s[k]) : k \in 1..Len(s)}
        OBVIOUS
      <4>2. q \in Seq(S) /\ Len(q) = Len(s) /\ q # <<>>
        BY <1>1, <1>3, <4>1
      <4>3. /\ Tail(q) \in Seq(S) /\ Len(Tail(q)) = Len(s) - 1
            /\ \A k \in 1..(Len(s) - 1) : Tail(q)[k] = q[k + 1]
        BY <4>2, HeadTailProperties
      <4>4. Tail(q) = [k \in 1..(Len(s) - 1) |-> Tail(q)[k]]
        BY <4>3, LenProperties
      <4> QED
        BY <4>1, <4>3, <4>4
    <3>3. ASSUME NEW k \in 1..(Len(s) - 1) PROVE AsPlace(t[k]) = StackOf(s)[k + 1]
      BY <1>1, <1>3, <2>2
    <3> QED
      BY <3>1, <3>2, <3>3
  <2> QED
    BY <1>1, <1>2, <2>1, <2>3, <2>4
<1> QED
  BY <1>2, <1>4, <1>5

\* A step that leaves a new return address on the stack.
LEMMA Pushes ==
  ASSUME Ready, FlowInv, mode = "run", NEW x \in Nat, x >= Base, Spot(x - Base), Len(stk) < MaxDepth,
         stk' = <<x>> \o stk, Spot(eip'), UNCHANGED <<compilerVars, mode, eax, cip>>
  PROVE  /\ FlowInv' /\ UNCHANGED <<prog, mode, FlowPri>> /\ FlowCip' = AddressAt(eip')
         /\ Len(FlowStack) < MaxDepth /\ FlowStack' = <<AddressAt(x - Base)>> \o FlowStack
<1>1. PICK s : s = stk
  OBVIOUS
<1>2. /\ CompilerInv /\ phase = "ready" /\ bound = DOMAIN prog.natives /\ cip \in Nat
      /\ ValueOK(eax) /\ StackOK(s) /\ Base \in Nat
  BY <1>1, CompilerAssumption, AllTranslated, InOrder DEF FlowInv, Working
<1>3. StackOK(<<x>> \o s) /\ StackOf(<<x>> \o s) = <<AddressAt(x - Base)>> \o StackOf(s)
  BY <1>2, Pushed
<1>4. StackOK(stk') /\ StackOf(stk') = <<AddressAt(x - Base)>> \o FlowStack
  BY <1>1, <1>3, Views
<1>5. /\ FlowInv' /\ UNCHANGED prog /\ FlowCip' = AddressAt(eip')
      /\ FlowPri' = PriOf(eax') /\ FlowStack' = StackOf(stk')
  <2>1. /\ UNCHANGED compilerVars /\ mode' = "run" /\ ValueOK(eax') /\ cip' \in Nat
    BY <1>2
  <2> QED
    BY <1>2, <1>4, <2>1, Works
<1>6. Len(FlowStack) = Len(stk)
  <2>1. Len(stk) \in Nat
    BY <1>1, <1>2, LenProperties DEF StackOK
  <2> QED
    BY <2>1 DEF FlowStack
<1>7. UNCHANGED FlowPri
  BY <1>5, Views
<1> QED
  BY <1>4, <1>5, <1>6, <1>7

LEMMA CallGoes == FlowInv /\ Call => FlowInv' /\ Flow!Call
<1> SUFFICES ASSUME FlowInv, Call PROVE FlowInv' /\ Flow!Call
  OBVIOUS
<1>1. /\ mode = "run" /\ Piece.op = "call" /\ Len(stk) < MaxDepth
      /\ stk' = <<Base + After>> \o stk /\ eip' = labels[Piece.arg]
      /\ UNCHANGED <<compilerVars, mode, eax, cip>>
  BY DEF Call, Running
<1>2. PICK a \in Effective :
        /\ a = FlowCip /\ a \in At /\ Translation(prog, a, Piece) /\ Ready
        /\ Op(a) \notin {"sysreq.d", "intrinsic", "jump.helper"}
        /\ After = map[a] + 1 /\ map[a] \in Nat
        /\ Op(a) # "retn" => Spot(After) /\ Flow!Behind = AddressAt(After)
  BY <1>1, AtWork
<1>3. Op(a) = "call" /\ Piece = prog.code[a]
  BY <1>1, <1>2, PieceOf
<1>4. Spot(labels[Piece.arg]) /\ Flow!From(Piece.arg) = AddressAt(labels[Piece.arg])
  BY <1>2, <1>3, Destination
<1>5. PICK x, p : x = Base + After /\ p = After
  OBVIOUS
<1>6. /\ x \in Nat /\ x >= Base /\ x - Base = p
  BY <1>2, <1>5, CompilerAssumption
<1>7. Spot(x - Base) /\ Spot(eip') /\ stk' = <<x>> \o stk
  BY <1>1, <1>2, <1>3, <1>4, <1>5, <1>6
<1>8. /\ FlowInv' /\ UNCHANGED <<prog, mode, FlowPri>> /\ FlowCip' = AddressAt(eip')
      /\ Len(FlowStack) < MaxDepth /\ FlowStack' = <<AddressAt(x - Base)>> \o FlowStack
  BY <1>1, <1>2, <1>6, <1>7, Pushes
<1>9. FlowStack' = <<Flow!Behind>> \o FlowStack
  BY <1>2, <1>3, <1>5, <1>6, <1>8
<1> QED
  BY <1>1, <1>2, <1>3, <1>4, <1>8, <1>9 DEF Flow!Call, Flow!Running, Flow!Instr, Op

LEMMA PushPtrGoes == FlowInv /\ PushPtr => FlowInv' /\ Flow!PushPlace
<1> SUFFICES ASSUME FlowInv, PushPtr PROVE FlowInv' /\ Flow!PushPlace
  OBVIOUS
<1>1. /\ mode = "run" /\ Piece.op = "push.pri" /\ eax >= Base /\ Len(stk) < MaxDepth
      /\ stk' = <<eax>> \o stk /\ eip' = After
      /\ UNCHANGED <<compilerVars, mode, eax, cip>>
  BY DEF PushPtr, Running
<1>2. PICK a \in Effective :
        /\ a = FlowCip /\ Translation(prog, a, Piece) /\ Ready
        /\ Op(a) \notin {"sysreq.d", "intrinsic", "jump.helper"}
        /\ Op(a) # "retn" => Spot(After) /\ Flow!Behind = AddressAt(After)
  BY <1>1, AtWork
<1>3. Op(a) = "push.pri"
  BY <1>1, <1>2, PieceOf
<1>4. PICK x : x = eax
  OBVIOUS
<1>5. x \in Nat /\ x >= Base /\ Spot(x - Base)
  BY <1>1, <1>4 DEF FlowInv, Working, ValueOK
<1>6. Spot(eip') /\ stk' = <<x>> \o stk
  BY <1>1, <1>2, <1>3, <1>4
<1>7. /\ FlowInv' /\ UNCHANGED <<prog, mode, FlowPri>> /\ FlowCip' = AddressAt(eip')
      /\ Len(FlowStack) < MaxDepth /\ FlowStack' = <<AddressAt(x - Base)>> \o FlowStack
  BY <1>1, <1>2, <1>5, <1>6, Pushes
<1>8. FlowPri = <<"place", AddressAt(x - Base)>>
  BY <1>1, <1>4 DEF FlowPri
<1> QED
  BY <1>1, <1>2, <1>3, <1>7, <1>8 DEF Flow!PushPlace, Flow!Running, Flow!Instr, Op

LEMMA RetnGoes == FlowInv /\ Retn => FlowInv' /\ Flow!Retn
<1> SUFFICES ASSUME FlowInv, Retn PROVE FlowInv' /\ Flow!Retn
  OBVIOUS
<1>1. mode = "run" /\ Piece.op = "retn"
  BY DEF Retn, Running
<1>2. PICK a \in Effective :
        /\ a = FlowCip /\ Translation(prog, a, Piece) /\ Ready
        /\ Op(a) \notin {"sysreq.d", "intrinsic", "jump.helper"}
  BY <1>1, AtWork
<1>3. Op(a) = "retn"
  BY <1>1, <1>2, PieceOf
<1>4. /\ CompilerInv /\ phase = "ready" /\ bound = DOMAIN prog.natives /\ cip \in Nat
      /\ ValueOK(eax) /\ StackOK(stk) /\ Base \in Nat /\ Effective \subseteq Nat
  BY <1>1, <1>2, CompilerAssumption, AllTranslated, InOrder, EffectiveCode DEF FlowInv, Working
<1>5. PICK s : s = stk
  OBVIOUS
<1>6. /\ Head(StackOf(s)) = AsPlace(Head(s))
      /\ Head(s) # CallReturn =>
           /\ Head(s) >= Base /\ Spot(Head(s) - Base)
           /\ StackOK(Tail(s)) /\ StackOf(Tail(s)) = Tail(StackOf(s))
  BY <1>4, <1>5, Popped
<1>7. FlowStack = StackOf(s)
  BY <1>5, Views
<1>8. CASE Head(stk) = CallReturn
  <2>1. Finish
    BY <1>8 DEF Retn
  <2>2. FlowInv' /\ Flow!Finish
    BY <1>4, <2>1, Ends DEF Finish
  <2>3. Head(FlowStack) = Flow!Server
    BY <1>5, <1>6, <1>7, <1>8 DEF AsPlace, Flow!Server
  <2> QED
    BY <1>1, <1>2, <1>3, <2>2, <2>3 DEF Flow!Retn, Flow!Running, Flow!Instr, Op
<1>9. CASE Head(stk) # CallReturn
  <2>1. eip' = Head(stk) - Base /\ stk' = Tail(stk) /\ UNCHANGED <<compilerVars, mode, eax, cip>>
    BY <1>9 DEF Retn
  <2>2. /\ Spot(eip') /\ ValueOK(eax') /\ StackOK(stk') /\ cip' \in Nat /\ mode' = "run"
        /\ UNCHANGED compilerVars
    BY <1>1, <1>4, <1>5, <1>6, <1>9, <2>1
  <2>3. /\ FlowInv' /\ UNCHANGED prog /\ FlowCip' = AddressAt(eip')
        /\ FlowPri' = PriOf(eax') /\ FlowStack' = StackOf(stk')
    BY <1>4, <2>2, Works
  <2>4. FlowStack' = Tail(FlowStack)
    BY <1>5, <1>6, <1>7, <1>9, <2>1, <2>3
  <2>5. Head(FlowStack) = AddressAt(eip')
    BY <1>5, <1>6, <1>7, <1>9, <2>1 DEF AsPlace
  <2>6. Head(FlowStack) # Flow!Server
    <3>1. PICK p : p = Head(stk) - Base
      OBVIOUS
    <3>2. AddressAt(p) \in Effective
      BY <1>2, <1>5, <1>6, <1>9, <3>1, Landed
    <3>3. -1 \notin Effective
      BY <1>4
    <3> QED
      BY <2>1, <2>5, <3>1, <3>2, <3>3 DEF Flow!Server
  <2>7. UNCHANGED <<prog, mode, FlowPri>>
    BY <2>1, <2>3, Views
  <2>8. FlowCip' = Head(FlowStack)
    BY <2>3, <2>5
  <2> QED
    BY <1>1, <1>2, <1>3, <2>3, <2>4, <2>6, <2>7, <2>8 DEF Flow!Retn, Flow!Running, Flow!Instr, Op
<1> QED
  BY <1>8, <1>9
-----------------------------------------------------------------------------
(* Switches. *)

\* A switch has a case table with a default, and leads to instructions.
LEMMA CaseTable ==
  ASSUME Ready, NEW a \in At, Op(a) = "switch"
  PROVE  LET records == prog.code[prog.code[a].arg].arg
         IN /\ records \in Seq({n \in Int : n < Base} \X Nat) /\ Len(records) \in Nat \ {0}
            /\ DOMAIN records = 1..Len(records)
            /\ \A k \in DOMAIN records : records[k][1] \in Int /\ records[k][1] < Base
            /\ \A k \in DOMAIN records : records[k][2] \in At
<1>1. prog \in Programs
  BY AllTranslated
<1>2. PICK t : t = prog.code[a].arg
  OBVIOUS
<1>3. t \in At /\ Op(t) = "casetbl"
  <2>1. WellFormed(prog)
    BY <1>1, CompilerAssumption
  <2> QED
    BY <1>2, <2>1 DEF WellFormed, Op, At
<1>4. PICK records : records = prog.code[t].arg
  OBVIOUS
<1>5. records \in Seq({n \in Int : n < Base} \X Nat) /\ records # <<>>
  <2>1. IsScript(prog)
    BY <1>1, ScriptAssumption
  <2> QED
    BY <1>3, <1>4, <2>1 DEF IsScript, Op, At
<1>6. /\ Len(records) \in Nat \ {0} /\ DOMAIN records = 1..Len(records)
      /\ \A k \in DOMAIN records : records[k] \in {n \in Int : n < Base} \X Nat
  <2>1. PICK S : S = {n \in Int : n < Base} \X Nat
    OBVIOUS
  <2>2. records \in Seq(S)
    BY <1>5, <2>1
  <2>3. /\ Len(records) \in Nat \ {0} /\ DOMAIN records = 1..Len(records)
        /\ records \in [1..Len(records) -> S]
    BY <1>5, <2>2, EmptySeq, LenProperties
  <2> QED
    BY <2>1, <2>3
<1>7. \A k \in DOMAIN records : records[k][2] \in At
  <2>1. Dests(prog, prog.code[a]) = {records[k][2] : k \in DOMAIN records}
    BY <1>2, <1>4 DEF Dests, Op
  <2> QED
    BY <1>1, <2>1, DestsThere DEF At
<1>8. \A k \in DOMAIN records : records[k][1] \in Int /\ records[k][1] < Base
  BY <1>6
<1> QED
  BY <1>2, <1>4, <1>5, <1>6, <1>7, <1>8

\* The range check takes no case away: what is out of range has no case.
LEMMA Chosen ==
  ASSUME Base \in Nat, eax \in Nat, NEW records, Len(records) \in Nat \ {0},
         DOMAIN records = 1..Len(records),
         \A k \in DOMAIN records : records[k][1] \in Int /\ records[k][1] < Base
  PROVE  LET match == {k \in DOMAIN records : k > 1 /\ FlowPri = <<"num", records[k][1]>>}
             first == IF match = {} THEN 1 ELSE CHOOSE k \in match : \A j \in match : k <= j
         IN first \in DOMAIN records /\ SwitchDest(records) = records[first][2]
<1> DEFINE match == {k \in DOMAIN records : k > 1 /\ FlowPri = <<"num", records[k][1]>>}
           cases == 2..Len(records)
           equal == {k \in cases : eax = records[k][1]}
           below == \A k \in cases : eax < records[k][1]
           above == \A k \in cases : eax > records[k][1]
<1>1. ASSUME NEW k \in DOMAIN records
      PROVE  FlowPri = <<"num", records[k][1]>> <=> eax = records[k][1]
  <2>1. CASE eax >= Base
    <3>1. FlowPri = <<"place", AddressAt(eax - Base)>> /\ eax # records[k][1]
      BY <2>1 DEF FlowPri
    <3> QED
      BY <3>1
  <2>2. CASE ~(eax >= Base)
    BY <2>2 DEF FlowPri
  <2> QED
    BY <2>1, <2>2
<1>2. match = equal
  BY <1>1
<1>3. below \/ above => equal = {}
  <2> SUFFICES ASSUME NEW k \in equal, below \/ above PROVE FALSE
    OBVIOUS
  <2>1. k \in cases /\ eax = records[k][1]
    OBVIOUS
  <2> QED
    BY <2>1
<1>4. SwitchDest(records) =
        IF below \/ above \/ equal = {} THEN records[1][2]
        ELSE records[CHOOSE k \in equal : \A j \in equal : k <= j][2]
  BY DEF SwitchDest
<1>5. equal # {} => \E k \in equal : \A j \in equal : k <= j
  <2>1. equal \in SUBSET Nat
    OBVIOUS
  <2> HIDE DEF equal
  <2> QED
    BY <2>1, LeastNatural
<1>6. equal \subseteq DOMAIN records /\ 1 \in DOMAIN records
  OBVIOUS
<1> HIDE DEF match, equal, below, above
<1>7. PICK first : first = IF match = {} THEN 1 ELSE CHOOSE k \in match : \A j \in match : k <= j
  OBVIOUS
<1>8. first \in DOMAIN records
  BY <1>2, <1>5, <1>6, <1>7
<1>9. SwitchDest(records) = records[first][2]
  BY <1>2, <1>3, <1>4, <1>7
<1> QED
  BY <1>7, <1>8, <1>9 DEF match

LEMMA SwitchGoes == FlowInv /\ Switch => FlowInv' /\ Flow!Switch
<1> SUFFICES ASSUME FlowInv, Switch PROVE FlowInv' /\ Flow!Switch
  OBVIOUS
<1>1. mode = "run" /\ Piece.op = "switch" /\ Goto(labels[SwitchDest(Piece.arg)])
  BY DEF Switch, Running
<1>2. PICK a \in Effective :
        /\ a = FlowCip /\ a \in At /\ Translation(prog, a, Piece) /\ Ready
        /\ Op(a) \notin {"sysreq.d", "intrinsic", "jump.helper"}
  BY <1>1, AtWork
<1>3. Op(a) = "switch" /\ Piece.arg = prog.code[prog.code[a].arg].arg
  BY <1>1, <1>2, PieceOf
<1>4. PICK records : records = Piece.arg
  OBVIOUS
<1>5. /\ Len(records) \in Nat \ {0} /\ DOMAIN records = 1..Len(records)
      /\ \A k \in DOMAIN records : records[k][1] \in Int /\ records[k][1] < Base
      /\ \A k \in DOMAIN records : records[k][2] \in At
  BY <1>2, <1>3, <1>4, CaseTable
<1> DEFINE match == {k \in DOMAIN records : k > 1 /\ FlowPri = <<"num", records[k][1]>>}
<1>6. PICK first : first = IF match = {} THEN 1 ELSE CHOOSE k \in match : \A j \in match : k <= j
  OBVIOUS
<1>7. first \in DOMAIN records /\ SwitchDest(records) = records[first][2]
  <2>1. Base \in Nat /\ eax \in Nat
    BY <1>1, CompilerAssumption, AllTranslated DEF FlowInv, Working, ValueOK
  <2> QED
    BY <1>5, <1>6, <2>1, Chosen
<1>8. PICK d \in At : d = records[first][2]
  BY <1>5, <1>7
<1>9. PICK p : p = labels[d]
  OBVIOUS
<1>10. Spot(p) /\ Flow!From(d) = AddressAt(p)
  BY <1>2, <1>9, FromPlace
<1>11. FlowInv' /\ Flow!Goto(Flow!From(d))
  <2>1. FlowInv' /\ Flow!Goto(AddressAt(p))
    BY <1>1, <1>4, <1>7, <1>8, <1>9, <1>10, Goes
  <2> QED
    BY <1>10, <2>1
<1>12. Flow!Running("switch") /\ prog.code[Flow!Instr.arg].arg = records
  BY <1>1, <1>2, <1>3, <1>4 DEF Flow!Running, Flow!Instr, Op
<1> QED
  BY <1>6, <1>8, <1>11, <1>12 DEF Flow!Switch, Flow!Num
-----------------------------------------------------------------------------
(* Jumps to addresses that are found at run time. *)

\* What JumpLookup finds for a value of PRI.
LEMMA LookedUp ==
  ASSUME Ready, FlowInv, mode = "run"
  PROVE  LET ptr == GetJITInstrPtr(eax)
             isAddress == FlowPri[1] = "num" /\ FlowPri[2] \in DOMAIN prog.code
         IN /\ isAddress => /\ ptr = Base + map[FlowPri[2]] /\ ptr # 0 /\ ptr \in Nat
                            /\ ptr - Base = map[FlowPri[2]]
            /\ ~isAddress => ptr = 0
<1>1. /\ Base \in Nat /\ eax \in Nat /\ At \subseteq 0..(prog.size - 1) /\ prog.size \in Nat
      /\ prog.size < Base
  BY AllTranslated, InOrder DEF FlowInv, Working, ValueOK, At
<1>2. PICK x : x = eax
  OBVIOUS
<1>3. CASE x \in At
  <2>1. FlowPri = <<"num", x>>
    BY <1>1, <1>2, <1>3 DEF FlowPri
  <2>2. GetJITInstrPtr(x) = Base + map[x] /\ map[x] \in Nat /\ map[x] >= 1
    BY <1>1, <1>2, <1>3, JITInstrPtr, MapRight
  <2> QED
    BY <1>1, <1>2, <1>3, <2>1, <2>2 DEF At
<1>4. CASE x \notin At
  <2>1. GetJITInstrPtr(x) = 0
    BY <1>1, <1>2, <1>4, JITInstrPtr
  <2>2. ~(FlowPri[1] = "num" /\ FlowPri[2] \in DOMAIN prog.code)
    <3>1. CASE x >= Base
      <4>1. FlowPri = <<"place", AddressAt(x - Base)>>
        BY <1>2, <3>1 DEF FlowPri
      <4> QED
        BY <4>1
    <3>2. CASE ~(x >= Base)
      <4>1. FlowPri = <<"num", x>>
        BY <1>2, <3>2 DEF FlowPri
      <4> QED
        BY <1>4, <4>1 DEF At
    <3> QED
      BY <3>1, <3>2
  <2> QED
    BY <1>2, <2>1, <2>2
<1> QED
  BY <1>3, <1>4

LEMMA JumpHelperGoes == FlowInv /\ JumpHelper => FlowInv' /\ Flow!SetCip
<1> SUFFICES ASSUME FlowInv, JumpHelper PROVE FlowInv' /\ Flow!SetCip
  OBVIOUS
<1>1. /\ mode = "run" /\ Piece.op = "jump.helper"
      /\ Goto(IF GetJITInstrPtr(eax) # 0 THEN GetJITInstrPtr(eax) - Base ELSE After)
  BY DEF JumpHelper, Running
<1>2. PICK a \in Effective :
        /\ a = FlowCip /\ Translation(prog, a, Piece) /\ Ready
        /\ Op(a) \notin {"sysreq.d", "intrinsic", "jump.helper"}
        /\ Op(a) # "retn" => Spot(After) /\ Flow!Behind = AddressAt(After)
  BY <1>1, AtWork
<1>3. Op(a) \in {"sctrl6", "jump.pri"}
  BY <1>1, <1>2, PieceOf
<1>4. PICK p : p = IF GetJITInstrPtr(eax) # 0 THEN GetJITInstrPtr(eax) - Base ELSE After
  OBVIOUS
<1>5. /\ Spot(p)
      /\ AddressAt(p) = IF FlowPri[1] = "num" /\ FlowPri[2] \in DOMAIN prog.code
                        THEN Flow!From(FlowPri[2]) ELSE Flow!Behind
  <2>1. CASE FlowPri[1] = "num" /\ FlowPri[2] \in DOMAIN prog.code
    <3>1. PICK x \in At : x = FlowPri[2]
      BY <2>1 DEF At
    <3>2. p = map[x]
      BY <1>1, <1>2, <1>4, <2>1, <3>1, LookedUp
    <3>3. Spot(map[x]) /\ Flow!From(x) = AddressAt(map[x])
      BY <1>2, FromPlace
    <3> QED
      BY <2>1, <3>1, <3>2, <3>3
  <2>2. CASE ~(FlowPri[1] = "num" /\ FlowPri[2] \in DOMAIN prog.code)
    <3>1. p = After
      BY <1>1, <1>2, <1>4, <2>2, LookedUp
    <3> QED
      BY <1>2, <1>3, <2>2, <3>1
  <2> QED
    BY <2>1, <2>2
<1>6. FlowInv' /\ Flow!Goto(AddressAt(p))
  BY <1>1, <1>4, <1>5, Goes
<1>7. Flow!Running("sctrl6") \/ Flow!Running("jump.pri")
  BY <1>1, <1>2, <1>3 DEF Flow!Running, Flow!Instr, Op
<1> QED
  BY <1>5, <1>6, <1>7 DEF Flow!SetCip

LEMMA GetPtrGoes == FlowInv /\ GetPtr => FlowInv' /\ Flow!GetPlace
<1> SUFFICES ASSUME FlowInv, GetPtr PROVE FlowInv' /\ Flow!GetPlace
  OBVIOUS
<1>1. mode = "run" /\ Piece.op = "lctrl8" /\ Set(GetJITInstrPtr(eax))
  BY DEF GetPtr, Running
<1>2. PICK a \in Effective :
        /\ a = FlowCip /\ Translation(prog, a, Piece) /\ Ready
        /\ Op(a) \notin {"sysreq.d", "intrinsic", "jump.helper"}
  BY <1>1, AtWork
<1>3. Op(a) = "lctrl8"
  BY <1>1, <1>2, PieceOf
<1>4. PICK v : v = GetJITInstrPtr(eax)
  OBVIOUS
<1>5. Base \in Nat /\ 0 < Base
  BY <1>2, AllTranslated, InOrder
<1>6. /\ ValueOK(v)
      /\ PriOf(v) = IF FlowPri[1] = "num" /\ FlowPri[2] \in DOMAIN prog.code
                    THEN <<"place", Flow!From(FlowPri[2])>> ELSE <<"num", 0>>
  <2>1. CASE FlowPri[1] = "num" /\ FlowPri[2] \in DOMAIN prog.code
    <3>1. PICK x \in At : x = FlowPri[2]
      BY <2>1 DEF At
    <3>2. v = Base + map[x] /\ v \in Nat /\ v - Base = map[x]
      BY <1>1, <1>2, <1>4, <2>1, <3>1, LookedUp
    <3>3. Spot(map[x]) /\ Flow!From(x) = AddressAt(map[x]) /\ map[x] \in Nat
      BY <1>2, FromPlace, MapRight
    <3>4. v >= Base
      BY <1>5, <3>2, <3>3
    <3>5. ValueOK(v)
      BY <3>2, <3>3 DEF ValueOK
    <3>6. PriOf(v) = <<"place", AddressAt(map[x])>>
      BY <3>2, <3>4 DEF PriOf
    <3> QED
      BY <2>1, <3>1, <3>3, <3>5, <3>6
  <2>2. CASE ~(FlowPri[1] = "num" /\ FlowPri[2] \in DOMAIN prog.code)
    <3>1. v = 0
      BY <1>1, <1>2, <1>4, <2>2, LookedUp
    <3> QED
      BY <1>5, <2>2, <3>1 DEF ValueOK, PriOf
  <2> QED
    BY <2>1, <2>2
<1>7. FlowInv' /\ Flow!Set(PriOf(v))
  BY <1>1, <1>2, <1>3, <1>4, <1>6, Sets
<1>8. Flow!Running("lctrl8")
  BY <1>1, <1>2, <1>3 DEF Flow!Running, Flow!Instr, Op
<1> QED
  BY <1>6, <1>7, <1>8 DEF Flow!GetPlace, Flow!Place, Flow!Num

LEMMA JumpPtrGoes == FlowInv /\ JumpPtr => FlowInv' /\ Flow!SetPlace
<1> SUFFICES ASSUME FlowInv, JumpPtr PROVE FlowInv' /\ Flow!SetPlace
  OBVIOUS
<1>1. mode = "run" /\ Piece.op = "sctrl8" /\ eax >= Base /\ Goto(eax - Base)
  BY DEF JumpPtr, Running
<1>2. PICK a \in Effective :
        /\ a = FlowCip /\ Translation(prog, a, Piece)
        /\ Op(a) \notin {"sysreq.d", "intrinsic", "jump.helper"}
  BY <1>1, AtWork
<1>3. Op(a) = "sctrl8"
  BY <1>1, <1>2, PieceOf
<1>4. PICK p : p = eax - Base
  OBVIOUS
<1>5. Spot(p) /\ FlowPri = <<"place", AddressAt(p)>>
  BY <1>1, <1>4 DEF FlowInv, Working, ValueOK, FlowPri
<1>6. FlowInv' /\ Flow!Goto(AddressAt(p))
  BY <1>1, <1>4, <1>5, Goes
<1>7. Flow!Running("sctrl8")
  BY <1>1, <1>2, <1>3 DEF Flow!Running, Flow!Instr, Op
<1> QED
  BY <1>5, <1>6, <1>7 DEF Flow!SetPlace
-----------------------------------------------------------------------------
(* Natives and sleep. *)

\* What a native returns is a number.
LEMMA Returned ==
  ASSUME prog \in Programs, NEW n \in DOMAIN prog.natives,
         NEW v \in Values[prog.natives[n].address]
  PROVE  ValueOK(v) /\ PriOf(v) = <<"num", v>>
<1>1. v \in Nat /\ ~(v >= Base)
  <2>1. v \in 0..(Base - 1)
    BY ValuesAssumption
  <2>2. Base \in Nat
    BY CompilerAssumption
  <2> QED
    BY <2>1, <2>2
<1> QED
  BY <1>1 DEF ValueOK, PriOf

\* A call of the function of native n, with amx->cip stored before it.
LEMMA NativeRuns ==
  ASSUME Ready, FlowInv, mode = "run", NEW n \in DOMAIN prog.natives,
         NEW address, address = prog.natives[n].address,
         Op(FlowCip) \in {"sysreq.c", "sysreq.pri"}, CallNative(address)
  PROVE  FlowInv' /\ Flow!CallNative(n)
<1>1. cip' = GetANXAddressByJITInstrPtr(Base + After) /\ UNCHANGED compilerVars
  BY DEF CallNative
<1>2. PICK a \in Effective :
        /\ a = FlowCip /\ a = AddressAt(eip) /\ After = map[a] + 1
        /\ Op(a) # "retn" => Spot(After) /\ Flow!Behind = AddressAt(After)
  BY AtWork
<1>3. SleepsAt(a) /\ Spot(After) /\ Flow!Behind = AddressAt(After)
  BY <1>2 DEF SleepsAt
<1>4. /\ CompilerInv /\ phase = "ready" /\ bound = DOMAIN prog.natives
      /\ StackOK(stk) /\ prog \in Programs
  BY AllTranslated DEF FlowInv, Working
<1>5. cip' \in Nat
  <2>1. PICK c : c = GetANXAddressByJITInstrPtr(Base + (map[a] + 1))
    OBVIOUS
  <2>2. c \in At /\ At \subseteq Nat
    BY <1>3, <2>1, SleepPlace, AllTranslated
  <2> QED
    BY <1>1, <1>2, <2>1, <2>2
<1>6. CASE mode' = "idle" /\ eip' = 0 /\ stk' = <<>> /\ eax' = 0
  BY <1>1, <1>4, <1>5, <1>6, Ends DEF Flow!CallNative
<1>7. ASSUME NEW v \in Values[address], eax' = v, eip' = After, UNCHANGED mode, UNCHANGED stk
      PROVE  FlowInv' /\ Flow!CallNative(n)
  <2>1. ValueOK(v) /\ PriOf(v) = <<"num", v>>
    BY <1>4, Returned
  <2>2. /\ Spot(eip') /\ ValueOK(eax') /\ StackOK(stk') /\ mode' = "run"
    BY <1>3, <1>4, <1>7, <2>1
  <2>3. /\ FlowInv' /\ UNCHANGED prog /\ FlowCip' = AddressAt(eip')
        /\ FlowPri' = PriOf(eax') /\ FlowStack' = StackOf(stk')
    BY <1>1, <1>4, <1>5, <2>2, Works
  <2>4. FlowPri' = <<"num", v>> /\ FlowCip' = Flow!Behind /\ UNCHANGED <<prog, mode, FlowStack>>
    BY <1>3, <1>7, <2>1, <2>3, Views
  <2> QED
    BY <2>3, <2>4 DEF Flow!CallNative, Flow!Set, Flow!Num
<1>8. ASSUME NEW v \in Values[address], eax' = v, mode' = "sleep", UNCHANGED eip, UNCHANGED stk
      PROVE  FlowInv' /\ Flow!CallNative(n)
  <2>1. ValueOK(v) /\ PriOf(v) = <<"num", v>>
    BY <1>4, Returned
  <2>2. ValueOK(eax') /\ SleepsAt(AddressAt(eip))
    BY <1>2, <1>3, <1>8, <2>1
  <2>3. /\ FlowInv' /\ UNCHANGED <<prog, FlowStack>> /\ FlowCip' = AddressAt(After)
        /\ FlowPri' = PriOf(eax')
    BY <1>1, <1>8, <2>2, FallsAsleep
  <2>4. FlowPri' = <<"num", v>> /\ FlowCip' = Flow!Behind
    BY <1>3, <1>8, <2>1, <2>3
  <2> QED
    BY <1>8, <2>3, <2>4 DEF Flow!CallNative, Flow!Sleep, Flow!Num
<1> QED
  BY <1>6, <1>7, <1>8 DEF CallNative

LEMMA SysreqGoes ==
  FlowInv /\ (SysreqC \/ SysreqD) => FlowInv' /\ Flow!Sysreq
<1> SUFFICES ASSUME FlowInv, SysreqC \/ SysreqD PROVE FlowInv' /\ Flow!Sysreq
  OBVIOUS
<1>1. /\ mode = "run" /\ Piece.op \in {"sysreq.c", "sysreq.d"}
      /\ Piece.op = "sysreq.c" => CallNative(Address(Piece.arg))
      /\ Piece.op = "sysreq.d" => CallNative(Piece.arg)
  BY DEF SysreqC, SysreqD, Running
<1>2. PICK a \in Effective :
        /\ a = FlowCip /\ Translation(prog, a, Piece) /\ Ready
        /\ Op(a) \notin {"sysreq.d", "intrinsic", "jump.helper"}
  BY <1>1, AtWork
<1>3. /\ Op(a) = "sysreq.c" /\ prog.code[a].arg \in DOMAIN prog.natives
      /\ Piece.op = "sysreq.c" => Piece.arg = prog.code[a].arg
      /\ Piece.op = "sysreq.d" => Piece.arg = prog.natives[prog.code[a].arg].address
  BY <1>1, <1>2, PieceOf
<1>4. PICK n \in DOMAIN prog.natives : n = prog.code[a].arg
  BY <1>3
<1>5. bound = DOMAIN prog.natives
  BY <1>1 DEF FlowInv, Working
<1>6. PICK address : address = prog.natives[n].address
  OBVIOUS
<1>7. CallNative(address)
  BY <1>1, <1>3, <1>4, <1>5, <1>6 DEF Address
<1>8. FlowInv' /\ Flow!CallNative(n)
  BY <1>1, <1>2, <1>3, <1>6, <1>7, NativeRuns
<1> QED
  BY <1>1, <1>2, <1>3, <1>4, <1>8 DEF Flow!Sysreq, Flow!Running, Flow!Instr, Op

LEMMA SysreqPriGoes == FlowInv /\ SysreqPri => FlowInv' /\ Flow!SysreqPri
<1> SUFFICES ASSUME FlowInv, SysreqPri PROVE FlowInv' /\ Flow!SysreqPri
  OBVIOUS
<1>1. mode = "run" /\ Piece.op = "sysreq.pri" /\ Native(eax) /\ CallNative(Address(eax))
  BY DEF SysreqPri, Running
<1>2. PICK a \in Effective :
        /\ a = FlowCip /\ Translation(prog, a, Piece) /\ Ready
        /\ Op(a) \notin {"sysreq.d", "intrinsic", "jump.helper"}
  BY <1>1, AtWork
<1>3. Op(a) = "sysreq.pri"
  BY <1>1, <1>2, PieceOf
<1>4. PICK n \in DOMAIN prog.natives : n = eax
  BY <1>1 DEF Native
<1>5. bound = DOMAIN prog.natives
  BY <1>1 DEF FlowInv, Working
<1>6. PICK address : address = prog.natives[n].address
  OBVIOUS
<1>7. CallNative(address)
  BY <1>1, <1>4, <1>5, <1>6 DEF Address
<1>8. FlowInv' /\ Flow!CallNative(n)
  BY <1>1, <1>2, <1>3, <1>6, <1>7, NativeRuns
<1>9. FlowPri = <<"num", n>>
  <2>1. prog \in Programs
    BY <1>2, AllTranslated
  <2>2. n \in 1..(Base - 1) /\ Base \in Nat
    BY <2>1, ScriptAssumption, CompilerAssumption DEF IsScript
  <2>3. ~(n >= Base)
    BY <2>2
  <2> QED
    BY <1>4, <2>3 DEF FlowPri
<1> QED
  BY <1>1, <1>2, <1>3, <1>8, <1>9 DEF Flow!SysreqPri, Flow!Running, Flow!Instr, Op

\* A native in line returns what the function would.
LEMMA IntrinsicGoes == FlowInv /\ Intrinsic => FlowInv' /\ Flow!Sysreq
<1> SUFFICES ASSUME FlowInv, Intrinsic PROVE FlowInv' /\ Flow!Sysreq
  OBVIOUS
<1>1. mode = "run" /\ Piece.op = "intrinsic"
  BY DEF Intrinsic, Running
<1>2. PICK v \in Values[Intrinsics[Piece.arg]] : Set(v)
  BY DEF Intrinsic
<1>3. PICK a \in Effective :
        /\ a = FlowCip /\ Translation(prog, a, Piece) /\ Ready
        /\ Op(a) \notin {"sysreq.d", "intrinsic", "jump.helper"}
  BY <1>1, AtWork
<1>4. /\ Op(a) = "sysreq.c" /\ prog.code[a].arg \in DOMAIN prog.natives
      /\ Intrinsics[Piece.arg] = prog.natives[prog.code[a].arg].address
  BY <1>1, <1>3, PieceOf
<1>5. PICK n \in DOMAIN prog.natives : n = prog.code[a].arg
  BY <1>4
<1>6. prog \in Programs /\ v \in Values[prog.natives[n].address]
  BY <1>2, <1>3, <1>4, <1>5, AllTranslated
<1>7. ValueOK(v) /\ PriOf(v) = <<"num", v>>
  BY <1>6, Returned
<1>8. FlowInv' /\ Flow!Set(PriOf(v))
  BY <1>1, <1>2, <1>3, <1>4, <1>7, Sets
<1>9. Flow!CallNative(n)
  BY <1>6, <1>7, <1>8 DEF Flow!CallNative, Flow!Num
<1> QED
  BY <1>1, <1>3, <1>4, <1>5, <1>8, <1>9 DEF Flow!Sysreq, Flow!Running, Flow!Instr, Op

LEMMA HaltGoes == FlowInv /\ Halt => FlowInv' /\ Flow!Halt
<1> SUFFICES ASSUME FlowInv, Halt PROVE FlowInv' /\ Flow!Halt
  OBVIOUS
<1>1. /\ mode = "run" /\ Piece.op = "halt"
      /\ IF Piece.arg = "SLEEP" THEN Sleep ELSE Finish
  BY DEF Halt, Running
<1>2. PICK a \in Effective :
        /\ a = FlowCip /\ a = AddressAt(eip) /\ Translation(prog, a, Piece) /\ Ready
        /\ Op(a) \notin {"sysreq.d", "intrinsic", "jump.helper"}
        /\ Op(a) # "retn" => Spot(After) /\ Flow!Behind = AddressAt(After)
  BY <1>1, AtWork
<1>3. Op(a) = "halt" /\ Piece = prog.code[a]
  BY <1>1, <1>2, PieceOf
<1>4. Flow!Running("halt") /\ Flow!Instr = Piece
  BY <1>1, <1>2, <1>3 DEF Flow!Running, Flow!Instr, Op
<1>5. CASE Piece.arg = "SLEEP"
  <2>1. /\ mode' = "sleep" /\ cip' = GetANXAddressByJITInstrPtr(Base + After)
        /\ UNCHANGED <<compilerVars, eip, eax, stk>>
    BY <1>1, <1>5 DEF Sleep
  <2>2. SleepsAt(AddressAt(eip)) /\ ValueOK(eax')
    BY <1>1, <1>2, <1>3, <1>5, <2>1 DEF SleepsAt, FlowInv, Working
  <2>3. /\ FlowInv' /\ UNCHANGED <<prog, FlowStack>> /\ FlowCip' = AddressAt(After)
        /\ FlowPri' = PriOf(eax')
    BY <1>1, <1>2, <2>1, <2>2, FallsAsleep
  <2>4. UNCHANGED FlowPri /\ FlowCip' = Flow!Behind
    BY <1>2, <1>3, <2>1, <2>3, Views
  <2> QED
    BY <1>4, <1>5, <2>1, <2>3, <2>4 DEF Flow!Halt, Flow!Sleep
<1>6. CASE Piece.arg # "SLEEP"
  <2>1. Finish /\ CompilerInv /\ cip \in Nat
    BY <1>1, <1>6 DEF FlowInv
  <2>2. FlowInv' /\ Flow!Finish
    BY <2>1, Ends DEF Finish
  <2> QED
    BY <1>4, <1>6, <2>2 DEF Flow!Halt
<1> QED
  BY <1>5, <1>6

LEMMA ContinueGoes == FlowInv /\ Continue => FlowInv' /\ Flow!Continue
<1> SUFFICES ASSUME FlowInv, Continue PROVE FlowInv' /\ Flow!Continue
  OBVIOUS
<1>1. /\ mode = "sleep" /\ mode' = "run" /\ eip' = GetJITInstrPtr(cip) - Base
      /\ UNCHANGED <<compilerVars, eax, stk, cip>>
  BY DEF Continue
<1>2. Ready /\ Working /\ Asleep /\ CompilerInv /\ cip \in Nat
  BY <1>1 DEF FlowInv, Working, Ready
<1>3. PICK a \in Effective : a = AddressAt(eip) /\ After = map[a] + 1 /\ map[a] \in Nat
  BY <1>2, Landed, EffectiveCode, MapRight DEF Working, After, Here
<1>4. GetJITInstrPtr(cip) = Base + (map[a] + 1)
  BY <1>2, <1>3, SleepPlace DEF Asleep
<1>5. Base \in Nat
  BY CompilerAssumption, <1>2, AllTranslated
<1>6. eip' = map[a] + 1
  BY <1>1, <1>3, <1>4, <1>5
<1>7. Spot(map[a] + 1)
  <2>1. Op(a) # "retn"
    BY <1>2, <1>3 DEF Asleep, SleepsAt
  <2> QED
    BY <1>2, <2>1, PlaceBehind
<1>8. /\ phase = "ready" /\ bound = DOMAIN prog.natives /\ Spot(eip') /\ ValueOK(eax')
      /\ StackOK(stk') /\ cip' \in Nat /\ UNCHANGED compilerVars
  BY <1>1, <1>2, <1>6, <1>7 DEF Working
<1>9. /\ FlowInv' /\ UNCHANGED prog /\ FlowCip' = AddressAt(eip')
      /\ FlowPri' = PriOf(eax') /\ FlowStack' = StackOf(stk')
  BY <1>1, <1>2, <1>8, Works
<1>10. FlowCip = AddressAt(eip')
  BY <1>1 DEF FlowCip
<1>11. UNCHANGED <<FlowCip, FlowPri, FlowStack>>
  BY <1>1, <1>9, <1>10, Views
<1> QED
  BY <1>1, <1>9, <1>11 DEF Flow!Continue

\* Every public function is an instruction.
LEMMA ExecGoes ==
  ASSUME FlowInv, NEW a \in prog.publics, Exec(a)
  PROVE  FlowInv' /\ Flow!Exec(a)
<1>1. /\ mode = "idle" /\ mode' = "run" /\ phase = "ready" /\ bound = DOMAIN prog.natives
      /\ eip' = GetJITInstrPtr(a) - Base /\ stk' = <<CallReturn>>
      /\ UNCHANGED <<compilerVars, eax, cip>>
  BY DEF Exec
<1>2. Ready /\ Idle /\ CompilerInv /\ cip \in Nat /\ prog \in Programs
  BY <1>1, AllTranslated DEF FlowInv, Ready
<1>3. a \in At
  <2>1. WellFormed(prog)
    BY <1>2, CompilerAssumption
  <2> QED
    BY <2>1 DEF WellFormed, At
<1>4. Base \in Nat /\ 0 < Base
  BY <1>2, InOrder
<1>5. eip' = map[a] /\ Spot(map[a]) /\ Flow!From(a) = AddressAt(map[a])
  <2>1. a \in Int /\ map[a] \in Nat
    BY <1>2, <1>3, AllTranslated, MapRight
  <2>2. GetJITInstrPtr(a) = Base + map[a]
    BY <1>2, <1>3, <2>1, JITInstrPtr
  <2> QED
    BY <1>1, <1>2, <1>3, <1>4, <2>1, <2>2, FromPlace
<1>6. ValueOK(eax') /\ eax = 0
  BY <1>1, <1>2, <1>4 DEF Idle, ValueOK
<1>7. StackOK(stk')
  BY <1>1, <1>4 DEF StackOK, CallReturn
<1>8. /\ FlowInv' /\ UNCHANGED prog /\ FlowCip' = AddressAt(eip')
      /\ FlowPri' = PriOf(eax') /\ FlowStack' = StackOf(stk')
  <2>1. Spot(eip') /\ cip' \in Nat /\ UNCHANGED compilerVars
    BY <1>1, <1>2, <1>5
  <2> QED
    BY <1>1, <1>2, <1>6, <1>7, <2>1, Works
<1>9. FlowStack' = <<Flow!Server>>
  <2>1. StackOf(<<CallReturn>>) = <<AsPlace(CallReturn)>>
    BY DEF StackOf
  <2> QED
    BY <1>1, <1>8, <2>1 DEF AsPlace, Flow!Server
<1>10. UNCHANGED FlowPri
  BY <1>1, <1>8, Views
<1> QED
  BY <1>1, <1>5, <1>8, <1>9, <1>10 DEF Flow!Exec
-----------------------------------------------------------------------------
(* All steps. *)

flowView == <<prog, mode, FlowCip, FlowPri, FlowStack>>

\* Nothing of compilation is seen by a script.
LEMMA CompilerUnseen ==
  ASSUME FlowInv, mode = "idle", CompilerNext, UNCHANGED flowVars
  PROVE  FlowInv' /\ UNCHANGED flowView
<1>1. UNCHANGED prog
  BY DEF CompilerNext, Register, Patch, EmitInstrTable, CompileInstr, CompilerFinish
<1>2. CompilerInv' /\ Idle /\ prog \in Programs /\ cip \in Nat
  BY CompilerKeeps DEF FlowInv, CompilerInv, CompilerTypes
<1>3. UNCHANGED <<mode, eip, eax, stk, cip>>
  BY DEF flowVars
<1>4. FlowInv'
  BY <1>2, <1>3 DEF FlowInv, Idle
<1>5. UNCHANGED FlowCip
  BY <1>3 DEF FlowCip
<1>6. UNCHANGED FlowPri
  <2>1. eax = 0 /\ eax' = 0 /\ ~(0 >= Base)
    BY <1>2, <1>3, InOrder DEF Idle
  <2> QED
    BY <2>1 DEF FlowPri
<1>7. UNCHANGED FlowStack
  <2>1. stk = <<>> /\ stk' = <<>>
    BY <1>2, <1>3 DEF Idle
  <2> QED
    BY <2>1 DEF FlowStack
<1> QED
  BY <1>1, <1>3, <1>4, <1>5, <1>6, <1>7 DEF flowView

LEMMA StutterUnseen ==
  ASSUME FlowInv, UNCHANGED vars
  PROVE  FlowInv' /\ UNCHANGED flowView
<1>1. /\ UNCHANGED <<compilerVars, mode, eip, eax, stk, cip>>
      /\ UNCHANGED <<prog, bound, phase, map, entries, table, code>>
  BY DEF vars, flowVars, compilerVars
<1>2. CompilerInv'
  BY <1>1, CompilerStays DEF FlowInv
<1>3. Working => Working'
  BY <1>1 DEF Working, Spot, ValueOK, StackOK, Effective, CallReturn
<1>4. Asleep => Asleep'
  <2>1. After' = After
    BY <1>1 DEF After, Here, Landing
  <2>2. SleepsAt(AddressAt(eip))' = SleepsAt(AddressAt(eip))
    BY <1>1 DEF SleepsAt, AddressAt, Effective, Op
  <2>3. GetANXAddressByJITInstrPtr(Base + After)' = GetANXAddressByJITInstrPtr(Base + After)
    BY <1>1, <2>1 DEF GetANXAddressByJITInstrPtr, LowerBound
  <2> QED
    BY <1>1, <2>2, <2>3 DEF Asleep
<1>5. FlowInv'
  BY <1>1, <1>2, <1>3, <1>4 DEF FlowInv, Idle
<1>6. UNCHANGED FlowCip
  BY <1>1 DEF FlowCip, AddressAt, Effective, GetJITInstrPtr, LowerBound
<1>7. UNCHANGED FlowPri
  BY <1>1 DEF FlowPri, AddressAt, Effective
<1>8. UNCHANGED FlowStack
  BY <1>1 DEF FlowStack, AsPlace, AddressAt, Effective
<1> QED
  BY <1>1, <1>5, <1>6, <1>7, <1>8 DEF flowView

\* Every step of the compiled code is the step of the script's instruction.
LEMMA NextGoes == FlowInv /\ [Next]_vars => FlowInv' /\ [Flow!Next]_flowView
<1> SUFFICES ASSUME FlowInv, [Next]_vars PROVE FlowInv' /\ [Flow!Next]_flowView
  OBVIOUS
<1>1. CASE mode = "idle" /\ CompilerNext /\ UNCHANGED flowVars
  BY <1>1, CompilerUnseen
<1>2. CASE \E a \in prog.publics : Exec(a)
  BY <1>2, ExecGoes DEF Flow!Next
<1>3. CASE Proc \/ Const \/ Jump \/ Jzer \/ Call \/ Retn \/ Switch
  BY <1>3, ProcGoes, ConstGoes, JumpGoes, JzerGoes, CallGoes, RetnGoes, SwitchGoes DEF Flow!Next
<1>4. CASE JumpHelper \/ GetPtr \/ JumpPtr \/ PushPtr
  BY <1>4, JumpHelperGoes, GetPtrGoes, JumpPtrGoes, PushPtrGoes DEF Flow!Next
<1>5. CASE SysreqC \/ SysreqPri \/ SysreqD \/ Intrinsic
  BY <1>5, SysreqGoes, SysreqPriGoes, IntrinsicGoes DEF Flow!Next
<1>6. CASE Halt \/ Continue
  BY <1>6, HaltGoes, ContinueGoes DEF Flow!Next
<1>7. CASE Stop \/ UNCHANGED vars
  BY <1>7, StutterUnseen DEF Stop
<1> QED
  BY <1>1, <1>2, <1>3, <1>4, <1>5, <1>6, <1>7 DEF Next

LEMMA FlowInvInit == Init => FlowInv /\ Flow!Init
<1> SUFFICES ASSUME Init PROVE FlowInv /\ Flow!Init
  OBVIOUS
<1>1. CompilerInit /\ mode = "idle" /\ eip = 0 /\ eax = 0 /\ stk = <<>> /\ cip = 0
  BY DEF Init
<1>2. CompilerInv /\ prog \in Programs
  BY <1>1, CompilerInvInit DEF CompilerInit
<1>3. FlowInv
  BY <1>1, <1>2 DEF FlowInv, Idle
<1>4. ~(0 >= Base)
  BY <1>2, InOrder
<1>5. FlowCip = 0 /\ FlowPri = <<"num", 0>>
  BY <1>1, <1>4 DEF FlowCip, FlowPri
<1>6. FlowStack = <<>>
  BY <1>1 DEF FlowStack
<1> QED
  BY <1>1, <1>3, <1>5, <1>6 DEF Flow!Init, Flow!Num
-----------------------------------------------------------------------------
(* What holds of every script. *)

\* The invariant that the results below rest on.
THEOREM FlowInvariant == Spec => []FlowInv
<1>1. Init => FlowInv
  BY FlowInvInit
<1>2. FlowInv /\ [Next]_vars => FlowInv'
  BY NextGoes
<1> QED
  BY <1>1, <1>2, PTL DEF Spec

\* The state of the compiler and of the code it has made has its type, and no
\* label is bound outside the code.
THEOREM TypeCorrect == Spec => []TypeOK
<1>1. FlowInv => TypeOK
  <2> SUFFICES ASSUME FlowInv PROVE TypeOK
    OBVIOUS
  <2>1. CompilerTypes /\ cip \in Nat /\ mode \in {"idle", "run", "sleep"}
    BY DEF FlowInv, CompilerInv
  <2>2. patched \subseteq DOMAIN prog.code /\ cur \in 0..prog.size
    <3>1. /\ prog \in Programs /\ cur \in At \cup {prog.size}
          /\ patched \subseteq {a \in At : Op(a) = "sysreq.c" /\ prog.code[a].arg \in bound}
      BY <2>1 DEF CompilerTypes
    <3>2. prog.size \in Nat /\ At \subseteq 0..(prog.size - 1)
      BY <3>1, InOrder DEF At
    <3>3. cur \in 0..prog.size
      BY <3>1, <3>2
    <3> QED
      BY <3>1, <3>3 DEF At
  <2>3. eip \in Nat /\ eax \in Nat /\ stk \in Seq(Nat)
    <3>1. CASE mode = "idle"
      BY <3>1 DEF FlowInv, Idle
    <3>2. CASE mode # "idle"
      BY <3>2 DEF FlowInv, Working, Spot, ValueOK, StackOK
    <3> QED
      BY <3>1, <3>2
  <2> QED
    BY <2>1, <2>2, <2>3 DEF TypeOK, CompilerTypes, At
<1> QED
  BY <1>1, FlowInvariant, PTL

\* When the script has been compiled the table that EmitInstrTable reserved is
\* full, has the instructions and nothing else, and is in the order in which
\* both binary searches look.
THEOREM TableAlwaysOrdered == Spec => []TableOrdered
<1>1. FlowInv => TableOrdered
  <2> SUFFICES ASSUME FlowInv, phase = "ready"
               PROVE  /\ DOMAIN table = 1..entries
                      /\ {table[k].address : k \in DOMAIN table} = DOMAIN prog.code
                      /\ \A j, k \in DOMAIN table : j < k =>
                           /\ table[j].address < table[k].address
                           /\ table[j].ptr <= table[k].ptr
    BY DEF TableOrdered
  <2>1. Ready
    BY DEF Ready, FlowInv
  <2>2. /\ DOMAIN table = 1..entries
        /\ \A k \in 1..entries : table[k].address \in At
        /\ \A a \in At : Rank(At, a) \in 1..entries /\ table[Rank(At, a)].address = a
    BY <2>1, TableEntries
  <2>3. {table[k].address : k \in DOMAIN table} = DOMAIN prog.code
    BY <2>2 DEF At
  <2>4. \A j, k \in 1..entries : j < k => /\ table[j].address < table[k].address
                                          /\ table[j].ptr <= table[k].ptr
    BY <2>1, InTableOrder
  <2> QED
    BY <2>2, <2>3, <2>4
<1> QED
  BY <1>1, FlowInvariant, PTL

\* No jump, call or case of finished code leads to a label that was never
\* bound, and each leads where the run-time lookup would find its address.
THEOREM LabelsAlwaysBound == Spec => []LabelsBound
<1>1. FlowInv => LabelsBound
  <2> SUFFICES ASSUME FlowInv, phase = "ready",
                      NEW a \in DOMAIN prog.code, NEW d \in Dests(prog, prog.code[a])
               PROVE  d \in DOMAIN labels /\ labels[d] # None /\ Base + labels[d] = GetJITInstrPtr(d)
    BY DEF LabelsBound
  <2>1. Ready
    BY DEF Ready, FlowInv
  <2>2. prog \in Programs /\ At \subseteq Nat
    BY <2>1, AllTranslated
  <2>3. d \in At /\ d \in Int
    BY <2>2, DestsThere DEF At
  <2>4. d \in DOMAIN labels /\ labels[d] = map[d] /\ map[d] \in Nat
    BY <2>1, <2>3, MapRight
  <2>5. labels[d] # None
    BY <2>4, CompilerAssumption
  <2>6. GetJITInstrPtr(d) = Base + map[d]
    BY <2>1, <2>3, JITInstrPtr
  <2> QED
    BY <2>4, <2>5, <2>6
<1> QED
  BY <1>1, FlowInvariant, PTL

\* A script that sleeps can be continued where it went to sleep.
THEOREM SleepAlwaysReturns == Spec => []SleepReturns
<1>1. FlowInv => SleepReturns
  <2> SUFFICES ASSUME FlowInv, mode = "sleep" PROVE GetJITInstrPtr(cip) = Base + After
    BY DEF SleepReturns
  <2>1. Ready /\ Working /\ Asleep
    BY DEF FlowInv, Working, Ready
  <2>2. PICK a \in Effective : a = AddressAt(eip) /\ After = map[a] + 1
    BY <2>1, Landed DEF Working, After, Here
  <2> QED
    BY <2>1, <2>2, SleepPlace DEF Asleep
<1> QED
  BY <1>1, FlowInvariant, PTL

\* The code that the compiler makes goes the way its script goes by the
\* definition of the instructions.
THEOREM Implements == Spec => GoesSameWay
<1>1. Init => Flow!Init
  BY FlowInvInit
<1>2. FlowInv /\ [Next]_vars => [Flow!Next]_flowView
  BY NextGoes
<1> QED
  BY <1>1, <1>2, FlowInvariant, PTL DEF Spec, GoesSameWay, Flow!Spec, flowView
=============================================================================
