--------------------------- MODULE AMXStack_proofs ---------------------------
(***************************************************************************)
(* Proofs about the AMX stack in AMXRuntime: whatever scripts, natives and *)
(* errors do and however they nest, every function finds its frame, every  *)
(* activation its own part of the stack, every word has its type, and the  *)
(* registers of the server come back, and the stack too.                   *)
(***************************************************************************)
EXTENDS AMXRuntime_proofs

Cell == HLW..(STP - 1)

\* What RETN finds at the FRM cell a.
LinkOK(m, a) ==
  /\ a + 2 < STP /\ m[a + 1].kind = "ret" /\ m[a + 2].kind = "size"
  /\ m[a].val \in HLW..STP
  /\ m[a + 1].val \in Sites \cup {CallReturn}
  /\ m[a + 2].val \in Nat /\ a + 3 + m[a + 2].val <= STP
  /\ m[a + 1].val # CallReturn =>
       m[a].val \in (a + 3 + m[a + 2].val)..(STP - 1) /\ m[m[a].val].kind = "frm"

Layout(m) == \A a \in Cell : m[a].kind = "frm" => LinkOK(m, a)

\* Functions whose frames are below top return below it.
Within(m, top) ==
  \A a \in Cell : a < top /\ m[a].kind = "frm" =>
    /\ a + 3 + m[a + 2].val <= top
    /\ m[a + 1].val # CallReturn => m[a].val < top

NoFrmBelow(m, sp) == \A a \in Cell : a < sp => m[a].kind # "frm"

\* A function can run with these registers.
Context(m, esp, ebp) ==
  esp \in HLW..STP /\ ebp \in Cell /\ esp <= ebp /\ m[ebp].kind = "frm"

Waiting == {i \in DOMAIN nstack : nstack[i].kind = "native"}

FrameTypes ==
  \A i \in DOMAIN nstack :
    /\ nstack[i].kind = "exec" =>
         /\ IF i = 1 THEN nstack[i].esi = HostReg ELSE nstack[i].esi \in Sites
         /\ {nstack[i].reset_ebp, nstack[i].reset_esp,
             nstack[i].reset_stk, nstack[i].reset_hea} \subseteq Word
    /\ nstack[i].kind = "helper" =>
         /\ nstack[i].edi \in Word \cup {HostReg} /\ (i = 2 => nstack[i].edi = HostReg)
         /\ {nstack[i].amx_ebp, nstack[i].amx_esp} \subseteq Word
    /\ nstack[i].kind = "native" => nstack[i].alt \in Word

RegistersOK ==
  /\ running = "native" =>
       /\ amx.stk + amx.paramcount <= STP
       /\ nstack # <<>> => cpu.esi \in Sites
       /\ nstack = <<>> => cpu.esi = HostReg /\ cpu.edi = HostReg
  /\ running = "amx" =>
       /\ amx.paramcount = 0 /\ cpu.esp \in HLW..STP /\ cpu.ebp \in HLW..STP
       /\ IF cpu.ip = CallReturn THEN amx.stk = cpu.esp ELSE Context(mem, cpu.esp, cpu.ebp)

\* Who has the CPU stays below top.
Limit(top) ==
  /\ running = "native" => amx.stk + amx.paramcount <= top
  /\ running = "amx" => IF cpu.ip = CallReturn THEN cpu.esp <= top ELSE cpu.ebp < top

WaitingOK ==
  \A i \in Waiting :
    /\ Context(mem, nstack[i].amx_esp, nstack[i].amx_ebp)
    /\ Within(mem, nstack[i].amx_esp)
    /\ Limit(nstack[i].amx_esp)
    /\ \A j \in Waiting : j < i => nstack[i].amx_ebp < nstack[j].amx_esp

\* A native that has not called Exec finds what was stored for it.
Captured ==
  (running = "native" /\ nstack # <<>> /\ last = NoResult) =>
    LET top == nstack[Len(nstack)]
    IN /\ amx.frm = top.amx_ebp /\ amx.stk + amx.paramcount = top.amx_esp
       /\ SleepEnabled => amx.cip = cpu.esi

SleeperOK ==
  (SleepEnabled /\ last.error = "SLEEP") =>
    /\ running = "native" /\ amx.paramcount = 0 /\ amx.cip \in Sites
    /\ Context(mem, amx.stk, amx.frm)
    /\ \A i \in Waiting : amx.frm < nstack[i].amx_esp

SP == IF running = "amx" THEN cpu.esp ELSE amx.stk

\* A step keeps the stack of a script that waits before and after it.
Untouched ==
  \A i \in Waiting \cap Waiting' :
    \A a \in Cell : a >= nstack[i].amx_esp => mem'[a] = mem[a]

TypeInv == TypeOK /\ FrameTypes /\ amx.error = "NONE"
\* ... of cpu.
Registers == [eax : Word, ecx : Word, esi : Word \cup {HostReg},
              edi : Word \cup {HostReg}, esp : Nat, ebp : Nat, ip : Word]
\* ... of amx.
Fields == [stk : HLW..STP, frm : HLW..STP, hea : HLW..STP, cip : Word,
           pri : Word, alt : Word, error : ErrorCodes, paramcount : 0..MaxParams,
           reset_stk : Word, reset_hea : Word, ntvreg : BOOLEAN]
LayoutInv ==
  /\ RegistersOK /\ Layout(mem) /\ NoFrmBelow(mem, SP)
  /\ WaitingOK /\ Captured /\ SleeperOK

\* The inductive invariant; NativeInv is proved in AMXRuntime_proofs.
StackInv == NativeInv /\ TypeInv /\ LayoutInv

-----------------------------------------------------------------------------
(* The memory: what cutting off its lower end and pushing a frame keep.     *)

\* n is m with everything below t gone or overwritten by data.
CutAt(m, n, t) ==
  \A a \in Cell : IF a < t THEN n[a].kind # "frm" ELSE n[a] = m[a]

LEMMA CutKeeps ==
  ASSUME NEW m, NEW n, NEW t \in Int, CutAt(m, n, t), Layout(m), LayoutAssumption
  PROVE  /\ Layout(n) /\ NoFrmBelow(n, t)
         /\ \A top \in Int : Within(m, top) => Within(n, top)
         /\ \A esp, ebp : Context(m, esp, ebp) /\ t <= ebp => Context(n, esp, ebp)
<1> STP \in Nat /\ HLW \in Nat
  BY DEF LayoutAssumption
<1>1. ASSUME NEW a \in Cell, n[a].kind = "frm"
      PROVE  /\ LinkOK(m, a) /\ LinkOK(n, a) /\ n[a] = m[a] /\ n[a + 1] = m[a + 1]
             /\ n[a + 2] = m[a + 2]
  <2>1. a >= t /\ m[a].kind = "frm" /\ n[a] = m[a] /\ a \in Int
    BY <1>1 DEF CutAt, Cell
  <2>2. LinkOK(m, a)
    BY <2>1 DEF Layout
  <2>3. a + 1 \in Cell /\ a + 2 \in Cell
    BY <2>2 DEF LinkOK, Cell
  <2>4. n[a + 1] = m[a + 1] /\ n[a + 2] = m[a + 2]
    BY <2>1, <2>3 DEF CutAt, Cell
  <2>5. m[a + 1].val # CallReturn => m[a].val \in Cell /\ m[a].val >= t
    BY <2>1, <2>2 DEF LinkOK, Cell
  <2>6. m[a + 1].val # CallReturn => n[m[a].val] = m[m[a].val]
    BY <2>1, <2>5 DEF CutAt, Cell
  <2> QED
    BY <2>1, <2>2, <2>4, <2>6 DEF LinkOK
<1>2. Layout(n)
  BY <1>1 DEF Layout
<1>3. NoFrmBelow(n, t)
  BY DEF NoFrmBelow, CutAt
<1>4. ASSUME NEW top \in Int, Within(m, top) PROVE Within(n, top)
  BY <1>1, <1>4 DEF Within
<1>5. ASSUME NEW esp, NEW ebp, Context(m, esp, ebp), t <= ebp PROVE Context(n, esp, ebp)
  BY <1>5 DEF Context, CutAt, Cell
<1> QED
  BY <1>2, <1>3, <1>4, <1>5

\* n is m with the frame of a function pushed at p.
Pushed(m, n, p, k, s, link) ==
  \A a \in Cell : n[a] = IF a = p - 1 THEN Size(k) ELSE IF a = p - 2 THEN Ret(s)
                         ELSE IF a = p - 3 THEN Frm(link) ELSE m[a]

\* What a call of a function does, by CALL or by Exec, and what RETN does.
CallsFunction(p, k, s, link) ==
  /\ Pushed(mem, mem', p, k, s, link) /\ p - 3 >= HLW /\ p + k <= STP
  /\ cpu'.esp = p - 3 /\ cpu'.ebp = p - 3 /\ cpu'.ip # CallReturn
  /\ mem'[p - 3] = Frm(link) /\ mem'[p - 2] = Ret(s) /\ mem'[p - 1] = Size(k)
Returns(p, sp) ==
  /\ CutAt(mem, mem', sp) /\ p < sp /\ sp \in HLW..STP /\ sp = p + 3 + mem[p + 2].val
  /\ cpu'.esp = sp /\ cpu'.ebp = mem[p].val /\ cpu'.ip = mem[p + 1].val

LEMMA PushedCells ==
  ASSUME NEW m, NEW n, NEW p \in Int, NEW k \in Nat, NEW s, NEW link, LayoutAssumption,
         p - 3 >= HLW, p + k <= STP, Pushed(m, n, p, k, s, link)
  PROVE  n[p - 1] = Size(k) /\ n[p - 2] = Ret(s) /\ n[p - 3] = Frm(link)
<1>1. p - 1 \in Cell /\ p - 2 \in Cell /\ p - 3 \in Cell
  BY LayoutAssumption DEF Cell
<1> QED
  BY <1>1 DEF Pushed, Cell

\* A frame pushed at p, with k parameters above it.
LEMMA PushKeeps ==
  ASSUME NEW m, NEW n, NEW p \in Int, NEW k \in Nat, NEW s \in Sites \cup {CallReturn},
         NEW link \in HLW..STP, LayoutAssumption,
         Layout(m), NoFrmBelow(m, p), p - 3 >= HLW, p + k <= STP,
         s # CallReturn => link \in (p + k)..(STP - 1) /\ m[link].kind = "frm",
         Pushed(m, n, p, k, s, link)
  PROVE  /\ Layout(n) /\ NoFrmBelow(n, p - 3)
         /\ \A top \in Int : Within(m, top) /\ p + k <= top /\ (s # CallReturn => link < top)
                               => Within(n, top)
         /\ \A esp, ebp : Context(m, esp, ebp) => Context(n, esp, ebp)
         /\ p - 3 \in Cell /\ n[p - 3].kind = "frm"
         /\ \A a \in Cell : a >= p => n[a] = m[a]
<1> STP \in Nat /\ HLW \in Nat
  BY DEF LayoutAssumption
<1>0. p - 1 \in Cell /\ p - 2 \in Cell /\ p - 3 \in Cell
  BY DEF Cell
<1>1. n[p - 1] = Size(k) /\ n[p - 2] = Ret(s) /\ n[p - 3] = Frm(link)
  BY <1>0 DEF Cell, Pushed
<1>2. \A a \in Cell : a >= p => n[a] = m[a]
  BY DEF Cell, Pushed
<1>3. \A a \in Cell : n[a].kind = "frm" => a >= p \/ a = p - 3
  <2> TAKE a \in Cell
  <2> HAVE n[a].kind = "frm"
  <2>1. a # p - 1 /\ a # p - 2
    BY <1>1 DEF Size, Ret
  <2>2. a < p => a = p - 3 \/ n[a] = m[a]
    BY <2>1 DEF Pushed, Cell
  <2> QED
    BY <2>2 DEF NoFrmBelow, Cell
<1>4. LinkOK(n, p - 3)
  <2>1. (p - 3) + 1 = p - 2 /\ (p - 3) + 2 = p - 1 /\ (p - 3) + 3 + k = p + k
    OBVIOUS
  <2>2. n[(p - 3) + 1] = Ret(s) /\ n[(p - 3) + 2] = Size(k)
    BY <1>1, <2>1
  <2>3. s # CallReturn => n[link] = m[link] /\ link \in Cell
    BY <1>2 DEF Cell
  <2>4. n[p - 3].val = link /\ n[(p - 3) + 1].kind = "ret" /\ n[(p - 3) + 1].val = s
        /\ n[(p - 3) + 2].kind = "size" /\ n[(p - 3) + 2].val = k
    BY <1>1, <2>2 DEF Frm, Ret, Size
  <2>5. (p - 3) + 2 < STP /\ (p - 3) + 3 + k <= STP
    OBVIOUS
  <2>6. s # CallReturn => link \in ((p - 3) + 3 + k)..(STP - 1) /\ n[link].kind = "frm"
    BY <2>1, <2>3
  <2> QED
    BY <2>4, <2>5, <2>6 DEF LinkOK
<1>5. ASSUME NEW a \in Cell, a >= p, n[a].kind = "frm"
      PROVE  /\ LinkOK(m, a) /\ LinkOK(n, a) /\ m[a] = n[a]
             /\ m[a + 1] = n[a + 1] /\ m[a + 2] = n[a + 2]
  <2>1. m[a].kind = "frm" /\ n[a] = m[a] /\ a \in Int
    BY <1>2, <1>5 DEF Cell
  <2>2. LinkOK(m, a)
    BY <2>1 DEF Layout
  <2>3. a + 1 \in Cell /\ a + 2 \in Cell
    BY <2>2 DEF LinkOK, Cell
  <2>4. n[a + 1] = m[a + 1] /\ n[a + 2] = m[a + 2]
    BY <1>2, <1>5, <2>1, <2>3
  <2>5. m[a + 1].val # CallReturn => m[a].val \in Cell /\ m[a].val >= p
    BY <1>5, <2>1, <2>2 DEF LinkOK, Cell
  <2>6. m[a + 1].val # CallReturn => n[m[a].val] = m[m[a].val]
    BY <1>2, <2>5
  <2> QED
    BY <2>1, <2>2, <2>4, <2>6 DEF LinkOK
<1>6. Layout(n)
  BY <1>3, <1>4, <1>5 DEF Layout
<1>7. NoFrmBelow(n, p - 3)
  BY <1>3 DEF NoFrmBelow, Cell
<1>8. ASSUME NEW top \in Int, Within(m, top), p + k <= top, s # CallReturn => link < top
      PROVE  Within(n, top)
  <2> SUFFICES ASSUME NEW a \in Cell, a < top, n[a].kind = "frm"
               PROVE  /\ a + 3 + n[a + 2].val <= top
                      /\ n[a + 1].val # CallReturn => n[a].val < top
    BY DEF Within
  <2>1. CASE a >= p
    BY <1>5, <1>8, <2>1 DEF Within
  <2>2. CASE a = p - 3
    <3>1. a + 1 = p - 2 /\ a + 2 = p - 1 /\ a + 3 + k = p + k
      BY <2>2
    <3>2. n[a + 2].val = k /\ n[a + 1].val = s /\ n[a].val = link
      BY <1>1, <2>2, <3>1 DEF Frm, Ret, Size
    <3> QED
      BY <1>8, <3>1, <3>2
  <2> QED
    BY <1>3, <2>1, <2>2
<1>9. ASSUME NEW esp, NEW ebp, Context(m, esp, ebp) PROVE Context(n, esp, ebp)
  <2>1. ebp >= p
    BY <1>9 DEF Context, NoFrmBelow, Cell
  <2> QED
    BY <1>2, <1>9, <2>1 DEF Context
<1> QED
  BY <1>0, <1>1, <1>2, <1>6, <1>7, <1>8, <1>9 DEF Frm

-----------------------------------------------------------------------------
(* Scripts at work: steps that leave the native stack alone.                *)

\* Types of what the invariant speaks of.
LEMMA Typed ==
  ASSUME StackInv
  PROVE  /\ STP \in Nat /\ HLW \in Nat /\ HLW < STP
         /\ amx.stk \in HLW..STP /\ amx.frm \in HLW..STP /\ amx.paramcount \in Nat
         /\ amx.hea \in HLW..STP
         /\ running \in {"native", "amx"}
         /\ running = "amx" => cpu.esp \in HLW..STP /\ cpu.ebp \in HLW..STP
         /\ \A i \in Waiting : nstack[i].amx_esp \in HLW..STP /\ nstack[i].amx_ebp \in Cell
         /\ SP \in HLW..STP
BY LayoutAssumption
DEF StackInv, TypeInv, LayoutInv, TypeOK, RegistersOK, WaitingOK, Context, SP

\* A script waits below those that have waited before it, and above who runs.
LEMMA WaitingAbove ==
  ASSUME StackInv, NEW i \in Waiting
  PROVE  /\ running = "native" => amx.stk + amx.paramcount <= nstack[i].amx_esp
         /\ Script => cpu.ebp < nstack[i].amx_esp
         /\ running = "amx" => cpu.esp <= nstack[i].amx_esp
<1>1. Limit(nstack[i].amx_esp)
  BY DEF StackInv, LayoutInv, WaitingOK
<1>2. running = "amx" /\ cpu.ip # CallReturn => cpu.esp <= cpu.ebp
  BY DEF StackInv, LayoutInv, RegistersOK, Context
<1> QED
  BY <1>1, <1>2, Typed DEF Limit, Script, Cell

\* A step within the current function: what is pushed, popped or overwritten
\* is below its FRM cell.
Works(t) ==
  /\ Script /\ UNCHANGED <<nstack, rib, running, last>>
  /\ cpu'.ip = cpu.ip /\ cpu'.ebp = cpu.ebp
  /\ cpu'.esp \in HLW..STP /\ cpu'.esp <= t /\ cpu.esp <= t /\ t <= cpu.ebp
  /\ CutAt(mem, mem', t)
  /\ amx'.paramcount = amx.paramcount

LEMMA WorkKeepsLayout ==
  ASSUME StackInv, NEW t \in Int, Works(t)
  PROVE  LayoutInv' /\ Untouched
<1>1. /\ Layout(mem) /\ Context(mem, cpu.esp, cpu.ebp) /\ amx.paramcount = 0
      /\ running = "amx" /\ cpu.ip # CallReturn
  BY DEF StackInv, LayoutInv, RegistersOK, Works, Script
<1>2. /\ Layout(mem') /\ NoFrmBelow(mem', t)
      /\ \A top \in Int : Within(mem, top) => Within(mem', top)
      /\ \A esp, ebp : Context(mem, esp, ebp) /\ t <= ebp => Context(mem', esp, ebp)
  BY <1>1, CutKeeps, LayoutAssumption DEF Works
<1>3. Context(mem', cpu'.esp, cpu'.ebp)
  <2>1. Context(mem', cpu.esp, cpu.ebp)
    BY <1>1, <1>2 DEF Works
  <2> QED
    BY <2>1, Typed DEF Context, Works, Cell
<1>4. RegistersOK'
  BY <1>1, <1>3, Typed DEF RegistersOK, Works, Context, Cell
<1>5. NoFrmBelow(mem', cpu'.esp) /\ SP' = cpu'.esp
  BY <1>1, <1>2, Typed DEF NoFrmBelow, Works, SP, Cell
<1>6. WaitingOK'
  <2> SUFFICES ASSUME NEW i \in Waiting
               PROVE  /\ Context(mem', nstack[i].amx_esp, nstack[i].amx_ebp)
                      /\ Within(mem', nstack[i].amx_esp)
                      /\ cpu'.ebp < nstack[i].amx_esp
                      /\ \A j \in Waiting : j < i => nstack[i].amx_ebp < nstack[j].amx_esp
    BY <1>1 DEF WaitingOK, Waiting, Works, Limit
  <2>1. /\ Context(mem, nstack[i].amx_esp, nstack[i].amx_ebp)
        /\ Within(mem, nstack[i].amx_esp)
        /\ \A j \in Waiting : j < i => nstack[i].amx_ebp < nstack[j].amx_esp
    BY DEF StackInv, LayoutInv, WaitingOK
  <2>2. cpu.ebp < nstack[i].amx_esp
    BY WaitingAbove DEF Works
  <2>3. t <= nstack[i].amx_ebp
    BY <1>1, <2>1, <2>2, Typed DEF Works, Context, Cell
  <2> QED
    BY <1>2, <2>1, <2>2, <2>3, Typed DEF Works, Cell
<1>7. Captured' /\ SleeperOK'
  BY <1>1 DEF StackInv, LayoutInv, Captured, SleeperOK, Works
<1>8. Untouched
  <2>1. \A i \in Waiting : t < nstack[i].amx_esp /\ nstack[i].amx_esp \in Int
    <3> TAKE i \in Waiting
    <3>1. cpu.ebp < nstack[i].amx_esp /\ nstack[i].amx_esp \in Int
      BY WaitingAbove, Typed DEF Works
    <3> QED
      BY <1>1, <3>1, Typed DEF Works
  <2> QED
    BY <2>1 DEF Untouched, Works, CutAt, Cell
<1> QED
  BY <1>2, <1>4, <1>5, <1>6, <1>7, <1>8 DEF LayoutInv

LEMMA ConstKeeps ==
  ASSUME StackInv, NEW v \in Values, OpConst(v)
  PROVE  TypeInv' /\ LayoutInv' /\ Untouched /\ \E t \in Int : Works(t)
<1>1. /\ Script /\ running = "amx" /\ UNCHANGED <<amx, rib, nstack, mem, running, last>>
      /\ cpu'.esp = cpu.esp /\ cpu'.ebp = cpu.ebp /\ cpu'.ip = cpu.ip
      /\ cpu' \in Registers
  <2>1. v \in Word
    BY DEF Word
  <2>2. CASE cpu' = [cpu EXCEPT !.eax = v]
    BY <2>1, <2>2 DEF OpConst, Script, StackInv, TypeInv, TypeOK, Registers
  <2>3. CASE cpu' = [cpu EXCEPT !.ecx = v]
    BY <2>1, <2>3 DEF OpConst, Script, StackInv, TypeInv, TypeOK, Registers
  <2> QED
    BY <2>2, <2>3 DEF OpConst
<1>2. TypeInv'
  BY <1>1 DEF StackInv, TypeInv, TypeOK, Registers, FrameTypes
<1>3. Works(cpu.esp)
  <2>1. cpu.esp \in HLW..STP /\ cpu.esp <= cpu.ebp
    BY <1>1, Typed DEF StackInv, LayoutInv, RegistersOK, Context, Script
  <2>2. CutAt(mem, mem', cpu.esp)
    BY <1>1 DEF StackInv, LayoutInv, NoFrmBelow, CutAt, SP, Script
  <2> QED
    BY <1>1, <2>1, <2>2, Typed DEF Works
<1> QED
  BY <1>1, <1>2, <1>3, WorkKeepsLayout, Typed

\* A step that changes nothing but registers and fields of amx.
LEMMA TypesStay ==
  ASSUME TypeInv, UNCHANGED <<rib, nstack, mem, running, last>>,
         cpu' \in Registers, amx' \in Fields, amx'.error = "NONE"
  PROVE  TypeInv'
<1>1. TypeOK'
  BY DEF TypeInv, TypeOK, Registers, Fields
<1>2. FrameTypes'
  BY DEF TypeInv, FrameTypes
<1> QED
  BY <1>1, <1>2 DEF TypeInv

LEMMA HeapKeeps ==
  ASSUME StackInv, NEW n \in {-1, 1}, NEW v \in Values, OpHeap(n, v)
  PROVE  TypeInv' /\ LayoutInv' /\ Untouched /\ \E t \in Int : Works(t)
<1>1. /\ Script /\ running = "amx" /\ UNCHANGED <<rib, nstack, mem, running, last>>
      /\ cpu'.esp = cpu.esp /\ cpu'.ebp = cpu.ebp /\ cpu'.ip = cpu.ip
      /\ cpu' \in Registers
  BY DEF OpHeap, Script, StackInv, TypeInv, TypeOK, Registers, Word
<1>2. /\ amx'.paramcount = amx.paramcount /\ amx'.error = "NONE"
      /\ amx.hea + n \in HLW..STP
      /\ amx' = [amx EXCEPT !.hea = amx.hea + n]
  BY <1>1, Typed DEF OpHeap, StackInv, TypeInv, TypeOK
<1>3. TypeInv'
  <2>1. TypeInv /\ amx \in Fields
    BY DEF StackInv, TypeInv, TypeOK, Fields
  <2>2. amx' \in Fields /\ amx'.error = "NONE"
    BY <1>2, <2>1 DEF Fields
  <2> QED
    BY <1>1, <2>1, <2>2, TypesStay
<1>4. Works(cpu.esp)
  <2>1. cpu.esp \in HLW..STP /\ cpu.esp <= cpu.ebp
    BY <1>1, Typed DEF StackInv, LayoutInv, RegistersOK, Context, Script
  <2>2. CutAt(mem, mem', cpu.esp)
    BY <1>1 DEF StackInv, LayoutInv, NoFrmBelow, CutAt, SP, Script
  <2> QED
    BY <1>1, <1>2, <2>1, <2>2, Typed DEF Works
<1> QED
  BY <1>1, <1>3, <1>4, WorkKeepsLayout, Typed


-----------------------------------------------------------------------------
(* Types and native frames. *)

LEMMA Words ==
  /\ Nat \subseteq Word /\ Values \subseteq Word /\ Sites \subseteq Word /\ Functions \subseteq Word
  /\ {CallReturn, Null, Garbage} \subseteq Word
  /\ Dead \in Cells
  /\ \A v \in Word : /\ Data(v) \in Cells /\ Size(v) \in Cells
                     /\ Frm(v) \in Cells /\ Ret(v) \in Cells
BY DEF Word, Cells, Dead, Data, Size, Frm, Ret

\* Frames that a step keeps, and what it does to the scripts waiting for natives.
Keeps == \A i \in DOMAIN nstack : i \in DOMAIN nstack' => nstack'[i] = nstack[i]

LEMMA EnterFrames ==
  ASSUME NativeInv, NEW reset,
         nstack' = nstack \o <<ExecFrame(reset), HelperFrame>>
  PROVE  /\ Keeps /\ Waiting' = Waiting /\ nstack' # <<>>
         /\ \E n \in Nat : /\ n = Len(nstack) /\ Len(nstack') = n + 2
                           /\ DOMAIN nstack = 1..n /\ DOMAIN nstack' = 1..(n + 2)
                           /\ nstack'[n + 1] = ExecFrame(reset)
                           /\ nstack'[n + 2] = HelperFrame
<1>0. PICK n \in Nat : n = Len(nstack)
  BY PileShape
<1>2. PICK S : nstack \in Seq(S)
  BY DEF NativeInv, IsPile
<1>3. /\ Len(nstack') = n + 2 /\ DOMAIN nstack' = 1..(n + 2) /\ DOMAIN nstack = 1..n
      /\ \A i \in 1..n : nstack'[i] = nstack[i]
      /\ nstack'[n + 1] = ExecFrame(reset) /\ nstack'[n + 2] = HelperFrame
      /\ nstack' # <<>>
  BY <1>0, <1>2, PushTwo, PileShape
<1>4. nstack'[n + 1].kind = "exec" /\ nstack'[n + 2].kind = "helper"
  <2>1. ExecFrame(reset).kind = "exec" /\ HelperFrame.kind = "helper"
    BY DEF ExecFrame, HelperFrame
  <2> QED
    BY <1>3, <2>1
<1>5. Keeps /\ Waiting' = Waiting
  BY <1>3, <1>4 DEF Keeps, Waiting
<1> QED
  BY <1>0, <1>3, <1>5

LEMMA CallFrames ==
  ASSUME NativeInv, CallsNative
  PROVE  /\ Keeps /\ nstack' # <<>>
         /\ \E n \in Nat : /\ n = Len(nstack) /\ Len(nstack') = n + 1
                           /\ DOMAIN nstack = 1..n /\ DOMAIN nstack' = 1..(n + 1)
                           /\ nstack'[n + 1] = NativeFrame
                           /\ Waiting' = Waiting \cup {n + 1}
<1>0. PICK n \in Nat : n = Len(nstack)
  BY PileShape
<1>1. DOMAIN nstack = 1..n /\ n >= 2 /\ rib.esp = n
  BY <1>0, PileShape DEF NativeInv, NativeStackOK, TopOK, LabelsOK, CallsNative
<1>2. PICK S : nstack \in Seq(S)
  BY DEF NativeInv, IsPile
<1>3. SubSeq(nstack, 1, n) = nstack
  BY <1>0, <1>2, SubSeqFull
<1>4. nstack' = Append(nstack, NativeFrame)
  BY <1>1, <1>3 DEF CallsNative
<1>5. /\ Len(nstack') = n + 1 /\ DOMAIN nstack' = 1..(n + 1) /\ nstack' # <<>>
      /\ \A i \in 1..n : nstack'[i] = nstack[i]
      /\ nstack'[n + 1] = NativeFrame
  BY <1>0, <1>2, <1>4, PushOne
<1>6. nstack'[n + 1].kind = "native"
  BY <1>5 DEF NativeFrame
<1>7. Keeps /\ Waiting' = Waiting \cup {n + 1}
  BY <1>1, <1>5, <1>6 DEF Keeps, Waiting
<1> QED
  BY <1>0, <1>1, <1>5, <1>7

LEMMA ResumeFrames ==
  ASSUME NativeInv, Resumes
  PROVE  /\ Keeps /\ cpu.esp \in Waiting /\ cpu.esp = Len(nstack)
         /\ DOMAIN nstack' \subseteq DOMAIN nstack
         /\ Waiting' = Waiting \ {cpu.esp}
         /\ \A i \in Waiting' : /\ i \in Waiting /\ i < cpu.esp
                                /\ i + 1 \in DOMAIN nstack' /\ i # Len(nstack')
<1>0. PICK n \in Nat : n = Len(nstack)
  BY PileShape
<1>1. DOMAIN nstack = 1..n /\ n >= 3 /\ nstack[n].kind = "native" /\ cpu.esp = n
      /\ nstack[n - 1].kind = "helper"
  BY <1>0, PileShape DEF NativeInv, NativeStackOK, TopOK, CallerEbpOK, Resumes
<1>2. PICK S : nstack \in Seq(S)
  BY DEF NativeInv, IsPile
<1>3. /\ Len(nstack') = n - 1 /\ DOMAIN nstack' = 1..(n - 1)
      /\ \A i \in 1..(n - 1) : nstack'[i] = nstack[i]
  <2>1. nstack' = SubSeq(nstack, 1, n - 1) /\ n - 1 \in 0..Len(nstack)
    BY <1>0, <1>1 DEF Resumes
  <2> QED
    BY <1>1, <1>2, <2>1, Cut
<1>4. \A i \in Waiting' : i \in 1..(n - 1) /\ i # n - 1
  <2> TAKE i \in Waiting'
  <2>1. i \in 1..(n - 1) /\ nstack'[i].kind = "native" /\ nstack'[i] = nstack[i]
    BY <1>3 DEF Waiting
  <2> QED
    BY <1>1, <2>1
<1>5. \A i \in Waiting' : i + 1 \in 1..(n - 1) /\ i # n - 1 /\ i < n
  BY <1>1, <1>4
<1> QED
  BY <1>0, <1>1, <1>3, <1>5 DEF Keeps, Waiting

LEMMA LeaveFrames ==
  ASSUME NativeInv, LeavesScript
  PROVE  /\ Keeps /\ Waiting' \subseteq Waiting /\ DOMAIN nstack' \subseteq DOMAIN nstack
         /\ \E m \in 0..Len(nstack) :
              /\ rib.ebp = m + 1 /\ rib.esp = m + 2 /\ m + 2 \in DOMAIN nstack
              /\ nstack[m + 1].kind = "exec" /\ nstack[m + 2].kind = "helper"
              /\ m = 0 \/ m >= 3
              /\ nstack' = <<>> <=> m = 0
              /\ Len(nstack') = m /\ DOMAIN nstack' = 1..m
              /\ Waiting' = Waiting \cap 1..m
              /\ running = "native" =>
                   /\ cpu.esp = m + 3 /\ cpu.esp \in Waiting
                   /\ \A i \in Waiting' : i < cpu.esp
<1>0. Len(nstack) \in Nat /\ DOMAIN nstack = 1..Len(nstack)
  BY PileShape
<1>1. PICK m \in 0..Len(nstack) :
           /\ m + 2 \in DOMAIN nstack
           /\ rib.ebp = m + 1 /\ rib.esp = m + 2
           /\ nstack[m + 1].kind = "exec" /\ nstack[m + 2].kind = "helper"
           /\ m = 0 \/ m >= 3
           /\ running = "amx" => Len(nstack) = m + 2
           /\ running = "native" => Len(nstack) = m + 3
  BY Innermost DEF LeavesScript
<1>2. PICK S : nstack \in Seq(S)
  BY DEF NativeInv, IsPile
<1>3. nstack' = SubSeq(nstack, 1, m)
  BY <1>1 DEF LeavesScript
<1>4. /\ Len(nstack') = m /\ DOMAIN nstack' = 1..m /\ (nstack' = <<>> <=> m = 0)
      /\ \A i \in 1..m : nstack'[i] = nstack[i]
  BY <1>1, <1>2, <1>3, Cut
<1>5. Keeps /\ Waiting' = Waiting \cap 1..m /\ DOMAIN nstack' \subseteq DOMAIN nstack
  <2>0. 1..m \subseteq 1..Len(nstack)
    BY <1>0
  <2>1. Keeps /\ DOMAIN nstack' \subseteq DOMAIN nstack
    BY <1>0, <1>4, <2>0 DEF Keeps
  <2>2. Waiting' = {i \in 1..m : nstack[i].kind = "native"}
    BY <1>4 DEF Waiting
  <2>3. Waiting = {i \in 1..Len(nstack) : nstack[i].kind = "native"}
    BY <1>0 DEF Waiting
  <2> QED
    BY <2>0, <2>1, <2>2, <2>3
<1>6. running = "native" => cpu.esp = m + 3 /\ cpu.esp \in Waiting
  BY <1>0, <1>1 DEF Waiting, NativeInv, NativeStackOK, TopOK, CallerEbpOK, LeavesScript
<1>7. running = "native" => \A i \in Waiting' : i < cpu.esp
  BY <1>5, <1>6
<1> QED
  BY <1>1, <1>4, <1>5, <1>6, <1>7

\* Frames kept keep their types.
LEMMA KeptTypes ==
  ASSUME FrameTypes, Keeps, DOMAIN nstack' \subseteq DOMAIN nstack
  PROVE  FrameTypes'
BY DEF FrameTypes, Keeps

\* A step that cuts the stack at t, below the scripts that still wait.
LEMMA CutWaits ==
  ASSUME StackInv, NEW t \in Int, CutAt(mem, mem', t), Keeps, Waiting' \subseteq Waiting,
         \A i \in Waiting' : t <= nstack[i].amx_esp /\ Limit(nstack[i].amx_esp)'
  PROVE  Layout(mem') /\ NoFrmBelow(mem', t) /\ WaitingOK' /\ Untouched
<1>1. /\ Layout(mem') /\ NoFrmBelow(mem', t)
      /\ \A top \in Int : Within(mem, top) => Within(mem', top)
      /\ \A esp, ebp : Context(mem, esp, ebp) /\ t <= ebp => Context(mem', esp, ebp)
  BY CutKeeps, LayoutAssumption DEF StackInv, LayoutInv
<1>2. ASSUME NEW i \in Waiting'
      PROVE  /\ nstack'[i] = nstack[i]
             /\ Context(mem', nstack[i].amx_esp, nstack[i].amx_ebp)
             /\ Within(mem', nstack[i].amx_esp)
             /\ \A j \in Waiting' : j < i => nstack[i].amx_ebp < nstack[j].amx_esp
  <2>1. i \in Waiting /\ nstack'[i] = nstack[i]
    BY DEF Keeps, Waiting
  <2>2. /\ Context(mem, nstack[i].amx_esp, nstack[i].amx_ebp)
        /\ Within(mem, nstack[i].amx_esp) /\ nstack[i].amx_esp \in Int
        /\ \A j \in Waiting : j < i => nstack[i].amx_ebp < nstack[j].amx_esp
    BY <2>1, Typed DEF StackInv, LayoutInv, WaitingOK
  <2>3. t <= nstack[i].amx_ebp
    BY <2>1, <2>2, Typed DEF Context, Cell
  <2> QED
    BY <1>1, <2>1, <2>2, <2>3
<1>3. WaitingOK'
  BY <1>2 DEF WaitingOK
<1>4. Untouched
  BY Typed DEF Untouched, CutAt, Cell
<1> QED
  BY <1>1, <1>3, <1>4

\* A step that pushes the frame of a function.
LEMMA PushWaits ==
  ASSUME StackInv, NEW p \in Int, NEW k \in Nat, NEW s \in Sites \cup {CallReturn},
         NEW link \in HLW..STP, NoFrmBelow(mem, p), p - 3 >= HLW, p + k <= STP,
         s # CallReturn => link \in (p + k)..(STP - 1) /\ mem[link].kind = "frm",
         Pushed(mem, mem', p, k, s, link),
         Keeps, Waiting' \subseteq Waiting,
         \A i \in Waiting : p + k <= nstack[i].amx_esp
                            /\ (s # CallReturn => link < nstack[i].amx_esp)
                            /\ Limit(nstack[i].amx_esp)'
  PROVE  /\ Layout(mem') /\ NoFrmBelow(mem', p - 3) /\ WaitingOK' /\ Untouched
         /\ Context(mem', p - 3, p - 3)
<1>0. STP \in Nat /\ HLW \in Nat
  BY LayoutAssumption
<1>1. /\ Layout(mem') /\ NoFrmBelow(mem', p - 3)
      /\ \A top \in Int : Within(mem, top) /\ p + k <= top /\ (s # CallReturn => link < top)
                               => Within(mem', top)
      /\ \A esp, ebp : Context(mem, esp, ebp) => Context(mem', esp, ebp)
      /\ p - 3 \in Cell /\ mem'[p - 3].kind = "frm"
      /\ \A a \in Cell : a >= p => mem'[a] = mem[a]
  <2>1. Layout(mem)
    BY DEF StackInv, LayoutInv
  <2>2. /\ Layout(mem') /\ NoFrmBelow(mem', p - 3)
        /\ \A top \in Int : Within(mem, top) /\ p + k <= top /\ (s # CallReturn => link < top)
                               => Within(mem', top)
        /\ \A esp, ebp : Context(mem, esp, ebp) => Context(mem', esp, ebp)
        /\ p - 3 \in Cell /\ mem'[p - 3].kind = "frm"
        /\ \A a \in Cell : a >= p => mem'[a] = mem[a]
    BY <2>1, PushKeeps, LayoutAssumption, Zenon
  <2> QED
    BY <2>2
<1>2. ASSUME NEW i \in Waiting'
      PROVE  /\ nstack'[i] = nstack[i] /\ Limit(nstack[i].amx_esp)'
             /\ Context(mem', nstack[i].amx_esp, nstack[i].amx_ebp)
             /\ Within(mem', nstack[i].amx_esp)
             /\ \A j \in Waiting' : j < i => nstack[i].amx_ebp < nstack[j].amx_esp
  <2>1. i \in Waiting /\ nstack'[i] = nstack[i]
    BY DEF Keeps, Waiting
  <2>2. /\ Context(mem, nstack[i].amx_esp, nstack[i].amx_ebp)
        /\ Within(mem, nstack[i].amx_esp) /\ nstack[i].amx_esp \in Int
        /\ \A j \in Waiting : j < i => nstack[i].amx_ebp < nstack[j].amx_esp
    BY <2>1, Typed DEF StackInv, LayoutInv, WaitingOK
  <2> QED
    BY <1>1, <2>1, <2>2
<1>3. WaitingOK'
  BY <1>2 DEF WaitingOK
<1>4. Context(mem', p - 3, p - 3)
  BY <1>0, <1>1 DEF Context, Cell
<1>5. Untouched
  <2>1. \A i \in Waiting : p <= nstack[i].amx_esp /\ nstack[i].amx_esp \in Int
    BY Typed
  <2> QED
    BY <1>0, <1>1, <2>1 DEF Untouched, Cell
<1> QED
  BY <1>1, <1>3, <1>4, <1>5


\* A script that can take its next instruction.
LEMMA ScriptRuns ==
  ASSUME StackInv, Script
  PROVE  /\ running = "amx" /\ cpu.ip # CallReturn /\ amx.paramcount = 0
         /\ cpu.esp \in HLW..STP /\ cpu.ebp \in HLW..(STP - 1) /\ cpu.esp <= cpu.ebp
         /\ mem[cpu.ebp].kind = "frm" /\ LinkOK(mem, cpu.ebp) /\ NoFrmBelow(mem, cpu.esp)
         /\ Context(mem, cpu.esp, cpu.ebp)
         /\ mem \in [HLW..(STP - 1) -> Cells]
         /\ \A a \in HLW..(STP - 1) : mem[a].val \in Word
<1>1. Context(mem, cpu.esp, cpu.ebp) /\ Layout(mem) /\ NoFrmBelow(mem, SP)
      /\ running = "amx" /\ cpu.ip # CallReturn /\ amx.paramcount = 0
  BY DEF StackInv, LayoutInv, RegistersOK, Script
<1>2. mem \in [HLW..(STP - 1) -> Cells] /\ \A a \in HLW..(STP - 1) : mem[a].val \in Word
  BY DEF StackInv, TypeInv, TypeOK, Cells
<1> QED
  BY <1>1, <1>2 DEF Context, Layout, Cell, SP

LEMMA PushPriKeeps ==
  ASSUME StackInv, OpPushPri
  PROVE  TypeInv' /\ LayoutInv' /\ Untouched /\ \E t \in Int : Works(t)
<1>0. STP \in Nat /\ HLW \in Nat
  BY LayoutAssumption
<1>1. Script /\ UNCHANGED <<amx, rib, nstack, running, last>>
  BY DEF OpPushPri
<1>2. cpu.esp - 1 \in HLW..STP /\ cpu.esp - 1 \in HLW..(STP - 1)
  BY <1>0, Typed, ScriptRuns DEF OpPushPri, Room
<1>3. cpu.eax \in Word /\ Data(cpu.eax) \in Cells /\ Data(cpu.eax).kind = "data"
  <2>1. cpu.eax \in Word
    BY DEF StackInv, TypeInv, TypeOK
  <2> QED
    BY <2>1, Words DEF Data
<1>4. cpu' = [cpu EXCEPT !.esp = cpu.esp - 1]
      /\ cpu' \in Registers
  <2>1. cpu \in Registers /\ cpu.esp - 1 \in Nat
    BY <1>0, <1>2 DEF StackInv, TypeInv, TypeOK, Registers
  <2>2. cpu' = [cpu EXCEPT !.esp = cpu.esp - 1]
    BY DEF OpPushPri
  <2> QED
    BY <2>1, <2>2 DEF Registers
<1>5. mem' = [mem EXCEPT ![cpu.esp - 1] = Data(cpu.eax)]
  BY DEF OpPushPri
<1>6. mem' \in [HLW..(STP - 1) -> Cells]
  BY <1>1, <1>3, <1>5, ScriptRuns
<1>7. TypeInv'
  BY <1>1, <1>4, <1>6 DEF StackInv, TypeInv, TypeOK, Registers, FrameTypes
<1>8. Works(cpu.esp)
  <2>1. CutAt(mem, mem', cpu.esp)
    BY <1>0, <1>1, <1>2, <1>3, <1>5, ScriptRuns DEF CutAt, NoFrmBelow, Cell
  <2>2. cpu'.esp \in HLW..STP /\ cpu'.esp <= cpu.esp /\ cpu'.ip = cpu.ip /\ cpu'.ebp = cpu.ebp
    BY <1>0, <1>1, <1>2, <1>4, ScriptRuns DEF StackInv, TypeInv, TypeOK
  <2> QED
    BY <1>1, <2>1, <2>2, ScriptRuns DEF Works
<1> QED
  BY <1>1, <1>7, <1>8, WorkKeepsLayout, ScriptRuns

LEMMA PopPriKeeps ==
  ASSUME StackInv, OpPopPri
  PROVE  TypeInv' /\ LayoutInv' /\ Untouched /\ \E t \in Int : Works(t)
<1>0. STP \in Nat /\ HLW \in Nat
  BY LayoutAssumption
<1>1. Script /\ UNCHANGED <<amx, rib, nstack, running, last>>
  BY DEF OpPopPri
<1>2. cpu.esp + 1 \in HLW..STP /\ cpu.esp \in HLW..(STP - 1) /\ cpu.esp + 1 <= cpu.ebp
  BY <1>0, <1>1, ScriptRuns DEF OpPopPri
<1>3. mem[cpu.esp].val \in Word /\ Dead \in Cells /\ Dead.kind = "dead"
  BY <1>1, <1>2, Words, ScriptRuns DEF Dead
<1>4. cpu' = [cpu EXCEPT !.esp = cpu.esp + 1, !.eax = mem[cpu.esp].val]
      /\ cpu' \in Registers
  <2>1. cpu \in Registers /\ cpu.esp + 1 \in Nat
    BY <1>0, <1>2 DEF StackInv, TypeInv, TypeOK, Registers
  <2>2. cpu' = [cpu EXCEPT !.esp = cpu.esp + 1, !.eax = mem[cpu.esp].val]
    BY DEF OpPopPri
  <2> QED
    BY <1>3, <2>1, <2>2 DEF Registers
<1>5. mem' = [mem EXCEPT ![cpu.esp] = Dead]
  BY DEF OpPopPri
<1>6. mem' \in [HLW..(STP - 1) -> Cells]
  BY <1>1, <1>3, <1>5, ScriptRuns
<1>7. TypeInv'
  BY <1>1, <1>4, <1>6 DEF StackInv, TypeInv, TypeOK, Registers, FrameTypes
<1>8. Works(cpu.esp + 1)
  <2>1. CutAt(mem, mem', cpu.esp + 1)
    BY <1>0, <1>1, <1>2, <1>3, <1>5, ScriptRuns DEF CutAt, NoFrmBelow, Cell
  <2>2. cpu'.esp \in HLW..STP /\ cpu'.esp <= cpu.esp + 1 /\ cpu'.ip = cpu.ip /\ cpu'.ebp = cpu.ebp
    BY <1>0, <1>1, <1>2, <1>4, ScriptRuns DEF StackInv, TypeInv, TypeOK
  <2> QED
    BY <1>1, <1>2, <2>1, <2>2, ScriptRuns DEF Works
<1>9. cpu.esp + 1 \in Int
  BY <1>2
<1> QED
  BY <1>7, <1>8, <1>9, WorkKeepsLayout

LEMMA StackKeeps ==
  ASSUME StackInv, NEW n \in {-1, 1}, NEW v \in Values, OpStack(n, v)
  PROVE  TypeInv' /\ LayoutInv' /\ Untouched /\ \E t \in Int : Works(t)
<1>0. STP \in Nat /\ HLW \in Nat
  BY LayoutAssumption
<1>1. Script /\ UNCHANGED <<amx, rib, nstack, running, last>>
  BY DEF OpStack
<1>2. cpu.esp + n \in HLW..STP /\ cpu.esp + n <= cpu.ebp
  <2>1. cpu.esp \in HLW..STP /\ cpu.ebp \in HLW..(STP - 1) /\ cpu.esp <= cpu.ebp
    BY <1>1, ScriptRuns
  <2>2. amx.hea \in HLW..STP
    BY Typed
  <2>3. CASE n = -1
    <3>1. cpu.esp - 1 >= amx.hea
      BY <2>3 DEF OpStack, Room
    <3> QED
      BY <1>0, <2>1, <2>2, <2>3, <3>1
  <2>4. CASE n = 1
    <3>1. cpu.esp + 1 <= cpu.ebp
      BY <2>4 DEF OpStack
    <3> QED
      BY <1>0, <2>1, <2>4, <3>1
  <2> QED
    BY <2>3, <2>4
<1>3. /\ Dead \in Cells /\ Dead.kind = "dead" /\ v \in Word
      /\ Data(Garbage) \in Cells /\ Data(Garbage).kind = "data"
  BY Words DEF Dead, Data
<1>4. cpu' = [cpu EXCEPT !.esp = cpu.esp + n, !.ecx = v]
      /\ cpu' \in Registers
  <2>1. cpu \in Registers /\ cpu.esp + n \in Nat
    BY <1>0, <1>2 DEF StackInv, TypeInv, TypeOK, Registers
  <2>2. cpu' = [cpu EXCEPT !.esp = cpu.esp + n, !.ecx = v]
    BY DEF OpStack
  <2> QED
    BY <1>3, <2>1, <2>2 DEF Registers
<1>5. /\ n = -1 => mem' = [a \in HLW..(STP - 1) |-> IF a \in (cpu.esp + n)..(cpu.esp - 1)
                                                    THEN Data(Garbage) ELSE mem[a]]
      /\ n = 1 => mem' = [a \in HLW..(STP - 1) |-> IF a \in cpu.esp..((cpu.esp + n) - 1)
                                                   THEN Dead ELSE mem[a]]
  <2>1. DOMAIN mem = HLW..(STP - 1)
    BY <1>1, ScriptRuns
  <2>2. mem' = IF n < 0 THEN [a \in DOMAIN mem |-> IF a \in (cpu.esp + n)..(cpu.esp - 1)
                                                   THEN Data(Garbage) ELSE mem[a]]
                        ELSE Popped(mem, cpu.esp, cpu.esp + n)
    BY DEF OpStack
  <2>3. n = -1 => n < 0
    OBVIOUS
  <2>4. n = 1 => ~(n < 0) /\ mem' = Popped(mem, cpu.esp, cpu.esp + n)
    BY <2>2
  <2>5. n = -1 => mem' = [a \in DOMAIN mem |-> IF a \in (cpu.esp + n)..(cpu.esp - 1)
                                              THEN Data(Garbage) ELSE mem[a]]
    BY <2>2, <2>3
  <2>6. n = 1 => mem' = [a \in DOMAIN mem |-> IF a \in cpu.esp..((cpu.esp + n) - 1)
                                             THEN Dead ELSE mem[a]]
    BY <2>4 DEF Popped
  <2> QED
    BY <2>1, <2>5, <2>6
<1>6. mem' \in [HLW..(STP - 1) -> Cells]
  BY <1>1, <1>3, <1>5, ScriptRuns
<1>7. TypeInv'
  BY <1>1, <1>4, <1>6 DEF StackInv, TypeInv, TypeOK, Registers, FrameTypes
<1> DEFINE t == IF n < 0 THEN cpu.esp ELSE cpu.esp + n
<1>8. t \in Int /\ cpu.esp + n <= t /\ t <= cpu.ebp
  BY <1>1, <1>2, ScriptRuns
<1>9. Works(t)
  <2>1. CutAt(mem, mem', t)
    <3>3. NoFrmBelow(mem, cpu.esp) /\ cpu.esp \in Int
      BY <1>1, ScriptRuns
    <3>4. CASE n = -1
      BY <1>0, <1>3, <1>5, <3>3, <3>4 DEF CutAt, NoFrmBelow, Cell
    <3>5. CASE n = 1
      BY <1>0, <1>3, <1>5, <3>3, <3>5 DEF CutAt, NoFrmBelow, Cell
    <3> QED
      BY <3>4, <3>5
  <2>2. cpu'.esp = cpu.esp + n /\ cpu'.ip = cpu.ip /\ cpu'.ebp = cpu.ebp
    BY <1>4 DEF StackInv, TypeInv, TypeOK
  <2> QED
    BY <1>1, <1>2, <1>8, <2>1, <2>2, ScriptRuns DEF Works
<1> QED
  BY <1>7, <1>8, <1>9, WorkKeepsLayout


-----------------------------------------------------------------------------
(* The caller of Exec. *)

LEMMA CallerRuns ==
  ASSUME StackInv, running = "native"
  PROVE  /\ amx.stk + amx.paramcount <= STP
         /\ nstack # <<>> => cpu.esi \in Sites
         /\ nstack = <<>> => cpu.esi = HostReg /\ cpu.edi = HostReg
         /\ NoFrmBelow(mem, amx.stk) /\ mem \in [HLW..(STP - 1) -> Cells]
         /\ \A i \in Waiting : /\ amx.stk + amx.paramcount <= nstack[i].amx_esp
                               /\ nstack[i].amx_esp <= nstack[i].amx_ebp
BY DEF StackInv, LayoutInv, RegistersOK, SP, TypeInv, TypeOK, WaitingOK, Limit, Context

LEMMA RegisterKeeps ==
  ASSUME StackInv, RegisterNatives
  PROVE  TypeInv' /\ LayoutInv' /\ Untouched
<1>1. /\ UNCHANGED <<rib, cpu, nstack, mem, running, last>> /\ running = "native"
      /\ amx' = [amx EXCEPT !.ntvreg = TRUE]
  BY DEF RegisterNatives
<1>2. TypeInv'
  <2>1. TypeInv /\ amx \in Fields /\ cpu \in Registers /\ amx.error = "NONE"
    BY DEF StackInv, TypeInv, TypeOK, Fields, Registers
  <2>2. amx' \in Fields /\ amx'.error = "NONE"
    BY <1>1, <2>1 DEF Fields
  <2> QED
    BY <1>1, <2>1, <2>2, TypesStay
<1>3. /\ amx'.stk = amx.stk /\ amx'.frm = amx.frm /\ amx'.cip = amx.cip
      /\ amx'.paramcount = amx.paramcount
  BY <1>1 DEF StackInv, TypeInv, TypeOK
<1>4. LayoutInv'
  BY <1>1, <1>3 DEF StackInv, LayoutInv, RegistersOK, SP, WaitingOK, Waiting, Limit,
                    Captured, SleeperOK
<1> QED
  BY <1>1, <1>2, <1>4 DEF Untouched

LEMMA RefusalKeeps ==
  ASSUME StackInv, NEW b \in BOOLEAN, ExecRefused(b)
  PROVE  TypeInv' /\ LayoutInv' /\ Untouched
<1>1. /\ UNCHANGED <<rib, cpu, nstack, mem, running>> /\ running = "native"
      /\ amx' = [amx EXCEPT !.error = IF EntryError = "NONE" THEN "NONE" ELSE amx.error]
  BY DEF ExecRefused
<1>2. /\ last'.error \in {"STACKERR", "STACKLOW", "HEAPLOW", "NOTFOUND", "INDEX"}
      /\ last'.retval = Null
  BY DEF ExecRefused, EntryError
<1>3. amx.error = "NONE" /\ amx' = [amx EXCEPT !.error = "NONE"]
  BY <1>1 DEF StackInv, TypeInv
<1>4. TypeInv'
  BY <1>1, <1>2, <1>3, Words DEF StackInv, TypeInv, TypeOK, FrameTypes, ErrorCodes
<1>5. /\ amx'.stk = amx.stk /\ amx'.frm = amx.frm /\ amx'.cip = amx.cip
      /\ amx'.paramcount = amx.paramcount
  BY <1>3 DEF StackInv, TypeInv, TypeOK
<1>6. last' # NoResult /\ last'.error # "SLEEP"
  BY <1>2, WordAssumption DEF NoResult
<1>7. LayoutInv'
  BY <1>1, <1>5, <1>6 DEF StackInv, LayoutInv, RegistersOK, SP, WaitingOK, Waiting, Limit,
                          Captured, SleeperOK
<1> QED
  BY <1>1, <1>4, <1>7 DEF Untouched

LEMMA ParamKeeps ==
  ASSUME StackInv, NEW v \in Values, PushParam(v)
  PROVE  TypeInv' /\ LayoutInv' /\ Untouched
<1>0. STP \in Nat /\ HLW \in Nat /\ MaxParams \in Nat
  BY LayoutAssumption
<1>1. /\ UNCHANGED <<rib, cpu, nstack, running, last>> /\ running = "native"
      /\ last.error # "SLEEP"
  BY DEF PushParam
<1>2. /\ amx.stk - 1 \in HLW..(STP - 1) /\ amx.paramcount + 1 \in 0..MaxParams
      /\ amx.stk \in Nat /\ amx.paramcount \in Nat
  <2>1. amx.stk \in HLW..STP /\ amx.hea \in HLW..STP /\ amx.paramcount \in Nat
    BY Typed
  <2>2. amx.stk - 4 >= amx.hea /\ amx.paramcount < MaxParams
    BY DEF PushParam, Room
  <2> QED
    BY <1>0, <2>1, <2>2
<1>3. Data(v) \in Cells /\ Data(v).kind = "data"
  BY Words DEF Data
<1>4. mem' = [mem EXCEPT ![amx.stk - 1] = Data(v)]
  BY DEF PushParam
<1>5. mem' \in [HLW..(STP - 1) -> Cells]
  BY <1>1, <1>3, <1>4, CallerRuns
<1>6. amx' = [amx EXCEPT !.stk = amx.stk - 1, !.paramcount = amx.paramcount + 1]
  BY DEF PushParam
<1>7. amx' \in [stk : HLW..STP, frm : HLW..STP, hea : HLW..STP, cip : Word,
                pri : Word, alt : Word, error : ErrorCodes, paramcount : 0..MaxParams,
                reset_stk : Word, reset_hea : Word, ntvreg : BOOLEAN]
  <2>1. amx.stk - 1 \in HLW..STP
    BY <1>0, <1>2
  <2> QED
    BY <1>2, <1>6, <2>1 DEF StackInv, TypeInv, TypeOK
<1>8. /\ amx'.stk = amx.stk - 1 /\ amx'.paramcount = amx.paramcount + 1
      /\ amx'.frm = amx.frm /\ amx'.cip = amx.cip /\ amx'.error = amx.error
  BY <1>6 DEF StackInv, TypeInv, TypeOK
<1>9. TypeInv'
  BY <1>1, <1>5, <1>7, <1>8 DEF StackInv, TypeInv, TypeOK, FrameTypes
<1>10. amx'.stk + amx'.paramcount = amx.stk + amx.paramcount
  BY <1>2, <1>8
<1>11. CutAt(mem, mem', amx.stk)
  BY <1>0, <1>1, <1>2, <1>3, <1>4, CallerRuns DEF CutAt, NoFrmBelow, Cell
<1>12. Keeps /\ Waiting' = Waiting
  BY <1>1 DEF Keeps, Waiting
<1>13. Layout(mem') /\ NoFrmBelow(mem', amx.stk) /\ WaitingOK' /\ Untouched
  <2>1. \A i \in Waiting' : amx.stk <= nstack[i].amx_esp /\ Limit(nstack[i].amx_esp)'
    <3> SUFFICES ASSUME NEW i \in Waiting
                 PROVE  amx.stk <= nstack[i].amx_esp /\ Limit(nstack[i].amx_esp)'
      BY <1>12
    <3>1. /\ nstack[i].amx_esp \in HLW..STP /\ nstack[i].amx_ebp \in Cell
          /\ amx.stk + amx.paramcount <= nstack[i].amx_esp
          /\ nstack[i].amx_esp <= nstack[i].amx_ebp
      BY <1>1, CallerRuns, Typed
    <3>2. amx.stk <= nstack[i].amx_esp
      BY <1>0, <1>2, <3>1
    <3>3. Limit(nstack[i].amx_esp)'
      BY <1>1, <1>10, <3>1 DEF Limit
    <3> QED
      BY <3>2, <3>3
  <2> QED
    BY <1>2, <1>11, <1>12, <2>1, CutWaits
<1>14. NoFrmBelow(mem', SP')
  BY <1>1, <1>2, <1>8, <1>13 DEF NoFrmBelow, SP, Cell
<1>15. RegistersOK'
  BY <1>1, <1>10, CallerRuns DEF RegistersOK
<1>16. Captured' /\ SleeperOK'
  BY <1>1, <1>8, <1>10 DEF StackInv, LayoutInv, Captured, SleeperOK
<1> QED
  BY <1>9, <1>13, <1>14, <1>15, <1>16 DEF LayoutInv

\* What Exec and ExecHelper save has the right types.
LEMMA EnterTypes ==
  ASSUME StackInv, running = "native", NEW reset,
         {reset.reset_ebp, reset.reset_esp, reset.reset_stk, reset.reset_hea} \subseteq Word,
         nstack' = nstack \o <<ExecFrame(reset), HelperFrame>>
  PROVE  FrameTypes'
<1>1. PICK n \in Nat : /\ n = Len(nstack) /\ Len(nstack') = n + 2
                       /\ DOMAIN nstack = 1..n /\ DOMAIN nstack' = 1..(n + 2)
                       /\ nstack'[n + 1] = ExecFrame(reset)
                       /\ nstack'[n + 2] = HelperFrame
  BY EnterFrames DEF StackInv
<1>2. Keeps
  BY EnterFrames DEF StackInv
<1>3. /\ ExecFrame(reset).kind = "exec" /\ ExecFrame(reset).esi = cpu.esi
      /\ ExecFrame(reset).reset_ebp = reset.reset_ebp
      /\ ExecFrame(reset).reset_esp = reset.reset_esp
      /\ ExecFrame(reset).reset_stk = reset.reset_stk
      /\ ExecFrame(reset).reset_hea = reset.reset_hea
  BY DEF ExecFrame
<1>4. /\ HelperFrame.kind = "helper" /\ HelperFrame.edi = cpu.edi
      /\ HelperFrame.amx_ebp = rib.amx_ebp /\ HelperFrame.amx_esp = rib.amx_esp
  BY DEF HelperFrame
<1>5. /\ cpu.edi \in Word \cup {HostReg} /\ rib.amx_ebp \in Word /\ rib.amx_esp \in Word
      /\ n = 0 => cpu.esi = HostReg /\ cpu.edi = HostReg
      /\ n # 0 => cpu.esi \in Sites
  <2>1. n = 0 <=> nstack = <<>>
    BY <1>1, PileShape DEF StackInv
  <2>2. cpu.edi \in Word \cup {HostReg} /\ rib.amx_ebp \in Word /\ rib.amx_esp \in Word
    BY DEF StackInv, TypeInv, TypeOK
  <2> QED
    BY <2>1, <2>2, CallerRuns
<1> SUFFICES ASSUME NEW i \in 1..(n + 2)
             PROVE  /\ nstack'[i].kind = "exec" =>
                         /\ IF i = 1 THEN nstack'[i].esi = HostReg ELSE nstack'[i].esi \in Sites
                         /\ {nstack'[i].reset_ebp, nstack'[i].reset_esp,
                             nstack'[i].reset_stk, nstack'[i].reset_hea} \subseteq Word
                    /\ nstack'[i].kind = "helper" =>
                         /\ nstack'[i].edi \in Word \cup {HostReg}
                         /\ i = 2 => nstack'[i].edi = HostReg
                         /\ {nstack'[i].amx_ebp, nstack'[i].amx_esp} \subseteq Word
                    /\ nstack'[i].kind = "native" => nstack'[i].alt \in Word
  BY <1>1 DEF FrameTypes
<1>6. CASE i \in 1..n
  BY <1>1, <1>2, <1>6 DEF StackInv, TypeInv, FrameTypes, Keeps
<1>7. CASE i = n + 1
  <2>1. i = 1 <=> n = 0
    BY <1>7
  <2> QED
    BY <1>1, <1>3, <1>5, <1>7, <2>1
<1>8. CASE i = n + 2
  <2>1. i = 2 <=> n = 0
    BY <1>8
  <2> QED
    BY <1>1, <1>4, <1>5, <1>8, <2>1
<1>9. i \in 1..n \/ i = n + 1 \/ i = n + 2
  <2>1. n \in Nat /\ i \in 1..(n + 2)
    OBVIOUS
  <2> QED
    BY <2>1
<1> QED
  BY <1>6, <1>7, <1>8, <1>9


LEMMA PublicKeeps ==
  ASSUME StackInv, NEW f \in Functions, ExecPublic(f)
  PROVE  TypeInv' /\ LayoutInv' /\ Untouched
         /\ CallsFunction(amx.stk, amx.paramcount, CallReturn, amx.frm)
<1>0. STP \in Nat /\ HLW \in Nat /\ MaxParams \in Nat
  BY LayoutAssumption
<1> DEFINE p == amx.stk
           k == amx.paramcount
<1>1. /\ running = "native" /\ running' = "amx" /\ last' = NoResult
      /\ nstack' = nstack \o <<ExecFrame(rib), HelperFrame>>
  BY DEF ExecPublic
<1>2. /\ p \in HLW..STP /\ amx.frm \in HLW..STP /\ k \in Nat /\ k \in 0..MaxParams
      /\ p - 3 >= HLW /\ p + k <= STP /\ cpu.esp \in Nat
  <2>1. amx.stk \in HLW..STP /\ amx.hea \in HLW..STP /\ amx.paramcount \in Nat
        /\ amx.frm \in HLW..STP
    BY Typed
  <2>2. amx.stk - 3 >= amx.hea
    BY DEF ExecPublic, Room
  <2>3. k \in 0..MaxParams /\ cpu.esp \in Nat
    BY DEF StackInv, TypeInv, TypeOK
  <2> QED
    BY <1>0, <1>1, <2>1, <2>2, <2>3, CallerRuns
<1>3. /\ amx' = [amx EXCEPT !.error = "NONE", !.paramcount = 0]
      /\ cpu' = [cpu EXCEPT !.eax = Garbage, !.ecx = Garbage, !.esi = Garbage, !.edi = Garbage,
                            !.esp = p - 3, !.ebp = p - 3, !.ip = f]
  <2>1. (p - 1) - 2 = p - 3
    BY <1>2
  <2> QED
    BY <2>1 DEF ExecPublic
<1>4. Pushed(mem, mem', p, k, CallReturn, amx.frm) /\ mem' \in [HLW..(STP - 1) -> Cells]
  <2>1. mem' = [[[mem EXCEPT ![p - 1] = Size(k)] EXCEPT ![p - 1 - 1] = Ret(CallReturn)]
                             EXCEPT ![p - 1 - 2] = Frm(amx.frm)]
    BY DEF ExecPublic, Proc
  <2>2. p - 1 \in HLW..(STP - 1) /\ p - 1 - 1 = p - 2 /\ p - 1 - 2 = p - 3
        /\ p - 2 \in HLW..(STP - 1) /\ p - 3 \in HLW..(STP - 1)
    BY <1>0, <1>2
  <2>3. mem \in [HLW..(STP - 1) -> Cells]
    BY <1>1, CallerRuns
  <2>4. Size(k) \in Cells /\ Ret(CallReturn) \in Cells /\ Frm(amx.frm) \in Cells
    <3>1. k \in Word /\ CallReturn \in Word /\ amx.frm \in Word
      BY <1>0, <1>2, Words
    <3> QED
      BY <3>1, Words
  <2> HIDE DEF p, k
  <2>5. mem' \in [HLW..(STP - 1) -> Cells]
    BY <2>1, <2>3, <2>4
  <2>6. Pushed(mem, mem', p, k, CallReturn, amx.frm)
    BY <1>0, <1>2, <2>1, <2>2, <2>3 DEF Pushed, Cell
  <2> QED
    BY <2>5, <2>6
<1>5. Keeps /\ Waiting' = Waiting /\ nstack' # <<>>
  BY <1>1, EnterFrames DEF StackInv
<1>6. f # CallReturn /\ f \in Word
  BY WordAssumption, Words
<1>7. /\ cpu'.esp = p - 3 /\ cpu'.ebp = p - 3 /\ cpu'.ip = f /\ cpu'.ip # CallReturn
      /\ amx'.paramcount = 0 /\ amx'.error = "NONE"
  BY <1>3, <1>6 DEF StackInv, TypeInv, TypeOK
<1>8. /\ Layout(mem') /\ NoFrmBelow(mem', p - 3) /\ WaitingOK' /\ Context(mem', p - 3, p - 3)
      /\ Untouched
  <2>1. \A i \in Waiting : p + k <= nstack[i].amx_esp /\ Limit(nstack[i].amx_esp)'
    <3> TAKE i \in Waiting
    <3>1. p + k <= nstack[i].amx_esp /\ nstack'[i] = nstack[i] /\ nstack[i].amx_esp \in Int
      <4>1. p + k <= nstack[i].amx_esp
        BY <1>1, CallerRuns
      <4>2. nstack'[i] = nstack[i]
        BY <1>5 DEF Keeps, Waiting
      <4>3. nstack[i].amx_esp \in Int
        BY Typed
      <4> QED
        BY <4>1, <4>2, <4>3
    <3>2. p - 3 < nstack[i].amx_esp
      BY <1>2, <3>1
    <3> QED
      BY <1>1, <1>7, <3>1, <3>2 DEF Limit
  <2>2. NoFrmBelow(mem, p)
    BY <1>1, CallerRuns
  <2>3. p \in Int /\ CallReturn \in Sites \cup {CallReturn}
    BY <1>2
  <2> HIDE DEF p, k
  <2> QED
    BY <1>2, <1>4, <1>5, <2>1, <2>2, <2>3, PushWaits
<1>9. RegistersOK' /\ SP' = p - 3
  <2>1. p - 3 \in HLW..STP
    BY <1>0, <1>2
  <2> QED
    BY <1>1, <1>7, <1>8, <2>1 DEF RegistersOK, SP
<1>10. Captured' /\ SleeperOK'
  <2>1. last'.error # "SLEEP"
    BY <1>1, WordAssumption DEF NoResult
  <2> QED
    BY <1>1, <2>1 DEF Captured, SleeperOK
<1>11. TypeOK'
  <2>1. amx' \in [stk : HLW..STP, frm : HLW..STP, hea : HLW..STP, cip : Word,
                  pri : Word, alt : Word, error : ErrorCodes, paramcount : 0..MaxParams,
                  reset_stk : Word, reset_hea : Word, ntvreg : BOOLEAN]
    <3>1. 0 \in 0..MaxParams /\ "NONE" \in ErrorCodes
      BY <1>0 DEF ErrorCodes
    <3> QED
      BY <1>3, <3>1 DEF StackInv, TypeInv, TypeOK
  <2>2. cpu' \in Registers
    <3>1. p - 3 \in Nat /\ Garbage \in Word
      BY <1>0, <1>2, Words
    <3> QED
      BY <1>3, <1>6, <3>1 DEF StackInv, TypeInv, TypeOK, Registers
  <2>3. rib' \in [ebp : Nat, esp : Nat, amx_ebp : Word, amx_esp : Word, reset_ebp : Word,
                  reset_esp : Word, reset_stk : Word, reset_hea : Word]
    <3>1. rib' = [ebp |-> cpu.esp + 1, esp |-> cpu.esp + 2,
                  amx_ebp |-> amx.frm, amx_esp |-> p - 1,
                  reset_ebp |-> amx.frm, reset_esp |-> p - 1 - 1,
                  reset_stk |-> p + k, reset_hea |-> amx.hea]
      BY DEF ExecPublic
    <3>2. cpu.esp + 1 \in Nat /\ cpu.esp + 2 \in Nat /\ p - 1 \in Nat /\ p - 1 - 1 \in Nat
          /\ p + k \in Nat /\ amx.frm \in Nat /\ amx.hea \in Nat
      BY <1>0, <1>2, Typed
    <3>3. amx.frm \in Word /\ p - 1 \in Word /\ p - 1 - 1 \in Word /\ p + k \in Word
          /\ amx.hea \in Word
      BY <3>2, Words
    <3> HIDE DEF p, k
    <3> QED
      BY <3>1, <3>2, <3>3
  <2>4. last'.error = Null /\ last'.retval = Null
    BY <1>1 DEF NoResult
  <2> QED
    BY <1>1, <1>4, <2>1, <2>2, <2>3, <2>4, Words DEF TypeOK, Registers
<1>12. FrameTypes'
  <2>1. {rib.reset_ebp, rib.reset_esp, rib.reset_stk, rib.reset_hea} \subseteq Word
    BY DEF StackInv, TypeInv, TypeOK
  <2> QED
    BY <1>1, <2>1, EnterTypes
<1>13. CallsFunction(p, k, CallReturn, amx.frm)
  <2>1. mem'[p - 3] = Frm(amx.frm) /\ mem'[p - 2] = Ret(CallReturn) /\ mem'[p - 1] = Size(k)
    <3>1. p \in Int /\ k \in Nat /\ p - 3 >= HLW /\ p + k <= STP
      BY <1>2
    <3>2. Pushed(mem, mem', p, k, CallReturn, amx.frm)
      BY <1>4
    <3> HIDE DEF p, k
    <3> QED
      BY <3>1, <3>2, PushedCells, LayoutAssumption
  <2> QED
    BY <1>2, <1>4, <1>7, <2>1 DEF CallsFunction
<1> QED
  BY <1>7, <1>8, <1>9, <1>10, <1>11, <1>12, <1>13 DEF TypeInv, LayoutInv

LEMMA ContKeeps ==
  ASSUME StackInv, ExecCont
  PROVE  TypeInv' /\ LayoutInv' /\ Untouched
<1>0. STP \in Nat /\ HLW \in Nat
  BY LayoutAssumption
<1>1. /\ running = "native" /\ running' = "amx" /\ last' = NoResult /\ mem' = mem
      /\ nstack' = nstack \o <<ExecFrame(ResetGarbage), HelperFrame>>
      /\ SleepEnabled /\ last.error = "SLEEP"
  BY DEF ExecCont
<1>2. /\ amx.paramcount = 0 /\ amx.cip \in Sites
      /\ Context(mem, amx.stk, amx.frm)
      /\ \A i \in Waiting : amx.frm < nstack[i].amx_esp
  BY <1>1 DEF StackInv, LayoutInv, SleeperOK
<1>3. /\ amx' = [amx EXCEPT !.error = "NONE"]
      /\ cpu' = [cpu EXCEPT !.eax = amx.pri, !.ecx = amx.alt, !.esi = Garbage, !.edi = Garbage,
                            !.esp = amx.stk, !.ebp = amx.frm, !.ip = amx.cip]
  BY DEF ExecCont
<1>4. /\ amx.cip # CallReturn /\ amx.cip \in Word
      /\ amx.stk \in Nat /\ amx.frm \in Nat /\ amx.stk - 1 \in Nat \cup {-1}
  BY <1>0, <1>2, Typed, WordAssumption, Words
<1>5. /\ cpu'.esp = amx.stk /\ cpu'.ebp = amx.frm /\ cpu'.ip = amx.cip
      /\ amx'.paramcount = 0 /\ amx'.error = "NONE"
  BY <1>2, <1>3 DEF StackInv, TypeInv, TypeOK
<1>6. Keeps /\ Waiting' = Waiting
  BY <1>1, EnterFrames DEF StackInv
<1>7. Layout(mem) /\ NoFrmBelow(mem, amx.stk)
  BY <1>1 DEF StackInv, LayoutInv, SP
<1>8. WaitingOK'
  <2>1. \A i \in Waiting : nstack'[i] = nstack[i]
    BY <1>6 DEF Keeps, Waiting
  <2>2. \A i \in Waiting : Limit(nstack[i].amx_esp)'
    BY <1>1, <1>2, <1>4, <1>5, <2>1 DEF Limit
  <2>3. \A i \in Waiting :
          /\ Context(mem, nstack[i].amx_esp, nstack[i].amx_ebp)
          /\ Within(mem, nstack[i].amx_esp)
          /\ \A j \in Waiting : j < i => nstack[i].amx_ebp < nstack[j].amx_esp
    BY DEF StackInv, LayoutInv, WaitingOK
  <2> QED
    BY <1>1, <1>6, <2>1, <2>2, <2>3 DEF WaitingOK
<1>9. RegistersOK' /\ SP' = amx.stk
  <2>1. amx.stk \in HLW..STP /\ amx.frm \in HLW..STP
    BY Typed
  <2> QED
    BY <1>1, <1>2, <1>4, <1>5, <2>1 DEF RegistersOK, SP
<1>10. Captured' /\ SleeperOK'
  <2>1. last'.error # "SLEEP"
    BY <1>1, WordAssumption DEF NoResult
  <2> QED
    BY <1>1, <2>1 DEF Captured, SleeperOK
<1>11. TypeOK'
  <2>1. amx' \in [stk : HLW..STP, frm : HLW..STP, hea : HLW..STP, cip : Word,
                  pri : Word, alt : Word, error : ErrorCodes, paramcount : 0..MaxParams,
                  reset_stk : Word, reset_hea : Word, ntvreg : BOOLEAN]
    <3>1. "NONE" \in ErrorCodes
      BY DEF ErrorCodes
    <3> QED
      BY <1>3, <3>1 DEF StackInv, TypeInv, TypeOK
  <2>2. cpu' \in Registers
    <3>1. Garbage \in Word /\ amx.pri \in Word /\ amx.alt \in Word
      BY Words DEF StackInv, TypeInv, TypeOK
    <3> QED
      BY <1>3, <1>4, <3>1 DEF StackInv, TypeInv, TypeOK, Registers
  <2>3. rib' \in [ebp : Nat, esp : Nat, amx_ebp : Word, amx_esp : Word, reset_ebp : Word,
                  reset_esp : Word, reset_stk : Word, reset_hea : Word]
    <3>1. rib' = [ebp |-> cpu.esp + 1, esp |-> cpu.esp + 2,
                  amx_ebp |-> amx.frm, amx_esp |-> amx.stk,
                  reset_ebp |-> amx.frm, reset_esp |-> amx.stk - 1,
                  reset_stk |-> amx.reset_stk, reset_hea |-> amx.reset_hea]
      BY DEF ExecCont
    <3>2. cpu.esp \in Nat /\ amx.reset_stk \in Word /\ amx.reset_hea \in Word
      BY DEF StackInv, TypeInv, TypeOK
    <3>3. amx.stk - 1 \in Nat
      <4>1. amx.hea < amx.stk
        <5>1. EntryError = "NONE"
          BY DEF ExecCont
        <5> QED
          BY <5>1, Typed DEF EntryError
      <4> QED
        BY <1>0, <4>1, Typed
    <3>4. amx.stk \in Word /\ amx.stk - 1 \in Word /\ amx.frm \in Word
      BY <1>4, <3>3, Words
    <3>5. cpu.esp + 1 \in Nat /\ cpu.esp + 2 \in Nat
      BY <3>2
    <3> QED
      BY <3>1, <3>2, <3>4, <3>5
  <2>4. last'.error = Null /\ last'.retval = Null
    BY <1>1 DEF NoResult
  <2>5. mem' \in [HLW..(STP - 1) -> Cells]
    BY <1>1 DEF StackInv, TypeInv, TypeOK
  <2> QED
    BY <1>1, <2>1, <2>2, <2>3, <2>4, <2>5, Words DEF TypeOK, Registers
<1>12. FrameTypes'
  <2>1. {ResetGarbage.reset_ebp, ResetGarbage.reset_esp,
         ResetGarbage.reset_stk, ResetGarbage.reset_hea} \subseteq Word
    BY Words DEF ResetGarbage
  <2> QED
    BY <1>1, <2>1, EnterTypes
<1> QED
  BY <1>1, <1>5, <1>7, <1>8, <1>9, <1>10, <1>11, <1>12 DEF TypeInv, LayoutInv, Untouched


-----------------------------------------------------------------------------
(* Calls and returns within a script. *)

\* Steps of a script that leave the native side alone.
LEMMA ScriptStays ==
  ASSUME StackInv, Script, UNCHANGED <<nstack, rib, running, last>>
  PROVE  /\ Keeps /\ Waiting' = Waiting /\ Captured' /\ SleeperOK' /\ FrameTypes'
         /\ SP' = cpu'.esp
<1>1. running = "amx"
  BY ScriptRuns
<1> QED
  BY <1>1 DEF Keeps, Waiting, Captured, SleeperOK, FrameTypes, SP,
              StackInv, LayoutInv, TypeInv

LEMMA CallKeepsStack ==
  ASSUME StackInv, NEW f \in Functions, NEW s \in Sites, NEW n \in 0..MaxParams, OpCall(f, s, n)
  PROVE  TypeInv' /\ LayoutInv' /\ Untouched /\ CallsFunction(cpu.esp, n, s, cpu.ebp)
<1>0. STP \in Nat /\ HLW \in Nat /\ MaxParams \in Nat
  BY LayoutAssumption
<1> DEFINE p == cpu.esp
<1>1. Script /\ UNCHANGED <<amx, rib, nstack, running, last>>
  BY DEF OpCall
<1>2. /\ p \in HLW..STP /\ cpu.ebp \in HLW..(STP - 1) /\ n \in Nat
      /\ p - 3 >= HLW /\ p + n <= cpu.ebp /\ p + n <= STP
  <2>1. amx.hea \in HLW..STP /\ p \in HLW..STP /\ cpu.ebp \in HLW..(STP - 1)
    BY <1>1, Typed, ScriptRuns
  <2>2. p - 3 >= amx.hea /\ n <= cpu.ebp - p
    BY DEF OpCall, Room
  <2> QED
    BY <1>0, <2>1, <2>2
<1>3. cpu' = [cpu EXCEPT !.esp = p - 3, !.ebp = p - 3, !.ip = f]
  BY DEF OpCall
<1>4. Pushed(mem, mem', p, n, s, cpu.ebp) /\ mem' \in [HLW..(STP - 1) -> Cells]
  <2>1. mem' = [[[mem EXCEPT ![p - 1] = Size(n)] EXCEPT ![p - 1 - 1] = Ret(s)]
                             EXCEPT ![p - 1 - 2] = Frm(cpu.ebp)]
    BY DEF OpCall, Proc
  <2>2. p - 1 \in HLW..(STP - 1) /\ p - 1 - 1 = p - 2 /\ p - 1 - 2 = p - 3
        /\ p - 2 \in HLW..(STP - 1) /\ p - 3 \in HLW..(STP - 1)
    BY <1>0, <1>2
  <2>3. mem \in [HLW..(STP - 1) -> Cells]
    BY <1>1, ScriptRuns
  <2>4. Size(n) \in Cells /\ Ret(s) \in Cells /\ Frm(cpu.ebp) \in Cells
    <3>1. n \in Word /\ s \in Word /\ cpu.ebp \in Word
      BY <1>0, <1>2, Words
    <3> QED
      BY <3>1, Words
  <2> HIDE DEF p
  <2>5. mem' \in [HLW..(STP - 1) -> Cells]
    BY <2>1, <2>3, <2>4
  <2>6. Pushed(mem, mem', p, n, s, cpu.ebp)
    BY <1>0, <1>2, <2>1, <2>2, <2>3 DEF Pushed, Cell
  <2> QED
    BY <2>5, <2>6
<1>6. f # CallReturn /\ f \in Word /\ s # CallReturn
  BY WordAssumption, Words
<1>7. cpu'.esp = p - 3 /\ cpu'.ebp = p - 3 /\ cpu'.ip = f /\ cpu'.ip # CallReturn
  BY <1>3, <1>6 DEF StackInv, TypeInv, TypeOK
<1>8. /\ Layout(mem') /\ NoFrmBelow(mem', p - 3) /\ WaitingOK' /\ Context(mem', p - 3, p - 3)
      /\ Untouched
  <2>1. \A i \in Waiting : p + n <= nstack[i].amx_esp /\ cpu.ebp < nstack[i].amx_esp
                           /\ Limit(nstack[i].amx_esp)'
    <3> TAKE i \in Waiting
    <3>1. cpu.ebp < nstack[i].amx_esp /\ nstack[i].amx_esp \in Int
      BY <1>1, WaitingAbove, Typed
    <3>2. p - 3 < nstack[i].amx_esp /\ p + n <= nstack[i].amx_esp
      BY <1>2, <3>1
    <3>3. running' = "amx" /\ nstack' = nstack
      BY <1>1, ScriptRuns
    <3>4. Limit(nstack[i].amx_esp)'
      BY <1>7, <3>2, <3>3 DEF Limit
    <3> QED
      BY <3>1, <3>2, <3>4
  <2>2. NoFrmBelow(mem, p) /\ mem[cpu.ebp].kind = "frm"
    BY <1>1, ScriptRuns
  <2>3. p \in Int /\ s \in Sites \cup {CallReturn} /\ cpu.ebp \in HLW..STP
        /\ cpu.ebp \in (p + n)..(STP - 1)
    BY <1>0, <1>2
  <2> HIDE DEF p
  <2> QED
    BY <1>1, <1>2, <1>4, <2>1, <2>2, <2>3, PushWaits, ScriptStays
<1>9. RegistersOK'
  <2>1. p - 3 \in HLW..STP /\ running' = "amx" /\ amx'.paramcount = 0
    BY <1>0, <1>1, <1>2, ScriptRuns
  <2> QED
    BY <1>7, <1>8, <2>1 DEF RegistersOK
<1>10. TypeInv'
  <2>1. cpu' \in Registers
    <3>1. p - 3 \in Nat
      BY <1>0, <1>2
    <3> QED
      BY <1>3, <1>6, <3>1 DEF StackInv, TypeInv, TypeOK, Registers
  <2> QED
    BY <1>1, <1>4, <2>1 DEF StackInv, TypeInv, TypeOK, Registers, FrameTypes
<1>11. CallsFunction(p, n, s, cpu.ebp)
  <2>1. mem'[p - 3] = Frm(cpu.ebp) /\ mem'[p - 2] = Ret(s) /\ mem'[p - 1] = Size(n)
    <3>1. p \in Int /\ n \in Nat /\ p - 3 >= HLW /\ p + n <= STP
      BY <1>2
    <3>2. Pushed(mem, mem', p, n, s, cpu.ebp)
      BY <1>4
    <3> HIDE DEF p
    <3> QED
      BY <3>1, <3>2, PushedCells, LayoutAssumption
  <2> QED
    BY <1>2, <1>4, <1>7, <2>1 DEF CallsFunction
<1> QED
  BY <1>1, <1>7, <1>8, <1>9, <1>10, <1>11, ScriptStays DEF LayoutInv

LEMMA PoppedCuts ==
  ASSUME NEW m \in [HLW..(STP - 1) -> Cells], NEW lo \in Int, NEW hi \in Int,
         NoFrmBelow(m, lo), LayoutAssumption
  PROVE  CutAt(m, Popped(m, lo, hi), hi) /\ Popped(m, lo, hi) \in [HLW..(STP - 1) -> Cells]
<1>0. STP \in Nat /\ HLW \in Nat
  BY LayoutAssumption
<1>1. Popped(m, lo, hi) = [a \in HLW..(STP - 1) |-> IF a \in lo..(hi - 1) THEN Dead ELSE m[a]]
  BY DEF Popped
<1>2. Dead \in Cells /\ Dead.kind = "dead"
  BY Words DEF Dead
<1> QED
  BY <1>0, <1>1, <1>2 DEF CutAt, NoFrmBelow, Cell

LEMMA RetnKeeps ==
  ASSUME StackInv, OpRetn
  PROVE  TypeInv' /\ LayoutInv' /\ Untouched
         /\ Returns(cpu.esp, cpu.esp + 3 + mem[cpu.esp + 2].val)
<1>0. STP \in Nat /\ HLW \in Nat
  BY LayoutAssumption
<1> DEFINE p == cpu.esp
           sp == p + 3 + mem[p + 2].val
<1>1. Script /\ UNCHANGED <<rib, nstack, running, last>> /\ cpu.ebp = p
  BY DEF OpRetn
<1>2. /\ p \in HLW..(STP - 1) /\ p \in Cell /\ LinkOK(mem, p) /\ NoFrmBelow(mem, p)
      /\ mem[p].kind = "frm" /\ mem \in [HLW..(STP - 1) -> Cells]
  BY <1>1, ScriptRuns DEF Cell
<1>3. /\ sp \in HLW..STP /\ p < sp
      /\ mem[p].val \in HLW..STP /\ mem[p + 1].val \in Sites \cup {CallReturn}
      /\ mem[p + 1].val # CallReturn => mem[p].val \in sp..(STP - 1) /\ mem[mem[p].val].kind = "frm"
  <2>1. /\ mem[p + 2].val \in Nat /\ sp <= STP
        /\ mem[p].val \in HLW..STP /\ mem[p + 1].val \in Sites \cup {CallReturn}
        /\ mem[p + 1].val # CallReturn => mem[p].val \in sp..(STP - 1) /\ mem[mem[p].val].kind = "frm"
    BY <1>2 DEF LinkOK
  <2>2. sp \in HLW..STP /\ p < sp
    <3>1. PICK k \in Nat : k = mem[p + 2].val /\ p + 3 + k <= STP
      BY <2>1
    <3>2. p \in HLW..(STP - 1)
      BY <1>2
    <3>3. p + 3 + k \in HLW..STP /\ p < p + 3 + k
      BY <1>0, <3>1, <3>2
    <3> QED
      BY <3>1, <3>3
  <2> QED
    BY <2>1, <2>2
<1> HIDE DEF sp
<1>4. /\ cpu' = [cpu EXCEPT !.esp = sp, !.ebp = mem[p].val, !.ip = mem[p + 1].val]
      /\ mem' = Popped(mem, p, sp)
      /\ amx' = [amx EXCEPT !.stk = sp]
  BY DEF OpRetn, sp
<1>5. CutAt(mem, mem', sp) /\ mem' \in [HLW..(STP - 1) -> Cells]
  BY <1>2, <1>3, <1>4, PoppedCuts, LayoutAssumption
<1>6. /\ cpu'.esp = sp /\ cpu'.ebp = mem[p].val /\ cpu'.ip = mem[p + 1].val
      /\ amx'.stk = sp /\ amx'.paramcount = 0 /\ amx'.error = "NONE"
  BY <1>1, <1>4, ScriptRuns DEF StackInv, TypeInv, TypeOK
<1>7. \A i \in Waiting : sp <= nstack[i].amx_esp /\ Limit(nstack[i].amx_esp)'
  <2> TAKE i \in Waiting
  <2>1. /\ p < nstack[i].amx_esp /\ Within(mem, nstack[i].amx_esp)
        /\ nstack[i].amx_esp <= nstack[i].amx_ebp
        /\ nstack[i].amx_esp \in HLW..STP /\ nstack[i].amx_ebp \in Cell
    BY <1>1, WaitingAbove, Typed DEF StackInv, LayoutInv, WaitingOK, Context
  <2>2. /\ sp <= nstack[i].amx_esp
        /\ mem[p + 1].val # CallReturn => mem[p].val < nstack[i].amx_esp
    BY <1>2, <2>1 DEF Within, sp
  <2>4. running' = "amx" /\ nstack' = nstack
    BY <1>1, ScriptRuns
  <2> QED
    BY <1>6, <2>2, <2>4 DEF Limit
<1>8. Layout(mem') /\ NoFrmBelow(mem', sp) /\ WaitingOK' /\ Untouched
  <2>1. Keeps /\ Waiting' = Waiting
    BY <1>1, ScriptStays
  <2>2. sp \in Int /\ \A i \in Waiting' : sp <= nstack[i].amx_esp /\ Limit(nstack[i].amx_esp)'
    BY <1>3, <1>7, <2>1
  <2> QED
    BY <1>5, <2>1, <2>2, CutWaits
<1>9. RegistersOK'
  <2>1. running' = "amx"
    BY <1>1, ScriptRuns
  <2>2. cpu'.ip # CallReturn => Context(mem', sp, cpu'.ebp)
    <3> HAVE cpu'.ip # CallReturn
    <3>1. mem[p].val \in sp..(STP - 1) /\ mem[mem[p].val].kind = "frm"
      BY <1>3, <1>6
    <3>2. mem[p].val \in Cell /\ sp <= mem[p].val
      BY <1>0, <1>3, <3>1 DEF Cell
    <3>3. mem'[mem[p].val] = mem[mem[p].val]
      BY <1>0, <1>3, <1>5, <3>2 DEF CutAt, Cell
    <3> QED
      BY <1>3, <1>6, <3>1, <3>2, <3>3 DEF Context
  <2> QED
    BY <1>3, <1>6, <2>1, <2>2 DEF RegistersOK
<1>10. TypeInv'
  <2>1. cpu' \in Registers
    <3>1. sp \in Nat /\ mem[p].val \in Nat /\ mem[p + 1].val \in Word
      BY <1>0, <1>3, Words
    <3> QED
      BY <1>4, <3>1 DEF StackInv, TypeInv, TypeOK, Registers
  <2>2. amx' \in [stk : HLW..STP, frm : HLW..STP, hea : HLW..STP, cip : Word,
                  pri : Word, alt : Word, error : ErrorCodes, paramcount : 0..MaxParams,
                  reset_stk : Word, reset_hea : Word, ntvreg : BOOLEAN]
    BY <1>3, <1>4 DEF StackInv, TypeInv, TypeOK
  <2>3. FrameTypes'
    BY <1>1, ScriptStays
  <2> QED
    BY <1>1, <1>5, <1>6, <2>1, <2>2, <2>3 DEF StackInv, TypeInv, TypeOK, Registers
<1>11. Returns(p, p + 3 + mem[p + 2].val)
  BY <1>3, <1>5, <1>6 DEF Returns, sp
<1> QED
  BY <1>1, <1>6, <1>8, <1>9, <1>10, <1>11, ScriptStays DEF LayoutInv


-----------------------------------------------------------------------------
(* Calls of natives. *)

LEMMA SysreqKeeps ==
  ASSUME StackInv, NEW s \in Sites, OpSysreq(s)
  PROVE  TypeInv' /\ LayoutInv' /\ Untouched
<1>0. STP \in Nat /\ HLW \in Nat
  BY LayoutAssumption
<1>1. /\ Script /\ mem' = mem /\ last' = last /\ running' = "native"
      /\ amx' = [amx EXCEPT !.stk = cpu.esp, !.frm = cpu.ebp,
                            !.cip = IF SleepEnabled THEN s ELSE amx.cip]
      /\ nstack' = Append(SubSeq(nstack, 1, rib.esp), NativeFrame)
      /\ rib' = [rib EXCEPT !.amx_esp = cpu.esp, !.amx_ebp = cpu.ebp]
      /\ cpu' = [cpu EXCEPT !.eax = Garbage, !.ecx = Garbage, !.esi = s, !.edi = cpu.esp,
                            !.esp = rib.esp + 1, !.ebp = rib.ebp, !.ip = Null]
  BY DEF OpSysreq, SysreqSave
<1>2. /\ running = "amx" /\ amx.paramcount = 0 /\ Context(mem, cpu.esp, cpu.ebp)
      /\ cpu.esp \in HLW..STP /\ cpu.ebp \in HLW..(STP - 1) /\ NoFrmBelow(mem, cpu.esp)
      /\ mem \in [HLW..(STP - 1) -> Cells]
  BY <1>1, ScriptRuns
<1>3. /\ rib \in [ebp : Nat, esp : Nat, amx_ebp : Word, amx_esp : Word, reset_ebp : Word,
                  reset_esp : Word, reset_stk : Word, reset_hea : Word]
      /\ cpu \in Registers
  BY DEF StackInv, TypeInv, TypeOK, Registers
<1>4. CallsNative
  <2>1. rib'.ebp = rib.ebp /\ rib'.esp = rib.esp
        /\ rib'.reset_stk = rib.reset_stk /\ rib'.reset_ebp = rib.reset_ebp
        /\ rib'.reset_esp = rib.reset_esp /\ rib'.reset_hea = rib.reset_hea
    BY <1>1, <1>3
  <2>2. cpu'.esp = rib.esp + 1 /\ cpu'.ebp = rib.ebp /\ cpu'.esi \in Sites
    BY <1>1, <1>3 DEF Registers
  <2> QED
    BY <1>1, <1>2, <2>1, <2>2 DEF CallsNative
<1>5. Keeps /\ nstack' # <<>>
  BY <1>4, CallFrames DEF StackInv
<1>6. PICK n \in Nat : /\ n = Len(nstack) /\ Len(nstack') = n + 1
                       /\ DOMAIN nstack = 1..n /\ DOMAIN nstack' = 1..(n + 1)
                       /\ nstack'[n + 1] = NativeFrame
                       /\ Waiting' = Waiting \cup {n + 1}
  BY <1>4, CallFrames DEF StackInv
<1>7. /\ NativeFrame.kind = "native" /\ NativeFrame.amx_esp = cpu.esp
      /\ NativeFrame.amx_ebp = cpu.ebp /\ NativeFrame.alt = cpu.ecx /\ cpu.ecx \in Word
  BY <1>3 DEF NativeFrame, Registers
<1>8. /\ amx'.stk = cpu.esp /\ amx'.frm = cpu.ebp /\ amx'.paramcount = 0
      /\ amx'.error = "NONE" /\ (SleepEnabled => amx'.cip = s) /\ cpu'.esi = s
  BY <1>1, <1>2, <1>3 DEF StackInv, TypeInv, TypeOK, Registers
<1>9. \A i \in Waiting : i \in 1..n /\ nstack'[i] = nstack[i]
  BY <1>5, <1>6 DEF Waiting, Keeps
<1>10. WaitingOK'
  <2> SUFFICES ASSUME NEW i \in Waiting'
               PROVE  /\ Context(mem, nstack'[i].amx_esp, nstack'[i].amx_ebp)
                      /\ Within(mem, nstack'[i].amx_esp)
                      /\ cpu.esp <= nstack'[i].amx_esp
                      /\ \A j \in Waiting' : j < i => nstack'[i].amx_ebp < nstack'[j].amx_esp
    <3>1. amx'.stk + amx'.paramcount = cpu.esp
      BY <1>2, <1>8
    <3> QED
      BY <1>1, <3>1 DEF WaitingOK, Limit
  <2>1. CASE i \in Waiting
    <3>1. /\ Context(mem, nstack[i].amx_esp, nstack[i].amx_ebp)
          /\ Within(mem, nstack[i].amx_esp)
          /\ \A j \in Waiting : j < i => nstack[i].amx_ebp < nstack[j].amx_esp
          /\ cpu.esp <= nstack[i].amx_esp
      BY <1>2, <2>1, WaitingAbove DEF StackInv, LayoutInv, WaitingOK
    <3>2. \A j \in Waiting' : j < i => j \in Waiting
      BY <1>6, <1>9, <2>1
    <3> QED
      BY <1>9, <2>1, <3>1, <3>2
  <2>2. CASE i = n + 1
    <3>1. nstack'[i].amx_esp = cpu.esp /\ nstack'[i].amx_ebp = cpu.ebp
      BY <1>6, <1>7, <2>2
    <3>2. Within(mem, cpu.esp)
      BY <1>2 DEF Within, NoFrmBelow
    <3>3. \A j \in Waiting' : j < i => j \in Waiting
      BY <1>6, <2>2
    <3>4. \A j \in Waiting : cpu.ebp < nstack'[j].amx_esp
      BY <1>1, <1>9, WaitingAbove
    <3> QED
      BY <1>2, <3>1, <3>2, <3>3, <3>4
  <2> QED
    BY <1>6, <2>1, <2>2
<1>11. RegistersOK' /\ SP' = cpu.esp
  <2>1. amx'.stk + amx'.paramcount <= STP
    BY <1>0, <1>2, <1>8
  <2> QED
    BY <1>1, <1>5, <1>8, <2>1 DEF RegistersOK, SP
<1>12. Captured'
  <2>1. nstack'[Len(nstack')].amx_ebp = cpu.ebp /\ nstack'[Len(nstack')].amx_esp = cpu.esp
    BY <1>6, <1>7
  <2>2. amx'.stk + amx'.paramcount = cpu.esp
    BY <1>2, <1>8
  <2> QED
    BY <1>8, <2>1, <2>2 DEF Captured
<1>13. SleeperOK'
  BY <1>1, <1>2 DEF StackInv, LayoutInv, SleeperOK
<1>14. TypeOK'
  <2>1. amx' \in [stk : HLW..STP, frm : HLW..STP, hea : HLW..STP, cip : Word,
                  pri : Word, alt : Word, error : ErrorCodes, paramcount : 0..MaxParams,
                  reset_stk : Word, reset_hea : Word, ntvreg : BOOLEAN]
    <3>1. s \in Word /\ amx.cip \in Word /\ cpu.ebp \in HLW..STP
      BY <1>0, <1>2, Words DEF StackInv, TypeInv, TypeOK
    <3> QED
      BY <1>1, <1>2, <3>1 DEF StackInv, TypeInv, TypeOK
  <2>2. cpu.esp \in Word /\ cpu.ebp \in Word
    BY <1>0, <1>2, Words
  <2>3. cpu' \in Registers
    <3>1. rib.esp + 1 \in Nat /\ rib.ebp \in Nat
      BY <1>3
    <3> QED
      BY <1>1, <1>3, <2>2, <3>1, Words DEF Registers
  <2>4. rib' \in [ebp : Nat, esp : Nat, amx_ebp : Word, amx_esp : Word, reset_ebp : Word,
                  reset_esp : Word, reset_stk : Word, reset_hea : Word]
    BY <1>1, <1>3, <2>2
  <2> QED
    BY <1>1, <2>1, <2>3, <2>4 DEF StackInv, TypeInv, TypeOK, Registers
<1>15. FrameTypes'
  <2> SUFFICES ASSUME NEW i \in 1..(n + 1), i \in 1..n \/ i = n + 1
               PROVE  /\ nstack'[i].kind = "exec" =>
                           /\ IF i = 1 THEN nstack'[i].esi = HostReg ELSE nstack'[i].esi \in Sites
                           /\ {nstack'[i].reset_ebp, nstack'[i].reset_esp,
                               nstack'[i].reset_stk, nstack'[i].reset_hea} \subseteq Word
                      /\ nstack'[i].kind = "helper" =>
                           /\ nstack'[i].edi \in Word \cup {HostReg}
                           /\ i = 2 => nstack'[i].edi = HostReg
                           /\ {nstack'[i].amx_ebp, nstack'[i].amx_esp} \subseteq Word
                      /\ nstack'[i].kind = "native" => nstack'[i].alt \in Word
    BY <1>6 DEF FrameTypes
  <2>1. CASE i \in 1..n
    BY <1>5, <1>6, <2>1 DEF StackInv, TypeInv, FrameTypes, Keeps
  <2>2. CASE i = n + 1
    BY <1>6, <1>7, <2>2
  <2> QED
    BY <2>1, <2>2
<1> QED
  BY <1>1, <1>2, <1>8, <1>10, <1>11, <1>12, <1>13, <1>14, <1>15
  DEF TypeInv, LayoutInv, StackInv, Untouched

LEMMA ResumeKeepsStack ==
  ASSUME StackInv, InNative, NEW eax \in Word, ResumeScript(eax)
  PROVE  TypeInv' /\ LayoutInv' /\ Untouched
<1>0. STP \in Nat /\ HLW \in Nat
  BY LayoutAssumption
<1>1. /\ running = "native" /\ running' = "amx" /\ nstack # <<>> /\ amx.paramcount = 0
      /\ last' = NoResult /\ UNCHANGED <<amx, rib>>
      /\ nstack' = SubSeq(nstack, 1, cpu.esp - 1)
      /\ mem' = Popped(mem, HLW, nstack[cpu.esp].amx_esp)
      /\ cpu' = [eax |-> eax, ecx |-> nstack[cpu.esp].alt, esi |-> Garbage, edi |-> Garbage,
                 esp |-> nstack[cpu.esp].amx_esp, ebp |-> nstack[cpu.esp].amx_ebp,
                 ip |-> cpu.esi]
  BY DEF InNative, ResumeScript
<1>2. Resumes
  BY <1>1 DEF Resumes
<1>3. /\ Keeps /\ cpu.esp \in Waiting /\ DOMAIN nstack' \subseteq DOMAIN nstack
      /\ Waiting' = Waiting \ {cpu.esp} /\ \A i \in Waiting' : i \in Waiting /\ i < cpu.esp
  BY <1>2, ResumeFrames DEF StackInv
<1> DEFINE t == nstack[cpu.esp].amx_esp
           b == nstack[cpu.esp].amx_ebp
<1>4. /\ Context(mem, t, b) /\ t \in HLW..STP /\ b \in Cell /\ t <= b
      /\ \A j \in Waiting' : b < nstack[j].amx_esp
      /\ nstack[cpu.esp].alt \in Word
  <2>1. Context(mem, t, b) /\ \A j \in Waiting : j < cpu.esp => b < nstack[j].amx_esp
    BY <1>3 DEF StackInv, LayoutInv, WaitingOK
  <2>2. nstack[cpu.esp].alt \in Word
    BY <1>3 DEF StackInv, TypeInv, FrameTypes, Waiting
  <2> QED
    BY <1>3, <2>1, <2>2 DEF Context
<1>5. cpu.esi \in Sites /\ cpu.esi # CallReturn /\ cpu.esi \in Word
  BY <1>1, CallerRuns, WordAssumption, Words
<1>6. cpu'.esp = t /\ cpu'.ebp = b /\ cpu'.ip = cpu.esi
  BY <1>1
<1> HIDE DEF t, b
<1>7. CutAt(mem, mem', t) /\ mem' \in [HLW..(STP - 1) -> Cells]
  <2>1. NoFrmBelow(mem, HLW) /\ mem \in [HLW..(STP - 1) -> Cells]
    BY <1>0, <1>1, CallerRuns DEF NoFrmBelow, Cell
  <2> QED
    BY <1>0, <1>1, <1>4, <2>1, PoppedCuts, LayoutAssumption DEF t
<1>8. Layout(mem') /\ NoFrmBelow(mem', t) /\ WaitingOK' /\ Untouched
  <2>1. \A i \in Waiting' : t <= nstack[i].amx_esp /\ Limit(nstack[i].amx_esp)'
    <3> TAKE i \in Waiting'
    <3>1. /\ i \in Waiting /\ nstack'[i] = nstack[i]
          /\ b < nstack[i].amx_esp /\ nstack[i].amx_esp <= nstack[i].amx_ebp
          /\ nstack[i].amx_esp \in HLW..STP /\ nstack[i].amx_ebp \in Cell
      BY <1>1, <1>3, <1>4, CallerRuns, Typed DEF Keeps, Waiting
    <3>2. t <= nstack[i].amx_esp
      BY <1>0, <1>4, <3>1 DEF Cell
    <3>3. Limit(nstack[i].amx_esp)'
      BY <1>1, <1>5, <1>6, <3>1 DEF Limit
    <3> QED
      BY <3>2, <3>3
  <2>2. t \in Int /\ Waiting' \subseteq Waiting
    BY <1>3, <1>4
  <2> QED
    BY <1>3, <1>7, <2>1, <2>2, CutWaits
<1>9. Context(mem', t, b)
  <2>1. mem'[b] = mem[b]
    BY <1>0, <1>4, <1>7 DEF CutAt, Cell
  <2> QED
    BY <1>4, <2>1 DEF Context
<1>10. RegistersOK' /\ SP' = t
  <2>1. b \in HLW..STP
    BY <1>0, <1>4 DEF Cell
  <2> QED
    BY <1>1, <1>4, <1>5, <1>6, <1>9, <2>1 DEF RegistersOK, SP
<1>11. Captured' /\ SleeperOK'
  <2>1. last'.error # "SLEEP"
    BY <1>1, WordAssumption DEF NoResult
  <2> QED
    BY <1>1, <2>1 DEF Captured, SleeperOK
<1>12. TypeOK'
  <2>1. cpu' \in Registers
    <3>1. t \in Nat /\ b \in Nat
      BY <1>0, <1>4 DEF Cell
    <3> QED
      BY <1>1, <1>4, <1>5, <3>1, Words DEF Registers, t, b
  <2>2. last'.error = Null /\ last'.retval = Null
    BY <1>1 DEF NoResult
  <2> QED
    BY <1>1, <1>7, <2>1, <2>2, Words DEF StackInv, TypeInv, TypeOK, Registers
<1>13. FrameTypes' /\ amx'.error = "NONE"
  BY <1>1, <1>3, KeptTypes DEF StackInv, TypeInv
<1> QED
  BY <1>8, <1>10, <1>11, <1>12, <1>13 DEF TypeInv, LayoutInv


-----------------------------------------------------------------------------
(* Leaving Exec. *)

AMXStates == [stk : HLW..STP, frm : HLW..STP, hea : HLW..STP, cip : Word,
              pri : Word, alt : Word, error : ErrorCodes, paramcount : 0..MaxParams,
              reset_stk : Word, reset_hea : Word, ntvreg : BOOLEAN]

LEMMA LeaveTypes ==
  ASSUME StackInv, nstack # <<>>, NEW a \in AMXStates, NEW eax \in Word, LeaveExec(a, eax),
         mem' \in [HLW..(STP - 1) -> Cells]
  PROVE  /\ TypeInv' /\ LeavesScript /\ running' = "native" /\ amx' = [a EXCEPT !.error = "NONE"]
         /\ last' = [error |-> a.error, retval |-> eax]
         /\ nstack' # <<>> => cpu'.esi \in Sites
         /\ nstack' = <<>> => cpu'.esi = HostReg /\ cpu'.edi = HostReg
<1> DEFINE helper == nstack[rib.esp]
           exec == nstack[rib.ebp]
<1>1. /\ rib' = [ebp |-> helper.ebp, esp |-> helper.esp,
                 amx_ebp |-> helper.amx_ebp, amx_esp |-> helper.amx_esp,
                 reset_ebp |-> exec.reset_ebp, reset_esp |-> exec.reset_esp,
                 reset_stk |-> exec.reset_stk, reset_hea |-> exec.reset_hea]
      /\ cpu' = [eax |-> Garbage, ecx |-> Garbage,
                 esi |-> nstack[rib.esp - 1].esi, edi |-> helper.edi,
                 esp |-> rib.ebp - 1, ebp |-> exec.ebp, ip |-> Null]
      /\ nstack' = SubSeq(nstack, 1, rib.ebp - 1)
      /\ amx' = [a EXCEPT !.error = "NONE"]
      /\ last' = [error |-> a.error, retval |-> eax]
      /\ running' = "native"
  BY DEF LeaveExec
<1>2. LeavesScript
  BY <1>1 DEF LeavesScript
<1>3. Keeps /\ DOMAIN nstack' \subseteq DOMAIN nstack
  BY <1>2, LeaveFrames DEF StackInv
<1>4. PICK m \in 0..Len(nstack) :
           /\ rib.ebp = m + 1 /\ rib.esp = m + 2 /\ m + 2 \in DOMAIN nstack
           /\ nstack[m + 1].kind = "exec" /\ nstack[m + 2].kind = "helper"
           /\ m = 0 \/ m >= 3
           /\ nstack' = <<>> <=> m = 0
  BY <1>2, LeaveFrames DEF StackInv
<1>5. /\ m \in Nat /\ m + 1 \in DOMAIN nstack /\ DOMAIN nstack = 1..Len(nstack)
      /\ rib.esp - 1 = m + 1 /\ rib.ebp - 1 = m
  BY <1>4, PileShape DEF StackInv
<1>6. /\ IF m = 0 THEN exec.esi = HostReg ELSE exec.esi \in Sites
      /\ {exec.reset_ebp, exec.reset_esp, exec.reset_stk, exec.reset_hea} \subseteq Word
      /\ helper.edi \in Word \cup {HostReg} /\ (m = 0 => helper.edi = HostReg)
      /\ {helper.amx_ebp, helper.amx_esp} \subseteq Word
  <2>1. (m + 1 = 1 <=> m = 0) /\ (m + 2 = 2 <=> m = 0)
    BY <1>5
  <2> QED
    BY <1>4, <1>5, <2>1 DEF StackInv, TypeInv, FrameTypes
<1>7. helper.esp \in Nat /\ helper.ebp \in Nat /\ exec.ebp \in Nat
  <2>1. FrameFits(m + 1) /\ FrameFits(m + 2)
    BY <1>4, <1>5, FramesFit DEF StackInv, NativeInv
  <2>2. (m + 1 = 1 <=> m = 0) /\ (m + 2 = 2 <=> m = 0) /\ m + 2 - 3 = m - 1
        /\ m + 2 - 4 = m - 2 /\ m + 1 - 3 = m - 2
    BY <1>5
  <2>3. m # 0 => m - 1 \in Nat /\ m - 2 \in Nat
    BY <1>4, <1>5
  <2> QED
    BY <1>4, <2>1, <2>2, <2>3 DEF FrameFits
<1>8. nstack[rib.esp - 1].esi = exec.esi /\ rib.ebp - 1 \in Nat
  BY <1>4, <1>5
<1> HIDE DEF helper, exec
<1>9. rib' \in [ebp : Nat, esp : Nat, amx_ebp : Word, amx_esp : Word, reset_ebp : Word,
                reset_esp : Word, reset_stk : Word, reset_hea : Word]
  BY <1>1, <1>6, <1>7
<1>10. cpu' \in Registers
  BY <1>1, <1>6, <1>7, <1>8, Words DEF Registers
<1>11. amx' \in AMXStates /\ amx'.error = "NONE" /\ a.error \in ErrorCodes
  <2>1. "NONE" \in ErrorCodes
    BY DEF ErrorCodes
  <2> QED
    BY <1>1, <2>1 DEF AMXStates
<1>12. last'.error \in ErrorCodes \cup {Null} /\ last'.retval \in Word
  BY <1>1, <1>11
<1>13. TypeOK'
  BY <1>1, <1>9, <1>10, <1>11, <1>12 DEF TypeOK, Registers, AMXStates
<1>14. FrameTypes'
  BY <1>3, KeptTypes DEF StackInv, TypeInv
<1>15. /\ nstack' # <<>> => cpu'.esi \in Sites
       /\ nstack' = <<>> => cpu'.esi = HostReg /\ cpu'.edi = HostReg
  BY <1>1, <1>4, <1>6, <1>8
<1> QED
  BY <1>1, <1>2, <1>11, <1>13, <1>14, <1>15 DEF TypeInv

\* What going to sleep keeps of the script with these registers.
Slept(esp, ebp) ==
  /\ amx'.stk = esp /\ amx'.frm = ebp /\ amx'.reset_stk = rib.reset_stk
  /\ CutAt(mem, mem', esp)

\* Exec leaves the stack cut at t, where it belongs below all that still waits.
LEMMA LeaveLayout ==
  ASSUME StackInv, nstack # <<>>, NEW a \in AMXStates, NEW eax \in Word, LeaveExec(a, eax),
         mem' \in [HLW..(STP - 1) -> Cells],
         NEW t \in HLW..STP, CutAt(mem, mem', t), a.stk = t, a.paramcount = 0,
         \A i \in Waiting' : t <= nstack[i].amx_esp,
         (SleepEnabled /\ a.error = "SLEEP") =>
            /\ a.cip \in Sites /\ Context(mem', a.stk, a.frm)
            /\ \A i \in Waiting' : a.frm < nstack[i].amx_esp
  PROVE  TypeInv' /\ LayoutInv' /\ Untouched
<1>0. STP \in Nat /\ HLW \in Nat
  BY LayoutAssumption
<1>1. /\ TypeInv' /\ LeavesScript /\ running' = "native" /\ amx' = [a EXCEPT !.error = "NONE"]
      /\ last' = [error |-> a.error, retval |-> eax]
      /\ nstack' # <<>> => cpu'.esi \in Sites
      /\ nstack' = <<>> => cpu'.esi = HostReg /\ cpu'.edi = HostReg
  BY LeaveTypes
<1>2. Keeps /\ Waiting' \subseteq Waiting
  BY <1>1, LeaveFrames DEF StackInv
<1>3. /\ amx'.stk = t /\ amx'.paramcount = 0 /\ amx'.cip = a.cip /\ amx'.frm = a.frm
      /\ a.error \in ErrorCodes
  BY <1>1 DEF AMXStates
<1>4. Layout(mem') /\ NoFrmBelow(mem', t) /\ WaitingOK' /\ Untouched
  <2>1. \A i \in Waiting' : t <= nstack[i].amx_esp /\ Limit(nstack[i].amx_esp)'
    <3> TAKE i \in Waiting'
    <3>1. /\ i \in Waiting /\ nstack'[i] = nstack[i] /\ t <= nstack[i].amx_esp
          /\ nstack[i].amx_esp \in HLW..STP /\ nstack[i].amx_ebp \in Cell
          /\ nstack[i].amx_esp <= nstack[i].amx_ebp
      BY <1>2, Typed DEF Keeps, Waiting, StackInv, LayoutInv, WaitingOK, Context
    <3>3. amx'.stk + amx'.paramcount = t
      BY <1>0, <1>3
    <3>4. Limit(nstack[i].amx_esp)'
      BY <1>1, <3>1, <3>3 DEF Limit
    <3> QED
      BY <3>1, <3>4
  <2>2. t \in Int
    OBVIOUS
  <2> QED
    BY <1>2, <2>1, <2>2, CutWaits
<1>5. RegistersOK' /\ SP' = t
  <2>1. amx'.stk + amx'.paramcount <= STP
    BY <1>0, <1>3
  <2> QED
    BY <1>1, <1>3, <2>1 DEF RegistersOK, SP
<1>6. last'.error = a.error
  BY <1>1
<1>7. Captured'
  <2>1. Null \notin ErrorCodes
    BY WordAssumption DEF ErrorCodes
  <2>2. last' # NoResult
    BY <1>3, <1>6, <2>1 DEF NoResult
  <2> QED
    BY <2>2 DEF Captured
<1>8. SleeperOK'
  <2> SUFFICES ASSUME SleepEnabled, last'.error = "SLEEP"
               PROVE  /\ running' = "native" /\ amx'.paramcount = 0 /\ amx'.cip \in Sites
                      /\ Context(mem', amx'.stk, amx'.frm)
                      /\ \A i \in Waiting' : amx'.frm < nstack'[i].amx_esp
    BY DEF SleeperOK
  <2>1. /\ a.cip \in Sites /\ Context(mem', a.stk, a.frm)
        /\ \A i \in Waiting' : a.frm < nstack[i].amx_esp
    BY <1>6
  <2>2. \A i \in Waiting' : nstack'[i] = nstack[i]
    BY <1>2 DEF Keeps, Waiting
  <2> QED
    BY <1>1, <1>3, <2>1, <2>2
<1> QED
  BY <1>1, <1>4, <1>5, <1>7, <1>8 DEF LayoutInv

LEMMA ReturnKeeps ==
  ASSUME StackInv, ReturnToExec
  PROVE  TypeInv' /\ LayoutInv' /\ Untouched
<1>0. STP \in Nat /\ HLW \in Nat
  BY LayoutAssumption
<1> DEFINE synced == [amx EXCEPT !.pri = cpu.eax, !.alt = cpu.ecx,
                                 !.frm = cpu.ebp, !.stk = cpu.esp]
           a == IF SleepEnabled /\ amx.error # "SLEEP" THEN amx ELSE synced
<1>1. running = "amx" /\ cpu.ip = CallReturn /\ LeaveExec(a, cpu.eax) /\ mem' = mem
  BY DEF ReturnToExec
<1>2. /\ amx.stk = cpu.esp /\ amx.paramcount = 0 /\ amx.error = "NONE"
      /\ cpu.esp \in HLW..STP /\ cpu.ebp \in HLW..STP /\ NoFrmBelow(mem, cpu.esp)
      /\ cpu.eax \in Word /\ cpu.ecx \in Word /\ amx \in AMXStates
      /\ mem \in [HLW..(STP - 1) -> Cells]
  BY <1>1 DEF StackInv, TypeInv, TypeOK, LayoutInv, RegistersOK, SP, AMXStates
<1>3. a \in AMXStates /\ a.stk = cpu.esp /\ a.paramcount = 0 /\ a.error = "NONE"
  <2>1. synced \in AMXStates /\ synced.stk = cpu.esp /\ synced.paramcount = 0
        /\ synced.error = "NONE"
    BY <1>2 DEF AMXStates
  <2> QED
    BY <1>2, <2>1
<1> HIDE DEF a
<1>4. CutAt(mem, mem', cpu.esp)
  BY <1>1, <1>2 DEF CutAt, NoFrmBelow
<1>5. nstack # <<>>
  BY <1>1 DEF StackInv, NativeInv, NativeStackOK, TopOK
<1>6. \A i \in Waiting' : cpu.esp <= nstack[i].amx_esp
  <2>1. LeavesScript
    BY <1>1, <1>2, <1>3, <1>5, LeaveTypes
  <2>2. Waiting' \subseteq Waiting
    BY <2>1, LeaveFrames DEF StackInv
  <2> QED
    BY <1>1, <2>2, WaitingAbove
<1> QED
  BY <1>1, <1>2, <1>3, <1>4, <1>5, <1>6, LeaveLayout

LEMMA HaltKeeps ==
  ASSUME StackInv, NEW error \in HaltErrors, NEW s \in Sites, OpHalt(error, s)
  PROVE  /\ TypeInv' /\ LayoutInv' /\ Untouched
         /\ (SleepEnabled /\ last'.error = "SLEEP") => Slept(cpu.esp, cpu.ebp)
<1>0. STP \in Nat /\ HLW \in Nat
  BY LayoutAssumption
<1> DEFINE halted == [amx EXCEPT !.error = error, !.pri = cpu.eax, !.alt = cpu.ecx,
                                 !.frm = cpu.ebp, !.stk = cpu.esp]
           asleep == [[halted EXCEPT !.cip = s] EXCEPT !.reset_stk = rib.reset_stk,
                                                       !.reset_hea = rib.reset_hea]
           sleeps == SleepEnabled /\ error = "SLEEP"
<1>1. Script /\ mem' = mem /\ nstack # <<>>
  BY DEF OpHalt, Script, StackInv, NativeInv, NativeStackOK, TopOK
<1>2. IF sleeps THEN LeaveExec(asleep, s) ELSE LeaveExec(halted, cpu.eax)
  BY DEF OpHalt, HaltHelper, SleepSave
<1>3. /\ running = "amx" /\ amx.paramcount = 0 /\ Context(mem, cpu.esp, cpu.ebp)
      /\ cpu.esp \in HLW..STP /\ cpu.ebp \in HLW..(STP - 1) /\ NoFrmBelow(mem, cpu.esp)
      /\ mem \in [HLW..(STP - 1) -> Cells]
  BY <1>1, ScriptRuns
<1>4. /\ cpu.eax \in Word /\ cpu.ecx \in Word /\ amx \in AMXStates
      /\ rib.reset_stk \in Word /\ rib.reset_hea \in Word
  BY DEF StackInv, TypeInv, TypeOK, AMXStates
<1>5. /\ halted \in AMXStates /\ halted.stk = cpu.esp /\ halted.frm = cpu.ebp
      /\ halted.paramcount = 0 /\ halted.error = error
  <2>1. error \in ErrorCodes /\ cpu.ebp \in HLW..STP
    BY <1>0, <1>3 DEF ErrorCodes
  <2> QED
    BY <1>3, <1>4, <2>1 DEF AMXStates
<1> HIDE DEF halted
<1>6. /\ asleep \in AMXStates /\ asleep.stk = cpu.esp /\ asleep.frm = cpu.ebp
      /\ asleep.paramcount = 0 /\ asleep.error = error /\ asleep.cip = s /\ s \in Word
      /\ asleep.reset_stk = rib.reset_stk
  BY <1>4, <1>5, Words DEF AMXStates
<1> HIDE DEF asleep
<1>7. PICK a \in AMXStates, eax \in Word :
        /\ LeaveExec(a, eax) /\ a.stk = cpu.esp /\ a.frm = cpu.ebp /\ a.paramcount = 0
        /\ a.error = error /\ (sleeps => a.cip = s /\ a.reset_stk = rib.reset_stk)
  BY <1>2, <1>4, <1>5, <1>6
<1>8. CutAt(mem, mem', cpu.esp)
  BY <1>1, <1>3 DEF CutAt, NoFrmBelow
<1>9. \A i \in Waiting' : cpu.esp <= nstack[i].amx_esp /\ cpu.ebp < nstack[i].amx_esp
  <2>1. LeavesScript
    BY <1>1, <1>3, <1>7, LeaveTypes
  <2>2. Waiting' \subseteq Waiting
    BY <2>1, LeaveFrames DEF StackInv
  <2> QED
    BY <1>1, <1>3, <2>2, WaitingAbove
<1>10. (SleepEnabled /\ last'.error = "SLEEP") => Slept(cpu.esp, cpu.ebp)
  <2>1. amx' = [a EXCEPT !.error = "NONE"] /\ last' = [error |-> a.error, retval |-> eax]
    BY <1>7 DEF LeaveExec
  <2>2. last'.error = error /\ amx'.stk = a.stk /\ amx'.frm = a.frm
        /\ amx'.reset_stk = a.reset_stk
    BY <1>7, <2>1 DEF AMXStates
  <2> QED
    BY <1>7, <1>8, <2>2 DEF Slept
<1> QED
  BY <1>1, <1>3, <1>7, <1>8, <1>9, <1>10, LeaveLayout

\* The hypothesis keeps natives that have called Exec from raising SLEEP: what
\* SysreqCHelper has stored is overwritten then (run runtime_sleep_nested).
LEMMA ErrorKeeps ==
  ASSUME StackInv, SleepEnabled => ~SleepAfterExec,
         NEW error \in HaltErrors, NEW v \in Values, NativeError(error, v)
  PROVE  /\ TypeInv' /\ LayoutInv' /\ Untouched
         /\ (SleepEnabled /\ last'.error = "SLEEP") =>
              Slept(nstack[cpu.esp].amx_esp, nstack[cpu.esp].amx_ebp)
<1>0. STP \in Nat /\ HLW \in Nat
  BY LayoutAssumption
<1> DEFINE native == nstack[cpu.esp]
           t == native.amx_esp
           raised == [amx EXCEPT !.error = error]
           asleep == [[raised EXCEPT !.pri = v, !.alt = native.alt]
                        EXCEPT !.reset_stk = rib.reset_stk, !.reset_hea = rib.reset_hea]
           halted == [raised EXCEPT !.error = error, !.pri = v, !.alt = native.alt,
                                    !.frm = native.amx_ebp, !.stk = native.amx_esp]
           sleeps == SleepEnabled /\ error = "SLEEP"
<1>1. /\ running = "native" /\ nstack # <<>> /\ amx.paramcount = 0
      /\ mem' = Popped(mem, HLW, t) /\ (error = "SLEEP" => SleepAfterExec \/ last = NoResult)
  BY DEF NativeError, InNative
<1>2. IF sleeps THEN LeaveExec(asleep, v) ELSE LeaveExec(halted, v)
  BY DEF NativeError, HaltHelper, SleepSave
<1>3. LeavesScript
  BY <1>1, <1>2 DEF LeaveExec, LeavesScript
<1>4. /\ Keeps /\ Waiting' \subseteq Waiting /\ cpu.esp \in Waiting
      /\ \A i \in Waiting' : i < cpu.esp
      /\ cpu.esp = Len(nstack)
  <2>1. cpu.esp = Len(nstack)
    BY <1>1 DEF StackInv, NativeInv, NativeStackOK, CallerEbpOK
  <2> QED
    BY <1>1, <1>3, <2>1, LeaveFrames DEF StackInv
<1>5. /\ Context(mem, t, native.amx_ebp) /\ t \in HLW..STP /\ native.amx_ebp \in HLW..(STP - 1)
      /\ t <= native.amx_ebp
      /\ \A j \in Waiting' : native.amx_ebp < nstack[j].amx_esp
      /\ native.alt \in Word
  <2>1. Context(mem, t, native.amx_ebp)
        /\ \A j \in Waiting : j < cpu.esp => native.amx_ebp < nstack[j].amx_esp
    BY <1>4 DEF StackInv, LayoutInv, WaitingOK
  <2>2. native.alt \in Word
    BY <1>4 DEF StackInv, TypeInv, FrameTypes, Waiting
  <2> QED
    BY <1>4, <2>1, <2>2 DEF Context, Cell
<1>6. sleeps => amx.frm = native.amx_ebp /\ amx.stk = t /\ amx.cip \in Sites
  <2> HAVE sleeps
  <2>1. last = NoResult
    BY <1>1
  <2>2. amx.frm = native.amx_ebp /\ amx.stk + amx.paramcount = t /\ amx.cip = cpu.esi
    BY <1>1, <1>4, <2>1 DEF StackInv, LayoutInv, Captured
  <2>3. cpu.esi \in Sites
    BY <1>1, CallerRuns
  <2>4. amx.stk + amx.paramcount = amx.stk
    BY <1>0, <1>1, Typed
  <2> QED
    BY <2>2, <2>3, <2>4
<1>7. /\ v \in Word /\ error \in ErrorCodes /\ amx \in AMXStates
      /\ rib.reset_stk \in Word /\ rib.reset_hea \in Word
      /\ native.amx_ebp \in HLW..STP
  BY <1>0, <1>5, Words DEF StackInv, TypeInv, TypeOK, AMXStates, ErrorCodes
<1> HIDE DEF native
<1>8. /\ asleep \in AMXStates /\ asleep.stk = amx.stk /\ asleep.frm = amx.frm
      /\ asleep.cip = amx.cip /\ asleep.paramcount = 0 /\ asleep.error = error
      /\ asleep.reset_stk = rib.reset_stk
  BY <1>1, <1>5, <1>7 DEF AMXStates
<1>9. /\ halted \in AMXStates /\ halted.stk = t /\ halted.frm = native.amx_ebp
      /\ halted.paramcount = 0 /\ halted.error = error
  BY <1>1, <1>5, <1>7 DEF AMXStates
<1> HIDE DEF halted, asleep
<1>10. PICK a \in AMXStates :
        /\ LeaveExec(a, v) /\ a.stk = t /\ a.frm = native.amx_ebp /\ a.paramcount = 0
        /\ a.error = error /\ (sleeps => a.cip \in Sites /\ a.reset_stk = rib.reset_stk)
  BY <1>2, <1>6, <1>8, <1>9
<1> HIDE DEF t
<1>11. CutAt(mem, mem', t) /\ mem' \in [HLW..(STP - 1) -> Cells]
  <2>1. NoFrmBelow(mem, HLW) /\ mem \in [HLW..(STP - 1) -> Cells]
    BY <1>0, <1>1, CallerRuns DEF NoFrmBelow, Cell
  <2> QED
    BY <1>0, <1>1, <1>5, <2>1, PoppedCuts, LayoutAssumption
<1>12. Context(mem', t, native.amx_ebp)
  <2>1. mem'[native.amx_ebp] = mem[native.amx_ebp]
    BY <1>0, <1>5, <1>11 DEF CutAt, Cell
  <2> QED
    BY <1>5, <2>1 DEF Context
<1>13. \A i \in Waiting' : t <= nstack[i].amx_esp /\ native.amx_ebp < nstack[i].amx_esp
  <2> TAKE i \in Waiting'
  <2>1. nstack[i].amx_esp \in HLW..STP /\ native.amx_ebp < nstack[i].amx_esp
    BY <1>4, <1>5, Typed
  <2> QED
    BY <1>0, <1>5, <2>1
<1>14. (SleepEnabled /\ last'.error = "SLEEP") => Slept(t, native.amx_ebp)
  <2>1. amx' = [a EXCEPT !.error = "NONE"] /\ last' = [error |-> a.error, retval |-> v]
    BY <1>10 DEF LeaveExec
  <2>2. last'.error = error /\ amx'.stk = a.stk /\ amx'.frm = a.frm
        /\ amx'.reset_stk = a.reset_stk
    BY <1>10, <2>1 DEF AMXStates
  <2> QED
    BY <1>10, <1>11, <2>2 DEF Slept
<1> QED
  BY <1>1, <1>5, <1>7, <1>10, <1>11, <1>12, <1>13, <1>14, LeaveLayout DEF native, t


-----------------------------------------------------------------------------
(* The invariant. *)

LEMMA StackInvInit == Init => StackInv
<1> SUFFICES ASSUME Init PROVE StackInv
  OBVIOUS
<1>0. STP \in Nat /\ HLW \in Nat /\ HLW < STP /\ MaxParams \in Nat
  BY LayoutAssumption
<1>1. nstack = <<>> /\ DOMAIN nstack = {} /\ Waiting = {} /\ running = "native" /\ last = NoResult
      /\ amx.stk = STP /\ amx.paramcount = 0 /\ cpu.esi = HostReg /\ cpu.edi = HostReg
      /\ amx.error = "NONE"
  BY DEF Init, Waiting
<1>2. \A a \in Cell : mem[a] = Dead
  BY DEF Init, Cell
<1>3. \A a \in Cell : mem[a].kind # "frm"
  BY <1>2 DEF Dead
<1>4. last.error # "SLEEP"
  BY <1>1, WordAssumption DEF NoResult
<1>5. LayoutInv
  <2>1. amx.stk + amx.paramcount <= STP
    BY <1>0, <1>1
  <2>2. RegistersOK
    BY <1>1, <2>1 DEF RegistersOK
  <2>3. Layout(mem) /\ NoFrmBelow(mem, SP)
    BY <1>3 DEF Layout, NoFrmBelow
  <2>4. WaitingOK /\ Captured /\ SleeperOK
    BY <1>1, <1>4 DEF WaitingOK, Captured, SleeperOK
  <2> QED
    BY <2>2, <2>3, <2>4 DEF LayoutInv
<1>6. TypeOK
  <2>1. mem \in [HLW..(STP - 1) -> Cells]
    BY Words DEF Init
  <2>2. 0 \in 0..MaxParams /\ STP \in HLW..STP /\ HLW \in HLW..STP /\ "NONE" \in ErrorCodes
        /\ 0 \in Nat
    BY <1>0 DEF ErrorCodes
  <2> QED
    BY <2>1, <2>2, Words DEF Init, TypeOK, NoResult
<1>7. FrameTypes
  BY <1>1 DEF FrameTypes
<1> QED
  BY <1>1, <1>5, <1>6, <1>7, NativeInvInit DEF StackInv, TypeInv

LEMMA StackStep ==
  ASSUME StackInv, [Next]_vars, SleepEnabled => ~SleepAfterExec
  PROVE  TypeInv' /\ LayoutInv' /\ Untouched
<1>1. CASE UNCHANGED vars
  BY <1>1
  DEF vars, StackInv, TypeInv, LayoutInv, Untouched, TypeOK, FrameTypes, RegistersOK, SP,
      WaitingOK, Waiting, Limit, Captured, SleeperOK
<1>2. CASE Caller
  BY <1>2, RegisterKeeps, ParamKeeps, RefusalKeeps, PublicKeeps, ContKeeps DEF Caller
<1>3. CASE Instruction
  <2>1. CASE \E v \in Values : OpConst(v)
    BY <2>1, ConstKeeps
  <2>2. CASE OpPushPri \/ OpPopPri \/ OpRetn
    BY <2>2, PushPriKeeps, PopPriKeeps, RetnKeeps
  <2>3. CASE \E n \in {-1, 1}, v \in Values : OpStack(n, v)
    BY <2>3, StackKeeps
  <2>4. CASE \E n \in {-1, 1}, v \in Values : OpHeap(n, v)
    BY <2>4, HeapKeeps
  <2>5. CASE \E f \in Functions, s \in Sites, n \in 0..MaxParams : OpCall(f, s, n)
    BY <2>5, CallKeepsStack
  <2>6. CASE \E error \in HaltErrors, s \in Sites : OpHalt(error, s)
    BY <2>6, HaltKeeps
  <2>7. CASE \E s \in Sites : OpSysreq(s)
    BY <2>7, SysreqKeeps
  <2> QED
    BY <1>3, <2>1, <2>2, <2>3, <2>4, <2>5, <2>6, <2>7 DEF Instruction
<1>4. CASE Native
  <2>1. CASE \E v \in Values : SysreqCReturn(v) \/ SysreqDReturn(v)
    <3>1. PICK v \in Values : SysreqCReturn(v) \/ SysreqDReturn(v)
      BY <2>1
    <3>2. InNative /\ \E eax \in {v, Garbage} : ResumeScript(eax)
      BY <3>1 DEF SysreqCReturn, SysreqDReturn
    <3> QED
      BY <3>2, Words, ResumeKeepsStack
  <2>2. CASE \E error \in HaltErrors, v \in Values : NativeError(error, v)
    BY <2>2, ErrorKeeps
  <2> QED
    BY <1>4, <2>1, <2>2 DEF Native
<1>5. CASE ReturnToExec
  BY <1>5, ReturnKeeps
<1> QED
  BY <1>1, <1>2, <1>3, <1>4, <1>5 DEF Next

\* Frames, return addresses and stack pointers of all activations are where the
\* instructions and helpers look for them; this is what the others rest on.
THEOREM StackInvariant ==
  ASSUME SleepEnabled => ~SleepAfterExec
  PROVE  Spec => []StackInv
<1>1. StackInv /\ [Next]_vars => StackInv'
  BY StackStep, NativeInvStep DEF StackInv
<1> QED
  BY <1>1, StackInvInit, PTL DEF Spec

\* Every register, cell and frame keeps to its type; in particular the stack
\* pointers never leave the AMX stack, the unchecked pushes of ExecHelper included.
THEOREM TypesKept ==
  ASSUME SleepEnabled => ~SleepAfterExec
  PROVE  Spec => []TypeOK
<1>1. StackInv => TypeOK
  BY DEF StackInv, TypeInv
<1> QED
  BY <1>1, StackInvariant, PTL

\* Whatever the script has halted, suspended or called, RETN finds a return
\* address, a size and the FRM of an older function, and a running script has
\* its own frame under it.
THEOREM StackLayoutKept ==
  ASSUME SleepEnabled => ~SleepAfterExec
  PROVE  Spec => []StackLayoutOK
<1>1. StackInv => StackLayoutOK
  <2> SUFFICES ASSUME StackInv PROVE StackLayoutOK
    OBVIOUS
  <2>1. DOMAIN mem = Cell
    BY DEF StackInv, TypeInv, TypeOK, Cell
  <2>2. Layout(mem)
    BY DEF StackInv, LayoutInv
  <2>3. Script => cpu.esp <= cpu.ebp /\ cpu.ebp < STP /\ mem[cpu.ebp].kind = "frm"
    <3> HAVE Script
    <3>1. cpu.esp <= cpu.ebp /\ cpu.ebp \in HLW..(STP - 1) /\ mem[cpu.ebp].kind = "frm"
      BY ScriptRuns
    <3> QED
      BY <3>1, LayoutAssumption
  <2> QED
    BY <2>1, <2>2, <2>3 DEF StackLayoutOK, Layout, LinkOK
<1> QED
  BY <1>1, StackInvariant, PTL

\* While a native runs other scripts, nothing above the stack pointer of the
\* suspended script changes.
THEOREM SuspendedStackKept ==
  ASSUME SleepEnabled => ~SleepAfterExec
  PROVE  Spec => SuspendedStackIntact
<1> DEFINE Intact == \A i \in DOMAIN Suspended \cap DOMAIN Suspended' :
                       \A a \in DOMAIN mem : a >= Suspended[i].esp => mem'[a] = mem[a]
<1>1. StackInv /\ [Next]_vars => [Intact]_vars
  <2> SUFFICES ASSUME StackInv, [Next]_vars PROVE Intact
    OBVIOUS
  <2>1. Untouched
    BY StackStep
  <2>2. DOMAIN Suspended = Waiting /\ DOMAIN Suspended' = Waiting'
    BY SuspendedFrames, SuspendedFramesNext DEF Waiting
  <2>3. \A i \in Waiting : Suspended[i].esp = nstack[i].amx_esp
    <3> TAKE i \in Waiting
    <3>1. Suspended[i] = [ip |-> ReturnSite(i), esp |-> nstack[i].amx_esp,
                          ebp |-> nstack[i].amx_ebp, alt |-> nstack[i].alt]
      BY <2>2, SuspendedFrames
    <3> QED
      BY <3>1
  <2>4. DOMAIN mem = Cell
    BY DEF StackInv, TypeInv, TypeOK, Cell
  <2> QED
    BY <2>1, <2>2, <2>3, <2>4 DEF Untouched
<1> QED
  BY <1>1, StackInvariant, PTL DEF Spec, SuspendedStackIntact

\* A script put to sleep by its native finds, for AMX_EXEC_CONT, its return
\* address, its ALT and its stack registers in amx.
THEOREM SleepKeepsScript ==
  ASSUME SleepEnabled, ~SleepAfterExec
  PROVE  Spec => SleepCapturesScript
<1> DEFINE Captures ==
      (InNative /\ nstack' # nstack /\ last'.error = "SLEEP") =>
         LET native == nstack[cpu.esp]
         IN /\ amx'.cip = cpu.esi /\ amx'.alt = native.alt
            /\ amx'.stk = native.amx_esp /\ amx'.frm = native.amx_ebp
<1>1. StackInv /\ [Next]_vars => [Captures]_vars
  <2> SUFFICES ASSUME StackInv, Next, InNative, nstack' # nstack, last'.error = "SLEEP"
               PROVE  LET native == nstack[cpu.esp]
                      IN /\ amx'.cip = cpu.esi /\ amx'.alt = native.alt
                         /\ amx'.stk = native.amx_esp /\ amx'.frm = native.amx_ebp
    BY DEF vars
  <2>1. running = "native" /\ nstack # <<>> /\ amx.paramcount = 0
    BY DEF InNative
  <2>2. ~Instruction /\ ~ReturnToExec
    BY <2>1 DEF Instruction, ReturnToExec, Script, OpConst, OpPushPri, OpPopPri, OpStack, OpHeap,
                OpCall, OpRetn, OpHalt, OpSysreq
  <2>3. ~Caller /\ \A v \in Values : ~SysreqCReturn(v) /\ ~SysreqDReturn(v)
    <3>1. last' # NoResult
      BY WordAssumption DEF NoResult
    <3>2. ~RegisterNatives /\ \A v \in Values : ~PushParam(v)
      BY DEF RegisterNatives, PushParam
    <3>3. \A b \in BOOLEAN : ~ExecRefused(b)
      BY DEF ExecRefused
    <3>4. ~ExecCont /\ \A f \in Functions : ~ExecPublic(f)
      BY <3>1 DEF ExecPublic, ExecCont
    <3>5. \A v \in Values : ~SysreqCReturn(v) /\ ~SysreqDReturn(v)
      BY <3>1 DEF SysreqCReturn, SysreqDReturn, ResumeScript
    <3> QED
      BY <3>2, <3>3, <3>4, <3>5 DEF Caller
  <2>4. PICK error \in HaltErrors, v \in Values : NativeError(error, v)
    BY <2>2, <2>3 DEF Next, Native
  <2> DEFINE native == nstack[cpu.esp]
             raised == [amx EXCEPT !.error = error]
             asleep == [[raised EXCEPT !.pri = v, !.alt = native.alt]
                          EXCEPT !.reset_stk = rib.reset_stk, !.reset_hea = rib.reset_hea]
  <2>5. error = "SLEEP"
    BY <2>4, SleepEnabled DEF NativeError, HaltHelper, LeaveExec
  <2>6. LeaveExec(asleep, v) /\ last = NoResult
    BY <2>4, <2>5 DEF NativeError, SleepSave
  <2>7. cpu.esp = Len(nstack)
    BY <2>1 DEF StackInv, NativeInv, NativeStackOK, CallerEbpOK
  <2>8. amx.frm = native.amx_ebp /\ amx.stk + amx.paramcount = native.amx_esp
        /\ amx.cip = cpu.esi
    BY <2>1, <2>6, <2>7 DEF StackInv, LayoutInv, Captured
  <2>9. amx.stk = native.amx_esp
    BY <2>1, <2>8, Typed, LayoutAssumption
  <2>10. amx \in AMXStates
    BY DEF StackInv, TypeInv, TypeOK, AMXStates
  <2> HIDE DEF native
  <2>11. amx'.cip = amx.cip /\ amx'.alt = native.alt /\ amx'.stk = amx.stk /\ amx'.frm = amx.frm
    BY <2>6, <2>10 DEF LeaveExec, AMXStates
  <2> QED
    BY <2>8, <2>9, <2>11 DEF native
<1> QED
  BY <1>1, StackInvariant, PTL DEF Spec, SleepCapturesScript


-----------------------------------------------------------------------------
(* The server's registers, with any options. *)

\* What the outermost Exec and ExecHelper saved.
OutermostFrames ==
  \A i \in DOMAIN nstack :
    /\ i = 1 => nstack[i].esi = HostReg
    /\ i = 2 => nstack[i].edi = HostReg

HostInv ==
  /\ NativeInv /\ OutermostFrames
  /\ nstack = <<>> => cpu.esi = HostReg /\ cpu.edi = HostReg

LEMMA HostInvInit == Init => HostInv
<1> SUFFICES ASSUME Init PROVE HostInv
  OBVIOUS
<1>1. nstack = <<>> /\ DOMAIN nstack = {} /\ cpu.esi = HostReg /\ cpu.edi = HostReg
  BY DEF Init
<1> QED
  BY <1>1, NativeInvInit DEF HostInv, OutermostFrames

LEMMA HostInvStep == HostInv /\ [Next]_vars => HostInv'
<1> SUFFICES ASSUME HostInv, [Next]_vars PROVE HostInv'
  OBVIOUS
<1>0. NativeInv /\ NativeInv'
  BY NativeInvStep DEF HostInv
<1>1. CASE Enters
  <2>1. PICK reset : /\ reset = rib \/ (SleepEnabled /\ reset = ResetGarbage)
                     /\ nstack' = nstack \o <<ExecFrame(reset), HelperFrame>>
    BY <1>1 DEF Enters
  <2>2. Keeps /\ nstack' # <<>>
    BY <1>0, <2>1, EnterFrames
  <2>3. PICK n \in Nat : /\ n = Len(nstack) /\ DOMAIN nstack = 1..n /\ DOMAIN nstack' = 1..(n + 2)
                         /\ nstack'[n + 1] = ExecFrame(reset) /\ nstack'[n + 2] = HelperFrame
    BY <1>0, <2>1, EnterFrames
  <2>4. n = 0 <=> nstack = <<>>
    BY <1>0, <2>3, PileShape
  <2>5. ExecFrame(reset).esi = cpu.esi /\ HelperFrame.edi = cpu.edi
    BY DEF ExecFrame, HelperFrame
  <2>6. \A i \in 1..(n + 2) : /\ i = 1 => i \in 1..n \/ (n = 0 /\ i = n + 1)
                              /\ i = 2 => i \in 1..n \/ (n = 0 /\ i = n + 2)
    <3> TAKE i \in 1..(n + 2)
    <3>1. n = 0 \/ n = 1 \/ n >= 2
      OBVIOUS
    <3>2. n # 1
      BY <1>0, <2>3, PileShape DEF Enters, NativeInv, NativeStackOK, TopOK
    <3> QED
      BY <3>1, <3>2
  <2>7. OutermostFrames'
    <3> SUFFICES ASSUME NEW i \in 1..(n + 2)
                 PROVE  /\ i = 1 => nstack'[i].esi = HostReg
                        /\ i = 2 => nstack'[i].edi = HostReg
      BY <2>3 DEF OutermostFrames
    <3>1. CASE i \in 1..n
      BY <2>2, <2>3, <3>1 DEF HostInv, OutermostFrames, Keeps
    <3>2. CASE n = 0
      BY <2>1, <2>3, <2>4, <2>5, <2>6, <3>2 DEF HostInv
    <3> QED
      BY <2>6, <3>1, <3>2
  <2> QED
    BY <1>0, <2>2, <2>7 DEF HostInv
<1>2. CASE CallsNative
  <2>1. Keeps /\ nstack' # <<>>
    BY <1>0, <1>2, CallFrames
  <2>2. PICK n \in Nat : /\ n = Len(nstack) /\ DOMAIN nstack = 1..n /\ DOMAIN nstack' = 1..(n + 1)
    BY <1>0, <1>2, CallFrames
  <2>3. n >= 2
    BY <1>0, <1>2, <2>2, PileShape DEF CallsNative
  <2>4. \A i \in 1..(n + 1) : i = 1 \/ i = 2 => i \in 1..n
    BY <2>3
  <2>5. OutermostFrames'
    BY <2>1, <2>2, <2>4 DEF HostInv, OutermostFrames, Keeps
  <2> QED
    BY <1>0, <2>1, <2>5 DEF HostInv
<1>3. CASE Resumes
  <2>1. Keeps /\ DOMAIN nstack' \subseteq DOMAIN nstack
    BY <1>0, <1>3, ResumeFrames
  <2>2. nstack' # <<>>
    BY <1>0, <1>3 DEF Resumes, NativeInv, NativeStackOK, TopOK
  <2> QED
    BY <1>0, <2>1, <2>2 DEF HostInv, OutermostFrames, Keeps
<1>4. CASE LeavesScript
  <2>1. Keeps /\ DOMAIN nstack' \subseteq DOMAIN nstack
    BY <1>0, <1>4, LeaveFrames
  <2>2. PICK m \in 0..Len(nstack) :
              rib.ebp = m + 1 /\ rib.esp = m + 2 /\ m + 2 \in DOMAIN nstack
              /\ (nstack' = <<>> <=> m = 0)
    BY <1>0, <1>4, LeaveFrames
  <2>3. OutermostFrames'
    BY <2>1 DEF HostInv, OutermostFrames, Keeps
  <2>4. nstack' = <<>> => cpu'.esi = HostReg /\ cpu'.edi = HostReg
    <3> HAVE nstack' = <<>>
    <3>1. rib.ebp = 1 /\ rib.esp = 2 /\ rib.esp - 1 = 1 /\ 1 \in DOMAIN nstack /\ 2 \in DOMAIN nstack
      BY <1>0, <2>2, PileShape
    <3>2. nstack[1].esi = HostReg /\ nstack[2].edi = HostReg
      BY <3>1 DEF HostInv, OutermostFrames
    <3>3. cpu'.esi = nstack[1].esi /\ cpu'.edi = nstack[2].edi
      BY <1>4, <3>1 DEF LeavesScript
    <3> QED
      BY <3>2, <3>3
  <2> QED
    BY <1>0, <2>3, <2>4 DEF HostInv
<1>5. CASE Stays
  <2>1. nstack = <<>> => running = "native"
    BY <1>0 DEF NativeInv, NativeStackOK, TopOK
  <2> QED
    BY <1>0, <1>5, <2>1 DEF HostInv, OutermostFrames, Stays
<1> QED
  BY <1>0, <1>1, <1>2, <1>3, <1>4, <1>5, StepKinds

\* The outermost frames keep what the server had in ESI and EDI.
THEOREM HostInvariant == Spec => []HostInv
<1> QED
  BY HostInvInit, HostInvStep, PTL DEF Spec

\* The cdecl contract: when the outermost Exec has returned, whatever ran in it
\* and however it ended, ESI and EDI are the server's again.
THEOREM HostRegistersSurvive == Spec => []HostRegistersKept
<1>1. HostInv => HostRegistersKept
  BY DEF HostInv, HostRegistersKept
<1> QED
  BY <1>1, HostInvariant, PTL
-----------------------------------------------------------------------------
(* A public that returns leaves the AMX stack, and without sleep support the *)
(* frame pointer, as its caller had them.                                    *)

\* The function whose frame is at c was called by ExecHelper, which noted rstk
\* and rebp on entry; a function with these registers is it or was called by it.
BaseAt(m, c, esp, ebp, rstk, rebp) ==
  /\ ebp <= c /\ m[c].kind = "frm" /\ m[c + 1].val = CallReturn
  /\ c + 3 + m[c + 2].val = rstk \/ (SleepEnabled /\ rstk = Garbage)
  /\ SleepEnabled \/ m[c].val = rebp
  /\ \A a \in Cell : esp <= a /\ a < c /\ m[a].kind = "frm" =>
       m[a + 1].val # CallReturn /\ m[a].val <= c

Base(m, esp, ebp, rstk, rebp) == \E c \in Cell : BaseAt(m, c, esp, ebp, rstk, rebp)

\* The reset_* words of the activation of the script that waits at frame i.
ResetOf(i) == IF i = Len(nstack) THEN rib ELSE nstack[i + 1]

\* A script that runs, or one that has just returned to ExecHelper, ...
RunnerBased ==
  running = "amx" =>
    IF cpu.ip = CallReturn
    THEN /\ cpu.esp = rib.reset_stk \/ (SleepEnabled /\ rib.reset_stk = Garbage)
         /\ SleepEnabled \/ cpu.ebp = rib.reset_ebp
    ELSE Base(mem, cpu.esp, cpu.ebp, rib.reset_stk, rib.reset_ebp)

\* ... those that wait for a native, and the one that sleeps.
WaitersBased ==
  \A i \in Waiting :
    Base(mem, nstack[i].amx_esp, nstack[i].amx_ebp, ResetOf(i).reset_stk, ResetOf(i).reset_ebp)
SleeperBased ==
  (SleepEnabled /\ last.error = "SLEEP") => Base(mem, amx.stk, amx.frm, amx.reset_stk, Null)

BaseInv == RunnerBased /\ WaitersBased /\ SleeperBased

-----------------------------------------------------------------------------
(* What keeps the frame of the public where it is. *)

\* Cells from t on are kept and no frame is left below t.
LEMMA BaseKept ==
  ASSUME NEW m, NEW n, NEW t \in Int, NEW c \in Cell, NEW esp \in Int, NEW esp2 \in Int,
         NEW ebp, NEW ebp2, NEW rstk, NEW rebp,
         Layout(m), BaseAt(m, c, esp, ebp, rstk, rebp),
         \A a \in Cell : a >= t => n[a] = m[a],
         \A a \in Cell : esp2 <= a /\ a < t => n[a].kind # "frm",
         esp <= t, t <= c, ebp2 <= c
  PROVE  BaseAt(n, c, esp2, ebp2, rstk, rebp)
<1>0. STP \in Nat /\ HLW \in Nat /\ c \in Int
  BY LayoutAssumption DEF Cell
<1>1. ASSUME NEW a \in Cell, a >= t, m[a].kind = "frm"
      PROVE  n[a] = m[a] /\ n[a + 1] = m[a + 1] /\ n[a + 2] = m[a + 2]
  <2>1. a + 2 < STP /\ a \in Int
    BY <1>0, <1>1 DEF Layout, LinkOK, Cell
  <2>2. a + 1 \in Cell /\ a + 2 \in Cell /\ a + 1 >= t /\ a + 2 >= t
    BY <1>0, <1>1, <2>1 DEF Cell
  <2> QED
    BY <1>1, <2>2
<1>2. n[c] = m[c] /\ n[c + 1] = m[c + 1] /\ n[c + 2] = m[c + 2]
  BY <1>0, <1>1 DEF BaseAt
<1>3. ASSUME NEW a \in Cell, esp2 <= a, a < c, n[a].kind = "frm"
      PROVE  n[a + 1].val # CallReturn /\ n[a].val <= c
  <2>1. a >= t /\ a \in Int
    BY <1>0, <1>3 DEF Cell
  <2>2. n[a] = m[a] /\ n[a + 1] = m[a + 1] /\ esp <= a
    BY <1>1, <1>3, <2>1
  <2> QED
    BY <1>3, <2>2 DEF BaseAt
<1> QED
  BY <1>2, <1>3 DEF BaseAt

\* The script that calls a function keeps its public.
LEMMA BaseCalls ==
  ASSUME NEW m, NEW n, NEW p \in Int, NEW k \in Nat, NEW s, s # CallReturn, NEW ebp \in Int,
         NEW c \in Cell, NEW rstk, NEW rebp,
         Layout(m), BaseAt(m, c, p, ebp, rstk, rebp), p <= ebp, p - 3 >= HLW,
         Pushed(m, n, p, k, s, ebp)
  PROVE  BaseAt(n, c, p - 3, p - 3, rstk, rebp)
<1>0. STP \in Nat /\ HLW \in Nat /\ c \in Int /\ ebp <= c
  BY LayoutAssumption DEF Cell, BaseAt
<1>1. ASSUME NEW a \in Cell, a >= p, m[a].kind = "frm"
      PROVE  n[a] = m[a] /\ n[a + 1] = m[a + 1] /\ n[a + 2] = m[a + 2]
  <2>1. a + 2 < STP /\ a \in Int
    BY <1>0, <1>1 DEF Layout, LinkOK, Cell
  <2>2. a + 1 \in Cell /\ a + 2 \in Cell
    BY <1>0, <1>1, <2>1 DEF Cell
  <2> QED
    BY <1>1, <2>1, <2>2 DEF Pushed
<1>2. n[c] = m[c] /\ n[c + 1] = m[c + 1] /\ n[c + 2] = m[c + 2]
  BY <1>0, <1>1 DEF BaseAt
<1>3. ASSUME NEW a \in Cell, p - 3 <= a, a < c, n[a].kind = "frm"
      PROVE  n[a + 1].val # CallReturn /\ n[a].val <= c
  <2>1. CASE a >= p
    <3>1. n[a] = m[a] /\ a \in Int
      BY <1>0, <1>3, <2>1 DEF Pushed, Cell
    <3>2. n[a + 1] = m[a + 1] /\ m[a].kind = "frm"
      BY <1>1, <1>3, <2>1, <3>1
    <3> QED
      BY <1>3, <2>1, <3>1, <3>2 DEF BaseAt
  <2>2. CASE a < p
    <3>1. a = p - 1 \/ a = p - 2 \/ a = p - 3
      BY <1>0, <1>3, <2>2 DEF Cell
    <3>2. p - 1 \in Cell /\ p - 2 \in Cell /\ p - 3 \in Cell
      BY <1>0 DEF Cell
    <3>3. n[p - 1].kind = "size" /\ n[p - 2] = Ret(s) /\ n[p - 3] = Frm(ebp)
      BY <3>2 DEF Pushed, Size
    <3>4. a = p - 3 /\ a + 1 = p - 2
      BY <1>3, <3>1, <3>3 DEF Ret
    <3> QED
      BY <1>0, <3>3, <3>4 DEF Ret, Frm
  <2> QED
    BY <1>0, <2>1, <2>2 DEF Cell
<1> QED
  BY <1>0, <1>2, <1>3 DEF BaseAt

\* The public that ExecHelper calls.
LEMMA BaseEnters ==
  ASSUME NEW n, NEW p \in Int, NEW k \in Nat, NEW link, NEW rstk, p - 3 \in Cell,
         n[p - 3] = Frm(link), n[p - 2] = Ret(CallReturn), n[p - 1] = Size(k), rstk = p + k
  PROVE  Base(n, p - 3, p - 3, rstk, link)
<1> DEFINE c == p - 3
<1>1. c + 1 = p - 2 /\ c + 2 = p - 1 /\ c \in Int
  OBVIOUS
<1>2. n[c].kind = "frm" /\ n[c].val = link /\ n[c + 1].val = CallReturn /\ n[c + 2].val = k
  BY <1>1 DEF Frm, Ret, Size
<1>3. c + 3 + k = rstk
  OBVIOUS
<1>4. \A a \in Cell : ~(c <= a /\ a < c)
  BY <1>1, LayoutAssumption DEF Cell
<1> QED
  BY <1>1, <1>2, <1>3, <1>4 DEF Base, BaseAt

-----------------------------------------------------------------------------
(* The scripts that wait. *)

\* The reset_* words of a script that goes on waiting are kept, or lost by
\* AMX_EXEC_CONT.
LEMMA ResetKept ==
  ASSUME NativeInv, [Next]_vars, NEW i \in Waiting, i \in Waiting'
  PROVE  /\ nstack'[i] = nstack[i]
         /\ \/ /\ ResetOf(i)'.reset_stk = ResetOf(i).reset_stk
               /\ ResetOf(i)'.reset_ebp = ResetOf(i).reset_ebp
            \/ SleepEnabled /\ ResetOf(i)'.reset_stk = Garbage
<1>0. PICK n \in Nat : n = Len(nstack) /\ DOMAIN nstack = 1..n
  BY PileShape
<1>1. i \in 1..n /\ nstack[i].kind = "native" /\ i \in DOMAIN nstack'
  BY <1>0 DEF Waiting
<1>2. CASE Enters
  <2>1. PICK reset : /\ reset = rib \/ (SleepEnabled /\ reset = ResetGarbage)
                     /\ nstack' = nstack \o <<ExecFrame(reset), HelperFrame>>
    BY <1>2 DEF Enters
  <2>2. Keeps /\ Len(nstack') = n + 2 /\ nstack'[n + 1] = ExecFrame(reset)
        /\ DOMAIN nstack' = 1..(n + 2)
    BY <1>0, <2>1, EnterFrames
  <2>3. nstack'[i] = nstack[i]
    BY <1>0, <1>1, <2>2 DEF Keeps
  <2>4. i # n + 2 /\ (i # n => i + 1 \in 1..n /\ i + 1 \in 1..(n + 2))
    BY <1>1
  <2>5. ResetOf(i)' = nstack'[i + 1]
    BY <2>2, <2>4 DEF ResetOf
  <2>6. CASE i = n
    <3>1. ResetOf(i) = rib /\ ResetOf(i)' = ExecFrame(reset)
      BY <1>0, <2>2, <2>5, <2>6 DEF ResetOf
    <3>2. ExecFrame(reset).reset_stk = reset.reset_stk
          /\ ExecFrame(reset).reset_ebp = reset.reset_ebp
      BY DEF ExecFrame
    <3>3. ResetGarbage.reset_stk = Garbage
      BY DEF ResetGarbage
    <3> QED
      BY <2>1, <2>3, <3>1, <3>2, <3>3
  <2>7. CASE i # n
    <3>1. ResetOf(i) = nstack[i + 1] /\ nstack'[i + 1] = nstack[i + 1]
      BY <1>0, <2>2, <2>4, <2>7 DEF ResetOf, Keeps
    <3> QED
      BY <2>3, <2>5, <3>1
  <2> QED
    BY <2>6, <2>7
<1>3. CASE CallsNative
  <2>1. Keeps /\ Len(nstack') = n + 1 /\ DOMAIN nstack' = 1..(n + 1)
    BY <1>0, <1>3, CallFrames
  <2>2. n # i /\ n + 1 # i /\ i + 1 \in 1..n /\ i + 1 \in 1..(n + 1)
    <3>1. nstack[n].kind = "helper"
      BY <1>0, <1>1, <1>3 DEF NativeInv, NativeStackOK, TopOK, CallsNative
    <3> QED
      BY <1>1, <3>1
  <2> QED
    BY <1>0, <1>1, <2>1, <2>2 DEF ResetOf, Keeps
<1>4. CASE Resumes
  <2>1. Keeps /\ i < n /\ i + 1 \in DOMAIN nstack' /\ i # Len(nstack')
        /\ DOMAIN nstack' \subseteq DOMAIN nstack
    BY <1>0, <1>4, ResumeFrames
  <2> QED
    BY <1>0, <1>1, <2>1 DEF ResetOf, Keeps
<1>5. CASE LeavesScript
  <2>1. Keeps /\ DOMAIN nstack' \subseteq DOMAIN nstack
    BY <1>5, LeaveFrames
  <2>2. PICK m \in 0..n : /\ rib.ebp = m + 1 /\ m + 2 \in DOMAIN nstack
                          /\ Len(nstack') = m /\ DOMAIN nstack' = 1..m
    BY <1>0, <1>5, LeaveFrames
  <2>3. i <= m /\ i # n /\ m + 2 <= n
    BY <1>0, <1>1, <2>2
  <2>4. ResetOf(i) = nstack[i + 1] /\ nstack'[i] = nstack[i]
    BY <1>0, <1>1, <2>1, <2>3 DEF ResetOf, Keeps
  <2>5. CASE i = m
    BY <1>5, <2>2, <2>4, <2>5 DEF ResetOf, LeavesScript
  <2>6. CASE i # m
    <3>1. i + 1 \in 1..m
      BY <1>1, <2>3, <2>6
    <3> QED
      BY <2>1, <2>2, <2>4, <2>6, <3>1 DEF ResetOf, Keeps
  <2> QED
    BY <2>5, <2>6
<1>6. CASE Stays
  BY <1>6 DEF Stays, ResetOf
<1> QED
  BY <1>2, <1>3, <1>4, <1>5, <1>6, StepKinds

\* Words that changed as ResetKept says serve as well.
LEMMA BaseWords ==
  ASSUME NEW m, NEW esp, NEW ebp, NEW r, NEW r2, NEW b, NEW b2, Base(m, esp, ebp, r, b),
         (r2 = r /\ b2 = b) \/ (SleepEnabled /\ r2 = Garbage)
  PROVE  Base(m, esp, ebp, r2, b2)
BY DEF Base, BaseAt

LEMMA WaitersKept ==
  ASSUME StackInv, WaitersBased, [Next]_vars, Untouched,
         NEW i \in Waiting, i \in Waiting'
  PROVE  Base(mem', nstack'[i].amx_esp, nstack'[i].amx_ebp,
              ResetOf(i)'.reset_stk, ResetOf(i)'.reset_ebp)
<1> DEFINE t == nstack[i].amx_esp
           b == nstack[i].amx_ebp
           r == ResetOf(i).reset_stk
           w == ResetOf(i).reset_ebp
<1>1. Layout(mem) /\ Context(mem, t, b) /\ t \in Int /\ b \in Int /\ t <= b
  BY Typed, LayoutAssumption DEF StackInv, LayoutInv, WaitingOK, Context, Cell
<1>2. PICK c \in Cell : BaseAt(mem, c, t, b, r, w)
  BY DEF WaitersBased, Base
<1>3. \A a \in Cell : a >= t => mem'[a] = mem[a]
  BY DEF Untouched
<1> HIDE DEF t, b, r, w
<1>4. \A a \in Cell : ~(t <= a /\ a < t)
  BY <1>1, LayoutAssumption DEF Cell
<1>5. b <= c /\ t <= c
  BY <1>1, <1>2, LayoutAssumption DEF BaseAt, Cell
<1>6. BaseAt(mem', c, t, b, r, w)
  BY <1>1, <1>2, <1>3, <1>4, <1>5, BaseKept
<1>7. Base(mem', t, b, r, w)
  BY <1>6 DEF Base
<1>8. /\ nstack'[i] = nstack[i]
      /\ (ResetOf(i)'.reset_stk = r /\ ResetOf(i)'.reset_ebp = w)
           \/ (SleepEnabled /\ ResetOf(i)'.reset_stk = Garbage)
  BY ResetKept DEF StackInv, r, w
<1>9. Base(mem', t, b, ResetOf(i)'.reset_stk, ResetOf(i)'.reset_ebp)
  BY <1>7, <1>8, BaseWords
<1> QED
  BY <1>8, <1>9 DEF t, b

\* Who starts to wait is the script that ran.
LEMMA WaitersStep ==
  ASSUME StackInv, BaseInv, [Next]_vars, Untouched,
         CallsNative => Script /\ mem' = mem
  PROVE  WaitersBased'
<1> SUFFICES ASSUME NEW i \in Waiting'
             PROVE  Base(mem', nstack'[i].amx_esp, nstack'[i].amx_ebp,
                         ResetOf(i)'.reset_stk, ResetOf(i)'.reset_ebp)
  BY DEF WaitersBased
<1>1. CASE i \in Waiting
  BY <1>1, WaitersKept DEF BaseInv
<1>2. CASE i \notin Waiting
  <2>1. NativeInv
    BY DEF StackInv
  <2>2. CallsNative
    <3>1. Enters => Waiting' = Waiting
      BY <2>1, EnterFrames DEF Enters
    <3>2. Resumes => Waiting' \subseteq Waiting
      BY <2>1, ResumeFrames
    <3>3. LeavesScript => Waiting' \subseteq Waiting
      BY <2>1, LeaveFrames
    <3>4. Stays => Waiting' = Waiting
      BY DEF Stays, Waiting
    <3> QED
      BY <1>2, <2>1, <3>1, <3>2, <3>3, <3>4, StepKinds
  <2>3. PICK n \in Nat : /\ Len(nstack') = n + 1 /\ nstack'[n + 1] = NativeFrame
                         /\ Waiting' = Waiting \cup {n + 1}
    BY <2>1, <2>2, CallFrames
  <2>4. i = n + 1 /\ nstack'[i] = NativeFrame /\ ResetOf(i)' = rib'
    BY <1>2, <2>3 DEF ResetOf
  <2>5. NativeFrame.amx_esp = cpu.esp /\ NativeFrame.amx_ebp = cpu.ebp
    BY DEF NativeFrame
  <2>6. Base(mem, cpu.esp, cpu.ebp, rib.reset_stk, rib.reset_ebp) /\ mem' = mem
    BY <2>2 DEF BaseInv, RunnerBased, Script
  <2>7. rib'.reset_stk = rib.reset_stk /\ rib'.reset_ebp = rib.reset_ebp
    BY <2>2 DEF CallsNative
  <2> QED
    BY <2>4, <2>5, <2>6, <2>7, Zenon
<1> QED
  BY <1>1, <1>2

-----------------------------------------------------------------------------
(* The script that runs. *)

\* Frames are kept above t while the script that was and the one that is going
\* on have the same public.
LEMMA BaseCut ==
  ASSUME NEW m, NEW n, NEW t \in Int, NEW esp \in Int, NEW esp2 \in Int, NEW ebp \in Int, NEW r, NEW b,
         Layout(m), Base(m, esp, ebp, r, b), CutAt(m, n, t), esp <= t, t <= ebp
  PROVE  Base(n, esp2, ebp, r, b)
<1>1. PICK c \in Cell : BaseAt(m, c, esp, ebp, r, b)
  BY DEF Base
<1>2. c \in Int /\ ebp <= c /\ t <= c
  BY <1>1, LayoutAssumption DEF BaseAt, Cell
<1>3. /\ \A a \in Cell : a >= t => n[a] = m[a]
      /\ \A a \in Cell : esp2 <= a /\ a < t => n[a].kind # "frm"
  BY LayoutAssumption DEF CutAt, Cell
<1>4. BaseAt(n, c, esp2, ebp, r, b)
  BY <1>1, <1>2, <1>3, BaseKept
<1> QED
  BY <1>4 DEF Base

LEMMA WorkBase ==
  ASSUME StackInv, BaseInv, NEW t \in Int, Works(t)
  PROVE  RunnerBased'
<1>1. Script /\ rib' = rib /\ cpu'.ip = cpu.ip /\ cpu'.ebp = cpu.ebp
      /\ cpu'.esp \in Int /\ cpu.esp \in Int /\ cpu.ebp \in Int /\ cpu.esp <= t /\ t <= cpu.ebp
      /\ CutAt(mem, mem', t) /\ running' = running
  BY Typed DEF Works, Script
<1>2. Layout(mem) /\ Base(mem, cpu.esp, cpu.ebp, rib.reset_stk, rib.reset_ebp)
  BY <1>1 DEF StackInv, LayoutInv, BaseInv, RunnerBased, Script
<1>3. Base(mem', cpu'.esp, cpu.ebp, rib.reset_stk, rib.reset_ebp)
  BY <1>1, <1>2, BaseCut
<1> QED
  BY <1>1, <1>3 DEF RunnerBased, Script

LEMMA CallBase ==
  ASSUME StackInv, BaseInv, NEW f \in Functions, NEW s \in Sites, NEW n \in 0..MaxParams,
         OpCall(f, s, n)
  PROVE  RunnerBased'
<1>1. CallsFunction(cpu.esp, n, s, cpu.ebp) /\ Script /\ rib' = rib /\ n \in Nat
  <2>1. CallsFunction(cpu.esp, n, s, cpu.ebp)
    BY CallKeepsStack
  <2> QED
    BY <2>1, LayoutAssumption DEF OpCall
<1>2. /\ cpu.esp \in Int /\ cpu.ebp \in Int /\ cpu.esp <= cpu.ebp /\ s # CallReturn /\ Layout(mem)
  BY <1>1, ScriptRuns, Typed, WordAssumption DEF StackInv, LayoutInv
<1>3. PICK c \in Cell : BaseAt(mem, c, cpu.esp, cpu.ebp, rib.reset_stk, rib.reset_ebp)
  BY <1>1 DEF BaseInv, RunnerBased, Script, Base
<1>4. BaseAt(mem', c, cpu.esp - 3, cpu.esp - 3, rib.reset_stk, rib.reset_ebp)
  BY <1>1, <1>2, <1>3, BaseCalls DEF CallsFunction
<1>5. Base(mem', cpu'.esp, cpu'.ebp, rib.reset_stk, rib.reset_ebp) /\ cpu'.ip # CallReturn
  BY <1>1, <1>4 DEF CallsFunction, Base
<1> QED
  BY <1>1, <1>5 DEF RunnerBased

LEMMA RetnBase ==
  ASSUME StackInv, BaseInv, OpRetn
  PROVE  RunnerBased'
<1> DEFINE p == cpu.esp
           sp == p + 3 + mem[p + 2].val
           r == rib.reset_stk
           b == rib.reset_ebp
<1>0. STP \in Nat /\ HLW \in Nat
  BY LayoutAssumption
<1>1. Returns(p, sp) /\ Script /\ rib' = rib /\ cpu.ebp = p
  BY RetnKeeps DEF OpRetn
<1>2. /\ p \in Cell /\ p \in Int /\ mem[p].kind = "frm" /\ LinkOK(mem, p) /\ Layout(mem)
  BY <1>1, ScriptRuns DEF StackInv, LayoutInv, Cell
<1>3. PICK c \in Cell : BaseAt(mem, c, p, p, r, b)
  <2>1. Base(mem, cpu.esp, cpu.ebp, r, b)
    BY <1>1 DEF BaseInv, RunnerBased, Script
  <2> QED
    BY <1>1, <2>1 DEF Base
<1>4. p <= c /\ c \in Int /\ sp \in Int
  BY <1>0, <1>1, <1>3 DEF BaseAt, Cell, Returns
<1>5. CASE p = c
  <2>1. mem[p + 1].val = CallReturn /\ (sp = r \/ (SleepEnabled /\ r = Garbage))
        /\ (SleepEnabled \/ mem[p].val = b)
    BY <1>3, <1>5 DEF BaseAt
  <2>2. cpu'.ip = CallReturn /\ cpu'.esp = sp /\ cpu'.ebp = mem[p].val
    BY <1>1, <2>1 DEF Returns
  <2> QED
    BY <1>1, <2>1, <2>2 DEF RunnerBased
<1>6. CASE p < c
  <2>1. mem[p + 1].val # CallReturn /\ mem[p].val <= c
    BY <1>2, <1>3, <1>4, <1>6 DEF BaseAt
  <2>2. mem[p].val \in sp..(STP - 1)
    BY <1>2, <2>1 DEF LinkOK
  <2>3. cpu'.ip # CallReturn /\ cpu'.esp = sp /\ cpu'.ebp = mem[p].val
        /\ CutAt(mem, mem', sp) /\ p < sp
    BY <1>1, <2>1 DEF Returns
  <2> HIDE DEF p, sp, r, b
  <2>4. sp <= c
    BY <1>0, <1>4, <2>1, <2>2
  <2>5. /\ \A a \in Cell : a >= sp => mem'[a] = mem[a]
        /\ \A a \in Cell : sp <= a /\ a < sp => mem'[a].kind # "frm"
    BY <1>0, <1>4, <2>3 DEF CutAt, Cell
  <2>6. BaseAt(mem', c, sp, mem[p].val, r, b)
    BY <1>2, <1>3, <1>4, <2>1, <2>3, <2>4, <2>5, BaseKept
  <2>7. Base(mem', cpu'.esp, cpu'.ebp, rib.reset_stk, rib.reset_ebp)
    BY <2>3, <2>6 DEF Base, r, b
  <2> QED
    BY <1>1, <2>3, <2>7 DEF RunnerBased
<1> QED
  BY <1>2, <1>4, <1>5, <1>6

LEMMA PublicBase ==
  ASSUME StackInv, NEW f \in Functions, ExecPublic(f)
  PROVE  RunnerBased'
<1> DEFINE p == amx.stk
           k == amx.paramcount
<1>0. STP \in Nat /\ HLW \in Nat /\ p \in Int /\ k \in Nat
  BY LayoutAssumption, Typed
<1>1. CallsFunction(p, k, CallReturn, amx.frm)
  BY PublicKeeps
<1>2. /\ p - 3 \in Cell /\ mem'[p - 3] = Frm(amx.frm) /\ mem'[p - 2] = Ret(CallReturn)
      /\ mem'[p - 1] = Size(k) /\ cpu'.ip # CallReturn /\ cpu'.esp = p - 3 /\ cpu'.ebp = p - 3
  BY <1>0, <1>1 DEF CallsFunction, Cell
<1>3. rib'.reset_stk = p + k /\ rib'.reset_ebp = amx.frm
  BY DEF ExecPublic
<1> HIDE DEF p, k
<1>4. Base(mem', p - 3, p - 3, rib'.reset_stk, amx.frm)
  BY <1>0, <1>2, <1>3, BaseEnters
<1> QED
  BY <1>2, <1>3, <1>4 DEF RunnerBased

LEMMA ContBase ==
  ASSUME StackInv, BaseInv, ExecCont
  PROVE  RunnerBased'
<1>1. /\ SleepEnabled /\ last.error = "SLEEP" /\ mem' = mem
      /\ rib'.reset_stk = amx.reset_stk
  BY DEF ExecCont
<1>2. cpu'.esp = amx.stk /\ cpu'.ebp = amx.frm /\ cpu'.ip = amx.cip
  BY DEF ExecCont, StackInv, TypeInv, TypeOK
<1>3. Base(mem, amx.stk, amx.frm, amx.reset_stk, Null)
  BY <1>1 DEF BaseInv, SleeperBased
<1>4. Base(mem, amx.stk, amx.frm, amx.reset_stk, rib'.reset_ebp)
  BY <1>1, <1>3 DEF Base, BaseAt
<1>5. amx.cip # CallReturn
  BY <1>1, WordAssumption DEF StackInv, LayoutInv, SleeperOK
<1> QED
  BY <1>1, <1>2, <1>4, <1>5 DEF RunnerBased

\* The innermost of those that wait, with the reset_* words of rib.
LEMMA NativeBase ==
  ASSUME StackInv, BaseInv, InNative
  PROVE  LET native == nstack[cpu.esp]
         IN /\ Base(mem, native.amx_esp, native.amx_ebp, rib.reset_stk, rib.reset_ebp)
            /\ native.amx_esp \in Int /\ native.amx_ebp \in Int
            /\ native.amx_esp <= native.amx_ebp /\ cpu.esi \in Sites
<1> DEFINE i == cpu.esp
<1>1. i = Len(nstack) /\ i \in Waiting
  BY PileShape DEF InNative, StackInv, NativeInv, NativeStackOK, TopOK, CallerEbpOK, Waiting
<1>2. ResetOf(i) = rib
  BY <1>1 DEF ResetOf
<1>3. Base(mem, nstack[i].amx_esp, nstack[i].amx_ebp, rib.reset_stk, rib.reset_ebp)
  BY <1>1, <1>2 DEF BaseInv, WaitersBased
<1>4. Context(mem, nstack[i].amx_esp, nstack[i].amx_ebp)
  BY <1>1 DEF StackInv, LayoutInv, WaitingOK
<1>5. cpu.esi \in Sites
  BY CallerRuns DEF InNative
<1> QED
  BY <1>3, <1>4, <1>5, LayoutAssumption DEF Context, Cell

LEMMA ResumeBase ==
  ASSUME StackInv, BaseInv, InNative, NEW eax \in Word, ResumeScript(eax)
  PROVE  RunnerBased'
<1> DEFINE t == nstack[cpu.esp].amx_esp
           b == nstack[cpu.esp].amx_ebp
<1>1. /\ Base(mem, t, b, rib.reset_stk, rib.reset_ebp)
      /\ t \in Int /\ b \in Int /\ t <= b /\ cpu.esi # CallReturn
  BY NativeBase, WordAssumption
<1>2. /\ mem' = Popped(mem, HLW, t) /\ rib' = rib
      /\ cpu'.esp = t /\ cpu'.ebp = b /\ cpu'.ip = cpu.esi
  BY DEF ResumeScript
<1> HIDE DEF t, b
<1>3. CutAt(mem, mem', t) /\ Layout(mem)
  <2>1. NoFrmBelow(mem, HLW) /\ mem \in [HLW..(STP - 1) -> Cells] /\ DOMAIN mem = Cell
    BY LayoutAssumption DEF NoFrmBelow, Cell, StackInv, TypeInv, TypeOK
  <2>2. \A a \in Cell : mem'[a] = IF a \in HLW..(t - 1) THEN Dead ELSE mem[a]
    BY <1>2, <2>1 DEF Popped
  <2> QED
    BY <1>1, <2>2, LayoutAssumption DEF CutAt, Cell, Dead, StackInv, LayoutInv
<1>4. Base(mem', t, b, rib.reset_stk, rib.reset_ebp)
  BY <1>1, <1>3, BaseCut
<1> QED
  BY <1>1, <1>2, <1>4 DEF RunnerBased

-----------------------------------------------------------------------------
(* The script that sleeps. *)

LEMMA SleptBase ==
  ASSUME StackInv, NEW esp \in Int, NEW ebp \in Int, esp <= ebp, SleepEnabled,
         Base(mem, esp, ebp, rib.reset_stk, rib.reset_ebp), Slept(esp, ebp)
  PROVE  Base(mem', amx'.stk, amx'.frm, amx'.reset_stk, Null)
<1>1. Base(mem', esp, ebp, rib.reset_stk, rib.reset_ebp)
  BY BaseCut DEF Slept, StackInv, LayoutInv
<1>2. Base(mem', esp, ebp, rib.reset_stk, Null)
  BY <1>1 DEF Base, BaseAt
<1> QED
  BY <1>2 DEF Slept

LEMMA HaltBase ==
  ASSUME StackInv, BaseInv, NEW error \in HaltErrors, NEW s \in Sites, OpHalt(error, s)
  PROVE  SleeperBased'
<1> SUFFICES ASSUME SleepEnabled, last'.error = "SLEEP"
             PROVE  Base(mem', amx'.stk, amx'.frm, amx'.reset_stk, Null)
  BY DEF SleeperBased
<1>1. Slept(cpu.esp, cpu.ebp)
  BY HaltKeeps
<1>2. Script /\ cpu.esp \in Int /\ cpu.ebp \in Int /\ cpu.esp <= cpu.ebp
  BY ScriptRuns, LayoutAssumption DEF OpHalt
<1>3. Base(mem, cpu.esp, cpu.ebp, rib.reset_stk, rib.reset_ebp)
  BY <1>2 DEF BaseInv, RunnerBased, Script
<1> QED
  BY <1>1, <1>2, <1>3, SleptBase

LEMMA ErrorBase ==
  ASSUME StackInv, BaseInv, SleepEnabled => ~SleepAfterExec,
         NEW error \in HaltErrors, NEW v \in Values, NativeError(error, v)
  PROVE  SleeperBased'
<1> SUFFICES ASSUME SleepEnabled, last'.error = "SLEEP"
             PROVE  Base(mem', amx'.stk, amx'.frm, amx'.reset_stk, Null)
  BY DEF SleeperBased
<1>1. Slept(nstack[cpu.esp].amx_esp, nstack[cpu.esp].amx_ebp)
  BY ErrorKeeps
<1>2. InNative
  BY DEF NativeError
<1> QED
  BY <1>1, <1>2, NativeBase, SleptBase

\* Nobody sleeps while a script runs.
LEMMA AwakeBase ==
  ASSUME LayoutInv', running' = "amx" \/ last'.error # "SLEEP"
  PROVE  SleeperBased'
BY DEF LayoutInv, SleeperOK, SleeperBased

-----------------------------------------------------------------------------
(* The invariant. *)

LEMMA BaseInvInit == Init => BaseInv
<1> SUFFICES ASSUME Init PROVE BaseInv
  OBVIOUS
<1>1. running = "native" /\ Waiting = {} /\ last = NoResult
  BY DEF Init, Waiting
<1>2. last.error # "SLEEP"
  BY <1>1, WordAssumption DEF NoResult
<1> QED
  BY <1>1, <1>2 DEF BaseInv, RunnerBased, WaitersBased, SleeperBased

LEMMA BaseInstruction ==
  ASSUME StackInv, BaseInv, Instruction, LayoutInv'
  PROVE  /\ RunnerBased' /\ SleeperBased'
         /\ CallsNative => Script /\ mem' = mem
<1>0. Script /\ running = "amx" /\ (last.error = "SLEEP" => ~SleepEnabled)
  BY DEF Instruction, Script, OpConst, OpPushPri, OpPopPri, OpStack, OpHeap, OpCall, OpRetn,
         OpHalt, OpSysreq, StackInv, LayoutInv, SleeperOK
<1>1. ASSUME NEW t \in Int, Works(t)
      PROVE  /\ RunnerBased' /\ SleeperBased' /\ ~CallsNative
  <2>1. running' = running
    BY <1>1 DEF Works
  <2> QED
    BY <1>0, <1>1, <2>1, WorkBase, AwakeBase DEF CallsNative
<1>2. CASE \E v \in Values : OpConst(v)
  BY <1>1, <1>2, ConstKeeps
<1>3. CASE OpPushPri \/ OpPopPri
  BY <1>1, <1>3, PushPriKeeps, PopPriKeeps
<1>4. CASE \E n \in {-1, 1}, v \in Values : OpStack(n, v)
  BY <1>1, <1>4, StackKeeps
<1>5. CASE \E n \in {-1, 1}, v \in Values : OpHeap(n, v)
  BY <1>1, <1>5, HeapKeeps
<1>6. CASE \E f \in Functions, s \in Sites, n \in 0..MaxParams : OpCall(f, s, n)
  <2>1. PICK f \in Functions, s \in Sites, n \in 0..MaxParams : OpCall(f, s, n)
    BY <1>6
  <2>2. running' = "amx"
    BY <1>0, <2>1 DEF OpCall
  <2>3. RunnerBased'
    BY <2>1, CallBase
  <2> QED
    BY <2>2, <2>3, AwakeBase DEF CallsNative
<1>7. CASE OpRetn
  <2>1. running' = "amx"
    BY <1>0, <1>7 DEF OpRetn
  <2>2. RunnerBased'
    BY <1>7, RetnBase
  <2> QED
    BY <2>1, <2>2, AwakeBase DEF CallsNative
<1>8. CASE \E error \in HaltErrors, s \in Sites : OpHalt(error, s)
  <2>1. PICK error \in HaltErrors, s \in Sites : OpHalt(error, s)
    BY <1>8
  <2>2. running' = "native" /\ mem' = mem
    BY <2>1 DEF OpHalt, HaltHelper, LeaveExec
  <2>3. SleeperBased'
    BY <2>1, HaltBase
  <2> QED
    BY <1>0, <2>2, <2>3 DEF RunnerBased
<1>9. CASE \E s \in Sites : OpSysreq(s)
  <2>1. running' = "native" /\ mem' = mem /\ last' = last
    BY <1>9 DEF OpSysreq
  <2> QED
    BY <1>0, <2>1 DEF RunnerBased, SleeperBased
<1> QED
  BY <1>2, <1>3, <1>4, <1>5, <1>6, <1>7, <1>8, <1>9 DEF Instruction

LEMMA BaseStep ==
  ASSUME StackInv, BaseInv, [Next]_vars, SleepEnabled => ~SleepAfterExec
  PROVE  BaseInv'
<1>0. Untouched /\ LayoutInv'
  BY StackStep
<1>1. /\ RunnerBased' /\ SleeperBased'
      /\ CallsNative => Script /\ mem' = mem
  <2>0. running = "native" => ~CallsNative
    BY DEF CallsNative
  <2>1. CASE UNCHANGED vars
    <3>1. UNCHANGED <<amx, rib, cpu, mem, running, last>>
      BY <2>1 DEF vars
    <3>2. RunnerBased' /\ SleeperBased'
      BY <3>1 DEF BaseInv, RunnerBased, SleeperBased
    <3>3. ~CallsNative
      BY <3>1 DEF CallsNative
    <3> QED
      BY <3>2, <3>3
  <2>2. CASE Caller
    <3>1. running = "native"
      BY <2>2 DEF Caller, RegisterNatives, PushParam, ExecRefused, ExecPublic, ExecCont
    <3>2. CASE RegisterNatives
      <4>1. running' = "native" /\ mem' = mem /\ last' = last
            /\ amx'.stk = amx.stk /\ amx'.frm = amx.frm /\ amx'.reset_stk = amx.reset_stk
        BY <3>2 DEF RegisterNatives, StackInv, TypeInv, TypeOK
      <4> QED
        BY <2>0, <3>1, <4>1 DEF BaseInv, RunnerBased, SleeperBased
    <3>3. CASE \E v \in Values : PushParam(v)
      BY <1>0, <2>0, <3>1, <3>3, AwakeBase DEF PushParam, RunnerBased
    <3>4. CASE \E b \in BOOLEAN : ExecRefused(b)
      <4>1. running' = "native" /\ last'.error # "SLEEP"
        BY <3>1, <3>4 DEF ExecRefused, EntryError
      <4> QED
        BY <1>0, <2>0, <3>1, <4>1, AwakeBase DEF RunnerBased
    <3>5. CASE \E f \in Functions : ExecPublic(f)
      <4>1. running' = "amx"
        BY <3>5 DEF ExecPublic
      <4>2. RunnerBased'
        BY <3>5, PublicBase
      <4> QED
        BY <1>0, <2>0, <3>1, <4>1, <4>2, AwakeBase
    <3>6. CASE ExecCont
      <4>1. running' = "amx"
        BY <3>6 DEF ExecCont
      <4>2. RunnerBased'
        BY <3>6, ContBase
      <4> QED
        BY <1>0, <2>0, <3>1, <4>1, <4>2, AwakeBase
    <3> QED
      BY <2>2, <3>2, <3>3, <3>4, <3>5, <3>6 DEF Caller
  <2>3. CASE Instruction
    BY <1>0, <2>3, BaseInstruction
  <2>4. CASE Native
    <3>1. running = "native"
      BY <2>4 DEF Native, SysreqCReturn, SysreqDReturn, NativeError, InNative
    <3>2. CASE \E v \in Values : SysreqCReturn(v) \/ SysreqDReturn(v)
      <4>1. PICK v \in Values : SysreqCReturn(v) \/ SysreqDReturn(v)
        BY <3>2
      <4>2. InNative /\ \E eax \in {v, Garbage} : ResumeScript(eax)
        BY <4>1 DEF SysreqCReturn, SysreqDReturn
      <4>3. PICK eax \in Word : ResumeScript(eax)
        BY <4>2, Words
      <4>4. running' = "amx" /\ RunnerBased'
        BY <4>2, <4>3, ResumeBase DEF ResumeScript
      <4> QED
        BY <1>0, <2>0, <3>1, <4>4, AwakeBase
    <3>3. CASE \E error \in HaltErrors, v \in Values : NativeError(error, v)
      <4>1. running' = "native"
        BY <3>3 DEF NativeError, HaltHelper, LeaveExec
      <4>2. SleeperBased'
        BY <3>3, ErrorBase
      <4> QED
        BY <2>0, <3>1, <4>1, <4>2 DEF RunnerBased
    <3> QED
      BY <2>4, <3>2, <3>3 DEF Native
  <2>5. CASE ReturnToExec
    <3>1. running' = "native" /\ last'.error = amx.error
      BY <2>5 DEF ReturnToExec, LeaveExec, StackInv, TypeInv, TypeOK
    <3>2. last'.error # "SLEEP" /\ ~Script /\ mem' = mem
      BY <2>5, <3>1 DEF StackInv, TypeInv, ReturnToExec, Script
    <3>3. ~CallsNative
      <4>1. LeavesScript /\ NativeInv
        BY <2>5 DEF ReturnToExec, LeaveExec, LeavesScript, StackInv, NativeInv, NativeStackOK, TopOK
      <4>2. Len(nstack') \in 0..Len(nstack)
        BY <4>1, LeaveFrames
      <4>3. CallsNative => \E n \in Nat : n = Len(nstack) /\ Len(nstack') = n + 1
        BY <4>1, CallFrames
      <4> QED
        BY <4>2, <4>3
    <3> QED
      BY <1>0, <3>1, <3>2, <3>3, AwakeBase DEF RunnerBased
  <2> QED
    BY <2>1, <2>2, <2>3, <2>4, <2>5 DEF Next
<1>2. WaitersBased'
  BY <1>0, <1>1, WaitersStep
<1> QED
  BY <1>1, <1>2 DEF BaseInv

\* The public of every script, running, waiting or asleep, is found below its
\* own part of the stack, as it was entered.
THEOREM BaseInvariant ==
  ASSUME SleepEnabled => ~SleepAfterExec
  PROVE  Spec => [](StackInv /\ BaseInv)
<1>1. Init => StackInv /\ BaseInv
  BY StackInvInit, BaseInvInit
<1>2. StackInv /\ BaseInv /\ [Next]_vars => StackInv' /\ BaseInv'
  BY StackStep, NativeInvStep, BaseStep DEF StackInv
<1> QED
  BY <1>1, <1>2, PTL DEF Spec

\* A public that returns, after whatever calls, halts and sleeps in between,
\* leaves amx->stk where its caller had it before the parameters.
THEOREM StackBalanced ==
  ASSUME SleepEnabled => ~SleepAfterExec
  PROVE  Spec => StackBalance
<1> DEFINE Balances == ReturnToExec => \/ amx'.stk = rib.reset_stk
                                       \/ SleepEnabled /\ rib.reset_stk = Garbage
<1>1. StackInv /\ BaseInv /\ [Next]_vars => [Balances]_vars
  <2> SUFFICES ASSUME StackInv, BaseInv, ReturnToExec
               PROVE  \/ amx'.stk = rib.reset_stk
                      \/ SleepEnabled /\ rib.reset_stk = Garbage
    OBVIOUS
  <2>1. running = "amx" /\ cpu.ip = CallReturn
    BY DEF ReturnToExec
  <2>2. cpu.esp = rib.reset_stk \/ (SleepEnabled /\ rib.reset_stk = Garbage)
    BY <2>1 DEF BaseInv, RunnerBased
  <2>3. amx.stk = cpu.esp
    BY <2>1 DEF StackInv, LayoutInv, RegistersOK
  <2>4. amx'.stk = cpu.esp
    BY <2>3 DEF ReturnToExec, LeaveExec, StackInv, TypeInv, TypeOK
  <2> QED
    BY <2>2, <2>4
<1> QED
  BY <1>1, BaseInvariant, PTL DEF Spec, StackBalance

\* Without sleep support its caller has amx->frm again, too; with it ExecHelper
\* does not store EBP, and FrameRestored fails (run runtime_sleep_frame).
THEOREM FrameBalanced ==
  ASSUME ~SleepEnabled
  PROVE  Spec => FrameRestored
<1> DEFINE Restores == ReturnToExec => amx'.frm = rib.reset_ebp
<1>1. StackInv /\ BaseInv /\ [Next]_vars => [Restores]_vars
  <2> SUFFICES ASSUME StackInv, BaseInv, ReturnToExec
               PROVE  amx'.frm = rib.reset_ebp
    OBVIOUS
  <2>1. running = "amx" /\ cpu.ip = CallReturn
    BY DEF ReturnToExec
  <2>2. cpu.ebp = rib.reset_ebp
    BY <2>1 DEF BaseInv, RunnerBased
  <2>3. amx'.frm = cpu.ebp
    BY DEF ReturnToExec, LeaveExec, StackInv, TypeInv, TypeOK
  <2> QED
    BY <2>2, <2>3
<1> QED
  BY <1>1, BaseInvariant, PTL DEF Spec, FrameRestored
==============================================================================
