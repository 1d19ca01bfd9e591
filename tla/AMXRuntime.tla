----------------------------- MODULE AMXRuntime -----------------------------
(***************************************************************************)
(* The machine code that amxjit emits for one script, seen at the level    *)
(* where it is hard: the two stacks.  A script runs on the AMX stack, the  *)
(* server and its native functions run on the native (C) stack, and the    *)
(* helpers of compiler_impl.cpp (Exec, ExecHelper, ExecContHelper,         *)
(* HaltHelper, SysreqCHelper, SysreqDHelper) switch between the two.  A    *)
(* native function may call Exec again, so activations nest; what lets     *)
(* each helper find its way back is kept in a few words of the runtime     *)
(* information block (rib), in the native frames and in callee-saved       *)
(* registers.                                                              *)
(*                                                                         *)
(* Everything runs on one thread, so a helper is one atomic action.  All   *)
(* addresses are counted in cells: cell a of the data section is mem[a],   *)
(* the AMX stack grows down from STP, and a native stack pointer is the    *)
(* number of frames on nstack.                                             *)
(***************************************************************************)
EXTENDS Integers, Sequences

CONSTANTS
  STP,          \* top of the AMX stack, in cells (amx->stp)
  HLW,          \* bottom of the heap, in cells (amx->hlw)
  MaxHeap,      \* bound: cells the script may allocate on the heap
  MaxExecs,     \* bound: nested activations of Exec
  MaxParams,    \* bound: parameters pushed for one call
  Functions,    \* code addresses of functions (publics among them)
  Sites,        \* code addresses that follow a CALL, a SYSREQ or a HALT
  Values,       \* cell values a script or a native computes with
  HaltErrors,   \* error codes a HALT instruction or a native may raise
  SleepEnabled, \* enable_sleep_: the jit_sleep option
  SleepAfterExec, \* may a native that has called Exec still raise SLEEP?
  CallReturn,   \* native code address of call_return in ExecHelper
  HostReg,      \* what the server keeps in its callee-saved registers
  Null,         \* a word that was never written (zero)
  Garbage       \* a word whose content is indeterminate

ASSUME LayoutAssumption ==
  /\ STP \in Nat /\ HLW \in Nat /\ HLW < STP
  /\ MaxHeap \in Nat /\ MaxExecs \in Nat /\ MaxParams \in Nat
ASSUME OptionAssumption ==
  /\ SleepEnabled \in BOOLEAN /\ SleepAfterExec \in BOOLEAN
  /\ "NONE" \notin HaltErrors
ASSUME WordAssumption ==
  /\ CallReturn \notin Sites \cup Functions /\ Null \notin Sites
  /\ Null \notin HaltErrors
  /\ Null \notin {"NONE", "SLEEP", "STACKERR", "STACKLOW", "HEAPLOW", "NOTFOUND", "INDEX"}

VARIABLES
  amx,     \* the fields of struct AMX the code reads and writes
  rib,     \* RuntimeInfoBlock
  cpu,     \* registers; ip is the last function entry or return site passed
  nstack,  \* frames on the native stack, oldest first
  mem,     \* the AMX stack
  running, \* who has the CPU: "native" (server or native function) or "amx"
  last     \* what the last call of Exec gave its caller

vars == <<amx, rib, cpu, nstack, mem, running, last>>
-----------------------------------------------------------------------------
Dead == [kind |-> "dead", val |-> Garbage]   \* a cell below the stack pointer
Data(v) == [kind |-> "data", val |-> v]
Size(n) == [kind |-> "size", val |-> n]
Frm(a) == [kind |-> "frm", val |-> a]
Ret(s) == [kind |-> "ret", val |-> s]

\* Nothing reads a cell below the stack pointer, so what a pop leaves behind
\* is forgotten at once.
Popped(m, lo, hi) == [a \in DOMAIN m |-> IF a \in lo..(hi - 1) THEN Dead ELSE m[a]]

\* Bound: compiled code does not check the stack; the scripts of the model
\* stay above the heap.
Room(sp, n) == sp - n >= amx.hea

NoResult == [error |-> Null, retval |-> Null]

\* Forms with a bug (the project's mutants are made of these): Exec forgets to
\* save the reset_* words, or does so only in the outermost call, or forgets ESI.
ExecFrameNoReset(reset) ==
  [kind |-> "exec", esi |-> cpu.esi, ebp |-> cpu.ebp,
   reset_ebp |-> Garbage, reset_esp |-> Garbage,
   reset_stk |-> Garbage, reset_hea |-> Garbage]
ExecFrameOutermostOnly(reset) ==
  LET saved == IF nstack = <<>> THEN reset ELSE ExecFrameNoReset(reset)
  IN [kind |-> "exec", esi |-> cpu.esi, ebp |-> cpu.ebp,
      reset_ebp |-> saved.reset_ebp, reset_esp |-> saved.reset_esp,
      reset_stk |-> saved.reset_stk, reset_hea |-> saved.reset_hea]
ExecFrameNoEsi(reset) ==
  [kind |-> "exec", esi |-> Garbage, ebp |-> cpu.ebp,
   reset_ebp |-> reset.reset_ebp, reset_esp |-> reset.reset_esp,
   reset_stk |-> reset.reset_stk, reset_hea |-> reset.reset_hea]

ExecFrame(reset) ==
  [kind |-> "exec", esi |-> cpu.esi, ebp |-> cpu.ebp,
   reset_ebp |-> reset.reset_ebp, reset_esp |-> reset.reset_esp,
   reset_stk |-> reset.reset_stk, reset_hea |-> reset.reset_hea]

\* With a bug: the labels are popped in the wrong order; EDI is not saved.
HelperFrameSwapped ==
  [kind |-> "helper", edi |-> cpu.edi, ebp |-> rib.esp, esp |-> rib.ebp,
   amx_ebp |-> rib.amx_ebp, amx_esp |-> rib.amx_esp]
HelperFrameNoEdi ==
  [kind |-> "helper", edi |-> Garbage, ebp |-> rib.ebp, esp |-> rib.esp,
   amx_ebp |-> rib.amx_ebp, amx_esp |-> rib.amx_esp]

HelperFrame ==
  [kind |-> "helper", edi |-> cpu.edi, ebp |-> rib.ebp, esp |-> rib.esp,
   amx_ebp |-> rib.amx_ebp, amx_esp |-> rib.amx_esp]

NativeFrame ==
  [kind |-> "native", amx_esp |-> cpu.esp, amx_ebp |-> cpu.ebp, alt |-> cpu.ecx]

ResetGarbage ==
  [reset_ebp |-> Garbage, reset_esp |-> Garbage,
   reset_stk |-> Garbage, reset_hea |-> Garbage]

Init ==
  /\ amx = [stk |-> STP, frm |-> STP, hea |-> HLW, cip |-> Null, pri |-> Null,
            alt |-> Null, error |-> "NONE", paramcount |-> 0,
            reset_stk |-> Null, reset_hea |-> Null, ntvreg |-> FALSE]
  /\ rib = [ebp |-> 0, esp |-> 0, amx_ebp |-> Null, amx_esp |-> Null,
            reset_ebp |-> Null, reset_esp |-> Null,
            reset_stk |-> Null, reset_hea |-> Null]
  /\ cpu = [eax |-> Garbage, ecx |-> Garbage, esi |-> HostReg, edi |-> HostReg,
            esp |-> 0, ebp |-> 0, ip |-> Null]
  /\ nstack = <<>>
  /\ mem = [a \in HLW..(STP - 1) |-> Dead]
  /\ running = "native"
  /\ last = NoResult
-----------------------------------------------------------------------------
(* What the caller of Exec does: the server, or a native function. *)

\* amx_Register: the server binds the natives before it runs the script.
RegisterNatives ==
  /\ running = "native" /\ nstack = <<>> /\ ~amx.ntvreg
  /\ amx' = [amx EXCEPT !.ntvreg = TRUE]
  /\ UNCHANGED <<rib, cpu, nstack, mem, running, last>>

\* amx_Push, by a caller that has found the public and will call Exec.  The
\* guard leaves room for the three cells of the entry frame (bound).
PushParam(v) ==
  /\ running = "native" /\ amx.ntvreg /\ last.error # "SLEEP"
  /\ amx.paramcount < MaxParams /\ Len(nstack) < 3 * MaxExecs
  /\ Room(amx.stk, 4)
  /\ amx' = [amx EXCEPT !.stk = @ - 1, !.paramcount = @ + 1]
  /\ mem' = [mem EXCEPT ![amx.stk - 1] = Data(v)]
  /\ UNCHANGED <<rib, cpu, nstack, running, last>>

\* The checks at the start of Exec, in their order.
EntryError ==
  IF amx.hea >= amx.stk THEN "STACKERR"
  ELSE IF amx.stk > STP THEN "STACKLOW"
  ELSE IF amx.hea < HLW THEN "HEAPLOW"
  ELSE IF ~amx.ntvreg THEN "NOTFOUND"
  ELSE "NONE"

\* Exec refuses: one of the checks fails, or (badIndex) no public has this
\* index, in which case the error code has been reset on the way.
ExecRefused(badIndex) ==
  /\ running = "native"
  /\ amx.paramcount = 0
  /\ badIndex \/ EntryError # "NONE"
  /\ amx' = [amx EXCEPT !.error = IF EntryError = "NONE" THEN "NONE" ELSE @]
  /\ last' = [error |-> IF EntryError # "NONE" THEN EntryError ELSE "INDEX",
              retval |-> Null]
  /\ UNCHANGED <<rib, cpu, nstack, mem, running>>

\* With a bug: PROC runs before the return address is on the stack.
ProcSwapped(m, sp, s, frm) == [m EXCEPT ![sp - 1] = Frm(frm), ![sp - 2] = Ret(s)]

\* OP_PROC with a return address s pushed by the CALL before it.
Proc(m, sp, s, frm) == [m EXCEPT ![sp - 1] = Ret(s), ![sp - 2] = Frm(frm)]

\* Exec of a public function up to and including its PROC: Exec saves the
\* reset_* words in its frame, ExecHelper saves the four stack labels and EDI,
\* pushes the size of the parameters, switches stacks and calls the function.
ExecPublic(f) ==
  /\ running = "native"
  /\ EntryError = "NONE"
  /\ Len(nstack) < 3 * MaxExecs
  /\ Room(amx.stk, 3)
  /\ LET frm == amx.frm
         sp == amx.stk - 1
     IN /\ nstack' = nstack \o <<ExecFrame(rib), HelperFrame>>
        /\ rib' = [ebp |-> cpu.esp + 1, esp |-> cpu.esp + 2,
                   amx_ebp |-> frm, amx_esp |-> sp,
                   reset_ebp |-> frm, reset_esp |-> sp - 1,
                   reset_stk |-> amx.stk + amx.paramcount, reset_hea |-> amx.hea]
        /\ mem' = Proc([mem EXCEPT ![sp] = Size(amx.paramcount)], sp, CallReturn, frm)
        /\ amx' = [amx EXCEPT !.error = "NONE", !.paramcount = 0]
        /\ cpu' = [cpu EXCEPT !.eax = Garbage, !.ecx = Garbage,
                              !.esi = Garbage, !.edi = Garbage,
                              !.esp = sp - 2, !.ebp = sp - 2, !.ip = f]
  /\ running' = "amx"
  /\ last' = NoResult

\* Exec with index AMX_EXEC_CONT.  The jump to ExecContHelper comes before the
\* code that saves the reset_* words, so the frame keeps what was there.
\* The caller continues only a script whose Exec just returned SLEEP to it.
ExecCont ==
  /\ SleepEnabled
  /\ running = "native" /\ last.error = "SLEEP"
  /\ EntryError = "NONE" /\ amx.paramcount = 0
  /\ Len(nstack) < 3 * MaxExecs
  /\ nstack' = nstack \o <<ExecFrame(ResetGarbage), HelperFrame>>
  /\ rib' = [ebp |-> cpu.esp + 1, esp |-> cpu.esp + 2,
             amx_ebp |-> amx.frm, amx_esp |-> amx.stk,
             reset_ebp |-> amx.frm, reset_esp |-> amx.stk - 1,
             reset_stk |-> amx.reset_stk, reset_hea |-> amx.reset_hea]
  /\ amx' = [amx EXCEPT !.error = "NONE"]
  /\ cpu' = [cpu EXCEPT !.eax = amx.pri, !.ecx = amx.alt,
                        !.esi = Garbage, !.edi = Garbage,
                        !.esp = amx.stk, !.ebp = amx.frm, !.ip = amx.cip]
  /\ running' = "amx"
  /\ last' = NoResult
  /\ UNCHANGED mem
-----------------------------------------------------------------------------
(* Leaving Exec. *)

\* exec_exit in ExecHelper and the rest of Exec, with the AMX structure a and
\* PRI in eax: switch to the native stack, pop the saved labels and registers,
\* copy the return value, restore reset_*, return the error code and reset it.
LeaveExec(a, eax) ==
  LET helper == nstack[rib.esp]
      exec == nstack[rib.ebp]      \* locals are addressed from EBP
  IN /\ rib' = [ebp |-> helper.ebp, esp |-> helper.esp,
                amx_ebp |-> helper.amx_ebp, amx_esp |-> helper.amx_esp,
                reset_ebp |-> exec.reset_ebp, reset_esp |-> exec.reset_esp,
                reset_stk |-> exec.reset_stk, reset_hea |-> exec.reset_hea]
     /\ cpu' = [eax |-> Garbage, ecx |-> Garbage,
                esi |-> nstack[rib.esp - 1].esi, edi |-> helper.edi,
                esp |-> rib.ebp - 1, ebp |-> exec.ebp, ip |-> Null]
     /\ nstack' = SubSeq(nstack, 1, rib.ebp - 1)
     /\ amx' = [a EXCEPT !.error = "NONE"]
     /\ last' = [error |-> a.error, retval |-> eax]
     /\ running' = "native"

\* call_return in ExecHelper: the public has returned.  With sleep support on,
\* the registers are synchronised only if the error is SLEEP.
ReturnToExec ==
  /\ running = "amx" /\ cpu.ip = CallReturn
  /\ LET synced == [amx EXCEPT !.pri = cpu.eax, !.alt = cpu.ecx,
                               !.frm = cpu.ebp, !.stk = cpu.esp]
     IN LeaveExec(IF SleepEnabled /\ amx.error # "SLEEP" THEN amx ELSE synced,
                  cpu.eax)
  /\ UNCHANGED mem

\* With a bug: going to sleep does not save the reset_* words.
SleepSaveNothing(a) == a

\* What both ways of going to sleep keep in amx for ExecContHelper.
SleepSave(a) == [a EXCEPT !.reset_stk = rib.reset_stk, !.reset_hea = rib.reset_hea]

\* HaltHelper(error), called from code address site with the registers given:
\* save the registers in amx, for SLEEP also where to go on, and leave.  Only
\* ESP and EBP are reset; amx->stk and amx->hea keep their value.
HaltHelper(error, a, site, eax, ecx, esp, ebp) ==
  LET halted == [a EXCEPT !.error = error, !.pri = eax, !.alt = ecx,
                          !.frm = ebp, !.stk = esp]
  IN IF SleepEnabled /\ error = "SLEEP"
     THEN LeaveExec(SleepSave([halted EXCEPT !.cip = site]),
                    site)          \* EAX holds the CIP by now
     ELSE LeaveExec(halted, eax)

-----------------------------------------------------------------------------
(* Compiled script instructions.  Data flow is left to the instruction      *)
(* modules: PRI and ALT get a value from Values, or what the stack holds.   *)

Script == running = "amx" /\ cpu.ip # CallReturn

\* CONST.PRI and CONST.ALT stand for all instructions that compute a value.
OpConst(v) ==
  /\ Script
  /\ \/ cpu' = [cpu EXCEPT !.eax = v]
     \/ cpu' = [cpu EXCEPT !.ecx = v]
  /\ UNCHANGED <<amx, rib, nstack, mem, running, last>>

OpPushPri ==
  /\ Script /\ Room(cpu.esp, 1)
  /\ cpu' = [cpu EXCEPT !.esp = @ - 1]
  /\ mem' = [mem EXCEPT ![cpu.esp - 1] = Data(cpu.eax)]
  /\ UNCHANGED <<amx, rib, nstack, running, last>>

\* A script pops only what its current function has pushed.
OpPopPri ==
  /\ Script /\ cpu.esp < cpu.ebp
  /\ cpu' = [cpu EXCEPT !.esp = @ + 1, !.eax = mem[cpu.esp].val]
  /\ mem' = [mem EXCEPT ![cpu.esp] = Dead]
  /\ UNCHANGED <<amx, rib, nstack, running, last>>

\* STACK -n allocates locals, STACK n frees them; ALT is the old pointer, as
\* data a member v of Values.
OpStack(n, v) ==
  /\ Script
  /\ IF n < 0 THEN Room(cpu.esp, -n) ELSE cpu.esp + n <= cpu.ebp
  /\ cpu' = [cpu EXCEPT !.esp = @ + n, !.ecx = v]
  /\ mem' = IF n < 0 THEN [a \in DOMAIN mem |-> IF a \in (cpu.esp + n)..(cpu.esp - 1)
                                                THEN Data(Garbage) ELSE mem[a]]
                     ELSE Popped(mem, cpu.esp, cpu.esp + n)
  /\ UNCHANGED <<amx, rib, nstack, running, last>>

\* HEAP n; the allocation stays within MaxHeap (bound) and below the stack.
\* ALT is the old end of the heap, again a member of Values.
OpHeap(n, v) ==
  /\ Script
  /\ amx.hea + n \in HLW..(HLW + MaxHeap) /\ amx.hea + n <= cpu.esp
  /\ cpu' = [cpu EXCEPT !.ecx = v]
  /\ amx' = [amx EXCEPT !.hea = @ + n]
  /\ UNCHANGED <<rib, nstack, mem, running, last>>

\* CALL f returning to s: the compiler of the script pushes the size of the n
\* parameters before it, and every function begins with PROC.
OpCall(f, s, n) ==
  /\ Script /\ Room(cpu.esp, 3)
  /\ n <= cpu.ebp - cpu.esp
  /\ mem' = Proc([mem EXCEPT ![cpu.esp - 1] = Size(n)], cpu.esp - 1, s, cpu.ebp)
  /\ cpu' = [cpu EXCEPT !.esp = @ - 3, !.ebp = cpu.esp - 3, !.ip = f]
  /\ UNCHANGED <<amx, rib, nstack, running, last>>

\* RETN at the end of a function, its locals freed: restore FRM, remove the
\* parameters, store the stack pointer in amx->stk, go to the return address.
OpRetn ==
  /\ Script /\ cpu.esp = cpu.ebp
  /\ LET sp == cpu.esp + 3 + mem[cpu.esp + 2].val
     IN /\ cpu' = [cpu EXCEPT !.esp = sp, !.ebp = mem[cpu.esp].val,
                              !.ip = mem[cpu.esp + 1].val]
        /\ mem' = Popped(mem, cpu.esp, sp)
        /\ amx' = [amx EXCEPT !.stk = sp]
  /\ UNCHANGED <<rib, nstack, running, last>>

OpHalt(error, s) ==
  /\ Script
  /\ HaltHelper(error, amx, s, cpu.eax, cpu.ecx, cpu.esp, cpu.ebp)
  /\ UNCHANGED mem

\* With a bug: amx->stk is not stored; amx->cip is not stored.
SysreqSaveNoStk(s) ==
  [amx EXCEPT !.frm = cpu.ebp, !.cip = IF SleepEnabled THEN s ELSE @]
SysreqSaveNoCip(s) == [amx EXCEPT !.stk = cpu.esp, !.frm = cpu.ebp]

\* What the sysreq helpers store in the AMX structure before the native runs.
SysreqSave(s) ==
  [amx EXCEPT !.stk = cpu.esp, !.frm = cpu.ebp,
              !.cip = IF SleepEnabled THEN s ELSE @]

\* SYSREQ.C and SYSREQ.D up to the call of the native: the return address is
\* kept in ESI, the AMX stack registers and ALT in a frame.
OpSysreq(s) ==
  /\ Script
  /\ amx' = SysreqSave(s)
  /\ nstack' = Append(SubSeq(nstack, 1, rib.esp), NativeFrame)
  /\ rib' = [rib EXCEPT !.amx_esp = cpu.esp, !.amx_ebp = cpu.ebp]
  /\ cpu' = [cpu EXCEPT !.eax = Garbage, !.ecx = Garbage,
                        !.esi = s, !.edi = cpu.esp,
                        !.esp = rib.esp + 1, !.ebp = rib.ebp, !.ip = Null]
  /\ running' = "native"
  /\ UNCHANGED <<mem, last>>

InNative == running = "native" /\ nstack # <<>> /\ amx.paramcount = 0

\* The native returns without an error and the script goes on, PRI = eax.
ResumeScript(eax) ==
  LET native == nstack[cpu.esp]
  IN /\ cpu' = [eax |-> eax, ecx |-> native.alt, esi |-> Garbage, edi |-> Garbage,
                esp |-> native.amx_esp, ebp |-> native.amx_ebp, ip |-> cpu.esi]
     /\ nstack' = SubSeq(nstack, 1, cpu.esp - 1)
     /\ mem' = Popped(mem, HLW, native.amx_esp)
     /\ running' = "amx"
     /\ last' = NoResult
     /\ UNCHANGED <<amx, rib>>

\* SysreqCHelper loads the result through ECX, a register the callee may have
\* changed; SysreqDHelper has it in EAX.
SysreqCReturn(result) == InNative /\ \E eax \in {result, Garbage} : ResumeScript(eax)
SysreqDReturn(result) == InNative /\ ResumeScript(result)

\* The native raises an error.  SLEEP (with sleep support) leaves with what was
\* stored before the call, anything else halts the script.
NativeError(error, result) ==
  /\ InNative
  /\ error = "SLEEP" => SleepAfterExec \/ last = NoResult
  /\ LET native == nstack[cpu.esp]
         raised == [amx EXCEPT !.error = error]
     IN IF SleepEnabled /\ error = "SLEEP"
        THEN LeaveExec(SleepSave([raised EXCEPT !.pri = result, !.alt = native.alt]),
                       result)
        ELSE HaltHelper(error, raised, Null, result, native.alt,
                        native.amx_esp, native.amx_ebp)
  /\ mem' = Popped(mem, HLW, nstack[cpu.esp].amx_esp)
-----------------------------------------------------------------------------
Caller ==
  \/ RegisterNatives
  \/ \E v \in Values : PushParam(v)
  \/ \E badIndex \in BOOLEAN : ExecRefused(badIndex)
  \/ \E f \in Functions : ExecPublic(f)
  \/ ExecCont

Instruction ==
  \/ \E v \in Values : OpConst(v)
  \/ OpPushPri
  \/ OpPopPri
  \/ \E n \in {-1, 1}, v \in Values : OpStack(n, v)
  \/ \E n \in {-1, 1}, v \in Values : OpHeap(n, v)
  \/ \E f \in Functions, s \in Sites, n \in 0..MaxParams : OpCall(f, s, n)
  \/ OpRetn
  \/ \E error \in HaltErrors, s \in Sites : OpHalt(error, s)
  \/ \E s \in Sites : OpSysreq(s)

Native ==
  \/ \E v \in Values : SysreqCReturn(v)
  \/ \E v \in Values : SysreqDReturn(v)
  \/ \E error \in HaltErrors, v \in Values : NativeError(error, v)

Next == Caller \/ Instruction \/ Native \/ ReturnToExec

Spec == Init /\ [][Next]_vars
-----------------------------------------------------------------------------
(* What the code must guarantee. *)

Word == Nat \cup Values \cup Sites \cup Functions
            \cup {CallReturn, Null, Garbage}
Cells == [kind : {"dead", "data", "size", "frm", "ret"}, val : Word]
ErrorCodes == HaltErrors \cup
  {"NONE", "STACKERR", "STACKLOW", "HEAPLOW", "NOTFOUND", "INDEX"}

\* Types of the state.
TypeOK ==
  /\ amx \in [stk : HLW..STP, frm : HLW..STP, hea : HLW..STP, cip : Word,
              pri : Word, alt : Word, error : ErrorCodes, paramcount : 0..MaxParams,
              reset_stk : Word, reset_hea : Word, ntvreg : BOOLEAN]
  /\ rib \in [ebp : Nat, esp : Nat, amx_ebp : Word, amx_esp : Word, reset_ebp : Word,
              reset_esp : Word, reset_stk : Word, reset_hea : Word]
  /\ cpu \in [eax : Word, ecx : Word, esi : Word \cup {HostReg},
              edi : Word \cup {HostReg}, esp : Nat, ebp : Nat, ip : Word]
  /\ mem \in [HLW..(STP - 1) -> Cells]
  /\ running \in {"native", "amx"}
  /\ last.error \in ErrorCodes \cup {Null} /\ last.retval \in Word

\* The native stack is a pile of activations: Exec, ExecHelper and, while the
\* script waits for one, a native function.
Above(kind, below) ==
  \/ kind = "exec" /\ below = "native"
  \/ kind = "helper" /\ below = "exec"
  \/ kind = "native" /\ below = "helper"
FramesOK ==
  \A i \in DOMAIN nstack : IF i = 1 THEN nstack[i].kind = "exec"
                           ELSE Above(nstack[i].kind, nstack[i - 1].kind)

\* A script runs on top of an ExecHelper frame, a native on top of its own.
TopOK ==
  /\ running \in {"native", "amx"}
  /\ running = "amx" => nstack # <<>> /\ nstack[Len(nstack)].kind = "helper"
  /\ running = "native" => nstack = <<>> \/ nstack[Len(nstack)].kind = "native"

\* "mov esp, [esp]" and "mov ebp, [ebp]" lead to the innermost ExecHelper and
\* its Exec, whoever runs and however deep calls nest; at the bottom they hold
\* what they held before the first call.
LabelsOK ==
  LET top == IF running = "amx" THEN Len(nstack) ELSE Len(nstack) - 1
  IN IF nstack = <<>>
     THEN rib.esp = 0 /\ rib.ebp = 0
     ELSE rib.esp = top /\ rib.ebp = top - 1

\* Every ExecHelper frame saves the labels of the activation below.
SavedLabelsOK ==
  \A i \in DOMAIN nstack : nstack[i].kind = "helper" =>
    IF i = 2 THEN nstack[i].esp = 0 /\ nstack[i].ebp = 0
             ELSE nstack[i].esp = i - 3 /\ nstack[i].ebp = i - 4

\* Every Exec frame saves its caller's EBP, and a caller finds its own again.
CallerEbpOK ==
  /\ \A i \in DOMAIN nstack : nstack[i].kind = "exec" =>
       nstack[i].ebp = IF i = 1 THEN 0 ELSE i - 3
  /\ running = "native" => /\ cpu.esp = Len(nstack)
                           /\ cpu.ebp = IF nstack = <<>> THEN 0 ELSE Len(nstack) - 2

\* Switching stacks always arrives at the right frame: ExecHelper and the
\* sysreq helpers keep one pair of labels for all nested calls of Exec.
NativeStackOK == FramesOK /\ TopOK /\ LabelsOK /\ SavedLabelsOK /\ CallerEbpOK

\* Exec honours the cdecl contract towards the server: ESI and EDI survive any
\* run of the script, though the generated code uses them for everything.
HostRegistersKept == nstack = <<>> => cpu.esi = HostReg /\ cpu.edi = HostReg

\* The reset_* words of the k-th activation of Exec (k = 0: of no script): they
\* are in rib until a younger activation has saved them in its Exec frame.
Depth == (Len(nstack) + 1) \div 3
ResetWords(k) ==
  LET words == IF k = Depth THEN rib ELSE nstack[3 * k + 1]
  IN [reset_ebp |-> words.reset_ebp, reset_esp |-> words.reset_esp,
      reset_stk |-> words.reset_stk, reset_hea |-> words.reset_hea]

\* Without AMX_EXEC_CONT every Exec, at any depth and however it ends, leaves
\* the reset_* words as it found them: each activation has the words of its
\* entry whenever it runs again, so a halt in an outer script finds its own.
ResetWordsRestored ==
  [][\A k \in 0..Depth : k <= Depth' => ResetWords(k)' = ResetWords(k)]_vars

\* RETN takes the return address, the frame pointer and the parameter size
\* from the stack: each FRM cell, halted scripts' included, has its return
\* address and size above it, and leads to an older function's FRM cell unless
\* ExecHelper called the function.
StackLayoutOK ==
  /\ \A a \in DOMAIN mem : mem[a].kind = "frm" =>
       /\ a + 2 < STP /\ mem[a + 1].kind = "ret" /\ mem[a + 2].kind = "size"
       /\ LET above == a + 3 + mem[a + 2].val
          IN /\ above <= STP
             /\ mem[a + 1].val # CallReturn =>
                  /\ mem[a].val \in above..(STP - 1)
                  /\ mem[mem[a].val].kind = "frm"
  /\ Script => cpu.esp <= cpu.ebp /\ cpu.ebp < STP /\ mem[cpu.ebp].kind = "frm"

\* The scripts waiting for a native, each with the registers it will go on
\* with.  The sysreq helpers keep the return address in ESI only; it is saved
\* by the next Exec, should the native call it.
ReturnSite(i) == IF i < Len(nstack) THEN nstack[i + 1].esi ELSE cpu.esi
Suspended ==
  [i \in {j \in DOMAIN nstack : nstack[j].kind = "native"} |->
     [ip |-> ReturnSite(i),
      esp |-> nstack[i].amx_esp, ebp |-> nstack[i].amx_ebp, alt |-> nstack[i].alt]]

\* A script that called a native goes on right behind the call, with the ALT
\* and the stack registers it had, whatever the native ran in between.
SuspendedStep ==
  LET now == DOMAIN Suspended
      next == DOMAIN Suspended'
  IN /\ \A i \in now \cap next : Suspended'[i] = Suspended[i]
     /\ \A i \in next \ now :
          /\ Suspended'[i].esp = cpu.esp /\ Suspended'[i].ebp = cpu.ebp
          /\ Suspended'[i].alt = cpu.ecx /\ Suspended'[i].ip \in Sites
     /\ \A i \in now \ next : running' = "amx" =>
          /\ cpu'.ip = Suspended[i].ip /\ cpu'.ecx = Suspended[i].alt
          /\ cpu'.esp = Suspended[i].esp /\ cpu'.ebp = Suspended[i].ebp
SuspendedDiscipline == [][SuspendedStep]_vars

\* The stack of a suspended script is not touched by the scripts run inside
\* its native, nor by parameters pushed for them.
SuspendedStackIntact ==
  [][\A i \in DOMAIN Suspended \cap DOMAIN Suspended' :
       \A a \in DOMAIN mem : a >= Suspended[i].esp => mem'[a] = mem[a]]_vars

\* A public that returns leaves the AMX stack as its caller had it before the
\* parameters: amx->stk ends where ExecHelper computed reset_stk.  That word is
\* lost when a native runs AMX_EXEC_CONT inside the public, see ExecCont.
StackBalance ==
  [][ReturnToExec => \/ amx'.stk = rib.reset_stk
                     \/ SleepEnabled /\ rib.reset_stk = Garbage]_vars

\* ... and amx->frm as it was on entry.
FrameRestored == [][ReturnToExec => amx'.frm = rib.reset_ebp]_vars

\* A native that puts the script to sleep leaves in amx all that AMX_EXEC_CONT
\* needs to go on behind the call.
SleepCapturesScript ==
  [][(InNative /\ nstack' # nstack /\ last'.error = "SLEEP") =>
       LET native == nstack[cpu.esp]
       IN /\ amx'.cip = cpu.esi /\ amx'.alt = native.alt
          /\ amx'.stk = native.amx_esp /\ amx'.frm = native.amx_ebp]_vars

\* Exec returns to its caller.
Leaves == Len(nstack') < Len(nstack) /\ running' = "native"

\* A script that halts, by itself or in a native, leaves the AMX stack as its
\* caller had it: HaltHelper resets the stack.
HaltResetsStack ==
  [][Leaves /\ last'.error \notin {"NONE", "SLEEP"} => amx'.stk = rib.reset_stk]_vars

\* After SYSREQ.C, PRI is the result of the native function.
SysreqResult ==
  [][running = "native" /\ running' = "amx" /\ Len(nstack') < Len(nstack)
       => cpu'.eax \in Values]_vars

\* The return addresses from an FRM cell outwards, to the one of ExecHelper.
ReturnSites[frm \in {a \in DOMAIN mem : mem[a].kind = "frm"}] ==
  IF mem[frm + 1].val = CallReturn THEN <<>>
  ELSE <<mem[frm + 1].val>> \o ReturnSites[mem[frm].val]

\* The k-th activation of Exec: it waits for a native or has the CPU.
Activation(k) ==
  IF 3 * k \in DOMAIN nstack
  THEN [at |-> ReturnSite(3 * k), back |-> ReturnSites[nstack[3 * k].amx_ebp], waits |-> TRUE]
  ELSE [at |-> cpu.ip,
        back |-> IF cpu.ip = CallReturn THEN <<>> ELSE ReturnSites[cpu.ebp],
        waits |-> FALSE]

\* Activation(k) for every activation there is, and what ExecCont would go on with.
CallActs == [k \in 1..Depth |-> Activation(k)]
Nobody == [at |-> Null, back |-> <<>>, waits |-> FALSE]
CallSleeper ==
  IF SleepEnabled /\ last.error = "SLEEP"
  THEN [at |-> amx.cip, back |-> ReturnSites[amx.frm], waits |-> FALSE]
  ELSE Nobody

Calls == INSTANCE ScriptCalls WITH
  Awake <- Nobody, acts <- CallActs, sleeper <- CallSleeper

\* Scripts, natives and the server see calls, returns and sleep as if there
\* were one stack for each activation, whatever the helpers do with the two
\* that there are: see ScriptCalls.
CallsNest == Calls!Spec
=============================================================================
