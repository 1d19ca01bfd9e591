---------------------------- MODULE CompiledFlow ----------------------------
(***************************************************************************)
(* The code that Compiler has made, at work: which piece of code runs      *)
(* next, the return addresses on the AMX stack, which are addresses of     *)
(* machine code, and the AMX addresses that are turned into them and back  *)
(* by JumpHelper, LCTRL 8 and the sleep support.  It implements ScriptFlow.*)
(***************************************************************************)
EXTENDS Compiler

CONSTANTS
  Values,    \* what the function at each address may return
  MaxDepth   \* bound: return addresses on the stack

ASSUME ValuesAssumption ==
  \A p \in Programs : \A n \in DOMAIN p.natives :
    Values[p.natives[n].address] \subseteq 0..(Base - 1)

VARIABLES
  mode,      \* "idle", "run" or "sleep"
  eip,       \* position in the code
  eax,       \* PRI
  stk,       \* return addresses on the AMX stack, the newest first
  cip        \* amx->cip

flowVars == <<mode, eip, eax, stk, cip>>
vars == <<compilerVars, flowVars>>

\* Where ExecHelper goes on; a position in front of the script's code.
CallReturn == Base

Init == CompilerInit /\ mode = "idle" /\ eip = 0 /\ eax = 0 /\ stk = <<>> /\ cip = 0

\* The code that runs at position p: padding of a function does nothing.
Landing(p) == CHOOSE q \in DOMAIN code : q >= p /\ \A r \in DOMAIN code : r >= p => q <= r

Here == Landing(eip)
Piece == code[Here]
After == Here + 1
Running(op) == mode = "run" /\ Piece.op = op

\* Exec of the public function at a.
Exec(a) ==
  /\ bound = DOMAIN prog.natives    \* AMX_FLAG_NTVREG
  /\ phase = "ready" /\ mode = "idle" /\ mode' = "run"
  /\ eip' = GetJITInstrPtr(a) - Base /\ stk' = <<CallReturn>>
  /\ UNCHANGED <<compilerVars, eax, cip>>

Goto(p) == eip' = p /\ UNCHANGED <<compilerVars, mode, eax, stk, cip>>
Set(v) == eax' = v /\ eip' = After /\ UNCHANGED <<compilerVars, mode, stk, cip>>

Proc == Running("proc") /\ Goto(After)
Const == Running("const") /\ Set(Piece.arg)
Jump == Running("jump") /\ Goto(labels[Piece.arg])
Jzer == Running("jzer") /\ Goto(IF eax = 0 THEN labels[Piece.arg] ELSE After)

Call ==
  /\ Running("call") /\ Len(stk) < MaxDepth
  /\ stk' = <<Base + After>> \o stk /\ eip' = labels[Piece.arg]
  /\ UNCHANGED <<compilerVars, mode, eax, cip>>

\* Control is back in ExecHelper.
Finish == mode' = "idle" /\ eip' = 0 /\ stk' = <<>> /\ eax' = 0 /\ UNCHANGED <<compilerVars, cip>>

Retn ==
  /\ Running("retn")
  /\ IF Head(stk) = CallReturn THEN Finish
     ELSE eip' = Head(stk) - Base /\ stk' = Tail(stk) /\ UNCHANGED <<compilerVars, mode, eax, cip>>

\* With a bug: the last case is taken to be the maximum without looking.
SwitchDestLast(records) ==
  LET cases == 2..Len(records)
      match == {k \in cases : eax = records[k][1]}
      least == CHOOSE k \in cases : \A j \in cases : records[k][1] <= records[j][1]
  IN IF match = {} \/ eax < records[least][1] \/ eax > records[Len(records)][1]
     THEN records[1][2]
     ELSE records[CHOOSE k \in match : \A j \in match : k <= j][2]

\* A range check, then a chain of comparisons.
SwitchDest(records) ==
  LET cases == 2..Len(records)
      match == {k \in cases : eax = records[k][1]}
      below == \A k \in cases : eax < records[k][1]
      above == \A k \in cases : eax > records[k][1]
  IN IF below \/ above \/ match = {}
     THEN records[1][2]
     ELSE records[CHOOSE k \in match : \A j \in match : k <= j][2]

Switch == Running("switch") /\ Goto(labels[SwitchDest(Piece.arg)])

\* JumpHelper, for SCTRL 6 and JUMP.PRI: an address without an instruction is
\* ignored, the helper returns behind the call.
JumpHelper ==
  /\ Running("jump.helper")
  /\ Goto(IF GetJITInstrPtr(eax) # 0 THEN GetJITInstrPtr(eax) - Base ELSE After)

\* LCTRL 8 and SCTRL 8.  Scripts go only where LCTRL 8 has pointed them.
GetPtr == Running("lctrl8") /\ Set(GetJITInstrPtr(eax))
JumpPtr == Running("sctrl8") /\ eax >= Base /\ Goto(eax - Base)

\* PUSH.PRI of a return address.
PushPtr ==
  /\ Running("push.pri") /\ eax >= Base /\ Len(stk) < MaxDepth
  /\ stk' = <<eax>> \o stk /\ eip' = After
  /\ UNCHANGED <<compilerVars, mode, eax, cip>>

\* The script sleeps: amx->cip is found by the return address of the helper.
Sleep ==
  /\ mode' = "sleep" /\ cip' = GetANXAddressByJITInstrPtr(Base + After)
  /\ UNCHANGED <<compilerVars, eip, eax, stk>>

\* The helpers store amx->cip before the native runs; it returns, fails
\* (HaltHelper) or sleeps.
CallNative(address) ==
  /\ cip' = GetANXAddressByJITInstrPtr(Base + After)
  /\ UNCHANGED compilerVars
  /\ \/ /\ \E v \in Values[address] : eax' = v
        /\ \/ eip' = After /\ UNCHANGED mode
           \/ mode' = "sleep" /\ UNCHANGED eip
        /\ UNCHANGED stk
     \/ mode' = "idle" /\ eip' = 0 /\ stk' = <<>> /\ eax' = 0

\* SysreqCHelper: amx->callback finds the address.  SYSREQ.PRI has the number
\* of the native in PRI.
SysreqC == Running("sysreq.c") /\ CallNative(Address(Piece.arg))
SysreqPri == Running("sysreq.pri") /\ Native(eax) /\ CallNative(Address(eax))

\* SysreqDHelper.
SysreqD == Running("sysreq.d") /\ CallNative(Piece.arg)

\* Code in line for the function of a native.
Intrinsic == Running("intrinsic") /\ \E v \in Values[Intrinsics[Piece.arg]] : Set(v)

\* HaltHelper.
Halt == Running("halt") /\ IF Piece.arg = "SLEEP" THEN Sleep ELSE Finish

\* ExecContHelper.
Continue ==
  /\ mode = "sleep" /\ mode' = "run"
  /\ eip' = GetJITInstrPtr(cip) - Base
  /\ UNCHANGED <<compilerVars, eax, stk, cip>>

\* Bound: the stack is full; or there is no code to run, or no native.
Stop ==
  /\ \/ phase = "null"
     \/ /\ Running("call") \/ Running("push.pri")
        /\ Len(stk) = MaxDepth
     \/ Running("sysreq.pri") /\ ~Native(eax)
  /\ UNCHANGED vars

Next ==
  \/ mode = "idle" /\ CompilerNext /\ UNCHANGED flowVars
  \/ \E a \in prog.publics : Exec(a)
  \/ Proc \/ Const \/ Jump \/ Jzer \/ Call \/ Retn \/ Switch
  \/ JumpHelper \/ GetPtr \/ JumpPtr \/ PushPtr
  \/ SysreqC \/ SysreqPri \/ SysreqD \/ Intrinsic \/ Halt \/ Continue
  \/ Stop

Spec == Init /\ [][Next]_vars
-----------------------------------------------------------------------------
\* Types of the state.
TypeOK ==
  /\ bound \subseteq DOMAIN prog.natives /\ patched \subseteq DOMAIN prog.code
  /\ phase \in {"table", "decode", "ready", "null"} /\ mode \in {"idle", "run", "sleep"}
  /\ cur \in 0..prog.size /\ size \in Nat /\ entries \in Nat
  /\ DOMAIN map \subseteq DOMAIN prog.code /\ DOMAIN labels \subseteq DOMAIN prog.code
  /\ \A a \in DOMAIN labels : labels[a] \in 0..size \cup {None}
  /\ eip \in Nat /\ eax \in Nat /\ cip \in Nat /\ stk \in Seq(Nat)

\* What the two binary searches need, and what the reserved room needs: the
\* table has an entry for every instruction, no other entry, and it is in the
\* order of addresses and in the order of code.
TableOrdered ==
  phase = "ready" =>
    /\ DOMAIN table = 1..entries
    /\ {table[k].address : k \in DOMAIN table} = DOMAIN prog.code
    /\ \A j, k \in DOMAIN table : j < k => /\ table[j].address < table[k].address
                                           /\ table[j].ptr <= table[k].ptr

\* Every jump, call and case of finished code goes to the code of the
\* instruction it names: no label is left unbound, forward or backward.
LabelsBound ==
  phase = "ready" =>
    \A a \in DOMAIN prog.code : \A d \in Dests(prog, prog.code[a]) :
      d \in DOMAIN labels /\ labels[d] # None /\ Base + labels[d] = GetJITInstrPtr(d)

\* Where a script has been put to sleep it can be continued: the way from the
\* return address to an AMX address and back leads to the same place in code.
SleepReturns ==
  mode = "sleep" => GetJITInstrPtr(cip) = Base + After

\* Instruction addresses by position, for the refinement.
Effective == {a \in DOMAIN prog.code : ~EmitsNothing(prog.code[a])}
AddressAt(p) ==
  CHOOSE a \in Effective : map[a] >= p /\ \A b \in Effective : map[b] >= p => a <= b

\* What a return address stands for; -1 is the caller of amx_Exec.
AsPlace(ptr) == IF ptr = CallReturn THEN -1 ELSE AddressAt(ptr - Base)

\* CIP, PRI and the stack of the script.
FlowCip ==
  IF mode = "idle" THEN 0
  ELSE AddressAt(IF mode = "run" THEN eip ELSE GetJITInstrPtr(cip) - Base)
FlowPri == IF eax >= Base THEN <<"place", AddressAt(eax - Base)>> ELSE <<"num", eax>>
FlowStack == [k \in 1..Len(stk) |-> AsPlace(stk[k])]

Flow == INSTANCE ScriptFlow WITH cip <- FlowCip, pri <- FlowPri, stack <- FlowStack

\* Compiled code takes a script the way the definition of its instructions
\* takes it: over padding and empty instructions, through calls, switches,
\* computed jumps and sleep; and every native call is one of the right function,
\* whether it is made by number, by address or in line and whenever the function
\* has been registered.
GoesSameWay == Flow!Spec
=============================================================================
