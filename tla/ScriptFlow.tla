----------------------------- MODULE ScriptFlow -----------------------------
(***************************************************************************)
(* Where a script goes, by the definition of the AMX instructions that the *)
(* comments of compiler_impl.cpp quote.  Instructions without effect are   *)
(* passed over.  A number is <<"num", n>>; LCTRL 8 makes a <<"place", a>>  *)
(* of an address, SCTRL 8 and RETN go to a place.                          *)
(***************************************************************************)
EXTENDS Integers, Sequences

CONSTANTS
  Values,    \* what the function at each address may return
  MaxDepth   \* bound: return addresses on the stack

VARIABLES prog, mode, cip, pri, stack

Num(n) == <<"num", n>>
Place(a) == <<"place", a>>
Server == -1   \* the place of who has called amx_Exec

\* The first instruction from address a on that does something.
From(a) ==
  LET effective == {b \in DOMAIN prog.code :
                      b >= a /\ prog.code[b].op \notin {"nop", "casetbl"}}
  IN CHOOSE b \in effective : \A c \in effective : b <= c

Instr == prog.code[cip]
Width == IF Instr.op \in {"proc", "push.pri", "jump.pri", "retn", "sysreq.pri"}
         THEN 1 ELSE 2
Behind == From(cip + Width)
Running(op) == mode = "run" /\ Instr.op = op

Init == mode = "idle" /\ cip = 0 /\ pri = Num(0) /\ stack = <<>>

\* amx_Exec of the public function at a.
Exec(a) ==
  /\ mode = "idle" /\ mode' = "run"
  /\ cip' = From(a) /\ stack' = <<Server>>
  /\ UNCHANGED <<prog, pri>>

Goto(a) == cip' = a /\ UNCHANGED <<prog, mode, pri, stack>>
Set(v) == pri' = v /\ cip' = Behind /\ UNCHANGED <<prog, mode, stack>>

Proc == Running("proc") /\ Goto(Behind)
Const == Running("const") /\ Set(Num(Instr.arg))
Jump == Running("jump") /\ Goto(From(Instr.arg))
Jzer == Running("jzer") /\ Goto(IF pri = Num(0) THEN From(Instr.arg) ELSE Behind)

\* [STK] = CIP of the next instruction.
Call ==
  /\ Running("call") /\ Len(stack) < MaxDepth
  /\ stack' = <<Behind>> \o stack /\ cip' = From(Instr.arg)
  /\ UNCHANGED <<prog, mode, pri>>

Finish == mode' = "idle" /\ cip' = 0 /\ stack' = <<>> /\ pri' = Num(0) /\ UNCHANGED prog

Retn ==
  /\ Running("retn")
  /\ IF Head(stack) = Server THEN Finish
     ELSE cip' = Head(stack) /\ stack' = Tail(stack) /\ UNCHANGED <<prog, mode, pri>>

\* The record of PRI in the case table; the first one is for the default.
Switch ==
  /\ Running("switch")
  /\ LET records == prog.code[Instr.arg].arg
         match == {k \in DOMAIN records : k > 1 /\ pri = Num(records[k][1])}
         first == IF match = {} THEN 1 ELSE CHOOSE k \in match : \A j \in match : k <= j
     IN Goto(From(records[first][2]))

\* LCTRL 6: CIP of the next instruction.
GetCip == Running("lctrl6") /\ Set(Num(cip + Width))

\* SCTRL 6 and JUMP.PRI; an address where no instruction is is ignored.
SetCip ==
  /\ Running("sctrl6") \/ Running("jump.pri")
  /\ Goto(IF pri[1] = "num" /\ pri[2] \in DOMAIN prog.code THEN From(pri[2]) ELSE Behind)

GetPlace ==
  /\ Running("lctrl8")
  /\ Set(IF pri[1] = "num" /\ pri[2] \in DOMAIN prog.code THEN Place(From(pri[2])) ELSE Num(0))

SetPlace == Running("sctrl8") /\ pri[1] = "place" /\ Goto(pri[2])

PushPlace ==
  /\ Running("push.pri") /\ pri[1] = "place" /\ Len(stack) < MaxDepth
  /\ stack' = <<pri[2]>> \o stack /\ cip' = Behind
  /\ UNCHANGED <<prog, mode, pri>>

\* The script sleeps; it will go on behind this instruction.
Sleep == mode' = "sleep" /\ cip' = Behind /\ UNCHANGED <<prog, stack>>

\* A native function returns, or fails, or puts the script to sleep.  Natives
\* are called by number.
CallNative(n) ==
  \/ \E v \in Values[prog.natives[n].address] : Set(Num(v)) \/ (pri' = Num(v) /\ Sleep)
  \/ Finish
Sysreq == Running("sysreq.c") /\ CallNative(Instr.arg)
SysreqPri ==
  /\ Running("sysreq.pri") /\ pri[1] = "num" /\ pri[2] \in DOMAIN prog.natives
  /\ CallNative(pri[2])

Halt == Running("halt") /\ IF Instr.arg = "SLEEP" THEN Sleep /\ UNCHANGED pri ELSE Finish

\* amx_Exec with AMX_EXEC_CONT.
Continue == mode = "sleep" /\ mode' = "run" /\ UNCHANGED <<prog, cip, pri, stack>>

Next ==
  \/ \E a \in prog.publics : Exec(a)
  \/ Proc \/ Const \/ Jump \/ Jzer \/ Call \/ Retn \/ Switch
  \/ GetCip \/ SetCip \/ GetPlace \/ SetPlace \/ PushPlace
  \/ Sysreq \/ SysreqPri \/ Halt \/ Continue

Spec == Init /\ [][Next]_<<prog, mode, cip, pri, stack>>
=============================================================================
