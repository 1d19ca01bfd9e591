-------------------------- MODULE AMXRuntime_proofs --------------------------
(***************************************************************************)
(* Proofs about AMXRuntime, for every size of the stack, every nesting     *)
(* depth, with and without sleep support.                                  *)
(***************************************************************************)
EXTENDS AMXRuntime, SequenceTheorems, TLAPS

-----------------------------------------------------------------------------
(* Pushing and popping frames. *)

LEMMA PushOne ==
  ASSUME NEW S, NEW s \in Seq(S), NEW x
  PROVE  LET t == Append(s, x)
         IN /\ t \in Seq(S \cup {x})
            /\ Len(t) = Len(s) + 1
            /\ DOMAIN t = 1..(Len(s) + 1)
            /\ t # <<>>
            /\ \A i \in 1..Len(s) : t[i] = s[i]
            /\ t[Len(s) + 1] = x
<1>1. s \in Seq(S \cup {x})
  OBVIOUS
<1> QED
  BY <1>1, AppendProperties

LEMMA PushTwo ==
  ASSUME NEW S, NEW s \in Seq(S), NEW x, NEW y
  PROVE  LET t == s \o <<x, y>>
         IN /\ t \in Seq(S \cup {x, y})
            /\ Len(t) = Len(s) + 2
            /\ DOMAIN t = 1..(Len(s) + 2)
            /\ t # <<>>
            /\ \A i \in 1..Len(s) : t[i] = s[i]
            /\ t[Len(s) + 1] = x
            /\ t[Len(s) + 2] = y
<1>1. s \in Seq(S \cup {x, y}) /\ <<x, y>> \in Seq(S \cup {x, y})
  OBVIOUS
<1>2. Len(<<x, y>>) = 2 /\ <<x, y>>[1] = x /\ <<x, y>>[2] = y
  OBVIOUS
<1> QED
  BY <1>1, <1>2, ConcatProperties

LEMMA Cut ==
  ASSUME NEW S, NEW s \in Seq(S), NEW n \in 0..Len(s)
  PROVE  LET t == SubSeq(s, 1, n)
         IN /\ t \in Seq(S)
            /\ Len(t) = n
            /\ DOMAIN t = 1..n
            /\ t = <<>> <=> n = 0
            /\ \A i \in 1..n : t[i] = s[i]
<1>1. SubSeq(s, 1, n) \in Seq(S) /\ Len(SubSeq(s, 1, n)) = n
  BY SubSeqProperties
<1>2. \A i \in 1..n : SubSeq(s, 1, n)[i] = s[i]
  BY SubSeqProperties
<1> QED
  BY <1>1, <1>2, LenProperties, EmptySeq

-----------------------------------------------------------------------------
(* Switching stacks: the discipline of the native stack is inductive. *)

IsPile == \E S : nstack \in Seq(S)

\* rib and cpu are records with (at least) the stack pointers.
HavePointers ==
  /\ {"esp", "ebp", "reset_ebp", "reset_esp", "reset_stk", "reset_hea"} \subseteq DOMAIN rib
  /\ {"esp", "ebp", "esi"} \subseteq DOMAIN cpu

NativeInv == IsPile /\ HavePointers /\ NativeStackOK

\* What a step does to the native side when Exec enters the script, ...
Enters ==
  /\ running = "native" /\ running' = "amx"
  /\ \E reset : /\ reset = rib \/ (SleepEnabled /\ reset = ResetGarbage)
                /\ nstack' = nstack \o <<ExecFrame(reset), HelperFrame>>
  /\ rib'.ebp = cpu.esp + 1 /\ rib'.esp = cpu.esp + 2

\* ... when the script calls a native function, ...
CallsNative ==
  /\ running = "amx" /\ running' = "native"
  /\ nstack' = Append(SubSeq(nstack, 1, rib.esp), NativeFrame)
  /\ rib'.ebp = rib.ebp /\ rib'.esp = rib.esp
  /\ rib'.reset_stk = rib.reset_stk /\ rib'.reset_ebp = rib.reset_ebp
  /\ rib'.reset_esp = rib.reset_esp /\ rib'.reset_hea = rib.reset_hea
  /\ cpu'.esp = rib.esp + 1 /\ cpu'.ebp = rib.ebp /\ cpu'.esi \in Sites

\* ... when the native function returns to the script, ...
Resumes ==
  /\ running = "native" /\ running' = "amx" /\ nstack # <<>>
  /\ nstack' = SubSeq(nstack, 1, cpu.esp - 1)
  /\ rib' = rib
  /\ cpu'.ip = cpu.esi /\ cpu'.ecx = nstack[cpu.esp].alt
  /\ cpu'.esp = nstack[cpu.esp].amx_esp /\ cpu'.ebp = nstack[cpu.esp].amx_ebp

\* ... when the script is left, halted by itself or by its native, ...
LeavesScript ==
  /\ nstack # <<>> /\ running' = "native"
  /\ nstack' = SubSeq(nstack, 1, rib.ebp - 1)
  /\ rib'.ebp = nstack[rib.esp].ebp /\ rib'.esp = nstack[rib.esp].esp
  /\ cpu'.esp = rib.ebp - 1 /\ cpu'.ebp = nstack[rib.ebp].ebp
  /\ cpu'.esi = nstack[rib.esp - 1].esi /\ cpu'.edi = nstack[rib.esp].edi
  /\ rib'.reset_ebp = nstack[rib.ebp].reset_ebp /\ rib'.reset_esp = nstack[rib.ebp].reset_esp
  /\ rib'.reset_stk = nstack[rib.ebp].reset_stk /\ rib'.reset_hea = nstack[rib.ebp].reset_hea

\* ... and when it stays where it is.
Stays ==
  /\ running' = running /\ nstack' = nstack /\ rib' = rib
  /\ running = "native" => cpu' = cpu

\* Every step of the code is one of these.
LEMMA StepKinds ==
  ASSUME NativeInv, [Next]_vars
  PROVE  Enters \/ CallsNative \/ Resumes \/ LeavesScript \/ Stays
<1> USE DEF NativeInv
<1>1. CASE UNCHANGED vars
  BY <1>1 DEF vars, Stays
<1>2. CASE Caller
  <2>1. CASE RegisterNatives \/ (\E v \in Values : PushParam(v))
                             \/ (\E b \in BOOLEAN : ExecRefused(b))
    BY <2>1 DEF RegisterNatives, PushParam, ExecRefused, Stays
  <2>2. CASE \E f \in Functions : ExecPublic(f)
    <3>1. PICK f \in Functions : ExecPublic(f)
      BY <2>2
    <3>2. rib'.ebp = cpu.esp + 1 /\ rib'.esp = cpu.esp + 2
      BY <3>1 DEF ExecPublic
    <3>3. nstack' = nstack \o <<ExecFrame(rib), HelperFrame>>
      BY <3>1 DEF ExecPublic
    <3> QED
      BY <3>1, <3>2, <3>3 DEF ExecPublic, Enters
  <2>3. CASE ExecCont
    BY <2>3 DEF ExecCont, Enters
  <2> QED
    BY <1>2, <2>1, <2>2, <2>3 DEF Caller
<1>3. CASE Instruction
  <2>0. running = "amx" => nstack # <<>>
    BY DEF NativeStackOK, TopOK
  <2>1. CASE \E v \in Values : OpConst(v)
    BY <2>1 DEF OpConst, Script, Stays
  <2>2. CASE OpPushPri \/ OpPopPri \/ OpRetn
    BY <2>2 DEF OpPushPri, OpPopPri, OpRetn, Script, Stays
  <2>3. CASE \E n \in {-1, 1}, v \in Values : OpStack(n, v) \/ OpHeap(n, v)
    BY <2>3 DEF OpStack, OpHeap, Script, Stays
  <2>4. CASE \E f \in Functions, s \in Sites, n \in 0..MaxParams : OpCall(f, s, n)
    BY <2>4 DEF OpCall, Script, Stays
  <2>5. CASE \E error \in HaltErrors, s \in Sites : OpHalt(error, s)
    BY <2>0, <2>5 DEF OpHalt, Script, HaltHelper, LeaveExec, LeavesScript
  <2>6. CASE \E s \in Sites : OpSysreq(s)
    <3>1. PICK s \in Sites : OpSysreq(s)
      BY <2>6
    <3>2. rib'.esp = rib.esp /\ rib'.ebp = rib.ebp
          /\ rib'.reset_stk = rib.reset_stk /\ rib'.reset_ebp = rib.reset_ebp
          /\ rib'.reset_esp = rib.reset_esp /\ rib'.reset_hea = rib.reset_hea
      BY <3>1 DEF OpSysreq, HavePointers
    <3>3. cpu'.esp = rib.esp + 1 /\ cpu'.ebp = rib.ebp /\ cpu'.esi \in Sites
      BY <3>1 DEF OpSysreq, HavePointers
    <3> QED
      BY <3>1, <3>2, <3>3 DEF OpSysreq, Script, CallsNative
  <2> QED
    BY <1>3, <2>1, <2>2, <2>3, <2>4, <2>5, <2>6 DEF Instruction
<1>4. CASE Native
  <2>1. CASE \E v \in Values : SysreqCReturn(v) \/ SysreqDReturn(v)
    BY <2>1 DEF SysreqCReturn, SysreqDReturn, InNative, ResumeScript, Resumes
  <2>2. CASE \E error \in HaltErrors, v \in Values : NativeError(error, v)
    BY <2>2 DEF NativeError, InNative, HaltHelper, LeaveExec, LeavesScript
  <2> QED
    BY <1>4, <2>1, <2>2 DEF Native
<1>5. CASE ReturnToExec
  BY <1>5 DEF ReturnToExec, LeaveExec, LeavesScript, NativeStackOK, TopOK
<1> QED
  BY <1>1, <1>2, <1>3, <1>4, <1>5 DEF Next

LEMMA NativeInvInit == Init => NativeInv
<1> SUFFICES ASSUME Init PROVE NativeInv
  OBVIOUS
<1>1. IsPile
  <2>1. nstack \in Seq({})
    BY DEF Init
  <2> QED
    BY <2>1 DEF IsPile
<1>2. HavePointers
  BY DEF Init, HavePointers
<1>3. NativeStackOK
  BY DEF Init, NativeStackOK, FramesOK, TopOK, LabelsOK, SavedLabelsOK, CallerEbpOK
<1> QED
  BY <1>1, <1>2, <1>3 DEF NativeInv

\* The shape of the pile below the top, by who runs.
LEMMA PileShape ==
  ASSUME NativeInv
  PROVE  /\ Len(nstack) \in Nat /\ DOMAIN nstack = 1..Len(nstack)
         /\ nstack = <<>> <=> Len(nstack) = 0
         /\ running = "amx" => /\ Len(nstack) >= 2
                               /\ nstack[Len(nstack) - 1].kind = "exec"
                               /\ Len(nstack) > 2 =>
                                    Len(nstack) >= 5 /\ nstack[Len(nstack) - 2].kind = "native"
         /\ (running = "native" /\ nstack # <<>>) =>
              /\ Len(nstack) >= 3
              /\ nstack[Len(nstack) - 1].kind = "helper"
              /\ nstack[Len(nstack) - 2].kind = "exec"
              /\ Len(nstack) > 3 =>
                    Len(nstack) >= 6 /\ nstack[Len(nstack) - 3].kind = "native"
<1>1. PICK S : nstack \in Seq(S)
  BY DEF NativeInv, IsPile
<1>2. Len(nstack) \in Nat /\ DOMAIN nstack = 1..Len(nstack) /\ (nstack = <<>> <=> Len(nstack) = 0)
  BY <1>1, LenProperties, EmptySeq
<1>3. \A i \in 1..Len(nstack) :
        /\ nstack[i].kind = "exec" => i = 1 \/ (i > 1 /\ nstack[i - 1].kind = "native")
        /\ nstack[i].kind = "helper" => i > 1 /\ nstack[i - 1].kind = "exec"
        /\ nstack[i].kind = "native" => i > 1 /\ nstack[i - 1].kind = "helper"
  <2> TAKE i \in 1..Len(nstack)
  <2>1. IF i = 1 THEN nstack[i].kind = "exec" ELSE Above(nstack[i].kind, nstack[i - 1].kind)
    BY <1>2 DEF NativeInv, NativeStackOK, FramesOK
  <2>2. i = 1 \/ i > 1
    BY <1>2
  <2> QED
    BY <2>1, <2>2 DEF Above
<1>4. running = "amx" => Len(nstack) > 0 /\ nstack[Len(nstack)].kind = "helper"
  BY <1>2 DEF NativeInv, NativeStackOK, TopOK
<1>5. (running = "native" /\ nstack # <<>>) => Len(nstack) > 0 /\ nstack[Len(nstack)].kind = "native"
  BY <1>2 DEF NativeInv, NativeStackOK, TopOK
<1>6. running = "amx" => /\ Len(nstack) >= 2 /\ nstack[Len(nstack) - 1].kind = "exec"
                         /\ Len(nstack) > 2 =>
                              Len(nstack) >= 5 /\ nstack[Len(nstack) - 2].kind = "native"
  <2> SUFFICES ASSUME running = "amx"
               PROVE  /\ Len(nstack) >= 2 /\ nstack[Len(nstack) - 1].kind = "exec"
                      /\ Len(nstack) > 2 =>
                           Len(nstack) >= 5 /\ nstack[Len(nstack) - 2].kind = "native"
    OBVIOUS
  <2>1. Len(nstack) >= 2 /\ nstack[Len(nstack) - 1].kind = "exec"
    BY <1>2, <1>3, <1>4
  <2>2. Len(nstack) > 2 => Len(nstack) - 2 \in 1..Len(nstack) /\ nstack[Len(nstack) - 2].kind = "native"
    BY <1>2, <1>3, <2>1
  <2>3. Len(nstack) > 2 => Len(nstack) - 3 \in 1..Len(nstack) /\ nstack[Len(nstack) - 3].kind = "helper"
    BY <1>2, <1>3, <2>2
  <2>4. Len(nstack) > 2 => Len(nstack) - 4 \in 1..Len(nstack)
    BY <1>2, <1>3, <2>3
  <2> QED
    BY <1>2, <2>1, <2>2, <2>4
<1>7. (running = "native" /\ nstack # <<>>) =>
         /\ Len(nstack) >= 3
         /\ nstack[Len(nstack) - 1].kind = "helper"
         /\ nstack[Len(nstack) - 2].kind = "exec"
         /\ Len(nstack) > 3 =>
               Len(nstack) >= 6 /\ nstack[Len(nstack) - 3].kind = "native"
  <2> SUFFICES ASSUME running = "native", nstack # <<>>
               PROVE  /\ Len(nstack) >= 3
                      /\ nstack[Len(nstack) - 1].kind = "helper"
                      /\ nstack[Len(nstack) - 2].kind = "exec"
                      /\ Len(nstack) > 3 =>
                            Len(nstack) >= 6 /\ nstack[Len(nstack) - 3].kind = "native"
    OBVIOUS
  <2>1. Len(nstack) - 1 \in 1..Len(nstack) /\ nstack[Len(nstack) - 1].kind = "helper"
    BY <1>2, <1>3, <1>5
  <2>2. Len(nstack) - 2 \in 1..Len(nstack) /\ nstack[Len(nstack) - 2].kind = "exec"
    BY <1>2, <1>3, <2>1
  <2>3. Len(nstack) > 3 => Len(nstack) - 3 \in 1..Len(nstack) /\ nstack[Len(nstack) - 3].kind = "native"
    BY <1>2, <1>3, <2>2
  <2>4. Len(nstack) > 3 => Len(nstack) - 4 \in 1..Len(nstack) /\ nstack[Len(nstack) - 4].kind = "helper"
    BY <1>2, <1>3, <2>3
  <2>5. Len(nstack) > 3 => Len(nstack) - 5 \in 1..Len(nstack)
    BY <1>2, <1>3, <2>4
  <2> QED
    BY <1>2, <2>1, <2>2, <2>3, <2>5
<1> QED
  BY <1>2, <1>6, <1>7

\* The parts of FramesOK, SavedLabelsOK and CallerEbpOK about frame i.
FrameFits(i) ==
  /\ IF i = 1 THEN nstack[i].kind = "exec" ELSE Above(nstack[i].kind, nstack[i - 1].kind)
  /\ nstack[i].kind = "helper" =>
       IF i = 2 THEN nstack[i].esp = 0 /\ nstack[i].ebp = 0
                ELSE nstack[i].esp = i - 3 /\ nstack[i].ebp = i - 4
  /\ nstack[i].kind = "exec" => nstack[i].ebp = IF i = 1 THEN 0 ELSE i - 3

LEMMA FramesFit ==
  ASSUME NativeStackOK, NEW i \in DOMAIN nstack
  PROVE  FrameFits(i)
BY DEF FrameFits, NativeStackOK, FramesOK, SavedLabelsOK, CallerEbpOK

\* A step that keeps the lower frames keeps what holds of them.
LEMMA KeptFramesFit ==
  ASSUME NativeInv, NEW n \in 0..Len(nstack), \A i \in 1..n : nstack'[i] = nstack[i]
  PROVE  \A i \in 1..n : FrameFits(i)'
<1> TAKE i \in 1..n
<1>1. DOMAIN nstack = 1..Len(nstack) /\ Len(nstack) \in Nat
  BY PileShape
<1>2. FrameFits(i)
  BY <1>1, FramesFit DEF NativeInv
<1>3. nstack'[i] = nstack[i] /\ (i # 1 => nstack'[i - 1] = nstack[i - 1])
  BY <1>1
<1> QED
  BY <1>2, <1>3 DEF FrameFits

LEMMA EnterKeeps == NativeInv /\ Enters => IsPile' /\ NativeStackOK'
<1> SUFFICES ASSUME NativeInv, Enters PROVE IsPile' /\ NativeStackOK'
  OBVIOUS
<1>1. PICK reset : nstack' = nstack \o <<ExecFrame(reset), HelperFrame>>
  BY DEF Enters
<1> DEFINE x == ExecFrame(reset)
<1>0. PICK n \in Nat : n = Len(nstack)
  BY PileShape
<1>2. PICK S : nstack \in Seq(S)
  BY DEF NativeInv, IsPile
<1>3. /\ nstack' \in Seq(S \cup {x, HelperFrame})
      /\ Len(nstack') = n + 2 /\ DOMAIN nstack' = 1..(n + 2) /\ nstack' # <<>>
      /\ \A i \in 1..n : nstack'[i] = nstack[i]
      /\ nstack'[n + 1] = x /\ nstack'[n + 2] = HelperFrame
  BY <1>0, <1>1, <1>2, PushTwo
<1>4. n \in Nat /\ DOMAIN nstack = 1..n /\ (nstack = <<>> <=> n = 0)
  BY <1>0, PileShape
<1>5. x.kind = "exec" /\ x.ebp = cpu.ebp
  BY DEF ExecFrame
<1>6. HelperFrame.kind = "helper" /\ HelperFrame.ebp = rib.ebp /\ HelperFrame.esp = rib.esp
  BY DEF HelperFrame
<1>7. cpu.esp = n /\ cpu.ebp = (IF n = 0 THEN 0 ELSE n - 2)
  BY <1>0, <1>4 DEF NativeInv, NativeStackOK, CallerEbpOK, Enters
<1>8. rib'.ebp = n + 1 /\ rib'.esp = n + 2 /\ running' = "amx"
  BY <1>7 DEF Enters
<1>9. n > 0 => nstack[n].kind = "native" /\ n >= 3
  BY <1>0, <1>4, PileShape DEF NativeInv, NativeStackOK, TopOK, Enters
<1>10. (n = 0 => rib.esp = 0 /\ rib.ebp = 0) /\ (n > 0 => rib.esp = n - 1 /\ rib.ebp = n - 2)
  BY <1>0, <1>4 DEF NativeInv, NativeStackOK, LabelsOK, Enters
<1>11. \A i \in 1..n : FrameFits(i)'
  BY <1>0, <1>3, <1>4, KeptFramesFit
<1> HIDE DEF x
<1>12. FrameFits(n + 1)'
  <2>1. n > 0 => nstack'[n + 1 - 1].kind = "native"
    BY <1>3, <1>4, <1>9
  <2> QED
    BY <2>1, <1>3, <1>4, <1>5, <1>7 DEF FrameFits, Above
<1>13. FrameFits(n + 2)'
  <2>1. nstack'[n + 2 - 1].kind = "exec"
    BY <1>3, <1>4, <1>5
  <2> QED
    BY <2>1, <1>3, <1>4, <1>6, <1>10 DEF FrameFits, Above
<1>14. \A i \in DOMAIN nstack' : FrameFits(i)'
  <2> TAKE i \in DOMAIN nstack'
  <2>1. i \in 1..n \/ i = n + 1 \/ i = n + 2
    BY <1>3, <1>4
  <2> QED
    BY <2>1, <1>11, <1>12, <1>13
<1>15. TopOK'
  BY <1>3, <1>6, <1>8 DEF TopOK
<1>16. LabelsOK'
  BY <1>3, <1>4, <1>8 DEF LabelsOK
<1>17. NativeStackOK'
  BY <1>8, <1>14, <1>15, <1>16
  DEF NativeStackOK, FrameFits, FramesOK, SavedLabelsOK, CallerEbpOK
<1> QED
  BY <1>3, <1>17 DEF IsPile

LEMMA CallKeeps == NativeInv /\ CallsNative => IsPile' /\ NativeStackOK'
<1> SUFFICES ASSUME NativeInv, CallsNative PROVE IsPile' /\ NativeStackOK'
  OBVIOUS
<1>0. PICK n \in Nat : n = Len(nstack)
  BY PileShape
<1>1. /\ DOMAIN nstack = 1..n /\ n >= 2 /\ nstack # <<>>
      /\ nstack[n].kind = "helper" /\ rib.esp = n /\ rib.ebp = n - 1
  BY <1>0, PileShape DEF NativeInv, NativeStackOK, TopOK, LabelsOK, CallsNative
<1>2. PICK S : nstack \in Seq(S)
  BY DEF NativeInv, IsPile
<1>3. SubSeq(nstack, 1, n) = nstack
  BY <1>0, <1>2, SubSeqFull
<1>4. nstack' = Append(nstack, NativeFrame)
  BY <1>1, <1>3 DEF CallsNative
<1>5. /\ nstack' \in Seq(S \cup {NativeFrame})
      /\ Len(nstack') = n + 1 /\ DOMAIN nstack' = 1..(n + 1) /\ nstack' # <<>>
      /\ \A i \in 1..n : nstack'[i] = nstack[i]
      /\ nstack'[n + 1] = NativeFrame
  BY <1>0, <1>2, <1>4, PushOne
<1>6. NativeFrame.kind = "native"
  BY DEF NativeFrame
<1>7. running' = "native" /\ rib'.esp = n /\ rib'.ebp = n - 1 /\ cpu'.esp = n + 1 /\ cpu'.ebp = n - 1
  BY <1>1 DEF CallsNative
<1>8. \A i \in 1..n : FrameFits(i)'
  BY <1>0, <1>5, KeptFramesFit
<1>9. FrameFits(n + 1)'
  <2>1. nstack'[n + 1 - 1].kind = "helper"
    BY <1>1, <1>5
  <2> QED
    BY <2>1, <1>1, <1>5, <1>6 DEF FrameFits, Above
<1>10. \A i \in DOMAIN nstack' : FrameFits(i)'
  <2> TAKE i \in DOMAIN nstack'
  <2>1. i \in 1..n \/ i = n + 1
    BY <1>5
  <2> QED
    BY <2>1, <1>8, <1>9
<1>11. TopOK'
  BY <1>5, <1>6, <1>7 DEF TopOK
<1>12. LabelsOK'
  BY <1>5, <1>7 DEF LabelsOK
<1>13. NativeStackOK'
  BY <1>5, <1>7, <1>10, <1>11, <1>12
  DEF NativeStackOK, FrameFits, FramesOK, SavedLabelsOK, CallerEbpOK
<1> QED
  BY <1>5, <1>13 DEF IsPile

LEMMA ResumeKeeps == NativeInv /\ Resumes => IsPile' /\ NativeStackOK'
<1> SUFFICES ASSUME NativeInv, Resumes PROVE IsPile' /\ NativeStackOK'
  OBVIOUS
<1>0. PICK n \in Nat : n = Len(nstack)
  BY PileShape
<1>1. /\ DOMAIN nstack = 1..n /\ n >= 3 /\ nstack[n - 1].kind = "helper"
      /\ rib.esp = n - 1 /\ rib.ebp = n - 2 /\ cpu.esp = n
  BY <1>0, PileShape DEF NativeInv, NativeStackOK, LabelsOK, CallerEbpOK, Resumes
<1>2. PICK S : nstack \in Seq(S)
  BY DEF NativeInv, IsPile
<1>3. /\ nstack' \in Seq(S)
      /\ Len(nstack') = n - 1 /\ DOMAIN nstack' = 1..(n - 1) /\ nstack' # <<>>
      /\ \A i \in 1..(n - 1) : nstack'[i] = nstack[i]
  <2>1. nstack' = SubSeq(nstack, 1, n - 1) /\ n - 1 \in 0..Len(nstack)
    BY <1>0, <1>1 DEF Resumes
  <2> QED
    BY <1>1, <1>2, <2>1, Cut
<1>4. running' = "amx" /\ rib' = rib
  BY DEF Resumes
<1>5. \A i \in 1..(n - 1) : FrameFits(i)'
  BY <1>0, <1>1, <1>3, KeptFramesFit
<1>6. TopOK'
  BY <1>1, <1>3, <1>4 DEF TopOK
<1>7. LabelsOK'
  BY <1>1, <1>3, <1>4 DEF LabelsOK
<1>8. NativeStackOK'
  BY <1>3, <1>4, <1>5, <1>6, <1>7
  DEF NativeStackOK, FrameFits, FramesOK, SavedLabelsOK, CallerEbpOK
<1> QED
  BY <1>3, <1>8 DEF IsPile

\* Where the innermost activation begins: Exec's frame follows m frames.
LEMMA Innermost ==
  ASSUME NativeInv, nstack # <<>>
  PROVE  \E m \in 0..Len(nstack) :
           /\ m + 2 \in DOMAIN nstack
           /\ rib.ebp = m + 1 /\ rib.esp = m + 2
           /\ nstack[m + 1].kind = "exec" /\ nstack[m + 2].kind = "helper"
           /\ m = 0 \/ (m >= 3 /\ nstack[m].kind = "native")
           /\ running = "amx" => Len(nstack) = m + 2
           /\ running = "native" => Len(nstack) = m + 3
<1>0. Len(nstack) \in Nat /\ DOMAIN nstack = 1..Len(nstack)
  BY PileShape
<1>1. CASE running = "amx"
  <2>1. /\ Len(nstack) >= 2 /\ nstack[Len(nstack) - 1].kind = "exec"
        /\ nstack[Len(nstack)].kind = "helper"
        /\ Len(nstack) > 2 => Len(nstack) >= 5 /\ nstack[Len(nstack) - 2].kind = "native"
    BY <1>1, PileShape DEF NativeInv, NativeStackOK, TopOK
  <2>2. rib.esp = Len(nstack) /\ rib.ebp = Len(nstack) - 1
    BY <1>1 DEF NativeInv, NativeStackOK, LabelsOK
  <2>3. PICK m \in 0..Len(nstack) : m = Len(nstack) - 2
    <3>1. Len(nstack) - 2 \in 0..Len(nstack)
      BY <1>0, <2>1
    <3> QED
      BY <3>1
  <2>5. m + 1 = Len(nstack) - 1 /\ m + 2 = Len(nstack) - 0
    BY <1>0, <2>3
  <2>6. nstack[m + 1].kind = "exec" /\ nstack[m + 2].kind = "helper"
    BY <1>0, <2>1, <2>5
  <2>4. /\ m + 2 \in DOMAIN nstack
        /\ rib.ebp = m + 1 /\ rib.esp = m + 2
        /\ nstack[m + 1].kind = "exec" /\ nstack[m + 2].kind = "helper"
        /\ m = 0 \/ (m >= 3 /\ nstack[m].kind = "native")
        /\ running = "amx" => Len(nstack) = m + 2
        /\ running = "native" => Len(nstack) = m + 3
    BY <1>0, <1>1, <2>1, <2>2, <2>3, <2>5, <2>6
  <2> QED
    BY <2>4
<1>2. CASE running = "native"
  <2>1. /\ Len(nstack) >= 3 /\ nstack[Len(nstack) - 1].kind = "helper"
        /\ nstack[Len(nstack) - 2].kind = "exec"
        /\ Len(nstack) > 3 => Len(nstack) >= 6 /\ nstack[Len(nstack) - 3].kind = "native"
    BY <1>2, PileShape
  <2>2. rib.esp = Len(nstack) - 1 /\ rib.ebp = Len(nstack) - 2
    BY <1>0, <1>2 DEF NativeInv, NativeStackOK, LabelsOK
  <2>3. PICK m \in 0..Len(nstack) : m = Len(nstack) - 3
    <3>1. Len(nstack) - 3 \in 0..Len(nstack)
      BY <1>0, <2>1
    <3> QED
      BY <3>1
  <2>5. m + 1 = Len(nstack) - 2 /\ m + 2 = Len(nstack) - 1
    BY <1>0, <2>3
  <2>6. nstack[m + 1].kind = "exec" /\ nstack[m + 2].kind = "helper"
    BY <1>0, <2>1, <2>5
  <2>4. /\ m + 2 \in DOMAIN nstack
        /\ rib.ebp = m + 1 /\ rib.esp = m + 2
        /\ nstack[m + 1].kind = "exec" /\ nstack[m + 2].kind = "helper"
        /\ m = 0 \/ (m >= 3 /\ nstack[m].kind = "native")
        /\ running = "amx" => Len(nstack) = m + 2
        /\ running = "native" => Len(nstack) = m + 3
    BY <1>0, <1>2, <2>1, <2>2, <2>3, <2>5, <2>6
  <2> QED
    BY <2>4
<1> QED
  BY <1>1, <1>2 DEF NativeInv, NativeStackOK, TopOK

LEMMA LeaveKeeps == NativeInv /\ LeavesScript => IsPile' /\ NativeStackOK'
<1> SUFFICES ASSUME NativeInv, LeavesScript PROVE IsPile' /\ NativeStackOK'
  OBVIOUS
<1>0. Len(nstack) \in Nat /\ DOMAIN nstack = 1..Len(nstack)
  BY PileShape
<1>1. PICK m \in 0..Len(nstack) :
           /\ m + 2 \in DOMAIN nstack
           /\ rib.ebp = m + 1 /\ rib.esp = m + 2
           /\ nstack[m + 1].kind = "exec" /\ nstack[m + 2].kind = "helper"
           /\ m = 0 \/ (m >= 3 /\ nstack[m].kind = "native")
  BY Innermost DEF LeavesScript
<1>2. PICK S : nstack \in Seq(S)
  BY DEF NativeInv, IsPile
<1>3. nstack' = SubSeq(nstack, 1, m)
  BY <1>1 DEF LeavesScript
<1>4. /\ nstack' \in Seq(S)
      /\ Len(nstack') = m /\ DOMAIN nstack' = 1..m /\ (nstack' = <<>> <=> m = 0)
      /\ \A i \in 1..m : nstack'[i] = nstack[i]
  BY <1>1, <1>2, <1>3, Cut
<1>5. FrameFits(m + 1) /\ FrameFits(m + 2)
  BY <1>0, <1>1, FramesFit DEF NativeInv
<1>6. /\ rib'.esp = (IF m = 0 THEN 0 ELSE m - 1) /\ rib'.ebp = (IF m = 0 THEN 0 ELSE m - 2)
      /\ cpu'.esp = m /\ cpu'.ebp = (IF m = 0 THEN 0 ELSE m - 2)
  BY <1>1, <1>5 DEF LeavesScript, FrameFits
<1>7. running' = "native"
  BY DEF LeavesScript
<1>8. \A i \in 1..m : FrameFits(i)'
  BY <1>4, KeptFramesFit
<1>9. TopOK'
  BY <1>1, <1>4, <1>7 DEF TopOK
<1>10. LabelsOK'
  BY <1>4, <1>6, <1>7 DEF LabelsOK
<1>11. NativeStackOK'
  BY <1>4, <1>6, <1>7, <1>8, <1>9, <1>10
  DEF NativeStackOK, FrameFits, FramesOK, SavedLabelsOK, CallerEbpOK
<1> QED
  BY <1>4, <1>11 DEF IsPile

LEMMA StayKeeps == NativeInv /\ Stays => IsPile' /\ NativeStackOK'
BY DEF NativeInv, Stays, IsPile, NativeStackOK, FramesOK, TopOK, LabelsOK,
       SavedLabelsOK, CallerEbpOK

LEMMA PointersKeep == NativeInv /\ [Next]_vars => HavePointers'
<1> SUFFICES ASSUME NativeInv, [Next]_vars PROVE HavePointers'
  OBVIOUS
<1>0. HavePointers
  BY DEF NativeInv
<1>1. CASE UNCHANGED vars
  BY <1>0, <1>1 DEF vars, HavePointers
<1>2. CASE Caller
  <2>1. CASE RegisterNatives \/ (\E v \in Values : PushParam(v))
                             \/ (\E b \in BOOLEAN : ExecRefused(b))
    BY <1>0, <2>1 DEF RegisterNatives, PushParam, ExecRefused, HavePointers
  <2>2. CASE \E f \in Functions : ExecPublic(f)
    BY <1>0, <2>2 DEF ExecPublic, HavePointers
  <2>3. CASE ExecCont
    BY <1>0, <2>3 DEF ExecCont, HavePointers
  <2> QED
    BY <1>2, <2>1, <2>2, <2>3 DEF Caller
<1>3. CASE Instruction
  <2>1. CASE \E v \in Values : OpConst(v)
    BY <1>0, <2>1 DEF OpConst, HavePointers
  <2>2. CASE OpPushPri
    BY <1>0, <2>2 DEF OpPushPri, HavePointers
  <2>3. CASE OpPopPri
    BY <1>0, <2>3 DEF OpPopPri, HavePointers
  <2>4. CASE \E n \in {-1, 1}, v \in Values : OpStack(n, v)
    BY <1>0, <2>4 DEF OpStack, HavePointers
  <2>5. CASE \E n \in {-1, 1}, v \in Values : OpHeap(n, v)
    BY <1>0, <2>5 DEF OpHeap, HavePointers
  <2>6. CASE \E f \in Functions, s \in Sites, n \in 0..MaxParams : OpCall(f, s, n)
    BY <1>0, <2>6 DEF OpCall, HavePointers
  <2>7. CASE OpRetn
    BY <1>0, <2>7 DEF OpRetn, HavePointers
  <2>8. CASE \E error \in HaltErrors, s \in Sites : OpHalt(error, s)
    BY <2>8 DEF OpHalt, HaltHelper, LeaveExec, HavePointers
  <2>9. CASE \E s \in Sites : OpSysreq(s)
    BY <1>0, <2>9 DEF OpSysreq, HavePointers
  <2> QED
    BY <1>3, <2>1, <2>2, <2>3, <2>4, <2>5, <2>6, <2>7, <2>8, <2>9 DEF Instruction
<1>4. CASE Native
  <2>1. CASE \E v \in Values : SysreqCReturn(v) \/ SysreqDReturn(v)
    BY <1>0, <2>1 DEF SysreqCReturn, SysreqDReturn, ResumeScript, HavePointers
  <2>2. CASE \E error \in HaltErrors, v \in Values : NativeError(error, v)
    BY <2>2 DEF NativeError, HaltHelper, LeaveExec, HavePointers
  <2> QED
    BY <1>4, <2>1, <2>2 DEF Native
<1>5. CASE ReturnToExec
  BY <1>5 DEF ReturnToExec, LeaveExec, HavePointers
<1> QED
  BY <1>1, <1>2, <1>3, <1>4, <1>5 DEF Next

LEMMA NativeInvStep == NativeInv /\ [Next]_vars => NativeInv'
<1> SUFFICES ASSUME NativeInv, [Next]_vars PROVE NativeInv'
  OBVIOUS
<1>1. IsPile' /\ NativeStackOK'
  BY StepKinds, EnterKeeps, CallKeeps, ResumeKeeps, LeaveKeeps, StayKeeps
<1>2. HavePointers'
  BY PointersKeep
<1> QED
  BY <1>1, <1>2 DEF NativeInv

\* The native stack is a pile of whole frames to which the labels lead, after
\* every step of every helper.
THEOREM NativeInvariant == Spec => []NativeInv
<1> QED
  BY NativeInvInit, NativeInvStep, PTL DEF Spec

\* Whatever scripts and natives do and however calls of Exec nest, with or
\* without sleep support, the labels in the runtime information block lead each
\* switch of stacks to the right frame (ExecHelper, SysreqCHelper,
\* SysreqDHelper, HaltHelper, ExecContHelper).
THEOREM NativeStackDiscipline == Spec => []NativeStackOK
<1>1. NativeInv => NativeStackOK
  BY DEF NativeInv
<1> QED
  BY <1>1, NativeInvariant, PTL

-----------------------------------------------------------------------------
(* Suspended scripts. *)

LEMMA SuspendedFrames ==
  /\ DOMAIN Suspended = {j \in DOMAIN nstack : nstack[j].kind = "native"}
  /\ \A i \in DOMAIN Suspended :
       Suspended[i] = [ip |-> ReturnSite(i),
                       esp |-> nstack[i].amx_esp, ebp |-> nstack[i].amx_ebp,
                       alt |-> nstack[i].alt]
BY DEF Suspended

LEMMA SuspendedFramesNext ==
  /\ DOMAIN Suspended' = {j \in DOMAIN nstack' : nstack'[j].kind = "native"}
  /\ \A i \in DOMAIN Suspended' :
       Suspended'[i] = [ip |-> ReturnSite(i)',
                        esp |-> nstack'[i].amx_esp, ebp |-> nstack'[i].amx_ebp,
                        alt |-> nstack'[i].alt]
BY DEF Suspended

LEMMA SameScript ==
  ASSUME NEW i, i \in DOMAIN Suspended, i \in DOMAIN Suspended',
         nstack'[i] = nstack[i], ReturnSite(i)' = ReturnSite(i)
  PROVE  Suspended'[i] = Suspended[i]
BY SuspendedFrames, SuspendedFramesNext

LEMMA SuspendedOnEnter == NativeInv /\ Enters => SuspendedStep
<1> SUFFICES ASSUME NativeInv, Enters PROVE SuspendedStep
  OBVIOUS
<1>0. PICK n \in Nat : n = Len(nstack)
  BY PileShape
<1>1. PICK reset : nstack' = nstack \o <<ExecFrame(reset), HelperFrame>>
  BY DEF Enters
<1>2. PICK S : nstack \in Seq(S)
  BY DEF NativeInv, IsPile
<1>3. /\ Len(nstack') = n + 2 /\ DOMAIN nstack' = 1..(n + 2) /\ DOMAIN nstack = 1..n
      /\ \A i \in 1..n : nstack'[i] = nstack[i]
      /\ nstack'[n + 1] = ExecFrame(reset) /\ nstack'[n + 2] = HelperFrame
  BY <1>0, <1>1, <1>2, PushTwo, PileShape
<1>4. nstack'[n + 1].kind = "exec" /\ nstack'[n + 1].esi = cpu.esi /\ nstack'[n + 2].kind = "helper"
  BY <1>3 DEF ExecFrame, HelperFrame
<1>5. DOMAIN Suspended' = DOMAIN Suspended
  BY <1>3, <1>4, SuspendedFrames, SuspendedFramesNext
<1>6. \A i \in DOMAIN Suspended : Suspended'[i] = Suspended[i]
  <2> TAKE i \in DOMAIN Suspended
  <2>1. i \in 1..n /\ nstack'[i] = nstack[i]
    BY <1>3, SuspendedFrames
  <2>2. i < n => nstack'[i + 1] = nstack[i + 1]
    BY <1>3, <2>1
  <2>3. i = n => nstack'[i + 1].esi = cpu.esi
    BY <1>4
  <2>4. ReturnSite(i)' = ReturnSite(i)
    BY <1>0, <1>3, <2>1, <2>2, <2>3 DEF ReturnSite
  <2> QED
    BY <1>5, <2>1, <2>4, SameScript
<1> QED
  BY <1>5, <1>6 DEF SuspendedStep

LEMMA SuspendedOnCall == NativeInv /\ CallsNative => SuspendedStep
<1> SUFFICES ASSUME NativeInv, CallsNative PROVE SuspendedStep
  OBVIOUS
<1>0. PICK n \in Nat : n = Len(nstack)
  BY PileShape
<1>1. /\ DOMAIN nstack = 1..n /\ n >= 2
      /\ nstack[n].kind = "helper" /\ rib.esp = n
  BY <1>0, PileShape DEF NativeInv, NativeStackOK, TopOK, LabelsOK, CallsNative
<1>2. PICK S : nstack \in Seq(S)
  BY DEF NativeInv, IsPile
<1>3. SubSeq(nstack, 1, n) = nstack
  BY <1>0, <1>2, SubSeqFull
<1>4. nstack' = Append(nstack, NativeFrame)
  BY <1>1, <1>3 DEF CallsNative
<1>5. /\ Len(nstack') = n + 1 /\ DOMAIN nstack' = 1..(n + 1)
      /\ \A i \in 1..n : nstack'[i] = nstack[i]
      /\ nstack'[n + 1] = NativeFrame
  BY <1>0, <1>2, <1>4, PushOne
<1>6. /\ nstack'[n + 1].kind = "native" /\ nstack'[n + 1].amx_esp = cpu.esp
      /\ nstack'[n + 1].amx_ebp = cpu.ebp /\ nstack'[n + 1].alt = cpu.ecx
  BY <1>5 DEF NativeFrame
<1>7. DOMAIN Suspended' = DOMAIN Suspended \cup {n + 1} /\ n + 1 \notin DOMAIN Suspended
  BY <1>1, <1>5, <1>6, SuspendedFrames, SuspendedFramesNext
<1>8. \A i \in DOMAIN Suspended : Suspended'[i] = Suspended[i]
  <2> TAKE i \in DOMAIN Suspended
  <2>1. i \in 1..(n - 1) /\ nstack'[i] = nstack[i] /\ nstack'[i + 1] = nstack[i + 1]
    BY <1>1, <1>5, SuspendedFrames
  <2>2. ReturnSite(i)' = ReturnSite(i)
    BY <1>0, <1>5, <2>1 DEF ReturnSite
  <2> QED
    BY <1>7, <2>1, <2>2, SameScript
<1>9. /\ Suspended'[n + 1].esp = cpu.esp /\ Suspended'[n + 1].ebp = cpu.ebp
      /\ Suspended'[n + 1].alt = cpu.ecx /\ Suspended'[n + 1].ip \in Sites
  <2>1. Suspended'[n + 1] = [ip |-> cpu'.esi, esp |-> cpu.esp, ebp |-> cpu.ebp, alt |-> cpu.ecx]
    <3>1. ReturnSite(n + 1)' = cpu'.esi
      <4>1. ~(n + 1 < Len(nstack'))
        BY <1>5
      <4> QED
        BY <1>0, <1>5, <4>1 DEF ReturnSite
    <3> QED
      BY <3>1, <1>5, <1>6, <1>7, SuspendedFramesNext
  <2>2. cpu'.esi \in Sites
    BY DEF CallsNative
  <2> QED
    BY <2>1, <2>2
<1> QED
  BY <1>7, <1>8, <1>9 DEF SuspendedStep

LEMMA SuspendedOnResume == NativeInv /\ Resumes => SuspendedStep
<1> SUFFICES ASSUME NativeInv, Resumes PROVE SuspendedStep
  OBVIOUS
<1>0. PICK n \in Nat : n = Len(nstack)
  BY PileShape
<1>1. /\ DOMAIN nstack = 1..n /\ n >= 3 /\ nstack[n].kind = "native"
      /\ nstack[n - 1].kind = "helper" /\ cpu.esp = n
  BY <1>0, PileShape DEF NativeInv, NativeStackOK, TopOK, CallerEbpOK, Resumes
<1>2. PICK S : nstack \in Seq(S)
  BY DEF NativeInv, IsPile
<1>3. /\ Len(nstack') = n - 1 /\ DOMAIN nstack' = 1..(n - 1)
      /\ \A i \in 1..(n - 1) : nstack'[i] = nstack[i]
  <2>1. nstack' = SubSeq(nstack, 1, n - 1) /\ n - 1 \in 0..Len(nstack)
    BY <1>0, <1>1 DEF Resumes
  <2> QED
    BY <1>1, <1>2, <2>1, Cut
<1>4. DOMAIN Suspended = DOMAIN Suspended' \cup {n} /\ n \notin DOMAIN Suspended'
  BY <1>1, <1>3, SuspendedFrames, SuspendedFramesNext
<1>5. \A i \in DOMAIN Suspended' : Suspended'[i] = Suspended[i]
  <2> TAKE i \in DOMAIN Suspended'
  <2>1. i \in 1..(n - 2) /\ nstack'[i] = nstack[i] /\ nstack'[i + 1] = nstack[i + 1]
    BY <1>1, <1>3, SuspendedFramesNext
  <2>2. ReturnSite(i)' = ReturnSite(i)
    BY <1>0, <1>3, <2>1 DEF ReturnSite
  <2> QED
    BY <1>4, <2>1, <2>2, SameScript
<1>6. /\ cpu'.ip = Suspended[n].ip /\ cpu'.ecx = Suspended[n].alt
      /\ cpu'.esp = Suspended[n].esp /\ cpu'.ebp = Suspended[n].ebp
  <2>1. Suspended[n] = [ip |-> cpu.esi, esp |-> nstack[n].amx_esp,
                        ebp |-> nstack[n].amx_ebp, alt |-> nstack[n].alt]
    <3>1. ReturnSite(n) = cpu.esi
      BY <1>0 DEF ReturnSite
    <3> QED
      BY <3>1, <1>4, SuspendedFrames
  <2> QED
    BY <1>1, <2>1 DEF Resumes
<1> QED
  BY <1>4, <1>5, <1>6 DEF SuspendedStep

LEMMA SuspendedOnLeave == NativeInv /\ LeavesScript => SuspendedStep
<1> SUFFICES ASSUME NativeInv, LeavesScript PROVE SuspendedStep
  OBVIOUS
<1>0. Len(nstack) \in Nat /\ DOMAIN nstack = 1..Len(nstack)
  BY PileShape
<1>1. PICK m \in 0..Len(nstack) :
           /\ m + 2 \in DOMAIN nstack
           /\ rib.ebp = m + 1 /\ rib.esp = m + 2
           /\ nstack[m + 1].kind = "exec" /\ nstack[m + 2].kind = "helper"
           /\ running = "amx" => Len(nstack) = m + 2
           /\ running = "native" => Len(nstack) = m + 3
  BY Innermost DEF LeavesScript
<1>2. PICK S : nstack \in Seq(S)
  BY DEF NativeInv, IsPile
<1>3. nstack' = SubSeq(nstack, 1, m)
  BY <1>1 DEF LeavesScript
<1>4. /\ Len(nstack') = m /\ DOMAIN nstack' = 1..m
      /\ \A i \in 1..m : nstack'[i] = nstack[i]
  BY <1>1, <1>2, <1>3, Cut
<1>5. cpu'.esi = nstack[m + 1].esi /\ running' = "native"
  BY <1>1 DEF LeavesScript
<1>6. DOMAIN Suspended' \subseteq DOMAIN Suspended
  BY <1>0, <1>4, SuspendedFrames, SuspendedFramesNext
<1>7. \A i \in DOMAIN Suspended' : Suspended'[i] = Suspended[i]
  <2> TAKE i \in DOMAIN Suspended'
  <2>1. i \in 1..m /\ nstack'[i] = nstack[i]
    BY <1>4, SuspendedFramesNext
  <2>5. i < Len(nstack)
    BY <1>0, <1>1, <2>1
  <2>2. i < m => nstack'[i + 1] = nstack[i + 1]
    BY <1>4, <2>1
  <2>3. i = m => cpu'.esi = nstack[i + 1].esi
    BY <1>5
  <2>4. ReturnSite(i)' = ReturnSite(i)
    BY <1>4, <2>1, <2>2, <2>3, <2>5 DEF ReturnSite
  <2> QED
    BY <1>6, <2>1, <2>4, SameScript
<1> QED
  BY <1>5, <1>6, <1>7 DEF SuspendedStep

LEMMA SuspendedOnStay == NativeInv /\ Stays => SuspendedStep
<1> SUFFICES ASSUME NativeInv, Stays PROVE SuspendedStep
  OBVIOUS
<1>0. DOMAIN nstack = 1..Len(nstack) /\ Len(nstack) \in Nat
  BY PileShape
<1>1. DOMAIN Suspended' = DOMAIN Suspended
  BY SuspendedFrames, SuspendedFramesNext DEF Stays
<1>2. \A i \in DOMAIN Suspended : Suspended'[i] = Suspended[i]
  <2> TAKE i \in DOMAIN Suspended
  <2>1. i \in 1..Len(nstack) /\ nstack[i].kind = "native"
    BY <1>0, SuspendedFrames
  <2>2. i < Len(nstack) \/ cpu'.esi = cpu.esi
    BY <1>0, <2>1 DEF Stays, NativeInv, NativeStackOK, TopOK
  <2>3. ReturnSite(i)' = ReturnSite(i)
    BY <2>2 DEF ReturnSite, Stays
  <2> QED
    BY <1>1, <2>3, SameScript DEF Stays
<1> QED
  BY <1>1, <1>2 DEF SuspendedStep

\* A native function called by a script may call Exec as often and as deeply as
\* it likes: each suspended script keeps its return address (which only ESI and
\* the frame of the next Exec hold), its ALT and its stack registers, and goes
\* on with them.
THEOREM SuspendedScriptsResume == Spec => SuspendedDiscipline
<1>1. NativeInv /\ [Next]_vars => [SuspendedStep]_vars
  BY StepKinds, SuspendedOnEnter, SuspendedOnCall, SuspendedOnResume,
     SuspendedOnLeave, SuspendedOnStay
<1> QED
  BY <1>1, NativeInvariant, PTL DEF Spec, SuspendedDiscipline

=============================================================================
