------------------------- MODULE JITHandler_proofs --------------------------
(***************************************************************************)
(* Proofs about JITHandler, for any number of AMX addresses, scripts and   *)
(* nested calls.  HandlerInv is the inductive invariant; each step of the  *)
(* specification either leaves the stack of activations alone, pushes one  *)
(* activation, replaces the top or pops it.                                *)
(***************************************************************************)
EXTENDS JITHandler, DataLemmas

\* Every load has its own number.
LoadsDistinct ==
  \A a \in Amxs : script[a] # None =>
    /\ script[a].gen <= loads
    /\ \A b \in Amxs : b # a /\ script[b] # None => script[b].gen # script[a].gen

\* A handler exists for a loaded script only; nobody sees it in the state INIT.
HandlerOK(a) ==
  handlers[a] # None =>
    /\ script[a] # None /\ jitvar[a]
    /\ handlers[a].state # "INIT"
    /\ handlers[a].code = IF handlers[a].state = "COMPILE_SUCCEDED"
                          THEN script[a].gen ELSE None

\* An activation belongs to the script that is loaded now.
FrameOK(f) ==
  /\ script[f.amx] # None /\ handlers[f.amx] # None
  /\ f.gen = script[f.amx].gen
  /\ f.by = "code" => handlers[f.amx].state = "COMPILE_SUCCEDED" /\ f.code = f.gen
  /\ f.by = "handler" => handlers[f.amx].state = "COMPILE"

\* The activation that compiles a script is the oldest of that script.
Oldest(s, i) ==
  s[i].by = "handler" =>
    \A j \in 1..Len(s) : j # i /\ s[j].amx = s[i].amx => j > i /\ s[j].by = "interpreter"

HandlerInv ==
  /\ TypeOK
  /\ LoadsDistinct
  /\ \A a \in Amxs : HandlerOK(a)
  /\ CodeOwned
  /\ \A i \in 1..Len(calls) : FrameOK(calls[i])
  /\ \A i \in 1..Len(calls) : Oldest(calls, i)
-----------------------------------------------------------------------------
(* HandlerInv is inductive.                                                *)

Answers == [error : Errors \cup {"NONE"}, retval : Results]
Logs == [Amxs -> Seq(Events)]

LEMMA HandlerInvInit == Init => HandlerInv
<1> SUFFICES ASSUME Init PROVE HandlerInv
  OBVIOUS
<1>1. TypeOK
  BY HandlerAssumption DEF Init, TypeOK, Results
<1>2. calls = <<>> /\ Len(calls) = 0
  BY DEF Init
<1> QED
  BY <1>1, <1>2 DEF Init, HandlerInv, LoadsDistinct, HandlerOK, CodeOwned

\* A handler that exists, or is made, and what entering it makes of it.
LEMMA HandlerFound ==
  ASSUME HandlerInv, NEW a \in Amxs
  PROVE  LET h == GetHandler(a)
         IN /\ h \in [state : States, code : Gens \cup {None}]
            /\ Entered(h) \in [state : States, code : Gens \cup {None}]
            /\ Entered(h).state # "INIT" /\ Entered(h).code = h.code
            /\ handlers[a] # None => h = handlers[a] /\ Entered(h) = h
            /\ handlers[a] = None => /\ h.state = "INIT" /\ h.code = None
                                     /\ Entered(h).state = "COMPILE"
            /\ Runner(h) = "handler" => handlers[a] = None
            /\ Runner(h) = "code" => h.state = "COMPILE_SUCCEDED"
            /\ Runner(h) \in {"handler", "interpreter", "code"}
<1>1. handlers[a] \in [state : States, code : Gens \cup {None}] \cup {None}
  BY DEF HandlerInv, TypeOK
<1>2. handlers[a] # None => handlers[a].state # "INIT"
  BY DEF HandlerInv, HandlerOK
<1>3. CASE handlers[a] = None
  BY <1>3, NoneAssumption DEF GetHandler, Entered, Runner, States
<1>4. CASE handlers[a] # None
  BY <1>1, <1>2, <1>4 DEF GetHandler, Entered, Runner, States
<1> QED
  BY <1>3, <1>4

\* amx_Exec, called from a stack whose activations are in order.
LEMMA ExecKeeps ==
  ASSUME HandlerInv,
         NEW t \in Seq(Frames),
         \A i \in 1..Len(t) : FrameOK(t[i]),
         \A i \in 1..Len(t) : Oldest(t, i),
         NEW a \in Amxs, NEW p \in AllPublics, script[a] # None,
         AmxExec(t, a, p),
         UNCHANGED <<script, buffers, loads>>,
         answer' \in Answers, log' \in Logs
  PROVE  HandlerInv'
<1>a. PICK h : h = GetHandler(a)
  OBVIOUS
<1>b. PICK e : e = Entered(h)
  OBVIOUS
<1>c. PICK f : f = [amx |-> a, gen |-> script[a].gen, public |-> p, by |-> Runner(h),
                    code |-> h.code, stage |-> "ask",
                    runs |-> IF Runner(h) = "handler" THEN 0 ELSE 1]
  OBVIOUS
<1>1. /\ h \in [state : States, code : Gens \cup {None}]
      /\ e \in [state : States, code : Gens \cup {None}]
      /\ e.state # "INIT" /\ e.code = h.code
      /\ handlers[a] # None => h = handlers[a] /\ e = h
      /\ handlers[a] = None => h.state = "INIT" /\ h.code = None /\ e.state = "COMPILE"
      /\ Runner(h) = "handler" => handlers[a] = None
      /\ Runner(h) = "code" => h.state = "COMPILE_SUCCEDED"
      /\ Runner(h) \in {"handler", "interpreter", "code"}
  BY <1>a, <1>b, HandlerFound
<1>2. script[a].gen \in Gens
  BY DEF HandlerInv, TypeOK
<1>3. f \in Frames
  BY <1>1, <1>2, <1>c DEF Frames
<1>4. /\ f.amx = a /\ f.gen = script[a].gen /\ f.by = Runner(h) /\ f.code = h.code
  BY <1>c
<1>5. calls' = Append(t, f) /\ handlers' = [handlers EXCEPT ![a] = e]
      /\ jitvar' = [jitvar EXCEPT ![a] = @ \/ handlers[a] = None]
  BY <1>a, <1>b, <1>c DEF AmxExec
<1>6. /\ calls' \in Seq(Frames) /\ Len(calls') = Len(t) + 1 /\ Len(t) \in Nat
      /\ \A i \in 1..Len(t) : calls'[i] = t[i]
      /\ calls'[Len(t) + 1] = f
  BY <1>3, <1>5, AppendOne
<1>7. /\ handlers' \in [Amxs -> [state : States, code : Gens \cup {None}] \cup {None}]
      /\ handlers'[a] = e
      /\ \A b \in Amxs : b # a => handlers'[b] = handlers[b]
  BY <1>1, <1>5 DEF HandlerInv, TypeOK
<1>8. /\ jitvar' \in [Amxs -> BOOLEAN]
      /\ \A b \in Amxs : jitvar[b] => jitvar'[b]
      /\ handlers[a] = None => jitvar'[a]
  BY <1>5 DEF HandlerInv, TypeOK
<1>9. TypeOK'
  BY <1>6, <1>7, <1>8 DEF HandlerInv, TypeOK, Answers, Logs
<1>10. LoadsDistinct'
  BY DEF HandlerInv, LoadsDistinct
<1>11. e # None
  BY <1>1, NoneAssumption
<1>12. \A b \in Amxs : HandlerOK(b)'
  <2> SUFFICES ASSUME NEW b \in Amxs, handlers'[b] # None PROVE HandlerOK(b)'
    BY DEF HandlerOK
  <2>1. CASE b # a \/ handlers[a] # None
    BY <2>1, <1>1, <1>7, <1>8 DEF HandlerInv, HandlerOK
  <2>2. CASE b = a /\ handlers[a] = None
    BY <2>2, <1>1, <1>7, <1>8 DEF HandlerOK
  <2> QED
    BY <2>1, <2>2
<1>13. CodeOwned'
  <2>1. \A b \in Amxs, g \in Gens :
          (handlers'[b] # None /\ handlers'[b].code = g) <=>
          (handlers[b] # None /\ handlers[b].code = g)
    BY <1>1, <1>7, <1>11, NoneAssumption
  <2> QED
    BY <2>1 DEF HandlerInv, CodeOwned
<1>14. ASSUME NEW i \in 1..Len(t) PROVE handlers'[t[i].amx] = handlers[t[i].amx]
  <2>1. t[i] \in Frames
    BY ElementOfSeq
  <2>2. t[i].amx \in Amxs /\ handlers[t[i].amx] # None
    BY <2>1 DEF FrameOK, Frames
  <2> QED
    BY <2>2, <1>1, <1>7
<1>15. \A i \in 1..Len(calls') : FrameOK(calls[i])'
  <2>1. ASSUME NEW i \in 1..Len(t) PROVE FrameOK(calls[i])'
    BY <1>6, <1>14 DEF FrameOK
  <2>2. handlers'[a] # None
    BY <1>7, <1>11
  <2>3. Runner(h) = "code" => e.state = "COMPILE_SUCCEDED" /\ h.code = script[a].gen
    BY <1>1 DEF HandlerInv, HandlerOK
  <2>4. FrameOK(f)'
    BY <2>2, <2>3, <1>1, <1>4, <1>7 DEF FrameOK
  <2>5. \A i \in 1..Len(calls') : i \in 1..Len(t) \/ i = Len(t) + 1
    BY <1>6
  <2> QED
    BY <2>1, <2>4, <2>5, <1>6 DEF FrameOK
<1>16. \A i \in 1..Len(calls') : Oldest(calls', i)
  <2>1. \A i \in 1..Len(calls') : i \in 1..Len(t) \/ i = Len(t) + 1
    BY <1>6
  <2>2. f.by = "handler" => \A j \in 1..Len(t) : t[j].amx # a
    BY <1>1, <1>4 DEF FrameOK
  <2>3. ASSUME NEW i \in 1..Len(t), t[i].by = "handler", t[i].amx = a
        PROVE  f.by = "interpreter"
    BY <2>3, <1>1, <1>4 DEF FrameOK
  <2>4. ASSUME NEW i \in 1..Len(t) PROVE Oldest(calls', i)
    BY <2>1, <2>3, <1>4, <1>6 DEF Oldest
  <2>5. Oldest(calls', Len(t) + 1)
    BY <2>1, <2>2, <1>4, <1>6 DEF Oldest
  <2> QED
    BY <2>1, <2>4, <2>5
<1> QED
  BY <1>9, <1>10, <1>12, <1>13, <1>15, <1>16 DEF HandlerInv

\* The handler frame on the top: its script is being compiled, and no other
\* activation of that script is below it.
LEMMA TopHandler ==
  ASSUME HandlerInv, calls # <<>>, Top.by = "handler"
  PROVE  /\ Len(calls) \in Nat \ {0} /\ Top \in Frames /\ FrameOK(Top)
         /\ Top.amx \in Amxs /\ Top.gen \in Gens
         /\ script[Top.amx] # None /\ Top.gen = script[Top.amx].gen
         /\ handlers[Top.amx] # None
         /\ handlers[Top.amx].state = "COMPILE" /\ handlers[Top.amx].code = None
         /\ jitvar[Top.amx]
         /\ \A i \in 1..(Len(calls) - 1) : calls[i] \in Frames /\ calls[i].amx # Top.amx
<1>1. calls \in Seq(Frames)
  BY DEF HandlerInv, TypeOK
<1>2. Len(calls) \in Nat \ {0} /\ Top \in Frames
  BY <1>1, PopOne DEF Top
<1>3. FrameOK(Top)
  BY <1>2 DEF HandlerInv, Top
<1>4. Top.amx \in Amxs /\ Top.gen \in Gens
  BY <1>2 DEF Frames
<1>5. /\ script[Top.amx] # None /\ Top.gen = script[Top.amx].gen
      /\ handlers[Top.amx] # None /\ handlers[Top.amx].state = "COMPILE"
  BY <1>3 DEF FrameOK
<1>6. handlers[Top.amx].code = None /\ jitvar[Top.amx]
  BY <1>4, <1>5 DEF HandlerInv, HandlerOK
<1>7. ASSUME NEW i \in 1..(Len(calls) - 1)
      PROVE  calls[i] \in Frames /\ calls[i].amx # Top.amx
  <2>1. i \in 1..Len(calls) /\ Len(calls) \in 1..Len(calls) /\ i < Len(calls)
    BY <1>2
  <2>2. calls[i] \in Frames
    BY <1>1, <2>1, ElementOfSeq
  <2>3. Oldest(calls, Len(calls))
    BY <2>1 DEF HandlerInv
  <2> QED
    BY <2>1, <2>2, <2>3, <1>2 DEF Oldest, Top
<1> QED
  BY <1>2, <1>3, <1>4, <1>5, <1>6, <1>7

\* The stage of the compilation is nothing to the invariant.
LEMMA StageKeeps ==
  ASSUME HandlerInv, calls # <<>>, Top.by = "handler",
         NEW st \in {"ask", "asked", "compile", "told"}
  PROVE  /\ AtStage(st) \in Seq(Frames)
         /\ \A i \in 1..Len(AtStage(st)) : FrameOK(AtStage(st)[i])
         /\ \A i \in 1..Len(AtStage(st)) : Oldest(AtStage(st), i)
<1>1. calls \in Seq(Frames)
  BY DEF HandlerInv, TypeOK
<1>2. PICK f : f = [Top EXCEPT !.stage = st]
  OBVIOUS
<1>3. /\ Len(calls) \in Nat \ {0} /\ Top \in Frames /\ FrameOK(Top)
      /\ \A i \in 1..(Len(calls) - 1) : calls[i] \in Frames /\ calls[i].amx # Top.amx
  BY TopHandler
<1>4. f \in Frames /\ f.amx = Top.amx /\ f.gen = Top.gen /\ f.by = Top.by /\ f.code = Top.code
  BY <1>2, <1>3 DEF Frames
<1>5. PICK t : t = AtStage(st)
  OBVIOUS
<1>6. /\ t \in Seq(Frames) /\ Len(t) = Len(calls)
      /\ \A i \in 1..(Len(calls) - 1) : t[i] = calls[i]
      /\ t[Len(calls)] = f
  BY <1>1, <1>2, <1>4, <1>5, ReplaceTop DEF AtStage, Below
<1>7. FrameOK(f)
  BY <1>3, <1>4 DEF FrameOK
<1>8. \A i \in 1..Len(t) : i \in 1..(Len(calls) - 1) \/ i = Len(calls)
  BY <1>3, <1>6
<1>9. \A i \in 1..(Len(calls) - 1) : i \in 1..Len(calls) /\ i # Len(calls) /\ i < Len(calls)
  BY <1>3
<1>10. \A i \in 1..Len(t) : FrameOK(t[i])
  BY <1>6, <1>7, <1>8, <1>9 DEF HandlerInv
<1>11. \A i \in 1..Len(t) : t[i].amx = calls[i].amx /\ t[i].by = calls[i].by
  BY <1>4, <1>6, <1>8 DEF Top
<1>12. \A i \in 1..Len(t) : Oldest(t, i)
  BY <1>6, <1>11 DEF HandlerInv, Oldest
<1> QED
  BY <1>5, <1>6, <1>10, <1>12

\* Only the stack of activations changes.
LEMMA CallsKeep ==
  ASSUME HandlerInv,
         calls' \in Seq(Frames),
         \A i \in 1..Len(calls') : FrameOK(calls'[i]),
         \A i \in 1..Len(calls') : Oldest(calls', i),
         UNCHANGED <<script, handlers, jitvar, buffers, loads>>,
         answer' \in Answers, log' \in Logs
  PROVE  HandlerInv'
<1>1. TypeOK'
  BY DEF HandlerInv, TypeOK, Answers, Logs
<1>2. LoadsDistinct' /\ CodeOwned' /\ \A a \in Amxs : HandlerOK(a)'
  BY DEF HandlerInv, LoadsDistinct, CodeOwned, HandlerOK
<1>3. \A i \in 1..Len(calls') : FrameOK(calls[i])'
  BY DEF FrameOK
<1> QED
  BY <1>1, <1>2, <1>3 DEF HandlerInv

\* The compilation on the top is over, with code or without.
LEMMA DecidedKeeps ==
  ASSUME HandlerInv, calls # <<>>, Top.by = "handler",
         NEW h, NEW by, NEW code,
         \/ h = Failed /\ by = "interpreter" /\ code = None /\ UNCHANGED buffers
         \/ /\ h = Compiled(Top.gen) /\ by = "code" /\ code = Top.gen
            /\ buffers' = [buffers EXCEPT ![Top.gen] = @ + 1],
         handlers' = [handlers EXCEPT ![Top.amx] = h],
         Run(by, code),
         UNCHANGED <<script, jitvar, loads>>,
         answer' \in Answers, log' \in Logs
  PROVE  HandlerInv'
<1>1. PICK a, g : a = Top.amx /\ g = Top.gen
  OBVIOUS
<1>2. /\ Len(calls) \in Nat \ {0} /\ Top \in Frames
      /\ a \in Amxs /\ g \in Gens /\ script[a] # None /\ g = script[a].gen
      /\ handlers[a] # None
      /\ handlers[a].state = "COMPILE" /\ handlers[a].code = None /\ jitvar[a]
      /\ \A i \in 1..(Len(calls) - 1) : calls[i] \in Frames /\ calls[i].amx # a
  BY <1>1, TopHandler
<1>3. /\ h \in [state : States, code : Gens \cup {None}] /\ h # None
      /\ h.state # "INIT"
      /\ h.code = IF h.state = "COMPILE_SUCCEDED" THEN g ELSE None
      /\ h.state = "COMPILE_SUCCEDED" <=> by = "code"
      /\ by = "code" => code = g
      /\ by \in {"code", "interpreter"} /\ code \in Gens \cup {None}
  BY <1>1, <1>2, NoneAssumption DEF Failed, Compiled, States
<1>4. PICK f : f = [Top EXCEPT !.by = by, !.code = code, !.runs = @ + 1]
  OBVIOUS
<1>5. f \in Frames /\ f.amx = a /\ f.gen = g /\ f.by = by /\ f.code = code
  <2>1. by \in {"handler", "interpreter", "code"} /\ code \in Gens \cup {None}
    BY <1>3
  <2>2. Top.runs + 1 \in Nat
    BY <1>2 DEF Frames
  <2>3. [Top EXCEPT !.by = by, !.code = code] \in Frames
    BY <2>1, <1>2 DEF Frames
  <2>4. f = [[Top EXCEPT !.by = by, !.code = code] EXCEPT !.runs = Top.runs + 1]
    BY <1>2, <1>4 DEF Frames
  <2> QED
    BY <2>1, <2>2, <2>3, <2>4, <1>1, <1>2 DEF Frames
<1>6. calls \in Seq(Frames)
  BY DEF HandlerInv, TypeOK
<1>7. /\ calls' \in Seq(Frames) /\ Len(calls') = Len(calls)
      /\ \A i \in 1..(Len(calls) - 1) : calls'[i] = calls[i]
      /\ calls'[Len(calls)] = f
  BY <1>4, <1>5, <1>6, ReplaceTop DEF Run, Below
<1>8. /\ handlers' \in [Amxs -> [state : States, code : Gens \cup {None}] \cup {None}]
      /\ handlers'[a] = h
      /\ \A b \in Amxs : b # a => handlers'[b] = handlers[b]
  BY <1>1, <1>2, <1>3 DEF HandlerInv, TypeOK
<1>9. \A b \in Amxs : b # a /\ script[b] # None => script[b].gen # g
  BY <1>2 DEF HandlerInv, LoadsDistinct
<1>10. buffers \in [Gens -> 0..1] /\ buffers[g] = 0
  BY <1>2, <1>9, NoneAssumption DEF HandlerInv, TypeOK, CodeOwned
<1>11. buffers' = IF by = "code" THEN [buffers EXCEPT ![g] = 1] ELSE buffers
  BY <1>1, <1>2, <1>3, <1>10
<1>12. TypeOK'
  <2>1. buffers' \in [Gens -> 0..1]
    BY <1>2, <1>10, <1>11
  <2> QED
    BY <2>1, <1>7, <1>8 DEF HandlerInv, TypeOK, Answers, Logs
<1>13. LoadsDistinct'
  BY DEF HandlerInv, LoadsDistinct
<1>14. \A b \in Amxs : HandlerOK(b)'
  BY <1>2, <1>3, <1>8 DEF HandlerInv, HandlerOK
<1>15. CodeOwned'
  <2>1. \A b \in Amxs, n \in Gens : n # g =>
          (handlers'[b] # None /\ script[b] # None /\ handlers'[b].code = n /\ script[b].gen = n
           <=> handlers[b] # None /\ script[b] # None /\ handlers[b].code = n
                                  /\ script[b].gen = n)
    BY <1>2, <1>3, <1>8
  <2>2. \A n \in Gens : n # g => buffers'[n] = buffers[n]
    BY <1>10, <1>11
  <2>3. ASSUME NEW n \in Gens, n # g
        PROVE  buffers'[n] = IF \E b \in Amxs : /\ handlers'[b] # None /\ script'[b] # None
                                                /\ handlers'[b].code = n /\ script'[b].gen = n
                             THEN 1 ELSE 0
    BY <2>1, <2>2, <2>3 DEF HandlerInv, CodeOwned
  <2>4. CASE by = "code"
    <3>1. buffers'[g] = 1 /\ handlers'[a].code = g /\ handlers'[a] # None
      BY <2>4, <1>2, <1>3, <1>8, <1>10, <1>11
    <3> QED
      BY <2>3, <3>1, <1>2 DEF CodeOwned
  <2>5. CASE by # "code"
    <3>1. buffers'[g] = 0 /\ handlers'[a].code = None
      BY <2>5, <1>3, <1>8, <1>10, <1>11
    <3>2. \A b \in Amxs : ~(handlers'[b] # None /\ script[b] # None
                            /\ handlers'[b].code = g /\ script[b].gen = g)
      BY <3>1, <1>2, <1>9, NoneAssumption
    <3> QED
      BY <2>3, <3>1, <3>2 DEF CodeOwned
  <2> QED
    BY <2>4, <2>5
<1>16. \A i \in 1..Len(calls') : i \in 1..(Len(calls) - 1) \/ i = Len(calls)
  BY <1>2, <1>7
<1>17. \A i \in 1..(Len(calls) - 1) : i \in 1..Len(calls) /\ i # Len(calls) /\ i < Len(calls)
  BY <1>2
<1>18. \A i \in 1..Len(calls') : FrameOK(calls[i])'
  <2>1. ASSUME NEW i \in 1..(Len(calls) - 1) PROVE FrameOK(calls[i])'
    <3>1. FrameOK(calls[i]) /\ calls[i].amx \in Amxs /\ calls[i].amx # a
      BY <1>2, <1>17 DEF HandlerInv, Frames
    <3> QED
      BY <3>1, <1>7, <1>8 DEF FrameOK
  <2>2. FrameOK(f)'
    BY <1>2, <1>3, <1>5, <1>8 DEF FrameOK
  <2> QED
    BY <2>1, <2>2, <1>7, <1>16
<1>19. \A i \in 1..Len(calls') : Oldest(calls', i)
  <2>1. ASSUME NEW i \in 1..(Len(calls) - 1) PROVE Oldest(calls', i)
    <3>1. Oldest(calls, i) /\ calls'[i] = calls[i] /\ calls[i].amx # a
      BY <1>2, <1>7, <1>17 DEF HandlerInv
    <3>2. \A j \in 1..Len(calls') : calls'[j].amx = calls[i].amx =>
            j \in 1..(Len(calls) - 1) /\ j \in 1..Len(calls) /\ calls'[j] = calls[j]
      BY <3>1, <1>5, <1>7, <1>16, <1>17
    <3> QED
      BY <3>1, <3>2 DEF Oldest
  <2>2. Oldest(calls', Len(calls))
    BY <1>3, <1>5, <1>7 DEF Oldest
  <2> QED
    BY <2>1, <2>2, <1>16
<1> QED
  BY <1>12, <1>13, <1>14, <1>15, <1>18, <1>19 DEF HandlerInv

\* A script is loaded, at an address where nothing of an older one is left.
LEMMA LoadKeeps ==
  ASSUME HandlerInv, NEW a \in Amxs, NEW program \in Programs, AmxLoad(a, program)
  PROVE  HandlerInv'
<1>1. PICK r : r = [gen |-> loads + 1, program |-> program]
  OBVIOUS
<1>2. /\ script[a] = None /\ loads < MaxLoads /\ loads' = loads + 1
      /\ script' = [script EXCEPT ![a] = r]
      /\ jitvar' = [jitvar EXCEPT ![a] = FALSE]
      /\ log' = [log EXCEPT ![a] = <<>>]
      /\ UNCHANGED <<handlers, buffers, calls, answer>>
  BY <1>1 DEF AmxLoad
<1>3. loads \in 0..MaxLoads /\ loads + 1 \in Gens /\ loads + 1 \in 0..MaxLoads
  BY <1>2, HandlerAssumption DEF HandlerInv, TypeOK, Gens
<1>4. r \in [gen : Gens, program : Programs] /\ r.gen = loads + 1 /\ r # None
  BY <1>1, <1>3, NoneAssumption
<1>5. /\ script' \in [Amxs -> [gen : Gens, program : Programs] \cup {None}]
      /\ script'[a] = r
      /\ \A b \in Amxs : b # a => script'[b] = script[b] /\ jitvar'[b] = jitvar[b]
  BY <1>2, <1>4 DEF HandlerInv, TypeOK
<1>6. handlers[a] = None
  BY <1>2 DEF HandlerInv, HandlerOK
<1>7. TypeOK'
  BY <1>2, <1>3, <1>5 DEF HandlerInv, TypeOK
<1>8. LoadsDistinct'
  <2>1. \A b \in Amxs : script[b] # None => script[b].gen \in Gens /\ script[b].gen <= loads
    BY DEF HandlerInv, TypeOK, LoadsDistinct
  <2>2. \A b \in Amxs : script[b] # None => script[b].gen \in Int /\ script[b].gen < loads + 1
    BY <2>1, <1>3 DEF Gens
  <2> QED
    BY <2>2, <1>2, <1>3, <1>4, <1>5 DEF HandlerInv, LoadsDistinct
<1>9. \A b \in Amxs : HandlerOK(b)'
  BY <1>2, <1>5, <1>6 DEF HandlerInv, HandlerOK
<1>10. CodeOwned'
  <2>1. \A b \in Amxs : handlers[b] # None => script'[b] = script[b]
    BY <1>5, <1>6
  <2> QED
    BY <2>1, <1>2 DEF HandlerInv, CodeOwned
<1>11. \A i \in 1..Len(calls) : calls[i] \in Frames /\ calls[i].amx \in Amxs /\ calls[i].amx # a
  <2>1. \A i \in 1..Len(calls) : calls[i] \in Frames
    BY ElementOfSeq DEF HandlerInv, TypeOK
  <2> QED
    BY <2>1, <1>2 DEF HandlerInv, FrameOK, Frames
<1>12. \A i \in 1..Len(calls') : FrameOK(calls[i])'
  BY <1>2, <1>5, <1>11 DEF HandlerInv, FrameOK
<1>13. \A i \in 1..Len(calls') : Oldest(calls', i)
  BY <1>2 DEF HandlerInv
<1> QED
  BY <1>7, <1>8, <1>9, <1>10, <1>12, <1>13 DEF HandlerInv

\* A script is unloaded, its handler destroyed and its code deleted.
LEMMA UnloadKeeps ==
  ASSUME HandlerInv, NEW a \in Amxs, AmxUnload(a)
  PROVE  HandlerInv'
<1>1. /\ script[a] # None
      /\ \A i \in DOMAIN calls : calls[i].amx # a
      /\ handlers' = [handlers EXCEPT ![a] = None]
      /\ buffers' = DeleteCode(handlers[a])
      /\ script' = [script EXCEPT ![a] = None]
      /\ UNCHANGED <<jitvar, loads, calls, answer, log>>
  BY DEF AmxUnload, DestroyHandler
<1>2. /\ script' \in [Amxs -> [gen : Gens, program : Programs] \cup {None}]
      /\ handlers' \in [Amxs -> [state : States, code : Gens \cup {None}] \cup {None}]
      /\ script'[a] = None /\ handlers'[a] = None
      /\ \A b \in Amxs : b # a => script'[b] = script[b] /\ handlers'[b] = handlers[b]
  BY <1>1 DEF HandlerInv, TypeOK
<1>3. PICK g : g = script[a].gen
  OBVIOUS
<1>4. g \in Gens /\ \A b \in Amxs : b # a /\ script[b] # None => script[b].gen # g
  BY <1>1, <1>3 DEF HandlerInv, TypeOK, LoadsDistinct
<1>5. buffers \in [Gens -> 0..1]
  BY DEF HandlerInv, TypeOK
<1>6. ASSUME handlers[a] # None /\ handlers[a].state = "COMPILE_SUCCEDED"
      PROVE  CodeOwned' /\ buffers' \in [Gens -> 0..1]
  <2>1. handlers[a].code = g /\ buffers[g] = 1
    BY <1>1, <1>3, <1>4, <1>6 DEF HandlerInv, HandlerOK, CodeOwned
  <2>2. buffers' = [buffers EXCEPT ![g] = 0]
    BY <2>1, <1>1, <1>4, <1>5, <1>6 DEF DeleteCode
  <2>3. CodeOwned'
    <3>1. \A n \in Gens, b \in Amxs : n # g =>
            (handlers'[b] # None /\ script'[b] # None /\ handlers'[b].code = n
                                 /\ script'[b].gen = n
             <=> handlers[b] # None /\ script[b] # None /\ handlers[b].code = n
                                    /\ script[b].gen = n)
      BY <2>1, <1>2, <1>3
    <3>2. \A b \in Amxs : ~(handlers'[b] # None /\ script'[b] # None
                            /\ handlers'[b].code = g /\ script'[b].gen = g)
      BY <1>2, <1>4
    <3>3. buffers'[g] = 0 /\ \A n \in Gens : n # g => buffers'[n] = buffers[n]
      BY <2>2, <1>4, <1>5
    <3> QED
      BY <3>1, <3>2, <3>3 DEF HandlerInv, CodeOwned
  <2> QED
    BY <2>2, <2>3, <1>4, <1>5
<1>7. ASSUME ~(handlers[a] # None /\ handlers[a].state = "COMPILE_SUCCEDED")
      PROVE  CodeOwned' /\ buffers' \in [Gens -> 0..1]
  <2>1. buffers' = buffers
    BY <1>1, <1>7 DEF DeleteCode
  <2>2. handlers[a] # None => handlers[a].code = None
    BY <1>7 DEF HandlerInv, HandlerOK
  <2>3. \A n \in Gens, b \in Amxs :
          handlers'[b] # None /\ script'[b] # None /\ handlers'[b].code = n /\ script'[b].gen = n
          <=> handlers[b] # None /\ script[b] # None /\ handlers[b].code = n
                                 /\ script[b].gen = n
    BY <2>2, <1>2, NoneAssumption
  <2>4. CodeOwned'
    BY <2>1, <2>3 DEF HandlerInv, CodeOwned
  <2> QED
    BY <2>1, <2>4, <1>5
<1>8. CodeOwned' /\ buffers' \in [Gens -> 0..1]
  BY <1>6, <1>7
<1>9. TypeOK'
  BY <1>1, <1>2, <1>8 DEF HandlerInv, TypeOK
<1>10. LoadsDistinct'
  BY <1>1, <1>2 DEF HandlerInv, LoadsDistinct
<1>11. \A b \in Amxs : HandlerOK(b)'
  BY <1>1, <1>2 DEF HandlerInv, HandlerOK
<1>12. calls \in Seq(Frames) /\ DOMAIN calls = 1..Len(calls)
  BY LenProperties DEF HandlerInv, TypeOK
<1>13. \A i \in 1..Len(calls) : calls[i].amx \in Amxs /\ calls[i].amx # a
  <2>1. \A i \in 1..Len(calls) : calls[i] \in Frames
    BY <1>12, ElementOfSeq
  <2> QED
    BY <2>1, <1>1, <1>12 DEF Frames
<1>14. \A i \in 1..Len(calls') : FrameOK(calls[i])'
  BY <1>1, <1>2, <1>13 DEF HandlerInv, FrameOK
<1>15. \A i \in 1..Len(calls') : Oldest(calls', i)
  BY <1>1 DEF HandlerInv
<1> QED
  BY <1>8, <1>9, <1>10, <1>11, <1>14, <1>15 DEF HandlerInv

\* The running script ends, or is run again by the interpreter.
LEMMA ReturnKeeps ==
  ASSUME HandlerInv, NEW error \in Errors, NEW retval \in Results, Return(error, retval)
  PROVE  HandlerInv'
<1>1. /\ calls # <<>> /\ Top.by # "handler"
      /\ UNCHANGED <<script, jitvar, handlers, buffers, loads, log>>
  BY DEF Return
<1>2. calls \in Seq(Frames) /\ answer \in Answers /\ log \in Logs
  BY DEF HandlerInv, TypeOK, Answers, Logs
<1>3. Len(calls) \in Nat \ {0} /\ Top \in Frames
  BY <1>1, <1>2, PopOne DEF Top
<1>4. FrameOK(Top)
  BY <1>3 DEF HandlerInv, Top
<1>5. \A i \in 1..(Len(calls) - 1) : i \in 1..Len(calls) /\ i < Len(calls)
  BY <1>3
<1>6. CASE Top.by = "code" /\ error = "INIT_JIT"
  <2>1. Run("interpreter", None) /\ UNCHANGED answer
    BY <1>6 DEF Return
  <2>2. PICK f : f = [Top EXCEPT !.by = "interpreter", !.code = None, !.runs = @ + 1]
    OBVIOUS
  <2>3. /\ f \in Frames /\ f.amx = Top.amx /\ f.gen = Top.gen
        /\ f.by = "interpreter"
    <3>1. Top.runs + 1 \in Nat
      BY <1>3 DEF Frames
    <3>2. [Top EXCEPT !.by = "interpreter", !.code = None] \in Frames
      BY <1>3 DEF Frames
    <3>3. f = [[Top EXCEPT !.by = "interpreter", !.code = None] EXCEPT !.runs = Top.runs + 1]
      BY <1>3, <2>2 DEF Frames
    <3> QED
      BY <1>3, <3>1, <3>2, <3>3 DEF Frames
  <2>4. /\ calls' \in Seq(Frames) /\ Len(calls') = Len(calls)
        /\ \A i \in 1..(Len(calls) - 1) : calls'[i] = calls[i]
        /\ calls'[Len(calls)] = f
    BY <1>1, <1>2, <2>1, <2>2, <2>3, ReplaceTop DEF Run, Below
  <2>5. \A i \in 1..Len(calls') : i \in 1..(Len(calls) - 1) \/ i = Len(calls)
    BY <1>3, <2>4
  <2>6. FrameOK(f)
    BY <1>4, <2>3 DEF FrameOK
  <2>7. \A i \in 1..Len(calls') : FrameOK(calls'[i])
    BY <1>5, <2>4, <2>5, <2>6 DEF HandlerInv
  <2>8. \A i \in 1..Len(calls') : Oldest(calls', i)
    <3>1. ASSUME NEW i \in 1..(Len(calls) - 1) PROVE Oldest(calls', i)
      <4>1. Oldest(calls, i) /\ i < Len(calls)
        BY <1>5 DEF HandlerInv
      <4> QED
        BY <4>1, <1>3, <2>3, <2>4, <2>5 DEF Oldest, Top
    <3> QED
      BY <3>1, <2>3, <2>4, <2>5 DEF Oldest
  <2> QED
    BY <1>1, <1>2, <2>1, <2>4, <2>7, <2>8, CallsKeep
<1>7. CASE ~(Top.by = "code" /\ error = "INIT_JIT")
  <2>1. calls' = Below /\ answer' = [error |-> error, retval |-> retval]
    BY <1>7 DEF Return
  <2>2. answer' \in Answers
    BY <2>1 DEF Answers
  <2>3. /\ calls' \in Seq(Frames) /\ Len(calls') = Len(calls) - 1
        /\ \A i \in 1..(Len(calls) - 1) : calls'[i] = calls[i]
    BY <1>1, <1>2, <2>1, PopOne DEF Below
  <2>4. \A i \in 1..Len(calls') : FrameOK(calls'[i])
    BY <1>5, <2>3 DEF HandlerInv
  <2>5. \A i \in 1..Len(calls') : Oldest(calls', i)
    BY <1>5, <2>3 DEF HandlerInv, Oldest
  <2> QED
    BY <1>1, <1>2, <2>2, <2>3, <2>4, <2>5, CallsKeep
<1> QED
  BY <1>6, <1>7

\* The steps of a compilation.
LEMMA CompileKeeps ==
  ASSUME HandlerInv, Compile
  PROVE  HandlerInv'
<1>1. calls # <<>> /\ Top.by = "handler"
  BY DEF Compile, AskScript, TakeAnswer, CompileScript, CompileError, Told, Compiling
<1>2. /\ Top.amx \in Amxs /\ script[Top.amx] # None
  BY <1>1, TopHandler
<1>3. answer \in Answers /\ log \in Logs
  BY DEF HandlerInv, TypeOK, Answers, Logs
<1>4. ASSUME NEW event \in Events, Logged(event) PROVE log' \in Logs
  <2>1. Append(log[Top.amx], event) \in Seq(Events)
    BY <1>2, <1>3, AppendProperties DEF Logs
  <2> QED
    BY <2>1, <1>2, <1>3, <1>4 DEF Logged, Logs
<1>5. ASSUME GiveUp, UNCHANGED <<script, buffers, loads>>, answer' \in Answers, log' \in Logs
      PROVE  HandlerInv'
  <2>1. /\ handlers' = [handlers EXCEPT ![Top.amx] = Failed]
        /\ Run("interpreter", None) /\ UNCHANGED jitvar
    BY <1>5 DEF GiveUp
  <2> QED
    BY <1>1, <1>5, <2>1, DecidedKeeps
<1>6. ASSUME NEW st \in {"ask", "asked", "compile", "told"}, calls' = AtStage(st),
             UNCHANGED <<script, handlers, jitvar, buffers, loads>>,
             answer' \in Answers, log' \in Logs
      PROVE  HandlerInv'
  <2>1. /\ AtStage(st) \in Seq(Frames)
        /\ \A i \in 1..Len(AtStage(st)) : FrameOK(AtStage(st)[i])
        /\ \A i \in 1..Len(AtStage(st)) : Oldest(AtStage(st), i)
    BY <1>1, StageKeeps
  <2> QED
    BY <1>6, <2>1, CallsKeep
<1>7. ASSUME NEW st \in {"ask", "asked", "compile", "told"},
             NEW p \in AllPublics, AmxExec(AtStage(st), Top.amx, p),
             UNCHANGED <<script, buffers, loads>>, answer' \in Answers, log' \in Logs
      PROVE  HandlerInv'
  <2>1. /\ AtStage(st) \in Seq(Frames)
        /\ \A i \in 1..Len(AtStage(st)) : FrameOK(AtStage(st)[i])
        /\ \A i \in 1..Len(AtStage(st)) : Oldest(AtStage(st), i)
    BY <1>1, StageKeeps
  <2>2. PICK t, a : t = AtStage(st) /\ a = Top.amx
    OBVIOUS
  <2>3. AmxExec(t, a, p)
    BY <1>7, <2>2
  <2> QED
    BY <1>2, <1>7, <2>1, <2>2, <2>3, ExecKeeps
<1>8. CASE AskScript
  <2>1. UNCHANGED <<script, buffers, loads, answer>>
    BY <1>8 DEF AskScript
  <2>2. CASE script[Top.amx].program.asks
    <3>1. AmxExec(AtStage("asked"), Top.amx, "OnJITCompile") /\ Logged("OnJITCompile")
      BY <1>8, <2>2 DEF AskScript
    <3>2. log' \in Logs
      BY <3>1, <1>4 DEF Events
    <3> QED
      BY <3>1, <3>2, <2>1, <1>3, <1>7 DEF AllPublics
  <2>3. CASE ~script[Top.amx].program.asks
    <3>1. calls' = AtStage("compile") /\ UNCHANGED <<handlers, jitvar, log>>
      BY <1>8, <2>3 DEF AskScript
    <3> QED
      BY <3>1, <2>1, <1>3, <1>6
  <2> QED
    BY <2>2, <2>3
<1>9. CASE TakeAnswer
  <2>1. UNCHANGED <<script, buffers, loads, answer, log>>
    BY <1>9 DEF TakeAnswer
  <2>2. CASE GiveUp
    BY <2>1, <2>2, <1>3, <1>5
  <2>3. CASE calls' = AtStage("compile") /\ UNCHANGED <<handlers, jitvar>>
    BY <2>1, <2>3, <1>3, <1>6
  <2> QED
    BY <1>9, <2>2, <2>3 DEF TakeAnswer
<1>10. CASE CompileScript
  <2>1. /\ UNCHANGED <<script, jitvar, loads, answer>> /\ Logged("code")
        /\ buffers' = [buffers EXCEPT ![Top.gen] = @ + 1]
        /\ handlers' = [handlers EXCEPT ![Top.amx] = Compiled(Top.gen)]
        /\ Run("code", Top.gen)
    BY <1>10 DEF CompileScript
  <2>2. log' \in Logs
    BY <2>1, <1>4 DEF Events
  <2>3. PICK h, g : h = Compiled(Top.gen) /\ g = Top.gen
    OBVIOUS
  <2>4. Run("code", g) /\ handlers' = [handlers EXCEPT ![Top.amx] = h]
    BY <2>1, <2>3
  <2> QED
    BY <2>1, <2>2, <2>3, <2>4, <1>1, <1>3, DecidedKeeps
<1>11. CASE CompileError
  <2>1. UNCHANGED <<script, buffers, loads, answer>> /\ Logged("error")
    BY <1>11 DEF CompileError
  <2>2. log' \in Logs
    BY <2>1, <1>4 DEF Events
  <2>3. CASE script[Top.amx].program.tells
    <3>1. AmxExec(AtStage("told"), Top.amx, "OnJITError")
      BY <1>11, <2>3 DEF CompileError
    <3> QED
      BY <3>1, <2>1, <2>2, <1>3, <1>7 DEF AllPublics
  <2>4. CASE ~script[Top.amx].program.tells
    <3>1. GiveUp
      BY <1>11, <2>4 DEF CompileError
    <3> QED
      BY <3>1, <2>1, <2>2, <1>3, <1>5
  <2> QED
    BY <2>3, <2>4
<1>12. CASE Told
  <2>1. GiveUp /\ UNCHANGED <<script, buffers, loads, answer, log>>
    BY <1>12 DEF Told
  <2> QED
    BY <2>1, <1>3, <1>5
<1> QED
  BY <1>8, <1>9, <1>10, <1>11, <1>12 DEF Compile

LEMMA HandlerInvStep == HandlerInv /\ [Next]_vars => HandlerInv'
<1> SUFFICES ASSUME HandlerInv, [Next]_vars PROVE HandlerInv'
  OBVIOUS
<1>1. ASSUME NEW a \in Amxs, NEW p \in Publics, Exec(a, p) PROVE HandlerInv'
  <2>1. /\ script[a] # None /\ AmxExec(calls, a, p) /\ p \in AllPublics
        /\ UNCHANGED <<script, buffers, loads, answer, log>>
    BY <1>1 DEF Exec, AllPublics
  <2>2. /\ calls \in Seq(Frames) /\ answer' \in Answers /\ log' \in Logs
        /\ \A i \in 1..Len(calls) : FrameOK(calls[i])
        /\ \A i \in 1..Len(calls) : Oldest(calls, i)
    BY <2>1 DEF HandlerInv, TypeOK, Answers, Logs
  <2>3. PICK t : t = calls
    OBVIOUS
  <2> QED
    BY <2>1, <2>2, <2>3, ExecKeeps
<1>2. CASE UNCHANGED vars
  <2>1. UNCHANGED <<script, jitvar, handlers, buffers, loads, calls, answer, log>>
    BY <1>2 DEF vars
  <2>2. /\ calls' \in Seq(Frames) /\ answer' \in Answers /\ log' \in Logs
        /\ \A i \in 1..Len(calls') : FrameOK(calls'[i])
        /\ \A i \in 1..Len(calls') : Oldest(calls', i)
    BY <2>1 DEF HandlerInv, TypeOK, Answers, Logs
  <2> QED
    BY <2>1, <2>2, CallsKeep
<1>3. CASE \E a \in Amxs, program \in Programs : AmxLoad(a, program)
  BY <1>3, LoadKeeps
<1>4. CASE \E a \in Amxs : AmxUnload(a)
  BY <1>4, UnloadKeeps
<1>5. CASE \E a \in Amxs, p \in Publics : Exec(a, p)
  BY <1>1, <1>5
<1>6. CASE Compile
  BY <1>6, CompileKeeps
<1>7. CASE \E error \in Errors, retval \in Results : Return(error, retval)
  BY <1>7, ReturnKeeps
<1>8. CASE Idle
  BY <1>2, <1>8 DEF Idle
<1> QED
  BY <1>2, <1>3, <1>4, <1>5, <1>6, <1>7, <1>8 DEF Next

\* Handlers, their buffers and the activations of amx_Exec fit together after
\* every call, return, load and unload.
THEOREM HandlerInvariant == Spec => []HandlerInv
<1> QED
  BY HandlerInvInit, HandlerInvStep, PTL DEF Spec
-----------------------------------------------------------------------------
(* What follows from it.                                                   *)

\* Type correctness.
THEOREM HandlerTypes == Spec => []TypeOK
<1>1. HandlerInv => TypeOK
  BY DEF HandlerInv
<1> QED
  BY <1>1, HandlerInvariant, PTL

\* Compiled code that runs is alive and belongs to the script that is loaded:
\* entry_point of JITHandler::Exec is never called, nor returned to, in a
\* deleted buffer or in one made from an older script.
THEOREM CompiledCodeAlive == Spec => []CodeAlive
<1>1. HandlerInv => CodeAlive
  <2> SUFFICES ASSUME HandlerInv, NEW i \in DOMAIN calls, calls[i].by = "code"
               PROVE  /\ script[calls[i].amx] # None
                      /\ calls[i].gen = script[calls[i].amx].gen
                      /\ calls[i].code = calls[i].gen
                      /\ buffers[calls[i].code] = 1
    BY DEF CodeAlive
  <2>1. i \in 1..Len(calls) /\ calls[i] \in Frames
    BY LenProperties, ElementOfSeq DEF HandlerInv, TypeOK
  <2>2. PICK a, g : a = calls[i].amx /\ g = calls[i].gen
    OBVIOUS
  <2>3. FrameOK(calls[i]) /\ a \in Amxs /\ g \in Gens
    BY <2>1, <2>2 DEF HandlerInv, Frames
  <2>4. /\ script[a] # None /\ g = script[a].gen /\ calls[i].code = g
        /\ handlers[a] # None /\ handlers[a].state = "COMPILE_SUCCEDED"
    BY <2>2, <2>3 DEF FrameOK
  <2>5. handlers[a].code = g
    BY <2>3, <2>4 DEF HandlerInv, HandlerOK
  <2>6. buffers[g] = 1
    BY <2>3, <2>4, <2>5 DEF HandlerInv, CodeOwned
  <2> QED
    BY <2>2, <2>4, <2>6
<1> QED
  BY <1>1, HandlerInvariant, PTL

\* No buffer outlives its script, none is deleted before or twice.
THEOREM CompiledCodeOwned == Spec => []CodeOwned
<1>1. HandlerInv => CodeOwned
  BY DEF HandlerInv
<1> QED
  BY <1>1, HandlerInvariant, PTL

\* However calls nest, one activation at most compiles a script.
THEOREM OneCompilationAtATime == Spec => []OneCompilation
<1>1. HandlerInv => OneCompilation
  <2> SUFFICES ASSUME HandlerInv, NEW i \in DOMAIN calls, calls[i].by = "handler"
               PROVE  /\ handlers[calls[i].amx] # None
                      /\ handlers[calls[i].amx].state = "COMPILE"
                      /\ \A j \in DOMAIN calls : j # i /\ calls[j].amx = calls[i].amx
                           => j > i /\ calls[j].by = "interpreter"
    BY DEF OneCompilation
  <2>1. DOMAIN calls = 1..Len(calls)
    BY LenProperties DEF HandlerInv, TypeOK
  <2>2. FrameOK(calls[i]) /\ Oldest(calls, i)
    BY <2>1 DEF HandlerInv
  <2> QED
    BY <2>1, <2>2 DEF FrameOK, Oldest
<1> QED
  BY <1>1, HandlerInvariant, PTL

\* No script runs without __JIT.
THEOREM JitVariableSet == Spec => []JitVarSet
<1>1. HandlerInv => JitVarSet
  <2> SUFFICES ASSUME HandlerInv, NEW i \in DOMAIN calls PROVE jitvar[calls[i].amx]
    BY DEF JitVarSet
  <2>1. i \in 1..Len(calls) /\ calls[i] \in Frames
    BY LenProperties, ElementOfSeq DEF HandlerInv, TypeOK
  <2>2. FrameOK(calls[i]) /\ calls[i].amx \in Amxs
    BY <2>1 DEF HandlerInv, Frames
  <2> QED
    BY <2>2 DEF HandlerInv, HandlerOK, FrameOK
<1> QED
  BY <1>1, HandlerInvariant, PTL

\* The decision to compile or to interpret a script is made once.
THEOREM DecisionsStable == Spec => DecisionStable
<1> DEFINE Stable == \A a \in Amxs : Decided(a) => handlers'[a] = handlers[a] \/ script'[a] = None
<1>1. HandlerInv /\ [Next]_vars => [Stable]_vars
  <2> SUFFICES ASSUME HandlerInv, Next, NEW a \in Amxs, Decided(a)
               PROVE  handlers'[a] = handlers[a] \/ script'[a] = None
    OBVIOUS
  <2>0. /\ handlers[a] # None /\ handlers[a].state \notin {"INIT", "COMPILE"}
        /\ DOMAIN handlers = Amxs /\ DOMAIN script = Amxs
    BY DEF Decided, HandlerInv, TypeOK
  <2>1. ASSUME NEW t, NEW b, NEW p, AmxExec(t, b, p) PROVE handlers'[a] = handlers[a]
    <3>1. handlers' = [handlers EXCEPT ![b] = Entered(GetHandler(b))]
      BY <2>1 DEF AmxExec
    <3>2. Entered(GetHandler(a)) = handlers[a]
      BY HandlerFound, <2>0
    <3> QED
      BY <3>1, <3>2, <2>0
  <2>2. ASSUME Compile PROVE handlers'[a] = handlers[a]
    <3>1. Top.by = "handler" /\ calls # <<>>
      BY <2>2 DEF Compile, AskScript, TakeAnswer, CompileScript, CompileError, Told, Compiling
    <3>2. Top.amx # a
      BY <2>0, <3>1, TopHandler
    <3>3. ASSUME GiveUp PROVE handlers'[a] = handlers[a]
      BY <3>2, <3>3, <2>0 DEF GiveUp
    <3>4. CASE AskScript
      BY <3>4, <2>1 DEF AskScript
    <3>5. CASE TakeAnswer
      BY <3>5, <3>3 DEF TakeAnswer
    <3>6. CASE CompileScript
      BY <3>6, <3>2, <2>0 DEF CompileScript
    <3>7. CASE CompileError
      BY <3>7, <3>3, <2>1 DEF CompileError
    <3>8. CASE Told
      BY <3>8, <3>3 DEF Told
    <3> QED
      BY <2>2, <3>4, <3>5, <3>6, <3>7, <3>8 DEF Compile
  <2>3. CASE \E b \in Amxs, program \in Programs : AmxLoad(b, program)
    BY <2>3 DEF AmxLoad
  <2>4. CASE \E b \in Amxs : AmxUnload(b)
    BY <2>4, <2>0 DEF AmxUnload, DestroyHandler
  <2>5. CASE \E b \in Amxs, p \in Publics : Exec(b, p)
    BY <2>5, <2>1 DEF Exec
  <2>6. CASE \E error \in Errors, retval \in Results : Return(error, retval)
    BY <2>6 DEF Return
  <2>7. CASE Idle
    BY <2>7 DEF Idle, vars
  <2> QED
    BY <2>2, <2>3, <2>4, <2>5, <2>6, <2>7 DEF Next
<1> QED
  BY <1>1, HandlerInvariant, PTL DEF Spec, DecisionStable
-----------------------------------------------------------------------------
(* JITHandler implements ExecService.                                      *)

Acts == [amx : Amxs, public : AllPublics, runs : Nat]

Seen(f) == [amx |-> f.amx, public |-> f.public, runs |-> f.runs]

\* Until a call has been decided its public has not run; then it runs once.
RunsOK(s) == \A i \in 1..Len(s) : s[i].runs = IF s[i].by = "handler" THEN 0 ELSE 1

\* What callers see of a stack is a stack.
LEMMA ViewSeq ==
  ASSUME NEW s \in Seq(Frames)
  PROVE  /\ View(s) \in Seq(Acts) /\ Len(View(s)) = Len(s) /\ Len(s) \in Nat
         /\ \A i \in 1..Len(s) : View(s)[i] = Seen(s[i])
<1>1. Len(s) \in Nat
  BY LenProperties
<1>2. \A i \in 1..Len(s) : Seen(s[i]) \in Acts
  <2>1. \A i \in 1..Len(s) : s[i] \in Frames
    BY <1>1, ElementOfSeq
  <2> QED
    BY <2>1 DEF Frames, Acts, Seen
<1>3. View(s) = [i \in 1..Len(s) |-> Seen(s[i])]
  BY DEF View, Seen
<1>4. View(s) \in [1..Len(s) -> Acts]
  BY <1>2, <1>3
<1>5. View(s) \in Seq(Acts) /\ Len(View(s)) = Len(s)
  BY <1>1, <1>4, SeqDef, LenProperties
<1> QED
  BY <1>1, <1>3, <1>5

\* Pushing, replacing and popping an activation is seen as such.
LEMMA ViewPushed ==
  ASSUME NEW s \in Seq(Frames), NEW f \in Frames
  PROVE  View(Append(s, f)) = Append(View(s), Seen(f))
<1>1. PICK t : t = Append(s, f)
  OBVIOUS
<1>2. /\ t \in Seq(Frames) /\ Len(t) = Len(s) + 1 /\ t[Len(s) + 1] = f
      /\ \A i \in 1..Len(s) : t[i] = s[i]
  BY <1>1, AppendOne
<1>3. /\ View(t) \in Seq(Acts) /\ Len(View(t)) = Len(t)
      /\ \A i \in 1..Len(t) : View(t)[i] = Seen(t[i])
  BY <1>2, ViewSeq
<1>4. /\ View(s) \in Seq(Acts) /\ Len(View(s)) = Len(s) /\ Len(s) \in Nat
      /\ \A i \in 1..Len(s) : View(s)[i] = Seen(s[i])
  BY ViewSeq
<1>5. Seen(f) \in Acts
  BY DEF Frames, Acts, Seen
<1>6. PICK u : u = Append(View(s), Seen(f))
  OBVIOUS
<1>7. /\ u \in Seq(Acts) /\ Len(u) = Len(s) + 1 /\ u[Len(s) + 1] = Seen(f)
      /\ \A i \in 1..Len(s) : u[i] = View(s)[i]
  BY <1>4, <1>5, <1>6, AppendOne
<1>8. \A i \in 1..Len(View(t)) : View(t)[i] = u[i]
  <2> SUFFICES ASSUME NEW i \in 1..Len(View(t)) PROVE View(t)[i] = u[i]
    OBVIOUS
  <2>1. i \in 1..Len(t) /\ (i \in 1..Len(s) \/ i = Len(s) + 1)
    BY <1>2, <1>3, <1>4
  <2> QED
    BY <2>1, <1>2, <1>3, <1>4, <1>7
<1>9. Len(View(t)) = Len(u)
  BY <1>2, <1>3, <1>7
<1> QED
  BY <1>1, <1>3, <1>6, <1>7, <1>8, <1>9, SeqEqual

LEMMA ViewCutOff ==
  ASSUME NEW s \in Seq(Frames), s # <<>>
  PROVE  /\ View(SubSeq(s, 1, Len(s) - 1)) = SubSeq(View(s), 1, Len(View(s)) - 1)
         /\ View(s) # <<>> /\ View(s)[Len(View(s))] = Seen(s[Len(s)])
<1>1. PICK t : t = SubSeq(s, 1, Len(s) - 1)
  OBVIOUS
<1>2. /\ t \in Seq(Frames) /\ Len(t) = Len(s) - 1 /\ Len(s) \in Nat \ {0}
      /\ \A i \in 1..(Len(s) - 1) : t[i] = s[i]
  BY <1>1, PopOne
<1>3. /\ View(t) \in Seq(Acts) /\ Len(View(t)) = Len(t)
      /\ \A i \in 1..Len(t) : View(t)[i] = Seen(t[i])
  BY <1>2, ViewSeq
<1>4. /\ View(s) \in Seq(Acts) /\ Len(View(s)) = Len(s)
      /\ \A i \in 1..Len(s) : View(s)[i] = Seen(s[i])
  BY ViewSeq
<1>5. View(s) # <<>>
  BY <1>2, <1>4, EmptySeq
<1>6. PICK u : u = SubSeq(View(s), 1, Len(View(s)) - 1)
  OBVIOUS
<1>7. /\ u \in Seq(Acts) /\ Len(u) = Len(s) - 1
      /\ \A i \in 1..(Len(s) - 1) : u[i] = View(s)[i]
  BY <1>4, <1>5, <1>6, PopOne
<1>8. \A i \in 1..Len(View(t)) : View(t)[i] = u[i]
  <2> SUFFICES ASSUME NEW i \in 1..Len(View(t)) PROVE View(t)[i] = u[i]
    OBVIOUS
  <2>1. i \in 1..Len(t) /\ i \in 1..(Len(s) - 1) /\ i \in 1..Len(s)
    BY <1>2, <1>3
  <2> QED
    BY <2>1, <1>2, <1>3, <1>4, <1>7
<1>9. Len(View(t)) = Len(u)
  BY <1>2, <1>3, <1>7
<1>10. View(t) = u
  BY <1>3, <1>7, <1>8, <1>9, SeqEqual
<1>11. View(s)[Len(View(s))] = Seen(s[Len(s)])
  BY <1>2, <1>4
<1> QED
  BY <1>1, <1>5, <1>6, <1>10, <1>11

\* The activation pushed by amx_Exec.
LEMMA ExecFrame ==
  ASSUME HandlerInv, NEW a \in Amxs, NEW p \in AllPublics, script[a] # None,
         NEW t \in Seq(Frames), AmxExec(t, a, p)
  PROVE  \E f \in Frames :
           /\ calls' = Append(t, f)
           /\ f.amx = a /\ f.public = p /\ f.by = Runner(GetHandler(a)) /\ f.stage = "ask"
           /\ f.runs = IF f.by = "handler" THEN 0 ELSE 1
<1>1. PICK h : h = GetHandler(a)
  OBVIOUS
<1>2. PICK f : f = [amx |-> a, gen |-> script[a].gen, public |-> p, by |-> Runner(h),
                    code |-> h.code, stage |-> "ask",
                    runs |-> IF Runner(h) = "handler" THEN 0 ELSE 1]
  OBVIOUS
<1>3. /\ h \in [state : States, code : Gens \cup {None}]
      /\ Runner(h) \in {"handler", "interpreter", "code"}
  BY <1>1, HandlerFound
<1>4. script[a].gen \in Gens
  BY DEF HandlerInv, TypeOK
<1>5. f \in Frames
  BY <1>2, <1>3, <1>4 DEF Frames
<1>6. calls' = Append(t, f)
  BY <1>1, <1>2 DEF AmxExec
<1> QED
  BY <1>1, <1>2, <1>5, <1>6

LEMMA PushSeen ==
  ASSUME NEW t \in Seq(Frames), RunsOK(t), NEW f \in Frames, calls' = Append(t, f),
         f.runs = IF f.by = "handler" THEN 0 ELSE 1
  PROVE  RunsOK(calls') /\ View(calls)' = Append(View(t), Seen(f))
<1>1. /\ Len(calls') = Len(t) + 1 /\ Len(t) \in Nat /\ calls'[Len(t) + 1] = f
      /\ \A i \in 1..Len(t) : calls'[i] = t[i]
  BY AppendOne
<1>2. \A i \in 1..Len(calls') : i \in 1..Len(t) \/ i = Len(t) + 1
  BY <1>1
<1>3. RunsOK(calls')
  BY <1>1, <1>2 DEF RunsOK
<1>4. View(Append(t, f)) = Append(View(t), Seen(f))
  BY ViewPushed
<1>5. View(calls)' = View(Append(t, f))
  BY DEF View
<1> QED
  BY <1>3, <1>4, <1>5

\* The top of the stack, as a caller sees it.
LEMMA TopSeen ==
  ASSUME calls \in Seq(Frames), RunsOK(calls), calls # <<>>
  PROVE  /\ View(calls) # <<>> /\ Service!Last = Seen(Top) /\ Service!Older = View(Below)
         /\ Top \in Frames /\ Below \in Seq(Frames) /\ RunsOK(Below)
         /\ Top.runs = IF Top.by = "handler" THEN 0 ELSE 1
<1>1. /\ Below \in Seq(Frames) /\ Len(Below) = Len(calls) - 1
      /\ \A i \in 1..(Len(calls) - 1) : Below[i] = calls[i]
      /\ Len(calls) \in Nat \ {0} /\ Top \in Frames
  BY PopOne DEF Below, Top
<1>2. \A i \in 1..Len(Below) : i \in 1..Len(calls) /\ i \in 1..(Len(calls) - 1)
  BY <1>1
<1>3. RunsOK(Below)
  BY <1>1, <1>2 DEF RunsOK
<1>4. Len(calls) \in 1..Len(calls)
  BY <1>1
<1>5. Top.runs = IF Top.by = "handler" THEN 0 ELSE 1
  BY <1>4 DEF RunsOK, Top
<1>6. /\ View(SubSeq(calls, 1, Len(calls) - 1)) = SubSeq(View(calls), 1, Len(View(calls)) - 1)
      /\ View(calls) # <<>> /\ View(calls)[Len(View(calls))] = Seen(calls[Len(calls)])
  BY ViewCutOff
<1> QED
  BY <1>1, <1>3, <1>5, <1>6 DEF Service!Last, Service!Older, Below, Top

\* The stage of a compilation is not seen.
LEMMA StageSeen ==
  ASSUME calls \in Seq(Frames), RunsOK(calls), calls # <<>>,
         NEW st \in {"ask", "asked", "compile", "told"}
  PROVE  /\ AtStage(st) \in Seq(Frames) /\ RunsOK(AtStage(st))
         /\ View(AtStage(st)) = View(calls)
<1>1. PICK f : f = [Top EXCEPT !.stage = st]
  OBVIOUS
<1>2. /\ Top \in Frames /\ Below \in Seq(Frames) /\ RunsOK(Below)
      /\ Top.runs = IF Top.by = "handler" THEN 0 ELSE 1
  BY TopSeen
<1>3. f \in Frames /\ Seen(f) = Seen(Top) /\ f.by = Top.by /\ f.runs = Top.runs
  BY <1>1, <1>2 DEF Frames, Seen
<1>4. PICK t : t = AtStage(st)
  OBVIOUS
<1>5. /\ t \in Seq(Frames) /\ Len(t) = Len(calls) /\ Len(calls) \in Nat \ {0}
      /\ \A i \in 1..(Len(calls) - 1) : t[i] = calls[i]
      /\ t[Len(calls)] = f
  BY <1>1, <1>3, <1>4, ReplaceTop DEF AtStage, Below
<1>6. \A i \in 1..Len(t) : i \in 1..(Len(calls) - 1) \/ i = Len(calls)
  BY <1>5
<1>7. \A i \in 1..Len(t) : /\ Seen(t[i]) = Seen(calls[i])
                           /\ t[i].by = calls[i].by /\ t[i].runs = calls[i].runs
  BY <1>3, <1>5, <1>6 DEF Top
<1>8. RunsOK(t)
  BY <1>5, <1>7 DEF RunsOK
<1>9. View(t) = View(calls)
  <2>1. View(t) = [i \in 1..Len(t) |-> Seen(t[i])]
    BY DEF View, Seen
  <2>2. View(calls) = [i \in 1..Len(calls) |-> Seen(calls[i])]
    BY DEF View, Seen
  <2> QED
    BY <2>1, <2>2, <1>5, <1>7
<1> QED
  BY <1>4, <1>5, <1>8, <1>9

\* A call that was waiting is run.
LEMMA RunSeen ==
  ASSUME calls \in Seq(Frames), RunsOK(calls), calls # <<>>, Top.by = "handler",
         NEW by \in {"interpreter", "code"}, NEW code \in Gens \cup {None}, Run(by, code)
  PROVE  RunsOK(calls') /\ Service!Start
<1>1. /\ View(calls) # <<>> /\ Service!Last = Seen(Top) /\ Service!Older = View(Below)
      /\ Top \in Frames /\ Below \in Seq(Frames) /\ RunsOK(Below) /\ Top.runs = 0
  BY TopSeen
<1>2. PICK f : f = [Top EXCEPT !.by = by, !.code = code, !.runs = @ + 1]
  OBVIOUS
<1>3. /\ f \in Frames /\ f.amx = Top.amx /\ f.public = Top.public
      /\ f.by = by /\ f.runs = 1
  <2>1. [Top EXCEPT !.by = by, !.code = code] \in Frames
    BY <1>1 DEF Frames
  <2>2. f = [[Top EXCEPT !.by = by, !.code = code] EXCEPT !.runs = Top.runs + 1]
    BY <1>1, <1>2 DEF Frames
  <2>3. PICK g : g = [Top EXCEPT !.by = by, !.code = code]
    OBVIOUS
  <2>4. g \in Frames /\ g.amx = Top.amx /\ g.public = Top.public /\ g.by = by
    BY <1>1, <2>1, <2>3 DEF Frames
  <2>5. f = [g EXCEPT !.runs = 1]
    BY <1>1, <2>2, <2>3
  <2> QED
    BY <2>4, <2>5 DEF Frames
<1>5. calls' = Append(Below, f)
  BY <1>2 DEF Run
<1>6. f.runs = 1 /\ f.by # "handler" /\ Seen(f) = [Seen(Top) EXCEPT !.runs = 1]
  BY <1>3 DEF Seen
<1>7. RunsOK(calls') /\ View(calls)' = Append(View(Below), Seen(f))
  BY <1>1, <1>3, <1>5, <1>6, PushSeen
<1>8. Service!Last.runs = 0
  BY <1>1 DEF Seen
<1> QED
  BY <1>1, <1>6, <1>7, <1>8 DEF Service!Start

\* Every step of a compilation is a callback, the start of the call or unseen.
LEMMA CompileSeen ==
  ASSUME HandlerInv, RunsOK(calls), Compile
  PROVE  RunsOK(calls') /\ (Service!Next \/ View(calls)' = View(calls))
<1>1. calls \in Seq(Frames) /\ calls # <<>> /\ Top.by = "handler"
  BY DEF Compile, AskScript, TakeAnswer, CompileScript, CompileError, Told, Compiling,
         HandlerInv, TypeOK
<1>2. /\ Top.amx \in Amxs /\ script[Top.amx] # None /\ Top.gen \in Gens
      /\ handlers[Top.amx] # None /\ handlers[Top.amx].state = "COMPILE"
  BY <1>1, TopHandler
<1>3. /\ View(calls) # <<>> /\ Service!Last = Seen(Top) /\ Top.runs = 0
  BY <1>1, TopSeen
<1>4. ASSUME GiveUp PROVE RunsOK(calls') /\ Service!Next
  <2>1. Run("interpreter", None)
    BY <1>4 DEF GiveUp
  <2>2. RunsOK(calls') /\ Service!Start
    BY <1>1, <2>1, RunSeen
  <2> QED
    BY <2>2 DEF Service!Next
<1>5. ASSUME NEW st \in {"ask", "asked", "compile", "told"}, calls' = AtStage(st)
      PROVE  RunsOK(calls') /\ View(calls)' = View(calls)
  <2>1. RunsOK(AtStage(st)) /\ View(AtStage(st)) = View(calls)
    BY <1>1, StageSeen
  <2>2. View(calls)' = View(AtStage(st))
    BY <1>5 DEF View
  <2> QED
    BY <1>5, <2>1, <2>2
<1>6. ASSUME NEW st \in {"ask", "asked", "compile", "told"},
             NEW p \in {"OnJITCompile", "OnJITError"}, AmxExec(AtStage(st), Top.amx, p)
      PROVE  RunsOK(calls') /\ Service!Next
  <2>1. PICK t, a : t = AtStage(st) /\ a = Top.amx
    OBVIOUS
  <2>2. t \in Seq(Frames) /\ RunsOK(t) /\ View(t) = View(calls)
    BY <1>1, <2>1, StageSeen
  <2>3. AmxExec(t, a, p) /\ p \in AllPublics /\ a \in Amxs /\ script[a] # None
    BY <1>2, <1>6, <2>1 DEF AllPublics
  <2>4. PICK f \in Frames :
           /\ calls' = Append(t, f)
           /\ f.amx = a /\ f.public = p /\ f.by = Runner(GetHandler(a))
           /\ f.runs = IF f.by = "handler" THEN 0 ELSE 1
    BY <2>2, <2>3, ExecFrame
  <2>5. f.by = "interpreter"
    BY <1>2, <2>1, <2>4 DEF Runner, GetHandler
  <2>6. RunsOK(calls') /\ View(calls)' = Append(View(t), Seen(f))
    BY <2>2, <2>4, PushSeen
  <2>7. Seen(f) = [amx |-> Service!Last.amx, public |-> p, runs |-> 1]
    BY <1>3, <2>1, <2>4, <2>5 DEF Seen
  <2>8. Service!Last.runs = 0
    BY <1>3 DEF Seen
  <2>9. Service!Callback(p)
    BY <1>3, <2>2, <2>6, <2>7, <2>8 DEF Service!Callback
  <2> QED
    BY <2>6, <2>9 DEF Service!Next, Service!Callbacks
<1>7. CASE AskScript
  BY <1>7, <1>5, <1>6 DEF AskScript
<1>8. CASE TakeAnswer
  BY <1>8, <1>4, <1>5 DEF TakeAnswer
<1>9. CASE CompileScript
  <2>1. PICK g : g = Top.gen
    OBVIOUS
  <2>2. Run("code", g) /\ g \in Gens \cup {None}
    BY <1>2, <1>9, <2>1 DEF CompileScript
  <2>3. RunsOK(calls') /\ Service!Start
    BY <1>1, <2>2, RunSeen
  <2> QED
    BY <2>3 DEF Service!Next
<1>10. CASE CompileError
  BY <1>10, <1>4, <1>6 DEF CompileError
<1>11. CASE Told
  BY <1>11, <1>4 DEF Told
<1> QED
  BY <1>7, <1>8, <1>9, <1>10, <1>11 DEF Compile

\* Every step of the plugin is a step of the service or is not seen.
LEMMA StepSeen ==
  ASSUME "INIT_JIT" \notin Errors, HandlerInv, RunsOK(calls), [Next]_vars
  PROVE  RunsOK(calls') /\ (Service!Next \/ View(calls)' = View(calls))
<1>1. calls \in Seq(Frames)
  BY DEF HandlerInv, TypeOK
<1>2. ASSUME UNCHANGED calls PROVE RunsOK(calls') /\ View(calls)' = View(calls)
  BY <1>2 DEF RunsOK, View
<1>3. ASSUME NEW a \in Amxs, NEW p \in Publics, Exec(a, p)
      PROVE  RunsOK(calls') /\ Service!Next
  <2>1. /\ AmxExec(calls, a, p) /\ script[a] # None /\ p \in AllPublics
        /\ calls # <<>> => Top.by # "handler"
    BY <1>3 DEF Exec, InControl, AllPublics
  <2>2. PICK t : t = calls
    OBVIOUS
  <2>3. PICK f \in Frames :
           /\ calls' = Append(t, f)
           /\ f.amx = a /\ f.public = p
           /\ f.runs = IF f.by = "handler" THEN 0 ELSE 1
    BY <1>1, <2>1, <2>2, ExecFrame
  <2>4. RunsOK(calls') /\ View(calls)' = Append(View(calls), Seen(f))
    BY <1>1, <2>2, <2>3, PushSeen
  <2>5. Seen(f) = [amx |-> a, public |-> p, runs |-> f.runs] /\ f.runs \in {0, 1}
    BY <2>3 DEF Seen
  <2>6. View(calls) # <<>> => Service!Last.runs = 1
    <3> SUFFICES ASSUME View(calls) # <<>> PROVE Service!Last.runs = 1
      OBVIOUS
    <3>1. calls # <<>>
      <4> SUFFICES ASSUME calls = <<>> PROVE FALSE
        OBVIOUS
      <4>1. View(calls) \in Seq(Acts) /\ Len(View(calls)) = 0
        BY <1>1, ViewSeq
      <4> QED
        BY <4>1, EmptySeq
    <3>2. Service!Last = Seen(Top) /\ Top.runs = 1
      BY <1>1, <2>1, <3>1, TopSeen
    <3> QED
      BY <3>2 DEF Seen
  <2>7. Service!Call(a, p, f.runs)
    BY <2>4, <2>5, <2>6 DEF Service!Call
  <2> QED
    BY <2>4, <2>5, <2>7 DEF Service!Next
<1>4. ASSUME NEW error \in Errors, NEW retval \in Results, Return(error, retval)
      PROVE  RunsOK(calls') /\ Service!Next
  <2>1. calls # <<>> /\ Top.by # "handler" /\ calls' = Below
    BY <1>4 DEF Return
  <2>2. /\ View(calls) # <<>> /\ Service!Last = Seen(Top) /\ Service!Older = View(Below)
        /\ RunsOK(Below) /\ Top.runs = 1
    BY <1>1, <2>1, TopSeen
  <2>3. View(calls)' = Service!Older /\ Service!Last.runs = 1
    BY <2>1, <2>2 DEF View, Seen
  <2>4. Service!Finish
    BY <2>2, <2>3 DEF Service!Finish
  <2> QED
    BY <2>1, <2>2, <2>4 DEF Service!Next
<1>5. CASE \E a \in Amxs, program \in Programs : AmxLoad(a, program)
  BY <1>2, <1>5 DEF AmxLoad
<1>6. CASE \E a \in Amxs : AmxUnload(a)
  BY <1>2, <1>6 DEF AmxUnload
<1>7. CASE Idle \/ UNCHANGED vars
  BY <1>2, <1>7 DEF Idle, vars
<1> QED
  BY <1>3, <1>4, <1>5, <1>6, <1>7, CompileSeen DEF Next

\* Unless a script itself ends with the error INIT_JIT, what callers of amx_Exec
\* see is what ExecService promises, whoever runs the script and however the
\* compiler's callbacks nest.
THEOREM ExecTransparent ==
  ASSUME "INIT_JIT" \notin Errors
  PROVE  Spec => Transparent
<1>1. Init => RunsOK(calls) /\ Service!Init
  <2> SUFFICES ASSUME Init PROVE RunsOK(calls) /\ Service!Init
    OBVIOUS
  <2>1. calls \in Seq(Frames) /\ Len(calls) = 0 /\ calls = <<>>
    BY EmptySeq DEF Init
  <2>2. RunsOK(calls)
    BY <2>1 DEF RunsOK
  <2>3. View(calls) \in Seq(Acts) /\ Len(View(calls)) = 0
    BY <2>1, ViewSeq
  <2>4. View(calls) = <<>>
    BY <2>3, EmptySeq
  <2> QED
    BY <2>2, <2>4 DEF Service!Init
<1>2. HandlerInv /\ RunsOK(calls) /\ [Next]_vars
        => RunsOK(calls)' /\ [Service!Next]_(View(calls))
  BY StepSeen
<1> QED
  BY <1>1, <1>2, HandlerInvariant, PTL DEF Spec, Transparent, Service!Spec
-----------------------------------------------------------------------------
(* The steps of a compilation come in order.  How far it has got is known   *)
(* from the stage of the handler's activation; the log of a script whose    *)
(* handler has not been made is empty.                                      *)

ErrorLogs == {<<"error">>, <<"OnJITCompile", "error">>}

StageLogs(stage) ==
  CASE stage = "ask" -> {<<>>}
    [] stage = "asked" -> {<<"OnJITCompile">>}
    [] stage = "compile" -> {<<>>, <<"OnJITCompile">>}
    [] stage = "told" -> ErrorLogs

FrameLog(f, l) ==
  /\ f.by = "handler" => l \in StageLogs(f.stage)
  /\ f.public = "OnJITError" => l \in ErrorLogs

LogInv ==
  /\ \A a \in Amxs : log[a] \in Protocols
  /\ \A a \in Amxs : script[a] # None /\ handlers[a] = None => log[a] = <<>>
  /\ \A i \in 1..Len(calls) : FrameLog(calls[i], log[calls[i].amx])

LEMMA LogSteps ==
  /\ Append(<<>>, "OnJITCompile") = <<"OnJITCompile">>
  /\ \A l \in {<<>>, <<"OnJITCompile">>} :
       /\ Append(l, "code") \in Protocols /\ Append(l, "error") \in ErrorLogs
       /\ l \notin ErrorLogs
  /\ ErrorLogs \subseteq Protocols /\ <<>> \in Protocols /\ <<"OnJITCompile">> \in Protocols
<1>1. /\ Append(<<>>, "OnJITCompile") = <<"OnJITCompile">>
      /\ Append(<<>>, "code") = <<"code">> /\ Append(<<>>, "error") = <<"error">>
  OBVIOUS
<1>2. /\ Append(<<"OnJITCompile">>, "code") = <<"OnJITCompile", "code">>
      /\ Append(<<"OnJITCompile">>, "error") = <<"OnJITCompile", "error">>
  <2>1. ASSUME NEW x \in Events, NEW y \in Events PROVE Append(<<x>>, y) = <<x, y>>
    <3>1. <<x>> \in Seq(Events) /\ Len(<<x>>) = 1 /\ <<x>>[1] = x
      OBVIOUS
    <3>2. PICK s \in Seq(Events) : s = Append(<<x>>, y)
      BY <3>1, AppendProperties
    <3>3. Len(s) = 2 /\ s[1] = x /\ s[2] = y
      BY <3>1, <3>2, AppendProperties
    <3>4. PICK t \in Seq(Events) : t = <<x, y>> /\ Len(t) = 2 /\ t[1] = x /\ t[2] = y
      <4>1. <<x, y>> \in Seq(Events)
        OBVIOUS
      <4>2. Len(<<x, y>>) = 2
        OBVIOUS
      <4>3. <<x, y>>[1] = x /\ <<x, y>>[2] = y
        OBVIOUS
      <4> QED
        BY <4>1, <4>2, <4>3
    <3>5. \A i \in 1..2 : i = 1 \/ i = 2
      OBVIOUS
    <3>6. s = t
      BY <3>3, <3>4, <3>5, SeqEqual
    <3> QED
      BY <3>2, <3>4, <3>6
  <2> QED
    BY <2>1 DEF Events
<1>3. <<>> \notin ErrorLogs /\ <<"OnJITCompile">> \notin ErrorLogs
  BY DEF ErrorLogs
<1> QED
  BY <1>1, <1>2, <1>3 DEF Protocols, ErrorLogs

\* An activation is pushed.
LEMMA PushKeepsLogs ==
  ASSUME HandlerInv, LogInv, NEW t \in Seq(Frames),
         \A i \in 1..Len(t) : FrameLog(t[i], log'[t[i].amx]),
         NEW a \in Amxs, NEW p \in AllPublics, script[a] # None, AmxExec(t, a, p),
         script' = script, \A b \in Amxs : b # a => log'[b] = log[b],
         log'[a] \in Protocols, handlers[a] = None => log'[a] = <<>>,
         p = "OnJITError" => log'[a] \in ErrorLogs
  PROVE  LogInv'
<1>1. PICK f \in Frames :
        /\ calls' = Append(t, f) /\ f.amx = a /\ f.public = p
        /\ f.by = Runner(GetHandler(a)) /\ f.stage = "ask"
  BY ExecFrame
<1>2. /\ Len(calls') = Len(t) + 1 /\ Len(t) \in Nat /\ calls'[Len(t) + 1] = f
      /\ \A i \in 1..Len(t) : calls'[i] = t[i]
  BY <1>1, AppendOne
<1>3. PICK e : e = Entered(GetHandler(a))
  OBVIOUS
<1>4. e # None /\ (f.by = "handler" => handlers[a] = None)
  BY <1>1, <1>3, HandlerFound, NoneAssumption
<1>5. handlers'[a] = e /\ \A b \in Amxs : b # a => handlers'[b] = handlers[b]
  BY <1>3 DEF AmxExec, HandlerInv, TypeOK
<1>6. FrameLog(f, log'[a])
  BY <1>1, <1>4 DEF FrameLog, StageLogs
<1>7. ASSUME NEW i \in 1..Len(calls') PROVE FrameLog(calls'[i], log'[calls'[i].amx])
  <2>1. i \in 1..Len(t) \/ i = Len(t) + 1
    BY <1>2
  <2>2. CASE i \in 1..Len(t)
    <3>1. calls'[i] = t[i] /\ FrameLog(t[i], log'[t[i].amx])
      BY <1>2, <2>2
    <3> QED
      BY <3>1
  <2>3. CASE i = Len(t) + 1
    BY <1>1, <1>2, <1>6, <2>3
  <2> QED
    BY <2>1, <2>2, <2>3
<1>8. \A b \in Amxs : log'[b] \in Protocols
  BY DEF LogInv
<1>9. \A b \in Amxs : script'[b] # None /\ handlers'[b] = None => log'[b] = <<>>
  BY <1>4, <1>5 DEF LogInv
<1>10. \A i \in 1..Len(calls') : FrameLog(calls[i], log[calls[i].amx])'
  BY <1>7 DEF FrameLog
<1> QED
  BY <1>8, <1>9, <1>10 DEF LogInv

\* What is logged for the script on the top is nothing to the others below.
LEMMA LogsBelow ==
  ASSUME HandlerInv, LogInv, calls # <<>>, NEW l,
         \/ l = log
         \/ Top.by = "handler" /\ \A b \in Amxs : b # Top.amx => l[b] = log[b]
  PROVE  \A i \in 1..(Len(calls) - 1) : FrameLog(calls[i], l[calls[i].amx])
<1> SUFFICES ASSUME NEW i \in 1..(Len(calls) - 1) PROVE FrameLog(calls[i], l[calls[i].amx])
  OBVIOUS
<1>1. Len(calls) \in Nat /\ calls \in Seq(Frames)
  BY LenProperties DEF HandlerInv, TypeOK
<1>2. i \in 1..Len(calls)
  BY <1>1
<1>3. calls[i].amx \in Amxs
  <2>1. calls[i] \in Frames
    BY <1>1, <1>2, ElementOfSeq
  <2> QED
    BY <2>1 DEF Frames
<1>4. FrameLog(calls[i], log[calls[i].amx])
  BY <1>2 DEF LogInv
<1>5. CASE Top.by = "handler" /\ \A b \in Amxs : b # Top.amx => l[b] = log[b]
  <2>1. calls[i].amx # Top.amx
    BY <1>5, TopHandler
  <2>2. l[calls[i].amx] = log[calls[i].amx]
    BY <1>3, <1>5, <2>1
  <2> QED
    BY <1>4, <2>2
<1> QED
  BY <1>4, <1>5

\* The top is replaced.
LEMMA ReplaceKeepsLogs ==
  ASSUME HandlerInv, LogInv, calls # <<>>, NEW f \in Frames, f.amx = Top.amx,
         calls' = Append(Below, f), FrameLog(f, log'[Top.amx]),
         \/ log' = log
         \/ Top.by = "handler" /\ \A b \in Amxs : b # Top.amx => log'[b] = log[b],
         log'[Top.amx] \in Protocols, script' = script,
         \A b \in Amxs : handlers[b] # None => handlers'[b] # None
  PROVE  LogInv'
<1>1. calls \in Seq(Frames)
  BY DEF HandlerInv, TypeOK
<1>2. /\ Len(calls') = Len(calls) /\ Len(calls) \in Nat \ {0} /\ calls'[Len(calls)] = f
      /\ \A i \in 1..(Len(calls) - 1) : calls'[i] = calls[i]
  BY <1>1, ReplaceTop DEF Below
<1>3. Top \in Frames /\ FrameOK(Top)
  <2>1. Len(calls) \in 1..Len(calls)
    BY <1>2
  <2> QED
    BY <1>1, <2>1, ElementOfSeq DEF Top, HandlerInv
<1>4. PICK a \in Amxs : a = Top.amx /\ handlers[a] # None
  BY <1>3 DEF Frames, FrameOK
<1>5. \A i \in 1..(Len(calls) - 1) : FrameLog(calls[i], log'[calls[i].amx])
  BY LogsBelow
<1>6. ASSUME NEW i \in 1..Len(calls') PROVE FrameLog(calls'[i], log'[calls'[i].amx])
  <2>1. i \in 1..(Len(calls) - 1) \/ i = Len(calls)
    BY <1>2
  <2> QED
    BY <1>2, <1>5, <2>1
<1>7. \A i \in 1..Len(calls') : FrameLog(calls[i], log[calls[i].amx])'
  BY <1>6 DEF FrameLog
<1>8. \A b \in Amxs : b # a => log'[b] = log[b]
  BY <1>4
<1>9. \A b \in Amxs : log'[b] \in Protocols
  BY <1>4, <1>8 DEF LogInv
<1>10. \A b \in Amxs : script'[b] # None /\ handlers'[b] = None => log'[b] = <<>>
  BY <1>4, <1>8 DEF LogInv
<1> QED
  BY <1>7, <1>9, <1>10 DEF LogInv

\* Compilation ends: the top is run.
LEMMA RunKeepsLogs ==
  ASSUME HandlerInv, LogInv, calls # <<>>, Top.by = "handler",
         NEW by \in {"interpreter", "code"}, NEW code \in Gens \cup {None}, Run(by, code),
         \A b \in Amxs : b # Top.amx => log'[b] = log[b],
         log'[Top.amx] \in Protocols, Top.public = "OnJITError" => log'[Top.amx] \in ErrorLogs,
         script' = script, \A b \in Amxs : handlers[b] # None => handlers'[b] # None
  PROVE  LogInv'
<1>1. Top \in Frames
  BY TopHandler
<1>2. PICK f : f = [Top EXCEPT !.by = by, !.code = code, !.runs = @ + 1]
  OBVIOUS
<1>3. /\ f \in Frames /\ f.amx = Top.amx /\ f.public = Top.public
      /\ f.by = by
  <2>1. PICK g : g = [Top EXCEPT !.by = by, !.code = code]
    OBVIOUS
  <2>2. g \in Frames /\ g.amx = Top.amx /\ g.public = Top.public /\ g.by = by
    BY <1>1, <2>1 DEF Frames
  <2>3. PICK n \in Nat : n = Top.runs + 1
    BY <1>1 DEF Frames
  <2>4. f = [g EXCEPT !.runs = n]
    BY <1>1, <1>2, <2>1, <2>3 DEF Frames
  <2> QED
    BY <2>2, <2>4 DEF Frames
<1>4. calls' = Append(Below, f)
  BY <1>2 DEF Run
<1>5. FrameLog(f, log'[Top.amx])
  BY <1>3 DEF FrameLog
<1> QED
  BY <1>3, <1>4, <1>5, ReplaceKeepsLogs

LEMMA GiveUpKeepsLogs ==
  ASSUME HandlerInv, LogInv, calls # <<>>, Top.by = "handler", GiveUp, script' = script,
         \A b \in Amxs : b # Top.amx => log'[b] = log[b],
         log'[Top.amx] \in Protocols, Top.public = "OnJITError" => log'[Top.amx] \in ErrorLogs
  PROVE  LogInv'
<1>1. Run("interpreter", None) /\ handlers' = [handlers EXCEPT ![Top.amx] = Failed]
  BY DEF GiveUp
<1>2. Failed # None
  BY NoneAssumption DEF Failed, States
<1>3. \A b \in Amxs : handlers[b] # None => handlers'[b] # None
  BY <1>1, <1>2 DEF HandlerInv, TypeOK
<1> QED
  BY <1>1, <1>3, RunKeepsLogs

\* Compilation goes on to its next stage.
LEMMA StageKeepsLogs ==
  ASSUME HandlerInv, LogInv, calls # <<>>, Top.by = "handler",
         NEW st \in {"ask", "asked", "compile", "told"},
         \A b \in Amxs : b # Top.amx => log'[b] = log[b],
         log'[Top.amx] \in Protocols, log'[Top.amx] \in StageLogs(st),
         Top.public = "OnJITError" => log'[Top.amx] \in ErrorLogs
  PROVE  /\ AtStage(st) \in Seq(Frames)
         /\ \A i \in 1..Len(AtStage(st)) : FrameLog(AtStage(st)[i], log'[AtStage(st)[i].amx])
<1>1. Top \in Frames /\ calls \in Seq(Frames)
  BY TopHandler DEF HandlerInv, TypeOK
<1>2. PICK f : f = [Top EXCEPT !.stage = st]
  OBVIOUS
<1>3. f \in Frames /\ f.amx = Top.amx /\ f.public = Top.public /\ f.by = Top.by /\ f.stage = st
  BY <1>1, <1>2 DEF Frames
<1>4. PICK t : t = AtStage(st)
  OBVIOUS
<1>5. /\ t \in Seq(Frames) /\ Len(t) = Len(calls) /\ Len(calls) \in Nat \ {0}
      /\ \A i \in 1..(Len(calls) - 1) : t[i] = calls[i]
      /\ t[Len(calls)] = f
  BY <1>1, <1>2, <1>3, <1>4, ReplaceTop DEF AtStage, Below
<1>6. FrameLog(f, log'[Top.amx])
  BY <1>3 DEF FrameLog
<1>7. \A i \in 1..(Len(calls) - 1) : FrameLog(calls[i], log'[calls[i].amx])
  BY LogsBelow
<1>8. ASSUME NEW i \in 1..Len(t) PROVE FrameLog(t[i], log'[t[i].amx])
  <2>1. i \in 1..(Len(calls) - 1) \/ i = Len(calls)
    BY <1>5
  <2> QED
    BY <1>3, <1>5, <1>6, <1>7, <2>1
<1> QED
  BY <1>4, <1>5, <1>8

LEMMA CompileKeepsLogs ==
  ASSUME HandlerInv, LogInv, Compile
  PROVE  LogInv'
<1>1. /\ calls # <<>> /\ Top.by = "handler" /\ script' = script
  BY DEF Compile, AskScript, TakeAnswer, CompileScript, CompileError, Told, Compiling
<1>2. PICK a \in Amxs : a = Top.amx /\ script[a] # None /\ handlers[a] # None
  BY <1>1, TopHandler
<1>3. FrameLog(Top, log[a]) /\ log[a] \in Protocols
  <2>1. Len(calls) \in 1..Len(calls)
    BY <1>1, TopHandler
  <2> QED
    BY <1>2, <2>1 DEF LogInv, Top
<1>4. log \in [Amxs -> Seq(Events)]
  BY DEF HandlerInv, TypeOK
<1>5. ASSUME NEW event, Logged(event)
      PROVE  log'[a] = Append(log[a], event) /\ \A b \in Amxs : b # a => log'[b] = log[b]
  BY <1>2, <1>4, <1>5 DEF Logged
<1>6. CASE AskScript
  <2>1. log[a] = <<>> /\ Top.public # "OnJITError"
    BY <1>1, <1>3, <1>6, LogSteps DEF AskScript, Compiling, FrameLog, StageLogs
  <2>2. CASE script[a].program.asks
    <3>1. AmxExec(AtStage("asked"), a, "OnJITCompile") /\ Logged("OnJITCompile")
      BY <1>2, <1>6, <2>2 DEF AskScript
    <3>2. log'[a] = <<"OnJITCompile">> /\ \A b \in Amxs : b # a => log'[b] = log[b]
      BY <1>5, <2>1, <3>1, LogSteps
    <3>3. log'[a] \in Protocols /\ log'[a] \in StageLogs("asked")
      BY <3>2, LogSteps DEF StageLogs
    <3>4. PICK t : t = AtStage("asked")
      OBVIOUS
    <3>5. t \in Seq(Frames) /\ \A i \in 1..Len(t) : FrameLog(t[i], log'[t[i].amx])
      BY <1>1, <1>2, <2>1, <3>2, <3>3, <3>4, StageKeepsLogs
    <3>6. AmxExec(t, a, "OnJITCompile") /\ "OnJITCompile" \in AllPublics
      BY <3>1, <3>4 DEF AllPublics
    <3> QED
      BY <1>1, <1>2, <3>2, <3>3, <3>5, <3>6, PushKeepsLogs
  <2>3. CASE ~script[a].program.asks
    <3>1. calls' = AtStage("compile") /\ UNCHANGED <<handlers, jitvar, log>>
      BY <1>2, <1>6, <2>3 DEF AskScript
    <3>2. log'[a] \in Protocols /\ log'[a] \in StageLogs("compile")
      BY <1>3, <2>1, <3>1 DEF StageLogs
    <3>3. \A i \in 1..Len(calls') : FrameLog(calls'[i], log'[calls'[i].amx])
      BY <1>1, <1>2, <2>1, <3>1, <3>2, StageKeepsLogs
    <3> QED
      BY <1>1, <3>1, <3>3 DEF LogInv, FrameLog
  <2> QED
    BY <2>2, <2>3
<1>7. CASE TakeAnswer
  <2>1. log[a] = <<"OnJITCompile">> /\ Top.public # "OnJITError" /\ log' = log
    BY <1>1, <1>3, <1>7, LogSteps DEF TakeAnswer, Compiling, FrameLog, StageLogs
  <2>2. CASE GiveUp
    BY <1>1, <1>2, <1>3, <2>1, <2>2, GiveUpKeepsLogs
  <2>3. CASE calls' = AtStage("compile") /\ UNCHANGED <<handlers, jitvar>>
    <3>1. log'[a] \in Protocols /\ log'[a] \in StageLogs("compile")
      BY <1>3, <2>1 DEF StageLogs
    <3>2. \A i \in 1..Len(calls') : FrameLog(calls'[i], log'[calls'[i].amx])
      BY <1>1, <1>2, <2>1, <2>3, <3>1, StageKeepsLogs
    <3> QED
      BY <1>1, <2>1, <2>3, <3>2 DEF LogInv, FrameLog
  <2> QED
    BY <1>7, <2>2, <2>3 DEF TakeAnswer
<1>8. CASE CompileScript \/ CompileError
  <2>1. log[a] \in {<<>>, <<"OnJITCompile">>} /\ Top.public # "OnJITError"
    <3>1. log[a] \in StageLogs("compile")
      BY <1>1, <1>3, <1>8 DEF CompileScript, CompileError, Compiling, FrameLog
    <3>2. log[a] \in {<<>>, <<"OnJITCompile">>}
      BY <3>1 DEF StageLogs
    <3> QED
      BY <1>3, <3>2, LogSteps DEF FrameLog
  <2>2. CASE CompileScript
    <3>1. /\ handlers' = [handlers EXCEPT ![a] = Compiled(Top.gen)] /\ Run("code", Top.gen)
          /\ Logged("code")
      BY <1>2, <2>2 DEF CompileScript
    <3>2. log'[a] \in Protocols /\ \A b \in Amxs : b # a => log'[b] = log[b]
      BY <1>5, <2>1, <3>1, LogSteps
    <3>3. Top.gen \in Gens
      BY <1>1, TopHandler
    <3>4. Compiled(Top.gen) # None
      BY <3>3, NoneAssumption DEF Compiled, States
    <3>5. \A b \in Amxs : handlers[b] # None => handlers'[b] # None
      BY <3>1, <3>4 DEF HandlerInv, TypeOK
    <3>6. PICK g \in Gens \cup {None} : g = Top.gen /\ Run("code", g)
      BY <3>1, <3>3
    <3> QED
      BY <1>1, <1>2, <2>1, <3>2, <3>5, <3>6, RunKeepsLogs
  <2>3. CASE CompileError
    <3>1. Logged("error")
      BY <2>3 DEF CompileError
    <3>2. /\ log'[a] \in ErrorLogs /\ log'[a] \in Protocols
          /\ \A b \in Amxs : b # a => log'[b] = log[b]
      BY <1>5, <2>1, <3>1, LogSteps
    <3>3. CASE script[a].program.tells
      <4>1. AmxExec(AtStage("told"), a, "OnJITError")
        BY <1>2, <2>3, <3>3 DEF CompileError
      <4>2. log'[a] \in StageLogs("told")
        BY <3>2 DEF StageLogs
      <4>3. PICK t : t = AtStage("told")
        OBVIOUS
      <4>4. t \in Seq(Frames) /\ \A i \in 1..Len(t) : FrameLog(t[i], log'[t[i].amx])
        BY <1>1, <1>2, <3>2, <4>2, <4>3, StageKeepsLogs
      <4>5. AmxExec(t, a, "OnJITError") /\ "OnJITError" \in AllPublics
        BY <4>1, <4>3 DEF AllPublics
      <4> QED
        BY <1>1, <1>2, <3>2, <4>4, <4>5, PushKeepsLogs
    <3>4. CASE ~script[a].program.tells
      <4>1. GiveUp
        BY <1>2, <2>3, <3>4 DEF CompileError
      <4> QED
        BY <1>1, <1>2, <3>2, <4>1, GiveUpKeepsLogs
    <3> QED
      BY <3>3, <3>4
  <2> QED
    BY <1>8, <2>2, <2>3
<1>9. CASE Told
  <2>1. GiveUp /\ log' = log
    BY <1>9 DEF Told
  <2>2. log[a] \in ErrorLogs
    BY <1>1, <1>3, <1>9 DEF Told, Compiling, FrameLog, StageLogs
  <2> QED
    BY <1>1, <1>2, <1>3, <2>1, <2>2, GiveUpKeepsLogs
<1> QED
  BY <1>6, <1>7, <1>8, <1>9 DEF Compile

\* The script ends, or the interpreter runs it once more.
LEMMA ReturnKeepsLogs ==
  ASSUME HandlerInv, LogInv, NEW error \in Errors, NEW retval \in Results, Return(error, retval)
  PROVE  LogInv'
<1>1. /\ calls # <<>> /\ Top.by # "handler"
      /\ UNCHANGED <<script, handlers, log>>
  BY DEF Return
<1>2. calls \in Seq(Frames)
  BY DEF HandlerInv, TypeOK
<1>3. Len(calls) \in Nat \ {0} /\ Top \in Frames /\ Len(calls) \in 1..Len(calls)
  BY <1>1, <1>2, PopOne DEF Top
<1>4. FrameLog(Top, log[Top.amx]) /\ Top.amx \in Amxs
  BY <1>3 DEF LogInv, Top, Frames
<1>5. CASE Run("interpreter", None)
  <2>1. PICK f : f = [Top EXCEPT !.by = "interpreter", !.code = None, !.runs = @ + 1]
    OBVIOUS
  <2>2. /\ f \in Frames /\ f.amx = Top.amx /\ f.by = "interpreter" /\ f.public = Top.public
    <3>1. PICK g : g = [Top EXCEPT !.by = "interpreter", !.code = None]
      OBVIOUS
    <3>2. g \in Frames /\ g.amx = Top.amx /\ g.public = Top.public /\ g.by = "interpreter"
      BY <1>3, <3>1 DEF Frames
    <3>3. PICK n \in Nat : n = Top.runs + 1
      BY <1>3 DEF Frames
    <3>4. f = [g EXCEPT !.runs = n]
      BY <1>3, <2>1, <3>1, <3>3 DEF Frames
    <3> QED
      BY <3>2, <3>4 DEF Frames
  <2>3. calls' = Append(Below, f)
    BY <1>5, <2>1 DEF Run
  <2>4. FrameLog(f, log'[Top.amx])
    BY <1>1, <1>4, <2>2 DEF FrameLog
  <2>5. log'[Top.amx] \in Protocols
    BY <1>1, <1>4 DEF LogInv
  <2> QED
    BY <1>1, <2>2, <2>3, <2>4, <2>5, ReplaceKeepsLogs
<1>6. CASE calls' = Below
  <2>1. /\ Len(calls') = Len(calls) - 1
        /\ \A i \in 1..(Len(calls) - 1) : calls'[i] = calls[i]
    BY <1>1, <1>2, <1>6, PopOne DEF Below
  <2>2. \A i \in 1..Len(calls') : i \in 1..Len(calls) /\ calls'[i] = calls[i]
    BY <1>3, <2>1
  <2> QED
    BY <1>1, <2>2 DEF LogInv, FrameLog
<1> QED
  BY <1>5, <1>6 DEF Return

LEMMA LogInvInit == Init => LogInv
<1> SUFFICES ASSUME Init PROVE LogInv
  OBVIOUS
<1>1. calls = <<>> /\ Len(calls) = 0 /\ log = [a \in Amxs |-> <<>>]
  BY DEF Init
<1> QED
  BY <1>1, LogSteps DEF LogInv

LEMMA LogInvStep == HandlerInv /\ LogInv /\ [Next]_vars => LogInv'
<1> SUFFICES ASSUME HandlerInv, LogInv, [Next]_vars PROVE LogInv'
  OBVIOUS
<1>1. ASSUME NEW a \in Amxs, NEW program \in Programs, AmxLoad(a, program) PROVE LogInv'
  <2>1. /\ script[a] = None /\ log' = [log EXCEPT ![a] = <<>>]
        /\ UNCHANGED <<handlers, calls>> /\ \A b \in Amxs : b # a => script'[b] = script[b]
    BY <1>1 DEF AmxLoad, HandlerInv, TypeOK
  <2>2. log'[a] = <<>> /\ \A b \in Amxs : b # a => log'[b] = log[b]
    BY <2>1 DEF HandlerInv, TypeOK
  <2>3. ASSUME NEW i \in 1..Len(calls) PROVE FrameLog(calls'[i], log'[calls'[i].amx])
    <3>1. FrameOK(calls[i]) /\ FrameLog(calls[i], log[calls[i].amx])
      BY DEF HandlerInv, LogInv
    <3>2. calls[i] \in Frames
      BY ElementOfSeq DEF HandlerInv, TypeOK
    <3>3. calls[i].amx # a /\ calls[i].amx \in Amxs
      BY <2>1, <3>1, <3>2 DEF FrameOK, Frames
    <3>4. log'[calls[i].amx] = log[calls[i].amx]
      BY <2>2, <3>3
    <3> QED
      BY <2>1, <3>1, <3>4
  <2>4. \A i \in 1..Len(calls') : FrameLog(calls[i], log[calls[i].amx])'
    BY <2>1, <2>3 DEF FrameLog
  <2>5. \A b \in Amxs : log'[b] \in Protocols
    BY <2>2, LogSteps DEF LogInv
  <2>6. \A b \in Amxs : script'[b] # None /\ handlers'[b] = None => log'[b] = <<>>
    BY <2>1, <2>2 DEF LogInv
  <2> QED
    BY <2>4, <2>5, <2>6 DEF LogInv
<1>2. ASSUME NEW a \in Amxs, AmxUnload(a) PROVE LogInv'
  <2>1. /\ script' = [script EXCEPT ![a] = None] /\ handlers' = [handlers EXCEPT ![a] = None]
        /\ UNCHANGED <<calls, log>>
    BY <1>2 DEF AmxUnload, DestroyHandler
  <2>2. \A b \in Amxs : script'[b] # None => b # a /\ script'[b] = script[b]
                                            /\ handlers'[b] = handlers[b]
    BY <2>1 DEF HandlerInv, TypeOK
  <2>3. \A i \in 1..Len(calls') : FrameLog(calls[i], log[calls[i].amx])'
    BY <2>1 DEF LogInv, FrameLog
  <2> QED
    BY <2>1, <2>2, <2>3 DEF LogInv
<1>3. ASSUME NEW a \in Amxs, NEW p \in Publics, Exec(a, p) PROVE LogInv'
  <2>1. /\ script[a] # None /\ AmxExec(calls, a, p) /\ p \in AllPublics /\ p # "OnJITError"
        /\ script' = script /\ log' = log
    BY <1>3, HandlerAssumption DEF Exec, AllPublics
  <2>2. PICK t \in Seq(Frames) : t = calls
    BY DEF HandlerInv, TypeOK
  <2>3. \A i \in 1..Len(t) : FrameLog(t[i], log'[t[i].amx])
    BY <2>1, <2>2 DEF LogInv
  <2>4. log'[a] \in Protocols /\ (handlers[a] = None => log'[a] = <<>>)
    BY <2>1 DEF LogInv
  <2>5. AmxExec(t, a, p)
    BY <2>1, <2>2
  <2> QED
    BY <2>1, <2>3, <2>4, <2>5, PushKeepsLogs
<1>4. CASE Compile
  BY <1>4, CompileKeepsLogs
<1>5. CASE UNCHANGED vars
  BY <1>5 DEF vars, LogInv, FrameLog
<1>6. CASE \E error \in Errors, retval \in Results : Return(error, retval)
  BY <1>6, ReturnKeepsLogs
<1> QED
  BY <1>1, <1>2, <1>3, <1>4, <1>5, <1>6 DEF Next, Idle

\* In the life of a script OnJITCompile comes at most once and first, one
\* attempt to compile follows, and OnJITError runs only after it has failed,
\* however often the callbacks call amx_Exec.
THEOREM CompilationInOrder == Spec => []CompileProtocol
<1>1. HandlerInv /\ LogInv => CompileProtocol
  <2> SUFFICES ASSUME HandlerInv, LogInv PROVE CompileProtocol
    OBVIOUS
  <2>1. \A l \in ErrorLogs : l # <<>> /\ l[Len(l)] = "error"
    BY DEF ErrorLogs
  <2>2. DOMAIN calls = 1..Len(calls)
    BY LenProperties DEF HandlerInv, TypeOK
  <2>3. ASSUME NEW i \in DOMAIN calls, calls[i].public = "OnJITError"
        PROVE  /\ log[calls[i].amx] # <<>>
               /\ log[calls[i].amx][Len(log[calls[i].amx])] = "error"
    <3>1. FrameLog(calls[i], log[calls[i].amx])
      BY <2>2 DEF LogInv
    <3>2. log[calls[i].amx] \in ErrorLogs
      BY <2>3, <3>1 DEF FrameLog
    <3> QED
      BY <2>1, <3>2
  <2> QED
    BY <2>3 DEF CompileProtocol, LogInv
<1>2. Spec => []LogInv
  <2>1. HandlerInv /\ LogInv /\ [Next]_vars => LogInv'
    BY LogInvStep
  <2> QED
    BY <2>1, LogInvInit, HandlerInvariant, PTL DEF Spec
<1> QED
  BY <1>1, <1>2, HandlerInvariant, PTL
=============================================================================
