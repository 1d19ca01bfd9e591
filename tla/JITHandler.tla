----------------------------- MODULE JITHandler -----------------------------
(***************************************************************************)
(* Who runs a script.  The plugin hooks amx_Exec; amx_Exec_JIT (jit.cpp)   *)
(* looks up the JITHandler of the script (amxhandler.h), which compiles    *)
(* the script at its first call and from then on answers every call either *)
(* with compiled code or with AMX_ERR_INIT_JIT, "let the interpreter run   *)
(* it" (jithandler.cpp).  Compiling calls back into the script, before     *)
(* (OnJITCompile) and after a failure (OnJITError), through the same       *)
(* hooked amx_Exec, and a script's natives call amx_Exec again for this or *)
(* any other script, and load and unload other scripts.                    *)
(*                                                                         *)
(* All of it is one thread: calls is its stack of activations.  A handler  *)
(* frame is a JITHandler::Exec that is busy compiling.                     *)
(***************************************************************************)
EXTENDS Integers, Sequences

CONSTANTS
  Amxs,       \* addresses of AMX structures; the server uses them again
  Publics,    \* publics the server and the natives call
  Errors,     \* error codes with which a script may end
  MaxCalls,   \* bound: activations that the server and natives start
  MaxLoads,   \* bound: scripts loaded in one run of the server
  None

ASSUME HandlerAssumption ==
  /\ MaxCalls \in Nat /\ MaxLoads \in Nat
  /\ "OnJITCompile" \notin Publics /\ "OnJITError" \notin Publics

\* What matters of a script: has it the two callbacks, can it be compiled?
Programs == [asks : BOOLEAN, tells : BOOLEAN, compiles : BOOLEAN]

VARIABLES
  script,    \* the script loaded in each AMX: its number and its program
  jitvar,    \* its public variable __JIT
  handlers,  \* handlers_: the JITHandler of each AMX
  buffers,   \* live code buffers, counted by the script they were made from
  loads,     \* scripts loaded so far
  calls,     \* the activations of amx_Exec, outermost first
  answer,    \* what the last amx_Exec gave its caller
  log        \* history: the steps of each script's compilation

vars == <<script, jitvar, handlers, buffers, loads, calls, answer, log>>
-----------------------------------------------------------------------------
Gens == 1..MaxLoads
Top == calls[Len(calls)]
Below == SubSeq(calls, 1, Len(calls) - 1)

\* The server or a script has the CPU, not a handler.
InControl == calls # <<>> => Top.by # "handler"

Init ==
  /\ script = [a \in Amxs |-> None]
  /\ jitvar = [a \in Amxs |-> FALSE]
  /\ handlers = [a \in Amxs |-> None]
  /\ buffers = [g \in Gens |-> 0]
  /\ loads = 0
  /\ calls = <<>>
  /\ answer = [error |-> "NONE", retval |-> "unwritten"]
  /\ log = [a \in Amxs |-> <<>>]

\* The server loads a script; the plugin's AmxLoad does nothing.
AmxLoad(a, program) ==
  /\ InControl
  /\ script[a] = None /\ loads < MaxLoads
  /\ loads' = loads + 1
  /\ script' = [script EXCEPT ![a] = [gen |-> loads', program |-> program]]
  /\ jitvar' = [jitvar EXCEPT ![a] = FALSE]
  /\ log' = [log EXCEPT ![a] = <<>>]
  /\ UNCHANGED <<handlers, buffers, calls, answer>>

\* With a bug: the map keeps the handler.
DestroyHandlerKept(a) == handlers

DestroyHandler(a) == [handlers EXCEPT ![a] = None]

\* With a bug: the destructor does not delete the code.
DeleteCodeNever(h) == buffers

\* ~JITHandler
DeleteCode(h) ==
  IF h # None /\ h.state = "COMPILE_SUCCEDED"
  THEN [buffers EXCEPT ![h.code] = @ - 1] ELSE buffers

\* The server, or a native of another script, unloads a script.  The server's
\* part of the contract: nothing of the script is running, and nothing of it
\* runs afterwards.
AmxUnload(a) ==
  /\ InControl
  /\ script[a] # None
  /\ \A i \in DOMAIN calls : calls[i].amx # a
  /\ handlers' = DestroyHandler(a)
  /\ buffers' = DeleteCode(handlers[a])
  /\ script' = [script EXCEPT ![a] = None]
  /\ UNCHANGED <<jitvar, loads, calls, answer, log>>
-----------------------------------------------------------------------------
GetHandler(a) ==
  IF handlers[a] = None THEN [state |-> "INIT", code |-> None] ELSE handlers[a]

\* With a bug: a call while the script is being compiled is not told apart
\* from a call after it was.
RunnerEager(h) ==
  CASE h.state = "INIT" -> "handler"
    [] h.state \in {"COMPILE", "COMPILE_SUCCEDED"} -> "code"
    [] OTHER -> "interpreter"

\* The switch in JITHandler::Exec, and what amx_Exec_JIT makes of the result.
Runner(h) ==
  CASE h.state = "INIT" -> "handler"
    [] h.state = "COMPILE_SUCCEDED" -> "code"
    [] OTHER -> "interpreter"

\* With a bug: the state is set when compilation is over, not before it.
EnteredLate(h) == h

\* With a bug: the state is set for every call that has no code to run.
EnteredAlways(h) ==
  IF h.state # "COMPILE_SUCCEDED" THEN [h EXCEPT !.state = "COMPILE"] ELSE h

\* state_ when JITHandler::Exec has looked at it.
Entered(h) == IF h.state = "INIT" THEN [h EXCEPT !.state = "COMPILE"] ELSE h

\* amx_Exec of public p of script a, called from the given stack.  A new
\* handler sets __JIT.
AmxExec(stack, a, p) ==
  LET h == GetHandler(a)
  IN /\ handlers' = [handlers EXCEPT ![a] = Entered(h)]
     /\ jitvar' = [jitvar EXCEPT ![a] = @ \/ handlers[a] = None]
     /\ calls' = Append(stack,
          [amx |-> a, gen |-> script[a].gen, public |-> p, by |-> Runner(h),
           code |-> h.code, stage |-> "ask",
           runs |-> IF Runner(h) = "handler" THEN 0 ELSE 1])

\* The server or a native calls amx_Exec.
Exec(a, p) ==
  /\ InControl
  /\ script[a] # None /\ Len(calls) < MaxCalls
  /\ AmxExec(calls, a, p)
  /\ UNCHANGED <<script, buffers, loads, answer, log>>
-----------------------------------------------------------------------------
(* Compile(), called by JITHandler::Exec: the handler frame is the top.     *)

Compiling(stage) == calls # <<>> /\ Top.by = "handler" /\ Top.stage = stage

Logged(event) == log' = [log EXCEPT ![Top.amx] = Append(@, event)]

AtStage(stage) == Append(Below, [Top EXCEPT !.stage = stage])

\* With a bug: amx_Exec_JIT returns the handler's INIT_JIT to its caller.
RunForgotten(by, code) == calls' = IF by = "interpreter" THEN Below
  ELSE Append(Below, [Top EXCEPT !.by = by, !.code = code, !.runs = @ + 1])

\* The interpreter or compiled code takes over the call.
Run(by, code) ==
  calls' = Append(Below, [Top EXCEPT !.by = by, !.code = code, !.runs = @ + 1])

\* With a bug: the handler stays in the state COMPILE.
FailedStuck == [state |-> "COMPILE", code |-> None]

Failed == [state |-> "COMPILE_FAILED", code |-> None]

\* Compile() has returned null: from now on the interpreter runs the script.
GiveUp ==
  /\ handlers' = [handlers EXCEPT ![Top.amx] = Failed]
  /\ Run("interpreter", None)
  /\ UNCHANGED jitvar

\* OnJITCompile: the script's own, or true.
AskScript ==
  /\ Compiling("ask")
  /\ IF script[Top.amx].program.asks
     THEN /\ AmxExec(AtStage("asked"), Top.amx, "OnJITCompile")
          /\ Logged("OnJITCompile")
     ELSE /\ calls' = AtStage("compile")
          /\ UNCHANGED <<handlers, jitvar, log>>
  /\ UNCHANGED <<script, buffers, loads, answer>>

\* The local variable retval of OnJITCompile is not initialised.
Read(retval) == IF retval = "unwritten" THEN {"zero", "nonzero"} ELSE {retval}

TakeAnswer ==
  /\ Compiling("asked")
  /\ \E retval \in Read(answer.retval) :
       IF retval = "zero"
       THEN GiveUp
       ELSE calls' = AtStage("compile") /\ UNCHANGED <<handlers, jitvar>>
  /\ UNCHANGED <<script, buffers, loads, answer, log>>

\* With a bug: the pointer to the code is lost.
CompiledLost(g) == [state |-> "COMPILE_FAILED", code |-> None]

Compiled(g) == [state |-> "COMPILE_SUCCEDED", code |-> g]

CompileScript ==
  /\ Compiling("compile")
  /\ script[Top.amx].program.compiles
  /\ buffers' = [buffers EXCEPT ![Top.gen] = @ + 1]
  /\ handlers' = [handlers EXCEPT ![Top.amx] = Compiled(Top.gen)]
  /\ Run("code", Top.gen)
  /\ Logged("code")
  /\ UNCHANGED <<script, jitvar, loads, answer>>

\* compiler.Compile has failed: OnJITError, if the script has it.
CompileError ==
  /\ Compiling("compile")
  /\ ~script[Top.amx].program.compiles
  /\ IF script[Top.amx].program.tells
     THEN AmxExec(AtStage("told"), Top.amx, "OnJITError")
     ELSE GiveUp
  /\ Logged("error")
  /\ UNCHANGED <<script, buffers, loads, answer>>

\* OnJITError has returned; its result is not used.
Told ==
  /\ Compiling("told")
  /\ GiveUp
  /\ UNCHANGED <<script, buffers, loads, answer, log>>
-----------------------------------------------------------------------------
\* The running script ends: control goes back to the caller of amx_Exec.  A
\* script that fails need not have written its result.  Compiled code that
\* ends with the error INIT_JIT is taken for a handler that cannot compile,
\* and the interpreter runs the public once more.
Return(error, retval) ==
  /\ calls # <<>> /\ Top.by # "handler"
  /\ retval = "unwritten" => error # "NONE"
  /\ IF Top.by = "code" /\ error = "INIT_JIT"
     THEN Run("interpreter", None) /\ UNCHANGED answer
     ELSE calls' = Below /\ answer' = [error |-> error, retval |-> retval]
  /\ UNCHANGED <<script, jitvar, handlers, buffers, loads, log>>

\* Bound: the last script has been unloaded.
Idle == loads = MaxLoads /\ calls = <<>> /\ UNCHANGED vars

Results == {"zero", "nonzero", "unwritten"}

Compile == AskScript \/ TakeAnswer \/ CompileScript \/ CompileError \/ Told

Next ==
  \/ \E a \in Amxs, program \in Programs : AmxLoad(a, program)
  \/ \E a \in Amxs : AmxUnload(a)
  \/ \E a \in Amxs, p \in Publics : Exec(a, p)
  \/ Compile
  \/ \E error \in Errors, retval \in Results : Return(error, retval)
  \/ Idle

Spec == Init /\ [][Next]_vars

\* A script that runs ends at some time, at whatever depth of the stack: a
\* property of scripts, not of the plugin.
Ends(depth) == Len(calls) = depth /\ \E e \in Errors, r \in Results : Return(e, r)

\* The plugin's own steps are plain sequential code.
FairSpec ==
  /\ Spec
  /\ WF_vars(Compile)
  /\ \A depth \in 1..(MaxCalls + 1) : SF_vars(Ends(depth))
-----------------------------------------------------------------------------
States == {"INIT", "COMPILE", "COMPILE_FAILED", "COMPILE_SUCCEDED"}
AllPublics == Publics \cup {"OnJITCompile", "OnJITError"}
Events == {"OnJITCompile", "code", "error"}
Frames == [amx : Amxs, gen : Gens, public : AllPublics,
           by : {"handler", "interpreter", "code"}, code : Gens \cup {None},
           stage : {"ask", "asked", "compile", "told"}, runs : Nat]

\* None is neither a handler nor a script nor code.
ASSUME NoneAssumption ==
  /\ None \notin [gen : Gens, program : Programs]
  /\ None \notin [state : States, code : Gens \cup {None}]
  /\ None \notin Gens

\* Types of the state.
TypeOK ==
  /\ script \in [Amxs -> [gen : Gens, program : Programs] \cup {None}]
  /\ jitvar \in [Amxs -> BOOLEAN]
  /\ handlers \in [Amxs -> [state : States, code : Gens \cup {None}] \cup {None}]
  /\ buffers \in [Gens -> 0..1]
  /\ loads \in 0..MaxLoads
  /\ calls \in Seq(Frames)
  /\ answer \in [error : Errors \cup {"NONE"}, retval : Results]
  /\ log \in [Amxs -> Seq(Events)]

\* Compiled code that runs, or waits for a native to return, has been made from
\* the script that is loaded now, and its buffer has not been deleted: neither
\* by unloading nor by an older script that had the same AMX address.
CodeAlive ==
  \A i \in DOMAIN calls : calls[i].by = "code" =>
    /\ script[calls[i].amx] # None
    /\ calls[i].gen = script[calls[i].amx].gen
    /\ calls[i].code = calls[i].gen
    /\ buffers[calls[i].code] = 1

\* "Code is compiled once and stored in memory until the corresponding AMX is
\* unloaded": each buffer is the one of a handler whose script is loaded.
CodeOwned ==
  \A g \in Gens :
    buffers[g] = IF \E a \in Amxs : /\ handlers[a] # None /\ script[a] # None
                                    /\ handlers[a].code = g /\ script[a].gen = g
                 THEN 1 ELSE 0

\* However often the callbacks and their natives call amx_Exec, a script is
\* being compiled by one activation at most, and until that is over the
\* interpreter runs every other call of it.
OneCompilation ==
  \A i \in DOMAIN calls : calls[i].by = "handler" =>
    /\ handlers[calls[i].amx] # None
    /\ handlers[calls[i].amx].state = "COMPILE"
    /\ \A j \in DOMAIN calls :
         j # i /\ calls[j].amx = calls[i].amx => j > i /\ calls[j].by = "interpreter"

\* In the life of a script: at most one OnJITCompile, then at most one attempt
\* to compile; OnJITError only after that attempt has failed.
Protocols ==
  { <<>>, <<"OnJITCompile">>, <<"code">>, <<"error">>,
    <<"OnJITCompile", "code">>, <<"OnJITCompile", "error">> }
CompileProtocol ==
  /\ \A a \in Amxs : log[a] \in Protocols
  /\ \A i \in DOMAIN calls : calls[i].public = "OnJITError" =>
       log[calls[i].amx] # <<>> /\ log[calls[i].amx][Len(log[calls[i].amx])] = "error"

\* A script never runs without __JIT being set: a script loaded where another
\* one was has its own handler.
JitVarSet == \A i \in DOMAIN calls : jitvar[calls[i].amx]

\* Once decided, a script stays compiled or interpreted until it is unloaded.
Decided(a) == handlers[a] # None /\ handlers[a].state \notin {"INIT", "COMPILE"}
DecisionStable ==
  [][\A a \in Amxs : Decided(a) => handlers'[a] = handlers[a] \/ script'[a] = None]_vars

\* Every compilation comes to an end, callbacks and their calls included.
CompilationEnds ==
  \A a \in Amxs :
    (handlers[a] # None /\ handlers[a].state = "COMPILE") ~> (handlers[a] = None \/ Decided(a))

\* What a caller sees of an activation.
View(s) ==
  [i \in 1..Len(s) |-> [amx |-> s[i].amx, public |-> s[i].public, runs |-> s[i].runs]]

\* To its callers the plugin is transparent: see ExecService.
Service == INSTANCE ExecService WITH acts <- View(calls)
Transparent == Service!Spec
=============================================================================
