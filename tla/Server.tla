------------------------------- MODULE Server -------------------------------
(***************************************************************************)
(* A server with the JIT plugin, the sleep test plugin and other plugins   *)
(* that hook amx_Exec: it loads the plugins, then scripts, calls publics,  *)
(* unloads scripts and calls ProcessTick.  Composes ExecHook, the way of a *)
(* call to the script, and SleepTimers, which calls sleeping scripts again.*)
(*                                                                         *)
(* Assumed of scripts, as in the example at the head of jit_sleep.cpp:     *)
(* they sleep in sleep_callback only, each time after one successful call  *)
(* of schedule_continue, and sleep after such a call.  Assumed of the      *)
(* server: it calls no public of a script that sleeps, and unloads no      *)
(* script that sleeps or has a timer left; the plugin checks neither.      *)
(***************************************************************************)
EXTENDS ExecHook, SleepTimers

VARIABLES
  asleep,    \* the scripts that have returned AMX_ERR_SLEEP and not gone on
  scheduled  \* the timer of each script's last schedule_continue, 0 for none

vars == <<hookVars, timerVars, asleep, scheduled>>

Init ==
  /\ HookInit
  /\ TimersInit
  /\ asleep = {}
  /\ scheduled = [a \in Amxs |-> 0]
-----------------------------------------------------------------------------
LoadPlugin ==
  /\ LoadJIT \/ \E p \in Hookers : LoadHooker(p)
  /\ UNCHANGED <<timerVars, asleep, scheduled>>

\* The server is in its main loop.
InMainLoop == ~Running /\ loop = Idle

\* The server loads a script and, when amx_Init has relocated it, calls the
\* plugins' AmxLoad; that of jit.cpp does nothing.
LoadScript(a) ==
  /\ InMainLoop /\ Room
  /\ \E program \in Programs : AmxInit(a, program)
  /\ UNCHANGED <<timerVars, asleep, scheduled>>

AmxLoad(a) ==
  /\ InMainLoop /\ Relocated(a) /\ ~script[a].loaded
  /\ script' = [script EXCEPT ![a].loaded = TRUE]
  /\ AddSimpleTimer(a)
  /\ UNCHANGED <<pluginVars, static_table, handlers, loads, calls, asleep, scheduled>>

Loaded(a) == script[a] # Null /\ script[a].loaded

\* AmxUnload of jit.cpp destroys the handler, that of jit_sleep.cpp does nothing.
AmxUnload(a) ==
  /\ InMainLoop /\ Loaded(a) /\ a \notin asleep /\ ~Pending(a)
  /\ handlers' = [handlers EXCEPT ![a] = "none"]
  /\ script' = [script EXCEPT ![a] = Null]
  /\ UNCHANGED <<pluginVars, static_table, loads, calls,
                 timerVars, asleep, scheduled>>

\* amx_Exec of a script, by the server or a timer.
Exec(a, index) ==
  /\ calls' = AmxExec(<<>>, a, index)
  /\ UNCHANGED <<pluginVars, static_table, handlers, script, loads>>

\* The server calls main or a callback of the game.
CallPublic(a) ==
  /\ InMainLoop /\ Loaded(a) /\ a \notin asleep
  /\ Exec(a, "main")
  /\ UNCHANGED <<timerVars, asleep, scheduled>>

HookSteps == HookStep /\ UNCHANGED <<timerVars, asleep, scheduled>>

\* The time that a call takes counts as passed before it: during the call only
\* schedule_continue reads the clock.
Clock == ~Running /\ Tick /\ UNCHANGED <<hookVars, asleep, scheduled>>
-----------------------------------------------------------------------------
(* ProcessTick, of which amx_Exec is a part. *)

ProcessTick ==
  /\ InMainLoop
  /\ ProcessTimers
  /\ UNCHANGED <<hookVars, asleep, scheduled>>

\* ContinueTimer::Execute.
ContinueScript(a) ==
  /\ Exec(a, "cont")
  /\ asleep' = asleep \ {a}
  /\ scheduled' = [scheduled EXCEPT ![a] = 0]

\* SimpleTimer::Execute; amx_FindPublic may not find the public.
ExecuteSleepCallback(a) ==
  /\ IF script[a].program.callback THEN Exec(a, "sleep_callback") ELSE UNCHANGED hookVars
  /\ UNCHANGED <<asleep, scheduled>>

ExecuteTimer ==
  /\ ~Running /\ Fire
  /\ LET timer == timers[loop.i]
     IN IF timer.kind = "continue" THEN ContinueScript(timer.amx) ELSE ExecuteSleepCallback(timer.amx)

LoopStep ==
  /\ ~Running
  /\ Skip \/ (loop # Idle /\ LoopEnd)
  /\ UNCHANGED <<hookVars, asleep, scheduled>>
-----------------------------------------------------------------------------
(* What a script does while it has the CPU. *)

Sleeper == Executing /\ Top.index \in {"sleep_callback", "cont"}

\* The native schedule_continue; the script sees whether it was successful.
CallSchedule(ms) ==
  /\ Sleeper /\ scheduled[Top.amx] = 0
  /\ ScheduleContinue(Top.amx, ms)
  /\ scheduled' = [scheduled EXCEPT ![Top.amx] =
                     IF timers' = timers THEN 0 ELSE Len(timers')]
  /\ UNCHANGED <<hookVars, asleep>>

\* The script ends: n_do_sleep or a SLEEP instruction, or the end of the public.
Return ==
  /\ Executing
  /\ calls' = Below
  /\ IF scheduled[Top.amx] # 0 THEN asleep' = asleep \cup {Top.amx} ELSE UNCHANGED asleep
  /\ UNCHANGED <<pluginVars, static_table, handlers, script, loads, timerVars, scheduled>>
-----------------------------------------------------------------------------
TimerStep == ExecuteTimer \/ LoopStep

Next ==
  \/ LoadPlugin
  \/ \E a \in Amxs : LoadScript(a) \/ AmxLoad(a) \/ AmxUnload(a) \/ CallPublic(a)
  \/ HookSteps
  \/ Clock
  \/ ProcessTick
  \/ TimerStep
  \/ \E ms \in Delays : CallSchedule(ms)
  \/ Return

Spec == Init /\ [][Next]_vars

\* The plugins' steps are sequential code and scripts end (Return).  The server
\* calls ProcessTick again and again, between other things; time passes.
FairSpec ==
  /\ Spec
  /\ WF_vars(HookSteps) /\ WF_vars(TimerStep)
  /\ SF_vars(ProcessTick) /\ SF_vars(Return) /\ SF_vars(Clock)
-----------------------------------------------------------------------------
\* Types of the state.
TypeOK ==
  /\ entry \in Plugins \cup {"amx_Exec"}
  /\ Hooked \subseteq Plugins /\ jit \in {"absent", "refused", "hooked"}
  /\ opcode_table \in {Nothing, Label} /\ static_table \in {Null, Label}
  /\ \A a \in Amxs :
       handlers[a] \in {"none", "COMPILE", "COMPILE_FAILED", "COMPILE_SUCCEDED"}
  /\ loads \in 0..MaxLoads
  /\ calls \in Seq(Frames)
  /\ \A i \in DOMAIN timers : timers[i].amx \in Amxs /\ timers[i].due \in Nat
  /\ loop.i \in 0..(MaxTimers + 1) /\ loop.now <= clock
  /\ asleep \subseteq Amxs
  /\ scheduled \in [Amxs -> 0..MaxTimers]

\* A timer continues only a script that sleeps, and of its sleeps the one that
\* it has been scheduled for, although timers of other scripts and of earlier
\* sleeps stay in the vector and new ones are added in the middle of the loop.
ContinuesSleeper ==
  [][\A a \in Amxs : calls = <<>> /\ calls' = AmxExec(<<>>, a, "cont") =>
          /\ Loaded(a) /\ a \in asleep
          /\ scheduled[a] = loop.i
          /\ clock >= timers[loop.i].due]_vars

\* Every timer runs in the end: the sleep_callback of a script is called, and
\* every script that sleeps is continued.
SleepersWake == \A a \in Amxs : Pending(a) ~> ~Pending(a) /\ a \notin asleep
=============================================================================
