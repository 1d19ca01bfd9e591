---------------------------- MODULE SleepTimers -----------------------------
(***************************************************************************)
(* The timers of the sleep test plugin (jit_sleep.cpp): each script gets a *)
(* timer that calls its sleep_callback, natives add timers that continue a *)
(* sleeping script, and ProcessTick runs those that are due.  A timer      *)
(* stays in the vector when it has been executed.  Timers call amx_Exec,   *)
(* and what that runs may add timers while ProcessTimers goes over them.   *)
(*                                                                         *)
(* Time counts from the start of the server and does not wrap around here. *)
(***************************************************************************)
EXTENDS Integers, Sequences

CONSTANTS
  Delays,     \* what scripts pass to schedule_continue
  FirstDelay, \* the delay before sleep_callback is called
  MaxTimers   \* bound: timers in one run of the server

ASSUME DelayAssumption == Delays \subseteq Int /\ FirstDelay \in Nat /\ MaxTimers \in Nat

VARIABLES
  clock,   \* GetTimeMilliseconds
  timers,  \* the vector, in the order of the calls of push_back
  loop     \* i and now of ProcessTimers; i = 0 when it is not running

timerVars == <<clock, timers, loop>>
-----------------------------------------------------------------------------
Idle == [i |-> 0, now |-> 0]

TimersInit ==
  /\ clock = 0
  /\ timers = <<>>
  /\ loop = Idle

Room == Len(timers) < MaxTimers

\* The constructor of Timer, and push_back.
WithTimer(kind, a, ms) ==
  Append(timers, [kind |-> kind, amx |-> a, due |-> clock + ms, done |-> FALSE])

\* AmxLoad of the plugin.
AddSimpleTimer(a) ==
  /\ Room
  /\ timers' = WithTimer("simple", a, FirstDelay)
  /\ UNCHANGED <<clock, loop>>

\* n_schedule_continue; it refuses a negative time.
ScheduleContinue(a, ms) ==
  /\ Room
  /\ timers' = IF ms < 0 THEN timers ELSE WithTimer("continue", a, ms)
  /\ UNCHANGED <<clock, loop>>

\* Time passes.  Bound: as long as a timer waits for it, or is just due.
Tick ==
  /\ \E i \in DOMAIN timers : ~timers[i].done /\ timers[i].due >= clock
  /\ clock' = clock + 1
  /\ UNCHANGED <<timers, loop>>

\* ProcessTimers reads the clock once, before its loop.
ProcessTimers ==
  /\ loop = Idle
  /\ loop' = [i |-> 1, now |-> clock]
  /\ UNCHANGED <<clock, timers>>

\* With a bug: a timer that is late is passed over.
DueExactly(timer, now) == ~timer.done /\ now = timer.due

\* The condition in the loop of ProcessTimers.
Due(timer, now) == ~timer.done /\ now >= timer.due

\* With a bug: didExecute_ is not set.
ExecutedAgain(i) == timers

\* didExecute_ is set before the script is called; when the timer was due is
\* not read again.
Executed(i) == [timers EXCEPT ![i] = [@ EXCEPT !.done = TRUE, !.due = 0]]

InLoop == loop.i \in DOMAIN timers

\* One turn of the loop that executes timer loop.i.
Fire ==
  /\ InLoop /\ Due(timers[loop.i], loop.now)
  /\ timers' = Executed(loop.i)
  /\ loop' = [loop EXCEPT !.i = @ + 1]
  /\ UNCHANGED clock

\* One that does not.
Skip ==
  /\ InLoop /\ ~Due(timers[loop.i], loop.now)
  /\ loop' = [loop EXCEPT !.i = @ + 1]
  /\ UNCHANGED <<clock, timers>>

\* The size of the vector is read anew in every turn.
LoopEnd ==
  /\ loop.i > Len(timers)
  /\ loop' = Idle
  /\ UNCHANGED <<clock, timers>>

Pending(a) == \E i \in DOMAIN timers : timers[i].amx = a /\ ~timers[i].done
=============================================================================
