---------------------------- MODULE ScriptCalls -----------------------------
(***************************************************************************)
(* What a script and its callers rely on when amx_Exec, functions, natives *)
(* and sleep nest in one another, without any of the stacks and registers  *)
(* by which compiled code brings it about: every return goes to where its  *)
(* call was, every native returns to the script that called it, an error   *)
(* ends one activation of amx_Exec and no other, and a script that sleeps  *)
(* goes on with all its calls.  AMXRuntime is shown to implement this.     *)
(***************************************************************************)
EXTENDS Integers, Sequences

CONSTANTS Functions, Sites, CallReturn, Awake

VARIABLES
  acts,     \* activations of amx_Exec, outermost first: where each is, the
            \* places its calls return to, and whether it waits for a native
  sleeper   \* what the last amx_Exec put to sleep, or Awake

callVars == <<acts, sleeper>>

Top == acts[Len(acts)]
Below == SubSeq(acts, 1, Len(acts) - 1)
InScript == acts # <<>> /\ ~Top.waits
InCaller == acts # <<>> => Top.waits
At(place, back) == [at |-> place, back |-> back, waits |-> FALSE]
Now(act) == acts' = Append(Below, act)

Init == acts = <<>> /\ sleeper = Awake

\* amx_Exec of a public, by the server or a native.
Enter ==
  /\ InCaller
  /\ \E f \in Functions : acts' = Append(acts, At(f, <<>>))
  /\ sleeper' = Awake

\* amx_Exec refuses.
Refuse == InCaller /\ UNCHANGED acts /\ sleeper' = Awake

\* amx_Exec with AMX_EXEC_CONT.
Continue ==
  /\ InCaller /\ sleeper # Awake
  /\ acts' = Append(acts, sleeper) /\ sleeper' = Awake

Call ==
  /\ InScript /\ Top.at # CallReturn
  /\ \E f \in Functions, s \in Sites : Now(At(f, <<s>> \o Top.back))
  /\ UNCHANGED sleeper

Return ==
  /\ InScript /\ Top.at # CallReturn
  /\ Now(IF Top.back = <<>> THEN At(CallReturn, <<>>) ELSE At(Head(Top.back), Tail(Top.back)))
  /\ UNCHANGED sleeper

\* The public has returned.
Finish == InScript /\ Top.at = CallReturn /\ acts' = Below /\ UNCHANGED sleeper

CallNative ==
  /\ InScript /\ Top.at # CallReturn
  /\ \E s \in Sites : Now([at |-> s, back |-> Top.back, waits |-> TRUE])
  /\ UNCHANGED sleeper

\* The innermost script that waits goes on behind its call.
NativeReturn == acts # <<>> /\ Top.waits /\ Now(At(Top.at, Top.back)) /\ sleeper' = Awake

\* An error in the script or in its native ends the activation.
Abort == acts # <<>> /\ Top.at # CallReturn /\ acts' = Below /\ sleeper' = Awake

\* The script or its native sleeps.
Sleep ==
  /\ acts # <<>> /\ Top.at # CallReturn /\ acts' = Below
  /\ IF Top.waits THEN sleeper' = At(Top.at, Top.back)
     ELSE \E s \in Sites : sleeper' = At(s, Top.back)

Next ==
  \/ Enter \/ Refuse \/ Continue
  \/ Call \/ Return \/ Finish
  \/ CallNative \/ NativeReturn
  \/ Abort \/ Sleep

Spec == Init /\ [][Next]_callVars
=============================================================================
