---------------------------- MODULE ExecService ----------------------------
(***************************************************************************)
(* What amx_Exec promises its callers, whoever executes the script: every  *)
(* call runs the public it names exactly once, calls that a script makes   *)
(* end before the script goes on, and while a call waits for its script to *)
(* be made ready nothing but the script's own callbacks is run on top of   *)
(* it.  JITHandler is shown to implement this.                             *)
(***************************************************************************)
EXTENDS Integers, Sequences

CONSTANTS Amxs, Publics

VARIABLE acts   \* calls of amx_Exec in progress, and how often each has run

Callbacks == {"OnJITCompile", "OnJITError"}
Last == acts[Len(acts)]
Older == SubSeq(acts, 1, Len(acts) - 1)

Init == acts = <<>>

\* The server, or a script that runs, calls a public, which waits (runs = 0) or
\* runs at once.
Call(a, p, runs) ==
  /\ acts # <<>> => Last.runs = 1
  /\ acts' = Append(acts, [amx |-> a, public |-> p, runs |-> runs])

\* A callback of the script that is being made ready.
Callback(p) ==
  /\ acts # <<>> /\ Last.runs = 0
  /\ acts' = Append(acts, [amx |-> Last.amx, public |-> p, runs |-> 1])

Start ==
  /\ acts # <<>> /\ Last.runs = 0
  /\ acts' = Append(Older, [Last EXCEPT !.runs = 1])

Finish ==
  /\ acts # <<>> /\ Last.runs = 1
  /\ acts' = Older

Next ==
  \/ \E a \in Amxs, p \in Publics, runs \in {0, 1} : Call(a, p, runs)
  \/ \E p \in Callbacks : Callback(p)
  \/ Start
  \/ Finish

Spec == Init /\ [][Next]_acts
=============================================================================
