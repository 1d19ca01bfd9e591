--------------------------- MODULE Server_proofs ----------------------------
(***************************************************************************)
(* Proofs about Server, for any plugins, scripts and delays: the chain of  *)
(* hooks on amx_Exec, the tables that scripts are relocated and decoded    *)
(* with, the handlers, and the timers that continue sleeping scripts.      *)
(***************************************************************************)
EXTENDS Server, DataLemmas

\* Where a call of amx_Exec can be, other than in compiled code.
Stations == Hooked \cup {"amx_Exec"}

\* The hooks form a chain from the entry down to amx_Exec; rank counts the
\* hooks from there.
Chain(rank) ==
  /\ rank \in [Stations -> Nat]
  /\ rank["amx_Exec"] = 0
  /\ \A p, q \in Stations : rank[p] = rank[q] => p = q
  /\ entry \in Stations /\ \A p \in Stations : rank[p] <= rank[entry]
  /\ \A p \in Hooked : /\ rank[p] # 0 /\ trampoline[p] \in Stations
                       /\ rank[trampoline[p]] = rank[p] - 1

\* A call has been seen by the hooks that it has passed.
SeenBy(rank, f) ==
  /\ f.at \in Stations \cup {"code"}
  /\ f.seen = {p \in Hooked : f.at = "code" \/ rank[p] > rank[f.at]}

HooksChained ==
  \E rank \in [Stations -> Nat] :
    Chain(rank) /\ \A i \in 1..Len(calls) : SeenBy(rank, calls[i])

PluginsOK ==
  /\ Hooked \subseteq Plugins /\ jit \in {"absent", "refused", "hooked"}
  /\ "jit" \in Hooked <=> jit = "hooked"
  /\ IF jit = "hooked" THEN trampoline["jit"] = "amx_Exec" /\ opcode_table = Label
                       ELSE opcode_table = Nothing
  /\ static_table \in {Null, Label}

\* Scripts have the interpreter's code and are decoded to its inverse.
ScriptOK(a) ==
  script[a] # Null =>
    /\ loads # 0
    /\ script[a].code # Null => script[a].code = Label[script[a].program.opcode]
    /\ script[a].loaded => script[a].code # Null
    /\ script[a].decoded # Null =>
         /\ script[a].decoded \in Opcodes
         /\ Label[script[a].decoded] = Label[script[a].program.opcode]

HandlerOK(a) == handlers[a] # "none" => Loaded(a) /\ jit = "hooked"

\* One script has the CPU; its handler, at its first instruction, may ask for
\* the table of opcodes.
CallsOK ==
  /\ calls \in Seq(Frames) /\ Len(calls) <= 2
  /\ Len(calls) >= 1 =>
       /\ calls[1].amx \in Amxs /\ script[calls[1].amx] # Null
       /\ calls[1].index # "browse" => Loaded(calls[1].amx)
  /\ Len(calls) = 2 =>
       /\ calls[1].at = "jit" /\ calls[1].index # "browse"
       /\ handlers[calls[1].amx] = "COMPILE"
       /\ calls[2].index = "browse"

HandlerStates == {"none", "COMPILE", "COMPILE_FAILED", "COMPILE_SUCCEDED"}

HookInv ==
  /\ HooksChained /\ PluginsOK /\ CallsOK
  /\ script \in [Amxs -> Scripts \cup {Null}] /\ handlers \in [Amxs -> HandlerStates]
  /\ loads \in 0..MaxLoads
  /\ \A a \in Amxs : ScriptOK(a) /\ HandlerOK(a)

Timers == [kind : {"simple", "continue"}, amx : Amxs, due : Nat, done : BOOLEAN]

\* A script sleeps, or is about to.
Sleeps(a) == a \in asleep \/ (Executing /\ Top.amx = a)

\* A timer that has not run belongs to a script that is loaded; if it is to
\* continue the script, it is the one scheduled for its present sleep.
TimerOK(i) ==
  ~timers[i].done =>
    LET a == timers[i].amx
    IN /\ Loaded(a)
       /\ timers[i].kind = "continue" => scheduled[a] = i /\ Sleeps(a)

SleepInv ==
  /\ clock \in Nat /\ timers \in Seq(Timers) /\ Len(timers) <= MaxTimers
  /\ loop \in [i : 0..(MaxTimers + 1), now : Nat] /\ loop.now <= clock
  /\ asleep \subseteq Amxs /\ scheduled \in [Amxs -> 0..MaxTimers]
  /\ \A i \in 1..Len(timers) : TimerOK(i)

-----------------------------------------------------------------------------
(* The chain of hooks. *)

\* A call that has just been made, and one that goes on to what is below.
NewCall(f) == f.at = entry /\ f.seen = {}
Moves(f, g) ==
  /\ f.at \in Hooked /\ g.seen = f.seen \cup {f.at}
  /\ \/ g.at = trampoline[f.at]
     \/ f.at = "jit" /\ trampoline["jit"] = "amx_Exec" /\ g.at = "code"

LEMMA NewCallSeen ==
  ASSUME NEW rank, Chain(rank), Hooked \subseteq Plugins, NEW f, NewCall(f)
  PROVE  SeenBy(rank, f)
<1>1. /\ rank \in [Stations -> Nat] /\ entry \in Stations
      /\ \A p \in Stations : rank[p] <= rank[entry]
  BY DEF Chain
<1>2. "code" \notin Stations
  BY PluginAssumption DEF Stations, Plugins
<1>3. \A p \in Hooked : p \in Stations /\ ~(rank[p] > rank[entry])
  BY <1>1 DEF Stations
<1> QED
  BY <1>1, <1>2, <1>3 DEF SeenBy, NewCall

LEMMA MovesSeen ==
  ASSUME NEW rank, Chain(rank), Hooked \subseteq Plugins, NEW f, NEW g, SeenBy(rank, f), Moves(f, g)
  PROVE  SeenBy(rank, g)
<1>1. /\ rank \in [Stations -> Nat] /\ rank["amx_Exec"] = 0 /\ "amx_Exec" \in Stations
      /\ \A p, q \in Stations : rank[p] = rank[q] => p = q
      /\ \A p \in Hooked : /\ p \in Stations /\ rank[p] # 0 /\ trampoline[p] \in Stations
                           /\ rank[trampoline[p]] = rank[p] - 1
  BY DEF Chain, Stations
<1>2. "code" \notin Stations
  BY PluginAssumption DEF Stations, Plugins
<1>3. f.at \in Hooked /\ f.at # "code" /\ f.seen = {p \in Hooked : rank[p] > rank[f.at]}
  BY <1>1, <1>2 DEF SeenBy, Moves
<1>4. CASE g.at = trampoline[f.at]
  <2>1. g.at \in Stations /\ g.at # "code" /\ rank[g.at] = rank[f.at] - 1
        /\ rank[f.at] \in Nat /\ rank[g.at] \in Nat
    BY <1>1, <1>2, <1>3, <1>4
  <2>2. \A p \in Hooked : rank[p] > rank[g.at] <=> rank[p] > rank[f.at] \/ p = f.at
    <3> TAKE p \in Hooked
    <3>1. rank[p] \in Nat /\ (rank[p] = rank[f.at] => p = f.at)
      BY <1>1, <1>3
    <3> QED
      BY <2>1, <3>1
  <2>3. g.seen = {p \in Hooked : rank[p] > rank[f.at] \/ p = f.at}
    BY <1>3 DEF Moves
  <2> QED
    BY <2>1, <2>2, <2>3 DEF SeenBy
<1>5. CASE f.at = "jit" /\ trampoline["jit"] = "amx_Exec" /\ g.at = "code"
  <2>1. rank["jit"] = 1
    BY <1>1, <1>3, <1>5
  <2>2. \A p \in Hooked : rank[p] > rank["jit"] \/ p = "jit"
    <3> TAKE p \in Hooked
    <3>1. rank[p] \in Nat /\ rank[p] # 0 /\ (rank[p] = rank["jit"] => p = "jit")
      BY <1>1, <1>3, <1>5
    <3> QED
      BY <2>1, <3>1
  <2>3. g.seen = Hooked
    BY <1>3, <1>5, <2>2 DEF Moves
  <2> QED
    BY <1>5, <2>3 DEF SeenBy
<1> QED
  BY <1>4, <1>5 DEF Moves

\* Steps that load no plugin.
LEMMA ChainKept ==
  ASSUME HooksChained, UNCHANGED pluginVars, Hooked \subseteq Plugins,
         NEW n, n = Len(calls'),
         \A i \in 1..n :
            \/ NewCall(calls'[i])
            \/ i \in 1..Len(calls) /\ (calls'[i] = calls[i] \/ Moves(calls[i], calls'[i]))
  PROVE  HooksChained'
<1>1. PICK rank \in [Stations -> Nat] :
         Chain(rank) /\ \A i \in 1..Len(calls) : SeenBy(rank, calls[i])
  BY DEF HooksChained
<1>2. \A i \in 1..n : SeenBy(rank, calls'[i])
  BY <1>1, NewCallSeen, MovesSeen
<1>3. Stations' = Stations /\ Hooked' = Hooked /\ trampoline' = trampoline /\ entry' = entry
  BY DEF pluginVars, Stations, Hooked
<1>4. Chain(rank)'
  BY <1>1, <1>3 DEF Chain
<1>5. \A i \in 1..n : SeenBy(rank, calls[i])'
  BY <1>2, <1>3 DEF SeenBy
<1> QED
  BY <1>3, <1>4, <1>5 DEF HooksChained

\* A new hook is the first that a call reaches.
LEMMA ChainGrows ==
  ASSUME HooksChained, NEW p \in Plugins, p \notin Hooked, Installed(p),
         calls = <<>>, calls' = calls
  PROVE  HooksChained'
<1>1. PICK rank \in [Stations -> Nat] : Chain(rank)
  BY DEF HooksChained
<1> DEFINE rank2 == [s \in Stations \cup {p} |-> IF s = p THEN rank[entry] + 1 ELSE rank[s]]
<1>0. PICK r2 : r2 = rank2
  OBVIOUS
<1>2. /\ rank["amx_Exec"] = 0 /\ "amx_Exec" \in Stations
      /\ \A q, r \in Stations : rank[q] = rank[r] => q = r
      /\ entry \in Stations /\ \A q \in Stations : rank[q] <= rank[entry] /\ rank[q] \in Nat
      /\ \A q \in Hooked : /\ q \in Stations /\ rank[q] # 0 /\ trampoline[q] \in Stations
                           /\ rank[trampoline[q]] = rank[q] - 1
  BY <1>1 DEF Chain, Stations
<1>3. p \notin Stations
  BY PluginAssumption DEF Stations, Plugins
<1>4. /\ entry' = p /\ Hooked' = Hooked \cup {p} /\ Stations' = Stations \cup {p}
      /\ \A q \in Hooked \cup {p} : trampoline'[q] = IF q = p THEN entry ELSE trampoline[q]
  BY DEF Installed, Hooked, Stations
<1>5. /\ r2 \in [Stations' -> Nat] /\ r2[p] = rank[entry] + 1
      /\ \A s \in Stations : r2[s] = rank[s]
  BY <1>0, <1>2, <1>3, <1>4
<1> HIDE DEF rank2
<1>6. \A q, r \in Stations' : r2[q] = r2[r] => q = r
  <2> TAKE q, r \in Stations'
  <2>1. CASE q \in Stations /\ r \in Stations
    BY <1>2, <1>5, <2>1
  <2>2. CASE q = p \/ r = p
    <3>1. \A s \in Stations : r2[s] < r2[p]
      BY <1>2, <1>5
    <3> QED
      BY <1>2, <1>3, <1>4, <1>5, <2>2, <3>1
  <2> QED
    BY <1>4, <2>1, <2>2
<1>7. \A q \in Stations' : r2[q] <= r2[p]
  BY <1>2, <1>4, <1>5
<1>8. ASSUME NEW q \in Hooked \cup {p}
      PROVE  /\ r2[q] # 0 /\ trampoline'[q] \in Stations'
             /\ r2[trampoline'[q]] = r2[q] - 1
  <2>1. CASE q = p
    BY <1>2, <1>4, <1>5, <2>1
  <2>2. CASE q \in Hooked
    <3>1. trampoline'[q] = trampoline[q]
      BY <1>4, <2>2
    <3> QED
      BY <1>2, <1>4, <1>5, <2>2, <3>1
  <2> QED
    BY <2>1, <2>2
<1>9. Chain(r2)'
  BY <1>2, <1>4, <1>5, <1>6, <1>7, <1>8 DEF Chain
<1>10. \A i \in 1..Len(calls') : FALSE
  BY EmptySeq
<1> QED
  BY <1>5, <1>9, <1>10 DEF HooksChained

-----------------------------------------------------------------------------
(* The stack of calls and the tables. *)

LEMMA FirstMatch ==
  ASSUME NEW table, NEW code, NEW i \in Opcodes, table[i] = code
  PROVE  FindOpcode(table, code) \in Opcodes /\ table[FindOpcode(table, code)] = code
<1> DEFINE T == {o \in Opcodes : table[o] = code}
<1>1. T \in SUBSET Nat /\ T # {} /\ \A o \in Opcodes : o \in T <=> table[o] = code
  BY OpcodeAssumption DEF Opcodes
<1> HIDE DEF T
<1>2. PICK x \in T : \A y \in T : x <= y
  BY <1>1, LeastNatural
<1>3. x \in Opcodes /\ table[x] = code
  BY <1>2 DEF T
<1>4. \A j \in 0..(x - 1) : table[j] # code
  <2> SUFFICES ASSUME NEW j \in 0..(x - 1), table[j] = code PROVE FALSE
    OBVIOUS
  <2>1. j \in Opcodes /\ j < x
    BY <1>3, OpcodeAssumption DEF Opcodes
  <2> QED
    BY <1>1, <1>2, <2>1
<1> QED
  BY <1>3, <1>4 DEF FindOpcode

LEMMA CallsShape ==
  ASSUME HookInv
  PROVE  /\ Len(calls) \in 0..2 /\ (calls = <<>> <=> Len(calls) = 0)
         /\ \A i \in 1..Len(calls) :
              /\ calls[i] \in Frames /\ calls[i].at \in Stations \cup {"code"}
              /\ calls[i].at = "jit" => jit = "hooked"
         /\ Running => /\ Top = calls[Len(calls)] /\ Len(calls) \in 1..2
                       /\ Top \in Frames /\ (Top.at = "jit" => jit = "hooked")
                       /\ Top.index # "browse" => Len(calls) = 1
                       /\ Len(calls) = 1 => /\ Top.amx \in Amxs /\ script[Top.amx] # Null
                                            /\ Top.index # "browse" => Loaded(Top.amx)
         /\ entry \in Stations
<1>0. Len(calls) <= 2
  BY DEF HookInv, CallsOK
<1>1. calls \in Seq(Frames)
  BY DEF HookInv, CallsOK
<1>2. Len(calls) \in 0..2 /\ (calls = <<>> <=> Len(calls) = 0)
  <2>1. Len(calls) \in Nat
    BY <1>1, LenProperties
  <2>2. calls # <<>> => Len(calls) \in Nat \ {0}
    BY <1>1, EmptySeq
  <2>3. calls = <<>> => Len(calls) = 0
    BY EmptySeq
  <2>4. Len(calls) \in 0..2
    BY <1>0, <2>1
  <2>5. calls # <<>> => Len(calls) # 0
    BY <2>2
  <2> QED
    BY <2>3, <2>4, <2>5, Zenon
<1>3. PICK rank : Chain(rank) /\ \A i \in 1..Len(calls) : SeenBy(rank, calls[i])
  BY DEF HookInv, HooksChained
<1>4. \A i \in 1..Len(calls) : calls[i] \in Frames /\ calls[i].at \in Stations \cup {"code"}
  BY <1>1, <1>3, ElementOfSeq DEF SeenBy
<1>5. "jit" \in Stations => jit = "hooked"
  BY DEF HookInv, PluginsOK, Stations
<1>6. Running => /\ Top = calls[Len(calls)] /\ Len(calls) \in 1..2
                 /\ Top.index # "browse" => Len(calls) = 1
                 /\ Len(calls) = 1 => /\ Top.amx \in Amxs /\ script[Top.amx] # Null
                                      /\ Top.index # "browse" => Loaded(Top.amx)
  BY <1>2 DEF Running, Top, HookInv, CallsOK
<1>7. entry \in Stations
  BY <1>3 DEF Chain
<1> QED
  BY <1>2, <1>4, <1>5, <1>6, <1>7

Indexes == {"browse", "main", "sleep_callback", "cont"}

\* A call on top of those that are there.
LEMMA CallMade ==
  ASSUME HookInv, NEW a \in Amxs \cup {"local"},
         NEW index \in Indexes,
         NEW stack \in Seq(Frames), calls' = AmxExec(stack, a, index),
         NEW n, n = Len(stack) + 1
  PROVE  /\ calls' \in Seq(Frames) /\ Len(calls') = n /\ Len(stack) \in Nat
         /\ \A i \in 1..Len(stack) : calls'[i] = stack[i]
         /\ NewCall(calls'[n]) /\ calls'[n].amx = a /\ calls'[n].index = index
<1> DEFINE f == [amx |-> a, index |-> index, at |-> entry, seen |-> {}]
<1>1. entry \in Plugins \cup Runs
  BY CallsShape DEF HookInv, PluginsOK, Stations, Runs
<1>2. f \in Frames
  BY <1>1 DEF Frames, Indexes
<1>3. f.at = entry /\ f.seen = {} /\ f.amx = a /\ f.index = index
  OBVIOUS
<1>4. calls' = Append(stack, f)
  BY DEF AmxExec
<1> HIDE DEF f
<1>5. /\ calls' \in Seq(Frames) /\ Len(calls') = Len(stack) + 1 /\ Len(stack) \in Nat
      /\ \A i \in 1..Len(stack) : calls'[i] = stack[i]
      /\ calls'[Len(stack) + 1] = f
  BY <1>2, <1>4, AppendOne
<1> QED
  BY <1>3, <1>5 DEF NewCall

\* The top call goes on.
LEMMA CallMoved ==
  ASSUME HookInv, Running, NEW to \in Stations \cup {"code"}, NEW p \in Plugins, Top.at = p,
         calls' = MovedTo(to, {p}), p \in Hooked,
         to = trampoline[p] \/ (p = "jit" /\ trampoline["jit"] = "amx_Exec" /\ to = "code")
  PROVE  LET n == Len(calls)
         IN /\ calls' \in Seq(Frames) /\ Len(calls') = n
            /\ \A i \in 1..(n - 1) : calls'[i] = calls[i]
            /\ Moves(calls[n], calls'[n])
            /\ calls'[n].amx = Top.amx /\ calls'[n].index = Top.index
<1> DEFINE f == [Top EXCEPT !.at = to, !.seen = Top.seen \cup {p}]
<1>1. Top \in Frames /\ Top = calls[Len(calls)] /\ calls \in Seq(Frames) /\ calls # <<>>
  BY CallsShape DEF HookInv, CallsOK, Running
<1>2. to \in Plugins \cup Runs
  BY DEF HookInv, PluginsOK, Stations, Runs
<1>3. f \in Frames /\ f.at = to /\ f.seen = Top.seen \cup {p} /\ f.amx = Top.amx
      /\ f.index = Top.index
  BY <1>1, <1>2 DEF Frames
<1>4. calls' = Append(SubSeq(calls, 1, Len(calls) - 1), f)
  BY DEF MovedTo, Below
<1> HIDE DEF f
<1>5. /\ calls' \in Seq(Frames) /\ Len(calls') = Len(calls)
      /\ \A i \in 1..(Len(calls) - 1) : calls'[i] = calls[i]
      /\ calls'[Len(calls)] = f
  <2> DEFINE t == Append(SubSeq(calls, 1, Len(calls) - 1), f)
  <2>1. f \in Frames
    BY <1>3
  <2>2. /\ t \in Seq(Frames) /\ Len(t) = Len(calls)
        /\ \A i \in 1..(Len(calls) - 1) : t[i] = calls[i]
        /\ t[Len(calls)] = f
    BY <1>1, <2>1, ReplaceTop
  <2> QED
    BY <1>4, <2>2
<1>6. Moves(Top, f)
  BY <1>3 DEF Moves
<1> QED
  BY <1>1, <1>3, <1>5, <1>6

\* The top call returns.
LEMMA CallReturns ==
  ASSUME HookInv, Running, calls' = Below
  PROVE  /\ calls' \in Seq(Frames) /\ Len(calls') = Len(calls) - 1
         /\ \A i \in 1..Len(calls') : i \in 1..Len(calls) /\ calls'[i] = calls[i]
         /\ Len(calls') \in 0..1 /\ (calls' = <<>> <=> Len(calls) = 1)
<1>1. calls \in Seq(Frames) /\ calls # <<>> /\ Len(calls) \in 1..2
  BY CallsShape DEF HookInv, CallsOK, Running
<1>2. /\ calls' \in Seq(Frames) /\ Len(calls') = Len(calls) - 1
      /\ \A i \in 1..(Len(calls) - 1) : calls'[i] = calls[i]
  BY <1>1, PopOne DEF Below
<1>3. calls' = <<>> <=> Len(calls') = 0
  BY <1>2, EmptySeq
<1> QED
  BY <1>1, <1>2, <1>3

\* A call from the server or from the timers.
LEMMA CallStarts ==
  ASSUME HookInv, NEW a \in Amxs, NEW index \in Indexes,
         calls' = AmxExec(<<>>, a, index), UNCHANGED pluginVars,
         script'[a] # Null, index # "browse" => Loaded(a)'
  PROVE  /\ HooksChained' /\ CallsOK'
         /\ Len(calls') = 1 /\ calls'[1].amx = a /\ calls'[1].index = index
<1>1. <<>> \in Seq(Frames) /\ Len(<<>>) = 0
  BY EmptySeq
<1>2. /\ calls' \in Seq(Frames) /\ Len(calls') = 1
      /\ NewCall(calls'[1]) /\ calls'[1].amx = a /\ calls'[1].index = index
  <2>1. PICK stack \in Seq(Frames) : stack = <<>>
    BY <1>1
  <2>2. a \in Amxs \cup {"local"} /\ calls' = AmxExec(stack, a, index)
    BY <2>1
  <2>3. PICK n \in {1} : n = Len(stack) + 1
    BY <1>1, <2>1
  <2>4. /\ calls' \in Seq(Frames) /\ Len(calls') = n
        /\ NewCall(calls'[n]) /\ calls'[n].amx = a /\ calls'[n].index = index
    BY <2>2, <2>3, CallMade
  <2> QED
    BY <2>3, <2>4
<1>3. HooksChained'
  <2>1. HooksChained /\ Hooked \subseteq Plugins
    BY DEF HookInv, PluginsOK
  <2>2. \A i \in 1..1 : NewCall(calls'[i])
    BY <1>2
  <2> QED
    BY <1>2, <2>1, <2>2, ChainKept
<1>4. CallsOK'
  <2>1. Len(calls') <= 2 /\ ~(Len(calls') = 2)
    <3>1. Len(calls') = 1
      BY <1>2
    <3>2. \A n \in {1} : n <= 2 /\ n # 2
      OBVIOUS
    <3> QED
      BY <3>1, <3>2, Zenon
  <2>2. script'[calls'[1].amx] # Null
    BY <1>2
  <2>3. calls'[1].index # "browse" => script'[calls'[1].amx] # Null /\ script'[calls'[1].amx].loaded
    BY <1>2 DEF Loaded
  <2> QED
    BY <1>2, <2>1, <2>2, <2>3, Zenon DEF CallsOK, Loaded
<1> QED
  BY <1>2, <1>3, <1>4

\* Steps that leave the stack of calls alone and load no plugin.
LEMMA CallsStay ==
  ASSUME HookInv, UNCHANGED <<pluginVars, calls>>, static_table' \in {Null, Label}
  PROVE  HooksChained' /\ PluginsOK'
<1>1. HooksChained /\ PluginsOK
  BY DEF HookInv
<1>2. Len(calls') = Len(calls) /\ \A i \in 1..Len(calls) : i \in 1..Len(calls) /\ calls'[i] = calls[i]
  OBVIOUS
<1>3. HooksChained'
  BY <1>1, <1>2, ChainKept DEF PluginsOK
<1>4. PluginsOK'
  BY <1>1 DEF PluginsOK, pluginVars, Hooked
<1> QED
  BY <1>3, <1>4

\* Scripts and handlers that nothing changes.
LEMMA ScriptsStay ==
  ASSUME HookInv, UNCHANGED <<pluginVars, script, handlers, loads>>
  PROVE  /\ script' \in [Amxs -> Scripts \cup {Null}] /\ handlers' \in [Amxs -> HandlerStates]
         /\ loads' \in 0..MaxLoads
         /\ \A a \in Amxs : ScriptOK(a)' /\ HandlerOK(a)'
  BY DEF HookInv, pluginVars, ScriptOK, HandlerOK, Loaded

LEMMA QuietKeepsHooks ==
  ASSUME HookInv, UNCHANGED hookVars
  PROVE  HookInv'
<1>1. HooksChained' /\ PluginsOK'
  BY CallsStay DEF HookInv, PluginsOK, hookVars
<1>2. CallsOK'
  BY DEF HookInv, CallsOK, hookVars, Loaded
<1>3. UNCHANGED <<pluginVars, script, handlers, loads>>
  BY DEF hookVars
<1> QED
  BY <1>1, <1>2, <1>3, ScriptsStay DEF HookInv

-----------------------------------------------------------------------------
(* Loading plugins. *)

\* Plugins are loaded before there is any script.
LEMMA NoScriptYet ==
  ASSUME HookInv, loads = 0
  PROVE  calls = <<>> /\ \A a \in Amxs : script[a] = Null /\ handlers[a] = "none"
<1>1. \A a \in Amxs : script[a] = Null
  BY DEF HookInv, ScriptOK
<1>2. \A a \in Amxs : handlers[a] = "none"
  BY <1>1 DEF HookInv, HandlerOK, Loaded
<1>3. Len(calls) \in 0..2 /\ (calls = <<>> <=> Len(calls) = 0)
  BY CallsShape
<1>4. ~(Len(calls) >= 1)
  BY <1>1 DEF HookInv, CallsOK
<1> QED
  BY <1>1, <1>2, <1>3, <1>4

\* What holds of scripts and calls as long as there are none.
LEMMA StillNoScript ==
  ASSUME HookInv, loads = 0, UNCHANGED <<handlers, script, loads, calls>>
  PROVE  /\ CallsOK' /\ script' \in [Amxs -> Scripts \cup {Null}]
         /\ handlers' \in [Amxs -> HandlerStates] /\ loads' \in 0..MaxLoads
         /\ \A a \in Amxs : ScriptOK(a)' /\ HandlerOK(a)'
<1>1. calls = <<>> /\ \A a \in Amxs : script[a] = Null /\ handlers[a] = "none"
  BY NoScriptYet
<1>2. CallsOK'
  BY DEF HookInv, CallsOK, Loaded
<1>3. \A a \in Amxs : ScriptOK(a)' /\ HandlerOK(a)'
  BY <1>1 DEF ScriptOK, HandlerOK
<1> QED
  BY <1>2, <1>3 DEF HookInv

LEMMA LoadJITKeepsHooks ==
  ASSUME HookInv, LoadJIT
  PROVE  HookInv'
<1>1. /\ CallsOK' /\ script' \in [Amxs -> Scripts \cup {Null}]
      /\ handlers' \in [Amxs -> HandlerStates] /\ loads' \in 0..MaxLoads
      /\ \A a \in Amxs : ScriptOK(a)' /\ HandlerOK(a)'
  BY StillNoScript DEF LoadJIT
<1>2. calls = <<>> /\ calls' = calls
  BY NoScriptYet DEF LoadJIT
<1>3. HooksChained /\ PluginsOK /\ "jit" \notin Hooked /\ Hooked \subseteq Plugins
  BY DEF HookInv, PluginsOK, LoadJIT
<1>4. CASE Refuses
  <2>1. jit' = "refused" /\ UNCHANGED <<entry, trampoline, opcode_table, static_table>>
    BY <1>4 DEF LoadJIT
  <2>2. \E rank \in [Stations -> Nat] : Chain(rank)
    BY <1>3 DEF HooksChained
  <2>3. HooksChained'
    <3>1. Stations' = Stations /\ Hooked' = Hooked
      BY <2>1 DEF Stations, Hooked
    <3>2. PICK rank \in [Stations -> Nat] : Chain(rank)
      BY <2>2
    <3>3. Chain(rank)'
      BY <2>1, <3>1, <3>2 DEF Chain
    <3>4. \A i \in 1..Len(calls') : FALSE
      BY <1>2, EmptySeq
    <3> QED
      BY <3>1, <3>3, <3>4 DEF HooksChained
  <2>4. PluginsOK'
    BY <1>3, <2>1 DEF PluginsOK, Hooked, LoadJIT
  <2> QED
    BY <1>1, <2>3, <2>4 DEF HookInv
<1>5. CASE ~Refuses
  <2>1. jit' = "hooked" /\ Installed("jit") /\ opcode_table' = Browse(entry)
        /\ entry = "amx_Exec" /\ static_table' = static_table
    BY <1>5 DEF LoadJIT, Refuses, Fetched
  <2>2. HooksChained'
    BY <1>2, <1>3, <2>1, ChainGrows DEF Plugins
  <2>3. Hooked' = Hooked \cup {"jit"} /\ trampoline'["jit"] = "amx_Exec"
    BY <2>1 DEF Installed, Hooked
  <2>4. opcode_table' = Label
    BY <2>1 DEF Browse
  <2>5. PluginsOK'
    BY <1>3, <2>1, <2>3, <2>4 DEF PluginsOK, Plugins
  <2> QED
    BY <1>1, <2>2, <2>5 DEF HookInv
<1> QED
  BY <1>4, <1>5

LEMMA LoadHookerKeepsHooks ==
  ASSUME HookInv, NEW p \in Hookers, LoadHooker(p)
  PROVE  HookInv'
<1>1. /\ CallsOK' /\ script' \in [Amxs -> Scripts \cup {Null}]
      /\ handlers' \in [Amxs -> HandlerStates] /\ loads' \in 0..MaxLoads
      /\ \A a \in Amxs : ScriptOK(a)' /\ HandlerOK(a)'
  BY StillNoScript DEF LoadHooker
<1>2. calls = <<>> /\ calls' = calls
  BY NoScriptYet DEF LoadHooker
<1>3. HooksChained /\ PluginsOK /\ Installed(p) /\ p \notin Hooked /\ p \in Plugins /\ p # "jit"
  BY PluginAssumption DEF HookInv, LoadHooker, Plugins
<1>4. HooksChained'
  BY <1>2, <1>3, ChainGrows
<1>5. /\ Hooked' = Hooked \cup {p}
      /\ "jit" \in Hooked => trampoline'["jit"] = trampoline["jit"]
  BY <1>3 DEF Installed, Hooked
<1>6. UNCHANGED <<jit, opcode_table, static_table>>
  BY DEF LoadHooker
<1>7. PluginsOK'
  BY <1>3, <1>5, <1>6 DEF PluginsOK, Plugins
<1> QED
  BY <1>1, <1>4, <1>7 DEF HookInv

-----------------------------------------------------------------------------
(* Loading and unloading scripts, and calling them. *)

LEMMA AmxInitKeepsHooks ==
  ASSUME HookInv, NEW a \in Amxs, NEW program \in Programs, AmxInit(a, program)
  PROVE  HookInv'
<1> DEFINE fresh == [program |-> program, code |-> Null, decoded |-> Null, loaded |-> FALSE]
<1>1. /\ script[a] = Null /\ loads < MaxLoads /\ loads' = loads + 1
      /\ script' = [script EXCEPT ![a] = fresh]
      /\ calls' = AmxExec(<<>>, a, "browse")
      /\ UNCHANGED <<pluginVars, static_table, handlers>>
  BY DEF AmxInit
<1>2. fresh \in Scripts /\ ~fresh.loaded /\ fresh.code = Null /\ fresh.decoded = Null
  BY DEF Scripts
<1> HIDE DEF fresh
<1>3. /\ script' \in [Amxs -> Scripts \cup {Null}] /\ script'[a] = fresh /\ fresh # Null
      /\ \A b \in Amxs : b # a => script'[b] = script[b]
  BY <1>1, <1>2, NullAssumption DEF HookInv
<1>4. HooksChained' /\ CallsOK'
  BY <1>1, <1>3, CallStarts DEF Indexes
<1>5. PluginsOK'
  BY <1>1 DEF HookInv, PluginsOK, pluginVars, Hooked
<1>6. loads' \in 0..MaxLoads /\ loads' # 0
  <2>1. loads \in 0..MaxLoads
    BY DEF HookInv
  <2> QED
    BY <1>1, <2>1, BoundAssumption
<1>7. handlers[a] = "none"
  BY <1>1 DEF HookInv, HandlerOK, Loaded
<1>8. \A b \in Amxs : ScriptOK(b)' /\ HandlerOK(b)'
  <2> SUFFICES ASSUME NEW b \in Amxs PROVE ScriptOK(b)' /\ HandlerOK(b)'
    OBVIOUS
  <2>1. CASE b = a
    BY <1>1, <1>2, <1>3, <1>6, <1>7, <2>1 DEF ScriptOK, HandlerOK
  <2>2. CASE b # a
    <3>1. script'[b] = script[b] /\ handlers'[b] = handlers[b] /\ jit' = jit
      BY <1>1, <1>3, <2>2 DEF pluginVars
    <3> QED
      BY <1>6, <3>1 DEF ScriptOK, HandlerOK, HookInv, Loaded
  <2> QED
    BY <2>1, <2>2
<1> QED
  BY <1>1, <1>3, <1>4, <1>5, <1>6, <1>8 DEF HookInv

LEMMA AmxLoadKeepsHooks ==
  ASSUME HookInv, NEW a \in Amxs, Relocated(a), ~Running,
         script' = [script EXCEPT ![a].loaded = TRUE],
         UNCHANGED <<pluginVars, static_table, handlers, loads, calls>>
  PROVE  HookInv'
<1>1. script \in [Amxs -> Scripts \cup {Null}] /\ script[a] \in Scripts /\ script[a].code # Null
  BY DEF HookInv, Relocated
<1> DEFINE s == [script[a] EXCEPT !.loaded = TRUE]
<1>2. /\ s \in Scripts /\ s.code = script[a].code /\ s.decoded = script[a].decoded
      /\ s.program = script[a].program /\ s.loaded
  BY <1>1 DEF Scripts
<1>3. /\ script' \in [Amxs -> Scripts \cup {Null}] /\ script'[a] = s /\ s # Null
      /\ \A b \in Amxs : b # a => script'[b] = script[b]
  BY <1>1, <1>2, NullAssumption
<1> HIDE DEF s
<1>4. HooksChained' /\ PluginsOK'
  BY CallsStay DEF HookInv, PluginsOK
<1>5. CallsOK'
  <2>1. Len(calls) = 0 /\ calls \in Seq(Frames)
    BY CallsShape DEF Running, HookInv, CallsOK
  <2> QED
    BY <2>1 DEF CallsOK
<1>6. \A b \in Amxs : ScriptOK(b)' /\ HandlerOK(b)'
  <2> SUFFICES ASSUME NEW b \in Amxs PROVE ScriptOK(b)' /\ HandlerOK(b)'
    OBVIOUS
  <2>0. ScriptOK(b) /\ HandlerOK(b)
    BY DEF HookInv
  <2>1. CASE b = a
    <3>1. ScriptOK(a)'
      <4>1. script[a] # Null /\ ScriptOK(a) /\ loads' = loads
        BY <1>1, <2>0, <2>1, NullAssumption
      <4>2. /\ script'[a].code = script[a].code /\ script'[a].decoded = script[a].decoded
            /\ script'[a].program = script[a].program
        BY <1>2, <1>3
      <4> QED
        BY <1>1, <4>1, <4>2, Zenon DEF ScriptOK
    <3>2. jit' = jit
      BY DEF pluginVars
    <3>4. Loaded(a)'
      BY <1>2, <1>3, Zenon DEF Loaded
    <3>3. HandlerOK(a)'
      BY <2>0, <2>1, <3>2, <3>4 DEF HandlerOK
    <3> QED
      BY <2>1, <3>1, <3>3
  <2>2. CASE b # a
    BY <1>3, <2>0, <2>2 DEF ScriptOK, HandlerOK, Loaded, pluginVars
  <2> QED
    BY <2>1, <2>2
<1> QED
  BY <1>3, <1>4, <1>5, <1>6 DEF HookInv

LEMMA AmxUnloadKeepsHooks ==
  ASSUME HookInv, NEW a \in Amxs, ~Running,
         handlers' = [handlers EXCEPT ![a] = "none"], script' = [script EXCEPT ![a] = Null],
         UNCHANGED <<pluginVars, static_table, loads, calls>>
  PROVE  HookInv'
<1>1. HooksChained' /\ PluginsOK'
  BY CallsStay DEF HookInv, PluginsOK
<1>2. CallsOK'
  <2>1. Len(calls) = 0 /\ calls \in Seq(Frames)
    BY CallsShape DEF Running, HookInv, CallsOK
  <2> QED
    BY <2>1 DEF CallsOK
<1>3. /\ script' \in [Amxs -> Scripts \cup {Null}] /\ handlers' \in [Amxs -> HandlerStates]
      /\ script'[a] = Null /\ handlers'[a] = "none"
      /\ \A b \in Amxs : b # a => script'[b] = script[b] /\ handlers'[b] = handlers[b]
  BY DEF HookInv, HandlerStates
<1>4. \A b \in Amxs : ScriptOK(b)' /\ HandlerOK(b)'
  <2> SUFFICES ASSUME NEW b \in Amxs PROVE ScriptOK(b)' /\ HandlerOK(b)'
    OBVIOUS
  <2>1. CASE b = a
    BY <1>3, <2>1 DEF ScriptOK, HandlerOK
  <2>2. CASE b # a
    BY <1>3, <2>2 DEF HookInv, ScriptOK, HandlerOK, Loaded, pluginVars
  <2> QED
    BY <2>1, <2>2
<1> QED
  BY <1>1, <1>2, <1>3, <1>4 DEF HookInv

LEMMA ExecKeepsHooks ==
  ASSUME HookInv, NEW a \in Amxs, NEW index \in Indexes, Loaded(a), Exec(a, index)
  PROVE  /\ HookInv'
         /\ Len(calls') = 1 /\ calls'[1].amx = a /\ calls'[1].index = index
<1>1. /\ calls' = AmxExec(<<>>, a, index) /\ UNCHANGED pluginVars
      /\ UNCHANGED <<static_table, handlers, script, loads>>
  BY DEF Exec
<1>2. script'[a] # Null /\ Loaded(a)'
  BY <1>1 DEF Loaded
<1>3. /\ HooksChained' /\ CallsOK'
      /\ Len(calls') = 1 /\ calls'[1].amx = a /\ calls'[1].index = index
  BY <1>1, <1>2, CallStarts
<1>4. PluginsOK'
  BY <1>1 DEF HookInv, PluginsOK, pluginVars, Hooked
<1> QED
  BY <1>1, <1>3, <1>4, ScriptsStay DEF HookInv

-----------------------------------------------------------------------------
(* The way of a call through the hooks. *)

\* A call goes on.
LEMMA MoveKeepsHooks ==
  ASSUME HookInv, Running, NEW to \in Stations \cup {"code"}, NEW p \in Plugins, Top.at = p,
         calls' = MovedTo(to, {p}), p \in Hooked,
         to = trampoline[p] \/ (p = "jit" /\ trampoline["jit"] = "amx_Exec" /\ to = "code"),
         UNCHANGED <<pluginVars, static_table, handlers, script, loads>>
  PROVE  HookInv'
<1>1. PICK n \in 1..2 : n = Len(calls) /\ Top = calls[n]
  BY CallsShape
<1>2. /\ calls' \in Seq(Frames) /\ Len(calls') = n
      /\ \A i \in 1..(n - 1) : calls'[i] = calls[i]
      /\ Moves(calls[n], calls'[n])
      /\ calls'[n].amx = Top.amx /\ calls'[n].index = Top.index
  BY <1>1, CallMoved
<1>3. HooksChained /\ PluginsOK /\ CallsOK /\ Hooked \subseteq Plugins
  BY DEF HookInv, PluginsOK
<1>4. HooksChained'
  <2>1. \A i \in 1..n : i \in 1..Len(calls) /\ (calls'[i] = calls[i] \/ Moves(calls[i], calls'[i]))
    <3> TAKE i \in 1..n
    <3>1. i \in 1..(n - 1) \/ i = n
      OBVIOUS
    <3>2. i \in 1..Len(calls)
      BY <1>1
    <3> QED
      BY <1>2, <3>1, <3>2, Zenon
  <2> QED
    BY <1>2, <1>3, <2>1, ChainKept
<1>5. PluginsOK'
  BY <1>3 DEF PluginsOK, pluginVars, Hooked
<1>6. CallsOK'
  <2>1. CASE n = 1
    <3>1. calls'[1].amx = calls[1].amx /\ calls'[1].index = calls[1].index
      BY <1>1, <1>2, <2>1
    <3>2. Len(calls) = 1 /\ Len(calls') = 1
      BY <1>1, <1>2, <2>1
    <3>3. /\ calls[1].amx \in Amxs /\ script[calls[1].amx] # Null
          /\ calls[1].index # "browse" => Loaded(calls[1].amx)
      BY <1>3, <3>2 DEF CallsOK
    <3>4. \A m \in {1} : m <= 2 /\ m # 2
      OBVIOUS
    <3>5. Len(calls') <= 2 /\ Len(calls') # 2
      BY <3>2, <3>4, Zenon
    <3>6. script' = script
      OBVIOUS
    <3> QED
      BY <1>2, <3>1, <3>3, <3>5, <3>6, Zenon DEF CallsOK, Loaded
  <2>2. CASE n = 2
    <3>1. calls'[1] = calls[1] /\ calls'[2].index = calls[2].index
      BY <1>1, <1>2, <2>2
    <3>2. Len(calls) = 2 /\ Len(calls') = 2
      BY <1>1, <1>2, <2>2
    <3>3. \A m \in {2} : m <= 2 /\ m >= 1
      OBVIOUS
    <3>4. Len(calls') <= 2 /\ Len(calls) >= 1
      BY <3>2, <3>3, Zenon
    <3>5. script' = script /\ handlers' = handlers
      OBVIOUS
    <3> QED
      BY <1>2, <1>3, <3>1, <3>2, <3>4, <3>5, Zenon DEF CallsOK, Loaded
  <2> QED
    BY <2>1, <2>2
<1> QED
  BY <1>4, <1>5, <1>6, ScriptsStay DEF HookInv

LEMMA PassOnKeepsHooks ==
  ASSUME HookInv, NEW p \in Hookers, PassOn(p)
  PROVE  HookInv'
<1>1. /\ Running /\ Top.at = p /\ calls' = MovedTo(trampoline[p], {p})
      /\ UNCHANGED <<pluginVars, static_table, handlers, script, loads>>
  BY DEF PassOn, Reached
<1>2. p \in Plugins /\ p \notin {"jit", "amx_Exec", "code"}
  BY PluginAssumption DEF Plugins
<1>3. Top.at \in Stations \cup {"code"}
  <2>1. PICK n \in 1..2 : n = Len(calls) /\ Top = calls[n]
    BY <1>1, CallsShape
  <2>2. n \in 1..Len(calls)
    BY <2>1
  <2> QED
    BY <2>1, <2>2, CallsShape
<1>4. p \in Hooked
  <2>1. p \in Stations \cup {"code"}
    BY <1>1, <1>3, Zenon
  <2>2. p # "amx_Exec" /\ p # "code"
    BY <1>2
  <2> QED
    BY <2>1, <2>2, Zenon DEF Stations
<1>5. trampoline[p] \in Stations
  BY <1>4 DEF HookInv, HooksChained, Chain
<1> QED
  BY <1>1, <1>2, <1>4, <1>5, MoveKeepsHooks

LEMMA DispatchKeepsHooks ==
  ASSUME HookInv, Dispatch
  PROVE  HookInv'
<1>1. /\ Running /\ Top.at = "jit"
      /\ UNCHANGED <<pluginVars, static_table, handlers, script, loads>>
  BY DEF Dispatch, Reached
<1>2. jit = "hooked"
  BY <1>1, CallsShape
<1>3. "jit" \in Hooked /\ trampoline["jit"] = "amx_Exec" /\ "jit" \in Plugins
  BY <1>2 DEF HookInv, PluginsOK, Plugins
<1>4. PICK to \in {"code", "amx_Exec"} : calls' = MovedTo(to, {"jit"})
  <2>1. calls' = MovedTo(IF handlers[Top.amx] = "COMPILE_SUCCEDED"
                         THEN "code" ELSE trampoline["jit"], {"jit"})
    BY DEF Dispatch
  <2>2. CASE handlers[Top.amx] = "COMPILE_SUCCEDED"
    BY <2>1, <2>2
  <2>3. CASE handlers[Top.amx] # "COMPILE_SUCCEDED"
    BY <1>3, <2>1, <2>3
  <2> QED
    BY <2>2, <2>3
<1>5. to \in Stations \cup {"code"}
  BY <1>4 DEF Stations
<1>6. to = trampoline["jit"] \/ to = "code"
  BY <1>3, <1>4
<1> QED
  BY <1>1, <1>3, <1>4, <1>5, <1>6, MoveKeepsHooks

\* The call on top returns the table, always the interpreter's.
LEMMA AnswerKeepsHooks ==
  ASSUME HookInv, Running, Top.index = "browse", Answer(Label), UNCHANGED handlers
  PROVE  HookInv' /\ \A b \in Amxs : Loaded(b) => Loaded(b)'
<1>1. PICK n \in 1..2 : n = Len(calls) /\ Top = calls[n]
  BY CallsShape
<1>2. calls' = Below /\ UNCHANGED <<pluginVars, loads, handlers>>
  BY DEF Answer
<1>3. /\ calls' \in Seq(Frames) /\ Len(calls') = n - 1
      /\ \A i \in 1..Len(calls') : i \in 1..Len(calls) /\ calls'[i] = calls[i]
      /\ Len(calls') \in 0..1 /\ (Below = <<>> <=> n = 1)
  BY <1>1, <1>2, CallReturns
<1>4. HooksChained /\ PluginsOK /\ CallsOK /\ Hooked \subseteq Plugins
  BY DEF HookInv, PluginsOK
<1>5. HooksChained'
  BY <1>2, <1>3, <1>4, ChainKept
<1>6. CASE n = 2
  <2>1. static_table' = Label /\ script' = script
    BY <1>3, <1>6 DEF Answer
  <2>2. PluginsOK'
    BY <1>2, <1>4, <2>1 DEF PluginsOK, pluginVars, Hooked
  <2>3. Len(calls') = 1 /\ Len(calls) = 2 /\ Len(calls) >= 1 /\ calls'[1] = calls[1]
    BY <1>1, <1>3, <1>6
  <2>4. Len(calls') <= 2 /\ Len(calls') # 2
    <3>1. \A m \in {1} : m <= 2 /\ m # 2
      OBVIOUS
    <3> QED
      BY <2>3, <3>1, Zenon
  <2>5. CallsOK'
    BY <1>3, <1>4, <2>1, <2>3, <2>4, Zenon DEF CallsOK, Loaded
  <2>6. UNCHANGED <<pluginVars, script, handlers, loads>>
    BY <1>2, <2>1
  <2>7. HookInv'
    BY <1>5, <2>2, <2>5, <2>6, ScriptsStay DEF HookInv
  <2> QED
    BY <2>1, <2>7 DEF Loaded
<1>7. CASE n = 1
  <2>1. PICK a \in Amxs : a = Top.amx /\ script[a] # Null
    BY <1>1, <1>7, CallsShape
  <2>2. PICK o : o = script[a].program.opcode
    OBVIOUS
  <2>3. static_table' = static_table /\ script' = [script EXCEPT ![a].code = Label[o]]
    BY <1>3, <1>7, <2>1, <2>2 DEF Answer
  <2>4. script \in [Amxs -> Scripts \cup {Null}] /\ script[a] \in Scripts
    BY <2>1 DEF HookInv
  <2>5. Label[o] \in Nat
    BY <2>2, <2>4, OpcodeAssumption DEF Scripts
  <2> DEFINE s == [script[a] EXCEPT !.code = Label[o]]
  <2>6. /\ s \in Scripts /\ s.code = Label[o] /\ s.decoded = script[a].decoded
        /\ s.program = script[a].program /\ s.loaded = script[a].loaded
    BY <2>4, <2>5 DEF Scripts
  <2>7. /\ script' \in [Amxs -> Scripts \cup {Null}] /\ script'[a] = s /\ s # Null
        /\ \A b \in Amxs : b # a => script'[b] = script[b]
    BY <2>3, <2>4, <2>6, NullAssumption
  <2> HIDE DEF s
  <2>8. PluginsOK'
    BY <1>2, <1>4, <2>3 DEF PluginsOK, pluginVars, Hooked
  <2>9. CallsOK'
    <3>1. Len(calls') = 0
      BY <1>3, <1>7
    <3> QED
      BY <1>3, <3>1 DEF CallsOK
  <2>10. ASSUME NEW b \in Amxs PROVE ScriptOK(b)' /\ HandlerOK(b)'
    <3>0. ScriptOK(b) /\ HandlerOK(b) /\ loads' = loads /\ jit' = jit /\ handlers' = handlers
      BY <1>2 DEF HookInv, pluginVars
    <3>1. CASE b # a
      BY <2>7, <3>0, <3>1 DEF ScriptOK, HandlerOK, Loaded
    <3>2. CASE b = a
      <4>1. loads # 0
        BY <2>1, <3>0, <3>2 DEF ScriptOK
      <4>2. script[a].decoded # Null => /\ script[a].decoded \in Opcodes
                                        /\ Label[script[a].decoded] = Label[o]
        BY <2>1, <2>2, <3>0, <3>2, Zenon DEF ScriptOK
      <4>3. /\ script'[a].code = Label[o] /\ script'[a].decoded = script[a].decoded
            /\ script'[a].program.opcode = o /\ script'[a].loaded = script[a].loaded
        BY <2>2, <2>6, <2>7
      <4>4. Label[o] # Null
        BY <2>5, NullAssumption
      <4>5. ScriptOK(a)'
        BY <3>0, <4>1, <4>2, <4>3, <4>4, Zenon DEF ScriptOK
      <4>6. handlers[a] # "none" => Loaded(a)'
        BY <2>1, <2>7, <3>0, <3>2, <4>3, Zenon DEF HandlerOK, Loaded
      <4>7. HandlerOK(a)'
        BY <3>0, <3>2, <4>6 DEF HandlerOK
      <4> QED
        BY <3>2, <4>5, <4>7
    <3> QED
      BY <3>1, <3>2
  <2>11. handlers' \in [Amxs -> HandlerStates] /\ loads' \in 0..MaxLoads
    BY <1>2 DEF HookInv
  <2>12. HookInv'
    BY <1>5, <2>7, <2>8, <2>9, <2>10, <2>11 DEF HookInv
  <2>13. ASSUME NEW b \in Amxs, Loaded(b) PROVE Loaded(b)'
    <3>1. CASE b # a
      BY <2>7, <2>13, <3>1 DEF Loaded
    <3>2. CASE b = a
      BY <2>6, <2>7, <2>13, <3>2, Zenon DEF Loaded
    <3> QED
      BY <3>1, <3>2
  <2> QED
    BY <2>12, <2>13
<1> QED
  BY <1>6, <1>7

LEMMA BrowseKeepsHooks ==
  ASSUME HookInv, HookBrowse \/ InterpreterBrowse
  PROVE  HookInv' /\ \A b \in Amxs : Loaded(b) => Loaded(b)'
<1>1. Running /\ Top.index = "browse" /\ UNCHANGED handlers
  BY DEF HookBrowse, InterpreterBrowse, Reached, AnswersBrowse
<1>2. Answer(Label)
  <2>1. CASE HookBrowse
    <3>1. Top.at = "jit" /\ Answer(opcode_table)
      BY <2>1 DEF HookBrowse, Reached
    <3>2. jit = "hooked"
      BY <1>1, <3>1, CallsShape
    <3>3. opcode_table = Label
      BY <3>2 DEF HookInv, PluginsOK
    <3> QED
      BY <3>1, <3>3
  <2>2. CASE InterpreterBrowse
    BY <2>2 DEF InterpreterBrowse
  <2> QED
    BY <2>1, <2>2
<1> QED
  BY <1>1, <1>2, AnswerKeepsHooks

\* A call that has reached the JIT plugin is the only one.
LEMMA CallAtJIT ==
  ASSUME HookInv, Reached("jit"), ~AnswersBrowse(Top)
  PROVE  /\ Running /\ Top.index # "browse" /\ Len(calls) = 1 /\ Top = calls[1]
         /\ Top.amx \in Amxs /\ script[Top.amx] \in Scripts /\ Loaded(Top.amx)
         /\ jit = "hooked" /\ Top.at = "jit"
<1>1. Running /\ Top.index # "browse" /\ Top.at = "jit"
  BY DEF Reached, AnswersBrowse
<1>2. /\ Top = calls[Len(calls)] /\ Len(calls) = 1 /\ jit = "hooked"
      /\ Top.amx \in Amxs /\ script[Top.amx] # Null /\ Loaded(Top.amx)
  BY <1>1, CallsShape
<1>3. script[Top.amx] \in Scripts
  BY <1>2 DEF HookInv
<1> QED
  BY <1>1, <1>2, <1>3

LEMMA BeginCompileKeepsHooks ==
  ASSUME HookInv, BeginCompile
  PROVE  HookInv'
<1>1. PICK a \in Amxs : /\ a = Top.amx /\ Loaded(a) /\ jit = "hooked" /\ Len(calls) = 1
                        /\ handlers' = [handlers EXCEPT ![a] = "COMPILE"]
  BY CallAtJIT DEF BeginCompile
<1>2. UNCHANGED <<pluginVars, static_table, script, loads, calls>>
  BY DEF BeginCompile
<1>3. HooksChained' /\ PluginsOK'
  BY <1>2, CallsStay DEF HookInv, PluginsOK
<1>4. CallsOK'
  <2>1. \A m \in {1} : m # 2
    OBVIOUS
  <2>2. Len(calls) # 2
    BY <1>1, <2>1, Zenon
  <2>3. CallsOK /\ calls' = calls /\ script' = script
    BY <1>2 DEF HookInv
  <2> QED
    BY <2>2, <2>3, Zenon DEF CallsOK, Loaded
<1>5. /\ handlers' \in [Amxs -> HandlerStates]
      /\ \A b \in Amxs : b # a => handlers'[b] = handlers[b]
  BY <1>1 DEF HookInv, HandlerStates
<1>6. ASSUME NEW b \in Amxs PROVE ScriptOK(b)' /\ HandlerOK(b)'
  <2>1. ScriptOK(b) /\ HandlerOK(b) /\ script' = script /\ loads' = loads /\ jit' = jit
    BY <1>2 DEF HookInv, pluginVars
  <2>2. ScriptOK(b)'
    BY <2>1 DEF ScriptOK
  <2>3. HandlerOK(b)'
    BY <1>1, <1>5, <2>1 DEF HandlerOK, Loaded
  <2> QED
    BY <2>2, <2>3
<1> QED
  BY <1>2, <1>3, <1>4, <1>5, <1>6 DEF HookInv

LEMMA GetOpcodeTableKeepsHooks ==
  ASSUME HookInv, GetOpcodeTable
  PROVE  HookInv'
<1>1. /\ Running /\ Len(calls) = 1 /\ Top = calls[1] /\ Top.index # "browse" /\ Top.at = "jit"
      /\ handlers[Top.amx] = "COMPILE"
  BY CallAtJIT DEF GetOpcodeTable, Decoding
<1>2. /\ calls' = AmxExec(calls, "local", "browse")
      /\ UNCHANGED <<pluginVars, static_table, handlers, script, loads>>
  BY DEF GetOpcodeTable
<1>3. HooksChained /\ PluginsOK /\ CallsOK /\ Hooked \subseteq Plugins /\ calls \in Seq(Frames)
  BY DEF HookInv, PluginsOK, CallsOK
<1>4. PICK n \in {2} : n = Len(calls) + 1
  BY <1>1
<1>5. /\ calls' \in Seq(Frames) /\ Len(calls') = n
      /\ \A i \in 1..Len(calls) : calls'[i] = calls[i]
      /\ NewCall(calls'[n]) /\ calls'[n].index = "browse"
  <2>1. "local" \in Amxs \cup {"local"} /\ "browse" \in Indexes
    BY DEF Indexes
  <2> QED
    BY <1>2, <1>3, <1>4, <2>1, CallMade
<1>6. calls'[1] = calls[1] /\ n = 2 /\ 1 \in 1..Len(calls)
  BY <1>1, <1>4, <1>5
<1>7. HooksChained'
  <2>1. \A i \in 1..n : \/ NewCall(calls'[i])
                        \/ i \in 1..Len(calls) /\ (calls'[i] = calls[i] \/ Moves(calls[i], calls'[i]))
    <3> TAKE i \in 1..n
    <3>1. i = 1 \/ i = n
      BY <1>6
    <3> QED
      BY <1>5, <1>6, <3>1, Zenon
  <2> QED
    BY <1>2, <1>3, <1>5, <2>1, ChainKept
<1>8. PluginsOK'
  BY <1>2, <1>3 DEF PluginsOK, pluginVars, Hooked
<1>9. CallsOK'
  <2>1. \A m \in {2} : m <= 2
    OBVIOUS
  <2>2. Len(calls') <= 2
    BY <1>5, <2>1, Zenon
  <2>3. Len(calls) >= 1
    BY <1>1
  <2>4. script' = script /\ handlers' = handlers
    BY <1>2
  <2>5. calls'[2].index = "browse"
    BY <1>5, <1>6
  <2> QED
    BY <1>1, <1>3, <1>5, <1>6, <2>2, <2>3, <2>4, <2>5, Zenon DEF CallsOK, Loaded
<1> QED
  BY <1>2, <1>7, <1>8, <1>9, ScriptsStay DEF HookInv

\* The disassembler finds an opcode that the interpreter executes where it
\* executes the one that is there.
LEMMA CompileScriptKeepsHooks ==
  ASSUME HookInv, CompileScript
  PROVE  HookInv' /\ \A b \in Amxs : Loaded(b) => Loaded(b)'
<1>1. PICK a \in Amxs : /\ a = Top.amx /\ script[a] \in Scripts /\ Loaded(a)
                        /\ jit = "hooked" /\ Len(calls) = 1
  BY CallAtJIT DEF CompileScript, Decoding
<1>2. PICK opcode : opcode = FindOpcode(static_table, script[a].code)
  OBVIOUS
<1>3. /\ script' = [script EXCEPT ![a].decoded = opcode]
      /\ handlers' = [handlers EXCEPT ![a] =
           IF opcode \in Untranslated THEN "COMPILE_FAILED" ELSE "COMPILE_SUCCEDED"]
      /\ UNCHANGED <<pluginVars, static_table, loads, calls>>
      /\ static_table # Null
  BY <1>1, <1>2 DEF CompileScript
<1>4. static_table = Label
  BY <1>3 DEF HookInv, PluginsOK
<1>5. PICK o \in Opcodes : o = script[a].program.opcode
  BY <1>1, OpcodeAssumption DEF Scripts
<1>6. script[a].code = Label[o] /\ script[a].code # Null
  BY <1>1, <1>5 DEF HookInv, ScriptOK, Loaded
<1>7. opcode \in Opcodes /\ Label[opcode] = Label[o]
  BY <1>2, <1>4, <1>6, FirstMatch
<1> DEFINE s == [script[a] EXCEPT !.decoded = opcode]
<1>8. /\ s \in Scripts /\ s.decoded = opcode /\ s.code = script[a].code
      /\ s.program = script[a].program /\ s.loaded = script[a].loaded
  <2>1. opcode \in Nat
    BY <1>7, OpcodeAssumption DEF Opcodes
  <2>2. script[a] \in Scripts
    BY <1>1
  <2> QED
    BY <2>1, <2>2 DEF Scripts
<1>9. /\ script' \in [Amxs -> Scripts \cup {Null}] /\ script'[a] = s /\ s # Null
      /\ \A b \in Amxs : b # a => script'[b] = script[b]
  BY <1>3, <1>8, NullAssumption DEF HookInv
<1> HIDE DEF s
<1>10. /\ handlers' \in [Amxs -> HandlerStates]
       /\ \A b \in Amxs : b # a => handlers'[b] = handlers[b]
  BY <1>3 DEF HookInv, HandlerStates
<1>11. HooksChained' /\ PluginsOK'
  BY <1>3, CallsStay DEF HookInv, PluginsOK
<1>12. Loaded(a)'
  BY <1>1, <1>8, <1>9, Zenon DEF Loaded
<1>13. CallsOK'
  <2>1. \A m \in {1} : m # 2
    OBVIOUS
  <2>2. Len(calls) # 2
    BY <1>1, <2>1, Zenon
  <2>3. calls' = calls /\ Len(calls) <= 2 /\ calls \in Seq(Frames)
    BY <1>3 DEF HookInv, CallsOK
  <2>4. calls[1].amx = a
    BY <1>1, CallAtJIT DEF CompileScript, Decoding
  <2>5. script'[a] # Null
    BY <1>9
  <2> QED
    BY <1>12, <2>2, <2>3, <2>4, <2>5, Zenon DEF CallsOK, Loaded
<1>14. ASSUME NEW b \in Amxs PROVE ScriptOK(b)' /\ HandlerOK(b)'
  <2>1. ScriptOK(b) /\ HandlerOK(b) /\ loads' = loads /\ jit' = jit
    BY <1>3 DEF HookInv, pluginVars
  <2>2. CASE b # a
    BY <1>9, <1>10, <2>1, <2>2 DEF ScriptOK, HandlerOK, Loaded
  <2>3. CASE b = a
    <3>1. loads # 0
      BY <1>1, <2>1, <2>3 DEF ScriptOK, Loaded
    <3>2. /\ script'[a].code = Label[o] /\ script'[a].decoded = opcode
          /\ script'[a].program.opcode = o /\ script'[a].code # Null
      BY <1>5, <1>6, <1>8, <1>9
    <3>3. ScriptOK(a)'
      BY <1>7, <2>1, <3>1, <3>2, Zenon DEF ScriptOK
    <3>4. HandlerOK(a)'
      BY <1>1, <1>12, <2>1, Zenon DEF HandlerOK
    <3> QED
      BY <2>3, <3>3, <3>4
  <2> QED
    BY <2>2, <2>3
<1>15. HookInv'
  BY <1>3, <1>9, <1>10, <1>11, <1>13, <1>14 DEF HookInv
<1>16. ASSUME NEW b \in Amxs, Loaded(b) PROVE Loaded(b)'
  <2>1. CASE b # a
    BY <1>9, <1>16, <2>1 DEF Loaded
  <2>2. CASE b = a
    BY <1>12, <2>2
  <2> QED
    BY <2>1, <2>2
<1> QED
  BY <1>15, <1>16

LEMMA HookStepKeepsHooks ==
  ASSUME HookInv, HookStep
  PROVE  HookInv' /\ \A b \in Amxs : Loaded(b) => Loaded(b)'
<1>1. CASE \E p \in Hookers : PassOn(p)
  BY <1>1, PassOnKeepsHooks DEF PassOn, Loaded
<1>2. CASE HookBrowse \/ InterpreterBrowse
  BY <1>2, BrowseKeepsHooks
<1>3. CASE BeginCompile
  BY <1>3, BeginCompileKeepsHooks DEF BeginCompile, Loaded
<1>4. CASE GetOpcodeTable
  BY <1>4, GetOpcodeTableKeepsHooks DEF GetOpcodeTable, Loaded
<1>5. CASE CompileScript
  BY <1>5, CompileScriptKeepsHooks
<1>6. CASE Dispatch
  BY <1>6, DispatchKeepsHooks DEF Dispatch, Loaded
<1> QED
  BY <1>1, <1>2, <1>3, <1>4, <1>5, <1>6 DEF HookStep

\* The script that has the CPU ends, and no call is left.
LEMMA ReturnKeepsHooks ==
  ASSUME HookInv, Executing, calls' = Below,
         UNCHANGED <<pluginVars, static_table, handlers, script, loads>>
  PROVE  HookInv' /\ calls' = <<>>
<1>1. Running /\ Len(calls) = 1
  BY CallsShape DEF Executing
<1>2. calls' \in Seq(Frames) /\ calls' = <<>> /\ Len(calls') = 0
  BY <1>1, CallReturns, EmptySeq
<1>3. HooksChained /\ PluginsOK /\ Hooked \subseteq Plugins
  BY DEF HookInv, PluginsOK
<1>4. HooksChained'
  BY <1>1, <1>3, CallReturns, ChainKept
<1>5. PluginsOK'
  BY <1>3 DEF PluginsOK, pluginVars, Hooked
<1>6. CallsOK'
  BY <1>2 DEF CallsOK
<1> QED
  BY <1>2, <1>4, <1>5, <1>6, ScriptsStay DEF HookInv

-----------------------------------------------------------------------------
(* The timers. *)

\* Steps that neither add nor execute a timer.
LEMMA TimersStay ==
  ASSUME SleepInv, UNCHANGED <<timers, scheduled>>,
         \A i \in 1..Len(timers) : ~timers[i].done => Loaded(timers[i].amx)',
         \A a \in Amxs : scheduled[a] # 0 /\ Sleeps(a) => Sleeps(a)'
  PROVE  \A i \in 1..Len(timers') : TimerOK(i)'
<1> SUFFICES ASSUME NEW i \in 1..Len(timers') PROVE TimerOK(i)'
  OBVIOUS
<1>1. timers' = timers /\ scheduled' = scheduled /\ i \in 1..Len(timers) /\ i # 0
  OBVIOUS
<1>2. timers[i].amx \in Amxs
  <2>1. timers[i] \in Timers
    BY <1>1, ElementOfSeq DEF SleepInv
  <2> QED
    BY <2>1 DEF Timers
<1>3. TimerOK(i)
  BY <1>1 DEF SleepInv
<1>4. ~timers[i].done => Loaded(timers[i].amx)'
  BY <1>1
<1>5. scheduled[timers[i].amx] # 0 /\ Sleeps(timers[i].amx) => Sleeps(timers[i].amx)'
  BY <1>2
<1>6. PICK b : b = timers[i].amx
  OBVIOUS
<1>7. Loaded(b)' /\ Loaded(timers[i].amx) = Loaded(b) => Loaded(b)'
  OBVIOUS
<1>8. ~timers[i].done =>
        /\ Loaded(b)'
        /\ timers[i].kind = "continue" => scheduled[b] = i /\ Sleeps(b)'
  <2>1. (~timers[i].done => Loaded(b)') /\ (scheduled[b] # 0 /\ Sleeps(b) => Sleeps(b)')
    BY <1>4, <1>5, <1>6 DEF Loaded, Sleeps
  <2> QED
    BY <1>1, <1>3, <1>6, <2>1, Zenon DEF TimerOK
<1>9. (timers[i].amx)' = b
  BY <1>1, <1>6
<1> QED
  BY <1>1, <1>8, <1>9 DEF TimerOK, Loaded, Sleeps

\* The types of what such steps leave alone.
LEMMA SleepTypesStay ==
  ASSUME SleepInv, UNCHANGED <<timerVars, scheduled>>, asleep' \subseteq Amxs,
         \A i \in 1..Len(timers') : TimerOK(i)'
  PROVE  SleepInv'
  BY DEF SleepInv, timerVars

LEMMA TimerOfSeq ==
  ASSUME SleepInv, NEW i \in 1..Len(timers)
  PROVE  /\ timers[i] \in Timers /\ timers[i].amx \in Amxs /\ TimerOK(i)
         /\ timers[i].done \in BOOLEAN /\ timers[i].due \in Nat
         /\ timers[i].kind \in {"simple", "continue"}
<1>1. timers[i] \in Timers
  BY ElementOfSeq DEF SleepInv
<1> QED
  BY <1>1 DEF Timers, SleepInv

\* Steps after which the same scripts are loaded and the same run.
LEMMA QuietKeepsTimers ==
  ASSUME SleepInv, UNCHANGED <<timerVars, script, calls, asleep, scheduled>>
  PROVE  SleepInv'
<1>1. \A a \in Amxs : Loaded(a)' = Loaded(a) /\ (Sleeps(a)' <=> Sleeps(a))
  BY DEF Loaded, Sleeps, Executing, Running, Top
<1>2. ASSUME NEW i \in 1..Len(timers), ~timers[i].done PROVE Loaded(timers[i].amx)'
  <2>1. timers' = timers /\ script' = script
    BY DEF timerVars
  <2>2. Loaded(timers[i].amx)
    BY <1>2, TimerOfSeq DEF TimerOK
  <2> QED
    BY <2>1, <2>2 DEF Loaded
<1>3. \A i \in 1..Len(timers') : TimerOK(i)'
  <2>1. UNCHANGED <<timers, scheduled>>
    BY DEF timerVars
  <2>2. \A a \in Amxs : scheduled[a] # 0 /\ Sleeps(a) => Sleeps(a)'
    BY <1>1
  <2> QED
    BY <1>2, <2>1, <2>2, TimersStay, Zenon
<1> QED
  BY <1>3, SleepTypesStay DEF SleepInv

LEMMA ScriptsGoOn ==
  ASSUME SleepInv, UNCHANGED <<timers, scheduled>>,
         \A a \in Amxs : Loaded(a) => Loaded(a)',
         \A a \in Amxs : scheduled[a] # 0 /\ Sleeps(a) => Sleeps(a)'
  PROVE  \A i \in 1..Len(timers') : TimerOK(i)'
<1>1. ASSUME NEW i \in 1..Len(timers), ~timers[i].done PROVE Loaded(timers[i].amx)'
  <2>1. PICK b \in Amxs : b = timers[i].amx
    BY TimerOfSeq
  <2>2. Loaded(b)
    BY <1>1, <2>1, TimerOfSeq DEF TimerOK
  <2>3. Loaded(b)'
    BY <2>2
  <2>4. timers'[i].amx = b
    BY <2>1
  <2> QED
    BY <2>3, <2>4 DEF Loaded
<1> QED
  BY <1>1, TimersStay

\* A new timer is the last one.
LEMMA TimerAdded ==
  ASSUME SleepInv, Room, NEW kind \in {"simple", "continue"}, NEW a \in Amxs, NEW ms \in Nat,
         timers' = WithTimer(kind, a, ms)
  PROVE  /\ timers' \in Seq(Timers) /\ Len(timers') = Len(timers) + 1 /\ Len(timers) \in Nat
         /\ Len(timers') \in 1..MaxTimers /\ timers' # timers
         /\ \A i \in 1..Len(timers) : timers'[i] = timers[i]
         /\ LET t == timers'[Len(timers) + 1]
            IN t.kind = kind /\ t.amx = a /\ ~t.done
<1> DEFINE t == [kind |-> kind, amx |-> a, due |-> clock + ms, done |-> FALSE]
<1>1. timers \in Seq(Timers) /\ clock \in Nat /\ Len(timers) < MaxTimers
  BY DEF SleepInv, Room
<1>2. t \in Timers /\ t.kind = kind /\ t.amx = a /\ ~t.done
  BY <1>1 DEF Timers
<1>3. timers' = Append(timers, t)
  BY DEF WithTimer
<1> HIDE DEF t
<1>4. /\ timers' \in Seq(Timers) /\ Len(timers') = Len(timers) + 1 /\ Len(timers) \in Nat
      /\ \A i \in 1..Len(timers) : timers'[i] = timers[i]
      /\ timers'[Len(timers) + 1] = t
  BY <1>1, <1>2, <1>3, AppendOne
<1>5. Len(timers') \in 1..MaxTimers /\ Len(timers') # Len(timers)
  BY <1>1, <1>4, DelayAssumption
<1> QED
  BY <1>2, <1>4, <1>5

LEMMA LoadScriptKeepsTimers ==
  ASSUME SleepInv, NEW a \in Amxs, LoadScript(a)
  PROVE  SleepInv'
<1>1. PICK program \in Programs : AmxInit(a, program)
  BY DEF LoadScript
<1>2. UNCHANGED <<timerVars, asleep, scheduled>> /\ ~Running
  BY DEF LoadScript, InMainLoop
<1>3. \A b \in Amxs : Loaded(b) => Loaded(b)'
  <2> SUFFICES ASSUME NEW b \in Amxs, Loaded(b) PROVE Loaded(b)'
    OBVIOUS
  <2>1. b # a
    BY <1>1 DEF Loaded, AmxInit
  <2>2. script'[b] = script[b]
    BY <1>1, <2>1 DEF AmxInit
  <2> QED
    BY <2>2 DEF Loaded
<1>4. \A b \in Amxs : scheduled[b] # 0 /\ Sleeps(b) => Sleeps(b)'
  BY <1>2 DEF Sleeps, Executing
<1>5. \A i \in 1..Len(timers') : TimerOK(i)'
  BY <1>2, <1>3, <1>4, ScriptsGoOn DEF timerVars
<1> QED
  BY <1>2, <1>5, SleepTypesStay DEF SleepInv

LEMMA AmxLoadKeepsTimers ==
  ASSUME SleepInv, NEW a \in Amxs, AmxLoad(a), script \in [Amxs -> Scripts \cup {Null}]
  PROVE  SleepInv'
<1>1. /\ script[a] # Null /\ ~Running /\ UNCHANGED <<calls, asleep, scheduled, clock, loop>>
      /\ script' = [script EXCEPT ![a].loaded = TRUE]
  BY DEF AmxLoad, InMainLoop, Relocated, AddSimpleTimer
<1>2. PICK n \in Nat : n = Len(timers)
  BY LenProperties DEF SleepInv
<1>3. /\ timers' \in Seq(Timers) /\ Len(timers') = n + 1 /\ n + 1 <= MaxTimers
      /\ \A i \in 1..n : timers'[i] = timers[i]
      /\ timers'[n + 1].kind = "simple" /\ timers'[n + 1].amx = a
  <2>1. Room /\ timers' = WithTimer("simple", a, FirstDelay) /\ FirstDelay \in Nat
    BY DelayAssumption DEF AmxLoad, AddSimpleTimer
  <2>2. "simple" \in {"simple", "continue"}
    OBVIOUS
  <2> QED
    BY <1>2, <2>1, <2>2, TimerAdded
<1>4. script[a] \in Scripts
  BY <1>1
<1>5. script'[a] # Null /\ script'[a].loaded /\ \A b \in Amxs : b # a => script'[b] = script[b]
  <2> DEFINE s == [script[a] EXCEPT !.loaded = TRUE]
  <2>1. s \in Scripts /\ s.loaded
    BY <1>4 DEF Scripts
  <2>2. script'[a] = s /\ \A b \in Amxs : b # a => script'[b] = script[b]
    BY <1>1
  <2> HIDE DEF s
  <2>3. s # Null
    BY <2>1, NullAssumption
  <2> QED
    BY <2>1, <2>2, <2>3, Zenon
<1>6. \A b \in Amxs : (Loaded(b) => Loaded(b)') /\ (Sleeps(b) => Sleeps(b)')
  BY <1>1, <1>5 DEF Loaded, Sleeps, Executing
<1>7. ASSUME NEW i \in 1..(n + 1) PROVE TimerOK(i)'
  <2>1. CASE i = n + 1
    <3>1. Loaded(a)'
      BY <1>5, Zenon DEF Loaded
    <3> QED
      BY <1>3, <2>1, <3>1 DEF TimerOK, Loaded
  <2>2. CASE i \in 1..n
    <3>1. PICK b \in Amxs : b = timers[i].amx
      BY <1>2, <2>2, TimerOfSeq
    <3>2. TimerOK(i) /\ timers'[i] = timers[i] /\ scheduled' = scheduled
      BY <1>1, <1>2, <1>3, <2>2, TimerOfSeq
    <3>3. ~timers[i].done =>
            Loaded(b)' /\ (timers[i].kind = "continue" => scheduled[b] = i /\ Sleeps(b)')
      BY <1>6, <3>1, <3>2, Zenon DEF TimerOK
    <3> QED
      BY <3>1, <3>2, <3>3, Zenon DEF TimerOK, Loaded, Sleeps
  <2> QED
    BY <2>1, <2>2
<1> QED
  BY <1>1, <1>3, <1>7 DEF SleepInv

LEMMA AmxUnloadKeepsTimers ==
  ASSUME SleepInv, NEW a \in Amxs, AmxUnload(a)
  PROVE  SleepInv'
<1>1. /\ ~Pending(a) /\ script' = [script EXCEPT ![a] = Null] /\ ~Running
      /\ UNCHANGED <<timerVars, calls, asleep, scheduled>>
  BY DEF AmxUnload, InMainLoop
<1>2. timers' = timers /\ DOMAIN timers = 1..Len(timers)
  BY <1>1, LenProperties DEF timerVars, SleepInv
<1>3. ASSUME NEW i \in 1..Len(timers), ~timers[i].done PROVE Loaded(timers[i].amx)'
  <2>1. PICK b \in Amxs : b = timers[i].amx
    BY TimerOfSeq
  <2>2. Loaded(b)
    BY <1>3, <2>1, TimerOfSeq DEF TimerOK
  <2>3. b # a
    BY <1>1, <1>2, <1>3, <2>1 DEF Pending
  <2>4. script'[b] = script[b] /\ timers'[i].amx = b
    BY <1>1, <1>2, <2>1, <2>3
  <2> QED
    BY <2>2, <2>4 DEF Loaded
<1>4. \A b \in Amxs : scheduled[b] # 0 /\ Sleeps(b) => Sleeps(b)'
  BY <1>1 DEF Sleeps, Executing
<1>5. \A i \in 1..Len(timers') : TimerOK(i)'
  BY <1>1, <1>2, <1>3, <1>4, TimersStay
<1> QED
  BY <1>1, <1>5, SleepTypesStay DEF SleepInv

LEMMA CallPublicKeepsTimers ==
  ASSUME SleepInv, NEW a \in Amxs, CallPublic(a)
  PROVE  SleepInv'
<1>1. UNCHANGED <<timerVars, asleep, scheduled, script>> /\ ~Running
  BY DEF CallPublic, InMainLoop, Exec
<1>2. \A b \in Amxs : Loaded(b) => Loaded(b)'
  BY <1>1 DEF Loaded
<1>3. \A b \in Amxs : scheduled[b] # 0 /\ Sleeps(b) => Sleeps(b)'
  BY <1>1 DEF Sleeps, Executing
<1>4. \A i \in 1..Len(timers') : TimerOK(i)'
  BY <1>1, <1>2, <1>3, ScriptsGoOn DEF timerVars
<1> QED
  BY <1>1, <1>4, SleepTypesStay DEF SleepInv

\* While a script has the CPU no call moves; those that move leave the scripts
\* loaded.
LEMMA HookStepsKeepTimers ==
  ASSUME HookInv, SleepInv, HookSteps
  PROVE  SleepInv'
<1>1. HookStep /\ UNCHANGED <<timerVars, asleep, scheduled>>
  BY DEF HookSteps
<1>2. ~Executing
  <2> SUFFICES ASSUME Executing PROVE FALSE
    OBVIOUS
  <2>1. Top.at # "jit" /\ (\A p \in Hookers : Top.at # p) /\ Top.index # "browse"
    BY PluginAssumption DEF Executing, Runs
  <2> QED
    BY <1>1, <2>1 DEF HookStep, PassOn, HookBrowse, InterpreterBrowse, BeginCompile,
       GetOpcodeTable, CompileScript, Dispatch, Decoding, Reached
<1>3. \A b \in Amxs : Loaded(b) => Loaded(b)'
  BY <1>1, HookStepKeepsHooks
<1>4. \A b \in Amxs : scheduled[b] # 0 /\ Sleeps(b) => Sleeps(b)'
  BY <1>1, <1>2 DEF Sleeps
<1>5. \A i \in 1..Len(timers') : TimerOK(i)'
  BY <1>1, <1>3, <1>4, ScriptsGoOn DEF timerVars
<1> QED
  BY <1>1, <1>5, SleepTypesStay DEF SleepInv

LEMMA ClockKeepsTimers ==
  ASSUME SleepInv, Clock \/ ProcessTick \/ LoopStep
  PROVE  SleepInv'
<1>1. UNCHANGED <<timers, script, calls, asleep, scheduled>>
  BY DEF Clock, Tick, ProcessTick, ProcessTimers, LoopStep, Skip, LoopEnd, hookVars
<1>2. /\ clock \in Nat /\ loop \in [i : 0..(MaxTimers + 1), now : Nat] /\ loop.now <= clock
      /\ Len(timers) \in Nat /\ Len(timers) <= MaxTimers /\ MaxTimers \in Nat
  BY DelayAssumption, LenProperties DEF SleepInv
<1>3. /\ clock' \in Nat /\ loop' \in [i : 0..(MaxTimers + 1), now : Nat]
      /\ loop'.now <= clock'
  <2>1. CASE Clock
    BY <1>2, <2>1 DEF Clock, Tick
  <2>2. CASE ProcessTick
    BY <1>2, <2>2 DEF ProcessTick, ProcessTimers
  <2>3. CASE LoopStep /\ Skip
    <3>1. loop.i \in 1..Len(timers)
      BY <2>3, LenProperties DEF Skip, InLoop, SleepInv
    <3> QED
      BY <1>2, <2>3, <3>1 DEF Skip
  <2>4. CASE LoopStep /\ LoopEnd
    BY <1>2, <2>4 DEF LoopEnd, Idle
  <2> QED
    BY <2>1, <2>2, <2>3, <2>4 DEF LoopStep
<1>4. \A a \in Amxs : (Loaded(a) => Loaded(a)') /\ (Sleeps(a) => Sleeps(a)')
  BY <1>1 DEF Loaded, Sleeps, Executing, Running, Top
<1>5. \A i \in 1..Len(timers') : TimerOK(i)'
  BY <1>1, <1>4, ScriptsGoOn
<1> QED
  BY <1>1, <1>3, <1>5 DEF SleepInv

\* The loop executes the timer of a script that is loaded, and continues one
\* that sleeps, for the sleep that the timer has been scheduled for.
LEMMA FiredTimer ==
  ASSUME SleepInv, ~Running, Fire
  PROVE  LET timer == timers[loop.i]
         IN /\ loop.i \in 1..Len(timers) /\ timer \in Timers /\ timer.amx \in Amxs
            /\ Loaded(timer.amx) /\ ~timer.done /\ clock >= timer.due
            /\ timer.kind = "continue" =>
                 scheduled[timer.amx] = loop.i /\ timer.amx \in asleep
<1>1. PICK i \in 1..Len(timers) : i = loop.i /\ Due(timers[i], loop.now)
  BY LenProperties DEF Fire, InLoop, SleepInv
<1>2. /\ timers[i] \in Timers /\ timers[i].amx \in Amxs /\ TimerOK(i)
      /\ timers[i].due \in Nat
  BY TimerOfSeq
<1>3. ~timers[i].done /\ clock >= timers[i].due
  <2>1. loop.now \in Nat /\ clock \in Nat /\ loop.now <= clock
    BY DEF SleepInv
  <2> QED
    BY <1>1, <1>2, <2>1 DEF Due
<1>4. ~Executing
  BY DEF Executing
<1> QED
  BY <1>1, <1>2, <1>3, <1>4 DEF TimerOK, Sleeps

LEMMA ExecuteTimerKeepsTimers ==
  ASSUME HookInv, SleepInv, ExecuteTimer
  PROVE  HookInv' /\ SleepInv'
<1>1. ~Running /\ Fire /\ ~Executing
  BY DEF ExecuteTimer, Executing
<1>2. PICK i \in 1..Len(timers) : i = loop.i
  BY <1>1, FiredTimer
<1>3. PICK a \in Amxs :
        /\ a = timers[i].amx /\ Loaded(a) /\ ~timers[i].done
        /\ timers[i].kind = "continue" => scheduled[a] = i /\ a \in asleep
  BY <1>1, <1>2, FiredTimer
<1>4. /\ IF timers[i].kind = "continue" THEN ContinueScript(a) ELSE ExecuteSleepCallback(a)
      /\ loop' = [loop EXCEPT !.i = @ + 1] /\ clock' = clock
  BY <1>1, <1>2, <1>3 DEF ExecuteTimer, Fire
<1>5. timers[i] \in Timers /\ timers \in Seq(Timers) /\ Len(timers) \in Nat
  BY TimerOfSeq, LenProperties DEF SleepInv
<1>6. /\ timers' \in Seq(Timers) /\ Len(timers') = Len(timers)
      /\ timers'[i].done
      /\ \A j \in 1..Len(timers) : j # i => timers'[j] = timers[j]
  <2> DEFINE t == [timers[i] EXCEPT !.done = TRUE, !.due = 0]
  <2>1. t \in Timers /\ t.done
    BY <1>5 DEF Timers
  <2>2. timers' = [timers EXCEPT ![i] = t]
    BY <1>1, <1>2 DEF Fire, Executed
  <2> HIDE DEF t
  <2> QED
    BY <1>5, <2>1, <2>2, ExceptSeq
<1>7. UNCHANGED script /\ HookInv'
  <2>1. CASE Exec(a, "cont") \/ Exec(a, "sleep_callback")
    BY <1>3, <2>1, ExecKeepsHooks DEF Exec, Indexes
  <2>2. CASE UNCHANGED hookVars
    BY <2>2, QuietKeepsHooks DEF hookVars
  <2> QED
    BY <1>4, <2>1, <2>2 DEF ContinueScript, ExecuteSleepCallback
<1>8. ASSUME NEW j \in 1..Len(timers') PROVE TimerOK(j)'
  <2>1. CASE j = i
    BY <1>6, <2>1 DEF TimerOK
  <2>2. CASE j # i
    <3>1. PICK b \in Amxs : b = timers[j].amx
      BY <1>6, TimerOfSeq
    <3>2. TimerOK(j) /\ timers'[j] = timers[j] /\ script' = script
      BY <1>6, <1>7, <2>2, TimerOfSeq
    <3>3. ~timers[j].done => Loaded(b)'
      BY <3>1, <3>2 DEF TimerOK, Loaded
    <3>4. ASSUME ~timers[j].done, timers[j].kind = "continue"
          PROVE  scheduled'[b] = j /\ Sleeps(b)'
      <4>1. scheduled[b] = j /\ b \in asleep
        BY <1>1, <3>1, <3>2, <3>4 DEF TimerOK, Sleeps
      <4>2. CASE timers[i].kind = "continue"
        <5>1. b # a
          BY <1>3, <2>2, <4>1, <4>2
        <5>2. asleep' = asleep \ {a} /\ scheduled' = [scheduled EXCEPT ![a] = 0]
          BY <1>4, <4>2 DEF ContinueScript
        <5>3. scheduled'[b] = j
          BY <4>1, <5>1, <5>2 DEF SleepInv
        <5> QED
          BY <4>1, <5>1, <5>2, <5>3 DEF Sleeps
      <4>3. CASE timers[i].kind # "continue"
        BY <1>4, <4>1, <4>3 DEF ExecuteSleepCallback, Sleeps
      <4> QED
        BY <4>2, <4>3
    <3> QED
      BY <3>1, <3>2, <3>3, <3>4, Zenon DEF TimerOK, Loaded, Sleeps
  <2> QED
    BY <2>1, <2>2
<1>9. loop' \in [i : 0..(MaxTimers + 1), now : Nat] /\ loop'.now = loop.now
  <2>1. loop.i + 1 \in 0..(MaxTimers + 1)
    <3>1. Len(timers) <= MaxTimers
      BY DEF SleepInv
    <3> QED
      BY <1>2, <1>5, <3>1, DelayAssumption
  <2>2. loop \in [i : 0..(MaxTimers + 1), now : Nat]
    BY DEF SleepInv
  <2> QED
    BY <1>4, <2>1, <2>2
<1>10. asleep' \subseteq Amxs /\ scheduled' \in [Amxs -> 0..MaxTimers]
  <2>1. 0 \in 0..MaxTimers
    BY DelayAssumption
  <2>2. asleep \subseteq Amxs /\ scheduled \in [Amxs -> 0..MaxTimers]
    BY DEF SleepInv
  <2>3. \/ asleep' = asleep \ {a} /\ scheduled' = [scheduled EXCEPT ![a] = 0]
        \/ asleep' = asleep /\ scheduled' = scheduled
    BY <1>4 DEF ContinueScript, ExecuteSleepCallback
  <2> QED
    BY <2>1, <2>2, <2>3
<1>11. clock \in Nat /\ Len(timers) <= MaxTimers /\ loop.now <= clock
  BY DEF SleepInv
<1>12. SleepInv'
  BY <1>4, <1>6, <1>8, <1>9, <1>10, <1>11 DEF SleepInv
<1> QED
  BY <1>7, <1>12

\* A script that schedules its continuation has no timer for it yet.
LEMMA CallScheduleKeepsTimers ==
  ASSUME HookInv, SleepInv, NEW ms \in Delays, CallSchedule(ms)
  PROVE  SleepInv'
<1>1. /\ Executing /\ scheduled[Top.amx] = 0 /\ ScheduleContinue(Top.amx, ms)
      /\ scheduled' = [scheduled EXCEPT ![Top.amx] = IF timers' = timers THEN 0 ELSE Len(timers')]
      /\ UNCHANGED <<script, calls, asleep, clock, loop>>
  BY DEF CallSchedule, Sleeper, ScheduleContinue, hookVars
<1>2. PICK a \in Amxs : a = Top.amx /\ Loaded(a)
  BY <1>1, CallsShape DEF Executing
<1>3. \A b \in Amxs : (Loaded(b) => Loaded(b)') /\ (Sleeps(b) => Sleeps(b)')
  BY <1>1 DEF Loaded, Sleeps, Executing, Running, Top
<1>4. scheduled \in [Amxs -> 0..MaxTimers] /\ ms \in Int
  BY DelayAssumption DEF SleepInv
<1>5. CASE ms < 0
  <2>1. timers' = timers /\ scheduled' = scheduled
    BY <1>1, <1>2, <1>4, <1>5 DEF ScheduleContinue
  <2>2. \A i \in 1..Len(timers') : TimerOK(i)'
    BY <1>3, <2>1, ScriptsGoOn
  <2> QED
    BY <1>1, <2>1, <2>2 DEF SleepInv
<1>6. CASE ~(ms < 0)
  <2>1. Room /\ timers' = WithTimer("continue", a, ms)
    BY <1>1, <1>2, <1>6 DEF ScheduleContinue
  <2>2. PICK n \in Nat : n = Len(timers)
    BY LenProperties DEF SleepInv
  <2>3. /\ timers' \in Seq(Timers) /\ Len(timers') = n + 1 /\ n + 1 \in 1..MaxTimers
        /\ timers' # timers /\ \A i \in 1..n : timers'[i] = timers[i]
        /\ timers'[n + 1].kind = "continue" /\ timers'[n + 1].amx = a
    <3>1. "continue" \in {"simple", "continue"} /\ ms \in Nat
      BY <1>4, <1>6
    <3> QED
      BY <2>1, <2>2, <3>1, TimerAdded
  <2>4. scheduled' = [scheduled EXCEPT ![a] = n + 1]
    BY <1>1, <1>2, <2>3
  <2>5. scheduled' \in [Amxs -> 0..MaxTimers]
    <3>1. n + 1 \in 0..MaxTimers
      BY <2>3
    <3> QED
      BY <1>4, <2>4, <3>1
  <2>6. ASSUME NEW i \in 1..(n + 1) PROVE TimerOK(i)'
    <3>1. CASE i = n + 1
      <4>1. Loaded(a)' /\ Sleeps(a)'
        BY <1>1, <1>2, <1>3 DEF Sleeps
      <4>2. scheduled'[a] = n + 1
        BY <1>4, <2>4
      <4> QED
        BY <2>3, <3>1, <4>1, <4>2, Zenon DEF TimerOK, Loaded, Sleeps
    <3>2. CASE i \in 1..n
      <4>1. PICK b \in Amxs : b = timers[i].amx
        BY <2>2, <3>2, TimerOfSeq
      <4>2. TimerOK(i) /\ timers'[i] = timers[i] /\ i # 0
        BY <2>2, <2>3, <3>2, TimerOfSeq
      <4>3. ~timers[i].done => Loaded(b)'
        BY <1>3, <4>1, <4>2, Zenon DEF TimerOK
      <4>4. ASSUME ~timers[i].done, timers[i].kind = "continue"
            PROVE  scheduled'[b] = i /\ Sleeps(b)'
        <5>1. scheduled[b] = i /\ Sleeps(b)
          BY <4>1, <4>2, <4>4, Zenon DEF TimerOK
        <5>2. b # a
          BY <1>1, <1>2, <4>2, <5>1
        <5> QED
          BY <1>3, <1>4, <2>4, <5>1, <5>2
      <4> QED
        BY <4>1, <4>2, <4>3, <4>4, Zenon DEF TimerOK, Loaded, Sleeps
    <3> QED
      BY <3>1, <3>2
  <2> QED
    BY <1>1, <2>3, <2>5, <2>6 DEF SleepInv
<1> QED
  BY <1>5, <1>6

\* A script that has scheduled its continuation ends by sleeping.
LEMMA ReturnKeepsTimers ==
  ASSUME HookInv, SleepInv, Return
  PROVE  HookInv' /\ SleepInv'
<1>1. /\ Executing /\ calls' = Below
      /\ UNCHANGED <<pluginVars, static_table, handlers, script, loads, timerVars, scheduled>>
      /\ asleep \subseteq asleep' /\ asleep' \subseteq asleep \cup {Top.amx}
      /\ scheduled[Top.amx] # 0 => Top.amx \in asleep'
  BY DEF Return
<1>2. HookInv'
  BY <1>1, ReturnKeepsHooks
<1>3. Top.amx \in Amxs
  BY <1>1, CallsShape DEF Executing
<1>4. \A b \in Amxs : Loaded(b) => Loaded(b)'
  BY <1>1 DEF Loaded
<1>5. \A b \in Amxs : scheduled[b] # 0 /\ Sleeps(b) => Sleeps(b)'
  BY <1>1 DEF Sleeps
<1>6. \A i \in 1..Len(timers') : TimerOK(i)'
  BY <1>1, <1>4, <1>5, ScriptsGoOn DEF timerVars
<1>7. asleep' \subseteq Amxs
  BY <1>1, <1>3 DEF SleepInv
<1> QED
  BY <1>1, <1>2, <1>6, <1>7, SleepTypesStay

-----------------------------------------------------------------------------
(* The theorems. *)

Inv == HookInv /\ SleepInv

LEMMA InitInv ==
  ASSUME Init
  PROVE  Inv
<1>1. /\ entry = "amx_Exec" /\ trampoline = <<>> /\ jit = "absent" /\ calls = <<>>
      /\ opcode_table = Nothing /\ static_table = Null /\ loads = 0
      /\ handlers = [a \in Amxs |-> "none"] /\ script = [a \in Amxs |-> Null]
  BY DEF Init, HookInit
<1>2. Hooked = {} /\ Stations = {"amx_Exec"}
  BY <1>1 DEF Hooked, Stations
<1>3. HooksChained
  <2>1. PICK rank \in [Stations -> Nat] : rank = [s \in Stations |-> 0]
    OBVIOUS
  <2>2. Chain(rank)
    BY <1>1, <1>2, <2>1 DEF Chain
  <2>3. \A i \in 1..Len(calls) : FALSE
    BY <1>1, EmptySeq
  <2> QED
    BY <2>2, <2>3 DEF HooksChained
<1>4. PluginsOK
  BY <1>1, <1>2 DEF PluginsOK, Plugins
<1>5. CallsOK
  <2>1. calls \in Seq(Frames) /\ Len(calls) = 0
    BY <1>1, EmptySeq
  <2> QED
    BY <2>1 DEF CallsOK
<1>6. /\ script \in [Amxs -> Scripts \cup {Null}] /\ handlers \in [Amxs -> HandlerStates]
      /\ loads \in 0..MaxLoads
  BY <1>1, BoundAssumption DEF HandlerStates
<1>7. \A a \in Amxs : ScriptOK(a) /\ HandlerOK(a)
  BY <1>1 DEF ScriptOK, HandlerOK
<1>8. HookInv
  BY <1>3, <1>4, <1>5, <1>6, <1>7 DEF HookInv
<1>9. clock = 0 /\ timers = <<>> /\ loop = Idle /\ asleep = {} /\ scheduled = [a \in Amxs |-> 0]
  BY DEF Init, TimersInit
<1>10. timers \in Seq(Timers) /\ Len(timers) = 0
  BY <1>9, EmptySeq
<1>11. SleepInv
  BY <1>9, <1>10, DelayAssumption DEF SleepInv, Idle
<1> QED
  BY <1>8, <1>11 DEF Inv

LEMMA NextInv ==
  ASSUME Inv, [Next]_vars
  PROVE  Inv'
<1> USE DEF Inv
<1>1. CASE LoadPlugin
  <2>1. HookInv'
    BY <1>1, LoadJITKeepsHooks, LoadHookerKeepsHooks DEF LoadPlugin
  <2>2. UNCHANGED <<timerVars, script, calls, asleep, scheduled>>
    BY <1>1 DEF LoadPlugin, LoadJIT, LoadHooker
  <2> QED
    BY <2>1, <2>2, QuietKeepsTimers
<1>2. ASSUME NEW a \in Amxs, LoadScript(a) PROVE Inv'
  <2>1. HookInv'
    BY <1>2, AmxInitKeepsHooks DEF LoadScript
  <2> QED
    BY <1>2, <2>1, LoadScriptKeepsTimers
<1>3. ASSUME NEW a \in Amxs, AmxLoad(a) PROVE Inv'
  <2>1. /\ Relocated(a) /\ ~Running /\ script' = [script EXCEPT ![a].loaded = TRUE]
        /\ UNCHANGED <<pluginVars, static_table, handlers, loads, calls>>
    BY <1>3 DEF AmxLoad, InMainLoop
  <2>2. HookInv'
    BY <2>1, AmxLoadKeepsHooks
  <2> QED
    BY <1>3, <2>2, AmxLoadKeepsTimers DEF HookInv
<1>4. ASSUME NEW a \in Amxs, AmxUnload(a) PROVE Inv'
  <2>1. /\ ~Running /\ handlers' = [handlers EXCEPT ![a] = "none"]
        /\ script' = [script EXCEPT ![a] = Null]
        /\ UNCHANGED <<pluginVars, static_table, loads, calls>>
    BY <1>4 DEF AmxUnload, InMainLoop
  <2>2. HookInv'
    BY <2>1, AmxUnloadKeepsHooks
  <2> QED
    BY <1>4, <2>2, AmxUnloadKeepsTimers
<1>5. ASSUME NEW a \in Amxs, CallPublic(a) PROVE Inv'
  <2>1. Loaded(a) /\ Exec(a, "main") /\ "main" \in Indexes
    BY <1>5 DEF CallPublic, Indexes
  <2>2. HookInv'
    BY <2>1, ExecKeepsHooks
  <2> QED
    BY <1>5, <2>2, CallPublicKeepsTimers
<1>6. CASE HookSteps
  <2>1. HookInv'
    BY <1>6, HookStepKeepsHooks DEF HookSteps
  <2> QED
    BY <1>6, <2>1, HookStepsKeepTimers
<1>7. CASE Clock \/ ProcessTick \/ LoopStep
  <2>1. UNCHANGED hookVars
    BY <1>7 DEF Clock, ProcessTick, LoopStep
  <2> QED
    BY <1>7, <2>1, QuietKeepsHooks, ClockKeepsTimers
<1>8. CASE ExecuteTimer
  BY <1>8, ExecuteTimerKeepsTimers
<1>9. ASSUME NEW ms \in Delays, CallSchedule(ms) PROVE Inv'
  <2>1. UNCHANGED hookVars
    BY <1>9 DEF CallSchedule
  <2> QED
    BY <1>9, <2>1, QuietKeepsHooks, CallScheduleKeepsTimers
<1>10. CASE Return
  BY <1>10, ReturnKeepsTimers
<1>11. CASE UNCHANGED vars
  <2>1. UNCHANGED hookVars /\ UNCHANGED <<timerVars, script, calls, asleep, scheduled>>
    BY <1>11 DEF vars, hookVars
  <2> QED
    BY <2>1, QuietKeepsHooks, QuietKeepsTimers
<1> QED
  BY <1>1, <1>2, <1>3, <1>4, <1>5, <1>6, <1>7, <1>8, <1>9, <1>10, <1>11 DEF Next, TimerStep

\* The hooks form a chain, calls come down it, scripts are relocated and decoded
\* with the interpreter's table, and every timer that waits belongs to a script.
THEOREM ServerInvariant == Spec => []Inv
<1>1. Init => Inv
  BY InitInv
<1>2. Inv /\ [Next]_vars => Inv'
  BY NextInv
<1> QED
  BY <1>1, <1>2, PTL DEF Spec

\* The state of the server has its types: of the hooks, the tables, the calls
\* and the timers.
THEOREM ServerTypes == Spec => []TypeOK
<1>1. Inv => TypeOK
  <2> SUFFICES ASSUME Inv PROVE TypeOK
    OBVIOUS
  <2>1. entry \in Plugins \cup {"amx_Exec"}
    BY CallsShape DEF Inv, HookInv, PluginsOK, Stations
  <2>2. /\ Hooked \subseteq Plugins /\ jit \in {"absent", "refused", "hooked"}
        /\ opcode_table \in {Nothing, Label} /\ static_table \in {Null, Label}
    BY DEF Inv, HookInv, PluginsOK
  <2>3. \A a \in Amxs :
          handlers[a] \in {"none", "COMPILE", "COMPILE_FAILED", "COMPILE_SUCCEDED"}
    BY DEF Inv, HookInv, HandlerStates
  <2>4. loads \in 0..MaxLoads /\ calls \in Seq(Frames)
    BY DEF Inv, HookInv, CallsOK
  <2>5. \A i \in DOMAIN timers : timers[i].amx \in Amxs /\ timers[i].due \in Nat
    <3>1. DOMAIN timers = 1..Len(timers)
      BY LenProperties DEF Inv, SleepInv
    <3> QED
      BY <3>1, TimerOfSeq DEF Inv
  <2>6. /\ loop.i \in 0..(MaxTimers + 1) /\ loop.now <= clock /\ asleep \subseteq Amxs
        /\ scheduled \in [Amxs -> 0..MaxTimers]
    BY DEF Inv, SleepInv
  <2> QED
    BY <2>1, <2>2, <2>3, <2>4, <2>5, <2>6 DEF TypeOK
<1> QED
  BY <1>1, ServerInvariant, PTL

\* Every plugin that has hooked amx_Exec sees every call that runs a script, in
\* whatever order and number they were loaded.
THEOREM AllHooksSeeCalls == Spec => []HooksSeeCalls
<1>1. Inv => HooksSeeCalls
  <2> SUFFICES ASSUME Inv, NEW i \in DOMAIN calls, calls[i].at \in Runs
               PROVE  calls[i].seen = Hooked
    BY DEF HooksSeeCalls
  <2>1. i \in 1..Len(calls)
    BY LenProperties DEF Inv, HookInv, CallsOK
  <2>2. PICK rank \in [Stations -> Nat] : Chain(rank) /\ SeenBy(rank, calls[i])
    BY <2>1 DEF Inv, HookInv, HooksChained
  <2>3. /\ rank["amx_Exec"] = 0
        /\ \A p \in Hooked : rank[p] \in Nat /\ rank[p] # 0
    BY <2>2 DEF Chain, Stations
  <2>4. calls[i].seen = {p \in Hooked : calls[i].at = "code" \/ rank[p] > rank[calls[i].at]}
    BY <2>2 DEF SeenBy
  <2>5. calls[i].at = "code" \/ calls[i].at = "amx_Exec"
    BY DEF Runs
  <2>6. \A p \in Hooked : calls[i].at = "code" \/ rank[p] > rank[calls[i].at]
    BY <2>3, <2>5
  <2> QED
    BY <2>4, <2>6
<1> QED
  BY <1>1, ServerInvariant, PTL

\* A script is decoded to what it was relocated from, whichever plugins hooked
\* amx_Exec before and after the table was fetched.
THEOREM TablesUndoEachOther == Spec => []DecodedRight
<1>1. Inv => DecodedRight
  BY DEF Inv, HookInv, ScriptOK, DecodedRight
<1> QED
  BY <1>1, ServerInvariant, PTL

\* Handlers are made for loaded scripts only, and by a hook that is installed.
THEOREM HandlersForScripts == Spec => []HandlersOfScripts
<1>1. Inv => HandlersOfScripts
  <2> SUFFICES ASSUME Inv PROVE HandlersOfScripts
    OBVIOUS
  <2>1. DOMAIN handlers = Amxs
    BY DEF Inv, HookInv
  <2>2. ASSUME NEW a \in Amxs, handlers[a] # "none" PROVE Relocated(a) /\ jit = "hooked"
    BY <2>2 DEF Inv, HookInv, HandlerOK, ScriptOK, Loaded, Relocated
  <2> QED
    BY <2>1, <2>2 DEF HandlersOfScripts
<1> QED
  BY <1>1, ServerInvariant, PTL

\* Calls that have different arguments are different.
LEMMA CallOf ==
  ASSUME NEW a, NEW index, NEW b, NEW other, AmxExec(<<>>, a, index) = AmxExec(<<>>, b, other)
  PROVE  a = b /\ index = other
<1> DEFINE f(x, y) == [amx |-> x, index |-> y, at |-> entry, seen |-> {}]
<1>1. Append(<<>>, f(a, index)) = Append(<<>>, f(b, other))
  BY DEF AmxExec
<1>2. f(a, index) = f(b, other)
  <2>1. \A x, y : Append(<<>>, f(x, y))[1] = f(x, y)
    OBVIOUS
  <2> QED
    BY <1>1, <2>1
<1> QED
  BY <1>2

LEMMA CallIsSomething ==
  ASSUME NEW a, NEW index
  PROVE  AmxExec(<<>>, a, index) # <<>>
  BY DEF AmxExec

\* A timer continues only a script that is loaded and sleeps, of its sleeps the
\* one it was scheduled for, and not before its time.
THEOREM TimersContinueSleepers == Spec => ContinuesSleeper
<1>1. ASSUME Inv, [Next]_vars, NEW a \in Amxs, calls = <<>>, calls' = AmxExec(<<>>, a, "cont")
      PROVE  /\ Loaded(a) /\ a \in asleep
             /\ scheduled[a] = loop.i
             /\ clock >= timers[loop.i].due
  <2>1. ~Running /\ calls' # calls
    BY <1>1, CallIsSomething DEF Running
  <2>2. \A b, index : index # "cont" => calls' # AmxExec(<<>>, b, index)
    BY <1>1, CallOf
  <2>3. "browse" # "cont" /\ "main" # "cont" /\ "sleep_callback" # "cont"
    OBVIOUS
  <2>4. ~LoadPlugin /\ ~Clock /\ ~ProcessTick /\ ~LoopStep /\ ~(UNCHANGED vars)
    BY <2>1 DEF LoadPlugin, LoadJIT, LoadHooker, Clock, ProcessTick, LoopStep, hookVars, vars
  <2>5. ~HookSteps /\ ~Return /\ \A ms \in Delays : ~CallSchedule(ms)
    BY <2>1 DEF HookSteps, HookStep, PassOn, HookBrowse, InterpreterBrowse, BeginCompile,
       GetOpcodeTable, CompileScript, Dispatch, Decoding, Reached, Return, CallSchedule,
       Sleeper, Executing
  <2>6. \A b \in Amxs : ~LoadScript(b) /\ ~AmxLoad(b) /\ ~AmxUnload(b) /\ ~CallPublic(b)
    BY <2>1, <2>2, <2>3 DEF LoadScript, AmxInit, AmxLoad, AmxUnload, CallPublic, Exec
  <2>7. ExecuteTimer
    BY <1>1, <2>4, <2>5, <2>6 DEF Next, TimerStep
  <2>8. PICK timer : timer = timers[loop.i]
    OBVIOUS
  <2>9. timer.kind = "continue" /\ calls' = AmxExec(<<>>, timer.amx, "cont")
    <3>1. CASE timer.kind = "continue"
      BY <2>7, <2>8, <3>1 DEF ExecuteTimer, ContinueScript, Exec
    <3>2. CASE timer.kind # "continue"
      <4>1. ExecuteSleepCallback(timer.amx)
        BY <2>7, <2>8, <3>2 DEF ExecuteTimer
      <4> QED
        BY <2>1, <2>2, <2>3, <4>1 DEF ExecuteSleepCallback, Exec, hookVars
    <3> QED
      BY <3>1, <3>2
  <2>10. timer.amx = a
    BY <1>1, <2>9, CallOf
  <2>11. Fire
    BY <2>7 DEF ExecuteTimer
  <2> QED
    BY <1>1, <2>1, <2>8, <2>9, <2>10, <2>11, FiredTimer DEF Inv
<1>2. Inv /\ [Next]_vars =>
        [\A a \in Amxs : calls = <<>> /\ calls' = AmxExec(<<>>, a, "cont") =>
            /\ Loaded(a) /\ a \in asleep
            /\ scheduled[a] = loop.i
            /\ clock >= timers[loop.i].due]_vars
  BY <1>1
<1> QED
  BY <1>2, ServerInvariant, PTL DEF Spec, ContinuesSleeper
=============================================================================
