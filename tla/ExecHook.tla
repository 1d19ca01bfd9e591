------------------------------ MODULE ExecHook ------------------------------
(***************************************************************************)
(* The way of a call through the server process, on Linux.  Plugins are    *)
(* loaded one after another and some of them hook amx_Exec, each with a    *)
(* jump to its own function and a trampoline to what was there before.     *)
(* jit.cpp hooks it too, unless somebody has done so before it.  From then *)
(* on a call of amx_Exec passes from hook to hook, newest first.           *)
(*                                                                         *)
(* amx_Exec with AMX_FLAG_BROWSE runs nothing: it returns the table of     *)
(* addresses that stand for the opcodes in a loaded script.  amx_Init asks *)
(* for it to relocate the opcodes of a script, the plugin asks for it at   *)
(* its start (jit.cpp) and once more when it decodes its first instruction *)
(* (opcode.cpp).  What a compiled or an interpreted script does is left to *)
(* the modules that extend this one.                                       *)
(***************************************************************************)
EXTENDS Integers, Sequences

CONSTANTS
  Amxs,          \* addresses of AMX structures; the server uses them again
  Hookers,       \* other plugins that hook amx_Exec
  NumOpcodes,    \* NUM_OPCODES
  Programs,      \* what matters of a script: one of its opcodes, and whether
                 \* it has a sleep_callback
  Untranslated,  \* those of Opcodes that the compiler refuses
  Label,         \* the interpreter's table: where it executes each opcode
  MaxLoads,      \* bound: scripts loaded in one run of the server
  Null           \* no script, no handler, a variable that is not initialised

Opcodes == 0..(NumOpcodes - 1)

ASSUME OpcodeAssumption ==
  /\ NumOpcodes \in Nat
  /\ Programs \subseteq [opcode : Opcodes, callback : BOOLEAN]
  /\ Untranslated \subseteq Opcodes
  /\ Label \in [Opcodes -> Nat]
ASSUME BoundAssumption == MaxLoads \in Nat
ASSUME PluginAssumption == Hookers \cap {"jit", "amx_Exec", "code"} = {}

\* A script as it is loaded: its relocated opcode, what it is decoded to, and
\* whether the plugins' AmxLoad has been called.
Scripts == [program : Programs, code : Nat \cup {Null}, decoded : Nat \cup {Null},
            loaded : BOOLEAN]
ASSUME NullAssumption == Null \notin Scripts \cup Nat

VARIABLES
  entry,        \* where the first instruction of amx_Exec leads
  trampoline,   \* of each plugin that has installed its hook
  jit,          \* "absent", "refused" or "hooked"
  opcode_table, \* of jit.cpp
  static_table, \* opcode_table in RelocateOpcode
  handlers,     \* the JITHandler of each AMX: its state, or "none"
  script,       \* what is loaded in each AMX
  loads,        \* scripts loaded so far
  calls         \* activations of amx_Exec, outermost first

pluginVars == <<entry, trampoline, jit, opcode_table>>
hookVars == <<pluginVars, static_table, handlers, script, loads, calls>>
-----------------------------------------------------------------------------
Plugins == Hookers \cup {"jit"}
Hooked == DOMAIN trampoline
Running == calls # <<>>
Top == calls[Len(calls)]
Below == SubSeq(calls, 1, Len(calls) - 1)
Reached(at) == Running /\ Top.at = at
Runs == {"code", "amx_Exec"}      \* who executes a script in the end

\* What is read through a null pointer; the table of no interpreter.
Nothing == [opcode \in Opcodes |-> -1]

HookInit ==
  /\ entry = "amx_Exec" /\ trampoline = <<>> /\ jit = "absent"
  /\ opcode_table = Nothing /\ static_table = Null
  /\ handlers = [a \in Amxs |-> "none"]
  /\ script = [a \in Amxs |-> Null]
  /\ loads = 0
  /\ calls = <<>>
-----------------------------------------------------------------------------
(* Loading plugins, which the server does before it loads any script. *)

Installed(p) ==
  /\ trampoline' = [q \in Hooked \cup {p} |-> IF q = p THEN entry ELSE trampoline[q]]
  /\ entry' = p

\* What BROWSE answers if amx_Exec leads to f: another hook passes it on.
Browse(f) == IF f = "jit" THEN opcode_table ELSE Label

\* With a bug: the table is fetched when the hook is installed already.
FetchedLate == Browse("jit")

\* Load fetches the table before it installs the hook.
Fetched == Browse(entry)

\* With a bug: Load does not look whether amx_Exec is hooked.
RefusesNever == FALSE

\* subhook::ReadHookDst finds a jump at the start of amx_Exec.
Refuses == entry # "amx_Exec"

\* Load of the JIT plugin.
LoadJIT ==
  /\ loads = 0 /\ jit = "absent"
  /\ IF Refuses
     THEN jit' = "refused" /\ UNCHANGED <<entry, trampoline, opcode_table>>
     ELSE jit' = "hooked" /\ Installed("jit") /\ opcode_table' = Fetched
  /\ UNCHANGED <<static_table, handlers, script, loads, calls>>

\* Another plugin hooks amx_Exec, wherever that leads by now.
LoadHooker(p) ==
  /\ loads = 0 /\ p \notin Hooked
  /\ Installed(p)
  /\ UNCHANGED <<jit, opcode_table, static_table, handlers, script, loads, calls>>
-----------------------------------------------------------------------------
(* Calls. *)

\* A call of amx_Exec on top of stack: it is where the entry leads.
AmxExec(stack, a, index) ==
  Append(stack, [amx |-> a, index |-> index, at |-> entry, seen |-> {}])

\* The call goes on to f.
MovedTo(f, passed) ==
  Append(Below, [Top EXCEPT !.at = f, !.seen = @ \cup passed])

\* Another plugin's hook function calls its trampoline.
PassOn(p) ==
  /\ Reached(p)
  /\ calls' = MovedTo(trampoline[p], {p})
  /\ UNCHANGED <<pluginVars, static_table, handlers, script, loads>>

\* amx_Init of a new script: BROWSE first, see Answer.
AmxInit(a, program) ==
  /\ script[a] = Null /\ loads < MaxLoads
  /\ loads' = loads + 1
  /\ script' = [script EXCEPT ![a] =
                  [program |-> program, code |-> Null, decoded |-> Null, loaded |-> FALSE]]
  /\ calls' = AmxExec(<<>>, a, "browse")
  /\ UNCHANGED <<pluginVars, static_table, handlers>>

Relocated(a) == script[a] # Null /\ script[a].code # Null

\* A BROWSE call returns table: to RelocateOpcode if a handler waits below,
\* else to amx_Init, which relocates the opcodes of the script.
Answer(table) ==
  /\ calls' = Below
  /\ IF Below # <<>>
     THEN static_table' = table /\ UNCHANGED script
     ELSE /\ script' = [script EXCEPT ![Top.amx].code = table[script[Top.amx].program.opcode]]
          /\ UNCHANGED static_table
  /\ UNCHANGED <<pluginVars, loads>>

\* With a bug: amx_Exec_JIT treats a BROWSE call like any other.
AnswersNothing(call) == FALSE

\* The BROWSE branch of amx_Exec_JIT.
AnswersBrowse(call) == call.index = "browse"

HookBrowse ==
  /\ Reached("jit") /\ AnswersBrowse(Top)
  /\ Answer(opcode_table)
  /\ UNCHANGED handlers

\* amx_Exec itself, asked for the table.
InterpreterBrowse ==
  /\ Reached("amx_Exec") /\ Top.index = "browse"
  /\ Answer(Label)
  /\ UNCHANGED handlers

\* GetHandler(amx)->Exec of a script not seen before: compilation begins.
BeginCompile ==
  /\ Reached("jit") /\ ~AnswersBrowse(Top) /\ handlers[Top.amx] = "none"
  /\ handlers' = [handlers EXCEPT ![Top.amx] = "COMPILE"]
  /\ UNCHANGED <<pluginVars, static_table, script, loads, calls>>

Decoding == Reached("jit") /\ ~AnswersBrowse(Top) /\ handlers[Top.amx] = "COMPILE"

\* The first RelocateOpcode of the process initialises its static variable.
\* The AMX structure it passes on is a local variable, not a script.
GetOpcodeTable ==
  /\ Decoding /\ static_table = Null
  /\ calls' = AmxExec(calls, "local", "browse")
  /\ UNCHANGED <<pluginVars, static_table, handlers, script, loads>>

\* The first match; opcodes that are executed at one place are one to a script.
FindOpcode(table, code) ==
  IF \E i \in Opcodes : table[i] = code
  THEN CHOOSE i \in Opcodes : table[i] = code /\ \A j \in 0..(i - 1) : table[j] # code
  ELSE code

\* The script is decoded and translated, or refused.
CompileScript ==
  /\ Decoding /\ static_table # Null
  /\ LET opcode == FindOpcode(static_table, script[Top.amx].code)
     IN /\ script' = [script EXCEPT ![Top.amx].decoded = opcode]
        /\ handlers' = [handlers EXCEPT ![Top.amx] =
             IF opcode \in Untranslated THEN "COMPILE_FAILED" ELSE "COMPILE_SUCCEDED"]
  /\ UNCHANGED <<pluginVars, static_table, loads, calls>>

\* A handler that has decided: its code runs, or amx_Exec_JIT calls the
\* trampoline because of AMX_ERR_INIT_JIT.
Dispatch ==
  /\ Reached("jit") /\ ~AnswersBrowse(Top)
  /\ handlers[Top.amx] \in {"COMPILE_FAILED", "COMPILE_SUCCEDED"}
  /\ calls' = MovedTo(IF handlers[Top.amx] = "COMPILE_SUCCEDED"
                      THEN "code" ELSE trampoline["jit"], {"jit"})
  /\ UNCHANGED <<pluginVars, static_table, handlers, script, loads>>

\* What the plugins and the interpreter do with a call before a script runs.
HookStep ==
  \/ \E p \in Hookers : PassOn(p)
  \/ HookBrowse \/ InterpreterBrowse
  \/ BeginCompile \/ GetOpcodeTable \/ CompileScript \/ Dispatch

\* A script has the CPU.
Executing == Running /\ Top.at \in Runs /\ Top.index # "browse"
-----------------------------------------------------------------------------
Frames == [amx : Amxs \cup {"local"},
           index : {"browse", "main", "sleep_callback", "cont"},
           at : Plugins \cup Runs, seen : SUBSET Plugins]

\* Every plugin that has hooked amx_Exec sees every call that runs a script,
\* compiled or not.  It is for this that Load refuses to be the outer one of
\* two hooks: compiled code never reaches the hooks below the plugin's own.
HooksSeeCalls ==
  \A i \in DOMAIN calls : calls[i].at \in Runs /\ calls[i].index # "browse"
                            => calls[i].seen = Hooked

\* A script is compiled from the instructions it was loaded with: the tables
\* that amx_Init relocates with and that the disassembler searches, fetched at
\* different times through different hooks, undo each other.
DecodedRight ==
  \A a \in Amxs : script[a] # Null /\ script[a].decoded # Null =>
    /\ script[a].decoded \in Opcodes
    /\ Label[script[a].decoded] = Label[script[a].program.opcode]

\* Only scripts that are loaded have handlers: no question for the table, by
\* amx_Init for a script that is not there yet or with a local variable of
\* GetOpcodeTable, makes one.
HandlersOfScripts ==
  /\ DOMAIN handlers = Amxs
  /\ \A a \in Amxs : handlers[a] # "none" => Relocated(a) /\ jit = "hooked"
=============================================================================
