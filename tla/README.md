# Verification of samp-plugin-jit

TLA+ models of the JIT plugin for SA-MP servers, model-checked with TLC, with
theorems about them proved with TLAPS. Source references are relative to the
repository root; `compiler_impl.cpp` is `src/amxjit/compiler_impl.cpp`.

## The system

The plugin replaces the interpreter of the Pawn abstract machine (AMX). It hooks
`amx_Exec`; the first call for a script compiles the whole script to x86 code,
later calls run that code. Everything runs on the server's one thread. What makes
it hard is not parallelism but nesting: scripts call native functions, natives
call `amx_Exec` again for the same or another script, compilation itself calls
back into the script, and a script may suspend itself in the middle (sleep) and be
continued later. Each of these uses state that is shared by all activations.

| component | code | state it keeps | operations | hard behaviour |
|---|---|---|---|---|
| hook function | `jit.cpp` | opcode table, hook | `amx_Exec_JIT`, `Load`, `AmxLoad`, `AmxUnload` | reentrance, other hooks, error code used as a signal |
| handler registry | `amxhandler.h` | `handlers_`: AMX address to handler | create, get, destroy | addresses used again after unloading |
| JITHandler | `jithandler.cpp` | `state_`, `code_`, the script's `__JIT` | `Exec`, compile, `OnJITCompile`, `OnJITError` | calls during compilation, failure, refusal |
| runtime helpers | `compiler_impl.cpp:1396-2082` | RuntimeInfoBlock, native frames, callee-saved registers, fields of `AMX` | Exec, ExecHelper, ExecContHelper, HaltHelper, SysreqCHelper, SysreqDHelper, jump lookups | two stacks, nested calls, halts at any depth, sleep |
| instruction table | `compiler_impl.cpp:76-148, 1422-1439, 1155-1175` | sorted (AMX address, code address) pairs | lookup in both directions | instructions without code, alignment |
| compiler loop | `compiler_impl.cpp:220-1184, 2104-2110` | labels, instruction map | one case per opcode | labels never bound, integer edge cases |
| intrinsics | `compiler_impl.cpp:1186-1394` | none | float, clamp, min, max, swapchars and the like in line | signed comparisons, order of bytes |
| disassembler | `disasm.cpp`, `opcode.cpp` | current address, opcode map | decode, case tables | invalid instructions |
| AMXRef | `amxref.cpp` | none | find publics, natives by number, by address | several names for one function, functions not registered yet |
| sleep test plugin | `jit_sleep.cpp` | timers | `do_sleep`, `schedule_continue`, tick | timers added while timers run, late timers, unloaded scripts |
| thunks, logging | `amxplugin.cpp`, `logprintf.cpp`, `logger.cpp` | none | - | - |
| AsmJit, subhook, configreader | `deps/` | vendored | - | - |

Interactions: the server and natives call `amx_Exec`, which is `amx_Exec_JIT`;
that asks JITHandler; that runs `Compiler::Compile` once and then the code's entry
point, `Exec`. Compiled code calls natives through the sysreq helpers, which store
part of the machine state in `AMX` for natives to see; natives call `amx_Exec`
again. INIT_JIT from JITHandler sends the call on to the interpreter through the
trampoline of the hook.

What makes each part correct:
* runtime helpers: control returns to the right frame of the right stack, with the
  registers that were there; the AMX stack of a suspended script is untouched; a
  finished call, at any depth, leaves stack, frame and reset words as they were; a sleeping script
  can be continued from what is in `AMX`;
* JITHandler: compiled once per load, never entered while not ready, never used
  after deletion, never leaked; the caller cannot tell who ran its public;
* instruction table: the two lookups are inverse where code exists;
* compiler: every opcode does what the interpreter does.

## Modules

| module | contents |
|---|---|
| `AMXRuntime` | the compiled code's run-time helpers and the instructions that move the stacks |
| `AMXRuntime_proofs` | the native stack: NativeStackOK and SuspendedDiscipline for all parameters |
| `AMXStack_proofs` | the AMX stack: types, layout, suspended and sleeping scripts, the host's registers, balance of stack and frame |
| `AMXCalls_proofs` | the refinement of ScriptCalls, for all parameters |
| `ScriptCalls` | calls, returns, natives, errors and sleep, one stack per activation: abstract specification; AMXRuntime implements it |
| `MCRuntime` | TLC instances of AMXRuntime |
| `ExecService` | what `amx_Exec` promises: abstract specification |
| `JITHandler` | registry, handler states, compilation with callbacks, load and unload; implements ExecService |
| `JITHandler_proofs` | its inductive invariant, the order of the callbacks, the refinement |
| `MCHandler` | TLC instances of JITHandler |
| `ScriptFlow` | where a script goes, by the definition of the AMX instructions: abstract specification |
| `Compiler` | the two passes over a script, labels, alignment, the instruction table and its lookups |
| `CompiledFlow` | the code Compiler has made, at work; implements ScriptFlow |
| `CompiledFlow_proofs` | the two passes, the lookups and the refinement of ScriptFlow, for any script |
| `MCCompiler` | programs for Compiler and CompiledFlow |
| `CellWords` | cells in two's complement and memory by bytes |
| `Floats` | floating-point cells and the arithmetic of the x87 unit |
| `AMXInstructions` | what each instruction does to registers and data: abstract specification |
| `Opcodes` | the machine code of each instruction, executed; implements AMXInstructions |
| `MCOpcodes` | instructions, operands and starting states for Opcodes |
| `Opcodes_proofs` | the refinement of AMXInstructions and the types, for any cells and memory |
| `ExecHook` | the hooks on `amx_Exec`, loading the plugin, the opcode table and BROWSE calls |
| `SleepTimers` | the timers of the sleep test plugin |
| `Server` | composes ExecHook and SleepTimers with the server's main loop and scripts |
| `Server_proofs` | the chain of hooks, the tables of opcodes, the timers, for all parameters |
| `MCServer` | TLC instance of Server |
| `DataLemmas` | least and greatest naturals, first and last elements of sequences: lemmas for the proofs |

### AMXRuntime

State: `amx` holds the fields of `struct AMX` the code uses, `rib` the
RuntimeInfoBlock, `cpu` the registers (`ip` is the last function entry or return
site passed), `nstack` the native stack as a pile of frames, `mem` the AMX stack
cell by cell, `running` who has the CPU, `last` what the last Exec gave its caller.
Addresses are counted in cells and are offsets into the data section, so the
subtractions of EBX disappear. A frame is what one activation keeps: an `exec` frame
(saved EBP, ESI and the `var_reset_*` locals), a `helper` frame (EDI and the four
saved labels), a `native` frame (saved AMX ESP and EBP, ALT). A native stack pointer
is a number of frames.

| action | code |
|---|---|
| `PushParam`, `RegisterNatives` | the host's `amx_Push`, `amx_Register` (external) |
| `ExecRefused` | the entry checks and the unknown public |
| `ExecPublic` | Exec, ExecHelper and the PROC of the public |
| `ExecCont` | Exec with AMX_EXEC_CONT, ExecContHelper |
| `ReturnToExec` | call_return and exec_exit of ExecHelper, the rest of Exec |
| `OpConst` ... `OpHalt` | compiled instructions |
| `OpSysreq` | SysreqCHelper and SysreqDHelper up to the call |
| `SysreqCReturn`, `SysreqDReturn`, `NativeError` | the helpers after the call |

The data flow of instructions is left out: PRI and ALT get some value. Undefined
contents are the value `Garbage`: ECX after a C call, locals never written. The
mutated forms (`...Swapped`, `...No...`) stand beside the definitions they replace
and are not used by the specification.

Assumptions about the outside, each a guard: parameters are pushed for a public that
has been found and are followed by its Exec; AMX_EXEC_CONT is used by the caller
whose Exec has just returned SLEEP (`ExecCont`); a native that has run another
public does not raise SLEEP unless `SleepAfterExec`; a script pops only what it has
pushed and stays above the heap (`Room`: compiled code has no stack check).

`ScriptCalls` has nothing of this but activations: where each is, the places its calls
return to, whether it waits for a native, and what sleeps. The refinement mapping reads
the return addresses off the chain of FRM cells, and a sleeping script off the fields of
`amx`. `CallsNest` says that AMXRuntime implements it: one property for every way in
which the two stacks, the labels, the saved registers and amx->cip, frm and stk could
bring a script back to the wrong place.

### JITHandler

State: `script` (what is loaded where; each load has its own number), `jitvar`
(`__JIT`), `handlers` (the registry), `buffers` (live code buffers, by the load they
were made from), `calls` (the stack of activations of `amx_Exec`), `answer` (result of
the last call), `log` (history of each script's compilation). An activation is run by
a handler (it is compiling), by compiled code or by the interpreter; `runs` counts how
often its public has been started.

`Exec` is `amx_Exec_JIT` with GetHandler, the JITHandler constructor and the switch in
`JITHandler::Exec`. `AskScript`, `TakeAnswer`, `CompileScript`, `CompileError`, `Told`
are the steps of INIT: Compile() with its callbacks, which go through `amx_Exec`
again. `Return` ends the running activation, with the rerun in the interpreter when
compiled code returns INIT_JIT. `AmxUnload` is the handler's destruction; the server
does not unload a script that is running, and runs nothing of it afterwards.
What the compiler makes of a script is a property of the script (`compiles`).

`ExecService` is the promise to callers: a call waits or runs at once, while it waits
only callbacks of its own script run, and it runs once. JITHandler implements it, with
the activations as its state, as long as no script ends with error 24 (`Errors` of the runs leave it
out): `amx_Exec_JIT` would take it for its own answer and let the interpreter run the public
again.

### Compiler, CompiledFlow and ScriptFlow

`Compiler` state: the program, the disassembler's address (`cur`), the size of the
code so far, `map` (`instr_map_`), `labels` (`label_map_`, None until bound), `code`
(what has been emitted, by position) and the table of the RIB. `EmitInstrTable` is the
first pass, `CompileInstr` one turn of the loop, `CompilerFinish` the end of `Compile`.
The lookups are operators on the table. Code is counted in units of which an
instruction that emits anything emits one, the table's entries and the helpers too;
what counts is which positions coincide and which do not. Of the instructions those are
told apart that direct control, and three that leave it alone: one that emits nothing,
one that sets PRI, one that is not known; JUMP.PRI and SCTRL 6 share JumpHelper.

Natives: a script has a table of names and of addresses, 0 until the function is
registered (`Register`), which may be before or after compilation. SYSREQ.C names a native
by number; the interpreter may have replaced it by SYSREQ.D and the address (`Patch`). The
compiler takes the code in line if the name is in its table (`Intrinsics`), else the address
if that is known and allowed, else the number (`EmittedSysreq`). `CompiledFlow` calls what
was emitted, `ScriptFlow` always the function of that number, and the two must agree. A
native with the name of an intrinsic is taken to be that function: the compiler looks at
nothing but the name.

`CompiledFlow` runs that code: `eip`, PRI (`eax`), the return addresses on the AMX stack
and `amx->cip`. A call pushes an address of machine code, LCTRL 8 makes one, a sleeping
script turns one into an AMX address and AMX_EXEC_CONT turns that back. Registers and
stack pointers across sleep are AMXRuntime's matter. `ScriptFlow` is the same by the
definitions of the instructions that the comments of `compiler_impl.cpp` quote, on AMX
addresses alone; the refinement mapping finds the AMX address of a code position.

Assumed of scripts (`WellFormed`, `IsScript`): they are what the Pawn compiler makes. Jumps lead to
instructions; a native call or a sleep is not the last thing in a function. Behind such
a call the return address would lie in the padding of the next function and would not be
in the table; the Pawn compiler ends functions with RETN or a jump. Sleep support is on.
SCTRL 8 and pushed return addresses are those that LCTRL 8 has made. The numbers a script
computes with, and those that natives return (`ValuesAssumption`), are below `Base`: this is how
the model tells a number from an address of machine code, which the processor does not.
A script has no SYSREQ.D when it is loaded, a case table has a default, natives are numbered
from 1 and their addresses are not 0, which stands for a native without address.

### Opcodes and AMXInstructions

`Opcodes` executes what the cases of the compiler loop emit, one action for each kind of
instruction. State: `c` holds EAX, ECX, EBP, ESP, `amx->hea`, the memory and where control
goes on; EBX, the address of the data section, is a constant that is not 0, so that a
missing EBX shows, and the code of every address wraps around at the width of a cell. EDX,
ESI, EDI and the flags do not outlive an instruction and are bound within the actions. The
natives that are compiled in line are included.

`AMXInstructions` says the same of PRI, ALT, FRM, STK, HEA and data, by the definitions in
the comments of `compiler_impl.cpp` and by the tests. The refinement mapping subtracts EBX.
The memory between heap and stack is dead, since MOVS, CMPS and FILL save ALT there; what
is left in it is open. A floating-point native is defined as the cell nearest to the exact
result; the machine code rounds twice, in the register of the x87 unit and when it stores.
Cells have three bits of exponent and four of fraction, registers twelve bits, which is
what the argument for rounding twice needs (twice the five bits and two; the processor has
64 for 24) and `FloatsAssumption` states. Which NaN a NaN is is left open. The comments of LREF.S.ALT and STOR.S.PRI name the wrong register
and are read as what their instructions are called.

SDIV rounds its quotient towards zero and gives the remainder the sign of the divisor, so
that where the signs differ the two do not belong to one division; `tests/bug42.pwn` asks
for that remainder and AMXInstructions defines both so. The machine code adds the divisor to
IDIV's remainder and divides once more, so the cells for which that sum overflows are left to
run opcodes_division (`WideDivision`). `SumFits` is that condition and no more: large cells by
small ones (2147483647 / 10 or the least cell by 10; in the run's eight bits 127 / 10 and
-128 / 10) are in run opcodes.

Instructions that differ only in the register in their name or in how they address memory
are one action with a table (`Reg`, `Ptr`). Not included are the instructions that leave a
function or need AMXRuntime's or CompiledFlow's state (CALL, RETN, SYSREQ, LCTRL 6 and 8,
HALT, SWITCH), PROC, and LCTRL 0, 1, 3 and 7, which load a constant of the script.

Assumed of scripts (`Allowed`): shifts are by less than the width of a cell; nothing is
divided by 0, nor the least cell by -1; the blocks of MOVS, CMPS and FILL are apart and are
live data; STK stays above HEA. Everything else of a state is arbitrary.

### ExecHook, SleepTimers and Server

`ExecHook` state: where the entry of `amx_Exec` leads, the trampoline of each plugin that
hooked it, the table that `Load` fetched and the one that `RelocateOpcode` keeps
(`static_table`), the handlers, the scripts, and the calls on their way. A call starts where
the entry leads (`AmxExec`), another plugin passes it on (`PassOn`), `amx_Exec_JIT` answers
it (`HookBrowse`), compiles (`BeginCompile`, `GetOpcodeTable`, `CompileScript`) or hands it to
the code or the trampoline (`Dispatch`). A script is one opcode: `amx_Init` relocates it
with the table it gets, the disassembler must find it again. `LoadJIT` is Load with its
refusal. Handlers have no callbacks here; those are JITHandler's. HooksSeeCalls follows the code
and not `src/README.md:121-124`, which says that plugins that hook `amx_Exec` cannot be used with
this one at all: `Load` (`jit.cpp:132`) refuses only if the hook is there before it, and a plugin
that hooks later sees every call and passes it on.

`SleepTimers` is the vector of timers with the loop of `ProcessTimers` in steps, so that
what a timer runs can add timers. `Server` composes both: the main loop loads plugins and
scripts, calls publics, unloads and ticks; scripts call `schedule_continue` and sleep.

Assumed (each a guard): as in the example in `jit_sleep.cpp`, a script sleeps only in
sleep_callback, after one `schedule_continue` that succeeded; the server calls no public
of a sleeping script (that would overwrite `amx->cip`) and unloads no script that sleeps or
has a timer left (`AmxUnload` of that plugin forgets no timers, and they keep the AMX
pointer). The clock does not wrap. The plugin is built for Linux: on Windows nothing is relocated.

## Runs

| run | module | bounds | shows |
|---|---|---|---|
| runtime_nested | MCRuntime | 9 cells, 2 nested Execs, 1 parameter | all runtime guarantees without sleep |
| runtime_sleep | MCRuntime | 7 cells, one of them heap, 2 nested Execs, no data flow | the guarantees that survive sleep and continue, stack balance; refinement of ScriptCalls |
| runtime_cont_reset | MCRuntime | violation | AMX_EXEC_CONT restores reset words it never saved |
| runtime_halt_stack | MCRuntime | violation | a halt leaves amx->stk deep |
| runtime_sleep_frame | MCRuntime | violation | amx->frm is stale after success with sleep support |
| runtime_sleep_nested | MCRuntime | violation | sleep after a nested Exec keeps the wrong registers |
| runtime_sysreq_result | MCRuntime | violation | the result of SYSREQ.C is read through ECX |
| handler | MCHandler | 2 AMX addresses, 2 loads, 3 calls deep | code buffers, protocol, reentrance; refinement of ExecService; compilation ends |
| compiler | MCCompiler | 1302 programs of up to 11 instructions, 3 natives, 3 return addresses | table, labels, lookups; compiled code goes where the script goes and calls the right natives |
| opcodes | MCOpcodes | 8-bit cells of four bytes, 361 pairs of PRI and ALT, 246 instructions | the machine code of each instruction does what the instruction is defined to do |
| server | MCServer | 2 AMX addresses, 2 loads, 4 timers, one other hook, 4 opcodes of which two share a place | hooks see every call, opcodes are decoded right, timers continue the right sleep, every sleeper wakes |
| opcodes_division | MCOpcodes | violation | the remainder of a signed division of large cells is wrong |

Why the bounds are enough. Runtime: two activations are the least with an inner and an
outer one, which is where all shared words (labels, reset words, ESI) are saved and
restored; nine cells hold the entry frames of both, a called function and a pushed
value; with sleep, seven hold a public that is put to sleep and continued by a native of
another, which six do not; deeper nesting repeats the same pair, and the theorems cover it. Handler: two
addresses let one script unload or call another, two loads let an address be used
again (the theorems cover any number), three calls let a callback's native call a second
script that compiles in turn. Compiler: two free instructions give every pair of neighbours and every jump
forward, backward and to itself; functions are aligned to three units, so that padding is
absent, or one or two long; the fixed part brings the second function, a native that returns
any of the values 0, 1, 3, 5 and a conditional jump back; the tests of the repository add
switches, computed jumps and pushed return addresses. Opcodes: an instruction's effect
depends on the state it starts in and on nothing before, so one instruction per behaviour
is enough; PRI and ALT take the values at which signs, carries, bytes and shifts change, as
addresses they lie in the data, heap, dead memory and stack, and cross the end of memory.
A cell has four bytes, of two bits each, so that bytes have an order and a sign; as
floating-point numbers the values are zeros, subnormal and normal numbers, infinities and
NaNs. Compiler natives: three, one of them in line and with two names, in either order, and
two calls. Server: one other plugin is below the JIT plugin or above it; two scripts of two
addresses sleep at the same time, and four timers let one of them sleep twice while the
other's timer waits; delays of 0 and 1 make timers due at once, on time and late, and a
negative one is refused.

Deadlock is checked in every run: a handler or a script that cannot go on would show.

Fairness. `FairSpec` has weak fairness on the handler's own steps, which are plain
sequential code, and strong fairness on the end of the running script at each depth:
that scripts end is an assumption on scripts. No fairness is assumed of the server there.
In `Server` the plugin's own steps are weakly fair. Strong fairness is assumed of the end of
a script, of `ProcessTick`, which the server calls between everything else it does, and of
the clock. Nothing is assumed of the server's other actions or of what scripts do before
they end; `SleepersWake` would fail without the tick or the clock.

## Proofs

`AMXRuntime_proofs`. The inductive invariant `NativeInv` is NativeStackOK with the
facts that the native stack is a sequence and that `rib` and `cpu` have the pointer
fields. Every step is one of five kinds (`StepKinds`): it enters a script
(two frames pushed), calls a native (one pushed), resumes a script (one popped), leaves
a script (two or three popped) or stays. One lemma per kind shows that the frames keep
their shape; `FramesFit` is what a frame must satisfy given its position, and it is
independent of the frames above it, which makes the argument short.
* `NativeStackDiscipline`: `Spec => []NativeStackOK`. Whatever nests, the labels lead to
  the innermost activation.
* `SuspendedScriptsResume`: `Spec => SuspendedDiscipline`. A script goes on behind its
  call with its stack registers and ALT.

`AMXStack_proofs`. `StackInv` adds to NativeInv the types (`TypeInv`) and where things are
on the AMX stack (`LayoutInv`). Its heart is `LinkOK`: at an FRM cell stand the FRM of an older
function, a return address and a size that does not reach beyond the stack; a running
script, each one that waits for a native, and the one that sleeps has such a cell of its own at
or above its stack pointer, and what one activation may write lies below the stack
pointers of all older ones. The checked StackLayoutOK alone is not inductive: it says nothing
of suspended scripts, on whose frames control falls back. `CutKeeps`
and `FramePushed` say what pops and pushes do to the layout, and there is one lemma per kind of step.
* `TypesKept`, `StackLayoutKept`, `SuspendedStackKept`: TypeOK, StackLayoutOK and
  SuspendedStackIntact, which includes that the three cells ExecHelper pushes unchecked
  stay within the stack.
* `SleepKeepsScript`: SleepCapturesScript, with sleep support.
* `HostRegistersSurvive`: HostRegistersKept, from `HostInv`, which follows the outermost frames.

A public that returns leaves stack and frame as they were: `BaseInv` finds for every script, running, waiting or asleep, the frame of
its public: the one that returns to ExecHelper, with the parameters above it that end where the
reset words say, and between it and the script's own frame none that returns to ExecHelper.
* `StackBalanced`: StackBalance. `FrameBalanced`: FrameRestored, without sleep support.

`AMXCalls_proofs`. The refinement of ScriptCalls rests on StackInv and on the kinds of
steps above. The recursion that reads return addresses off the AMX stack ends, since each FRM
leads to a higher cell (`Downwards`, `SitesExist`); it gives the same above a cell if nothing there
is written (`SitesStay`), which StackInv and SuspendedStackIntact say of every script that waits.
The activations are the frames of the native stack by threes (`Depths`), so a step of each kind of
StepKinds adds, removes or replaces the last activation and keeps the others (`EnterActs`,
`ResumeActs`, `LeaveActs`, `CallActsStep`, `StayActs`). With these, one lemma per instruction and
per helper names the action of ScriptCalls that it is, or shows that nobody sees it.
* `CallsNested`: `Spec => CallsNest`.
* `ResetWordsSurvive`: ResetWordsRestored, without sleep support. It stands here because it counts
  activations, too: the reset words of activation k (`ResetWords`) are in rib while it is the innermost
  and else in the Exec frame above it, at 3k + 1. `ResetWordsStep` follows them through each kind of
  step: Exec moves them from rib into its frame, leaving Exec, by return or halt, moves them
  back, and no other step touches rib's words or that frame.

The theorems about the AMX stack assume that a native which has run another public does not
raise SLEEP after it (`SleepEnabled => ~SleepAfterExec`). That is a hypothesis and not
an assumption of the model: run runtime_sleep_nested takes it away and SleepCapturesScript
fails, since amx->stk and amx->frm are then the other public's, and everything that is
continued with them is lost with it. ResetWordsRestored and FrameRestored need that there is
no sleep support; runs runtime_cont_reset and runtime_sleep_frame show why. StackBalance leaves out one case: the
public that AMX_EXEC_CONT has continued has unknown reset words (`ResetGarbage`), and when it
returns they are what comes out of a nested one.

All hold with any stack size, depth, option and set of scripts. The bounds in guards
(`MaxExecs`, `MaxParams`, `Room`) are parameters of the theorems. `WordAssumption` keeps the
names for return addresses and error codes apart, and address 0 (`Null`) from the places behind a call.

`JITHandler_proofs`. The inductive invariant `HandlerInv` adds to the checked
invariants: load numbers are not shared by two addresses, a handler exists only for a
loaded script and is never seen in the state INIT, it has code exactly if it has
succeeded, and each activation belongs to the script that is loaded now. Without these
neither CodeAlive nor CodeOwned is inductive.
* `HandlerTypes`, `CompiledCodeAlive`, `CompiledCodeOwned`, `OneCompilationAtATime`,
  `JitVariableSet`: `Spec => []` of TypeOK, CodeAlive, CodeOwned, OneCompilation,
  JitVarSet.
* `DecisionsStable`: `Spec => DecisionStable`.
* `ExecTransparent`: `Spec => Transparent`, the refinement of ExecService, assuming that
  no script ends with error 24: `amx_Exec_JIT` takes that error (AMX_ERR_INIT_JIT) for the
  handler's own answer and would run the public again in the interpreter. It rests on `RunsOK`, which
  counts how often the public of an activation has been started, and HandlerInv; one lemma
  per kind of step says what the caller sees of it.

* `CompilationInOrder`: `Spec => []CompileProtocol`. `LogInv` says for each activation what
  the log of its script may be, by the stage it is in, and that a loaded script without handler has an
  empty one.

`Server_proofs`. `Inv` has one part for the hooks and one for the timers. `HookInv`:
the plugins that have hooked `amx_Exec` can be ranked so that the entry leads to the highest, every
trampoline to the next lower one and the last to `amx_Exec` itself (`Chain`), each call has
been seen by exactly the hooks above where it is (`SeenBy`), the JIT plugin's hook is the
lowest, and every script is relocated with the interpreter's table and decoded with its
inverse. `SleepInv`: a timer that has not run belongs to a loaded script, and if it is to continue it,
to one that sleeps or is about to, and it is the one scheduled for this sleep.
* `AllHooksSeeCalls`, `TablesUndoEachOther`, `HandlersForScripts`, `ServerTypes`:
  `Spec => []` of HooksSeeCalls, DecodedRight, HandlersOfScripts, TypeOK.
* `TimersContinueSleepers`: `Spec => ContinuesSleeper`.

They hold for any number of plugins, AMX addresses, scripts, timers and opcodes. They assume that
the other plugins are not called what the model calls the plugin itself, the interpreter
and compiled code (`PluginAssumption`) and that `Null` is none of the values it stands beside (`NullAssumption`).

`CompiledFlow_proofs`. `CompilerInv` follows the second pass: what is decoded is mapped
(`MapOK`) to places that leave no room between instructions but the padding of functions, each
label that has been passed is bound to the place of its instruction (`LabelsOK`), and there is
machine code at exactly the places of the instructions that emit some, each piece a `Translation`
of its instruction, whichever natives were registered or patched by then (`CodeOK`); finished
code has all instructions in its table. The checked properties are not inductive: they say
nothing before the phase "ready". `FlowInv` adds that `eip`, every return address and a PRI at
or above `Base` has code of an instruction behind it (`Spot`), that below all return addresses
lies ExecHelper's, and that a sleeping script stands at a native call or HALT 12 with the
`amx->cip` that was found for it. `JITInstrPtr` and `AMXAddress` say what the two binary searches
return; `Landed` that control which lands in padding, or where instructions emit nothing, runs the
code of the next instruction; `SamePlace` that this is the instruction which ScriptFlow's `From` finds.
* `TypeCorrect`, `TableAlwaysOrdered`, `LabelsAlwaysBound`, `SleepAlwaysReturns`: `Spec => []` of
  TypeOK, TableOrdered, LabelsBound, SleepReturns.
* `Implements`: `Spec => GoesSameWay`. One lemma per instruction shows that its step keeps
  FlowInv and is ScriptFlow's step; compilation, registering and patching are stutters.

They hold for any set of scripts that are as assumed above, any table of intrinsics, alignment,
base address, number of helpers and depth of calls. `CompilerAssumption` asks for at least one
unit of helper code in front of the script, so that no instruction has the position that
`CallReturn` stands for.

`Opcodes_proofs`. There is hardly an invariant here (`Inv`: the state has its types, and what
runs starts where an instruction may): all the work is in the single step. The argument goes by layers.
* Numbers: powers of two, division and remainder, and arithmetic modulo the cell, where an inner
  `Wrap` may be left out (`WrapAdd`, `WrapTimes`); that a signed operand that is added or subtracted by its sign
  is added modulo the cell; the bits and bytes of cells (`Ones`, `Number`, `ByteOf`).
* What a script sees: `View` subtracts EBX. `PeekView` and `PokeView` say that reading and writing
  memory at EBX + a is reading and writing data at a, also where they wrap around, and
  `OperandAddress` that `Ptr` is the address of the operand in every mode.
* One lemma for each instruction: the view of what the machine code leaves is the `Meaning` of the instruction.
  MOVS, CMPS and FILL leave ALT in dead memory, so their result is `Close` to the meaning: equal but for
  what lies between heap and stack, which must not move (`StartRoom`).
* SDIV: `TruncParts` relates IDIV's quotient to division of absolute values, `ModUnique` says
  that a number smaller than the divisor, of its sign and congruent to the dividend is the remainder, and
  `SecondDivision` that dividing remainder + ALT once more gives it, unless that sum overflows.

The theorems are
* `SameComputation`: `Spec => ComputesSame`, assuming that SDIV and SDIV.ALT get no operands with
  which remainder + divisor overflows (`~WideDivision`, `SumFits`) and none of the seven natives that return a floating-point number (comparison
  of floating-point numbers is included). The first is where the code is wrong, as run opcodes_division shows. The second
  is the claim that rounding twice, to a register and then to a cell, is rounding once; the run checks
  it for all its operands, and no proof is attempted.
* `Types`: `Spec => []TypeOK`, without either hypothesis: what these natives leave are cells, too
  (`NearestType`, `SinglesType`).
* `Remainders`: `Spec => RemainderOK` with `~WideDivision`, that is, whenever remainder + divisor
  does not overflow; run opcodes_division refutes it where the sum may overflow.

They hold for any width of bytes, place of the data section, registers and memory. `OpcodesAssumption`
asks that instructions are as the Pawn compiler writes them (`WellFormed`: operands are cells, FILL is
by whole cells, bounds are not negative, shifts by constants are by less than a cell's width) and that an instruction starts with
room for a cell below the stack, where PUSH, FSTP and the saved ALT go.

`DataLemmas` proves the least-element principle for naturals from the finiteness of
intervals; it takes the place of the library's principles of induction, which have an
operator as parameter that the provers here do not accept.

Only model-checked: liveness (CompilationEnds, SleepersWake), which the provers do not do, and
that the seven floating-point natives round as if once (part of ComputesSame). All other properties of the passing
runs are theorems.

## Not modelled

floatlog (in the code, but not in the table of intrinsics), the end of the server process
(`Unload` of the sleep plugin, removal of the hook), Windows builds, the text of
disassembled instructions, logging, thunks (one table lookup each),
platform macros, vendored libraries. EBX, the data section's base, is a constant of an
activation and is left out with the base it adds. The two stacks are separate in the
model; that a C function called by JumpLookup runs on the AMX stack is not modelled.

## Plan

1. AMXRuntime, its runs and first theorems: done.
2. JITHandler and ExecService: done.
3. Compiler, ScriptFlow and CompiledFlow: done.
4. CellWords, AMXInstructions and Opcodes: done.
5. Natives by name, address and number in Compiler: done.
6. ScriptCalls, the refinement of AMXRuntime: done.
7. ExecHook, SleepTimers and Server: done.
8. Floats and the floating-point natives: done.
9. Proofs about both stacks, handlers, hooks and timers: done.
10. Proofs about the compiler and the refinement of ScriptFlow: done.
11. The proof of CallsNest, the refinement of ScriptCalls: done.
12. Proofs about the instructions: done, except for rounding twice.
