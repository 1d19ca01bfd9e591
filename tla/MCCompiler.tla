---------------------------- MODULE MCCompiler ------------------------------
EXTENDS CompiledFlow, SequencesExt

I(op) == [op |-> op, arg |-> 0]
A(op, arg) == [op |-> op, arg |-> arg]

\* A program from the sequence of its instructions.
Start(is, k) == FoldLeft(LAMBDA n, i : n + Cells(i), 0, SubSeq(is, 1, k - 1))
Assembled(is, natives) ==
  LET starts == [k \in 1..Len(is) |-> Start(is, k)]
      at == {starts[k] : k \in 1..Len(is)}
      code_ == [a \in at |-> is[CHOOSE k \in 1..Len(is) : starts[k] = a]]
  IN [code |-> code_, size |-> Start(is, Len(is) + 1),
      publics |-> {a \in at : code_[a].op = "proc"}, natives |-> natives]

\* Native functions by name and address; max is compiled in line.
N(name, address) == [name |-> name, address |-> address]
MCIntrinsics == [max |-> 20]
MCValues == [address \in {10, 20, 30} |->
               CASE address = 10 -> {0, 1, 3, 5} [] address = 20 -> {6} [] OTHER -> {7}]
PrintOnly == <<N("print", 10)>>

\* Any two instructions in a function, with another function behind it that
\* calls a native and moves its result about.  As in every script, the first
\* instruction is HALT 0.
Small ==
  {I("nop"), A("const", 0), A("const", 5), I("retn"), I("jump.pri"), I("lctrl6"),
   I("lctrl8"), I("sctrl6"), A("sysreq.c", 1), A("halt", "EXIT"), A("halt", "SLEEP"),
   I("jrel"), I("data")}
  \cup {A(op, t) : op \in {"jump", "jzer", "call"}, t \in 0..14}

MCSmall ==
  {p \in {Assembled(<<A("halt", "EXIT"), I("proc"), x, y, I("retn"), I("proc"),
                      A("sysreq.c", 1), I("nop"), A("jzer", 2), I("retn")>>, PrintOnly) : x, y \in Small} :
     WellFormed(p)}

\* tests/switch.pwn, indirect_jump.pwn and lctrl8.pwn, shortened.
MCTests ==
  {Assembled(<<A("halt", "EXIT")>> \o is, PrintOnly) : is \in
     {<<I("proc"), A("sysreq.c", 1), A("switch", 9), I("retn"), I("nop"),
        A("casetbl", <<<<0, 16>>, <<1, 18>>, <<3, 20>>>>),
        A("const", 0), A("const", 1), A("sysreq.c", 1), I("retn")>>,
      <<I("proc"), A("sysreq.c", 1), A("switch", 7),
        A("casetbl", <<<<0, 10>>>>), I("retn")>>,
      <<I("proc"), A("sysreq.c", 1), A("switch", 7),
        A("casetbl", <<<<0, 18>>, <<3, 16>>, <<1, 14>>>>),
        A("const", 1), A("const", 0), I("retn")>>,
      <<I("proc"), A("const", 12), I("lctrl8"), I("push.pri"), A("const", 14),
        I("sctrl6"), I("retn"), I("nop"), I("proc"), I("nop"), A("sysreq.c", 1), I("retn")>>,
      <<I("proc"), A("const", 14), I("lctrl8"), I("push.pri"), A("const", 15),
        I("lctrl8"), I("sctrl8"), I("retn"), I("proc"), A("sysreq.c", 1),
        I("nop"), I("retn")>>}}

\* Two calls of natives, of which max has two names.
Calls == {A("sysreq.c", n) : n \in 1..4} \cup {I("sysreq.pri"), A("const", 2)}
MCNatives ==
  {p \in {Assembled(<<A("halt", "EXIT"), I("proc"), x, y, I("retn")>>, natives) :
            x, y \in Calls,
            natives \in {<<N("max", 20), N("largest", 20), N("kick", 30)>>,
                         <<N("largest", 20), N("max", 20), N("kick", 30)>>}} :
     WellFormed(p)}

MCPrograms == MCSmall \cup MCTests \cup MCNatives
=============================================================================
