------------------------------ MODULE MCServer ------------------------------
(* TLC instance of Server: the interpreter executes the last two opcodes at *)
(* one place, the first is not for scripts.                                  *)
EXTENDS Server

MCPrograms ==
  {[opcode |-> 3, callback |-> TRUE], [opcode |-> 0, callback |-> FALSE]}
MCDelays == {-1, 0, 1}
MCLabel == [opcode \in 0..3 |-> IF opcode < 2 THEN 100 + opcode ELSE 102]
=============================================================================
