------------------------------ MODULE MCOpcodes -----------------------------
EXTENDS Opcodes

I(op) == {[op |-> op, r |-> "", m |-> "", n |-> 0]}
R(op) == {[op |-> op, r |-> r, m |-> "", n |-> 0] : r \in {"pri", "alt"}}
N(op, ns) == {[op |-> op, r |-> "", m |-> "", n |-> n] : n \in ns}
RN(op, ns) == {[op |-> op, r |-> r, m |-> "", n |-> n] : r \in {"pri", "alt"}, n \in ns}
M(op, rs, ms, ns) == {[op |-> op, r |-> r, m |-> m, n |-> n] : r \in rs, m \in ms, n \in ns}
Both == {"pri", "alt"}
Any == {""}

Relations == DOMAIN Codes
Addresses == {12, 20, 254}
Numbers == {0, 1, 5, 127, 128, 250, 255}

MCInstructions ==
  M("LOAD", Both, {"DATA", "S", "REF", "REF.S"}, Addresses) \cup M("LOAD", {"pri"}, {"I"}, {0})
  \cup M("STOR", Both, {"DATA", "S", "REF", "REF.S"}, Addresses) \cup I("STOR.I")
  \cup N("LODB.I", {1, 2, 4}) \cup N("STRB.I", {1, 2, 4}) \cup RN("CONST", {0, 7}) \cup RN("ADDR", {4, 252})
  \cup I("LIDX") \cup N("LIDX.B", 0..3) \cup I("IDXADDR") \cup N("IDXADDR.B", 0..3) \cup RN("ALIGN", 1..5)
  \cup N("LCTRL", {2, 4, 5}) \cup N("SCTRL", {2, 4, 5}) \cup R("MOVE") \cup I("XCHG")
  \cup R("PUSH.R") \cup N("PUSH.C", {9}) \cup M("PUSH", Any, {"DATA", "S"}, Addresses)
  \cup N("PUSH.ADR", {4, 252}) \cup R("POP") \cup R("SWAP") \cup N("STACK", {4, 248}) \cup N("HEAP", {4, 252})
  \cup M("ZERO", Any, {"DATA", "S"}, Addresses) \cup M("INC", Any, {"DATA", "S", "I"}, Addresses)
  \cup M("DEC", Any, {"DATA", "S", "I"}, Addresses) \cup N("ADD.C", Numbers) \cup N("SMUL.C", Numbers)
  \cup I("SHL") \cup I("SHR") \cup I("SSHR") \cup RN("SHL.C", {1, 7}) \cup RN("SHR.C", {1, 7})
  \cup I("SMUL") \cup I("UMUL") \cup I("SDIV") \cup I("SDIV.ALT") \cup I("UDIV") \cup I("UDIV.ALT")
  \cup I("ADD") \cup I("SUB") \cup I("SUB.ALT") \cup I("AND") \cup I("OR") \cup I("XOR") \cup I("NOT")
  \cup I("NEG") \cup I("INVERT") \cup R("SIGN") \cup R("ZERO.R") \cup R("INC.R") \cup R("DEC.R")
  \cup UNION {I(rel) : rel \in Relations} \cup RN("EQ.C", Numbers) \cup M("J", Any, Relations, {0})
  \cup I("JZER") \cup I("JNZ") \cup N("BOUNDS", {0, 5, 127}) \cup N("MOVS", {1, 4, 6, 7})
  \cup N("CMPS", {1, 4, 7}) \cup N("FILL", {4, 8}) \cup I("clamp") \cup I("heapspace") \cup I("numargs")
  \cup I("min") \cup I("max") \cup I("swapchars")
  \cup UNION {I(op) : op \in {"float", "floatabs", "floatadd", "floatsub", "floatmul", "floatdiv",
                             "floatsqroot", "floatcmp"}}

\* Heap up to 40, stack from 180 on.  PRI and ALT are also parameters; as
\* floating-point numbers, of three bits of exponent and four of fraction, they
\* are zeros, subnormal and normal numbers, infinities and NaNs.
Registers == {0, 1, 3, 7, 10, 20, 28, 64, 100, 112, 127, 128, 129, 200, 216, 240, 246, 254, 255}
Pattern == [a \in Cell |-> (a * 7 + a \div 5) % 2^ByteBits]
MCStarts ==
  {[eax |-> a, ecx |-> b, ebp |-> Wrap(Ebx + 204), esp |-> Wrap(Ebx + 180), hea |-> 40, out |-> "next",
    ram |-> Poke(Poke(Poke(Pattern, Wrap(Ebx + 184), 4, a), Wrap(Ebx + 188), 4, b), Wrap(Ebx + 192), 4, 127)] :
     a \in Registers, b \in Registers}
=============================================================================
