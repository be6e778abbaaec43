---------------------------- MODULE MCPipeline ----------------------------
(***************************************************************************)
(* Programs of a few instructions at address 0, followed by a loop, with a *)
(* TLB handler that fills the TLB and a handler that skips the instruction *)
(* or returns to it.                                                       *)
(***************************************************************************)
EXTENDS Pipeline

CONSTANT Skip      \* the kind of handler

MCReg == 0..3
MCInitialReg == [r \in MCReg |-> r * r]     \* 0, 1, 4, 9
MCInitialRam == [a \in Word |-> 15 - a]

Loop == << Ins("BEQ", 0, 0, 0, 3), Nop >>
TlbHandler == << Ins("TLBWI", 0, 0, 0, 0), Ins("ERET", 0, 0, 0, 0) >>
Handler ==
    IF Skip
      THEN << Ins("MFC0", 0, 3, "epc", 0), Ins("ADDIU", 3, 3, 0, 1),
              Ins("MTC0", 0, 3, "epc", 0), Ins("ERET", 0, 0, 0, 0) >>
      ELSE << Ins("ERET", 0, 0, 0, 0) >>

Place(code, at, a) == IF a - at + 1 \in DOMAIN code THEN code[a - at + 1] ELSE Nop

\* The programs of n of these instructions.
With(n, instructions) ==
    { [a \in Word |->
         CASE a < n -> p[a]
           [] a \in TlbVector..(TlbVector + 1) -> Place(TlbHandler, TlbVector, a)
           [] a >= Vector -> Place(Handler, Vector, a)
           [] OTHER -> Place(Loop, n, a)]
      : p \in [0..(n - 1) -> instructions] }

\* Dependences through registers, hi, lo and memory, over up to three instructions.
Data ==
    With(4, { Ins("ADDU", 1, 2, 1, 0), Ins("LW", 2, 1, 0, 1), Ins("SW", 2, 1, 0, 3) })
    \cup With(3, { Ins("SLL", 0, 1, 2, 1), Ins("LW", 1, 2, 0, 0), Ins("MULT", 1, 2, 0, 0),
                   Ins("MFHI", 0, 0, 1, 0), Ins("MFLO", 0, 0, 2, 0), Ins("MTHI", 1, 0, 0, 0) })

\* Jumps, exceptions and the instructions around them.
Control ==
    With(3, { Ins("BNE", 1, 2, 0, 1), Ins("JR", 1, 0, 0, 0), Ins("JAL", 0, 0, 0, 3),
              Ins("ADDIU", 1, 1, 0, 1), Ins("LW", 1, 2, 0, 0), Ins("SW", 2, 1, 0, 0),
              Ins("SYSCALL", 0, 0, 0, 0) })
    \cup With(3, { Ins("LW unaligned", 2, 1, 0, 0), Ins("MTC0", 0, 1, "watchhi", 0),
                   Ins("BNE", 1, 2, 0, 1), Ins("ADDIU", 1, 1, 0, 1) })

\* CP0 and what it changes.
System ==
    With(3, { Ins("MTC0", 0, 1, "status", 0), Ins("MFC0", 0, 2, "epc", 0),
              Ins("MTC0", 0, 2, "epc", 0), Ins("MTC0", 0, 1, "watchlo", 0),
              Ins("SYSCALL", 0, 0, 0, 0), Ins("INVALID", 0, 0, 0, 0), Ins("ERET", 0, 0, 0, 0) })

\* Writes to register 0 and reads of entrylo1, up to three instructions later.
Otherwise ==
    With(3, { Ins("ADDIU", 1, 0, 0, 1), Ins("ADDU", 0, 2, 1, 0), Ins("SW", 0, 1, 0, 1),
              Ins("BNE", 0, 1, 0, 1) })
    \cup With(4, { Ins("MTC0", 0, 2, "entrylo1", 0), Ins("MFC0", 0, 1, "entrylo1", 0),
                   Ins("ADDU", 1, 2, 1, 0) })

All == Data \cup Control \cup System \cup Otherwise
=============================================================================
