-------------------------------- MODULE Isa --------------------------------
(***************************************************************************)
(* The instruction set as one instruction after another: what a program    *)
(* may rely on.  Pipeline is compared with it.  A PC counts instructions;  *)
(* data and instructions have memories of their own.  An interrupted store *)
(* or tlbwi has taken effect and is executed again afterwards, since EPC   *)
(* is the instruction that has just left the ALU (README.md, exceptions).  *)
(***************************************************************************)
EXTENDS Alu

CONSTANTS
    Reg,                \* general registers, 0 among them
    Link,               \* the register that jal writes: $31
    TlbVector, Vector,  \* ebase and ebase + 0x180
    MissingPage         \* addresses whose page is not in the TLB at first

\* Classes of instructions by the way they are decoded.
Alu3 == {"OR", "AND", "XOR", "NOR", "SLLV", "SRLV", "SRAV", "SLT", "SLTU", "ADDU", "SUBU"}
AluI == {"ORI", "ANDI", "XORI", "LUI", "SLTI", "SLTIU", "ADDIU"}
ShiftI == {"SLL", "SRL", "SRA"}
Branch2 == {"BEQ", "BNE"}
Branch1 == {"BGTZ", "BLEZ", "BGEZ", "BLTZ"}
Load == {"LW", "LW unaligned"}      \* the second from an address between two words

\* The operation of the ALU behind an instruction.
Unit(op) ==
    CASE op \in {"OR", "ORI", "LUI"} -> "OR"     [] op \in {"AND", "ANDI"} -> "AND"
      [] op \in {"XOR", "XORI"} -> "XOR"         [] op \in {"SLLV", "SLL"} -> "SLL"
      [] op \in {"SRLV", "SRL"} -> "SRL"         [] op \in {"SRAV", "SRA"} -> "SRA"
      [] op \in {"SLT", "SLTI"} -> "SLT"         [] op \in {"SLTU", "SLTIU"} -> "SLTU"
      [] op \in {"ADDU", "ADDIU"} -> "ADDU"      [] OTHER -> op

Ins(op, rs, rt, rd, imm) == [op |-> op, rs |-> rs, rt |-> rt, rd |-> rd, imm |-> imm]
Nop == Ins("SLL", 0, 0, 0, 0)

\* status is a word: bit 0 is ie, bit 1 is exl.
Exl == 2
InterruptsOn(status) == status % 4 = 1

\* Addresses of which the last is read-only; one may miss in the TLB.
Access(addr, write, tlb) ==
    CASE addr \in MissingPage /\ ~ tlb -> "miss"
      [] addr % 4 = 3 /\ write -> "error"
      [] OTHER -> "ok"

Cp0 == {"entrylo1", "badaddr", "entryhi", "status", "cause", "epc", "watchlo", "watchhi"}
-----------------------------------------------------------------------------
(* The state of the machine: pc, the pc after it, whether pc is in the     *)
(* delay slot of a taken branch, registers, memory and whether the TLB has *)
(* been filled.                                                            *)

Address(s, i) == Wrap(s.reg[i.rs] + SignExtend(i.imm))

\* What the instruction at s.pc does to a register, if it writes one.
Value(s, i) ==
    LET a == s.reg[i.rs]
        b == s.reg[i.rt]
    IN  CASE i.op \in Alu3   -> Result(Unit(i.op), a, b)
          [] i.op \in AluI   -> Result(Unit(i.op), a, Immediate(i.op, i.imm))
          [] i.op \in ShiftI -> Result(Unit(i.op), i.imm, b)
          [] i.op = "MFHI"   -> s.hi
          [] i.op = "MFLO"   -> s.lo
          [] i.op = "MFC0"   -> s.cp[i.rd]
          [] i.op = "LW"     -> s.ram[Address(s, i)]
          [] i.op \in {"JAL", "JALR"} -> Wrap(s.pc + 2)

Target(i) ==
    IF i.op \in Alu3 \cup ShiftI \cup {"MFHI", "MFLO", "JALR"} THEN i.rd
    ELSE IF i.op \in AluI \cup Load \cup {"MFC0"} THEN i.rt
    ELSE IF i.op = "JAL" THEN Link
    ELSE 0

\* A breakpoint is set on the instruction.
Watched(s) == s.pc # 0 /\ s.pc \in {s.cp["watchlo"], s.cp["watchhi"]}

\* The exception that stops the instruction, in the order of their priority.  An
\* interrupt or a breakpoint may stop it before it arrives: an empty instruction
\* carries its PC.
Exception(s, i, interrupt, arrived) ==
    CASE interrupt -> "int"
      [] ~ arrived /\ Watched(s) -> "debug"
      [] Access(s.pc, FALSE, s.tlb) = "miss" -> "tlbl"
      [] i.op = "LW" /\ Access(Address(s, i), FALSE, s.tlb) = "miss" -> "tlbl"
      [] i.op = "SW" /\ Access(Address(s, i), TRUE, s.tlb) = "miss" -> "tlbs"
      [] i.op = "LW unaligned" -> "adel"
      [] i.op = "SW" /\ Access(Address(s, i), TRUE, s.tlb) = "error" -> "ades"
      [] i.op = "INVALID" -> "ri"
      [] Watched(s) -> "debug"
      [] i.op = "SYSCALL" -> "sys"
      [] OTHER -> "none"

Jumps(s, i) ==
    \/ i.op \in {"J", "JAL", "JR", "JALR"}
    \/ i.op \in Branch1 \cup Branch2 /\ Taken(i.op, s.reg[i.rs], s.reg[i.rt])

Destination(s, i) ==
    IF i.op \in {"J", "JAL"} THEN i.imm
    ELSE IF i.op \in {"JR", "JALR"} THEN s.reg[i.rs]
    ELSE Wrap(s.pc + 1 + SignExtend(i.imm))

Stored(s, i) ==
    IF i.op = "SW" THEN [s.ram EXCEPT ![Address(s, i)] = s.reg[i.rt]] ELSE s.ram

Filled(s, i) == s.tlb \/ i.op = "TLBWI"

\* The instruction completes.
Execute(s, i) ==
    LET product == Product(s.reg[i.rs], s.reg[i.rt])
    IN  IF i.op = "ERET"
          THEN [s EXCEPT !.pc = s.cp["epc"], !.npc = Wrap(s.cp["epc"] + 1), !.ds = FALSE,
                         !.cp["status"] = @ - (@ & Exl)]
          ELSE [pc |-> s.npc,
                npc |-> IF Jumps(s, i) THEN Destination(s, i) ELSE Wrap(s.npc + 1),
                ds |-> Jumps(s, i),
                reg |-> IF Target(i) = 0 THEN s.reg ELSE [s.reg EXCEPT ![Target(i)] = Value(s, i)],
                hi |-> CASE i.op = "MULT" -> product.hi [] i.op = "MTHI" -> s.reg[i.rs] [] OTHER -> s.hi,
                lo |-> CASE i.op = "MULT" -> product.lo [] i.op = "MTLO" -> s.reg[i.rs] [] OTHER -> s.lo,
                cp |-> IF i.op = "MTC0" THEN [s.cp EXCEPT ![i.rd] = s.reg[i.rt]] ELSE s.cp,
                ram |-> Stored(s, i),
                tlb |-> Filled(s, i)]

\* The instruction is stopped by an exception and the handler entered.
Enter(s, i, exc, stored) ==
    LET bad == IF Access(s.pc, FALSE, s.tlb) = "miss" THEN s.pc ELSE Address(s, i)
        v == IF exc \in {"tlbl", "tlbs"} THEN TlbVector ELSE Vector
    IN  [s EXCEPT
           !.pc = v, !.npc = Wrap(v + 1), !.ds = FALSE,
           !.cp = [@ EXCEPT !["epc"] = IF s.ds THEN Wrap(s.pc - 1) ELSE s.pc,
                            !["status"] = @ | Exl,
                            !["cause"] = <<s.ds, exc>>,
                            !["badaddr"] = IF exc \in {"tlbl", "tlbs", "adel", "ades"} THEN bad ELSE @],
           !.ram = IF stored THEN Stored(s, i) ELSE @,
           !.tlb = IF stored THEN Filled(s, i) ELSE @]

\* One step of the machine; arrived tells whether the instruction had reached the
\* memory stage when it was stopped.
Step(s, i, interrupt, arrived) ==
    LET exc == Exception(s, i, interrupt, arrived)
    IN  IF exc = "none" THEN Execute(s, i)
        ELSE Enter(s, i, exc, arrived /\ Exception(s, i, FALSE, TRUE) \in {"none", "debug", "sys"})
=============================================================================
