------------------------------ MODULE Pipeline ------------------------------
(***************************************************************************)
(* The five stages of the CPU (PCRegister, if_id, id, id_ex, ex, ex_mem,   *)
(* mem, mem_wb, regfile, hilo_reg, cp and control) beside the machine of   *)
(* Isa.  One step is one clock at which ready is high; a clock at which    *)
(* ready is low changes only the interrupt latches.  The field "real" of a *)
(* stage is a history: FALSE for the empty instructions put in by a pause  *)
(* or a flush.                                                             *)
(***************************************************************************)
EXTENDS Isa

CONSTANTS
    Programs,       \* the programs that are run, functions from PC to instructions
    InitialReg, InitialRam,
    MaxIrq          \* interrupts per run

VARIABLES
    prog,       \* the instruction memory
    pc,         \* PCRegister: PC, fix, miss
    ifid, idex, exmem, memwb,
    ctl,        \* control: IsLoadStore, isFlush, LastResult
    result,     \* ReadResult: the answer of the bus, an instruction or a word
    gpr, hi, lo, cp, ram, tlb,
    isa,        \* the machine of Isa, until an instruction reads otherwise
    departed,   \* history: an instruction has read otherwise (ReadsOtherwise)
    irqs        \* interrupts taken

vars == <<prog, pc, ifid, idex, exmem, memwb, ctl, result, gpr, hi, lo, cp, ram, tlb, isa,
          departed, irqs>>

Bubble(at, ds) ==
    [pc |-> at, ins |-> Nop, r1 |-> 0, r2 |-> 0, wr |-> FALSE, wa |-> 0,
     ds |-> ds, miss |-> FALSE, real |-> FALSE, otherwise |-> FALSE]

\* What the bus answers with: of the two memories one is read.
Fetched(ins) == [ins |-> ins, word |-> 0]
Loaded(word) == [ins |-> Nop, word |-> word]

\* What ex_mem holds after a flush.
MemBubble(at) ==
    [pc |-> at, ins |-> Nop, wr |-> FALSE, wa |-> 0, data |-> 0, hi |-> 0, lo |-> 0,
     missr |-> FALSE, missw |-> FALSE, rerr |-> FALSE, werr |-> FALSE, bad |-> 0, ds |-> FALSE, real |-> FALSE]

WbBubble ==
    [ins |-> Nop, wr |-> FALSE, wa |-> 0, data |-> 0, hi |-> 0, lo |-> 0,
     exc |-> "none", epc |-> 0, bd |-> FALSE, status |-> 0, bad |-> 0]

\* What an eret to address 0 leaves behind it: the pipeline is empty, the
\* registers hold what the handler put there.
Init ==
    /\ prog \in Programs
    /\ pc = [PC |-> 0, fix |-> TRUE, miss |-> FALSE, real |-> FALSE]
    /\ ifid = [pc |-> 0, ins |-> Nop, miss |-> FALSE, ds |-> FALSE, real |-> FALSE]
    /\ idex = Bubble(0, FALSE) /\ exmem = MemBubble(0)
    /\ memwb = [WbBubble EXCEPT !.exc = "eret", !.status = 1]
    /\ ctl = [IsLoadStore |-> FALSE, isFlush |-> TRUE, LastResult |-> Fetched(Nop)]
    /\ result = Fetched(Nop)
    /\ gpr = InitialReg /\ hi = 0 /\ lo = 0
    /\ cp = [r \in Cp0 |-> IF r = "status" THEN 1 + Exl ELSE 0]
    /\ ram = InitialRam /\ tlb \in BOOLEAN
    /\ isa = [pc |-> 0, npc |-> 1, ds |-> FALSE, reg |-> gpr, hi |-> 0, lo |-> 0,
              cp |-> [cp EXCEPT !["status"] = 1], ram |-> ram, tlb |-> tlb]
    /\ departed = FALSE /\ irqs = 0
-----------------------------------------------------------------------------
(* The memory stage and control.                                           *)

LoadResult == IF ctl.IsLoadStore THEN result.word ELSE 0

\* WriteDataOut of mem.v.
MemData == IF exmem.ins.op = "LW" THEN LoadResult ELSE exmem.data

\* CP0 as read past the write-back stage.
Cp0WithWrites(wb) ==
    LET taken == wb.exc \notin {"none", "eret"}
        entered == [r \in Cp0 |->
            CASE wb.exc # "none" /\ r = "status" -> wb.status
              [] taken /\ r = "epc" -> wb.epc
              [] taken /\ r = "cause" -> <<wb.bd, wb.exc>>
              [] wb.exc \in {"tlbl", "tlbs", "adel", "ades"} /\ r = "badaddr" -> wb.bad
              [] OTHER -> cp[r]]
    IN  IF wb.ins.op = "MTC0" THEN [entered EXCEPT ![wb.ins.rd] = wb.data] ELSE entered

cp0 == Cp0WithWrites(memwb)

\* The chain of conditions of control.v, in its order, in kernel mode: bit 4 of
\* status is clear.
Priority(irq) ==
    CASE irq /\ InterruptsOn(cp0["status"]) -> "int"
      [] exmem.missr -> "tlbl"
      [] exmem.missw -> "tlbs"
      [] exmem.rerr -> "adel"
      [] exmem.werr -> "ades"
      [] exmem.ins.op = "INVALID" -> "ri"
      [] exmem.pc # 0 /\ exmem.pc \in {cp0["watchlo"], cp0["watchhi"]} -> "debug"
      [] exmem.ins.op = "SYSCALL" -> "sys"
      [] exmem.ins.op = "ERET" -> "eret"
      [] OTHER -> "none"

targetAddress(exc) ==
    CASE exc \in {"tlbl", "tlbs"} -> TlbVector
      [] exc = "eret" -> cp0["epc"]
      [] OTHER -> Vector

EpcData == IF exmem.ds THEN Wrap(exmem.pc - 1) ELSE exmem.pc

StatusData(exc) ==
    IF exc = "eret" THEN cp0["status"] - (cp0["status"] & Exl) ELSE cp0["status"] | Exl
-----------------------------------------------------------------------------
(* The execution stage.                                                    *)

e == idex.ins
RAMReadEnable == e.op \in Load
RAMWriteEnable == e.op = "SW"
MemoryAddress == Wrap(idex.r1 + SignExtend(e.imm))

ExData ==
    CASE e.op \in Alu3 \cup AluI \cup ShiftI -> Result(Unit(e.op), idex.r1, idex.r2)
      [] e.op \in {"MFHI", "MFLO", "MFC0", "MTC0"} -> idex.r1
      [] e.op \in {"JAL", "JALR"} -> Wrap(idex.pc + 2)
      [] OTHER -> 0

WritesHi(i) == i.op \in {"MULT", "MTHI"}
WritesLo(i) == i.op \in {"MULT", "MTLO"}
ExHi == IF e.op = "MULT" THEN Product(idex.r1, idex.r2).hi ELSE idex.r1
ExLo == IF e.op = "MULT" THEN Product(idex.r1, idex.r2).lo ELSE idex.r1
-----------------------------------------------------------------------------
(* The decode stage.                                                       *)

d == ifid.ins

RegisterReadEnable1 ==
    d.op \in Alu3 \cup AluI \cup Branch1 \cup Branch2
              \cup {"MTHI", "MTLO", "MULT", "JR", "JALR", "SW", "MTC0"} \cup Load
RegisterReadEnable2 == d.op \in Alu3 \cup ShiftI \cup Branch2 \cup {"MULT", "SW"}
RegisterAddress1 == IF d.op = "MTC0" THEN d.rt ELSE d.rs
RegisterAddress2 == d.rt

WriteRegister(i) ==
    i.op \in Alu3 \cup AluI \cup ShiftI \cup Load \cup {"MFHI", "MFLO", "MFC0", "JAL", "JALR"}
WriteAddress(i) ==
    CASE i.op \in AluI \cup Load \cup {"MFC0"} -> i.rt
      [] i.op = "JAL" -> Link
      [] OTHER -> i.rd

\* immediate: extended for the ALU, the shift amount as it is.
DecodedImmediate ==
    IF d.op \in AluI THEN Immediate(d.op, d.imm) ELSE IF d.op \in ShiftI THEN d.imm ELSE 0

\* regfile.v with its bypass from the write-back stage.
RegisterData(r) ==
    IF r = 0 THEN 0
    ELSE IF memwb.wr /\ memwb.wa = r THEN memwb.data
    ELSE gpr[r]

\* The value of a register, the newest of those on their way first.
Forward(r) ==
    IF idex.wr /\ idex.wa = r THEN ExData
    ELSE IF exmem.wr /\ exmem.wa = r THEN MemData
    ELSE RegisterData(r)

\* What mfc0 reads: register 3 answers with entryhi.
CPData(r) == IF r = "entrylo1" THEN cp0["entryhi"] ELSE cp0[r]

\* The value on its way to a register of CP0, or else the given one.
NewestCp(r, value) ==
    IF e.op = "MTC0" /\ e.rd = r THEN idex.r1
    ELSE IF exmem.ins.op = "MTC0" /\ exmem.ins.rd = r THEN exmem.data
    ELSE value

ForwardCp(r) == NewestCp(r, CPData(r))

ForwardHi ==
    IF WritesHi(e) THEN ExHi
    ELSE IF WritesHi(exmem.ins) THEN exmem.hi
    ELSE IF WritesHi(memwb.ins) THEN memwb.hi ELSE hi

ForwardLo ==
    IF WritesLo(e) THEN ExLo
    ELSE IF WritesLo(exmem.ins) THEN exmem.lo
    ELSE IF WritesLo(memwb.ins) THEN memwb.lo ELSE lo

Register1 ==
    CASE d.op = "MFC0" -> ForwardCp(d.rd)
      [] d.op = "MFHI" -> ForwardHi
      [] d.op = "MFLO" -> ForwardLo
      [] RegisterReadEnable1 -> Forward(RegisterAddress1)
      [] OTHER -> DecodedImmediate

Register2 == IF RegisterReadEnable2 THEN Forward(RegisterAddress2) ELSE DecodedImmediate

\* History: the instruction is given something else than src/README.md says, a
\* value that is on its way to $0 (line 45: always 0) or that of entryhi for
\* entrylo1 (line 104: every register of CP0 can be read).
ReadsOtherwise ==
    /\ ifid.real /\ d # Nop
    /\ \/ RegisterReadEnable1 /\ RegisterAddress1 = 0 /\ Forward(0) # 0
       \/ RegisterReadEnable2 /\ RegisterAddress2 = 0 /\ Forward(0) # 0
       \/ d.op = "MFC0" /\ ForwardCp(d.rd) # NewestCp(d.rd, cp0[d.rd])

BranchFlag ==
    \/ d.op \in {"J", "JAL", "JR", "JALR"}
    \/ d.op \in Branch1 \cup Branch2 /\ Taken(d.op, Register1, Register2)

BranchTarget ==
    CASE d.op \in {"J", "JAL"} -> d.imm
      [] d.op \in {"JR", "JALR"} -> Register1
      [] OTHER -> Wrap(ifid.pc + 1 + SignExtend(d.imm))

\* Mutant: the empty instruction of a pause, whose target is register 0, makes
\* an instruction that reads register 0 pause again.
PauseRequest_Zero ==
    /\ RAMReadEnable \/ RAMWriteEnable \/ idex.wa = 0
    /\ \/ RegisterReadEnable1 /\ idex.wa = RegisterAddress1
       \/ RegisterReadEnable2 /\ idex.wa = RegisterAddress2

PauseRequest ==
    /\ RAMReadEnable \/ RAMWriteEnable      \* IsLoad
    /\ \/ RegisterReadEnable1 /\ idex.wa = RegisterAddress1
       \/ RegisterReadEnable2 /\ idex.wa = RegisterAddress2

PauseSignal == RAMReadEnable \/ RAMWriteEnable \/ PauseRequest
-----------------------------------------------------------------------------
(* Fetch and the bus.                                                      *)

\* Mutant: the address after a flush is not fetched again.
PCPlus4_NoFix == Wrap(pc.PC + 1)

PCPlus4 == IF pc.fix THEN pc.PC ELSE Wrap(pc.PC + 1)

TLBVirtualAddress ==
    IF RAMReadEnable \/ RAMWriteEnable THEN MemoryAddress
    ELSE IF BranchFlag THEN BranchTarget
    ELSE PCPlus4

Answer == Access(TLBVirtualAddress, RAMWriteEnable, tlb)

InstructionResult ==
    IF ctl.IsLoadStore THEN ctl.LastResult.ins ELSE IF ctl.isFlush THEN Nop ELSE result.ins

\* The word the bus will answer with; what an address without translation or
\* the physical address put on the bus during a flush yields is not used.
BusAnswer(flush) ==
    CASE flush \/ Answer # "ok" \/ RAMWriteEnable -> Fetched(Nop)
      [] RAMReadEnable -> Loaded(ram[MemoryAddress])
      [] OTHER -> Fetched(prog[TLBVirtualAddress])

\* Mutant: a store leaves the execution stage although the pipeline is flushed.
RamAfter_Flush(flush) ==
    IF RAMWriteEnable /\ Answer = "ok"
      THEN [ram EXCEPT ![MemoryAddress] = idex.r2] ELSE ram

RamAfter(flush) ==
    IF RAMWriteEnable /\ Answer = "ok" /\ ~ flush
      THEN [ram EXCEPT ![MemoryAddress] = idex.r2] ELSE ram
-----------------------------------------------------------------------------
(* The clock edge of each register.                                        *)

PCClock(flush, target) ==
    pc' = IF flush THEN [PC |-> target, fix |-> TRUE, miss |-> FALSE, real |-> FALSE]
          ELSE IF PauseSignal THEN [pc EXCEPT !.fix = FALSE]
          ELSE [PC |-> IF BranchFlag THEN BranchTarget ELSE PCPlus4,
                fix |-> FALSE, miss |-> Answer = "miss", real |-> TRUE]

IfIdClock(flush, target) ==
    ifid' = IF flush THEN [pc |-> target, ins |-> Nop, miss |-> FALSE, ds |-> FALSE, real |-> FALSE]
            ELSE IF PauseSignal THEN ifid
            ELSE [pc |-> pc.PC, ins |-> InstructionResult, miss |-> pc.miss,
                  ds |-> BranchFlag, real |-> pc.real]

IdExClock(flush, target) ==
    idex' = IF flush THEN Bubble(target, FALSE)
            ELSE IF PauseSignal THEN Bubble(ifid.pc, ifid.ds)
            ELSE [pc |-> ifid.pc, ins |-> d, r1 |-> Register1, r2 |-> Register2,
                  wr |-> WriteRegister(d), wa |-> WriteAddress(d),
                  ds |-> ifid.ds, miss |-> ifid.miss, real |-> ifid.real,
                  otherwise |-> ReadsOtherwise]

ExMemClock(flush, target) ==
    exmem' = IF flush THEN MemBubble(target)
             ELSE [pc |-> idex.pc, ins |-> e, wr |-> idex.wr, wa |-> idex.wa,
                   data |-> ExData, hi |-> ExHi, lo |-> ExLo,
                   missr |-> idex.miss \/ (e.op = "LW" /\ Answer = "miss"),
                   missw |-> RAMWriteEnable /\ Answer = "miss",
                   rerr |-> e.op = "LW unaligned",
                   werr |-> RAMWriteEnable /\ Answer = "error",
                   bad |-> IF idex.miss THEN idex.pc ELSE MemoryAddress,
                   ds |-> idex.ds, real |-> idex.real]

MemWbClock(exc) ==
    memwb' = [(IF exc # "none" THEN WbBubble
               ELSE [WbBubble EXCEPT !.ins = exmem.ins, !.wr = exmem.wr, !.wa = exmem.wa,
                                     !.data = MemData, !.hi = exmem.hi, !.lo = exmem.lo])
              EXCEPT !.exc = exc, !.epc = EpcData, !.bd = exmem.ds,
                     !.status = StatusData(exc), !.bad = exmem.bad]

WriteBack ==
    /\ gpr' = IF memwb.wr /\ memwb.wa # 0 THEN [gpr EXCEPT ![memwb.wa] = memwb.data] ELSE gpr
    /\ hi' = IF WritesHi(memwb.ins) THEN memwb.hi ELSE hi
    /\ lo' = IF WritesLo(memwb.ins) THEN memwb.lo ELSE lo
    /\ cp' = cp0

ControlClock(flush) ==
    ctl' = [IsLoadStore |-> ~ flush /\ (RAMReadEnable \/ RAMWriteEnable),
            isFlush |-> flush, LastResult |-> result]

Clock(irq) ==
    LET exc == Priority(irq)
        flush == exc # "none"
        target == targetAddress(exc)
    IN  /\ PCClock(flush, target) /\ IfIdClock(flush, target) /\ IdExClock(flush, target)
        /\ ExMemClock(flush, target) /\ MemWbClock(exc) /\ WriteBack
        /\ ControlClock(flush)
        /\ result' = BusAnswer(flush)
        /\ ram' = RamAfter(flush)
        /\ tlb' = (tlb \/ exmem.ins.op = "TLBWI")
        /\ departed' = (departed \/ (idex.otherwise /\ ~ flush))
        /\ isa' = IF (exmem.real \/ flush) /\ ~ departed
                    THEN Step(isa, prog[isa.pc], irq /\ InterruptsOn(isa.cp["status"]), exmem.real)
                    ELSE isa
        /\ irqs' = IF irq THEN irqs + 1 ELSE irqs
        /\ UNCHANGED prog

Next ==
    \/ Clock(FALSE)
    \/ irqs < MaxIrq /\ InterruptsOn(cp0["status"]) /\ Clock(TRUE)

Spec == Init /\ [][Next]_vars /\ WF_vars(Next)
-----------------------------------------------------------------------------
\* The instruction in the memory stage is the one the program has to execute
\* next, with the right claim to be in a delay slot: branches, pauses, flushes
\* and returns neither skip, repeat nor reorder instructions, and even an empty
\* instruction carries the PC with which an interrupt taken on it returns.  This
\* holds as long as no instruction has read otherwise than the document says.
InOrder == departed \/ (exmem.pc = isa.pc /\ exmem.ds = isa.ds)

\* Registers, hi and lo hold what the instructions executed so far leave there,
\* as read with the write that is on its way.
RegistersAgree ==
    /\ \A r \in Reg : RegisterData(r) = isa.reg[r]
    /\ (IF WritesHi(memwb.ins) THEN memwb.hi ELSE hi) = isa.hi
    /\ (IF WritesLo(memwb.ins) THEN memwb.lo ELSE lo) = isa.lo

\* EPC, status, cause and the bad address are those of the exception taken at
\* that instruction, and mtc0 is seen by what follows it.
Cp0Agrees == cp0 = isa.cp

\* Memory holds the stores of the instructions executed so far and of the one
\* in the memory stage: none that follows an exception reaches the bus.
MemoryAgrees ==
    ram = IF exmem.real /\ exmem.ins.op = "SW" /\ ~ exmem.missr /\ ~ exmem.missw /\ ~ exmem.werr
            THEN Stored(isa, exmem.ins) ELSE isa.ram

\* After each clock the registers, CP0 and the memory are those of the machine
\* that executes one instruction after the other, up to the first instruction
\* that is given a value on its way to $0, or entryhi for entrylo1: these two are
\* the only reads of the pipeline that depart from that machine.
StateAgrees == departed \/ (RegistersAgree /\ Cp0Agrees /\ MemoryAgrees)

\* The CPU never stops executing instructions.
Progress == []<> exmem.real
=============================================================================
