-------------------------------- MODULE Bus --------------------------------
(***************************************************************************)
(* bus.v with the controllers behind it: sram.v, flash.v, rom.v, the bus   *)
(* side of vga.v and of serial_port.v.  One step is one clock.  A request  *)
(* is accepted at a clock at which ready is high and answered in the       *)
(* following ones, while the next request is already on the bus.  A word   *)
(* is a function from byte lanes to bytes; the chips are external.         *)
(***************************************************************************)
EXTENDS Integers

CONSTANTS
    Byte,           \* bytes that are written to the RAM
    InitialWord,    \* contents of the RAM at the start
    RamAddresses, DeviceAddresses, \* addresses that are used
    ByteLanes       \* the lanes that byte accesses of a run may use

Lane == 0..3

\* What the address decoder gives to the RAM; the addresses of the devices are
\* elsewhere.
RamRange == {a \in Nat : a <= \h003FFFFF}

Word == [Lane -> Byte \cup {0}]

ASSUME BusAssumption ==
    /\ InitialWord \in Word
    /\ RamAddresses \subseteq RamRange
    /\ DeviceAddresses \subseteq Nat \ RamRange
    /\ ByteLanes \subseteq Lane

VARIABLES
    req,        \* the request on the bus
    lane,       \* the lane of byte accesses in this run
    sel,        \* the Hselect registers of the bus: which device answers
    sram,       \* state, Haddress_temp and Hwritedata_temp of sram.v
    mem,        \* external: the SRAM chip
    flash,      \* state, count, Haddress_temp and Hreaddata of flash.v
    romaddress, \* address of rom.v
    serial,     \* _Hready, _TxD_start and _TxD_busy of serial_port.v
    TxD_busy,   \* of async.v: the transmitter is sending
    cur,        \* history: the request being answered
    shadow      \* history: the RAM as the accepted requests leave it

vars == <<req, lane, sel, sram, mem, flash, romaddress, serial, TxD_busy, cur, shadow>>

WordOf(b) == [l \in Lane |-> b]
None == [addr |-> -1, write |-> FALSE, word |-> TRUE, data |-> InitialWord]

\* What the CPU may put on the bus; word accesses to the RAM are aligned.
Requests ==
    [addr : {a \in RamAddresses : a % 4 = 0}, write : BOOLEAN, word : {TRUE},
     data : {WordOf(b) : b \in Byte}]
    \cup
    [addr : {a \in RamAddresses : a % 4 = (lane + a \div 4) % 4}, write : BOOLEAN,
     word : {FALSE}, data : {WordOf(b) : b \in Byte}]
    \cup
    [addr : DeviceAddresses, write : BOOLEAN, word : {TRUE}, data : {InitialWord}]

\* The address decoder.
Decode(Haddress) ==
    CASE \h1FC00000 <= Haddress /\ Haddress <= \h1FC001FF -> "rom"
      [] \h1FD003F8 <= Haddress /\ Haddress <= \h1FD003FF -> "serial"
      [] Haddress \in RamRange                            -> "sram"
      [] \h1E000000 <= Haddress /\ Haddress <= \h1EFFFFFF -> "flash"
      [] \h10000000 <= Haddress /\ Haddress <= \h10001000 -> "vga"
      [] OTHER                                            -> "nodevice"

Selected(device) == Decode(req.addr) = device

Init ==
    /\ lane \in ByteLanes
    /\ req \in Requests
    /\ sel = "none"
    /\ sram = [state |-> "idle", address |-> 0, data |-> WordOf(0)]
    /\ mem = [w \in {a \div 4 : a \in RamAddresses} |-> InitialWord]
    /\ flash = [state |-> "IDLE", count |-> 0, address |-> 0, Hreaddata |-> 0]
    /\ romaddress = 0
    /\ serial = [Hready |-> FALSE, start |-> FALSE, busy |-> FALSE]
    /\ TxD_busy = FALSE
    /\ cur = None /\ shadow = mem
-----------------------------------------------------------------------------
\* ready of each device, and of the bus: that of the device that answers.
Hready_sram == sram.state \notin
    {"WriteByte1", "WriteByte2", "WriteByte3", "WriteWord1", "WriteWord2"}

Hready_flash == flash.state \in {"READ_5", "IDLE"}

\* Mutant: a write is ready when the transmitter is idle.
Hready_serial_Level == ~ TxD_busy \/ serial.Hready

\* Mutant: a write waits for a flag that only a read sets.
Hready_serial_Flag == serial.Hready

Hready_serial == (~ TxD_busy /\ serial.busy) \/ serial.Hready

ready ==
    CASE sel = "serial" -> Hready_serial
      [] sel = "sram"   -> Hready_sram
      [] sel = "flash"  -> Hready_flash
      [] OTHER          -> TRUE

\* The pins of the SRAM chip.
Ram1Address == sram.address \div 4
Ram1WE == sram.state \notin {"WriteWord2", "WriteByte3"}     \* active low
Ram1data == mem[Ram1Address]

Hreaddata ==
    CASE sel = "sram" /\ sram.state = "ReadWord" -> Ram1data
      [] sel = "sram" /\ sram.state = "ReadByte" -> Ram1data[sram.address % 4]
      [] sel = "flash" -> flash.Hreaddata
      [] OTHER -> 0
-----------------------------------------------------------------------------
Accept(device) == Selected(device) /\ ready

\* Mutant: a byte write starts with the write pulse.
SramStart_NoRead ==
    CASE req.write /\ req.word     -> "WriteWord1"
      [] req.write /\ ~ req.word   -> "WriteByte2"
      [] ~ req.write /\ req.word   -> "ReadWord"
      [] ~ req.write /\ ~ req.word -> "ReadByte"

\* Mutant: the write pulse begins together with the address.
SramStart_NoSetup ==
    CASE req.write /\ req.word     -> "WriteWord2"
      [] req.write /\ ~ req.word   -> "WriteByte1"
      [] ~ req.write /\ req.word   -> "ReadWord"
      [] ~ req.write /\ ~ req.word -> "ReadByte"

SramStart ==
    CASE req.write /\ req.word     -> "WriteWord1"
      [] req.write /\ ~ req.word   -> "WriteByte1"
      [] ~ req.write /\ req.word   -> "ReadWord"
      [] ~ req.write /\ ~ req.word -> "ReadByte"

SramNext ==
    [WriteByte1 |-> "WriteByte2", WriteByte2 |-> "WriteByte3",
     WriteByte3 |-> "WriteByte4", WriteWord1 |-> "WriteWord2",
     WriteWord2 |-> "WriteWord3"]

\* The clock edge of sram.v.  WriteByte1 reads the word and puts the byte in.
SramClock ==
    sram' =
      IF Accept("sram")
        THEN [state |-> SramStart, address |-> req.addr, data |-> req.data]
      ELSE IF sram.state \in DOMAIN SramNext
        THEN [sram EXCEPT
                !.state = SramNext[sram.state],
                !.data = IF sram.state = "WriteByte1"
                           THEN [Ram1data EXCEPT ![sram.address % 4] = sram.data[0]]
                           ELSE @]
        ELSE [state |-> "idle", address |-> IF Selected("sram") THEN req.addr ELSE 0,
              data |-> IF Selected("sram") THEN req.data ELSE WordOf(0)]

\* External: the chip stores the word during the write pulse.
ChipClock == mem' = IF Ram1WE THEN mem ELSE [mem EXCEPT ![Ram1Address] = sram.data]

Haddress_flash ==
    IF Selected("flash") THEN (((req.addr % 2^24) \div 2) + 2) % 2^23 ELSE 0

FlashNext ==
    [READ_1 |-> "READ_2", READ_2 |-> "READ_3", READ_3 |-> "READ_4",
     READ_5 |-> "IDLE", IDLE |-> "IDLE"]

\* The clock edge of flash.v.  READ_4 lasts four clocks; the external chip
\* answers with the halfword at the address, which stands for it here.
FlashClock ==
    flash' =
      IF Hready_flash /\ ready
        THEN [flash EXCEPT !.state = IF Selected("flash") THEN "READ_1" ELSE "IDLE",
                           !.count = 0, !.address = Haddress_flash]
      ELSE IF flash.state = "READ_4"
        THEN [flash EXCEPT !.state = IF flash.count = 3 THEN "READ_5" ELSE "READ_4",
                           !.count = IF flash.count = 3 THEN 0 ELSE @ + 1,
                           !.Hreaddata = flash.address]
        ELSE [flash EXCEPT !.state = FlashNext[@], !.count = 0]

RomClock == romaddress' = IF Accept("rom") THEN req.addr % 512 ELSE romaddress

\* The bus side of serial_port.v.
SerialClock ==
    serial' = [Hready |-> IF Accept("serial") THEN ~ req.write ELSE serial.Hready,
               start |-> Accept("serial") /\ req.write,
               busy |-> TxD_busy]

\* async_transmitter of async.v starts on TxD_start when it is idle; done is the
\* tick that ends the last stop bit, after a number of clocks the bus cannot tell.
TransmitterClock(done) ==
    TxD_busy' = IF TxD_busy THEN ~ done ELSE serial.start

Write(ram, r) ==
    LET w == r.addr \div 4
    IN  [ram EXCEPT ![w] = IF r.word THEN r.data ELSE [@ EXCEPT ![r.addr % 4] = r.data[0]]]

\* One clock of the whole bus; the CPU changes its request when it is accepted.
Clock(done) ==
    /\ SramClock /\ ChipClock /\ FlashClock /\ RomClock /\ SerialClock
    /\ TransmitterClock(done)
    /\ sel' = IF ready THEN Decode(req.addr) ELSE sel
    /\ IF ready THEN req' \in Requests ELSE req' = req
    /\ cur' = IF ready THEN req ELSE cur
    /\ shadow' = IF Accept("sram") /\ req.write THEN Write(shadow, req) ELSE shadow
    /\ UNCHANGED lane

Next == \E done \in BOOLEAN : Clock(done)

Spec == Init /\ [][Next]_vars

\* The clock runs, and a transmission ends.
LiveSpec == Spec /\ WF_vars(Next) /\ SF_vars(TxD_busy /\ Clock(TRUE))
-----------------------------------------------------------------------------
\* When a read of the RAM is answered, the answer is what the writes accepted
\* before it left there, whatever is on the bus behind it: the write states of
\* sram.v end, and a byte write has merged its byte, before the next access.
\* A read of the flash is answered for its own address and not for that of the
\* request behind it: with the halfword bus.v:165 gives to the address, which is
\* two past the one that src/README.md:235 maps it to.
AnswersOwnRead ==
    /\ ready /\ sel = "sram" /\ ~ cur.write =>
        Hreaddata = IF cur.word THEN shadow[cur.addr \div 4]
                                ELSE shadow[cur.addr \div 4][cur.addr % 4]
    /\ ready /\ sel = "flash" =>
        Hreaddata = (((cur.addr % 2^24) \div 2) + 2) % 2^23

\* Address and data of the RAM do not change as the write pulse begins, while
\* it lasts, or as it ends.
PulseFramed ==
    [][~ Ram1WE \/ ~ Ram1WE' => Ram1Address' = Ram1Address /\ sram'.data = sram.data]_vars

\* The transmitter is started only when it is idle, so that no byte written to
\* the serial port is dropped: the write before it holds the bus until it is
\* sent.
StartWhenIdle == serial.start => ~ TxD_busy

\* Every request is answered: the bus is ready again and again.
AlwaysReady == []<>ready
=============================================================================
