----------------------------- MODULE BusProofs -----------------------------
(***************************************************************************)
(* Proofs of the safety properties of Bus, for RAMs of any size, any bytes *)
(* and any set of device addresses.                                        *)
(***************************************************************************)
EXTENDS Bus, TLAPS

RamWords == {a \div 4 : a \in RamAddresses}
Request == [addr : RamAddresses \cup DeviceAddresses, write : BOOLEAN,
            word : BOOLEAN, data : Word]
Device == {"rom", "serial", "sram", "flash", "vga", "nodevice"}

TypeOK ==
    /\ req \in Request
    /\ sel \in Device \cup {"none"}
    /\ sram = [state |-> sram.state, address |-> sram.address, data |-> sram.data]
    /\ sram.data \in Word
    /\ mem \in [RamWords -> Word]
    /\ flash = [state |-> flash.state, count |-> flash.count,
                address |-> flash.address, Hreaddata |-> flash.Hreaddata]
    /\ flash.state \in {"IDLE", "READ_1", "READ_2", "READ_3", "READ_4", "READ_5"}
    /\ serial \in [Hready : BOOLEAN, start : BOOLEAN, busy : BOOLEAN]
    /\ TxD_busy \in BOOLEAN

\* The device that answers is the one the request being answered is decoded to.
Answering ==
    IF sel = "none" THEN cur = None ELSE cur \in Request /\ sel = Decode(cur.addr)

\* The states of sram.v a request to it goes through.
SramStates(r) ==
    CASE r.write /\ r.word     -> {"WriteWord1", "WriteWord2", "WriteWord3"}
      [] r.write /\ ~ r.word   -> {"WriteByte1", "WriteByte2", "WriteByte3", "WriteByte4"}
      [] ~ r.write /\ r.word   -> {"ReadWord"}
      [] ~ r.write /\ ~ r.word -> {"ReadByte"}

\* sram.v is busy with the request being answered, if that is one to it.
SramServes ==
    IF sel = "sram"
      THEN sram.address = cur.addr /\ sram.state \in SramStates(cur)
      ELSE sram.state = "idle"

\* A write reaches the chip in the states up to the pulse; it has in the ones
\* after it, and in the pulse the word to store is the one the write leaves.
Pending == {"WriteByte1", "WriteByte2", "WriteByte3", "WriteWord1", "WriteWord2"}

ChipAgrees ==
    IF sram.state \in Pending
      THEN /\ shadow = Write(mem, cur)
           /\ sram.data = IF sram.state \in {"WriteByte2", "WriteByte3"}
                            THEN Write(mem, cur)[cur.addr \div 4]
                            ELSE cur.data
      ELSE shadow = mem

\* flash.v is busy with the request being answered, and READ_5 has its answer.
FlashServes ==
    IF sel = "flash"
      THEN /\ flash.address = (((cur.addr % 2^24) \div 2) + 2) % 2^23
           /\ flash.state # "IDLE"
           /\ flash.state = "READ_5" => flash.Hreaddata = flash.address
      ELSE flash.state = "IDLE"

\* While the transmitter is starting or sending, the write that started it has
\* the bus, and nothing has set its ready flag.
TransmitterHeld ==
    /\ TxD_busy \/ serial.start => sel = "serial" /\ ~ serial.Hready
    /\ serial.start => ~ TxD_busy /\ ~ serial.busy

IInv ==
    /\ TypeOK /\ Answering /\ SramServes /\ ChipAgrees /\ FlashServes /\ TransmitterHeld
-----------------------------------------------------------------------------
\* The decoder gives the addresses of the RAM, and no others, to sram.v.
LEMMA DecodeRam ==
    ASSUME NEW a \in RamAddresses \cup DeviceAddresses
    PROVE  /\ Decode(a) \in Device
           /\ Decode(a) = "sram" <=> a \in RamAddresses
           /\ a \in Nat
<1>1. a \in Nat /\ (a \in RamAddresses => a <= \h003FFFFF)
        /\ (a \in DeviceAddresses => a > \h003FFFFF)
  BY BusAssumption, SMT DEF RamRange
<1>2. Decode(a) \in Device
  BY SMT DEF Decode, Device, RamRange
<1>3. Decode(a) = "sram" <=> a \in RamAddresses
  BY <1>1, SMT DEF Decode, RamRange
<1> QED
  BY <1>1, <1>2, <1>3, SMT

\* A RAM address is in a word of the RAM and in one of its lanes.
LEMMA RamWord ==
    ASSUME NEW a \in RamAddresses
    PROVE  a \div 4 \in RamWords /\ a % 4 \in Lane
<1>1. a \in Nat
  BY BusAssumption, SMT DEF RamRange
<1>2. a % 4 \in 0..3
  BY <1>1, SMT
<1> QED
  BY <1>2, Zenon DEF RamWords, Lane

\* A byte written to the bus in all four lanes is a word.
LEMMA WordFacts == ASSUME NEW b \in Byte \cup {0} PROVE WordOf(b) \in Word
  BY Zenon DEF WordOf, Word

\* What the CPU puts on the bus is a request.
LEMMA RequestsAre == Requests \subseteq Request
<1> SUFFICES ASSUME NEW r \in Requests PROVE r \in Request
  BY Zenon
<1>1. InitialWord \in Word /\ \A b \in Byte : WordOf(b) \in Word
  BY BusAssumption, WordFacts, Zenon
<1>2. ASSUME NEW A, A \subseteq RamAddresses \cup DeviceAddresses,
             NEW W, W \subseteq BOOLEAN, NEW D, D \subseteq Word
      PROVE  [addr : A, write : BOOLEAN, word : W, data : D] \subseteq Request
  BY <1>2, Zenon DEF Request
<1>3. {WordOf(b) : b \in Byte} \subseteq Word
  BY <1>1, Zenon
<1>4. [addr : {a \in RamAddresses : a % 4 = 0}, write : BOOLEAN, word : {TRUE},
       data : {WordOf(b) : b \in Byte}] \subseteq Request
  BY <1>2, <1>3, Zenon
<1>5. [addr : {a \in RamAddresses : a % 4 = (lane + a \div 4) % 4}, write : BOOLEAN,
       word : {FALSE}, data : {WordOf(b) : b \in Byte}] \subseteq Request
  BY <1>2, <1>3, Zenon
<1>6. [addr : DeviceAddresses, write : BOOLEAN, word : {TRUE}, data : {InitialWord}]
        \subseteq Request
  <2>1. {InitialWord} \subseteq Word /\ {TRUE} \subseteq BOOLEAN
    BY <1>1, Zenon
  <2> QED
    BY <1>2, <2>1, Zenon
<1> QED
  BY <1>4, <1>5, <1>6, Zenon DEF Requests

\* A write changes one word, and leaves words in the RAM.
LEMMA WriteWord ==
    ASSUME NEW ram \in [RamWords -> Word], NEW r \in Request, r.addr \in RamAddresses
    PROVE  /\ Write(ram, r) \in [RamWords -> Word]
           /\ Write(ram, r) = [ram EXCEPT ![r.addr \div 4] = Write(ram, r)[r.addr \div 4]]
           /\ r.word => Write(ram, r)[r.addr \div 4] = r.data
           /\ ~ r.word => Write(ram, r)[r.addr \div 4]
                            = [ram[r.addr \div 4] EXCEPT ![r.addr % 4] = r.data[0]]
<1> DEFINE w == r.addr \div 4
           new == IF r.word THEN r.data ELSE [ram[w] EXCEPT ![r.addr % 4] = r.data[0]]
<1>1. w \in RamWords /\ r.addr % 4 \in Lane
  BY RamWord, Zenon
<1>2. r.data \in Word /\ r.data[0] \in Byte \cup {0}
  BY DEF Request, Word, Lane
<1>3. new \in Word
  BY <1>1, <1>2, Zenon DEF Word
<1>4. Write(ram, r) = [ram EXCEPT ![w] = new]
  BY Zenon DEF Write
<1> QED
  BY <1>1, <1>3, <1>4, Zenon
-----------------------------------------------------------------------------
\* The bus starts with no request being answered and all devices idle.
LEMMA InitInv == Init => IInv
<1> SUFFICES ASSUME Init PROVE IInv
  BY Zenon
<1>1. InitialWord \in Word /\ WordOf(0) \in Word
  BY BusAssumption, WordFacts, Zenon
<1>2. TypeOK
  <2>1. mem \in [RamWords -> Word]
    BY <1>1, Zenon DEF Init, RamWords
  <2>2. req \in Request
    BY RequestsAre, Zenon DEF Init
  <2> QED
    BY <1>1, <2>1, <2>2, Zenon DEF Init, TypeOK
<1> QED
  BY <1>2, Zenon DEF Init, IInv, Answering, SramServes, ChipAgrees, Pending, FlashServes,
     TransmitterHeld

\* When the bus is ready, no state of sram.v is left in which a write is
\* pending, and the transmitter is neither starting nor sending.
LEMMA ReadyIdle ==
    ASSUME IInv, ready
    PROVE  /\ sram.state \notin Pending
           /\ flash.state \in {"READ_5", "IDLE"}
           /\ ~ TxD_busy /\ ~ serial.start
<1>1. sram.state \notin Pending
  BY Zenon DEF IInv, SramServes, ready, Hready_sram, Pending
<1>2. flash.state \in {"READ_5", "IDLE"}
  BY Zenon DEF IInv, FlashServes, ready, Hready_flash
<1>3. ~ TxD_busy /\ ~ serial.start
  BY Zenon DEF IInv, TransmitterHeld, ready, Hready_serial, TypeOK
<1> QED
  BY <1>1, <1>2, <1>3, Zenon

\* When the bus is not ready, the device that answers is in its middle.
LEMMA WaitBusy ==
    ASSUME IInv, ~ ready
    PROVE  /\ sel \in {"serial", "sram", "flash"}
           /\ sel = "sram" => sram.state \in Pending
           /\ sel = "flash" => flash.state \in {"READ_1", "READ_2", "READ_3", "READ_4"}
<1>1. sel \in {"serial", "sram", "flash"}
  BY Zenon DEF IInv, TypeOK, Device, ready
<1>2. sel = "sram" => sram.state \in Pending
  BY Zenon DEF ready, Hready_sram, Pending
<1>3. sel = "flash" => flash.state \in {"READ_1", "READ_2", "READ_3", "READ_4"}
  BY Zenon DEF IInv, TypeOK, ready, Hready_flash
<1> QED
  BY <1>1, <1>2, <1>3, Zenon

\* Every clock, with every request the CPU may make in it, keeps IInv.
LEMMA NextInv == IInv /\ [Next]_vars => IInv'
<1> SUFFICES ASSUME IInv, [Next]_vars PROVE IInv'
  BY Zenon
<1>1. CASE UNCHANGED vars
  BY <1>1 DEF vars, IInv, TypeOK, Answering, SramServes, SramStates, ChipAgrees, Pending,
     FlashServes, TransmitterHeld, Write, None
<1>2. ASSUME NEW done \in BOOLEAN, Clock(done) PROVE IInv'
  <2> USE <1>2
  <2>1. CASE ready
    <3> USE <2>1
    <3>1. /\ sel' = Decode(req.addr) /\ cur' = req /\ req' \in Request
          /\ sel' \in Device /\ cur' \in Request
          /\ sel' = "sram" <=> req.addr \in RamAddresses
      BY DecodeRam, RequestsAre, Zenon DEF Clock, IInv, TypeOK, Request
    <3>2. /\ sram.state \notin DOMAIN SramNext /\ Ram1WE
          /\ shadow = mem /\ mem' = mem
          /\ ~ TxD_busy /\ ~ serial.start /\ TxD_busy' = FALSE
          /\ Hready_flash
      BY ReadyIdle, Zenon DEF Pending, SramNext, Ram1WE, IInv, ChipAgrees, Clock, ChipClock,
         Hready_flash, TransmitterClock, TypeOK
    <3>3. Answering'
      BY <3>1, Zenon DEF Answering, Device
    <3>4. /\ SramServes' /\ sram'.data \in Word
          /\ sram' = [state |-> sram'.state, address |-> sram'.address, data |-> sram'.data]
      <4>1. CASE Selected("sram")
        BY <3>1, <4>1, Zenon
        DEF Clock, SramClock, Accept, SramStart, Selected, SramServes, SramStates,
           IInv, TypeOK, Request
      <4>2. CASE ~ Selected("sram")
        BY <3>1, <3>2, <4>2, WordFacts, Zenon DEF Clock, SramClock, Accept, Selected, SramServes
      <4> QED
        BY <4>1, <4>2, Zenon
    <3>5. ChipAgrees'
      <4>1. CASE Selected("sram") /\ req.write
        BY <3>1, <3>2, <4>1, Zenon
        DEF Clock, SramClock, Accept, SramStart, Selected, ChipAgrees,
           Pending, IInv, TypeOK, Request
      <4>2. CASE Selected("sram") /\ ~ req.write
        BY <3>1, <3>2, <4>2, Zenon
        DEF Clock, SramClock, Accept, SramStart, Selected, ChipAgrees,
           Pending, IInv, TypeOK, Request
      <4>3. CASE ~ Selected("sram")
        BY <3>1, <3>2, <4>3, Zenon DEF Clock, SramClock, Accept, Selected, ChipAgrees, Pending
      <4> QED
        BY <4>1, <4>2, <4>3, Zenon
    <3>6. /\ FlashServes' /\ flash'.state \in {"IDLE", "READ_1"}
          /\ flash' = [state |-> flash'.state, count |-> flash'.count,
                       address |-> flash'.address, Hreaddata |-> flash'.Hreaddata]
      BY <3>1, <3>2, Zenon
      DEF Clock, FlashClock, Haddress_flash, Selected, FlashServes, IInv, TypeOK
    <3>7. TransmitterHeld' /\ serial' \in [Hready : BOOLEAN, start : BOOLEAN, busy : BOOLEAN]
      BY <3>1, <3>2, Zenon DEF Clock, SerialClock, TransmitterClock, Accept, Selected,
         TransmitterHeld, IInv, TypeOK, Request
    <3>8. TypeOK'
      BY <3>1, <3>2, <3>4, <3>6, <3>7, Zenon DEF IInv, TypeOK
    <3> QED
      BY <3>3, <3>4, <3>5, <3>6, <3>7, <3>8, Zenon DEF IInv
  <2>2. CASE ~ ready
    <3> USE <2>2
    <3>1. /\ sel' = sel /\ cur' = cur /\ req' = req /\ shadow' = shadow
          /\ sel \in {"serial", "sram", "flash"}
          /\ cur \in Request /\ sel = Decode(cur.addr)
          /\ sel = "sram" <=> cur.addr \in RamAddresses
          /\ ~ Accept("sram") /\ ~ Accept("serial")
      BY WaitBusy, DecodeRam, Zenon DEF Clock, IInv, Answering, Request, Accept
    <3>2. Answering'
      BY <3>1, Zenon DEF Answering
    <3>3. CASE sel = "sram"
      <4>1. /\ sram.state \in Pending /\ cur.write
            /\ sram.address = cur.addr /\ sram.state \in SramStates(cur)
            /\ shadow = Write(mem, cur)
        BY <3>3, WaitBusy, Zenon DEF IInv, SramServes, ChipAgrees, SramStates, Pending
      <4>2. /\ sram'.state = SramNext[sram.state]
            /\ sram'.address = cur.addr
            /\ sram.state # "WriteByte1" => sram'.data = sram.data
            /\ sram.state = "WriteByte1" =>
                 sram'.data = [mem[cur.addr \div 4] EXCEPT ![cur.addr % 4] = sram.data[0]]
            /\ sram' = [state |-> sram'.state, address |-> sram'.address, data |-> sram'.data]
        BY <3>1, <4>1, Zenon
        DEF Clock, SramClock, Pending, SramNext, IInv, TypeOK, Ram1data, Ram1Address
      <4>3. SramServes'
        BY <3>1, <3>3, <4>1, <4>2 DEF SramServes, SramStates, SramNext, Pending, Request
      <4> DEFINE w == cur.addr \div 4
      <4>4. /\ Write(mem, cur) \in [RamWords -> Word]
            /\ Write(mem, cur) = [mem EXCEPT ![w] = Write(mem, cur)[w]]
            /\ cur.word => Write(mem, cur)[w] = cur.data
            /\ ~ cur.word => Write(mem, cur)[w] = [mem[w] EXCEPT ![cur.addr % 4] = cur.data[0]]
            /\ Write(mem, cur)[w] \in Word
        BY <3>1, <3>3, WriteWord, RamWord DEF IInv, TypeOK
      <4>5. mem' = IF sram.state \in {"WriteWord2", "WriteByte3"}
                     THEN [mem EXCEPT ![w] = sram.data] ELSE mem
        BY <4>1, Zenon DEF Clock, ChipClock, Ram1WE, Ram1Address
      <4>6. ChipAgrees'
        <5>1. sram.state \in {"WriteWord1", "WriteByte1", "WriteByte2"} => ChipAgrees'
          BY <3>1, <4>1, <4>2, <4>4, <4>5 DEF ChipAgrees, Pending, SramNext, SramStates,
             IInv, Request
        <5>2. sram.state \in {"WriteWord2", "WriteByte3"} => ChipAgrees'
          BY <3>1, <4>1, <4>2, <4>4, <4>5 DEF ChipAgrees, Pending, SramNext, SramStates,
             IInv, Request
        <5> QED
          BY <4>1, <5>1, <5>2, Zenon DEF Pending
      <4>7. sram'.data \in Word /\ mem' \in [RamWords -> Word]
        BY <3>1, <4>1, <4>2, <4>4, <4>5
        DEF IInv, TypeOK, ChipAgrees, Pending, SramStates, Request
      <4>8. flash'.state = "IDLE" /\ ~ TxD_busy /\ ~ serial.start
            /\ flash' = [state |-> flash'.state, count |-> flash'.count,
                         address |-> flash'.address, Hreaddata |-> flash'.Hreaddata]
        <5>1. flash.state = "IDLE" /\ ~ TxD_busy /\ ~ serial.start
          BY <3>3, Zenon DEF IInv, FlashServes, TransmitterHeld, TypeOK
        <5>2. flash' = [flash EXCEPT !.state = FlashNext[flash.state], !.count = 0]
          BY <5>1, Zenon DEF Clock, FlashClock
        <5>3. FlashNext["IDLE"] = "IDLE"
          BY Zenon DEF FlashNext
        <5> QED
          BY <5>1, <5>2, <5>3, Zenon DEF IInv, TypeOK
      <4>9. TxD_busy' = FALSE /\ serial'.start = FALSE
            /\ serial' \in [Hready : BOOLEAN, start : BOOLEAN, busy : BOOLEAN]
        BY <3>1, <4>8, Zenon DEF Clock, SerialClock, TransmitterClock, IInv, TypeOK
      <4>10. TypeOK' /\ FlashServes' /\ TransmitterHeld'
        BY <3>1, <3>3, <4>2, <4>7, <4>8, <4>9, Zenon
        DEF IInv, TypeOK, FlashServes, TransmitterHeld
      <4> QED
        BY <3>2, <4>3, <4>6, <4>10, Zenon DEF IInv
    <3>4. CASE sel # "sram"
      <4>1. /\ sram.state = "idle" /\ sram'.state = "idle" /\ sram'.data \in Word
            /\ sram' = [state |-> sram'.state, address |-> sram'.address, data |-> sram'.data]
        BY <3>1, <3>4, WordFacts, Zenon
        DEF Clock, SramClock, SramNext, IInv, SramServes, TypeOK, Request
      <4>2. shadow = mem /\ mem' = mem
        BY <4>1, Zenon DEF Clock, ChipClock, Ram1WE, IInv, ChipAgrees, Pending
      <4>3. SramServes' /\ ChipAgrees'
        BY <3>1, <3>4, <4>1, <4>2, Zenon DEF SramServes, ChipAgrees, Pending
      <4>4. FlashServes' /\ flash'.state \in {"IDLE", "READ_2", "READ_3", "READ_4", "READ_5"}
            /\ flash' = [state |-> flash'.state, count |-> flash'.count,
                         address |-> flash'.address, Hreaddata |-> flash'.Hreaddata]
        <5>1. CASE flash.state = "READ_4"
          BY <3>1, <5>1, Zenon DEF Clock, FlashClock, IInv, TypeOK, FlashServes
        <5>2. CASE flash.state # "READ_4"
          <6>1. flash' = [flash EXCEPT !.state = FlashNext[flash.state], !.count = 0]
            BY <5>2, Zenon DEF Clock, FlashClock
          <6>2. flash.state \in {"READ_1", "READ_2", "READ_3", "IDLE"}
                /\ (sel = "flash" <=> flash.state # "IDLE")
            BY <3>1, <5>2, WaitBusy, Zenon DEF IInv, FlashServes
          <6>3. FlashNext[flash.state] \in {"IDLE", "READ_2", "READ_3", "READ_4"}
                /\ (FlashNext[flash.state] = "IDLE" <=> flash.state = "IDLE")
            BY <6>2 DEF FlashNext
          <6> QED
            BY <3>1, <6>1, <6>2, <6>3, Zenon DEF IInv, TypeOK, FlashServes
        <5> QED
          BY <5>1, <5>2, Zenon
      <4>5. TransmitterHeld' /\ TxD_busy' \in BOOLEAN
            /\ serial' \in [Hready : BOOLEAN, start : BOOLEAN, busy : BOOLEAN]
        BY <3>1, Zenon DEF Clock, SerialClock, TransmitterClock, IInv, TypeOK, TransmitterHeld
      <4>6. TypeOK'
        BY <3>1, <4>1, <4>2, <4>4, <4>5, Zenon DEF IInv, TypeOK
      <4> QED
        BY <3>2, <4>3, <4>4, <4>5, <4>6, Zenon DEF IInv
    <3> QED
      BY <3>3, <3>4, Zenon
  <2> QED
    BY <2>1, <2>2, Zenon
<1> QED
  BY <1>1, <1>2, Zenon DEF Next

-----------------------------------------------------------------------------
\* IInv holds in every state of the bus.
THEOREM Invariance == Spec => []IInv
  BY InitInv, NextInv, PTL DEF Spec

\* When the bus is ready, a read of the RAM is answered with what the writes
\* accepted before it left, and a read of the flash with the halfword bus.v gives
\* to its own address, for any RAM and any sequence of requests.
THEOREM ReadsAnswered == Spec => []AnswersOwnRead
<1>1. IInv => AnswersOwnRead
  <2> SUFFICES ASSUME IInv, ready PROVE AnswersOwnRead
    BY Zenon DEF AnswersOwnRead
  <2>1. CASE sel = "sram" /\ ~ cur.write
    <3>1. /\ cur \in Request /\ cur.addr \in RamAddresses
          /\ shadow = mem /\ sram.address = cur.addr
          /\ sram.state = IF cur.word THEN "ReadWord" ELSE "ReadByte"
      BY <2>1, DecodeRam, Zenon
      DEF IInv, Answering, SramServes, SramStates, ChipAgrees, Pending, Request
    <3> QED
      BY <2>1, <3>1, Zenon DEF AnswersOwnRead, Hreaddata, Ram1data, Ram1Address, Request
  <2>2. CASE sel = "flash"
    BY <2>2, Zenon DEF IInv, FlashServes, AnswersOwnRead, Hreaddata, ready, Hready_flash
  <2> QED
    BY <2>1, <2>2, Zenon DEF AnswersOwnRead
<1> QED
  BY <1>1, Invariance, PTL

\* The transmitter of the serial port is never started while it is sending.
THEOREM StartsWhenIdle == Spec => []StartWhenIdle
<1>1. IInv => StartWhenIdle
  BY Zenon DEF IInv, TransmitterHeld, StartWhenIdle
<1> QED
  BY <1>1, Invariance, PTL

\* Address and data of the RAM are stable around every write pulse.
THEOREM PulsesFramed == Spec => PulseFramed
<1> DEFINE Framed == ~ Ram1WE \/ ~ Ram1WE' => Ram1Address' = Ram1Address /\ sram'.data = sram.data
<1>1. IInv /\ [Next]_vars => [Framed]_vars
  <2> SUFFICES ASSUME IInv, NEW done \in BOOLEAN, Clock(done), ~ Ram1WE \/ ~ Ram1WE'
               PROVE  Ram1Address' = Ram1Address /\ sram'.data = sram.data
    BY Zenon DEF Next
  <2>1. ~ Accept("sram") /\ sram.state \in {"WriteWord1", "WriteWord2", "WriteByte2", "WriteByte3"}
    <3>1. CASE ready
      <4>1. sram.state \notin DOMAIN SramNext /\ Ram1WE
        BY <3>1, ReadyIdle, Zenon DEF Pending, SramNext, Ram1WE
      <4> QED
        BY <4>1, Zenon DEF Clock, SramClock, SramStart, Ram1WE, IInv, TypeOK, Request
    <3>2. CASE ~ ready
      BY <3>2 DEF Accept, Clock, SramClock, SramNext, Ram1WE, IInv, TypeOK
    <3> QED
      BY <3>1, <3>2, Zenon
  <2> QED
    BY <2>1, Zenon DEF Clock, SramClock, SramNext, Ram1Address, IInv, TypeOK
<1> QED
  BY <1>1, Invariance, PTL DEF Spec, PulseFramed
=============================================================================
