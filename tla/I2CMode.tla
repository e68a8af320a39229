------------------------------- MODULE I2CMode --------------------------------
(***************************************************************************)
(* The I2C mode of the bus tool: the commands of i2c_mode.c and the bit    *)
(* banging of i2c-algo-bit.c below them, one step per pin access.  pc      *)
(* names the next access; sclhi(), called from everywhere, returns to      *)
(* cont.                                                                   *)
(*                                                                         *)
(* Operators named ...Bug are single mistakes a programmer could make in   *)
(* the definition that follows them; no behaviour uses them.               *)
(***************************************************************************)
EXTENDS I2CBus

CONSTANTS ScanMin, ScanMax     \* arguments of i2c_scan(): 0x01 and 0x77

ASSUME ScanAssumption ==
  /\ ScanMin \in Nat /\ ScanMax \in Nat
  /\ 2 * ScanMin <= ScanMax /\ ScanMax < Pow2[NBits - 1]

VARIABLES pc, cont,    \* the next pin access; where sclhi() returns
          ok,          \* sclhi() returned 0, not -ETIMEDOUT
          cmd,         \* the command being executed
          ackPending,  \* adap->ack_pending
          c, bit,      \* the byte to send; bits of the byte still to do
          val,         \* indata of i2c_inb()
          res,         \* what i2c_outb()/i2c_inb() returned: -1 is -ETIMEDOUT
          adr, tries,  \* i of i2c_scan(), i of try_address()
          told,        \* what the last WRITE line said
          found,       \* addresses i2c_scan() printed as present
          clean        \* auxiliary: START went out and nothing was lost since

locals == <<cmd, c, bit, val, res, adr, tries>>
report == <<told, found>>
vars == <<wires, pc, cont, ok, locals, ackPending, report, clean>>

Ops == {"start", "stop", "read", "write", "scan"}

Init ==
  /\ BusInit
  /\ pc = "idle" /\ cont = "idle" /\ ok = TRUE /\ cmd = "open"
  /\ ackPending = FALSE /\ c = 0 /\ bit = 0 /\ val = 0 /\ res = 0
  /\ adr = 0 /\ tries = 0 /\ told = "none" /\ found = {} /\ clean = FALSE

-----------------------------------------------------------------------------
(* A pin access at pc; what follows it; a call of sclhi(); its failure.    *)

Drive(l, s, k) == pc = l /\ Pins(s, k) /\ clean' = (clean /\ ~Condition)
DriveSda(l, s) == Drive(l, s, sclOut)
DriveScl(l, k) == Drive(l, sdaOut, k)
Goto(l) == pc' = l /\ UNCHANGED cont
ClockThen(l) == pc' = "rise" /\ cont' = l
TimedOut(l) == pc = l /\ ~ok /\ UNCHANGED <<wires, cont, clean>>

-----------------------------------------------------------------------------
(* sclhi(): SCL is released, then watched until it is high or 10 ms are    *)
(* over; "poll" is the loop, "last" its second look after the timeout.     *)

SclRelease ==
  /\ DriveScl("rise", 1) /\ pc' = "poll"
  /\ UNCHANGED <<cont, ok, locals, ackPending, report>>

SclHigh ==
  /\ pc \in {"poll", "last"} /\ Scl = 1
  /\ pc' = cont /\ ok' = TRUE
  /\ UNCHANGED <<wires, cont, locals, ackPending, report, clean>>

SclExpireBug ==               \* the start time is read again in the loop
  /\ pc = "poll" /\ Scl = 0 /\ pc' = "poll"
  /\ UNCHANGED <<wires, cont, ok, locals, ackPending, report, clean>>
SclExpire ==
  /\ pc = "poll" /\ Scl = 0 /\ pc' = "last"
  /\ UNCHANGED <<wires, cont, ok, locals, ackPending, report, clean>>

SclTimeout ==
  /\ pc = "last" /\ Scl = 0
  /\ pc' = cont /\ ok' = FALSE /\ clean' = FALSE
  /\ UNCHANGED <<wires, cont, locals, ackPending, report>>

SclHi == SclRelease \/ SclHigh \/ SclExpire \/ SclTimeout

-----------------------------------------------------------------------------
(* acknak() and its callers: the byte read last is acknowledged if another *)
(* byte follows, otherwise not.                                            *)
First(op) == CASE op = "start" -> "clock_up" [] op = "stop" -> "clock_low"
               [] op = "read" -> "in_free"   [] op = "write" -> "out_bit"
               [] op = "scan" -> "stop_lo"

AcksBug == cmd \in {"read", "write", "stop"}
Acks == cmd \in {"read", "write"}

AckNak ==
  /\ DriveSda("acknak", IF Acks THEN 0 ELSE sdaOut)
  /\ ClockThen("acked")
  /\ UNCHANGED <<ok, locals, ackPending, report>>

Acked ==
  /\ \/ DriveScl("acked", 0) /\ ok
     \/ TimedOut("acked")
  /\ ackPending' = FALSE
  /\ pc' = First(cmd) /\ UNCHANGED <<cont, ok, locals, report>>

-----------------------------------------------------------------------------
(* _i2c_start() and _i2c_stop() of i2c_mode.c. *)

StartClockUp == /\ DriveScl("clock_up", 1) /\ Goto("data_up")
                /\ UNCHANGED <<ok, locals, ackPending, report>>
StartDataUp == /\ DriveSda("data_up", 1) /\ Goto("data_down")
               /\ UNCHANGED <<ok, locals, ackPending, report>>
StartDataDown ==
  /\ pc = "data_down" /\ Pins(0, sclOut) /\ Goto("clock_down")
  /\ clean' = (Scl = 1 /\ Sda = 1)
  /\ UNCHANGED <<ok, locals, ackPending, report>>
StartClockDownBug == /\ pc = "clock_down" /\ Goto("data_free")    \* forgotten
                     /\ UNCHANGED <<wires, ok, locals, ackPending, report, clean>>
StartClockDown == /\ DriveScl("clock_down", 0) /\ Goto("data_free")
                  /\ UNCHANGED <<ok, locals, ackPending, report>>
StartDone == /\ DriveSda("data_free", 1) /\ Goto("idle")
             /\ UNCHANGED <<ok, locals, ackPending, report>>

StopClockLow == /\ DriveScl("clock_low", 0) /\ Goto("data_low")
                /\ UNCHANGED <<ok, locals, ackPending, report>>
StopDataLowBug == /\ pc = "data_low" /\ ClockThen("data_rise")      \* forgotten
                  /\ UNCHANGED <<wires, ok, locals, ackPending, report, clean>>
StopDataLow == /\ DriveSda("data_low", 0) /\ ClockThen("data_rise")
               /\ UNCHANGED <<ok, locals, ackPending, report>>
StopDone == /\ pc = "data_rise" /\ Pins(1, sclOut) /\ Goto("idle") /\ clean' = FALSE
            /\ UNCHANGED <<ok, locals, ackPending, report>>

-----------------------------------------------------------------------------
(* i2c_inb(); i2c_proto_read() has set ack_pending before it. *)

InFreeBug ==                  \* the pin is left to getsda()
  /\ DriveSda("in_free", sdaOut) /\ ClockThen("in_bit")
  /\ ackPending' = TRUE /\ val' = 0
  /\ UNCHANGED <<ok, cmd, c, bit, res, adr, tries, report>>
InFree ==
  /\ DriveSda("in_free", 1) /\ ClockThen("in_bit")
  /\ ackPending' = TRUE /\ val' = 0
  /\ UNCHANGED <<ok, cmd, c, bit, res, adr, tries, report>>

InBitBug ==                   \* the bit is read after the clock went down
  \/ /\ Drive("in_bit", 1, 0) /\ ok
     /\ val' = 2 * val + Sda' /\ bit' = bit - 1 /\ res' = 0
     /\ pc' = IF bit > 1 THEN "rise" ELSE "idle"
     /\ UNCHANGED <<cont, ok, cmd, c, adr, tries, ackPending, report>>
  \/ /\ TimedOut("in_bit") /\ res' = -1 /\ pc' = "idle"
     /\ UNCHANGED <<ok, cmd, c, bit, val, adr, tries, ackPending, report>>
InBit ==
  \/ /\ Drive("in_bit", 1, 0) /\ ok
     /\ val' = 2 * val + Sda /\ bit' = bit - 1 /\ res' = 0
     /\ pc' = IF bit > 1 THEN "rise" ELSE "idle"
     /\ UNCHANGED <<cont, ok, cmd, c, adr, tries, ackPending, report>>
  \/ /\ TimedOut("in_bit") /\ res' = -1 /\ pc' = "idle"
     /\ UNCHANGED <<ok, cmd, c, bit, val, adr, tries, ackPending, report>>

-----------------------------------------------------------------------------
(* i2c_outb(), for a written byte and for an address tried by the scan. *)

SentBitBug == BitOf(c, NBits - bit)       \* least significant bit first
SentBit == BitOf(c, bit - 1)
OutBit == /\ DriveSda("out_bit", SentBit) /\ ClockThen("out_clk")
          /\ UNCHANGED <<ok, locals, ackPending, report>>

Returned == IF cmd = "scan" THEN "tried" ELSE "written"
OutClk ==
  \/ /\ DriveScl("out_clk", 0) /\ ok /\ bit' = bit - 1
     /\ Goto(IF bit > 1 THEN "out_bit" ELSE "out_ack")
     /\ UNCHANGED <<ok, cmd, c, val, res, adr, tries, ackPending, report>>
  \/ /\ TimedOut("out_clk") /\ res' = -1 /\ pc' = Returned
     /\ UNCHANGED <<ok, cmd, c, bit, val, adr, tries, ackPending, report>>

OutAckBug ==                  \* the clock of the acknowledge is forgotten
  /\ DriveSda("out_ack", 1) /\ Goto("out_read")
  /\ UNCHANGED <<ok, locals, ackPending, report>>
OutAck == /\ DriveSda("out_ack", 1) /\ ClockThen("out_read")
          /\ UNCHANGED <<ok, locals, ackPending, report>>

AckBug == Sda
Ack == 1 - Sda
OutRead ==
  \/ /\ Drive("out_read", 1, 0) /\ ok
     /\ res' = Ack /\ Goto(Returned)
     /\ UNCHANGED <<ok, cmd, c, bit, val, adr, tries, ackPending, report>>
  \/ /\ TimedOut("out_read") /\ res' = -1 /\ pc' = Returned
     /\ UNCHANGED <<ok, cmd, c, bit, val, adr, tries, ackPending, report>>

(* i2c_proto_write() prints what it takes for the acknowledge. *)
Written ==
  /\ pc = "written" /\ told' = IF res # 0 THEN "ACK" ELSE "NACK"
  /\ Goto("idle") /\ UNCHANGED <<wires, ok, locals, ackPending, found, clean>>

-----------------------------------------------------------------------------
(* i2c_scan(): i2c_stop() and i2c_start() of i2c-algo-bit.c around each    *)
(* address, tried twice.                                                   *)

ScanStopLo == /\ DriveSda("stop_lo", 0) /\ ClockThen("stop_hi")
              /\ UNCHANGED <<ok, locals, ackPending, report>>
ScanOver == adr > ScanMax
ScanStopHi == /\ pc = "stop_hi" /\ Pins(1, sclOut) /\ clean' = FALSE
              /\ Goto(IF ScanOver THEN "idle" ELSE "start_lo")
              /\ UNCHANGED <<ok, locals, ackPending, report>>
ScanStartLo ==
  /\ pc = "start_lo" /\ Pins(0, sclOut) /\ Goto("start_scl")
  /\ clean' = (Scl = 1 /\ Sda = 1)
  /\ UNCHANGED <<ok, locals, ackPending, report>>
ScanStartScl ==
  /\ DriveScl("start_scl", 0) /\ Goto("out_bit")
  /\ c' = 2 * adr /\ bit' = NBits
  /\ UNCHANGED <<ok, cmd, val, res, adr, tries, ackPending, report>>

Tried ==
  /\ pc = "tried" /\ Goto("stop_lo")
  /\ \/ /\ res # 1 /\ tries = 0
        /\ tries' = 1 /\ UNCHANGED <<adr, found>>
     \/ /\ res = 1 \/ tries = 1
        /\ found' = IF res # 0 THEN found \cup {adr} ELSE found
        /\ adr' = adr + 1 /\ tries' = 0
  /\ UNCHANGED <<wires, ok, cmd, c, bit, val, res, ackPending, told, clean>>

-----------------------------------------------------------------------------
(* A character of the command line, and the choice of the mode, which      *)
(* releases both pins with one store.                                      *)

Command(op) ==
  /\ pc = "idle" /\ cmd' = op
  /\ pc' = IF ackPending /\ op # "scan" THEN "acknak" ELSE First(op)
  /\ c' \in IF op = "write" THEN Byte ELSE {0}
  /\ bit' = NBits /\ val' = 0 /\ res' = 0 /\ tries' = 0
  /\ adr' = IF op = "scan" THEN 2 * ScanMin ELSE 0
  /\ told' = "none" /\ found' = {}
  /\ UNCHANGED <<wires, cont, ok, ackPending, clean>>

Open ==
  /\ pc = "idle" /\ Pins(1, 1) /\ ackPending' = FALSE
  /\ cmd' = "open" /\ clean' = FALSE
  /\ UNCHANGED <<pc, cont, ok, c, bit, val, res, adr, tries, report>>

Device == /\ DeviceReleasesScl
          /\ UNCHANGED <<pc, cont, ok, locals, ackPending, report, clean>>

-----------------------------------------------------------------------------
Protocol == AckNak \/ Acked \/ InFree \/ InBit \/ OutBit \/ OutClk \/ OutAck \/ OutRead
            \/ Written
StartBit == StartClockUp \/ StartDataUp \/ StartDataDown \/ StartClockDown \/ StartDone
StopBit == StopClockLow \/ StopDataLow \/ StopDone
Scan == ScanStopLo \/ ScanStopHi \/ ScanStartLo \/ ScanStartScl \/ Tried

Firmware == SclHi \/ Protocol \/ StartBit \/ StopBit \/ Scan
Next == Firmware \/ (\E op \in Ops : Command(op)) \/ Open \/ Device

Spec == Init /\ [][Next]_vars

(* The firmware runs, and its clock passes the timeout; neither the user   *)
(* nor the device owes anything.                                           *)
FairSpec == Spec /\ WF_vars(Firmware)
-----------------------------------------------------------------------------
(* Properties. *)

Labels == {"idle", "rise", "poll", "last", "acknak", "acked", "clock_up", "data_up",
           "data_down", "clock_down", "data_free", "clock_low", "data_low", "data_rise",
           "in_free", "in_bit", "out_bit", "out_clk", "out_ack", "out_read", "written",
           "stop_lo", "stop_hi", "start_lo", "start_scl", "tried"}

TypeOK ==
  /\ sdaOut \in Level /\ sclOut \in Level /\ dev \in Devices
  /\ pc \in Labels /\ cont \in Labels /\ ok \in BOOLEAN /\ clean \in BOOLEAN
  /\ cmd \in Ops \cup {"open"} /\ ackPending \in BOOLEAN
  /\ c \in Byte /\ bit \in 0 .. NBits /\ val \in Byte /\ res \in {-1, 0, 1}
  /\ adr \in 0 .. ScanMax + 1 /\ tries \in {0, 1}
  /\ told \in {"none", "ACK", "NACK"} /\ found \subseteq 0 .. ScanMax

(* In a frame that began with a START on free wires and lost no clock      *)
(* since, firmware and device agree between commands on where they are:    *)
(* at the start of a byte, or at its acknowledge if one is pending.        *)
InStep ==
  pc = "idle" /\ clean =>
    /\ sclOut = 0
    /\ IF ackPending THEN dev.phase \in {"ack", "mack", "deaf"}
       ELSE \/ dev.phase = "deaf"
            \/ dev.phase \in {"recv", "send"} /\ dev.n = NBits

(* An acknowledge that i2c_outb() reads comes from the device, for exactly *)
(* the byte that was to be sent.                                           *)
WriteHeard ==
  pc = "out_read" /\ ok /\ clean /\ Sda = 0 => dev.phase = "ack" /\ dev.reg = c

(* A byte read from a sending device is the byte it sent.                  *)
ReadTruth ==
  pc = "idle" /\ cmd = "read" /\ res = 0 /\ clean /\ dev.phase = "mack" => val = dev.out

(* i2c_mode.c:98 "assert: sda is high": acknak() finds the firmware's SDA  *)
(* released, so a NACK it is to send is one.                               *)
AckNakFindsSdaFree == pc = "acknak" => sdaOut = 1

(* SDA moves while SCL is high only where the code means a START or a STOP,*)
(* unless SCL was not down when the command came ("assert: scl is low").   *)
NoStrayCondition ==
  [][Condition => \/ pc \in {"data_up", "data_down", "data_rise"}
                  \/ pc \in {"stop_lo", "stop_hi", "start_lo"}
                  \/ sclOut = 1 /\ pc \in {"acknak", "in_free", "out_bit", "idle"}]_vars

(* The last byte read before [ or ] is not acknowledged: a device that is  *)
(* acknowledged goes on sending and may hold SDA against the STOP.         *)
LastByteNotAcked ==
  [][clean /\ dev.phase = "mack" /\ dev'.phase = "send" => cmd \in {"read", "write"}]_vars

(* ] ends a clean frame for the device too, unless it was addressed for    *)
(* reading and never read from.                                            *)
StopEndsFrame ==
  [][pc = "data_rise" /\ ok /\ clean /\ dev.phase # "send" => dev'.phase = "off"]_vars

(* Every command ends, whatever the device does to SCL. *)
CommandEnds == (pc # "idle") ~> (pc = "idle")

(* An address the scan finds in a clean frame is the device's. *)
FoundIsThere ==
  [][\A a \in found' \ found : clean => a = DevAddr]_vars

-----------------------------------------------------------------------------
(* What comments say and the code does not do. *)

(* i2c-algo-bit.c:156, i2c_outb(): "1 if the device acknowledged", and    *)
(* :234, try_address(): "1 chip answered".  So ACK on a WRITE line and an  *)
(* address in the list of a scan each follow a 1.                          *)
ReportedWasAcked ==
  [][(told # "ACK" /\ told' = "ACK") \/ ~(found' \subseteq found) => res = 1]_vars
=============================================================================
