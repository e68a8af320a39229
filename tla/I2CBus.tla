-------------------------------- MODULE I2CBus --------------------------------
(***************************************************************************)
(* The two I2C wires, the firmware's pins on them (i2c0.c) and a device.   *)
(*                                                                         *)
(* A pin of the firmware is never driven high: its direction bit makes it  *)
(* pull the wire down (0) or let it float (1).  The device is not part of  *)
(* the repository; it keeps the rules of the bus as the code of            *)
(* i2c-algo-bit.c expects: it moves SDA only while SCL is low, pulls SCL   *)
(* down only while it is low and for as long as it likes (stretching),     *)
(* acknowledges its own address or not, receives or sends bytes after it,  *)
(* and takes START and STOP whenever SDA moves while SCL is high.          *)
(***************************************************************************)
EXTENDS Bits

CONSTANTS NBits,     \* bits of a byte on the bus: 8
          DevAddr    \* address of the device

ASSUME BitsAssumption == NBits \in Nat /\ NBits >= 2
ASSUME DevAddrAssumption == DevAddr \in 0 .. Pow2[NBits - 1] - 1

VARIABLES sdaOut, sclOut,   \* direction of the firmware's pins, 1 = released
          dev               \* the device

wires == <<sdaOut, sclOut, dev>>

Level == {0, 1}
Byte == 0 .. Pow2[NBits] - 1

(* Phases: outside a frame, receiving, acknowledging, sending, waiting for *)
(* the master's acknowledge, not taking part until the next START.         *)
Devices == [sda : Level, scl : Level,
            phase : {"off", "recv", "ack", "send", "mack", "deaf"},
            n : 0 .. NBits,      \* bits of the byte still to come
            reg : Byte,          \* the bits received
            out : Byte,          \* the byte being sent
            first : BOOLEAN]     \* the byte is the address

Sda == IF sdaOut = 1 /\ dev.sda = 1 THEN 1 ELSE 0
Scl == IF sclOut = 1 /\ dev.scl = 1 THEN 1 ELSE 0

BusInit ==
  /\ sdaOut = 1 /\ sclOut = 1
  /\ dev = [sda |-> 1, scl |-> 1, phase |-> "off", n |-> 0, reg |-> 0,
            out |-> 0, first |-> FALSE]

-----------------------------------------------------------------------------
(* The device. *)

(* SCL rises: the level of SDA is a bit. *)
Sampled(d, level) ==
  CASE d.phase = "recv" -> [d EXCEPT !.n = IF @ = 0 THEN 0 ELSE @ - 1,
                                     !.reg = (2 * @ + level) % Pow2[NBits]]
    [] d.phase = "send" -> [d EXCEPT !.n = IF @ = 0 THEN 0 ELSE @ - 1]
    [] d.phase = "mack" -> [d EXCEPT !.reg = level]
    [] OTHER -> d

Receiving(d) == [d EXCEPT !.phase = "recv", !.n = NBits, !.reg = 0,
                          !.out = 0, !.first = FALSE, !.sda = 1]
Sending(d) == {[d EXCEPT !.phase = "send", !.n = NBits, !.out = o,
                         !.reg = 0, !.first = FALSE, !.sda = BitOf(o, NBits - 1)] : o \in Byte}
Deaf(d) == [d EXCEPT !.phase = "deaf", !.sda = 1, !.n = 0, !.reg = 0, !.out = 0,
                     !.first = FALSE]

(* SCL falls: the device may move SDA for the next bit. *)
Turns(d) ==
  CASE d.phase = "recv" /\ d.n > 0 -> {[d EXCEPT !.sda = 1]}
    [] d.phase = "recv" /\ d.n = 0 ->
         {Deaf(d)} \cup {[x EXCEPT !.phase = "ack", !.sda = 0] :
                           x \in {y \in {d} : y.first => y.reg \div 2 = DevAddr}}
    [] d.phase = "ack" -> IF d.first /\ d.reg % 2 = 1 THEN Sending(d)
                          ELSE {Receiving(d)}
    [] d.phase = "send" /\ d.n > 0 -> {[d EXCEPT !.sda = BitOf(d.out, d.n - 1)]}
    [] d.phase = "send" /\ d.n = 0 -> {[d EXCEPT !.phase = "mack", !.sda = 1, !.reg = 1]}
    [] d.phase = "mack" -> IF d.reg = 0 THEN Sending(d) ELSE {Deaf(d)}
    [] OTHER -> {d}

(* Having turned, it may hold SCL down. *)
MayStretch(d) ==
  IF d.phase \in {"off", "deaf"} THEN {d} ELSE {[d EXCEPT !.scl = l] : l \in Level}

-----------------------------------------------------------------------------
(* START and STOP: SDA moves while SCL stays high. *)
StartSeen(sda0, scl0, sda1, scl1) == scl0 = 1 /\ scl1 = 1 /\ sda0 = 1 /\ sda1 = 0
StopSeen(sda0, scl0, sda1, scl1) == scl0 = 1 /\ scl1 = 1 /\ sda0 = 0 /\ sda1 = 1

(* What the device makes of the wires going to levels sda1 and scl1. *)
Sees(sda1, scl1) ==
  CASE StartSeen(Sda, Scl, sda1, scl1) -> {[Receiving(dev) EXCEPT !.first = TRUE]}
    [] StopSeen(Sda, Scl, sda1, scl1) -> {[Deaf(dev) EXCEPT !.phase = "off"]}
    [] Scl = 0 /\ scl1 = 1 -> {Sampled(dev, sda1)}
    [] Scl = 1 /\ scl1 = 0 -> UNION {MayStretch(d) : d \in Turns(dev)}
    [] OTHER -> {dev}

(* The firmware writes the direction bits: setsda(s), setscl(c). *)
Pins(s, c) ==
  /\ sdaOut' = s /\ sclOut' = c
  /\ dev' \in Sees(IF s = 1 /\ dev.sda = 1 THEN 1 ELSE 0,
                   IF c = 1 /\ dev.scl = 1 THEN 1 ELSE 0)

(* The device lets SCL go. *)
DeviceReleasesScl ==
  /\ dev.scl = 0
  /\ dev' = [(IF sclOut = 1 THEN Sampled(dev, Sda) ELSE dev) EXCEPT !.scl = 1]
  /\ UNCHANGED <<sdaOut, sclOut>>

(* A START or a STOP goes over the wires. *)
Condition == Scl = 1 /\ Scl' = 1 /\ Sda' # Sda
=============================================================================
