----------------------------- MODULE I2CModeProofs ------------------------------
(***************************************************************************)
(* The safety properties of the I2C mode, for bytes of any length, every   *)
(* address of the device and every range of the scan: one invariant that   *)
(* says, for each program point, where the firmware and the device are in  *)
(* the frame, preserved by each pin access.                                *)
(***************************************************************************)
EXTENDS I2CMode, NumberLemmas

Waiting == {"rise", "poll", "last"}                      \* inside sclhi()
Returns == {"acked", "in_bit", "out_clk", "out_read", "data_rise", "stop_hi"}
Point == IF pc \in Waiting THEN cont ELSE pc             \* what it waits for

Sends == {"out_bit", "out_clk", "out_ack", "out_read"}   \* i2c_outb()
Scans == {"stop_lo", "stop_hi", "start_lo", "start_scl", "tried"}

(* Who is where: the command at each point, and the loop variables there.  *)
Program ==
  /\ pc \in Waiting => cont \in Returns
  /\ pc = "in_bit" => cont = "in_bit"
  /\ Point \in {"acknak", "acked"} => cmd \in {"start", "stop", "read", "write"}
  /\ Point \in {"in_free", "in_bit"} => cmd = "read"
  /\ Point \in Sends => cmd \in {"write", "scan"}
  /\ Point = "written" => cmd = "write"
  /\ Point \in {"clock_up", "data_up", "data_down", "clock_down", "data_free"} => cmd = "start"
  /\ Point \in {"clock_low", "data_low", "data_rise"} => cmd = "stop"
  /\ Point = "in_bit" => ackPending
  /\ Point \in Scans => cmd = "scan"
  /\ Point \in {"in_bit", "out_bit", "out_clk"} => bit >= 1
  /\ Point \in {"acknak", "acked", "in_free"} => bit = NBits
  /\ Point = "in_bit" => val < Pow2[NBits - bit]
  /\ cmd = "scan" /\ Point \in Sends \cup {"start_lo", "start_scl", "tried"} => adr <= ScanMax
  /\ cmd = "scan" /\ Point \in Sends => c = 2 * adr
  /\ pc = "acknak" => ackPending
  /\ cmd \in {"start", "stop", "write"} /\ Point \notin {"idle", "acknak", "acked"} => ~ackPending

(* What the firmware has done to its pins.                                 *)
PinsAre ==
  /\ pc \in {"poll", "last"} => sclOut = 1
  /\ pc \in {"out_ack", "data_low", "data_free"} => sclOut = 0
  /\ Point = "acked" => sdaOut = IF Acks THEN 0 ELSE 1
  /\ Point \in {"in_bit", "out_read"} => sdaOut = 1
  /\ Point = "out_clk" => sdaOut = SentBit
  /\ Point = "data_rise" => sdaOut = 0
  /\ pc \in {"idle", "acknak"} /\ ackPending => sdaOut = 1

(* What the device keeps to, whatever the firmware does.                   *)
DeviceRules ==
  /\ dev.sda = 0 => dev.phase \in {"ack", "send"}
  /\ dev.phase = "ack" /\ dev.first => dev.reg \div 2 = DevAddr
  /\ dev.phase = "send" => IF Scl = 1 THEN dev.n < NBits /\ dev.sda = BitOf(dev.out, dev.n)
                           ELSE dev.n >= 1 /\ dev.sda = BitOf(dev.out, dev.n - 1)
  /\ dev.phase = "recv" /\ Scl = 0 => dev.n >= 1

(* The device at the start of a byte, and at its acknowledge.              *)
AtByte == \/ dev.phase = "deaf"
          \/ dev.phase = "send" /\ dev.n = NBits
          \/ dev.phase = "recv" /\ dev.n = NBits /\ dev.reg = 0
AtAck == dev.phase \in {"ack", "mack", "deaf"}

(* Bits the device has before it, while the firmware has "bit" of them.    *)
Left == IF Scl = 1 THEN bit - 1 ELSE bit

(* Where the device is, at each point, while a clean frame lasts.          *)
Meets ==
  /\ pc \in Returns \cup {"clock_down", "start_scl"} => Scl = 1
  /\ pc \in Returns => ok
  /\ pc \in {"idle", "acknak", "rise", "clock_up", "data_free", "clock_low", "data_low",
             "in_free", "out_bit", "out_ack", "written", "stop_lo", "tried"} => sclOut = 0
  /\ pc # "start_lo"
  /\ pc = "idle" => IF ackPending THEN AtAck ELSE AtByte
  /\ pc \in {"in_free", "clock_up", "data_free", "clock_low", "data_low", "written"} => AtByte
  /\ pc \in {"clock_down", "start_scl"} =>
       dev.phase = "recv" /\ dev.n = NBits /\ dev.reg = 0 /\ dev.first
  /\ Point \in {"acknak", "acked"} => AtAck
  /\ Point = "acked" /\ dev.phase = "mack" /\ Scl = 1 => dev.reg = sdaOut
  /\ Point = "data_rise" => dev.phase \in {"recv", "send", "deaf"}
  /\ Point = "in_bit" =>
       \/ dev.phase = "deaf"
       \/ dev.phase = "recv" /\ dev.n = Left
       \/ dev.phase = "send" /\ dev.n = Left /\ val = dev.out \div Pow2[bit]
  /\ Point \in {"out_bit", "out_clk"} =>
       /\ \/ dev.phase = "deaf"
          \/ dev.phase = "send" /\ dev.n = Left
          \/ dev.phase = "recv" /\ dev.n = Left /\ dev.reg = c \div Pow2[Left]
       /\ cmd = "scan" => dev.phase = "recv" /\ dev.first
  /\ Point \in {"out_ack", "out_read"} =>
       /\ AtAck
       /\ dev.phase = "ack" => dev.reg = c /\ (cmd = "scan" => dev.first)
  /\ Point = "out_read" /\ dev.phase = "mack" /\ Scl = 1 => dev.reg = 1
  /\ pc = "tried" => res # -1 /\ (res = 1 => adr = DevAddr)
  /\ pc = "idle" /\ cmd = "read" /\ res = 0 /\ dev.phase = "mack" => val = dev.out
Frame == clean => Meets

IInv == TypeOK /\ Program /\ PinsAre /\ DeviceRules /\ Frame

-----------------------------------------------------------------------------
(* Bytes and bits. *)

(* Bytes are the numbers below a power of two.                             *)
LEMMA ByteFacts ==
  /\ NBits \in Nat /\ NBits >= 2
  /\ Byte \subseteq Nat /\ 0 \in Byte /\ 1 \in Byte
  /\ \A x \in Byte : x < Pow2[NBits]
  /\ \A x \in Nat : x < Pow2[NBits] => x \in Byte
  /\ \A x \in Nat : x % Pow2[NBits] \in Byte
<1>1. NBits \in Nat /\ NBits >= 2
  BY BitsAssumption
<1>2. Pow2[NBits] \in Nat /\ Pow2[NBits] >= 2
  <2>1. (NBits - 1) + 1 = NBits /\ NBits - 1 \in Nat
    BY <1>1
  <2>2. Pow2[(NBits - 1) + 1] = 2 * Pow2[NBits - 1] /\ Pow2[NBits - 1] \in Nat \ {0}
    BY <2>1, Pow2Facts
  <2>. QED BY <2>1, <2>2
<1>3. \A x \in Nat : x % Pow2[NBits] \in 0 .. Pow2[NBits] - 1
  BY <1>2
<1>. QED BY <1>1, <1>2, <1>3 DEF Byte

(* A byte is made of its bits, the first above the rest.                   *)
LEMMA BitFacts ==
  /\ \A x \in Byte : x \div Pow2[NBits] = 0 /\ x \div Pow2[0] = x
  /\ \A x \in Byte, k \in Nat :
       /\ BitOf(x, k) \in Level /\ x \div Pow2[k] \in Byte
       /\ x \div Pow2[k] = 2 * (x \div Pow2[k + 1]) + BitOf(x, k)
<1>1. \A x \in Byte : x \in Nat /\ x < Pow2[NBits]
  BY ByteFacts
<1>2. Pow2[NBits] \in Nat \ {0} /\ Pow2[0] = 1
  BY ByteFacts, Pow2Facts
<1>3. \A x \in Byte : x \div Pow2[NBits] = 0 /\ x \div Pow2[0] = x
  BY <1>1, <1>2
<1>4. ASSUME NEW x \in Byte, NEW k \in Nat
      PROVE  /\ BitOf(x, k) \in Level /\ x \div Pow2[k] \in Byte
             /\ x \div Pow2[k] = 2 * (x \div Pow2[k + 1]) + BitOf(x, k)
  <2>1. x \in Nat /\ Pow2[k] \in Nat \ {0}
    BY <1>1, Pow2Facts
  <2>2. x \div Pow2[k] \in Nat /\ x \div Pow2[k] <= x
    BY <2>1
  <2>3. x \div Pow2[k] \in Byte
    BY <2>2, <1>1, <1>2, ByteFacts
  <2>. QED BY <2>1, <2>3, BitsAbove DEF Level
<1>. QED BY <1>3, <1>4

-----------------------------------------------------------------------------
(* The device when SCL rises and when it falls. *)

(* The fields of a device have their types.                                *)
LEMMA DeviceFields ==
  ASSUME NEW d \in Devices
  PROVE  /\ d.sda \in Level /\ d.scl \in Level /\ d.first \in BOOLEAN
         /\ d.n \in Nat /\ d.n <= NBits /\ d.n \in 0 .. NBits
         /\ d.reg \in Byte /\ d.reg \in Nat /\ d.out \in Byte
         /\ d.phase \in {"off", "recv", "ack", "send", "mack", "deaf"}
<1>1. /\ d.sda \in Level /\ d.scl \in Level /\ d.first \in BOOLEAN
      /\ d.n \in 0 .. NBits /\ d.reg \in Byte /\ d.out \in Byte
      /\ d.phase \in {"off", "recv", "ack", "send", "mack", "deaf"}
  BY DEF Devices
<1>2. d.n \in Nat /\ d.n <= NBits /\ d.reg \in Nat
  <2>1. d.n \in Nat /\ d.n <= NBits
    BY <1>1, BitsAssumption
  <2>2. d.reg \in Nat
    BY <1>1, ByteFacts
  <2>. QED BY <2>1, <2>2
<1>. QED BY <1>1, <1>2

(* A rising clock changes the register and the count only.                 *)
LEMMA SampledIs ==
  ASSUME NEW d \in Devices, NEW level \in Level
  PROVE  LET e == Sampled(d, level) IN
         /\ e \in Devices
         /\ e.sda = d.sda /\ e.scl = d.scl /\ e.phase = d.phase
         /\ e.out = d.out /\ e.first = d.first
         /\ e.n = IF d.phase \in {"recv", "send"} /\ d.n # 0 THEN d.n - 1 ELSE d.n
         /\ e.reg = CASE d.phase = "recv" -> (2 * d.reg + level) % Pow2[NBits]
                      [] d.phase = "mack" -> level
                      [] OTHER -> d.reg
<1>1. d.reg \in Nat /\ 2 * d.reg + level \in Nat /\ level \in Byte
  <2>1. d.reg \in Nat
    BY DeviceFields
  <2>2. level = 0 \/ level = 1
    BY DEF Level
  <2>. QED BY <2>1, <2>2, ByteFacts
<1>2. (2 * d.reg + level) % Pow2[NBits] \in Byte
  BY <1>1, ByteFacts
<1>3. d.n # 0 => d.n - 1 \in 0 .. NBits
  BY ByteFacts, DeviceFields
<1>4. CASE d.phase = "recv"
  BY <1>2, <1>3, <1>4 DEF Sampled, Devices
<1>5. CASE d.phase = "send"
  BY <1>3, <1>5 DEF Sampled, Devices
<1>6. CASE d.phase = "mack"
  BY <1>1, <1>6 DEF Sampled, Devices
<1>7. CASE d.phase \notin {"recv", "send", "mack"}
  BY <1>7 DEF Sampled, Devices
<1>. QED BY <1>4, <1>5, <1>6, <1>7

(* The device that begins to send; the one that begins to receive.         *)
StartsSending(e) == e.phase = "send" /\ e.n = NBits /\ e.sda = BitOf(e.out, NBits - 1)
StartsReceiving(e) == e.phase = "recv" /\ e.n = NBits /\ e.reg = 0 /\ e.sda = 1

(* e is what a falling SCL may make of d. *)
Fallen(d, e) ==
  /\ d.phase \in {"off", "deaf"} => e.phase = d.phase /\ e.sda = d.sda
  /\ d.phase = "recv" /\ d.n > 0 =>
       /\ e.phase = "recv" /\ e.sda = 1
       /\ e.n = d.n /\ e.reg = d.reg /\ e.first = d.first
  /\ d.phase = "recv" /\ d.n = 0 =>
       \/ e.phase = "deaf" /\ e.sda = 1
       \/ /\ e.phase = "ack" /\ e.reg = d.reg /\ e.first = d.first
          /\ e.first => e.reg \div 2 = DevAddr
  /\ d.phase = "ack" => StartsSending(e) \/ StartsReceiving(e)
  /\ d.phase = "send" /\ d.n > 0 =>
       /\ e.phase = "send" /\ e.n = d.n /\ e.out = d.out
       /\ e.sda = BitOf(d.out, d.n - 1)
  /\ d.phase = "send" /\ d.n = 0 => e.phase = "mack" /\ e.sda = 1 /\ e.out = d.out
  /\ d.phase = "mack" => IF d.reg = 0 THEN StartsSending(e)
                         ELSE e.phase = "deaf" /\ e.sda = 1

(* What a device may be after a falling clock.                             *)
LEMMA FallIs ==
  ASSUME NEW d \in Devices, NEW e \in UNION {MayStretch(x) : x \in Turns(d)}
  PROVE  e \in Devices /\ Fallen(d, e)
<1>1. /\ NBits \in 0 .. NBits /\ 0 \in 0 .. NBits /\ NBits - 1 \in Nat /\ 1 \in Level
      /\ 0 \in Byte /\ 1 \in Byte /\ 0 \in Level
  BY ByteFacts DEF Level
<1>2. \A x \in Byte, k \in Nat : BitOf(x, k) \in Level
  BY BitFacts
<1>3. ASSUME NEW x \in Turns(d)
      PROVE  x \in Devices /\ Fallen(d, x)
  <2>1. \A x2 \in Sending(d) : x2 \in Devices /\ StartsSending(x2)
    <3>1. TAKE x2 \in Sending(d)
    <3>2. PICK o \in Byte : x2 = [d EXCEPT !.phase = "send", !.n = NBits, !.out = o,
                                  !.reg = 0, !.first = FALSE, !.sda = BitOf(o, NBits - 1)]
      BY DEF Sending
    <3>3. BitOf(o, NBits - 1) \in Level
      BY <1>1, <1>2
    <3>4. /\ x2 \in Devices /\ x2.phase = "send" /\ x2.n = NBits /\ x2.out = o
          /\ x2.sda = BitOf(o, NBits - 1)
      BY <1>1, <3>2, <3>3 DEF Devices
    <3>. QED BY <3>4 DEF StartsSending
  <2>2. Receiving(d) \in Devices /\ StartsReceiving(Receiving(d))
    BY <1>1 DEF Receiving, Devices, StartsReceiving
  <2>3. Deaf(d) \in Devices /\ Deaf(d).phase = "deaf" /\ Deaf(d).sda = 1
    BY <1>1 DEF Deaf, Devices
  <2>0. d.n \in Nat /\ (d.n = 0 <=> ~(d.n > 0))
    BY DeviceFields
  <2>4. CASE d.phase \in {"off", "deaf"}
    BY <2>4, <1>3 DEF Turns, Fallen
  <2>5. CASE d.phase = "recv" /\ d.n > 0
    <3>1. x = [d EXCEPT !.sda = 1]
      BY <2>5, <1>3, <2>0 DEF Turns
    <3>2. /\ x \in Devices /\ x.phase = "recv" /\ x.sda = 1 /\ x.n = d.n
          /\ x.reg = d.reg /\ x.first = d.first
      BY <3>1, <2>5, <1>1 DEF Devices
    <3>3. d.n # 0
      BY <2>5
    <3>. QED BY <3>2, <3>3, <2>5 DEF Fallen
  <2>6. CASE d.phase = "recv" /\ d.n = 0
    <3>1. \/ x = Deaf(d)
          \/ /\ x = [d EXCEPT !.phase = "ack", !.sda = 0]
             /\ d.first => d.reg \div 2 = DevAddr
      BY <2>6, <1>3, <2>0 DEF Turns
    <3>2. CASE x = Deaf(d)
      BY <3>2, <2>3, <2>6 DEF Fallen
    <3>3. CASE x # Deaf(d)
      <4>1. /\ x \in Devices /\ x.phase = "ack" /\ x.reg = d.reg /\ x.first = d.first
            /\ d.first => d.reg \div 2 = DevAddr
        BY <3>1, <3>3, <1>1 DEF Devices
      <4>. QED BY <4>1, <2>6 DEF Fallen
    <3>. QED BY <3>2, <3>3
  <2>7. CASE d.phase = "ack"
    <3>1. x \in Sending(d) \/ x = Receiving(d)
      BY <2>7, <1>3 DEF Turns
    <3>. QED BY <3>1, <2>7, <2>1, <2>2 DEF Fallen
  <2>8. CASE d.phase = "send" /\ d.n > 0
    <3>1. BitOf(d.out, d.n - 1) \in Level
      <4>1. d.n - 1 \in Nat /\ d.out \in Byte
        BY <2>8, DeviceFields
      <4>. QED BY <4>1, <1>2
    <3>2. x = [d EXCEPT !.sda = BitOf(d.out, d.n - 1)]
      BY <2>8, <1>3 DEF Turns
    <3>3. /\ x \in Devices /\ x.phase = "send" /\ x.sda = BitOf(d.out, d.n - 1)
          /\ x.n = d.n /\ x.out = d.out
      BY <3>1, <3>2, <2>8 DEF Devices
    <3>4. d.n # 0
      BY <2>8
    <3>. QED BY <3>3, <3>4, <2>8 DEF Fallen
  <2>9. CASE d.phase = "send" /\ d.n = 0
    <3>1. x = [d EXCEPT !.phase = "mack", !.sda = 1, !.reg = 1]
      BY <2>9, <1>3 DEF Turns
    <3>2. x \in Devices /\ x.phase = "mack" /\ x.sda = 1 /\ x.out = d.out
      BY <3>1, <1>1 DEF Devices
    <3>. QED BY <3>2, <2>9 DEF Fallen
  <2>10. CASE d.phase = "mack"
    <3>1. IF d.reg = 0 THEN x \in Sending(d) ELSE x = Deaf(d)
      BY <2>10, <1>3 DEF Turns
    <3>. QED BY <3>1, <2>10, <2>1, <2>3 DEF Fallen
  <2>12. d.phase \in {"off", "recv", "ack", "send", "mack", "deaf"}
    BY DeviceFields
  <2>. QED BY <2>4, <2>5, <2>6, <2>7, <2>8, <2>9, <2>10, <2>0, <2>12
<1>4. PICK x \in Turns(d) : e \in MayStretch(x)
  OBVIOUS
<1>5. x \in Devices /\ Fallen(d, x)
  BY <1>3
<1>6. \E l \in Level : e = [x EXCEPT !.scl = l]
  <2>1. CASE x.phase \in {"off", "deaf"}
    <3>1. e = x /\ x.scl \in Level /\ x = [x EXCEPT !.scl = x.scl]
      BY <1>4, <1>5, <2>1 DEF MayStretch, Devices
    <3>. QED BY <3>1
  <2>2. CASE x.phase \notin {"off", "deaf"}
    BY <1>4, <2>2 DEF MayStretch
  <2>. QED BY <2>1, <2>2
<1>7. /\ e \in Devices /\ e.sda = x.sda /\ e.phase = x.phase /\ e.n = x.n
      /\ e.reg = x.reg /\ e.out = x.out /\ e.first = x.first
  BY <1>5, <1>6 DEF Devices
<1>. QED BY <1>5, <1>7 DEF Fallen, StartsSending, StartsReceiving

-----------------------------------------------------------------------------
(* The wires.  A level is 1 if both let the wire go. *)

(* A wire is high when nobody pulls it.                                    *)
LEMMA Levels ==
  ASSUME TypeOK
  PROVE  /\ Scl \in Level /\ Sda \in Level
         /\ Scl = 1 <=> sclOut = 1 /\ dev.scl = 1
         /\ Sda = 1 <=> sdaOut = 1 /\ dev.sda = 1
         /\ dev \in Devices /\ sdaOut \in Level /\ sclOut \in Level
         /\ dev.sda \in Level /\ dev.scl \in Level
BY DeviceFields DEF TypeOK, Scl, Sda, Level

(* The level of SDA when the firmware leaves its pin at s.                 *)
With(s) == IF s = 1 /\ dev.sda = 1 THEN 1 ELSE 0

(* What an access of the pins that leaves them at s and k is for the       *)
(* device: START, STOP, SCL rising, falling, held low, or nothing.         *)
Started(d) == [Receiving(d) EXCEPT !.first = TRUE]
Stopped(d) == [Deaf(d) EXCEPT !.phase = "off"]
Lowered(d) == UNION {MayStretch(e) : e \in Turns(d)}

PinsEffect(s, k) ==
  \/ /\ Scl = 1 /\ k = 1 /\ Sda = 1 /\ s = 0
     /\ dev' = Started(dev)
  \/ /\ Scl = 1 /\ k = 1 /\ Sda = 0 /\ s = 1 /\ dev.sda = 1
     /\ dev' = Stopped(dev)
  \/ /\ Scl = 0 /\ k = 1 /\ dev.scl = 1
     /\ dev' = Sampled(dev, With(s))
  \/ /\ Scl = 1 /\ k = 0 /\ dev' \in Lowered(dev)
  \/ /\ Scl = 0 /\ (k = 0 \/ dev.scl = 0) /\ dev' = dev
  \/ /\ Scl = 1 /\ k = 1 /\ Sda = With(s)
     /\ dev' = dev

(* What setting the pins does, by what the wires do.                       *)
LEMMA PinsCases ==
  ASSUME TypeOK, NEW s \in Level, NEW k \in Level, Pins(s, k)
  PROVE  sdaOut' = s /\ sclOut' = k /\ PinsEffect(s, k)
<1>. DEFINE sda1 == With(s)
            scl1 == IF k = 1 /\ dev.scl = 1 THEN 1 ELSE 0
<1>1. sdaOut' = s /\ sclOut' = k /\ dev' \in Sees(sda1, scl1)
  BY DEF Pins, With
<1>2. Scl \in Level /\ Sda \in Level /\ (Scl = 1 => dev.scl = 1)
  BY Levels
<1>3. sda1 \in Level /\ scl1 \in Level
  BY DEF Level, With
<1>4. \/ StartSeen(Sda, Scl, sda1, scl1) /\ dev' = Started(dev)
      \/ StopSeen(Sda, Scl, sda1, scl1) /\ dev' = Stopped(dev)
      \/ Scl = 0 /\ scl1 = 1 /\ dev' = Sampled(dev, sda1)
      \/ Scl = 1 /\ scl1 = 0 /\ dev' \in Lowered(dev)
      \/ /\ ~StartSeen(Sda, Scl, sda1, scl1) /\ ~StopSeen(Sda, Scl, sda1, scl1)
         /\ ~(Scl = 0 /\ scl1 = 1) /\ ~(Scl = 1 /\ scl1 = 0) /\ dev' = dev
  <2>. HIDE DEF sda1, scl1
  <2>. QED BY <1>1 DEF Sees, Started, Stopped, Lowered
<1>5. (scl1 = 1 <=> k = 1 /\ dev.scl = 1) /\ (sda1 = 1 <=> s = 1 /\ dev.sda = 1)
  BY DEF With
<1>6. s \in {0, 1} /\ k \in {0, 1}
  BY DEF Level
<1>7. ASSUME StartSeen(Sda, Scl, sda1, scl1)
      PROVE  Scl = 1 /\ k = 1 /\ Sda = 1 /\ s = 0
  <2>1. Scl = 1 /\ scl1 = 1 /\ Sda = 1 /\ sda1 = 0
    BY <1>7 DEF StartSeen
  <2>2. dev.sda = 1
    BY <2>1, Levels
  <2>. QED BY <2>1, <2>2, <1>5, <1>6
<1>8. ASSUME StopSeen(Sda, Scl, sda1, scl1)
      PROVE  Scl = 1 /\ k = 1 /\ Sda = 0 /\ s = 1 /\ dev.sda = 1
  BY <1>8, <1>5 DEF StopSeen
<1>9. ASSUME ~StartSeen(Sda, Scl, sda1, scl1), ~StopSeen(Sda, Scl, sda1, scl1),
             ~(Scl = 0 /\ scl1 = 1), ~(Scl = 1 /\ scl1 = 0)
      PROVE  \/ Scl = 0 /\ (k = 0 \/ dev.scl = 0)
             \/ Scl = 1 /\ k = 1 /\ Sda = sda1
  <2>. HIDE DEF sda1, scl1
  <2>1. Scl = scl1
    BY <1>9, <1>2, <1>3 DEF Level
  <2>2. Scl = 1 => Sda = sda1
    BY <1>9, <1>2, <1>3, <2>1 DEF StartSeen, StopSeen, Level
  <2>3. dev.scl \in Level
    BY Levels
  <2>. QED BY <2>1, <2>2, <2>3, <1>2, <1>5, <1>6 DEF Level
<1>. HIDE DEF sda1, scl1
<1>10. CASE StartSeen(Sda, Scl, sda1, scl1)
  <2>1. ~(Scl = 0 /\ scl1 = 1) /\ ~(Scl = 1 /\ scl1 = 0) /\ ~StopSeen(Sda, Scl, sda1, scl1)
    BY <1>10 DEF StartSeen, StopSeen
  <2>. QED BY <1>1, <1>4, <1>7, <1>10, <2>1 DEF PinsEffect
<1>11. CASE StopSeen(Sda, Scl, sda1, scl1)
  <2>1. /\ ~(Scl = 0 /\ scl1 = 1) /\ ~(Scl = 1 /\ scl1 = 0)
        /\ ~StartSeen(Sda, Scl, sda1, scl1)
    BY <1>11 DEF StartSeen, StopSeen
  <2>. QED BY <1>1, <1>4, <1>8, <1>11, <2>1 DEF PinsEffect
<1>12. CASE Scl = 0 /\ scl1 = 1
  <2>1. dev' = Sampled(dev, sda1)
    BY <1>4, <1>12 DEF StartSeen, StopSeen
  <2>. QED BY <1>1, <1>5, <1>12, <2>1 DEF sda1, PinsEffect
<1>13. CASE Scl = 1 /\ scl1 = 0
  <2>1. dev' \in Lowered(dev)
    BY <1>4, <1>13 DEF StartSeen, StopSeen
  <2>2. k = 0
    BY <1>2, <1>5, <1>6, <1>13
  <2>. QED BY <1>1, <1>13, <2>1, <2>2 DEF PinsEffect
<1>14. CASE /\ ~StartSeen(Sda, Scl, sda1, scl1) /\ ~StopSeen(Sda, Scl, sda1, scl1)
            /\ ~(Scl = 0 /\ scl1 = 1) /\ ~(Scl = 1 /\ scl1 = 0)
  <2>1. dev' = dev
    BY <1>4, <1>14
  <2>. QED BY <1>1, <1>9, <1>14, <2>1 DEF sda1, PinsEffect
<1>. QED BY <1>10, <1>11, <1>12, <1>13, <1>14

(* The device keeps its rules, whatever the firmware does to the pins.     *)
LEMMA PinsKeepDeviceRules ==
  ASSUME TypeOK, DeviceRules, NEW s \in Level, NEW k \in Level, Pins(s, k)
  PROVE  dev' \in Devices /\ DeviceRules'
<1>1. /\ dev \in Devices /\ dev.scl \in Level /\ sclOut \in Level /\ Scl \in Level
      /\ Scl = 1 <=> sclOut = 1 /\ dev.scl = 1
  BY Levels
<1>2. Scl' = 1 <=> k = 1 /\ dev'.scl = 1
  BY PinsCases DEF Scl
<1>3. /\ NBits \in Nat /\ NBits >= 2 /\ 0 \in Byte /\ 1 \in Level
      /\ NBits \in 0 .. NBits /\ 0 \in 0 .. NBits
  BY ByteFacts DEF Level
<1>4. CASE dev' = Started(dev)
  <2>1. /\ dev' \in Devices /\ dev'.phase = "recv" /\ dev'.n = NBits /\ dev'.sda = 1
    BY <1>1, <1>3, <1>4 DEF Receiving, Devices, Started
  <2>. QED BY <2>1, <1>3 DEF DeviceRules
<1>5. CASE dev' = Stopped(dev)
  <2>1. Deaf(dev) \in Devices /\ Deaf(dev).sda = 1
    BY <1>1, <1>3 DEF Deaf, Devices
  <2>2. dev' \in Devices /\ dev'.phase = "off" /\ dev'.sda = 1
    BY <1>5, <2>1 DEF Devices, Stopped
  <2>. QED BY <2>2 DEF DeviceRules
<1>6. CASE Scl = 0 /\ k = 1 /\ dev.scl = 1
           /\ dev' = Sampled(dev, With(s))
  <2>1. With(s) \in Level
    BY DEF Level, With
  <2>2. /\ dev' \in Devices /\ dev'.sda = dev.sda /\ dev'.scl = 1 /\ dev'.phase = dev.phase
        /\ dev'.out = dev.out /\ dev'.first = dev.first
        /\ dev.phase = "send" => dev'.n = IF dev.n # 0 THEN dev.n - 1 ELSE dev.n
        /\ dev.phase = "ack" => dev'.reg = dev.reg
    BY <1>1, <1>6, <2>1, SampledIs
  <2>3. Scl' = 1 /\ Scl # 1
    BY <1>2, <1>6, <2>2
  <2>4. dev.phase = "send" => /\ dev'.n < NBits
                              /\ dev.sda = BitOf(dev.out, dev'.n)
    <3>1. SUFFICES ASSUME dev.phase = "send"
                   PROVE dev'.n < NBits /\ dev.sda = BitOf(dev.out, dev'.n)
      OBVIOUS
    <3>2. dev.n >= 1 /\ dev.sda = BitOf(dev.out, dev.n - 1)
      BY <3>1, <2>3 DEF DeviceRules
    <3>3. dev.n \in Nat /\ dev.n <= NBits
      BY <1>1, DeviceFields
    <3>4. dev'.n = dev.n - 1
      BY <3>1, <3>2, <3>3, <2>2
    <3>. QED BY <1>3, <3>2, <3>3, <3>4
  <2>. QED BY <2>2, <2>3, <2>4 DEF DeviceRules
<1>7. CASE Scl = 1 /\ k = 0 /\ dev' \in Lowered(dev)
  <2>1. dev' \in Devices /\ Fallen(dev, dev')
    BY <1>1, <1>7, FallIs DEF Lowered
  <2>2. Scl' # 1 /\ dev.n \in Nat
    BY <1>1, <1>2, <1>7, DeviceFields
  <2>3. DeviceRules'
    <3>1. CASE dev.phase \in {"off", "deaf"}
      BY <2>1, <2>2, <3>1 DEF DeviceRules, Fallen
    <3>2. CASE dev.phase = "recv" /\ dev.n > 0
      BY <2>1, <2>2, <3>2 DEF DeviceRules, Fallen
    <3>3. CASE dev.phase = "recv" /\ dev.n = 0
      BY <2>1, <2>2, <3>3 DEF DeviceRules, Fallen
    <3>4. CASE dev.phase = "ack"
      BY <2>1, <2>2, <3>4, <1>3 DEF DeviceRules, Fallen, StartsSending, StartsReceiving
    <3>5. CASE dev.phase = "send" /\ dev.n > 0
      BY <2>1, <2>2, <3>5 DEF DeviceRules, Fallen
    <3>6. CASE dev.phase = "send" /\ dev.n = 0
      BY <2>1, <2>2, <3>6 DEF DeviceRules, Fallen
    <3>7. CASE dev.phase = "mack"
      BY <2>1, <2>2, <3>7, <1>3 DEF DeviceRules, Fallen, StartsSending
    <3>8. dev.phase \in {"off", "recv", "ack", "send", "mack", "deaf"}
      BY <1>1, DeviceFields
    <3>. QED BY <2>2, <3>1, <3>2, <3>3, <3>4, <3>5, <3>6, <3>7, <3>8
  <2>. QED BY <2>1, <2>3
<1>8. CASE dev' = dev /\ Scl' = Scl
  BY <1>1, <1>8 DEF DeviceRules
<1>9. ((Scl = 0 /\ (k = 0 \/ dev.scl = 0)) \/ (Scl = 1 /\ k = 1)) /\ dev' = dev => Scl' = Scl
  <2>1. Scl' = (IF k = 1 /\ dev'.scl = 1 THEN 1 ELSE 0)
    BY PinsCases DEF Scl
  <2>. QED BY <1>1, <2>1
<1>10. PinsEffect(s, k)
  BY PinsCases
<1>11. ((Scl = 0 /\ (k = 0 \/ dev.scl = 0)) \/ (Scl = 1 /\ k = 1)) /\ dev' = dev
         => dev' \in Devices /\ DeviceRules'
  BY <1>8, <1>9
<1>12. dev' = Started(dev) \/ dev' = Stopped(dev) => dev' \in Devices /\ DeviceRules'
  BY <1>4, <1>5
<1>13. Scl = 1 /\ k = 0 /\ dev' \in Lowered(dev) => dev' \in Devices /\ DeviceRules'
  BY <1>7
<1>14. Scl = 0 /\ k = 1 /\ dev.scl = 1 /\ dev' = Sampled(dev, With(s))
         => dev' \in Devices /\ DeviceRules'
  BY <1>6
<1>. QED BY <1>10, <1>11, <1>12, <1>13, <1>14 DEF PinsEffect

(* A device that lets go of the clock keeps its rules.                     *)
LEMMA ReleaseKeepsDeviceRules ==
  ASSUME TypeOK, DeviceRules, DeviceReleasesScl
  PROVE  /\ dev' \in Devices /\ DeviceRules' /\ dev'.sda = dev.sda
         /\ dev'.scl = 1 /\ Scl = 0 /\ sclOut' = sclOut /\ sdaOut' = sdaOut
         /\ dev'.phase = dev.phase /\ dev'.out = dev.out /\ dev'.first = dev.first
         /\ sclOut = 0 => dev'.n = dev.n /\ dev'.reg = dev.reg /\ Scl' = 0
         /\ sclOut = 1 => /\ dev'.n = Sampled(dev, Sda).n /\ dev'.reg = Sampled(dev, Sda).reg
                          /\ Scl' = 1
<1>. DEFINE d == IF sclOut = 1 THEN Sampled(dev, Sda) ELSE dev
<1>1. /\ dev \in Devices /\ Sda \in Level /\ dev.scl = 0 /\ Scl = 0 /\ sclOut \in {0, 1}
      /\ dev' = [d EXCEPT !.scl = 1] /\ sclOut' = sclOut /\ sdaOut' = sdaOut
  BY Levels DEF DeviceReleasesScl, Level
<1>2. /\ d \in Devices /\ d.sda = dev.sda /\ d.phase = dev.phase
      /\ d.out = dev.out /\ d.first = dev.first
      /\ dev.phase = "send" => d.n = IF sclOut = 1 /\ dev.n # 0 THEN dev.n - 1 ELSE dev.n
      /\ dev.phase = "ack" => d.reg = dev.reg
  BY <1>1, SampledIs
<1>3. sclOut = 0 => d = dev
  BY <1>1
<1>4. sclOut = 1 => d = Sampled(dev, Sda)
  OBVIOUS
<1>. HIDE DEF d
<1>5. /\ dev' \in Devices /\ dev'.sda = d.sda /\ dev'.scl = 1 /\ dev'.phase = d.phase
      /\ dev'.n = d.n /\ dev'.reg = d.reg /\ dev'.out = d.out /\ dev'.first = d.first
  BY <1>1, <1>2 DEF Devices, Level
<1>6. Scl' = IF sclOut = 1 THEN 1 ELSE 0
  BY <1>1, <1>5 DEF Scl
<1>7. DeviceRules'
  <2>1. dev.phase = "send" => IF sclOut = 1
                              THEN d.n < NBits /\ dev.sda = BitOf(dev.out, d.n)
                              ELSE d.n >= 1 /\ dev.sda = BitOf(dev.out, d.n - 1)
    <3>1. SUFFICES ASSUME dev.phase = "send"
                   PROVE IF sclOut = 1 THEN d.n < NBits /\ dev.sda = BitOf(dev.out, d.n)
                         ELSE d.n >= 1 /\ dev.sda = BitOf(dev.out, d.n - 1)
      OBVIOUS
    <3>2. dev.n >= 1 /\ dev.sda = BitOf(dev.out, dev.n - 1)
      BY <3>1, <1>1 DEF DeviceRules
    <3>3. dev.n \in Nat /\ dev.n <= NBits /\ NBits \in Nat
      BY <1>1, DeviceFields, ByteFacts
    <3>4. d.n = IF sclOut = 1 THEN dev.n - 1 ELSE dev.n
      BY <1>2, <3>1, <3>2, <3>3
    <3>. QED BY <3>2, <3>3, <3>4
  <2>2. sclOut = 0 => (dev.phase = "recv" => d.n >= 1)
    BY <1>1, <1>3 DEF DeviceRules
  <2>. QED BY <1>1, <1>2, <1>5, <1>6, <2>1, <2>2 DEF DeviceRules
<1>. QED BY <1>1, <1>2, <1>3, <1>4, <1>5, <1>6, <1>7

-----------------------------------------------------------------------------
(* The three uses of the pins in a frame: SDA is set while SCL is low, SCL *)
(* is let go, SCL is pulled down.                                          *)

(* While the clock is low the data wire says nothing.                      *)
LEMMA PinsQuiet ==
  ASSUME TypeOK, sclOut = 0, NEW s \in Level, Pins(s, 0)
  PROVE  dev' = dev /\ Scl = 0 /\ Scl' = 0 /\ sdaOut' = s /\ sclOut' = 0
<1>1. Scl = 0 /\ 0 \in Level
  BY DEF Scl, Level
<1>2. dev' = dev /\ sdaOut' = s /\ sclOut' = 0
  BY <1>1, PinsCases DEF PinsEffect
<1>. QED BY <1>1, <1>2 DEF Scl

(* The clock rises unless a device holds it.                               *)
LEMMA PinsRise ==
  ASSUME TypeOK, sclOut = 0, Pins(sdaOut, 1)
  PROVE  /\ sdaOut' = sdaOut /\ sclOut' = 1 /\ Scl = 0
         /\ dev.scl = 1 => dev' = Sampled(dev, Sda) /\ Scl' = 1 /\ dev'.scl = 1
         /\ dev.scl # 1 => dev' = dev /\ Scl' = 0
<1>1. Scl = 0 /\ 1 \in Level /\ sdaOut \in Level /\ dev.scl \in {0, 1}
  BY Levels DEF Scl, Level
<1>2. /\ sdaOut' = sdaOut /\ sclOut' = 1
      /\ \/ dev.scl = 1 /\ dev' = Sampled(dev, With(sdaOut))
         \/ dev.scl = 0 /\ dev' = dev
  BY <1>1, PinsCases DEF PinsEffect
<1>3. Sda = With(sdaOut)
  BY DEF Sda, With
<1>4. dev.scl = 1 => dev' = Sampled(dev, Sda)
  BY <1>2, <1>3
<1>5. dev.scl = 1 => dev'.scl = 1
  <2>1. Sda \in Level /\ dev \in Devices
    BY Levels
  <2>2. Sampled(dev, Sda).scl = dev.scl
    BY <2>1, SampledIs
  <2>. QED BY <1>4, <2>2
<1>. QED BY <1>1, <1>2, <1>4, <1>5 DEF Scl

(* The clock falls at once.                                                *)
LEMMA PinsFall ==
  ASSUME TypeOK, Scl = 1, NEW s \in Level, Pins(s, 0)
  PROVE  /\ sdaOut' = s /\ sclOut' = 0 /\ Scl' = 0
         /\ dev' \in Devices /\ Fallen(dev, dev')
<1>1. 0 \in Level /\ dev \in Devices
  BY Levels DEF Level
<1>2. /\ sdaOut' = s /\ sclOut' = 0
      /\ dev' \in Lowered(dev)
  BY <1>1, PinsCases DEF PinsEffect
<1>. QED BY <1>1, <1>2, FallIs DEF Scl, Lowered

(* A change of SCL alone is no START and no STOP, nor is a quiet wire.     *)
LEMMA ClockIsNoCondition ==
  ASSUME TypeOK, NEW k \in Level, Pins(sdaOut, k)
  PROVE  ~Condition
<1>1. SUFFICES ASSUME Scl = 1, Scl' = 1 PROVE Sda' = Sda
  BY DEF Condition
<1>2. sdaOut \in Level /\ sdaOut' = sdaOut /\ sclOut' = k
  BY Levels, PinsCases
<1>3. k = 1
  BY <1>1, <1>2 DEF Scl
<1>4. Sda = With(sdaOut)
  BY DEF Sda, With
<1>5. dev' = dev
  BY <1>1, <1>2, <1>3, <1>4, PinsCases DEF PinsEffect, With
<1>. QED BY <1>2, <1>5 DEF Sda

-----------------------------------------------------------------------------
(* The wires and the device after any step. *)

(* Each step sets the pins, leaves the wires or is the device's.           *)
LEMMA StepIs ==
  ASSUME IInv, Next
  PROVE  \/ \E s, k \in Level : Pins(s, k)
         \/ UNCHANGED wires
         \/ DeviceReleasesScl
<1>1. 0 \in Level /\ 1 \in Level /\ sdaOut \in Level /\ sclOut \in Level
  BY Levels DEF Level, IInv
<1>2. ASSUME pc = "out_bit" PROVE SentBit \in Level
  <2>1. bit >= 1 /\ bit \in Nat /\ c \in Byte
    BY <1>2, ByteFacts DEF IInv, TypeOK, Program, Point, Waiting
  <2>2. bit - 1 \in Nat
    BY <2>1
  <2>. QED BY <2>1, <2>2, BitFacts DEF SentBit
<1>3. ASSUME Firmware PROVE UNCHANGED wires \/ \E s, k \in Level : Pins(s, k)
  BY <1>1, <1>2, <1>3 DEF Firmware, SclHi, Protocol, StartBit, StopBit, Scan,
      Drive, DriveSda, DriveScl, TimedOut, Acks,
      SclRelease, SclHigh, SclExpire, SclTimeout, AckNak, Acked, InFree, InBit, OutBit,
      OutClk, OutAck, OutRead, Written, StartClockUp, StartDataUp, StartDataDown,
      StartClockDown, StartDone, StopClockLow, StopDataLow, StopDone, ScanStopLo,
      ScanStopHi, ScanStartLo, ScanStartScl, Tried
<1>4. ASSUME NEW op \in Ops, Command(op) PROVE UNCHANGED wires
  BY <1>4 DEF Command
<1>5. ASSUME Open PROVE Pins(1, 1)
  BY <1>5 DEF Open
<1>6. ASSUME Device PROVE DeviceReleasesScl
  BY <1>6 DEF Device
<1>. QED BY <1>1, <1>3, <1>4, <1>5, <1>6 DEF Next

(* Each step keeps the types of the wires and the device's rules.          *)
LEMMA WiresStep ==
  ASSUME IInv, Next
  PROVE  sdaOut' \in Level /\ sclOut' \in Level /\ dev' \in Devices /\ DeviceRules'
<1>1. TypeOK /\ DeviceRules /\ dev \in Devices /\ sdaOut \in Level /\ sclOut \in Level
  BY DEF IInv, TypeOK
<1>2. ASSUME NEW s \in Level, NEW k \in Level, Pins(s, k)
      PROVE  sdaOut' \in Level /\ sclOut' \in Level /\ dev' \in Devices /\ DeviceRules'
  BY <1>1, <1>2, PinsKeepDeviceRules, PinsCases
<1>3. ASSUME UNCHANGED wires
      PROVE  sdaOut' \in Level /\ sclOut' \in Level /\ dev' \in Devices /\ DeviceRules'
  BY <1>1, <1>3 DEF wires, DeviceRules, Scl
<1>4. ASSUME DeviceReleasesScl
      PROVE  sdaOut' \in Level /\ sclOut' \in Level /\ dev' \in Devices /\ DeviceRules'
  BY <1>1, <1>4, ReleaseKeepsDeviceRules
<1>. QED BY <1>2, <1>3, <1>4, StepIs

-----------------------------------------------------------------------------
(* Each part of the invariant after each step. *)

(* A bit more behind the bits read so far. *)
LEMMA OneBitMore ==
  ASSUME NEW b \in 1 .. NBits, NEW x \in Nat, x < Pow2[NBits - b], NEW l \in Level
  PROVE  2 * x + l \in Nat /\ 2 * x + l < Pow2[NBits - (b - 1)] /\ 2 * x + l \in Byte
<1>1. NBits - b \in Nat /\ NBits - (b - 1) = (NBits - b) + 1 /\ NBits - (b - 1) <= NBits
  BY BitsAssumption
<1>2. Pow2[(NBits - b) + 1] = 2 * Pow2[NBits - b] /\ Pow2[NBits - b] \in Nat
  BY <1>1, Pow2Facts
<1>3. 2 * x + l \in Nat /\ 2 * x + l < Pow2[NBits - (b - 1)]
  BY <1>1, <1>2 DEF Level
<1>4. NBits \in Nat /\ NBits - (b - 1) \in Nat
  BY <1>1, BitsAssumption
<1>5. Pow2[NBits - (b - 1)] <= Pow2[NBits] /\ Pow2[NBits - (b - 1)] \in Nat /\ Pow2[NBits] \in Nat
  BY <1>1, <1>4, Pow2Grows, Pow2Facts
<1>. QED BY <1>3, <1>5, ByteFacts

(* An address with a read/write bit behind it is a byte.                   *)
LEMMA AddressByte ==
  ASSUME NEW a \in Nat, a <= ScanMax
  PROVE  2 * a \in Byte
<1>1. NBits - 1 \in Nat /\ (NBits - 1) + 1 = NBits
  BY BitsAssumption
<1>2. Pow2[NBits] = 2 * Pow2[NBits - 1] /\ Pow2[NBits - 1] \in Nat
  BY <1>1, Pow2Facts
<1>. QED BY <1>2, ScanAssumption, ByteFacts

(* Every pin access leaves the variables in their ranges: no counter of a  *)
(* loop passes its end and no byte register outgrows a byte.               *)
LEMMA TypeStep ==
  ASSUME IInv, Next
  PROVE  TypeOK'
<1>0. TypeOK /\ Program /\ PinsAre /\ DeviceRules /\ Frame
  BY DEF IInv
<1>1. CASE SclRelease
  BY <1>0, <1>1, WiresStep DEF SclRelease, Drive, DriveScl, TypeOK, locals,
      report, Labels
<1>2. CASE SclHigh
  BY <1>0, <1>2, WiresStep DEF SclHigh, TypeOK, locals, report, Labels
<1>3. CASE SclExpire
  BY <1>0, <1>3, WiresStep DEF SclExpire, TypeOK, locals, report, Labels
<1>4. CASE SclTimeout
  <2>1. clean' \in BOOLEAN /\ ok' \in BOOLEAN
    BY <1>0, <1>4 DEF SclTimeout, TypeOK
  <2>. QED BY <1>0, <1>4, <2>1, WiresStep DEF SclTimeout,
      TypeOK, locals, report, Labels
<1>5. CASE AckNak
  BY <1>0, <1>5, WiresStep DEF AckNak, Drive, DriveSda, ClockThen, TypeOK,
      locals, report, Labels
<1>6. CASE Acked
  <2>1. clean' \in BOOLEAN /\ ackPending' \in BOOLEAN
    BY <1>0, <1>6 DEF Acked, Drive, DriveScl, TimedOut, TypeOK
  <2>2. cmd \in Ops
    BY <1>0, <1>6 DEF Acked, Drive, DriveScl, TimedOut, Program, Point, Waiting, Ops
  <2>3. pc' \in Labels
    BY <1>6, <2>2 DEF Acked, First, Ops, Labels
  <2>. QED BY <1>0, <1>6, <2>1, <2>3, WiresStep DEF Acked, Drive, DriveScl, TimedOut, TypeOK,
      locals, report
<1>7. CASE InFree
  BY <1>0, <1>7, ByteFacts, WiresStep DEF InFree, Drive, DriveSda, ClockThen, TypeOK, report, Labels
<1>8. CASE InBit
  <2>1. CASE ok
    <3>1. /\ val' = 2 * val + Sda /\ bit' = bit - 1 /\ res' = 0
          /\ pc' \in {"rise", "idle"} /\ pc = "in_bit"
          /\ UNCHANGED <<cont, ok, cmd, c, adr, tries, ackPending, report>>
          /\ clean' = (clean /\ ~Condition)
      BY <1>8, <2>1 DEF InBit, Drive, TimedOut
    <3>2. bit \in 1 .. NBits /\ val < Pow2[NBits - bit] /\ val \in Nat
      BY <1>0, <3>1, ByteFacts DEF TypeOK, Program, Point, Waiting
    <3>3. val' \in Byte
      BY <1>0, <3>1, <3>2, OneBitMore, Levels
    <3>4. clean' \in BOOLEAN
      BY <3>1
    <3>5. bit' \in 0 .. NBits
      BY <3>1, <3>2, BitsAssumption
    <3>. QED BY <1>0, <3>1, <3>3, <3>4, <3>5, WiresStep DEF TypeOK, report, Labels
  <2>2. CASE ~ok
    BY <1>0, <1>8, <2>2, WiresStep DEF InBit, Drive, TimedOut, TypeOK, report, Labels
  <2>. QED BY <2>1, <2>2
<1>9. CASE OutBit
  BY <1>0, <1>9, WiresStep DEF OutBit, Drive, DriveSda, ClockThen, TypeOK,
      locals, report, Labels
<1>10. CASE OutClk
  <2>1. bit >= 1 /\ bit \in Nat /\ bit - 1 \in 0 .. NBits
    BY <1>0, <1>10, ByteFacts DEF TypeOK, Program, Point, Waiting, OutClk, Drive, DriveScl, TimedOut
  <2>. QED BY <1>0, <1>10, <2>1, WiresStep DEF OutClk, Drive, DriveScl, TimedOut, Goto,
      Returned, TypeOK, report, Labels
<1>11. CASE OutAck
  BY <1>0, <1>11, WiresStep DEF OutAck, Drive, DriveSda, ClockThen, TypeOK,
      locals, report, Labels
<1>12. CASE OutRead
  <2>1. Ack \in {0, 1}
    BY <1>0, Levels DEF Ack, Level
  <2>. QED BY <1>0, <1>12, <2>1, WiresStep DEF OutRead, Drive, TimedOut, Goto, Returned,
      TypeOK, report, Labels
<1>13. CASE Written
  BY <1>0, <1>13, WiresStep DEF Written, Goto, TypeOK, locals, report, Labels
<1>14. CASE StartClockUp
  BY <1>0, <1>14, WiresStep DEF StartClockUp, Drive, DriveScl, Goto, TypeOK,
      locals, report, Labels
<1>15. CASE StartDataUp
  BY <1>0, <1>15, WiresStep DEF StartDataUp, Drive, DriveSda, Goto, TypeOK,
      locals, report, Labels
<1>16. CASE StartDataDown
  BY <1>0, <1>16, WiresStep DEF StartDataDown, Goto, TypeOK, locals, report,
      Labels
<1>17. CASE StartClockDown
  BY <1>0, <1>17, WiresStep DEF StartClockDown, Drive, DriveScl, Goto, TypeOK,
      locals, report, Labels
<1>18. CASE StartDone
  BY <1>0, <1>18, WiresStep DEF StartDone, Drive, DriveSda, Goto, TypeOK,
      locals, report, Labels
<1>19. CASE StopClockLow
  BY <1>0, <1>19, WiresStep DEF StopClockLow, Drive, DriveScl, Goto, TypeOK,
      locals, report, Labels
<1>20. CASE StopDataLow
  BY <1>0, <1>20, WiresStep DEF StopDataLow, Drive, DriveSda, ClockThen,
      TypeOK, locals, report, Labels
<1>21. CASE StopDone
  <2>1. clean' \in BOOLEAN /\ ok' \in BOOLEAN
    BY <1>0, <1>21 DEF StopDone, TypeOK
  <2>. QED BY <1>0, <1>21, <2>1, WiresStep DEF StopDone, Goto,
      TypeOK, locals, report, Labels
<1>22. CASE ScanStopLo
  BY <1>0, <1>22, WiresStep DEF ScanStopLo, Drive, DriveSda, ClockThen,
      TypeOK, locals, report, Labels
<1>23. CASE ScanStopHi
  <2>1. clean' \in BOOLEAN /\ ok' \in BOOLEAN
    BY <1>0, <1>23 DEF ScanStopHi, TypeOK
  <2>. QED BY <1>0, <1>23, <2>1, WiresStep DEF ScanStopHi, Goto, ScanOver,
      TypeOK, locals, report, Labels
<1>24. CASE ScanStartLo
  BY <1>0, <1>24, WiresStep DEF ScanStartLo, Goto, TypeOK, locals, report,
      Labels
<1>25. CASE ScanStartScl
  <2>1. adr \in Nat /\ adr <= ScanMax /\ NBits \in 0 .. NBits
    BY <1>0, <1>25, ByteFacts, ScanAssumption DEF TypeOK, Program, Point, Waiting, Scans,
      ScanStartScl, Drive, DriveScl
  <2>2. 2 * adr \in Byte
    BY <2>1, AddressByte
  <2>. QED BY <1>0, <1>25, <2>1, <2>2, WiresStep DEF ScanStartScl, Drive, DriveScl, Goto,
      TypeOK, report, Labels
<1>26. CASE Tried
  <2>1. adr \in 0 .. ScanMax
    BY <1>0, <1>26, ScanAssumption DEF TypeOK, Program, Point, Waiting, Scans, Tried
  <2>2. adr' \in 0 .. ScanMax + 1 /\ tries' \in {0, 1}
    <3>1. adr \in 0 .. ScanMax + 1 /\ adr + 1 \in 0 .. ScanMax + 1
      BY <2>1, ScanAssumption
    <3>. QED BY <1>26, <3>1 DEF Tried
  <2>3. found' \subseteq 0 .. ScanMax
    <3>1. found \subseteq 0 .. ScanMax /\ found \cup {adr} \subseteq 0 .. ScanMax
      BY <1>0, <2>1 DEF TypeOK
    <3>2. found' = found \/ found' = found \cup {adr}
      BY <1>26 DEF Tried
    <3>. QED BY <3>1, <3>2
  <2>. QED BY <1>0, <1>26, <2>2, <2>3, WiresStep DEF Tried, Goto, TypeOK, Labels
<1>27. CASE Open
  BY <1>0, <1>27, WiresStep DEF Open, TypeOK, locals, report, Labels
<1>28. CASE Device
  BY <1>0, <1>28, WiresStep DEF Device, TypeOK, locals, report, Labels
<1>29. ASSUME NEW op \in Ops, Command(op) PROVE TypeOK'
  <2>1. /\ 0 \in Byte /\ NBits \in 0 .. NBits /\ 0 \in 0 .. ScanMax + 1
        /\ 2 * ScanMin \in 0 .. ScanMax + 1
    BY ByteFacts, ScanAssumption
  <2>2. c' \in Byte /\ adr' \in 0 .. ScanMax + 1
    BY <1>29, <2>1 DEF Command
  <2>. QED BY <1>0, <1>29, <2>1, <2>2, WiresStep DEF Command, First, Ops, TypeOK, Labels
<1>. QED BY <1>1, <1>2, <1>3, <1>4, <1>5, <1>6, <1>7, <1>8, <1>9, <1>10,
    <1>11, <1>12, <1>13, <1>14, <1>15, <1>16, <1>17, <1>18, <1>19, <1>20,
    <1>21, <1>22, <1>23, <1>24, <1>25, <1>26, <1>27, <1>28, <1>29 DEF Next,
      Firmware, SclHi, Protocol, StartBit, StopBit, Scan

(* Every step goes to the point that the code goes on to, with the command *)
(* and the loop variables that belong there.                               *)
LEMMA ProgramStep ==
  ASSUME IInv, Next
  PROVE  Program'
<1>0. TypeOK /\ Program /\ PinsAre /\ DeviceRules /\ Frame
  BY DEF IInv
<1>1. CASE SclRelease
  BY <1>0, <1>1 DEF SclRelease, Drive, DriveScl, Program, Point, Waiting,
      Returns, Sends, Scans, locals
<1>2. CASE SclHigh
  BY <1>0, <1>2 DEF SclHigh, Program, Point, Waiting, Returns, Sends, Scans,
      locals
<1>3. CASE SclExpire
  BY <1>0, <1>3 DEF SclExpire, Program, Point, Waiting, Returns, Sends, Scans,
      locals
<1>4. CASE SclTimeout
  BY <1>0, <1>4 DEF SclTimeout, Program, Point, Waiting, Returns, Sends,
      Scans, locals
<1>5. CASE AckNak
  BY <1>0, <1>5 DEF AckNak, Drive, DriveSda, ClockThen, Program, Point,
      Waiting, Returns, Sends, Scans, locals
<1>6. CASE Acked
  <2>1. /\ cmd \in {"start", "stop", "read", "write"} /\ bit = NBits /\ NBits >= 1
        /\ cmd' = cmd /\ bit' = bit /\ ackPending' = FALSE /\ pc' = First(cmd)
    BY <1>0, <1>6, BitsAssumption DEF Acked, Drive, DriveScl, TimedOut, Program, Point,
      Waiting, locals
  <2>. QED BY <2>1 DEF First, Program, Point, Waiting, Returns, Sends, Scans
<1>7. CASE InFree
  <2>1. Pow2[NBits - NBits] = 1
    BY BitsAssumption, Pow2Facts
  <2>2. bit = NBits /\ bit >= 1 /\ cmd = "read"
    BY <1>0, <1>7, BitsAssumption DEF InFree, Drive, DriveSda, Program, Point, Waiting
  <2>. QED BY <1>7, <2>1, <2>2 DEF InFree, Drive, DriveSda, ClockThen, Program, Point, Waiting, Returns,
      Sends, Scans, locals
<1>8. CASE InBit
  <2>1. /\ pc = "in_bit" /\ cmd = "read" /\ cmd' = cmd
        /\ ackPending /\ ackPending' = ackPending /\ (ok \/ pc' = "idle")
    BY <1>0, <1>8 DEF InBit, Drive, TimedOut, Program, Point, Waiting
  <2>2. CASE pc' = "idle"
    BY <2>1, <2>2 DEF Program, Point, Waiting, Sends, Scans
  <2>3. CASE pc' # "idle"
    <3>1. /\ val' = 2 * val + Sda /\ bit' = bit - 1 /\ pc' = "rise" /\ bit > 1
          /\ cont' = cont /\ ok
      BY <1>8, <2>1, <2>3 DEF InBit, Drive, TimedOut
    <3>2. bit \in 1 .. NBits /\ val < Pow2[NBits - bit] /\ val \in Nat
      BY <1>0, <2>1, ByteFacts DEF TypeOK, Program, Point, Waiting
    <3>3. val' < Pow2[NBits - bit'] /\ bit' >= 1
      BY <1>0, <3>1, <3>2, OneBitMore, Levels
    <3>4. cont' = "in_bit"
      BY <1>0, <2>1, <3>1 DEF Program
    <3>. QED BY <2>1, <3>1, <3>3, <3>4 DEF Program, Point, Waiting, Returns, Sends, Scans
  <2>. QED BY <2>2, <2>3
<1>9. CASE OutBit
  BY <1>0, <1>9 DEF OutBit, Drive, DriveSda, ClockThen, Program, Point,
      Waiting, Returns, Sends, Scans, locals
<1>10. CASE OutClk
  <2>1. bit \in Nat /\ (bit > 1 => bit - 1 >= 1)
    BY <1>0 DEF TypeOK
  <2>. QED BY <1>0, <1>10, <2>1 DEF OutClk, Drive, DriveScl, TimedOut, Goto, Returned,
      Program, Point, Waiting, Returns, Sends, Scans, locals
<1>11. CASE OutAck
  BY <1>0, <1>11 DEF OutAck, Drive, DriveSda, ClockThen, Program, Point,
      Waiting, Returns, Sends, Scans, locals
<1>12. CASE OutRead
  BY <1>0, <1>12 DEF OutRead, Drive, TimedOut, Goto, Returned, Ack, Program,
      Point, Waiting, Returns, Sends, Scans, locals
<1>13. CASE Written
  BY <1>0, <1>13 DEF Written, Goto, Program, Point, Waiting, Returns, Sends,
      Scans, locals
<1>14. CASE StartClockUp
  BY <1>0, <1>14 DEF StartClockUp, Drive, DriveScl, Goto, Program, Point,
      Waiting, Returns, Sends, Scans, locals
<1>15. CASE StartDataUp
  BY <1>0, <1>15 DEF StartDataUp, Drive, DriveSda, Goto, Program, Point,
      Waiting, Returns, Sends, Scans, locals
<1>16. CASE StartDataDown
  BY <1>0, <1>16 DEF StartDataDown, Goto, Program, Point, Waiting, Returns,
      Sends, Scans, locals
<1>17. CASE StartClockDown
  BY <1>0, <1>17 DEF StartClockDown, Drive, DriveScl, Goto, Program, Point,
      Waiting, Returns, Sends, Scans, locals
<1>18. CASE StartDone
  BY <1>0, <1>18 DEF StartDone, Drive, DriveSda, Goto, Program, Point,
      Waiting, Returns, Sends, Scans, locals
<1>19. CASE StopClockLow
  BY <1>0, <1>19 DEF StopClockLow, Drive, DriveScl, Goto, Program, Point,
      Waiting, Returns, Sends, Scans, locals
<1>20. CASE StopDataLow
  BY <1>0, <1>20 DEF StopDataLow, Drive, DriveSda, ClockThen, Program, Point,
      Waiting, Returns, Sends, Scans, locals
<1>21. CASE StopDone
  BY <1>0, <1>21 DEF StopDone, Goto, Program, Point, Waiting, Returns, Sends,
      Scans, locals
<1>22. CASE ScanStopLo
  BY <1>0, <1>22 DEF ScanStopLo, Drive, DriveSda, ClockThen, Program, Point,
      Waiting, Returns, Sends, Scans, locals
<1>23. CASE ScanStopHi
  <2>1. adr \in Nat /\ ScanMax \in Nat /\ (~ScanOver => adr <= ScanMax)
    BY <1>0, ScanAssumption DEF TypeOK, ScanOver
  <2>. QED BY <1>0, <1>23, <2>1 DEF ScanStopHi, Goto, Program, Point, Waiting, Returns,
      Sends, Scans, locals
<1>24. CASE ScanStartLo
  BY <1>0, <1>24 DEF ScanStartLo, Goto, Program, Point, Waiting, Returns,
      Sends, Scans, locals
<1>25. CASE ScanStartScl
  <2>1. NBits >= 1
    BY BitsAssumption
  <2>. QED BY <1>0, <1>25, <2>1 DEF ScanStartScl, Drive, DriveScl, Goto, Program, Point,
      Waiting, Returns, Sends, Scans
<1>26. CASE Tried
  BY <1>0, <1>26 DEF Tried, Goto, Program, Point, Waiting, Returns, Sends,
      Scans, locals
<1>27. CASE Open
  BY <1>0, <1>27 DEF Open, Program, Point, Waiting, Returns, Sends, Scans,
      locals
<1>28. CASE Device
  BY <1>0, <1>28 DEF Device, Program, Point, Waiting, Returns, Sends, Scans,
      locals
<1>29. ASSUME NEW op \in Ops, Command(op) PROVE Program'
  <2>1. NBits >= 1 /\ bit' = NBits /\ cmd' = op /\ ackPending' = ackPending
    BY <1>29, BitsAssumption DEF Command
  <2>2. \/ ackPending /\ op # "scan" /\ pc' = "acknak"
        \/ (~ackPending \/ op = "scan") /\ pc' = First(op)
    BY <1>29 DEF Command
  <2>3. op \in {"start", "stop", "read", "write", "scan"}
    BY DEF Ops
  <2>. QED BY <2>1, <2>2, <2>3 DEF First, Program, Point, Waiting, Returns, Sends, Scans
<1>. QED BY <1>1, <1>2, <1>3, <1>4, <1>5, <1>6, <1>7, <1>8, <1>9, <1>10,
    <1>11, <1>12, <1>13, <1>14, <1>15, <1>16, <1>17, <1>18, <1>19, <1>20,
    <1>21, <1>22, <1>23, <1>24, <1>25, <1>26, <1>27, <1>28, <1>29 DEF Next,
      Firmware, SclHi, Protocol, StartBit, StopBit, Scan

(* At each point the firmware's pins are as its last stores left them.     *)
LEMMA PinsAreStep ==
  ASSUME IInv, Next
  PROVE  PinsAre'
<1>0. TypeOK /\ Program /\ PinsAre /\ DeviceRules /\ Frame
  BY DEF IInv
<1>1. CASE SclRelease
  BY <1>0, <1>1 DEF SclRelease, Drive, DriveScl, PinsAre, Point, Waiting,
      Returns, Program, Pins, wires, SentBit, Acks, locals
<1>2. CASE SclHigh
  BY <1>0, <1>2 DEF SclHigh, PinsAre, Point, Waiting, Returns, Program, Pins,
      wires, SentBit, Acks, locals
<1>3. CASE SclExpire
  BY <1>0, <1>3 DEF SclExpire, PinsAre, Point, Waiting, Returns, Program,
      Pins, wires, SentBit, Acks, locals
<1>4. CASE SclTimeout
  BY <1>0, <1>4 DEF SclTimeout, PinsAre, Point, Waiting, Returns, Program,
      Pins, wires, SentBit, Acks, locals
<1>5. CASE AckNak
  BY <1>0, <1>5 DEF AckNak, Drive, DriveSda, ClockThen, PinsAre, Point,
      Waiting, Returns, Program, Pins, wires, SentBit, Acks, locals
<1>6. CASE Acked
  BY <1>0, <1>6 DEF Acked, Drive, DriveScl, TimedOut, First, PinsAre, Point,
      Waiting, Returns, Program, Pins, wires, SentBit, Acks, locals
<1>7. CASE InFree
  BY <1>0, <1>7 DEF InFree, Drive, DriveSda, ClockThen, PinsAre, Point,
      Waiting, Returns, Program, Pins, wires, SentBit, Acks, locals
<1>8. CASE InBit
  <2>1. pc = "in_bit" /\ cont = "in_bit" /\ sdaOut' = 1
    BY <1>0, <1>8 DEF InBit, Drive, TimedOut, Program, PinsAre, Point, Waiting, Pins, wires
  <2>2. pc' = "idle" \/ (pc' = "rise" /\ cont' = cont)
    BY <1>8 DEF InBit
  <2>. QED BY <2>1, <2>2 DEF PinsAre, Point, Waiting
<1>9. CASE OutBit
  BY <1>0, <1>9 DEF OutBit, Drive, DriveSda, ClockThen, PinsAre, Point,
      Waiting, Returns, Program, Pins, wires, SentBit, Acks, locals
<1>10. CASE OutClk
  BY <1>0, <1>10 DEF OutClk, Drive, DriveScl, TimedOut, Goto, Returned,
      PinsAre, Point, Waiting, Returns, Program, Pins, wires, SentBit, Acks,
      locals
<1>11. CASE OutAck
  BY <1>0, <1>11 DEF OutAck, Drive, DriveSda, ClockThen, PinsAre, Point,
      Waiting, Returns, Program, Pins, wires, SentBit, Acks, locals
<1>12. CASE OutRead
  BY <1>0, <1>12 DEF OutRead, Drive, TimedOut, Goto, Returned, Ack, PinsAre,
      Point, Waiting, Returns, Program, Pins, wires, SentBit, Acks, locals
<1>13. CASE Written
  BY <1>0, <1>13 DEF Written, Goto, PinsAre, Point, Waiting, Returns, Program,
      Pins, wires, SentBit, Acks, locals
<1>14. CASE StartClockUp
  BY <1>0, <1>14 DEF StartClockUp, Drive, DriveScl, Goto, PinsAre, Point,
      Waiting, Returns, Program, Pins, wires, SentBit, Acks, locals
<1>15. CASE StartDataUp
  BY <1>0, <1>15 DEF StartDataUp, Drive, DriveSda, Goto, PinsAre, Point,
      Waiting, Returns, Program, Pins, wires, SentBit, Acks, locals
<1>16. CASE StartDataDown
  BY <1>0, <1>16 DEF StartDataDown, Goto, PinsAre, Point, Waiting, Returns,
      Program, Pins, wires, SentBit, Acks, locals
<1>17. CASE StartClockDown
  BY <1>0, <1>17 DEF StartClockDown, Drive, DriveScl, Goto, PinsAre, Point,
      Waiting, Returns, Program, Pins, wires, SentBit, Acks, locals
<1>18. CASE StartDone
  BY <1>0, <1>18 DEF StartDone, Drive, DriveSda, Goto, PinsAre, Point,
      Waiting, Returns, Program, Pins, wires, SentBit, Acks, locals
<1>19. CASE StopClockLow
  BY <1>0, <1>19 DEF StopClockLow, Drive, DriveScl, Goto, PinsAre, Point,
      Waiting, Returns, Program, Pins, wires, SentBit, Acks, locals
<1>20. CASE StopDataLow
  BY <1>0, <1>20 DEF StopDataLow, Drive, DriveSda, ClockThen, PinsAre, Point,
      Waiting, Returns, Program, Pins, wires, SentBit, Acks, locals
<1>21. CASE StopDone
  BY <1>0, <1>21 DEF StopDone, Goto, PinsAre, Point, Waiting, Returns,
      Program, Pins, wires, SentBit, Acks, locals
<1>22. CASE ScanStopLo
  BY <1>0, <1>22 DEF ScanStopLo, Drive, DriveSda, ClockThen, PinsAre, Point,
      Waiting, Returns, Program, Pins, wires, SentBit, Acks, locals
<1>23. CASE ScanStopHi
  BY <1>0, <1>23 DEF ScanStopHi, Goto, ScanOver, PinsAre, Point, Waiting,
      Returns, Program, Pins, wires, SentBit, Acks, locals
<1>24. CASE ScanStartLo
  BY <1>0, <1>24 DEF ScanStartLo, Goto, PinsAre, Point, Waiting, Returns,
      Program, Pins, wires, SentBit, Acks, locals
<1>25. CASE ScanStartScl
  BY <1>0, <1>25 DEF ScanStartScl, Drive, DriveScl, Goto, PinsAre, Point,
      Waiting, Returns, Program, Pins, wires, SentBit, Acks, locals
<1>26. CASE Tried
  BY <1>0, <1>26 DEF Tried, Goto, PinsAre, Point, Waiting, Returns, Program,
      Pins, wires, SentBit, Acks, locals
<1>27. CASE Open
  BY <1>0, <1>27 DEF Open, PinsAre, Point, Waiting, Returns, Program, Pins,
      wires, SentBit, Acks, locals
<1>28. CASE Device
  BY <1>0, <1>28 DEF Device, DeviceReleasesScl, PinsAre, Point, Waiting, SentBit, Acks, locals
<1>29. ASSUME NEW op \in Ops, Command(op) PROVE PinsAre'
  <2>1. /\ UNCHANGED <<sdaOut, sclOut, ackPending>> /\ pc = "idle"
        /\ pc' = IF ackPending /\ op # "scan" THEN "acknak" ELSE First(op)
    BY <1>29 DEF Command, wires
  <2>2. First(op) \in {"clock_up", "clock_low", "in_free", "out_bit", "stop_lo"}
    BY DEF First, Ops
  <2>. QED BY <1>0, <2>1, <2>2 DEF PinsAre, Point, Waiting
<1>. QED BY <1>1, <1>2, <1>3, <1>4, <1>5, <1>6, <1>7, <1>8, <1>9, <1>10,
    <1>11, <1>12, <1>13, <1>14, <1>15, <1>16, <1>17, <1>18, <1>19, <1>20,
    <1>21, <1>22, <1>23, <1>24, <1>25, <1>26, <1>27, <1>28, <1>29 DEF Next,
      Firmware, SclHi, Protocol, StartBit, StopBit, Scan

-----------------------------------------------------------------------------
(* The frame. *)

(* A rising clock takes the device from before its bit to behind it.       *)
LEMMA SampleMeets ==
  ASSUME IInv, clean, pc \in Waiting, Scl = 0, Scl' = 1,
         pc' \in {"poll", "last"}, UNCHANGED <<cont, cmd, c, bit, val, ackPending, sdaOut>>,
         dev'.phase = dev.phase, dev'.out = dev.out, dev'.first = dev.first,
         dev'.n = Sampled(dev, Sda).n, dev'.reg = Sampled(dev, Sda).reg
  PROVE  Meets'
<1>0. TypeOK /\ Program /\ PinsAre /\ DeviceRules /\ Meets
  BY DEF IInv, Frame
<1>1. Point' = Point /\ Point = cont /\ cont \in Returns
  BY <1>0 DEF Point, Waiting, Program
<1>2. /\ dev \in Devices /\ Sda \in Level /\ dev.n \in Nat /\ dev.reg \in Byte
      /\ dev.phase \in {"off", "recv", "ack", "send", "mack", "deaf"}
  BY <1>0, Levels, DeviceFields
<1>3. /\ dev'.n = IF dev.phase \in {"recv", "send"} /\ dev.n # 0 THEN dev.n - 1 ELSE dev.n
      /\ dev.phase = "recv" => dev'.reg = (2 * dev.reg + Sda) % Pow2[NBits]
      /\ dev.phase = "mack" => dev'.reg = Sda
      /\ dev.phase \notin {"recv", "mack"} => dev'.reg = dev.reg
  BY <1>2, SampledIs
<1>4. dev.phase \in {"recv", "mack"} => Sda = sdaOut
  <2>1. dev.phase \in {"recv", "mack"} => dev.sda # 0
    BY <1>0 DEF DeviceRules
  <2>2. dev.sda \in {0, 1} /\ sdaOut \in {0, 1}
    BY <1>0, Levels DEF Level
  <2>. QED BY <2>1, <2>2 DEF Sda
<1>5. CASE Point = "in_bit"
  <2>1. bit \in Nat /\ bit >= 1 /\ bit # 0
    BY <1>0, <1>5, BitsAssumption DEF TypeOK, Program
  <2>2. Left = bit /\ Left' = bit - 1
    BY DEF Left
  <2>3. \/ dev.phase = "deaf"
        \/ dev.phase = "recv" /\ dev.n = bit
        \/ dev.phase = "send" /\ dev.n = bit /\ val = dev.out \div Pow2[bit]
    BY <1>0, <1>5, <2>2 DEF Meets
  <2>4. \/ dev'.phase = "deaf"
        \/ dev'.phase = "recv" /\ dev'.n = bit - 1
        \/ dev'.phase = "send" /\ dev'.n = bit - 1 /\ val' = dev'.out \div Pow2[bit']
    BY <1>3, <2>1, <2>3
  <2>. QED BY <1>1, <1>5, <2>2, <2>4 DEF Meets, Returns
<1>6. CASE Point = "out_clk"
  <2>1. bit \in Nat /\ bit >= 1 /\ bit # 0 /\ c \in Byte
    BY <1>0, <1>6, BitsAssumption DEF TypeOK, Program
  <2>2. Left = bit /\ Left' = bit - 1
    BY DEF Left
  <2>3. /\ \/ dev.phase = "deaf"
           \/ dev.phase = "send" /\ dev.n = bit
           \/ dev.phase = "recv" /\ dev.n = bit /\ dev.reg = c \div Pow2[bit]
        /\ cmd = "scan" => dev.phase = "recv" /\ dev.first
    BY <1>0, <1>6, <2>2 DEF Meets
  <2>4. dev.phase = "recv" => dev'.reg = c \div Pow2[bit - 1]
    <3>1. bit - 1 \in Nat /\ (bit - 1) + 1 = bit
      BY <2>1
    <3>2. /\ c \div Pow2[bit - 1] \in Byte
          /\ c \div Pow2[bit - 1] = 2 * (c \div Pow2[bit]) + BitOf(c, bit - 1)
      BY <2>1, <3>1, BitFacts
    <3>3. dev.phase = "recv" => Sda = BitOf(c, bit - 1)
      BY <1>0, <1>4, <1>6 DEF PinsAre, SentBit
    <3>4. (c \div Pow2[bit - 1]) % Pow2[NBits] = c \div Pow2[bit - 1]
      <4>1. /\ c \div Pow2[bit - 1] \in Nat /\ c \div Pow2[bit - 1] < Pow2[NBits]
            /\ Pow2[NBits] \in Nat
        BY <3>2, ByteFacts, Pow2Facts
      <4>. QED BY <4>1
    <3>. QED BY <1>3, <2>3, <3>2, <3>3, <3>4
  <2>5. /\ \/ dev'.phase = "deaf"
           \/ dev'.phase = "send" /\ dev'.n = bit - 1
           \/ dev'.phase = "recv" /\ dev'.n = bit - 1 /\ dev'.reg = c' \div Pow2[bit - 1]
        /\ cmd' = "scan" => dev'.phase = "recv" /\ dev'.first
    BY <1>3, <2>1, <2>3, <2>4
  <2>. QED BY <1>1, <1>6, <2>2, <2>5 DEF Meets, Returns
<1>7. CASE Point = "out_read"
  <2>1. AtAck /\ (dev.phase = "ack" => dev.reg = c /\ (cmd = "scan" => dev.first))
    BY <1>0, <1>7 DEF Meets
  <2>2. sdaOut = 1
    BY <1>0, <1>7 DEF PinsAre
  <2>. QED BY <1>1, <1>3, <1>4, <1>7, <2>1, <2>2 DEF Meets, AtAck, Returns
<1>8. CASE Point = "acked"
  <2>1. AtAck
    BY <1>0, <1>8 DEF Meets
  <2>. QED BY <1>1, <1>3, <1>4, <1>8, <2>1 DEF Meets, AtAck, Returns
<1>9. CASE Point = "data_rise"
  BY <1>0, <1>1, <1>9 DEF Meets, Returns
<1>10. CASE Point = "stop_hi"
  BY <1>1, <1>10 DEF Meets, Returns
<1>. QED BY <1>1, <1>5, <1>6, <1>7, <1>8, <1>9, <1>10 DEF Returns

(* Nothing changes for the device while SCL stays down.                    *)
LEMMA StillMeets ==
  ASSUME IInv, clean, Scl = 0, Scl' = 0, sclOut' = sclOut \/ pc' = "poll",
         pc' = pc \/ (pc = "rise" /\ pc' = "poll") \/ (pc = "poll" /\ pc' = "last"),
         UNCHANGED <<cont, ok, cmd, c, bit, val, res, adr, ackPending>>,
         UNCHANGED <<dev.phase, dev.out, dev.first, dev.n, dev.reg>>
  PROVE  Meets'
<1>0. Meets /\ Program
  BY DEF IInv, Frame
<1>1. Point' = Point /\ Left' = Left /\ AtAck' = AtAck /\ AtByte' = AtByte
  BY DEF Point, Waiting, Left, AtAck, AtByte
<1>2. pc \notin Returns \cup {"clock_down", "start_scl"}
  BY <1>0 DEF Meets
<1>3. pc' = pc \/ pc' \in {"poll", "last"}
  OBVIOUS
<1>4. CASE pc' = pc
  BY <1>0, <1>1, <1>2, <1>4 DEF Meets
<1>5. CASE pc' \in {"poll", "last"}
  BY <1>0, <1>1, <1>2, <1>5 DEF Meets, Returns
<1>. QED BY <1>3, <1>4, <1>5



(* A step that keeps the frame clean leaves the device where the next      *)
(* point expects it.                                                       *)
LEMMA FrameStep ==
  ASSUME IInv, Next, clean'
  PROVE  Meets'
<1>0. /\ TypeOK /\ Program /\ PinsAre /\ DeviceRules /\ Frame
      /\ 0 \in Level /\ 1 \in Level /\ dev \in Devices /\ sdaOut \in Level
  BY Levels DEF IInv, Level
<1>a. /\ NBits \in Nat /\ NBits >= 2 /\ NBits # 0
      /\ \A x \in Byte : x \div Pow2[NBits] = 0 /\ x \div Pow2[0] = x
  BY ByteFacts, BitFacts
<1>b. /\ dev.n \in Nat /\ dev.out \in Byte /\ dev.reg \in Byte
      /\ dev.phase \in {"off", "recv", "ack", "send", "mack", "deaf"}
  BY <1>0, DeviceFields
<1>1. CASE SclRelease
  <2>1. /\ pc = "rise" /\ Pins(sdaOut, 1) /\ clean /\ pc' = "poll" /\ Meets
        /\ UNCHANGED <<cont, ok, cmd, c, bit, val, res, adr, ackPending>>
    BY <1>0, <1>1 DEF SclRelease, Drive, DriveScl, locals, Frame
  <2>2. sclOut = 0 /\ Scl = 0
    BY <2>1 DEF Meets, Scl
  <2>3. CASE dev.scl = 1
    <3>1. dev' = Sampled(dev, Sda) /\ Scl' = 1 /\ sdaOut' = sdaOut /\ Sda \in Level
      BY <1>0, <2>1, <2>2, <2>3, PinsRise, Levels
    <3>2. /\ dev'.phase = dev.phase /\ dev'.out = dev.out /\ dev'.first = dev.first
          /\ dev'.n = Sampled(dev, Sda).n /\ dev'.reg = Sampled(dev, Sda).reg
      BY <1>0, <3>1, SampledIs
    <3>. QED BY <2>1, <2>2, <3>1, <3>2, SampleMeets DEF Waiting
  <2>4. CASE dev.scl # 1
    <3>1. dev' = dev /\ Scl' = 0
      BY <1>0, <2>1, <2>2, <2>4, PinsRise
    <3>. QED BY <2>1, <2>2, <3>1, StillMeets
  <2>. QED BY <2>3, <2>4
<1>2. CASE SclHigh
  <2>1. /\ clean /\ Meets /\ pc \in Waiting /\ pc' = cont /\ cont' = cont /\ ok' /\ Scl = 1
        /\ pc' \in Returns
        /\ UNCHANGED <<sdaOut, sclOut, dev, cmd, c, bit, val, res, adr, ackPending>>
    BY <1>0, <1>2 DEF SclHigh, wires, locals, Frame, Waiting, Program
  <2>2. Scl' = 1 /\ Left' = Left /\ AtAck' = AtAck /\ AtByte' = AtByte
    BY <2>1 DEF Scl, Left, AtAck, AtByte
  <2>3. Point' = Point /\ Point = pc'
    BY <2>1 DEF Point, Waiting, Returns
  <2>. QED BY <2>1, <2>2, <2>3 DEF Meets, Returns
<1>3. CASE SclExpire
  <2>1. /\ clean /\ pc = "poll" /\ pc' = "last" /\ Scl = 0 /\ Scl' = 0 /\ sclOut' = sclOut
        /\ UNCHANGED <<cont, ok, cmd, c, bit, val, res, adr, ackPending, dev>>
    BY <1>3 DEF SclExpire, wires, locals, Scl
  <2>. QED BY <2>1, StillMeets
<1>4. ~SclTimeout /\ ~StopDone /\ ~ScanStopHi /\ ~Open
  BY DEF SclTimeout, StopDone, ScanStopHi, Open
<1>5. CASE AckNak
  <2>1. /\ clean /\ Meets /\ pc = "acknak" /\ pc' = "rise" /\ cont' = "acked"
        /\ \E s \in Level : Pins(s, sclOut)
        /\ UNCHANGED <<ok, cmd, c, bit, val, res, adr, ackPending>>
    BY <1>0, <1>5 DEF AckNak, Drive, DriveSda, ClockThen, locals, Frame
  <2>2. sclOut = 0 /\ AtAck
    BY <2>1 DEF Meets, Point, Waiting
  <2>3. dev' = dev /\ Scl' = 0 /\ sclOut' = 0
    BY <1>0, <2>1, <2>2, PinsQuiet
  <2>4. AtAck' /\ Point' = "acked"
    BY <2>1, <2>2, <2>3 DEF AtAck, Point, Waiting
  <2>. QED BY <2>1, <2>3, <2>4 DEF Meets, Returns
<1>6. CASE Acked
  <2>1. /\ clean /\ Meets /\ pc = "acked" /\ pc' = First(cmd)
        /\ (ok => Pins(sdaOut, 0)) /\ UNCHANGED <<cmd, c, bit, val>>
    BY <1>0, <1>6 DEF Acked, Drive, DriveScl, TimedOut, locals, Frame
  <2>2. Scl = 1 /\ ok /\ AtAck /\ bit = NBits /\ cmd \in {"start", "stop", "read", "write"}
    BY <1>0, <2>1 DEF Meets, Program, Returns, Point, Waiting
  <2>3. Fallen(dev, dev') /\ Scl' = 0 /\ sclOut' = 0
    BY <1>0, <2>1, <2>2, PinsFall
  <2>4. AtByte'
    BY <2>2, <2>3 DEF AtAck, AtByte, Fallen, StartsSending, StartsReceiving
  <2>5. pc' \in {"clock_up", "clock_low", "in_free", "out_bit"} /\ cmd # "scan"
        /\ (pc' = "out_bit" => cmd = "write")
    BY <2>1, <2>2 DEF First
  <2>6. CASE pc' = "out_bit"
    <3>1. Point' = "out_bit" /\ Left' = NBits /\ c' \in Byte
      BY <1>0, <2>1, <2>2, <2>3, <2>6 DEF Point, Waiting, Left, TypeOK
    <3>2. c' \div Pow2[NBits] = 0
      BY <1>a, <3>1
    <3>. QED BY <2>1, <2>3, <2>4, <2>5, <2>6, <3>1, <3>2 DEF Meets, Returns, AtByte
  <2>7. CASE pc' # "out_bit"
    <3>1. Point' = pc'
      BY <2>5 DEF Point, Waiting
    <3>. QED BY <2>3, <2>4, <2>5, <2>7, <3>1 DEF Meets, Returns
  <2>. QED BY <2>6, <2>7
<1>7. CASE InFree
  <2>1. /\ clean /\ Meets /\ pc = "in_free" /\ Pins(1, sclOut)
        /\ pc' = "rise" /\ cont' = "in_bit" /\ val' = 0 /\ bit' = bit
    BY <1>0, <1>7 DEF InFree, Drive, DriveSda, ClockThen, Frame
  <2>2. sclOut = 0 /\ AtByte /\ bit = NBits
    BY <1>0, <2>1 DEF Meets, Program, Point, Waiting
  <2>3. dev' = dev /\ Scl' = 0 /\ sclOut' = 0
    BY <1>0, <2>1, <2>2, PinsQuiet
  <2>4. Point' = "in_bit" /\ Left' = NBits /\ dev.out \div Pow2[NBits] = 0
    BY <1>a, <1>b, <2>1, <2>2, <2>3 DEF Point, Waiting, Left
  <2>. QED BY <2>1, <2>2, <2>3, <2>4 DEF Meets, Returns, AtByte
<1>8. CASE InBit
  <2>1. /\ clean /\ Meets /\ pc = "in_bit" /\ (ok => Pins(1, 0))
        /\ (ok => /\ val' = 2 * val + Sda /\ bit' = bit - 1
                  /\ pc' = IF bit > 1 THEN "rise" ELSE "idle")
        /\ UNCHANGED <<cont, cmd, ackPending>>
    BY <1>0, <1>8 DEF InBit, Drive, TimedOut, Frame
  <2>2. /\ Scl = 1 /\ ok /\ bit \in Nat /\ bit >= 1 /\ cmd = "read" /\ cont = "in_bit"
        /\ sdaOut = 1 /\ ackPending /\ Left = bit - 1
        /\ \/ dev.phase = "deaf"
           \/ dev.phase = "recv" /\ dev.n = Left
           \/ dev.phase = "send" /\ dev.n = Left /\ val = dev.out \div Pow2[bit]
    BY <1>0, <1>a, <2>1 DEF Meets, Program, PinsAre, TypeOK, Returns, Point, Waiting, Left
  <2>3. Fallen(dev, dev') /\ Scl' = 0 /\ sclOut' = 0
    BY <1>0, <2>1, <2>2, PinsFall
  <2>4. dev.phase = "send" => val' = dev.out \div Pow2[bit - 1]
    <3>1. bit - 1 \in Nat /\ (bit - 1) + 1 = bit
      BY <2>2
    <3>2. dev.out \div Pow2[bit - 1] = 2 * (dev.out \div Pow2[bit]) + BitOf(dev.out, bit - 1)
      BY <1>b, <3>1, BitFacts
    <3>3. dev.phase = "send" => dev.sda = BitOf(dev.out, bit - 1)
      BY <1>0, <2>2 DEF DeviceRules
    <3>4. dev.sda \in {0, 1} /\ Sda = dev.sda
      BY <1>0, <2>2, Levels DEF Sda, Level
    <3>. QED BY <2>1, <2>2, <3>2, <3>3, <3>4
  <2>5. CASE bit > 1
    <3>1. dev.n = Left => dev.n > 0
      BY <2>2, <2>5
    <3>2. pc' = "rise" /\ Point' = "in_bit" /\ Left' = bit - 1 /\ bit' = bit - 1
      BY <2>1, <2>2, <2>3, <2>5 DEF Point, Waiting, Left
    <3>3. \/ dev'.phase = "deaf"
          \/ dev'.phase = "recv" /\ dev'.n = bit - 1
          \/ dev'.phase = "send" /\ dev'.n = bit - 1 /\ dev'.out = dev.out /\ dev.phase = "send"
      BY <2>2, <2>3, <3>1 DEF Fallen
    <3>4. /\ pc' \in {"rise"} /\ sclOut' = 0 /\ Point' = "in_bit" /\ Left' = bit'
          /\ dev'.phase = "send" => dev'.n = Left' /\ val' = dev'.out \div Pow2[bit']
      BY <2>3, <2>4, <3>2, <3>3
    <3>. QED BY <2>3, <2>4, <3>2, <3>3, <3>4 DEF Meets, Returns
  <2>6. CASE ~(bit > 1)
    <3>1. bit = 1 /\ pc' = "idle" /\ Point' = "idle"
      BY <2>1, <2>2, <2>6 DEF Point, Waiting
    <3>0. dev.n = Left => dev.n = 0
      BY <2>2, <3>1
    <3>2. /\ AtAck'
          /\ dev'.phase = "mack" => dev.phase = "send" /\ dev'.out = dev.out
      <4>1. CASE dev.phase = "deaf"
        BY <2>3, <4>1 DEF Fallen, AtAck
      <4>2. CASE dev.phase = "recv" /\ dev.n = Left
        BY <2>3, <3>0, <4>2 DEF Fallen, AtAck
      <4>3. CASE dev.phase = "send" /\ dev.n = Left
        BY <2>3, <3>0, <4>3 DEF Fallen, AtAck
      <4>. QED BY <2>2, <4>1, <4>2, <4>3
    <3>3. dev.phase = "send" => val' = dev.out
      BY <1>a, <1>b, <2>4, <3>1
    <3>. QED BY <2>1, <2>2, <2>3, <3>1, <3>2, <3>3 DEF Meets, Returns
  <2>. QED BY <2>5, <2>6
<1>9. CASE OutBit
  <2>1. /\ clean /\ Meets /\ pc = "out_bit" /\ Pins(SentBit, sclOut)
        /\ pc' = "rise" /\ cont' = "out_clk" /\ UNCHANGED <<cmd, c, bit>>
    BY <1>0, <1>9 DEF OutBit, Drive, DriveSda, ClockThen, locals, Frame
  <2>2. sclOut = 0 /\ SentBit \in Level /\ Point = "out_bit"
    <3>1. sclOut = 0 /\ bit >= 1 /\ bit \in Nat /\ c \in Byte /\ Point = "out_bit"
      BY <1>0, <1>a, <2>1 DEF Meets, Program, TypeOK, Point, Waiting
    <3>2. bit - 1 \in Nat
      BY <3>1
    <3>. QED BY <3>1, <3>2, BitFacts DEF SentBit
  <2>3. dev' = dev /\ Scl = 0 /\ Scl' = 0 /\ sclOut' = 0
    BY <1>0, <2>1, <2>2, PinsQuiet
  <2>4. Point' = "out_clk" /\ Left' = Left
    BY <2>1, <2>3 DEF Point, Waiting, Left
  <2>. QED BY <2>1, <2>2, <2>3, <2>4 DEF Meets, Returns
<1>10. CASE OutClk
  <2>1. /\ clean /\ Meets /\ pc = "out_clk" /\ (ok => Pins(sdaOut, 0))
        /\ (ok => /\ bit' = bit - 1
                  /\ pc' = IF bit > 1 THEN "out_bit" ELSE "out_ack")
        /\ UNCHANGED <<cmd, c>>
    BY <1>0, <1>10 DEF OutClk, Drive, DriveScl, TimedOut, Goto, Frame
  <2>2. /\ Scl = 1 /\ ok /\ bit \in Nat /\ bit >= 1 /\ Left = bit - 1 /\ c \in Byte
        /\ \/ dev.phase = "deaf"
           \/ dev.phase = "send" /\ dev.n = Left
           \/ dev.phase = "recv" /\ dev.n = Left /\ dev.reg = c \div Pow2[Left]
        /\ cmd = "scan" => dev.phase = "recv" /\ dev.first
    BY <1>0, <1>a, <2>1 DEF Meets, Program, TypeOK, Returns, Point, Waiting, Left
  <2>3. Fallen(dev, dev') /\ Scl' = 0 /\ sclOut' = 0
    BY <1>0, <2>1, <2>2, PinsFall
  <2>4. CASE bit > 1
    <3>1. pc' = "out_bit" /\ Point' = "out_bit" /\ Left' = bit - 1
      BY <2>1, <2>2, <2>3, <2>4 DEF Point, Waiting, Left
    <3>2. dev.n = Left => dev.n > 0
      BY <2>2, <2>4
    <3>3. /\ \/ dev'.phase = "deaf"
             \/ dev'.phase = "send" /\ dev'.n = bit - 1
             \/ /\ dev'.phase = "recv" /\ dev'.n = bit - 1
                /\ dev'.reg = c' \div Pow2[bit - 1]
          /\ cmd' = "scan" => dev'.phase = "recv" /\ dev'.first
      BY <2>1, <2>2, <2>3, <3>2 DEF Fallen
    <3>. QED BY <2>3, <3>1, <3>3 DEF Meets, Returns
  <2>5. CASE ~(bit > 1)
    <3>1. bit = 1 /\ Left = 0 /\ pc' = "out_ack" /\ Point' = "out_ack"
      BY <2>1, <2>2, <2>5 DEF Point, Waiting
    <3>2. c \div Pow2[0] = c
      BY <1>a, <2>2
    <3>3. AtAck' /\ (dev'.phase = "ack" => dev'.reg = c' /\ (cmd' = "scan" => dev'.first))
      BY <2>1, <2>2, <2>3, <3>1, <3>2 DEF Fallen, AtAck
    <3>. QED BY <2>3, <3>1, <3>3 DEF Meets, Returns
  <2>. QED BY <2>4, <2>5
<1>11. CASE OutAck
  <2>1. /\ clean /\ Meets /\ pc = "out_ack" /\ Pins(1, sclOut)
        /\ pc' = "rise" /\ cont' = "out_read" /\ UNCHANGED <<cmd, c>>
    BY <1>0, <1>11 DEF OutAck, Drive, DriveSda, ClockThen, locals, Frame
  <2>2. /\ sclOut = 0 /\ AtAck
        /\ dev.phase = "ack" => dev.reg = c /\ (cmd = "scan" => dev.first)
    BY <2>1 DEF Meets, Point, Waiting
  <2>3. dev' = dev /\ Scl' = 0 /\ sclOut' = 0
    BY <1>0, <2>1, <2>2, PinsQuiet
  <2>4. Point' = "out_read" /\ AtAck'
    BY <2>1, <2>2, <2>3 DEF Point, Waiting, AtAck
  <2>. QED BY <2>1, <2>2, <2>3, <2>4 DEF Meets, Returns
<1>12. CASE OutRead
  <2>1. /\ clean /\ Meets /\ pc = "out_read" /\ (ok => Pins(1, 0) /\ res' = Ack)
        /\ pc' = Returned /\ UNCHANGED <<cmd, c, adr, ackPending>>
    BY <1>0, <1>12 DEF OutRead, Drive, TimedOut, Goto, Frame
  <2>2. /\ Scl = 1 /\ ok /\ sdaOut = 1 /\ AtAck /\ cmd \in {"write", "scan"}
        /\ dev.phase = "ack" => dev.reg = c /\ (cmd = "scan" => dev.first)
        /\ dev.phase = "mack" => dev.reg = 1
        /\ cmd = "scan" => c = 2 * adr
    BY <1>0, <2>1 DEF Meets, Program, PinsAre, Returns, Sends, Point, Waiting
  <2>3. Fallen(dev, dev') /\ Scl' = 0 /\ sclOut' = 0
    BY <1>0, <2>1, <2>2, PinsFall
  <2>4. AtByte'
    BY <2>2, <2>3 DEF AtAck, AtByte, Fallen, StartsSending, StartsReceiving
  <2>5. CASE cmd = "write"
    <3>1. pc' = "written" /\ Point' = "written"
      BY <2>1, <2>5 DEF Returned, Point, Waiting
    <3>. QED BY <2>3, <2>4, <3>1 DEF Meets, Returns
  <2>6. CASE cmd = "scan"
    <3>1. pc' = "tried" /\ Point' = "tried"
      BY <2>1, <2>6 DEF Returned, Point, Waiting
    <3>2. Sda \in {0, 1} /\ (Sda = 0 => dev.sda = 0)
      BY <1>0, <2>2, Levels DEF Sda, Level
    <3>3. res' # -1 /\ (res' = 1 => dev.sda = 0)
      BY <2>1, <2>2, <3>2 DEF Ack
    <3>4. dev.sda = 0 => dev.phase = "ack" /\ dev.reg \div 2 = DevAddr
      BY <1>0, <2>2, <2>6 DEF DeviceRules, AtAck
    <3>5. dev.sda = 0 => adr = DevAddr
      <4>1. adr \in Nat
        BY <1>0, ScanAssumption DEF TypeOK
      <4>2. (2 * adr) \div 2 = adr
        BY <4>1
      <4>. QED BY <2>2, <2>6, <3>4, <4>2
    <3>. QED BY <2>1, <2>3, <3>1, <3>3, <3>5 DEF Meets, Returns
  <2>. QED BY <2>2, <2>5, <2>6
<1>13. CASE Written
  <2>1. /\ clean /\ Meets /\ pc = "written" /\ pc' = "idle"
        /\ UNCHANGED <<sclOut, dev, cmd, ackPending>>
    BY <1>0, <1>13 DEF Written, Goto, wires, locals, Frame
  <2>2. sclOut = 0 /\ AtByte /\ cmd = "write" /\ ~ackPending
    BY <1>0, <2>1 DEF Meets, Program, Point, Waiting
  <2>3. AtByte' /\ Point' = "idle"
    BY <2>1, <2>2 DEF AtByte, Point, Waiting
  <2>. QED BY <2>1, <2>2, <2>3 DEF Meets, Returns
<1>14. CASE StartClockUp \/ StartDataUp
  <2>1. pc' \in {"data_up", "data_down"}
    BY <1>14 DEF StartClockUp, StartDataUp, Goto
  <2>2. Point' = pc'
    BY <2>1 DEF Point, Waiting
  <2>. QED BY <2>1, <2>2 DEF Meets, Returns
<1>15. CASE StartDataDown \/ ScanStartLo
  <2>1. /\ Pins(0, sclOut) /\ Scl = 1 /\ Sda = 1 /\ pc' \in {"clock_down", "start_scl"}
    BY <1>15 DEF StartDataDown, ScanStartLo, Goto
  <2>2. sclOut = 1 /\ dev.scl = 1
    BY <1>0, <2>1, Levels
  <2>3. dev' = Started(dev) /\ sclOut' = 1
    BY <1>0, <2>1, <2>2, PinsCases DEF PinsEffect, With
  <2>4. /\ dev'.phase = "recv" /\ dev'.n = NBits /\ dev'.reg = 0 /\ dev'.first
        /\ dev'.scl = dev.scl
    BY <1>0, <2>3 DEF Started, Receiving, Devices
  <2>5. Scl' = 1 /\ Point' = pc'
    BY <2>1, <2>2, <2>3, <2>4 DEF Scl, Point, Waiting
  <2>. QED BY <2>1, <2>4, <2>5 DEF Meets, Returns
<1>16. CASE StartClockDown
  <2>1. clean /\ Meets /\ pc = "clock_down" /\ Pins(sdaOut, 0) /\ pc' = "data_free"
    BY <1>0, <1>16 DEF StartClockDown, Drive, DriveScl, Goto, Frame
  <2>2. Scl = 1 /\ dev.phase = "recv" /\ dev.n = NBits /\ dev.reg = 0 /\ dev.n > 0
    BY <1>a, <2>1 DEF Meets
  <2>3. Fallen(dev, dev') /\ Scl' = 0 /\ sclOut' = 0
    BY <1>0, <2>1, <2>2, PinsFall
  <2>4. AtByte' /\ Point' = "data_free"
    BY <2>1, <2>2, <2>3 DEF Fallen, AtByte, Point, Waiting
  <2>. QED BY <2>1, <2>3, <2>4 DEF Meets, Returns
<1>17. CASE StartDone
  <2>1. /\ clean /\ Meets /\ pc = "data_free" /\ Pins(1, sclOut) /\ pc' = "idle"
        /\ UNCHANGED <<cmd, ackPending>>
    BY <1>0, <1>17 DEF StartDone, Drive, DriveSda, Goto, locals, Frame
  <2>2. sclOut = 0 /\ AtByte /\ cmd = "start" /\ ~ackPending
    BY <1>0, <2>1 DEF Meets, Program, Point, Waiting
  <2>3. dev' = dev /\ Scl' = 0 /\ sclOut' = 0
    BY <1>0, <2>1, <2>2, PinsQuiet
  <2>4. AtByte' /\ Point' = "idle"
    BY <2>1, <2>2, <2>3 DEF AtByte, Point, Waiting
  <2>. QED BY <2>1, <2>2, <2>3, <2>4 DEF Meets, Returns
<1>18. CASE StopClockLow
  <2>1. clean /\ Meets /\ pc = "clock_low" /\ Pins(sdaOut, 0) /\ pc' = "data_low"
    BY <1>0, <1>18 DEF StopClockLow, Drive, DriveScl, Goto, Frame
  <2>2. sclOut = 0 /\ AtByte
    BY <2>1 DEF Meets
  <2>3. dev' = dev /\ Scl' = 0 /\ sclOut' = 0
    BY <1>0, <2>1, <2>2, PinsQuiet
  <2>4. AtByte' /\ Point' = "data_low"
    BY <2>1, <2>2, <2>3 DEF AtByte, Point, Waiting
  <2>. QED BY <2>1, <2>3, <2>4 DEF Meets, Returns
<1>19. CASE StopDataLow
  <2>1. /\ clean /\ Meets /\ pc = "data_low" /\ Pins(0, sclOut)
        /\ pc' = "rise" /\ cont' = "data_rise"
    BY <1>0, <1>19 DEF StopDataLow, Drive, DriveSda, ClockThen, Frame
  <2>2. sclOut = 0 /\ AtByte
    BY <2>1 DEF Meets
  <2>3. dev' = dev /\ Scl' = 0 /\ sclOut' = 0
    BY <1>0, <2>1, <2>2, PinsQuiet
  <2>4. dev'.phase \in {"recv", "send", "deaf"} /\ Point' = "data_rise"
    BY <2>1, <2>2, <2>3 DEF AtByte, Point, Waiting
  <2>. QED BY <2>1, <2>3, <2>4 DEF Meets, Returns
<1>20. CASE ScanStopLo
  <2>1. /\ clean /\ Meets /\ pc = "stop_lo" /\ Pins(0, sclOut)
        /\ pc' = "rise" /\ cont' = "stop_hi"
    BY <1>0, <1>20 DEF ScanStopLo, Drive, DriveSda, ClockThen, Frame
  <2>2. sclOut = 0
    BY <2>1 DEF Meets
  <2>3. Scl' = 0 /\ sclOut' = 0 /\ Point' = "stop_hi"
    BY <1>0, <2>1, <2>2, PinsQuiet DEF Point, Waiting
  <2>. QED BY <2>1, <2>3 DEF Meets, Returns
<1>21. CASE ScanStartScl
  <2>1. /\ clean /\ Meets /\ pc = "start_scl" /\ Pins(sdaOut, 0) /\ pc' = "out_bit"
        /\ c' = 2 * adr /\ bit' = NBits
    BY <1>0, <1>21 DEF ScanStartScl, Drive, DriveScl, Goto, Frame
  <2>2. /\ Scl = 1 /\ dev.phase = "recv" /\ dev.n = NBits /\ dev.reg = 0 /\ dev.n > 0
        /\ dev.first
    BY <1>a, <2>1 DEF Meets
  <2>3. Fallen(dev, dev') /\ Scl' = 0 /\ sclOut' = 0
    BY <1>0, <2>1, <2>2, PinsFall
  <2>4. Point' = "out_bit" /\ Left' = NBits /\ c' \div Pow2[NBits] = 0
    <3>1. c' \in Byte
      BY TypeStep DEF TypeOK
    <3>. QED BY <1>a, <2>1, <2>3, <3>1 DEF Point, Waiting, Left
  <2>5. dev'.phase = "recv" /\ dev'.n = NBits /\ dev'.reg = 0 /\ dev'.first
    BY <2>2, <2>3 DEF Fallen
  <2>. QED BY <2>1, <2>3, <2>4, <2>5 DEF Meets, Returns
<1>22. CASE Tried
  <2>1. clean /\ Meets /\ pc = "tried" /\ pc' = "stop_lo" /\ sclOut' = sclOut
    BY <1>0, <1>22 DEF Tried, Goto, wires, Frame
  <2>2. sclOut' = 0 /\ Point' = "stop_lo"
    BY <2>1 DEF Meets, Point, Waiting
  <2>. QED BY <2>1, <2>2 DEF Meets, Returns
<1>23. CASE Device
  <2>1. /\ clean /\ Meets /\ DeviceReleasesScl
        /\ UNCHANGED <<pc, cont, ok, cmd, c, bit, val, res, adr, ackPending>>
    BY <1>0, <1>23 DEF Device, locals, Frame
  <2>2. /\ dev'.phase = dev.phase /\ dev'.out = dev.out /\ dev'.first = dev.first
        /\ Scl = 0 /\ sclOut' = sclOut /\ sdaOut' = sdaOut
        /\ sclOut = 0 => dev'.n = dev.n /\ dev'.reg = dev.reg /\ Scl' = 0
        /\ sclOut = 1 => /\ dev'.n = Sampled(dev, Sda).n /\ dev'.reg = Sampled(dev, Sda).reg
                         /\ Scl' = 1
    BY <1>0, <2>1, ReleaseKeepsDeviceRules
  <2>3. sclOut \in {0, 1}
    BY <1>0, Levels DEF Level
  <2>4. CASE sclOut = 0
    BY <2>1, <2>2, <2>4, StillMeets
  <2>5. CASE sclOut = 1 /\ pc \in Waiting
    <3>1. pc' \in {"poll", "last"}
      BY <2>1, <2>5 DEF Meets, Waiting
    <3>. QED BY <2>1, <2>2, <2>5, <3>1, SampleMeets
  <2>6. CASE sclOut = 1 /\ pc \notin Waiting
    <3>1. pc \in {"data_up", "data_down"}
      BY <1>0, <2>1, <2>2, <2>6 DEF Meets, TypeOK, Labels, Waiting, Returns
    <3>2. Point' = pc' /\ pc' = pc
      BY <2>1, <3>1 DEF Point, Waiting
    <3>. QED BY <3>1, <3>2 DEF Meets, Returns
  <2>. QED BY <2>3, <2>4, <2>5, <2>6
<1>24. ASSUME NEW op \in Ops, Command(op) PROVE Meets'
  <2>1. /\ clean /\ Meets /\ pc = "idle" /\ cmd' = op /\ bit' = NBits
        /\ pc' = IF ackPending /\ op # "scan" THEN "acknak" ELSE First(op)
        /\ UNCHANGED <<sclOut, dev, ackPending>>
    BY <1>0, <1>24 DEF Command, wires, Frame
  <2>2. /\ sclOut = 0 /\ Scl' = 0 /\ IF ackPending THEN AtAck ELSE AtByte
    BY <2>1 DEF Meets, Scl
  <2>3. AtAck' = AtAck /\ AtByte' = AtByte /\ Left' = NBits
    BY <2>1, <2>2 DEF AtAck, AtByte, Left
  <2>4. CASE pc' = "acknak"
    <3>1. ackPending /\ Point' = "acknak"
      BY <2>1, <2>4 DEF First, Ops, Point, Waiting
    <3>. QED BY <2>1, <2>2, <2>3, <2>4, <3>1 DEF Meets, Returns
  <2>5. CASE pc' = "stop_lo"
    <3>1. Point' = "stop_lo"
      BY <2>5 DEF Point, Waiting
    <3>. QED BY <2>1, <2>2, <2>5, <3>1 DEF Meets, Returns
  <2>6. CASE pc' = "out_bit"
    <3>1. ~ackPending /\ op = "write" /\ Point' = "out_bit"
      BY <2>1, <2>6 DEF First, Ops, Point, Waiting
    <3>2. c' \div Pow2[NBits] = 0
      BY <1>a, TypeStep DEF TypeOK
    <3>. QED BY <2>1, <2>2, <2>3, <2>6, <3>1, <3>2 DEF Meets, Returns, AtByte
  <2>7. CASE pc' \in {"clock_up", "clock_low", "in_free"}
    <3>1. ~ackPending /\ Point' = pc'
      BY <2>1, <2>7 DEF First, Ops, Point, Waiting
    <3>. QED BY <2>1, <2>2, <2>3, <2>7, <3>1 DEF Meets, Returns
  <2>8. pc' \in {"acknak", "stop_lo", "out_bit", "clock_up", "clock_low", "in_free"}
    BY <2>1 DEF First, Ops
  <2>. QED BY <2>4, <2>5, <2>6, <2>7, <2>8
<1>. QED BY <1>1, <1>2, <1>3, <1>4, <1>5, <1>6, <1>7, <1>8, <1>9, <1>10, <1>11, <1>12,
      <1>13, <1>14, <1>15, <1>16, <1>17, <1>18, <1>19, <1>20, <1>21, <1>22, <1>23, <1>24
      DEF Next, Firmware, SclHi, Protocol, StartBit, StopBit, Scan

-----------------------------------------------------------------------------
(* The invariant. *)

(* The invariant holds at the beginning.                                   *)
LEMMA InitIInv ==
  ASSUME Init
  PROVE  IInv
<1>1. /\ sdaOut = 1 /\ sclOut = 1 /\ dev.sda = 1 /\ dev.scl = 1 /\ dev.phase = "off"
      /\ dev \in Devices /\ Scl = 1
  BY ByteFacts DEF Init, BusInit, Devices, Level, Scl
<1>2. TypeOK
  <2>1. ok \in BOOLEAN /\ clean \in BOOLEAN /\ ackPending \in BOOLEAN
    BY DEF Init
  <2>2. /\ c \in Byte /\ val \in Byte /\ bit \in 0 .. NBits /\ adr \in 0 .. ScanMax + 1
        /\ found \subseteq 0 .. ScanMax
    BY ByteFacts, ScanAssumption DEF Init
  <2>. QED BY <1>1, <2>1, <2>2 DEF Init, TypeOK, Level, Labels
<1>3. Program /\ PinsAre /\ Frame
  BY <1>1 DEF Init, Program, PinsAre, Frame, Point, Waiting, Returns, Sends, Scans
<1>4. DeviceRules
  BY <1>1 DEF DeviceRules
<1>. QED BY <1>2, <1>3, <1>4 DEF IInv

(* Each step keeps it.                                                     *)
LEMMA StepIInv ==
  ASSUME IInv, [Next]_vars
  PROVE  IInv'
<1>1. CASE Next
  BY <1>1, TypeStep, ProgramStep, PinsAreStep, WiresStep, FrameStep DEF IInv, Frame
<1>2. CASE UNCHANGED vars
  <2>1. TypeOK' /\ Program'
    BY <1>2 DEF IInv, vars, wires, locals, report, TypeOK, Program, Point
  <2>2. PinsAre' /\ DeviceRules'
    BY <1>2 DEF IInv, vars, wires, locals, report, PinsAre, DeviceRules, Point, Acks, SentBit, Scl
  <2>3. Frame'
    BY <1>2 DEF IInv, vars, wires, locals, report, Frame, Meets, Point, AtByte, AtAck, Left, Scl
  <2>. QED BY <2>1, <2>2, <2>3 DEF IInv
<1>. QED BY <1>1, <1>2

(* The wires, the device and the routine that runs stay in step, bit by    *)
(* bit.                                                                    *)
THEOREM I2CInvariant == Spec => []IInv
BY InitIInv, StepIInv, PTL DEF Spec

-----------------------------------------------------------------------------
(* The properties. *)

(* Every variable keeps its type, the byte registers and the loop counters *)
(* their ranges, whatever the device does to the wires.                    *)
THEOREM I2CTyped == Spec => []TypeOK
<1>1. IInv => TypeOK
  BY DEF IInv
<1>. QED BY <1>1, I2CInvariant, PTL

(* Between the commands of a clean frame, firmware and device are at the   *)
(* start of the same byte, or both at its acknowledge.                     *)
THEOREM I2CInStep == Spec => []InStep
<1>1. IInv => InStep
  BY DEF IInv, Frame, Meets, AtByte, AtAck, InStep
<1>. QED BY <1>1, I2CInvariant, PTL

(* An acknowledge that i2c_outb() reads in a clean frame is the device's,  *)
(* which has received exactly the byte that was to be sent.                *)
THEOREM I2CWriteHeard == Spec => []WriteHeard
<1>1. ASSUME IInv, pc = "out_read", ok, clean, Sda = 0
      PROVE  dev.phase = "ack" /\ dev.reg = c
  <2>1. AtAck /\ (dev.phase = "ack" => dev.reg = c) /\ sdaOut = 1
    BY <1>1 DEF IInv, Frame, Meets, PinsAre, Point, Waiting
  <2>2. dev.sda # 1
    BY <1>1, <2>1 DEF Sda
  <2>3. dev.sda = 0
    BY <1>1, <2>2, Levels DEF IInv, Level
  <2>. QED BY <1>1, <2>1, <2>3 DEF IInv, DeviceRules, AtAck
<1>2. IInv => WriteHeard
  BY <1>1 DEF WriteHeard
<1>. QED BY <1>2, I2CInvariant, PTL

(* A byte that READ reports is the byte the device sent.                   *)
THEOREM I2CReadTruth == Spec => []ReadTruth
<1>1. IInv => ReadTruth
  BY DEF IInv, Frame, Meets, ReadTruth
<1>. QED BY <1>1, I2CInvariant, PTL

(* What i2c_mode.c:98 asks for, "assert: sda is high", acknak() finds.     *)
THEOREM I2CAckNakFindsSdaFree == Spec => []AckNakFindsSdaFree
<1>1. IInv => AckNakFindsSdaFree
  BY DEF IInv, Program, PinsAre, AckNakFindsSdaFree
<1>. QED BY <1>1, I2CInvariant, PTL

(* SDA moves under a high SCL only where the code means START or STOP, or  *)
(* where a command came before the clock was down (the "assert: scl is     *)
(* low" of i2c-algo-bit.c).                                                *)
THEOREM I2CNoStrayCondition == Spec => NoStrayCondition
<1>. DEFINE Meant == \/ pc \in {"data_up", "data_down", "data_rise"}
                     \/ pc \in {"stop_lo", "stop_hi", "start_lo"}
                     \/ sclOut = 1 /\ pc \in {"acknak", "in_free", "out_bit", "idle"}
<1>1. ASSUME IInv, Next, Condition
      PROVE  Meant
  <2>1. /\ Scl = 1 /\ Scl' = 1 /\ Sda' # Sda /\ sclOut = 1 /\ sclOut' = 1
        /\ 0 \in Level /\ 1 \in Level /\ TypeOK /\ sdaOut \in Level /\ sclOut \in Level
    BY <1>1, Levels DEF Condition, Scl, IInv, Level
  <2>2. ~(UNCHANGED wires) /\ ~DeviceReleasesScl
    BY <2>1, ReleaseKeepsDeviceRules DEF wires, Sda, IInv, DeviceReleasesScl, Scl
  <2>3. \A l \in Labels, k \in Level : ~DriveScl(l, k)
    BY <1>1, <2>1, ClockIsNoCondition DEF DriveScl, Drive
  <2>4. \A l \in Labels, s \in Level : ~Drive(l, s, 0)
    BY <2>1 DEF Drive, Pins
  <2>5. pc \notin {"out_ack", "data_low", "data_free"}
    BY <1>1, <2>1 DEF IInv, PinsAre
  <2>6. /\ ~SclHi /\ ~Acked /\ ~InBit /\ ~OutClk /\ ~OutAck /\ ~OutRead /\ ~Written
        /\ ~StartClockUp /\ ~StartClockDown /\ ~StartDone /\ ~StopClockLow /\ ~StopDataLow
        /\ ~ScanStartScl /\ ~Tried /\ ~Device
    <3>1. ~SclHi
      BY <2>1, <2>2, <2>3 DEF SclHi, SclRelease, SclHigh, SclExpire, SclTimeout, Labels
    <3>2. ~Acked /\ ~InBit /\ ~OutClk /\ ~OutAck /\ ~OutRead /\ ~Written
      BY <2>1, <2>2, <2>3, <2>4, <2>5 DEF Acked, InBit, OutClk, OutAck, OutRead, Written,
         TimedOut, DriveSda, Drive, Labels
    <3>3. /\ ~StartClockUp /\ ~StartClockDown /\ ~StartDone /\ ~StopClockLow /\ ~StopDataLow
      BY <2>1, <2>3, <2>5 DEF StartClockUp, StartClockDown, StartDone, StopClockLow, StopDataLow,
         DriveSda, Drive, Labels
    <3>4. ~ScanStartScl /\ ~Tried /\ ~Device
      BY <2>1, <2>2, <2>3 DEF ScanStartScl, Tried, Device, Labels
    <3>. QED BY <3>1, <3>2, <3>3, <3>4
  <2>7. ~\E op \in Ops : Command(op)
    BY <2>2 DEF Command
  <2>8. \/ AckNak \/ InFree \/ OutBit \/ StartDataUp \/ StartDataDown \/ StopDone
        \/ ScanStopLo \/ ScanStopHi \/ ScanStartLo \/ Open
    BY <1>1, <2>6, <2>7 DEF Next, Firmware, Protocol, StartBit, StopBit, Scan
  <2>. QED BY <2>1, <2>8 DEF AckNak, InFree, OutBit, StartDataUp, StartDataDown, StopDone,
         ScanStopLo, ScanStopHi, ScanStartLo, Open, DriveSda, Drive
<1>2. ASSUME IInv, [Next]_vars
      PROVE  [Condition => Meant]_vars
  BY <1>1, <1>2
<1>. QED BY <1>2, I2CInvariant, PTL DEF Spec, NoStrayCondition

(* The device is acknowledged, and sends on, only if another byte is to    *)
(* follow: never before a START or a STOP (acknak() and its callers).      *)
THEOREM I2CLastByteNotAcked == Spec => LastByteNotAcked
<1>. DEFINE Follows == clean /\ dev.phase = "mack" /\ dev'.phase = "send"
                         => cmd \in {"read", "write"}
<1>1. ASSUME IInv, Next, clean, dev.phase = "mack", dev'.phase = "send"
      PROVE  Acks
  <2>1. /\ TypeOK /\ DeviceRules /\ PinsAre /\ Meets /\ dev \in Devices
        /\ 0 \in Level /\ 1 \in Level /\ sdaOut \in Level
    BY <1>1, Levels DEF IInv, Frame, Level
  <2>2. ~(UNCHANGED wires) /\ ~DeviceReleasesScl
    BY <1>1, <2>1, ReleaseKeepsDeviceRules DEF wires
  <2>3. PICK s \in Level, k \in Level : Pins(s, k)
    BY <1>1, <2>2, StepIs
  <2>4. Scl = 1 /\ k = 0 /\ dev' \in Lowered(dev)
    <3>1. With(s) \in Level
      BY DEF With, Level
    <3>2. Sampled(dev, With(s)).phase = "mack"
      BY <1>1, <2>1, <3>1, SampledIs
    <3>3. Started(dev).phase = "recv" /\ Stopped(dev).phase = "off"
      BY <2>1 DEF Started, Stopped, Receiving, Deaf, Devices
    <3>. QED BY <1>1, <2>1, <2>3, <3>2, <3>3, PinsCases DEF PinsEffect
  <2>5. dev.reg = 0
    BY <1>1, <2>1, <2>4, FallIs DEF Fallen, Lowered
  <2>6. sclOut' = 0 /\ sclOut = 1
    BY <2>1, <2>3, <2>4, PinsCases, Levels
  <2>7. pc \in {"acked", "in_bit", "out_clk", "out_read", "clock_low", "clock_down", "start_scl"}
    <3>1. ~(\E t \in Level : Pins(t, sclOut)) /\ ~(\E t \in Level : Pins(t, 1))
      BY <2>6 DEF Pins
    <3>2. ~SclHi /\ ~Written /\ ~Tried /\ ~Device /\ ~Open /\ ~\E op \in Ops : Command(op)
      BY <2>1, <2>2, <3>1 DEF SclHi, SclRelease, SclHigh, SclExpire, SclTimeout, Written, Tried,
         Device, Open, Command, DriveScl, Drive
    <3>3. /\ ~AckNak /\ ~InFree /\ ~OutAck /\ ~StartClockUp /\ ~StartDataUp
          /\ ~StartDataDown /\ ~StartDone /\ ~StopDataLow /\ ~StopDone
          /\ ~ScanStopLo /\ ~ScanStopHi /\ ~ScanStartLo
      BY <2>1, <3>1 DEF AckNak, InFree, OutAck, StartClockUp, StartDataUp,
         StartDataDown, StartDone, StopDataLow, StopDone, ScanStopLo, ScanStopHi, ScanStartLo,
         DriveScl, DriveSda, Drive
    <3>4. ~OutBit
      <4>1. ASSUME OutBit PROVE sclOut' = 1
        BY <2>6, <4>1 DEF OutBit, DriveSda, Drive, Pins
      <4>. QED BY <4>1, <2>6
    <3>5. Acked \/ InBit \/ OutClk \/ OutRead \/ StartClockDown \/ StopClockLow \/ ScanStartScl
      BY <1>1, <3>2, <3>3, <3>4 DEF Next, Firmware, Protocol, StartBit, StopBit, Scan
    <3>. QED BY <3>5 DEF Acked, InBit, OutClk, OutRead, StartClockDown, StopClockLow,
         ScanStartScl, TimedOut, DriveScl, Drive
  <2>8. pc \notin {"in_bit", "out_clk", "clock_low", "clock_down", "start_scl"}
    BY <1>1, <2>1, <2>4, <2>6 DEF Meets, Point, Waiting, AtByte
  <2>9. pc # "out_read"
    BY <1>1, <2>1, <2>4, <2>5 DEF Meets, Point, Waiting
  <2>10. pc = "acked" /\ Point = "acked"
    BY <2>7, <2>8, <2>9 DEF Point, Waiting
  <2>. QED BY <1>1, <2>1, <2>4, <2>5, <2>10 DEF Meets, PinsAre
<1>2. ASSUME IInv, [Next]_vars
      PROVE  [Follows]_vars
  BY <1>1, <1>2 DEF Acks
<1>. QED BY <1>2, I2CInvariant, PTL DEF Spec, LastByteNotAcked

(* A STOP that ] sends in a clean frame is one for the device: it leaves   *)
(* the frame, unless it is sending.                                        *)
THEOREM I2CStopEndsFrame == Spec => StopEndsFrame
<1>. DEFINE Ends == pc = "data_rise" /\ ok /\ clean /\ dev.phase # "send" => dev'.phase = "off"
<1>1. ASSUME IInv, Next, pc = "data_rise", ok, clean, dev.phase # "send"
      PROVE  dev'.phase = "off" \/ UNCHANGED vars
  <2>1. /\ TypeOK /\ dev \in Devices /\ Scl = 1 /\ sdaOut = 0 /\ dev.phase \in {"recv", "deaf"}
        /\ dev.sda = 1 /\ Sda = 0 /\ sclOut = 1 /\ 1 \in Level
    <3>1. Scl = 1 /\ sdaOut = 0 /\ dev.phase \in {"recv", "deaf"} /\ TypeOK
      BY <1>1 DEF IInv, Frame, Meets, PinsAre, Point, Waiting, Returns
    <3>2. dev.sda # 0 /\ dev.sda \in {0, 1}
      BY <1>1, <3>1, Levels DEF IInv, DeviceRules, Level
    <3>. QED BY <3>1, <3>2, Levels DEF Sda, Level
  <2>2. StopDone \/ Device
    BY <1>1 DEF Next, Firmware, SclHi, Protocol, StartBit, StopBit, Scan,
      Drive, DriveSda, DriveScl, TimedOut,
      SclRelease, SclHigh, SclExpire, SclTimeout, AckNak, Acked, InFree, InBit, OutBit,
      OutClk, OutAck, OutRead, Written, StartClockUp, StartDataUp, StartDataDown,
      StartClockDown, StartDone, StopClockLow, StopDataLow, ScanStopLo,
      ScanStopHi, ScanStartLo, ScanStartScl, Tried, Command, Open
  <2>3. ~Device
    BY <2>1 DEF Device, DeviceReleasesScl, Scl
  <2>4. Pins(1, 1)
    BY <2>1, <2>2, <2>3 DEF StopDone
  <2>5. dev' = Stopped(dev)
    BY <2>1, <2>4, PinsCases DEF PinsEffect, With
  <2>6. Stopped(dev).phase = "off"
    BY <2>1 DEF Stopped, Deaf, Devices
  <2>. QED BY <2>5, <2>6
<1>2. ASSUME IInv, [Next]_vars
      PROVE  [Ends]_vars
  BY <1>1, <1>2
<1>. QED BY <1>2, I2CInvariant, PTL DEF Spec, StopEndsFrame

(* An address that i2c_scan() enters in its list in a clean frame is the   *)
(* device's.                                                               *)
THEOREM I2CFoundIsThere == Spec => FoundIsThere
<1>. DEFINE There == \A a \in found' \ found : clean => a = DevAddr
<1>1. ASSUME IInv, Next, clean, NEW a \in found' \ found
      PROVE  a = DevAddr
  <2>1. Tried
    <3>1. found' # found /\ ~(found' = {})
      OBVIOUS
    <3>2. ~\E op \in Ops : Command(op)
      BY <3>1 DEF Command
    <3>. QED BY <1>1, <3>1, <3>2 DEF Next, Firmware, SclHi, Protocol, StartBit, StopBit, Scan,
      report, Device, Open,
      SclRelease, SclHigh, SclExpire, SclTimeout, AckNak, Acked, InFree, InBit, OutBit,
      OutClk, OutAck, OutRead, Written, StartClockUp, StartDataUp, StartDataDown,
      StartClockDown, StartDone, StopClockLow, StopDataLow, StopDone, ScanStopLo,
      ScanStopHi, ScanStartLo, ScanStartScl
  <2>2. /\ pc = "tried" /\ res \in {-1, 0, 1}
        /\ \/ found' = found
           \/ found' = (IF res # 0 THEN found \cup {adr} ELSE found)
    BY <1>1, <2>1 DEF Tried, IInv, TypeOK
  <2>3. res # -1 /\ (res = 1 => adr = DevAddr)
    BY <1>1, <2>2 DEF IInv, Frame, Meets
  <2>. QED BY <1>1, <2>2, <2>3
<1>2. ASSUME IInv, [Next]_vars
      PROVE  [There]_vars
  BY <1>1, <1>2
<1>. QED BY <1>2, I2CInvariant, PTL DEF Spec, FoundIsThere

=============================================================================
