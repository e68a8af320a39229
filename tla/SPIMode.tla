------------------------------- MODULE SPIMode --------------------------------
(***************************************************************************)
(* The SPI mode (spi_mode.c), its bit loops (spi-bitbang-txrx.h) on the    *)
(* pins of spi0.c, and a device that is not part of the repository.  One   *)
(* step per write of a register; the mode may be changed and the I2C       *)
(* driver used between the commands.                                       *)
(***************************************************************************)
EXTENDS GPIO, Bits

CONSTANTS NBits,      \* bits of a transfer: 8
          WordBits,   \* bits of the word they are shifted through: 32
          Modes       \* clock modes: spi_mode.c uses 0 only, spi0.c takes any

CPHA == 1
CPOL == 2
CS_HIGH == 4
Bit(m, flag) == (m \div flag) % 2

ASSUME WordAssumption == NBits \in Nat /\ NBits >= 1 /\ WordBits \in Nat /\ WordBits >= NBits
ASSUME ModesAssumption == Modes \subseteq 0 .. 7

VARIABLES spi,   \* mode, the shadow opaque, and the transfer in progress
          dev    \* the device

spiVars == <<gpioVars, spi, dev>>

Byte == 0 .. Pow2[NBits] - 1
Idle == spi.pc = "idle"
cpha == Bit(spi.mode, CPHA)
cpol == Bit(spi.mode, CPOL)

-----------------------------------------------------------------------------
(* The device: it is selected by cs, samples mosi at one edge of sck and   *)
(* moves miso at the other, the first bit standing as soon as it is        *)
(* selected when CPHA is 0.  out is the byte it is sending, n the bits it  *)
(* has sampled of the one it receives; got and gave are the last whole     *)
(* bytes.                                                                  *)

Selected(d, dir) == High(d, dir, "cs") <=> (Bit(spi.mode, CS_HIGH) = 1)
ActiveClock(d, dir) == High(d, dir, "sck") <=> (cpol = 0)
TopBit(x, k) == BitOf(x, NBits - 1 - k)

Samples(x, level) ==
  LET reg == (2 * x.reg + level) % Pow2[NBits] IN
  IF x.n + 1 < NBits THEN {[x EXCEPT !.n = @ + 1, !.reg = reg]}
  ELSE {[x EXCEPT !.n = 0, !.reg = 0, !.got = reg, !.gave = x.out, !.out = o] : o \in Byte}
Presents(x) == {[x EXCEPT !.miso = TopBit(x.out, x.n)]}

(* What the device may do when the registers become d and dir. *)
Sees(d, dir) ==
  LET selected == Selected(d, dir)
      active == ActiveClock(d, dir)
      level == IF High(d, dir, "mosi") THEN 1 ELSE 0
      sampling == active = (cpha = 0)
  IN
  IF selected # dev.sel
  THEN {[dev EXCEPT !.sel = selected, !.active = active, !.n = 0, !.reg = 0, !.out = o,
                    !.miso = IF cpha = 0 THEN TopBit(o, 0) ELSE 1] : o \in Byte}
  ELSE IF ~selected \/ active = dev.active THEN {[dev EXCEPT !.active = active]}
  ELSE LET x == [dev EXCEPT !.active = active]
       IN IF sampling THEN Samples(x, level) ELSE Presents(x)

-----------------------------------------------------------------------------
(* The pins of spi0.c. *)

(* setsck(), setmosi(), setcs(): change a bit of the shadow and write all. *)
SetPin(p, on, next) ==
  LET opaque == IF on THEN spi.opaque \cup {p} ELSE spi.opaque \ {p} IN
  /\ spi' = [next EXCEPT !.opaque = opaque]
  /\ dat' = opaque
  /\ dev' \in Sees(opaque, dirout)
  /\ UNCHANGED <<dirout, busMode>>

(* getmiso(): the level of the device's line, which floats when it is not  *)
(* selected.                                                               *)
Miso(device) ==
  IF IsOutput(dirout, "miso") THEN {IF "miso" \in dat THEN 1 ELSE 0}
  ELSE IF device.sel THEN {device.miso} ELSE {0, 1}

-----------------------------------------------------------------------------
(* The commands of spi_mode.c. *)

(* init_spi0_device(): the pins' directions are set, their values not. *)
OpenSpi ==
  LET dir == (dirout \ SpiOutputs) \cup {"miso"} IN
  /\ Idle
  /\ busMode' = "SPI"
  /\ spi' = [spi EXCEPT !.opaque = {}, !.framed = "unknown", !.did = "none"]
  /\ dirout' = dir /\ dat' = dat
  /\ dev' \in Sees(dat, dir)

(* [ and ] *)
SetCs(en) ==
  /\ Idle /\ busMode = "SPI"
  /\ SetPin("cs", (Bit(spi.mode, CS_HIGH) = 1) <=> en,
            [spi EXCEPT !.framed = IF en THEN "yes" ELSE "no", !.did = "none"])

(* A number is sent, r sends a word of zeros: word <<= (32 - bits). *)
TransferBug(word, kind) ==
  /\ Idle /\ busMode = "SPI"
  /\ spi' = [spi EXCEPT !.word = word, !.bits = NBits, !.val = word, !.did = kind,
                        !.pc = IF cpha = 0 THEN "mosi" ELSE "lead"]
  /\ UNCHANGED <<gpioVars, dev>>

Transfer(word, kind) ==
  /\ Idle /\ busMode = "SPI"
  /\ spi' = [spi EXCEPT !.word = (word * Pow2[WordBits - NBits]) % Pow2[WordBits],
                        !.bits = NBits, !.val = word, !.did = kind,
                        !.pc = IF cpha = 0 THEN "mosi" ELSE "lead"]
  /\ UNCHANGED <<gpioVars, dev>>

SetMosi ==
  /\ spi.pc = "mosi"
  /\ SetPin("mosi", spi.word \div Pow2[WordBits - 1] = 1,
            [spi EXCEPT !.pc = IF cpha = 0 THEN "lead" ELSE "trail"])

LeadingEdge ==
  /\ spi.pc = "lead"
  /\ SetPin("sck", cpol = 0, [spi EXCEPT !.pc = IF cpha = 0 THEN "trail" ELSE "mosi"])

(* The bit is read before the clock returns (CPHA 0) or after (CPHA 1);    *)
(* word moves up by one bit, the read ones following from below.           *)
ShiftIn(bit) ==
  LET word == (2 * spi.word + bit) % Pow2[WordBits]
      more == spi.bits > 1
  IN [spi EXCEPT !.word = IF more THEN word ELSE 0, !.bits = @ - 1,
                 !.val = IF ~more /\ spi.did = "read" THEN word % Pow2[NBits] ELSE @,
                 !.pc = IF ~more THEN "idle" ELSE IF cpha = 0 THEN "mosi" ELSE "lead"]

TrailingEdge ==
  /\ spi.pc = "trail"
  /\ \E bit \in {0, 1} : /\ SetPin("sck", cpol = 1, ShiftIn(bit))
                         /\ bit \in Miso(IF cpha = 0 THEN dev ELSE dev')

SpiInit ==
  /\ GpioInit
  /\ spi \in {[mode |-> m, opaque |-> {}, pc |-> "idle", word |-> 0, bits |-> 0,
               val |-> 0, did |-> "none", framed |-> "unknown"] : m \in Modes}
  /\ dev = [sel |-> Selected(dat, dirout), active |-> ActiveClock(dat, dirout),
            n |-> 0, reg |-> 0, out |-> 0, miso |-> 0, got |-> 0, gave |-> 0]

(* Opening another mode leaves the SPI pins as they are, but for dat = 0. *)
Leave ==
  /\ Idle
  /\ OpenI2c \/ OpenHiZ
  /\ dev' \in Sees(dat', dirout')
  /\ spi' = [spi EXCEPT !.framed = "unknown", !.did = "none"]

UseI2c ==
  /\ Idle
  /\ \E p \in I2cPins : I2cGet(p) \/ \E s \in {0, 1} : I2cSet(p, s)
  /\ UNCHANGED <<spi, dev>>

SpiNext ==
  \/ OpenSpi \/ Leave \/ UseI2c
  \/ \E en \in BOOLEAN : SetCs(en)
  \/ \E c \in Byte : Transfer(c, "write")
  \/ Transfer(0, "read")
  \/ SetMosi \/ LeadingEdge \/ TrailingEdge

SpiSpec == SpiInit /\ [][SpiNext]_spiVars

-----------------------------------------------------------------------------

(* Between [ and ] the device is selected and, when a command is done, at  *)
(* a byte boundary; it has received the byte that was sent, and what r     *)
(* shows is the byte it gave.  After ] it is not selected.  This holds in  *)
(* whatever mode the pins were used before, the value register having been *)
(* cleared by I2C or kept from an earlier use.                             *)
SpiFrameExact ==
  Idle => /\ spi.framed = "yes" => /\ dev.sel /\ dev.n = 0
                                   /\ spi.did = "write" => dev.got = spi.val
                                   /\ spi.did = "read" => dev.gave = spi.val
          /\ spi.framed = "no" => ~dev.sel
=============================================================================
