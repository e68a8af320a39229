--------------------------------- MODULE GPIO ---------------------------------
(***************************************************************************)
(* The two GPIO registers both bus drivers write: the value register at    *)
(* 0x91000000 and the direction register at 0x91000004, each as the set of *)
(* pins whose bit is 1.  i2c0.c reads, changes and writes the direction    *)
(* register; spi0.c writes the whole value register from a shadow of its   *)
(* own, which knows nothing of the I2C pins.                               *)
(*                                                                         *)
(* The hardware behind the registers is not in the repository.  OutBit is  *)
(* the bit that makes a pin an output: spi0.c clears the bits of its       *)
(* outputs (OutBit = 0), i2c0.c sets the bit of a pin to pull it down      *)
(* (OutBit = 1).  The two cannot both be right.                            *)
(***************************************************************************)
EXTENDS Integers

CONSTANT OutBit

ASSUME OutBitAssumption == OutBit \in {0, 1}

VARIABLES dat, dirout,
          busMode    \* mode of bus_spider.c, the one that was chosen last

gpioVars == <<dat, dirout, busMode>>

SpiOutputs == {"sck", "mosi", "cs"}
I2cPins == {"scl", "sda"}
Pins == SpiOutputs \cup I2cPins \cup {"miso"}

IsOutput(dir, p) == (p \in dir) <=> (OutBit = 1)
(* An output shows its value bit; an input floats up, or has the level its *)
(* other end gives it.                                                     *)
High(d, dir, p) == IF IsOutput(dir, p) THEN p \in d ELSE TRUE

(* After reset; the direction bits of the reset state are not known. *)
GpioInit ==
  /\ dat = {}
  /\ dirout \in {{}, Pins}
  /\ busMode = "HiZ"

(* init_i2c0(): release both wires, and clear the whole value register. *)
OpenI2c ==
  /\ busMode' = "I2C"
  /\ dirout' = dirout \ I2cPins
  /\ dat' = {}

(* setsda, setscl: drop the direction bit for 1, set it for 0. *)
I2cSet(p, state) ==
  /\ busMode = "I2C"
  /\ dirout' = IF state = 1 THEN dirout \ {p} ELSE dirout \cup {p}
  /\ UNCHANGED <<dat, busMode>>

(* getsda, getscl: release the wire before reading it. *)
I2cGet(p) ==
  /\ busMode = "I2C"
  /\ dirout' = dirout \ {p}
  /\ UNCHANGED <<dat, busMode>>

(* HiZ has no open(), and change_mode() calls no close(). *)
OpenHiZ == busMode' = "HiZ" /\ UNCHANGED <<dat, dirout>>
=============================================================================
