-------------------------------- MODULE Clock ---------------------------------
(***************************************************************************)
(* The clock source: a cycle counter that wraps (riscv_timer.c), its       *)
(* conversion to nanoseconds, and the loops that wait (clock.c, clock.h).  *)
(*                                                                         *)
(* Words are CycleBits wide (32 in the code), uint64_t is twice that.  The  *)
(* counter runs by itself: by any amount while the firmware does something *)
(* else, by 1 .. MaxStep cycles between two readings of a loop.            *)
(***************************************************************************)
EXTENDS Bits

CONSTANTS CycleBits,   \* 32
          Freqs,      \* frequencies of the counter: 24 MHz
          NsPerSec,   \* 10^9
          MaxSec,     \* the range asked of the conversion: 10 s
          MaxStep, MaxDelay

VARIABLE clk

Word == Pow2[CycleBits]
Wide == Pow2[2 * CycleBits]
Signed(x) == IF x >= Wide \div 2 THEN x - Wide ELSE x

(* Frequencies and seconds are passed as words. *)
ASSUME ClockWords == CycleBits \in Nat \ {0} /\ NsPerSec \in Nat
                     /\ MaxSec \in Nat \ {0} /\ MaxSec < Word
ASSUME ClockFreqs == \A f \in Freqs : f \in 1 .. NsPerSec /\ f < Word
ASSUME ClockSteps == MaxStep \in Nat \ {0} /\ MaxDelay \in Nat

-----------------------------------------------------------------------------
(* clocks_calc_mult_shift() *)

(* The shifts that leave nothing of x: the bits of a count of MaxSec       *)
(* seconds beyond a word; what is left of a word is room for mult.         *)
Width(x) == CHOOSE k \in 0 .. CycleBits :
              /\ x \div Pow2[k] = 0
              /\ \A j \in 0 .. k - 1 : x \div Pow2[j] # 0
Room(from) == CycleBits - Width((MaxSec * from) \div Word)
ScaledMultBug(from, sft) == (NsPerSec * Pow2[sft]) \div from    \* not rounded
ScaledMult(from, sft) == (NsPerSec * Pow2[sft] + from \div 2) \div from
(* The largest shift that fits; without one the loop ends with shift 0 and *)
(* the mult of shift 1.                                                    *)
CalcMultShift(from) ==
  LET fit == {s \in 1 .. CycleBits : ScaledMult(from, s) < Pow2[Room(from)]}
      best == CHOOSE s \in fit : \A t \in fit : t <= s
  IN IF fit = {} THEN [mult |-> ScaledMult(from, 1) % Word, shift |-> 0]
     ELSE [mult |-> ScaledMult(from, best), shift |-> best]
(* For the frequencies of the program there is one. *)
ASSUME ShiftFits == \A f \in Freqs : ScaledMult(f, 1) < Pow2[Room(f)]

(* cyc2ns(): the product in 64 bits, the result in 32. *)
Cyc2Ns(c, cycles) == (((cycles * c.mult) % Wide) \div Pow2[c.shift]) % Word

(* get_time_ns(): the nanoseconds since the last reading are added. *)
ReadingBug(c) == [c EXCEPT !.last = c.counter]

Reading(c) ==
  [c EXCEPT !.time = (@ + Cyc2Ns(c, (c.counter - c.last) % Word)) % Wide,
            !.last = c.counter]

(* is_timeout(), the clock having been read. *)
IsTimeout(c) == Signed((c.start + c.offset - c.time) % Wide) < 0

-----------------------------------------------------------------------------

ClockInit ==
  clk = [current |-> "dummy", from |-> 0, mult |-> 0, shift |-> 0, counter |-> 0, last |-> 0,
         time |-> 0, pc |-> "idle", start |-> 0, offset |-> 0, ran |-> 0, ret |-> "none"]

(* The counter runs on by k cycles; ran counts them since a loop began, up *)
(* to RanCap: a loop that runs longer is not told from one that runs on.   *)
RanCap == 4 * Word
ASSUME DelaysFit == MaxDelay < RanCap /\ MaxDelay < Wide \div 2
Runs(c, k) == [c EXCEPT !.counter = (@ + k) % Word,
                        !.ran = IF @ + k < RanCap THEN @ + k ELSE RanCap]

(* rdcycle_cs_init() and init_clock(): the counter takes over from the     *)
(* dummy, whose priority is lower, and is read for the first time.         *)
InitClock ==
  /\ clk.current = "dummy"
  /\ \E f \in Freqs, k \in 0 .. Word - 1 :
       LET ms == CalcMultShift(f) IN
       clk' = [Reading([clk EXCEPT !.current = "rdcycle", !.from = f, !.mult = ms.mult,
                                   !.shift = ms.shift, !.counter = k])
               EXCEPT !.time = 0]  \* only differences of time matter

(* ndelay(), udelay(), mdelay(), wait_on_timeout(): read the clock, after  *)
(* any time without a reading.                                             *)
DelayBug ==
  /\ clk.current = "rdcycle" /\ clk.pc = "idle"
  /\ \E k \in 0 .. Word - 1, ns \in 0 .. MaxDelay, what \in {"delay", "wait"} :
       LET c == Reading(Runs(clk, k)) IN
       clk' = [c EXCEPT !.pc = what, !.start = clk.time, !.offset = ns, !.ran = 0, !.ret = "none"]

Delay ==
  /\ clk.current = "rdcycle" /\ clk.pc = "idle"
  /\ \E k \in 0 .. Word - 1, ns \in 0 .. MaxDelay, what \in {"delay", "wait"} :
       LET c == Reading(Runs(clk, k)) IN
       clk' = [c EXCEPT !.pc = what, !.start = c.time, !.offset = ns, !.ran = 0, !.ret = "none"]

Returns(c, ret) == [c EXCEPT !.pc = "idle", !.ret = ret]

(* One turn of a loop: the clock is read and compared. *)
Poll ==
  /\ clk.pc # "idle"
  /\ \E k \in 1 .. MaxStep :
       LET c == Reading(Runs(clk, k)) IN
       clk' = IF IsTimeout(c) THEN Returns(c, "timeout") ELSE c

(* The condition of wait_on_timeout() is looked at before the clock. *)
ConditionTrue == clk.pc = "wait" /\ clk' = Returns(clk, "true")

ClockNext == InitClock \/ Delay \/ Poll \/ ConditionTrue

(* A waiting loop does nothing but run. *)
ClockFair == WF_clk(Poll)
ClockSpec == ClockInit /\ [][ClockNext]_clk /\ ClockFair

-----------------------------------------------------------------------------

(* The conversion of any count of cycles is exact but for three things:    *)
(* whole words are lost (cyc2ns() returns 32 bits), less than a nanosecond *)
(* is cut off, and mult is off by half a unit of the last bit.             *)
ConversionExact ==
  clk.current = "rdcycle" =>
    \A n \in 0 .. Word - 1 : \E lost \in 0 .. Word - 1 :
      LET scale == 2 * NsPerSec * Pow2[clk.shift]
          unit == 2 * clk.from * Pow2[clk.shift]
          ns == Cyc2Ns(clk, n) + lost * Word
      IN  /\ ns * unit <= n * (scale + clk.from)
          /\ n * (scale - clk.from) < (ns + 1) * unit

(* A delay or a timeout is never over before its time, wherever counter,   *)
(* clock and conversion wrapped: the cycles that ran last longer than the  *)
(* nanoseconds asked for, up to the rounding of mult by half a unit.       *)
DelayNotShort ==
  clk.ret = "timeout" =>
    clk.ran * (2 * NsPerSec * Pow2[clk.shift] + clk.from) > clk.offset * 2 * clk.from * Pow2[clk.shift]

(* Every waiting loop ends. *)
DelayEnds == clk.pc # "idle" ~> clk.pc = "idle"
=============================================================================
