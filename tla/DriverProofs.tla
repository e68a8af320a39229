------------------------------ MODULE DriverProofs -----------------------------
(***************************************************************************)
(* The drivers.  The conversion of the clock loses whole words and what is *)
(* rounded, nothing else, and no delay is short.  The memory test tells the truth about every RAM of the       *)
(* modelled faults, whatever its size and the width of its words.  The     *)
(* frames of the SPI mode are whole, for bytes and words of any width.     *)
(* The console gives each key the bytes that make it and no more, and      *)
(* prints each text whole, for every keyboard and every set of texts.      *)
(***************************************************************************)
EXTENDS Clock, Console, MemTest, SPIMode, NumberLemmas

-----------------------------------------------------------------------------
(* The clock. *)

(* The constants are numbers, and two words make a wide one.               *)
LEMMA ClockFacts ==
  /\ CycleBits \in Nat \ {0} /\ NsPerSec \in Nat /\ MaxSec \in Nat \ {0} /\ MaxDelay \in Nat
  /\ Word \in Nat \ {0} /\ Wide = Word * Word /\ Wide \in Nat \ {0} /\ MaxSec < Word
  /\ \A s \in Nat : Pow2[s] \in Nat \ {0}
<1>1. CycleBits \in Nat \ {0} /\ 2 * CycleBits = CycleBits + CycleBits
  BY ClockWords
<1>2. Word \in Nat \ {0} /\ Wide \in Nat \ {0}
  <2>1. CycleBits \in Nat /\ 2 * CycleBits \in Nat
    BY <1>1
  <2>. QED BY <2>1, Pow2Facts DEF Word, Wide
<1>3. Wide = Word * Word
  BY <1>1, Pow2Product DEF Word, Wide
<1>. QED BY <1>1, <1>2, <1>3, ClockWords, ClockSteps, Pow2Facts

(* A frequency fits into a word.                                           *)
LEMMA FreqFacts ==
  ASSUME NEW f \in Freqs
  PROVE  f \in Nat \ {0} /\ f <= NsPerSec /\ f < Word
BY ClockFreqs, ClockFacts

(* As many shifts as Width() says leave nothing of a word. *)
LEMMA WidthIs ==
  ASSUME NEW x \in Nat, x < Word
  PROVE  Width(x) \in 0 .. CycleBits /\ x < Pow2[Width(x)]
<1>. DEFINE T == {k \in Nat : x \div Pow2[k] = 0}
            Fits(k) == /\ x \div Pow2[k] = 0
                       /\ \A j \in 0 .. k - 1 : x \div Pow2[j] # 0
<1>1. CycleBits \in T
  <2>1. x = Word * 0 + x /\ 0 \in Nat /\ x \in 0 .. Word - 1 /\ Word \in Nat \ {0}
    BY ClockFacts
  <2>2. x \div Word = 0
    BY <2>1, QuotientIs
  <2>. QED BY <2>2, ClockFacts DEF Word
<1>2. PICK k \in T : \A y \in T : k <= y
  <2>1. T \subseteq Nat /\ T # {}
    BY <1>1
  <2>. HIDE DEF T
  <2>. QED BY <2>1, LeastMember
<1>3. k \in 0 .. CycleBits /\ Fits(k)
  <2>1. k \in Nat /\ x \div Pow2[k] = 0 /\ k <= CycleBits
    BY <1>1, <1>2
  <2>2. ASSUME NEW j \in 0 .. k - 1
        PROVE  x \div Pow2[j] # 0
    BY <1>2, <2>1, <2>2
  <2>. QED BY <2>1, <2>2, ClockFacts
<1>4. Width(x) = CHOOSE n \in 0 .. CycleBits : Fits(n)
  BY DEF Width
<1>5. Width(x) \in 0 .. CycleBits /\ Fits(Width(x))
  <2>. HIDE DEF Fits
  <2>. QED BY <1>3, <1>4
<1>6. Width(x) \in Nat /\ x \div Pow2[Width(x)] = 0
  BY <1>5
<1>7. x < 0 * Pow2[Width(x)] + Pow2[Width(x)] /\ Pow2[Width(x)] \in Nat
  BY <1>6, ClockFacts, Divided
<1>. QED BY <1>5, <1>7

-----------------------------------------------------------------------------
(* The conversion. *)

(* The room for mult is at most a word.                                    *)
LEMMA RoomFits ==
  ASSUME NEW f \in Freqs
  PROVE  /\ Room(f) \in Nat /\ Pow2[Room(f)] \in Nat \ {0}
         /\ Pow2[Room(f)] <= Word
<1>. DEFINE c == MaxSec * f
            x == c \div Word
            w == Width(x)
            p == Pow2[w]
            r == Pow2[Room(f)]
<1>1. c \in Nat /\ c < Wide
  <2>1. f \in Nat /\ f < Word /\ MaxSec \in Nat /\ MaxSec < Word
    BY FreqFacts, ClockFacts
  <2>2. MaxSec * f <= MaxSec * Word /\ MaxSec * Word < Word * Word
    BY <2>1, ClockFacts
  <2>. QED BY <2>1, <2>2, ClockFacts
<1>2. x \in Nat /\ x * Word <= c /\ c < x * Word + Word
  <2>. HIDE DEF c
  <2>. QED BY <1>1, ClockFacts, Divided
<1>3. x < Word
  <2>. HIDE DEF c, x
  <2>1. SUFFICES ASSUME x >= Word PROVE FALSE
    BY <1>2, ClockFacts
  <2>2. x * Word >= Word * Word
    BY <2>1, <1>2, ClockFacts
  <2>. QED BY <2>2, <1>1, <1>2, ClockFacts
<1>4. w \in 0 .. CycleBits /\ x < p
  <2>. HIDE DEF x
  <2>. QED BY <1>2, <1>3, WidthIs
<1>5. Room(f) = CycleBits - w
  BY DEF Room
<1>6. w \in Nat /\ Room(f) \in Nat /\ w + Room(f) = CycleBits
  <2>. HIDE DEF w
  <2>. QED BY <1>4, <1>5, ClockFacts
<1>7. p \in Nat \ {0} /\ r \in Nat \ {0} /\ p * r = Word
  <2>1. Pow2[w + Room(f)] = p * r
    BY <1>6, Pow2Product
  <2>. QED BY <1>6, <2>1, ClockFacts DEF Word
<1>. HIDE DEF p, r, x, c, w
<1>8. r <= p * r
  BY <1>7
<1>. QED BY <1>6, <1>7, <1>8 DEF r

(* The rounded factor is within half a unit of the exact one. *)
LEMMA ScaledIs ==
  ASSUME NEW f \in Freqs, NEW s \in Nat
  PROVE  /\ ScaledMult(f, s) \in Nat
         /\ 2 * (ScaledMult(f, s) * f) <= 2 * (NsPerSec * Pow2[s]) + f
         /\ 2 * (NsPerSec * Pow2[s]) <= 2 * (ScaledMult(f, s) * f) + f
<1>. DEFINE N == NsPerSec * Pow2[s]
            h == f \div 2
            m == ScaledMult(f, s)
<1>1. f \in Nat \ {0} /\ N \in Nat
  BY FreqFacts, ClockFacts
<1>2. h \in Nat /\ 2 * h <= f /\ f <= 2 * h + 1
  BY <1>1
<1>3. m \in Nat /\ m * f <= N + h /\ N + h < m * f + f
  <2>1. m = (N + h) \div f
    BY DEF ScaledMult
  <2>2. N + h \in Nat
    BY <1>1, <1>2
  <2>. HIDE DEF N, h, m
  <2>. QED BY <1>1, <2>1, <2>2, Divided
<1>4. m * f \in Int
  <2>. HIDE DEF m
  <2>. QED BY <1>1, <1>3
<1>. HIDE DEF N, h, m
<1>5. 2 * (m * f) <= 2 * N + f /\ 2 * N <= 2 * (m * f) + f
  BY <1>1, <1>2, <1>3, <1>4
<1>. QED BY <1>3, <1>5 DEF m, N

(* The loop finds the largest shift that fits. *)
LEMMA LargestShift ==
  ASSUME NEW f \in Freqs
  PROVE  \E s \in 1 .. CycleBits :
           /\ CalcMultShift(f) = [mult |-> ScaledMult(f, s), shift |-> s]
           /\ ScaledMult(f, s) < Pow2[Room(f)]
           /\ \A t \in s + 1 .. CycleBits : ScaledMult(f, t) >= Pow2[Room(f)]
<1>. DEFINE fit == {s \in 1 .. CycleBits : ScaledMult(f, s) < Pow2[Room(f)]}
            best == CHOOSE s \in fit : \A t \in fit : t <= s
            T == {n \in Nat : CycleBits - n \in fit}
<1>1. 1 \in fit
  BY ShiftFits, ClockFacts
<1>2. PICK n \in T : \A y \in T : n <= y
  <2>1. CycleBits - 1 \in T
    BY <1>1, ClockFacts
  <2>2. T \subseteq Nat /\ T # {}
    BY <2>1
  <2>. HIDE DEF T
  <2>. QED BY <2>2, LeastMember
<1>3. CycleBits - n \in fit /\ \A t \in fit : t <= CycleBits - n
  <2>1. n \in Nat /\ CycleBits - n \in fit
    BY <1>2
  <2>2. ASSUME NEW t \in fit
        PROVE  t <= CycleBits - n
    <3>1. t \in 1 .. CycleBits
      OBVIOUS
    <3>2. CycleBits - t \in Nat /\ CycleBits - (CycleBits - t) = t
      BY <3>1, ClockFacts
    <3>3. CycleBits - t \in T
      BY <3>2
    <3>4. n <= CycleBits - t
      BY <1>2, <3>3
    <3>. QED BY <2>1, <3>1, <3>4, ClockFacts
  <2>. QED BY <2>1, <2>2
<1>4. best \in fit /\ \A t \in fit : t <= best
  <2>. HIDE DEF fit
  <2>. QED BY <1>3
<1>5. CalcMultShift(f) = [mult |-> ScaledMult(f, best), shift |-> best]
  <2>1. fit # {}
    BY <1>1
  <2>. QED BY <2>1 DEF CalcMultShift
<1>. HIDE DEF best
<1>6. best \in 1 .. CycleBits /\ ScaledMult(f, best) < Pow2[Room(f)]
  BY <1>4
<1>7. ASSUME NEW t \in best + 1 .. CycleBits
      PROVE  ScaledMult(f, t) >= Pow2[Room(f)]
  <2>1. t \in 1 .. CycleBits /\ ~(t <= best) /\ t \in Nat
    BY <1>6, ClockFacts
  <2>2. ~(ScaledMult(f, t) < Pow2[Room(f)])
    BY <1>4, <2>1
  <2>. QED BY <2>1, <2>2, ScaledIs, RoomFits
<1>. QED BY <1>5, <1>6, <1>7

-----------------------------------------------------------------------------
(* The inductive invariant. *)

Clocks ==
  [current : {"dummy", "rdcycle"}, from : Nat, mult : Nat, shift : Nat,
          counter : 0 .. Word - 1, last : 0 .. Word - 1, time : 0 .. Wide - 1,
          pc : {"idle", "delay", "wait"}, start : 0 .. Wide - 1, offset : 0 .. MaxDelay,
          ran : 0 .. RanCap, ret : {"none", "true", "timeout"}]
ClockTyped == clk \in Clocks

(* The dummy never runs a loop; the counter is used with the factors of    *)
(* its frequency, and has been read.                                       *)
Chosen ==
  IF clk.current = "dummy"
  THEN clk.shift = 0 /\ clk.pc = "idle" /\ clk.ret = "none" /\ clk.last = 0
  ELSE /\ clk.from \in Freqs /\ clk.shift \in 1 .. CycleBits /\ clk.last = clk.counter
       /\ clk.pc # "idle" => clk.ret = "none"
       /\ clk.mult = ScaledMult(clk.from, clk.shift) /\ clk.mult < Pow2[Room(clk.from)]
       /\ \A s \in clk.shift + 1 .. CycleBits : ScaledMult(clk.from, s) >= Pow2[Room(clk.from)]

(* In a loop the time has moved on by no more than the cycles that ran,    *)
(* converted, however often the words in between wrapped.                  *)
Passed(c, d, j) ==
  c.start + d = c.time + Wide * j /\ d * Pow2[c.shift] <= c.ran * c.mult
Counted ==
  clk.pc # "idle" /\ clk.ran < RanCap => \E d \in Nat, j \in Int : Passed(clk, d, j)

ClockInvariant == ClockTyped /\ Chosen /\ Counted /\ DelayNotShort

(* The counter runs on modulo its width.                                   *)
LEMMA RunsFacts ==
  ASSUME ClockTyped, NEW k \in Nat
  PROVE  /\ Runs(clk, k) \in Clocks
         /\ Runs(clk, k) = [clk EXCEPT !.counter = (clk.counter + k) % Word,
                                      !.ran = IF clk.ran + k < RanCap THEN clk.ran + k ELSE RanCap]
<1>. DEFINE x == (clk.counter + k) % Word
            r == IF clk.ran + k < RanCap THEN clk.ran + k ELSE RanCap
<1>1. clk.counter \in 0 .. Word - 1 /\ clk.ran \in 0 .. RanCap /\ RanCap \in Nat /\ Word \in Nat \ {0}
  BY ClockFacts DEF Clocks, ClockTyped, RanCap
<1>2. x \in 0 .. Word - 1
  BY <1>1
<1>3. r \in 0 .. RanCap
  BY <1>1
<1>4. Runs(clk, k) = [clk EXCEPT !.counter = x, !.ran = r]
  BY DEF Runs, Clocks, ClockTyped
<1>. HIDE DEF x, r
<1>5. [clk EXCEPT !.counter = x, !.ran = r] \in Clocks
  BY <1>2, <1>3 DEF ClockTyped, Clocks
<1>. QED BY <1>4, <1>5 DEF x, r

(* The cycles between two readings, as the code computes them. *)
LEMMA CyclesBetween ==
  ASSUME NEW last \in 0 .. Word - 1, NEW k \in Nat
  PROVE  /\ (((last + k) % Word) - last) % Word \in 0 .. Word - 1
         /\ (((last + k) % Word) - last) % Word <= k
<1>. DEFINE x == (last + k) % Word
            y == (x - last) % Word
<1>1. Word \in Nat \ {0}
  BY ClockFacts
<1>2. PICK q \in Int : x \in 0 .. Word - 1 /\ last + k = Word * q + x
  <2>1. last + k \in Int
    BY <1>1
  <2>. QED BY <1>1, <2>1, Remainder
<1>. HIDE DEF x
<1>3. PICK p \in Int : y \in 0 .. Word - 1 /\ x - last = Word * p + y
  <2>1. x - last \in Int
    BY <1>1, <1>2
  <2>. QED BY <1>1, <2>1, Remainder
<1>. HIDE DEF y
<1>4. k = Word * (q + p) + y
  <2>1. Word * (q + p) = Word * q + Word * p /\ Word * q \in Int /\ Word * p \in Int
    BY <1>1
  <2>. QED BY <1>1, <1>2, <1>3, <2>1
<1>5. q + p >= 0
  <2>1. SUFFICES ASSUME q + p <= -1 PROVE FALSE
    OBVIOUS
  <2>2. Word * (q + p) <= -Word /\ Word * (q + p) \in Int
    BY <1>1, <2>1
  <2>. QED BY <1>1, <1>3, <1>4, <2>2
<1>6. Word * (q + p) >= 0 /\ Word * (q + p) \in Int
  BY <1>1, <1>5
<1>7. y <= k
  BY <1>1, <1>3, <1>4, <1>6
<1>. QED BY <1>3, <1>7 DEF x, y

(* Converting loses nanoseconds and never adds any. *)
LEMMA NeverMore ==
  ASSUME ClockTyped, NEW k \in Nat, NEW c, c.mult = clk.mult, c.shift = clk.shift,
         NEW y \in Nat, y <= k
  PROVE  Cyc2Ns(c, y) \in Nat /\ Cyc2Ns(c, y) * Pow2[clk.shift] <= k * clk.mult
<1>. DEFINE p == Pow2[clk.shift]
            m == clk.mult
            z == (y * m) % Wide
            n == z \div p
            r == n % Word
<1>1. p \in Nat \ {0} /\ m \in Nat /\ y * m \in Nat /\ Word \in Nat \ {0} /\ Wide \in Nat \ {0}
  BY ClockFacts DEF ClockTyped, Clocks
<1>2. z \in Nat /\ z <= y * m
  <2>. DEFINE u == y * m
  <2>1. u \in Nat
    BY <1>1
  <2>. HIDE DEF u
  <2>2. u \div Wide \in Nat /\ u % Wide \in 0 .. Wide - 1 /\ u = Wide * (u \div Wide) + (u % Wide)
    BY <1>1, <2>1, Quotient
  <2>3. Wide * (u \div Wide) \in Nat
    BY <1>1, <2>2
  <2>4. u % Wide \in Nat /\ u % Wide <= u
    BY <1>1, <2>1, <2>2, <2>3
  <2>. QED BY <2>4 DEF u
<1>3. Cyc2Ns(c, y) = r
  BY DEF Cyc2Ns
<1>. HIDE DEF z
<1>4. n \in Nat /\ n * p <= z
  <2>. HIDE DEF p
  <2>. QED BY <1>1, <1>2, Divided
<1>. HIDE DEF n
<1>5. r \in Nat /\ r <= n
  <2>1. n \div Word \in Nat /\ r \in 0 .. Word - 1 /\ n = Word * (n \div Word) + r
    BY <1>1, <1>4, Quotient
  <2>2. Word * (n \div Word) \in Nat
    BY <1>1, <2>1
  <2>. HIDE DEF r
  <2>. QED BY <1>1, <1>4, <2>1, <2>2
<1>. HIDE DEF r, p, m
<1>6. r * p <= n * p /\ y * m <= k * m
  BY <1>1, <1>4, <1>5
<1>7. r * p \in Int /\ n * p \in Int /\ y * m \in Int /\ k * m \in Int
  BY <1>1, <1>4, <1>5
<1>8. r * p <= k * m
  BY <1>2, <1>4, <1>6, <1>7
<1>. QED BY <1>3, <1>5, <1>8 DEF p, m

(* A reading after k more cycles. *)
LEMMA ReadingFacts ==
  ASSUME ClockTyped, clk.last = clk.counter, NEW k \in Nat, NEW c, c = Reading(Runs(clk, k))
  PROVE  /\ c \in Clocks
         /\ c.current = clk.current /\ c.from = clk.from /\ c.mult = clk.mult /\ c.shift = clk.shift
         /\ c.pc = clk.pc /\ c.start = clk.start /\ c.offset = clk.offset /\ c.ret = clk.ret
         /\ c.last = c.counter
         /\ c.ran = IF clk.ran + k < RanCap THEN clk.ran + k ELSE RanCap
         /\ \E e \in Nat, j \in Int : clk.time + e = c.time + Wide * j
                                      /\ e * Pow2[clk.shift] <= k * clk.mult
<1>. DEFINE b == Runs(clk, k)
            y == (b.counter - b.last) % Word
            e == Cyc2Ns(b, y)
            t == (b.time + e) % Wide
<1>1. /\ b \in Clocks
      /\ b = [clk EXCEPT !.counter = (clk.counter + k) % Word,
                         !.ran = IF clk.ran + k < RanCap THEN clk.ran + k ELSE RanCap]
  BY RunsFacts
<1>2. /\ b.current = clk.current /\ b.from = clk.from /\ b.mult = clk.mult /\ b.shift = clk.shift
      /\ b.pc = clk.pc /\ b.start = clk.start /\ b.offset = clk.offset /\ b.ret = clk.ret
      /\ b.last = clk.counter /\ b.counter = (clk.counter + k) % Word /\ b.time = clk.time
      /\ b.ran = IF clk.ran + k < RanCap THEN clk.ran + k ELSE RanCap
  BY <1>1 DEF ClockTyped, Clocks
<1>. HIDE DEF b
<1>3. y \in Nat /\ y <= k
  <2>1. clk.counter \in 0 .. Word - 1
    BY DEF ClockTyped, Clocks
  <2>2. y = (((clk.counter + k) % Word) - clk.counter) % Word
    BY <1>2
  <2>3. y \in 0 .. Word - 1 /\ y <= k
    BY <2>1, <2>2, CyclesBetween
  <2>. QED BY <2>3, ClockFacts
<1>. HIDE DEF y
<1>4. e \in Nat /\ e * Pow2[clk.shift] <= k * clk.mult
  BY <1>2, <1>3, NeverMore
<1>5. c = [b EXCEPT !.time = t, !.last = b.counter]
  BY <1>1 DEF Reading, y, b
<1>. HIDE DEF e
<1>6. PICK j \in Int : t \in 0 .. Wide - 1 /\ clk.time + e = Wide * j + t
  <2>1. clk.time + e \in Int /\ Wide \in Nat \ {0}
    BY <1>4, ClockFacts DEF ClockTyped, Clocks
  <2>2. t = (clk.time + e) % Wide
    BY <1>2
  <2>. QED BY <2>1, <2>2, Remainder
<1>. HIDE DEF t
<1>7. c.time = t /\ c.last = b.counter /\ c.counter = b.counter /\ c.current = b.current
      /\ c.from = b.from /\ c.mult = b.mult /\ c.shift = b.shift /\ c.pc = b.pc /\ c.start = b.start
      /\ c.offset = b.offset /\ c.ret = b.ret /\ c.ran = b.ran
  BY <1>1, <1>5 DEF Clocks
<1>8. c \in Clocks
  BY <1>1, <1>5, <1>6, ZenonT(40) DEF Clocks
<1>9. clk.time + e = c.time + Wide * j
  <2>1. Wide * j \in Int /\ t \in Int
    BY <1>6, ClockFacts
  <2>. QED BY <1>6, <1>7, <2>1
<1>. QED BY <1>2, <1>4, <1>7, <1>8, <1>9

-----------------------------------------------------------------------------
(* The steps. *)

(* The invariant holds at the beginning.                                   *)
LEMMA ClockStarts ==
  ASSUME ClockInit
  PROVE  ClockInvariant
<1>1. 0 \in 0 .. Word - 1 /\ 0 \in 0 .. Wide - 1 /\ 0 \in 0 .. MaxDelay /\ 0 \in 0 .. RanCap
  BY ClockFacts DEF RanCap
<1>2. ClockTyped
  BY <1>1 DEF ClockInit, ClockTyped, Clocks
<1>. QED BY <1>2 DEF ClockInit, ClockInvariant, Chosen, Counted, DelayNotShort

(* Initialisation keeps it.                                                *)
LEMMA InitStep ==
  ASSUME ClockInvariant, InitClock
  PROVE  ClockInvariant'
<1>1. PICK f \in Freqs, k \in 0 .. Word - 1 :
        clk' = [Reading([clk EXCEPT !.current = "rdcycle", !.from = f,
                           !.mult = CalcMultShift(f).mult, !.shift = CalcMultShift(f).shift,
                           !.counter = k])
                EXCEPT !.time = 0]
  BY DEF InitClock
<1>2. PICK s \in 1 .. CycleBits :
        /\ CalcMultShift(f) = [mult |-> ScaledMult(f, s), shift |-> s]
        /\ ScaledMult(f, s) < Pow2[Room(f)]
        /\ \A t \in s + 1 .. CycleBits : ScaledMult(f, t) >= Pow2[Room(f)]
  BY LargestShift
<1>3. CalcMultShift(f).mult = ScaledMult(f, s) /\ CalcMultShift(f).shift = s
  BY <1>2
<1>. DEFINE m == ScaledMult(f, s)
            b == [clk EXCEPT !.current = "rdcycle", !.from = f, !.mult = m, !.shift = s, !.counter = k]
<1>4. m \in Nat /\ s \in Nat /\ f \in Nat
  BY ScaledIs, FreqFacts, ClockFacts
<1>5. clk \in Clocks /\ clk.pc = "idle" /\ clk.ret = "none"
  BY DEF ClockInvariant, ClockTyped, Chosen, InitClock
<1>. HIDE DEF m
<1>6. /\ b.current = "rdcycle" /\ b.from = f /\ b.mult = m /\ b.shift = s /\ b.counter = k
      /\ b.pc = "idle" /\ b.ret = "none" /\ b \in Clocks
  BY <1>4, <1>5 DEF Clocks
<1>7. clk' = [Reading(b) EXCEPT !.time = 0]
  BY <1>1, <1>3 DEF m
<1>. HIDE DEF b
<1>8. clk' = [b EXCEPT !.time = 0, !.last = k]
  BY <1>6, <1>7 DEF Reading, Clocks
<1>9. 0 \in 0 .. Wide - 1
  BY ClockFacts
<1>10. /\ clk'.current = "rdcycle" /\ clk'.from = f /\ clk'.mult = m /\ clk'.shift = s
       /\ clk'.counter = k /\ clk'.last = k /\ clk'.pc = "idle" /\ clk'.ret = "none"
       /\ clk' \in Clocks
  BY <1>6, <1>8, <1>9 DEF Clocks
<1>11. Chosen'
  BY <1>2, <1>10 DEF Chosen, m
<1>. QED BY <1>10, <1>11 DEF ClockInvariant, ClockTyped, Counted, DelayNotShort

(* The begin of a delay keeps it.                                          *)
LEMMA DelayStep ==
  ASSUME ClockInvariant, Delay
  PROVE  ClockInvariant'
<1>1. PICK k \in 0 .. Word - 1, ns \in 0 .. MaxDelay, what \in {"delay", "wait"} :
        clk' = [Reading(Runs(clk, k)) EXCEPT !.pc = what, !.start = Reading(Runs(clk, k)).time,
                                            !.offset = ns, !.ran = 0, !.ret = "none"]
  BY DEF Delay
<1>. DEFINE c == Reading(Runs(clk, k))
<1>2. ClockTyped /\ Chosen /\ clk.current = "rdcycle" /\ clk.last = clk.counter /\ k \in Nat
  BY ClockFacts DEF ClockInvariant, Chosen, Delay
<1>3. c \in Clocks /\ c.last = c.counter /\ c.current = clk.current /\ c.from = clk.from
      /\ c.mult = clk.mult /\ c.shift = clk.shift
  BY <1>2, ReadingFacts
<1>. HIDE DEF c
<1>4. clk' = [c EXCEPT !.pc = what, !.start = c.time, !.offset = ns, !.ran = 0, !.ret = "none"]
  BY <1>1 DEF c
<1>5. 0 \in 0 .. RanCap
  BY ClockFacts DEF RanCap
<1>6. /\ clk' \in Clocks /\ clk'.last = clk'.counter /\ clk'.current = clk.current
      /\ clk'.from = clk.from /\ clk'.mult = clk.mult /\ clk'.shift = clk.shift
      /\ clk'.start = clk'.time /\ clk'.ran = 0 /\ clk'.ret = "none"
  BY <1>3, <1>4, <1>5 DEF Clocks
<1>7. Chosen'
  BY <1>2, <1>6 DEF Chosen
<1>8. Passed(clk', 0, 0)
  <2>1. clk'.time \in Int /\ clk'.mult \in Nat /\ Pow2[clk'.shift] \in Nat /\ Wide \in Nat
    BY <1>6, ClockFacts DEF Clocks
  <2>. QED BY <1>6, <2>1 DEF Passed
<1>9. Counted'
  <2>1. 0 \in Nat /\ 0 \in Int
    OBVIOUS
  <2>. QED BY <1>8, <2>1 DEF Counted
<1>. QED BY <1>6, <1>7, <1>9 DEF ClockInvariant, ClockTyped, DelayNotShort

(* is_timeout() is true only when more time has passed than was asked for, *)
(* however the difference of the words wrapped.                            *)
LEMMA TimeoutMeansOver ==
  ASSUME NEW c \in Clocks, NEW d \in Nat, NEW j \in Int, c.start + d = c.time + Wide * j,
         IsTimeout(c)
  PROVE  d > c.offset
<1>. DEFINE x == c.start + c.offset - c.time
<1>1. c.start \in Nat /\ c.time \in Nat /\ c.offset \in Nat /\ c.offset <= MaxDelay
      /\ Wide \in Nat \ {0} /\ MaxDelay < Wide \div 2 /\ MaxDelay \in Nat
  BY ClockFacts, DelaysFit DEF Clocks
<1>2. Wide \div 2 \in Nat /\ 2 * (Wide \div 2) <= Wide
  BY <1>1
<1>. SUFFICES ASSUME d <= c.offset PROVE FALSE
  BY <1>1
<1>3. c.offset - d \in 0 .. Wide - 1 /\ c.offset - d < Wide \div 2
  BY <1>1, <1>2
<1>4. x = Wide * j + (c.offset - d) /\ x \in Int
  <2>1. Wide * j \in Int
    BY <1>1
  <2>. QED BY <1>1, <2>1
<1>5. x % Wide = c.offset - d
  <2>. HIDE DEF x
  <2>. QED BY <1>1, <1>3, <1>4, RemainderIs
<1>6. ~(x % Wide >= Wide \div 2) /\ ~(x % Wide < 0)
  <2>. HIDE DEF x
  <2>. QED BY <1>2, <1>3, <1>5
<1>. QED BY <1>6 DEF IsTimeout, Signed

(* The cycles behind the nanoseconds that passed are as many as they take. *)
LEMMA LongEnough ==
  ASSUME NEW f \in Freqs, NEW s \in Nat, NEW m \in Nat, NEW ran \in Nat, NEW d \in Nat,
         NEW offset \in Nat, offset < d, d * Pow2[s] <= ran * m,
         2 * (m * f) <= 2 * (NsPerSec * Pow2[s]) + f
  PROVE  ran * (2 * NsPerSec * Pow2[s] + f) > offset * 2 * f * Pow2[s]
<1>. DEFINE p == Pow2[s]
            N == NsPerSec * p
<1>1. p \in Nat \ {0} /\ N \in Nat /\ f \in Nat \ {0}
  BY FreqFacts, ClockFacts
<1>2. 2 * NsPerSec * Pow2[s] = 2 * N
  BY <1>1, ClockFacts
<1>. HIDE DEF N
<1>3. ran * (2 * N + f) >= ran * (2 * (m * f))
  <2>1. 2 * (m * f) \in Nat /\ 2 * N + f \in Nat /\ 2 * (m * f) <= 2 * N + f
    BY <1>1 DEF N
  <2>. DEFINE u == 2 * (m * f)
              v == 2 * N + f
  <2>. HIDE DEF u, v
  <2>2. u \in Nat /\ v \in Nat /\ u <= v
    BY <2>1 DEF u, v
  <2>3. ran * v >= ran * u
    BY <2>2
  <2>. QED BY <2>3 DEF u, v
<1>4. ran * (2 * (m * f)) = (2 * f) * (ran * m)
  BY <1>1
<1>5. (2 * f) * (ran * m) >= (2 * f) * (d * p)
  <2>. DEFINE u == ran * m
              v == d * p
              g == 2 * f
  <2>1. u \in Nat /\ v \in Nat /\ g \in Nat /\ v <= u
    BY <1>1
  <2>. HIDE DEF u, v, g
  <2>2. g * u >= g * v
    BY <2>1
  <2>. QED BY <2>2 DEF u, v, g
<1>6. (2 * f) * (d * p) > offset * 2 * f * p
  <2>. DEFINE g == 2 * f * p
  <2>1. g \in Nat \ {0}
    BY <1>1
  <2>2. (2 * f) * (d * p) = d * g /\ offset * 2 * f * p = offset * g
    BY <1>1
  <2>. HIDE DEF g
  <2>3. d * g >= (offset + 1) * g /\ (offset + 1) * g = offset * g + g
    BY <2>1
  <2>4. d * g \in Int /\ offset * g \in Int
    BY <2>1
  <2>5. d * g > offset * g
    BY <2>1, <2>3, <2>4
  <2>. QED BY <2>2, <2>5
<1>7. ran * (2 * N + f) \in Int /\ (2 * f) * (ran * m) \in Int /\ (2 * f) * (d * p) \in Int
      /\ offset * 2 * f * p \in Int
  BY <1>1
<1>8. ran * (2 * N + f) > offset * 2 * f * p
  BY <1>3, <1>4, <1>5, <1>6, <1>7
<1>. QED BY <1>2, <1>8

(* A loop that has run up to the bound has run longer than any delay. *)
LEMMA BoundIsEnough ==
  ASSUME NEW f \in Freqs, NEW s \in Nat, NEW offset \in 0 .. MaxDelay
  PROVE  RanCap * (2 * NsPerSec * Pow2[s] + f) > offset * 2 * f * Pow2[s]
<1>. DEFINE p == Pow2[s]
            g == 2 * f * p
            h == 2 * NsPerSec * p
<1>1. /\ p \in Nat \ {0} /\ f \in Nat \ {0} /\ NsPerSec \in Nat /\ f <= NsPerSec
      /\ RanCap \in Nat /\ offset \in Nat /\ offset < RanCap
  BY FreqFacts, ClockFacts, DelaysFit DEF RanCap
<1>2. g \in Nat \ {0} /\ h \in Nat
  BY <1>1
<1>3. g <= h
  <2>1. f * p <= NsPerSec * p /\ f * p \in Int /\ NsPerSec * p \in Int
    BY <1>1
  <2>2. g = 2 * (f * p) /\ h = 2 * (NsPerSec * p)
    BY <1>1
  <2>. QED BY <2>1, <2>2
<1>4. offset * 2 * f * p = offset * g
  BY <1>1
<1>. HIDE DEF g, h, p
<1>5. offset * g < RanCap * g
  BY <1>1, <1>2
<1>6. RanCap * g <= RanCap * (h + f)
  BY <1>1, <1>2, <1>3
<1>7. offset * g \in Int /\ RanCap * g \in Int /\ RanCap * (h + f) \in Int
  BY <1>1, <1>2
<1>8. RanCap * (h + f) > offset * g
  BY <1>5, <1>6, <1>7
<1>. QED BY <1>4, <1>8 DEF h, p

(* Each look at the counter keeps it.                                      *)
LEMMA PollStep ==
  ASSUME ClockInvariant, Poll
  PROVE  ClockInvariant'
<1>1. PICK k \in 1 .. MaxStep :
        clk' = IF IsTimeout(Reading(Runs(clk, k))) THEN Returns(Reading(Runs(clk, k)), "timeout")
               ELSE Reading(Runs(clk, k))
  BY DEF Poll
<1>. DEFINE c == Reading(Runs(clk, k))
<1>2. /\ ClockTyped /\ Chosen /\ Counted /\ clk.current = "rdcycle" /\ clk.pc # "idle"
      /\ clk.last = clk.counter /\ k \in Nat /\ clk.from \in Freqs /\ clk.shift \in Nat
      /\ clk.mult = ScaledMult(clk.from, clk.shift) /\ clk.mult \in Nat /\ clk.ran \in Nat
  BY ClockFacts, ClockSteps DEF ClockInvariant, Chosen, Poll, ClockTyped, Clocks, RanCap
<1>3. /\ c \in Clocks /\ c.last = c.counter /\ c.current = clk.current /\ c.from = clk.from
      /\ c.mult = clk.mult /\ c.shift = clk.shift /\ c.pc = clk.pc /\ c.start = clk.start
      /\ c.offset = clk.offset /\ c.ret = clk.ret
      /\ c.ran = IF clk.ran + k < RanCap THEN clk.ran + k ELSE RanCap
      /\ \E e \in Nat, j \in Int : clk.time + e = c.time + Wide * j
                                   /\ e * Pow2[clk.shift] <= k * clk.mult
  BY <1>2, ReadingFacts
<1>. HIDE DEF c
<1>4. clk' = IF IsTimeout(c) THEN [c EXCEPT !.pc = "idle", !.ret = "timeout"] ELSE c
  BY <1>1 DEF c, Returns
<1>5. ASSUME c.ran < RanCap
      PROVE  \E d \in Nat, j \in Int : Passed(c, d, j)
  <2>1. clk.ran < RanCap /\ c.ran = clk.ran + k
    BY <1>2, <1>3, <1>5, ClockFacts DEF RanCap
  <2>2. PICK d \in Nat, j \in Int : Passed(clk, d, j)
    BY <1>2, <2>1 DEF Counted
  <2>3. PICK e \in Nat, i \in Int : /\ clk.time + e = c.time + Wide * i
                                   /\ e * Pow2[clk.shift] <= k * clk.mult
    BY <1>3
  <2>4. clk.start \in Int /\ clk.time \in Int /\ c.time \in Int /\ Wide \in Int
        /\ Pow2[clk.shift] \in Nat
    BY <1>2, <1>3, ClockFacts DEF ClockTyped, Clocks
  <2>5. c.start + (d + e) = c.time + Wide * (j + i)
    <3>1. Wide * (j + i) = Wide * j + Wide * i /\ Wide * j \in Int /\ Wide * i \in Int
      BY <2>4
    <3>2. /\ clk.start + d = clk.time + Wide * j /\ clk.time + e = c.time + Wide * i
          /\ c.start = clk.start
      BY <1>3, <2>2, <2>3 DEF Passed
    <3>. DEFINE u == Wide * j
                v == Wide * i
    <3>. HIDE DEF u, v
    <3>3. c.start + (d + e) = c.time + (u + v)
      <4>1. u \in Int /\ v \in Int /\ clk.start + d = clk.time + u /\ clk.time + e = c.time + v
        BY <3>1, <3>2 DEF u, v
      <4>. QED BY <2>4, <3>2, <4>1
    <3>. QED BY <3>1, <3>3 DEF u, v
  <2>6. (d + e) * Pow2[c.shift] <= c.ran * c.mult
    <3>. DEFINE p == Pow2[clk.shift]
                m == clk.mult
    <3>1. (d + e) * p = d * p + e * p /\ (clk.ran + k) * m = clk.ran * m + k * m
          /\ d * p \in Int /\ e * p \in Int /\ clk.ran * m \in Int /\ k * m \in Int
      BY <1>2, <2>4
    <3>2. d * p <= clk.ran * m /\ e * p <= k * m
      BY <2>2, <2>3 DEF Passed
    <3>. HIDE DEF p, m
    <3>3. (d + e) * p <= (clk.ran + k) * m
      BY <3>1, <3>2
    <3>. QED BY <1>3, <2>1, <3>3 DEF p, m
  <2>7. d + e \in Nat /\ j + i \in Int
    OBVIOUS
  <2>. QED BY <2>5, <2>6, <2>7 DEF Passed
<1>6. CASE ~IsTimeout(c)
  <2>1. clk' = c
    BY <1>4, <1>6
  <2>2. ClockTyped' /\ Chosen' /\ Counted'
    BY <1>2, <1>3, <1>5, <2>1 DEF ClockTyped, Chosen, Counted
  <2>3. DelayNotShort'
    BY <1>2, <1>3, <2>1 DEF ClockInvariant, DelayNotShort, Chosen
  <2>. QED BY <2>2, <2>3 DEF ClockInvariant
<1>7. CASE IsTimeout(c)
  <2>1. clk' = [c EXCEPT !.pc = "idle", !.ret = "timeout"]
    BY <1>4, <1>7
  <2>2. /\ clk' \in Clocks /\ clk'.last = clk'.counter /\ clk'.current = clk.current
        /\ clk'.from = clk.from /\ clk'.mult = clk.mult /\ clk'.shift = clk.shift
        /\ clk'.pc = "idle" /\ clk'.ret = "timeout" /\ clk'.ran = c.ran /\ clk'.offset = c.offset
    BY <1>3, <2>1 DEF Clocks
  <2>3. ClockTyped' /\ Chosen' /\ Counted'
    BY <1>2, <2>2 DEF ClockTyped, Chosen, Counted
  <2>4. c.offset \in 0 .. MaxDelay /\ c.offset \in Nat /\ c.ran \in 0 .. RanCap /\ c.ran \in Nat
    BY <1>3, ClockFacts DEF Clocks, RanCap
  <2>5. CASE c.ran < RanCap
    <3>1. PICK d \in Nat, j \in Int : Passed(c, d, j)
      BY <1>5, <2>5
    <3>2. c.offset < d /\ d * Pow2[clk.shift] <= c.ran * clk.mult
      BY <1>3, <1>7, <2>4, <3>1, TimeoutMeansOver DEF Passed
    <3>3. 2 * (clk.mult * clk.from) <= 2 * (NsPerSec * Pow2[clk.shift]) + clk.from
      BY <1>2, ScaledIs
    <3>4. c.ran * (2 * NsPerSec * Pow2[clk.shift] + clk.from) > c.offset * 2 * clk.from * Pow2[clk.shift]
      BY <1>2, <2>4, <3>2, <3>3, LongEnough
    <3>. QED BY <2>2, <2>3, <3>4 DEF ClockInvariant, DelayNotShort
  <2>6. CASE ~(c.ran < RanCap)
    <3>1. c.ran = RanCap
      BY <2>4, <2>6, ClockFacts DEF RanCap
    <3>2. RanCap * (2 * NsPerSec * Pow2[clk.shift] + clk.from) > c.offset * 2 * clk.from * Pow2[clk.shift]
      BY <1>2, <2>4, BoundIsEnough
    <3>. QED BY <2>2, <2>3, <3>1, <3>2 DEF ClockInvariant, DelayNotShort
  <2>. QED BY <2>5, <2>6
<1>. QED BY <1>6, <1>7

(* A condition that comes true keeps it.                                   *)
LEMMA ConditionStep ==
  ASSUME ClockInvariant, ConditionTrue
  PROVE  ClockInvariant'
<1>1. clk \in Clocks /\ clk.pc = "wait" /\ clk' = [clk EXCEPT !.pc = "idle", !.ret = "true"]
  BY DEF ClockInvariant, ClockTyped, ConditionTrue, Returns
<1>2. /\ clk' \in Clocks /\ clk'.last = clk.last /\ clk'.counter = clk.counter
      /\ clk'.current = clk.current /\ clk'.from = clk.from /\ clk'.mult = clk.mult
      /\ clk'.shift = clk.shift /\ clk'.pc = "idle" /\ clk'.ret = "true"
  BY <1>1 DEF Clocks
<1>. QED BY <1>1, <1>2 DEF ClockInvariant, ClockTyped, Chosen, Counted, DelayNotShort

(* The parameters of the clock fit its counter, and a running delay knows  *)
(* when it began.                                                          *)
THEOREM ClockKeepsInvariant == ClockSpec => []ClockInvariant
<1>1. ClockInit => ClockInvariant
  BY ClockStarts
<1>2. ASSUME ClockInvariant, [ClockNext]_clk
      PROVE  ClockInvariant'
  <2>1. CASE UNCHANGED clk
    BY <1>2, <2>1 DEF ClockInvariant, ClockTyped, Chosen, Counted, DelayNotShort
  <2>. QED BY <1>2, <2>1, InitStep, DelayStep, PollStep, ConditionStep DEF ClockNext
<1>. QED BY <1>1, <1>2, PTL DEF ClockSpec

(* A quotient of the product is as exact as the factor.                    *)
LEMMA ExactQuotient ==
  ASSUME NEW f \in Nat \ {0}, NEW p \in Nat \ {0}, NEW N \in Nat, NEW m \in Nat,
         NEW n \in Nat, NEW ns \in Nat,
         2 * (m * f) <= 2 * N + f, 2 * N <= 2 * (m * f) + f,
         ns * p <= n * m, n * m < ns * p + p
  PROVE  /\ ns * (2 * f * p) <= n * (2 * N + f)
         /\ n * (2 * N - f) < (ns + 1) * (2 * f * p)
<1>. DEFINE a == n * m
            b == ns * p
            g == 2 * f
<1>1. a \in Nat /\ b \in Nat /\ g \in Nat \ {0} /\ b <= a /\ a < b + p
  OBVIOUS
<1>2. /\ ns * (2 * f * p) = b * g
      /\ (ns + 1) * (2 * f * p) = (b + p) * g
      /\ n * (2 * (m * f)) = a * g
  OBVIOUS
<1>3. n * (2 * (m * f)) <= n * (2 * N + f) /\ n * (2 * N - f) <= n * (2 * (m * f))
  <2>. DEFINE u == 2 * (m * f)
              v == 2 * N + f
              w == 2 * N - f
  <2>1. u \in Int /\ v \in Int /\ w \in Int /\ u <= v /\ w <= u
    OBVIOUS
  <2>. HIDE DEF u, v, w
  <2>2. n * u <= n * v /\ n * w <= n * u
    BY <2>1
  <2>. QED BY <2>2 DEF u, v, w
<1>4. n * (2 * N + f) \in Int /\ n * (2 * N - f) \in Int
  OBVIOUS
<1>. HIDE DEF a, b, g
<1>5. b * g <= a * g /\ a * g < (b + p) * g /\ a * g \in Int
  BY <1>1
<1>. QED BY <1>2, <1>3, <1>4, <1>5

(* Any count of cycles is converted exactly up to whole words, the part of *)
(* a nanosecond and half a unit of mult.                                   *)
THEOREM ClockConverts == ClockSpec => []ConversionExact
<1>1. ASSUME ClockInvariant, clk.current = "rdcycle", NEW n \in 0 .. Word - 1
      PROVE  \E lost \in 0 .. Word - 1 :
               LET scale == 2 * NsPerSec * Pow2[clk.shift]
                   unit == 2 * clk.from * Pow2[clk.shift]
                   ns == Cyc2Ns(clk, n) + lost * Word
               IN  /\ ns * unit <= n * (scale + clk.from)
                   /\ n * (scale - clk.from) < (ns + 1) * unit
  <2>. DEFINE f == clk.from
              m == clk.mult
              p == Pow2[clk.shift]
              a == n * m
              v == a \div p
              lost == v \div Word
  <2>1. /\ f \in Freqs /\ clk.shift \in Nat /\ m < Pow2[Room(f)]
        /\ m = ScaledMult(f, clk.shift) /\ m \in Nat
    BY <1>1, ClockFacts DEF ClockInvariant, Chosen, ClockTyped, Clocks
  <2>2. /\ f \in Nat \ {0} /\ p \in Nat \ {0} /\ n \in Nat /\ n < Word
        /\ Word \in Nat \ {0} /\ NsPerSec \in Nat /\ Wide = Word * Word
    BY <2>1, FreqFacts, ClockFacts
  <2>3. m < Word
    BY <2>1, <2>2, RoomFits
  <2>4. /\ 2 * (m * f) <= 2 * (NsPerSec * p) + f
        /\ 2 * (NsPerSec * p) <= 2 * (m * f) + f
    BY <2>1, ScaledIs
  <2>5. Cyc2Ns(clk, n) = ((a % Wide) \div p) % Word
    BY DEF Cyc2Ns
  <2>. HIDE DEF f, m, p
  <2>6. a \in Nat /\ a < Word * Word
    <3>1. n * m <= n * Word /\ n * Word < Word * Word /\ n * m \in Nat /\ n * Word \in Nat
      BY <2>1, <2>2, <2>3
    <3>. QED BY <3>1, <2>2
  <2>. HIDE DEF a
  <2>7. a % Wide = a
    BY <2>2, <2>6
  <2>8. v \in Nat /\ v * p <= a /\ a < v * p + p
    BY <2>2, <2>6, Divided
  <2>. HIDE DEF v
  <2>9. v < Word * Word
    <3>1. v <= v * p /\ v * p \in Nat /\ Word * Word \in Nat
      BY <2>2, <2>8
    <3>. QED BY <3>1, <2>6, <2>8
  <2>10. lost \in Nat /\ lost * Word <= v /\ v = (v % Word) + lost * Word
    BY <2>2, <2>8
  <2>. HIDE DEF lost
  <2>11. lost < Word
    <3>1. SUFFICES ASSUME lost >= Word PROVE FALSE
      BY <2>2, <2>10
    <3>2. lost * Word >= Word * Word
      BY <2>2, <2>10, <3>1
    <3>. QED BY <2>2, <2>8, <2>9, <2>10, <3>2
  <2>12. lost \in 0 .. Word - 1 /\ Cyc2Ns(clk, n) + lost * Word = v
    BY <2>2, <2>5, <2>7, <2>10, <2>11 DEF v
  <2>13. /\ v * (2 * f * p) <= n * (2 * (NsPerSec * p) + f)
         /\ n * (2 * (NsPerSec * p) - f) < (v + 1) * (2 * f * p)
    <3>1. NsPerSec * p \in Nat /\ v * p <= n * m /\ n * m < v * p + p
      BY <2>2, <2>8 DEF a
    <3>. QED BY <2>1, <2>2, <2>4, <2>8, <3>1, ExactQuotient
  <2>14. 2 * NsPerSec * p = 2 * (NsPerSec * p)
    BY <2>2
  <2>. QED BY <2>12, <2>13, <2>14 DEF f, p
<1>2. ClockInvariant => ConversionExact
  BY <1>1 DEF ConversionExact
<1>. QED BY <1>2, ClockKeepsInvariant, PTL

(* No delay and no timeout is over before its time, across every wrap. *)
THEOREM DelaysLastLongEnough == ClockSpec => []DelayNotShort
<1>1. ClockInvariant => DelayNotShort
  BY DEF ClockInvariant
<1>. QED BY <1>1, ClockKeepsInvariant, PTL

-----------------------------------------------------------------------------
(* The memory test. *)

(* The last value of a word is one less than a power of two. *)
Full == Pow2[RamBits]

(* Inverting a word inverts each of its bits. *)
LEMMA InvertedBit ==
  ASSUME NEW B \in Nat, NEW b \in Nat, b < B, NEW x \in 0 .. Pow2[B] - 1
  PROVE  BitOf(Pow2[B] - 1 - x, b) = 1 - BitOf(x, b)
<1>. DEFINE p == Pow2[b]
            M == Pow2[B - b - 1]
            h == x \div Pow2[b + 1]
            t == BitOf(x, b)
            lo == x % p
            y == Pow2[B] - 1 - x
<1>1. p \in Nat \ {0} /\ M \in Nat \ {0} /\ Pow2[B] \in Nat /\ Pow2[b + 1] = 2 * p
  <2>1. B - b - 1 \in Nat
    OBVIOUS
  <2>. QED BY <2>1, Pow2Facts
<1>2. Pow2[B] = M * (2 * p)
  <2>1. B - b - 1 \in Nat /\ b + 1 \in Nat /\ B = (B - b - 1) + (b + 1)
    OBVIOUS
  <2>2. Pow2[(B - b - 1) + (b + 1)] = Pow2[B - b - 1] * Pow2[b + 1]
    BY <2>1, Pow2Product
  <2>. QED BY <2>1, <2>2, <1>1
<1>3. x \in Nat /\ x < Pow2[B]
  BY <1>1
<1>4. t \in {0, 1} /\ x \div p = 2 * h + t
  BY <1>3, BitsAbove
<1>5. h \in Nat
  <2>1. b + 1 \in Nat
    OBVIOUS
  <2>. QED BY <2>1, <1>3, BitsAbove
<1>6. lo \in 0 .. p - 1 /\ x = p * (x \div p) + lo
  BY <1>1, <1>3, Quotient
<1>. HIDE DEF p, M, h, t, lo
<1>7. x = p * (2 * h + t) + lo
  BY <1>4, <1>6
<1>8. h < M
  <2>1. SUFFICES ASSUME h >= M PROVE FALSE
    BY <1>1, <1>5
  <2>2. p * (2 * h) >= p * (2 * M)
    BY <2>1, <1>1, <1>5
  <2>3. p * (2 * h + t) = p * (2 * h) + p * t /\ p * t >= 0
    BY <1>1, <1>4, <1>5
  <2>4. p * (2 * M) = M * (2 * p)
    BY <1>1
  <2>5. p * (2 * h) >= Pow2[B]
    BY <2>2, <2>4, <1>2
  <2>6. x = p * (2 * h) + p * t + lo
    BY <2>3, <1>7
  <2>7. p * (2 * h) \in Int /\ p * t \in Int /\ lo >= 0
    BY <1>1, <1>4, <1>5, <1>6
  <2>. DEFINE u == p * (2 * h)
              w == p * t
  <2>8. u \in Int /\ w \in Int /\ w >= 0 /\ u >= Pow2[B] /\ x = u + w + lo
    BY <2>3, <2>5, <2>6, <2>7
  <2>. HIDE DEF u, w
  <2>. QED BY <2>8, <2>7, <1>1, <1>3, <1>6
<1>9. y = p * (2 * (M - 1 - h) + (1 - t)) + (p - 1 - lo)
  <2>1. p * (2 * (M - 1 - h) + (1 - t)) = (M * (2 * p) - p * (2 * h + t)) - p
    BY <1>1, <1>4, <1>5
  <2>. QED BY <2>1, <1>1, <1>2, <1>4, <1>5, <1>6, <1>7
<1>10. 2 * (M - 1 - h) + (1 - t) \in Nat /\ p - 1 - lo \in 0 .. p - 1 /\ y \in Nat
  BY <1>1, <1>3, <1>4, <1>5, <1>6, <1>8
<1>11. y \div p = 2 * (M - 1 - h) + (1 - t)
  <2>. HIDE DEF y
  <2>. QED BY <1>1, <1>9, <1>10, QuotientIs
<1>12. (2 * (M - 1 - h) + (1 - t)) % 2 = 1 - t
  <2>1. M - 1 - h \in Nat /\ 1 - t \in 0 .. 1
    BY <1>1, <1>4, <1>5, <1>8
  <2>. QED BY <2>1
<1>. QED BY <1>11, <1>12 DEF BitOf, p, t

(* A word that setting a bit does not change had that bit. *)
LEMMA UnchangedBit ==
  ASSUME NEW x \in Nat, NEW b \in Nat, NEW v \in {0, 1}, WithBit(x, b, v) = x
  PROVE  BitOf(x, b) = v
<1>1. Pow2[b] \in Nat \ {0} /\ BitOf(x, b) \in {0, 1}
  BY Pow2Facts, BitsAbove
<1>2. (v - BitOf(x, b)) * Pow2[b] = 0
  BY <1>1 DEF WithBit
<1>3. v - BitOf(x, b) = 0
  <2>. DEFINE d == v - BitOf(x, b)
              q == Pow2[b]
  <2>1. d \in -1 .. 1
    BY <1>1
  <2>3. q \in Nat \ {0} /\ d * q = 0
    BY <1>1, <1>2
  <2>. HIDE DEF d, q
  <2>2. d = 0
    BY <2>1, <2>3
  <2>. QED BY <2>2 DEF d
<1>. QED BY <1>1, <1>3

-----------------------------------------------------------------------------
(* The inductive invariant. *)

Passes == {"fill", "invert", "zero"}
Testing == mt.pc # "idle" \/ mt.ret = "0"

(* How often a word of the region has been written, and the value the k-th *)
(* writing gives it.                                                       *)
Writes(m, x) ==
  LET before == IF m.pc = "fill" THEN 0 ELSE IF m.pc = "invert" THEN 1 ELSE 2 IN
  IF m.pc \notin Passes THEN 3
  ELSE IF x < m.start + m.offset THEN before + 1 ELSE before
ValueOf(m, x, k) ==
  LET number == x - m.start + 1 IN
  IF k = 1 THEN number ELSE IF k = 2 THEN Inverted(number) ELSE 0

RamTyped ==
  /\ ram = [mem |-> ram.mem, fault |-> ram.fault]
  /\ ram.mem \in [Cells -> Int]
  /\ ram.fault \in [kind : {"none", "stuck", "alias", "couple"}, a : Cells, w : Cells,
                    b : 0 .. RamBits - 1, v : {0, 1}]
  /\ ram.fault.kind \in {"alias", "couple"} => ram.fault.a # ram.fault.w

TestTyped ==
  mt \in [pc : Passes \cup {"idle", "end"}, start : Nat, words : Nat, offset : Nat,
         printed : Nat, ret : {"none", "EINVAL", "EIO", "0"}, at : Nat, expected : Int,
         actual : Int]

(* The region lies in the RAM, and the pass in the region. *)
InRegion ==
  /\ mt.pc # "idle" => mt.ret = "none"
  /\ Testing \/ mt.ret = "EIO" => mt.words > 0 /\ mt.start + mt.words <= RamWords
  /\ mt.pc \in Passes => mt.offset < mt.words
  /\ mt.pc = "end" => mt.offset = 0
  /\ mt.pc = "idle" /\ mt.ret = "none" => mt.words = 0 /\ mt.printed = 0 /\ mt.offset = 0

BarFits == /\ mt.printed <= Hashes
           /\ mt.ret = "0" => mt.printed = Hashes

(* A word whose content the fault does not touch holds what was written.   *)
Plain(x) == x \in Region /\ ~(Harmful /\ x = ram.fault.w)
                         /\ ~(Harmful /\ ram.fault.kind = "alias" /\ x = ram.fault.a)
PlainHold ==
  Testing => \A x \in Region : Plain(x) /\ Writes(mt, x) > 0 =>
               ram.mem[Cell(x)] = ValueOf(mt, x, Writes(mt, x))

(* A stuck bit agrees with the pattern where the second pass went, and     *)
(* then not with the inverted one: the third pass does not get by.         *)
BitSeen(x) == BitOf(ValueOf(mt, x, 1), ram.fault.b) = ram.fault.v
StuckHold ==
  Testing /\ Harmful /\ ram.fault.kind = "stuck" =>
    LET w == ram.fault.w IN
    /\ Writes(mt, w) < 3
    /\ Writes(mt, w) > 0 => ram.mem[w] = ValueOf(mt, w, Writes(mt, w))
    /\ Writes(mt, w) = 2 => BitSeen(w)

(* Two addresses of one cell: the second one written stays, and the second *)
(* pass does not get by the first.                                         *)
AliasHold ==
  Testing /\ Harmful /\ ram.fault.kind = "alias" =>
    \A x, y \in {ram.fault.a, ram.fault.w} : x < y =>
      /\ Writes(mt, x) < 2
      /\ Writes(mt, y) = 1 => ram.mem[ram.fault.w] = ValueOf(mt, y, 1)

(* A word whose bit is forced when another is written: whether that has    *)
(* happened since it was written itself depends on which comes first.      *)
Disturbed ==
  LET a == ram.fault.a  w == ram.fault.w IN
  IF a < w THEN Writes(mt, a) > Writes(mt, w) ELSE Writes(mt, a) = Writes(mt, w)
CoupleHold ==
  Testing /\ Harmful /\ ram.fault.kind = "couple" =>
    LET w == ram.fault.w
        value == ValueOf(mt, w, Writes(mt, w))
    IN
    /\ Writes(mt, w) < 3
    /\ Writes(mt, w) > 0 =>
         ram.mem[w] = IF Disturbed THEN WithBit(value, ram.fault.b, ram.fault.v) ELSE value
    /\ Writes(mt, w) = 2 => BitSeen(w)

Reported == mt.ret = "EIO" =>
  ram.fault.kind # "none" /\ mt.at \in Region /\ mt.actual # mt.expected

Untouched == ram.fault.kind \in {"none", "stuck"} =>
  \A x, y \in Cells \ Region : ram.mem[x] = ram.mem[y]

MemInvariant ==
  /\ RamTyped /\ TestTyped /\ InRegion /\ BarFits /\ Reported /\ Untouched
  /\ PlainHold /\ StuckHold /\ AliasHold /\ CoupleHold

-----------------------------------------------------------------------------
(* A step of a pass: what the three of them have in common.                *)

After(pc) == IF pc = "fill" THEN "invert" ELSE IF pc = "invert" THEN "zero" ELSE "end"

GoesOn ==
  /\ mt.pc \in Passes
  /\ mt'.start = mt.start /\ mt'.words = mt.words /\ mt'.ret = mt.ret
  /\ \/ mt.offset + 1 < mt.words /\ mt'.pc = mt.pc /\ mt'.offset = mt.offset + 1
     \/ mt.offset + 1 = mt.words /\ mt'.pc = After(mt.pc) /\ mt'.offset = 0

Visits ==
  LET k == Writes(mt, Address) IN
  /\ GoesOn
  /\ k > 0 => Read(Address) = ValueOf(mt, Address, k)
  /\ ram' = [ram EXCEPT !.mem = Written(Address, ValueOf(mt, Address, k + 1))]

(* The constants are numbers, and addresses fit into a word.               *)
LEMMA MemFacts ==
  /\ RamWords \in Nat \ {0} /\ RamBits \in Nat \ {0} /\ WordBytes \in Nat \ {0}
  /\ Hashes \in Nat /\ Page \in Nat \ {0}
  /\ Full \in Nat /\ RamWords < Full
BY RamAssumption, RamFits, Pow2Facts DEF Full

(* The numbers of the words of the region fit in a word. *)
LEMMA ValuesFit ==
  ASSUME MemInvariant, Testing, NEW x \in Region
  PROVE  /\ x \in Cells
         /\ ValueOf(mt, x, 1) \in 1 .. Full - 1
         /\ ValueOf(mt, x, 2) = (Full - 1) - ValueOf(mt, x, 1)
         /\ ValueOf(mt, x, 2) \in 0 .. Full - 1
         /\ ValueOf(mt, x, 3) = 0
<1>1. mt.start \in Nat /\ mt.words \in Nat /\ mt.start + mt.words <= RamWords
  BY DEF MemInvariant, TestTyped, InRegion
<1>2. x \in Int /\ x >= mt.start /\ x <= mt.start + mt.words - 1
  BY <1>1 DEF Region
<1>. QED BY <1>1, <1>2, MemFacts DEF ValueOf, Cells, Inverted, Full

(* One pass writes each word of the region once. *)
LEMMA WritesAfter ==
  ASSUME MemInvariant, GoesOn, NEW x \in Region
  PROVE  /\ Writes(mt, x) \in 0 .. 3 /\ x \in Region'
         /\ Writes(mt', x) = IF x = Address THEN Writes(mt, x) + 1 ELSE Writes(mt, x)
         /\ \A k : ValueOf(mt', x, k) = ValueOf(mt, x, k)
<1>1. mt.start \in Nat /\ mt.words \in Nat /\ mt.offset \in Nat
  BY DEF MemInvariant, TestTyped
<1>2. x \in Int /\ x >= mt.start /\ x <= mt.start + mt.words - 1
  BY <1>1 DEF Region
<1>3. mt.pc \in Passes /\ mt.offset < mt.words
  BY DEF GoesOn, MemInvariant, InRegion
<1>4. x \in Region' /\ \A k : ValueOf(mt', x, k) = ValueOf(mt, x, k)
  BY DEF GoesOn, Region, ValueOf
<1>5. Writes(mt, x) \in 0 .. 3
  BY <1>3 DEF Writes, Passes
<1>. QED BY <1>1, <1>2, <1>3, <1>4, <1>5 DEF GoesOn, Writes, Passes, Address, After

(* A pass reads and writes within the region under test.                   *)
LEMMA AddressIn ==
  ASSUME MemInvariant, mt.pc \in Passes
  PROVE  /\ Testing /\ Address \in Region /\ Address \in Cells /\ Cell(Address) \in Cells
         /\ Writes(mt, Address) = IF mt.pc = "fill" THEN 0 ELSE IF mt.pc = "invert" THEN 1 ELSE 2
<1>1. mt.start \in Nat /\ mt.words \in Nat /\ mt.offset \in Nat /\ mt.offset < mt.words
  BY DEF MemInvariant, TestTyped, InRegion
<1>2. Testing
  BY DEF Testing, Passes
<1>3. Address \in Region
  BY <1>1 DEF Address, Region
<1>4. Address \in Cells
  BY <1>2, <1>3, ValuesFit
<1>5. Cell(Address) \in Cells
  BY <1>4 DEF MemInvariant, RamTyped, Cell
<1>6. ~(Address < mt.start + mt.offset)
  BY <1>1 DEF Address
<1>. QED BY <1>2, <1>3, <1>4, <1>5, <1>6 DEF Writes

(* A word that holds its value in a plain cell reads as it. *)
LEMMA PlainRead ==
  ASSUME MemInvariant, NEW x \in Region, Plain(x)
  PROVE  Read(x) = ram.mem[Cell(x)]
BY DEF Plain, Harmful, Read, Cell, MemInvariant, RamTyped

(* What writing a word does to the cells of the RAM. *)
LEMMA WriteFacts ==
  ASSUME MemInvariant, mt.pc \in Passes, NEW value \in Nat,
         ram' = [ram EXCEPT !.mem = Written(Address, value)]
  PROVE  /\ RamTyped' /\ ram'.fault = ram.fault
         /\ \A y \in Cells : y # Cell(Address) /\ (ram.fault.kind = "couple" => y # ram.fault.w)
              => ram'.mem[y] = ram.mem[y]
         /\ ~(ram.fault.kind = "couple" /\ Cell(Address) = ram.fault.w)
              => ram'.mem[Cell(Address)] = value
         /\ ram.fault.kind = "couple" =>
              ram'.mem[ram.fault.w] =
                IF Address = ram.fault.a THEN WithBit(ram.mem[ram.fault.w], ram.fault.b, ram.fault.v)
                ELSE IF Address = ram.fault.w THEN value ELSE ram.mem[ram.fault.w]
<1>. DEFINE f == ram.fault
            m == [ram.mem EXCEPT ![Cell(Address)] = value]
<1>1. ram = [mem |-> ram.mem, fault |-> f] /\ ram.mem \in [Cells -> Int]
      /\ f.a \in Cells /\ f.w \in Cells /\ f.b \in Nat /\ f.v \in {0, 1}
      /\ (f.kind = "couple" => f.a # f.w) /\ (f.kind = "couple" => Cell(Address) = Address)
  BY MemFacts DEF MemInvariant, RamTyped, Cell
<1>2. Address \in Cells /\ Cell(Address) \in Cells
  BY AddressIn
<1>3. m \in [Cells -> Int]
  BY <1>1, <1>2
<1>4. ram' = [mem |-> Written(Address, value), fault |-> f]
  BY <1>1
<1>5. Pow2[f.b] \in Nat
  BY <1>1, Pow2Facts
<1>6. CASE f.kind = "couple" /\ Address = f.a
  <2>1. Written(Address, value) = [m EXCEPT ![f.w] = WithBit(m[f.w], f.b, f.v)]
    BY <1>6 DEF Written
  <2>2. m[f.w] = ram.mem[f.w]
    BY <1>1, <1>2, <1>6
  <2>3. BitOf(m[f.w], f.b) \in Int
    <3>1. m[f.w] \in Int /\ Pow2[f.b] \in Nat \ {0}
      BY <1>1, <1>3, Pow2Facts
    <3>. QED BY <3>1 DEF BitOf
  <2>4. WithBit(m[f.w], f.b, f.v) \in Int
    BY <2>3, <1>1, <1>3, <1>5 DEF WithBit
  <2>. HIDE DEF m
  <2>5. Written(Address, value) \in [Cells -> Int]
    BY <2>1, <2>4, <1>3
  <2>6. /\ ram'.fault = f /\ ram'.mem[f.w] = WithBit(ram.mem[f.w], f.b, f.v)
        /\ \A y \in Cells : y # f.w => ram'.mem[y] = m[y]
    BY <1>1, <1>3, <1>4, <2>1, <2>2
  <2>7. RamTyped'
    BY <1>1, <1>4, <2>5 DEF MemInvariant, RamTyped
  <2>8. Address # f.w
    BY <1>1, <1>6
  <2>. QED BY <1>1, <1>2, <1>6, <2>6, <2>7, <2>8 DEF m
<1>7. CASE ~(f.kind = "couple" /\ Address = f.a)
  <2>1. Written(Address, value) = m
    BY <1>7 DEF Written
  <2>2. RamTyped'
    BY <1>1, <1>3, <1>4, <2>1 DEF MemInvariant, RamTyped
  <2>. QED BY <1>1, <1>2, <1>4, <1>7, <2>1, <2>2
<1>. QED BY <1>6, <1>7

(* What a visit changes, and what it leaves alone. *)
LEMMA VisitFacts ==
  ASSUME MemInvariant, Visits
  PROVE  /\ mt.pc \in Passes /\ Testing /\ Address \in Region /\ Writes(mt, Address) \in 0 .. 2
         /\ RamTyped' /\ ram'.fault = ram.fault
         /\ \A y \in Cells : y # Cell(Address) /\ (ram.fault.kind = "couple" => y # ram.fault.w)
              => ram'.mem[y] = ram.mem[y]
         /\ ~(ram.fault.kind = "couple" /\ Cell(Address) = ram.fault.w)
              => ram'.mem[Cell(Address)] = ValueOf(mt, Address, Writes(mt, Address) + 1)
         /\ ram.fault.kind = "couple" =>
              ram'.mem[ram.fault.w] =
                IF Address = ram.fault.a THEN WithBit(ram.mem[ram.fault.w], ram.fault.b, ram.fault.v)
                ELSE IF Address = ram.fault.w THEN ValueOf(mt, Address, Writes(mt, Address) + 1)
                ELSE ram.mem[ram.fault.w]
         /\ Region' = Region /\ (Harmful' <=> Harmful)
         /\ \A x : (Plain(x)' <=> Plain(x)) /\ Cell(x)' = Cell(x)
<1>1. mt.pc \in Passes /\ Testing /\ Address \in Region /\ Writes(mt, Address) \in 0 .. 2
  BY AddressIn DEF Visits, GoesOn
<1>2. ValueOf(mt, Address, Writes(mt, Address) + 1) \in Nat
  BY <1>1, ValuesFit, MemFacts
<1>3. ram' = [ram EXCEPT !.mem = Written(Address, ValueOf(mt, Address, Writes(mt, Address) + 1))]
  BY DEF Visits
<1>4. ram'.fault = ram.fault
  BY <1>1, <1>2, <1>3, WriteFacts
<1>5. Region' = Region /\ (Harmful' <=> Harmful) /\ \A x : (Plain(x)' <=> Plain(x)) /\ Cell(x)' = Cell(x)
  BY <1>4 DEF Visits, GoesOn, Region, Harmful, Plain, Cell
<1>. QED BY <1>1, <1>2, <1>3, <1>5, WriteFacts

(* Sound words keep holding what was written last. *)
LEMMA VisitKeepsPlain ==
  ASSUME MemInvariant, Visits
  PROVE  PlainHold'
<1>1. ASSUME NEW x \in Region, Plain(x), Writes(mt', x) > 0
      PROVE  ram'.mem[Cell(x)] = ValueOf(mt', x, Writes(mt', x))
  <2>1. /\ Writes(mt', x) = IF x = Address THEN Writes(mt, Address) + 1 ELSE Writes(mt, x)
        /\ \A j : ValueOf(mt', x, j) = ValueOf(mt, x, j)
    BY WritesAfter DEF Visits
  <2>2. Cell(x) \in Cells /\ Cell(Address) \in Cells
    BY VisitFacts, ValuesFit, AddressIn DEF Cell, MemInvariant, RamTyped
  <2>3. Writes(mt, x) > 0 => ram.mem[Cell(x)] = ValueOf(mt, x, Writes(mt, x))
    BY VisitFacts, <1>1 DEF PlainHold, MemInvariant
  <2>4. CASE ram.fault.kind = "couple" /\ x = ram.fault.w
    <3>1. Address # ram.fault.a /\ Cell(x) = x
      BY VisitFacts, <1>1, <2>4 DEF Plain, Harmful, Cell
    <3>. QED BY VisitFacts, <1>1, <2>1, <2>3, <2>4, <3>1
  <2>5. CASE ~(ram.fault.kind = "couple" /\ x = ram.fault.w)
    <3>1. x # Address => Cell(x) # Cell(Address)
      BY VisitFacts, <1>1 DEF Cell, Plain, Harmful
    <3>2. ram.fault.kind = "couple" => Cell(x) = x
      BY DEF Cell
    <3>. QED BY VisitFacts, <1>1, <2>1, <2>2, <2>3, <2>5, <3>1, <3>2
  <2>. QED BY <2>4, <2>5
<1>. QED BY <1>1, VisitFacts DEF PlainHold

(* A stuck bit is seen by the second pass or the third. *)
LEMMA VisitKeepsStuck ==
  ASSUME MemInvariant, Visits
  PROVE  StuckHold'
<1>. DEFINE w == ram.fault.w
            b == ram.fault.b
            v == ram.fault.v
<1>. SUFFICES ASSUME Harmful, ram.fault.kind = "stuck"
              PROVE  /\ Writes(mt', w) < 3
                     /\ Writes(mt', w) > 0 => ram'.mem[w] = ValueOf(mt', w, Writes(mt', w))
                     /\ Writes(mt', w) = 2 => BitOf(ValueOf(mt', w, 1), b) = v
  BY VisitFacts DEF StuckHold, BitSeen
<1>1. w \in Region /\ w \in Cells /\ b \in Nat /\ b < RamBits /\ v \in {0, 1}
  BY MemFacts DEF Harmful, MemInvariant, RamTyped
<1>2. /\ Writes(mt, w) < 3
      /\ Writes(mt, w) > 0 => ram.mem[w] = ValueOf(mt, w, Writes(mt, w))
      /\ Writes(mt, w) = 2 => BitOf(ValueOf(mt, w, 1), b) = v
  BY VisitFacts DEF MemInvariant, StuckHold, BitSeen
<1>3. /\ Writes(mt, w) \in 0 .. 3
      /\ Writes(mt', w) = IF w = Address THEN Writes(mt, w) + 1 ELSE Writes(mt, w)
      /\ \A j : ValueOf(mt', w, j) = ValueOf(mt, w, j)
  BY <1>1, WritesAfter DEF Visits
<1>4. \A x : Cell(x) = x
  BY DEF Cell
<1>5. CASE w # Address
  <2>1. ram'.mem[w] = ram.mem[w]
    BY <1>1, <1>4, <1>5, VisitFacts
  <2>. QED BY <1>2, <1>3, <1>5, <2>1
<1>6. CASE w = Address
  <2>1. ram'.mem[w] = ValueOf(mt, w, Writes(mt, w) + 1)
    BY <1>4, <1>6, VisitFacts
  <2>2. Writes(mt, w) > 0 => WithBit(ram.mem[w], b, v) = ValueOf(mt, w, Writes(mt, w))
    BY <1>6 DEF Visits, Read
  <2>3. /\ ValueOf(mt, w, 1) \in 1 .. Full - 1 /\ ValueOf(mt, w, 2) \in Nat
        /\ ValueOf(mt, w, 2) = (Full - 1) - ValueOf(mt, w, 1)
    BY <1>1, VisitFacts, ValuesFit, MemFacts
  <2>4. Writes(mt, w) = 1 => BitOf(ValueOf(mt, w, 1), b) = v
    BY <1>1, <1>2, <2>2, <2>3, UnchangedBit, MemFacts
  <2>5. Writes(mt, w) # 2
    <3>1. SUFFICES ASSUME Writes(mt, w) = 2 PROVE FALSE
      OBVIOUS
    <3>2. BitOf(ValueOf(mt, w, 2), b) = v
      BY <1>1, <1>2, <2>2, <2>3, <3>1, UnchangedBit
    <3>3. BitOf(ValueOf(mt, w, 2), b) = 1 - BitOf(ValueOf(mt, w, 1), b)
      <4>1. ValueOf(mt, w, 1) \in 0 .. Pow2[RamBits] - 1 /\ RamBits \in Nat
        BY <2>3, MemFacts DEF Full
      <4>. QED BY <4>1, <1>1, <2>3, InvertedBit DEF Full
    <3>. QED BY <1>1, <1>2, <3>1, <3>2, <3>3
  <2>. QED BY <1>2, <1>3, <1>6, <2>1, <2>4, <2>5
<1>. QED BY <1>5, <1>6

(* The words before the visited one have been written once more.           *)
LEMMA WritesAround ==
  ASSUME MemInvariant, mt.pc \in Passes, NEW y \in Region
  PROVE  Writes(mt, y) = IF y < Address THEN Writes(mt, Address) + 1 ELSE Writes(mt, Address)
<1>1. mt.start \in Nat /\ mt.offset \in Nat
  BY DEF MemInvariant, TestTyped
<1>. QED BY <1>1 DEF Writes, Address, Passes

(* Of two addresses of one cell the first does not show its own number.    *)
LEMMA VisitKeepsAlias ==
  ASSUME MemInvariant, Visits
  PROVE  AliasHold'
<1>. DEFINE w == ram.fault.w
<1>. SUFFICES ASSUME Harmful, ram.fault.kind = "alias",
                     NEW x \in {ram.fault.a, w}, NEW y \in {ram.fault.a, w}, x < y
              PROVE  /\ Writes(mt', x) < 2
                     /\ Writes(mt', y) = 1 => ram'.mem[w] = ValueOf(mt', y, 1)
  BY VisitFacts DEF AliasHold
<1>1. x \in Region /\ y \in Region /\ w \in Region /\ w \in Cells /\ {x, y} = {ram.fault.a, w}
      /\ x \in Cells /\ y \in Cells /\ Address \in Cells
  BY AddressIn, VisitFacts DEF Harmful, MemInvariant, RamTyped, Cells
<1>2. Writes(mt, x) < 2 /\ (Writes(mt, y) = 1 => ram.mem[w] = ValueOf(mt, y, 1))
  BY VisitFacts DEF MemInvariant, AliasHold
<1>3. /\ Writes(mt, x) \in 0 .. 3 /\ Writes(mt, y) \in 0 .. 3
      /\ Writes(mt', x) = IF x = Address THEN Writes(mt, x) + 1 ELSE Writes(mt, x)
      /\ Writes(mt', y) = IF y = Address THEN Writes(mt, y) + 1 ELSE Writes(mt, y)
      /\ \A j : ValueOf(mt', y, j) = ValueOf(mt, y, j)
  BY <1>1, WritesAfter DEF Visits
<1>4. Cell(x) = w /\ Cell(y) = w /\ Read(x) = ram.mem[w]
      /\ \A z : z # ram.fault.a => Cell(z) = z
  BY <1>1 DEF Cell, Read
<1>5. x = Address => Writes(mt, y) = Writes(mt, x)
  BY <1>1, WritesAround, VisitFacts DEF Cells
<1>6. x = Address => Writes(mt, x) = 0
  <2>1. SUFFICES ASSUME x = Address, Writes(mt, x) = 1 PROVE FALSE
    BY <1>2, <1>3
  <2>2. ram.mem[w] = ValueOf(mt, x, 1) /\ ram.mem[w] = ValueOf(mt, y, 1)
    BY <2>1, <1>2, <1>4, <1>5 DEF Visits
  <2>3. ValueOf(mt, x, 1) = x - mt.start + 1 /\ ValueOf(mt, y, 1) = y - mt.start + 1
    BY DEF ValueOf
  <2>4. mt.start \in Nat
    BY DEF MemInvariant, TestTyped
  <2>. QED BY <1>1, <2>2, <2>3, <2>4 DEF Cells
<1>7. Writes(mt', x) < 2
  BY <1>2, <1>3, <1>6
<1>8. ASSUME Writes(mt', y) = 1
      PROVE  ram'.mem[w] = ValueOf(mt, y, 1)
  <2>1. CASE y = Address
    BY <1>3, <1>4, <1>8, <2>1, VisitFacts
  <2>2. CASE x = Address
    BY <1>1, <1>3, <1>5, <1>6, <1>8, <2>2 DEF Cells
  <2>3. CASE x # Address /\ y # Address
    <3>1. Cell(Address) # w
      BY <1>1, <1>4, <2>3
    <3>. QED BY <1>1, <1>2, <1>3, <1>8, <2>3, <3>1, VisitFacts
  <2>. QED BY <2>1, <2>2, <2>3
<1>. QED BY <1>3, <1>7, <1>8

(* A word disturbed by another is seen by the second pass or the third.    *)
LEMMA VisitKeepsCouple ==
  ASSUME MemInvariant, Visits
  PROVE  CoupleHold'
<1>. DEFINE a == ram.fault.a
            w == ram.fault.w
            b == ram.fault.b
            v == ram.fault.v
            Forced(x) == WithBit(x, b, v)
<1>. SUFFICES ASSUME Harmful, ram.fault.kind = "couple"
              PROVE  /\ Writes(mt', w) < 3
                     /\ Writes(mt', w) > 0 =>
                          ram'.mem[w] = IF Disturbed' THEN Forced(ValueOf(mt', w, Writes(mt', w)))
                                        ELSE ValueOf(mt', w, Writes(mt', w))
                     /\ Writes(mt', w) = 2 => BitOf(ValueOf(mt', w, 1), b) = v
  BY VisitFacts DEF CoupleHold, BitSeen
<1>1. /\ a \in Region /\ w \in Region /\ w \in Cells /\ a \in Cells /\ a # w
      /\ b \in Nat /\ b < RamBits /\ v \in {0, 1} /\ Address \in Cells
  BY MemFacts, AddressIn, VisitFacts DEF Harmful, MemInvariant, RamTyped
<1>2. /\ Writes(mt, w) < 3
      /\ Writes(mt, w) > 0 => ram.mem[w] = IF Disturbed THEN Forced(ValueOf(mt, w, Writes(mt, w)))
                                           ELSE ValueOf(mt, w, Writes(mt, w))
      /\ Writes(mt, w) = 2 => BitOf(ValueOf(mt, w, 1), b) = v
  BY VisitFacts DEF MemInvariant, CoupleHold, BitSeen
<1>3. /\ Writes(mt, w) \in 0 .. 3 /\ Writes(mt, a) \in 0 .. 3
      /\ Writes(mt', w) = IF w = Address THEN Writes(mt, w) + 1 ELSE Writes(mt, w)
      /\ Writes(mt', a) = IF a = Address THEN Writes(mt, a) + 1 ELSE Writes(mt, a)
      /\ \A j : ValueOf(mt', w, j) = ValueOf(mt, w, j)
  BY <1>1, WritesAfter DEF Visits
<1>4. Cell(Address) = Address /\ Read(Address) = ram.mem[Address]
  BY DEF Cell, Read
<1>5. /\ Writes(mt, w) = IF w < Address THEN Writes(mt, Address) + 1 ELSE Writes(mt, Address)
      /\ Writes(mt, a) = IF a < Address THEN Writes(mt, Address) + 1 ELSE Writes(mt, Address)
  BY <1>1, WritesAround, VisitFacts
<1>6. /\ Disturbed <=> IF a < w THEN Writes(mt, a) > Writes(mt, w) ELSE Writes(mt, a) = Writes(mt, w)
      /\ Disturbed' <=> IF a < w THEN Writes(mt', a) > Writes(mt', w) ELSE Writes(mt', a) = Writes(mt', w)
  BY VisitFacts DEF Disturbed
<1>7. ram'.mem[w] = IF Address = a THEN Forced(ram.mem[w])
                    ELSE IF Address = w THEN ValueOf(mt, w, Writes(mt, w) + 1) ELSE ram.mem[w]
  BY VisitFacts
<1>. HIDE DEF Forced
<1>8. CASE Address = a
  <2>1. ~Disturbed /\ Disturbed'
    BY <1>1, <1>3, <1>5, <1>6, <1>8 DEF Cells
  <2>. QED BY <1>1, <1>2, <1>3, <1>7, <1>8, <2>1
<1>9. CASE Address = w
  <2>1. Disturbed /\ ~Disturbed'
    BY <1>1, <1>3, <1>5, <1>6, <1>9 DEF Cells
  <2>2. Writes(mt, w) > 0 => Forced(ValueOf(mt, w, Writes(mt, w))) = ValueOf(mt, w, Writes(mt, w))
    BY <1>2, <1>4, <1>9, <2>1 DEF Visits
  <2>3. /\ ValueOf(mt, w, 1) \in 1 .. Full - 1 /\ ValueOf(mt, w, 2) \in Nat
        /\ ValueOf(mt, w, 2) = (Full - 1) - ValueOf(mt, w, 1)
    BY <1>1, VisitFacts, ValuesFit, MemFacts
  <2>4. Writes(mt, w) = 1 => BitOf(ValueOf(mt, w, 1), b) = v
    BY <1>1, <2>2, <2>3, UnchangedBit, MemFacts DEF Forced
  <2>5. Writes(mt, w) # 2
    <3>1. SUFFICES ASSUME Writes(mt, w) = 2 PROVE FALSE
      OBVIOUS
    <3>2. BitOf(ValueOf(mt, w, 2), b) = v
      BY <1>1, <2>2, <2>3, <3>1, UnchangedBit DEF Forced
    <3>3. BitOf(ValueOf(mt, w, 2), b) = 1 - BitOf(ValueOf(mt, w, 1), b)
      <4>1. ValueOf(mt, w, 1) \in 0 .. Pow2[RamBits] - 1 /\ RamBits \in Nat
        BY <2>3, MemFacts DEF Full
      <4>. QED BY <4>1, <1>1, <2>3, InvertedBit DEF Full
    <3>. QED BY <1>1, <1>2, <3>1, <3>2, <3>3
  <2>. QED BY <1>1, <1>2, <1>3, <1>7, <1>9, <2>1, <2>4, <2>5
<1>10. CASE Address # a /\ Address # w
  BY <1>2, <1>3, <1>6, <1>7, <1>10
<1>. QED BY <1>8, <1>9, <1>10

-----------------------------------------------------------------------------
(* The steps. *)

(* The bar is never longer than its line, and full at the end.             *)
LEMMA ProgressFits ==
  ASSUME NEW words \in Nat \ {0}, NEW now \in 0 .. 3 * words
  PROVE  /\ (now * Hashes) \div (3 * words) \in 0 .. Hashes
         /\ now = 3 * words => (now * Hashes) \div (3 * words) = Hashes
<1>. DEFINE n == 3 * words
            q == (now * Hashes) \div n
            r == (now * Hashes) % n
<1>1. n \in Nat \ {0} /\ now \in 0 .. n /\ Hashes \in Nat /\ now * Hashes \in Nat
  BY MemFacts
<1>2. now * Hashes <= n * Hashes /\ (now = n => now * Hashes = n * Hashes + 0)
  BY <1>1
<1>3. q \in Nat /\ r \in 0 .. n - 1 /\ now * Hashes = n * q + r
  <2>. HIDE DEF n
  <2>. QED BY <1>1, Quotient
<1>. HIDE DEF n, q, r
<1>4. q <= Hashes
  <2>1. SUFFICES ASSUME q >= Hashes + 1 PROVE FALSE
    BY <1>1, <1>3
  <2>2. n * q >= n * (Hashes + 1) /\ n * (Hashes + 1) = n * Hashes + n
    BY <1>1, <1>3, <2>1
  <2>3. n * q \in Int /\ n * Hashes \in Int
    BY <1>1, <1>3
  <2>. QED BY <1>1, <1>2, <1>3, <2>2, <2>3
<1>5. now = n => q = Hashes
  <2>1. SUFFICES ASSUME now = n, q < Hashes PROVE FALSE
    BY <1>1, <1>3, <1>4
  <2>2. n * Hashes >= n * (q + 1) /\ n * (q + 1) = n * q + n
    BY <1>1, <1>3, <2>1
  <2>3. n * q \in Int /\ n * Hashes \in Int
    BY <1>1, <1>3
  <2>. QED BY <1>1, <1>2, <1>3, <2>1, <2>2, <2>3
<1>. QED BY <1>3, <1>4, <1>5 DEF q, n

(* A step of a pass that finds what it expects is a visit. *)
LEMMA VisitKeepsInvariant ==
  ASSUME MemInvariant, Visits, mt.ret = "none", TestTyped', mt'.printed <= Hashes
  PROVE  MemInvariant'
<1>1. mt.start \in Nat /\ mt.words \in Nat /\ mt.offset \in Nat /\ mt.offset < mt.words
      /\ mt.start + mt.words <= RamWords
  BY VisitFacts DEF MemInvariant, TestTyped, InRegion
<1>2. InRegion'
  <2>1. mt'.pc \in Passes \cup {"end"} /\ mt'.ret = "none" /\ mt'.start = mt.start /\ mt'.words = mt.words
    BY DEF Visits, GoesOn, Passes, After
  <2>2. mt'.pc \in Passes => mt'.offset < mt'.words
    BY <1>1 DEF Visits, GoesOn, Passes, After
  <2>3. mt'.pc = "end" => mt'.offset = 0
    BY DEF Visits, GoesOn, Passes, After
  <2>. QED BY <1>1, <2>1, <2>2, <2>3 DEF InRegion, Passes, Testing
<1>3. RamTyped'
  BY VisitFacts
<1>4. BarFits' /\ Reported'
  BY DEF BarFits, Reported, Visits, GoesOn
<1>5. Untouched'
  <2>1. SUFFICES ASSUME ram.fault.kind \in {"none", "stuck"},
                        NEW x \in Cells \ Region, NEW y \in Cells \ Region
                 PROVE  ram'.mem[x] = ram'.mem[y]
    BY VisitFacts DEF Untouched
  <2>2. x # Cell(Address) /\ y # Cell(Address)
    BY <2>1, VisitFacts DEF Cell
  <2>3. ram.mem[x] = ram.mem[y]
    BY <2>1 DEF MemInvariant, Untouched
  <2>. QED BY <2>1, <2>2, <2>3, VisitFacts
<1>. QED BY <1>2, <1>3, <1>4, <1>5, VisitKeepsPlain, VisitKeepsStuck, VisitKeepsAlias,
            VisitKeepsCouple DEF MemInvariant

(* No more hashes are printed than a line takes.                           *)
LEMMA UpdatedFits ==
  ASSUME MemInvariant, mt.words > 0, NEW now \in 0 .. 3 * mt.words
  PROVE  \E n \in Nat : n <= Hashes /\ Updated(mt, now) = [mt EXCEPT !.printed = n]
<1>1. mt.words \in Nat \ {0} /\ mt.printed \in Nat /\ mt.printed <= Hashes
  BY DEF MemInvariant, TestTyped, BarFits
<1>2. mt = [mt EXCEPT !.printed = mt.printed]
  BY DEF MemInvariant, TestTyped
<1>3. (now * Hashes) \div (3 * mt.words) \in 0 .. Hashes
  BY <1>1, ProgressFits
<1>. QED BY <1>1, <1>2, <1>3, MemFacts DEF Updated, Progress

(* A pass goes on to the next address, or to the pass that follows.        *)
LEMMA AdvanceGoesOn ==
  ASSUME MemInvariant, mt.pc \in Passes, NEW n \in Nat, n <= Hashes,
         mt' = Advance([mt EXCEPT !.printed = n], After(mt.pc))
  PROVE  GoesOn /\ TestTyped' /\ mt'.printed <= Hashes
<1>1. mt.words \in Nat /\ mt.offset \in Nat /\ mt.offset < mt.words
  BY DEF MemInvariant, TestTyped, InRegion
<1>2. TestTyped /\ After(mt.pc) \in Passes \cup {"end"}
  BY DEF MemInvariant, After, Passes
<1>3. CASE mt.offset + 1 < mt.words
  <2>1. mt' = [[mt EXCEPT !.printed = n] EXCEPT !.offset = mt.offset + 1]
    BY <1>2, <1>3 DEF Advance, TestTyped
  <2>2. TestTyped'
    <3>1. mt.offset + 1 \in Nat
      BY <1>1
    <3>. QED BY <3>1, <1>2, <2>1 DEF TestTyped
  <2>3. /\ mt'.pc = mt.pc /\ mt'.offset = mt.offset + 1 /\ mt'.printed = n
        /\ mt'.start = mt.start /\ mt'.words = mt.words /\ mt'.ret = mt.ret
    BY <1>2, <2>1 DEF TestTyped
  <2>. QED BY <1>3, <2>2, <2>3 DEF GoesOn
<1>4. CASE ~(mt.offset + 1 < mt.words)
  <2>1. mt' = [[[mt EXCEPT !.printed = n] EXCEPT !.offset = 0] EXCEPT !.pc = After(mt.pc)]
    BY <1>2, <1>4 DEF Advance, TestTyped
  <2>2. mt.offset + 1 = mt.words
    BY <1>1, <1>4
  <2>3. TestTyped'
    <3>1. 0 \in Nat
      OBVIOUS
    <3>. QED BY <3>1, <1>2, <2>1 DEF TestTyped
  <2>4. /\ mt'.pc = After(mt.pc) /\ mt'.offset = 0 /\ mt'.printed = n
        /\ mt'.start = mt.start /\ mt'.words = mt.words /\ mt'.ret = mt.ret
    BY <1>2, <2>1 DEF TestTyped
  <2>. QED BY <2>2, <2>3, <2>4 DEF GoesOn
<1>. QED BY <1>3, <1>4

(* The pattern of the source is the number of the word: it does not wrap.  *)
LEMMA PatternIs ==
  ASSUME MemInvariant, mt.pc \in Passes
  PROVE  /\ Pattern = ValueOf(mt, Address, 1) /\ Inverted(Pattern) = ValueOf(mt, Address, 2)
         /\ ValueOf(mt, Address, 3) = 0
         /\ Pattern \in Nat /\ Inverted(Pattern) \in Nat
<1>1. ValueOf(mt, Address, 1) \in 1 .. Full - 1 /\ ValueOf(mt, Address, 2) \in 0 .. Full - 1
      /\ ValueOf(mt, Address, 2) = (Full - 1) - ValueOf(mt, Address, 1)
      /\ ValueOf(mt, Address, 3) = 0
  BY AddressIn, ValuesFit
<1>2. mt.start \in Nat /\ mt.offset \in Nat
  BY DEF MemInvariant, TestTyped
<1>3. ValueOf(mt, Address, 1) = mt.offset + 1
  BY <1>2 DEF ValueOf, Address
<1>4. mt.offset + 1 < Full /\ Full \in Nat
  BY <1>1, <1>3, MemFacts
<1>5. Pattern = mt.offset + 1
  BY <1>2, <1>4 DEF Pattern, Full
<1>. QED BY <1>1, <1>3, <1>4, <1>5 DEF Inverted, Full

(* A read yields a word, whatever the fault.                               *)
LEMMA ReadTyped ==
  ASSUME MemInvariant, NEW x \in Cells
  PROVE  Read(x) \in Int
<1>. DEFINE f == ram.fault
<1>1. /\ ram.mem \in [Cells -> Int] /\ Cell(x) \in Cells /\ f.w \in Cells
      /\ f.b \in Nat /\ f.v \in {0, 1}
  BY MemFacts DEF MemInvariant, RamTyped, Cell
<1>2. Pow2[f.b] \in Nat \ {0} /\ ram.mem[x] \in Int
  BY <1>1, Pow2Facts
<1>3. BitOf(ram.mem[x], f.b) \in Int
  BY <1>2 DEF BitOf
<1>4. WithBit(ram.mem[x], f.b, f.v) \in Int
  BY <1>1, <1>2, <1>3 DEF WithBit
<1>. QED BY <1>1, <1>4 DEF Read

(* The first pass keeps the invariant.                                     *)
LEMMA FillStep ==
  ASSUME MemInvariant, Fill
  PROVE  MemInvariant'
<1>1. mt.pc \in Passes /\ mt.pc = "fill" /\ mt.ret = "none"
  BY DEF Fill, Passes, MemInvariant, InRegion
<1>2. mt.words \in Nat /\ mt.words > 0 /\ mt.offset \in 0 .. 3 * mt.words
  BY <1>1 DEF MemInvariant, TestTyped, InRegion
<1>3. PICK n \in Nat : n <= Hashes /\ Updated(mt, mt.offset) = [mt EXCEPT !.printed = n]
  BY <1>2, UpdatedFits
<1>4. mt' = Advance([mt EXCEPT !.printed = n], After(mt.pc))
  BY <1>1, <1>3 DEF Fill, After
<1>5. GoesOn /\ TestTyped' /\ mt'.printed <= Hashes
  BY <1>1, <1>3, <1>4, AdvanceGoesOn
<1>6. Visits
  BY <1>1, <1>5, AddressIn, PatternIs DEF Visits, Fill
<1>. QED BY <1>1, <1>5, <1>6, VisitKeepsInvariant

(* A checking step visits a word, or reports one that really differs.      *)
LEMMA CheckStep ==
  ASSUME MemInvariant, NEW pc \in {"invert", "zero"}, NEW base \in 0 .. 2 * mt.words,
         NEW k \in 1 .. 2, mt.pc = pc => Writes(mt, Address) = k,
         Check(pc, base, ValueOf(mt, Address, k), ValueOf(mt, Address, k + 1), After(pc))
  PROVE  MemInvariant'
<1>1. mt.pc \in Passes /\ mt.pc = pc /\ mt.ret = "none"
  BY DEF Check, Passes, MemInvariant, InRegion
<1>2. mt.words \in Nat /\ mt.words > 0 /\ base + mt.offset \in 0 .. 3 * mt.words
      /\ mt.start \in Nat /\ mt.start + mt.words <= RamWords
  BY <1>1 DEF MemInvariant, TestTyped, InRegion, Testing, Passes
<1>3. PICK n \in Nat : n <= Hashes /\ Updated(mt, base + mt.offset) = [mt EXCEPT !.printed = n]
  BY <1>2, UpdatedFits
<1>4. CASE Read(Address) = ValueOf(mt, Address, k)
  <2>1. /\ ram' = [ram EXCEPT !.mem = Written(Address, ValueOf(mt, Address, k + 1))]
        /\ mt' = Advance([mt EXCEPT !.printed = n], After(mt.pc))
    BY <1>1, <1>3, <1>4 DEF Check
  <2>2. GoesOn /\ TestTyped' /\ mt'.printed <= Hashes
    BY <1>1, <1>3, <2>1, AdvanceGoesOn
  <2>3. Visits
    BY <1>1, <1>4, <2>1, <2>2 DEF Visits
  <2>. QED BY <1>1, <2>2, <2>3, VisitKeepsInvariant
<1>5. CASE Read(Address) # ValueOf(mt, Address, k)
  <2>1. /\ ram' = ram
        /\ mt' = [[mt EXCEPT !.printed = n] EXCEPT !.pc = "idle", !.ret = "EIO", !.at = Address,
                     !.expected = ValueOf(mt, Address, k), !.actual = Read(Address)]
    BY <1>3, <1>5 DEF Check
  <2>2. Address \in Region /\ Address \in Cells /\ Address \in Nat
    BY <1>1, MemFacts, AddressIn DEF Cells
  <2>3. ValueOf(mt, Address, k) \in Int /\ Read(Address) \in Int
    BY <1>1, <2>2, AddressIn, ValuesFit, ReadTyped, MemFacts
  <2>4. TestTyped
    BY DEF MemInvariant
  <2>5. /\ mt'.pc = "idle" /\ mt'.ret = "EIO" /\ mt'.at = Address /\ mt'.printed = n
        /\ mt'.expected = ValueOf(mt, Address, k) /\ mt'.actual = Read(Address)
        /\ mt'.start = mt.start /\ mt'.words = mt.words
    BY <2>1, <2>4 DEF TestTyped
  <2>6. TestTyped'
    BY <2>1, <2>2, <2>3, <2>4 DEF TestTyped
  <2>7. InRegion' /\ BarFits' /\ RamTyped'
    BY <1>2, <1>3, <2>1, <2>5 DEF InRegion, BarFits, Testing, Passes, MemInvariant, RamTyped
  <2>8. Region' = Region /\ ~Testing'
    BY <2>5 DEF Region, Testing
  <2>9. ram.fault.kind # "none"
    <3>1. SUFFICES ASSUME ram.fault.kind = "none" PROVE FALSE
      OBVIOUS
    <3>2. Plain(Address) /\ Testing
      BY <1>1, <2>2, <3>1, AddressIn DEF Plain, Harmful
    <3>3. ram.mem[Cell(Address)] = ValueOf(mt, Address, k)
      BY <1>1, <2>2, <3>2 DEF MemInvariant, PlainHold
    <3>. QED BY <1>5, <2>2, <3>2, <3>3, PlainRead
  <2>10. Reported' /\ Untouched'
    BY <1>5, <2>1, <2>2, <2>5, <2>8, <2>9 DEF Reported, MemInvariant, Untouched
  <2>. QED BY <2>6, <2>7, <2>8, <2>10 DEF MemInvariant, PlainHold, StuckHold, AliasHold, CoupleHold
<1>. QED BY <1>4, <1>5

(* The second keeps it.                                                    *)
LEMMA InvertStep ==
  ASSUME MemInvariant, Invert
  PROVE  MemInvariant'
<1>1. mt.pc = "invert" /\ mt.pc \in Passes
  BY DEF Invert, Check, Passes
<1>2. Writes(mt, Address) = 1
  BY <1>1, AddressIn
<1>3. mt.words \in 0 .. 2 * mt.words
  BY DEF MemInvariant, TestTyped
<1>4. Check("invert", mt.words, ValueOf(mt, Address, 1), ValueOf(mt, Address, 1 + 1), After("invert"))
  BY <1>1, PatternIs DEF Invert, After
<1>. QED BY <1>2, <1>3, <1>4, CheckStep

(* The third keeps it.                                                     *)
LEMMA ZeroStep ==
  ASSUME MemInvariant, Zero
  PROVE  MemInvariant'
<1>1. mt.pc = "zero" /\ mt.pc \in Passes
  BY DEF Zero, Check, Passes
<1>2. Writes(mt, Address) = 2
  BY <1>1, AddressIn
<1>3. 2 * mt.words \in 0 .. 2 * mt.words
  BY DEF MemInvariant, TestTyped
<1>4. Check("zero", 2 * mt.words, ValueOf(mt, Address, 2), ValueOf(mt, Address, 2 + 1), After("zero"))
  BY <1>1, PatternIs DEF Zero, After
<1>. QED BY <1>2, <1>3, <1>4, CheckStep

(* At the end the bar is full, and no fault was in the region. *)
LEMMA EndStep ==
  ASSUME MemInvariant, MemEnd
  PROVE  MemInvariant'
<1>1. /\ mt.pc = "end" /\ mt.ret = "none" /\ Testing /\ mt.offset = 0 /\ TestTyped /\ ram' = ram
      /\ mt.words \in Nat \ {0} /\ mt.printed \in Nat /\ mt.printed <= Hashes
  BY DEF MemEnd, MemInvariant, InRegion, Testing, TestTyped, BarFits
<1>2. Progress(mt, 3 * mt.words) = [mt EXCEPT !.printed = Hashes]
  <2>1. (3 * mt.words * Hashes) \div (3 * mt.words) = Hashes
    <3>1. 3 * mt.words \in 0 .. 3 * mt.words
      BY <1>1
    <3>. QED BY <1>1, <3>1, ProgressFits
  <2>2. [mt EXCEPT !.printed = mt.printed] = mt
    BY <1>1 DEF TestTyped
  <2>3. mt.printed = Hashes \/ Hashes > mt.printed
    BY <1>1, MemFacts
  <2>. QED BY <2>1, <2>2, <2>3 DEF Progress
<1>3. mt' = [[mt EXCEPT !.printed = Hashes] EXCEPT !.pc = "idle", !.ret = "0"]
  BY <1>2 DEF MemEnd
<1>4. /\ mt'.pc = "idle" /\ mt'.ret = "0" /\ mt'.printed = Hashes /\ mt'.start = mt.start
      /\ mt'.words = mt.words /\ mt'.offset = mt.offset
  BY <1>1, <1>3 DEF TestTyped
<1>5. TestTyped'
  BY <1>1, <1>3, MemFacts DEF TestTyped
<1>6. RamTyped' /\ InRegion' /\ BarFits' /\ Reported' /\ Untouched'
  BY <1>1, <1>4, MemFacts DEF MemInvariant, RamTyped, InRegion, BarFits, Reported, Untouched, Testing,
     Passes, Region
<1>7. \A x : Writes(mt', x) = Writes(mt, x) /\ \A k : ValueOf(mt', x, k) = ValueOf(mt, x, k)
  BY <1>1, <1>4 DEF Writes, ValueOf, Passes
<1>8. Region' = Region /\ (Harmful' <=> Harmful) /\ (Disturbed' <=> Disturbed)
      /\ \A x : (Plain(x)' <=> Plain(x)) /\ Cell(x)' = Cell(x) /\ (BitSeen(x)' <=> BitSeen(x))
  BY <1>1, <1>4, <1>7 DEF Region, Harmful, Disturbed, Plain, Cell, BitSeen
<1>9. PlainHold'
  BY <1>1, <1>7, <1>8 DEF MemInvariant, PlainHold
<1>10. StuckHold' /\ AliasHold' /\ CoupleHold'
  BY <1>1, <1>7, <1>8 DEF MemInvariant, StuckHold, AliasHold, CoupleHold
<1>. QED BY <1>5, <1>6, <1>9, <1>10 DEF MemInvariant

(* The words of a region that begins and ends anywhere in the RAM. *)
LEMMA CutToWords ==
  ASSUME NEW _start \in 0 .. RamWords * WordBytes, NEW _end \in WordBytes .. RamWords * WordBytes,
         NEW first, first = AlignUp(_start), NEW last, last = AlignDown(_end) - 1, ~(last <= first)
  PROVE  /\ first \div WordBytes \in Nat
         /\ (last - first + 1) \div WordBytes \in Nat \ {0}
         /\ first \div WordBytes + (last - first + 1) \div WordBytes <= RamWords
<1>. DEFINE q == (_start + WordBytes - 1) \div WordBytes
            r == _end \div WordBytes
            B == WordBytes
            lo == _end % WordBytes
<1>1. B \in Nat \ {0} /\ RamWords \in Nat /\ RamWords * B \in Nat
  BY MemFacts
<1>2. _start + WordBytes - 1 \in Nat /\ _end \in Nat /\ _end <= RamWords * B
  BY <1>1
<1>3. q \in Nat
  BY <1>1, <1>2, Quotient
<1>4. r \in Nat /\ lo \in 0 .. B - 1 /\ _end = B * r + lo
  BY <1>1, <1>2, Quotient
<1>5. first = q * B /\ last = r * B - 1
  BY DEF AlignUp, AlignDown
<1>. HIDE DEF q, r, lo, B
<1>6. r <= RamWords
  <2>1. SUFFICES ASSUME r >= RamWords + 1 PROVE FALSE
    BY <1>1, <1>4
  <2>2. B * r >= B * (RamWords + 1) /\ B * (RamWords + 1) = RamWords * B + B
    BY <1>1, <1>4, <2>1
  <2>3. B * r \in Int
    BY <1>1, <1>4
  <2>. QED BY <1>1, <1>2, <1>4, <2>2, <2>3
<1>7. q < r
  <2>1. SUFFICES ASSUME r <= q PROVE FALSE
    BY <1>3, <1>4
  <2>2. r * B <= q * B /\ r * B \in Int /\ q * B \in Int
    BY <1>1, <1>3, <1>4, <2>1
  <2>. QED BY <1>5, <2>2
<1>8. first = B * q + 0 /\ (last - first) + 1 = B * (r - q) + 0 /\ first \in Nat
      /\ r - q \in Nat \ {0} /\ (last - first) + 1 \in Nat
  <2>1. B * (r - q) = r * B - q * B /\ B * q = q * B /\ r * B \in Nat /\ q * B \in Nat
    BY <1>1, <1>3, <1>4
  <2>2. B * (r - q) \in Nat
    BY <1>1, <1>3, <1>4, <1>7
  <2>. QED BY <1>3, <1>4, <1>5, <1>7, <2>1, <2>2
<1>9. first \div B = q /\ ((last - first) + 1) \div B = r - q
  <2>1. 0 \in 0 .. B - 1
    BY <1>1
  <2>. QED BY <1>1, <1>3, <1>8, <2>1, QuotientIs
<1>10. first \div WordBytes = q /\ (last - first + 1) \div WordBytes = r - q
  BY <1>9 DEF B
<1>. QED BY <1>1, <1>3, <1>4, <1>6, <1>7, <1>10

(* The start of a test keeps it.                                           *)
LEMMA StartStep ==
  ASSUME MemInvariant, MemStart
  PROVE  MemInvariant'
<1>1. PICK _start \in 0 .. RamWords * WordBytes, _end \in WordBytes .. RamWords * WordBytes :
        mt' = IF AlignDown(_end) - 1 <= AlignUp(_start) THEN [mt EXCEPT !.ret = "EINVAL"]
              ELSE [mt EXCEPT !.pc = "fill", !.start = AlignUp(_start) \div WordBytes,
                     !.words = (AlignDown(_end) - 1 - AlignUp(_start) + 1) \div WordBytes]
  BY DEF MemStart
<1>2. mt.pc = "idle" /\ mt.ret = "none" /\ ram' = ram /\ TestTyped /\ RamTyped /\ BarFits
      /\ mt.words = 0 /\ mt.printed = 0 /\ mt.offset = 0
  BY DEF MemStart, MemInvariant, InRegion
<1>3. Region = {} /\ \A x, y \in Cells : ram.fault.kind \in {"none", "stuck"} => ram.mem[x] = ram.mem[y]
  BY <1>2 DEF MemInvariant, Untouched, Region, TestTyped
<1>4. CASE AlignDown(_end) - 1 <= AlignUp(_start)
  <2>1. mt' = [mt EXCEPT !.ret = "EINVAL"]
    BY <1>1, <1>4
  <2>2. TestTyped' /\ ~Testing' /\ mt'.pc = "idle" /\ mt'.ret = "EINVAL" /\ mt'.printed = 0
    BY <1>2, <2>1 DEF TestTyped, Testing
  <2>3. RamTyped' /\ InRegion' /\ BarFits' /\ Reported' /\ Untouched'
    BY <1>2, <1>3, <2>2, MemFacts DEF RamTyped, InRegion, BarFits, Reported, Untouched, Passes
  <2>. QED BY <2>2, <2>3 DEF MemInvariant, PlainHold, StuckHold, AliasHold, CoupleHold
<1>5. CASE ~(AlignDown(_end) - 1 <= AlignUp(_start))
  <2>. DEFINE start == AlignUp(_start) \div WordBytes
              words == (AlignDown(_end) - 1 - AlignUp(_start) + 1) \div WordBytes
  <2>1. mt' = [mt EXCEPT !.pc = "fill", !.start = start, !.words = words]
    BY <1>1, <1>5
  <2>2. start \in Nat /\ words \in Nat \ {0} /\ start + words <= RamWords
    BY <1>5, CutToWords
  <2>. HIDE DEF start, words
  <2>3. /\ mt'.pc = "fill" /\ mt'.start = start /\ mt'.words = words /\ mt'.ret = "none"
        /\ mt'.offset = 0 /\ mt'.printed = 0 /\ TestTyped'
    BY <1>2, <2>1, <2>2 DEF TestTyped, Passes
  <2>4. RamTyped' /\ InRegion' /\ BarFits' /\ Reported'
    BY <1>2, <2>2, <2>3, MemFacts DEF RamTyped, InRegion, BarFits, Reported, Passes, Testing
  <2>5. Untouched'
    BY <1>2, <1>3 DEF Untouched
  <2>6. ASSUME NEW x \in Region'
        PROVE  Writes(mt', x) = 0
    BY <2>2, <2>3, <2>6 DEF Region, Writes, Passes
  <2>7. PlainHold'
    BY <2>6 DEF PlainHold
  <2>8. Harmful' /\ ram.fault.kind = "stuck" => Writes(mt', ram.fault.w) = 0
    BY <1>2, <2>6 DEF Harmful
  <2>9. Harmful' /\ ram.fault.kind \in {"alias", "couple"} =>
          Writes(mt', ram.fault.w) = 0 /\ Writes(mt', ram.fault.a) = 0
    BY <1>2, <2>6 DEF Harmful
  <2>10. StuckHold' /\ AliasHold' /\ CoupleHold'
    BY <1>2, <2>8, <2>9 DEF StuckHold, AliasHold, CoupleHold
  <2>. QED BY <2>3, <2>4, <2>5, <2>7, <2>10 DEF MemInvariant
<1>. QED BY <1>4, <1>5

(* The invariant holds at the beginning.                                   *)
LEMMA MemStarts ==
  ASSUME MemInit
  PROVE  MemInvariant
<1>1. PICK junk \in {0, Full - 1}, f \in Faults :
        /\ ram = [mem |-> [x \in Cells |-> junk], fault |-> f]
        /\ f.kind \in {"alias", "couple"} => f.a # f.w
  BY DEF MemInit, Full
<1>2. 0 \in Cells /\ 0 \in 0 .. RamBits - 1 /\ junk \in Int
  BY MemFacts DEF Cells
<1>3. f \in [kind : {"none", "stuck", "alias", "couple"}, a : Cells, w : Cells,
              b : 0 .. RamBits - 1, v : {0, 1}]
  BY <1>2 DEF Faults
<1>4. RamTyped /\ ram.fault = f
  BY <1>1, <1>2, <1>3 DEF RamTyped
<1>5. /\ mt.pc = "idle" /\ mt.ret = "none" /\ mt.start = 0 /\ mt.words = 0 /\ mt.offset = 0
      /\ mt.printed = 0 /\ TestTyped
  BY DEF MemInit, TestTyped
<1>6. InRegion /\ BarFits /\ Reported /\ ~Testing
  BY <1>5, MemFacts DEF InRegion, BarFits, Reported, Testing, Passes
<1>7. Untouched
  BY <1>1 DEF Untouched
<1>. QED BY <1>4, <1>5, <1>6, <1>7 DEF MemInvariant, PlainHold, StuckHold, AliasHold, CoupleHold

(* Each pass has done what it should up to where it is, and no word        *)
(* without a fault differs.                                                *)
THEOREM MemTestInvariant == MemSpec => []MemInvariant
<1>1. MemInit => MemInvariant
  BY MemStarts
<1>2. ASSUME MemInvariant, [MemNext]_memVars
      PROVE  MemInvariant'
  <2>1. CASE MemStart
    BY <1>2, <2>1, StartStep
  <2>2. CASE Fill
    BY <1>2, <2>2, FillStep
  <2>3. CASE Invert
    BY <1>2, <2>3, InvertStep
  <2>4. CASE Zero
    BY <1>2, <2>4, ZeroStep
  <2>5. CASE MemEnd
    BY <1>2, <2>5, EndStep
  <2>6. CASE UNCHANGED memVars
    <3>1. ram' = ram /\ mt' = mt
      BY <2>6 DEF memVars
    <3>2. Region' = Region /\ Testing' = Testing /\ Harmful' = Harmful /\ Disturbed' = Disturbed
          /\ \A x : Plain(x)' = Plain(x) /\ Cell(x)' = Cell(x) /\ BitSeen(x)' = BitSeen(x)
      BY <3>1 DEF Region, Testing, Harmful, Disturbed, Plain, Cell, BitSeen
    <3>3. RamTyped' /\ TestTyped' /\ InRegion' /\ BarFits' /\ Reported' /\ Untouched'
      BY <1>2, <3>1, <3>2 DEF MemInvariant, RamTyped, TestTyped, InRegion, BarFits, Reported, Untouched
    <3>4. PlainHold' /\ StuckHold' /\ AliasHold' /\ CoupleHold'
      BY <1>2, <3>1, <3>2 DEF MemInvariant, PlainHold, StuckHold, AliasHold, CoupleHold
    <3>. QED BY <3>3, <3>4 DEF MemInvariant
  <2>. QED BY <1>2, <2>1, <2>2, <2>3, <2>4, <2>5, <2>6 DEF MemNext
<1>. QED BY <1>1, <1>2, PTL DEF MemSpec

(* A test that passes tells of a region without a fault, zeroed; one that  *)
(* fails, of a fault, at a word that read differently; and outside the     *)
(* region nothing is written.                                              *)
THEOREM MemTestTellsTruth == MemSpec => []MemTestTruth
<1>1. ASSUME MemInvariant
      PROVE  MemTestTruth
  <2>1. ASSUME mt.ret = "0"
        PROVE  ~Harmful /\ (\A x \in Region : Read(x) = 0) /\ mt.printed = Hashes
    <3>1. Testing /\ mt.pc = "idle"
      BY <1>1, <2>1 DEF Testing, MemInvariant, InRegion
    <3>2. \A x : Writes(mt, x) = 3
      BY <3>1 DEF Writes, Passes
    <3>3. ~Harmful
      <4>1. SUFFICES ASSUME Harmful PROVE FALSE
        OBVIOUS
      <4>2. ram.fault.kind # "stuck" /\ ram.fault.kind # "couple"
        BY <1>1, <3>1, <3>2, <4>1 DEF MemInvariant, StuckHold, CoupleHold
      <4>3. ram.fault.kind = "alias" /\ ram.fault.a \in Cells /\ ram.fault.w \in Cells
            /\ ram.fault.a # ram.fault.w
        BY <1>1, <4>1, <4>2 DEF Harmful, MemInvariant, RamTyped
      <4>4. ram.fault.a < ram.fault.w \/ ram.fault.w < ram.fault.a
        BY <4>3 DEF Cells
      <4>. QED BY <1>1, <3>1, <3>2, <4>1, <4>3, <4>4 DEF MemInvariant, AliasHold
    <3>4. ASSUME NEW x \in Region
          PROVE  Read(x) = 0
      <4>1. Plain(x)
        BY <3>3 DEF Plain
      <4>2. ram.mem[Cell(x)] = ValueOf(mt, x, 3)
        BY <1>1, <3>1, <3>2, <4>1 DEF MemInvariant, PlainHold
      <4>. QED BY <1>1, <4>1, <4>2, PlainRead DEF ValueOf
    <3>. QED BY <1>1, <2>1, <3>3, <3>4 DEF MemInvariant, BarFits
  <2>. QED BY <1>1, <2>1 DEF MemTestTruth, MemInvariant, Reported, Untouched
<1>. QED BY <1>1, MemTestInvariant, PTL

-----------------------------------------------------------------------------
(* The SPI mode. *)

(* The wiring and the clock modes of the program: outputs are the pins     *)
(* whose direction bit is clear, as spi0.c sets them up, and sck rests low,*)
(* as the shadow that starts at zero leaves it.                            *)
Wiring == OutBit = 0 /\ Modes \subseteq {0, 1, 4, 5}

-----------------------------------------------------------------------------
(* The inductive invariant. *)

Spis == [mode : Modes, opaque : SUBSET SpiOutputs, pc : {"idle", "mosi", "lead", "trail"},
         word : Nat, bits : 0 .. NBits, val : Byte, did : {"none", "read", "write"},
         framed : {"unknown", "yes", "no"}]
Devices == [sel : BOOLEAN, active : BOOLEAN, n : 0 .. NBits - 1, reg : Byte, out : Byte,
            miso : {0, 1}, got : Byte, gave : Byte]
SpiTyped == /\ spi \in Spis /\ dev \in Devices
            /\ dat \subseteq SpiOutputs /\ dirout \subseteq Pins /\ busMode \in {"HiZ", "I2C", "SPI"}

(* The bits that are through; the first step of a transfer has yet to      *)
(* bring the value register in line with its shadow.                       *)
BitsDone == NBits - spi.bits
AtStart == spi.bits = NBits /\ spi.pc = IF cpha = 0 THEN "mosi" ELSE "lead"
ClockUp == IF cpha = 0 THEN spi.pc = "trail" ELSE spi.pc \in {"mosi", "trail"}

(* The pins of the bus are outputs since SPI was first chosen.             *)
PinsKnown ==
  /\ SpiOutputs \cap dirout = {} \/ (SpiOutputs \subseteq dirout /\ dat = {} /\ busMode # "SPI")
  /\ busMode = "SPI" => "miso" \in dirout
  /\ ~Idle => busMode = "SPI" /\ spi.bits > 0 /\ spi.did # "none"
  /\ spi.framed # "unknown" =>
       busMode = "SPI" /\ ("cs" \in dat <=> ((spi.framed = "yes") <=> Bit(spi.mode, CS_HIGH) = 1))
  /\ spi.framed # "unknown" \/ ~(Idle \/ AtStart) => dat = spi.opaque
  /\ "sck" \in dat <=> ClockUp
  /\ "sck" \in spi.opaque <=> ClockUp

(* The device sees the levels, and has sampled as many bits as were given. *)
DeviceFollows ==
  /\ dev.sel = Selected(dat, dirout) /\ dev.active = ActiveClock(dat, dirout)
  /\ dev.n = IF Idle \/ ~dev.sel THEN 0
             ELSE IF cpha = 0 /\ spi.pc = "trail" THEN (BitsDone + 1) % NBits ELSE BitsDone
  /\ dev.n = 0 => dev.reg = 0

(* What is left of the byte stands at the top of the word, its next bit on *)
(* mosi once that has been set.                                            *)
Sending ==
  ~Idle /\ spi.did = "write" =>
    /\ spi.word \div Pow2[WordBits - spi.bits] = spi.val % Pow2[spi.bits]
    /\ spi.word < Pow2[WordBits]
    /\ (spi.pc = "trail" \/ (cpha = 0 /\ spi.pc = "lead")) =>
         ("mosi" \in dat <=> BitOf(spi.val, spi.bits - 1) = 1)
    /\ spi.framed = "yes" =>
         IF cpha = 0 /\ spi.pc = "trail" /\ spi.bits = 1 THEN dev.got = spi.val
         ELSE dev.reg = spi.val \div Pow2[NBits - dev.n]

(* The word holds what the device has given of its byte, whose next bit it *)
(* shows.                                                                  *)
Given == IF cpha = 0 /\ spi.pc = "trail" /\ spi.bits = 1 THEN dev.gave ELSE dev.out
Receiving ==
  /\ spi.framed = "yes" /\ ~Idle /\ spi.did = "read" => spi.word = Given \div Pow2[spi.bits]
  /\ (spi.framed = "yes" /\ spi.pc \in {"mosi", "trail"}) \/ (dev.sel /\ cpha = 0) =>
       dev.miso = BitOf(Given, IF Idle THEN NBits - 1 ELSE spi.bits - 1)

SpiInvariant == /\ SpiTyped /\ PinsKnown /\ DeviceFollows /\ Sending /\ Receiving /\ SpiFrameExact
-----------------------------------------------------------------------------
(* The constants are numbers, and bytes fit into words.                    *)
LEMMA SpiFacts ==
  /\ NBits \in Nat \ {0} /\ WordBits \in Nat \ {0} /\ WordBits >= NBits
  /\ \A k \in Nat : Pow2[k] \in Nat \ {0}
  /\ 0 \in Byte /\ Byte \subseteq Nat
<1>1. NBits \in Nat \ {0} /\ WordBits \in Nat \ {0} /\ WordBits >= NBits
  BY WordAssumption
<1>2. \A k \in Nat : Pow2[k] \in Nat \ {0}
  BY Pow2Facts
<1>3. Pow2[NBits] \in Nat \ {0}
  BY <1>1, <1>2
<1>. QED BY <1>1, <1>2, <1>3 DEF Byte

(* The modes of the program leave the clock idle low.                      *)
LEMMA ClockModes ==
  ASSUME Wiring, SpiTyped
  PROVE  cpol = 0 /\ cpha \in {0, 1} /\ Bit(spi.mode, CS_HIGH) \in {0, 1}
<1>1. spi.mode \in {0, 1, 4, 5}
  BY DEF Wiring, SpiTyped, Spis
<1>. QED BY <1>1 DEF cpol, cpha, Bit, CPOL, CPHA, CS_HIGH

(* What the device may have become when the registers have changed. *)
Stays(x, y) == x.n = y.n /\ x.reg = y.reg /\ x.out = y.out /\ x.got = y.got /\ x.gave = y.gave
Shifted(y, d, dir) == (2 * y.reg + (IF High(d, dir, "mosi") THEN 1 ELSE 0)) % Pow2[NBits]
Begins(x) == x.n = 0 /\ x.reg = 0 /\ (cpha = 0 => x.miso = TopBit(x.out, 0))
TakesBit(x, y, d, dir) ==
  /\ x.miso = y.miso
  /\ IF y.n + 1 < NBits
     THEN x.n = y.n + 1 /\ x.reg = Shifted(y, d, dir) /\ x.out = y.out /\ x.got = y.got /\ x.gave = y.gave
     ELSE x.n = 0 /\ x.reg = 0 /\ x.got = Shifted(y, d, dir) /\ x.gave = y.out
ShowsBit(x, y) == Stays(x, y) /\ x.miso = TopBit(y.out, y.n)

(* What a device may be after the wires changed.                           *)
LEMMA SeesFacts ==
  ASSUME Wiring, SpiTyped, NEW d, NEW dir, NEW x \in Sees(d, dir)
  PROVE  /\ x \in Devices
         /\ x.sel = Selected(d, dir) /\ x.active = ActiveClock(d, dir)
         /\ Selected(d, dir) # dev.sel => Begins(x)
         /\ Selected(d, dir) = dev.sel /\ (~dev.sel \/ ActiveClock(d, dir) = dev.active)
              => Stays(x, dev) /\ x.miso = dev.miso
         /\ dev.sel /\ Selected(d, dir) /\ ActiveClock(d, dir) # dev.active =>
              IF ActiveClock(d, dir) = (cpha = 0) THEN TakesBit(x, dev, d, dir) ELSE ShowsBit(x, dev)
<1>. DEFINE sel == Selected(d, dir)
            act == ActiveClock(d, dir)
            reg == Shifted(dev, d, dir)
            lev == IF High(d, dir, "mosi") THEN 1 ELSE 0
<1>1. sel \in BOOLEAN /\ act \in BOOLEAN /\ dev \in Devices /\ lev \in {0, 1}
  BY DEF Selected, ActiveClock, SpiTyped
<1>2. \A o \in Byte : \A k \in 0 .. NBits - 1 : TopBit(o, k) \in {0, 1}
  <2>1. SUFFICES ASSUME NEW o \in Byte, NEW k \in 0 .. NBits - 1 PROVE TopBit(o, k) \in {0, 1}
    OBVIOUS
  <2>2. o \in Nat /\ NBits - 1 - k \in Nat
    BY SpiFacts
  <2>. QED BY <2>2, BitsAbove DEF TopBit
<1>3. reg \in Byte
  <2>1. dev.reg \in Nat /\ Pow2[NBits] \in Nat \ {0}
    BY <1>1, SpiFacts DEF Devices
  <2>. QED BY <1>1, <2>1 DEF Shifted, Byte
<1>4. 0 \in 0 .. NBits - 1 /\ NBits \in Nat
  BY SpiFacts
<1>. HIDE DEF sel, act, reg
<1>5. CASE sel # dev.sel
  <2>1. PICK o \in Byte : x = [dev EXCEPT !.sel = sel, !.active = act, !.n = 0, !.reg = 0, !.out = o,
                                !.miso = IF cpha = 0 THEN TopBit(o, 0) ELSE 1]
    BY <1>5 DEF Sees, sel, act
  <2>2. TopBit(o, 0) \in {0, 1}
    BY <1>2, <1>4
  <2>3. x \in Devices
    BY <1>1, <1>4, <2>1, <2>2, SpiFacts DEF Devices
  <2>4. x.sel = sel /\ x.active = act /\ Begins(x)
    BY <1>1, <2>1 DEF Devices, Begins
  <2>. QED BY <1>1, <1>5, <2>3, <2>4 DEF sel, act
<1>6. CASE sel = dev.sel /\ (~sel \/ act = dev.active)
  <2>1. x = [dev EXCEPT !.active = act]
    BY <1>6 DEF Sees, sel, act
  <2>2. x \in Devices /\ x.sel = sel /\ x.active = act /\ Stays(x, dev) /\ x.miso = dev.miso
    BY <1>1, <1>6, <2>1 DEF Devices, Stays
  <2>. QED BY <1>1, <1>6, <2>2 DEF sel, act
<1>7. CASE sel = dev.sel /\ sel /\ act # dev.active /\ act = (cpha = 0)
  <2>. DEFINE y == [dev EXCEPT !.active = act]
  <2>1. y \in Devices /\ y.reg = dev.reg /\ y.n = dev.n /\ y.sel = dev.sel /\ y.active = act /\ y.out = dev.out
        /\ y.miso = dev.miso /\ y.got = dev.got /\ y.gave = dev.gave
    BY <1>1 DEF Devices
  <2>2. x \in Samples(y, lev)
    BY <1>7 DEF Sees, sel, act
  <2>3. reg = (2 * y.reg + lev) % Pow2[NBits]
    BY <2>1 DEF reg, Shifted
  <2>. HIDE DEF y, lev
  <2>4. CASE dev.n + 1 < NBits
    <3>1. x = [y EXCEPT !.n = dev.n + 1, !.reg = reg]
      BY <2>1, <2>2, <2>3, <2>4 DEF Samples, Devices
    <3>2. dev.n + 1 \in 0 .. NBits - 1
      BY <1>1, <1>4, <2>4 DEF Devices
    <3>3. x \in Devices /\ x.sel = sel /\ x.active = act
      BY <1>3, <1>7, <2>1, <3>1, <3>2 DEF Devices
    <3>4. TakesBit(x, dev, d, dir)
      BY <2>1, <2>4, <3>1 DEF TakesBit, Devices, reg
    <3>. QED BY <1>1, <1>7, <3>3, <3>4 DEF sel, act
  <2>5. CASE ~(dev.n + 1 < NBits)
    <3>1. PICK o \in Byte : x = [y EXCEPT !.n = 0, !.reg = 0, !.got = reg, !.gave = y.out, !.out = o]
      BY <2>1, <2>2, <2>3, <2>5 DEF Samples
    <3>2. y.out \in Byte
      BY <2>1 DEF Devices
    <3>3. x \in Devices /\ x.sel = sel /\ x.active = act
      BY <1>3, <1>4, <1>7, <2>1, <3>1, <3>2, SpiFacts DEF Devices
    <3>4. TakesBit(x, dev, d, dir)
      BY <2>1, <2>5, <3>1 DEF TakesBit, Devices, reg
    <3>. QED BY <1>1, <1>7, <3>3, <3>4 DEF sel, act
  <2>. QED BY <2>4, <2>5
<1>8. CASE sel = dev.sel /\ sel /\ act # dev.active /\ act # (cpha = 0)
  <2>1. x = [[dev EXCEPT !.active = act] EXCEPT !.miso = TopBit(dev.out, dev.n)]
    BY <1>1, <1>8 DEF Sees, sel, act, Presents, Devices
  <2>2. TopBit(dev.out, dev.n) \in {0, 1}
    BY <1>1, <1>2 DEF Devices
  <2>3. x \in Devices /\ x.sel = sel /\ x.active = act /\ ShowsBit(x, dev)
    BY <1>1, <1>8, <2>1, <2>2 DEF Devices, ShowsBit, Stays
  <2>. QED BY <1>1, <1>8, <2>3 DEF sel, act
<1>. QED BY <1>1, <1>5, <1>6, <1>7, <1>8

-----------------------------------------------------------------------------
(* The arithmetic of the word that bits leave at the top and enter below.  *)

(* A byte moved to the top of the word. *)
LEMMA PlacedOnTop ==
  ASSUME NEW c \in Byte
  PROVE  LET w == (c * Pow2[WordBits - NBits]) % Pow2[WordBits]
         IN  /\ w \in Nat /\ w < Pow2[WordBits]
             /\ w \div Pow2[WordBits - NBits] = c % Pow2[NBits]
<1>. DEFINE P == Pow2[WordBits - NBits]
            N == Pow2[NBits]
            W == Pow2[WordBits]
<1>1. WordBits - NBits \in Nat /\ NBits \in Nat /\ WordBits \in Nat /\ (WordBits - NBits) + NBits = WordBits
  BY SpiFacts
<1>2. P \in Nat \ {0} /\ N \in Nat \ {0} /\ W = P * N
  BY <1>1, SpiFacts, Pow2Product
<1>3. c \in Nat /\ c <= N - 1
  BY <1>2, SpiFacts DEF Byte
<1>. HIDE DEF P, N, W
<1>4. c * P \in Nat /\ c * P < W
  <2>1. c * P <= (N - 1) * P
    BY <1>2, <1>3
  <2>2. (N - 1) * P = P * N - P
    BY <1>2
  <2>3. c * P \in Nat /\ W \in Nat /\ W = P * N /\ (N - 1) * P \in Int
    BY <1>2, <1>3
  <2>. HIDE DEF P, N, W
  <2>. QED BY <1>2, <2>1, <2>2, <2>3
<1>5. (c * P) % W = c * P
  <2>1. W \in Nat \ {0} /\ c * P \in 0 .. W - 1 /\ c * P = W * 0 + c * P
    BY <1>2, <1>4
  <2>. QED BY <1>4, <2>1, QuotientIs
<1>6. (c * P) \div P = c
  <2>1. 0 \in 0 .. P - 1 /\ c * P = P * c + 0
    BY <1>2, <1>3
  <2>. QED BY <1>2, <1>3, <1>4, <2>1, QuotientIs
<1>7. c % N = c
  <2>1. c \in 0 .. N - 1 /\ c = N * 0 + c
    BY <1>2, <1>3
  <2>. QED BY <1>2, <1>3, <2>1, QuotientIs
<1>. QED BY <1>4, <1>5, <1>6, <1>7 DEF P, N, W

(* The top bit is the next one of the byte, and what is left moves up.     *)
LEMMA MovedUp ==
  ASSUME NEW v \in Nat, NEW w \in Nat, NEW b \in 1 .. WordBits, NEW t \in {0, 1},
         w \div Pow2[WordBits - b] = v % Pow2[b]
  PROVE  /\ w \div Pow2[WordBits - 1] = BitOf(v, b - 1)
         /\ ((2 * w + t) % Pow2[WordBits]) \div Pow2[WordBits - (b - 1)] = v % Pow2[b - 1]
<1>. DEFINE s == WordBits - b
            P == Pow2[s]
            K == Pow2[b - 1]
            h == BitOf(v, b - 1)
            r == v % K
            low == w % P
            M == P * K
            Q == P * r
<1>1. WordBits \in Nat /\ s \in Nat /\ b - 1 \in Nat /\ (b - 1) + 1 = b /\ s + (b - 1) = WordBits - 1
      /\ (WordBits - 1) + 1 = WordBits /\ WordBits - 1 \in Nat /\ WordBits - (b - 1) = s + 1
  BY SpiFacts
<1>2. P \in Nat \ {0} /\ K \in Nat \ {0} /\ M \in Nat \ {0} /\ Pow2[s + 1] = 2 * P
  BY <1>1, Pow2Facts
<1>3. Pow2[WordBits - 1] = M /\ Pow2[WordBits] = 2 * M
  <2>1. Pow2[s + (b - 1)] = M
    BY <1>1, Pow2Product
  <2>2. Pow2[(WordBits - 1) + 1] = 2 * Pow2[WordBits - 1]
    BY <1>1, Pow2Facts
  <2>. QED BY <1>1, <2>1, <2>2
<1>4. h \in {0, 1} /\ r \in 0 .. K - 1 /\ v % Pow2[b] = h * K + r
  <2>1. v % Pow2[(b - 1) + 1] = h * K + r /\ r \in 0 .. K - 1
    BY <1>1, LowBits
  <2>2. h \in {0, 1}
    BY <1>1, BitsAbove
  <2>. QED BY <1>1, <2>1, <2>2
<1>5. low \in 0 .. P - 1 /\ w = P * (w \div P) + low
  BY <1>2, Quotient
<1>6. w \div P = h * K + r
  BY <1>4
<1>7. Q \in Nat /\ Q + low \in 0 .. M - 1
  <2>0. ASSUME NEW x \in Nat, NEW y \in Nat \ {0}, NEW z \in 0 .. y - 1
        PROVE  x * z \in Nat /\ x * z <= x * (y - 1) /\ x * (y - 1) = x * y - x
    OBVIOUS
  <2>1. Q \in Nat /\ Q <= P * (K - 1) /\ P * (K - 1) = M - P
    <3>. HIDE DEF P, K, r
    <3>. QED BY <1>2, <1>4, <2>0
  <2>. HIDE DEF P, K, h, r, low, M, Q
  <2>. QED BY <1>2, <1>5, <2>1
<1>8. w = M * h + (Q + low)
  <2>1. P * (h * K + r) = M * h + Q
    BY <1>2, <1>4
  <2>2. P * (h * K + r) \in Nat /\ M * h \in Nat
    BY <1>2, <1>4
  <2>. HIDE DEF P, K, h, r, low, M, Q
  <2>. QED BY <1>5, <1>6, <1>7, <2>1, <2>2
<1>. HIDE DEF P, K, h, r, low, M, Q
<1>9. w \div M = h
  BY <1>2, <1>4, <1>7, <1>8, QuotientIs
<1>10. 2 * w + t = (2 * M) * h + (2 * (Q + low) + t)
  <2>1. 2 * (M * h) = (2 * M) * h /\ M * h \in Nat
    BY <1>2, <1>4
  <2>. QED BY <1>5, <1>7, <1>8, <2>1
<1>11. 2 * (Q + low) + t \in 0 .. (2 * M) - 1 /\ 2 * (Q + low) + t \in Nat
  BY <1>2, <1>7
<1>12. (2 * w + t) % (2 * M) = 2 * (Q + low) + t
  <2>0. ASSUME NEW x \in Nat, NEW n \in Nat \ {0}, NEW q \in Nat, NEW z \in 0 .. n - 1, x = n * q + z
        PROVE  x % n = z
    BY <2>0, QuotientIs
  <2>1. 2 * w + t \in Nat /\ 2 * M \in Nat \ {0} /\ h \in Nat
    BY <1>2, <1>4
  <2>. QED BY <1>10, <1>11, <2>0, <2>1
<1>13. 2 * (Q + low) + t = (2 * P) * r + (2 * low + t)
  <2>1. 2 * Q = (2 * P) * r
    BY <1>2, <1>4 DEF Q
  <2>2. low \in Nat
    BY <1>5
  <2>. QED BY <1>7, <2>1, <2>2
<1>14. (2 * (Q + low) + t) \div (2 * P) = r
  <2>1. 2 * P \in Nat \ {0} /\ 2 * low + t \in 0 .. (2 * P) - 1 /\ r \in Nat
    BY <1>2, <1>4, <1>5
  <2>. QED BY <1>11, <1>13, <2>1, QuotientIs
<1>. QED BY <1>1, <1>2, <1>3, <1>9, <1>12, <1>14 DEF h, r, K

(* The bits of a byte above the k-th, and the k-th after them.             *)
LEMMA OneBitFurther ==
  ASSUME NEW c \in Byte, NEW k \in 1 .. NBits
  PROVE  /\ 2 * (c \div Pow2[k]) + BitOf(c, k - 1) = c \div Pow2[k - 1]
         /\ (c \div Pow2[k - 1]) % Pow2[NBits] = c \div Pow2[k - 1]
         /\ (c \div Pow2[k - 1]) % Pow2[WordBits] = c \div Pow2[k - 1]
         /\ c \div Pow2[k - 1] \in Byte /\ BitOf(c, k - 1) \in {0, 1}
<1>. DEFINE q == c \div Pow2[k - 1]
            N == Pow2[NBits]
            W == Pow2[WordBits]
<1>1. c \in Nat /\ k - 1 \in Nat /\ (k - 1) + 1 = k /\ NBits \in Nat /\ WordBits \in Nat /\ c < N
  BY SpiFacts DEF Byte
<1>2. q = 2 * (c \div Pow2[k]) + BitOf(c, k - 1) /\ q \in Nat /\ BitOf(c, k - 1) \in {0, 1}
  BY <1>1, BitsAbove
<1>3. Pow2[k - 1] \in Nat \ {0} /\ N \in Nat \ {0} /\ W \in Nat \ {0} /\ N <= W
  BY <1>1, Pow2Facts, Pow2Grows, SpiFacts
<1>4. q <= c
  BY <1>1, <1>3
<1>. HIDE DEF q, N, W
<1>5. q \in 0 .. N - 1 /\ q \in 0 .. W - 1 /\ q = N * 0 + q /\ q = W * 0 + q
  BY <1>1, <1>2, <1>3, <1>4
<1>6. q % N = q /\ q % W = q
  BY <1>2, <1>3, <1>5, QuotientIs
<1>. QED BY <1>2, <1>5, <1>6 DEF q, N, W, Byte

(* Above its top bit a byte has nothing, and below none all of it.         *)
LEMMA AllOrNothing ==
  ASSUME NEW c \in Byte
  PROVE  c \div Pow2[NBits] = 0 /\ c \div Pow2[0] = c /\ c % Pow2[NBits] = c
<1>1. c \in 0 .. Pow2[NBits] - 1 /\ Pow2[NBits] \in Nat \ {0} /\ Pow2[0] = 1 /\ c \in Nat
  BY SpiFacts, Pow2Facts DEF Byte
<1>2. c = Pow2[NBits] * 0 + c
  BY <1>1
<1>3. c \div Pow2[NBits] = 0 /\ c % Pow2[NBits] = c
  BY <1>1, <1>2, QuotientIs
<1>. QED BY <1>1, <1>3

-----------------------------------------------------------------------------
(* How the device follows a step. *)

(* The levels of the bus, when its pins are outputs.                       *)
LEMMA OutputLevels ==
  ASSUME Wiring, NEW d, NEW dir, SpiOutputs \cap dir = {}, NEW p \in SpiOutputs
  PROVE  High(d, dir, p) <=> p \in d
BY DEF Wiring, High, IsOutput

(* What is kept by every step: the mode, and what follows from it.         *)
SameMode == cpha' = cpha /\ cpol' = cpol /\ spi'.mode = spi.mode

Level == IF "mosi" \in dat' THEN 1 ELSE 0

(* A write of the shadow: the levels of the bus, and what the device makes *)
(* of them.                                                                *)
Reaction ==
  /\ dev \in Devices /\ dev' \in Devices
  /\ dev.sel = ("cs" \in dat <=> Bit(spi.mode, CS_HIGH) = 1)
  /\ dev'.sel = ("cs" \in dat' <=> Bit(spi.mode, CS_HIGH) = 1)
  /\ dev.active = ("sck" \in dat) /\ dev'.active = ("sck" \in dat')
  /\ dev'.sel # dev.sel => Begins(dev')
  /\ dev'.sel = dev.sel /\ (~dev.sel \/ dev'.active = dev.active) => Stays(dev', dev) /\ dev'.miso = dev.miso
  /\ dev.sel /\ dev'.sel /\ dev'.active # dev.active =>
       IF dev'.active = (cpha = 0) THEN TakesBit(dev', dev, dat', dirout') ELSE ShowsBit(dev', dev)

(* What set_opaque() does to pins, latches and the device.                 *)
LEMMA SetPinFacts ==
  ASSUME Wiring, SpiInvariant, busMode = "SPI", NEW p \in SpiOutputs, NEW on \in BOOLEAN,
         NEW next \in Spis, next.mode = spi.mode, SetPin(p, on, next)
  PROVE  /\ spi' = [next EXCEPT !.opaque = dat'] /\ spi' \in Spis
         /\ dat' = IF on THEN spi.opaque \cup {p} ELSE spi.opaque \ {p}
         /\ dirout' = dirout /\ busMode' = busMode /\ SpiOutputs \cap dirout = {} /\ "miso" \in dirout
         /\ SpiTyped' /\ SameMode /\ cpol = 0 /\ cpha \in {0, 1} /\ Reaction
         /\ dev'.sel = Selected(dat, dirout)' /\ dev'.active = ActiveClock(dat, dirout)'
<1>1. /\ spi \in Spis /\ dev \in Devices /\ dat \subseteq SpiOutputs /\ dirout \subseteq Pins
      /\ SpiOutputs \cap dirout = {} /\ "miso" \in dirout
      /\ dev.sel = Selected(dat, dirout) /\ dev.active = ActiveClock(dat, dirout)
  BY DEF SpiInvariant, SpiTyped, PinsKnown, DeviceFollows
<1>2. cpol = 0 /\ cpha \in {0, 1}
  BY ClockModes DEF SpiInvariant
<1>3. dat' = (IF on THEN spi.opaque \cup {p} ELSE spi.opaque \ {p}) /\ dirout' = dirout /\ busMode' = busMode
      /\ spi' = [next EXCEPT !.opaque = dat'] /\ dev' \in Sees(dat', dirout')
  BY DEF SetPin
<1>4. dat' \subseteq SpiOutputs
  BY <1>1, <1>3 DEF Spis
<1>5. spi' \in Spis /\ spi'.mode = spi.mode
  BY <1>3, <1>4 DEF Spis
<1>6. SameMode
  BY <1>5 DEF SameMode, cpha, cpol
<1>7. /\ dev' \in Devices
      /\ dev'.sel = Selected(dat', dirout') /\ dev'.active = ActiveClock(dat', dirout')
      /\ Selected(dat', dirout') # dev.sel => Begins(dev')
      /\ Selected(dat', dirout') = dev.sel /\ (~dev.sel \/ ActiveClock(dat', dirout') = dev.active)
           => Stays(dev', dev) /\ dev'.miso = dev.miso
      /\ dev.sel /\ Selected(dat', dirout') /\ ActiveClock(dat', dirout') # dev.active =>
           IF ActiveClock(dat', dirout') = (cpha = 0) THEN TakesBit(dev', dev, dat', dirout') ELSE ShowsBit(dev', dev)
  BY <1>3, SeesFacts DEF SpiInvariant
<1>8. dev'.sel = Selected(dat, dirout)' /\ dev'.active = ActiveClock(dat, dirout)'
  BY <1>5, <1>6, <1>7 DEF Selected, ActiveClock, SameMode
<1>9. /\ Selected(dat, dirout) = ("cs" \in dat <=> Bit(spi.mode, CS_HIGH) = 1)
      /\ Selected(dat', dirout') = ("cs" \in dat' <=> Bit(spi.mode, CS_HIGH) = 1)
      /\ ActiveClock(dat, dirout) = ("sck" \in dat) /\ ActiveClock(dat', dirout') = ("sck" \in dat')
  <2>1. "cs" \in SpiOutputs /\ "sck" \in SpiOutputs /\ SpiOutputs \cap dirout' = {}
    BY <1>1, <1>3 DEF SpiOutputs
  <2>2. /\ High(dat, dirout, "cs") <=> "cs" \in dat
        /\ High(dat', dirout', "cs") <=> "cs" \in dat'
        /\ High(dat, dirout, "sck") <=> "sck" \in dat
        /\ High(dat', dirout', "sck") <=> "sck" \in dat'
    BY <1>1, <2>1, OutputLevels
  <2>. QED BY <1>2, <2>2 DEF Selected, ActiveClock
<1>10. Reaction
  BY <1>1, <1>7, <1>9 DEF Reaction
<1>11. SpiTyped'
  BY <1>1, <1>3, <1>4, <1>5, <1>7 DEF SpiTyped, SpiInvariant
<1>. QED BY <1>1, <1>2, <1>3, <1>5, <1>6, <1>8, <1>10, <1>11

(* The bit the device takes is the level of mosi. *)
LEMMA TakenBit ==
  ASSUME Wiring, SpiOutputs \cap dirout' = {}, NEW x, NEW y, TakesBit(x, y, dat', dirout')
  PROVE  /\ x.miso = y.miso
         /\ IF y.n + 1 < NBits
            THEN x.n = y.n + 1 /\ x.reg = (2 * y.reg + Level) % Pow2[NBits]
                 /\ x.out = y.out /\ x.got = y.got /\ x.gave = y.gave
            ELSE x.n = 0 /\ x.reg = 0 /\ x.got = (2 * y.reg + Level) % Pow2[NBits] /\ x.gave = y.out
<1>1. High(dat', dirout', "mosi") <=> "mosi" \in dat'
  BY OutputLevels DEF SpiOutputs
<1>. QED BY <1>1 DEF TakesBit, Shifted, Level

-----------------------------------------------------------------------------
(* The steps of the mode. *)

(* Chip select keeps the invariant.                                        *)
LEMMA SetCsStep ==
  ASSUME Wiring, SpiInvariant, NEW en \in BOOLEAN, SetCs(en)
  PROVE  SpiInvariant'
<1>. DEFINE next == [spi EXCEPT !.framed = IF en THEN "yes" ELSE "no", !.did = "none"]
            on == (Bit(spi.mode, CS_HIGH) = 1) <=> en
<1>1. spi \in Spis /\ Idle /\ busMode = "SPI" /\ SetPin("cs", on, next) /\ on \in BOOLEAN /\ "cs" \in SpiOutputs
  BY DEF SetCs, SpiInvariant, SpiTyped, SpiOutputs
<1>2. next \in Spis /\ next.mode = spi.mode
  BY <1>1 DEF Spis
<1>. HIDE DEF next, on
<1>3. /\ spi' = [next EXCEPT !.opaque = dat'] /\ spi' \in Spis
      /\ dat' = (IF on THEN spi.opaque \cup {"cs"} ELSE spi.opaque \ {"cs"})
      /\ dirout' = dirout /\ busMode' = busMode /\ SpiOutputs \cap dirout = {} /\ "miso" \in dirout
      /\ SpiTyped' /\ SameMode /\ cpol = 0 /\ cpha \in {0, 1} /\ Reaction
      /\ dev'.sel = Selected(dat, dirout)' /\ dev'.active = ActiveClock(dat, dirout)'
  BY <1>1, <1>2, SetPinFacts
<1>4. /\ spi'.opaque = dat' /\ spi'.pc = "idle" /\ spi'.did = "none"
      /\ spi'.framed = (IF en THEN "yes" ELSE "no")
  BY <1>1, <1>2, <1>3 DEF Spis, next, Idle
<1>5. ~ClockUp /\ ~ClockUp'
  BY <1>1, <1>4, <1>3 DEF ClockUp, Idle, SameMode
<1>6. "sck" \notin spi.opaque /\ "sck" \notin dat /\ "sck" \notin dat'
  BY <1>3, <1>5 DEF SpiInvariant, PinsKnown
<1>7. PinsKnown'
  <2>1. "cs" \in dat' <=> on
    BY <1>3
  <2>2. "cs" \in dat' <=> (en <=> Bit(spi'.mode, CS_HIGH) = 1)
    BY <2>1, <1>3 DEF on, SameMode
  <2>. QED BY <1>1, <1>3, <1>4, <1>5, <1>6, <2>2 DEF PinsKnown, Idle
<1>8. dev.n = 0 /\ dev.reg = 0
  BY <1>1 DEF SpiInvariant, DeviceFollows
<1>9. dev'.n = 0 /\ dev'.reg = 0 /\ (dev'.sel = dev.sel => Stays(dev', dev) /\ dev'.miso = dev.miso)
  BY <1>3, <1>6, <1>8 DEF Reaction, Begins, Stays
<1>10. DeviceFollows'
  BY <1>3, <1>4, <1>9 DEF DeviceFollows, Idle
<1>11. en <=> dev'.sel
  BY <1>3 DEF Reaction, on
<1>12. Receiving'
  <2>1. Given' = dev'.out
    BY <1>4 DEF Given
  <2>2. CASE dev'.sel # dev.sel
    <3>1. cpha = 0 => dev'.miso = BitOf(dev'.out, NBits - 1)
      BY <2>2, <1>3, SpiFacts DEF Reaction, Begins, TopBit
    <3>. QED BY <1>3, <1>4, <2>1, <3>1 DEF Receiving, Idle, SameMode
  <2>3. CASE dev'.sel = dev.sel
    <3>1. Given = dev.out /\ dev'.out = dev.out /\ dev'.miso = dev.miso
      BY <1>1, <1>9, <2>3 DEF Given, Idle, Stays
    <3>2. dev.sel /\ cpha = 0 => dev.miso = BitOf(dev.out, NBits - 1)
      BY <1>1, <3>1 DEF SpiInvariant, Receiving
    <3>. QED BY <1>3, <1>4, <2>1, <2>3, <3>1, <3>2 DEF Receiving, Idle, SameMode
  <2>. QED BY <2>2, <2>3
<1>13. Sending' /\ SpiFrameExact'
  BY <1>4, <1>9, <1>11 DEF Sending, SpiFrameExact, Idle
<1>. QED BY <1>3, <1>7, <1>10, <1>12, <1>13 DEF SpiInvariant

(* The begin of a transfer keeps it.                                       *)
LEMMA TransferStep ==
  ASSUME Wiring, SpiInvariant, NEW c \in Byte, NEW kind \in {"read", "write"}, kind = "read" => c = 0,
         Transfer(c, kind)
  PROVE  SpiInvariant'
<1>1. spi \in Spis /\ dev \in Devices /\ Idle /\ busMode = "SPI" /\ cpha \in {0, 1}
  BY ClockModes DEF Transfer, SpiInvariant, SpiTyped
<1>2. /\ dat' = dat /\ dirout' = dirout /\ busMode' = busMode /\ dev' = dev
      /\ spi' = [spi EXCEPT !.word = (c * Pow2[WordBits - NBits]) % Pow2[WordBits],
                        !.bits = NBits, !.val = c, !.did = kind,
                        !.pc = IF cpha = 0 THEN "mosi" ELSE "lead"]
  BY DEF Transfer, gpioVars
<1>. DEFINE w == (c * Pow2[WordBits - NBits]) % Pow2[WordBits]
<1>3. w \in Nat /\ w < Pow2[WordBits] /\ w \div Pow2[WordBits - NBits] = c % Pow2[NBits]
  BY PlacedOnTop
<1>4. spi'.word = w /\ spi'.bits = NBits /\ spi'.val = c /\ spi'.did = kind
      /\ spi'.pc = (IF cpha = 0 THEN "mosi" ELSE "lead")
      /\ spi'.mode = spi.mode /\ spi'.opaque = spi.opaque /\ spi'.framed = spi.framed
  BY <1>1, <1>2 DEF Spis
<1>. HIDE DEF w
<1>5. NBits \in Nat \ {0} /\ NBits \in 0 .. NBits
  BY SpiFacts
<1>6. spi' \in Spis
  <2>1. spi' = [spi EXCEPT !.word = w, !.bits = NBits, !.val = c, !.did = kind,
                           !.pc = IF cpha = 0 THEN "mosi" ELSE "lead"]
    BY <1>2 DEF w
  <2>. QED BY <1>1, <1>3, <1>5, <2>1 DEF Spis
<1>7. SameMode /\ ~Idle' /\ ~ClockUp /\ ~ClockUp' /\ AtStart'
  BY <1>1, <1>4 DEF SameMode, cpha, cpol, Idle, ClockUp, AtStart
<1>8. SpiTyped'
  BY <1>2, <1>6 DEF SpiInvariant, SpiTyped
<1>9. PinsKnown'
  BY <1>1, <1>2, <1>4, <1>5, <1>7 DEF SpiInvariant, PinsKnown
<1>10. dev.n = 0 /\ dev.reg = 0 /\ (spi.framed = "yes" => dev.sel)
  BY <1>1 DEF SpiInvariant, DeviceFollows, SpiFrameExact
<1>11. DeviceFollows'
  <2>1. Selected(dat, dirout)' = Selected(dat, dirout) /\ ActiveClock(dat, dirout)' = ActiveClock(dat, dirout)
    BY <1>2, <1>4, <1>7 DEF Selected, ActiveClock, SameMode
  <2>2. BitsDone' = 0
    BY <1>4, <1>5 DEF BitsDone
  <2>3. spi'.pc # "trail"
    BY <1>4
  <2>. QED BY <1>2, <1>10, <2>1, <2>2, <2>3 DEF SpiInvariant, DeviceFollows
<1>12. Sending'
  <2>1. kind = "write" => (spi'.framed = "yes" => dev'.reg = spi'.val \div Pow2[NBits - dev'.n])
    <3>1. NBits - dev'.n = NBits
      BY <1>2, <1>5, <1>10
    <3>. QED BY <1>2, <1>4, <1>10, <3>1, AllOrNothing
  <2>. QED BY <1>1, <1>3, <1>4, <1>7, <2>1 DEF Sending, SameMode
<1>13. Receiving'
  <2>1. Given = dev.out /\ Given' = dev.out
    BY <1>1, <1>2, <1>4 DEF Given, Idle
  <2>2. (spi.framed = "yes" /\ spi'.pc = "mosi") \/ (dev.sel /\ cpha = 0) => dev.miso = BitOf(dev.out, NBits - 1)
    BY <1>1, <1>4, <1>10, <2>1 DEF SpiInvariant, Receiving
  <2>3. kind = "read" => w = dev.out \div Pow2[NBits]
    <3>1. dev.out \in Byte
      BY <1>1 DEF Devices
    <3>2. kind = "read" => w = 0
      <4>1. WordBits - NBits \in Nat /\ WordBits \in Nat
        BY SpiFacts
      <4>2. Pow2[WordBits - NBits] \in Nat /\ Pow2[WordBits] \in Nat \ {0}
        BY <4>1, Pow2Facts
      <4>. QED BY <4>2 DEF w
    <3>. QED BY <3>1, <3>2, AllOrNothing
  <2>. QED BY <1>1, <1>2, <1>4, <1>7, <2>1, <2>2, <2>3 DEF Receiving, SameMode
<1>14. SpiFrameExact'
  BY <1>7 DEF SpiFrameExact
<1>. QED BY <1>8, <1>9, <1>11, <1>12, <1>13, <1>14 DEF SpiInvariant

(* A pin changes in the middle of a transfer: what the pins then are, and  *)
(* when the device may find itself selected or dropped.                    *)
LEMMA Midway ==
  ASSUME Wiring, SpiInvariant, ~Idle, NEW p \in {"sck", "mosi"}, NEW on \in BOOLEAN,
         NEW next \in Spis, next.mode = spi.mode, SetPin(p, on, next), next.framed = spi.framed
  PROVE  /\ spi \in Spis /\ dev \in Devices /\ spi' = [next EXCEPT !.opaque = dat'] /\ spi' \in Spis
         /\ dat' = IF on THEN spi.opaque \cup {p} ELSE spi.opaque \ {p}
         /\ dirout' = dirout /\ busMode' = busMode /\ busMode = "SPI" /\ SpiOutputs \cap dirout = {} /\ "miso" \in dirout
         /\ SpiTyped' /\ SameMode /\ cpol = 0 /\ cpha \in {0, 1} /\ Reaction
         /\ dev'.sel = Selected(dat, dirout)' /\ dev'.active = ActiveClock(dat, dirout)'
         /\ spi.bits \in 1 .. NBits /\ spi.did # "none" /\ spi'.opaque = dat'
         /\ dev'.sel # dev.sel => spi.framed = "unknown" /\ AtStart
         /\ spi.framed = "yes" => dev.sel /\ dev'.sel
         /\ spi.framed # "unknown" =>
              ("cs" \in dat' <=> ((spi.framed = "yes") <=> Bit(spi.mode, CS_HIGH) = 1))
         /\ spi.framed # "unknown" \/ ~AtStart => dat = spi.opaque
<1>1. busMode = "SPI" /\ spi.bits > 0 /\ spi.did # "none" /\ spi \in Spis /\ dev \in Devices /\ p \in SpiOutputs
  BY DEF SpiInvariant, SpiTyped, PinsKnown, SpiOutputs
<1>2. /\ spi' = [next EXCEPT !.opaque = dat'] /\ spi' \in Spis
      /\ dat' = IF on THEN spi.opaque \cup {p} ELSE spi.opaque \ {p}
      /\ dirout' = dirout /\ busMode' = busMode /\ SpiOutputs \cap dirout = {} /\ "miso" \in dirout
      /\ SpiTyped' /\ SameMode /\ cpol = 0 /\ cpha \in {0, 1} /\ Reaction
      /\ dev'.sel = Selected(dat, dirout)' /\ dev'.active = ActiveClock(dat, dirout)'
  BY <1>1, SetPinFacts
<1>3. spi.bits \in 1 .. NBits /\ spi'.opaque = dat'
  BY <1>1, <1>2, SpiFacts DEF Spis
<1>4. spi.framed # "unknown" \/ ~AtStart => dat = spi.opaque
  BY DEF SpiInvariant, PinsKnown
<1>5. "cs" \in dat' <=> "cs" \in spi.opaque
  BY <1>2
<1>6. dev'.sel # dev.sel => spi.framed = "unknown" /\ AtStart
  BY <1>2, <1>4, <1>5 DEF Reaction
<1>7. spi.framed # "unknown" => ("cs" \in dat <=> ((spi.framed = "yes") <=> Bit(spi.mode, CS_HIGH) = 1))
  BY DEF SpiInvariant, PinsKnown
<1>8. spi.framed = "yes" => dev.sel /\ dev'.sel
  BY <1>2, <1>6, <1>7 DEF Reaction
<1>. QED BY <1>1, <1>2, <1>3, <1>4, <1>5, <1>6, <1>7, <1>8

(* The bit put on MOSI keeps it.                                           *)
LEMMA SetMosiStep ==
  ASSUME Wiring, SpiInvariant, SetMosi
  PROVE  SpiInvariant'
<1>. DEFINE next == [spi EXCEPT !.pc = IF cpha = 0 THEN "lead" ELSE "trail"]
            on == spi.word \div Pow2[WordBits - 1] = 1
<1>1. spi \in Spis /\ ~Idle /\ spi.pc = "mosi" /\ SetPin("mosi", on, next) /\ on \in BOOLEAN
  BY DEF SetMosi, SpiInvariant, SpiTyped, Idle
<1>2. next \in Spis /\ next.mode = spi.mode /\ next.framed = spi.framed
  BY <1>1 DEF Spis
<1>. HIDE DEF next, on
<1>3. /\ spi \in Spis /\ dev \in Devices /\ spi' = [next EXCEPT !.opaque = dat'] /\ spi' \in Spis
      /\ dat' = IF on THEN spi.opaque \cup {"mosi"} ELSE spi.opaque \ {"mosi"}
      /\ dirout' = dirout /\ busMode' = busMode /\ busMode = "SPI" /\ SpiOutputs \cap dirout = {} /\ "miso" \in dirout
      /\ SpiTyped' /\ SameMode /\ cpol = 0 /\ cpha \in {0, 1} /\ Reaction
      /\ dev'.sel = Selected(dat, dirout)' /\ dev'.active = ActiveClock(dat, dirout)'
      /\ spi.bits \in 1 .. NBits /\ spi.did # "none" /\ spi'.opaque = dat'
      /\ dev'.sel # dev.sel => spi.framed = "unknown" /\ AtStart
      /\ spi.framed = "yes" => dev.sel /\ dev'.sel
      /\ spi.framed # "unknown" =>
           ("cs" \in dat' <=> ((spi.framed = "yes") <=> Bit(spi.mode, CS_HIGH) = 1))
      /\ spi.framed # "unknown" \/ ~AtStart => dat = spi.opaque
  BY <1>1, <1>2, Midway
<1>4. /\ spi'.pc = (IF cpha = 0 THEN "lead" ELSE "trail") /\ spi'.word = spi.word /\ spi'.bits = spi.bits
      /\ spi'.val = spi.val /\ spi'.did = spi.did /\ spi'.framed = spi.framed
  BY <1>3 DEF Spis, next
<1>5. ~Idle' /\ (ClockUp <=> cpha = 1) /\ (ClockUp' <=> cpha = 1)
  BY <1>1, <1>3, <1>4 DEF Idle, ClockUp, SameMode
<1>6. ("sck" \in dat <=> cpha = 1) /\ ("sck" \in dat' <=> cpha = 1) /\ dev'.active = dev.active
  BY <1>3, <1>5 DEF SpiInvariant, PinsKnown, Reaction
<1>7. PinsKnown'
  BY <1>3, <1>4, <1>5, <1>6 DEF PinsKnown, SameMode
<1>8. dev'.sel = dev.sel => Stays(dev', dev) /\ dev'.miso = dev.miso
  BY <1>3, <1>6 DEF Reaction
<1>9. dev'.sel # dev.sel => Begins(dev') /\ spi.bits = NBits /\ spi.framed # "yes"
  BY <1>3 DEF Reaction, AtStart
<1>10. dev.n = (IF dev.sel THEN NBits - spi.bits ELSE 0) /\ (dev.n = 0 => dev.reg = 0)
  BY <1>1 DEF SpiInvariant, DeviceFollows, BitsDone
<1>11. DeviceFollows'
  <2>1. dev'.n = (IF dev'.sel THEN NBits - spi.bits ELSE 0) /\ (dev'.n = 0 => dev'.reg = 0)
    <3>1. CASE dev'.sel = dev.sel
      BY <3>1, <1>8, <1>10 DEF Stays
    <3>2. CASE dev'.sel # dev.sel
      BY <3>2, <1>9, SpiFacts DEF Begins
    <3>. QED BY <3>1, <3>2
  <2>. QED BY <1>3, <1>4, <1>5, <2>1 DEF DeviceFollows, BitsDone, SameMode
<1>12. Sending'
  <2>. SUFFICES ASSUME spi.did = "write" PROVE Sending'
    BY <1>4 DEF Sending
  <2>1. spi.word \div Pow2[WordBits - spi.bits] = spi.val % Pow2[spi.bits] /\ spi.word < Pow2[WordBits]
    BY <1>1 DEF SpiInvariant, Sending
  <2>2. on <=> BitOf(spi.val, spi.bits - 1) = 1
    <3>1. spi.val \in Nat /\ spi.word \in Nat /\ spi.bits \in 1 .. WordBits /\ 0 \in {0, 1}
      BY <1>3, SpiFacts DEF Spis
    <3>2. spi.word \div Pow2[WordBits - 1] = BitOf(spi.val, spi.bits - 1)
      BY <2>1, <3>1, MovedUp
    <3>. QED BY <3>2 DEF on
  <2>3. "mosi" \in dat' <=> BitOf(spi.val, spi.bits - 1) = 1
    BY <1>3, <2>2
  <2>4. spi.framed = "yes" => dev'.reg = spi.val \div Pow2[NBits - dev'.n]
    <3>1. spi.framed = "yes" => dev.reg = spi.val \div Pow2[NBits - dev.n]
      BY <1>1 DEF SpiInvariant, Sending
    <3>. QED BY <1>3, <1>8, <3>1 DEF Stays
  <2>. QED BY <1>3, <1>4, <2>1, <2>3, <2>4 DEF Sending, SameMode
<1>13. Receiving'
  <2>1. Given = dev.out /\ Given' = dev'.out
    BY <1>1, <1>3, <1>4 DEF Given, SameMode
  <2>2. CASE dev'.sel # dev.sel
    <3>1. cpha = 0 => dev'.miso = BitOf(dev'.out, spi.bits - 1)
      BY <2>2, <1>9, SpiFacts DEF Begins, TopBit
    <3>. QED BY <1>3, <1>4, <1>5, <1>9, <2>1, <2>2, <3>1 DEF Receiving, SameMode
  <2>3. CASE dev'.sel = dev.sel
    <3>1. dev'.out = dev.out /\ dev'.miso = dev.miso
      BY <2>3, <1>8 DEF Stays
    <3>. QED BY <1>1, <1>3, <1>4, <1>5, <2>1, <2>3, <3>1 DEF SpiInvariant, Receiving, SameMode
  <2>. QED BY <2>2, <2>3
<1>14. SpiFrameExact'
  BY <1>5 DEF SpiFrameExact
<1>. QED BY <1>3, <1>7, <1>11, <1>12, <1>13, <1>14 DEF SpiInvariant

(* The device takes the bit that was put on mosi. *)
LEMMA BitArrives ==
  ASSUME Wiring, SpiInvariant, ~Idle, spi.did = "write", spi.framed = "yes",
         spi.bits \in 1 .. NBits, dev.n = NBits - spi.bits,
         IF cpha = 0 THEN spi.pc = "lead" ELSE spi.pc = "trail",
         "mosi" \in dat' <=> "mosi" \in dat
  PROVE  (2 * dev.reg + Level) % Pow2[NBits] = spi.val \div Pow2[spi.bits - 1]
<1>1. cpha \in {0, 1} /\ spi.val \in Byte
  BY ClockModes DEF SpiInvariant, SpiTyped, Spis
<1>2. "mosi" \in dat <=> BitOf(spi.val, spi.bits - 1) = 1
  BY <1>1 DEF SpiInvariant, Sending
<1>3. dev.reg = spi.val \div Pow2[spi.bits]
  <2>1. NBits - dev.n = spi.bits
    BY SpiFacts
  <2>. QED BY <1>1, <2>1 DEF SpiInvariant, Sending
<1>4. /\ 2 * (spi.val \div Pow2[spi.bits]) + BitOf(spi.val, spi.bits - 1) = spi.val \div Pow2[spi.bits - 1]
      /\ (spi.val \div Pow2[spi.bits - 1]) % Pow2[NBits] = spi.val \div Pow2[spi.bits - 1]
      /\ BitOf(spi.val, spi.bits - 1) \in {0, 1}
  BY <1>1, OneBitFurther
<1>5. Level = BitOf(spi.val, spi.bits - 1)
  BY <1>2, <1>4 DEF Level
<1>. QED BY <1>3, <1>4, <1>5

(* The leading edge keeps it.                                              *)
LEMMA LeadingEdgeStep ==
  ASSUME Wiring, SpiInvariant, LeadingEdge
  PROVE  SpiInvariant'
<1>. DEFINE next == [spi EXCEPT !.pc = IF cpha = 0 THEN "trail" ELSE "mosi"]
<1>0. cpol = 0 /\ NBits \in Nat \ {0}
  BY ClockModes, SpiFacts DEF SpiInvariant
<1>1. spi \in Spis /\ ~Idle /\ spi.pc = "lead" /\ SetPin("sck", TRUE, next)
  BY <1>0 DEF LeadingEdge, SpiInvariant, SpiTyped, Idle
<1>2. next \in Spis /\ next.mode = spi.mode /\ next.framed = spi.framed
  BY <1>1 DEF Spis
<1>. HIDE DEF next
<1>3. /\ spi \in Spis /\ dev \in Devices /\ spi' = [next EXCEPT !.opaque = dat'] /\ spi' \in Spis
      /\ dat' = spi.opaque \cup {"sck"}
      /\ dirout' = dirout /\ busMode' = busMode /\ busMode = "SPI" /\ SpiOutputs \cap dirout = {} /\ "miso" \in dirout
      /\ SpiTyped' /\ SameMode /\ cpol = 0 /\ cpha \in {0, 1} /\ Reaction
      /\ dev'.sel = Selected(dat, dirout)' /\ dev'.active = ActiveClock(dat, dirout)'
      /\ spi.bits \in 1 .. NBits /\ spi.did # "none" /\ spi'.opaque = dat'
      /\ dev'.sel # dev.sel => spi.framed = "unknown" /\ AtStart
      /\ spi.framed = "yes" => dev.sel /\ dev'.sel
      /\ spi.framed # "unknown" =>
           ("cs" \in dat' <=> ((spi.framed = "yes") <=> Bit(spi.mode, CS_HIGH) = 1))
      /\ spi.framed # "unknown" \/ ~AtStart => dat = spi.opaque
  BY <1>1, <1>2, Midway
<1>4. /\ spi'.pc = (IF cpha = 0 THEN "trail" ELSE "mosi") /\ spi'.word = spi.word /\ spi'.bits = spi.bits
      /\ spi'.val = spi.val /\ spi'.did = spi.did /\ spi'.framed = spi.framed
  BY <1>3 DEF Spis, next
<1>5. ~Idle' /\ ~ClockUp /\ ClockUp'
  BY <1>1, <1>3, <1>4 DEF Idle, ClockUp, SameMode
<1>6. "sck" \notin dat /\ "sck" \in dat' /\ ~dev.active /\ dev'.active
  BY <1>3, <1>5 DEF SpiInvariant, PinsKnown, Reaction
<1>7. PinsKnown'
  BY <1>3, <1>4, <1>5, <1>6 DEF PinsKnown, SameMode
<1>8. dev'.sel = dev.sel /\ ~dev.sel => Stays(dev', dev) /\ dev'.miso = dev.miso
  BY <1>3, <1>6 DEF Reaction
<1>9. dev'.sel # dev.sel => Begins(dev') /\ spi.bits = NBits /\ spi.framed # "yes" /\ cpha = 1
  BY <1>1, <1>3 DEF Reaction, AtStart
<1>10. dev.n = (IF dev.sel THEN NBits - spi.bits ELSE 0) /\ (dev.n = 0 => dev.reg = 0)
  BY <1>1 DEF SpiInvariant, DeviceFollows, BitsDone
<1>11. Sending' <=> (spi.did = "write" => /\ cpha = 0 => ("mosi" \in dat' <=> BitOf(spi.val, spi.bits - 1) = 1)
                                          /\ spi.framed = "yes" =>
                                               IF cpha = 0 /\ spi.bits = 1 THEN dev'.got = spi.val
                                               ELSE dev'.reg = spi.val \div Pow2[NBits - dev'.n])
  <2>1. spi.did = "write" => /\ spi.word \div Pow2[WordBits - spi.bits] = spi.val % Pow2[spi.bits]
                             /\ spi.word < Pow2[WordBits]
    BY <1>1 DEF SpiInvariant, Sending
  <2>. QED BY <1>3, <1>4, <1>5, <2>1 DEF Sending, SameMode
<1>12. "mosi" \in dat' <=> "mosi" \in spi.opaque
  BY <1>3
<1>13. SpiFrameExact'
  BY <1>5 DEF SpiFrameExact
<1>14. CASE cpha = 0
  <2>1. ~AtStart /\ dat = spi.opaque /\ dev'.sel = dev.sel /\ spi'.pc = "trail" /\ ("mosi" \in dat' <=> "mosi" \in dat)
    BY <1>1, <1>3, <1>4, <1>12, <1>14 DEF AtStart
  <2>2. dev.sel => TakesBit(dev', dev, dat', dirout')
    BY <1>3, <1>6, <1>14, <2>1 DEF Reaction
  <2>3. dev.sel => /\ dev'.miso = dev.miso
                   /\ IF dev.n + 1 < NBits
                      THEN dev'.n = dev.n + 1 /\ dev'.reg = (2 * dev.reg + Level) % Pow2[NBits]
                           /\ dev'.out = dev.out /\ dev'.got = dev.got /\ dev'.gave = dev.gave
                      ELSE dev'.n = 0 /\ dev'.reg = 0 /\ dev'.got = (2 * dev.reg + Level) % Pow2[NBits]
                           /\ dev'.gave = dev.out
    BY <1>3, <2>2, TakenBit
  <2>4. DeviceFollows'
    <3>1. dev'.n = (IF dev'.sel THEN ((NBits - spi.bits) + 1) % NBits ELSE 0) /\ (dev'.n = 0 => dev'.reg = 0)
      <4>1. CASE ~dev.sel
        BY <4>1, <1>8, <1>10, <2>1 DEF Stays
      <4>2. CASE dev.sel /\ spi.bits = 1
        <5>1. ((NBits - spi.bits) + 1) % NBits = 0
          BY <4>2, <1>0
        <5>2. ~(dev.n + 1 < NBits)
          BY <4>2, <1>0, <1>10
        <5>. QED BY <4>2, <2>1, <2>3, <5>1, <5>2
      <4>3. CASE dev.sel /\ spi.bits # 1
        <5>1. (NBits - spi.bits) + 1 \in 1 .. NBits - 1
          BY <4>3, <1>0, <1>3
        <5>2. ((NBits - spi.bits) + 1) % NBits = (NBits - spi.bits) + 1
          BY <5>1, <1>0
        <5>3. dev.n + 1 < NBits /\ dev.n + 1 = (NBits - spi.bits) + 1 /\ dev.n + 1 # 0
          BY <4>3, <1>0, <1>10, <5>1
        <5>. QED BY <4>3, <2>1, <2>3, <5>2, <5>3
      <4>. QED BY <4>1, <4>2, <4>3
    <3>. QED BY <1>3, <1>4, <1>5, <1>14, <2>1, <3>1 DEF DeviceFollows, BitsDone, SameMode
  <2>5. Sending'
    <3>. SUFFICES ASSUME spi.did = "write" PROVE Sending'
      BY <1>11
    <3>1. "mosi" \in dat' <=> BitOf(spi.val, spi.bits - 1) = 1
      BY <1>1, <1>14, <2>1 DEF SpiInvariant, Sending
    <3>2. ASSUME spi.framed = "yes"
          PROVE  IF spi.bits = 1 THEN dev'.got = spi.val ELSE dev'.reg = spi.val \div Pow2[NBits - dev'.n]
      <4>1. dev.sel /\ dev.n = NBits - spi.bits
        BY <1>3, <1>10, <3>2
      <4>2. (2 * dev.reg + Level) % Pow2[NBits] = spi.val \div Pow2[spi.bits - 1]
        BY <1>1, <1>3, <1>14, <2>1, <3>2, <4>1, BitArrives
      <4>3. CASE spi.bits = 1
        <5>1. ~(dev.n + 1 < NBits) /\ spi.bits - 1 = 0 /\ spi.val \in Byte
          BY <1>0, <1>3, <4>1, <4>3 DEF Spis
        <5>2. spi.val \div Pow2[0] = spi.val
          BY <5>1, AllOrNothing
        <5>. QED BY <2>3, <4>1, <4>2, <4>3, <5>1, <5>2
      <4>4. CASE spi.bits # 1
        <5>1. dev.n + 1 < NBits /\ NBits - (dev.n + 1) = spi.bits - 1
          BY <1>0, <1>3, <4>1, <4>4
        <5>. QED BY <2>3, <4>1, <4>2, <4>4, <5>1
      <4>. QED BY <4>3, <4>4
    <3>. QED BY <1>11, <1>14, <3>1, <3>2
  <2>6. Receiving'
    <3>1. dev.sel => Given' = dev.out /\ dev'.miso = dev.miso
      <4>1. spi.bits = 1 => ~(dev.n + 1 < NBits) \/ ~dev.sel
        BY <1>0, <1>10
      <4>2. dev.sel /\ spi.bits # 1 => dev.n + 1 < NBits
        BY <1>0, <1>3, <1>10
      <4>. QED BY <1>3, <1>4, <1>14, <2>1, <2>3, <4>1, <4>2 DEF Given, SameMode
    <3>2. Given = dev.out
      BY <1>1 DEF Given
    <3>. QED BY <1>1, <1>3, <1>4, <1>5, <1>14, <2>1, <3>1, <3>2 DEF SpiInvariant, Receiving, SameMode
  <2>. QED BY <1>3, <1>7, <1>13, <2>4, <2>5, <2>6 DEF SpiInvariant
<1>15. CASE cpha = 1
  <2>1. spi'.pc = "mosi"
    BY <1>4, <1>15
  <2>2. dev.sel /\ dev'.sel => Stays(dev', dev) /\ dev'.miso = BitOf(dev.out, spi.bits - 1)
    <3>1. dev.sel /\ dev'.sel => ShowsBit(dev', dev)
      BY <1>3, <1>6, <1>15 DEF Reaction
    <3>2. dev.sel => NBits - 1 - dev.n = spi.bits - 1
      BY <1>0, <1>3, <1>10
    <3>. QED BY <3>1, <3>2 DEF ShowsBit, TopBit
  <2>3. DeviceFollows'
    <3>1. dev'.n = (IF dev'.sel THEN NBits - spi.bits ELSE 0) /\ (dev'.n = 0 => dev'.reg = 0)
      <4>1. CASE dev'.sel = dev.sel
        BY <4>1, <1>8, <1>10, <2>2 DEF Stays
      <4>2. CASE dev'.sel # dev.sel
        BY <4>2, <1>0, <1>9 DEF Begins
      <4>. QED BY <4>1, <4>2
    <3>. QED BY <1>3, <1>4, <1>5, <1>15, <3>1 DEF DeviceFollows, BitsDone, SameMode
  <2>4. Sending'
    <3>1. spi.did = "write" /\ spi.framed = "yes" => dev'.reg = spi.val \div Pow2[NBits - dev'.n]
      <4>1. spi.did = "write" /\ spi.framed = "yes" => dev.reg = spi.val \div Pow2[NBits - dev.n]
        BY <1>1 DEF SpiInvariant, Sending
      <4>. QED BY <1>3, <2>2, <4>1 DEF Stays
    <3>. QED BY <1>11, <1>15, <3>1
  <2>5. Receiving'
    <3>1. Given = dev.out /\ Given' = dev'.out
      BY <1>1, <1>3, <1>15, <2>1 DEF Given, SameMode
    <3>. QED BY <1>1, <1>3, <1>4, <1>5, <1>15, <2>2, <3>1 DEF SpiInvariant, Receiving, Stays, SameMode
  <2>. QED BY <1>3, <1>7, <1>13, <2>3, <2>4, <2>5 DEF SpiInvariant
<1>. QED BY <1>3, <1>14, <1>15

(* What the word becomes when a bit is shifted in. *)
LEMMA ShiftInFacts ==
  ASSUME SpiTyped, ~Idle, spi.bits \in 1 .. NBits, NEW bit \in {0, 1}
  PROVE  /\ ShiftIn(bit) \in Spis /\ ShiftIn(bit).mode = spi.mode /\ ShiftIn(bit).framed = spi.framed
         /\ ShiftIn(bit).did = spi.did /\ ShiftIn(bit).bits = spi.bits - 1
         /\ spi.bits > 1 => /\ ShiftIn(bit).word = (2 * spi.word + bit) % Pow2[WordBits]
                            /\ ShiftIn(bit).val = spi.val
                            /\ ShiftIn(bit).pc = IF cpha = 0 THEN "mosi" ELSE "lead"
         /\ spi.bits = 1 => /\ ShiftIn(bit).pc = "idle"
                            /\ ShiftIn(bit).val =
                                 IF spi.did = "read" THEN ((2 * spi.word + bit) % Pow2[WordBits]) % Pow2[NBits]
                                 ELSE spi.val
<1>. DEFINE word == (2 * spi.word + bit) % Pow2[WordBits]
            low == word % Pow2[NBits]
<1>1. spi \in Spis
  BY DEF SpiTyped
<1>2. word \in Nat /\ low \in Byte
  <2>1. 2 * spi.word + bit \in Nat
    BY <1>1 DEF Spis
  <2>2. Pow2[WordBits] \in Nat \ {0} /\ Pow2[NBits] \in Nat \ {0}
    BY SpiFacts
  <2>3. word \in Nat
    BY <2>1, <2>2
  <2>. QED BY <2>2, <2>3 DEF Byte
<1>3. ShiftIn(bit) = [spi EXCEPT !.word = IF spi.bits > 1 THEN word ELSE 0, !.bits = spi.bits - 1,
                 !.val = IF ~(spi.bits > 1) /\ spi.did = "read" THEN low ELSE spi.val,
                 !.pc = IF ~(spi.bits > 1) THEN "idle" ELSE IF cpha = 0 THEN "mosi" ELSE "lead"]
  BY <1>1 DEF ShiftIn, Spis
<1>4. spi.bits - 1 \in 0 .. NBits /\ (~(spi.bits > 1) <=> spi.bits = 1)
  BY SpiFacts
<1>. HIDE DEF word, low
<1>5. ShiftIn(bit) \in Spis
  <2>. DEFINE ww == IF spi.bits > 1 THEN word ELSE 0
              vv == IF ~(spi.bits > 1) /\ spi.did = "read" THEN low ELSE spi.val
              pp == IF ~(spi.bits > 1) THEN "idle" ELSE IF cpha = 0 THEN "mosi" ELSE "lead"
  <2>1. ww \in Nat /\ vv \in Byte /\ pp \in {"idle", "mosi", "lead"}
    BY <1>1, <1>2 DEF Spis
  <2>2. ShiftIn(bit) = [spi EXCEPT !.word = ww, !.bits = spi.bits - 1, !.val = vv, !.pc = pp]
    BY <1>3
  <2>. HIDE DEF ww, vv, pp
  <2>. QED BY <1>1, <1>4, <2>1, <2>2 DEF Spis
<1>6. /\ ShiftIn(bit).mode = spi.mode /\ ShiftIn(bit).framed = spi.framed
      /\ ShiftIn(bit).did = spi.did /\ ShiftIn(bit).bits = spi.bits - 1
      /\ spi.bits > 1 => /\ ShiftIn(bit).word = word
                         /\ ShiftIn(bit).val = spi.val
                         /\ ShiftIn(bit).pc = IF cpha = 0 THEN "mosi" ELSE "lead"
      /\ spi.bits = 1 => /\ ShiftIn(bit).pc = "idle"
                         /\ ShiftIn(bit).val = IF spi.did = "read" THEN low ELSE spi.val
  BY <1>1, <1>3, <1>4 DEF Spis
<1>. QED BY <1>5, <1>6 DEF word, low

(* The word holds one bit more of what is given, or less of what is sent. *)
LEMMA WordMoves ==
  ASSUME Wiring, SpiInvariant, ~Idle, spi.bits \in 1 .. NBits, NEW bit \in {0, 1}
  PROVE  /\ spi.did = "write" =>
              /\ ((2 * spi.word + bit) % Pow2[WordBits]) \div Pow2[WordBits - (spi.bits - 1)]
                   = spi.val % Pow2[spi.bits - 1]
              /\ (2 * spi.word + bit) % Pow2[WordBits] < Pow2[WordBits]
         /\ spi.framed = "yes" /\ spi.did = "read" /\ bit = BitOf(Given, spi.bits - 1) =>
              /\ (2 * spi.word + bit) % Pow2[WordBits] = Given \div Pow2[spi.bits - 1]
              /\ spi.bits = 1 => ((2 * spi.word + bit) % Pow2[WordBits]) % Pow2[NBits] = Given
<1>1. spi \in Spis /\ dev \in Devices /\ spi.word \in Nat /\ spi.val \in Nat /\ spi.bits \in 1 .. WordBits
  <2>1. spi \in Spis /\ dev \in Devices
    BY DEF SpiInvariant, SpiTyped
  <2>2. spi.word \in Nat /\ spi.val \in Byte
    BY <2>1 DEF Spis
  <2>3. spi.bits \in 1 .. WordBits
    BY WordAssumption
  <2>4. spi.val \in Nat
    BY <2>2, SpiFacts
  <2>. QED BY <2>1, <2>2, <2>3, <2>4
<1>2. Given \in Byte
  BY <1>1 DEF Given, Devices
<1>3. ASSUME spi.did = "write"
      PROVE  /\ ((2 * spi.word + bit) % Pow2[WordBits]) \div Pow2[WordBits - (spi.bits - 1)]
                  = spi.val % Pow2[spi.bits - 1]
             /\ (2 * spi.word + bit) % Pow2[WordBits] < Pow2[WordBits]
  <2>1. spi.word \div Pow2[WordBits - spi.bits] = spi.val % Pow2[spi.bits]
    BY <1>3 DEF SpiInvariant, Sending
  <2>2. 2 * spi.word + bit \in Nat /\ Pow2[WordBits] \in Nat \ {0}
    BY <1>1, SpiFacts
  <2>3. (2 * spi.word + bit) % Pow2[WordBits] < Pow2[WordBits]
    BY <2>2
  <2>. QED BY <1>1, <2>1, <2>3, MovedUp
<1>4. ASSUME spi.framed = "yes", spi.did = "read", bit = BitOf(Given, spi.bits - 1)
      PROVE  /\ (2 * spi.word + bit) % Pow2[WordBits] = Given \div Pow2[spi.bits - 1]
             /\ spi.bits = 1 => ((2 * spi.word + bit) % Pow2[WordBits]) % Pow2[NBits] = Given
  <2>1. spi.word = Given \div Pow2[spi.bits]
    BY <1>4 DEF SpiInvariant, Receiving
  <2>2. /\ 2 * (Given \div Pow2[spi.bits]) + BitOf(Given, spi.bits - 1) = Given \div Pow2[spi.bits - 1]
        /\ (Given \div Pow2[spi.bits - 1]) % Pow2[NBits] = Given \div Pow2[spi.bits - 1]
        /\ (Given \div Pow2[spi.bits - 1]) % Pow2[WordBits] = Given \div Pow2[spi.bits - 1]
    BY <1>2, OneBitFurther
  <2>3. spi.bits = 1 => spi.bits - 1 = 0 /\ Given \div Pow2[0] = Given
    BY <1>2, AllOrNothing
  <2>. QED BY <1>4, <2>1, <2>2, <2>3
<1>. QED BY <1>3, <1>4

(* The trailing edge keeps it.                                             *)
LEMMA TrailingEdgeStep ==
  ASSUME Wiring, SpiInvariant, TrailingEdge
  PROVE  SpiInvariant'
<1>0. cpol = 0 /\ NBits \in Nat \ {0} /\ spi \in Spis /\ ~Idle /\ spi.pc = "trail" /\ spi.bits \in 1 .. NBits
  <2>1. spi \in Spis /\ spi.pc = "trail" /\ ~Idle
    <3>1. spi.pc = "trail"
      BY DEF TrailingEdge
    <3>. QED BY <3>1 DEF SpiInvariant, SpiTyped, Idle
  <2>2. spi.bits \in 0 .. NBits /\ spi.bits > 0
    BY <2>1 DEF SpiInvariant, PinsKnown, Spis
  <2>. QED BY <2>1, <2>2, ClockModes, SpiFacts DEF SpiInvariant
<1>1. PICK bit \in {0, 1} : /\ SetPin("sck", FALSE, ShiftIn(bit))
                            /\ bit \in Miso(IF cpha = 0 THEN dev ELSE dev')
  <2>1. (cpol = 1) = FALSE
    BY <1>0
  <2>. QED BY <2>1, Zenon DEF TrailingEdge
<1>. DEFINE next == ShiftIn(bit)
            word == (2 * spi.word + bit) % Pow2[WordBits]
            low == word % Pow2[NBits]
<1>2. /\ next \in Spis /\ next.mode = spi.mode /\ next.framed = spi.framed
      /\ next.did = spi.did /\ next.bits = spi.bits - 1
      /\ spi.bits > 1 => next.word = word /\ next.val = spi.val /\ next.pc = IF cpha = 0 THEN "mosi" ELSE "lead"
      /\ spi.bits = 1 => next.pc = "idle" /\ next.val = IF spi.did = "read" THEN low ELSE spi.val
  BY <1>0, ShiftInFacts DEF SpiInvariant
<1>3. /\ spi.did = "write" => word \div Pow2[WordBits - (spi.bits - 1)] = spi.val % Pow2[spi.bits - 1]
                              /\ word < Pow2[WordBits]
      /\ spi.framed = "yes" /\ spi.did = "read" /\ bit = BitOf(Given, spi.bits - 1) =>
           word = Given \div Pow2[spi.bits - 1] /\ (spi.bits = 1 => low = Given)
  BY <1>0, WordMoves
<1>4. SetPin("sck", FALSE, next)
  BY <1>1
<1>. HIDE DEF next, word, low
<1>5. /\ spi \in Spis /\ dev \in Devices /\ spi' = [next EXCEPT !.opaque = dat'] /\ spi' \in Spis
      /\ dat' = spi.opaque \ {"sck"}
      /\ dirout' = dirout /\ busMode' = busMode /\ busMode = "SPI" /\ SpiOutputs \cap dirout = {} /\ "miso" \in dirout
      /\ SpiTyped' /\ SameMode /\ cpol = 0 /\ cpha \in {0, 1} /\ Reaction
      /\ dev'.sel = Selected(dat, dirout)' /\ dev'.active = ActiveClock(dat, dirout)'
      /\ spi.bits \in 1 .. NBits /\ spi.did # "none" /\ spi'.opaque = dat'
      /\ dev'.sel # dev.sel => spi.framed = "unknown" /\ AtStart
      /\ spi.framed = "yes" => dev.sel /\ dev'.sel
      /\ spi.framed # "unknown" =>
           ("cs" \in dat' <=> ((spi.framed = "yes") <=> Bit(spi.mode, CS_HIGH) = 1))
      /\ spi.framed # "unknown" \/ ~AtStart => dat = spi.opaque
  <2>1. FALSE \in BOOLEAN /\ "sck" \in {"sck", "mosi"}
    OBVIOUS
  <2>. QED BY <1>0, <1>2, <1>4, <2>1, Midway
<1>6. /\ spi'.did = spi.did /\ spi'.bits = spi.bits - 1 /\ spi'.framed = spi.framed
      /\ spi.bits > 1 => spi'.word = word /\ spi'.val = spi.val /\ spi'.pc = IF cpha = 0 THEN "mosi" ELSE "lead"
      /\ spi.bits = 1 => spi'.pc = "idle" /\ spi'.val = IF spi.did = "read" THEN low ELSE spi.val
  BY <1>2, <1>5 DEF Spis
<1>7. ClockUp /\ ~ClockUp' /\ (Idle' <=> spi.bits = 1)
  BY <1>0, <1>5, <1>6 DEF Idle, ClockUp, SameMode
<1>8. "sck" \in dat /\ "sck" \notin dat' /\ dev.active /\ ~dev'.active
  BY <1>5, <1>7 DEF SpiInvariant, PinsKnown, Reaction
<1>9. PinsKnown'
  <2>1. spi.bits # 1 => spi'.bits > 0
    BY <1>0, <1>6
  <2>. QED BY <1>5, <1>6, <1>7, <1>8, <2>1 DEF PinsKnown, SameMode
<1>10. ~AtStart /\ dat = spi.opaque /\ dev'.sel = dev.sel /\ ("mosi" \in dat' <=> "mosi" \in dat)
  BY <1>0, <1>5 DEF AtStart
<1>11. ~dev.sel => Stays(dev', dev) /\ dev'.miso = dev.miso
  BY <1>5, <1>10 DEF Reaction
<1>12. dev.n = (IF dev.sel THEN IF cpha = 0 THEN ((NBits - spi.bits) + 1) % NBits ELSE NBits - spi.bits ELSE 0)
       /\ (dev.n = 0 => dev.reg = 0)
  BY <1>0 DEF SpiInvariant, DeviceFollows, BitsDone
<1>13. ((NBits - spi.bits) + 1) % NBits = IF spi.bits = 1 THEN 0 ELSE (NBits - spi.bits) + 1
  <2>1. CASE spi.bits = 1
    BY <2>1, <1>0
  <2>2. CASE spi.bits # 1
    <3>1. (NBits - spi.bits) + 1 \in 1 .. NBits - 1
      BY <2>2, <1>0
    <3>. QED BY <2>2, <3>1, <1>0
  <2>. QED BY <2>1, <2>2
<1>14. NBits - (spi.bits - 1) = (NBits - spi.bits) + 1
  BY <1>0
(* Both ways the device has now taken the bit and given its own. *)
<1>15. dev'.n = (IF dev'.sel /\ spi.bits # 1 THEN (NBits - spi.bits) + 1 ELSE 0) /\ (dev'.n = 0 => dev'.reg = 0)
       /\ (spi.framed = "yes" /\ spi.did = "write" =>
             IF spi.bits = 1 THEN dev'.got = spi.val ELSE dev'.reg = spi.val \div Pow2[NBits - dev'.n])
       /\ (spi.framed = "yes" /\ spi.did = "read" =>
             (IF spi.bits = 1 THEN dev'.gave ELSE dev'.out) = Given)
       /\ (spi.framed = "yes" => bit = BitOf(Given, spi.bits - 1))
       /\ (dev'.sel /\ cpha = 0 =>
             dev'.miso = BitOf(dev'.out, IF spi.bits = 1 THEN NBits - 1 ELSE (spi.bits - 1) - 1))
  <2>1. ASSUME NEW x, x.sel, bit \in Miso(x)
        PROVE  bit = x.miso
    BY <1>5, <2>1 DEF Miso, IsOutput, Wiring
  <2>2. CASE cpha = 0
    <3>1. dev.sel => Stays(dev', dev) /\ dev'.miso = TopBit(dev.out, dev.n)
      BY <1>5, <1>8, <1>10, <2>2 DEF Reaction, ShowsBit
    <3>2. dev'.n = dev.n /\ dev'.reg = dev.reg /\ dev'.out = dev.out /\ dev'.got = dev.got /\ dev'.gave = dev.gave
      BY <1>11, <3>1 DEF Stays
    <3>3. dev'.n = (IF dev'.sel /\ spi.bits # 1 THEN (NBits - spi.bits) + 1 ELSE 0) /\ (dev'.n = 0 => dev'.reg = 0)
      BY <1>10, <1>12, <1>13, <2>2, <3>2
    <3>4. spi.framed = "yes" /\ spi.did = "write" =>
             IF spi.bits = 1 THEN dev'.got = spi.val ELSE dev'.reg = spi.val \div Pow2[NBits - dev'.n]
      BY <1>0, <2>2, <3>2 DEF SpiInvariant, Sending
    <3>5. (IF spi.bits = 1 THEN dev'.gave ELSE dev'.out) = Given
      BY <1>0, <2>2, <3>2 DEF Given
    <3>6. spi.framed = "yes" => bit = BitOf(Given, spi.bits - 1)
      <4>1. spi.framed = "yes" => bit = dev.miso
        BY <1>1, <1>5, <2>1, <2>2
      <4>. QED BY <1>0, <2>2, <4>1 DEF SpiInvariant, Receiving
    <3>7. dev'.sel => dev'.miso = BitOf(dev'.out, IF spi.bits = 1 THEN NBits - 1 ELSE (spi.bits - 1) - 1)
      <4>1. dev'.sel => dev.n = IF spi.bits = 1 THEN 0 ELSE (NBits - spi.bits) + 1
        BY <1>10, <1>12, <1>13, <2>2
      <4>2. dev'.sel => NBits - 1 - dev.n = IF spi.bits = 1 THEN NBits - 1 ELSE (spi.bits - 1) - 1
        BY <1>0, <4>1
      <4>. QED BY <1>10, <3>1, <3>2, <4>2 DEF TopBit
    <3>. QED BY <3>3, <3>4, <3>5, <3>6, <3>7
  <2>3. CASE cpha = 1
    <3>1. dev.sel => TakesBit(dev', dev, dat', dirout')
      BY <1>5, <1>8, <1>10, <2>3 DEF Reaction
    <3>2. dev.sel => /\ dev'.miso = dev.miso
                     /\ IF dev.n + 1 < NBits
                        THEN dev'.n = dev.n + 1 /\ dev'.reg = (2 * dev.reg + Level) % Pow2[NBits]
                             /\ dev'.out = dev.out /\ dev'.got = dev.got /\ dev'.gave = dev.gave
                        ELSE dev'.n = 0 /\ dev'.reg = 0 /\ dev'.got = (2 * dev.reg + Level) % Pow2[NBits]
                             /\ dev'.gave = dev.out
      BY <1>5, <3>1, TakenBit
    <3>3. dev.sel => dev.n = NBits - spi.bits /\ (dev.n + 1 < NBits <=> spi.bits # 1) /\ dev.n + 1 = (NBits - spi.bits) + 1
      BY <1>0, <1>12, <2>3
    <3>4. dev'.n = (IF dev'.sel /\ spi.bits # 1 THEN (NBits - spi.bits) + 1 ELSE 0) /\ (dev'.n = 0 => dev'.reg = 0)
      <4>1. CASE ~dev.sel
        BY <4>1, <1>10, <1>11, <1>12 DEF Stays
      <4>2. CASE dev.sel
        BY <4>2, <1>0, <1>10, <3>2, <3>3
      <4>. QED BY <4>1, <4>2
    <3>5. ASSUME spi.framed = "yes", spi.did = "write"
          PROVE  IF spi.bits = 1 THEN dev'.got = spi.val ELSE dev'.reg = spi.val \div Pow2[NBits - dev'.n]
      <4>1. (2 * dev.reg + Level) % Pow2[NBits] = spi.val \div Pow2[spi.bits - 1]
        BY <1>0, <1>5, <1>10, <2>3, <3>3, <3>5, BitArrives
      <4>2. CASE spi.bits = 1
        <5>1. spi.bits - 1 = 0 /\ spi.val \div Pow2[0] = spi.val
          BY <1>0, <4>2, AllOrNothing DEF Spis
        <5>. QED BY <1>5, <3>2, <3>3, <3>5, <4>1, <4>2, <5>1
      <4>3. CASE spi.bits # 1
        <5>1. dev'.n = (NBits - spi.bits) + 1 /\ NBits - dev'.n = spi.bits - 1
          BY <1>0, <1>5, <3>4, <3>5, <4>3
        <5>. QED BY <1>5, <3>2, <3>3, <3>5, <4>1, <4>3, <5>1
      <4>. QED BY <4>2, <4>3
    <3>6. dev.sel => (IF spi.bits = 1 THEN dev'.gave ELSE dev'.out) = Given
      BY <2>3, <3>2, <3>3 DEF Given
    <3>7. spi.framed = "yes" => bit = BitOf(Given, spi.bits - 1)
      <4>1. spi.framed = "yes" => bit = dev'.miso /\ dev'.miso = dev.miso
        BY <1>1, <1>5, <2>1, <2>3, <3>2
      <4>. QED BY <1>0, <4>1 DEF SpiInvariant, Receiving
    <3>. QED BY <1>5, <2>3, <3>4, <3>5, <3>6, <3>7
  <2>. QED BY <1>5, <2>2, <2>3
<1>16. DeviceFollows'
  <2>1. spi'.pc # "trail"
    BY <1>0, <1>6
  <2>2. ~Idle' => BitsDone' = (NBits - spi.bits) + 1
    BY <1>6, <1>14 DEF BitsDone
  <2>. QED BY <1>5, <1>7, <1>15, <2>1, <2>2 DEF DeviceFollows
<1>17. Sending'
  BY <1>0, <1>3, <1>5, <1>6, <1>7, <1>15 DEF Sending, SameMode
<1>18. Receiving'
  <2>1. Given' = dev'.out
    BY <1>0, <1>6 DEF Given
  <2>2. ~(spi'.pc \in {"mosi", "trail"} /\ cpha # 0)
    BY <1>0, <1>6
  <2>. QED BY <1>0, <1>3, <1>5, <1>6, <1>7, <1>15, <2>1, <2>2 DEF Receiving, SameMode
<1>19. SpiFrameExact'
  <2>1. ASSUME Idle', spi.framed = "yes"
        PROVE  /\ dev'.sel /\ dev'.n = 0
               /\ spi.did = "write" => dev'.got = spi'.val
               /\ spi.did = "read" => dev'.gave = spi'.val
    BY <1>3, <1>5, <1>6, <1>7, <1>15, <2>1
  <2>2. ASSUME spi.framed = "no" PROVE ~dev'.sel
    BY <1>5, <2>2 DEF Reaction
  <2>. QED BY <1>5, <1>6, <1>7, <1>15, <2>1, <2>2 DEF SpiFrameExact
<1>. QED BY <1>5, <1>9, <1>16, <1>17, <1>18, <1>19 DEF SpiInvariant

(* A step that is not part of a transfer, after which the pins are what    *)
(* they were or outputs at last: the device sees other levels of cs, and   *)
(* no clock that it would count.                                           *)
Stayed == \/ SpiOutputs \cap dirout = {} /\ SpiOutputs \cap dirout' = {}
          \/ SpiOutputs \subseteq dirout /\ SpiOutputs \subseteq dirout' /\ dat' = {} /\ busMode' # "SPI"
Turned == SpiOutputs \subseteq dirout /\ SpiOutputs \cap dirout' = {} /\ dat = {} /\ dat' = {}

(* A step between transfers that leaves the latches low keeps it.          *)
LEMMA Elsewhere ==
  ASSUME Wiring, SpiInvariant, Idle, SpiTyped', SameMode, Idle', spi'.framed = "unknown",
         dev' \in Sees(dat', dirout'), Stayed \/ Turned, busMode' = "SPI" => "miso" \in dirout',
         "sck" \notin dat', "sck" \notin spi'.opaque
  PROVE  SpiInvariant'
<1>1. cpol = 0 /\ cpha \in {0, 1} /\ dev \in Devices /\ dev' \in Devices /\ OutBit = 0
  BY ClockModes DEF SpiInvariant, SpiTyped, Wiring
<1>2. /\ dev'.sel = Selected(dat', dirout') /\ dev'.active = ActiveClock(dat', dirout')
      /\ Selected(dat', dirout') # dev.sel => Begins(dev')
      /\ Selected(dat', dirout') = dev.sel /\ (~dev.sel \/ ActiveClock(dat', dirout') = dev.active)
           => Stays(dev', dev) /\ dev'.miso = dev.miso
  BY SeesFacts DEF SpiInvariant
<1>3. dev.sel = Selected(dat, dirout) /\ dev.active = ActiveClock(dat, dirout) /\ dev.n = 0 /\ dev.reg = 0
  BY DEF SpiInvariant, DeviceFollows
<1>4. ~ClockUp' /\ "sck" \notin dat
  BY DEF ClockUp, Idle, SpiInvariant, PinsKnown
<1>5. "sck" \in SpiOutputs /\ "cs" \in SpiOutputs
  BY DEF SpiOutputs
<1>6. dev'.sel # dev.sel => Begins(dev')
  BY <1>2
<1>7. dev'.sel = dev.sel => Stays(dev', dev) /\ dev'.miso = dev.miso
  <2>1. CASE Stayed
    <3>1. High(dat, dirout, "sck") <=> High(dat', dirout', "sck")
      BY <1>1, <1>4, <1>5, <2>1 DEF High, IsOutput, Stayed
    <3>2. dev'.active = dev.active
      BY <1>2, <1>3, <3>1 DEF ActiveClock
    <3>. QED BY <1>2, <3>2
  <2>2. CASE Turned
    <3>1. High(dat, dirout, "cs") /\ ~High(dat', dirout', "cs")
      BY <1>1, <1>5, <2>2 DEF High, IsOutput, Turned
    <3>. QED BY <1>2, <1>3, <3>1 DEF Selected
  <2>. QED BY <2>1, <2>2
<1>8. dev'.n = 0 /\ dev'.reg = 0
  BY <1>3, <1>6, <1>7 DEF Begins, Stays
<1>9. PinsKnown'
  BY <1>4 DEF PinsKnown, Stayed, Turned
<1>10. DeviceFollows'
  <2>1. dev'.sel = Selected(dat, dirout)' /\ dev'.active = ActiveClock(dat, dirout)'
    BY <1>2 DEF Selected, ActiveClock, SameMode
  <2>. QED BY <1>8, <2>1 DEF DeviceFollows
<1>11. Receiving'
  <2>1. Given = dev.out /\ Given' = dev'.out
    BY DEF Given, Idle
  <2>2. CASE dev'.sel # dev.sel
    <3>1. cpha = 0 => dev'.miso = BitOf(dev'.out, NBits - 1)
      BY <2>2, <1>6, SpiFacts DEF Begins, TopBit
    <3>. QED BY <2>1, <3>1 DEF Receiving, Idle, SameMode
  <2>3. CASE dev'.sel = dev.sel
    <3>1. dev'.out = dev.out /\ dev'.miso = dev.miso
      BY <1>7, <2>3 DEF Stays
    <3>2. dev.sel /\ cpha = 0 => dev.miso = BitOf(dev.out, NBits - 1)
      BY <2>1 DEF SpiInvariant, Receiving
    <3>. QED BY <2>1, <2>3, <3>1, <3>2 DEF Receiving, Idle, SameMode
  <2>. QED BY <2>2, <2>3
<1>12. Sending' /\ SpiFrameExact'
  BY DEF Sending, SpiFrameExact
<1>. QED BY <1>9, <1>10, <1>11, <1>12 DEF SpiInvariant

(* Choosing a mode, and what the I2C driver does. *)
LEMMA OpenSpiStep ==
  ASSUME Wiring, SpiInvariant, OpenSpi
  PROVE  SpiInvariant'
<1>1. /\ spi \in Spis /\ Idle /\ dat \subseteq SpiOutputs /\ dirout \subseteq Pins
      /\ SpiOutputs \cap dirout = {} \/ (SpiOutputs \subseteq dirout /\ dat = {})
      /\ "sck" \notin dat
  BY DEF OpenSpi, SpiInvariant, SpiTyped, PinsKnown, ClockUp, Idle
<1>2. /\ spi' = [spi EXCEPT !.opaque = {}, !.framed = "unknown", !.did = "none"]
      /\ dirout' = (dirout \ SpiOutputs) \cup {"miso"} /\ dat' = dat /\ busMode' = "SPI"
      /\ dev' \in Sees(dat, (dirout \ SpiOutputs) \cup {"miso"})
  BY DEF OpenSpi
<1>3. spi' \in Spis /\ spi'.mode = spi.mode /\ spi'.pc = spi.pc /\ spi'.framed = "unknown" /\ spi'.opaque = {}
  BY <1>1, <1>2 DEF Spis
<1>4. dev' \in Sees(dat', dirout')
  BY <1>2
<1>5. dev' \in Devices
  BY <1>4, SeesFacts DEF SpiInvariant
<1>6. SpiTyped' /\ SameMode /\ Idle'
  BY <1>1, <1>2, <1>3, <1>5 DEF SpiTyped, SameMode, cpha, cpol, Idle, Pins
<1>7. "miso" \in dirout' /\ SpiOutputs \cap dirout' = {}
  BY <1>2 DEF SpiOutputs
<1>8. Stayed \/ Turned
  BY <1>1, <1>2, <1>7 DEF Stayed, Turned
<1>. QED BY <1>1, <1>2, <1>3, <1>4, <1>6, <1>7, <1>8, Elsewhere

(* A change of the mode keeps it.                                          *)
LEMMA LeaveStep ==
  ASSUME Wiring, SpiInvariant, Leave
  PROVE  SpiInvariant'
<1>1. /\ spi \in Spis /\ Idle /\ dat \subseteq SpiOutputs /\ dirout \subseteq Pins
      /\ SpiOutputs \cap dirout = {} \/ (SpiOutputs \subseteq dirout /\ dat = {})
      /\ "sck" \notin dat /\ "sck" \notin spi.opaque
  BY DEF Leave, SpiInvariant, SpiTyped, PinsKnown, ClockUp, Idle
<1>2. spi' = [spi EXCEPT !.framed = "unknown", !.did = "none"] /\ dev' \in Sees(dat', dirout')
  BY DEF Leave
<1>3. spi' \in Spis /\ spi'.mode = spi.mode /\ spi'.pc = spi.pc /\ spi'.framed = "unknown" /\ spi'.opaque = spi.opaque
  BY <1>1, <1>2 DEF Spis
<1>4. busMode' \in {"I2C", "HiZ"} /\ dirout' \subseteq dirout /\ (dat' = {} \/ dat' = dat)
      /\ (SpiOutputs \subseteq dirout => SpiOutputs \subseteq dirout')
  BY DEF Leave, OpenI2c, OpenHiZ, I2cPins, SpiOutputs
<1>5. dev' \in Devices
  BY <1>2, SeesFacts DEF SpiInvariant
<1>6. SpiTyped' /\ SameMode /\ Idle'
  BY <1>1, <1>3, <1>4, <1>5 DEF SpiTyped, SameMode, cpha, cpol, Idle
<1>7. Stayed
  BY <1>1, <1>4 DEF Stayed
<1>. QED BY <1>1, <1>2, <1>3, <1>4, <1>6, <1>7, Elsewhere

(* The use of the other mode keeps it.                                     *)
LEMMA UseI2cStep ==
  ASSUME Wiring, SpiInvariant, UseI2c
  PROVE  SpiInvariant'
<1>1. /\ Idle /\ busMode = "I2C" /\ busMode' = busMode /\ dat' = dat /\ spi' = spi /\ dev' = dev
      /\ \E p \in I2cPins : dirout' \in {dirout \ {p}, dirout \cup {p}}
  BY DEF UseI2c, I2cGet, I2cSet
<1>2. SpiOutputs \cap dirout' = SpiOutputs \cap dirout
  BY <1>1 DEF I2cPins, SpiOutputs
<1>3. SpiTyped'
  BY <1>1 DEF SpiInvariant, SpiTyped, I2cPins, Pins
<1>4. PinsKnown'
  <2>1. SpiOutputs \subseteq dirout => SpiOutputs \subseteq dirout'
    BY <1>2
  <2>. QED BY <1>1, <1>2, <2>1 DEF SpiInvariant, PinsKnown, Idle, AtStart, ClockUp, cpha
<1>5. DeviceFollows'
  <2>1. \A p \in SpiOutputs : High(dat, dirout, p)' <=> High(dat, dirout, p)
    BY <1>1, <1>2 DEF High, IsOutput
  <2>2. Selected(dat, dirout)' = Selected(dat, dirout) /\ ActiveClock(dat, dirout)' = ActiveClock(dat, dirout)
    BY <1>1, <2>1 DEF Selected, ActiveClock, cpol, SpiOutputs
  <2>. QED BY <1>1, <2>2 DEF SpiInvariant, DeviceFollows, Idle, BitsDone, cpha
<1>6. Sending' /\ Receiving' /\ SpiFrameExact'
  BY <1>1 DEF SpiInvariant, Sending, Receiving, SpiFrameExact, Given, Idle, cpha
<1>. QED BY <1>3, <1>4, <1>5, <1>6 DEF SpiInvariant

(* Where nothing changes, it stays.                                        *)
LEMMA StutterStep ==
  ASSUME SpiInvariant, UNCHANGED spiVars
  PROVE  SpiInvariant'
BY DEF SpiInvariant, spiVars, gpioVars, SpiTyped, PinsKnown, DeviceFollows, Sending, Receiving, SpiFrameExact,
       Idle, AtStart, ClockUp, cpha, cpol, BitsDone, Given, Selected, ActiveClock

(* It holds at the beginning.                                              *)
LEMMA SpiStarts ==
  ASSUME Wiring, SpiInit
  PROVE  SpiInvariant
<1>1. PICK m \in Modes : spi = [mode |-> m, opaque |-> {}, pc |-> "idle", word |-> 0, bits |-> 0,
                                 val |-> 0, did |-> "none", framed |-> "unknown"]
  BY DEF SpiInit
<1>2. /\ spi.mode = m /\ spi.opaque = {} /\ spi.pc = "idle" /\ spi.did = "none" /\ spi.framed = "unknown"
      /\ spi.word = 0 /\ spi.bits = 0 /\ spi.val = 0
  BY <1>1
<1>3. NBits \in Nat \ {0} /\ 0 \in 0 .. NBits /\ 0 \in 0 .. NBits - 1 /\ 0 \in Byte
  BY SpiFacts
<1>4. dat = {} /\ dirout \in {{}, Pins} /\ busMode = "HiZ"
  BY DEF SpiInit, GpioInit
<1>5. dev = [sel |-> Selected(dat, dirout), active |-> ActiveClock(dat, dirout),
             n |-> 0, reg |-> 0, out |-> 0, miso |-> 0, got |-> 0, gave |-> 0]
  BY DEF SpiInit
<1>6. Selected(dat, dirout) \in BOOLEAN /\ ActiveClock(dat, dirout) \in BOOLEAN
  BY DEF Selected, ActiveClock
<1>. DEFINE sel == Selected(dat, dirout)
            act == ActiveClock(dat, dirout)
<1>. HIDE DEF sel, act
<1>7. dev \in Devices /\ dev.sel = Selected(dat, dirout) /\ dev.active = ActiveClock(dat, dirout)
      /\ dev.n = 0 /\ dev.reg = 0 /\ dev.out = 0 /\ dev.miso = 0
  BY <1>3, <1>5, <1>6 DEF Devices
<1>8. spi \in Spis
  BY <1>1, <1>3 DEF Spis
<1>9. SpiTyped
  BY <1>4, <1>7, <1>8 DEF SpiTyped, Pins
<1>10. PinsKnown
  BY <1>2, <1>4 DEF PinsKnown, Pins, Idle, ClockUp
<1>11. DeviceFollows
  BY <1>2, <1>7 DEF DeviceFollows, Idle
<1>12. Receiving
  <2>1. BitOf(0, NBits - 1) = 0
    <3>1. NBits - 1 \in Nat /\ Pow2[NBits - 1] \in Nat \ {0}
      BY <1>3, SpiFacts
    <3>2. 0 \div Pow2[NBits - 1] = 0
      BY <3>1
    <3>. QED BY <3>2 DEF BitOf
  <2>. QED BY <1>2, <1>7, <2>1 DEF Receiving, Given, Idle
<1>13. Sending /\ SpiFrameExact
  BY <1>2 DEF Sending, SpiFrameExact, Idle
<1>. QED BY <1>9, <1>10, <1>11, <1>12, <1>13 DEF SpiInvariant

-----------------------------------------------------------------------------
(* The inductive invariant holds in every state. *)
THEOREM SpiKeepsInvariant == ASSUME Wiring PROVE SpiSpec => []SpiInvariant
<1>1. SpiInit => SpiInvariant
  BY SpiStarts
<1>2. ASSUME SpiInvariant, [SpiNext]_spiVars
      PROVE  SpiInvariant'
  <2>1. CASE OpenSpi
    BY <1>2, <2>1, OpenSpiStep
  <2>2. CASE Leave
    BY <1>2, <2>2, LeaveStep
  <2>3. CASE UseI2c
    BY <1>2, <2>3, UseI2cStep
  <2>4. ASSUME NEW en \in BOOLEAN, SetCs(en)
        PROVE  SpiInvariant'
    BY <1>2, <2>4, SetCsStep
  <2>5. ASSUME NEW c \in Byte, Transfer(c, "write")
        PROVE  SpiInvariant'
    <3>1. "write" \in {"read", "write"} /\ ("write" = "read" => c = 0)
      OBVIOUS
    <3>. QED BY <1>2, <2>5, <3>1, TransferStep
  <2>6. CASE Transfer(0, "read")
    <3>1. "read" \in {"read", "write"} /\ 0 \in Byte
      BY SpiFacts
    <3>. QED BY <1>2, <2>6, <3>1, TransferStep
  <2>7. CASE SetMosi
    BY <1>2, <2>7, SetMosiStep
  <2>8. CASE LeadingEdge
    BY <1>2, <2>8, LeadingEdgeStep
  <2>9. CASE TrailingEdge
    BY <1>2, <2>9, TrailingEdgeStep
  <2>10. CASE UNCHANGED spiVars
    BY <1>2, <2>10, StutterStep
  <2>. QED BY <1>2, <2>1, <2>2, <2>3, <2>4, <2>5, <2>6, <2>7, <2>8, <2>9, <2>10 DEF SpiNext
<1>. QED BY <1>1, <1>2, PTL DEF SpiSpec

(* Between [ and ] every byte reaches the device and every byte it gives   *)
(* reaches the user, whatever was done with the pins before: for bytes and *)
(* words of any width, where an output's direction bit is clear and the    *)
(* clock rests low.                                                        *)
THEOREM SpiFramesWhole == ASSUME Wiring PROVE SpiSpec => []SpiFrameExact
<1>1. SpiSpec => []SpiInvariant
  BY SpiKeepsInvariant
<1>2. SpiInvariant => SpiFrameExact
  BY DEF SpiInvariant
<1>. QED BY <1>1, <1>2, PTL

-----------------------------------------------------------------------------
(* The console. *)

(* Flattened sequences. *)

(* g[k] joins the first k members of s.                                    *)
Joins(g, s) == g[0] = <<>> /\ \A k \in 1 .. Len(s) : g[k] = g[k - 1] \o s[k]

(* There is such a function.                                               *)
LEMMA JoinsExists ==
  ASSUME NEW S, NEW s \in Seq(Seq(S))
  PROVE  \E g \in [Nat -> Seq(S)] : Joins(g, s)
<1>. DEFINE T == Seq(S)
            more(n, v) == IF n + 1 <= Len(s) THEN v \o s[n + 1] ELSE v
            step == [n \in Nat |-> [v \in T |-> more(n, v)]]
<1>1. \A n \in Nat : \A v \in T : more(n, v) \in T
  <2>1. TAKE n \in Nat
  <2>2. TAKE v \in T
  <2>3. CASE n + 1 <= Len(s)
    <3>1. s[n + 1] \in T
      BY <2>3
    <3>. QED BY <3>1, <2>3
  <2>4. CASE ~(n + 1 <= Len(s))
    BY <2>4
  <2>. QED BY <2>3, <2>4
<1>2. <<>> \in T
  OBVIOUS
<1>3. step \in [Nat -> [T -> T]]
  <2>. HIDE DEF more, T
  <2>. QED BY <1>1
<1>4. PICK g \in [Nat -> T] : Unfolds(g, <<>>, step)
  <2>. HIDE DEF step, T
  <2>. QED BY <1>2, <1>3, Recursion
<1>5. ASSUME NEW k \in 1 .. Len(s) PROVE g[k] = g[k - 1] \o s[k]
  <2>1. PICK m \in Nat : m = k - 1
    OBVIOUS
  <2>2. k = m + 1 /\ m + 1 <= Len(s)
    BY <2>1
  <2>3. g[m + 1] = step[m][g[m]] /\ g[m] \in T
    BY <1>4, <2>1 DEF Unfolds
  <2>4. step[m][g[m]] = more(m, g[m])
    <3>. HIDE DEF more, T
    <3>. QED BY <2>3
  <2>. QED BY <2>1, <2>2, <2>3, <2>4
<1>6. g[0] = <<>>
  BY <1>4 DEF Unfolds
<1>. QED BY <1>5, <1>6 DEF Joins

(* Any such function tells what FlattenSeq is.                             *)
LEMMA FlattenIs ==
  ASSUME NEW S, NEW s \in Seq(Seq(S)), NEW g \in [Nat -> Seq(S)], Joins(g, s)
  PROVE  FlattenSeq(s) = g[Len(s)]
<1>. DEFINE n == Len(s)
            Is(f) == f = [i \in 1 .. Len(s) |-> IF i = 1 THEN s[i] ELSE f[i - 1] \o s[i]]
            h == CHOOSE f : Is(f)
<1>1. CASE n = 0
  BY <1>1 DEF FlattenSeq, Joins
<1>2. CASE n # 0
  <2>1. n \in Nat \ {0} /\ n \in 1 .. n
    BY <1>2
  <2>2. \E f : Is(f)
    <3>. DEFINE f == [i \in 1 .. Len(s) |-> g[i]]
    <3>1. ASSUME NEW i \in 1 .. Len(s) PROVE g[i] = IF i = 1 THEN s[i] ELSE f[i - 1] \o s[i]
      <4>1. CASE i = 1
        <5>1. g[i] = g[i - 1] \o s[i] /\ g[0] = <<>>
          BY DEF Joins
        <5>2. i - 1 = 0
          BY <4>1
        <5>3. s[i] \in Seq(S)
          OBVIOUS
        <5>4. <<>> \o s[i] = s[i]
          BY <5>3
        <5>. QED BY <5>1, <5>2, <5>4, <4>1
      <4>2. CASE i # 1
        <5>1. i - 1 \in 1 .. Len(s) /\ f[i - 1] = g[i - 1]
          BY <4>2
        <5>. QED BY <5>1, <4>2 DEF Joins
      <4>. QED BY <4>1, <4>2
    <3>2. Is(f)
      BY <3>1
    <3>. QED BY <3>2
  <2>3. Is(h)
    <3>. HIDE DEF Is
    <3>. QED BY <2>2
  <2>4. FlattenSeq(s) = h[n]
    BY <1>2 DEF FlattenSeq
  <2>. HIDE DEF h
  <2>. DEFINE T == {k \in 1 .. n : h[k] = g[k]}
  <2>5. 1 \in T
    <3>1. h[1] = s[1] /\ 1 \in 1 .. n
      BY <2>1, <2>3
    <3>2. g[1] = g[1 - 1] \o s[1] /\ g[0] = <<>>
      BY <3>1 DEF Joins
    <3>3. s[1] \in Seq(S)
      BY <3>1
    <3>4. <<>> \o s[1] = s[1]
      BY <3>3
    <3>5. 1 - 1 = 0
      OBVIOUS
    <3>. QED BY <3>1, <3>2, <3>4, <3>5
  <2>6. ASSUME NEW k \in 1 .. n - 1, k \in T PROVE k + 1 \in T
    <3>1. PICK m \in 1 .. n : m = k + 1
      BY <2>1
    <3>2. m # 1 /\ m - 1 = k
      BY <3>1
    <3>3. h[m] = h[m - 1] \o s[m]
      BY <2>3, <3>2
    <3>4. g[m] = g[m - 1] \o s[m]
      BY DEF Joins
    <3>5. h[k] = g[k]
      BY <2>6
    <3>6. h[m] = g[m]
      BY <3>2, <3>3, <3>4, <3>5
    <3>. QED BY <3>1, <3>6
  <2>7. \A k \in 1 .. n : k \in T
    <3>1. 1 \in Int /\ n \in Int
      BY <2>1
    <3>. HIDE DEF T, n
    <3>. QED BY <3>1, <2>5, <2>6, UpTo
  <2>. QED BY <2>1, <2>4, <2>7
<1>. QED BY <1>1, <1>2

(* Sequences with the same members are the same.                           *)
LEMMA SeqEqual ==
  ASSUME NEW S, NEW p \in Seq(S), NEW q \in Seq(S), Len(p) = Len(q),
         \A k \in 1 .. Len(p) : p[k] = q[k]
  PROVE  p = q
OBVIOUS

(* Concatenation is associative.                                           *)
LEMMA Associative ==
  ASSUME NEW S, NEW a \in Seq(S), NEW b \in Seq(S), NEW c \in Seq(S)
  PROVE  a \o (b \o c) = (a \o b) \o c
<1>. DEFINE u == a \o b
            v == b \o c
            p == a \o v
            q == u \o c
<1>1. u \in Seq(S) /\ v \in Seq(S) /\ p \in Seq(S) /\ q \in Seq(S)
  OBVIOUS
<1>2. /\ Len(u) = Len(a) + Len(b) /\ Len(v) = Len(b) + Len(c)
      /\ Len(p) = Len(a) + Len(v) /\ Len(q) = Len(u) + Len(c)
      /\ Len(a) \in Nat /\ Len(b) \in Nat /\ Len(c) \in Nat
  OBVIOUS
<1>3. /\ \A k \in 1 .. Len(u) : u[k] = IF k <= Len(a) THEN a[k] ELSE b[k - Len(a)]
      /\ \A k \in 1 .. Len(v) : v[k] = IF k <= Len(b) THEN b[k] ELSE c[k - Len(b)]
  OBVIOUS
<1>4. \A k \in 1 .. Len(p) : p[k] = IF k <= Len(a) THEN a[k] ELSE v[k - Len(a)]
  <2>. HIDE DEF v
  <2>. QED BY <1>1
<1>5. \A k \in 1 .. Len(q) : q[k] = IF k <= Len(u) THEN u[k] ELSE c[k - Len(u)]
  <2>. HIDE DEF u
  <2>. QED BY <1>1
<1>. HIDE DEF u, v, p, q
<1>6. Len(p) = Len(q)
  BY <1>2
<1>7. ASSUME NEW k \in 1 .. Len(p) PROVE p[k] = q[k]
  <2>1. k \in Nat /\ k \in 1 .. Len(q) /\ Len(u) \in Nat /\ Len(v) \in Nat
    BY <1>2
  <2>2. CASE k <= Len(a)
    <3>1. k \in 1 .. Len(u) /\ k <= Len(u)
      BY <1>2, <2>1, <2>2
    <3>. QED BY <1>3, <1>4, <1>5, <2>1, <2>2, <3>1
  <2>3. CASE ~(k <= Len(a)) /\ k <= Len(u)
    <3>1. PICK m \in Nat : m = k - Len(a)
      <4>1. k - Len(a) \in Nat
        BY <1>2, <2>1, <2>3
      <4>. QED BY <4>1
    <3>2. k \in 1 .. Len(u) /\ m \in 1 .. Len(v) /\ m <= Len(b)
      BY <1>2, <2>1, <2>3, <3>1
    <3>. QED BY <1>3, <1>4, <1>5, <2>1, <2>3, <3>1, <3>2
  <2>4. CASE ~(k <= Len(u))
    <3>1. PICK m \in Nat : m = k - Len(a)
      <4>1. k - Len(a) \in Nat
        BY <1>2, <2>1, <2>4
      <4>. QED BY <4>1
    <3>2. m \in 1 .. Len(v) /\ ~(m <= Len(b)) /\ ~(k <= Len(a)) /\ m - Len(b) = k - Len(u)
      BY <1>2, <2>1, <2>4, <3>1
    <3>. QED BY <1>3, <1>4, <1>5, <2>1, <2>4, <3>1, <3>2
  <2>. QED BY <2>2, <2>3, <2>4
<1>8. p = q
  BY ONLY <1>1, <1>6, <1>7, SeqEqual
<1>. QED BY <1>8 DEF p, q, u, v

(* Nothing is nothing flattened, and a flattened sequence is a sequence.   *)
LEMMA FlattenTyped ==
  ASSUME NEW S
  PROVE  /\ FlattenSeq(<<>>) = <<>>
         /\ \A s \in Seq(Seq(S)) : FlattenSeq(s) \in Seq(S)
<1>1. FlattenSeq(<<>>) = <<>>
  BY DEF FlattenSeq
<1>2. ASSUME NEW s \in Seq(Seq(S)) PROVE FlattenSeq(s) \in Seq(S)
  <2>1. PICK g \in [Nat -> Seq(S)] : Joins(g, s)
    BY JoinsExists
  <2>2. FlattenSeq(s) = g[Len(s)]
    BY <2>1, FlattenIs, Zenon
  <2>3. Len(s) \in Nat
    OBVIOUS
  <2>. QED BY <2>2, <2>3
<1>. QED BY <1>1, <1>2

(* One more member lengthens the flattened sequence at its end.            *)
LEMMA FlattenAppend ==
  ASSUME NEW S, NEW s \in Seq(Seq(S)), NEW x \in Seq(S)
  PROVE  FlattenSeq(Append(s, x)) = FlattenSeq(s) \o x
<1>. DEFINE n == Len(s)
            t == Append(s, x)
<1>1. PICK g \in [Nat -> Seq(S)] : Joins(g, s)
  BY JoinsExists
<1>. DEFINE h == [k \in Nat |-> IF k <= n THEN g[k] ELSE g[n] \o x]
<1>2. /\ n \in Nat /\ n + 1 \in Nat
      /\ Len(t) = n + 1 /\ t \in Seq(Seq(S)) /\ t[n + 1] = x
      /\ \A k \in 1 .. n : t[k] = s[k]
  <2>1. n \in Nat /\ n + 1 \in Nat
    OBVIOUS
  <2>. DEFINE T == Seq(S)
  <2>2. s \in Seq(T) /\ x \in T
    OBVIOUS
  <2>. HIDE DEF T
  <2>3. Len(t) = n + 1 /\ t \in Seq(T) /\ t[n + 1] = x
    BY <2>2
  <2>4. \A k \in 1 .. n : t[k] = s[k]
    BY <2>2
  <2>. QED BY <2>1, <2>3, <2>4 DEF T
<1>3. h \in [Nat -> Seq(S)]
  BY <1>1, <1>2
<1>8. \A k \in Nat : h[k] = IF k <= n THEN g[k] ELSE g[n] \o x
  OBVIOUS
<1>. HIDE DEF h, t
<1>4. Joins(h, t)
  <2>1. h[0] = <<>>
    <3>1. g[0] = <<>>
      BY <1>1 DEF Joins
    <3>2. 0 \in Nat /\ 0 <= n
      BY <1>2
    <3>. QED BY <3>2, <1>8, <3>1
  <2>2. ASSUME NEW k \in 1 .. Len(t) PROVE h[k] = h[k - 1] \o t[k]
    <3>1. CASE k <= n
      <4>1. k \in 1 .. n /\ k \in Nat /\ k - 1 \in Nat /\ k - 1 <= n
        BY <3>1, <1>2
      <4>2. h[k] = g[k] /\ h[k - 1] = g[k - 1] /\ t[k] = s[k]
        <5>1. h[k] = g[k]
          BY <4>1, <3>1, <1>8
        <5>2. PICK j \in Nat : j = k - 1 /\ j <= n
          BY <4>1
        <5>3. h[j] = g[j]
          BY <5>2, <1>8
        <5>. QED BY <5>1, <5>2, <5>3, <4>1, <1>2
      <4>3. g[k] = g[k - 1] \o s[k]
        BY <4>1, <1>1 DEF Joins
      <4>. QED BY <4>2, <4>3
    <3>2. CASE ~(k <= n)
      <4>1. k = n + 1 /\ k \in Nat /\ k - 1 = n
        <5>1. k \in Nat /\ k <= n + 1
          BY <1>2
        <5>. QED BY <5>1, <3>2, <1>2
      <4>2. h[k] = g[n] \o x /\ h[n] = g[n]
        <5>1. n <= n
          BY <1>2
        <5>. QED BY <4>1, <3>2, <1>2, <1>8, <5>1
      <4>. QED BY <4>1, <4>2, <1>2
    <3>. QED BY <3>1, <3>2
  <2>. HIDE DEF h, t
  <2>. QED BY <2>1, <2>2 DEF Joins
<1>5. FlattenSeq(t) = h[n + 1]
  <2>. HIDE DEF h, t, n
  <2>. QED BY <1>2, <1>3, <1>4, FlattenIs
<1>6. h[n + 1] = g[n] \o x
  <2>1. ~(n + 1 <= n)
    BY <1>2
  <2>. QED BY <1>2, <1>8, <2>1
<1>7. FlattenSeq(s) = g[n]
  BY <1>1, FlattenIs, Zenon
<1>. QED BY <1>5, <1>6, <1>7 DEF t

(* The first member is the beginning of the flattened sequence.            *)
LEMMA FlattenHead ==
  ASSUME NEW S, NEW s \in Seq(Seq(S)), Len(s) # 0
  PROVE  FlattenSeq(s) = Head(s) \o FlattenSeq(Tail(s))
<1>0. \A u, v, w \in Seq(S) : u \o (v \o w) = (u \o v) \o w
  BY SMTT(30)
<1>. DEFINE n == Len(s)
            x == Head(s)
            t == Tail(s)
<1>1. n \in Nat /\ n - 1 \in Nat /\ Len(t) = n - 1 /\ t \in Seq(Seq(S)) /\ x \in Seq(S) /\ x = s[1]
      /\ \A k \in 2 .. n : s[k] = t[k - 1]
  OBVIOUS
<1>2. PICK g \in [Nat -> Seq(S)] : Joins(g, t)
  BY <1>1, JoinsExists
<1>. DEFINE h == [k \in Nat |-> IF k = 0 THEN <<>> ELSE x \o g[k - 1]]
<1>3. h \in [Nat -> Seq(S)]
  <2>1. ASSUME NEW k \in Nat, k # 0 PROVE x \o g[k - 1] \in Seq(S)
    <3>1. k - 1 \in Nat
      BY <2>1
    <3>2. g[k - 1] \in Seq(S)
      BY <3>1
    <3>. QED BY <3>2, <1>1
  <2>2. <<>> \in Seq(S)
    OBVIOUS
  <2>. HIDE DEF x
  <2>. QED BY <2>1, <2>2
<1>8. \A k \in Nat : h[k] = IF k = 0 THEN <<>> ELSE x \o g[k - 1]
  OBVIOUS
<1>. HIDE DEF h
<1>4. Joins(h, s)
  <2>1. h[0] = <<>>
    BY <1>8
  <2>2. ASSUME NEW k \in 1 .. Len(s) PROVE h[k] = h[k - 1] \o s[k]
    <3>1. CASE k = 1
      <4>0. h[1] = x \o g[1 - 1] /\ h[0] = <<>> /\ 1 - 1 = 0
        <5>1. 1 \in Nat /\ 0 \in Nat /\ 1 # 0 /\ 1 - 1 = 0
          OBVIOUS
        <5>. HIDE DEF x
        <5>. QED BY <5>1, <1>8
      <4>1. g[0] = <<>>
        BY <1>2 DEF Joins
      <4>2. x \o <<>> = x /\ <<>> \o x = x
        <5>. HIDE DEF x
        <5>. QED BY <1>1
      <4>. QED BY <3>1, <4>0, <4>1, <4>2, <1>1
    <3>2. CASE k # 1
      <4>1. PICK m \in 1 .. n - 1 : m = k - 1
        <5>1. k \in 1 .. n /\ n \in Nat
          BY <1>1
        <5>2. k - 1 \in 1 .. n - 1
          <6>. HIDE DEF n
          <6>. QED BY <5>1, <3>2
        <5>. QED BY <5>2
      <4>2. k = m + 1 /\ m \in Nat /\ m # 0 /\ m - 1 \in Nat /\ k \in Nat /\ k # 0 /\ m \in 1 .. Len(t)
        <5>1. k = m + 1 /\ m \in Nat /\ m # 0 /\ m - 1 \in Nat /\ k \in Nat /\ k # 0
          <6>1. k \in Nat /\ k # 0
            OBVIOUS
          <6>2. m \in Nat /\ m # 0 /\ m - 1 \in Nat
            BY <1>1
          <6>3. m = k - 1
            BY <4>1
          <6>. QED BY <6>1, <6>2, <6>3
        <5>2. m \in 1 .. n - 1 /\ Len(t) = n - 1
          BY <1>1
        <5>. HIDE DEF n, t
        <5>. QED BY <5>1, <5>2
      <4>3. h[k] = x \o g[m] /\ h[m] = x \o g[m - 1]
        BY <4>1, <4>2, <1>8
      <4>4. g[m] = g[m - 1] \o t[m]
        BY <4>2, <1>2 DEF Joins
      <4>5. s[k] = t[m] /\ t[m] \in Seq(S)
        BY <1>1, <3>2, <4>1, <4>2
      <4>6. x \o (g[m - 1] \o t[m]) = (x \o g[m - 1]) \o t[m]
        <5>1. g[m - 1] \in Seq(S) /\ t[m] \in Seq(S) /\ x \in Seq(S)
          BY <1>1, <4>2, <4>5
        <5>2. PICK a \in Seq(S) : a = g[m - 1]
          BY <5>1
        <5>3. PICK b \in Seq(S) : b = t[m]
          BY <5>1
        <5>4. PICK c \in Seq(S) : c = x
          BY <5>1
        <5>5. c \o (a \o b) = (c \o a) \o b
          BY <1>0
        <5>. HIDE DEF x, t
        <5>. QED BY <5>2, <5>3, <5>4, <5>5
      <4>. QED BY <4>1, <4>3, <4>4, <4>5, <4>6
    <3>. QED BY <3>1, <3>2
  <2>. HIDE DEF h
  <2>. QED BY <2>1, <2>2 DEF Joins
<1>5. FlattenSeq(s) = h[n]
  <2>. HIDE DEF h
  <2>. QED BY <1>3, <1>4, FlattenIs
<1>6. h[n] = x \o g[n - 1]
  <2>1. n # 0
    OBVIOUS
  <2>. QED BY <1>1, <1>8, <2>1
<1>7. FlattenSeq(t) = g[n - 1]
  <2>. HIDE DEF t
  <2>1. FlattenSeq(t) = g[Len(t)]
    BY <1>1, <1>2, FlattenIs, Zenon
  <2>. QED BY <2>1, <1>1
<1>. QED BY <1>5, <1>6, <1>7

-----------------------------------------------------------------------------
(* The console. *)

(* The names of bytes and keys.                                            *)
Name == STRING \cup {"ESC", "CR", "LF", NoKey, NotAKey, "UP", "DOWN", "RIGHT", "LEFT", "HOME",
                     "END", "INSERT", "DEL", "PAGEUP", "PAGEDOWN"}
Bytes == Seq(Name)

(* What the line shows of a text.                                          *)
ShownAs(c) == IF c = "LF" THEN <<"CR", "LF">> ELSE <<c>>
Shown(text) == [j \in 1 .. Len(text) |-> ShownAs(text[j])]
Line(text) == FlattenSeq(Shown(text))

InSequence == {"esc0", "esc1", "loop"}
Printing == {"puts", "put"}

Places == {"idle", "first"} \cup InSequence \cup Printing
ConType == [pc : Places, esc : Bytes, key : Name, of : Bytes, text : Bytes, rest : Bytes]

ConsoleTypes ==
  /\ uart \in [rx : Bytes, thr : Bytes, sent : Bytes]
  /\ con \in ConType
  /\ due \in Seq(Typed)
  /\ Keyboard

(* The bytes taken and those not yet read are those of the keys not yet    *)
(* returned; a sequence that has been taken so far may go on.              *)
KeyInvariant ==
  /\ con.pc \notin InSequence => uart.rx = FlattenSeq(due)
  /\ con.pc \in InSequence => (<<"ESC">> \o con.esc) \o uart.rx = FlattenSeq(due)
  /\ con.pc \in {"first", "esc0"} => con.esc = <<>>
  /\ con.pc = "esc1" => Len(con.esc) = 1
  /\ con.pc = "loop" => /\ Len(con.esc) \in 2 .. EscSize - 1
                        /\ con.esc[2] \in Digits
                        /\ \A j \in 3 .. Len(con.esc) : con.esc[j] # "~"
  /\ con.pc \in {"idle"} \cup Printing /\ con.key # NoKey =>
       Len(con.of) # 0 /\ con.key = Meaning(con.of)

(* What is on the line and what is still to be printed are the text.       *)
OutputInvariant ==
  /\ con.pc \notin Printing => uart.sent \o uart.thr = Line(con.text)
  /\ con.pc = "puts" => (uart.sent \o uart.thr) \o Line(con.rest) = Line(con.text)
  /\ con.pc = "put" => /\ Len(con.rest) # 0 /\ con.rest[1] = "LF"
                       /\ (uart.sent \o uart.thr) \o (<<"LF">> \o Line(Tail(con.rest)))
                            = Line(con.text)

ConsoleInvariant == ConsoleTypes /\ KeyInvariant /\ OutputInvariant

(* Sequences over a set are sequences over a larger one.                   *)
LEMMA MoreNames ==
  ASSUME NEW A, NEW B, A \subseteq B, NEW s \in Seq(A)
  PROVE  s \in Seq(B)
OBVIOUS

(* What the assumptions say of the keys.                                   *)
LEMMA KeysAre ==
  /\ \A t \in Typed : t \in Bytes /\ Len(t) # 0
  /\ \A d \in Seq(Typed) : d \in Seq(Bytes)
  /\ \A t \in Texts : t \in Bytes
<1>1. \A t \in Typed : t \in Bytes /\ Len(t) # 0
  <2>1. TAKE t \in Typed
  <2>4. STRING \subseteq Name
    BY DEF Name
  <2>2. t \in Seq(Name) /\ t # <<>>
    BY <2>4, ConsoleTyped, MoreNames
  <2>3. Len(t) # 0
    BY <2>2
  <2>. QED BY <2>2, <2>3 DEF Bytes
<1>2. \A d \in Seq(Typed) : d \in Seq(Bytes)
  <2>1. \A t \in Typed : t \in Bytes
    BY <1>1
  <2>. HIDE DEF Bytes
  <2>. QED BY <2>1
<1>3. \A t \in Texts : t \in Bytes
  <2>1. STRING \subseteq Name
    BY DEF Name
  <2>. QED BY <2>1, ConsoleTexts, MoreNames DEF Bytes
<1>. QED BY <1>1, <1>2, <1>3

(* The first byte of what is there, and the rest.                          *)
LEMMA FirstByte ==
  ASSUME NEW s \in Bytes, s # <<>>
  PROVE  Len(s) \in Nat /\ Len(s) # 0 /\ Head(s) = s[1] /\ s[1] \in Name /\ Tail(s) \in Bytes
BY DEF Bytes

(* A byte goes from what is unread to what is taken.                       *)
LEMMA ByteTaken ==
  ASSUME NEW p \in Bytes, NEW r \in Bytes, Len(r) # 0
  PROVE  /\ Append(p, Head(r)) \in Bytes
         /\ Append(p, Head(r)) \o Tail(r) = p \o r
<1>1. Append(p, Head(r)) \in Seq(Name) /\ Tail(r) \in Seq(Name) /\ p \o r \in Seq(Name)
  BY DEF Bytes
<1>2. Append(p, Head(r)) \o Tail(r) = p \o r
  BY SMTT(30) DEF Bytes
<1>. QED BY <1>1, <1>2 DEF Bytes

(* A sequence of one.                                                      *)
LEMMA OneByte ==
  ASSUME NEW S, NEW b \in S
  PROVE  <<b>> \in Seq(S) /\ Len(<<b>>) = 1 /\ <<b>>[1] = b
OBVIOUS

(* The members of the whole are those of its parts.                        *)
LEMMA JoinedAt ==
  ASSUME NEW S, NEW s \in Seq(S), NEW t \in Seq(S), NEW k \in 1 .. Len(s) + Len(t)
  PROVE  (s \o t)[k] = IF k <= Len(s) THEN s[k] ELSE t[k - Len(s)]
OBVIOUS

(* The whole is as long as its parts.                                      *)
LEMMA JoinedTyped ==
  ASSUME NEW S, NEW s \in Seq(S), NEW t \in Seq(S)
  PROVE  s \o t \in Seq(S) /\ Len(s \o t) = Len(s) + Len(t)
OBVIOUS

(* Two bytes are one and one.                                              *)
LEMMA TwoBytes ==
  ASSUME NEW S, NEW b \in S, NEW c \in S, NEW x \in Seq(S)
  PROVE  <<b, c>> \o x = <<b>> \o (<<c>> \o x)
<1>1. PICK u \in Seq(S) : u = <<b>>
  BY OneByte
<1>2. PICK v \in Seq(S) : v = <<c>>
  BY OneByte
<1>3. Len(u) = 1 /\ u[1] = b /\ Len(v) = 1 /\ v[1] = c
  BY <1>1, <1>2, OneByte
<1>. DEFINE w == u \o v
<1>4. w \in Seq(S) /\ Len(w) = 2
  <2>1. w \in Seq(S) /\ Len(w) = Len(u) + Len(v)
    BY JoinedTyped
  <2>2. 1 + 1 = 2
    OBVIOUS
  <2>. HIDE DEF w
  <2>. QED BY ONLY <1>3, <2>1, <2>2
<1>5. w[1] = b /\ w[2] = c
  <2>1. \A k \in 1 .. Len(u) + Len(v) : w[k] = IF k <= Len(u) THEN u[k] ELSE v[k - Len(u)]
    BY JoinedAt
  <2>. HIDE DEF w
  <2>2. 1 \in 1 .. Len(u) + Len(v) /\ 2 \in 1 .. Len(u) + Len(v) /\ 2 - Len(u) = 1
        /\ 1 <= Len(u) /\ ~(2 <= Len(u))
    BY ONLY <1>3
  <2>. QED BY ONLY <1>3, <2>1, <2>2
<1>6. w = <<b, c>>
  <2>. HIDE DEF w
  <2>. QED BY ONLY <1>4, <1>5
<1>7. u \o (v \o x) = w \o x
  BY Associative
<1>. HIDE DEF w
<1>. QED BY ONLY <1>1, <1>2, <1>6, <1>7

(* The members of a sequence that has been appended to.                    *)
LEMMA Appended ==
  ASSUME NEW S, NEW s \in Seq(S), NEW c \in S
  PROVE  /\ Append(s, c) \in Seq(S) /\ Len(s) \in Nat
         /\ Len(Append(s, c)) = Len(s) + 1 /\ Append(s, c)[Len(s) + 1] = c
         /\ \A k \in 1 .. Len(s) : Append(s, c)[k] = s[k]
OBVIOUS

(* What is appended to the second part is appended to the whole.           *)
LEMMA AppendMoves ==
  ASSUME NEW S, NEW x \in Seq(S), NEW e \in Seq(S), NEW c \in S
  PROVE  x \o Append(e, c) = Append(x \o e, c)
BY SMTT(30)

(* The bytes of a sequence but the first.                                  *)
LEMMA AfterEsc ==
  ASSUME NEW e \in Bytes, NEW c \in Name
  PROVE  /\ <<"ESC">> \o e \in Bytes /\ <<"ESC">> \o <<>> = <<"ESC">>
         /\ Len(<<"ESC">> \o e) = Len(e) + 1 /\ (<<"ESC">> \o e)[1] = "ESC"
         /\ \A k \in 1 .. Len(e) : (<<"ESC">> \o e)[k + 1] = e[k]
         /\ <<"ESC">> \o Append(e, c) = Append(<<"ESC">> \o e, c)
         /\ Tail(<<"ESC">> \o e) = e
<1>1. PICK x \in Seq(Name) : x = <<"ESC">>
  <2>0. "ESC" \in Name
    BY DEF Name
  <2>1. PICK b \in Name : b = "ESC"
    BY <2>0
  <2>2. <<b>> \in Seq(Name)
    BY OneByte
  <2>. QED BY <2>1, <2>2
<1>2. Len(x) = 1
  BY <1>1
<1>3. x[1] = "ESC"
  BY <1>1
<1>. DEFINE y == x \o e
<1>4. /\ y \in Seq(Name) /\ Len(y) = Len(e) + 1 /\ y[1] = "ESC"
      /\ \A k \in 1 .. Len(e) : y[k + 1] = e[k]
  <2>1. y \in Seq(Name) /\ Len(y) = Len(x) + Len(e) /\ Len(e) \in Nat
    BY DEF Bytes
  <2>2. y[1] = x[1]
    <3>1. 1 \in 1 .. Len(x) + Len(e) /\ 1 <= Len(x)
      BY <1>2, <2>1
    <3>. QED BY <3>1 DEF Bytes
  <2>3. ASSUME NEW k \in 1 .. Len(e) PROVE y[k + 1] = e[k]
    <3>1. PICK m \in Nat : m = k + 1
      OBVIOUS
    <3>3. m \in 1 .. Len(x) + Len(e) /\ ~(m <= Len(x)) /\ m - 1 = k
      BY <1>2, <2>1, <3>1
    <3>4. y[m] = IF m <= Len(x) THEN x[m] ELSE e[m - Len(x)]
      BY <3>3, JoinedAt DEF Bytes
    <3>2. y[m] = e[m - 1]
      BY <1>2, <3>3, <3>4
    <3>. QED BY <3>1, <3>2
  <2>. HIDE DEF y
  <2>. QED BY <1>2, <1>3, <2>1, <2>2, <2>3
<1>5. x \o Append(e, c) = Append(x \o e, c)
  <2>1. e \in Seq(Name)
    BY DEF Bytes
  <2>. HIDE DEF y
  <2>2. c \in Name /\ x \in Seq(Name)
    OBVIOUS
  <2>. QED BY ONLY <2>1, <2>2, AppendMoves
<1>6. Tail(y) = e
  <2>. HIDE DEF y
  <2>1. Tail(y) \in Seq(Name) /\ Len(Tail(y)) = Len(e) /\ Len(e) \in Nat /\ e \in Seq(Name)
    BY <1>4 DEF Bytes
  <2>2. \A k \in 1 .. Len(e) : Tail(y)[k] = e[k]
    BY <1>4 DEF Bytes
  <2>. QED BY <2>1, <2>2, SeqEqual
<1>7. x \o <<>> = x
  OBVIOUS
<1>. QED BY <1>1, <1>4, <1>5, <1>6, <1>7 DEF Bytes

(* Two ways to cut a sequence into two.                                    *)
LEMMA Cuts ==
  ASSUME NEW p \in Bytes, NEW r \in Bytes, NEW t \in Bytes, NEW q \in Bytes, p \o r = t \o q
  PROVE  /\ \A k \in 1 .. Len(p) : k <= Len(t) => p[k] = t[k]
         /\ Len(p) = Len(t) => p = t /\ r = q
         /\ Len(r) # 0 /\ Len(p) < Len(t) => r[1] = t[Len(p) + 1]
<1>1. ASSUME NEW k \in 1 .. Len(p), k <= Len(t) PROVE p[k] = t[k]
  <2>1. (p \o r)[k] = p[k]
    BY DEF Bytes
  <2>2. (t \o q)[k] = t[k]
    BY <1>1 DEF Bytes
  <2>. QED BY <2>1, <2>2
<1>2. ASSUME Len(p) = Len(t) PROVE p = t /\ r = q
  <2>1. p = t
    <3>1. \A k \in 1 .. Len(p) : p[k] = t[k]
      BY <1>1, <1>2 DEF Bytes
    <3>. QED BY <3>1, <1>2, SeqEqual DEF Bytes
  <2>2. Len(r) = Len(q)
    <3>1. Len(p \o r) = Len(p) + Len(r) /\ Len(t \o q) = Len(t) + Len(q)
      BY DEF Bytes
    <3>2. Len(p) \in Nat /\ Len(r) \in Nat /\ Len(q) \in Nat
      BY DEF Bytes
    <3>. QED BY <3>1, <3>2, <1>2
  <2>3. ASSUME NEW k \in 1 .. Len(r) PROVE r[k] = q[k]
    <3>1. PICK n \in Nat : n = Len(p)
      BY DEF Bytes
    <3>2. PICK m \in Nat : m = n + k
      BY <3>1
    <3>0. m - n = k /\ m \in 1 .. n + Len(r) /\ ~(m <= n)
      BY <3>1, <3>2 DEF Bytes
    <3>3. (p \o r)[m] = r[k]
      BY <3>0, <3>1 DEF Bytes
    <3>4. (t \o q)[m] = q[k]
      BY <3>0, <3>1, <1>2, <2>2 DEF Bytes
    <3>. QED BY <3>3, <3>4
  <2>4. r = q
    BY <2>2, <2>3, SeqEqual DEF Bytes
  <2>. QED BY <2>1, <2>4
<1>3. ASSUME Len(r) # 0, Len(p) < Len(t) PROVE r[1] = t[Len(p) + 1]
  <2>1. PICK m \in Nat : m = Len(p) + 1
    BY DEF Bytes
  <2>2. (p \o r)[m] = r[1]
    BY <1>3, <2>1 DEF Bytes
  <2>3. (t \o q)[m] = t[m]
    BY <1>3, <2>1 DEF Bytes
  <2>. QED BY <2>1, <2>2, <2>3
<1>. QED BY <1>1, <1>2, <1>3

(* The keys not yet returned begin with the one whose bytes come next.     *)
LEMMA NextKey ==
  ASSUME NEW d \in Seq(Typed), NEW x \in Bytes, x = FlattenSeq(d), Len(x) # 0
  PROVE  /\ Len(d) # 0 /\ Head(d) \in Typed /\ Tail(d) \in Seq(Typed)
         /\ Head(d) \in Bytes /\ FlattenSeq(Tail(d)) \in Bytes
         /\ x = Head(d) \o FlattenSeq(Tail(d))
<1>1. d \in Seq(Bytes)
  BY KeysAre
<1>2. Len(d) # 0
  <2>1. SUFFICES ASSUME Len(d) = 0 PROVE FALSE
    OBVIOUS
  <2>2. d = <<>>
    BY <2>1
  <2>3. x = <<>>
    BY <2>2, FlattenTyped
  <2>4. Len(<<>>) = 0
    OBVIOUS
  <2>. QED BY <2>3, <2>4
<1>3. Head(d) \in Typed /\ Tail(d) \in Seq(Typed)
  BY <1>2
<1>4. Head(d) \in Bytes /\ Tail(d) \in Seq(Bytes)
  BY <1>3, KeysAre
<1>5. FlattenSeq(Tail(d)) \in Bytes
  BY <1>4, FlattenTyped DEF Bytes
<1>6. FlattenSeq(d) = Head(d) \o FlattenSeq(Tail(d))
  BY <1>1, <1>2, FlattenHead, Zenon DEF Bytes
<1>. QED BY <1>2, <1>3, <1>4, <1>5, <1>6

(* A byte that is not ESC is a key.                                        *)
LEMMA PlainKey ==
  ASSUME NEW d \in Seq(Typed), NEW r \in Bytes, r = FlattenSeq(d), Len(r) # 0, r[1] # "ESC",
         Keyboard
  PROVE  Tail(r) = FlattenSeq(Tail(d)) /\ r[1] = Meaning(Head(d))
<1>. DEFINE t == Head(d)
            q == FlattenSeq(Tail(d))
            p == <<r[1]>>
<1>1. t \in Bytes /\ q \in Bytes /\ r = t \o q /\ t \in Typed
  BY NextKey
<1>2. p \in Bytes /\ Len(p) = 1 /\ p[1] = r[1] /\ Tail(r) \in Bytes
  <2>1. r[1] \in Name /\ Tail(r) \in Bytes
    BY DEF Bytes
  <2>. QED BY <2>1, OneByte DEF Bytes
<1>3. p \o Tail(r) = r
  <2>1. <<Head(r)>> \o Tail(r) = r
    BY DEF Bytes
  <2>2. Head(r) = r[1]
    BY DEF Bytes
  <2>. QED BY <2>1, <2>2
<1>4. Len(t) # 0 /\ WellFormed(t) /\ Len(t) \in Nat
  BY <1>1, KeysAre DEF Bytes, Keyboard
<1>. HIDE DEF t, q, p
<1>5. p[1] = t[1]
  <2>1. 1 \in 1 .. Len(p) /\ 1 <= Len(t)
    BY <1>2, <1>4
  <2>. QED BY <1>1, <1>2, <1>3, <2>1, Cuts
<1>6. Len(t) = 1
  BY <1>2, <1>4, <1>5 DEF WellFormed
<1>7. Tail(r) = q
  <2>1. p \o Tail(r) = t \o q
    BY <1>1, <1>3
  <2>2. Len(p) = Len(t) => p = t /\ Tail(r) = q
    <3>1. p \in Bytes /\ Tail(r) \in Bytes /\ t \in Bytes /\ q \in Bytes
      BY <1>1, <1>2
    <3>2. PICK v \in Bytes : v = Tail(r)
      BY <3>1
    <3>3. p \o v = t \o q
      BY <2>1, <3>2
    <3>. QED BY ONLY <3>1, <3>2, <3>3, Cuts
  <2>. QED BY <1>2, <1>6, <2>2
<1>8. r[1] = Meaning(t)
  BY <1>2, <1>5 DEF Meaning
<1>. QED BY <1>7, <1>8 DEF t, q

(* t is the key that e begins with, behind its ESC, and r goes on.         *)
KeyBegins(d, t, e, r) ==
  /\ Len(d) # 0 /\ t \in Bytes /\ t[1] = "ESC" /\ WellFormed(t) /\ Len(t) > 2
  /\ \A k \in 1 .. Len(e) : k + 1 <= Len(t) => e[k] = t[k + 1]
  /\ Len(t) = Len(e) + 1 => Meaning(t) = Lookup(e) /\ r = FlattenSeq(Tail(d))

(* Behind an ESC the bytes taken are those of the next key.                *)
LEMMA EscKey ==
  ASSUME NEW d \in Seq(Typed), NEW e \in Bytes, NEW r \in Bytes,
         (<<"ESC">> \o e) \o r = FlattenSeq(d), NEW t, t = Head(d), Keyboard
  PROVE  KeyBegins(d, t, e, r)
<1>. DEFINE p == <<"ESC">> \o e
            q == FlattenSeq(Tail(d))
            x == p \o r
<1>1. /\ p \in Bytes /\ Len(p) = Len(e) + 1 /\ p[1] = "ESC" /\ Tail(p) = e
      /\ \A k \in 1 .. Len(e) : p[k + 1] = e[k]
  <2>1. "ESC" \in Name
    BY DEF Name
  <2>. HIDE DEF p
  <2>. QED BY <2>1, AfterEsc DEF p
<1>2. Len(e) \in Nat /\ Len(r) \in Nat
  BY DEF Bytes
<1>3. x \in Bytes /\ Len(x) # 0 /\ x = FlattenSeq(d)
  <2>. HIDE DEF p
  <2>1. x \in Bytes /\ Len(x) = Len(p) + Len(r)
    BY <1>1, JoinedTyped DEF Bytes
  <2>2. x = FlattenSeq(d)
    BY DEF p
  <2>. HIDE DEF x
  <2>. QED BY <1>1, <1>2, <2>1, <2>2
<1>4. t \in Bytes /\ q \in Bytes /\ x = t \o q /\ t \in Typed /\ Len(d) # 0
  <2>. HIDE DEF x
  <2>. QED BY <1>3, NextKey
<1>5. Len(t) # 0 /\ WellFormed(t) /\ Len(t) \in Nat
  BY <1>4, KeysAre DEF Bytes, Keyboard
<1>. HIDE DEF p, q
<1>10. /\ \A k \in 1 .. Len(p) : k <= Len(t) => p[k] = t[k]
       /\ Len(p) = Len(t) => p = t /\ r = q
  <2>1. p \o r = t \o q
    BY <1>4
  <2>. HIDE DEF x
  <2>2. p \in Bytes /\ r \in Bytes /\ t \in Bytes /\ q \in Bytes
    BY <1>1, <1>4
  <2>3. Len(p) = Len(t) => p = t /\ r = q
    BY ONLY <2>1, <2>2, Cuts
  <2>4. ASSUME NEW k \in 1 .. Len(p), k <= Len(t) PROVE p[k] = t[k]
    BY ONLY <2>1, <2>2, k \in 1 .. Len(p), <2>4, Cuts
  <2>. QED BY <2>3, <2>4
<1>6. t[1] = "ESC"
  <2>1. 1 \in 1 .. Len(p) /\ 1 <= Len(t)
    BY <1>1, <1>2, <1>5
  <2>. QED BY <1>1, <1>4, <2>1, Cuts
<1>7. Len(t) > 2
  BY <1>5, <1>6 DEF WellFormed
<1>8. ASSUME NEW k \in 1 .. Len(e), k + 1 <= Len(t) PROVE e[k] = t[k + 1]
  <2>1. PICK m \in 1 .. Len(p) : m = k + 1
    BY <1>1, <1>2
  <2>2. p[m] = t[m]
    BY <1>8, <1>10, <2>1
  <2>. QED BY <1>1, <2>1, <2>2
<1>9. ASSUME Len(t) = Len(e) + 1 PROVE Meaning(t) = Lookup(e) /\ r = q
  <2>1. p = t /\ r = q
    BY <1>1, <1>9, <1>10
  <2>2. Tail(t) = e
    BY <1>1, <2>1
  <2>. QED BY <1>6, <2>1, <2>2 DEF Meaning
<1>. QED BY <1>4, <1>5, <1>6, <1>7, <1>8, <1>9 DEF q, KeyBegins

(* Without a digit the sequence is complete.                               *)
LEMMA ShortSequence ==
  ASSUME NEW d \in Seq(Typed), NEW e \in Bytes, NEW r \in Bytes,
         (<<"ESC">> \o e) \o r = FlattenSeq(d), Len(e) = 2, e[2] \notin Digits,
         Keyboard
  PROVE  Len(d) # 0 /\ r = FlattenSeq(Tail(d)) /\ Lookup(e) = Meaning(Head(d))
<1>. DEFINE t == Head(d)
<1>0. t = Head(d)
  OBVIOUS
<1>. HIDE DEF t
<1>8. KeyBegins(d, t, e, r)
  BY <1>0, EscKey
<1>1. /\ Len(d) # 0 /\ t \in Bytes /\ t[1] = "ESC" /\ WellFormed(t) /\ Len(t) > 2
      /\ \A k \in 1 .. Len(e) : k + 1 <= Len(t) => e[k] = t[k + 1]
      /\ Len(t) = Len(e) + 1 => Meaning(t) = Lookup(e) /\ r = FlattenSeq(Tail(d))
  BY <1>8 DEF KeyBegins
<1>2. Len(t) \in Nat
  BY <1>1 DEF Bytes
<1>3. e[2] = t[3]
  <2>1. 2 \in 1 .. Len(e) /\ 2 + 1 <= Len(t) /\ 2 + 1 = 3
    BY <1>1, <1>2
  <2>2. e[2] = t[2 + 1]
    BY <1>1, <2>1
  <2>. QED BY <2>1, <2>2
<1>4. Len(t) = 3
  <2>1. ~(Len(t) > 3)
    BY <1>1, <1>3 DEF WellFormed
  <2>2. Len(t) > 2
    BY <1>1
  <2>3. PICK n \in Nat : n = Len(t)
    BY <1>2
  <2>4. n > 2 /\ ~(n > 3)
    BY ONLY <2>1, <2>2, <2>3
  <2>5. n = 3
    BY ONLY <2>4, n \in Nat
  <2>. QED BY ONLY <2>3, <2>5
<1>. QED BY <1>1, <1>4 DEF t

(* With a digit it goes on, until a ~ or the fifth byte.                   *)
LEMMA LongSequence ==
  ASSUME NEW d \in Seq(Typed), NEW e \in Bytes, NEW r \in Bytes,
         (<<"ESC">> \o e) \o r = FlattenSeq(d), Len(e) \in 3 .. EscSize, e[2] \in Digits,
         \A j \in 3 .. Len(e) - 1 : e[j] # "~", e[Len(e)] = "~" \/ Len(e) = EscSize,
         Keyboard
  PROVE  Len(d) # 0 /\ r = FlattenSeq(Tail(d)) /\ Lookup(e) = Meaning(Head(d))
<1>. DEFINE t == Head(d)
            n == Len(t)
            m == Len(e)
<1>0. t = Head(d)
  OBVIOUS
<1>. HIDE DEF t
<1>8. KeyBegins(d, t, e, r)
  BY <1>0, EscKey
<1>1. /\ Len(d) # 0 /\ t \in Bytes /\ t[1] = "ESC" /\ WellFormed(t) /\ Len(t) > 2
      /\ \A k \in 1 .. Len(e) : k + 1 <= Len(t) => e[k] = t[k + 1]
      /\ Len(t) = Len(e) + 1 => Meaning(t) = Lookup(e) /\ r = FlattenSeq(Tail(d))
  BY <1>8 DEF KeyBegins
<1>2. n \in Nat /\ m \in Nat /\ 3 <= m /\ m <= 5 /\ m \in 3 .. 5
  <2>1. n \in Nat
    BY <1>1 DEF Bytes
  <2>2. m \in 3 .. 5
    BY DEF EscSize
  <2>. HIDE DEF n, m
  <2>. QED BY <2>1, <2>2
<1>3. n > 3
  <2>1. 2 \in 1 .. Len(e) /\ 2 + 1 <= Len(t) /\ 2 + 1 = 3
    BY <1>1, <1>2
  <2>2. e[2] = t[2 + 1]
    BY <1>1, <2>1
  <2>. QED BY <1>1, <2>1, <2>2 DEF WellFormed
<1>4. /\ n <= 6
      /\ \A j \in 4 .. n - 1 : t[j] # "~"
      /\ n <= 5 => t[n] = "~"
  BY <1>1, <1>2, <1>3 DEF WellFormed, EscSize
<1>5. ~(n < m + 1)
  <2>1. SUFFICES ASSUME n < m + 1 PROVE FALSE
    OBVIOUS
  <2>2. n <= 5 /\ t[n] = "~"
    BY <1>2, <1>4, <2>1, SMTT(30)
  <2>3. PICK j \in Nat : j = n - 1 /\ j \in 3 .. m - 1 /\ j \in 1 .. m /\ j + 1 = n
    <3>1. n - 1 \in Nat /\ n - 1 \in 3 .. m - 1 /\ n - 1 \in 1 .. m /\ (n - 1) + 1 = n
      BY <1>2, <1>3, <2>1
    <3>. QED BY <3>1
  <2>4. e[j] = t[n]
    BY <1>1, <1>2, <2>3
  <2>5. e[j] # "~"
    BY <2>3
  <2>. QED BY <2>2, <2>4, <2>5
<1>6. ~(n > m + 1)
  <2>1. SUFFICES ASSUME n > m + 1 PROVE FALSE
    OBVIOUS
  <2>2. m # 5
    BY <1>2, <1>4, <2>1, SMTT(30)
  <2>3. e[m] = "~"
    BY <2>2 DEF EscSize
  <2>4. PICK j \in Nat : j = m + 1 /\ j \in 4 .. n - 1 /\ j <= n
    <3>1. m + 1 \in Nat /\ m + 1 \in 4 .. n - 1 /\ m + 1 <= n
      BY <1>2, <2>1
    <3>. QED BY <3>1
  <2>5. e[m] = t[j]
    <3>1. m \in 1 .. Len(e) /\ m + 1 <= Len(t)
      BY <1>2, <2>1
    <3>. QED BY <1>1, <2>4, <3>1
  <2>6. t[j] # "~"
    BY <1>4, <2>4
  <2>. QED BY <2>3, <2>5, <2>6
<1>7. n = m + 1
  BY <1>2, <1>5, <1>6
<1>. QED BY <1>1, <1>7 DEF t

(* A sequence of five bytes that does not end in ~ is in no table.         *)
LEMMA NotListed ==
  ASSUME NEW e, Len(e) = EscSize
  PROVE  Lookup(e) = NotAKey
BY DEF Lookup, EscSize

(* A key found is the name of a key.                                       *)
LEMMA LookupTyped ==
  ASSUME NEW e
  PROVE  Lookup(e) \in Name
<1>1. \A x \in DOMAIN Letter : Letter[x] \in Name
  BY DEF Letter, Name
<1>2. \A x \in DOMAIN Number : Number[x] \in Name
  BY DEF Number, Name
<1>3. NotAKey \in Name
  BY DEF Name
<1>. QED BY <1>1, <1>2, <1>3 DEF Lookup

(* A byte is shown as a sequence of bytes.                                 *)
LEMMA ShownTyped ==
  ASSUME NEW c \in Name
  PROVE  ShownAs(c) \in Bytes
<1>1. "CR" \in Name /\ "LF" \in Name
  BY DEF Name
<1>2. <<"CR", "LF">> \in Seq(Name)
  BY <1>1
<1>3. <<c>> \in Seq(Name)
  BY OneByte
<1>. QED BY <1>2, <1>3 DEF ShownAs, Bytes

(* What is shown of a text, a sequence of sequences as long as the text.   *)
LEMMA ShownIs ==
  ASSUME NEW s \in Bytes
  PROVE  /\ Shown(s) \in Seq(Bytes) /\ Len(Shown(s)) = Len(s)
         /\ \A k \in 1 .. Len(s) : Shown(s)[k] = ShownAs(s[k])
<1>1. Len(s) \in Nat
  BY DEF Bytes
<1>2. \A k \in 1 .. Len(s) : ShownAs(s[k]) \in Bytes
  <2>1. \A k \in 1 .. Len(s) : s[k] \in Name
    BY DEF Bytes
  <2>. QED BY <2>1, ShownTyped
<1>3. Shown(s) \in [1 .. Len(s) -> Bytes]
  BY <1>2 DEF Shown
<1>4. Shown(s) \in Seq(Bytes) /\ Len(Shown(s)) = Len(s)
  BY <1>1, <1>3
<1>. QED BY <1>4 DEF Shown

(* The first byte of a text is the first on the line, behind a carriage    *)
(* return if it is a newline.                                              *)
LEMMA LineHead ==
  ASSUME NEW s \in Bytes, Len(s) # 0
  PROVE  Line(s) = ShownAs(s[1]) \o Line(Tail(s))
<1>. DEFINE a == Shown(s)
            b == Shown(Tail(s))
            n == Len(s)
<1>1. /\ n \in Nat /\ n # 0 /\ Tail(s) \in Bytes /\ Len(Tail(s)) = n - 1
      /\ \A k \in 1 .. n - 1 : Tail(s)[k] = s[k + 1]
  <2>1. n \in Nat /\ n # 0
    BY DEF Bytes
  <2>2. Tail(s) \in Bytes /\ Len(Tail(s)) = n - 1
    BY DEF Bytes
  <2>3. \A k \in 1 .. n - 1 : Tail(s)[k] = s[k + 1]
    BY DEF Bytes
  <2>. QED BY <2>1, <2>2, <2>3
<1>2. a \in Seq(Bytes) /\ Len(a) = n /\ \A k \in 1 .. n : a[k] = ShownAs(s[k])
  BY ShownIs
<1>3. b \in Seq(Bytes) /\ Len(b) = n - 1 /\ \A k \in 1 .. n - 1 : b[k] = ShownAs(Tail(s)[k])
  <2>1. b \in Seq(Bytes) /\ Len(b) = Len(Tail(s))
        /\ \A k \in 1 .. Len(Tail(s)) : b[k] = ShownAs(Tail(s)[k])
    BY <1>1, ShownIs
  <2>. QED BY <1>1, <2>1
<1>. HIDE DEF a, b
<1>4. Head(a) = ShownAs(s[1]) /\ Tail(a) \in Seq(Bytes) /\ Len(Tail(a)) = n - 1
      /\ \A k \in 1 .. n - 1 : Tail(a)[k] = a[k + 1]
  <2>1. Head(a) = a[1] /\ 1 \in 1 .. n
    BY <1>1, <1>2
  <2>2. Tail(a) \in Seq(Bytes) /\ Len(Tail(a)) = n - 1
    BY <1>1, <1>2
  <2>3. \A k \in 1 .. n - 1 : Tail(a)[k] = a[k + 1]
    BY <1>1, <1>2
  <2>. QED BY <1>2, <2>1, <2>2, <2>3
<1>5. ASSUME NEW k \in 1 .. n - 1 PROVE Tail(a)[k] = b[k]
  <2>1. PICK m \in 1 .. n : m = k + 1
    BY <1>1
  <2>2. Tail(a)[k] = a[m] /\ b[k] = ShownAs(Tail(s)[k]) /\ Tail(s)[k] = s[m]
    BY <1>1, <1>3, <1>4, <2>1
  <2>3. a[m] = ShownAs(s[m])
    BY <1>2
  <2>. QED BY <2>2, <2>3
<1>6. Tail(a) = b
  <2>1. \A k \in 1 .. Len(Tail(a)) : Tail(a)[k] = b[k]
    BY <1>4, <1>5
  <2>2. Len(Tail(a)) = Len(b)
    BY <1>3, <1>4
  <2>. QED BY <1>3, <1>4, <2>1, <2>2, SeqEqual
<1>7. FlattenSeq(a) = Head(a) \o FlattenSeq(Tail(a))
  <2>1. a \in Seq(Seq(Name)) /\ Len(a) # 0
    BY <1>1, <1>2 DEF Bytes
  <2>. QED BY <2>1, FlattenHead, Zenon
<1>. QED BY <1>4, <1>6, <1>7 DEF Line, a, b

(* What the line shows is a sequence of bytes, of an empty text nothing.   *)
LEMMA LineTyped ==
  /\ \A s \in Bytes : Line(s) \in Bytes
  /\ Line(<<>>) = <<>>
<1>1. ASSUME NEW s \in Bytes PROVE Line(s) \in Bytes
  <2>1. Shown(s) \in Seq(Seq(Name))
    BY ShownIs DEF Bytes
  <2>. QED BY <2>1, FlattenTyped DEF Line, Bytes
<1>2. Line(<<>>) = <<>>
  <2>1. <<>> \in Bytes /\ Len(<<>>) = 0
    BY DEF Bytes
  <2>2. Shown(<<>>) \in Seq(Bytes) /\ Len(Shown(<<>>)) = 0
    BY <2>1, ShownIs
  <2>3. Shown(<<>>) = <<>>
    BY <2>2
  <2>. QED BY <2>3, FlattenTyped DEF Line
<1>. QED BY <1>1, <1>2

(* The initial states satisfy the invariant.                               *)
LEMMA ConsoleStarts == Keyboard /\ ConsoleInit => ConsoleInvariant
<1>. SUFFICES ASSUME Keyboard, ConsoleInit PROVE ConsoleInvariant
  OBVIOUS
<1>0. <<>> \in Bytes /\ <<>> \in Seq(Typed)
  BY DEF Bytes
<1>1. /\ uart.rx = <<>> /\ uart.thr = <<>> /\ uart.sent = <<>>
      /\ con.pc = "idle" /\ con.key = NoKey /\ con.text = <<>> /\ due = <<>>
  BY DEF ConsoleInit
<1>2. ConsoleTypes
  <2>1. NoKey \in Name
    BY DEF Name
  <2>. QED BY <1>0, <2>1 DEF ConsoleInit, ConsoleTypes, ConType, Places
<1>3. KeyInvariant
  <2>1. FlattenSeq(<<>>) = <<>>
    BY FlattenTyped
  <2>. QED BY <1>1, <2>1 DEF KeyInvariant, InSequence, Printing
<1>4. OutputInvariant
  <2>1. <<>> \o <<>> = <<>>
    OBVIOUS
  <2>. QED BY <1>1, <2>1, LineTyped DEF OutputInvariant, Printing
<1>. QED BY <1>2, <1>3, <1>4 DEF ConsoleInvariant

(* What has been typed lengthens what is unread.                           *)
LEMMA TypeStep ==
  ASSUME ConsoleInvariant, Type
  PROVE  ConsoleInvariant'
<1>. DEFINE p == <<"ESC">> \o con.esc
<1>0. ConsoleTypes /\ KeyInvariant /\ OutputInvariant
  BY DEF ConsoleInvariant
<1>1. PICK t \in Typed : uart' = [uart EXCEPT !.rx = @ \o t] /\ due' = Append(due, t) /\ con' = con
  BY DEF Type
<1>2. /\ uart \in [rx : Bytes, thr : Bytes, sent : Bytes] /\ uart.rx \in Bytes /\ con.esc \in Bytes
      /\ due \in Seq(Typed) /\ due \in Seq(Bytes) /\ t \in Bytes
  BY <1>0, KeysAre DEF ConsoleTypes, ConType
<1>3. uart.rx \o t \in Bytes
  BY <1>2, JoinedTyped DEF Bytes
<1>4. uart'.rx = uart.rx \o t /\ uart'.thr = uart.thr /\ uart'.sent = uart.sent
  BY <1>1, <1>2
<1>5. ConsoleTypes'
  <2>1. uart' \in [rx : Bytes, thr : Bytes, sent : Bytes]
    BY <1>1, <1>2, <1>3
  <2>2. due' \in Seq(Typed)
    BY <1>1, <1>2
  <2>. QED BY <1>0, <1>1, <2>1, <2>2 DEF ConsoleTypes, ConType
<1>6. FlattenSeq(due') = FlattenSeq(due) \o t
  BY <1>1, <1>2, FlattenAppend DEF Bytes
<1>7. p \o uart'.rx = (p \o uart.rx) \o t
  <2>1. "ESC" \in Name
    BY DEF Name
  <2>2. p \in Bytes
    BY <1>2, <2>1, AfterEsc
  <2>. HIDE DEF p
  <2>4. PICK x \in Bytes : x = uart.rx
    BY <1>2
  <2>5. p \in Seq(Name) /\ x \in Seq(Name) /\ t \in Seq(Name)
    BY <1>2, <2>2 DEF Bytes
  <2>6. p \o (x \o t) = (p \o x) \o t
    BY ONLY <2>5, Associative
  <2>3. p \o (uart.rx \o t) = (p \o uart.rx) \o t
    BY <2>4, <2>6
  <2>. QED BY <1>4, <2>3
<1>8. KeyInvariant'
  <2>1. con.pc \in InSequence => p \o uart.rx = FlattenSeq(due)
    BY <1>0 DEF KeyInvariant
  <2>2. con.pc \in InSequence => p \o uart'.rx = FlattenSeq(due')
    BY <1>6, <1>7, <2>1
  <2>3. con.pc \notin InSequence => uart'.rx = FlattenSeq(due')
    BY <1>0, <1>4, <1>6 DEF KeyInvariant
  <2>. QED BY <1>0, <1>1, <2>2, <2>3 DEF KeyInvariant
<1>9. OutputInvariant'
  BY <1>0, <1>1, <1>4 DEF OutputInvariant
<1>. QED BY <1>5, <1>8, <1>9 DEF ConsoleInvariant

(* The transmitter takes the byte that was last written.                   *)
LEMMA TransmitStep ==
  ASSUME ConsoleInvariant, Transmit
  PROVE  ConsoleInvariant'
<1>0. ConsoleTypes /\ KeyInvariant /\ OutputInvariant
  BY DEF ConsoleInvariant
<1>1. /\ uart' = [uart EXCEPT !.thr = <<>>, !.sent = @ \o uart.thr]
      /\ con' = con /\ due' = due
  BY DEF Transmit
<1>2. /\ uart \in [rx : Bytes, thr : Bytes, sent : Bytes]
      /\ uart.thr \in Bytes /\ uart.sent \in Bytes /\ <<>> \in Bytes
  BY <1>0 DEF ConsoleTypes, ConType, Bytes
<1>3. uart.sent \o uart.thr \in Bytes
  BY <1>2, JoinedTyped DEF Bytes
<1>4. uart'.rx = uart.rx /\ uart'.thr = <<>> /\ uart'.sent = uart.sent \o uart.thr
  BY <1>1, <1>2
<1>5. ConsoleTypes'
  BY <1>0, <1>1, <1>2, <1>3 DEF ConsoleTypes, ConType
<1>6. uart'.sent \o uart'.thr = uart.sent \o uart.thr
  <2>1. \A s \in Bytes : s \o <<>> = s
    BY DEF Bytes
  <2>. QED BY <1>3, <1>4, <2>1
<1>7. KeyInvariant'
  BY <1>0, <1>1, <1>4 DEF KeyInvariant
<1>8. OutputInvariant'
  BY <1>0, <1>1, <1>6 DEF OutputInvariant
<1>. QED BY <1>5, <1>7, <1>8 DEF ConsoleInvariant

(* read_key() begins.                                                      *)
LEMMA ReadKeyStep ==
  ASSUME ConsoleInvariant, ReadKey
  PROVE  ConsoleInvariant'
<1>0. ConsoleTypes /\ KeyInvariant /\ OutputInvariant
  BY DEF ConsoleInvariant
<1>1. /\ con.pc = "idle" /\ con' = [con EXCEPT !.pc = "first", !.esc = <<>>, !.key = NoKey]
      /\ uart' = uart /\ due' = due
  BY DEF ReadKey
<1>2. /\ con'.pc = "first" /\ con'.esc = <<>> /\ con'.key = NoKey
      /\ con'.text = con.text /\ con'.rest = con.rest
  BY <1>0, <1>1 DEF ConsoleTypes, ConType
<1>3. ConsoleTypes'
  <2>1. NoKey \in Name /\ <<>> \in Bytes
    BY DEF Name, Bytes
  <2>. QED BY <1>0, <1>1, <2>1 DEF ConsoleTypes, ConType, Places
<1>4. KeyInvariant'
  BY <1>0, <1>1, <1>2 DEF KeyInvariant, InSequence, Printing
<1>5. OutputInvariant'
  BY <1>0, <1>1, <1>2 DEF OutputInvariant, Printing
<1>. QED BY <1>3, <1>4, <1>5 DEF ConsoleInvariant

(* getchar() takes the byte that comes next.                               *)
LEMMA GotByte ==
  ASSUME ConsoleTypes, NEW pc, NEW state, Got(pc, state)
  PROVE  /\ con.pc = pc /\ con' = state
         /\ Len(uart.rx) # 0 /\ Head(uart.rx) = uart.rx[1] /\ uart.rx[1] \in Name
         /\ uart'.rx = Tail(uart.rx) /\ uart'.sent = uart.sent /\ uart'.thr = uart.thr
         /\ uart' \in [rx : Bytes, thr : Bytes, sent : Bytes] /\ uart.rx \in Bytes
         /\ Append(con.esc, uart.rx[1]) \in Bytes
         /\ (<<"ESC">> \o Append(con.esc, uart.rx[1])) \o uart'.rx = (<<"ESC">> \o con.esc) \o uart.rx
<1>1. /\ con.pc = pc /\ uart.rx # <<>> /\ uart' = [uart EXCEPT !.rx = Tail(@)] /\ con' = state
  BY DEF Got
<1>2. uart \in [rx : Bytes, thr : Bytes, sent : Bytes] /\ uart.rx \in Bytes /\ con.esc \in Bytes
  BY DEF ConsoleTypes, ConType
<1>3. PICK x \in Bytes : x = uart.rx
  BY <1>2
<1>4. /\ Len(x) \in Nat /\ Len(x) # 0 /\ Head(x) = x[1] /\ x[1] \in Name /\ Tail(x) \in Bytes
  BY <1>1, <1>3, FirstByte
<1>5. /\ uart'.rx = Tail(x) /\ uart'.sent = uart.sent /\ uart'.thr = uart.thr
      /\ uart' \in [rx : Bytes, thr : Bytes, sent : Bytes]
  <2>1. uart' = [uart EXCEPT !.rx = Tail(x)]
    BY <1>1, <1>3
  <2>. QED BY <1>2, <1>4, <2>1
<1>6. PICK e \in Bytes : e = con.esc
  BY <1>2
<1>7. PICK c \in Name : c = x[1]
  BY <1>4
<1>8. Append(e, c) \in Bytes
  BY DEF Bytes
<1>. DEFINE p == <<"ESC">> \o e
<1>9. p \in Bytes /\ <<"ESC">> \o Append(e, c) = Append(p, c)
  BY AfterEsc
<1>. HIDE DEF p
<1>10. Append(p, c) \o Tail(x) = p \o x
  <2>1. Append(p, Head(x)) \o Tail(x) = p \o x
    BY <1>4, <1>9, ByteTaken
  <2>. QED BY <1>4, <1>7, <2>1
<1>11. (<<"ESC">> \o Append(e, c)) \o Tail(x) = (<<"ESC">> \o e) \o x
  BY <1>9, <1>10 DEF p
<1>. QED BY <1>1, <1>3, <1>4, <1>5, <1>6, <1>7, <1>8, <1>11

(* A key has been returned.                                                *)
LEMMA KeyReturned ==
  ASSUME ConsoleInvariant, NEW pc, NEW state, Got(pc, state), pc \notin Printing, NEW key,
         key = Meaning(Head(due)), key \in Name, Len(due) # 0, due' = Tail(due),
         Tail(uart.rx) = FlattenSeq(Tail(due)),
         state.pc = "idle", state.key = key, state.of = Head(due),
         state.text = con.text, state.rest = con.rest,
         state \in ConType
  PROVE  ConsoleInvariant'
<1>0. ConsoleTypes /\ KeyInvariant /\ OutputInvariant
  BY DEF ConsoleInvariant
<1>1. /\ con.pc = pc /\ con' = state
      /\ uart'.rx = Tail(uart.rx) /\ uart'.sent = uart.sent /\ uart'.thr = uart.thr
      /\ uart' \in [rx : Bytes, thr : Bytes, sent : Bytes]
  BY <1>0, GotByte
<1>2. Head(due) \in Bytes /\ Len(Head(due)) # 0 /\ Tail(due) \in Seq(Typed)
  <2>1. due \in Seq(Typed)
    BY <1>0 DEF ConsoleTypes, ConType
  <2>2. Head(due) \in Typed /\ Tail(due) \in Seq(Typed)
    BY <2>1
  <2>. QED BY <2>2, KeysAre
<1>3. ConsoleTypes'
  <2>1. con.text \in Bytes /\ con.rest \in Bytes
    BY <1>0 DEF ConsoleTypes, ConType
  <2>2. con' \in ConType
    BY <1>1, <1>2, <2>1
  <2>3. due' \in Seq(Typed) /\ Keyboard
    BY <1>0, <1>2 DEF ConsoleTypes
  <2>. QED BY <1>1, <2>2, <2>3 DEF ConsoleTypes
<1>4. KeyInvariant'
  BY <1>1, <1>2 DEF KeyInvariant, InSequence, Printing
<1>5. OutputInvariant'
  BY <1>0, <1>1 DEF OutputInvariant, Printing
<1>. QED BY <1>3, <1>4, <1>5 DEF ConsoleInvariant

(* A byte of a sequence that goes on has been stored.                      *)
LEMMA SequenceGoesOn ==
  ASSUME ConsoleInvariant, NEW pc, NEW state, Got(pc, state), pc \in InSequence, due' = due,
         NEW to, to \in {"esc1", "loop"},
         NEW e, e = Append(con.esc, uart.rx[1]),
         state.pc = to, state.esc = e, state.key = con.key,
         state.of = con.of, state.text = con.text, state.rest = con.rest,
         state \in ConType,
         to = "esc1" => Len(e) = 1,
         to = "loop" => /\ Len(e) \in 2 .. EscSize - 1
                        /\ e[2] \in Digits
                        /\ \A j \in 3 .. Len(e) : e[j] # "~"
  PROVE  ConsoleInvariant'
<1>0. ConsoleTypes /\ KeyInvariant /\ OutputInvariant
  BY DEF ConsoleInvariant
<1>1. /\ con.pc = pc /\ con' = state
      /\ uart'.rx = Tail(uart.rx) /\ uart'.sent = uart.sent /\ uart'.thr = uart.thr
      /\ uart' \in [rx : Bytes, thr : Bytes, sent : Bytes]
      /\ e \in Bytes
      /\ (<<"ESC">> \o e) \o uart'.rx = (<<"ESC">> \o con.esc) \o uart.rx
  BY <1>0, GotByte
<1>2. ConsoleTypes'
  <2>1. con.text \in Bytes /\ con.rest \in Bytes /\ con.key \in Name /\ con.of \in Bytes
    BY <1>0 DEF ConsoleTypes, ConType
  <2>2. con' \in ConType
    BY <1>1, <2>1 DEF InSequence
  <2>. QED BY <1>0, <1>1, <2>2 DEF ConsoleTypes, ConType
<1>3. con'.pc = to /\ con'.esc = e /\ con'.text = con.text /\ con'.rest = con.rest
  BY <1>1
<1>4. (<<"ESC">> \o con'.esc) \o uart'.rx = FlattenSeq(due')
  <2>1. (<<"ESC">> \o con.esc) \o uart.rx = FlattenSeq(due)
    BY <1>0, <1>1 DEF KeyInvariant
  <2>. QED BY <1>1, <1>3, <2>1
<1>5. KeyInvariant'
  <2>. DEFINE whole == (<<"ESC">> \o con'.esc) \o uart'.rx = FlattenSeq(due')
  <2>1. to = "esc1" \/ to = "loop"
    OBVIOUS
  <2>2. whole
    BY <1>4
  <2>. HIDE DEF whole
  <2>3. /\ con'.pc \in InSequence /\ con'.pc \notin {"first", "esc0"}
        /\ con'.pc \notin {"idle"} \cup Printing
    BY <1>3, <2>1 DEF InSequence, Printing
  <2>4. con'.pc = "esc1" => Len(con'.esc) = 1
    BY <1>3
  <2>5. con'.pc = "loop" => /\ Len(con'.esc) \in 2 .. EscSize - 1
                            /\ con'.esc[2] \in Digits
                            /\ \A j \in 3 .. Len(con'.esc) : con'.esc[j] # "~"
    BY <1>3
  <2>. QED BY <2>2, <2>3, <2>4, <2>5 DEF KeyInvariant, whole
<1>6. OutputInvariant'
  <2>1. con.pc \notin Printing /\ con'.pc \notin Printing
    BY <1>1, <1>3 DEF InSequence, Printing
  <2>2. con'.pc # "puts" /\ con'.pc # "put"
    BY <2>1 DEF Printing
  <2>3. uart'.sent \o uart'.thr = Line(con'.text)
    BY <1>0, <1>1, <1>3, <2>1 DEF OutputInvariant
  <2>. QED BY <2>2, <2>3 DEF OutputInvariant
<1>. QED BY <1>2, <1>5, <1>6 DEF ConsoleInvariant

(* What a state is made of.                                                *)
LEMMA ConIs ==
  ASSUME ConsoleTypes
  PROVE  /\ con.esc \in Bytes /\ Len(con.esc) \in Nat /\ con.key \in Name /\ con.of \in Bytes
         /\ con.text \in Bytes /\ con.rest \in Bytes /\ due \in Seq(Typed)
         /\ Keyboard
BY DEF ConsoleTypes, ConType, Bytes

(* While a key is due it is the one that is returned.                      *)
LEMMA DueFirst ==
  ASSUME due \in Seq(Typed), Len(due) # 0
  PROVE  FirstDue = Head(due) /\ (Answered <=> due' = Tail(due))
BY DEF FirstDue, Answered

(* The first byte of a key.                                                *)
LEMMA FirstStep ==
  ASSUME ConsoleInvariant, First
  PROVE  ConsoleInvariant'
<1>. DEFINE c == Head(uart.rx)
            more == [con EXCEPT !.pc = "esc0"]
            done == Returned(con, c)
<1>0. ConsoleTypes /\ KeyInvariant /\ OutputInvariant
  BY DEF ConsoleInvariant
<1>1. \/ Got("first", more) /\ c = "ESC" /\ due' = due
      \/ Got("first", done) /\ c # "ESC" /\ Answered
  BY DEF First
<1>2. con.pc = "first"
  BY <1>1 DEF Got
<1>3. uart.rx = FlattenSeq(due) /\ con.esc = <<>>
  BY <1>0, <1>2 DEF KeyInvariant, InSequence
<1>4. CASE Got("first", more) /\ c = "ESC" /\ due' = due
  <2>. HIDE DEF more
  <2>1. /\ con' = more /\ Len(uart.rx) # 0 /\ c = uart.rx[1] /\ uart.rx \in Bytes
        /\ uart'.rx = Tail(uart.rx) /\ uart'.sent = uart.sent /\ uart'.thr = uart.thr
        /\ uart' \in [rx : Bytes, thr : Bytes, sent : Bytes]
    BY <1>0, <1>4, GotByte
  <2>. USE DEF more
  <2>2. /\ con'.pc = "esc0" /\ con'.esc = <<>> /\ con'.text = con.text /\ con'.rest = con.rest
    BY <1>0, <1>3, <2>1 DEF ConsoleTypes, ConType
  <2>3. ConsoleTypes'
    <3>1. con' \in ConType
      BY <1>0, <2>1 DEF ConsoleTypes, ConType, Places, InSequence
    <3>. QED BY <1>0, <1>4, <2>1, <3>1 DEF ConsoleTypes, ConType
  <2>4. (<<"ESC">> \o con'.esc) \o uart'.rx = uart.rx
    <3>1. "ESC" \in Name
      BY DEF Name
    <3>2. <<"ESC">> \o <<>> = <<"ESC">>
      BY <1>0, <3>1, <1>3, AfterEsc, ConIs
    <3>3. <<Head(uart.rx)>> \o Tail(uart.rx) = uart.rx
      <4>1. PICK x \in Bytes : x = uart.rx
        BY <2>1
      <4>2. Len(x) # 0
        BY <2>1, <4>1
      <4>3. <<Head(x)>> \o Tail(x) = x
        BY ONLY <4>2, x \in Bytes DEF Bytes
      <4>. QED BY <4>1, <4>3
    <3>. QED BY <1>4, <2>1, <2>2, <3>2, <3>3
  <2>5. KeyInvariant'
    <3>. DEFINE whole == (<<"ESC">> \o con'.esc) \o uart'.rx = FlattenSeq(due')
    <3>1. whole
      BY <1>3, <1>4, <2>4
    <3>. HIDE DEF whole
    <3>2. /\ con'.pc \in InSequence /\ con'.pc \notin {"idle"} \cup Printing
          /\ con'.pc # "esc1" /\ con'.pc # "loop"
      BY <2>2 DEF InSequence, Printing
    <3>. QED BY <2>2, <3>1, <3>2 DEF KeyInvariant, whole
  <2>6. OutputInvariant'
    BY <1>0, <1>2, <2>1, <2>2 DEF OutputInvariant, Printing
  <2>. QED BY <2>3, <2>5, <2>6 DEF ConsoleInvariant
<1>5. CASE Got("first", done) /\ c # "ESC" /\ Answered
  <2>. HIDE DEF done
  <2>1. /\ Len(uart.rx) # 0 /\ c = uart.rx[1] /\ uart.rx \in Bytes /\ c \in Name
    BY <1>0, <1>5, GotByte
  <2>2. due \in Seq(Typed) /\ Len(due) # 0
    <3>1. due \in Seq(Typed)
      BY <1>0, ConIs
    <3>. QED BY <1>3, <2>1, <3>1, NextKey
  <2>7. FirstDue = Head(due) /\ due' = Tail(due)
    BY <1>5, <2>2, DueFirst
  <2>3. Tail(uart.rx) = FlattenSeq(Tail(due)) /\ c = Meaning(Head(due))
    BY <1>0, <1>3, <1>5, <2>1, <2>2, ConIs, PlainKey
  <2>. HIDE DEF c
  <2>4. /\ done.pc = "idle" /\ done.key = c /\ done.of = Head(due)
        /\ done.text = con.text /\ done.rest = con.rest /\ done.esc = con.esc
    <3>1. con \in ConType
      BY <1>0 DEF ConsoleTypes, ConType
    <3>. QED BY <2>7, <3>1 DEF done, Returned, ConType
  <2>5. "first" \notin Printing /\ done.esc \in Bytes
    BY <1>0, <2>4, ConIs DEF Printing
  <2>6. done \in ConType
    <3>1. Head(due) \in Bytes
      BY <1>3, <2>1, <2>2, NextKey
    <3>2. con \in ConType /\ "idle" \in Places
      BY <1>0 DEF ConsoleTypes, Places
    <3>. QED BY <2>1, <2>7, <3>1, <3>2 DEF done, Returned, ConType
  <2>. QED BY <1>5, <2>1, <2>2, <2>3, <2>4, <2>5, <2>6, <2>7, KeyReturned
<1>. QED BY <1>1, <1>4, <1>5

(* The states a byte of a sequence leads to.                               *)
MoreBytes(to) == [Stored EXCEPT !.pc = to]
KeyDone(key) == Returned(Stored, key)

(* The fields of the state in which a byte is stored.                      *)
LEMMA StoredIs ==
  ASSUME ConsoleTypes, NEW to, NEW key, NEW e, e = Append(con.esc, Head(uart.rx))
  PROVE  /\ Stored.esc = e /\ Stored.pc = con.pc /\ Stored.key = con.key /\ Stored.of = con.of
         /\ Stored.text = con.text /\ Stored.rest = con.rest
         /\ e \in Bytes => Stored \in ConType
         /\ MoreBytes(to).pc = to /\ MoreBytes(to).esc = e
         /\ MoreBytes(to).key = con.key /\ MoreBytes(to).of = con.of
         /\ MoreBytes(to).text = con.text /\ MoreBytes(to).rest = con.rest
         /\ KeyDone(key).pc = "idle" /\ KeyDone(key).key = key /\ KeyDone(key).of = FirstDue
         /\ KeyDone(key).text = con.text /\ KeyDone(key).rest = con.rest
         /\ KeyDone(key).esc = e
         /\ e \in Bytes /\ to \in Places => MoreBytes(to) \in ConType
         /\ e \in Bytes /\ key \in Name /\ FirstDue \in Bytes => KeyDone(key) \in ConType
<1>. DEFINE h == FirstDue
<1>0. con \in ConType
  BY DEF ConsoleTypes, ConType
<1>1. Stored = [con EXCEPT !.esc = e]
  BY DEF Stored
<1>2. MoreBytes(to) = [Stored EXCEPT !.pc = to]
  BY DEF MoreBytes
<1>3. KeyDone(key) = [Stored EXCEPT !.pc = "idle", !.key = key, !.of = h]
  BY DEF KeyDone, Returned
<1>4. "idle" \in Places
  BY DEF Places
<1>. HIDE DEF h
<1>5. /\ Stored.esc = e /\ Stored.pc = con.pc /\ Stored.key = con.key /\ Stored.of = con.of
      /\ Stored.text = con.text /\ Stored.rest = con.rest
  BY <1>0, <1>1 DEF ConType
<1>6. /\ MoreBytes(to).pc = to /\ MoreBytes(to).esc = e
      /\ MoreBytes(to).key = con.key /\ MoreBytes(to).of = con.of
      /\ MoreBytes(to).text = con.text /\ MoreBytes(to).rest = con.rest
  BY <1>0, <1>1, <1>2 DEF ConType
<1>7. /\ KeyDone(key).pc = "idle" /\ KeyDone(key).key = key /\ KeyDone(key).of = h
      /\ KeyDone(key).text = con.text /\ KeyDone(key).rest = con.rest
      /\ KeyDone(key).esc = e
  BY <1>0, <1>1, <1>3 DEF ConType
<1>8. e \in Bytes => Stored \in ConType
  BY <1>0, <1>1 DEF ConType
<1>9. e \in Bytes /\ to \in Places => MoreBytes(to) \in ConType
  BY <1>2, <1>8 DEF ConType
<1>10. e \in Bytes /\ key \in Name /\ h \in Bytes => KeyDone(key) \in ConType
  BY <1>3, <1>4, <1>8 DEF ConType
<1>. QED BY <1>5, <1>6, <1>7, <1>8, <1>9, <1>10 DEF h

(* The byte behind the ESC.                                                *)
LEMMA Esc0Step ==
  ASSUME ConsoleInvariant, Esc0
  PROVE  ConsoleInvariant'
<1>. DEFINE e == Append(con.esc, Head(uart.rx))
            more == MoreBytes("esc1")
<1>0. ConsoleTypes /\ KeyInvariant /\ OutputInvariant
  BY DEF ConsoleInvariant
<1>1. Got("esc0", more) /\ due' = due
  BY DEF Esc0, MoreBytes
<1>2. con.pc = "esc0"
  BY <1>1 DEF Got
<1>3. con.esc = <<>>
  BY <1>0, <1>2 DEF KeyInvariant
<1>4. /\ more.pc = "esc1" /\ more.esc = e /\ more.key = con.key
      /\ more.of = con.of /\ more.text = con.text /\ more.rest = con.rest
  BY <1>0, StoredIs
<1>. HIDE DEF more
<1>5. Head(uart.rx) = uart.rx[1]
  BY <1>0, <1>1, GotByte
<1>6. Len(e) = 1
  BY <1>3
<1>7. e = Append(con.esc, uart.rx[1])
  BY <1>5
<1>. HIDE DEF e
<1>8. "esc0" \in InSequence
  BY DEF InSequence
<1>9. more \in ConType
  <2>1. e \in Bytes
    BY <1>0, <1>1, <1>7, GotByte
  <2>2. "esc1" \in Places
    BY DEF Places, InSequence
  <2>. QED BY <1>0, <2>1, <2>2, StoredIs DEF more, e
<1>. QED BY <1>1, <1>4, <1>6, <1>7, <1>8, <1>9, SequenceGoesOn

(* The byte that tells whether there are more.                             *)
LEMMA Esc1Step ==
  ASSUME ConsoleInvariant, Esc1
  PROVE  ConsoleInvariant'
<1>. DEFINE e == Append(con.esc, Head(uart.rx))
            more == MoreBytes("loop")
            key == Lookup(Stored.esc)
            done == KeyDone(key)
<1>0. ConsoleTypes /\ KeyInvariant /\ OutputInvariant
  BY DEF ConsoleInvariant
<1>1. \/ Got("esc1", more) /\ Head(uart.rx) \in Digits /\ due' = due
      \/ Got("esc1", done) /\ Head(uart.rx) \notin Digits /\ Answered
  BY DEF Esc1, MoreBytes, KeyDone
<1>2. con.pc = "esc1"
  BY <1>1 DEF Got
<1>3. Len(con.esc) = 1 /\ (<<"ESC">> \o con.esc) \o uart.rx = FlattenSeq(due)
  BY <1>0, <1>2 DEF KeyInvariant, InSequence
<1>4. /\ Stored.esc = e /\ more.pc = "loop" /\ more.esc = e /\ more.key = con.key
      /\ more.of = con.of /\ more.text = con.text /\ more.rest = con.rest
      /\ done.pc = "idle" /\ done.key = key /\ done.of = FirstDue
      /\ done.text = con.text /\ done.rest = con.rest /\ done.esc = e
  <2>. HIDE DEF key
  <2>. QED BY <1>0, StoredIs
<1>. HIDE DEF more, done
<1>5. Head(uart.rx) = uart.rx[1] /\ e \in Bytes /\ Tail(uart.rx) \in Bytes /\ uart.rx[1] \in Name
      /\ (<<"ESC">> \o e) \o Tail(uart.rx) = (<<"ESC">> \o con.esc) \o uart.rx
  <2>1. PICK state : Got("esc1", state)
    BY <1>1
  <2>2. /\ Head(uart.rx) = uart.rx[1] /\ uart'.rx = Tail(uart.rx) /\ uart.rx[1] \in Name
        /\ uart' \in [rx : Bytes, thr : Bytes, sent : Bytes]
        /\ Append(con.esc, uart.rx[1]) \in Bytes
        /\ (<<"ESC">> \o Append(con.esc, uart.rx[1])) \o uart'.rx = (<<"ESC">> \o con.esc) \o uart.rx
    BY <1>0, <2>1, GotByte
  <2>. QED BY <2>2
<1>6. Len(e) = 2 /\ e[2] = Head(uart.rx)
  <2>1. PICK x \in Bytes : x = con.esc
    BY <1>0, ConIs
  <2>2. PICK c \in Name : c = Head(uart.rx)
    BY <1>5
  <2>3. Len(x) = 1
    BY <1>3, <2>1
  <2>4. Len(Append(x, c)) = 2 /\ Append(x, c)[2] = c
    <3>1. Len(Append(x, c)) = Len(x) + 1 /\ Append(x, c)[Len(x) + 1] = c
      BY Appended DEF Bytes
    <3>2. 1 + 1 = 2
      OBVIOUS
    <3>. QED BY ONLY <2>3, <3>1, <3>2
  <2>. QED BY <2>1, <2>2, <2>4
<1>7. e = Append(con.esc, uart.rx[1])
  BY <1>5
<1>. HIDE DEF e
<1>8. "esc1" \in InSequence /\ "esc1" \notin Printing
  BY DEF InSequence, Printing
<1>9. due \in Seq(Typed)
  BY <1>0, ConIs
<1>10. CASE Got("esc1", more) /\ Head(uart.rx) \in Digits /\ due' = due
  <2>1. e[2] \in Digits /\ Len(e) \in 2 .. EscSize - 1 /\ \A j \in 3 .. Len(e) : e[j] # "~"
    BY <1>6, <1>10 DEF EscSize
  <2>2. more \in ConType
    <3>1. "loop" \in Places
      BY DEF Places, InSequence
    <3>. QED BY <1>0, <1>5, <3>1, StoredIs DEF more, e
  <2>. QED BY <1>4, <1>7, <1>8, <1>10, <2>1, <2>2, SequenceGoesOn
<1>11. CASE Got("esc1", done) /\ Head(uart.rx) \notin Digits /\ Answered
  <2>. DEFINE r == Tail(uart.rx)
  <2>1. (<<"ESC">> \o e) \o r = FlattenSeq(due) /\ r \in Bytes
    BY <1>3, <1>5
  <2>. HIDE DEF r
  <2>2. e[2] \notin Digits
    BY <1>6, <1>11
  <2>3. Len(due) # 0 /\ r = FlattenSeq(Tail(due)) /\ Lookup(e) = Meaning(Head(due))
    BY <1>0, <1>5, <1>6, <1>9, <2>1, <2>2, ConIs, ShortSequence
  <2>8. FirstDue = Head(due) /\ due' = Tail(due)
    BY <1>9, <1>11, <2>3, DueFirst
  <2>4. key = Meaning(Head(due)) /\ key \in Name
    BY <1>4, <2>3, LookupTyped
  <2>5. Tail(uart.rx) = FlattenSeq(Tail(due))
    BY <2>3 DEF r
  <2>6. Head(due) \in Bytes
    <3>1. Head(due) \in Typed
      BY <1>9, <2>3
    <3>. QED BY <3>1, KeysAre
  <2>. HIDE DEF key
  <2>7. done \in ConType
    BY <1>0, <1>5, <2>4, <2>6, <2>8, StoredIs DEF done, e
  <2>. QED BY <1>4, <1>5, <1>8, <1>11, <2>3, <2>4, <2>5, <2>7, <2>8, KeyReturned
<1>. QED BY <1>1, <1>10, <1>11

(* The bytes of a sequence with a digit.                                   *)
LEMMA EscLoopStep ==
  ASSUME ConsoleInvariant, EscLoop
  PROVE  ConsoleInvariant'
<1>. DEFINE e == Append(con.esc, Head(uart.rx))
            c == Head(uart.rx)
            full == Len(Stored.esc) = EscSize
            key == IF c = "~" THEN Lookup(Stored.esc) ELSE NotAKey
            done == KeyDone(key)
<1>0. ConsoleTypes /\ KeyInvariant /\ OutputInvariant
  BY DEF ConsoleInvariant
<1>1. \/ Got("loop", Stored) /\ c # "~" /\ ~full /\ due' = due
      \/ Got("loop", done) /\ (c = "~" \/ full) /\ Answered
  BY DEF EscLoop, KeyDone
<1>2. con.pc = "loop"
  BY <1>1 DEF Got
<1>3. /\ Len(con.esc) \in 2 .. EscSize - 1 /\ con.esc[2] \in Digits
      /\ \A j \in 3 .. Len(con.esc) : con.esc[j] # "~"
      /\ (<<"ESC">> \o con.esc) \o uart.rx = FlattenSeq(due)
  BY <1>0, <1>2 DEF KeyInvariant, InSequence
<1>4. /\ Stored.esc = e /\ Stored.pc = "loop" /\ Stored.key = con.key /\ Stored.of = con.of
      /\ Stored.text = con.text /\ Stored.rest = con.rest
      /\ e \in Bytes => Stored \in ConType
      /\ done.pc = "idle" /\ done.key = key /\ done.of = FirstDue
      /\ done.text = con.text /\ done.rest = con.rest /\ done.esc = e
      /\ e \in Bytes /\ key \in Name /\ FirstDue \in Bytes => done \in ConType
  <2>. HIDE DEF key
  <2>. QED BY <1>0, <1>2, StoredIs
<1>. HIDE DEF done
<1>5. c = uart.rx[1] /\ e \in Bytes /\ Tail(uart.rx) \in Bytes /\ uart.rx[1] \in Name
      /\ (<<"ESC">> \o e) \o Tail(uart.rx) = (<<"ESC">> \o con.esc) \o uart.rx
  <2>1. PICK state : Got("loop", state)
    BY <1>1
  <2>2. /\ Head(uart.rx) = uart.rx[1] /\ uart'.rx = Tail(uart.rx) /\ uart.rx[1] \in Name
        /\ uart' \in [rx : Bytes, thr : Bytes, sent : Bytes]
        /\ Append(con.esc, uart.rx[1]) \in Bytes
        /\ (<<"ESC">> \o Append(con.esc, uart.rx[1])) \o uart'.rx = (<<"ESC">> \o con.esc) \o uart.rx
    BY <1>0, <2>1, GotByte
  <2>. QED BY <2>2
<1>6. /\ Len(e) \in 3 .. EscSize /\ e[2] \in Digits /\ e[Len(e)] = c
      /\ \A j \in 3 .. Len(e) - 1 : e[j] # "~"
      /\ \A j \in 3 .. Len(e) : j < Len(e) \/ j = Len(e)
  <2>1. PICK x \in Bytes : x = con.esc
    BY <1>0, ConIs
  <2>2. PICK b \in Name : b = c
    BY <1>5
  <2>3. /\ Len(Append(x, b)) = Len(x) + 1 /\ Append(x, b)[Len(x) + 1] = b /\ Len(x) \in Nat
        /\ \A k \in 1 .. Len(x) : Append(x, b)[k] = x[k]
    BY Appended DEF Bytes
  <2>4. Append(x, b) = e
    BY <2>1, <2>2
  <2>5. PICK n \in Nat : n = Len(x)
    BY <2>3
  <2>6. n \in 2 .. 4 /\ x[2] \in Digits /\ \A j \in 3 .. n : x[j] # "~"
    BY <1>3, <2>1, <2>5 DEF EscSize
  <2>. HIDE DEF e, c
  <2>7. Len(e) = n + 1 /\ e[n + 1] = b /\ \A k \in 1 .. n : e[k] = x[k]
    BY <2>3, <2>4, <2>5
  <2>8. 2 \in 1 .. n /\ \A j \in 3 .. (n + 1) - 1 : j \in 1 .. n /\ j \in 3 .. n
    BY <2>6
  <2>9. e[2] \in Digits /\ \A j \in 3 .. Len(e) - 1 : e[j] # "~"
    BY <2>6, <2>7, <2>8
  <2>10. Len(e) \in 3 .. EscSize /\ e[Len(e)] = c
    BY <2>2, <2>6, <2>7 DEF EscSize
  <2>11. \A j \in 3 .. Len(e) : j < Len(e) \/ j = Len(e)
    BY <2>7
  <2>. QED BY <2>9, <2>10, <2>11
<1>7. e = Append(con.esc, uart.rx[1])
  BY <1>5
<1>. HIDE DEF e, c
<1>8. "loop" \in InSequence /\ "loop" \notin Printing
  BY DEF InSequence, Printing
<1>9. due \in Seq(Typed)
  BY <1>0, ConIs
<1>10. CASE Got("loop", Stored) /\ c # "~" /\ ~full /\ due' = due
  <2>0. Len(e) # EscSize /\ EscSize = 5
    BY <1>4, <1>10 DEF EscSize
  <2>1. Len(e) \in 2 .. EscSize - 1
    BY <1>6, <2>0
  <2>2. \A j \in 3 .. Len(e) : e[j] # "~"
    <3>1. TAKE j \in 3 .. Len(e)
    <3>2. CASE j = Len(e)
      BY <1>6, <1>10, <3>2
    <3>3. CASE j < Len(e)
      <4>1. Len(e) \in Int
        BY <1>6, <2>0
      <4>2. j \in 3 .. Len(e) - 1
        BY <3>3, <4>1
      <4>. QED BY <1>6, <4>2
    <3>. QED BY <1>6, <3>2, <3>3
  <2>. QED BY <1>4, <1>5, <1>6, <1>7, <1>8, <1>10, <2>1, <2>2, SequenceGoesOn
<1>11. CASE Got("loop", done) /\ (c = "~" \/ full) /\ Answered
  <2>. DEFINE r == Tail(uart.rx)
  <2>1. (<<"ESC">> \o e) \o r = FlattenSeq(due) /\ r \in Bytes
    BY <1>3, <1>5
  <2>. HIDE DEF r
  <2>2. e[Len(e)] = "~" \/ Len(e) = EscSize
    BY <1>4, <1>6, <1>11
  <2>3. Len(due) # 0 /\ r = FlattenSeq(Tail(due)) /\ Lookup(e) = Meaning(Head(due))
    BY <1>0, <1>5, <1>6, <1>9, <2>1, <2>2, ConIs, LongSequence
  <2>8. FirstDue = Head(due) /\ due' = Tail(due)
    BY <1>9, <1>11, <2>3, DueFirst
  <2>4. key = Meaning(Head(due)) /\ key \in Name
    <3>1. c # "~" => Lookup(e) = NotAKey
      BY <1>4, <1>11, NotListed
    <3>. QED BY <1>4, <2>3, <3>1, LookupTyped
  <2>5. Tail(uart.rx) = FlattenSeq(Tail(due))
    BY <2>3 DEF r
  <2>6. Head(due) \in Bytes
    <3>1. Head(due) \in Typed
      BY <1>9, <2>3
    <3>. QED BY <3>1, KeysAre
  <2>. HIDE DEF key, full
  <2>7. done \in ConType
    BY <1>4, <1>5, <2>4, <2>6, <2>8
  <2>. QED BY <1>4, <1>5, <1>8, <1>11, <2>3, <2>4, <2>5, <2>7, <2>8, KeyReturned
<1>. QED BY <1>1, <1>10, <1>11

(* A text begins to be printed: the whole of it is still to come.          *)
LEMMA PutsStep ==
  ASSUME ConsoleInvariant, Puts
  PROVE  ConsoleInvariant'
<1>0. ConsoleTypes /\ KeyInvariant /\ OutputInvariant
  BY DEF ConsoleInvariant
<1>1. PICK t \in Texts : con' = [con EXCEPT !.pc = "puts", !.text = t, !.rest = t]
  BY DEF Puts
<1>2. /\ con.pc = "idle" /\ uart' = [uart EXCEPT !.sent = <<>>] /\ uart.thr = <<>> /\ due' = due
  BY DEF Puts
<1>3. /\ t \in Bytes /\ con \in ConType /\ <<>> \in Bytes /\ "puts" \in Places
      /\ uart \in [rx : Bytes, thr : Bytes, sent : Bytes]
  BY <1>0, KeysAre DEF ConsoleTypes, Bytes, Places, Printing
<1>4. /\ con'.pc = "puts" /\ con'.text = t /\ con'.rest = t /\ con'.key = con.key
      /\ con'.of = con.of /\ con' \in ConType
  BY <1>1, <1>3 DEF ConType
<1>5. uart'.sent = <<>> /\ uart'.thr = <<>> /\ uart'.rx = uart.rx
      /\ uart' \in [rx : Bytes, thr : Bytes, sent : Bytes]
  BY <1>2, <1>3
<1>6. ConsoleTypes'
  BY <1>0, <1>2, <1>4, <1>5 DEF ConsoleTypes
<1>7. KeyInvariant'
  BY <1>0, <1>2, <1>4, <1>5 DEF KeyInvariant, InSequence, Printing
<1>8. OutputInvariant'
  <2>1. (<<>> \o <<>>) \o Line(t) = Line(t)
    <3>1. PICK x \in Bytes : x = Line(t)
      BY <1>3, LineTyped
    <3>2. (<<>> \o <<>>) \o x = x
      BY DEF Bytes
    <3>. QED BY <3>1, <3>2
  <2>2. con'.pc \in Printing /\ con'.pc # "put"
    BY <1>4 DEF Printing
  <2>. QED BY <1>4, <1>5, <2>1, <2>2 DEF OutputInvariant
<1>. QED BY <1>6, <1>7, <1>8 DEF ConsoleInvariant

(* A byte is written: what is known of the keys stays as it is.            *)
LEMMA ByteWritten ==
  ASSUME ConsoleInvariant, NEW b \in Name, NEW pc \in Printing, NEW rest \in Bytes,
         PutByte(b, pc, rest), con.pc \in Printing
  PROVE  /\ uart.thr = <<>> /\ uart'.sent = uart.sent /\ uart'.thr = <<b>>
         /\ con'.pc = pc /\ con'.rest = rest /\ con'.text = con.text
         /\ uart.sent \in Bytes /\ <<b>> \in Bytes /\ con.rest \in Bytes
         /\ ConsoleTypes' /\ KeyInvariant'
<1>0. ConsoleTypes /\ KeyInvariant
  BY DEF ConsoleInvariant
<1>1. /\ uart.thr = <<>> /\ uart' = [uart EXCEPT !.thr = <<b>>]
      /\ con' = [con EXCEPT !.pc = pc, !.rest = rest] /\ due' = due
  BY DEF PutByte
<1>2. /\ con \in ConType /\ uart \in [rx : Bytes, thr : Bytes, sent : Bytes]
      /\ pc \in Places /\ <<b>> \in Bytes
  BY <1>0, OneByte DEF ConsoleTypes, Bytes, Places, Printing
<1>3. /\ con'.pc = pc /\ con'.rest = rest /\ con'.text = con.text /\ con'.key = con.key
      /\ con'.of = con.of /\ con' \in ConType /\ con.rest \in Bytes
  BY <1>1, <1>2 DEF ConType
<1>4. /\ uart'.sent = uart.sent /\ uart'.thr = <<b>> /\ uart'.rx = uart.rx
      /\ uart' \in [rx : Bytes, thr : Bytes, sent : Bytes] /\ uart.sent \in Bytes
  BY <1>1, <1>2
<1>5. ConsoleTypes'
  BY <1>0, <1>1, <1>3, <1>4 DEF ConsoleTypes
<1>6. KeyInvariant'
  <2>1. con'.pc \notin InSequence /\ con'.pc \notin {"first", "esc0"}
        /\ con'.pc # "esc1" /\ con'.pc # "loop" /\ con.pc \notin InSequence
        /\ con.pc \in {"idle"} \cup Printing
    BY <1>3 DEF InSequence, Printing
  <2>. QED BY <1>0, <1>1, <1>3, <1>4, <2>1 DEF KeyInvariant
<1>. QED BY <1>1, <1>2, <1>3, <1>4, <1>5, <1>6

(* Of a text in three parts, the second moves from the third to the first. *)
LEMMA PartMoves ==
  ASSUME NEW a \in Bytes, NEW b \in Bytes, NEW c \in Bytes
  PROVE  (a \o <<>>) \o (b \o c) = (a \o b) \o c
<1>1. a \o <<>> = a
  BY DEF Bytes
<1>2. a \o (b \o c) = (a \o b) \o c
  BY Associative DEF Bytes
<1>. QED BY <1>1, <1>2

(* A carriage return precedes a newline.                                   *)
LEMMA PutCrStep ==
  ASSUME ConsoleInvariant, PutCr
  PROVE  ConsoleInvariant'
<1>. DEFINE rest == con.rest
<1>0. ConsoleTypes /\ KeyInvariant /\ OutputInvariant
  BY DEF ConsoleInvariant
<1>1. con.pc = "puts" /\ rest # <<>> /\ Head(rest) = "LF" /\ PutByte("CR", "put", rest)
  BY DEF PutCr
<1>2. "CR" \in Name /\ "LF" \in Name /\ "put" \in Printing /\ con.pc \in Printing
  BY <1>1 DEF Name, Printing
<1>3. rest \in Bytes
  BY <1>0, ConIs
<1>4. /\ uart.thr = <<>> /\ uart'.sent = uart.sent /\ uart'.thr = <<"CR">>
      /\ con'.pc = "put" /\ con'.rest = rest /\ con'.text = con.text
      /\ uart.sent \in Bytes /\ <<"CR">> \in Bytes /\ ConsoleTypes' /\ KeyInvariant'
  BY <1>1, <1>2, <1>3, ByteWritten
<1>5. Len(rest) # 0 /\ rest[1] = "LF" /\ Tail(rest) \in Bytes
  BY <1>1, <1>3, FirstByte
<1>6. PICK x \in Bytes : x = Line(Tail(rest))
  BY <1>5, LineTyped
<1>7. Line(rest) = <<"CR", "LF">> \o x
  BY <1>3, <1>5, <1>6, LineHead DEF ShownAs
<1>8. PICK s \in Bytes : s = uart.sent
  BY <1>4
<1>9. (s \o <<>>) \o (<<"CR">> \o (<<"LF">> \o x)) = (s \o <<"CR">>) \o (<<"LF">> \o x)
  <2>1. <<"LF">> \in Bytes
    BY <1>2, OneByte DEF Bytes
  <2>2. <<"LF">> \o x \in Bytes
    BY <2>1, JoinedTyped DEF Bytes
  <2>. QED BY <1>4, <2>2, PartMoves
<1>10. <<"CR", "LF">> \o x = <<"CR">> \o (<<"LF">> \o x)
  <2>1. x \in Seq(Name)
    BY DEF Bytes
  <2>. QED BY <1>2, <2>1, TwoBytes
<1>11. (uart'.sent \o uart'.thr) \o (<<"LF">> \o Line(Tail(rest))) = Line(con.text)
  <2>1. (s \o <<>>) \o (<<"CR", "LF">> \o x) = Line(con.text)
    BY <1>0, <1>1, <1>4, <1>7, <1>8 DEF OutputInvariant
  <2>. QED BY <1>4, <1>6, <1>8, <1>9, <1>10, <2>1
<1>12. OutputInvariant'
  <2>1. con'.pc \in Printing /\ con'.pc # "puts"
    BY <1>4 DEF Printing
  <2>. QED BY <1>4, <1>5, <1>11, <2>1 DEF OutputInvariant
<1>. QED BY <1>4, <1>12 DEF ConsoleInvariant

(* The next byte of the text.                                              *)
LEMMA PutCharStep ==
  ASSUME ConsoleInvariant, PutChar
  PROVE  ConsoleInvariant'
<1>. DEFINE rest == con.rest
            b == rest[1]
<1>0. ConsoleTypes /\ KeyInvariant /\ OutputInvariant
  BY DEF ConsoleInvariant
<1>1. /\ rest # <<>> /\ PutByte(Head(rest), "puts", Tail(rest))
      /\ con.pc = "put" \/ (con.pc = "puts" /\ Head(rest) # "LF")
  BY DEF PutChar
<1>2. "puts" \in Printing /\ con.pc \in Printing
  BY <1>1 DEF Printing
<1>3. rest \in Bytes
  BY <1>0, ConIs
<1>4. Len(rest) # 0 /\ Head(rest) = b /\ b \in Name /\ Tail(rest) \in Bytes
  BY <1>1, <1>3, FirstByte
<1>5. PICK c \in Name : c = b
  BY <1>4
<1>6. PICK t \in Bytes : t = Tail(rest)
  BY <1>4
<1>7. PutByte(c, "puts", t)
  BY <1>1, <1>4, <1>5, <1>6
<1>8. /\ uart.thr = <<>> /\ uart'.sent = uart.sent /\ uart'.thr = <<c>>
      /\ con'.pc = "puts" /\ con'.rest = t /\ con'.text = con.text
      /\ uart.sent \in Bytes /\ <<c>> \in Bytes /\ ConsoleTypes' /\ KeyInvariant'
  BY <1>2, <1>7, ByteWritten
<1>9. PICK x \in Bytes : x = Line(t)
  BY LineTyped
<1>10. PICK s \in Bytes : s = uart.sent
  BY <1>8
<1>11. (s \o <<>>) \o (<<c>> \o x) = Line(con.text)
  <2>1. CASE con.pc = "put"
    <3>1. /\ c = "LF"
          /\ (uart.sent \o uart.thr) \o (<<"LF">> \o Line(Tail(rest))) = Line(con.text)
      BY <1>0, <1>5, <2>1 DEF OutputInvariant
    <3>. QED BY <1>6, <1>8, <1>9, <1>10, <3>1
  <2>2. CASE con.pc = "puts" /\ Head(rest) # "LF"
    <3>1. Line(rest) = ShownAs(b) \o Line(Tail(rest))
      BY <1>3, <1>4, LineHead
    <3>2. ShownAs(b) = <<c>>
      BY <1>4, <1>5, <2>2 DEF ShownAs
    <3>3. (uart.sent \o uart.thr) \o Line(rest) = Line(con.text)
      BY <1>0, <2>2 DEF OutputInvariant
    <3>. QED BY <1>6, <1>8, <1>9, <1>10, <3>1, <3>2, <3>3
  <2>. QED BY <1>1, <2>1, <2>2
<1>12. (s \o <<>>) \o (<<c>> \o x) = (s \o <<c>>) \o x
  BY <1>8, PartMoves
<1>13. (uart'.sent \o uart'.thr) \o Line(con'.rest) = Line(con'.text)
  BY <1>8, <1>9, <1>10, <1>11, <1>12
<1>14. OutputInvariant'
  <2>1. con'.pc \in Printing /\ con'.pc # "put"
    BY <1>8 DEF Printing
  <2>. QED BY <1>13, <2>1 DEF OutputInvariant
<1>. QED BY <1>8, <1>14 DEF ConsoleInvariant

(* A text has been printed.                                                *)
LEMMA PutsEndsStep ==
  ASSUME ConsoleInvariant, PutsEnds
  PROVE  ConsoleInvariant'
<1>0. ConsoleTypes /\ KeyInvariant /\ OutputInvariant
  BY DEF ConsoleInvariant
<1>1. /\ con.pc = "puts" /\ con.rest = <<>> /\ con' = [con EXCEPT !.pc = "idle"]
      /\ uart' = uart /\ due' = due
  BY DEF PutsEnds
<1>2. con \in ConType /\ "idle" \in Places
      /\ uart \in [rx : Bytes, thr : Bytes, sent : Bytes] /\ uart.sent \in Bytes /\ uart.thr \in Bytes
  BY <1>0 DEF ConsoleTypes, Places
<1>3. con'.pc = "idle" /\ con'.text = con.text /\ con'.key = con.key /\ con'.of = con.of
      /\ con' \in ConType
  BY <1>1, <1>2 DEF ConType
<1>4. ConsoleTypes'
  BY <1>0, <1>1, <1>3 DEF ConsoleTypes
<1>5. KeyInvariant'
  BY <1>0, <1>1, <1>3 DEF KeyInvariant, InSequence, Printing
<1>6. OutputInvariant'
  <2>1. PICK x \in Bytes : x = uart.sent \o uart.thr
    BY <1>2, JoinedTyped DEF Bytes
  <2>6. \A y \in Bytes : y \o <<>> = y
    BY ONLY DEF Bytes
  <2>2. x \o <<>> = x
    BY <2>6
  <2>3. x \o Line(<<>>) = Line(con.text)
    BY <1>0, <1>1, <2>1 DEF OutputInvariant
  <2>4. x = Line(con.text)
    BY <2>2, <2>3, LineTyped
  <2>5. con'.pc \notin Printing /\ con'.pc # "puts" /\ con'.pc # "put"
    BY <1>3 DEF Printing
  <2>. QED BY <1>1, <1>3, <2>1, <2>4, <2>5 DEF OutputInvariant
<1>. QED BY <1>4, <1>5, <1>6 DEF ConsoleInvariant

(* No step leaves the invariant, and it tells what the properties ask.     *)
THEOREM ConsoleKeepsInvariant == ASSUME Keyboard PROVE ConsoleSpec => []ConsoleInvariant
<1>1. ASSUME ConsoleInvariant, [ConsoleNext]_consoleVars PROVE ConsoleInvariant'
  <2>1. CASE UNCHANGED consoleVars
    BY <1>1, <2>1 DEF consoleVars, ConsoleInvariant, ConsoleTypes, KeyInvariant, OutputInvariant
  <2>. QED BY <1>1, <2>1, TypeStep, TransmitStep, ReadKeyStep, FirstStep, Esc0Step, Esc1Step,
              EscLoopStep, PutsStep, PutCrStep, PutCharStep, PutsEndsStep DEF ConsoleNext
<1>. QED BY <1>1, ConsoleStarts, PTL DEF ConsoleSpec

(* As long as no key but those read_key() takes whole is typed, every key  *)
(* takes the bytes that make it and no more; and every text is printed     *)
(* whole.                                                                  *)
THEOREM KeysAndTextsWhole == ASSUME Keyboard PROVE ConsoleSpec => []ConsoleExact
<1>1. ConsoleInvariant => ConsoleExact
  <2>. SUFFICES ASSUME ConsoleInvariant PROVE KeysInStep /\ OutputWhole
    BY DEF ConsoleExact
  <2>1. KeysInStep
    BY DEF ConsoleInvariant, KeyInvariant, KeysInStep, InSequence, Printing
  <2>2. OutputWhole
    <3>1. con.pc = "idle" => uart.sent \o uart.thr = Line(con.text)
      BY DEF ConsoleInvariant, OutputInvariant, Printing
    <3>. QED BY <3>1 DEF OutputWhole, Line, Shown, ShownAs
  <2>. QED BY <2>1, <2>2
<1>. QED BY <1>1, ConsoleKeepsInvariant, PTL

=============================================================================
