----------------------------- MODULE LibraryProofs -----------------------------
(***************************************************************************)
(* The routines the compiler calls for, the bit scans and the conversions  *)
(* of numbers compute what their names say, for every width of a word.     *)
(*                                                                         *)
(* Every loop of Arith is a recursive function of its registers.  A loop   *)
(* whose measure falls has such a function (LoopExists), and what each of  *)
(* its turns keeps holds of the registers it returns (LoopEnds): dividend  *)
(* = divisor * quotient + remainder for the division, a sum that stays for *)
(* the product, the way that is left to the bit for the scans, the value   *)
(* of the digits taken for the numerals.                                   *)
(*                                                                         *)
(* The formatted output holds in its buffer the text that the format gives *)
(* as far as there is room, for every format and every size.  A step in    *)
(* the format is a function of the call, so that the second run of         *)
(* vasprintf() puts out as much as the first one measured.                 *)
(***************************************************************************)
EXTENDS Arith, Format, NumberLemmas, SequenceTheorems

-----------------------------------------------------------------------------
(* Widths. *)

(* A word has at least two bits.                                           *)
LEMMA Widths ==
  /\ HalfBits \in Nat \ {0} /\ W \in Nat \ {0} /\ D \in Nat \ {0}
  /\ W = HalfBits + HalfBits /\ D = W + W
  /\ \E e \in Nat : HalfBits = Pow2[e]
<1>1. \E e \in Nat : HalfBits = Pow2[e]
  BY HalfWord
<1>2. HalfBits \in Nat \ {0}
  BY <1>1, Pow2Facts
<1>. QED BY <1>1, <1>2 DEF W, D

(* The powers of two that bound the words.                                 *)
LEMMA Bounds ==
  ASSUME NEW w \in Nat \ {0}
  PROVE  /\ w - 1 \in Nat /\ Pow2[w] \in Nat \ {0} /\ Pow2[w - 1] \in Nat \ {0}
         /\ Pow2[w] = Pow2[w - 1] + Pow2[w - 1]
<1>1. w - 1 \in Nat /\ (w - 1) + 1 = w
  OBVIOUS
<1>. QED BY <1>1, Pow2Facts

(* A word that is positive as a signed number is below half of its range.  *)
LEMMA SignedIs ==
  ASSUME NEW w \in Nat \ {0}, NEW x \in Wide(w)
  PROVE  /\ x \in Nat /\ Signed(x, w) \in Int
         /\ Signed(x, w) < 0 <=> x >= Pow2[w - 1]
         /\ Signed(x, w) > 0 <=> x # 0 /\ x < Pow2[w - 1]
         /\ Signed(x, w) = IF x < Pow2[w - 1] THEN x ELSE x - Pow2[w]
BY Bounds DEF Signed, Wide

(* Numbers that differ by a multiple of n have one remainder.              *)
LEMMA Congruent ==
  ASSUME NEW n \in Nat \ {0}, NEW x \in Int, NEW y \in Int, NEW k \in Int, x = y + n * k
  PROVE  x % n = y % n
<1>1. PICK q \in Int : y % n \in 0 .. n - 1 /\ y = n * q + (y % n)
  BY Remainder
<1>2. x = n * (q + k) + (y % n) /\ q + k \in Int
  BY <1>1
<1>. QED BY <1>1, <1>2, RemainderIs

-----------------------------------------------------------------------------
(* Division by shifting. *)

(* The loop that doubles the divisor.                                      *)
Doubling == {r \in Registers : Signed(r.b, r.w) > 0 /\ r.b < r.rem}
Doubled == [r \in Registers |-> [r EXCEPT !.b = @ + @, !.d = @ + @]]
Missing == [r \in Registers |-> IF r.b < r.rem THEN r.rem - r.b ELSE 0]
Itself == [r \in Registers |-> r]

(* There are registers.                                                    *)
LEMMA RegistersExist == Registers # {}
<1>1. [w |-> 1, rem |-> 0, b |-> 0, d |-> 0, res |-> 0] \in Registers
  BY DEF Registers
<1>. QED BY <1>1

(* What a turn does to the registers, and that it brings the divisor       *)
(* nearer to the dividend.                                                 *)
LEMMA DoubledIs ==
  /\ Doubled \in [Registers -> Registers] /\ Missing \in [Registers -> Nat]
  /\ \A r \in Registers : /\ Doubled[r].w = r.w /\ Doubled[r].rem = r.rem /\ Doubled[r].res = r.res
                          /\ Doubled[r].b = r.b + r.b /\ Doubled[r].d = r.d + r.d
  /\ Falls(Missing, Registers, Doubling, Doubled)
<1>1. ASSUME NEW r \in Registers
      PROVE  /\ Doubled[r] \in Registers
             /\ Doubled[r].w = r.w /\ Doubled[r].rem = r.rem /\ Doubled[r].res = r.res
             /\ Doubled[r].b = r.b + r.b /\ Doubled[r].d = r.d + r.d
  <2>1. r.b + r.b \in Nat /\ r.d + r.d \in Nat
    BY DEF Registers
  <2>. QED BY <2>1 DEF Registers, Doubled
<1>2. Missing \in [Registers -> Nat]
  BY DEF Registers, Missing
<1>3. ASSUME NEW r \in Registers, r \in Doubling PROVE Missing[Doubled[r]] < Missing[r]
  <2>1. r.b \in Nat /\ r.w \in Nat \ {0} /\ r.rem \in Nat /\ r.b < r.rem
    BY <1>3 DEF Registers, Doubling
  <2>2. r.b # 0
    BY <1>3, <2>1, Bounds DEF Signed, Doubling
  <2>. QED BY <1>1, <2>1, <2>2 DEF Missing
<1>4. Doubled \in [Registers -> Registers]
  BY <1>1 DEF Doubled
<1>. QED BY <1>1, <1>2, <1>3, <1>4 DEF Falls

(* It is the function Scale.                                               *)
LEMMA ScaleLoops == Loops(Scale, Registers, Doubling, Doubled, Itself)
<1>1. Itself \in [Registers -> Registers]
  BY DEF Itself
<1>2. PICK f \in [Registers -> Registers] : Loops(f, Registers, Doubling, Doubled, Itself)
  BY <1>1, DoubledIs, RegistersExist, LoopExists
<1>3. f = [r \in Registers |-> IF Signed(r.b, r.w) > 0 /\ r.b < r.rem
                               THEN f[[r EXCEPT !.b = @ + @, !.d = @ + @]] ELSE r]
  BY <1>2 DEF Loops, Doubling, Doubled, Itself
<1>4. Scale = [r \in Registers |-> IF Signed(r.b, r.w) > 0 /\ r.b < r.rem
                                   THEN Scale[[r EXCEPT !.b = @ + @, !.d = @ + @]] ELSE r]
  BY <1>3 DEF Scale
<1>. QED BY <1>4 DEF Loops, Doubling, Doubled, Itself

(* The loop that subtracts.                                                *)
Reduced(r) == LET s == IF r.rem >= r.b THEN [r EXCEPT !.rem = @ - r.b, !.res = @ + r.d] ELSE r
              IN [s EXCEPT !.b = @ \div 2, !.d = @ \div 2]
Reducing == {r \in Registers : Reduced(r).d # 0}
Reduction == [r \in Registers |-> Reduced(r)]
Left == [r \in Registers |-> r.d]

(* What a turn does to the registers.                                      *)
LEMMA ReducedIs ==
  ASSUME NEW r \in Registers
  PROVE  /\ Reduced(r) \in Registers /\ Reduced(r).w = r.w
         /\ Reduced(r).b = r.b \div 2 /\ Reduced(r).d = r.d \div 2
         /\ Reduced(r).rem = IF r.rem >= r.b THEN r.rem - r.b ELSE r.rem
         /\ Reduced(r).res = IF r.rem >= r.b THEN r.res + r.d ELSE r.res
         /\ r.rem \in Nat /\ r.b \in Nat /\ r.d \in Nat /\ r.res \in Nat /\ r.w \in Nat \ {0}
<1>1. r.rem \in Nat /\ r.b \in Nat /\ r.d \in Nat /\ r.res \in Nat /\ r.w \in Nat \ {0}
  BY DEF Registers
<1>2. r.b \div 2 \in Nat /\ r.d \div 2 \in Nat
  BY <1>1
<1>3. CASE r.rem >= r.b
  <2>1. r.rem - r.b \in Nat /\ r.res + r.d \in Nat
    BY <1>1, <1>3
  <2>. QED BY <1>1, <1>2, <1>3, <2>1 DEF Registers, Reduced
<1>4. CASE ~(r.rem >= r.b)
  BY <1>1, <1>2, <1>4 DEF Registers, Reduced
<1>. QED BY <1>3, <1>4

(* It ends, because the counter is halved.                                 *)
LEMMA ReductionIs ==
  /\ Reduction \in [Registers -> Registers] /\ Left \in [Registers -> Nat]
  /\ Falls(Left, Registers, Reducing, Reduction)
<1>1. Reduction \in [Registers -> Registers]
  BY ReducedIs DEF Reduction
<1>2. Left \in [Registers -> Nat]
  BY ReducedIs DEF Left
<1>3. ASSUME NEW r \in Registers, r \in Reducing PROVE Left[Reduction[r]] < Left[r]
  <2>1. Reduced(r) \in Registers /\ Reduced(r).d = r.d \div 2 /\ r.d \in Nat /\ r.d \div 2 # 0
    BY <1>3, ReducedIs DEF Reducing
  <2>2. r.d \div 2 < r.d
    BY <2>1
  <2>. QED BY <2>1, <2>2 DEF Left, Reduction
<1>. QED BY <1>1, <1>2, <1>3 DEF Falls

(* It is the function Subtract.                                            *)
LEMMA SubtractLoops == Loops(Subtract, Registers, Reducing, Reduction, Reduction)
<1>1. PICK f \in [Registers -> Registers] : Loops(f, Registers, Reducing, Reduction, Reduction)
  BY ReductionIs, RegistersExist, LoopExists
<1>2. f = [r \in Registers |-> IF Reduced(r).d = 0 THEN Reduced(r) ELSE f[Reduced(r)]]
  BY <1>1 DEF Loops, Reducing, Reduction
<1>3. Subtract = [r \in Registers |-> IF Reduced(r).d = 0 THEN Reduced(r) ELSE Subtract[Reduced(r)]]
  BY <1>2 DEF Subtract, Reduced
<1>. QED BY <1>3 DEF Loops, Reducing, Reduction

(* The turns of the first loop only double the divisor and the counter.    *)
Scaled(w, rem, b, res) ==
  {r \in Registers : /\ r.w = w /\ r.rem = rem /\ r.res = res /\ r.b < Pow2[w]
                     /\ \E k \in Nat : r.b = b * Pow2[k] /\ r.d = Pow2[k]}

(* The first loop ends with a divisor of which twice is above the          *)
(* dividend, and nothing is lost of it on the way.                         *)
LEMMA ScaleEnds ==
  ASSUME NEW w \in Nat \ {0}, NEW rem \in Nat, NEW b \in Nat \ {0}, NEW res \in Nat,
         rem < Pow2[w], b < Pow2[w],
         NEW r, r = [w |-> w, rem |-> rem, b |-> b, d |-> 1, res |-> res]
  PROVE  Scale[r] \in Scaled(w, rem, b, res) /\ rem < Scale[r].b + Scale[r].b
<1>. DEFINE K == Scaled(w, rem, b, res)
<1>1. r \in K
  <2>1. b = b * Pow2[0] /\ Pow2[0] = 1
    BY Pow2Facts
  <2>2. r \in Registers /\ r.w = w /\ r.rem = rem /\ r.res = res /\ r.b = b /\ r.d = 1
    BY DEF Registers
  <2>. QED BY <2>1, <2>2 DEF Scaled
<1>2. ASSUME NEW x \in K, x \in Doubling PROVE Doubled[x] \in K
  <2>1. /\ x \in Registers /\ x.w = w /\ x.rem = rem /\ x.res = res /\ x.b < Pow2[w]
        /\ Signed(x.b, w) > 0 /\ x.b \in Nat
    BY <1>2 DEF Scaled, Doubling, Registers
  <2>2. PICK k \in Nat : x.b = b * Pow2[k] /\ x.d = Pow2[k]
    BY <1>2 DEF Scaled
  <2>3. x.b + x.b < Pow2[w]
    <3>1. x.b \in Wide(w)
      BY <2>1, Bounds DEF Wide
    <3>2. x.b < Pow2[w - 1]
      BY <2>1, <3>1, SignedIs
    <3>. QED BY <2>1, <3>2, Bounds
  <2>4. x.b + x.b = b * Pow2[k + 1] /\ x.d + x.d = Pow2[k + 1] /\ k + 1 \in Nat
    BY <2>2, Pow2Facts
  <2>. QED BY <2>1, <2>3, <2>4, DoubledIs DEF Scaled
<1>3. K \subseteq Registers
  BY DEF Scaled
<1>4. PICK y \in K : y \notin Doubling /\ Scale[r] = Itself[y]
  <2>. HIDE DEF K
  <2>1. Keeps(K, Registers, Doubling, Doubled)
    BY <1>2, <1>3 DEF Keeps
  <2>. QED BY <1>1, <2>1, DoubledIs, ScaleLoops, LoopEnds
<1>5. Scale[r] = y /\ y \in Registers
  BY <1>3, <1>4 DEF Itself
<1>6. rem < y.b + y.b
  <2>1. y.b \in Nat /\ y.w = w /\ y.rem = rem /\ y.b < Pow2[w] /\ ~(Signed(y.b, w) > 0 /\ y.b < rem)
    BY <1>4, <1>5 DEF Scaled, Registers, Doubling
  <2>2. y.b # 0
    <3>1. PICK k \in Nat : y.b = b * Pow2[k]
      BY DEF Scaled
    <3>2. Pow2[k] \in Nat \ {0}
      BY Pow2Facts
    <3>. QED BY <3>1, <3>2
  <2>3. CASE y.b < rem
    <3>1. y.b \in Wide(w)
      BY <2>1, Bounds DEF Wide
    <3>2. ~(y.b < Pow2[w - 1])
      BY <2>1, <2>2, <2>3, <3>1, SignedIs
    <3>. QED BY <2>1, <3>2, Bounds
  <2>4. CASE ~(y.b < rem)
    BY <2>1, <2>2, <2>4
  <2>. QED BY <2>3, <2>4
<1>. QED BY <1>5, <1>6

(* In the second, what is left of n is below twice the divisor, and what   *)
(* is not left has been counted.                                           *)
Counted(b, n) ==
  {r \in Registers : /\ r.rem < r.b + r.b /\ r.rem + r.res * b = n
                     /\ \E k \in Nat : r.b = b * Pow2[k] /\ r.d = Pow2[k]}

(* The second loop ends with the remainder and the quotient.               *)
LEMMA SubtractEnds ==
  ASSUME NEW b \in Nat \ {0}, NEW n \in Nat, NEW r \in Counted(b, n)
  PROVE  Subtract[r].res = n \div b /\ Subtract[r].rem = n % b
<1>. DEFINE K == Counted(b, n)
<1>1. ASSUME NEW x \in K
      PROVE  /\ Reduced(x).rem + Reduced(x).res * b = n /\ Reduced(x).rem < x.b
             /\ Reduced(x).rem \in Nat /\ Reduced(x).res \in Nat
  <2>. DEFINE y == Reduced(x)
  <2>1. x \in Registers /\ x.rem < x.b + x.b /\ x.rem + x.res * b = n
    BY DEF Counted
  <2>2. PICK k \in Nat : x.b = b * Pow2[k] /\ x.d = Pow2[k]
    BY DEF Counted
  <2>3. x.b = x.d * b
    BY <2>2, Pow2Facts
  <2>4. /\ y.rem = IF x.rem >= x.b THEN x.rem - x.b ELSE x.rem
        /\ y.res = IF x.rem >= x.b THEN x.res + x.d ELSE x.res
        /\ x.rem \in Nat /\ x.b \in Nat /\ x.d \in Nat /\ x.res \in Nat
    BY <2>1, ReducedIs
  <2>5. (x.res + x.d) * b = x.res * b + x.b
    BY <2>3, <2>4
  <2>6. x.res * b \in Nat
    BY <2>4
  <2>. HIDE DEF y
  <2>7. y.rem < x.b /\ y.rem \in Nat /\ y.res \in Nat
    BY <2>1, <2>4
  <2>8. y.rem + y.res * b = n
    BY <2>1, <2>4, <2>5, <2>6
  <2>. QED BY <2>7, <2>8 DEF y
<1>2. ASSUME NEW x \in K, x \in Reducing PROVE Reduction[x] \in K
  <2>. DEFINE y == Reduced(x)
  <2>1. x \in Registers /\ y \in Registers /\ y.b = x.b \div 2 /\ y.d = x.d \div 2 /\ y.d # 0
    BY <1>2, ReducedIs DEF Reducing, Counted
  <2>2. PICK k \in Nat : x.b = b * Pow2[k] /\ x.d = Pow2[k]
    BY DEF Counted
  <2>3. PICK j \in Nat : k = j + 1
    <3>1. k # 0
      <4>1. SUFFICES ASSUME k = 0 PROVE FALSE
        OBVIOUS
      <4>2. x.d = 1
        BY <2>2, <4>1, Pow2Facts
      <4>. QED BY <2>1, <4>2
    <3>2. k - 1 \in Nat /\ k = (k - 1) + 1
      BY <3>1
    <3>. QED BY <3>2
  <2>4. Pow2[k] = 2 * Pow2[j] /\ Pow2[j] \in Nat \ {0}
    BY <2>3, Pow2Facts
  <2>5. y.d = Pow2[j] /\ y.b = b * Pow2[j] /\ x.b = y.b + y.b
    <3>1. b * Pow2[j] \in Nat /\ x.b = 2 * (b * Pow2[j]) /\ x.d = 2 * Pow2[j]
      BY <2>2, <2>4
    <3>. HIDE DEF y
    <3>. QED BY <2>1, <2>4, <3>1
  <2>6. y.rem + y.res * b = n /\ y.rem < y.b + y.b
    BY <1>1, <2>5
  <2>. HIDE DEF y
  <2>7. y \in K
    BY <2>1, <2>5, <2>6 DEF Counted
  <2>8. Reduction[x] = y
    BY <2>1 DEF Reduction, y
  <2>. QED BY <2>7, <2>8
<1>3. K \subseteq Registers
  BY DEF Counted
<1>4. PICK y \in K : y \notin Reducing /\ Subtract[r] = Reduction[y]
  <2>1. r \in K
    OBVIOUS
  <2>. HIDE DEF K
  <2>2. Keeps(K, Registers, Reducing, Reduction)
    BY <1>2, <1>3 DEF Keeps
  <2>. QED BY <2>1, <2>2, ReductionIs, SubtractLoops, LoopEnds
<1>5. Subtract[r] = Reduced(y) /\ y \in Registers /\ Reduced(y).d = 0
  BY <1>3, <1>4 DEF Reduction, Reducing
<1>6. y.b = b
  <2>1. PICK k \in Nat : y.b = b * Pow2[k] /\ y.d = Pow2[k]
    BY DEF Counted
  <2>2. y.d \div 2 = 0 /\ y.d \in Nat
    BY <1>5, ReducedIs
  <2>3. k = 0
    <3>1. SUFFICES ASSUME k # 0 PROVE FALSE
      OBVIOUS
    <3>2. Pow2[1] <= Pow2[k] /\ Pow2[1] = 2
      <4>1. 1 \in Nat /\ 1 <= k /\ Pow2[0 + 1] = 2 * Pow2[0] /\ 0 + 1 = 1
        BY <3>1, Pow2Facts
      <4>. QED BY <4>1, Pow2Grows, Pow2Facts
    <3>. QED BY <2>1, <2>2, <3>2
  <2>. QED BY <2>1, <2>3, Pow2Facts
<1>. DEFINE z == Reduced(y)
<1>7. z.rem \in 0 .. b - 1 /\ z.res \in Nat /\ n = b * z.res + z.rem
  <2>1. z.rem + z.res * b = n /\ z.rem < b /\ z.rem \in Nat /\ z.res \in Nat
    BY <1>1, <1>6
  <2>. HIDE DEF z
  <2>. QED BY <2>1
<1>. HIDE DEF z
<1>. QED BY <1>5, <1>7, QuotientIs DEF z

(* Both loops together divide, if some of the quotient is known already    *)
(* too.                                                                    *)
LEMMA ShiftingDivides ==
  ASSUME NEW w \in Nat \ {0}, NEW rem \in Nat, NEW b \in Nat \ {0}, NEW res \in Nat,
         rem < Pow2[w], b < Pow2[w]
  PROVE  Shifting(w, rem, b, res) = <<(rem + res * b) \div b, (rem + res * b) % b>>
<1>. DEFINE r == [w |-> w, rem |-> rem, b |-> b, d |-> 1, res |-> res]
            s == Scale[r]
            n == rem + res * b
<1>0. n \in Nat
  OBVIOUS
<1>1. s \in Scaled(w, rem, b, res) /\ rem < s.b + s.b
  BY ScaleEnds
<1>2. s \in Counted(b, n)
  BY <1>1 DEF Scaled, Counted
<1>3. Subtract[s].res = n \div b /\ Subtract[s].rem = n % b
  <2>. HIDE DEF s, n
  <2>. QED BY <1>0, <1>2, SubtractEnds
<1>. QED BY <1>3 DEF Shifting

(* The unsigned quotient and remainder.                                    *)
LEMMA UDivDivides ==
  ASSUME NEW a \in Wide(W), NEW b \in Wide(W), b # 0
  PROVE  UDiv(a, b) = <<a \div b, a % b>>
<1>1. a \in Nat /\ b \in Nat \ {0} /\ a < Pow2[W] /\ b < Pow2[W] /\ W \in Nat \ {0}
  BY Widths, Bounds DEF Wide
<1>2. a = a + 0 * b /\ 0 \in Nat
  BY <1>1
<1>3. Shifting(W, a, b, 0) = <<(a + 0 * b) \div b, (a + 0 * b) % b>>
  BY <1>1, <1>2, ShiftingDivides, ZenonT(40)
<1>. QED BY <1>2, <1>3 DEF UDiv

(* A long dividend by a word, the high word divided first.                 *)
LEMMA DoDivDivides ==
  ASSUME NEW n \in Wide(D), NEW b \in Wide(W), b # 0
  PROVE  DoDiv(n, b) = <<n \div b, n % b>>
<1>. DEFINE P == Pow2[W]
            high == n \div P
            q == high \div b
<1>1. /\ n \in Nat /\ b \in Nat \ {0} /\ n < Pow2[D] /\ b < P /\ P \in Nat \ {0}
      /\ Pow2[D] \in Nat /\ D \in Nat \ {0} /\ P <= Pow2[D]
  BY Widths, Bounds, Pow2Grows DEF Wide
<1>2. high \in Nat /\ P * high <= n
  <2>1. n \div P \in Nat /\ n % P \in 0 .. P - 1 /\ n = P * (n \div P) + (n % P)
    BY <1>1, Quotient
  <2>. QED BY <1>1, <2>1
<1>. HIDE DEF P, high
<1>3. q \in Nat /\ q * b <= high
  BY <1>1, <1>2, Divided
<1>4. high < b => q = 0
  <2>1. SUFFICES ASSUME high < b PROVE q = 0
    OBVIOUS
  <2>2. high \in 0 .. b - 1 /\ high = b * 0 + high /\ 0 \in Nat
    BY <1>1, <1>2, <2>1
  <2>. QED BY <1>1, <1>2, <2>2, QuotientIs
<1>5. (IF high >= b THEN high \div b ELSE 0) = q
  BY <1>1, <1>2, <1>4
<1>. HIDE DEF q
<1>. DEFINE taken == q * b * P
            rem == n - taken
<1>6. taken \in Nat /\ taken <= n /\ q * P \in Nat /\ taken = (q * P) * b
  <2>1. q * b \in Nat /\ (q * b) * P <= high * P /\ high * P = P * high
    <3>1. q * b \in Nat
      BY <1>1, <1>3
    <3>2. PICK d \in Nat : high = q * b + d
      <4>1. high - q * b \in Nat /\ high = q * b + (high - q * b)
        BY <1>2, <1>3, <3>1
      <4>. QED BY <4>1
    <3>3. high * P = (q * b) * P + d * P /\ d * P \in Nat /\ (q * b) * P \in Nat
      BY <1>1, <3>1, <3>2
    <3>. QED BY <1>1, <1>2, <3>1, <3>3
  <2>2. (q * b) * P = (q * P) * b /\ q * P \in Nat /\ (q * b) * P \in Nat
    BY <1>1, <1>3
  <2>. QED BY <1>1, <1>2, <2>1, <2>2
<1>7. rem \in Nat /\ rem < Pow2[D] /\ n = rem + (q * P) * b /\ b < Pow2[D]
  <2>. HIDE DEF taken
  <2>. QED BY <1>1, <1>6
<1>8. Shifting(D, rem, b, q * P) = <<n \div b, n % b>>
  <2>. DEFINE h == q * P
  <2>. HIDE DEF rem, h
  <2>1. h \in Nat /\ n = rem + h * b
    BY <1>6, <1>7 DEF h
  <2>2. rem < Pow2[D] /\ b < Pow2[D] /\ D \in Nat \ {0} /\ rem \in Nat /\ b \in Nat \ {0}
    BY <1>1, <1>7
  <2>3. h \in Nat
    BY <2>1
  <2>4. Shifting(D, rem, b, h) = <<(rem + h * b) \div b, (rem + h * b) % b>>
    BY ONLY <2>2, <2>3, ShiftingDivides, ZenonT(40)
  <2>. QED BY <2>1, <2>4 DEF h
<1>9. Div64(n, b) = Shifting(D, rem, b, q * P)
  BY <1>5 DEF Div64, HighPart, high, P
<1>. QED BY <1>8, <1>9 DEF DoDiv

(* The negative of a word.                                                 *)
LEMMA NegIs ==
  ASSUME NEW w \in Nat \ {0}, NEW x \in Nat, x <= Pow2[w]
  PROVE  /\ Neg(x, w) = IF x = 0 THEN 0 ELSE Pow2[w] - x
         /\ Neg(x, w) \in Nat
         /\ x <= Pow2[w - 1] => Signed(Neg(x, w), w) = -x
<1>1. Pow2[w] \in Nat \ {0} /\ Pow2[w - 1] \in Nat \ {0} /\ Pow2[w] = Pow2[w - 1] + Pow2[w - 1]
  BY Bounds
<1>2. CASE x = 0
  <2>1. -x = Pow2[w] * 0 + 0 /\ 0 \in 0 .. Pow2[w] - 1 /\ -x \in Int
    BY <1>1, <1>2
  <2>2. Neg(x, w) = 0
    BY <1>1, <2>1, RemainderIs DEF Neg
  <2>. QED BY <1>1, <1>2, <2>2 DEF Signed
<1>3. CASE x # 0
  <2>1. -x = Pow2[w] * (-1) + (Pow2[w] - x) /\ Pow2[w] - x \in 0 .. Pow2[w] - 1 /\ -x \in Int
    BY <1>1, <1>3
  <2>2. Neg(x, w) = Pow2[w] - x
    BY <1>1, <2>1, RemainderIs DEF Neg
  <2>3. x <= Pow2[w - 1] => ~(Pow2[w] - x < Pow2[w - 1]) /\ (Pow2[w] - x) - Pow2[w] = -x
    BY <1>1, <1>3
  <2>. QED BY <1>1, <1>3, <2>2, <2>3 DEF Signed
<1>. QED BY <1>2, <1>3

(* Made positive, a word is the absolute value of the number it stands     *)
(* for.                                                                    *)
Abs(n) == IF n < 0 THEN -n ELSE n
LEMMA AbsoluteIs ==
  ASSUME NEW w \in Nat \ {0}, NEW x \in Wide(w)
  PROVE  /\ (IF Signed(x, w) < 0 THEN Neg(x, w) ELSE x) = Abs(Signed(x, w))
         /\ Signed(x, w) \in Int /\ Abs(Signed(x, w)) \in Nat
         /\ Abs(Signed(x, w)) <= Pow2[w - 1]
         /\ x # 0 => Abs(Signed(x, w)) # 0
         /\ x # Pow2[w - 1] => Abs(Signed(x, w)) < Pow2[w - 1]
         /\ Pow2[w - 1] \in Nat /\ Pow2[w - 1] < Pow2[w]
<1>1. Pow2[w] \in Nat \ {0} /\ Pow2[w - 1] \in Nat \ {0} /\ Pow2[w] = Pow2[w - 1] + Pow2[w - 1]
  BY Bounds
<1>2. x \in Nat /\ x < Pow2[w]
  BY <1>1 DEF Wide
<1>3. CASE x < Pow2[w - 1]
  BY <1>1, <1>2, <1>3 DEF Signed, Abs
<1>4. CASE ~(x < Pow2[w - 1])
  <2>1. Signed(x, w) = x - Pow2[w] /\ x - Pow2[w] < 0 /\ x # 0 /\ x <= Pow2[w]
    BY <1>1, <1>2, <1>4 DEF Signed
  <2>2. Neg(x, w) = Pow2[w] - x
    BY <1>2, <2>1, NegIs
  <2>3. Abs(Signed(x, w)) = Pow2[w] - x /\ Signed(x, w) < 0 /\ Signed(x, w) \in Int
    BY <1>1, <1>2, <2>1 DEF Abs
  <2>4. Pow2[w] - x \in Nat \ {0} /\ Pow2[w] - x <= Pow2[w - 1]
        /\ (x # Pow2[w - 1] => Pow2[w] - x < Pow2[w - 1])
    BY <1>1, <1>2, <1>4
  <2>. QED BY <1>1, <2>2, <2>3, <2>4
<1>. QED BY <1>3, <1>4

(* The quotient rounds to zero.                                            *)
LEMMA TruncatedIs ==
  ASSUME NEW x \in Int, NEW y \in Int
  PROVE  Truncated(x, y) = IF (x < 0) = (y < 0) THEN Abs(x) \div Abs(y) ELSE -(Abs(x) \div Abs(y))
BY DEF Truncated, Abs

(* The signed quotient.                                                    *)
LEMMA DivDivides ==
  ASSUME NEW a \in Wide(W), NEW b \in Wide(W), a # IntMin(W), b # IntMin(W), b # 0
  PROVE  Signed(Div(a, b), W) = Truncated(Signed(a, W), Signed(b, W))
<1>. DEFINE A == Abs(Signed(a, W))
            B == Abs(Signed(b, W))
            q == A \div B
<1>1. /\ A \in Nat /\ B \in Nat \ {0} /\ A < Pow2[W - 1] /\ B < Pow2[W - 1]
      /\ Signed(a, W) \in Int /\ Signed(b, W) \in Int
      /\ Pow2[W - 1] \in Nat /\ Pow2[W - 1] < Pow2[W] /\ Pow2[W] \in Nat /\ W \in Nat \ {0}
  BY AbsoluteIs, Widths, Bounds DEF IntMin
<1>2. (IF Signed(a, W) < 0 THEN Neg(a, W) ELSE a) = A
  BY <1>1, AbsoluteIs
<1>3. (IF Signed(b, W) < 0 THEN Neg(b, W) ELSE b) = B
  BY <1>1, AbsoluteIs
<1>. HIDE DEF A, B
<1>4. A \in Wide(W) /\ B \in Wide(W) /\ B # 0
  BY <1>1 DEF Wide
<1>5. UDiv(A, B)[1] = q
  BY <1>4, UDivDivides
<1>6. q \in Nat /\ q <= A
  BY <1>1
<1>. HIDE DEF q
<1>7. Div(a, b) = IF (Signed(a, W) < 0) = (Signed(b, W) < 0) THEN q ELSE Neg(q, W)
  BY <1>2, <1>3, <1>5 DEF Div
<1>8. Signed(q, W) = q /\ Signed(Neg(q, W), W) = -q
  <2>1. q < Pow2[W - 1] /\ q <= Pow2[W] /\ q <= Pow2[W - 1]
    BY <1>1, <1>6
  <2>. QED BY <1>1, <1>6, <2>1, NegIs DEF Signed
<1>9. Truncated(Signed(a, W), Signed(b, W))
        = IF (Signed(a, W) < 0) = (Signed(b, W) < 0) THEN q ELSE -q
  BY <1>1, TruncatedIs DEF A, B, q
<1>. QED BY <1>7, <1>8, <1>9

(* The signed remainder has the sign of the dividend.                      *)
LEMMA ModDivides ==
  ASSUME NEW a \in Wide(W), NEW b \in Wide(W), b # 0
  PROVE  Signed(Mod(a, b), W)
           = Signed(a, W) - Truncated(Signed(a, W), Signed(b, W)) * Signed(b, W)
<1>. DEFINE A == Abs(Signed(a, W))
            B == Abs(Signed(b, W))
            q == A \div B
            r == A % B
<1>1. /\ A \in Nat /\ B \in Nat \ {0} /\ A <= Pow2[W - 1] /\ B <= Pow2[W - 1]
      /\ Signed(a, W) \in Int /\ Signed(b, W) \in Int
      /\ Pow2[W - 1] \in Nat /\ Pow2[W - 1] < Pow2[W] /\ Pow2[W] \in Nat /\ W \in Nat \ {0}
  BY AbsoluteIs, Widths, Bounds
<1>2. (IF Signed(a, W) < 0 THEN Neg(a, W) ELSE a) = A
  BY <1>1, AbsoluteIs
<1>3. (IF Signed(b, W) < 0 THEN Neg(b, W) ELSE b) = B
  BY <1>1, AbsoluteIs
<1>4. /\ Signed(a, W) = IF Signed(a, W) < 0 THEN -A ELSE A
      /\ Signed(b, W) = IF Signed(b, W) < 0 THEN -B ELSE B
  BY <1>1 DEF Abs
<1>5. Truncated(Signed(a, W), Signed(b, W))
        = IF (Signed(a, W) < 0) = (Signed(b, W) < 0) THEN q ELSE -q
  BY <1>1, TruncatedIs
<1>. HIDE DEF A, B
<1>6. A \in Wide(W) /\ B \in Wide(W) /\ B # 0
  BY <1>1 DEF Wide
<1>7. UDiv(A, B)[2] = r
  BY <1>6, UDivDivides
<1>8. q \in Nat /\ r \in 0 .. B - 1 /\ A = B * q + r
  BY <1>1, Quotient
<1>. HIDE DEF q, r
<1>9. Mod(a, b) = IF Signed(a, W) < 0 THEN Neg(r, W) ELSE r
  BY <1>2, <1>3, <1>7 DEF Mod
<1>10. Signed(r, W) = r /\ Signed(Neg(r, W), W) = -r
  <2>1. r \in Nat /\ r < Pow2[W - 1] /\ r <= Pow2[W] /\ r <= Pow2[W - 1]
    BY <1>1, <1>8
  <2>. QED BY <1>1, <2>1, NegIs DEF Signed
<1>11. q * B \in Nat /\ A - q * B = r /\ q * (-B) = -(q * B) /\ (-q) * B = -(q * B)
       /\ (-q) * (-B) = q * B
  BY <1>1, <1>8
<1>12. CASE Signed(a, W) < 0
  <2>1. Signed(a, W) = -A /\ Signed(Mod(a, b), W) = -r
    BY <1>4, <1>9, <1>10, <1>12
  <2>2. Truncated(Signed(a, W), Signed(b, W)) * Signed(b, W) = -(q * B)
    BY <1>4, <1>5, <1>11, <1>12
  <2>. QED BY <1>1, <1>8, <1>11, <2>1, <2>2
<1>13. CASE ~(Signed(a, W) < 0)
  <2>1. Signed(a, W) = A /\ Signed(Mod(a, b), W) = r
    BY <1>4, <1>9, <1>10, <1>13
  <2>2. Truncated(Signed(a, W), Signed(b, W)) * Signed(b, W) = q * B
    BY <1>4, <1>5, <1>11, <1>13
  <2>. QED BY <1>1, <1>8, <1>11, <2>1, <2>2
<1>. QED BY <1>12, <1>13

-----------------------------------------------------------------------------
(* Products. *)

(* A word is its two parts.                                                *)
LEMMA PartsIs ==
  ASSUME NEW x \in Nat, NEW w \in Nat
  PROVE  /\ LowPart(x, w) \in 0 .. Pow2[w] - 1 /\ HighPart(x, w) \in Nat
         /\ x = Pow2[w] * HighPart(x, w) + LowPart(x, w)
         /\ Pow2[w] \in Nat \ {0}
BY Pow2Facts, Quotient DEF LowPart, HighPart

(* The parts of a word of twice the width.                                 *)
LEMMA HalvesIs ==
  ASSUME NEW w \in Nat \ {0}, NEW x \in Wide(w + w)
  PROVE  /\ LowPart(x, w) \in Wide(w) /\ HighPart(x, w) \in Wide(w)
         /\ x = Pow2[w] * HighPart(x, w) + LowPart(x, w)
         /\ Pow2[w + w] = Pow2[w] * Pow2[w] /\ Pow2[w] \in Nat \ {0} /\ x \in Nat
<1>1. Pow2[w + w] = Pow2[w] * Pow2[w] /\ Pow2[w] \in Nat \ {0}
  BY Pow2Product, Pow2Facts
<1>2. x \in Nat /\ x < Pow2[w] * Pow2[w]
  BY <1>1 DEF Wide
<1>. DEFINE l == LowPart(x, w)
            h == HighPart(x, w)
            P == Pow2[w]
<1>3. l \in 0 .. P - 1 /\ h \in Nat /\ x = P * h + l /\ P \in Nat \ {0} /\ x < P * P
  BY <1>1, <1>2, PartsIs
<1>. HIDE DEF l, h, P
<1>4. h < P
  <2>1. SUFFICES ASSUME h >= P PROVE FALSE
    BY <1>3
  <2>2. PICK d \in Nat : h = P + d
    <3>1. h - P \in Nat /\ h = P + (h - P)
      BY <1>3, <2>1
    <3>. QED BY <3>1
  <2>3. P * h = P * P + P * d /\ P * d \in Nat
    BY <1>3, <2>2
  <2>. QED BY <1>3, <2>3
<1>. QED BY <1>1, <1>2, <1>3, <1>4 DEF Wide, l, h, P

(* The loop of the multiplication.                                         *)
Turned(f) == [a |-> f.a \div 2, b |-> LowPart(f.b + f.b, W),
              res |-> IF f.a % 2 = 1 THEN LowPart(f.res + f.b, W) ELSE f.res]
Turn == [f \in Factors |-> Turned(f)]
Factored == {f \in Factors : f.a # 0}
Factor == [f \in Factors |-> f.a]
Product == [f \in Factors |-> f.res]

(* What a turn does, and that it brings the first factor nearer to zero.   *)
LEMMA TurnIs ==
  /\ Turn \in [Factors -> Factors] /\ Factor \in [Factors -> Nat]
  /\ Product \in [Factors -> Nat] /\ Factors # {}
  /\ Falls(Factor, Factors, Factored, Turn)
<1>1. ASSUME NEW f \in Factors PROVE Turned(f) \in Factors
  <2>1. f.a \in Nat /\ f.b \in Nat /\ f.res \in Nat /\ f.b + f.b \in Nat /\ f.res + f.b \in Nat
    BY DEF Factors
  <2>2. f.a \div 2 \in Nat /\ LowPart(f.b + f.b, W) \in Nat /\ LowPart(f.res + f.b, W) \in Nat
    <3>1. PICK x \in Nat, y \in Nat : x = f.b + f.b /\ y = f.res + f.b
      BY <2>1
    <3>2. LowPart(x, W) \in Nat /\ LowPart(y, W) \in Nat
      <4>1. W \in Nat /\ Pow2[W] \in Nat \ {0}
        BY Widths, Pow2Facts
      <4>2. LowPart(x, W) \in 0 .. Pow2[W] - 1 /\ LowPart(y, W) \in 0 .. Pow2[W] - 1
        BY <4>1, PartsIs
      <4>. QED BY <4>1, <4>2
    <3>. QED BY <2>1, <3>1, <3>2
  <2>. QED BY <2>1, <2>2 DEF Factors, Turned
<1>2. Factor \in [Factors -> Nat] /\ Product \in [Factors -> Nat]
  BY DEF Factors, Factor, Product
<1>3. ASSUME NEW f \in Factors, f \in Factored PROVE Factor[Turn[f]] < Factor[f]
  <2>1. f.a \in Nat /\ f.a # 0 /\ f.a \div 2 < f.a
    BY <1>3 DEF Factors, Factored
  <2>2. Turned(f).a = f.a \div 2
    BY DEF Turned
  <2>. QED BY <1>1, <2>1, <2>2 DEF Factor, Turn
<1>4. [a |-> 0, b |-> 0, res |-> 0] \in Factors
  BY DEF Factors
<1>. QED BY <1>1, <1>2, <1>3, <1>4 DEF Falls, Turn

(* It is the function MulSi.                                               *)
LEMMA MulSiLoops == Loops(MulSi, Factors, Factored, Turn, Product)
<1>1. PICK g \in [Factors -> Nat] : Loops(g, Factors, Factored, Turn, Product)
  <2>1. Nat # {}
    OBVIOUS
  <2>. QED BY <2>1, TurnIs, LoopExists
<1>2. g = [f \in Factors |-> IF f.a = 0 THEN f.res ELSE g[Turned(f)]]
  BY <1>1 DEF Loops, Factored, Turn, Product
<1>3. MulSi = [f \in Factors |-> IF f.a = 0 THEN f.res ELSE MulSi[Turned(f)]]
  BY <1>2 DEF MulSi, Turned
<1>. QED BY <1>3 DEF Loops, Factored, Turn, Product

(* The product by shifting is the product, in a word.                      *)
LEMMA MulSiMultiplies ==
  ASSUME NEW a \in Wide(W), NEW b \in Wide(W)
  PROVE  MulSi[[a |-> a, b |-> b, res |-> 0]] = (a * b) % Pow2[W]
<1>. DEFINE P == Pow2[W]
            Same(f) == (f.res + f.a * f.b) % P = (a * b) % P
            K == {f \in Factors : f.res < P /\ Same(f)}
            f0 == [a |-> a, b |-> b, res |-> 0]
<1>1. a \in Nat /\ b \in Nat /\ P \in Nat \ {0} /\ W \in Nat
  BY Widths, Bounds DEF Wide
<1>2. f0 \in K
  <2>1. f0 \in Factors /\ f0.a = a /\ f0.b = b /\ f0.res = 0
    BY <1>1 DEF Factors
  <2>2. 0 + a * b = a * b
    BY <1>1
  <2>. QED BY <1>1, <2>1, <2>2
<1>3. ASSUME NEW f \in K, f \in Factored PROVE Turn[f] \in K
  <2>. DEFINE t == Turned(f)
  <2>1. f \in Factors /\ f.a \in Nat /\ f.b \in Nat /\ f.res \in Nat /\ f.res < P /\ Same(f)
    BY <1>3 DEF Factors
  <2>2. t \in Factors /\ Turn[f] = t
    BY <2>1, TurnIs DEF Turn
  <2>3. t.a = f.a \div 2 /\ t.b = LowPart(f.b + f.b, W)
        /\ t.res = IF f.a % 2 = 1 THEN LowPart(f.res + f.b, W) ELSE f.res
    BY DEF Turned
  <2>. HIDE DEF t, Same
  <2>4. PICK x \in Nat, y \in {0, 1} : f.a = 2 * x + y /\ x = f.a \div 2 /\ y = f.a % 2
    BY <2>1
  <2>5. PICK j \in Nat : f.b + f.b = P * j + t.b
    <3>1. PICK z \in Nat : z = f.b + f.b
      BY <2>1
    <3>2. z = P * HighPart(z, W) + LowPart(z, W) /\ HighPart(z, W) \in Nat
      BY <1>1, PartsIs
    <3>. QED BY <2>3, <3>1, <3>2
  <2>6. PICK k \in Nat : f.res + y * f.b = P * k + t.res /\ t.res < P /\ t.res \in Nat
    <3>1. CASE y = 1
      <4>1. PICK z \in Nat : z = f.res + f.b
        BY <2>1
      <4>2. z = f.res + y * f.b /\ t.res = LowPart(z, W)
        BY <2>1, <2>3, <2>4, <3>1, <4>1
      <4>3. /\ z = P * HighPart(z, W) + LowPart(z, W) /\ HighPart(z, W) \in Nat
            /\ LowPart(z, W) \in 0 .. P - 1
        BY <1>1, PartsIs
      <4>4. LowPart(z, W) < P /\ LowPart(z, W) \in Nat
        BY <1>1, <4>3
      <4>. QED BY <4>2, <4>3, <4>4
    <3>2. CASE y = 0
      <4>1. t.res = f.res /\ f.res + y * f.b = P * 0 + f.res /\ 0 \in Nat
        BY <1>1, <2>1, <2>3, <2>4, <3>2
      <4>. QED BY <2>1, <4>1
    <3>. QED BY <3>1, <3>2
  <2>7. t.b \in Nat /\ t.a = x
    BY <2>2, <2>3, <2>4 DEF Factors
  <2>8. f.res + f.a * f.b = (t.res + t.a * t.b) + P * (k + x * j)
    <3>1. f.a * f.b = x * (f.b + f.b) + y * f.b
      BY <2>1, <2>4
    <3>2. x * (P * j + t.b) = P * (x * j) + x * t.b /\ x * j \in Nat /\ x * t.b \in Nat
      BY <1>1, <2>7
    <3>3. P * (k + x * j) = P * k + P * (x * j) /\ P * k \in Nat /\ P * (x * j) \in Nat
      BY <1>1, <3>2
    <3>4. y * f.b \in Nat
      BY <2>1
    <3>. QED BY <2>1, <2>5, <2>6, <2>7, <3>1, <3>2, <3>3, <3>4
  <2>9. (f.res + f.a * f.b) % P = (t.res + t.a * t.b) % P
    <3>. DEFINE u == f.res + f.a * f.b
                v == t.res + t.a * t.b
                d == k + x * j
    <3>1. u \in Int /\ v \in Int /\ d \in Int /\ u = v + P * d
      BY <2>1, <2>6, <2>7, <2>8, SMTT(30)
    <3>. HIDE DEF u, v, d
    <3>2. u % P = v % P
      BY <1>1, <3>1, Congruent
    <3>. QED BY <3>2 DEF u, v
  <2>10. Same(t)
    BY <2>1, <2>9 DEF Same
  <2>. QED BY <2>2, <2>6, <2>10
<1>4. PICK y \in K : y \notin Factored /\ MulSi[f0] = Product[y]
  <2>1. K \subseteq Factors
    OBVIOUS
  <2>. HIDE DEF K, f0
  <2>2. Keeps(K, Factors, Factored, Turn)
    BY <1>3, <2>1 DEF Keeps
  <2>. QED BY <1>2, <2>2, TurnIs, MulSiLoops, LoopEnds
<1>5. y \in Factors /\ y.a = 0 /\ y.res < P /\ Same(y) /\ y.b \in Nat /\ y.res \in Nat
  BY <1>4 DEF Factored, Factors
<1>6. y.res % P = y.res
  <2>1. y.res = P * 0 + y.res /\ 0 \in Int /\ y.res \in 0 .. P - 1 /\ y.res \in Int
    BY <1>1, <1>5
  <2>. QED BY <1>1, <2>1, RemainderIs
<1>7. y.res + y.a * y.b = y.res
  BY <1>5
<1>. QED BY <1>4, <1>5, <1>6, <1>7 DEF Product

(* A product of two numbers below n leaves room for a number below n.      *)
LEMMA ProductBelow ==
  ASSUME NEW n \in Nat \ {0}, NEW x \in 0 .. n - 1, NEW y \in 0 .. n - 1, NEW z \in 0 .. n - 1
  PROVE  x * y \in Nat /\ x * y + z < n * n /\ x * n + z < n * n
<1>1. PICK a \in Nat, b \in Nat : n = x + 1 + a /\ n = y + 1 + b
  <2>1. n - 1 - x \in Nat /\ n = x + 1 + (n - 1 - x) /\ n - 1 - y \in Nat /\ n = y + 1 + (n - 1 - y)
    OBVIOUS
  <2>. QED BY <2>1
<1>2. n * n = x * n + n + a * n /\ a * n \in Nat /\ x * n \in Nat
  BY <1>1
<1>3. x * n = x * y + x + x * b /\ x * b \in Nat /\ x * y \in Nat
  BY <1>1
<1>. QED BY <1>2, <1>3

(* The four partial products, with their carry, are the product of two     *)
(* words.                                                                  *)
LEMMA MulPpmmMultiplies ==
  ASSUME NEW u \in Wide(W), NEW v \in Wide(W)
  PROVE  /\ MulPpmm(u, v)[1] \in Nat /\ MulPpmm(u, v)[2] \in 0 .. Pow2[W] - 1
         /\ \E k \in Nat : u * v = Pow2[W] * (MulPpmm(u, v)[1] + Pow2[W] * k) + MulPpmm(u, v)[2]
<1>. DEFINE H == Pow2[HalfBits]
            P == Pow2[W]
            ul == LowPart(u, HalfBits)   uh == HighPart(u, HalfBits)
            vl == LowPart(v, HalfBits)   vh == HighPart(v, HalfBits)
            ph == HighPart(ul * vl, HalfBits)
            pl == LowPart(ul * vl, HalfBits)
            s == ul * vh + ph + uh * vl
            x1 == LowPart(s, W)
            x3 == uh * vh + (IF x1 < uh * vl THEN H ELSE 0)
            xh == HighPart(x1, HalfBits)
            xl == LowPart(x1, HalfBits)
            high == x3 + xh
            low == xl * H + pl
<1>1. P = H * H /\ H \in Nat \ {0} /\ P \in Nat \ {0} /\ W \in Nat \ {0} /\ HalfBits \in Nat \ {0}
      /\ W = HalfBits + HalfBits
  BY Widths, Pow2Product, Pow2Facts
<1>2. /\ ul \in 0 .. H - 1 /\ uh \in 0 .. H - 1 /\ u = H * uh + ul
      /\ vl \in 0 .. H - 1 /\ vh \in 0 .. H - 1 /\ v = H * vh + vl
  <2>1. u \in Wide(HalfBits + HalfBits) /\ v \in Wide(HalfBits + HalfBits)
    BY <1>1
  <2>. QED BY <1>1, <2>1, HalvesIs DEF Wide
<1>3. MulPpmm(u, v) = <<LowPart(high, W), LowPart(low, W)>>
  BY DEF MulPpmm
<1>. HIDE DEF ul, uh, vl, vh
<1>. DEFINE p == ul * vl
<1>4. p \in Nat /\ p < P /\ uh * vh \in Nat /\ ul * vh \in Nat /\ uh * vl \in Nat /\ uh * vl < P
  <2>1. 0 \in 0 .. H - 1
    BY <1>1
  <2>. QED BY <1>1, <1>2, <2>1, ProductBelow
<1>. HIDE DEF H, P
<1>5. ph \in 0 .. H - 1 /\ pl \in 0 .. H - 1 /\ p = H * ph + pl
  <2>1. p \in Wide(HalfBits + HalfBits)
    BY <1>1, <1>4 DEF Wide, P
  <2>. HIDE DEF p
  <2>2. LowPart(p, HalfBits) \in Wide(HalfBits) /\ HighPart(p, HalfBits) \in Wide(HalfBits)
        /\ p = H * HighPart(p, HalfBits) + LowPart(p, HalfBits)
    BY <1>1, <2>1, HalvesIs DEF H
  <2>. QED BY <2>2 DEF Wide, H, p
<1>. HIDE DEF ph, pl
<1>6. ul * vh + ph < P /\ s \in Nat /\ s < P + P
  <2>1. ul * vh + ph < P
    BY <1>1, <1>2, <1>5, ProductBelow
  <2>. QED BY <1>1, <1>4, <1>5, <2>1
<1>. HIDE DEF s
<1>7. /\ x1 \in 0 .. P - 1
      /\ s = IF x1 < uh * vl THEN P + x1 ELSE x1
  <2>1. PICK c \in Nat : s = P * c + x1 /\ x1 \in 0 .. P - 1
    BY <1>1, <1>6, PartsIs DEF P
  <2>2. c = 0 \/ c = 1
    <3>1. SUFFICES ASSUME c >= 2 PROVE FALSE
      OBVIOUS
    <3>2. PICK d \in Nat : c = 2 + d
      <4>1. c - 2 \in Nat /\ c = 2 + (c - 2)
        BY <3>1
      <4>. QED BY <4>1
    <3>3. P * c = P + P + P * d /\ P * d \in Nat
      BY <1>1, <3>2
    <3>. QED BY <1>1, <1>6, <2>1, <3>3
  <2>. HIDE DEF x1
  <2>3. CASE c = 0
    <3>1. s = x1 /\ ~(x1 < uh * vl)
      BY <1>1, <1>4, <1>5, <1>6, <2>1, <2>3 DEF s
    <3>. QED BY <2>1, <3>1
  <2>4. CASE c = 1
    <3>1. s = P + x1 /\ x1 < uh * vl
      BY <1>1, <1>4, <1>5, <1>6, <2>1, <2>4 DEF s
    <3>. QED BY <2>1, <3>1
  <2>. QED BY <2>2, <2>3, <2>4
<1>. HIDE DEF x1
<1>8. xl \in 0 .. H - 1 /\ xh \in 0 .. H - 1 /\ x1 = H * xh + xl
  <2>1. x1 \in Wide(HalfBits + HalfBits)
    BY <1>1, <1>7 DEF Wide, P
  <2>2. LowPart(x1, HalfBits) \in Wide(HalfBits) /\ HighPart(x1, HalfBits) \in Wide(HalfBits)
        /\ x1 = H * HighPart(x1, HalfBits) + LowPart(x1, HalfBits)
    BY <1>1, <2>1, HalvesIs DEF H
  <2>. QED BY <2>2 DEF Wide, H
<1>. HIDE DEF xl, xh
<1>9. low \in 0 .. P - 1 /\ high \in Nat
  <2>1. low < P /\ low \in Nat
    BY <1>1, <1>5, <1>8, ProductBelow
  <2>. QED BY <1>1, <1>4, <1>8, <2>1
<1>10. u * v = P * high + low
  <2>1. u * v = H * H * (uh * vh) + H * (uh * vl) + H * (ul * vh) + p
    BY <1>1, <1>2
  <2>2. H * (uh * vl) + H * (ul * vh) + p = H * s + pl
    <3>1. H * s = H * (ul * vh) + H * ph + H * (uh * vl)
      BY <1>1, <1>4, <1>5 DEF s
    <3>. QED BY <1>1, <1>4, <1>5, <3>1
  <2>3. H * x1 + pl = P * xh + low
    BY <1>1, <1>5, <1>8
  <2>4. CASE x1 < uh * vl
    <3>1. H * s = P * H + H * x1
      BY <1>1, <1>7, <2>4
    <3>2. P * high = P * (uh * vh) + P * H + P * xh
      BY <1>1, <1>4, <1>8, <2>4
    <3>. QED BY <1>1, <1>4, <1>5, <1>8, <1>9, <2>1, <2>2, <2>3, <3>1, <3>2
  <2>5. CASE ~(x1 < uh * vl)
    <3>1. H * s = H * x1
      BY <1>7, <2>5
    <3>2. P * high = P * (uh * vh) + P * xh
      BY <1>1, <1>4, <1>8, <2>5
    <3>. QED BY <1>1, <1>4, <1>5, <1>8, <1>9, <2>1, <2>2, <2>3, <3>1, <3>2
  <2>. QED BY <2>4, <2>5
<1>. HIDE DEF high, low
<1>11. LowPart(low, W) = low
  <2>1. low = P * 0 + low /\ 0 \in Int /\ low \in Int
    BY <1>1, <1>9
  <2>2. low % P = low
    BY <1>1, <1>9, <2>1, RemainderIs
  <2>. QED BY <2>2 DEF LowPart, P
<1>12. PICK k \in Nat : high = P * k + LowPart(high, W) /\ LowPart(high, W) \in Nat
  <2>1. LowPart(high, W) \in 0 .. P - 1 /\ HighPart(high, W) \in Nat
        /\ high = P * HighPart(high, W) + LowPart(high, W)
    BY <1>1, <1>9, PartsIs DEF P
  <2>2. LowPart(high, W) \in Nat
    BY <1>1, <2>1
  <2>. QED BY <2>1, <2>2
<1>13. u * v = P * (LowPart(high, W) + P * k) + low
  <2>1. high = LowPart(high, W) + P * k
    BY <1>1, <1>12
  <2>. QED BY <1>10, <2>1
<1>. QED BY <1>3, <1>9, <1>11, <1>12, <1>13 DEF P

(* The product of two long words, in a long word.                          *)
LEMMA MulDiMultiplies ==
  ASSUME NEW a \in Wide(D), NEW b \in Wide(D)
  PROVE  MulDi(a, b) = (a * b) % Pow2[D]
<1>. DEFINE P == Pow2[W]
            al == LowPart(a, W)   ah == HighPart(a, W)
            bl == LowPart(b, W)   bh == HighPart(b, W)
            w == MulPpmm(al, bl)
            high == w[1] + al * bh + ah * bl
<1>1. D = W + W /\ W \in Nat \ {0} /\ P \in Nat \ {0} /\ Pow2[D] = P * P
  BY Widths, Pow2Product, Pow2Facts
<1>2. /\ al \in Wide(W) /\ ah \in Wide(W) /\ a = P * ah + al
      /\ bl \in Wide(W) /\ bh \in Wide(W) /\ b = P * bh + bl
  BY <1>1, HalvesIs
<1>3. MulDi(a, b) = LowPart(high, W) * P + w[2]
  BY DEF MulDi
<1>. HIDE DEF al, ah, bl, bh
<1>4. /\ w[1] \in Nat /\ w[2] \in 0 .. P - 1
      /\ \E k \in Nat : al * bl = P * (w[1] + P * k) + w[2]
  BY <1>2, MulPpmmMultiplies
<1>. HIDE DEF P, w
<1>5. PICK k \in Nat : al * bl = P * (w[1] + P * k) + w[2]
  BY <1>4
<1>6. al \in Nat /\ ah \in Nat /\ bl \in Nat /\ bh \in Nat
  BY <1>1, <1>2 DEF Wide, P
<1>7. high \in Nat /\ al * bh \in Nat /\ ah * bl \in Nat /\ ah * bh \in Nat
  BY <1>4, <1>6
<1>8. PICK j \in Nat : high = P * j + LowPart(high, W) /\ LowPart(high, W) \in 0 .. P - 1
  <2>. HIDE DEF high
  <2>. QED BY <1>1, <1>7, PartsIs DEF P
<1>. DEFINE r == LowPart(high, W) * P + w[2]
<1>9. r \in 0 .. P * P - 1
  <2>1. r < P * P /\ r \in Nat
    <3>. HIDE DEF high
    <3>. QED BY <1>1, <1>4, <1>8, ProductBelow
  <2>. QED BY <1>1, <2>1
<1>10. a * b = (P * P) * (ah * bh + k + j) + r
  <2>1. a * b = (P * P) * (ah * bh) + P * (al * bh + ah * bl) + al * bl
    BY <1>1, <1>2, <1>6
  <2>2. P * high = P * w[1] + P * (al * bh + ah * bl)
    BY <1>1, <1>4, <1>7
  <2>3. al * bl = P * w[1] + (P * P) * k + w[2]
    BY <1>1, <1>4, <1>5
  <2>. DEFINE lh == LowPart(high, W)
  <2>4. P * high = (P * P) * j + lh * P
    BY <1>1, <1>8
  <2>5. (P * P) * (ah * bh + k + j) = (P * P) * (ah * bh) + (P * P) * k + (P * P) * j
    BY <1>1, <1>7
  <2>. DEFINE e1 == (P * P) * (ah * bh)
              e2 == (P * P) * k
              e3 == (P * P) * j
              e4 == P * (al * bh + ah * bl)
              e5 == P * w[1]
              e6 == lh * P
  <2>6. e1 \in Nat /\ e2 \in Nat /\ e3 \in Nat /\ e4 \in Nat /\ e5 \in Nat /\ e6 \in Nat
        /\ w[2] \in Nat
    <3>. HIDE DEF high
    <3>. QED BY <1>1, <1>4, <1>7, <1>8
  <2>7. /\ a * b = e1 + e4 + al * bl /\ al * bl = e5 + e2 + w[2] /\ e3 + e6 = e5 + e4
        /\ (P * P) * (ah * bh + k + j) = e1 + e2 + e3 /\ r = e6 + w[2]
    BY <2>1, <2>2, <2>3, <2>4, <2>5
  <2>. HIDE DEF e1, e2, e3, e4, e5, e6, r
  <2>. QED BY <2>6, <2>7
<1>. HIDE DEF high, r
<1>11. P * P \in Nat \ {0} /\ ah * bh + k + j \in Nat /\ a * b \in Nat
  BY <1>1, <1>6, <1>7, <1>2 DEF Wide
<1>. DEFINE N == P * P
            q == ah * bh + k + j
            ab == a * b
<1>12. ab % N = r
  <2>1. N \in Nat \ {0} /\ q \in Int /\ ab \in Int /\ ab = N * q + r /\ r \in 0 .. N - 1
    BY <1>9, <1>10, <1>11
  <2>. HIDE DEF N, q, ab
  <2>. QED BY <2>1, RemainderIs
<1>. QED BY <1>1, <1>3, <1>12 DEF r

-----------------------------------------------------------------------------
(* Shifts. *)

(* Below a multiple of b there is room for a number below b.               *)
LEMMA RoomIs ==
  ASSUME NEW b \in Nat \ {0}, NEW n \in Nat \ {0}, NEW r \in 0 .. n - 1
  PROVE  b * r \in Nat /\ b * r + b <= b * n
<1>1. PICK d \in Nat : n = r + 1 + d
  <2>1. n - 1 - r \in Nat /\ n = r + 1 + (n - 1 - r)
    OBVIOUS
  <2>. QED BY <2>1
<1>2. b * n = b * r + b + b * d /\ b * d \in Nat /\ b * r \in Nat
  BY <1>1
<1>. QED BY <1>2

(* The high bits that a left shift of a word pushes out, and those it      *)
(* keeps.                                                                  *)
LEMMA ShlIs ==
  ASSUME NEW x \in Wide(W), NEW b \in Nat, NEW c \in Nat, W = b + c
  PROVE  /\ Pow2[c] \in Nat \ {0} /\ Pow2[b] \in Nat \ {0} /\ Pow2[W] = Pow2[b] * Pow2[c]
         /\ LowPart(x, c) \in 0 .. Pow2[c] - 1 /\ Shr(x, c) \in 0 .. Pow2[b] - 1
         /\ x = Pow2[c] * Shr(x, c) + LowPart(x, c)
         /\ Shl(x, b) = Pow2[b] * LowPart(x, c)
<1>. DEFINE B == Pow2[b]
            C == Pow2[c]
            P == Pow2[W]
            q == x \div C
            r == x % C
<1>1. P = B * C
  BY Pow2Product
<1>2. B \in Nat \ {0} /\ C \in Nat \ {0} /\ P \in Nat \ {0} /\ x \in Nat /\ x < P
  BY Pow2Facts, Widths DEF Wide
<1>. HIDE DEF B, C, P
<1>3. q \in Nat /\ r \in 0 .. C - 1 /\ x = C * q + r
  BY <1>2, Quotient
<1>. HIDE DEF q, r
<1>4. q < B
  <2>1. SUFFICES ASSUME q >= B PROVE FALSE
    BY <1>2, <1>3
  <2>2. PICK d \in Nat : q = B + d
    <3>1. q - B \in Nat /\ q = B + (q - B)
      BY <1>2, <1>3, <2>1
    <3>. QED BY <3>1
  <2>3. C * q = B * C + C * d /\ C * d \in Nat
    BY <1>2, <2>2
  <2>. QED BY <1>1, <1>2, <1>3, <2>3
<1>5. (x * B) % P = B * r
  <2>. DEFINE y == x * B
              t == B * r
  <2>1. y = P * q + t /\ t \in Nat /\ y \in Int
    <3>1. (C * q + r) * B = (B * C) * q + B * r /\ B * r \in Nat
      BY <1>2, <1>3
    <3>. QED BY <1>1, <1>2, <1>3, <3>1
  <2>2. t \in 0 .. P - 1
    <3>1. B * r \in Nat /\ B * r + B <= B * C
      BY <1>2, <1>3, RoomIs
    <3>. QED BY <1>1, <1>2, <2>1, <3>1
  <2>. HIDE DEF y, t
  <2>3. q \in Int /\ P \in Nat \ {0}
    BY <1>2, <1>3
  <2>4. y % P = t
    BY ONLY <2>1, <2>2, <2>3, RemainderIs
  <2>. QED BY <2>4 DEF y, t
<1>6. q \in 0 .. B - 1
  BY <1>2, <1>3, <1>4
<1>7. Shl(x, b) = B * r /\ Shr(x, c) = q /\ LowPart(x, c) = r
  BY <1>5 DEF Shl, Shr, LowPart, B, C, P, q, r
<1>. QED BY <1>1, <1>2, <1>3, <1>6, <1>7 DEF B, C, P

(* The left shift of a long word is the product with a power of two.       *)
LEMMA AshlDiShifts ==
  ASSUME NEW u \in Wide(D), NEW b \in 0 .. D - 1
  PROVE  AshlDi(u, b) = (u * Pow2[b]) % Pow2[D]
<1>. DEFINE P == Pow2[W]
            l == LowPart(u, W)
            h == HighPart(u, W)
            B == Pow2[b]
            N == P * P
            y == u * B
<1>1. /\ D = W + W /\ W \in Nat \ {0} /\ P \in Nat \ {0} /\ Pow2[D] = N /\ B \in Nat \ {0}
      /\ b \in Nat /\ N \in Nat \ {0}
  <2>1. D = W + W /\ W \in Nat \ {0} /\ b \in Nat
    BY Widths
  <2>2. P \in Nat \ {0} /\ B \in Nat \ {0}
    BY <2>1, Pow2Facts
  <2>3. Pow2[D] = N
    BY <2>1, Pow2Product
  <2>4. N \in Nat \ {0}
    <3>. HIDE DEF P
    <3>. QED BY <2>2
  <2>. QED BY <2>1, <2>2, <2>3, <2>4
<1>2. l \in Wide(W) /\ h \in Wide(W) /\ u = P * h + l /\ u \in Nat
  BY <1>1, HalvesIs
<1>3. l \in 0 .. P - 1 /\ h \in 0 .. P - 1 /\ y \in Int
  BY <1>1, <1>2 DEF Wide
<1>4. SUFFICES \E q \in Int : AshlDi(u, b) \in 0 .. N - 1 /\ y = N * q + AshlDi(u, b)
  <2>. HIDE DEF N, y
  <2>. QED BY <1>1, <1>3, RemainderIs, ZenonT(40) DEF y
<1>5. CASE b = 0
  <2>1. B = 1 /\ AshlDi(u, b) = u
    BY <1>5, Pow2Facts DEF AshlDi
  <2>2. y = N * 0 + u /\ u \in 0 .. N - 1 /\ 0 \in Int
    BY <1>1, <1>2, <2>1 DEF Wide
  <2>. QED BY <2>1, <2>2
<1>6. CASE b # 0 /\ b < W
  <2>1. PICK c \in Nat : c = W - b /\ W = b + c
    BY <1>1, <1>6
  <2>. DEFINE C == Pow2[c]
              lr == LowPart(l, c)   lq == Shr(l, c)
              hr == LowPart(h, c)   hq == Shr(h, c)
  <2>. HIDE DEF l, h
  <2>2. /\ C \in Nat \ {0} /\ P = B * C /\ lr \in 0 .. C - 1 /\ hr \in 0 .. C - 1
        /\ lq \in 0 .. B - 1 /\ hq \in 0 .. B - 1 /\ l = C * lq + lr /\ h = C * hq + hr
        /\ Shl(l, b) = B * lr /\ Shl(h, b) = B * hr
    BY <1>1, <1>2, <2>1, ShlIs
  <2>3. AshlDi(u, b) = (Shl(h, b) + lq) * P + Shl(l, b)
    BY <1>1, <1>6, <2>1 DEF AshlDi, l, h
  <2>. HIDE DEF lr, lq, hr, hq, l, h, C, B
  <2>4. AshlDi(u, b) = (B * hr + lq) * P + B * lr
    BY <2>2, <2>3
  <2>. HIDE DEF P
  <2>5. B * hr + lq \in 0 .. P - 1 /\ B * lr \in 0 .. P - 1
    <3>1. B * hr \in Nat /\ B * hr + B <= B * C /\ B * lr \in Nat /\ B * lr + B <= B * C
      BY <1>1, <2>2, RoomIs
    <3>. QED BY <1>1, <2>2, <3>1
  <2>6. AshlDi(u, b) \in 0 .. N - 1
    <3>. DEFINE i == B * hr + lq
                j == B * lr
    <3>1. i \in 0 .. P - 1 /\ j \in 0 .. P - 1
      BY <2>5
    <3>2. i * P + j < P * P /\ i * P + j \in Nat
      <4>. HIDE DEF i, j
      <4>. QED BY <1>1, <3>1, ProductBelow
    <3>. QED BY <1>1, <2>4, <3>2
  <2>7. y = N * hq + ((B * hr + lq) * P + B * lr)
    <3>1. y = P * (h * B) + l * B
      BY <1>1, <1>2, <1>3
    <3>2. h * B = P * hq + B * hr
      BY <1>1, <2>2
    <3>3. l * B = P * lq + B * lr
      BY <1>1, <2>2
    <3>. QED BY <1>1, <2>2, <3>1, <3>2, <3>3
  <2>8. hq \in Int
    BY <1>1, <2>2
  <2>. QED BY <2>4, <2>6, <2>7, <2>8
<1>7. CASE b # 0 /\ b >= W
  <2>1. PICK c \in Nat, d \in Nat : b = W + c /\ W = c + d
    <3>1. b - W \in Nat /\ b = W + (b - W) /\ W - (b - W) \in Nat /\ W = (b - W) + (W - (b - W))
      BY <1>1, <1>7
    <3>. QED BY <3>1
  <2>. DEFINE C == Pow2[c]
              R == Pow2[d]
              lr == LowPart(l, d)   lq == Shr(l, d)
  <2>. HIDE DEF l, h
  <2>2. /\ R \in Nat \ {0} /\ C \in Nat \ {0} /\ P = C * R /\ lr \in 0 .. R - 1
        /\ lq \in 0 .. C - 1 /\ l = R * lq + lr /\ Shl(l, c) = C * lr
    BY <1>1, <1>2, <2>1, ShlIs
  <2>3. AshlDi(u, b) = Shl(l, c) * P
    <3>1. b - W = c
      BY <1>1, <2>1
    <3>. QED BY <1>1, <1>7, <3>1 DEF AshlDi, l
  <2>4. B = P * C
    BY <1>1, <2>1, Pow2Product
  <2>. HIDE DEF lr, lq, l, h, C, R, B, P
  <2>5. AshlDi(u, b) = (C * lr) * P
    BY <2>2, <2>3
  <2>6. C * lr \in 0 .. P - 1
    <3>1. C * lr \in Nat /\ C * lr + C <= C * R
      BY <2>2, RoomIs
    <3>. QED BY <1>1, <2>2, <3>1
  <2>7. AshlDi(u, b) \in 0 .. N - 1
    <3>. DEFINE i == C * lr
    <3>1. i \in 0 .. P - 1 /\ 0 \in 0 .. P - 1
      BY <1>1, <2>6
    <3>2. i * P + 0 < P * P /\ i * P \in Nat
      <4>. HIDE DEF i
      <4>. QED BY <1>1, <3>1, ProductBelow
    <3>. QED BY <1>1, <2>5, <3>2
  <2>8. y = N * (h * C + lq) + (C * lr) * P
    <3>1. y = (P * P) * (h * C) + P * (l * C)
      BY <1>1, <1>2, <1>3, <2>2, <2>4
    <3>2. l * C = P * lq + C * lr
      BY <1>1, <2>2
    <3>. QED BY <1>1, <1>3, <2>2, <3>1, <3>2
  <2>9. h * C + lq \in Int
    BY <1>1, <1>3, <2>2
  <2>. QED BY <2>5, <2>7, <2>8, <2>9
<1>. QED BY <1>1, <1>5, <1>6, <1>7

(* The right shift of a long word is the quotient by a power of two.       *)
LEMMA LshrDiShifts ==
  ASSUME NEW u \in Wide(D), NEW b \in 0 .. D - 1
  PROVE  LshrDi(u, b) = u \div Pow2[b]
<1>. DEFINE P == Pow2[W]
            l == LowPart(u, W)
            h == HighPart(u, W)
            B == Pow2[b]
<1>1. /\ D = W + W /\ W \in Nat \ {0} /\ P \in Nat \ {0} /\ B \in Nat \ {0} /\ b \in Nat
  BY Widths, Pow2Facts
<1>2. l \in Wide(W) /\ h \in Wide(W) /\ u = P * h + l /\ u \in Nat
  BY <1>1, HalvesIs
<1>3. l \in 0 .. P - 1 /\ h \in 0 .. P - 1
  BY <1>1, <1>2 DEF Wide
<1>4. SUFFICES \E r \in 0 .. B - 1 : LshrDi(u, b) \in Nat /\ u = B * LshrDi(u, b) + r
  BY <1>1, <1>2, QuotientIs
<1>5. CASE b = 0
  <2>1. B = 1 /\ LshrDi(u, b) = u
    BY <1>5, Pow2Facts DEF LshrDi
  <2>2. u = B * u + 0 /\ 0 \in 0 .. B - 1
    BY <1>2, <2>1
  <2>. QED BY <1>2, <2>1, <2>2
<1>6. CASE b # 0 /\ b < W
  <2>1. PICK c \in Nat : c = W - b /\ W = c + b
    BY <1>1, <1>6
  <2>. DEFINE C == Pow2[c]
              hr == LowPart(h, b)   hq == Shr(h, b)
              lr == LowPart(l, b)   lq == Shr(l, b)
  <2>. HIDE DEF l, h
  <2>2. /\ C \in Nat \ {0} /\ P = C * B /\ lr \in 0 .. B - 1 /\ hr \in 0 .. B - 1
        /\ lq \in 0 .. C - 1 /\ hq \in 0 .. C - 1 /\ l = B * lq + lr /\ h = B * hq + hr
        /\ Shl(h, c) = C * hr
    BY <1>1, <1>2, <2>1, ShlIs
  <2>3. LshrDi(u, b) = hq * P + lq + Shl(h, c)
    BY <1>1, <1>6, <2>1 DEF LshrDi, l, h
  <2>. HIDE DEF lr, lq, hr, hq, l, h, C, B, P
  <2>4. LshrDi(u, b) = hq * P + lq + C * hr
    BY <2>2, <2>3
  <2>5. hq * P + lq + C * hr \in Nat
    BY <1>1, <2>2
  <2>6. u = B * (hq * P + lq + C * hr) + lr
    <3>1. P * h = B * (hq * P) + B * (C * hr)
      BY <1>1, <2>2
    <3>2. hq * P \in Nat /\ C * hr \in Nat /\ lq \in Nat
      BY <1>1, <2>2
    <3>3. B * (hq * P + lq + C * hr) = B * (hq * P) + B * lq + B * (C * hr)
      BY <1>1, <3>2
    <3>. QED BY <1>1, <1>2, <1>3, <2>2, <3>1, <3>2, <3>3
  <2>. QED BY <2>2, <2>4, <2>5, <2>6
<1>7. CASE b # 0 /\ b >= W
  <2>1. PICK c \in 0 .. W : b = W + c
    <3>1. b - W \in 0 .. W /\ b = W + (b - W)
      BY <1>1, <1>7
    <3>. QED BY <3>1
  <2>. DEFINE C == Pow2[c]
              q == h \div C
              r == h % C
  <2>2. C \in Nat \ {0} /\ B = P * C
    <3>1. c \in Nat /\ W \in Nat
      BY <1>1, <2>1
    <3>. QED BY <2>1, <3>1, Pow2Facts, Pow2Product
  <2>3. LshrDi(u, b) = q
    <3>1. b - W = c
      BY <1>1, <2>1
    <3>. QED BY <1>1, <1>7, <3>1 DEF LshrDi, Shr
  <2>. HIDE DEF l, h, C, B, P
  <2>4. q \in Nat /\ r \in 0 .. C - 1 /\ h = C * q + r
    <3>1. h \in Nat
      BY <1>1, <1>3
    <3>. QED BY <2>2, <3>1, Quotient
  <2>. HIDE DEF q, r
  <2>5. u = B * q + (P * r + l)
    BY <1>1, <1>2, <1>3, <2>2, <2>4
  <2>6. P * r + l \in 0 .. B - 1
    <3>1. P * r \in Nat /\ P * r + P <= P * C
      BY <1>1, <2>2, <2>4, RoomIs
    <3>. QED BY <1>1, <1>3, <2>2, <3>1
  <2>. QED BY <2>3, <2>4, <2>5, <2>6
<1>. QED BY <1>1, <1>5, <1>6, <1>7

-----------------------------------------------------------------------------
(* Bit scans. *)

(* Bit p is the lowest of x, or the highest.                               *)
LowBit(x, p) == p \in Nat /\ \E q \in Nat : x = Pow2[p] * (q + q + 1)
HighBit(x, p) == p \in Nat /\ Pow2[p] <= x /\ x < Pow2[p] + Pow2[p]

(* Every number but zero has a lowest and a highest bit.                   *)
LEMMA BitsExist ==
  ASSUME NEW w \in Nat, NEW x \in Wide(w), x # 0
  PROVE  /\ \E p \in 0 .. w - 1 : LowBit(x, p)
         /\ \E p \in 0 .. w - 1 : HighBit(x, p)
<1>. DEFINE S == {k \in Nat : \A y \in Wide(k) \ {0} : /\ \E p \in 0 .. k - 1 : LowBit(y, p)
                                                       /\ \E p \in 0 .. k - 1 : HighBit(y, p)}
<1>1. 0 \in S
  <2>1. Wide(0) \ {0} = {}
    BY Pow2Facts DEF Wide
  <2>. QED BY <2>1
<1>2. \A k \in Nat : k \in S => k + 1 \in S
  <2>1. TAKE k \in Nat
  <2>2. HAVE k \in S
  <2>3. PICK m \in Nat : m = k + 1
    OBVIOUS
  <2>. DEFINE P == Pow2[k]
  <2>4. Pow2[m] = 2 * P /\ P \in Nat \ {0}
    BY <2>3, Pow2Facts
  <2>. HIDE DEF P
  <2>5. ASSUME NEW y \in Wide(m) \ {0}
        PROVE  /\ \E p \in 0 .. m - 1 : LowBit(y, p)
               /\ \E p \in 0 .. m - 1 : HighBit(y, p)
    <3>1. y \in Nat /\ y # 0 /\ y < 2 * P
      BY <2>4, <2>5 DEF Wide
    <3>2. PICK z \in Nat : y = z + z \/ y = z + z + 1
      <4>1. y \div 2 \in Nat /\ (y = y \div 2 + y \div 2 \/ y = y \div 2 + y \div 2 + 1)
        BY <3>1
      <4>. QED BY <4>1
    <3>3. \E p \in 0 .. m - 1 : LowBit(y, p)
      <4>1. CASE y = z + z + 1
        <5>1. y = Pow2[0] * (z + z + 1) /\ 0 \in 0 .. m - 1
          BY <2>3, <4>1, Pow2Facts
        <5>. QED BY <5>1 DEF LowBit
      <4>2. CASE y = z + z
        <5>1. z \in Wide(k) \ {0}
          BY <2>4, <3>1, <4>2 DEF Wide, P
        <5>2. PICK p \in 0 .. k - 1 : LowBit(z, p)
          BY <2>2, <5>1
        <5>3. PICK q \in Nat : z = Pow2[p] * (q + q + 1)
          BY <5>2 DEF LowBit
        <5>4. PICK r \in Nat : r = p + 1
          OBVIOUS
        <5>5. Pow2[r] = 2 * Pow2[p] /\ Pow2[p] \in Nat /\ r \in 0 .. m - 1
          BY <2>3, <5>4, Pow2Facts
        <5>6. y = Pow2[r] * (q + q + 1)
          BY <4>2, <5>3, <5>5
        <5>. QED BY <5>5, <5>6 DEF LowBit
      <4>. QED BY <3>2, <4>1, <4>2
    <3>4. \E p \in 0 .. m - 1 : HighBit(y, p)
      <4>1. CASE y < P
        <5>1. y \in Wide(k) \ {0}
          BY <2>4, <3>1, <4>1 DEF Wide, P
        <5>2. PICK p \in 0 .. k - 1 : HighBit(y, p)
          BY <2>2, <5>1
        <5>. QED BY <2>3, <5>2
      <4>2. CASE ~(y < P)
        <5>1. P <= y /\ y < P + P /\ k \in 0 .. m - 1
          BY <2>3, <2>4, <3>1, <4>2
        <5>. QED BY <5>1 DEF HighBit, P
      <4>. QED BY <4>1, <4>2
    <3>. QED BY <3>3, <3>4
  <2>6. m \in S
    BY <2>5
  <2>. HIDE DEF S
  <2>. QED BY <2>3, <2>6
<1>3. \A k \in Nat : k \in S
  <2>. HIDE DEF S
  <2>. QED BY <1>1, <1>2, NatInductive
<1>. QED BY <1>3

(* What is below the k-th bit of a number whose lowest bit is p.           *)
LEMMA LowBitParts ==
  ASSUME NEW x \in Nat, NEW p, LowBit(x, p), NEW k \in Nat
  PROVE  /\ LowPart(x, k) = 0 <=> k <= p
         /\ k <= p => LowBit(Shr(x, k), p - k)
<1>1. PICK q \in Nat : p \in Nat /\ x = Pow2[p] * (q + q + 1)
  BY DEF LowBit
<1>2. Pow2[k] \in Nat \ {0} /\ Pow2[p] \in Nat \ {0}
  BY <1>1, Pow2Facts
<1>3. CASE k <= p
  <2>1. PICK d \in Nat : d = p - k /\ p = k + d
    <3>1. p - k \in Nat /\ p = k + (p - k)
      BY <1>1, <1>3
    <3>. QED BY <3>1
  <2>2. Pow2[p] = Pow2[k] * Pow2[d] /\ Pow2[d] \in Nat
    <3>1. Pow2[k + d] = Pow2[k] * Pow2[d] /\ Pow2[d] \in Nat
      BY Pow2Product, Pow2Facts
    <3>. QED BY <2>1, <3>1
  <2>. DEFINE y == Pow2[d] * (q + q + 1)
              K == Pow2[k]
  <2>3. x = K * y + 0 /\ y \in Nat /\ 0 \in 0 .. K - 1 /\ K \in Nat \ {0}
    BY <1>1, <1>2, <2>2
  <2>4. x \div K = y /\ x % K = 0
    <3>. HIDE DEF y, K
    <3>. QED BY <2>3, QuotientIs
  <2>. QED BY <1>3, <2>1, <2>4 DEF LowPart, Shr, LowBit
<1>4. CASE ~(k <= p)
  <2>1. PICK d \in Nat : k = p + (d + 1)
    <3>1. k - p - 1 \in Nat /\ k = p + ((k - p - 1) + 1)
      BY <1>1, <1>4
    <3>. QED BY <3>1
  <2>2. PICK e \in Nat : e = d + 1
    OBVIOUS
  <2>3. Pow2[k] = Pow2[p] * Pow2[e] /\ Pow2[e] = 2 * Pow2[d] /\ Pow2[d] \in Nat
    <3>1. Pow2[p + e] = Pow2[p] * Pow2[e]
      BY <1>1, <2>2, Pow2Product
    <3>. QED BY <2>1, <2>2, <3>1, Pow2Facts
  <2>4. LowPart(x, k) # 0
    <3>1. SUFFICES ASSUME x % Pow2[k] = 0 PROVE FALSE
      BY DEF LowPart
    <3>2. PICK j \in Nat : x = Pow2[k] * j
      <4>1. x \div Pow2[k] \in Nat /\ x = Pow2[k] * (x \div Pow2[k]) + 0
        BY <1>2, <3>1, Quotient
      <4>. QED BY <1>2, <4>1
    <3>. DEFINE A == Pow2[p]
                u == q + q + 1
                v == Pow2[d] * j
    <3>3. v \in Nat /\ A * u = A * (v + v)
      BY <1>1, <1>2, <2>3, <3>2
    <3>. HIDE DEF v, A
    <3>4. u = v + v
      <4>1. A \in Nat \ {0} /\ u \in Nat /\ A * (u - (v + v)) = 0
        BY <1>2, <3>3 DEF A
      <4>. QED BY <3>3, <4>1
    <3>. QED BY <3>3, <3>4
  <2>. QED BY <1>1, <1>4, <2>4
<1>. QED BY <1>3, <1>4

(* The lowest of the bits that are set.                                    *)
LEMMA LowestIs ==
  ASSUME NEW w \in Nat, NEW x \in Nat, NEW p \in 0 .. w - 1, LowBit(x, p)
  PROVE  Lowest(SetBits(w, x)) = p
<1>. DEFINE S == SetBits(w, x)
<1>1. p \in S
  <2>1. PICK q \in Nat : x = Pow2[p] * (q + q + 1)
    BY DEF LowBit
  <2>. DEFINE P == Pow2[p]
              y == q + q + 1
  <2>2. P \in Nat \ {0}
    BY Pow2Facts
  <2>3. x = P * y + 0 /\ y \in Nat /\ 0 \in 0 .. P - 1
    BY <2>1, <2>2
  <2>4. x \div P = y
    <3>. HIDE DEF P, y
    <3>. QED BY <2>2, <2>3, QuotientIs
  <2>5. y % 2 = 1
    OBVIOUS
  <2>. QED BY <2>4, <2>5 DEF SetBits
<1>2. ASSUME NEW j \in S PROVE p <= j
  <2>1. SUFFICES ASSUME ~(p <= j) PROVE FALSE
    OBVIOUS
  <2>2. j \in Nat /\ j <= p /\ (x \div Pow2[j]) % 2 = 1
    BY <2>1 DEF SetBits
  <2>3. LowBit(Shr(x, j), p - j)
    BY <2>2, LowBitParts
  <2>4. PICK q \in Nat : Shr(x, j) = Pow2[p - j] * (q + q + 1)
    BY <2>3 DEF LowBit
  <2>5. PICK d \in Nat : p - j = d + 1
    <3>1. p - j - 1 \in Nat /\ p - j = (p - j - 1) + 1
      BY <2>1, <2>2
    <3>. QED BY <3>1
  <2>6. Pow2[p - j] = 2 * Pow2[d] /\ Pow2[d] \in Nat
    BY <2>5, Pow2Facts
  <2>7. Pow2[d] * (q + q + 1) \in Nat /\ Shr(x, j) = 2 * (Pow2[d] * (q + q + 1))
    BY <2>4, <2>6
  <2>. QED BY <2>2, <2>7 DEF Shr
<1>3. S \subseteq Nat
  BY DEF SetBits
<1>. HIDE DEF S
<1>4. Lowest(S) \in S /\ \A j \in S : Lowest(S) <= j
  BY <1>1, <1>2 DEF Lowest
<1>. QED BY <1>1, <1>2, <1>3, <1>4 DEF S

(* The highest.                                                            *)
LEMMA HighestIs ==
  ASSUME NEW w \in Nat, NEW x \in Nat, NEW p \in 0 .. w - 1, HighBit(x, p)
  PROVE  Highest(SetBits(w, x)) = p
<1>. DEFINE S == SetBits(w, x)
<1>1. p \in S
  <2>. DEFINE P == Pow2[p]
  <2>1. P \in Nat \ {0} /\ P <= x /\ x < P + P
    BY Pow2Facts DEF HighBit
  <2>2. x = P * 1 + (x - P) /\ x - P \in 0 .. P - 1 /\ 1 \in Nat
    BY <2>1
  <2>3. x \div P = 1
    <3>. HIDE DEF P
    <3>. QED BY <2>1, <2>2, QuotientIs
  <2>. QED BY <2>3 DEF SetBits
<1>2. ASSUME NEW j \in S PROVE j <= p
  <2>1. SUFFICES ASSUME ~(j <= p) PROVE FALSE
    BY DEF SetBits
  <2>2. j \in Nat /\ (x \div Pow2[j]) % 2 = 1
    BY DEF SetBits
  <2>3. PICK r \in Nat : r = p + 1 /\ r <= j
    BY <2>1, <2>2
  <2>4. Pow2[r] = 2 * Pow2[p] /\ Pow2[r] <= Pow2[j] /\ Pow2[j] \in Nat \ {0} /\ Pow2[p] \in Nat
    BY <2>2, <2>3, Pow2Facts, Pow2Grows
  <2>. DEFINE P == Pow2[j]
  <2>5. x = P * 0 + x /\ x \in 0 .. P - 1 /\ 0 \in Nat /\ P \in Nat \ {0}
    BY <2>4 DEF HighBit
  <2>6. x \div P = 0
    <3>. HIDE DEF P
    <3>. QED BY <2>5, QuotientIs
  <2>. QED BY <2>2, <2>6
<1>3. S \subseteq Nat
  BY DEF SetBits
<1>. HIDE DEF S
<1>4. Highest(S) \in S /\ \A j \in S : j <= Highest(S)
  BY <1>1, <1>2 DEF Highest
<1>. QED BY <1>1, <1>2, <1>3, <1>4 DEF S

(* The loops of the scans.                                                 *)
LowPasses(s) == LowPart(s.x, s.k) = 0
HighPasses(s) == HighPart(s.x, s.w - s.k) = 0
LowTurn == [s \in Scans |-> Halved(s, LowPasses(s), Shr(s.x, s.k))]
HighTurn == [s \in Scans |-> Halved(s, HighPasses(s), LowPart(s.x * Pow2[s.k], s.w))]
Scanning == {s \in Scans : s.k # 0}
Reach == [s \in Scans |-> s.k]
Passed == [s \in Scans |-> s.n]

(* What a turn does to the state of a scan.                                *)
LEMMA HalvedIs ==
  ASSUME NEW s \in Scans, NEW passes \in BOOLEAN, NEW x \in Nat, NEW h, h = Halved(s, passes, x)
  PROVE  /\ h \in Scans /\ h.w = s.w /\ h.k = s.k \div 2
         /\ passes => h.x = x /\ h.n = s.n + s.k
         /\ ~passes => h.x = s.x /\ h.n = s.n
<1>1. s.w \in Nat /\ s.x \in Nat /\ s.k \in Nat /\ s.n \in Nat
  BY DEF Scans
<1>2. s.k \div 2 \in Nat /\ s.n + s.k \in Nat
  BY <1>1
<1>3. CASE passes
  BY <1>1, <1>2, <1>3 DEF Scans, Halved
<1>4. CASE ~passes
  BY <1>1, <1>2, <1>4 DEF Scans, Halved
<1>. QED BY <1>3, <1>4

(* The words the turns go on with.                                         *)
LEMMA ScanWords ==
  ASSUME NEW s \in Scans
  PROVE  Shr(s.x, s.k) \in Nat /\ LowPart(s.x * Pow2[s.k], s.w) \in Nat
<1>1. s.w \in Nat /\ s.x \in Nat /\ s.k \in Nat
  BY DEF Scans
<1>2. Pow2[s.k] \in Nat \ {0} /\ Pow2[s.w] \in Nat \ {0}
  BY <1>1, Pow2Facts
<1>3. PICK y \in Nat : y = s.x * Pow2[s.k]
  BY <1>1, <1>2
<1>4. y % Pow2[s.w] \in Nat /\ s.x \div Pow2[s.k] \in Nat
  <2>1. PICK P \in Nat \ {0}, Q \in Nat \ {0} : P = Pow2[s.k] /\ Q = Pow2[s.w]
    BY <1>2
  <2>2. y % Q \in Nat /\ s.x \div P \in Nat
    BY <1>1
  <2>. QED BY <2>1, <2>2
<1>. QED BY <1>3, <1>4 DEF Shr, LowPart

(* The turns of the two scans.                                             *)
LEMMA TurnsAre ==
  ASSUME NEW s \in Scans
  PROVE  /\ LowTurn[s] \in Scans /\ LowTurn[s].w = s.w /\ LowTurn[s].k = s.k \div 2
         /\ LowPasses(s) => LowTurn[s].x = Shr(s.x, s.k) /\ LowTurn[s].n = s.n + s.k
         /\ ~LowPasses(s) => LowTurn[s].x = s.x /\ LowTurn[s].n = s.n
         /\ HighTurn[s] \in Scans /\ HighTurn[s].w = s.w /\ HighTurn[s].k = s.k \div 2
         /\ HighPasses(s) => /\ HighTurn[s].x = LowPart(s.x * Pow2[s.k], s.w)
                             /\ HighTurn[s].n = s.n + s.k
         /\ ~HighPasses(s) => HighTurn[s].x = s.x /\ HighTurn[s].n = s.n
<1>1. PICK b \in BOOLEAN : b = LowPasses(s)
  BY DEF LowPasses
<1>2. PICK c \in BOOLEAN : c = HighPasses(s)
  BY DEF HighPasses
<1>3. PICK y \in Nat : y = Shr(s.x, s.k)
  BY ScanWords
<1>4. PICK z \in Nat : z = LowPart(s.x * Pow2[s.k], s.w)
  BY ScanWords
<1>5. PICK t : t = LowTurn[s]
  OBVIOUS
<1>6. PICK u : u = HighTurn[s]
  OBVIOUS
<1>7. t = Halved(s, b, y)
  BY <1>1, <1>3, <1>5 DEF LowTurn
<1>8. u = Halved(s, c, z)
  BY <1>2, <1>4, <1>6 DEF HighTurn
<1>9. /\ t \in Scans /\ t.w = s.w /\ t.k = s.k \div 2
      /\ b => t.x = y /\ t.n = s.n + s.k
      /\ ~b => t.x = s.x /\ t.n = s.n
  BY <1>7, HalvedIs
<1>10. /\ u \in Scans /\ u.w = s.w /\ u.k = s.k \div 2
       /\ c => u.x = z /\ u.n = s.n + s.k
       /\ ~c => u.x = s.x /\ u.n = s.n
  BY <1>8, HalvedIs
<1>. QED BY <1>1, <1>2, <1>3, <1>4, <1>5, <1>6, <1>9, <1>10

(* The turns end, because the reach is halved.                             *)
LEMMA TurnsEnd ==
  /\ LowTurn \in [Scans -> Scans] /\ HighTurn \in [Scans -> Scans]
  /\ Reach \in [Scans -> Nat] /\ Passed \in [Scans -> Nat]
  /\ Falls(Reach, Scans, Scanning, LowTurn) /\ Falls(Reach, Scans, Scanning, HighTurn)
<1>1. ASSUME NEW s \in Scans
      PROVE  /\ LowTurn[s] \in Scans /\ LowTurn[s].k = s.k \div 2
             /\ HighTurn[s] \in Scans /\ HighTurn[s].k = s.k \div 2
  BY TurnsAre
<1>2. Reach \in [Scans -> Nat] /\ Passed \in [Scans -> Nat]
  BY DEF Scans, Reach, Passed
<1>3. ASSUME NEW s \in Scans, s \in Scanning
      PROVE  Reach[LowTurn[s]] < Reach[s] /\ Reach[HighTurn[s]] < Reach[s]
  <2>1. s.k \in Nat /\ s.k # 0 /\ s.k \div 2 < s.k
    BY <1>3 DEF Scans, Scanning
  <2>. QED BY <1>1, <2>1 DEF Reach
<1>4. LowTurn \in [Scans -> Scans] /\ HighTurn \in [Scans -> Scans]
  BY <1>1 DEF LowTurn, HighTurn
<1>. QED BY <1>2, <1>3, <1>4 DEF Falls

(* They are the functions ScanLow and ScanHigh.                            *)
LEMMA ScansLoop ==
  /\ Loops(ScanLow, Scans, Scanning, LowTurn, Passed)
  /\ Loops(ScanHigh, Scans, Scanning, HighTurn, Passed)
<1>1. Nat # {}
  OBVIOUS
<1>2. PICK f \in [Scans -> Nat] : Loops(f, Scans, Scanning, LowTurn, Passed)
  BY <1>1, TurnsEnd, LoopExists
<1>3. PICK g \in [Scans -> Nat] : Loops(g, Scans, Scanning, HighTurn, Passed)
  BY <1>1, TurnsEnd, LoopExists
<1>4. f = [s \in Scans |-> IF s.k = 0 THEN s.n
                           ELSE f[Halved(s, LowPart(s.x, s.k) = 0, Shr(s.x, s.k))]]
  BY <1>2 DEF Loops, Scanning, LowTurn, Passed, LowPasses
<1>5. ScanLow = [s \in Scans |-> IF s.k = 0 THEN s.n
                   ELSE ScanLow[Halved(s, LowPart(s.x, s.k) = 0, Shr(s.x, s.k))]]
  BY <1>4 DEF ScanLow
<1>6. g = [s \in Scans |-> IF s.k = 0 THEN s.n
             ELSE g[Halved(s, HighPart(s.x, s.w - s.k) = 0, LowPart(s.x * Pow2[s.k], s.w))]]
  BY <1>3 DEF Loops, Scanning, HighTurn, Passed, HighPasses
<1>7. ScanHigh = [s \in Scans |-> IF s.k = 0 THEN s.n
             ELSE ScanHigh[Halved(s, HighPart(s.x, s.w - s.k) = 0, LowPart(s.x * Pow2[s.k], s.w))]]
  BY <1>6 DEF ScanHigh
<1>. QED BY <1>5, <1>7 DEF Loops, Scanning, LowTurn, HighTurn, Passed, LowPasses, HighPasses

(* What is left of the way to a bit that is p away is within twice the     *)
(* reach, and a turn keeps it there.                                       *)
Within(p, k) ==
  p \in Nat /\ ((k = 0 /\ p = 0) \/ \E j \in Nat : k = Pow2[j] /\ p < k + k)

(* The way after a turn.                                                   *)
LEMMA WithinHalf ==
  ASSUME NEW k \in Nat \ {0}, NEW p, Within(p, k)
  PROVE  /\ p < k + k
         /\ Within(IF k <= p THEN p - k ELSE p, k \div 2)
<1>1. PICK j \in Nat : k = Pow2[j] /\ p < k + k /\ p \in Nat
  BY DEF Within
<1>. DEFINE r == IF k <= p THEN p - k ELSE p
<1>2. r \in Nat /\ r < k
  BY <1>1
<1>. HIDE DEF r
<1>3. CASE j = 0
  <2>1. k = 1 /\ k \div 2 = 0 /\ r = 0
    BY <1>1, <1>2, <1>3, Pow2Facts
  <2>. QED BY <1>1, <1>2, <2>1 DEF Within, r
<1>4. CASE j # 0
  <2>1. PICK i \in Nat : j = i + 1
    <3>1. j - 1 \in Nat /\ j = (j - 1) + 1
      BY <1>4
    <3>. QED BY <3>1
  <2>2. k = 2 * Pow2[i] /\ Pow2[i] \in Nat
    BY <1>1, <2>1, Pow2Facts
  <2>3. k \div 2 = Pow2[i] /\ r < k \div 2 + k \div 2
    BY <1>2, <2>2
  <2>. QED BY <1>1, <1>2, <2>3 DEF Within, r
<1>. QED BY <1>3, <1>4

(* The words are powers of two wide.                                       *)
LEMMA ScanStarts ==
  ASSUME NEW w \in {W, D}, NEW x \in Nat, NEW p \in 0 .. w - 1
  PROVE  /\ w \in Nat \ {0} /\ w = w \div 2 + w \div 2 /\ Within(p, w \div 2)
         /\ Scanned(w, x) \in Scans
         /\ Scanned(w, x).w = w /\ Scanned(w, x).x = x /\ Scanned(w, x).k = w \div 2
         /\ Scanned(w, x).n = 0
<1>1. PICK e \in Nat : HalfBits = Pow2[e]
  BY Widths
<1>2. PICK f \in Nat : f = e + 1
  OBVIOUS
<1>3. Pow2[f] = HalfBits + HalfBits /\ HalfBits \in Nat \ {0}
  BY <1>1, <1>2, Pow2Facts
<1>4. /\ w \in Nat \ {0} /\ w = w \div 2 + w \div 2 /\ w \div 2 \in Nat
      /\ w \div 2 = Pow2[e] \/ w \div 2 = Pow2[f]
  BY <1>1, <1>3, Widths
<1>. QED BY <1>4 DEF Within, Scanned, Scans

(* The scan from below finds the lowest bit.                               *)
LEMMA FromLowFinds ==
  ASSUME NEW w \in {W, D}, NEW x \in Nat, NEW p \in 0 .. w - 1, LowBit(x, p)
  PROVE  FromLow(w, x) = p
<1>. DEFINE At0(s, q) == LowBit(s.x, q) /\ Within(q, s.k) /\ s.n + q = p
            K == {s \in Scans : \E q \in Nat : At0(s, q)}
            s0 == Scanned(w, x)
<1>1. s0 \in K
  <2>1. At0(s0, p)
    BY ScanStarts
  <2>. QED BY <2>1, ScanStarts
<1>2. ASSUME NEW s \in K, s \in Scanning PROVE LowTurn[s] \in K
  <2>1. PICK q \in Nat : At0(s, q)
    OBVIOUS
  <2>2. s \in Scans /\ s.k \in Nat \ {0} /\ s.x \in Nat /\ s.n \in Nat
    BY <1>2 DEF Scanning, Scans
  <2>3. /\ LowPasses(s) <=> s.k <= q
        /\ s.k <= q => LowBit(Shr(s.x, s.k), q - s.k)
    BY <2>1, <2>2, LowBitParts DEF LowPasses
  <2>. DEFINE r == IF s.k <= q THEN q - s.k ELSE q
              t == LowTurn[s]
  <2>4. Within(r, s.k \div 2)
    BY <2>1, <2>2, WithinHalf
  <2>5. /\ t \in Scans /\ t.k = s.k \div 2
        /\ t.x = IF s.k <= q THEN Shr(s.x, s.k) ELSE s.x
        /\ t.n = IF s.k <= q THEN s.n + s.k ELSE s.n
    BY <2>2, <2>3, TurnsAre
  <2>. HIDE DEF t
  <2>6. r \in Nat /\ LowBit(t.x, r) /\ t.n + r = p
    BY <2>1, <2>2, <2>3, <2>5
  <2>7. At0(t, r)
    BY <2>4, <2>5, <2>6
  <2>. QED BY <2>5, <2>6, <2>7 DEF t
<1>3. PICK s \in K : s \notin Scanning /\ ScanLow[s0] = Passed[s]
  <2>1. K \subseteq Scans
    OBVIOUS
  <2>. HIDE DEF K, s0
  <2>2. Keeps(K, Scans, Scanning, LowTurn)
    BY <1>2, <2>1 DEF Keeps
  <2>. QED BY <1>1, <2>2, TurnsEnd, ScansLoop, LoopEnds
<1>4. s \in Scans /\ s.k = 0 /\ s.n \in Nat
  BY <1>3 DEF Scanning, Scans
<1>5. PICK q \in Nat : At0(s, q)
  OBVIOUS
<1>6. q = 0
  BY <1>4, <1>5, Pow2Facts DEF Within
<1>7. Passed[s] = p
  BY <1>4, <1>5, <1>6 DEF Passed
<1>. QED BY <1>3, <1>7 DEF FromLow

(* What is above the (w - k)-th bit of a number whose highest bit is p,    *)
(* with q bits over it, and the number when it is shifted up by k.         *)
LEMMA HighBitParts ==
  ASSUME NEW w \in Nat, NEW x \in Nat, NEW p \in Nat, NEW q \in Nat, w = p + 1 + q,
         HighBit(x, p), NEW k \in 0 .. w
  PROVE  /\ HighPart(x, w - k) = 0 <=> k <= q
         /\ k <= q => HighBit(LowPart(x * Pow2[k], w), p + k)
<1>1. p = w - 1 - q
  OBVIOUS
<1>2. PICK j \in Nat : j = w - k
  OBVIOUS
<1>. DEFINE P == Pow2[p]
            J == Pow2[j]
            K == Pow2[k]
            V == Pow2[w]
<1>3. P \in Nat \ {0} /\ J \in Nat \ {0} /\ K \in Nat \ {0} /\ V \in Nat \ {0}
  BY <1>1, <1>2, Pow2Facts
<1>4. P <= x /\ x < P + P
  BY <1>1 DEF HighBit
<1>5. J * K = V
  <2>1. w = j + k
    BY <1>2
  <2>2. Pow2[j + k] = Pow2[j] * Pow2[k]
    BY <1>2, Pow2Product
  <2>. QED BY <2>1, <2>2
<1>6. CASE k <= q
  <2>1. PICK m \in Nat : m = p + 1 /\ m <= j
    BY <1>1, <1>2, <1>6
  <2>2. P + P <= J
    <3>1. Pow2[m] = 2 * Pow2[p] /\ Pow2[m] <= Pow2[j]
      BY <2>1, Pow2Facts, Pow2Grows
    <3>. QED BY <1>3, <3>1
  <2>3. x \div J = 0
    <3>1. x = J * 0 + x /\ x \in 0 .. J - 1 /\ 0 \in Nat
      BY <1>3, <1>4, <2>2
    <3>. HIDE DEF J, P, K, V
    <3>. QED BY <1>3, <3>1, QuotientIs
  <2>4. x * K < V
    <3>1. x < J
      BY <1>3, <1>4, <2>2
    <3>. HIDE DEF J, K, V
    <3>2. PICK g \in Nat \ {0} : J = x + g
      <4>1. J - x \in Nat \ {0} /\ J = x + (J - x)
        BY <1>3, <3>1
      <4>. QED BY <4>1
    <3>3. V = x * K + g * K /\ g * K \in Nat \ {0} /\ x * K \in Nat
      BY <1>3, <1>5, <3>2
    <3>. QED BY <3>3
  <2>5. LowPart(x * K, w) = x * K
    <3>1. PICK z \in Nat : z = x * K
      BY <1>3
    <3>2. z = V * 0 + z /\ z \in 0 .. V - 1 /\ 0 \in Nat
      BY <1>3, <2>4, <3>1
    <3>3. z % V = z
      <4>. HIDE DEF V
      <4>. QED BY <1>3, <3>2, QuotientIs
    <3>. QED BY <3>1, <3>3 DEF LowPart
  <2>6. PICK i \in Nat : i = p + k
    OBVIOUS
  <2>7. Pow2[i] = P * K
    <3>1. Pow2[p + k] = Pow2[p] * Pow2[k]
      BY Pow2Product
    <3>. QED BY <2>6, <3>1
  <2>8. HighBit(x * K, i)
    <3>. HIDE DEF P, K
    <3>1. PICK g \in Nat : x = P + g
      <4>1. x - P \in Nat /\ x = P + (x - P)
        BY <1>3, <1>4
      <4>. QED BY <4>1
    <3>2. PICK f \in Nat \ {0} : P = g + f
      <4>1. P - g \in Nat \ {0} /\ P = g + (P - g)
        BY <1>3, <1>4, <3>1
      <4>. QED BY <4>1
    <3>3. x * K = P * K + g * K /\ P * K = g * K + f * K
      BY <1>3, <3>1, <3>2
    <3>4. P * K \in Nat /\ g * K \in Nat /\ f * K \in Nat \ {0}
      BY <1>3
    <3>. QED BY <2>7, <3>3, <3>4 DEF HighBit
  <2>. QED BY <1>2, <1>6, <2>3, <2>5, <2>6, <2>8 DEF HighPart
<1>7. CASE ~(k <= q)
  <2>1. Pow2[j] <= Pow2[p]
    BY <1>1, <1>2, <1>7, Pow2Grows
  <2>2. J <= x
    BY <1>3, <1>4, <2>1
  <2>3. x \div J # 0
    <3>. HIDE DEF J, P, K, V
    <3>1. SUFFICES ASSUME x \div J = 0 PROVE FALSE
      OBVIOUS
    <3>2. x = J * (x \div J) + (x % J) /\ x % J \in 0 .. J - 1
      BY <1>3, Quotient
    <3>3. x = x % J
      BY <1>3, <3>1, <3>2
    <3>. QED BY <1>3, <2>2, <3>2, <3>3
  <2>. QED BY <1>2, <1>7, <2>3 DEF HighPart
<1>. QED BY <1>6, <1>7

(* The scan from above counts the zeros over the highest bit.              *)
LEMMA FromHighFinds ==
  ASSUME NEW w \in {W, D}, NEW x \in Nat, NEW p \in 0 .. w - 1, HighBit(x, w - 1 - p)
  PROVE  FromHigh(w, x) = p
<1>. DEFINE At0(s, q) == /\ q \in 0 .. w - 1 /\ HighBit(s.x, w - 1 - q) /\ Within(q, s.k)
                         /\ s.n + q = p
            K == {s \in Scans : s.w = w /\ s.k <= w /\ \E q \in Nat : At0(s, q)}
            s0 == Scanned(w, x)
<1>0. w \in Nat \ {0} /\ w = w \div 2 + w \div 2 /\ w \div 2 <= w
  BY ScanStarts
<1>1. s0 \in K
  <2>1. At0(s0, p)
    BY ScanStarts
  <2>. QED BY <1>0, <2>1, ScanStarts
<1>2. ASSUME NEW s \in K, s \in Scanning PROVE HighTurn[s] \in K
  <2>1. PICK q \in Nat : At0(s, q)
    OBVIOUS
  <2>2. s \in Scans /\ s.k \in Nat \ {0} /\ s.x \in Nat /\ s.n \in Nat /\ s.w = w /\ s.k \in 0 .. w
    BY <1>0, <1>2 DEF Scanning, Scans
  <2>3. /\ HighPasses(s) <=> s.k <= q
        /\ s.k <= q => HighBit(LowPart(s.x * Pow2[s.k], w), w - 1 - (q - s.k))
    <3>1. PICK y \in Nat, k \in 0 .. w : y = s.x /\ k = s.k
      BY <2>2
    <3>2. PICK m \in Nat : m = w - 1 - q /\ w = m + 1 + q
      BY <1>0, <2>1
    <3>3. HighBit(y, m)
      BY <2>1, <3>1, <3>2
    <3>4. /\ HighPart(y, w - k) = 0 <=> k <= q
          /\ k <= q => HighBit(LowPart(y * Pow2[k], w), m + k)
      <4>. HIDE DEF K, s0, At0
      <4>1. w \in Nat /\ w = m + 1 + q /\ y \in Nat /\ k \in 0 .. w
        BY <1>0, <3>2
      <4>. QED BY ONLY <4>1, <3>3, m \in Nat, q \in Nat, HighBitParts
    <3>5. m + k = w - 1 - (q - k)
      BY <1>0, <2>1, <3>2
    <3>. QED BY <2>2, <3>1, <3>4, <3>5 DEF HighPasses
  <2>. DEFINE r == IF s.k <= q THEN q - s.k ELSE q
              t == HighTurn[s]
  <2>4. Within(r, s.k \div 2)
    BY <2>1, <2>2, WithinHalf
  <2>5. /\ t \in Scans /\ t.k = s.k \div 2 /\ t.w = w
        /\ t.x = IF s.k <= q THEN LowPart(s.x * Pow2[s.k], w) ELSE s.x
        /\ t.n = IF s.k <= q THEN s.n + s.k ELSE s.n
    BY <2>2, <2>3, TurnsAre
  <2>. HIDE DEF t
  <2>6. r \in 0 .. w - 1 /\ HighBit(t.x, w - 1 - r) /\ t.n + r = p /\ t.k <= w
    BY <1>0, <2>1, <2>2, <2>3, <2>5
  <2>7. At0(t, r)
    BY <2>4, <2>5, <2>6
  <2>. QED BY <2>5, <2>6, <2>7 DEF t
<1>3. PICK s \in K : s \notin Scanning /\ ScanHigh[s0] = Passed[s]
  <2>1. K \subseteq Scans
    OBVIOUS
  <2>. HIDE DEF K, s0
  <2>2. Keeps(K, Scans, Scanning, HighTurn)
    BY <1>2, <2>1 DEF Keeps
  <2>. QED BY <1>1, <2>2, TurnsEnd, ScansLoop, LoopEnds
<1>4. s \in Scans /\ s.k = 0 /\ s.n \in Nat
  BY <1>3 DEF Scanning, Scans
<1>5. PICK q \in Nat : At0(s, q)
  OBVIOUS
<1>6. q = 0
  BY <1>4, <1>5, Pow2Facts DEF Within
<1>7. Passed[s] = p
  BY <1>4, <1>5, <1>6 DEF Passed
<1>. QED BY <1>3, <1>7 DEF FromHigh

(* The scans of a word.                                                    *)
LEMMA WordScans ==
  ASSUME NEW w \in {W, D}, NEW x \in Wide(w), x # 0
  PROVE  /\ WordFfs(w, x) = Lowest(SetBits(w, x)) /\ WordFls(w, x) = Highest(SetBits(w, x))
         /\ Ffs(w, x) = Lowest(SetBits(w, x)) + 1 /\ Fls(w, x) = Highest(SetBits(w, x)) + 1
         /\ LowBit(x, Lowest(SetBits(w, x))) /\ Lowest(SetBits(w, x)) \in 0 .. w - 1
         /\ HighBit(x, Highest(SetBits(w, x))) /\ Highest(SetBits(w, x)) \in 0 .. w - 1
<1>1. w \in Nat \ {0} /\ x \in Nat
  BY Widths DEF Wide
<1>2. PICK l \in 0 .. w - 1 : LowBit(x, l)
  BY <1>1, BitsExist
<1>3. PICK h \in 0 .. w - 1 : HighBit(x, h)
  BY <1>1, BitsExist
<1>4. Lowest(SetBits(w, x)) = l /\ Highest(SetBits(w, x)) = h
  BY <1>1, <1>2, <1>3, LowestIs, HighestIs
<1>5. FromLow(w, x) = l
  BY <1>1, <1>2, FromLowFinds
<1>6. FromHigh(w, x) = w - 1 - h
  <2>1. PICK p \in 0 .. w - 1 : p = w - 1 - h /\ h = w - 1 - p
    BY <1>1, <1>3
  <2>2. FromHigh(w, x) = p
    BY <1>1, <1>3, <2>1, FromHighFinds
  <2>. QED BY <2>1, <2>2
<1>. QED BY <1>1, <1>2, <1>3, <1>4, <1>5, <1>6 DEF WordFfs, WordFls, Ffs, Fls

(* The scans of two words: of the one that has the bit.                    *)
LEMMA PairScans ==
  ASSUME NEW x \in Wide(D), x # 0
  PROVE  /\ Ffs64(x) = Lowest(SetBits(D, x)) /\ Fls64(x) = Highest(SetBits(D, x)) + 1
         /\ Clz(x) = D - 1 - Highest(SetBits(D, x)) /\ Ctz(x) = Lowest(SetBits(D, x))
<1>. DEFINE l == LowPart(x, W)
            h == HighPart(x, W)
            B == Pow2[W]
<1>1. /\ x = B * h + l /\ l \in Wide(W) /\ h \in Wide(W)
      /\ l \in Nat /\ h \in Nat /\ B \in Nat \ {0} /\ l < B
  <2>1. PICK w \in Nat \ {0} : w = W /\ D = w + w
    BY Widths
  <2>2. x \in Wide(w + w)
    BY <2>1
  <2>3. /\ LowPart(x, w) \in Wide(w) /\ HighPart(x, w) \in Wide(w)
        /\ x = Pow2[w] * HighPart(x, w) + LowPart(x, w) /\ Pow2[w] \in Nat \ {0}
    BY <2>2, HalvesIs
  <2>. QED BY <2>1, <2>3 DEF Wide
<1>2. W \in Nat \ {0} /\ D = W + W /\ D \in Nat \ {0}
  BY Widths
<1>3. PICK p \in 0 .. D - 1 : LowBit(x, p)
  BY <1>2, BitsExist
<1>4. PICK q \in 0 .. D - 1 : HighBit(x, q)
  BY <1>2, BitsExist
<1>5. x \in Nat
  BY DEF Wide
<1>6. Lowest(SetBits(D, x)) = p /\ Highest(SetBits(D, x)) = q
  BY <1>2, <1>3, <1>4, <1>5, LowestIs, HighestIs
<1>. HIDE DEF l, h, B
<1>7. Ffs64(x) = p
  <2>1. CASE l = 0
    <3>1. h # 0
      BY <1>1, <2>1
    <3>2. PICK c \in 0 .. W - 1 : LowBit(h, c) /\ WordFfs(W, h) = c
      BY <1>1, <3>1, WordScans
    <3>3. PICK z \in Nat : h = Pow2[c] * (z + z + 1)
      BY <3>2 DEF LowBit
    <3>4. PICK m \in Nat : m = W + c
      BY <1>2
    <3>5. Pow2[m] = B * Pow2[c] /\ Pow2[c] \in Nat
      <4>1. Pow2[W + c] = Pow2[W] * Pow2[c]
        BY <1>2, Pow2Product
      <4>. QED BY <3>4, <4>1, Pow2Facts DEF B
    <3>6. x = Pow2[m] * (z + z + 1)
      <4>1. x = B * h
        BY <1>1, <2>1
      <4>. QED BY <1>1, <3>3, <3>5, <4>1
    <3>7. LowBit(x, m) /\ m \in 0 .. D - 1
      BY <1>2, <3>4, <3>6 DEF LowBit
    <3>8. Lowest(SetBits(D, x)) = m
      BY <1>2, <1>5, <3>7, LowestIs
    <3>. QED BY <1>2, <1>6, <2>1, <3>2, <3>4, <3>8 DEF Ffs64, l, h
  <2>2. CASE l # 0
    <3>1. PICK c \in 0 .. W - 1 : LowBit(l, c) /\ WordFfs(W, l) = c
      BY <1>1, <2>2, WordScans
    <3>2. PICK z \in Nat : l = Pow2[c] * (z + z + 1)
      BY <3>1 DEF LowBit
    <3>3. PICK d \in Nat : W = (c + 1) + d
      <4>1. W - c - 1 \in Nat /\ W = (c + 1) + (W - c - 1)
        BY <1>2
      <4>. QED BY <4>1
    <3>4. PICK e \in Nat : e = c + 1
      OBVIOUS
    <3>5. B = 2 * Pow2[c] * Pow2[d] /\ Pow2[c] \in Nat /\ Pow2[d] \in Nat
      <4>1. Pow2[e + d] = Pow2[e] * Pow2[d] /\ Pow2[e] = 2 * Pow2[c]
        BY <3>4, Pow2Product, Pow2Facts
      <4>. QED BY <3>3, <3>4, <4>1, Pow2Facts DEF B
    <3>6. PICK y \in Nat : y = z + Pow2[d] * h
      BY <1>1, <3>5
    <3>7. x = Pow2[c] * (y + y + 1)
      <4>. DEFINE C == Pow2[c]
                  E == Pow2[d]
      <4>1. C \in Nat /\ E \in Nat /\ B = 2 * C * E /\ l = C * (z + z + 1) /\ y = z + E * h
        BY <3>2, <3>5, <3>6
      <4>. HIDE DEF C, E
      <4>2. PICK v \in Nat : v = E * h
        BY <1>1, <4>1
      <4>3. B * h = C * (v + v)
        BY <1>1, <4>1, <4>2
      <4>4. x = C * (v + v) + C * (z + z + 1) /\ y = z + v
        BY <1>1, <4>1, <4>2, <4>3
      <4>5. x = C * (y + y + 1)
        BY <4>1, <4>4
      <4>. QED BY <4>5 DEF C
    <3>8. LowBit(x, c) /\ c \in 0 .. D - 1
      BY <1>2, <3>7 DEF LowBit
    <3>9. Lowest(SetBits(D, x)) = c
      BY <1>2, <1>5, <3>8, LowestIs
    <3>. QED BY <1>6, <2>2, <3>1, <3>9 DEF Ffs64, l
  <2>. QED BY <2>1, <2>2
<1>8. Fls64(x) = q + 1
  <2>1. CASE h # 0
    <3>1. PICK c \in 0 .. W - 1 : HighBit(h, c) /\ Fls(W, h) = c + 1
      BY <1>1, <2>1, WordScans
    <3>2. PICK m \in Nat : m = W + c
      BY <1>2
    <3>. DEFINE C == Pow2[c]
                M == Pow2[m]
    <3>3. M = B * C /\ C \in Nat \ {0} /\ M \in Nat
      <4>1. Pow2[W + c] = Pow2[W] * Pow2[c]
        BY <1>2, Pow2Product
      <4>. QED BY <3>2, <4>1, Pow2Facts DEF B
    <3>4. C <= h /\ h + 1 <= C + C
      BY <1>1, <3>1, <3>3 DEF HighBit
    <3>5. M <= x /\ x < M + M
      <4>. HIDE DEF C, M
      <4>1. PICK g \in Nat : h = C + g
        <5>1. h - C \in Nat /\ h = C + (h - C)
          BY <1>1, <3>3, <3>4
        <5>. QED BY <5>1
      <4>2. PICK f \in Nat : C = g + 1 + f
        <5>1. C - g - 1 \in Nat /\ C = g + 1 + (C - g - 1)
          BY <3>3, <3>4, <4>1
        <5>. QED BY <5>1
      <4>3. B * h = B * C + B * g /\ B * C = B * g + B + B * f
        BY <1>1, <3>3, <4>1, <4>2
      <4>4. B * C \in Nat /\ B * g \in Nat /\ B * f \in Nat
        BY <1>1, <3>3
      <4>. QED BY <1>1, <3>3, <4>3, <4>4
    <3>6. HighBit(x, m) /\ m \in 0 .. D - 1
      BY <1>2, <3>2, <3>5 DEF HighBit
    <3>7. Highest(SetBits(D, x)) = m
      BY <1>2, <1>5, <3>6, HighestIs
    <3>. QED BY <1>2, <1>6, <2>1, <3>1, <3>2, <3>7 DEF Fls64, h
  <2>2. CASE h = 0
    <3>1. x = l
      BY <1>1, <2>2
    <3>2. l # 0
      BY <3>1
    <3>3. PICK c \in 0 .. W - 1 : HighBit(l, c) /\ Fls(W, l) = c + 1
      BY <1>1, <3>2, WordScans
    <3>4. Highest(SetBits(D, x)) = c
      <4>1. HighBit(x, c) /\ c \in 0 .. D - 1
        BY <1>2, <3>1, <3>3
      <4>. QED BY <1>2, <1>5, <4>1, HighestIs
    <3>. QED BY <1>6, <2>2, <3>1, <3>3, <3>4 DEF Fls64, h, l
  <2>. QED BY <2>1, <2>2
<1>9. Clz(x) = D - 1 - q /\ Ctz(x) = p
  <2>1. Fls(D, x) = q + 1 /\ WordFfs(D, x) = p
    BY <1>6, WordScans
  <2>. QED BY <1>2, <1>4, <2>1 DEF Clz, Ctz
<1>. QED BY <1>6, <1>7, <1>8, <1>9

-----------------------------------------------------------------------------
(* Numerals. *)

(* The powers of a base.                                                   *)
LEMMA PowersAre ==
  ASSUME NEW b \in Nat
  PROVE  /\ PowersOf(b)[0] = 1
         /\ \A k \in Nat : PowersOf(b)[k] \in Nat /\ PowersOf(b)[k + 1] = b * PowersOf(b)[k]
<1>. DEFINE step == [n \in Nat |-> [x \in Nat |-> b * x]]
<1>1. step \in [Nat -> [Nat -> Nat]]
  OBVIOUS
<1>2. PICK g \in [Nat -> Nat] : Unfolds(g, 1, step)
  <2>1. 1 \in Nat
    OBVIOUS
  <2>. HIDE DEF step
  <2>. QED BY <1>1, <2>1, Recursion, Zenon
<1>3. \A k \in Nat : g[k] = IF k = 0 THEN 1 ELSE b * g[k - 1]
  <2>1. TAKE k \in Nat
  <2>2. CASE k = 0
    BY <1>2, <2>2 DEF Unfolds
  <2>3. CASE k # 0
    <3>1. k - 1 \in Nat /\ (k - 1) + 1 = k
      BY <2>3
    <3>2. g[(k - 1) + 1] = step[k - 1][g[k - 1]] /\ g[k - 1] \in Nat
      BY <1>2, <3>1 DEF Unfolds
    <3>. QED BY <3>1, <3>2, <2>3
  <2>. QED BY <2>2, <2>3
<1>4. g = [k \in Nat |-> IF k = 0 THEN 1 ELSE b * g[k - 1]]
  BY <1>3
<1>5. PowersOf(b) = [k \in Nat |-> IF k = 0 THEN 1 ELSE b * PowersOf(b)[k - 1]]
  BY <1>4 DEF PowersOf
<1>. DEFINE p == PowersOf(b)
<1>. HIDE DEF p
<1>6. \A k \in Nat : p[k] = IF k = 0 THEN 1 ELSE b * p[k - 1]
  BY <1>5 DEF p
<1>7. p[0] = 1 /\ \A k \in Nat : p[k + 1] = b * p[k]
  BY <1>6
<1>. DEFINE S == {k \in Nat : p[k] \in Nat}
<1>8. \A k \in Nat : k \in S
  <2>1. 0 \in S
    BY <1>7
  <2>2. \A k \in Nat : k \in S => k + 1 \in S
    BY <1>7
  <2>. HIDE DEF S
  <2>. QED BY <2>1, <2>2, NatInductive
<1>. QED BY <1>7, <1>8 DEF p

(* The sums of the first terms.                                            *)
LEMMA SumsAre ==
  ASSUME NEW n \in Nat, NEW term \in [1 .. n -> Nat]
  PROVE  /\ SumsOf(n, term)[0] = 0
         /\ \A k \in 0 .. n : SumsOf(n, term)[k] \in Nat
         /\ \A k \in 0 .. n - 1 : SumsOf(n, term)[k + 1] = SumsOf(n, term)[k] + term[k + 1]
<1>. DEFINE step == [m \in Nat |-> [x \in Nat |-> IF m < n THEN x + term[m + 1] ELSE x]]
<1>1. step \in [Nat -> [Nat -> Nat]]
  <2>1. ASSUME NEW m \in Nat, NEW x \in Nat, m < n PROVE x + term[m + 1] \in Nat
    <3>1. m + 1 \in 1 .. n
      BY <2>1
    <3>2. term[m + 1] \in Nat
      BY <3>1
    <3>. QED BY <3>2
  <2>. QED BY <2>1
<1>2. PICK g \in [Nat -> Nat] : Unfolds(g, 0, step)
  <2>1. 0 \in Nat
    OBVIOUS
  <2>. HIDE DEF step
  <2>. QED BY <1>1, <2>1, Recursion, Zenon
<1>. DEFINE f == [k \in 0 .. n |-> g[k]]
<1>3. \A k \in 0 .. n : f[k] = IF k = 0 THEN 0 ELSE f[k - 1] + term[k]
  <2>1. TAKE k \in 0 .. n
  <2>2. CASE k = 0
    BY <1>2, <2>2 DEF Unfolds
  <2>3. CASE k # 0
    <3>1. k - 1 \in Nat /\ (k - 1) + 1 = k /\ k - 1 < n /\ k - 1 \in 0 .. n
      BY <2>3
    <3>2. g[(k - 1) + 1] = step[k - 1][g[k - 1]] /\ g[k - 1] \in Nat
      BY <1>2, <3>1 DEF Unfolds
    <3>. QED BY <3>1, <3>2, <2>3
  <2>. QED BY <2>2, <2>3
<1>4. f = [k \in 0 .. n |-> IF k = 0 THEN 0 ELSE f[k - 1] + term[k]]
  BY <1>3
<1>. HIDE DEF f
<1>5. SumsOf(n, term) = [k \in 0 .. n |-> IF k = 0 THEN 0 ELSE SumsOf(n, term)[k - 1] + term[k]]
  BY <1>4 DEF SumsOf
<1>. DEFINE s == SumsOf(n, term)
<1>. HIDE DEF s
<1>6. \A k \in 0 .. n : s[k] = IF k = 0 THEN 0 ELSE s[k - 1] + term[k]
  BY <1>5 DEF s
<1>7. s[0] = 0
  BY <1>6
<1>8. ASSUME NEW k \in 0 .. n - 1 PROVE s[k + 1] = s[k] + term[k + 1]
  <2>1. PICK m \in 0 .. n : m = k + 1 /\ m # 0 /\ m - 1 = k
    OBVIOUS
  <2>2. s[m] = s[m - 1] + term[m]
    BY <1>6, <2>1
  <2>. QED BY <2>1, <2>2
<1>. DEFINE S == {k \in 0 .. n : s[k] \in Nat}
<1>9. \A k \in 0 .. n : k \in S
  <2>1. 0 \in S
    BY <1>7
  <2>2. \A k \in 0 .. n - 1 : k \in S => k + 1 \in S
    <3>1. TAKE k \in 0 .. n - 1
    <3>2. HAVE k \in S
    <3>3. k + 1 \in 1 .. n /\ k + 1 \in 0 .. n
      OBVIOUS
    <3>4. term[k + 1] \in Nat /\ s[k] \in Nat
      BY <3>2, <3>3
    <3>5. PICK x \in Nat, y \in Nat : x = s[k] /\ y = term[k + 1]
      BY <3>4
    <3>6. PICK z \in Nat : z = x + y
      OBVIOUS
    <3>7. s[k + 1] = z
      BY <1>8, <3>5, <3>6
    <3>. QED BY <3>3, <3>7
  <2>3. 0 \in Int /\ n \in Int
    OBVIOUS
  <2>. HIDE DEF S
  <2>. QED BY <2>1, <2>2, <2>3, UpTo
<1>. QED BY <1>7, <1>8, <1>9 DEF s

(* f sums up the first n terms, and v is b times u.                        *)
Sums(f, n, term) ==
  /\ f[0] = 0
  /\ \A k \in 0 .. n : f[k] \in Nat
  /\ \A k \in 0 .. n - 1 : f[k + 1] = f[k] + term[k + 1]
Times(v, b, u, n) == \A k \in 1 .. n : v[k] = b * u[k]

(* Sums of terms that are b times as large.                                *)
LEMMA SumsScale ==
  ASSUME NEW n \in Nat, NEW b \in Nat, NEW u \in [1 .. n -> Nat], NEW v, Times(v, b, u, n),
         NEW f, NEW g, Sums(f, n, u), Sums(g, n, v)
  PROVE  g[n] = b * f[n]
<1>. USE DEF Sums, Times
<1>. DEFINE S == {k \in 0 .. n : g[k] = b * f[k]}
<1>1. 0 \in S
  OBVIOUS
<1>2. \A k \in 0 .. n - 1 : k \in S => k + 1 \in S
  <2>1. TAKE k \in 0 .. n - 1
  <2>2. HAVE k \in S
  <2>3. PICK m \in 1 .. n : m = k + 1
    OBVIOUS
  <2>4. f[m] = f[k] + u[m] /\ g[m] = g[k] + v[m] /\ v[m] = b * u[m]
    BY <2>3
  <2>5. f[k] \in Nat /\ u[m] \in Nat /\ g[k] = b * f[k]
    BY <2>2
  <2>6. PICK x \in Nat, y \in Nat : x = f[k] /\ y = u[m]
    BY <2>5
  <2>7. b * (x + y) = b * x + b * y
    OBVIOUS
  <2>8. g[m] = b * f[m]
    BY <2>4, <2>5, <2>6, <2>7
  <2>. QED BY <2>3, <2>8
<1>3. \A k \in 0 .. n : k \in S
  <2>1. 0 \in Int /\ n \in Int
    OBVIOUS
  <2>. HIDE DEF S
  <2>. QED BY <1>1, <1>2, <2>1, UpTo
<1>. QED BY <1>3

(* The n characters of s after the i-th are digits of the base b.          *)
DigitsAt(s, i, b, n) == \A k \in 1 .. n : InBase(s[i + k], b)

(* The value of a digit is below the base.                                 *)
LEMMA DigitIs ==
  ASSUME NEW c, NEW b \in Nat, InBase(c, b)
  PROVE  ValueOf[c] \in Nat /\ ValueOf[c] < b /\ c # "nul"
<1>1. c \in {"0", "1", "7", "9", "a", "F"}
  BY DEF InBase, ValueOf
<1>2. ValueOf[c] \in Nat /\ c # "nul"
  BY <1>1 DEF ValueOf
<1>. QED BY <1>2 DEF InBase

(* The value of a numeral with one digit more.                             *)
Grown(y, x, b, d) == y = x * b + d
LEMMA NumeralGrows ==
  ASSUME NEW s, NEW i \in Nat, NEW b \in Nat, NEW n \in Nat, NEW m \in Nat, m = n + 1,
         DigitsAt(s, i, b, m)
  PROVE  /\ NumeralValue(s, i, b, n) \in Nat
         /\ Grown(NumeralValue(s, i, b, m), NumeralValue(s, i, b, n), b, ValueOf[s[i + m]])
<1>. DEFINE p == PowersOf(b)
            u == [k \in 1 .. n |-> ValueOf[s[i + k]] * p[n - k]]
            v == [k \in 1 .. m |-> ValueOf[s[i + k]] * p[m - k]]
            f == SumsOf(n, u)
            g == SumsOf(m, v)
<1>1. ASSUME NEW k \in 1 .. m
      PROVE  ValueOf[s[i + k]] \in Nat
  BY DigitIs DEF DigitsAt
<1>2. p[0] = 1 /\ \A k \in Nat : p[k] \in Nat /\ p[k + 1] = b * p[k]
  BY PowersAre
<1>. HIDE DEF p
<1>3. ASSUME NEW k \in 1 .. n
      PROVE  u[k] \in Nat /\ v[k] = b * u[k]
  <2>1. PICK d \in Nat : d = ValueOf[s[i + k]]
    BY <1>1
  <2>2. PICK j \in Nat : j = n - k /\ m - k = j + 1
    OBVIOUS
  <2>3. PICK q \in Nat : q = p[j]
    BY <1>2
  <2>4. p[m - k] = b * q
    BY <1>2, <2>2, <2>3
  <2>5. d * q \in Nat /\ d * (b * q) = b * (d * q)
    OBVIOUS
  <2>6. u[k] = d * q /\ v[k] = d * (b * q)
    BY <2>1, <2>2, <2>3, <2>4
  <2>. QED BY <2>5, <2>6
<1>4. v[m] = ValueOf[s[i + m]]
  <2>1. PICK d \in Nat : d = ValueOf[s[i + m]]
    BY <1>1
  <2>2. m - m = 0 /\ m \in 1 .. m
    OBVIOUS
  <2>. QED BY <1>2, <2>1, <2>2
<1>5. u \in [1 .. n -> Nat]
  BY <1>3
<1>6. v \in [1 .. m -> Nat]
  <2>1. ASSUME NEW k \in 1 .. m PROVE v[k] \in Nat
    <3>1. CASE k = m
      BY <1>1, <1>4, <3>1
    <3>2. CASE k \in 1 .. n
      <4>1. PICK x \in Nat : x = u[k]
        BY <1>3, <3>2
      <4>2. v[k] = b * x
        BY <1>3, <3>2, <4>1
      <4>. QED BY <4>2
    <3>. QED BY <3>1, <3>2
  <2>. QED BY <2>1
<1>. HIDE DEF u, v
<1>7. /\ f[0] = 0
      /\ \A k \in 0 .. n : f[k] \in Nat
      /\ \A k \in 0 .. n - 1 : f[k + 1] = f[k] + u[k + 1]
  BY <1>5, SumsAre
<1>8. /\ g[0] = 0
      /\ \A k \in 0 .. m : g[k] \in Nat
      /\ \A k \in 0 .. m - 1 : g[k + 1] = g[k] + v[k + 1]
  <2>1. m \in Nat
    OBVIOUS
  <2>. QED BY <1>6, <2>1, SumsAre
<1>. HIDE DEF f, g
<1>9. g[n] = b * f[n]
  <2>1. Sums(f, n, u) /\ Sums(g, n, v)
    BY <1>7, <1>8 DEF Sums
  <2>2. Times(v, b, u, n)
    BY <1>3 DEF Times
  <2>. QED BY <1>5, <2>1, <2>2, SumsScale
<1>10. g[m] = g[n] + v[m]
  BY <1>8
<1>11. NumeralValue(s, i, b, n) = f[n] /\ NumeralValue(s, i, b, m) = g[m]
  BY DEF NumeralValue, f, g, u, v, p
<1>12. PICK x \in Nat, d \in Nat : x = f[n] /\ d = v[m]
  BY <1>1, <1>4, <1>7
<1>. QED BY <1>4, <1>9, <1>10, <1>11, <1>12 DEF Grown

(* The numeral of no digits.                                               *)
LEMMA NumeralStarts ==
  ASSUME NEW s, NEW i, NEW b \in Nat
  PROVE  NumeralValue(s, i, b, 0) = 0
<1>. DEFINE u == [k \in 1 .. 0 |-> ValueOf[s[i + k]] * PowersOf(b)[0 - k]]
<1>1. u \in [1 .. 0 -> Nat] /\ 0 \in Nat
  OBVIOUS
<1>2. NumeralValue(s, i, b, 0) = SumsOf(0, u)[0]
  BY DEF NumeralValue
<1>. HIDE DEF u
<1>. QED BY <1>1, <1>2, SumsAre

(* The loop of the conversions.                                            *)
HasDigit(c) == InBase(At(c.s, c.k), c.base)
More == {c \in Conversions : HasDigit(c)}
Taken(c) == LowPart(c.result * c.base + ValueOf[c.s[c.k]], c.w)
Take == [c \in Conversions |->
           IF HasDigit(c) THEN [c EXCEPT !.k = @ + 1, !.result = Taken(c)] ELSE c]
Untaken == [c \in Conversions |-> IF c.k <= Len(c.s) THEN Len(c.s) + 1 - c.k ELSE 0]
Got == [c \in Conversions |-> <<c.result, c.k - 1>>]

(* A digit is a character of the string.                                   *)
LEMMA DigitAt ==
  ASSUME NEW c \in Conversions, HasDigit(c)
  PROVE  /\ c.k <= Len(c.s) /\ At(c.s, c.k) = c.s[c.k] /\ InBase(c.s[c.k], c.base)
         /\ ValueOf[c.s[c.k]] \in Nat
<1>1. c.base \in Nat
  BY DEF Conversions
<1>2. At(c.s, c.k) # "nul" /\ ValueOf[At(c.s, c.k)] \in Nat
  BY <1>1, DigitIs DEF HasDigit
<1>3. c.k <= Len(c.s)
  BY <1>2 DEF At
<1>. QED BY <1>2, <1>3 DEF At, HasDigit

(* What a turn does.                                                       *)
LEMMA TakeIs ==
  ASSUME NEW c \in Conversions, HasDigit(c)
  PROVE  /\ Take[c] \in Conversions /\ Take[c].w = c.w /\ Take[c].s = c.s
         /\ Take[c].base = c.base /\ Take[c].k = c.k + 1 /\ Take[c].result = Taken(c)
<1>1. c.w \in Nat /\ c.s \in Seq(CharsTyped) /\ c.k \in Nat \ {0} /\ c.base \in Nat /\ c.result \in Nat
  BY DEF Conversions
<1>2. ValueOf[c.s[c.k]] \in Nat
  BY DigitAt
<1>3. PICK v \in Nat : v = Taken(c)
  <2>1. PICK x \in Nat : x = c.result * c.base + ValueOf[c.s[c.k]]
    BY <1>1, <1>2
  <2>2. PICK w \in Nat : w = c.w
    BY <1>1
  <2>3. LowPart(x, w) \in Nat
    BY PartsIs
  <2>. QED BY <2>1, <2>2, <2>3 DEF Taken
<1>4. PICK m \in Nat \ {0} : m = c.k + 1
  BY <1>1
<1>5. Take[c] = [c EXCEPT !.k = m, !.result = v]
  BY <1>3, <1>4 DEF Take
<1>6. PICK S : S = Seq(CharsTyped)
  OBVIOUS
<1>. DEFINE R == [w : Nat, s : S, k : Nat \ {0}, base : Nat, result : Nat]
            e == [c EXCEPT !.k = m]
            t == [e EXCEPT !.result = v]
<1>7. c \in R
  BY <1>6 DEF Conversions
<1>8. e \in R /\ e.w = c.w /\ e.s = c.s /\ e.base = c.base /\ e.k = m
  BY <1>7
<1>9. t \in R /\ t.w = e.w /\ t.s = e.s /\ t.base = e.base /\ t.k = e.k /\ t.result = v
  <2>. HIDE DEF e
  <2>. QED BY <1>8
<1>10. Take[c] = t
  BY <1>5
<1>. HIDE DEF t, e
<1>. QED BY <1>3, <1>4, <1>6, <1>8, <1>9, <1>10 DEF Conversions

(* They end, because the string does.                                      *)
LEMMA ConversionsEnd ==
  /\ Take \in [Conversions -> Conversions] /\ Untaken \in [Conversions -> Nat]
  /\ Falls(Untaken, Conversions, More, Take)
<1>1. ASSUME NEW c \in Conversions PROVE Take[c] \in Conversions
  <2>1. CASE HasDigit(c)
    BY <2>1, TakeIs
  <2>2. CASE ~HasDigit(c)
    BY <2>2 DEF Take
  <2>. QED BY <2>1, <2>2
<1>2. ASSUME NEW c \in Conversions
      PROVE  c.k \in Nat /\ Len(c.s) \in Nat
  <2>1. c.k \in Nat /\ c.s \in Seq(CharsTyped)
    BY DEF Conversions
  <2>. QED BY <2>1
<1>3. ASSUME NEW c \in Conversions, c \in More PROVE Untaken[Take[c]] < Untaken[c]
  <2>1. c.k <= Len(c.s) /\ Take[c].s = c.s /\ Take[c].k = c.k + 1
    BY <1>3, DigitAt, TakeIs DEF More
  <2>. QED BY <1>1, <1>2, <2>1 DEF Untaken
<1>4. Take \in [Conversions -> Conversions]
  BY <1>1 DEF Take
<1>5. Untaken \in [Conversions -> Nat]
  BY <1>2 DEF Untaken
<1>. QED BY <1>3, <1>4, <1>5 DEF Falls

(* They are the function Convert.                                          *)
LEMMA ConvertLoops == Loops(Convert, Conversions, More, Take, Got)
<1>. DEFINE V == {Got[c] : c \in Conversions} \cup {0}
<1>1. V # {} /\ Got \in [Conversions -> V]
  BY DEF Got
<1>2. PICK f \in [Conversions -> V] : Loops(f, Conversions, More, Take, Got)
  <2>. HIDE DEF V
  <2>. QED BY <1>1, ConversionsEnd, LoopExists
<1>3. f = [c \in Conversions |->
             IF InBase(At(c.s, c.k), c.base)
             THEN f[[c EXCEPT !.k = @ + 1,
                              !.result = LowPart(@ * c.base + ValueOf[c.s[c.k]], c.w)]]
             ELSE <<c.result, c.k - 1>>]
  BY <1>2 DEF Loops, More, Take, Got, HasDigit, Taken
<1>4. Convert = [c \in Conversions |->
             IF InBase(At(c.s, c.k), c.base)
             THEN Convert[[c EXCEPT !.k = @ + 1,
                              !.result = LowPart(@ * c.base + ValueOf[c.s[c.k]], c.w)]]
             ELSE <<c.result, c.k - 1>>]
  BY <1>3 DEF Convert
<1>. QED BY <1>4 DEF Loops, More, Take, Got, HasDigit, Taken

(* What the loop has when it comes to the character after the n-th of the  *)
(* digits that follow the i-th.                                            *)
Converting(c, w, s, i, b, n) ==
  /\ c.w = w /\ c.s = s /\ c.base = b /\ n \in Nat /\ c.k = i + n + 1 /\ i + n <= Len(s)
  /\ DigitsAt(s, i, b, n)
  /\ c.result = NumeralValue(s, i, b, n) % Pow2[w]

(* A turn adds a digit.                                                    *)
LEMMA TakesDigit ==
  ASSUME NEW w \in Nat, NEW s \in Seq(CharsTyped), NEW i \in Nat, NEW b \in Nat, NEW n \in Nat,
         NEW c \in Conversions, Converting(c, w, s, i, b, n), HasDigit(c)
  PROVE  Converting(Take[c], w, s, i, b, n + 1)
<1>1. PICK m \in Nat : m = n + 1
  OBVIOUS
<1>2. Len(s) \in Nat /\ c.w = w /\ c.s = s /\ c.base = b /\ c.k = i + m
  BY <1>1 DEF Converting
<1>3. InBase(s[i + m], b) /\ i + m <= Len(s)
  BY <1>2, DigitAt
<1>4. DigitsAt(s, i, b, m)
  BY <1>1, <1>3 DEF Converting, DigitsAt
<1>5. PICK x \in Nat, d \in Nat : /\ x = NumeralValue(s, i, b, n) /\ d = ValueOf[s[i + m]]
                                  /\ NumeralValue(s, i, b, m) = x * b + d
  <2>1. ValueOf[s[i + m]] \in Nat
    BY <1>3, DigitIs
  <2>2. /\ NumeralValue(s, i, b, n) \in Nat
        /\ Grown(NumeralValue(s, i, b, m), NumeralValue(s, i, b, n), b, ValueOf[s[i + m]])
    BY <1>1, <1>4, NumeralGrows
  <2>. QED BY <2>1, <2>2 DEF Grown
<1>6. Taken(c) = ((x % Pow2[w]) * b + d) % Pow2[w]
  BY <1>2, <1>5 DEF Taken, LowPart, Converting
<1>7. ((x % Pow2[w]) * b + d) % Pow2[w] = (x * b + d) % Pow2[w]
  <2>. DEFINE M == Pow2[w]
  <2>1. M \in Nat \ {0}
    BY Pow2Facts
  <2>. HIDE DEF M
  <2>2. PICK q \in Nat, r \in 0 .. M - 1 : x = M * q + r /\ x % M = r
    <3>1. x \div M \in Nat /\ x % M \in 0 .. M - 1 /\ x = M * (x \div M) + (x % M)
      BY <2>1, Quotient
    <3>. QED BY <3>1
  <2>3. PICK y \in Nat : y = r * b + d
    <3>1. r * b + d \in Nat
      BY <2>1
    <3>. QED BY <3>1
  <2>4. PICK p \in Nat, z \in 0 .. M - 1 : y = M * p + z /\ y % M = z
    <3>1. y \div M \in Nat /\ y % M \in 0 .. M - 1 /\ y = M * (y \div M) + (y % M)
      BY <2>1, Quotient
    <3>. QED BY <3>1
  <2>5. PICK e \in Nat : e = q * b + p
    OBVIOUS
  <2>6. x * b + d = M * e + z
    <3>1. x * b = (M * q) * b + r * b
      BY <2>1, <2>2
    <3>2. M * (q * b + p) = (M * q) * b + M * p
      BY <2>1
    <3>. QED BY <2>1, <2>3, <2>4, <2>5, <3>1, <3>2
  <2>7. (x * b + d) % M = z
    <3>1. PICK v \in Nat : v = x * b + d
      OBVIOUS
    <3>2. v % M = z
      BY <2>1, <2>6, <3>1, QuotientIs
    <3>. QED BY <3>1, <3>2
  <2>. QED BY <2>2, <2>3, <2>4, <2>7 DEF M
<1>8. /\ Take[c].w = w /\ Take[c].s = s /\ Take[c].base = b /\ Take[c].k = i + m + 1
      /\ Take[c].result = Taken(c)
  BY <1>2, TakeIs
<1>9. Converting(Take[c], w, s, i, b, m)
  BY <1>3, <1>4, <1>5, <1>6, <1>7, <1>8 DEF Converting
<1>. QED BY <1>1, <1>9

(* All the digits: n of them, when what comes next is not one.             *)
AllDigits(s, i, b, n) ==
  /\ n \in Nat /\ i + n <= Len(s) /\ DigitsAt(s, i, b, n)
  /\ i + n < Len(s) => ~InBase(s[i + n + 1], b)

(* The conversion c returns their value.                                   *)
Exact(c, w, s, i, b) ==
  \E n : /\ AllDigits(s, i, b, n)
         /\ Convert[c] = <<NumeralValue(s, i, b, n) % Pow2[w], i + n>>

(* A conversion takes all the digits, and no more, and returns the value.  *)
LEMMA Converts ==
  ASSUME NEW w \in Nat, NEW s \in Seq(CharsTyped), NEW i \in Nat, NEW b \in Nat, NEW m \in Nat,
         NEW c \in Conversions, Converting(c, w, s, i, b, m)
  PROVE  Exact(c, w, s, i, b)
<1>. DEFINE K == {e \in Conversions : \E n \in Nat : Converting(e, w, s, i, b, n)}
<1>1. c \in K
  OBVIOUS
<1>2. ASSUME NEW e \in K, e \in More PROVE Take[e] \in K
  <2>1. PICK n \in Nat : Converting(e, w, s, i, b, n)
    OBVIOUS
  <2>2. Converting(Take[e], w, s, i, b, n + 1)
    BY <1>2, <2>1, TakesDigit DEF More
  <2>3. Take[e] \in Conversions
    BY <1>2, TakeIs DEF More
  <2>4. PICK m1 \in Nat : m1 = n + 1
    OBVIOUS
  <2>. QED BY <2>2, <2>3, <2>4
<1>3. PICK e \in K : e \notin More /\ Convert[c] = Got[e]
  <2>1. K \subseteq Conversions
    OBVIOUS
  <2>. HIDE DEF K
  <2>2. Keeps(K, Conversions, More, Take)
    BY <1>2, <2>1 DEF Keeps
  <2>3. /\ Take \in [Conversions -> Conversions] /\ Untaken \in [Conversions -> Nat]
        /\ Falls(Untaken, Conversions, More, Take)
        /\ Loops(Convert, Conversions, More, Take, Got)
    BY ConversionsEnd, ConvertLoops
  <2>. QED BY ONLY <1>1, <2>2, <2>3, LoopEnds, SMTT(30)
<1>4. PICK n \in Nat : Converting(e, w, s, i, b, n)
  OBVIOUS
<1>5. Got[e] = <<e.result, e.k - 1>> /\ ~HasDigit(e)
  BY <1>3 DEF Got, More
<1>6. Len(s) \in Nat
  OBVIOUS
<1>7. Convert[c] = <<NumeralValue(s, i, b, n) % Pow2[w], i + n>>
  <2>1. e.k - 1 = i + n /\ e.result = NumeralValue(s, i, b, n) % Pow2[w]
    BY <1>4 DEF Converting
  <2>. QED BY <1>3, <1>5, <2>1
<1>8. i + n < Len(s) => ~InBase(s[i + n + 1], b)
  <2>1. e.k = i + n + 1 /\ e.s = s /\ e.base = b
    BY <1>4 DEF Converting
  <2>. QED BY <1>5, <1>6, <2>1 DEF HasDigit, At
<1>9. AllDigits(s, i, b, n)
  BY <1>4, <1>8 DEF Converting, AllDigits
<1>. QED BY <1>7, <1>9 DEF Exact

(* The numbers of digits that s has after its i-th character.              *)
Digits(s, i, b) == {n \in 0 .. Len(s) - i : \A k \in 1 .. n : InBase(s[i + k], b)}

(* The highest of them.                                                    *)
LEMMA DigitsHighest ==
  ASSUME NEW s, Len(s) \in Nat, NEW i \in Nat, NEW b, NEW n, AllDigits(s, i, b, n)
  PROVE  Highest(Digits(s, i, b)) = n
<1>. DEFINE S == Digits(s, i, b)
<1>1. n \in S
  BY DEF Digits, AllDigits, DigitsAt
<1>2. ASSUME NEW j \in S PROVE j \in Nat /\ j <= n
  <2>1. j \in 0 .. Len(s) - i /\ \A k \in 1 .. j : InBase(s[i + k], b)
    BY DEF Digits
  <2>2. n \in Nat
    BY DEF AllDigits
  <2>3. SUFFICES ASSUME ~(j <= n) PROVE FALSE
    BY <2>1
  <2>4. n + 1 \in 1 .. j /\ i + n < Len(s)
    BY <2>1, <2>2, <2>3
  <2>5. InBase(s[i + (n + 1)], b)
    BY <2>1, <2>4
  <2>6. i + (n + 1) = i + n + 1
    BY <2>2
  <2>. QED BY <2>4, <2>5, <2>6 DEF AllDigits
<1>3. n \in Nat
  BY DEF AllDigits
<1>. HIDE DEF S
<1>4. PICK h : h = Highest(S)
  OBVIOUS
<1>5. h \in S /\ n <= h
  BY <1>1, <1>2, <1>4 DEF Highest
<1>6. h \in Nat /\ h <= n
  BY <1>2, <1>5
<1>7. h = n
  BY <1>3, <1>5, <1>6
<1>. QED BY <1>4, <1>7 DEF S

(* A conversion from its start, the first m digits passed for their value. *)
Start(w, s, k, b) == [w |-> w, s |-> s, k |-> k, base |-> b, result |-> 0]

(* It starts at the k-th character, after m digits that count nothing.     *)
StartsAt(s, i, b, m, k) ==
  /\ m \in Nat /\ k = i + m + 1 /\ i + m <= Len(s) /\ DigitsAt(s, i, b, m)
  /\ NumeralValue(s, i, b, m) = 0

(* From there it takes all the digits and returns their value.             *)
LEMMA StartConverts ==
  ASSUME NEW w \in Nat, NEW s \in Seq(CharsTyped), NEW i \in Nat, NEW b \in Nat, NEW k \in Nat,
         NEW m, StartsAt(s, i, b, m, k)
  PROVE  Exact(Start(w, s, k, b), w, s, i, b)
<1>1. m \in Nat /\ k \in Nat \ {0}
  BY DEF StartsAt
<1>2. PICK c : c = Start(w, s, k, b)
  OBVIOUS
<1>3. c \in Conversions
  BY <1>1, <1>2 DEF Start, Conversions
<1>4. 0 % Pow2[w] = 0
  <2>1. PICK M \in Nat \ {0} : M = Pow2[w]
    BY Pow2Facts
  <2>2. 0 % M = 0
    OBVIOUS
  <2>. QED BY <2>1, <2>2
<1>5. Converting(c, w, s, i, b, m)
  BY <1>1, <1>2, <1>4 DEF Start, Converting, StartsAt
<1>6. Exact(c, w, s, i, b)
  BY <1>1, <1>3, <1>5, Converts
<1>. QED BY <1>2, <1>6

(* The prefix 0x counts when a digit follows it.                           *)
LEMMA HexDigits ==
  ASSUME NEW s \in Seq(CharsTyped), Len(s) >= 3
  PROVE  Highest(Digits(s, 2, 16)) > 0 <=> InBase(At(s, 3), 16)
<1>1. Len(s) \in Nat
  OBVIOUS
<1>2. PICK n : AllDigits(s, 2, 16, n)
  <2>1. DigitsAt(s, 2, 16, 0)
    BY DEF DigitsAt
  <2>2. NumeralValue(s, 2, 16, 0) = 0
    BY NumeralStarts
  <2>3. StartsAt(s, 2, 16, 0, 3)
    BY <1>1, <2>1, <2>2 DEF StartsAt
  <2>4. Exact(Start(0, s, 3, 16), 0, s, 2, 16)
    BY <2>3, StartConverts
  <2>. QED BY <2>4 DEF Exact
<1>3. Highest(Digits(s, 2, 16)) = n
  BY <1>1, <1>2, DigitsHighest
<1>4. At(s, 3) = s[3]
  BY DEF At
<1>5. n \in Nat
  BY <1>2 DEF AllDigits
<1>6. CASE n = 0
  <2>1. ~InBase(s[3], 16)
    BY <1>1, <1>2, <1>6 DEF AllDigits
  <2>. QED BY <1>3, <1>4, <1>6, <2>1
<1>7. CASE n # 0
  <2>1. 1 \in 1 .. n /\ 2 + 1 = 3
    BY <1>5, <1>7
  <2>2. InBase(s[2 + 1], 16)
    BY <1>2, <2>1 DEF AllDigits, DigitsAt
  <2>. QED BY <1>3, <1>4, <1>5, <1>7, <2>1, <2>2
<1>. QED BY <1>6, <1>7

(* The conversion returns the value of the longest numeral.                *)
LEMMA StrtoulConverts ==
  ASSUME NEW w \in Nat, NEW s \in Seq(CharsTyped), NEW base \in {0, 16}
  PROVE  Strtoul(w, s, base) = NumeralIn(w, s, base)
<1>. DEFINE zero == At(s, 1) = "0"
            hex == zero /\ At(s, 2) = "x" /\ InBase(At(s, 3), 16)
            b == IF hex THEN 16 ELSE IF base # 0 THEN base ELSE IF zero THEN 8 ELSE 10
            i == IF hex THEN 2 ELSE 0
            k == IF hex THEN 3 ELSE IF zero THEN 2 ELSE 1
<1>1. Len(s) \in Nat
  OBVIOUS
<1>2. zero <=> Len(s) >= 1 /\ s[1] = "0"
  BY <1>1 DEF At
<1>3. hex <=> Len(s) >= 3 /\ s[1] = "0" /\ s[2] = "x" /\ Highest(Digits(s, 2, 16)) > 0
  <2>1. InBase(At(s, 3), 16) => Len(s) >= 3
    <3>1. InBase(At(s, 3), 16) => At(s, 3) # "nul"
      <4>1. 16 \in Nat
        OBVIOUS
      <4>. QED BY <4>1, DigitIs
    <3>. QED BY <1>1, <3>1 DEF At
  <2>2. Len(s) >= 3 => (Highest(Digits(s, 2, 16)) > 0 <=> InBase(At(s, 3), 16))
    BY HexDigits
  <2>3. Len(s) >= 3 => At(s, 1) = s[1] /\ At(s, 2) = s[2]
    BY <1>1 DEF At
  <2>. QED BY <2>1, <2>2, <2>3
<1>4. Strtoul(w, s, base) = Convert[Start(w, s, k, b)]
  BY DEF Strtoul, Start
<1>5. NumeralIn(w, s, base)
        = <<NumeralValue(s, i, b, Highest(Digits(s, i, b))) % Pow2[w], i + Highest(Digits(s, i, b))>>
  <2>. DEFINE hex1 == Len(s) >= 3 /\ s[1] = "0" /\ s[2] = "x" /\ Highest(Digits(s, 2, 16)) > 0
              b1 == IF hex1 \/ base = 16 THEN 16 ELSE IF Len(s) >= 1 /\ s[1] = "0" THEN 8 ELSE 10
              i1 == IF hex1 THEN 2 ELSE 0
              n1 == Highest(Digits(s, i1, b1))
  <2>1. NumeralIn(w, s, base) = <<NumeralValue(s, i1, b1, n1) % Pow2[w], i1 + n1>>
    BY DEF NumeralIn, Digits
  <2>2. hex1 <=> hex
    BY <1>3
  <2>. HIDE DEF hex, hex1
  <2>3. b1 = b /\ i1 = i
    <3>. HIDE DEF zero
    <3>. QED BY <1>2, <2>2
  <2>. HIDE DEF b1, i1, b, i
  <2>. QED BY <2>1, <2>3
<1>6. b \in Nat /\ i \in Nat /\ k \in Nat /\ b > 0
  OBVIOUS
<1>7. PICK m \in Nat : /\ k = i + m + 1 /\ i + m <= Len(s) /\ DigitsAt(s, i, b, m)
                       /\ NumeralValue(s, i, b, m) = 0
  <2>1. DigitsAt(s, i, b, 0) /\ NumeralValue(s, i, b, 0) = 0
    BY <1>6, NumeralStarts DEF DigitsAt
  <2>2. CASE hex
    <3>1. k = i + 0 + 1 /\ i + 0 <= Len(s)
      BY <1>1, <1>3, <2>2
    <3>. QED BY <2>1, <3>1
  <2>3. CASE ~hex /\ ~zero
    <3>1. k = i + 0 + 1 /\ i + 0 <= Len(s)
      BY <1>1, <2>3
    <3>. QED BY <2>1, <3>1
  <2>4. CASE ~hex /\ zero
    <3>1. k = i + 1 + 1 /\ i + 1 <= Len(s) /\ i = 0 /\ s[1] = "0"
      <4>. HIDE DEF zero
      <4>. QED BY <1>1, <1>2, <2>4
    <3>. HIDE DEF hex, b
    <3>2. InBase(s[1], b) /\ ValueOf[s[1]] = 0
      BY <1>6, <3>1 DEF InBase, ValueOf
    <3>3. DigitsAt(s, i, b, 1)
      BY <3>1, <3>2 DEF DigitsAt
    <3>4. Grown(NumeralValue(s, i, b, 1), NumeralValue(s, i, b, 0), b, ValueOf[s[i + 1]])
      <4>1. 0 \in Nat /\ 1 \in Nat /\ 1 = 0 + 1
        OBVIOUS
      <4>. HIDE DEF i
      <4>. QED BY <1>6, <3>3, <4>1, NumeralGrows
    <3>5. NumeralValue(s, i, b, 1) = 0
      BY <1>6, <2>1, <3>1, <3>2, <3>4 DEF Grown
    <3>. QED BY <3>1, <3>3, <3>5
  <2>. QED BY <2>2, <2>3, <2>4
<1>. HIDE DEF b, i, k, hex, zero
<1>8. PICK n : /\ AllDigits(s, i, b, n)
               /\ Convert[Start(w, s, k, b)] = <<NumeralValue(s, i, b, n) % Pow2[w], i + n>>
  <2>1. StartsAt(s, i, b, m, k)
    BY <1>7 DEF StartsAt
  <2>2. Exact(Start(w, s, k, b), w, s, i, b)
    BY <1>6, <2>1, StartConverts
  <2>. QED BY <2>2 DEF Exact
<1>9. Highest(Digits(s, i, b)) = n
  BY <1>1, <1>6, <1>8, DigitsHighest
<1>. QED BY <1>4, <1>5, <1>8, <1>9

(* A minus sign is taken, and the rest converted.                          *)
LEMMA StrtolConverts ==
  ASSUME NEW w \in Nat, NEW s \in Seq(CharsTyped), NEW base \in {0, 16}
  PROVE  Strtol(w, s, base) =
           IF s # <<>> /\ s[1] = "-"
           THEN LET n == NumeralIn(w, Tail(s), base) IN <<(-n[1]) % Pow2[w], n[2] + 1>>
           ELSE NumeralIn(w, s, base)
<1>1. At(s, 1) = "-" <=> s # <<>> /\ s[1] = "-"
  <2>1. Len(s) \in Nat /\ (s # <<>> <=> Len(s) >= 1)
    OBVIOUS
  <2>. QED BY <2>1 DEF At
<1>2. CASE s # <<>> /\ s[1] = "-"
  <2>1. Tail(s) \in Seq(CharsTyped)
    BY <1>2
  <2>2. Strtoul(w, Tail(s), base) = NumeralIn(w, Tail(s), base)
    BY <2>1, StrtoulConverts
  <2>. QED BY <1>1, <1>2, <2>2 DEF Strtol, Neg
<1>3. CASE ~(s # <<>> /\ s[1] = "-")
  BY <1>1, <1>3, StrtoulConverts DEF Strtol
<1>. QED BY <1>2, <1>3

-----------------------------------------------------------------------------
(* The calls. *)

(* A call asks for what is in the domain of the function it names.         *)
LEMMA CallIs ==
  ASSUME NEW c \in Calls
  PROVE  /\ c.fn \in {"udiv", "mod"} => c.a \in Wide(W) /\ c.b \in Wide(W) \ {0}
         /\ c.fn = "div" => c.a \in Wide(W) \ {IntMin(W)} /\ c.b \in Wide(W) \ {0, IntMin(W)}
         /\ c.fn = "do_div" => c.a \in Wide(D) /\ c.b \in Wide(W) \ {0}
         /\ c.fn = "mulsi3" => c.a \in Wide(W) /\ c.b \in Wide(W)
         /\ c.fn = "muldi3" => c.a \in Wide(D) /\ c.b \in Wide(D)
         /\ c.fn \in {"ashldi3", "lshrdi3"} => c.a \in Wide(D) /\ c.b \in 0 .. D - 1
         /\ c.fn \in {"ffs", "fls", "fls64"} => c.a \in Wide(D)
         /\ c.fn \in {"__ffs", "__fls", "__ffs64", "clz", "ctz"} => c.a \in Wide(D) \ {0}
         /\ c.fn \in {"strtoul", "strtol", "strtoull", "strtoll"} =>
              c.a \in Numerals /\ c.b \in {0, 16}
         /\ c.fn \in {"udiv", "mod", "div", "do_div", "mulsi3", "muldi3", "ashldi3", "lshrdi3",
                      "ffs", "fls", "fls64", "__ffs", "__fls", "__ffs64", "clz", "ctz",
                      "strtoul", "strtol", "strtoull", "strtoll"}
  BY DEF Calls

(* What is typed is a sequence.                                            *)
LEMMA NumeralsTyped == Numerals \subseteq Seq(CharsTyped)
<1>1. ASSUME NEW s \in Numerals PROVE s \in Seq(CharsTyped)
  <2>1. PICK k \in 0 .. 4 : s \in [1 .. k -> CharsTyped]
    BY DEF Numerals
  <2>. QED BY <2>1
<1>. QED BY <1>1

(* A call that has returned what its function computes has what its name   *)
(* says.                                                                   *)
LEMMA ResultExact ==
  ASSUME calc.call \in Calls, calc.result = ResultOf(calc.call.fn, calc.call.a, calc.call.b)
  PROVE  ArithExact
<1>. DEFINE fn == calc.call.fn
            a == calc.call.a
            b == calc.call.b
            r == calc.result
            bits == SetBits(D, a)
<1>. USE DEF ArithExact, ResultOf
<1>0. r = ResultOf(fn, a, b)
  OBVIOUS
<1>1. CASE fn = "udiv"
  <2>1. UDiv(a, b) = <<a \div b, a % b>>
    BY <1>1, CallIs, UDivDivides
  <2>. QED BY <1>0, <1>1, <2>1
<1>2. CASE fn = "do_div"
  <2>1. DoDiv(a, b) = <<a \div b, a % b>>
    BY <1>2, CallIs, DoDivDivides
  <2>. QED BY <1>0, <1>2, <2>1
<1>3. CASE fn = "div"
  <2>1. Signed(Div(a, b), W) = Truncated(Signed(a, W), Signed(b, W))
    BY <1>3, CallIs, DivDivides
  <2>. QED BY <1>0, <1>3, <2>1
<1>4. CASE fn = "mod"
  <2>1. Signed(Mod(a, b), W)
          = Signed(a, W) - Truncated(Signed(a, W), Signed(b, W)) * Signed(b, W)
    BY <1>4, CallIs, ModDivides
  <2>. QED BY <1>0, <1>4, <2>1
<1>5. CASE fn = "mulsi3"
  <2>1. MulSi[[a |-> a, b |-> b, res |-> 0]] = (a * b) % Pow2[W]
    BY <1>5, CallIs, MulSiMultiplies
  <2>. QED BY <1>0, <1>5, <2>1
<1>6. CASE fn = "muldi3"
  <2>1. MulDi(a, b) = (a * b) % Pow2[D]
    BY <1>6, CallIs, MulDiMultiplies
  <2>. QED BY <1>0, <1>6, <2>1
<1>7. CASE fn = "ashldi3"
  <2>1. AshlDi(a, b) = (a * Pow2[b]) % Pow2[D]
    BY <1>7, CallIs, AshlDiShifts
  <2>. QED BY <1>0, <1>7, <2>1
<1>8. CASE fn = "lshrdi3"
  <2>1. LshrDi(a, b) = a \div Pow2[b]
    BY <1>8, CallIs, LshrDiShifts
  <2>. QED BY <1>0, <1>8, <2>1
<1>9. CASE fn \in {"ffs", "fls", "fls64"}
  <2>1. a \in Wide(D)
    BY <1>9, CallIs
  <2>2. CASE a = 0
    <3>1. Ffs(D, a) = 0 /\ Fls(D, a) = 0 /\ Fls64(a) = 0
      <4>1. LowPart(0, W) = 0 /\ HighPart(0, W) = 0
        <5>1. PICK P \in Nat \ {0} : P = Pow2[W]
          BY Widths, Pow2Facts
        <5>2. 0 % P = 0 /\ 0 \div P = 0
          OBVIOUS
        <5>. QED BY <5>1, <5>2 DEF LowPart, HighPart
      <4>. QED BY <2>2, <4>1 DEF Ffs, Fls, Fls64
    <3>. QED BY <1>0, <1>9, <2>2, <3>1
  <2>3. CASE a # 0
    <3>1. /\ Ffs(D, a) = Lowest(bits) + 1 /\ Fls(D, a) = Highest(bits) + 1
          /\ Fls64(a) = Highest(bits) + 1
      BY <2>1, <2>3, WordScans, PairScans
    <3>. QED BY <1>0, <1>9, <2>3, <3>1
  <2>. QED BY <2>2, <2>3
<1>10. CASE fn \in {"__ffs", "__fls", "__ffs64", "clz", "ctz"}
  <2>1. a \in Wide(D) /\ a # 0
    BY <1>10, CallIs
  <2>2. /\ WordFfs(D, a) = Lowest(bits) /\ WordFls(D, a) = Highest(bits)
        /\ Ffs64(a) = Lowest(bits) /\ Ctz(a) = Lowest(bits)
        /\ Clz(a) = D - 1 - Highest(bits)
    BY <2>1, WordScans, PairScans
  <2>. QED BY <1>0, <1>10, <2>2
<1>11. CASE fn \in {"strtoul", "strtol", "strtoull", "strtoll"}
  <2>1. a \in Seq(CharsTyped) /\ b \in {0, 16} /\ W \in Nat /\ D \in Nat
    BY <1>11, CallIs, NumeralsTyped, Widths
  <2>. DEFINE w == IF fn \in {"strtoul", "strtol"} THEN W ELSE D
  <2>2. w \in Nat
    BY <2>1
  <2>3. CASE fn \in {"strtoul", "strtoull"}
    <3>1. Strtoul(w, a, b) = NumeralIn(w, a, b)
      BY <2>1, <2>2, StrtoulConverts
    <3>2. r = Strtoul(w, a, b)
      BY <1>0, <2>3
    <3>. QED BY <2>3, <3>1, <3>2
  <2>4. CASE fn \in {"strtol", "strtoll"}
    <3>1. Strtol(w, a, b) =
            IF a # <<>> /\ a[1] = "-"
            THEN LET n == NumeralIn(w, Tail(a), b) IN <<(-n[1]) % Pow2[w], n[2] + 1>>
            ELSE NumeralIn(w, a, b)
      BY <2>1, <2>2, StrtolConverts
    <3>2. r = Strtol(w, a, b)
      BY <1>0, <2>4
    <3>. QED BY <2>4, <3>1, <3>2
  <2>. QED BY <1>11, <2>3, <2>4
<1>. QED BY <1>1, <1>2, <1>3, <1>4, <1>5, <1>6, <1>7, <1>8, <1>9, <1>10, <1>11, CallIs

(* A call is made before it is answered, and it keeps its operands.        *)
ArithInvariant ==
  /\ calc.call \in Calls
  /\ \/ calc = Awaiting(calc.call)
     \/ /\ calc.done
        /\ calc.result = ResultOf(calc.call.fn, calc.call.a, calc.call.b)

(* The routines the compiler calls for, the bit scans and the conversions  *)
(* of numbers return what their names say, for every width of a word that  *)
(* is a power of two, and every operand.                                   *)
THEOREM RoutinesExact == ArithSpec => []ArithExact
<1>1. ArithInit => ArithInvariant
  BY DEF ArithInit, ArithInvariant, Awaiting
<1>2. ArithInvariant /\ [ArithNext]_calc => ArithInvariant'
  <2>1. SUFFICES ASSUME ArithInvariant, [ArithNext]_calc PROVE ArithInvariant'
    OBVIOUS
  <2>2. CASE ArithNext
    <3>1. calc = Awaiting(calc.call)
      BY <2>1, <2>2 DEF ArithInvariant, ArithNext
    <3>2. calc' = [calc EXCEPT !.done = TRUE,
                        !.result = ResultOf(calc.call.fn, calc.call.a, calc.call.b)]
      BY <2>2 DEF ArithNext
    <3>3. PICK x : x = ResultOf(calc.call.fn, calc.call.a, calc.call.b)
      OBVIOUS
    <3>4. calc' = [call |-> calc.call, done |-> TRUE, result |-> x]
      BY <3>1, <3>2, <3>3 DEF Awaiting
    <3>5. calc'.call = calc.call /\ calc'.done /\ calc'.result = x
      BY <3>4
    <3>. QED BY <2>1, <3>3, <3>5 DEF ArithInvariant
  <2>3. CASE UNCHANGED calc
    BY <2>1, <2>3 DEF ArithInvariant
  <2>. QED BY <2>1, <2>2, <2>3
<1>3. ArithInvariant => ArithExact
  <2>1. SUFFICES ASSUME ArithInvariant PROVE ArithExact
    OBVIOUS
  <2>2. CASE calc = Awaiting(calc.call)
    BY <2>2 DEF Awaiting, ArithExact
  <2>3. CASE calc.done /\ calc.result = ResultOf(calc.call.fn, calc.call.a, calc.call.b)
    BY <2>1, <2>3, ResultExact DEF ArithInvariant
  <2>. QED BY <2>1, <2>2, <2>3 DEF ArithInvariant
<1>. QED BY <1>1, <1>2, <1>3, PTL DEF ArithSpec

-----------------------------------------------------------------------------
(* The texts that are put out. *)

(* Every character: the strings, and by name those that the routines put   *)
(* out of their own (no prover takes a character written out for a string).*)
Digits16 == {"0", "1", "2", "3", "4", "5", "6", "7", "8", "9",
             "a", "b", "c", "d", "e", "f", "A", "B", "C", "D", "E", "F"}
Chars == STRING \cup Digits16 \cup {" ", "-", "+", "x", "X", "%", "<", "N", "U", "L", ">"}

(* A function on 1 .. n is a sequence of n elements.                       *)
LEMMA FunctionIsSeq ==
  ASSUME NEW S, NEW n \in Nat, NEW f \in [1 .. n -> S]
  PROVE  f \in Seq(S) /\ Len(f) = n
<1>1. f \in Seq(S)
  BY SeqDef
<1>. QED BY <1>1, LenProperties

(* Padding has its length, or none.                                        *)
LEMMA PaddingIs ==
  ASSUME NEW n \in Int
  PROVE  /\ Spaces(n) \in Seq(Chars) /\ Len(Spaces(n)) = Greater(n, 0)
         /\ Zeros(n) \in Seq(Chars) /\ Len(Zeros(n)) = Greater(n, 0)
<1>1. CASE n \in Nat
  <2>1. Spaces(n) \in [1 .. n -> Chars] /\ Zeros(n) \in [1 .. n -> Chars]
    BY DEF Spaces, Zeros, Chars, Digits16
  <2>2. /\ Spaces(n) \in Seq(Chars) /\ Len(Spaces(n)) = n
        /\ Zeros(n) \in Seq(Chars) /\ Len(Zeros(n)) = n
    BY <1>1, <2>1, FunctionIsSeq
  <2>5. Greater(n, 0) = n
    BY <1>1 DEF Greater
  <2>. QED BY <2>2, <2>5
<1>2. CASE n \notin Nat
  <2>1. 1 .. n = 1 .. 0
    BY <1>2
  <2>2. Spaces(n) = [k \in 1 .. 0 |-> " "] /\ Zeros(n) = [k \in 1 .. 0 |-> "0"]
    BY <2>1 DEF Spaces, Zeros
  <2>3. /\ Spaces(n) \in Seq(Chars) /\ Len(Spaces(n)) = 0
        /\ Zeros(n) \in Seq(Chars) /\ Len(Zeros(n)) = 0
    <3>1. [k \in 1 .. 0 |-> " "] = <<>> /\ [k \in 1 .. 0 |-> "0"] = <<>>
      OBVIOUS
    <3>. QED BY <2>2, <3>1, EmptySeq
  <2>. QED BY <1>2, <2>3 DEF Greater
<1>. QED BY <1>1, <1>2

(* Each turn of number() takes one digit.                                  *)
DigitsMeasure == [r \in Numbers |-> r.num]
DigitsMore == {r \in Numbers : NextDigit(r).num # 0}
DigitsTurn == [r \in Numbers |-> NextDigit(r)]
DigitsOut == [r \in Numbers |-> NextDigit(r).tmp]

(* A turn takes the last digit off and appends it.                         *)
LEMMA NextDigitIs ==
  ASSUME NEW r \in Numbers
  PROVE  /\ NextDigit(r) \in Numbers
         /\ NextDigit(r).num = r.num \div r.base
         /\ NextDigit(r).tmp = Append(r.tmp, r.num % r.base)
         /\ NextDigit(r).tmp \in Seq(0 .. 15) /\ NextDigit(r).tmp # <<>>
         /\ NextDigit(r).num # 0 => NextDigit(r).num < r.num
<1>1. r.num \in Nat /\ r.base \in {8, 10, 16} /\ r.tmp \in Seq(0 .. 15)
  BY DEF Numbers
<1>2. /\ NextDigit(r).num = r.num \div r.base /\ NextDigit(r).base = r.base
      /\ NextDigit(r).tmp = Append(r.tmp, r.num % r.base)
  BY DEF NextDigit, Numbers
<1>3. r.num \div r.base \in Nat /\ r.num % r.base \in 0 .. 15
  <2>1. \A n \in Nat : /\ n \div 8 \in Nat /\ n % 8 \in 0 .. 15
                      /\ n \div 10 \in Nat /\ n % 10 \in 0 .. 15
                      /\ n \div 16 \in Nat /\ n % 16 \in 0 .. 15
    OBVIOUS
  <2>. QED BY <1>1, <2>1
<1>4. r.num \div r.base # 0 => r.num \div r.base < r.num
  <2>1. \A n \in Nat : /\ (n \div 8 # 0 => n \div 8 < n)
                      /\ (n \div 10 # 0 => n \div 10 < n)
                      /\ (n \div 16 # 0 => n \div 16 < n)
    OBVIOUS
  <2>. QED BY <1>1, <2>1
<1>5. Append(r.tmp, r.num % r.base) \in Seq(0 .. 15)
  BY <1>1, <1>3
<1>6. Append(r.tmp, r.num % r.base) # <<>>
  BY <1>1, <1>3
<1>7. NextDigit(r) \in Numbers
  BY <1>1, <1>3, <1>5 DEF NextDigit, Numbers
<1>. QED BY <1>2, <1>4, <1>5, <1>6, <1>7

(* The number falls with each turn that is not the last.                   *)
LEMMA DigitsEnd ==
  /\ DigitsMeasure \in [Numbers -> Nat] /\ DigitsTurn \in [Numbers -> Numbers]
  /\ DigitsOut \in [Numbers -> Seq(0 .. 15)]
  /\ Falls(DigitsMeasure, Numbers, DigitsMore, DigitsTurn)
<1>1. DigitsMeasure \in [Numbers -> Nat]
  BY DEF DigitsMeasure, Numbers
<1>2. DigitsTurn \in [Numbers -> Numbers] /\ DigitsOut \in [Numbers -> Seq(0 .. 15)]
  BY NextDigitIs DEF DigitsTurn, DigitsOut
<1>3. Falls(DigitsMeasure, Numbers, DigitsMore, DigitsTurn)
  BY NextDigitIs DEF Falls, DigitsMeasure, DigitsMore, DigitsTurn
<1>. QED BY <1>1, <1>2, <1>3

(* DigitLoop is the function its equation defines.                         *)
LEMMA DigitsLoop == Loops(DigitLoop, Numbers, DigitsMore, DigitsTurn, DigitsOut)
<1>. DEFINE V == Seq(0 .. 15)
<1>1. <<>> \in V
  BY EmptySeq
<1>2. PICK f \in [Numbers -> V] : Loops(f, Numbers, DigitsMore, DigitsTurn, DigitsOut)
  <2>1. DigitsOut \in [Numbers -> V]
    BY DigitsEnd
  <2>. HIDE DEF V
  <2>2. V # {}
    BY <1>1
  <2>. QED BY <2>1, <2>2, DigitsEnd, LoopExists
<1>3. f = [r \in Numbers |-> IF NextDigit(r).num # 0 THEN f[NextDigit(r)] ELSE NextDigit(r).tmp]
  BY <1>2 DEF Loops, DigitsMore, DigitsTurn, DigitsOut
<1>4. DigitLoop = [r \in Numbers |-> IF NextDigit(r).num # 0 THEN DigitLoop[NextDigit(r)]
                                     ELSE NextDigit(r).tmp]
  BY <1>3 DEF DigitLoop
<1>. QED BY <1>4 DEF Loops, DigitsMore, DigitsTurn, DigitsOut

(* The digits of a number are less than 16, and there is one at least.     *)
LEMMA DigitsAre ==
  ASSUME NEW x \in Nat, NEW base \in {8, 10, 16}
  PROVE  DigitsOf(x, base) \in Seq(0 .. 15) /\ DigitsOf(x, base) # <<>>
<1>. DEFINE r == [num |-> x, base |-> base, tmp |-> <<>>]
<1>1. r \in Numbers
  BY EmptySeq DEF Numbers
<1>. DEFINE K == Numbers
<1>2. r \in K /\ Keeps(K, Numbers, DigitsMore, DigitsTurn)
  BY <1>1, DigitsEnd DEF Keeps
<1>3. PICK y \in K : y \notin DigitsMore /\ DigitLoop[r] = DigitsOut[y]
  <2>. HIDE DEF r, K
  <2>1. DigitsMeasure \in [Numbers -> Nat] /\ DigitsTurn \in [Numbers -> Numbers]
    BY DigitsEnd
  <2>2. Falls(DigitsMeasure, Numbers, DigitsMore, DigitsTurn)
    BY DigitsEnd
  <2>3. Loops(DigitLoop, Numbers, DigitsMore, DigitsTurn, DigitsOut)
    BY DigitsLoop
  <2>. QED BY ONLY <1>2, <2>1, <2>2, <2>3, LoopEnds, SMTT(30)
<1>4. DigitLoop[r] = NextDigit(y).tmp
  BY <1>3 DEF DigitsOut
<1>. QED BY <1>4, NextDigitIs DEF DigitsOf

(* The tables of digits hold sixteen characters each.                      *)
LEMMA DigitTables ==
  SmallDigit \in [1 .. 16 -> Chars] /\ LargeDigit \in [1 .. 16 -> Chars]
<1>. DEFINE low == <<"a", "b", "c", "d", "e", "f">>
            high == <<"A", "B", "C", "D", "E", "F">>
<1>1. Digit \in [1 .. 10 -> Digits16] /\ low \in [1 .. 6 -> Digits16] /\ high \in [1 .. 6 -> Digits16]
  BY DEF Digit, Digits16
<1>2. /\ Digit \in Seq(Digits16) /\ Len(Digit) = 10
      /\ low \in Seq(Digits16) /\ Len(low) = 6 /\ high \in Seq(Digits16) /\ Len(high) = 6
  BY <1>1, FunctionIsSeq
<1>3. SmallDigit = Digit \o low /\ LargeDigit = Digit \o high
  BY DEF SmallDigit, LargeDigit
<1>. HIDE DEF low, high
<1>4. /\ SmallDigit \in Seq(Digits16) /\ Len(SmallDigit) = 16
      /\ LargeDigit \in Seq(Digits16) /\ Len(LargeDigit) = 16
  <2>1. /\ Digit \o low \in Seq(Digits16) /\ Len(Digit \o low) = Len(Digit) + Len(low)
        /\ Digit \o high \in Seq(Digits16) /\ Len(Digit \o high) = Len(Digit) + Len(high)
    BY <1>2, ConcatProperties
  <2>. QED BY <1>2, <1>3, <2>1
<1>5. SmallDigit \in [1 .. 16 -> Digits16] /\ LargeDigit \in [1 .. 16 -> Digits16]
  BY <1>4, LenProperties
<1>6. Digits16 \subseteq Chars
  BY DEF Chars
<1>. QED BY <1>5, <1>6

(* A number takes its width, or more when its digits, its sign and its     *)
(* prefix need more.                                                       *)
LEMMA NumberTextIs ==
  ASSUME NEW value \in Int, NEW base \in {8, 10, 16}, NEW size \in Int, NEW precision \in Int,
         NEW flags
  PROVE  /\ NumberText(value, base, size, precision, flags) \in Seq(Chars)
         /\ Len(NumberText(value, base, size, precision, flags)) >= size
<1>. DEFINE sign == IF "SIGN" \notin flags THEN <<>>
                    ELSE IF value < 0 THEN <<"-">>
                    ELSE IF "+" \in flags THEN <<"+">>
                    ELSE IF " " \in flags THEN <<" ">> ELSE <<>>
            small == "SMALL" \in flags
            prefix == IF "#" \notin flags \/ base = 10 THEN <<>>
                      ELSE IF base = 8 THEN <<"0">> ELSE <<"0", IF small THEN "x" ELSE "X">>
            digits == DigitsOf(IF value < 0 THEN -value ELSE value, base)
            tmp == [k \in 1 .. Len(digits) |->
                      (IF small THEN SmallDigit ELSE LargeDigit)[digits[Len(digits) + 1 - k] + 1]]
            shown == Greater(Len(tmp), precision)
            pad == size - Len(sign) - Len(prefix) - shown
            before == "-" \notin flags
            zero == before /\ "0" \in flags
            p1 == IF before /\ ~zero THEN Spaces(pad) ELSE <<>>
            p2 == IF zero THEN Zeros(pad) ELSE <<>>
            p3 == Zeros(shown - Len(tmp))
            p4 == IF before THEN <<>> ELSE Spaces(pad)
<1>1. sign \in Seq(Chars) /\ prefix \in Seq(Chars)
  <2>1. <<>> \in Seq(Chars)
    BY EmptySeq
  <2>2. \A c, d \in Chars : <<c>> \in Seq(Chars) /\ <<c, d>> \in Seq(Chars)
    OBVIOUS
  <2>3. {"-", "+", " ", "0", "x", "X"} \subseteq Chars
    BY DEF Chars, Digits16
  <2>4. <<"-">> \in Seq(Chars) /\ <<"+">> \in Seq(Chars) /\ <<" ">> \in Seq(Chars) /\ <<"0">> \in Seq(Chars)
    BY <2>2, <2>3
  <2>5. <<"0", "x">> \in Seq(Chars) /\ <<"0", "X">> \in Seq(Chars)
    BY <2>2, <2>3
  <2>6. sign \in Seq(Chars)
    BY <2>1, <2>4, Zenon
  <2>7. prefix \in Seq(Chars)
    BY <2>1, <2>4, <2>5, Zenon
  <2>. QED BY <2>6, <2>7
<1>2. digits \in Seq(0 .. 15)
  <2>1. (IF value < 0 THEN -value ELSE value) \in Nat
    OBVIOUS
  <2>. QED BY <2>1, DigitsAre
<1>3. tmp \in Seq(Chars)
  <2>1. SmallDigit \in [1 .. 16 -> Chars] /\ LargeDigit \in [1 .. 16 -> Chars]
    BY DigitTables
  <2>2. \A k \in 1 .. Len(digits) : digits[Len(digits) + 1 - k] + 1 \in 1 .. 16
    <3>. HIDE DEF digits
    <3>1. Len(digits) \in Nat /\ \A k \in 1 .. Len(digits) : digits[k] \in 0 .. 15
      BY <1>2, LenProperties, ElementOfSeq
    <3>2. TAKE k \in 1 .. Len(digits)
    <3>3. Len(digits) + 1 - k \in 1 .. Len(digits)
      BY <3>1
    <3>4. digits[Len(digits) + 1 - k] \in 0 .. 15
      BY <3>1, <3>3
    <3>. QED BY <3>4
  <2>3. tmp \in [1 .. Len(digits) -> Chars] /\ Len(digits) \in Nat
    <3>. HIDE DEF digits
    <3>. QED BY <1>2, <2>1, <2>2, LenProperties
  <2>. HIDE DEF tmp, digits
  <2>. QED BY <2>3, FunctionIsSeq
<1>. HIDE DEF sign, prefix, digits, tmp
<1>4. Len(sign) \in Nat /\ Len(prefix) \in Nat /\ Len(tmp) \in Nat
  BY <1>1, <1>3
<1>5. shown \in Int /\ pad \in Int /\ shown >= Len(tmp)
  BY <1>4 DEF Greater
<1>. HIDE DEF shown
<1>6. /\ Spaces(pad) \in Seq(Chars) /\ Len(Spaces(pad)) = Greater(pad, 0)
      /\ Zeros(pad) \in Seq(Chars) /\ Len(Zeros(pad)) = Greater(pad, 0)
      /\ p3 \in Seq(Chars) /\ Len(p3) = shown - Len(tmp)
  <2>1. pad \in Int /\ shown - Len(tmp) \in Int /\ Greater(shown - Len(tmp), 0) = shown - Len(tmp)
    BY <1>4, <1>5 DEF Greater
  <2>. HIDE DEF pad
  <2>. QED BY <2>1, PaddingIs
<1>. HIDE DEF before, pad, zero
<1>7. /\ p1 \in Seq(Chars) /\ p2 \in Seq(Chars) /\ p4 \in Seq(Chars)
      /\ Len(p1) + Len(p2) + Len(p4) = Greater(pad, 0)
      /\ Len(p1) \in Nat /\ Len(p2) \in Nat /\ Len(p4) \in Nat
  <2>1. <<>> \in Seq(Chars) /\ Len(<<>>) = 0 /\ Greater(pad, 0) \in Nat /\ (zero => before)
    BY <1>5, EmptySeq DEF Greater, zero
  <2>2. CASE ~before
    BY <1>6, <2>1, <2>2
  <2>3. CASE before /\ zero
    BY <1>6, <2>1, <2>3
  <2>4. CASE before /\ ~zero
    BY <1>6, <2>1, <2>4
  <2>. QED BY <2>2, <2>3, <2>4
<1>. HIDE DEF p1, p2, p3, p4
<1>. DEFINE t == p1 \o sign \o prefix \o p2 \o p3 \o tmp \o p4
<1>8. t \in Seq(Chars) /\ Len(t) = Len(p1) + Len(sign) + Len(prefix) + Len(p2) + Len(p3) + Len(tmp) + Len(p4)
  <2>1. /\ p1 \o sign \in Seq(Chars) /\ Len(p1 \o sign) = Len(p1) + Len(sign)
    BY <1>1, <1>7, ConcatProperties
  <2>. DEFINE a == p1 \o sign
              b == a \o prefix
              c == b \o p2
              d == c \o p3
              e == d \o tmp
  <2>. HIDE DEF a
  <2>2. b \in Seq(Chars) /\ Len(b) = Len(a) + Len(prefix)
    BY <1>1, <2>1, ConcatProperties DEF a
  <2>. HIDE DEF b
  <2>3. c \in Seq(Chars) /\ Len(c) = Len(b) + Len(p2)
    BY <1>7, <2>2, ConcatProperties
  <2>. HIDE DEF c
  <2>4. d \in Seq(Chars) /\ Len(d) = Len(c) + Len(p3)
    BY <1>6, <2>3, ConcatProperties
  <2>. HIDE DEF d
  <2>5. e \in Seq(Chars) /\ Len(e) = Len(d) + Len(tmp)
    BY <1>3, <2>4, ConcatProperties
  <2>. HIDE DEF e
  <2>6. t = e \o p4
    BY DEF a, b, c, d, e
  <2>7. t \in Seq(Chars) /\ Len(t) = Len(e) + Len(p4)
    BY <1>7, <2>5, <2>6, ConcatProperties
  <2>. QED BY <2>1, <2>2, <2>3, <2>4, <2>5, <2>7 DEF a
<1>9. t = NumberText(value, base, size, precision, flags)
  BY DEF NumberText, t, p1, p2, p3, p4, zero, before, pad, shown, tmp, digits, sign, prefix
<1>10. Len(t) >= size
  <2>1. Len(t) = Greater(pad, 0) + Len(sign) + Len(prefix) + shown
    BY <1>4, <1>5, <1>6, <1>7, <1>8
  <2>2. Greater(pad, 0) >= pad /\ Greater(pad, 0) \in Int
    BY <1>5 DEF Greater
  <2>3. pad = size - Len(sign) - Len(prefix) - shown
    BY DEF pad
  <2>. QED BY <1>4, <1>5, <2>1, <2>2, <2>3
<1>. QED BY <1>8, <1>9, <1>10

(* One character, or two, as a text.                                       *)
LEMMA OneCharacter ==
  ASSUME NEW S, NEW c \in S
  PROVE  <<c>> \in Seq(S) /\ Len(<<c>>) = 1 /\ \A d \in S : <<c, d>> \in Seq(S)
OBVIOUS

(* A sequence of strings is one of characters.                             *)
LEMMA StringsAreChars == STRING \subseteq Chars /\ Seq(STRING) \subseteq Seq(Chars)
<1>1. STRING \subseteq Chars
  BY DEF Chars
<1>. QED BY <1>1, SeqMonotonic

(* %s puts out characters, of the argument or of <NULL>, and padding.      *)
LEMMA StringTextIs ==
  ASSUME NEW arg, arg \in Seq(STRING) \/ arg = "NULL", NEW width \in Int, NEW precision \in Int,
         NEW flags
  PROVE  StringText(arg, width, precision, flags) \in Seq(Chars)
<1>. DEFINE s == IF arg = "NULL" THEN <<"<", "N", "U", "L", "L", ">">> ELSE arg
            len == IF precision >= 0 /\ precision < Len(s) THEN precision ELSE Len(s)
            pad == Spaces(width - len)
            kept == SubSeq(s, 1, len)
<1>1. s \in Seq(Chars) /\ Len(s) \in Nat
  <2>1. CASE arg = "NULL"
    <3>. DEFINE T == {"<", "N", "U", "L", ">"}
                n == <<"<", "N", "U", "L", "L", ">">>
    <3>1. n \in Seq(T) /\ Len(n) = 6
      OBVIOUS
    <3>2. T \subseteq Chars
      BY DEF Chars
    <3>3. s = n
      BY <2>1
    <3>. HIDE DEF n, T, s
    <3>4. n \in Seq(Chars)
      BY <3>1, <3>2, SeqMonotonic
    <3>. QED BY <3>1, <3>3, <3>4
  <2>2. CASE arg # "NULL"
    <3>1. s = arg /\ arg \in Seq(STRING)
      BY <2>2
    <3>. HIDE DEF s
    <3>. QED BY <3>1, StringsAreChars, LenProperties
  <2>. QED BY <2>1, <2>2
<1>. HIDE DEF s
<1>2. len \in 0 .. Len(s)
  BY <1>1
<1>. HIDE DEF len
<1>3. width - len \in Int
  BY <1>1, <1>2
<1>4. pad \in Seq(Chars)
  BY <1>3, PaddingIs
<1>5. kept \in Seq(Chars)
  <2>1. \A i \in 1 .. len : s[i] \in Chars
    BY <1>1, <1>2, ElementOfSeq
  <2>. QED BY <1>2, <2>1, SubSeqProperties
<1>. HIDE DEF pad, kept
<1>6. kept \o pad \in Seq(Chars) /\ pad \o kept \in Seq(Chars)
  BY <1>4, <1>5, ConcatProperties
<1>7. StringText(arg, width, precision, flags) = IF "-" \in flags THEN kept \o pad ELSE pad \o kept
  BY DEF StringText, s, len, pad, kept
<1>. QED BY <1>6, <1>7

(* %p puts a number out.                                                   *)
LEMMA PointerTextIs ==
  ASSUME NEW arg \in Int, NEW width \in Int, NEW precision \in Int, NEW flags
  PROVE  PointerText(arg, width, precision, flags) \in Seq(Chars)
<1>1. IntBits \div 4 \in Int
  BY FormatBits
<1>. QED BY <1>1, NumberTextIs DEF PointerText

(* %c puts out one character and padding.                                  *)
LEMMA CharTextIs ==
  ASSUME NEW c \in STRING, NEW width \in Int, NEW flags
  PROVE  CharText(c, width, flags) \in Seq(Chars)
<1>1. <<c>> \in Seq(Chars)
  <2>1. c \in Chars
    BY StringsAreChars
  <2>. QED BY <2>1, OneCharacter
<1>2. Spaces(width - 1) \in Seq(Chars)
  BY PaddingIs
<1>3. /\ <<c>> \o Spaces(width - 1) \in Seq(Chars) /\ Spaces(width - 1) \o <<c>> \in Seq(Chars)
  BY <1>1, <1>2, ConcatProperties
<1>. QED BY <1>3, Zenon DEF CharText

(* An argument stays a number whatever its width.                          *)
LEMMA ValueIs ==
  ASSUME NEW qualifier, NEW arg \in Int, NEW signed \in BOOLEAN
  PROVE  Value(qualifier, arg, signed) \in Int
<1>. DEFINE bits == CASE qualifier = "L" -> 2 * IntBits
                      [] qualifier = "h" -> IntBits \div 2
                      [] OTHER -> IntBits
            raw == arg % Pow2[bits]
            num == CASE qualifier = "L" -> raw
                     [] qualifier = "h" /\ signed -> SignedBits(raw, IntBits \div 2)
                     [] qualifier = "h" -> raw
                     [] qualifier \in {"Z", "z"} -> raw
                     [] qualifier = "t" \/ signed -> SignedBits(raw, IntBits)
                     [] OTHER -> raw
<1>1. IntBits \in Nat \ {0} /\ IntBits \div 2 \in Nat \ {0} /\ 2 * IntBits \in Nat \ {0}
  BY FormatBits
<1>2. \A n \in Nat : Pow2[n] \in Nat \ {0}
  BY Pow2Facts
<1>3. \A x \in Int, n \in Nat \ {0} : x % Pow2[n] \in Int /\ SignedBits(x, n) \in Int
  <2>1. TAKE x \in Int, n \in Nat \ {0}
  <2>2. Pow2[n] \in Nat \ {0} /\ Pow2[n - 1] \in Nat \ {0}
    BY <1>2
  <2>3. \A k \in Nat \ {0} : x % k \in Int
    OBVIOUS
  <2>. QED BY <2>2, <2>3 DEF SignedBits
<1>4. bits \in Nat \ {0}
  BY <1>1
<1>. HIDE DEF bits
<1>5. raw \in Int
  BY <1>3, <1>4
<1>. HIDE DEF raw
<1>6. SignedBits(raw, IntBits \div 2) \in Int /\ SignedBits(raw, IntBits) \in Int
  BY <1>1, <1>3, <1>5
<1>7. num \in Int
  BY <1>5, <1>6
<1>. HIDE DEF num
<1>8. num % Pow2[2 * IntBits] \in Int
  BY <1>1, <1>3, <1>7
<1>9. SignedBits(num % Pow2[2 * IntBits], 2 * IntBits) \in Int
  BY <1>1, <1>3, <1>8
<1>10. Value(qualifier, arg, signed)
         = IF signed THEN SignedBits(num % Pow2[2 * IntBits], 2 * IntBits) ELSE num % Pow2[2 * IntBits]
  BY DEF Value, num, raw, bits
<1>. QED BY <1>8, <1>9, <1>10

(* What is left of a format behind a suffix is a format.                   *)
LEMMA SkipAlnumIs ==
  ASSUME NEW s \in Seq(STRING)
  PROVE  SkipAlnum(s) \in Seq(STRING)
<1>. DEFINE Alnum(c) == IsDigit(c) \/ c \in Letters
            Fits(k) == /\ \A j \in 1 .. k - 1 : Alnum(s[j])
                       /\ k <= Len(s) => ~Alnum(s[k])
            k0 == CHOOSE k \in 1 .. Len(s) + 1 : Fits(k)
<1>1. Len(s) \in Nat
  BY LenProperties
<1>. HIDE DEF Alnum
<1>2. \E k \in 1 .. Len(s) + 1 : Fits(k)
  <2>. DEFINE T == {k \in Nat : k \in 1 .. Len(s) + 1 /\ (k <= Len(s) => ~Alnum(s[k]))}
  <2>1. T \subseteq Nat /\ Len(s) + 1 \in T
    BY <1>1
  <2>2. PICK k \in T : \A y \in T : k <= y
    <3>. HIDE DEF T
    <3>. QED BY <2>1, LeastMember
  <2>3. ASSUME NEW j \in 1 .. k - 1 PROVE Alnum(s[j])
    <3>1. j \in Nat /\ j \in 1 .. Len(s) + 1 /\ j < k /\ j <= Len(s)
      BY <1>1
    <3>2. j \notin T
      BY <2>2, <3>1
    <3>. QED BY <3>1, <3>2
  <2>. QED BY <2>2, <2>3
<1>3. k0 \in 1 .. Len(s) + 1
  BY <1>2
<1>4. SkipAlnum(s) = SubSeq(s, k0, Len(s))
  BY DEF SkipAlnum, Alnum
<1>. HIDE DEF k0
<1>5. \A i \in k0 .. Len(s) : s[i] \in STRING
  BY <1>1, <1>3, ElementOfSeq
<1>. QED BY <1>1, <1>3, <1>4, <1>5, SubSeqProperties

-----------------------------------------------------------------------------
(* One character of the format. *)

(* The fields of a call, and where in the format it works.                 *)
Fields == {"pc", "job", "fmt", "args", "str", "size", "buf", "written", "text", "flags", "width",
           "precision", "qualifier", "ret", "count", "measured"}
Working == {"text", "flags", "width", "dot", "precision", "qualifier", "convert"}

(* g is f but for some fields.                                             *)
AllBut(f, g, S) == DOMAIN g = Fields /\ \A x \in Fields \ S : g[x] = f[x]

(* Passing a character over changes the format alone.                      *)
LEMMA AllButSkip ==
  ASSUME NEW f, DOMAIN f = Fields
  PROVE  AllBut(f, Skip(f), {"fmt"}) /\ Skip(f).fmt = Tail(f.fmt)
BY DEF AllBut, Skip, Fields

(* Taking an argument changes the arguments alone.                         *)
LEMMA AllButUsesArg ==
  ASSUME NEW f, DOMAIN f = Fields
  PROVE  /\ AllBut(f, UsesArg(f), {"args"})
         /\ UsesArg(f).args = IF f.args = <<>> THEN f.args ELSE Tail(f.args)
BY DEF AllBut, UsesArg, Fields

(* Putting out s changes the text, how far it is and the buffer.           *)
LEMMA AllButEmit ==
  ASSUME NEW f, NEW s, DOMAIN f = Fields
  PROVE  /\ AllBut(f, Emit(f, s), {"str", "buf", "written", "text"})
         /\ Emit(f, s).str = f.str + Len(s)
         /\ Emit(f, s).text = f.text \o s
         /\ Emit(f, s).buf = [i \in DOMAIN f.buf |-> IF i >= f.str /\ i < f.str + Len(s) /\ i < f.size
                                                     THEN s[i - f.str + 1] ELSE f.buf[i]]
BY DEF AllBut, Emit, Fields

(* Putting out what a directive shows goes back to the text besides.       *)
LEMMA AllButShown ==
  ASSUME NEW f, NEW s, DOMAIN f = Fields
  PROVE  /\ AllBut(f, Shown(f, s), {"pc", "str", "buf", "written", "text"})
         /\ Shown(f, s).pc = "text"
         /\ Shown(f, s).str = f.str + Len(s)
         /\ Shown(f, s).text = f.text \o s
         /\ Shown(f, s).buf = Emit(f, s).buf
<1>. DEFINE e == Emit(f, s)
<1>1. /\ AllBut(f, e, {"str", "buf", "written", "text"})
      /\ e.str = f.str + Len(s) /\ e.text = f.text \o s
  BY AllButEmit
<1>2. Shown(f, s) = [e EXCEPT !.pc = "text"]
  BY DEF Shown
<1>. HIDE DEF e
<1>3. /\ AllBut(f, Shown(f, s), {"pc", "str", "buf", "written", "text"})
      /\ Shown(f, s).pc = "text" /\ Shown(f, s).str = e.str /\ Shown(f, s).text = e.text
      /\ Shown(f, s).buf = e.buf
  BY <1>1, <1>2 DEF AllBut, Fields
<1>. QED BY <1>1, <1>3 DEF e

(* The texts are sequences, and the number of characters put out is kept   *)
(* with them.                                                              *)
Typed(f) ==
  /\ DOMAIN f = Fields
  /\ f.fmt \in Seq(STRING) /\ f.width \in Int /\ f.precision \in Int
  /\ f.text \in Seq(Chars) /\ f.str = Len(f.text) /\ f.size \in Nat

(* The buffer has its size, holds what there is of the text so far, as far *)
(* as there is room, and is untouched behind it.                           *)
Holds(f) ==
  /\ \A i \in DOMAIN f.buf :
       i \in Nat /\ f.buf[i] = IF i < f.size /\ i < f.str THEN f.text[i + 1] ELSE "?"
  /\ \A i \in 0 .. f.size - 1 : i \in DOMAIN f.buf

(* A step that puts nothing out keeps both.                                *)
LEMMA QuietStep ==
  ASSUME NEW f, NEW g, Typed(f), Holds(f), DOMAIN g = Fields,
         g.text = f.text, g.str = f.str, g.size = f.size, g.buf = f.buf,
         g.fmt \in Seq(STRING), g.width \in Int, g.precision \in Int
  PROVE  Typed(g) /\ Holds(g)
BY DEF Typed, Holds

(* Putting out a text keeps both.                                          *)
LEMMA EmitKeeps ==
  ASSUME NEW f, Typed(f), Holds(f), NEW s \in Seq(Chars)
  PROVE  Typed(Emit(f, s)) /\ Holds(Emit(f, s))
<1>. DEFINE e == Emit(f, s)
<1>1. /\ AllBut(f, e, {"str", "buf", "written", "text"})
      /\ e.str = f.str + Len(s) /\ e.text = f.text \o s
      /\ e.buf = [i \in DOMAIN f.buf |-> IF i >= f.str /\ i < f.str + Len(s) /\ i < f.size
                                         THEN s[i - f.str + 1] ELSE f.buf[i]]
  BY AllButEmit DEF Typed
<1>. HIDE DEF e
<1>2. /\ DOMAIN e = Fields /\ e.fmt = f.fmt /\ e.width = f.width /\ e.precision = f.precision
      /\ e.size = f.size
  BY <1>1 DEF AllBut, Fields
<1>3. Len(f.text) \in Nat /\ Len(s) \in Nat /\ f.str = Len(f.text) /\ f.size \in Nat
  BY LenProperties DEF Typed
<1>4. e.text \in Seq(Chars) /\ Len(e.text) = Len(f.text) + Len(s)
  BY <1>1, ConcatProperties DEF Typed
<1>5. Typed(e)
  BY <1>1, <1>2, <1>3, <1>4 DEF Typed
<1>6. \A i \in 1 .. Len(f.text) + Len(s) :
        e.text[i] = IF i <= Len(f.text) THEN f.text[i] ELSE s[i - Len(f.text)]
  BY <1>1, ConcatProperties DEF Typed
<1>7. ASSUME NEW i \in DOMAIN e.buf
      PROVE  i \in Nat /\ e.buf[i] = IF i < e.size /\ i < e.str THEN e.text[i + 1] ELSE "?"
  <2>1. i \in DOMAIN f.buf /\ i \in Nat
        /\ f.buf[i] = IF i < f.size /\ i < f.str THEN f.text[i + 1] ELSE "?"
    BY <1>1, <1>7 DEF Holds
  <2>2. e.buf[i] = IF i >= f.str /\ i < f.str + Len(s) /\ i < f.size THEN s[i - f.str + 1] ELSE f.buf[i]
    BY <1>1, <2>1
  <2>3. CASE i < f.str
    <3>1. i + 1 \in 1 .. Len(f.text) + Len(s) /\ i + 1 <= Len(f.text)
      BY <1>3, <2>1, <2>3
    <3>2. e.text[i + 1] = f.text[i + 1]
      BY <1>6, <3>1
    <3>3. e.buf[i] = f.buf[i] /\ i < e.str
      BY <1>1, <1>3, <2>1, <2>2, <2>3
    <3>. QED BY <1>2, <2>1, <2>3, <3>2, <3>3
  <2>4. CASE i >= f.str /\ i < f.str + Len(s)
    <3>1. i + 1 \in 1 .. Len(f.text) + Len(s) /\ ~(i + 1 <= Len(f.text)) /\ i + 1 - Len(f.text) = i - f.str + 1
      BY <1>3, <2>1, <2>4
    <3>2. e.text[i + 1] = s[i - f.str + 1]
      <4>. DEFINE k == i + 1
      <4>1. k \in 1 .. Len(f.text) + Len(s) /\ ~(k <= Len(f.text)) /\ k - Len(f.text) = i - f.str + 1
        BY <1>3, <2>1, <2>4, <3>1
      <4>. HIDE DEF k
      <4>2. e.text[k] = s[k - Len(f.text)]
        BY <1>6, <4>1
      <4>. QED BY <4>1, <4>2 DEF k
    <3>3. i < e.str /\ ~(i < f.str)
      BY <1>1, <1>3, <2>1, <2>4
    <3>. QED BY <1>2, <2>1, <2>2, <2>4, <3>2, <3>3
  <2>5. CASE i >= f.str + Len(s)
    <3>1. ~(i < e.str) /\ ~(i < f.str) /\ ~(i < f.str + Len(s))
      BY <1>1, <1>3, <2>1, <2>5
    <3>. QED BY <1>2, <2>1, <2>2, <3>1
  <2>. QED BY <1>3, <2>1, <2>3, <2>4, <2>5
<1>8. \A i \in 0 .. e.size - 1 : i \in DOMAIN e.buf
  BY <1>1, <1>2 DEF Holds
<1>9. Holds(e)
  BY <1>7, <1>8 DEF Holds
<1>. QED BY <1>5, <1>9 DEF e

(* Showing a text keeps the types and the buffer.                          *)
LEMMA ShownKeeps ==
  ASSUME NEW f, Typed(f), Holds(f), NEW s \in Seq(Chars)
  PROVE  Typed(Shown(f, s)) /\ Holds(Shown(f, s))
<1>1. Typed(Emit(f, s)) /\ Holds(Emit(f, s))
  BY EmitKeeps
<1>2. /\ DOMAIN Shown(f, s) = Fields
      /\ Shown(f, s).text = Emit(f, s).text /\ Shown(f, s).str = Emit(f, s).str
      /\ Shown(f, s).size = Emit(f, s).size /\ Shown(f, s).buf = Emit(f, s).buf
      /\ Shown(f, s).fmt = Emit(f, s).fmt /\ Shown(f, s).width = Emit(f, s).width
      /\ Shown(f, s).precision = Emit(f, s).precision
  <2>. DEFINE e == Emit(f, s)
  <2>1. DOMAIN e = Fields
    BY <1>1 DEF Typed
  <2>2. Shown(f, s) = [e EXCEPT !.pc = "text"]
    BY DEF Shown
  <2>. HIDE DEF e
  <2>3. /\ DOMAIN Shown(f, s) = Fields
        /\ Shown(f, s).text = e.text /\ Shown(f, s).str = e.str
        /\ Shown(f, s).size = e.size /\ Shown(f, s).buf = e.buf
        /\ Shown(f, s).fmt = e.fmt /\ Shown(f, s).width = e.width
        /\ Shown(f, s).precision = e.precision
    BY <2>1, <2>2 DEF Fields
  <2>. QED BY <2>3 DEF e
<1>3. /\ Emit(f, s).fmt \in Seq(STRING) /\ Emit(f, s).width \in Int /\ Emit(f, s).precision \in Int
  BY <1>1 DEF Typed
<1>. QED BY <1>1, <1>2, <1>3, QuietStep

(* A directive finds an argument of its kind, as C has it.                 *)
ArgFits(f) ==
  /\ f.pc = "width" /\ Now(f) = "*" /\ f.width = -1 => Head(f.args) \in Int
  /\ f.pc = "dot" /\ Now(f) = "." /\ Now(Skip(f)) = "*" => Head(f.args) \in Int
  /\ f.pc = "convert" /\ Now(f) \in NumberLetters \cup {"p"} => Head(f.args) \in Int
  /\ f.pc = "convert" /\ Now(f) = "c" => Head(f.args) \in STRING
  /\ f.pc = "convert" /\ Now(f) = "s" => Head(f.args) \in Seq(STRING) \/ Head(f.args) = "NULL"

(* What a step that goes on in the format does to the rest.                *)
GoesOn(f, g) == /\ Typed(g) /\ Holds(g) /\ g.pc \in Working
                /\ g.job = f.job /\ g.measured = f.measured /\ g.size = f.size

(* The format ends where the next character is NUL.                        *)
LEMMA NowIs ==
  ASSUME NEW f, f.fmt \in Seq(STRING)
  PROVE  /\ f.fmt # <<>> => Now(f) = Head(f.fmt) /\ Head(f.fmt) \in STRING /\ Tail(f.fmt) \in Seq(STRING)
         /\ f.fmt = <<>> => Now(f) = "NUL"
         /\ Now(f) # "NUL" => f.fmt # <<>>
<1>1. f.fmt # <<>> => Head(f.fmt) \in STRING /\ Tail(f.fmt) \in Seq(STRING)
  BY HeadTailProperties
<1>. QED BY <1>1 DEF Now

(* Passing a character over keeps the types and the buffer.                *)
LEMMA SkipIs ==
  ASSUME NEW f, Typed(f), Holds(f), f.fmt # <<>>
  PROVE  /\ Typed(Skip(f)) /\ Holds(Skip(f)) /\ Skip(f).fmt = Tail(f.fmt)
         /\ AllBut(f, Skip(f), {"fmt"})
<1>1. AllBut(f, Skip(f), {"fmt"}) /\ Skip(f).fmt = Tail(f.fmt)
  BY AllButSkip DEF Typed
<1>2. Tail(f.fmt) \in Seq(STRING)
  BY NowIs DEF Typed
<1>3. /\ DOMAIN Skip(f) = Fields
      /\ Skip(f).text = f.text /\ Skip(f).str = f.str /\ Skip(f).size = f.size /\ Skip(f).buf = f.buf
      /\ Skip(f).width \in Int /\ Skip(f).precision \in Int
  BY <1>1 DEF AllBut, Fields, Typed
<1>. QED BY <1>1, <1>2, <1>3, QuietStep

(* So does taking an argument.                                             *)
LEMMA UsesArgIs ==
  ASSUME NEW f, Typed(f), Holds(f)
  PROVE  Typed(UsesArg(f)) /\ Holds(UsesArg(f)) /\ AllBut(f, UsesArg(f), {"args"})
<1>1. AllBut(f, UsesArg(f), {"args"})
  BY AllButUsesArg DEF Typed
<1>2. /\ DOMAIN UsesArg(f) = Fields /\ UsesArg(f).fmt \in Seq(STRING)
      /\ UsesArg(f).text = f.text /\ UsesArg(f).str = f.str /\ UsesArg(f).size = f.size
      /\ UsesArg(f).buf = f.buf
      /\ UsesArg(f).width \in Int /\ UsesArg(f).precision \in Int
  BY <1>1 DEF AllBut, Fields, Typed
<1>. QED BY <1>1, <1>2, QuietStep

(* A step that puts out s, having taken what there is to take.             *)
LEMMA ShowsOn ==
  ASSUME NEW f, NEW g, Typed(g), Holds(g), NEW s \in Seq(Chars),
         g.job = f.job, g.measured = f.measured, g.size = f.size
  PROVE  GoesOn(f, Shown(g, s))
<1>1. Typed(Shown(g, s)) /\ Holds(Shown(g, s))
  BY ShownKeeps
<1>2. /\ Shown(g, s).pc = "text" /\ Shown(g, s).job = g.job /\ Shown(g, s).measured = g.measured
      /\ Shown(g, s).size = g.size
  BY AllButShown DEF AllBut, Fields, Typed
<1>. QED BY <1>1, <1>2 DEF GoesOn, Working

(* A character of the text is put out, or starts a directive.              *)
LEMMA TextStep ==
  ASSUME NEW f, Typed(f), Holds(f), f.pc = "text", f.fmt # <<>>
  PROVE  GoesOn(f, TextTaken(f))
<1>. DEFINE k == Skip(f)
<1>1. Typed(k) /\ Holds(k) /\ AllBut(f, k, {"fmt"})
  BY SkipIs
<1>2. k.pc = f.pc /\ k.job = f.job /\ k.measured = f.measured /\ k.size = f.size
  BY <1>1 DEF AllBut, Fields
<1>3. CASE Head(f.fmt) = "%"
  <2>. DEFINE g == [k EXCEPT !.pc = "flags", !.flags = {}, !.width = -1, !.precision = -1, !.qualifier = ""]
  <2>1. TextTaken(f) = g
    BY <1>3 DEF TextTaken
  <2>. HIDE DEF k
  <2>2. /\ DOMAIN g = Fields /\ g.pc = "flags" /\ g.width = -1 /\ g.precision = -1
        /\ g.fmt = k.fmt /\ g.text = k.text /\ g.str = k.str /\ g.size = k.size /\ g.buf = k.buf
        /\ g.job = k.job /\ g.measured = k.measured
    BY <1>1 DEF Typed, Fields
  <2>. HIDE DEF g
  <2>3. Typed(g) /\ Holds(g)
    <3>1. g.fmt \in Seq(STRING) /\ g.width \in Int /\ g.precision \in Int
      BY <1>1, <2>2 DEF Typed
    <3>. QED BY <1>1, <2>2, <3>1, QuietStep
  <2>. QED BY <1>2, <2>1, <2>2, <2>3 DEF GoesOn, Working
<1>4. CASE Head(f.fmt) # "%"
  <2>. DEFINE s == <<Head(f.fmt)>>
  <2>1. s \in Seq(Chars)
    <3>1. Head(f.fmt) \in Chars
      BY NowIs, StringsAreChars DEF Typed
    <3>. QED BY <3>1, OneCharacter
  <2>2. TextTaken(f) = Emit(k, s)
    BY <1>4 DEF TextTaken
  <2>. HIDE DEF s, k
  <2>3. Typed(Emit(k, s)) /\ Holds(Emit(k, s))
    BY <1>1, <2>1, EmitKeeps
  <2>4. AllBut(k, Emit(k, s), {"str", "buf", "written", "text"})
    BY <1>1, AllButEmit DEF Typed
  <2>5. /\ Emit(k, s).pc = k.pc /\ Emit(k, s).job = k.job /\ Emit(k, s).measured = k.measured
        /\ Emit(k, s).size = k.size
    BY <2>4 DEF AllBut, Fields
  <2>. QED BY <1>2, <2>2, <2>3, <2>5 DEF GoesOn, Working
<1>. QED BY <1>3, <1>4

(* A flag is noted, and anything else left to the width.                   *)
LEMMA FlagStep ==
  ASSUME NEW f, Typed(f), Holds(f), f.pc = "flags"
  PROVE  GoesOn(f, FlagTaken(f))
<1>1. CASE Now(f) \in {"-", "+", " ", "#", "0"}
  <2>. DEFINE k == Skip(f)
              g == [k EXCEPT !.flags = @ \cup {Head(f.fmt)}]
  <2>1. f.fmt # <<>>
    BY <1>1, NowIs DEF Typed
  <2>2. Typed(k) /\ Holds(k) /\ AllBut(f, k, {"fmt"})
    BY <2>1, SkipIs
  <2>3. k.pc = f.pc /\ k.job = f.job /\ k.measured = f.measured /\ k.size = f.size
    BY <2>2 DEF AllBut, Fields
  <2>4. FlagTaken(f) = g
    BY <1>1 DEF FlagTaken
  <2>. HIDE DEF k
  <2>5. /\ DOMAIN g = Fields /\ g.pc = k.pc /\ g.width = k.width /\ g.precision = k.precision
        /\ g.fmt = k.fmt /\ g.text = k.text /\ g.str = k.str /\ g.size = k.size /\ g.buf = k.buf
        /\ g.job = k.job /\ g.measured = k.measured
    BY <2>2 DEF Typed, Fields
  <2>. HIDE DEF g
  <2>6. Typed(g) /\ Holds(g)
    BY <2>2, <2>5, QuietStep DEF Typed
  <2>. QED BY <2>3, <2>4, <2>5, <2>6 DEF GoesOn, Working
<1>2. CASE Now(f) \notin {"-", "+", " ", "#", "0"}
  <2>. DEFINE g == [f EXCEPT !.pc = "width"]
  <2>1. FlagTaken(f) = g
    BY <1>2 DEF FlagTaken
  <2>2. /\ DOMAIN g = Fields /\ g.pc = "width" /\ g.width = f.width /\ g.precision = f.precision
        /\ g.fmt = f.fmt /\ g.text = f.text /\ g.str = f.str /\ g.size = f.size /\ g.buf = f.buf
        /\ g.job = f.job /\ g.measured = f.measured
    BY DEF Typed, Fields
  <2>. HIDE DEF g
  <2>3. Typed(g) /\ Holds(g)
    BY <2>2, QuietStep DEF Typed
  <2>. QED BY <2>1, <2>2, <2>3 DEF GoesOn, Working
<1>. QED BY <1>1, <1>2

(* A step from f that has taken what there is to take, k, and puts nothing *)
(* out.                                                                    *)
LEMMA TakesOn ==
  ASSUME NEW f, NEW k, NEW g, Typed(k), Holds(k),
         k.job = f.job, k.measured = f.measured, k.size = f.size,
         DOMAIN g = Fields, g.fmt = k.fmt, g.text = k.text, g.str = k.str, g.size = k.size,
         g.buf = k.buf, g.job = k.job, g.measured = k.measured,
         g.width \in Int, g.precision \in Int, g.pc \in Working
  PROVE  GoesOn(f, g)
<1>1. g.fmt \in Seq(STRING)
  BY DEF Typed
<1>2. Typed(g) /\ Holds(g)
  BY <1>1, QuietStep
<1>. QED BY <1>2 DEF GoesOn

(* g is k but for where it is, and for fields of the directive.            *)
Moved(k, g, pc) ==
  /\ DOMAIN g = Fields /\ g.pc = pc /\ g.fmt = k.fmt /\ g.text = k.text /\ g.str = k.str
  /\ g.size = k.size /\ g.buf = k.buf /\ g.job = k.job /\ g.measured = k.measured

(* A step that moves on in the directive goes on.                          *)
LEMMA MovesOn ==
  ASSUME NEW f, NEW k, NEW g, NEW pc \in Working, Typed(k), Holds(k), Moved(k, g, pc),
         k.job = f.job, k.measured = f.measured, k.size = f.size,
         g.width \in Int, g.precision \in Int
  PROVE  GoesOn(f, g)
BY TakesOn DEF Moved

(* What is skipped to from f.                                              *)
LEMMA Skipped ==
  ASSUME NEW f, Typed(f), Holds(f), f.fmt # <<>>
  PROVE  /\ Typed(Skip(f)) /\ Holds(Skip(f)) /\ Skip(f).fmt = Tail(f.fmt)
         /\ Skip(f).pc = f.pc /\ Skip(f).job = f.job /\ Skip(f).measured = f.measured
         /\ Skip(f).size = f.size /\ Skip(f).args = f.args
BY SkipIs DEF AllBut, Fields

(* What taking an argument leaves alone.                                   *)
LEMMA Used ==
  ASSUME NEW f, Typed(f), Holds(f)
  PROVE  /\ Typed(UsesArg(f)) /\ Holds(UsesArg(f)) /\ UsesArg(f).fmt = f.fmt
         /\ UsesArg(f).pc = f.pc /\ UsesArg(f).job = f.job /\ UsesArg(f).measured = f.measured
         /\ UsesArg(f).size = f.size
BY UsesArgIs DEF AllBut, Fields

(* A digit takes a number read to a number, and is not the end.            *)
LEMMA DigitIs10 ==
  ASSUME NEW n \in Int, NEW c, IsDigit(c)
  PROVE  Digits1(n, c) \in Int /\ c # "NUL"
<1>1. DigitValue(c) \in Int
  BY DEF IsDigit, DigitValue
<1>2. \A d \in 1 .. 10 : Digit[d] # "NUL"
  BY DEF Digit
<1>3. Greater(n, 0) \in Int
  BY DEF Greater
<1>. QED BY <1>1, <1>2, <1>3 DEF Digits1, IsDigit

(* The width is a *, a digit more, or done.                                *)
LEMMA WidthStep ==
  ASSUME NEW f, Typed(f), Holds(f), f.pc = "width", ArgFits(f)
  PROVE  GoesOn(f, WidthTaken(f))
<1>. DEFINE k == Skip(f)
            u == UsesArg(k)
<1>1. f.width \in Int /\ f.precision \in Int /\ DOMAIN f = Fields
  BY DEF Typed
<1>2. CASE IsDigit(Now(f))
  <2>. DEFINE n == Digits1(k.width, Head(f.fmt))
              g == [k EXCEPT !.width = n]
  <2>1. f.fmt # <<>> /\ Now(f) = Head(f.fmt)
    <3>1. Now(f) # "NUL"
      BY <1>1, <1>2, DigitIs10
    <3>. QED BY <3>1, NowIs DEF Typed
  <2>2. /\ Typed(k) /\ Holds(k) /\ k.pc = "width" /\ k.job = f.job /\ k.measured = f.measured
        /\ k.size = f.size
    BY <2>1, Skipped
  <2>3. WidthTaken(f) = g
    BY <1>2 DEF WidthTaken
  <2>. HIDE DEF k
  <2>4. n \in Int
    BY <1>2, <2>1, <2>2, DigitIs10 DEF Typed
  <2>. HIDE DEF n
  <2>5. Moved(k, g, "width") /\ g.width = n /\ g.precision = k.precision
    BY <2>2 DEF Moved, Typed, Fields
  <2>6. g.precision \in Int /\ "width" \in Working
    BY <2>2, <2>5 DEF Typed, Working
  <2>. HIDE DEF g
  <2>. QED BY <2>2, <2>3, <2>4, <2>5, <2>6, MovesOn
<1>3. CASE ~IsDigit(Now(f)) /\ Now(f) = "*" /\ f.width = -1
  <2>. DEFINE w == Head(f.args)
              v == IF w < 0 THEN -w ELSE w
              m == IF w < 0 THEN u.flags \cup {"-"} ELSE u.flags
              g == [u EXCEPT !.pc = "dot", !.width = v, !.flags = m]
  <2>1. f.fmt # <<>>
    BY <1>3, NowIs DEF Typed
  <2>2. /\ Typed(k) /\ Holds(k) /\ k.pc = "width" /\ k.job = f.job /\ k.measured = f.measured
        /\ k.size = f.size
    BY <2>1, Skipped
  <2>3. v \in Int
    <3>1. w \in Int
      BY <1>3 DEF ArgFits
    <3>. QED BY <3>1
  <2>4. WidthTaken(f) = g
    BY <1>3 DEF WidthTaken
  <2>. HIDE DEF k, v, m
  <2>5. /\ Typed(u) /\ Holds(u) /\ u.job = f.job /\ u.measured = f.measured /\ u.size = f.size
    BY <2>2, Used
  <2>. HIDE DEF u
  <2>6. Moved(u, g, "dot") /\ g.width = v /\ g.precision = u.precision
    BY <2>5 DEF Moved, Typed, Fields
  <2>7. g.precision \in Int /\ "dot" \in Working
    BY <2>5, <2>6 DEF Typed, Working
  <2>. HIDE DEF g
  <2>. QED BY <2>3, <2>4, <2>5, <2>6, <2>7, MovesOn
<1>4. CASE ~IsDigit(Now(f)) /\ ~(Now(f) = "*" /\ f.width = -1)
  <2>. DEFINE g == [f EXCEPT !.pc = "dot"]
  <2>1. WidthTaken(f) = g
    BY <1>4 DEF WidthTaken
  <2>2. Moved(f, g, "dot") /\ g.width = f.width /\ g.precision = f.precision
    BY <1>1 DEF Moved, Fields
  <2>3. "dot" \in Working
    BY DEF Working
  <2>. HIDE DEF g
  <2>. QED BY <1>1, <2>1, <2>2, <2>3, MovesOn
<1>. QED BY <1>2, <1>3, <1>4

(* A precision is a *, begun with a dot, or not given.                     *)
LEMMA DotStep ==
  ASSUME NEW f, Typed(f), Holds(f), f.pc = "dot", ArgFits(f)
  PROVE  GoesOn(f, DotTaken(f))
<1>. DEFINE k == Skip(f)
            l == Skip(k)
            u == UsesArg(l)
<1>1. f.width \in Int /\ f.precision \in Int /\ DOMAIN f = Fields
  BY DEF Typed
<1>2. CASE Now(f) # "."
  <2>. DEFINE g == [f EXCEPT !.pc = "qualifier"]
  <2>1. DotTaken(f) = g
    BY <1>2 DEF DotTaken
  <2>2. Moved(f, g, "qualifier") /\ g.width = f.width /\ g.precision = f.precision
    BY <1>1 DEF Moved, Fields
  <2>3. "qualifier" \in Working
    BY DEF Working
  <2>. HIDE DEF g
  <2>. QED BY <1>1, <2>1, <2>2, <2>3, MovesOn
<1>3. ASSUME Now(f) = "."
      PROVE  /\ Typed(k) /\ Holds(k) /\ k.job = f.job /\ k.measured = f.measured /\ k.size = f.size
             /\ k.width \in Int
  <2>1. f.fmt # <<>>
    BY <1>3, NowIs DEF Typed
  <2>. QED BY <2>1, Skipped DEF Typed
<1>4. CASE Now(f) = "." /\ Now(k) = "*"
  <2>. DEFINE v == Greater(Head(f.args), 0)
              g == [u EXCEPT !.pc = "qualifier", !.precision = v]
  <2>1. DotTaken(f) = g
    BY <1>4 DEF DotTaken
  <2>2. v \in Int
    <3>1. Head(f.args) \in Int
      BY <1>4 DEF ArgFits
    <3>. QED BY <3>1 DEF Greater
  <2>. HIDE DEF v, k
  <2>3. k.fmt # <<>> /\ Typed(k) /\ Holds(k)
    BY <1>3, <1>4, NowIs DEF Typed
  <2>4. Typed(l) /\ Holds(l) /\ l.job = k.job /\ l.measured = k.measured /\ l.size = k.size
    BY <2>3, Skipped
  <2>. HIDE DEF l
  <2>5. Typed(u) /\ Holds(u) /\ u.job = l.job /\ u.measured = l.measured /\ u.size = l.size
    BY <2>4, Used
  <2>. HIDE DEF u
  <2>6. Moved(u, g, "qualifier") /\ g.width = u.width /\ g.precision = v
    BY <2>5 DEF Moved, Typed, Fields
  <2>7. g.width \in Int /\ "qualifier" \in Working
    BY <2>5, <2>6 DEF Typed, Working
  <2>8. u.job = f.job /\ u.measured = f.measured /\ u.size = f.size
    BY <1>3, <1>4, <2>4, <2>5
  <2>. HIDE DEF g
  <2>. QED BY <2>1, <2>2, <2>5, <2>6, <2>7, <2>8, MovesOn
<1>5. CASE Now(f) = "." /\ Now(k) # "*"
  <2>. DEFINE g == [k EXCEPT !.pc = "precision", !.precision = 0]
  <2>1. DotTaken(f) = g
    BY <1>5 DEF DotTaken
  <2>. HIDE DEF k
  <2>2. Moved(k, g, "precision") /\ g.width = k.width /\ g.precision = 0
    BY <1>3, <1>5 DEF Moved, Typed, Fields
  <2>3. g.width \in Int /\ g.precision \in Int /\ "precision" \in Working
    BY <1>3, <1>5, <2>2 DEF Working
  <2>. HIDE DEF g
  <2>. QED BY <1>3, <1>5, <2>1, <2>2, <2>3, MovesOn
<1>. QED BY <1>2, <1>4, <1>5

(* The precision takes a digit more, or is done.                           *)
LEMMA PrecisionStep ==
  ASSUME NEW f, Typed(f), Holds(f), f.pc = "precision"
  PROVE  GoesOn(f, PrecisionTaken(f))
<1>. DEFINE k == Skip(f)
<1>1. f.width \in Int /\ f.precision \in Int /\ DOMAIN f = Fields
  BY DEF Typed
<1>2. CASE IsDigit(Now(f))
  <2>. DEFINE n == Digits1(k.precision, Head(f.fmt))
              g == [k EXCEPT !.precision = n]
  <2>1. f.fmt # <<>> /\ Now(f) = Head(f.fmt)
    <3>1. Now(f) # "NUL"
      BY <1>1, <1>2, DigitIs10
    <3>. QED BY <3>1, NowIs DEF Typed
  <2>2. /\ Typed(k) /\ Holds(k) /\ k.pc = "precision" /\ k.job = f.job /\ k.measured = f.measured
        /\ k.size = f.size
    BY <2>1, Skipped
  <2>3. PrecisionTaken(f) = g
    BY <1>2 DEF PrecisionTaken
  <2>. HIDE DEF k
  <2>4. n \in Int
    BY <1>2, <2>1, <2>2, DigitIs10 DEF Typed
  <2>. HIDE DEF n
  <2>5. Moved(k, g, "precision") /\ g.width = k.width /\ g.precision = n
    BY <2>2 DEF Moved, Typed, Fields
  <2>6. g.width \in Int /\ "precision" \in Working
    BY <2>2, <2>5 DEF Typed, Working
  <2>. HIDE DEF g
  <2>. QED BY <2>2, <2>3, <2>4, <2>5, <2>6, MovesOn
<1>3. CASE ~IsDigit(Now(f))
  <2>. DEFINE g == [f EXCEPT !.pc = "qualifier"]
  <2>1. PrecisionTaken(f) = g
    BY <1>3 DEF PrecisionTaken
  <2>2. Moved(f, g, "qualifier") /\ g.width = f.width /\ g.precision = f.precision
    BY <1>1 DEF Moved, Fields
  <2>3. "qualifier" \in Working
    BY DEF Working
  <2>. HIDE DEF g
  <2>. QED BY <1>1, <2>1, <2>2, <2>3, MovesOn
<1>. QED BY <1>2, <1>3

(* A qualifier is noted, or there is none.                                 *)
LEMMA QualifierStep ==
  ASSUME NEW f, Typed(f), Holds(f), f.pc = "qualifier"
  PROVE  GoesOn(f, QualifierTaken(f))
<1>. DEFINE k == Skip(f)
            l == Skip(k)
            q == Now(f)
            Known == {"h", "l", "L", "Z", "z", "t"}
<1>1. f.width \in Int /\ f.precision \in Int /\ DOMAIN f = Fields /\ "convert" \in Working
  BY DEF Typed, Working
<1>2. CASE q \notin Known
  <2>. DEFINE g == [f EXCEPT !.pc = "convert"]
  <2>1. QualifierTaken(f) = g
    BY <1>2 DEF QualifierTaken
  <2>2. Moved(f, g, "convert") /\ g.width = f.width /\ g.precision = f.precision
    BY <1>1 DEF Moved, Fields
  <2>. HIDE DEF g
  <2>. QED BY <1>1, <2>1, <2>2, MovesOn
<1>3. ASSUME q \in Known
      PROVE  /\ Typed(k) /\ Holds(k) /\ k.job = f.job /\ k.measured = f.measured /\ k.size = f.size
  <2>1. f.fmt # <<>>
    BY <1>3, NowIs DEF Typed
  <2>. QED BY <2>1, Skipped
<1>4. CASE q \in Known /\ q = "l" /\ Now(k) = "l"
  <2>. DEFINE g == [l EXCEPT !.qualifier = "L", !.pc = "convert"]
  <2>1. QualifierTaken(f) = g
    BY <1>4 DEF QualifierTaken
  <2>. HIDE DEF k, q
  <2>2. k.fmt # <<>> /\ Typed(k) /\ Holds(k)
    BY <1>3, <1>4, NowIs DEF Typed
  <2>3. Typed(l) /\ Holds(l) /\ l.job = k.job /\ l.measured = k.measured /\ l.size = k.size
    BY <2>2, Skipped
  <2>. HIDE DEF l
  <2>4. Moved(l, g, "convert") /\ g.width = l.width /\ g.precision = l.precision
    BY <2>3 DEF Moved, Typed, Fields
  <2>5. g.width \in Int /\ g.precision \in Int
    BY <2>3, <2>4 DEF Typed
  <2>6. l.job = f.job /\ l.measured = f.measured /\ l.size = f.size
    BY <1>3, <1>4, <2>3
  <2>. HIDE DEF g
  <2>. QED BY <1>1, <2>1, <2>3, <2>4, <2>5, <2>6, MovesOn
<1>5. CASE q \in Known /\ ~(q = "l" /\ Now(k) = "l")
  <2>. DEFINE g == [k EXCEPT !.qualifier = q, !.pc = "convert"]
  <2>1. QualifierTaken(f) = g
    BY <1>5 DEF QualifierTaken
  <2>. HIDE DEF k, q
  <2>2. Moved(k, g, "convert") /\ g.width = k.width /\ g.precision = k.precision
    BY <1>3, <1>5 DEF Moved, Typed, Fields
  <2>3. g.width \in Int /\ g.precision \in Int
    BY <1>3, <1>5, <2>2 DEF Typed
  <2>. HIDE DEF g
  <2>. QED BY <1>1, <1>3, <1>5, <2>1, <2>2, <2>3, MovesOn
<1>. QED BY <1>2, <1>4, <1>5

(* A directive for a number shows it.                                      *)
LEMMA NumberStep ==
  ASSUME NEW f, Typed(f), Holds(f), f.pc = "convert", Now(f) \in NumberLetters, ArgFits(f)
  PROVE  GoesOn(f, NumberShown(f))
<1>. DEFINE k == Skip(f)
            u == UsesArg(k)
            c == Head(f.fmt)
            signed == c \in {"d", "i"}
            flags == f.flags \cup (IF signed THEN {"SIGN"} ELSE {})
                             \cup (IF c = "x" THEN {"SMALL"} ELSE {})
            base == CASE c = "o" -> 8 [] c \in {"x", "X"} -> 16 [] OTHER -> 10
            v == Value(f.qualifier, Head(f.args), signed)
            s == NumberText(v, base, f.width, f.precision, flags)
<1>1. f.fmt # <<>>
  <2>1. Now(f) # "NUL"
    BY DEF NumberLetters
  <2>. QED BY <2>1, NowIs DEF Typed
<1>2. v \in Int
  <2>1. Head(f.args) \in Int
    BY DEF ArgFits
  <2>2. signed \in BOOLEAN
    OBVIOUS
  <2>. HIDE DEF signed
  <2>. QED BY <2>1, <2>2, ValueIs
<1>3. s \in Seq(Chars)
  <2>1. base \in {8, 10, 16} /\ f.width \in Int /\ f.precision \in Int
    BY DEF Typed
  <2>. HIDE DEF base, flags, v
  <2>. QED BY <1>2, <2>1, NumberTextIs
<1>4. Typed(k) /\ Holds(k) /\ k.job = f.job /\ k.measured = f.measured /\ k.size = f.size
  BY <1>1, Skipped
<1>5. NumberShown(f) = Shown(u, s)
  BY DEF NumberShown
<1>. HIDE DEF s, k
<1>6. Typed(u) /\ Holds(u) /\ u.job = f.job /\ u.measured = f.measured /\ u.size = f.size
  BY <1>4, Used
<1>. HIDE DEF u
<1>. QED BY <1>3, <1>5, <1>6, ShowsOn

(* Any other directive shows a character, a string, a pointer or itself.   *)
LEMMA OtherStep ==
  ASSUME NEW f, Typed(f), Holds(f), f.pc = "convert", Now(f) \notin NumberLetters, ArgFits(f)
  PROVE  GoesOn(f, OtherShown(f))
<1>. DEFINE k == Skip(f)
            u == UsesArg(k)
            arg == Head(f.args)
<1>1. f.width \in Int /\ f.precision \in Int /\ DOMAIN f = Fields /\ f.fmt \in Seq(STRING)
  BY DEF Typed
<1>2. ASSUME Now(f) # "NUL"
      PROVE  /\ Typed(k) /\ Holds(k) /\ k.job = f.job /\ k.measured = f.measured /\ k.size = f.size
             /\ Typed(u) /\ Holds(u) /\ u.job = f.job /\ u.measured = f.measured /\ u.size = f.size
             /\ Head(f.fmt) \in Chars
  <2>1. f.fmt # <<>> /\ Head(f.fmt) \in Chars
    BY <1>1, <1>2, NowIs, StringsAreChars
  <2>2. Typed(k) /\ Holds(k) /\ k.job = f.job /\ k.measured = f.measured /\ k.size = f.size
    BY <2>1, Skipped
  <2>. HIDE DEF k
  <2>3. Typed(u) /\ Holds(u) /\ u.job = k.job /\ u.measured = k.measured /\ u.size = k.size
    BY <2>2, Used
  <2>. QED BY <2>1, <2>2, <2>3
<1>3. CASE Now(f) = "c"
  <2>1. CharText(arg, f.width, f.flags) \in Seq(Chars)
    BY <1>1, <1>3, CharTextIs DEF ArgFits
  <2>2. OtherShown(f) = Shown(u, CharText(arg, f.width, f.flags))
    BY <1>3 DEF OtherShown
  <2>. HIDE DEF u
  <2>. QED BY <1>2, <1>3, <2>1, <2>2, ShowsOn
<1>4. CASE Now(f) = "s"
  <2>1. StringText(arg, f.width, f.precision, f.flags) \in Seq(Chars)
    BY <1>1, <1>4, StringTextIs DEF ArgFits
  <2>2. OtherShown(f) = Shown(u, StringText(arg, f.width, f.precision, f.flags))
    BY <1>4 DEF OtherShown
  <2>. HIDE DEF u
  <2>. QED BY <1>2, <1>4, <2>1, <2>2, ShowsOn
<1>5. CASE Now(f) = "p"
  <2>. DEFINE g == [u EXCEPT !.fmt = SkipAlnum(@)]
              s == PointerText(arg, f.width, f.precision, f.flags)
  <2>1. s \in Seq(Chars)
    BY <1>1, <1>5, PointerTextIs DEF ArgFits
  <2>2. OtherShown(f) = Shown(g, s)
    BY <1>5 DEF OtherShown
  <2>3. Typed(u) /\ Holds(u) /\ u.job = f.job /\ u.measured = f.measured /\ u.size = f.size
    BY <1>2, <1>5
  <2>. HIDE DEF u, s
  <2>4. /\ DOMAIN g = Fields /\ g.fmt = SkipAlnum(u.fmt) /\ g.text = u.text /\ g.str = u.str
        /\ g.size = u.size /\ g.buf = u.buf /\ g.job = u.job /\ g.measured = u.measured
        /\ g.width = u.width /\ g.precision = u.precision
    BY <2>3 DEF Typed, Fields
  <2>. HIDE DEF g
  <2>5. g.fmt \in Seq(STRING) /\ g.width \in Int /\ g.precision \in Int
    BY <2>3, <2>4, SkipAlnumIs DEF Typed
  <2>6. Typed(g) /\ Holds(g)
    BY <2>3, <2>4, <2>5, QuietStep
  <2>. QED BY <2>1, <2>2, <2>3, <2>4, <2>6, ShowsOn
<1>6. CASE Now(f) = "n"
  <2>. DEFINE g == [u EXCEPT !.pc = "text", !.count = f.str]
  <2>1. OtherShown(f) = g
    BY <1>6 DEF OtherShown
  <2>2. Typed(u) /\ Holds(u) /\ u.job = f.job /\ u.measured = f.measured /\ u.size = f.size
    BY <1>2, <1>6
  <2>. HIDE DEF u
  <2>3. Moved(u, g, "text") /\ g.width = u.width /\ g.precision = u.precision
    BY <2>2 DEF Moved, Typed, Fields
  <2>4. g.width \in Int /\ g.precision \in Int /\ "text" \in Working
    BY <2>2, <2>3 DEF Typed, Working
  <2>. HIDE DEF g
  <2>. QED BY <2>1, <2>2, <2>3, <2>4, MovesOn
<1>7. "%" \in Chars /\ <<"%">> \in Seq(Chars)
  <2>1. "%" \in Chars
    BY DEF Chars
  <2>. QED BY <2>1, OneCharacter
<1>8. CASE Now(f) = "%"
  <2>1. OtherShown(f) = Shown(k, <<"%">>)
    BY <1>8 DEF OtherShown
  <2>. HIDE DEF k
  <2>. QED BY <1>2, <1>7, <1>8, <2>1, ShowsOn
<1>9. CASE Now(f) = "NUL"
  <2>1. OtherShown(f) = Shown(f, <<"%">>)
    BY <1>9 DEF OtherShown
  <2>. QED BY <1>7, <2>1, ShowsOn
<1>10. CASE Now(f) \notin {"c", "s", "p", "n", "%", "NUL"}
  <2>. DEFINE s == <<"%", Head(f.fmt)>>
  <2>1. OtherShown(f) = Shown(k, s)
    BY <1>10 DEF OtherShown
  <2>2. s \in Seq(Chars)
    BY <1>2, <1>7, <1>10, OneCharacter
  <2>. HIDE DEF k, s
  <2>. QED BY <1>2, <1>10, <2>1, <2>2, ShowsOn
<1>. QED BY <1>3, <1>4, <1>5, <1>6, <1>8, <1>9, <1>10

(* The step that takes the next character, wherever the routine is.        *)
Stepped(f) ==
  CASE f.pc = "text" -> TextTaken(f)
    [] f.pc = "flags" -> FlagTaken(f)
    [] f.pc = "width" -> WidthTaken(f)
    [] f.pc = "dot" -> DotTaken(f)
    [] f.pc = "precision" -> PrecisionTaken(f)
    [] f.pc = "qualifier" -> QualifierTaken(f)
    [] f.pc = "convert" -> IF Now(f) \in NumberLetters THEN NumberShown(f) ELSE OtherShown(f)

(* The format is at its end.                                               *)
Finished(f) == f.pc = "text" /\ f.fmt = <<>>

(* Whichever step it is, the call goes on with types and buffer kept.      *)
LEMMA SteppedKeeps ==
  ASSUME NEW f, Typed(f), Holds(f), f.pc \in Working, ~Finished(f), ArgFits(f)
  PROVE  GoesOn(f, Stepped(f))
<1>1. CASE f.pc = "text"
  BY <1>1, TextStep DEF Stepped, Finished
<1>2. CASE f.pc = "flags"
  BY <1>2, FlagStep DEF Stepped
<1>3. CASE f.pc = "width"
  BY <1>3, WidthStep DEF Stepped
<1>4. CASE f.pc = "dot"
  BY <1>4, DotStep DEF Stepped
<1>5. CASE f.pc = "precision"
  BY <1>5, PrecisionStep DEF Stepped
<1>6. CASE f.pc = "qualifier"
  BY <1>6, QualifierStep DEF Stepped
<1>7. CASE f.pc = "convert"
  BY <1>7, NumberStep, OtherStep DEF Stepped
<1>. QED BY <1>1, <1>2, <1>3, <1>4, <1>5, <1>6, <1>7 DEF Working

-----------------------------------------------------------------------------
(* The same format with the same arguments gives the same text. *)

(* Two calls stand at the same place of a format, with the same arguments  *)
(* left, the same text put out and, in a directive, the same of it read.   *)
Alike(f, g) ==
  /\ f.pc = g.pc /\ f.fmt = g.fmt /\ f.args = g.args /\ f.text = g.text /\ f.str = g.str
  /\ f.pc # "text" => /\ f.flags = g.flags /\ f.width = g.width /\ f.precision = g.precision
                      /\ f.qualifier = g.qualifier

(* Passing a character over keeps two calls alike.                         *)
LEMMA AlikeSkip ==
  ASSUME NEW f, NEW g, DOMAIN f = Fields, DOMAIN g = Fields, Alike(f, g)
  PROVE  /\ DOMAIN Skip(f) = Fields /\ DOMAIN Skip(g) = Fields /\ Alike(Skip(f), Skip(g))
         /\ Skip(f).pc = f.pc /\ Now(Skip(f)) = Now(Skip(g)) /\ Now(f) = Now(g)
BY DEF Alike, Skip, Fields, Now

(* So does taking an argument.                                             *)
LEMMA AlikeUsesArg ==
  ASSUME NEW f, NEW g, DOMAIN f = Fields, DOMAIN g = Fields, Alike(f, g)
  PROVE  /\ DOMAIN UsesArg(f) = Fields /\ DOMAIN UsesArg(g) = Fields
         /\ Alike(UsesArg(f), UsesArg(g)) /\ UsesArg(f).pc = f.pc
<1>1. /\ AllBut(f, UsesArg(f), {"args"}) /\ AllBut(g, UsesArg(g), {"args"})
      /\ UsesArg(f).args = (IF f.args = <<>> THEN f.args ELSE Tail(f.args))
      /\ UsesArg(g).args = (IF g.args = <<>> THEN g.args ELSE Tail(g.args))
  BY AllButUsesArg
<1>2. UsesArg(f).args = UsesArg(g).args
  BY <1>1 DEF Alike
<1>. QED BY <1>1, <1>2 DEF AllBut, Fields, Alike

(* So does showing the same text.                                          *)
LEMMA AlikeShown ==
  ASSUME NEW f, NEW g, DOMAIN f = Fields, DOMAIN g = Fields, Alike(f, g), NEW s
  PROVE  DOMAIN Shown(f, s) = Fields /\ DOMAIN Shown(g, s) = Fields /\ Alike(Shown(f, s), Shown(g, s))
<1>1. /\ AllBut(f, Shown(f, s), {"pc", "str", "buf", "written", "text"})
      /\ AllBut(g, Shown(g, s), {"pc", "str", "buf", "written", "text"})
      /\ Shown(f, s).pc = "text" /\ Shown(g, s).pc = "text"
      /\ Shown(f, s).str = f.str + Len(s) /\ Shown(g, s).str = g.str + Len(s)
      /\ Shown(f, s).text = f.text \o s /\ Shown(g, s).text = g.text \o s
  BY AllButShown
<1>2. /\ DOMAIN Shown(f, s) = Fields /\ DOMAIN Shown(g, s) = Fields
      /\ Shown(f, s).fmt = f.fmt /\ Shown(g, s).fmt = g.fmt
      /\ Shown(f, s).args = f.args /\ Shown(g, s).args = g.args
  BY <1>1 DEF AllBut, Fields
<1>. QED BY <1>1, <1>2 DEF Alike

(* Both go on alike.                                                       *)
OnAlike(f, g) == DOMAIN f = Fields /\ DOMAIN g = Fields /\ Alike(f, g)

(* What two calls that are alike have in common.                           *)
LEMMA BothSkip ==
  ASSUME NEW f, NEW g, OnAlike(f, g)
  PROVE  /\ DOMAIN Skip(f) = Fields /\ DOMAIN Skip(g) = Fields /\ Alike(Skip(f), Skip(g))
         /\ Skip(f).pc = f.pc /\ f.pc = g.pc /\ Now(f) = Now(g) /\ Now(Skip(f)) = Now(Skip(g))
         /\ f.fmt = g.fmt /\ f.args = g.args /\ f.str = g.str
         /\ f.pc # "text" => /\ f.flags = g.flags /\ f.width = g.width
                             /\ f.precision = g.precision /\ f.qualifier = g.qualifier
<1>1. /\ f.pc = g.pc /\ f.fmt = g.fmt /\ f.args = g.args /\ f.str = g.str
      /\ f.pc # "text" => /\ f.flags = g.flags /\ f.width = g.width
                          /\ f.precision = g.precision /\ f.qualifier = g.qualifier
  BY DEF OnAlike, Alike
<1>2. /\ DOMAIN Skip(f) = Fields /\ DOMAIN Skip(g) = Fields /\ Alike(Skip(f), Skip(g))
      /\ Skip(f).pc = f.pc /\ Now(f) = Now(g) /\ Now(Skip(f)) = Now(Skip(g))
  BY AlikeSkip DEF OnAlike
<1>. QED BY <1>1, <1>2

(* Two calls that are alike take the same character of the text.           *)
LEMMA TextAlike ==
  ASSUME NEW f, NEW g, OnAlike(f, g), f.pc = "text"
  PROVE  OnAlike(TextTaken(f), TextTaken(g))
<1>. DEFINE k == Skip(f)
            l == Skip(g)
<1>1. DOMAIN k = Fields /\ DOMAIN l = Fields /\ Alike(k, l) /\ f.fmt = g.fmt /\ k.pc = "text"
  BY BothSkip
<1>2. CASE Head(f.fmt) = "%"
  <2>1. /\ TextTaken(f) = [k EXCEPT !.pc = "flags", !.flags = {}, !.width = -1, !.precision = -1,
                                    !.qualifier = ""]
        /\ TextTaken(g) = [l EXCEPT !.pc = "flags", !.flags = {}, !.width = -1, !.precision = -1,
                                    !.qualifier = ""]
    BY <1>1, <1>2 DEF TextTaken
  <2>. HIDE DEF k, l
  <2>. QED BY <1>1, <2>1 DEF OnAlike, Alike, Fields
<1>3. CASE Head(f.fmt) # "%"
  <2>. DEFINE s == <<Head(f.fmt)>>
  <2>1. TextTaken(f) = Emit(k, s) /\ TextTaken(g) = Emit(l, s)
    BY <1>1, <1>3 DEF TextTaken
  <2>. HIDE DEF k, l, s
  <2>2. /\ AllBut(k, Emit(k, s), {"str", "buf", "written", "text"})
        /\ AllBut(l, Emit(l, s), {"str", "buf", "written", "text"})
        /\ Emit(k, s).str = k.str + Len(s) /\ Emit(l, s).str = l.str + Len(s)
        /\ Emit(k, s).text = k.text \o s /\ Emit(l, s).text = l.text \o s
    BY <1>1, AllButEmit
  <2>3. /\ DOMAIN Emit(k, s) = Fields /\ DOMAIN Emit(l, s) = Fields
        /\ Emit(k, s).pc = k.pc /\ Emit(l, s).pc = l.pc
        /\ Emit(k, s).fmt = k.fmt /\ Emit(l, s).fmt = l.fmt
        /\ Emit(k, s).args = k.args /\ Emit(l, s).args = l.args
    BY <2>2 DEF AllBut, Fields
  <2>. QED BY <1>1, <2>1, <2>2, <2>3 DEF OnAlike, Alike
<1>. QED BY <1>2, <1>3

(* They note the same flag.                                                *)
LEMMA FlagAlike ==
  ASSUME NEW f, NEW g, OnAlike(f, g), f.pc = "flags"
  PROVE  OnAlike(FlagTaken(f), FlagTaken(g))
<1>. DEFINE k == Skip(f)
            l == Skip(g)
<1>1. /\ DOMAIN k = Fields /\ DOMAIN l = Fields /\ Alike(k, l) /\ f.fmt = g.fmt /\ k.pc = "flags"
      /\ Now(f) = Now(g)
  BY BothSkip
<1>2. CASE Now(f) \in {"-", "+", " ", "#", "0"}
  <2>1. /\ FlagTaken(f) = [k EXCEPT !.flags = @ \cup {Head(f.fmt)}]
        /\ FlagTaken(g) = [l EXCEPT !.flags = @ \cup {Head(f.fmt)}]
    BY <1>1, <1>2 DEF FlagTaken
  <2>. HIDE DEF k, l
  <2>2. /\ k.pc = "flags" /\ l.pc = "flags" /\ k.fmt = l.fmt /\ k.args = l.args /\ k.text = l.text
        /\ k.str = l.str /\ k.flags = l.flags /\ k.width = l.width /\ k.precision = l.precision
        /\ k.qualifier = l.qualifier
    BY <1>1 DEF Alike
  <2>3. AllBut(k, FlagTaken(f), {"flags"}) /\ AllBut(l, FlagTaken(g), {"flags"})
    BY <1>1, <2>1 DEF AllBut, Fields
  <2>4. FlagTaken(f).flags = FlagTaken(g).flags
    BY <1>1, <2>1, <2>2 DEF Fields
  <2>. QED BY <2>2, <2>3, <2>4 DEF OnAlike, Alike, AllBut, Fields
<1>3. CASE Now(f) \notin {"-", "+", " ", "#", "0"}
  <2>1. FlagTaken(f) = [f EXCEPT !.pc = "width"] /\ FlagTaken(g) = [g EXCEPT !.pc = "width"]
    BY <1>1, <1>3 DEF FlagTaken
  <2>. QED BY <2>1 DEF OnAlike, Alike, Fields
<1>. QED BY <1>2, <1>3

(* They read the same of a width.                                          *)
LEMMA WidthAlike ==
  ASSUME NEW f, NEW g, OnAlike(f, g), f.pc = "width"
  PROVE  OnAlike(WidthTaken(f), WidthTaken(g))
<1>. DEFINE k == Skip(f)
            l == Skip(g)
            u == UsesArg(k)
            v == UsesArg(l)
            w == Head(f.args)
<1>1. /\ DOMAIN k = Fields /\ DOMAIN l = Fields /\ Alike(k, l) /\ k.pc = "width" /\ Now(f) = Now(g)
      /\ f.fmt = g.fmt /\ f.args = g.args /\ f.width = g.width
  BY BothSkip
<1>2. DOMAIN u = Fields /\ DOMAIN v = Fields /\ Alike(u, v) /\ u.pc = "width"
  <2>. HIDE DEF k, l
  <2>. QED BY <1>1, AlikeUsesArg
<1>3. CASE IsDigit(Now(f))
  <2>1. k.width = l.width
    BY <1>1 DEF Alike
  <2>. DEFINE n == Digits1(k.width, Head(f.fmt))
  <2>2. WidthTaken(f) = [k EXCEPT !.width = n] /\ WidthTaken(g) = [l EXCEPT !.width = n]
    BY <1>1, <1>3, <2>1 DEF WidthTaken
  <2>. HIDE DEF k, l, n
  <2>3. /\ k.pc = "width" /\ l.pc = "width" /\ k.fmt = l.fmt /\ k.args = l.args /\ k.text = l.text
        /\ k.str = l.str /\ k.flags = l.flags /\ k.width = l.width /\ k.precision = l.precision
        /\ k.qualifier = l.qualifier
    BY <1>1 DEF Alike
  <2>4. AllBut(k, WidthTaken(f), {"width"}) /\ AllBut(l, WidthTaken(g), {"width"})
    BY <1>1, <2>2 DEF AllBut, Fields
  <2>5. WidthTaken(f).width = n /\ WidthTaken(g).width = n
    BY <1>1, <2>2 DEF Fields
  <2>. QED BY <2>3, <2>4, <2>5 DEF OnAlike, Alike, AllBut, Fields
<1>4. CASE ~IsDigit(Now(f)) /\ Now(f) = "*" /\ f.width = -1
  <2>. DEFINE n == IF w < 0 THEN -w ELSE w
              m == IF w < 0 THEN u.flags \cup {"-"} ELSE u.flags
  <2>1. u.flags = v.flags
    BY <1>2 DEF Alike
  <2>2. /\ WidthTaken(f) = [u EXCEPT !.pc = "dot", !.width = n, !.flags = m]
        /\ WidthTaken(g) = [v EXCEPT !.pc = "dot", !.width = n, !.flags = m]
    BY <1>1, <1>4, <2>1 DEF WidthTaken
  <2>. HIDE DEF u, v, n, m
  <2>. QED BY <1>2, <2>2 DEF OnAlike, Alike, Fields
<1>5. CASE ~IsDigit(Now(f)) /\ ~(Now(f) = "*" /\ f.width = -1)
  <2>1. WidthTaken(f) = [f EXCEPT !.pc = "dot"] /\ WidthTaken(g) = [g EXCEPT !.pc = "dot"]
    BY <1>1, <1>5 DEF WidthTaken
  <2>. QED BY <2>1 DEF OnAlike, Alike, Fields
<1>. QED BY <1>3, <1>4, <1>5

(* They find a precision, or none, both.                                   *)
LEMMA DotAlike ==
  ASSUME NEW f, NEW g, OnAlike(f, g), f.pc = "dot"
  PROVE  OnAlike(DotTaken(f), DotTaken(g))
<1>. DEFINE k == Skip(f)
            l == Skip(g)
            k2 == Skip(k)
            l2 == Skip(l)
            u == UsesArg(k2)
            v == UsesArg(l2)
            n == Greater(Head(f.args), 0)
<1>1. /\ DOMAIN k = Fields /\ DOMAIN l = Fields /\ Alike(k, l) /\ k.pc = "dot" /\ Now(f) = Now(g)
      /\ f.args = g.args /\ Now(k) = Now(l)
  BY BothSkip
<1>2. DOMAIN k2 = Fields /\ DOMAIN l2 = Fields /\ Alike(k2, l2) /\ k2.pc = "dot"
  <2>. HIDE DEF k, l
  <2>. QED BY <1>1, AlikeSkip
<1>3. DOMAIN u = Fields /\ DOMAIN v = Fields /\ Alike(u, v) /\ u.pc = "dot"
  <2>. HIDE DEF k2, l2
  <2>. QED BY <1>2, AlikeUsesArg
<1>4. CASE Now(f) # "."
  <2>1. DotTaken(f) = [f EXCEPT !.pc = "qualifier"] /\ DotTaken(g) = [g EXCEPT !.pc = "qualifier"]
    BY <1>1, <1>4 DEF DotTaken
  <2>. QED BY <2>1 DEF OnAlike, Alike, Fields
<1>5. CASE Now(f) = "." /\ Now(k) = "*"
  <2>1. /\ DotTaken(f) = [u EXCEPT !.pc = "qualifier", !.precision = n]
        /\ DotTaken(g) = [v EXCEPT !.pc = "qualifier", !.precision = n]
    BY <1>1, <1>5 DEF DotTaken
  <2>. HIDE DEF u, v, n
  <2>. QED BY <1>3, <2>1 DEF OnAlike, Alike, Fields
<1>6. CASE Now(f) = "." /\ Now(k) # "*"
  <2>1. /\ DotTaken(f) = [k EXCEPT !.pc = "precision", !.precision = 0]
        /\ DotTaken(g) = [l EXCEPT !.pc = "precision", !.precision = 0]
    BY <1>1, <1>6 DEF DotTaken
  <2>. HIDE DEF k, l
  <2>. QED BY <1>1, <2>1 DEF OnAlike, Alike, Fields
<1>. QED BY <1>4, <1>5, <1>6

(* They read the same of a precision.                                      *)
LEMMA PrecisionAlike ==
  ASSUME NEW f, NEW g, OnAlike(f, g), f.pc = "precision"
  PROVE  OnAlike(PrecisionTaken(f), PrecisionTaken(g))
<1>. DEFINE k == Skip(f)
            l == Skip(g)
<1>1. /\ DOMAIN k = Fields /\ DOMAIN l = Fields /\ Alike(k, l) /\ f.fmt = g.fmt /\ k.pc = "precision"
      /\ Now(f) = Now(g)
  BY BothSkip
<1>2. CASE IsDigit(Now(f))
  <2>1. k.precision = l.precision
    BY <1>1 DEF Alike
  <2>. DEFINE n == Digits1(k.precision, Head(f.fmt))
  <2>2. PrecisionTaken(f) = [k EXCEPT !.precision = n] /\ PrecisionTaken(g) = [l EXCEPT !.precision = n]
    BY <1>1, <1>2, <2>1 DEF PrecisionTaken
  <2>. HIDE DEF k, l, n
  <2>3. /\ k.pc = "precision" /\ l.pc = "precision" /\ k.fmt = l.fmt /\ k.args = l.args /\ k.text = l.text
        /\ k.str = l.str /\ k.flags = l.flags /\ k.width = l.width /\ k.precision = l.precision
        /\ k.qualifier = l.qualifier
    BY <1>1 DEF Alike
  <2>4. AllBut(k, PrecisionTaken(f), {"precision"}) /\ AllBut(l, PrecisionTaken(g), {"precision"})
    BY <1>1, <2>2 DEF AllBut, Fields
  <2>5. PrecisionTaken(f).precision = n /\ PrecisionTaken(g).precision = n
    BY <1>1, <2>2 DEF Fields
  <2>. QED BY <2>3, <2>4, <2>5 DEF OnAlike, Alike, AllBut, Fields
<1>3. CASE ~IsDigit(Now(f))
  <2>1. PrecisionTaken(f) = [f EXCEPT !.pc = "qualifier"] /\ PrecisionTaken(g) = [g EXCEPT !.pc = "qualifier"]
    BY <1>1, <1>3 DEF PrecisionTaken
  <2>. QED BY <2>1 DEF OnAlike, Alike, Fields
<1>. QED BY <1>2, <1>3

(* They note the same qualifier.                                           *)
LEMMA QualifierAlike ==
  ASSUME NEW f, NEW g, OnAlike(f, g), f.pc = "qualifier"
  PROVE  OnAlike(QualifierTaken(f), QualifierTaken(g))
<1>. DEFINE k == Skip(f)
            l == Skip(g)
            k2 == Skip(k)
            l2 == Skip(l)
            q == Now(f)
            Known == {"h", "l", "L", "Z", "z", "t"}
<1>1. /\ DOMAIN k = Fields /\ DOMAIN l = Fields /\ Alike(k, l) /\ k.pc = "qualifier" /\ q = Now(g)
      /\ Now(k) = Now(l)
  BY BothSkip
<1>2. DOMAIN k2 = Fields /\ DOMAIN l2 = Fields /\ Alike(k2, l2) /\ k2.pc = "qualifier"
  <2>. HIDE DEF k, l, q
  <2>. QED BY <1>1, AlikeSkip
<1>3. CASE q \notin Known
  <2>1. QualifierTaken(f) = [f EXCEPT !.pc = "convert"] /\ QualifierTaken(g) = [g EXCEPT !.pc = "convert"]
    BY <1>1, <1>3 DEF QualifierTaken
  <2>. QED BY <2>1 DEF OnAlike, Alike, Fields
<1>4. CASE q \in Known /\ q = "l" /\ Now(k) = "l"
  <2>1. /\ QualifierTaken(f) = [k2 EXCEPT !.qualifier = "L", !.pc = "convert"]
        /\ QualifierTaken(g) = [l2 EXCEPT !.qualifier = "L", !.pc = "convert"]
    BY <1>1, <1>4 DEF QualifierTaken
  <2>. HIDE DEF k2, l2, q
  <2>. QED BY <1>2, <2>1 DEF OnAlike, Alike, Fields
<1>5. CASE q \in Known /\ ~(q = "l" /\ Now(k) = "l")
  <2>1. /\ QualifierTaken(f) = [k EXCEPT !.qualifier = q, !.pc = "convert"]
        /\ QualifierTaken(g) = [l EXCEPT !.qualifier = q, !.pc = "convert"]
    BY <1>1, <1>5 DEF QualifierTaken
  <2>. HIDE DEF k, l, q
  <2>. QED BY <1>1, <2>1 DEF OnAlike, Alike, Fields
<1>. QED BY <1>3, <1>4, <1>5

(* They show the same number.                                              *)
LEMMA NumberAlike ==
  ASSUME NEW f, NEW g, OnAlike(f, g), f.pc = "convert"
  PROVE  OnAlike(NumberShown(f), NumberShown(g))
<1>. DEFINE k == Skip(f)
            l == Skip(g)
            u == UsesArg(k)
            v == UsesArg(l)
            c == Head(f.fmt)
            signed == c \in {"d", "i"}
            flags == f.flags \cup (IF signed THEN {"SIGN"} ELSE {})
                             \cup (IF c = "x" THEN {"SMALL"} ELSE {})
            base == CASE c = "o" -> 8 [] c \in {"x", "X"} -> 16 [] OTHER -> 10
            s == NumberText(Value(f.qualifier, Head(f.args), signed), base, f.width, f.precision, flags)
<1>1. DOMAIN k = Fields /\ DOMAIN l = Fields /\ Alike(k, l)
  BY AlikeSkip DEF OnAlike
<1>2. DOMAIN u = Fields /\ DOMAIN v = Fields /\ Alike(u, v)
  <2>. HIDE DEF k, l
  <2>. QED BY <1>1, AlikeUsesArg
<1>3. /\ f.fmt = g.fmt /\ f.args = g.args /\ f.flags = g.flags /\ f.width = g.width
      /\ f.precision = g.precision /\ f.qualifier = g.qualifier
  BY DEF OnAlike, Alike
<1>4. NumberShown(f) = Shown(u, s)
  BY DEF NumberShown
<1>5. NumberShown(g) = Shown(v, s)
  BY <1>3, Zenon DEF NumberShown
<1>. HIDE DEF u, v, s
<1>. QED BY <1>2, <1>4, <1>5, AlikeShown DEF OnAlike

(* They show the same of any other directive.                              *)
LEMMA OtherAlike ==
  ASSUME NEW f, NEW g, OnAlike(f, g), f.pc = "convert"
  PROVE  OnAlike(OtherShown(f), OtherShown(g))
<1>. DEFINE k == Skip(f)
            l == Skip(g)
            u == UsesArg(k)
            v == UsesArg(l)
            arg == Head(f.args)
<1>1. DOMAIN k = Fields /\ DOMAIN l = Fields /\ Alike(k, l) /\ Now(f) = Now(g) /\ k.pc = "convert"
  BY AlikeSkip DEF OnAlike
<1>2. DOMAIN u = Fields /\ DOMAIN v = Fields /\ Alike(u, v) /\ u.pc = "convert"
  <2>. HIDE DEF k, l
  <2>. QED BY <1>1, AlikeUsesArg
<1>3. /\ f.fmt = g.fmt /\ f.args = g.args /\ f.flags = g.flags /\ f.width = g.width
      /\ f.precision = g.precision /\ f.str = g.str
  BY DEF OnAlike, Alike
<1>4. CASE Now(f) = "c"
  <2>. DEFINE s == CharText(arg, f.width, f.flags)
  <2>1. OtherShown(f) = Shown(u, s) /\ OtherShown(g) = Shown(v, s)
    BY <1>1, <1>3, <1>4 DEF OtherShown
  <2>. HIDE DEF u, v, s
  <2>. QED BY <1>2, <2>1, AlikeShown DEF OnAlike
<1>5. CASE Now(f) = "s"
  <2>. DEFINE s == StringText(arg, f.width, f.precision, f.flags)
  <2>1. OtherShown(f) = Shown(u, s) /\ OtherShown(g) = Shown(v, s)
    BY <1>1, <1>3, <1>5 DEF OtherShown
  <2>. HIDE DEF u, v, s
  <2>. QED BY <1>2, <2>1, AlikeShown DEF OnAlike
<1>6. CASE Now(f) = "p"
  <2>. DEFINE s == PointerText(arg, f.width, f.precision, f.flags)
              a == [u EXCEPT !.fmt = SkipAlnum(@)]
              b == [v EXCEPT !.fmt = SkipAlnum(@)]
  <2>1. OtherShown(f) = Shown(a, s) /\ OtherShown(g) = Shown(b, s)
    BY <1>1, <1>3, <1>6 DEF OtherShown
  <2>. HIDE DEF u, v, s
  <2>2. DOMAIN a = Fields /\ DOMAIN b = Fields /\ Alike(a, b)
    BY <1>2 DEF Alike, Fields
  <2>. HIDE DEF a, b
  <2>. QED BY <2>1, <2>2, AlikeShown DEF OnAlike
<1>7. CASE Now(f) = "n"
  <2>1. /\ OtherShown(f) = [u EXCEPT !.pc = "text", !.count = f.str]
        /\ OtherShown(g) = [v EXCEPT !.pc = "text", !.count = f.str]
    BY <1>1, <1>3, <1>7 DEF OtherShown
  <2>. HIDE DEF u, v
  <2>. QED BY <1>2, <2>1 DEF OnAlike, Alike, Fields
<1>8. CASE Now(f) = "%"
  <2>1. OtherShown(f) = Shown(k, <<"%">>) /\ OtherShown(g) = Shown(l, <<"%">>)
    BY <1>1, <1>8 DEF OtherShown
  <2>. HIDE DEF k, l
  <2>. QED BY <1>1, <2>1, AlikeShown DEF OnAlike
<1>9. CASE Now(f) = "NUL"
  <2>1. OtherShown(f) = Shown(f, <<"%">>) /\ OtherShown(g) = Shown(g, <<"%">>)
    BY <1>1, <1>9 DEF OtherShown
  <2>. QED BY <2>1, AlikeShown DEF OnAlike
<1>10. CASE Now(f) \notin {"c", "s", "p", "n", "%", "NUL"}
  <2>. DEFINE s == <<"%", Head(f.fmt)>>
  <2>1. OtherShown(f) = Shown(k, s) /\ OtherShown(g) = Shown(l, s)
    BY <1>1, <1>3, <1>10 DEF OtherShown
  <2>. HIDE DEF k, l, s
  <2>. QED BY <1>1, <2>1, AlikeShown DEF OnAlike
<1>. QED BY <1>4, <1>5, <1>6, <1>7, <1>8, <1>9, <1>10

(* Whichever step it is, two calls that are alike stay so.                 *)
LEMMA SteppedAlike ==
  ASSUME NEW f, NEW g, OnAlike(f, g), f.pc \in Working
  PROVE  OnAlike(Stepped(f), Stepped(g))
<1>1. f.pc = g.pc /\ Now(f) = Now(g)
  BY BothSkip
<1>2. CASE f.pc = "text"
  BY <1>1, <1>2, TextAlike DEF Stepped
<1>3. CASE f.pc = "flags"
  BY <1>1, <1>3, FlagAlike DEF Stepped
<1>4. CASE f.pc = "width"
  BY <1>1, <1>4, WidthAlike DEF Stepped
<1>5. CASE f.pc = "dot"
  BY <1>1, <1>5, DotAlike DEF Stepped
<1>6. CASE f.pc = "precision"
  BY <1>1, <1>6, PrecisionAlike DEF Stepped
<1>7. CASE f.pc = "qualifier"
  BY <1>1, <1>7, QualifierAlike DEF Stepped
<1>8. CASE f.pc = "convert"
  BY <1>1, <1>8, NumberAlike, OtherAlike DEF Stepped
<1>. QED BY <1>2, <1>3, <1>4, <1>5, <1>6, <1>7, <1>8 DEF Working

(* A call begins at the start of its format, with nothing put out.         *)
Begins(f, job) == /\ DOMAIN f = Fields /\ f.pc = "text" /\ f.fmt = job.fmt /\ f.args = job.args
                  /\ f.text = <<>> /\ f.str = 0

(* The states h[0] .. h[n] of a job, the format not ended before the last. *)
Run(h, n, job) ==
  /\ n \in Nat /\ Begins(h[0], job)
  /\ \A k \in 0 .. n : DOMAIN h[k] = Fields /\ h[k].pc \in Working
  /\ \A k \in 0 .. n - 1 : ~Finished(h[k]) /\ h[k + 1] = Stepped(h[k])

(* A call that begins is on a run of no step.                              *)
LEMMA RunBegins ==
  ASSUME NEW f, NEW job, Begins(f, job)
  PROVE  \E h, n : Run(h, n, job) /\ h[n] = f
<1>. DEFINE h == [k \in 0 .. 0 |-> f]
<1>1. h[0] = f
  OBVIOUS
<1>2. \A k \in 0 .. 0 : h[k] = f
  OBVIOUS
<1>. HIDE DEF h
<1>3. f.pc \in Working /\ DOMAIN f = Fields
  BY DEF Begins, Working
<1>4. Run(h, 0, job)
  BY <1>1, <1>2, <1>3 DEF Run
<1>. QED BY <1>1, <1>4

(* A step takes a run to a longer one.                                     *)
LEMMA RunGrows ==
  ASSUME NEW h, NEW n, NEW job, Run(h, n, job), ~Finished(h[n]),
         DOMAIN Stepped(h[n]) = Fields, Stepped(h[n]).pc \in Working
  PROVE  \E g, m : Run(g, m, job) /\ g[m] = Stepped(h[n])
<1>. DEFINE g == [k \in 0 .. n + 1 |-> IF k = n + 1 THEN Stepped(h[n]) ELSE h[k]]
<1>1. n \in Nat
  BY DEF Run
<1>2. g[n + 1] = Stepped(h[n]) /\ \A k \in 0 .. n : g[k] = h[k]
  BY <1>1
<1>. HIDE DEF g
<1>3. Begins(g[0], job)
  BY <1>1, <1>2 DEF Run
<1>4. ASSUME NEW k \in 0 .. n + 1 PROVE DOMAIN g[k] = Fields /\ g[k].pc \in Working
  <2>1. CASE k = n + 1
    BY <1>2, <2>1
  <2>2. CASE k \in 0 .. n
    BY <1>2, <2>2 DEF Run
  <2>. QED BY <1>1, <2>1, <2>2
<1>5. ASSUME NEW k \in 0 .. (n + 1) - 1 PROVE ~Finished(g[k]) /\ g[k + 1] = Stepped(g[k])
  <2>1. CASE k = n
    <3>1. g[k] = h[n] /\ g[k + 1] = Stepped(h[n])
      BY <1>1, <1>2, <2>1
    <3>. QED BY <3>1
  <2>2. CASE k \in 0 .. n - 1
    <3>1. g[k] = h[k] /\ g[k + 1] = h[k + 1]
      BY <1>1, <1>2, <2>2
    <3>. QED BY <2>2, <3>1 DEF Run
  <2>. QED BY <1>1, <2>1, <2>2
<1>6. Run(g, n + 1, job)
  BY <1>1, <1>3, <1>4, <1>5 DEF Run
<1>. QED BY <1>2, <1>6

(* Two runs of a job are alike as far as both go.                          *)
LEMMA RunsAlike ==
  ASSUME NEW h, NEW n, NEW g, NEW m, NEW job, Run(h, n, job), Run(g, m, job),
         NEW k \in Nat, k <= n, k <= m
  PROVE  OnAlike(h[k], g[k])
<1>1. n \in Nat /\ m \in Nat
  BY DEF Run
<1>. DEFINE S == {j \in 0 .. k : OnAlike(h[j], g[j])}
<1>2. 0 \in S
  BY DEF Run, Begins, OnAlike, Alike
<1>3. \A j \in 0 .. k - 1 : j \in S => j + 1 \in S
  <2>1. TAKE j \in 0 .. k - 1
  <2>2. HAVE j \in S
  <2>3. j \in 0 .. n - 1 /\ j \in 0 .. m - 1 /\ j \in 0 .. n /\ j + 1 \in 0 .. k
    BY <1>1
  <2>4. h[j + 1] = Stepped(h[j]) /\ g[j + 1] = Stepped(g[j]) /\ h[j].pc \in Working
    BY <2>3 DEF Run
  <2>5. OnAlike(Stepped(h[j]), Stepped(g[j]))
    BY <2>2, <2>4, SteppedAlike
  <2>. QED BY <2>3, <2>4, <2>5
<1>4. \A j \in 0 .. k : j \in S
  <2>. HIDE DEF S
  <2>1. 0 \in Int /\ k \in Int
    OBVIOUS
  <2>. QED BY <1>2, <1>3, <2>1, UpTo
<1>5. k \in S
  BY <1>4
<1>. QED BY <1>5

(* Two runs of a job that end put out as much.                             *)
LEMMA RunsEnd ==
  ASSUME NEW h, NEW n, NEW g, NEW m, NEW job, Run(h, n, job), Run(g, m, job),
         Finished(h[n]), Finished(g[m])
  PROVE  h[n].str = g[m].str
<1>1. n \in Nat /\ m \in Nat
  BY DEF Run
<1>2. CASE n < m
  <2>1. OnAlike(h[n], g[n])
    BY <1>1, <1>2, RunsAlike
  <2>2. Finished(g[n])
    BY <2>1 DEF OnAlike, Alike, Finished
  <2>3. n \in 0 .. m - 1
    BY <1>1, <1>2
  <2>. QED BY <2>2, <2>3 DEF Run
<1>3. CASE m < n
  <2>1. OnAlike(h[m], g[m])
    BY <1>1, <1>3, RunsAlike
  <2>2. Finished(h[m])
    BY <2>1 DEF OnAlike, Alike, Finished
  <2>3. m \in 0 .. n - 1
    BY <1>1, <1>3
  <2>. QED BY <2>2, <2>3 DEF Run
<1>4. CASE m = n
  <2>1. OnAlike(h[n], g[n])
    BY <1>1, <1>4, RunsAlike
  <2>. QED BY <1>4, <2>1 DEF OnAlike, Alike
<1>. QED BY <1>1, <1>2, <1>3, <1>4

-----------------------------------------------------------------------------
(* The buffer. *)

(* The callers tell the true size of their buffer, or less.                *)
TrueSizes == \A job \in Jobs : job.size <= job.room

(* The job is on a run; the second time over, the buffer is as long as a   *)
(* run of the job made the text.                                           *)
OnRun(f) == \E h, n : Run(h, n, f.job) /\ h[n] = f
Measured(f) == \E h, n : Run(h, n, f.job) /\ Finished(h[n]) /\ f.size = h[n].str + 1

(* The invariant: a call that works is on a run of its job, with its types *)
(* and its buffer kept; one that is done has left what BufferExact says.   *)
FormatInv ==
  /\ DOMAIN fs = Fields
  /\ fs.pc \in Working \cup {"idle", "done"}
  /\ fs.measured \in BOOLEAN
  /\ fs.pc = "idle" => fs.measured = FALSE /\ fs.width \in Int /\ fs.precision \in Int
  /\ fs.pc \in Working => /\ fs.job \in Jobs /\ Typed(fs) /\ Holds(fs) /\ OnRun(fs)
                          /\ fs.measured = TRUE => Measured(fs)
  /\ BufferExact

(* It holds at first.                                                      *)
LEMMA InitKeepsBuffer == FormatInit => FormatInv
<1>1. ASSUME FormatInit PROVE FormatInv
  <2>1. /\ DOMAIN fs = Fields /\ fs.pc = "idle" /\ fs.measured = FALSE /\ fs.width = -1
        /\ fs.precision = -1
    BY <1>1 DEF FormatInit, Fields
  <2>2. fs.pc \notin Working /\ ~Done
    BY <2>1 DEF Working, Done
  <2>3. BufferExact
    BY <2>2 DEF BufferExact
  <2>4. fs.width \in Int /\ fs.precision \in Int
    BY <2>1
  <2>. QED BY <2>1, <2>2, <2>3, <2>4 DEF FormatInv
<1>. QED BY <1>1

(* A call that begins.                                                     *)
LEMMA BeginIs ==
  ASSUME NEW f, NEW size \in Nat, NEW room, DOMAIN f = Fields, f.job \in Jobs,
         f.width \in Int, f.precision \in Int, room \in Nat, size <= room,
         f.buf = [i \in 0 .. room - 1 |-> "?"]
  PROVE  /\ Typed(Begin(f, size)) /\ Holds(Begin(f, size)) /\ Begins(Begin(f, size), f.job)
         /\ Begin(f, size).job = f.job /\ Begin(f, size).size = size
         /\ Begin(f, size).measured = f.measured
<1>. DEFINE b == Begin(f, size)
<1>1. /\ DOMAIN b = Fields /\ b.pc = "text" /\ b.fmt = f.job.fmt /\ b.args = f.job.args /\ b.str = 0
      /\ b.size = size /\ b.text = <<>> /\ b.width = f.width /\ b.precision = f.precision
      /\ b.buf = f.buf /\ b.job = f.job /\ b.measured = f.measured
  BY DEF Begin, Fields
<1>. HIDE DEF b
<1>2. b.fmt \in Seq(STRING)
  BY <1>1, FormatJobs
<1>3. b.text \in Seq(Chars) /\ b.str = Len(b.text)
  BY <1>1, EmptySeq
<1>4. Typed(b)
  BY <1>1, <1>2, <1>3 DEF Typed
<1>5. Holds(b)
  BY <1>1 DEF Holds
<1>6. Begins(b, f.job)
  BY <1>1 DEF Begins
<1>. QED BY <1>1, <1>4, <1>5, <1>6 DEF b

(* A call that begins keeps it: the buffer is new and its size true.       *)
LEMMA CallKeepsBuffer ==
  ASSUME TrueSizes, FormatInv, Call
  PROVE  FormatInv'
<1>1. PICK job \in Jobs :
        fs' = Begin([fs EXCEPT !.job = job, !.buf = [i \in 0 .. job.room - 1 |-> "?"]],
                    IF job.fn = "vasprintf" THEN 0 ELSE job.size)
  BY DEF Call
<1>. DEFINE f == [fs EXCEPT !.job = job, !.buf = [i \in 0 .. job.room - 1 |-> "?"]]
            size == IF job.fn = "vasprintf" THEN 0 ELSE job.size
<1>2. /\ DOMAIN f = Fields /\ f.job = job /\ f.buf = [i \in 0 .. job.room - 1 |-> "?"]
      /\ f.width \in Int /\ f.precision \in Int /\ f.measured = FALSE
  BY DEF FormatInv, Call, Fields
<1>3. job.room \in Nat /\ job.size \in Nat /\ job.size <= job.room
  BY FormatJobs DEF TrueSizes
<1>4. size \in Nat /\ size <= job.room
  BY <1>3
<1>. HIDE DEF f, size
<1>5. fs' = Begin(f, size)
  BY <1>1 DEF f, size
<1>6. /\ Typed(Begin(f, size)) /\ Holds(Begin(f, size)) /\ Begins(Begin(f, size), f.job)
      /\ Begin(f, size).job = f.job /\ Begin(f, size).measured = f.measured
  BY <1>2, <1>3, <1>4, BeginIs
<1>7. OnRun(Begin(f, size))
  BY <1>6, RunBegins DEF OnRun
<1>8. /\ DOMAIN fs' = Fields /\ fs'.pc = "text" /\ fs'.measured = FALSE /\ fs'.job \in Jobs
      /\ Typed(fs') /\ Holds(fs') /\ OnRun(fs')
  BY <1>2, <1>5, <1>6, <1>7 DEF Begins
<1>9. BufferExact'
  BY <1>8 DEF BufferExact, Done
<1>. QED BY <1>8, <1>9 DEF FormatInv, Working

(* A step in the format keeps it.                                          *)
LEMMA StepKeepsBuffer ==
  ASSUME FormatInv, fs.pc \in Working, ~Finished(fs), ArgFits(fs), fs' = Stepped(fs)
  PROVE  FormatInv'
<1>1. Typed(fs) /\ Holds(fs) /\ fs.job \in Jobs /\ OnRun(fs) /\ fs.measured \in BOOLEAN
  BY DEF FormatInv
<1>2. GoesOn(fs, Stepped(fs))
  BY <1>1, SteppedKeeps
<1>3. /\ Typed(fs') /\ Holds(fs') /\ fs'.pc \in Working /\ fs'.job = fs.job
      /\ fs'.measured = fs.measured /\ fs'.size = fs.size
  BY <1>2 DEF GoesOn
<1>4. OnRun(fs')
  <2>1. PICK h, n : Run(h, n, fs.job) /\ h[n] = fs
    BY <1>1 DEF OnRun
  <2>2. DOMAIN Stepped(fs) = Fields /\ Stepped(fs).pc \in Working
    BY <1>2 DEF GoesOn, Typed
  <2>3. \E g, m : Run(g, m, fs.job) /\ g[m] = Stepped(fs)
    BY <2>1, <2>2, RunGrows
  <2>. QED BY <1>3, <2>3 DEF OnRun
<1>5. fs'.measured = TRUE => Measured(fs')
  <2>1. fs'.measured = TRUE => Measured(fs)
    BY <1>3 DEF FormatInv
  <2>. QED BY <1>3, <2>1 DEF Measured
<1>6. BufferExact'
  BY <1>3 DEF BufferExact, Done, Working
<1>7. DOMAIN fs' = Fields /\ fs'.pc \in Working \cup {"idle", "done"} /\ fs'.pc # "idle"
  BY <1>3 DEF Typed, Working
<1>. QED BY <1>1, <1>3, <1>4, <1>5, <1>6, <1>7 DEF FormatInv

(* The end of the format: what vsnprintf() leaves in the buffer.           *)
Kept(f) == IF f.str < f.size THEN f.str ELSE f.size - 1

(* The NUL that ends the text goes behind the text, or over its last       *)
(* character, and nothing else changes.                                    *)
LEMMA TerminatedIs ==
  ASSUME NEW f, Typed(f), Holds(f)
  PROVE  /\ DOMAIN Terminated(f) = Fields /\ Terminated(f).str = f.str /\ Terminated(f).text = f.text
         /\ Terminated(f).size = f.size /\ Terminated(f).job = f.job
         /\ Terminated(f).measured = f.measured /\ Terminated(f).width = f.width
         /\ Terminated(f).precision = f.precision /\ Terminated(f).fmt = f.fmt
         /\ f.size > 0 => /\ \A i \in 0 .. Kept(f) - 1 : Terminated(f).buf[i] = f.text[i + 1]
                          /\ Terminated(f).buf[Kept(f)] = "NUL"
                          /\ \A i \in DOMAIN Terminated(f).buf : i > Kept(f) => Terminated(f).buf[i] = "?"
<1>. DEFINE t == Terminated(f)
<1>0. DOMAIN f = Fields /\ f.size \in Nat /\ f.str \in Nat
  BY LenProperties DEF Typed
<1>1. CASE f.size = 0
  <2>1. t = f
    BY <1>1 DEF Terminated
  <2>. QED BY <1>0, <1>1, <2>1
<1>2. CASE f.size > 0
  <2>1. Kept(f) \in 0 .. f.size - 1 /\ Kept(f) <= f.str
    BY <1>0, <1>2 DEF Kept
  <2>2. /\ AllBut(f, t, {"buf", "written"})
        /\ t.buf = [i \in DOMAIN f.buf |-> IF i = Kept(f) THEN "NUL" ELSE f.buf[i]]
    <3>1. t = [f EXCEPT !.buf = [i \in DOMAIN @ |-> IF i = Kept(f) THEN "NUL" ELSE @[i]],
                        !.written = Greater(@, Kept(f) + 1)]
      BY <1>2 DEF Terminated, Kept
    <3>. HIDE DEF t
    <3>. QED BY <1>0, <3>1 DEF AllBut, Fields
  <2>. HIDE DEF t
  <2>3. /\ DOMAIN t = Fields /\ t.str = f.str /\ t.text = f.text /\ t.size = f.size /\ t.job = f.job
        /\ t.measured = f.measured /\ t.width = f.width /\ t.precision = f.precision /\ t.fmt = f.fmt
    BY <2>2 DEF AllBut, Fields
  <2>4. ASSUME NEW i \in 0 .. Kept(f) - 1 PROVE t.buf[i] = f.text[i + 1]
    <3>1. i \in 0 .. f.size - 1 /\ i < f.size /\ i < f.str /\ i # Kept(f)
      BY <1>0, <2>1
    <3>2. i \in DOMAIN f.buf /\ f.buf[i] = f.text[i + 1]
      BY <3>1 DEF Holds
    <3>. QED BY <2>2, <3>1, <3>2
  <2>5. t.buf[Kept(f)] = "NUL"
    <3>1. Kept(f) \in DOMAIN f.buf
      BY <2>1 DEF Holds
    <3>. QED BY <2>2, <3>1
  <2>6. ASSUME NEW i \in DOMAIN t.buf, i > Kept(f) PROVE t.buf[i] = "?"
    <3>1. i \in DOMAIN f.buf
      BY <2>2
    <3>2. i \in Nat /\ f.buf[i] = IF i < f.size /\ i < f.str THEN f.text[i + 1] ELSE "?"
      BY <3>1 DEF Holds
    <3>3. ~(i < f.size /\ i < f.str) /\ i # Kept(f)
      BY <1>0, <2>1, <2>6, <3>2 DEF Kept
    <3>. QED BY <2>2, <3>1, <3>2, <3>3
  <2>. QED BY <2>3, <2>4, <2>5, <2>6 DEF t
<1>. QED BY <1>0, <1>1, <1>2

(* What a call has done that ends.                                         *)
LEMMA DoneIs ==
  ASSUME NEW t, DOMAIN t = Fields, NEW ret
  PROVE  LET d == [t EXCEPT !.pc = "done", !.ret = ret] IN
         /\ DOMAIN d = Fields /\ d.pc = "done" /\ d.ret = ret /\ d.text = t.text /\ d.size = t.size
         /\ d.buf = t.buf /\ d.job = t.job /\ d.measured = t.measured
BY DEF Fields

(* The end of the format keeps it: the call is done, or vasprintf() begins *)
(* the second time with a buffer of the length that was measured.          *)
LEMMA EndKeepsBuffer ==
  ASSUME FormatInv, End
  PROVE  FormatInv'
<1>. DEFINE t == Terminated(fs)
            kept == Kept(fs)
<1>1. /\ fs.pc \in Working /\ Finished(fs)
  BY DEF End, Finished, Working
<1>2. /\ Typed(fs) /\ Holds(fs) /\ fs.job \in Jobs /\ OnRun(fs) /\ fs.measured \in BOOLEAN
      /\ fs.measured = TRUE => Measured(fs)
  BY <1>1 DEF FormatInv
<1>3. /\ DOMAIN t = Fields /\ t.str = fs.str /\ t.text = fs.text /\ t.size = fs.size /\ t.job = fs.job
      /\ t.measured = fs.measured /\ t.width = fs.width /\ t.precision = fs.precision
      /\ fs.size > 0 => /\ \A i \in 0 .. kept - 1 : t.buf[i] = fs.text[i + 1]
                        /\ t.buf[kept] = "NUL"
                        /\ \A i \in DOMAIN t.buf : i > kept => t.buf[i] = "?"
  BY <1>2, TerminatedIs
<1>4. /\ fs.text \in Seq(Chars) /\ fs.str = Len(fs.text) /\ fs.str \in Nat /\ fs.size \in Nat
      /\ fs.width \in Int /\ fs.precision \in Int
  BY <1>2, LenProperties DEF Typed
<1>5. \/ fs.job.fn = "vscnprintf" /\ fs' = [t EXCEPT !.pc = "done", !.ret = kept]
      \/ fs.job.fn = "vasprintf" /\ fs.measured = FALSE /\ fs' = [t EXCEPT !.pc = "done", !.ret = -1, !.text = <<>>]
      \/ /\ fs.job.fn = "vasprintf" /\ fs.measured = FALSE
         /\ fs' = Begin([t EXCEPT !.measured = TRUE, !.buf = [i \in 0 .. t.str |-> "?"]], t.str + 1)
      \/ /\ fs.job.fn # "vscnprintf" /\ (fs.job.fn = "vasprintf" => fs.measured = TRUE)
         /\ fs' = [t EXCEPT !.pc = "done", !.ret = t.str]
  <2>. DEFINE done == [t EXCEPT !.pc = "done", !.ret = t.str]
              cut == IF t.str >= t.size THEN t.size - 1 ELSE t.str
              begun == Begin([t EXCEPT !.measured = TRUE, !.buf = [i \in 0 .. t.str |-> "?"]], t.str + 1)
  <2>1. CASE fs.job.fn = "vscnprintf"
    <3>1. fs' = [done EXCEPT !.ret = cut]
      BY <2>1 DEF End
    <3>2. cut = kept
      BY <1>3, <1>4 DEF Kept
    <3>3. [done EXCEPT !.ret = kept] = [t EXCEPT !.pc = "done", !.ret = kept]
      <4>. HIDE DEF t, kept
      <4>. QED BY <1>3 DEF Fields
    <3>. QED BY <2>1, <3>1, <3>2, <3>3
  <2>2. CASE fs.job.fn = "vasprintf" /\ ~fs.measured
    <3>1. \/ fs' = [done EXCEPT !.ret = -1, !.text = <<>>]
          \/ fs' = begun
      BY <2>2 DEF End
    <3>2. [done EXCEPT !.ret = -1, !.text = <<>>] = [t EXCEPT !.pc = "done", !.ret = -1, !.text = <<>>]
      <4>. HIDE DEF t
      <4>. QED BY <1>3 DEF Fields
    <3>3. fs.measured = FALSE
      BY <1>2, <2>2
    <3>. HIDE DEF begun, done
    <3>. QED BY <2>2, <3>1, <3>2, <3>3 DEF begun
  <2>3. CASE fs.job.fn # "vscnprintf" /\ ~(fs.job.fn = "vasprintf" /\ ~fs.measured)
    <3>1. fs' = done
      BY <2>3 DEF End
    <3>2. fs.job.fn = "vasprintf" => fs.measured = TRUE
      BY <1>2, <2>3
    <3>. QED BY <2>3, <3>1, <3>2
  <2>. QED BY <2>1, <2>2, <2>3
<1>. HIDE DEF t
<1>6. ASSUME NEW ret, fs' = [t EXCEPT !.pc = "done", !.ret = ret],
             ret = IF fs.job.fn = "vscnprintf" THEN kept ELSE fs.str,
             fs.job.fn = "vasprintf" => fs.measured = TRUE
      PROVE  FormatInv'
  <2>1. /\ DOMAIN fs' = Fields /\ fs'.pc = "done" /\ fs'.ret = ret /\ fs'.text = fs.text
        /\ fs'.size = fs.size /\ fs'.buf = t.buf /\ fs'.job = fs.job /\ fs'.measured = fs.measured
    BY <1>3, <1>6, DoneIs
  <2>2. ASSUME fs.size > 0
        PROVE  /\ \A i \in 0 .. kept - 1 : fs'.buf[i] = fs'.text[i + 1]
               /\ fs'.buf[kept] = "NUL"
               /\ \A i \in DOMAIN fs'.buf : i > kept => fs'.buf[i] = "?"
               /\ fs'.ret = IF fs'.job.fn = "vscnprintf" THEN kept ELSE Len(fs'.text)
               /\ fs'.job.fn = "vasprintf" => kept = Len(fs'.text)
    <3>1. ASSUME fs.job.fn = "vasprintf" PROVE kept = Len(fs.text)
      <4>1. Measured(fs)
        BY <1>2, <1>6, <3>1
      <4>2. PICK h, n : Run(h, n, fs.job) /\ Finished(h[n]) /\ fs.size = h[n].str + 1
        BY <4>1 DEF Measured
      <4>3. PICK g, m : Run(g, m, fs.job) /\ g[m] = fs
        BY <1>2 DEF OnRun
      <4>4. h[n].str = fs.str
        BY <1>1, <4>2, <4>3, RunsEnd
      <4>. QED BY <1>4, <4>2, <4>4 DEF Kept
    <3>. QED BY <1>3, <1>4, <1>6, <2>1, <2>2, <3>1
  <2>3. kept = IF Len(fs'.text) < fs'.size THEN Len(fs'.text) ELSE fs'.size - 1
    BY <1>4, <2>1 DEF Kept
  <2>4. BufferExact'
    <3>. HIDE DEF kept
    <3>. QED BY <2>1, <2>2, <2>3 DEF BufferExact
  <2>5. fs'.pc \notin Working /\ fs'.pc # "idle"
    BY <2>1 DEF Working
  <2>. QED BY <1>2, <2>1, <2>4, <2>5 DEF FormatInv
<1>7. CASE fs.job.fn = "vscnprintf" /\ fs' = [t EXCEPT !.pc = "done", !.ret = kept]
  BY <1>6, <1>7
<1>8. CASE /\ fs.job.fn # "vscnprintf" /\ (fs.job.fn = "vasprintf" => fs.measured = TRUE)
           /\ fs' = [t EXCEPT !.pc = "done", !.ret = t.str]
  BY <1>3, <1>6, <1>8
<1>9. CASE fs' = [t EXCEPT !.pc = "done", !.ret = -1, !.text = <<>>]
  <2>1. DOMAIN fs' = Fields /\ fs'.pc = "done" /\ fs'.ret = -1 /\ fs'.measured = fs.measured
    BY <1>3, <1>9 DEF Fields
  <2>2. BufferExact'
    BY <2>1 DEF BufferExact, Failed
  <2>3. fs'.pc \notin Working /\ fs'.pc # "idle"
    BY <2>1 DEF Working
  <2>. QED BY <1>2, <2>1, <2>2, <2>3 DEF FormatInv
<1>10. CASE fs' = Begin([t EXCEPT !.measured = TRUE, !.buf = [i \in 0 .. t.str |-> "?"]], t.str + 1)
  <2>. DEFINE f == [t EXCEPT !.measured = TRUE, !.buf = [i \in 0 .. t.str |-> "?"]]
              size == t.str + 1
              b == Begin(f, size)
  <2>1. /\ DOMAIN f = Fields /\ f.job = fs.job /\ f.measured = TRUE /\ f.width \in Int
        /\ f.precision \in Int /\ f.buf = [i \in 0 .. fs.str |-> "?"]
    BY <1>3, <1>4 DEF Fields
  <2>2. size \in Nat /\ size = fs.str + 1 /\ fs.str = size - 1
    BY <1>3, <1>4
  <2>3. fs' = b
    BY <1>10
  <2>. HIDE DEF f, size
  <2>4. /\ Typed(b) /\ Holds(b) /\ Begins(b, f.job) /\ b.job = f.job /\ b.size = size
        /\ b.measured = f.measured
    <3>1. f.buf = [i \in 0 .. size - 1 |-> "?"] /\ size <= size
      BY <2>1, <2>2
    <3>. QED BY <1>2, <2>1, <2>2, <3>1, BeginIs
  <2>. HIDE DEF b
  <2>5. OnRun(b)
    BY <2>4, RunBegins DEF OnRun
  <2>6. Measured(b)
    <3>1. PICK h, n : Run(h, n, fs.job) /\ h[n] = fs
      BY <1>2 DEF OnRun
    <3>2. Finished(h[n]) /\ b.size = h[n].str + 1
      BY <1>1, <2>2, <2>4, <3>1
    <3>. QED BY <2>1, <2>4, <3>1, <3>2 DEF Measured
  <2>7. DOMAIN b = Fields /\ b.pc = "text" /\ b.measured = TRUE /\ b.job \in Jobs
    BY <1>2, <2>1, <2>4 DEF Begins
  <2>8. BufferExact'
    BY <2>3, <2>7 DEF BufferExact, Done
  <2>. QED BY <2>3, <2>4, <2>5, <2>6, <2>7, <2>8 DEF FormatInv, Working
<1>. QED BY <1>5, <1>7, <1>8, <1>9, <1>10

(* Whatever the format and its arguments, as long as each directive finds  *)
(* one of its kind, and whatever the size of the buffer, as long as it is  *)
(* not larger than the buffer (printf() and sprintf() do not keep to       *)
(* that): vsnprintf() leaves in the buffer as much of the text as there is *)
(* room for and a NUL, writes nothing behind it and returns the length of  *)
(* the whole text, vscnprintf() that of the text in the buffer, and        *)
(* vasprintf() has the whole text in the buffer it allocates.              *)
THEOREM BufferHoldsText ==
  TrueSizes => (FormatSpec /\ []ArgFits(fs) => []BufferExact)
<1>. SUFFICES ASSUME TrueSizes PROVE FormatSpec /\ []ArgFits(fs) => []BufferExact
  OBVIOUS
<1>1. FormatInit => FormatInv
  BY InitKeepsBuffer
<1>2. FormatInv /\ ArgFits(fs) /\ [FormatNext]_fs => FormatInv'
  <2>1. SUFFICES ASSUME FormatInv, ArgFits(fs), [FormatNext]_fs PROVE FormatInv'
    OBVIOUS
  <2>2. CASE Call
    BY <2>1, <2>2, CallKeepsBuffer
  <2>3. CASE Text
    <3>1. fs.pc \in Working /\ ~Finished(fs) /\ fs' = Stepped(fs)
      BY <2>3 DEF Text, Working, Finished, Stepped
    <3>. QED BY <2>1, <3>1, StepKeepsBuffer
  <2>4. CASE Flags
    <3>1. fs.pc \in Working /\ ~Finished(fs) /\ fs' = Stepped(fs)
      BY <2>4 DEF Flags, Working, Finished, Stepped
    <3>. QED BY <2>1, <3>1, StepKeepsBuffer
  <2>5. CASE FieldWidth
    <3>1. fs.pc \in Working /\ ~Finished(fs) /\ fs' = Stepped(fs)
      BY <2>5 DEF FieldWidth, Working, Finished, Stepped
    <3>. QED BY <2>1, <3>1, StepKeepsBuffer
  <2>6. CASE Dot
    <3>1. fs.pc \in Working /\ ~Finished(fs) /\ fs' = Stepped(fs)
      BY <2>6 DEF Dot, Working, Finished, Stepped
    <3>. QED BY <2>1, <3>1, StepKeepsBuffer
  <2>7. CASE Precision
    <3>1. fs.pc \in Working /\ ~Finished(fs) /\ fs' = Stepped(fs)
      BY <2>7 DEF Precision, Working, Finished, Stepped
    <3>. QED BY <2>1, <3>1, StepKeepsBuffer
  <2>8. CASE Qualifier
    <3>1. fs.pc \in Working /\ ~Finished(fs) /\ fs' = Stepped(fs)
      BY <2>8 DEF Qualifier, Working, Finished, Stepped
    <3>. QED BY <2>1, <3>1, StepKeepsBuffer
  <2>9. CASE ConvertNumber
    <3>1. fs.pc \in Working /\ ~Finished(fs) /\ fs' = Stepped(fs)
      BY <2>9 DEF ConvertNumber, Working, Finished, Stepped
    <3>. QED BY <2>1, <3>1, StepKeepsBuffer
  <2>10. CASE ConvertOther
    <3>1. fs.pc \in Working /\ ~Finished(fs) /\ fs' = Stepped(fs)
      BY <2>10 DEF ConvertOther, Working, Finished, Stepped
    <3>. QED BY <2>1, <3>1, StepKeepsBuffer
  <2>11. CASE End
    BY <2>1, <2>11, EndKeepsBuffer
  <2>12. CASE UNCHANGED fs
    <3>. QED BY <2>1, <2>12 DEF FormatInv, BufferExact, Done, Failed
  <2>. QED BY <2>1, <2>2, <2>3, <2>4, <2>5, <2>6, <2>7, <2>8, <2>9, <2>10, <2>11, <2>12 DEF FormatNext
<1>3. FormatInv => BufferExact
  BY DEF FormatInv
<1>. QED BY <1>1, <1>2, <1>3, PTL DEF FormatSpec
================================================================================
