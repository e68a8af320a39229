-------------------------------- MODULE Arith ---------------------------------
(***************************************************************************)
(* The arithmetic the compiler calls for: 64 bit products, quotients and   *)
(* shifts made of 32 bit words, division and multiplication by shifting,   *)
(* the bit scans, and the conversion of a number typed by the user.  A     *)
(* word of the code, 32 bits, has 2 * HalfBits here, and a long long twice *)
(* as many.                                                                *)
(***************************************************************************)
EXTENDS Bits, Sequences

CONSTANT HalfBits          \* bits of half a word

(* The bit scans halve a word until one bit is left.                       *)
ASSUME HalfWord == HalfBits \in Nat /\ \E e \in 0 .. HalfBits : HalfBits = Pow2[e]

VARIABLE calc              \* a call: function, arguments, result

W == 2 * HalfBits
D == 2 * W
Wide(w) == 0 .. Pow2[w] - 1
LowPart(x, w) == x % Pow2[w]
HighPart(x, w) == x \div Pow2[w]
Neg(x, w) == (-x) % Pow2[w]
Signed(x, w) == IF x < Pow2[w - 1] THEN x ELSE x - Pow2[w]
IntMin(w) == Pow2[w - 1]    \* INT_MIN

-----------------------------------------------------------------------------
(* Quotient and remainder by shifting, in registers of w bits: the divisor *)
(* b is doubled until it would not fit or is no longer below the dividend. *)

Registers == [w : Nat \ {0}, rem : Nat, b : Nat, d : Nat, res : Nat]

Scale[r \in Registers] ==
  IF Signed(r.b, r.w) > 0 /\ r.b < r.rem THEN Scale[[r EXCEPT !.b = @ + @, !.d = @ + @]] ELSE r

Subtract[r \in Registers] ==
  LET s == IF r.rem >= r.b THEN [r EXCEPT !.rem = @ - r.b, !.res = @ + r.d] ELSE r
      t == [s EXCEPT !.b = @ \div 2, !.d = @ \div 2]
  IN IF t.d = 0 THEN t ELSE Subtract[t]

Shifting(w, rem, b, res) ==
  LET r == Subtract[Scale[[w |-> w, rem |-> rem, b |-> b, d |-> 1, res |-> res]]]
  IN <<r.res, r.rem>>

(* __udivdi3: quotient and remainder in two registers. *)
UDiv(a, b) == IF b = 0 THEN <<Pow2[W] - 1, a>> ELSE Shifting(W, a, b, 0)

(* __divdi3 comes back to itself with the operands made positive.  INT_MIN *)
(* stays negative, and it would come back for ever.                        *)
Div(a, b) ==
  LET up(x) == IF Signed(x, W) < 0 THEN Neg(x, W) ELSE x
      q == UDiv(up(a), up(b))[1]
  IN IF (Signed(a, W) < 0) = (Signed(b, W) < 0) THEN q ELSE Neg(q, W)

Mod(a, b) ==
  LET d == IF Signed(b, W) < 0 THEN Neg(b, W) ELSE b
  IN IF Signed(a, W) < 0 THEN Neg(UDiv(Neg(a, W), d)[2], W) ELSE UDiv(a, d)[2]

(* __div64_32(), the high word divided first. *)
Div64(n, base) ==
  LET high == HighPart(n, W)
      h == IF high >= base THEN high \div base ELSE 0
  IN Shifting(D, n - h * base * Pow2[W], base, h * Pow2[W])

DoDiv(n, base) == IF HighPart(n, W) = 0 THEN <<n \div base, n % base>> ELSE Div64(n, base)

-----------------------------------------------------------------------------
(* Products. *)

Factors == [a : Nat, b : Nat, res : Nat]

MulSi[f \in Factors] ==
  IF f.a = 0 THEN f.res
  ELSE MulSi[[a |-> f.a \div 2, b |-> LowPart(f.b + f.b, W),
              res |-> IF f.a % 2 = 1 THEN LowPart(f.res + f.b, W) ELSE f.res]]

(* umul_ppmm(): four partial products; x1 + x2 may carry. *)
MulPpmmBug(u, v) ==
  LET ul == LowPart(u, HalfBits)   uh == HighPart(u, HalfBits)
      vl == LowPart(v, HalfBits)   vh == HighPart(v, HalfBits)
      x1 == LowPart(ul * vh + HighPart(ul * vl, HalfBits) + uh * vl, W)
  IN <<LowPart(uh * vh + HighPart(x1, HalfBits), W),
       LowPart(LowPart(x1, HalfBits) * Pow2[HalfBits] + LowPart(ul * vl, HalfBits), W)>>

MulPpmm(u, v) ==
  LET ul == LowPart(u, HalfBits)   uh == HighPart(u, HalfBits)
      vl == LowPart(v, HalfBits)   vh == HighPart(v, HalfBits)
      x1 == LowPart(ul * vh + HighPart(ul * vl, HalfBits) + uh * vl, W)
      x3 == uh * vh + (IF x1 < uh * vl THEN Pow2[HalfBits] ELSE 0)
  IN <<LowPart(x3 + HighPart(x1, HalfBits), W),
       LowPart(LowPart(x1, HalfBits) * Pow2[HalfBits] + LowPart(ul * vl, HalfBits), W)>>

MulDi(u, v) ==
  LET w == MulPpmm(LowPart(u, W), LowPart(v, W))
      high == w[1] + LowPart(u, W) * HighPart(v, W) + HighPart(u, W) * LowPart(v, W)
  IN LowPart(high, W) * Pow2[W] + w[2]

-----------------------------------------------------------------------------
(* Shifts of a pair of words; a word is shifted by less than its width. *)

Shl(x, b) == LowPart(x * Pow2[b], W)
Shr(x, b) == x \div Pow2[b]

AshlDi(u, b) ==
  LET low == LowPart(u, W)   high == HighPart(u, W)
  IN IF b = 0 THEN u
     ELSE IF b >= W THEN Shl(low, b - W) * Pow2[W]
     ELSE (Shl(high, b) + Shr(low, W - b)) * Pow2[W] + Shl(low, b)

LshrDi(u, b) ==
  LET low == LowPart(u, W)   high == HighPart(u, W)
  IN IF b = 0 THEN u
     ELSE IF b >= W THEN Shr(high, b - W)
     ELSE Shr(high, b) * Pow2[W] + Shr(low, b) + Shl(high, W - b)

-----------------------------------------------------------------------------
(* Bit scans: the word is halved log2(w) times, by k bits each time, and n *)
(* bits are passed.  The calls below scan D bits where the code scans 32,  *)
(* for one halving more.                                                   *)

Scans == [w : Nat, x : Nat, k : Nat, n : Nat]
Halved(s, passes, x) ==
  LET t == IF passes THEN [s EXCEPT !.x = x, !.n = @ + s.k] ELSE s IN [t EXCEPT !.k = @ \div 2]

ScanLow[s \in Scans] ==
  IF s.k = 0 THEN s.n ELSE ScanLow[Halved(s, LowPart(s.x, s.k) = 0, Shr(s.x, s.k))]
ScanHigh[s \in Scans] ==
  IF s.k = 0 THEN s.n
  ELSE ScanHigh[Halved(s, HighPart(s.x, s.w - s.k) = 0, LowPart(s.x * Pow2[s.k], s.w))]

Scanned(w, x) == [w |-> w, x |-> x, k |-> w \div 2, n |-> 0]
FromLow(w, x) == ScanLow[Scanned(w, x)]
FromHigh(w, x) == ScanHigh[Scanned(w, x)]

Ffs(w, x) == IF x = 0 THEN 0 ELSE 1 + FromLow(w, x)
Fls(w, x) == IF x = 0 THEN 0 ELSE w - FromHigh(w, x)
WordFfs(w, x) == FromLow(w, x)              \* __ffs(), x not 0
WordFls(w, x) == w - 1 - FromHigh(w, x)     \* __fls(), x not 0
Fls64(x) == IF HighPart(x, W) # 0 THEN Fls(W, HighPart(x, W)) + W ELSE Fls(W, LowPart(x, W))
Ffs64(x) == IF LowPart(x, W) = 0 THEN WordFfs(W, HighPart(x, W)) + W
            ELSE WordFfs(W, LowPart(x, W))
Clz(x) == D - Fls(D, x)
Ctz(x) == WordFfs(D, x)

-----------------------------------------------------------------------------
(* simple_strtoul() and simple_strtoull(), of w bits: <<value, characters  *)
(* taken>>.                                                                *)

CharsTyped == {"0", "1", "7", "9", "a", "F", "x", "g", "-"}
ValueOf == [c \in {"0", "1", "7", "9", "a", "F"} |->
                 CASE c = "0" -> 0 [] c = "1" -> 1 [] c = "7" -> 7 [] c = "9" -> 9
                   [] c = "a" -> 10 [] c = "F" -> 15]
At(s, k) == IF k <= Len(s) THEN s[k] ELSE "nul"
InBase(c, base) == c \in DOMAIN ValueOf /\ ValueOf[c] < base

Conversions == [w : Nat, s : Seq(CharsTyped), k : Nat \ {0}, base : Nat, result : Nat]

Convert[c \in Conversions] ==
  IF InBase(At(c.s, c.k), c.base)
  THEN Convert[[c EXCEPT !.k = @ + 1,
                         !.result = LowPart(@ * c.base + ValueOf[c.s[c.k]], c.w)]]
  ELSE <<c.result, c.k - 1>>

Strtoul(w, s, base) ==
  LET zero == At(s, 1) = "0"
      hex == zero /\ At(s, 2) = "x" /\ InBase(At(s, 3), 16)
      b == IF hex THEN 16 ELSE IF base # 0 THEN base ELSE IF zero THEN 8 ELSE 10
  IN Convert[[w |-> w, s |-> s, k |-> IF hex THEN 3 ELSE IF zero THEN 2 ELSE 1,
              base |-> b, result |-> 0]]

Strtol(w, s, base) ==
  IF At(s, 1) = "-" THEN LET n == Strtoul(w, Tail(s), base) IN <<Neg(n[1], w), n[2] + 1>>
  ELSE Strtoul(w, s, base)

-----------------------------------------------------------------------------
(* The calls.  No divisor is 0 and no operand of the signed quotient       *)
(* INT_MIN; a scan by __ffs() or __fls() is of a word with a bit.  The     *)
(* firmware converts with base 0.                                          *)

Numerals == UNION {[1 .. k -> CharsTyped] : k \in 0 .. 4}

Calls ==
  [fn : {"udiv", "mod"}, a : Wide(W), b : Wide(W) \ {0}]
    \cup [fn : {"div"}, a : Wide(W) \ {IntMin(W)}, b : Wide(W) \ {0, IntMin(W)}]
    \cup [fn : {"do_div"}, a : Wide(D), b : Wide(W) \ {0}]
    \cup [fn : {"mulsi3"}, a : Wide(W), b : Wide(W)]
    \cup [fn : {"muldi3"}, a : Wide(D), b : Wide(D)]
    \cup [fn : {"ashldi3", "lshrdi3"}, a : Wide(D), b : 0 .. D - 1]
    \cup [fn : {"ffs", "fls", "fls64"}, a : Wide(D), b : {0}]
    \cup [fn : {"__ffs", "__fls", "__ffs64", "clz", "ctz"}, a : Wide(D) \ {0}, b : {0}]
    \cup [fn : {"strtoul", "strtol", "strtoull", "strtoll"}, a : Numerals, b : {0, 16}]

ResultOf(fn, a, b) ==
  CASE fn = "udiv" -> UDiv(a, b)
    [] fn = "div" -> Div(a, b)
    [] fn = "mod" -> Mod(a, b)
    [] fn = "do_div" -> DoDiv(a, b)
    [] fn = "mulsi3" -> MulSi[[a |-> a, b |-> b, res |-> 0]]
    [] fn = "muldi3" -> MulDi(a, b)
    [] fn = "ashldi3" -> AshlDi(a, b)
    [] fn = "lshrdi3" -> LshrDi(a, b)
    [] fn = "ffs" -> Ffs(D, a)
    [] fn = "fls" -> Fls(D, a)
    [] fn = "fls64" -> Fls64(a)
    [] fn = "__ffs" -> WordFfs(D, a)
    [] fn = "__fls" -> WordFls(D, a)
    [] fn = "__ffs64" -> Ffs64(a)
    [] fn = "clz" -> Clz(a)
    [] fn = "ctz" -> Ctz(a)
    [] fn = "strtoul" -> Strtoul(W, a, b)
    [] fn = "strtol" -> Strtol(W, a, b)
    [] fn = "strtoull" -> Strtoul(D, a, b)
    [] fn = "strtoll" -> Strtol(D, a, b)

Awaiting(c) == [call |-> c, done |-> FALSE, result |-> 0]

ArithInit == \E c \in Calls : calc = Awaiting(c)

ArithNext == /\ ~ calc.done
             /\ calc' = [calc EXCEPT !.done = TRUE,
                                     !.result = ResultOf(calc.call.fn, calc.call.a, calc.call.b)]

ArithSpec == ArithInit /\ [][ArithNext]_calc

-----------------------------------------------------------------------------

SetBits(w, x) == {k \in 0 .. w - 1 : (x \div Pow2[k]) % 2 = 1}
Highest(S) == CHOOSE k \in S : \A j \in S : j <= k
Lowest(S) == CHOOSE k \in S : \A j \in S : k <= j
(* C division rounds to zero, whatever the signs. *)
Truncated(x, y) == LET abs(n) == IF n < 0 THEN -n ELSE n
                  IN IF (x < 0) = (y < 0) THEN abs(x) \div abs(y) ELSE -(abs(x) \div abs(y))

(* The longest numeral s begins with, in the base of its prefix, and its   *)
(* value: every digit by the power of the base of its place.               *)
PowersOf(b) == LET p[k \in Nat] == IF k = 0 THEN 1 ELSE b * p[k - 1] IN p
SumsOf(n, term) == LET sum[k \in 0 .. n] == IF k = 0 THEN 0 ELSE sum[k - 1] + term[k] IN sum
NumeralValue(s, i, b, n) ==
  SumsOf(n, [k \in 1 .. n |-> ValueOf[s[i + k]] * PowersOf(b)[n - k]])[n]

NumeralIn(w, s, base) ==
  LET digits(i, b) == {n \in 0 .. Len(s) - i : \A k \in 1 .. n : InBase(s[i + k], b)}
      hex == Len(s) >= 3 /\ s[1] = "0" /\ s[2] = "x" /\ Highest(digits(2, 16)) > 0
      b == IF hex \/ base = 16 THEN 16 ELSE IF Len(s) >= 1 /\ s[1] = "0" THEN 8 ELSE 10
      i == IF hex THEN 2 ELSE 0
      n == Highest(digits(i, b))
  IN <<NumeralValue(s, i, b, n) % Pow2[w], i + n>>

(* Every function returns what its name says, exactly, modulo the width of *)
(* its result: carries between partial products and between words, shifts  *)
(* by whole words, divisors that cannot be doubled again, scans of words   *)
(* with one bit at either end, numbers too long for the type.              *)
ArithExact ==
  LET fn == calc.call.fn   a == calc.call.a   b == calc.call.b   r == calc.result
      bits == SetBits(D, a)
  IN calc.done =>
     CASE fn \in {"udiv", "do_div"} -> r = <<a \div b, a % b>>
       [] fn = "div" -> Signed(r, W) = Truncated(Signed(a, W), Signed(b, W))
       [] fn = "mod" -> Signed(r, W) = Signed(a, W)
                          - Truncated(Signed(a, W), Signed(b, W)) * Signed(b, W)
       [] fn = "mulsi3" -> r = (a * b) % Pow2[W]
       [] fn = "muldi3" -> r = (a * b) % Pow2[D]
       [] fn = "ashldi3" -> r = (a * Pow2[b]) % Pow2[D]
       [] fn = "lshrdi3" -> r = a \div Pow2[b]
       [] fn = "ffs" -> r = IF a = 0 THEN 0 ELSE Lowest(bits) + 1
       [] fn \in {"fls", "fls64"} -> r = IF a = 0 THEN 0 ELSE Highest(bits) + 1
       [] fn \in {"__ffs", "__ffs64", "ctz"} -> r = Lowest(bits)
       [] fn = "__fls" -> r = Highest(bits)
       [] fn = "clz" -> r = D - 1 - Highest(bits)
       [] OTHER ->
            LET w == IF fn \in {"strtoul", "strtol"} THEN W ELSE D IN
            IF fn \in {"strtol", "strtoll"} /\ a # <<>> /\ a[1] = "-"
            THEN LET n == NumeralIn(w, Tail(a), b) IN r = <<(-n[1]) % Pow2[w], n[2] + 1>>
            ELSE r = NumeralIn(w, a, b)
=============================================================================
