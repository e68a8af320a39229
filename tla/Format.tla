-------------------------------- MODULE Format --------------------------------
(***************************************************************************)
(* Formatted output (vsprintf.c): vsnprintf() on a format of one           *)
(* character a step, number(), string() and pointer(), and the callers     *)
(* that give it a buffer.  Characters are named by themselves, "NUL" ends  *)
(* a string.  Integers are narrower than in C: IntBits for int, long and   *)
(* pointers, twice as many for long long, half as many for short.          *)
(***************************************************************************)
EXTENDS Bits, Sequences, FiniteSets, SequencesExt

CONSTANTS Jobs,      \* calls: function, format, arguments, size and true size of buf
          IntBits

ASSUME FormatBits == IntBits \in Nat \ {0} /\ IntBits % 2 = 0
ASSUME FormatJobs ==
  \A job \in Jobs : job.fmt \in Seq(STRING) /\ job.size \in Nat /\ job.room \in Nat

VARIABLE fs

Digit == <<"0", "1", "2", "3", "4", "5", "6", "7", "8", "9">>
SmallDigit == Digit \o <<"a", "b", "c", "d", "e", "f">>
LargeDigit == Digit \o <<"A", "B", "C", "D", "E", "F">>
Letters == {"a", "b", "c", "d", "e", "f", "g", "h", "i", "j", "k", "l", "m", "n", "o", "p", "q",
            "r", "s", "t", "u", "v", "w", "x", "y", "z", "F", "R", "S", "L", "X", "Z"}
IsDigit(c) == \E d \in 1 .. 10 : Digit[d] = c
DigitValue(c) == (CHOOSE d \in 1 .. 10 : Digit[d] = c) - 1

Spaces(n) == [k \in 1 .. n |-> " "]
Zeros(n) == [k \in 1 .. n |-> "0"]
Greater(a, b) == IF a > b THEN a ELSE b
SignedBits(x, bits) == IF x >= Pow2[bits - 1] THEN x - Pow2[bits] ELSE x

-----------------------------------------------------------------------------
(* number(): the digits come in reverse; size is what is left to pad.      *)

Numbers == [num : Nat, base : {8, 10, 16}, tmp : Seq(0 .. 15)]
NextDigit(r) == [r EXCEPT !.num = @ \div r.base, !.tmp = Append(@, r.num % r.base)]

DigitLoop[r \in Numbers] ==
  IF NextDigit(r).num # 0 THEN DigitLoop[NextDigit(r)] ELSE NextDigit(r).tmp

DigitsOf(x, base) == DigitLoop[[num |-> x, base |-> base, tmp |-> <<>>]]

NumberText(value, base, size, precision, flags) ==
  LET sign == IF "SIGN" \notin flags THEN <<>>
              ELSE IF value < 0 THEN <<"-">>
              ELSE IF "+" \in flags THEN <<"+">>
              ELSE IF " " \in flags THEN <<" ">> ELSE <<>>
      small == "SMALL" \in flags
      prefix == IF "#" \notin flags \/ base = 10 THEN <<>>
                ELSE IF base = 8 THEN <<"0">> ELSE <<"0", IF small THEN "x" ELSE "X">>
      digits == DigitsOf(IF value < 0 THEN -value ELSE value, base)
      tmp == [k \in 1 .. Len(digits) |->
                (IF small THEN SmallDigit ELSE LargeDigit)[digits[Len(digits) + 1 - k] + 1]]
      shown == Greater(Len(tmp), precision)
      pad == size - Len(sign) - Len(prefix) - shown
      before == "-" \notin flags
      zero == before /\ "0" \in flags
  IN (IF before /\ ~zero THEN Spaces(pad) ELSE <<>>)
     \o sign \o prefix
     \o (IF zero THEN Zeros(pad) ELSE <<>>)
     \o Zeros(shown - Len(tmp)) \o tmp
     \o (IF before THEN <<>> ELSE Spaces(pad))

(* string(): a pointer into the first page is shown as <NULL>; a negative  *)
(* precision is no limit.                                                  *)
StringText(arg, width, precision, flags) ==
  LET s == IF arg = "NULL" THEN <<"<", "N", "U", "L", "L", ">">> ELSE arg
      len == IF precision >= 0 /\ precision < Len(s) THEN precision ELSE Len(s)
      pad == Spaces(width - len)
  IN IF "-" \in flags THEN SubSeq(s, 1, len) \o pad ELSE pad \o SubSeq(s, 1, len)

(* pointer() *)
PointerText(arg, width, precision, flags) ==
  IF width = -1
  THEN NumberText(arg, 16, IntBits \div 4, precision, flags \cup {"SMALL", "0"})
  ELSE NumberText(arg, 16, width, precision, flags \cup {"SMALL"})

CharText(c, width, flags) ==
  IF "-" \in flags THEN <<c>> \o Spaces(width - 1) ELSE Spaces(width - 1) \o <<c>>

(* The argument as its qualifier takes it: sign extended for a signed      *)
(* conversion, a ptrdiff_t always, a size_t never.                         *)
ValueBug(qualifier, arg, signed) ==
  LET raw == arg % Pow2[CASE qualifier = "L" -> 2 * IntBits
                          [] qualifier = "h" -> IntBits \div 2
                          [] OTHER -> IntBits]
      num == CASE qualifier = "L" -> raw
               [] qualifier = "h" /\ signed -> SignedBits(raw, IntBits \div 2)
               [] qualifier = "h" -> raw
               [] qualifier \in {"Z", "z"} -> raw
               [] qualifier = "t" -> SignedBits(raw, IntBits)
               [] OTHER -> raw
  IN IF signed THEN SignedBits(num % Pow2[2 * IntBits], 2 * IntBits) ELSE num % Pow2[2 * IntBits]

Value(qualifier, arg, signed) ==
  LET raw == arg % Pow2[CASE qualifier = "L" -> 2 * IntBits
                          [] qualifier = "h" -> IntBits \div 2
                          [] OTHER -> IntBits]
      num == CASE qualifier = "L" -> raw
               [] qualifier = "h" /\ signed -> SignedBits(raw, IntBits \div 2)
               [] qualifier = "h" -> raw
               [] qualifier \in {"Z", "z"} -> raw
               [] qualifier = "t" \/ signed -> SignedBits(raw, IntBits)
               [] OTHER -> raw
  IN IF signed THEN SignedBits(num % Pow2[2 * IntBits], 2 * IntBits) ELSE num % Pow2[2 * IntBits]

-----------------------------------------------------------------------------
(* vsnprintf() *)

Now(f) == IF f.fmt = <<>> THEN "NUL" ELSE Head(f.fmt)
UsesArg(f) == [f EXCEPT !.args = IF @ = <<>> THEN @ ELSE Tail(@)]
Skip(f) == [f EXCEPT !.fmt = Tail(@)]

(* if (str < end) *str = c; ++str; *)
Emit(f, s) ==
  [f EXCEPT !.str = @ + Len(s),
            !.buf = [i \in DOMAIN @ |-> IF i >= f.str /\ i < f.str + Len(s) /\ i < f.size
                                        THEN s[i - f.str + 1] ELSE @[i]],
            !.written = Greater(@, IF f.str + Len(s) < f.size THEN f.str + Len(s) ELSE f.size),
            !.text = @ \o s]

Begin(f, size) == [f EXCEPT !.pc = "text", !.fmt = f.job.fmt, !.args = f.job.args, !.str = 0,
                            !.size = size, !.text = <<>>]

FormatInit ==
  fs = [pc |-> "idle", job |-> [fn |-> "none"], fmt |-> <<>>, args |-> <<>>, str |-> 0, size |-> 0,
        buf |-> <<>>, written |-> 0, text |-> <<>>, flags |-> {}, width |-> -1,
        precision |-> -1, qualifier |-> "", ret |-> 0, count |-> 0, measured |-> FALSE]

(* vasprintf() measures first, into no buffer. *)
Call ==
  /\ fs.pc = "idle"
  /\ \E job \in Jobs :
       fs' = Begin([fs EXCEPT !.job = job, !.buf = [i \in 0 .. job.room - 1 |-> "?"]],
                   IF job.fn = "vasprintf" THEN 0 ELSE job.size)

TextTaken(f) ==
  IF Head(f.fmt) = "%"
  THEN [Skip(f) EXCEPT !.pc = "flags", !.flags = {}, !.width = -1, !.precision = -1,
                       !.qualifier = ""]
  ELSE Emit(Skip(f), <<Head(f.fmt)>>)

Text == fs.pc = "text" /\ fs.fmt # <<>> /\ fs' = TextTaken(fs)

FlagTaken(f) == IF Now(f) \in {"-", "+", " ", "#", "0"}
                THEN [Skip(f) EXCEPT !.flags = @ \cup {Head(f.fmt)}]
                ELSE [f EXCEPT !.pc = "width"]

Flags == fs.pc = "flags" /\ fs' = FlagTaken(fs)

(* skip_atoi() *)
Digits1(n, c) == 10 * Greater(n, 0) + DigitValue(c)

WidthTaken(f) ==
  IF IsDigit(Now(f)) THEN [Skip(f) EXCEPT !.width = Digits1(@, Head(f.fmt))]
  ELSE IF Now(f) = "*" /\ f.width = -1
  THEN LET w == Head(f.args)
       IN [UsesArg(Skip(f)) EXCEPT !.pc = "dot",
                                   !.width = IF w < 0 THEN -w ELSE w,
                                   !.flags = IF w < 0 THEN @ \cup {"-"} ELSE @]
  ELSE [f EXCEPT !.pc = "dot"]

FieldWidth == fs.pc = "width" /\ fs' = WidthTaken(fs)

DotTaken(f) ==
  IF Now(f) # "." THEN [f EXCEPT !.pc = "qualifier"]
  ELSE IF Now(Skip(f)) = "*"
  THEN [UsesArg(Skip(Skip(f))) EXCEPT !.pc = "qualifier", !.precision = Greater(Head(f.args), 0)]
  ELSE [Skip(f) EXCEPT !.pc = "precision", !.precision = 0]

Dot == fs.pc = "dot" /\ fs' = DotTaken(fs)

PrecisionTaken(f) ==
  IF IsDigit(Now(f)) THEN [Skip(f) EXCEPT !.precision = Digits1(@, Head(f.fmt))]
  ELSE [f EXCEPT !.pc = "qualifier"]

Precision == fs.pc = "precision" /\ fs' = PrecisionTaken(fs)

(* ll is L. *)
QualifierTaken(f) ==
  LET q == Now(f) IN
  IF q \notin {"h", "l", "L", "Z", "z", "t"} THEN [f EXCEPT !.pc = "convert"]
  ELSE IF q = "l" /\ Now(Skip(f)) = "l"
  THEN [Skip(Skip(f)) EXCEPT !.qualifier = "L", !.pc = "convert"]
  ELSE [Skip(f) EXCEPT !.qualifier = q, !.pc = "convert"]

Qualifier == fs.pc = "qualifier" /\ fs' = QualifierTaken(fs)

Shown(f, s) == [Emit(f, s) EXCEPT !.pc = "text"]
SkipAlnum(s) ==   \* suffixes of %p
  LET k == CHOOSE k \in 1 .. Len(s) + 1 :
             /\ \A j \in 1 .. k - 1 : IsDigit(s[j]) \/ s[j] \in Letters
             /\ k <= Len(s) => ~(IsDigit(s[k]) \/ s[k] \in Letters)
  IN SubSeq(s, k, Len(s))

NumberLetters == {"d", "i", "u", "x", "X", "o"}

NumberShown(f) ==
  LET c == Head(f.fmt)
      signed == c \in {"d", "i"}
      flags == f.flags \cup (IF signed THEN {"SIGN"} ELSE {})
                       \cup (IF c = "x" THEN {"SMALL"} ELSE {})
      base == CASE c = "o" -> 8 [] c \in {"x", "X"} -> 16 [] OTHER -> 10
  IN Shown(UsesArg(Skip(f)), NumberText(Value(f.qualifier, Head(f.args), signed), base, f.width,
                                        f.precision, flags))

ConvertNumber ==
  fs.pc = "convert" /\ Now(fs) \in NumberLetters /\ fs' = NumberShown(fs)

OtherShown(f) ==
  LET used == UsesArg(Skip(f))
      arg == Head(f.args)
  IN CASE Now(f) = "c" -> Shown(used, CharText(arg, f.width, f.flags))
       [] Now(f) = "s" -> Shown(used, StringText(arg, f.width, f.precision, f.flags))
       [] Now(f) = "p" -> Shown([used EXCEPT !.fmt = SkipAlnum(@)],
                                PointerText(arg, f.width, f.precision, f.flags))
       [] Now(f) = "n" -> [used EXCEPT !.pc = "text", !.count = f.str]  \* stores the count so far
       [] Now(f) = "%" -> Shown(Skip(f), <<"%">>)
       [] Now(f) = "NUL" -> Shown(f, <<"%">>)   \* the loop meets the NUL again
       [] OTHER -> Shown(Skip(f), <<"%", Head(f.fmt)>>)

ConvertOther ==
  fs.pc = "convert" /\ Now(fs) \notin NumberLetters /\ fs' = OtherShown(fs)

(* The NUL goes behind the text or into the last byte. *)
TerminatedBug(f) ==
  IF f.size = 0 THEN f
  ELSE LET at == IF f.str <= f.size THEN f.str ELSE f.size - 1
       IN [f EXCEPT !.buf = [i \in DOMAIN @ |-> IF i = at THEN "NUL" ELSE @[i]],
                    !.written = Greater(@, at + 1)]

Terminated(f) ==
  IF f.size = 0 THEN f
  ELSE LET at == IF f.str < f.size THEN f.str ELSE f.size - 1
       IN [f EXCEPT !.buf = [i \in DOMAIN @ |-> IF i = at THEN "NUL" ELSE @[i]],
                    !.written = Greater(@, at + 1)]

(* The end of vsnprintf(), and what its callers do then: vscnprintf() cuts *)
(* the count, vasprintf() allocates for the length it measured, if it can, *)
(* and formats again.                                                      *)
End ==
  /\ fs.pc = "text" /\ fs.fmt = <<>>
  /\ LET f == Terminated(fs)
         done == [f EXCEPT !.pc = "done", !.ret = f.str]
     IN CASE fs.job.fn = "vscnprintf" ->
               fs' = [done EXCEPT !.ret = IF f.str >= f.size THEN f.size - 1 ELSE f.str]
          [] fs.job.fn = "vasprintf" /\ ~fs.measured ->
               \/ fs' = [done EXCEPT !.ret = -1, !.text = <<>>]
               \/ fs' = Begin([f EXCEPT !.measured = TRUE,
                                        !.buf = [i \in 0 .. f.str |-> "?"]], f.str + 1)
          [] OTHER -> fs' = done

FormatNext == \/ Call \/ Text \/ Flags \/ FieldWidth \/ Dot \/ Precision \/ Qualifier
              \/ ConvertNumber \/ ConvertOther \/ End

FormatSpec == FormatInit /\ [][FormatNext]_fs

-----------------------------------------------------------------------------

Done == fs.pc = "done"
Failed == fs.ret = -1

(* The buffer holds the text that is wanted, cut to one byte less than its *)
(* size, and a NUL, and no byte behind that was written; the count is that *)
(* of the whole text, from vscnprintf() that of the text in the buffer.    *)
BufferExact ==
  Done /\ ~Failed /\ fs.size > 0 =>
    LET kept == IF Len(fs.text) < fs.size THEN Len(fs.text) ELSE fs.size - 1 IN
    /\ \A i \in 0 .. kept - 1 : fs.buf[i] = fs.text[i + 1]
    /\ fs.buf[kept] = "NUL"
    /\ \A i \in DOMAIN fs.buf : i > kept => fs.buf[i] = "?"
    /\ fs.ret = IF fs.job.fn = "vscnprintf" THEN kept ELSE Len(fs.text)
    /\ fs.job.fn = "vasprintf" => kept = Len(fs.text)

DigitsValue(s, base) ==
  FoldLeft(LAMBDA v, c : base * v + (CHOOSE d \in 1 .. 16 : c \in {SmallDigit[d], LargeDigit[d]}) - 1,
           0, s)

(* What a directive of the job promises its reader: its width; blanks at   *)
(* one side only; a sign where asked; and digits that, read back in the    *)
(* base, are the number.                                                   *)
NumberReads(text, want) ==
  LET blank(s) == Cardinality({k \in 1 .. Len(s) : \A j \in 1 .. k : s[j] = " "})
      lead == blank(text)
      trail == blank(Reverse(text))
      core == SubSeq(text, lead + 1, Len(text) - trail)
      signs == IF core[1] \in {"-", "+"} THEN 1 ELSE 0
      prefix == IF ~want.prefix THEN 0 ELSE IF want.base = 16 THEN 2 ELSE 1
      digits == SubSeq(core, signs + prefix + 1, Len(core))
  IN /\ DigitsValue(digits, want.base) = (IF want.value < 0 THEN -want.value ELSE want.value)
     /\ (core[1] = "-") = (want.value < 0)
     /\ Len(text) >= want.width
     /\ Len(text) > want.width => trail = 0 /\ lead <= 1
     /\ Len(digits) >= want.precision
     /\ Len(digits) > Greater(want.precision, 1) => want.zero \/ digits[1] # "0"
     /\ want.left => lead <= 1
     /\ ~want.left => trail = 0
     /\ want.prefix /\ want.base = 16 => core[signs + 2] \in {"x", "X"}

(* Formats are understood as they are meant: "want" tells what the         *)
(* directive of a job denotes, its text standing between two bars.         *)
TextExact ==
  Done /\ ~Failed /\ fs.job.want.kind # "any" =>
    LET text == SubSeq(fs.text, 2, Len(fs.text) - 1) IN
    /\ fs.text[1] = "|" /\ fs.text[Len(fs.text)] = "|"
    /\ IF fs.job.want.kind = "number" THEN NumberReads(text, fs.job.want)
       ELSE text = fs.job.want.text

(* printf() formats into printbuffer, whatever the length of the text, and *)
(* the comment at console_common.c:37 asks that it is larger than anything *)
(* ever printed.                                                           *)
PrintbufferHolds == fs.job.fn = "printf" => fs.written <= fs.job.room
=============================================================================
