------------------------------ MODULE TextProofs ------------------------------
(***************************************************************************)
(* The command interpreter and the string functions.                       *)
(*                                                                         *)
(* The safety properties of the interpreter hold for every length of       *)
(* cmdbuf, every alphabet and every list of modes.  The invariant adds to  *)
(* the properties that a line being interpreted has an end, that nothing   *)
(* of a discarded line is in front of it, and that what was interpreted    *)
(* lies before the cursor.                                                 *)
(*                                                                         *)
(* The string functions do what their comments say for every size of the   *)
(* memory, every width of a character, every alphabet and every content.   *)
(* Each loop is shown to be a function (its measure falls), then to end    *)
(* where a scan in order would; each function is then compared with what   *)
(* it says of whole texts.  The invariant adds to that property that the   *)
(* memory stays terminated and where the calls for tokens have got to.     *)
(***************************************************************************)
EXTENDS CommandLoop, Strings, NumberLemmas, SequenceTheorems

-----------------------------------------------------------------------------
(* The command interpreter. *)

Interpreting == pc \in {"run", "mode"}

(* The line in s has a NUL within the array.                               *)
Ends(s) == \E e \in Positions : s[e] = Nul

(* The cursor is 0 wherever a line may be read next.                       *)
Rests == pc \in {"prompt", "boot"} => cur = 0 /\ seen = {}

Line ==
  Interpreting =>
    /\ Ends(cmdbuf)
    /\ \A i \in gone : i > EndOf(cmdbuf)

Cursor ==
  Interpreting /\ Spaced(cmdbuf) =>
    /\ cur <= EndOf(cmdbuf)
    /\ \A i \in 0 .. cur - 1 : i \in seen \/ cmdbuf[i] = Blank
    /\ \A i \in seen : i < cur

(* What was interpreted are characters of the array, none of them a NUL.   *)
Passed ==
  Interpreting =>
    /\ \A i \in 0 .. cur - 1 : i \in seen \/ At(cmdbuf, i - 1) \in DOMAIN Digit
    /\ \A i \in seen : i \in Positions /\ cmdbuf[i] # Nul

AtMode == pc = "mode" => cur \in Positions /\ Here = Mode

IInv == TypeOK /\ Rests /\ Line /\ Cursor /\ Passed /\ AtMode

-----------------------------------------------------------------------------
(* A string ends at its first NUL.                                         *)
LEMMA EndOfIs ==
  ASSUME NEW s, Ends(s)
  PROVE  /\ EndOf(s) \in Positions /\ s[EndOf(s)] = Nul
         /\ \A i \in 0 .. EndOf(s) - 1 : s[i] # Nul
<1>. DEFINE T == {e \in Positions : s[e] = Nul}
<1>1. T \subseteq Nat /\ T # {}
  BY BufAssumption DEF Positions, Ends
<1>2. PICK e \in T : \A x \in T : e <= x
  BY <1>1, LeastMember
<1>3. \A i \in 0 .. e - 1 : s[i] # Nul
  <2>1. TAKE i \in 0 .. e - 1
  <2>2. i \in Positions /\ ~(e <= i)
    BY <1>2, BufAssumption DEF Positions
  <2>. QED BY <1>2, <2>2
<1>4. \E x \in Positions : s[x] = Nul /\ \A i \in 0 .. x - 1 : s[i] # Nul
  BY <1>2, <1>3
<1>. QED BY <1>4 DEF EndOf

(* The end is the only place with a NUL and none before it.                *)
LEMMA EndOfAt ==
  ASSUME NEW s, NEW n \in Positions, s[n] = Nul, \A i \in 0 .. n - 1 : s[i] # Nul
  PROVE  EndOf(s) = n /\ Ends(s)
<1>1. Ends(s)
  BY DEF Ends
<1>2. /\ EndOf(s) \in Positions /\ s[EndOf(s)] = Nul
      /\ \A i \in 0 .. EndOf(s) - 1 : s[i] # Nul
  BY <1>1, EndOfIs
<1>3. EndOf(s) \in Nat /\ n \in Nat
  BY <1>2, BufAssumption DEF Positions
<1>. QED BY <1>1, <1>2, <1>3

(* A number begins at the cursor or one or two characters behind it.       *)
LEMMA FirstDigitIs ==
  ASSUME NEW s, NEW i \in Nat
  PROVE  /\ FirstDigit(s, i) \in Nat /\ FirstDigit(s, i) >= i
         /\ FirstDigit(s, i) <= i + 1 \/ (At(s, i + 1) = X /\ FirstDigit(s, i) = i + 2)
BY DEF FirstDigit, Hex

(* strtoul() stops within the array or right behind it, at the first       *)
(* character that is no digit, and behind the digit it was called on.      *)
LEMMA EndpIs ==
  ASSUME NEW s, DOMAIN s = Positions, NEW i \in Nat, Decimal(At(s, i))
  PROVE  /\ Endp(s, i) \in Nat /\ Endp(s, i) >= i + 1 /\ Endp(s, i) >= FirstDigit(s, i)
         /\ \A k \in FirstDigit(s, i) .. Endp(s, i) - 1 : InNumber(s, i, k)
         /\ ~InNumber(s, i, Endp(s, i))
<1>. DEFINE f == FirstDigit(s, i)
            T == {e \in f .. f + BufLen : ~InNumber(s, i, e)}
<1>1. f \in Nat /\ f >= i
  BY FirstDigitIs
<1>2. BufLen \in Nat /\ BufLen >= 2
  BY BufAssumption
<1>3. f + BufLen \in T
  <2>1. f + BufLen \notin DOMAIN s
    BY <1>1, <1>2 DEF Positions
  <2>2. Nul \notin DOMAIN Digit
    BY CharAssumption DEF Printable
  <2>3. ~InNumber(s, i, f + BufLen)
    BY <2>1, <2>2 DEF InNumber, At
  <2>. QED BY <2>3, <1>1, <1>2
<1>4. T \subseteq Nat /\ T # {}
  BY <1>1, <1>2, <1>3
<1>5. PICK e \in T : \A x \in T : e <= x
  <2>. HIDE DEF T
  <2>. QED BY <1>4, LeastMember
<1>6. e \in f .. f + BufLen /\ ~InNumber(s, i, e)
  BY <1>5
<1>7. \A k \in f .. e - 1 : InNumber(s, i, k)
  <2>1. TAKE k \in f .. e - 1
  <2>2. k \in f .. f + BufLen /\ ~(e <= k)
    BY <1>1, <1>2, <1>6
  <2>. QED BY <1>5, <2>2
<1>8. /\ Endp(s, i) \in f .. f + BufLen
      /\ \A k \in f .. Endp(s, i) - 1 : InNumber(s, i, k)
      /\ ~InNumber(s, i, Endp(s, i))
  <2>. HIDE DEF f
  <2>1. Endp(s, i) = CHOOSE y \in f .. f + BufLen :
           /\ \A k \in f .. y - 1 : InNumber(s, i, k)
           /\ ~InNumber(s, i, y)
    BY DEF Endp, f
  <2>. QED BY <1>6, <1>7, <2>1
<1>9. Endp(s, i) # i
  <2>1. CASE IsZero(At(s, i))
    <3>1. f >= i + 1
      BY <2>1 DEF FirstDigit
    <3>. QED BY <3>1, <1>1, <1>2, <1>8
  <2>2. CASE ~IsZero(At(s, i))
    <3>1. Base(s, i) = 10
      BY <2>2 DEF Base, Hex
    <3>2. InNumber(s, i, i)
      BY <3>1 DEF InNumber, Decimal
    <3>. QED BY <3>2, <1>8
  <2>. QED BY <2>1, <2>2
<1>. QED BY <1>1, <1>2, <1>8, <1>9

(* In a line with a blank behind every number, that blank is where         *)
(* strtoul() stops.                                                        *)
LEMMA SpacedNumber ==
  ASSUME NEW s, DOMAIN s = Positions, Ends(s), Spaced(s),
         NEW i \in Nat, i < EndOf(s), Decimal(s[i])
  PROVE  Endp(s, i) \in i + 1 .. EndOf(s) - 1 /\ s[Endp(s, i)] = Blank
<1>1. EndOf(s) \in Positions /\ EndOf(s) \in Nat /\ EndOf(s) < BufLen /\ BufLen \in Nat
  BY EndOfIs, BufAssumption DEF Positions
<1>2. PICK e \in i + 1 .. EndOf(s) - 1 :
        s[e] = Blank /\ \A k \in FirstDigit(s, i) .. e - 1 : InNumber(s, i, k)
  <2>1. i \in 0 .. EndOf(s) - 1
    BY <1>1
  <2>. QED BY <2>1 DEF Spaced
<1>3. i \in DOMAIN s /\ e \in DOMAIN s /\ At(s, i) = s[i] /\ At(s, e) = Blank
  BY <1>1, <1>2 DEF At, Positions
<1>4. ~InNumber(s, i, e)
  BY <1>3, CharAssumption DEF InNumber
<1>5. FirstDigit(s, i) <= e /\ FirstDigit(s, i) \in Nat
  <2>1. e = i + 1 => At(s, i + 1) # X
    BY <1>3, CharAssumption
  <2>. QED BY <2>1, <1>1, <1>2, FirstDigitIs
<1>6. /\ Endp(s, i) \in Nat /\ Endp(s, i) >= FirstDigit(s, i)
      /\ \A k \in FirstDigit(s, i) .. Endp(s, i) - 1 : InNumber(s, i, k)
      /\ ~InNumber(s, i, Endp(s, i))
  BY <1>3, EndpIs
<1>7. e \in Nat
  BY <1>1, <1>2
<1>8. Endp(s, i) = e
  <2>1. ~(Endp(s, i) < e)
    BY <1>2, <1>6, <1>5, <1>7
  <2>2. ~(e < Endp(s, i))
    BY <1>4, <1>6, <1>5, <1>7
  <2>. QED BY <2>1, <2>2, <1>6, <1>7
<1>. QED BY <1>2, <1>8

(* What strtoul() takes are characters of the line, and a digit is the     *)
(* last of them.                                                           *)
LEMMA NumberBytes ==
  ASSUME NEW s, DOMAIN s = Positions, NEW i \in Nat, Decimal(At(s, i))
  PROVE  /\ \A k \in i .. Endp(s, i) - 1 : k \in Positions /\ s[k] # Nul
         /\ At(s, Endp(s, i) - 1) \in DOMAIN Digit
<1>. DEFINE f == FirstDigit(s, i)
            e == Endp(s, i)
<1>1. /\ e \in Nat /\ e >= i + 1 /\ e >= f
      /\ \A k \in f .. e - 1 : InNumber(s, i, k)
      /\ ~InNumber(s, i, e)
  BY EndpIs
<1>2. f \in Nat /\ f >= i /\ (f <= i + 1 \/ (At(s, i + 1) = X /\ f = i + 2))
  BY FirstDigitIs
<1>3. At(s, i) \in DOMAIN Digit
  BY DEF Decimal
<1>. HIDE DEF e, f
<1>4. Nul \notin DOMAIN Digit \cup {X}
  BY CharAssumption DEF Printable
<1>5. ASSUME NEW k \in i .. e - 1
      PROVE  At(s, k) \in DOMAIN Digit \cup {X}
  <2>1. k = i \/ (k = i + 1 /\ f = i + 2) \/ k \in f .. e - 1
    BY <1>1, <1>2
  <2>2. CASE k = i
    BY <1>3, <2>2
  <2>3. CASE k = i + 1 /\ f = i + 2
    <3>1. At(s, i + 1) = X
      BY <1>2, <2>3
    <3>. QED BY <2>3, <3>1
  <2>4. CASE k \in f .. e - 1
    BY <1>1, <2>4 DEF InNumber
  <2>. QED BY <2>1, <2>2, <2>3, <2>4
<1>6. ASSUME NEW k \in i .. e - 1
      PROVE  k \in Positions /\ s[k] # Nul
  BY <1>4, <1>5 DEF At
<1>7. At(s, e - 1) \in DOMAIN Digit
  <2>1. CASE e > f
    <3>1. e - 1 \in f .. e - 1
      BY <1>1, <1>2, <2>1
    <3>. QED BY <1>1, <3>1 DEF InNumber
  <2>2. CASE e = f
    <3>1. ~Hex(s, i)
      <4>1. Hex(s, i) => f = i + 2 /\ Base(s, i) = 16
        BY DEF f, FirstDigit, Base
      <4>2. Hex(s, i) => InNumber(s, i, i + 2)
        BY <4>1, DigitAssumption DEF Hex, InNumber
      <4>. QED BY <1>1, <2>2, <4>1, <4>2
    <3>2. f <= i + 1
      BY <3>1 DEF f, FirstDigit
    <3>3. e - 1 = i
      BY <1>1, <1>2, <2>2, <3>2
    <3>. QED BY <1>3, <3>3
  <2>. QED BY <1>1, <1>2, <2>1, <2>2
<1>. QED BY <1>6, <1>7 DEF e
-----------------------------------------------------------------------------
(* The steps. *)

(* The places of the buffer are the numbers below its length.              *)
LEMMA Bounds ==
  /\ BufLen \in Nat /\ 0 \in Positions /\ Positions \subseteq Nat
  /\ \A n \in Nat : n \in Positions <=> n < BufLen
BY BufAssumption DEF Positions

(* A line that is read has its end where the editor put the NUL, and       *)
(* leftovers of discarded lines only behind it.                            *)
LEMMA ReadLineStep ==
  ASSUME IInv, NEW n \in Positions, ReadLine(n)
  PROVE  IInv'
<1>1. /\ pc = "prompt" /\ pc' = "run" /\ cur = 0 /\ cur' = 0 /\ seen = {} /\ seen' = {}
      /\ mode' = mode /\ gone' = gone \ (0 .. n) /\ TypeOK
  BY DEF ReadLine, IInv, Rests
<1>2. PICK text \in [0 .. n - 1 -> Printable] :
        cmdbuf' = [i \in Positions |-> IF i < n THEN text[i]
                                       ELSE IF i = n THEN Nul ELSE cmdbuf[i]]
  BY DEF ReadLine
<1>3. n \in Nat /\ n < BufLen
  BY Bounds
<1>4. \A i \in 0 .. n - 1 : i \in Positions /\ cmdbuf'[i] \in Printable
  BY <1>2, <1>3, Bounds
<1>5. cmdbuf' \in [Positions -> Char] /\ cmdbuf'[n] = Nul
  <2>1. \A i \in Positions : cmdbuf'[i] \in Char
    <3>1. TAKE i \in Positions
    <3>2. i \in Nat
      BY Bounds
    <3>3. CASE i < n
      BY <1>4, <3>2, <3>3, <1>3 DEF Char
    <3>4. CASE i = n
      BY <1>2, <1>3, <3>4 DEF Char
    <3>5. CASE i > n
      <4>1. cmdbuf'[i] = cmdbuf[i]
        BY <1>2, <1>3, <3>2, <3>5
      <4>. QED BY <4>1, <1>1 DEF TypeOK
    <3>. QED BY <1>3, <3>2, <3>3, <3>4, <3>5
  <2>. QED BY <1>2, <1>3, <2>1
<1>6. EndOf(cmdbuf') = n /\ Ends(cmdbuf')
  BY <1>4, <1>5, EndOfAt, CharAssumption
<1>7. gone' \subseteq Positions /\ \A i \in gone' : i > n
  BY <1>1, <1>3, Bounds DEF TypeOK
<1>8. TypeOK'
  BY <1>1, <1>5, <1>7, Bounds DEF TypeOK
<1>9. Rests' /\ Line' /\ Cursor' /\ Passed' /\ AtMode'
  BY <1>1, <1>3, <1>6, <1>7 DEF Rests, Line, Cursor, Passed, AtMode
<1>. QED BY <1>8, <1>9 DEF IInv

(* A line that ^C discarded ends before its first character.               *)
LEMMA DiscardStep ==
  ASSUME IInv, NEW n \in Positions, Discard(n)
  PROVE  IInv'
<1>1. /\ pc = "prompt" /\ pc' = "run" /\ cur = 0 /\ cur' = 0 /\ seen = {} /\ seen' = {}
      /\ mode' = mode /\ gone' = (gone \ {0}) \cup 1 .. n - 1 /\ TypeOK
  BY DEF Discard, IInv, Rests
<1>2. PICK text \in [0 .. n - 1 -> Printable] :
        cmdbuf' = [i \in Positions |-> IF i = 0 THEN Nul
                                       ELSE IF i < n THEN text[i] ELSE cmdbuf[i]]
  BY DEF Discard
<1>3. n \in Nat /\ n < BufLen
  BY Bounds
<1>4. cmdbuf' \in [Positions -> Char] /\ cmdbuf'[0] = Nul
  <2>1. \A i \in Positions : cmdbuf'[i] \in Char
    <3>1. TAKE i \in Positions
    <3>2. i \in Nat
      BY Bounds
    <3>3. CASE i = 0
      BY <1>2, <3>3 DEF Char
    <3>4. CASE i # 0 /\ i < n
      <4>1. cmdbuf'[i] = text[i] /\ i \in 0 .. n - 1
        BY <1>2, <1>3, <3>2, <3>4
      <4>. QED BY <4>1 DEF Char
    <3>5. CASE i # 0 /\ ~(i < n)
      <4>1. cmdbuf'[i] = cmdbuf[i]
        BY <1>2, <3>5
      <4>. QED BY <4>1, <1>1 DEF TypeOK
    <3>. QED BY <3>3, <3>4, <3>5
  <2>. QED BY <1>2, <2>1, Bounds
<1>5. EndOf(cmdbuf') = 0 /\ Ends(cmdbuf')
  <2>1. \A i \in 0 .. 0 - 1 : cmdbuf'[i] # Nul
    OBVIOUS
  <2>. QED BY <1>4, <2>1, EndOfAt, Bounds
<1>6. gone' \subseteq Positions /\ \A i \in gone' : i > 0
  BY <1>1, <1>3, Bounds DEF TypeOK
<1>7. TypeOK'
  BY <1>1, <1>4, <1>6, Bounds DEF TypeOK
<1>8. Rests' /\ Line' /\ Cursor' /\ Passed' /\ AtMode'
  BY <1>1, <1>5, <1>6 DEF Rests, Line, Cursor, Passed, AtMode
<1>. QED BY <1>7, <1>8 DEF IInv

(* A command of one character moves the cursor by one, never over the end. *)
LEMMA OneCharacter ==
  ASSUME IInv, Interpreting, cur \in Positions, Here # Nul, NextCharacter,
         UNCHANGED <<cmdbuf, gone>>,
         \E i \in DOMAIN ModeNames : mode' = ModeNames[i]
  PROVE  IInv'
<1>1. /\ TypeOK /\ Line /\ Cursor /\ Passed /\ cur \in Nat
      /\ cmdbuf' = cmdbuf /\ gone' = gone
      /\ cur' = cur + 1 /\ seen' = seen \cup {cur} /\ pc' = "run"
  BY DEF IInv, TypeOK, NextCharacter, MoveTo
<1>2. TypeOK'
  BY <1>1 DEF TypeOK
<1>3. Rests' /\ Line' /\ AtMode'
  BY <1>1 DEF Rests, Line, AtMode, Interpreting
<1>4. ASSUME Interpreting', Spaced(cmdbuf)'
      PROVE  /\ cur' <= EndOf(cmdbuf)
             /\ \A i \in 0 .. cur' - 1 : i \in seen' \/ cmdbuf[i] = Blank
             /\ \A i \in seen' : i < cur'
  <2>1. /\ Ends(cmdbuf) /\ cur <= EndOf(cmdbuf) /\ \A i \in seen : i < cur
        /\ \A i \in 0 .. cur - 1 : i \in seen \/ cmdbuf[i] = Blank
    BY <1>1, <1>4 DEF Line, Cursor
  <2>2. EndOf(cmdbuf) \in Nat /\ cur # EndOf(cmdbuf) /\ seen \subseteq Nat
    BY <1>1, <2>1, EndOfIs, Bounds DEF Here, TypeOK
  <2>3. \A i \in 0 .. cur' - 1 : i = cur \/ i \in 0 .. cur - 1
    BY <1>1
  <2>. QED BY <1>1, <2>1, <2>2, <2>3
<1>5. Cursor'
  BY <1>1, <1>4 DEF Cursor
<1>6. Passed'
  <2>1. \A i \in 0 .. cur' - 1 : i = cur \/ i \in 0 .. cur - 1
    BY <1>1
  <2>2. \A i \in 0 .. cur' - 1 : i \in seen' \/ At(cmdbuf, i - 1) \in DOMAIN Digit
    BY <1>1, <2>1 DEF Passed
  <2>3. \A i \in seen' : i \in Positions /\ cmdbuf[i] # Nul
    BY <1>1 DEF Passed, Here
  <2>. QED BY <1>1, <2>2, <2>3 DEF Passed
<1>. QED BY <1>2, <1>3, <1>5, <1>6 DEF IInv

(* A number and the character behind it; in a line with a blank behind     *)
(* every number that character is the blank.                               *)
LEMMA NumberStep ==
  ASSUME IInv, BusNumber
  PROVE  IInv'
<1>. DEFINE e == Endp(cmdbuf, cur)
<1>1. /\ TypeOK /\ Line /\ Cursor /\ Passed /\ cur \in Positions /\ cur \in Nat
      /\ Interpreting /\ cmdbuf' = cmdbuf /\ gone' = gone /\ mode' = mode /\ Decimal(Here)
      /\ cur' = e + 1 /\ seen' = seen \cup cur .. e - 1 /\ pc' = "run"
  BY DEF IInv, TypeOK, Interpreting, MoveTo, BusNumber, Running
<1>2. DOMAIN cmdbuf = Positions /\ At(cmdbuf, cur) = Here
  BY <1>1 DEF TypeOK, At, Here
<1>3. e \in Nat /\ e >= cur + 1
  BY <1>1, <1>2, EndpIs
<1>4. TypeOK'
  <2>. HIDE DEF e
  <2>1. seen' \subseteq Nat
    <3>1. cur .. e - 1 \subseteq Nat /\ seen \subseteq Nat
      BY <1>1, <1>3 DEF TypeOK
    <3>. QED BY <1>1, <3>1
  <2>. QED BY <1>1, <1>3, <2>1 DEF TypeOK
<1>5. Rests' /\ Line' /\ AtMode'
  BY <1>1 DEF Rests, Line, AtMode, Interpreting
<1>6. ASSUME Spaced(cmdbuf)
      PROVE  /\ cur' <= EndOf(cmdbuf)
             /\ \A i \in 0 .. cur' - 1 : i \in seen' \/ cmdbuf[i] = Blank
             /\ \A i \in seen' : i < cur'
  <2>1. /\ Ends(cmdbuf) /\ cur <= EndOf(cmdbuf) /\ \A i \in seen : i < cur
        /\ \A i \in 0 .. cur - 1 : i \in seen \/ cmdbuf[i] = Blank
    BY <1>1, <1>6 DEF Line, Cursor
  <2>2. EndOf(cmdbuf) \in Nat /\ cmdbuf[EndOf(cmdbuf)] = Nul /\ seen \subseteq Nat
    BY <1>1, <2>1, EndOfIs, Bounds DEF TypeOK
  <2>3. cur < EndOf(cmdbuf)
    <3>1. Here # Nul
      BY <1>1, CharAssumption DEF Decimal, Printable
    <3>. QED BY <1>1, <2>1, <2>2, <3>1 DEF Here
  <2>4. e \in cur + 1 .. EndOf(cmdbuf) - 1 /\ cmdbuf[e] = Blank
    BY <1>1, <1>2, <1>6, <2>1, <2>3, SpacedNumber DEF Here
  <2>. HIDE DEF e
  <2>5. \A i \in 0 .. cur' - 1 : i \in 0 .. cur - 1 \/ i \in cur .. e - 1 \/ i = e
    BY <1>1, <1>3
  <2>6. \A i \in seen' : i < cur'
    BY <1>1, <1>3, <2>1, <2>2
  <2>7. cur' <= EndOf(cmdbuf)
    BY <1>1, <1>3, <2>2, <2>4
  <2>. QED BY <1>1, <2>1, <2>4, <2>5, <2>6, <2>7
<1>8. /\ \A k \in cur .. e - 1 : k \in Positions /\ cmdbuf[k] # Nul
      /\ At(cmdbuf, e - 1) \in DOMAIN Digit
  BY <1>1, <1>2, NumberBytes
<1>. HIDE DEF e
<1>7. Cursor'
  BY <1>1, <1>6 DEF Cursor
<1>9. Passed'
  <2>1. \A i \in 0 .. cur' - 1 : i \in 0 .. cur - 1 \/ i \in cur .. e - 1 \/ i = e
    BY <1>1, <1>3
  <2>2. \A i \in 0 .. cur' - 1 : i \in seen' \/ At(cmdbuf, i - 1) \in DOMAIN Digit
    BY <1>1, <1>8, <2>1 DEF Passed
  <2>3. \A i \in seen' : i \in Positions /\ cmdbuf[i] # Nul
    BY <1>1, <1>8 DEF Passed
  <2>. QED BY <1>1, <2>2, <2>3 DEF Passed
<1>. QED BY <1>4, <1>5, <1>7, <1>9 DEF IInv

(* A step that leaves the line leaves the cursor at 0.                     *)
LEMMA LeaveStep ==
  ASSUME IInv, pc' \in {"prompt", "boot"}, cur' = 0, seen' = {},
         UNCHANGED <<mode, cmdbuf, gone>>
  PROVE  IInv'
BY DEF IInv, TypeOK, Rests, Line, Cursor, Passed, AtMode, Interpreting

(* The invariant holds at the beginning.                                   *)
LEMMA InitIInv ==
  ASSUME Init
  PROVE  IInv
<1>1. 1 \in DOMAIN ModeNames
  BY ModeAssumption
<1>2. cmdbuf \in [Positions -> Char]
  BY BufAssumption DEF Init
<1>. QED BY <1>1, <1>2, Bounds
     DEF Init, IInv, TypeOK, Rests, Line, Cursor, Passed, AtMode, Interpreting, HiZ

(* Each step keeps it.                                                     *)
LEMMA StepIInv ==
  ASSUME IInv, [Next]_vars
  PROVE  IInv'
<1>1. ASSUME NEW n \in Positions, ReadLine(n) \/ Discard(n) PROVE IInv'
  BY <1>1, ReadLineStep, DiscardStep
<1>2. CASE EndOfLine \/ Reboot \/ SyntaxError
  BY <1>2, LeaveStep DEF EndOfLine, Reboot, SyntaxError, Running, LeaveLine
<1>3. CASE Harmless \/ BusCommand
  <2>1. PICK i \in DOMAIN ModeNames : mode = ModeNames[i]
    BY DEF IInv, TypeOK
  <2>2. Nul \notin BusCommands[mode] /\ Nul \notin General \cup {Blank}
    BY <2>1, ModeAssumption, CharAssumption DEF Printable
  <2>3. /\ Interpreting /\ cur \in Positions /\ Here # Nul /\ NextCharacter
        /\ UNCHANGED <<cmdbuf, gone>> /\ mode' = mode
    BY <1>3, <2>2 DEF Harmless, BusCommand, Running, Interpreting
  <2>. QED BY <2>1, <2>3, OneCharacter
<1>4. CASE BusNumber
  BY <1>4, NumberStep
<1>5. CASE AskMode
  <2>1. /\ pc = "run" /\ pc' = "mode" /\ cur \in Positions /\ Here = Mode
        /\ UNCHANGED <<cmdbuf, gone, mode, cur, seen>>
    BY <1>5 DEF AskMode, Running
  <2>. QED BY <2>1 DEF IInv, TypeOK, Rests, Line, Cursor, Passed, AtMode, Interpreting, Here
<1>6. ASSUME NEW line \in ModeLines, ChangeMode(line) PROVE IInv'
  <2>1. /\ Interpreting /\ cur \in Positions /\ Here = Mode /\ NextCharacter
        /\ UNCHANGED <<cmdbuf, gone>>
    BY <1>6 DEF ChangeMode, Interpreting, IInv, AtMode
  <2>2. Mode # Nul
    BY CharAssumption DEF Printable
  <2>3. \E i \in DOMAIN ModeNames : mode' = ModeNames[i]
    <3>1. \E i \in DOMAIN ModeNames : mode = ModeNames[i]
      BY DEF IInv, TypeOK
    <3>. QED BY <1>6, <3>1, ModeAssumption DEF ChangeMode
  <2>. QED BY <2>1, <2>2, <2>3, OneCharacter
<1>7. CASE Restart
  <2>1. 1 \in DOMAIN ModeNames
    BY ModeAssumption
  <2>. QED BY <1>7, <2>1
       DEF Restart, IInv, TypeOK, Rests, Line, Cursor, Passed, AtMode, Interpreting, HiZ
<1>8. CASE UNCHANGED vars
  BY <1>8 DEF vars, IInv, TypeOK, Rests, Line, Cursor, Passed, AtMode, Interpreting, Here
<1>. QED BY <1>1, <1>2, <1>3, <1>4, <1>5, <1>6, <1>7, <1>8 DEF Next, Interpret, Wild

(* The reading position stays within the line that was read.               *)
THEOREM CommandLoopInvariant == Spec => []IInv
BY InitIInv, StepIInv, PTL DEF Spec

-----------------------------------------------------------------------------
(* The cursor steps over nothing but what stands right behind a digit, and *)
(* so over the NUL only if the line ends in one.                           *)
THEOREM NulPassedBehindNumber == Spec => []NulPassedByNumberOnly
<1>1. ASSUME IInv, Interpreting, EndOf(cmdbuf) < cur
      PROVE  At(cmdbuf, EndOf(cmdbuf) - 1) \in DOMAIN Digit
  <2>1. EndOf(cmdbuf) \in Nat /\ cmdbuf[EndOf(cmdbuf)] = Nul
    BY <1>1, EndOfIs, Bounds DEF IInv, Line
  <2>2. EndOf(cmdbuf) \in 0 .. cur - 1
    BY <1>1, <2>1 DEF IInv, TypeOK
  <2>. QED BY <1>1, <2>1, <2>2 DEF IInv, Passed
<1>2. IInv => NulPassedByNumberOnly
  BY <1>1 DEF IInv, Passed, NulPassedByNumberOnly, Interpreting
<1>. QED BY <1>2, CommandLoopInvariant, PTL

(* A line with a blank behind every number is interpreted whole, up to its *)
(* end and no further, and nothing of a discarded line is.                 *)
THEOREM SpacedLineIsInterpreted == Spec => []SpacedLineIsExact
<1>1. ASSUME IInv, Interpreting, Spaced(cmdbuf)
      PROVE  seen \cap gone = {}
  <2>1. /\ \A i \in seen : i < cur
        /\ \A i \in gone : i > EndOf(cmdbuf)
        /\ cur <= EndOf(cmdbuf) /\ Ends(cmdbuf)
    BY <1>1 DEF IInv, Line, Cursor
  <2>2. /\ EndOf(cmdbuf) \in Nat /\ cur \in Nat /\ seen \subseteq Nat /\ gone \subseteq Nat
    BY <1>1, <2>1, EndOfIs, Bounds DEF IInv, TypeOK
  <2>3. ASSUME NEW x \in seen, x \in gone PROVE FALSE
    <3>1. x < cur /\ x > EndOf(cmdbuf) /\ x \in Nat
      BY <2>1, <2>2, <2>3
    <3>. QED BY <2>1, <2>2, <3>1
  <2>. QED BY <2>3
<1>2. IInv => SpacedLineIsExact
  BY <1>1 DEF IInv, Cursor, SpacedLineIsExact, Interpreting
<1>. QED BY <1>2, CommandLoopInvariant, PTL

-----------------------------------------------------------------------------
(* Loops over the memory. *)

(* The characters and the memory.                                          *)
LEMMA Bytes0 ==
  /\ Chars \subseteq Nat /\ 0 \in Chars /\ NonNul \subseteq Chars /\ 0 \notin NonNul
  /\ MemSize \in Nat /\ MemSize - 1 \in Addr /\ Addr \subseteq Nat
  /\ \A m \in Mem : \A x \in Addr : m[x] \in Chars
<1>1. Pow2[CharBits] \in Nat \ {0}
  BY Pow2Facts, StringMemory
<1>. QED BY <1>1, StringMemory DEF Chars, NonNul, Addr, Mem

(* A store changes one byte.                                               *)
LEMMA StoreIs ==
  ASSUME NEW m \in Mem, NEW p \in Int, NEW c \in Chars
  PROVE  Store(m, p, c) \in Mem /\ \A x \in Addr : Store(m, p, c)[x] = IF x = p THEN c ELSE m[x]
BY DEF Store, Mem

(* A loop whose measure falls is a function.                               *)
LEMMA LoopFound ==
  ASSUME NEW D, NEW m \in [D -> Nat], NEW more, NEW turn \in [D -> D], NEW out,
         out = [x \in D |-> out[x]], Falls(m, D, more, turn)
  PROVE  \E f : f = [x \in D |-> IF x \in more THEN f[turn[x]] ELSE out[x]]
<1>. DEFINE V == {out[x] : x \in D} \cup {0}
<1>1. V # {} /\ out \in [D -> V]
  OBVIOUS
<1>2. PICK f \in [D -> V] : Loops(f, D, more, turn, out)
  <2>. HIDE DEF V
  <2>. QED BY <1>1, LoopExists
<1>. QED BY <1>2 DEF Loops

(* The search upwards.                                                     *)
SeekMore == {r \in Seeks : r.n # 0 /\ r.m[r.p] \notin r.C}
SeekNext(r) == [m |-> r.m, p |-> r.p + 1, n |-> r.n - 1, C |-> r.C]
SeekTurn == [r \in Seeks |-> IF r \in SeekMore THEN SeekNext(r) ELSE r]
SeekLeft == [r \in Seeks |-> r.n]
SeekOut == [r \in Seeks |-> r.p]

(* A turn of the search upwards.                                           *)
LEMMA SeekNextIs ==
  ASSUME NEW r \in Seeks
  PROVE  /\ r.m \in Mem /\ r.p \in Int /\ r.n \in Nat /\ r.C \subseteq Chars
         /\ SeekNext(r).m = r.m /\ SeekNext(r).C = r.C
         /\ SeekNext(r).p = r.p + 1 /\ SeekNext(r).n = r.n - 1
         /\ r \in SeekMore => SeekNext(r) \in Seeks
BY DEF Seeks, SeekNext, SeekMore

(* Each turn of the search upwards comes closer to its end.                *)
LEMMA SeekFalls ==
  /\ SeekLeft \in [Seeks -> Nat] /\ SeekTurn \in [Seeks -> Seeks]
  /\ Falls(SeekLeft, Seeks, SeekMore, SeekTurn)
<1>1. SeekLeft \in [Seeks -> Nat] /\ SeekTurn \in [Seeks -> Seeks]
  BY SeekNextIs DEF SeekLeft, SeekTurn
<1>2. Falls(SeekLeft, Seeks, SeekMore, SeekTurn)
  BY SeekNextIs DEF Falls, SeekLeft, SeekTurn, SeekMore
<1>. QED BY <1>1, <1>2

(* So the search upwards is a function.                                    *)
LEMMA SeekLoops == Loops(Seek, Seeks, SeekMore, SeekTurn, SeekOut)
<1>1. SeekOut = [r \in Seeks |-> SeekOut[r]]
  BY DEF SeekOut
<1>2. PICK f : f = [r \in Seeks |-> IF r \in SeekMore THEN f[SeekTurn[r]] ELSE SeekOut[r]]
  BY <1>1, SeekFalls, LoopFound
<1>3. f = [r \in Seeks |-> IF r.n = 0 \/ r.m[r.p] \in r.C THEN r.p ELSE f[SeekNext(r)]]
  BY <1>2 DEF SeekMore, SeekTurn, SeekOut
<1>4. Seek = [r \in Seeks |-> IF r.n = 0 \/ r.m[r.p] \in r.C THEN r.p ELSE Seek[SeekNext(r)]]
  BY <1>3 DEF Seek, SeekNext
<1>. QED BY <1>4 DEF Loops, SeekMore, SeekTurn, SeekOut

(* It stops at the first byte of C, or behind the n bytes.                 *)
LEMMA SeekIs ==
  ASSUME NEW m \in Mem, NEW p \in Int, NEW n \in Nat, NEW C \in SUBSET Chars
  PROVE  /\ Within(m, p, n, C) \in p .. p + n
         /\ \A x \in p .. Within(m, p, n, C) - 1 : m[x] \notin C
         /\ Within(m, p, n, C) # p + n => m[Within(m, p, n, C)] \in C
<1>. DEFINE r == [m |-> m, p |-> p, n |-> n, C |-> C]
            Kept == {y \in Seeks : /\ y.m = m /\ y.C = C /\ y.p + y.n = p + n /\ y.p >= p
                                   /\ \A x \in p .. y.p - 1 : m[x] \notin C}
<1>1. r \in Kept
  BY DEF Seeks
<1>2. Keeps(Kept, Seeks, SeekMore, SeekTurn)
  <2>1. SUFFICES ASSUME NEW y \in Kept, y \in SeekMore PROVE SeekTurn[y] \in Kept
    BY DEF Keeps
  <2>2. y \in Seeks /\ SeekTurn[y] = SeekNext(y)
    BY <2>1 DEF SeekTurn
  <2>. QED BY <2>1, <2>2, SeekNextIs DEF SeekMore
<1>3. PICK y \in Kept : y \notin SeekMore /\ Seek[r] = SeekOut[y]
  <2>. HIDE DEF Kept, r
  <2>. QED BY <1>1, <1>2, SeekFalls, SeekLoops, LoopEnds
<1>4. y \in Seeks /\ Seek[r] = y.p
  BY <1>3 DEF SeekOut
<1>. QED BY <1>3, <1>4, SeekNextIs DEF SeekMore, Within

(* The search downwards.                                                   *)
BackNext(r) == [m |-> r.m, p |-> r.p - 1, n |-> r.n - 1, C |-> r.C]
BackTurn == [r \in Seeks |-> IF r \in SeekMore THEN BackNext(r) ELSE r]

(* A turn of the search downwards.                                         *)
LEMMA BackNextIs ==
  ASSUME NEW r \in Seeks
  PROVE  /\ r.m \in Mem /\ r.p \in Int /\ r.n \in Nat /\ r.C \subseteq Chars
         /\ BackNext(r).m = r.m /\ BackNext(r).C = r.C
         /\ BackNext(r).p = r.p - 1 /\ BackNext(r).n = r.n - 1
         /\ r \in SeekMore => BackNext(r) \in Seeks
BY DEF Seeks, BackNext, SeekMore

(* Each turn of the search downwards comes closer to its end.              *)
LEMMA BackFalls ==
  /\ SeekLeft \in [Seeks -> Nat] /\ BackTurn \in [Seeks -> Seeks]
  /\ Falls(SeekLeft, Seeks, SeekMore, BackTurn)
<1>1. SeekLeft \in [Seeks -> Nat] /\ BackTurn \in [Seeks -> Seeks]
  BY BackNextIs DEF SeekLeft, BackTurn
<1>2. Falls(SeekLeft, Seeks, SeekMore, BackTurn)
  BY BackNextIs DEF Falls, SeekLeft, BackTurn, SeekMore
<1>. QED BY <1>1, <1>2

(* So the search downwards is a function.                                  *)
LEMMA BackLoops == Loops(SeekDown, Seeks, SeekMore, BackTurn, SeekOut)
<1>1. SeekOut = [r \in Seeks |-> SeekOut[r]]
  BY DEF SeekOut
<1>2. PICK f : f = [r \in Seeks |-> IF r \in SeekMore THEN f[BackTurn[r]] ELSE SeekOut[r]]
  BY <1>1, BackFalls, LoopFound
<1>3. f = [r \in Seeks |-> IF r.n = 0 \/ r.m[r.p] \in r.C THEN r.p ELSE f[BackNext(r)]]
  BY <1>2 DEF SeekMore, BackTurn, SeekOut
<1>4. SeekDown = [r \in Seeks |-> IF r.n = 0 \/ r.m[r.p] \in r.C THEN r.p
                                  ELSE SeekDown[BackNext(r)]]
  BY <1>3 DEF SeekDown, BackNext
<1>. QED BY <1>4 DEF Loops, SeekMore, BackTurn, SeekOut

(* It stops at the last byte of C, or before the first.                    *)
LEMMA BackIs ==
  ASSUME NEW m \in Mem, NEW p \in Int, NEW e \in Int, e >= p - 1, NEW C \in SUBSET Chars
  PROVE  /\ DownTo(m, p, e, C) \in p - 1 .. e
         /\ \A x \in DownTo(m, p, e, C) + 1 .. e : m[x] \notin C
         /\ DownTo(m, p, e, C) # p - 1 => m[DownTo(m, p, e, C)] \in C
<1>. DEFINE r == [m |-> m, p |-> e, n |-> e - p + 1, C |-> C]
            Kept == {y \in Seeks : /\ y.m = m /\ y.C = C /\ y.p - y.n = p - 1 /\ y.p <= e
                                   /\ \A x \in y.p + 1 .. e : m[x] \notin C}
<1>1. r \in Kept
  BY DEF Seeks
<1>2. Keeps(Kept, Seeks, SeekMore, BackTurn)
  <2>1. SUFFICES ASSUME NEW y \in Kept, y \in SeekMore PROVE BackTurn[y] \in Kept
    BY DEF Keeps
  <2>2. y \in Seeks /\ BackTurn[y] = BackNext(y)
    BY <2>1 DEF BackTurn
  <2>. QED BY <2>1, <2>2, BackNextIs DEF SeekMore
<1>3. PICK y \in Kept : y \notin SeekMore /\ SeekDown[r] = SeekOut[y]
  <2>. HIDE DEF Kept, r
  <2>. QED BY <1>1, <1>2, BackFalls, BackLoops, LoopEnds
<1>4. y \in Seeks /\ SeekDown[r] = y.p
  BY <1>3 DEF SeekOut
<1>. QED BY <1>3, <1>4, BackNextIs DEF SeekMore, DownTo

-----------------------------------------------------------------------------
(* Two areas. *)

AgreeMore == {r \in Pairs : r.n # 0 /\ r.fold[r.m[r.a]] = r.fold[r.m[r.b]] /\ r.m[r.a] \notin r.end}
AgreeNext(r) == [m |-> r.m, a |-> r.a + 1, b |-> r.b + 1, n |-> r.n - 1, fold |-> r.fold,
                 end |-> r.end]
AgreeTurn == [r \in Pairs |-> IF r \in AgreeMore THEN AgreeNext(r) ELSE r]
AgreeLeft == [r \in Pairs |-> r.n]
AgreeOut == [r \in Pairs |-> r]

(* A turn of the comparison.                                               *)
LEMMA AgreeNextIs ==
  ASSUME NEW r \in Pairs
  PROVE  /\ r.m \in Mem /\ r.a \in Int /\ r.b \in Int /\ r.n \in Nat
         /\ r.fold \in [Chars -> Chars] /\ r.end \subseteq Chars
         /\ AgreeNext(r).m = r.m /\ AgreeNext(r).fold = r.fold /\ AgreeNext(r).end = r.end
         /\ AgreeNext(r).a = r.a + 1 /\ AgreeNext(r).b = r.b + 1 /\ AgreeNext(r).n = r.n - 1
         /\ r \in AgreeMore => AgreeNext(r) \in Pairs
BY DEF Pairs, AgreeNext, AgreeMore

(* Each turn of the comparison comes closer to its end.                    *)
LEMMA AgreeFalls ==
  /\ AgreeLeft \in [Pairs -> Nat] /\ AgreeTurn \in [Pairs -> Pairs]
  /\ Falls(AgreeLeft, Pairs, AgreeMore, AgreeTurn)
<1>1. AgreeLeft \in [Pairs -> Nat] /\ AgreeTurn \in [Pairs -> Pairs]
  BY AgreeNextIs DEF AgreeLeft, AgreeTurn
<1>2. Falls(AgreeLeft, Pairs, AgreeMore, AgreeTurn)
  BY AgreeNextIs DEF Falls, AgreeLeft, AgreeTurn, AgreeMore
<1>. QED BY <1>1, <1>2

(* So the comparison is a function.                                        *)
LEMMA AgreeLoops == Loops(Agree, Pairs, AgreeMore, AgreeTurn, AgreeOut)
<1>1. AgreeOut = [r \in Pairs |-> AgreeOut[r]]
  BY DEF AgreeOut
<1>2. PICK f : f = [r \in Pairs |-> IF r \in AgreeMore THEN f[AgreeTurn[r]] ELSE AgreeOut[r]]
  BY <1>1, AgreeFalls, LoopFound
<1>3. f = [r \in Pairs |->
             IF r.n = 0 \/ r.fold[r.m[r.a]] # r.fold[r.m[r.b]] \/ r.m[r.a] \in r.end THEN r
             ELSE f[AgreeNext(r)]]
  BY <1>2, SMTT(60) DEF AgreeMore, AgreeTurn, AgreeOut
<1>4. Agree = [r \in Pairs |->
                 IF r.n = 0 \/ r.fold[r.m[r.a]] # r.fold[r.m[r.b]] \/ r.m[r.a] \in r.end THEN r
                 ELSE Agree[AgreeNext(r)]]
  BY <1>3, ZenonT(60) DEF Agree, AgreeNext
<1>. QED BY <1>4 DEF Loops, AgreeMore, AgreeTurn, AgreeOut

(* It stops behind i pairs that are the same and none of end.              *)
PartAt(m, a, b, n, fold, end, i) ==
  /\ Parting(m, a, b, n, fold, end).a = a + i
  /\ Parting(m, a, b, n, fold, end).b = b + i
  /\ Parting(m, a, b, n, fold, end).n = n - i
  /\ \A k \in 0 .. i - 1 : fold[m[a + k]] = fold[m[b + k]] /\ m[a + k] \notin end
  /\ i < n => fold[m[a + i]] # fold[m[b + i]] \/ m[a + i] \in end

(* The comparison ends at some pair, all pairs before it being the same.   *)
LEMMA PartingIs ==
  ASSUME NEW m \in Mem, NEW a \in Int, NEW b \in Int, NEW n \in Nat,
         NEW fold \in [Chars -> Chars], NEW end \in SUBSET Chars
  PROVE  \E i \in 0 .. n : PartAt(m, a, b, n, fold, end, i)
<1>. DEFINE r == [m |-> m, a |-> a, b |-> b, n |-> n, fold |-> fold, end |-> end]
            Kept == {y \in Pairs :
                       /\ y.m = m /\ y.fold = fold /\ y.end = end
                       /\ y.a - a = n - y.n /\ y.b - b = n - y.n /\ y.n <= n
                       /\ \A k \in 0 .. n - y.n - 1 :
                            fold[m[a + k]] = fold[m[b + k]] /\ m[a + k] \notin end}
<1>1. r \in Kept
  BY DEF Pairs
<1>2. Keeps(Kept, Pairs, AgreeMore, AgreeTurn)
  <2>1. SUFFICES ASSUME NEW y \in Kept, y \in AgreeMore PROVE AgreeTurn[y] \in Kept
    BY DEF Keeps
  <2>2. y \in Pairs /\ AgreeTurn[y] = AgreeNext(y)
    BY <2>1 DEF AgreeTurn
  <2>3. AgreeNext(y) \in Pairs
    BY <2>1, <2>2, AgreeNextIs
  <2>4. /\ y.a = a + (n - y.n) /\ y.b = b + (n - y.n) /\ y.n \in Nat /\ y.n # 0
        /\ fold[m[y.a]] = fold[m[y.b]] /\ m[y.a] \notin end
    BY <2>1, <2>2, AgreeNextIs DEF AgreeMore
  <2>5. \A k \in 0 .. n - (y.n - 1) - 1 :
          fold[m[a + k]] = fold[m[b + k]] /\ m[a + k] \notin end
    BY <2>1, <2>4
  <2>. QED BY <2>1, <2>2, <2>3, <2>4, <2>5, AgreeNextIs
<1>3. PICK y \in Kept : y \notin AgreeMore /\ Agree[r] = AgreeOut[y]
  <2>. HIDE DEF Kept, r
  <2>. QED BY <1>1, <1>2, AgreeFalls, AgreeLoops, LoopEnds
<1>4. y \in Pairs /\ Parting(m, a, b, n, fold, end) = y
  BY <1>3 DEF AgreeOut, Parting
<1>5. /\ y.a = a + (n - y.n) /\ y.b = b + (n - y.n) /\ y.n \in 0 .. n
      /\ n - y.n \in 0 .. n /\ n - (n - y.n) = y.n
  BY <1>3, <1>4, AgreeNextIs
<1>6. n - y.n < n => fold[m[a + (n - y.n)]] # fold[m[b + (n - y.n)]] \/ m[a + (n - y.n)] \in end
  BY <1>3, <1>4, <1>5, AgreeNextIs DEF AgreeMore
<1>7. PartAt(m, a, b, n, fold, end, n - y.n)
  <2>. HIDE DEF Kept
  <2>1. \A k \in 0 .. n - y.n - 1 : fold[m[a + k]] = fold[m[b + k]] /\ m[a + k] \notin end
    BY <1>3 DEF Kept
  <2>. QED BY <1>4, <1>5, <1>6, <2>1 DEF PartAt
<1>. QED BY <1>5, <1>7

-----------------------------------------------------------------------------
(* Copies. *)

CopyMore == {r \in Moves : r.n # 0 /\ r.m[r.s] \in r.on}
CopyNext(r) == [m |-> Copied(r), d |-> r.d + 1, s |-> r.s + 1, n |-> r.n - 1, on |-> r.on]
CopyLast(r) == [m |-> Copied(r), d |-> r.d, s |-> r.s, n |-> r.n, on |-> r.on]
CopyTurn == [r \in Moves |-> IF r \in CopyMore THEN CopyNext(r) ELSE r]
CopyLeft == [r \in Moves |-> r.n]
CopyOut == [r \in Moves |-> IF r.n = 0 THEN r ELSE CopyLast(r)]

(* A turn of the copy upwards.                                             *)
LEMMA CopyNextIs ==
  ASSUME NEW r \in Moves
  PROVE  /\ r.m \in Mem /\ r.d \in Int /\ r.s \in Int /\ r.n \in Nat /\ r.on \subseteq Chars
         /\ CopyNext(r).m = Copied(r) /\ CopyNext(r).on = r.on
         /\ CopyNext(r).d = r.d + 1 /\ CopyNext(r).s = r.s + 1 /\ CopyNext(r).n = r.n - 1
         /\ r \in CopyMore => CopyNext(r) \in Moves
<1>1. /\ r.m \in Mem /\ r.d \in Int /\ r.s \in Int /\ r.n \in Nat /\ r.on \subseteq Chars
      /\ CopyNext(r).m = Copied(r) /\ CopyNext(r).on = r.on
      /\ CopyNext(r).d = r.d + 1 /\ CopyNext(r).s = r.s + 1 /\ CopyNext(r).n = r.n - 1
  BY DEF Moves, CopyNext
<1>2. ASSUME r \in CopyMore PROVE CopyNext(r) \in Moves
  <2>1. r.m[r.s] \in Chars /\ r.n - 1 \in Nat
    BY <1>1, <1>2 DEF CopyMore
  <2>2. Copied(r) \in Mem
    BY <1>1, <2>1, StoreIs DEF Copied
  <2>. QED BY <1>1, <2>1, <2>2 DEF Moves, CopyNext
<1>. QED BY <1>1, <1>2

(* Each turn of the copy upwards comes closer to its end.                  *)
LEMMA CopyFalls ==
  /\ CopyLeft \in [Moves -> Nat] /\ CopyTurn \in [Moves -> Moves]
  /\ Falls(CopyLeft, Moves, CopyMore, CopyTurn)
<1>1. CopyLeft \in [Moves -> Nat] /\ CopyTurn \in [Moves -> Moves]
  BY CopyNextIs DEF CopyLeft, CopyTurn
<1>2. Falls(CopyLeft, Moves, CopyMore, CopyTurn)
  BY CopyNextIs DEF Falls, CopyLeft, CopyTurn, CopyMore
<1>. QED BY <1>1, <1>2

(* So the copy upwards is a function.                                      *)
LEMMA CopyLoops == Loops(Copy, Moves, CopyMore, CopyTurn, CopyOut)
<1>1. CopyOut = [r \in Moves |-> CopyOut[r]]
  BY DEF CopyOut
<1>2. PICK f : f = [r \in Moves |-> IF r \in CopyMore THEN f[CopyTurn[r]] ELSE CopyOut[r]]
  BY <1>1, CopyFalls, LoopFound
<1>3. f = [r \in Moves |-> IF r.n = 0 THEN r
                           ELSE IF r.m[r.s] \in r.on THEN f[CopyNext(r)]
                           ELSE CopyLast(r)]
  BY <1>2, SMTT(60) DEF CopyMore, CopyTurn, CopyOut
<1>4. Copy = [r \in Moves |-> IF r.n = 0 THEN r
                              ELSE IF r.m[r.s] \in r.on THEN Copy[CopyNext(r)]
                              ELSE CopyLast(r)]
  BY <1>3 DEF Copy, CopyNext, CopyLast
<1>. QED BY <1>4 DEF Loops, CopyMore, CopyTurn, CopyOut

(* The memory with k bytes of s at d.                                      *)
Moved(m, d, s, k) == [x \in Addr |-> IF x \in d .. d + k - 1 THEN m[x - d + s] ELSE m[x]]

(* The loop reads no byte it has written.                                  *)
Safe(d, s, k) == d + k <= MemSize /\ s + k <= MemSize /\ (Apart(d, k, s, k) \/ d <= s)

Turns(m, d, s, j) ==
  /\ Moved(m, d, s, j)[s + j] = m[s + j]
  /\ Store(Moved(m, d, s, j), d + j, m[s + j]) = Moved(m, d, s, j + 1)

(* Copying one more byte upwards of areas that allow it is one byte more   *)
(* of the copy.                                                            *)
LEMMA MovedOne ==
  ASSUME NEW m \in Mem, NEW d \in Nat, NEW s \in Nat, NEW k \in Nat, Safe(d, s, k),
         NEW j \in 0 .. k - 1
  PROVE  Turns(m, d, s, j)
<1>1. s + j \in Addr /\ d + j \in Addr /\ MemSize \in Nat /\ s + j \notin d .. d + j - 1
  BY Bytes0 DEF Addr, Apart, Safe
<1>2. Moved(m, d, s, j)[s + j] = m[s + j] /\ m[s + j] \in Chars
  BY <1>1 DEF Moved, Mem
<1>3. Store(Moved(m, d, s, j), d + j, m[s + j])
        = [x \in Addr |-> IF x = d + j THEN m[s + j] ELSE Moved(m, d, s, j)[x]]
  BY <1>1 DEF Store, Moved
<1>4. ASSUME NEW x \in Addr
      PROVE  (IF x = d + j THEN m[s + j] ELSE Moved(m, d, s, j)[x])
               = IF x \in d .. d + (j + 1) - 1 THEN m[x - d + s] ELSE m[x]
  <2>1. x \in Int /\ (x = d + j => x - d + s = s + j)
    BY Bytes0 DEF Addr
  <2>2. Moved(m, d, s, j)[x] = IF x \in d .. d + j - 1 THEN m[x - d + s] ELSE m[x]
    BY DEF Moved
  <2>. QED BY <2>1, <2>2
<1>. QED BY <1>2, <1>3, <1>4 DEF Moved, Turns

(* A copy is a memory.                                                     *)
LEMMA MovedIn ==
  ASSUME NEW m \in Mem, NEW d \in Nat, NEW s \in Nat, NEW k \in Nat, s + k <= MemSize
  PROVE  Moved(m, d, s, k) \in Mem
<1>1. ASSUME NEW x \in Addr, x \in d .. d + k - 1 PROVE x - d + s \in Addr
  BY <1>1, Bytes0 DEF Addr
<1>. QED BY <1>1, Bytes0 DEF Moved, Mem

(* i bytes of on are followed by the end or by one that is copied too.     *)
Stops(m, s, n, on, i) ==
  /\ i \in 0 .. n /\ \A j \in 0 .. i - 1 : m[s + j] \in on
  /\ i < n => m[s + i] \notin on
Taken(n, i) == IF i < n THEN i + 1 ELSE i

(* The copy upwards: the bytes up to the one it stops at are copied, and   *)
(* its pointers and count are there.                                       *)
LEMMA MoveIs ==
  ASSUME NEW m \in Mem, NEW d \in Nat, NEW s \in Nat, NEW n \in Nat, NEW on \in SUBSET Chars,
         NEW i, Stops(m, s, n, on, i), Safe(d, s, Taken(n, i))
  PROVE  /\ Move(m, d, s, n, on).m = Moved(m, d, s, Taken(n, i))
         /\ Move(m, d, s, n, on).d = d + i /\ Move(m, d, s, n, on).n = n - i
<1>. DEFINE k == Taken(n, i)
<1>10. i \in 0 .. n /\ i \in Nat
  BY DEF Stops
<1>11. k = (IF i < n THEN i + 1 ELSE i) /\ k \in Nat /\ Safe(d, s, k)
  BY <1>10 DEF Taken
<1>12. (\A j \in 0 .. i - 1 : m[s + j] \in on) /\ (i < n => m[s + i] \notin on)
  BY DEF Stops
<1>. HIDE DEF k
<1>0. ASSUME NEW j \in 0 .. k - 1
      PROVE  Turns(m, d, s, j)
  BY <1>11, MovedOne
<1>. DEFINE r == [m |-> m, d |-> d, s |-> s, n |-> n, on |-> on]
            Kept == {y \in Moves : /\ y.on = on /\ y.d - d = n - y.n /\ y.s - s = n - y.n
                                   /\ n - y.n \in 0 .. i /\ y.m = Moved(m, d, s, n - y.n)}
<1>1. r \in Kept
  <2>1. Moved(m, d, s, n - n) = m
    BY Bytes0 DEF Moved, Mem
  <2>. QED BY <1>10, <2>1 DEF Moves
<1>2. ASSUME NEW y \in Kept
      PROVE  /\ y \in Moves /\ y.on = on /\ y.d = d + (n - y.n) /\ y.s = s + (n - y.n)
             /\ y.n \in Nat /\ n - y.n \in 0 .. i /\ y.m = Moved(m, d, s, n - y.n)
             /\ n - y.n < k => /\ y.m[y.s] = m[s + (n - y.n)]
                               /\ Copied(y) = Moved(m, d, s, (n - y.n) + 1)
  <2>1. /\ y \in Moves /\ y.on = on /\ y.d = d + (n - y.n) /\ y.s = s + (n - y.n)
        /\ y.n \in Nat /\ n - y.n \in 0 .. i /\ y.m = Moved(m, d, s, n - y.n)
    BY <1>2, <1>10, CopyNextIs
  <2>2. ASSUME n - y.n < k
        PROVE  y.m[y.s] = m[s + (n - y.n)] /\ Copied(y) = Moved(m, d, s, (n - y.n) + 1)
    <3>1. n - y.n \in 0 .. k - 1
      <4>. HIDE DEF Kept
      <4>. QED BY <1>10, <1>11, <2>1, <2>2
    <3>2. /\ Moved(m, d, s, n - y.n)[s + (n - y.n)] = m[s + (n - y.n)]
          /\ Store(Moved(m, d, s, n - y.n), d + (n - y.n), m[s + (n - y.n)])
               = Moved(m, d, s, (n - y.n) + 1)
      <4>. HIDE DEF Kept
      <4>. QED BY <1>0, <3>1 DEF Turns
    <3>3. y.m[y.s] = m[s + (n - y.n)]
      BY <2>1, <3>2
    <3>4. Copied(y) = Store(Moved(m, d, s, n - y.n), d + (n - y.n), m[s + (n - y.n)])
      BY <2>1, <3>3 DEF Copied
    <3>. QED BY <3>2, <3>3, <3>4
  <2>. QED BY <2>1, <2>2
<1>3. Keeps(Kept, Moves, CopyMore, CopyTurn)
  <2>1. SUFFICES ASSUME NEW y \in Kept, y \in CopyMore PROVE CopyTurn[y] \in Kept
    BY DEF Keeps
  <2>2. y \in Moves /\ CopyTurn[y] = CopyNext(y) /\ CopyNext(y) \in Moves /\ y.n # 0
    BY <2>1, CopyNextIs DEF CopyTurn, CopyMore
  <2>3. y.n \in Nat /\ n - y.n \in 0 .. i /\ n - y.n < n /\ n - y.n < k
    <3>1. y.n \in Nat /\ n - y.n \in 0 .. i
      BY <1>2
    <3>. HIDE DEF Kept
    <3>. QED BY <1>10, <1>11, <2>2, <3>1
  <2>4. m[s + (n - y.n)] \in on
    BY <1>2, <2>1, <2>3 DEF CopyMore
  <2>5. n - y.n < i
    <3>1. n - y.n # i
      BY <1>10, <1>12, <2>3, <2>4
    <3>. HIDE DEF Kept
    <3>. QED BY <1>10, <2>3, <3>1
  <2>6. (n - y.n) + 1 = n - (y.n - 1)
    BY <2>3
  <2>7. /\ CopyNext(y).m = Moved(m, d, s, n - CopyNext(y).n) /\ CopyNext(y).on = on
        /\ CopyNext(y).n = y.n - 1 /\ CopyNext(y).d = y.d + 1 /\ CopyNext(y).s = y.s + 1
    BY <1>2, <2>2, <2>3, <2>6, CopyNextIs
  <2>. HIDE DEF CopyNext
  <2>. QED BY <1>10, <1>2, <2>2, <2>3, <2>5, <2>7
<1>4. PICK y \in Kept : y \notin CopyMore /\ Copy[r] = CopyOut[y]
  <2>. HIDE DEF Kept, r
  <2>. QED BY <1>1, <1>3, CopyFalls, CopyLoops, LoopEnds
<1>5. /\ y \in Moves /\ y.n \in Nat /\ n - y.n \in 0 .. i /\ y.m = Moved(m, d, s, n - y.n)
      /\ y.d = d + (n - y.n)
      /\ n - y.n < k => y.m[y.s] = m[s + (n - y.n)] /\ Copied(y) = Moved(m, d, s, (n - y.n) + 1)
      /\ y.on = on
  <2>. HIDE DEF Kept
  <2>. QED BY <1>2, <1>4
<1>6. Move(m, d, s, n, on) = IF y.n = 0 THEN y ELSE CopyLast(y)
  BY <1>4, <1>5 DEF CopyOut, Move
<1>7. n - y.n = i
  <2>1. ASSUME n - y.n < i PROVE FALSE
    <3>1. m[s + (n - y.n)] \in on
      <4>. HIDE DEF Kept
      <4>1. n - y.n \in 0 .. i - 1
        BY <1>5, <1>10, <2>1
      <4>. QED BY <1>12, <4>1
    <3>2. n - y.n < k /\ y.n # 0
      <4>. HIDE DEF Kept
      <4>. QED BY <1>5, <1>10, <1>11, <2>1
    <3>. QED BY <1>4, <1>5, <3>1, <3>2 DEF CopyMore
  <2>. HIDE DEF Kept
  <2>. QED BY <1>5, <1>10, <2>1
<1>8. CASE y.n = 0
  BY <1>10, <1>11, <1>5, <1>6, <1>7, <1>8 DEF k
<1>9. CASE y.n # 0
  <2>1. i < n /\ k = i + 1 /\ y.n = n - i
    BY <1>10, <1>11, <1>5, <1>7, <1>9
  <2>2. CopyLast(y).m = Copied(y) /\ CopyLast(y).d = y.d /\ CopyLast(y).n = y.n
    BY DEF CopyLast
  <2>. QED BY <1>5, <1>6, <1>7, <1>9, <2>1, <2>2 DEF k
<1>. QED BY <1>8, <1>9

(* From the last byte down.                                                *)
DownMore == {r \in Blocks : r.n # 0}
DownNext(r) == [m |-> Store(r.m, r.d + r.n - 1, r.m[r.s + r.n - 1]), d |-> r.d, s |-> r.s,
                n |-> r.n - 1]
DownTurn == [r \in Blocks |-> IF r \in DownMore THEN DownNext(r) ELSE r]
DownLeft == [r \in Blocks |-> r.n]
DownOut == [r \in Blocks |-> r.m]

(* A turn of the copy downwards.                                           *)
LEMMA DownNextIs ==
  ASSUME NEW r \in Blocks
  PROVE  /\ r.m \in Mem /\ r.d \in Int /\ r.s \in Nat /\ r.n \in Nat /\ r.s + r.n <= MemSize
         /\ DownNext(r).m = Store(r.m, r.d + r.n - 1, r.m[r.s + r.n - 1])
         /\ DownNext(r).d = r.d /\ DownNext(r).s = r.s /\ DownNext(r).n = r.n - 1
         /\ r \in DownMore => DownNext(r) \in Blocks
<1>1. /\ r.m \in Mem /\ r.d \in Int /\ r.s \in Nat /\ r.n \in Nat /\ r.s + r.n <= MemSize
      /\ DownNext(r).m = Store(r.m, r.d + r.n - 1, r.m[r.s + r.n - 1])
      /\ DownNext(r).d = r.d /\ DownNext(r).s = r.s /\ DownNext(r).n = r.n - 1
  BY DEF Blocks, DownNext
<1>2. ASSUME r \in DownMore PROVE DownNext(r) \in Blocks
  <2>1. r.s + r.n - 1 \in Addr /\ r.n - 1 \in Nat /\ r.d + r.n - 1 \in Int
    BY <1>1, <1>2, Bytes0 DEF DownMore, Addr
  <2>2. r.m[r.s + r.n - 1] \in Chars
    BY <1>1, <2>1, Bytes0
  <2>3. Store(r.m, r.d + r.n - 1, r.m[r.s + r.n - 1]) \in Mem
    BY <1>1, <2>1, <2>2, StoreIs
  <2>4. r.s + (r.n - 1) <= MemSize
    BY <1>1, Bytes0
  <2>. QED BY <1>1, <2>1, <2>3, <2>4 DEF Blocks, DownNext
<1>. QED BY <1>1, <1>2

(* Each turn of the copy downwards comes closer to its end.                *)
LEMMA DownFalls ==
  /\ DownLeft \in [Blocks -> Nat] /\ DownTurn \in [Blocks -> Blocks]
  /\ Falls(DownLeft, Blocks, DownMore, DownTurn)
<1>1. DownLeft \in [Blocks -> Nat] /\ DownTurn \in [Blocks -> Blocks]
  BY DownNextIs DEF DownLeft, DownTurn
<1>2. Falls(DownLeft, Blocks, DownMore, DownTurn)
  BY DownNextIs DEF Falls, DownLeft, DownTurn, DownMore
<1>. QED BY <1>1, <1>2

(* So the copy downwards is a function.                                    *)
LEMMA DownLoops == Loops(CopyDown, Blocks, DownMore, DownTurn, DownOut)
<1>1. DownOut = [r \in Blocks |-> DownOut[r]]
  BY DEF DownOut
<1>2. PICK f : f = [r \in Blocks |-> IF r \in DownMore THEN f[DownTurn[r]] ELSE DownOut[r]]
  BY <1>1, DownFalls, LoopFound
<1>3. f = [r \in Blocks |-> IF r.n = 0 THEN r.m ELSE f[DownNext(r)]]
  BY <1>2, SMTT(60) DEF DownMore, DownTurn, DownOut
<1>4. CopyDown = [r \in Blocks |-> IF r.n = 0 THEN r.m ELSE CopyDown[DownNext(r)]]
  BY <1>3 DEF CopyDown, DownNext
<1>. QED BY <1>4 DEF Loops, DownMore, DownTurn, DownOut

(* The memory with the bytes from the j-th on copied.                      *)
Above(m, d, s, n, j) == [x \in Addr |-> IF x \in d + j .. d + n - 1 THEN m[x - d + s] ELSE m[x]]
Falling(m, d, s, n, j) ==
  /\ Above(m, d, s, n, j)[s + j - 1] = m[s + j - 1]
  /\ Store(Above(m, d, s, n, j), d + j - 1, m[s + j - 1]) = Above(m, d, s, n, j - 1)

(* Copying one more byte downwards to an area above: one byte less is      *)
(* left of the copy.                                                       *)
LEMMA AboveOne ==
  ASSUME NEW m \in Mem, NEW d \in Nat, NEW s \in Nat, NEW n \in Nat, d > s, d + n <= MemSize,
         NEW j \in 1 .. n
  PROVE  Falling(m, d, s, n, j)
<1>1. /\ s + j - 1 \in Addr /\ d + j - 1 \in Addr /\ MemSize \in Nat
      /\ s + j - 1 \notin d + j .. d + n - 1
  BY Bytes0 DEF Addr
<1>2. Above(m, d, s, n, j)[s + j - 1] = m[s + j - 1]
  BY <1>1 DEF Above
<1>3. Store(Above(m, d, s, n, j), d + j - 1, m[s + j - 1])
        = [x \in Addr |-> IF x = d + j - 1 THEN m[s + j - 1] ELSE Above(m, d, s, n, j)[x]]
  BY <1>1 DEF Store, Above
<1>4. ASSUME NEW x \in Addr
      PROVE  (IF x = d + j - 1 THEN m[s + j - 1] ELSE Above(m, d, s, n, j)[x])
               = IF x \in d + (j - 1) .. d + n - 1 THEN m[x - d + s] ELSE m[x]
  <2>1. x \in Int /\ (x = d + j - 1 => x - d + s = s + j - 1)
    BY Bytes0 DEF Addr
  <2>2. Above(m, d, s, n, j)[x] = IF x \in d + j .. d + n - 1 THEN m[x - d + s] ELSE m[x]
    BY DEF Above
  <2>. QED BY <2>1, <2>2
<1>5. Above(m, d, s, n, j - 1)
        = [x \in Addr |-> IF x \in d + (j - 1) .. d + n - 1 THEN m[x - d + s] ELSE m[x]]
  BY DEF Above
<1>. QED BY <1>2, <1>3, <1>4, <1>5 DEF Falling

(* The copy downwards to an area above is a copy of what was there.        *)
LEMMA CopyDownIs ==
  ASSUME NEW m \in Mem, NEW d \in Nat, NEW s \in Nat, NEW n \in Nat, d > s, d + n <= MemSize
  PROVE  CopyDown[[m |-> m, d |-> d, s |-> s, n |-> n]] = Moved(m, d, s, n)
<1>0. ASSUME NEW j \in 1 .. n PROVE Falling(m, d, s, n, j)
  BY AboveOne
<1>. DEFINE r == [m |-> m, d |-> d, s |-> s, n |-> n]
            Kept == {y \in Blocks : /\ y.d = d /\ y.s = s /\ y.n <= n
                                    /\ y.m = Above(m, d, s, n, y.n)}
<1>1. r \in Kept
  <2>1. Above(m, d, s, n, n) = m
    <3>1. \A x \in Addr : x \notin d + n .. d + n - 1
      BY Bytes0
    <3>. QED BY <3>1 DEF Above, Mem
  <2>2. s + n <= MemSize
    BY Bytes0
  <2>. QED BY <2>1, <2>2 DEF Blocks
<1>2. Keeps(Kept, Blocks, DownMore, DownTurn)
  <2>1. SUFFICES ASSUME NEW y \in Kept, y \in DownMore PROVE DownTurn[y] \in Kept
    BY DEF Keeps
  <2>2. /\ y \in Blocks /\ DownTurn[y] = DownNext(y) /\ DownNext(y) \in Blocks
        /\ y.n \in 1 .. n /\ y.d = d /\ y.s = s /\ y.m = Above(m, d, s, n, y.n)
    BY <2>1, DownNextIs DEF DownTurn, DownMore
  <2>3. Store(y.m, y.d + y.n - 1, y.m[y.s + y.n - 1]) = Above(m, d, s, n, y.n - 1)
    <3>. HIDE DEF Kept
    <3>. QED BY <1>0, <2>2 DEF Falling
  <2>4. /\ DownNext(y).m = Above(m, d, s, n, y.n - 1) /\ DownNext(y).n = y.n - 1
        /\ DownNext(y).d = d /\ DownNext(y).s = s
    BY <2>2, <2>3, DownNextIs
  <2>. QED BY <2>2, <2>4
<1>3. PICK y \in Kept : y \notin DownMore /\ CopyDown[r] = DownOut[y]
  <2>. HIDE DEF Kept, r
  <2>. QED BY <1>1, <1>2, DownFalls, DownLoops, LoopEnds
<1>4. CopyDown[r] = Above(m, d, s, n, 0)
  BY <1>3 DEF DownOut, DownMore
<1>5. Above(m, d, s, n, 0) = Moved(m, d, s, n)
  BY DEF Above, Moved
<1>. QED BY <1>4, <1>5

-----------------------------------------------------------------------------
(* Fills and swaps. *)

FillMore == {r \in Areas : r.n # 0}
FillNext(r) == [m |-> Store(r.m, r.p, r.c), p |-> r.p + 1, c |-> r.c, n |-> r.n - 1]
FillTurn == [r \in Areas |-> IF r \in FillMore THEN FillNext(r) ELSE r]
FillLeft == [r \in Areas |-> r.n]
FillOut == [r \in Areas |-> r.m]

(* A turn of the filling.                                                  *)
LEMMA FillNextIs ==
  ASSUME NEW r \in Areas
  PROVE  /\ r.m \in Mem /\ r.p \in Int /\ r.c \in Chars /\ r.n \in Nat
         /\ FillNext(r).m = Store(r.m, r.p, r.c) /\ FillNext(r).c = r.c
         /\ FillNext(r).p = r.p + 1 /\ FillNext(r).n = r.n - 1
         /\ r \in FillMore => FillNext(r) \in Areas
<1>1. /\ r.m \in Mem /\ r.p \in Int /\ r.c \in Chars /\ r.n \in Nat
      /\ FillNext(r).m = Store(r.m, r.p, r.c) /\ FillNext(r).c = r.c
      /\ FillNext(r).p = r.p + 1 /\ FillNext(r).n = r.n - 1
  BY DEF Areas, FillNext
<1>2. Store(r.m, r.p, r.c) \in Mem
  BY <1>1, StoreIs
<1>. QED BY <1>1, <1>2 DEF Areas, FillNext, FillMore

(* Each turn of the filling comes closer to its end.                       *)
LEMMA FillFalls ==
  /\ FillLeft \in [Areas -> Nat] /\ FillTurn \in [Areas -> Areas]
  /\ Falls(FillLeft, Areas, FillMore, FillTurn)
<1>1. FillLeft \in [Areas -> Nat] /\ FillTurn \in [Areas -> Areas]
  BY FillNextIs DEF FillLeft, FillTurn
<1>2. Falls(FillLeft, Areas, FillMore, FillTurn)
  BY FillNextIs DEF Falls, FillLeft, FillTurn, FillMore
<1>. QED BY <1>1, <1>2

(* So the filling is a function.                                           *)
LEMMA FillLoops == Loops(Fill, Areas, FillMore, FillTurn, FillOut)
<1>1. FillOut = [r \in Areas |-> FillOut[r]]
  BY DEF FillOut
<1>2. PICK f : f = [r \in Areas |-> IF r \in FillMore THEN f[FillTurn[r]] ELSE FillOut[r]]
  BY <1>1, FillFalls, LoopFound
<1>3. f = [r \in Areas |-> IF r.n = 0 THEN r.m ELSE f[FillNext(r)]]
  BY <1>2 DEF FillMore, FillTurn, FillOut
<1>4. Fill = [r \in Areas |-> IF r.n = 0 THEN r.m ELSE Fill[FillNext(r)]]
  BY <1>3 DEF Fill, FillNext
<1>. QED BY <1>4 DEF Loops, FillMore, FillTurn, FillOut

Filled(m, p, c, k) == [x \in Addr |-> IF x \in p .. p + k - 1 THEN c ELSE m[x]]

(* One more byte is filled.                                                *)
LEMMA FilledOne ==
  ASSUME NEW m \in Mem, NEW p \in Int, NEW c \in Chars, NEW k \in Nat
  PROVE  Store(Filled(m, p, c, k), p + k, c) = Filled(m, p, c, k + 1)
<1>1. Store(Filled(m, p, c, k), p + k, c)
        = [x \in Addr |-> IF x = p + k THEN c ELSE Filled(m, p, c, k)[x]]
  BY DEF Filled, Store
<1>2. ASSUME NEW x \in Addr
      PROVE  (IF x = p + k THEN c ELSE Filled(m, p, c, k)[x])
               = IF x \in p .. p + (k + 1) - 1 THEN c ELSE m[x]
  BY Bytes0 DEF Filled
<1>. QED BY <1>1, <1>2 DEF Filled

(* memset() fills n bytes.                                                 *)
LEMMA MemsetIs ==
  ASSUME NEW m \in Mem, NEW p \in Int, NEW c \in Chars, NEW n \in Nat
  PROVE  Memset(m, p, c, n) = Filled(m, p, c, n)
<1>. DEFINE r == [m |-> m, p |-> p, c |-> c, n |-> n]
            Kept == {y \in Areas : /\ y.c = c /\ y.n <= n /\ y.p - p = n - y.n
                                   /\ y.m = Filled(m, p, c, n - y.n)}
<1>1. r \in Kept
  <2>1. Filled(m, p, c, n - n) = m
    BY Bytes0 DEF Filled, Mem
  <2>. QED BY <2>1 DEF Areas
<1>2. Keeps(Kept, Areas, FillMore, FillTurn)
  <2>1. SUFFICES ASSUME NEW y \in Kept, y \in FillMore PROVE FillTurn[y] \in Kept
    BY DEF Keeps
  <2>2. /\ y \in Areas /\ FillTurn[y] = FillNext(y) /\ FillNext(y) \in Areas
        /\ y.n \in 1 .. n /\ y.c = c /\ y.p = p + (n - y.n) /\ y.m = Filled(m, p, c, n - y.n)
    BY <2>1, FillNextIs DEF FillTurn, FillMore
  <2>3. n - y.n \in Nat /\ (n - y.n) + 1 = n - (y.n - 1)
    BY <2>2
  <2>4. Store(y.m, y.p, y.c) = Filled(m, p, c, n - (y.n - 1))
    <3>1. Store(Filled(m, p, c, n - y.n), p + (n - y.n), c) = Filled(m, p, c, (n - y.n) + 1)
      BY <2>3, FilledOne
    <3>. QED BY <2>2, <2>3, <3>1
  <2>5. /\ FillNext(y).m = Filled(m, p, c, n - (y.n - 1)) /\ FillNext(y).n = y.n - 1
        /\ FillNext(y).c = c /\ FillNext(y).p = y.p + 1
    BY <2>2, <2>4, FillNextIs
  <2>. QED BY <2>2, <2>5
<1>3. PICK y \in Kept : y \notin FillMore /\ Fill[r] = FillOut[y]
  <2>. HIDE DEF Kept, r
  <2>. QED BY <1>1, <1>2, FillFalls, FillLoops, LoopEnds
<1>. QED BY <1>3 DEF FillOut, FillMore, Memset

-----------------------------------------------------------------------------
(* Strings. *)

(* A memory in which every string ends.                                    *)
Terminated(m) == m \in Mem /\ m[MemSize - 1] = 0

(* A search for a NUL or another byte of a text that has an end stays in   *)
(* the memory.                                                             *)
LEMMA UntilIs ==
  ASSUME NEW m, Terminated(m), NEW p \in Addr, NEW C \in SUBSET Chars, 0 \in C
  PROVE  /\ Until(m, p, C) \in Addr /\ Until(m, p, C) >= p /\ m[Until(m, p, C)] \in C
         /\ \A x \in p .. Until(m, p, C) - 1 : m[x] \notin C
<1>. DEFINE q == Until(m, p, C)
<1>1. /\ q \in p .. p + NoLimit
      /\ \A x \in p .. q - 1 : m[x] \notin C
      /\ q # p + NoLimit => m[q] \in C
  BY SeekIs, Bytes0 DEF Until, Terminated, NoLimit, Addr
<1>2. MemSize - 1 \notin p .. q - 1
  BY <1>1 DEF Terminated
<1>3. q \in Addr /\ q # p + NoLimit
  BY <1>1, <1>2, Bytes0 DEF Addr, NoLimit
<1>. QED BY <1>1, <1>3

(* The end of a string.                                                    *)
LEMMA StrlenIs ==
  ASSUME NEW m, Terminated(m), NEW p \in Addr
  PROVE  /\ Strlen(m, p) \in Nat /\ p + Strlen(m, p) \in Addr /\ m[p + Strlen(m, p)] = 0
         /\ \A x \in p .. p + Strlen(m, p) - 1 : x \in Addr /\ m[x] \in NonNul
<1>1. /\ Until(m, p, {0}) \in Addr /\ Until(m, p, {0}) >= p /\ m[Until(m, p, {0})] \in {0}
      /\ \A x \in p .. Until(m, p, {0}) - 1 : m[x] \notin {0}
  BY UntilIs, Bytes0
<1>2. p \in Nat /\ Until(m, p, {0}) \in Nat /\ MemSize \in Nat
  BY <1>1, Bytes0
<1>3. Strlen(m, p) \in Nat /\ p + Strlen(m, p) = Until(m, p, {0})
  BY <1>1, <1>2 DEF Strlen
<1>4. ASSUME NEW x \in p .. p + Strlen(m, p) - 1 PROVE x \in Addr /\ m[x] \in NonNul
  <2>1. x \in Addr
    BY <1>1, <1>2, <1>3 DEF Addr
  <2>2. m[x] \in Chars /\ m[x] # 0
    BY <1>1, <1>3, <2>1, Bytes0 DEF Terminated
  <2>. QED BY <2>1, <2>2 DEF NonNul
<1>. QED BY <1>1, <1>3, <1>4

(* Where it is known to be.                                                *)
LEMMA StrlenAt ==
  ASSUME NEW m, Terminated(m), NEW p \in Addr, NEW l \in Nat, p + l \in Addr, m[p + l] = 0,
         \A x \in p .. p + l - 1 : m[x] # 0
  PROVE  Strlen(m, p) = l
<1>1. /\ Strlen(m, p) \in Nat /\ m[p + Strlen(m, p)] = 0 /\ p \in Nat
      /\ \A x \in p .. p + Strlen(m, p) - 1 : m[x] # 0
  BY StrlenIs, Bytes0 DEF NonNul
<1>2. ~(l < Strlen(m, p))
  BY <1>1
<1>3. ~(Strlen(m, p) < l)
  BY <1>1
<1>. QED BY <1>1, <1>2, <1>3

(* A search does not pass the end.                                         *)
LEMMA UntilWithin ==
  ASSUME NEW m, Terminated(m), NEW p \in Addr, NEW C \in SUBSET Chars, 0 \in C
  PROVE  /\ Until(m, p, C) \in p .. p + Strlen(m, p) /\ m[Until(m, p, C)] \in C
         /\ \A x \in p .. Until(m, p, C) - 1 : m[x] \notin C
<1>1. /\ Until(m, p, C) \in Nat /\ Until(m, p, C) >= p /\ m[Until(m, p, C)] \in C
      /\ \A x \in p .. Until(m, p, C) - 1 : m[x] \notin C
  BY UntilIs, Bytes0
<1>2. Strlen(m, p) \in Nat /\ m[p + Strlen(m, p)] = 0 /\ p \in Nat
  BY StrlenIs, Bytes0
<1>. QED BY <1>1, <1>2

-----------------------------------------------------------------------------
(* Pairs of bytes. *)

SwabMore == {r \in Swabs : r.n > 0 /\ r.m[r.p] \in NonNul /\ r.m[r.p + 1] \in NonNul}
SwabNext(r) == [m |-> Store(Store(r.m, r.p, r.m[r.p + 1]), r.p + 1, r.m[r.p]), p |-> r.p + 2,
                n |-> r.n - 1]
SwabTurn == [r \in Swabs |-> IF r \in SwabMore THEN SwabNext(r) ELSE r]
SwabLeft == [r \in Swabs |-> r.n]
SwabOut == [r \in Swabs |-> r.m]

(* A turn of the swapping.                                                 *)
LEMMA SwabNextIs ==
  ASSUME NEW r \in Swabs
  PROVE  /\ r.m \in Mem /\ r.p \in Int /\ r.n \in Nat
         /\ SwabNext(r).m = Store(Store(r.m, r.p, r.m[r.p + 1]), r.p + 1, r.m[r.p])
         /\ SwabNext(r).p = r.p + 2 /\ SwabNext(r).n = r.n - 1
         /\ r \in SwabMore => SwabNext(r) \in Swabs
<1>1. /\ r.m \in Mem /\ r.p \in Int /\ r.n \in Nat
      /\ SwabNext(r).m = Store(Store(r.m, r.p, r.m[r.p + 1]), r.p + 1, r.m[r.p])
      /\ SwabNext(r).p = r.p + 2 /\ SwabNext(r).n = r.n - 1
  BY DEF Swabs, SwabNext
<1>2. ASSUME r \in SwabMore PROVE SwabNext(r) \in Swabs
  <2>1. r.m[r.p] \in Chars /\ r.m[r.p + 1] \in Chars /\ r.n - 1 \in Nat
    BY <1>1, <1>2 DEF SwabMore, NonNul
  <2>2. Store(r.m, r.p, r.m[r.p + 1]) \in Mem
    BY <1>1, <2>1, StoreIs
  <2>3. Store(Store(r.m, r.p, r.m[r.p + 1]), r.p + 1, r.m[r.p]) \in Mem
    BY <1>1, <2>1, <2>2, StoreIs
  <2>. QED BY <1>1, <2>1, <2>3 DEF Swabs, SwabNext
<1>. QED BY <1>1, <1>2

(* Each turn of the swapping comes closer to its end.                      *)
LEMMA SwabFalls ==
  /\ SwabLeft \in [Swabs -> Nat] /\ SwabTurn \in [Swabs -> Swabs]
  /\ Falls(SwabLeft, Swabs, SwabMore, SwabTurn)
<1>1. SwabLeft \in [Swabs -> Nat] /\ SwabTurn \in [Swabs -> Swabs]
  BY SwabNextIs DEF SwabLeft, SwabTurn
<1>2. Falls(SwabLeft, Swabs, SwabMore, SwabTurn)
  BY SwabNextIs DEF Falls, SwabLeft, SwabTurn, SwabMore
<1>. QED BY <1>1, <1>2

(* So the swapping is a function.                                          *)
LEMMA SwabLoops == Loops(Swab, Swabs, SwabMore, SwabTurn, SwabOut)
<1>1. SwabOut = [r \in Swabs |-> SwabOut[r]]
  BY DEF SwabOut
<1>2. PICK f : f = [r \in Swabs |-> IF r \in SwabMore THEN f[SwabTurn[r]] ELSE SwabOut[r]]
  BY <1>1, SwabFalls, LoopFound
<1>3. f = [r \in Swabs |-> IF r.n > 0 /\ r.m[r.p] \in NonNul /\ r.m[r.p + 1] \in NonNul
                           THEN f[SwabNext(r)] ELSE r.m]
  BY <1>2, SMTT(60) DEF SwabMore, SwabTurn, SwabOut
<1>4. Swab = [r \in Swabs |-> IF r.n > 0 /\ r.m[r.p] \in NonNul /\ r.m[r.p + 1] \in NonNul
                              THEN Swab[SwabNext(r)] ELSE r.m]
  BY <1>3 DEF Swab, SwabNext
<1>. QED BY <1>4 DEF Loops, SwabMore, SwabTurn, SwabOut

(* The memory with j pairs from p on swapped.                              *)
Swapped(m, p, j) ==
  [x \in Addr |-> IF x \in p .. p + 2 * j - 1
                  THEN IF (x - p) % 2 = 0 THEN m[x + 1] ELSE m[x - 1]
                  ELSE m[x]]
Swapping(m, p, j) ==
  /\ Swapped(m, p, j)[p + 2 * j] = m[p + 2 * j] /\ Swapped(m, p, j)[p + 2 * j + 1] = m[p + 2 * j + 1]
  /\ Store(Store(Swapped(m, p, j), p + 2 * j, m[p + 2 * j + 1]), p + 2 * j + 1, m[p + 2 * j])
       = Swapped(m, p, j + 1)

(* One more pair is swapped.                                               *)
LEMMA SwappedOne ==
  ASSUME NEW m \in Mem, NEW p \in Nat, NEW j \in Nat, p + 2 * j + 1 \in Addr
  PROVE  Swapping(m, p, j)
<1>. DEFINE q == p + 2 * j
            a == Store(Swapped(m, p, j), q, m[q + 1])
<1>1. q \in Addr /\ q \in Nat /\ q + 1 \in Addr
  BY Bytes0 DEF Addr
<1>2. Swapped(m, p, j)[q] = m[q] /\ Swapped(m, p, j)[q + 1] = m[q + 1]
  BY <1>1 DEF Swapped
<1>3. a = [x \in Addr |-> IF x = q THEN m[q + 1] ELSE Swapped(m, p, j)[x]]
  <2>. HIDE DEF q
  <2>. QED BY <1>1 DEF Store, Swapped
<1>4. Store(a, q + 1, m[q]) = [x \in Addr |-> IF x = q + 1 THEN m[q] ELSE a[x]]
  <2>. HIDE DEF q
  <2>. QED BY <1>1, <1>3 DEF Store
<1>5. ASSUME NEW x \in Addr
      PROVE  (IF x = q + 1 THEN m[q] ELSE a[x])
               = IF x \in p .. p + 2 * (j + 1) - 1
                 THEN IF (x - p) % 2 = 0 THEN m[x + 1] ELSE m[x - 1]
                 ELSE m[x]
  <2>1. a[x] = IF x = q THEN m[q + 1] ELSE Swapped(m, p, j)[x]
    BY <1>3
  <2>2. Swapped(m, p, j)[x] = IF x \in p .. q - 1
                              THEN IF (x - p) % 2 = 0 THEN m[x + 1] ELSE m[x - 1]
                              ELSE m[x]
    BY DEF Swapped
  <2>3. x \in Nat /\ (q - p) % 2 = 0 /\ (q + 1 - p) % 2 = 1 /\ q + 1 - 1 = q
    BY <1>1, Bytes0
  <2>4. x \in p .. p + 2 * (j + 1) - 1 <=> (x = q \/ x = q + 1 \/ x \in p .. q - 1)
    BY <2>3
  <2>. HIDE DEF q, a
  <2>. QED BY <1>1, <2>1, <2>2, <2>3, <2>4
<1>. QED BY <1>2, <1>4, <1>5 DEF Swapped, Swapping

(* As many pairs as the string has.                                        *)
LEMMA StrswabIs ==
  ASSUME NEW m, Terminated(m), NEW p \in Addr
  PROVE  \E j \in Nat : /\ Strlen(m, p) = 2 * j \/ Strlen(m, p) = 2 * j + 1
                        /\ Strswab(m, p) = Swapped(m, p, j)
<1>. DEFINE e == p + Strlen(m, p)
            r == [m |-> m, p |-> p, n |-> NoLimit]
            Kept == {y \in Swabs : /\ y.n <= NoLimit /\ y.p = p + 2 * (NoLimit - y.n) /\ y.p <= e
                                   /\ y.m = Swapped(m, p, NoLimit - y.n)}
<1>1. /\ m \in Mem /\ p \in Nat /\ MemSize \in Nat /\ NoLimit = MemSize + 1 /\ e \in Addr
      /\ Strlen(m, p) \in Nat /\ m[e] = 0
      /\ \A x \in p .. e - 1 : x \in Addr /\ m[x] \in NonNul
  BY StrlenIs, Bytes0 DEF Terminated, NoLimit
<1>2. e \in Nat /\ e <= MemSize - 1
  BY <1>1 DEF Addr
<1>3. ASSUME NEW j \in Nat, p + 2 * j + 1 \in Addr PROVE Swapping(m, p, j)
  BY <1>1, <1>3, SwappedOne
<1>4. r \in Kept
  <2>1. \A x \in Addr : x \notin p .. p + 2 * (NoLimit - NoLimit) - 1
    BY <1>1, Bytes0
  <2>2. Swapped(m, p, NoLimit - NoLimit) = m
    BY <1>1, <2>1 DEF Swapped, Mem
  <2>. QED BY <1>1, <2>2 DEF Swabs
<1>5. ASSUME NEW y \in Kept
      PROVE  /\ y \in Swabs /\ y.n \in Nat /\ NoLimit - y.n \in Nat
             /\ y.p = p + 2 * (NoLimit - y.n) /\ y.p <= e
             /\ y.m = Swapped(m, p, NoLimit - y.n) /\ y.m[y.p] = m[y.p] /\ y.p \in Addr
             /\ y.p + 1 \in Addr => y.m[y.p + 1] = m[y.p + 1]
  <2>1. /\ y \in Swabs /\ y.n \in Nat /\ NoLimit - y.n \in Nat
        /\ y.p = p + 2 * (NoLimit - y.n) /\ y.p <= e
        /\ y.m = Swapped(m, p, NoLimit - y.n)
    BY <1>1, <1>5, SwabNextIs
  <2>2. y.p \in Addr /\ y.p \in Nat
    BY <1>1, <1>2, <2>1 DEF Addr
  <2>3. ASSUME NEW j \in Nat, NEW x \in Addr, x \in Int, x >= p + 2 * j
        PROVE  Swapped(m, p, j)[x] = m[x]
    <3>1. p \in Int
      BY Bytes0
    <3>2. x \notin p .. p + 2 * j - 1
      BY <2>3, <3>1
    <3>. QED BY <3>2 DEF Swapped
  <2>4. y.m[y.p] = m[y.p] /\ (y.p + 1 \in Addr => y.m[y.p + 1] = m[y.p + 1])
    <3>. HIDE DEF Kept
    <3>. QED BY <2>1, <2>2, <2>3
  <2>. QED BY <2>1, <2>2, <2>4
<1>6. ASSUME NEW y \in Kept, y \in SwabMore
      PROVE  y.p + 2 <= e /\ y.n # 0
  <2>1. m[y.p] # 0 /\ y.p # e
    BY <1>1, <1>5, <1>6 DEF SwabMore, NonNul
  <2>2. y.p + 1 \in Addr /\ y.p + 1 <= e
    BY <1>1, <1>2, <1>5, <2>1 DEF Addr
  <2>3. y.p + 1 # e
    BY <1>1, <1>5, <1>6, <2>2 DEF SwabMore, NonNul
  <2>4. y.n # 0
    BY <1>6 DEF SwabMore
  <2>. HIDE DEF Kept, e
  <2>. QED BY <1>2, <1>5, <2>2, <2>3, <2>4, Bytes0
<1>7. Keeps(Kept, Swabs, SwabMore, SwabTurn)
  <2>1. SUFFICES ASSUME NEW y \in Kept, y \in SwabMore PROVE SwabTurn[y] \in Kept
    BY DEF Keeps
  <2>2. /\ y \in Swabs /\ SwabTurn[y] = SwabNext(y) /\ SwabNext(y) \in Swabs
    BY <2>1, SwabNextIs DEF SwabTurn
  <2>3. /\ y.n \in Nat /\ NoLimit - y.n \in Nat /\ y.p = p + 2 * (NoLimit - y.n) /\ y.p + 2 <= e
        /\ y.n # 0 /\ y.m = Swapped(m, p, NoLimit - y.n) /\ y.m[y.p] = m[y.p]
        /\ y.p + 1 \in Addr /\ y.m[y.p + 1] = m[y.p + 1]
    <3>. HIDE DEF Kept
    <3>1. y.p + 2 <= e /\ y.n # 0
      BY <1>6, <2>1
    <3>2. y.p + 1 \in Addr
      BY <1>1, <1>2, <1>5, <3>1 DEF Addr
    <3>. QED BY <1>5, <3>1, <3>2
  <2>4. Swapping(m, p, NoLimit - y.n)
    BY <1>3, <2>3
  <2>5. Store(Store(y.m, y.p, y.m[y.p + 1]), y.p + 1, y.m[y.p]) = Swapped(m, p, (NoLimit - y.n) + 1)
    <3>. HIDE DEF Kept, e
    <3>. QED BY <2>3, <2>4 DEF Swapping
  <2>6. (NoLimit - y.n) + 1 = NoLimit - (y.n - 1)
    BY <1>1, <2>3
  <2>7. /\ SwabNext(y).m = Swapped(m, p, NoLimit - (y.n - 1)) /\ SwabNext(y).n = y.n - 1
        /\ SwabNext(y).p = y.p + 2
    BY <2>2, <2>5, <2>6, SwabNextIs
  <2>8. y.p + 2 = p + 2 * (NoLimit - (y.n - 1)) /\ y.n - 1 <= NoLimit
    BY <1>1, <2>3, <2>6
  <2>. QED BY <2>2, <2>3, <2>7, <2>8
<1>8. PICK y \in Kept : y \notin SwabMore /\ Swab[r] = SwabOut[y]
  <2>. HIDE DEF Kept, r
  <2>. QED BY <1>4, <1>7, SwabFalls, SwabLoops, LoopEnds
<1>. DEFINE j == NoLimit - y.n
<1>9. /\ j \in Nat /\ y.p = p + 2 * j /\ y.p <= e /\ y.m = Swapped(m, p, j) /\ y.n > 0
      /\ y \in Swabs
  BY <1>1, <1>2, <1>5, <1>8
<1>10. y.p = e \/ y.p + 1 = e
  <2>1. CASE y.m[y.p] \notin NonNul
    <3>1. m[y.p] \notin NonNul /\ y.p \in Nat /\ y.p >= p
      BY <1>1, <1>5, <1>8, <1>9, <2>1
    <3>. HIDE DEF Kept, e, j
    <3>. QED BY <1>1, <1>2, <1>9, <3>1
  <2>2. CASE y.m[y.p + 1] \notin NonNul /\ y.p # e
    <3>1. y.p + 1 \in Addr /\ y.p + 1 <= e /\ y.p + 1 >= p
      BY <1>1, <1>2, <1>9, <2>2 DEF Addr
    <3>2. m[y.p + 1] \notin NonNul
      BY <1>5, <1>8, <2>2, <3>1
    <3>3. y.p \in Nat
      BY <1>1, <1>9
    <3>. HIDE DEF Kept, e, j
    <3>. QED BY <1>1, <1>2, <3>1, <3>2, <3>3
  <2>. QED BY <1>8, <1>9, <2>1, <2>2 DEF SwabMore
<1>11. Strswab(m, p) = Swapped(m, p, j)
  BY <1>8, <1>9 DEF SwabOut, Strswab
<1>12. Strlen(m, p) = 2 * j \/ Strlen(m, p) = 2 * j + 1
  <2>. HIDE DEF j
  <2>. QED BY <1>1, <1>9, <1>10
<1>. QED BY <1>9, <1>11, <1>12

-----------------------------------------------------------------------------
(* The first byte that is not c. *)

(* q is where the n bytes at p first are not c.                            *)
OtherAt(m, p, c, n, q) ==
  \/ q = Null /\ \A x \in p .. p + n - 1 : m[x] = c
  \/ q \in p .. p + n - 1 /\ m[q] # c /\ \A x \in p .. q - 1 : m[x] = c

Behind(m, p, c, n, p2, n2, q) ==
  /\ p2 >= p /\ p2 + n2 <= p + n /\ \A x \in p .. p2 - 1 : m[x] = c
  /\ q # Null \/ p2 + n2 = p + n

(* What is found behind equal bytes is what is found from their start.     *)
LEMMA OtherBehind ==
  ASSUME NEW m, NEW p \in Int, NEW n \in Nat, NEW c, NEW q, NEW p2 \in Int, NEW n2 \in Nat,
         Behind(m, p, c, n, p2, n2, q), OtherAt(m, p2, c, n2, q)
  PROVE  OtherAt(m, p, c, n, q)
<1>0. /\ p2 >= p /\ p2 + n2 <= p + n /\ \A x \in p .. p2 - 1 : m[x] = c
      /\ q # Null \/ p2 + n2 = p + n
  BY DEF Behind
<1>1. CASE q = Null /\ p2 + n2 = p + n /\ \A x \in p2 .. p2 + n2 - 1 : m[x] = c
  <2>1. \A x \in p .. p + n - 1 : m[x] = c
    BY <1>0, <1>1
  <2>. QED BY <1>1, <2>1 DEF OtherAt
<1>2. CASE q \in p2 .. p2 + n2 - 1 /\ m[q] # c /\ \A x \in p2 .. q - 1 : m[x] = c
  <2>1. \A x \in p .. q - 1 : m[x] = c
    BY <1>0, <1>2
  <2>2. q \in p .. p + n - 1
    BY <1>0, <1>2
  <2>. QED BY <1>2, <2>1, <2>2 DEF OtherAt
<1>. QED BY <1>0, <1>1, <1>2 DEF OtherAt, Null

(* check_bytes8() finds the first other byte.                              *)
LEMMA CheckBytesIs ==
  ASSUME NEW m \in Mem, NEW p \in Nat, NEW n \in Nat, p + n <= MemSize, NEW c \in Chars
  PROVE  OtherAt(m, p, c, n, CheckBytes(m, p, c, n))
<1>. DEFINE q == Within(m, p, n, Chars \ {c})
<1>1. /\ q \in p .. p + n
      /\ \A x \in p .. q - 1 : m[x] \notin Chars \ {c}
      /\ q # p + n => m[q] \in Chars \ {c}
  BY SeekIs
<1>2. \A x \in p .. p + n - 1 : m[x] \in Chars
  BY Bytes0 DEF Addr
<1>3. \A x \in p .. q - 1 : m[x] = c
  <2>. HIDE DEF q
  <2>. QED BY <1>1, <1>2
<1>4. CheckBytes(m, p, c, n) = IF q = p + n THEN Null ELSE q
  BY DEF CheckBytes
<1>. HIDE DEF q
<1>. QED BY <1>1, <1>3, <1>4 DEF OtherAt

ChunkMore == {r \in Areas : r.n >= InvChunk /\ \A k \in 0 .. InvChunk - 1 : r.m[r.p + k] = r.c}
ChunkNext(r) == [m |-> r.m, p |-> r.p + InvChunk, c |-> r.c, n |-> r.n - InvChunk]
ChunkTurn == [r \in Areas |-> IF r \in ChunkMore THEN ChunkNext(r) ELSE r]
ChunkOut == [r \in Areas |-> IF r.n < InvChunk THEN CheckBytes(r.m, r.p, r.c, r.n)
                             ELSE CheckBytes(r.m, r.p, r.c, InvChunk)]

(* A turn of the comparison of chunks.                                     *)
LEMMA ChunkNextIs ==
  ASSUME NEW r \in Areas
  PROVE  /\ r.m \in Mem /\ r.p \in Int /\ r.c \in Chars /\ r.n \in Nat
         /\ ChunkNext(r).m = r.m /\ ChunkNext(r).c = r.c
         /\ ChunkNext(r).p = r.p + InvChunk /\ ChunkNext(r).n = r.n - InvChunk
         /\ r \in ChunkMore => ChunkNext(r) \in Areas
BY StringMemory DEF Areas, ChunkNext, ChunkMore

(* Each turn of the comparison of chunks comes closer to its end.          *)
LEMMA ChunkFalls ==
  /\ FillLeft \in [Areas -> Nat] /\ ChunkTurn \in [Areas -> Areas]
  /\ Falls(FillLeft, Areas, ChunkMore, ChunkTurn)
<1>1. FillLeft \in [Areas -> Nat] /\ ChunkTurn \in [Areas -> Areas]
  BY ChunkNextIs DEF FillLeft, ChunkTurn
<1>2. Falls(FillLeft, Areas, ChunkMore, ChunkTurn)
  BY ChunkNextIs, StringMemory DEF Falls, FillLeft, ChunkTurn, ChunkMore
<1>. QED BY <1>1, <1>2

(* So the comparison of chunks is a function.                              *)
LEMMA ChunkLoops == Loops(CheckChunks, Areas, ChunkMore, ChunkTurn, ChunkOut)
<1>1. ChunkOut = [r \in Areas |-> ChunkOut[r]]
  BY DEF ChunkOut
<1>2. PICK f : f = [r \in Areas |-> IF r \in ChunkMore THEN f[ChunkTurn[r]] ELSE ChunkOut[r]]
  BY <1>1, ChunkFalls, LoopFound
<1>3. ASSUME NEW r \in Areas
      PROVE  (IF r \in ChunkMore THEN f[ChunkTurn[r]] ELSE ChunkOut[r])
               = IF r.n < InvChunk THEN CheckBytes(r.m, r.p, r.c, r.n)
                 ELSE IF \E k \in 0 .. InvChunk - 1 : r.m[r.p + k] # r.c
                 THEN CheckBytes(r.m, r.p, r.c, InvChunk)
                 ELSE f[ChunkNext(r)]
  BY ChunkNextIs, StringMemory DEF ChunkMore, ChunkTurn, ChunkOut
<1>4. f = [r \in Areas |-> IF r.n < InvChunk THEN CheckBytes(r.m, r.p, r.c, r.n)
                           ELSE IF \E k \in 0 .. InvChunk - 1 : r.m[r.p + k] # r.c
                           THEN CheckBytes(r.m, r.p, r.c, InvChunk)
                           ELSE f[ChunkNext(r)]]
  BY <1>2, <1>3
<1>5. CheckChunks = [r \in Areas |-> IF r.n < InvChunk THEN CheckBytes(r.m, r.p, r.c, r.n)
                                     ELSE IF \E k \in 0 .. InvChunk - 1 : r.m[r.p + k] # r.c
                                     THEN CheckBytes(r.m, r.p, r.c, InvChunk)
                                     ELSE CheckChunks[ChunkNext(r)]]
  BY <1>4 DEF CheckChunks, ChunkNext
<1>6. ASSUME NEW r \in Areas
      PROVE  CheckChunks[r] = IF r \in ChunkMore THEN CheckChunks[ChunkTurn[r]] ELSE ChunkOut[r]
  BY <1>5, ChunkNextIs, StringMemory DEF ChunkMore, ChunkTurn, ChunkOut
<1>. QED BY <1>6 DEF Loops

(* The chunks and the rest: the first other byte of the area.              *)
LEMMA ChunksAre ==
  ASSUME NEW m \in Mem, NEW p \in Nat, NEW n \in Nat, p + n <= MemSize, NEW c \in Chars
  PROVE  OtherAt(m, p, c, n, CheckChunks[[m |-> m, p |-> p, c |-> c, n |-> n]])
<1>. DEFINE r == [m |-> m, p |-> p, c |-> c, n |-> n]
            Kept == {y \in Areas : /\ y.m = m /\ y.c = c /\ y.p + y.n = p + n /\ y.p >= p
                                   /\ \A x \in p .. y.p - 1 : m[x] = c}
<1>1. r \in Kept
  BY DEF Areas
<1>2. Keeps(Kept, Areas, ChunkMore, ChunkTurn)
  <2>1. SUFFICES ASSUME NEW y \in Kept, y \in ChunkMore PROVE ChunkTurn[y] \in Kept
    BY DEF Keeps
  <2>2. /\ y \in Areas /\ ChunkTurn[y] = ChunkNext(y) /\ ChunkNext(y) \in Areas
        /\ y.m = m /\ y.c = c /\ y.p \in Int /\ y.p >= p
        /\ \A k \in 0 .. InvChunk - 1 : m[y.p + k] = c
    BY <2>1, ChunkNextIs DEF ChunkTurn, ChunkMore
  <2>3. ASSUME NEW x \in p .. y.p + InvChunk - 1 PROVE m[x] = c
    <3>1. CASE x <= y.p - 1
      BY <2>1, <2>2, <3>1
    <3>2. CASE x >= y.p
      <4>1. x - y.p \in 0 .. InvChunk - 1 /\ y.p + (x - y.p) = x
        BY <2>2, <3>2, StringMemory
      <4>. QED BY <2>2, <4>1
    <3>. QED BY <2>2, <3>1, <3>2
  <2>4. /\ ChunkNext(y).m = m /\ ChunkNext(y).c = c /\ ChunkNext(y).p = y.p + InvChunk
        /\ ChunkNext(y).n = y.n - InvChunk /\ y.n \in Nat
    BY <2>2, ChunkNextIs
  <2>. QED BY <2>1, <2>2, <2>3, <2>4, StringMemory
<1>3. PICK y \in Kept : y \notin ChunkMore /\ CheckChunks[r] = ChunkOut[y]
  <2>. HIDE DEF Kept, r
  <2>. QED BY <1>1, <1>2, ChunkFalls, ChunkLoops, LoopEnds
<1>4. /\ y \in Areas /\ y.m = m /\ y.c = c /\ y.p \in Nat /\ y.n \in Nat /\ y.p + y.n = p + n
      /\ y.p >= p /\ \A x \in p .. y.p - 1 : m[x] = c
  BY <1>3, ChunkNextIs
<1>5. ASSUME y.n < InvChunk PROVE OtherAt(m, p, c, n, CheckChunks[r])
  <2>1. OtherAt(m, y.p, c, y.n, CheckChunks[r])
    <3>1. CheckChunks[r] = CheckBytes(m, y.p, c, y.n)
      BY <1>3, <1>4, <1>5 DEF ChunkOut
    <3>. HIDE DEF r
    <3>. QED BY <1>4, <3>1, CheckBytesIs
  <2>. HIDE DEF r, Kept
  <2>2. Behind(m, p, c, n, y.p, y.n, CheckChunks[r])
    BY <1>4 DEF Behind
  <2>3. p \in Int /\ y.p \in Int /\ y.n \in Nat
    BY <1>4
  <2>. QED BY <2>1, <2>2, <2>3, OtherBehind
<1>6. ASSUME ~(y.n < InvChunk) PROVE OtherAt(m, p, c, n, CheckChunks[r])
  <2>1. InvChunk \in Nat /\ y.p + InvChunk <= p + n /\ y.p + InvChunk <= MemSize /\ MemSize \in Nat
    BY <1>4, <1>6, StringMemory
  <2>2. PICK k \in 0 .. InvChunk - 1 : m[y.p + k] # c
    BY <1>3, <1>4, <1>6, <2>1 DEF ChunkMore
  <2>3. OtherAt(m, y.p, c, InvChunk, CheckChunks[r])
    <3>1. CheckChunks[r] = CheckBytes(m, y.p, c, InvChunk)
      BY <1>3, <1>4, <1>6 DEF ChunkOut
    <3>. HIDE DEF r
    <3>. QED BY <1>4, <2>1, <3>1, CheckBytesIs
  <2>4. y.p + k \in y.p .. y.p + InvChunk - 1
    BY <1>4, <2>1
  <2>5. CheckChunks[r] # Null
    <3>. HIDE DEF r
    <3>. QED BY <1>4, <2>1, <2>2, <2>3, <2>4 DEF OtherAt, Null
  <2>. HIDE DEF r, Kept
  <2>6. Behind(m, p, c, n, y.p, InvChunk, CheckChunks[r])
    BY <1>4, <2>1, <2>5 DEF Behind
  <2>7. p \in Int /\ y.p \in Int /\ InvChunk \in Nat
    BY <1>4, <2>1
  <2>. QED BY <2>3, <2>6, <2>7, OtherBehind
<1>. QED BY <1>5, <1>6

-----------------------------------------------------------------------------
(* A string in a string. *)

SubMore == {r \in Substrings : r.l1 >= r.l2 /\ Memcmp(r.m, r.s, r.t, r.l2) # 0}
SubNext(r) == [m |-> r.m, s |-> r.s + 1, t |-> r.t, l1 |-> r.l1 - 1, l2 |-> r.l2]
SubTurn == [r \in Substrings |-> IF r \in SubMore THEN SubNext(r) ELSE r]
SubLeft == [r \in Substrings |-> r.l1]
SubOut == [r \in Substrings |-> IF r.l1 < r.l2 THEN Null ELSE r.s]

(* A turn of the search for a string.                                      *)
LEMMA SubNextIs ==
  ASSUME NEW r \in Substrings
  PROVE  /\ r.m \in Mem /\ r.s \in Int /\ r.t \in Int /\ r.l1 \in Nat /\ r.l2 \in Nat \ {0}
         /\ SubNext(r).m = r.m /\ SubNext(r).t = r.t /\ SubNext(r).l2 = r.l2
         /\ SubNext(r).s = r.s + 1 /\ SubNext(r).l1 = r.l1 - 1
         /\ r \in SubMore => SubNext(r) \in Substrings
BY DEF Substrings, SubNext, SubMore

(* Each turn of the search for a string comes closer to its end.           *)
LEMMA SubFalls ==
  /\ SubLeft \in [Substrings -> Nat] /\ SubTurn \in [Substrings -> Substrings]
  /\ Falls(SubLeft, Substrings, SubMore, SubTurn)
<1>1. SubLeft \in [Substrings -> Nat] /\ SubTurn \in [Substrings -> Substrings]
  BY SubNextIs DEF SubLeft, SubTurn
<1>2. Falls(SubLeft, Substrings, SubMore, SubTurn)
  BY SubNextIs DEF Falls, SubLeft, SubTurn
<1>. QED BY <1>1, <1>2

(* So the search for a string is a function.                               *)
LEMMA SubLoops == Loops(StrstrFrom, Substrings, SubMore, SubTurn, SubOut)
<1>1. SubOut = [r \in Substrings |-> SubOut[r]]
  BY DEF SubOut
<1>2. PICK f : f = [r \in Substrings |-> IF r \in SubMore THEN f[SubTurn[r]] ELSE SubOut[r]]
  BY <1>1, SubFalls, LoopFound
<1>3. ASSUME NEW r \in Substrings
      PROVE  (IF r \in SubMore THEN f[SubTurn[r]] ELSE SubOut[r])
               = IF r.l1 < r.l2 THEN Null
                 ELSE IF Memcmp(r.m, r.s, r.t, r.l2) = 0 THEN r.s
                 ELSE f[SubNext(r)]
  BY SubNextIs DEF SubMore, SubTurn, SubOut
<1>4. f = [r \in Substrings |-> IF r.l1 < r.l2 THEN Null
                                ELSE IF Memcmp(r.m, r.s, r.t, r.l2) = 0 THEN r.s
                                ELSE f[SubNext(r)]]
  BY <1>2, <1>3
<1>5. StrstrFrom = [r \in Substrings |-> IF r.l1 < r.l2 THEN Null
                                         ELSE IF Memcmp(r.m, r.s, r.t, r.l2) = 0 THEN r.s
                                         ELSE StrstrFrom[SubNext(r)]]
  BY <1>4 DEF StrstrFrom, SubNext
<1>6. ASSUME NEW r \in Substrings
      PROVE  StrstrFrom[r] = IF r \in SubMore THEN StrstrFrom[SubTurn[r]] ELSE SubOut[r]
  BY <1>5, SubNextIs DEF SubMore, SubTurn, SubOut
<1>. QED BY <1>6 DEF Loops

(* The loop of strstr() finds the first place that compares equal.         *)
LEMMA StrstrFromIs ==
  ASSUME NEW m \in Mem, NEW s \in Int, NEW t \in Int, NEW l1 \in Nat, NEW l2 \in Nat \ {0}, NEW q,
         q = StrstrFrom[[m |-> m, s |-> s, t |-> t, l1 |-> l1, l2 |-> l2]]
  PROVE  \/ q = Null /\ \A x \in s .. s + l1 - l2 : Memcmp(m, x, t, l2) # 0
         \/ /\ q \in s .. s + l1 - l2 /\ Memcmp(m, q, t, l2) = 0
            /\ \A x \in s .. q - 1 : Memcmp(m, x, t, l2) # 0
<1>. DEFINE r == [m |-> m, s |-> s, t |-> t, l1 |-> l1, l2 |-> l2]
            Kept == {y \in Substrings :
                       /\ y.m = m /\ y.t = t /\ y.l2 = l2 /\ y.s + y.l1 = s + l1 /\ y.s >= s
                       /\ \A x \in s .. y.s - 1 : Memcmp(m, x, t, l2) # 0}
<1>1. r \in Kept
  BY DEF Substrings
<1>2. Keeps(Kept, Substrings, SubMore, SubTurn)
  <2>1. SUFFICES ASSUME NEW y \in Kept, y \in SubMore PROVE SubTurn[y] \in Kept
    BY DEF Keeps
  <2>2. y \in Substrings /\ SubTurn[y] = SubNext(y) /\ SubNext(y) \in Substrings
    BY <2>1, SubNextIs DEF SubTurn
  <2>3. Memcmp(m, y.s, t, l2) # 0 /\ y.s \in Int
    BY <2>1, <2>2, SubNextIs DEF SubMore
  <2>4. \A x \in s .. (y.s + 1) - 1 : Memcmp(m, x, t, l2) # 0
    BY <2>1, <2>3
  <2>5. /\ SubNext(y).m = m /\ SubNext(y).t = t /\ SubNext(y).l2 = l2
        /\ SubNext(y).s = y.s + 1 /\ SubNext(y).l1 = y.l1 - 1 /\ y.l1 \in Nat
        /\ y.s + y.l1 = s + l1 /\ y.s >= s
    BY <2>1, <2>2, SubNextIs
  <2>. QED BY <2>2, <2>3, <2>4, <2>5
<1>3. PICK y \in Kept : y \notin SubMore /\ StrstrFrom[r] = SubOut[y]
  <2>. HIDE DEF Kept, r
  <2>. QED BY <1>1, <1>2, SubFalls, SubLoops, LoopEnds
<1>4. /\ y \in Substrings /\ y.m = m /\ y.t = t /\ y.l2 = l2 /\ y.s \in Int /\ y.l1 \in Nat
      /\ y.s + y.l1 = s + l1 /\ y.s >= s
      /\ \A x \in s .. y.s - 1 : Memcmp(m, x, t, l2) # 0
  BY <1>3, SubNextIs
<1>5. q = IF y.l1 < l2 THEN Null ELSE y.s
  BY <1>3, <1>4 DEF SubOut
<1>6. CASE y.l1 < l2
  <2>1. \A x \in s .. s + l1 - l2 : x \in s .. y.s - 1
    BY <1>4, <1>6
  <2>. QED BY <1>4, <1>5, <1>6, <2>1
<1>7. CASE ~(y.l1 < l2)
  <2>1. Memcmp(m, y.s, t, l2) = 0
    BY <1>3, <1>4, <1>7 DEF SubMore
  <2>2. y.s \in s .. s + l1 - l2
    BY <1>4, <1>7
  <2>. QED BY <1>4, <1>5, <1>7, <2>1, <2>2
<1>. QED BY <1>6, <1>7

(* The comparison of two areas.                                            *)
Compared(m, a, b, n) ==
  \/ Memcmp(m, a, b, n) = 0 /\ \A k \in 0 .. n - 1 : m[a + k] = m[b + k]
  \/ \E i \in 0 .. n - 1 : /\ Memcmp(m, a, b, n) = m[a + i] - m[b + i]
                           /\ m[a + i] # m[b + i] /\ m[a + i] \in Nat /\ m[b + i] \in Nat
                           /\ \A k \in 0 .. i - 1 : m[a + k] = m[b + k]

(* memcmp() returns the difference of the first bytes that differ, or 0.   *)
LEMMA MemcmpIs ==
  ASSUME NEW m \in Mem, NEW a \in Nat, NEW b \in Nat, NEW n \in Nat,
         a + n <= MemSize, b + n <= MemSize
  PROVE  Compared(m, a, b, n)
<1>1. Itself \in [Chars -> Chars] /\ {} \in SUBSET Chars /\ \A c \in Chars : Itself[c] = c
  BY DEF Itself
<1>. DEFINE r == Parting(m, a, b, n, Itself, {})
<1>2. PICK i \in 0 .. n :
        /\ r.a = a + i /\ r.b = b + i /\ r.n = n - i
        /\ \A k \in 0 .. i - 1 : Itself[m[a + k]] = Itself[m[b + k]] /\ m[a + k] \notin {}
        /\ i < n => Itself[m[a + i]] # Itself[m[b + i]] \/ m[a + i] \in {}
  <2>1. PICK i \in 0 .. n : PartAt(m, a, b, n, Itself, {}, i)
    <3>1. a \in Int /\ b \in Int
      OBVIOUS
    <3>2. \A fold \in [Chars -> Chars], end \in SUBSET Chars :
            \E i \in 0 .. n : PartAt(m, a, b, n, fold, end, i)
      BY <3>1, PartingIs
    <3>. QED BY <1>1, <3>2
  <2>. QED BY <2>1 DEF PartAt
<1>3. ASSUME NEW k \in 0 .. n - 1 PROVE m[a + k] \in Chars /\ m[b + k] \in Chars
  <2>1. a + k \in Addr /\ b + k \in Addr
    BY Bytes0 DEF Addr
  <2>. QED BY <2>1, Bytes0
<1>4. \A k \in 0 .. i - 1 : m[a + k] = m[b + k]
  BY <1>1, <1>2, <1>3
<1>5. Memcmp(m, a, b, n) = IF n - i = 0 THEN 0 ELSE m[a + i] - m[b + i]
  BY <1>2 DEF Memcmp
<1>6. CASE i = n
  BY <1>4, <1>5, <1>6 DEF Compared
<1>7. CASE i # n
  <2>1. i \in 0 .. n - 1 /\ n - i # 0
    BY <1>7
  <2>2. m[a + i] # m[b + i] /\ m[a + i] \in Nat /\ m[b + i] \in Nat
    <3>1. m[a + i] \in Chars /\ m[b + i] \in Chars
      BY <1>3, <2>1
    <3>2. Itself[m[a + i]] # Itself[m[b + i]]
      <4>. HIDE DEF r
      <4>. QED BY <1>2, <2>1
    <3>. QED BY <3>1, <3>2, Bytes0
  <2>. QED BY <1>4, <1>5, <2>1, <2>2 DEF Compared
<1>. QED BY <1>6, <1>7

-----------------------------------------------------------------------------
(* Texts. *)

(* The bytes of an area as a sequence.                                     *)
LEMMA BytesAre ==
  ASSUME NEW m, NEW p \in Int, NEW n \in Nat, \A x \in p .. p + n - 1 : m[x] \in Chars
  PROVE  /\ Bytes(m, p, n) \in Seq(Chars) /\ Len(Bytes(m, p, n)) = n
         /\ \A k \in 1 .. n : Bytes(m, p, n)[k] = m[p + k - 1]
<1>1. ASSUME NEW k \in 1 .. n PROVE m[p + k - 1] \in Chars
  <2>1. p + k - 1 \in p .. p + n - 1
    OBVIOUS
  <2>. QED BY <2>1
<1>2. Bytes(m, p, n) \in [1 .. n -> Chars]
  BY <1>1 DEF Bytes
<1>3. Bytes(m, p, n) \in Seq(Chars)
  BY <1>2, SeqDef
<1>4. Len(Bytes(m, p, n)) = n
  BY <1>2, <1>3, LenProperties
<1>. QED BY <1>3, <1>4 DEF Bytes

(* A string as a sequence.                                                 *)
LEMMA StrIs ==
  ASSUME NEW m, Terminated(m), NEW p \in Addr
  PROVE  /\ StrAt(m, p) \in Seq(Chars) /\ Len(StrAt(m, p)) = Strlen(m, p)
         /\ \A k \in 1 .. Strlen(m, p) : StrAt(m, p)[k] = m[p + k - 1] /\ StrAt(m, p)[k] # 0
<1>1. /\ p \in Nat /\ Strlen(m, p) \in Nat
      /\ \A x \in p .. p + Strlen(m, p) - 1 : m[x] \in Chars /\ m[x] # 0
  BY StrlenIs, Bytes0 DEF NonNul
<1>2. /\ StrAt(m, p) \in Seq(Chars) /\ Len(StrAt(m, p)) = Strlen(m, p)
      /\ \A k \in 1 .. Strlen(m, p) : StrAt(m, p)[k] = m[p + k - 1]
  BY <1>1, BytesAre DEF StrAt
<1>3. ASSUME NEW k \in 1 .. Strlen(m, p) PROVE m[p + k - 1] # 0
  <2>1. p + k - 1 \in p .. p + Strlen(m, p) - 1
    BY <1>1
  <2>. QED BY <1>1, <2>1
<1>. QED BY <1>2, <1>3

(* The first elements of a sequence.                                       *)
LEMMA FirstIs ==
  ASSUME NEW s \in Seq(Chars), NEW n \in Nat
  PROVE  /\ FirstOf(s, n) \in Seq(Chars)
         /\ Len(FirstOf(s, n)) = IF n < Len(s) THEN n ELSE Len(s)
         /\ \A k \in 1 .. Len(FirstOf(s, n)) : FirstOf(s, n)[k] = s[k]
<1>. DEFINE l == IF n < Len(s) THEN n ELSE Len(s)
<1>1. l \in Nat /\ l <= Len(s) /\ Len(s) \in Nat
  BY LenProperties
<1>2. \A i \in 1 .. l : s[i] \in Chars
  BY <1>1, ElementOfSeq
<1>. HIDE DEF l
<1>3. /\ SubSeq(s, 1, l) \in Seq(Chars) /\ Len(SubSeq(s, 1, l)) = IF 1 <= l THEN l - 1 + 1 ELSE 0
      /\ \A i \in 1 .. l - 1 + 1 : SubSeq(s, 1, l)[i] = s[1 + i - 1]
  BY <1>1, <1>2, SubSeqProperties
<1>4. Len(SubSeq(s, 1, l)) = l /\ \A i \in 1 .. l : SubSeq(s, 1, l)[i] = s[i]
  BY <1>1, <1>3
<1>. QED BY <1>3, <1>4 DEF FirstOf, l

(* One character.                                                          *)
LEMMA OneChar ==
  ASSUME NEW c \in Chars
  PROVE  <<c>> \in Seq(Chars) /\ Len(<<c>>) = 1 /\ <<c>>[1] = c
OBVIOUS

(* A copy writes the bytes of its source, whatever sequence they are       *)
(* given as.                                                               *)
LEMMA MovedWrites ==
  ASSUME NEW m \in Mem, NEW d \in Nat, NEW s \in Nat, NEW k \in Nat, NEW text \in Seq(Chars),
         Len(text) = k, \A i \in 1 .. k : text[i] = m[s + i - 1]
  PROVE  Wrote(m, Moved(m, d, s, k), d, text)
<1>1. ASSUME NEW x \in Addr
      PROVE  (IF x \in d .. d + k - 1 THEN m[x - d + s] ELSE m[x])
               = IF x >= d /\ x < d + Len(text) THEN text[x - d + 1] ELSE m[x]
  <2>1. x \in Nat
    BY Bytes0
  <2>2. CASE x \in d .. d + k - 1
    <3>1. x - d + 1 \in 1 .. k /\ s + (x - d + 1) - 1 = x - d + s
      BY <2>1, <2>2
    <3>2. text[x - d + 1] = m[x - d + s]
      BY <3>1
    <3>. QED BY <2>2, <3>2
  <2>3. CASE x \notin d .. d + k - 1
    BY <2>1, <2>3
  <2>. QED BY <2>2, <2>3
<1>. QED BY <1>1 DEF Moved, Wrote

(* Behind a text that is there.                                            *)
LEMMA WrittenBehind ==
  ASSUME NEW m \in Mem, NEW new, NEW d \in Nat, NEW a \in Seq(Chars), NEW t \in Seq(Chars),
         \A i \in 1 .. Len(a) : a[i] = m[d + i - 1], Wrote(m, new, d + Len(a), t)
  PROVE  Wrote(m, new, d, a \o t)
<1>1. /\ Len(a) \in Nat /\ Len(t) \in Nat /\ Len(a \o t) = Len(a) + Len(t)
      /\ \A i \in 1 .. Len(a) + Len(t) : (a \o t)[i] = IF i <= Len(a) THEN a[i] ELSE t[i - Len(a)]
  BY LenProperties, ConcatProperties
<1>2. ASSUME NEW x \in Addr
      PROVE  (IF x >= d + Len(a) /\ x < d + Len(a) + Len(t) THEN t[x - (d + Len(a)) + 1] ELSE m[x])
               = IF x >= d /\ x < d + Len(a \o t) THEN (a \o t)[x - d + 1] ELSE m[x]
  <2>1. x \in Nat
    BY Bytes0
  <2>2. CASE x < d \/ x >= d + Len(a) + Len(t)
    BY <1>1, <2>1, <2>2
  <2>3. CASE x >= d /\ x < d + Len(a)
    <3>1. x - d + 1 \in 1 .. Len(a) /\ d + (x - d + 1) - 1 = x
      BY <1>1, <2>1, <2>3
    <3>2. (a \o t)[x - d + 1] = m[x]
      BY <1>1, <3>1
    <3>. QED BY <1>1, <2>1, <2>3, <3>2
  <2>4. CASE x >= d + Len(a) /\ x < d + Len(a) + Len(t)
    <3>1. /\ x - d + 1 \in 1 .. Len(a) + Len(t) /\ ~(x - d + 1 <= Len(a))
          /\ (x - d + 1) - Len(a) = x - (d + Len(a)) + 1
      BY <1>1, <2>1, <2>4
    <3>2. (a \o t)[x - d + 1] = t[x - (d + Len(a)) + 1]
      BY <1>1, <3>1
    <3>. QED BY <1>1, <2>1, <2>4, <3>2
  <2>. QED BY <1>1, <2>1, <2>2, <2>3, <2>4
<1>. QED BY <1>2 DEF Wrote

(* And a NUL behind it.                                                    *)
LEMMA NulBehind ==
  ASSUME NEW m \in Mem, NEW new, NEW d \in Nat, NEW t \in Seq(Chars), Wrote(m, new, d, t)
  PROVE  Wrote(m, Store(new, d + Len(t), 0), d, t \o <<0>>)
<1>1. /\ Len(t) \in Nat /\ Len(t \o <<0>>) = Len(t) + 1
      /\ \A i \in 1 .. Len(t) + 1 : (t \o <<0>>)[i] = IF i <= Len(t) THEN t[i] ELSE <<0>>[i - Len(t)]
  BY Bytes0, OneChar, LenProperties, ConcatProperties
<1>2. new = [x \in Addr |-> IF x >= d /\ x < d + Len(t) THEN t[x - d + 1] ELSE m[x]]
  BY DEF Wrote
<1>3. Store(new, d + Len(t), 0) = [x \in Addr |-> IF x = d + Len(t) THEN 0 ELSE new[x]]
  BY <1>2 DEF Store
<1>4. ASSUME NEW x \in Addr
      PROVE  (IF x = d + Len(t) THEN 0 ELSE new[x])
               = IF x >= d /\ x < d + Len(t \o <<0>>) THEN (t \o <<0>>)[x - d + 1] ELSE m[x]
  <2>1. x \in Nat /\ new[x] = IF x >= d /\ x < d + Len(t) THEN t[x - d + 1] ELSE m[x]
    BY <1>2, Bytes0
  <2>2. CASE x = d + Len(t)
    <3>1. x - d + 1 = Len(t) + 1 /\ Len(t) + 1 \in 1 .. Len(t) + 1 /\ (Len(t) + 1) - Len(t) = 1
      BY <1>1, <2>1, <2>2
    <3>2. (t \o <<0>>)[x - d + 1] = 0
      BY <1>1, <3>1, OneChar, Bytes0
    <3>. QED BY <1>1, <2>1, <2>2, <3>2
  <2>3. CASE x >= d /\ x < d + Len(t)
    <3>1. x - d + 1 \in 1 .. Len(t) + 1 /\ x - d + 1 <= Len(t)
      BY <1>1, <2>1, <2>3
    <3>2. (t \o <<0>>)[x - d + 1] = t[x - d + 1]
      BY <1>1, <3>1
    <3>. QED BY <1>1, <2>1, <2>3, <3>2
  <2>4. CASE x < d \/ x > d + Len(t)
    BY <1>1, <2>1, <2>4
  <2>5. x < d \/ x > d + Len(t) \/ x = d + Len(t) \/ (x >= d /\ x < d + Len(t))
    <3>1. x \in Int /\ Len(t) \in Nat
      BY <1>1, <2>1
    <3>. QED BY <3>1
  <2>. QED BY <2>2, <2>3, <2>4, <2>5
<1>. QED BY <1>3, <1>4 DEF Wrote

-----------------------------------------------------------------------------
(* What the copies write. *)

(* A sequence that is no longer than n is its own first n elements.        *)
LEMMA FirstAll ==
  ASSUME NEW s \in Seq(Chars), NEW n \in Nat, n >= Len(s)
  PROVE  FirstOf(s, n) = s
<1>1. Len(s) \in Nat
  BY LenProperties
<1>2. FirstOf(s, n) = SubSeq(s, 1, Len(s))
  BY <1>1 DEF FirstOf
<1>. QED BY <1>2, SubSeqFull

(* A string with its NUL.                                                  *)
LEMMA ZeroEnded ==
  ASSUME NEW m, Terminated(m), NEW s \in Addr
  PROVE  /\ StrAt(m, s) \o <<0>> \in Seq(Chars)
         /\ Len(StrAt(m, s) \o <<0>>) = Strlen(m, s) + 1 /\ Strlen(m, s) \in Nat
         /\ \A i \in 1 .. Strlen(m, s) + 1 : (StrAt(m, s) \o <<0>>)[i] = m[s + i - 1]
<1>. DEFINE t == StrAt(m, s)
<1>1. /\ t \in Seq(Chars) /\ Len(t) = Strlen(m, s)
      /\ \A k \in 1 .. Strlen(m, s) : t[k] = m[s + k - 1]
  BY StrIs
<1>2. Strlen(m, s) \in Nat /\ m[s + Strlen(m, s)] = 0 /\ s \in Nat
  BY StrlenIs, Bytes0
<1>. HIDE DEF t
<1>3. /\ t \o <<0>> \in Seq(Chars) /\ Len(t \o <<0>>) = Len(t) + 1
      /\ \A i \in 1 .. Len(t) + 1 : (t \o <<0>>)[i] = IF i <= Len(t) THEN t[i] ELSE <<0>>[i - Len(t)]
  BY <1>1, Bytes0, OneChar, ConcatProperties
<1>4. ASSUME NEW i \in 1 .. Strlen(m, s) + 1 PROVE (t \o <<0>>)[i] = m[s + i - 1]
  <2>1. CASE i <= Strlen(m, s)
    <3>1. i \in 1 .. Strlen(m, s)
      BY <1>2, <2>1
    <3>2. (t \o <<0>>)[i] = t[i]
      BY <1>1, <1>3, <2>1
    <3>. QED BY <1>1, <3>1, <3>2
  <2>2. CASE i = Strlen(m, s) + 1
    <3>1. i - Len(t) = 1 /\ ~(i <= Len(t)) /\ s + i - 1 = s + Strlen(m, s)
      BY <1>1, <1>2, <2>2
    <3>2. (t \o <<0>>)[i] = <<0>>[1]
      BY <1>1, <1>3, <3>1
    <3>. QED BY <1>2, <3>1, <3>2, OneChar, Bytes0
  <2>3. i <= Strlen(m, s) \/ i = Strlen(m, s) + 1
    <3>1. Strlen(m, s) \in Nat
      BY <1>2
    <3>. QED BY <3>1
  <2>. QED BY <2>1, <2>2, <2>3
<1>. QED BY <1>1, <1>2, <1>3, <1>4 DEF t

(* n bytes of a string.                                                    *)
Least2(l, n) == IF n <= l THEN n ELSE l
TextTaken(l, n) == IF n <= l THEN n ELSE l + 1

(* The copy of a text with its NUL, n bytes at most.                       *)
LEMMA MoveText ==
  ASSUME NEW m, Terminated(m), NEW d \in Nat, NEW s \in Addr, NEW n \in Nat,
         d + TextTaken(Strlen(m, s), n) <= MemSize,
         Apart(d, TextTaken(Strlen(m, s), n), s, TextTaken(Strlen(m, s), n))
  PROVE  /\ Wrote(m, Move(m, d, s, n, NonNul).m, d, FirstOf(StrAt(m, s) \o <<0>>, n))
         /\ Move(m, d, s, n, NonNul).n = n - Least2(Strlen(m, s), n)
         /\ Move(m, d, s, n, NonNul).d = d + Least2(Strlen(m, s), n)
<1>. DEFINE l == Strlen(m, s)
            k == TextTaken(l, n)
            i == Least2(l, n)
            z == StrAt(m, s) \o <<0>>
<1>1. /\ l \in Nat /\ s \in Nat /\ s + l \in Addr /\ m[s + l] = 0 /\ MemSize \in Nat
      /\ m \in Mem /\ NonNul \in SUBSET Chars /\ s + l < MemSize
      /\ \A x \in s .. s + l - 1 : m[x] \in NonNul
  BY StrlenIs, Bytes0 DEF Terminated, Addr
<1>2. z \in Seq(Chars) /\ Len(z) = l + 1 /\ \A j \in 1 .. l + 1 : z[j] = m[s + j - 1]
  BY ZeroEnded
<1>. HIDE DEF l, z
<1>3. /\ i \in 0 .. n /\ i <= l /\ k \in Nat /\ k <= l + 1 /\ k = (IF i < n THEN i + 1 ELSE i)
      /\ (i < n => i = l)
  BY <1>1 DEF TextTaken, Least2
<1>4. \A j \in 0 .. i - 1 : m[s + j] \in NonNul
  <2>1. ASSUME NEW j \in 0 .. i - 1 PROVE s + j \in s .. s + l - 1
    BY <1>1, <1>3
  <2>. HIDE DEF i
  <2>. QED BY <1>1, <2>1
<1>5. i < n => m[s + i] \notin NonNul
  BY <1>1, <1>3 DEF NonNul
<1>6. Safe(d, s, k)
  <2>1. d + k <= MemSize /\ Apart(d, k, s, k)
    BY DEF l
  <2>. HIDE DEF k
  <2>. QED BY <1>1, <1>3, <2>1 DEF Safe
<1>7. /\ Move(m, d, s, n, NonNul).m = Moved(m, d, s, k)
      /\ Move(m, d, s, n, NonNul).d = d + i /\ Move(m, d, s, n, NonNul).n = n - i
  <2>. HIDE DEF i, k
  <2>1. Stops(m, s, n, NonNul, i)
    BY <1>3, <1>4, <1>5 DEF Stops
  <2>2. k = Taken(n, i)
    BY <1>3 DEF Taken
  <2>3. Safe(d, s, Taken(n, i))
    BY <1>6, <2>2
  <2>. QED BY <1>1, <2>1, <2>2, <2>3, MoveIs
<1>8. /\ FirstOf(z, n) \in Seq(Chars) /\ Len(FirstOf(z, n)) = k
      /\ \A j \in 1 .. k : FirstOf(z, n)[j] = m[s + j - 1]
  <2>1. /\ FirstOf(z, n) \in Seq(Chars) /\ Len(FirstOf(z, n)) = (IF n < l + 1 THEN n ELSE l + 1)
        /\ \A j \in 1 .. Len(FirstOf(z, n)) : FirstOf(z, n)[j] = z[j]
    BY <1>2, FirstIs
  <2>2. k = (IF n < l + 1 THEN n ELSE l + 1)
    BY <1>1 DEF TextTaken
  <2>. HIDE DEF k
  <2>. QED BY <1>1, <1>2, <1>3, <2>1, <2>2, SMTT(60)
<1>9. Wrote(m, Moved(m, d, s, k), d, FirstOf(z, n))
  <2>. HIDE DEF k
  <2>. QED BY <1>1, <1>3, <1>8, MovedWrites
<1>. QED BY <1>7, <1>9 DEF l, z

(* strncpy() writes the text and its NUL, n bytes at most.                 *)
LEMMA StrncpyIs ==
  ASSUME NEW m, Terminated(m), NEW d \in Nat, NEW s \in Addr, NEW n \in Nat,
         d + TextTaken(Strlen(m, s), n) <= MemSize,
         Apart(d, TextTaken(Strlen(m, s), n), s, TextTaken(Strlen(m, s), n))
  PROVE  Wrote(m, Strncpy(m, d, s, n), d, FirstOf(StrAt(m, s) \o <<0>>, n))
BY MoveText DEF Strncpy

(* strcpy() writes the text and its NUL.                                   *)
LEMMA StrcpyIs ==
  ASSUME NEW m, Terminated(m), NEW d \in Nat, NEW s \in Addr,
         d + (Strlen(m, s) + 1) <= MemSize, Apart(d, Strlen(m, s) + 1, s, Strlen(m, s) + 1)
  PROVE  Wrote(m, Strcpy(m, d, s), d, StrAt(m, s) \o <<0>>)
<1>1. /\ Strlen(m, s) \in Nat /\ s \in Nat /\ s + Strlen(m, s) < MemSize /\ MemSize \in Nat
  BY StrlenIs, Bytes0 DEF Addr
<1>2. NoLimit \in Nat /\ NoLimit >= Strlen(m, s) + 1 /\ TextTaken(Strlen(m, s), NoLimit) = Strlen(m, s) + 1
  BY <1>1 DEF NoLimit, TextTaken
<1>3. Wrote(m, Strncpy(m, d, s, NoLimit), d, FirstOf(StrAt(m, s) \o <<0>>, NoLimit))
  BY <1>2, StrncpyIs
<1>4. FirstOf(StrAt(m, s) \o <<0>>, NoLimit) = StrAt(m, s) \o <<0>>
  BY <1>1, <1>2, ZeroEnded, FirstAll
<1>. QED BY <1>3, <1>4 DEF Strcpy

(* Behind the string at d.                                                 *)
LEMMA BehindString ==
  ASSUME NEW m, Terminated(m), NEW d \in Addr, NEW new, NEW t \in Seq(Chars),
         Wrote(m, new, d + Strlen(m, d), t \o << 0 >>)
  PROVE  Wrote(m, new, d, StrAt(m, d) \o t \o <<0>>)
<1>1. /\ StrAt(m, d) \in Seq(Chars) /\ Len(StrAt(m, d)) = Strlen(m, d) /\ d \in Nat /\ m \in Mem
      /\ \A k \in 1 .. Strlen(m, d) : StrAt(m, d)[k] = m[d + k - 1]
  BY StrIs, Bytes0 DEF Terminated
<1>2. t \o <<0>> \in Seq(Chars) /\ <<0>> \in Seq(Chars)
  BY Bytes0, OneChar, ConcatProperties
<1>3. Wrote(m, new, d, StrAt(m, d) \o (t \o <<0>>))
  BY <1>1, <1>2, WrittenBehind
<1>4. StrAt(m, d) \o (t \o <<0>>) = (StrAt(m, d) \o t) \o <<0>>
  BY <1>1, <1>2, ConcatAssociative
<1>. QED BY <1>3, <1>4

(* strcat() leaves both texts, one behind the other.                       *)
LEMMA StrcatIs ==
  ASSUME NEW m, Terminated(m), NEW d \in Addr, NEW s \in Addr,
         d + (Strlen(m, d) + Strlen(m, s) + 1) <= MemSize,
         Apart(d, Strlen(m, d) + Strlen(m, s) + 1, s, Strlen(m, s) + 1)
  PROVE  Wrote(m, Strcat(m, d, s), d, StrAt(m, d) \o StrAt(m, s) \o <<0>>)
<1>1. /\ Strlen(m, s) \in Nat /\ Strlen(m, d) \in Nat /\ s \in Nat /\ d \in Nat /\ MemSize \in Nat
      /\ StrAt(m, s) \in Seq(Chars)
  BY StrlenIs, StrIs, Bytes0
<1>2. Wrote(m, Strcpy(m, d + Strlen(m, d), s), d + Strlen(m, d), StrAt(m, s) \o <<0>>)
  <2>1. /\ d + Strlen(m, d) \in Nat /\ d + Strlen(m, d) + (Strlen(m, s) + 1) <= MemSize
        /\ Apart(d + Strlen(m, d), Strlen(m, s) + 1, s, Strlen(m, s) + 1)
    BY <1>1 DEF Apart
  <2>. QED BY <2>1, StrcpyIs
<1>. QED BY <1>1, <1>2, BehindString DEF Strcat

(* memcpy() of areas apart from each other is a copy.                      *)
LEMMA MemcpyIs ==
  ASSUME NEW m \in Mem, NEW d \in Nat, NEW s \in Nat, NEW n \in Nat, Safe(d, s, n)
  PROVE  Memcpy(m, d, s, n) = Moved(m, d, s, n)
<1>1. \A j \in 0 .. n - 1 : m[s + j] \in Chars
  <2>1. ASSUME NEW j \in 0 .. n - 1 PROVE s + j \in Addr
    BY Bytes0 DEF Safe, Addr
  <2>. QED BY <2>1, Bytes0
<1>2. Stops(m, s, n, Chars, n) /\ Taken(n, n) = n /\ Chars \in SUBSET Chars
  BY <1>1 DEF Stops, Taken
<1>3. Move(m, d, s, n, Chars).m = Moved(m, d, s, n)
  BY <1>1, <1>2, MoveIs
<1>. QED BY <1>3 DEF Memcpy

(* memmove() is a copy of what was there, however the areas overlap.       *)
LEMMA MemmoveIs ==
  ASSUME NEW m \in Mem, NEW d \in Nat, NEW s \in Nat, NEW n \in Nat,
         d + n <= MemSize, s + n <= MemSize
  PROVE  Memmove(m, d, s, n) = Moved(m, d, s, n)
<1>1. CASE d <= s
  BY <1>1, MemcpyIs DEF Memmove, Safe
<1>2. CASE ~(d <= s)
  <2>1. d > s
    BY <1>2
  <2>. QED BY <1>2, <2>1, CopyDownIs DEF Memmove
<1>. QED BY <1>1, <1>2

(* A copy writes the bytes that the source held.                           *)
LEMMA BlockWrites ==
  ASSUME NEW m \in Mem, NEW d \in Nat, NEW s \in Nat, NEW n \in Nat, s + n <= MemSize
  PROVE  Wrote(m, Moved(m, d, s, n), d, Bytes(m, s, n))
<1>1. \A x \in s .. s + n - 1 : m[x] \in Chars
  BY Bytes0 DEF Addr
<1>2. /\ Bytes(m, s, n) \in Seq(Chars) /\ Len(Bytes(m, s, n)) = n
      /\ \A k \in 1 .. n : Bytes(m, s, n)[k] = m[s + k - 1]
  BY <1>1, BytesAre
<1>. QED BY <1>2, MovedWrites

(* n characters of a string are those before its end.                      *)
LEMMA FirstOfText ==
  ASSUME NEW m, Terminated(m), NEW s \in Addr, NEW n \in Nat, n <= Strlen(m, s)
  PROVE  /\ FirstOf(StrAt(m, s) \o <<0>>, n) = FirstOf(StrAt(m, s), n)
         /\ FirstOf(StrAt(m, s), n) \in Seq(Chars) /\ Len(FirstOf(StrAt(m, s), n)) = n
         /\ \A i \in 1 .. n : FirstOf(StrAt(m, s), n)[i] = m[s + i - 1]
<1>. DEFINE t == StrAt(m, s)
            z == t \o <<0>>
            l == Strlen(m, s)
<1>1. /\ t \in Seq(Chars) /\ Len(t) = l /\ l \in Nat /\ \A k \in 1 .. l : t[k] = m[s + k - 1]
      /\ z \in Seq(Chars) /\ Len(z) = l + 1 /\ \A k \in 1 .. l + 1 : z[k] = m[s + k - 1]
  BY StrIs, ZeroEnded
<1>2. n <= l
  OBVIOUS
<1>. HIDE DEF t, z, l
<1>3. /\ FirstOf(z, n) \in Seq(Chars) /\ Len(FirstOf(z, n)) = (IF n < Len(z) THEN n ELSE Len(z))
      /\ \A k \in 1 .. Len(FirstOf(z, n)) : FirstOf(z, n)[k] = z[k]
      /\ FirstOf(t, n) \in Seq(Chars) /\ Len(FirstOf(t, n)) = (IF n < Len(t) THEN n ELSE Len(t))
      /\ \A k \in 1 .. Len(FirstOf(t, n)) : FirstOf(t, n)[k] = t[k]
  BY <1>1, FirstIs
<1>4. Len(FirstOf(z, n)) = n /\ Len(FirstOf(t, n)) = n
  BY <1>1, <1>2, <1>3
<1>5. ASSUME NEW k \in 1 .. n
      PROVE  FirstOf(z, n)[k] = m[s + k - 1] /\ FirstOf(t, n)[k] = m[s + k - 1]
  <2>1. k \in 1 .. l /\ k \in 1 .. l + 1
    BY <1>1, <1>2
  <2>. QED BY <1>1, <1>3, <1>4, <2>1
<1>6. FirstOf(z, n) = FirstOf(t, n)
  BY <1>3, <1>4, <1>5, SeqEqual
<1>. QED BY <1>3, <1>4, <1>5, <1>6 DEF t, z, l

(* n characters at most and a NUL.                                         *)
LEMMA StrncatWrites ==
  ASSUME NEW m, Terminated(m), NEW d \in Addr, NEW s \in Addr, NEW n \in Nat, NEW k \in Nat,
         k = Strlen(m, d) + (IF n < Strlen(m, s) + 1 THEN n + 1 ELSE Strlen(m, s) + 1),
         d + k <= MemSize, Apart(d, k, s, Strlen(m, s) + 1)
  PROVE  Wrote(m, Strncat(m, d, s, n), d + Strlen(m, d), FirstOf(StrAt(m, s), n) \o <<0>>)
<1>. DEFINE e == d + Strlen(m, d)
            l == Strlen(m, s)
            t == StrAt(m, s)
            r == Move(m, e, s, n, NonNul)
<1>1. /\ l \in Nat /\ Strlen(m, d) \in Nat /\ s \in Nat /\ d \in Nat /\ MemSize \in Nat /\ e \in Addr
      /\ m[e] = 0 /\ m \in Mem /\ e \in Nat /\ s + l \in Addr /\ t \in Seq(Chars) /\ Len(t) = l
  BY StrlenIs, StrIs, Bytes0 DEF Terminated
<1>2. /\ e + (IF n < l + 1 THEN n + 1 ELSE l + 1) <= MemSize
      /\ Apart(e, IF n < l + 1 THEN n + 1 ELSE l + 1, s, l + 1)
  <2>. DEFINE more == IF n < l + 1 THEN n + 1 ELSE l + 1
  <2>1. more \in Nat /\ k = Strlen(m, d) + more
    BY <1>1, SMTT(60)
  <2>2. d + k <= MemSize /\ Apart(d, k, s, l + 1)
    OBVIOUS
  <2>. HIDE DEF more, l
  <2>3. e + more <= MemSize /\ Apart(e, more, s, l + 1)
    <3>1. /\ Strlen(m, d) \in Nat /\ s \in Nat /\ d \in Nat /\ MemSize \in Nat /\ l \in Nat
          /\ k \in Nat /\ e = d + Strlen(m, d)
      BY <1>1
    <3>2. d + k = e + more
      BY <3>1, <2>1
    <3>. HIDE DEF e
    <3>3. (s + (l + 1) <= d) => (s + (l + 1) <= e)
      BY <3>1
    <3>. QED BY <2>2, <3>2, <3>3 DEF Apart
  <2>. QED BY <2>3 DEF more, l
<1>3. Strncat(m, d, s, n) = IF n = 0 THEN m ELSE IF r.n = 0 THEN Store(r.m, r.d, 0) ELSE r.m
  BY DEF Strncat
<1>. HIDE DEF e, l
<1>4. /\ Wrote(m, r.m, e, FirstOf(t \o <<0>>, n))
      /\ r.n = n - Least2(l, n) /\ r.d = e + Least2(l, n)
  <2>1. e + TextTaken(l, n) <= MemSize /\ Apart(e, TextTaken(l, n), s, TextTaken(l, n))
    BY <1>1, <1>2 DEF TextTaken, Apart
  <2>. QED BY <1>1, <2>1, MoveText DEF l
<1>. HIDE DEF r, t
<1>5. CASE n = 0
  <2>1. FirstOf(t, n) = <<>> /\ <<0>> \in Seq(Chars)
    <3>1. 0 <= l
      BY <1>1
    <3>2. FirstOf(t, n) \in Seq(Chars) /\ Len(FirstOf(t, n)) = 0
      BY <1>5, <3>1, FirstOfText DEF l, t
    <3>. QED BY <3>2, Bytes0, OneChar, EmptySeq
  <2>2. FirstOf(t, n) \o <<0>> = <<0>>
    BY <2>1, ConcatEmptySeq
  <2>3. Wrote(m, m, e, <<0>>)
    <3>1. ASSUME NEW x \in Addr
          PROVE  m[x] = IF x >= e /\ x < e + Len(<<0>>) THEN <<0>>[x - e + 1] ELSE m[x]
      <4>1. x \in Nat /\ Len(<<0>>) = 1
        BY Bytes0, OneChar
      <4>2. CASE x = e
        BY <1>1, <4>1, <4>2
      <4>3. CASE x # e
        BY <1>1, <4>1, <4>3
      <4>. QED BY <4>2, <4>3
    <3>. QED BY <1>1, <3>1 DEF Wrote, Mem
  <2>. QED BY <1>3, <1>5, <2>2, <2>3 DEF e, t
<1>6. CASE n # 0 /\ n <= l
  <2>1. r.n = 0 /\ r.d = e + n
    BY <1>1, <1>4, <1>6 DEF Least2
  <2>2. /\ FirstOf(t \o <<0>>, n) = FirstOf(t, n) /\ FirstOf(t, n) \in Seq(Chars)
        /\ Len(FirstOf(t, n)) = n
    BY <1>6, FirstOfText DEF l, t
  <2>3. Wrote(m, Store(r.m, e + n, 0), e, FirstOf(t, n) \o <<0>>)
    BY <1>1, <1>4, <2>2, NulBehind
  <2>. QED BY <1>3, <1>6, <2>1, <2>3 DEF e, t
<1>7. CASE n > l
  <2>1. r.n # 0 /\ n # 0
    BY <1>1, <1>4, <1>7 DEF Least2
  <2>2. FirstOf(t, n) = t
    BY <1>1, <1>7, FirstAll
  <2>3. FirstOf(t \o <<0>>, n) = t \o <<0>>
    <3>1. t \o <<0>> \in Seq(Chars) /\ Len(t \o <<0>>) = l + 1
      BY ZeroEnded DEF l, t
    <3>2. n >= l + 1
      BY <1>1, <1>7
    <3>. QED BY <3>1, <3>2, FirstAll
  <2>. QED BY <1>3, <1>4, <2>1, <2>2, <2>3 DEF e, t
<1>8. n = 0 \/ (n # 0 /\ n <= l) \/ n > l
  BY <1>1
<1>. QED BY <1>5, <1>6, <1>7, <1>8

(* strncat() leaves the text, n characters of the other at most, and a     *)
(* NUL.                                                                    *)
LEMMA StrncatIs ==
  ASSUME NEW m, Terminated(m), NEW d \in Addr, NEW s \in Addr, NEW n \in Nat, NEW k \in Nat,
         k = Strlen(m, d) + (IF n < Strlen(m, s) + 1 THEN n + 1 ELSE Strlen(m, s) + 1),
         d + k <= MemSize, Apart(d, k, s, Strlen(m, s) + 1)
  PROVE  Wrote(m, Strncat(m, d, s, n), d, StrAt(m, d) \o FirstOf(StrAt(m, s), n) \o <<0>>)
<1>1. Wrote(m, Strncat(m, d, s, n), d + Strlen(m, d), FirstOf(StrAt(m, s), n) \o <<0>>)
  BY StrncatWrites
<1>2. FirstOf(StrAt(m, s), n) \in Seq(Chars)
  BY StrIs, FirstIs
<1>. QED BY <1>1, <1>2, BehindString

(* strlcpy() writes what of the text fits in n bytes with a NUL.           *)
LEMMA StrlcpyIs ==
  ASSUME NEW m, Terminated(m), NEW d \in Addr, NEW s \in Addr, NEW n \in Nat \ {0},
         d + n <= MemSize, Apart(d, n, s, Strlen(m, s) + 1)
  PROVE  Wrote(m, Strlcpy(m, d, s, n), d, FirstOf(StrAt(m, s), n - 1) \o <<0>>)
<1>. DEFINE l == Strlen(m, s)
            k == IF l >= n THEN n - 1 ELSE l
            t == FirstOf(StrAt(m, s), n - 1)
<1>1. /\ l \in Nat /\ s \in Nat /\ d \in Nat /\ MemSize \in Nat /\ m \in Mem /\ s + l < MemSize
      /\ StrAt(m, s) \in Seq(Chars) /\ Len(StrAt(m, s)) = l
      /\ \A i \in 1 .. l : StrAt(m, s)[i] = m[s + i - 1]
  <2>1. /\ l \in Nat /\ s \in Nat /\ d \in Nat /\ MemSize \in Nat /\ m \in Mem /\ s + l \in Addr
    BY StrlenIs, Bytes0 DEF Terminated
  <2>2. s + l < MemSize
    BY <2>1 DEF Addr
  <2>. QED BY <2>1, <2>2, StrIs
<1>2. Strlcpy(m, d, s, n) = Store(Memcpy(m, d, s, k), d + k, 0)
  BY DEF Strlcpy
<1>3. Apart(d, n, s, l + 1)
  OBVIOUS
<1>. HIDE DEF l
<1>4. k \in Nat /\ k <= l /\ k <= n - 1 /\ n - 1 \in Nat /\ k = IF n - 1 < l THEN n - 1 ELSE l
  BY <1>1
<1>5. Safe(d, s, k)
  <2>. HIDE DEF k
  <2>1. d + k <= MemSize
    BY <1>1, <1>4
  <2>2. s + k <= MemSize
    BY <1>1, <1>4
  <2>3. d + n <= s \/ s + (l + 1) <= d
    BY <1>3 DEF Apart
  <2>4. CASE d + n <= s
    <3>1. d + k <= s
      BY <1>1, <1>4, <2>4
    <3>. QED BY <2>1, <2>2, <3>1 DEF Safe, Apart
  <2>5. CASE s + (l + 1) <= d
    <3>1. s + k <= d
      BY <1>1, <1>4, <2>5
    <3>. QED BY <2>1, <2>2, <3>1 DEF Safe, Apart
  <2>. QED BY <2>3, <2>4, <2>5
<1>6. Memcpy(m, d, s, k) = Moved(m, d, s, k)
  <2>. HIDE DEF k
  <2>. QED BY <1>1, <1>4, <1>5, MemcpyIs
<1>7. t \in Seq(Chars) /\ Len(t) = k /\ \A i \in 1 .. k : t[i] = m[s + i - 1]
  <2>1. /\ t \in Seq(Chars) /\ Len(t) = (IF n - 1 < l THEN n - 1 ELSE l)
        /\ \A i \in 1 .. Len(t) : t[i] = StrAt(m, s)[i]
    BY <1>1, <1>4, FirstIs
  <2>. HIDE DEF k, t
  <2>2. Len(t) = k
    BY <1>4, <2>1
  <2>3. ASSUME NEW i \in 1 .. k PROVE t[i] = m[s + i - 1]
    <3>1. i \in 1 .. l
      BY <1>1, <1>4
    <3>2. StrAt(m, s)[i] = m[s + i - 1]
      BY <1>1, <3>1
    <3>3. t[i] = StrAt(m, s)[i]
      BY <2>1, <2>2
    <3>. QED BY <3>2, <3>3
  <2>. QED BY <2>1, <2>2, <2>3
<1>8. Wrote(m, Moved(m, d, s, k), d, t)
  <2>. HIDE DEF k, t
  <2>. QED BY <1>1, <1>4, <1>7, MovedWrites
<1>. HIDE DEF k, t
<1>9. Wrote(m, Store(Moved(m, d, s, k), d + k, 0), d, t \o <<0>>)
  BY <1>1, <1>7, <1>8, NulBehind
<1>. QED BY <1>2, <1>6, <1>9 DEF t

(* memset() writes n times its character.                                  *)
LEMMA MemsetWrites ==
  ASSUME NEW m \in Mem, NEW p \in Nat, NEW c \in Chars, NEW n \in Nat
  PROVE  Wrote(m, Memset(m, p, c, n), p, [k \in 1 .. n |-> c])
<1>. DEFINE t == [k \in 1 .. n |-> c]
<1>1. t \in [1 .. n -> Chars] /\ \A k \in 1 .. n : t[k] = c
  OBVIOUS
<1>. HIDE DEF t
<1>2. Len(t) = n
  <2>1. t \in Seq(Chars)
    BY <1>1, SeqDef
  <2>. QED BY <1>1, <2>1, LenProperties
<1>3. ASSUME NEW x \in Addr
      PROVE  (IF x \in p .. p + n - 1 THEN c ELSE m[x])
               = IF x >= p /\ x < p + Len(t) THEN t[x - p + 1] ELSE m[x]
  <2>1. x \in Nat
    BY Bytes0
  <2>2. CASE x \in p .. p + n - 1
    <3>1. x - p + 1 \in 1 .. n
      BY <2>1, <2>2
    <3>. QED BY <1>1, <1>2, <2>1, <2>2, <3>1
  <2>3. CASE x \notin p .. p + n - 1
    BY <1>2, <2>1, <2>3
  <2>. QED BY <2>2, <2>3
<1>. QED BY <1>3, MemsetIs DEF Filled, Wrote, t

(* A string with its pairs swapped.                                        *)
InPairs(s) == [k \in 1 .. Len(s) |-> IF k % 2 = 0 THEN s[k - 1]
                                     ELSE IF k < Len(s) THEN s[k + 1] ELSE s[k]]

(* strswab() writes the text with its characters swapped in pairs.         *)
LEMMA StrswabWrites ==
  ASSUME NEW m, Terminated(m), NEW p \in Addr
  PROVE  Wrote(m, Strswab(m, p), p, InPairs(StrAt(m, p)))
<1>. DEFINE l == Strlen(m, p)
            s == StrAt(m, p)
            t == InPairs(s)
<1>1. /\ l \in Nat /\ p \in Nat /\ m \in Mem /\ s \in Seq(Chars) /\ Len(s) = l
      /\ \A k \in 1 .. l : s[k] = m[p + k - 1]
  BY StrlenIs, StrIs, Bytes0 DEF Terminated
<1>2. PICK j \in Nat : /\ l = 2 * j \/ l = 2 * j + 1
                       /\ Strswab(m, p) = Swapped(m, p, j)
  BY StrswabIs
<1>. HIDE DEF l, s
<1>3. ASSUME NEW k \in 1 .. l
      PROVE  /\ k % 2 = 0 => k - 1 \in 1 .. l
             /\ (k % 2 # 0 /\ k < l) => k + 1 \in 1 .. l
  BY <1>1
<1>4. /\ t \in [1 .. l -> Chars]
      /\ \A k \in 1 .. l : t[k] = IF k % 2 = 0 THEN s[k - 1] ELSE IF k < l THEN s[k + 1] ELSE s[k]
  <2>1. \A k \in 1 .. l : s[k] \in Chars
    BY <1>1, ElementOfSeq
  <2>. QED BY <1>1, <1>3, <2>1 DEF InPairs
<1>. HIDE DEF t
<1>5. Len(t) = l
  <2>1. t \in Seq(Chars)
    BY <1>1, <1>4, SeqDef
  <2>. QED BY <1>1, <1>4, <2>1, LenProperties
<1>6. ASSUME NEW x \in Addr
      PROVE  (IF x \in p .. p + 2 * j - 1
              THEN IF (x - p) % 2 = 0 THEN m[x + 1] ELSE m[x - 1]
              ELSE m[x])
               = IF x >= p /\ x < p + Len(t) THEN t[x - p + 1] ELSE m[x]
  <2>1. x \in Nat /\ l \in Nat /\ p \in Nat /\ (l = 2 * j \/ l = 2 * j + 1)
    BY <1>1, <1>2, Bytes0
  <2>. DEFINE k == x - p + 1
  <2>2. CASE x \in p .. p + 2 * j - 1 /\ (x - p) % 2 = 0
    <3>1. k \in 1 .. l /\ k % 2 # 0 /\ k < l /\ p + (k + 1) - 1 = x + 1 /\ k + 1 \in 1 .. l
      BY <2>1, <2>2
    <3>. HIDE DEF k
    <3>2. t[k] = m[x + 1]
      BY <1>1, <1>4, <3>1
    <3>. QED BY <1>1, <1>2, <1>5, <2>1, <2>2, <3>2 DEF k
  <2>3. CASE x \in p .. p + 2 * j - 1 /\ (x - p) % 2 # 0
    <3>1. k \in 1 .. l /\ k % 2 = 0 /\ p + (k - 1) - 1 = x - 1 /\ k - 1 \in 1 .. l
      BY <2>1, <2>3
    <3>. HIDE DEF k
    <3>2. t[k] = m[x - 1]
      BY <1>1, <1>4, <3>1
    <3>. QED BY <1>1, <1>2, <1>5, <2>1, <2>3, <3>2 DEF k
  <2>4. CASE x = p + 2 * j /\ l = 2 * j + 1
    <3>1. k \in 1 .. l /\ k % 2 # 0 /\ ~(k < l) /\ p + k - 1 = x
      BY <2>1, <2>4
    <3>. HIDE DEF k
    <3>2. t[k] = m[x]
      BY <1>1, <1>4, <3>1
    <3>. QED BY <1>1, <1>2, <1>5, <2>1, <2>4, <3>2 DEF k
  <2>5. CASE x < p \/ x >= p + l
    BY <1>1, <1>2, <1>5, <2>1, <2>5, SMTT(60)
  <2>6. \/ x \in p .. p + 2 * j - 1 \/ x < p \/ x >= p + l
        \/ x = p + 2 * j /\ l = 2 * j + 1
    BY <2>1
  <2>. QED BY <2>2, <2>3, <2>4, <2>5, <2>6
<1>. QED BY <1>2, <1>6 DEF Swapped, Wrote, t, s

(* The least and the greatest of a set.                                    *)
LEMMA LeastIs ==
  ASSUME NEW S \in SUBSET Int, NEW x \in S, \A y \in S : x <= y
  PROVE  Least(S) = x
<1>1. S # {}
  OBVIOUS
<1>2. \A z \in S : (\A y \in S : z <= y) => z = x
  OBVIOUS
<1>3. Least(S) = CHOOSE z \in S : \A y \in S : z <= y
  BY <1>1 DEF Least
<1>. QED BY <1>2, <1>3

(* The least of no places.                                                 *)
LEMMA LeastNone ==
  ASSUME NEW S, S = {}
  PROVE  Least(S) = Null
BY DEF Least

(* The greatest of a set of integers.                                      *)
LEMMA GreatestIs ==
  ASSUME NEW S \in SUBSET Int, NEW x \in S, \A y \in S : y <= x
  PROVE  (CHOOSE k \in S : \A j \in S : j <= k) = x
<1>1. \A z \in S : (\A y \in S : y <= z) => z = x
  OBVIOUS
<1>. QED BY <1>1

(* The text without its blanks.                                            *)
Solid(s) == {k \in 1 .. Len(s) : s[k] \notin Blanks}

(* strim() leaves the text without the blanks around it and writes         *)
(* nothing but a NUL.                                                      *)
LEMMA StrimIs ==
  ASSUME NEW m, Terminated(m), NEW d \in Addr
  PROVE  /\ StrAt(Strim(m, d), SkipSpaces(m, d))
              = IF Solid(StrAt(m, d)) = {} THEN <<>>
                ELSE SubSeq(StrAt(m, d), Least(Solid(StrAt(m, d))),
                            CHOOSE k \in Solid(StrAt(m, d)) : \A j \in Solid(StrAt(m, d)) : j <= k)
         /\ \A x \in Addr : Strim(m, d)[x] # m[x] => Strim(m, d)[x] = 0
<1>. DEFINE C == Chars \ Blanks
            t == SkipSpaces(m, d)
            s == StrAt(m, d)
            l == Strlen(m, d)
            new == Strim(m, d)
<1>1. C \in SUBSET Chars /\ 0 \in C /\ Blanks \subseteq Chars /\ 0 \notin Blanks
  BY Bytes0, StringChars
<1>2. /\ m \in Mem /\ d \in Nat /\ l \in Nat /\ d + l \in Addr /\ m[d + l] = 0
      /\ MemSize \in Nat /\ \A x \in d .. d + l - 1 : x \in Addr /\ m[x] \in NonNul
  BY StrlenIs, Bytes0 DEF Terminated
<1>3. s \in Seq(Chars) /\ Len(s) = l /\ \A k \in 1 .. l : s[k] = m[d + k - 1]
  BY StrIs
<1>4. t \in d .. d + l /\ m[t] \in C /\ \A x \in d .. t - 1 : m[x] \notin C
  BY <1>1, UntilWithin DEF SkipSpaces
<1>. HIDE DEF t, s, l
<1>5. t \in Nat /\ t \in Addr
  BY <1>2, <1>4, Bytes0 DEF Addr
<1>6. \A x \in d .. t - 1 : m[x] \in Blanks
  <2>1. ASSUME NEW x \in d .. t - 1 PROVE x \in d .. d + l - 1
    BY <1>2, <1>4, <1>5
  <2>. QED BY <1>2, <1>4, <2>1, Bytes0
<1>7. new = IF m[t] = 0 THEN m
            ELSE Store(m, DownTo(m, t, t + Strlen(m, t) - 1, C) + 1, 0)
  BY DEF Strim, t
<1>. HIDE DEF C
<1>8. CASE m[t] = 0
  <2>1. Strlen(m, t) = 0
    BY <1>5, <1>8, StrlenAt
  <2>2. StrAt(m, t) = <<>>
    BY <1>5, <2>1, StrIs, EmptySeq
  <2>3. t = d + l
    BY <1>2, <1>4, <1>5, <1>8 DEF NonNul
  <2>4. Solid(s) = {}
    <3>1. SUFFICES ASSUME NEW k \in 1 .. l PROVE s[k] \in Blanks
      BY <1>3 DEF Solid
    <3>2. d + k - 1 \in d .. t - 1
      BY <1>2, <2>3
    <3>. QED BY <1>3, <1>6, <3>2
  <2>. QED BY <1>7, <1>8, <2>2, <2>4 DEF s, t
<1>9. CASE m[t] # 0
  <2>. DEFINE e == DownTo(m, t, t + Strlen(m, t) - 1, C)
  <2>1. t < d + l
    BY <1>2, <1>4, <1>5, <1>9
  <2>2. Strlen(m, t) = d + l - t
    <3>1. \A x \in t .. t + (d + l - t) - 1 : m[x] # 0
      <4>1. ASSUME NEW x \in t .. t + (d + l - t) - 1 PROVE x \in d .. d + l - 1
        BY <1>2, <1>4, <1>5
      <4>. QED BY <1>2, <4>1 DEF NonNul
    <3>2. d + l - t \in Nat /\ t + (d + l - t) = d + l
      BY <1>2, <1>5, <2>1
    <3>. QED BY <1>2, <1>5, <3>1, <3>2, StrlenAt
  <2>3. /\ e \in t - 1 .. d + l - 1
        /\ \A x \in e + 1 .. d + l - 1 : m[x] \notin C
        /\ e # t - 1 => m[e] \in C
    <3>1. t + Strlen(m, t) - 1 = d + l - 1 /\ d + l - 1 >= t - 1 /\ d + l - 1 \in Int /\ t \in Int
      BY <1>2, <1>5, <2>1, <2>2
    <3>. QED BY <1>1, <1>2, <3>1, BackIs
  <2>4. new = Store(m, e + 1, 0)
    BY <1>7, <1>9
  <2>. HIDE DEF e
  <2>5. e # t - 1
    <3>1. e = t - 1 => t \in e + 1 .. d + l - 1
      BY <1>2, <1>5, <2>1
    <3>. QED BY <1>4, <2>3, <3>1
  <2>6. e \in Nat /\ e >= t /\ e < d + l /\ m[e] \in C /\ e + 1 \in Addr
    <3>1. e \in Nat /\ e >= t /\ e < d + l /\ m[e] \in C
      BY <1>2, <1>5, <2>3, <2>5
    <3>. QED BY <1>2, <3>1 DEF Addr
  <2>7. \A x \in e + 1 .. d + l - 1 : m[x] \in Blanks
    <3>1. ASSUME NEW x \in e + 1 .. d + l - 1 PROVE x \in d .. d + l - 1
      BY <1>2, <1>4, <1>5, <2>6
    <3>. QED BY <1>2, <2>3, <3>1, Bytes0 DEF C
  <2>8. new \in Mem /\ \A x \in Addr : new[x] = IF x = e + 1 THEN 0 ELSE m[x]
    BY <1>2, <2>4, <2>6, StoreIs, Bytes0
  <2>9. Terminated(new)
    BY <2>8, Bytes0 DEF Terminated
  <2>10. Strlen(new, t) = e + 1 - t
    <3>1. \A x \in t .. t + (e + 1 - t) - 1 : new[x] # 0
      <4>1. ASSUME NEW x \in t .. t + (e + 1 - t) - 1 PROVE x \in d .. d + l - 1 /\ x # e + 1
        BY <1>2, <1>4, <1>5, <2>6
      <4>. QED BY <1>2, <2>8, <4>1 DEF NonNul
    <3>2. e + 1 - t \in Nat /\ t + (e + 1 - t) = e + 1 /\ new[e + 1] = 0
      BY <1>5, <2>6, <2>8
    <3>. QED BY <1>5, <2>6, <2>9, <3>1, <3>2, StrlenAt
  <2>11. /\ StrAt(new, t) \in Seq(Chars) /\ Len(StrAt(new, t)) = e + 1 - t
         /\ \A k \in 1 .. e + 1 - t : StrAt(new, t)[k] = new[t + k - 1]
    BY <1>5, <2>9, <2>10, StrIs
  <2>. DEFINE lo == t - d + 1
              hi == e - d + 1
  <2>12. lo \in 1 .. l /\ hi \in 1 .. l /\ d + lo - 1 = t /\ d + hi - 1 = e /\ lo <= hi
         /\ hi - lo + 1 = e + 1 - t
    BY <1>2, <1>4, <1>5, <2>6
  <2>. HIDE DEF lo, hi
  <2>13. ASSUME NEW k \in Solid(s) PROVE k \in Int /\ lo <= k /\ k <= hi
    <3>1. k \in 1 .. l /\ m[d + k - 1] \notin Blanks
      BY <1>3, <2>13 DEF Solid
    <3>2. ~(k < lo)
      <4>1. k < lo => d + k - 1 \in d .. t - 1
        BY <1>2, <2>12, <3>1
      <4>. QED BY <1>6, <3>1, <4>1
    <3>3. ~(k > hi)
      <4>1. k > hi => d + k - 1 \in e + 1 .. d + l - 1
        BY <1>2, <2>6, <2>12, <3>1
      <4>. QED BY <2>7, <3>1, <4>1
    <3>. QED BY <1>2, <2>12, <3>1, <3>2, <3>3
  <2>14. lo \in Solid(s) /\ hi \in Solid(s)
    <3>1. m[t] \notin Blanks /\ m[e] \notin Blanks
      BY <1>4, <2>6 DEF C
    <3>. QED BY <1>3, <2>12, <3>1 DEF Solid
  <2>15. Least(Solid(s)) = lo /\ (CHOOSE k \in Solid(s) : \A j \in Solid(s) : j <= k) = hi
    BY <2>13, <2>14, LeastIs, GreatestIs
  <2>16. StrAt(new, t) = SubSeq(s, lo, hi)
    <3>1. \A i \in lo .. hi : s[i] \in Chars
      BY <1>2, <1>3, <2>12, ElementOfSeq
    <3>2. /\ SubSeq(s, lo, hi) \in Seq(Chars)
          /\ Len(SubSeq(s, lo, hi)) = (IF lo <= hi THEN hi - lo + 1 ELSE 0)
          /\ \A i \in 1 .. hi - lo + 1 : SubSeq(s, lo, hi)[i] = s[lo + i - 1]
      BY <2>12, <3>1, SubSeqProperties
    <3>3. ASSUME NEW k \in 1 .. e + 1 - t PROVE StrAt(new, t)[k] = SubSeq(s, lo, hi)[k]
      <4>1. /\ lo + k - 1 \in 1 .. l /\ d + (lo + k - 1) - 1 = t + k - 1
            /\ t + k - 1 \in d .. d + l - 1 /\ t + k - 1 # e + 1
        BY <1>2, <1>4, <1>5, <2>6, <2>12
      <4>2. SubSeq(s, lo, hi)[k] = m[t + k - 1]
        BY <1>3, <2>12, <3>2, <4>1
      <4>3. new[t + k - 1] = m[t + k - 1]
        BY <1>2, <2>8, <4>1
      <4>. QED BY <2>11, <4>2, <4>3
    <3>4. Len(SubSeq(s, lo, hi)) = e + 1 - t
      BY <2>12, <3>2
    <3>. QED BY <2>11, <3>2, <3>3, <3>4, SeqEqual
  <2>17. Solid(s) # {}
    BY <2>14
  <2>. QED BY <2>8, <2>15, <2>16, <2>17 DEF s, t
<1>. QED BY <1>8, <1>9

-----------------------------------------------------------------------------
(* What the searches return. *)

(* strchr() finds the first place of a character, the NUL included.        *)
LEMMA StrchrIs ==
  ASSUME NEW m, Terminated(m), NEW a \in Addr, NEW c \in Chars
  PROVE  Strchr(m, a, c) = Least({p \in a .. a + Strlen(m, a) : m[p] = c})
<1>. DEFINE q == Until(m, a, {c, 0})
            S == {p \in a .. a + Strlen(m, a) : m[p] = c}
<1>1. /\ q \in a .. a + Strlen(m, a) /\ m[q] \in {c, 0} /\ \A x \in a .. q - 1 : m[x] \notin {c, 0}
  BY UntilWithin, Bytes0
<1>2. /\ a \in Nat /\ Strlen(m, a) \in Nat /\ m[a + Strlen(m, a)] = 0
      /\ \A x \in a .. a + Strlen(m, a) - 1 : m[x] # 0
  BY StrlenIs, Bytes0 DEF NonNul
<1>3. Strchr(m, a, c) = IF m[q] = c THEN q ELSE Null
  BY DEF Strchr
<1>. HIDE DEF q
<1>4. CASE m[q] = c
  <2>1. q \in S /\ S \in SUBSET Int /\ \A x \in S : a <= x
    BY <1>1, <1>2, <1>4
  <2>2. \A x \in S : q <= x
    BY <1>1, <2>1
  <2>. HIDE DEF S
  <2>3. Least(S) = q
    BY <2>1, <2>2, LeastIs
  <2>. QED BY <1>3, <1>4, <2>3 DEF S
<1>5. CASE m[q] # c
  <2>1. q = a + Strlen(m, a)
    BY <1>1, <1>2, <1>5
  <2>2. S = {}
    <3>1. \A x \in a .. a + Strlen(m, a) : x \in a .. q - 1 \/ x = q
      BY <1>2, <2>1
    <3>. QED BY <1>1, <1>5, <3>1
  <2>. QED BY <1>3, <1>5, <2>2, LeastNone
<1>. QED BY <1>4, <1>5

(* strrchr() finds the last place of a character.                          *)
LEMMA StrrchrIs ==
  ASSUME NEW m, Terminated(m), NEW a \in Addr, NEW c \in Chars, NEW q, q = Strrchr(m, a, c)
  PROVE  IF \E p \in a .. a + Strlen(m, a) : m[p] = c
         THEN m[q] = c /\ \A p \in a .. a + Strlen(m, a) : m[p] = c => p <= q
         ELSE q = Null
<1>. DEFINE e == a + Strlen(m, a)
            b == DownTo(m, a, e, {c})
<1>1. a \in Int /\ e \in Int /\ e >= a /\ m \in Mem /\ {c} \in SUBSET Chars
  BY StrlenIs, Bytes0 DEF Terminated
<1>. HIDE DEF e
<1>2. /\ b \in a - 1 .. e /\ \A x \in b + 1 .. e : m[x] \notin {c}
      /\ b # a - 1 => m[b] \in {c}
  <2>1. e >= a - 1
    BY <1>1
  <2>. QED BY <1>1, <2>1, BackIs
<1>3. q = IF b >= a THEN b ELSE Null
  BY DEF Strrchr, e
<1>. HIDE DEF b
<1>4. CASE b >= a
  <2>1. m[b] = c /\ b \in a .. e
    BY <1>1, <1>2, <1>4
  <2>2. \A p \in a .. e : m[p] = c => p <= b
    BY <1>1, <1>2
  <2>. QED BY <1>3, <1>4, <2>1, <2>2 DEF e
<1>5. CASE ~(b >= a)
  <2>1. b = a - 1
    BY <1>1, <1>2, <1>5
  <2>2. ~ \E p \in a .. e : m[p] = c
    BY <1>1, <1>2, <2>1
  <2>. QED BY <1>3, <1>5, <2>2 DEF e
<1>. QED BY <1>4, <1>5

(* strnlen() is the length of the text, n at most.                         *)
LEMMA StrnlenIs ==
  ASSUME NEW m, Terminated(m), NEW a \in Addr, NEW n \in Nat, a + n <= MemSize
  PROVE  Strnlen(m, a, n) = Len(FirstOf(StrAt(m, a), n))
<1>. DEFINE q == Within(m, a, n, {0})
            l == Strlen(m, a)
<1>1. /\ a \in Nat /\ l \in Nat /\ m[a + l] = 0 /\ m \in Mem
      /\ \A x \in a .. a + l - 1 : m[x] # 0
  BY StrlenIs, Bytes0 DEF NonNul, Terminated
<1>2. /\ q \in a .. a + n /\ \A x \in a .. q - 1 : m[x] \notin {0}
      /\ q # a + n => m[q] \in {0}
  BY <1>1, SeekIs, Bytes0
<1>3. Len(FirstOf(StrAt(m, a), n)) = IF n < l THEN n ELSE l
  BY StrIs, FirstIs
<1>4. Strnlen(m, a, n) = q - a
  BY DEF Strnlen
<1>. HIDE DEF q, l
<1>5. ~(q > a + l)
  BY <1>1, <1>2
<1>6. ~(q < a + l /\ q < a + n)
  BY <1>1, <1>2
<1>. QED BY <1>1, <1>2, <1>3, <1>4, <1>5, <1>6

(* The first place of a byte, and that or the end.                         *)
Places(m, a, n, c) == {p \in a .. a + n - 1 : m[p] = c}

(* memchr() and memscan() find the first place of a character in an area.  *)
LEMMA MemchrIs ==
  ASSUME NEW m \in Mem, NEW a \in Nat, NEW c \in Chars, NEW n \in Nat
  PROVE  /\ Memchr(m, a, c, n) = Least(Places(m, a, n, c))
         /\ Memscan(m, a, c, n) = Least(Places(m, a, n, c) \cup {a + n})
<1>. DEFINE q == Within(m, a, n, {c})
            S == Places(m, a, n, c)
<1>0. \A p : p \in S <=> p \in a .. a + n - 1 /\ m[p] = c
  BY DEF Places
<1>1. /\ q \in a .. a + n /\ \A x \in a .. q - 1 : m[x] \notin {c}
      /\ q # a + n => m[q] \in {c}
  BY SeekIs
<1>2. Memscan(m, a, c, n) = q /\ Memchr(m, a, c, n) = IF q = a + n THEN Null ELSE q
  BY DEF Memscan, Memchr
<1>. HIDE DEF q, S
<1>3. Least(S \cup {a + n}) = q
  <2>1. /\ q \in S \cup {a + n} /\ S \cup {a + n} \in SUBSET Int
        /\ \A x \in S \cup {a + n} : a <= x
    BY <1>0, <1>1
  <2>2. \A x \in S \cup {a + n} : q <= x
    BY <1>0, <1>1, <2>1
  <2>. QED BY <2>1, <2>2, LeastIs
<1>4. CASE q = a + n
  <2>1. S = {}
    BY <1>0, <1>1, <1>4
  <2>. QED BY <1>2, <1>3, <1>4, <2>1, LeastNone DEF S
<1>5. CASE q # a + n
  <2>1. q \in S /\ S \in SUBSET Int /\ \A x \in S : a <= x
    BY <1>0, <1>1, <1>5
  <2>2. \A x \in S : q <= x
    BY <1>0, <1>1, <2>1
  <2>3. Least(S) = q
    BY <2>1, <2>2, LeastIs
  <2>. QED BY <1>2, <1>3, <1>5, <2>3 DEF S
<1>. QED BY <1>4, <1>5 DEF S

(* The first other byte is the least place of one.                         *)
LEMMA OtherLeast ==
  ASSUME NEW m, NEW a \in Nat, NEW c, NEW n \in Nat, NEW q, OtherAt(m, a, c, n, q)
  PROVE  q = Least({p \in a .. a + n - 1 : m[p] # c})
<1>. DEFINE S == {p \in a .. a + n - 1 : m[p] # c}
<1>1. CASE q = Null /\ \A x \in a .. a + n - 1 : m[x] = c
  <2>1. S = {}
    BY <1>1
  <2>. QED BY <1>1, <2>1, LeastNone
<1>2. CASE q \in a .. a + n - 1 /\ m[q] # c /\ \A x \in a .. q - 1 : m[x] = c
  <2>1. q \in S /\ S \in SUBSET Int /\ \A x \in S : a <= x
    BY <1>2
  <2>2. \A x \in S : q <= x
    BY <1>2, <2>1
  <2>3. Least(S) = q
    <3>. HIDE DEF S
    <3>. QED BY <2>1, <2>2, LeastIs
  <2>. QED BY <2>3
<1>. QED BY <1>1, <1>2 DEF OtherAt

(* memchr_inv() finds the first other byte, for areas of any length and    *)
(* alignment.                                                              *)
LEMMA MemchrInvIs ==
  ASSUME NEW m \in Mem, NEW a \in Nat, NEW c \in Chars, NEW n \in Nat, a + n <= MemSize
  PROVE  MemchrInv(m, a, c, n) = Least({p \in a .. a + n - 1 : m[p] # c})
<1>. DEFINE k == (InvChunk - (a % InvChunk)) % InvChunk
            early == CheckBytes(m, a, c, k)
            late == CheckChunks[[m |-> m, p |-> a + k, c |-> c, n |-> n - k]]
<1>1. MemchrInv(m, a, c, n) = IF n <= InvShort THEN CheckBytes(m, a, c, n)
                              ELSE IF early # Null THEN early ELSE late
  BY DEF MemchrInv
<1>2. CASE n <= InvShort
  <2>1. OtherAt(m, a, c, n, CheckBytes(m, a, c, n))
    BY CheckBytesIs
  <2>. QED BY <1>1, <1>2, <2>1, OtherLeast
<1>3. CASE ~(n <= InvShort)
  <2>1. k \in Nat /\ k < InvChunk
    <3>1. a % InvChunk \in Int /\ InvChunk \in Nat \ {0}
      BY StringMemory
    <3>2. InvChunk - (a % InvChunk) \in Int
      BY <3>1
    <3>. QED BY <3>1, <3>2
  <2>. HIDE DEF k
  <2>2. k <= n /\ a + k <= MemSize /\ n - k \in Nat /\ a + k \in Nat /\ (a + k) + (n - k) <= MemSize
    BY <1>3, <2>1, StringMemory
  <2>3. OtherAt(m, a, c, k, early)
    BY <2>1, <2>2, CheckBytesIs
  <2>4. OtherAt(m, a + k, c, n - k, late)
    BY <2>2, ChunksAre
  <2>. HIDE DEF early, late
  <2>5. CASE early # Null
    <3>1. Behind(m, a, c, n, a, k, early)
      <4>1. \A x \in a .. a - 1 : m[x] = c
        OBVIOUS
      <4>. QED BY <2>1, <2>2, <2>5, <4>1 DEF Behind
    <3>2. a \in Int /\ k \in Nat
      BY <2>1
    <3>3. OtherAt(m, a, c, n, early)
      BY <2>3, <3>1, <3>2, OtherBehind
    <3>. QED BY <1>1, <1>3, <2>5, <3>3, OtherLeast
  <2>6. CASE early = Null
    <3>1. \A x \in a .. a + k - 1 : m[x] = c
      BY <2>1, <2>3, <2>6 DEF OtherAt, Null
    <3>2. Behind(m, a, c, n, a + k, n - k, late)
      <4>. DEFINE b == a + k
                  r == n - k
      <4>1. b >= a /\ b + r <= a + n /\ b + r = a + n
        BY <2>1, <2>2
      <4>2. \A x \in a .. b - 1 : m[x] = c
        BY <2>1, <3>1
      <4>. HIDE DEF b, r
      <4>3. Behind(m, a, c, n, b, r, late)
        BY <4>1, <4>2 DEF Behind
      <4>. QED BY <4>3 DEF b, r
    <3>3. a \in Int /\ a + k \in Int /\ n - k \in Nat
      BY <2>1, <2>2
    <3>4. OtherAt(m, a, c, n, late)
      BY <2>4, <3>2, <3>3, OtherBehind
    <3>. QED BY <1>1, <1>3, <2>6, <3>4, OtherLeast
  <2>. QED BY <2>5, <2>6
<1>. QED BY <1>2, <1>3

(* The characters of a text.                                               *)
Letters(t) == {c \in Chars : \E k \in 1 .. Len(t) : t[k] = c}

(* The inner loops of strspn() and strpbrk() find whether a character is   *)
(* one of a text.                                                          *)
LEMMA AmongIs ==
  ASSUME NEW m, Terminated(m), NEW a \in Addr, NEW c \in Chars
  PROVE  Among(m, c, a) <=> c \in Letters(StrAt(m, a))
<1>. DEFINE q == Until(m, a, {c, 0})
            l == Strlen(m, a)
            t == StrAt(m, a)
<1>1. /\ q \in a .. a + l /\ m[q] \in {c, 0} /\ \A x \in a .. q - 1 : m[x] \notin {c, 0}
  BY UntilWithin, Bytes0
<1>2. /\ a \in Nat /\ l \in Nat /\ m[a + l] = 0 /\ \A x \in a .. a + l - 1 : m[x] # 0
  BY StrlenIs, Bytes0 DEF NonNul
<1>3. Len(t) = l /\ \A k \in 1 .. l : t[k] = m[a + k - 1] /\ t[k] # 0
  BY StrIs
<1>4. Among(m, c, a) <=> m[q] # 0
  BY DEF Among
<1>. HIDE DEF q, l, t
<1>5. ASSUME m[q] # 0 PROVE c \in Letters(t)
  <2>1. q # a + l /\ m[q] = c
    BY <1>1, <1>2, <1>5
  <2>2. q - a + 1 \in 1 .. l /\ a + (q - a + 1) - 1 = q
    BY <1>1, <1>2, <2>1
  <2>3. t[q - a + 1] = c
    BY <1>3, <2>1, <2>2
  <2>. QED BY <1>3, <2>2, <2>3 DEF Letters
<1>6. ASSUME c \in Letters(t) PROVE m[q] # 0
  <2>1. PICK k \in 1 .. l : t[k] = c
    BY <1>3, <1>6 DEF Letters
  <2>2. m[a + k - 1] = c /\ a + k - 1 \in a .. a + l - 1
    BY <1>2, <1>3, <2>1
  <2>3. ~(a + k - 1 \in a .. q - 1)
    BY <1>1, <2>2
  <2>4. q \in a .. a + l - 1
    BY <1>1, <1>2, <2>2, <2>3
  <2>. QED BY <1>2, <2>4
<1>. QED BY <1>4, <1>5, <1>6 DEF t

(* strspn() is the length of the part in front that has only characters    *)
(* of the other text.                                                      *)
LEMMA StrspnIs ==
  ASSUME NEW m, Terminated(m), NEW a \in Addr, NEW s \in Addr
  PROVE  Strspn(m, a, s)
           = Least({k \in 0 .. Len(StrAt(m, a)) :
                      k = Len(StrAt(m, a)) \/ StrAt(m, a)[k + 1] \notin Letters(StrAt(m, s))})
<1>. DEFINE C == {c \in Chars : c = 0 \/ ~Among(m, c, s)}
            B == Letters(StrAt(m, s))
            q == Until(m, a, C)
            l == Strlen(m, a)
            t == StrAt(m, a)
            S == {k \in 0 .. Len(t) : k = Len(t) \/ t[k + 1] \notin B}
<1>1. Strspn(m, a, s) = q - a
  BY DEF Strspn
<1>2. \A c \in Chars : c \in C <=> (c = 0 \/ c \notin B)
  BY AmongIs
<1>3. C \in SUBSET Chars /\ 0 \in C
  BY Bytes0
<1>. HIDE DEF C, B
<1>4. q \in a .. a + l /\ m[q] \in C /\ \A x \in a .. q - 1 : m[x] \notin C
  BY <1>3, UntilWithin
<1>5. /\ a \in Nat /\ l \in Nat /\ m[a + l] = 0
      /\ \A x \in a .. a + l - 1 : m[x] # 0 /\ m[x] \in Chars
  BY StrlenIs, Bytes0 DEF NonNul
<1>6. Len(t) = l /\ \A k \in 1 .. l : t[k] = m[a + k - 1] /\ t[k] # 0
  BY StrIs
<1>. HIDE DEF q, l, t
<1>7. q - a \in S
  <2>1. CASE q = a + l
    BY <1>5, <1>6, <2>1
  <2>2. CASE q # a + l
    <3>1. /\ q - a \in 0 .. l /\ q - a + 1 \in 1 .. l /\ a + (q - a + 1) - 1 = q
          /\ q \in a .. a + l - 1
      BY <1>4, <1>5, <2>2
    <3>2. m[q] \notin B
      BY <1>2, <1>4, <1>5, <3>1
    <3>3. t[q - a + 1] \notin B
      BY <1>6, <3>1, <3>2
    <3>. QED BY <1>6, <3>1, <3>3
  <2>. QED BY <2>1, <2>2
<1>8. S \in SUBSET Int
  BY <1>5, <1>6
<1>9. ASSUME NEW k \in S PROVE q - a <= k
  <2>1. k \in 0 .. l /\ (k = l \/ t[k + 1] \notin B)
    BY <1>6
  <2>2. CASE k = l
    BY <1>4, <1>5, <2>2
  <2>3. CASE k < l
    <3>1. k + 1 \in 1 .. l /\ a + (k + 1) - 1 = a + k /\ a + k \in a .. a + l - 1
      BY <1>5, <2>1, <2>3
    <3>2. m[a + k] \notin B /\ m[a + k] \in Chars
      BY <1>5, <1>6, <2>1, <2>3, <3>1
    <3>3. ~(a + k \in a .. q - 1)
      BY <1>2, <1>4, <3>2
    <3>. QED BY <1>4, <1>5, <3>1, <3>3
  <2>. QED BY <1>5, <2>1, <2>2, <2>3
<1>10. Least(S) = q - a
  <2>. HIDE DEF S
  <2>. QED BY <1>7, <1>8, <1>9, LeastIs
<1>. QED BY <1>1, <1>10 DEF t, B

(* strpbrk() finds the first character that is one of the other text.      *)
LEMMA StrpbrkIs ==
  ASSUME NEW m, Terminated(m), NEW a \in Addr, NEW s \in Addr
  PROVE  Strpbrk(m, a, s) = Least({p \in a .. a + Strlen(m, a) : m[p] \in Letters(StrAt(m, s))})
<1>. DEFINE C == {c \in Chars : c = 0 \/ Among(m, c, s)}
            B == Letters(StrAt(m, s))
            q == Until(m, a, C)
            l == Strlen(m, a)
            S == {p \in a .. a + l : m[p] \in B}
<1>1. Strpbrk(m, a, s) = IF m[q] = 0 THEN Null ELSE q
  BY DEF Strpbrk
<1>2. \A c \in Chars : c \in C <=> (c = 0 \/ c \in B)
  BY AmongIs
<1>3. C \in SUBSET Chars /\ 0 \in C
  BY Bytes0
<1>4. 0 \notin B /\ B \in SUBSET Chars
  BY StrIs DEF Letters
<1>. HIDE DEF C, B
<1>5. q \in a .. a + l /\ m[q] \in C /\ \A x \in a .. q - 1 : m[x] \notin C
  BY <1>3, UntilWithin
<1>6. /\ a \in Nat /\ l \in Nat /\ m[a + l] = 0
      /\ \A x \in a .. a + l - 1 : m[x] # 0 /\ m[x] \in Chars
  BY StrlenIs, Bytes0 DEF NonNul
<1>. HIDE DEF q, l
<1>7. ASSUME NEW p \in S PROVE p \in Int /\ q <= p
  <2>1. p \in a .. a + l /\ m[p] \in C
    BY <1>2, <1>4
  <2>. QED BY <1>5, <1>6, <2>1
<1>8. CASE m[q] # 0
  <2>1. q \in S
    BY <1>2, <1>3, <1>5, <1>8
  <2>2. S \in SUBSET Int
    BY <1>7
  <2>3. Least(S) = q
    <3>. HIDE DEF S
    <3>. QED BY <1>7, <2>1, <2>2, LeastIs
  <2>. QED BY <1>1, <1>8, <2>3 DEF B, l
<1>9. CASE m[q] = 0
  <2>1. q = a + l
    BY <1>5, <1>6, <1>9
  <2>2. S = {}
    <3>1. ASSUME NEW p \in S PROVE FALSE
      <4>1. p = a + l
        BY <1>6, <1>7, <2>1
      <4>. QED BY <1>4, <1>6, <4>1
    <3>. QED BY <3>1
  <2>. QED BY <1>1, <1>9, <2>2, LeastNone DEF B, l
<1>. QED BY <1>8, <1>9

(* A comparison with a text.                                               *)
LEMMA MemcmpText ==
  ASSUME NEW m, Terminated(m), NEW x \in Nat, NEW t \in Addr, x + Strlen(m, t) <= MemSize
  PROVE  Memcmp(m, x, t, Strlen(m, t)) = 0 <=> Bytes(m, x, Strlen(m, t)) = StrAt(m, t)
<1>. DEFINE l == Strlen(m, t)
<1>1. /\ l \in Nat /\ t \in Nat /\ m \in Mem /\ MemSize \in Nat /\ t + l \in Addr
  BY StrlenIs, Bytes0 DEF Terminated
<1>2. t + l <= MemSize /\ x + l <= MemSize
  BY <1>1 DEF Addr
<1>3. StrAt(m, t) \in Seq(Chars) /\ Len(StrAt(m, t)) = l /\ \A k \in 1 .. l : StrAt(m, t)[k] = m[t + k - 1]
  BY StrIs
<1>. HIDE DEF l
<1>4. /\ Bytes(m, x, l) \in Seq(Chars) /\ Len(Bytes(m, x, l)) = l
      /\ \A k \in 1 .. l : Bytes(m, x, l)[k] = m[x + k - 1]
  <2>1. \A y \in x .. x + l - 1 : m[y] \in Chars
    BY <1>1, <1>2, Bytes0 DEF Addr
  <2>2. x \in Int
    OBVIOUS
  <2>. QED BY <1>1, <2>1, <2>2, BytesAre
<1>5. ASSUME \A k \in 0 .. l - 1 : m[x + k] = m[t + k] PROVE Bytes(m, x, l) = StrAt(m, t)
  <2>1. ASSUME NEW k \in 1 .. l PROVE Bytes(m, x, l)[k] = StrAt(m, t)[k]
    <3>1. k - 1 \in 0 .. l - 1 /\ x + (k - 1) = x + k - 1 /\ t + (k - 1) = t + k - 1
      BY <1>1
    <3>. QED BY <1>3, <1>4, <1>5, <3>1
  <2>. QED BY <1>3, <1>4, <2>1, SeqEqual
<1>6. ASSUME Bytes(m, x, l) = StrAt(m, t), NEW i \in 0 .. l - 1 PROVE m[x + i] = m[t + i]
  <2>1. i + 1 \in 1 .. l /\ x + (i + 1) - 1 = x + i /\ t + (i + 1) - 1 = t + i
    BY <1>1
  <2>2. Bytes(m, x, l)[i + 1] = m[x + i] /\ StrAt(m, t)[i + 1] = m[t + i]
    BY <1>3, <1>4, <2>1
  <2>. QED BY <1>6, <2>2
<1>7. \/ Memcmp(m, x, t, l) = 0 /\ \A k \in 0 .. l - 1 : m[x + k] = m[t + k]
      \/ \E i \in 0 .. l - 1 : /\ Memcmp(m, x, t, l) = m[x + i] - m[t + i]
                               /\ m[x + i] # m[t + i] /\ m[x + i] \in Nat /\ m[t + i] \in Nat
                               /\ \A k \in 0 .. i - 1 : m[x + k] = m[t + k]
  <2>1. Compared(m, x, t, l)
    BY <1>1, <1>2, MemcmpIs
  <2>. QED BY <2>1 DEF Compared
<1>8. CASE Memcmp(m, x, t, l) = 0 /\ \A k \in 0 .. l - 1 : m[x + k] = m[t + k]
  BY <1>5, <1>8 DEF l
<1>9. ASSUME NEW i \in 0 .. l - 1, Memcmp(m, x, t, l) = m[x + i] - m[t + i],
             m[x + i] # m[t + i], m[x + i] \in Nat, m[t + i] \in Nat
      PROVE  Memcmp(m, x, t, l) = 0 <=> Bytes(m, x, l) = StrAt(m, t)
  <2>1. Memcmp(m, x, t, l) # 0
    BY <1>9
  <2>2. Bytes(m, x, l) # StrAt(m, t)
    BY <1>6, <1>9
  <2>. QED BY <2>1, <2>2
<1>. QED BY <1>7, <1>8, <1>9 DEF l

(* strstr() finds the first place at which the other text stands.          *)
LEMMA StrstrIs ==
  ASSUME NEW m, Terminated(m), NEW s \in Addr, NEW t \in Addr
  PROVE  Strstr(m, s, t)
           = Least({p \in s .. s + Strlen(m, s) :
                      /\ p + Len(StrAt(m, t)) <= s + Strlen(m, s)
                      /\ Bytes(m, p, Len(StrAt(m, t))) = StrAt(m, t)})
<1>. DEFINE l1 == Strlen(m, s)
            l2 == Strlen(m, t)
            S == {p \in s .. s + l1 : p + Len(StrAt(m, t)) <= s + l1
                                      /\ Bytes(m, p, Len(StrAt(m, t))) = StrAt(m, t)}
            q == StrstrFrom[[m |-> m, s |-> s, t |-> t, l1 |-> l1, l2 |-> l2]]
<1>1. /\ l1 \in Nat /\ l2 \in Nat /\ s \in Nat /\ t \in Nat /\ m \in Mem /\ s + l1 < MemSize
      /\ MemSize \in Nat /\ StrAt(m, t) \in Seq(Chars) /\ Len(StrAt(m, t)) = l2
  <2>1. /\ l1 \in Nat /\ l2 \in Nat /\ s \in Nat /\ t \in Nat /\ m \in Mem /\ s + l1 \in Addr
        /\ MemSize \in Nat
    BY StrlenIs, Bytes0 DEF Terminated
  <2>2. s + l1 < MemSize
    BY <2>1 DEF Addr
  <2>. QED BY <2>1, <2>2, StrIs
<1>2. Strstr(m, s, t) = IF l2 = 0 THEN s ELSE q
  BY DEF Strstr
<1>3. \A x \in Nat : x + l2 <= MemSize => (Memcmp(m, x, t, l2) = 0 <=> Bytes(m, x, l2) = StrAt(m, t))
  BY MemcmpText
<1>4. S \in SUBSET Int
  BY <1>1
<1>. HIDE DEF l1, l2
<1>5. CASE l2 = 0
  <2>1. Bytes(m, s, 0) = StrAt(m, t)
    <3>1. \A y \in s .. s + 0 - 1 : m[y] \in Chars
      BY <1>1
    <3>2. Bytes(m, s, 0) \in Seq(Chars) /\ Len(Bytes(m, s, 0)) = 0
      BY <1>1, <3>1, BytesAre
    <3>. QED BY <1>1, <1>5, <3>2, SeqEqual
  <2>2. s \in S
    BY <1>1, <1>5, <2>1
  <2>3. \A x \in S : s <= x
    BY <1>1
  <2>4. Least(S) = s
    <3>. HIDE DEF S
    <3>. QED BY <1>4, <2>2, <2>3, LeastIs
  <2>. QED BY <1>2, <1>5, <2>4 DEF l1
<1>6. CASE l2 # 0
  <2>1. \/ q = Null /\ \A x \in s .. s + l1 - l2 : Memcmp(m, x, t, l2) # 0
        \/ /\ q \in s .. s + l1 - l2 /\ Memcmp(m, q, t, l2) = 0
           /\ \A x \in s .. q - 1 : Memcmp(m, x, t, l2) # 0
    BY <1>1, <1>6, StrstrFromIs
  <2>2. \A x : x \in S <=> (x \in s .. s + l1 - l2 /\ Memcmp(m, x, t, l2) = 0)
    <3>1. ASSUME NEW x \in s .. s + l1, x + l2 <= s + l1
          PROVE  /\ x \in s .. s + l1 - l2
                 /\ Memcmp(m, x, t, l2) = 0 <=> Bytes(m, x, l2) = StrAt(m, t)
      <4>1. x \in Nat /\ x + l2 <= MemSize /\ x \in s .. s + l1 - l2
        BY <1>1, <3>1
      <4>. QED BY <1>3, <4>1
    <3>2. ASSUME NEW x \in s .. s + l1 - l2 PROVE x \in s .. s + l1 /\ x + l2 <= s + l1
      BY <1>1
    <3>. QED BY <1>1, <3>1, <3>2
  <2>. HIDE DEF S, q
  <2>3. CASE q = Null /\ \A x \in s .. s + l1 - l2 : Memcmp(m, x, t, l2) # 0
    <3>1. S = {}
      BY <2>2, <2>3
    <3>. QED BY <1>2, <1>6, <2>3, <3>1, LeastNone DEF S, l1
  <2>4. CASE /\ q \in s .. s + l1 - l2 /\ Memcmp(m, q, t, l2) = 0
             /\ \A x \in s .. q - 1 : Memcmp(m, x, t, l2) # 0
    <3>1. q \in S
      BY <2>2, <2>4
    <3>2. \A x \in S : q <= x
      <4>1. ASSUME NEW x \in S PROVE q <= x
        <5>1. x \in s .. s + l1 - l2 /\ Memcmp(m, x, t, l2) = 0
          BY <2>2
        <5>2. ~(x \in s .. q - 1)
          BY <2>4, <5>1
        <5>. QED BY <1>1, <2>4, <5>1, <5>2
      <4>. QED BY <4>1
    <3>3. Least(S) = q
      BY <1>4, <3>1, <3>2, LeastIs
    <3>. QED BY <1>2, <1>6, <3>3 DEF S, l1
  <2>. QED BY <2>1, <2>3, <2>4
<1>. QED BY <1>5, <1>6

-----------------------------------------------------------------------------
(* Comparing strings. *)

(* A folding that keeps NUL, and a text under it.                          *)
Zeroed(fold) == fold \in [Chars -> Chars] /\ \A c \in Chars : fold[c] = 0 <=> c = 0
Folded(s, fold) == [k \in 1 .. Len(s) |-> fold[s[k]]]

(* The comparisons' foldings keep NUL; under the first a text is itself,   *)
(* under the other it is in small letters.                                 *)
LEMMA Foldings ==
  /\ Zeroed(Itself) /\ Zeroed(Lower)
  /\ \A s \in Seq(Chars) : Folded(s, Itself) = s /\ Folded(s, Lower) = Lowered(s)
<1>1. Zeroed(Itself)
  BY DEF Zeroed, Itself
<1>2. Zeroed(Lower)
  BY StringChars DEF Zeroed
<1>3. ASSUME NEW s \in Seq(Chars) PROVE Folded(s, Itself) = s
  <2>1. s = [k \in 1 .. Len(s) |-> s[k]]
    OBVIOUS
  <2>2. \A k \in 1 .. Len(s) : Itself[s[k]] = s[k]
    BY DEF Itself
  <2>. QED BY <2>1, <2>2 DEF Folded
<1>. QED BY <1>1, <1>2, <1>3 DEF Folded, Lowered

(* What the first n characters of a string are.                            *)
LEMMA FirstAt ==
  ASSUME NEW m, Terminated(m), NEW a \in Addr, NEW n \in Nat
  PROVE  /\ FirstOf(StrAt(m, a), n) \in Seq(Chars)
         /\ Len(FirstOf(StrAt(m, a), n)) = Least2(Strlen(m, a), n)
         /\ \A j \in 0 .. Least2(Strlen(m, a), n) - 1 : FirstOf(StrAt(m, a), n)[j + 1] = m[a + j]
<1>. DEFINE t == StrAt(m, a)
            l == Strlen(m, a)
<1>1. /\ t \in Seq(Chars) /\ Len(t) = l /\ l \in Nat /\ a \in Nat
      /\ \A k \in 1 .. l : t[k] = m[a + k - 1]
  BY StrIs, StrlenIs, Bytes0
<1>. HIDE DEF t, l
<1>2. /\ FirstOf(t, n) \in Seq(Chars) /\ Len(FirstOf(t, n)) = Least2(l, n)
      /\ \A k \in 1 .. Len(FirstOf(t, n)) : FirstOf(t, n)[k] = t[k]
  BY <1>1, FirstIs DEF Least2
<1>3. ASSUME NEW j \in 0 .. Least2(l, n) - 1 PROVE FirstOf(t, n)[j + 1] = m[a + j]
  <2>1. j + 1 \in 1 .. Least2(l, n) /\ j + 1 \in 1 .. l /\ a + (j + 1) - 1 = a + j
    BY <1>1 DEF Least2
  <2>. QED BY <1>1, <1>2, <2>1
<1>. QED BY <1>2, <1>3 DEF t, l

(* Two texts are the same under a folding when their lengths and all their *)
(* folded characters are.                                                  *)
LEMMA FoldedSame ==
  ASSUME NEW s \in Seq(Chars), NEW t \in Seq(Chars), NEW fold
  PROVE  Folded(s, fold) = Folded(t, fold)
           <=> (Len(s) = Len(t) /\ \A j \in 0 .. Len(s) - 1 : fold[s[j + 1]] = fold[t[j + 1]])
<1>1. Len(s) \in Nat /\ Len(t) \in Nat
  OBVIOUS
<1>2. ASSUME Folded(s, fold) = Folded(t, fold)
      PROVE  Len(s) = Len(t) /\ \A j \in 0 .. Len(s) - 1 : fold[s[j + 1]] = fold[t[j + 1]]
  <2>1. DOMAIN Folded(s, fold) = 1 .. Len(s) /\ DOMAIN Folded(t, fold) = 1 .. Len(t)
    BY DEF Folded
  <2>2. 1 .. Len(s) = 1 .. Len(t)
    BY <1>2, <2>1
  <2>3. Len(s) = Len(t)
    BY <1>1, <2>2
  <2>4. ASSUME NEW j \in 0 .. Len(s) - 1 PROVE fold[s[j + 1]] = fold[t[j + 1]]
    <3>1. j + 1 \in 1 .. Len(s)
      BY <1>1
    <3>. QED BY <1>2, <2>3, <3>1 DEF Folded
  <2>. QED BY <2>3, <2>4
<1>3. ASSUME Len(s) = Len(t), \A j \in 0 .. Len(s) - 1 : fold[s[j + 1]] = fold[t[j + 1]]
      PROVE  Folded(s, fold) = Folded(t, fold)
  <2>1. ASSUME NEW k \in 1 .. Len(s) PROVE fold[s[k]] = fold[t[k]]
    <3>1. k - 1 \in 0 .. Len(s) - 1 /\ (k - 1) + 1 = k
      BY <1>1
    <3>. QED BY <1>3, <3>1
  <2>. QED BY <1>3, <2>1 DEF Folded
<1>. QED BY <1>2, <1>3

(* Where two strings part decides whether their first n characters are the *)
(* same.                                                                   *)
Told(m, a, b, n, fold, i) ==
  Folded(FirstOf(StrAt(m, a), n), fold) = Folded(FirstOf(StrAt(m, b), n), fold)
    <=> (i = n \/ fold[m[a + i]] = fold[m[b + i]])

(* Where the comparison of two texts ends tells whether their first n      *)
(* characters are the same.                                                *)
LEMMA PartingTells ==
  ASSUME NEW m, Terminated(m), NEW a \in Addr, NEW b \in Addr, NEW n \in Nat, NEW fold,
         Zeroed(fold), NEW i \in 0 .. n, PartAt(m, a, b, n, fold, {0}, i)
  PROVE  /\ i < n => a + i \in Addr /\ b + i \in Addr
         /\ Told(m, a, b, n, fold, i)
<1>. DEFINE la == Strlen(m, a)
            lb == Strlen(m, b)
            s == FirstOf(StrAt(m, a), n)
            t == FirstOf(StrAt(m, b), n)
<1>1. /\ la \in Nat /\ m[a + la] = 0 /\ a \in Nat /\ a + la \in Addr
      /\ \A x \in a .. a + la - 1 : x \in Addr /\ m[x] \in NonNul
  BY StrlenIs, Bytes0
<1>2. /\ lb \in Nat /\ m[b + lb] = 0 /\ b \in Nat /\ b + lb \in Addr
      /\ \A x \in b .. b + lb - 1 : x \in Addr /\ m[x] \in NonNul
  BY StrlenIs, Bytes0
<1>3. /\ s \in Seq(Chars) /\ Len(s) = Least2(la, n)
      /\ \A j \in 0 .. Least2(la, n) - 1 : s[j + 1] = m[a + j]
  BY FirstAt
<1>4. /\ t \in Seq(Chars) /\ Len(t) = Least2(lb, n)
      /\ \A j \in 0 .. Least2(lb, n) - 1 : t[j + 1] = m[b + j]
  BY FirstAt
<1>. HIDE DEF la, lb, s, t
<1>5. /\ \A k \in 0 .. i - 1 : fold[m[a + k]] = fold[m[b + k]] /\ m[a + k] # 0
      /\ i < n => fold[m[a + i]] # fold[m[b + i]] \/ m[a + i] = 0
  BY DEF PartAt
<1>6. \A c \in Chars : fold[c] = 0 <=> c = 0
  BY DEF Zeroed
<1>7. \A k \in 0 .. la : m[a + k] \in Chars /\ a + k \in Addr /\ (m[a + k] = 0 <=> k = la)
  <2>1. ASSUME NEW k \in 0 .. la - 1 PROVE m[a + k] \in Chars /\ a + k \in Addr /\ m[a + k] # 0
    <3>1. a + k \in a .. a + la - 1
      BY <1>1
    <3>. QED BY <1>1, <3>1, Bytes0 DEF NonNul
  <2>2. m[a + la] \in Chars
    BY <1>1, Bytes0
  <2>3. \A k \in 0 .. la : k = la \/ k \in 0 .. la - 1
    BY <1>1
  <2>. QED BY <1>1, <2>1, <2>2, <2>3
<1>8. \A k \in 0 .. lb : m[b + k] \in Chars /\ b + k \in Addr /\ (m[b + k] = 0 <=> k = lb)
  <2>1. ASSUME NEW k \in 0 .. lb - 1 PROVE m[b + k] \in Chars /\ b + k \in Addr /\ m[b + k] # 0
    <3>1. b + k \in b .. b + lb - 1
      BY <1>2
    <3>. QED BY <1>2, <3>1, Bytes0 DEF NonNul
  <2>2. m[b + lb] \in Chars
    BY <1>2, Bytes0
  <2>3. \A k \in 0 .. lb : k = lb \/ k \in 0 .. lb - 1
    BY <1>2
  <2>. QED BY <1>2, <2>1, <2>2, <2>3
<1>9. i <= la
  <2>1. SUFFICES ASSUME la < i PROVE FALSE
    BY <1>1
  <2>2. la \in 0 .. i - 1
    BY <1>1, <2>1
  <2>. QED BY <1>1, <1>5, <2>2
<1>10. i <= lb
  <2>1. SUFFICES ASSUME lb < i PROVE FALSE
    BY <1>2
  <2>2. lb \in 0 .. i - 1 /\ lb \in 0 .. la
    BY <1>2, <1>9, <1>1, <2>1
  <2>3. fold[m[a + lb]] = fold[m[b + lb]] /\ m[a + lb] # 0 /\ m[a + lb] \in Chars
    BY <1>5, <1>7, <2>2
  <2>4. lb \in 0 .. lb
    BY <1>2
  <2>5. m[b + lb] = 0 /\ m[b + lb] \in Chars
    BY <1>8, <2>4
  <2>6. fold[m[b + lb]] = 0
    BY <1>6, <2>5
  <2>. QED BY <1>6, <2>3, <2>6
<1>11. i \in 0 .. la /\ i \in 0 .. lb
  BY <1>1, <1>2, <1>9, <1>10
<1>12. /\ m[a + i] \in Chars /\ a + i \in Addr /\ (m[a + i] = 0 <=> i = la)
       /\ m[b + i] \in Chars /\ b + i \in Addr /\ (m[b + i] = 0 <=> i = lb)
  BY <1>7, <1>8, <1>11
<1>13. Folded(s, fold) = Folded(t, fold)
         <=> (Len(s) = Len(t) /\ \A j \in 0 .. Len(s) - 1 : fold[s[j + 1]] = fold[t[j + 1]])
  BY <1>3, <1>4, FoldedSame, ZenonT(60)
<1>14. CASE i = n
  <2>1. Least2(la, n) = n /\ Least2(lb, n) = n
    BY <1>1, <1>2, <1>9, <1>10, <1>14 DEF Least2
  <2>2. \A j \in 0 .. n - 1 : fold[s[j + 1]] = fold[t[j + 1]]
    BY <1>3, <1>4, <1>5, <1>14, <2>1, ZenonT(60)
  <2>. QED BY <1>3, <1>4, <1>12, <1>13, <1>14, <2>1, <2>2 DEF Told, s, t
<1>15. CASE i # n /\ fold[m[a + i]] = fold[m[b + i]]
  <2>1. m[a + i] = 0 /\ m[b + i] = 0
    BY <1>5, <1>6, <1>12, <1>15
  <2>2. la = i /\ lb = i
    BY <1>12, <2>1
  <2>3. Least2(la, n) = i /\ Least2(lb, n) = i
    BY <1>15, <2>2 DEF Least2
  <2>4. \A j \in 0 .. i - 1 : fold[s[j + 1]] = fold[t[j + 1]]
    BY <1>3, <1>4, <1>5, <2>3, ZenonT(60)
  <2>. QED BY <1>3, <1>4, <1>12, <1>13, <1>15, <2>3, <2>4 DEF Told, s, t
<1>16. CASE i # n /\ fold[m[a + i]] # fold[m[b + i]]
  <2>1. SUFFICES ASSUME Len(s) = Len(t), \A j \in 0 .. Len(s) - 1 : fold[s[j + 1]] = fold[t[j + 1]]
                 PROVE  FALSE
    BY <1>12, <1>13, <1>16 DEF Told, s, t
  <2>2. Least2(la, n) = Least2(lb, n)
    BY <1>3, <1>4, <2>1
  <2>3. la # i \/ lb # i
    BY <1>6, <1>12, <1>16
  <2>4. i < Least2(la, n)
    BY <1>1, <1>2, <1>9, <1>10, <1>16, <2>2, <2>3 DEF Least2
  <2>5. i \in 0 .. Least2(la, n) - 1 /\ i \in 0 .. Least2(lb, n) - 1
    <3>1. Least2(la, n) \in Nat /\ i \in Nat
      BY <1>1 DEF Least2
    <3>. QED BY <2>2, <2>4, <3>1
  <2>6. fold[s[i + 1]] = fold[t[i + 1]]
    BY <1>3, <2>1, <2>5
  <2>7. s[i + 1] = m[a + i]
    BY <1>3, <2>5
  <2>8. t[i + 1] = m[b + i]
    BY <1>4, <2>5
  <2>. QED BY <1>16, <2>6, <2>7, <2>8
<1>. QED BY <1>14, <1>15, <1>16

(* The comparison finds such a place.                                      *)
LEMMA PartingFound ==
  ASSUME NEW m, Terminated(m), NEW a \in Addr, NEW b \in Addr, NEW n \in Nat, NEW fold, Zeroed(fold)
  PROVE  \E i \in 0 .. n :
           /\ PartAt(m, a, b, n, fold, {0}, i)
           /\ i < n => a + i \in Addr /\ b + i \in Addr
           /\ Told(m, a, b, n, fold, i)
<1>1. m \in Mem /\ a \in Int /\ b \in Int /\ fold \in [Chars -> Chars] /\ {0} \in SUBSET Chars
  BY Bytes0 DEF Terminated, Zeroed
<1>2. PICK i \in 0 .. n : PartAt(m, a, b, n, fold, {0}, i)
  BY <1>1, PartingIs
<1>. QED BY <1>2, PartingTells

(* The difference of two characters as a signed char is 0 only when they   *)
(* are the same.                                                           *)
LEMMA SignedIs ==
  ASSUME NEW x \in Chars, NEW y \in Chars
  PROVE  SignedChar(x - y) = 0 <=> x = y
<1>. DEFINE w == Pow2[CharBits]
            h == Pow2[CharBits - 1]
<1>1. /\ w \in Nat \ {0} /\ h \in Nat \ {0} /\ w = 2 * h
  <2>1. CharBits \in Nat /\ CharBits - 1 \in Nat /\ (CharBits - 1) + 1 = CharBits
    BY StringMemory
  <2>. QED BY <2>1, Pow2Facts
<1>2. x \in 0 .. w - 1 /\ y \in 0 .. w - 1
  BY DEF Chars
<1>3. SignedChar(x - y) = LET z == (x - y) % w IN IF z >= h THEN z - w ELSE z
  BY DEF SignedChar
<1>. HIDE DEF w, h
<1>4. CASE x >= y
  <2>1. x - y \in 0 .. w - 1 /\ x - y \in Int /\ x - y = w * 0 + (x - y) /\ 0 \in Int
    BY <1>1, <1>2, <1>4
  <2>2. (x - y) % w = x - y
    BY <1>1, <2>1, RemainderIs
  <2>. QED BY <1>1, <1>2, <1>3, <1>4, <2>2
<1>5. CASE x < y
  <2>1. x - y + w \in 0 .. w - 1 /\ x - y \in Int /\ x - y = w * (-1) + (x - y + w) /\ -1 \in Int
    BY <1>1, <1>2, <1>5
  <2>2. (x - y) % w = x - y + w
    BY <1>1, <2>1, RemainderIs
  <2>. QED BY <1>1, <1>2, <1>3, <1>5, <2>2
<1>6. x \in Int /\ y \in Int
  BY <1>2
<1>. QED BY <1>4, <1>5, <1>6

(* strncmp() returns 0 for the same first n characters only, although the  *)
(* difference is cut to a signed char.                                     *)
LEMMA StrncmpIs ==
  ASSUME NEW m, Terminated(m), NEW a \in Addr, NEW b \in Addr, NEW n \in Nat
  PROVE  Strncmp(m, a, b, n) = 0 <=> FirstOf(StrAt(m, a), n) = FirstOf(StrAt(m, b), n)
<1>1. PICK i \in 0 .. n :
        /\ PartAt(m, a, b, n, Itself, {0}, i)
        /\ i < n => a + i \in Addr /\ b + i \in Addr
        /\ Told(m, a, b, n, Itself, i)
  BY PartingFound, Foldings
<1>2. /\ Parting(m, a, b, n, Itself, {0}).a = a + i
      /\ Parting(m, a, b, n, Itself, {0}).b = b + i
      /\ Parting(m, a, b, n, Itself, {0}).n = n - i
  BY <1>1 DEF PartAt
<1>3. Strncmp(m, a, b, n) = IF n - i = 0 THEN 0 ELSE SignedChar(m[a + i] - m[b + i])
  BY <1>2 DEF Strncmp
<1>4. FirstOf(StrAt(m, a), n) \in Seq(Chars) /\ FirstOf(StrAt(m, b), n) \in Seq(Chars)
  BY FirstAt
<1>5. FirstOf(StrAt(m, a), n) = FirstOf(StrAt(m, b), n)
        <=> (i = n \/ Itself[m[a + i]] = Itself[m[b + i]])
  BY <1>1, <1>4, Foldings DEF Told
<1>6. CASE i = n
  BY <1>3, <1>5, <1>6
<1>7. CASE i # n
  <2>1. n - i # 0 /\ i < n
    BY <1>7
  <2>2. m[a + i] \in Chars /\ m[b + i] \in Chars
    BY <1>1, <2>1, Bytes0 DEF Terminated
  <2>3. SignedChar(m[a + i] - m[b + i]) = 0 <=> m[a + i] = m[b + i]
    BY <2>2, SignedIs
  <2>4. Itself[m[a + i]] = m[a + i] /\ Itself[m[b + i]] = m[b + i]
    BY <2>2 DEF Itself
  <2>. QED BY <1>3, <1>5, <1>7, <2>1, <2>3, <2>4
<1>. QED BY <1>6, <1>7

(* No string is longer than the memory.                                    *)
LEMMA NoLimitIs ==
  ASSUME NEW m, Terminated(m), NEW a \in Addr
  PROVE  NoLimit \in Nat /\ NoLimit # 0 /\ FirstOf(StrAt(m, a), NoLimit) = StrAt(m, a)
<1>1. StrAt(m, a) \in Seq(Chars) /\ Len(StrAt(m, a)) = Strlen(m, a)
  BY StrIs
<1>2. Strlen(m, a) \in Nat /\ a + Strlen(m, a) \in Addr /\ a \in Nat /\ MemSize \in Nat
  BY StrlenIs, Bytes0
<1>3. NoLimit \in Nat /\ NoLimit # 0 /\ NoLimit >= Strlen(m, a)
  BY <1>2 DEF NoLimit, Addr
<1>. QED BY <1>1, <1>3, FirstAll

(* strcmp() returns 0 for the same texts only.                             *)
LEMMA StrcmpIs ==
  ASSUME NEW m, Terminated(m), NEW a \in Addr, NEW b \in Addr
  PROVE  Strcmp(m, a, b) = 0 <=> StrAt(m, a) = StrAt(m, b)
BY NoLimitIs, StrncmpIs DEF Strcmp

(* The comparison in small letters, by length.                             *)
LEMMA LowerTells ==
  ASSUME NEW m, Terminated(m), NEW a \in Addr, NEW b \in Addr, NEW n \in Nat, NEW r,
         r = Parting(m, a, b, n, Lower, {0})
  PROVE  \/ r.n = 0 /\ Lowered(FirstOf(StrAt(m, a), n)) = Lowered(FirstOf(StrAt(m, b), n))
         \/ /\ r.n # 0 /\ m[r.a] \in Chars /\ m[r.b] \in Chars
            /\ Lowered(FirstOf(StrAt(m, a), n)) = Lowered(FirstOf(StrAt(m, b), n))
                 <=> Lower[m[r.a]] = Lower[m[r.b]]
<1>1. PICK i \in 0 .. n :
        /\ PartAt(m, a, b, n, Lower, {0}, i)
        /\ i < n => a + i \in Addr /\ b + i \in Addr
        /\ Told(m, a, b, n, Lower, i)
  BY PartingFound, Foldings
<1>2. r.a = a + i /\ r.b = b + i /\ r.n = n - i
  BY <1>1 DEF PartAt
<1>3. FirstOf(StrAt(m, a), n) \in Seq(Chars) /\ FirstOf(StrAt(m, b), n) \in Seq(Chars)
  BY FirstAt
<1>4. Lowered(FirstOf(StrAt(m, a), n)) = Lowered(FirstOf(StrAt(m, b), n))
        <=> (i = n \/ Lower[m[a + i]] = Lower[m[b + i]])
  BY <1>1, <1>3, Foldings DEF Told
<1>5. CASE i = n
  BY <1>2, <1>4, <1>5
<1>6. CASE i # n
  <2>1. n - i # 0 /\ i < n
    BY <1>6
  <2>2. m[a + i] \in Chars /\ m[b + i] \in Chars
    BY <1>1, <2>1, Bytes0 DEF Terminated
  <2>. QED BY <1>2, <1>4, <1>6, <2>1, <2>2
<1>. QED BY <1>5, <1>6

(* Small letters are characters, NUL is the only one that becomes NUL.     *)
LEMMA LowerIs ==
  ASSUME NEW x \in Chars, NEW y \in Chars
  PROVE  /\ Lower[x] \in Nat /\ Lower[y] \in Nat /\ x \in Nat /\ y \in Nat
         /\ (Lower[x] = 0 <=> x = 0) /\ (Lower[y] = 0 <=> y = 0)
<1>1. Lower[x] \in Chars /\ Lower[y] \in Chars
  BY StringChars
<1>. QED BY <1>1, StringChars, Bytes0

(* strncasecmp() returns 0 for the same first n characters in lower case   *)
(* only.                                                                   *)
LEMMA StrncasecmpIs ==
  ASSUME NEW m, Terminated(m), NEW a \in Addr, NEW b \in Addr, NEW n \in Nat \ {0}
  PROVE  Strncasecmp(m, a, b, n) = 0
           <=> Lowered(FirstOf(StrAt(m, a), n)) = Lowered(FirstOf(StrAt(m, b), n))
<1>. DEFINE r == Parting(m, a, b, n, Lower, {0})
<1>1. Strncasecmp(m, a, b, n) = IF r.n = 0 THEN 0 ELSE Lower[m[r.a]] - Lower[m[r.b]]
  BY DEF Strncasecmp
<1>. DEFINE same == Lowered(FirstOf(StrAt(m, a), n)) = Lowered(FirstOf(StrAt(m, b), n))
<1>2. \/ r.n = 0 /\ same
      \/ /\ r.n # 0 /\ m[r.a] \in Chars /\ m[r.b] \in Chars
         /\ same <=> Lower[m[r.a]] = Lower[m[r.b]]
  BY LowerTells
<1>. HIDE DEF r, same
<1>3. CASE r.n = 0 /\ same
  BY <1>1, <1>3 DEF same
<1>4. CASE /\ r.n # 0 /\ m[r.a] \in Chars /\ m[r.b] \in Chars
           /\ same <=> Lower[m[r.a]] = Lower[m[r.b]]
  <2>1. Lower[m[r.a]] \in Nat /\ Lower[m[r.b]] \in Nat
    BY <1>4, LowerIs
  <2>. QED BY <1>1, <1>4, <2>1 DEF same
<1>. QED BY <1>2, <1>3, <1>4

(* strcasecmp() returns 0 for the same texts in lower case only.           *)
LEMMA StrcasecmpIs ==
  ASSUME NEW m, Terminated(m), NEW a \in Addr, NEW b \in Addr
  PROVE  Strcasecmp(m, a, b) = 0 <=> Lowered(StrAt(m, a)) = Lowered(StrAt(m, b))
<1>1. NoLimit \in Nat \ {0} /\ Strcasecmp(m, a, b) = Strncasecmp(m, a, b, NoLimit)
  BY NoLimitIs DEF Strcasecmp, Strncasecmp
<1>. QED BY <1>1, NoLimitIs, StrncasecmpIs

(* strnicmp() returns 0 for the same first n characters in lower case      *)
(* only.                                                                   *)
LEMMA StrnicmpIs ==
  ASSUME NEW m, Terminated(m), NEW a \in Addr, NEW b \in Addr, NEW n \in Nat
  PROVE  Strnicmp(m, a, b, n) = 0
           <=> Lowered(FirstOf(StrAt(m, a), n)) = Lowered(FirstOf(StrAt(m, b), n))
<1>. DEFINE r == Parting(m, a, b, n, Lower, {0})
<1>1. Strnicmp(m, a, b, n) = IF r.n = 0 THEN 0
                             ELSE IF m[r.a] = 0 \/ m[r.b] = 0 THEN m[r.a] - m[r.b]
                             ELSE Lower[m[r.a]] - Lower[m[r.b]]
  BY DEF Strnicmp
<1>. DEFINE same == Lowered(FirstOf(StrAt(m, a), n)) = Lowered(FirstOf(StrAt(m, b), n))
<1>2. \/ r.n = 0 /\ same
      \/ /\ r.n # 0 /\ m[r.a] \in Chars /\ m[r.b] \in Chars
         /\ same <=> Lower[m[r.a]] = Lower[m[r.b]]
  BY LowerTells
<1>. HIDE DEF r, same
<1>3. CASE r.n = 0 /\ same
  BY <1>1, <1>3 DEF same
<1>4. CASE /\ r.n # 0 /\ m[r.a] \in Chars /\ m[r.b] \in Chars
           /\ same <=> Lower[m[r.a]] = Lower[m[r.b]]
  <2>1. /\ Lower[m[r.a]] \in Nat /\ Lower[m[r.b]] \in Nat /\ m[r.a] \in Nat /\ m[r.b] \in Nat
        /\ (Lower[m[r.a]] = 0 <=> m[r.a] = 0) /\ (Lower[m[r.b]] = 0 <=> m[r.b] = 0)
    BY <1>4, LowerIs
  <2>. QED BY <1>1, <1>4, <2>1 DEF same
<1>. QED BY <1>2, <1>3, <1>4

(* The first difference of two areas and the sign.                         *)
LEMMA MemcmpTells ==
  ASSUME NEW m \in Mem, NEW a \in Nat, NEW b \in Nat, NEW n \in Nat,
         a + n <= MemSize, b + n <= MemSize, NEW differ,
         differ = Least({k \in 0 .. n - 1 : m[a + k] # m[b + k]})
  PROVE  IF differ = Null THEN Memcmp(m, a, b, n) = 0
         ELSE (Memcmp(m, a, b, n) > 0) <=> m[a + differ] > m[b + differ]
<1>. DEFINE S == {k \in 0 .. n - 1 : m[a + k] # m[b + k]}
<1>1. Compared(m, a, b, n)
  BY MemcmpIs
<1>2. CASE Memcmp(m, a, b, n) = 0 /\ \A k \in 0 .. n - 1 : m[a + k] = m[b + k]
  <2>1. S = {}
    BY <1>2
  <2>. QED BY <1>2, <2>1, LeastNone
<1>3. ASSUME NEW i \in 0 .. n - 1, Memcmp(m, a, b, n) = m[a + i] - m[b + i],
             m[a + i] # m[b + i], m[a + i] \in Nat, m[b + i] \in Nat,
             \A k \in 0 .. i - 1 : m[a + k] = m[b + k]
      PROVE  IF differ = Null THEN Memcmp(m, a, b, n) = 0
             ELSE (Memcmp(m, a, b, n) > 0) <=> m[a + differ] > m[b + differ]
  <2>1. i \in S /\ S \in SUBSET Int
    BY <1>3
  <2>2. ASSUME NEW k \in S PROVE i <= k
    <3>1. k \in 0 .. n - 1 /\ ~(k \in 0 .. i - 1)
      BY <1>3
    <3>. QED BY <3>1
  <2>3. Least(S) = i
    <3>. HIDE DEF S
    <3>. QED BY <2>1, <2>2, LeastIs
  <2>4. differ = i /\ i # Null
    BY <2>3 DEF Null
  <2>. QED BY <1>3, <2>4
<1>. QED BY <1>1, <1>2, <1>3 DEF Compared

-----------------------------------------------------------------------------
(* Tokens. *)

(* The separators in the memory, where a token starts, a memory changed by *)
(* nothing but NULs over separators, and a token that ends before one.     *)
Seps(old, s) == {k \in Addr : Among(old, old[k], s)}
End(old, d) == d + Strlen(old, d)
Starts(fn, old, d, s) ==
  {p \in d .. End(old, d) :
     IF fn = "strtok"
     THEN p < End(old, d) /\ p \notin Seps(old, s) /\ (p > d => p - 1 \in Seps(old, s))
     ELSE p = d \/ p - 1 \in Seps(old, s)}
OnlyCut(m, old, d, s) ==
  m \in Mem /\ \A x \in Addr : m[x] # old[x] => x \in Seps(old, s) /\ x \in d .. End(old, d) /\ m[x] = 0
Whole(m, old, s, t) ==
  \E z \in Addr : t <= z /\ m[z] = 0 /\ \A x \in t .. z - 1 : x \notin Seps(old, s)

(* The tokens given are the starts S, in order and each whole.             *)
Given(m, old, s, toks, S) ==
  /\ toks \in Seq(Addr) /\ ToSet(toks) = S
  /\ \A k \in 1 .. Len(toks) : Whole(m, old, s, toks[k])
  /\ \A k \in 2 .. Len(toks) : toks[k] > toks[k - 1]

(* All before p is given and nothing from p on changed; and all is given.  *)
AtPoint(fn, m, old, d, s, p, toks) ==
  /\ OnlyCut(m, old, d, s) /\ p \in d .. End(old, d) /\ (p = d \/ p - 1 \in Seps(old, s))
  /\ \A x \in Addr : x >= p => m[x] = old[x]
  /\ Given(m, old, s, toks, {q \in Starts(fn, old, d, s) : q < p})
AtEnd(fn, m, old, d, s, toks) ==
  OnlyCut(m, old, d, s) /\ Given(m, old, s, toks, Starts(fn, old, d, s))

(* The two strings a tokenizer is called with.                             *)
Called2(old, d, s) ==
  Terminated(old) /\ d \in Addr /\ s \in Addr /\ Apart(d, Strlen(old, d) + 1, s, Strlen(old, s) + 1)

(* The string of separators is not changed.                                *)
LEMMA SepsStay ==
  ASSUME NEW m, NEW old, NEW d, NEW s, Called2(old, d, s), OnlyCut(m, old, d, s)
  PROVE  /\ Terminated(m) /\ \A c \in Chars : Among(m, c, s) <=> c \in Letters(StrAt(old, s))
         /\ \A x \in Addr : x \in Seps(old, s) <=> old[x] \in Letters(StrAt(old, s))
<1>. DEFINE l == Strlen(old, s)
<1>1. /\ Terminated(old) /\ d \in Addr /\ s \in Addr /\ Apart(d, Strlen(old, d) + 1, s, l + 1)
      /\ m \in Mem /\ old \in Mem
  BY DEF Called2, OnlyCut, Terminated
<1>2. /\ l \in Nat /\ s + l \in Addr /\ old[s + l] = 0 /\ d \in Nat /\ s \in Nat
      /\ \A x \in s .. s + l - 1 : x \in Addr /\ old[x] \in NonNul
      /\ Strlen(old, d) \in Nat
  BY <1>1, StrlenIs, Bytes0
<1>3. /\ StrAt(old, s) \in Seq(Chars) /\ Len(StrAt(old, s)) = l
      /\ \A k \in 1 .. l : StrAt(old, s)[k] = old[s + k - 1]
  BY <1>1, StrIs
<1>. HIDE DEF l
<1>4. ASSUME NEW x \in s .. s + l PROVE x \in Addr /\ m[x] = old[x]
  <2>1. x \in Addr
    BY <1>2, Bytes0 DEF Addr
  <2>2. x \notin d .. End(old, d)
    BY <1>1, <1>2 DEF Apart, End
  <2>. QED BY <2>1, <2>2 DEF OnlyCut
<1>5. Terminated(m)
  <2>1. MemSize - 1 \in Addr /\ old[MemSize - 1] = 0
    BY <1>1, Bytes0 DEF Terminated
  <2>. QED BY <1>1, <2>1 DEF Terminated, OnlyCut
<1>6. Strlen(m, s) = l
  <2>1. m[s + l] = 0
    BY <1>2, <1>4
  <2>2. \A x \in s .. s + l - 1 : m[x] # 0
    BY <1>2, <1>4 DEF NonNul
  <2>. QED BY <1>1, <1>2, <1>5, <2>1, <2>2, StrlenAt
<1>7. StrAt(m, s) = StrAt(old, s)
  <2>1. /\ StrAt(m, s) \in Seq(Chars) /\ Len(StrAt(m, s)) = l
        /\ \A k \in 1 .. l : StrAt(m, s)[k] = m[s + k - 1]
    BY <1>1, <1>5, <1>6, StrIs
  <2>2. ASSUME NEW k \in 1 .. l PROVE StrAt(m, s)[k] = StrAt(old, s)[k]
    <3>1. s + k - 1 \in s .. s + l
      BY <1>2
    <3>. QED BY <1>3, <1>4, <2>1, <3>1
  <2>. QED BY <1>3, <2>1, <2>2, SeqEqual
<1>8. \A c \in Chars : Among(m, c, s) <=> c \in Letters(StrAt(old, s))
  BY <1>1, <1>5, <1>7, AmongIs
<1>9. ASSUME NEW x \in Addr PROVE x \in Seps(old, s) <=> old[x] \in Letters(StrAt(old, s))
  <2>1. old[x] \in Chars
    BY <1>1, Bytes0
  <2>. QED BY <1>1, <2>1, AmongIs DEF Seps
<1>. QED BY <1>5, <1>8, <1>9

(* From a place behind which nothing is changed the string ends where it   *)
(* did.                                                                    *)
LEMMA EndStays ==
  ASSUME NEW m, Terminated(m), NEW old, NEW d, NEW s, Called2(old, d, s),
         NEW p \in d .. End(old, d), \A x \in Addr : x >= p => m[x] = old[x]
  PROVE  /\ p \in Addr /\ p + Strlen(m, p) = End(old, d) /\ End(old, d) \in Addr /\ m[End(old, d)] = 0
         /\ \A x \in d .. End(old, d) - 1 : x \in Addr /\ old[x] # 0
<1>. DEFINE l == Strlen(old, d)
<1>1. Terminated(old) /\ d \in Addr
  BY DEF Called2
<1>2. /\ l \in Nat /\ d + l \in Addr /\ old[d + l] = 0 /\ d \in Nat
      /\ \A x \in d .. d + l - 1 : x \in Addr /\ old[x] # 0
  BY <1>1, StrlenIs, Bytes0 DEF NonNul
<1>3. End(old, d) = d + l
  BY DEF End
<1>. HIDE DEF l
<1>4. p \in Addr /\ p \in Nat
  <2>1. p \in d .. d + l /\ MemSize \in Nat
    BY <1>3, Bytes0
  <2>. QED BY <1>2, <2>1 DEF Addr
<1>5. m[d + l] = 0
  <2>1. d + l >= p
    BY <1>2, <1>3
  <2>. QED BY <1>2, <2>1
<1>6. Strlen(m, p) = d + l - p
  <2>1. d + l - p \in Nat /\ p + (d + l - p) = d + l
    BY <1>2, <1>3, <1>4
  <2>2. ASSUME NEW x \in p .. p + (d + l - p) - 1 PROVE m[x] # 0
    <3>1. x \in d .. d + l - 1 /\ x >= p
      BY <1>2, <1>3, <1>4
    <3>. QED BY <1>2, <3>1
  <2>. QED BY <1>2, <1>4, <1>5, <2>1, <2>2, StrlenAt
<1>7. p + (d + l - p) = d + l
  BY <1>2, <1>4
<1>. QED BY <1>2, <1>3, <1>4, <1>5, <1>6, <1>7

(* Where the separators behind p end, and where the next one stands.       *)
Skipped(m, p, s) == p + Strspn(m, p, s)
Begins(m, old, p, e, s, b) ==
  /\ b \in p .. e /\ \A x \in p .. b - 1 : x \in Seps(old, s)
  /\ IF m[b] = 0 THEN b = e ELSE b < e /\ b \notin Seps(old, s)
Stands(m, old, p, e, s, q) ==
  IF q = Null THEN \A x \in p .. e - 1 : x \notin Seps(old, s)
  ELSE /\ q \in p .. e - 1 /\ q \in Seps(old, s)
       /\ \A x \in p .. q - 1 : x \notin Seps(old, s)

(* What strtok() skips and what strpbrk() finds from p on, p being in the  *)
(* part of the text that was not cut yet.                                  *)
LEMMA TokenFound ==
  ASSUME NEW m, NEW old, NEW d, NEW s, Called2(old, d, s), OnlyCut(m, old, d, s),
         NEW p \in d .. End(old, d), \A x \in Addr : x >= p => m[x] = old[x]
  PROVE  /\ Begins(m, old, p, End(old, d), s, Skipped(m, p, s))
         /\ Stands(m, old, p, End(old, d), s, Strpbrk(m, p, s))
<1>. DEFINE e == End(old, d)
            B == Letters(StrAt(old, s))
            C == {c \in Chars : c = 0 \/ ~Among(m, c, s)}
            D == {c \in Chars : c = 0 \/ Among(m, c, s)}
            b == Until(m, p, C)
            q == Until(m, p, D)
<1>1. /\ Terminated(m) /\ Terminated(old) /\ d \in Nat
      /\ \A c \in Chars : Among(m, c, s) <=> c \in B
      /\ \A x \in Addr : x \in Seps(old, s) <=> old[x] \in B
  BY SepsStay, Bytes0 DEF Called2
<1>2. /\ p \in Addr /\ p \in Nat /\ p + Strlen(m, p) = e /\ e \in Addr /\ m[e] = 0
      /\ \A x \in d .. e - 1 : x \in Addr /\ old[x] # 0
  BY <1>1, EndStays, Bytes0
<1>3. C \in SUBSET Chars /\ 0 \in C /\ D \in SUBSET Chars /\ 0 \in D
  BY Bytes0
<1>4. Skipped(m, p, s) = p + (b - p) /\ Strpbrk(m, p, s) = IF m[q] = 0 THEN Null ELSE q
  BY DEF Skipped, Strspn, Strpbrk
<1>5. \A c \in Chars : (c \in C <=> (c = 0 \/ c \notin B)) /\ (c \in D <=> (c = 0 \/ c \in B))
  BY <1>1
<1>6. p <= e /\ e \in Nat
  <2>1. e \in Nat
    BY <1>2, Bytes0
  <2>. QED BY <2>1
<1>. HIDE DEF C, D, B, e
<1>7. b \in p .. e /\ m[b] \in C /\ \A x \in p .. b - 1 : m[x] \notin C
  BY <1>1, <1>2, <1>3, UntilWithin
<1>8. q \in p .. e /\ m[q] \in D /\ \A x \in p .. q - 1 : m[x] \notin D
  BY <1>1, <1>2, <1>3, UntilWithin
<1>. HIDE DEF b, q
<1>9. ASSUME NEW x \in p .. e - 1
      PROVE  /\ x \in Addr /\ m[x] = old[x] /\ m[x] \in Chars /\ m[x] # 0
             /\ x \in Seps(old, s) <=> m[x] \in B
  <2>1. x \in d .. e - 1 /\ x >= p
    BY <1>1, <1>2
  <2>2. x \in Addr /\ old[x] # 0 /\ m[x] = old[x]
    BY <1>2, <2>1
  <2>. QED BY <1>1, <2>2, Bytes0 DEF Terminated
<1>10. Begins(m, old, p, e, s, b)
  <2>1. ASSUME NEW x \in p .. b - 1 PROVE x \in Seps(old, s)
    <3>1. x \in p .. e - 1 /\ m[x] \notin C
      BY <1>2, <1>6, <1>7
    <3>. QED BY <1>5, <1>9, <3>1
  <2>2. CASE b = e
    BY <1>2, <1>7, <2>1, <2>2 DEF Begins
  <2>3. CASE b # e
    <3>1. b \in p .. e - 1 /\ b < e
      BY <1>2, <1>6, <1>7, <2>3
    <3>2. m[b] # 0 /\ b \notin Seps(old, s)
      BY <1>5, <1>7, <1>9, <3>1
    <3>. QED BY <1>7, <2>1, <3>1, <3>2 DEF Begins
  <2>. QED BY <2>2, <2>3
<1>11. Stands(m, old, p, e, s, IF m[q] = 0 THEN Null ELSE q)
  <2>1. ASSUME NEW x \in p .. q - 1 PROVE x \notin Seps(old, s)
    <3>1. x \in p .. e - 1 /\ m[x] \notin D
      BY <1>2, <1>6, <1>8
    <3>. QED BY <1>5, <1>9, <3>1
  <2>2. CASE q = e
    BY <1>2, <2>1, <2>2 DEF Stands
  <2>3. CASE q # e
    <3>1. q \in p .. e - 1 /\ q # Null
      BY <1>2, <1>6, <1>8, <2>3 DEF Null
    <3>2. m[q] # 0 /\ q \in Seps(old, s)
      BY <1>5, <1>8, <1>9, <3>1
    <3>. QED BY <2>1, <3>1, <3>2 DEF Stands
  <2>. QED BY <2>2, <2>3
<1>12. Skipped(m, p, s) = b
  BY <1>2, <1>4, <1>6, <1>7
<1>. QED BY <1>4, <1>10, <1>11, <1>12 DEF e

(* One more token behind those given.                                      *)
LEMMA GivenMore ==
  ASSUME NEW m, NEW new, NEW old, NEW s, NEW toks, NEW S, Given(m, old, s, toks, S),
         NEW b \in Addr, \A t \in S : t < b, \A z \in Addr : m[z] = 0 => new[z] = 0,
         Whole(new, old, s, b)
  PROVE  Given(new, old, s, Append(toks, b), S \cup {b})
<1>. DEFINE all == Append(toks, b)
<1>1. /\ toks \in Seq(Addr) /\ ToSet(toks) = S
      /\ \A k \in 1 .. Len(toks) : Whole(m, old, s, toks[k])
      /\ \A k \in 2 .. Len(toks) : toks[k] > toks[k - 1]
  BY DEF Given
<1>2. /\ all \in Seq(Addr) /\ Len(all) = Len(toks) + 1 /\ Len(toks) \in Nat
      /\ \A k \in 1 .. Len(toks) : all[k] = toks[k]
      /\ all[Len(toks) + 1] = b
  BY <1>1
<1>3. \A k \in 1 .. Len(toks) : toks[k] \in S
  BY <1>1 DEF ToSet
<1>. HIDE DEF all
<1>4. \A k \in 1 .. Len(toks) + 1 : k = Len(toks) + 1 \/ k \in 1 .. Len(toks)
  BY <1>2
<1>5. ASSUME NEW k \in 1 .. Len(all) PROVE Whole(new, old, s, all[k])
  <2>1. CASE k = Len(toks) + 1
    BY <1>2, <2>1
  <2>2. CASE k \in 1 .. Len(toks)
    <3>1. Whole(m, old, s, toks[k]) /\ all[k] = toks[k]
      BY <1>1, <1>2, <2>2
    <3>. QED BY <3>1 DEF Whole
  <2>. QED BY <1>2, <1>4, <2>1, <2>2
<1>6. ASSUME NEW k \in 2 .. Len(all) PROVE all[k] > all[k - 1]
  <2>1. k - 1 \in 1 .. Len(toks)
    BY <1>2
  <2>2. CASE k = Len(toks) + 1
    <3>1. all[k - 1] \in S /\ all[k] = b
      BY <1>2, <1>3, <2>1, <2>2
    <3>2. all[k - 1] < b /\ all[k - 1] \in Addr
      BY <1>1, <1>2, <2>1, <3>1
    <3>. QED BY <3>1, <3>2, Bytes0
  <2>3. CASE k # Len(toks) + 1
    <3>1. k \in 2 .. Len(toks) /\ k \in 1 .. Len(toks)
      BY <1>2, <2>3
    <3>. QED BY <1>1, <1>2, <2>1, <3>1
  <2>. QED BY <2>2, <2>3
<1>7. ToSet(all) = S \cup {b}
  <2>1. DOMAIN all = 1 .. Len(toks) + 1 /\ DOMAIN toks = 1 .. Len(toks)
    BY <1>1, <1>2
  <2>2. ToSet(all) = {all[k] : k \in 1 .. Len(toks) + 1} /\ S = {toks[k] : k \in 1 .. Len(toks)}
    BY <1>1, <2>1 DEF ToSet
  <2>3. Len(toks) + 1 \in 1 .. Len(toks) + 1 /\ \A k \in 1 .. Len(toks) : k \in 1 .. Len(toks) + 1
    BY <1>2
  <2>4. ASSUME NEW t \in ToSet(all) PROVE t \in S \cup {b}
    BY <1>2, <1>4, <2>2
  <2>5. ASSUME NEW t \in S \cup {b} PROVE t \in ToSet(all)
    BY <1>2, <2>2, <2>3
  <2>. QED BY <2>4, <2>5
<1>. QED BY <1>2, <1>5, <1>6, <1>7 DEF Given, all

(* One turn of a tokenizer from p on: the next token is given, or there is *)
(* none.                                                                   *)
LEMMA TokenTaken ==
  ASSUME NEW fn \in {"strtok", "strsep"}, NEW m, NEW old, NEW d, NEW s, Called2(old, d, s), NEW p,
         NEW toks, AtPoint(fn, m, old, d, s, p, toks), NEW b,
         b = IF fn = "strtok" THEN Skipped(m, p, s) ELSE p, NEW q, q = Strpbrk(m, b, s)
  PROVE  /\ b \in Addr
         /\ IF fn = "strtok" /\ m[b] = 0 THEN AtEnd(fn, m, old, d, s, toks)
            ELSE IF q = Null THEN AtEnd(fn, m, old, d, s, Append(toks, b))
            ELSE q \in Addr /\ AtPoint(fn, Store(m, q, 0), old, d, s, q + 1, Append(toks, b))
<1>. DEFINE e == End(old, d)
            all == Starts(fn, old, d, s)
            S == {x \in all : x < p}
<1>1. /\ OnlyCut(m, old, d, s) /\ p \in d .. e /\ (p = d \/ p - 1 \in Seps(old, s))
      /\ \A x \in Addr : x >= p => m[x] = old[x]
      /\ Given(m, old, s, toks, S)
  BY DEF AtPoint
<1>2. Terminated(m) /\ m \in Mem /\ old \in Mem /\ d \in Nat
  BY <1>1, SepsStay, Bytes0 DEF Called2, Terminated
<1>3. /\ p \in Nat /\ e \in Nat /\ p <= e /\ m[e] = 0 /\ e \in Addr
      /\ \A x \in d .. e - 1 : x \in Addr /\ old[x] # 0
  <2>1. e \in Addr /\ m[e] = 0 /\ \A x \in d .. e - 1 : x \in Addr /\ old[x] # 0
    BY <1>1, <1>2, EndStays
  <2>2. e \in Nat
    BY <2>1, Bytes0
  <2>. QED BY <1>1, <1>2, <2>1, <2>2
<1>4. Begins(m, old, p, e, s, Skipped(m, p, s))
  BY <1>1, TokenFound
<1>5. \A x : x \in all <=> /\ x \in d .. e
                           /\ IF fn = "strtok"
                              THEN x < e /\ x \notin Seps(old, s) /\ (x > d => x - 1 \in Seps(old, s))
                              ELSE x = d \/ x - 1 \in Seps(old, s)
  BY DEF Starts
<1>. HIDE DEF e, all, S
<1>6. /\ b \in p .. e
      /\ fn = "strtok" => /\ \A x \in p .. b - 1 : x \in Seps(old, s)
                          /\ IF m[b] = 0 THEN b = e ELSE b < e /\ b \notin Seps(old, s)
      /\ fn # "strtok" => b = p
  BY <1>3, <1>4 DEF Begins
<1>7. b \in d .. e /\ b \in Nat
  BY <1>1, <1>2, <1>3, <1>6
<1>8. /\ b \in Addr /\ \A x \in Addr : x >= b => m[x] = old[x]
      /\ Stands(m, old, b, e, s, q)
  <2>1. \A x \in Addr : x >= b => m[x] = old[x]
    BY <1>1, <1>3, <1>6, Bytes0
  <2>2. b \in Addr
    BY <1>1, <1>2, <1>7, <2>1, EndStays DEF e
  <2>. QED BY <1>1, <1>7, <2>1, <2>2, TokenFound DEF e
<1>9. CASE fn = "strtok" /\ m[b] = 0
  <2>1. ASSUME NEW x \in all PROVE x < p
    <3>1. x \in d .. e /\ x < e /\ x \notin Seps(old, s)
      BY <1>5, <1>9
    <3>2. \A y \in p .. e - 1 : y \in Seps(old, s)
      BY <1>6, <1>9
    <3>. QED BY <1>1, <1>2, <1>3, <3>1, <3>2
  <2>2. S = all
    BY <2>1 DEF S
  <2>. QED BY <1>1, <1>8, <1>9, <2>2 DEF AtEnd, all
<1>10. CASE ~(fn = "strtok" /\ m[b] = 0)
  <2>1. b \in all
    <3>1. CASE fn = "strtok"
      <4>1. b < e /\ b \notin Seps(old, s)
        BY <1>6, <1>10, <3>1
      <4>2. ASSUME b > d PROVE b - 1 \in Seps(old, s)
        <5>1. CASE b = p
          BY <1>1, <1>2, <1>3, <4>2, <5>1
        <5>2. CASE b # p
          <6>1. b - 1 \in p .. b - 1
            BY <1>3, <1>6, <5>2
          <6>. QED BY <1>6, <3>1, <6>1
        <5>. QED BY <5>1, <5>2
      <4>. QED BY <1>5, <1>7, <3>1, <4>1, <4>2
    <3>2. CASE fn # "strtok"
      BY <1>1, <1>5, <1>6, <1>7, <3>2
    <3>. QED BY <3>1, <3>2
  <2>2. \A t \in S : t < b
    <3>1. ASSUME NEW t \in S PROVE t < b
      <4>1. t < p /\ t \in d .. e
        BY <1>5 DEF S
      <4>. QED BY <1>2, <1>3, <1>6, <4>1
    <3>. QED BY <3>1
  <2>3. ASSUME NEW z \in Nat, b <= z, z <= e, \A x \in b .. z - 1 : x \notin Seps(old, s),
               NEW x \in all, x <= z
        PROVE  x \in S \cup {b}
    <3>1. /\ x \in d .. e /\ x \in Nat
          /\ fn = "strtok" => x \notin Seps(old, s) /\ (x > d => x - 1 \in Seps(old, s))
          /\ fn # "strtok" => x = d \/ x - 1 \in Seps(old, s)
      BY <1>2, <1>5
    <3>2. CASE x < p
      BY <3>2 DEF S
    <3>3. CASE x \in p .. b - 1
      BY <1>3, <1>6, <3>1, <3>3
    <3>4. CASE x = b
      BY <3>4
    <3>5. CASE x > b
      <4>1. x - 1 \in b .. z - 1 /\ x > d
        BY <1>7, <1>2, <2>3, <3>1, <3>5
      <4>. QED BY <1>2, <2>3, <3>1, <4>1
    <3>. QED BY <1>3, <1>7, <3>1, <3>2, <3>3, <3>4, <3>5
  <2>4. CASE q = Null
    <3>1. \A x \in b .. e - 1 : x \notin Seps(old, s)
      BY <1>8, <2>4 DEF Stands
    <3>2. Whole(m, old, s, b)
      BY <1>3, <1>6, <3>1 DEF Whole
    <3>3. Given(m, old, s, Append(toks, b), S \cup {b})
      <4>1. \A z \in Addr : m[z] = 0 => m[z] = 0
        OBVIOUS
      <4>. QED BY <1>1, <1>8, <2>2, <3>2, <4>1, GivenMore
    <3>4. ASSUME NEW x \in all PROVE x \in S \cup {b}
      <4>1. x <= e /\ b <= e
        BY <1>3, <1>5, <1>6, <1>2
      <4>. QED BY <1>3, <2>3, <3>1, <4>1
    <3>5. S \cup {b} = all
      BY <2>1, <3>4 DEF S
    <3>. QED BY <1>1, <1>8, <1>10, <2>4, <3>3, <3>5 DEF AtEnd, all
  <2>5. CASE q # Null
    <3>1. q \in b .. e - 1 /\ q \in Seps(old, s) /\ \A x \in b .. q - 1 : x \notin Seps(old, s)
      BY <1>8, <2>5 DEF Stands
    <3>2. q \in Nat /\ q < e /\ b <= q /\ q \in d .. e - 1 /\ q \in d .. e
      BY <1>2, <1>3, <1>7, <3>1
    <3>3. q \in Addr
      BY <1>3, <3>2
    <3>4. Store(m, q, 0) \in Mem /\ \A x \in Addr : Store(m, q, 0)[x] = IF x = q THEN 0 ELSE m[x]
      BY <1>2, <3>2, Bytes0, StoreIs
    <3>5. OnlyCut(Store(m, q, 0), old, d, s)
      BY <1>1, <3>1, <3>2, <3>4 DEF OnlyCut, e
    <3>6. q + 1 \in d .. e /\ (q + 1) - 1 = q
      BY <1>2, <1>3, <3>2
    <3>7. ASSUME NEW x \in Addr, x >= q + 1 PROVE Store(m, q, 0)[x] = old[x]
      <4>1. x \in Nat /\ x # q /\ x >= b
        BY <1>7, <3>2, <3>7, Bytes0
      <4>. QED BY <1>8, <3>4, <4>1
    <3>8. Whole(Store(m, q, 0), old, s, b)
      BY <3>1, <3>2, <3>3, <3>4 DEF Whole
    <3>9. Given(Store(m, q, 0), old, s, Append(toks, b), S \cup {b})
      <4>1. \A z \in Addr : m[z] = 0 => Store(m, q, 0)[z] = 0
        BY <3>4
      <4>. QED BY <1>1, <1>8, <2>2, <3>8, <4>1, GivenMore
    <3>10. \A x \in all : x < q + 1 <=> x \in S \cup {b}
      <4>1. ASSUME NEW x \in all, x < q + 1 PROVE x \in S \cup {b}
        <5>1. x \in d .. e
          BY <1>5
        <5>2. x <= q /\ q <= e
          BY <1>2, <1>3, <3>2, <4>1, <5>1
        <5>. QED BY <2>3, <3>1, <3>2, <5>2
      <4>2. ASSUME NEW x \in S \cup {b} PROVE x < q + 1
        <5>1. x = b \/ x < b
          BY <2>2
        <5>2. x \in d .. e
          BY <1>5, <1>7 DEF S
        <5>. QED BY <1>2, <1>7, <3>2, <5>1, <5>2
      <4>. QED BY <4>1, <4>2
    <3>11. {x \in all : x < q + 1} = S \cup {b}
      BY <2>1, <3>10 DEF S
    <3>12. AtPoint(fn, Store(m, q, 0), old, d, s, q + 1, Append(toks, b))
      <4>1. q + 1 = d \/ (q + 1) - 1 \in Seps(old, s)
        BY <3>1, <3>6
      <4>. QED BY <3>5, <3>6, <3>7, <3>9, <3>11, <4>1 DEF AtPoint, e, all
    <3>. QED BY <1>8, <1>10, <2>5, <3>3, <3>12
  <2>. QED BY <2>4, <2>5
<1>. QED BY <1>9, <1>10

-----------------------------------------------------------------------------
(* The calls. *)

(* What every state keeps: a terminated memory behind each call, and for a *)
(* tokenizer how far it has come.                                          *)
Tokenizers == {"strtok", "strsep"}
TokensGo ==
  /\ Called2(st.old, st.d, st.s)
  /\ IF st.next = Null THEN AtEnd(st.fn, st.m, st.old, st.d, st.s, st.toks)
     ELSE AtPoint(st.fn, st.m, st.old, st.d, st.s, st.next, st.toks)
  /\ st.ret = Null => st.next = Null
StringsInv ==
  /\ Terminated(st.old)
  /\ Fresh => st.m = st.old /\ st.toks = <<>>
  /\ st.fn \in Tokenizers => TokensGo
  /\ CopiesExact /\ ReadsExact

(* A call that is no tokenizer's.                                          *)
LEMMA CalledKeeps ==
  ASSUME StringsInv, NEW fn, fn \notin Tokenizers \cup {"none"}, NEW d, NEW s, NEW n, NEW m, NEW ret,
         Called(fn, d, s, n, m, ret), CopiesExact', ReadsExact'
  PROVE  StringsInv'
<1>1. st'.old = st.old /\ st'.fn = fn
  BY DEF Called, Answers
<1>. QED BY <1>1 DEF StringsInv, Terminated, Fresh

(* Each copy writes its text.                                              *)
LEMMA CopiesStep ==
  ASSUME StringsInv, Copies
  PROVE  StringsInv'
<1>. SUFFICES ASSUME NEW d \in Addr, NEW s \in Addr, NEW n \in 0 .. MemSize,
                     Fresh, Copying(d, s, n)
              PROVE  StringsInv'
  BY DEF Copies
<1>. DEFINE some == IF n < Size(s) THEN n ELSE Size(s)
            more == Strlen(st.m, d) + (IF n < Size(s) THEN n + 1 ELSE Size(s))
<1>1. st.m = st.old /\ Terminated(st.old)
  BY DEF StringsInv
<1>2. /\ d \in Nat /\ s \in Nat /\ n \in Nat
      /\ Strlen(st.old, s) \in Nat /\ Strlen(st.old, d) \in Nat
  BY <1>1, StrlenIs, Bytes0
<1>3. some = TextTaken(Strlen(st.old, s), n)
  BY <1>1, <1>2 DEF TextTaken, Size
<1>4. Size(d) + Size(s) - 1 = Strlen(st.old, d) + Strlen(st.old, s) + 1
  BY <1>1, <1>2 DEF Size
<1>5. /\ more \in Nat
      /\ more = Strlen(st.old, d) + (IF n < Strlen(st.old, s) + 1 THEN n + 1 ELSE Strlen(st.old, s) + 1)
  BY <1>1, <1>2 DEF Size
<1>. HIDE DEF some, more
<1>6. ASSUME n = 0, Fits(d, Size(s)), Apart(d, Size(s), s, Size(s)),
             Called("strcpy", d, s, n, Strcpy(st.m, d, s), d)
      PROVE  StringsInv'
  <2>1. /\ st'.fn = "strcpy" /\ st'.m = Strcpy(st.m, d, s) /\ st'.old = st.old
        /\ st'.d = d /\ st'.s = s /\ st'.n = n /\ st'.ret = d
    BY <1>6 DEF Called, Answers
  <2>2. Wrote(st.old, st'.m, d, StrAt(st.old, s) \o <<0>>)
    BY <1>6, <2>1, <1>1, <1>2, StrcpyIs DEF Fits, Size
  <2>3. CopiesExact'
    BY <2>1, <2>2 DEF CopiesExact, WroteOnly, Wrote
  <2>4. ReadsExact'
    BY <2>1 DEF ReadsExact
  <2>. QED BY <1>6, <2>1, <2>3, <2>4, CalledKeeps DEF Tokenizers
<1>7. ASSUME Fits(d, some), Apart(d, some, s, some),
             Called("strncpy", d, s, n, Strncpy(st.m, d, s, n), d)
      PROVE  StringsInv'
  <2>1. /\ st'.fn = "strncpy" /\ st'.m = Strncpy(st.m, d, s, n) /\ st'.old = st.old
        /\ st'.d = d /\ st'.s = s /\ st'.n = n /\ st'.ret = d
    BY <1>7 DEF Called, Answers
  <2>2. Wrote(st.old, st'.m, d, FirstOf(StrAt(st.old, s) \o <<0>>, n))
    BY <1>7, <2>1, <1>1, <1>2, <1>3, StrncpyIs DEF Fits
  <2>3. CopiesExact'
    BY <2>1, <2>2 DEF CopiesExact, WroteOnly, Wrote
  <2>4. ReadsExact'
    BY <2>1 DEF ReadsExact
  <2>. QED BY <1>7, <2>1, <2>3, <2>4, CalledKeeps DEF Tokenizers
<1>8. ASSUME Fits(d, n), Apart(d, n, s, Size(s)),
             Called("strlcpy", d, s, n, Strlcpy(st.m, d, s, n), Strlen(st.m, s))
      PROVE  StringsInv'
  <2>1. /\ st'.fn = "strlcpy" /\ st'.m = Strlcpy(st.m, d, s, n) /\ st'.old = st.old
        /\ st'.d = d /\ st'.s = s /\ st'.n = n /\ st'.ret = Strlen(st.m, s)
    BY <1>8 DEF Called, Answers
  <2>2. n > 0 => Wrote(st.old, st'.m, d, FirstOf(StrAt(st.old, s), n - 1) \o <<0>>)
    BY <1>1, <1>2, <1>8, <2>1, StrlcpyIs DEF Fits, Size
  <2>5. n = 0 => st'.m = st.old
    BY <1>1, <2>1 DEF Strlcpy
  <2>6. st'.ret = Len(StrAt(st.old, s))
    BY <1>1, <2>1, StrIs
  <2>3. CopiesExact'
    BY <2>1, <2>2, <2>5, <2>6 DEF CopiesExact, WroteOnly, Wrote
  <2>4. ReadsExact'
    BY <2>1 DEF ReadsExact
  <2>. QED BY <1>8, <2>1, <2>3, <2>4, CalledKeeps DEF Tokenizers
<1>9. ASSUME n = 0, Fits(d, Size(d) + Size(s) - 1), Apart(d, Size(d) + Size(s) - 1, s, Size(s)),
             Called("strcat", d, s, n, Strcat(st.m, d, s), d)
      PROVE  StringsInv'
  <2>1. /\ st'.fn = "strcat" /\ st'.m = Strcat(st.m, d, s) /\ st'.old = st.old
        /\ st'.d = d /\ st'.s = s /\ st'.n = n /\ st'.ret = d
    BY <1>9 DEF Called, Answers
  <2>2. Wrote(st.old, st'.m, d, StrAt(st.old, d) \o StrAt(st.old, s) \o <<0>>)
    BY <1>9, <2>1, <1>1, <1>2, <1>4, StrcatIs DEF Fits, Size
  <2>3. CopiesExact'
    BY <2>1, <2>2 DEF CopiesExact, WroteOnly, Wrote
  <2>4. ReadsExact'
    BY <2>1 DEF ReadsExact
  <2>. QED BY <1>9, <2>1, <2>3, <2>4, CalledKeeps DEF Tokenizers
<1>10. ASSUME Fits(d, more), Apart(d, more, s, Size(s)),
             Called("strncat", d, s, n, Strncat(st.m, d, s, n), d)
      PROVE  StringsInv'
  <2>1. /\ st'.fn = "strncat" /\ st'.m = Strncat(st.m, d, s, n) /\ st'.old = st.old
        /\ st'.d = d /\ st'.s = s /\ st'.n = n /\ st'.ret = d
    BY <1>10 DEF Called, Answers
  <2>2. Wrote(st.old, st'.m, d, StrAt(st.old, d) \o FirstOf(StrAt(st.old, s), n) \o <<0>>)
    BY <1>10, <2>1, <1>1, <1>2, <1>5, StrncatIs DEF Fits, Size
  <2>3. CopiesExact'
    BY <2>1, <2>2 DEF CopiesExact, WroteOnly, Wrote
  <2>4. ReadsExact'
    BY <2>1 DEF ReadsExact
  <2>. QED BY <1>10, <2>1, <2>3, <2>4, CalledKeeps DEF Tokenizers
<1>11. ASSUME Fits(d, n), Fits(s, n), Apart(d, n, s, n),
             Called("memcpy", d, s, n, Memcpy(st.m, d, s, n), d)
      PROVE  StringsInv'
  <2>1. /\ st'.fn = "memcpy" /\ st'.m = Memcpy(st.m, d, s, n) /\ st'.old = st.old
        /\ st'.d = d /\ st'.s = s /\ st'.n = n /\ st'.ret = d
    BY <1>11 DEF Called, Answers
  <2>2. Wrote(st.old, st'.m, d, Bytes(st.old, s, n))
    <3>1. Safe(d, s, n)
      BY <1>11 DEF Fits, Safe
    <3>2. st.m \in Mem /\ s + n <= MemSize
      BY <1>1, <1>11 DEF Fits, Terminated
    <3>. QED BY <1>1, <1>2, <2>1, <3>1, <3>2, MemcpyIs, BlockWrites
  <2>3. CopiesExact'
    BY <2>1, <2>2 DEF CopiesExact, WroteOnly, Wrote
  <2>4. ReadsExact'
    BY <2>1 DEF ReadsExact
  <2>. QED BY <1>11, <2>1, <2>3, <2>4, CalledKeeps DEF Tokenizers
<1>12. ASSUME Fits(d, n), Fits(s, n),
             Called("memmove", d, s, n, Memmove(st.m, d, s, n), d)
      PROVE  StringsInv'
  <2>1. /\ st'.fn = "memmove" /\ st'.m = Memmove(st.m, d, s, n) /\ st'.old = st.old
        /\ st'.d = d /\ st'.s = s /\ st'.n = n /\ st'.ret = d
    BY <1>12 DEF Called, Answers
  <2>2. Wrote(st.old, st'.m, d, Bytes(st.old, s, n))
    <3>1. st.m \in Mem /\ s + n <= MemSize /\ d + n <= MemSize
      BY <1>1, <1>12 DEF Fits, Terminated
    <3>. QED BY <1>1, <1>2, <2>1, <3>1, MemmoveIs, BlockWrites
  <2>3. CopiesExact'
    BY <2>1, <2>2 DEF CopiesExact, WroteOnly, Wrote
  <2>4. ReadsExact'
    BY <2>1 DEF ReadsExact
  <2>. QED BY <1>12, <2>1, <2>3, <2>4, CalledKeeps DEF Tokenizers
<1>. QED BY <1>6, <1>7, <1>8, <1>9, <1>10, <1>11, <1>12 DEF Copying, some, more

(* Each change does what it is for.                                        *)
LEMMA ChangesStep ==
  ASSUME StringsInv, Changes
  PROVE  StringsInv'
<1>1. st.m = st.old /\ Terminated(st.old) /\ st.m \in Mem
  BY DEF StringsInv, Changes, Terminated
<1>2. ASSUME NEW d \in Addr, NEW c \in Chars, NEW n \in 0 .. MemSize,
             Fits(d, n), Called("memset", d, c, n, Memset(st.m, d, c, n), d)
      PROVE  StringsInv'
  <2>1. /\ st'.fn = "memset" /\ st'.m = Memset(st.m, d, c, n) /\ st'.old = st.old
        /\ st'.d = d /\ st'.s = c /\ st'.n = n
    BY <1>2 DEF Called, Answers
  <2>2. Wrote(st.old, st'.m, d, [k \in 1 .. n |-> c])
    <3>1. d \in Nat /\ n \in Nat
      BY Bytes0
    <3>. QED BY <1>1, <2>1, <3>1, MemsetWrites
  <2>3. CopiesExact'
    BY <2>1, <2>2 DEF CopiesExact, WroteOnly, Wrote
  <2>4. ReadsExact'
    BY <2>1 DEF ReadsExact
  <2>. QED BY <1>2, <2>1, <2>3, <2>4, CalledKeeps DEF Tokenizers
<1>3. ASSUME NEW d \in Addr,
             Called("strswab", d, 0, 0, Strswab(st.m, d), IF st.m[d] = 0 THEN Null ELSE d)
      PROVE  StringsInv'
  <2>1. /\ st'.fn = "strswab" /\ st'.m = Strswab(st.m, d) /\ st'.old = st.old /\ st'.d = d
    BY <1>3 DEF Called, Answers
  <2>2. Wrote(st.old, st'.m, d, InPairs(StrAt(st.old, d)))
    BY <1>1, <2>1, StrswabWrites
  <2>3. CopiesExact'
    BY <2>1, <2>2 DEF CopiesExact, WroteOnly, Wrote, InPairs
  <2>4. ReadsExact'
    BY <2>1 DEF ReadsExact
  <2>. QED BY <1>3, <2>1, <2>3, <2>4, CalledKeeps DEF Tokenizers
<1>4. ASSUME NEW d \in Addr,
             Called("strim", d, 0, 0, Strim(st.m, d), SkipSpaces(st.m, d))
      PROVE  StringsInv'
  <2>1. /\ st'.fn = "strim" /\ st'.m = Strim(st.m, d) /\ st'.old = st.old /\ st'.d = d
        /\ st'.ret = SkipSpaces(st.m, d)
    BY <1>4 DEF Called, Answers
  <2>2. /\ StrAt(st'.m, st'.ret)
             = IF Solid(StrAt(st.old, d)) = {} THEN <<>>
               ELSE SubSeq(StrAt(st.old, d), Least(Solid(StrAt(st.old, d))),
                           CHOOSE k \in Solid(StrAt(st.old, d)) :
                             \A j \in Solid(StrAt(st.old, d)) : j <= k)
        /\ \A x \in Addr : st'.m[x] # st.old[x] => st'.m[x] = 0
    <3>1. /\ StrAt(Strim(st.old, d), SkipSpaces(st.old, d))
               = IF Solid(StrAt(st.old, d)) = {} THEN <<>>
                 ELSE SubSeq(StrAt(st.old, d), Least(Solid(StrAt(st.old, d))),
                             CHOOSE k \in Solid(StrAt(st.old, d)) :
                               \A j \in Solid(StrAt(st.old, d)) : j <= k)
          /\ \A x \in Addr : Strim(st.old, d)[x] # st.old[x] => Strim(st.old, d)[x] = 0
      BY <1>1, StrimIs
    <3>. QED BY <1>1, <2>1, <3>1
  <2>3. CopiesExact'
    BY <2>1, <2>2 DEF CopiesExact, Solid
  <2>4. ReadsExact'
    BY <2>1 DEF ReadsExact
  <2>. QED BY <1>4, <2>1, <2>3, <2>4, CalledKeeps DEF Tokenizers
<1>. QED BY <1>2, <1>3, <1>4 DEF Changes

(* Each comparison tells whether the texts are the same.                   *)
LEMMA ComparesStep ==
  ASSUME StringsInv, Compares
  PROVE  StringsInv'
<1>1. st.m = st.old /\ Terminated(st.old) /\ st.m \in Mem
  BY DEF StringsInv, Compares, Terminated
<1>2. ASSUME NEW a \in Addr, NEW b \in Addr, NEW n \in 0 .. MemSize, n = 0, 
             Called("strcmp", a, b, n, st.m, Strcmp(st.m, a, b))
      PROVE  StringsInv'
  <2>1. /\ st'.fn = "strcmp" /\ st'.m = st.m /\ st'.old = st.old
        /\ st'.d = a /\ st'.s = b /\ st'.n = n /\ st'.ret = Strcmp(st.m, a, b)
    BY <1>2 DEF Called, Answers
  <2>2. st'.ret = 0 <=> StrAt(st.old, a) = StrAt(st.old, b)
    <3>1. n \in Nat
      BY Bytes0
    <3>. QED BY <1>1, <2>1, <3>1, StrcmpIs
  <2>3. CopiesExact'
    BY <2>1 DEF CopiesExact
  <2>4. ReadsExact'
    BY <2>1, <2>2 DEF ReadsExact
  <2>. QED BY <1>2, <2>1, <2>3, <2>4, CalledKeeps DEF Tokenizers
<1>3. ASSUME NEW a \in Addr, NEW b \in Addr, NEW n \in 0 .. MemSize,
             Called("strncmp", a, b, n, st.m, Strncmp(st.m, a, b, n))
      PROVE  StringsInv'
  <2>1. /\ st'.fn = "strncmp" /\ st'.m = st.m /\ st'.old = st.old
        /\ st'.d = a /\ st'.s = b /\ st'.n = n /\ st'.ret = Strncmp(st.m, a, b, n)
    BY <1>3 DEF Called, Answers
  <2>2. st'.ret = 0 <=> FirstOf(StrAt(st.old, a), n) = FirstOf(StrAt(st.old, b), n)
    <3>1. n \in Nat
      BY Bytes0
    <3>. QED BY <1>1, <2>1, <3>1, StrncmpIs
  <2>3. CopiesExact'
    BY <2>1 DEF CopiesExact
  <2>4. ReadsExact'
    BY <2>1, <2>2 DEF ReadsExact
  <2>. QED BY <1>3, <2>1, <2>3, <2>4, CalledKeeps DEF Tokenizers
<1>4. ASSUME NEW a \in Addr, NEW b \in Addr, NEW n \in 0 .. MemSize, n = 0, 
             Called("strcasecmp", a, b, n, st.m, Strcasecmp(st.m, a, b))
      PROVE  StringsInv'
  <2>1. /\ st'.fn = "strcasecmp" /\ st'.m = st.m /\ st'.old = st.old
        /\ st'.d = a /\ st'.s = b /\ st'.n = n /\ st'.ret = Strcasecmp(st.m, a, b)
    BY <1>4 DEF Called, Answers
  <2>2. st'.ret = 0 <=> Lowered(StrAt(st.old, a)) = Lowered(StrAt(st.old, b))
    <3>1. n \in Nat
      BY Bytes0
    <3>. QED BY <1>1, <2>1, <3>1, StrcasecmpIs
  <2>3. CopiesExact'
    BY <2>1 DEF CopiesExact
  <2>4. ReadsExact'
    BY <2>1, <2>2 DEF ReadsExact
  <2>. QED BY <1>4, <2>1, <2>3, <2>4, CalledKeeps DEF Tokenizers
<1>5. ASSUME NEW a \in Addr, NEW b \in Addr, NEW n \in 0 .. MemSize, n > 0, 
             Called("strncasecmp", a, b, n, st.m, Strncasecmp(st.m, a, b, n))
      PROVE  StringsInv'
  <2>1. /\ st'.fn = "strncasecmp" /\ st'.m = st.m /\ st'.old = st.old
        /\ st'.d = a /\ st'.s = b /\ st'.n = n /\ st'.ret = Strncasecmp(st.m, a, b, n)
    BY <1>5 DEF Called, Answers
  <2>2. st'.ret = 0 <=> Lowered(FirstOf(StrAt(st.old, a), n)) = Lowered(FirstOf(StrAt(st.old, b), n))
    <3>1. n \in Nat /\ n # 0
      BY <1>5, Bytes0
    <3>. QED BY <1>1, <2>1, <3>1, StrncasecmpIs
  <2>3. CopiesExact'
    BY <2>1 DEF CopiesExact
  <2>4. ReadsExact'
    BY <2>1, <2>2 DEF ReadsExact
  <2>. QED BY <1>5, <2>1, <2>3, <2>4, CalledKeeps DEF Tokenizers
<1>6. ASSUME NEW a \in Addr, NEW b \in Addr, NEW n \in 0 .. MemSize,
             Called("strnicmp", a, b, n, st.m, Strnicmp(st.m, a, b, n))
      PROVE  StringsInv'
  <2>1. /\ st'.fn = "strnicmp" /\ st'.m = st.m /\ st'.old = st.old
        /\ st'.d = a /\ st'.s = b /\ st'.n = n /\ st'.ret = Strnicmp(st.m, a, b, n)
    BY <1>6 DEF Called, Answers
  <2>2. st'.ret = 0 <=> Lowered(FirstOf(StrAt(st.old, a), n)) = Lowered(FirstOf(StrAt(st.old, b), n))
    <3>1. n \in Nat
      BY Bytes0
    <3>. QED BY <1>1, <2>1, <3>1, StrnicmpIs
  <2>3. CopiesExact'
    BY <2>1 DEF CopiesExact
  <2>4. ReadsExact'
    BY <2>1, <2>2 DEF ReadsExact
  <2>. QED BY <1>6, <2>1, <2>3, <2>4, CalledKeeps DEF Tokenizers
<1>7. ASSUME NEW a \in Addr, NEW b \in Addr, NEW n \in 0 .. MemSize, Fits(a, n), Fits(b, n),
             Called("memcmp", a, b, n, st.m, Memcmp(st.m, a, b, n))
      PROVE  StringsInv'
  <2>1. /\ st'.fn = "memcmp" /\ st'.m = st.m /\ st'.old = st.old
        /\ st'.d = a /\ st'.s = b /\ st'.n = n /\ st'.ret = Memcmp(st.m, a, b, n)
    BY <1>7 DEF Called, Answers
  <2>2. LET differ == Least({k \in 0 .. n - 1 : st.m[a + k] # st.m[b + k]})
        IN IF differ = Null THEN st'.ret = 0
           ELSE (st'.ret > 0) <=> st.m[a + differ] > st.m[b + differ]
    <3>1. a \in Nat /\ b \in Nat /\ n \in Nat /\ a + n <= MemSize /\ b + n <= MemSize
      BY <1>7, Bytes0 DEF Fits
    <3>. DEFINE differ == Least({k \in 0 .. n - 1 : st.m[a + k] # st.m[b + k]})
    <3>2. IF differ = Null THEN Memcmp(st.m, a, b, n) = 0
          ELSE (Memcmp(st.m, a, b, n) > 0) <=> st.m[a + differ] > st.m[b + differ]
      BY <1>1, <3>1, MemcmpTells
    <3>. QED BY <2>1, <3>2
  <2>3. CopiesExact'
    BY <2>1 DEF CopiesExact
  <2>4. ReadsExact'
    BY <2>1, <2>2 DEF ReadsExact
  <2>. QED BY <1>7, <2>1, <2>3, <2>4, CalledKeeps DEF Tokenizers
<1>. QED BY <1>2, <1>3, <1>4, <1>5, <1>6, <1>7 DEF Compares

(* Each search finds what it is for.                                       *)
LEMMA SearchesStep ==
  ASSUME StringsInv, Searches
  PROVE  StringsInv'
<1>1. st.m = st.old /\ Terminated(st.old) /\ st.m \in Mem
  BY DEF StringsInv, Searches, Terminated
<1>2. ASSUME NEW a \in Addr, NEW b \in Addr, Called("strstr", a, b, 0, st.m, Strstr(st.m, a, b))
      PROVE  StringsInv'
  <2>1. /\ st'.fn = "strstr" /\ st'.m = st.m /\ st'.old = st.old
        /\ st'.d = a /\ st'.s = b /\ st'.ret = Strstr(st.m, a, b)
    BY <1>2 DEF Called, Answers
  <2>2. st'.ret = Least({p \in a .. a + Len(StrAt(st.old, a)) :
                          /\ p + Len(StrAt(st.old, b)) <= a + Len(StrAt(st.old, a))
                          /\ Bytes(st.m, p, Len(StrAt(st.old, b))) = StrAt(st.old, b)})
    BY <1>1, <2>1, StrstrIs, StrIs
  <2>3. CopiesExact'
    BY <2>1 DEF CopiesExact
  <2>4. ReadsExact'
    BY <2>1, <2>2 DEF ReadsExact, Letters
  <2>. QED BY <1>2, <2>1, <2>3, <2>4, CalledKeeps DEF Tokenizers
<1>3. ASSUME NEW a \in Addr, NEW b \in Addr, Called("strspn", a, b, 0, st.m, Strspn(st.m, a, b))
      PROVE  StringsInv'
  <2>1. /\ st'.fn = "strspn" /\ st'.m = st.m /\ st'.old = st.old
        /\ st'.d = a /\ st'.s = b /\ st'.ret = Strspn(st.m, a, b)
    BY <1>3 DEF Called, Answers
  <2>2. st'.ret = Least({k \in 0 .. Len(StrAt(st.old, a)) :
                          \/ k = Len(StrAt(st.old, a))
                          \/ StrAt(st.old, a)[k + 1] \notin Letters(StrAt(st.old, b))})
    BY <1>1, <2>1, StrspnIs
  <2>3. CopiesExact'
    BY <2>1 DEF CopiesExact
  <2>4. ReadsExact'
    BY <2>1, <2>2 DEF ReadsExact, Letters
  <2>. QED BY <1>3, <2>1, <2>3, <2>4, CalledKeeps DEF Tokenizers
<1>4. ASSUME NEW a \in Addr, NEW b \in Addr, Called("strpbrk", a, b, 0, st.m, Strpbrk(st.m, a, b))
      PROVE  StringsInv'
  <2>1. /\ st'.fn = "strpbrk" /\ st'.m = st.m /\ st'.old = st.old
        /\ st'.d = a /\ st'.s = b /\ st'.ret = Strpbrk(st.m, a, b)
    BY <1>4 DEF Called, Answers
  <2>2. st'.ret = Least({p \in a .. a + Len(StrAt(st.old, a)) :
                          st.m[p] \in Letters(StrAt(st.old, b))})
    BY <1>1, <2>1, StrpbrkIs, StrIs
  <2>3. CopiesExact'
    BY <2>1 DEF CopiesExact
  <2>4. ReadsExact'
    BY <2>1, <2>2 DEF ReadsExact, Letters
  <2>. QED BY <1>4, <2>1, <2>3, <2>4, CalledKeeps DEF Tokenizers
<1>5. ASSUME NEW a \in Addr, NEW c \in Chars, NEW n \in 0 .. MemSize, n = 0,
             Called("strchr", a, c, n, st.m, Strchr(st.m, a, c))
      PROVE  StringsInv'
  <2>1. /\ st'.fn = "strchr" /\ st'.m = st.m /\ st'.old = st.old
        /\ st'.d = a /\ st'.s = c /\ st'.n = n /\ st'.ret = Strchr(st.m, a, c)
    BY <1>5 DEF Called, Answers
  <2>2. st'.ret = Least({p \in a .. a + Len(StrAt(st.old, a)) : st.m[p] = c})
    BY <1>1, <2>1, StrchrIs, StrIs
  <2>3. CopiesExact'
    BY <2>1 DEF CopiesExact
  <2>4. ReadsExact'
    BY <2>1, <2>2 DEF ReadsExact
  <2>. QED BY <1>5, <2>1, <2>3, <2>4, CalledKeeps DEF Tokenizers
<1>6. ASSUME NEW a \in Addr, NEW c \in Chars, NEW n \in 0 .. MemSize, n = 0,
             Called("strrchr", a, c, n, st.m, Strrchr(st.m, a, c))
      PROVE  StringsInv'
  <2>1. /\ st'.fn = "strrchr" /\ st'.m = st.m /\ st'.old = st.old
        /\ st'.d = a /\ st'.s = c /\ st'.n = n /\ st'.ret = Strrchr(st.m, a, c)
    BY <1>6 DEF Called, Answers
  <2>2. IF \E p \in a .. a + Len(StrAt(st.old, a)) : st.m[p] = c
        THEN /\ st.m[st'.ret] = c
             /\ \A p \in a .. a + Len(StrAt(st.old, a)) : st.m[p] = c => p <= st'.ret
        ELSE st'.ret = Null
    BY <1>1, <2>1, StrrchrIs, StrIs
  <2>3. CopiesExact'
    BY <2>1 DEF CopiesExact
  <2>4. ReadsExact'
    BY <2>1, <2>2 DEF ReadsExact
  <2>. QED BY <1>6, <2>1, <2>3, <2>4, CalledKeeps DEF Tokenizers
<1>7. ASSUME NEW a \in Addr, NEW c \in Chars, NEW n \in 0 .. MemSize, c = 0, Fits(a, n),
             Called("strnlen", a, c, n, st.m, Strnlen(st.m, a, n))
      PROVE  StringsInv'
  <2>1. /\ st'.fn = "strnlen" /\ st'.m = st.m /\ st'.old = st.old
        /\ st'.d = a /\ st'.s = c /\ st'.n = n /\ st'.ret = Strnlen(st.m, a, n)
    BY <1>7 DEF Called, Answers
  <2>2. st'.ret = Len(FirstOf(StrAt(st.old, a), n))
    <3>1. a \in Nat /\ n \in Nat /\ a + n <= MemSize
      BY <1>7, Bytes0 DEF Fits
    <3>. QED BY <1>1, <2>1, <3>1, StrnlenIs
  <2>3. CopiesExact'
    BY <2>1 DEF CopiesExact
  <2>4. ReadsExact'
    BY <2>1, <2>2 DEF ReadsExact
  <2>. QED BY <1>7, <2>1, <2>3, <2>4, CalledKeeps DEF Tokenizers
<1>8. ASSUME NEW a \in Addr, NEW c \in Chars, NEW n \in 0 .. MemSize, Fits(a, n),
             Called("memchr", a, c, n, st.m, Memchr(st.m, a, c, n))
      PROVE  StringsInv'
  <2>1. /\ st'.fn = "memchr" /\ st'.m = st.m /\ st'.old = st.old
        /\ st'.d = a /\ st'.s = c /\ st'.n = n /\ st'.ret = Memchr(st.m, a, c, n)
    BY <1>8 DEF Called, Answers
  <2>2. st'.ret = Least({p \in a .. a + n - 1 : st.m[p] = c})
    <3>1. a \in Nat /\ n \in Nat /\ a + n <= MemSize
      BY <1>8, Bytes0 DEF Fits
    <3>2. /\ Memchr(st.m, a, c, n) = Least(Places(st.m, a, n, c))
          /\ Memscan(st.m, a, c, n) = Least(Places(st.m, a, n, c) \cup {a + n})
      BY <1>1, <3>1, MemchrIs
    <3>. QED BY <2>1, <3>2 DEF Places
  <2>3. CopiesExact'
    BY <2>1 DEF CopiesExact
  <2>4. ReadsExact'
    BY <2>1, <2>2 DEF ReadsExact
  <2>. QED BY <1>8, <2>1, <2>3, <2>4, CalledKeeps DEF Tokenizers
<1>9. ASSUME NEW a \in Addr, NEW c \in Chars, NEW n \in 0 .. MemSize, Fits(a, n),
             Called("memscan", a, c, n, st.m, Memscan(st.m, a, c, n))
      PROVE  StringsInv'
  <2>1. /\ st'.fn = "memscan" /\ st'.m = st.m /\ st'.old = st.old
        /\ st'.d = a /\ st'.s = c /\ st'.n = n /\ st'.ret = Memscan(st.m, a, c, n)
    BY <1>9 DEF Called, Answers
  <2>2. st'.ret = Least({p \in a .. a + n - 1 : st.m[p] = c} \cup {a + n})
    <3>1. a \in Nat /\ n \in Nat /\ a + n <= MemSize
      BY <1>9, Bytes0 DEF Fits
    <3>2. Memscan(st.m, a, c, n) = Least(Places(st.m, a, n, c) \cup {a + n})
      BY <1>1, <3>1, MemchrIs
    <3>. QED BY <2>1, <3>2 DEF Places
  <2>3. CopiesExact'
    BY <2>1 DEF CopiesExact
  <2>4. ReadsExact'
    BY <2>1, <2>2 DEF ReadsExact
  <2>. QED BY <1>9, <2>1, <2>3, <2>4, CalledKeeps DEF Tokenizers
<1>10. ASSUME NEW a \in Addr, NEW c \in Chars, NEW n \in 0 .. MemSize, Fits(a, n),
             Called("memchr_inv", a, c, n, st.m, MemchrInv(st.m, a, c, n))
      PROVE  StringsInv'
  <2>1. /\ st'.fn = "memchr_inv" /\ st'.m = st.m /\ st'.old = st.old
        /\ st'.d = a /\ st'.s = c /\ st'.n = n /\ st'.ret = MemchrInv(st.m, a, c, n)
    BY <1>10 DEF Called, Answers
  <2>2. st'.ret = Least({p \in a .. a + n - 1 : st.m[p] # c})
    <3>1. a \in Nat /\ n \in Nat /\ a + n <= MemSize
      BY <1>10, Bytes0 DEF Fits
    <3>. QED BY <1>1, <2>1, <3>1, MemchrInvIs
  <2>3. CopiesExact'
    BY <2>1 DEF CopiesExact
  <2>4. ReadsExact'
    BY <2>1, <2>2 DEF ReadsExact
  <2>. QED BY <1>10, <2>1, <2>3, <2>4, CalledKeeps DEF Tokenizers
<1>. QED BY <1>2, <1>3, <1>4, <1>5, <1>6, <1>7, <1>8, <1>9, <1>10 DEF Searches

(* Before the first token nothing is given.                                *)
LEMMA TokensStart ==
  ASSUME NEW fn, NEW old, NEW d, NEW s, Called2(old, d, s)
  PROVE  AtPoint(fn, old, old, d, s, d, <<>>)
<1>1. Terminated(old) /\ old \in Mem /\ d \in Nat /\ Strlen(old, d) \in Nat
  BY StrlenIs, Bytes0 DEF Called2, Terminated
<1>2. d \in d .. End(old, d)
  BY <1>1 DEF End
<1>3. {q \in Starts(fn, old, d, s) : q < d} = {}
  <2>1. ASSUME NEW q \in Starts(fn, old, d, s) PROVE ~(q < d)
    <3>1. q \in d .. End(old, d)
      BY DEF Starts
    <3>. QED BY <1>1, <3>1
  <2>. QED BY <2>1
<1>4. Given(old, old, s, <<>>, {})
  BY DEF Given, ToSet
<1>. QED BY <1>1, <1>2, <1>3, <1>4 DEF AtPoint, OnlyCut

(* One call of a tokenizer.                                                *)
LEMMA TokenStep ==
  ASSUME StringsInv, NEW fn \in Tokenizers, NEW d, NEW s, NEW p, Called2(st.old, d, s),
         AtPoint(fn, st.m, st.old, d, s, p, st.toks), Token(fn, d, s, p)
  PROVE  StringsInv'
<1>. DEFINE b == IF fn = "strtok" THEN Skipped(st.m, p, s) ELSE p
            q == Strpbrk(st.m, b, s)
            over == fn = "strtok" /\ st.m[b] = 0
<1>1. fn \in {"strtok", "strsep"}
  BY DEF Tokenizers
<1>2. /\ b \in Addr
      /\ IF over THEN AtEnd(fn, st.m, st.old, d, s, st.toks)
         ELSE IF q = Null THEN AtEnd(fn, st.m, st.old, d, s, Append(st.toks, b))
         ELSE q \in Addr /\ AtPoint(fn, Store(st.m, q, 0), st.old, d, s, q + 1, Append(st.toks, b))
  BY <1>1, TokenTaken
<1>3. IF over THEN Answers(fn, d, s, 0, st.m, Null, Null, st.toks)
      ELSE Answers(fn, d, s, 0, IF q = Null THEN st.m ELSE Store(st.m, q, 0), b,
                   IF q = Null THEN Null ELSE q + 1, Append(st.toks, b))
  BY DEF Token, Cut, Skipped
<1>4. b # Null
  <2>1. b \in Nat
    BY <1>2, Bytes0
  <2>. QED BY <2>1 DEF Null
<1>. HIDE DEF b, q, over
<1>5. /\ st'.fn = fn /\ st'.old = st.old /\ st'.d = d /\ st'.s = s
  BY <1>3 DEF Answers
<1>6. TokensGo'
  <2>1. CASE over
    <3>1. st'.m = st.m /\ st'.ret = Null /\ st'.next = Null /\ st'.toks = st.toks
      BY <1>3, <2>1 DEF Answers
    <3>. QED BY <1>2, <1>5, <2>1, <3>1 DEF TokensGo
  <2>2. CASE ~over /\ q = Null
    <3>1. st'.m = st.m /\ st'.ret = b /\ st'.next = Null /\ st'.toks = Append(st.toks, b)
      BY <1>3, <2>2 DEF Answers
    <3>. QED BY <1>2, <1>5, <2>2, <3>1 DEF TokensGo
  <2>3. CASE ~over /\ q # Null
    <3>1. /\ st'.m = Store(st.m, q, 0) /\ st'.ret = b /\ st'.next = q + 1
          /\ st'.toks = Append(st.toks, b)
      BY <1>3, <2>3 DEF Answers
    <3>2. q + 1 # Null
      <4>1. q \in Nat
        BY <1>2, <2>3, Bytes0
      <4>. QED BY <4>1 DEF Null
    <3>. QED BY <1>2, <1>4, <1>5, <2>3, <3>1, <3>2 DEF TokensGo
  <2>. QED BY <2>1, <2>2, <2>3
<1>7. CopiesExact'
  BY <1>1, <1>5 DEF CopiesExact
<1>8. ReadsExact'
  BY <1>1, <1>5 DEF ReadsExact
<1>9. ~Fresh' /\ Terminated(st'.old)
  BY <1>1, <1>5 DEF Fresh, StringsInv
<1>. QED BY <1>6, <1>7, <1>8, <1>9 DEF StringsInv

(* The first call of strtok() or strsep() preserves the invariant.         *)
LEMMA TokenFirstStep ==
  ASSUME StringsInv, TokenFirst
  PROVE  StringsInv'
<1>1. st.m = st.old /\ st.toks = <<>> /\ Terminated(st.old)
  BY DEF StringsInv, TokenFirst
<1>2. ASSUME NEW d \in Addr, NEW s \in Addr, NEW fn \in {"strtok", "strsep"},
             Apart(d, Size(d), s, Size(s)), Token(fn, d, s, d)
      PROVE  StringsInv'
  <2>1. Called2(st.old, d, s)
    BY <1>1, <1>2 DEF Called2, Size
  <2>2. AtPoint(fn, st.m, st.old, d, s, d, st.toks)
    BY <1>1, <2>1, TokensStart
  <2>3. fn \in Tokenizers
    BY DEF Tokenizers
  <2>. QED BY <1>2, <2>1, <2>2, <2>3, TokenStep
<1>. QED BY <1>2 DEF TokenFirst

(* A later call of strtok() or strsep() preserves the invariant.           *)
LEMMA TokenNextStep ==
  ASSUME StringsInv, TokenNext
  PROVE  StringsInv'
<1>1. st.fn \in Tokenizers /\ TokensGo
  BY DEF StringsInv, TokenNext, Tokenizers
<1>2. CASE st.next = Null
  <2>1. /\ st'.fn = st.fn /\ st'.m = st.m /\ st'.old = st.old /\ st'.d = st.d /\ st'.s = st.s
        /\ st'.ret = Null /\ st'.next = Null /\ st'.toks = st.toks
    BY <1>2 DEF TokenNext, Answers
  <2>2. TokensGo'
    BY <1>1, <1>2, <2>1 DEF TokensGo
  <2>3. CopiesExact'
    BY <1>1, <2>1 DEF CopiesExact, Tokenizers
  <2>4. ReadsExact'
    BY <1>1, <2>1 DEF ReadsExact, Tokenizers
  <2>5. ~Fresh' /\ Terminated(st'.old)
    BY <1>1, <2>1 DEF Fresh, StringsInv, Tokenizers
  <2>. QED BY <2>2, <2>3, <2>4, <2>5 DEF StringsInv
<1>3. CASE st.next # Null
  <2>1. Token(st.fn, st.d, st.s, st.next)
    BY <1>3 DEF TokenNext
  <2>2. Called2(st.old, st.d, st.s) /\ AtPoint(st.fn, st.m, st.old, st.d, st.s, st.next, st.toks)
    BY <1>1, <1>3 DEF TokensGo
  <2>. QED BY <1>1, <2>1, <2>2, TokenStep
<1>. QED BY <1>2, <1>3

(* What the tokens given are, of the memory itself.                        *)
LEMMA TokensInv ==
  ASSUME StringsInv
  PROVE  TokensExact
<1>. DEFINE seps == Seps(st.old, st.s)
            starts == Starts(st.fn, st.old, st.d, st.s)
            last == st.d + Strlen(st.old, st.d)
<1>1. SUFFICES ASSUME st.fn \in {"strtok", "strsep"}
               PROVE  /\ \A x \in Addr : st.m[x] # st.old[x]
                                           => x \in seps /\ x \in st.d .. last /\ st.m[x] = 0
                      /\ \A k \in 1 .. Len(st.toks) :
                           /\ st.toks[k] \in starts
                           /\ k > 1 => st.toks[k] > st.toks[k - 1]
                           /\ \A x \in st.toks[k] .. st.toks[k] + Strlen(st.m, st.toks[k]) - 1 :
                                x \notin seps
                      /\ st.ret = Null => ToSet(st.toks) = starts
  BY DEF TokensExact, Seps, Starts, End
<1>2. TokensGo
  BY <1>1 DEF StringsInv, Tokenizers
<1>3. Called2(st.old, st.d, st.s) /\ OnlyCut(st.m, st.old, st.d, st.s)
  BY <1>2 DEF TokensGo, AtEnd, AtPoint
<1>4. PICK S \in SUBSET starts : /\ Given(st.m, st.old, st.s, st.toks, S)
                                 /\ st.ret = Null => S = starts
  <2>1. CASE st.next = Null
    BY <1>2, <2>1 DEF TokensGo, AtEnd
  <2>2. CASE st.next # Null
    BY <1>2, <2>2 DEF TokensGo, AtPoint
  <2>. QED BY <2>1, <2>2
<1>5. \A x \in Addr : st.m[x] # st.old[x] => x \in seps /\ x \in st.d .. last /\ st.m[x] = 0
  BY <1>3 DEF OnlyCut, End
<1>6. Terminated(st.m)
  BY <1>3, SepsStay
<1>. HIDE DEF seps, starts
<1>7. ASSUME NEW k \in 1 .. Len(st.toks)
      PROVE  /\ st.toks[k] \in starts
             /\ k > 1 => st.toks[k] > st.toks[k - 1]
             /\ \A x \in st.toks[k] .. st.toks[k] + Strlen(st.m, st.toks[k]) - 1 : x \notin seps
  <2>1. /\ st.toks \in Seq(Addr) /\ st.toks[k] \in Addr /\ st.toks[k] \in S
        /\ Whole(st.m, st.old, st.s, st.toks[k])
    BY <1>4 DEF Given, ToSet
  <2>2. k > 1 => st.toks[k] > st.toks[k - 1]
    <3>1. Len(st.toks) \in Nat
      BY <2>1
    <3>2. k > 1 => k \in 2 .. Len(st.toks)
      BY <3>1
    <3>. QED BY <1>4, <3>2 DEF Given
  <2>. DEFINE t == st.toks[k]
  <2>3. PICK z \in Addr : t <= z /\ st.m[z] = 0 /\ \A x \in t .. z - 1 : x \notin seps
    BY <2>1 DEF Whole, seps
  <2>4. /\ Strlen(st.m, t) \in Nat /\ t \in Nat /\ z \in Nat
        /\ \A x \in t .. t + Strlen(st.m, t) - 1 : st.m[x] # 0
    BY <1>6, <2>1, StrlenIs, Bytes0 DEF NonNul
  <2>. HIDE DEF t
  <2>5. t + Strlen(st.m, t) <= z
    <3>1. ~(z \in t .. t + Strlen(st.m, t) - 1)
      BY <2>3, <2>4
    <3>. QED BY <2>3, <2>4, <3>1
  <2>6. \A x \in t .. t + Strlen(st.m, t) - 1 : x \notin seps
    BY <2>3, <2>4, <2>5
  <2>. QED BY <2>1, <2>2, <2>6 DEF t
<1>8. st.ret = Null => ToSet(st.toks) = starts
  BY <1>4 DEF Given
<1>. QED BY <1>5, <1>7, <1>8

(* Whatever a function of string.c is called with, it does what it is for, *)
(* in a memory of any size and for any characters.                         *)
THEOREM StringsHold == StringsSpec => []StringsExact
<1>1. StringsInit => StringsInv
  <2>1. SUFFICES ASSUME NEW m \in Mem, m[MemSize - 1] = 0, st = Holding(m) PROVE StringsInv
    BY DEF StringsInit
  <2>2. st.fn = "none" /\ st.m = m /\ st.old = m /\ st.toks = <<>>
    BY <2>1 DEF Holding
  <2>3. CopiesExact /\ ReadsExact
    BY <2>2 DEF CopiesExact, ReadsExact
  <2>. QED BY <2>1, <2>2, <2>3 DEF StringsInv, Terminated, Tokenizers
<1>2. StringsInv /\ [StringsNext]_st => StringsInv'
  <2>1. ASSUME StringsInv, StringsNext PROVE StringsInv'
    BY <2>1, CopiesStep, ChangesStep, ComparesStep, SearchesStep, TokenFirstStep, TokenNextStep
       DEF StringsNext
  <2>2. ASSUME StringsInv, UNCHANGED st PROVE StringsInv'
    <3>1. CopiesExact'
      BY <2>2 DEF StringsInv, CopiesExact, WroteOnly
    <3>2. ReadsExact'
      BY <2>2 DEF StringsInv, ReadsExact
    <3>3. st'.fn \in Tokenizers => TokensGo'
      BY <2>2 DEF StringsInv, TokensGo
    <3>4. Terminated(st'.old) /\ (Fresh' => st'.m = st'.old /\ st'.toks = <<>>)
      BY <2>2 DEF StringsInv, Fresh
    <3>. QED BY <3>1, <3>2, <3>3, <3>4 DEF StringsInv
  <2>. QED BY <2>1, <2>2
<1>3. StringsInv => StringsExact
  BY TokensInv DEF StringsExact, StringsInv
<1>. QED BY <1>1, <1>2, <1>3, PTL DEF StringsSpec
=============================================================================
