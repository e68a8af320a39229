----------------------------- MODULE CommandLoop ------------------------------
(***************************************************************************)
(* The interpreter of bus_spider.c: a line is read into cmdbuf, a cursor   *)
(* goes through it character by character, the mode chosen with 'm' takes  *)
(* the characters the general commands do not, and numbers are parsed by   *)
(* simple_strtoul().  cmdbuf keeps its bytes from one line to the next.    *)
(*                                                                         *)
(* readline() enters by what it promises its caller (LineEdit): the string *)
(* typed, a NUL behind it, the bytes behind that as they were; after ^C    *)
(* a NUL in front of what had been typed.                                  *)
(***************************************************************************)
EXTENDS Integers, Sequences

CONSTANTS Nul, Blank,
          General,     \* characters of commands that only print: h ? i v
          Mode, Boot,  \* the characters m, and # or $
          Digit,       \* the hexadecimal digits, a function to their values
          X,           \* the x of 0x
          Others,      \* further printable characters
          BufLen,      \* sizeof(cmdbuf), 100
          Junk,        \* what the stack may hold before the first line
          BusCommands, \* the one-character commands of each mode
          ModeNames,   \* mode_list: HiZ, I2C, SPI
          ModeLines    \* what may be typed at the mode prompt

Printable == {Blank, Mode, Boot, X} \cup General \cup DOMAIN Digit \cup Others
Char == Printable \cup {Nul}
HiZ == ModeNames[1]

ASSUME CharAssumption == Nul \notin Printable /\ Blank \notin DOMAIN Digit \cup {X}
ASSUME DigitAssumption == \A d \in DOMAIN Digit : Digit[d] \in 0 .. 15
ASSUME BufAssumption == BufLen \in Nat /\ BufLen >= 2 /\ Junk \subseteq Char
ASSUME ModeAssumption ==
  /\ Len(ModeNames) \in Nat \ {0} /\ DOMAIN ModeNames = 1 .. Len(ModeNames)
  /\ \A i \in DOMAIN ModeNames : BusCommands[ModeNames[i]] \subseteq Printable
  /\ BusCommands[HiZ] = {}

VARIABLES pc,      \* "prompt", "run", "mode" (its prompt), "boot"
          mode, cmdbuf, cur,
          seen,    \* auxiliary: positions of this line that were interpreted
          gone     \* auxiliary: positions that hold text of a discarded line

vars == <<pc, mode, cmdbuf, cur, seen, gone>>

Positions == 0 .. BufLen - 1

Init ==
  /\ pc = "prompt" /\ mode = HiZ /\ cmdbuf \in [Positions -> Junk]
  /\ cur = 0 /\ seen = {} /\ gone = {}

-----------------------------------------------------------------------------
(* simple_strtoul(s + i, &endp, 0).  Behind the array anything may follow; *)
(* a number that gets there takes the cursor outside (bus_spider.c:161     *)
(* does not look where it goes), which is all that is said of it.          *)

At(s, i) == IF i \in DOMAIN s THEN s[i] ELSE Nul
IsZero(ch) == ch \in DOMAIN Digit /\ Digit[ch] = 0
Decimal(ch) == ch \in DOMAIN Digit /\ Digit[ch] < 10

HexBug(s, i) == IsZero(At(s, i)) /\ At(s, i + 1) = X     \* whatever follows the x
Hex(s, i) == IsZero(At(s, i)) /\ At(s, i + 1) = X /\ At(s, i + 2) \in DOMAIN Digit
Base(s, i) == IF Hex(s, i) THEN 16 ELSE IF IsZero(At(s, i)) THEN 8 ELSE 10
FirstDigit(s, i) == IF Hex(s, i) THEN i + 2 ELSE IF IsZero(At(s, i)) THEN i + 1 ELSE i
InNumber(s, i, k) == At(s, k) \in DOMAIN Digit /\ Digit[At(s, k)] < Base(s, i)

Endp(s, i) ==
  CHOOSE e \in FirstDigit(s, i) .. FirstDigit(s, i) + BufLen :
    /\ \A k \in FirstDigit(s, i) .. e - 1 : InNumber(s, i, k)
    /\ ~InNumber(s, i, e)

Strtoul(s) ==
  LET v[k \in 0 .. BufLen] ==
        IF k < FirstDigit(s, 0) \/ ~InNumber(s, 0, k - 1) THEN 0
        ELSE v[k - 1] * Base(s, 0) + Digit[At(s, k - 1)]
  IN  v[Endp(s, 0)]

-----------------------------------------------------------------------------
(* Reading a line, and discarding one. *)

EndOf(s) == CHOOSE e \in Positions : s[e] = Nul /\ \A i \in 0 .. e - 1 : s[i] # Nul

ReadLine(n) ==
  /\ pc = "prompt" /\ pc' = "run" /\ UNCHANGED <<mode, cur, seen>>
  /\ \E text \in [0 .. n - 1 -> Printable] :
       cmdbuf' = [i \in Positions |-> IF i < n THEN text[i]
                                      ELSE IF i = n THEN Nul ELSE cmdbuf[i]]
  /\ gone' = gone \ (0 .. n)

Discard(n) ==
  /\ pc = "prompt" /\ pc' = "run" /\ UNCHANGED <<mode, cur, seen>>
  /\ \E text \in [0 .. n - 1 -> Printable] :
       cmdbuf' = [i \in Positions |-> IF i = 0 THEN Nul
                                      ELSE IF i < n THEN text[i] ELSE cmdbuf[i]]
  /\ gone' = (gone \ {0}) \cup 1 .. n - 1

-----------------------------------------------------------------------------
(* The characters.  Whatever a command consumed, curchar++ follows.        *)

Here == cmdbuf[cur]
Running == pc = "run" /\ cur \in Positions /\ UNCHANGED <<cmdbuf, gone>>
MoveTo(k) == cur' = k /\ pc' = "run"
NextCharacter == seen' = seen \cup {cur} /\ MoveTo(cur + 1)

LeaveLine == pc' = "prompt" /\ cur' = 0 /\ seen' = {} /\ UNCHANGED mode

EndOfLine == Running /\ Here = Nul /\ LeaveLine

HarmlessBug ==                \* "continue" instead of "break"
  /\ Running /\ Here \in General \cup {Blank}
  /\ seen' = seen \cup {cur} /\ UNCHANGED <<pc, cur, mode>>
Harmless == Running /\ Here \in General \cup {Blank} /\ NextCharacter /\ UNCHANGED mode

Reboot == /\ Running /\ Here = Boot
          /\ pc' = "boot" /\ cur' = 0 /\ seen' = {} /\ UNCHANGED mode

(* The mode's parse_cmdline: HiZ has none. *)
BusCommand == Running /\ Here \in BusCommands[mode] /\ NextCharacter /\ UNCHANGED mode

BusNumberBug ==               \* the blank is stepped over twice
  /\ Running /\ mode # HiZ /\ Decimal(Here)
  /\ seen' = seen \cup cur .. Endp(cmdbuf, cur) - 1
  /\ MoveTo(Endp(cmdbuf, cur) + 2) /\ UNCHANGED mode
BusNumber == /\ Running /\ mode # HiZ /\ Decimal(Here)
             /\ seen' = seen \cup cur .. Endp(cmdbuf, cur) - 1
             /\ MoveTo(Endp(cmdbuf, cur) + 1) /\ UNCHANGED mode

SyntaxError ==
  /\ Running /\ Here \notin General \cup {Nul, Blank, Boot, Mode}
  /\ Here \notin BusCommands[mode] /\ (mode = HiZ \/ ~Decimal(Here))
  /\ LeaveLine

AskMode == /\ Running /\ Here = Mode
           /\ pc' = "mode" /\ UNCHANGED <<mode, cur, seen>>

(* change_mode(): the line read there is a number, or empty after ^C.      *)
ChangeMode(line) ==
  /\ pc = "mode"
  /\ LET moden == Strtoul([i \in 0 .. Len(line) - 1 |-> line[i + 1]])
     IN  mode' = IF moden \in 1 .. Len(ModeNames) THEN ModeNames[moden] ELSE mode
  /\ NextCharacter /\ UNCHANGED <<cmdbuf, gone>>

(* The boot loader may start the firmware again; RAM keeps its bytes.      *)
Restart == /\ pc = "boot" /\ pc' = "prompt" /\ mode' = HiZ
           /\ UNCHANGED <<cmdbuf, cur, seen, gone>>

(* Past the array the program goes on with what the stack holds; nothing   *)
(* is said of that.                                                        *)
Wild == pc = "run" /\ cur \notin Positions /\ UNCHANGED vars

Interpret == \/ EndOfLine \/ Harmless \/ Reboot \/ BusCommand \/ BusNumber \/ SyntaxError
             \/ AskMode

Next == \/ \E n \in Positions : ReadLine(n) \/ Discard(n)
        \/ Interpret
        \/ \E line \in ModeLines : ChangeMode(line)
        \/ Restart \/ Wild

Spec == Init /\ [][Next]_vars

(* The processor interprets; nobody is obliged to type.                    *)
FairSpec == Spec /\ WF_vars(Interpret)
-----------------------------------------------------------------------------
TypeOK ==
  /\ pc \in {"prompt", "run", "mode", "boot"}
  /\ \E i \in DOMAIN ModeNames : mode = ModeNames[i]
  /\ cmdbuf \in [Positions -> Char]
  /\ cur \in Nat /\ seen \subseteq Nat /\ gone \subseteq Positions

(* Whatever the line, the cursor steps over nothing but what stands right  *)
(* behind a digit.  So it passes the NUL of the line, and from there comes *)
(* to older bytes or out of the array, only if the line ends in a digit.   *)
NulPassedByNumberOnly ==
  pc \in {"run", "mode"} =>
    /\ \A i \in 0 .. cur - 1 : i \in seen \/ At(cmdbuf, i - 1) \in DOMAIN Digit
    /\ EndOf(cmdbuf) < cur => At(cmdbuf, EndOf(cmdbuf) - 1) \in DOMAIN Digit

(* A line in which a blank follows every number is interpreted whole and   *)
(* no further: no character of it is passed over, none behind it is taken, *)
(* in particular none of a line that ^C discarded (readline.c:208).        *)
Spaced(s) ==
  \A i \in 0 .. EndOf(s) - 1 : Decimal(s[i]) =>
    \E e \in i + 1 .. EndOf(s) - 1 :
      s[e] = Blank /\ \A k \in FirstDigit(s, i) .. e - 1 : InNumber(s, i, k)
SpacedLineIsExact ==
  pc \in {"run", "mode"} /\ Spaced(cmdbuf) =>
    /\ cur <= EndOf(cmdbuf)
    /\ \A i \in 0 .. cur - 1 : i \in seen \/ cmdbuf[i] = Blank
    /\ seen \cap gone = {}

(* Every line comes to its end, an error or a prompt, or takes the cursor  *)
(* out of the array.                                                       *)
LineEnds == (pc = "run") ~> (pc # "run" \/ cur \notin Positions)

-----------------------------------------------------------------------------
(* What help and comments say and the code does not do. *)

(* The help of the modes, i2c_mode.c:184 " ]\tStop": each character of the *)
(* line up to its end is taken for what the help lists.                    *)
EveryCharacterTaken ==
  pc = "run" /\ cur \in Positions /\ Here = Nul =>
    \A i \in 0 .. cur - 1 : i \in seen \/ cmdbuf[i] = Blank
=============================================================================
