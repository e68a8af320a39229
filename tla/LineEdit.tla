------------------------------- MODULE LineEdit -------------------------------
(***************************************************************************)
(* The command line editor: readline() of readline.c with its history list *)
(* and the copy routines of libbb.c/string.c it calls, together with the   *)
(* terminal row it paints by writing characters and backspaces.            *)
(*                                                                         *)
(* Operators named ...Bug are single mistakes a programmer could make in   *)
(* the definition that follows them; no behaviour uses them.  They show    *)
(* that the properties can fail.                                           *)
(*                                                                         *)
(* One action per key.  Only ^W loops over state, so it alone takes more   *)
(* than one step (the values "wspace" and "wword" of pc).  The caller's    *)
(* buffer is a local array: each call finds arbitrary bytes in it.         *)
(***************************************************************************)
EXTENDS Integers, Sequences

CONSTANTS Text,      \* printable characters, the blank among them
          Space,     \* the blank
          Nul,       \* the byte 0
          BufLens,   \* the values of parameter len (100 and 8 in the program)
          Width,     \* columns of the terminal right of the prompt
          PromptLen, \* columns a prompt takes
          HistMax    \* bound of history_num_entries (32 in the program)

ASSUME TextAssumption == Space \in Text /\ Nul \notin Text
ASSUME LenAssumption == BufLens \subseteq {n \in Nat : n >= 2}
ASSUME WidthAssumption == Width \in Nat /\ \A n \in BufLens : n <= Width
ASSUME PromptAssumption == PromptLen \in Nat
ASSUME HistAssumption == HistMax \in Nat \ {0}

VARIABLES pc,     \* "idle" (in the caller), "edit", "wspace", "wword", "halt"
          len, buf, num, eol, insert,   \* parameters and locals of readline()
          hist,   \* history_list, oldest line first
          hcur,   \* history_current: 0 is the list head, i the i-th entry
          tty,    \* the row: cell[k] is the k-th column right of the prompt
          fresh,  \* the prompt was written on an empty row
          ret     \* what readline() last returned

edits == <<len, buf, num, eol, insert>>
vars == <<pc, edits, hist, hcur, tty, fresh, ret>>

Char == Text \cup {Nul}
Columns == 0 .. Width - 1

-----------------------------------------------------------------------------
(* Strings in memory. *)

(* strnlen(b + i, n): the bytes before the first NUL, at most n. *)
StrnLen(b, i, n) ==
  CHOOSE m \in 0 .. n : /\ \A j \in 0 .. m - 1 : b[i + j] # Nul
                        /\ m = n \/ b[i + m] = Nul

(* The C string at the start of b, as a sequence. *)
CString(b, n) == [i \in 1 .. StrnLen(b, 0, n) |-> b[i - 1]]

(* memmove(b + d, b + d + 1, n) and memmove(b + d + 1, b + d, n). *)
MoveDown(b, d, n) ==
  [i \in DOMAIN b |-> IF i \in d .. d + n - 1 THEN b[i + 1] ELSE b[i]]
MoveUpBug(b, d, n) ==         \* one byte short
  [i \in DOMAIN b |-> IF i \in d + 1 .. d + n - 1 THEN b[i - 1] ELSE b[i]]
MoveUp(b, d, n) ==
  [i \in DOMAIN b |-> IF i \in d + 1 .. d + n THEN b[i - 1] ELSE b[i]]

(* safe_strncpy(b, s, l): at most l - 1 bytes of s, always terminated. *)
Smaller(m, n) == IF m <= n THEN m ELSE n
SafeStrncpy(b, s, l) ==
  LET n == Smaller(Len(s), l - 1)
  IN  [i \in DOMAIN b |-> IF i < n THEN s[i + 1]
                          ELSE IF i = n \/ i = l - 1 THEN Nul ELSE b[i]]

-----------------------------------------------------------------------------
(* The terminal: a printed character overwrites a cell and advances, a     *)
(* backspace only moves.                                                   *)

Echo(t, b, i, n) ==          \* n bytes known not to hold a NUL
  [cell |-> [k \in Columns |-> IF k \in t.col .. t.col + n - 1
                               THEN b[i + k - t.col] ELSE t.cell[k]],
   col  |-> t.col + n]

PutStr(t, b, i, n) == Echo(t, b, i, StrnLen(b, i, n))      \* putnstr
PutSpaces(t, n) ==
  [cell |-> [k \in Columns |-> IF k \in t.col .. t.col + n - 1
                               THEN Space ELSE t.cell[k]],
   col  |-> t.col + n]
Back(t, n) == [t EXCEPT !.col = @ - n]

BlankRow == [cell |-> [k \in Columns |-> Space], col |-> 0]

(* A prompt written where the cursor is: what was right of it stays. *)
Prompted(t) ==
  [cell |-> [k \in Columns |-> IF k + t.col + PromptLen \in Columns
                               THEN t.cell[k + t.col + PromptLen] ELSE Space],
   col  |-> 0]

EraseTail(t, n) == Back(PutSpaces(t, n), n)                  \* ERASE_TO_EOL

-----------------------------------------------------------------------------
(* readline(prompt, buf, len): entry and return. *)

Init == /\ pc = "idle"
        /\ len = 0 /\ buf = <<>> /\ num = 0 /\ eol = 0 /\ insert = TRUE
        /\ hist = <<>> /\ hcur = 0
        /\ tty = BlankRow /\ fresh = TRUE /\ ret = 0

Call(l) ==
  /\ pc = "idle" /\ pc' = "edit"
  /\ len' = l /\ buf' \in [0 .. l - 1 -> Char]
  /\ num' = 0 /\ eol' = 0 /\ insert' = TRUE /\ hcur' = 0
  /\ tty' = Prompted(tty)
  /\ UNCHANGED <<hist, fresh, ret>>

(* strdup() may fail and is forgiven; xzalloc() may fail and is not. *)
SkippedBug(line) == line = <<>>      \* repetitions are kept
Skipped(line) == line = <<>> \/ (hist # <<>> /\ hist[Len(hist)] = line)
Remember(line) ==
  \/ pc' = "idle" /\ UNCHANGED hist
  \/ /\ ~Skipped(line) /\ Len(hist) < HistMax
     /\ \/ pc' = "halt" /\ UNCHANGED hist
        \/ pc' = "idle" /\ hist' = Append(hist, line)
  \/ /\ ~Skipped(line) /\ Len(hist) >= HistMax
     /\ pc' = "idle" /\ hist' = Append(Tail(hist), line)

Enter ==
  /\ pc = "edit"
  /\ buf' = [buf EXCEPT ![eol] = Nul]
  /\ Remember(CString(buf', len))
  /\ ret' = IF pc' = "halt" THEN ret ELSE eol
  /\ tty' = BlankRow /\ fresh' = TRUE
  /\ UNCHANGED <<len, num, eol, insert, hcur>>

InterruptBug ==               \* the buffer is not emptied
  /\ pc = "edit" /\ pc' = "idle" /\ ret' = -1 /\ fresh' = FALSE
  /\ UNCHANGED <<len, buf, num, eol, insert, hist, hcur, tty>>

Interrupt ==                                                  \* ^C
  /\ pc = "edit" /\ pc' = "idle"
  /\ buf' = [buf EXCEPT ![0] = Nul]
  /\ ret' = -1 /\ fresh' = FALSE
  /\ UNCHANGED <<len, num, eol, insert, hist, hcur, tty>>

-----------------------------------------------------------------------------
(* Keys. *)

Key == pc = "edit" /\ UNCHANGED <<pc, len, hist, ret>>
Moves == Key /\ UNCHANGED <<buf, eol, insert, hcur, fresh>>
Deletes == Key /\ UNCHANGED <<insert, hcur, fresh>>

Home == Moves /\ tty' = Back(tty, num) /\ num' = 0

Right == Moves /\ num < eol /\ tty' = Echo(tty, buf, num, 1) /\ num' = num + 1

LeftBug == Moves /\ tty' = Back(tty, 1) /\ num' = num - 1     \* unguarded
Left == Moves /\ num > 0 /\ tty' = Back(tty, 1) /\ num' = num - 1

End == Moves /\ tty' = PutStr(tty, buf, num, eol - num) /\ num' = eol

ToggleInsert == Key /\ insert' = ~insert
                /\ UNCHANGED <<buf, num, eol, hcur, tty, fresh>>

(* ^L clears the screen and prints the prompt and buf again. *)
Redraw ==
  /\ Key /\ fresh' = TRUE
  /\ buf' = [buf EXCEPT ![eol] = Nul]
  /\ tty' = Back(PutStr(BlankRow, buf', 0, len), eol - num)
  /\ UNCHANGED <<num, eol, insert, hcur>>

EraseToEol == /\ Deletes /\ tty' = EraseTail(tty, eol - num) /\ eol' = num
              /\ UNCHANGED <<buf, num>>

EraseLine == /\ Deletes /\ tty' = EraseTail(Back(tty, num), eol)
             /\ num' = 0 /\ eol' = 0 /\ UNCHANGED buf

DeleteUnderBug ==             \* the last character is not blanked
  /\ Deletes /\ num < eol
  /\ LET wlen == eol - num - 1
     IN  /\ buf' = MoveDown(buf, num, wlen)
         /\ tty' = Back(PutStr(tty, buf', num, wlen), wlen)
  /\ eol' = eol - 1 /\ UNCHANGED num

(* ^D: deletes under the cursor, moving eol - num - 1 bytes. *)
DeleteUnder ==
  /\ Deletes /\ num < eol
  /\ LET wlen == eol - num - 1
     IN  /\ buf' = MoveDown(buf, num, wlen)
         /\ tty' = Back(PutSpaces(PutStr(tty, buf', num, wlen), 1), wlen + 1)
  /\ eol' = eol - 1 /\ UNCHANGED num

(* DEL: the same, moving the byte behind the line as well. *)
Del ==
  /\ Deletes /\ num < eol
  /\ LET wlen == eol - num
     IN  /\ buf' = MoveDown(buf, num, wlen)
         /\ tty' = Back(PutSpaces(PutStr(tty, buf', num, wlen - 1), 1), wlen)
  /\ eol' = eol - 1 /\ UNCHANGED num

DoBackspaceBug ==             \* one backspace short
  LET wlen == eol - num
  IN  /\ num' = num - 1 /\ eol' = eol - 1
      /\ buf' = MoveDown(buf, num - 1, wlen)
      /\ tty' = Back(PutSpaces(PutStr(Back(tty, 1), buf', num - 1, wlen), 1), wlen)

DoBackspace ==                                                \* DO_BACKSPACE
  LET wlen == eol - num
  IN  /\ num' = num - 1 /\ eol' = eol - 1
      /\ buf' = MoveDown(buf, num - 1, wlen)
      /\ tty' = Back(PutSpaces(PutStr(Back(tty, 1), buf', num - 1, wlen), 1), wlen + 1)

Backspace == Deletes /\ num > 0 /\ DoBackspace

(* ^W: blanks left of the cursor, then the word left of them. *)
StartEraseWord == /\ pc = "edit" /\ pc' = "wspace"
                  /\ UNCHANGED <<edits, hist, hcur, tty, fresh, ret>>
InWord(here) == pc = here /\ UNCHANGED <<len, insert, hist, hcur, fresh, ret>>
EraseBlank == /\ InWord("wspace") /\ UNCHANGED pc
              /\ num >= 1 /\ buf[num - 1] = Space /\ DoBackspace
BlanksDone == /\ InWord("wspace") /\ pc' = "wword"
              /\ ~(num >= 1 /\ buf[num - 1] = Space)
              /\ UNCHANGED <<buf, num, eol, tty>>
EraseLetter == /\ InWord("wword") /\ UNCHANGED pc
               /\ num >= 1 /\ buf[num - 1] # Space /\ DoBackspace
WordDoneBug == /\ InWord("wword") /\ pc' = "edit"     \* needs a blank to stop
               /\ num >= 1 /\ buf[num - 1] = Space
               /\ UNCHANGED <<buf, num, eol, tty>>
WordDone == /\ InWord("wword") /\ pc' = "edit"
            /\ ~(num >= 1 /\ buf[num - 1] # Space)
            /\ UNCHANGED <<buf, num, eol, tty>>

(* cread_add_char. *)
RoomBug == eol <= len - 1     \* no byte kept for the NUL
Room == eol <= len - 2
InsertChar(c) ==
  /\ Key /\ insert /\ Room
  /\ LET wlen == eol + 1 - num
     IN  /\ buf' = [MoveUp(buf, num, wlen - 1) EXCEPT ![num] = c]
         /\ tty' = Back(PutStr(tty, buf', num, wlen), wlen - 1)
  /\ num' = num + 1 /\ eol' = eol + 1
  /\ UNCHANGED <<insert, hcur, fresh>>

Overwrite(c) ==
  /\ Key /\ ~insert /\ (num = eol => Room)
  /\ buf' = [buf EXCEPT ![num] = c]
  /\ tty' = PutStr(tty, buf', num, 1)
  /\ num' = num + 1 /\ eol' = IF num = eol THEN eol + 1 ELSE eol
  /\ UNCHANGED <<insert, hcur, fresh>>

(* hist_prev() and hist_next(): where history_current goes, and the line   *)
(* each returns; entry 1 is the oldest.                                    *)
PrevEntry == IF hcur = 0 THEN Len(hist) ELSE IF hcur = 1 THEN 1 ELSE hcur - 1
NextEntry == IF hcur = 0 \/ hcur = Len(hist) THEN 0 ELSE hcur + 1
HistLine(e) == IF e = 0 THEN <<>> ELSE hist[e]

RecallBug(entry) ==           \* the length of the entry, not of its copy
  /\ Key /\ hcur' = entry
  /\ buf' = SafeStrncpy(buf, HistLine(entry), len)
  /\ eol' = Len(HistLine(entry)) /\ num' = eol'
  /\ tty' = PutStr(EraseTail(Back(tty, num), eol), buf', 0, Smaller(eol', len))
  /\ UNCHANGED <<insert, fresh>>

Recall(entry) ==
  /\ Key /\ hcur' = entry
  /\ buf' = SafeStrncpy(buf, HistLine(entry), len)
  /\ eol' = StrnLen(buf', 0, len) /\ num' = eol'
  /\ tty' = PutStr(EraseTail(Back(tty, num), eol), buf', 0, eol')
  /\ UNCHANGED <<insert, fresh>>
Up == Recall(PrevEntry)
Down == Recall(NextEntry)

Hang == pc = "halt" /\ UNCHANGED vars                         \* enomem_panic

-----------------------------------------------------------------------------
EraseWordStep == EraseBlank \/ BlanksDone \/ EraseLetter \/ WordDone

Keystroke ==
  \/ Enter \/ Interrupt \/ Home \/ Right \/ Left \/ End \/ ToggleInsert \/ Redraw
  \/ EraseToEol \/ EraseLine \/ DeleteUnder \/ Del \/ Backspace \/ StartEraseWord
  \/ Up \/ Down
  \/ \E c \in Text : InsertChar(c) \/ Overwrite(c)

Next == (\E l \in BufLens : Call(l)) \/ Keystroke \/ EraseWordStep \/ Hang

Spec == Init /\ [][Next]_vars

(* The processor runs the ^W loop; nobody is obliged to press a key. *)
FairSpec == Spec /\ WF_vars(EraseWordStep)
-----------------------------------------------------------------------------
(* Properties. *)

Editing == pc \in {"edit", "wspace", "wword"}

TypeOK ==
  /\ pc \in {"idle", "edit", "wspace", "wword", "halt"}
  /\ len \in BufLens \cup {0}
  /\ buf \in [0 .. len - 1 -> Char]
  /\ num \in Nat /\ eol \in Nat /\ insert \in BOOLEAN
  /\ hist \in Seq(Seq(Text)) /\ hcur \in Nat
  /\ tty \in [cell : [Columns -> Text], col : Int]
  /\ fresh \in BOOLEAN /\ ret \in Nat \cup {-1}

(* Whatever is typed or recalled, the cursor stays inside the line and the *)
(* line leaves a byte of the caller's buffer for the final NUL, so that no *)
(* store of readline() falls outside buf[0 .. len-1].                      *)
BufferBounds == Editing => num <= eol /\ eol <= len - 1

(* The bytes before eol_num are characters that were typed: no byte left   *)
(* in the buffer by its earlier use and no terminator moved by a deletion  *)
(* ever becomes part of the line (the echo and strlen() would stop there). *)
LineIsText == Editing => \A i \in 0 .. eol - 1 : buf[i] \in Text

(* The terminal shows the line and its cursor is where the next key acts.  *)
ScreenShowsLine ==
  Editing => /\ tty.col = num
             /\ \A k \in 0 .. eol - 1 : tty.cell[k] = buf[k]

(* On a row that was empty when the prompt was written, nothing of erased  *)
(* or replaced text stays visible behind the line.                         *)
NothingLeftBehind ==
  Editing /\ fresh => \A k \in eol .. Width - 1 : tty.cell[k] = Space

(* When readline() returns a length, its buffer holds a C string of that   *)
(* length; after ^C it holds the empty string.                             *)
ReturnedString ==
  pc = "idle" /\ len > 0 => StrnLen(buf, 0, len) = IF ret = -1 THEN 0 ELSE ret

(* The history holds at most HistMax lines, none empty and no two          *)
(* neighbours equal, and the steps of hist_prev() and hist_next() end at   *)
(* its ends: history_current is the head or an entry while a line is       *)
(* edited.                                                                 *)
HistoryOK ==
  /\ Len(hist) <= HistMax
  /\ \A i \in 1 .. Len(hist) : hist[i] # <<>>
  /\ \A i \in 2 .. Len(hist) : hist[i] # hist[i - 1]
  /\ Editing => hcur <= Len(hist)

(* ^W comes to an end, whatever the line. *)
EraseWordEnds == (pc \in {"wspace", "wword"}) ~> (pc = "edit")

(* readline() implements the abstract editor: every key is one of its      *)
(* operations, and what the caller finds in its buffer is the line it ended*)
(* with.                                                                   *)
Line == [i \in 1 .. eol |-> buf[i - 1]]
Promise == INSTANCE EditableLine WITH
  LogMax <- HistMax,
  stage <- IF Editing THEN "edit" ELSE IF pc = "halt" THEN "stuck" ELSE "idle",
  room <- IF len = 0 THEN 0 ELSE len - 1,
  line <- IF pc = "idle" THEN CString(buf, len) ELSE Line,
  at <- IF pc = "idle" THEN 0 ELSE num,
  log <- hist
EditsALine == Promise!Spec
=============================================================================
