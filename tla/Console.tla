------------------------------- MODULE Console --------------------------------
(***************************************************************************)
(* The serial console: read_key() on the bytes a terminal sends            *)
(* (readkey.c), puts_ll() (debug_ll.h), and the two registers of the UART  *)
(* both poll (debug_ll_ns16550.h).  Bytes are named by their character.    *)
(* The firmware does one thing at a time; terminal and transmitter run     *)
(* beside it.                                                              *)
(***************************************************************************)
EXTENDS Integers, Sequences, SequencesExt

CONSTANTS Typed,     \* what a terminal sends for the keys of its keyboard
          Texts,     \* texts that are printed
          MaxTyped   \* keys typed ahead of the firmware

VARIABLES uart,      \* rx: bytes sent by the terminal and not yet read;
                     \* thr: bytes in the transmit holding register; sent: bytes on the line
          con,       \* where the firmware is
          due        \* keys typed and not yet returned

consoleVars == <<uart, con, due>>

Digits == {"0", "1", "2", "3", "4", "5", "6", "7", "8", "9"}
EscSize == 5
NoKey == "none"
NotAKey == "-1"

(* What read_key() takes whole: one byte that is not ESC, or ESC and a     *)
(* sequence of two bytes, or of three to five with a digit second and a ~  *)
(* last, or of five with a digit second.  Terminals send other keys too: a *)
(* lone ESC takes the next two bytes for its sequence, of ESC [ [ A the    *)
(* letter is left, of ESC [ 1 5 ; 2 ~ (Shift-F5) the ~.                    *)
WellFormed(t) ==
  \/ Len(t) = 1 /\ t[1] # "ESC"
  \/ /\ t[1] = "ESC" /\ Len(t) > 2
     /\ t[3] \in Digits <=> Len(t) > 3
     /\ Len(t) > 3 => /\ Len(t) <= 1 + EscSize
                      /\ \A j \in 4 .. Len(t) - 1 : t[j] # "~"
                      /\ Len(t) <= EscSize => t[Len(t)] = "~"

(* No key of any other form is typed.                                      *)
Keyboard == \A t \in Typed : WellFormed(t)

ASSUME ConsoleTyped == \A t \in Typed : t \in Seq(STRING) /\ t # <<>>
ASSUME ConsoleTexts == \A t \in Texts : t \in Seq(STRING)
ASSUME ConsoleMax == MaxTyped \in Nat

(* The table esccmds. *)
Letter == [A |-> "UP", B |-> "DOWN", C |-> "RIGHT", D |-> "LEFT", H |-> "HOME", F |-> "END"]
Number == [x \in {"1", "2", "3", "4", "5", "6"} |->
             CASE x = "1" -> "HOME" [] x = "2" -> "INSERT" [] x = "3" -> "DEL"
               [] x = "4" -> "END" [] x = "5" -> "PAGEUP" [] x = "6" -> "PAGEDOWN"]

Lookup(esc) ==
  IF Len(esc) = 2 /\ esc[1] \in {"O", "["} /\ esc[2] \in DOMAIN Letter THEN Letter[esc[2]]
  ELSE IF Len(esc) = 3 /\ esc[1] = "[" /\ esc[2] \in DOMAIN Number /\ esc[3] = "~"
       THEN Number[esc[2]]
  ELSE NotAKey

ConsoleInit ==
  /\ uart = [rx |-> <<>>, thr |-> <<>>, sent |-> <<>>]
  /\ con = [pc |-> "idle", esc |-> <<>>, key |-> NoKey, of |-> <<>>, text |-> <<>>, rest |-> <<>>]
  /\ due = <<>>

-----------------------------------------------------------------------------
(* The terminal and the transmitter. *)

Type == \E t \in Typed : /\ Len(due) < MaxTyped
                         /\ uart' = [uart EXCEPT !.rx = @ \o t]
                         /\ due' = Append(due, t)
                         /\ UNCHANGED con

Transmit == /\ uart.thr # <<>>
            /\ uart' = [uart EXCEPT !.thr = <<>>, !.sent = @ \o uart.thr]
            /\ UNCHANGED <<con, due>>

-----------------------------------------------------------------------------
(* read_key() *)

ReadKey == /\ con.pc = "idle"
           /\ con' = [con EXCEPT !.pc = "first", !.esc = <<>>, !.key = NoKey]
           /\ UNCHANGED <<uart, due>>

(* getchar() waits for the bit DR and reads the byte. *)
Got(pc, state) == /\ con.pc = pc /\ uart.rx # <<>>
                  /\ uart' = [uart EXCEPT !.rx = Tail(@)]
                  /\ con' = state

(* The key that was typed first is returned.  (None is due when the byte   *)
(* is left from a key returned before.)                                    *)
FirstDue == IF due = <<>> THEN <<>> ELSE Head(due)
Answered == due' = IF due = <<>> THEN <<>> ELSE Tail(due)
Returned(state, key) == [state EXCEPT !.pc = "idle", !.key = key, !.of = FirstDue]

First ==
  LET c == Head(uart.rx) IN
  \/ /\ Got("first", [con EXCEPT !.pc = "esc0"]) /\ c = "ESC" /\ UNCHANGED due
  \/ /\ Got("first", Returned(con, c)) /\ c # "ESC" /\ Answered

Stored == [con EXCEPT !.esc = Append(@, Head(uart.rx))]

Esc0 == Got("esc0", [Stored EXCEPT !.pc = "esc1"]) /\ UNCHANGED due

(* Without a digit the sequence is complete. *)
Esc1 ==
  \/ Got("esc1", [Stored EXCEPT !.pc = "loop"]) /\ Head(uart.rx) \in Digits /\ UNCHANGED due
  \/ /\ Got("esc1", Returned(Stored, Lookup(Stored.esc)))
     /\ Head(uart.rx) \notin Digits /\ Answered

(* ~ ends the sequence, and so does the fifth byte.  A fifth byte ~ is     *)
(* followed by a 0 one byte behind esc[5], where the stack frame has its   *)
(* padding.                                                                *)
EscLoopBug ==
  LET full == Len(Stored.esc) = EscSize IN
  \/ Got("loop", Stored) /\ ~full /\ UNCHANGED due
  \/ Got("loop", Returned(Stored, Lookup(Stored.esc))) /\ full /\ Answered

EscLoop ==
  LET c == Head(uart.rx)
      full == Len(Stored.esc) = EscSize
      key == IF c = "~" THEN Lookup(Stored.esc) ELSE NotAKey
  IN
  \/ Got("loop", Stored) /\ c # "~" /\ ~full /\ UNCHANGED due
  \/ Got("loop", Returned(Stored, key)) /\ (c = "~" \/ full) /\ Answered

-----------------------------------------------------------------------------
(* puts_ll(): a newline is preceded by a carriage return. *)

Puts == /\ con.pc = "idle"
        /\ \E t \in Texts : con' = [con EXCEPT !.pc = "puts", !.text = t, !.rest = t]
        /\ uart' = [uart EXCEPT !.sent = <<>>]
        /\ uart.thr = <<>>   \* sent begins with this text
        /\ UNCHANGED due

(* PUTC_LL() waits for the bit THRE and writes the byte. *)
PutByte(b, pc, rest) ==
  /\ uart.thr = <<>>
  /\ uart' = [uart EXCEPT !.thr = <<b>>]
  /\ con' = [con EXCEPT !.pc = pc, !.rest = rest]
  /\ UNCHANGED due

PutCr == con.pc = "puts" /\ con.rest # <<>> /\ Head(con.rest) = "LF" /\ PutByte("CR", "put", con.rest)
PutChar == /\ con.rest # <<>>
           /\ con.pc = "put" \/ (con.pc = "puts" /\ Head(con.rest) # "LF")
           /\ PutByte(Head(con.rest), "puts", Tail(con.rest))
PutsEnds == /\ con.pc = "puts" /\ con.rest = <<>>
            /\ con' = [con EXCEPT !.pc = "idle"]
            /\ UNCHANGED <<uart, due>>

ConsoleNext == \/ Type \/ Transmit \/ ReadKey \/ First \/ Esc0 \/ Esc1 \/ EscLoop
               \/ Puts \/ PutCr \/ PutChar \/ PutsEnds

ConsoleSpec == ConsoleInit /\ [][ConsoleNext]_consoleVars

-----------------------------------------------------------------------------

(* The key a terminal's bytes stand for: the byte itself, or the key of a  *)
(* sequence of the table, or none.                                         *)
Meaning(t) == IF t[1] # "ESC" THEN t[1] ELSE Lookup(Tail(t))

(* Between two calls of read_key() the bytes not yet read are exactly      *)
(* those of the keys not yet returned: no key leaves a byte that is taken  *)
(* for text or takes one of the next key; and the key returned is the one  *)
(* that was typed, or none if it is not in the table.  It holds of the     *)
(* keys of a Keyboard, in the table or not; any other breaks it.           *)
KeysInStep ==
  con.pc \in {"idle", "puts", "put"} =>
    /\ uart.rx = FlattenSeq(due)
    /\ con.key # NoKey => con.of # <<>> /\ con.key = Meaning(con.of)

(* A printed text appears whole and in order, every newline preceded by a  *)
(* carriage return, though the transmitter takes its time for each byte.   *)
OutputWhole ==
  con.pc = "idle" =>
    uart.sent \o uart.thr = FlattenSeq([j \in 1 .. Len(con.text) |->
                              IF con.text[j] = "LF" THEN <<"CR", "LF">> ELSE <<con.text[j]>>])

(* Keys are read and texts are sent whole and in order.                    *)
ConsoleExact == KeysInStep /\ OutputWhole
=============================================================================
