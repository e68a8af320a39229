---------------------------- MODULE EditableLine ----------------------------
(***************************************************************************)
(* What readline() promises to the command loop: an edited line is a       *)
(* sequence of characters with a cursor between them, at most `room'       *)
(* characters long; a submitted line is what the caller finds afterwards,  *)
(* and it is remembered in a log of the most recent lines without adjacent *)
(* repetitions; a cancelled line leaves the caller with an empty one; a    *)
(* recalled line is one of the log, cut to the room of the buffer it is    *)
(* recalled into.  Nothing here knows of buffers, NUL bytes or terminals.  *)
(***************************************************************************)
EXTENDS Integers, Sequences

CONSTANTS Text,     \* printable characters
          LogMax    \* how many submitted lines are remembered

VARIABLES stage,    \* "idle", "edit", or "stuck" (out of memory)
          room, line, at, log

vars == <<stage, room, line, at, log>>

(* The first n characters of s, or s when it is shorter. *)
Cut(s, n) == IF Len(s) <= n THEN s ELSE SubSeq(s, 1, n)

(* The line without its p-th character. *)
Without(s, p) == SubSeq(s, 1, p - 1) \o SubSeq(s, p + 1, Len(s))

(* The logs that may result from submitting s: a repetition or a blank     *)
(* line is not logged, a line may be forgotten for want of memory, and the *)
(* oldest line makes room for a new one.                                   *)
LogsAfter(s) ==
  {log} \cup
  IF s = <<>> \/ (log # <<>> /\ log[Len(log)] = s) THEN {}
  ELSE IF Len(log) < LogMax THEN {Append(log, s)}
  ELSE {Append(Tail(log), s)}

Init == /\ stage = "idle" /\ room = 0
        /\ line = <<>> /\ at = 0 /\ log = <<>>

Begin == /\ stage = "idle"
         /\ stage' = "edit" /\ room' \in Nat \ {0}
         /\ line' = <<>> /\ at' = 0
         /\ UNCHANGED log

Edit == stage = "edit" /\ UNCHANGED <<stage, room, log>>

Move == Edit /\ at' \in 0 .. Len(line) /\ UNCHANGED line

Insert == /\ Edit /\ Len(line) < room
          /\ \E c \in Text : line' = SubSeq(line, 1, at) \o <<c>>
                                     \o SubSeq(line, at + 1, Len(line))
          /\ at' = at + 1

Replace == /\ Edit /\ at < Len(line)
           /\ \E c \in Text : line' = [line EXCEPT ![at + 1] = c]
           /\ at' = at + 1

(* Deletion of the character on either side of the cursor. *)
Erase == /\ Edit
         /\ \E p \in {at, at + 1} \cap (1 .. Len(line)) :
              line' = Without(line, p) /\ at' = p - 1

EraseTail == Edit /\ line' = SubSeq(line, 1, at) /\ UNCHANGED at

EraseAll == Edit /\ line' = <<>> /\ at' = 0

Recall == /\ Edit
          /\ \E s \in {<<>>} \cup {log[i] : i \in 1 .. Len(log)} : line' = Cut(s, room)
          /\ at' = Len(line')

Submit == /\ stage = "edit"
          /\ \/ stage' = "idle" /\ log' \in LogsAfter(line) /\ at' = 0
             \/ stage' = "stuck" /\ UNCHANGED <<log, at>>
          /\ UNCHANGED <<room, line>>

Cancel == /\ stage = "edit" /\ stage' = "idle" /\ line' = <<>> /\ at' = 0
          /\ UNCHANGED <<room, log>>

Next == Begin \/ Move \/ Insert \/ Replace \/ Erase \/ EraseTail \/ EraseAll
        \/ Recall \/ Submit \/ Cancel

Spec == Init /\ [][Next]_vars
=============================================================================
