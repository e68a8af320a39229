------------------------------ MODULE MCLineEdit ------------------------------
(* Small buffers and two characters for the line editor. *)
EXTENDS LineEdit

CONSTANTS a, sp, nul

MCText == {a, sp}
ShortAndLong == {2, 3}
=============================================================================
