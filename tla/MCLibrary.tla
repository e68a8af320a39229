------------------------------ MODULE MCLibrary -------------------------------
(* The library routines, checked one group at a time on small instances:   *)
(* formatted output, strings and memory, lists, arithmetic.                *)
EXTENDS Format, Strings, LinkedList, Arith

CONSTANT Parts      \* those at work

VARIABLE part

MCLower == [c \in 0 .. 3 |-> IF c = 2 THEN 3 ELSE c]

(* A call, and what its reader is promised. *)
Job(fn, fmt, args, size, room, want) ==
  [fn |-> fn, fmt |-> fmt, args |-> args, size |-> size, room |-> room, want |-> want]
Unstated == [kind |-> "any"]
Number(value, base, prefix, width, left, precision, zero) ==
  [kind |-> "number", value |-> value, base |-> base, prefix |-> prefix, width |-> width,
   left |-> left, precision |-> precision, zero |-> zero]

Barred(s) == <<"|">> \o s \o <<"|">>
InOneOrder(S) == SelectSeq(<<"-", "+", " ", "#", "0">>, LAMBDA c : c \in S)

Widths == {[s |-> <<>>, args |-> <<>>, width |-> 0, left |-> FALSE],
           [s |-> <<"4">>, args |-> <<>>, width |-> 4, left |-> FALSE],
           [s |-> <<"*">>, args |-> <<-4>>, width |-> 4, left |-> TRUE]}
Precisions == {[s |-> <<>>, args |-> <<>>, digits |-> 0],
               [s |-> <<".", "3">>, args |-> <<>>, digits |-> 3],
               [s |-> <<".", "*">>, args |-> <<-1>>, digits |-> 0]}

(* Every set of flags with every width and precision; -3 passed as int is  *)
(* the 13 of %x.                                                           *)
NumberJobs ==
  {Job("vsnprintf", Barred(<<"%">> \o InOneOrder(S) \o w.s \o p.s \o <<c>>),
       w.args \o p.args \o <<v>>, 20, 20,
       Number(IF c = "d" /\ v = 13 THEN -3 ELSE v, IF c = "d" THEN 10 ELSE 16,
              "#" \in S /\ c = "x", w.width, w.left \/ "-" \in S, p.digits, "0" \in S))
     : S \in SUBSET {"-", "+", " ", "#", "0"}, w \in Widths, p \in Precisions,
       c \in {"d", "x"}, v \in {0, 5, 13}}

(* 13 through every qualifier: 4 bits of int, 2 of short, 8 of long long. *)
Qualified == {<<<<"d">>, -3>>, <<<<"h", "d">>, 1>>, <<<<"h", "u">>, 1>>, <<<<"l", "i">>, -3>>,
              <<<<"l", "l", "d">>, 13>>, <<<<"z", "u">>, 13>>, <<<<"Z", "d">>, 13>>, <<<<"t", "d">>, -3>>}
QualifierJobs ==
  {Job("vsnprintf", Barred(<<"%">> \o q[1]), <<13>>, 20, 20,
       Number(q[2], 10, FALSE, 0, FALSE, 0, FALSE)) : q \in Qualified}
    \cup {Job("vsnprintf", Barred(<<"%", "o">>), <<13>>, 20, 20,
              Number(13, 8, FALSE, 0, FALSE, 0, FALSE))}

TextJobs ==
  {Job("vsnprintf", Barred(t[1]), t[2], 20, 20, [kind |-> "text", text |-> t[3]]) : t \in {
     <<<<"%", "3", "s">>, <<<<"a", "b">>>>, <<" ", "a", "b">>>>,
     <<<<"%", "-", "3", ".", "1", "s">>, <<<<"a", "b">>>>, <<"a", " ", " ">>>>,
     <<<<"%", "s">>, <<"NULL">>, <<"<", "N", "U", "L", "L", ">">>>>,
     <<<<"%", "2", "c">>, <<"q">>, <<" ", "q">>>>,
     <<<<"%", "-", "2", "c">>, <<"q">>, <<"q", " ">>>>,
     <<<<"%", "p", "S", "R">>, <<13>>, <<"d">>>>,
     <<<<"%", "%">>, <<>>, <<"%">>>>,
     <<<<"%", "k">>, <<>>, <<"%", "k">>>>,
     <<<<"%", "n">>, <<0>>, <<>>>>}}

(* Buffers from none to one byte more than the text. *)
SizeJobs ==
  {Job(fn, fmt, <<<<"a", "b">>, 5>>, size, size, Unstated)
     : fn \in {"vsnprintf", "vscnprintf", "vasprintf"}, size \in 0 .. 7,
       fmt \in {<<"%", "s", "-", "%", "2", "d">>, <<>>, <<"x", "%">>}}

(* The banner of the memory test (memtest.c:89): 42 characters, a word of  *)
(* eight digits, 5 characters, another word, and 73 characters; and the    *)
(* 128 bytes of printbuffer.                                               *)
Plain(n) == [k \in 1 .. n |-> "x"]
MCPrintJobs ==
  {Job("printf", Plain(42) \o <<"%", "0", "8", "x">> \o Plain(5) \o <<"%", "0", "8", "x">>
                   \o Plain(73), <<5, 13>>, 1000, 128, Unstated)}

MCJobs == NumberJobs \cup QualifierJobs \cup TextJobs \cup SizeJobs

vars == <<fs, st, listVars, calc, part>>

MCInit ==
  /\ part \in Parts
  /\ FormatInit
  /\ IF part = "strings" THEN StringsInit ELSE st = Holding([a \in Addr |-> 0])
  /\ ListsInit
  /\ IF part = "arithmetic" THEN ArithInit ELSE calc = Awaiting([fn |-> "ffs", a |-> 0, b |-> 0])

MCNext ==
  \/ part = "format" /\ FormatNext /\ UNCHANGED <<st, listVars, calc, part>>
  \/ part = "strings" /\ StringsNext /\ UNCHANGED <<fs, listVars, calc, part>>
  \/ part = "lists" /\ ListsNext /\ UNCHANGED <<fs, st, calc, part>>
  \/ part = "arithmetic" /\ ArithNext /\ UNCHANGED <<fs, st, listVars, part>>

MCSpec == MCInit /\ [][MCNext]_vars
===============================================================================
