------------------------------- MODULE MemTest --------------------------------
(***************************************************************************)
(* mem_test_moving_inversions() (memtest.c) on a RAM with at most one      *)
(* fault.  One step per word visited.  main.c runs it over the heap's      *)
(* memory before anything is allocated, and ignores what it returns.       *)
(***************************************************************************)
EXTENDS Bits

CONSTANTS RamWords,    \* words of the RAM, the region being some of them
          RamBits,     \* bits of a word: 32
          WordBytes,   \* sizeof(resource_size_t): 4
          Hashes,      \* HASHES_PER_LINE: 65
          Page         \* progress is shown once per page of 4096 words

ASSUME RamAssumption == /\ RamWords \in Nat \ {0} /\ RamBits \in Nat \ {0}
                        /\ WordBytes \in Nat \ {0} /\ Hashes \in Nat /\ Page \in Nat \ {0}
(* Addresses and the words counted from them must be told apart. *)
ASSUME RamFits == RamWords < Pow2[RamBits]

VARIABLES ram,     \* contents, and the fault
          mt       \* the test

memVars == <<ram, mt>>

Cells == 0 .. RamWords - 1
WithBit(x, b, v) == x + (v - BitOf(x, b)) * Pow2[b]
Inverted(x) == Pow2[RamBits] - 1 - x

(* The faults: a bit that reads as v whatever was written; two addresses   *)
(* of one cell; a cell whose writing forces a bit of another.              *)
Faults ==
  {[kind |-> "none", a |-> 0, w |-> 0, b |-> 0, v |-> 0]}
  \cup {[kind |-> "stuck", a |-> w, w |-> w, b |-> b, v |-> v] :
          w \in Cells, b \in 0 .. RamBits - 1, v \in {0, 1}}
  \cup {[kind |-> k, a |-> a, w |-> w, b |-> b, v |-> v] :
          k \in {"alias", "couple"}, a \in Cells, w \in Cells, b \in 0 .. RamBits - 1, v \in {0, 1}}

Cell(x) == IF ram.fault.kind = "alias" /\ x = ram.fault.a THEN ram.fault.w ELSE x
Read(x) ==
  IF ram.fault.kind = "stuck" /\ x = ram.fault.w
  THEN WithBit(ram.mem[x], ram.fault.b, ram.fault.v) ELSE ram.mem[Cell(x)]
Written(x, value) ==
  LET m == [ram.mem EXCEPT ![Cell(x)] = value] IN
  IF ram.fault.kind = "couple" /\ x = ram.fault.a
  THEN [m EXCEPT ![ram.fault.w] = WithBit(@, ram.fault.b, ram.fault.v)] ELSE m

-----------------------------------------------------------------------------

MemInit ==
  /\ ram \in {[mem |-> [x \in Cells |-> junk], fault |-> f] :
                junk \in {0, Pow2[RamBits] - 1},
                f \in {g \in Faults : g.kind \in {"alias", "couple"} => g.a # g.w}}
  /\ mt = [pc |-> "idle", start |-> 0, words |-> 0, offset |-> 0, printed |-> 0,
           ret |-> "none", at |-> 0, expected |-> 0, actual |-> 0]

AlignUp(x) == ((x + WordBytes - 1) \div WordBytes) * WordBytes
AlignDown(x) == (x \div WordBytes) * WordBytes

(* The region _start .. _end of bytes is cut to whole words; _end - 1 does *)
(* not wrap, as the regions of the program do not end in the first word.   *)
MemStart ==
  /\ mt.pc = "idle" /\ mt.ret = "none"
  /\ \E _start \in 0 .. RamWords * WordBytes, _end \in WordBytes .. RamWords * WordBytes :
       LET first == AlignUp(_start)
           last == AlignDown(_end) - 1
       IN mt' = IF last <= first THEN [mt EXCEPT !.ret = "EINVAL"]
                ELSE [mt EXCEPT !.pc = "fill", !.start = first \div WordBytes,
                                !.words = (last - first + 1) \div WordBytes]
  /\ UNCHANGED ram

(* update_progress() and show_progress(): hashes up to the share done. *)
Progress(m, now) ==
  LET share == (now * Hashes) \div (3 * m.words) IN
  IF share > m.printed THEN [m EXCEPT !.printed = share] ELSE m
Updated(m, now) == IF now % Page = 0 THEN Progress(m, now) ELSE m

Advance(m, next) ==
  IF m.offset + 1 < m.words THEN [m EXCEPT !.offset = @ + 1]
  ELSE [m EXCEPT !.offset = 0, !.pc = next]

(* The pattern of a word is its number, counted from 1. *)
Pattern == (mt.offset + 1) % Pow2[RamBits]
Address == mt.start + mt.offset

Fill ==
  /\ mt.pc = "fill"
  /\ ram' = [ram EXCEPT !.mem = Written(Address, Pattern)]
  /\ mt' = Advance(Updated(mt, mt.offset), "invert")

(* A pass that checks a word and writes the next value, or reports it. *)
Check(pc, base, expected, value, next) ==
  LET m == Updated(mt, base + mt.offset) IN
  /\ mt.pc = pc
  /\ \/ /\ Read(Address) = expected
        /\ ram' = [ram EXCEPT !.mem = Written(Address, value)]
        /\ mt' = Advance(m, next)
     \/ /\ Read(Address) # expected
        /\ mt' = [m EXCEPT !.pc = "idle", !.ret = "EIO", !.at = Address,
                           !.expected = expected, !.actual = Read(Address)]
        /\ UNCHANGED ram

Invert == Check("invert", mt.words, Pattern, Inverted(Pattern), "zero")
ZeroBug ==
  /\ mt.pc = "zero"
  /\ ram' = [ram EXCEPT !.mem = Written(Address, 0)]
  /\ mt' = Advance(Updated(mt, 2 * mt.words + mt.offset), "end")

Zero == Check("zero", 2 * mt.words, Inverted(Pattern), 0, "end")

MemEnd ==
  /\ mt.pc = "end"
  /\ mt' = [Progress(mt, 3 * mt.words) EXCEPT !.pc = "idle", !.ret = "0"]
  /\ UNCHANGED ram

MemNext == MemStart \/ Fill \/ Invert \/ Zero \/ MemEnd

MemSpec == MemInit /\ [][MemNext]_memVars

-----------------------------------------------------------------------------

Region == mt.start .. mt.start + mt.words - 1

(* The fault disturbs a word of the region by what the test does there. *)
Harmful ==
  LET f == ram.fault IN
  \/ f.kind = "stuck" /\ f.w \in Region
  \/ f.kind \in {"alias", "couple"} /\ f.a \in Region /\ f.w \in Region

(* A test that ends has told the truth: a region without a fault passes    *)
(* and is left zeroed with the bar full, its surroundings untouched; one   *)
(* with a fault does not pass, whichever bit it is and in whichever order  *)
(* the passes meet the words of the fault, and what is reported is a word  *)
(* of the region that really read differently.                             *)
MemTestTruth ==
  /\ mt.ret = "0" => /\ ~Harmful
                     /\ \A x \in Region : Read(x) = 0
                     /\ mt.printed = Hashes
  /\ mt.ret = "EIO" => /\ ram.fault.kind # "none"
                       /\ mt.at \in Region /\ mt.actual # mt.expected
  /\ ram.fault.kind \in {"none", "stuck"} =>
       \A x, y \in Cells \ Region : ram.mem[x] = ram.mem[y]
=============================================================================
