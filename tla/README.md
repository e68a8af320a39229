# Bus Spider firmware: models, checks and proofs

TLA+ models of the firmware in `src/`: a command line on a serial console that
drives I2C and SPI buses by moving GPIO pins, in the manner of a Bus Pirate, on
a small RISC-V board. There is one processor, no interrupts and no threads. What
makes the code hard is elsewhere: state that survives from one command to the
next (bytes of buffers, the pending acknowledge, levels of pins, history
pointers), a device on the other end of the bus that does as it likes, relative
painting on a terminal, an allocator whose structures are threaded through the
memory it manages, and arithmetic that wraps.

## The system

| Component | State | Operations | Talks to |
|---|---|---|---|
| line editor (`readline.c`, copies in `libbb.c`, `string.c`) | caller's buffer, `num`, `eol_num`, `insert`; history list and `history_current`; the terminal row | one per key; entry, Enter, ^C | interpreter (returns a string), heap (history lines), terminal |
| interpreter (`bus_spider.c`, `hiz_mode.c`, `strtox.c`) | `mode`, `cmdbuf`, `curchar` | one per character; mode prompt | line editor, modes through `struct mode` |
| I2C mode (`i2c_mode.c`, `i2c-algo-bit.c`, `i2c0.c`) | `ack_pending`, pin directions, locals of the bit loops | `[` `]` `r` number `S`, choosing the mode | wires and the device on them, clock |
| SPI mode (`spi_mode.c`, `spi0.c`, `spi-bitbang-txrx.h`) | `opaque`, the shadow of the value register; clock mode; the word being shifted | `[` `]` `r` number, choosing the mode | the device on the pins; the GPIO registers it shares with I2C |
| heap (`tlsf.c`, `tlsf_malloc.c`, `memory.c`) | block headers, free lists, bitmaps | create, malloc, calloc, free, realloc, memalign | history |
| clock (`clock.c`, `riscv_timer.c`) | counter, last value, nanoseconds | read, timeout, delays | I2C (the SPI delays are empty) |
| key decoder (`readkey.c`) | bytes of an escape sequence | read a key | UART, line editor |
| UART (`debug_ll_ns16550.h`, `debug_ll.h`) | receive and transmit registers | read a byte, write a byte, write a text | key decoder, printing |
| memory test (`memtest.c`) | the RAM | three passes at start | RAM |
| printing (`vsprintf.c`, `console_common.c`) | the 128-byte buffer of `printf` | format | everything |
| strings (`string.c`) | the position of `strtok()`; otherwise the caller's bytes | copy, compare, search, cut | everything |
| lists (`list.h`) | pointers in heads and entries | add, remove, move, replace, splice, walk | history, modes, clock sources |
| numbers (`strtox.c`, `div.S`, `div64.c`, `muldi3.c`, shifts, bit scans) | none | convert, divide, multiply, shift | interpreter, clock, heap |

What has to be right, component by component:

* line editor: no store outside the caller's buffer; the line holds only typed
  characters; the screen shows the line and the cursor; what the caller finds is
  the line; the history is sound; ^W ends.
* interpreter: every character of a line is executed once, none of another line
  is; every line ends. The code keeps this for lines whose numbers are followed by
  blanks; of others, what is passed over stands behind a digit.
* I2C: no unintended START or STOP; firmware and device agree on where in a byte
  they are; bytes arrive as sent; acknowledges reported were given; every command
  ends though the device may hold the clock.
* heap: blocks tile the pool, no two neighbours are free, lists and bitmaps agree
  with the blocks, live blocks never overlap.
* SPI: between `[` and `]` the device is selected and at a byte boundary; each byte
  arrives as sent and is read as given, whatever mode used the pins before.
* clock: no delay is too short and every timeout expires, across every wrap; the
  conversion to nanoseconds is exact up to its rounding and to whole words (it
  returns 32 bits).
* console: a key consumes its own bytes and no other, which holds of the sequences
  `read_key()` takes whole and of no others; no byte of output is lost.
* memory test: a fault in the region is reported and a sound region passes; nothing
  outside is written.
* library: each function does what its comment promises, at the limits too.

## Modules

* `EditableLine`: the abstract editor. A sequence of characters, a cursor, a log.
* `LineEdit`: `readline()`. One action per key, named after it; `buf`, `num`,
  `eol`, `insert` and `hist`/`hcur` are the variables of the code. `tty` is the
  terminal row: `Echo`, `PutSpaces` and `Back` are what a terminal does with
  characters and backspaces, so every painting loop is modelled by the cells it
  overwrites and where it leaves the cursor. Beeps change nothing and are left
  out. ^W takes a step per character because its loops run on state; the other
  keys are one step, since nothing interleaves with them. The buffer of each call
  holds arbitrary bytes, as a local array does. `strdup()` failing forgets the
  line, `xzalloc()` failing stops the firmware (`halt`).
* `LineEditProofs`: theorems about `LineEdit`, the refinement of `EditableLine` with
  them.
* `Bits`: powers of two and the bits of a number. `NumberLemmas`: induction and
  recursion over the naturals, stated of sets and functions so that the provers can
  use them, and what they give for powers of two.
* `I2CBus`: the two wires, the pins and a device. The device is outside the
  repository: it follows the bus rules the comments of `i2c-algo-bit.c` assume.
  It may refuse any byte, stretch the clock after any falling edge for any time,
  and send any byte.
* `I2CMode`: `i2c_mode.c` over `i2c-algo-bit.c`. `pc` names the next access to a
  pin, one step per access, so that the device may act between any two. `sclhi()`
  is the pair `rise`, `poll`/`last` and returns to `cont`. A variable `clean`
  records that the frame began with a START on free wires and no clock timed out;
  the properties about bytes are stated for clean frames, because the code has no
  recovery after a timeout.
* `I2CModeProofs`, `TLSFProofs`, `LinkedListProofs`: theorems about the module each is
  named after; `TLSFProofs` and `LinkedListProofs` also have the refinements of
  `AbstractHeap` and `AbstractLists`. `DriverProofs`: theorems about `Clock`, `MemTest`,
  `SPIMode` and `Console`, which share no variable. `LibraryProofs`: theorems about
  `Arith` and `Format`, `TextProofs`: theorems about `CommandLoop` and `Strings`, which
  share none either.
* `CommandLoop`: `bus_spider()` on the bytes of `cmdbuf`. What `readline()` leaves
  there is taken from `LineEdit` (`ReturnedString`, and the bytes behind the NUL).
  The auxiliary variables `seen` and `gone` record which positions of the line were
  interpreted and which hold discarded text. The cursor advances without a check, as
  `curchar++` does; once it is past the array (`Wild`), the model says no more.
* `AbstractHeap`: what a heap promises its callers. Each holds a range of words
  that overlaps no other, what he stored there stays, a reallocation keeps the
  common part, a call that fails changes nothing.
* `TLSF`: `tlsf.c` and `tlsf_malloc.c` on the words of the pool. `heap.mem` holds
  the words, `heap.fl`, `heap.sl` and `heap.head` the bitmaps and list heads of
  `pool_t`. Headers overlap their neighbours as in the code, and links and back
  pointers lie where users store, so a header read too late or written too early
  is a wrong word in the model too. Operators carry the names of the `block_...`
  functions; a call of `malloc()`, `calloc()`, `free()`, `realloc()` or `memalign()` is
  one action, with the stores of its user (all he may write) in it. `live` is what
  users asked for. When an index leaves the tables (`OutOfRange`, in any of the calls
  that search) the model stops with `lost`, and so it does when `calloc()` gets no
  block and stores its zeros through a null pointer. No caller in the program meets
  the latter: `xzalloc()` checks what `malloc()` returned. `memory.c` gives the pool 388 bytes and calls `tlsf_create()`, which
  is `Create`.
* `GPIO`: the two registers the bus drivers share, as sets of pins. `spi0.c` clears
  the direction bit of a pin it drives and `i2c0.c` sets it; the hardware is not in
  the repository, so the polarity is a constant (`OutBit`).
* `SPIMode`: `spi_mode.c` over the bit loops, one step per write of a register, and a
  device that samples on one edge and moves its line on the other. `opaque` is the
  shadow of `spi0.c`. Between commands the mode may change and the I2C driver may
  write its pins.
* `Clock`: the counter runs by itself; `InitClock` picks `mult` and `shift`, `Delay`
  starts one of the loops, `Poll` is a turn of it. Words are `CycleBits` wide and
  `uint64_t` is twice that, so every wrap of the code is there.
* `Console`: `read_key()` byte by byte and `puts_ll()` byte by byte, against a
  terminal that types ahead and a transmitter that takes its time. The terminal may
  send anything; `WellFormed` are the sequences `read_key()` takes whole, `Keyboard`
  says that no key has another.
* `MemTest`: the three passes, a word a step, on a RAM with at most one fault: a stuck
  bit, two addresses of one cell, or a cell that disturbs another.
* `Format`: `vsnprintf()`, a character of the format a step, and the functions that
  call it. Each action applies one function of the call (`TextTaken`, `FlagTaken`, ...),
  and `number()` takes digits in the loop of the code, last digit first. `room` is the true size of the buffer, `size` what the callee is told.
* `Strings`: the functions of `string.c` on a memory of a few bytes, and every call their
  contracts allow. Loops of one form are one recursive function of a record of their
  variables, which accesses one byte a turn in the order of the code: searching up
  (`Seek`) and down, comparing (`Agree`), copying up (`Copy`) and down, filling and
  swapping. A loop without a count has one it does not reach (`NoLimit`).
* `AbstractLists`, `LinkedList`: sequences, and the pointers that are to behave like
  them. The pointers of a node that is in no list are not read by anyone; `Forget`
  drops them from the state.
* `Arith`: division, multiplication, shifts, bit scans and `strtoul()` and its kin on
  words of any width, each loop as a recursive function of a record of its registers.
  As in the code, a leading `0x` is skipped for any base.
* `MCLineEdit`, `MCI2C`, `MCHeap`: values for the constants. `MCDrivers` (the
  interpreter and the drivers) and `MCLibrary` put components that share no variable side by side;
  `part` says which of them a behaviour is about, so that their states do not
  multiply.

How the modules meet. `CommandLoop` reads the buffer `LineEdit` fills; `LineEdit` reads
the keys `Console` returns (all that `read_key()` can return are keys of the model) and
asks `TLSF` for the two allocations of `cread_add_to_hist()`; `I2CMode` has `SclExpire`
where `is_timeout()` becomes true, which it does by `DelayEnds` of `Clock`; `SPIMode` and
the I2C driver share `GPIO`. In the first three each side is modelled by what the
other allows, and the modules are not composed.

Operators whose name ends in `Bug` are the definition that follows them with one
plausible mistake. No behaviour uses them; they are put in its place to see that
each property notices.

## Runs

| Run | Configuration | Shows |
|---|---|---|
| `line_edit` | `MCLineEdit.cfg`: buffers of 2 and 3 bytes, 2 characters, history of 2, fairness | the invariants of the editor over all sequences of keys and calls, `EditsALine` (refinement of `EditableLine`) and `EraseWordEnds` |
| `i2c` | `MCI2C.cfg`: bytes of 3 bits, device at address 2, scan of 2..3, fairness | the invariants and action properties of I2C (its types are left to the theorem `I2CTyped`), and `CommandEnds` |
| `heap` | `MCHeap.cfg`: 60 bytes, requests of 0, 28, 127, 128, the first three with zeros too, resizes to 8, 32 and 127, users who store 5 | `BlocksTile`, `NeighboursAgree`, `GoodFit`, and `KeepsPromise` (refinement of `AbstractHeap`) |
| `heap_lists` | `MCHeapLists.cfg`: 76 bytes, requests of 12, resizes to 28, `memalign(8, 4)` and `memalign(8, 100)` | `ListsExact`, `UsedAreHeld` |
| `drivers` | `MCDrivers.cfg`: lines of up to 3 characters in 4 bytes, an alphabet with one of each kind; small instances of the drivers; fairness of the interpreter and of the waiting loops | `NulPassedByNumberOnly`, `SpacedLineIsExact`, `LineEnds`; `SpiFrameExact`; `ConversionExact`, `DelayNotShort`, `DelayEnds`; `ConsoleExact`; `MemTestTruth` (types are a part of the invariants proved) |
| `library` | `MCLibrary.cfg` | `BufferExact`, `TextExact`, `StringsExact`, `ListsMirror`, `ArithExact`, and `KeepsLists` (refinement of `AbstractLists`) |

Bounds. Two buffer lengths and a shared history give a line recalled into a buffer
too short for it; a row as wide as the longest buffer is enough, because no key
paints further than the line or the erased line. Two characters, the blank and
another, are all that ^W tells apart. Three bits per byte are an address of two
bits and the direction bit; the bit loops are uniform in the number of bits, and
first, middle and last bit are all there. In `CommandLoop` lines of three
characters hold a number with a prefix, a number and its successor, and a number at
the very end of the array; I2C stands for both bus modes, whose parsers differ in one
command (`S`); `Junk` bounds what the stack holds at power-up to a NUL
or a digit, the second being what leads on.

For the heap, one second-level bit and sizes below 128 give first-level indices
0 to 4 and two lists in each: small sizes, sizes of one list and of several, and
sizes too large. In 60 bytes there are up to four blocks, so a block has
neighbours on both sides, used or free; the stored value and the zeros of `calloc()`
tell whose data a word holds, and a single misplaced word shows. Neither is a
header, so what users store differs from what it overwrites. In 76 bytes five smallest blocks
fit, three of them free in one list with used blocks between, so that merging takes
the first, the middle and the last of a list. Requests of 127 and 128 are the two
sides of `block_size_max`; the first is the one that leaves the tables, and a resize to 127 or
an aligned request of 100, which rounds up as far, leaves them in the other calls. The program
has 32 lists per level and 24 levels: the index computation is the same
formula, the number of lists differs.

For the drivers: SPI words of 3 bits carry 2, so the shift that puts the byte at the
top is there, in clock modes 0, 1 (the other phase) and 4 (the other chip select).
The program uses mode 0. The counter has 3 bits, runs at 2 or 5 Hz of a second of
7 ns, one frequency with room for a shift and one where rounding shows, and a
delay may begin after any number of cycles without a reading. A turn of a loop takes one
or two cycles, so counter and clock wrap during a delay but the conversion of a single
turn does not: a turn of the loops is some instructions, far from the 2^32 ns
it would take. Between calls any number of cycles pass, and there the
conversion wraps. Two keys typed ahead show whether one leaves a byte to the next;
the sequences are one of each form `read_key()` takes whole, in its table or not.
`MCKeystrokes.cfg` has one it does not. The
RAM has 4 words of 3 bits and bytes of a half word, so that every region, aligned or
not, of up to 4 words is tested with every fault of the three kinds.

For the library: every set of flags with every width and precision given as digits, as
`*`, negative or absent, every conversion and qualifier, and buffers from no byte to
one more than the text; 4-bit `int`. All memories of 5 bytes of 2 bits ending in NUL,
with all pointers and lengths. Two heads and three entries are what `list_splice()`,
and a middle entry, take; a hash list of the same three. Words of 4 bits, with every
pair of operands but for signed quotients of the most negative number, where `__divdi3`
never returns.

Fairness. The processor runs, so steps of the firmware that are enabled are taken
(`EraseWordStep`, `Firmware`, `Interpret`, `Poll`); the user and the device owe nothing.
The clock advances by itself, at least by a cycle in each turn of a loop, so a poll of
SCL meets its timeout: `SclExpire` is one of the steps of `Firmware`.

## What the code does not do

Six runs are expected to fail; each states what a comment or a help text says and
finds the behaviour of the code that contradicts it.

* `write_ack`: `-ETIMEDOUT` is not 0 and is taken for an acknowledge; a scan lists
  addresses for the same reason.
* `skipped_character`: after a number, the next character is lost; `[5]` sends no
  STOP. When the number ends the line, the lost character is the NUL, and what
  `cmdbuf` holds behind it is executed, text cancelled with ^C included; if it is the
  last byte of the array, the cursor leaves the array. `NulPassedByNumberOnly` says that
  nothing but a digit does this.
* `heap_sizes`: a request rounded up to the largest size reads behind the tables. In
  the program such a request is close to 2^30 bytes, which no caller makes.
* `heap_refused`: `realloc()` to a size too large cuts the block to size 0 and returns
  it.
* `printbuffer`: the banner of the memory test is longer than the 128 bytes `printf()`
  formats into.
* `keystrokes`: of a sequence longer than the five bytes of `esc[]` the rest is typed into
  the line: Shift-F5, ESC [ 1 5 ; 2 ~, leaves a ~.

Others were met and have no run of their own. `clocks_calc_mult_shift()` is asked for a
range of 10 s (`riscv_timer.c:42`), which its comment calls the "guaranteed runtime
conversion range" (`clock.c:97`), and keeps the product within 64 bits; `cyc2ns()` then
returns 32 of them (`clock.h:19`), so a time of more than 2^32 ns, 4.29 s, loses whole
words. `ConversionExact` allows for that and for nothing else but rounding; a delay may
last longer by it, never shorter (`DelayNotShort`): the words lost only make the clock
late. `i2c_stop()` and `_i2c_start()` say
"assert: scl is low" and "assert: scl, sda are high": a scan begins with a STOP on a
high clock, and START does not wait for a device that holds a line. `i2c_scan()`
compares addresses with `min << 1`, so a scan from 1 begins at 2. `tlsf_memalign()`
of 0 bytes with an alignment above 4 trims its block to size 0; the model asks it
for at least a byte. `vscnprintf()` of size 0 returns -1 where its comment says 0.
`strncasecmp()` of length 0 compares without a limit. `__divdi3` of the most negative
number never returns. `spi0.c` lowers the chip select with its first write, so a number
before the first `[` reaches a selected device. A lone ESC takes the next two bytes for
its sequence, and of ESC [ [ A, which some consoles send for F1, the A is left, as in the
run `keystrokes`. `calloc()` does not look at what it got. The last seven have no
caller, or no text that says otherwise.

## Proofs

`LineEditProofs` proves, for every alphabet, set of buffer lengths of at least 2,
row at least as wide, prompt and history bound, that `Spec` implies the type
invariant and `BufferBounds`, `LineIsText`, `ScreenShowsLine`, `NothingLeftBehind`,
`ReturnedString` and `HistoryOK`. The assumptions are the named ASSUMEs of
`LineEdit`.

No one of them is inductive alone. That a store stays in the buffer needs that the
line does; that the screen shows the line needs that the bytes echoed are no NUL
(`%.*s` stops there), which is `LineIsText`; that recalled text has the length
`strlen()` finds needs the types of the history. `IInv` is the conjunction
of `TypeOK`, `BufferBounds`, `LineIsText`, `ScreenShowsLine`, `NothingLeftBehind` and
`CallContext` (while a line is edited, `len` is one of `BufLens`). The lemmas come
in three layers: what `StrnLen`, `MoveDown`, `MoveUp`, `SafeStrncpy` return; what
`Echo`, `PutSpaces`, `Back` and `EraseTail` paint; and that a key which paints the
new line and blanks what was behind it preserves the two properties of the screen.
Then there is one lemma per action. `ReturnedString` and `HistoryOK` are proved on
top of `IInv`.

`EditsALine` is proved step by step: the initial states of `LineEdit` are those of
`EditableLine`, each key is one of its edits, and ^W, which takes a step per character,
maps to a step per character or to a stutter. The same `IInv` supplies the lengths.

`I2CModeProofs` proves the type invariant, the four invariants `InStep`, `WriteHeard`,
`ReadTruth`, `AckNakFindsSdaFree` and the four action properties `NoStrayCondition`,
`LastByteNotAcked`, `StopEndsFrame`, `FoundIsThere`, for bytes of any width from two
bits, any device address and any range of addresses to scan that is not empty after
`min << 1`. `IInv` says where the program is (`Program`: what `cont`, `bit` and `c`
may be at each access), what it then drives (`PinsAre`), that the device keeps the
rules of the bus (`DeviceRules`), and how the two counters meet (`Frame`): as long as no
clock timed out, the firmware at bit `i` of a byte faces a device that has taken the
same bits. `Frame` is the part that needs the others, and the reason no property is
inductive: a step of the device looks at wires only.

`TextProofs` proves `NulPassedByNumberOnly` and `SpacedLineIsExact` for any array length, any
alphabet that keeps NUL, blank and digits apart, digits of up to 15 (`DigitAssumption`),
and any set of modes. The invariant ties `cur` to the two auxiliary sets: everything interpreted lies
before the cursor, what lies before it and was not interpreted stands behind a digit, and
while a spaced line (a blank behind each number) is interpreted the cursor is not past its
NUL. It has no bound on `cur` itself, for the code has none.

`DriverProofs` proves `ConversionExact` and `DelayNotShort` for any width of the counter and
any frequencies up to one cycle per nanosecond: the product of any count and `mult` keeps
within twice the word, `mult` is right to half a unit, so what `cyc2ns()` returns is the
time but for whole words and the rounding; and `Delay` never returns early whatever the
counter does between two polls.
What it takes is named where the constants are: frequencies, the range in seconds and
delays are words (`u32` parameters), the search for a shift begins with one that fits
(`ShiftFits`), and `MaxDelay` is below half of the wide word, where the signed
comparison of `is_timeout()` is that of the numbers, and below `RanCap`, where the
auxiliary count of elapsed cycles stops.

It also proves `MemTestTruth` for a RAM of any size and width with at most one
fault of the three kinds: a test that returns 0 found none in its region and left it
zeroed, one that returns `-EIO` names a word that read differently, and without a fault
between two words its surroundings stay. `RamFits` says that the words of the RAM can be
counted in a word, so that the pattern of the first pass tells addresses apart. The
invariant is a statement about every word behind, at and before the cursor of each pass.

The same module proves `SpiFrameExact` for words of any width, under the hypothesis
`Wiring`: the direction bit is set for an input (`OutBit = 0`), and the modes are those
with the clock low at rest. Both are what `spi0.c` takes for granted: it clears the
direction bit of the pins it drives, and its shadow `opaque` starts at zero, so in
another mode the first access would be a clock edge. The invariant says that shadow,
pins and device follow each other, and that the bits not yet sent and the bits the
device has taken make up the word.

For `Console` it proves `ConsoleExact`, for any texts and any keys that `read_key()` takes
whole: this is the hypothesis `Keyboard`, which the code needs (run `keystrokes`). That each key takes its own
bytes is not inductive, for what is received is a stretch of several sequences, cut
anywhere. `KeyInvariant` says that the bytes of the sequence begun, those stored
in `esc` and those still on the way, one after the other, are the sequences of the keys not yet
returned; from it follows, at each byte, whether the sequence ends there, because
none of the forms is the beginning of another. `OutputInvariant` says the same of a
text: what was sent, the byte in the transmitter and what `puts_ll()` has left make up the
text with a carriage return where it wants one.

`TLSFProofs` proves everything the runs check of the heap, `TypeOK`, `BlocksTile`,
`NeighboursAgree`, `UsedAreHeld`, `GoodFit`, `ListsExact` and the refinement
`KeepsPromise`, for a pool of any size, any number of lists, any sizes asked for and any
numbers stored by users. Two hypotheses are added to the ASSUMEs of `TLSF`:

* `PoolFits`: the pool is smaller than `block_size_max`. `tlsf_create()` also accepts one
  that is exactly as large; its first block would have an index behind the tables. The
  program has 388 bytes and a limit of 2^30.
* `RequestsFit`: `realloc()` and `memalign()` are asked for sizes below
  `block_size_max`, the latter for at least a byte. A size that the adjustment turns to
  0 trims the block to nothing; this is what the run `heap_refused` shows.
  `malloc()` may be asked for anything.

Both hold in the configurations of `heap` and `heap_lists`.

None of the six invariants is inductive. Whether a search finds a block depends on
the lists, unlinking on the links in both directions, merging on the flags and the
pointer in front of a header, and all of them on where blocks begin, which is known
only by walking from the first. A walk is recursive, and a proof by walking would be an
induction at every step. So the invariant `HeapInv` names the result of the walks
instead: there are a set `B` of blocks and a set `F` of free ones among them such that

* `Tiled`: `B` has the first block and the sentinel, each block ends where another of `B`
  begins, and no two overlap;
* `Flagged`: the two flags of each header say which blocks are in `F`, and the word in
  front of the next header leads back to a free block;
* `Linked`: the links of `F` agree in both directions, each head is the block of its list
  without one in front, each bit says whether the head is null, and the blocks
  can be ranked so that a link leads to a lower rank (there are no rings);
* `Lonely`: no two blocks of `F` are neighbours;
* the rest of `B` are the blocks of the pointers in `live`, each as large and as
  aligned as asked for.

Because it speaks of sets that exist, TLC does not evaluate `HeapInv` itself; what the
runs check are its parts as the walks see them. The two views are joined by lemmas
which show that the walk `Blocks` returns `B` and that the lists `Listed` return `F`.

The proof follows the code from the bottom up. First what addresses and headers
are, then what each store changes and spares; the index computation (`Rounded`
sizes search at or above where blocks of that size are filed); unlinking and
linking in one list, with the new heads, bits and ranks; marking, splitting and
merging, which pass through heaps with one block that is free and in no list
(`Loose`), the states between two statements of the code. From these follow three
lemmas about whole calls: a call hands out a block no one held (`Allocates`),
takes one back (`Releases`), or exchanges one for another that begins with the same
words (`Resized`), and each spares the words inside the blocks of all others. Every step of the
specification is one of these or changes nothing (`Steps`), so the invariant has
four cases instead of one per path, and each of them is an action of
`AbstractHeap`, which is the refinement.

`LinkedListProofs` proves `ListsMirror` and the refinement `KeepsLists` for any heads and
any finite set of entries. The operations are written on pointers and the promise on
sequences, and only walking relates the two; so the invariant `Held` says of the
sequences `Walked` shows that the pointers are what they would be if made from
them: for the ring of a head with sequence `s`, `next` and `prev` lead from each cell
of `s` to its neighbours (`Shows`), for a hash list each entry's back pointer is the slot
in front of it (`Hangs`), and `Placed` ties the sequences to the states of the nodes: no
entry twice in one list or in two. `ListsMirror` itself is not inductive: two entries
that point at each other satisfy it and are in no list. One lemma per kind of
change shows what its writes make of a ring (`Inserted`, `Removed`, `Replaced`,
`Spliced`, `Cleared`) or of a hash list (`PutIs`, `TakenIs`), in the order of the code, with
the cases where nodes coincide, a ring of one and neighbours of the ends; rings
that share no node with the change stay (`Elsewhere`). That the walk of `Round` ends, at
the head and after all entries, is shown from the pointers (`RoundIs`); it needs the
entries to be finitely many. The sequences are operated on by the same functions the
promise uses, so each step of the specification is the step of `AbstractLists` with
its name.

`LibraryProofs` proves `ArithExact` for words of any width that is a power of two (the scans
halve it) and every operand of each call; the lemmas about numerals hold for strings
of any length, the calls of the specification type at most four characters. The loops
of the code are recursive functions of the record of their registers. Induction over
such records is not to be had, but their states have a measure that falls with each
turn: bits the divisor lacks, the multiplier, the reach of a scan, characters left.
`LoopExists` derives from `NatInductive` that the function exists, which TLA+ does not
promise of a recursive definition, and `LoopEnds` that what each turn keeps holds of the
registers at the end. What is kept is the reason each routine is right:

* division: dividend = divisor * quotient + remainder, with the remainder below twice the
  divisor as shifted so far; doubling stops in time because a word whose top bit is
  set is negative to the comparison (`ScaleEnds`);
* product: the sum so far and the product of what is left, modulo the word; the four
  partial products carry at most one (`MulPpmmMultiplies`);
* shifts: the bits that cross from one word to the other are those that leave it;
* scans: the bit is less than twice the reach away (`Within`);
* numerals: the value of the digits taken, modulo the word. `NumeralIn` weighs each digit
  by the power of its place, the code goes by Horner's rule (`NumeralGrows`).

For `Format` it proves `BufferExact` (`BufferHoldsText`), for any format, any arguments
and any size: in the buffer is as much of the text as there is room for and then a NUL,
no byte behind it is written, and the length of the whole text is returned. There are
two hypotheses:

* `TrueSizes`: no caller names a size larger than its buffer. `printf()` and `sprintf()`
  do not keep to that, the run `printbuffer` shows what comes of it;
* `ArgFits`, at each step: a directive that takes an argument finds one of its kind,
  which is what C asks of callers. The jobs of the run `library` satisfy both.

What is kept from step to step is that the text is a sequence as long as `str` has
come and that the buffer shows it as far as its size allows (`Holds`). The part that is
not inductive is `vasprintf()`, which runs twice and allocates for the second run what
the first one measured; that the second text fits is a fact about two runs. So each
step in the format is shown to be a function of what the call still has in front of it
(`SteppedAlike`), `Run` names the states of a call from its begin, and two runs over one
format that end are equally long (`RunsEnd`). `FormatInv` says that a call is on such a run,
and in its second one that the buffer has the length of a run that ended. Which
characters a directive puts out plays no part; that is `TextExact`.

For `Strings`, `TextProofs` proves `StringsExact` (`StringsHold`): for a memory of any size,
characters of any width, any class of blanks and any `tolower()` that keeps the NUL
apart, each call does what it says of whole texts and areas and touches no other byte.
The specification is the one TLC runs, whose calls keep to the contracts: areas lie
in the memory, they overlap only where `memmove()` allows it, and the last byte is a NUL.
The argument has three layers:

* each loop is a function, for its count falls (`SeekLoops`, `CopyLoops`, ...), and it
  ends where its reader would say: at the first byte of a set (`SeekIs`), at the first pair
  that differs (`PartingIs`), with exactly the bytes copied up to where it stopped
  (`MoveIs`). A copy upwards is right when the target is below or apart, a copy
  downwards when it is above (`MovedOne`, `AboveOne`); that is why `memmove()` has two loops;
* each function is then a statement about sequences: `strncpy()` writes the first n of
  text and NUL, `strstr()` finds the least place at which the other text stands,
  `memchr_inv()` finds the same with and without its chunks. That the result of
  `strncmp()` survives being cut to a `signed char` is because two characters that
  differ do so by less than their number (`StrncmpIs`);
* the tokens take several calls. `TokensExact` speaks of all of them at the end, so the
  invariant `StringsInv` adds where the calls have got to (`TokensGo`): all
  tokens before the pointer that is kept are given and end at a NUL, and from the pointer
  on nothing was written.

Only model-checked: `TextExact`, that the text formatted is the one the format asks
for, and the liveness properties `EraseWordEnds`, `CommandEnds`, `LineEnds` and `DelayEnds`
(TLAPS has no support for ENABLED). `TextExact` compares what `vsnprintf()` puts out for
the jobs listed in `MCLibrary` with what each job says of itself; it is a statement
about these jobs, not about every format. For formats in general there is no
specification in the repository to compare with, other than the code.

## Not modelled

* Start-up (`startup.S`, `main.c`, linker script): a straight sequence that nothing
  disturbs. The divisor set-up of the UART is a fixed sequence of stores to registers
  the repository does not describe.
* `ctype.c`, `swab.h`, `hweight`, `xfuncs` wrappers, compiler and type headers: tables,
  imported macros and wrappers without state and mostly without callers.
* `strdup()`, `memdup()` (an allocation and a copy, both modelled) and `strtobool()`.
* Functions without a caller in this program: `i2c_repstart`, `readbytes`, `acknak` of
  `i2c-algo-bit.c`, `clocksource_hz2mult`. `tlsf_memalign` has none either and is kept,
  as a part of the allocator's interface.
* Wording and layout of what is printed, where no property is about it.

## Plan

1. A grammar of formats that says what a directive puts out, in place of the jobs of
   `TextExact`, and the conversions of `Format` against it by the loop rule of
   `NumberLemmas`.
2. Compositions: `LineEdit` with `TLSF` in place of allocations that may fail, then
   with `Console` in place of keys.
