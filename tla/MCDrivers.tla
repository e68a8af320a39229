------------------------------ MODULE MCDrivers -------------------------------
(* The interpreter and the drivers, which share no variable, checked one   *)
(* at a time on small instances: the loop over a line, the pins of both    *)
(* bus modes, the clock, the console, the memory test.                     *)
EXTENDS CommandLoop, SPIMode, Clock, Console, MemTest, TLC

CONSTANT Parts      \* those at work

VARIABLE part

(* Lines of up to three characters over an alphabet with members of each   *)
(* kind the interpreter tells apart; 8 is a digit that is not octal.  I2C  *)
(* stands for both bus modes, whose parsers differ in one command, S.      *)
MCDigit == ("0" :> 0) @@ ("2" :> 2) @@ ("8" :> 8)
MCModeNames == <<"HiZ", "I2C">>
MCBusCommands == ("HiZ" :> {}) @@ ("I2C" :> {"]"})
MCModeLines == {<<>>, <<"2">>, <<"0", "2">>, <<"8">>, <<"0", "x", "2">>}

(* Keys that read_key() takes whole, in its table or not.                  *)
MCTyped == {<<"x">>, <<"~">>, <<"ESC", "O", "A">>, <<"ESC", "[", "Z">>,
            <<"ESC", "[", "3", "~">>, <<"ESC", "[", "1", "5", "~">>,
            <<"ESC", "[", "3", ";", "2", "~">>, <<"ESC", "[", "1", ";", "5", "A">>}
(* Shift-F5 is longer than the esc[] of read_key().                        *)
MCShiftF5 == {<<"x">>, <<"ESC", "[", "1", "5", ";", "2", "~">>}
MCTexts == {<<>>, <<"x", "LF", "LF">>, <<"LF", "x">>}

mcVars == <<vars, spiVars, clk, consoleVars, memVars, part>>

MCInit ==
  /\ part \in Parts
  /\ Init /\ (part # "line" => \A i \in Positions : cmdbuf[i] = Nul)
  /\ SpiInit /\ (part # "pins" => dirout = {} /\ spi.mode = 0)
  /\ ClockInit
  /\ ConsoleInit
  /\ MemInit /\ (part # "memory" => ram.fault.kind = "none" /\ ram.mem[0] = 0)

MCNext ==
  \/ part = "line" /\ Next /\ UNCHANGED <<spiVars, clk, consoleVars, memVars, part>>
  \/ part = "pins" /\ SpiNext /\ UNCHANGED <<vars, clk, consoleVars, memVars, part>>
  \/ part = "clock" /\ ClockNext /\ UNCHANGED <<vars, spiVars, consoleVars, memVars, part>>
  \/ part = "console" /\ ConsoleNext /\ UNCHANGED <<vars, spiVars, clk, memVars, part>>
  \/ part = "memory" /\ MemNext /\ UNCHANGED <<vars, spiVars, clk, consoleVars, part>>

MCSpec == MCInit /\ [][MCNext]_mcVars /\ WF_vars(Interpret) /\ ClockFair
===============================================================================
