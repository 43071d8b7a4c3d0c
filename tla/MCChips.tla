------------------------------- MODULE MCChips -------------------------------
(* A program of decode-reg's kind, which does one thing with a board: it accesses    *)
(* the registers of the chips on an SPI bus, makes the methods of ad9510's           *)
(* controller work on its chip, searches for cores and for the two chips, writes the *)
(* coefficients of filters, or prints the records of pos_calc's FIFO.                *)
EXTENDS Devices

CONSTANT Subjects
VARIABLE subject

busVars == <<chips, hw, regs, phase, call, rdata, before, sent>>
clockVars == <<buffer, active, pending, script, at, losses, returned, called, told, failed>>
sdbVars == <<sdb, memory, search, record, pos, found>>
filterVars == <<num, words, copies, biquads, step, place>>
fifoVars == <<fifo, out, made, mode, turn, amps, taken, shown>>

-----------------------------------------------------------------------------
\* set_defaults with one of its eighteen registers and the three writes of FUNCTION
\* that make the software synchronization; the A divider, and the B divider with two
\* values that differ in both bytes.
Set(r, v) == [op |-> "set", reg |-> r, value |-> v]
Update == [op |-> "update", reg |-> "update", value |-> 1]
MCDefaults ==
  <<Set("pll", 3), Set("function", 1), Update, Set("function", 2), Update,
    Set("function", 1), Update>>
SetA(v) == <<Set("a", v), Update>>
SetB(low, high) == <<Set("b_low", low), Set("b_high", high), Update>>
MCDividers == {SetA(1), SetB(1, 2), SetB(3, 4)}
MCRegisters == {"pll", "function", "a", "b_low", "b_high"}
MCFragile == MCRegisters \cup {"update"}

\* Boards whose mezzanines have an FMC250M_4CH, three SPI cores after it, and an
\* FMC_ACTIVE_CLK before the last or the first of them; one with none.
MCBoards ==
  {<<"other", "core", "f250", "spi", "spi", "fac", "spi", "core", "f250", "spi", "spi",
     "fac", "spi", "other">>,
   <<"core", "f250", "fac", "spi", "other", "spi", "spi", "spi">>,
   <<"fac", "spi", "fac", "spi">>,
   <<"core", "other", "spi">>}

\* Two controllers; channels of two biquads at most, of two coefficients and a word that
\* is not used, and a word after them.
MCFilters(u) == IF u = "u1" THEN {"f1", "f2"} ELSE {"f3"}

-----------------------------------------------------------------------------
\* What is not the subject is as it was on one board before the program began.
MCInit ==
  /\ subject \in Subjects
  /\ Bus!Init /\ Clock!Init /\ Sdb!Init /\ Shaper!Init /\ Fifo!Init
  /\ subject # "spi" => chips = [s \in Slaves |-> [a \in Addrs |-> 0]]
  /\ subject # "sdb" => Len(sdb) = 3
  /\ subject # "filter" => num = 0
  /\ subject # "fifo" => made = 0

Still(variables) == UNCHANGED <<subject, variables>>

MCNext ==
  \/ subject = "spi" /\ Bus!Next /\ Still(<<clockVars, sdbVars, filterVars, fifoVars>>)
  \/ subject = "ad9510" /\ Clock!Next /\ Still(<<busVars, sdbVars, filterVars, fifoVars>>)
  \/ subject = "sdb" /\ Sdb!Next /\ Still(<<busVars, clockVars, filterVars, fifoVars>>)
  \/ subject = "filter" /\ Shaper!Next /\ Still(<<busVars, clockVars, sdbVars, fifoVars>>)
  \/ subject = "fifo" /\ Fifo!Next /\ Still(<<busVars, clockVars, sdbVars, filterVars>>)

\* What is not the subject has not begun, and nothing that is fair about it is enabled.
MCSpec ==
  /\ MCInit /\ [][MCNext]_<<subject, busVars, clockVars, sdbVars, filterVars, fifoVars>>
  /\ Bus!Fairness /\ Fifo!Fairness
==============================================================================
