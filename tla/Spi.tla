--------------------------------- MODULE Spi ---------------------------------
(***************************************************************************)
(* spi::Controller (modules/spi.cc), the core that it drives, the chips on *)
(* its bus, and the accesses to the registers of these that are made of    *)
(* its transfers (modules/ad9510.cc, modules/isla216p.cc).                 *)
(*                                                                         *)
(* A byte has B values here, 0 .. B-1, and the upper half of them are the  *)
(* first bytes of a read (0x80).  A register is its four bytes, the        *)
(* highest one first.  One thread uses the controller.                     *)
(***************************************************************************)
EXTENDS Integers, Sequences

CONSTANTS
  B,         \* values of a byte (256)
  Slaves,    \* slaves that the core can select (0 .. 7)
  Channels,  \* channels that a Channel can be made of (0 .. 8)
  Addrs,     \* addresses of the chips' registers
  Values,    \* values that the client writes to them
  Kinds      \* accesses that the client makes, of the ones below

VARIABLES
  chips,   \* the registers of each slave
  hw,      \* the core's registers
  regs,    \* the controller's
  pc,      \* where the controller's thread is
  call,    \* the access that it makes
  rdata,   \* the byte that was read
  before,  \* (history) the chips' registers when the access began
  sent     \* (history) transfers since then

vars == <<chips, hw, regs, pc, call, rdata, before, sent>>

Bytes == 0 .. B-1
Nobody == -1
NoWord == [i \in 1 .. 4 |-> 0]
NoRegs == [x |-> NoWord, charlen |-> 0, ss |-> Nobody, bsy |-> FALSE]
NoCall == [kind |-> "none", addr |-> 0, value |-> 0, channel |-> 0]
NoAnswer == 0

Init ==
  /\ chips \in {[s \in Slaves |-> [a \in Addrs |-> v]] : v \in Values}
  /\ hw = [x |-> NoWord, charlen |-> 0, ss |-> Nobody, bsy |-> FALSE, rx |-> NoAnswer]
  /\ regs = NoRegs
  /\ pc = "new"
  /\ call = NoCall
  /\ rdata = NoAnswer
  /\ before = chips
  /\ sent = 0

-----------------------------------------------------------------------------
(* What the accesses send.  "get" and "set" can be made by any client of   *)
(* write_read_data; the others are the ones of two classes that differ.    *)
(* ad9510::Controller has no use for its channel, and its transfers go to  *)
(* the one that write_read_data has by default.                            *)
Read == B \div 2     \* "read 1 byte"
Write == 0           \* "write 1 byte"

Wdata(c) ==
  CASE c.kind \in {"get", "ad9510_get"} -> <<Read, c.addr>>
    [] c.kind \in {"set", "ad9510_set"} -> <<Write, c.addr, c.value>>
    [] c.kind = "isla_set" -> <<Write, c.addr>>
Rsize(c) == IF c.kind \in {"set", "ad9510_set"} THEN 0 ELSE 1
Slave(c) == IF c.kind \in {"ad9510_get", "ad9510_set"} THEN 0 ELSE c.channel
\* Whether the caller means to write.
IsSet(c) == c.kind \in {"set", "ad9510_set", "isla_set"}

-----------------------------------------------------------------------------
(* The core and the chips.                                                 *)
\* The charlen lowest bytes of x, the highest one first.
Shifted(x, charlen) == [i \in 1 .. charlen |-> x[4 - charlen + i]]

\* A chip takes three bytes: what to do, the address, and the value to write.
Answer(s, bytes) ==
  IF Len(bytes) = 3 /\ bytes[1] >= Read /\ bytes[2] \in Addrs
    THEN chips[s][bytes[2]] ELSE NoAnswer
Takes(s, bytes) ==
  IF Len(bytes) = 3 /\ bytes[1] < Read /\ bytes[2] \in Addrs
    THEN [chips[s] EXCEPT ![bytes[2]] = bytes[3]] ELSE chips[s]

Transfer ==
  /\ hw.bsy
  /\ LET bytes == Shifted(hw.x, hw.charlen)
     IN  IF hw.ss \in Slaves
           THEN /\ chips' = [chips EXCEPT ![hw.ss] = Takes(hw.ss, bytes)]
                /\ hw' = [hw EXCEPT !.bsy = FALSE, !.rx = Answer(hw.ss, bytes)]
           ELSE /\ hw' = [hw EXCEPT !.bsy = FALSE, !.rx = NoAnswer]
                /\ UNCHANGED chips
  /\ sent' = sent + 1
  /\ UNCHANGED <<regs, pc, call, rdata, before>>

-----------------------------------------------------------------------------
(* The controller.  The definitions named after a slip are mutants.        *)
\* write_params: a write with BSY makes the core begin a transfer.
CoreWritten(r) ==
  hw' = [x |-> r.x, charlen |-> r.charlen, ss |-> r.ss, bsy |-> hw.bsy \/ r.bsy,
         rx |-> hw.rx]

\* set_devinfo, with the write_params of set_defaults.
SetDevinfo ==
  /\ pc = "new"
  /\ CoreWritten(regs)
  /\ pc' = "idle"
  /\ UNCHANGED <<chips, regs, call, rdata, before, sent>>

\* The word that write_read_data makes of wdata: copied to the register and turned
\* around, so that its highest bytes have it, shifted to the lowest ones, and shifted
\* again so that there is room for the answer.
Copied(w) == [i \in 1 .. 4 |-> IF i <= Len(w) THEN w[i] ELSE 0]
ShiftRight(x, n) == [i \in 1 .. 4 |-> IF i - n >= 1 THEN x[i - n] ELSE 0]
ShiftLeft(x, n) == [i \in 1 .. 4 |-> IF i + n <= 4 THEN x[i + n] ELSE 0]
Word(w, rsize) == ShiftLeft(ShiftRight(Copied(w), 4 - Len(w)), rsize)

\* write_read_data up to its first write.  clear_and_insert does not find room for
\* the bit of a channel past the last slave.
Call(c) ==
  /\ pc = "idle"
  /\ call' = c
  /\ before' = chips
  /\ sent' = 0
  /\ IF Slave(c) \in Slaves
       THEN /\ pc' = "write"
            /\ regs' = [regs EXCEPT !.charlen = Len(Wdata(c)) + Rsize(c),
                                    !.ss = Slave(c),
                                    !.x = Word(Wdata(c), Rsize(c))]
       ELSE /\ pc' = "threw"
            /\ regs' = [regs EXCEPT !.charlen = Len(Wdata(c)) + Rsize(c)]
  /\ UNCHANGED <<chips, hw, rdata>>

WriteRegs ==
  /\ pc = "write"
  /\ CoreWritten(regs)
  /\ pc' = "start"
  /\ UNCHANGED <<chips, regs, call, rdata, before, sent>>

StartKeepsBusy ==
  /\ pc = "start"
  /\ CoreWritten([regs EXCEPT !.bsy = TRUE])
  /\ regs' = [regs EXCEPT !.bsy = TRUE]
  /\ pc' = "poll"
  /\ UNCHANGED <<chips, call, rdata, before, sent>>
Start ==
  /\ pc = "start"
  /\ CoreWritten([regs EXCEPT !.bsy = TRUE])
  /\ regs' = [regs EXCEPT !.bsy = FALSE]
  /\ pc' = "poll"
  /\ UNCHANGED <<chips, call, rdata, before, sent>>

PollForBusy ==
  /\ pc = "poll"
  /\ IF ~ hw.bsy
       THEN UNCHANGED <<pc, rdata>>
       ELSE /\ rdata' = IF Rsize(call) = 1 THEN hw.rx ELSE rdata
            /\ pc' = "done"
  /\ UNCHANGED <<chips, hw, regs, call, before, sent>>
\* The decoder reads all of the registers at once, the answer too.
Poll ==
  /\ pc = "poll"
  /\ IF hw.bsy
       THEN UNCHANGED <<pc, rdata>>
       ELSE /\ rdata' = IF Rsize(call) = 1 THEN hw.rx ELSE rdata
            /\ pc' = "done"
  /\ UNCHANGED <<chips, hw, regs, call, before, sent>>

Return ==
  /\ pc \in {"done", "threw"}
  /\ pc' = "idle"
  /\ UNCHANGED <<chips, hw, regs, call, rdata, before, sent>>

Calls == [kind : Kinds, addr : Addrs, value : Values, channel : Channels]

\* The steps of a call that has begun.
Steps == WriteRegs \/ Start \/ Poll \/ Return

Next ==
  \/ SetDevinfo
  \/ Steps
  \/ \E c \in Calls : Call(c)
  \/ Transfer

\* Assumed: the core ends its transfers.  The loop of Poll has no limit of its own.
Fairness == WF_vars(Steps) /\ WF_vars(Transfer)
Spec == Init /\ [][Next]_vars /\ Fairness

-----------------------------------------------------------------------------
(* Properties.                                                             *)

\* An access is one transfer, also when an earlier call has left something in the
\* registers, and it does what it says: after a set the register that was named has
\* the value and no other has changed; a get returns the register's value and changes
\* nothing.
AccessDone ==
  /\ sent <= 1
  /\ pc = "done" =>
       /\ sent = 1 /\ ~ hw.bsy
       /\ IF IsSet(call)
            THEN chips = [before EXCEPT ![Slave(call)][call.addr] = call.value]
            ELSE chips = before /\ rdata = before[Slave(call)][call.addr]

\* A core that ends its transfers lets every access return: the wait sees each end, also
\* one that comes before its first look.
AccessReturns == pc = "write" ~> pc = "idle"

\* "write 1 byte" (isla216p.cc): a set_reg that has returned has written its value.
IslaWrites ==
  pc = "done" /\ call.kind = "isla_set" =>
    chips[call.channel][call.addr] = call.value
==============================================================================
