----------------------------- MODULE PosCalcFifo -----------------------------
(***************************************************************************)
(* The FIFO of amplitudes in pos_calc's core, Core::fifo_empty and         *)
(* get_fifo_amps, which take records from it (modules/pos_calc.cc), and    *)
(* the two loops of decode-reg that do so: "pos_calc", which waits for a   *)
(* record, and "decode -q pos_calc -w", which does not.                    *)
(*                                                                         *)
(* A record is its number, and one bar4_read_v has its four channels       *)
(* (Bar4).  One program has the board (DeviceOpen).                        *)
(***************************************************************************)
EXTENDS Integers, Sequences

CONSTANTS
  Depth,       \* records that the FIFO has room for
  MaxRecords   \* bound: records that the core makes

VARIABLES
  fifo,    \* records in the FIFO
  out,     \* the record in its data registers
  made,    \* records that the core has made
  mode,    \* the program's mode
  pc,      \* where it is
  amps,    \* the record that its registers have
  taken,   \* (history) records that the FIFO had room for
  shown    \* (history) records that the program has printed; of one that is printed again
           \* and again in mode decode, the first time

vars == <<fifo, out, made, mode, pc, amps, taken, shown>>

\* What the data registers, and those of a new Core, have before there is a record.
NoRecord == 0

Init ==
  /\ made \in 0 .. Depth
  /\ fifo = [n \in 1 .. made |-> n]
  /\ taken = fifo
  /\ out = NoRecord
  /\ mode = "none"
  /\ pc = "new"
  /\ amps = NoRecord
  /\ shown = <<>>

-----------------------------------------------------------------------------
(* The core.                                                               *)
\* A record for which there is no room is lost.
Make ==
  /\ made < MaxRecords
  /\ made' = made + 1
  /\ IF Len(fifo) < Depth
       THEN fifo' = Append(fifo, made') /\ taken' = Append(taken, made')
       ELSE UNCHANGED <<fifo, taken>>
  /\ UNCHANGED <<out, mode, pc, amps, shown>>

\* A read of the data registers takes a record from the FIFO, if there is one, and has
\* the one before it if there is none.
Taking ==
  IF fifo = <<>>
    THEN UNCHANGED <<fifo, out>>
    ELSE fifo' = Tail(fifo) /\ out' = Head(fifo)

-----------------------------------------------------------------------------
(* The program.  The definitions named after a slip are mutants.           *)
\* The core has been found (SdbSearch), and set_devinfo.
Begin ==
  /\ pc = "new"
  /\ mode' \in {"pos_calc", "decode"}
  /\ pc' = "get_data"
  /\ UNCHANGED <<fifo, out, made, amps, taken, shown>>

GetDataWhole ==
  /\ pc = "get_data"
  /\ Taking
  /\ amps' = out'
  /\ pc' = "check"
  /\ UNCHANGED <<made, mode, taken, shown>>
\* get_data: read leaves out the FIFO's registers.
GetData ==
  /\ pc = "get_data"
  /\ pc' = "check"
  /\ UNCHANGED <<fifo, out, made, mode, amps, taken, shown>>

FifoEmptyOfFull ==
  /\ pc = "check"
  /\ pc' = IF mode = "pos_calc" /\ Len(fifo) < Depth THEN "check" ELSE "amps"
  /\ UNCHANGED <<fifo, out, made, mode, amps, taken, shown>>
\* fifo_empty: the program in mode pos_calc sleeps and asks again, the other one does not
\* use the answer.
FifoEmpty ==
  /\ pc = "check"
  /\ pc' = IF mode = "pos_calc" /\ fifo = <<>> THEN "check" ELSE "amps"
  /\ UNCHANGED <<fifo, out, made, mode, amps, taken, shown>>

GetFifoAmps ==
  /\ pc = "amps"
  /\ Taking
  /\ amps' = out'
  /\ pc' = "print"
  /\ UNCHANGED <<made, mode, taken, shown>>

Show ==
  /\ pc = "print"
  /\ shown' = IF mode = "decode" /\ shown # <<>> /\ shown[Len(shown)] = amps
                THEN shown ELSE Append(shown, amps)
  /\ pc' = IF mode = "pos_calc" THEN "check" ELSE "get_data"
  /\ UNCHANGED <<fifo, out, made, mode, amps, taken>>

Loop == GetData \/ FifoEmpty \/ GetFifoAmps \/ Show
Next == Make \/ Begin \/ Loop
\* The program goes on.
Fairness == WF_vars(Loop)

-----------------------------------------------------------------------------
(* Properties.                                                             *)
\* The programs print the records that the FIFO had room for, in their order, each of
\* them once, and none is lost to a read of other registers.  Mode pos_calc prints
\* nothing else; the other one may begin with what was in the data registers.
RecordsInOrder ==
  LET before == IF shown # <<>> /\ shown[1] = NoRecord THEN 1 ELSE 0
      records == Len(shown) - before
  IN  /\ records <= Len(taken)
      /\ \A n \in 1 .. records : shown[before + n] = taken[n]
      /\ mode = "pos_calc" => before = 0

\* A program that goes on prints every record for which the FIFO had room.
RecordsShown ==
  \A r \in 1 .. MaxRecords :
    pc # "new" /\ (\E i \in DOMAIN taken : taken[i] = r) ~> \E i \in DOMAIN shown : shown[i] = r
===============================================================================
