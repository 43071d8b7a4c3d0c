------------------------------- MODULE Ad9510 -------------------------------
(***************************************************************************)
(* ad9510::Controller (modules/ad9510.cc) and the clock chip that it       *)
(* configures.  A write goes to the chip's buffers, and is used by the     *)
(* chip once it has been told to update; it clears the bit that told it    *)
(* so.  set_reg reads every register back after it has written it;         *)
(* update_parameters does not, and takes a bit that has never been set for *)
(* one that has been cleared.                                              *)
(*                                                                         *)
(* A transfer over SPI is one step (module Spi).  A write may not arrive.  *)
(***************************************************************************)
EXTENDS Integers, Sequences

CONSTANTS
  Defaults,    \* the scripts of set_defaults ...
  Dividers,    \* ... and of the calls of set_a_div, set_b_div and set_r_div
  Registers,   \* the registers in them
  Unwritten,   \* what the chip's registers have before
  Fragile,     \* registers that writes may fail to reach, "update" among them or not
  MaxLosses    \* bound: writes that do not arrive

\* A script is the sequence of set_reg and update_parameters calls of a method.
Set(r, v) == [op |-> "set", reg |-> r, value |-> v]
Update == [op |-> "update", reg |-> "update", value |-> 1]

VARIABLES
  buffer,    \* the chip's buffers
  active,    \* the registers that the chip uses
  pending,   \* register 0x5a of the chip
  script,    \* what the method that runs has left to do
  pc,        \* where it is in the first element of that
  losses,
  result,    \* what the last method has returned: "none" while it runs
  called,    \* (history) the script that it began with
  told,      \* (history) how much of it the chip has been told to use
  failed     \* (history) a method has returned false

vars == <<buffer, active, pending, script, pc, losses, result, called, told, failed>>
chip == <<buffer, active, pending>>

Scripts == Dividers \cup {Defaults}

Init ==
  /\ buffer = [r \in Registers |-> Unwritten]
  /\ active = buffer
  /\ pending = FALSE
  /\ script = <<>>
  /\ pc = "idle"
  /\ losses = 0
  /\ result = "none"
  /\ called = <<>>
  /\ told = 0
  /\ failed = FALSE

-----------------------------------------------------------------------------
(* The chip.                                                               *)
ChipUpdates ==
  /\ pending
  /\ active' = buffer
  /\ pending' = FALSE
  /\ UNCHANGED <<buffer, script, pc, losses, result, called, told, failed>>

-----------------------------------------------------------------------------
(* The controller.  The definitions named after a slip are mutants.        *)
Start(of) == IF of = <<>> THEN "done" ELSE IF Head(of).op = "set" THEN "write" ELSE "update"
Advance == script' = Tail(script) /\ pc' = Start(script')

Call(s) ==
  /\ pc = "idle"
  /\ script' = s
  /\ called' = s
  /\ told' = 0
  /\ pc' = Start(s)
  /\ result' = "none"
  /\ UNCHANGED <<chip, losses, failed>>

\* set_reg_ll: the write that script begins with gets to the chip, or does not.
Arrives == UNCHANGED losses
IsLost ==
  /\ Head(script).reg \in Fragile
  /\ losses < MaxLosses
  /\ losses' = losses + 1

\* set_reg: set_reg_ll ...
WriteReg ==
  /\ pc = "write"
  /\ \/ Arrives /\ buffer' = [buffer EXCEPT ![Head(script).reg] = Head(script).value]
     \/ IsLost /\ UNCHANGED buffer
  /\ pc' = "verify"
  /\ UNCHANGED <<active, pending, script, result, called, told, failed>>

\* ... and get_reg: a value that is not the one that was written ends the method.
VerifyNothing ==
  /\ pc = "verify"
  /\ Advance
  /\ UNCHANGED <<chip, losses, result, called, told, failed>>
Verify ==
  /\ pc = "verify"
  /\ IF buffer[Head(script).reg] = Head(script).value
       THEN Advance /\ UNCHANGED <<result, failed>>
       ELSE /\ pc' = "idle"
            /\ script' = <<>>
            /\ result' = "false"
            /\ failed' = TRUE
  /\ UNCHANGED <<chip, losses, called, told>>

\* update_parameters: set_reg_ll, of which nothing is read back but the bit that the
\* chip clears.  A chip that has not been told to update reads as one that has done it.
ToldNow == Len(called) - Len(script) + 1
Tell ==
  \/ Arrives /\ pending' = TRUE /\ told' = ToldNow
  \/ IsLost /\ UNCHANGED <<pending, told>>
UpdateNoWait ==
  /\ pc = "update"
  /\ Tell
  /\ Advance
  /\ UNCHANGED <<buffer, active, result, called, failed>>
WriteUpdate ==
  /\ pc = "update"
  /\ Tell
  /\ pc' = "poll"
  /\ UNCHANGED <<buffer, active, script, result, called, failed>>

PollUpdate ==
  /\ pc = "poll"
  /\ ~ pending
  /\ Advance
  /\ UNCHANGED <<chip, losses, result, called, told, failed>>

Return ==
  /\ pc = "done"
  /\ pc' = "idle"
  /\ result' = "true"
  /\ UNCHANGED <<chip, script, losses, called, told, failed>>

Next ==
  \/ \E s \in Scripts : Call(s)
  \/ WriteReg \/ Verify \/ WriteUpdate \/ PollUpdate \/ Return
  \/ ChipUpdates

\* The loop of update_parameters has no limit: that it ends is up to the chip.
Spec == Init /\ [][Next]_vars

-----------------------------------------------------------------------------
(* Properties.                                                             *)
SetIn(s) == {i \in DOMAIN s : s[i].op = "set"}

\* The value that the last set of r in s leaves.
Last(s, r) ==
  LET at == {i \in SetIn(s) : s[i].reg = r}
  IN  s[CHOOSE i \in at : \A j \in at : j <= i].value
Touched(s) == {s[i].reg : i \in SetIn(s)}

\* When a method returns true the chip has all of its values, however many writes have
\* not arrived, and none is on its way to be used later: it uses those that come before
\* the last update that it has been told.  That is all of them, as a method ends with an
\* update, unless just this write of 0x5a is lost, which update_parameters cannot tell.
TrueIsHeld ==
  result = "true" =>
    /\ ~ pending
    /\ \A r \in Touched(called) : buffer[r] = Last(called, r)
    /\ LET used == SubSeq(called, 1, told)
       IN  \A r \in Touched(used) : active[r] = Last(used, r)

\* The two bytes of a divider are used together: the chip never divides by a number
\* that no call has asked for, unless a method has told its caller that it failed.
DividersWhole ==
  failed \/
    \E s \in Dividers \cup {<<>>} :
      \A r \in {"b_low", "b_high"} :
        active[r] = IF r \in Touched(s) THEN Last(s, r) ELSE Unwritten
=============================================================================
