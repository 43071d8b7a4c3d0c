------------------------------ MODULE FieldBank ------------------------------
(***************************************************************************)
(* What a RegisterDecoderController promises (util/controllers.h): named   *)
(* fields, each with a value of its own, that are written one by one and   *)
(* reach the device together.  There are no registers here.                *)
(***************************************************************************)
EXTENDS Integers

CONSTANTS
  Fields,
  Commands,          \* fields that make the device do something when written
  Inputs(_),         \* values that are written to a field
  Accepts(_, _),     \* the ones that the field can hold
  Held(_, _)         \* the value that it then has

VARIABLES
  staged,   \* the values written since the controller exists
  device    \* the values in the device

Init ==
  /\ staged = [f \in Fields |-> 0]
  /\ device \in [Fields -> Int]

\* A value that is refused changes nothing.
Write(f, v) ==
  /\ staged' = IF Accepts(f, v) THEN [staged EXCEPT ![f] = Held(f, v)] ELSE staged
  /\ UNCHANGED device

\* A command is given once.
Commit ==
  /\ device' = staged
  /\ staged' = [f \in Fields |-> IF f \in Commands THEN 0 ELSE staged[f]]

Next == Commit \/ \E f \in Fields : \E v \in Inputs(f) : Write(f, v)

Spec == Init /\ [][Next]_<<staged, device>>
==============================================================================
