----------------------------- MODULE DeviceFields -----------------------------
(* The fields of a device, looked at in two ways: a controller's names and *)
(* numbers, and where every core has them.                                 *)
EXTENDS RegisterFields

CONSTANT Elements(_)    \* CoreFields

LongestArray == 256     \* of channels: the levels of sys_id's RAM
ASSUME ElementsAssumption == \A n \in 1 .. LongestArray : Elements(n) \subseteq 0 .. n - 1

VARIABLES
  core, minor, coreHw, regs, dec, set, on, aborted, began, kept, sent, read, reported, shown,
  changed
coreVars == <<core, minor, coreHw, regs, dec, set, on, aborted, began, kept, sent, read,
              reported, shown, changed>>

Cores == INSTANCE CoreFields WITH hw <- coreHw

\* The properties of CoreFields, which are stated there: the core is one of those in whose
\* masks, decode, encode_params, read and write_params agree (LayoutOf),
RightlyLaid == {c \in Cores!AllCores : Cores!LayoutOf(c)}
LayoutRight == core \in RightlyLaid
\* and what is set arrives, and what is reported is shown.
NamedArrives == Cores!NamedArrives
StatusShown == Cores!StatusShown
===============================================================================
