------------------------------ MODULE FieldSets ------------------------------
(***************************************************************************)
(* Fields, the way CoreFields and CoreStatus put them together from the    *)
(* masks of RegisterMap: what a decoder's add_general and add_channel say  *)
(* of a value, and which bits of the core it is.                           *)
(***************************************************************************)
EXTENDS Integers

CONSTANT Elements(_)    \* of n channels, the ones that are looked at

Field(name, mask) ==
  [name |-> name, ch |-> 0, at |-> mask.at, low |-> mask.low, width |-> mask.width,
   command |-> FALSE, since |-> 0]
Command(f) == [f EXCEPT !.command = TRUE]     \* unset after write_params
Since(ver, f) == [f EXCEPT !.since = ver]     \* decoded from this abi_ver_minor on

\* Fields that are decoded under the names of their masks.
SameNames(masks) == {Field(name, masks[name]) : name \in DOMAIN masks}

OfChannel(f, c, stride) == [f EXCEPT !.ch = c, !.at = @ + c * stride]
Channels(fields, n, stride) == {OfChannel(f, c, stride) : f \in fields, c \in Elements(n)}

Bits(f) == f.low .. (f.low + f.width - 1)
BitsAt(fields, w) == UNION {Bits(f) : f \in {g \in fields : g.at = w}}
==============================================================================
