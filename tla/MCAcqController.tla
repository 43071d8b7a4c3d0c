--------------------------- MODULE MCAcqController ---------------------------
(* AcqController for TLC: a buffer of eight small samples or four large    *)
(* ones, and a channel whose sample size the library refuses.              *)
EXTENDS AcqController

MCSampleSize == [c \in Channels |-> CASE c = "small" -> 1 [] c = "large" -> 2 [] c = "odd" -> 3]

Config(c, t, n, m) == [channel |-> c, trigger |-> t, pre |-> n, post |-> m]

MCConfigs ==
  {Config("small", "now", 3, 0),        \* aligned to 4
   Config("small", "external", 3, 1),   \* aligned to 4 and 2
   Config("large", "external", 1, 2),   \* wraps around four samples
   Config("small", "external", 2, 5),   \* too many once aligned
   Config("large", "now", 0, 0),        \* no samples
   Config("large", "now", 1, 1),        \* post samples without a trigger
   Config("small", "external", 2, 15),  \* 16 once aligned, which is 0 modulo Word
   Config("odd", "now", 1, 0)}
==============================================================================
