------------------------------- MODULE MCBar4 -------------------------------
(* Bar4 for TLC: two pages of two words, calls on both sides of the page   *)
(* boundary and vectors across it.                                         *)
EXTENDS Bar4

Words(v, n) == [j \in 0 .. (n - 1) |-> v]

MCCalls ==
  [kind : {"write"}, addr : {1, 2}, n : {1}, data : {Words(0, 1), Words(1, 1)}]
  \cup [kind : {"read"}, addr : {2}, n : {1}, data : {Words(0, 1)}]
  \cup [kind : {"write_v"}, addr : {1}, n : {2}, data : {Words(0, 2), Words(1, 2)}]
  \cup [kind : {"read_v"}, addr : {0}, n : {3}, data : {Words(0, 3)}]
==============================================================================
