------------------------------- MODULE MCBar2 -------------------------------
(* Bar2 for TLC: pages of 16 words, lines of 8, vectors of 4, blocks of 8. *)
EXTENDS Bar2

Read(a, n, d) == [addr |-> a, n |-> n, dest |-> d]

MCRequests ==
  {Read(0, 16, 0),      \* a page
   Read(3, 29, 7),      \* begins inside of a line, crosses into another page
   Read(6, 43, 2),      \* three pages, ends outside of a block
   Read(5, 4, 2),       \* addr and dest not alike, too short for a block
   Read(15, 2, 1)}
==============================================================================
