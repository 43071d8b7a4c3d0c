---------------------------- MODULE MCSerialPort ----------------------------
(***************************************************************************)
(* Two processes; writes of one and of two words, and a read of two blocks *)
(* over them, the last of which is shorter than a block and ends before    *)
(* the last register.                                                      *)
(***************************************************************************)
EXTENDS SerialPort, TLC

MCCalls ==
  {[kind |-> "write",   addr |-> 0, n |-> 1, data |-> 0 :> 1],
   [kind |-> "write_v", addr |-> 0, n |-> 2, data |-> 0 :> 0 @@ 1 :> 1],
   [kind |-> "read_v",  addr |-> 0, n |-> 3, data |-> [j \in 0 .. 2 |-> 0]]}
MCContents == {[a \in Addr |-> 0]}
==============================================================================
