----------------------------- MODULE RegisterBus -----------------------------
(***************************************************************************)
(* What bar4_read, bar4_write, bar4_read_v and bar4_write_v (util/pcie.h)  *)
(* promise the modules of the library: a bank of 32-bit registers on which *)
(* every call, the vector ones too, acts at one instant between its        *)
(* invocation and its return.                                              *)
(***************************************************************************)
EXTENDS Integers

CONSTANTS
  Threads,    \* threads of the process that share one struct pcie_bars
  Addr,       \* word addresses of the Wishbone bus
  Val,        \* values of a register
  Calls,      \* the calls the threads may make
  NoCall,     \* request of a thread outside of a call
  NoReply,    \* reply of a call that has not taken effect
  Done        \* reply of a write

VARIABLES
  regs,       \* [Addr -> Val], contents of the registers
  request,    \* the call each thread is in
  reply       \* what the call of each thread will return

vars == <<regs, request, reply>>

\* Words a call touches, and the register file after a write call.
Range(c) == c.addr .. (c.addr + c.n - 1)
IsWrite(c) == c.kind \in {"write", "write_v"}
Overlay(c, m) == [a \in Addr |-> IF a \in Range(c) THEN c.data[a - c.addr] ELSE m[a]]
Slice(c, m) == [j \in 0 .. (c.n - 1) |-> m[c.addr + j]]

Init ==
  /\ regs \in [Addr -> Val]
  /\ request = [t \in Threads |-> NoCall]
  /\ reply = [t \in Threads |-> NoReply]

Invoke(t) ==
  /\ request[t] = NoCall
  /\ \E c \in Calls : request' = [request EXCEPT ![t] = c]
  /\ UNCHANGED <<regs, reply>>

Perform(t) ==
  /\ request[t] # NoCall
  /\ reply[t] = NoReply
  /\ IF IsWrite(request[t])
       THEN /\ regs' = Overlay(request[t], regs)
            /\ reply' = [reply EXCEPT ![t] = Done]
       ELSE /\ reply' = [reply EXCEPT ![t] = Slice(request[t], regs)]
            /\ UNCHANGED regs
  /\ UNCHANGED request

Return(t) ==
  /\ reply[t] # NoReply
  /\ request' = [request EXCEPT ![t] = NoCall]
  /\ reply' = [reply EXCEPT ![t] = NoReply]
  /\ UNCHANGED regs

Next == \E t \in Threads : Invoke(t) \/ Perform(t) \/ Return(t)

Spec == Init /\ [][Next]_vars
==============================================================================
