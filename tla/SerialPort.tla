----------------------------- MODULE SerialPort -----------------------------
(***************************************************************************)
(* The Wishbone registers through a serial port: bar4_write, bar4_read and *)
(* their vectors when pcie_bars.fserport is set (util/pcie.c), and the     *)
(* opening of the port (dev_open_serial in util/pcie-open.cc).             *)
(*                                                                         *)
(* Each request is a line of text and so is each answer: nothing in an     *)
(* answer says which request it belongs to.  The port is not locked, a     *)
(* process may end between a request and its answer, and the next process  *)
(* opens a port on which that answer may still arrive.                     *)
(*                                                                         *)
(* The threads of a process take turns at the port (the mutex of Bar4), so *)
(* that a process is inside of one call at most.                           *)
(***************************************************************************)
EXTENDS Integers, Sequences

CONSTANTS
  Processes,
  Addr,         \* word addresses of the Wishbone bus
  Val,          \* values of a register
  Contents,     \* what the registers may hold in the beginning
  Calls,        \* calls of the four functions, with the form they have in Bar4
  MaxBlock,     \* max_word_blk_size, words of a read request at most
  MaxPending,   \* bound: requests without an answer when a process opens the port
  NoCall

ASSUME SerialAssumption ==
  /\ Addr \subseteq Nat /\ MaxBlock \in Nat \ {0} /\ MaxPending \in Nat
  /\ NoCall \notin Calls
  /\ Contents \subseteq [Addr -> Val]
  /\ \A c \in Calls :
       /\ c.kind \in {"write", "write_v", "read", "read_v"}
       /\ c.n \in Nat \ {0}
       /\ c.addr \in Addr
       /\ c.addr .. (c.addr + c.n - 1) \subseteq Addr
       /\ c.data \in [0 .. (c.n - 1) -> Val]

VARIABLES
  mem,      \* registers behind the bus
  line,     \* requests on their way to the board
  wire,     \* answers on their way to the computer
  input,    \* answers that the kernel has for the next reader
  pc,       \* where each process is
  call,     \* its call, which it keeps until the next one
  i,        \* words of the call that are complete
  told,     \* the call has printed an error
  buf,      \* words read, dest of bar4_read_v
  unread,   \* its FILE has more input than the line that was asked for
  clean     \* it opened a quiet port, and nobody else has opened it since

board == <<mem, line, wire>>
process == <<pc, call, i, told, buf, unread, clean>>
vars == <<board, input, process>>

IsWrite(c) == c.kind \in {"write", "write_v"}
Smaller(a, b) == IF a < b THEN a ELSE b

Init ==
  /\ mem \in Contents
  /\ line = <<>> /\ wire = <<>> /\ input = <<>>
  /\ pc = [p \in Processes |-> "closed"]
  /\ call = [p \in Processes |-> NoCall]
  /\ i = [p \in Processes |-> 0]
  /\ told = [p \in Processes |-> FALSE]
  /\ buf = [p \in Processes |-> <<>>]
  /\ unread = [p \in Processes |-> FALSE]
  /\ clean = [p \in Processes |-> FALSE]

-----------------------------------------------------------------------------
(* Opening and closing.  The definitions named after a slip, here and      *)
(* below, are mutants of the ones that follow them.                        *)
IsOpen(p) == pc[p] # "closed"
\* No request of a process that has gone is still to be answered.
Quiet == line = <<>> /\ wire = <<>>
Alone(p) == \A q \in Processes \ {p} : ~ IsOpen(q)

OpenUnflushed(p) ==
  /\ ~ IsOpen(p)
  /\ Len(line) + Len(wire) <= MaxPending
  /\ pc' = [pc EXCEPT ![p] = "idle"]
  /\ clean' = [q \in Processes |-> q = p /\ Alone(p) /\ Quiet]
  /\ UNCHANGED <<board, input, call, i, told, buf, unread>>   \* tcsetattr(TCSANOW)
\* dev_open_serial: input that has arrived is dropped (tcflush, TCSAFLUSH), the
\* one that another process waits for too.
Open(p) ==
  /\ ~ IsOpen(p)
  /\ Len(line) + Len(wire) <= MaxPending
  /\ pc' = [pc EXCEPT ![p] = "idle"]
  /\ input' = <<>>
  /\ clean' = [q \in Processes |-> q = p /\ Alone(p) /\ Quiet]
  /\ UNCHANGED <<board, call, i, told, buf, unread>>

\* It throws when a system call fails, before or after the flush.
OpenFails(p) ==
  /\ ~ IsOpen(p)
  /\ input' \in {input, <<>>}
  /\ UNCHANGED <<board, process>>

\* Nothing is left of a process but the requests it has sent.
Leave(p) ==
  /\ pc' = [pc EXCEPT ![p] = "closed"]
  /\ call' = [call EXCEPT ![p] = NoCall]
  /\ i' = [i EXCEPT ![p] = 0]
  /\ told' = [told EXCEPT ![p] = FALSE]
  /\ buf' = [buf EXCEPT ![p] = <<>>]
  /\ unread' = [unread EXCEPT ![p] = FALSE]
  /\ clean' = [clean EXCEPT ![p] = FALSE]

\* dev_close outside of a call; the end of the process at any time.
Close(p) ==
  /\ IsOpen(p)
  /\ Leave(p)
  /\ UNCHANGED <<board, input>>

-----------------------------------------------------------------------------
(* The four functions: one request at a time, and its answer.              *)
Begin(p) ==
  /\ pc[p] = "idle"
  /\ \E c \in Calls : call' = [call EXCEPT ![p] = c]
  /\ pc' = [pc EXCEPT ![p] = "send"]
  /\ i' = [i EXCEPT ![p] = 0]
  /\ told' = [told EXCEPT ![p] = FALSE]
  /\ buf' = [buf EXCEPT ![p] = <<>>]
  /\ UNCHANGED <<board, input, unread, clean>>

\* Words of the request the call has come to: a write request has one, a read
\* request as many as are left, up to the largest block.
Block(p) == IF IsWrite(call[p]) THEN 1 ELSE Smaller(MaxBlock, call[p].n - i[p])

Request(p) ==
  [write |-> IsWrite(call[p]), addr |-> call[p].addr + i[p], n |-> Block(p),
   value |-> call[p].data[i[p]]]

\* fprintf.  The C library may refuse to write to a FILE with unread input, which
\* it drops; fprintf is not checked.
SendRequest(p) ==
  /\ pc[p] = "send"
  /\ \/ line' = Append(line, Request(p))
     \/ unread[p] /\ UNCHANGED line
  /\ unread' = [unread EXCEPT ![p] = FALSE]
  /\ pc' = [pc EXCEPT ![p] = "wait"]
  /\ UNCHANGED <<mem, wire, input, call, i, told, buf, clean>>

\* The request is complete: on to the next word or block, or back to the caller.
Continue(p) ==
  /\ i' = [i EXCEPT ![p] = @ + Block(p)]
  /\ pc' = [pc EXCEPT ![p] = IF i[p] + Block(p) = call[p].n THEN "idle" ELSE "send"]
  /\ UNCHANGED <<call, clean>>

\* An answer is a status letter and words, none for a write; it arrives whole.  A
\* line of two characters ends the request of bar4_write, even if it says that it has failed.
AcceptWrite(p, a) ==
  /\ IsWrite(call[p]) /\ a.words = <<>>
  /\ told' = [told EXCEPT ![p] = @ \/ a.status # "O"]
  /\ Continue(p)
  /\ UNCHANGED buf

\* uart_read_cmd converts as many words as were asked for; fewer, or another
\* letter, fail the assertion of bar4_read_v.
AcceptRead(p, a) ==
  /\ ~ IsWrite(call[p]) /\ a.status = "O" /\ Len(a.words) >= Block(p)
  /\ buf' = [buf EXCEPT ![p] =
               [j \in 0 .. (i[p] + Block(p) - 1) |->
                  IF j < i[p] THEN buf[p][j] ELSE a.words[j - i[p] + 1]]]
  /\ Continue(p)
  /\ UNCHANGED told

Acceptable(p, a) ==
  IF IsWrite(call[p]) THEN a.words = <<>>
                      ELSE a.status = "O" /\ Len(a.words) >= Block(p)

\* getline: read() gives it what the kernel has, of which the first line is the
\* answer.
ReceiveAnswer(p) ==
  /\ pc[p] = "wait"
  /\ input # <<>>
  /\ Acceptable(p, Head(input))
  /\ AcceptWrite(p, Head(input)) \/ AcceptRead(p, Head(input))
  /\ \E k \in 1 .. Len(input) :
       /\ input' = SubSeq(input, k + 1, Len(input))
       /\ unread' = [unread EXCEPT ![p] = k > 1]
  /\ UNCHANGED board

\* The assertions of bar4_write and bar4_read_v end the process: the answer is
\* not one to this request ...
RejectAnswer(p) ==
  /\ pc[p] = "wait"
  /\ input # <<>>
  /\ ~ Acceptable(p, Head(input))
  /\ \E k \in 1 .. Len(input) : input' = SubSeq(input, k + 1, Len(input))
  /\ Leave(p)
  /\ UNCHANGED board

TimeoutReported(p) ==
  /\ pc[p] = "wait"
  /\ input = <<>>
  /\ told' = [told EXCEPT ![p] = TRUE]
  /\ pc' = [pc EXCEPT ![p] = "idle"]
  /\ UNCHANGED <<board, input, call, i, buf, unread, clean>>
TimeoutNever(p) == FALSE
\* ... or there is none for a second (VTIME).
Timeout(p) ==
  /\ pc[p] = "wait"
  /\ input = <<>>
  /\ Leave(p)
  /\ UNCHANGED <<board, input>>

-----------------------------------------------------------------------------
(* The board (external): it serves the requests in the order in which they *)
(* come, at its own time.                                                  *)
After(r) == IF r.write THEN [mem EXCEPT ![r.addr] = r.value] ELSE mem
Answer(s, w) == [status |-> s, words |-> w]
Answered(r) ==
  Answer("O", IF r.write THEN <<>> ELSE [j \in 1 .. r.n |-> mem[r.addr + j - 1]])

\* "error" stands for "E", for "T" (a timeout of the bus) and for any other letter
\* (noise): the code tells them apart in what it prints.
Serve ==
  /\ line # <<>>
  /\ mem' = After(Head(line))
  /\ wire' = Append(wire, Answered(Head(line)))
  /\ line' = Tail(line)
  /\ UNCHANGED <<input, process>>

\* The request may still have had its effect.
Refuse ==
  /\ line # <<>>
  /\ mem' \in {mem, After(Head(line))}
  /\ \/ wire' = Append(wire, Answer("error", <<>>))
     \/ UNCHANGED wire        \* the request or the answer is lost
  /\ line' = Tail(line)
  /\ UNCHANGED <<input, process>>

Arrive ==
  /\ wire # <<>>
  /\ input' = Append(input, Head(wire))
  /\ wire' = Tail(wire)
  /\ UNCHANGED <<mem, line, process>>

Step(p) == SendRequest(p) \/ ReceiveAnswer(p) \/ RejectAnswer(p) \/ Timeout(p)

Next ==
  \/ Serve \/ Refuse \/ Arrive
  \/ \E p \in Processes : Open(p) \/ OpenFails(p) \/ Begin(p) \/ Step(p) \/ Close(p)

\* A process inside of a call goes on, by the timeout of the port if nothing else.
\* The board need not answer.
Spec == Init /\ [][Next]_vars /\ \A p \in Processes : WF_vars(Step(p))

-----------------------------------------------------------------------------
(* Properties.                                                             *)
\* The types of the state: a process waits for one answer at most, and a call stays
\* within its words.
TypeOK ==
  /\ mem \in [Addr -> Val]
  /\ pc \in [Processes -> {"closed", "idle", "send", "wait"}]
  /\ call \in [Processes -> Calls \cup {NoCall}]
  /\ i \in [Processes -> Nat]
  /\ \A p \in Processes : i[p] <= IF call[p] = NoCall THEN 0 ELSE call[p].n
  /\ told \in [Processes -> BOOLEAN]
  /\ unread \in [Processes -> BOOLEAN]
  /\ clean \in [Processes -> BOOLEAN]

\* For a process that opened a quiet port and has it for itself, what a call has
\* completed without printing an error is so: words it wrote are in the registers,
\* words it read are those of the registers, in their places.  Answers bear no
\* number: this rests on the flush at the opening and on the end of a process that
\* has missed an answer (the assertions of bar4_write and bar4_read_v).
CompletedIsTrue ==
  \A p \in Processes : clean[p] /\ call[p] # NoCall /\ ~ told[p] =>
    \A j \in 0 .. (i[p] - 1) :
      mem[call[p].addr + j] = IF IsWrite(call[p]) THEN call[p].data[j] ELSE buf[p][j]

\* No write of such a process takes effect after its call has returned: when it is
\* not inside of a request, nothing of it is on its way.
NothingOnTheWay ==
  \A p \in Processes : clean[p] /\ pc[p] # "wait" => Quiet /\ input = <<>>

\* A call comes to an end, though perhaps with that of the process: the port's
\* timeout bounds the wait for each answer.
CallsEnd == \A p \in Processes : pc[p] = "wait" ~> pc[p] \in {"idle", "closed"}
==============================================================================
