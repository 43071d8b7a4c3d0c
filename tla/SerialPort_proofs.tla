------------------------- MODULE SerialPort_proofs -------------------------
(* Proofs about SerialPort, for every number of processes, size of a block *)
(* and set of calls.                                                       *)
EXTENDS SerialPort, SequenceTheorems, TLAPS

-----------------------------------------------------------------------------
(* The inductive invariant.                                                *)

Requests ==
  {r \in [write : BOOLEAN, addr : Addr, n : Nat \ {0}, value : Val] :
     r.addr .. (r.addr + r.n - 1) \subseteq Addr}
Answers == [status : {"O", "error"}, words : Seq(Val)]

BufferInv == buf = [p \in Processes |-> buf[p]]
QueuesOK == line \in Seq(Requests) /\ wire \in Seq(Answers) /\ input \in Seq(Answers)

\* A process in the middle of a call has words left, and a closed one has nothing.
CallInv ==
  \A p \in Processes :
    /\ pc[p] \in {"send", "wait"} => call[p] \in Calls /\ i[p] < call[p].n
    /\ pc[p] = "closed" => call[p] = NoCall /\ ~ unread[p]

\* The answer is an error, or that of p's request: what it says of the registers is so.
Truthful(p, a) ==
  \/ a = Answer("error", <<>>)
  \/ /\ a = Answer("O", IF IsWrite(call[p]) THEN <<>>
                        ELSE [j \in 1 .. Block(p) |-> mem[call[p].addr + i[p] + j - 1]])
     /\ IsWrite(call[p]) => mem[call[p].addr + i[p]] = call[p].data[i[p]]

\* p's request or its answer is in one place at most, and nothing else is anywhere.
OneOnTheWay(p) ==
  \/ line = <<Request(p)>> /\ wire = <<>> /\ input = <<>>
  \/ line = <<>> /\ wire = <<>> /\ input = <<>>
  \/ \E a \in Answers :
       /\ Truthful(p, a)
       /\ line = <<>>
       /\ \/ wire = <<a>> /\ input = <<>>
          \/ wire = <<>> /\ input = <<a>>

Completed(p) ==
  call[p] # NoCall /\ ~ told[p] =>
    \A j \in 0 .. (i[p] - 1) :
      mem[call[p].addr + j] = IF IsWrite(call[p]) THEN call[p].data[j] ELSE buf[p][j]

\* What a process that opened a quiet port and is alone may rely on.
Undisturbed(p) ==
  /\ IsOpen(p) /\ Alone(p)
  /\ ~ unread[p]
  /\ pc[p] # "wait" => Quiet /\ input = <<>>
  /\ pc[p] = "wait" => OneOnTheWay(p)
  /\ Completed(p)

CleanInv == \A p \in Processes : clean[p] => Undisturbed(p)

TypeInv == TypeOK /\ BufferInv /\ QueuesOK /\ CallInv
IInv == TypeInv /\ CleanInv

-----------------------------------------------------------------------------
LEMMA CallFacts ==
  ASSUME NEW c \in Calls
  PROVE  /\ c # NoCall
         /\ c.n \in Nat /\ c.n > 0
         /\ c.addr \in Nat /\ c.addr .. (c.addr + c.n - 1) \subseteq Addr
         /\ c.data \in [0 .. (c.n - 1) -> Val]
<1>1. c # NoCall /\ c.n \in Nat \ {0} /\ c.addr \in Nat
  BY SerialAssumption
<1>2. c.addr .. (c.addr + c.n - 1) \subseteq Addr
  BY SerialAssumption
<1>3. c.data \in [0 .. (c.n - 1) -> Val]
  BY SerialAssumption
<1>4. QED
  BY <1>1, <1>2, <1>3, SMT

\* A block has a word and is not longer than what is left of the call.
LEMMA BlockRange ==
  ASSUME TypeOK, NEW p \in Processes, call[p] \in Calls, i[p] < call[p].n
  PROVE  /\ i[p] \in 0 .. (call[p].n - 1)
         /\ Block(p) \in 1 .. (call[p].n - i[p])
         /\ IsWrite(call[p]) => Block(p) = 1
<1>1. i[p] \in Nat
  BY DEF TypeOK
<1>2. i[p] \in 0 .. (call[p].n - 1)
  BY <1>1, CallFacts
<1>3. MaxBlock \in Nat /\ MaxBlock > 0
  BY SerialAssumption
<1>4. QED
  BY <1>2, <1>3, CallFacts DEF Block, Smaller

LEMMA RequestType ==
  ASSUME TypeOK, NEW p \in Processes, call[p] \in Calls, i[p] < call[p].n
  PROVE  Request(p) \in Requests
<1> DEFINE a == call[p].addr
<1>1. /\ i[p] \in 0 .. (call[p].n - 1)
      /\ Block(p) \in 1 .. (call[p].n - i[p])
  BY BlockRange
<1>2. a \in Nat /\ call[p].n \in Nat
  BY CallFacts
<1>3. (a + i[p]) .. (a + i[p] + Block(p) - 1) \subseteq a .. (a + call[p].n - 1)
  BY <1>1, <1>2
<1>4. (a + i[p]) .. (a + i[p] + Block(p) - 1) \subseteq Addr
  BY <1>3, CallFacts
<1>5. a + i[p] \in Addr
  BY <1>1, <1>2, <1>4
<1>6. call[p].data[i[p]] \in Val
  BY <1>1, CallFacts
<1>7. IsWrite(call[p]) \in BOOLEAN
  BY DEF IsWrite
<1>8. QED
  BY <1>1, <1>4, <1>5, <1>6, <1>7 DEF Request, Requests

LEMMA AfterType ==
  ASSUME TypeOK, NEW r \in Requests
  PROVE  After(r) \in [Addr -> Val]
BY DEF TypeOK, Requests, After

LEMMA AnsweredType ==
  ASSUME TypeOK, NEW r \in Requests
  PROVE  Answered(r) \in Answers
<1>1. r.n \in Nat /\ r.addr \in Nat /\ r.addr .. (r.addr + r.n - 1) \subseteq Addr
  BY SerialAssumption DEF Requests
<1>2. \A j \in 1 .. r.n : mem[r.addr + j - 1] \in Val
  <2> TAKE j \in 1 .. r.n
  <2>1. r.addr + j - 1 \in r.addr .. (r.addr + r.n - 1)
    BY <1>1
  <2>2. QED
    BY <1>1, <2>1 DEF TypeOK
<1>3. [j \in 1 .. r.n |-> mem[r.addr + j - 1]] \in Seq(Val)
  BY <1>1, <1>2
<1>4. <<>> \in Seq(Val)
  OBVIOUS
<1>5. QED
  BY <1>3, <1>4 DEF Answered, Answer, Answers

LEMMA ErrorType == Answer("error", <<>>) \in Answers
<1>1. <<>> \in Seq(Val)
  OBVIOUS
<1>2. QED
  BY <1>1 DEF Answer, Answers

LEMMA InitInv == Init => IInv
<1> SUFFICES ASSUME Init PROVE IInv
  OBVIOUS
<1>1. TypeOK
  BY SerialAssumption DEF Init, TypeOK
<1>2. BufferInv /\ QueuesOK
  BY DEF Init, BufferInv, QueuesOK
<1>3. CallInv /\ CleanInv
  BY DEF Init, CallInv, CleanInv
<1>4. QED
  BY <1>1, <1>2, <1>3 DEF IInv, TypeInv

-----------------------------------------------------------------------------
(* The types, step by step.                                                *)

LEMMA TailOfOne ==
  ASSUME NEW S, NEW s \in Seq(S), s # <<>>
  PROVE  Head(s) \in S /\ Tail(s) \in Seq(S)
BY HeadTailProperties

LEMMA RestOfInput ==
  ASSUME NEW S, NEW s \in Seq(S), NEW k \in 1 .. Len(s)
  PROVE  SubSeq(s, k + 1, Len(s)) \in Seq(S)
BY SubSeqProperties

\* The board: requests and answers keep their forms, and so do the registers.
LEMMA BoardTypes ==
  ASSUME TypeInv, Serve \/ Refuse \/ Arrive
  PROVE  TypeInv'
<1>1. CASE Serve
  <2>1. Head(line) \in Requests /\ Tail(line) \in Seq(Requests)
    BY <1>1, TailOfOne DEF Serve, TypeInv, QueuesOK
  <2>2. mem' \in [Addr -> Val]
    BY <1>1, <2>1, AfterType DEF Serve, TypeInv
  <2>3. wire' \in Seq(Answers)
    BY <1>1, <2>1, AnsweredType DEF Serve, TypeInv, QueuesOK
  <2>4. QED
    BY <1>1, <2>1, <2>2, <2>3 DEF Serve, TypeInv, TypeOK, BufferInv, QueuesOK, CallInv, process
<1>2. CASE Refuse
  <2>1. Head(line) \in Requests /\ Tail(line) \in Seq(Requests)
    BY <1>2, TailOfOne DEF Refuse, TypeInv, QueuesOK
  <2>2. mem' \in [Addr -> Val]
    BY <1>2, <2>1, AfterType DEF Refuse, TypeInv, TypeOK
  <2>3. wire' \in Seq(Answers)
    <3> DEFINE e == Answer("error", <<>>)
    <3>1. e \in Answers /\ wire \in Seq(Answers)
      BY ErrorType DEF TypeInv, QueuesOK
    <3>2. wire' = Append(wire, e) \/ wire' = wire
      BY <1>2 DEF Refuse
    <3> HIDE DEF e
    <3>3. QED
      BY <3>1, <3>2
  <2>4. QED
    BY <1>2, <2>1, <2>2, <2>3 DEF Refuse, TypeInv, TypeOK, BufferInv, QueuesOK, CallInv, process
<1>3. CASE Arrive
  <2>1. Head(wire) \in Answers /\ Tail(wire) \in Seq(Answers)
    BY <1>3, TailOfOne DEF Arrive, TypeInv, QueuesOK
  <2>2. input' \in Seq(Answers)
    BY <1>3, <2>1 DEF Arrive, TypeInv, QueuesOK
  <2>3. QED
    BY <1>3, <2>1, <2>2 DEF Arrive, TypeInv, TypeOK, BufferInv, QueuesOK, CallInv, process
<1>4. QED
  BY <1>1, <1>2, <1>3

LEMMA LeaveTypes ==
  ASSUME TypeInv, NEW p \in Processes, Leave(p), UNCHANGED board, input' \in Seq(Answers)
  PROVE  TypeInv'
<1>1. TypeOK'
  BY DEF TypeInv, TypeOK, Leave, board
<1>2. BufferInv' /\ QueuesOK' /\ CallInv'
  BY DEF TypeInv, TypeOK, BufferInv, QueuesOK, CallInv, Leave, board
<1>3. QED
  BY <1>1, <1>2 DEF TypeInv

\* Calls begin at their first word and open ports are idle.
LEMMA CallTypes ==
  ASSUME TypeInv, NEW p \in Processes, Open(p) \/ OpenFails(p) \/ Begin(p) \/ Close(p)
  PROVE  TypeInv'
<1>1. CASE Open(p)
  <2>1. clean' \in [Processes -> BOOLEAN]
    BY <1>1 DEF Open, Alone, Quiet
  <2>2. TypeOK'
    BY <1>1, <2>1 DEF Open, TypeInv, TypeOK, board
  <2>3. BufferInv' /\ QueuesOK' /\ CallInv'
    BY <1>1 DEF Open, TypeInv, TypeOK, BufferInv, QueuesOK, CallInv, board
  <2>4. QED
    BY <2>2, <2>3 DEF TypeInv
<1>2. CASE OpenFails(p)
  <2>1. <<>> \in Seq(Answers) /\ input \in Seq(Answers)
    BY DEF TypeInv, QueuesOK
  <2>2. QueuesOK'
    BY <1>2, <2>1 DEF OpenFails, TypeInv, QueuesOK, board
  <2>3. QED
    BY <1>2, <2>2 DEF OpenFails, TypeInv, TypeOK, BufferInv, CallInv, board, process
<1>3. CASE Begin(p)
  <2> PICK c \in Calls : call' = [call EXCEPT ![p] = c]
    BY <1>3 DEF Begin
  <2>1. c # NoCall /\ c.n \in Nat /\ c.n > 0
    BY CallFacts
  <2>2. /\ call' \in [Processes -> Calls \cup {NoCall}] /\ call'[p] = c
        /\ pc'[p] = "send" /\ unread' = unread
        /\ i' \in [Processes -> Nat] /\ i'[p] = 0
        /\ \A q \in Processes \ {p} : call'[q] = call[q] /\ i'[q] = i[q] /\ pc'[q] = pc[q]
    BY <1>3 DEF Begin, TypeInv, TypeOK
  <2>3. \A q \in Processes : i'[q] <= IF call'[q] = NoCall THEN 0 ELSE call'[q].n
    BY <2>1, <2>2 DEF TypeInv, TypeOK
  <2>4. TypeOK'
    BY <1>3, <2>2, <2>3 DEF Begin, TypeInv, TypeOK, board
  <2>5. CallInv'
    BY <2>1, <2>2 DEF TypeInv, CallInv
  <2>6. BufferInv' /\ QueuesOK'
    BY <1>3 DEF Begin, TypeInv, BufferInv, QueuesOK, board
  <2>7. QED
    BY <2>4, <2>5, <2>6 DEF TypeInv
<1>4. CASE Close(p)
  BY <1>4, LeaveTypes DEF Close, TypeInv, QueuesOK
<1>5. QED
  BY <1>1, <1>2, <1>3, <1>4

\* The count of words stays within the call, whichever answer ends a request.
LEMMA ContinueTypes ==
  ASSUME TypeInv, NEW p \in Processes, pc[p] = "wait", Continue(p)
  PROVE  /\ pc' \in [Processes -> {"closed", "idle", "send", "wait"}]
         /\ call' = call /\ clean' = clean
         /\ i' \in [Processes -> Nat] /\ i'[p] = i[p] + Block(p)
         /\ \A q \in Processes \ {p} : i'[q] = i[q] /\ pc'[q] = pc[q]
         /\ pc'[p] = IF i'[p] = call[p].n THEN "idle" ELSE "send"
         /\ \A q \in Processes : i'[q] <= IF call[q] = NoCall THEN 0 ELSE call[q].n
         /\ (\A q \in Processes \ {p} : unread'[q] = unread[q]) => CallInv'
<1>1. call[p] \in Calls /\ i[p] < call[p].n
  BY DEF TypeInv, CallInv
<1>2. /\ i[p] \in 0 .. (call[p].n - 1)
      /\ Block(p) \in 1 .. (call[p].n - i[p])
  BY <1>1, BlockRange DEF TypeInv
<1>3. call[p].n \in Nat /\ call[p] # NoCall
  BY <1>1, CallFacts
<1>4. i[p] + Block(p) \in 0 .. call[p].n
  BY <1>2, <1>3
<1>5. /\ i' \in [Processes -> Nat] /\ i'[p] = i[p] + Block(p)
      /\ \A q \in Processes \ {p} : i'[q] = i[q]
  BY <1>4, <1>3 DEF Continue, TypeInv, TypeOK
<1>6. /\ pc' \in [Processes -> {"closed", "idle", "send", "wait"}]
      /\ pc'[p] = IF i'[p] = call[p].n THEN "idle" ELSE "send"
      /\ \A q \in Processes \ {p} : pc'[q] = pc[q]
      /\ call' = call /\ clean' = clean
  BY <1>5 DEF Continue, TypeInv, TypeOK
<1>7. \A q \in Processes : i'[q] <= IF call[q] = NoCall THEN 0 ELSE call[q].n
  BY <1>3, <1>4, <1>5 DEF TypeInv, TypeOK
<1>8. ASSUME \A q \in Processes \ {p} : unread'[q] = unread[q] PROVE CallInv'
  <2>1. i'[p] = call[p].n \/ i'[p] < call[p].n
    BY <1>3, <1>4, <1>5
  <2>2. QED
    BY <1>1, <1>5, <1>6, <1>8, <2>1 DEF TypeInv, CallInv
<1>9. QED
  BY <1>5, <1>6, <1>7, <1>8

\* A request is sent, and its answer taken, refused or not waited for any more.
LEMMA StepTypes ==
  ASSUME TypeInv, NEW p \in Processes, Step(p)
  PROVE  TypeInv'
<1>1. CASE SendRequest(p)
  <2>1. call[p] \in Calls /\ i[p] < call[p].n
    BY <1>1 DEF SendRequest, TypeInv, CallInv
  <2>2. Request(p) \in Requests
    BY <2>1, RequestType DEF TypeInv
  <2>3. line' \in Seq(Requests)
    <3> DEFINE r == Request(p)
    <3>1. r \in Requests /\ line \in Seq(Requests)
      BY <2>2 DEF TypeInv, QueuesOK
    <3>2. line' = Append(line, r) \/ line' = line
      BY <1>1 DEF SendRequest
    <3> HIDE DEF r
    <3>3. QED
      BY <3>1, <3>2
  <2>4. TypeOK'
    BY <1>1 DEF SendRequest, TypeInv, TypeOK
  <2>5. CallInv'
    BY <1>1 DEF SendRequest, TypeInv, TypeOK, CallInv
  <2>6. QED
    BY <1>1, <2>3, <2>4, <2>5 DEF SendRequest, TypeInv, BufferInv, QueuesOK
<1>2. CASE ReceiveAnswer(p)
  <2>1. Continue(p) /\ pc[p] = "wait"
    BY <1>2 DEF ReceiveAnswer, AcceptWrite, AcceptRead
  <2>2. input' \in Seq(Answers)
    BY <1>2, RestOfInput DEF ReceiveAnswer, TypeInv, QueuesOK
  <2>3. told' \in [Processes -> BOOLEAN] /\ unread' \in [Processes -> BOOLEAN]
    <3>1. told \in [Processes -> BOOLEAN] /\ unread \in [Processes -> BOOLEAN]
      BY DEF TypeInv, TypeOK
    <3>2. \E b \in BOOLEAN : unread' = [unread EXCEPT ![p] = b]
      <4> PICK k \in 1 .. Len(input) : unread' = [unread EXCEPT ![p] = k > 1]
        BY <1>2 DEF ReceiveAnswer
      <4>1. (k > 1) \in BOOLEAN
        OBVIOUS
      <4>2. QED
        BY <4>1
    <3>3. told' = told \/ \E b \in BOOLEAN : told' = [told EXCEPT ![p] = b]
      <4>1. CASE AcceptRead(p, Head(input))
        BY <4>1 DEF AcceptRead
      <4>2. CASE AcceptWrite(p, Head(input))
        <5> DEFINE b == told[p] \/ Head(input).status # "O"
        <5>1. told' = [told EXCEPT ![p] = b] /\ b \in BOOLEAN
          BY <4>2 DEF AcceptWrite
        <5>2. QED
          BY <5>1
      <4>3. QED
        BY <1>2, <4>1, <4>2 DEF ReceiveAnswer
    <3>4. QED
      BY <3>1, <3>2, <3>3
  <2>4. CallInv'
    <3>1. \A q \in Processes \ {p} : unread'[q] = unread[q]
      BY <1>2 DEF ReceiveAnswer, TypeInv, TypeOK
    <3>2. QED
      BY <2>1, <3>1, ContinueTypes
  <2>5. TypeOK'
    BY <1>2, <2>1, <2>3, ContinueTypes DEF ReceiveAnswer, TypeInv, TypeOK, board
  <2>6. BufferInv'
    BY <1>2 DEF ReceiveAnswer, AcceptWrite, AcceptRead, TypeInv, BufferInv
  <2>7. QED
    BY <1>2, <2>2, <2>5, <2>6, <2>4 DEF ReceiveAnswer, TypeInv, QueuesOK, board
<1>3. CASE RejectAnswer(p)
  <2>1. input' \in Seq(Answers)
    BY <1>3, RestOfInput DEF RejectAnswer, TypeInv, QueuesOK
  <2>2. QED
    BY <1>3, <2>1, LeaveTypes DEF RejectAnswer
<1>4. CASE Timeout(p)
  BY <1>4, LeaveTypes DEF Timeout, TypeInv, QueuesOK
<1>5. QED
  BY <1>1, <1>2, <1>3, <1>4 DEF Step

LEMMA NextTypes ==
  ASSUME TypeInv, [Next]_vars
  PROVE  TypeInv'
<1>1. CASE UNCHANGED vars
  BY <1>1 DEF vars, board, process, TypeInv, TypeOK, BufferInv, QueuesOK, CallInv
<1>2. CASE Next
  BY <1>2, BoardTypes, CallTypes, StepTypes DEF Next
<1>3. QED
  BY <1>1, <1>2

-----------------------------------------------------------------------------
(* Who is alone stays undisturbed: what the others do, and the board.      *)

\* What the request asks for depends on the call and on how far it is.
LEMMA SameRequest ==
  ASSUME NEW p \in Processes, UNCHANGED <<call, i>>
  PROVE  Request(p)' = Request(p) /\ Block(p)' = Block(p)
BY DEF Request, Block

LEMMA SameTruth ==
  ASSUME NEW p \in Processes, NEW a, UNCHANGED <<mem, call, i>>, Truthful(p, a)
  PROVE  Truthful(p, a)'
BY DEF Truthful, Block

\* Another process is closed: all it can do is to open the port, or to fail to.
LEMMA OthersKeep ==
  ASSUME IInv, NEW p \in Processes, clean[p], NEW q \in Processes \ {p},
         OpenFails(q) \/ Begin(q) \/ Step(q) \/ Close(q)
  PROVE  clean'[p] => Undisturbed(p)'
<1>1. Undisturbed(p)
  BY DEF IInv, CleanInv
<1>2. pc[q] = "closed"
  BY <1>1 DEF Undisturbed, Alone, IsOpen
<1>3. OpenFails(q)
  BY <1>2 DEF Begin, Step, SendRequest, ReceiveAnswer, RejectAnswer, Timeout, Close, IsOpen
<1>4. /\ UNCHANGED <<mem, line, wire, pc, call, i, told, buf, unread, clean>>
      /\ input' \in {input, <<>>}
  BY <1>3 DEF OpenFails, board, process
<1>5. pc[p] = "wait" => OneOnTheWay(p)'
  <2> SUFFICES ASSUME pc[p] = "wait" PROVE OneOnTheWay(p)'
    OBVIOUS
  <2>1. OneOnTheWay(p)
    BY <1>1 DEF Undisturbed
  <2>2. Request(p)' = Request(p)
    BY <1>4, SameRequest
  <2>3. \A a : Truthful(p, a) => Truthful(p, a)'
    BY <1>4, SameTruth
  <2>4. QED
    BY <1>4, <2>1, <2>2, <2>3 DEF OneOnTheWay
<1>6. QED
  BY <1>1, <1>4, <1>5 DEF Undisturbed, IsOpen, Alone, Quiet, Completed

\* Opening the port makes its opener the only one who may be clean.
LEMMA OpenKeeps ==
  ASSUME IInv, NEW q \in Processes, Open(q)
  PROVE  CleanInv'
<1> SUFFICES ASSUME NEW p \in Processes, clean'[p] PROVE Undisturbed(p)'
  BY DEF CleanInv
<1>1. p = q /\ Alone(p) /\ Quiet
  BY DEF Open
<1>2. pc' \in [Processes -> {"closed", "idle", "send", "wait"}]
  BY NextTypes DEF IInv, TypeInv, TypeOK, Open
<1>3. pc'[p] = "idle" /\ \A o \in Processes \ {p} : pc'[o] = pc[o]
  BY <1>1 DEF Open, IInv, TypeInv, TypeOK
<1>4. ~ unread[p] /\ call[p] = NoCall
  BY <1>1 DEF Open, IsOpen, IInv, TypeInv, CallInv
<1>5. QED
  BY <1>1, <1>3, <1>4 DEF Open, Undisturbed, IsOpen, Alone, Quiet, Completed, board

-----------------------------------------------------------------------------
(* Its own steps.                                                          *)

LEMMA BeginKeeps ==
  ASSUME IInv, NEW p \in Processes, clean[p], Begin(p)
  PROVE  Undisturbed(p)'
<1>1. Undisturbed(p) /\ pc[p] = "idle"
  BY DEF IInv, CleanInv, Begin
<1>2. /\ i'[p] = 0 /\ pc'[p] = "send"
      /\ \A o \in Processes \ {p} : pc'[o] = pc[o]
  BY DEF Begin, IInv, TypeInv, TypeOK
<1>3. QED
  BY <1>1, <1>2 DEF Begin, Undisturbed, IsOpen, Alone, Quiet, Completed, board

LEMMA SendKeeps ==
  ASSUME IInv, NEW p \in Processes, clean[p], SendRequest(p)
  PROVE  Undisturbed(p)'
<1>1. Undisturbed(p) /\ pc[p] = "send"
  BY DEF IInv, CleanInv, SendRequest
<1>2. line = <<>> /\ wire = <<>> /\ input = <<>> /\ ~ unread[p]
  BY <1>1 DEF Undisturbed, Quiet
<1>3. UNCHANGED <<mem, wire, input, call, i, told, buf, clean>>
  BY DEF SendRequest
<1>4. OneOnTheWay(p)'
  <2>1. line' = <<Request(p)>>
    BY <1>2 DEF SendRequest
  <2>2. Request(p)' = Request(p)
    BY <1>3, SameRequest
  <2>3. QED
    BY <1>2, <1>3, <2>1, <2>2 DEF OneOnTheWay
<1>5. /\ pc'[p] = "wait" /\ ~ unread'[p]
      /\ \A o \in Processes \ {p} : pc'[o] = pc[o]
  BY DEF SendRequest, IInv, TypeInv, TypeOK
<1>6. QED
  BY <1>1, <1>3, <1>4, <1>5 DEF Undisturbed, IsOpen, Alone, Completed

\* A process that leaves is clean no longer.
LEMMA LeaveKeeps ==
  ASSUME IInv, NEW p \in Processes, Close(p) \/ RejectAnswer(p) \/ Timeout(p)
  PROVE  ~ clean'[p]
BY DEF Close, RejectAnswer, Timeout, Leave, IInv, TypeInv, TypeOK

\* The one line of input is the answer to its request, and its words are true.
LEMMA ReceiveKeeps ==
  ASSUME IInv, NEW p \in Processes, clean[p], ReceiveAnswer(p)
  PROVE  Undisturbed(p)'
<1> DEFINE a == Head(input)
<1>1. Undisturbed(p) /\ pc[p] = "wait" /\ input # <<>> /\ UNCHANGED board /\ Continue(p)
  BY DEF IInv, CleanInv, ReceiveAnswer, AcceptWrite, AcceptRead
<1>2. line = <<>> /\ wire = <<>> /\ input = <<a>> /\ Truthful(p, a)
  <2> PICK b \in Answers : Truthful(p, b) /\ line = <<>> /\ wire = <<>> /\ input = <<b>>
    BY <1>1 DEF Undisturbed, OneOnTheWay
  <2>1. a = b
    OBVIOUS
  <2>2. QED
    BY <2>1
<1>3. input' = <<>> /\ ~ unread'[p]
  <2> PICK k \in 1 .. Len(input) :
        /\ input' = SubSeq(input, k + 1, Len(input))
        /\ unread' = [unread EXCEPT ![p] = k > 1]
    BY DEF ReceiveAnswer
  <2> HIDE DEF a
  <2>1. Len(input) = 1 /\ k = 1
    BY <1>2
  <2>2. input' = <<>>
    BY <1>2, <2>1
  <2>3. unread'[p] = (k > 1)
    BY DEF IInv, TypeInv, TypeOK
  <2>4. ~ (k > 1)
    BY <2>1
  <2>5. QED
    BY <2>2, <2>3, <2>4, Zenon
<1>4. call[p] \in Calls /\ i[p] < call[p].n /\ i[p] \in Nat
  BY <1>1 DEF IInv, TypeInv, CallInv, TypeOK
<1>5. /\ Block(p) \in 1 .. (call[p].n - i[p])
      /\ IsWrite(call[p]) => Block(p) = 1
  BY <1>4, BlockRange DEF IInv, TypeInv
<1>6. /\ call' = call /\ i'[p] = i[p] + Block(p)
      /\ pc'[p] \in {"idle", "send"}
      /\ \A q \in Processes \ {p} : pc'[q] = pc[q]
  BY <1>1, ContinueTypes DEF IInv
<1>7. Completed(p)'
  <2> DEFINE c == call[p]
  <2> SUFFICES ASSUME ~ told'[p], NEW j \in 0 .. (i'[p] - 1)
               PROVE  mem[c.addr + j] = IF IsWrite(c) THEN c.data[j] ELSE buf'[p][j]
    BY <1>1, <1>6 DEF Completed, board
  <2>1. call[p] # NoCall /\ j \in 0 .. (i[p] + Block(p) - 1) /\ i[p] \in Nat /\ Block(p) \in Nat
    BY <1>4, <1>5, <1>6, CallFacts
  <2>2. ~ told[p] /\ a.status = "O"
    <3>1. CASE AcceptRead(p, a)
      BY <3>1 DEF AcceptRead
    <3>2. CASE AcceptWrite(p, a)
      <4>1. told'[p] = (told[p] \/ a.status # "O")
        BY <3>2 DEF AcceptWrite, IInv, TypeInv, TypeOK
      <4>2. QED
        BY <4>1
    <3>3. QED
      BY <3>1, <3>2 DEF ReceiveAnswer
  <2>3. j < i[p] => mem[c.addr + j] = IF IsWrite(c) THEN c.data[j] ELSE buf[p][j]
    BY <1>1, <2>1, <2>2 DEF Undisturbed, Completed
  <2>4. CASE IsWrite(c)
    <3>1. mem[c.addr + i[p]] = c.data[i[p]]
      BY <1>2, <2>2, <2>4 DEF Truthful, Answer
    <3>2. j < i[p] \/ j = i[p]
      BY <1>5, <2>1, <2>4
    <3>3. QED
      BY <2>3, <2>4, <3>1, <3>2
  <2>5. CASE ~ IsWrite(c)
    <3> HIDE DEF a, c
    <3>1. a.words = [k \in 1 .. Block(p) |-> mem[c.addr + i[p] + k - 1]]
      <4> DEFINE w == [k \in 1 .. Block(p) |-> mem[c.addr + i[p] + k - 1]]
      <4>1. a = Answer("error", <<>>) \/ a = Answer("O", w)
        BY <1>2, <2>5 DEF Truthful, c
      <4> HIDE DEF w
      <4>2. a.words = w
        BY <4>1, <2>2 DEF Answer
      <4>3. QED
        BY <4>2 DEF w
    <3>2. buf'[p] = [k \in 0 .. (i[p] + Block(p) - 1) |->
                       IF k < i[p] THEN buf[p][k] ELSE a.words[k - i[p] + 1]]
      BY <2>5 DEF ReceiveAnswer, AcceptWrite, AcceptRead, IInv, TypeInv, BufferInv, a, c
    <3>3. buf'[p][j] = IF j < i[p] THEN buf[p][j] ELSE a.words[j - i[p] + 1]
      BY <2>1, <3>2
    <3>4. CASE j >= i[p]
      <4>1. j - i[p] + 1 \in 1 .. Block(p)
        BY <2>1, <3>4
      <4>2. a.words[j - i[p] + 1] = mem[c.addr + i[p] + (j - i[p] + 1) - 1]
        BY <3>1, <4>1
      <4>3. c.addr \in Nat
        BY <1>4, CallFacts DEF c
      <4>4. c.addr + i[p] + (j - i[p] + 1) - 1 = c.addr + j
        BY <2>1, <4>3
      <4>5. QED
        BY <2>1, <2>5, <3>3, <3>4, <4>2, <4>4
    <3>5. QED
      BY <2>1, <2>3, <2>5, <3>3, <3>4
  <2>6. QED
    BY <2>4, <2>5
<1>8. QED
  BY <1>1, <1>2, <1>3, <1>6, <1>7 DEF Undisturbed, IsOpen, Alone, Quiet, board

-----------------------------------------------------------------------------
(* The board's steps.                                                      *)

\* While its own request is on the line, nothing else is.
LEMMA ServeKeeps ==
  ASSUME IInv, NEW p \in Processes, clean[p], Serve \/ Refuse
  PROVE  Undisturbed(p)'
<1> DEFINE c == call[p]
           r == Request(p)
<1>1. Undisturbed(p) /\ line # <<>> /\ UNCHANGED <<input, process>>
  BY DEF IInv, CleanInv, Serve, Refuse
<1>2. pc[p] = "wait" /\ line = <<r>> /\ wire = <<>> /\ input = <<>>
  BY <1>1 DEF Undisturbed, OneOnTheWay, Quiet
<1>3. c \in Calls /\ i[p] < c.n /\ i[p] \in Nat
  BY <1>2 DEF IInv, TypeInv, CallInv, TypeOK
<1>4. r \in Requests
  BY <1>3, RequestType DEF IInv, TypeInv
<1>5. /\ r.write = IsWrite(c) /\ r.addr = c.addr + i[p]
      /\ r.n = Block(p) /\ r.value = c.data[i[p]]
  BY DEF Request
<1>6. call' = call /\ i' = i /\ Block(p)' = Block(p)
  BY <1>1, SameRequest DEF process
<1> HIDE DEF r
<1>7. Head(line) = r /\ line' = <<>>
  BY <1>2 DEF Serve, Refuse
<1>8. mem' \in {mem, After(r)}
  BY <1>7 DEF Serve, Refuse
<1>9. \A j \in 0 .. (i[p] - 1) : mem'[c.addr + j] = mem[c.addr + j]
  <2> TAKE j \in 0 .. (i[p] - 1)
  <2>1. c.addr \in Nat /\ c.addr + j # r.addr
    BY <1>3, <1>5, CallFacts
  <2>2. QED
    <3>1. c.addr + j \in c.addr .. (c.addr + c.n - 1)
      BY <1>3, <2>1, CallFacts
    <3>2. c.addr + j \in Addr /\ mem \in [Addr -> Val]
      BY <1>3, <3>1, CallFacts DEF IInv, TypeInv, TypeOK
    <3>3. QED
      BY <1>8, <2>1, <3>2 DEF After
<1>10. Completed(p)'
  BY <1>1, <1>6, <1>9 DEF Undisturbed, Completed, process
<1>11. OneOnTheWay(p)'
  <2>1. CASE Serve
    <3>1. PICK a \in Answers : a = Answered(r)
      BY <1>4, AnsweredType DEF IInv, TypeInv
    <3>2. wire' = <<a>> /\ mem' = After(r)
      BY <1>2, <1>7, <2>1, <3>1 DEF Serve
    <3>3. Truthful(p, a)'
      <4>1. CASE IsWrite(c)
        <5>1. a = Answer("O", <<>>)
          BY <1>5, <3>1, <4>1 DEF Answered
        <5>2. r.addr \in Addr /\ mem \in [Addr -> Val]
          <6>1. r.addr \in r.addr .. (r.addr + r.n - 1)
            BY <1>4, SerialAssumption DEF Requests
          <6>2. QED
            BY <1>4, <6>1 DEF Requests, IInv, TypeInv, TypeOK
        <5>3. mem'[c.addr + i[p]] = c.data[i[p]]
          BY <1>5, <3>2, <4>1, <5>2 DEF After
        <5>4. QED
          BY <1>6, <4>1, <5>1, <5>3 DEF Truthful
      <4>2. CASE ~ IsWrite(c)
        <5>1. mem' = mem
          BY <1>5, <3>2, <4>2 DEF After
        <5>2. a = Answer("O", [j \in 1 .. Block(p) |-> mem[c.addr + i[p] + j - 1]])
          BY <1>5, <3>1, <4>2 DEF Answered
        <5>3. QED
          BY <1>6, <4>2, <5>1, <5>2 DEF Truthful
      <4>3. QED
        BY <4>1, <4>2
    <3>4. input' = <<>>
      BY <1>1, <1>2
    <3>5. \E b \in Answers : Truthful(p, b)' /\ wire' = <<b>>
      BY <3>1, <3>2, <3>3
    <3>6. QED
      BY <1>7, <3>4, <3>5 DEF OneOnTheWay
  <2>2. CASE Refuse
    <3> DEFINE e == Answer("error", <<>>)
    <3>1. e \in Answers /\ Truthful(p, e)'
      BY ErrorType DEF Truthful
    <3>2. wire' \in {<<e>>, <<>>}
      BY <1>2, <2>2 DEF Refuse
    <3> HIDE DEF e
    <3>3. input' = <<>>
      BY <1>1, <1>2
    <3>4. QED
      BY <1>7, <3>1, <3>2, <3>3 DEF OneOnTheWay
  <2>3. QED
    BY <2>1, <2>2
<1>12. QED
  BY <1>1, <1>2, <1>10, <1>11 DEF Undisturbed, IsOpen, Alone, process

LEMMA ArriveKeeps ==
  ASSUME IInv, NEW p \in Processes, clean[p], Arrive
  PROVE  Undisturbed(p)'
<1>1. Undisturbed(p) /\ wire # <<>> /\ UNCHANGED <<mem, line, process>>
  BY DEF IInv, CleanInv, Arrive
<1>2. PICK a \in Answers : Truthful(p, a) /\ line = <<>> /\ wire = <<a>> /\ input = <<>>
  BY <1>1 DEF Undisturbed, OneOnTheWay, Quiet
<1>3. pc[p] = "wait"
  BY <1>1 DEF Undisturbed, Quiet
<1>4. input' = <<a>> /\ wire' = <<>>
  BY <1>2 DEF Arrive
<1>5. Truthful(p, a)'
  BY <1>1, <1>2, SameTruth DEF process
<1>6. OneOnTheWay(p)'
  BY <1>1, <1>2, <1>4, <1>5 DEF OneOnTheWay
<1>7. QED
  BY <1>1, <1>3, <1>6 DEF Undisturbed, IsOpen, Alone, Completed, process

-----------------------------------------------------------------------------
LEMMA StepInv == IInv /\ [Next]_vars => IInv'
<1> SUFFICES ASSUME IInv, [Next]_vars PROVE IInv'
  OBVIOUS
<1>1. TypeInv'
  BY NextTypes DEF IInv
<1>2. ASSUME NEW p \in Processes, clean'[p] PROVE Undisturbed(p)'
  <2>1. CASE UNCHANGED vars
    <3>1. Undisturbed(p)
      BY <1>2, <2>1 DEF IInv, CleanInv, vars, process
    <3>2. Request(p)' = Request(p) /\ \A a : Truthful(p, a) => Truthful(p, a)'
      BY <2>1, SameRequest, SameTruth DEF vars, board, process
    <3>3. OneOnTheWay(p) => OneOnTheWay(p)'
      BY <2>1, <3>2 DEF OneOnTheWay, vars, board
    <3>4. QED
      BY <2>1, <3>1, <3>3 DEF Undisturbed, IsOpen, Alone, Quiet, Completed, vars, board, process
  <2>2. CASE \E q \in Processes : Open(q)
    BY <1>2, <2>2, OpenKeeps DEF CleanInv
  <2>3. CASE Serve \/ Refuse \/ Arrive
    <3>1. clean[p]
      BY <1>2, <2>3 DEF Serve, Refuse, Arrive, process
    <3>2. QED
      BY <2>3, <3>1, ServeKeeps, ArriveKeeps
  <2>4. ASSUME NEW q \in Processes, OpenFails(q) \/ Begin(q) \/ Step(q) \/ Close(q)
        PROVE  Undisturbed(p)'
    <3>1. clean[p]
      BY <1>2, <2>4 DEF OpenFails, Begin, Step, SendRequest, ReceiveAnswer, RejectAnswer, Timeout,
         Close, Leave, AcceptWrite, AcceptRead, Continue, process, IInv, TypeInv, TypeOK
    <3>2. CASE q # p
      BY <1>2, <2>4, <3>1, <3>2, OthersKeep
    <3>3. CASE q = p
      <4>1. ~ OpenFails(p)
        BY <3>1 DEF OpenFails, IInv, CleanInv, Undisturbed
      <4>2. QED
        BY <1>2, <2>4, <3>1, <3>3, <4>1, BeginKeeps, SendKeeps, ReceiveKeeps, LeaveKeeps DEF Step
    <3>4. QED
      BY <3>2, <3>3
  <2>5. QED
    BY <2>1, <2>2, <2>3, <2>4 DEF Next
<1>3. QED
  BY <1>1, <1>2 DEF IInv, CleanInv

\* The state is always of the declared types and the count of words within the call.
THEOREM TypeCorrect == Spec => []TypeOK
<1>1. IInv => TypeOK
  BY DEF IInv, TypeInv
<1>2. QED
  BY InitInv, StepInv, <1>1, PTL DEF Spec

\* Who opens a quiet port and has it alone is told the truth: what its calls complete
\* without an error is so.
THEOREM ToldTheTruth == Spec => []CompletedIsTrue
<1>1. IInv => CompletedIsTrue
  BY DEF IInv, CleanInv, Undisturbed, Completed, CompletedIsTrue
<1>2. QED
  BY InitInv, StepInv, <1>1, PTL DEF Spec

\* Nothing of such a process is on its way when it is not inside of a request.
THEOREM NothingLeftBehind == Spec => []NothingOnTheWay
<1>1. IInv => NothingOnTheWay
  BY DEF IInv, CleanInv, Undisturbed, NothingOnTheWay
<1>2. QED
  BY InitInv, StepInv, <1>1, PTL DEF Spec
=============================================================================
