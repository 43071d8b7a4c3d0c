---------------------------- MODULE Devices_proofs ----------------------------
(* Proofs about the devices that a program works with one at a time, and   *)
(* about the oscillator.                                                   *)
EXTENDS Devices, Oscillator, FiniteSetTheorems, WellFoundedInduction, TLAPS

-----------------------------------------------------------------------------
(* Numbers.                                                                *)
-----------------------------------------------------------------------------
\* The least number of a set: the sets 0 .. n-1 are well founded.
LEMMA Least ==
  ASSUME NEW T, T \subseteq Nat, T # {}
  PROVE  \E n \in T : \A m \in T : n <= m
<1> DEFINE F == {0 .. n-1 : n \in T}
<1>1. F \subseteq FiniteSubsetsOf(Nat)
  <2>1. \A n \in Nat : IsFiniteSet(0 .. n-1)
    BY FS_Interval
  <2>2. \A n \in Nat : 0 .. n-1 \subseteq Nat
    OBVIOUS
  <2>3. QED
    BY <2>1, <2>2 DEF FiniteSubsetsOf
<1>2. PICK x \in F : \A y \in F : ~ <<y, x>> \in StrictSubsetOrdering(Nat)
  <2>1. F # {}
    OBVIOUS
  <2> HIDE DEF F
  <2>2. QED
    BY <1>1, <2>1, FS_StrictSubsetOrderingWellFounded, WFMin
<1>3. PICK n \in T : x = 0 .. n-1
  OBVIOUS
<1>4. ASSUME NEW m \in T, m < n PROVE FALSE
  <2>1. 0 .. m-1 \in F
    OBVIOUS
  <2>2. 0 .. m-1 \subseteq x /\ 0 .. m-1 # x /\ x \in SUBSET Nat /\ 0 .. m-1 \in SUBSET Nat
    BY <1>3, <1>4
  <2>3. <<0 .. m-1, x>> \in StrictSubsetOrdering(Nat)
    BY <2>2 DEF StrictSubsetOrdering
  <2>4. QED
    BY <1>2, <2>1, <2>3
<1>5. QED
  BY <1>3, <1>4

LEMMA Greatest ==
  ASSUME NEW N \in Nat, NEW T, T \subseteq 1 .. N, T # {}
  PROVE  \E n \in T : \A m \in T : m <= n
<1> DEFINE U == {N - n : n \in T}
<1>1. U \subseteq Nat /\ U # {}
  <2>1. \A n \in T : N - n \in Nat
    OBVIOUS
  <2>2. QED
    BY <2>1
<1>2. PICK u \in U : \A v \in U : u <= v
  <2> HIDE DEF U
  <2> QED BY <1>1, Least
<1>3. PICK n \in T : u = N - n
  OBVIOUS
<1>4. \A m \in T : u <= N - m
  BY <1>2
<1>5. QED
  BY <1>3, <1>4

LEMMA RoomBetween == \A a, b, c \in Nat : a < b => a*c + c <= b*c
OBVIOUS

LEMMA QuotientIs ==
  ASSUME NEW c \in Nat \ {0}, NEW j \in Nat, NEW k \in 0 .. c-1
  PROVE  (k + c*j) \div c = j /\ (k + c*j) % c = k
OBVIOUS

-----------------------------------------------------------------------------
(* Spi: the accesses to the chips on a bus.  isla216p's set_reg, which     *)
(* sends no value, is left out where it says so.                           *)
-----------------------------------------------------------------------------
\* What a chip is to receive of an access: three bytes, whatever the access.
Request(c) ==
  <<IF Bus!IsSet(c) THEN Bus!Write ELSE Bus!Read, c.addr, IF Bus!IsSet(c) THEN c.value ELSE 0>>

LEMMA BusBytes ==
  /\ Bus!Bytes \subseteq Nat /\ 0 \in Bus!Bytes
  /\ Bus!Read \in Bus!Bytes /\ Bus!Read > 0 /\ Bus!Write = 0
<1>1. B \in Nat /\ B > 0 /\ B % 2 = 0
  BY BusAssumption
<1>2. B >= 2
  BY <1>1
<1>3. QED
  BY <1>1, <1>2 DEF Bus!Bytes, Bus!Read, Bus!Write

LEMMA CallTypes ==
  ASSUME NEW c \in Bus!Calls
  PROVE  /\ c.kind \in {"get", "set", "ad9510_get", "ad9510_set", "isla_set"}
         /\ c.addr \in Addrs /\ c.value \in Bus!Bytes /\ c.value \in Nat
BY BusAssumption, BusBytes DEF Bus!Calls, Bus!Bytes

\* The word that write_read_data makes has the bytes of the request in its lowest places.
LEMMA WordHasRequest ==
  ASSUME NEW c \in Bus!Calls, c.kind # "isla_set"
  PROVE  Bus!Shifted(Bus!Word(Bus!Wdata(c), Bus!Rsize(c)), Len(Bus!Wdata(c)) + Bus!Rsize(c))
           = Request(c)
<1>1. CASE c.kind \in {"get", "ad9510_get"}
  <2>1. Bus!Wdata(c) = <<Bus!Read, c.addr>> /\ Bus!Rsize(c) = 1 /\ ~ Bus!IsSet(c)
    BY <1>1 DEF Bus!Wdata, Bus!Rsize, Bus!IsSet
  <2>2. Bus!Copied(Bus!Wdata(c)) = <<Bus!Read, c.addr, 0, 0>>
    BY <2>1 DEF Bus!Copied
  <2>3. Bus!ShiftRight(<<Bus!Read, c.addr, 0, 0>>, 2) = <<0, 0, Bus!Read, c.addr>>
    BY DEF Bus!ShiftRight
  <2>4. Bus!ShiftLeft(<<0, 0, Bus!Read, c.addr>>, 1) = <<0, Bus!Read, c.addr, 0>>
    BY DEF Bus!ShiftLeft
  <2>5. Bus!Word(Bus!Wdata(c), Bus!Rsize(c)) = <<0, Bus!Read, c.addr, 0>>
    BY <2>1, <2>2, <2>3, <2>4 DEF Bus!Word
  <2>6. QED
    BY <2>1, <2>5 DEF Bus!Shifted, Request
<1>2. CASE c.kind \in {"set", "ad9510_set"}
  <2>1. Bus!Wdata(c) = <<Bus!Write, c.addr, c.value>> /\ Bus!Rsize(c) = 0 /\ Bus!IsSet(c)
    BY <1>2 DEF Bus!Wdata, Bus!Rsize, Bus!IsSet
  <2>2. Bus!Copied(Bus!Wdata(c)) = <<Bus!Write, c.addr, c.value, 0>>
    BY <2>1 DEF Bus!Copied
  <2>3. Bus!ShiftRight(<<Bus!Write, c.addr, c.value, 0>>, 1) = <<0, Bus!Write, c.addr, c.value>>
    BY DEF Bus!ShiftRight
  <2>4. Bus!ShiftLeft(<<0, Bus!Write, c.addr, c.value>>, 0) = <<0, Bus!Write, c.addr, c.value>>
    BY DEF Bus!ShiftLeft
  <2>5. Bus!Word(Bus!Wdata(c), Bus!Rsize(c)) = <<0, Bus!Write, c.addr, c.value>>
    BY <2>1, <2>2, <2>3, <2>4 DEF Bus!Word
  <2>6. QED
    BY <2>1, <2>5 DEF Bus!Shifted, Request
<1>3. QED
  BY <1>1, <1>2, CallTypes

\* A chip's answer to a request, and its registers after it.
BusDone ==
  IF Bus!IsSet(call)
    THEN chips = [before EXCEPT ![Bus!Slave(call)][call.addr] = call.value]
    ELSE chips = before /\ hw.rx = before[Bus!Slave(call)][call.addr]

\* What the controller's registers are for a call that has got past its checks.
BusRegs ==
  [x |-> Bus!Word(Bus!Wdata(call), Bus!Rsize(call)),
   charlen |-> Len(Bus!Wdata(call)) + Bus!Rsize(call),
   ss |-> Bus!Slave(call), bsy |-> FALSE]

BusTypes ==
  /\ chips \in [Slaves -> [Addrs -> Bus!Bytes]]
  /\ regs \in [x : {regs.x}, charlen : {regs.charlen}, ss : {regs.ss}, bsy : {FALSE}]
  /\ phase \in {"new", "idle", "threw", "write", "start", "poll", "done"}
  /\ sent \in {0, 1}
  /\ hw \in [x : {hw.x}, charlen : {hw.charlen}, ss : {hw.ss}, bsy : BOOLEAN, rx : {hw.rx}]

\* From the first write to the return the registers are those of the call, and the core is
\* only busy while the controller waits for it.
BusInv ==
  /\ BusTypes
  /\ phase \in {"write", "start", "poll", "done"} =>
       call \in Bus!Calls /\ Bus!Slave(call) \in Slaves /\ regs = BusRegs
  /\ phase \in {"start", "poll", "done"} =>
       hw.x = regs.x /\ hw.charlen = regs.charlen /\ hw.ss = regs.ss
  /\ phase \in {"write", "start"} => sent = 0 /\ chips = before
  /\ hw.bsy => phase = "poll" /\ sent = 0 /\ chips = before
  /\ phase = "poll" /\ ~ hw.bsy => sent = 1 /\ BusDone
  /\ phase = "done" => /\ sent = 1 /\ BusDone
                       /\ Bus!IsSet(call) \/ rdata = hw.rx

LEMMA BusInit == Bus!Init => BusInv
<1> SUFFICES ASSUME Bus!Init PROVE BusInv
  OBVIOUS
<1>1. Values \subseteq Bus!Bytes
  BY BusAssumption DEF Bus!Bytes
<1>2. chips \in [Slaves -> [Addrs -> Bus!Bytes]]
  BY <1>1 DEF Bus!Init
<1>3. QED
  BY <1>2 DEF Bus!Init, BusInv, BusTypes, Bus!NoRegs

LEMMA BusTransfer ==
  ASSUME BusInv, Bus!Transfer, "isla_set" \notin Kinds
  PROVE  BusInv'
<1>1. /\ phase = "poll" /\ sent = 0 /\ chips = before /\ hw.bsy /\ regs = BusRegs
      /\ hw.x = regs.x /\ hw.charlen = regs.charlen /\ hw.ss = regs.ss
      /\ call \in Bus!Calls /\ Bus!Slave(call) \in Slaves
      /\ UNCHANGED <<regs, phase, call, rdata, before>> /\ sent' = 1
  BY DEF Bus!Transfer, BusInv
<1> DEFINE s == Bus!Slave(call)
<1>2. call.kind # "isla_set"
  BY <1>1 DEF Bus!Calls
<1>3. Bus!Shifted(hw.x, hw.charlen) = Request(call)
  BY <1>1, <1>2, WordHasRequest DEF BusRegs
<1>4. hw.ss = s /\ s \in Slaves
  BY <1>1 DEF BusRegs
<1>5. /\ call.addr \in Addrs /\ call.value \in Bus!Bytes
      /\ chips \in [Slaves -> [Addrs -> Bus!Bytes]]
  BY <1>1, CallTypes DEF BusInv, BusTypes
<1>6. /\ chips' = [chips EXCEPT ![s] = Bus!Takes(s, Request(call))]
      /\ hw' = [hw EXCEPT !.bsy = FALSE, !.rx = Bus!Answer(s, Request(call))]
  BY <1>3, <1>4 DEF Bus!Transfer
<1>7. CASE Bus!IsSet(call)
  <2>1. Request(call) = <<Bus!Write, call.addr, call.value>>
    BY <1>7 DEF Request
  <2>2. Bus!Takes(s, Request(call)) = [chips[s] EXCEPT ![call.addr] = call.value]
    BY <1>5, <2>1, BusBytes DEF Bus!Takes
  <2>3. chips' = [before EXCEPT ![s][call.addr] = call.value]
    BY <1>1, <1>4, <1>5, <1>6, <2>2
  <2>4. chips' \in [Slaves -> [Addrs -> Bus!Bytes]]
    BY <1>1, <1>4, <1>5, <2>3
  <2>5. hw' = [x |-> hw.x, charlen |-> hw.charlen, ss |-> hw.ss, bsy |-> FALSE,
               rx |-> Bus!Answer(s, Request(call))]
    BY <1>6 DEF BusInv, BusTypes
  <2>6. BusDone'
    BY <1>1, <1>7, <2>3 DEF BusDone
  <2>7. BusTypes'
    BY <1>1, <2>4, <2>5 DEF BusInv, BusTypes
  <2>8. BusRegs' = BusRegs
    BY <1>1 DEF BusRegs
  <2>9. QED
    BY <1>1, <2>5, <2>6, <2>7, <2>8 DEF BusInv
<1>8. CASE ~ Bus!IsSet(call)
  <2>1. Request(call) = <<Bus!Read, call.addr, 0>>
    BY <1>8 DEF Request
  <2>2. Bus!Takes(s, Request(call)) = chips[s]
    BY <2>1, BusBytes DEF Bus!Takes
  <2>3. Bus!Answer(s, Request(call)) = chips[s][call.addr]
    BY <1>5, <2>1, BusBytes DEF Bus!Answer
  <2>4. chips' = chips
    BY <1>4, <1>5, <1>6, <2>2
  <2>5. QED
    BY <1>1, <1>6, <1>8, <2>3, <2>4 DEF BusInv, BusTypes, BusDone, BusRegs
<1>9. QED
  BY <1>7, <1>8

LEMMA BusCall ==
  ASSUME BusInv, NEW c \in Bus!Calls, Bus!Call(c)
  PROVE  BusInv'
<1>1. /\ phase = "idle" /\ call' = c /\ before' = chips /\ sent' = 0
      /\ UNCHANGED <<chips, hw, rdata>> /\ ~ hw.bsy
  BY DEF Bus!Call, BusInv
<1>2. CASE Bus!Slave(c) \in Slaves
  <2>1. /\ phase' = "write"
        /\ regs' = [regs EXCEPT !.charlen = Len(Bus!Wdata(c)) + Bus!Rsize(c),
                                !.ss = Bus!Slave(c),
                                !.x = Bus!Word(Bus!Wdata(c), Bus!Rsize(c))]
    BY <1>2 DEF Bus!Call
  <2>2. regs' = [x |-> Bus!Word(Bus!Wdata(c), Bus!Rsize(c)),
                 charlen |-> Len(Bus!Wdata(c)) + Bus!Rsize(c), ss |-> Bus!Slave(c), bsy |-> FALSE]
    BY <2>1 DEF BusInv, BusTypes
  <2>3. regs' = BusRegs'
    BY <1>1, <2>2 DEF BusRegs
  <2>4. regs' \in [x : {regs'.x}, charlen : {regs'.charlen}, ss : {regs'.ss}, bsy : {FALSE}]
    BY <2>2
  <2>5. QED
    BY <1>1, <1>2, <2>1, <2>3, <2>4 DEF BusInv, BusTypes
<1>3. CASE Bus!Slave(c) \notin Slaves
  BY <1>1, <1>3 DEF Bus!Call, BusInv, BusTypes
<1>4. QED
  BY <1>2, <1>3

LEMMA BusNext ==
  ASSUME BusInv, [Bus!Next]_Bus!vars, "isla_set" \notin Kinds
  PROVE  BusInv'
<1>1. CASE Bus!SetDevinfo
  BY <1>1 DEF Bus!SetDevinfo, Bus!CoreWritten, BusInv, BusTypes
<1>2. CASE Bus!WriteRegs
  BY <1>2 DEF Bus!WriteRegs, Bus!CoreWritten, BusInv, BusTypes, BusRegs
<1>3. CASE Bus!Start
  <2>1. regs' = regs
    BY <1>3 DEF Bus!Start, BusInv, BusTypes
  <2>2. hw' = [x |-> regs.x, charlen |-> regs.charlen, ss |-> regs.ss, bsy |-> TRUE,
               rx |-> hw.rx]
    BY <1>3 DEF Bus!Start, Bus!CoreWritten, BusInv, BusTypes
  <2>3. /\ phase = "start" /\ phase' = "poll"
        /\ UNCHANGED <<chips, call, rdata, before, sent>> /\ BusRegs' = BusRegs
    BY <1>3 DEF Bus!Start, BusRegs
  <2>4. QED
    BY <2>1, <2>2, <2>3 DEF BusInv, BusTypes
<1>4. CASE Bus!Poll
  <2>1. CASE hw.bsy
    BY <1>4, <2>1 DEF Bus!Poll, BusInv, BusTypes, BusRegs, BusDone
  <2>2. CASE ~ hw.bsy
    <3>1. Bus!IsSet(call) \/ Bus!Rsize(call) = 1
      BY DEF Bus!IsSet, Bus!Rsize
    <3>2. QED
      BY <1>4, <2>2, <3>1 DEF Bus!Poll, BusInv, BusTypes, BusRegs, BusDone
  <2>3. QED
    BY <2>1, <2>2
<1>5. CASE Bus!Return
  BY <1>5 DEF Bus!Return, BusInv, BusTypes
<1>6. CASE Bus!Transfer
  BY <1>6, BusTransfer
<1>7. ASSUME NEW c \in Bus!Calls, Bus!Call(c) PROVE BusInv'
  BY <1>7, BusCall
<1>8. CASE UNCHANGED Bus!vars
  BY <1>8 DEF Bus!vars, BusInv, BusTypes, BusRegs, BusDone
<1>9. QED
  BY <1>1, <1>2, <1>3, <1>4, <1>5, <1>6, <1>7, <1>8 DEF Bus!Next, Bus!Steps

\* Every access that write_read_data makes is one transfer, and does to the chip's
\* registers what it says, for all slaves, addresses and values, whatever call came
\* before it, one that threw included.
THEOREM AccessesDone ==
  ASSUME "isla_set" \notin Kinds
  PROVE  Bus!Spec => []AccessDone
<1>1. BusInv => AccessDone
  BY DEF BusInv, BusTypes, BusDone, AccessDone, Bus!AccessDone
<1>2. QED
  BY <1>1, BusInit, BusNext, PTL DEF Bus!Spec

-----------------------------------------------------------------------------
(* PosCalcFifo: the records of pos_calc's FIFO.                            *)
-----------------------------------------------------------------------------
\* Records that reads have taken from the FIFO.
Consumed == Len(taken) - Len(fifo)
\* Whether what was in the data registers has been printed, and records that have.
Blank == IF shown # <<>> /\ shown[1] = Fifo!NoRecord THEN 1 ELSE 0
Printed == Len(shown) - Blank

FifoTypes ==
  /\ fifo \in Seq(Nat) /\ taken \in Seq(Nat) /\ shown \in Seq(Nat)
  /\ made \in Nat /\ out \in Nat /\ amps \in Nat
  /\ mode \in {"none", "pos_calc", "decode"}
  /\ turn \in {"new", "get_data", "check", "amps", "print"}
  /\ turn = "new" <=> mode = "none"

\* The core numbers its records upwards, and the FIFO has the last ones that it took.
FifoHas ==
  /\ Len(fifo) <= Len(taken)
  /\ \A n \in 1 .. Len(fifo) : fifo[n] = taken[Consumed + n]
  /\ \A n \in 1 .. Len(taken) : taken[n] \in 1 .. made
  /\ \A n \in 1 .. Len(taken) - 1 : taken[n] < taken[n+1]
  /\ out = IF Consumed = 0 THEN Fifo!NoRecord ELSE taken[Consumed]

\* What has been printed are the records that were taken; the last one is still to be
\* printed after a read that found one.
FifoShows ==
  /\ Printed \in Nat /\ Printed <= Len(taken)
  /\ \A n \in 1 .. Printed : shown[Blank + n] = taken[n]
  /\ mode # "decode" => Blank = 0
  /\ mode = "pos_calc" /\ turn = "amps" => fifo # <<>>
  /\ turn # "print" => Printed = Consumed
  /\ turn = "print" =>
       /\ amps = out
       /\ \/ Consumed > 0 /\ Printed = Consumed - 1
          \/ mode = "decode" /\ Printed = Consumed

FifoInv == FifoTypes /\ FifoHas /\ FifoShows

LEMMA Appended ==
  ASSUME NEW s \in Seq(Nat), NEW e \in Nat
  PROVE  /\ Append(s, e) \in Seq(Nat) /\ Append(s, e) # <<>>
         /\ Len(Append(s, e)) = Len(s) + 1 /\ Len(s) \in Nat
         /\ \A n \in 1 .. Len(s) : Append(s, e)[n] = s[n]
         /\ Append(s, e)[Len(s) + 1] = e
OBVIOUS

LEMMA FifoInit == Fifo!Init => FifoInv
<1> SUFFICES ASSUME Fifo!Init PROVE FifoInv
  OBVIOUS
<1>1. /\ made \in Nat /\ fifo = [n \in 1 .. made |-> n] /\ taken = fifo
      /\ out = 0 /\ mode = "none" /\ turn = "new" /\ amps = 0 /\ shown = <<>>
  BY FifoAssumption DEF Fifo!Init, Fifo!NoRecord
<1>2. fifo \in Seq(Nat) /\ Len(fifo) = made
  BY <1>1
<1>3. FifoTypes
  BY <1>1, <1>2 DEF FifoTypes
<1>4. Blank = 0 /\ Printed = 0 /\ Consumed = 0
  BY <1>1, <1>2 DEF Blank, Printed, Consumed
<1>5. FifoHas
  BY <1>1, <1>2, <1>4 DEF FifoHas, Fifo!NoRecord
<1>6. FifoShows
  BY <1>1, <1>2, <1>4 DEF FifoShows
<1>7. QED
  BY <1>3, <1>5, <1>6 DEF FifoInv

LEMMA FifoMake ==
  ASSUME FifoInv, Fifo!Make
  PROVE  FifoInv'
<1>1. /\ made' = made + 1 /\ UNCHANGED <<out, mode, turn, amps, shown>>
      /\ \/ fifo' = Append(fifo, made + 1) /\ taken' = Append(taken, made + 1)
         \/ UNCHANGED <<fifo, taken>>
  BY DEF Fifo!Make
<1>2. Blank' = Blank /\ Printed' = Printed
  BY <1>1 DEF Blank, Printed
<1>3. CASE UNCHANGED <<fifo, taken>>
  <2>1. Consumed' = Consumed
    BY <1>3 DEF Consumed
  <2>2. FifoHas' /\ FifoTypes'
    BY <1>1, <1>3, <2>1 DEF FifoInv, FifoTypes, FifoHas
  <2>3. FifoShows'
    BY <1>1, <1>2, <1>3, <2>1 DEF FifoInv, FifoShows
  <2>4. QED
    BY <2>2, <2>3 DEF FifoInv
<1>4. CASE fifo' = Append(fifo, made + 1) /\ taken' = Append(taken, made + 1)
  <2>1. /\ fifo \in Seq(Nat) /\ taken \in Seq(Nat) /\ made \in Nat
        /\ Len(fifo) \in Nat /\ Len(taken) \in Nat /\ Len(fifo) <= Len(taken)
    BY DEF FifoInv, FifoTypes, FifoHas
  <2>0. made + 1 \in Nat
    BY <2>1
  <2>2. /\ fifo' \in Seq(Nat) /\ fifo' # <<>> /\ Len(fifo') = Len(fifo) + 1
        /\ \A n \in 1 .. Len(fifo) : fifo'[n] = fifo[n]
        /\ fifo'[Len(fifo) + 1] = made + 1
    BY <1>4, <2>0, <2>1, Appended
  <2>3. /\ taken' \in Seq(Nat) /\ Len(taken') = Len(taken) + 1
        /\ \A n \in 1 .. Len(taken) : taken'[n] = taken[n]
        /\ taken'[Len(taken) + 1] = made + 1
    BY <1>4, <2>0, <2>1, Appended
  <2>4. Consumed' = Consumed /\ Consumed \in Nat /\ Consumed <= Len(taken)
    BY <2>1, <2>2, <2>3 DEF Consumed
  <2>5. FifoTypes'
    BY <1>1, <2>1, <2>2, <2>3 DEF FifoInv, FifoTypes
  <2>6. \A n \in 1 .. Len(fifo') : fifo'[n] = taken'[Consumed + n]
    <3> TAKE n \in 1 .. Len(fifo')
    <3>1. CASE n = Len(fifo) + 1
      <4>1. Consumed + n = Len(taken) + 1
        BY <2>1, <3>1 DEF Consumed
      <4>2. QED
        BY <2>2, <2>3, <3>1, <4>1, Zenon
    <3>2. CASE n \in 1 .. Len(fifo)
      <4>1. fifo[n] = taken[Consumed + n] /\ Consumed + n \in 1 .. Len(taken)
        BY <2>1, <3>2 DEF FifoInv, FifoHas, Consumed
      <4>2. QED
        BY <2>2, <2>3, <3>2, <4>1
    <3>3. QED
      BY <2>1, <2>2, <3>1, <3>2
  <2>7. \A n \in 1 .. Len(taken') : taken'[n] \in 1 .. made + 1
    <3> TAKE n \in 1 .. Len(taken')
    <3>1. CASE n = Len(taken) + 1
      BY <2>1, <2>3, <3>1
    <3>2. CASE n \in 1 .. Len(taken)
      <4>1. taken[n] \in 1 .. made
        BY <3>2 DEF FifoInv, FifoHas
      <4>2. QED
        BY <2>1, <2>3, <3>2, <4>1
    <3>3. QED
      BY <2>1, <2>3, <3>1, <3>2
  <2>8. \A n \in 1 .. Len(taken') - 1 : taken'[n] < taken'[n+1]
    <3> TAKE n \in 1 .. Len(taken') - 1
    <3>1. CASE n = Len(taken)
      <4>1. taken[n] \in 1 .. made
        BY <2>1, <3>1 DEF FifoInv, FifoHas
      <4>2. QED
        BY <2>1, <2>3, <3>1, <4>1
    <3>2. CASE n \in 1 .. Len(taken) - 1
      BY <2>1, <2>3, <3>2 DEF FifoInv, FifoHas
    <3>3. QED
      BY <2>1, <2>3, <3>1, <3>2
  <2>9. FifoHas'
    BY <1>1, <2>1, <2>2, <2>3, <2>4, <2>6, <2>7, <2>8 DEF FifoInv, FifoHas
  <2>10. FifoShows'
    BY <1>1, <1>2, <2>1, <2>2, <2>3, <2>4 DEF FifoInv, FifoShows
  <2>11. QED
    BY <2>5, <2>9, <2>10 DEF FifoInv
<1>5. QED
  BY <1>1, <1>3, <1>4

\* A read of the data registers takes at most the next record.
LEMMA FifoTaking ==
  ASSUME FifoInv, Fifo!Taking, UNCHANGED <<made, taken>>
  PROVE  /\ FifoHas' /\ fifo' \in Seq(Nat) /\ out' \in Nat
         /\ fifo # <<>> => Consumed' = Consumed + 1
         /\ fifo = <<>> => Consumed' = Consumed
<1>1. CASE fifo = <<>>
  BY <1>1 DEF Fifo!Taking, FifoInv, FifoTypes, FifoHas, Consumed
<1>2. CASE fifo # <<>>
  <2>1. fifo' = Tail(fifo) /\ out' = Head(fifo) /\ taken' = taken /\ made' = made
    BY <1>2 DEF Fifo!Taking
  <2>2. Len(fifo') = Len(fifo) - 1 /\ fifo' \in Seq(Nat) /\ Len(fifo) > 0
    BY <1>2, <2>1 DEF FifoInv, FifoTypes
  <2>3. Consumed' = Consumed + 1
    BY <2>1, <2>2 DEF Consumed, FifoInv, FifoTypes
  <2>4. out' = taken[Consumed + 1] /\ out' \in Nat
    BY <2>1, <2>2 DEF FifoInv, FifoTypes, FifoHas
  <2>5. \A n \in 1 .. Len(fifo') : fifo'[n] = fifo[n+1]
    BY <2>1, <2>2 DEF FifoInv, FifoTypes
  <2>6. \A n \in 1 .. Len(fifo') : fifo'[n] = taken[Consumed + 1 + n]
    BY <2>2, <2>5 DEF FifoInv, FifoTypes, FifoHas, Consumed
  <2>7. Consumed \in Nat
    BY DEF Consumed, FifoInv, FifoTypes, FifoHas
  <2>8. QED
    BY <1>2, <2>1, <2>2, <2>3, <2>4, <2>6, <2>7 DEF FifoInv, FifoTypes, FifoHas
<1>3. QED
  BY <1>1, <1>2

LEMMA FifoAmps ==
  ASSUME FifoInv, Fifo!GetFifoAmps
  PROVE  FifoInv'
<1>1. /\ turn = "amps" /\ Fifo!Taking /\ amps' = out' /\ turn' = "print"
      /\ UNCHANGED <<made, mode, taken, shown>>
  BY DEF Fifo!GetFifoAmps
<1>2. Blank' = Blank /\ Printed' = Printed /\ Printed = Consumed
  BY <1>1 DEF Blank, Printed, FifoInv, FifoShows
<1>3. /\ FifoHas' /\ fifo' \in Seq(Nat) /\ out' \in Nat
      /\ fifo # <<>> => Consumed' = Consumed + 1
      /\ fifo = <<>> => Consumed' = Consumed
  BY <1>1, FifoTaking
<1>4. FifoTypes'
  BY <1>1, <1>3 DEF FifoInv, FifoTypes
<1>5. mode # "none" /\ (mode = "pos_calc" => fifo # <<>>) /\ Consumed \in Nat
  BY <1>1 DEF FifoInv, FifoTypes, FifoShows, FifoHas, Consumed
<1>6. FifoShows'
  <2>1. (Consumed' > 0 /\ Printed' = Consumed' - 1) \/ (mode = "decode" /\ Printed' = Consumed')
    BY <1>2, <1>3, <1>4, <1>5 DEF FifoInv, FifoTypes
  <2>2. QED
    BY <1>1, <1>2, <2>1 DEF FifoInv, FifoShows
<1>7. QED
  BY <1>3, <1>4, <1>6 DEF FifoInv

LEMMA FifoShow ==
  ASSUME FifoInv, Fifo!Show
  PROVE  FifoInv'
<1>1. /\ turn = "print" /\ turn' \in {"check", "get_data"}
      /\ UNCHANGED <<fifo, out, made, mode, amps, taken>>
      /\ Consumed' = Consumed /\ mode # "none"
  BY DEF Fifo!Show, Consumed, FifoInv, FifoTypes
<1>2. /\ Consumed \in Nat /\ Consumed <= Len(taken) /\ Blank \in {0, 1}
      /\ Len(shown) = Blank + Printed /\ Printed \in Nat
      /\ Blank = 1 => shown[1] = 0
      /\ amps = IF Consumed = 0 THEN 0 ELSE taken[Consumed]
  BY <1>1 DEF FifoInv, FifoTypes, FifoHas, FifoShows, Consumed, Blank, Printed, Fifo!NoRecord
<1>3. FifoHas'
  BY <1>1 DEF FifoInv, FifoHas
<1>4. CASE shown' = shown
  <2>1. Blank' = Blank /\ Printed' = Printed
    BY <1>4 DEF Blank, Printed
  <2>2. mode = "decode" /\ shown # <<>> /\ shown[Len(shown)] = amps
    <3>1. shown # Append(shown, amps)
      BY DEF FifoInv, FifoTypes
    <3>2. QED
      BY <1>4, <3>1 DEF Fifo!Show
  <2>3. CASE Printed = Consumed
    BY <1>1, <1>3, <1>4, <2>1, <2>3 DEF FifoInv, FifoTypes, FifoShows
  <2>4. CASE Consumed > 0 /\ Printed = Consumed - 1
    <3>1. amps = taken[Consumed] /\ amps > 0
      BY <1>2, <2>4 DEF FifoInv, FifoHas
    <3>2. CASE Printed = 0
      BY <1>2, <2>2, <3>1, <3>2 DEF FifoInv, FifoTypes
    <3>3. CASE Printed > 0
      <4>1. shown[Len(shown)] = taken[Printed]
        BY <1>2, <3>3 DEF FifoInv, FifoShows
      <4>2. taken[Printed] < taken[Printed + 1]
        BY <1>2, <2>4, <3>3 DEF FifoInv, FifoHas
      <4>3. QED
        BY <1>2, <2>2, <2>4, <3>1, <4>1, <4>2 DEF FifoInv, FifoTypes
    <3>4. QED
      BY <1>2, <3>2, <3>3
  <2>5. QED
    BY <1>1, <2>3, <2>4 DEF FifoInv, FifoShows
<1>5. CASE shown' = Append(shown, amps)
  <2>1. /\ shown' \in Seq(Nat) /\ Len(shown') = Len(shown) + 1
        /\ \A n \in 1 .. Len(shown) : shown'[n] = shown[n]
        /\ shown'[Len(shown) + 1] = amps /\ shown' # <<>>
    <3>1. shown \in Seq(Nat) /\ amps \in Nat
      BY DEF FifoInv, FifoTypes
    <3>2. QED
      BY <1>5, <3>1, Appended
  <2>2. CASE Consumed > 0 /\ Printed = Consumed - 1
    <3>1. amps = taken[Consumed] /\ amps > 0
      BY <1>2, <2>2 DEF FifoInv, FifoHas
    <3>2. Blank' = Blank
      <4>1. CASE shown = <<>>
        BY <2>1, <3>1, <4>1 DEF Blank, Fifo!NoRecord
      <4>2. CASE shown # <<>>
        <5>1. 1 \in 1 .. Len(shown)
          BY <4>2 DEF FifoInv, FifoTypes
        <5>2. QED
          BY <2>1, <4>2, <5>1 DEF Blank
      <4>3. QED
        BY <4>1, <4>2
    <3>3. Printed' = Consumed
      BY <1>2, <2>1, <2>2, <3>2 DEF Printed
    <3>4. \A n \in 1 .. Consumed : shown'[Blank + n] = taken[n]
      BY <1>2, <2>1, <2>2, <3>1 DEF FifoInv, FifoShows
    <3>5. FifoShows'
      BY <1>1, <1>2, <3>2, <3>3, <3>4 DEF FifoInv, FifoShows
    <3>6. FifoTypes'
      BY <1>1, <2>1 DEF FifoInv, FifoTypes
    <3>7. QED
      BY <1>3, <3>5, <3>6 DEF FifoInv
  <2>3. CASE mode = "decode" /\ Printed = Consumed
    <3>1. shown = <<>>
      <4>1. CASE Consumed > 0
        <5>1. shown[Len(shown)] = taken[Consumed] /\ Len(shown) > 0
          BY <1>2, <2>3, <4>1 DEF FifoInv, FifoShows
        <5>2. shown[Len(shown)] = amps /\ shown # <<>>
          BY <1>2, <4>1, <5>1
        <5>3. shown' = shown
          BY <2>3, <5>2 DEF Fifo!Show
        <5>4. QED
          BY <2>1, <5>3 DEF FifoInv, FifoTypes
      <4>2. CASE Consumed = 0 /\ shown # <<>>
        <5>1. Len(shown) = 1 /\ shown[1] = 0 /\ amps = 0
          BY <1>2, <2>3, <4>2 DEF FifoInv, FifoTypes
        <5>2. shown' = shown
          BY <2>3, <4>2, <5>1 DEF Fifo!Show
        <5>3. QED
          BY <2>1, <5>2 DEF FifoInv, FifoTypes
      <4>3. QED
        BY <1>2, <4>1, <4>2
    <3>2. Consumed = 0 /\ amps = 0 /\ Len(shown) = 0
      BY <1>2, <2>3, <3>1 DEF Blank
    <3>3. Blank' = 1 /\ Printed' = 0
      BY <2>1, <3>2 DEF Blank, Printed, Fifo!NoRecord
    <3>4. FifoShows'
      BY <1>1, <1>2, <2>3, <3>2, <3>3 DEF FifoInv, FifoTypes, FifoShows
    <3>5. FifoTypes'
      BY <1>1, <2>1 DEF FifoInv, FifoTypes
    <3>6. QED
      BY <1>3, <3>4, <3>5 DEF FifoInv
  <2>4. QED
    BY <1>1, <2>2, <2>3 DEF FifoInv, FifoShows
<1>6. QED
  BY <1>4, <1>5 DEF Fifo!Show

LEMMA FifoNext ==
  ASSUME FifoInv, [Fifo!Next]_Fifo!vars
  PROVE  FifoInv'
<1>1. ASSUME UNCHANGED <<fifo, out, made, amps, taken, shown>>
      PROVE  /\ FifoHas' /\ Blank' = Blank /\ Printed' = Printed /\ Consumed' = Consumed
  BY <1>1 DEF FifoInv, FifoHas, Blank, Printed, Consumed
<1>2. CASE Fifo!Begin
  BY <1>1, <1>2 DEF Fifo!Begin, FifoInv, FifoTypes, FifoShows
<1>3. CASE Fifo!GetData
  BY <1>1, <1>3 DEF Fifo!GetData, FifoInv, FifoTypes, FifoShows
<1>4. CASE Fifo!FifoEmpty
  BY <1>1, <1>4 DEF Fifo!FifoEmpty, FifoInv, FifoTypes, FifoShows
<1>5. CASE UNCHANGED Fifo!vars
  BY <1>1, <1>5 DEF Fifo!vars, FifoInv, FifoTypes, FifoShows
<1>6. QED
  BY <1>2, <1>3, <1>4, <1>5, FifoMake, FifoAmps, FifoShow DEF Fifo!Next, Fifo!Loop

\* decode-reg's two loops print the records that the FIFO had room for in their order,
\* each of them once, for every depth of the FIFO and any number of records.
THEOREM RecordsAreInOrder ==
  Fifo!Init /\ [][Fifo!Next]_Fifo!vars => []RecordsInOrder
<1>1. FifoInv => RecordsInOrder
  BY DEF FifoInv, FifoTypes, FifoShows, Printed, Blank, RecordsInOrder, Fifo!RecordsInOrder
<1>2. QED
  BY <1>1, FifoInit, FifoNext, PTL

-----------------------------------------------------------------------------
(* Ad9510: what a method that returns true has made the clock chip use.    *)
-----------------------------------------------------------------------------
LEMMA ScriptTypes ==
  ASSUME NEW s \in Clock!Scripts
  PROVE  /\ Len(s) \in Nat /\ Len(s) > 0 /\ DOMAIN s = 1 .. Len(s)
         /\ s \in Seq([op : {"set"}, reg : Registers, value : Int] \cup {Clock!Update})
         /\ s[Len(s)].op = "update"
         /\ \A n \in 1 .. Len(s) : /\ s[n].op \in {"set", "update"}
                                  /\ s[n].op = "set" => s[n].reg \in Registers
<1>1. /\ s \in Seq([op : {"set"}, reg : Registers, value : Int] \cup {Clock!Update})
      /\ s # <<>> /\ s[Len(s)].op = "update"
  BY ClockAssumption DEF Clock!Scripts
<1>2. QED
  BY <1>1 DEF Clock!Update

\* Last is the value of the last of the sets of a register, in a script or a part of one.
LEMMA LastSet ==
  ASSUME NEW s \in Seq([op : {"set"}, reg : Registers, value : Int] \cup {Clock!Update}),
         NEW r \in Clock!Touched(s)
  PROVE  \E n \in 1 .. Len(s) :
           /\ s[n].op = "set" /\ s[n].reg = r /\ Clock!Last(s, r) = s[n].value
           /\ \A m \in n+1 .. Len(s) : s[m].op = "set" => s[m].reg # r
<1> DEFINE T == {n \in Clock!SetIn(s) : s[n].reg = r}
           n == CHOOSE n \in T : \A m \in T : m <= n
<1>1. T \subseteq 1 .. Len(s) /\ T # {} /\ Len(s) \in Nat
  BY DEF Clock!SetIn, Clock!Touched
<1>2. \E k \in T : \A m \in T : m <= k
  <2> HIDE DEF T
  <2> QED BY <1>1, Greatest
<1>3. n \in T /\ \A m \in T : m <= n
  BY <1>2
<1>4. Clock!Last(s, r) = s[n].value
  BY DEF Clock!Last
<1>5. \A m \in n+1 .. Len(s) : s[m].op = "set" => s[m].reg # r
  <2> HIDE DEF n
  <2> QED BY <1>1, <1>3 DEF Clock!SetIn
<1>6. QED
  BY <1>1, <1>3, <1>4, <1>5 DEF Clock!SetIn

\* The elements of called that have been done.
Through == Len(called) - Len(script)

\* The buffers have what the first n elements of the script have set, but for the
\* registers that the ones up to m set again.
Has(n, m) ==
  \A k \in 1 .. n :
    /\ called[k].op = "set"
    /\ \A j \in k+1 .. m : called[j].op = "set" => called[j].reg # called[k].reg
    => buffer[called[k].reg] = called[k].value

\* The chip uses what the elements that it has been told of have set.
Uses ==
  \A k \in 1 .. told :
    /\ called[k].op = "set"
    /\ \A j \in k+1 .. told : called[j].op = "set" => called[j].reg # called[k].reg
    => active[called[k].reg] = called[k].value

\* script is what is left of called.
ClockTypes ==
  /\ DOMAIN buffer = Registers /\ DOMAIN active = Registers
  /\ at \in {"idle", "write", "verify", "update", "poll", "done"}
  /\ pending \in BOOLEAN /\ failed \in BOOLEAN
  /\ at # "idle" =>
       /\ called \in Clock!Scripts
       /\ script \in Seq([op : {"set"}, reg : Registers, value : Int] \cup {Clock!Update})
       /\ Len(script) <= Len(called)
       /\ \A n \in 1 .. Len(script) : script[n] = called[Through + n]
  /\ at \in {"write", "verify"} => script # <<>> /\ script[1].op = "set"
  /\ at \in {"update", "poll"} => script # <<>> /\ script[1].op = "update"
  /\ at = "done" => script = <<>>

ClockRuns ==
  /\ at \in {"write", "update", "poll", "done"} => Has(Through, Through)
  /\ at = "verify" => Has(Through, Through + 1)
  /\ at # "idle" \/ returned = "true" => told \in 0 .. Len(called)
  /\ pending => at = "poll" /\ told = Through + 1
  /\ ~ pending /\ (at # "idle" \/ returned = "true") => Uses
  /\ returned = "true" =>
       at = "idle" /\ called \in Clock!Scripts /\ Has(Len(called), Len(called))

\* Both bytes of the divider that the chip uses are of one script, and so are those in
\* its buffers but while a method writes them; an update that did not arrive leaves the
\* buffers ahead.
Whole(bytes, s) ==
  \A r \in Both :
    bytes[r] = IF r \in Clock!Touched(s) THEN Clock!Last(s, r) ELSE Unwritten
ClockDivides ==
  failed \/ /\ \E s \in Dividers \cup {<<>>} : Whole(active, s)
            /\ at = "idle" \/ Both \cap Clock!Touched(called) = {} =>
                 \E s \in Dividers \cup {<<>>} : Whole(buffer, s)

ClockInv == ClockTypes /\ ClockRuns /\ ClockDivides

LEMMA ClockInit == Clock!Init => ClockInv
<1> SUFFICES ASSUME Clock!Init PROVE ClockInv
  OBVIOUS
<1>1. Clock!Touched(<<>>) = {}
  BY DEF Clock!Touched, Clock!SetIn
<1>2. Whole(active, <<>>) /\ Whole(buffer, <<>>)
  BY <1>1, ClockAssumption DEF Whole, Clock!Init
<1>3. QED
  BY <1>2 DEF Clock!Init, ClockInv, ClockTypes, ClockRuns, ClockDivides

\* The element that a step does, and what it leaves of the script when it goes on.
LEMMA ClockAdvances ==
  ASSUME ClockTypes, at # "idle", script # <<>>
  PROVE  /\ Through \in Nat /\ Through < Len(called) /\ Len(called) \in Nat
         /\ script[1] = called[Through + 1] /\ Head(script) = script[1]
         /\ Clock!Advance /\ UNCHANGED called =>
              /\ Through' = Through + 1 /\ Len(script') <= Len(called)
              /\ script' \in Seq([op : {"set"}, reg : Registers, value : Int]
                                   \cup {Clock!Update})
              /\ \A n \in 1 .. Len(script') : script'[n] = called[Through + 1 + n]
              /\ at' \in {"write", "update", "done"}
              /\ at' = "write" => script' # <<>> /\ script'[1].op = "set"
              /\ at' = "update" => script' # <<>> /\ script'[1].op = "update"
              /\ at' = "done" => script' = <<>>
<1> DEFINE Ops == [op : {"set"}, reg : Registers, value : Int] \cup {Clock!Update}
<1>1. /\ called \in Clock!Scripts /\ script \in Seq(Ops) /\ Len(script) <= Len(called)
      /\ \A n \in 1 .. Len(script) : script[n] = called[Through + n]
      /\ Len(script) \in Nat /\ Len(script) > 0 /\ Len(called) \in Nat
  BY ScriptTypes DEF ClockTypes
<1>2. /\ Through \in Nat /\ Through < Len(called)
      /\ script[1] = called[Through + 1] /\ Head(script) = script[1]
  BY <1>1 DEF Through
<1>3. ASSUME Clock!Advance, UNCHANGED called
      PROVE  /\ Through' = Through + 1 /\ Len(script') <= Len(called)
             /\ script' \in Seq(Ops)
             /\ \A n \in 1 .. Len(script') : script'[n] = called[Through + 1 + n]
             /\ at' \in {"write", "update", "done"}
             /\ at' = "write" => script' # <<>> /\ script'[1].op = "set"
             /\ at' = "update" => script' # <<>> /\ script'[1].op = "update"
             /\ at' = "done" => script' = <<>>
  <2>1. script' = Tail(script) /\ at' = Clock!Start(script') /\ called' = called
    BY <1>3 DEF Clock!Advance
  <2>2. /\ script' \in Seq(Ops) /\ Len(script') = Len(script) - 1
        /\ \A n \in 1 .. Len(script') : script'[n] = script[n+1]
    BY <1>1, <2>1
  <2>3. Through' = Through + 1
    BY <1>1, <2>1, <2>2 DEF Through
  <2>4. \A n \in 1 .. Len(script') : script'[n] = called[Through + 1 + n]
    <3> TAKE n \in 1 .. Len(script')
    <3>1. n + 1 \in 1 .. Len(script)
      BY <1>1, <2>2
    <3>2. script'[n] = script[n+1] /\ script[n+1] = called[Through + (n + 1)]
      BY <1>1, <2>2, <3>1
    <3>3. Through + (n + 1) = Through + 1 + n
      BY <1>2
    <3>4. QED
      BY <3>2, <3>3
  <2>5. script' # <<>> => script'[1] \in Ops /\ Head(script') = script'[1]
    BY <2>2
  <2>6. script' # <<>> => script'[1].op \in {"set", "update"}
    BY <2>5 DEF Clock!Update
  <2>7. QED
    BY <1>1, <2>1, <2>2, <2>3, <2>4, <2>5, <2>6 DEF Clock!Start
<1>4. QED
  BY <1>2, <1>3

LEMMA ClockCall ==
  ASSUME ClockInv, NEW s \in Clock!Scripts, Clock!Call(s)
  PROVE  ClockInv'
<1>1. /\ at = "idle" /\ script' = s /\ called' = s /\ at' = Clock!Start(s)
      /\ returned' = "none" /\ told' = 0
      /\ UNCHANGED <<buffer, active, pending, losses, failed>>
  BY DEF Clock!Call, Clock!chip
<1>2. Through' = 0 /\ Len(s) \in Nat
  BY <1>1, ScriptTypes DEF Through
<1>3. /\ at' \in {"write", "update"} /\ s # <<>> /\ Head(s) = s[1]
      /\ at' = "write" => s[1].op = "set"
      /\ at' = "update" => s[1].op = "update"
  <2>1. s # <<>> /\ Head(s) = s[1] /\ s[1].op \in {"set", "update"}
    BY ScriptTypes
  <2>2. QED
    BY <1>1, <2>1 DEF Clock!Start
<1>4. ClockTypes'
  BY <1>1, <1>2, <1>3, ScriptTypes DEF ClockInv, ClockTypes
<1>5. ~ pending
  BY <1>1 DEF ClockInv, ClockRuns
<1>6. ClockRuns'
  BY <1>1, <1>2, <1>3, <1>5 DEF ClockRuns, Has, Uses
<1>7. ClockDivides'
  BY <1>1 DEF ClockInv, ClockDivides, Whole
<1>8. QED
  BY <1>4, <1>6, <1>7 DEF ClockInv

LEMMA ClockWrite ==
  ASSUME ClockInv, Clock!WriteReg
  PROVE  ClockInv'
<1>1. /\ at = "write" /\ at' = "verify" /\ ~ pending
      /\ UNCHANGED <<active, pending, script, returned, called, told, failed>>
      /\ \/ buffer' = [buffer EXCEPT ![script[1].reg] = script[1].value]
         \/ buffer' = buffer
  BY ClockAdvances DEF Clock!WriteReg, ClockInv, ClockTypes, ClockRuns
<1>2. /\ Through \in Nat /\ Through < Len(called) /\ Len(called) \in Nat
      /\ called \in Clock!Scripts
      /\ script[1] = called[Through + 1] /\ script # <<>> /\ script[1].op = "set"
      /\ DOMAIN buffer = Registers
  BY <1>1, ClockAdvances DEF ClockInv, ClockTypes
<1>3. Through' = Through
  BY <1>1 DEF Through
<1>4. \A k \in 1 .. Len(called) : called[k].op = "set" => called[k].reg \in Registers
  BY <1>2, ScriptTypes
<1>5. Has(Through, Through + 1)'
  <2> SUFFICES ASSUME NEW k \in 1 .. Through, called[k].op = "set",
                      \A j \in k+1 .. Through+1 :
                        called[j].op = "set" => called[j].reg # called[k].reg
               PROVE  buffer'[called[k].reg] = called[k].value
    BY <1>1, <1>3 DEF Has
  <2>1. buffer[called[k].reg] = called[k].value
    BY <1>1, <1>2 DEF Has, ClockInv, ClockRuns
  <2>2. called[k].reg # script[1].reg /\ called[k].reg \in Registers
    BY <1>2, <1>4
  <2>3. QED
    BY <1>1, <1>2, <2>1, <2>2
<1>6. ClockTypes'
  BY <1>1, <1>2, <1>3 DEF ClockInv, ClockTypes
<1>7. ClockRuns'
  BY <1>1, <1>3, <1>5 DEF ClockInv, ClockRuns, Uses
<1>8. ClockDivides'
  <2>1. script[1].reg \in Clock!Touched(called)
    BY <1>2, ScriptTypes DEF Clock!Touched, Clock!SetIn
  <2>2. Both \cap Clock!Touched(called) = {} => \A r \in Both : buffer'[r] = buffer[r]
    BY <1>1, <1>2, <2>1, ClockAssumption
  <2>3. QED
    BY <1>1, <2>2 DEF ClockInv, ClockDivides, Whole
<1>9. QED
  BY <1>6, <1>7, <1>8 DEF ClockInv

LEMMA ClockVerify ==
  ASSUME ClockInv, Clock!Verify
  PROVE  ClockInv'
<1>1. /\ at = "verify" /\ ~ pending /\ returned # "true"
      /\ UNCHANGED <<buffer, active, pending, called, told>>
  BY DEF Clock!Verify, Clock!chip, ClockInv, ClockRuns
<1>2. /\ Through \in Nat /\ Through < Len(called) /\ Len(called) \in Nat
      /\ called \in Clock!Scripts
      /\ script[1] = called[Through + 1] /\ Head(script) = script[1]
      /\ script # <<>> /\ script[1].op = "set"
  BY <1>1, ClockAdvances DEF ClockInv, ClockTypes
<1>3. CASE buffer[script[1].reg] = script[1].value
  <2>1. Clock!Advance /\ UNCHANGED <<called, returned, failed>>
    BY <1>1, <1>2, <1>3 DEF Clock!Verify
  <2>2. /\ Through' = Through + 1
        /\ at' \in {"write", "update", "done"}
        /\ ClockTypes'
    BY <1>1, <1>2, <2>1, ClockAdvances DEF ClockInv, ClockTypes
  <2>3. Has(Through, Through)'
    <3> SUFFICES ASSUME NEW k \in 1 .. Through + 1, called[k].op = "set",
                        \A j \in k+1 .. Through+1 :
                          called[j].op = "set" => called[j].reg # called[k].reg
                 PROVE  buffer[called[k].reg] = called[k].value
      BY <1>1, <2>2 DEF Has
    <3>1. CASE k = Through + 1
      BY <1>2, <1>3, <3>1
    <3>2. CASE k \in 1 .. Through
      BY <1>1, <1>2, <3>2 DEF Has, ClockInv, ClockRuns
    <3>3. QED
      BY <1>2, <3>1, <3>2
  <2>4. ClockRuns'
    BY <1>1, <1>2, <2>1, <2>2, <2>3 DEF ClockInv, ClockRuns, Uses
  <2>5. ClockDivides'
    BY <1>1, <2>1, <2>2 DEF ClockInv, ClockDivides, Whole
  <2>6. QED
    BY <2>2, <2>4, <2>5 DEF ClockInv
<1>4. CASE buffer[script[1].reg] # script[1].value
  BY <1>1, <1>2, <1>4 DEF Clock!Verify, ClockInv, ClockTypes, ClockRuns, ClockDivides
<1>5. QED
  BY <1>3, <1>4

LEMMA ClockUpdate ==
  ASSUME ClockInv, Clock!WriteUpdate
  PROVE  ClockInv'
<1>1. /\ at = "update" /\ at' = "poll" /\ ~ pending /\ returned # "true"
      /\ UNCHANGED <<buffer, active, script, returned, called, failed>>
      /\ Through' = Through
      /\ \/ pending' = TRUE /\ told' = Through + 1
         \/ UNCHANGED <<pending, told>>
  BY DEF Clock!WriteUpdate, Clock!Tell, Clock!ToldNow, Through, ClockInv, ClockRuns
<1>2. ClockTypes'
  BY <1>1 DEF ClockInv, ClockTypes
<1>3. ClockRuns'
  <2>1. Through \in Nat /\ Through < Len(called) /\ Len(called) \in Nat
    BY <1>1, ClockAdvances DEF ClockInv, ClockTypes
  <2>2. Has(Through, Through)'
    BY <1>1 DEF ClockInv, ClockRuns, Has
  <2>3. told' \in 0 .. Len(called')
    BY <1>1, <2>1 DEF ClockInv, ClockRuns
  <2>4. ~ pending' => Uses'
    BY <1>1 DEF ClockInv, ClockRuns, Uses
  <2>5. QED
    BY <1>1, <2>2, <2>3, <2>4 DEF ClockRuns
<1>4. ClockDivides'
  BY <1>1 DEF ClockInv, ClockDivides, Whole
<1>5. QED
  BY <1>2, <1>3, <1>4 DEF ClockInv

LEMMA ClockPoll ==
  ASSUME ClockInv, Clock!PollUpdate
  PROVE  ClockInv'
<1>1. /\ at = "poll" /\ ~ pending /\ Clock!Advance /\ returned # "true"
      /\ UNCHANGED <<buffer, active, pending, returned, called, told, failed>>
  BY DEF Clock!PollUpdate, Clock!chip, ClockInv, ClockRuns
<1>2. /\ Through \in Nat /\ Through < Len(called)
      /\ script[1] = called[Through + 1] /\ script # <<>> /\ script[1].op = "update"
      /\ Through' = Through + 1 /\ at' \in {"write", "update", "done"}
      /\ ClockTypes'
  BY <1>1, ClockAdvances DEF ClockInv, ClockTypes
<1>3. Has(Through, Through)'
  <2> SUFFICES ASSUME NEW k \in 1 .. Through + 1, called[k].op = "set",
                      \A j \in k+1 .. Through+1 :
                        called[j].op = "set" => called[j].reg # called[k].reg
               PROVE  buffer[called[k].reg] = called[k].value
    BY <1>1, <1>2 DEF Has
  <2>1. k \in 1 .. Through
    BY <1>2
  <2>2. QED
    BY <1>1, <1>2, <2>1 DEF Has, ClockInv, ClockRuns
<1>4. ClockRuns'
  BY <1>1, <1>2, <1>3 DEF ClockInv, ClockRuns, Uses
<1>5. ClockDivides'
  BY <1>1, <1>2 DEF ClockInv, ClockDivides, Whole
<1>6. QED
  BY <1>2, <1>4, <1>5 DEF ClockInv

\* At the end of a script the buffers have the last value of every register in it.
LEMMA ClockHasAll ==
  ASSUME called \in Clock!Scripts, Has(Len(called), Len(called)),
         NEW r \in Clock!Touched(called)
  PROVE  buffer[r] = Clock!Last(called, r)
<1>1. PICK n \in 1 .. Len(called) :
        /\ called[n].op = "set" /\ called[n].reg = r /\ Clock!Last(called, r) = called[n].value
        /\ \A m \in n+1 .. Len(called) : called[m].op = "set" => called[m].reg # r
  BY ScriptTypes, LastSet
<1>2. QED
  BY <1>1 DEF Has

LEMMA ClockReturn ==
  ASSUME ClockInv, Clock!Return
  PROVE  ClockInv'
<1>1. /\ at = "done" /\ at' = "idle" /\ returned' = "true" /\ script = <<>> /\ ~ pending
      /\ UNCHANGED <<buffer, active, pending, script, called, told, failed>>
  BY DEF Clock!Return, Clock!chip, ClockInv, ClockTypes, ClockRuns
<1>2. /\ called \in Clock!Scripts /\ Len(called) \in Nat /\ Len(called) > 0
      /\ called[Len(called)].op = "update" /\ Through = Len(called)
  BY <1>1, ScriptTypes DEF Through, ClockInv, ClockTypes
<1>3. Has(Len(called), Len(called))
  BY <1>1, <1>2 DEF ClockInv, ClockRuns
<1>4. Has(Len(called), Len(called))'
  BY <1>1, <1>3 DEF Has
<1>5. ClockTypes' /\ ClockRuns'
  BY <1>1, <1>2, <1>3, <1>4 DEF ClockInv, ClockTypes, ClockRuns, Uses
<1>6. ClockDivides'
  <2>1. CASE Both \cap Clock!Touched(called) = {}
    BY <1>1, <2>1 DEF ClockInv, ClockDivides, Whole
  <2>2. CASE Both \cap Clock!Touched(called) # {}
    <3>1. called \in Dividers /\ Both \subseteq Clock!Touched(called)
      BY <1>2, <2>2, ClockAssumption DEF Clock!Scripts
    <3>2. Whole(buffer, called)
      BY <1>2, <1>3, <3>1, ClockHasAll DEF Whole
    <3>3. QED
      BY <1>1, <3>1, <3>2 DEF ClockInv, ClockDivides, Whole
  <2>3. QED
    BY <2>1, <2>2
<1>7. QED
  BY <1>5, <1>6 DEF ClockInv

LEMMA ClockChip ==
  ASSUME ClockInv, Clock!ChipUpdates
  PROVE  ClockInv'
<1>1. /\ at = "poll" /\ active' = buffer /\ pending' = FALSE /\ told = Through + 1
      /\ UNCHANGED <<buffer, script, at, losses, returned, called, told, failed>>
      /\ Through' = Through
  BY DEF Clock!ChipUpdates, ClockInv, ClockRuns, Through
<1>2. ClockTypes'
  BY <1>1 DEF ClockInv, ClockTypes
<1>3. ClockRuns'
  <2>1. /\ Through \in Nat /\ Through < Len(called) /\ Len(called) \in Nat
        /\ called[Through + 1].op = "update" /\ Has(Through, Through)
    BY <1>1, ClockAdvances DEF ClockInv, ClockTypes, ClockRuns
  <2>2. Uses'
    <3> SUFFICES ASSUME NEW k \in 1 .. told, called[k].op = "set",
                        \A j \in k+1 .. told :
                          called[j].op = "set" => called[j].reg # called[k].reg
                 PROVE  buffer[called[k].reg] = called[k].value
      BY <1>1 DEF Uses
    <3>1. k \in 1 .. Through /\ k+1 .. Through \subseteq k+1 .. told
      BY <1>1, <2>1
    <3>2. QED
      BY <2>1, <3>1 DEF Has
  <2>3. QED
    BY <1>1, <2>1, <2>2 DEF ClockInv, ClockRuns, Has
<1>4. CASE Both \cap Clock!Touched(called) = {}
  BY <1>1, <1>2, <1>3, <1>4 DEF ClockInv, ClockDivides, Whole
<1>5. CASE Both \cap Clock!Touched(called) # {}
  <2>1. /\ Through \in Nat /\ Through < Len(called) /\ called \in Clock!Scripts
        /\ script[1] = called[Through + 1] /\ script[1].op = "update"
        /\ Len(called) \in Nat /\ Has(Through, Through)
    BY <1>1, ClockAdvances DEF ClockInv, ClockTypes, ClockRuns
  <2>2. called \in Dividers /\ Both \subseteq Clock!Touched(called)
    BY <1>5, <2>1, ClockAssumption DEF Clock!Scripts
  <2>3. Through + 1 = Len(called)
    BY <2>1, <2>2, ScriptTypes, ClockAssumption
  <2>4. Has(Len(called), Len(called))
    <3> SUFFICES ASSUME NEW k \in 1 .. Len(called), called[k].op = "set",
                        \A j \in k+1 .. Len(called) :
                          called[j].op = "set" => called[j].reg # called[k].reg
                 PROVE  buffer[called[k].reg] = called[k].value
      BY DEF Has
    <3>1. k \in 1 .. Through
      BY <2>1, <2>3
    <3>2. \A j \in k+1 .. Through : j \in k+1 .. Len(called)
      BY <2>1
    <3>3. QED
      BY <2>1, <3>1, <3>2 DEF Has
  <2>5. \A r \in Both : active'[r] = Clock!Last(called, r)
    BY <1>1, <2>1, <2>2, <2>4, ClockHasAll
  <2>6. Whole(active', called)
    BY <1>1, <2>2, <2>5 DEF Whole
  <2>7. ClockDivides'
    BY <1>1, <1>5, <2>2, <2>6 DEF ClockDivides, Whole
  <2>8. QED
    BY <1>2, <1>3, <2>7 DEF ClockInv
<1>6. QED
  BY <1>4, <1>5

LEMMA ClockNext ==
  ASSUME ClockInv, [Clock!Next]_Clock!vars
  PROVE  ClockInv'
<1>1. CASE UNCHANGED Clock!vars
  BY <1>1 DEF Clock!vars, ClockInv, ClockTypes, ClockRuns, ClockDivides, Through, Has, Uses, Whole
<1>2. QED
  BY <1>1, ClockCall, ClockWrite, ClockVerify, ClockUpdate, ClockPoll, ClockReturn, ClockChip
     DEF Clock!Next

\* When a method of ad9510's controller returns true, the chip has every value of it, and
\* uses those before the last update that has arrived, whichever writes do not arrive, of
\* registers or of update_parameters, and whenever the chip updates.
THEOREM TrueMeansHeld == Clock!Spec => []TrueIsHeld
<1>1. ClockInv => TrueIsHeld
  <2> DEFINE used == SubSeq(called, 1, told)
  <2> SUFFICES ASSUME ClockInv, returned = "true"
               PROVE  /\ ~ pending
                      /\ \A r \in Clock!Touched(called) : buffer[r] = Clock!Last(called, r)
                      /\ \A r \in Clock!Touched(used) : active[r] = Clock!Last(used, r)
    BY DEF TrueIsHeld, Clock!TrueIsHeld
  <2>1. /\ ~ pending /\ Uses /\ told \in 0 .. Len(called)
        /\ called \in Clock!Scripts /\ Has(Len(called), Len(called))
    BY DEF ClockInv, ClockRuns
  <2>2. /\ used \in Seq([op : {"set"}, reg : Registers, value : Int] \cup {Clock!Update})
        /\ Len(used) = told /\ \A n \in 1 .. told : used[n] = called[n]
    BY <2>1, ScriptTypes
  <2> HIDE DEF used
  <2>3. ASSUME NEW r \in Clock!Touched(used) PROVE active[r] = Clock!Last(used, r)
    <3>1. PICK n \in 1 .. told :
            /\ used[n].op = "set" /\ used[n].reg = r /\ Clock!Last(used, r) = used[n].value
            /\ \A m \in n+1 .. told : used[m].op = "set" => used[m].reg # r
      BY <2>2, LastSet
    <3>2. /\ called[n].op = "set" /\ called[n].reg = r /\ Clock!Last(used, r) = called[n].value
          /\ \A m \in n+1 .. told : called[m].op = "set" => called[m].reg # r
      BY <2>1, <2>2, <3>1
    <3>3. QED
      BY <2>1, <3>2 DEF Uses
  <2>4. QED
    BY <2>1, <2>3, ClockHasAll
<1>2. QED
  BY <1>1, ClockInit, ClockNext, PTL DEF Clock!Spec

\* The chip divides by a number that some call has asked for, both of its bytes, as long
\* as no method has returned false.
THEOREM DividersAreWhole == Clock!Spec => []DividersWhole
<1>1. ClockInv => DividersWhole
  BY DEF ClockInv, ClockDivides, Whole, Both, DividersWhole, Clock!DividersWhole
<1>2. QED
  BY <1>1, ClockInit, ClockNext, PTL DEF Clock!Spec

-----------------------------------------------------------------------------
(* ShaperFilt: the coefficients of the filters.                            *)
-----------------------------------------------------------------------------
Total == Shaper!TOTAL_PER_BIQUAD

LEMMA WordBounds ==
  ASSUME NEW i \in Shaper!FilterChannels, NEW j \in 0 .. NUM_BIQUADS - 1,
         NEW k \in Shaper!Coeffs
  PROVE  /\ Shaper!WordOf(i, j, k) \in Shaper!Words
         /\ Shaper!WordOf(i, j, k) = i * ChSize + (Total * j + k)
         /\ Total * j \in Nat /\ i * ChSize \in Nat
         /\ Total * j + k < Total * j + Total
         /\ Total * j + k < ChSize
<1>1. /\ Total \in Nat /\ k < Total /\ ChSize \in Nat /\ Total * NUM_BIQUADS <= ChSize
      /\ i \in Nat /\ j \in Nat /\ k \in Nat /\ NUM_BIQUADS \in Nat /\ NUM_CHANNELS \in Nat
      /\ i < NUM_CHANNELS /\ j < NUM_BIQUADS
  BY ShaperAssumption DEF Shaper!FilterChannels, Shaper!Coeffs, Total, Shaper!TOTAL_PER_BIQUAD
<1>2. Total * j \in Nat /\ i * ChSize \in Nat
  BY <1>1
<1>3. Total * j + k < ChSize
  <2>1. j * Total + Total <= NUM_BIQUADS * Total
    BY <1>1, RoomBetween
  <2>2. j * Total = Total * j /\ NUM_BIQUADS * Total = Total * NUM_BIQUADS
    BY <1>1
  <2> QED
    BY <1>1, <1>2, <2>1, <2>2
<1>4. i * ChSize + ChSize <= NUM_CHANNELS * ChSize
  BY <1>1, RoomBetween
<1>5. Shaper!WordOf(i, j, k) = i * ChSize + (Total * j + k)
  BY <1>1, <1>2 DEF Shaper!WordOf, Total
<1>6. QED
  BY <1>1, <1>2, <1>3, <1>4, <1>5 DEF Shaper!Words

\* No two coefficients are in one word.
LEMMA WordsDiffer ==
  ASSUME NEW i \in Shaper!FilterChannels, NEW j \in 0 .. NUM_BIQUADS - 1,
         NEW k \in Shaper!Coeffs,
         NEW x \in Shaper!FilterChannels, NEW y \in 0 .. NUM_BIQUADS - 1,
         NEW z \in Shaper!Coeffs,
         Shaper!WordOf(i, j, k) = Shaper!WordOf(x, y, z)
  PROVE  i = x /\ j = y /\ k = z
<1>1. /\ i \in Nat /\ j \in Nat /\ k \in Nat /\ x \in Nat /\ y \in Nat /\ z \in Nat
      /\ ChSize \in Nat /\ Total \in Nat
  BY ShaperAssumption DEF Shaper!FilterChannels, Shaper!Coeffs, Total, Shaper!TOTAL_PER_BIQUAD
<1> DEFINE p == Total * j + k
           q == Total * y + z
<1>2. /\ p \in Nat /\ q \in Nat /\ p < ChSize /\ q < ChSize
      /\ i * ChSize + p = x * ChSize + q
      /\ i * ChSize \in Nat /\ x * ChSize \in Nat
  BY <1>1, WordBounds
<1>3. i = x
  <2> HIDE DEF p, q
  <2>1. i < x => i * ChSize + ChSize <= x * ChSize
    BY <1>1, RoomBetween
  <2>2. x < i => x * ChSize + ChSize <= i * ChSize
    BY <1>1, RoomBetween
  <2>3. QED
    BY <1>1, <1>2, <2>1, <2>2
<1>4. p = q
  <2> HIDE DEF p, q
  <2> QED BY <1>2, <1>3
<1>5. /\ Total * j + k < Total * j + Total /\ Total * y + z < Total * y + Total
      /\ Total * j \in Nat /\ Total * y \in Nat
  BY WordBounds
<1>6. j = y
  <2>1. j < y => j * Total + Total <= y * Total
    BY <1>1, RoomBetween
  <2>2. y < j => y * Total + Total <= j * Total
    BY <1>1, RoomBetween
  <2>3. j * Total = Total * j /\ y * Total = Total * y
    BY <1>1
  <2>4. QED
    BY <1>1, <1>4, <1>5, <2>1, <2>2, <2>3
<1>7. QED
  BY <1>1, <1>3, <1>4, <1>5, <1>6

\* The words of a block are those of its biquad's coefficients.
LEMMA BlockIs ==
  ASSUME NEW i \in Shaper!FilterChannels, NEW j \in 0 .. NUM_BIQUADS - 1, NEW w \in Shaper!Words
  PROVE  Shaper!Biquad(i, j).first <= w
         /\ w < Shaper!Biquad(i, j).first + Shaper!Biquad(i, j).size
           <=> \E k \in Shaper!Coeffs : w = Shaper!WordOf(i, j, k)
<1>1. /\ i * ChSize \in Nat /\ Total * j \in Nat /\ COEFFS_PER_BIQUAD \in Nat /\ w \in Nat
  BY ShaperAssumption DEF Shaper!FilterChannels, Shaper!Words, Total, Shaper!TOTAL_PER_BIQUAD
<1>2. /\ Shaper!Biquad(i, j).first = i * ChSize + Total * j
      /\ Shaper!Biquad(i, j).size = COEFFS_PER_BIQUAD
      /\ \A k \in Shaper!Coeffs : Shaper!WordOf(i, j, k) = i * ChSize + Total * j + k
  BY DEF Shaper!Biquad, Shaper!WordOf, Total
<1>3. i * ChSize + Total * j \in Nat
  BY <1>1
<1> DEFINE f == i * ChSize + Total * j
<1> HIDE DEF f
<1>4. /\ f \in Nat /\ Shaper!Biquad(i, j).first = f /\ Shaper!Biquad(i, j).size = COEFFS_PER_BIQUAD
      /\ \A k \in Shaper!Coeffs : Shaper!WordOf(i, j, k) = f + k
  BY <1>2, <1>3 DEF f
<1>5. ASSUME f <= w, w < f + COEFFS_PER_BIQUAD
      PROVE  w - f \in Shaper!Coeffs /\ w = f + (w - f)
  BY <1>1, <1>4, <1>5 DEF Shaper!Coeffs
<1>6. \A k \in Shaper!Coeffs : f <= f + k /\ f + k < f + COEFFS_PER_BIQUAD
  BY <1>1, <1>4 DEF Shaper!Coeffs
<1>7. QED
  BY <1>4, <1>5, <1>6

LEMMA PlaceIs ==
  ASSUME NEW n \in 0 .. NUM_BIQUADS, NEW i \in Shaper!FilterChannels, NEW j \in 0 .. n - 1,
         NEW k \in Shaper!Coeffs
  PROVE  /\ Shaper!IsPlace(Shaper!WordOf(i, j, k), n)
         /\ Shaper!PlaceOf(Shaper!WordOf(i, j, k)) = <<i, j, k>>
<1>1. n \in Nat /\ NUM_BIQUADS \in Nat /\ j \in 0 .. NUM_BIQUADS - 1
  BY ShaperAssumption
<1>2. /\ <<i, j, k>> \in Shaper!Places(n) /\ <<i, j, k>> \in Shaper!Places(NUM_BIQUADS)
  BY <1>1 DEF Shaper!Places
<1>3. \A p \in Shaper!Places(NUM_BIQUADS) :
        Shaper!WordOf(p[1], p[2], p[3]) = Shaper!WordOf(i, j, k) => p = <<i, j, k>>
  <2> SUFFICES ASSUME NEW a \in Shaper!FilterChannels, NEW b \in 0 .. NUM_BIQUADS - 1,
                      NEW c \in Shaper!Coeffs,
                      Shaper!WordOf(a, b, c) = Shaper!WordOf(i, j, k)
               PROVE  a = i /\ b = j /\ c = k
    BY DEF Shaper!Places
  <2>1. QED
    BY <1>1, WordsDiffer
<1>4. QED
  BY <1>2, <1>3 DEF Shaper!IsPlace, Shaper!PlaceOf

\* Filters whose coefficients the words can have.
AllFilters == {"before"} \cup UNION {Filters(u) : u \in Users}

\* The words of a biquad hold the coefficients of a filter.
HwHas(i, j, filter) ==
  \A k \in Shaper!Coeffs : words[Shaper!WordOf(i, j, k)] = <<filter, <<i, j, k>>>>
CopyHas(u, filter) ==
  \A i \in Shaper!FilterChannels, j \in 0 .. num - 1, k \in Shaper!Coeffs :
    copies[u][Shaper!WordOf(i, j, k)] = <<filter, <<i, j, k>>>>

ShaperTypes ==
  /\ num \in 0 .. NUM_BIQUADS
  /\ DOMAIN words = Shaper!Words
  /\ DOMAIN copies = Users /\ DOMAIN biquads = Users /\ DOMAIN place = Users
  /\ step \in [Users -> {"new", "idle", "write"}]
  /\ \A u \in Users : step[u] # "new" => biquads[u] = num

ShaperInv ==
  /\ ShaperTypes
  /\ \A u \in Users : step[u] = "write" =>
       /\ place[u] \in Shaper!FilterChannels \X (0 .. num - 1)
       /\ \E filter \in Filters(u) : CopyHas(u, filter)
  /\ \A i \in Shaper!FilterChannels, j \in 0 .. num - 1 :
       \E filter \in AllFilters : HwHas(i, j, filter)
  /\ \A w \in Shaper!Words :
       ~ Shaper!IsPlace(w, num) => words[w] = Shaper!Holding("before")[w]

LEMMA ShaperInit == Shaper!Init => ShaperInv
<1> SUFFICES ASSUME Shaper!Init PROVE ShaperInv
  OBVIOUS
<1>1. /\ num \in 0 .. NUM_BIQUADS /\ words = Shaper!Holding("before")
      /\ step = [u \in Users |-> "new"]
      /\ DOMAIN copies = Users /\ DOMAIN biquads = Users /\ DOMAIN place = Users
  BY DEF Shaper!Init
<1>2. DOMAIN words = Shaper!Words
  BY <1>1 DEF Shaper!Holding
<1>3. ASSUME NEW i \in Shaper!FilterChannels, NEW j \in 0 .. num - 1
      PROVE  HwHas(i, j, "before")
  <2> SUFFICES ASSUME NEW k \in Shaper!Coeffs
               PROVE  words[Shaper!WordOf(i, j, k)] = <<"before", <<i, j, k>>>>
    BY DEF HwHas
  <2>1. j \in 0 .. NUM_BIQUADS - 1 /\ NUM_BIQUADS \in 0 .. NUM_BIQUADS
    BY <1>1, ShaperAssumption
  <2>2. Shaper!WordOf(i, j, k) \in Shaper!Words
    BY <2>1, WordBounds
  <2>3. /\ Shaper!IsPlace(Shaper!WordOf(i, j, k), NUM_BIQUADS)
        /\ Shaper!PlaceOf(Shaper!WordOf(i, j, k)) = <<i, j, k>>
    BY <2>1, PlaceIs
  <2>4. QED
    BY <1>1, <2>2, <2>3 DEF Shaper!Holding
<1>4. QED
  BY <1>1, <1>2, <1>3 DEF ShaperInv, ShaperTypes, AllFilters

LEMMA ShaperParams ==
  ASSUME ShaperInv, NEW u \in Users, NEW filter \in Filters(u), Shaper!WriteParams(u, filter)
  PROVE  ShaperInv'
<1>1. /\ step[u] = "idle" /\ biquads[u] = num /\ num \in 0 .. NUM_BIQUADS
      /\ UNCHANGED <<num, words, biquads>>
  BY DEF Shaper!WriteParams, ShaperInv, ShaperTypes
<1>2. /\ step' = [step EXCEPT ![u] = IF num = 0 THEN "idle" ELSE "write"]
      /\ place' = [place EXCEPT ![u] = <<0, 0>>]
  BY <1>1 DEF Shaper!WriteParams
<1>3. /\ \A v \in Users \ {u} : copies'[v] = copies[v] /\ step'[v] = step[v] /\ place'[v] = place[v]
      /\ place'[u] = <<0, 0>>
      /\ ShaperTypes'
  BY <1>1, <1>2 DEF Shaper!WriteParams, ShaperInv, ShaperTypes
<1>4. CopyHas(u, filter)'
  <2> SUFFICES ASSUME NEW i \in Shaper!FilterChannels, NEW j \in 0 .. num - 1,
                      NEW k \in Shaper!Coeffs
               PROVE  copies'[u][Shaper!WordOf(i, j, k)] = <<filter, <<i, j, k>>>>
    BY <1>1 DEF CopyHas
  <2>1. j \in 0 .. NUM_BIQUADS - 1
    BY <1>1, ShaperAssumption
  <2>2. Shaper!WordOf(i, j, k) \in Shaper!Words
    BY <2>1, WordBounds
  <2>3. /\ Shaper!IsPlace(Shaper!WordOf(i, j, k), num)
        /\ Shaper!PlaceOf(Shaper!WordOf(i, j, k)) = <<i, j, k>>
    BY <1>1, PlaceIs
  <2>4. copies'[u] = [w \in Shaper!Words |->
                        IF Shaper!IsPlace(w, num) THEN <<filter, Shaper!PlaceOf(w)>>
                          ELSE copies[u][w]]
    BY <1>1 DEF Shaper!WriteParams, ShaperInv, ShaperTypes
  <2>5. QED
    BY <2>2, <2>3, <2>4
<1>5. num # 0 => <<0, 0>> \in Shaper!FilterChannels \X (0 .. num - 1)
  BY <1>1, ShaperAssumption DEF Shaper!FilterChannels
<1>6. ASSUME NEW v \in Users, step'[v] = "write"
      PROVE  /\ place'[v] \in Shaper!FilterChannels \X (0 .. num - 1)
             /\ \E f \in Filters(v) : CopyHas(v, f)'
  <2>1. CASE v = u
    <3>1. num # 0
      BY <1>2, <1>6, <2>1 DEF ShaperInv, ShaperTypes
    <3>2. QED
      BY <1>3, <1>4, <1>5, <2>1, <3>1
  <2>2. CASE v # u
    <3>1. \A f : CopyHas(v, f) => CopyHas(v, f)'
      BY <1>1, <1>3, <2>2 DEF CopyHas
    <3>2. QED
      BY <1>3, <1>6, <2>2, <3>1 DEF ShaperInv
  <2>3. QED
    BY <2>1, <2>2
<1>7. QED
  BY <1>1, <1>3, <1>6 DEF ShaperInv, HwHas

LEMMA ShaperWrite ==
  ASSUME ShaperInv, NEW u \in Users, Shaper!WriteBiquad(u)
  PROVE  ShaperInv'
<1>0. PICK i \in Shaper!FilterChannels, j \in 0 .. num - 1 : place[u][1] = i /\ place[u][2] = j
  BY DEF Shaper!WriteBiquad, ShaperInv
<1> DEFINE b == Shaper!Biquad(i, j)
<1>1. /\ step[u] = "write" /\ biquads[u] = num /\ num \in 0 .. NUM_BIQUADS
      /\ UNCHANGED <<num, copies, biquads>>
      /\ i \in Shaper!FilterChannels /\ j \in 0 .. num - 1
  BY DEF Shaper!WriteBiquad, ShaperInv, ShaperTypes
<1>2. j \in 0 .. NUM_BIQUADS - 1 /\ i \in Nat /\ j \in Nat /\ num \in Nat
  BY <1>1, ShaperAssumption DEF Shaper!FilterChannels
<1>3. PICK filter \in Filters(u) : CopyHas(u, filter)
  BY <1>1 DEF ShaperInv
<1>4. /\ words' = [w \in Shaper!Words |->
                     IF b.first <= w /\ w < b.first + b.size
                       THEN copies[u][Shaper!WordOf(i, j, 0) + w - b.first] ELSE words[w]]
      /\ place' = [place EXCEPT ![u] = IF j + 1 < num THEN <<i, j + 1>> ELSE <<i + 1, 0>>]
      /\ step' = [step EXCEPT ![u] =
                    IF i + 1 = NUM_CHANNELS /\ j + 1 = num THEN "idle" ELSE "write"]
  BY <1>0, <1>1 DEF Shaper!WriteBiquad
<1> HIDE DEF b
<1>5. ASSUME NEW w \in Shaper!Words
      PROVE  words'[w] = IF \E k \in Shaper!Coeffs : w = Shaper!WordOf(i, j, k)
                           THEN copies[u][w] ELSE words[w]
  <2>1. (b.first <= w /\ w < b.first + b.size) <=> \E k \in Shaper!Coeffs : w = Shaper!WordOf(i, j, k)
    BY <1>1, <1>2, BlockIs DEF b
  <2>2. Shaper!WordOf(i, j, 0) = b.first /\ b.first \in Int
    <3>1. 0 \in Shaper!Coeffs
      BY ShaperAssumption DEF Shaper!Coeffs
    <3>2. Shaper!WordOf(i, j, 0) \in Shaper!Words
      BY <1>1, <1>2, <3>1, WordBounds
    <3>3. Shaper!WordOf(i, j, 0) = b.first
      <4>1. i * ChSize + Total * j \in Int
        BY <1>2, ShaperAssumption DEF Total, Shaper!TOTAL_PER_BIQUAD
      <4>2. QED
        BY <4>1 DEF b, Shaper!Biquad, Shaper!WordOf, Total
    <3>4. QED
      BY <3>2, <3>3 DEF Shaper!Words
  <2>3. b.first + w - b.first = w
    BY <2>2 DEF Shaper!Words
  <2>4. QED
    BY <1>4, <2>1, <2>2, <2>3
<1>6. HwHas(i, j, filter)'
  <2> SUFFICES ASSUME NEW k \in Shaper!Coeffs
               PROVE  words'[Shaper!WordOf(i, j, k)] = <<filter, <<i, j, k>>>>
    BY DEF HwHas
  <2>1. Shaper!WordOf(i, j, k) \in Shaper!Words
    BY <1>1, <1>2, WordBounds
  <2>2. words'[Shaper!WordOf(i, j, k)] = copies[u][Shaper!WordOf(i, j, k)]
    BY <1>5, <2>1
  <2>3. QED
    BY <1>1, <1>3, <2>2 DEF CopyHas
<1>7. ASSUME NEW x \in Shaper!FilterChannels, NEW y \in 0 .. num - 1
      PROVE  \E f \in AllFilters : HwHas(x, y, f)'
  <2>1. CASE x = i /\ y = j
    BY <1>6, <2>1 DEF AllFilters
  <2>2. CASE ~ (x = i /\ y = j)
    <3>1. PICK f \in AllFilters : HwHas(x, y, f)
      BY DEF ShaperInv
    <3>2. HwHas(x, y, f)'
      <4> SUFFICES ASSUME NEW z \in Shaper!Coeffs
                   PROVE  words'[Shaper!WordOf(x, y, z)] = <<f, <<x, y, z>>>>
        BY DEF HwHas
      <4>1. y \in 0 .. NUM_BIQUADS - 1
        BY <1>1, ShaperAssumption
      <4>2. Shaper!WordOf(x, y, z) \in Shaper!Words
        BY <4>1, WordBounds
      <4>3. \A k \in Shaper!Coeffs : Shaper!WordOf(x, y, z) # Shaper!WordOf(i, j, k)
        BY <1>1, <1>2, <2>2, <4>1, WordsDiffer
      <4>4. words'[Shaper!WordOf(x, y, z)] = words[Shaper!WordOf(x, y, z)]
        BY <1>5, <4>2, <4>3
      <4>5. QED
        BY <3>1, <4>4 DEF HwHas
    <3>3. QED
      BY <3>2
  <2>3. QED
    BY <2>1, <2>2
<1>8. ASSUME NEW w \in Shaper!Words, ~ Shaper!IsPlace(w, num)
      PROVE  words'[w] = Shaper!Holding("before")[w]
  <2>1. \A k \in Shaper!Coeffs : w # Shaper!WordOf(i, j, k)
    BY <1>1, <1>8, PlaceIs
  <2>2. QED
    BY <1>5, <1>8, <2>1 DEF ShaperInv
<1>9. ASSUME NEW v \in Users, step'[v] = "write"
      PROVE  /\ place'[v] \in Shaper!FilterChannels \X (0 .. num - 1)
             /\ \E f \in Filters(v) : CopyHas(v, f)'
  <2>1. \A f : CopyHas(v, f) => CopyHas(v, f)'
    BY <1>1 DEF CopyHas
  <2>2. CASE v = u
    <3>1. place'[u] = IF j + 1 < num THEN <<i, j + 1>> ELSE <<i + 1, 0>>
      BY <1>4 DEF ShaperInv, ShaperTypes
    <3>2. ~ (i + 1 = NUM_CHANNELS /\ j + 1 = num)
      BY <1>4, <1>9, <2>2 DEF ShaperInv, ShaperTypes
    <3>3. CASE j + 1 < num
      <4>1. <<i, j + 1>> \in Shaper!FilterChannels \X (0 .. num - 1)
        BY <1>1, <1>2, <3>3
      <4>2. QED
        BY <1>3, <2>1, <2>2, <3>1, <3>3, <4>1
    <3>4. CASE ~ (j + 1 < num)
      <4>1. <<i + 1, 0>> \in Shaper!FilterChannels \X (0 .. num - 1)
        BY <1>1, <1>2, <3>2, <3>4, ShaperAssumption DEF Shaper!FilterChannels
      <4>2. QED
        BY <1>3, <2>1, <2>2, <3>1, <3>4, <4>1
    <3>5. QED
      BY <3>3, <3>4
  <2>3. CASE v # u
    BY <1>4, <1>9, <2>1, <2>3 DEF ShaperInv, ShaperTypes
  <2>4. QED
    BY <2>2, <2>3
<1>10. ShaperTypes'
  BY <1>1, <1>4 DEF ShaperInv, ShaperTypes
<1>11. QED
  BY <1>1, <1>7, <1>8, <1>9, <1>10 DEF ShaperInv

LEMMA ShaperNext ==
  ASSUME ShaperInv, [Shaper!Next]_Shaper!vars
  PROVE  ShaperInv'
<1>1. ASSUME NEW u \in Users, Shaper!SetDevinfo(u) PROVE ShaperInv'
  <2>1. /\ step[u] = "new" /\ step' = [step EXCEPT ![u] = "idle"]
        /\ biquads' = [biquads EXCEPT ![u] = num]
        /\ UNCHANGED <<num, words, copies, place>>
    BY <1>1 DEF Shaper!SetDevinfo
  <2>2. ShaperTypes'
    BY <2>1 DEF ShaperInv, ShaperTypes
  <2>3. \A v \in Users : step'[v] = "write" => step[v] = "write"
    BY <2>1 DEF ShaperInv, ShaperTypes
  <2>4. QED
    BY <2>1, <2>2, <2>3 DEF ShaperInv, HwHas, CopyHas
<1>2. CASE UNCHANGED Shaper!vars
  BY <1>2 DEF Shaper!vars, ShaperInv, ShaperTypes, HwHas, CopyHas
<1>3. QED
  BY <1>1, <1>2, ShaperParams, ShaperWrite DEF Shaper!Next

\* A decoder finds every biquad whole between the writes of any number of controllers,
\* and the words past the core's biquads stay as they were, for every size of the core.
THEOREM BiquadsAreWhole == Shaper!Init /\ [][Shaper!Next]_Shaper!vars => []BiquadsWhole
<1>1. ShaperInv => BiquadsWhole
  <2> SUFFICES ASSUME ShaperInv,
                      NEW i \in Shaper!FilterChannels, NEW j \in 0 .. num - 1
               PROVE  \E filter \in AllFilters : \A k \in Shaper!Coeffs :
                        Shaper!Decoded(i)[k + COEFFS_PER_BIQUAD * j] = <<filter, <<i, j, k>>>>
    BY DEF ShaperInv, BiquadsWhole, Shaper!BiquadsWhole, AllFilters
  <2>1. PICK filter \in AllFilters : HwHas(i, j, filter)
    BY DEF ShaperInv
  <2> SUFFICES ASSUME NEW k \in Shaper!Coeffs
               PROVE  Shaper!Decoded(i)[k + COEFFS_PER_BIQUAD * j] = <<filter, <<i, j, k>>>>
    OBVIOUS
  <2> DEFINE n == k + COEFFS_PER_BIQUAD * j
  <2>2. /\ COEFFS_PER_BIQUAD \in Nat \ {0} /\ j \in Nat /\ num \in Nat /\ j < num
        /\ k \in 0 .. COEFFS_PER_BIQUAD - 1
    BY ShaperAssumption DEF ShaperInv, ShaperTypes, Shaper!Coeffs
  <2>3. n \div COEFFS_PER_BIQUAD = j /\ n % COEFFS_PER_BIQUAD = k
    BY <2>2, QuotientIs
  <2>4. n \in 0 .. num * COEFFS_PER_BIQUAD - 1
    <3>1. j * COEFFS_PER_BIQUAD + COEFFS_PER_BIQUAD <= num * COEFFS_PER_BIQUAD
      BY <2>2, RoomBetween
    <3>2. j * COEFFS_PER_BIQUAD \in Nat /\ num * COEFFS_PER_BIQUAD \in Nat
          /\ j * COEFFS_PER_BIQUAD = COEFFS_PER_BIQUAD * j
      BY <2>2
    <3>3. QED
      BY <2>2, <3>1, <3>2
  <2> HIDE DEF n
  <2>5. Shaper!Decoded(i)[n] = words[Shaper!WordOf(i, j, k)]
    BY <2>3, <2>4 DEF Shaper!Decoded
  <2>6. QED
    BY <2>1, <2>5 DEF HwHas, n
<1>2. QED
  BY <1>1, ShaperInit, ShaperNext, PTL

-----------------------------------------------------------------------------
(* SdbSearch: the cores that a search finds.                               *)
-----------------------------------------------------------------------------
\* The records that a search is for and has passed.
Passed(k) == {m \in Sdb!Meant(search.for) : m < k}

\* What isla216p's controller remembers after none, one or two SPI cores.
Seen(n) == {"f250"} \cup (IF n >= 1 THEN {"first"} ELSE {}) \cup (IF n = 2 THEN {"second"} ELSE {})

\* What the controllers remember when a search has come to record k.
ClockRemembers(seen, k) ==
  seen = IF \E j \in 1 .. k-1 : sdb[j] = "fac" /\ Sdb!SpisBetween(j, k) = {}
           THEN {"fac"} ELSE {}
IslaRemembers(seen, k) ==
  \/ /\ seen = {}
     /\ \A x \in 1 .. k-1 : sdb[x] = "f250" => Cardinality(Sdb!SpisBetween(x, k)) >= 3
  \/ \E j \in 1 .. k-1 :
       /\ sdb[j] = "f250" /\ Cardinality(Sdb!SpisBetween(j, k)) \in 0 .. 2
       /\ seen = Seen(Cardinality(Sdb!SpisBetween(j, k)))
       /\ \A x \in 1 .. k-1 :
            x # j /\ sdb[x] = "f250" => Cardinality(Sdb!SpisBetween(x, k)) >= 3

SdbTypes ==
  /\ sdb \in Boards /\ DOMAIN memory = Sdb!Chips
  /\ record \in 1 .. Len(sdb) + 1 /\ pos \in Nat
  /\ search \in [for : Sdb!Cores \cup Sdb!Chips, at : Nat]

SdbInv ==
  /\ SdbTypes
  /\ \A c \in Sdb!Chips : memory[c] = {} \/ (found = Sdb!Searching /\ search.for = c)
  /\ found = Sdb!Searching =>
       /\ pos + Cardinality(Passed(record)) = search.at
       /\ search.for = "ad9510" => ClockRemembers(memory["ad9510"], record)
       /\ search.for = "isla216p" => IslaRemembers(memory["isla216p"], record)

LEMMA BoardTypes ==
  ASSUME sdb \in Boards
  PROVE  /\ Len(sdb) \in Nat /\ DOMAIN sdb = 1 .. Len(sdb)
         /\ \A k \in 1 .. Len(sdb) : sdb[k] \in {"fac", "f250", "spi", "core", "other"}
<1>1. sdb \in Seq({"fac", "f250", "spi", "core", "other"})
  BY BoardsAssumption DEF Sdb!Cores
<1>2. QED
  BY <1>1

LEMMA SpisNext ==
  ASSUME NEW k \in Nat, NEW j \in 1 .. k-1
  PROVE  /\ IsFiniteSet(Sdb!SpisBetween(j, k)) /\ Cardinality(Sdb!SpisBetween(j, k)) \in Nat
         /\ sdb[k] = "spi" =>
              /\ Sdb!SpisBetween(j, k+1) = Sdb!SpisBetween(j, k) \cup {k}
              /\ Cardinality(Sdb!SpisBetween(j, k+1)) = Cardinality(Sdb!SpisBetween(j, k)) + 1
         /\ sdb[k] # "spi" => Sdb!SpisBetween(j, k+1) = Sdb!SpisBetween(j, k)
<1>1. IsFiniteSet(Sdb!SpisBetween(j, k))
  <2>1. IsFiniteSet(j+1 .. k-1) /\ Sdb!SpisBetween(j, k) \in SUBSET (j+1 .. k-1)
    BY FS_Interval DEF Sdb!SpisBetween
  <2>2. QED
    BY <2>1, FS_Subset
<1>2. k \notin Sdb!SpisBetween(j, k)
  BY DEF Sdb!SpisBetween
<1>3. sdb[k] = "spi" => Sdb!SpisBetween(j, k+1) = Sdb!SpisBetween(j, k) \cup {k}
  BY DEF Sdb!SpisBetween
<1>4. sdb[k] # "spi" => Sdb!SpisBetween(j, k+1) = Sdb!SpisBetween(j, k)
  BY DEF Sdb!SpisBetween
<1>5. QED
  BY <1>1, <1>2, <1>3, <1>4, FS_CardinalityType, FS_AddElement

LEMMA SpisOfNew ==
  ASSUME NEW k \in Nat
  PROVE  Sdb!SpisBetween(k, k+1) = {} /\ Cardinality(Sdb!SpisBetween(k, k+1)) = 0
<1>1. k+1 .. (k+1)-1 = {}
  OBVIOUS
<1>2. Sdb!SpisBetween(k, k+1) = {}
  BY <1>1 DEF Sdb!SpisBetween
<1>3. QED
  BY <1>2, FS_EmptySet

\* The operator of the instance's FiniteSets.
LEMMA SameCardinality == \A S : Sdb!Cardinality(S) = Cardinality(S)
BY DEF Sdb!Cardinality, Cardinality

LEMMA IslaMeans ==
  ASSUME NEW k, k \in DOMAIN sdb, NEW what, what = "isla216p"
  PROVE  k \in Sdb!Meant(what) <=>
           sdb[k] = "spi" /\
             \E j \in 1 .. k-1 : sdb[j] = "f250" /\ Cardinality(Sdb!SpisBetween(j, k)) = 2
<1>1. what # "ad9510"
  OBVIOUS
<1>2. Sdb!Meant(what) =
        {n \in DOMAIN sdb : sdb[n] = "spi" /\
           \E j \in 1 .. n-1 : sdb[j] = "f250" /\ Sdb!Cardinality(Sdb!SpisBetween(j, n)) = 2}
  BY <1>1, Zenon DEF Sdb!Meant
<1>3. QED
  BY <1>2, SameCardinality

LEMMA CoreMeans ==
  ASSUME NEW k, k \in DOMAIN sdb, NEW what, what \notin {"ad9510", "isla216p"}
  PROVE  k \in Sdb!Meant(what) <=> sdb[k] = what
BY DEF Sdb!Meant

LEMMA MeantRecords == \A what : Sdb!Meant(what) \subseteq DOMAIN sdb
BY DEF Sdb!Meant

\* What ad9510's function finds and remembers.
LEMMA ClockLooks ==
  ASSUME sdb \in Boards, NEW k \in 1 .. Len(sdb), NEW seen, ClockRemembers(seen, k),
         NEW m, m = Sdb!Ad9510(seen, sdb[k])
  PROVE  /\ (sdb[k] # "other" /\ m.matches) <=> k \in Sdb!Meant("ad9510")
         /\ sdb[k] # "other" /\ m.matches => m.seen = {}
         /\ ClockRemembers(IF sdb[k] # "other" THEN m.seen ELSE seen, k + 1)
<1>1. k \in Nat /\ Len(sdb) \in Nat /\ k \in DOMAIN sdb
  BY BoardTypes
<1>2. k \in Sdb!Meant("ad9510") <=>
        sdb[k] = "spi" /\ \E j \in 1 .. k-1 : sdb[j] = "fac" /\ Sdb!SpisBetween(j, k) = {}
  BY <1>1 DEF Sdb!Meant
<1>3. CASE sdb[k] = "fac"
  <2>1. m = [matches |-> FALSE, seen |-> {"fac"}]
    BY <1>3 DEF Sdb!Ad9510
  <2>2. k \in 1 .. (k+1)-1 /\ Sdb!SpisBetween(k, k+1) = {}
    BY <1>1, SpisOfNew
  <2>3. ClockRemembers({"fac"}, k+1)
    BY <1>3, <2>2 DEF ClockRemembers
  <2>4. QED
    BY <1>2, <1>3, <2>1, <2>3
<1>4. CASE sdb[k] = "spi" /\ "fac" \in seen
  <2>1. m = [matches |-> TRUE, seen |-> {}]
    BY <1>4 DEF Sdb!Ad9510
  <2>2. \A j \in 1 .. (k+1)-1 : sdb[j] = "fac" => Sdb!SpisBetween(j, k+1) # {}
    <3> SUFFICES ASSUME NEW j \in 1 .. (k+1)-1, sdb[j] = "fac"
                 PROVE  k \in Sdb!SpisBetween(j, k+1)
      OBVIOUS
    <3>1. j # k
      BY <1>4
    <3>2. QED
      BY <1>1, <1>4, <3>1 DEF Sdb!SpisBetween
  <2>3. ClockRemembers({}, k+1)
    BY <2>2 DEF ClockRemembers
  <2>4. \E j \in 1 .. k-1 : sdb[j] = "fac" /\ Sdb!SpisBetween(j, k) = {}
    BY <1>4 DEF ClockRemembers
  <2>5. sdb[k] # "other" /\ m.matches = TRUE /\ m.seen = {}
    BY <1>4, <2>1
  <2>6. QED
    BY <1>2, <1>4, <2>3, <2>4, <2>5
<1>5. CASE sdb[k] = "spi" /\ "fac" \notin seen
  <2>1. m = [matches |-> FALSE, seen |-> seen] /\ seen = {}
    BY <1>5 DEF Sdb!Ad9510, ClockRemembers
  <2>2. \A j \in 1 .. (k+1)-1 : sdb[j] = "fac" => Sdb!SpisBetween(j, k+1) # {}
    <3> SUFFICES ASSUME NEW j \in 1 .. (k+1)-1, sdb[j] = "fac"
                 PROVE  k \in Sdb!SpisBetween(j, k+1)
      OBVIOUS
    <3>1. j # k
      BY <1>5
    <3>2. QED
      BY <1>1, <1>5, <3>1 DEF Sdb!SpisBetween
  <2>3. ClockRemembers({}, k+1)
    BY <2>2 DEF ClockRemembers
  <2>4. ~ \E j \in 1 .. k-1 : sdb[j] = "fac" /\ Sdb!SpisBetween(j, k) = {}
    BY <1>5 DEF ClockRemembers
  <2>5. sdb[k] # "other" /\ m.matches = FALSE /\ m.seen = {}
    BY <1>5, <2>1
  <2>6. QED
    BY <1>2, <1>5, <2>3, <2>4, <2>5
<1>6. CASE sdb[k] \notin {"fac", "spi"}
  <2>1. m = [matches |-> FALSE, seen |-> seen]
    BY <1>6 DEF Sdb!Ad9510
  <2>2. \A j \in 1 .. k-1 : Sdb!SpisBetween(j, k+1) = Sdb!SpisBetween(j, k)
    BY <1>1, <1>6, SpisNext
  <2>3. ClockRemembers(seen, k+1)
    <3>1. (\E j \in 1 .. (k+1)-1 : sdb[j] = "fac" /\ Sdb!SpisBetween(j, k+1) = {})
            <=> \E j \in 1 .. k-1 : sdb[j] = "fac" /\ Sdb!SpisBetween(j, k) = {}
      BY <1>1, <1>6, <2>2
    <3>2. QED
      BY <3>1 DEF ClockRemembers
  <2>4. QED
    BY <1>2, <1>6, <2>1, <2>3
<1>7. QED
  BY <1>3, <1>4, <1>5, <1>6

LEMMA ThreeElements ==
  ASSUME NEW S, IsFiniteSet(S), NEW p \in S, NEW q \in S, NEW r \in S, p # q, q # r, p # r
  PROVE  Cardinality(S) >= 3
<1> DEFINE T == S \ {p}
           U == T \ {q}
<1>1. q \in T /\ r \in U
  OBVIOUS
<1>2. IsFiniteSet(T) /\ Cardinality(T) = Cardinality(S) - 1
  BY FS_RemoveElement
<1> HIDE DEF T
<1>3. IsFiniteSet(U) /\ Cardinality(U) = Cardinality(T) - 1
  BY <1>1, <1>2, FS_RemoveElement
<1> HIDE DEF U
<1>4. Cardinality(U) # 0 /\ Cardinality(U) \in Nat /\ Cardinality(S) \in Nat
  BY <1>1, <1>3, FS_EmptySet, FS_CardinalityType
<1>5. QED
  BY <1>2, <1>3, <1>4

\* An FMC250M_4CH whose third SPI core has not come yet is the last one, and not at the end.
LEMMA IslaWaits ==
  ASSUME sdb \in Boards, NEW k \in 1 .. Len(sdb) + 1, NEW x \in 1 .. k-1, sdb[x] = "f250",
         ~ (Cardinality(Sdb!SpisBetween(x, k)) >= 3)
  PROVE  k \in 1 .. Len(sdb) /\ sdb[k] # "f250"
<1>1. k \in Nat /\ x \in DOMAIN sdb /\ DOMAIN sdb = 1 .. Len(sdb) /\ Len(sdb) \in Nat
  BY BoardTypes
<1>2. PICK p \in 1 .. Len(sdb), q \in 1 .. Len(sdb), r \in 1 .. Len(sdb) :
        /\ x < p /\ p < q /\ q < r
        /\ sdb[p] = "spi" /\ sdb[q] = "spi" /\ sdb[r] = "spi"
        /\ \A n \in x+1 .. r : sdb[n] # "f250"
  <2>1. \E p, q, r \in DOMAIN sdb :
          /\ x < p /\ p < q /\ q < r
          /\ sdb[p] = "spi" /\ sdb[q] = "spi" /\ sdb[r] = "spi"
          /\ \A n \in x+1 .. r : sdb[n] # "f250"
    BY <1>1, BoardsAssumption
  <2>2. QED
    BY <1>1, <2>1
<1>3. k <= r
  <2> SUFFICES ASSUME r < k PROVE Cardinality(Sdb!SpisBetween(x, k)) >= 3
    BY <1>1, <1>2
  <2>1. {p, q, r} \subseteq Sdb!SpisBetween(x, k)
    BY <1>1, <1>2 DEF Sdb!SpisBetween
  <2>2. IsFiniteSet(Sdb!SpisBetween(x, k))
    BY <1>1, SpisNext
  <2>3. QED
    BY <1>2, <2>1, <2>2, ThreeElements
<1>4. k \in x+1 .. r
  BY <1>1, <1>2, <1>3
<1>5. QED
  BY <1>1, <1>2, <1>3, <1>4

\* What isla216p's function finds and remembers.
LEMMA IslaLooks ==
  ASSUME sdb \in Boards, NEW k \in 1 .. Len(sdb), NEW seen, IslaRemembers(seen, k),
         NEW m, m = Sdb!Isla216p(seen, sdb[k])
  PROVE  /\ (sdb[k] # "other" /\ m.matches) <=> k \in Sdb!Meant("isla216p")
         /\ sdb[k] # "other" /\ m.matches => m.seen = {}
         /\ IslaRemembers(IF sdb[k] # "other" THEN m.seen ELSE seen, k + 1)
<1> DEFINE Between(x) == Cardinality(Sdb!SpisBetween(x, k))
           AndThis(x) == Cardinality(Sdb!SpisBetween(x, k+1))
           seen2 == IF sdb[k] # "other" THEN m.seen ELSE seen
<1>1. k \in Nat /\ Len(sdb) \in Nat /\ k \in DOMAIN sdb /\ (k+1)-1 = k
  BY BoardTypes
<1>2. k \in Sdb!Meant("isla216p") <=>
        sdb[k] = "spi" /\ \E j \in 1 .. k-1 : sdb[j] = "f250" /\ Between(j) = 2
  BY <1>1, IslaMeans
<1>3. \A x \in 1 .. k-1 :
        /\ Between(x) \in Nat
        /\ AndThis(x) = IF sdb[k] = "spi" THEN Between(x) + 1 ELSE Between(x)
  BY <1>1, SpisNext
<1>4. AndThis(k) = 0
  BY <1>1, SpisOfNew
<1>5. IslaRemembers(seen2, k+1) <=>
        \/ /\ seen2 = {}
           /\ \A x \in 1 .. k : sdb[x] = "f250" => AndThis(x) >= 3
        \/ \E j \in 1 .. k :
             /\ sdb[j] = "f250" /\ AndThis(j) \in 0 .. 2 /\ seen2 = Seen(AndThis(j))
             /\ \A x \in 1 .. k : x # j /\ sdb[x] = "f250" => AndThis(x) >= 3
  BY <1>1 DEF IslaRemembers
<1>6. \/ seen = {} /\ \A x \in 1 .. k-1 : sdb[x] = "f250" => Between(x) >= 3
      \/ \E j \in 1 .. k-1 :
           /\ sdb[j] = "f250" /\ Between(j) \in 0 .. 2 /\ seen = Seen(Between(j))
           /\ \A x \in 1 .. k-1 : x # j /\ sdb[x] = "f250" => Between(x) >= 3
  BY DEF IslaRemembers
<1>7. \A x \in 1 .. k : x = k \/ x \in 1 .. k-1
  BY <1>1
<1> HIDE DEF Between, AndThis, seen2
<1>8. CASE seen = {} /\ \A x \in 1 .. k-1 : sdb[x] = "f250" => Between(x) >= 3
  <2>1. CASE sdb[k] = "f250"
    <3>1. m = [matches |-> FALSE, seen |-> {"f250"}]
      BY <1>8, <2>1 DEF Sdb!Isla216p
    <3>2. seen2 = Seen(0) /\ ~ m.matches
      BY <2>1, <3>1 DEF seen2, Seen
    <3>3. \A x \in 1 .. k : x # k /\ sdb[x] = "f250" => AndThis(x) >= 3
      BY <1>3, <1>7, <1>8, <2>1
    <3>4. IslaRemembers(seen2, k+1)
      BY <1>1, <1>4, <1>5, <2>1, <3>2, <3>3
    <3>5. QED
      BY <1>2, <2>1, <3>2, <3>4 DEF seen2
  <2>2. CASE sdb[k] # "f250"
    <3>1. m = [matches |-> FALSE, seen |-> {}]
      BY <1>8, <2>2 DEF Sdb!Isla216p
    <3>2. seen2 = {} /\ ~ m.matches
      BY <1>8, <3>1 DEF seen2
    <3>3. \A x \in 1 .. k : sdb[x] = "f250" => AndThis(x) >= 3
      BY <1>3, <1>7, <1>8, <2>2
    <3>4. IslaRemembers(seen2, k+1)
      BY <1>5, <3>2, <3>3
    <3>5. ~ \E j \in 1 .. k-1 : sdb[j] = "f250" /\ Between(j) = 2
      BY <1>8
    <3>6. QED
      BY <1>2, <3>2, <3>4, <3>5 DEF seen2
  <2>3. QED
    BY <2>1, <2>2
<1>9. ASSUME NEW j \in 1 .. k-1, sdb[j] = "f250", Between(j) \in 0 .. 2, seen = Seen(Between(j)),
             \A x \in 1 .. k-1 : x # j /\ sdb[x] = "f250" => Between(x) >= 3
      PROVE  /\ (sdb[k] # "other" /\ m.matches) <=> k \in Sdb!Meant("isla216p")
             /\ sdb[k] # "other" /\ m.matches => m.seen = {}
             /\ IslaRemembers(seen2, k+1)
  <2>1. sdb[k] # "f250"
    BY <1>1, <1>9, IslaWaits DEF Between
  <2>2. j \in 1 .. k /\ j # k
    BY <1>1
  <2>3. CASE sdb[k] = "spi" /\ Between(j) = 2
    <3>1. m = [matches |-> TRUE, seen |-> {}]
      BY <1>9, <2>3 DEF Sdb!Isla216p, Seen
    <3>2. seen2 = {} /\ m.matches /\ m.seen = {}
      BY <2>3, <3>1 DEF seen2
    <3>3. ASSUME NEW x \in 1 .. k, sdb[x] = "f250" PROVE AndThis(x) >= 3
      <4>1. x \in 1 .. k-1
        BY <1>7, <2>1, <3>3
      <4>2. Between(x) \in Nat /\ AndThis(x) = Between(x) + 1
        BY <1>3, <2>3, <4>1
      <4>3. Between(x) >= 2
        <5>1. CASE x = j
          BY <2>3, <4>2, <5>1
        <5>2. CASE x # j
          BY <1>9, <3>3, <4>1, <4>2, <5>2
        <5>3. QED
          BY <5>1, <5>2
      <4>4. QED
        BY <4>2, <4>3
    <3>4. IslaRemembers(seen2, k+1)
      BY <1>5, <3>2, <3>3
    <3>5. QED
      BY <1>2, <1>9, <2>3, <3>2, <3>4
  <2>4. CASE sdb[k] = "spi" /\ Between(j) \in {0, 1}
    <3>1. m = [matches |-> FALSE, seen |-> Seen(Between(j) + 1)]
      <4>1. CASE Between(j) = 0
        <5>1. seen = {"f250"} /\ Seen(1) = {"f250", "first"}
          BY <1>9, <4>1 DEF Seen
        <5>2. m = [matches |-> FALSE, seen |-> {"f250"} \cup {"first"}]
          BY <2>4, <5>1 DEF Sdb!Isla216p
        <5>3. Between(j) + 1 = 1 /\ {"f250"} \cup {"first"} = {"f250", "first"}
          BY <4>1
        <5>4. QED
          BY <5>1, <5>2, <5>3
      <4>2. CASE Between(j) = 1
        <5>1. seen = {"f250", "first"} /\ Seen(2) = {"f250", "first", "second"}
          BY <1>9, <4>2 DEF Seen
        <5>2. m = [matches |-> FALSE, seen |-> {"f250", "first"} \cup {"second"}]
          BY <2>4, <5>1 DEF Sdb!Isla216p
        <5>3. /\ Between(j) + 1 = 2
              /\ {"f250", "first"} \cup {"second"} = {"f250", "first", "second"}
          BY <4>2
        <5>4. QED
          BY <5>1, <5>2, <5>3
      <4>3. QED
        BY <2>4, <4>1, <4>2
    <3>2. seen2 = Seen(Between(j) + 1) /\ ~ m.matches
      BY <2>4, <3>1 DEF seen2
    <3>3. AndThis(j) = Between(j) + 1 /\ AndThis(j) \in 0 .. 2
      BY <1>3, <2>4
    <3>4. \A x \in 1 .. k : x # j /\ sdb[x] = "f250" => AndThis(x) >= 3
      BY <1>3, <1>7, <1>9, <2>1, <2>4
    <3>5. IslaRemembers(seen2, k+1)
      BY <1>5, <1>9, <2>2, <3>2, <3>3, <3>4
    <3>6. ~ \E x \in 1 .. k-1 : sdb[x] = "f250" /\ Between(x) = 2
      BY <1>9, <2>4
    <3>7. QED
      BY <1>2, <3>2, <3>5, <3>6
  <2>5. CASE sdb[k] # "spi"
    <3>1. m = [matches |-> FALSE, seen |-> seen]
      BY <2>1, <2>5 DEF Sdb!Isla216p
    <3>2. seen2 = Seen(Between(j)) /\ ~ m.matches
      BY <1>9, <3>1 DEF seen2
    <3>3. AndThis(j) = Between(j)
      BY <1>3, <2>5
    <3>4. \A x \in 1 .. k : x # j /\ sdb[x] = "f250" => AndThis(x) >= 3
      BY <1>3, <1>7, <1>9, <2>1, <2>5
    <3>5. IslaRemembers(seen2, k+1)
      BY <1>5, <1>9, <2>2, <3>2, <3>3, <3>4
    <3>6. QED
      BY <1>2, <2>5, <3>2, <3>5
  <2>6. QED
    BY <1>9, <2>3, <2>4, <2>5
<1>10. QED
  BY <1>6, <1>8, <1>9 DEF seen2

LEMMA SdbStill ==
  ASSUME UNCHANGED sdb
  PROVE  /\ \A x, k : Sdb!SpisBetween(x, k)' = Sdb!SpisBetween(x, k)
         /\ \A what : Sdb!Meant(what)' = Sdb!Meant(what)
<1>1. \A x, k : Sdb!SpisBetween(x, k)' = Sdb!SpisBetween(x, k)
  BY DEF Sdb!SpisBetween
<1>2. \A what : Sdb!Meant(what)' = Sdb!Meant(what)
  BY DEF Sdb!Meant, Sdb!SpisBetween
<1>3. QED
  BY <1>1, <1>2

LEMMA PassedNext ==
  ASSUME sdb \in Boards, NEW k \in 1 .. Len(sdb)
  PROVE  /\ Cardinality(Passed(k)) \in Nat
         /\ Cardinality(Passed(k + 1)) =
              IF k \in Sdb!Meant(search.for) THEN Cardinality(Passed(k)) + 1
                ELSE Cardinality(Passed(k))
<1>1. k \in Nat /\ Sdb!Meant(search.for) \subseteq 1 .. Len(sdb)
  BY BoardTypes, MeantRecords
<1>2. IsFiniteSet(Passed(k))
  <2>1. IsFiniteSet(1 .. k-1) /\ Passed(k) \in SUBSET (1 .. k-1)
    BY <1>1, FS_Interval DEF Passed
  <2>2. QED
    BY <2>1, FS_Subset
<1>3. k \notin Passed(k)
  BY <1>1 DEF Passed
<1>4. k \in Sdb!Meant(search.for) => Passed(k + 1) = Passed(k) \cup {k}
  BY <1>1 DEF Passed
<1>5. k \notin Sdb!Meant(search.for) => Passed(k + 1) = Passed(k)
  BY <1>1 DEF Passed
<1>6. QED
  BY <1>2, <1>3, <1>4, <1>5, FS_CardinalityType, FS_AddElement

LEMMA SdbBegin ==
  ASSUME SdbInv, NEW what \in Sdb!Cores \cup Sdb!Chips, NEW p \in Positions, Sdb!Begin(what, p)
  PROVE  SdbInv'
<1>1. /\ found # Sdb!Searching /\ search' = [for |-> what, at |-> p] /\ record' = 1 /\ pos' = p
      /\ found' = Sdb!Searching /\ UNCHANGED <<sdb, memory>>
  BY DEF Sdb!Begin
<1>2. Passed(1)' = {}
  BY <1>1, MeantRecords, BoardTypes DEF Passed, Sdb!Meant, SdbInv, SdbTypes
<1>3. Cardinality(Passed(1)') = 0 /\ p \in Nat
  BY <1>2, FS_EmptySet, BoardsAssumption
<1>4. memory["ad9510"] = {} /\ memory["isla216p"] = {}
  BY <1>1 DEF SdbInv, Sdb!Chips
<1>5. ClockRemembers({}, 1) /\ IslaRemembers({}, 1)
  BY DEF ClockRemembers, IslaRemembers
<1>6. ClockRemembers(memory["ad9510"], 1)' /\ IslaRemembers(memory["isla216p"], 1)'
  BY <1>1, <1>4, <1>5, SdbStill DEF ClockRemembers, IslaRemembers
<1>7. SdbTypes'
  BY <1>1, <1>3, BoardTypes DEF SdbInv, SdbTypes
<1>8. QED
  BY <1>1, <1>3, <1>4, <1>6, <1>7 DEF SdbInv, Sdb!Chips

\* What a function finds at a record, and what it remembers then, for all of them.
LEMMA SdbLooks ==
  ASSUME SdbInv, found = Sdb!Searching, record <= Len(sdb),
         NEW m, m = Sdb!Match(search.for, sdb[record])
  PROVE  /\ (sdb[record] # "other" /\ m.matches) <=> record \in Sdb!Meant(search.for)
         /\ sdb[record] # "other" /\ m.matches /\ search.for \in Sdb!Chips => m.seen = {}
         /\ search.for = "ad9510" =>
              ClockRemembers(IF sdb[record] # "other" THEN m.seen ELSE memory["ad9510"],
                             record + 1)
         /\ search.for = "isla216p" =>
              IslaRemembers(IF sdb[record] # "other" THEN m.seen ELSE memory["isla216p"],
                            record + 1)
<1>1. sdb \in Boards /\ record \in 1 .. Len(sdb) /\ record \in DOMAIN sdb
  BY BoardTypes DEF SdbInv, SdbTypes
<1>2. CASE search.for = "ad9510"
  <2>1. m = Sdb!Ad9510(memory["ad9510"], sdb[record])
    BY <1>2 DEF Sdb!Match
  <2>2. ClockRemembers(memory["ad9510"], record)
    BY <1>2 DEF SdbInv
  <2>3. QED
    BY <1>1, <1>2, <2>1, <2>2, ClockLooks
<1>3. CASE search.for = "isla216p"
  <2>1. m = Sdb!Isla216p(memory["isla216p"], sdb[record])
    BY <1>3 DEF Sdb!Match
  <2>2. IslaRemembers(memory["isla216p"], record)
    BY <1>3 DEF SdbInv
  <2>3. QED
    BY <1>1, <1>3, <2>1, <2>2, IslaLooks
<1>4. CASE search.for \notin {"ad9510", "isla216p"}
  <2>1. m = [matches |-> sdb[record] = search.for, seen |-> {}] /\ search.for # "other"
    BY <1>4 DEF Sdb!Match, SdbInv, SdbTypes, Sdb!Cores, Sdb!Chips
  <2>2. record \in Sdb!Meant(search.for) <=> sdb[record] = search.for
    BY <1>1, <1>4, CoreMeans
  <2>3. m.matches <=> sdb[record] = search.for
    <3>1. CASE sdb[record] = search.for
      <4>1. m = [matches |-> TRUE, seen |-> {}]
        BY <2>1, <3>1
      <4>2. QED
        BY <3>1, <4>1
    <3>2. CASE sdb[record] # search.for
      <4>1. m = [matches |-> FALSE, seen |-> {}]
        BY <2>1, <3>2
      <4>2. QED
        BY <3>2, <4>1
    <3>3. QED
      BY <3>1, <3>2
  <2>4. (sdb[record] # "other" /\ m.matches) <=> record \in Sdb!Meant(search.for)
    BY <2>1, <2>2, <2>3
  <2>5. QED
    BY <1>4, <2>4 DEF Sdb!Chips
<1>5. QED
  BY <1>2, <1>3, <1>4

\* A step of a search, and what it returns if it is the last one.
LEMMA SdbScan ==
  ASSUME SdbInv, Sdb!Scan
  PROVE  /\ SdbInv'
         /\ found' # Sdb!Searching =>
              /\ found' # Sdb!NotFound
              /\ found' \in Sdb!Meant(search.for)
              /\ Cardinality(Passed(found')) = search.at
<1>0. PICK m : m = Sdb!Match(search.for, sdb[record])
  OBVIOUS
<1> DEFINE is == sdb[record] # "other" /\ m.matches
<1>1. /\ found = Sdb!Searching /\ record \in 1 .. Len(sdb) /\ sdb \in Boards
      /\ UNCHANGED <<sdb, search>> /\ Len(sdb) \in Nat
      /\ search.for \in Sdb!Cores \cup Sdb!Chips
  BY BoardTypes DEF Sdb!Scan, SdbInv, SdbTypes
<1>2. /\ memory' = IF sdb[record] # "other" /\ search.for \in Sdb!Chips
                     THEN [memory EXCEPT ![search.for] = m.seen] ELSE memory
      /\ IF is /\ pos = 0 THEN found' = record /\ UNCHANGED <<record, pos>>
         ELSE /\ record' = record + 1
              /\ pos' = IF is THEN pos - 1 ELSE pos
              /\ UNCHANGED found
  BY <1>0 DEF Sdb!Scan
<1>3. /\ is <=> record \in Sdb!Meant(search.for)
      /\ is /\ search.for \in Sdb!Chips => m.seen = {}
      /\ search.for = "ad9510" =>
           ClockRemembers(IF sdb[record] # "other" THEN m.seen ELSE memory["ad9510"], record + 1)
      /\ search.for = "isla216p" =>
           IslaRemembers(IF sdb[record] # "other" THEN m.seen ELSE memory["isla216p"], record + 1)
  BY <1>0, <1>1, SdbLooks
<1>4. /\ Cardinality(Passed(record)) \in Nat
      /\ Cardinality(Passed(record + 1)) =
           IF is THEN Cardinality(Passed(record)) + 1 ELSE Cardinality(Passed(record))
      /\ pos + Cardinality(Passed(record)) = search.at /\ pos \in Nat
  BY <1>1, <1>3, PassedNext DEF SdbInv, SdbTypes
<1> HIDE DEF is
<1>5. /\ DOMAIN memory' = Sdb!Chips
      /\ \A c \in Sdb!Chips : c # search.for => memory'[c] = {}
      /\ \A c \in Sdb!Chips : c = search.for =>
           memory'[c] = IF sdb[record] # "other" THEN m.seen ELSE memory[c]
  BY <1>1, <1>2 DEF SdbInv, SdbTypes
<1>6. CASE is /\ pos = 0
  <2>1. found' = record /\ record' = record /\ pos' = pos /\ found' \in Nat /\ found' > 0
    BY <1>1, <1>2, <1>6
  <2>2. found' # Sdb!Searching /\ found' # Sdb!NotFound
    BY <2>1 DEF Sdb!Searching, Sdb!NotFound
  <2>3. sdb[record] # "other"
    BY <1>6 DEF is
  <2>4. \A c \in Sdb!Chips : memory'[c] = {}
    BY <1>3, <1>5, <1>6, <2>3
  <2>5. SdbInv'
    BY <1>1, <1>5, <2>1, <2>2, <2>4 DEF SdbInv, SdbTypes
  <2>6. QED
    BY <1>3, <1>4, <1>6, <2>1, <2>2, <2>5
<1>7. CASE ~ (is /\ pos = 0)
  <2>1. found' = Sdb!Searching /\ record' = record + 1 /\ pos' = (IF is THEN pos - 1 ELSE pos)
    BY <1>1, <1>2, <1>7
  <2>2. SdbTypes'
    BY <1>1, <1>4, <1>5, <1>7, <2>1 DEF SdbInv, SdbTypes
  <2>3. Cardinality(Passed(record)') = Cardinality(Passed(record + 1))
    BY <1>1, <2>1 DEF Passed, Sdb!Meant, Sdb!SpisBetween
  <2>4. pos' + Cardinality(Passed(record)') = search.at
    BY <1>4, <1>7, <2>1, <2>3
  <2>5. search.for = "ad9510" => ClockRemembers(memory["ad9510"], record)'
    BY <1>1, <1>3, <1>5, <2>1, SdbStill DEF ClockRemembers, Sdb!Chips
  <2>6. search.for = "isla216p" => IslaRemembers(memory["isla216p"], record)'
    BY <1>1, <1>3, <1>5, <2>1, SdbStill DEF IslaRemembers, Sdb!Chips
  <2>7. SdbInv'
    BY <1>1, <1>5, <2>1, <2>2, <2>4, <2>5, <2>6 DEF SdbInv
  <2>8. QED
    BY <2>1, <2>7
<1>8. QED
  BY <1>6, <1>7

LEMMA SdbEnd ==
  ASSUME SdbInv, Sdb!End
  PROVE  SdbInv' /\ found' = Sdb!NotFound /\ Cardinality(Sdb!Meant(search.for)) <= search.at
<1>1. /\ found = Sdb!Searching /\ record = Len(sdb) + 1 /\ Len(sdb) \in Nat /\ sdb \in Boards
      /\ found' = Sdb!NotFound /\ UNCHANGED <<sdb, memory, search, record, pos>>
      /\ DOMAIN sdb = 1 .. Len(sdb) /\ found' # Sdb!Searching
  BY BoardTypes DEF Sdb!End, SdbInv, SdbTypes, Sdb!NotFound, Sdb!Searching
<1>2. Passed(record) = Sdb!Meant(search.for)
  BY <1>1, MeantRecords DEF Passed
<1>3. Cardinality(Sdb!Meant(search.for)) <= search.at
  <2>1. Passed(record) \in SUBSET (1 .. Len(sdb)) /\ IsFiniteSet(1 .. Len(sdb))
    BY <1>1, <1>2, MeantRecords, FS_Interval
  <2>2. Cardinality(Passed(record)) \in Nat
    BY <2>1, FS_Subset, FS_CardinalityType
  <2>3. QED
    BY <1>1, <1>2, <2>2 DEF SdbInv, SdbTypes
<1>4. search.for = "ad9510" => memory["ad9510"] = {}
  <2> SUFFICES ASSUME search.for = "ad9510",
                      NEW j \in 1 .. record - 1, sdb[j] = "fac", Sdb!SpisBetween(j, record) = {}
               PROVE  FALSE
    BY <1>1 DEF SdbInv, ClockRemembers
  <2>1. PICK p \in 1 .. Len(sdb) : j < p /\ sdb[p] = "spi"
    BY <1>1, BoardsAssumption
  <2>2. p \in Sdb!SpisBetween(j, record)
    BY <1>1, <2>1 DEF Sdb!SpisBetween
  <2>3. QED
    BY <2>2
<1>5. search.for = "isla216p" => memory["isla216p"] = {}
  <2> SUFFICES ASSUME search.for = "isla216p",
                      NEW j \in 1 .. record - 1, sdb[j] = "f250",
                      Cardinality(Sdb!SpisBetween(j, record)) \in 0 .. 2
               PROVE  FALSE
    BY <1>1 DEF SdbInv, IslaRemembers
  <2>1. record \in 1 .. Len(sdb) + 1 /\ ~ (Cardinality(Sdb!SpisBetween(j, record)) >= 3)
    BY <1>1
  <2>2. record \in 1 .. Len(sdb)
    BY <1>1, <2>1, IslaWaits
  <2>3. QED
    BY <1>1, <2>2
<1>6. \A c \in Sdb!Chips : memory[c] = {}
  BY <1>4, <1>5 DEF SdbInv, Sdb!Chips
<1>7. SdbInv'
  BY <1>1, <1>6 DEF SdbInv, SdbTypes
<1>8. QED
  BY <1>1, <1>3, <1>7

LEMMA SdbNext ==
  ASSUME SdbInv, [Sdb!Next]_Sdb!vars
  PROVE  SdbInv'
<1>1. CASE UNCHANGED Sdb!vars
  <2>1. UNCHANGED <<sdb, memory, search, record, pos, found>>
    BY <1>1 DEF Sdb!vars
  <2>2. Passed(record)' = Passed(record)
    BY <2>1 DEF Passed, Sdb!Meant, Sdb!SpisBetween
  <2>3. /\ ClockRemembers(memory["ad9510"], record)' <=> ClockRemembers(memory["ad9510"], record)
        /\ IslaRemembers(memory["isla216p"], record)' <=> IslaRemembers(memory["isla216p"], record)
    BY <2>1, SdbStill DEF ClockRemembers, IslaRemembers
  <2>4. SdbTypes'
    BY <2>1 DEF SdbInv, SdbTypes
  <2>5. QED
    BY <2>1, <2>2, <2>3, <2>4 DEF SdbInv
<1>2. QED
  BY <1>1, SdbBegin, SdbScan, SdbEnd DEF Sdb!Next

LEMMA SdbInit == Sdb!Init => SdbInv
<1> SUFFICES ASSUME Sdb!Init PROVE SdbInv
  OBVIOUS
<1>1. /\ sdb \in Boards /\ memory = [c \in Sdb!Chips |-> {}] /\ record = 1 /\ pos = 0
      /\ found # Sdb!Searching
  BY DEF Sdb!Init, Sdb!NotFound, Sdb!Searching
<1>2. search \in [for : Sdb!Cores \cup Sdb!Chips, at : Nat]
  BY DEF Sdb!Init, Sdb!Cores
<1>3. SdbTypes
  BY <1>1, <1>2, BoardTypes DEF SdbTypes
<1>4. QED
  BY <1>1, <1>3 DEF SdbInv

\* A search finds the core that its client means, at the position that was asked for,
\* whatever was searched for before and however that ended, on every board whose chips'
\* SPI cores come after the cores that they are found by.
THEOREM SearchesRight == Sdb!Spec => SearchRight
<1>1. ASSUME SdbInv, [Sdb!Next]_Sdb!vars
      PROVE  [found = Sdb!Searching /\ found' # Sdb!Searching =>
                IF found' = Sdb!NotFound
                  THEN Sdb!Cardinality(Sdb!Meant(search.for)) <= search.at
                  ELSE /\ found' \in Sdb!Meant(search.for)
                       /\ Sdb!Cardinality({k \in Sdb!Meant(search.for) : k < found'})
                            = search.at]_Sdb!vars
  <2> SUFFICES ASSUME Sdb!Next, found = Sdb!Searching, found' # Sdb!Searching
               PROVE  IF found' = Sdb!NotFound
                        THEN Cardinality(Sdb!Meant(search.for)) <= search.at
                        ELSE /\ found' \in Sdb!Meant(search.for)
                             /\ Cardinality(Passed(found')) = search.at
    BY <1>1, SameCardinality DEF Passed
  <2>1. Sdb!Scan \/ Sdb!End
    BY DEF Sdb!Next, Sdb!Begin
  <2>2. QED
    BY <1>1, <2>1, SdbScan, SdbEnd
<1>2. QED
  BY <1>1, SdbInit, SdbNext, PTL DEF Sdb!Spec, SearchRight, Sdb!SearchRight
-----------------------------------------------------------------------------
(* The oscillator's controller.                                            *)

-----------------------------------------------------------------------------
(* The inductive invariant.                                                *)

\* The commands in the controller's registers are those of the call it is in, from the
\* check to the write, and none at any other time.
OscCtl ==
  /\ pc \in {"startup_check", "startup_write"} => ctl = {"read_startup"}
  /\ pc \in {"apply_check", "apply_write"} => ctl = {"apply"}
  /\ pc \notin {"startup_check", "startup_write", "apply_check", "apply_write"} => ctl = {}

\* No write begins while the core executes a command.
OscBusy ==
  pc \in {"params_write", "startup_write", "config_write", "apply_write"} => job = "none"

\* From apply_config's first write on, the core has the controller's configuration.
OscConfig ==
  pc \in {"apply_check", "apply_write", "apply_poll"} => cfg = shadow

OscInv == TypeOK /\ OscCtl /\ OscBusy /\ OscConfig

-----------------------------------------------------------------------------
\* The program counters of write_params, one pair for each of its callers.
LEMMA CallersFacts ==
  /\ Callers = {"params", "startup", "config", "apply"}
  /\ Check["params"] = "params_check" /\ Write["params"] = "params_write"
  /\ Check["startup"] = "startup_check" /\ Write["startup"] = "startup_write"
  /\ Check["config"] = "config_check" /\ Write["config"] = "config_write"
  /\ Check["apply"] = "apply_check" /\ Write["apply"] = "apply_write"
BY DEF Callers, Check, Write

LEMMA PCsFacts ==
  PCs = {"new", "idle", "startup_poll", "startup_calc", "apply_poll",
         "params_check", "startup_check", "config_check", "apply_check",
         "params_write", "startup_write", "config_write", "apply_write"}
BY CallersFacts DEF PCs

LEMMA OscInit == Init => OscInv
<1> SUFFICES ASSUME Init PROVE OscInv
  OBVIOUS
<1>1. data \in [busy : BOOLEAN, valid : BOOLEAN, sync : BOOLEAN]
  BY DEF Init
<1>2. valid \in BOOLEAN /\ fxtal \in BOOLEAN /\ fstartup \in BOOLEAN
  BY DEF Init
<1>3. tries \in 0 .. Attempts
  BY Si57xAssumption DEF Init
<1>4. TypeOK
  BY <1>1, <1>2, <1>3, Si57xAssumption, PCsFacts DEF Init, TypeOK, Jobs
<1>5. QED
  BY <1>4 DEF Init, OscInv, OscCtl, OscBusy, OscConfig

\* The type of the status that a step decodes.
LEMMA StatusType ==
  valid \in BOOLEAN => Status \in [busy : BOOLEAN, valid : BOOLEAN, sync : BOOLEAN]
BY DEF Status

-----------------------------------------------------------------------------
(* Each step keeps the invariant.                                          *)

LEMMA OscFinish == OscInv /\ Finish => OscInv'
<1> SUFFICES ASSUME OscInv, Finish PROVE OscInv'
  OBVIOUS
<1>1. TypeOK'
  BY DEF Finish, OscInv, TypeOK, Jobs
<1>2. OscCtl' /\ OscBusy' /\ OscConfig'
  BY DEF Finish, OscInv, OscCtl, OscBusy, OscConfig
<1>3. QED
  BY <1>1, <1>2 DEF OscInv

LEMMA OscCall ==
  ASSUME OscInv, SetDevinfo \/ SetFreq \/ ReadStartupRegs \/ ApplyConfig \/ CallWriteParams \/ Calc
  PROVE  OscInv'
<1>1. CASE SetDevinfo
  BY <1>1, PCsFacts, StatusType
  DEF SetDevinfo, GetData, Goto, core, OscInv, TypeOK, OscCtl, OscBusy, OscConfig
<1>2. CASE SetFreq
  BY <1>2, PCsFacts DEF SetFreq, Goto, Returns, core, OscInv, TypeOK, OscCtl, OscBusy, OscConfig
<1>3. CASE ReadStartupRegs
  BY <1>3, PCsFacts
  DEF ReadStartupRegs, Goto, Returns, core, OscInv, TypeOK, OscCtl, OscBusy, OscConfig, Jobs
<1>4. CASE ApplyConfig
  BY <1>4, PCsFacts DEF ApplyConfig, Goto, core, OscInv, TypeOK, OscCtl, OscBusy, OscConfig
<1>5. CASE CallWriteParams
  BY <1>5, PCsFacts DEF CallWriteParams, Goto, core, OscInv, TypeOK, OscCtl, OscBusy, OscConfig
<1>6. CASE Calc
  BY <1>6, PCsFacts DEF Calc, Goto, Returns, core, OscInv, TypeOK, OscCtl, OscBusy, OscConfig
<1>7. QED
  BY <1>1, <1>2, <1>3, <1>4, <1>5, <1>6

\* A check that finds the core idle leaves it so: nothing but a write starts a command.
LEMMA OscCheck == ASSUME OscInv, NEW c \in Callers, CheckBusy(c) PROVE OscInv'
<1> USE CallersFacts, PCsFacts
<1>1. data'.busy <=> job # "none"
  BY DEF CheckBusy, GetData, Status
<1>2. TypeOK'
  BY StatusType DEF CheckBusy, GetData, Goto, Returns, core, OscInv, TypeOK
<1>3. OscCtl' /\ OscBusy' /\ OscConfig'
  BY <1>1 DEF CheckBusy, Goto, Returns, core, OscInv, OscCtl, OscBusy, OscConfig
<1>4. QED
  BY <1>2, <1>3 DEF OscInv

LEMMA OscWrite == ASSUME OscInv, NEW c \in Callers, WriteRegs(c) PROVE OscInv'
<1> USE CallersFacts, PCsFacts
<1>1. TypeOK'
  <2>1. valid' \in BOOLEAN
    BY DEF WriteRegs, CoreTakes, OscInv, TypeOK
  <2>2. /\ cfg' \in Configs /\ loaded' \in Configs \cup {Startup}
        /\ job' \in Jobs \cup {"none"} /\ ctl' \subseteq Jobs
    BY DEF WriteRegs, CoreTakes, OscInv, TypeOK, Jobs
  <2>3. pc' \in PCs /\ result' \in {"none", "void", "threw", "true", "false"}
    BY DEF WriteRegs, Goto, Returns, OscInv, TypeOK
  <2>4. tries' \in 0 .. Attempts
    BY Si57xAssumption DEF WriteRegs
  <2>5. UNCHANGED <<shadow, data, fstartup, fxtal>>
    BY DEF WriteRegs
  <2>6. QED
    BY <2>1, <2>2, <2>3, <2>4, <2>5 DEF OscInv, TypeOK
<1>2. OscCtl' /\ OscBusy' /\ OscConfig'
  BY DEF WriteRegs, CoreTakes, Goto, Returns, OscInv, OscCtl, OscBusy, OscConfig
<1>3. QED
  BY <1>1, <1>2 DEF OscInv

LEMMA OscPoll == ASSUME OscInv, PollStartup \/ PollApply PROVE OscInv'
<1> USE PCsFacts
<1>1. tries' \in 0 .. Attempts
  BY Si57xAssumption DEF PollStartup, PollApply, Poll, PollEnds, OscInv, TypeOK
<1>2. TypeOK'
  BY <1>1, StatusType DEF PollStartup, PollApply, Poll, GetData, Goto, Returns, core, OscInv, TypeOK
<1>3. OscCtl' /\ OscBusy' /\ OscConfig'
  BY DEF PollStartup, PollApply, Poll, Goto, Returns, core, OscInv, OscCtl, OscBusy, OscConfig
<1>4. QED
  BY <1>2, <1>3 DEF OscInv

LEMMA OscNext == OscInv /\ [Next]_vars => OscInv'
<1> SUFFICES ASSUME OscInv, [Next]_vars PROVE OscInv'
  OBVIOUS
<1>1. CASE Finish
  BY <1>1, OscFinish
<1>2. CASE SetDevinfo \/ SetFreq \/ ReadStartupRegs \/ ApplyConfig \/ CallWriteParams \/ Calc
  BY <1>2, OscCall
<1>3. ASSUME NEW c \in Callers, CheckBusy(c) \/ WriteRegs(c) PROVE OscInv'
  BY <1>3, OscCheck, OscWrite
<1>4. CASE PollStartup \/ PollApply
  BY <1>4, OscPoll
<1>5. CASE UNCHANGED vars
  BY <1>5 DEF vars, OscInv, TypeOK, OscCtl, OscBusy, OscConfig
<1>6. QED
  BY <1>1, <1>2, <1>3, <1>4, <1>5 DEF Next, Controller

\* The oscillator's invariant holds in every reachable state.
THEOREM OscInvariance == Spec => []OscInv
BY OscInit, OscNext, PTL DEF Spec

-----------------------------------------------------------------------------
(* The theorems.                                                           *)

\* The state of the controller and of its core keeps its types; above all, still_busy
\* polls at most busy_wait_attempts times.
THEOREM OscillatorTypes == Spec => []TypeOK
<1>1. OscInv => TypeOK
  BY DEF OscInv
<1>2. QED
  BY <1>1, OscInvariance, PTL

\* write_params checks that the core is not busy and writes later: in between, nothing
\* makes the core busy, so that it is never written while it executes a command.
THEOREM WritesWhenIdle == Spec => []NotWrittenWhileBusy
<1>1. OscInv => NotWrittenWhileBusy
  BY CallersFacts DEF OscInv, OscBusy, NotWrittenWhileBusy
<1>2. QED
  BY <1>1, OscInvariance, PTL

\* Each write gives the core the command that its call asked for and no other, whatever
\* calls were refused before it.
THEOREM OnlyAskedCommands == Spec => []CommandsAsked
<1>1. OscInv => CommandsAsked
  BY CallersFacts DEF OscInv, OscCtl, CommandsAsked
<1>2. QED
  BY <1>1, OscInvariance, PTL

\* When apply_config returns true, the oscillator runs the controller's configuration.
THEOREM TrueIsApplied == Spec => AppliedWhenTrue
<1> DEFINE Applied == pc = "apply_poll" /\ pc' = "idle" /\ result' = "true" =>
                        loaded' = shadow' /\ job' = "none"
<1>1. OscInv /\ [Next]_vars => [Applied]_vars
  <2> SUFFICES ASSUME OscInv, Next, pc = "apply_poll", pc' = "idle", result' = "true"
      PROVE  loaded' = shadow' /\ job' = "none"
    OBVIOUS
  <2>1. PollApply
    BY CallersFacts DEF Next, Controller, Finish, SetDevinfo, SetFreq, ReadStartupRegs,
         ApplyConfig, CallWriteParams, CheckBusy, WriteRegs, PollStartup, Poll, Calc
  <2>2. PollEnds /\ ApplyDone(data'.busy)
    BY <2>1 DEF PollApply, Poll, Returns, OscInv, TypeOK
  <2>3. job = "none" /\ cfg = loaded
    BY <2>1, <2>2 DEF PollApply, Poll, GetData, Status, ApplyDone
  <2>4. cfg = shadow /\ UNCHANGED <<job, loaded, shadow>>
    BY <2>1 DEF PollApply, Poll, core, OscInv, OscConfig
  <2>5. QED
    BY <2>3, <2>4
<1>2. QED
  BY <1>1, OscInvariance, PTL DEF Spec, AppliedWhenTrue

-----------------------------------------------------------------------------
(* The search for the oscillator's dividers.                               *)

\* Rounding is off by a half of b at most.
LEMMA RoundsToNearest ==
  ASSUME NEW a \in Nat, NEW b \in Nat \ {0}
  PROVE  /\ Search!RoundToEven(a, b) \in Nat
         /\ 2 * Search!AbsDiff(a, Search!RoundToEven(a, b) * b) <= b
<1>1. PICK q \in Nat, r \in Nat : q = a \div b /\ r = a % b /\ r < b /\ a = b*q + r
  <2>1. a \div b \in Nat /\ a % b \in Nat /\ a % b < b /\ a = b * (a \div b) + (a % b)
    OBVIOUS
  <2>2. QED
    BY <2>1, Zenon
<1>2. PICK z \in Nat : z = Search!RoundToEven(a, b)
        /\ ((z = q /\ 2*r <= b) \/ (z = q + 1 /\ b <= 2*r))
  <2> DEFINE Even == q % 2 = 0
  <2>1. Search!RoundToEven(a, b) = IF 2*r < b \/ (2*r = b /\ Even) THEN q ELSE q + 1
    BY <1>1, Zenon DEF Search!RoundToEven
  <2> HIDE DEF Even
  <2>2. QED
    BY <2>1
<1>3. PICK p \in Nat : p = b*q
  OBVIOUS
<1>4. a = p + r
  BY <1>1, <1>3
<1>5. CASE z = q /\ 2*r <= b
  <2>1. z * b = p
    BY <1>3, <1>5
  <2>2. Search!AbsDiff(a, p) = r
    BY <1>4 DEF Search!AbsDiff
  <2>3. QED
    BY <1>2, <1>5, <2>1, <2>2
<1>6. CASE z = q + 1 /\ b <= 2*r
  <2>1. z * b = p + b
    <3>1. (q + 1) * b = b*q + b
      OBVIOUS
    <3>2. QED
      BY <1>3, <1>6, <3>1
  <2>2. Search!AbsDiff(a, p + b) = b - r
    BY <1>1, <1>4 DEF Search!AbsDiff
  <2>3. 2 * (b - r) <= b
    BY <1>6
  <2>4. QED
    BY <1>2, <2>1, <2>2, <2>3
<1>7. QED
  BY <1>2, <1>5, <1>6

LEMMA ProductLeq ==
  ASSUME NEW a \in Nat, NEW b \in Nat, NEW c \in Nat, a <= b
  PROVE  a*c <= b*c
<1>1. PICK d \in Nat : b = a + d
  <2>1. b - a \in Nat /\ b = a + (b - a)
    OBVIOUS
  <2>2. QED
    BY <2>1
<1>2. (a + d)*c = a*c + d*c /\ d*c \in Nat /\ a*c \in Nat
  OBVIOUS
<1>3. QED
  BY <1>1, <1>2

LEMMA ProductCancels ==
  ASSUME NEW a \in Nat, NEW b \in Nat, NEW c \in Nat \ {0}, a*c <= b*c
  PROVE  a <= b
<1>1. SUFFICES ASSUME b + 1 <= a PROVE FALSE
  OBVIOUS
<1>2. (b + 1)*c <= a*c
  BY <1>1, ProductLeq
<1>3. (b + 1)*c = b*c + c /\ b*c \in Nat /\ a*c \in Nat
  OBVIOUS
<1>4. QED
  BY <1>2, <1>3

\* Fractions are ordered: x/f <= y/g and y/g <= z/h give x/f <= z/h.
LEMMA FractionsOrdered ==
  ASSUME NEW x \in Nat, NEW y \in Nat, NEW z \in Nat,
         NEW f \in Nat \ {0}, NEW g \in Nat \ {0}, NEW h \in Nat \ {0},
         x*g <= y*f, y*h <= z*g
  PROVE  x*h <= z*f
<1>1. x*g*h <= y*f*h
  <2>1. x*g \in Nat /\ y*f \in Nat
    OBVIOUS
  <2>2. QED
    BY <2>1, ProductLeq
<1>2. y*h*f <= z*g*f
  <2>1. y*h \in Nat /\ z*g \in Nat
    OBVIOUS
  <2>2. QED
    BY <2>1, ProductLeq
<1>3. x*g*h = (x*h)*g /\ y*f*h = y*h*f /\ z*g*f = (z*f)*g
  OBVIOUS
<1>4. (x*h)*g <= (z*f)*g
  <2>1. x*g*h \in Nat /\ y*f*h \in Nat /\ z*g*f \in Nat
    OBVIOUS
  <2>2. QED
    BY <1>1, <1>2, <1>3, <2>1
<1>5. x*h \in Nat /\ z*f \in Nat
  OBVIOUS
<1>6. QED
  BY <1>4, <1>5, ProductCancels

\* The next N1 follows at a distance of N1Step.
LEMMA NextIsN1 ==
  ASSUME NEW n \in Search!N1s
  PROVE  /\ n \in Nat \ {0} /\ N1Min <= n /\ n <= N1Max
         /\ n + N1Step <= N1Max => n + N1Step \in Search!N1s
         /\ N1Min \in Search!N1s
         /\ \A m \in Search!N1s : m < n + N1Step => m <= n
<1>1. N1Min \in Nat \ {0} /\ N1Max \in Nat /\ N1Min <= N1Max /\ N1Step \in Nat \ {0}
  BY DividersAssumption
<1>2. n \in N1Min .. N1Max /\ (n - N1Min) % N1Step = 0
  BY DEF Search!N1s
<1>3. n \in Nat \ {0} /\ N1Min <= n /\ n <= N1Max
  BY <1>1, <1>2
<1>4. PICK s \in Nat \ {0}, a \in Nat : s = N1Step /\ a = N1Min
  BY <1>1
<1>5. \A m \in Search!N1s : \E k \in Nat : m = a + s*k
  <2> SUFFICES ASSUME NEW m \in Search!N1s PROVE \E k \in Nat : m = a + s*k
    OBVIOUS
  <2>1. m \in N1Min .. N1Max /\ (m - N1Min) % N1Step = 0
    BY DEF Search!N1s
  <2>2. PICK d \in Nat : d = m - a /\ d % s = 0 /\ m = a + d
    BY <1>1, <1>4, <2>1
  <2>3. d = s * (d \div s) + 0 /\ d \div s \in Nat
    BY <2>2
  <2>4. PICK j \in Nat : j = d \div s
    BY <2>3
  <2>5. d = s*j
    BY <2>3, <2>4
  <2>6. m = a + s*j
    BY <2>2, <2>5
  <2>7. QED
    BY <2>6, Zenon
<1>6. PICK k \in Nat : n = a + s*k
  BY <1>5
<1>7. \A m \in Search!N1s : m < n + N1Step => m <= n
  <2> SUFFICES ASSUME NEW m \in Search!N1s, m < n + s PROVE m <= n
    BY <1>4
  <2>1. PICK j \in Nat : m = a + s*j
    BY <1>5
  <2>2. s*j < s*k + s /\ s*k + s = s*(k + 1)
    BY <1>6, <2>1
  <2>3. j <= k
    <3>1. SUFFICES ASSUME k + 1 <= j PROVE FALSE
      OBVIOUS
    <3>2. (k + 1)*s <= j*s
      BY <3>1, ProductLeq
    <3>3. (k + 1)*s = s*(k + 1) /\ j*s = s*j
      OBVIOUS
    <3>4. QED
      BY <2>2, <3>2, <3>3
  <2>4. j*s <= k*s
    BY <2>3, ProductLeq
  <2>5. QED
    BY <1>6, <2>1, <2>4
<1>8. n + N1Step <= N1Max => n + N1Step \in Search!N1s
  <2> SUFFICES ASSUME n + N1Step <= N1Max PROVE n + N1Step \in Search!N1s
    OBVIOUS
  <2>1. PICK y \in Int : y = n + N1Step
    BY <1>1, <1>3
  <2>2. PICK d \in Int : d = y - N1Min
    BY <1>1
  <2>3. d = s*(k + 1)
    BY <1>4, <1>6, <2>1, <2>2
  <2>4. d % s = 0
    BY <2>3
  <2>5. (y - N1Min) % N1Step = 0
    BY <1>4, <2>2, <2>4, Zenon
  <2>6. y \in N1Min .. N1Max
    BY <1>1, <1>3, <2>1
  <2>7. y \in Search!N1s
    BY <2>5, <2>6, Zenon DEF Search!N1s
  <2>8. QED
    BY <2>1, <2>7, Zenon
<1>9. N1Min \in Search!N1s
  <2>1. N1Min - N1Min = 0 /\ 0 % N1Step = 0 /\ N1Min \in N1Min .. N1Max
    BY <1>1
  <2>2. QED
    BY <2>1 DEF Search!N1s
<1>10. QED
  BY <1>3, <1>7, <1>8, <1>9

\* The search has tried the pair of the option number j and n.
Tried(j, n) == j < hs \/ (j = hs /\ n < n1)

\* A pair of dividers is no closer to the frequency than the best one so far, of which
\* there is one if the pair brings the oscillator into its range.
NoCloser(h, n) ==
  Search!InRange(Search!Rfreq(h, n)) =>
    /\ best.set
    /\ Search!ErrorOver(best.h, best.n) * h * n <= Search!ErrorOver(h, n) * best.h * best.n

SearchTypes ==
  /\ freq \in Nat /\ xtal \in Nat \ {0} /\ done \in BOOLEAN
  /\ n1 \in Search!N1s
  /\ hs \in 1 .. Len(HsDivOpts) + 1 /\ (~ done => hs <= Len(HsDivOpts))
  /\ done => hs = Len(HsDivOpts) + 1
  /\ best.set \in BOOLEAN

SearchBest ==
  best.set => /\ best.h \in Nat \ {0} /\ best.n \in Nat \ {0}
              /\ best.h \in Search!Hs /\ best.n \in Search!N1s
              /\ best.rfreq = Search!Rfreq(best.h, best.n)
              /\ Search!InRange(best.rfreq)

SearchAll ==
  \A j \in DOMAIN HsDivOpts, n \in Search!N1s : Tried(j, n) => NoCloser(HsDivOpts[j], n)

SearchInv == SearchTypes /\ SearchBest /\ SearchAll

\* The number of units and the error are natural numbers, the latter half a crystal at most.
LEMMA ErrorIsSmall ==
  ASSUME SearchTypes, NEW h \in Nat \ {0}, NEW n \in Nat \ {0}
  PROVE  /\ Search!Rfreq(h, n) \in Nat
         /\ Search!ErrorOver(h, n) \in Nat
         /\ 2 * Search!AbsDiff(freq * RfreqFactor * h * n, Search!Rfreq(h, n) * xtal) <= xtal
<1>1. PICK a \in Nat : a = freq * h * n * RfreqFactor /\ a = freq * RfreqFactor * h * n
  BY DividersAssumption DEF SearchTypes
<1>2. PICK b \in Nat \ {0} : b = xtal
  BY DEF SearchTypes
<1>3. PICK z \in Nat : z = Search!Rfreq(h, n) /\ z = Search!RoundToEven(a, b)
  BY <1>1, <1>2, RoundsToNearest DEF Search!Rfreq
<1>4. 2 * Search!AbsDiff(a, z * b) <= b
  BY <1>3, RoundsToNearest
<1>5. Search!AbsDiff(a, z * b) \in Nat
  BY DEF Search!AbsDiff
<1>6. QED
  BY <1>1, <1>2, <1>3, <1>4, <1>5, Zenon DEF Search!ErrorOver

LEMMA SearchStarts == Search!Init => SearchInv
<1> SUFFICES ASSUME Search!Init PROVE SearchInv
  OBVIOUS
<1>1. Len(HsDivOpts) \in Nat \ {0} /\ DOMAIN HsDivOpts = 1 .. Len(HsDivOpts)
  BY DividersAssumption
<1>2. N1Min \in Search!N1s
  <2>1. N1Min - N1Min = 0 /\ 0 % N1Step = 0 /\ N1Min \in N1Min .. N1Max
    BY DividersAssumption
  <2>2. QED
    BY <2>1 DEF Search!N1s
<1>3. SearchTypes
  <2>1. freq \in Nat /\ xtal \in Nat \ {0}
    BY DividersAssumption DEF Search!Init
  <2>2. 1 \in 1 .. Len(HsDivOpts) + 1 /\ 1 <= Len(HsDivOpts)
    BY <1>1
  <2>3. hs = 1 /\ n1 = N1Min /\ done = FALSE /\ best.set = FALSE
    BY DEF Search!Init, Search!NoneBest
  <2>4. QED
    BY <1>2, <2>1, <2>2, <2>3 DEF SearchTypes
<1>4. SearchBest
  BY DEF SearchBest, Search!Init, Search!NoneBest
<1>5. SearchAll
  <2> SUFFICES ASSUME NEW j \in DOMAIN HsDivOpts, NEW n \in Search!N1s PROVE ~ Tried(j, n)
    BY DEF SearchAll
  <2>1. n \in Nat /\ N1Min <= n /\ j \in Nat /\ 1 <= j /\ N1Min \in Nat
    BY <1>1, NextIsN1, DividersAssumption
  <2>2. hs = 1 /\ n1 = N1Min
    BY DEF Search!Init
  <2>3. QED
    BY <2>1, <2>2 DEF Tried
<1>6. QED
  BY <1>3, <1>4, <1>5 DEF SearchInv

\* A step moves the search on by one pair of options.
LEMMA SearchAdvances ==
  ASSUME SearchInv, Search!Try
  PROVE  /\ SearchTypes'
         /\ \A j \in DOMAIN HsDivOpts, n \in Search!N1s :
              Tried(j, n)' => Tried(j, n) \/ (j = hs /\ n = n1)
<1>1. PICK L \in Nat \ {0} : L = Len(HsDivOpts) /\ DOMAIN HsDivOpts = 1 .. L
  BY DividersAssumption
<1>2. /\ n1 \in Nat \ {0} /\ n1 <= N1Max /\ N1Min \in Search!N1s
      /\ n1 + N1Step <= N1Max => n1 + N1Step \in Search!N1s
      /\ \A m \in Search!N1s : m < n1 + N1Step => m <= n1
  BY NextIsN1 DEF SearchInv, SearchTypes
<1>3. hs \in 1 .. L /\ ~ done
  BY <1>1 DEF SearchInv, SearchTypes, Search!Try
<1>4. N1Step \in Nat \ {0} /\ N1Max \in Nat /\ N1Min \in Nat
  BY DividersAssumption
<1>5. best'.set \in BOOLEAN
  BY DEF SearchInv, SearchTypes, Search!Try
<1>6. CASE Search!NextN1
  <2>1. n1' = n1 + N1Step /\ hs' = hs /\ done' = done /\ n1' \in Search!N1s
    BY <1>2, <1>6 DEF Search!Try, Search!Advance, Search!NextN1
  <2>2. SearchTypes'
    BY <1>1, <1>3, <1>5, <2>1 DEF SearchInv, SearchTypes, Search!Try
  <2>3. ASSUME NEW j \in DOMAIN HsDivOpts, NEW n \in Search!N1s, Tried(j, n)'
        PROVE  Tried(j, n) \/ (j = hs /\ n = n1)
    <3>1. j < hs \/ (j = hs /\ n < n1 + N1Step)
      BY <2>1, <2>3 DEF Tried
    <3>2. n \in Nat /\ (n < n1 + N1Step => n <= n1)
      BY <1>2, NextIsN1
    <3>3. QED
      BY <1>2, <3>1, <3>2 DEF Tried
  <2>4. QED
    BY <2>2, <2>3
<1>7. CASE ~ Search!NextN1
  <2>1. n1' = N1Min /\ hs' = hs + 1 /\ done' \in BOOLEAN /\ (done' <=> hs = L)
    BY <1>1, <1>7 DEF Search!Try, Search!Advance
  <2>2. SearchTypes'
    <3>1. freq' \in Nat /\ xtal' \in Nat \ {0}
      BY DEF SearchInv, SearchTypes, Search!Try
    <3>2. hs' \in 1 .. L + 1 /\ (~ done' => hs' <= L) /\ (done' => hs' = L + 1)
      BY <1>3, <2>1
    <3>3. QED
      BY <1>1, <1>2, <1>5, <2>1, <3>1, <3>2, Zenon DEF SearchTypes
  <2>3. ASSUME NEW j \in DOMAIN HsDivOpts, NEW n \in Search!N1s, Tried(j, n)'
        PROVE  Tried(j, n) \/ (j = hs /\ n = n1)
    <3>1. j < hs + 1 \/ (j = hs + 1 /\ n < N1Min)
      BY <2>1, <2>3 DEF Tried
    <3>2. n \in Nat /\ N1Min <= n /\ n <= N1Max /\ (n < n1 + N1Step => n <= n1)
      BY <1>2, NextIsN1
    <3>3. N1Max < n1 + N1Step
      BY <1>2, <1>4, <1>7 DEF Search!NextN1
    <3>4. j \in 1 .. L
      BY <1>1
    <3>5. QED
      BY <1>2, <1>3, <1>4, <3>1, <3>2, <3>3, <3>4 DEF Tried
  <2>4. QED
    BY <2>2, <2>3
<1>8. QED
  BY <1>6, <1>7

\* The frequency and the crystal do not change, nor what is computed of them.
LEMMA SearchSame ==
  ASSUME Search!Try
  PROVE  \A h, n : /\ Search!Rfreq(h, n)' = Search!Rfreq(h, n)
                   /\ Search!ErrorOver(h, n)' = Search!ErrorOver(h, n)
                   /\ Search!InRange(Search!Rfreq(h, n))' = Search!InRange(Search!Rfreq(h, n))
<1>1. freq' = freq /\ xtal' = xtal
  BY DEF Search!Try
<1>2. QED
  BY <1>1 DEF Search!Rfreq, Search!ErrorOver, Search!InRange

LEMMA SearchPreserved ==
  ASSUME SearchInv, [Search!Try]_Search!vars
  PROVE  SearchInv'
<1>1. CASE UNCHANGED Search!vars
  <2>1. freq' = freq /\ xtal' = xtal /\ hs' = hs /\ n1' = n1 /\ best' = best /\ done' = done
    BY <1>1 DEF Search!vars
  <2>2. SearchTypes' /\ SearchBest'
    BY <2>1 DEF SearchInv, SearchTypes, SearchBest, Search!Rfreq, Search!InRange
  <2>3. SearchAll'
    BY <2>1 DEF SearchInv, SearchAll, Tried, NoCloser, Search!Rfreq, Search!InRange,
       Search!ErrorOver
  <2>4. QED
    BY <2>2, <2>3 DEF SearchInv
<1>2. CASE Search!Try
  <2>1. SearchTypes' /\ SearchTypes
    BY <1>2, SearchAdvances DEF SearchInv
  <2>2. PICK h \in Nat \ {0}, n \in Nat \ {0} : /\ h = HsDivOpts[hs] /\ n = n1
                                               /\ h \in Search!Hs /\ n \in Search!N1s
    <3>1. hs \in 1 .. Len(HsDivOpts)
      BY <1>2, <2>1 DEF SearchTypes, Search!Try
    <3>2. HsDivOpts[hs] \in Nat \ {0}
      BY <3>1, DividersAssumption
    <3>3. n1 \in Nat \ {0}
      BY <2>1, NextIsN1 DEF SearchTypes
    <3>4. HsDivOpts[hs] \in Search!Hs /\ n1 \in Search!N1s
      BY <2>1, <3>1, DividersAssumption DEF Search!Hs, SearchTypes
    <3>5. QED
      BY <3>2, <3>3, <3>4
  <2> DEFINE Better == /\ Search!InRange(Search!Rfreq(h, n))
                       /\ best.set => Search!Closer(h, n, best)
             New == [set |-> TRUE, h |-> h, n |-> n, rfreq |-> Search!Rfreq(h, n)]
  <2>3. best' = IF Better THEN New ELSE best
    BY <1>2, <2>2 DEF Search!Try
  <2>4. SearchBest'
    <3>1. CASE Better
      BY <1>2, <2>2, <2>3, <3>1, SearchSame DEF SearchBest
    <3>2. CASE ~ Better
      <4>1. best' = best
        BY <2>3, <3>2
      <4>2. QED
        BY <1>2, <4>1, SearchSame DEF SearchInv, SearchBest
    <3>3. QED
      BY <3>1, <3>2
  <2>5. ASSUME NEW j \in DOMAIN HsDivOpts, NEW m \in Search!N1s, Tried(j, m)'
        PROVE  NoCloser(HsDivOpts[j], m)'
    <3>1. PICK g \in Nat \ {0} : g = HsDivOpts[j]
      BY DividersAssumption
    <3>2. m \in Nat \ {0}
      BY NextIsN1
    <3>3. PICK e \in Nat, f \in Nat : e = Search!ErrorOver(h, n) /\ f = Search!ErrorOver(g, m)
      BY <2>1, <3>2, ErrorIsSmall
    <3>4. CASE Tried(j, m)
      <4>1. NoCloser(g, m)
        BY <2>5, <3>1, <3>4 DEF SearchInv, SearchAll
      <4>2. CASE ~ Better
        BY <1>2, <2>3, <3>1, <4>1, <4>2, SearchSame DEF NoCloser
      <4>3. CASE Better /\ ~ best.set
        BY <1>2, <3>1, <4>1, <4>3, SearchSame DEF NoCloser
      <4>4. CASE Better /\ best.set
        <5>1. PICK b \in Nat \ {0}, c \in Nat \ {0}, d \in Nat :
                b = best.h /\ c = best.n /\ d = Search!ErrorOver(b, c)
          BY <2>1, <4>4, ErrorIsSmall DEF SearchInv, SearchBest
        <5>2. e * b * c < d * h * n
          BY <3>3, <4>4, <5>1 DEF Search!Closer
        <5> SUFFICES ASSUME Search!InRange(Search!Rfreq(g, m))
                     PROVE  e * g * m <= f * h * n
          BY <1>2, <2>3, <3>1, <3>3, <4>4, SearchSame DEF NoCloser
        <5>3. d * g * m <= f * b * c
          BY <3>3, <4>1, <5>1 DEF NoCloser
        <5>4. PICK x \in Nat \ {0}, y \in Nat \ {0}, z \in Nat \ {0} :
                x = h * n /\ y = b * c /\ z = g * m
          <6>1. h * n \in Nat \ {0} /\ b * c \in Nat \ {0} /\ g * m \in Nat \ {0}
            BY <3>2
          <6>2. QED
            BY <6>1, Zenon
        <5>5. e * y <= d * x /\ d * z <= f * y
          <6>1. e * b * c = e * y /\ d * h * n = d * x /\ d * g * m = d * z /\ f * b * c = f * y
            BY <3>2, <5>4
          <6>2. e * y \in Nat /\ d * x \in Nat
            OBVIOUS
          <6>3. QED
            BY <5>2, <5>3, <6>1, <6>2
        <5>6. e * z <= f * x
          BY <5>5, FractionsOrdered
        <5>7. e * g * m = e * z /\ f * h * n = f * x
          BY <3>2, <5>4
        <5>8. QED
          BY <5>6, <5>7
      <4>5. QED
        BY <4>2, <4>3, <4>4
    <3>5. CASE j = hs /\ m = n1
      <4>1. g = h /\ m = n
        BY <2>2, <3>1, <3>5
      <4>2. CASE Better
        <5>1. e * h * n <= e * h * n
          OBVIOUS
        <5>2. QED
          BY <1>2, <2>3, <3>1, <3>3, <4>1, <4>2, <5>1, SearchSame DEF NoCloser
      <4>3. CASE ~ Better
        <5> SUFFICES ASSUME Search!InRange(Search!Rfreq(h, n))
                     PROVE  /\ best.set
                            /\ Search!ErrorOver(best.h, best.n) * h * n <= e * best.h * best.n
          BY <1>2, <2>3, <3>1, <3>3, <4>1, <4>3, SearchSame DEF NoCloser
        <5>1. best.set /\ ~ Search!Closer(h, n, best)
          BY <4>3
        <5>2. PICK b \in Nat \ {0}, c \in Nat \ {0}, d \in Nat :
                b = best.h /\ c = best.n /\ d = Search!ErrorOver(b, c)
          BY <2>1, <5>1, ErrorIsSmall DEF SearchInv, SearchBest
        <5>3. ~ (e * b * c < d * h * n)
          BY <3>3, <5>1, <5>2 DEF Search!Closer
        <5>4. e * b * c \in Nat /\ d * h * n \in Nat
          OBVIOUS
        <5>5. d * h * n <= e * b * c
          BY <5>3, <5>4
        <5>6. QED
          BY <5>1, <5>2, <5>5
      <4>4. QED
        BY <4>2, <4>3
    <3>6. QED
      BY <1>2, <2>5, <3>4, <3>5, SearchAdvances
  <2>6. QED
    BY <2>1, <2>4, <2>5 DEF SearchInv, SearchAll
<1>3. QED
  BY <1>1, <1>2

\* For any options of the dividers and any crystal, set_freq finds the pair that comes
\* closest to the frequency of those that its loops try, and fails only when none of them
\* is in range.
THEOREM FindsBest == Search!Spec => []BestOfTried
<1>1. ASSUME SearchInv PROVE BestOfTried
  <2> SUFFICES ASSUME done PROVE BestOfTried
    BY DEF BestOfTried, Search!BestOfTried
  <2>1. ASSUME NEW h \in Search!Hs, NEW n \in Search!N1s
        PROVE  NoCloser(h, n)
    <3>1. PICK j \in DOMAIN HsDivOpts : h = HsDivOpts[j]
      BY DEF Search!Hs
    <3>2. j \in Nat /\ j <= Len(HsDivOpts) /\ Len(HsDivOpts) \in Nat
      BY DividersAssumption
    <3>3. Tried(j, n)
      BY <1>1, <3>2 DEF SearchInv, SearchTypes, Tried
    <3>4. QED
      BY <1>1, <3>1, <3>3 DEF SearchInv, SearchAll
  <2>2. ASSUME best.set
        PROVE  /\ best.h \in Search!Hs /\ best.n \in Search!N1s
               /\ best.rfreq = Search!Rfreq(best.h, best.n)
               /\ Search!InRange(best.rfreq)
               /\ 2 * Search!AbsDiff(freq * RfreqFactor * best.h * best.n, best.rfreq * xtal)
                    <= xtal
    BY <1>1, <2>2, ErrorIsSmall DEF SearchInv, SearchBest
  <2>3. QED
    BY <2>1, <2>2 DEF BestOfTried, Search!BestOfTried, NoCloser
<1>2. QED
  BY <1>1, SearchStarts, SearchPreserved, PTL DEF Search!Spec
=============================================================================
