-------------------------------- MODULE Bar2 --------------------------------
(***************************************************************************)
(* Reading the FPGA's RAM through BAR2 (bar2_read_v in util/pcie.c).  BAR2 *)
(* shows one page of the RAM, the one selected by a register in BAR0, and  *)
(* a read that crosses pages is done in segments.  With SSE4.1 a segment   *)
(* is copied word by word up to a cache line, then in blocks with vector   *)
(* loads and stores, then word by word again.                              *)
(*                                                                         *)
(* Addresses and sizes count words.  The content of a word of the RAM      *)
(* stands for itself: it is the word's address.                            *)
(***************************************************************************)
EXTENDS Integers

CONSTANTS
  Threads,    \* threads that share the struct pcie_bars
  NoThread,   \* owner of the free mutex
  Requests,   \* calls of bar2_read_v: addr, n, and the address of dest
  PageSize,   \* words in a page of the RAM (PCIE_SDRAM_PG_SIZE)
  Window,     \* words in BAR2 (sizes[1])
  Sse,        \* built with SSE4.1
  Line,       \* alignment, a cache line
  Vector,     \* a vector register
  Block,      \* read_size
  Nothing     \* content of dest before the call

ASSUME ThreadsAssumption == NoThread \notin Threads
\* BAR2 is as large as a page, on the boards and in the tests' dummy_dev_open.
ASSUME WindowAssumption == PageSize \in Nat \ {0} /\ Window = PageSize
ASSUME VectorAssumption ==
  /\ Sse \in BOOLEAN
  /\ Line \in Nat \ {0} /\ Vector \in Nat \ {0} /\ Block \in Nat \ {0}
\* Lines, blocks and pages are made of vectors (16 bytes; 64, 4096 and 2^20).
ASSUME UnitsAssumption ==
  Line % Vector = 0 /\ Block % Vector = 0 /\ PageSize % Vector = 0
ASSUME RequestsAssumption ==
  \A r \in Requests : r.addr \in Nat /\ r.n \in Nat /\ r.dest \in Nat

Page(a) == a \div PageSize
Offset(a) == a % PageSize
\* The word the FPGA decodes, and so its content.
Decode(page, offset) == page * PageSize + offset

VARIABLES
  sdramPage,   \* PCIE_CFG_REG_SDRAM_PG of BAR0
  owner,       \* thread that holds locks[BAR2]
  pc,
  call,        \* the request a thread is or was last in
  addr, left,  \* addr and n, which bar2_read_v moves forward
  base,        \* destp - dest
  i,           \* words of the segment that are copied
  buf          \* the memory at dest

vars == <<sdramPage, owner, pc, call, addr, left, base, i, buf>>
position == <<addr, left, base, i>>

Init ==
  /\ sdramPage = 0
  /\ owner = NoThread
  /\ pc = [t \in Threads |-> "idle"]
  /\ call \in [Threads -> Requests]
  /\ addr = [t \in Threads |-> 0] /\ left = [t \in Threads |-> 0]
  /\ base = [t \in Threads |-> 0] /\ i = [t \in Threads |-> 0]
  /\ buf = [t \in Threads |-> [k \in 0 .. (call[t].n - 1) |-> Nothing]]

\* Length of the segment at addr, to_read.  The definitions named after a slip,
\* here and below, are mutants of the ones that follow them.
ToRead(t) ==
  LET canRead == Window - Offset(addr[t]) IN IF canRead < left[t] THEN canRead ELSE left[t]

\* Words before the first cache line of the segment.
Misalignment(t) == Offset(addr[t]) % Line
HeadMisaligned(t) == Misalignment(t)
Head(t) == IF Misalignment(t) = 0 THEN 0 ELSE Line - Misalignment(t)

InBlock(t) == Sse /\ i[t] >= Head(t) /\ i[t] + Block <= ToRead(t)

Call(t) ==
  /\ pc[t] = "idle"
  /\ pc' = [pc EXCEPT ![t] = "enter"]
  /\ \E r \in Requests :
       /\ call' = [call EXCEPT ![t] = r]
       /\ buf' = [buf EXCEPT ![t] = [k \in 0 .. (r.n - 1) |-> Nothing]]
       /\ addr' = [addr EXCEPT ![t] = r.addr]
       /\ left' = [left EXCEPT ![t] = r.n]
  /\ base' = [base EXCEPT ![t] = 0]
  /\ i' = [i EXCEPT ![t] = 0]
  /\ UNCHANGED <<sdramPage, owner>>

EnterUnlocked(t) ==
  /\ pc[t] = "enter"
  /\ owner' = t
  /\ pc' = [pc EXCEPT ![t] = "segment"]
  /\ UNCHANGED <<sdramPage, call, position, buf>>
Enter(t) ==
  /\ pc[t] = "enter"
  /\ owner = NoThread
  /\ owner' = t
  /\ pc' = [pc EXCEPT ![t] = "segment"]
  /\ UNCHANGED <<sdramPage, call, position, buf>>

\* The head of the loop: the page is selected for every segment.
SelectFirstPage(t) ==
  /\ pc[t] = "segment" /\ left[t] # 0
  /\ sdramPage' = IF base[t] = 0 THEN Page(addr[t]) ELSE sdramPage
  /\ i' = [i EXCEPT ![t] = 0]
  /\ pc' = [pc EXCEPT ![t] = "copy"]
  /\ UNCHANGED <<owner, call, addr, left, base, buf>>
SelectPage(t) ==
  /\ pc[t] = "segment" /\ left[t] # 0
  /\ sdramPage' = Page(addr[t])
  /\ i' = [i EXCEPT ![t] = 0]
  /\ pc' = [pc EXCEPT ![t] = "copy"]
  /\ UNCHANGED <<owner, call, addr, left, base, buf>>

\* k words go from BAR2 to dest, both at the word i of the segment.
Copy(t, k) ==
  /\ buf' = [buf EXCEPT ![t] =
       [j \in DOMAIN buf[t] |->
          IF j \in base[t] + i[t] .. base[t] + i[t] + k - 1
            THEN Decode(sdramPage, Offset(addr[t]) + (j - base[t])) ELSE buf[t][j]]]
  /\ i' = [i EXCEPT ![t] = @ + k]

CopyWord(t) ==
  /\ pc[t] = "copy" /\ i[t] < ToRead(t) /\ ~ InBlock(t)
  /\ Copy(t, 1)
  /\ UNCHANGED <<sdramPage, owner, pc, call, addr, left, base>>

\* A vector store to an address that is not a multiple of its size faults.
StoreAligned(t) == (call[t].dest + base[t] + i[t]) % Vector = 0
CopyBlock(t) ==
  /\ pc[t] = "copy" /\ InBlock(t)
  /\ IF StoreAligned(t) THEN Copy(t, Block) /\ UNCHANGED pc
                        ELSE /\ pc' = [pc EXCEPT ![t] = "fault"]
                             /\ UNCHANGED <<i, buf>>
  /\ UNCHANGED <<sdramPage, owner, call, addr, left, base>>

AdvanceBytes(t) ==
  /\ pc[t] = "copy" /\ i[t] = ToRead(t)
  /\ left' = [left EXCEPT ![t] = @ - ToRead(t)]
  /\ addr' = [addr EXCEPT ![t] = @ + ToRead(t)]
  /\ base' = [base EXCEPT ![t] = @ + 4 * ToRead(t)]
  /\ pc' = [pc EXCEPT ![t] = "segment"]
  /\ i' = [i EXCEPT ![t] = 0]
  /\ UNCHANGED <<sdramPage, owner, call, buf>>
\* The end of a segment.
Advance(t) ==
  /\ pc[t] = "copy" /\ i[t] = ToRead(t)
  /\ left' = [left EXCEPT ![t] = @ - ToRead(t)]
  /\ addr' = [addr EXCEPT ![t] = @ + ToRead(t)]
  /\ base' = [base EXCEPT ![t] = @ + ToRead(t)]
  /\ pc' = [pc EXCEPT ![t] = "segment"]
  /\ i' = [i EXCEPT ![t] = 0]
  /\ UNCHANGED <<sdramPage, owner, call, buf>>

Leave(t) ==
  /\ pc[t] = "segment" /\ left[t] = 0
  /\ owner' = NoThread
  /\ pc' = [pc EXCEPT ![t] = "idle"]
  /\ UNCHANGED <<sdramPage, call, position, buf>>

Step(t) ==
  \/ Enter(t) \/ SelectPage(t) \/ CopyWord(t) \/ CopyBlock(t) \/ Advance(t) \/ Leave(t)
Next == \E t \in Threads : Call(t) \/ Step(t)

Spec == Init /\ [][Next]_vars

-----------------------------------------------------------------------------
(* Properties.                                                             *)
Copied(t) == base[t] + i[t]

\* The types of the state: what is left of a read never becomes negative (it is unsigned),
\* and nothing is stored outside of its destination.
TypeOK ==
  /\ sdramPage \in Nat
  /\ owner \in Threads \cup {NoThread}
  /\ pc \in [Threads -> {"idle", "enter", "segment", "copy", "fault"}]
  /\ call \in [Threads -> Requests]
  /\ addr \in [Threads -> Nat] /\ left \in [Threads -> Nat]
  /\ base \in [Threads -> Nat] /\ i \in [Threads -> Nat]
  /\ buf = [t \in Threads |-> buf[t]]
  /\ \A t \in Threads : buf[t] \in [0 .. (call[t].n - 1) -> Nat \cup {Nothing}]

\* What has been copied so far is what the caller asked for, in its place and
\* nothing left out, across pages and with other threads in the middle of reads
\* of their own.
CopyRight ==
  \A t \in Threads : \A k \in 0 .. (Copied(t) - 1) : buf[t][k] = call[t].addr + k

\* A read returns when dest has all of the words, not only those of some segments.
ReturnsWhole ==
  [][\A t \in Threads : pc[t] = "segment" /\ pc'[t] = "idle" =>
       \A k \in DOMAIN buf[t] : buf[t][k] = call[t].addr + k]_vars

\* The vector stores are aligned whenever addr and dest are alike in the vector
\* unit: the words before the first cache line are enough to align both.
Alike(t) == call[t].addr % Vector = call[t].dest % Vector
AlikeIsAligned == \A t \in Threads : pc[t] = "fault" => ~ Alike(t)
==============================================================================
