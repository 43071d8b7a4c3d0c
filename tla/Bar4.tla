-------------------------------- MODULE Bar4 --------------------------------
(***************************************************************************)
(* Accesses to the Wishbone registers through BAR4 (util/pcie.c).  BAR4    *)
(* shows one page of the bus at a time; the page is selected by a register *)
(* in BAR0, and struct pcie_bars remembers the last page written so that   *)
(* the BAR0 write can be skipped.  Threads share the struct and exclude    *)
(* each other with the recursive mutex locks[BAR4].                        *)
(*                                                                         *)
(* Addresses count words, not bytes.  The registers are plain storage: one *)
(* that the FPGA changes by itself is outside of this module.              *)
(***************************************************************************)
EXTENDS Integers

CONSTANTS
  Threads,    \* threads that share the struct pcie_bars
  NoThread,   \* owner of the free mutex
  Addr,       \* word addresses of the Wishbone bus
  Val,        \* values of a register
  PageSize,   \* words in a page of the bus (PCIE_WB_PG_SIZE)
  Calls,      \* calls the threads may make
  NoCall, NoReply, Done

Page(a) == a \div PageSize
Offset(a) == a % PageSize
\* The word the FPGA decodes when BAR4 is accessed at an offset while its page
\* register holds a page number.
Decode(page, offset) == page * PageSize + offset
Pages == {Page(a) : a \in Addr}

Kinds == {"write", "write_v", "read", "read_v"}
IsVector(c) == c.kind \in {"write_v", "read_v"}
IsWrite(c) == c.kind \in {"write", "write_v"}

ASSUME ThreadsAssumption == NoThread \notin Threads
ASSUME PageAssumption == PageSize \in Nat \ {0} /\ Addr \subseteq Nat
\* The callers pass at least one word, and exactly one to the scalar functions.
ASSUME CallsAssumption ==
  \A c \in Calls :
    /\ c.kind \in Kinds
    /\ c.n \in Nat \ {0}
    /\ c.addr \in Addr
    /\ c.addr .. (c.addr + c.n - 1) \subseteq Addr
    /\ c.data \in [0 .. (c.n - 1) -> Val]
    /\ ~ IsVector(c) => c.n = 1
ASSUME RepliesAssumption ==
  /\ NoCall \notin Calls
  /\ NoReply # Done
  /\ \A c \in Calls : NoReply \notin [0 .. (c.n - 1) -> Val]

VARIABLES
  mem,        \* registers behind the bus
  wbPage,     \* PCIE_CFG_REG_WB_PG of BAR0
  lastPage,   \* pcie_bars.last_bar4_page, -1 before the first access
  owner,      \* thread that holds locks[BAR4]
  depth,      \* how many times it does
  pc,         \* where each thread is
  call,       \* the call it is in
  i,          \* words of it that are complete
  flushing,   \* the word has been written, the flushing read is still to do
  buf         \* words read so far, dest of bar4_read_v

vars == <<mem, wbPage, lastPage, owner, depth, pc, call, i, flushing, buf>>
hardware == <<mem, wbPage>>
mutex == <<owner, depth>>

Init ==
  /\ mem \in [Addr -> Val]
  /\ wbPage \in Pages
  /\ lastPage = -1
  /\ owner = NoThread
  /\ depth = 0
  /\ pc = [t \in Threads |-> "idle"]
  /\ call = [t \in Threads |-> NoCall]
  /\ i = [t \in Threads |-> 0]
  /\ flushing = [t \in Threads |-> FALSE]
  /\ buf = [t \in Threads |-> <<>>]

\* Address of the word the thread is at.
Current(t) == call[t].addr + i[t]

-----------------------------------------------------------------------------
(* The recursive mutex (pthread_mutex_lock, pthread_mutex_unlock).  The    *)
(* definitions named after a slip, here and below, are mutants: what the   *)
(* operation that follows them would be with that slip.                    *)
AcquireOnce(t) == owner = NoThread /\ owner' = t /\ depth' = depth + 1  \* not recursive
Acquire(t) ==
  /\ owner \in {NoThread, t}
  /\ owner' = t
  /\ depth' = depth + 1

ReleaseAll(t) == depth' = 0 /\ owner' = NoThread            \* the inner unlock frees it
Release(t) ==
  /\ depth' = depth - 1
  /\ owner' = IF depth = 1 THEN NoThread ELSE owner

-----------------------------------------------------------------------------
(* One action per step of a call.                                          *)

\* A module calls one of the four functions.
Call(t) ==
  /\ pc[t] = "idle"
  /\ \E c \in Calls :
       /\ call' = [call EXCEPT ![t] = c]
       /\ pc' = [pc EXCEPT ![t] = IF IsVector(c) THEN "enter" ELSE "word"]
  /\ i' = [i EXCEPT ![t] = 0]
  /\ buf' = [buf EXCEPT ![t] = <<>>]
  /\ UNCHANGED <<hardware, mutex, lastPage, flushing>>

\* bar4_write_v and bar4_read_v take the mutex for the whole vector.
EnterVector(t) ==
  /\ pc[t] = "enter"
  /\ Acquire(t)
  /\ pc' = [pc EXCEPT ![t] = "word"]
  /\ UNCHANGED <<hardware, lastPage, call, i, flushing, buf>>

\* bar4_write and bar4_read take it for the word.
EnterWord(t) ==
  /\ pc[t] = "word"
  /\ Acquire(t)
  /\ pc' = [pc EXCEPT ![t] = "page"]
  /\ UNCHANGED <<hardware, lastPage, call, i, flushing, buf>>

SelectPageOnce(t) ==
  /\ pc[t] = "page"
  /\ IF lastPage = -1
       THEN /\ wbPage' = Page(Current(t))
            /\ pc' = [pc EXCEPT ![t] = "cache"]
       ELSE /\ pc' = [pc EXCEPT ![t] = "access"]
            /\ UNCHANGED wbPage
  /\ UNCHANGED <<mem, mutex, lastPage, call, i, flushing, buf>>
\* bar4_access_offset: the page register is written only when the cached page
\* is another one ...
SelectPage(t) ==
  /\ pc[t] = "page"
  /\ IF Page(Current(t)) # lastPage
       THEN /\ wbPage' = Page(Current(t))
            /\ pc' = [pc EXCEPT ![t] = "cache"]
       ELSE /\ pc' = [pc EXCEPT ![t] = "access"]
            /\ UNCHANGED wbPage
  /\ UNCHANGED <<mem, mutex, lastPage, call, i, flushing, buf>>

\* ... and then the cached page is updated.
StorePage(t) ==
  /\ pc[t] = "cache"
  /\ lastPage' = Page(Current(t))
  /\ pc' = [pc EXCEPT ![t] = "access"]
  /\ UNCHANGED <<hardware, mutex, call, i, flushing, buf>>

\* The word at that offset of BAR4, whatever word that is.
Target(t) == Decode(wbPage, Offset(Current(t)))

\* The store of bar4_write; the access that flushes it comes next.
WriteWord(t) ==
  /\ pc[t] = "access"
  /\ IsWrite(call[t]) /\ ~ flushing[t]
  /\ mem' = [mem EXCEPT ![Target(t)] = call[t].data[i[t]]]
  /\ flushing' = [flushing EXCEPT ![t] = TRUE]
  /\ pc' = [pc EXCEPT ![t] = "page"]
  /\ UNCHANGED <<wbPage, mutex, lastPage, call, i, buf>>

\* The read that flushes the write; its value is dropped.
FlushWord(t) ==
  /\ pc[t] = "access"
  /\ flushing[t]
  /\ flushing' = [flushing EXCEPT ![t] = FALSE]
  /\ pc' = [pc EXCEPT ![t] = "leave"]
  /\ UNCHANGED <<hardware, mutex, lastPage, call, i, buf>>

\* The load of bar4_read.
ReadWord(t) ==
  /\ pc[t] = "access"
  /\ ~ IsWrite(call[t])
  /\ buf' = [buf EXCEPT ![t] =
               [j \in 0 .. i[t] |-> IF j = i[t] THEN mem[Target(t)] ELSE buf[t][j]]]
  /\ pc' = [pc EXCEPT ![t] = "leave"]
  /\ UNCHANGED <<hardware, mutex, lastPage, call, i, flushing>>

\* bar4_write or bar4_read unlocks: a scalar call returns, a vector goes on with
\* its next word or comes to its own unlock.
LeaveWord(t) ==
  /\ pc[t] = "leave"
  /\ Release(t)
  /\ IF IsVector(call[t])
       THEN /\ i' = [i EXCEPT ![t] = @ + 1]
            /\ pc' = [pc EXCEPT ![t] = IF i[t] + 1 < call[t].n THEN "word" ELSE "return"]
            /\ UNCHANGED call
       ELSE /\ pc' = [pc EXCEPT ![t] = "idle"]
            /\ call' = [call EXCEPT ![t] = NoCall]
            /\ UNCHANGED i
  /\ UNCHANGED <<hardware, lastPage, flushing, buf>>

LeaveVector(t) ==
  /\ pc[t] = "return"
  /\ Release(t)
  /\ pc' = [pc EXCEPT ![t] = "idle"]
  /\ call' = [call EXCEPT ![t] = NoCall]
  /\ UNCHANGED <<hardware, lastPage, i, flushing, buf>>

\* Steps of a thread that is inside of a call.
Step(t) ==
  \/ EnterVector(t) \/ EnterWord(t) \/ SelectPage(t) \/ StorePage(t)
  \/ WriteWord(t) \/ FlushWord(t) \/ ReadWord(t)
  \/ LeaveWord(t) \/ LeaveVector(t)

Next == \E t \in Threads : Call(t) \/ Step(t)

\* The scheduler runs a thread that can run.  Nothing is assumed of the order in
\* which waiting threads get the mutex, nor that a module ever makes a call.
Spec == Init /\ [][Next]_vars /\ \A t \in Threads : WF_vars(Step(t))

-----------------------------------------------------------------------------
(* Properties.                                                             *)

Holds(t) == \/ pc[t] \in {"page", "cache", "access", "leave", "return"}
            \/ pc[t] = "word" /\ IsVector(call[t])
InWord(t) == pc[t] \in {"page", "cache", "access", "leave"}

\* Words of the call that have been transferred, the current one included.
Transferred(t) == i[t] + (IF flushing[t] \/ pc[t] = "leave" THEN 1 ELSE 0)

\* The types of the state: the recursive mutex is taken at most twice, by a thread that
\* is inside of one of the four functions.
TypeOK ==
  /\ mem \in [Addr -> Val]
  /\ wbPage \in Pages
  /\ lastPage \in Pages \cup {-1}
  /\ owner \in Threads \cup {NoThread}
  /\ depth \in 0 .. 2
  /\ pc \in [Threads -> {"idle", "enter", "word", "page", "cache", "access", "leave", "return"}]
  /\ call \in [Threads -> Calls \cup {NoCall}]
  /\ i \in [Threads -> Nat]
  /\ flushing \in [Threads -> BOOLEAN]
  /\ buf = [t \in Threads |-> buf[t]]

\* A thread about to touch BAR4 (bar4_get_u32p) hits the word its caller named:
\* the skipped BAR0 writes never leave another page selected.
AccessHitsWord == \A t \in Threads : pc[t] = "access" => Target(t) = Current(t)

\* While a vector call is in progress, what it has transferred so far still
\* agrees with the registers: no other thread's call shows up in the middle of
\* it (bar4_write_v and bar4_read_v hold the mutex over all of their words).
VectorIntact ==
  \A t \in Threads : Holds(t) =>
    \A j \in 0 .. (Transferred(t) - 1) :
      mem[call[t].addr + j] = IF IsWrite(call[t]) THEN call[t].data[j] ELSE buf[t][j]

\* A thread that holds locks[BAR4] always comes to the end of its call, the
\* nested locking by the scalar functions included.
HolderReleases == \A t \in Threads : owner = t ~> owner # t

-----------------------------------------------------------------------------
(* The refinement: a write call takes effect with its first word, a read   *)
(* call with its last one.                                                 *)
Performed(t) ==
  /\ Holds(t)
  /\ IF IsWrite(call[t]) THEN Transferred(t) > 0 ELSE Transferred(t) = call[t].n

Writing(t) == Performed(t) /\ IsWrite(call[t])

busRegs ==
  [a \in Addr |->
     IF \E t \in Threads :
          Writing(t) /\ a \in call[t].addr .. (call[t].addr + call[t].n - 1)
       THEN call[owner].data[a - call[owner].addr]
       ELSE mem[a]]

busReply ==
  [t \in Threads |-> IF ~ Performed(t) THEN NoReply
                     ELSE IF IsWrite(call[t]) THEN Done ELSE buf[t]]

Bus == INSTANCE RegisterBus WITH regs <- busRegs, request <- call, reply <- busReply

\* Every behaviour of the four functions is one of the atomic register bank.
BusSpec == Bus!Spec
==============================================================================
