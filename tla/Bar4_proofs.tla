---------------------------- MODULE Bar4_proofs ----------------------------
(* Proofs about Bar4, for every set of threads, calls and addresses and    *)
(* every page size.                                                        *)
EXTENDS Bar4, TLAPS

-----------------------------------------------------------------------------
(* The inductive invariant.                                                *)

\* The mutex: it is held exactly by the thread whose program counter says so,
\* once by a scalar call, and twice by a vector call inside of a word.
LockInv ==
  /\ \A t \in Threads : Holds(t) => owner = t
  /\ owner # NoThread => Holds(owner)
  /\ owner = NoThread => depth = 0
  /\ owner # NoThread =>
       depth = IF IsVector(call[owner]) /\ InWord(owner) THEN 2 ELSE 1

\* The cached page is the selected one, but for the thread that has written the
\* register and has yet to update the cache.
PageInv ==
  /\ (\A t \in Threads : pc[t] # "cache") => lastPage \in {-1, wbPage}
  /\ \A t \in Threads : pc[t] = "cache" => wbPage = Page(Current(t))
  /\ \A t \in Threads : pc[t] = "access" => lastPage = Page(Current(t))

\* Where a thread is in its call.
CallInv ==
  \A t \in Threads :
    /\ pc[t] = "idle" <=> call[t] = NoCall
    /\ pc[t] \in {"word", "page", "cache", "access", "leave"} => i[t] < call[t].n
    /\ pc[t] \in {"enter", "return"} => IsVector(call[t])
    /\ pc[t] = "return" => i[t] = call[t].n
    /\ pc[t] = "enter" \/ (call[t] # NoCall /\ ~ IsVector(call[t])) => i[t] = 0
    /\ flushing[t] => IsWrite(call[t]) /\ pc[t] \in {"page", "cache", "access"}

\* What a read has transferred is what the registers hold.
ReadInv ==
  \A t \in Threads :
    Holds(t) /\ ~ IsWrite(call[t]) /\ Transferred(t) > 0 =>
      buf[t] = [j \in 0 .. (Transferred(t) - 1) |-> mem[call[t].addr + j]]

\* What a write has transferred is in the registers.
WriteInv ==
  \A t \in Threads :
    Holds(t) /\ IsWrite(call[t]) =>
      \A j \in 0 .. (Transferred(t) - 1) : mem[call[t].addr + j] = call[t].data[j]

IInv == TypeOK /\ LockInv /\ PageInv /\ CallInv /\ ReadInv /\ WriteInv

-----------------------------------------------------------------------------
(* Facts about addresses.                                                  *)

\* Splitting an address into page and offset loses nothing.
LEMMA DecodeSplit ==
  ASSUME NEW a \in Addr
  PROVE  /\ Page(a) \in Nat
         /\ Page(a) \in Pages
         /\ Decode(Page(a), Offset(a)) = a
<1>1. a \in Nat /\ PageSize \in Nat /\ PageSize > 0
  BY PageAssumption
<1>2. Page(a) \in Nat /\ Decode(Page(a), Offset(a)) = a
  BY <1>1, SMTT(30) DEF Page, Offset, Decode
<1>3. QED
  BY <1>2 DEF Pages

\* What the assumptions say of the call a thread is in.
LEMMA CallFacts ==
  ASSUME TypeOK, NEW t \in Threads, call[t] # NoCall
  PROVE  /\ call[t] \in Calls
         /\ call[t].kind \in Kinds
         /\ call[t].n \in Nat \ {0}
         /\ call[t].addr \in Nat
         /\ call[t].addr .. (call[t].addr + call[t].n - 1) \subseteq Addr
         /\ call[t].data \in [0 .. (call[t].n - 1) -> Val]
         /\ ~ IsVector(call[t]) => call[t].n = 1
         /\ i[t] \in Nat
         /\ i[t] < call[t].n => Current(t) \in Addr /\ call[t].data[i[t]] \in Val
<1>1. call[t] \in Calls /\ i[t] \in Nat
  BY DEF TypeOK
<1>2. /\ call[t].kind \in Kinds
      /\ call[t].n \in Nat \ {0}
      /\ call[t].addr \in Addr
      /\ call[t].addr .. (call[t].addr + call[t].n - 1) \subseteq Addr
      /\ call[t].data \in [0 .. (call[t].n - 1) -> Val]
      /\ ~ IsVector(call[t]) => call[t].n = 1
  BY <1>1, CallsAssumption
<1>3. call[t].addr \in Nat
  BY <1>2, PageAssumption
<1>4. ASSUME i[t] < call[t].n
      PROVE  Current(t) \in Addr /\ call[t].data[i[t]] \in Val
  <2>1. i[t] \in 0 .. (call[t].n - 1)
    BY <1>1, <1>2, <1>4
  <2>2. Current(t) \in call[t].addr .. (call[t].addr + call[t].n - 1)
    BY <2>1, <1>2, <1>3 DEF Current
  <2>3. QED
    BY <2>1, <2>2, <1>2
<1>5. QED
  BY <1>1, <1>2, <1>3, <1>4

\* A thread at BAR4 accesses the word it is at.
LEMMA Targeted ==
  ASSUME IInv, NEW t \in Threads, pc[t] = "access"
  PROVE  Target(t) = Current(t)
<1>1. Current(t) \in Addr
  BY CallFacts DEF IInv, CallInv
<1>2. lastPage = Page(Current(t)) /\ owner = t
  BY DEF IInv, PageInv, LockInv, Holds
<1>3. \A u \in Threads : pc[u] # "cache"
  BY <1>2 DEF IInv, LockInv, Holds
<1>4. wbPage = Page(Current(t))
  BY <1>1, <1>2, <1>3, DecodeSplit DEF IInv, PageInv
<1>5. QED
  BY <1>1, <1>4, DecodeSplit DEF Target

-----------------------------------------------------------------------------
(* Every step preserves the invariant.                                     *)

LEMMA CallPreserves ==
  ASSUME IInv, NEW t \in Threads, Call(t)
  PROVE  IInv'
<1> USE DEF IInv, Call, hardware, mutex
<1>1. TypeOK'
  <2>1. PICK c \in Calls :
          /\ call' = [call EXCEPT ![t] = c]
          /\ pc' = [pc EXCEPT ![t] = IF IsVector(c) THEN "enter" ELSE "word"]
    OBVIOUS
  <2>2. call' \in [Threads -> Calls \cup {NoCall}]
    BY <2>1 DEF TypeOK
  <2>3. pc' \in [Threads -> {"idle", "enter", "word", "page", "cache", "access", "leave",
                            "return"}]
    BY <2>1 DEF TypeOK
  <2>4. i' \in [Threads -> Nat] /\ buf' = [u \in Threads |-> buf'[u]]
    BY DEF TypeOK
  <2>5. QED
    BY <2>2, <2>3, <2>4 DEF TypeOK
<1>2. LockInv'
  BY CallFacts, ThreadsAssumption DEF TypeOK, LockInv, CallInv, Holds, InWord
<1>3. PageInv'
  BY CallFacts DEF TypeOK, LockInv, PageInv, CallInv, Holds, Current
<1>4. CallInv'
  BY CallFacts, RepliesAssumption, CallsAssumption DEF TypeOK, CallInv
<1>5. ReadInv'
  <2>1. ~ Holds(t)'
    BY DEF TypeOK, Holds
  <2>2. ASSUME NEW u \in Threads, u # t
        PROVE  /\ Holds(u)' => Holds(u)
               /\ call'[u] = call[u] /\ buf'[u] = buf[u]
               /\ Transferred(u)' = Transferred(u)
    BY <2>2 DEF TypeOK, Holds, Transferred
  <2>3. QED
    BY <2>1, <2>2 DEF ReadInv
<1>6. WriteInv'
  BY CallFacts DEF TypeOK, LockInv, CallInv, WriteInv, Holds, Transferred
<1>7. QED
  BY <1>1, <1>2, <1>3, <1>4, <1>5, <1>6

LEMMA EnterVectorPreserves ==
  ASSUME IInv, NEW t \in Threads, EnterVector(t)
  PROVE  IInv'
<1> USE DEF IInv, EnterVector, Acquire, hardware, mutex
<1>1. TypeOK'
  <2>1. depth' \in 0 .. 2
    BY ThreadsAssumption, CallFacts DEF TypeOK, LockInv, CallInv, Holds, InWord
  <2>2. QED
    BY <2>1 DEF TypeOK
<1>2. LockInv'
  BY CallFacts, ThreadsAssumption DEF TypeOK, LockInv, CallInv, Holds, InWord
<1>3. PageInv'
  BY CallFacts DEF TypeOK, LockInv, PageInv, CallInv, Holds, Current
<1>4. CallInv'
  BY CallFacts, RepliesAssumption, CallsAssumption DEF TypeOK, CallInv
<1>5. ReadInv'
  BY CallFacts DEF TypeOK, LockInv, CallInv, ReadInv, Holds, Transferred
<1>6. WriteInv'
  BY CallFacts DEF TypeOK, LockInv, CallInv, WriteInv, Holds, Transferred
<1>7. QED
  BY <1>1, <1>2, <1>3, <1>4, <1>5, <1>6

LEMMA EnterWordPreserves ==
  ASSUME IInv, NEW t \in Threads, EnterWord(t)
  PROVE  IInv'
<1> USE DEF IInv, EnterWord, Acquire, hardware, mutex
<1>1. TypeOK'
  <2>1. depth' \in 0 .. 2
    BY ThreadsAssumption, CallFacts DEF TypeOK, LockInv, CallInv, Holds, InWord
  <2>2. QED
    BY <2>1 DEF TypeOK
<1>2. LockInv'
  BY CallFacts, ThreadsAssumption DEF TypeOK, LockInv, CallInv, Holds, InWord
<1>3. PageInv'
  BY CallFacts DEF TypeOK, LockInv, PageInv, CallInv, Holds, Current
<1>4. CallInv'
  BY CallFacts, RepliesAssumption, CallsAssumption DEF TypeOK, CallInv
<1>5. ReadInv'
  BY CallFacts DEF TypeOK, LockInv, CallInv, ReadInv, Holds, Transferred
<1>6. WriteInv'
  BY CallFacts DEF TypeOK, LockInv, CallInv, WriteInv, Holds, Transferred
<1>7. QED
  BY <1>1, <1>2, <1>3, <1>4, <1>5, <1>6

LEMMA SelectPagePreserves ==
  ASSUME IInv, NEW t \in Threads, SelectPage(t)
  PROVE  IInv'
<1> USE DEF IInv, SelectPage, hardware, mutex
<1>1. TypeOK'
  <2>1. wbPage' \in Pages
    BY DecodeSplit, CallFacts DEF TypeOK, CallInv
  <2>2. QED
    BY <2>1 DEF TypeOK
<1>2. LockInv'
  BY CallFacts, ThreadsAssumption DEF TypeOK, LockInv, CallInv, Holds, InWord
<1>3. PageInv'
  BY CallFacts DEF TypeOK, LockInv, PageInv, CallInv, Holds, Current
<1>4. CallInv'
  BY CallFacts, RepliesAssumption, CallsAssumption DEF TypeOK, CallInv
<1>5. ReadInv'
  BY CallFacts DEF TypeOK, LockInv, CallInv, ReadInv, Holds, Transferred
<1>6. WriteInv'
  BY CallFacts DEF TypeOK, LockInv, CallInv, WriteInv, Holds, Transferred
<1>7. QED
  BY <1>1, <1>2, <1>3, <1>4, <1>5, <1>6

LEMMA StorePagePreserves ==
  ASSUME IInv, NEW t \in Threads, StorePage(t)
  PROVE  IInv'
<1> USE DEF IInv, StorePage, hardware, mutex
<1>1. TypeOK'
  <2>1. lastPage' \in Pages
    BY DecodeSplit, CallFacts DEF TypeOK, CallInv
  <2>2. QED
    BY <2>1 DEF TypeOK
<1>2. LockInv'
  BY CallFacts, ThreadsAssumption DEF TypeOK, LockInv, CallInv, Holds, InWord
<1>3. PageInv'
  BY CallFacts DEF TypeOK, LockInv, PageInv, CallInv, Holds, Current
<1>4. CallInv'
  BY CallFacts, RepliesAssumption, CallsAssumption DEF TypeOK, CallInv
<1>5. ReadInv'
  BY CallFacts DEF TypeOK, LockInv, CallInv, ReadInv, Holds, Transferred
<1>6. WriteInv'
  BY CallFacts DEF TypeOK, LockInv, CallInv, WriteInv, Holds, Transferred
<1>7. QED
  BY <1>1, <1>2, <1>3, <1>4, <1>5, <1>6

LEMMA WriteWordPreserves ==
  ASSUME IInv, NEW t \in Threads, WriteWord(t)
  PROVE  IInv'
<1> USE DEF IInv, WriteWord, hardware, mutex
<1>0. /\ call[t] # NoCall
      /\ i[t] < call[t].n
      /\ Target(t) = Current(t)
  BY Targeted DEF CallInv
<1>1. TypeOK'
  <2>1. mem' \in [Addr -> Val]
    BY <1>0, CallFacts DEF TypeOK
  <2>2. QED
    BY <2>1 DEF TypeOK
<1>2. LockInv'
  BY CallFacts, ThreadsAssumption DEF TypeOK, LockInv, CallInv, Holds, InWord
<1>3. PageInv'
  BY CallFacts DEF TypeOK, LockInv, PageInv, CallInv, Holds, Current
<1>4. CallInv'
  BY CallFacts, RepliesAssumption, CallsAssumption DEF TypeOK, CallInv
<1>5. ReadInv'
  BY CallFacts DEF TypeOK, LockInv, CallInv, ReadInv, Holds, Transferred
<1>6. WriteInv'
  <2> SUFFICES ASSUME NEW u \in Threads, Holds(u)', IsWrite(call[u])',
                      NEW j \in 0 .. (Transferred(u)' - 1)
               PROVE  mem'[call[u].addr + j] = call[u].data[j]
    BY DEF WriteInv
  <2>1. u = t
    BY DEF TypeOK, LockInv, Holds
  <2>2. j \in 0 .. i[t] /\ Transferred(t) = i[t]
    BY <2>1, CallFacts, <1>0 DEF TypeOK, Transferred
  <2>3. call[t].addr + j \in Addr
    <3>1. call[t].addr + j \in call[t].addr .. (call[t].addr + call[t].n - 1)
      BY <2>2, <1>0, CallFacts
    <3>2. QED
      BY <3>1, <1>0, CallFacts
  <2>4. CASE j = i[t]
    BY <1>0, <2>1, <2>3, <2>4 DEF TypeOK, Current
  <2>5. CASE j # i[t]
    <3>1. mem[call[t].addr + j] = call[t].data[j]
      <4>1. j \in 0 .. (Transferred(t) - 1)
        BY <2>2, <2>5, CallFacts, <1>0
      <4>2. Holds(t) /\ IsWrite(call[t])
        BY DEF Holds
      <4>3. QED
        BY <4>1, <4>2 DEF WriteInv
    <3>2. call[t].addr + j # Current(t)
      BY <2>2, <2>5, CallFacts, <1>0 DEF Current
    <3>3. QED
      BY <1>0, <2>1, <2>3, <3>1, <3>2 DEF TypeOK
  <2>6. QED
    BY <2>4, <2>5
<1>7. QED
  BY <1>1, <1>2, <1>3, <1>4, <1>5, <1>6

LEMMA FlushWordPreserves ==
  ASSUME IInv, NEW t \in Threads, FlushWord(t)
  PROVE  IInv'
<1> USE DEF IInv, FlushWord, hardware, mutex
<1>1. TypeOK'
  BY CallFacts DEF TypeOK
<1>2. LockInv'
  BY CallFacts, ThreadsAssumption DEF TypeOK, LockInv, CallInv, Holds, InWord
<1>3. PageInv'
  BY CallFacts DEF TypeOK, LockInv, PageInv, CallInv, Holds, Current
<1>4. CallInv'
  BY CallFacts, RepliesAssumption, CallsAssumption DEF TypeOK, CallInv
<1>5. ReadInv'
  BY CallFacts DEF TypeOK, LockInv, CallInv, ReadInv, Holds, Transferred
<1>6. WriteInv'
  BY CallFacts DEF TypeOK, LockInv, CallInv, WriteInv, Holds, Transferred
<1>7. QED
  BY <1>1, <1>2, <1>3, <1>4, <1>5, <1>6

LEMMA ReadWordPreserves ==
  ASSUME IInv, NEW t \in Threads, ReadWord(t)
  PROVE  IInv'
<1> USE DEF IInv, ReadWord, hardware, mutex
<1>1. TypeOK'
  BY CallFacts DEF TypeOK
<1>2. LockInv'
  BY CallFacts, ThreadsAssumption DEF TypeOK, LockInv, CallInv, Holds, InWord
<1>3. PageInv'
  BY CallFacts DEF TypeOK, LockInv, PageInv, CallInv, Holds, Current
<1>4. CallInv'
  BY CallFacts, RepliesAssumption, CallsAssumption DEF TypeOK, CallInv
<1>5. ReadInv'
  <2> SUFFICES ASSUME NEW u \in Threads, Holds(u)', ~ IsWrite(call[u])'
               PROVE  buf'[u] = [j \in 0 .. (Transferred(u)' - 1) |-> mem'[call'[u].addr + j]]
    BY DEF ReadInv
  <2>1. u = t /\ call[t] # NoCall /\ i[t] < call[t].n /\ Target(t) = Current(t)
    BY Targeted DEF TypeOK, LockInv, CallInv, Holds
  <2>2. Transferred(t)' = i[t] + 1 /\ Transferred(t) = i[t]
    BY CallFacts, <2>1 DEF TypeOK, CallInv, Transferred
  <2>3. ASSUME NEW j \in 0 .. i[t], j # i[t]
        PROVE  buf[t][j] = mem[call[t].addr + j]
    <3>1. Holds(t) /\ ~ IsWrite(call[t])
      BY DEF Holds
    <3>2. i[t] \in Nat /\ i[t] > 0 /\ j \in 0 .. (i[t] - 1)
      BY <2>1, <2>3, CallFacts
    <3>3. buf[t] = [k \in 0 .. (i[t] - 1) |-> mem[call[t].addr + k]]
      BY <2>2, <3>1, <3>2 DEF ReadInv
    <3>4. QED
      BY <3>2, <3>3
  <2>4. buf'[t] = [j \in 0 .. i[t] |-> mem[call[t].addr + j]]
    BY <2>1, <2>3 DEF TypeOK, Current
  <2>5. QED
    <3>1. Transferred(t)' - 1 = i[t]
      BY <2>1, <2>2, CallFacts
    <3>2. QED
      BY <2>1, <2>4, <3>1
<1>6. WriteInv'
  BY CallFacts DEF TypeOK, LockInv, CallInv, WriteInv, Holds, Transferred
<1>7. QED
  BY <1>1, <1>2, <1>3, <1>4, <1>5, <1>6

LEMMA LeaveWordPreserves ==
  ASSUME IInv, NEW t \in Threads, LeaveWord(t)
  PROVE  IInv'
<1> USE DEF IInv, LeaveWord, Release, hardware, mutex
<1>1. TypeOK'
  <2>1. depth' \in 0 .. 2
    BY ThreadsAssumption, CallFacts DEF TypeOK, LockInv, CallInv, Holds, InWord
  <2>2. QED
    BY <2>1 DEF TypeOK
<1>2. LockInv'
  BY CallFacts, ThreadsAssumption DEF TypeOK, LockInv, CallInv, Holds, InWord
<1>3. PageInv'
  <2>1. \A u \in Threads : pc'[u] \in {"cache", "access"} =>
          pc'[u] = pc[u] /\ u # t /\ Current(u)' = Current(u)
    BY CallFacts DEF TypeOK, Current
  <2>2. pc[t] # "cache" /\ pc'[t] # "cache"
    BY DEF TypeOK
  <2>3. (\A u \in Threads : pc'[u] # "cache") => \A u \in Threads : pc[u] # "cache"
    BY <2>2 DEF TypeOK
  <2>4. QED
    BY <2>1, <2>3 DEF PageInv
<1>4. CallInv'
  BY CallFacts, RepliesAssumption, CallsAssumption DEF TypeOK, CallInv
<1>5. ReadInv'
  BY CallFacts, SMTT(20) DEF TypeOK, LockInv, CallInv, ReadInv, Holds, Transferred
<1>6. WriteInv'
  <2>1. ASSUME NEW u \in Threads, Holds(u)', IsWrite(call[u])'
        PROVE  Holds(u) /\ IsWrite(call[u]) /\ Transferred(u)' = Transferred(u) /\ call'[u] = call[u]
    BY <2>1, CallFacts DEF TypeOK, LockInv, CallInv, Holds, Transferred
  <2>2. QED
    BY <2>1 DEF WriteInv
<1>7. QED
  BY <1>1, <1>2, <1>3, <1>4, <1>5, <1>6

LEMMA LeaveVectorPreserves ==
  ASSUME IInv, NEW t \in Threads, LeaveVector(t)
  PROVE  IInv'
<1> USE DEF IInv, LeaveVector, Release, hardware, mutex
<1>1. TypeOK'
  <2>1. depth' \in 0 .. 2
    BY ThreadsAssumption, CallFacts DEF TypeOK, LockInv, CallInv, Holds, InWord
  <2>2. QED
    BY <2>1 DEF TypeOK
<1>2. LockInv'
  BY CallFacts, ThreadsAssumption DEF TypeOK, LockInv, CallInv, Holds, InWord
<1>3. PageInv'
  BY CallFacts DEF TypeOK, LockInv, PageInv, CallInv, Holds, Current
<1>4. CallInv'
  BY CallFacts, RepliesAssumption, CallsAssumption DEF TypeOK, CallInv
<1>5. ReadInv'
  BY CallFacts DEF TypeOK, LockInv, CallInv, ReadInv, Holds, Transferred
<1>6. WriteInv'
  BY CallFacts DEF TypeOK, LockInv, CallInv, WriteInv, Holds, Transferred
<1>7. QED
  BY <1>1, <1>2, <1>3, <1>4, <1>5, <1>6

LEMMA InitInv == Init => IInv
<1> SUFFICES ASSUME Init PROVE IInv
  OBVIOUS
<1>1. TypeOK
  BY DEF Init, TypeOK
<1>2. \A t \in Threads : ~ Holds(t) /\ pc[t] = "idle" /\ call[t] = NoCall /\ i[t] = 0 /\ ~ flushing[t]
  BY DEF Init, Holds
<1>3. LockInv /\ PageInv /\ CallInv /\ ReadInv /\ WriteInv
  BY <1>2 DEF Init, LockInv, PageInv, CallInv, ReadInv, WriteInv
<1>4. QED
  BY <1>1, <1>3 DEF IInv

LEMMA NextInv == IInv /\ [Next]_vars => IInv'
<1> SUFFICES ASSUME IInv, [Next]_vars PROVE IInv'
  OBVIOUS
<1>1. ASSUME NEW t \in Threads, Call(t) \/ Step(t)
      PROVE  IInv'
  BY <1>1, CallPreserves, EnterVectorPreserves, EnterWordPreserves, SelectPagePreserves,
     StorePagePreserves, WriteWordPreserves, FlushWordPreserves, ReadWordPreserves,
     LeaveWordPreserves, LeaveVectorPreserves DEF Step
<1>2. CASE UNCHANGED vars
  BY <1>2 DEF vars, IInv, TypeOK, LockInv, PageInv, CallInv, ReadInv, WriteInv,
     Holds, InWord, Current, Transferred
<1>3. QED
  BY <1>1, <1>2 DEF Next

\* The invariant holds in every reachable state.
THEOREM Invariance == Spec => []IInv
BY InitInv, NextInv, PTL DEF Spec

-----------------------------------------------------------------------------
(* The safety properties.                                                  *)

\* Every variable keeps its type: in particular the mutex is never held more than
\* twice, and the cached page is -1 or a page of the bus.
THEOREM TypeCorrect == Spec => []TypeOK
<1>1. IInv => TypeOK
  BY DEF IInv
<1>2. QED
  BY <1>1, Invariance, PTL

\* Skipping the BAR0 write when the cached page matches never makes an access
\* land on another word (bar4_access_offset), whatever the threads do.
THEOREM AccessCorrect == Spec => []AccessHitsWord
<1>1. IInv => AccessHitsWord
  BY Targeted DEF AccessHitsWord
<1>2. QED
  BY <1>1, Invariance, PTL

\* No other thread's call shows up in the middle of a vector call.
THEOREM VectorAtomicity == Spec => []VectorIntact
<1>1. ASSUME IInv PROVE VectorIntact
  <2> SUFFICES ASSUME NEW t \in Threads, Holds(t), NEW j \in 0 .. (Transferred(t) - 1)
               PROVE  mem[call[t].addr + j] =
                        IF IsWrite(call[t]) THEN call[t].data[j] ELSE buf[t][j]
    BY DEF VectorIntact
  <2>1. CASE IsWrite(call[t])
    BY <1>1, <2>1 DEF IInv, WriteInv
  <2>2. CASE ~ IsWrite(call[t])
    <3>1. Transferred(t) > 0
      BY <1>1 DEF IInv, TypeOK, Transferred
    <3>2. buf[t] = [k \in 0 .. (Transferred(t) - 1) |-> mem[call[t].addr + k]]
      BY <1>1, <2>2, <3>1 DEF IInv, ReadInv
    <3>3. QED
      BY <2>2, <3>2
  <2>3. QED
    BY <2>1, <2>2
<1>2. QED
  BY <1>1, Invariance, PTL

-----------------------------------------------------------------------------
(* The refinement: Bar4 implements RegisterBus.                            *)

\* A thread whose call has taken effect holds the mutex.
LEMMA PerformedOwns ==
  ASSUME IInv, NEW t \in Threads, Performed(t)
  PROVE  owner = t /\ owner # NoThread
BY ThreadsAssumption DEF IInv, LockInv, Performed

\* A step that moves no word and changes nobody's call is a stutter of the bus.
LEMMA QuietStep ==
  ASSUME IInv, IInv', UNCHANGED <<mem, call>>,
         \A u \in Threads : Performed(u)' <=> Performed(u),
         \A u \in Threads : Performed(u) => buf'[u] = buf[u]
  PROVE  UNCHANGED Bus!vars
<1>1. \A u \in Threads : Performed(u) => owner = u /\ owner' = u
  BY PerformedOwns, ThreadsAssumption DEF IInv, LockInv, Performed
<1>2. busReply' = busReply
  BY DEF busReply
<1>3. \A u \in Threads : Writing(u)' <=> Writing(u)
  BY DEF Writing
<1>4. CASE \E u \in Threads : Writing(u)
  <2> PICK u \in Threads : Writing(u)
    BY <1>4
  <2>1. owner' = owner
    BY <1>1 DEF Writing
  <2>2. busRegs' = busRegs
    BY <1>3, <2>1 DEF busRegs
  <2>3. QED
    BY <1>2, <2>2 DEF Bus!vars
<1>5. CASE ~ \E u \in Threads : Writing(u)
  <2>1. busRegs' = busRegs
    BY <1>3, <1>5 DEF busRegs
  <2>2. QED
    BY <1>2, <2>1 DEF Bus!vars
<1>6. QED
  BY <1>4, <1>5

\* The steps that neither start, perform nor end a call.
LEMMA StutterSteps ==
  ASSUME IInv, IInv', NEW t \in Threads,
         \/ EnterVector(t)
         \/ EnterWord(t)
         \/ SelectPage(t)
         \/ StorePage(t)
         \/ FlushWord(t)
         \/ LeaveWord(t) /\ IsVector(call[t])
  PROVE  UNCHANGED Bus!vars
<1>1. UNCHANGED <<mem, call, buf>>
  BY DEF EnterVector, EnterWord, SelectPage, StorePage, FlushWord, LeaveWord, hardware
<1>2. \A u \in Threads : u # t => (Performed(u)' <=> Performed(u))
  BY <1>1 DEF IInv, TypeOK, EnterVector, EnterWord, SelectPage, StorePage, FlushWord, LeaveWord,
     Performed, Holds, Transferred
<1>3. call[t] # NoCall
  BY DEF IInv, CallInv, EnterVector, EnterWord, SelectPage, StorePage, FlushWord, LeaveWord
<1>4. /\ call[t].n \in Nat \ {0} /\ i[t] \in Nat
  BY <1>3, CallFacts DEF IInv
<1>5. Performed(t)' <=> Performed(t)
  <2>1. CASE EnterVector(t) \/ (EnterWord(t) /\ ~ IsVector(call[t]))
    <3>1. ~ Holds(t) /\ Holds(t)' /\ Transferred(t)' = 0
      BY <2>1, <1>1, <1>3 DEF IInv, TypeOK, CallInv, EnterVector, EnterWord, Holds, Transferred
    <3>2. QED
      BY <3>1, <1>1, <1>4 DEF Performed
  <2>2. CASE \/ EnterWord(t) /\ IsVector(call[t])
             \/ SelectPage(t) \/ StorePage(t) \/ FlushWord(t)
             \/ LeaveWord(t) /\ IsVector(call[t])
    <3>1. Holds(t) /\ Holds(t)' /\ Transferred(t)' = Transferred(t)
      BY <2>2, <1>1, <1>4 DEF IInv, TypeOK, CallInv, EnterWord, SelectPage, StorePage, FlushWord,
         LeaveWord, Holds, Transferred
    <3>2. QED
      BY <3>1, <1>1 DEF Performed
  <2>3. QED
    BY <2>1, <2>2
<1>6. QED
  BY <1>1, <1>2, <1>5, QuietStep

\* A module's call is an invocation.
LEMMA CallInvokes ==
  ASSUME IInv, IInv', NEW t \in Threads, Call(t)
  PROVE  Bus!Invoke(t)
<1>1. call[t] = NoCall /\ \E c \in Calls : call' = [call EXCEPT ![t] = c]
  BY DEF IInv, CallInv, Call
<1>2. \A u \in Threads : (Performed(u)' <=> Performed(u)) /\ (Performed(u) => u # t)
  BY DEF IInv, TypeOK, Call, Performed, Holds, Transferred
<1>3. UNCHANGED <<mem, owner>> /\ \A u \in Threads : u # t => call'[u] = call[u] /\ buf'[u] = buf[u]
  BY DEF IInv, TypeOK, Call, hardware, mutex
<1>4. busReply' = busReply
  BY <1>2, <1>3 DEF busReply
<1>5. \A u \in Threads : Writing(u) => u = owner /\ u # t
  BY <1>2, PerformedOwns DEF Writing
<1>6. \A u \in Threads : Writing(u)' <=> Writing(u)
  BY <1>2, <1>3 DEF Writing
<1>7. busRegs' = busRegs
  BY <1>3, <1>5, <1>6 DEF busRegs
<1>8. QED
  BY <1>1, <1>4, <1>7 DEF Bus!Invoke

LEMMA WritePerforms ==
  ASSUME IInv, IInv', NEW t \in Threads, WriteWord(t)
  PROVE  Bus!Perform(t) \/ UNCHANGED Bus!vars
<1>1. /\ UNCHANGED <<call, owner, buf, i>>
      /\ call[t] # NoCall /\ i[t] < call[t].n /\ IsWrite(call[t])
      /\ Target(t) = Current(t)
  BY Targeted DEF WriteWord, IInv, CallInv, hardware, mutex
<1>2. owner = t /\ Holds(t) /\ Holds(t)'
  BY DEF IInv, TypeOK, LockInv, WriteWord, Holds
<1>3. i[t] \in Nat /\ Transferred(t) = i[t] /\ Transferred(t)' = i[t] + 1
  BY <1>1, CallFacts DEF WriteWord, IInv, TypeOK, Transferred
<1>4. /\ Writing(t)'
      /\ Writing(t) <=> i[t] > 0
  BY <1>1, <1>2, <1>3 DEF Writing, Performed
<1>5. \A u \in Threads : u # t => ~ Performed(u) /\ ~ Performed(u)'
  BY <1>1, <1>2 DEF IInv, LockInv, Performed
<1> DEFINE W == call[t].addr .. (call[t].addr + call[t].n - 1)
           new == [a \in Addr |-> IF a \in W THEN call[t].data[a - call[t].addr] ELSE mem[a]]
<1>6. \A a \in Addr \ W : mem'[a] = mem[a]
  <2>1. Current(t) \in W
    BY <1>1, <1>3, CallFacts DEF Current, IInv
  <2>2. QED
    BY <1>1, <2>1 DEF WriteWord, IInv, TypeOK
<1>7. busRegs' = new
  BY <1>1, <1>2, <1>4, <1>5, <1>6 DEF busRegs, Writing
<1>8. busReply' = [u \in Threads |-> IF u = t THEN Done ELSE NoReply]
  BY <1>1, <1>4, <1>5 DEF busReply, Writing
<1>9. CASE i[t] > 0
  <2>1. busRegs = new
    BY <1>2, <1>4, <1>5, <1>9 DEF busRegs, Writing
  <2>2. busReply = busReply'
    BY <1>1, <1>4, <1>5, <1>8, <1>9 DEF busReply, Writing
  <2>3. QED
    BY <1>1, <1>7, <2>1, <2>2 DEF Bus!vars
<1>10. CASE i[t] = 0
  <2>1. \A u \in Threads : ~ Performed(u)
    BY <1>1, <1>4, <1>5, <1>10 DEF Writing
  <2>2. busRegs = [a \in Addr |-> mem[a]]
    BY <2>1 DEF busRegs, Writing
  <2>3. busReply = [u \in Threads |-> NoReply]
    BY <2>1 DEF busReply
  <2>4. busRegs' = Bus!Overlay(call[t], busRegs)
    BY <1>7, <2>2 DEF Bus!Overlay, Bus!Range
  <2>5. busReply' = [busReply EXCEPT ![t] = Done]
    BY <1>8, <2>3
  <2>6. QED
    BY <1>1, <2>3, <2>4, <2>5 DEF Bus!Perform, Bus!IsWrite, IsWrite
<1>11. QED
  BY <1>3, <1>9, <1>10

LEMMA ReadPerforms ==
  ASSUME IInv, IInv', NEW t \in Threads, ReadWord(t)
  PROVE  Bus!Perform(t) \/ UNCHANGED Bus!vars
<1>1. /\ UNCHANGED <<mem, call, owner, i>>
      /\ call[t] # NoCall /\ i[t] < call[t].n /\ ~ IsWrite(call[t])
      /\ \A u \in Threads : u # t => buf'[u] = buf[u]
  BY DEF ReadWord, IInv, TypeOK, CallInv, hardware, mutex
<1>2. owner = t /\ Holds(t) /\ Holds(t)'
  BY DEF IInv, TypeOK, LockInv, ReadWord, Holds
<1>3. i[t] \in Nat /\ Transferred(t) = i[t] /\ Transferred(t)' = i[t] + 1
  BY <1>1, CallFacts DEF ReadWord, IInv, TypeOK, CallInv, Transferred
<1>4. \A u \in Threads : u # t => ~ Performed(u) /\ ~ Performed(u)'
  BY <1>1, <1>2 DEF IInv, LockInv, Performed
<1>5. ~ Performed(t)
  BY <1>1, <1>3, CallFacts DEF Performed, IInv
<1>6. busRegs = [a \in Addr |-> mem[a]]
  BY <1>4, <1>5 DEF busRegs, Writing
<1>7. busRegs' = [a \in Addr |-> mem[a]]
  BY <1>1, <1>4 DEF busRegs, Writing
<1>8. CASE i[t] + 1 # call[t].n
  BY <1>1, <1>3, <1>4, <1>5, <1>6, <1>7, <1>8, QuietStep DEF Performed
<1>9. CASE i[t] + 1 = call[t].n
  <2>1. Performed(t)'
    BY <1>1, <1>2, <1>3, <1>9 DEF Performed
  <2>2. busReply = [u \in Threads |-> NoReply]
    BY <1>4, <1>5 DEF busReply
  <2>3. buf'[t] = [j \in 0 .. (call[t].n - 1) |-> mem[call[t].addr + j]]
    BY <1>1, <1>2, <1>3, <1>9 DEF IInv, ReadInv
  <2>4. \A j \in 0 .. (call[t].n - 1) : call[t].addr + j \in Addr
    <3> TAKE j \in 0 .. (call[t].n - 1)
    <3>1. call[t].addr + j \in call[t].addr .. (call[t].addr + call[t].n - 1)
      BY <1>1, CallFacts DEF IInv
    <3>2. QED
      BY <1>1, <3>1, CallFacts DEF IInv
  <2>5. buf'[t] = Bus!Slice(call[t], busRegs)
    BY <1>6, <2>3, <2>4 DEF Bus!Slice
  <2>6. busReply' = [busReply EXCEPT ![t] = Bus!Slice(call[t], busRegs)]
    BY <1>1, <1>4, <2>1, <2>2, <2>5 DEF busReply
  <2>7. QED
    BY <1>1, <1>6, <1>7, <2>2, <2>6 DEF Bus!Perform, Bus!IsWrite, IsWrite
<1>10. QED
  BY <1>8, <1>9

\* The last unlock of a call is its return.
LEMMA UnlockReturns ==
  ASSUME IInv, IInv', NEW t \in Threads,
         \/ LeaveWord(t) /\ ~ IsVector(call[t])
         \/ LeaveVector(t)
  PROVE  Bus!Return(t)
<1>1. /\ UNCHANGED <<mem, buf, i, flushing>>
      /\ call[t] # NoCall /\ pc'[t] = "idle"
      /\ call' = [call EXCEPT ![t] = NoCall]
      /\ \A u \in Threads : u # t => pc'[u] = pc[u] /\ call'[u] = call[u]
  BY DEF IInv, TypeOK, CallInv, LeaveWord, LeaveVector, hardware
<1>2. owner = t /\ Holds(t)
  BY DEF IInv, LockInv, LeaveWord, LeaveVector, Holds
<1>3. i[t] \in Nat /\ Transferred(t) = call[t].n /\ call[t].n \in Nat \ {0}
  BY <1>1, CallFacts DEF IInv, CallInv, LeaveWord, LeaveVector, Transferred
<1>4. Performed(t) /\ ~ Performed(t)'
  BY <1>1, <1>2, <1>3 DEF Performed, Holds
<1>5. \A u \in Threads : u # t => ~ Performed(u)
  BY <1>2 DEF IInv, LockInv, Performed
<1>6. \A u \in Threads : ~ Performed(u)'
  BY <1>1, <1>4, <1>5 DEF Performed, Holds, Transferred
<1>7. busReply = [u \in Threads |-> IF u # t THEN NoReply
                                   ELSE IF IsWrite(call[t]) THEN Done ELSE buf[t]]
  BY <1>4, <1>5 DEF busReply
<1>8. busReply[t] # NoReply
  <2>1. CASE IsWrite(call[t])
    BY <1>7, <2>1, RepliesAssumption
  <2>2. CASE ~ IsWrite(call[t])
    <3>1. buf[t] = [j \in 0 .. (call[t].n - 1) |-> mem[call[t].addr + j]]
      BY <1>2, <1>3, <2>2 DEF IInv, ReadInv
    <3>2. \A j \in 0 .. (call[t].n - 1) : call[t].addr + j \in Addr
      <4> TAKE j \in 0 .. (call[t].n - 1)
      <4>1. call[t].addr + j \in call[t].addr .. (call[t].addr + call[t].n - 1)
        BY <1>1, CallFacts DEF IInv
      <4>2. QED
        BY <1>1, <4>1, CallFacts DEF IInv
    <3>3. buf[t] \in [0 .. (call[t].n - 1) -> Val]
      BY <3>1, <3>2 DEF IInv, TypeOK
    <3>4. QED
      BY <1>1, <1>7, <2>2, <3>3, CallFacts, RepliesAssumption DEF IInv
  <2>3. QED
    BY <2>1, <2>2
<1>9. busReply' = [busReply EXCEPT ![t] = NoReply]
  BY <1>6, <1>7 DEF busReply
<1>10. busRegs' = [a \in Addr |-> mem[a]]
  BY <1>1, <1>6 DEF busRegs, Writing
<1>11. busRegs = [a \in Addr |-> mem[a]]
  <2>1. CASE IsWrite(call[t])
    <3>1. ASSUME NEW a \in Addr, a \in call[t].addr .. (call[t].addr + call[t].n - 1)
          PROVE  call[t].data[a - call[t].addr] = mem[a]
      <4>1. a - call[t].addr \in 0 .. (Transferred(t) - 1) /\ call[t].addr + (a - call[t].addr) = a
        BY <1>1, <1>3, <3>1, CallFacts DEF IInv
      <4>2. QED
        BY <1>2, <2>1, <4>1 DEF IInv, WriteInv
    <3>2. QED
      BY <1>2, <1>5, <3>1 DEF busRegs, Writing
  <2>2. CASE ~ IsWrite(call[t])
    BY <1>5, <2>2 DEF busRegs, Writing
  <2>3. QED
    BY <2>1, <2>2
<1>12. QED
  BY <1>1, <1>8, <1>9, <1>10, <1>11 DEF Bus!Return

\* The paged, cached and locked accesses implement the bank of atomic registers
\* that the modules of the library are written against.
THEOREM Refinement == Spec => BusSpec
<1>1. Init => Bus!Init
  <2> SUFFICES ASSUME Init PROVE Bus!Init
    OBVIOUS
  <2>1. \A t \in Threads : ~ Performed(t)
    BY DEF Init, Performed, Holds
  <2>2. busRegs = [a \in Addr |-> mem[a]] /\ busReply = [t \in Threads |-> NoReply]
    BY <2>1 DEF busRegs, busReply, Writing
  <2>3. QED
    BY <2>2 DEF Init, Bus!Init
<1>2. IInv /\ IInv' /\ [Next]_vars => [Bus!Next]_Bus!vars
  <2> SUFFICES ASSUME IInv, IInv', [Next]_vars PROVE [Bus!Next]_Bus!vars
    OBVIOUS
  <2>1. ASSUME NEW t \in Threads, Call(t) \/ Step(t)
        PROVE  (\/ Bus!Invoke(t) \/ Bus!Perform(t) \/ Bus!Return(t)) \/ UNCHANGED Bus!vars
    <3>1. CASE Call(t)
      BY <3>1, CallInvokes
    <3>2. CASE WriteWord(t)
      BY <3>2, WritePerforms
    <3>3. CASE ReadWord(t)
      BY <3>3, ReadPerforms
    <3>4. CASE (LeaveWord(t) /\ ~ IsVector(call[t])) \/ LeaveVector(t)
      BY <3>4, UnlockReturns
    <3>5. CASE \/ EnterVector(t)
               \/ EnterWord(t)
               \/ SelectPage(t)
               \/ StorePage(t)
               \/ FlushWord(t)
               \/ LeaveWord(t) /\ IsVector(call[t])
      BY <3>5, StutterSteps
    <3>6. QED
      BY <2>1, <3>1, <3>2, <3>3, <3>4, <3>5 DEF Step
  <2>2. CASE UNCHANGED vars
    BY <2>2 DEF vars, Bus!vars, busRegs, busReply, Writing, Performed, Holds, Transferred
  <2>3. QED
    BY <2>1, <2>2 DEF Next, Bus!Next
<1>3. QED
  BY <1>1, <1>2, Invariance, PTL DEF Spec, BusSpec, Bus!Spec
==============================================================================
