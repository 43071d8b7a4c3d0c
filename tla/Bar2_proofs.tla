----------------------------- MODULE Bar2_proofs -----------------------------
(* Proofs about Bar2, for every page size, block, line and vector, every   *)
(* set of threads and of requests, with SSE4.1 and without.                *)
EXTENDS Bar2, TLAPS

Inside == {"segment", "copy", "fault"}

\* What holds of one thread: it has the mutex while it reads, its position agrees
\* with its request, and the page it has selected stays selected.
ThreadInv(t) ==
  /\ pc[t] \in Inside => owner = t
  /\ pc[t] # "idle" => addr[t] = call[t].addr + base[t] /\ left[t] + base[t] = call[t].n
  /\ pc[t] \in {"enter", "segment"} => i[t] = 0
  /\ pc[t] = "copy" => i[t] <= ToRead(t) /\ left[t] # 0 /\ sdramPage = Page(addr[t])
  /\ \A k \in 0 .. (Copied(t) - 1) : buf[t][k] = call[t].addr + k

IInv == TypeOK /\ \A t \in Threads : ThreadInv(t)

-----------------------------------------------------------------------------
(* Pages.                                                                  *)

\* A word at a distance from an address is at the same distance from its offset.
LEMMA DecodeSplit ==
  ASSUME NEW a \in Nat, NEW m \in Nat
  PROVE  /\ Page(a) \in Nat
         /\ Offset(a) \in 0 .. (PageSize - 1)
         /\ Decode(Page(a), Offset(a) + m) = a + m
<1>1. PageSize \in Nat \ {0}
  BY WindowAssumption
<1>2. a = PageSize * (a \div PageSize) + (a % PageSize)
      /\ a % PageSize \in 0 .. (PageSize - 1) /\ a \div PageSize \in Nat
  BY <1>1, SMTT(30)
<1>3. PageSize * (a \div PageSize) = (a \div PageSize) * PageSize
  BY <1>1, <1>2, SMTT(30)
<1>4. QED
  BY <1>1, <1>2, <1>3, SMTT(30) DEF Page, Offset, Decode

\* A segment is not empty, stays inside of BAR2 and does not go beyond the request.
LEMMA SegmentBounds ==
  ASSUME TypeOK, NEW t \in Threads, left[t] # 0
  PROVE  ToRead(t) \in Nat \ {0} /\ ToRead(t) <= left[t]
<1>1. addr[t] \in Nat /\ left[t] \in Nat
  BY DEF TypeOK
<1>2. Offset(addr[t]) \in 0 .. (PageSize - 1)
  BY <1>1, DecodeSplit
<1>3. QED
  BY <1>1, <1>2, WindowAssumption DEF ToRead

LEMMA RequestFacts ==
  ASSUME TypeOK, NEW t \in Threads
  PROVE  call[t] \in Requests /\ call[t].addr \in Nat /\ call[t].n \in Nat
BY RequestsAssumption DEF TypeOK

\* Copying keeps what has been copied right, and extends it.
LEMMA CopyEffect ==
  ASSUME IInv, NEW t \in Threads, NEW n \in Nat, pc[t] = "copy", Copy(t, n),
         i[t] + n <= ToRead(t), UNCHANGED <<call, base>>
  PROVE  /\ i' \in [Threads -> Nat] /\ i'[t] = i[t] + n
         /\ buf' = [u \in Threads |-> buf'[u]]
         /\ buf'[t] \in [0 .. (call[t].n - 1) -> Nat \cup {Nothing}]
         /\ \A k \in 0 .. (base[t] + i'[t] - 1) : buf'[t][k] = call[t].addr + k
         /\ \A u \in Threads \ {t} : i'[u] = i[u] /\ buf'[u] = buf[u]
<1>1. /\ TypeOK /\ ThreadInv(t) /\ base[t] \in Nat /\ i[t] \in Nat /\ addr[t] \in Nat
      /\ left[t] \in Nat /\ call[t].addr \in Nat /\ call[t].n \in Nat
  BY RequestFacts DEF IInv, TypeOK
<1>2. i' \in [Threads -> Nat] /\ i'[t] = i[t] + n /\ \A u \in Threads \ {t} : i'[u] = i[u]
  BY <1>1 DEF Copy, TypeOK
<1>3. buf' = [u \in Threads |-> buf'[u]] /\ \A u \in Threads \ {t} : buf'[u] = buf[u]
  BY <1>1 DEF Copy, TypeOK
<1>4. buf'[t] = [j \in DOMAIN buf[t] |->
                   IF j \in base[t] + i[t] .. base[t] + i[t] + n - 1
                     THEN Decode(sdramPage, Offset(addr[t]) + (j - base[t])) ELSE buf[t][j]]
  BY <1>1 DEF Copy, TypeOK
<1>5. buf[t] \in [0 .. (call[t].n - 1) -> Nat \cup {Nothing}]
  BY <1>1 DEF TypeOK
<1>6. ASSUME NEW j \in base[t] + i[t] .. base[t] + i[t] + n - 1
      PROVE  Decode(sdramPage, Offset(addr[t]) + (j - base[t])) = call[t].addr + j
  <2>1. j - base[t] \in Nat /\ sdramPage = Page(addr[t]) /\ addr[t] = call[t].addr + base[t]
    BY <1>1 DEF ThreadInv
  <2>2. Decode(Page(addr[t]), Offset(addr[t]) + (j - base[t])) = addr[t] + (j - base[t])
    BY <1>1, <2>1, DecodeSplit
  <2>3. QED
    BY <1>1, <2>1, <2>2
<1>7. ASSUME NEW j \in 0 .. (call[t].n - 1)
      PROVE  buf'[t][j] = IF j \in base[t] + i[t] .. base[t] + i[t] + n - 1
                            THEN call[t].addr + j ELSE buf[t][j]
  BY <1>4, <1>5, <1>6
<1>8. buf'[t] \in [0 .. (call[t].n - 1) -> Nat \cup {Nothing}]
  <2>1. ASSUME NEW j \in 0 .. (call[t].n - 1) PROVE buf'[t][j] \in Nat \cup {Nothing}
    <3>1. CASE j \in base[t] + i[t] .. base[t] + i[t] + n - 1
      <4>1. j \in Nat /\ call[t].addr + j \in Nat
        BY <1>1
      <4>2. QED
        BY <1>7, <3>1, <4>1
    <3>2. CASE j \notin base[t] + i[t] .. base[t] + i[t] + n - 1
      <4>1. buf'[t][j] = buf[t][j]
        BY <1>7, <3>2
      <4>2. QED
        BY <1>5, <4>1
    <3>3. QED
      BY <3>1, <3>2
  <2>2. buf'[t] = [j \in 0 .. (call[t].n - 1) |-> buf'[t][j]]
    BY <1>4, <1>5
  <2>3. QED
    BY <2>1, <2>2
<1>9. base[t] + i[t] + n <= call[t].n
  BY <1>1, SegmentBounds DEF ThreadInv
<1>10. ASSUME NEW k \in 0 .. (base[t] + i'[t] - 1) PROVE buf'[t][k] = call[t].addr + k
  <2>1. k \in 0 .. (call[t].n - 1)
    BY <1>1, <1>2, <1>9
  <2>2. CASE k \in base[t] + i[t] .. base[t] + i[t] + n - 1
    BY <1>7, <2>1, <2>2
  <2>3. CASE k \in 0 .. (base[t] + i[t] - 1)
    BY <1>1, <1>7, <2>1, <2>3 DEF ThreadInv, Copied
  <2>4. QED
    BY <1>1, <1>2, <2>2, <2>3
<1>11. QED
  BY <1>2, <1>3, <1>8, <1>10

-----------------------------------------------------------------------------
(* The steps.                                                              *)

\* A thread's invariant does not depend on the others but through the mutex and
\* the page.
LEMMA Others ==
  ASSUME IInv, TypeOK', NEW t \in Threads, ThreadInv(t)',
         \A u \in Threads \ {t} :
           /\ pc'[u] = pc[u] /\ call'[u] = call[u] /\ addr'[u] = addr[u]
           /\ left'[u] = left[u] /\ base'[u] = base[u] /\ i'[u] = i[u] /\ buf'[u] = buf[u]
           /\ pc[u] \in Inside => owner' = owner /\ sdramPage' = sdramPage
  PROVE  IInv'
<1>1. ASSUME NEW u \in Threads \ {t} PROVE ThreadInv(u)'
  <2>1. ThreadInv(u)
    BY DEF IInv
  <2>2. ToRead(u)' = ToRead(u)
    BY DEF ToRead
  <2>3. Copied(u)' = Copied(u)
    BY DEF Copied
  <2>4. QED
    BY <2>1, <2>2, <2>3 DEF ThreadInv, Inside
<1>2. QED
  BY <1>1 DEF IInv

LEMMA InitInv == Init => IInv
<1> SUFFICES ASSUME Init PROVE IInv
  OBVIOUS
<1>1. TypeOK
  BY DEF Init, TypeOK
<1>2. ASSUME NEW t \in Threads PROVE ThreadInv(t)
  BY DEF Init, ThreadInv, Inside, Copied
<1>3. QED
  BY <1>1, <1>2 DEF IInv

LEMMA CallPreserves ==
  ASSUME IInv, NEW t \in Threads, Call(t)
  PROVE  IInv'
<1>1. PICK r \in Requests :
        /\ call' = [call EXCEPT ![t] = r]
        /\ buf' = [buf EXCEPT ![t] = [k \in 0 .. (r.n - 1) |-> Nothing]]
        /\ addr' = [addr EXCEPT ![t] = r.addr]
        /\ left' = [left EXCEPT ![t] = r.n]
  BY DEF Call
<1>2. /\ TypeOK /\ r.addr \in Nat /\ r.n \in Nat
      /\ pc' = [pc EXCEPT ![t] = "enter"]
      /\ base' = [base EXCEPT ![t] = 0] /\ i' = [i EXCEPT ![t] = 0]
      /\ UNCHANGED <<sdramPage, owner>>
  BY RequestsAssumption DEF Call, IInv
<1>3. /\ call'[t] = r /\ addr'[t] = r.addr /\ left'[t] = r.n /\ base'[t] = 0 /\ i'[t] = 0
      /\ pc'[t] = "enter" /\ buf'[t] = [k \in 0 .. (r.n - 1) |-> Nothing]
  BY <1>1, <1>2 DEF TypeOK
<1>4. \A u \in Threads \ {t} :
        /\ pc'[u] = pc[u] /\ call'[u] = call[u] /\ addr'[u] = addr[u]
        /\ left'[u] = left[u] /\ base'[u] = base[u] /\ i'[u] = i[u] /\ buf'[u] = buf[u]
  BY <1>1, <1>2 DEF TypeOK
<1>5. TypeOK'
  <2>1. \A u \in Threads : buf'[u] \in [0 .. (call'[u].n - 1) -> Nat \cup {Nothing}]
    <3>1. buf'[t] \in [0 .. (call'[t].n - 1) -> Nat \cup {Nothing}]
      BY <1>3, Zenon
    <3>2. ASSUME NEW u \in Threads \ {t}
          PROVE  buf'[u] \in [0 .. (call'[u].n - 1) -> Nat \cup {Nothing}]
      <4>1. buf[u] \in [0 .. (call[u].n - 1) -> Nat \cup {Nothing}]
        BY <1>2, Zenon DEF TypeOK
      <4>2. QED
        BY <1>4, <4>1, Zenon
    <3>3. QED
      BY <3>1, <3>2, Zenon
  <2>2. buf' = [u \in Threads |-> buf'[u]]
    BY <1>1, <1>2 DEF TypeOK
  <2>3. QED
    BY <1>1, <1>2, <2>1, <2>2 DEF TypeOK
<1>6. ThreadInv(t)'
  BY <1>2, <1>3 DEF ThreadInv, Inside, Copied
<1>7. QED
  BY <1>2, <1>4, <1>5, <1>6, Others

LEMMA EnterPreserves ==
  ASSUME IInv, NEW t \in Threads, Enter(t)
  PROVE  IInv'
<1>1. TypeOK /\ ThreadInv(t)
  BY DEF IInv
<1>2. TypeOK'
  BY <1>1 DEF Enter, TypeOK, position
<1>3. ThreadInv(t)'
  BY <1>1 DEF Enter, TypeOK, position, ThreadInv, Inside, Copied
<1>4. ASSUME NEW u \in Threads PROVE pc[u] \notin Inside
  BY ThreadsAssumption DEF IInv, ThreadInv, Enter
<1>5. QED
  BY <1>1, <1>2, <1>3, <1>4, Others DEF Enter, TypeOK, position

LEMMA SelectPagePreserves ==
  ASSUME IInv, NEW t \in Threads, SelectPage(t)
  PROVE  IInv'
<1>1. TypeOK /\ ThreadInv(t) /\ pc[t] = "segment" /\ owner = t /\ addr[t] \in Nat /\ left[t] # 0
  BY DEF IInv, SelectPage, ThreadInv, Inside, TypeOK
<1>2. /\ sdramPage' = Page(addr[t]) /\ sdramPage' \in Nat
      /\ i' = [i EXCEPT ![t] = 0] /\ i'[t] = 0 /\ i[t] = 0
      /\ pc' = [pc EXCEPT ![t] = "copy"] /\ pc'[t] = "copy"
      /\ UNCHANGED <<owner, call, addr, left, base, buf>>
  BY <1>1, DecodeSplit DEF SelectPage, TypeOK, ThreadInv
<1>3. TypeOK'
  BY <1>1, <1>2 DEF TypeOK
<1>4. ToRead(t)' = ToRead(t) /\ Copied(t)' = Copied(t) /\ ToRead(t) \in Nat
  BY <1>1, <1>2, SegmentBounds DEF ToRead, Copied
<1>5. ThreadInv(t)'
  BY <1>1, <1>2, <1>4 DEF ThreadInv, Inside
<1>6. ASSUME NEW u \in Threads \ {t} PROVE pc[u] \notin Inside
  BY <1>1 DEF IInv, ThreadInv
<1>7. QED
  BY <1>1, <1>2, <1>3, <1>5, <1>6, Others DEF TypeOK

LEMMA CopyPreserves ==
  ASSUME IInv, NEW t \in Threads, NEW n \in Nat, pc[t] = "copy", Copy(t, n),
         i[t] + n <= ToRead(t),
         UNCHANGED <<sdramPage, owner, pc, call, addr, left, base>>
  PROVE  IInv'
<1>1. TypeOK /\ ThreadInv(t)
  BY DEF IInv
<1>2. \A u \in Threads : buf'[u] \in [0 .. (call[u].n - 1) -> Nat \cup {Nothing}]
  BY <1>1, CopyEffect DEF TypeOK
<1>3. TypeOK'
  BY <1>1, <1>2, CopyEffect DEF TypeOK
<1>4. ToRead(t)' = ToRead(t) /\ Copied(t)' = base[t] + i'[t]
  BY DEF ToRead, Copied
<1>5. /\ i'[t] = i[t] + n /\ i' \in [Threads -> Nat]
      /\ \A k \in 0 .. (base[t] + i'[t] - 1) : buf'[t][k] = call[t].addr + k
      /\ \A u \in Threads \ {t} : i'[u] = i[u] /\ buf'[u] = buf[u]
  BY CopyEffect
<1>6. ASSUME NEW k \in 0 .. (Copied(t)' - 1) PROVE buf'[t][k] = call'[t].addr + k
  <2>1. k \in 0 .. (base[t] + i'[t] - 1)
    <3>1. base[t] \in Nat /\ i'[t] \in Nat
      BY <1>1, <1>5 DEF TypeOK
    <3>2. QED
      BY <1>4, <3>1
  <2>2. call' = call
    OBVIOUS
  <2>3. QED
    BY <1>5, <2>1, <2>2
<1>7. ThreadInv(t)'
  BY <1>1, <1>4, <1>5, <1>6 DEF ThreadInv, Inside
<1>8. QED
  BY <1>3, <1>5, <1>7, Others

LEMMA CopyStepPreserves ==
  ASSUME IInv, NEW t \in Threads, CopyWord(t) \/ CopyBlock(t)
  PROVE  IInv'
<1>1. TypeOK /\ ThreadInv(t) /\ pc[t] = "copy" /\ i[t] \in Nat /\ left[t] # 0
  BY DEF IInv, CopyWord, CopyBlock, TypeOK, ThreadInv
<1>2. ToRead(t) \in Nat /\ Block \in Nat
  BY <1>1, SegmentBounds, VectorAssumption
<1>3. CASE CopyWord(t)
  BY <1>1, <1>2, <1>3, CopyPreserves DEF CopyWord
<1>4. CASE CopyBlock(t) /\ StoreAligned(t)
  BY <1>1, <1>2, <1>4, CopyPreserves DEF CopyBlock, InBlock
<1>5. CASE CopyBlock(t) /\ ~ StoreAligned(t)
  <2>1. /\ pc' = [pc EXCEPT ![t] = "fault"]
        /\ UNCHANGED <<sdramPage, owner, call, addr, left, base, i, buf>>
    BY <1>5 DEF CopyBlock
  <2>2. TypeOK' /\ ThreadInv(t)'
    BY <1>1, <2>1 DEF TypeOK, ThreadInv, Inside, Copied
  <2>3. QED
    BY <1>1, <2>1, <2>2, Others DEF TypeOK
<1>6. QED
  BY <1>3, <1>4, <1>5

LEMMA AdvancePreserves ==
  ASSUME IInv, NEW t \in Threads, Advance(t)
  PROVE  IInv'
<1>1. /\ TypeOK /\ ThreadInv(t) /\ pc[t] = "copy" /\ i[t] = ToRead(t) /\ left[t] # 0
      /\ addr[t] \in Nat /\ left[t] \in Nat /\ base[t] \in Nat /\ i[t] \in Nat
      /\ call[t].addr \in Nat /\ call[t].n \in Nat
  BY RequestFacts DEF IInv, Advance, TypeOK, ThreadInv
<1>2. ToRead(t) \in Nat /\ ToRead(t) <= left[t]
  BY <1>1, SegmentBounds
<1>3. /\ left'[t] = left[t] - i[t] /\ addr'[t] = addr[t] + i[t] /\ base'[t] = base[t] + i[t]
      /\ i'[t] = 0 /\ pc'[t] = "segment" /\ UNCHANGED <<sdramPage, owner, call, buf>>
  BY <1>1 DEF Advance, TypeOK
<1>4. \A u \in Threads \ {t} :
        /\ pc'[u] = pc[u] /\ addr'[u] = addr[u] /\ left'[u] = left[u]
        /\ base'[u] = base[u] /\ i'[u] = i[u]
  BY <1>1 DEF Advance, TypeOK
<1>5. TypeOK'
  <2>1. left[t] - i[t] \in Nat /\ addr[t] + i[t] \in Nat /\ base[t] + i[t] \in Nat
    BY <1>1, <1>2
  <2>2. /\ left' = [left EXCEPT ![t] = left[t] - i[t]] /\ left \in [Threads -> Nat]
        /\ addr' = [addr EXCEPT ![t] = addr[t] + i[t]] /\ addr \in [Threads -> Nat]
        /\ base' = [base EXCEPT ![t] = base[t] + i[t]] /\ base \in [Threads -> Nat]
        /\ i' = [i EXCEPT ![t] = 0] /\ i \in [Threads -> Nat]
        /\ pc' = [pc EXCEPT ![t] = "segment"]
    BY <1>1 DEF Advance, TypeOK
  <2>3. /\ left' \in [Threads -> Nat] /\ addr' \in [Threads -> Nat]
        /\ base' \in [Threads -> Nat] /\ i' \in [Threads -> Nat]
    BY <2>1, <2>2
  <2>4. QED
    BY <1>1, <1>3, <2>2, <2>3 DEF TypeOK
<1>6. Copied(t)' = Copied(t)
  BY <1>1, <1>3 DEF Copied
<1>7. ThreadInv(t)'
  BY <1>1, <1>3, <1>6 DEF ThreadInv, Inside
<1>8. QED
  BY <1>3, <1>4, <1>5, <1>7, Others

LEMMA LeavePreserves ==
  ASSUME IInv, NEW t \in Threads, Leave(t)
  PROVE  IInv'
<1>1. TypeOK /\ ThreadInv(t) /\ pc[t] = "segment" /\ owner = t
  BY DEF IInv, Leave, ThreadInv, Inside
<1>2. TypeOK'
  BY <1>1 DEF Leave, TypeOK, position
<1>3. ThreadInv(t)'
  BY <1>1 DEF Leave, TypeOK, position, ThreadInv, Inside, Copied
<1>4. ASSUME NEW u \in Threads \ {t} PROVE pc[u] \notin Inside
  BY <1>1 DEF IInv, ThreadInv
<1>5. QED
  BY <1>1, <1>2, <1>3, <1>4, Others DEF Leave, TypeOK, position

\* The invariant holds in every reachable state.
THEOREM Invariance == Spec => []IInv
<1>1. IInv /\ [Next]_vars => IInv'
  <2> SUFFICES ASSUME IInv, [Next]_vars PROVE IInv'
    OBVIOUS
  <2>1. CASE Next
    BY <2>1, CallPreserves, EnterPreserves, SelectPagePreserves, CopyStepPreserves,
       AdvancePreserves, LeavePreserves DEF Next, Step
  <2>2. CASE UNCHANGED vars
    BY <2>2 DEF vars, position, IInv, TypeOK, ThreadInv, ToRead, Copied
  <2>3. QED
    BY <2>1, <2>2
<1>2. QED
  BY <1>1, InitInv, PTL DEF Spec

-----------------------------------------------------------------------------
\* At every moment of every read the words copied so far are the right ones, for
\* every page and block size and every number of threads.
THEOREM Copies == Spec => []CopyRight
<1>1. IInv => CopyRight
  BY DEF IInv, ThreadInv, CopyRight
<1>2. QED
  BY <1>1, Invariance, PTL

\* A read returns with all of its words.
THEOREM Whole == Spec => ReturnsWhole
<1>1. ASSUME IInv, [Next]_vars, NEW t \in Threads, pc[t] = "segment", pc'[t] = "idle"
      PROVE  \A k \in DOMAIN buf[t] : buf[t][k] = call[t].addr + k
  <2>1. Leave(t)
    <3>1. PICK u \in Threads : Call(u) \/ Step(u)
      BY <1>1 DEF Next, vars
    <3>2. TypeOK /\ (u # t => pc'[t] = pc[t])
      BY <1>1, <3>1 DEF IInv, TypeOK, Step, Call, Enter, SelectPage, CopyWord, CopyBlock,
         Advance, Leave
    <3>3. u = t
      BY <1>1, <3>2
    <3>4. QED
      BY <1>1, <3>1, <3>2, <3>3 DEF TypeOK, Step, Call, Enter, SelectPage, CopyWord, CopyBlock,
         Advance, Leave
  <2>2. /\ ThreadInv(t) /\ TypeOK /\ left[t] = 0 /\ base[t] \in Nat /\ i[t] \in Nat
        /\ call[t].n \in Nat
    BY <1>1, <2>1, RequestFacts DEF Leave, IInv, TypeOK
  <2>3. Copied(t) = call[t].n /\ DOMAIN buf[t] = 0 .. (call[t].n - 1)
    BY <1>1, <2>2 DEF ThreadInv, Copied, TypeOK
  <2>4. QED
    BY <2>2, <2>3 DEF ThreadInv
<1>2. IInv /\ [Next]_vars =>
        [\A t \in Threads : pc[t] = "segment" /\ pc'[t] = "idle" =>
           \A k \in DOMAIN buf[t] : buf[t][k] = call[t].addr + k]_vars
  BY <1>1
<1>3. QED
  BY <1>2, Invariance, PTL DEF Spec, ReturnsWhole

-----------------------------------------------------------------------------
(* Alignment.                                                              *)

\* Multiples of a vector, with the number of vectors they are.
LEMMA MultipleIs ==
  ASSUME NEW V \in Nat \ {0}, NEW x \in Int
  PROVE  x % V = 0 <=> \E k \in Int : x = V*k
<1>1. ASSUME x % V = 0 PROVE \E k \in Int : x = V*k
  <2>1. x = V * (x \div V) + (x % V) /\ x \div V \in Int
    OBVIOUS
  <2>2. QED
    BY <1>1, <2>1
<1>2. ASSUME NEW k \in Int, x = V*k PROVE x % V = 0
  BY <1>2
<1>3. QED
  BY <1>1, <1>2

LEMMA MultiplesAdd ==
  ASSUME NEW V \in Nat \ {0}, NEW x \in Int, NEW y \in Int, x % V = 0, y % V = 0
  PROVE  (x + y) % V = 0 /\ (x - y) % V = 0
<1>1. PICK k \in Int, m \in Int : x = V*k /\ y = V*m
  BY MultipleIs
<1>2. PICK s \in Int, d \in Int, j \in Int, h \in Int :
        s = x + y /\ d = x - y /\ j = k + m /\ h = k - m
  OBVIOUS
<1>3. s = V*j /\ d = V*h
  BY <1>1, <1>2
<1>4. s % V = 0 /\ d % V = 0
  BY <1>3, MultipleIs, Zenon
<1>5. QED
  BY <1>2, <1>4, Zenon

\* Two addresses that are alike differ by whole vectors.
LEMMA AlikeDiffer ==
  ASSUME NEW V \in Nat \ {0}, NEW x \in Int, NEW y \in Int, x % V = y % V
  PROVE  (y - x) % V = 0
<1>1. PICK k \in Int, m \in Int, r \in Int : x = V*k + r /\ y = V*m + r
  <2>1. x = V * (x \div V) + (x % V) /\ x \div V \in Int /\ x % V \in Int
    OBVIOUS
  <2>2. y = V * (y \div V) + (y % V) /\ y \div V \in Int
    OBVIOUS
  <2>3. QED
    BY <2>1, <2>2
<1>2. PICK d \in Int, h \in Int : d = y - x /\ h = m - k
  OBVIOUS
<1>3. d = V*h
  <2>1. d = V*m - V*k /\ V*m \in Int /\ V*k \in Int
    BY <1>1, <1>2
  <2>2. V*(m - k) = V*m - V*k
    OBVIOUS
  <2>3. QED
    BY <1>2, <2>1, <2>2
<1>4. d % V = 0
  BY <1>3, MultipleIs, Zenon
<1>5. QED
  BY <1>2, <1>4, Zenon

\* The words before the first block end at a line: whoever is past them is at a vector of
\* BAR2, or has no block left to copy.
AlignInv(t) ==
  /\ pc[t] = "copy" /\ Sse =>
       \/ i[t] <= Head(t)
       \/ i[t] + Block > ToRead(t)
       \/ (Offset(addr[t]) + i[t]) % Vector = 0
  /\ pc[t] = "fault" => ~ Alike(t)

\* The head goes up to a line.
LEMMA HeadAligns ==
  ASSUME IInv, NEW t \in Threads
  PROVE  /\ Head(t) \in Nat /\ Offset(addr[t]) \in Nat
         /\ (Offset(addr[t]) + Head(t)) % Vector = 0
<1>1. PICK o \in Nat : o = Offset(addr[t])
  <2>1. addr[t] \in Nat
    BY DEF IInv, TypeOK
  <2>2. Offset(addr[t]) \in 0 .. (PageSize - 1)
    BY <2>1, DecodeSplit
  <2>3. QED
    BY <2>2, WindowAssumption
<1>2. Vector \in Nat \ {0} /\ Line \in Nat \ {0} /\ Line % Vector = 0
  BY VectorAssumption, UnitsAssumption
<1>3. PICK q \in Int, r \in Nat : o = Line*q + r /\ r = o % Line /\ r < Line
  <2>1. o = Line * (o \div Line) + (o % Line) /\ o \div Line \in Int
        /\ o % Line \in Nat /\ o % Line < Line
    BY <1>2
  <2>2. QED
    BY <2>1
<1>4. Head(t) = IF r = 0 THEN 0 ELSE Line - r
  BY <1>1, <1>3 DEF Head, Misalignment
<1>5. PICK p \in Int : p = IF r = 0 THEN q ELSE q + 1
  OBVIOUS
<1>6. o + Head(t) = Line*p /\ Head(t) \in Nat
  <2>1. Line*(q + 1) = Line*q + Line /\ Line*q \in Int
    BY <1>2
  <2>2. QED
    BY <1>2, <1>3, <1>4, <1>5, <2>1
<1>7. (Line*p) % Vector = 0
  <2>1. PICK k \in Int : Line = Vector*k
    BY <1>2, MultipleIs
  <2>2. Line*p = Vector*(k*p)
    BY <1>2, <2>1
  <2>3. Line*p \in Int /\ k*p \in Int
    BY <1>2
  <2>4. QED
    BY <1>2, <2>2, <2>3, MultipleIs
<1>8. QED
  BY <1>1, <1>6, <1>7

\* A block begins at a vector of BAR2.
LEMMA BlockAligned ==
  ASSUME IInv, NEW t \in Threads, AlignInv(t), pc[t] = "copy", InBlock(t)
  PROVE  (Offset(addr[t]) + i[t]) % Vector = 0
<1>1. i[t] \in Nat /\ Block \in Nat /\ ToRead(t) \in Nat
  BY VectorAssumption, SegmentBounds DEF IInv, TypeOK, ThreadInv
<1>2. i[t] <= Head(t) => i[t] = Head(t)
  BY <1>1, HeadAligns DEF InBlock
<1>3. QED
  BY <1>1, <1>2, HeadAligns DEF AlignInv, InBlock

\* ... and so of dest, when the two are alike.
LEMMA StoresAligned ==
  ASSUME IInv, NEW t \in Threads, AlignInv(t), pc[t] = "copy", InBlock(t), Alike(t)
  PROVE  StoreAligned(t)
<1>1. PICK V \in Nat \ {0} : V = Vector
  BY VectorAssumption
<1>2. PICK a \in Nat, n \in Nat, d \in Nat, c \in Nat, o \in Nat, p \in Nat :
        /\ a = addr[t] /\ n = i[t] /\ d = call[t].dest /\ c = call[t].addr
        /\ o = Offset(a) /\ p = Page(a)
  <2>1. TypeOK /\ addr[t] \in Nat /\ i[t] \in Nat
    BY DEF IInv, TypeOK
  <2>2. call[t].dest \in Nat /\ call[t].addr \in Nat
    BY <2>1, RequestsAssumption DEF TypeOK
  <2>3. Offset(addr[t]) \in Nat /\ Page(addr[t]) \in Nat
    <3>1. Offset(addr[t]) \in 0 .. (PageSize - 1) /\ Page(addr[t]) \in Nat
      BY <2>1, DecodeSplit
    <3>2. QED
      BY <3>1, WindowAssumption
  <2>4. QED
    BY <2>1, <2>2, <2>3, Zenon
<1>3. PICK b \in Nat : b = base[t] /\ a = c + b
  BY <1>2 DEF IInv, TypeOK, ThreadInv
<1>4. (o + n) % V = 0
  BY <1>1, <1>2, BlockAligned
<1>5. PICK w \in Int : w = p * PageSize /\ a = w + o /\ w % V = 0
  <2>1. PageSize \in Nat \ {0} /\ PageSize % V = 0
    BY <1>1, WindowAssumption, UnitsAssumption
  <2>2. Decode(p, o + 0) = a + 0
    BY <1>2, DecodeSplit
  <2>3. PICK w \in Int : w = p * PageSize
    BY <2>1
  <2>4. a = w + o
    BY <1>2, <2>2, <2>3 DEF Decode
  <2>5. PICK k \in Int : PageSize = V*k
    BY <2>1, MultipleIs
  <2>6. w = V*(k*p) /\ k*p \in Int
    BY <2>1, <2>3, <2>5
  <2>7. w % V = 0
    BY <2>6, MultipleIs
  <2>8. QED
    BY <2>3, <2>4, <2>7
<1>6. (d - c) % V = 0
  BY <1>1, <1>2, AlikeDiffer DEF Alike
<1>7. PICK x \in Int : x = (w + (o + n)) /\ x % V = 0
  <2>1. (w + (o + n)) % V = 0
    BY <1>4, <1>5, MultiplesAdd
  <2>2. w + (o + n) \in Int
    OBVIOUS
  <2>3. QED
    BY <2>1, <2>2
<1>8. (x + (d - c)) % V = 0
  <2>1. d - c \in Int
    OBVIOUS
  <2>2. QED
    BY <1>6, <1>7, <2>1, MultiplesAdd
<1>9. d + b + n = x + (d - c)
  <2>1. a = c + b
    BY <1>3
  <2>2. a = w + o
    BY <1>5
  <2>3. x = w + (o + n)
    BY <1>7
  <2>4. QED
    BY <2>1, <2>2, <2>3
<1>10. QED
  BY <1>1, <1>2, <1>3, <1>8, <1>9 DEF StoreAligned

LEMMA AlignPreserved ==
  ASSUME IInv, IInv', \A t \in Threads : AlignInv(t), [Next]_vars, NEW t \in Threads
  PROVE  AlignInv(t)'
<1>1. TypeOK /\ AlignInv(t) /\ i[t] \in Nat /\ Block \in Nat /\ Head(t) \in Nat
      /\ Offset(addr[t]) \in Nat
  BY HeadAligns, VectorAssumption DEF IInv, TypeOK
<1> DEFINE Same == /\ pc'[t] = pc[t] /\ i'[t] = i[t] /\ addr'[t] = addr[t]
                   /\ left'[t] = left[t] /\ call'[t] = call[t]
<1>2. CASE Same
  <2>1. Head(t)' = Head(t) /\ ToRead(t)' = ToRead(t) /\ Alike(t)' = Alike(t)
    BY <1>2 DEF Head, Misalignment, ToRead, Alike
  <2>2. QED
    BY <1>1, <1>2, <2>1 DEF AlignInv
<1>3. ASSUME NEW u \in Threads, u # t, Call(u) \/ Step(u) PROVE Same
  BY <1>1, <1>3 DEF TypeOK, Step, Call, Enter, SelectPage, CopyWord, CopyBlock, Copy, Advance,
     Leave, position
<1>4. CASE Call(t) \/ Enter(t) \/ Advance(t) \/ Leave(t)
  <2>1. pc'[t] \in {"enter", "segment", "idle"}
    BY <1>1, <1>4 DEF TypeOK, Call, Enter, Advance, Leave
  <2>2. QED
    BY <2>1 DEF AlignInv
<1>5. CASE SelectPage(t)
  <2>1. pc'[t] = "copy" /\ i'[t] = 0
    BY <1>1, <1>5 DEF SelectPage, TypeOK
  <2>2. Head(t)' = Head(t)
    BY <1>5 DEF SelectPage, Head, Misalignment
  <2>3. QED
    BY <1>1, <2>1, <2>2 DEF AlignInv
<1>6. ASSUME NEW n \in Nat, pc[t] = "copy", Copy(t, n),
             UNCHANGED <<sdramPage, owner, pc, call, addr, left, base>>
      PROVE  /\ pc'[t] = "copy" /\ i'[t] = i[t] + n /\ addr'[t] = addr[t]
             /\ Head(t)' = Head(t) /\ ToRead(t)' = ToRead(t)
  BY <1>1, <1>6 DEF TypeOK, Copy, Head, Misalignment, ToRead
<1>7. CASE CopyWord(t)
  <2>1. /\ pc'[t] = "copy" /\ i'[t] = i[t] + 1 /\ addr'[t] = addr[t]
        /\ Head(t)' = Head(t) /\ ToRead(t)' = ToRead(t) /\ ToRead(t) \in Nat
    BY <1>1, <1>6, <1>7, SegmentBounds DEF CopyWord, IInv, ThreadInv
  <2>2. Sse => i[t] < Head(t) \/ i[t] + Block > ToRead(t)
    BY <1>1, <1>7, <2>1 DEF CopyWord, InBlock
  <2>3. Sse => i'[t] <= Head(t)' \/ i'[t] + Block > ToRead(t)'
    BY <1>1, <2>1, <2>2
  <2>4. QED
    BY <2>1, <2>3 DEF AlignInv
<1>8. CASE CopyBlock(t) /\ StoreAligned(t)
  <2>1. /\ pc[t] = "copy" /\ pc'[t] = "copy" /\ i'[t] = i[t] + Block /\ addr'[t] = addr[t]
    BY <1>1, <1>6, <1>8 DEF CopyBlock
  <2>2. (Offset(addr[t]) + i[t]) % Vector = 0
    BY <1>1, <1>8, <2>1, BlockAligned DEF CopyBlock
  <2>3. PICK x \in Int : x = Offset(addr[t]) + i[t]
    BY <1>1
  <2>4. (x + Block) % Vector = 0
    <3>1. Block \in Int /\ Block % Vector = 0 /\ Vector \in Nat \ {0}
      BY VectorAssumption, UnitsAssumption
    <3>2. QED
      BY <2>2, <2>3, <3>1, MultiplesAdd
  <2>5. x + Block = Offset(addr'[t]) + i'[t]
    BY <1>1, <2>1, <2>3
  <2>6. QED
    BY <2>1, <2>4, <2>5 DEF AlignInv
<1>9. CASE CopyBlock(t) /\ ~ StoreAligned(t)
  <2>1. pc'[t] = "fault" /\ call'[t] = call[t]
    BY <1>1, <1>9 DEF CopyBlock, TypeOK
  <2>2. ~ Alike(t)
    BY <1>1, <1>9, StoresAligned DEF CopyBlock
  <2>3. QED
    BY <2>1, <2>2 DEF AlignInv, Alike
<1>10. CASE UNCHANGED vars
  BY <1>2, <1>10 DEF vars, position
<1>11. QED
  BY <1>2, <1>3, <1>4, <1>5, <1>7, <1>8, <1>9, <1>10 DEF Next, Step

\* The vector stores are aligned whenever addr and dest are alike, for every size of
\* vectors and of lines, blocks and pages made of them.
THEOREM Aligned == Spec => []AlikeIsAligned
<1>1. Init => \A t \in Threads : AlignInv(t)
  BY DEF Init, AlignInv
<1>2. IInv /\ IInv' /\ (\A t \in Threads : AlignInv(t)) /\ [Next]_vars
        => (\A t \in Threads : AlignInv(t))'
  BY AlignPreserved
<1>3. (\A t \in Threads : AlignInv(t)) => AlikeIsAligned
  BY DEF AlignInv, AlikeIsAligned
<1>4. QED
  BY <1>1, <1>2, <1>3, Invariance, PTL DEF Spec
==============================================================================
