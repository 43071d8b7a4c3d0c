-------------------------- MODULE DeviceOpen_proofs --------------------------
(* Proofs about DeviceOpen, for every set of processes.                    *)
EXTENDS DeviceOpen, TLAPS

\* The descriptor of BAR0 is open between its open and its mmap only, and a
\* process outside of dev_open and dev_close has nothing mapped in its struct.
Descriptors ==
  \A p \in Processes :
    /\ fd[p] => pc[p] \in {"lock_file", "mmap"} /\ bar[p] = 0
    /\ pc[p] = "closed" \/ (pc[p] \in {"open_file", "lock_file"} /\ bar[p] = 0) => maps[p] = {}
    /\ pc[p] = "unmap" => \A b \in maps[p] : b >= bar[p]

\* From lock_file on until BAR0 is unmapped.
Past(p) ==
  \/ pc[p] \in {"mmap", "open"}
  \/ pc[p] = "open_file" /\ bar[p] # 0
  \/ pc[p] = "unmap" /\ bar[p] = 0

\* What keeps the kernel from dropping the lock in the meantime.
Anchored ==
  \A p \in Processes :
    /\ pc[p] = "mmap" /\ bar[p] = 0 => fd[p]
    /\ Past(p) /\ ~ (pc[p] = "mmap" /\ bar[p] = 0) => 0 \in maps[p]

Locked == OfdSupported => \A p \in Processes : Past(p) => lock[File(p)] = p

\* A lock has a reference to it.
Owned == \A f \in Files, p \in Processes : lock[f] = p => Referenced(p)

\* A process that comes to lock_file has the lock only by an earlier dev_open.
InOrder ==
  \A p \in Processes :
    pc[p] = "lock_file" => /\ bar[p] = 0 /\ fd[p]
                           /\ \A f \in Files : lock[f] = p => 0 \in lost[p]

IInv == TypeOK /\ Descriptors /\ Anchored /\ Locked /\ Owned /\ InOrder

-----------------------------------------------------------------------------
LEMMA InitInv == Init => IInv
<1> SUFFICES ASSUME Init PROVE IInv
  OBVIOUS
<1>1. pc \in [Processes -> {"closed", "open_file", "lock_file", "mmap", "open", "unmap"}]
      /\ bar \in [Processes -> BARs]
  BY DEF Init, BARs
<1>2. fd \in [Processes -> BOOLEAN]
  BY DEF Init
<1>3. maps \in [Processes -> SUBSET BARs] /\ lost \in [Processes -> SUBSET BARs]
  BY DEF Init
<1>4. lock \in [Files -> Processes \cup {NoOne}] /\ mutexes \in [Processes -> {"none", "initialized"}]
  BY DEF Init
<1>5. \A p \in Processes : pc[p] = "closed" /\ ~ fd[p] /\ maps[p] = {}
  BY DEF Init
<1>6. \A f \in Files : lock[f] \notin Processes
  BY ProcessesAssumption DEF Init
<1>7. QED
  BY <1>1, <1>2, <1>3, <1>4, <1>5, <1>6
     DEF IInv, TypeOK, Descriptors, Anchored, Locked, Owned, InOrder, Past

-----------------------------------------------------------------------------
\* The steps of a process leave the other ones alone.
LEMMA KernelUnlocksLocks ==
  ASSUME TypeOK, NEW p \in Processes, KernelUnlocks(p)
  PROVE  /\ lock' \in [Files -> Processes \cup {NoOne}]
         /\ \A f \in Files, q \in Processes : lock'[f] = q => lock[f] = q
         /\ \A f \in Files, q \in Processes \ {p} : lock[f] = q => lock'[f] = q
         /\ \A f \in Files : lock'[f] = p => Referenced(p)'
         /\ \A f \in Files : lock[f] = p /\ Referenced(p)' => lock'[f] = p
BY ProcessesAssumption DEF KernelUnlocks, TypeOK

LEMMA FileOfProcess == \A p \in Processes : File(p) \in Files
BY DEF File, Files

\* Throwing changes what a process has mapped into what it has lost.
LEMMA ThrowType ==
  ASSUME TypeOK, NEW p \in Processes, Throw(p)
  PROVE  /\ pc' = [pc EXCEPT ![p] = "closed"]
         /\ pc' \in [Processes -> {"closed", "open_file", "lock_file", "mmap", "open", "unmap"}]
         /\ maps' \in [Processes -> SUBSET BARs] /\ lost' \in [Processes -> SUBSET BARs]
         /\ pc'[p] = "closed" /\ maps'[p] = {} /\ lost'[p] = lost[p] \cup maps[p]
         /\ \A q \in Processes \ {p} :
              pc'[q] = pc[q] /\ maps'[q] = maps[q] /\ lost'[q] = lost[q]
BY DEF Throw, Goto, TypeOK

\* The invariant of the other processes, and that of one process.
OneInv(p) ==
  /\ fd[p] => pc[p] \in {"lock_file", "mmap"} /\ bar[p] = 0
  /\ pc[p] = "closed" \/ (pc[p] \in {"open_file", "lock_file"} /\ bar[p] = 0) => maps[p] = {}
  /\ pc[p] = "unmap" => \A b \in maps[p] : b >= bar[p]
  /\ pc[p] = "mmap" /\ bar[p] = 0 => fd[p]
  /\ Past(p) /\ ~ (pc[p] = "mmap" /\ bar[p] = 0) => 0 \in maps[p]
  /\ OfdSupported /\ Past(p) => lock[File(p)] = p
  /\ \A f \in Files : lock[f] = p => Referenced(p)
  /\ pc[p] = "lock_file" => /\ bar[p] = 0 /\ fd[p]
                            /\ \A f \in Files : lock[f] = p => 0 \in lost[p]

LEMMA ByProcess == IInv <=> TypeOK /\ \A p \in Processes : OneInv(p)
BY DEF IInv, OneInv, Descriptors, Anchored, Locked, Owned, InOrder

\* What has to be shown of a step: the process that takes it.
LEMMA Others ==
  ASSUME IInv, TypeOK', NEW p \in Processes, OneInv(p)',
         \A q \in Processes \ {p} :
           /\ pc'[q] = pc[q] /\ bar'[q] = bar[q] /\ fd'[q] = fd[q]
           /\ maps'[q] = maps[q] /\ lost'[q] = lost[q]
           /\ \A f \in Files : lock'[f] = q <=> lock[f] = q
  PROVE  IInv'
<1>1. ASSUME NEW q \in Processes \ {p} PROVE OneInv(q)'
  <2>1. OneInv(q)
    BY ByProcess
  <2>2. QED
    BY <2>1, FileOfProcess DEF OneInv, Past, Referenced
<1>2. \A q \in Processes : OneInv(q)'
  BY <1>1
<1>3. QED
  BY <1>2 DEF IInv, OneInv, Descriptors, Anchored, Locked, Owned, InOrder

-----------------------------------------------------------------------------
LEMMA BeginPreserves ==
  ASSUME IInv, NEW p \in Processes, Begin(p) \/ BeginClose(p)
  PROVE  IInv'
<1>1. TypeOK'
  BY DEF IInv, Begin, BeginClose, Goto, TypeOK, BARs
<1>2. OneInv(p)
  BY ByProcess
<1>3. /\ \/ pc[p] = "closed" /\ pc'[p] = "open_file"
         \/ pc[p] = "open" /\ pc'[p] = "unmap"
      /\ bar'[p] = 0 /\ UNCHANGED <<fd, maps, lost, lock>>
      /\ maps[p] \subseteq BARs
  BY DEF IInv, TypeOK, Begin, BeginClose, Goto
<1>4. OneInv(p)'
  BY <1>2, <1>3 DEF OneInv, Past, Referenced, BARs
<1>5. QED
  BY <1>1, <1>4, Others DEF IInv, TypeOK, Begin, BeginClose, Goto

LEMMA OpenFilePreserves ==
  ASSUME IInv, NEW p \in Processes, OpenFile(p)
  PROVE  IInv'
<1>1. OneInv(p) /\ TypeOK /\ pc[p] = "open_file" /\ UNCHANGED <<bar, lock, mutexes>>
  BY ByProcess DEF OpenFile
<1>2. CASE Throw(p) /\ UNCHANGED fd
  <2>1. TypeOK'
    BY <1>1, <1>2, ThrowType DEF TypeOK
  <2>2. OneInv(p)'
    BY <1>1, <1>2, ThrowType DEF OneInv, Past, Referenced
  <2>3. QED
    BY <1>1, <1>2, <2>1, <2>2, ThrowType, Others
<1>3. CASE /\ Goto(p, IF bar[p] = 0 THEN "lock_file" ELSE "mmap")
           /\ fd' = [fd EXCEPT ![p] = @ \/ bar[p] = 0]
           /\ UNCHANGED <<maps, lost>>
  <2>1. fd' \in [Processes -> BOOLEAN] /\ (fd'[p] <=> fd[p] \/ bar[p] = 0)
    BY <1>1, <1>3 DEF TypeOK
  <2>2. TypeOK'
    BY <1>1, <1>3, <2>1 DEF TypeOK, Goto
  <2>3. OneInv(p)'
    BY <1>1, <1>3, <2>1 DEF OneInv, Past, Referenced, Goto, TypeOK
  <2>4. QED
    BY <1>1, <1>3, <2>2, <2>3, Others DEF Goto, TypeOK
<1>4. QED
  BY <1>2, <1>3 DEF OpenFile

LEMMA LockFilePreserves ==
  ASSUME IInv, NEW p \in Processes, LockFile(p)
  PROVE  IInv'
<1>1. OneInv(p) /\ TypeOK /\ pc[p] = "lock_file" /\ UNCHANGED <<bar, mutexes>>
  BY ByProcess DEF LockFile
<1>2. CASE ~ OfdSupported
  <2>1. Goto(p, "mmap") /\ UNCHANGED <<fd, maps, lost, lock>>
    BY <1>2 DEF LockFile
  <2>2. TypeOK' /\ OneInv(p)'
    BY <1>1, <1>2, <2>1 DEF TypeOK, OneInv, Past, Referenced, Goto
  <2>3. QED
    BY <1>1, <2>1, <2>2, Others DEF Goto, TypeOK
<1>3. CASE OfdSupported /\ lock[File(p)] = NoOne
  <2>1. /\ Goto(p, "mmap") /\ UNCHANGED <<fd, maps, lost>>
        /\ lock' = [lock EXCEPT ![File(p)] = p]
    BY <1>3 DEF LockFile
  <2>2. /\ lock' \in [Files -> Processes \cup {NoOne}] /\ lock'[File(p)] = p
        /\ \A f \in Files, q \in Processes \ {p} : lock'[f] = q <=> lock[f] = q
    BY <1>1, <1>3, <2>1, FileOfProcess, ProcessesAssumption DEF TypeOK
  <2>3. TypeOK' /\ OneInv(p)'
    BY <1>1, <1>3, <2>1, <2>2 DEF TypeOK, OneInv, Past, Referenced, Goto
  <2>4. QED
    BY <1>1, <2>1, <2>2, <2>3, Others DEF Goto, TypeOK
<1>4. CASE OfdSupported /\ lock[File(p)] # NoOne
  <2>1. Throw(p) /\ fd' = [fd EXCEPT ![p] = FALSE] /\ UNCHANGED lock
    BY <1>4 DEF LockFile
  <2>2. fd' \in [Processes -> BOOLEAN] /\ ~ fd'[p] /\ \A q \in Processes \ {p} : fd'[q] = fd[q]
    BY <1>1, <2>1 DEF TypeOK
  <2>3. TypeOK'
    BY <1>1, <2>1, <2>2, ThrowType DEF TypeOK
  <2>4. OneInv(p)'
    BY <1>1, <1>4, <2>1, <2>2, ThrowType DEF OneInv, Past, Referenced
  <2>5. QED
    BY <1>1, <2>1, <2>2, <2>3, <2>4, ThrowType, Others
<1>5. QED
  BY <1>2, <1>3, <1>4, ProcessesAssumption

LEMMA MmapPreserves ==
  ASSUME IInv, NEW p \in Processes, Mmap(p)
  PROVE  IInv'
<1>1. OneInv(p) /\ TypeOK /\ pc[p] = "mmap" /\ KernelUnlocks(p)
  BY ByProcess DEF Mmap
<1>2. /\ fd' \in [Processes -> BOOLEAN] /\ ~ fd'[p]
      /\ \A q \in Processes \ {p} : fd'[q] = fd[q]
  BY <1>1 DEF Mmap, TypeOK
<1>3. CASE Throw(p) /\ UNCHANGED <<bar, mutexes>>
  <2>1. TypeOK'
    BY <1>1, <1>2, <1>3, ThrowType, KernelUnlocksLocks DEF TypeOK
  <2>2. OneInv(p)'
    BY <1>1, <1>2, <1>3, ThrowType, KernelUnlocksLocks DEF OneInv, Past
  <2>3. QED
    BY <1>1, <1>2, <1>3, <2>1, <2>2, ThrowType, KernelUnlocksLocks, Others
<1>4. CASE /\ maps' = [maps EXCEPT ![p] = @ \cup {bar[p]}]
           /\ UNCHANGED lost
           /\ IF bar[p] = 4 THEN /\ Goto(p, "open")
                                 /\ mutexes' = [mutexes EXCEPT ![p] = "initialized"]
                                 /\ UNCHANGED bar
                            ELSE /\ Goto(p, "open_file")
                                 /\ bar' = [bar EXCEPT ![p] = @ + 2]
                                 /\ UNCHANGED mutexes
  <2>1. /\ maps' \in [Processes -> SUBSET BARs] /\ bar' \in [Processes -> BARs]
        /\ maps'[p] = maps[p] \cup {bar[p]}
        /\ \A q \in Processes \ {p} : maps'[q] = maps[q] /\ bar'[q] = bar[q] /\ pc'[q] = pc[q]
    BY <1>1, <1>4 DEF TypeOK, BARs, Goto
  <2>2. \/ pc'[p] = "open" /\ bar[p] = 4
        \/ pc'[p] = "open_file" /\ bar'[p] # 0
    BY <1>1, <1>4 DEF TypeOK, BARs, Goto
  <2>3. 0 \in maps'[p]
    BY <1>1, <2>1 DEF OneInv, Past
  <2>4. TypeOK'
    BY <1>1, <1>2, <1>4, <2>1, KernelUnlocksLocks DEF TypeOK, Goto
  <2>5. Referenced(p)' /\ Past(p)
    BY <1>1, <2>3 DEF Referenced, Past
  <2>6. OfdSupported => lock'[File(p)] = p
    BY <1>1, <2>5, FileOfProcess, KernelUnlocksLocks DEF OneInv
  <2>7. OneInv(p)'
    BY <1>2, <2>2, <2>3, <2>5, <2>6 DEF OneInv, Past
  <2>8. QED
    BY <1>1, <1>2, <1>4, <2>1, <2>4, <2>7, KernelUnlocksLocks, Others
<1>5. QED
  BY <1>3, <1>4 DEF Mmap

LEMMA UnmapPreserves ==
  ASSUME IInv, NEW p \in Processes, Unmap(p)
  PROVE  IInv'
<1>1. OneInv(p) /\ TypeOK /\ pc[p] = "unmap" /\ KernelUnlocks(p) /\ UNCHANGED <<fd, lost, mutexes>>
  BY ByProcess DEF Unmap
<1>2. /\ maps' \in [Processes -> SUBSET BARs] /\ bar' \in [Processes -> BARs]
      /\ pc' \in [Processes -> {"closed", "open_file", "lock_file", "mmap", "open", "unmap"}]
      /\ \A q \in Processes \ {p} : maps'[q] = maps[q] /\ bar'[q] = bar[q] /\ pc'[q] = pc[q]
  BY <1>1 DEF Unmap, TypeOK, BARs, Goto
<1>3. TypeOK'
  BY <1>1, <1>2, KernelUnlocksLocks DEF TypeOK
<1>4. /\ maps'[p] = maps[p] \ {bar[p]} /\ maps[p] \subseteq BARs
      /\ \/ pc'[p] = "closed" /\ bar[p] = 4
         \/ pc'[p] = "unmap" /\ bar[p] \in {0, 2} /\ bar'[p] = bar[p] + 2
  BY <1>1 DEF Unmap, TypeOK, BARs, Goto
<1>5. /\ pc'[p] = "closed" => maps'[p] = {}
      /\ pc'[p] = "unmap" => \A b \in maps'[p] : b >= bar'[p]
  BY <1>1, <1>4 DEF OneInv, BARs
<1>6. OneInv(p)'
  BY <1>1, <1>4, <1>5, KernelUnlocksLocks DEF OneInv, Past
<1>7. QED
  BY <1>1, <1>2, <1>3, <1>6, KernelUnlocksLocks, Others

LEMMA ExitPreserves ==
  ASSUME IInv, NEW p \in Processes, Exit(p)
  PROVE  IInv'
<1>1. TypeOK /\ KernelUnlocks(p) /\ UNCHANGED bar
  BY DEF IInv, Exit
<1>2. /\ fd' \in [Processes -> BOOLEAN] /\ ~ fd'[p]
      /\ \A q \in Processes \ {p} : fd'[q] = fd[q]
  BY <1>1 DEF Exit, TypeOK
<1>3. /\ maps' \in [Processes -> SUBSET BARs] /\ lost' \in [Processes -> SUBSET BARs]
      /\ pc' \in [Processes -> {"closed", "open_file", "lock_file", "mmap", "open", "unmap"}]
      /\ mutexes' \in [Processes -> {"none", "initialized"}]
      /\ pc'[p] = "closed" /\ maps'[p] = {}
      /\ \A q \in Processes \ {p} : maps'[q] = maps[q] /\ lost'[q] = lost[q] /\ pc'[q] = pc[q]
  BY <1>1 DEF Exit, TypeOK, Goto
<1>4. TypeOK'
  BY <1>1, <1>2, <1>3, KernelUnlocksLocks DEF TypeOK
<1>5. OneInv(p)'
  BY <1>1, <1>2, <1>3, KernelUnlocksLocks DEF OneInv, Past
<1>6. QED
  BY <1>1, <1>2, <1>3, <1>4, <1>5, KernelUnlocksLocks, Others

\* The invariant holds in every reachable state.
THEOREM Invariance == Spec => []IInv
<1>1. IInv /\ [Next]_vars => IInv'
  <2> SUFFICES ASSUME IInv, [Next]_vars PROVE IInv'
    OBVIOUS
  <2>1. CASE Next
    BY <2>1, BeginPreserves, OpenFilePreserves, LockFilePreserves, MmapPreserves,
       UnmapPreserves, ExitPreserves DEF Next, Step
  <2>2. CASE UNCHANGED vars
    BY <2>2 DEF vars, IInv, TypeOK, Descriptors, Anchored, Locked, Owned, InOrder, Past,
       Referenced
  <2>3. QED
    BY <2>1, <2>2
<1>2. QED
  BY <1>1, InitInv, PTL DEF Spec

-----------------------------------------------------------------------------
\* No two processes that open the same file of BAR0 have the board at once, with
\* any number of processes, failures and kills.
THEOREM OneOwner == Spec => []Exclusive
<1>1. IInv => Exclusive
  BY FileOfProcess DEF IInv, Locked, Past, Exclusive
<1>2. QED
  BY <1>1, Invariance, PTL

\* The lock does not outlive the use of the board.
THEOREM Unlocked == Spec => []ClosedIsUnlocked
<1>1. IInv => ClosedIsUnlocked
  BY DEF IInv, Descriptors, Owned, Referenced, ClosedIsUnlocked
<1>2. QED
  BY <1>1, Invariance, PTL
==============================================================================
