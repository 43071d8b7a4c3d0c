----------------------------- MODULE DeviceOpen -----------------------------
(***************************************************************************)
(* Opening and closing a board (util/pcie-open.cc): dev_open maps BAR0,    *)
(* BAR2 and BAR4, one after the other, and takes an OFD lock on the file   *)
(* of BAR0 so that two processes do not control the same board.  The lock  *)
(* belongs to the open file description, which lives on in the mapping     *)
(* after the descriptor has been closed.                                   *)
(***************************************************************************)
EXTENDS Integers, FiniteSets

CONSTANTS
  Processes,
  NoOne,          \* owner of the free lock
  NoWc,           \* processes that cannot open the files resource*_wc
  OfdSupported    \* the kernel implements F_OFD_SETLK

ASSUME ProcessesAssumption ==
  NoOne \notin Processes /\ NoWc \subseteq Processes /\ OfdSupported \in BOOLEAN

VARIABLES
  pc,       \* where each process is in dev_open or dev_close
  bar,      \* the BAR its dev_open or dev_close has come to
  fd,       \* it has the file of BAR0 open
  maps,     \* BARs that are mapped and in its struct pcie_bars
  lost,     \* BARs that a dev_open that threw has left mapped
  lock,     \* process whose open file description has the lock of a file
  mutexes   \* the mutexes of its struct pcie_bars, which dev_close does not destroy

vars == <<pc, bar, fd, maps, lost, lock, mutexes>>

BARs == {0, 2, 4}
Files == {"wc", "plain"}
\* The file of a BAR that dev_open gets: the second one when the first fails.
File(p) == IF p \in NoWc THEN "plain" ELSE "wc"

Init ==
  /\ pc = [p \in Processes |-> "closed"]
  /\ bar = [p \in Processes |-> 0]
  /\ fd = [p \in Processes |-> FALSE]
  /\ maps = [p \in Processes |-> {}]
  /\ lost = [p \in Processes |-> {}]
  /\ lock = [f \in Files |-> NoOne]
  /\ mutexes = [p \in Processes |-> "none"]

\* The kernel drops the lock with the last reference to its file description.
\* (A failed lock_file does not close its descriptor either, but that one has no
\* lock.)
Referenced(p) == fd[p] \/ 0 \in maps[p] \cup lost[p]
KernelUnlocks(p) ==
  lock' = [f \in Files |-> IF lock[f] = p /\ ~ Referenced(p)' THEN NoOne ELSE lock[f]]

Goto(p, l) == pc' = [pc EXCEPT ![p] = l]

\* dev_open throws: what it had mapped stays mapped, but no one knows it.
Throw(p) ==
  /\ Goto(p, "closed")
  /\ lost' = [lost EXCEPT ![p] = @ \cup maps[p]]
  /\ maps' = [maps EXCEPT ![p] = {}]

-----------------------------------------------------------------------------
(* dev_open.  The definitions named after a slip are mutants.              *)
Begin(p) ==
  /\ pc[p] = "closed"
  /\ Goto(p, "open_file")
  /\ bar' = [bar EXCEPT ![p] = 0]
  /\ UNCHANGED <<fd, maps, lost, lock, mutexes>>

OpenFile(p) ==
  /\ pc[p] = "open_file"
  /\ \/ /\ Goto(p, IF bar[p] = 0 THEN "lock_file" ELSE "mmap")
        /\ fd' = [fd EXCEPT ![p] = @ \/ bar[p] = 0]
        /\ UNCHANGED <<maps, lost>>
     \/ Throw(p) /\ UNCHANGED fd     \* "couldn't open resource file"
  /\ UNCHANGED <<bar, lock, mutexes>>

\* F_OFD_SETLK fails when another file description has the lock, one of the same
\* process too; only EINVAL, which means that it is not supported, is let pass.
LockFileAnyError(p) ==
  /\ pc[p] = "lock_file"
  /\ Goto(p, "mmap")
  /\ lock' = IF lock[File(p)] = NoOne THEN [lock EXCEPT ![File(p)] = p] ELSE lock
  /\ UNCHANGED <<bar, fd, maps, lost, mutexes>>
LockFile(p) ==
  /\ pc[p] = "lock_file"
  /\ CASE ~ OfdSupported -> Goto(p, "mmap") /\ UNCHANGED <<fd, maps, lost, lock>>
       [] OfdSupported /\ lock[File(p)] = NoOne ->
            /\ Goto(p, "mmap")
            /\ lock' = [lock EXCEPT ![File(p)] = p]
            /\ UNCHANGED <<fd, maps, lost>>
       [] OTHER -> Throw(p) /\ fd' = [fd EXCEPT ![p] = FALSE] /\ UNCHANGED lock
  /\ UNCHANGED <<bar, mutexes>>

\* mmap, then close whether it has failed or not, and on to the next BAR or to
\* the cached page and the mutexes.
MmapKeepsFile(p) ==
  /\ pc[p] = "mmap"
  /\ maps' = [maps EXCEPT ![p] = @ \cup {bar[p]}]
  /\ UNCHANGED <<fd, lost, lock>>
  /\ IF bar[p] = 4 THEN /\ Goto(p, "open")
                        /\ mutexes' = [mutexes EXCEPT ![p] = "initialized"]
                        /\ UNCHANGED bar
                   ELSE /\ Goto(p, "open_file")
                        /\ bar' = [bar EXCEPT ![p] = @ + 2]
                        /\ UNCHANGED mutexes
Mmap(p) ==
  /\ pc[p] = "mmap"
  /\ fd' = [fd EXCEPT ![p] = FALSE]
  /\ \/ /\ maps' = [maps EXCEPT ![p] = @ \cup {bar[p]}]
        /\ UNCHANGED lost
        /\ IF bar[p] = 4 THEN /\ Goto(p, "open")
                              /\ mutexes' = [mutexes EXCEPT ![p] = "initialized"]
                              /\ UNCHANGED bar
                         ELSE /\ Goto(p, "open_file")
                              /\ bar' = [bar EXCEPT ![p] = @ + 2]
                              /\ UNCHANGED mutexes
     \/ Throw(p) /\ UNCHANGED <<bar, mutexes>>     \* "couldn't mmap resource file"
  /\ KernelUnlocks(p)

-----------------------------------------------------------------------------
(* dev_close and the end of a process.                                     *)
BeginClose(p) ==
  /\ pc[p] = "open"
  /\ Goto(p, "unmap")
  /\ bar' = [bar EXCEPT ![p] = 0]
  /\ UNCHANGED <<fd, maps, lost, lock, mutexes>>

\* munmap of one BAR, BAR0 first.
Unmap(p) ==
  /\ pc[p] = "unmap"
  /\ maps' = [maps EXCEPT ![p] = @ \ {bar[p]}]
  /\ IF bar[p] = 4 THEN Goto(p, "closed") /\ UNCHANGED bar
                   ELSE bar' = [bar EXCEPT ![p] = @ + 2] /\ UNCHANGED pc
  /\ UNCHANGED <<fd, lost, mutexes>>
  /\ KernelUnlocks(p)

\* The process ends or is killed, at any point; another one may take its place.
Exit(p) ==
  /\ fd' = [fd EXCEPT ![p] = FALSE]
  /\ maps' = [maps EXCEPT ![p] = {}]
  /\ lost' = [lost EXCEPT ![p] = {}]
  /\ mutexes' = [mutexes EXCEPT ![p] = "none"]
  /\ Goto(p, "closed")
  /\ UNCHANGED bar
  /\ KernelUnlocks(p)

Step(p) == OpenFile(p) \/ LockFile(p) \/ Mmap(p) \/ Unmap(p)

Next == \E p \in Processes : Begin(p) \/ BeginClose(p) \/ Step(p) \/ Exit(p)

Spec == Init /\ [][Next]_vars

-----------------------------------------------------------------------------
(* Properties.                                                             *)
\* The types of the state: the loop of dev_open and the one of dev_close stay within
\* the three BARs.
TypeOK ==
  /\ pc \in [Processes -> {"closed", "open_file", "lock_file", "mmap", "open", "unmap"}]
  /\ bar \in [Processes -> BARs]
  /\ fd \in [Processes -> BOOLEAN]
  /\ maps \in [Processes -> SUBSET BARs]
  /\ lost \in [Processes -> SUBSET BARs]
  /\ lock \in [Files -> Processes \cup {NoOne}]
  /\ mutexes \in [Processes -> {"none", "initialized"}]

\* "exclusive lock" (lock_file): of the processes that open the same file, one at
\* most has a board to work with, whatever fails and whoever is killed.
Exclusive ==
  OfdSupported =>
    \A p, q \in Processes :
      pc[p] = "open" /\ pc[q] = "open" /\ File(p) = File(q) => p = q

\* dev_close gives the board back: a process without a board holds no lock,
\* unless a dev_open of its own has thrown and left BAR0 mapped.
ClosedIsUnlocked ==
  \A p \in Processes :
    pc[p] = "closed" /\ 0 \notin lost[p] => \A f \in Files : lock[f] # p
==============================================================================
