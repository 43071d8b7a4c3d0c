------------------------------- MODULE AcqRam -------------------------------
(***************************************************************************)
(* The division of the FPGA's RAM among the acquisition cores of a board   *)
(* (MemoryAllocator in modules/acq.cc).  It is the program, not the FPGA,  *)
(* that gives each acq::Controller its part: the constructor asks for a    *)
(* range and every acquisition is written there and read back from there.  *)
(*                                                                         *)
(* The boards' controllers are constructed by one thread: the allocator    *)
(* has no lock.                                                            *)
(***************************************************************************)
EXTENDS Integers

CONSTANTS
  Boards,        \* the struct pcie_bars of the program
  Controllers,   \* acq::Controller objects
  Nobody,        \* an object that is not constructed
  MaxAcqCores,   \* max_acq_cores
  RamPerCore,    \* acq_ram_per_core
  MaxCalls       \* bound: calls of get_range for a board

ASSUME RamAssumption ==
  /\ MaxAcqCores \in Nat \ {0} /\ RamPerCore \in Nat \ {0} /\ MaxCalls \in Nat
  /\ Nobody \notin [board : Boards, index : Nat]

VARIABLES
  counts,    \* MemoryAllocator.counts
  range,     \* where the range of each controller is: its board and its index
  refused    \* the last construction threw

ramVars == <<counts, range, refused>>

Capacity == MaxAcqCores * RamPerCore
\* First address of a controller's range, and the one after its last.
RamStart(c) == range[c].index * RamPerCore
RamEnd(c) == (range[c].index + 1) * RamPerCore
Live == {c \in Controllers : range[c] # Nobody}

RamInit ==
  /\ counts = [b \in Boards |-> 0]
  /\ range = [c \in Controllers |-> Nobody]
  /\ refused = FALSE

\* get_range counts the call before it looks at the limit ...  The definitions
\* named after a slip are mutants of the ones that follow them.
Supported(b) == counts[b] + 1 < MaxAcqCores

NextIndex(b) == counts[b]

\* ... so that a refused call is counted too.
Construct(c, b) ==
  /\ range[c] = Nobody
  /\ counts[b] < MaxCalls
  /\ counts' = [counts EXCEPT ![b] = @ + 1]
  /\ IF Supported(b)
       THEN /\ range' = [range EXCEPT ![c] = [board |-> b, index |-> NextIndex(b)]]
            /\ refused' = FALSE
       ELSE refused' = TRUE /\ UNCHANGED range

DestroyAndCount(c) ==
  /\ range[c] # Nobody
  /\ range' = [range EXCEPT ![c] = Nobody]
  /\ counts' = [counts EXCEPT ![range[c].board] = @ - 1]
  /\ refused' = FALSE
\* A controller's range does not come back to the allocator.
Destroy(c) ==
  /\ range[c] # Nobody
  /\ range' = [range EXCEPT ![c] = Nobody]
  /\ refused' = FALSE
  /\ UNCHANGED counts

RamNext == \E c \in Controllers : Destroy(c) \/ \E b \in Boards : Construct(c, b)

RamSpec == RamInit /\ [][RamNext]_ramVars

-----------------------------------------------------------------------------
(* Properties.                                                             *)
\* The types of the state: a controller that exists has a range of some board, by an
\* index that the count of the board gives.
RamTypeOK ==
  /\ counts \in [Boards -> Nat]
  /\ range \in [Controllers -> [board : Boards, index : Nat] \cup {Nobody}]
  /\ refused \in BOOLEAN

\* No two acquisition cores of a board write to the same RAM, in whatever order
\* their controllers come and go.
RangesDisjoint ==
  \A c, d \in Live : c # d /\ range[c].board = range[d].board =>
    RamEnd(c) <= RamStart(d) \/ RamEnd(d) <= RamStart(c)

\* Every range lies inside of the RAM.
RangesInRam == \A c \in Live : RamStart(c) >= 0 /\ RamEnd(c) <= Capacity

\* Each controller that exists has RAM of its own.
RangesOwn == RangesDisjoint /\ RangesInRam
==============================================================================
