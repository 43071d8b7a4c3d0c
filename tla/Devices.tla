------------------------------- MODULE Devices -------------------------------
(* The devices of a board that a program works with one at a time: the     *)
(* chips on an SPI bus, the clock chip among them, the table of cores,     *)
(* the filters of the orbit feedback, and the FIFO of positions.  They     *)
(* have no state in common, and their properties are named here for the    *)
(* runs and the proofs.                                                    *)
EXTENDS Integers, Sequences, FiniteSets

CONSTANTS
  B, Slaves, Channels, Addrs, Values, Kinds,                            \* Spi
  Defaults, Dividers, Registers, Unwritten, Fragile, MaxLosses,         \* Ad9510
  Boards, Positions,                                                    \* SdbSearch
  Users, Filters(_), NUM_CHANNELS, NUM_BIQUADS, COEFFS_PER_BIQUAD,
  UNUSED_PER_BIQUAD, ChSize,                                            \* ShaperFilt
  Depth, MaxRecords                                                     \* PosCalcFifo

ASSUME BusAssumption ==
  /\ B \in Nat /\ B % 2 = 0 /\ B > 0
  /\ Slaves \subseteq Channels /\ Channels \subseteq Nat
  /\ Addrs \subseteq 0 .. B-1 /\ Values \subseteq 0 .. B-1
  /\ Kinds \subseteq {"get", "set", "ad9510_get", "ad9510_set", "isla_set"}

VARIABLES
  chips, hw, regs, phase, call, rdata, before, sent,                       \* Spi
  buffer, active, pending, script, at, losses, returned, called, told,
  failed,                                                                  \* Ad9510
  sdb, memory, search, record, pos, found,                                 \* SdbSearch
  num, words, copies, biquads, step, place,                                \* ShaperFilt
  fifo, out, made, mode, turn, amps, taken, shown                          \* PosCalcFifo

Bus == INSTANCE Spi WITH pc <- phase
Clock == INSTANCE Ad9510 WITH pc <- at, result <- returned
Sdb == INSTANCE SdbSearch WITH i <- record, result <- found
Shaper == INSTANCE ShaperFilt WITH hw <- words, regs <- copies, pc <- step, at <- place
Fifo == INSTANCE PosCalcFifo WITH pc <- turn

-----------------------------------------------------------------------------
(* What is known of the constants.                                         *)
Both == {"b_low", "b_high"}

\* update_parameters ends every method of ad9510's controller.  It is called only there by
\* the ones that set dividers, which write both bytes of the B divider or none.
ASSUME ClockAssumption ==
  /\ Both \subseteq Registers
  /\ \A s \in Dividers \cup {Defaults} :
       /\ s \in Seq([op : {"set"}, reg : Registers, value : Int] \cup {Clock!Update})
       /\ s # <<>> /\ s[Len(s)].op = "update"
  /\ \A s \in Dividers :
       /\ \A n \in DOMAIN s : s[n].op = "update" => n = Len(s)
       /\ Both \subseteq Clock!Touched(s) \/ Both \cap Clock!Touched(s) = {}
  /\ Both \cap Clock!Touched(Defaults) = {}

\* Every FMC_ACTIVE_CLK has the SPI core that its clock chip is behind after it, and every
\* FMC250M_4CH its three, before the next of its kind.
ASSUME BoardsAssumption ==
  /\ Positions \subseteq Nat
  /\ \A b \in Boards :
       /\ b \in Seq(Sdb!Cores \cup {"other"})
       /\ \A j \in DOMAIN b : b[j] = "fac" => \E p \in DOMAIN b : j < p /\ b[p] = "spi"
       /\ \A j \in DOMAIN b : b[j] = "f250" =>
            \E p, q, r \in DOMAIN b :
              /\ j < p /\ p < q /\ q < r
              /\ b[p] = "spi" /\ b[q] = "spi" /\ b[r] = "spi"
              /\ \A n \in j+1 .. r : b[n] # "f250"

\* A channel has room for its biquads.
ASSUME ShaperAssumption ==
  /\ NUM_CHANNELS \in Nat \ {0} /\ NUM_BIQUADS \in Nat
  /\ COEFFS_PER_BIQUAD \in Nat \ {0} /\ UNUSED_PER_BIQUAD \in Nat
  /\ ChSize \in Nat /\ Shaper!TOTAL_PER_BIQUAD * NUM_BIQUADS <= ChSize

ASSUME FifoAssumption == Depth \in Nat

-----------------------------------------------------------------------------
\* The properties, which are stated in the devices' modules.
AccessDone == Bus!AccessDone
AccessReturns == Bus!AccessReturns
TrueIsHeld == Clock!TrueIsHeld
DividersWhole == Clock!DividersWhole
SearchRight == Sdb!SearchRight
BiquadsWhole == Shaper!BiquadsWhole
RecordsInOrder == Fifo!RecordsInOrder
RecordsShown == Fifo!RecordsShown
==============================================================================
