------------------------------ MODULE Oscillator ------------------------------
(* The oscillator: its controller, which drives its core, and the search   *)
(* for its dividers, which needs no core and which si57x-test.cc runs      *)
(* without the controller.                                                 *)
EXTENDS Si57xCtrl, Sequences

CONSTANTS
  HsDivOpts, N1Min, N1Max, N1Step, FdcoMin, FdcoMax, RfreqFactor, Fxtals, Freqs

VARIABLES freq, xtal, hs, n1, best, done

Search == INSTANCE Si57xFreq WITH fxtal <- xtal

\* The dividers are positive, and so is the frequency of a crystal.
ASSUME DividersAssumption ==
  /\ HsDivOpts \in Seq(Nat \ {0}) /\ HsDivOpts # <<>>
  /\ N1Min \in Nat \ {0} /\ N1Max \in Nat /\ N1Min <= N1Max /\ N1Step \in Nat \ {0}
  /\ FdcoMin \in Nat /\ FdcoMax \in Nat /\ RfreqFactor \in Nat \ {0}
  /\ Fxtals \subseteq Nat \ {0} /\ Freqs \subseteq Nat

\* The property of the search, which is stated in its module.
BestOfTried == Search!BestOfTried
==============================================================================
