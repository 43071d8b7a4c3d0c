------------------------------ MODULE Si57xFreq ------------------------------
(***************************************************************************)
(* si57x_parameters::set_freq (util/si57x_util.cc): the search for the     *)
(* dividers and the multiplier that bring an oscillator closest to a       *)
(* frequency.  A step is one pass of the inner loop, for one pair of       *)
(* dividers.  The loop has the even values of N1 only ("FIXME: n1 can be   *)
(* 1"): a frequency that needs N1 = 1 is refused, whatever the crystal.    *)
(*                                                                         *)
(* The doubles are exact fractions here: rfreq counts units of             *)
(* 1/RfreqFactor, and the error of a frequency f with dividers h and n is  *)
(* ErrorOver(h, n) / (RfreqFactor * h * n).                                *)
(***************************************************************************)
EXTENDS Integers, Sequences

CONSTANTS
  HsDivOpts,       \* hs_div_opts, in the order of the loop
  N1Min, N1Max, N1Step,
  FdcoMin, FdcoMax,
  RfreqFactor,
  Fxtals, Freqs    \* crystals and frequencies that set_freq is called with

VARIABLES
  freq, fxtal,   \* what is asked for
  hs,            \* the loops: index of hs_div_opt
  n1,
  best,          \* hs_div_best, n1_best and rfreq_best, or none
  done           \* set_freq has returned

vars == <<freq, fxtal, hs, n1, best, done>>

NoneBest == [set |-> FALSE, h |-> 0, n |-> 0, rfreq |-> 0]

\* llrint(freq * h * n * rfreq_factor / fxtal): a half goes to the even neighbour.
RoundToEven(a, b) ==
  LET q == a \div b
      r == 2 * (a % b)
  IN  IF r < b \/ (r = b /\ q % 2 = 0) THEN q ELSE q + 1
Rfreq(h, n) == RoundToEven(freq * h * n * RfreqFactor, fxtal)

\* fdco_min <= fdco <= fdco_max, where fdco is rfreq * fxtal / RfreqFactor.
InRange(r) ==
  FdcoMin * RfreqFactor <= r * fxtal /\ r * fxtal <= FdcoMax * RfreqFactor

AbsDiff(a, b) == IF a < b THEN b - a ELSE a - b
ErrorOver(h, n) == AbsDiff(freq * RfreqFactor * h * n, Rfreq(h, n) * fxtal)

\* freq_err of (h, n) is less than the one of b.
CloserOver(h, n, b) == ErrorOver(h, n) < ErrorOver(b.h, b.n)
Closer(h, n, b) == ErrorOver(h, n) * b.h * b.n < ErrorOver(b.h, b.n) * h * n

Init ==
  /\ freq \in Freqs
  /\ fxtal \in Fxtals
  /\ hs = 1
  /\ n1 = N1Min
  /\ best = NoneBest
  /\ done = FALSE

\* The loops' next pair.
\* (The definitions named after a slip are mutants.)
NextN1 == n1 + N1Step <= N1Max
Advance ==
  IF NextN1
    THEN n1' = n1 + N1Step /\ UNCHANGED <<hs, done>>
    ELSE /\ n1' = N1Min
         /\ hs' = hs + 1
         /\ done' = (hs = Len(HsDivOpts))

Try ==
  /\ ~ done
  /\ LET h == HsDivOpts[hs]
         r == Rfreq(h, n1)
     IN  best' = IF InRange(r) /\ (best.set => Closer(h, n1, best))
                   THEN [set |-> TRUE, h |-> h, n |-> n1, rfreq |-> r]
                   ELSE best
  /\ Advance
  /\ UNCHANGED <<freq, fxtal>>

Spec == Init /\ [][Try]_vars

-----------------------------------------------------------------------------
(* Properties.                                                             *)
\* The dividers that the loops go through.
N1s == {n \in N1Min .. N1Max : (n - N1Min) % N1Step = 0}
Hs == {HsDivOpts[i] : i \in DOMAIN HsDivOpts}

\* Of the pairs of dividers that the loops try, the chip's N1 = 1 not among them, set_freq
\* takes one that brings the oscillator into its range, is as close to the frequency as
\* any other that does, and leaves no more than half a unit of rfreq between the two; it
\* fails when, and only when, none of these pairs brings the oscillator into its range.
BestOfTried ==
  done =>
    /\ \A h \in Hs, n \in N1s :
         InRange(Rfreq(h, n)) =>
           best.set /\ ErrorOver(best.h, best.n) * h * n <= ErrorOver(h, n) * best.h * best.n
    /\ best.set =>
         /\ best.h \in Hs /\ best.n \in N1s /\ best.rfreq = Rfreq(best.h, best.n)
         /\ InRange(best.rfreq)
         /\ 2 * AbsDiff(freq * RfreqFactor * best.h * best.n, best.rfreq * fxtal) <= fxtal
==============================================================================
