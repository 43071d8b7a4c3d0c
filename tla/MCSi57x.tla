------------------------------- MODULE MCSi57x -------------------------------
(* The controller of the oscillator's core, or the search for its dividers. A program *)
(* takes one of the two.                                                              *)
EXTENDS Oscillator

VARIABLE subject

search == <<freq, xtal, hs, n1, best, done>>

\* The divider options of the Si570; of its N1 there are the lowest.
MCHsDivOpts == <<11, 9, 7, 6, 5, 4>>

MCInit ==
  \/ subject = "controller" /\ Init
       /\ freq = 0 /\ xtal = 1 /\ hs = 1 /\ n1 = 2 /\ best = Search!NoneBest /\ done = FALSE
  \/ subject = "search" /\ Search!Init
       /\ Init /\ cfg = Zero /\ loaded = Zero /\ valid = FALSE /\ fstartup = FALSE

MCNext ==
  /\ UNCHANGED subject
  /\ \/ subject = "controller" /\ Next /\ UNCHANGED search
     \/ subject = "search" /\ Search!Try /\ UNCHANGED vars

MCSpec == MCInit /\ [][MCNext]_<<subject, search, vars>> /\ Fairness
==============================================================================
