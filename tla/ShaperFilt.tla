------------------------------ MODULE ShaperFilt ------------------------------
(***************************************************************************)
(* fofb_shaper_filt (modules/fofb_shaper_filt.cc): controllers of one core *)
(* that write the coefficients of its filters, a biquad at a time, and     *)
(* what a decoder shows of them.                                           *)
(*                                                                         *)
(* A coefficient is named by the filter that it is of and by its place     *)
(* there.  A bar4_write_v and the bar4_read_v of the decoder are steps     *)
(* (Bar4).                                                                 *)
(***************************************************************************)
EXTENDS Integers

CONSTANTS
  Users,               \* controllers
  Filters(_),          \* filters that a controller is given
  NUM_CHANNELS, NUM_BIQUADS, COEFFS_PER_BIQUAD, UNUSED_PER_BIQUAD,
  ChSize               \* words of a channel, with the ones after its coefficients

VARIABLES
  num,      \* the core's number of biquads
  hw,       \* its words
  regs,     \* the words of each controller's copy
  biquads,  \* num_biquads of each controller
  pc, at    \* where it is, and the channel and biquad that it writes next

vars == <<num, hw, regs, biquads, pc, at>>

-----------------------------------------------------------------------------
TOTAL_PER_BIQUAD == COEFFS_PER_BIQUAD + UNUSED_PER_BIQUAD
FilterChannels == 0 .. NUM_CHANNELS - 1
Coeffs == 0 .. COEFFS_PER_BIQUAD - 1
Words == 0 .. NUM_CHANNELS * ChSize - 1

\* coeffs[k + TOTAL_PER_BIQUAD * j] of ch[i], "coeffs[k + 8*{biquad_idx}]".
WordOf(i, j, k) == i * ChSize + TOTAL_PER_BIQUAD * j + k
Places(n) == FilterChannels \X (0 .. n - 1) \X Coeffs
IsPlace(w, n) == \E p \in Places(n) : WordOf(p[1], p[2], p[3]) = w
PlaceOf(w) == CHOOSE p \in Places(NUM_BIQUADS) : WordOf(p[1], p[2], p[3]) = w

\* The words when they have the coefficients of a filter, and 0 where there are none.
Nothing == 0
Holding(filter) ==
  [w \in Words |-> IF IsPlace(w, NUM_BIQUADS) THEN <<filter, PlaceOf(w)>> ELSE Nothing]

\* Assumed: the core has no more biquads than the ABI, which "supports up to 20th order
\* filters".
Init ==
  /\ num \in 0 .. NUM_BIQUADS
  /\ hw = Holding("before")
  /\ regs = [u \in Users |-> [w \in Words |-> Nothing]]
  /\ biquads = [u \in Users |-> 0]
  /\ pc = [u \in Users |-> "new"]
  /\ at = [u \in Users |-> <<0, 0>>]

-----------------------------------------------------------------------------
\* set_devinfo_callback.
SetDevinfo(u) ==
  /\ pc[u] = "new"
  /\ biquads' = [biquads EXCEPT ![u] = num]
  /\ pc' = [pc EXCEPT ![u] = "idle"]
  /\ UNCHANGED <<num, hw, regs, at>>

\* write_params up to its first write: encode_params, which cannot fail (float2fixed
\* saturates).
WriteParams(u, filter) ==
  /\ pc[u] = "idle"
  /\ regs' = [regs EXCEPT ![u] =
                [w \in Words |-> IF IsPlace(w, biquads[u]) THEN <<filter, PlaceOf(w)>> ELSE @[w]]]
  /\ pc' = [pc EXCEPT ![u] = IF biquads[u] = 0 THEN "idle" ELSE "write"]
  /\ at' = [at EXCEPT ![u] = <<0, 0>>]
  /\ UNCHANGED <<num, hw, biquads>>

\* One bar4_write_v: the words of the core from, and how many of the copy's.
\* BiquadPacked is a mutant.
BiquadPacked(i, j) == [first |-> i * ChSize + COEFFS_PER_BIQUAD * j, size |-> COEFFS_PER_BIQUAD]
Biquad(i, j) == [first |-> i * ChSize + TOTAL_PER_BIQUAD * j, size |-> COEFFS_PER_BIQUAD]
WriteBiquad(u) ==
  LET i == at[u][1]
      j == at[u][2]
      block == Biquad(i, j)
      In(w) == block.first <= w /\ w < block.first + block.size
  IN  /\ pc[u] = "write"
      /\ hw' = [w \in Words |->
                  IF In(w) THEN regs[u][WordOf(i, j, 0) + w - block.first] ELSE hw[w]]
      /\ at' = [at EXCEPT ![u] = IF j + 1 < biquads[u] THEN <<i, j + 1>> ELSE <<i + 1, 0>>]
      /\ pc' = [pc EXCEPT ![u] =
                  IF i + 1 = NUM_CHANNELS /\ j + 1 = biquads[u] THEN "idle" ELSE "write"]
      /\ UNCHANGED <<num, regs, biquads>>

Next ==
  \E u \in Users :
    \/ SetDevinfo(u)
    \/ \E filter \in Filters(u) : WriteParams(u, filter)
    \/ WriteBiquad(u)

\* decode: coefficients.values, of a core whose words are as they are now.
Decoded(i) ==
  [n \in 0 .. num * COEFFS_PER_BIQUAD - 1 |->
     hw[WordOf(i, n \div COEFFS_PER_BIQUAD, n % COEFFS_PER_BIQUAD)]]

-----------------------------------------------------------------------------
(* Properties.                                                             *)
\* A decoder finds each biquad of a filter whole: its coefficients are of one filter, in
\* their order and of that channel, at any time between the writes of two controllers.
\* The words that are not of the core's biquads stay as they were.
BiquadsWhole ==
  /\ \A i \in FilterChannels, j \in 0 .. num - 1 :
       \E filter \in {"before"} \cup UNION {Filters(u) : u \in Users} :
         \A k \in Coeffs : Decoded(i)[k + COEFFS_PER_BIQUAD * j] = <<filter, <<i, j, k>>>>
  /\ \A w \in Words : ~ IsPlace(w, num) => hw[w] = Holding("before")[w]
===============================================================================
