----------------------------- MODULE FieldCodec -----------------------------
(***************************************************************************)
(* Bit fields of registers (util/util-bits.h) and fixed-point numbers      *)
(* (util/util.cc), over registers of W bits.  A register is the number     *)
(* 0 .. 2^W-1 that its bits make; a mask is contiguous, and so is given by *)
(* its lowest bit and its width.  A double is the number of units of       *)
(* 2^-Scale that it is.                                                    *)
(***************************************************************************)
EXTENDS Integers

CONSTANTS
  W,            \* bits of a register (32)
  SignWidths,   \* widths that sign_extend knows (8, 16, 32)
  Scale         \* a double is a multiple of 2^-Scale

ASSUME CodecAssumption ==
  W \in Nat \ {0, 1} /\ SignWidths \subseteq 2 .. W /\ Scale \in Nat

Words == 0 .. 2^W - 1
IntMax == 2^(W-1) - 1
IntMin == -(2^(W-1))

\* (uint32_t)v and (int32_t)w
ToUint(v) == v % 2^W
ToInt(w) == IF w > IntMax THEN w - 2^W ELSE w

Bits(word, low, width) == (word \div 2^low) % 2^width

\* sign_extend for the widths it knows.
SignExtend(v, width) == IF v >= 2^(width-1) THEN v - 2^width ELSE v

ExtractZeroExtended(word, low, width, signed) == ToInt(Bits(word, low, width))
ExtractValue(word, low, width, signed) ==
  IF signed
    THEN SignExtend(Bits(word, low, width), width)
    ELSE ToInt(Bits(word, low, width))

InsertAcceptsOneMore(v, width, signed) ==
  IF signed THEN -(2^(width-1)) <= v /\ v <= 2^(width-1) ELSE ToUint(v) <= 2^width
\* The range that clear_and_insert accepts: of an int32_t, the one of a signed
\* number of the mask's width; of a uint32_t, the one of the mask.
InsertAccepts(v, width, signed) ==
  LET mask == 2^width - 1
      umax == mask \div 2
  IN  IF signed
        THEN -(mask - umax) <= v /\ v <= umax
        ELSE ToUint(v) <= mask

\* The definitions named after a slip are mutants.
ClearAndInsert(word, v, low, width) ==
  word - Bits(word, low, width) * 2^low + (ToUint(v) % 2^width) * 2^low

\* insert_bit and get_bit: any value other than 0 sets the bit.
InsertBit(word, v, low) == ClearAndInsert(word, IF v = 0 THEN 0 ELSE 1, low, 1)
GetBit(word, low) == Bits(word, low, 1)

\* fixed2float: a W-bit number over 2^pos.
FixedToFloat(v, pos) == v * 2^(Scale - pos)

Truncate(n, d) == IF n < 0 THEN -((-n) \div d) ELSE n \div d

\* float2fixed, saturating and rounding towards zero, as write_internal has it.
FloatToFixed(x, pos) ==
  IF x >= FixedToFloat(IntMax, pos) THEN IntMax
  ELSE IF x <= FixedToFloat(IntMin, pos) THEN IntMin
  ELSE Truncate(x, 2^(Scale - pos))
=============================================================================
