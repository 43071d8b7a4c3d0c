--------------------------- MODULE RegisterFields ---------------------------
(***************************************************************************)
(* A RegisterDecoderController (util/controllers.h) and its decoder        *)
(* (util/decoders.cc): fields are written by name into the controller's    *)
(* copy of a device's registers, and write_params writes all of the copy   *)
(* to the device and takes the commands back from it.                      *)
(*                                                                         *)
(* The write of the block is one step: Bar4 shows that bar4_write_v is     *)
(* atomic.                                                                 *)
(***************************************************************************)
EXTENDS FieldCodec, FiniteSetsExt

CONSTANTS
  Registers,
  Fields,
  Layout(_),      \* the RegisterField of a field, without its value
  Commands,      \* fields that make the device do something when written
  ClearedRegs,   \* registers that unset_commands sets to 0 (fmc250m_4ch)
  Inputs(_),     \* values that the client writes to a field
  Initial        \* contents that the device may have

\* Overlap of two fields, which no decoder has.
Overlap(a, b) ==
  /\ a.reg = b.reg
  /\ a.low < b.low + b.width
  /\ b.low < a.low + a.width

ASSUME FieldsAssumption ==
  /\ \A f \in Fields :
       /\ Layout(f) \in [reg : Registers, low : Nat, width : Nat \ {0}, multibit : BOOLEAN,
                         extended : BOOLEAN, fixed : BOOLEAN, pos : Int]
       /\ Layout(f).low + Layout(f).width <= W
       /\ Layout(f).multibit <=> Layout(f).width > 1         \* extract_value
       /\ Layout(f).extended => Layout(f).width \in SignWidths  \* sign_extend
       /\ Layout(f).fixed => Layout(f).multibit /\ Layout(f).pos \in 0 .. Scale
  /\ \A f, g \in Fields : f # g => ~ Overlap(Layout(f), Layout(g))
  /\ Commands \subseteq Fields /\ IsFiniteSet(Commands)
  /\ ClearedRegs \subseteq Registers
  /\ \A f \in Fields : Layout(f).reg \in ClearedRegs => f \in Commands
  /\ Initial \subseteq [Registers -> Words]

\* A number is an int32_t; a double is one of its units.
ASSUME InputsAssumption ==
  \A f \in Fields :
    /\ Inputs(f) \subseteq Int
    /\ ~ Layout(f).fixed => Inputs(f) \subseteq IntMin .. IntMax

VARIABLES
  hw,        \* the device's registers
  shadow,    \* read_dest of the controller
  known,     \* set_devinfo has decoded once, so that register_fields is filled
  refused,   \* the last call threw
  asked      \* commands that the client has written and not yet sent

vars == <<hw, shadow, known, refused, asked>>

Init ==
  /\ hw \in Initial
  /\ shadow = [r \in Registers |-> 0]
  /\ known = FALSE
  /\ refused = FALSE
  /\ asked = {}

\* rf_extract_value or rf_get_bit, and rf_fixed2float: what get_generic_data
\* returns once the decoder has read the words.
Value(f, words) ==
  LET s == Layout(f)
      word == words[s.reg]
      value == IF s.multibit THEN ExtractValue(word, s.low, s.width, s.extended)
                             ELSE GetBit(word, s.low)
  IN  IF s.fixed THEN FixedToFloat(value, s.pos) ELSE value

\* rf_fixed2float makes the field signed, whatever its rf_extract_value was.
IsSigned(s) == s.extended \/ s.fixed
Raw(s, v) == IF s.fixed THEN FloatToFixed(v, s.pos) ELSE v
Fits(s, v) == s.multibit => InsertAccepts(Raw(s, v), s.width, IsSigned(s))

\* write_internal: the words with the field's new value in them.
Written(words, s, v) ==
  [words EXCEPT ![s.reg] =
     IF s.multibit THEN ClearAndInsert(@, Raw(s, v), s.low, s.width)
                   ELSE InsertBit(@, v, s.low)]

-----------------------------------------------------------------------------
\* RegisterDecoderController::set_devinfo reads and decodes into the decoder's
\* own registers: the controller's stay as they are.
SetDevinfo ==
  /\ known' = TRUE
  /\ refused' = FALSE
  /\ UNCHANGED <<hw, shadow, asked>>

\* write_general and write_channel.
WriteField(f, v) ==
  /\ IF known /\ Fits(Layout(f), v)
       THEN /\ shadow' = Written(shadow, Layout(f), v)
            /\ asked' = IF f \in Commands /\ v # 0 THEN asked \cup {f} ELSE asked \ {f}
            /\ refused' = FALSE
       ELSE refused' = TRUE /\ UNCHANGED <<shadow, asked>>
  /\ UNCHANGED <<hw, known>>

\* unset_commands writes 0 to each command (lamp, afc_timing), or to a whole register.
UnsetOne(words, f) == Written(words, Layout(f), 0)
Unset(words) ==
  LET unset == FoldSet(LAMBDA f, w : UnsetOne(w, f), words, Commands)
  IN  [r \in Registers |-> IF r \in ClearedRegs THEN 0 ELSE unset[r]]

\* RegisterController::write_params, with an encode_params that does nothing.
WriteParams ==
  /\ IF known
       THEN /\ hw' = shadow
            /\ shadow' = Unset(shadow)
            /\ asked' = {}
            /\ refused' = FALSE
       ELSE refused' = TRUE /\ UNCHANGED <<hw, shadow, asked>>
  /\ UNCHANGED known

Next ==
  \/ SetDevinfo
  \/ WriteParams
  \/ \E f \in Fields : \E v \in Inputs(f) : WriteField(f, v)

Spec == Init /\ [][Next]_vars

-----------------------------------------------------------------------------
(* Properties.                                                             *)

\* The same fields as a bank of named values: what each accepts and then holds is
\* said again here without bits.
FullWidth(s) == s.width = W
Unit(s) == 2^(Scale - s.pos)
Nearest(s, v) ==    \* of the multiples of Unit(s), saturated, rounded to 0
  CHOOSE x \in {n * Unit(s) : n \in IntMin .. IntMax} :
    IF v > IntMax * Unit(s) THEN x = IntMax * Unit(s)
    ELSE IF v < IntMin * Unit(s) THEN x = IntMin * Unit(s)
    ELSE IF v >= 0 THEN x <= v /\ v < x + Unit(s) ELSE x >= v /\ v > x - Unit(s)
\* A fixed-point number is written with its sign and may be decoded without one, as KSUM is.
LosesSign(s) == ~ s.extended /\ ~ FullWidth(s)
HeldNearest(s, v) ==
  IF Nearest(s, v) < 0 /\ LosesSign(s) THEN Nearest(s, v) + 2^s.width * Unit(s)
                                       ELSE Nearest(s, v)
BankHolds(f, v) ==
  LET s == Layout(f)
  IN  CASE ~ s.multibit -> IF v = 0 THEN 0 ELSE 1
        [] s.multibit /\ s.fixed -> HeldNearest(s, v)
        [] OTHER -> v
BankAccepts(f, v) ==
  LET s == Layout(f)
      n == IF s.fixed THEN Nearest(s, v) \div Unit(s) ELSE v
      top == 2^(s.width - 1)
  IN  CASE ~ s.multibit -> TRUE
        [] s.multibit /\ (IsSigned(s) \/ FullWidth(s)) -> -top <= n /\ n < top
        [] OTHER -> 0 <= n /\ n < 2 * top

Bank == INSTANCE FieldBank WITH
          Accepts <- BankAccepts,
          Held <- BankHolds,
          staged <- [f \in Fields |-> Value(f, shadow)],
          device <- [f \in Fields |-> Value(f, hw)]

\* A write throws when the field cannot hold the number, and only then
\* (clear_and_insert), or when nothing has been decoded yet.
RefusalsRight ==
  [][\A f \in Fields : \A v \in Inputs(f) :
       WriteField(f, v) => (refused' <=> ~ (known /\ BankAccepts(f, v)))]_vars

\* The controller implements the bank of fields: a field holds the number that was
\* written to it, none of its neighbours in the register changes, and one that it
\* cannot hold is refused without a trace.
BankSpec == Bank!Spec
=============================================================================
