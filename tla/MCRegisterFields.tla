--------------------------- MODULE MCRegisterFields ---------------------------
\* Registers of 6 bits, whose sign_extend knows 2, 3 and 6 bits.  "mode", "limit"
\* and "reset" share a register, as in lamp, and "gain" is like pos_calc's ADC gains.
\* "ksum" is like pos_calc's KSUM, which is decoded without a sign.  "adc_ctl" is
\* fmc250m_4ch's, which unset_commands sets to 0: SLEEP_ADCS is a command there.
EXTENDS DeviceFields

FieldAt(r, l, n, signed, point) ==
  [reg |-> r, low |-> l, width |-> n, multibit |-> n > 1,
   extended |-> signed, fixed |-> point >= 0, pos |-> point]

MCLayout(f) ==
  CASE f = "mode" -> FieldAt("ctl", 0, 3, FALSE, -1)
    [] f = "limit" -> FieldAt("ctl", 3, 2, TRUE, -1)
    [] f = "reset" -> FieldAt("ctl", 5, 1, FALSE, -1)
    [] f = "gain" -> FieldAt("gain", 0, 6, FALSE, 3)
    [] f = "ksum" -> FieldAt("ksum", 0, 3, FALSE, 4)
    [] f = "sleep_adcs" -> FieldAt("adc_ctl", 4, 1, FALSE, -1)

MCInputs(f) ==
  CASE f = "mode" -> {-1, 5, 8}
    [] f = "limit" -> {-3, -2, 2}
    [] f = "reset" -> {0, 2}
    [] f = "gain" -> {-37, 129}
    [] f = "ksum" -> {-5, 8}
    [] f = "sleep_adcs" -> {0, 1}

MCRegisters == {"ctl", "gain", "ksum", "adc_ctl"}
AllOnesOrZeros == {[r \in MCRegisters |-> 0], [r \in MCRegisters |-> 63]}
MCFields == {"mode", "limit", "reset", "gain", "ksum", "sleep_adcs"}

-----------------------------------------------------------------------------
\* The bound: of an array's n elements, the first and the last.
FirstAndLast(n) == {0, n - 1}

CONSTANT MaxWrites    \* fields of a core that the client writes or the core reports anew
VARIABLES
  subject,   \* "bank" or "cores"
  writes     \* number of them

\* A bank or a core; the other stays as it began.
MCInit ==
  /\ subject \in {"bank", "cores"} /\ writes = 0
  /\ Init /\ Cores!Init
  /\ subject = "cores" => \A r \in Registers : hw[r] = 0
  /\ subject = "bank" => core = "fmc_active_clk" /\ began = {} /\ minor = 0

\* The bounds: all of the fields that are written, or reported anew, share a word, and one is
\* reported anew, once.
SameWord(f) ==
  /\ writes < MaxWrites /\ writes' = writes + 1
  /\ {g.at : g \in on \cup set \cup sent \cup reported} \subseteq {f.at}

CoreNext ==
  \/ \E f \in Cores!Known, value \in BOOLEAN : SameWord(f) /\ Cores!WriteField(f, value)
  \/ \E f \in Cores!Status(core) : SameWord(f) /\ reported = {} /\ Cores!Report(f)
  \/ /\ Cores!WriteParams \/ Cores!GetData \/ Cores!GetMonitors
     /\ UNCHANGED writes

MCNext ==
  /\ UNCHANGED subject
  /\ \/ subject = "bank" /\ Next /\ UNCHANGED coreVars /\ UNCHANGED writes
     \/ subject = "cores" /\ CoreNext /\ UNCHANGED vars

MCSpec == MCInit /\ [][MCNext]_<<subject, writes, vars, coreVars>>
===============================================================================
