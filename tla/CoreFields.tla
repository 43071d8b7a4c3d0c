------------------------------ MODULE CoreFields ------------------------------
(***************************************************************************)
(* The fields that clients set: where each decode or encode_params         *)
(* (modules/...) puts them, what read and write_params of the core         *)
(* transfer, and which commands are taken back once given.  RegisterMap    *)
(* has the positions of the masks; RegisterFields has the arithmetic of a  *)
(* field.  Here a field is a set of bits, and only whether two of them     *)
(* meet, or one of them is not transferred, matters.                       *)
(*                                                                         *)
(* In some cores a client writes a field by the name that decode gave it,  *)
(* straight to the controller's registers.  In others (ParamCores) it sets *)
(* a member, which encode_params puts where a mask of its own says, and    *)
(* three of them (ReadsFirst) read the core before that, to keep what the  *)
(* client has not set.                                                     *)
(*                                                                         *)
(* CoreStatus has the values that a core reports.  A controller has its    *)
(* device, and its fields have been decoded once.  What encode_params      *)
(* refuses is left out.                                                    *)
(***************************************************************************)
EXTENDS Integers, CoreStatus

-----------------------------------------------------------------------------
(* Fields written by name.  The definitions named after a slip are mutants. *)
Lamp ==
  LET m == RTMLAMP_CH
  IN  Channels(
        {Field("AMP_EN", m.AMP_EN), Field("MODE", m.MODE),
         Since(1, Field("TRIG_EN", m.TRIG_EN)),
         Command(Field("RST_LATCH", m.RST_LATCH_STS)), Field("PI_KP", m.PI_KP),
         Field("PI_TI", m.PI_TI), Field("PI_SP", m.PI_SP), Field("DAC", m.DAC),
         Field("LIMIT_A", m.LIM_A), Field("LIMIT_B", m.LIM_B), Field("CNT", m.CNT),
         Field("ADC_INST", m.ADC), Field("SP_EFF", m.SP)}, 12, m.SIZE)

\* set_freq keeps the first four in a member, and encode_params copies them to the
\* registers before each write: the client sees no difference.  The masks are the RTM
\* clock's for both.
TimingClocks ==
  LET m == TIMING_RTM
  IN  Channels(
        {Field("RFREQ_HI", [TIMING_REG.RTM_RFREQ_HI EXCEPT !.width = 18]),
         Field("RFREQ_LO", [TIMING_REG.RTM_RFREQ_LO EXCEPT !.width = 20]),
         Field("N1", m.N1), Field("HS_DIV", m.HS_DIV), Field("FREQ_KP", m.FREQ_KP),
         Field("FREQ_KI", m.FREQ_KI), Field("PHASE_KP", m.PHASE_KP),
         Field("PHASE_KI", m.PHASE_KI), Field("MAF_NAVG", m.MAF_NAVG),
         Field("MAF_DIV_EXP", m.MAF_DIV_EXP)},
        2, TIMING_REG.AFC_RFREQ_HI.at - TIMING_REG.RTM_RFREQ_HI.at)
TimingTriggers ==
  LET m == TIMING_AMC0
      r == TIMING_REG
  IN  Channels(
        {Field("CH_EN", m.EN), Field("CH_POL", m.POL), Field("CH_LOG", m.LOG),
         Field("CH_ITL", m.ITL), Field("CH_SRC", m.SRC), Field("CH_DIR", m.DIR),
         Command(Field("CH_COUNT_RST", m.COUNT_RST)), Field("CH_PULSES", r.AMC0_PULSES),
         Field("CH_EVT", r.AMC0_EVT), Field("CH_DLY", r.AMC0_DLY),
         Field("CH_WDT", r.AMC0_WDT)}, 18, r.AMC1.at - r.AMC0.at)
Timing ==
  LET m == TIMING_DBG
  IN  {Field("EVREN", TIMING_STAT.EVREN),
       Command(Field("RST_LOCKED_LTCS", TIMING_STAT.RST_LOCKED_LTCS)),
       Field("DBG_EN", m.EN), Command(Field("DBG_COUNTER_RST", m.COUNTER_RST)),
       Field("DBG_EVT_DS_START", m.EVT_DS_START), Field("DBG_EVT_US", m.EVT_US),
       Field("DBG_EVT_SPACING", m.EVT_SPACING), Field("DBG_EVT_REPS", TIMING_REG_DBG.CFG_2)}
      \cup TimingClocks \cup TimingTriggers
Sources == 9     \* sources_list.size()

\* The three rates' registers (SyncMaskRates) and the arrays of four.
PosCalcRates ==
  LET m == POS_CALC_TBT
  IN  Channels(
        {Field("SYNC_EN", m.TAG_EN), Field("SYNC_DLY", m.TAG_DLY),
         Command(Field("DESYNC_CNT_RST", m.DESYNC_CNT_RST)), Field("DESYNC_CNT", m.DESYNC_CNT),
         Field("DATA_MASK_EN", m.DATA_MASK_EN), Field("DATA_MASK_SAMPLES_BEG", m.SAMPLES_BEG),
         Field("DATA_MASK_SAMPLES_END", m.SAMPLES_END)}, 3, 12)
PosCalcGains ==
  Channels({Field("ADC_SWCLK_INV_GAIN", POS_CALC_ADC.SWCLK_0_GAIN),
            Field("ADC_SWCLK_DIR_GAIN", POS_CALC_ADC.SWCLK_1_GAIN)}, 4, 4)
PosCalcOffsets ==
  Channels({Since(1, Field("ADC_SWCLK_INV_OFFSET", POS_CALC_ADC.SWCLK_0_OFFSET)),
            Since(1, Field("ADC_SWCLK_DIR_OFFSET", POS_CALC_ADC.SWCLK_1_OFFSET))}, 4, 4)
PosCalc ==
  LET m == POS_CALC_SW
  IN  {Field("KX", POS_CALC_K.KX), Field("KY", POS_CALC_K.KY), Field("KSUM", POS_CALC_K.KSUM),
       Field("TEST_DATA", POS_CALC_DDS_CFG.TEST_DATA), Field("FOFB_SYNC_EN", m.TAG_EN),
       Command(Field("FOFB_DESYNC_CNT_RST", m.DESYNC_CNT_RST)),
       Field("FOFB_DESYNC_CNT", m.DESYNC_CNT), Field("FOFB_DATA_MASK_EN", m.DATA_MASK_EN),
       Field("FOFB_DATA_MASK_SAMPLES", m.DATA_MASK_SAMPLES),
       Field("OFFSET_X", POS_CALC_ADC.OFFSET_X), Field("OFFSET_Y", POS_CALC_ADC.OFFSET_Y),
       Field("ADC_GAINS_FIXED_POINT_POS", POS_CALC_ADC.GAINS_FIXED_POINT_POS)}
      \cup PosCalcRates \cup PosCalcGains \cup PosCalcOffsets

Pico == {[Field("RANGE", FMCPICO1M_RNG_CTL[c]) EXCEPT !.ch = c] : c \in 0 .. 3}

\* Decoded under the names of the masks.
AdcCommon == SameNames(FMC_ADC_COMMON)
ActiveClk == SameNames(FMC_ACTIVE_CLK)

\* unset_commands sets the whole register to 0, also SLEEP_ADCS.
Adc250m == {Command(f) : f \in SameNames(FMC_250M_ADC_CTL)}

SpiCore ==
  Channels({Field("X", SPI_PROTO.TX0), Field("RX_SINGLE", SPI_PROTO.RX0_SINGLE)}, 4, 4)
  \cup {f \in SameNames(SPI_PROTO) : f.name \notin {"TX0", "RX0_SINGLE"}}

Si57x ==
  {[f EXCEPT !.command = f.name \in {"READ_STRP_REGS", "APPLY_CFG"}] :
     f \in SameNames(SI57X_CTRL)}

-----------------------------------------------------------------------------
(* Fields that encode_params puts in the registers from members.            *)
TriggerMux == Channels(SameNames(TRIG_MUX_CH0), 24, 8)

TriggerIface ==
  Channels({[f EXCEPT !.command = f.name \in {"RCV_COUNT_RST", "TRANSM_COUNT_RST"}] :
              f \in SameNames(TRIG_IFACE_CH0)}, 24, 12)

BpmSwap ==
  LET m == BPM_SWAP
  IN  {Command(Field("RST", m.RST)), Field("MODE", m.MODE),
       Field("DIV_F_CNT_EN", m.SWAP_DIV_F_CNT_EN), Field("DIV_F", m.SWAP_DIV_F),
       Field("DLY", m.DESWAP)}

OrbitIntlk ==
  {[f EXCEPT !.command = f.name \in {"CLR", "TRANS_CLR", "ANG_CLR"}] :
     f \in SameNames(ORBIT_INTLK_CTRL)}
  \cup SameNames(ORBIT_INTLK_REG)

\* The RAM's first half is for x, the second for y.  "RST" enables a reset, and stays.
SysId ==
  LET m == FOFB_SYS_ID
      Plain == {"BASE_BPM_ID", "RST", "STEP_DURATION", "LFSR_LENGTH", "BPM_POS_DISTORT_EN",
                "SP_DISTORT_EN", "NUM_TAPS_SEL"}
      Ram(name, mask, half) == Field(name, [mask EXCEPT !.at = @ + half * 256 * 4])
  IN  {f \in SameNames(m) : f.name \in Plain}
      \cup Channels({Field("SP_PRBS_0", m.SP_LEVEL_0), Field("SP_PRBS_1", m.SP_LEVEL_1)}, 12, 4)
      \cup Channels(
             {Ram("X_PRBS_0", m.RAM_LEVEL_0, 0), Ram("X_PRBS_1", m.RAM_LEVEL_1, 0),
              Ram("Y_PRBS_0", m.RAM_LEVEL_0, 1), Ram("Y_PRBS_1", m.RAM_LEVEL_1, 1)}, 256, 4)

\* The banks' second halves are for y.
Processing ==
  LET m == FOFB_PROCESSING
      Y(mask) == [mask EXCEPT !.at = @ + 256 * 4]
      Bank(first, last, mask) ==
        {Field(first, mask), Field(last, [mask EXCEPT !.at = @ + 255 * 4])}
  IN  {Command(Field("STA_CLR", m.STA_CLR)), Field("EN_ORB_DISTORT", m.EN_ORB_DISTORT),
       Field("EN_PACKET_LOSS", m.EN_PACKET_LOSS),
       Field("ORB_DISTORT_LIMIT", m.ORB_DISTORT_LIMIT), Field("MIN_NUM_PACKETS", m.MIN_NUM_PKTS)}
      \cup Bank("REF_ORB_X_0", "REF_ORB_X_255", m.SPS_RAM_BANK)
      \cup Bank("REF_ORB_Y_0", "REF_ORB_Y_255", Y(m.SPS_RAM_BANK))
      \cup Channels(
             {Command(Field("ACC_CLEAR", m.CLEAR)), Field("ACC_FREEZE", m.FREEZE),
              Field("ACC_GAIN", m.GAIN), Field("LIMIT_MAX", m.MAX), Field("LIMIT_MIN", m.MIN),
              Field("RATIO", m.RATIO)}
             \cup Bank("COEFF_X_0", "COEFF_X_255", m.COEFF_RAM_BANK)
             \cup Bank("COEFF_Y_0", "COEFF_Y_255", Y(m.COEFF_RAM_BANK)),
             12, m.CH_SIZE)

\* Some registers are at the core's own addresses, others in its RAM.
CcRegs ==
  {[f EXCEPT !.command = f.name \in {"ERR_CLR", "TOA_RD_STR", "RCB_RD_STR"}] :
     f \in {g \in SameNames(FOFB_CC) :
              g.name \notin {"ACT_PART", "XY_BUFF_DATA_LSB", "RAM_REG"}}}
CcRam ==
  LET At(offset) == [FOFB_CC.RAM_REG EXCEPT !.at = @ + 4 * offset]
  IN  {Field("BPM_ID", [At(0) EXCEPT !.width = 9]), Field("TIME_FRAME_LEN", At(1)),
       Field("MGT_POWERDOWN", At(2)), Field("MGT_LOOPBACK", At(3)),
       Field("TIME_FRAME_DLY", At(4)), Field("RX_POLARITY", At(8)),
       Field("PAYLOAD_SEL", At(9)), Field("FOFB_DATA_SEL", At(10))}

-----------------------------------------------------------------------------
ReadsFirst == {"trigger_mux", "trigger_iface", "fofb_cc"}
ReadsAtStart == {"sys_id", "fofb_processing"}       \* in set_devinfo_callback
ParamCores == {"bpm_swap", "orbit_intlk"} \cup ReadsAtStart \cup ReadsFirst
AllCores ==
  {"lamp", "afc_timing", "pos_calc", "fmcpico1m_4ch", "fmc_adc_common", "fmc_active_clk",
   "fmc250m_4ch", "spi", "si57x_ctrl", "acq"} \cup ParamCores

FieldsOf(c) ==
  CASE c = "lamp" -> Lamp [] c = "afc_timing" -> Timing [] c = "pos_calc" -> PosCalc
    [] c = "fmcpico1m_4ch" -> Pico [] c = "fmc_adc_common" -> AdcCommon
    [] c = "fmc_active_clk" -> ActiveClk [] c = "fmc250m_4ch" -> Adc250m
    [] c = "spi" -> SpiCore [] c = "si57x_ctrl" -> Si57x
    [] c = "trigger_mux" -> TriggerMux [] c = "trigger_iface" -> TriggerIface
    [] c = "bpm_swap" -> BpmSwap [] c = "orbit_intlk" -> OrbitIntlk
    [] c = "sys_id" -> SysId [] c = "fofb_processing" -> Processing
    [] c = "fofb_cc" -> CcRegs \cup CcRam
    [] c = "acq" -> {}

-----------------------------------------------------------------------------
(* Accesses: sets of blocks, of the bytes from .. to - 1.                  *)
Block(from, to) == [from |-> from, to |-> to]
In(word, blocks) == \E b \in blocks : b.from <= word /\ word < b.to

Size(c) ==
  CASE c = "lamp" -> 2048 [] c = "afc_timing" -> 504 [] c = "pos_calc" -> 352
    [] c = "fmcpico1m_4ch" -> 28 [] c = "fmc_adc_common" -> 12
    [] c = "fmc_active_clk" -> 4 [] c = "fmc250m_4ch" -> 8
    [] c = "spi" -> 48 [] c = "si57x_ctrl" -> 24
    [] c = "trigger_mux" -> 24 * 8 [] c = "trigger_iface" -> 24 * 12
    [] c = "bpm_swap" -> 8 [] c = "orbit_intlk" -> 60 [] c = "sys_id" -> 8192
    [] c = "fofb_processing" -> 53248 [] c = "fofb_cc" -> 16384
    [] c = "acq" -> 252

\* pos_calc's read, and its write_params, which "has to write to the same registers".
PosCalcShort == {Block(12, 20), Block(44, 48), Block(232, 352)}
PosCalcBlocks == {Block(12, 20 + 4), Block(44, 48), Block(232, 352)}

\* fofb_cc's read: the registers, the part of the RAM that is written, and the rest.
CcBlocks ==
  LET ram == FOFB_CC.RAM_REG.at
  IN  {Block(0, FOFB_CC.XY_BUFF_DATA_LSB.at + 4), Block(ram, ram + 11 * 4),
       Block(ram + 768 * 4, ram + 768 * 4 + 1024 * 4)}

ReadsAll(c) == {Block(0, Size(c))}
Reads(c) ==
  CASE c = "pos_calc" -> PosCalcBlocks
    [] c = "fofb_cc" -> CcBlocks
    [] OTHER -> {Block(0, Size(c))}

\* read_monitors, which fofb_processing and sys_id have their own of.
MonitorsOfFirst(c) == {Block(f.at, f.at + 4) : f \in {g \in Monitors(c) : g.ch = 0}}
ReadsMonitors(c) == {Block(f.at, f.at + 4) : f \in Monitors(c)}

Writes(c) ==
  CASE c = "pos_calc" -> PosCalcBlocks
    [] c = "fmcpico1m_4ch" -> {Block(8, 12)}
    [] OTHER -> {Block(0, Size(c))}

\* fofb_cc's write_params writes its registers again with this bit, which tells the core to
\* take what it has got.
SecondWrite(c) == IF c = "fofb_cc" THEN {FOFB_CC.ACT_PART} ELSE {}

\* Words whose access does something else: a read of a FIFO's takes a value out of it,
\* "writing into ... DATA3 ... triggers a gateware bug".
Harmful(c, access) ==
  CASE c = "pos_calc" /\ access = "read" ->
           {POS_CALC_AMPFIFO.R0.at + fifo * POS_CALC_AMPFIFO.SIZE + 4 * r :
              fifo \in 0 .. 3, r \in 0 .. 3}
    [] c = "fmcpico1m_4ch" /\ access = "write" -> {24}
    [] OTHER -> {}

-----------------------------------------------------------------------------
VARIABLES
  core,      \* the core, and its abi_ver_minor
  minor,
  hw,        \* the bits that are 1 in each word of the core,
  regs,      \* of the controller's registers,
  dec,       \* and of the decoder's
  set,       \* members of the controller that have a value,
  on,        \* and members and fields whose value is not 0
  aborted,   \* an assertion of decode has failed
  began,     \* (history) the bits that were 1 in any word at first
  kept,      \* (history) fields that no write_params has written
  sent,      \* (history) the value of "on" at the last write_params
  read,      \* (history) since then: "none" before the first, "stale", "fresh"
  reported,  \* (history) what the core reports another value of than at first,
  shown,     \* (history) what has been read of what it reports,
  changed    \* (history) and what of it was another value then

vars == <<core, minor, hw, regs, dec, set, on, aborted, began, kept, sent, read,
          reported, shown, changed>>
statusVars == <<reported, shown, changed>>

Known == {f \in FieldsOf(core) : f.since <= minor}
Words(c) == {f.at : f \in FieldsOf(c) \cup Status(c)}
KnownCommands == {f \in Known : f.command}

\* All of the bits are 0, or all but the commands and the ones of a source, which has
\* been decoded.
AtFirst(w) == began \ BitsAt({f \in FieldsOf(core) : f.command \/ f.name = "CH_SRC"}, w)
Init ==
  /\ core \in AllCores
  /\ minor \in {0} \cup {f.since : f \in FieldsOf(core)}
  /\ began \in {{}, 0 .. 31}
  /\ hw = [w \in Words(core) |-> AtFirst(w)]
  /\ regs = IF core \in ReadsAtStart THEN hw ELSE [w \in Words(core) |-> {}]
  /\ dec = [w \in Words(core) |-> {}]
  /\ set = {} /\ on = {} /\ kept = Known
  /\ aborted = FALSE
  /\ sent = {} /\ read = "none"
  /\ reported = {} /\ shown = {} /\ changed = {}

\* write_general and write_channel, or an assignment to a member, with the field's
\* largest pattern or with 0.
WriteField(f, value) ==
  /\ ~ aborted
  /\ IF core \in ParamCores
     THEN set' = set \cup {f} /\ UNCHANGED regs
     ELSE /\ regs' = [regs EXCEPT ![f.at] = IF value THEN @ \cup Bits(f) ELSE @ \ Bits(f)]
          /\ UNCHANGED set
  /\ on' = IF value THEN on \cup {f} ELSE on \ {f}
  /\ UNCHANGED <<core, minor, hw, dec, aborted, began, kept, sent, read, statusVars>>

\* The core reports another value of f, or the first one again.
Report(f) ==
  /\ ~ aborted
  /\ hw' = [hw EXCEPT ![f.at] = IF Bits(f) \subseteq @ THEN @ \ Bits(f) ELSE @ \cup Bits(f)]
  /\ reported' = IF f \in reported THEN reported \ {f} ELSE reported \cup {f}
  /\ UNCHANGED <<core, minor, regs, dec, set, on, aborted, began, kept, sent, read, shown,
                 changed>>

\* encode_params.  Assumed of the cores that are read first: a command's bit is 0 there
\* again once the core has obeyed it.
Given == IF core \in ReadsFirst THEN set ELSE Known
Encoded(w) ==
  LET base == IF core \in ReadsFirst THEN hw[w] \ BitsAt(KnownCommands, w) ELSE regs[w]
  IN  (base \ BitsAt(Given, w)) \cup BitsAt(on, w)

\* write_params: the write, unset_commands or the reset of the members that are
\* commands, and fofb_cc's second write.
\* Assumed: a core keeps what it reports.  acq's write_params is AcqController's.
WriteParams ==
  LET encoded == [w \in DOMAIN regs |-> IF core \in ParamCores THEN Encoded(w) ELSE regs[w]]
      Applied(w) == encoded[w] \cup BitsAt(SecondWrite(core), w)
      Kept(w) == BitsAt(Status(core), w)
      Taken(w) == (Applied(w) \ Kept(w)) \cup (hw[w] \cap Kept(w))
  IN  /\ ~ aborted /\ core # "acq"
      /\ hw' = [w \in DOMAIN hw |-> IF In(w, Writes(core)) THEN Taken(w) ELSE hw[w]]
      /\ regs' = [w \in DOMAIN regs |->
                    IF core \in ParamCores THEN encoded[w] ELSE encoded[w] \ BitsAt(KnownCommands, w)]
      /\ set' = set \ KnownCommands /\ on' = on \ KnownCommands
      /\ kept' = kept \ Given
      /\ sent' = on
      /\ read' = "stale"
      /\ UNCHANGED <<core, minor, dec, aborted, began, statusVars>>

\* get_data: read and decode.  The decoder knows the names of nine sources.
Source(f, words) ==
  LET On(b) == IF f.low + b \in words[f.at] THEN 2^b ELSE 0
  IN  On(0) + On(1) + On(2) + On(3)
Decoded(blocks) ==
  /\ ~ aborted
  /\ dec' = [w \in DOMAIN dec |-> IF In(w, blocks) THEN hw[w] ELSE dec[w]]
  /\ aborted' = \E f \in Known : f.name = "CH_SRC" /\ Source(f, dec') >= Sources
  /\ UNCHANGED <<core, minor, hw, regs, set, on, began, kept, sent, reported>>
GetData ==
  /\ Decoded(Reads(core))
  /\ shown' = Status(core) /\ changed' = reported
  /\ read' = IF read = "none" THEN "none" ELSE "fresh"

\* get_data of the monitors only, of a class that has some.
GetMonitors ==
  /\ core \in {"fofb_processing", "sys_id"}
  /\ Decoded(ReadsMonitors(core))
  /\ shown' = shown \cup Monitors(core)
  /\ changed' = (changed \ Monitors(core)) \cup (reported \cap Monitors(core))
  /\ UNCHANGED read

Next ==
  \/ \E f \in Known, value \in BOOLEAN : WriteField(f, value)
  \/ \E f \in Status(core) : Report(f)
  \/ WriteParams
  \/ GetData
  \/ GetMonitors

Spec == Init /\ [][Next]_vars

-----------------------------------------------------------------------------
(* Properties.                                                             *)
\* What the client has set reaches the core with the next write_params, and is what the
\* decoder then has there.  Every other field is 0, with which the controller's registers
\* and members begin, and so is a command that an earlier write_params has given; but
\* the classes that read first leave in the core what it had.
NamedArrives ==
  read = "fresh" =>
    \A f \in Known :
      dec[f.at] \cap Bits(f) = IF f \in sent THEN Bits(f)
                               ELSE IF f \in kept THEN AtFirst(f.at) \cap Bits(f) ELSE {}

\* What the decoder shows of what the core reports is what the core had there at the last
\* get_data that reads it, whatever the client has written in the same words since; a
\* get_data of the monitors keeps the others as they were shown.
StatusShown ==
  \A f \in shown :
    dec[f.at] \cap Bits(f) = IF f \in changed THEN Bits(f) \ AtFirst(f.at)
                             ELSE Bits(f) \cap AtFirst(f.at)

\* No two of a core's values share a bit, read and write_params transfer all that a client
\* sets and decode shows, and read_monitors what it says and no more; neither of them
\* accesses a word that does something else, "since that has side effects for their FIFO"
\* (pos_calc.cc).
Meet(f, g) == f.at = g.at /\ Bits(f) \cap Bits(g) # {}
Apart(fields, status) ==
  /\ \A f, g \in fields : Meet(f, g) => f = g
  /\ \A f, g \in status : Meet(f, g) => f = g
  /\ \A f \in fields, g \in status : ~ Meet(f, g)
LayoutOf(c) ==
  LET fields == FieldsOf(c)
      status == Status(c)
  IN  /\ Apart(fields, status)
      /\ \A f \in fields \cup status :
           /\ Bits(f) \subseteq 0 .. 31
           /\ In(f.at, Reads(c))
           /\ \A act \in SecondWrite(c) : ~ Meet(f, act)
      /\ \A f \in fields : In(f.at, Writes(c))
      /\ Monitors(c) \subseteq status
      /\ \A f \in status : In(f.at, ReadsMonitors(c)) <=> f \in Monitors(c)
      /\ \A w \in Harmful(c, "read") : ~ In(w, Reads(c) \cup ReadsMonitors(c))
      /\ \A w \in Harmful(c, "write") : ~ In(w, Writes(c))
===============================================================================
