------------------------------ MODULE CoreStatus ------------------------------
(***************************************************************************)
(* What the cores report: the values that decode (modules/...) shows and   *)
(* that no client of the class sets.  acq::Core only shows: what its       *)
(* controller writes is AcqController's, and here it is one of the things  *)
(* that change in the core.  A value that is made of several others        *)
(* (AMP_STATUS, INTLK_STA) is left out.                                    *)
(***************************************************************************)
EXTENDS FieldSets, RegisterMap

LampStatus ==
  {Field("PS_STATUS", RTMLAMP_STA.PS_STATUS)}
  \cup Channels({Field("DAC_EFF", RTMLAMP_CH_EFF.DAC)} \cup SameNames(RTMLAMP_CH_STA),
                12, RTMLAMP_CH.SIZE)

TimingStatus ==
  SameNames(TIMING_LOCKS)
  \cup {Field("ALIVE", TIMING_REG.ALIVE), Field("DBG_COUNTER", TIMING_REG_DBG.STA)}
  \cup Channels({Field("CH_COUNT", TIMING_REG.AMC0_COUNT)}, 18,
                TIMING_REG.AMC1.at - TIMING_REG.AMC0.at)

\* Only the channels' data has channels; the first of the four is DATA0's.
PicoStatus ==
  {Field("PRSNT", FMCPICO1M.PRSNT)} \cup Channels({Field("DATA", FMCPICO1M.DATA0)}, 4, 4)

TriggerIfaceStatus == Channels(SameNames(TRIG_IFACE_COUNT), 24, 12)

SysIdStatus ==
  {Field("MAX_NUM_CTE", FOFB_SYS_ID_CTE.MAX_NUM_CTE),
   Field("SP_DISTORT_MOV_AVG_MAX_NUM_TAPS_SEL_CTE", FOFB_SYS_ID_CTE.MAX_NUM_TAPS_SEL)}

\* The ones that fofb_processing's read_monitors reads, and the others.
Monitors(c) ==
  IF c # "fofb_processing" THEN {} ELSE
    {Field("INTLK_STA_ORB_DISTORT", FOFB_PROCESSING_STA.ORB_DISTORT),
     Field("INTLK_STA_PACKET_LOSS", FOFB_PROCESSING_STA.PACKET_LOSS)}
    \cup Channels({Field("CH_SP_DECIM_DATA", FOFB_PROCESSING_STA.CH_SP_DECIM_DATA)}, 12,
                  FOFB_PROCESSING.CH_SIZE)
ProcessingStatus ==
  {Field("FIXED_POINT_POS_COEFF", FOFB_PROCESSING_STA.COEFF),
   Field("FIXED_POINT_POS_GAINS", FOFB_PROCESSING_STA.ACCS_GAINS),
   Field("SP_DECIM_RATIO_MAX", FOFB_PROCESSING_STA.SP_DECIM_RATIO_MAX)}
  \cup Monitors("fofb_processing")

\* Two of fofb_cc's are registers, the others are in the part of its RAM that begins
\* with the system's status.
CcStatus ==
  LET Sta(offset) == [FOFB_CC.RAM_REG EXCEPT !.at = @ + 4 * (3 * 256 + offset)]
  IN  SameNames(FOFB_CC_DATA)
      \cup {Field("SYS_STATUS", Sta(0)), Field("LINK_UP", Sta(9)),
            Field("TIME_FRAME_CNT", Sta(10)), Field("FOD_PROCESS_TIME", Sta(51)),
            Field("BPM_CNT", Sta(52)), Field("FIRMWARE_VER", Sta(255))}
      \cup Channels(
             {Field("LINK_PARTNER", Sta(1)), Field("HARD_ERR_CNT", Sta(11)),
              Field("SOFT_ERR_CNT", Sta(19)), Field("FRAME_ERR_CNT", Sta(27)),
              Field("RX_PCK_CNT", Sta(35)), Field("TX_PCK_CNT", Sta(43))}, 8, 4)

\* Assumed: the core has as many channels as the header has, and says so in NUM_CHAN;
\* decode shows no more than that, and throws when they are more.
AcqStatus ==
  SameNames(ACQ_CORE_CTL) \cup SameNames(ACQ_CORE_STA) \cup SameNames(ACQ_CORE_TRIG_CFG)
  \cup SameNames(ACQ_CORE_SHOTS) \cup SameNames(ACQ_CORE_ACQ_CHAN_CTL)
  \cup SameNames(ACQ_CORE)
  \cup Channels(SameNames(ACQ_CORE_CH0_DESC), 24, 8)

Status(c) ==
  CASE c = "lamp" -> LampStatus [] c = "afc_timing" -> TimingStatus
    [] c = "fmcpico1m_4ch" -> PicoStatus [] c = "fmc_adc_common" -> SameNames(FMC_ADC_STATUS)
    [] c = "fmc_active_clk" -> SameNames(FMC_ACTIVE_CLK_STA)
    [] c = "si57x_ctrl" -> SameNames(SI57X_STA)
    [] c = "trigger_iface" -> TriggerIfaceStatus
    [] c = "orbit_intlk" -> SameNames(ORBIT_INTLK_STS) \cup SameNames(ORBIT_INTLK_DIFF)
    [] c = "sys_id" -> SysIdStatus [] c = "fofb_processing" -> ProcessingStatus
    [] c = "fofb_cc" -> CcStatus [] c = "acq" -> AcqStatus
    [] OTHER -> {}
===============================================================================
