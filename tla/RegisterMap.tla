----------------------------- MODULE RegisterMap -----------------------------
(***************************************************************************)
(* Where the register headers (modules/hw) have the fields that a          *)
(* controller writes and the ones that a core reports: the offset of a     *)
(* register, and the bits of a mask.                                       *)
(* One definition for each header, or part of one; a field is called what  *)
(* its mask is called.  Registers that a header has for each channel are   *)
(* here once, the first channel's.                                         *)
(***************************************************************************)
EXTENDS Integers

Mask(at, low, width) == [at |-> at, low |-> low, width |-> width]
BitAt(at, low) == Mask(at, low, 1)
Register(at) == Mask(at, 0, 32)

RTMLAMP_CH ==
  LET CH == 1024
  IN  [AMP_EN |-> BitAt(CH + 4, 0), MODE |-> Mask(CH + 4, 1, 3),
       TRIG_EN |-> BitAt(CH + 4, 5), RST_LATCH_STS |-> BitAt(CH + 4, 6),
       PI_KP |-> Mask(CH + 8, 0, 26), PI_TI |-> Mask(CH + 12, 0, 26),
       PI_SP |-> Mask(CH + 16, 0, 16), DAC |-> Mask(CH + 20, 0, 16),
       LIM_A |-> Mask(CH + 24, 0, 16), LIM_B |-> Mask(CH + 24, 16, 16),
       CNT |-> Mask(CH + 28, 0, 22), ADC |-> Mask(CH + 32, 0, 16),
       SP |-> Mask(CH + 36, 0, 16), SIZE |-> 64]
RTMLAMP_STA == [PS_STATUS |-> Register(0)]
RTMLAMP_CH_STA ==
  LET STA == 1024
  IN  [AMP_IFLAG_L |-> BitAt(STA, 0), AMP_TFLAG_L |-> BitAt(STA, 1),
       AMP_IFLAG_R |-> BitAt(STA, 2), AMP_TFLAG_R |-> BitAt(STA, 3),
       AMP_IFLAG_L_LATCH |-> BitAt(STA, 16), AMP_TFLAG_L_LATCH |-> BitAt(STA, 17),
       AMP_IFLAG_R_LATCH |-> BitAt(STA, 18), AMP_TFLAG_R_LATCH |-> BitAt(STA, 19)]
RTMLAMP_CH_EFF == [DAC |-> Mask(1024 + 32, 16, 16)]

TIMING_STAT == [EVREN |-> BitAt(0, 2), RST_LOCKED_LTCS |-> BitAt(0, 13)]
TIMING_LOCKS ==
  [LINK |-> BitAt(0, 0), RXEN |-> BitAt(0, 1),
   LOCKED_AFC_FREQ |-> BitAt(0, 3), LOCKED_AFC_PHASE |-> BitAt(0, 4),
   LOCKED_RTM_FREQ |-> BitAt(0, 5), LOCKED_RTM_PHASE |-> BitAt(0, 6),
   LOCKED_GT0 |-> BitAt(0, 7),
   LOCKED_AFC_FREQ_LTC |-> BitAt(0, 8), LOCKED_AFC_PHASE_LTC |-> BitAt(0, 9),
   LOCKED_RTM_FREQ_LTC |-> BitAt(0, 10), LOCKED_RTM_PHASE_LTC |-> BitAt(0, 11),
   LOCKED_GT0_LTC |-> BitAt(0, 12)]
TIMING_RTM ==
  [N1 |-> Mask(16, 0, 7), HS_DIV |-> Mask(16, 7, 3),
   FREQ_KP |-> Mask(20, 0, 16), FREQ_KI |-> Mask(20, 16, 16),
   PHASE_KP |-> Mask(24, 0, 16), PHASE_KI |-> Mask(24, 16, 16),
   MAF_NAVG |-> Mask(28, 0, 12), MAF_DIV_EXP |-> Mask(28, 12, 5)]
TIMING_AMC0 ==
  [EN |-> BitAt(56, 0), POL |-> BitAt(56, 1), LOG |-> BitAt(56, 2), ITL |-> BitAt(56, 3),
   SRC |-> Mask(56, 4, 4), DIR |-> BitAt(56, 8), COUNT_RST |-> BitAt(56, 9)]
TIMING_DBG ==
  [EN |-> BitAt(488, 0), COUNTER_RST |-> BitAt(488, 1),
   EVT_DS_START |-> Mask(492, 0, 8), EVT_US |-> Mask(492, 8, 8),
   EVT_SPACING |-> Mask(492, 16, 8)]
\* Offsets, of the clocks and the first triggers.
TIMING_REG ==
  [ALIVE |-> Register(4), RTM_RFREQ_HI |-> Register(8), RTM_RFREQ_LO |-> Register(12),
   AFC_RFREQ_HI |-> Register(32), AMC0 |-> Register(56), AMC0_PULSES |-> Register(60),
   AMC0_COUNT |-> Register(64), AMC0_EVT |-> Register(68), AMC0_DLY |-> Register(72),
   AMC0_WDT |-> Register(76), AMC1 |-> Register(80)]
TIMING_REG_DBG == [CFG_2 |-> Register(496), STA |-> Register(500)]

POS_CALC_K == [KX |-> Mask(12, 0, 25), KY |-> Mask(16, 0, 25), KSUM |-> Mask(20, 0, 25)]
POS_CALC_DDS_CFG == [TEST_DATA |-> BitAt(44, 1)]
\* The first of four FIFOs.
POS_CALC_AMPFIFO == [R0 |-> Register(152), SIZE |-> 20]
POS_CALC_SW ==
  [TAG_EN |-> BitAt(232, 0), DESYNC_CNT_RST |-> BitAt(232, 8),
   DESYNC_CNT |-> Mask(232, 9, 14), DATA_MASK_EN |-> BitAt(236, 0),
   DATA_MASK_SAMPLES |-> Mask(236, 1, 16)]
POS_CALC_TBT ==
  [TAG_EN |-> BitAt(240, 0), TAG_DLY |-> Mask(240, 1, 16),
   DESYNC_CNT_RST |-> BitAt(240, 17), DESYNC_CNT |-> Mask(240, 18, 14),
   DATA_MASK_EN |-> BitAt(244, 0), SAMPLES_BEG |-> Mask(248, 0, 16),
   SAMPLES_END |-> Mask(248, 16, 16)]
POS_CALC_ADC ==
  [OFFSET_X |-> Register(276), OFFSET_Y |-> Register(280),
   GAINS_FIXED_POINT_POS |-> Register(284),
   SWCLK_0_GAIN |-> Register(288), SWCLK_1_GAIN |-> Register(304),
   SWCLK_0_OFFSET |-> Mask(320, 0, 16), SWCLK_1_OFFSET |-> Mask(336, 0, 16)]

\* R0 to R3.
FMCPICO1M_RNG_CTL == [r \in 0 .. 3 |-> BitAt(8, 8 * r)]
FMCPICO1M == [PRSNT |-> BitAt(0, 0), DATA0 |-> Register(12)]

FMC_ADC_COMMON ==
  [DIR |-> BitAt(4, 0), TERM |-> BitAt(4, 1), TRIG_VAL |-> BitAt(4, 2),
   TEST_DATA_EN |-> BitAt(8, 0), LED1 |-> BitAt(8, 1), LED2 |-> BitAt(8, 2),
   LED3 |-> BitAt(8, 3), MMCM_RST |-> BitAt(8, 4)]
FMC_ADC_STATUS ==
  [MMCM_LOCKED |-> BitAt(0, 0), PWR_GOOD |-> BitAt(0, 1), PRST |-> BitAt(0, 2)]

FMC_ACTIVE_CLK ==
  [SI571_OE |-> BitAt(0, 0), PLL_FUNCTION |-> BitAt(0, 1), CLK_SEL |-> BitAt(0, 3)]
FMC_ACTIVE_CLK_STA == [PLL_STATUS |-> BitAt(0, 2)]

FMC_250M_ADC_CTL ==
  [RST_ADCS |-> BitAt(4, 2), RST_DIV_ADCS |-> BitAt(4, 3), SLEEP_ADCS |-> BitAt(4, 4)]

SPI_PROTO ==
  [TX0 |-> Register(0), CHARLEN |-> Mask(16, 0, 7), BSY |-> BitAt(16, 8),
   RXNEG |-> BitAt(16, 9), TXNEG |-> BitAt(16, 10), LSB |-> BitAt(16, 11),
   IE |-> BitAt(16, 12), ASS |-> BitAt(16, 13), DIVIDER |-> Mask(20, 0, 16),
   SS |-> Mask(24, 0, 8), BIDIR_CHARLEN |-> Mask(28, 0, 7), BIDIR_EN |-> BitAt(28, 7),
   RX0_SINGLE |-> Register(32)]

SI57X_CTRL ==
  [READ_STRP_REGS |-> BitAt(0, 0), APPLY_CFG |-> BitAt(0, 1), RFREQ_MSB |-> Mask(16, 0, 6),
   N1 |-> Mask(16, 6, 7), HSDIV |-> Mask(16, 13, 3), RFREQ_LSB |-> Register(20)]
SI57X_STA ==
  [STRP_COMPLETE |-> BitAt(4, 0), CFG_IN_SYNC |-> BitAt(4, 1), I2C_ERR |-> BitAt(4, 2),
   BUSY |-> BitAt(4, 3), RFREQ_MSB_STRP |-> Mask(8, 0, 6), N1_STRP |-> Mask(8, 6, 7),
   HSDIV_STRP |-> Mask(8, 13, 3), RFREQ_LSB_STRP |-> Register(12)]

TRIG_MUX_CH0 ==
  [RCV_SRC |-> BitAt(0, 0), RCV_IN_SEL |-> Mask(0, 8, 8),
   TRANSM_SRC |-> BitAt(0, 16), TRANSM_OUT_SEL |-> Mask(0, 24, 8)]

TRIG_IFACE_CH0 ==
  [DIR |-> BitAt(0, 0), DIR_POL |-> BitAt(0, 1), RCV_COUNT_RST |-> BitAt(0, 2),
   TRANSM_COUNT_RST |-> BitAt(0, 3), RCV_LEN |-> Mask(4, 0, 8), TRANSM_LEN |-> Mask(4, 8, 8)]
TRIG_IFACE_COUNT == [RCV_COUNT |-> Mask(8, 0, 16), TRANSM_COUNT |-> Mask(8, 16, 16)]

BPM_SWAP ==
  [RST |-> BitAt(0, 0), MODE |-> Mask(0, 1, 2), SWAP_DIV_F_CNT_EN |-> BitAt(0, 5),
   SWAP_DIV_F |-> Mask(0, 8, 16), DESWAP |-> Mask(4, 0, 16)]

ORBIT_INTLK_CTRL ==
  [EN |-> BitAt(0, 0), CLR |-> BitAt(0, 1), MIN_SUM_EN |-> BitAt(0, 2),
   TRANS_EN |-> BitAt(0, 3), TRANS_CLR |-> BitAt(0, 4),
   ANG_EN |-> BitAt(0, 5), ANG_CLR |-> BitAt(0, 6)]
ORBIT_INTLK_REG ==
  [MIN_SUM |-> Register(8), TRANS_MAX_X |-> Register(12), TRANS_MAX_Y |-> Register(16),
   ANG_MAX_X |-> Register(20), ANG_MAX_Y |-> Register(24), TRANS_MIN_X |-> Register(28),
   TRANS_MIN_Y |-> Register(32), ANG_MIN_X |-> Register(36), ANG_MIN_Y |-> Register(40)]
ORBIT_INTLK_STS ==
  [TRANS_BIGGER_X |-> BitAt(4, 0), TRANS_BIGGER_Y |-> BitAt(4, 1),
   TRANS_BIGGER_LTC_X |-> BitAt(4, 2), TRANS_BIGGER_LTC_Y |-> BitAt(4, 3),
   ANG_BIGGER_X |-> BitAt(4, 7), ANG_BIGGER_Y |-> BitAt(4, 8),
   ANG_BIGGER_LTC_X |-> BitAt(4, 9), ANG_BIGGER_LTC_Y |-> BitAt(4, 10),
   INTLK |-> BitAt(4, 14), INTLK_LTC |-> BitAt(4, 15),
   TRANS_SMALLER_X |-> BitAt(4, 16), TRANS_SMALLER_Y |-> BitAt(4, 17),
   TRANS_SMALLER_LTC_X |-> BitAt(4, 18), TRANS_SMALLER_LTC_Y |-> BitAt(4, 19),
   ANG_SMALLER_X |-> BitAt(4, 23), ANG_SMALLER_Y |-> BitAt(4, 24),
   ANG_SMALLER_LTC_X |-> BitAt(4, 25), ANG_SMALLER_LTC_Y |-> BitAt(4, 26)]
ORBIT_INTLK_DIFF ==
  [TRANS_X_DIFF |-> Register(44), TRANS_Y_DIFF |-> Register(48),
   ANG_X_DIFF |-> Register(52), ANG_Y_DIFF |-> Register(56)]

FOFB_SYS_ID ==
  LET PRBS == 4096
  IN  [BASE_BPM_ID |-> Mask(0, 0, 8), RST |-> BitAt(PRBS, 0),
       STEP_DURATION |-> Mask(PRBS, 1, 10), LFSR_LENGTH |-> Mask(PRBS, 11, 5),
       BPM_POS_DISTORT_EN |-> BitAt(PRBS, 16), SP_DISTORT_EN |-> BitAt(PRBS, 17),
       NUM_TAPS_SEL |-> Mask(PRBS, 18, 3),
       SP_LEVEL_0 |-> Mask(PRBS + 64, 0, 16), SP_LEVEL_1 |-> Mask(PRBS + 64, 16, 16),
       RAM_LEVEL_0 |-> Mask(PRBS + 2048, 0, 16), RAM_LEVEL_1 |-> Mask(PRBS + 2048, 16, 16)]
FOFB_SYS_ID_CTE == [MAX_NUM_CTE |-> Register(4), MAX_NUM_TAPS_SEL |-> Register(4096 + 4)]

FOFB_PROCESSING ==
  LET CH == 4096
  IN  [STA_CLR |-> BitAt(64, 0), EN_ORB_DISTORT |-> BitAt(64, 1),
       EN_PACKET_LOSS |-> BitAt(64, 2), ORB_DISTORT_LIMIT |-> Register(72),
       MIN_NUM_PKTS |-> Register(76), SPS_RAM_BANK |-> Register(2048),
       COEFF_RAM_BANK |-> Register(CH), CLEAR |-> BitAt(CH + 2048, 0),
       FREEZE |-> BitAt(CH + 2048, 1), GAIN |-> Register(CH + 2052),
       MAX |-> Register(CH + 2080), MIN |-> Register(CH + 2084),
       RATIO |-> Register(CH + 2092), CH_SIZE |-> 4096]
FOFB_PROCESSING_STA ==
  [COEFF |-> Register(0), ACCS_GAINS |-> Register(4), ORB_DISTORT |-> BitAt(68, 0),
   PACKET_LOSS |-> BitAt(68, 1), SP_DECIM_RATIO_MAX |-> Register(128),
   CH_SP_DECIM_DATA |-> Register(4096 + 2088)]

FOFB_CC ==
  [ACT_PART |-> BitAt(0, 0), ERR_CLR |-> BitAt(0, 2), CC_ENABLE |-> BitAt(0, 3),
   TFS_OVERRIDE |-> BitAt(0, 4), TOA_RD_EN |-> BitAt(4, 0), TOA_RD_STR |-> BitAt(4, 1),
   RCB_RD_EN |-> BitAt(12, 0), RCB_RD_STR |-> BitAt(12, 1), XY_BUFF_DATA_LSB |-> Register(28),
   RAM_REG |-> Register(8192)]
FOFB_CC_DATA == [TOA_DATA |-> Register(8), RCB_DATA |-> Register(16)]

ACQ_CORE_CTL == [FSQ_ACQ_NOW |-> BitAt(0, 16)]
ACQ_CORE_STA ==
  [FSM_STATE |-> Mask(4, 0, 3), FSM_ACQ_DONE |-> BitAt(4, 3), FC_TRANS_DONE |-> BitAt(4, 8),
   FC_FULL |-> BitAt(4, 9), DDR3_TRANS_DONE |-> BitAt(4, 16)]
ACQ_CORE_TRIG_CFG ==
  [HW_TRIG_SEL |-> BitAt(8, 0), HW_TRIG_POL |-> BitAt(8, 1), HW_TRIG_EN |-> BitAt(8, 2),
   SW_TRIG_EN |-> BitAt(8, 3), INT_TRIG_SEL |-> Mask(8, 4, 5), THRES_FILT |-> Mask(12, 0, 8)]
ACQ_CORE_SHOTS ==
  [NB |-> Mask(28, 0, 16), MULTISHOT_RAM_SIZE_IMPL |-> BitAt(28, 16),
   MULTISHOT_RAM_SIZE |-> Mask(28, 17, 15)]
ACQ_CORE_ACQ_CHAN_CTL == [WHICH |-> Mask(56, 0, 5), DTRIG_WHICH |-> Mask(56, 8, 5)]
\* Offsets.
ACQ_CORE ==
  [TRIG_DATA_THRES |-> Register(16), TRIG_DLY |-> Register(20), TRIG_POS |-> Register(32),
   PRE_SAMPLES |-> Register(36), POST_SAMPLES |-> Register(40), SAMPLES_CNT |-> Register(44),
   DDR3_START_ADDR |-> Register(48), DDR3_END_ADDR |-> Register(52)]
ACQ_CORE_CH0_DESC ==
  [INT_WIDTH |-> Mask(60, 0, 16), NUM_COALESCE |-> Mask(60, 16, 16),
   NUM_ATOMS |-> Mask(64, 0, 16), ATOM_WIDTH |-> Mask(64, 16, 16)]
===============================================================================
