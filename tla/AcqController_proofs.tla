------------------------ MODULE AcqController_proofs ------------------------
(* Proofs about AcqController, for every set of configurations, sample     *)
(* sizes and buffer size, and about AcqRam, for every number of boards,    *)
(* controllers and cores, every size of the RAM and every bound on calls.  *)
EXTENDS AcqController, AcqRam, TLAPS

\* The strobes are never left in the shadow, where the next write of the whole
\* register block would repeat them.
StrobesClear == ~ shadow.start /\ ~ shadow.stop

\* A finished acquisition stays so until it is read or stopped.
Finished == step = "done" => Complete

\* Where the trigger is among the samples of the acquisition that get_result will read:
\* as long as the core works by the parameters it was started with, it ends with the first
\* sample or with as many after the trigger as those ask for, and one if they ask for none.
\* Nothing is overruled while no acquisition is known, and the numbers that an acquisition
\* was started with are not both 0.
Phases ==
  /\ step = "stop" => overruled = "no"
  /\ step # "stop" /\ overruled = "no" => acqPre + acqPost # 0
  /\ step # "stop" /\ overruled # "core" =>
       /\ reg.now => reg.post = 0
       /\ fsm = "wait" => ~ reg.now
       /\ fsm = "post" => ~ reg.now /\ (made = trigger \/ made - trigger < reg.post)
       /\ fsm = "idle" /\ done =>
            IF reg.now THEN made = trigger
                       ELSE made - trigger = IF reg.post = 0 THEN 1 ELSE reg.post

IInv ==
  /\ TypeOK /\ StrobesClear /\ NoUnknownAcquisition /\ Finished
  /\ CapturedMatchesCore /\ Phases

-----------------------------------------------------------------------------
(* The encoding.                                                           *)

\* A number below Word is itself modulo Word.
LEMMA WordMod ==
  ASSUME NEW v \in Nat
  PROVE  v % Word \in Nat /\ (v < Word => v % Word = v)
<1>1. Word \in Nat \ {0}
  BY AcqAssumption
<1>2. QED
  BY <1>1, SMTT(30)

\* align_extend returns a number of samples that is no smaller than the one asked
\* for, unless the rounding up leaves the word.
LEMMA AlignExtendBound ==
  ASSUME NEW v \in Nat, NEW a \in Nat \ {0}, NEW z \in BOOLEAN
  PROVE  /\ AlignExtend(v, a, z) \in Nat
         /\ v <= Word - a => v <= AlignExtend(v, a, z)
<1>1. v % a \in 0 .. (a - 1)
  BY SMTT(30)
<1>2. CASE v = 0 \/ v % a = 0
  BY <1>2 DEF AlignExtend
<1>3. CASE v # 0 /\ v % a # 0
  <2>1. v + (a - (v % a)) \in Nat /\ v <= v + (a - (v % a))
    BY <1>1
  <2>2. /\ AlignExtend(v, a, z) \in Nat
        /\ v + (a - (v % a)) < Word => AlignExtend(v, a, z) = v + (a - (v % a))
    BY <1>3, <2>1, WordMod DEF AlignExtend
  <2>3. Word \in Nat
    BY AcqAssumption
  <2>4. v <= Word - a => v + (a - (v % a)) < Word
    BY <1>1, <1>3, <2>3
  <2>5. QED
    BY <2>1, <2>2, <2>4
<1>4. QED
  BY <1>2, <1>3

LEMMA AlignmentPositive ==
  ASSUME NEW c \in Configs
  PROVE  /\ SampleSize[c.channel] \in Nat \ {0}
         /\ Alignment(SampleSize[c.channel]) \in Nat \ {0}
<1>1. SampleSize[c.channel] \in Nat \ {0} /\ Payload \in Nat \ {0}
  BY AcqAssumption
<1>2. ASSUME NEW s \in Nat \ {0}, Payload > s PROVE Payload \div s \in Nat \ {0}
  BY <1>1, <1>2, SMTT(30)
<1>3. QED
  BY <1>1, <1>2 DEF Alignment

LEMMA EncodedBounds ==
  ASSUME NEW c \in Configs
  PROVE  /\ c.pre \in Nat /\ c.post \in Nat
         /\ PreAligned(c) \in Nat /\ PostAligned(c) \in Nat
         /\ c.pre <= Word - Alignment(SampleSize[c.channel]) => c.pre <= PreAligned(c)
         /\ c.post <= Word - Alignment(SampleSize[c.channel]) => c.post <= PostAligned(c)
<1>1. c.pre \in Nat /\ c.post \in Nat
  BY AcqAssumption
<1>2. QED
  BY <1>1, AlignExtendBound, AlignmentPositive DEF PreAligned, PostAligned

\* With ACQ_NOW the core is told to take no samples after the trigger.
LEMMA NowHasNoPost ==
  ASSUME NEW c \in Configs, c.trigger = "now", c.post = 0
  PROVE  PostAligned(c) = 0
BY DEF PostAligned, AlignExtend

\* A refused configuration may leave its channel in the shadow, and nothing else.
LEMMA RefusedShadow ==
  ASSUME TypeOK, NEW c \in Configs
  PROVE  /\ Refused(c) \in [channel : Channels, pre : Nat, post : Nat, now : BOOLEAN,
                            start : BOOLEAN, stop : BOOLEAN]
         /\ Refused(c).start = shadow.start /\ Refused(c).stop = shadow.stop
<1>1. c.channel \in Channels
  BY AcqAssumption
<1>2. QED
  BY <1>1 DEF Refused, TypeOK

LEMMA MaxSamplesInt ==
  ASSUME NEW s \in Nat \ {0} PROVE MaxSamples(s) \in Nat
<1>1. RamSize \in Nat
  BY AcqAssumption
<1>2. QED
  BY <1>1, SMTT(30) DEF MaxSamples

-----------------------------------------------------------------------------
(* The invariant.                                                          *)
LEMMA InitInv == Init => IInv
<1> SUFFICES ASSUME Init PROVE IInv
  OBVIOUS
<1>1. config \in Configs /\ config.channel \in Channels
  BY AcqAssumption DEF Init
<1>2. shadow \in [channel : Channels, pre : Nat, post : Nat, now : BOOLEAN,
                 start : BOOLEAN, stop : BOOLEAN]
  BY <1>1 DEF Init
<1>3. reg \in [channel : Channels, pre : Nat, post : Nat, now : BOOLEAN]
  BY <1>1 DEF Init
<1>4. /\ made \in Nat /\ landed \in 0 .. made /\ trigger \in 0 .. made
      /\ size \in Nat \ {0} /\ acqPre \in Nat /\ acqPost \in Nat
  BY DEF Init
<1>5. /\ fsm \in {"idle", "pre", "wait", "post"} /\ step \in {"stop", "started", "done"}
      /\ client \in {"free", "waiting", "waiting_timed"}
  BY DEF Init
<1>6. devinfo \in BOOLEAN /\ done \in BOOLEAN /\ overruled \in {"no", "numbers", "core"}
  BY DEF Init
<1>7. TypeOK
  BY <1>1, <1>2, <1>3, <1>4, <1>5, <1>6 DEF TypeOK
<1>8. QED
  BY <1>7 DEF Init, IInv, StrobesClear, NoUnknownAcquisition, Finished, Complete,
     CapturedMatchesCore, Phases

\* A write of the whole block with the strobes clear changes no state of the core
\* but its registers.
LEMMA StartPreserves ==
  ASSUME IInv, Start, UNCHANGED <<config, devinfo>>,
         client' \in {"free", "waiting", "waiting_timed"}
  PROVE  IInv'
<1> USE DEF IInv
<1>1. config \in Configs /\ config.channel \in Channels
  BY AcqAssumption DEF TypeOK
<1>2. /\ SampleSize[config.channel] \in Nat \ {0}
      /\ config.pre \in Nat /\ config.post \in Nat
  BY <1>1, AcqAssumption, EncodedBounds
<1>3. /\ size' = SampleSize[config.channel]
      /\ acqPre' \in Nat /\ acqPost' \in Nat
  BY <1>2 DEF Start, Capture, TypeOK
<1>4. ~ Running
  BY DEF Start, MayStart, NoUnknownAcquisition
<1>5. CASE ~ Encodes(config)
  <2>1. shadow' = Refused(config) /\ UNCHANGED <<step, core>>
    BY <1>5 DEF Start
  <2>2. /\ shadow' \in [channel : Channels, pre : Nat, post : Nat, now : BOOLEAN,
                         start : BOOLEAN, stop : BOOLEAN]
        /\ StrobesClear'
    BY <1>1, <2>1, RefusedShadow DEF StrobesClear
  <2>3. QED
    BY <1>2, <1>3, <2>1, <2>2 DEF Start, MayStart, core, TypeOK, StrobesClear, NoUnknownAcquisition,
       Finished, Complete, CapturedMatchesCore, Phases, Running
<1>6. CASE Encodes(config)
  <2>1. /\ PreAligned(config) \in Nat /\ PostAligned(config) \in Nat
        /\ config.pre <= Word - Alignment(size') => config.pre <= PreAligned(config)
        /\ config.post <= Word - Alignment(size') => config.post <= PostAligned(config)
    BY <1>1, <1>3, EncodedBounds
  <2>2. /\ acqPre' = config.pre /\ acqPost' = config.post
        /\ PreAligned(config) + PostAligned(config) < MaxSamples(size')
    BY <1>3, <1>6 DEF Start, Capture, Encodes, Fits
  <2>3. /\ Registers(config).channel = config.channel
        /\ Registers(config).pre = PreAligned(config)
        /\ Registers(config).post = PostAligned(config)
        /\ Registers(config) \in [channel : Channels, pre : Nat, post : Nat, now : BOOLEAN,
                                 start : BOOLEAN, stop : BOOLEAN]
    BY <1>1, <2>1 DEF Registers, TypeOK
  <2>4. /\ step' = "started" /\ overruled' = overruled
        /\ reg' = [channel |-> config.channel, pre |-> PreAligned(config),
                   post |-> PostAligned(config), now |-> Registers(config).now]
    BY <1>6, <2>3 DEF Start, ForMachine, TypeOK
  <2>5. fsm' = "pre" /\ done' = FALSE /\ made' = 0 /\ landed' = 0 /\ trigger' = 0
    BY <1>4, <1>6 DEF Start, Control, StrobesClear
  <2>6. shadow' = AfterStart(Registers(config)) /\ ~ Registers(config).stop
    BY <1>6 DEF Start, Registers, StrobesClear, TypeOK
  <2>7. shadow' \in [channel : Channels, pre : Nat, post : Nat, now : BOOLEAN,
                     start : BOOLEAN, stop : BOOLEAN] /\ StrobesClear'
    BY <2>3, <2>6 DEF AfterStart, StrobesClear
  <2>8. TypeOK'
    <3>1. reg' \in [channel : Channels, pre : Nat, post : Nat, now : BOOLEAN]
      BY <2>3, <2>4
    <3>2. made' \in Nat /\ landed' \in 0 .. made' /\ trigger' \in 0 .. made'
      BY <2>5
    <3>3. config' \in Configs /\ devinfo' \in BOOLEAN
      BY DEF TypeOK
    <3>4. QED
      BY <1>2, <1>3, <2>4, <2>5, <2>7, <3>1, <3>2, <3>3 DEF TypeOK
  <2>9. CapturedMatchesCore'
    BY <1>3, <2>1, <2>2, <2>4 DEF CapturedMatchesCore, Representable, CoreSize
  <2>10. Phases'
    <3>1. (config.pre + config.post) % Word # 0 /\ ~ (config.post # 0 /\ config.trigger = "now")
      BY <1>6 DEF Encodes
    <3>2. config.pre + config.post # 0
      BY <3>1, AcqAssumption, SMTT(30)
    <3>3. Registers(config).now = (config.trigger = "now")
      BY DEF Registers, TypeOK
    <3>4. config.trigger = "now" => PostAligned(config) = 0
      BY <1>1, <3>1, NowHasNoPost
    <3>5. QED
      BY <2>2, <2>4, <2>5, <3>2, <3>3, <3>4 DEF Phases
  <2>11. QED
    BY <2>4, <2>7, <2>8, <2>9, <2>10 DEF NoUnknownAcquisition, Finished
<1>7. QED
  BY <1>5, <1>6

LEMMA StopPreserves ==
  ASSUME IInv, Stop, devinfo' \in BOOLEAN, UNCHANGED <<config, size, acqPre, acqPost, client, reg>>
  PROVE  IInv'
<1>1. /\ shadow' = [shadow EXCEPT !.stop = FALSE]
      /\ step' = "stop" /\ overruled' = "no"
      /\ fsm' = "idle" /\ done' = FALSE /\ UNCHANGED <<made, landed, trigger>>
  BY DEF Stop, Control, AfterStop
<1>2. TypeOK' /\ StrobesClear'
  BY <1>1 DEF IInv, TypeOK, StrobesClear
<1>3. QED
  BY <1>1, <1>2 DEF IInv, NoUnknownAcquisition, Finished, CapturedMatchesCore, Phases, Running

\* write_params leaves the core as it is but for the registers of one that runs; and what
\* it has not changed is not said to be overruled.
LEMMA WriteParamsPreserves ==
  ASSUME IInv, WriteParams
  PROVE  IInv'
<1> USE DEF IInv
<1>1. config \in Configs /\ config.channel \in Channels
  BY AcqAssumption DEF TypeOK
<1>2. /\ SampleSize[config.channel] \in Nat \ {0}
      /\ config.pre \in Nat /\ config.post \in Nat
  BY <1>1, AcqAssumption, EncodedBounds
<1>3. /\ size' \in Nat \ {0} /\ acqPre' \in Nat /\ acqPost' \in Nat
      /\ UNCHANGED <<config, devinfo, step, client, returned>>
  BY <1>2 DEF WriteParams, Capture, TypeOK
<1>4. UNCHANGED <<fsm, done, made, landed, trigger>>
  BY DEF WriteParams, Control, StrobesClear, core
<1>5. /\ shadow' \in [channel : Channels, pre : Nat, post : Nat, now : BOOLEAN,
                       start : BOOLEAN, stop : BOOLEAN]
      /\ StrobesClear'
      /\ reg' \in [channel : Channels, pre : Nat, post : Nat, now : BOOLEAN]
  <2>1. CASE Encodes(config)
    <3>1. PreAligned(config) \in Nat /\ PostAligned(config) \in Nat
      BY <1>1, EncodedBounds
    <3>2. shadow' = Registers(config) /\ reg' \in {reg, ForMachine(config)}
      BY <2>1 DEF WriteParams
    <3>3. /\ Registers(config) \in [channel : Channels, pre : Nat, post : Nat, now : BOOLEAN,
                                    start : BOOLEAN, stop : BOOLEAN]
          /\ ~ Registers(config).start /\ ~ Registers(config).stop
      BY <1>1, <3>1 DEF Registers, TypeOK, StrobesClear
    <3>4. ForMachine(config) =
            [channel |-> Registers(config).channel, pre |-> Registers(config).pre,
             post |-> Registers(config).post, now |-> Registers(config).now]
      BY DEF ForMachine, TypeOK
    <3>5. ForMachine(config) \in [channel : Channels, pre : Nat, post : Nat, now : BOOLEAN]
      BY <3>3, <3>4
    <3>6. QED
      BY <3>2, <3>3, <3>5 DEF StrobesClear, TypeOK
  <2>2. CASE ~ Encodes(config)
    <3>1. shadow' = Refused(config) /\ reg' = reg
      BY <2>2 DEF WriteParams, core
    <3>2. QED
      BY <1>1, <3>1, RefusedShadow DEF TypeOK, StrobesClear
  <2>3. QED
    BY <2>1, <2>2
<1>6. TypeOK'
  <2>1. overruled' \in {"no", "numbers", "core"}
    BY DEF WriteParams, TypeOK
  <2>2. QED
    BY <1>3, <1>4, <1>5, <2>1 DEF TypeOK
<1>7. overruled' # "core" => overruled # "core" /\ reg' = reg
  BY DEF WriteParams, Disturbs, core
<1>8. overruled' = "no" =>
        overruled = "no" /\ (step # "stop" => UNCHANGED <<size, acqPre, acqPost>>)
  BY DEF WriteParams, Recaptures
<1>9. step = "stop" => overruled' = "no"
  BY DEF WriteParams, Disturbs, Recaptures, NoUnknownAcquisition, Phases
<1>10. NoUnknownAcquisition' /\ Finished'
  BY <1>3, <1>4 DEF NoUnknownAcquisition, Finished, Complete, Running
<1>11. CapturedMatchesCore'
  BY <1>3, <1>7, <1>8 DEF CapturedMatchesCore, Representable, CoreSize
<1>12. Phases'
  BY <1>3, <1>4, <1>7, <1>8, <1>9 DEF Phases
<1>13. QED
  BY <1>5, <1>6, <1>10, <1>11, <1>12

LEMMA CorePreserves ==
  ASSUME IInv, Core
  PROVE  IInv'
<1> USE DEF IInv
<1>1. CASE TakeSample
  <2>1. TypeOK'
    <3>1. made' \in Nat /\ landed' \in 0 .. made' /\ made \in 0 .. made'
      BY <1>1 DEF TakeSample, TypeOK
    <3>2. /\ fsm' \in {"idle", "pre", "wait", "post"} /\ done' \in BOOLEAN
          /\ trigger' \in {trigger, made'}
      BY <1>1 DEF TakeSample, TypeOK
    <3>3. trigger' \in 0 .. made'
      BY <3>1, <3>2 DEF TypeOK
    <3>4. QED
      BY <1>1, <3>1, <3>2, <3>3 DEF TakeSample, TypeOK, software
  <2>2. UNCHANGED <<software, reg>> /\ Running
    BY <1>1 DEF TakeSample
  <2>3. Phases'
    <3>1. /\ reg.post \in Nat /\ made \in Nat /\ made' = made + 1
          /\ trigger \in Nat /\ trigger' \in Nat /\ trigger <= made
      BY <1>1, <2>1 DEF TakeSample, TypeOK
    <3>2. \/ fsm = "pre" /\ reg.now /\ fsm' = "idle" /\ trigger' = made'
          \/ fsm = "pre" /\ ~ reg.now /\ fsm' = "wait"
          \/ fsm = "post" /\ made' - trigger >= reg.post /\ fsm' = "idle" /\ trigger' = trigger
          \/ fsm \in {"pre", "wait"} /\ fsm' = fsm
          \/ /\ fsm = "post" /\ fsm' = "post" /\ ~ made' - trigger >= reg.post
             /\ trigger' = trigger
      BY <1>1 DEF TakeSample, Running, TypeOK
    <3>3. SUFFICES ASSUME step # "stop", overruled # "core" PROVE Phases'
      BY <2>2 DEF Phases, software
    <3>4. (reg.now => reg.post = 0)'
      BY <2>2, <3>3 DEF Phases
    <3>5. (fsm = "wait" => ~ reg.now)'
      BY <2>2, <3>2, <3>3 DEF Phases
    <3>6. (fsm = "post" => ~ reg.now /\ (made = trigger \/ made - trigger < reg.post))'
      BY <2>2, <3>1, <3>2, <3>3 DEF Phases
    <3>7. (fsm = "idle" => IF reg.now THEN made = trigger
                           ELSE made - trigger = IF reg.post = 0 THEN 1 ELSE reg.post)'
      BY <2>2, <3>1, <3>2, <3>3 DEF Phases
    <3>8. QED
      BY <2>2, <3>3, <3>4, <3>5, <3>6, <3>7 DEF Phases, software
  <2>4. QED
    BY <2>1, <2>2, <2>3 DEF StrobesClear, NoUnknownAcquisition, Finished, Complete,
       CapturedMatchesCore, Representable, CoreSize, software, Running
<1>2. CASE Trigger
  <2>1. TypeOK'
    BY <1>2 DEF Trigger, TypeOK, software
  <2>2. UNCHANGED <<software, reg>> /\ Running
    BY <1>2 DEF Trigger, Running
  <2>3. Phases'
    BY <1>2, <2>2 DEF Trigger, Phases, software, TypeOK
  <2>4. QED
    BY <2>1, <2>2, <2>3 DEF StrobesClear, NoUnknownAcquisition, Finished, Complete,
       CapturedMatchesCore, Representable, CoreSize, software, Running
<1>3. CASE Transfer
  <2>1. TypeOK'
    <3>1. landed' \in 0 .. made'
      BY <1>3 DEF Transfer, TypeOK
    <3>2. QED
      BY <1>3, <3>1 DEF Transfer, TypeOK, software
  <2>2. UNCHANGED <<software, reg, fsm>>
    BY <1>3 DEF Transfer
  <2>3. landed < made /\ UNCHANGED <<done, made, trigger>>
    BY <1>3 DEF Transfer
  <2>4. Phases'
    BY <2>2, <2>3 DEF Phases, software
  <2>5. ~ Complete
    BY <2>3 DEF Complete, TypeOK
  <2>6. QED
    BY <2>1, <2>2, <2>4, <2>5 DEF StrobesClear, NoUnknownAcquisition, Finished,
       CapturedMatchesCore, Representable, CoreSize, software, Running
<1>4. QED
  BY <1>1, <1>2, <1>3 DEF Core

LEMMA NextInv == IInv /\ [Next]_vars => IInv'
<1> SUFFICES ASSUME IInv, [Next]_vars PROVE IInv'
  OBVIOUS
<1> USE DEF IInv
<1>1. CASE Configure
  BY <1>1 DEF Configure, TypeOK, StrobesClear, NoUnknownAcquisition, Finished, Complete,
     CapturedMatchesCore, Phases, Representable, CoreSize, core, Running
<1>2. CASE SetDevinfo
  BY <1>2, StopPreserves DEF SetDevinfo
<1>3. CASE StopAcquisition
  BY <1>3, StopPreserves DEF StopAcquisition, TypeOK
<1>4. CASE WriteParams
  BY <1>4, WriteParamsPreserves
<1>5. CASE StartAcquisition
  BY <1>5, StartPreserves DEF StartAcquisition, TypeOK
<1>6. CASE Result
  BY <1>6, StartPreserves DEF Result
<1>7. CASE Poll
  BY <1>7 DEF Poll, Ready, Complete, TypeOK, StrobesClear, NoUnknownAcquisition, Finished, Complete,
     CapturedMatchesCore, Phases, Representable, CoreSize, core, Running
<1>8. CASE GetResult
  BY <1>8 DEF GetResult, TypeOK, StrobesClear, NoUnknownAcquisition, Finished, Complete,
     CapturedMatchesCore, Phases, Representable, CoreSize, core, Running
<1>9. CASE ResultSuccess
  BY <1>9 DEF ResultSuccess, Ready, Complete, TypeOK, StrobesClear, NoUnknownAcquisition,
     Finished, Complete, CapturedMatchesCore, Phases, Representable, CoreSize, core, Running
<1>10. CASE ResultFailure
  BY <1>10 DEF ResultFailure, TypeOK, StrobesClear, NoUnknownAcquisition, Finished, Complete,
     CapturedMatchesCore, Phases, Representable, CoreSize, core, Running
<1>11. CASE Core
  BY <1>11, CorePreserves
<1>12. CASE UNCHANGED vars
  BY <1>12 DEF vars, software, core, TypeOK, StrobesClear, NoUnknownAcquisition, Finished, Complete,
     CapturedMatchesCore, Phases, Representable, CoreSize, Running
<1>13. QED
  BY <1>1, <1>2, <1>3, <1>4, <1>5, <1>6, <1>7, <1>8, <1>9, <1>10, <1>11, <1>12
     DEF Next, Client, Return

\* The invariant holds in every reachable state.
THEOREM Invariance == Spec => []IInv
BY InitInv, NextInv, PTL DEF Spec

\* The controller's variables and the core's keep their types.
THEOREM TypeCorrect == Spec => []TypeOK
<1>1. IInv => TypeOK
  BY DEF IInv
<1>2. QED
  BY <1>1, Invariance, PTL

\* set_devinfo, the errors of start_acquisition, the timeouts of result() and the
\* strobes leave no way for the core to run while the controller is stopped.
THEOREM NoneUnknown == Spec => []NoUnknownAcquisition
<1>1. IInv => NoUnknownAcquisition
  BY DEF IInv
<1>2. QED
  BY <1>1, Invariance, PTL

\* Whatever the client calls, and whenever: what get_result computes with is what the core
\* was started with, for every sample size, alignment and buffer size, until write_params
\* replaces it, and an acquisition fits into the buffer until write_params has changed
\* what the running core works by.
THEOREM CapturedCorrect == Spec => []CapturedMatchesCore
<1>1. IInv => CapturedMatchesCore
  BY DEF IInv
<1>2. QED
  BY <1>1, Invariance, PTL
-----------------------------------------------------------------------------
(* The buffer.                                                             *)

LEMMA RestRange ==
  ASSUME NEW M \in Nat \ {0}, NEW n \in Nat
  PROVE  n % M \in Nat /\ n % M \in 0 .. (M - 1)
BY SMTT(30)

LEMMA QuotientAndRest ==
  ASSUME NEW M \in Nat \ {0}, NEW n \in Nat
  PROVE  n \div M \in Nat /\ M * (n \div M) \in Nat /\ n = M * (n \div M) + (n % M)
<1>1. n \div M \in Nat
  BY SMTT(30)
<1>2. M * (n \div M) \in Nat
  BY <1>1, SMTT(30)
<1>3. n = M * (n \div M) + (n % M)
  BY SMTT(30)
<1>4. QED
  BY <1>1, <1>2, <1>3

LEMMA RestIs ==
  ASSUME NEW M \in Nat \ {0}, NEW q \in Int, NEW r \in 0 .. (M - 1), M * q + r \in Nat
  PROVE  (M * q + r) % M = r
BY SMTT(30)

\* Two numbers of one place in the buffer are its size apart, or more.
LEMMA SamePlace ==
  ASSUME NEW M \in Nat \ {0}, NEW n \in Nat, NEW m \in Nat, n % M = m % M, n < m
  PROVE  n + M <= m
<1>1. /\ n \div M \in Nat /\ n = M * (n \div M) + (n % M)
      /\ m \div M \in Nat /\ m = M * (m \div M) + (m % M)
      /\ M * (n \div M) \in Nat /\ M * (m \div M) \in Nat
  BY QuotientAndRest
<1>2. \A a, b \in Nat : M * a < M * b => M * a + M <= M * b
  BY SMTT(30)
<1>3. n % M \in Nat
  BY RestRange
<1>4. M * (n \div M) < M * (m \div M)
  BY <1>1, <1>3
<1>5. QED
  BY <1>1, <1>2, <1>3, <1>4

\* A place holds the last sample that was written to it: n, while none after it has
\* come around.
LEMMA SlotHolds ==
  ASSUME TypeOK, size = CoreSize, overruled # "core", NEW M \in Nat \ {0}, M = MaxSamples(size),
         NEW n \in 0 .. (landed - 1), landed <= n + M
  PROVE  Slot(n % M) = n
<1> DEFINE There == {m \in 0 .. (landed - 1) : m % MaxSamples(CoreSize) = n % M}
<1>0. landed \in Nat /\ n \in Nat
  BY DEF TypeOK
<1>1. n % M \in 0 .. (M - 1) /\ landed \in Nat /\ n \in Nat
  BY <1>0, RestRange
<1>2. n \in There
  OBVIOUS
<1>3. \A m \in There : n >= m
  <2>1. SUFFICES ASSUME NEW m \in 0 .. (landed - 1), m % M = n % M, n < m PROVE FALSE
    BY <1>1
  <2>2. n + M <= m
    BY <1>1, <2>1, SamePlace
  <2>3. QED
    BY <1>1, <2>2
<1>4. Max(There) = n
  <2>1. Max(There) \in There /\ Max(There) >= n
    BY <1>2, <1>3 DEF Max
  <2>2. n >= Max(There)
    BY <1>3, <2>1
  <2>3. Max(There) \in Int
    BY <1>1, <2>1
  <2>4. QED
    BY <1>1, <2>1, <2>2, <2>3
<1>5. QED
  BY <1>1, <1>2, <1>4 DEF Slot

\* What the controller knows and what the core did, when an acquisition is read out.
LEMMA ReadyFacts ==
  ASSUME IInv, step # "stop", Complete, Taken
  PROVE  /\ acqPre \in Nat /\ acqPost \in Nat /\ made \in Nat /\ trigger \in Nat
         /\ size = CoreSize /\ landed = made /\ overruled # "core"
         /\ MaxSamples(size) \in Nat \ {0} /\ MaxSamples(size) <= Word
         /\ acqPre + acqPost > 0 /\ acqPre + acqPost < MaxSamples(size)
         /\ trigger + acqPost <= made /\ made + acqPre <= trigger + MaxSamples(size)
<1>1. /\ acqPre \in Nat /\ acqPost \in Nat /\ made \in Nat /\ trigger \in Nat
      /\ size \in Nat \ {0} /\ reg.pre \in Nat /\ reg.post \in Nat /\ reg.now \in BOOLEAN
      /\ trigger <= made
  BY DEF IInv, TypeOK
<1>2. /\ size = CoreSize /\ landed = made /\ fsm = "idle" /\ done /\ overruled # "core"
      /\ acqPre <= reg.pre /\ acqPost <= reg.post /\ reg.pre + reg.post < MaxSamples(size)
  BY DEF IInv, CapturedMatchesCore, Complete, Taken, WithinTaken
<1>3. MaxSamples(size) \in Nat
  BY <1>1, MaxSamplesInt
<1>4. MaxSamples(size) <= Word
  <2>1. RamSize \in Nat /\ Word \in Nat /\ RamSize <= Word
    BY AcqAssumption
  <2>2. RamSize \div size <= RamSize
    BY <1>1, <2>1, SMTT(30)
  <2>3. QED
    BY <1>3, <2>1, <2>2 DEF MaxSamples
<1>5. acqPre + acqPost > 0
  BY <1>1 DEF IInv, Phases, Taken, WithinTaken
<1>6. CASE reg.now
  BY <1>1, <1>2, <1>3, <1>4, <1>5, <1>6 DEF IInv, Phases
<1>7. CASE ~ reg.now
  <2>1. made - trigger = IF reg.post = 0 THEN 1 ELSE reg.post
    BY <1>2, <1>7 DEF IInv, Phases
  <2>2. QED
    BY <1>1, <1>2, <1>3, <1>4, <1>5, <2>1
<1>8. QED
  BY <1>1, <1>6, <1>7

LEMMA TwoParts ==
  ASSUME NEW n \in Nat, NEW total \in Nat, n <= total, NEW S
  PROVE  [j \in 1 .. n |-> S[j]] \o [j \in 1 .. total - n |-> S[n + j]] = [j \in 1 .. total |-> S[j]]
OBVIOUS

\* Two pieces of the buffer, one after the other, that have the wanted samples.
LEMMA TwoPieces ==
  ASSUME acqPre \in Nat, acqPost \in Nat, NEW total, total = acqPre + acqPost,
         NEW a, NEW b, NEW n \in Nat, n <= total,
         \A j \in 1 .. n : Slot(a + j - 1) = Wanted[j],
         \A j \in 1 .. total - n : Slot(b + j - 1) = Wanted[n + j]
  PROVE  Piece(a, n) \o Piece(b, total - n) = Wanted
<1>1. PICK S : S = Wanted
  OBVIOUS
<1>2. /\ Piece(a, n) = [j \in 1 .. n |-> S[j]]
      /\ Piece(b, total - n) = [j \in 1 .. total - n |-> S[n + j]]
  BY <1>1 DEF Piece
<1>3. S = [j \in 1 .. total |-> S[j]]
  BY <1>1 DEF Wanted
<1>4. [j \in 1 .. n |-> S[j]] \o [j \in 1 .. total - n |-> S[n + j]] = [j \in 1 .. total |-> S[j]]
  <2>1. total \in Nat
    OBVIOUS
  <2>2. QED
    BY <2>1, TwoParts
<1>5. QED
  BY <1>1, <1>2, <1>3, <1>4, Zenon

\* The copy of an acquisition that begins at or above the buffer's start is what was
\* wanted, in one piece or in two.
LEMMA ReadoutIsWanted ==
  ASSUME IInv, step # "stop", Complete, Taken, TriggerIndex >= acqPre
  PROVE  Readout = Wanted
<1> DEFINE M == MaxSamples(size)
           T == trigger % M
           q == trigger \div M
           total == Total
           first == CRem(TriggerIndex - acqPre, M)
           last == CRem(TriggerIndex + acqPost - 1, M)
<1>1. /\ acqPre \in Nat /\ acqPost \in Nat /\ made \in Nat /\ trigger \in Nat
      /\ size = CoreSize /\ landed = made /\ overruled # "core"
      /\ M \in Nat \ {0} /\ M <= Word
      /\ acqPre + acqPost > 0 /\ acqPre + acqPost < M
      /\ trigger + acqPost <= made /\ made + acqPre <= trigger + M
  BY ReadyFacts
<1>2. q \in Nat /\ T \in 0 .. (M - 1) /\ trigger = M * q + T /\ M * q \in Nat
  <2>1. T \in 0 .. (M - 1)
    BY <1>1, RestRange
  <2>2. q \in Nat /\ trigger = M * q + T /\ M * q \in Nat
    BY <1>1, QuotientAndRest
  <2>3. QED
    BY <2>1, <2>2
<1>3. TriggerIndex = T /\ T >= acqPre
  BY <1>1 DEF TriggerIndex
<1>4. total = acqPre + acqPost
  <2>1. Word \in Nat
    BY AcqAssumption
  <2>2. QED
    BY <1>1, <2>1, WordMod DEF Total
<1> HIDE DEF M, T, q
<1>5. \A r \in 0 .. (M - 1) : r % M = r
  BY <1>1, SMTT(30)
<1>6. first = T - acqPre
  BY <1>1, <1>2, <1>3, <1>5 DEF CRem
<1> HIDE DEF first
\* Each place of the buffer that is copied holds the sample that is wanted of it.
<1>7. \A j \in 1 .. total :
        LET n == trigger - acqPre + j - 1
        IN  /\ n \in Nat
            /\ first + j - 1 < M => Slot(first + j - 1) = n
            /\ first + j - 1 >= M => Slot(first + j - 1 - M) = n
  <2> SUFFICES ASSUME NEW j \in 1 .. total
      PROVE  LET n == trigger - acqPre + j - 1
             IN  /\ n \in Nat
                 /\ first + j - 1 < M => Slot(first + j - 1) = n
                 /\ first + j - 1 >= M => Slot(first + j - 1 - M) = n
    OBVIOUS
  <2> DEFINE n == trigger - acqPre + j - 1
             k == T - acqPre + j - 1
  <2>1. /\ n \in Nat /\ n = M * q + k /\ k \in Nat /\ k < M + M
    BY <1>1, <1>2, <1>3, <1>4
  <2>2. n \in 0 .. (landed - 1) /\ landed <= n + M
    BY <1>1, <1>4, <2>1
  <2>3. Slot(n % M) = n
    BY <1>1, <2>2, SlotHolds DEF IInv, M
  <2> HIDE DEF n
  <2>4. k < M => n % M = k
    BY <1>1, <1>2, <2>1, RestIs
  <2>5. k >= M => n % M = k - M
    <3>1. SUFFICES ASSUME k >= M PROVE n % M = k - M
      OBVIOUS
    <3>2. n = M * (q + 1) + (k - M) /\ q + 1 \in Int /\ k - M \in 0 .. (M - 1)
      BY <1>1, <1>2, <2>1, <3>1, SMTT(30)
    <3>3. QED
      BY <1>1, <2>1, <3>2, RestIs
  <2>6. first + j - 1 = k
    BY <1>1, <1>2, <1>6
  <2> HIDE DEF k
  <2>7. /\ k < M => Slot(k) = n
        /\ k >= M => Slot(k - M) = n
    BY <2>3, <2>4, <2>5
  <2>8. /\ first + j - 1 < M => Slot(first + j - 1) = n
        /\ first + j - 1 >= M => Slot(first + j - 1 - M) = n
    <3>1. first \in Int /\ M \in Int /\ k \in Int /\ j \in Int
      BY <1>1, <1>2, <1>6, <2>1
    <3>2. QED
      BY <2>6, <2>7, <3>1
  <2>9. n \in Nat
    BY <2>1
  <2>10. QED
    BY <2>8, <2>9 DEF n
<1>8. CASE T + acqPost - 1 < M
  <2>1. last = T + acqPost - 1
    BY <1>1, <1>2, <1>3, <1>5, <1>8 DEF CRem
  <2>2. last >= first
    BY <1>1, <1>2, <1>6, <2>1
  <2>3. Readout = [j \in 1 .. total |-> Slot(first + j - 1)]
    BY <2>2 DEF Readout, Piece, M, first
  <2>4. \A j \in 1 .. total : first + j - 1 < M
    BY <1>1, <1>2, <1>4, <1>6, <1>8
  <2>5. \A j \in 1 .. total : Slot(first + j - 1) = trigger - acqPre + j - 1
    BY <1>7, <2>4
  <2>6. QED
    BY <1>4, <2>3, <2>5 DEF Wanted
<1>9. CASE T + acqPost - 1 >= M
  <2> DEFINE head == M - first
  <2>1. last = T + acqPost - 1 - M
    <3>1. /\ T + acqPost - 1 - M \in 0 .. (M - 1)
          /\ T + acqPost - 1 = M * 1 + (T + acqPost - 1 - M)
      BY <1>1, <1>2, <1>9
    <3>2. T + acqPost - 1 \in Nat
      BY <1>1, <1>2, <1>9
    <3>3. (T + acqPost - 1) % M = T + acqPost - 1 - M
      BY <1>1, <3>1, <3>2, RestIs
    <3>4. QED
      BY <1>3, <3>2, <3>3 DEF CRem
  <2>2. ~ last >= first
    BY <1>1, <1>2, <1>6, <2>1
  <2>3. /\ head \in Nat /\ total \in Nat /\ head <= total /\ first \in Nat
    BY <1>1, <1>2, <1>3, <1>4, <1>6, <1>9
  <2>4. ~ total < head
    BY <2>3
  <2>5. Readout = Piece(first, head) \o Piece(0, total - head)
    BY <2>2, <2>4 DEF Readout, M, first
  <2> HIDE DEF head, first, total
  <2>6. ASSUME NEW j \in 1 .. head PROVE Slot(first + j - 1) = Wanted[j]
    <3>1. j \in 1 .. total /\ first + j - 1 < M
      BY <1>1, <2>3 DEF head
    <3>2. QED
      BY <1>4, <1>7, <3>1 DEF Wanted
  <2>7. ASSUME NEW j \in 1 .. total - head PROVE Slot(0 + j - 1) = Wanted[head + j]
    <3>1. /\ head + j \in 1 .. total
          /\ first + (head + j) - 1 >= M /\ first + (head + j) - 1 - M = 0 + j - 1
      BY <1>1, <2>3 DEF head
    <3>2. Slot(0 + j - 1) = trigger - acqPre + (head + j) - 1
      BY <1>7, <3>1
    <3>3. QED
      BY <1>4, <3>1, <3>2 DEF Wanted
  <2>8. Piece(first, head) \o Piece(0, total - head) = Wanted
    BY <1>1, <1>4, <2>3, <2>6, <2>7, TwoPieces
  <2>9. QED
    BY <2>5, <2>8
<1>10. QED
  BY <1>1, <1>2, <1>8, <1>9

\* Whatever the client does between its calls, write_params among them, and whenever the
\* trigger comes: what it gets is the samples around the trigger, in order and all of
\* them, none overwritten before it is read and none of an earlier acquisition, as long as
\* the core works by what it was started with and the numbers ask for no more than that.
THEOREM ResultIsRight == Spec => ResultFromStart
<1>1. ASSUME IInv, [Next]_vars
      PROVE  [Returns /\ TriggerIndex >= acqPre /\ Taken => returned' = Wanted]_vars
  <2> SUFFICES ASSUME Next, Returns, TriggerIndex >= acqPre, Taken
               PROVE  returned' = Wanted
    BY <1>1
  <2>1. GetResult \/ ResultSuccess
    BY DEF Returns, Next, Client, Return, Core, Configure, SetDevinfo, StopAcquisition,
       WriteParams, StartAcquisition, Poll, Result, ResultFailure, TakeSample, Trigger,
       Transfer, software
  <2>2. step # "stop" /\ Complete
    BY <1>1, <2>1 DEF GetResult, ResultSuccess, Ready, IInv, Finished
  <2>3. returned' = Readout
    BY <2>1 DEF GetResult, ResultSuccess, Returns
  <2>4. QED
    BY <1>1, <2>2, <2>3, ReadoutIsWanted
<1>2. QED
  BY <1>1, Invariance, PTL DEF Spec, ResultFromStart

-----------------------------------------------------------------------------
(* AcqRam.                                                                 *)

\* Why the ranges are disjoint: the index of a controller is the count of calls
\* before its own, so no two controllers of a board have the same one.
Indexed ==
  /\ \A c \in Live : /\ range[c].index < counts[range[c].board]
                     /\ range[c].index + 1 < MaxAcqCores
  /\ \A c, d \in Live :
       c # d /\ range[c].board = range[d].board => range[c].index # range[d].index

RamInv == RamTypeOK /\ Indexed

-----------------------------------------------------------------------------
(* Multiples of the size of a range.                                       *)
LEMMA MultipleMonotone ==
  ASSUME NEW i \in Nat, NEW j \in Nat, NEW s \in Nat, i < j
  PROVE  (i + 1) * s <= j * s
<1>1. PICK k \in Nat : j = i + 1 + k
  <2>1. j - i - 1 \in Nat /\ j = i + 1 + (j - i - 1)
    OBVIOUS
  <2>2. QED
    BY <2>1
<1>2. j * s = (i + 1) * s + k * s
  BY <1>1, SMTT(30)
<1>3. k * s \in Nat /\ (i + 1) * s \in Nat
  BY SMTT(30)
<1>4. QED
  BY <1>2, <1>3

LEMMA LiveRange ==
  ASSUME RamTypeOK, NEW c \in Live
  PROVE  range[c].board \in Boards /\ range[c].index \in Nat
BY DEF RamTypeOK, Live

-----------------------------------------------------------------------------
LEMMA RamInitInv == RamInit => RamInv
<1> SUFFICES ASSUME RamInit PROVE RamInv
  OBVIOUS
<1>1. counts \in [Boards -> Nat]
  BY DEF RamInit
<1>2. range \in [Controllers -> [board : Boards, index : Nat] \cup {Nobody}]
  BY DEF RamInit
<1>3. refused \in BOOLEAN
  BY DEF RamInit
<1>4. Live = {}
  BY DEF RamInit, Live
<1>5. QED
  BY <1>1, <1>2, <1>3, <1>4 DEF RamInv, RamTypeOK, Indexed

LEMMA ConstructPreserves ==
  ASSUME RamInv, NEW c \in Controllers, NEW b \in Boards, Construct(c, b)
  PROVE  RamInv'
<1> USE DEF RamInv
<1>1. counts[b] \in Nat /\ counts' = [counts EXCEPT ![b] = counts[b] + 1]
  BY DEF Construct, RamTypeOK
<1>2. counts' \in [Boards -> Nat] /\ \A e \in Boards : counts[e] <= counts'[e]
  BY <1>1 DEF RamTypeOK
<1>3. CASE Supported(b)
  <2>1. /\ range' = [range EXCEPT ![c] = [board |-> b, index |-> counts[b]]]
        /\ refused' = FALSE
    BY <1>3 DEF Construct, NextIndex
  <2>2. RamTypeOK'
    BY <1>1, <1>2, <2>1 DEF RamTypeOK
  <2>3. /\ range'[c] = [board |-> b, index |-> counts[b]]
        /\ \A d \in Controllers \ {c} : range'[d] = range[d]
    BY <2>1 DEF RamTypeOK
  <2>4. \A d \in Live' \ {c} : d \in Live /\ range'[d] = range[d]
    BY <2>3 DEF Live
  <2>5. ASSUME NEW d \in Live'
        PROVE  range'[d].index < counts'[range'[d].board] /\ range'[d].index + 1 < MaxAcqCores
    <3>1. CASE d = c
      BY <1>1, <1>3, <2>3, <3>1 DEF Supported, RamTypeOK
    <3>2. CASE d # c
      <4>1. d \in Live /\ range'[d] = range[d]
        BY <2>4, <3>2
      <4>2. range[d].board \in Boards /\ range[d].index \in Nat
        BY <4>1, LiveRange
      <4>3. /\ range[d].index < counts[range[d].board] /\ range[d].index + 1 < MaxAcqCores
            /\ counts[range[d].board] \in Nat /\ counts'[range[d].board] \in Nat
            /\ counts[range[d].board] <= counts'[range[d].board]
        BY <1>2, <4>1, <4>2 DEF Indexed, RamTypeOK
      <4>4. QED
        BY <4>1, <4>2, <4>3
    <3>3. QED
      BY <3>1, <3>2
  <2>6. \A d \in Live' : d # c /\ range'[d].board = b => range'[d].index # counts[b]
    BY <1>1, <2>4, LiveRange DEF Indexed
  <2>7. ASSUME NEW d \in Live', NEW e \in Live', d # e, range'[d].board = range'[e].board
        PROVE  range'[d].index # range'[e].index
    <3>1. CASE d # c /\ e # c
      BY <2>4, <2>7, <3>1 DEF Indexed
    <3>2. CASE d = c \/ e = c
      BY <2>3, <2>6, <2>7, <3>2
    <3>3. QED
      BY <3>1, <3>2
  <2>8. QED
    BY <2>2, <2>5, <2>7 DEF Indexed
<1>4. CASE ~ Supported(b)
  <2>1. UNCHANGED range /\ refused' = TRUE
    BY <1>4 DEF Construct
  <2>2. RamTypeOK' /\ Live' = Live
    BY <1>2, <2>1 DEF RamTypeOK, Live
  <2>3. \A d \in Live : range[d].index < counts'[range[d].board]
    <3>1. SUFFICES ASSUME NEW d \in Live PROVE range[d].index < counts'[range[d].board]
      OBVIOUS
    <3>2. range[d].board \in Boards /\ range[d].index \in Nat
      BY LiveRange
    <3>3. /\ counts[range[d].board] \in Nat /\ counts'[range[d].board] \in Nat
          /\ counts[range[d].board] <= counts'[range[d].board]
          /\ range[d].index < counts[range[d].board]
      BY <1>2, <3>2 DEF Indexed, RamTypeOK
    <3>4. QED
      BY <3>2, <3>3
  <2>4. QED
    BY <2>1, <2>2, <2>3 DEF Indexed
<1>5. QED
  BY <1>3, <1>4

LEMMA DestroyPreserves ==
  ASSUME RamInv, NEW c \in Controllers, Destroy(c)
  PROVE  RamInv'
<1> USE DEF RamInv
<1>1. /\ range' = [range EXCEPT ![c] = Nobody] /\ UNCHANGED counts /\ refused' = FALSE
  BY DEF Destroy
<1>2. RamTypeOK' /\ \A d \in Live' : d \in Live /\ range'[d] = range[d]
  BY <1>1 DEF RamTypeOK, Live
<1>3. QED
  BY <1>1, <1>2 DEF Indexed

\* So does the allocator's.
THEOREM RamInvariance == RamSpec => []RamInv
<1>1. RamInv /\ [RamNext]_ramVars => RamInv'
  <2> SUFFICES ASSUME RamInv, [RamNext]_ramVars PROVE RamInv'
    OBVIOUS
  <2>1. CASE RamNext
    BY <2>1, ConstructPreserves, DestroyPreserves DEF RamNext
  <2>2. CASE UNCHANGED ramVars
    BY <2>2 DEF ramVars, RamInv, RamTypeOK, Indexed, Live
  <2>3. QED
    BY <2>1, <2>2
<1>2. QED
  BY <1>1, RamInitInv, PTL DEF RamSpec

-----------------------------------------------------------------------------
\* Two controllers of a board never share a word of RAM, however many are
\* constructed and destroyed: get_range never gives an index twice.
THEOREM Disjoint == RamSpec => []RangesDisjoint
<1>1. RamInv => RangesDisjoint
  <2> SUFFICES ASSUME RamInv, NEW c \in Live, NEW d \in Live,
                      c # d, range[c].board = range[d].board
               PROVE  RamEnd(c) <= RamStart(d) \/ RamEnd(d) <= RamStart(c)
    BY DEF RangesDisjoint
  <2>1. /\ range[c].index \in Nat /\ range[d].index \in Nat
        /\ range[c].index # range[d].index
    BY LiveRange DEF RamInv, Indexed
  <2>2. RamPerCore \in Nat
    BY RamAssumption
  <2>3. CASE range[c].index < range[d].index
    BY <2>1, <2>2, <2>3, MultipleMonotone DEF RamStart, RamEnd
  <2>4. CASE range[d].index < range[c].index
    BY <2>1, <2>2, <2>4, MultipleMonotone DEF RamStart, RamEnd
  <2>5. QED
    BY <2>1, <2>3, <2>4
<1>2. QED
  BY <1>1, RamInvariance, PTL

\* No controller's range goes beyond the RAM the board has.
THEOREM InRam == RamSpec => []RangesInRam
<1>1. RamInv => RangesInRam
  <2> SUFFICES ASSUME RamInv, NEW c \in Live
               PROVE  RamStart(c) >= 0 /\ RamEnd(c) <= Capacity
    BY DEF RangesInRam
  <2>1. range[c].index \in Nat /\ range[c].index < MaxAcqCores
    BY LiveRange, RamAssumption DEF RamInv, Indexed
  <2>2. MaxAcqCores \in Nat /\ RamPerCore \in Nat
    BY RamAssumption
  <2>3. (range[c].index + 1) * RamPerCore <= MaxAcqCores * RamPerCore
    BY <2>1, <2>2, MultipleMonotone
  <2>4. range[c].index * RamPerCore \in Nat
    BY <2>1, <2>2, SMTT(30)
  <2>5. QED
    BY <2>3, <2>4 DEF RamStart, RamEnd, Capacity
<1>2. QED
  BY <1>1, RamInvariance, PTL

\* Each controller has RAM of its own.
THEOREM Own == RamSpec => []RangesOwn
BY Disjoint, InRam, PTL DEF RangesOwn
==============================================================================
