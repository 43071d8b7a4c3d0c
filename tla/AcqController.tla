---------------------------- MODULE AcqController ----------------------------
(***************************************************************************)
(* acq::Controller (modules/acq.cc) and the acquisition core it drives.    *)
(* A client sets the public fields for the next acquisition, starts it,    *)
(* polls it or blocks in result(), and reads the samples back from a       *)
(* circular buffer in the FPGA's RAM, while the core runs by itself.       *)
(*                                                                         *)
(* Sizes count in units of the smallest sample.  A sample is identified by *)
(* its number in the current acquisition, counted from its START.          *)
(***************************************************************************)
EXTENDS Integers, Sequences, FiniteSetsExt

CONSTANTS
  Channels,     \* values of the field channel
  SampleSize,   \* size of a sample of each channel, read from CHn_DESC
  Payload,      \* ddr3_payload_size
  RamSize,      \* ram_end_addr - ram_start_addr
  Word,         \* numbers of samples are unsigned, modulo Word (2^32)
  Configs,      \* values of the public fields of the controller
  MaxMade,      \* bound: samples the core takes while it waits for a trigger
  Old,          \* content of RAM from before the acquisition
  Foreign,      \* content of RAM outside of the controller's range
  None          \* no result has been returned

ASSUME AcqAssumption ==
  /\ SampleSize \in [Channels -> Nat \ {0}]
  /\ Payload \in Nat \ {0} /\ RamSize \in Nat \ {0} /\ MaxMade \in Nat
  /\ Word \in Nat \ {0} /\ RamSize <= Word      \* acq_ram is less than 2^32 bytes
  /\ \A c \in Configs : /\ c.channel \in Channels
                        /\ c.pre \in 0 .. (Word - 1) /\ c.post \in 0 .. (Word - 1)
                        /\ c.trigger \in {"now", "external"}

VARIABLES
  config,       \* public fields, the configuration of the next acquisition
  devinfo,      \* devinfo_is_set
  step,         \* m_step
  size, acqPre, acqPost,   \* sample_size, acq_pre_samples, acq_post_samples
  shadow,       \* regs: the controller's copy of the core's registers
  client,       \* "free", or inside of result() with or without a wait_time
  returned,     \* last result given to the client
  overruled,    \* what write_params has changed since START: "no" (nothing), "numbers"
                \* (those kept for get_result), or "core" (what a running core works by)
  reg,          \* parameters the core works by, or has last worked by
  fsm,          \* its state machine
  done,         \* FSM_ACQ_DONE
  made,         \* samples taken since START
  landed,       \* samples that have reached the RAM
  trigger       \* number of the first sample after the trigger

software ==
  <<config, devinfo, step, size, acqPre, acqPost, shadow, client, returned, overruled>>
core == <<reg, fsm, done, made, landed, trigger>>
vars == <<software, core>>

-----------------------------------------------------------------------------
(* Encoding of the parameters.                                             *)
PowerOfTwo(n) == \E k \in 0 .. n : n = 2^k
Alignment(s) == IF Payload > s THEN Payload \div s ELSE 1
MaxSamples(s) == RamSize \div s

AlignExtendDown(v, a, canBeZero) == IF v = 0 /\ ~ canBeZero THEN a ELSE v - (v % a)
AlignExtend(v, a, canBeZero) ==
  IF v = 0 THEN (IF canBeZero THEN 0 ELSE a)
  ELSE IF v % a = 0 THEN v ELSE (v + (a - (v % a))) % Word

PreAligned(c) == AlignExtend(c.pre, Alignment(SampleSize[c.channel]), FALSE)
PostAligned(c) == AlignExtend(c.post, Alignment(SampleSize[c.channel]), c.trigger = "now")

\* get_internal_values and encode_params throw in the other cases.
GoodSampleSize(c) == PowerOfTwo(SampleSize[c.channel])
Fits(c) == PreAligned(c) + PostAligned(c) < MaxSamples(SampleSize[c.channel])
Encodes(c) ==
  /\ GoodSampleSize(c)                        \* BadSampleSize
  /\ (c.pre + c.post) % Word # 0              \* NoSamples
  /\ ~ (c.post # 0 /\ c.trigger = "now")      \* BadPostSamples
  /\ Fits(c)                                  \* TooManySamples

\* What encode_params leaves behind: the sample size is taken before the numbers
\* of samples, and those before the checks; the other registers of the shadow
\* change only if all pass, the channel before.
Capture(c) ==
  /\ size' = SampleSize[c.channel]
  /\ IF GoodSampleSize(c)
       THEN acqPre' = c.pre /\ acqPost' = c.post
       ELSE UNCHANGED <<acqPre, acqPost>>

Refused(c) == IF GoodSampleSize(c) THEN [shadow EXCEPT !.channel = c.channel] ELSE shadow

Registers(c) ==
  [shadow EXCEPT !.channel = c.channel, !.pre = PreAligned(c), !.post = PostAligned(c),
                 !.now = (c.trigger = "now")]
ForMachine(c) == [f \in DOMAIN reg |-> Registers(c)[f]]

-----------------------------------------------------------------------------
(* The acquisition core (external): what the library relies on.            *)
Running == fsm # "idle"
Complete == fsm = "idle" /\ done /\ landed = made

\* A write of the control register.  START is heeded by an idle machine only.
Control(start, stop) ==
  IF stop THEN /\ fsm' = "idle" /\ done' = FALSE
               /\ UNCHANGED <<made, landed, trigger>>
  ELSE IF start /\ ~ Running
    THEN /\ fsm' = "pre" /\ done' = FALSE
         /\ made' = 0 /\ landed' = 0 /\ trigger' = 0
    ELSE UNCHANGED <<fsm, done, made, landed, trigger>>

\* The machine takes pre samples; with ACQ_NOW that is all, otherwise it goes on
\* until the trigger and takes post samples more.
TakeSample ==
  /\ Running
  /\ fsm = "wait" => made < MaxMade
  /\ made' = made + 1
  /\ CASE fsm = "pre" /\ made' >= reg.pre ->
            IF reg.now THEN fsm' = "idle" /\ done' = TRUE /\ trigger' = made'
                       ELSE fsm' = "wait" /\ UNCHANGED <<done, trigger>>
       [] fsm = "post" /\ made' - trigger >= reg.post ->
            fsm' = "idle" /\ done' = TRUE /\ UNCHANGED trigger
       [] OTHER -> UNCHANGED <<fsm, done, trigger>>
  /\ UNCHANGED <<software, reg, landed>>

Trigger ==
  /\ fsm = "wait"
  /\ fsm' = "post"
  /\ trigger' = made
  /\ UNCHANGED <<software, reg, done, made, landed>>

\* Samples reach the RAM later than they are taken.
Transfer ==
  /\ landed < made
  /\ landed' = landed + 1
  /\ UNCHANGED <<software, reg, fsm, done, made, trigger>>

\* The buffer is circular; ddr3_end_addr is the place of its last sample.  Nothing is
\* known of what a core leaves there of which the parameters changed while it ran.
CoreSize == SampleSize[reg.channel]
Slot(k) ==
  LET there == {n \in 0 .. (landed - 1) : n % MaxSamples(CoreSize) = k}
  IN  IF \/ k \notin 0 .. (MaxSamples(CoreSize) - 1)
         \/ size # CoreSize \/ overruled = "core" THEN Foreign
      ELSE IF there = {} THEN Old ELSE Max(there)

\* TRIG_POS, as the index of a sample in the buffer.
TriggerIndex == trigger % MaxSamples(CoreSize)

-----------------------------------------------------------------------------
(* The controller.  The definitions named after a slip (here and in the    *)
(* encoding) are mutants of the ones that follow them.                     *)
Init ==
  /\ config \in Configs
  /\ devinfo = FALSE
  /\ step = "stop"
  /\ size = 1 /\ acqPre = 0 /\ acqPost = 0
  /\ shadow = [channel |-> config.channel, pre |-> 0, post |-> 0, now |-> FALSE,
               start |-> FALSE, stop |-> FALSE]
  /\ client = "free"
  /\ returned = None
  /\ overruled = "no"
  /\ reg = [channel |-> config.channel, pre |-> 1, post |-> 1, now |-> FALSE]
  /\ fsm \in {"idle", "wait"}      \* what an earlier program has left running
  /\ done = FALSE
  /\ made = 0 /\ landed = 0 /\ trigger = 0

\* The client registers the configuration of the next acquisition.
Configure ==
  /\ client = "free"
  /\ config' \in Configs \ {config}
  /\ UNCHANGED <<devinfo, step, size, acqPre, acqPost, shadow, client, returned, overruled, core>>

\* The strobes are set in the shadow for one write and cleared after it.
AfterStopKept(sh) == [sh EXCEPT !.stop = TRUE]
AfterStop(sh) == [sh EXCEPT !.stop = FALSE]
AfterStart(sh) == [sh EXCEPT !.start = FALSE]

\* The body of stop_acquisition.
Stop ==
  /\ step' = "stop"
  /\ Control(shadow.start, TRUE)
  /\ shadow' = AfterStop(shadow)
  /\ overruled' = "no"

\* stop_acquisition, of use once the address of the core is known.
StopAcquisition ==
  /\ client = "free"
  /\ devinfo
  /\ Stop
  /\ UNCHANGED <<config, devinfo, size, acqPre, acqPost, client, returned, reg>>

\* set_devinfo, with its callback.
SetDevinfoOnly ==
  /\ client = "free"
  /\ devinfo' = TRUE
  /\ UNCHANGED <<config, step, size, acqPre, acqPost, shadow, client, returned, overruled, core>>
SetDevinfo ==
  /\ client = "free"
  /\ devinfo' = TRUE
  /\ Stop
  /\ UNCHANGED <<config, size, acqPre, acqPost, client, returned, reg>>

\* RegisterController::write_params, all the registers, the control one first.  It is
\* public and has no guard: in the middle of an acquisition too, it replaces the numbers
\* that get_result goes by and the registers of the core.  An idle core reads these at
\* START, which start_acquisition precedes by another write of them all; a running one
\* may heed them or not.
Disturbs == Running /\ Encodes(config) /\ ForMachine(config) # reg
Recaptures == step # "stop" /\ <<size, acqPre, acqPost>>' # <<size, acqPre, acqPost>>

WriteParams ==
  /\ client = "free"
  /\ devinfo
  /\ Capture(config)
  /\ IF Encodes(config)
       THEN /\ shadow' = Registers(config)
            /\ reg' \in IF Running THEN {reg, ForMachine(config)} ELSE {reg}
            /\ Control(shadow.start, shadow.stop)
       ELSE shadow' = Refused(config) /\ UNCHANGED core
  /\ overruled' = IF Disturbs THEN "core"
                  ELSE IF Recaptures /\ overruled = "no" THEN "numbers" ELSE overruled
  /\ UNCHANGED <<config, devinfo, step, client, returned>>

\* start_acquisition.  When the parameters cannot be encoded it returns an error
\* and the step stays; without devinfo the same, and nothing has changed.
MayStart == step = "stop" /\ devinfo
Start ==
  /\ MayStart
  /\ Capture(config)
  /\ IF Encodes(config)
       THEN /\ step' = "started"
            /\ reg' = ForMachine(config)
            /\ Control(TRUE, shadow.stop)
            /\ shadow' = AfterStart(Registers(config))
       ELSE shadow' = Refused(config) /\ UNCHANGED <<step, core>>
  /\ UNCHANGED overruled

StartAcquisition ==
  /\ client = "free"
  /\ Start
  /\ returned' = None
  /\ UNCHANGED <<config, devinfo, client>>

\* acquisition_ready, from the bits of the status register.
ReadyBeforeTransfer == fsm = "idle" /\ done
Ready == Complete

\* get_acq_status: the step moves on when the core has finished.
PollStatus ==
  /\ client = "free"
  /\ step = "started"
  /\ Ready
  /\ step' = "success"    \* an acq_status
  /\ UNCHANGED <<config, devinfo, size, acqPre, acqPost, shadow, client, returned, overruled,
                 core>>
Poll ==
  /\ client = "free"
  /\ step = "started"
  /\ Ready
  /\ step' = "done"
  /\ UNCHANGED <<config, devinfo, size, acqPre, acqPost, shadow, client, returned, overruled,
                 core>>

\* The samples get_result copies: in one piece, or in two when the acquisition
\* wraps around the buffer.  The % of C keeps the sign of the dividend.  The result has
\* room for all the samples and no more, which write_params may have made none: what is
\* copied past its end then is undefined, and not in the result.
CRem(a, b) == IF a >= 0 THEN a % b ELSE -((-a) % b)
Piece(first, n) == [j \in 1 .. n |-> Slot(first + j - 1)]

Total == (acqPre + acqPost) % Word
Readout ==
  LET total == Total
      first == CRem(TriggerIndex - acqPre, MaxSamples(size))
      last  == CRem(TriggerIndex + acqPost - 1, MaxSamples(size))
      head  == MaxSamples(size) - first
  IN  IF last >= first \/ total < head THEN Piece(first, total)
                       ELSE Piece(first, head) \o Piece(0, total - head)

\* It throws when the size of a sample is not the one of its atoms, which is what a
\* refused write_params leaves when it has taken the size and not the atoms.
SizeOfAtoms == PowerOfTwo(size) \/ Total = 0

GetResult ==
  /\ client = "free"
  /\ step = "done"
  /\ step' = "stop"
  /\ IF SizeOfAtoms THEN returned' = Readout ELSE UNCHANGED returned
  /\ overruled' = "no"
  /\ UNCHANGED <<config, devinfo, size, acqPre, acqPost, shadow, client, core>>

\* result(): starts, whatever start_acquisition returns, and then polls.
Result ==
  /\ client = "free"
  /\ Start
  /\ client' \in {"waiting", "waiting_timed"}
  /\ returned' = None
  /\ UNCHANGED <<config, devinfo>>

Waiting == client # "free"

ResultSuccess ==
  /\ Waiting
  /\ step = "started"
  /\ Ready
  /\ step' = "stop"
  /\ returned' = Readout
  /\ client' = "free"
  /\ overruled' = "no"
  /\ UNCHANGED <<config, devinfo, size, acqPre, acqPost, shadow, core>>

\* "acquisition failed": it was not started, or the wait_time is over; in that
\* case the step stays.
ResultFailure ==
  /\ Waiting
  /\ \/ step = "stop"
     \/ step = "started" /\ ~ Ready /\ client = "waiting_timed"
  /\ client' = "free"
  /\ UNCHANGED <<config, devinfo, step, size, acqPre, acqPost, shadow, returned, overruled,
                 core>>

Client ==
  \/ Configure \/ SetDevinfo \/ StopAcquisition \/ WriteParams
  \/ StartAcquisition \/ Poll \/ GetResult \/ Result
Return == ResultSuccess \/ ResultFailure
Core == TakeSample \/ Trigger \/ Transfer

Next == Client \/ Return \/ Core

\* The core takes and transfers samples; nothing says that a trigger comes.  A
\* thread inside of result() keeps polling, and its wait_time comes to an end.
Spec ==
  /\ Init /\ [][Next]_vars
  /\ WF_vars(TakeSample) /\ WF_vars(Transfer)
  /\ WF_vars(ResultSuccess) /\ WF_vars(ResultFailure)

-----------------------------------------------------------------------------
(* Properties.                                                             *)
\* The types of the state: the step is one of three, sizes stay natural numbers, and no
\* more samples land in RAM, nor is the trigger later, than the core has made.
TypeOK ==
  /\ config \in Configs
  /\ devinfo \in BOOLEAN
  /\ step \in {"stop", "started", "done"}
  /\ size \in Nat \ {0} /\ acqPre \in Nat /\ acqPost \in Nat
  /\ shadow \in [channel : Channels, pre : Nat, post : Nat, now : BOOLEAN,
                 start : BOOLEAN, stop : BOOLEAN]
  /\ client \in {"free", "waiting", "waiting_timed"}
  /\ overruled \in {"no", "numbers", "core"}
  /\ reg \in [channel : Channels, pre : Nat, post : Nat, now : BOOLEAN]
  /\ fsm \in {"idle", "pre", "wait", "post"}
  /\ done \in BOOLEAN
  /\ made \in Nat /\ landed \in 0 .. made /\ trigger \in 0 .. made

\* "We want a consistent view of the world, and that includes no acquisitions we
\* don't know about" (set_devinfo_callback): once the controller has its device,
\* the core runs only while the controller is in the step started.
NoUnknownAcquisition == devinfo /\ Running => step = "started"

\* A number of samples whose rounding up does not wrap around.
Representable(n) == n <= Word - Alignment(size)

\* The numbers kept for get_result describe the acquisition the core was started
\* with, whatever the client has configured since, and the samples the core takes
\* before the oldest wanted one is copied do not overwrite it.  That is so until
\* write_params is called with other parameters: then the numbers are not the core's
\* any more, but as long as the core works by its own it overwrites none of them.
\* encode_params lets larger numbers than the RAM's pass as well, when they wrap around as
\* they are rounded up: of those the core is told another number than get_result is.
CapturedMatchesCore ==
  /\ step # "stop" /\ overruled = "no" =>
       /\ size = CoreSize
       /\ Representable(acqPre) => acqPre <= reg.pre
       /\ Representable(acqPost) => acqPost <= reg.post
  /\ step # "stop" /\ overruled # "core" => reg.pre + reg.post < MaxSamples(CoreSize)

\* The samples around the trigger, which is what the client asked for.
Wanted == [j \in 1 .. (acqPre + acqPost) |-> trigger - acqPre + j - 1]
Returns == returned' # returned /\ returned' # None

\* The numbers are those the acquisition was started with, or write_params has replaced
\* them and they ask for some samples, and for no more than the core has taken.
WithinTaken ==
  /\ size = CoreSize /\ acqPre + acqPost > 0
  /\ acqPre <= reg.pre /\ acqPost <= reg.post
Taken ==
  /\ Representable(acqPre) /\ Representable(acqPost)
  /\ overruled = "no" \/ (overruled = "numbers" /\ WithinTaken)

\* get_result gives the samples around the trigger, those of this acquisition, in
\* their order and all of them, also when the acquisition wraps around the end of
\* the buffer, or when write_params has been called in the meantime and the numbers that
\* it has left do not ask for more; here for acquisitions that begin at or above the
\* buffer's start and numbers that do not wrap around.
ResultFromStart == [][Returns /\ TriggerIndex >= acqPre /\ Taken => returned' = Wanted]_vars

\* The same for every acquisition: "convert from negative or >max_samples
\* indexes" (get_result) promises it for those that begin below the start too.
ResultIsWanted == [][Returns /\ Taken => returned' = Wanted]_vars

\* result() comes back: with a wait_time always, without one when the acquisition
\* needs no trigger or has had it.
ResultReturns ==
  (client = "waiting_timed" \/ (client = "waiting" /\ (reg.now \/ fsm = "post")))
    ~> client = "free"
==============================================================================
