------------------------------ MODULE Si57xCtrl ------------------------------
(***************************************************************************)
(* si57x_ctrl::Controller (modules/si57x_ctrl.cc) and the core that it     *)
(* drives, which talks to an oscillator over I2C.  The core is given a     *)
(* command by a bit of its register ctl, is busy while it executes it, and *)
(* the controller polls it for at most Attempts times.                     *)
(*                                                                         *)
(* One thread uses the controller.  Each access to BAR4 is a step, and the *)
(* core may finish its command between any two of them.                    *)
(***************************************************************************)
EXTENDS Integers

CONSTANTS
  Configs,        \* contents of the registers RFREQ, N1 and HSDIV ...
  Zero,           \* ... one of them the one that they have before set_freq
  Startup,        \* what the oscillator runs after its reset
  Attempts        \* busy_wait_attempts

ASSUME Si57xAssumption ==
  Zero \in Configs /\ Startup \notin Configs /\ Attempts \in Nat

VARIABLES
  cfg,       \* the core's configuration registers
  loaded,    \* the configuration that the oscillator runs
  valid,     \* the core has the oscillator's startup registers
  job,       \* the command that the core is executing, or "none"
  pc,        \* where the controller's thread is
  shadow,    \* configuration in the controller's regs
  ctl,       \* commands in the controller's regs.ctl
  data,      \* status that the decoder has decoded last
  tries,     \* i of still_busy
  fstartup,  \* the controller was made with the oscillator's startup frequency
  fxtal,     \* fxtal has been calculated
  result     \* what the last call returned, or "threw"

core == <<cfg, loaded, valid, job>>
vars == <<cfg, loaded, valid, job, pc, shadow, ctl, data, tries, fstartup, fxtal, result>>

Jobs == {"read_startup", "apply"}
Status == [busy |-> job # "none", valid |-> valid, sync |-> cfg = loaded]

Init ==
  /\ cfg \in Configs
  /\ loaded \in Configs \cup {Startup}
  /\ valid \in BOOLEAN
  /\ job = "none"
  /\ pc = "new"
  /\ shadow = Zero
  /\ ctl = {}
  /\ data = [busy |-> FALSE, valid |-> FALSE, sync |-> FALSE]
  /\ tries = 0
  /\ fstartup \in BOOLEAN
  /\ fxtal = FALSE
  /\ result = "none"

-----------------------------------------------------------------------------
(* The core.  Its I2C transfers may fail, and it says so by not setting    *)
(* its status bits.                                                        *)
Finish ==
  /\ job # "none"
  /\ job' = "none"
  /\ \/ UNCHANGED <<loaded, valid>>
     \/ job = "read_startup" /\ valid' = TRUE /\ UNCHANGED loaded
     \/ job = "apply" /\ loaded' = cfg /\ UNCHANGED valid
  /\ UNCHANGED <<cfg, pc, shadow, ctl, data, tries, fstartup, fxtal, result>>

\* A write of the core's registers that sets the bits in bits of ctl.  Reading the
\* startup registers resets the oscillator.
CoreTakes(values, bits) ==
  /\ cfg' = values
  /\ job' = IF "read_startup" \in bits THEN "read_startup"
            ELSE IF "apply" \in bits THEN "apply" ELSE job
  /\ loaded' = IF "read_startup" \in bits THEN Startup ELSE loaded
  /\ valid' = IF "read_startup" \in bits THEN FALSE ELSE valid

-----------------------------------------------------------------------------
(* The controller.  The definitions named after a slip are mutants.        *)
Goto(l) == pc' = l
Returns(v) == Goto("idle") /\ result' = v

\* pdec->get_data()
GetData == data' = Status

SetDevinfo ==
  /\ pc = "new"
  /\ GetData
  /\ Goto("idle")
  /\ UNCHANGED <<core, shadow, ctl, tries, fstartup, fxtal, result>>

\* set_freq with a frequency that si57x_parameters::set_freq knows how to make; with
\* another it returns false and writes nothing.
SetFreq ==
  /\ pc = "idle"
  /\ \/ \E c \in Configs : shadow' = c /\ Returns("true")
     \/ UNCHANGED shadow /\ Returns("false")
  /\ UNCHANGED <<core, ctl, data, tries, fstartup, fxtal>>

\* A call of read_startup_regs, apply_config or write_params.
ReadStartupRegs ==
  /\ pc = "idle"
  /\ CASE ~ fstartup -> Returns("threw") /\ UNCHANGED ctl
       [] fstartup /\ data.valid ->
            Goto("startup_calc") /\ result' = "none" /\ UNCHANGED ctl
       [] OTHER ->
            /\ Goto("startup_check")
            /\ result' = "none"
            /\ ctl' = ctl \cup {"read_startup"}
  /\ UNCHANGED <<core, shadow, data, tries, fstartup, fxtal>>

ApplyConfig ==
  /\ pc = "idle"
  /\ Goto("config_check")
  /\ result' = "none"
  /\ UNCHANGED <<core, shadow, ctl, data, tries, fstartup, fxtal>>

CallWriteParams ==
  /\ pc = "idle"
  /\ Goto("params_check")
  /\ result' = "none"
  /\ UNCHANGED <<core, shadow, ctl, data, tries, fstartup, fxtal>>

\* write_params: each of its calls has two steps, and a name for them.
Check == [params |-> "params_check", startup |-> "startup_check",
          config |-> "config_check", apply |-> "apply_check"]
Write == [params |-> "params_write", startup |-> "startup_write",
          config |-> "config_write", apply |-> "apply_write"]
Callers == DOMAIN Check

CheckBusyKeepsCtl(c) ==
  /\ pc = Check[c]
  /\ GetData
  /\ IF data'.busy THEN Returns("threw") ELSE Goto(Write[c]) /\ UNCHANGED result
  /\ UNCHANGED <<core, shadow, ctl, tries, fstartup, fxtal>>
CheckBusyIgnored(c) ==
  /\ pc = Check[c]
  /\ GetData
  /\ Goto(Write[c])
  /\ UNCHANGED <<core, shadow, ctl, tries, fstartup, fxtal, result>>
CheckBusyWaits(c) ==
  /\ pc = Check[c]
  /\ GetData
  /\ IF data'.busy THEN UNCHANGED pc ELSE Goto(Write[c])
  /\ UNCHANGED <<core, shadow, ctl, tries, fstartup, fxtal, result>>
\* get_busy(): throws, with ctl cleared, when the core is busy.
CheckBusy(c) ==
  /\ pc = Check[c]
  /\ GetData
  /\ IF data'.busy
       THEN Returns("threw") /\ ctl' = {}
       ELSE Goto(Write[c]) /\ UNCHANGED <<ctl, result>>
  /\ UNCHANGED <<core, shadow, tries, fstartup, fxtal>>

\* RegisterController::write_params, then what its caller does up to its next access.
WriteRegs(c) ==
  /\ pc = Write[c]
  /\ CoreTakes(shadow, ctl)
  /\ ctl' = IF c = "config" THEN {"apply"} ELSE {}
  /\ CASE c = "params" -> Returns("void")
       [] c = "startup" -> Goto("startup_poll") /\ UNCHANGED result
       [] c = "config" -> Goto("apply_check") /\ UNCHANGED result
       [] c = "apply" -> Goto("apply_poll") /\ UNCHANGED result
  /\ tries' = 0
  /\ UNCHANGED <<shadow, data, fstartup, fxtal>>

\* still_busy: one get_busy.  The first one is not counted.
PollEnds == ~ data'.busy \/ tries = Attempts

Poll(l, Done) ==
  /\ pc = l
  /\ GetData
  /\ IF PollEnds
       THEN Done
       ELSE tries' = tries + 1 /\ UNCHANGED <<pc, result>>
  /\ UNCHANGED <<core, shadow, ctl, fstartup, fxtal>>

PollStartup ==
  Poll("startup_poll",
       /\ IF data'.busy \/ ~ data'.valid
            THEN Returns("false")
            ELSE Goto("startup_calc") /\ UNCHANGED result
       /\ UNCHANGED tries)

ApplyDoneAnyStatus(busy) == ~ busy
ApplyDone(busy) == ~ busy /\ data'.sync
PollApply ==
  Poll("apply_poll", Returns(IF ApplyDone(data'.busy) THEN "true" ELSE "false") /\ UNCHANGED tries)

\* calc_fxtal, with the values that were decoded last.
Calc ==
  /\ pc = "startup_calc"
  /\ fxtal' = TRUE
  /\ Returns("true")
  /\ UNCHANGED <<core, shadow, ctl, data, tries, fstartup>>

Controller ==
  \/ SetDevinfo \/ SetFreq \/ ReadStartupRegs \/ ApplyConfig \/ CallWriteParams
  \/ \E c \in Callers : CheckBusy(c) \/ WriteRegs(c)
  \/ PollStartup \/ PollApply \/ Calc
\* What a call of the controller does once it has begun.
Continue ==
  \/ \E c \in Callers : CheckBusy(c) \/ WriteRegs(c)
  \/ PollStartup \/ PollApply \/ Calc

Next == Controller \/ Finish

\* A call that has begun goes on; the core need not ever finish.
Fairness == WF_vars(Continue)
Spec == Init /\ [][Next]_vars /\ Fairness

-----------------------------------------------------------------------------
(* Properties.                                                             *)
PCs == {"new", "idle", "startup_poll", "startup_calc", "apply_poll"}
         \cup {Check[c] : c \in Callers} \cup {Write[c] : c \in Callers}

\* The types of the state: still_busy does not poll more than busy_wait_attempts times.
TypeOK ==
  /\ cfg \in Configs /\ shadow \in Configs
  /\ loaded \in Configs \cup {Startup}
  /\ job \in Jobs \cup {"none"}
  /\ pc \in PCs
  /\ ctl \subseteq Jobs
  /\ data \in [busy : BOOLEAN, valid : BOOLEAN, sync : BOOLEAN]
  /\ tries \in 0 .. Attempts
  /\ valid \in BOOLEAN /\ fxtal \in BOOLEAN /\ fstartup \in BOOLEAN
  /\ result \in {"none", "void", "threw", "true", "false"}

\* "writes not allowed while busy" (write_params): the check is some accesses before
\* the write, and holds until then.
NotWrittenWhileBusy ==
  \A c \in Callers : pc = Write[c] => job = "none"

\* A command that write_params has refused is not given to the core by a later call
\* that did not ask for it ("clear any action bits").
CommandsAsked ==
  \A c \in Callers : pc = Write[c] =>
    ctl = CASE c = "startup" -> {"read_startup"} [] c = "apply" -> {"apply"} [] OTHER -> {}

\* When apply_config returns true the oscillator runs the configuration that is in
\* the controller's registers.
AppliedWhenTrue ==
  [][pc = "apply_poll" /\ pc' = "idle" /\ result' = "true" =>
       loaded' = shadow' /\ job' = "none"]_vars

\* Every call returns, whether or not the core ever does what it was told to.
CallsReturn == (pc # "idle" /\ pc # "new") ~> (pc = "idle")
==============================================================================
