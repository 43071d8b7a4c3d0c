--------------------------- MODULE ParamController ---------------------------
(***************************************************************************)
(* The controllers whose parameters are members that the client sets, and  *)
(* that encode_params puts into the registers: trigger_mux, trigger_iface  *)
(* and fofb_cc, which read the core first and leave alone what has not     *)
(* been set; fofb_processing, sysid, orbit_intlk and bpm_swap, which       *)
(* write all of their parameters.  A parameter that is a command is taken  *)
(* back once it has been written.                                          *)
(*                                                                         *)
(* A register field is one variable here: RegisterFields has the bits.  A  *)
(* block is read or written in one step (Bar4), but nothing is locked from *)
(* the read to the write: calls of two controllers overlap.                *)
(***************************************************************************)
EXTENDS Integers

CONSTANTS
  Controllers,    \* objects for the same core
  Fields,
  Commands,       \* fields that the core clears when it has done what they say
  Values,
  TooLarge,       \* a value that clear_and_insert or a check of encode_params refuses
  Unset,          \* std::nullopt
  Classes         \* what the class does: reads, whether encode_params begins with a read
                  \* and parameters are optional; applied, the fields that write_params
                  \* writes once more (cfg_val of fofb_cc)

ASSUME ParamAssumption ==
  /\ Commands \subseteq Fields
  /\ Classes \subseteq [reads : BOOLEAN, applied : SUBSET Fields]
  /\ 0 \in Values /\ 1 \in Values
  /\ TooLarge \notin Values /\ Unset \notin Values \cup {TooLarge}

VARIABLES
  class,    \* the class of the controllers
  hw,       \* the core's fields
  params,   \* the members of each controller
  regs,     \* its registers
  pc,       \* where its write_params is
  threw,    \* its last write_params threw
  asked,    \* (history) commands that its client has set and that were not yet written
  changed   \* (history) parameters that others have changed in the core since it has
            \* read it, or written to it, in the call that is under way

vars == <<class, hw, params, regs, pc, threw, asked, changed>>

\* What a parameter is when no one has set it.
Default == IF class.reads THEN Unset ELSE 0
None == IF class.reads THEN {Unset} ELSE {}

Init ==
  /\ class \in Classes
  /\ hw \in {h \in [Fields -> Values] : \A f \in Commands : h[f] = 0}
  /\ params = [c \in Controllers |-> [f \in Fields |-> Default]]
  /\ regs = [c \in Controllers |-> [f \in Fields |-> 0]]
  /\ pc = [c \in Controllers |-> "idle"]
  /\ threw = [c \in Controllers |-> FALSE]
  /\ asked = [c \in Controllers |-> {}]
  /\ changed = [c \in Controllers |-> {}]

Goto(c, l) == pc' = [pc EXCEPT ![c] = l]

\* The client sets a member.
SetParam(c, f, v) ==
  /\ pc[c] = "idle"
  /\ v \in IF f \in Commands THEN {0, 1} \cup None ELSE Values \cup {TooLarge} \cup None
  /\ params' = [params EXCEPT ![c][f] = v]
  /\ asked' = [asked EXCEPT ![c] = IF f \in Commands /\ v = 1 THEN @ \cup {f} ELSE @ \ {f}]
  /\ UNCHANGED <<class, hw, regs, pc, threw, changed>>

\* write_params.
Call(c) ==
  /\ pc[c] = "idle"
  /\ Goto(c, IF class.reads THEN "read" ELSE "encode")
  /\ threw' = [threw EXCEPT ![c] = FALSE]
  /\ UNCHANGED <<class, hw, params, regs, asked, changed>>

\* The definitions named after a slip are mutants.
ReadOnce(c) ==
  /\ pc[c] = "read"
  /\ regs' = IF \A f \in Fields : regs[c][f] = 0 THEN [regs EXCEPT ![c] = hw] ELSE regs
  /\ changed' = [changed EXCEPT ![c] = {}]
  /\ Goto(c, "encode")
  /\ UNCHANGED <<class, hw, params, threw, asked>>
Read(c) ==
  /\ pc[c] = "read"
  /\ regs' = [regs EXCEPT ![c] = hw]
  /\ changed' = [changed EXCEPT ![c] = {}]
  /\ Goto(c, "encode")
  /\ UNCHANGED <<class, hw, params, threw, asked>>

Taken(c, f) == params[c][f] \in Values
Encoded(c) == [f \in Fields |-> IF Taken(c, f) THEN params[c][f] ELSE regs[c][f]]

EncodeUnchecked(c) ==
  /\ pc[c] = "encode"
  /\ regs' = [regs EXCEPT ![c] =
       [f \in Fields |-> IF params[c][f] = Unset THEN regs[c][f] ELSE params[c][f]]]
  /\ Goto(c, "write")
  /\ UNCHANGED <<class, hw, params, threw, asked, changed>>
EncodeDropsCommands(c) ==
  /\ pc[c] = "encode"
  /\ LET bad == {f \in Fields : params[c][f] = TooLarge}
     IN  /\ regs' = [regs EXCEPT ![c] = Encoded(c)]
         /\ threw' = [threw EXCEPT ![c] = bad # {}]
         /\ Goto(c, IF bad = {} THEN "write" ELSE "idle")
  /\ params' = [params EXCEPT ![c] =
       [f \in Fields |-> IF f \in Commands THEN Default ELSE @[f]]]
  /\ UNCHANGED <<class, hw, asked, changed>>
\* encode_params.  It throws at the first value that does not fit; the fields before
\* that are in the registers, and those after it, in an order that is the class's own.
Encode(c) ==
  /\ pc[c] = "encode"
  /\ LET bad == {f \in Fields : params[c][f] = TooLarge}
     IN  IF bad = {}
           THEN /\ regs' = [regs EXCEPT ![c] = Encoded(c)]
                /\ Goto(c, "write")
                /\ UNCHANGED threw
           ELSE /\ \E done \in SUBSET (Fields \ bad) :
                     regs' = [regs EXCEPT ![c] =
                       [f \in Fields |-> IF f \in done THEN Encoded(c)[f] ELSE regs[c][f]]]
                /\ Goto(c, "idle")
                /\ threw' = [threw EXCEPT ![c] = TRUE]
  /\ UNCHANGED <<class, hw, params, asked, changed>>

\* The core's fields become these by a write of c's.
CoreWritten(c, fields) ==
  /\ hw' = fields
  /\ changed' = [d \in Controllers |->
       IF d = c \/ pc[d] = "idle" THEN {}
         ELSE changed[d] \cup {f \in Fields \ Commands : fields[f] # hw[f]}]

\* bar4_write_v, and the commands' reset that follows it in write_params.
ResetNothing(p) == p
ResetCommands(p) == [f \in Fields |-> IF f \in Commands THEN Default ELSE p[f]]
Write(c) ==
  /\ pc[c] = "write"
  /\ CoreWritten(c, regs[c])
  /\ params' = [params EXCEPT ![c] = ResetCommands(@)]
  /\ asked' = [asked EXCEPT ![c] = {}]
  /\ Goto(c, IF class.applied = {} THEN "idle" ELSE "apply")
  /\ UNCHANGED <<class, regs, threw>>

\* The second write of fofb_cc, which makes the core use what the first has written.
Apply(c) ==
  /\ pc[c] = "apply"
  /\ CoreWritten(c, [f \in Fields |-> IF f \in class.applied THEN regs[c][f] ELSE hw[f]])
  /\ Goto(c, "idle")
  /\ UNCHANGED <<class, params, regs, threw, asked>>

\* The core does what it was told, before anything else is read from it.
CoreObeys ==
  /\ \E f \in Commands : hw[f] = 1
  /\ hw' = [f \in Fields |-> IF f \in Commands THEN 0 ELSE hw[f]]
  /\ UNCHANGED <<class, params, regs, pc, threw, asked, changed>>

Obeyed == \A f \in Commands : hw[f] # 1

Next ==
  \/ CoreObeys
  \/ /\ Obeyed
     /\ \E c \in Controllers :
          \/ \E f \in Fields, v \in Values \cup {TooLarge, Unset} : SetParam(c, f, v)
          \/ Call(c) \/ Read(c) \/ Encode(c) \/ Write(c) \/ Apply(c)

Spec == Init /\ [][Next]_vars

-----------------------------------------------------------------------------
(* Properties.                                                             *)
\* The types of the state: no value that an encode_params refuses gets into registers.
TypeOK ==
  /\ class \in Classes
  /\ hw \in [Fields -> Values]
  /\ params \in [Controllers -> [Fields -> Values \cup {TooLarge} \cup None]]
  /\ regs \in [Controllers -> [Fields -> Values]]
  /\ pc \in [Controllers -> {"idle", "read", "encode", "write", "apply"}]
  /\ threw \in [Controllers -> BOOLEAN]
  /\ asked \in [Controllers -> SUBSET Commands]
  /\ changed \in [Controllers -> SUBSET (Fields \ Commands)]

\* The block gives a command to the core once for each time that it was set ("reset these
\* strobe values", trigger_iface.cc), not again by the next write_params, of whatever
\* controller; one whose write_params threw is given by the next that does not.
CommandsOnce ==
  [][\A c \in Controllers :
       pc[c] = "write" /\ pc'[c] # "write" =>
         \A f \in Commands : hw'[f] = 1 <=> f \in asked[c]]_vars

\* write_params writes what was set, which stays set, and changes nothing else, even when
\* another controller has written to the core since this one's last call.  Of calls that
\* overlap, one may undo what the other has changed since its own read, and no more.
OnlySetChanges ==
  [][\A c \in Controllers :
       pc[c] \in {"write", "apply"} /\ pc'[c] # pc[c] =>
         \A f \in Fields \ Commands :
           LET set == pc[c] = "write" /\ params[c][f] # Unset
           IN  /\ set => hw'[f] = params[c][f]
               /\ ~ set /\ hw'[f] # hw[f] => f \in changed[c]
               /\ params'[c][f] = params[c][f]]_vars

\* A write_params that throws has written nothing, and keeps its commands.
ThrewUnwritten ==
  [][\A c \in Controllers :
       ~ threw[c] /\ threw'[c] =>
         hw' = hw /\ \A f \in asked[c] : params'[c][f] = 1]_vars
=============================================================================
