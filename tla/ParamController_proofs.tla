----------------------- MODULE ParamController_proofs -----------------------
(* Proofs about ParamController, for every set of controllers, fields and  *)
(* values and every class.                                                 *)
EXTENDS ParamController, TLAPS

-----------------------------------------------------------------------------
(* The inductive invariant.                                                *)

\* The parameter of a command says whether it has been asked for.
AskedInv ==
  \A c \in Controllers, f \in Commands :
    /\ params[c][f] \in {0, 1} \cup None
    /\ f \in asked[c] <=> params[c][f] = 1

\* A class that reads the core first encodes into what it has read, with no command in it:
\* the core still has it, but for what others have changed.
ReadInv ==
  \A c \in Controllers :
    /\ pc[c] = "read" => class.reads
    /\ pc[c] = "encode" /\ class.reads =>
         /\ \A f \in Commands : regs[c][f] # 1
         /\ \A f \in Fields \ Commands : regs[c][f] = hw[f] \/ f \in changed[c]

\* What write_params is about to write.
EncodedFor(c, f) ==
  /\ params[c][f] # TooLarge
  /\ params[c][f] # Unset => regs[c][f] = params[c][f]
  /\ params[c][f] = Unset =>
       IF f \in Commands THEN regs[c][f] # 1 ELSE regs[c][f] = hw[f] \/ f \in changed[c]
EncodedInv == \A c \in Controllers, f \in Fields : pc[c] = "write" => EncodedFor(c, f)

\* What fofb_cc is about to write once more.
AppliedInv ==
  \A c \in Controllers, f \in Fields \ Commands :
    pc[c] = "apply" => regs[c][f] = hw[f] \/ f \in changed[c]

IInv == TypeOK /\ AskedInv /\ ReadInv /\ EncodedInv /\ AppliedInv

-----------------------------------------------------------------------------
\* What a parameter may be.
LEMMA NoneFacts ==
  /\ None = IF class.reads THEN {Unset} ELSE {}
  /\ Default = IF class.reads THEN Unset ELSE 0
  /\ Unset \notin Values /\ Unset # TooLarge /\ TooLarge \notin Values
  /\ 0 \in Values /\ 1 \in Values /\ Unset # 1 /\ Unset # 0
  /\ class.reads => Default \in None
  /\ ~ class.reads => Default = 0
BY ParamAssumption DEF None, Default

LEMMA CommandsAreFields == Commands \subseteq Fields
BY ParamAssumption

LEMMA InitInv == Init => IInv
<1> SUFFICES ASSUME Init PROVE IInv
  OBVIOUS
<1> USE NoneFacts, CommandsAreFields
<1>1. TypeOK
  BY DEF Init, TypeOK
<1>2. AskedInv
  BY DEF Init, AskedInv
<1>3. ReadInv /\ EncodedInv /\ AppliedInv
  BY DEF Init, ReadInv, EncodedInv, AppliedInv
<1>4. QED
  BY <1>1, <1>2, <1>3 DEF IInv

-----------------------------------------------------------------------------
(* Each step keeps the invariant.                                          *)

LEMMA SetInv ==
  ASSUME IInv, NEW c \in Controllers, NEW f \in Fields,
         NEW v \in Values \cup {TooLarge, Unset}, SetParam(c, f, v)
  PROVE  IInv'
<1> USE NoneFacts, CommandsAreFields
<1>0. class' = class /\ None' = None
  BY DEF SetParam, None
<1>1. v \in Values \cup {TooLarge} \cup None
  BY DEF SetParam
<1>2. TypeOK'
  BY <1>0, <1>1 DEF SetParam, IInv, TypeOK
<1>3. AskedInv'
  <2> SUFFICES ASSUME NEW d \in Controllers, NEW g \in Commands
      PROVE  params'[d][g] \in {0, 1} \cup None /\ (g \in asked'[d] <=> params'[d][g] = 1)
    BY <1>0 DEF AskedInv
  <2>1. CASE d = c /\ g = f
    <3>1. params'[d][g] = v /\ v \in {0, 1} \cup None
      BY <2>1 DEF SetParam, IInv, TypeOK
    <3>2. asked'[d] = IF v = 1 THEN asked[c] \cup {g} ELSE asked[c] \ {g}
      BY <2>1 DEF SetParam, IInv, TypeOK
    <3>3. QED
      BY <3>1, <3>2
  <2>2. CASE ~ (d = c /\ g = f)
    <3>1. params'[d][g] = params[d][g]
      BY <2>2 DEF SetParam, IInv, TypeOK
    <3>2. g \in asked'[d] <=> g \in asked[d]
      BY <2>2 DEF SetParam, IInv, TypeOK
    <3>3. QED
      BY <3>1, <3>2 DEF IInv, AskedInv
  <2>3. QED
    BY <2>1, <2>2
<1>4. ReadInv' /\ AppliedInv'
  BY DEF SetParam, IInv, ReadInv, AppliedInv
<1>5. EncodedInv'
  <2> SUFFICES ASSUME NEW d \in Controllers, NEW g \in Fields, pc'[d] = "write"
      PROVE  EncodedFor(d, g)'
    BY DEF EncodedInv, EncodedFor
  <2>1. /\ d # c /\ params'[d] = params[d]
        /\ UNCHANGED <<regs, hw, pc, changed>>
    BY DEF SetParam, IInv, TypeOK
  <2>2. QED
    BY <2>1 DEF IInv, EncodedInv, EncodedFor
<1>6. QED
  BY <1>2, <1>3, <1>4, <1>5 DEF IInv

LEMMA CallInv == ASSUME IInv, NEW c \in Controllers, Call(c) PROVE IInv'
<1>1. TypeOK'
  BY DEF Call, Goto, IInv, TypeOK, None
<1>2. ReadInv' /\ EncodedInv' /\ AppliedInv'
  BY DEF Call, Goto, IInv, TypeOK, ReadInv, EncodedInv, EncodedFor, AppliedInv
<1>3. AskedInv'
  BY DEF Call, IInv, AskedInv, None
<1>4. QED
  BY <1>1, <1>2, <1>3 DEF IInv

\* The core is read when it has obeyed the commands that it was given.
LEMMA ReadStep == ASSUME IInv, NEW c \in Controllers, Obeyed, Read(c) PROVE IInv'
<1>1. TypeOK'
  BY DEF Read, Goto, IInv, TypeOK, None
<1>2. ReadInv' /\ EncodedInv' /\ AppliedInv'
  BY CommandsAreFields
     DEF Read, Goto, IInv, TypeOK, ReadInv, EncodedInv, EncodedFor, AppliedInv, Obeyed
<1>3. AskedInv'
  BY DEF Read, IInv, AskedInv, None
<1>4. QED
  BY <1>1, <1>2, <1>3 DEF IInv

LEMMA EncodeInv == ASSUME IInv, NEW c \in Controllers, Encode(c) PROVE IInv'
<1> USE NoneFacts
<1>0. UNCHANGED <<class, hw, params, asked, changed>>
  BY DEF Encode
<1>1. Encoded(c) \in [Fields -> Values]
  BY DEF Encoded, Taken, IInv, TypeOK
<1>2. TypeOK'
  <2>1. regs' \in [Controllers -> [Fields -> Values]]
    <3>1. regs \in [Controllers -> [Fields -> Values]]
      BY DEF IInv, TypeOK
    <3>2. PICK r \in [Fields -> Values] : regs' = [regs EXCEPT ![c] = r]
      <4>1. CASE {f \in Fields : params[c][f] = TooLarge} = {}
        BY <1>1, <4>1 DEF Encode
      <4>2. CASE {f \in Fields : params[c][f] = TooLarge} # {}
        <5>1. PICK done \in SUBSET Fields :
                regs' = [regs EXCEPT ![c] =
                  [f \in Fields |-> IF f \in done THEN Encoded(c)[f] ELSE regs[c][f]]]
          BY <4>2 DEF Encode
        <5>2. [f \in Fields |-> IF f \in done THEN Encoded(c)[f] ELSE regs[c][f]]
                \in [Fields -> Values]
          BY <1>1, <3>1
        <5>3. QED
          BY <5>1, <5>2
      <4>3. QED
        BY <4>1, <4>2
    <3>3. QED
      BY <3>1, <3>2
  <2>2. pc' \in [Controllers -> {"idle", "read", "encode", "write", "apply"}]
    BY DEF Encode, Goto, IInv, TypeOK
  <2>3. threw' \in [Controllers -> BOOLEAN]
    BY DEF Encode, IInv, TypeOK
  <2>4. QED
    BY <1>0, <2>1, <2>2, <2>3 DEF IInv, TypeOK, None
<1>3. AskedInv'
  BY <1>0 DEF IInv, AskedInv, None
<1>4. pc[c] = "encode" /\ pc'[c] \in {"write", "idle"}
      /\ \A d \in Controllers \ {c} : pc'[d] = pc[d] /\ regs'[d] = regs[d]
  BY DEF Encode, Goto, IInv, TypeOK
<1>5. ReadInv' /\ AppliedInv'
  BY <1>0, <1>4 DEF IInv, ReadInv, AppliedInv
<1>6. EncodedInv'
  <2> SUFFICES ASSUME NEW d \in Controllers, NEW f \in Fields, pc'[d] = "write"
      PROVE  EncodedFor(d, f)'
    BY <1>0 DEF EncodedInv
  <2>1. CASE d # c
    BY <1>0, <1>4, <2>1 DEF IInv, EncodedInv, EncodedFor
  <2>2. CASE d = c
    <3>1. {g \in Fields : params[c][g] = TooLarge} = {} /\ regs'[c] = Encoded(c)
      BY <1>4, <2>2 DEF Encode, Goto, IInv, TypeOK
    <3>2. params[c][f] \in Values \cup None
      BY <3>1 DEF IInv, TypeOK
    <3>3. CASE params[c][f] \in Values
      BY <1>0, <2>2, <3>1, <3>3 DEF Encoded, Taken, EncodedFor
    <3>4. CASE params[c][f] = Unset
      <4>1. class.reads
        BY <3>2, <3>4
      <4>2. IF f \in Commands THEN regs[c][f] # 1 ELSE regs[c][f] = hw[f] \/ f \in changed[c]
        BY <4>1, <1>4 DEF IInv, ReadInv
      <4>3. regs'[c][f] = regs[c][f]
        BY <3>1, <3>4 DEF Encoded, Taken
      <4>4. QED
        BY <1>0, <2>2, <3>4, <4>2, <4>3 DEF EncodedFor
    <3>5. QED
      BY <3>2, <3>3, <3>4
  <2>3. QED
    BY <2>1, <2>2
<1>7. QED
  BY <1>2, <1>3, <1>5, <1>6 DEF IInv

\* A write to the core by one controller, and the invariant of the others.
OthersInv(c) ==
  \A d \in Controllers \ {c} :
    /\ pc[d] = "read" => class.reads
    /\ pc[d] = "encode" /\ class.reads =>
         /\ \A f \in Commands : regs[d][f] # 1
         /\ \A f \in Fields \ Commands : regs[d][f] = hw[f] \/ f \in changed[d]
    /\ \A f \in Fields : pc[d] = "write" => EncodedFor(d, f)
    /\ \A f \in Fields \ Commands : pc[d] = "apply" => regs[d][f] = hw[f] \/ f \in changed[d]

LEMMA WrittenFacts ==
  ASSUME TypeOK, NEW c \in Controllers, NEW fields \in [Fields -> Values],
         CoreWritten(c, fields)
  PROVE  hw' \in [Fields -> Values] /\ changed' \in [Controllers -> SUBSET (Fields \ Commands)]
BY DEF CoreWritten, TypeOK

LEMMA WrittenOthers ==
  ASSUME IInv, NEW c \in Controllers, NEW fields \in [Fields -> Values],
         CoreWritten(c, fields), UNCHANGED <<class, regs>>,
         \A d \in Controllers \ {c} : pc'[d] = pc[d] /\ params'[d] = params[d]
  PROVE  OthersInv(c)'
<1> SUFFICES ASSUME NEW d \in Controllers \ {c}, pc[d] # "idle"
    PROVE  /\ pc[d] = "read" => class.reads
           /\ pc[d] = "encode" /\ class.reads =>
                /\ \A f \in Commands : regs[d][f] # 1
                /\ \A f \in Fields \ Commands : regs[d][f] = hw'[f] \/ f \in changed'[d]
           /\ \A f \in Fields : pc[d] = "write" => EncodedFor(d, f)'
           /\ \A f \in Fields \ Commands :
                pc[d] = "apply" => regs[d][f] = hw'[f] \/ f \in changed'[d]
  BY DEF OthersInv
<1>1. \A f \in Fields \ Commands : (regs[d][f] = hw[f] \/ f \in changed[d]) =>
        (regs[d][f] = hw'[f] \/ f \in changed'[d])
  BY DEF CoreWritten
<1>2. ASSUME NEW f \in Fields, pc[d] = "write" PROVE EncodedFor(d, f)'
  BY <1>1, <1>2 DEF IInv, EncodedInv, EncodedFor
<1>3. QED
  BY <1>1, <1>2 DEF IInv, ReadInv, AppliedInv

LEMMA WriteInv == ASSUME IInv, NEW c \in Controllers, Write(c) PROVE IInv'
<1> USE NoneFacts, CommandsAreFields
<1>0. class' = class /\ None' = None /\ regs' = regs
  BY DEF Write, None
<1>1. ResetCommands(params[c]) \in [Fields -> Values \cup {TooLarge} \cup None]
  BY DEF ResetCommands, IInv, TypeOK
<1>2. /\ params' = [params EXCEPT ![c] = ResetCommands(params[c])]
      /\ asked' = [asked EXCEPT ![c] = {}]
      /\ CoreWritten(c, regs[c]) /\ regs[c] \in [Fields -> Values]
  BY DEF Write, IInv, TypeOK
<1>3. TypeOK'
  <2>1. hw' \in [Fields -> Values] /\ changed' \in [Controllers -> SUBSET (Fields \ Commands)]
    BY <1>2, WrittenFacts DEF IInv
  <2>2. params' \in [Controllers -> [Fields -> Values \cup {TooLarge} \cup None]]
    BY <1>1, <1>2 DEF IInv, TypeOK
  <2>3. /\ pc' \in [Controllers -> {"idle", "read", "encode", "write", "apply"}]
        /\ asked' \in [Controllers -> SUBSET Commands]
    BY <1>2 DEF Write, Goto, IInv, TypeOK
  <2>4. threw' = threw
    BY DEF Write
  <2>5. QED
    BY <1>0, <2>1, <2>2, <2>3, <2>4 DEF IInv, TypeOK
<1>4. AskedInv'
  <2> SUFFICES ASSUME NEW d \in Controllers, NEW g \in Commands
      PROVE  params'[d][g] \in {0, 1} \cup None /\ (g \in asked'[d] <=> params'[d][g] = 1)
    BY <1>0 DEF AskedInv
  <2>1. CASE d = c
    <3>1. asked'[d] = {} /\ params'[d][g] = Default
      BY <2>1, <1>2 DEF ResetCommands, IInv, TypeOK
    <3>2. Default \in {0} \cup None /\ Default # 1
      OBVIOUS
    <3>3. QED
      BY <3>1, <3>2
  <2>2. CASE d # c
    BY <2>2, <1>2 DEF IInv, AskedInv, TypeOK
  <2>3. QED
    BY <2>1, <2>2
<1>5. /\ pc'[c] \in {"idle", "apply"}
      /\ \A d \in Controllers \ {c} : pc'[d] = pc[d] /\ params'[d] = params[d]
  BY <1>2 DEF Write, Goto, IInv, TypeOK
<1>6. \A f \in Fields : regs'[c][f] = hw'[f]
  BY <1>0, <1>2 DEF CoreWritten
<1>7. ReadInv' /\ EncodedInv' /\ AppliedInv'
  <2>1. OthersInv(c)'
    BY <1>0, <1>2, <1>5, WrittenOthers
  <2>2. QED
    BY <2>1, <1>5, <1>6 DEF OthersInv, ReadInv, EncodedInv, AppliedInv
<1>8. QED
  BY <1>3, <1>4, <1>7 DEF IInv

LEMMA ApplyInv == ASSUME IInv, NEW c \in Controllers, Apply(c) PROVE IInv'
<1> DEFINE Fresh == [f \in Fields |-> IF f \in class.applied THEN regs[c][f] ELSE hw[f]]
<1>1. /\ UNCHANGED <<class, params, regs, threw, asked>>
      /\ CoreWritten(c, Fresh) /\ Fresh \in [Fields -> Values]
      /\ pc' = [pc EXCEPT ![c] = "idle"]
  BY DEF Apply, Goto, IInv, TypeOK
<1>2. TypeOK'
  <2>1. hw' \in [Fields -> Values] /\ changed' \in [Controllers -> SUBSET (Fields \ Commands)]
    BY <1>1, WrittenFacts DEF IInv
  <2>2. QED
    BY <1>1, <2>1 DEF IInv, TypeOK, None
<1>3. ReadInv' /\ EncodedInv' /\ AppliedInv'
  <2>1. pc'[c] = "idle" /\ \A d \in Controllers \ {c} : pc'[d] = pc[d] /\ params'[d] = params[d]
    BY <1>1 DEF IInv, TypeOK
  <2>2. OthersInv(c)'
    BY <1>1, <2>1, WrittenOthers
  <2>3. QED
    BY <2>1, <2>2 DEF OthersInv, ReadInv, EncodedInv, AppliedInv
<1>4. AskedInv'
  BY <1>1 DEF IInv, AskedInv, None
<1>5. QED
  BY <1>2, <1>3, <1>4 DEF IInv

\* The core obeys while controllers are between the steps of their calls; it changes none
\* but commands, which no controller has from the core in its registers.
LEMMA ObeyInv == IInv /\ CoreObeys => IInv'
<1> SUFFICES ASSUME IInv, CoreObeys PROVE IInv'
  OBVIOUS
<1> USE NoneFacts, CommandsAreFields
<1>0. /\ UNCHANGED <<class, params, regs, pc, threw, asked, changed>> /\ None' = None
      /\ \A f \in Fields : f \notin Commands => hw'[f] = hw[f]
      /\ hw' \in [Fields -> Values]
      /\ ~ Obeyed
  BY DEF CoreObeys, None, Obeyed, IInv, TypeOK
<1>1. TypeOK'
  BY <1>0 DEF IInv, TypeOK
<1>2. AskedInv'
  BY <1>0 DEF IInv, AskedInv
<1>3. ReadInv' /\ AppliedInv'
  BY <1>0 DEF IInv, ReadInv, AppliedInv
<1>4. EncodedInv'
  BY <1>0 DEF IInv, EncodedInv, EncodedFor
<1>5. QED
  BY <1>1, <1>2, <1>3, <1>4 DEF IInv

LEMMA StepInv == IInv /\ [Next]_vars => IInv'
<1> SUFFICES ASSUME IInv, [Next]_vars PROVE IInv'
  OBVIOUS
<1>1. CASE CoreObeys
  BY <1>1, ObeyInv
<1>2. ASSUME NEW c \in Controllers, NEW f \in Fields, NEW v \in Values \cup {TooLarge, Unset},
             SetParam(c, f, v)
      PROVE  IInv'
  BY <1>2, SetInv
<1>3. ASSUME Obeyed, NEW c \in Controllers,
             Call(c) \/ Read(c) \/ Encode(c) \/ Write(c) \/ Apply(c)
      PROVE  IInv'
  BY <1>3, CallInv, ReadStep, EncodeInv, WriteInv, ApplyInv
<1>4. CASE UNCHANGED vars
  BY <1>4 DEF vars, IInv, TypeOK, AskedInv, ReadInv, EncodedInv, EncodedFor, AppliedInv, None
<1>5. QED
  BY <1>1, <1>2, <1>3, <1>4 DEF Next

\* The invariant holds in every reachable state.
THEOREM Invariance == Spec => []IInv
BY InitInv, StepInv, PTL DEF Spec

-----------------------------------------------------------------------------
(* The theorems.                                                           *)

\* The state keeps its types: no value that an encode_params refuses gets into registers.
THEOREM TypeCorrect == Spec => []TypeOK
<1>1. IInv => TypeOK
  BY DEF IInv
<1>2. QED
  BY <1>1, Invariance, PTL

\* The step of a write_params that leaves "write" is Write of that controller, and the one
\* that leaves "apply" Apply.
LEMMA LeavesWrite ==
  ASSUME IInv, Next, NEW c \in Controllers, pc[c] \in {"write", "apply"}, pc'[c] # pc[c]
  PROVE  IF pc[c] = "write" THEN Write(c) ELSE Apply(c)
<1>1. pc \in [Controllers -> {"idle", "read", "encode", "write", "apply"}]
  BY DEF IInv, TypeOK
<1>2. ~ CoreObeys
  BY DEF CoreObeys
<1>3. ASSUME NEW d \in Controllers, NEW f \in Fields, NEW v \in Values \cup {TooLarge, Unset},
             SetParam(d, f, v)
      PROVE  FALSE
  BY <1>3 DEF SetParam
<1>4. ASSUME NEW d \in Controllers, Call(d) \/ Read(d) \/ Encode(d)
      PROVE  FALSE
  BY <1>1, <1>4 DEF Call, Read, Encode, Goto
<1>5. ASSUME NEW d \in Controllers, Write(d) PROVE d = c /\ pc[c] = "write"
  BY <1>1, <1>5 DEF Write, Goto
<1>6. ASSUME NEW d \in Controllers, Apply(d) PROVE d = c /\ pc[c] = "apply"
  BY <1>1, <1>6 DEF Apply, Goto
<1>7. QED
  BY <1>2, <1>3, <1>4, <1>5, <1>6 DEF Next

\* write_params gives the core the commands that its client has set since the last write,
\* each of them once, and no others.
THEOREM Once == Spec => CommandsOnce
<1> DEFINE A == \A c \in Controllers :
                  pc[c] = "write" /\ pc'[c] # "write" =>
                    \A f \in Commands : hw'[f] = 1 <=> f \in asked[c]
<1>1. IInv /\ [Next]_vars => [A]_vars
  <2> SUFFICES ASSUME IInv, Next, NEW c \in Controllers, pc[c] = "write", pc'[c] # "write",
                      NEW f \in Commands
      PROVE  hw'[f] = 1 <=> f \in asked[c]
    OBVIOUS
  <2>1. hw'[f] = regs[c][f]
    BY LeavesWrite DEF Write, CoreWritten
  <2>2. EncodedFor(c, f)
    BY CommandsAreFields DEF IInv, EncodedInv
  <2>3. f \in asked[c] <=> params[c][f] = 1
    BY DEF IInv, AskedInv
  <2>4. QED
    BY <2>1, <2>2, <2>3, NoneFacts DEF EncodedFor
<1>2. QED
  BY <1>1, Invariance, PTL DEF Spec, CommandsOnce

\* write_params writes what its client has set and changes nothing else, whatever other
\* controllers have written to the core; calls that overlap undo what was changed since
\* their reads, and no more.
THEOREM OnlySet == Spec => OnlySetChanges
<1> DEFINE IsSet(c, f) == pc[c] = "write" /\ params[c][f] # Unset
           A == \A c \in Controllers :
                  pc[c] \in {"write", "apply"} /\ pc'[c] # pc[c] =>
                    \A f \in Fields \ Commands :
                      /\ IsSet(c, f) => hw'[f] = params[c][f]
                      /\ ~ IsSet(c, f) /\ hw'[f] # hw[f] => f \in changed[c]
                      /\ params'[c][f] = params[c][f]
<1>1. IInv /\ [Next]_vars => [A]_vars
  <2> SUFFICES ASSUME IInv, Next, NEW c \in Controllers, pc[c] \in {"write", "apply"},
                      pc'[c] # pc[c], NEW f \in Fields \ Commands
      PROVE  /\ IsSet(c, f) => hw'[f] = params[c][f]
             /\ ~ IsSet(c, f) /\ hw'[f] # hw[f] => f \in changed[c]
             /\ params'[c][f] = params[c][f]
    OBVIOUS
  <2>1. CASE pc[c] = "write"
    <3>1. Write(c)
      BY <2>1, LeavesWrite
    <3>2. hw'[f] = regs[c][f] /\ params'[c][f] = params[c][f]
      BY <3>1 DEF Write, CoreWritten, ResetCommands, IInv, TypeOK
    <3>3. EncodedFor(c, f)
      BY <2>1 DEF IInv, EncodedInv
    <3>4. QED
      BY <2>1, <3>2, <3>3 DEF EncodedFor
  <2>2. CASE pc[c] = "apply"
    <3>1. Apply(c)
      BY <2>2, LeavesWrite
    <3>2. hw'[f] \in {regs[c][f], hw[f]} /\ params'[c][f] = params[c][f]
      BY <3>1 DEF Apply, CoreWritten
    <3>3. regs[c][f] = hw[f] \/ f \in changed[c]
      BY <2>2 DEF IInv, AppliedInv
    <3>4. QED
      BY <2>2, <3>2, <3>3
  <2>3. QED
    BY <2>1, <2>2
<1>2. QED
  BY <1>1, Invariance, PTL DEF Spec, OnlySetChanges

\* A write_params that throws has written nothing to the core, and the commands that it
\* was to give are given by the next that does not throw.
THEOREM ThrowsUnwritten == Spec => ThrewUnwritten
<1> DEFINE A == \A c \in Controllers :
                  ~ threw[c] /\ threw'[c] =>
                    hw' = hw /\ \A f \in asked[c] : params'[c][f] = 1
<1>1. IInv /\ [Next]_vars => [A]_vars
  <2> SUFFICES ASSUME IInv, Next, NEW c \in Controllers, ~ threw[c], threw'[c]
      PROVE  hw' = hw /\ \A f \in asked[c] : params'[c][f] = 1
    OBVIOUS
  <2>1. PICK d \in Controllers : Call(d) \/ Encode(d)
    BY DEF Next, CoreObeys, SetParam, Read, Write, Apply
  <2>2. hw' = hw /\ params' = params
    BY <2>1 DEF Call, Encode
  <2>3. asked[c] \subseteq Commands
    BY DEF IInv, TypeOK
  <2>4. QED
    BY <2>2, <2>3 DEF IInv, AskedInv
<1>2. QED
  BY <1>1, Invariance, PTL DEF Spec, ThrewUnwritten
=============================================================================
