------------------------------ MODULE SdbSearch ------------------------------
(***************************************************************************)
(* read_sdb (util/sdb.cc): a client asks for the device at a position      *)
(* among those that a function matches.  For a decoder it compares the     *)
(* identification of a core (RegisterDecoderBase::match_devinfo); those of *)
(* ad9510::Controller and isla216p::Controller are looking for an SPI core *)
(* by its place after another core, and remember what they have seen.      *)
(*                                                                         *)
(* The records come from libsdbfs in the order of its traversal, each of   *)
(* them by reads of BAR4; a step looks at one.                             *)
(***************************************************************************)
EXTENDS Integers, Sequences, FiniteSets

CONSTANTS
  Boards,      \* sequences of records: kinds of cores, or "other" records
  Positions    \* positions that clients ask for

\* The functions that a search is made with: a core's, or one with a memory.
Cores == {"fac", "f250", "spi", "core"}
Chips == {"ad9510", "isla216p"}

VARIABLES
  sdb,      \* the board's records
  memory,   \* cores that each of the two has seen and still remembers
  search,   \* what is looked for, and the position that was asked for
  i,        \* the record that the search has come to
  pos,      \* matches that it still passes over
  result    \* index of the record found, 0 for std::nullopt; -1 while it searches

vars == <<sdb, memory, search, i, pos, result>>

NotFound == 0
Searching == -1

Init ==
  /\ sdb \in Boards
  /\ memory = [c \in Chips |-> {}]
  /\ search = [for |-> "core", at |-> 0]
  /\ i = 1
  /\ pos = 0
  /\ result = NotFound

\* The definitions named after a slip are mutants.
Begin(what, at) ==
  /\ result # Searching
  /\ search' = [for |-> what, at |-> at]
  /\ i' = 1
  /\ pos' = at
  /\ result' = Searching
  /\ UNCHANGED <<sdb, memory>>

\* What each function does with a record: whether it matches, and what it then
\* remembers.
Ad9510Remembers(seen, kind) ==
  CASE kind = "fac" -> [matches |-> FALSE, seen |-> {"fac"}]
    [] kind = "spi" /\ "fac" \in seen -> [matches |-> TRUE, seen |-> seen]
    [] OTHER -> [matches |-> FALSE, seen |-> seen]
Ad9510(seen, kind) ==
  CASE kind = "fac" -> [matches |-> FALSE, seen |-> {"fac"}]
    [] kind = "spi" /\ "fac" \in seen -> [matches |-> TRUE, seen |-> {}]
    [] OTHER -> [matches |-> FALSE, seen |-> seen]

Isla216pSecond(seen, kind) ==
  CASE kind = "spi" /\ {"f250", "first"} \subseteq seen -> [matches |-> TRUE, seen |-> {}]
    [] kind = "spi" /\ "f250" \in seen -> [matches |-> FALSE, seen |-> seen \cup {"first"}]
    [] kind = "f250" -> [matches |-> FALSE, seen |-> seen \cup {"f250"}]
    [] OTHER -> [matches |-> FALSE, seen |-> seen]
Isla216p(seen, kind) ==
  CASE kind = "spi" /\ {"f250", "first", "second"} \subseteq seen ->
         [matches |-> TRUE, seen |-> {}]
    [] kind = "spi" /\ "f250" \in seen /\ ~ {"first", "second"} \subseteq seen ->
         [matches |-> FALSE,
          seen |-> seen \cup {IF "first" \in seen THEN "second" ELSE "first"}]
    [] kind = "f250" -> [matches |-> FALSE, seen |-> seen \cup {"f250"}]
    [] OTHER -> [matches |-> FALSE, seen |-> seen]

Match(what, kind) ==
  CASE what = "ad9510" -> Ad9510(memory["ad9510"], kind)
    [] what = "isla216p" -> Isla216p(memory["isla216p"], kind)
    [] OTHER -> [matches |-> kind = what, seen |-> {}]

\* sdbfs_scan returns a record; all but devices are passed over.
Scan ==
  /\ result = Searching
  /\ i <= Len(sdb)
  /\ LET m == Match(search.for, sdb[i])
         found == sdb[i] # "other" /\ m.matches
     IN  /\ memory' = IF sdb[i] # "other" /\ search.for \in Chips
                        THEN [memory EXCEPT ![search.for] = m.seen] ELSE memory
         /\ IF found /\ pos = 0 THEN result' = i /\ UNCHANGED <<i, pos>>
            ELSE /\ i' = i + 1
                 /\ pos' = IF found THEN pos - 1 ELSE pos
                 /\ UNCHANGED result
  /\ UNCHANGED <<sdb, search>>

\* sdbfs_scan has no record any more.
End ==
  /\ result = Searching
  /\ i > Len(sdb)
  /\ result' = NotFound
  /\ UNCHANGED <<sdb, memory, search, i, pos>>

Next ==
  \/ \E what \in Cores \cup Chips, at \in Positions : Begin(what, at)
  \/ Scan \/ End

Spec == Init /\ [][Next]_vars

-----------------------------------------------------------------------------
(* Properties.                                                             *)

\* The records that a client means by a name: "the SPI core after an FMC_ACTIVE_CLK
\* core" (ad9510.cc) and "the third SPI core after an FMC250M_4CH core"
\* (isla216p.cc).
SpisBetween(j, k) == {n \in j+1 .. k-1 : sdb[n] = "spi"}
Meant(what) ==
  CASE what = "ad9510" ->
         {k \in DOMAIN sdb : sdb[k] = "spi" /\
            \E j \in 1 .. k-1 : sdb[j] = "fac" /\ SpisBetween(j, k) = {}}
    [] what = "isla216p" ->
         {k \in DOMAIN sdb : sdb[k] = "spi" /\
            \E j \in 1 .. k-1 : sdb[j] = "f250" /\ Cardinality(SpisBetween(j, k)) = 2}
    [] OTHER -> {k \in DOMAIN sdb : sdb[k] = what}

\* A search finds the record at its position "in depth-first traversal" (design.md)
\* among those that the client means, whatever was searched for before with the same
\* controller and however that ended; one that finds nothing has been asked for more
\* than there are.
SearchRight ==
  [][result = Searching /\ result' # Searching =>
       IF result' = NotFound
         THEN Cardinality(Meant(search.for)) <= search.at
         ELSE /\ result' \in Meant(search.for)
              /\ Cardinality({k \in Meant(search.for) : k < result'}) = search.at]_vars
==============================================================================
