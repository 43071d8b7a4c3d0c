# A specification of uhal in TLA+

uhal is a C++ library (with C at the bottom) for the PCIe boards of the LNLS
accelerator: it maps a board's BARs, finds the gateware's cores in its SDB table, reads and
decodes their registers, writes their parameters, and acquires data from their RAM. This
directory has a specification of its control logic, the configurations with which TLC
checks it on small instances, and theorems with proofs for TLAPS.

Contents: [the system](#the-system), [modules](#modules),
[runs](#runs-what-they-check-and-their-bounds), [fairness](#fairness), [proofs](#proofs),
[disagreements found](#disagreements-found), [not modelled](#what-is-not-modelled),
[plan](#plan), [how to run](#how-to-run-it).

## The system

| Component | State it keeps | Operations | What is hard about it | What makes it correct |
|---|---|---|---|---|
| BAR4 accesses (`util/pcie.c`) | page register in BAR0, `last_bar4_page`, a recursive mutex | `bar4_read`, `bar4_write`, `bar4_read_v`, `bar4_write_v` | the page is global to the board, cached, and written only when it changes; threads share it | an access hits the word its caller named; a vector access is atomic |
| BAR2 accesses (`util/pcie.c`) | another page register, a mutex | `bar2_read_v` | segments by page, each with a head, vector blocks and a tail | every word asked for, once, in its place |
| Opening a board (`util/pcie-open.cc`) | files, maps, a lock on BAR0's file, mutexes | `dev_open_slot` → `dev_open`, `dev_close` | several processes; each step can fail; a process can die | users of a file exclude each other; a closed board is free |
| Acquisition (`modules/acq.cc`) | `m_step`, sizes, a copy of the core's registers | `set_devinfo`, `write_params`, `start_acquisition`, `stop_acquisition`, `get_acq_status`, `get_result`, `result` | the core runs by itself; RAM is a circular buffer; the client may reconfigure in the middle | `get_result` gives the samples around the trigger of *this* acquisition |
| Acquisition RAM (`modules/acq.cc`) | a static table of counts | `MemoryAllocator` | objects made, refused and destroyed in any order | ranges do not overlap or leave the RAM |
| Register fields (`util/util-bits.h`, `decoders`, `controllers`) | copy of the registers, map of fields | `set_devinfo`, `write_general`, `write_channel`, `write_params`, `get_data` | bit fields share registers; sign, fixed point; commands | fields are independent values; commands are given once |
| The cores (`modules/*.cc`) | – | `decode`, `encode_params`, `read`, `unset_commands` of each | hundreds of masks; registers whose access has effects | no two fields meet; everything is transferred, nothing harmful is touched |
| Controllers with members (`trigger_mux`, `trigger_iface`, `bpm_swap`, `orbit_intlk`, `sysid`, `fofb_processing`, `fofb_cc`) | public members, copy of registers | `encode_params`, `write_params` | read-modify-write; several controllers of one core; exceptions | what is set, and only that, is written; commands once |
| Oscillator (`modules/si57x_ctrl.cc`, `util/si57x_util.cc`) | copy of registers, decoded status, `fxtal` | `read_startup_regs`, `apply_config`, `set_freq`, `write_params` | polling with a bound, a core that is busy, refusals | nothing is written while busy; `true` means applied; the dividers are the best |
| SPI and its chips (`modules/spi.cc`, `ad9510.cc`, `isla216p.cc`) | the SPI core's registers, the chip's buffers | `write_read_data`, `set_reg`, `get_reg`, `update_parameters`, `set_defaults`, dividers | buffered chip, read-back, byte order, lost writes | an access is one transfer to the right register; `true` means that the chip has all values, in use up to the last update that arrived |
| SDB (`util/sdb.cc`) | what a matcher remembers | `read_sdb` with a position | matchers with a state that outlives a search | the core found is the one meant |
| Serial port (`util/pcie.c`, `util/pcie-open.cc`) | a `FILE`, what the kernel and the line still have | `dev_open_serial`, the four `bar4_*` over text | answers have no number; a process may end in the middle of a request; errors are only printed | a call that prints no error has done what it says |
| Filters (`modules/fofb_shaper_filt.cc`) | copy of the coefficients, number of biquads | `set_devinfo_callback`, `encode_params`, `write_params`, `decode` | several blocks a filter, with gaps; another controller in between | each biquad is one that was asked for, in its place |
| pos_calc's FIFO (`modules/pos_calc.cc`, `app/decode-reg.cc`) | the core's FIFO, the last record read | `fifo_empty`, `get_fifo_amps`, the loops that call them | a read takes a record | every record is printed once |
| Printing, the rest of the programs, templates | – | – | – | see [What is not modelled](#what-is-not-modelled) |

How they interact. Everything goes through `struct pcie_bars`: `read_sdb`, decoders and
controllers call `bar4_*` with absolute addresses, `acq::Controller::get_result` calls
`bar2_read_v`. `RegisterController::write_params` calls the class's `encode_params` and then
`bar4_write_v` with all of its block; `RegisterDecoderController` owns a decoder and uses
the positions that `decode` has recorded. `ad9510` and `isla216p` drive `spi`. The only
concurrency inside of the library is that of threads which share a `pcie_bars` and of
processes which open one board; a controller itself is for one thread. What runs
concurrently with a controller is the hardware it controls: the acquisition core,
the oscillator's core, the SPI core and the clock chip. Nothing is stored on disk, so
there is no recovery after a crash except that the kernel releases what a process had.

`PROJECT.json` lists the hazards of this code with their lines and the properties that are
about them.

## Modules

Actions have the names of the functions they model (`StartAcquisition`,
`UpdateNoWait`, ...); constants and variables have the source's names where there are some. A definition
whose name says what is wrong with it (`StorePage` next to `SelectPageOnce`,
`Head` next to `HeadMisaligned`, `PosCalcShort`, ...) is not part of the model: it is the
plausible slip that the property in question has been tried against.

### The bottom: `RegisterBus`, `Bar4`, `Bar2`, `DeviceOpen`

`RegisterBus` is the abstract specification: a bank of registers, where a call is invoked,
acts at one instant on all of its words, and returns. `Bar4` is the code: `Call`, taking
the mutex once for a scalar access and twice for a word of a vector (`EnterVector`, `EnterWord`), writing
the page register only if the cached page differs (`SelectPage`), the cache
(`StorePage`), the access, the read that flushes a write (`FlushWord`), and unlocking. The mapping
of `Bar4` to `RegisterBus` is at the end of `Bar4`: a write acts with
its first word, a read with its last one, and nobody can see the difference
because the mutex is held in between.

`SerialPort` is the other half of `bar4_*`: when the board is behind a serial port, an access
is a line of text and its answer. The board's firmware, the line and the kernel's buffer are
queues; a process may end, or lose an answer to the time limit of the port, in
the middle of a request, and whoever opens the port next meets what is left. Ends
of processes include the assertions of `bar4_write` and `bar4_read_v`, which the build leaves active.

`Bar2` has the three pieces of a segment, with the sizes of a line, a vector and a block as
constants, and a `fault` if a vector store is not aligned. `DeviceOpen` has processes, the
kernel's lock table (a lock belongs to an open file description, and ends with the last
reference to it; a mapping is one too), failure of every system call, and death at any point.

### Acquisition: `AcqController`, `AcqRam`

`AcqController` composes the controller with the core it drives: the core takes samples
(`TakeSample`), is triggered (`Trigger`) and copies to RAM (`Transfer`) as it likes; the client
configures, starts, polls, stops, and is inside of `result()` with or without a wait time.
`write_params` is public and unguarded, and may be called at any time, too: `overruled` says
whether it has replaced the sizes that `get_result` goes by, or the parameters of a core that runs, which the
core may then heed or not; what such a core leaves in RAM is not known (`Foreign`).
Samples are numbers, and RAM is their positions modulo the buffer, so that `get_result`'s arithmetic of
indexes (signed `%`: `CRem`) can be compared with what the client asked for. The sums of
`encode_params` (`pre + post`, and the rounding up of `align_extend`) are taken modulo `Word`
(2^32 in the code), so that sizes that wrap around are among the configurations.
`AcqRam` is `MemoryAllocator` with the lives of the controllers.

### Fields: `FieldCodec`, `FieldBank`, `RegisterFields`, `FieldSets`, `RegisterMap`, `CoreStatus`, `CoreFields`, `DeviceFields`, `ParamController`, `ShaperFilt`, `PosCalcFifo`

`FieldCodec` is the arithmetic of `util-bits.h` at a width W. `FieldBank` is the
abstract specification of a controller: independent named values, staged and then
committed. `RegisterFields` is the code over words with shared bits, and implements it
(`BankSpec`). The write of the whole block is a step, because `Bar4` shows that it is atomic.

`RegisterMap` has the masks and offsets of seventeen headers under the headers' names; `FieldSets`
has the operators that make sets of fields of them.
`CoreFields` has what each core's `decode` or `encode_params` does with them, the blocks that its `read` and
`write_params` transfer, its commands, and the words it must not touch. `CoreStatus` has the fields that a
core only reports, and which words `read_monitors` brings up to date. Fields are sets of
bits there; the two data that a client writes, or a core reports, are "all of the field's bits" and "none".
`LayoutOf` is what the rest of `CoreFields` needs of a core's masks, and `LayoutRight` says it of the core at hand. `DeviceFields` puts the two views of a field side by side,
`RegisterFields` with its numbers and `CoreFields` with the cores' real masks; it has no actions of its own.

`ParamController` is the protocol of the seven classes whose parameters are members, by three
properties of a class: whether `encode_params` reads first, which parameters are optional,
and whether a second write follows. Two controllers of one core call `write_params` at any
time, in the middle of each other's calls too; a client sets members between its calls. `changed` remembers what the one
has changed while the other was between its read and its write: that is what gets lost.

`ShaperFilt` has two controllers of the filters' core, whose writes of biquads interleave.
`PosCalcFifo` has the one resource that a read uses up, with the two loops of `decode-reg` that read it.

### Chips: `Si57xCtrl`, `Si57xFreq`, `Oscillator`, `Spi`, `Ad9510`, `SdbSearch`, `Devices`

`Si57xCtrl` composes the controller with a core that finishes a job, with or
without success, whenever it likes, or never. `Si57xFreq` is the search of
`set_freq`, one pair of dividers a step, against the best of all the pairs that its loops try; `Oscillator` has both of them. `Spi`
composes the controller, the SPI core and the registers of the slaves, with the wire
formats of `ad9510` and `isla216p` in base B. `Ad9510` has scripts of register writes against a
chip with buffered registers, to which a write may not arrive: one of `set_reg`, which reads it back,
or that of `update_parameters`, which does not; `told` remembers how much of a script the chip has been told to use. `SdbSearch` is `read_sdb` over
several boards, with the two matchers that remember. `Devices` instantiates `Spi`, `Ad9510`, `SdbSearch`, `ShaperFilt` and
`PosCalcFifo` side by side, with what is assumed of their constants; it names their properties for the runs and the proofs,
and has no actions of its own.

## Runs: what they check and their bounds

Each run is a configuration; `MC*.tla` gives the constants their values. The
three runs `fields`, `si57x` and `chips` put programs that have nothing to do with each other
side by side: the variable `subject` is chosen in the initial state, and only
the module it names moves. No variable is shared, so this is as strong as a run for each.

| Run | States | Instance | What it shows |
|---|---|---|---|
| `bar4` | 51592 | 2 threads, 4 words in pages of 2, 2 values; scalars on both sides of the boundary and vectors across it | `AccessHitsWord`, `VectorIntact`, `HolderReleases`, and that it implements `RegisterBus` |
| `bar2` | 2261 | 2 threads, pages of 16, lines of 8, vectors of 4; one to three pages | `CopyRight`, `ReturnsWhole`; `AlikeIsAligned`: a store faults only when source and destination differ modulo a vector |
| `device_open` | 28743 | 3 processes, one of which has only the file without write-combining | `Exclusive`, `ClosedIsUnlocked` |
| `serial` | 308178 | 2 processes, 4 words, blocks of 2 at most, one request left by an earlier process; a board that refuses and a line that delays | `CompletedIsTrue`, `NothingOnTheWay`, `CallsEnd` |
| `acq` | 1128428 | 3 channels (sizes 1 and 2, and a refused one), payload 2, a buffer of 8, sums modulo 16; 8 configurations, of which some are refused, degenerate or wrap around | `NoUnknownAcquisition`, `CapturedMatchesCore`, `ResultFromStart`, `ResultReturns` |
| `acq_wrap` | – | the same | ends in the violation described [below](#disagreements-found) |
| `acq_ram` | 1002 (up to symmetry) | 2 boards, 4 controllers | `RangesOwn` |
| `fields` | 53469 | a bank: words of 6 bits, six fields: plain, signed, fixed-point, commands, values that fit and that do not; or one of seventeen cores with its real masks, each `abi_ver_minor` at which it differs, any two writes, reports of status, reads and write_params in between, first and last channel of each array | `RefusalsRight`, and that it implements `FieldBank`; `LayoutRight`, `NamedArrives`, `StatusShown` |
| `params` | 795191 | 2 controllers, a parameter and a command, the three kinds of classes, calls that overlap | `CommandsOnce`, `OnlySetChanges`, `ThrewUnwritten` |
| `si57x` | 9651 | 3 configurations, 2 polls; all frequencies 0..16 for three crystals | `NotWrittenWhileBusy`, `CommandsAsked`, `AppliedWhenTrue`, `CallsReturn`, `BestOfTried` |
| `chips` | 30267 | bytes in base 4, 2 slaves, 2 registers; two lost writes, of a byte of the divider or of the update bit; four boards; filters of 2 channels and up to 2 biquads; a FIFO of 2 and five records | `AccessDone`, `AccessReturns`, `TrueIsHeld`, `DividersWhole`, `SearchRight`, `BiquadsWhole`, `RecordsInOrder`, `RecordsShown` |
| `isla_set` | – | the SPI part, with `isla216p::set_reg` | ends in the violation described below |

`acq` and `params` also check their type invariants. Why the bounds are enough:

- Two threads show every conflict over a page, since the mutex and the page register have
  only one other party; two pages of two words have a boundary to cross and a page to
  come back to. For other sizes there is the proof.
- BAR2's pages hold two lines and a line two vectors, so there is a head, more than one block
  and a tail in a segment, and requests with and without each of them.
- Three processes: one that holds, one that waits and one of another file. Death
  needs no fourth.
- The buffer of eight samples has acquisitions that fit exactly, that wrap and that
  are too large once they are aligned; `MaxMade` = 9 lets the core go past the end of the buffer
  once. Configurations are listed with what is particular to them in `MCAcqController`.
- `MaxCalls` = 6 constructions and destructions suffice to fill a board (the allocator has
  one range less than cores), free one in the middle, and fill it again.
- W = 6 bits has the widths that differ in the code: 1 bit, unsigned, signed and the whole word.
- Of the serial port: two processes, one that leaves an answer behind and one that opens the port
  after it; a request that is answered before, while and after it is waited for; calls of one and of
  more than one block.
- `SameWord` in `MCRegisterFields`: of two writes the second is to a word of the first, or the core
  reports a status in it; fields that share no word do not meet, since a block is transferred whole.
- Two biquads and a word after each have a boundary between biquads, one between channels, and unused words.
- Five records in a FIFO of two fill it, make it overflow and empty it.
- Two writes show whether two fields meet. Of an array's elements, which
  differ only by a stride, the first and the last are written and reported (`FirstAndLast`); `LayoutHolds`, `Arrives` and
  `Shown` are proved for all of them. One of the
  two patterns of a field has all its bits, which is enough to see a bit that
  is not transferred; every core also begins with all of its bits set.
- One parameter and one command: the code treats each of them alike and without regard to
  others; where they lie is the business of `CoreFields`.
- Two polls: none, one, and too many of them.
- The six real divider options of the Si570, the lowest of its N1 (2 to 12) and its real range of frequencies at 1:100.

Deadlock is checked in all runs but three, where the program may stop: `acq_ram` and
`fields`, at the bounds `MaxCalls` and `MaxWrites`
(and after an assertion of `decode` has failed), and `si57x`, whose search ends.

## Fairness

- `Bar4`: weak fairness of the steps of each thread within a call. The
  functions have no unbounded loop and the mutex is released at their end, so a
  scheduler that lets every thread run suffices. Calls need not come. `HolderReleases` is about the
  holder only: that a waiting thread is ever served is not claimed, as
  a mutex is not fair.
- `AcqController`: weak fairness of the core's sampling and transfer and of the two ways
  out of `result()`. A trigger is *not* fair: it may never come; that is why
  `ResultReturns` says nothing about an acquisition without a wait time that waits for
  one.
- `Si57xCtrl`: weak fairness of what a call does once it has begun. The core
  need never finish: `CallsReturn` is due to the bounded polling alone.
- `SerialPort`: weak fairness of each process's steps inside of a call. Two of these, `ReceiveAnswer`
  and `RejectAnswer`, wait for input; the third, `Timeout`, needs none and is what makes the wait end, as VTIME does in the
  code. The board is not fair: it need not answer.
- `Spi`: weak fairness of the steps of an access that has begun, and of the core's transfer. The second is
  an assumption about the hardware which the code makes too: its poll has no limit.
- `PosCalcFifo`: weak fairness of the loop, which has no way out. The core need not make records.

`MCChips` states the last two side by side. What is not the run's subject has not begun there and none of its fair
actions is enabled, so neither fairness restricts the other's behaviours.

The other runs have safety properties only.

## Proofs

Eight modules `*_proofs` have 9896 proof obligations, all of which `tlapm` proves (with Z3,
Zenon and LS4). `PROJECT.json` lists the results under "theorems": every invariant and action property
that a passing run checks, and both refinements. They hold for every value of the
constants that satisfies the assumptions of the module concerned, which TLC evaluates on the instances:

- sizes are positive, requests are of natural numbers, "no thread" is not a thread, and the like;
- `WindowAssumption` (`Bar2`): BAR2 is as large as a page, as on the boards; the code relies on it.
  `UnitsAssumption`: lines, blocks and pages are made of whole vectors;
- `AcqAssumption`: the RAM's size fits into the word that sizes are computed in;
- `FieldsAssumption`: fields of a register do not overlap and fit into it, a sign is extended at the widths that
  `sign_extend` knows, and a register which `unset_commands` sets to 0 has only commands (of `fmc250m_4ch` this is
  what the code takes `SLEEP_ADCS` for). `InputsAssumption`: numbers are what an `int32_t` holds, or a double's units;
- `ClockAssumption` (`Devices`): `update_parameters` ends every method of `ad9510`, and the ones that set a divider set both
  bytes of it; `BoardsAssumption`: a board's SDB has a chip's SPI cores after the core that they are found by;
  `ShaperAssumption`: a channel has room for its biquads;
- `ElementsAssumption` (`DeviceFields`): the elements that are looked at are of the array; the run has the first and the last, the theorems any;
- `DividersAssumption` (`Oscillator`): dividers and a crystal's frequency are positive.

| Module | Proved | Inductive invariant, and why it is needed |
|---|---|---|
| `Bar4_proofs` | `TypeCorrect`, `AccessCorrect`, `VectorAtomicity`, `Refinement` | `LockInv`: who is where in a call holds the mutex, so often. `PageInv`: `last_bar4_page` is the selected page except between the two stores to them. `CallInv`: a position is within the call. `ReadInv`, `WriteInv`: the words transferred agree with the registers, which others' steps keep because `LockInv` makes them wait |
| `Bar2_proofs` | `Copies`, `Whole`, `Aligned` | `ThreadInv`: a thread's page is selected while it copies, and position, rest and destination add up to the request. `AlignInv`: whoever is past the head is at a whole vector of BAR2, or has no block left |
| `DeviceOpen_proofs` | `OneOwner`, `Unlocked` | `Descriptors`, `Anchored`: a process with a mapping of BAR0 keeps the file description, even without its descriptor; `Locked`, `Owned`: then it has the lock; `InOrder`: BARs are mapped and unmapped one after another |
| `AcqController_proofs` | `TypeCorrect`, `NoneUnknown`, `CapturedCorrect`, `ResultIsRight`; of `AcqRam`: `Disjoint`, `InRam`, `Own` | `StrobesClear`: the start bit is not left in the copy of the registers, where another write would send it again. `Phases`: where the trigger is among the samples that the core has taken, in each of its phases, as long as it works by the parameters it was started with; and nothing is overruled in the step `stop`. `Finished`: an acquisition that is done stays so until it is read or stopped. `Indexed`: a live controller's index is its own, and counted |
| `ParamController_proofs` | `TypeCorrect`, `Once`, `OnlySet`, `ThrowsUnwritten` | `AskedInv`: the commands that are set are those asked for; `ReadInv`, `EncodedInv`, `AppliedInv`: what has been read, encoded or written is still what the core has, but for what others have changed since (`changed`), and has no command in it; `OthersInv` is the part of it that a write by another controller has to keep |
| `SerialPort_proofs` | `TypeCorrect`, `ToldTheTruth`, `NothingLeftBehind` | `CleanInv`: for a process that opened a quiet port and is alone, its request or the answer to it is in one place at most (`OneOnTheWay`), and an answer on its way is true of the registers (`Truthful`), which only its own requests change |
| `RegisterFields_proofs` | `RefusedRight`, `ImplementsBank`; of `CoreFields`: `LayoutHolds`, `Arrives`, `Shown` | `WordsOK`: registers hold words. The rest is lemmas about bits: `WrittenIs`, a write puts a code into its field and leaves every field that does not overlap it; `CodeMeans`, that code is read as the number `BankHolds` says; `UnsetHolds`, `UnsetClears`, the fold of `unset_commands` in any order. `CoreInv`, bit by bit: what is in the copies, the core and the decoder is what was set, sent, reported and read, and `MembersKept` |
| `Devices_proofs` | `AccessesDone`, `RecordsAreInOrder`, `TrueMeansHeld`, `DividersAreWhole`, `BiquadsAreWhole`, `SearchesRight`; `OscillatorTypes`, `WritesWhenIdle`, `OnlyAskedCommands`, `TrueIsApplied`, `FindsBest` | `BusDone`, `BusRegs`: the core's registers are the request's until its transfer, and the slave has it after. `FifoHas`, `FifoShows`: the FIFO has the end of what was taken, and the program has shown what it read. `ClockRuns`, `ClockDivides`: what part of its script a call has done, and that a divider's bytes are of one script while no method has failed. `ShaperInv`: an area of the core has a filter's biquad whole. `SdbInv`: what a matcher remembers is what it has passed. `OscCtl`, `OscBusy`, `OscConfig`: which action bits are set at each step, the core is idle after the check, what is in it while `apply_config` waits. `SearchBest`, `SearchAll`: the best is one of the pairs tried, and none of these is closer |

`Refinement` is Bar4's implementation of `RegisterBus` for any number of threads, any set of calls and any page
size: initial states map to initial ones, and of the code's steps the first word of a write
and the last word of a read map to `Perform`, the call and the last unlocking to
`Invoke` and `Return`, and the others to stuttering. `ImplementsBank` is `RegisterFields`' implementation of `FieldBank`
for words of any width and any layout: `WriteField` maps to the write of one named value or, if refused, to stuttering, and
`WriteParams` to the commit. Its length is arithmetic: `2^n` is defined by recursion, so that even its sum law is
proved from the facts `2^0 = 1` and `2^(n+1) = 2 * 2^n`, by induction.

Induction is done in first-order form, as the library's rules that take an operator cannot be used: the least element of a set
of numbers (`Least`) from the well-foundedness of the finite sets, and induction over sets (`SetInduction`) from it.

`LayoutHolds`, which `Arrives` and `Shown` need, is proved from the masks, core by core, and holds of all elements of the
arrays, not just of the run's. `LaidOut(fields, status, from, to)` says that what a client sets and what the core reports are clear of
each other and within the bytes from .. to of the core. Of a handful of fields it follows from their numbers; two parts, one after the other, are
a part (`Joined`), and so are the channels of an array if one of them takes no more than its stride (`ArrayLaid`, for arrays of
any of the elements). So each core is put together from the parts that its header has (`LampLaid`, `TimingLaid`, ...), and what is left is to compare the
parts with the blocks that are transferred (`WholeLayout` for the thirteen cores that are transferred as one; `PicoLayout`, `PosCalcLayout`,
`ProcessingLayout` and `CcLayout` for the others).

Only model-checked: all liveness (`HolderReleases`, `ResultReturns`, `CallsReturn`, `CallsEnd`, `AccessReturns`,
`RecordsShown`), which needs ENABLED.

## Disagreements found

Two runs end in a violation of what a comment in the code says.

1. `acq_wrap`, `modules/acq.cc:533`. "convert from negative or >max_samples indexes": `start_index` is
   signed, and `%` keeps its sign. An acquisition whose first sample is below the start
   of the buffer keeps a negative index, counts as contiguous, and is read from below
   `ram_start_addr`. `ResultFromStart` of the run `acq` has the other acquisitions, which are right.
2. `isla_set`, `modules/isla216p.cc:64`. "write 1 byte": `set_reg` asks for one byte to be read, and
   never sends the value: the chip gets the 0 that goes out while the byte is read. It returns true.

Observations, which no comment or document contradicts or which are out of the models' scope:

- `util/pcie.c:185`: a vector store is aligned only if `dest` and the
  address are alike modulo a vector (`AlikeIsAligned`); else it faults. A vector allocated for an acquisition that is read in one piece from an aligned address satisfies this;
  nothing ensures it for the second piece of one that wraps around, whose destination is `first_read` bytes further while its
  source is `ram_start_addr`, nor for a `start_index` that is not at a whole vector. (The stores
  are compiled in with SSE4.1 only.)
- `util/pcie-open.cc:178`: `dev_close` unmaps BAR0 first, which frees the lock while the other
  BARs are still mapped, and does not destroy the mutexes.
- `modules/acq.cc:32`: of eight ranges the allocator gives out seven.
- `modules/acq.cc:633`: `print_csv` loops over the public `pre_samples + post_samples`, which may have been
  changed since the acquisition, and not over what was acquired.
- `util/decoders.cc:147`: every fixed-point field is marked as signed, also KSUM, which is decoded without a
  sign: a write of it has the range of a signed number, and a negative one is read back as the positive number of
  the same bits (`LosesSign` in `RegisterFields`).
- `modules/fmc250m_4ch.cc:54`: `unset_commands` sets the whole register to 0, also `SLEEP_ADCS`, which is a
  state and not a command.
- `modules/afc_timing.cc:203`: the assertion fails for a source number of 9 or more, which the
  register can hold before anything is written (`aborted` in `CoreFields`).
- `modules/fofb_cc.cc:252`: the second write repeats `ERR_CLR` if that was set. The comment at 247, "clear these values
  after writing so they aren't copied into the next write", can be read as saying otherwise: the members are cleared, and
  `regs.cfg_val`, which the second write sends, is not.
- `util/controllers.cc:18`: `write_params` is public in `acq::Controller`, and has no check of the step. Called between
  `start_acquisition` and `get_result`, it replaces the sizes, and the width and number of atoms, that `get_result` goes by, and writes the registers
  of a core that runs. `include/modules/acq.h:51` says that an acquisition can be controlled "asynchronously and safely, while still
  registering the configuration for the next acquisition": that is so of setting the members, and not of `write_params`.
  `CapturedMatchesCore` has the acquisitions without such a call, and that their core overwrites nothing that is wanted unless its own
  parameters were changed; `ResultFromStart` says that a result is right, too, if the sizes which the call has left ask for samples
  that were taken (`Taken`). What the code does otherwise: with sizes of 0 it copies past the end of its vector when its indexes wrap around.
- `modules/ad9510.cc:60`: `update_parameters` does not read back what it writes to 0x5a. If this write is lost, the bit is read as 0,
  which is taken for the end of the update ("wait for update to finish"), and the method returns true with nothing new in use. `TrueIsHeld`
  says what can be relied on.
- `util/si57x_util.cc:13`: "FIXME: n1 can be 1". The loops try even dividers only, so `set_freq` fails for frequencies, or finds worse dividers, where
  N1 = 1 would do: in the run those from 8 to 14. `BestOfTried` is about the pairs that are tried.
- `modules/fofb_cc.cc:134`: the last read has more words than are decoded, within the bounds of the RAM.
- `modules/si57x_ctrl.cc:141`: a `STRP_COMPLETE` decoded earlier is believed, and no reading is asked for.
- `modules/ad9510.cc:73`: the channel is not used.
- `modules/trigger_iface.cc`, `trigger_mux.cc`, `fofb_cc.cc` decode single bits as `t & mask`, without a
  shift ("TODO: use get_bit()").
- `util/pcie.c:379`: `device_reset` accesses BAR0 without a lock.
- `modules/acq.cc:346`: sizes within an alignment of 2^32 wrap around to 0 when they are rounded up, and pass the
  check of the RAM then; the core is told another number than `get_result` goes by. `CapturedMatchesCore` and
  `ResultFromStart` say nothing of such sizes (`Representable`), and are about all others that are accepted.
- `modules/acq.cc:29`: `counts` is shared by all controllers of a program and has no lock.
- `modules/trigger_iface.cc:84`: calls of two controllers that overlap undo each other's changes; `OnlySetChanges` says which.
- `modules/fofb_shaper_filt.cc:148`: two controllers may leave a filter with biquads of both; `num_biquads` is
  read from the core and not compared with `NUM_BIQUADS`.
- `modules/fmcpico1m_4ch.cc:78` and the other `write_params` that do not call `RegisterController`'s do not check that there is a device.
- `util/pcie-open.cc:130`: nothing locks the serial port; a process that shares it may be told of another's words.
- `util/pcie.c:237`: the answers' assertions are what ends a process after a lost answer. Built with `NDEBUG`,
  it would read a line that is not there.
- `util/pcie.c:233`: the C library does not write to a `FILE` that has unread input and was not repositioned, and
  `fprintf` is not checked: the request is dropped and the answer to it never comes.

## What is not modelled

- The digits of the serial port's lines: an answer is well-formed or an error.
- All formatting and printing: nothing but the text depends on them.
- `decode-reg`, but for its two loops over a FIFO, and `bench-cp`: parsing of arguments and one call after another, in
  an order that the models of the components allow among others.
- The names of fields, and calls with names that there are not, which throw and change nothing.
- A filter core with more biquads than `NUM_BIQUADS`: the code would write past its arrays.
- `write_general` of the action bits of `si57x_ctrl` by a client, and the throw of `calc_fxtal` for a code of a divider
  that it does not know.
- A bad width of atoms (`BadAtomWidth`), which is refused after the same steps as a bad size of samples; what
  `get_result` leaves behind its vector when `write_params` has made the result empty (undefined).
- `get_synthesis_info`, `calc_fxtal`, the look-up of a slot's PCI address: a single computation each.
- `device_reset`, as no state of the library depends on it.
- The compiler's and the CPU's reordering of accesses to BAR0 and BAR4: they are volatile and the
  mapping of BAR4 is uncached; BAR2's write-combining only matters for writes, of which there are none.
- Two threads that use one controller, or two processes that use one BAR: the library does not support
  the first, and `Exclusive` excludes the second.

## Plan

The order of the modules was that of what depends on them: accesses, opening, acquisition,
fields, controllers, chips; then the serial port, status, filters and the FIFO. What is left:

1. Model: a composition of `AcqController` with `AcqRam` and `Bar2`
   (two controllers which read their results while the other's core writes); the values that
   `set_defaults` gives to the AD9510; `calc_fxtal` and `get_freq`.
2. Prove: what each module's `Spec`
   implies of a composition like the one above.
3. Replace the shallower of the properties where a deeper one turns up, rather than adding to them.

## How to run it

    tlc -config MCBar4.cfg MCBar4        # each run: its .cfg and module are in PROJECT.json
    tlapm Bar4_proofs.tla
