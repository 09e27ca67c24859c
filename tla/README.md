# PacketWyrm in TLA+

Specifications of PacketWyrm, a network tester made of an FPGA data plane
(`rtl/`), a daemon that programs and reads it (`sw/packetwyrmd`), and the library
between the two (`sw/libpacketwyrm`). The modules are translated from the code;
`PROJECT.json` gives, for each definition, the lines it stands for. Paths in this
file are relative to `src/`.

## The system

| Part | State | Operations | Why it is hard |
|---|---|---|---|
| Flow generator (`pw_flow_gen_multi.sv`) | sequence number, tokens and length of each slot | pick, precompute, launch, emit | numbers sampled three cycles before they are used |
| RX path (`pw_data_plane_axis.sv`, `pw_frame_saf.sv`) | delay line, decision pipeline, frame buffer | beat, decision, drain, soft reset | decisions arrive after the frame; a reset can fall anywhere |
| RX checker (`pw_test_rx_checker_bram.sv`) | one record per flow in block RAM | count, clear walk | read-modify-write over two cycles, back to back |
| Histogram (`pw_lat_histogram.sv`) | counters, one holder per port | sample, clear walk | several sources share one memory port |
| Health LED (`pw_data_plane_axis.sv`) | sticky error bit | latch, clear | cleared in a different cycle from what it watches |
| CSR block (`pw_csr_full.sv`) | staging words, tables, corrections | register write | entries are several words and take effect on the last |
| Table programming (`programming.c`) | script position, worst status | validate, write, return | a write can fail anywhere |
| Slow path (`backend_bar.c`, `host_plane.c`, `pw_dma_slowpath.sv`) | ring indices, completed counts, TX buffer, inject FSM | arm, poll, skip, copy, dispatch; read, fill, run, wait | neither engine waits for the host; one worker serves both directions |
| Configuration (`config.c`, `validate.c`, `yaml.c`) | the parsed configuration | parse, validate, merge onto the environment | hundreds of checks, and a merge that must not touch the environment |
| Flow compiler (`flow_compiler.c`) | program under construction | rows, rules, hash placement | card-wide pools, masks and numbers shared by flows that do not know each other |
| Daemon life (`packetwyrmd/src/main.c`, `vfio.c`, `tap.c`) | cards, mappings, TAPs, threads, lock | start, load, signal, join, release | every step can fail, and three kinds of threads use what main releases |
| What survives (`spi_flash.c`, config.save, `pktwyrm firmware`) | flash cells, environment file | erase, program, verify; write, sync, rename | power and processes fail between any two steps |
| Clock sync (`pw_gpio_sync.sv`, `gpio_sync.c`) | latched timestamp and sequence | edge, coherent read | two cards read by separate accesses |
| Servo and RPC threads (`packetwyrmd/src/main.c`) | lock, flow being corrected | sample, write low, write high | two threads, one staging register |
| Control RPCs (`packetwyrmd/src/main.c`) | configuration, program, run state | test.*, flow.*, stats.clear, config.load | several cards, each able to fail |

Everything else the repository names is listed under `components` in
`PROJECT.json` with the reason it is left out.

## Modules

| Module | Models | Correspondence |
|---|---|---|
| `RxRecord` | the record update of the checker | pure operators; one field per record field; sequence classification, latency, jitter |
| `RxFlowStats` | what the checker promises | `recs` changes in one step per frame or clear; `obs` is history |
| `RxChecker` | the BRAM pipeline | one step per clock: stage 0 registers `s1`, read data, bypass register, `clearing` walk; refines `RxFlowStats` |
| `LatHistogram` | the histogram engine | one step per clock; `state` is the FSM; `hv`, `ha` the holders |
| `RxStats` | checker, histogram and LED on one clock and one clear pulse | composes `RxChecker` and `LatHistogram`; the other port's checker is the samples it reports |
| `FrameSaf` | the store-and-forward buffer | pointers of width one bit more than the address; write, commit, roll back and prefetching drain in one `SafTick` |
| `RxPath` | stream, delay line, decision pipeline and soft reset around `FrameSaf` | one step per clock; frames have identities so that a mix is visible |
| `C2HRing` | punt: DMA ring and the reaping half of the worker | one step per access of the worker; the engine is external and modelled by how the driver uses it |
| `SlowPath` | the whole worker: `C2HRing`, the TAP half, the H2C channel and the card's inject FSM | `turn`, `b`, `left` are the loops of `pw_host_plane_step`; `tpc` is the position in `dma_slow_path_tx` |
| `CardTables` | programming script and the card's register windows | one step per register write; each write may fail |
| `LatCorrection` | sync edges, coherent read, servo thread and RPC thread | one step per register access; `th[t].i` is the thread's place in the loop over the flows, `got` the words read of a sample |
| `DaemonControl` | control RPCs over several cards | `rpc` is the phase of the handler, `ops` the backend operations left of it; a card that is not open is passed over, a table write may be rejected or fail |
| `Config`, `ConfigValidate` | parser and validation | pure operators named after the functions; a document is a tree of values, a check returns the code's status, and `First` is the early return |
| `FlowCompiler` | `pw_flow_compile` | pure operators; an accumulator `[st, cp]` is the card program with the status so far |
| `ConfigLoad` | start and config.load around them | one step per phase of the code; then the card's lookups, as operators, over the running program |
| `VfioGroups` | group registry, device addresses, opening and closing a card | pure operators on `os` = registry, held groups and mappings; `fault` names the call that fails |
| `DaemonLife` | `main`, its threads and config.load's swap | `pc` is main's position and `at` the card or interface its loop is at; one step per card, TAP or thread; a look at the stop flag is a step of its own; an empty list of cards or interfaces skips its loops |
| `FlashProgram` | `pw_flash_program`, flash.write and the firmware command against the chip | `call.a`, `call.k`, `call.p` are the sector, the operation on it and the bytes done of it; one step per SPI command |
| `EnvStore` | config.save, config.get_raw and the start's two reads | one step per system call; a text is its secret, the secret's style and the rest |
| `Persistence` | both of them under one daemon, killed or without power at any step | composes `EnvStore` and `FlashProgram` |

Modules named `MC...` give the constants values for TLC; modules named
`..._proofs` hold the theorems. Definitions whose name starts with `Mut` are
deliberate errors: each is a variant of the definition that follows it, and shows
that the property it is listed with in `PROJECT.json` can fail.

Data is reduced to what the properties distinguish. A beat is the identity of its
frame and its place in it; a buffer is the frame its header and its body came
from; a table entry is whole, off, or a mixture. A header word, a mask or an address
of the compiler is the set of its one bits, so that masking is intersection; the hash
index is computed on numbers, as in the code. Widths are kept where they matter: buffer pointers wrap at twice the depth, the completed count at `COUNT`,
and timestamps and corrections are two words of `W` values each, so that a torn one
is visible and a negative difference wraps.

## Runs

| Run | Shows |
|---|---|
| `flow_stats` | For frames in any order, with gaps, repeats and late ones: `SequenceAccounting` (expected number moved by accepted plus lost), `LossEstimateBounds` (the estimate against the numbers really missing), `LatencyEnvelope`. |
| `checker` | No frame is lost or counted twice (`NoFrameLost`), and the pipeline implements `RxFlowStats` (`Refinement`). |
| `rx_stats` | `HistogramKeepsStep`: with frames of both ports spaced as the engine needs, no sample is lost or counted twice outside clear walks; `LossIsLit`: no loss behind a green LED. |
| `rx_path` | `CommittedBeatsKept` of the buffer; `DrainedWhole`: whole frames only, with their own route, across soft resets; `HeadDrains`: the head frame leaves when the egress keeps granting. |
| `slow_path` | Punt: `EachFrameOnce`, `DeliveredIntact` when the engine begins at most the next buffer during a copy, `EveryFrameReaped`. Inject: `InjectedAsRead` (own port, whole, in order, across soft resets and channel errors), `OkMeansFetched`. Both: `EveryTapServed`, although one TAP always has frames and a channel may never complete. |
| `card_tables` | After a successful programming `ConfiguredEntriesLive`, `EntriesWhole`, `BucketsMatchMask`, also after one that failed. |
| `lat_correction` | `AcceptedOffsetIsTrue`, `CorrectionsWhole` for the RPCs that take the lock. |
| `daemon_control` | `ViewMatches` (flow state reported against rows in the cards), `RunningIsReported`, `TruthfulBaseline`. |
| `config_compile` | Texts through parser, validation, compiler and the card's lookups: `FramesFindTheirSlot` for every rotation of the modifiers, `SlotsNeverShared`, `RulesMeanConfigured` (the decision for every frame key against the punt and forward blocks read directly), `BucketCoversFrame`. |
| `persistence` | `VerifiedIsWritten`, `DamageConfined`, `CallReturns` of the flash; `EnvFileWhole`, `AckedSaveSurvives`, `RestartTruthful` of the environment file. |
| `daemon_life` | `NoUseAfterRelease` of program, cards and TAPs by any thread; `DmaIntoLivePool`; `NoSelfConflict` and `RegistryExact` for cards that share an IOMMU group; `ServesWhole`; `ShutdownCompletes`. |

### Disagreements between code and comments

`card_tables_rules` ends in a counterexample: unused rules are "disabled" by writing
their first word only; the card commits a rule on its last word, so a deleted rule
stays live (`programming.c:7-10` says that all others are invalidated).

Four more are outside the runs; each is seen by a small change.

* `backend_bar.c:481` compares the consumer index by `>=` with a count that wraps;
  after 2^32 frames reaping stops. The comment on line 480 says "unsigned wrap ok".
  In `MCSlowPath.cfg` set `RING = 2`, `COUNT = 4`, `MaxLag = 3`, `LeftCounts = {3}`
  and `EveryFrameReaped` fails; with `COUNT = 8`, which five frames cannot wrap, it
  holds. (`MaxLag` must stay below `COUNT`: a larger lag is ambiguous by itself.)
* `test.start` and `test.arm` (`main.c:2261`) write corrections without the servo
  lock, through a staging word shared with the servo thread; `pw_csr_full.sv:331`
  says that no torn value is seen. In `MCLatCorrection.cfg` add `"test.start"` to
  `Calls` and `CorrectionsWhole` fails.
* A save of the redacted view restores the secret of the running daemon, not the
  one in a file edited since (`main.c:1036`); `docs/guides/configuration.md:76-78`
  says that it "will not clobber the real secret on disk". In `MCPersistence.cfg`
  add `PROPERTY RedactedSaveKeepsSecret`.
* A header-classified flow returned in a tunnel of the other family misses its slot:
  its key has the inner ethertype (`flow_compiler.c:160`), the frame's the outer one
  (`pw_parser_axis.sv:167-175`). `docs/design/flow-compiler.md:134-137` says that both
  paths decapsulate. In `FramesFindTheirSlot` drop the conjunct on `outer_v6`.

Some properties are stated with a condition because they fail without it.

* `DeliveredIntact` needs `Overtake = 0`. The overrun test is made before the copy,
  and one more buffer started by the engine in between is enough to deliver a mixed
  frame: set `Overtake = 1` in `MCSlowPath.cfg` to see it.
* `InjectedAsRead` says nothing (`late`) once an inject has timed out with its
  descriptor still in flight: the buffer is then refilled under the engine, and
  without the condition the property fails. `OkMeansFetched` has the same condition
  for another reason: it would hold without it, but only by the model's choice of what
  RUN does to a busy channel, which the driver does not tell.
* `HistogramKeepsStep` speaks of cycles outside the clear walks. The histogram's walk
  is longer than the checker's, and the samples that arrive during it are dropped.
* `LossIsLit` has no converse. A loss event in the pipeline when the counters are
  cleared lights the LED again after the clear.
* `RestartTruthful` needs that nobody edits the file between the start's parse and
  its second read (`main.c:2816`, `2822`). `AckedSaveSurvives` needs a directory sync
  that did not fail: `SyncDir` may fail, and the code ignores it and answers ok
  (`main.c:1131`).
* `VerifiedIsWritten` and `DamageConfined` need a chip that has finished what a killed
  writer started: `pw_flash_program` reads the bytes to preserve without waiting for
  it. Drop `doing = Nothing` from `flash_write` and `firmware_update` to see each fail.

### Bounds

| Model | Bounds | Why they are enough |
|---|---|---|
| `RxFlowStats` | 2 flows, 5 frames, latency to 2 | a gap, its late filling, a repeat and a second gap fit in five frames |
| `RxChecker` | 2 flows, 3 frames in a flow, 2 buckets | two back-to-back updates of one flow and one of the other; the clear walk has two steps |
| `LatHistogram` (in `RxStats`) | 2 flows of 2 buckets, 2 frames and 2 samples of the other port, spacing 4 | both sources pending at once, collisions on one counter |
| `FrameSaf` (in `RxPath`) | 4 beats, 2 descriptors | pointers wrap, both resources fill; depths are powers of two, as in the code |
| `RxPath` | frames to 3 beats, 3 frames; the delays and the reset stretch of the code (7 and 8) | a frame longer than the free space, a reset before, in and after a frame |
| `C2HRing`, `SlowPath` | ring 4, count 8, 5 frames, starting count 7; 2 ports, budget 2, one frame in the card's FIFO, one mixture of punt and inject | the ring is lapped, the count wraps right after arming; a budget is used up and left over; the FIFO is full |
| `CardTables` | 2 comparators, 3 rules, 2 map entries, 2 buckets, 2 rows, one failing write | programs that shrink, grow or change the mask after a failure |
| `LatCorrection` | words of 3 values, 2 edges, an edge reaches the second card within 3 accesses | an edge between any two reads; carries between the words, negative differences |
| `DaemonControl` | 2 cards, 1 row each, sequence numbers to 2 | one card fails and the other does not |
| `ConfigLoad` | the documents of `MCConfigLoad`: environments of 2 cards, tests with each kind of flow, rule, modifier, tunnel and error | a sample, not an enumeration: each feature the compiler treats differently occurs at least once, combinations of features only where listed |
| `DaemonLife` | 2 DMA cards in one group, a legacy card in another, 2 interfaces, 2 faults, 1 load | a fault in the start or the load and one while recovering from it |
| `Persistence` | 2 sectors of 2 pages of 2 cells, files of 0, 3 and 4 cells, 2 requests, 1 mishap | ranges that begin and end inside pages and sectors; a crash, power loss or bad cell at any step, and a request after it. Two mishaps in one behaviour are not covered |

`MaxBetween` of `LatCorrection` is more than a bound: a sync edge that has reached one
card reaches the other within four accesses, fewer than lie between the second and the
seventh of a sample's eight reads. The wire takes nanoseconds and a read about a
microsecond. Without it both cards' sequence numbers could be stable for a whole sample
taken on different edges, since the code compares each card's number only with its own.

### Fairness

`rx_path` assumes that clock cycles go on (weak fairness of `Clock`, which pulses no
soft reset, so that a reset cannot be counted on to clear a wedge) and that the
egress grants again and again (strong fairness of a cycle with `m_tready`): an
arbiter serves its inputs in turn. `slow_path` assumes
weak fairness of the worker, which polls in a loop that never blocks on an
engine; the engines themselves may stop at any time. `daemon_life` assumes weak
fairness of main and of each thread, which the operating system schedules, and no
strong fairness of the lock: once a stop is asked for the servo ends and leaves it
free. `persistence` assumes that a call which is not killed goes on and that the chip
finishes a command (`wait_idle` gives up after a bounded number of polls if it does
not); faults, deaths and power loss are never assumed.

## Proofs

Each theorem holds for every value of the constants that the named assumptions of
the modules allow (sizes, depths, numbers of flows, cards, TAPs, images, faults), not
only for the instances of the runs. An invariant is seldom inductive as it is stated;
what each one needed was checked by TLC before it was proved.

| Module | Theorems | State the property |
|---|---|---|
| `RxFlowStats_proofs` | `TypeCorrect`, `CountersBalance`, `DuplicatesAreRepeats`, `LatencyConsistent`, `LossEstimateSound` | `SequenceAccounting`, `LatencyEnvelope`, `LossEstimateBounds` |
| `RxStats_proofs` | `TypeCorrect`, `BypassCoherent`, `EveryFrameCounted`, `PipelineRefines`, `LossLit` | `NoFrameLost`, `Refinement`, `LossIsLit` |
| `RxPath_proofs` | `SafTypeCorrect`, `SafPointerOrder`, `SafCommittedBeatsKept`, `DrainedAlwaysWhole` | `CommittedBeatsKept`, `DrainedWhole` |
| `SlowPath_proofs` | `FramesReapedOnce`, `FramesDeliveredIntact`, `FramesInjectedAsRead`, `ReportedOkWasFetched` | `EachFrameOnce`, `DeliveredIntact`, `InjectedAsRead`, `OkMeansFetched` |
| `Persistence_proofs` | `EnvFileSurvives`, `AcknowledgedSurvives`, `RestartAnswerTrue`, `DamageIsConfined`, `VerifiedMeansWritten` | `EnvFileWhole`, `AckedSaveSurvives`, `RestartTruthful`, `DamageConfined`, `VerifiedIsWritten` |
| `DaemonLife_proofs` | `NothingUsedAfterRelease`, `ChannelsWriteLivePools`, `NeverInItsOwnWay`, `RegistryStaysExact`, `ServesWholeAlways` | `NoUseAfterRelease`, `DmaIntoLivePool`, `NoSelfConflict`, `RegistryExact`, `ServesWhole` |
| `LatCorrection_proofs` | `AcceptedOffsetTrue`, `CorrectionsStayWhole` | `AcceptedOffsetIsTrue`, `CorrectionsWhole` |
| `DaemonControl_proofs` | `ViewAlwaysMatches`, `RunningAlwaysReported`, `BaselineTruthful` | `ViewMatches`, `RunningIsReported`, `TruthfulBaseline` |

The theorems of a component that another one is built on stand in the module of the
latter: those of `RxChecker` in `RxStats_proofs`, of `FrameSaf` in `RxPath_proofs`, of
`FlashProgram` and `EnvStore` in `Persistence_proofs`. The type invariants,
`DuplicateIsRepeat`, `ForwardingCoherent` and `PointerOrder` are proved and no longer
part of a run.

**RX statistics.** The invariant behind `CountersBalance` and `DuplicatesAreRepeats`
is their conjunction: the balance needs that the highest number received is
`exp - 1` when a flow has been seen. `LatencyEnvelope` is strengthened by what a record
holds before the first sample (`Enveloped`): a delay variation is taken against the
previous latency when a sequence number was seen, so both conditions must coincide.
The products are handled by one lemma, that a value within the new bounds keeps the sum
between minimum and maximum times the number of samples. For `LossEstimateBounds` each
update adds an interval to the range of numbers or takes at most one number out of the
missing ones, which is a fact about cardinalities.
The first lemmas of the module say what an update of `RxRecord` does to each group of
fields, so that no proof expands the whole record.

**Checker pipeline.** `ForwardingCoherent` alone is not inductive: the invariant adds
that the read register, when it is used, holds the memory's record of the event in
stage 1 except where the bypass does, and that during a clear the addresses already
passed are blank. The refinement maps stage 1 to an update already made, and the clear
walk to one `Clear` step. `LossLit` follows from this invariant: a record that shows its
first loss is written on the edge that raises the loss event, and a clear leaves no record
with one.

**Receive path.** For the buffer alone the proof works with distances between pointers
modulo twice the depth: read to commit plus commit to speculative is at most the depth.
A speculative write then falls outside the committed, undrained region. Those theorems
allow any beat, decision and grant in any cycle (`SafSpec`). `DrainedAlwaysWhole` is
about the buffer behind its delay line, and its invariant follows a frame along the
path. `LineOK`, `RawOK`: neighbouring places of the delay line hold consecutive beats of
a frame or an idle cycle between two, and the decision of a frame runs one place behind
its last beat. `SpecOK`: what was written since the last commit are the first beats of
the frame whose next beat or whose decision is at the input. `OrderOK`: frames come in
the order of their numbers, so a waiting descriptor belongs to one frame only. `PendOK`:
from the read pointer on, the committed beats are whole frames and the descriptors are
theirs, in the same order. A soft reset empties the line and the buffer but not the
decision pipeline; a decision that comes out of it afterwards finds nothing to commit,
and the arming gate keeps the rest of a frame that was cut out of the line. So the
theorem holds for every length of the reset. It has the hypothesis `MinGap # 0`: without
an idle cycle between frames a decision meets the first beat of the next frame at the
buffer's input, and TLC refutes `DrainedWhole` with `MinGap = 0`. The code relies on the
MAC's inter-frame gap for it.

**Slow path.** `RingInv`: the completed count is the baseline read when the ring was
armed plus the frames completed, wrapped. The driver compares unwrapped counts, so
`FramesReapedOnce` and `FramesDeliveredIntact` have the hypothesis `NoWrap` (fewer
frames than the register has values; what happens after that is described above).
`IntactInv`: the buffers behind the engine hold whole frames, as many as fit in the
ring, and the one being copied is among them; `NotLapped` says when it stays so (the
engine begins at most the next buffer during a copy, or the host is never a ring
behind). Without it the property fails, also described above. `InjectInv`: the TX buffer
holds the frame read from before RUN until the channel is done, and what is due on the
wire is what the FIFO holds followed by the frame in the channel; once a descriptor has
outlived its inject (`late`) nothing more is claimed, as in the properties.

**What survives.** `EnvInv`: file and durable copy are sound, the text of a save is
sound from the moment it is accepted, the temporary file holds it once written and is
durable before the rename, and what the daemon keeps of the file is what it parsed.
`FlashInv`: the chip works only inside the sectors of the last call; while nothing
differed, the bytes kept of the sector at hand are the ones read before the erase, a
cell that is outside the range and is not at the moment erased is as it was or has been
compared, and the verified part of the range holds the image. The order of the seven
operations on a sector is what makes this inductive. `ImageAssumption` says that no
image is the beginning of another: otherwise the flash would not determine which image
the card boots.

**Daemon life.** `LifeInv` has four parts. `DeviceInv`: the registry is exact for the
cards that are alive (a slot counts its holders, a group is held when it has one, cards
of one group use one slot, every mapping lies below its group's next address), and a
channel runs only into a mapped pool. The lemmas `OpeningBackend` and `ClosingBackend`
show that for every failure inside an open or a close. `LoopInv`: which cards the
loops have reached; in the closing loop exactly the open cards from `at` on are alive,
without which a card could be closed twice. `ThreadInv`: which threads can run where
main is, that the lock is held by the one that uses it, and that the program the servo
walks is the current one. `ServeInv`: what a start without `-F` has seen to at each
place. None of the failure bounds matters.

**Latency correction.** The invariant behind `AcceptedOffsetTrue` reads a sample in
progress word by word (`SamplesFollow`): as long as a card's edge counter is still the
one read first, the words read from it are those of its present latch (a high word read
after another thread's low word too, since both latched the same edge), and when both
counters are, either the cards are on the same edge or one has been travelling for as
many accesses as the sample has made since its second read. That is at least five when
the seventh read, the first to repeat a counter, is made; `CableAssumption` says that an
edge needs fewer to cross the cable. It is the one assumption on timing, and the code
makes it. `CorrectionsStayWhole` adds that the lock is held by whoever is between the
low and the high word (`LockHeld`, `WritersLocked`) and has the hypothesis that
`"test.start"` is not in `Calls`: that RPC writes without the lock, and the property
fails with it, as described above.

**Control RPCs.** `RowsReported`: a row that is on, staged or live, is a row of the
reported program and reported as enabled; this holds at every step because config.load
turns rows off on the cards first and in the view last. `OpsSuit`: the operations left are
those of the phase, which is what excludes, for example, a table write during the
baseline. `CardsFollow`: while programming has not failed, a card has its rows or its
table write is still to come. `CheckersFollow`: after a baseline a checker expects
exactly the number its generator sends next, and during it those that do not are still to
be cleared; a checker that is cleared while its generator runs takes the first
number it sees. The theorems hold for any number of cards, any set of them open, any
capacities and programs.

Only model-checked, and why:

* Liveness (`HeadDrains`, `EveryFrameReaped`, `EveryTapServed`, `ShutdownCompletes`,
  `CallReturns`): fairness is out of the prover's reach.
* `FramesFindTheirSlot`, `SlotsNeverShared`, `RulesMeanConfigured`, `BucketCoversFrame`:
  parser and compiler are recursive over their input, which needs induction over data.
* `ConfiguredEntriesLive`, `EntriesWhole`, `BucketsMatchMask`: the write script of
  `CardTables` is put together by flattening a sequence of scripts of different lengths,
  and where an entry's words lie in it is a fact about that recursion.
* `HistogramKeepsStep`: it compares sums over all buckets, which are folds.

## Not modelled

* Characters: the scanner of `yaml.c` is its verdict on a document (duplicate keys,
  aliases, several documents); diagnostics, JSON, Prometheus text, `stats.c`,
  `frame_preview.c` and the command-line and web clients (the firmware command
  excepted) format state and change none.
* System calls as such: a call of VFIO, TAP or sockets succeeds or fails; BDF and
  sysfs parsing in `pci.c` and the SFP's I2C are left out.
* `packetwyrm-proxyd`: a relay that keeps no state of the tester.
* The MMIO punt and inject windows, used when the card has no DMA engine.
* Card internals behind their tables: the flow-row commit is one step in
  `CardTables`; generator pipeline, token refill, arbiters, stats snapshot and MAC
  crossing are listed under `components` and, where they carry one, as hazards. In
  `RxPath` the parser and classifiers are a decision chosen per frame.
* Vendor blocks (MAC, transceivers, XDMA core) beyond their use; metastability.

## Next

A position-by-position form of the script of `CardTables`, for which its three
invariants could be proved; the `RxFlowStats` theorems can be carried to `RxChecker`
through the refinement. Then the card internals named above, the flow-table commit walk
and the stats snapshot before the others.
