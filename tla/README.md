# Utilization Observatory: specification, model checking and proofs

This directory holds TLA+ modules for the Utilization Observatory, the TLC
configurations that check them on small instances, and TLAPS proofs for
unbounded parameters. `PROJECT.json` maps every definition to the source lines
it models and lists runs, mutants, findings, hazards and theorems.

## 1. The system

The observatory ingests observations of devices and workloads from many
sources, decides by epoch, authority, generation and identity which of them to
believe, turns begin/end pairs into spans, and answers questions about time
windows. Its history can be saved to a file and replayed.

| Component | State | Operations | Interaction | What makes it correct |
|---|---|---|---|---|
| Observatory core (`src/observatory.cpp`, `Impl`) | epoch, source table, three tables of generation marks, history deque, duplicate window (set and queue), counters | `ingest`, `register_source`, `mark_source_connected/disconnected`, `advance_epoch` | every thread calls it; one `shared_mutex` | a live authority is not displaced by an observation; generations never go back; counters, history and window agree |
| Device evidence store (`DeviceAccum`) | open intervals, closed spans, samples, bands, capacity | one effect per observation type | written by `ingest_locked` | spans are those the history calls for; buffers bounded; capacity follows the latest evidence |
| History file (`save`, `load`, `replay`) | a file and its temporary | copy under the shared lock, write and rename outside it; parse outside the exclusive lock, clear and replay inside it | races with every other call | a saved history replays; the replay rebuilds what was held |
| Interval algebra (`interval.hpp`, `merge_intervals`, ...) | none | intersect, merge, union, two-pointer sweep | used by every query | agrees with counting ticks |
| Queries (`device_window`, `gap`, `explain`, `workload`, `timeline`) | none | functions of the spans, under the shared lock | - | nothing is counted twice or lost at a window boundary |
| Freshness and health (`eval_freshness`, `snapshot`, `source_health`) | clock, last observation of a source | evaluation at query time | - | a silent source does not stay current |
| Coordinator process (`dist/coordinator.cpp`) | an observatory, one thread per connection, a save mutex | Hello, Observation, Query, Close; load and epoch advance at start | TCP frames from workers | the file on disk only grows and ends up complete; every connection ends; no source stays connected without a thread; old epochs rejected |
| Worker process (`dist/worker.cpp`) | epoch learnt, id counter | Hello, observations by mode, Close | TCP | an observation is lost to the duplicate gate only through another boot of the worker |
| Proof driver (`dist/proof.cpp`) | none | queries, observations without a Hello | TCP | as a client of the coordinator |
| Framed protocol (`dist/protocol.cpp`) | receive buffer | encode, reassemble, reject | below coordinator and worker | every legal frame is delivered once, in order, however reads split |
| Codec, CRC, digest; ids, enumerations, string tables; CLI; CUDA/NVML proof; examples, benchmarks, tests | - | - | - | - |

What is hard here: an observation passes seven gates in turn and a late gate can
reject it after earlier ones have changed state; ids and generations return
after disconnects, evictions and loads; the history is bounded while the
evidence derived from it is not; a save and a load each have a part outside the
lock, and a crash may fall into either; a connection thread acts on a source that
another connection may own by then; a query's reply is put together from
separately locked reads; reads of a socket return any part of a frame; staleness
is worked out from a clock and from ticks that may lie ahead of it; spans
overlap, nest and arrive out of order.

## 2. Modules

| Module | Models | Extends |
|---|---|---|
| `Accumulator` | `DeviceAccum` and the effect of one accepted observation on it | - |
| `Observatory` | the observatory's state, the gates, all operations that change it, save and load | `Accumulator` |
| `Ledger` | abstract: a bounded log with a file from which a prefix of it comes back | - |
| `MCObservatory`, `MCReload` | small instances; `MCReload` remembers what the devices held when the file was saved | `Observatory` |
| `Freshness`, `MCFreshness` | the clock, freshness and health of a source, the snapshot of a device | `Observatory` |
| `Coordinator`, `MCCoordinator` | the coordinator process, its connection threads, workers, query clients and clients without a Hello | `Observatory` |
| `MCRestart` | `MCCoordinator` with a history variable: the epochs that earlier runs have served and saved | `MCCoordinator` |
| `Intervals` | the interval algebra | - |
| `Windows`, `MCWindows` | the queries over closed spans | `Intervals` |
| `FramedConnection` | `send_frame`, `recv_frame` and the stream between them | - |
| `FrameQueue` | abstract: a queue of whole frames that may be cut off | - |
| `HistoryFile` | the layout of the history file and what `load` makes of a damaged one | - |
| `MCBytes` | small instances of the two byte formats | `FramedConnection`, `HistoryFile` |
| `Observatory_proofs`, `Bounds_proofs`, `Evidence_proofs` | theorems about `Observatory` | `Observatory` |
| `Freshness_proofs` | theorems about `Freshness` | `Freshness` |
| `Coordinator_proofs` | theorems about `Coordinator` | `Coordinator`, the proofs about `Observatory` |
| `Loops` | lemmas about loops written as recursive functions | - |
| `Windows_proofs` | theorems about `Intervals` and `Windows` | `Windows`, `Loops` |
| `Bytes_proofs` | theorems about `FramedConnection` and `HistoryFile` | `FramedConnection`, `HistoryFile`, `Loops` |

Composition: `Freshness` and `Coordinator` take the steps of one `Observatory`
and add a clock or processes to it. `Observatory` implements `Ledger`
(`LedgerKept`), and so does `Coordinator` with its restarts; `FramedConnection`
implements `FrameQueue` (`FramesInOrder`). `Coordinator` relies on the queue:
its `wire` is one, and the death of a client may cut off its suffix. `LoadParse`
of `Observatory` relies on `HistoryFile`: a file is parsed as it was written or
refused before anything changes.

### Observatory

State variables carry the names of the members of `Impl`. The counters `a_*`
are one function `health`; the file on disk, the save in progress and the load
in progress are `file`, `saver` and `loader`. `historical_mode` is the predicate
that the load is replaying, which is exactly while the code has the flag set.

`ingest_locked(o, st)` is a disjunction with one action per `return` of the
function. The guards are cumulative (`PassesEpoch`, `PassesAuthority`,
`PassesConnection`, `PassesDevice`, ... in the order of the code) and each
rejection keeps the changes of the gates before it: an authority that was
adopted, marks that were raised, an id that was remembered before validation.

Each operation under the exclusive lock is one action. `save` is
`SaveSnapshot` (copy under the shared lock) followed by one of `SaveReplaces`,
`SaveFails` and `SaveLosesFile` (the rename fallback that removes the old file
first). The coordinator serialises its saves with a mutex, so one save at a time
is enough. `load` is `LoadParse` outside the lock, then `LoadClear`,
`LoadStep` for every iteration of the replay loop, and `LoadReturns`, with every
other locked operation disabled from `LoadClear` to `LoadReturns`.

Abstractions: ids, generations and ticks are naturals with 0 the invalid id.
The six scope ids of an interval key are one field, because the code only
compares them all together. Ratio and percent are integers in hundredths, and a
value outside 0..100 stands for NaN, infinity and out of range alike. Per-source
counters, names, wall-clock time, provenance and labels are left out: no
operation reads them back. Naturals are unbounded: no counter of the core is
reduced and 64-bit overflow is out of reach of its inputs.

### Ledger

The abstract log knows nothing of gates, authorities or replay. An entry may be
recorded if it `MayFollow` every entry kept, the oldest one gives way at the
bound, a save stores the copied log as a whole or not at all or loses the file,
and a load restores a prefix of what it parsed in one step. The refinement
mapping takes the history to `log` except while a load replays, when `log` is
empty: the prefix that grows inside the exclusive lock is not visible to anyone.

### Freshness

`now` is the monotonic clock, whose origin is unspecified. `eval_freshness`,
`eval_health`, `source_health` and `snapshot` are operators over the clock and
the state, as in the code, where nothing is stored when a source falls silent.
`Elapsed` is the code's guarded subtraction. The window of zero length that
`snapshot` computes is left out. `live` is a history variable and no part of the
program: the sources that a call has changed since the last load (`Listen`), so
that `LoadNeedsRevalidation` can say what makes a source current again.

### Coordinator

`up` is how far `main` has come, `conn` the connection thread of each client,
`wire` the frames on their way to it, `eof` the clients that have closed or
died, and `worker` the worker processes. A worker process is a worker id, a
boot, a mode and whether it stays; `Script` is what each mode sends.

`StartLoad`, `Serve` and `Restart` are `main`. A restart may come at any point:
it empties every variable of the observatory except the file, and the file too
if it falls between the removal and the second rename of a save; then it loads
the file if it exists. The actions of a thread are one per kind of frame
(`RecvHello`, `RecvObservation`, `RecvQuery` and its second read `Reply`) and the
end of the loop: `Leave` marks the source disconnected, `Copy` takes the mutex
`g_save` and copies the history, `Write` writes the copy and releases it. The
`saver` of `Observatory` stands for the mutex: `SaveSnapshot` needs it idle.

Abstractions: the reply to Hello arrives in the step that sends it, which loses
nothing as the epoch is fixed while the coordinator serves; of the body of a
reply the window and the counters are kept, by the number of observations each
reflects; a worker whose coordinator was restarted takes no further step, since
it never connects again and everything it sends fails.

### FramedConnection and HistoryFile

Both are sequences of cells or items rather than bytes: version, length and
checksum of a frame and one cell per unit of payload; magic, header fields,
count, and length, fields and checksum of every record. A checksum is taken to
tell every payload from every other; that is the one assumption about CRC-32C.
The socket may take and return any number of cells at a time, lose what is on
its way, and alter one cell. The file may be altered in any item, cut anywhere or
extended by an item or by a whole record.

### Intervals and Windows

A loop of the code is a function of the number of iterations done: `out` of
`merge_intervals`, with `MergeOne` the loop body; `total` of `union_duration`; `at`
of the two-pointer sweep, with `SweepOne` one iteration and the two positions and
the total so far its state. `std::sort` is `ranked`: any order of the elements in
which nothing stands behind what it precedes, since the code sorts by strict weak
orders and `std::sort` promises no more (elements that compare equal keep no
particular order). `Windows` has the span lists as its only state. It grows by
the push of a closed span and each query is an operator over it. Ratios are kept
as their numerators; the denominator is the window length.

## 3. Runs

| Run | Instance | Checks |
|---|---|---|
| `gates` | three scenarios: 2 epochs, 3 authorities of one source, 2 device generations, malformed or not (4 calls); device, workload and evidence generations moving separately (4 calls, 1 load); 3 ids through a window of 1 (5 calls, 1 load, 1 failed save); history of 2 | `ReplayInv`, `HistoryInGenerationOrder`, `ReplayNeverStale`, `LedgerBalances`, `ReconnectsAccounted`, `DedupConsistent`, `ReloadSucceeds`, `ReplayRebuildsPrefix`, `LiveAuthorityKept` |
| `reload` | two scenarios: begins and ends of two attempts; samples, bands, fragmentation and capacity evidence; 4 calls, 1 load, nothing trimmed | `TypeOK`, `SamplesBounded`, `SpansMatchHistory`, `CapacityMatchesHistory`, `EvidenceInv`, `ReloadRebuildsEvidence`, `LedgerKept` |
| `freshness` | one source with two boots, reports at ticks 0, 1 and 3, a clock from 0 to 6, thresholds 1 and 2; 3 calls, 1 load | `LoadNeedsRevalidation`, `FreshnessDecays`, `SilenceNoticed` |
| `coordinator` | 2 boots of one worker (one executes and closes, one samples and stays), 1 query client, 1 client with an old observation; 3 events | `CoordinatorInv`, `HistoryOnDisk`, `NoPhantomSource`, `RepliesInOrder`, `ConnectionsEnd`, `HistoryNeverShrinks`, `OnlyAnotherBootCollides`, `LedgerKept` |
| `bytes` | streams of up to 3 frames with sizes up to and beyond the limit, reads of up to 6 cells, 1 damaged cell; files of up to 2 observations, 1 damage | `FramesInOrder`, `Delivered`, `RefusedOnlyNearLimit`, `IntactOrRefused` |
| `windows` | all lists of up to 3 spans over ticks 0..3, on 2 devices and of 2 workloads, every window; device 2 has at most one span | `MergedDisjoint`, `BusyIsMeasure`, `OverlapIsMeasure`, `WindowsAdd`, `ContributorsComplete`, `WorkloadMergesDevices`, `TimelineCoversWindow` |
| `stale_generation`, `reload_malformed`, `validate_state`, `boot_overlap`, `restart_epoch`, `snapshot_mixed` | see section 4 | one property each, violated |

Bounds. A scenario of `MCObservatory` is a universe of observations with bounds
on the mutating calls, the loads, the failed saves and the epoch; every
behaviour follows one scenario. `MCFreshness` has `MaxCalls`, `MaxLoads` and
`MaxTime`. In `MCCoordinator` a connection, a restart and a failed save are
events, and `MaxEvents` bounds their number in any mixture; `Rounds` is how often
a worker repeats an execution. `restart_epoch` needs 3 of them, one each: a worker
that is served and saved by the first run, a restart, and a client with an epoch
of the first run. `MCBytes` bounds the file by `MaxSaved` and
`MaxDamages`, and `MaxSpans` bounds the lists of `Windows`.

They are chosen so that the case of interest needs fewer: displacing an
authority takes a registration, a disconnect, an adoption and a late
observation; a duplicate returns after one other id; crossing intervals take two
begins and two ends; a strictly nested span needs four ticks; a late thread needs
two boots, and a save that could overtake another needs two threads; a clock of 6
passes both thresholds after an observation at tick 3, which may lie ahead of it.
`max_observations`, `dedup_capacity` and `sample_limit` are small enough to be
reached where a property is about them and out of reach elsewhere. In `bytes` one
read can return more than a header, so that a frame of the largest size and the
start of the next one can arrive together. One damage to a file is enough for
the claim that is made: two that match, such as a lowered count and a cut at the
record it leaves out, make a shorter valid file. Each property has a mutant of
the code it is about that it catches under the same configuration.

Fairness. `Coordinator` assumes weak fairness of `main`'s startup and of each
connection thread: they are operating system threads, which the scheduler runs
while they can run. Nothing is assumed of the clients, which may be silent for
ever, of the network beyond TCP's notice that a peer is gone, or of restarts.
Weak fairness is enough for `g_save` as well: a thread takes it once per query
and once at its end, so others cannot hold it again and again for ever.
`FramedConnection` assumes that the receiving thread keeps calling `recv_frame`,
as every loop around it does, and nothing of the sender. `MCFreshness` assumes
that the clock runs. The `Observatory` instances state safety only.

`ReadOnly` stands for the queries and for calls that fail before they change
anything, and `Idle` for a network that rests; they make the bounded instances
free of deadlock, so no run needs to disable the check.

Some properties hold under a condition, and it is worth knowing it.
`ReloadSucceeds`: no malformed submission in between; the run `reload_malformed`
shows what happens otherwise. `SpansMatchHistory`, `CapacityMatchesHistory` and
`ReloadRebuildsEvidence`: nothing was trimmed; evidence of a trimmed observation is
kept in memory and lost on reload, by design of a bounded history.
`HistoryNeverShrinks`: nothing was trimmed, and this run of the coordinator has
loaded the whole file; a load that stops leaves a shorter history, which the next
save writes over the longer file. `Delivered` and
`RefusedOnlyNearLimit`: frames so close to `kMaxFrame` that one more read can
overrun the buffer guard may be refused although they are legal; with the
code's 4096-byte reads that concerns frames within about 4096 bytes of the limit.
`NoPhantomSource`: only workers that said Hello have reported; a client that
sends an observation without one brings its source up for good.
`OnlyAnotherBootCollides` bounds a loss that is in the code: ids start over at
every boot, so a new boot's first observations are dropped while the old boot's
are remembered; nothing else may be taken for a duplicate, neither what the same
boot sends next nor what another worker sends. `ContributorsComplete` is about the
12 categories `gap` ranks, of which `MemoryBound` is not one. `WindowsAdd` is checked
for the categories of the run and proved for every one.

## 4. Disagreements between code and documents

* `stale_generation`: any generation or boot that differs from a disconnected
  source's own is adopted, older ones too, while the README of the repository
  says stale generations and boots are rejected.
* `reload_malformed`: malformed observations consume duplicate-window slots, so
  an id can be accepted twice closer together than the window is long in terms
  of accepted observations; the saved file then fails its own replay.
* `validate_state`: the sum of non-useful, overhead and retry time can exceed the
  busy time when their spans overlap, which the command `validate-state` and the
  property tests assert cannot happen.
* `boot_overlap`: when a worker dies and its new boot registers before the thread
  of the old connection has ended, that thread marks the source of the new boot
  disconnected. The new boot's observations are then rejected for as long as its
  connection lasts, while the README says a fresh boot re-establishes authority.
* `restart_epoch`: every run of the coordinator serves at epoch 2, because the
  epoch in the file is read and thrown away, while the README says old-epoch
  traffic is rejected after a restart. In the trace the first run serves a worker
  at epoch 2, accepts its sample and saves it when the connection ends; the
  second run starts on that file, replays the sample, and accepts an observation
  of epoch 2 from a client it never answered. `OldEpochRejected` speaks only of
  epochs that an earlier run has served and left in the file (`served` of
  `MCRestart`): a coordinator that resumed after the epochs it finds in its file
  would satisfy it.
* `snapshot_mixed`: a snapshot is marked consistent when the owning source is
  current, although the vendor sample it shows may be older than the staleness
  threshold, while `view.hpp` says observations from very different times are
  never mixed without marking that.

## 5. Proofs

The theorems hold for every set of observations, every set of source
descriptors, every `max_observations`, `dedup_capacity`, `sample_limit` and
threshold, any number of calls, saves, loads, clients and restarts, every list
of spans, every list of frames, every way the socket splits, breaks or damages
the stream, and history files of any length and field values. Assumptions on
constants (`ConfigAssumption`,
`SampleLimitAssumption`, `ThresholdsAssumption`, `ObservationsAssumption`,
`SourceInfosAssumption`, `TicksAssumption`, `UniverseAssumption`,
`WindowsAssumption`, `ClientsAssumption`, `RoundsAssumption`, `LimitsAssumption`,
`OutboxesAssumption`, `FileAssumption`): observations, descriptors and spans have
the field types of the code, the configuration values are naturals, the devices of
`Windows` are finitely many, `Observations` contains what the workers of `Coordinator` send,
a frame has at least its kind byte, and an observation has a field and fits the
largest record.

| Module | Theorems |
|---|---|
| `Observatory_proofs` | `TypeCorrect` (`TypeOK`), `ReplayInvariant` (`ReplayInv`), `LedgerAlwaysBalances`, `HistoryAlwaysInGenerationOrder`, `SavedHistoryNeverStale`, `ReplayAlwaysRebuildsPrefix`, `ObservatoryImplementsLedger` (`Spec => LedgerKept`) |
| `Bounds_proofs` | `WindowAlwaysConsistent`, `SamplesAlwaysBounded`, `LiveAuthorityAlwaysKept`, `ReconnectsAlwaysAccounted`, `SavedHistoryReloads` |
| `Evidence_proofs` | `EvidenceInvariant` (`EvidenceInv`), `SpansAlwaysMatchHistory`, `CapacityAlwaysMatchesHistory` |
| `Freshness_proofs` | `FreshnessOnlyDecays`, `LoadAlwaysNeedsRevalidation` |
| `Coordinator_proofs` | `CoordinatorCorrect` (`CoordinatorInv`), `NoPhantomEver`, `RepliesAlwaysInOrder`, `HistoryReachesDisk`, `FileOnlyGrows`, `CoordinatorImplementsLedger` |
| `Bytes_proofs` | `ConnInvariant` (`ConnInv`), `FramesAlwaysInOrder` (`ConnSpec => FramesInOrder`), `RefusedAlwaysNearLimit`, `FileAlwaysIntactOrRefused` (`MaxDamages <= 1`) |
| `Windows_proofs` | `SpansAlwaysMergeDisjoint`, `BusyAlwaysMeasure`, `OverlapAlwaysMeasure`, `WindowsAlwaysAdd`, `UsefulWithinBusy`, `WorkloadAlwaysMergesDevices`, `ContributorsAlwaysComplete`, `TimelineAlwaysCoversWindow` |

The replay argument. That a load is never stopped by a generation gate is not
inductive: the load resets the marks and starts from a file written by an
earlier execution. `ReplayInv` adds (a) `MarksCoverHistory`: the marks are at
least every generation in the history, so an observation that is not stale may
follow everything retained; (b) `CommittedEverywhere`: history, copy, file and
parsed file are each well formed, bounded and in generation order, a fact that
is carried along when the save copies, the rename replaces and the load parses;
(c) `LoadPosition`: during a replay the history is the prefix replayed so far
and no mark exceeds what a remaining observation carries, because marks are
raised only by the prefix and the file is in order. Since the file is bounded by
`max_observations`, the replay drops nothing, and the ledger balances throughout.

The refinement argument. Every return of `ingest` either leaves the history alone
and is a stutter, or appends an observation that by `MarksCoverHistory` may
follow everything retained and is `Record`. `LoadClear` is `Clear`, the
iterations of the replay are hidden by the mapping, and `LoadReturns` is
`Restore` because `LoadPosition` makes the history a prefix of the parsed file.

The bounds. `DedupConsistent` and the bound on every sample buffer are inductive
beside `TypeOK`; `remember_obs_id` gets a lemma of its own (it keeps set and queue
equal and free of repetitions, at a capacity of 0 too), and so does each effect
on a device. `LiveAuthorityKept` follows step by step: adoption needs a
disconnected source, and clearing needs a load. `ReconnectsAccounted` needs to
know how many sources a load in progress has yet to put down (`ReconnectInv`).

The reload. `SavedHistoryReloads` is proved for sources that submit nothing
malformed (`NoneMalformed`), and `reload_malformed` shows that it is false
without that. Then the ids in the window are those of the last observations of
the history, so two equal ids in a saved history are further apart than the
window is long, and the replay, which runs through the same window, does not meet
the first of them at the second (`ReloadInv`).

The evidence. That the closed spans are those the history calls for is not
inductive, since the next END looks at the open intervals: `EvidenceInv` says
the table of open intervals follows the history too, and that the history holds
nothing about a device that is not known. Each kind of observation then extends
the set of closed pairs by one element or by none. The invariant holds during a
replay as before it; it needs that nothing has been dropped.

Freshness. `Elapsed` grows with the clock wherever the last observation lies; the
thresholds do the rest, in any order of the two. After a load every source is
down, and what comes up again is in `live`.

The coordinator. `CoordinatorInv` is the conjunction of the invariants of the
observatory and those that tie its processes together: `EpochsAgree`,
`MainInOrder` and `HelloFirst` say in which order `main`, the threads and the
clients can act; `SourcesServed` gives every connected source its thread, which
makes `NoPhantomSource` inductive; `ReadsInOrder` remembers what the first read of
a query saw; `NothingForgotten` says that what is not on disk has a thread that is
yet to copy it, from which `HistoryOnDisk` follows when no thread is left; and
`CopiesExtend` says that file, copy and history extend one another, from which
`HistoryNeverShrinks` follows for the rename. The mutex matters here: it is what
makes the copy in progress the newest one. Every step of a thread is a step of
the observatory or leaves it alone, and a restart is a crash of the ledger.

The connection. `ConnInv` speaks of one sequence, what the receiver has
buffered followed by what is on the wire (`Stream`), so that a read, which moves
cells from one to the other, leaves it alone. There are frames begun, those sent and
at most one more, and positions in the stream at which they end, such that every
cell is what has become of the cell written at its place (`Laid`: the same, or,
after a damage, altered), and `Extent` says how far the stream reaches: to the end
of what was sent unless the connection is broken, and together with what `send` has
not taken yet to the end of what was begun. By `Decoding` a buffer that begins
with what has become of a frame decodes as that frame or not at all: an altered
length moves the payload the checksum is compared with, and a checksum that
matches fixes both. So `ReturnFrame` returns the next frame sent; an orderly end
with an empty buffer leaves no room for a frame that was sent and not received
(`EndHasAll`); and an intact buffer is never corrupt, so that it is refused only
by the guard on its size, one read after it held less than one frame
(`RecvRefuses`). The number of damaged cells is 1 in the model, as a bound for the
runs; `Decoding` itself does not count them.

The file. `FileInv` says that an undamaged file is what save wrote (`Wrote`, the
invariant of the writing loop: record j lies `(j - 1) * (kFields + 2)` items behind
the header), so the first damage meets a file of that shape. The reader's loop
(`After`) has read n records exactly if each has the expected length and a
checksum that matches what lies before it, and stands at `Base(n)` then, which
`Consumed` compares with the length of the file. So a file whose count is what it
was is refused by its length once it was cut or extended (`OtherLength`); in one
of the old length the count must be the old one, and a record that reads is the
one its checksum was computed for (`ReadsWritten`, `SameLength`). The theorem
assumes at most one damage since the last save, and that is as far as it goes: the
count is not covered by a checksum, so a count raised by one together with a valid
record appended loads, with one observation more than was saved (TLC finds it with
`MaxDamages = 2`).

Intervals and queries. The prover has no induction over data, so the loops are
treated by hand: a set of naturals that is not empty has a least element
(from the library's well-foundedness of the naturals), hence a set with 0 and
every successor is all of them (`NatInduct`), hence a loop has exactly one run
(`Loop`). Each loop gets an invariant in terms of the ticks covered so far:
`merge_intervals` keeps its list disjoint, ordered and free of empty intervals and
covers what it was given (`MergeRuns`); `union_duration` of such a list is the
number of ticks covered (`UnionMeasure`); the sweep has counted the ticks common to
both lists before the positions it has reached (`SweepMeasure`), because the
interval it leaves behind ends no later than the other list's and can meet nothing
further on. `sort` has its own argument: a finite set can be put in an order in
which nothing stands behind what it precedes, whatever the ties (`RankedShape`).
From there `busy` and `overlap` are numbers of ticks, and statements about
windows become statements about finite sets: whatever counts the ticks of a set
adds up over adjacent windows (`CountAdds`; the set is the ticks of any category,
the busy ticks, those of both compute and transfer, or the uncovered ones), useful
lies within busy, a workload's devices are merged and not added, contributors are
complete, and the timeline has every span that begins in the window or covers a
tick of it.

Only model-checked. Liveness under fairness (`ConnectionsEnd`, `SilenceNoticed`,
`Delivered`) is out of the prover's reach. `OnlyAnotherBootCollides` would need the
id arithmetic of every mode's script; `ReloadRebuildsEvidence` compares two runs of
the same loop; both are planned. The properties of the violation runs are false,
and their runs are the counterexamples.

## 6. Not modelled, and plan

Not modelled: the bytes of a field and the polynomial of the CRC, the digest
and `replay()`, which only read; string tables and formatting; the CLI's printing;
CUDA and NVML, which produce observations the models already contain; the script
of the proof driver, examples, benchmarks and tests; `explain` beyond the
numerators it shares with `gap`; the branch of `recv_frame` for a non-blocking
socket, as the sockets block. Configuration bounds that no code reads
(`max_sources`, `max_devices`, `max_open_intervals`, `max_events_per_query`) have
no counterpart.

Planned, in this order:

1. `ReloadRebuildsEvidence` for every history, by the lemmas of `Loops`: what the
   devices hold is the iteration of `Accumulate` over the history, and the replay
   is the same iteration.
2. `OnlyAnotherBootCollides`, from an invariant on the ids of each boot.
