---------------------------- MODULE Observatory ----------------------------
(***************************************************************************)
(* The in-memory observatory (struct UtilizationObservatory::Impl) with    *)
(* its authority gate, generation high-water marks, duplicate window,      *)
(* bounded history and per-device evidence, together with the save and     *)
(* load of the history file.                                               *)
(*                                                                         *)
(* Every operation that holds the shared mutex exclusively is one action.  *)
(* save copies the history under the lock and writes it after releasing    *)
(* it, so it is two actions.  load parses outside the lock and then holds  *)
(* it while it clears the state and replays the parsed observations; the   *)
(* replay loop is one action per iteration, and no other operation can run *)
(* in between (Unlocked).                                                  *)
(*                                                                         *)
(* Left out: the per-source counters and the cached freshness, health,     *)
(* backend, worker, host and wall-clock fields of SourceInfo, which no     *)
(* operation reads back (eval_freshness recomputes the two that are        *)
(* shown), and a_backend_errors, which nothing increments.                 *)
(***************************************************************************)
EXTENDS Accumulator, FiniteSets

CONSTANTS
    Observations,       \* the observations sources may submit
    SourceInfos,        \* the descriptors register_source may be given
    Ticks,              \* the times a caller may pass to mark_source_*
    InitialEpoch,       \* Config::epoch
    max_observations,   \* Config::max_observations
    dedup_capacity      \* Config::dedup_capacity

ASSUME ObservationsAssumption == Observations \subseteq ObservationRecords
ASSUME SourceInfosAssumption ==
    SourceInfos \subseteq [id : Nat, generation : Nat, boot : Nat,
                           capabilities : SUBSET Capabilities, last_observation : Nat]
ASSUME TicksAssumption == Ticks \subseteq Nat
ASSUME ConfigAssumption ==
    InitialEpoch \in Nat /\ max_observations \in Nat /\ dedup_capacity \in Nat

VARIABLES
    epoch,          \* coordinator epoch
    sources,        \* SourceId -> SourceState
    devices,        \* DeviceId -> DeviceAccum
    device_gens,    \* DeviceId -> highest generation seen
    workload_gens,  \* WorkloadId -> highest generation seen
    evidence_gens,  \* EvidenceId -> highest generation seen
    history,        \* accepted observations, oldest first
    dedup,          \* remembered observation ids
    dedup_order,    \* the same ids, oldest first
    health,         \* the a_* counters
    file,           \* the saved history on disk
    saver,          \* the save in progress
    loader          \* the load in progress

gens == <<device_gens, workload_gens, evidence_gens>>
ids == <<dedup, dedup_order>>
vars == <<epoch, sources, devices, gens, history, ids, health, file, saver, loader>>

SourceStates == [generation : Nat, boot : Nat, capabilities : SUBSET Capabilities,
                 last_observation : Nat, connected : BOOLEAN]

Statuses == {"Ok", "StaleAuthority", "SourceDisconnected", "StaleEvidence",
             "DuplicateObservation", "InvalidInput"}

SaverStates == [pc : {"idle", "writing"}, obs : Seq(Observations)]

LoaderStates == [pc : {"idle", "parsed", "replay"}, obs : Seq(Observations),
                 next : Nat \ {0}, st : Statuses]

HealthCounters == {"accepted", "rejected", "duplicates", "stale", "disconnects",
                   "reconnects", "persist_errors", "dropped"}

ZeroHealth == [c \in HealthCounters |-> 0]

Init ==
    /\ epoch = InitialEpoch
    /\ sources = EmptyMap
    /\ devices = EmptyMap
    /\ device_gens = EmptyMap
    /\ workload_gens = EmptyMap
    /\ evidence_gens = EmptyMap
    /\ history = <<>>
    /\ dedup = {}
    /\ dedup_order = <<>>
    /\ health = ZeroHealth
    /\ file = [exists |-> FALSE, obs |-> <<>>]
    /\ saver = [pc |-> "idle", obs |-> <<>>]
    /\ loader = [pc |-> "idle", obs |-> <<>>, next |-> 1, st |-> "Ok"]

(* historical_mode is set exactly while load holds the lock and replays. *)
historical_mode == loader.pc = "replay"
Unlocked == ~historical_mode

-----------------------------------------------------------------------------
(***************************************************************************)
(* The gates of ingest_locked, in the order the code applies them.         *)
(***************************************************************************)
NewSource(o) ==
    [generation |-> o.source_generation, boot |-> o.worker_boot, capabilities |-> {},
     last_observation |-> 0, connected |-> TRUE]

SourceOf(o) == IF o.source \in DOMAIN sources THEN sources[o.source] ELSE NewSource(o)

SameAuthority(o) ==
    /\ o.source_generation = SourceOf(o).generation
    /\ o.worker_boot = SourceOf(o).boot

(* Plausible bug: a foreign boot takes over a source that is still connected. *)
MutAdoptsConnected(o) == ~historical_mode /\ ~SameAuthority(o)

(* A disconnected source re-establishes authority with another boot or generation. *)
Adopts(o) == ~historical_mode /\ ~SameAuthority(o) /\ ~SourceOf(o).connected

AdmittedSource(o) ==
    CASE historical_mode ->
            [SourceOf(o) EXCEPT !.generation = o.source_generation, !.boot = o.worker_boot,
                                !.connected = TRUE]
      [] Adopts(o) ->
            [SourceOf(o) EXCEPT !.generation = o.source_generation, !.boot = o.worker_boot,
                                !.connected = TRUE, !.last_observation = o.begin]
      [] OTHER -> SourceOf(o)

(* Plausible bug: a lower generation is let through. *)
MutStaleNever(g, id, n) == FALSE

StaleGen(g, id, n) == id # 0 /\ id \in DOMAIN g /\ n < g[id]

(* Plausible bug: the first generation is stored, a higher one is not. *)
MutRaiseFirstOnly(g, id, n) == IF id # 0 /\ id \notin DOMAIN g THEN Put(g, id, n) ELSE g

Raise(g, id, n) ==
    IF id # 0 /\ (id \notin DOMAIN g \/ n > g[id]) THEN Put(g, id, n) ELSE g

PassesEpoch(o) == historical_mode \/ o.epoch = epoch

PassesAuthority(o) == PassesEpoch(o) /\ (historical_mode \/ SameAuthority(o) \/ Adopts(o))

PassesConnection(o) == PassesAuthority(o) /\ AdmittedSource(o).connected

PassesDevice(o) ==
    PassesConnection(o) /\ ~StaleGen(device_gens, o.device, o.device_generation)

PassesWorkload(o) ==
    PassesDevice(o) /\ ~StaleGen(workload_gens, o.workload, o.workload_generation)

PassesEvidence(o) ==
    PassesWorkload(o) /\ ~StaleGen(evidence_gens, o.evidence, o.evidence_generation)

PassesDedup(o) == PassesEvidence(o) /\ o.id \notin dedup

WellFormed(o) == o.end >= o.begin /\ o.ratio \in 0..100 /\ o.percent \in 0..100

-----------------------------------------------------------------------------
(***************************************************************************)
(* What ingest_locked changes.                                             *)
(***************************************************************************)
(* Add one to each of the counters C. *)
Count(C) == health' = [c \in HealthCounters |-> IF c \in C THEN health[c] + 1 ELSE health[c]]

(* Plausible bug: every admitted observation counts as a reconnection. *)
MutReconnectedAlways(o) == {"reconnects"}

(* Taking over a disconnected source is counted too, and like the new      *)
(* authority itself it stays whatever the later gates decide.              *)
Reconnected(o) == IF Adopts(o) THEN {"reconnects"} ELSE {}

Dropped == IF Len(history) < max_observations THEN {} ELSE {"dropped"}

Admit(o) == sources' = Put(sources, o.source, AdmittedSource(o))

Full == Cardinality(dedup) >= dedup_capacity /\ dedup_order # <<>>

(* Plausible bug: the evicted id leaves the order queue but not the set. *)
MutRememberKeepsOld(id) ==
    /\ dedup' = dedup \cup {id}
    /\ dedup_order' = Append(IF Full THEN Tail(dedup_order) ELSE dedup_order, id)

remember_obs_id(id) ==
    /\ dedup' = (IF Full THEN dedup \ {Head(dedup_order)} ELSE dedup) \cup {id}
    /\ dedup_order' = Append(IF Full THEN Tail(dedup_order) ELSE dedup_order, id)

RaiseDevice(o) == device_gens' = Raise(device_gens, o.device, o.device_generation)
RaiseWorkload(o) == workload_gens' = Raise(workload_gens, o.workload, o.workload_generation)
RaiseEvidence(o) == evidence_gens' = Raise(evidence_gens, o.evidence, o.evidence_generation)

DeviceOf(o) == IF o.device \in DOMAIN devices THEN devices[o.device] ELSE NewDevice

(* Plausible bug: the bound is tested before the push. *)
MutRetainOneMore(h, o) == IF Len(h) > max_observations THEN Tail(Append(h, o)) ELSE Append(h, o)

Retain(h, o) == IF Len(h) < max_observations THEN Append(h, o) ELSE Tail(Append(h, o))

-----------------------------------------------------------------------------
(***************************************************************************)
(* ingest_locked(obs): one disjunct per return statement.                  *)
(***************************************************************************)
RejectEpoch(o, st) ==
    /\ st = "StaleAuthority"
    /\ ~PassesEpoch(o)
    /\ Count({"stale"})
    /\ UNCHANGED <<sources, devices, gens, history, ids>>

RejectAuthority(o, st) ==
    /\ st = "StaleAuthority"
    /\ PassesEpoch(o) /\ ~PassesAuthority(o)
    /\ Count({"stale"})
    /\ UNCHANGED <<sources, devices, gens, history, ids>>

RejectDisconnected(o, st) ==
    /\ st = "SourceDisconnected"
    /\ PassesAuthority(o) /\ ~PassesConnection(o)
    /\ Count({"rejected"})
    /\ UNCHANGED <<sources, devices, gens, history, ids>>

RejectDevice(o, st) ==
    /\ st = "StaleEvidence"
    /\ PassesConnection(o) /\ ~PassesDevice(o)
    /\ Count({"stale"} \cup Reconnected(o))
    /\ Admit(o)
    /\ UNCHANGED <<devices, gens, history, ids>>

RejectWorkload(o, st) ==
    /\ st = "StaleEvidence"
    /\ PassesDevice(o) /\ ~PassesWorkload(o)
    /\ Count({"stale"} \cup Reconnected(o))
    /\ Admit(o)
    /\ RaiseDevice(o)
    /\ UNCHANGED <<devices, workload_gens, evidence_gens, history, ids>>

RejectEvidence(o, st) ==
    /\ st = "StaleEvidence"
    /\ PassesWorkload(o) /\ ~PassesEvidence(o)
    /\ Count({"stale"} \cup Reconnected(o))
    /\ Admit(o)
    /\ RaiseDevice(o) /\ RaiseWorkload(o)
    /\ UNCHANGED <<devices, evidence_gens, history, ids>>

RejectDuplicate(o, st) ==
    /\ st = "DuplicateObservation"
    /\ PassesEvidence(o) /\ ~PassesDedup(o)
    /\ Count({"duplicates"} \cup Reconnected(o))
    /\ Admit(o)
    /\ RaiseDevice(o) /\ RaiseWorkload(o) /\ RaiseEvidence(o)
    /\ UNCHANGED <<devices, history, ids>>

(* The id is remembered before the fields are validated. *)
RejectMalformed(o, st) ==
    /\ st = "InvalidInput"
    /\ PassesDedup(o) /\ ~WellFormed(o)
    /\ Count({"rejected"} \cup Reconnected(o))
    /\ Admit(o)
    /\ RaiseDevice(o) /\ RaiseWorkload(o) /\ RaiseEvidence(o)
    /\ remember_obs_id(o.id)
    /\ UNCHANGED <<devices, history>>

Accept(o, st) ==
    LET src == AdmittedSource(o)
    IN  /\ st = "Ok"
        /\ PassesDedup(o) /\ WellFormed(o)
        /\ sources' = Put(sources, o.source,
                          [src EXCEPT !.last_observation = Larger(@, o.begin)])
        /\ RaiseDevice(o) /\ RaiseWorkload(o) /\ RaiseEvidence(o)
        /\ remember_obs_id(o.id)
        /\ devices' = IF o.device = 0 THEN devices
                      ELSE Put(devices, o.device,
                               Accumulate(Own(DeviceOf(o), o, src.capabilities), o))
        /\ history' = Retain(history, o)
        /\ Count({"accepted"} \cup Reconnected(o) \cup Dropped)

ingest_locked(o, st) ==
    \/ RejectEpoch(o, st) \/ RejectAuthority(o, st) \/ RejectDisconnected(o, st)
    \/ RejectDevice(o, st) \/ RejectWorkload(o, st) \/ RejectEvidence(o, st)
    \/ RejectDuplicate(o, st) \/ RejectMalformed(o, st)
    \/ Accept(o, st)

-----------------------------------------------------------------------------
(***************************************************************************)
(* The public operations.                                                  *)
(***************************************************************************)
ingest(o) ==
    /\ Unlocked
    /\ \E st \in Statuses : ingest_locked(o, st)
    /\ UNCHANGED <<epoch, file, saver, loader>>

advance_epoch ==
    /\ Unlocked
    /\ epoch' = epoch + 1
    /\ UNCHANGED <<sources, devices, gens, history, ids, health, file, saver, loader>>

register_source(info) ==
    /\ Unlocked
    /\ sources' = Put(sources, info.id,
           [generation |-> info.generation, boot |-> info.boot,
            capabilities |-> info.capabilities,
            last_observation |-> info.last_observation, connected |-> TRUE])
    /\ UNCHANGED <<epoch, devices, gens, history, ids, health, file, saver, loader>>

mark_source_connected(s, t) ==
    /\ Unlocked
    /\ s \in DOMAIN sources
    /\ sources' = Put(sources, s, [sources[s] EXCEPT !.connected = TRUE, !.last_observation = t])
    /\ IF sources[s].connected THEN UNCHANGED health ELSE Count({"reconnects"})
    /\ UNCHANGED <<epoch, devices, gens, history, ids, file, saver, loader>>

mark_source_disconnected(s, t) ==
    /\ Unlocked
    /\ s \in DOMAIN sources
    /\ sources' = Put(sources, s, [sources[s] EXCEPT !.connected = FALSE, !.last_observation = t])
    /\ IF sources[s].connected THEN Count({"disconnects"}) ELSE UNCHANGED health
    /\ UNCHANGED <<epoch, devices, gens, history, ids, file, saver, loader>>

(* The read-only operations hold the lock shared (health exclusively) and  *)
(* change nothing, like every call that fails before it takes effect: an   *)
(* unknown source id, a history file that is absent or does not parse.     *)
ReadOnly ==
    /\ Unlocked
    /\ UNCHANGED vars

(***************************************************************************)
(* save: copy the history under the shared lock, then write it out.        *)
(***************************************************************************)
SaveSnapshot ==
    /\ Unlocked
    /\ saver.pc = "idle"
    /\ saver' = [pc |-> "writing", obs |-> history]
    /\ UNCHANGED <<epoch, sources, devices, gens, history, ids, health, file, loader>>

SaveReturns == saver' = [pc |-> "idle", obs |-> <<>>]

NoFile == [exists |-> FALSE, obs |-> <<>>]

(* Plausible bug: the writer reads the live history, not the copy. *)
MutWrittenLive == history

Written == saver.obs

SaveReplaces ==
    /\ saver.pc = "writing"
    /\ SaveReturns
    /\ file' = [exists |-> TRUE, obs |-> Written]
    /\ UNCHANGED <<epoch, sources, devices, gens, history, ids, health, loader>>

(* The temporary file cannot be opened, written or renamed. *)
SaveFails ==
    /\ saver.pc = "writing"
    /\ SaveReturns
    /\ Count({"persist_errors"})
    /\ UNCHANGED <<epoch, sources, devices, gens, history, ids, file, loader>>

(* The first rename fails, the old file is removed to make room, and the   *)
(* second rename fails as well: the temporary file is removed too.         *)
SaveLosesFile ==
    /\ saver.pc = "writing"
    /\ SaveReturns
    /\ Count({"persist_errors"})
    /\ file' = NoFile
    /\ UNCHANGED <<epoch, sources, devices, gens, history, ids, loader>>

(* Plausible bugs: part of the memory survives the clear. *)
MutClearNoGens == UNCHANGED gens
MutClearNoIds == UNCHANGED ids
MutClearNoDevices == UNCHANGED devices
MutClearNoHistory == UNCHANGED history

ClearGens == device_gens' = EmptyMap /\ workload_gens' = EmptyMap /\ evidence_gens' = EmptyMap
ClearIds == dedup' = {} /\ dedup_order' = <<>>
ClearDevices == devices' = EmptyMap
ClearHistory == history' = <<>>

(* The memory of an observatory that has just been constructed. *)
ClearMemory ==
    /\ sources' = EmptyMap
    /\ ClearDevices /\ ClearGens /\ ClearHistory /\ ClearIds
    /\ health' = ZeroHealth

(***************************************************************************)
(* load: parse the file, then clear and replay under the exclusive lock.   *)
(***************************************************************************)
LoadParse ==
    /\ loader.pc = "idle"
    /\ file.exists
    /\ loader' = [pc |-> "parsed", obs |-> file.obs, next |-> 1, st |-> "Ok"]
    /\ UNCHANGED <<epoch, sources, devices, gens, history, ids, health, file, saver>>

LoadClear ==
    /\ loader.pc = "parsed"
    /\ loader' = [loader EXCEPT !.pc = "replay"]
    /\ ClearMemory
    /\ UNCHANGED <<epoch, file, saver>>

Replaying == loader.pc = "replay" /\ loader.st = "Ok" /\ loader.next <= Len(loader.obs)

LoadStep ==
    /\ Replaying
    /\ \E st \in Statuses :
          /\ ingest_locked(loader.obs[loader.next], st)
          /\ loader' = [loader EXCEPT !.st = st, !.next = IF st = "Ok" THEN @ + 1 ELSE @]
    /\ UNCHANGED <<epoch, file, saver>>

(* Plausible bug: a replayed source stays connected. *)
MutStillConnected(src) == src

NeedsRevalidation(src) == [src EXCEPT !.connected = FALSE]

(* Every source needs revalidation once the replay is over. *)
LoadReturns ==
    /\ historical_mode /\ ~Replaying
    /\ sources' = [s \in DOMAIN sources |-> NeedsRevalidation(sources[s])]
    /\ loader' = [pc |-> "idle", obs |-> <<>>, next |-> 1, st |-> loader.st]
    /\ UNCHANGED <<epoch, devices, gens, history, ids, health, file, saver>>

(* The calls that change the in-memory state under the exclusive lock. *)
Call ==
    \/ \E o \in Observations : ingest(o)
    \/ \E info \in SourceInfos : register_source(info)
    \/ \E s \in DOMAIN sources, t \in Ticks :
          mark_source_connected(s, t) \/ mark_source_disconnected(s, t)
    \/ advance_epoch

Save == SaveSnapshot \/ SaveReplaces \/ SaveFails \/ SaveLosesFile

Load == LoadParse \/ LoadClear \/ LoadStep \/ LoadReturns

Next == Call \/ ReadOnly \/ Save \/ Load

Spec == Init /\ [][Next]_vars

-----------------------------------------------------------------------------
(***************************************************************************)
(* Properties.                                                             *)
(***************************************************************************)
IsGens(g) == IsMap(g, Nat, Nat)

(* Every variable keeps its type. *)
TypeOK ==
    /\ epoch \in Nat
    /\ IsMap(sources, Nat, SourceStates)
    /\ IsMap(devices, Nat, DeviceAccums)
    /\ IsGens(device_gens) /\ IsGens(workload_gens) /\ IsGens(evidence_gens)
    /\ history \in Seq(Observations)
    /\ dedup \subseteq Nat
    /\ dedup_order \in Seq(Nat)
    /\ health \in [HealthCounters -> Nat]
    /\ file \in [exists : BOOLEAN, obs : Seq(Observations)]
    /\ saver \in SaverStates
    /\ loader \in LoaderStates

(* The accepted counter, the dropped counter and the retained history      *)
(* agree, before, during and after any load, and the history never exceeds *)
(* max_observations.                                                       *)
LedgerBalances ==
    /\ health["accepted"] = health["dropped"] + Len(history)
    /\ Len(history) <= max_observations

(* The id set and the eviction queue of the duplicate window hold the same *)
(* ids, each once, and never more than the configured capacity.            *)
DedupConsistent ==
    /\ dedup = {dedup_order[i] : i \in 1..Len(dedup_order)}
    /\ \A i, j \in 1..Len(dedup_order) : dedup_order[i] = dedup_order[j] => i = j
    /\ Len(dedup_order) <= Larger(1, dedup_capacity)

(* Observation b may follow a: no generation of an entity both are about   *)
(* goes down.                                                              *)
NotOlder(a, b) ==
    /\ a.device # 0 /\ a.device = b.device =>
          a.device_generation <= b.device_generation
    /\ a.workload # 0 /\ a.workload = b.workload =>
          a.workload_generation <= b.workload_generation
    /\ a.evidence # 0 /\ a.evidence = b.evidence =>
          a.evidence_generation <= b.evidence_generation

InGenerationOrder(h) == \A i, j \in 1..Len(h) : i <= j => NotOlder(h[i], h[j])

(* The retained history never goes back to a superseded generation of a    *)
(* device, a workload or a piece of evidence, although sources come and    *)
(* go, observations are rejected half-way through the gates, and loads     *)
(* reset the high-water marks.                                             *)
HistoryInGenerationOrder == InGenerationOrder(history)

(* The observatory implements the ledger: whatever gates, counters, marks  *)
(* and devices do, an accepted observation may follow the whole retained   *)
(* history, a save stores a copy of the history as it once was, and a load *)
(* brings back a prefix of the file and nothing else.  While a load replays *)
(* the history counts as empty: no other operation sees it.                *)
L == INSTANCE Ledger WITH
        Entries <- Observations, bound <- max_observations, MayFollow <- NotOlder,
        log <- IF historical_mode THEN <<>> ELSE history,
        copy <- saver.obs, disk <- file.obs, parsed <- loader.obs,
        loading <- historical_mode

LedgerKept == L!Spec

(* A saved history always replays through the generation, authority, epoch *)
(* and validity gates: the only status that can stop a load is a duplicate *)
(* observation id.                                                         *)
ReplayNeverStale == loader.st \in {"Ok", "DuplicateObservation"}

(* While a load replays the file, the rebuilt history is exactly the part  *)
(* of the file replayed so far, nothing of it having been dropped.         *)
ReplayRebuildsPrefix ==
    historical_mode => history = SubSeq(loader.obs, 1, loader.next - 1)

(***************************************************************************)
(* What makes the properties above inductive.                              *)
(***************************************************************************)
Covers(g, id, n) == id # 0 => id \in DOMAIN g /\ n <= g[id]

(* The high-water marks cover everything the history retains. *)
MarksCoverHistory ==
    \A i \in 1..Len(history) :
        /\ Covers(device_gens, history[i].device, history[i].device_generation)
        /\ Covers(workload_gens, history[i].workload, history[i].workload_generation)
        /\ Covers(evidence_gens, history[i].evidence, history[i].evidence_generation)

(* A history as it is kept, copied, saved and parsed. *)
Committed(h) ==
    /\ Len(h) <= max_observations
    /\ \A i \in 1..Len(h) : WellFormed(h[i])
    /\ InGenerationOrder(h)

CommittedEverywhere ==
    Committed(history) /\ Committed(saver.obs) /\ Committed(file.obs) /\ Committed(loader.obs)

NoneStale(o) ==
    /\ ~StaleGen(device_gens, o.device, o.device_generation)
    /\ ~StaleGen(workload_gens, o.workload, o.workload_generation)
    /\ ~StaleGen(evidence_gens, o.evidence, o.evidence_generation)

(* Where a load is: a parsed file has not been touched, and a replay has   *)
(* rebuilt the observations before next and raised no mark above what the  *)
(* remaining ones carry.                                                   *)
LoadPosition ==
    /\ loader.pc = "parsed" => loader.next = 1
    /\ historical_mode =>
          /\ loader.next = Len(history) + 1
          /\ Len(history) <= Len(loader.obs)
          /\ \A i \in 1..Len(history) : history[i] = loader.obs[i]
          /\ \A i \in loader.next..Len(loader.obs) : NoneStale(loader.obs[i])

(* The inductive invariant behind LedgerBalances, HistoryInGenerationOrder, *)
(* ReplayNeverStale and ReplayRebuildsPrefix: counters and history agree,  *)
(* the marks cover the history, every copy of the history is committed,    *)
(* and a load is where LoadPosition says.                                  *)
ReplayInv ==
    /\ LedgerBalances
    /\ MarksCoverHistory
    /\ CommittedEverywhere
    /\ LoadPosition
    /\ ReplayNeverStale

(* A saved history always loads completely. *)
ReloadSucceeds == loader.st = "Ok"

(* Two observations of h that the duplicate window can hold together have  *)
(* different ids.                                                          *)
WindowSize == Larger(1, dedup_capacity)

IdsApart(h) ==
    \A i, j \in 1..Len(h) : i < j /\ j - i <= WindowSize => h[i].id # h[j].id

(* The window holds the ids of the latest observations of the history, as  *)
(* many as it has room for, and during a load none but those.              *)
WindowFollowsHistory ==
    LET d == Len(dedup_order)
        n == Len(history)
    IN  /\ \A k \in 0..(d - 1) : k < n => dedup_order[d - k] = history[n - k].id
        /\ d >= n \/ d = WindowSize
        /\ historical_mode => d <= n

(* What makes ReloadSucceeds inductive as long as no source submits        *)
(* malformed observations, whose ids would enter the window as well.       *)
ReloadInv ==
    /\ WindowFollowsHistory
    /\ IdsApart(history) /\ IdsApart(saver.obs) /\ IdsApart(file.obs) /\ IdsApart(loader.obs)
    /\ ReloadSucceeds

(* BEGIN observation b and END observation e delimit the same interval. *)
Pairs(b, e) ==
    /\ b.type \in BeginTypes /\ e.type \in EndTypes /\ pair_type[e.type] = b.type
    /\ b.source = e.source /\ b.device = e.device /\ b.device # 0
    /\ b.workload = e.workload /\ b.scope = e.scope

(* END j of the history h closes BEGIN i: the interval was neither begun   *)
(* again nor ended in between.                                             *)
Closes(h, i, j) ==
    /\ i < j /\ Pairs(h[i], h[j])
    /\ \A k \in (i+1)..(j-1) :
          ~Pairs(h[i], h[k]) /\ ~(h[k].type = h[i].type /\ Pairs(h[k], h[j]))

Closed(h, d) ==
    {p \in (1..Len(h)) \X (1..Len(h)) : h[p[1]].device = d /\ Closes(h, p[1], p[2])}

(* Span e is the one that END f makes of BEGIN b. *)
SpanOf(e, b, f) ==
    LET own == default_category(f.type, f.classification, f.state)
    IN  /\ e.obs = b.id
        /\ e.begin = b.begin
        /\ e.end = Larger(b.begin, f.end)
        /\ e.cat = IF own = "Unknown" THEN b.state ELSE own

SpansMatch(h, d, dev) ==
    /\ Len(dev.events) = Cardinality(Closed(h, d))
    /\ \A p \in Closed(h, d) : \E n \in 1..Len(dev.events) :
          SpanOf(dev.events[n], h[p[1]], h[p[2]])

(* The spans a device has are those its retained history calls for: each   *)
(* END observation closes the latest unclosed BEGIN of its interval, no    *)
(* BEGIN is closed twice, ends that come early close an empty span, and    *)
(* the END's own category wins over the BEGIN's.                           *)
SpansMatchHistory ==
    health["dropped"] = 0 =>
        \A d \in DOMAIN devices : SpansMatch(history, d, devices[d])

(* Disconnections and reconnections are counted in pairs: the reconnect    *)
(* counter and the sources still down never exceed the counted             *)
(* disconnections by more than the sources a load may have put down.       *)
ReconnectsAccounted ==
    health["reconnects"] + Cardinality({s \in DOMAIN sources : ~sources[s].connected})
        <= health["disconnects"] + Cardinality(DOMAIN sources)

(* The sources a load has yet to put down are not counted twice: nothing   *)
(* is taken for a reconnection while it replays.                           *)
ReconnectInv ==
    /\ IsFiniteSet(DOMAIN sources)
    /\ historical_mode => health["reconnects"] = 0
    /\ ReconnectsAccounted

(* A connected source changes generation or boot only by registering       *)
(* again: no observation, however the gates treat it, displaces a live     *)
(* authority.                                                              *)
Authority(s) == <<sources[s].generation, sources[s].boot>>

LiveAuthorityKept ==
    [][\A s \in DOMAIN sources \cap DOMAIN sources' :
          Unlocked /\ sources[s].connected /\ Authority(s)' # Authority(s)
            => \E info \in SourceInfos : info.id = s /\ register_source(info)]_vars

(* An observation of an older source generation than the one the source    *)
(* has established is never accepted.                                      *)
StaleGenerationRejected ==
    [][\A o \in Observations :
          Unlocked /\ o.source \in DOMAIN sources
          /\ o.source_generation < sources[o.source].generation
            => ~(ingest(o) /\ health'["accepted"] > health["accepted"])]_vars

(* The sample buffer of a device stays within its limit plus the sample    *)
(* pushed after the trim.                                                  *)
SamplesBounded ==
    \A d \in DOMAIN devices : Len(devices[d].samples) <= sample_limit + 1

(* The observations of device d with one of the types after which there    *)
(* was none: the latest, if there is one.                                  *)
Latest(h, d, types) ==
    {i \in 1..Len(h) :
        /\ h[i].device = d /\ h[i].type \in types
        /\ \A j \in (i+1)..Len(h) : ~(h[j].device = d /\ h[j].type \in types)}

CapacityMatch(h, d, cap) ==
    LET f == Latest(h, d, {"FragmentationObserved", "FragmentationCleared"})
        c == Latest(h, d, {"CapacityPublished", "CapacityInvalidated"})
    IN  /\ IF f = {} THEN cap.stranded_bytes = 0
           ELSE \A i \in f : cap.stranded_bytes =
                    IF h[i].type = "FragmentationObserved" THEN h[i].bytes ELSE 0
        /\ IF c = {} THEN cap.published_bytes = 0
           ELSE \A i \in c : cap.published_bytes =
                    IF h[i].type = "CapacityPublished" THEN h[i].capacity_bytes ELSE 0

(* Stranded and published capacity are what the latest fragmentation and   *)
(* capacity observations of the device say, after a load as before it.     *)
CapacityMatchesHistory ==
    health["dropped"] = 0 =>
        \A d \in DOMAIN devices : CapacityMatch(history, d, devices[d].cap)

(* BEGIN i of the history h is still open: neither ended nor begun again. *)
Unclosed(h, i) ==
    /\ h[i].type \in BeginTypes
    /\ \A k \in (i+1)..Len(h) :
          /\ ~Pairs(h[i], h[k])
          /\ KeyOf(h[k], h[k].type) # KeyOf(h[i], h[i].type)

OpenMatch(h, d, dev) ==
    dev.open = {[key |-> KeyOf(h[i], h[i].type), begin |-> h[i].begin, cat |-> h[i].state,
                 obs |-> h[i].id] : i \in {j \in 1..Len(h) : h[j].device = d /\ Unclosed(h, j)}}

(* The devices that observations can be about, known to the observatory or *)
(* not yet.                                                                *)
Devices == {o.device : o \in Observations} \ {0}

DeviceAt(d) == IF d \in DOMAIN devices THEN devices[d] ELSE NewDevice

DeviceMatches(h, d, dev) ==
    SpansMatch(h, d, dev) /\ OpenMatch(h, d, dev) /\ CapacityMatch(h, d, dev.cap)

(* What makes SpansMatchHistory and CapacityMatchesHistory inductive: the  *)
(* table of open intervals follows the history as well, and about a device *)
(* that is not known the history holds nothing.                            *)
EvidenceInv ==
    /\ DOMAIN devices \subseteq Devices
    /\ health["dropped"] = 0 => \A d \in Devices : DeviceMatches(history, d, DeviceAt(d))
=============================================================================
