---------------------------- MODULE Accumulator ----------------------------
(***************************************************************************)
(* The per-device evidence store of the observatory (struct DeviceAccum)   *)
(* and what one accepted observation does to it.  An accepted observation  *)
(* opens an interval, closes one, adds a sample or a useful-work band, or  *)
(* sets a capacity field; every other type leaves the store alone.         *)
(*                                                                         *)
(* Identifiers and generations are naturals; 0 is the invalid identifier   *)
(* (a default-constructed strong id).  Ratio and percent are integers in   *)
(* hundredths, any value outside 0..100 standing for an out-of-range, NaN  *)
(* or infinite double.  The attempt, reservation, residency, transfer,     *)
(* recovery and allocation ids of an observation are one field, scope: the *)
(* code only ever compares the six of them together.                       *)
(***************************************************************************)
EXTENDS Integers, Sequences

CONSTANT sample_limit   \* the literal 1024 of the sample buffer

ASSUME SampleLimitAssumption == sample_limit \in Nat

(***************************************************************************)
(* Enumerations (model.hpp).                                               *)
(***************************************************************************)
BeginTypes == {"ExecutionBegin", "TransferBegin", "ReservationBegin", "ResidencyBegin",
               "WaitBegin", "RecoveryBegin", "AttemptBegin"}

EndTypes == {"ExecutionEnd", "TransferEnd", "ReservationEnd", "ResidencyEnd",
             "WaitEnd", "RecoveryEnd", "AttemptEnd"}

ObservationTypes == BeginTypes \cup EndTypes \cup
    {"DeviceSample", "WorkloadSample", "MemorySample", "HealthSample", "PowerSample",
     "UsefulWorkSummary", "EfficiencySummary", "CapacityPublished", "CapacityInvalidated",
     "FragmentationObserved", "FragmentationCleared", "WorkerReady", "WorkerLost",
     "ResourceAvailable", "ResourceUnavailable"}

StateCategories ==
    {"UsefulExecution", "NonUsefulExecution", "NecessaryOverhead", "TransferActive",
     "MemoryBound", "WaitingQueue", "WaitingDependency", "WaitingTransfer", "WaitingMemory",
     "WaitingRecovery", "RetryExecution", "ReservedIdle", "ResidencyIdle",
     "FragmentationStranded", "AuthorityFenced", "DeviceIdle", "DeviceUnavailable", "Unknown"}

Classifications == {"Useful", "NecessaryOverhead", "AvoidableWaste", "AvoidedWork",
                    "StrandedCapacity", "Unknown"}

DeviceStates == {"ComputeActive", "ComputeIdle", "MemoryResident", "Reserved", "Fenced",
                 "Unavailable", "Unknown"}

(* Two of the fourteen flags of BackendCapabilities; all are treated alike. *)
Capabilities == {"compute_utilization", "memory_bytes"}

(***************************************************************************)
(* Records.                                                                *)
(***************************************************************************)
ObservationRecords ==
    [id : Nat, epoch : Nat, type : ObservationTypes, begin : Nat, end : Nat,
     source : Nat, source_generation : Nat, worker_boot : Nat,
     device : Nat, device_generation : Nat, workload : Nat, workload_generation : Nat,
     evidence : Nat, evidence_generation : Nat, scope : Nat,
     state : StateCategories, classification : Classifications, device_state : DeviceStates,
     ratio : Int, percent : Int, bytes : Nat, capacity_bytes : Nat]

IntervalKeys == [src : Nat, dev : Nat, type : ObservationTypes, wl : Nat, scope : Nat]

OpenEvents == [key : IntervalKeys, begin : Nat, cat : StateCategories, obs : Nat]

EventSpans == [begin : Nat, end : Nat, cat : StateCategories, obs : Nat, src : Nat, wl : Nat]

SamplePoints == [at : Nat, percent : Int, src : Nat]

UsefulBands == [begin : Nat, end : Nat, src : Nat]

CapacityStates == [physical_bytes : Nat, published_bytes : Nat, available_bytes : Nat,
                   stranded_bytes : Nat, fit_qualified_bytes : Nat]

(***************************************************************************)
(* Partial maps (std::unordered_map).                                      *)
(***************************************************************************)
Put(f, k, v) == [x \in DOMAIN f \cup {k} |-> IF x = k THEN v ELSE f[x]]

EmptyMap == [x \in {} |-> 0]

IsMap(f, K, V) == DOMAIN f \subseteq K /\ f \in [DOMAIN f -> V]

Larger(a, b) == IF a < b THEN b ELSE a

(***************************************************************************)
(* A device store.  caps is the set of capabilities the owning source had  *)
(* when it last reported; open is the table of open intervals, of which    *)
(* there is at most one per key.                                           *)
(***************************************************************************)
DeviceAccums ==
    [authoritative : Nat, authoritative_gen : Nat, caps : SUBSET Capabilities,
     physical : DeviceStates, open : SUBSET OpenEvents, events : Seq(EventSpans),
     samples : Seq(SamplePoints), last_vendor_percent : Int, vendor_defined : BOOLEAN,
     last_sample_tick : Nat, useful_bands : Seq(UsefulBands), cap : CapacityStates]

NewDevice ==
    [authoritative |-> 0, authoritative_gen |-> 0, caps |-> {}, physical |-> "Unknown",
     open |-> {}, events |-> <<>>, samples |-> <<>>, last_vendor_percent |-> 0,
     vendor_defined |-> FALSE, last_sample_tick |-> 0, useful_bands |-> <<>>,
     cap |-> [physical_bytes |-> 0, published_bytes |-> 0, available_bytes |-> 0,
              stranded_bytes |-> 0, fit_qualified_bytes |-> 0]]

(***************************************************************************)
(* Pairing of interval ends with their begins.                             *)
(***************************************************************************)
pair_type == [t \in EndTypes |->
    CASE t = "ExecutionEnd"   -> "ExecutionBegin"
      [] t = "TransferEnd"    -> "TransferBegin"
      [] t = "ReservationEnd" -> "ReservationBegin"
      [] t = "ResidencyEnd"   -> "ResidencyBegin"
      [] t = "WaitEnd"        -> "WaitBegin"
      [] t = "RecoveryEnd"    -> "RecoveryBegin"
      [] t = "AttemptEnd"     -> "AttemptBegin"]

(* Plausible bug: the key of an interval ignores the semantic scope. *)
MutKeyWithoutScope(o, t) ==
    [src |-> o.source, dev |-> o.device, type |-> t, wl |-> o.workload, scope |-> 0]

KeyOf(o, t) ==
    [src |-> o.source, dev |-> o.device, type |-> t, wl |-> o.workload, scope |-> o.scope]

ExecutionCategory(c) ==
    CASE c = "Useful"            -> "UsefulExecution"
      [] c = "NecessaryOverhead" -> "NecessaryOverhead"
      [] c = "AvoidableWaste"    -> "NonUsefulExecution"
      [] c = "AvoidedWork"       -> "DeviceIdle"
      [] OTHER                   -> "Unknown"

default_category(t, c, s) ==
    IF s # "Unknown" THEN s
    ELSE CASE t \in {"ExecutionBegin", "ExecutionEnd"}     -> ExecutionCategory(c)
           [] t \in {"TransferBegin", "TransferEnd"}       -> "TransferActive"
           [] t \in {"ReservationBegin", "ReservationEnd"} -> "ReservedIdle"
           [] t \in {"ResidencyBegin", "ResidencyEnd"}     -> "ResidencyIdle"
           [] t \in {"WaitBegin", "WaitEnd"}               -> "WaitingQueue"
           [] t \in {"RecoveryBegin", "RecoveryEnd"}       -> "WaitingRecovery"
           [] t \in {"AttemptBegin", "AttemptEnd"}         -> "RetryExecution"
           [] OTHER                                        -> "Unknown"

(***************************************************************************)
(* The effects of an accepted observation on its device.                   *)
(***************************************************************************)
Own(d, o, caps) ==
    LET e == IF d.authoritative \in {0, o.source}
             THEN [d EXCEPT !.authoritative = o.source,
                            !.authoritative_gen = o.source_generation,
                            !.caps = caps]
             ELSE d
    IN  IF o.device_state # "Unknown" THEN [e EXCEPT !.physical = o.device_state] ELSE e

(* An open interval with the same key is replaced. *)
OpenInterval(d, o) ==
    LET key == KeyOf(o, o.type)
    IN  [d EXCEPT !.open = {oe \in @ : oe.key # key} \cup
             {[key |-> key, begin |-> o.begin, cat |-> o.state, obs |-> o.id]}]

(* The span a closing observation o makes of the open event oe. *)
ClosedSpan(oe, o) ==
    LET cat == default_category(o.type, o.classification, o.state)
    IN  [begin |-> oe.begin,
         end   |-> Larger(Larger(o.begin, o.end), oe.begin),
         cat   |-> IF cat = "Unknown" THEN oe.cat ELSE cat,
         obs   |-> oe.obs, src |-> oe.key.src, wl |-> oe.key.wl]

(* An end without a matching begin closes nothing. *)
CloseInterval(d, o) ==
    LET matching == {oe \in d.open : oe.key = KeyOf(o, pair_type[o.type])}
    IN  IF matching = {} THEN d
        ELSE [d EXCEPT !.events = Append(@, ClosedSpan(CHOOSE oe \in matching : TRUE, o)),
                       !.open = @ \ matching]

(* Plausible bug: the full buffer is not trimmed before the push. *)
MutPushSampleNoTrim(samples, p) == Append(samples, p)

PushSample(samples, p) ==
    Append(IF Len(samples) > sample_limit THEN Tail(samples) ELSE samples, p)

AddSample(d, o) ==
    LET e == [d EXCEPT !.samples =
                  PushSample(@, [at |-> o.begin, percent |-> o.percent, src |-> o.source])]
    IN  IF o.type = "DeviceSample"
        THEN [e EXCEPT !.last_vendor_percent = o.percent, !.vendor_defined = TRUE,
                       !.last_sample_tick = o.begin]
        ELSE e

AddBand(d, o) ==
    IF o.end > o.begin
    THEN [d EXCEPT !.useful_bands =
             Append(@, [begin |-> o.begin, end |-> o.end, src |-> o.source])]
    ELSE d

(* Plausible bug: clearing a fragmentation is forgotten. *)
MutStrandedStays(cap, o) == IF o.type = "FragmentationObserved" THEN o.bytes ELSE cap.stranded_bytes

(* Plausible bug: clearing a fragmentation subtracts the bytes it reports. *)
MutStrandedSubtracts(cap, o) ==
    IF o.type = "FragmentationObserved" THEN o.bytes ELSE cap.stranded_bytes - o.bytes

(* The stranded bytes after a fragmentation was observed or cleared. *)
Stranded(cap, o) == IF o.type = "FragmentationObserved" THEN o.bytes ELSE 0

SetCapacity(cap, o) ==
    CASE o.type = "MemorySample" ->
            IF o.capacity_bytes > 0
            THEN [cap EXCEPT !.physical_bytes = o.capacity_bytes, !.available_bytes = o.bytes]
            ELSE cap
      [] o.type = "CapacityPublished" ->
            [cap EXCEPT !.published_bytes = o.capacity_bytes,
                        !.physical_bytes = Larger(@, o.capacity_bytes)]
      [] o.type = "CapacityInvalidated" -> [cap EXCEPT !.published_bytes = 0]
      [] o.type = "FragmentationObserved" ->
            [cap EXCEPT !.stranded_bytes = Stranded(cap, o),
                        !.fit_qualified_bytes = o.capacity_bytes]
      [] o.type = "FragmentationCleared" -> [cap EXCEPT !.stranded_bytes = Stranded(cap, o)]
      [] OTHER -> cap

Accumulate(d, o) ==
    CASE o.type \in BeginTypes                                -> OpenInterval(d, o)
      [] o.type \in EndTypes                                  -> CloseInterval(d, o)
      [] o.type \in {"DeviceSample", "WorkloadSample"}        -> AddSample(d, o)
      [] o.type \in {"UsefulWorkSummary", "EfficiencySummary"} -> AddBand(d, o)
      [] OTHER                                                -> [d EXCEPT !.cap = SetCapacity(@, o)]
=============================================================================
