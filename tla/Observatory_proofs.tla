------------------------- MODULE Observatory_proofs -------------------------
(***************************************************************************)
(* Theorems about Observatory, for every universe of observations, every   *)
(* set of source descriptors and every configuration.                      *)
(***************************************************************************)
EXTENDS Observatory, SequenceTheorems, TLAPS

USE SampleLimitAssumption, ConfigAssumption

(* Inserting into a map keeps its type. *)
LEMMA PutType ==
    ASSUME NEW f, NEW K, NEW V, IsMap(f, K, V), NEW k \in K, NEW v \in V
    PROVE  IsMap(Put(f, k, v), K, V)
BY DEF IsMap, Put

(* Raising a high-water mark keeps the type of the table. *)
LEMMA RaiseType ==
    ASSUME NEW g, IsGens(g), NEW id \in Nat, NEW n \in Nat
    PROVE  IsGens(Raise(g, id, n))
<1>1. IsMap(Put(g, id, n), Nat, Nat)
  BY PutType DEF IsGens
<1> QED
  BY <1>1 DEF Raise, IsGens

(* Fields of an observation have the types the decoder gives them. *)
LEMMA ObservationType ==
    ASSUME NEW o \in Observations PROVE o \in ObservationRecords
BY ObservationsAssumption

(* Taking ownership of a device, as the first step of an accepted          *)
(* observation does, keeps the store well typed.                           *)
LEMMA OwnType ==
    ASSUME NEW d \in DeviceAccums, NEW o \in ObservationRecords, NEW c \in SUBSET Capabilities
    PROVE  Own(d, o, c) \in DeviceAccums
BY DEF Own, DeviceAccums, ObservationRecords

(* Every END type pairs with an observation type. *)
LEMMA PairType == \A t \in EndTypes : pair_type[t] \in ObservationTypes
BY DEF pair_type, EndTypes, ObservationTypes, BeginTypes

(* The key under which an observation opens or closes an interval is well  *)
(* typed.                                                                  *)
LEMMA KeyType ==
    ASSUME NEW o \in ObservationRecords, NEW t \in ObservationTypes
    PROVE  KeyOf(o, t) \in IntervalKeys
BY DEF KeyOf, IntervalKeys, ObservationRecords

(* The category derived for a closed interval is a state category. *)
LEMMA CategoryType ==
    ASSUME NEW t, NEW c, NEW s \in StateCategories
    PROVE  default_category(t, c, s) \in StateCategories
BY DEF default_category, ExecutionCategory, StateCategories

(* Closing an open interval yields a well-typed span. *)
LEMMA SpanType ==
    ASSUME NEW oe \in OpenEvents, NEW o \in ObservationRecords
    PROVE  ClosedSpan(oe, o) \in EventSpans
<1>1. default_category(o.type, o.classification, o.state) \in StateCategories
  BY CategoryType DEF ObservationRecords
<1> QED
  BY <1>1 DEF ClosedSpan, EventSpans, OpenEvents, IntervalKeys, ObservationRecords, Larger

(* An accepted observation leaves a well-typed device store. *)
LEMMA AccumulateType ==
    ASSUME NEW d \in DeviceAccums, NEW o \in ObservationRecords
    PROVE  Accumulate(d, o) \in DeviceAccums
<1>1. CASE o.type \in BeginTypes
  <2>1. KeyOf(o, o.type) \in IntervalKeys
    BY KeyType DEF ObservationRecords
  <2>2. [key |-> KeyOf(o, o.type), begin |-> o.begin, cat |-> o.state, obs |-> o.id]
           \in OpenEvents
    BY <2>1 DEF OpenEvents, ObservationRecords
  <2>3. OpenInterval(d, o) \in DeviceAccums
    BY <2>2 DEF OpenInterval, DeviceAccums
  <2>4. Accumulate(d, o) = OpenInterval(d, o)
    BY <1>1 DEF Accumulate, BeginTypes, EndTypes
  <2> QED BY <2>3, <2>4
<1>2. CASE o.type \in EndTypes
  <2> DEFINE matching == {oe \in d.open : oe.key = KeyOf(o, pair_type[o.type])}
             chosen == CHOOSE oe \in matching : TRUE
  <2>1. matching # {} => chosen \in OpenEvents
    BY DEF DeviceAccums
  <2>2. matching # {} => Append(d.events, ClosedSpan(chosen, o)) \in Seq(EventSpans)
    BY <2>1, SpanType DEF DeviceAccums
  <2>3. CloseInterval(d, o) \in DeviceAccums
    BY <2>2 DEF CloseInterval, DeviceAccums
  <2>4. Accumulate(d, o) = CloseInterval(d, o)
    BY <1>2 DEF Accumulate, BeginTypes, EndTypes
  <2> QED BY <2>3, <2>4
<1>3. CASE o.type \in {"DeviceSample", "WorkloadSample"}
  <2> DEFINE p == [at |-> o.begin, percent |-> o.percent, src |-> o.source]
  <2>1. p \in SamplePoints
    BY DEF SamplePoints, ObservationRecords
  <2>2. d.samples \in Seq(SamplePoints)
    BY DEF DeviceAccums
  <2>3. Len(d.samples) > sample_limit => Tail(d.samples) \in Seq(SamplePoints)
    BY <2>2
  <2>4. PushSample(d.samples, p) \in Seq(SamplePoints)
    BY <2>1, <2>2, <2>3 DEF PushSample
  <2>5. AddSample(d, o) \in DeviceAccums
    BY <2>4 DEF AddSample, DeviceAccums, ObservationRecords
  <2>6. Accumulate(d, o) = AddSample(d, o)
    BY <1>3 DEF Accumulate, BeginTypes, EndTypes
  <2> QED BY <2>5, <2>6
<1>4. CASE o.type \in {"UsefulWorkSummary", "EfficiencySummary"}
  <2>1. [begin |-> o.begin, end |-> o.end, src |-> o.source] \in UsefulBands
    BY DEF UsefulBands, ObservationRecords
  <2>2. Append(d.useful_bands, [begin |-> o.begin, end |-> o.end, src |-> o.source])
           \in Seq(UsefulBands)
    BY <2>1 DEF DeviceAccums
  <2>3. AddBand(d, o) \in DeviceAccums
    BY <2>2 DEF AddBand, DeviceAccums
  <2>4. Accumulate(d, o) = AddBand(d, o)
    BY <1>4 DEF Accumulate, BeginTypes, EndTypes
  <2> QED BY <2>3, <2>4
<1>5. CASE o.type \notin BeginTypes \cup EndTypes \cup
             {"DeviceSample", "WorkloadSample", "UsefulWorkSummary", "EfficiencySummary"}
  <2>1. SetCapacity(d.cap, o) \in CapacityStates
    BY DEF SetCapacity, Stranded, CapacityStates, DeviceAccums, ObservationRecords, Larger
  <2>2. Accumulate(d, o) = [d EXCEPT !.cap = SetCapacity(@, o)]
    BY <1>5 DEF Accumulate
  <2> QED BY <2>1, <2>2 DEF DeviceAccums
<1> QED BY <1>1, <1>2, <1>3, <1>4, <1>5

-----------------------------------------------------------------------------
(***************************************************************************)
(* Type correctness.                                                       *)
(***************************************************************************)
(* The source entry an admitted observation leaves is well typed. *)
LEMMA AdmittedType ==
    ASSUME TypeOK, NEW o \in Observations
    PROVE  AdmittedSource(o) \in SourceStates
<1>1. o \in ObservationRecords
  BY ObservationType
<1>2. SourceOf(o) \in SourceStates
  BY <1>1 DEF SourceOf, NewSource, SourceStates, ObservationRecords, TypeOK, IsMap
<1>3. historical_mode \/ (~historical_mode /\ Adopts(o)) \/ (~historical_mode /\ ~Adopts(o))
  OBVIOUS
<1>4. CASE historical_mode
  <2>1. AdmittedSource(o) = [SourceOf(o) EXCEPT !.generation = o.source_generation,
                                !.boot = o.worker_boot, !.connected = TRUE]
    BY <1>4 DEF AdmittedSource, Adopts
  <2> QED BY <1>1, <1>2, <2>1 DEF SourceStates, ObservationRecords
<1>5. CASE Adopts(o)
  <2>1. AdmittedSource(o) = [SourceOf(o) EXCEPT !.generation = o.source_generation,
                !.boot = o.worker_boot, !.connected = TRUE, !.last_observation = o.begin]
    BY <1>5 DEF AdmittedSource, Adopts
  <2> QED BY <1>1, <1>2, <2>1 DEF SourceStates, ObservationRecords
<1>6. CASE ~historical_mode /\ ~Adopts(o)
  BY <1>2, <1>6 DEF AdmittedSource
<1> QED BY <1>4, <1>5, <1>6

(* The part of the state ingest_locked works on. *)
MemoryTypeOK ==
    /\ IsMap(sources, Nat, SourceStates)
    /\ IsMap(devices, Nat, DeviceAccums)
    /\ IsGens(device_gens) /\ IsGens(workload_gens) /\ IsGens(evidence_gens)
    /\ history \in Seq(Observations)
    /\ dedup \subseteq Nat
    /\ dedup_order \in Seq(Nat)
    /\ health \in [HealthCounters -> Nat]

(* Counting keeps the health counters naturals. *)
LEMMA CountType ==
    ASSUME health \in [HealthCounters -> Nat], NEW C, Count(C)
    PROVE  health' \in [HealthCounters -> Nat]
BY DEF Count

(* Writing the admitted source back keeps the source table well typed. *)
LEMMA AdmitType ==
    ASSUME TypeOK, NEW o \in Observations, Admit(o)
    PROVE  IsMap(sources', Nat, SourceStates)
<1>1. AdmittedSource(o) \in SourceStates /\ o.source \in Nat
  BY AdmittedType, ObservationType DEF ObservationRecords
<1> QED BY <1>1, PutType DEF Admit, TypeOK

(* Raising the three high-water marks keeps their tables well typed. *)
LEMMA RaisesType ==
    ASSUME TypeOK, NEW o \in Observations
    PROVE  /\ RaiseDevice(o) => IsGens(device_gens')
           /\ RaiseWorkload(o) => IsGens(workload_gens')
           /\ RaiseEvidence(o) => IsGens(evidence_gens')
<1>1. o \in ObservationRecords
  BY ObservationType
<1>2. /\ IsGens(Raise(device_gens, o.device, o.device_generation))
      /\ IsGens(Raise(workload_gens, o.workload, o.workload_generation))
      /\ IsGens(Raise(evidence_gens, o.evidence, o.evidence_generation))
  BY <1>1, RaiseType DEF ObservationRecords, TypeOK
<1> QED BY <1>2 DEF RaiseDevice, RaiseWorkload, RaiseEvidence

(* Remembering an id keeps the duplicate window well typed. *)
LEMMA RememberType ==
    ASSUME TypeOK, NEW id \in Nat, remember_obs_id(id)
    PROVE  dedup' \subseteq Nat /\ dedup_order' \in Seq(Nat)
<1>0. dedup \subseteq Nat /\ dedup_order \in Seq(Nat)
  BY DEF TypeOK
<1> DEFINE rest == IF Full THEN Tail(dedup_order) ELSE dedup_order
<1>1. rest \in Seq(Nat)
  BY <1>0 DEF Full
<1>2. dedup_order' = Append(rest, id) /\ dedup' \subseteq dedup \cup {id}
  BY DEF remember_obs_id
<1> HIDE DEF rest
<1> QED BY <1>0, <1>1, <1>2

(* An accepted observation leaves a well-typed state. *)
LEMMA AcceptType ==
    ASSUME TypeOK, NEW o \in Observations, NEW st, Accept(o, st)
    PROVE  MemoryTypeOK'
<1>1. o \in ObservationRecords
  BY ObservationType
<1>2. AdmittedSource(o) \in SourceStates
  BY AdmittedType
<1>3. IsMap(sources', Nat, SourceStates)
  <2> DEFINE src == [AdmittedSource(o) EXCEPT !.last_observation = Larger(@, o.begin)]
  <2>1. src \in SourceStates
    BY <1>1, <1>2 DEF SourceStates, ObservationRecords, Larger
  <2>2. sources' = Put(sources, o.source, src)
    BY DEF Accept
  <2> QED BY <1>1, <2>1, <2>2, PutType DEF TypeOK, ObservationRecords
<1>4. IsMap(devices', Nat, DeviceAccums)
  <2>1. DeviceOf(o) \in DeviceAccums
    <3>1. NewDevice \in DeviceAccums
      BY DEF NewDevice, DeviceAccums, CapacityStates, DeviceStates
    <3> QED BY <3>1 DEF DeviceOf, TypeOK, IsMap
  <2>2. AdmittedSource(o).capabilities \in SUBSET Capabilities
    BY <1>2 DEF SourceStates
  <2> DEFINE acc == Accumulate(Own(DeviceOf(o), o, AdmittedSource(o).capabilities), o)
  <2>3. acc \in DeviceAccums
    BY <1>1, <2>1, <2>2, OwnType, AccumulateType
  <2>4. devices' = IF o.device = 0 THEN devices ELSE Put(devices, o.device, acc)
    BY DEF Accept
  <2>5. IsMap(Put(devices, o.device, acc), Nat, DeviceAccums)
    BY <1>1, <2>3, PutType DEF TypeOK, ObservationRecords
  <2> QED BY <2>4, <2>5 DEF TypeOK
<1>5. history' \in Seq(Observations)
  <2>0. history \in Seq(Observations)
    BY DEF TypeOK
  <2>1. Append(history, o) \in Seq(Observations) /\ Append(history, o) # <<>>
    BY <2>0, AppendProperties
  <2>2. Tail(Append(history, o)) \in Seq(Observations)
    BY <2>1
  <2> QED BY <2>1, <2>2 DEF Accept, Retain
<1>6. health' \in [HealthCounters -> Nat]
  BY CountType DEF Accept, TypeOK
<1>7. IsGens(device_gens)' /\ IsGens(workload_gens)' /\ IsGens(evidence_gens)'
  BY RaisesType DEF Accept
<1>8. dedup' \subseteq Nat /\ dedup_order' \in Seq(Nat)
  BY <1>1, RememberType DEF Accept, ObservationRecords
<1> QED BY <1>3, <1>4, <1>5, <1>6, <1>7, <1>8 DEF MemoryTypeOK

(* Every way out of ingest_locked leaves a well-typed state. *)
LEMMA IngestType ==
    ASSUME TypeOK, NEW o \in Observations, NEW st, ingest_locked(o, st)
    PROVE  MemoryTypeOK'
<1> USE DEF gens, ids
<1>0. o \in ObservationRecords /\ health \in [HealthCounters -> Nat]
  BY ObservationType DEF TypeOK
<1>1. CASE RejectEpoch(o, st)
  BY <1>0, <1>1, CountType DEF RejectEpoch, TypeOK, MemoryTypeOK
<1>2. CASE RejectAuthority(o, st)
  BY <1>0, <1>2, CountType DEF RejectAuthority, TypeOK, MemoryTypeOK
<1>3. CASE RejectDisconnected(o, st)
  BY <1>0, <1>3, CountType DEF RejectDisconnected, TypeOK, MemoryTypeOK
<1>4. CASE RejectDevice(o, st)
  BY <1>0, <1>4, CountType, AdmitType DEF RejectDevice, TypeOK, MemoryTypeOK
<1>5. CASE RejectWorkload(o, st)
  BY <1>0, <1>5, CountType, AdmitType, RaisesType
     DEF RejectWorkload, TypeOK, MemoryTypeOK
<1>6. CASE RejectEvidence(o, st)
  BY <1>0, <1>6, CountType, AdmitType, RaisesType
     DEF RejectEvidence, TypeOK, MemoryTypeOK
<1>7. CASE RejectDuplicate(o, st)
  BY <1>0, <1>7, CountType, AdmitType, RaisesType
     DEF RejectDuplicate, TypeOK, MemoryTypeOK
<1>8. CASE RejectMalformed(o, st)
  <2>1. dedup' \subseteq Nat /\ dedup_order' \in Seq(Nat)
    BY <1>0, <1>8, RememberType DEF RejectMalformed, ObservationRecords
  <2> QED BY <1>0, <1>8, <2>1, CountType, AdmitType, RaisesType
          DEF RejectMalformed, TypeOK, MemoryTypeOK
<1>9. CASE Accept(o, st)
  BY <1>9, AcceptType
<1> QED BY <1>1, <1>2, <1>3, <1>4, <1>5, <1>6, <1>7, <1>8, <1>9 DEF ingest_locked

(* The cleared tables of a load are well typed. *)
LEMMA EmptyMapType == ASSUME NEW K, NEW V PROVE IsMap(EmptyMap, K, V)
BY DEF IsMap, EmptyMap

(* The observatory starts well typed ... *)
LEMMA TypeInit == ASSUME Init PROVE TypeOK
<1>1. IsMap(EmptyMap, Nat, SourceStates) /\ IsMap(EmptyMap, Nat, DeviceAccums)
      /\ IsGens(EmptyMap)
  BY EmptyMapType DEF IsGens
<1>2. <<>> \in Seq(Observations) /\ <<>> \in Seq(Nat)
  OBVIOUS
<1>3. ZeroHealth \in [HealthCounters -> Nat]
  BY DEF ZeroHealth
<1> QED BY <1>1, <1>2, <1>3 DEF Init, TypeOK, Statuses, SaverStates, LoaderStates

(* ... and every operation keeps it so. *)
LEMMA TypeStep == ASSUME TypeOK, [Next]_vars PROVE TypeOK'
<1> USE DEF gens, ids
<1>1. ASSUME NEW o \in Observations, ingest(o) PROVE TypeOK'
  <2>1. PICK st \in Statuses : ingest_locked(o, st)
    BY <1>1 DEF ingest
  <2>2. MemoryTypeOK'
    BY <2>1, IngestType
  <2> QED BY <1>1, <2>2 DEF ingest, MemoryTypeOK, TypeOK
<1>2. ASSUME NEW info \in SourceInfos, register_source(info) PROVE TypeOK'
  <2> DEFINE st == [generation |-> info.generation, boot |-> info.boot,
                    capabilities |-> info.capabilities,
                    last_observation |-> info.last_observation, connected |-> TRUE]
  <2>1. st \in SourceStates /\ info.id \in Nat
    BY SourceInfosAssumption DEF SourceStates
  <2>2. IsMap(Put(sources, info.id, st), Nat, SourceStates)
    BY <2>1, PutType DEF TypeOK
  <2> QED BY <1>2, <2>2 DEF register_source, TypeOK
<1>3. ASSUME NEW s \in DOMAIN sources, NEW t \in Ticks,
             mark_source_connected(s, t) \/ mark_source_disconnected(s, t)
      PROVE  TypeOK'
  <2>1. IsMap(sources', Nat, SourceStates)
    <3>1. sources[s] \in SourceStates /\ s \in Nat /\ t \in Nat
      BY TicksAssumption DEF TypeOK, IsMap
    <3>2. PICK b \in BOOLEAN :
             sources' = Put(sources, s,
                            [sources[s] EXCEPT !.connected = b, !.last_observation = t])
      BY <1>3 DEF mark_source_connected, mark_source_disconnected
    <3>3. [sources[s] EXCEPT !.connected = b, !.last_observation = t] \in SourceStates
      BY <3>1 DEF SourceStates
    <3> QED BY <3>1, <3>2, <3>3, PutType DEF TypeOK
  <2>2. health' \in [HealthCounters -> Nat]
    BY <1>3, CountType DEF mark_source_connected, mark_source_disconnected, TypeOK
  <2> QED BY <1>3, <2>1, <2>2
          DEF mark_source_connected, mark_source_disconnected, TypeOK
<1>4. CASE advance_epoch
  BY <1>4 DEF advance_epoch, TypeOK
<1>5. CASE SaveSnapshot
  BY <1>5 DEF SaveSnapshot, TypeOK, SaverStates
<1>6. CASE SaveReplaces
  BY <1>6 DEF SaveReplaces, SaveReturns, Written, TypeOK, SaverStates
<1>7. CASE SaveFails \/ SaveLosesFile
  <2>1. health' \in [HealthCounters -> Nat]
    BY <1>7, CountType DEF SaveFails, SaveLosesFile, TypeOK
  <2>2. saver' \in SaverStates
    <3>1. saver' = [pc |-> "idle", obs |-> <<>>] /\ <<>> \in Seq(Observations)
      BY <1>7 DEF SaveFails, SaveLosesFile, SaveReturns
    <3> QED BY <3>1 DEF SaverStates
  <2>3. file' \in [exists : BOOLEAN, obs : Seq(Observations)]
    <3>1. file' = file \/ file' = [exists |-> FALSE, obs |-> <<>>]
      BY <1>7 DEF SaveFails, SaveLosesFile, NoFile
    <3>2. file \in [exists : BOOLEAN, obs : Seq(Observations)]
      BY DEF TypeOK
    <3>3. [exists |-> FALSE, obs |-> <<>>] \in [exists : BOOLEAN, obs : Seq(Observations)]
      OBVIOUS
    <3> QED BY <3>1, <3>2, <3>3, Zenon
  <2>4. UNCHANGED <<epoch, sources, devices, gens, history, ids, loader>>
    BY <1>7 DEF SaveFails, SaveLosesFile
  <2> QED BY <2>1, <2>2, <2>3, <2>4 DEF TypeOK
<1>8. CASE LoadParse
  BY <1>8 DEF LoadParse, TypeOK, LoaderStates, Statuses
<1>9. CASE LoadClear
  <2>1. IsMap(EmptyMap, Nat, SourceStates) /\ IsMap(EmptyMap, Nat, DeviceAccums)
        /\ IsGens(EmptyMap)
    BY EmptyMapType DEF IsGens
  <2>2. ZeroHealth \in [HealthCounters -> Nat]
    BY DEF ZeroHealth
  <2>3. loader' \in LoaderStates
    BY <1>9 DEF LoadClear, TypeOK, LoaderStates
  <2> QED BY <1>9, <2>1, <2>2, <2>3
      DEF LoadClear, ClearMemory, ClearGens, ClearIds, ClearDevices, ClearHistory, TypeOK
<1>10. CASE LoadStep
  <2>1. PICK st \in Statuses :
           /\ ingest_locked(loader.obs[loader.next], st)
           /\ loader' = [loader EXCEPT !.st = st, !.next = IF st = "Ok" THEN @ + 1 ELSE @]
    BY <1>10 DEF LoadStep
  <2>2. loader.obs[loader.next] \in Observations
    BY <1>10 DEF LoadStep, Replaying, TypeOK, LoaderStates
  <2>3. MemoryTypeOK'
    BY <2>1, <2>2, IngestType
  <2>4. loader' \in LoaderStates
    <3>1. loader \in LoaderStates /\ loader.next + 1 \in Nat \ {0}
      BY DEF TypeOK, LoaderStates
    <3> QED BY <2>1, <3>1 DEF LoaderStates
  <2> QED BY <1>10, <2>3, <2>4 DEF LoadStep, MemoryTypeOK, TypeOK
<1>11. CASE LoadReturns
  <2>1. IsMap(sources', Nat, SourceStates)
    BY <1>11 DEF LoadReturns, NeedsRevalidation, TypeOK, IsMap, SourceStates
  <2> QED BY <1>11, <2>1 DEF LoadReturns, TypeOK, LoaderStates
<1>12. CASE UNCHANGED vars
  BY <1>12 DEF vars, TypeOK
<1> QED BY <1>1, <1>2, <1>3, <1>4, <1>5, <1>6, <1>7, <1>8, <1>9, <1>10, <1>11, <1>12
        DEF Next, Call, Save, Load, ReadOnly

(* Every variable of the observatory keeps its type, whatever sources      *)
(* submit and however saves and loads interleave with them.                *)
THEOREM TypeCorrect == Spec => []TypeOK
BY TypeInit, TypeStep, PTL DEF Spec

-----------------------------------------------------------------------------
(***************************************************************************)
(* Generations, the ledger and replay.                                     *)
(***************************************************************************)

(* A raised table covers the new generation and whatever it covered. *)
LEMMA RaiseCovers ==
    ASSUME NEW g, IsGens(g), NEW id \in Nat, NEW n \in Nat
    PROVE  /\ Covers(Raise(g, id, n), id, n)
           /\ \A id2 \in Nat, n2 \in Nat :
                 Covers(g, id2, n2) => Covers(Raise(g, id, n), id2, n2)
BY DEF Covers, Raise, Put, IsGens, IsMap

(* Raising a mark makes stale only what is older than the raise. *)
LEMMA RaiseStale ==
    ASSUME NEW g, IsGens(g), NEW id \in Nat, NEW n \in Nat,
           NEW id2 \in Nat, NEW n2 \in Nat, ~StaleGen(g, id2, n2),
           id # 0 /\ id = id2 => n <= n2
    PROVE  ~StaleGen(Raise(g, id, n), id2, n2)
BY DEF StaleGen, Raise, Put, IsGens, IsMap

(* What is covered is not newer than what is not stale. *)
LEMMA CoveredNotNewer ==
    ASSUME NEW g, IsGens(g), NEW id \in Nat, NEW n \in Nat, NEW m \in Nat,
           Covers(g, id, n), ~StaleGen(g, id, m), id # 0
    PROVE  n <= m
BY DEF Covers, StaleGen, IsGens, IsMap

(* The retained history is the old one with the new observation at the     *)
(* end, less the oldest when the bound is reached.                         *)
LEMMA RetainShape ==
    ASSUME NEW h \in Seq(Observations), NEW o \in Observations, Len(h) <= max_observations
    PROVE  /\ Retain(h, o) \in Seq(Observations)
           /\ Len(Retain(h, o)) = IF Len(h) < max_observations THEN Len(h) + 1 ELSE Len(h)
           /\ \E off \in {0, 1} : \A i \in 1..Len(Retain(h, o)) :
                 \/ i + off \in 1..Len(h) /\ Retain(h, o)[i] = h[i + off]
                 \/ i + off = Len(h) + 1 /\ Retain(h, o)[i] = o
<1> DEFINE a == Append(h, o)
<1>1. /\ a \in Seq(Observations) /\ Len(a) = Len(h) + 1 /\ a # <<>>
      /\ \A i \in 1..Len(h) : a[i] = h[i]
      /\ a[Len(h) + 1] = o
      /\ Len(h) \in Nat
  BY AppendProperties, LenProperties
<1>2. CASE Len(h) < max_observations
  <2>1. Retain(h, o) = a
    BY <1>2 DEF Retain
  <2>2. \A i \in 1..Len(a) : \/ i + 0 \in 1..Len(h) /\ a[i] = h[i + 0]
                             \/ i + 0 = Len(h) + 1 /\ a[i] = o
    BY <1>1
  <2> QED BY <1>1, <1>2, <2>1, <2>2
<1>3. CASE ~(Len(h) < max_observations)
  <2>1. Retain(h, o) = Tail(a)
    BY <1>3 DEF Retain
  <2>2. /\ Tail(a) \in Seq(Observations) /\ Len(Tail(a)) = Len(h)
        /\ \A i \in 1..Len(Tail(a)) : Tail(a)[i] = a[i + 1]
    BY <1>1, HeadTailProperties
  <2>3. \A i \in 1..Len(Tail(a)) : \/ i + 1 \in 1..Len(h) /\ Tail(a)[i] = h[i + 1]
                                   \/ i + 1 = Len(h) + 1 /\ Tail(a)[i] = o
    BY <1>1, <2>2
  <2> QED BY <1>1, <1>3, <2>1, <2>2, <2>3
<1> QED BY <1>2, <1>3

(* Appending an observation that may follow all others, and trimming,      *)
(* keeps a history committed.                                              *)
LEMMA RetainCommitted ==
    ASSUME NEW h \in Seq(Observations), NEW o \in Observations, Committed(h), WellFormed(o),
           \A i \in 1..Len(h) : NotOlder(h[i], o)
    PROVE  Committed(Retain(h, o))
<1> DEFINE r == Retain(h, o)
<1>1. Len(h) <= max_observations /\ Len(h) \in Nat
  BY DEF Committed
<1>2. r \in Seq(Observations) /\ Len(r) \in Nat /\ Len(r) <= max_observations
  BY <1>1, RetainShape
<1>3. PICK off \in {0, 1} : \A i \in 1..Len(r) :
         \/ i + off \in 1..Len(h) /\ r[i] = h[i + off]
         \/ i + off = Len(h) + 1 /\ r[i] = o
  BY <1>1, RetainShape
<1>4. NotOlder(o, o)
  <2>1. /\ o.device_generation \in Nat /\ o.workload_generation \in Nat
        /\ o.evidence_generation \in Nat
    BY ObservationType DEF ObservationRecords
  <2> QED BY <2>1 DEF NotOlder
<1>5. \A i \in 1..Len(r) : WellFormed(r[i])
  BY <1>3 DEF Committed
<1> HIDE DEF r
<1>6. ASSUME NEW i \in 1..Len(r), NEW j \in 1..Len(r), i <= j PROVE NotOlder(r[i], r[j])
  <2>1. CASE j + off \in 1..Len(h) /\ r[j] = h[j + off]
    <3>1. i + off \in 1..Len(h) /\ r[i] = h[i + off]
      BY <1>1, <1>2, <1>3, <1>6, <2>1
    <3>2. i + off <= j + off
      BY <1>2, <1>6
    <3> QED BY <2>1, <3>1, <3>2 DEF Committed, InGenerationOrder
  <2>2. CASE j + off = Len(h) + 1 /\ r[j] = o
    BY <1>3, <1>4, <2>2
  <2> QED BY <1>3, <2>1, <2>2
<1> QED BY <1>2, <1>5, <1>6 DEF Committed, InGenerationOrder, r

(* What the rest of the argument uses of a rejecting ingest_locked ... *)
Rejected(o, st) ==
    /\ st # "Ok"
    /\ history' = history
    /\ health'["accepted"] = health["accepted"] /\ health'["dropped"] = health["dropped"]
    /\ device_gens' = device_gens \/ RaiseDevice(o)
    /\ workload_gens' = workload_gens \/ RaiseWorkload(o)
    /\ evidence_gens' = evidence_gens \/ RaiseEvidence(o)

(* ... and of an accepting one. *)
Accepted(o, st) ==
    /\ st = "Ok"
    /\ WellFormed(o)
    /\ NoneStale(o)
    /\ history' = Retain(history, o)
    /\ health'["accepted"] = health["accepted"] + 1
    /\ health'["dropped"] =
          IF Len(history) < max_observations THEN health["dropped"] ELSE health["dropped"] + 1
    /\ RaiseDevice(o) /\ RaiseWorkload(o) /\ RaiseEvidence(o)

(* Counting leaves the other counters alone. *)
LEMMA CountOthers ==
    ASSUME NEW C, Count(C), "accepted" \notin C, "dropped" \notin C
    PROVE  health'["accepted"] = health["accepted"] /\ health'["dropped"] = health["dropped"]
BY DEF Count, HealthCounters

(* What any outcome of ingest_locked does to history, counters and marks:  *)
(* either it accepts, or history, accepted and dropped stay and no mark is *)
(* lowered.                                                                *)
LEMMA IngestEffect ==
    ASSUME TypeOK, NEW o, NEW st, ingest_locked(o, st)
    PROVE  Rejected(o, st) \/ Accepted(o, st)
<1> USE DEF gens, ids
<1>0. "accepted" \notin Reconnected(o) /\ "dropped" \notin Reconnected(o)
  BY DEF Reconnected
<1>1. CASE RejectEpoch(o, st)
  BY <1>1, CountOthers DEF RejectEpoch, Rejected
<1>2. CASE RejectAuthority(o, st)
  BY <1>2, CountOthers DEF RejectAuthority, Rejected
<1>3. CASE RejectDisconnected(o, st)
  BY <1>3, CountOthers DEF RejectDisconnected, Rejected
<1>4. CASE RejectDevice(o, st)
  BY <1>0, <1>4, CountOthers DEF RejectDevice, Rejected
<1>5. CASE RejectWorkload(o, st)
  BY <1>0, <1>5, CountOthers DEF RejectWorkload, Rejected
<1>6. CASE RejectEvidence(o, st)
  BY <1>0, <1>6, CountOthers DEF RejectEvidence, Rejected
<1>7. CASE RejectDuplicate(o, st)
  BY <1>0, <1>7, CountOthers DEF RejectDuplicate, Rejected
<1>8. CASE RejectMalformed(o, st)
  BY <1>0, <1>8, CountOthers DEF RejectMalformed, Rejected
<1>9. CASE Accept(o, st)
  <2>1. NoneStale(o)
    BY <1>9 DEF Accept, PassesDedup, PassesEvidence, PassesWorkload, PassesDevice, NoneStale
  <2>2. /\ health'["accepted"] = health["accepted"] + 1
        /\ health'["dropped"] = IF Len(history) < max_observations
                                THEN health["dropped"] ELSE health["dropped"] + 1
    BY <1>0, <1>9 DEF Accept, Count, Dropped, HealthCounters
  <2> QED BY <1>9, <2>1, <2>2 DEF Accept, Accepted
<1> QED BY <1>1, <1>2, <1>3, <1>4, <1>5, <1>6, <1>7, <1>8, <1>9 DEF ingest_locked

(* Replaying a committed observation that no mark makes stale, only the    *)
(* duplicate window can stop it.                                           *)
LEMMA ReplayStatus ==
    ASSUME TypeOK, historical_mode, NEW o \in Observations, NEW st,
           ingest_locked(o, st), WellFormed(o), NoneStale(o)
    PROVE  st \in {"Ok", "DuplicateObservation"}
<1>1. SourceOf(o) \in SourceStates
  BY ObservationType
     DEF SourceOf, NewSource, SourceStates, ObservationRecords, TypeOK, IsMap
<1>2. AdmittedSource(o) = [SourceOf(o) EXCEPT !.generation = o.source_generation,
                                !.boot = o.worker_boot, !.connected = TRUE]
  BY DEF AdmittedSource, Adopts
<1>3. AdmittedSource(o).connected
  BY <1>1, <1>2 DEF SourceStates
<1>4. PassesEvidence(o)
  BY <1>3 DEF PassesEvidence, PassesWorkload, PassesDevice, PassesConnection,
              PassesAuthority, PassesEpoch, NoneStale
<1>5. PassesEpoch(o) /\ PassesAuthority(o) /\ PassesConnection(o) /\ PassesDevice(o)
      /\ PassesWorkload(o)
  BY <1>4 DEF PassesEvidence, PassesWorkload, PassesDevice, PassesConnection, PassesAuthority
<1> QED
  BY <1>4, <1>5 DEF ingest_locked, RejectEpoch, RejectAuthority, RejectDisconnected,
     RejectDevice, RejectWorkload, RejectEvidence, RejectDuplicate, RejectMalformed, Accept

(* The marks keep covering the history, and an admitted observation that   *)
(* is not stale may follow everything in it.                               *)
LEMMA MarksKeepCovering ==
    ASSUME TypeOK, MarksCoverHistory, NEW o \in Observations,
           device_gens' = device_gens \/ RaiseDevice(o),
           workload_gens' = workload_gens \/ RaiseWorkload(o),
           evidence_gens' = evidence_gens \/ RaiseEvidence(o),
           NEW i \in 1..Len(history)
    PROVE  /\ Covers(device_gens', history[i].device, history[i].device_generation)
           /\ Covers(workload_gens', history[i].workload, history[i].workload_generation)
           /\ Covers(evidence_gens', history[i].evidence, history[i].evidence_generation)
<1>1. history[i] \in ObservationRecords /\ o \in ObservationRecords
  BY ObservationsAssumption DEF TypeOK
<1>2. IsGens(device_gens) /\ IsGens(workload_gens) /\ IsGens(evidence_gens)
  BY DEF TypeOK
<1>3. Covers(device_gens', history[i].device, history[i].device_generation)
  <2>1. /\ history[i].device \in Nat /\ history[i].device_generation \in Nat
        /\ o.device \in Nat /\ o.device_generation \in Nat
    BY <1>1 DEF ObservationRecords
  <2>2. Covers(device_gens, history[i].device, history[i].device_generation)
    BY DEF MarksCoverHistory
  <2>3. Covers(Raise(device_gens, o.device, o.device_generation),
               history[i].device, history[i].device_generation)
    BY <1>2, <2>1, <2>2, RaiseCovers
  <2> QED BY <2>2, <2>3 DEF RaiseDevice
<1>4. Covers(workload_gens', history[i].workload, history[i].workload_generation)
  <2>1. /\ history[i].workload \in Nat /\ history[i].workload_generation \in Nat
        /\ o.workload \in Nat /\ o.workload_generation \in Nat
    BY <1>1 DEF ObservationRecords
  <2>2. Covers(workload_gens, history[i].workload, history[i].workload_generation)
    BY DEF MarksCoverHistory
  <2>3. Covers(Raise(workload_gens, o.workload, o.workload_generation),
               history[i].workload, history[i].workload_generation)
    BY <1>2, <2>1, <2>2, RaiseCovers
  <2> QED BY <2>2, <2>3 DEF RaiseWorkload
<1>5. Covers(evidence_gens', history[i].evidence, history[i].evidence_generation)
  <2>1. /\ history[i].evidence \in Nat /\ history[i].evidence_generation \in Nat
        /\ o.evidence \in Nat /\ o.evidence_generation \in Nat
    BY <1>1 DEF ObservationRecords
  <2>2. Covers(evidence_gens, history[i].evidence, history[i].evidence_generation)
    BY DEF MarksCoverHistory
  <2>3. Covers(Raise(evidence_gens, o.evidence, o.evidence_generation),
               history[i].evidence, history[i].evidence_generation)
    BY <1>2, <2>1, <2>2, RaiseCovers
  <2> QED BY <2>2, <2>3 DEF RaiseEvidence
<1> QED BY <1>3, <1>4, <1>5

(* An observation that is not stale against marks that cover the history   *)
(* may follow everything in it.                                            *)
LEMMA FreshFollows ==
    ASSUME TypeOK, MarksCoverHistory, NEW o \in Observations, NoneStale(o),
           NEW i \in 1..Len(history)
    PROVE  NotOlder(history[i], o)
<1>1. history[i] \in ObservationRecords /\ o \in ObservationRecords
  BY ObservationsAssumption DEF TypeOK
<1>2. IsGens(device_gens) /\ IsGens(workload_gens) /\ IsGens(evidence_gens)
  BY DEF TypeOK
<1>3. history[i].device # 0 /\ history[i].device = o.device =>
         history[i].device_generation <= o.device_generation
  BY <1>1, <1>2, CoveredNotNewer DEF MarksCoverHistory, NoneStale, ObservationRecords
<1>4. history[i].workload # 0 /\ history[i].workload = o.workload =>
         history[i].workload_generation <= o.workload_generation
  BY <1>1, <1>2, CoveredNotNewer DEF MarksCoverHistory, NoneStale, ObservationRecords
<1>5. history[i].evidence # 0 /\ history[i].evidence = o.evidence =>
         history[i].evidence_generation <= o.evidence_generation
  BY <1>1, <1>2, CoveredNotNewer DEF MarksCoverHistory, NoneStale, ObservationRecords
<1> QED BY <1>3, <1>4, <1>5 DEF NotOlder

(* An accepted observation keeps the ledger, the marks and the order. *)
LEMMA AcceptedKeeps ==
    ASSUME TypeOK, LedgerBalances, MarksCoverHistory, Committed(history),
           NEW o \in Observations, NEW st, Accepted(o, st)
    PROVE  LedgerBalances' /\ MarksCoverHistory' /\ Committed(history)'
<1>1. history \in Seq(Observations) /\ Len(history) <= max_observations /\ Len(history) \in Nat
  BY DEF TypeOK, LedgerBalances
<1>2. /\ Len(history') = IF Len(history) < max_observations THEN Len(history) + 1 ELSE Len(history)
      /\ \E off \in {0, 1} : \A i \in 1..Len(history') :
            \/ i + off \in 1..Len(history) /\ history'[i] = history[i + off]
            \/ i + off = Len(history) + 1 /\ history'[i] = o
  BY <1>1, RetainShape, ZenonT(30) DEF Accepted
<1>3. LedgerBalances'
  <2>1. health["accepted"] \in Nat /\ health["dropped"] \in Nat
    BY DEF TypeOK, HealthCounters
  <2>2. /\ health'["accepted"] = health["accepted"] + 1
        /\ health'["dropped"] = IF Len(history) < max_observations
                                THEN health["dropped"] ELSE health["dropped"] + 1
    BY DEF Accepted
  <2>3. health["accepted"] = health["dropped"] + Len(history)
    BY DEF LedgerBalances
  <2>4. Len(history') <= max_observations
    BY <1>1, <1>2
  <2>5. health'["accepted"] = health'["dropped"] + Len(history')
    BY <1>1, <1>2, <2>1, <2>2, <2>3
  <2> QED BY <2>4, <2>5 DEF LedgerBalances
<1>4. MarksCoverHistory'
  <2>1. o \in ObservationRecords
    BY ObservationType
  <2>2. IsGens(device_gens) /\ IsGens(workload_gens) /\ IsGens(evidence_gens)
    BY DEF TypeOK
  <2>3. /\ Covers(device_gens', o.device, o.device_generation)
        /\ Covers(workload_gens', o.workload, o.workload_generation)
        /\ Covers(evidence_gens', o.evidence, o.evidence_generation)
    BY <2>1, <2>2, RaiseCovers
       DEF Accepted, RaiseDevice, RaiseWorkload, RaiseEvidence, ObservationRecords
  <2>4. \A i \in 1..Len(history) :
           /\ Covers(device_gens', history[i].device, history[i].device_generation)
           /\ Covers(workload_gens', history[i].workload, history[i].workload_generation)
           /\ Covers(evidence_gens', history[i].evidence, history[i].evidence_generation)
    BY MarksKeepCovering DEF Accepted
  <2> QED BY <1>2, <2>3, <2>4 DEF MarksCoverHistory
<1>5. Committed(history)'
  <2>1. \A i \in 1..Len(history) : NotOlder(history[i], o)
    BY FreshFollows DEF Accepted
  <2>2. Committed(Retain(history, o))
    BY <1>1, <2>1, RetainCommitted DEF Accepted
  <2>3. Committed(history') = Committed(history)'
    BY DEF Committed, InGenerationOrder, NotOlder, WellFormed
  <2> QED BY <2>2, <2>3 DEF Accepted
<1> QED BY <1>3, <1>4, <1>5

(* The empty history is committed. *)
LEMMA EmptyCommitted == Committed(<<>>)
BY DEF Committed, InGenerationOrder

(* Steps that leave history, marks and load alone. *)
LEMMA QuietKeeps ==
    ASSUME ReplayInv, UNCHANGED <<history, gens, loader>>,
           health'["accepted"] = health["accepted"], health'["dropped"] = health["dropped"],
           Committed(saver'.obs), Committed(file'.obs)
    PROVE  ReplayInv'
<1> USE DEF gens
<1>1. LedgerBalances'
  BY DEF ReplayInv, LedgerBalances
<1>2. MarksCoverHistory'
  BY DEF ReplayInv, MarksCoverHistory
<1>3. CommittedEverywhere'
  BY DEF ReplayInv, CommittedEverywhere
<1>4. LoadPosition' /\ ReplayNeverStale'
  BY DEF ReplayInv, LoadPosition, ReplayNeverStale, historical_mode, NoneStale
<1> QED BY <1>1, <1>2, <1>3, <1>4 DEF ReplayInv

(* One ingest outside a load. *)
LEMMA IngestKeeps ==
    ASSUME TypeOK, ReplayInv, NEW o \in Observations, ingest(o)
    PROVE  ReplayInv'
<1>1. PICK st \in Statuses : ingest_locked(o, st)
  BY DEF ingest
<1>2. UNCHANGED <<file, saver, loader>> /\ ~historical_mode
  BY DEF ingest, Unlocked
<1>3. LoadPosition' /\ ReplayNeverStale'
  BY <1>2 DEF ReplayInv, LoadPosition, ReplayNeverStale, historical_mode
<1>4. LedgerBalances' /\ MarksCoverHistory' /\ Committed(history)'
  <2>1. CASE Rejected(o, st)
    <3>1. LedgerBalances'
      BY <2>1 DEF Rejected, ReplayInv, LedgerBalances
    <3>2. MarksCoverHistory'
      BY <2>1, MarksKeepCovering DEF Rejected, ReplayInv, MarksCoverHistory
    <3>3. Committed(history)'
      BY <2>1 DEF Rejected, ReplayInv, CommittedEverywhere
    <3> QED BY <3>1, <3>2, <3>3
  <2>2. CASE Accepted(o, st)
    BY <2>2, AcceptedKeeps DEF ReplayInv, CommittedEverywhere
  <2> QED BY <1>1, <2>1, <2>2, IngestEffect
<1>5. CommittedEverywhere'
  BY <1>2, <1>4 DEF ReplayInv, CommittedEverywhere
<1> QED BY <1>3, <1>4, <1>5 DEF ReplayInv

(* One iteration of the replay loop. *)
LEMMA LoadStepKeeps ==
    ASSUME TypeOK, ReplayInv, LoadStep
    PROVE  ReplayInv'
<1> DEFINE o == loader.obs[loader.next]
<1>1. PICK st \in Statuses :
         /\ ingest_locked(o, st)
         /\ loader' = [loader EXCEPT !.st = st, !.next = IF st = "Ok" THEN @ + 1 ELSE @]
  BY DEF LoadStep
<1>2. /\ loader \in LoaderStates /\ loader.obs \in Seq(Observations)
      /\ historical_mode /\ loader.next \in 1..Len(loader.obs)
      /\ UNCHANGED <<file, saver>>
  BY DEF LoadStep, Replaying, TypeOK, LoaderStates, historical_mode
<1>3. o \in Observations /\ WellFormed(o) /\ NoneStale(o)
  BY <1>2 DEF ReplayInv, CommittedEverywhere, Committed, LoadPosition
<1>4. st \in {"Ok", "DuplicateObservation"}
  BY <1>1, <1>2, <1>3, ReplayStatus
<1>5. /\ loader'.pc = "replay" /\ loader'.obs = loader.obs /\ loader'.st = st
      /\ loader'.next = IF st = "Ok" THEN loader.next + 1 ELSE loader.next
  BY <1>1, <1>2 DEF LoaderStates, historical_mode
<1>6. /\ device_gens' = device_gens \/ RaiseDevice(o)
      /\ workload_gens' = workload_gens \/ RaiseWorkload(o)
      /\ evidence_gens' = evidence_gens \/ RaiseEvidence(o)
  BY <1>1, IngestEffect DEF Rejected, Accepted
<1>7. ASSUME NEW i \in loader.next..Len(loader.obs) PROVE NoneStale(loader.obs[i])'
  <2> DEFINE p == loader.obs[i]
  <2>1. i \in 1..Len(loader.obs) /\ loader.next <= i
    BY <1>2
  <2>2. p \in ObservationRecords /\ o \in ObservationRecords
    BY <1>2, <1>3, <2>1, ObservationsAssumption
  <2>3. NotOlder(o, p)
    BY <1>2, <2>1 DEF ReplayInv, CommittedEverywhere, Committed, InGenerationOrder
  <2>4. NoneStale(p)
    BY <1>2 DEF ReplayInv, LoadPosition
  <2>5. IsGens(device_gens) /\ IsGens(workload_gens) /\ IsGens(evidence_gens)
    BY DEF TypeOK
  <2> HIDE DEF p, o
  <2>6. ~StaleGen(device_gens', p.device, p.device_generation)
    <3>1. ~StaleGen(Raise(device_gens, o.device, o.device_generation),
                    p.device, p.device_generation)
      BY <2>2, <2>3, <2>4, <2>5, RaiseStale DEF NoneStale, NotOlder, ObservationRecords
    <3> QED BY <1>6, <2>4, <3>1 DEF RaiseDevice, NoneStale
  <2>7. ~StaleGen(workload_gens', p.workload, p.workload_generation)
    <3>1. ~StaleGen(Raise(workload_gens, o.workload, o.workload_generation),
                    p.workload, p.workload_generation)
      BY <2>2, <2>3, <2>4, <2>5, RaiseStale DEF NoneStale, NotOlder, ObservationRecords
    <3> QED BY <1>6, <2>4, <3>1 DEF RaiseWorkload, NoneStale
  <2>8. ~StaleGen(evidence_gens', p.evidence, p.evidence_generation)
    <3>1. ~StaleGen(Raise(evidence_gens, o.evidence, o.evidence_generation),
                    p.evidence, p.evidence_generation)
      BY <2>2, <2>3, <2>4, <2>5, RaiseStale DEF NoneStale, NotOlder, ObservationRecords
    <3> QED BY <1>6, <2>4, <3>1 DEF RaiseEvidence, NoneStale
  <2> QED BY <1>5, <2>6, <2>7, <2>8 DEF NoneStale, p
<1>8. CASE st = "Ok"
  <2>1. Accepted(o, st)
    BY <1>1, <1>8, IngestEffect DEF Rejected
  <2>2. LedgerBalances' /\ MarksCoverHistory' /\ Committed(history)'
    BY <1>3, <2>1, AcceptedKeeps DEF ReplayInv, CommittedEverywhere
  <2>3. /\ history \in Seq(Observations) /\ Len(history) \in Nat
        /\ Len(history) < max_observations /\ loader.next = Len(history) + 1
    BY <1>2 DEF ReplayInv, CommittedEverywhere, Committed, LoadPosition, TypeOK
  <2>4. history' = Append(history, o)
    BY <2>1, <2>3 DEF Accepted, Retain
  <2>5. /\ Len(history') = Len(history) + 1
        /\ \A i \in 1..Len(history) : history'[i] = history[i]
        /\ history'[Len(history) + 1] = o
    BY <1>3, <2>3, <2>4, AppendProperties
  <2>6. LoadPosition'
    <3>1. loader'.next = Len(history') + 1 /\ Len(history') <= Len(loader'.obs)
      BY <1>2, <1>5, <1>8, <2>3, <2>5
    <3>2. \A i \in 1..Len(history') : history'[i] = loader'.obs[i]
      BY <1>2, <1>5, <2>3, <2>5 DEF ReplayInv, LoadPosition
    <3>3. \A i \in loader'.next..Len(loader'.obs) : NoneStale(loader.obs[i])'
      BY <1>2, <1>5, <1>7, <1>8
    <3> QED BY <1>5, <3>1, <3>2, <3>3 DEF LoadPosition, historical_mode
  <2>7. CommittedEverywhere'
    BY <1>2, <1>5, <2>2 DEF ReplayInv, CommittedEverywhere
  <2>8. ReplayNeverStale'
    BY <1>4, <1>5 DEF ReplayNeverStale
  <2> QED BY <2>2, <2>6, <2>7, <2>8 DEF ReplayInv
<1>9. CASE st # "Ok"
  <2>1. Rejected(o, st)
    BY <1>1, <1>9, IngestEffect DEF Accepted
  <2>2. LedgerBalances'
    BY <2>1 DEF Rejected, ReplayInv, LedgerBalances
  <2>3. MarksCoverHistory'
    BY <1>3, <2>1, MarksKeepCovering DEF Rejected, ReplayInv, MarksCoverHistory
  <2>4. CommittedEverywhere'
    BY <1>2, <1>5, <2>1 DEF Rejected, ReplayInv, CommittedEverywhere
  <2>5. LoadPosition'
    <3>1. \A i \in loader'.next..Len(loader'.obs) : NoneStale(loader.obs[i])'
      BY <1>5, <1>7, <1>9
    <3> QED BY <1>2, <1>5, <1>9, <2>1, <3>1 DEF Rejected, ReplayInv, LoadPosition, historical_mode
  <2>6. ReplayNeverStale'
    BY <1>4, <1>5 DEF ReplayNeverStale
  <2> QED BY <2>2, <2>3, <2>4, <2>5, <2>6 DEF ReplayInv
<1> QED BY <1>8, <1>9

(* Nothing has been kept, counted or saved at the start. *)
LEMMA ReplayInit == ASSUME Init PROVE ReplayInv
<1>1. LedgerBalances
  BY DEF Init, LedgerBalances, ZeroHealth, HealthCounters
<1>2. MarksCoverHistory
  BY DEF Init, MarksCoverHistory
<1>3. CommittedEverywhere
  BY EmptyCommitted DEF Init, CommittedEverywhere
<1>4. LoadPosition /\ ReplayNeverStale
  BY DEF Init, LoadPosition, ReplayNeverStale, historical_mode
<1> QED BY <1>1, <1>2, <1>3, <1>4 DEF ReplayInv

(* Every operation keeps the invariant. *)
LEMMA ReplayStep == ASSUME TypeOK, ReplayInv, [Next]_vars PROVE ReplayInv'
<1> USE DEF gens, ids
<1>0. Committed(saver.obs) /\ Committed(file.obs) /\ Committed(history) /\ Committed(<<>>)
  BY EmptyCommitted DEF ReplayInv, CommittedEverywhere
<1>1. ASSUME NEW o \in Observations, ingest(o) PROVE ReplayInv'
  BY <1>1, IngestKeeps
<1>2. ASSUME NEW info \in SourceInfos, register_source(info) PROVE ReplayInv'
  BY <1>0, <1>2, QuietKeeps DEF register_source
<1>3. ASSUME NEW s \in DOMAIN sources, NEW t \in Ticks,
             mark_source_connected(s, t) \/ mark_source_disconnected(s, t)
      PROVE  ReplayInv'
  <2>1. health'["accepted"] = health["accepted"] /\ health'["dropped"] = health["dropped"]
    BY <1>3, CountOthers DEF mark_source_connected, mark_source_disconnected
  <2>2. UNCHANGED <<history, gens, loader, saver, file>>
    BY <1>3 DEF mark_source_connected, mark_source_disconnected
  <2> QED BY <1>0, <2>1, <2>2, QuietKeeps
<1>4. CASE advance_epoch
  BY <1>0, <1>4, QuietKeeps DEF advance_epoch
<1>5. CASE SaveSnapshot
  BY <1>0, <1>5, QuietKeeps DEF SaveSnapshot
<1>6. CASE SaveReplaces
  BY <1>0, <1>6, QuietKeeps DEF SaveReplaces, SaveReturns, Written
<1>7. CASE SaveFails
  BY <1>0, <1>7, QuietKeeps, CountOthers DEF SaveFails, SaveReturns
<1>8. CASE SaveLosesFile
  BY <1>0, <1>8, QuietKeeps, CountOthers DEF SaveLosesFile, SaveReturns, NoFile
<1>9. CASE LoadParse
  <2>1. LoadPosition' /\ ReplayNeverStale'
    BY <1>9 DEF LoadParse, LoadPosition, ReplayNeverStale, historical_mode
  <2>2. CommittedEverywhere'
    BY <1>0, <1>9 DEF LoadParse, CommittedEverywhere
  <2>3. LedgerBalances' /\ MarksCoverHistory'
    BY <1>9 DEF LoadParse, ReplayInv, LedgerBalances, MarksCoverHistory
  <2> QED BY <2>1, <2>2, <2>3 DEF ReplayInv
<1>10. CASE LoadClear
  <2>1. loader \in LoaderStates /\ loader.pc = "parsed" /\ loader.next = 1
    BY <1>10 DEF LoadClear, TypeOK, ReplayInv, LoadPosition
  <2>2. /\ loader'.pc = "replay" /\ loader'.obs = loader.obs /\ loader'.next = 1
        /\ loader'.st = loader.st /\ history' = <<>>
    BY <1>10, <2>1 DEF LoadClear, ClearMemory, ClearHistory, LoaderStates
  <2>3. LedgerBalances' /\ MarksCoverHistory'
    BY <1>10 DEF LoadClear, ClearMemory, ClearHistory, LedgerBalances, MarksCoverHistory,
                 ZeroHealth, HealthCounters
  <2>4. CommittedEverywhere'
    BY <1>0, <1>10, <2>2 DEF LoadClear, CommittedEverywhere, ReplayInv
  <2>5. \A i \in loader'.next..Len(loader'.obs) : NoneStale(loader.obs[i])'
    BY <1>10 DEF LoadClear, ClearMemory, ClearGens, NoneStale, StaleGen, EmptyMap
  <2>6. LoadPosition'
    <3>1. Len(loader.obs) \in Nat
      BY <2>1 DEF LoaderStates
    <3> QED BY <2>2, <2>5, <3>1 DEF LoadPosition
  <2>7. ReplayNeverStale'
    BY <2>2 DEF ReplayInv, ReplayNeverStale
  <2> QED BY <2>3, <2>4, <2>6, <2>7 DEF ReplayInv
<1>11. CASE LoadStep
  BY <1>11, LoadStepKeeps
<1>12. CASE LoadReturns
  <2>1. LedgerBalances' /\ MarksCoverHistory'
    BY <1>12 DEF LoadReturns, ReplayInv, LedgerBalances, MarksCoverHistory
  <2>2. CommittedEverywhere'
    BY <1>0, <1>12 DEF LoadReturns, CommittedEverywhere
  <2>3. LoadPosition' /\ ReplayNeverStale'
    BY <1>12 DEF LoadReturns, ReplayInv, LoadPosition, ReplayNeverStale, historical_mode
  <2> QED BY <2>1, <2>2, <2>3 DEF ReplayInv
<1>13. CASE UNCHANGED vars
  BY <1>0, <1>13, QuietKeeps DEF vars
<1> QED BY <1>1, <1>2, <1>3, <1>4, <1>5, <1>6, <1>7, <1>8, <1>9, <1>10, <1>11, <1>12, <1>13
        DEF Next, Call, Save, Load, ReadOnly

(* The inductive invariant holds in every reachable state. *)
THEOREM ReplayInvariant == Spec => []ReplayInv
BY ReplayInit, ReplayStep, TypeCorrect, PTL DEF Spec

(* The accepted and dropped counters account for the retained history,     *)
(* and the history stays within max_observations, for every configuration. *)
THEOREM LedgerAlwaysBalances == Spec => []LedgerBalances
<1>1. ReplayInv => LedgerBalances
  BY DEF ReplayInv
<1> QED BY <1>1, ReplayInvariant, PTL

(* The history never goes back to a superseded generation. *)
THEOREM HistoryAlwaysInGenerationOrder == Spec => []HistoryInGenerationOrder
<1>1. ReplayInv => HistoryInGenerationOrder
  BY DEF ReplayInv, CommittedEverywhere, Committed, HistoryInGenerationOrder
<1> QED BY <1>1, ReplayInvariant, PTL

(* Only a duplicate id can stop the replay of a saved history. *)
THEOREM SavedHistoryNeverStale == Spec => []ReplayNeverStale
<1>1. ReplayInv => ReplayNeverStale
  BY DEF ReplayInv
<1> QED BY <1>1, ReplayInvariant, PTL

(* A load rebuilds, observation by observation, exactly what was saved. *)
THEOREM ReplayAlwaysRebuildsPrefix == Spec => []ReplayRebuildsPrefix
<1>1. TypeOK /\ ReplayInv => ReplayRebuildsPrefix
  <2> SUFFICES ASSUME TypeOK, ReplayInv, historical_mode
               PROVE  history = SubSeq(loader.obs, 1, loader.next - 1)
    BY DEF ReplayRebuildsPrefix
  <2>1. history \in Seq(Observations) /\ loader.obs \in Seq(Observations)
    BY DEF TypeOK, LoaderStates
  <2>2. /\ loader.next - 1 = Len(history) /\ Len(history) \in 0..Len(loader.obs)
        /\ \A i \in 1..Len(history) : history[i] = loader.obs[i]
    BY <2>1 DEF ReplayInv, LoadPosition
  <2> DEFINE p == SubSeq(loader.obs, 1, Len(history))
  <2>3. /\ p \in Seq(Observations) /\ Len(p) = Len(history)
        /\ \A i \in 1..Len(history) : p[i] = loader.obs[i]
    BY <2>1, <2>2, SubSeqProperties
  <2> HIDE DEF p
  <2>4. history = p
    BY <2>1, <2>2, <2>3, SeqEqual
  <2> QED BY <2>2, <2>4 DEF p
<1> QED BY <1>1, TypeCorrect, ReplayInvariant, PTL

(***************************************************************************)
(* The observatory implements Ledger: initial states map to initial        *)
(* states, and each step of the observatory to a step of the ledger or to  *)
(* none.                                                                   *)
(***************************************************************************)
(* An outcome of ingest_locked outside a load records the observation in   *)
(* the ledger or leaves the history alone.                                 *)
LEMMA IngestRecords ==
    ASSUME TypeOK, ReplayInv, NEW o \in Observations, ingest(o)
    PROVE  L!Record(o) \/ UNCHANGED L!ledgerVars
<1>1. PICK st \in Statuses : ingest_locked(o, st)
  BY DEF ingest
<1>2. UNCHANGED <<file, saver, loader>> /\ ~historical_mode /\ ~historical_mode'
  BY DEF ingest, Unlocked, historical_mode
<1>3. CASE Rejected(o, st)
  BY <1>2, <1>3 DEF Rejected, L!ledgerVars, historical_mode
<1>4. CASE Accepted(o, st)
  <2>1. \A i \in 1..Len(history) : NotOlder(history[i], o)
    BY <1>4, FreshFollows DEF ReplayInv, Accepted
  <2>2. history \in Seq(Observations) /\ Len(history) \in Nat
    BY DEF TypeOK
  <2>3. Retain(history, o) = L!Kept(Append(history, o))
    <3>1. Len(Append(history, o)) = Len(history) + 1
      BY <2>2
    <3>2. max_observations \in Nat
      BY ConfigAssumption
    <3> QED BY <2>2, <3>1, <3>2 DEF Retain, L!Kept
  <2> QED BY <1>2, <1>4, <2>1, <2>3 DEF Accepted, L!Record, historical_mode
<1> QED BY <1>1, <1>3, <1>4, IngestEffect

(* A step of the replay loop is hidden: the ledger is still loading. *)
LEMMA ReplayHidden == ASSUME TypeOK, LoadStep PROVE UNCHANGED L!ledgerVars
<1>1. historical_mode /\ UNCHANGED <<file, saver>>
  BY DEF LoadStep, Replaying, historical_mode
<1>2. loader'.pc = loader.pc /\ loader'.obs = loader.obs
  BY DEF LoadStep, TypeOK, LoaderStates
<1> QED BY <1>1, <1>2 DEF L!ledgerVars, historical_mode

(* Clearing the memory begins a load of the ledger. *)
LEMMA ClearHides == ASSUME TypeOK, LoadClear PROVE L!Clear
<1>1. loader'.pc = "replay" /\ loader'.obs = loader.obs /\ loader.pc = "parsed"
  BY DEF LoadClear, TypeOK, LoaderStates
<1> QED BY <1>1 DEF LoadClear, L!Clear, historical_mode

(* The end of a load restores a prefix of what was parsed. *)
LEMMA ReturnRestores == ASSUME TypeOK, ReplayInv, LoadReturns PROVE L!Restore
<1>1. historical_mode /\ loader'.pc = "idle" /\ loader'.obs = <<>> /\ UNCHANGED <<history, file, saver>>
  BY DEF LoadReturns
<1>2. /\ history \in Seq(Observations) /\ loader.obs \in Seq(Observations)
      /\ Len(history) \in Nat /\ Len(history) <= Len(loader.obs)
      /\ \A i \in 1..Len(history) : history[i] = loader.obs[i]
  BY <1>1 DEF TypeOK, LoaderStates, ReplayInv, LoadPosition
<1>3. history = SubSeq(loader.obs, 1, Len(history))
  BY <1>2
<1>4. Len(history) \in 0..Len(loader.obs)
  BY <1>2
<1> QED BY <1>1, <1>3, <1>4 DEF L!Restore, historical_mode

(* The empty memory of the observatory is an empty ledger. *)
LEMMA LedgerInit == ASSUME Init PROVE L!Init
BY DEF Init, L!Init, historical_mode

(* Every operation is a step of the ledger or none. *)
LEMMA LedgerStep == ASSUME TypeOK, ReplayInv, [Next]_vars PROVE [L!Next]_(L!ledgerVars)
<1> USE DEF gens, ids
<1>1. CASE \E o \in Observations : ingest(o)
  BY <1>1, IngestRecords DEF L!Next
<1>2. CASE \/ \E info \in SourceInfos : register_source(info)
           \/ \E s \in DOMAIN sources, t \in Ticks :
                 mark_source_connected(s, t) \/ mark_source_disconnected(s, t)
           \/ advance_epoch \/ ReadOnly \/ UNCHANGED vars
  <2>1. UNCHANGED <<history, file, saver, loader>>
    BY <1>2 DEF register_source, mark_source_connected, mark_source_disconnected,
                advance_epoch, ReadOnly, vars
  <2> QED BY <2>1 DEF L!ledgerVars, historical_mode
<1>3. CASE SaveSnapshot
  BY <1>3 DEF SaveSnapshot, Unlocked, L!Next, L!Copy, historical_mode
<1>4. CASE SaveReplaces
  BY <1>4 DEF SaveReplaces, SaveReturns, Written, L!Next, L!Store, historical_mode
<1>5. CASE SaveFails
  BY <1>5 DEF SaveFails, SaveReturns, L!Next, L!Abandon, historical_mode
<1>6. CASE SaveLosesFile
  BY <1>6 DEF SaveLosesFile, SaveReturns, NoFile, L!Next, L!Abandon, historical_mode
<1>7. CASE LoadParse
  BY <1>7 DEF LoadParse, L!Next, L!Parse, historical_mode
<1>8. CASE LoadClear
  BY <1>8, ClearHides DEF L!Next
<1>9. CASE LoadStep
  BY <1>9, ReplayHidden
<1>10. CASE LoadReturns
  BY <1>10, ReturnRestores DEF L!Next
<1> QED BY <1>1, <1>2, <1>3, <1>4, <1>5, <1>6, <1>7, <1>8, <1>9, <1>10
        DEF Next, Call, Save, Load

(* The observatory implements the ledger: gates, counters, marks, devices  *)
(* and the replay loop are steps nobody sees, an accepted observation may  *)
(* follow everything retained, a save stores the history as it was copied, *)
(* and a load brings back a prefix of the file (ingest_locked, save and    *)
(* load of observatory.cpp).                                               *)
THEOREM ObservatoryImplementsLedger == Spec => LedgerKept
BY LedgerInit, LedgerStep, TypeCorrect, ReplayInvariant, PTL DEF Spec, LedgerKept, L!Spec
=============================================================================
