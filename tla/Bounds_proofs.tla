--------------------------- MODULE Bounds_proofs ---------------------------
(***************************************************************************)
(* The duplicate window and the sample buffers stay within their bounds,   *)
(* a live authority is kept, disconnections and reconnections are          *)
(* accounted for, and saved histories load again, for every universe of    *)
(* observations and every configuration.                                   *)
(***************************************************************************)
EXTENDS Observatory_proofs, FiniteSetTheorems

-----------------------------------------------------------------------------
(***************************************************************************)
(* The duplicate window.                                                   *)
(***************************************************************************)
(* A queue without repetitions is as long as the set of its elements. *)
LEMMA DistinctSize ==
    ASSUME NEW S, NEW q \in Seq(S), \A i, j \in 1..Len(q) : q[i] = q[j] => i = j
    PROVE  Cardinality({q[i] : i \in 1..Len(q)}) = Len(q)
<1> DEFINE T == {q[i] : i \in 1..Len(q)}
<1>1. Len(q) \in Nat
  OBVIOUS
<1>2. q \in Bijection(1..Len(q), T)
  BY DEF Bijection, Injection, Surjection, IsInjective
<1>3. ExistsBijection(1..Len(q), T)
  BY <1>2 DEF ExistsBijection
<1>4. IsFiniteSet(1..Len(q)) /\ Cardinality(1..Len(q)) = Len(q)
  <2>1. 1 \in Int /\ Len(q) \in Int
    BY <1>1
  <2>2. /\ IsFiniteSet(1..Len(q))
        /\ Cardinality(1..Len(q)) = IF 1 > Len(q) THEN 0 ELSE Len(q) - 1 + 1
    BY <2>1, FS_Interval
  <2> QED BY <1>1, <2>2
<1> QED BY <1>3, <1>4, FS_Bijection

(* Appending a new element to a queue without repetitions. *)
LEMMA AppendDistinct ==
    ASSUME NEW S, NEW q \in Seq(S), NEW x \in S,
           \A i, j \in 1..Len(q) : q[i] = q[j] => i = j,
           x \notin {q[i] : i \in 1..Len(q)}
    PROVE  /\ \A i, j \in 1..Len(Append(q, x)) : Append(q, x)[i] = Append(q, x)[j] => i = j
           /\ {Append(q, x)[i] : i \in 1..Len(Append(q, x))} = {q[i] : i \in 1..Len(q)} \cup {x}
<1> DEFINE r == Append(q, x)
<1>1. /\ Len(q) \in Nat /\ Len(r) = Len(q) + 1
      /\ \A i \in 1..Len(q) : r[i] = q[i]
      /\ r[Len(q) + 1] = x
  OBVIOUS
<1>2. \A i \in 1..Len(r) : i \in 1..Len(q) \/ i = Len(q) + 1
  BY <1>1
<1> HIDE DEF r
<1>3. \A i, j \in 1..Len(r) : r[i] = r[j] => i = j
  BY <1>1, <1>2
<1>4. {r[i] : i \in 1..Len(r)} = {q[i] : i \in 1..Len(q)} \cup {x}
  <2>1. \A y \in {r[i] : i \in 1..Len(r)} : y \in {q[i] : i \in 1..Len(q)} \cup {x}
    BY <1>1, <1>2
  <2>2. \A i \in 1..Len(q) : i \in 1..Len(r)
    BY <1>1
  <2>3. Len(q) + 1 \in 1..Len(r)
    BY <1>1
  <2>4. \A y \in {q[i] : i \in 1..Len(q)} \cup {x} : y \in {r[i] : i \in 1..Len(r)}
    BY <1>1, <2>2, <2>3
  <2> QED BY <2>1, <2>4
<1> QED BY <1>3, <1>4 DEF r

(* Removing the oldest element of a queue without repetitions. *)
LEMMA TailDistinct ==
    ASSUME NEW S, NEW q \in Seq(S), q # <<>>,
           \A i, j \in 1..Len(q) : q[i] = q[j] => i = j
    PROVE  /\ \A i, j \in 1..Len(Tail(q)) : Tail(q)[i] = Tail(q)[j] => i = j
           /\ {Tail(q)[i] : i \in 1..Len(Tail(q))} = {q[i] : i \in 1..Len(q)} \ {Head(q)}
<1> DEFINE r == Tail(q)
<1>1. /\ Len(q) \in Nat /\ Len(q) >= 1 /\ Len(r) = Len(q) - 1 /\ Head(q) = q[1]
      /\ \A i \in 1..Len(r) : r[i] = q[i + 1]
  OBVIOUS
<1>2. \A i \in 1..Len(r) : i + 1 \in 1..Len(q) /\ i + 1 # 1
  BY <1>1
<1>3. \A i \in 1..Len(q) : i # 1 => i - 1 \in 1..Len(r) /\ q[i] = r[i - 1]
  BY <1>1
<1> HIDE DEF r
<1>4. \A i, j \in 1..Len(r) : r[i] = r[j] => i = j
  <2> TAKE i, j \in 1..Len(r)
  <2> HAVE r[i] = r[j]
  <2>1. i + 1 = j + 1
    BY <1>1, <1>2
  <2> QED BY <2>1
<1>5. 1 \in 1..Len(q)
  BY <1>1
<1>6. {r[i] : i \in 1..Len(r)} = {q[i] : i \in 1..Len(q)} \ {Head(q)}
  <2>1. \A i \in 1..Len(r) : r[i] \in {q[k] : k \in 1..Len(q)} /\ r[i] # Head(q)
    BY <1>1, <1>2, <1>5
  <2>2. \A i \in 1..Len(q) : q[i] # Head(q) => q[i] \in {r[k] : k \in 1..Len(r)}
    BY <1>1, <1>3
  <2> QED BY <2>1, <2>2
<1> QED BY <1>4, <1>6 DEF r

(* Remembering an id that is not in the window keeps set and queue in step *)
(* and within the capacity.                                                *)
LEMMA RememberKeeps ==
    ASSUME TypeOK, DedupConsistent, NEW id \in Nat, id \notin dedup, remember_obs_id(id)
    PROVE  DedupConsistent'
<1> DEFINE q == dedup_order
           rest == IF Full THEN Tail(q) ELSE q
           left == IF Full THEN dedup \ {Head(q)} ELSE dedup
<1>1. /\ q \in Seq(Nat) /\ Len(q) \in Nat
      /\ dedup = {q[i] : i \in 1..Len(q)}
      /\ \A i, j \in 1..Len(q) : q[i] = q[j] => i = j
      /\ Len(q) <= Larger(1, dedup_capacity)
  BY DEF TypeOK, DedupConsistent
<1>2. Cardinality(dedup) = Len(q)
  BY <1>1, DistinctSize
<1>3. /\ rest \in Seq(Nat)
      /\ left = {rest[i] : i \in 1..Len(rest)}
      /\ \A i, j \in 1..Len(rest) : rest[i] = rest[j] => i = j
      /\ Len(rest) + 1 <= Larger(1, dedup_capacity)
  <2>1. CASE Full
    <3>1. q # <<>> /\ rest = Tail(q) /\ left = dedup \ {Head(q)}
      BY <2>1 DEF Full
    <3>2. Tail(q) \in Seq(Nat) /\ Len(Tail(q)) + 1 = Len(q)
      BY <1>1, <3>1
    <3>3. /\ \A i, j \in 1..Len(Tail(q)) : Tail(q)[i] = Tail(q)[j] => i = j
          /\ {Tail(q)[i] : i \in 1..Len(Tail(q))} = {q[i] : i \in 1..Len(q)} \ {Head(q)}
      BY <1>1, <3>1, TailDistinct
    <3>4. Len(Tail(q)) + 1 <= Larger(1, dedup_capacity)
      BY <1>1, <3>2
    <3> HIDE DEF rest, left
    <3>5. left = {q[i] : i \in 1..Len(q)} \ {Head(q)}
      BY <1>1, <3>1
    <3> QED BY <3>1, <3>2, <3>3, <3>4, <3>5, ZenonT(30)
  <2>2. CASE ~Full
    <3>1. rest = q /\ left = dedup
      BY <2>2
    <3>2. Len(q) < dedup_capacity \/ Len(q) = 0
      <4>1. ~(Len(q) >= dedup_capacity /\ q # <<>>)
        BY <1>2, <2>2 DEF Full
      <4> QED BY <1>1, <4>1, ConfigAssumption
    <3>3. Len(q) + 1 <= Larger(1, dedup_capacity)
      BY <1>1, <3>2, ConfigAssumption DEF Larger
    <3> QED BY <1>1, <3>1, <3>3
  <2> QED BY <2>1, <2>2
<1>4. dedup' = left \cup {id} /\ dedup_order' = Append(rest, id) /\ id \notin left
  BY DEF remember_obs_id
<1> HIDE DEF rest, left
<1>5. /\ \A i, j \in 1..Len(Append(rest, id)) :
            Append(rest, id)[i] = Append(rest, id)[j] => i = j
      /\ {Append(rest, id)[i] : i \in 1..Len(Append(rest, id))} = left \cup {id}
  BY <1>3, <1>4, AppendDistinct
<1>6. Len(Append(rest, id)) <= Larger(1, dedup_capacity)
  BY <1>3
<1> QED BY <1>4, <1>5, <1>6 DEF DedupConsistent

(* Every outcome of ingest_locked keeps the duplicate window consistent. *)
LEMMA IngestKeepsWindow ==
    ASSUME TypeOK, DedupConsistent, NEW o \in Observations, NEW st, ingest_locked(o, st)
    PROVE  DedupConsistent'
<1>1. CASE UNCHANGED ids
  BY <1>1 DEF ids, DedupConsistent
<1>2. CASE RejectMalformed(o, st) \/ Accept(o, st)
  <2>1. o.id \in Nat
    BY ObservationType DEF ObservationRecords
  <2>2. o.id \notin dedup /\ remember_obs_id(o.id)
    BY <1>2 DEF RejectMalformed, Accept, PassesDedup
  <2> QED BY <2>1, <2>2, RememberKeeps
<1> QED BY <1>1, <1>2 DEF ingest_locked, RejectEpoch, RejectAuthority, RejectDisconnected,
           RejectDevice, RejectWorkload, RejectEvidence, RejectDuplicate, ids

(* Set and queue of the duplicate window hold the same ids, each once, and *)
(* never more than dedup_capacity or one (remember_obs_id).                *)
THEOREM WindowAlwaysConsistent == Spec => []DedupConsistent
<1>1. Init => DedupConsistent
  BY ConfigAssumption DEF Init, DedupConsistent, Larger
<1>2. ASSUME TypeOK, ReplayInv, DedupConsistent, [Next]_vars PROVE DedupConsistent'
  <2>1. CASE \E o \in Observations : ingest(o)
    BY <1>2, <2>1, IngestKeepsWindow DEF ingest
  <2>2. CASE LoadStep
    <3>1. loader.obs[loader.next] \in Observations
      BY <1>2, <2>2 DEF LoadStep, Replaying, TypeOK, LoaderStates
    <3> QED BY <1>2, <2>2, <3>1, IngestKeepsWindow DEF LoadStep
  <2>3. CASE LoadClear
    BY <2>3, ConfigAssumption DEF LoadClear, ClearMemory, ClearIds, DedupConsistent, Larger
  <2>4. CASE UNCHANGED ids
    BY <1>2, <2>4 DEF ids, DedupConsistent
  <2> QED BY <1>2, <2>1, <2>2, <2>3, <2>4
          DEF Next, Call, Save, Load, vars, register_source, mark_source_connected,
              mark_source_disconnected, advance_epoch, ReadOnly, SaveSnapshot, SaveReplaces,
              SaveFails, SaveLosesFile, LoadParse, LoadReturns, ids
<1> QED BY <1>1, <1>2, TypeCorrect, ReplayInvariant, PTL DEF Spec

-----------------------------------------------------------------------------
(***************************************************************************)
(* The sample buffers.                                                     *)
(***************************************************************************)
(* An accepted observation keeps the sample buffer of its device bounded. *)
LEMMA AccumulateBounded ==
    ASSUME NEW d \in DeviceAccums, NEW o \in ObservationRecords,
           Len(d.samples) <= sample_limit + 1
    PROVE  Len(Accumulate(d, o).samples) <= sample_limit + 1
<1>1. CASE o.type \in {"DeviceSample", "WorkloadSample"}
  <2> DEFINE p == [at |-> o.begin, percent |-> o.percent, src |-> o.source]
             rest == IF Len(d.samples) > sample_limit THEN Tail(d.samples) ELSE d.samples
  <2>1. d.samples \in Seq(SamplePoints) /\ p \in SamplePoints
    BY DEF DeviceAccums, SamplePoints, ObservationRecords
  <2>2. rest \in Seq(SamplePoints) /\ Len(rest) <= sample_limit
    BY <2>1, SampleLimitAssumption
  <2>3. Len(Append(rest, p)) <= sample_limit + 1
    BY <2>1, <2>2, SampleLimitAssumption
  <2>4. AddSample(d, o).samples = Append(rest, p)
    BY DEF AddSample, PushSample, DeviceAccums
  <2>5. Accumulate(d, o) = AddSample(d, o)
    BY <1>1 DEF Accumulate, BeginTypes, EndTypes
  <2> QED BY <2>3, <2>4, <2>5
<1>2. CASE o.type \notin {"DeviceSample", "WorkloadSample"}
  <2>1. Accumulate(d, o).samples = d.samples
    BY <1>2 DEF Accumulate, OpenInterval, CloseInterval, AddBand, DeviceAccums
  <2> QED BY <2>1
<1> QED BY <1>1, <1>2

(* Every outcome of ingest_locked keeps the sample buffers bounded. *)
LEMMA IngestKeepsSamples ==
    ASSUME TypeOK, SamplesBounded, NEW o \in Observations, NEW st, ingest_locked(o, st)
    PROVE  SamplesBounded'
<1>1. CASE UNCHANGED devices
  BY <1>1 DEF SamplesBounded
<1>2. CASE Accept(o, st)
  <2>1. o \in ObservationRecords
    BY ObservationType
  <2>2. CASE o.device = 0
    BY <1>2, <2>2 DEF Accept, SamplesBounded
  <2>3. CASE o.device # 0
    <3> DEFINE own == Own(DeviceOf(o), o, AdmittedSource(o).capabilities)
               new == Accumulate(own, o)
    <3>1. DeviceOf(o) \in DeviceAccums /\ Len(DeviceOf(o).samples) <= sample_limit + 1
      <4>1. CASE o.device \in DOMAIN devices
        BY <4>1 DEF DeviceOf, TypeOK, IsMap, SamplesBounded
      <4>2. CASE o.device \notin DOMAIN devices
        <5>1. NewDevice \in DeviceAccums
          BY DEF NewDevice, DeviceAccums, CapacityStates, DeviceStates
        <5>2. NewDevice.samples = <<>>
          BY DEF NewDevice
        <5> QED BY <4>2, <5>1, <5>2, SampleLimitAssumption DEF DeviceOf
      <4> QED BY <4>1, <4>2
    <3>2. AdmittedSource(o).capabilities \in SUBSET Capabilities
      BY AdmittedType DEF SourceStates
    <3>3. own \in DeviceAccums
      BY <2>1, <3>1, <3>2, OwnType
    <3>4. own.samples = DeviceOf(o).samples
      BY <3>1 DEF Own, DeviceAccums
    <3>5. Len(new.samples) <= sample_limit + 1
      BY <2>1, <3>1, <3>3, <3>4, AccumulateBounded
    <3>6. devices' = Put(devices, o.device, new)
      BY <1>2, <2>3 DEF Accept
    <3> HIDE DEF new
    <3> QED BY <3>5, <3>6 DEF SamplesBounded, Put
  <2> QED BY <2>2, <2>3
<1> QED BY <1>1, <1>2 DEF ingest_locked, RejectEpoch, RejectAuthority, RejectDisconnected,
           RejectDevice, RejectWorkload, RejectEvidence, RejectDuplicate, RejectMalformed

(* The sample buffer of a device never holds more than its limit plus the  *)
(* sample pushed after the trim.                                           *)
THEOREM SamplesAlwaysBounded == Spec => []SamplesBounded
<1>1. Init => SamplesBounded
  BY DEF Init, SamplesBounded, EmptyMap
<1>2. ASSUME TypeOK, SamplesBounded, [Next]_vars PROVE SamplesBounded'
  <2>1. CASE \E o \in Observations : ingest(o)
    BY <1>2, <2>1, IngestKeepsSamples DEF ingest
  <2>2. CASE LoadStep
    <3>1. loader.obs[loader.next] \in Observations
      BY <1>2, <2>2 DEF LoadStep, Replaying, TypeOK, LoaderStates
    <3> QED BY <1>2, <2>2, <3>1, IngestKeepsSamples DEF LoadStep
  <2>3. CASE LoadClear
    BY <2>3 DEF LoadClear, ClearMemory, ClearDevices, SamplesBounded, EmptyMap
  <2>4. CASE UNCHANGED devices
    BY <1>2, <2>4 DEF SamplesBounded
  <2> QED BY <1>2, <2>1, <2>2, <2>3, <2>4
          DEF Next, Call, Save, Load, vars, register_source, mark_source_connected,
              mark_source_disconnected, advance_epoch, ReadOnly, SaveSnapshot, SaveReplaces,
              SaveFails, SaveLosesFile, LoadParse, LoadReturns
<1> QED BY <1>1, <1>2, TypeCorrect, PTL DEF Spec

-----------------------------------------------------------------------------
(***************************************************************************)
(* The authority of a source.                                              *)
(***************************************************************************)
(* Whatever becomes of an observation, it leaves the generation and boot   *)
(* of a connected source alone.                                            *)
LEMMA IngestKeepsAuthority ==
    ASSUME TypeOK, ~historical_mode, NEW o \in Observations, NEW st, ingest_locked(o, st),
           NEW s \in DOMAIN sources, sources[s].connected
    PROVE  Authority(s)' = Authority(s)
<1>0. sources[s] \in SourceStates
  BY DEF TypeOK, IsMap
<1>1. CASE UNCHANGED sources
  BY <1>1 DEF Authority
<1>2. CASE o.source = s
  <2>1. SourceOf(o) = sources[s] /\ ~Adopts(o)
    BY <1>2 DEF SourceOf, Adopts
  <2>2. AdmittedSource(o) = sources[s]
    BY <2>1 DEF AdmittedSource
  <2>3. CASE Admit(o)
    BY <1>2, <2>2, <2>3 DEF Admit, Put, Authority
  <2>4. CASE Accept(o, st)
    BY <1>0, <1>2, <2>2, <2>4 DEF Accept, Put, Authority, SourceStates
  <2> QED BY <1>1, <2>3, <2>4 DEF ingest_locked, RejectEpoch, RejectAuthority,
             RejectDisconnected, RejectDevice, RejectWorkload, RejectEvidence,
             RejectDuplicate, RejectMalformed
<1>3. CASE o.source # s
  <2>1. CASE Admit(o)
    BY <1>3, <2>1 DEF Admit, Put, Authority
  <2>2. CASE Accept(o, st)
    BY <1>3, <2>2 DEF Accept, Put, Authority
  <2> QED BY <1>1, <2>1, <2>2 DEF ingest_locked, RejectEpoch, RejectAuthority,
             RejectDisconnected, RejectDevice, RejectWorkload, RejectEvidence,
             RejectDuplicate, RejectMalformed
<1> QED BY <1>2, <1>3

(* A connected source changes generation or boot only by registering       *)
(* again: no observation displaces a live authority.                       *)
THEOREM LiveAuthorityAlwaysKept == Spec => LiveAuthorityKept
<1> DEFINE Kept == \A s \in DOMAIN sources \cap DOMAIN sources' :
                      Unlocked /\ sources[s].connected /\ Authority(s)' # Authority(s)
                        => \E info \in SourceInfos : info.id = s /\ register_source(info)
<1>1. ASSUME TypeOK, [Next]_vars PROVE [Kept]_vars
  <2> SUFFICES ASSUME NEW s \in DOMAIN sources, s \in DOMAIN sources', Unlocked,
                      sources[s].connected, Authority(s)' # Authority(s)
               PROVE  \E info \in SourceInfos : info.id = s /\ register_source(info)
    OBVIOUS
  <2>0. sources[s] \in SourceStates
    BY <1>1 DEF TypeOK, IsMap
  <2>1. ~UNCHANGED sources
    BY DEF Authority
  <2>2. ASSUME NEW o \in Observations, ingest(o) PROVE FALSE
    BY <1>1, <2>2, IngestKeepsAuthority DEF ingest, Unlocked
  <2>3. ASSUME NEW r \in DOMAIN sources, NEW t \in Ticks,
               mark_source_connected(r, t) \/ mark_source_disconnected(r, t)
        PROVE  FALSE
    BY <2>0, <2>3 DEF mark_source_connected, mark_source_disconnected, Put, Authority, SourceStates
  <2>4. ASSUME NEW info \in SourceInfos, register_source(info) PROVE info.id = s
    BY <2>4 DEF register_source, Put, Authority
  <2>5. ~LoadClear
    BY DEF LoadClear, ClearMemory, EmptyMap
  <2>6. ~LoadStep /\ ~LoadReturns
    BY DEF LoadStep, LoadReturns, Replaying, Unlocked, historical_mode
  <2> QED BY <1>1, <2>1, <2>2, <2>3, <2>4, <2>5, <2>6
          DEF Next, Call, Save, Load, vars, advance_epoch, ReadOnly, SaveSnapshot,
              SaveReplaces, SaveFails, SaveLosesFile, LoadParse
<1> QED BY <1>1, TypeCorrect, PTL DEF Spec, LiveAuthorityKept

-----------------------------------------------------------------------------
(***************************************************************************)
(* Disconnections and reconnections.                                       *)
(***************************************************************************)
Down(f) == {s \in DOMAIN f : ~f[s].connected}

(* Which sources are down after one of them has been written. *)
LEMMA PutDown ==
    ASSUME NEW f, NEW k, NEW v
    PROVE  /\ DOMAIN Put(f, k, v) = DOMAIN f \cup {k}
           /\ v.connected => Down(Put(f, k, v)) = Down(f) \ {k}
           /\ ~v.connected => Down(Put(f, k, v)) = Down(f) \cup {k}
BY DEF Down, Put

(* The sources known and the sources down are finitely many, and the       *)
(* latter are some of the former.                                          *)
LEMMA DownFinite ==
    ASSUME NEW f, IsFiniteSet(DOMAIN f)
    PROVE  /\ IsFiniteSet(Down(f))
           /\ Cardinality(Down(f)) \in Nat /\ Cardinality(DOMAIN f) \in Nat
           /\ Cardinality(Down(f)) <= Cardinality(DOMAIN f)
<1>1. Down(f) \subseteq DOMAIN f
  BY DEF Down
<1>2. IsFiniteSet(Down(f)) /\ Cardinality(Down(f)) <= Cardinality(DOMAIN f)
  BY <1>1, FS_Subset
<1> QED BY <1>2, FS_CardinalityType

(* A source written as connected is one more, one less that is down, or    *)
(* neither.                                                                *)
LEMMA PutConnected ==
    ASSUME NEW f, IsFiniteSet(DOMAIN f), NEW k, NEW v, v.connected
    PROVE  /\ IsFiniteSet(DOMAIN Put(f, k, v))
           /\ Cardinality(DOMAIN Put(f, k, v)) \in Nat
           /\ Cardinality(Down(Put(f, k, v))) \in Nat
           /\ Cardinality(DOMAIN Put(f, k, v)) >= Cardinality(DOMAIN f)
           /\ Cardinality(Down(Put(f, k, v))) =
                 Cardinality(Down(f)) - (IF k \in Down(f) THEN 1 ELSE 0)
<1> DEFINE g == Put(f, k, v)
<1>1. DOMAIN g = DOMAIN f \cup {k} /\ Down(g) = Down(f) \ {k}
  BY PutDown
<1> HIDE DEF g
<1>2. IsFiniteSet(Down(f)) /\ Cardinality(Down(f)) \in Nat /\ Cardinality(DOMAIN f) \in Nat
  BY DownFinite
<1>3. /\ IsFiniteSet(DOMAIN f \cup {k})
      /\ Cardinality(DOMAIN f \cup {k}) =
            IF k \in DOMAIN f THEN Cardinality(DOMAIN f) ELSE Cardinality(DOMAIN f) + 1
  BY FS_AddElement
<1>4. Cardinality(Down(f) \ {k}) =
         IF k \in Down(f) THEN Cardinality(Down(f)) - 1 ELSE Cardinality(Down(f))
  BY <1>2, FS_RemoveElement
<1>5. IsFiniteSet(DOMAIN g) /\ Cardinality(DOMAIN g) \in Nat /\ Cardinality(Down(g)) \in Nat
  BY <1>1, <1>3, DownFinite
<1>6. /\ Cardinality(DOMAIN g) >= Cardinality(DOMAIN f)
      /\ Cardinality(Down(g)) = Cardinality(Down(f)) - (IF k \in Down(f) THEN 1 ELSE 0)
  BY <1>1, <1>2, <1>3, <1>4
<1> QED BY <1>5, <1>6 DEF g

(* A known source written as disconnected is one more that is down, or is  *)
(* down already.                                                           *)
LEMMA PutDisconnected ==
    ASSUME NEW f, IsFiniteSet(DOMAIN f), NEW k \in DOMAIN f, NEW v, ~v.connected
    PROVE  /\ DOMAIN Put(f, k, v) = DOMAIN f
           /\ Cardinality(Down(Put(f, k, v))) =
                 Cardinality(Down(f)) + (IF k \in Down(f) THEN 0 ELSE 1)
<1> DEFINE g == Put(f, k, v)
<1>1. DOMAIN g = DOMAIN f /\ Down(g) = Down(f) \cup {k}
  <2>1. DOMAIN g = DOMAIN f \cup {k} /\ Down(g) = Down(f) \cup {k}
    BY PutDown
  <2> QED BY <2>1
<1> HIDE DEF g
<1>2. IsFiniteSet(Down(f)) /\ Cardinality(Down(f)) \in Nat
  BY DownFinite
<1>3. Cardinality(Down(f) \cup {k}) =
         IF k \in Down(f) THEN Cardinality(Down(f)) ELSE Cardinality(Down(f)) + 1
  BY <1>2, FS_AddElement
<1>4. Cardinality(Down(g)) = Cardinality(Down(f)) + (IF k \in Down(f) THEN 0 ELSE 1)
  BY <1>1, <1>2, <1>3
<1> QED BY <1>1, <1>4 DEF g

(* What becomes of an observation's source: it stays as it is, or it is    *)
(* connected, and if it was down before, a reconnection is counted.        *)
LEMMA IngestSource ==
    ASSUME TypeOK, NEW o \in Observations, NEW st, ingest_locked(o, st)
    PROVE  /\ health'["disconnects"] = health["disconnects"]
           /\ \/ sources' = sources /\ health'["reconnects"] = health["reconnects"]
              \/ \E src \in SourceStates :
                    /\ src.connected
                    /\ sources' = Put(sources, o.source, src)
                    /\ health'["reconnects"] = health["reconnects"] +
                          (IF ~historical_mode /\ o.source \in Down(sources) THEN 1 ELSE 0)
<1> DEFINE src == AdmittedSource(o)
           last == [src EXCEPT !.last_observation = Larger(@, o.begin)]
<1>0. /\ src \in SourceStates /\ o \in ObservationRecords
      /\ health["reconnects"] \in Nat /\ health["disconnects"] \in Nat
  BY AdmittedType, ObservationType DEF TypeOK, HealthCounters
<1>1. CASE RejectEpoch(o, st) \/ RejectAuthority(o, st) \/ RejectDisconnected(o, st)
  BY <1>0, <1>1 DEF RejectEpoch, RejectAuthority, RejectDisconnected, Count, HealthCounters
<1>2. CASE /\ PassesConnection(o)
           /\ Admit(o) \/ sources' = Put(sources, o.source, last)
           /\ \E C : Count(C \cup Reconnected(o)) /\ "reconnects" \notin C /\ "disconnects" \notin C
  <2>1. src.connected /\ last.connected /\ last \in SourceStates
    BY <1>0, <1>2 DEF PassesConnection, SourceStates, ObservationRecords, Larger
  <2>2. \E s \in SourceStates : s.connected /\ sources' = Put(sources, o.source, s)
    BY <1>0, <1>2, <2>1 DEF Admit
  <2>3. Adopts(o) <=> ~historical_mode /\ o.source \in Down(sources)
    <3>1. CASE o.source \in DOMAIN sources
      <4>1. SourceOf(o) = sources[o.source]
        BY <3>1 DEF SourceOf
      <4>2. ASSUME ~Adopts(o), ~historical_mode PROVE sources[o.source].connected
        BY <2>1, <4>1, <4>2 DEF AdmittedSource
      <4> QED BY <3>1, <4>1, <4>2 DEF Adopts, Down
    <3>2. CASE o.source \notin DOMAIN sources
      <4>1. SourceOf(o) = NewSource(o)
        BY <3>2 DEF SourceOf
      <4> QED BY <3>2, <4>1 DEF Adopts, NewSource, Down
    <3> QED BY <3>1, <3>2
  <2>4. PICK C : Count(C \cup Reconnected(o)) /\ "reconnects" \notin C /\ "disconnects" \notin C
    BY <1>2
  <2>5. /\ health'["disconnects"] = health["disconnects"]
        /\ health'["reconnects"] = health["reconnects"] + (IF Adopts(o) THEN 1 ELSE 0)
    BY <1>0, <2>4 DEF Count, Reconnected, HealthCounters
  <2> QED BY <2>2, <2>3, <2>5
<1>3. CASE RejectDevice(o, st)
  BY <1>2, <1>3 DEF RejectDevice
<1>4. CASE RejectWorkload(o, st)
  BY <1>2, <1>4 DEF RejectWorkload, PassesDevice
<1>5. CASE RejectEvidence(o, st)
  BY <1>2, <1>5 DEF RejectEvidence, PassesWorkload, PassesDevice
<1>6. CASE RejectDuplicate(o, st)
  BY <1>2, <1>6 DEF RejectDuplicate, PassesEvidence, PassesWorkload, PassesDevice
<1>7. CASE RejectMalformed(o, st)
  BY <1>2, <1>7 DEF RejectMalformed, PassesDedup, PassesEvidence, PassesWorkload, PassesDevice
<1>8. CASE Accept(o, st)
  <2>1. Count(({"accepted"} \cup Dropped) \cup Reconnected(o))
    <3>1. {"accepted"} \cup Reconnected(o) \cup Dropped = ({"accepted"} \cup Dropped) \cup Reconnected(o)
      OBVIOUS
    <3> QED BY <1>8, <3>1 DEF Accept
  <2>2. "reconnects" \notin {"accepted"} \cup Dropped /\ "disconnects" \notin {"accepted"} \cup Dropped
    BY DEF Dropped
  <2>3. PassesConnection(o) /\ sources' = Put(sources, o.source, last)
    BY <1>8 DEF Accept, PassesDedup, PassesEvidence, PassesWorkload, PassesDevice
  <2> QED BY <1>2, <2>1, <2>2, <2>3
<1> QED BY <1>1, <1>3, <1>4, <1>5, <1>6, <1>7, <1>8 DEF ingest_locked

(* The accounts in terms of Down. *)
LEMMA ReconnectsDown ==
    ReconnectsAccounted <=>
        health["reconnects"] + Cardinality(Down(sources))
            <= health["disconnects"] + Cardinality(DOMAIN sources)
BY DEF ReconnectsAccounted, Down

(* What every step but the replay of a load does to the accounts. *)
LEMMA ReconnectCall ==
    ASSUME TypeOK, ReconnectInv, Call
    PROVE  ReconnectInv'
<1> DEFINE up == health["reconnects"]
           down == health["disconnects"]
<1>0. /\ IsFiniteSet(DOMAIN sources) /\ up \in Nat /\ down \in Nat
      /\ Cardinality(Down(sources)) \in Nat /\ Cardinality(DOMAIN sources) \in Nat
      /\ up + Cardinality(Down(sources)) <= down + Cardinality(DOMAIN sources)
  BY DownFinite, ReconnectsDown DEF TypeOK, ReconnectInv, HealthCounters
<1> SUFFICES /\ IsFiniteSet(DOMAIN sources') /\ ~historical_mode'
             /\ up' + Cardinality(Down(sources')) <= down' + Cardinality(DOMAIN sources')
  BY DEF ReconnectInv, ReconnectsAccounted, Down
<1>1. ASSUME NEW o \in Observations, ingest(o)
      PROVE  /\ IsFiniteSet(DOMAIN sources') /\ ~historical_mode'
             /\ up' + Cardinality(Down(sources')) <= down' + Cardinality(DOMAIN sources')
  <2>1. PICK st \in Statuses : ingest_locked(o, st)
    BY <1>1 DEF ingest
  <2>2. ~historical_mode /\ ~historical_mode'
    BY <1>1 DEF ingest, Unlocked, historical_mode
  <2>3. CASE sources' = sources /\ up' = up
    <3>1. down' = down
      BY <2>1, IngestSource
    <3> QED BY <1>0, <2>2, <2>3, <3>1
  <2>4. ASSUME NEW src \in SourceStates, src.connected,
               sources' = Put(sources, o.source, src),
               up' = up + (IF ~historical_mode /\ o.source \in Down(sources) THEN 1 ELSE 0)
        PROVE  /\ IsFiniteSet(DOMAIN sources')
               /\ up' + Cardinality(Down(sources')) <= down' + Cardinality(DOMAIN sources')
    <3>1. down' = down
      BY <2>1, IngestSource
    <3>2. up' = up + (IF o.source \in Down(sources) THEN 1 ELSE 0)
      BY <2>2, <2>4
    <3>3. /\ IsFiniteSet(DOMAIN sources')
          /\ Cardinality(DOMAIN sources') \in Nat /\ Cardinality(Down(sources')) \in Nat
          /\ Cardinality(DOMAIN sources') >= Cardinality(DOMAIN sources)
          /\ Cardinality(Down(sources')) =
                Cardinality(Down(sources)) - (IF o.source \in Down(sources) THEN 1 ELSE 0)
      BY <1>0, <2>4, PutConnected
    <3> QED BY <1>0, <3>1, <3>2, <3>3
  <2> QED BY <2>1, <2>2, <2>3, <2>4, IngestSource
<1>2. ASSUME NEW info \in SourceInfos, register_source(info)
      PROVE  /\ IsFiniteSet(DOMAIN sources') /\ ~historical_mode'
             /\ up' + Cardinality(Down(sources')) <= down' + Cardinality(DOMAIN sources')
  <2>1. ~historical_mode' /\ up' = up /\ down' = down
    BY <1>2 DEF register_source, Unlocked, historical_mode
  <2>2. PICK v : v.connected /\ sources' = Put(sources, info.id, v)
    BY <1>2 DEF register_source
  <2>3. /\ IsFiniteSet(DOMAIN sources')
        /\ Cardinality(DOMAIN sources') \in Nat /\ Cardinality(Down(sources')) \in Nat
        /\ Cardinality(DOMAIN sources') >= Cardinality(DOMAIN sources)
        /\ Cardinality(Down(sources')) =
              Cardinality(Down(sources)) - (IF info.id \in Down(sources) THEN 1 ELSE 0)
    BY <1>0, <2>2, PutConnected
  <2> QED BY <1>0, <2>1, <2>3
<1>3. ASSUME NEW s \in DOMAIN sources, NEW t \in Ticks, mark_source_connected(s, t)
      PROVE  /\ IsFiniteSet(DOMAIN sources') /\ ~historical_mode'
             /\ up' + Cardinality(Down(sources')) <= down' + Cardinality(DOMAIN sources')
  <2>1. ~historical_mode'
    BY <1>3 DEF mark_source_connected, Unlocked, historical_mode
  <2>2. /\ down' = down
        /\ up' = up + (IF s \in Down(sources) THEN 1 ELSE 0)
    BY <1>0, <1>3 DEF mark_source_connected, Count, HealthCounters, Down
  <2>3. PICK v : v.connected /\ sources' = Put(sources, s, v)
    <3>1. sources[s] \in SourceStates
      BY DEF TypeOK, IsMap
    <3>2. [sources[s] EXCEPT !.connected = TRUE, !.last_observation = t].connected
      BY <3>1 DEF SourceStates
    <3> QED BY <1>3, <3>2 DEF mark_source_connected
  <2>4. /\ IsFiniteSet(DOMAIN sources')
        /\ Cardinality(DOMAIN sources') \in Nat /\ Cardinality(Down(sources')) \in Nat
        /\ Cardinality(DOMAIN sources') >= Cardinality(DOMAIN sources)
        /\ Cardinality(Down(sources')) =
              Cardinality(Down(sources)) - (IF s \in Down(sources) THEN 1 ELSE 0)
    BY <1>0, <2>3, PutConnected
  <2> QED BY <1>0, <2>1, <2>2, <2>4
<1>4. ASSUME NEW s \in DOMAIN sources, NEW t \in Ticks, mark_source_disconnected(s, t)
      PROVE  /\ IsFiniteSet(DOMAIN sources') /\ ~historical_mode'
             /\ up' + Cardinality(Down(sources')) <= down' + Cardinality(DOMAIN sources')
  <2>1. ~historical_mode'
    BY <1>4 DEF mark_source_disconnected, Unlocked, historical_mode
  <2>2. /\ up' = up
        /\ down' = down + (IF s \in Down(sources) THEN 0 ELSE 1)
    BY <1>0, <1>4 DEF mark_source_disconnected, Count, HealthCounters, Down
  <2>3. PICK v : ~v.connected /\ sources' = Put(sources, s, v)
    <3>1. sources[s] \in SourceStates
      BY DEF TypeOK, IsMap
    <3>2. ~[sources[s] EXCEPT !.connected = FALSE, !.last_observation = t].connected
      BY <3>1 DEF SourceStates
    <3> QED BY <1>4, <3>2 DEF mark_source_disconnected
  <2>4. /\ DOMAIN sources' = DOMAIN sources
        /\ Cardinality(Down(sources')) =
              Cardinality(Down(sources)) + (IF s \in Down(sources) THEN 0 ELSE 1)
    BY <1>0, <2>3, PutDisconnected
  <2> QED BY <1>0, <2>1, <2>2, <2>4
<1>5. CASE advance_epoch
  <2>1. sources' = sources /\ up' = up /\ down' = down /\ ~historical_mode'
    BY <1>5 DEF advance_epoch, Unlocked, historical_mode
  <2> QED BY <1>0, <2>1
<1> QED BY <1>1, <1>2, <1>3, <1>4, <1>5 DEF Call

(* What a load does to the accounts: while it replays no reconnection is   *)
(* counted, so putting every source down at its end is within them.        *)
LEMMA ReconnectLoad ==
    ASSUME TypeOK, ReconnectInv, Load
    PROVE  ReconnectInv'
<1> DEFINE up == health["reconnects"]
           down == health["disconnects"]
<1>0. /\ IsFiniteSet(DOMAIN sources) /\ up \in Nat /\ down \in Nat
      /\ Cardinality(Down(sources)) \in Nat /\ Cardinality(DOMAIN sources) \in Nat
      /\ up + Cardinality(Down(sources)) <= down + Cardinality(DOMAIN sources)
  BY DownFinite, ReconnectsDown DEF TypeOK, ReconnectInv, HealthCounters
<1>1. CASE LoadParse
  <2>1. sources' = sources /\ health' = health /\ ~historical_mode'
    BY <1>1 DEF LoadParse, historical_mode
  <2> QED BY <2>1 DEF ReconnectInv, ReconnectsAccounted
<1>2. CASE LoadClear
  <2>1. DOMAIN sources' = {} /\ up' = 0 /\ down' = 0
    BY <1>2 DEF LoadClear, ClearMemory, ZeroHealth, HealthCounters, EmptyMap
  <2>2. {s \in DOMAIN sources' : ~sources'[s].connected} = {}
    BY <2>1
  <2>3. IsFiniteSet({}) /\ Cardinality({}) = 0
    BY FS_EmptySet
  <2> QED BY <2>1, <2>2, <2>3 DEF ReconnectInv, ReconnectsAccounted
<1>3. CASE LoadStep
  <2>1. PICK st \in Statuses : ingest_locked(loader.obs[loader.next], st)
    BY <1>3 DEF LoadStep
  <2>2. loader.obs[loader.next] \in Observations /\ historical_mode /\ up = 0
    <3>1. loader \in LoaderStates
      BY DEF TypeOK
    <3>2. historical_mode /\ loader.next <= Len(loader.obs)
      BY <1>3 DEF LoadStep, Replaying, historical_mode
    <3> QED BY <3>1, <3>2 DEF LoaderStates, ReconnectInv
  <2> DEFINE o == loader.obs[loader.next]
  <2>3. /\ down' = down
        /\ \/ sources' = sources /\ up' = up
           \/ \E src \in SourceStates :
                 /\ src.connected
                 /\ sources' = Put(sources, o.source, src)
                 /\ up' = up + (IF ~historical_mode /\ o.source \in Down(sources) THEN 1 ELSE 0)
    BY <2>1, <2>2, IngestSource
  <2>4. up' = 0
    BY <2>2, <2>3
  <2>5. IsFiniteSet(DOMAIN sources')
    <3>1. ASSUME NEW src \in SourceStates, src.connected, sources' = Put(sources, o.source, src)
          PROVE  IsFiniteSet(DOMAIN sources')
      BY <1>0, <3>1, PutConnected
    <3> QED BY <1>0, <2>3, <3>1
  <2>6. /\ Cardinality(Down(sources')) \in Nat /\ Cardinality(DOMAIN sources') \in Nat
        /\ Cardinality(Down(sources')) <= Cardinality(DOMAIN sources')
    BY <2>5, DownFinite
  <2>7. up' + Cardinality(Down(sources')) <= down' + Cardinality(DOMAIN sources')
    BY <1>0, <2>3, <2>4, <2>6
  <2> QED BY <2>4, <2>5, <2>7 DEF ReconnectInv, ReconnectsAccounted, Down
<1>4. CASE LoadReturns
  <2>1. /\ DOMAIN sources' = DOMAIN sources /\ up' = up /\ down' = down /\ up = 0
        /\ ~historical_mode'
    BY <1>4 DEF LoadReturns, historical_mode, ReconnectInv
  <2>2. /\ Cardinality(Down(sources')) \in Nat
        /\ Cardinality(Down(sources')) <= Cardinality(DOMAIN sources')
    BY <1>0, <2>1, DownFinite
  <2>3. up' + Cardinality(Down(sources')) <= down' + Cardinality(DOMAIN sources')
    BY <1>0, <2>1, <2>2
  <2> QED BY <1>0, <2>1, <2>3 DEF ReconnectInv, ReconnectsAccounted, Down
<1> QED BY <1>1, <1>2, <1>3, <1>4 DEF Load

(* The reconnections counted and the sources that are down never exceed    *)
(* the counted disconnections by more than the sources known: no step      *)
(* counts the same return of a source twice, and none counts a return that *)
(* had not been preceded by a disconnection or a load.                     *)
THEOREM ReconnectsAlwaysAccounted == Spec => []ReconnectsAccounted
<1>1. Init => ReconnectInv
  <2> SUFFICES ASSUME Init PROVE ReconnectInv
    OBVIOUS
  <2>1. /\ DOMAIN sources = {} /\ health["reconnects"] = 0 /\ health["disconnects"] = 0
        /\ {s \in DOMAIN sources : ~sources[s].connected} = {}
    BY DEF Init, EmptyMap, ZeroHealth, HealthCounters
  <2>2. IsFiniteSet({}) /\ Cardinality({}) = 0
    BY FS_EmptySet
  <2> QED BY <2>1, <2>2 DEF ReconnectInv, ReconnectsAccounted
<1>2. TypeOK /\ ReconnectInv /\ [Next]_vars => ReconnectInv'
  <2> SUFFICES ASSUME TypeOK, ReconnectInv, [Next]_vars PROVE ReconnectInv'
    OBVIOUS
  <2>1. CASE Call
    BY <2>1, ReconnectCall
  <2>2. CASE Load
    BY <2>2, ReconnectLoad
  <2>3. CASE ReadOnly \/ UNCHANGED vars
    <3>1. sources' = sources /\ health' = health /\ historical_mode' = historical_mode
      BY <2>3 DEF ReadOnly, vars, historical_mode
    <3> QED BY <3>1 DEF ReconnectInv, ReconnectsAccounted
  <2>4. CASE Save
    <3>1. /\ sources' = sources /\ historical_mode' = historical_mode
          /\ health'["reconnects"] = health["reconnects"]
          /\ health'["disconnects"] = health["disconnects"]
      BY <2>4 DEF Save, SaveSnapshot, SaveReplaces, SaveFails, SaveLosesFile, SaveReturns,
                  Count, HealthCounters, historical_mode
    <3> QED BY <3>1 DEF ReconnectInv, ReconnectsAccounted
  <2> QED BY <2>1, <2>2, <2>3, <2>4 DEF Next
<1>3. ReconnectInv => ReconnectsAccounted
  BY DEF ReconnectInv
<1> QED BY <1>1, <1>2, <1>3, TypeCorrect, PTL DEF Spec

-----------------------------------------------------------------------------
(***************************************************************************)
(* Saved histories load again.                                             *)
(***************************************************************************)
(* Queue r ends like queue q with x pushed behind it. *)
Pushed(q, x, r) ==
    Len(r) > 0 => /\ r[Len(r)] = x
                  /\ Len(r) <= Len(q) + 1
                  /\ \A k \in 1..(Len(r) - 1) : r[Len(r) - k] = q[Len(q) - (k - 1)]

(* So it does whether or not the oldest element makes room for x, and      *)
(* whether it does so before or after x is pushed.                         *)
LEMMA PushShape ==
    ASSUME NEW S, NEW q \in Seq(S), NEW x \in S
    PROVE  /\ Pushed(q, x, Append(q, x))
           /\ Pushed(q, x, Tail(Append(q, x)))
           /\ q # <<>> => Pushed(q, x, Append(Tail(q), x))
<1> DEFINE a == Append(q, x)
<1>1. /\ a \in Seq(S) /\ a # <<>> /\ Len(a) = Len(q) + 1 /\ Len(q) \in Nat
      /\ \A i \in 1..Len(q) : a[i] = q[i]
      /\ a[Len(q) + 1] = x
  BY AppendProperties, LenProperties
<1> HIDE DEF a
<1>2. Pushed(q, x, a)
  <2>1. ASSUME NEW k \in 1..(Len(a) - 1) PROVE a[Len(a) - k] = q[Len(q) - (k - 1)]
    <3>1. Len(a) - k \in 1..Len(q) /\ Len(a) - k = Len(q) - (k - 1)
      BY <1>1
    <3> QED BY <1>1, <3>1
  <2> QED BY <1>1, <2>1 DEF Pushed
<1>3. Pushed(q, x, Tail(a))
  <2> DEFINE r == Tail(a)
  <2>1. r \in Seq(S) /\ Len(r) = Len(q) /\ \A i \in 1..Len(r) : r[i] = a[i + 1]
    BY <1>1, HeadTailProperties
  <2> HIDE DEF r
  <2>2. ASSUME Len(r) > 0 PROVE r[Len(r)] = x
    <3>1. Len(r) \in 1..Len(r)
      BY <1>1, <2>1, <2>2
    <3>2. r[Len(r)] = a[Len(r) + 1]
      BY <2>1, <3>1
    <3> QED BY <1>1, <2>1, <3>2
  <2>3. ASSUME NEW k \in 1..(Len(r) - 1) PROVE r[Len(r) - k] = q[Len(q) - (k - 1)]
    <3>1. Len(r) - k \in 1..Len(r)
      BY <1>1, <2>1
    <3>2. r[Len(r) - k] = a[Len(r) - k + 1]
      BY <2>1, <3>1
    <3>3. /\ Len(r) - k + 1 = Len(q) - (k - 1)
          /\ Len(r) - k + 1 \in 1..Len(q)
      BY <1>1, <2>1
    <3>4. a[Len(r) - k + 1] = q[Len(r) - k + 1]
      BY <1>1, <3>3
    <3> QED BY <3>2, <3>3, <3>4
  <2> QED BY <1>1, <2>1, <2>2, <2>3 DEF Pushed, r
<1>4. ASSUME q # <<>> PROVE Pushed(q, x, Append(Tail(q), x))
  <2> DEFINE t == Tail(q)
             r == Append(t, x)
  <2>1. t \in Seq(S) /\ Len(t) = Len(q) - 1 /\ \A i \in 1..Len(t) : t[i] = q[i + 1]
    BY <1>4, HeadTailProperties
  <2> HIDE DEF t
  <2>2. /\ Len(r) = Len(t) + 1 /\ Len(t) \in Nat
        /\ \A i \in 1..Len(t) : r[i] = t[i]
        /\ r[Len(t) + 1] = x
    BY <2>1, AppendProperties, LenProperties
  <2> HIDE DEF r
  <2>3. ASSUME NEW k \in 1..(Len(r) - 1) PROVE r[Len(r) - k] = q[Len(q) - (k - 1)]
    <3>1. Len(r) - k \in 1..Len(t)
      BY <2>2
    <3>2. r[Len(r) - k] = t[Len(r) - k] /\ t[Len(r) - k] = q[Len(r) - k + 1]
      BY <2>1, <2>2, <3>1
    <3>3. Len(r) - k + 1 = Len(q) - (k - 1)
      BY <1>1, <2>1, <2>2
    <3> QED BY <3>2, <3>3
  <2>4. Pushed(q, x, r)
    BY <1>1, <2>1, <2>2, <2>3 DEF Pushed
  <2> QED BY <2>4 DEF r, t
<1> QED BY <1>2, <1>3, <1>4 DEF a

(* The window holds dedup_capacity ids, and one if that is none. *)
LEMMA WindowSizeIs ==
    /\ WindowSize \in Nat /\ WindowSize >= 1 /\ WindowSize >= dedup_capacity
    /\ WindowSize = 1 \/ WindowSize = dedup_capacity
BY ConfigAssumption DEF WindowSize, Larger

(* Remembering an id pushes it on the window, which loses an id only when  *)
(* it is full.                                                             *)
LEMMA RememberShape ==
    ASSUME TypeOK, DedupConsistent, NEW id \in Nat, remember_obs_id(id)
    PROVE  /\ Pushed(dedup_order, id, dedup_order')
           /\ Len(dedup_order') > 0
           /\ \/ Len(dedup_order') = Len(dedup_order) + 1 /\ Len(dedup_order) < WindowSize
              \/ Len(dedup_order') = WindowSize
<1> DEFINE q == dedup_order
<1>1. /\ q \in Seq(Nat) /\ Len(q) \in Nat
      /\ dedup = {q[i] : i \in 1..Len(q)}
      /\ \A i, j \in 1..Len(q) : q[i] = q[j] => i = j
      /\ Len(q) <= WindowSize
  BY DEF TypeOK, DedupConsistent, WindowSize
<1>2. Cardinality(dedup) = Len(q)
  BY <1>1, DistinctSize
<1>3. CASE Full
  <2>1. q # <<>> /\ Len(q) >= dedup_capacity /\ q' = Append(Tail(q), id)
    BY <1>2, <1>3 DEF Full, remember_obs_id
  <2>2. Pushed(q, id, q')
    BY <1>1, <2>1, PushShape
  <2>3. Len(q') = Len(q) /\ Len(q) > 0
    BY <1>1, <2>1
  <2>4. Len(q) = WindowSize
    <3>1. Len(q) <= WindowSize /\ Len(q) >= dedup_capacity /\ Len(q) > 0 /\ Len(q) \in Nat
      BY <1>1, <2>1, <2>3
    <3> HIDE DEF q
    <3> QED BY <3>1, WindowSizeIs, ConfigAssumption
  <2> QED BY <2>2, <2>3, <2>4
<1>4. CASE ~Full
  <2>1. q' = Append(q, id)
    BY <1>4 DEF remember_obs_id
  <2>2. Pushed(q, id, q')
    BY <1>1, <2>1, PushShape
  <2>3. Len(q') = Len(q) + 1
    BY <1>1, <2>1
  <2>4. Len(q) < dedup_capacity \/ Len(q) = 0
    <3>1. ~(Len(q) >= dedup_capacity /\ q # <<>>)
      BY <1>2, <1>4 DEF Full
    <3> QED BY <1>1, <3>1, ConfigAssumption
  <2>5. Len(q) < WindowSize
    BY <1>1, <2>4, ConfigAssumption DEF WindowSize, Larger
  <2> QED BY <1>1, <2>2, <2>3, <2>5
<1> QED BY <1>3, <1>4

(* An id in the window that belongs to an observation of the history. *)
LEMMA WindowEntry ==
    ASSUME TypeOK, DedupConsistent, WindowFollowsHistory,
           NEW k \in 0..(Len(history) - 1), k < Len(dedup_order)
    PROVE  /\ dedup_order[Len(dedup_order) - k] = history[Len(history) - k].id
           /\ history[Len(history) - k].id \in dedup
<1>1. dedup_order[Len(dedup_order) - k] = history[Len(history) - k].id
  <2>1. k \in 0..(Len(dedup_order) - 1) /\ k < Len(history)
    <3>1. Len(dedup_order) \in Nat /\ Len(history) \in Nat
      BY DEF TypeOK
    <3> QED BY <3>1
  <2> QED BY <2>1 DEF WindowFollowsHistory
<1>2. Len(dedup_order) - k \in 1..Len(dedup_order)
  BY DEF TypeOK
<1>3. dedup_order[Len(dedup_order) - k] \in dedup
  BY <1>2 DEF DedupConsistent
<1> QED BY <1>1, <1>3

(* Accepting an observation keeps the window in step with the history and  *)
(* the ids in the history apart.                                           *)
LEMMA AcceptedApart ==
    ASSUME TypeOK, DedupConsistent, LedgerBalances, WindowFollowsHistory, IdsApart(history),
           historical_mode => Len(history) < max_observations,
           historical_mode' = historical_mode,
           NEW o \in Observations, o.id \notin dedup,
           remember_obs_id(o.id), history' = Retain(history, o)
    PROVE  WindowFollowsHistory' /\ IdsApart(history')
<1> DEFINE q == dedup_order
           h == history
           d == Len(q)
           n == Len(h)
           e == Len(q')
           m == Len(h')
<1>0. /\ o.id \in Nat /\ h \in Seq(Observations) /\ n \in Nat /\ d \in Nat
      /\ q \in Seq(Nat) /\ n <= max_observations /\ WindowSize \in Nat
  <2>1. o.id \in Nat
    BY ObservationType DEF ObservationRecords
  <2>2. h \in Seq(Observations) /\ q \in Seq(Nat) /\ n <= max_observations
    BY DEF TypeOK, LedgerBalances
  <2> QED BY <2>1, <2>2, WindowSizeIs
<1>1. /\ Pushed(q, o.id, q') /\ e > 0
      /\ (e = d + 1 /\ d < WindowSize) \/ e = WindowSize
  BY <1>0, RememberShape
<1>2. /\ Pushed(h, o, h')
      /\ m = (IF n < max_observations THEN n + 1 ELSE n)
  BY <1>0, PushShape, RetainShape DEF Retain
<1>3. e \in Nat /\ m \in Nat
  <2>1. q' = (IF Full THEN Append(Tail(q), o.id) ELSE Append(q, o.id))
    BY DEF remember_obs_id
  <2>2. e \in Nat
    BY <1>0, <2>1 DEF Full
  <2> QED BY <1>0, <1>2, <2>2
<1> HIDE DEF q, h
<1>4. d >= n \/ d = WindowSize
  BY DEF WindowFollowsHistory, q, h
<1>5. ASSUME NEW k \in 0..(n - 1), k < d
      PROVE  q[d - k] = h[n - k].id /\ h[n - k].id # o.id
  BY <1>5, WindowEntry DEF q, h
<1>6. ASSUME NEW k \in 0..(e - 1), k < m
      PROVE  q'[e - k] = h'[m - k].id
  <2>1. CASE k = 0
    <3>1. q'[e] = o.id /\ h'[m] = o
      BY <1>1, <1>2, <1>6, <2>1 DEF Pushed
    <3>2. e - k = e /\ m - k = m
      BY <1>3, <2>1
    <3> QED BY <3>1, <3>2
  <2>2. CASE k # 0
    <3>1. k \in 1..(e - 1) /\ k \in 1..(m - 1) /\ e <= d + 1 /\ m <= n + 1
      BY <1>0, <1>1, <1>2, <1>3, <1>6, <2>2 DEF Pushed
    <3>2. q'[e - k] = q[d - (k - 1)] /\ h'[m - k] = h[n - (k - 1)]
      BY <1>1, <1>2, <1>3, <1>6, <3>1 DEF Pushed
    <3>3. k - 1 \in 0..(n - 1) /\ k - 1 < d
      BY <1>0, <1>3, <3>1
    <3> QED BY <1>5, <3>2, <3>3
  <2> QED BY <2>1, <2>2
<1>7. e >= m \/ e = WindowSize
  BY <1>0, <1>1, <1>2, <1>3, <1>4
<1>8. historical_mode' => e <= m
  <2>1. ASSUME historical_mode PROVE d <= n /\ m = n + 1
    BY <1>0, <1>2, <2>1 DEF WindowFollowsHistory, q, h
  <2>2. e <= d + 1
    BY <1>1 DEF Pushed
  <2> QED BY <1>0, <1>3, <2>1, <2>2
<1>9. ASSUME NEW i \in 1..m, NEW j \in 1..m, i < j, j - i <= WindowSize
      PROVE  h'[i].id # h'[j].id
  <2>1. /\ m <= n + 1 /\ m > 0
        /\ \A k \in 1..(m - 1) : h'[m - k] = h[n - (k - 1)]
        /\ h'[m] = o
    BY <1>2, <1>3, <1>9 DEF Pushed
  <2>2. m - i \in 1..(m - 1) /\ m - (m - i) = i
    BY <1>3, <1>9
  <2>3. h'[i] = h[n - ((m - i) - 1)]
    BY <2>1, <2>2
  <2>4. CASE j = m
    <3>1. (m - i) - 1 \in 0..(n - 1)
      BY <1>0, <1>3, <2>1, <2>2
    <3>2. (m - i) - 1 < d
      BY <1>0, <1>3, <1>4, <1>9, <2>1, <2>4
    <3>3. h[n - ((m - i) - 1)].id # o.id
      BY <1>5, <3>1, <3>2
    <3> QED BY <2>1, <2>3, <2>4, <3>3
  <2>5. CASE j # m
    <3>1. m - j \in 1..(m - 1) /\ m - (m - j) = j
      BY <1>3, <1>9, <2>5
    <3>2. h'[j] = h[n - ((m - j) - 1)]
      BY <2>1, <3>1
    <3>3. /\ n - ((m - i) - 1) \in 1..n /\ n - ((m - j) - 1) \in 1..n
          /\ n - ((m - i) - 1) < n - ((m - j) - 1)
          /\ (n - ((m - j) - 1)) - (n - ((m - i) - 1)) <= WindowSize
      BY <1>0, <1>3, <1>9, <2>1, <2>2, <3>1
    <3>4. h[n - ((m - i) - 1)].id # h[n - ((m - j) - 1)].id
      BY <3>3 DEF IdsApart, h
    <3> QED BY <2>3, <3>2, <3>4
  <2> QED BY <2>4, <2>5
<1>10. IdsApart(h')
  BY <1>9 DEF IdsApart
<1>11. WindowFollowsHistory'
  BY <1>6, <1>7, <1>8 DEF WindowFollowsHistory, WindowSize, q, h
<1> QED BY <1>10, <1>11 DEF h

(* No source submits an observation whose fields do not validate. *)
NoneMalformed == \A o \in Observations : WellFormed(o)

(* An observation that is not malformed is either accepted, or history and *)
(* window are left alone.                                                  *)
LEMMA IngestKeepsApart ==
    ASSUME TypeOK, DedupConsistent, LedgerBalances, WindowFollowsHistory, IdsApart(history),
           historical_mode => Len(history) < max_observations,
           historical_mode' = historical_mode,
           NEW o \in Observations, WellFormed(o), NEW st, ingest_locked(o, st)
    PROVE  WindowFollowsHistory' /\ IdsApart(history')
<1>1. CASE Accept(o, st)
  BY <1>1, AcceptedApart DEF Accept, PassesDedup
<1>2. CASE UNCHANGED <<history, ids>>
  BY <1>2 DEF ids, WindowFollowsHistory, WindowSize, IdsApart
<1> QED BY <1>1, <1>2 DEF ingest_locked, RejectEpoch, RejectAuthority, RejectDisconnected,
           RejectDevice, RejectWorkload, RejectEvidence, RejectDuplicate, RejectMalformed, ids

(* The observation that a load replays next is not in the window: its id   *)
(* is apart from those of the observations before it.                      *)
LEMMA NextNotRemembered ==
    ASSUME TypeOK, DedupConsistent, ReplayInv, ReloadInv, Replaying
    PROVE  loader.obs[loader.next].id \notin dedup
<1> DEFINE o == loader.obs[loader.next]
           q == dedup_order
           d == Len(q)
           n == Len(history)
<1>1. SUFFICES ASSUME o.id \in dedup PROVE FALSE
  OBVIOUS
<1>2. /\ historical_mode /\ loader.next = n + 1 /\ n < Len(loader.obs)
      /\ \A i \in 1..n : history[i] = loader.obs[i]
      /\ n \in Nat /\ d \in Nat /\ Len(loader.obs) \in Nat /\ WindowSize \in Nat
  <2>1. historical_mode /\ loader.next <= Len(loader.obs)
    BY DEF Replaying, historical_mode
  <2>2. n \in Nat /\ d \in Nat /\ Len(loader.obs) \in Nat
    BY DEF TypeOK, LoaderStates
  <2> QED BY <2>1, <2>2, WindowSizeIs DEF ReplayInv, LoadPosition
<1>3. d <= n /\ d <= WindowSize
  BY <1>2 DEF ReloadInv, WindowFollowsHistory, DedupConsistent, WindowSize
<1>4. PICK i \in 1..d : q[i] = o.id
  BY <1>1 DEF DedupConsistent
<1> DEFINE k == d - i
<1>5. k \in 0..(n - 1) /\ k < d /\ d - k = i
  BY <1>2, <1>3, <1>4
<1>6. q[d - k] = history[n - k].id
  BY <1>5, WindowEntry DEF ReloadInv
<1>7. n - k \in 1..n /\ n - k \in 1..Len(loader.obs) /\ n + 1 \in 1..Len(loader.obs)
      /\ n - k < n + 1 /\ (n + 1) - (n - k) <= WindowSize
  BY <1>2, <1>3, <1>4, <1>5
<1> HIDE DEF k
<1>8. loader.obs[n - k].id # loader.obs[n + 1].id
  BY <1>7 DEF ReloadInv, IdsApart
<1> QED BY <1>2, <1>4, <1>5, <1>6, <1>7, <1>8

(* Every step keeps saved and retained histories loadable. *)
LEMMA ReloadStep ==
    ASSUME NoneMalformed, TypeOK, ReplayInv, DedupConsistent, ReloadInv, [Next]_vars
    PROVE  ReloadInv'
<1>0. LedgerBalances /\ WindowFollowsHistory /\ IdsApart(history)
  BY DEF ReplayInv, ReloadInv
<1>1. ASSUME UNCHANGED <<history, ids>>
      PROVE  /\ IdsApart(history')
             /\ (historical_mode' => historical_mode) => WindowFollowsHistory'
  BY <1>0, <1>1 DEF ids, WindowFollowsHistory, WindowSize, IdsApart
<1>2. CASE Call
  <2>1. /\ UNCHANGED <<file, saver, loader>> /\ ~historical_mode /\ ~historical_mode'
        /\ historical_mode' = historical_mode
    BY <1>2 DEF Call, ingest, register_source, mark_source_connected, mark_source_disconnected,
                advance_epoch, Unlocked, historical_mode
  <2>2. WindowFollowsHistory' /\ IdsApart(history')
    <3>1. ASSUME NEW o \in Observations, ingest(o)
          PROVE  WindowFollowsHistory' /\ IdsApart(history')
      <4>1. PICK st \in Statuses : ingest_locked(o, st)
        BY <3>1 DEF ingest
      <4> QED BY <1>0, <2>1, <4>1, IngestKeepsApart DEF NoneMalformed
    <3>2. CASE UNCHANGED <<history, ids>>
      BY <1>1, <2>1, <3>2
    <3> QED BY <1>2, <3>1, <3>2 DEF Call, register_source, mark_source_connected,
                mark_source_disconnected, advance_epoch
  <2> QED BY <2>1, <2>2 DEF ReloadInv, ReloadSucceeds, IdsApart
<1>3. CASE Save
  <2>1. /\ UNCHANGED <<history, ids, loader>> /\ historical_mode' = historical_mode
        /\ saver'.obs \in {<<>>, history, saver.obs}
        /\ file'.obs \in {<<>>, saver.obs, file.obs}
    BY <1>3 DEF Save, SaveSnapshot, SaveReplaces, SaveFails, SaveLosesFile, SaveReturns, NoFile,
                Written, historical_mode
  <2>2. IdsApart(<<>>)
    BY DEF IdsApart
  <2>3. IdsApart(saver'.obs) /\ IdsApart(file'.obs) /\ IdsApart(loader'.obs)
    BY <2>1, <2>2 DEF ReloadInv
  <2> QED BY <1>1, <2>1, <2>3 DEF ReloadInv, ReloadSucceeds, IdsApart
<1>4. CASE LoadParse
  <2>1. /\ UNCHANGED <<history, ids, file, saver>> /\ ~historical_mode'
        /\ loader'.obs = file.obs /\ loader'.st = "Ok"
    BY <1>4 DEF LoadParse, historical_mode
  <2> QED BY <1>1, <2>1, SMTT(30) DEF ReloadInv, ReloadSucceeds, IdsApart
<1>5. CASE LoadClear
  <2>1. /\ UNCHANGED <<file, saver>> /\ history' = <<>> /\ dedup_order' = <<>>
        /\ loader'.obs = loader.obs /\ loader'.st = loader.st
    BY <1>5 DEF LoadClear, ClearMemory, ClearHistory, ClearIds, TypeOK, LoaderStates
  <2>2. IdsApart(<<>>)
    BY DEF IdsApart
  <2>3. WindowFollowsHistory'
    BY <2>1 DEF WindowFollowsHistory
  <2> QED BY <2>1, <2>2, <2>3 DEF ReloadInv, ReloadSucceeds, IdsApart
<1>6. CASE LoadStep
  <2> DEFINE o == loader.obs[loader.next]
  <2>1. PICK st \in Statuses :
           /\ ingest_locked(o, st)
           /\ loader' = [loader EXCEPT !.st = st, !.next = IF st = "Ok" THEN @ + 1 ELSE @]
    BY <1>6 DEF LoadStep
  <2>2. /\ Replaying /\ UNCHANGED <<file, saver>>
        /\ loader \in LoaderStates /\ loader.obs \in Seq(Observations)
        /\ historical_mode /\ loader.next \in 1..Len(loader.obs)
    BY <1>6 DEF LoadStep, Replaying, TypeOK, LoaderStates, historical_mode
  <2>3. /\ o \in Observations /\ WellFormed(o) /\ NoneStale(o)
        /\ Len(history) < max_observations
    <3>1. o \in Observations /\ loader.next = Len(history) + 1
      BY <2>2 DEF ReplayInv, LoadPosition
    <3>2. Len(loader.obs) <= max_observations /\ NoneStale(o)
      BY <2>2 DEF ReplayInv, LoadPosition, CommittedEverywhere, Committed
    <3>3. Len(history) \in Nat /\ Len(loader.obs) \in Nat
      BY <2>2 DEF TypeOK
    <3> QED BY <2>2, <3>1, <3>2, <3>3, ConfigAssumption DEF NoneMalformed
  <2>4. st = "Ok"
    <3>1. st \in {"Ok", "DuplicateObservation"}
      BY <2>1, <2>2, <2>3, ReplayStatus
    <3>2. o.id \notin dedup
      BY <2>2, NextNotRemembered
    <3>3. ~RejectDuplicate(o, st)
      BY <3>2 DEF RejectDuplicate, PassesDedup
    <3> QED BY <2>1, <3>1, <3>3
         DEF ingest_locked, RejectEpoch, RejectAuthority, RejectDisconnected,
             RejectDevice, RejectWorkload, RejectEvidence, RejectMalformed, Accept
  <2>5. /\ loader'.obs = loader.obs /\ loader'.st = "Ok" /\ historical_mode'
    BY <2>1, <2>2, <2>4 DEF LoaderStates, historical_mode
  <2>6. WindowFollowsHistory' /\ IdsApart(history')
    BY <1>0, <2>1, <2>2, <2>3, <2>5, IngestKeepsApart
  <2> QED BY <2>2, <2>5, <2>6 DEF ReloadInv, ReloadSucceeds, IdsApart
<1>7. CASE LoadReturns
  <2>1. /\ UNCHANGED <<history, ids, file, saver>> /\ ~historical_mode'
        /\ loader'.obs = <<>> /\ loader'.st = loader.st
    BY <1>7 DEF LoadReturns, historical_mode
  <2>2. IdsApart(<<>>)
    BY DEF IdsApart
  <2> QED BY <1>1, <2>1, <2>2 DEF ReloadInv, ReloadSucceeds, IdsApart
<1>8. CASE ReadOnly \/ UNCHANGED vars
  <2>1. UNCHANGED <<history, ids, file, saver, loader>> /\ historical_mode' = historical_mode
    BY <1>8 DEF ReadOnly, vars, historical_mode
  <2> QED BY <1>1, <2>1 DEF ReloadInv, ReloadSucceeds, IdsApart
<1> QED BY <1>2, <1>3, <1>4, <1>5, <1>6, <1>7, <1>8 DEF Next, Load

(* As long as no source submits malformed observations, a saved history    *)
(* always loads to its end: the window that replays it is never wider than *)
(* the one that accepted it.  The run reload_malformed shows that the      *)
(* hypothesis is needed: the ids of malformed observations push accepted   *)
(* ids out of the window, but are not replayed.                            *)
THEOREM SavedHistoryReloads ==
    ASSUME NoneMalformed
    PROVE  Spec => []ReloadSucceeds
<1>1. Init => ReloadInv
  BY DEF Init, ReloadInv, WindowFollowsHistory, IdsApart, ReloadSucceeds
<1>2. TypeOK /\ ReplayInv /\ DedupConsistent /\ ReloadInv /\ [Next]_vars => ReloadInv'
  BY ReloadStep
<1>3. ReloadInv => ReloadSucceeds
  BY DEF ReloadInv
<1> QED BY <1>1, <1>2, <1>3, TypeCorrect, ReplayInvariant, WindowAlwaysConsistent, PTL DEF Spec
=============================================================================
