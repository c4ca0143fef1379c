--------------------------- MODULE MCObservatory ---------------------------
(***************************************************************************)
(* Small instances of Observatory.  A scenario is a universe of            *)
(* observations and descriptors aimed at one part of the code, with bounds *)
(* on the mutating calls, the loads, the failed saves and the epoch.  A    *)
(* cfg names the Scenarios of a run; every behaviour follows one of them,  *)
(* and calls and loads count what it has done.                             *)
(***************************************************************************)
EXTENDS Observatory

CONSTANT Scenarios

VARIABLES scenario, calls, loads

Base ==
    [id |-> 1, epoch |-> 1, type |-> "HealthSample", begin |-> 1, end |-> 1,
     source |-> 1, source_generation |-> 1, worker_boot |-> 1,
     device |-> 0, device_generation |-> 0, workload |-> 0, workload_generation |-> 0,
     evidence |-> 0, evidence_generation |-> 0, scope |-> 0,
     state |-> "Unknown", classification |-> "Unknown", device_state |-> "Unknown",
     ratio |-> 0, percent |-> 0, bytes |-> 0, capacity_bytes |-> 0]

(* Two epochs, three authorities of one source, two generations of its     *)
(* device, well-formed and malformed. *)
AuthorityObs ==
    {[Base EXCEPT !.id = i, !.epoch = e, !.source_generation = a[1], !.worker_boot = a[2],
                  !.device = 1, !.device_generation = g, !.percent = p] :
        i \in 1..2, e \in 1..2, a \in {<<1, 1>>, <<1, 2>>, <<2, 1>>}, g \in 1..2,
        p \in {50, 101}}

(* Generations of a device, a workload and a piece of evidence, and        *)
(* observations that are about none of them. *)
GenerationObs ==
    {[Base EXCEPT !.id = i, !.device = 1, !.device_generation = g[1],
                  !.workload = 1, !.workload_generation = g[2],
                  !.evidence = 1, !.evidence_generation = g[3]] :
        i \in 1..2, g \in {<<1, 1, 1>>, <<2, 1, 1>>, <<1, 2, 1>>, <<1, 1, 2>>}}
    \cup {[Base EXCEPT !.id = 4]}

(* Executions of two attempts of one workload, with their ends in several  *)
(* orders; one end carries its class and the other leaves it to the begin. *)
IntervalObs ==
    {[Base EXCEPT !.id = p[1], !.device = 1, !.workload = 1, !.type = "ExecutionBegin",
                  !.begin = p[1], !.end = p[1], !.scope = p[2], !.state = "MemoryBound"] :
        p \in {<<1, 1>>, <<2, 1>>, <<2, 2>>}}
    \cup
    {[Base EXCEPT !.id = p[1], !.device = 1, !.workload = 1, !.type = "ExecutionEnd",
                  !.begin = p[1] - 2, !.end = p[1] - 2, !.scope = p[2],
                  !.classification = IF p[1] = 3 THEN "Useful" ELSE "Unknown"] :
        p \in {<<3, 1>>, <<4, 1>>, <<4, 2>>}}

(* Ids that come back after they have left the duplicate window. *)
WindowObs == {[Base EXCEPT !.id = i] : i \in 1..3}

(* The same with malformed observations, whose ids enter the window too. *)
MalformedObs == WindowObs \cup {[Base EXCEPT !.id = i, !.percent = 101] : i \in 1..3}

(* Two samples, a useful band, and capacity evidence that comes and goes. *)
EvidenceObs ==
    {[Base EXCEPT !.id = i, !.device = 1, !.percent = 40 + i, !.device_state = "Reserved",
                  !.type = IF i = 4 THEN "WorkloadSample" ELSE "DeviceSample"] : i \in 3..4}
    \cup {[Base EXCEPT !.id = 1, !.device = 1, !.type = "UsefulWorkSummary", !.end = 3]}
    \cup {[Base EXCEPT !.id = 5, !.device = 1, !.type = t, !.bytes = 2, !.capacity_bytes = 3] :
             t \in {"FragmentationObserved", "CapacityPublished"}}
    \cup {[Base EXCEPT !.id = 6, !.device = 1, !.type = t, !.bytes = 2] :
             t \in {"FragmentationCleared", "CapacityInvalidated"}}

Info(g, caps) ==
    [id |-> 1, generation |-> g, boot |-> 1, capabilities |-> caps, last_observation |-> 0]

OneInfo == {Info(1, {"memory_bytes"})}
TwoInfos == OneInfo \cup {Info(2, {})}

Quiet == [obs |-> {}, infos |-> {}, ticks |-> {}, calls |-> 4, loads |-> 1, errors |-> 0, epoch |-> 1]

Scenario ==
    [authority   |-> [Quiet EXCEPT !.obs = AuthorityObs, !.infos = TwoInfos, !.ticks = {0},
                                   !.loads = 0, !.epoch = 2],
     generations |-> [Quiet EXCEPT !.obs = GenerationObs, !.infos = OneInfo, !.ticks = {0}],
     intervals   |-> [Quiet EXCEPT !.obs = IntervalObs],
     window      |-> [Quiet EXCEPT !.obs = WindowObs, !.calls = 5, !.errors = 1],
     malformed   |-> [Quiet EXCEPT !.obs = MalformedObs],
     evidence    |-> [Quiet EXCEPT !.obs = EvidenceObs]]

MCObservations == UNION {Scenario[n].obs : n \in Scenarios}
MCInfos == UNION {Scenario[n].infos : n \in Scenarios}

Chosen == Scenario[scenario]

MCInit == Init /\ scenario \in Scenarios /\ calls = 0 /\ loads = 0

MCCall ==
    \/ \E o \in Chosen.obs : ingest(o)
    \/ \E info \in Chosen.infos : register_source(info)
    \/ \E s \in DOMAIN sources, t \in Chosen.ticks :
          mark_source_connected(s, t) \/ mark_source_disconnected(s, t)
    \/ advance_epoch /\ epoch < Chosen.epoch

MCNext ==
    /\ UNCHANGED scenario
    /\ \/ MCCall /\ calls < Chosen.calls /\ calls' = calls + 1 /\ UNCHANGED loads
       \/ (ReadOnly \/ SaveReplaces \/ LoadClear \/ LoadStep \/ LoadReturns) /\ UNCHANGED <<calls, loads>>
       \/ SaveSnapshot /\ loads < Chosen.loads /\ UNCHANGED <<calls, loads>>
       \/ (SaveFails \/ SaveLosesFile) /\ health["persist_errors"] < Chosen.errors
          /\ UNCHANGED <<calls, loads>>
       \/ LoadParse /\ loads < Chosen.loads /\ loads' = loads + 1 /\ UNCHANGED calls

mcVars == <<vars, scenario, calls, loads>>

MCSpec == MCInit /\ [][MCNext]_mcVars
=============================================================================
