---------------------------- MODULE MCFreshness ----------------------------
(***************************************************************************)
(* One source that samples a device, reports its own health, registers and *)
(* is marked, with at most MaxCalls calls and MaxLoads loads while the     *)
(* clock runs from 0 to MaxTime.  Observations lie at the clock's origin,  *)
(* near it, and ahead of it.                                               *)
(***************************************************************************)
EXTENDS Freshness

CONSTANTS MaxCalls, MaxLoads, MaxTime

VARIABLES calls, loads

Report(i, t, ty, d) ==
    [id |-> i, epoch |-> 1, type |-> ty, begin |-> t, end |-> t,
     source |-> 1, source_generation |-> 1, worker_boot |-> i,
     device |-> d, device_generation |-> 1, workload |-> 0, workload_generation |-> 0,
     evidence |-> 0, evidence_generation |-> 0, scope |-> 0,
     state |-> "Unknown", classification |-> "Unknown", device_state |-> "Unknown",
     ratio |-> 0, percent |-> 10, bytes |-> 0, capacity_bytes |-> 0]

(* Samples of boot 1, and reports of boot 2 that are about no device. *)
Reports ==
    {[Report(1, t, "DeviceSample", 1) EXCEPT !.id = t + 1] : t \in {0, 1, 3}}
    \cup {[Report(b, 3, "HealthSample", 0) EXCEPT !.id = 5 + b] : b \in 1..2}

Descriptors ==
    {[id |-> 1, generation |-> 1, boot |-> 1, capabilities |-> {}, last_observation |-> t] :
        t \in {0, 2}}

boundVars == <<calls, loads>>
mcVars == <<timedVars, live, boundVars>>

MCInit == Init /\ now = 0 /\ calls = 0 /\ loads = 0 /\ live = {}

Tick == Advance(now + 1) /\ now < MaxTime /\ Listen /\ UNCHANGED boundVars

MCCall ==
    /\ Call
    /\ epoch' = epoch
    /\ calls < MaxCalls /\ calls' = calls + 1
    /\ Listen
    /\ UNCHANGED <<now, loads>>

MCFile ==
    /\ \/ SaveSnapshot /\ loads < MaxLoads /\ UNCHANGED loads
       \/ LoadParse /\ loads < MaxLoads /\ loads' = loads + 1
       \/ (SaveReplaces \/ LoadClear \/ LoadStep \/ LoadReturns) /\ UNCHANGED loads
    /\ Listen
    /\ UNCHANGED <<now, calls>>

MCRead == ReadOnly /\ Listen /\ UNCHANGED <<now, boundVars>>

MCNext == Tick \/ MCCall \/ MCFile \/ MCRead

(* The steady clock runs on by itself. *)
MCSpec == MCInit /\ [][MCNext]_mcVars /\ WF_mcVars(Tick)
=============================================================================
