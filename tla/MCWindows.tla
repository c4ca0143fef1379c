----------------------------- MODULE MCWindows -----------------------------
(***************************************************************************)
(* A small instance of Windows: every list of at most MaxSpans spans over  *)
(* the ticks, of which at most one is on a device other than device 1.     *)
(***************************************************************************)
EXTENDS Windows

CONSTANTS Categories, MaxSpans

(* Every non-empty interval, and one empty one. *)
IntervalsOver == {w \in [begin : Ticks, end : Ticks] : w.begin < w.end}
                    \cup {[begin |-> 1, end |-> 1]}

(* Retries belong to a workload of their own. *)
MCSpans ==
    {[begin |-> w.begin, end |-> w.end, cat |-> c,
      wl |-> IF c = "RetryExecution" THEN 2 ELSE 1, src |-> 1, obs |-> w.end] :
        w \in IntervalsOver, c \in Categories}

TotalSpans == Cardinality(UNION {{d} \X DOMAIN events[d] : d \in Devices})

Room(d) == TotalSpans < MaxSpans /\ (d = 1 \/ events[d] = <<>>)

MCNext ==
    \/ ReadOnly
    \/ \E d \in Devices, e \in Spans : Room(d) /\ PushSpan(d, e)

MCSpec == Init /\ [][MCNext]_events
=============================================================================
