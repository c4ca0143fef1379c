------------------------------ MODULE Windows ------------------------------
(***************************************************************************)
(* The queries of the observatory over the closed spans of its devices:    *)
(* device_window, gap, explain, workload and timeline.  The state is the   *)
(* span list of every device; it only ever grows by the push of a closed span (the   *)
(* END branch of ingest_locked, module Accumulator), and every query is a  *)
(* function of it evaluated under the shared lock.                         *)
(*                                                                         *)
(* A ratio is its numerator: the denominator is the length of the window.  *)
(***************************************************************************)
EXTENDS Intervals, FiniteSets

CONSTANTS Devices,   \* device ids
          Spans,     \* the spans that may be closed
          Ticks      \* the ticks windows begin and end at

(* Ids and ticks are unsigned. *)
ASSUME WindowsAssumption ==
    /\ IsFiniteSet(Devices) /\ Devices \subseteq Nat /\ Ticks \subseteq Nat
    /\ \A e \in Spans : e.begin \in Nat /\ e.end \in Nat /\ e.src \in Nat /\ e.obs \in Nat

VARIABLE events      \* device id -> its closed spans, in order of closing

Init == events = [d \in Devices |-> <<>>]

PushSpan(d, e) == events' = [events EXCEPT ![d] = Append(@, e)]

(* The queries change nothing. *)
ReadOnly == UNCHANGED events

Next == ReadOnly \/ \E d \in Devices, e \in Spans : PushSpan(d, e)

Spec == Init /\ [][Next]_events

-----------------------------------------------------------------------------
(***************************************************************************)
(* compute_window_impl                                                     *)
(***************************************************************************)
BusyCategories == {"UsefulExecution", "NonUsefulExecution", "NecessaryOverhead",
                   "RetryExecution", "MemoryBound"}

(* The events of a list that are in S, in their order. *)
chosen(evs, S) ==
    LET out[n \in 0..Len(evs)] ==
            IF n = 0 THEN <<>>
            ELSE IF evs[n] \in S THEN Append(out[n - 1], evs[n]) ELSE out[n - 1]
    IN  out[Len(evs)]

clamped(evs, win) == [i \in DOMAIN evs |-> intersect(evs[i], win)]

(* Plausible bug: the spans are not clamped to the window. *)
MutCollectUnclamped(evs, cats, win) == chosen(evs, {e \in Spans : e.cat \in cats})

(* The spans of the given categories, clamped to the window. *)
collect_cat(evs, cats, win) == clamped(chosen(evs, {e \in Spans : e.cat \in cats}), win)

TimeIn(evs, cats, win) == union_duration(collect_cat(evs, cats, win))

compute_busy_time(evs, win) == TimeIn(evs, BusyCategories, win)

compute_transfer_overlap_time(evs, win) ==
    intersect_union_duration(collect_cat(evs, BusyCategories, win),
                             collect_cat(evs, {"TransferActive"}, win))

-----------------------------------------------------------------------------
(***************************************************************************)
(* gap                                                                     *)
(***************************************************************************)
non_useful_busy(evs, win) ==
    TimeIn(evs, {"NonUsefulExecution"}, win) + TimeIn(evs, {"NecessaryOverhead"}, win)
        + TimeIn(evs, {"RetryExecution"}, win)

(* The window minus the union of all spans, whatever their category. *)
unknown(evs, win) ==
    duration(win) - union_duration(clamped(evs, win))

(* The categories gap() ranks, in the order of the enumeration. *)
ContributorOrder ==
    <<"UsefulExecution", "NonUsefulExecution", "NecessaryOverhead", "TransferActive",
      "WaitingQueue", "WaitingDependency", "WaitingRecovery", "RetryExecution", "ReservedIdle",
      "ResidencyIdle", "FragmentationStranded", "DeviceIdle">>

(* The categories that have time in the window. *)
Contributing(evs, win) ==
    {i \in DOMAIN ContributorOrder : TimeIn(evs, {ContributorOrder[i]}, win) > 0}

(* Plausible bug: the shortest contributor is ranked first. *)
MutContributorsAscending(evs, win) ==
    LET time(i) == TimeIn(evs, {ContributorOrder[i]}, win)
        all == Contributing(evs, win)
        f == ranked(all, {p \in all \X all : \/ time(p[1]) < time(p[2])
                                             \/ time(p[1]) = time(p[2]) /\ p[1] < p[2]})
    IN  [n \in 1..Cardinality(all) |-> ContributorOrder[f[n]]]

(* Longest first, ties in the order of the enumeration. *)
contributors(evs, win) ==
    LET time(i) == TimeIn(evs, {ContributorOrder[i]}, win)
        all == Contributing(evs, win)
        f == ranked(all, {p \in all \X all : \/ time(p[1]) > time(p[2])
                                             \/ time(p[1]) = time(p[2]) /\ p[1] < p[2]})
    IN  [n \in 1..Cardinality(all) |-> ContributorOrder[f[n]]]

-----------------------------------------------------------------------------
(***************************************************************************)
(* workload: the spans of one workload on all devices, which the hash      *)
(* table lists in an order of its own.                                     *)
(***************************************************************************)
device_order ==
    CHOOSE o \in [1..Cardinality(Devices) -> Devices] :
        \A d \in Devices : \E i \in 1..Cardinality(Devices) : o[i] = d

OfWorkload(d, wl) == chosen(events[d], {e \in Spans : e.wl = wl})

SpansOfWorkload(wl) ==
    LET all[n \in 0..Cardinality(Devices)] ==
            IF n = 0 THEN <<>> ELSE all[n - 1] \o OfWorkload(device_order[n], wl)
    IN  all[Cardinality(Devices)]

ActiveCategories == {"UsefulExecution", "NonUsefulExecution", "RetryExecution"}

(* Plausible bug: the active times of the devices are added up. *)
MutActiveSummed(wl, win) ==
    LET total[n \in 0..Cardinality(Devices)] ==
            IF n = 0 THEN 0
            ELSE total[n - 1] + TimeIn(OfWorkload(device_order[n], wl), ActiveCategories, win)
    IN  total[Cardinality(Devices)]

active_execution(wl, win) ==
    TimeIn(SpansOfWorkload(wl), ActiveCategories, win)

-----------------------------------------------------------------------------
(***************************************************************************)
(* timeline: the spans of all devices that meet the window, sorted.        *)
(***************************************************************************)
(* Plausible bug: a span without length is left out. *)
MutInTimelineHasTime(e, win) == duration(intersect(e, win)) # 0

InTimeline(e, win) == duration(intersect(e, win)) # 0 \/ contains(win, e.begin)

TimelineEvents(win) ==
    UNION {{[device |-> d, n |-> n, span |-> events[d][n]] :
               n \in {k \in DOMAIN events[d] : InTimeline(events[d][k], win)}} : d \in Devices}

(* By begin, then device, source and observation id. *)
Earlier(a, b) ==
    \/ a.span.begin < b.span.begin
    \/ a.span.begin = b.span.begin
         /\ \/ a.device < b.device
            \/ a.device = b.device /\ \/ a.span.src < b.span.src
                                      \/ a.span.src = b.span.src /\ a.span.obs < b.span.obs

timeline(win) ==
    LET all == TimelineEvents(win)
    IN  ranked(all, {p \in all \X all : Earlier(p[1], p[2])})

-----------------------------------------------------------------------------
(***************************************************************************)
(* Properties.  The reference is the set of ticks an interval covers.      *)
(***************************************************************************)
WindowSet == {w \in [begin : Ticks, end : Ticks] : w.begin <= w.end}

Covered(evs, cats, win) ==
    {t \in win.begin..(win.end - 1) :
        \E i \in DOMAIN evs : evs[i].cat \in cats /\ contains(evs[i], t)}

(* The merged intervals of any span list are non-empty, in order and       *)
(* disjoint: no tick is counted twice however the spans overlap, nest or   *)
(* repeat.                                                                 *)
MergedDisjoint ==
    \A d \in Devices, w \in WindowSet :
        LET m == merge_intervals(clamped(events[d], w))
        IN  /\ \A i \in DOMAIN m : m[i].begin < m[i].end
            /\ \A i, j \in DOMAIN m : i < j => m[i].end <= m[j].begin

(* The busy time of a window is the number of its ticks that at least one  *)
(* execution span covers.                                                  *)
BusyIsMeasure ==
    \A d \in Devices, w \in WindowSet :
        compute_busy_time(events[d], w) =
            Cardinality(Covered(events[d], {"UsefulExecution", "NonUsefulExecution",
                          "NecessaryOverhead", "RetryExecution", "MemoryBound"}, w))

(* The two-pointer sweep finds exactly the ticks at which the device       *)
(* computes and transfers at once.                                         *)
OverlapIsMeasure ==
    \A d \in Devices, w \in WindowSet :
        compute_transfer_overlap_time(events[d], w) =
            Cardinality(Covered(events[d], BusyCategories, w)
                        \cap Covered(events[d], {"TransferActive"}, w))

(* What the queries measure of a device, for every window: its unknown     *)
(* time, its overlap of compute and transfer, its busy time and the time   *)
(* of every category.                                                      *)
Times(evs) ==
    {[w \in WindowSet |-> unknown(evs, w)],
     [w \in WindowSet |-> compute_transfer_overlap_time(evs, w)]}
    \cup {[w \in WindowSet |-> TimeIn(evs, cats, w)] :
             cats \in {BusyCategories} \cup {{e.cat} : e \in Spans}}

(* Splitting a window in two splits its unknown time, the time of every    *)
(* category, the busy time and the overlap of compute and transfer: no     *)
(* tick is lost or counted twice at the cut.                               *)
WindowsAdd ==
    \A d \in Devices : \A time \in Times(events[d]) : \A l, r \in WindowSet :
        l.end = r.begin => time[[begin |-> l.begin, end |-> r.end]] = time[l] + time[r]

(* The ranked contributors of a gap leave out none of the time their       *)
(* categories cover, and are ranked by time.                               *)
ContributorsComplete ==
    \A d \in Devices, w \in WindowSet :
        LET c == contributors(events[d], w)
            time(i) == TimeIn(events[d], {c[i]}, w)
        IN  /\ Covered(events[d], {c[i] : i \in DOMAIN c}, w)
                 = Covered(events[d], {ContributorOrder[i] : i \in DOMAIN ContributorOrder}, w)
            /\ \A i, j \in DOMAIN c : i < j => time(i) >= time(j)

(* The active time of a workload is the number of ticks at which it runs   *)
(* on at least one device: concurrent devices are not counted twice.       *)
WorkloadMergesDevices ==
    \A w \in WindowSet : \A wl \in {e.wl : e \in Spans} :
        active_execution(wl, w) =
            Cardinality({t \in w.begin..(w.end - 1) :
                \E d \in Devices : \E i \in DOMAIN events[d] :
                    LET e == events[d][i]
                    IN  /\ e.wl = wl /\ contains(e, t)
                        /\ e.cat \in {"UsefulExecution", "NonUsefulExecution", "RetryExecution"}})

(* The timeline of a window is in time order over all devices and leaves   *)
(* out neither a span that begins in the window, an empty one included,    *)
(* nor one that gives the window time: the unknown time of a device can be *)
(* recomputed from it.                                                     *)
TimelineCoversWindow ==
    \A w \in WindowSet :
        LET t == timeline(w)
            on(d) == chosen(t, {x \in TimelineEvents(w) : x.device = d})
        IN  /\ \A i, j \in DOMAIN t : i < j => t[i].span.begin <= t[j].span.begin
            /\ \A d \in Devices : \A n \in DOMAIN events[d] :
                  contains(w, events[d][n].begin) => \E i \in DOMAIN t : t[i].device = d /\ t[i].n = n
            /\ \A d \in Devices :
                  unknown([i \in DOMAIN on(d) |-> on(d)[i].span], w) = unknown(events[d], w)

(* What the command validate-state and the property tests assert of every  *)
(* window: useful time, and the sum of non-useful, overhead and retry      *)
(* time, are parts of the busy time.                                       *)
ValidateState ==
    \A d \in Devices, w \in WindowSet :
        /\ TimeIn(events[d], {"UsefulExecution"}, w) <= compute_busy_time(events[d], w)
        /\ non_useful_busy(events[d], w) <= compute_busy_time(events[d], w)
=============================================================================
