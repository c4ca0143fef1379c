----------------------------- MODULE Freshness -----------------------------
(***************************************************************************)
(* Freshness, health and snapshots: what the observatory answers about a   *)
(* source or a device as its monotonic clock runs on.  Nothing is stored   *)
(* when a source falls silent; every answer is worked out from the clock   *)
(* and from the last tick the source was heard at.                         *)
(*                                                                         *)
(* The cached freshness and health fields of SourceInfo are overwritten    *)
(* before they are returned and have no counterpart here.  live is a       *)
(* history variable for LoadNeedsRevalidation, not part of the code.       *)
(***************************************************************************)
EXTENDS Observatory

CONSTANTS
    stale_after_ns,     \* Config::stale_after_ns
    expire_after_ns     \* Config::expire_after_ns

ASSUME ThresholdsAssumption == stale_after_ns \in Nat /\ expire_after_ns \in Nat

VARIABLES
    now,            \* MonotonicClock::now_tick
    live            \* the sources a call was about since the last load

timedVars == <<vars, now>>

Freshnesses == {"Current", "Stale", "Expired", "RevalidationRequired", "Unknown"}

-----------------------------------------------------------------------------
(* Plausible bug: the subtraction of an observation ahead of the clock wraps. *)
MutElapsedWraps(last, t) == IF t >= last THEN t - last ELSE 2^16 + t - last

(* An observation that lies ahead of the clock counts as no time ago. *)
Elapsed(last, t) == IF t >= last THEN t - last ELSE 0

(* Plausible bug: the cached answer of the last call about the source. *)
MutCachedFreshness(src, t) == IF src.connected THEN "Current" ELSE "RevalidationRequired"

eval_freshness(src, t) ==
    CASE ~src.connected                                       -> "RevalidationRequired"
      [] src.connected /\ src.last_observation = 0            -> "Unknown"
      [] src.connected /\ src.last_observation # 0 ->
            LET age == Elapsed(src.last_observation, t)
            IN  CASE age > expire_after_ns                          -> "Expired"
                  [] age <= expire_after_ns /\ age > stale_after_ns -> "Stale"
                  [] OTHER                                          -> "Current"

eval_health(src, t) ==
    LET fresh == eval_freshness(src, t)
    IN  CASE fresh = "Current"              -> "Healthy"
          [] fresh \in {"Stale", "Expired"} -> "Stale"
          [] fresh = "RevalidationRequired" -> "Disconnected"
          [] fresh = "Unknown"              -> "Unknown"

(* An unknown source has the fields of a default-constructed SourceInfo. *)
source_health(s) ==
    IF s \in DOMAIN sources
    THEN [health |-> eval_health(sources[s], now), freshness |-> eval_freshness(sources[s], now)]
    ELSE [health |-> "Unknown", freshness |-> "Unknown"]

(* A snapshot is as fresh as the source that owns the device. *)
snapshot(d) ==
    LET dev == devices[d]
        fresh == source_health(dev.authoritative).freshness
    IN  [generation |-> IF d \in DOMAIN device_gens THEN device_gens[d] ELSE 0,
         state |-> dev.physical, capacity |-> dev.cap,
         source |-> dev.authoritative, source_generation |-> dev.authoritative_gen,
         vendor_percent |-> dev.last_vendor_percent,
         vendor_percent_defined |-> dev.vendor_defined,
         freshness |-> fresh, consistent |-> fresh = "Current"]

-----------------------------------------------------------------------------
(* The origin of the clock is unspecified. *)
FreshnessInit == Init /\ now \in Nat

(* The clock reads later; how much later is up to the caller's next call. *)
Advance(t) ==
    /\ t > now
    /\ now' = t
    /\ UNCHANGED vars

FreshnessNext ==
    \/ Next /\ UNCHANGED now
    \/ \E t \in Nat : Advance(t)

FreshnessSpec == FreshnessInit /\ [][FreshnessNext]_timedVars

-----------------------------------------------------------------------------
Rank == [f \in Freshnesses |-> CASE f = "Current" -> 0 [] f = "Stale" -> 1
                                 [] f = "Expired" -> 2 [] OTHER -> 3]

freshness(s) == source_health(s).freshness

(* Time alone never makes a source fresher: between two calls about it a   *)
(* source goes from current to stale to expired and never back, even if    *)
(* what it last reported lies ahead of the clock.                          *)
FreshnessDecays ==
    [][now' # now => \A s \in DOMAIN sources : Rank[freshness(s)] <= Rank[freshness(s)']]_timedVars

(* A call changes what is known of source s. *)
Heard(s) == s \in DOMAIN sources' /\ (s \in DOMAIN sources => sources'[s] # sources[s])

Listen == live' = IF historical_mode THEN {} ELSE live \cup {s \in DOMAIN sources' : Heard(s)}

ListenedSpec ==
    FreshnessInit /\ live = {} /\ [][FreshnessNext /\ Listen]_<<timedVars, live>>

(* After a load no source is taken for connected, and so for current, on   *)
(* the strength of what the file says: it takes a registration, a mark or  *)
(* an observation since.                                                   *)
LoadNeedsRevalidation ==
    Unlocked => \A s \in DOMAIN sources :
                    freshness(s) # "RevalidationRequired" => s \in live

Reporting == {o.source : o \in Observations}

(* A source that falls silent for good is noticed: from some time on it is *)
(* neither current nor healthy, whatever its last observation said, as     *)
(* long as the clock runs.                                                 *)
SilenceNoticed ==
    \A s \in Reporting :
        \/ []<><<Heard(s)>>_vars
        \/ <>[](freshness(s) # "Current" /\ source_health(s).health # "Healthy")

(* A snapshot that calls itself consistent shows a vendor sample no older  *)
(* than the staleness threshold: evidence of very different times is not   *)
(* mixed without saying so.                                                *)
SnapshotsDoNotMixTimes ==
    Unlocked =>
        \A d \in DOMAIN devices :
            snapshot(d).consistent /\ snapshot(d).vendor_percent_defined
                => Elapsed(devices[d].last_sample_tick, now) <= stale_after_ns
=============================================================================
