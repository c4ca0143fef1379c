-------------------------- MODULE Freshness_proofs --------------------------
(***************************************************************************)
(* Theorems about Freshness, for every configuration and every clock.      *)
(***************************************************************************)
EXTENDS Freshness, Observatory_proofs

(* A running clock does not disturb the observatory. *)
LEMMA TimedObservatory == FreshnessSpec => Spec /\ [](now \in Nat)
<1>1. FreshnessInit => Init /\ now \in Nat
  BY DEF FreshnessInit
<1>2. now \in Nat /\ [FreshnessNext]_timedVars => [Next]_vars /\ (now \in Nat)'
  BY DEF FreshnessNext, Advance, timedVars
<1> QED BY <1>1, <1>2, PTL DEF FreshnessSpec, Spec

(* The age of an observation does not shrink while the clock runs. *)
LEMMA ElapsedGrows ==
    ASSUME NEW last \in Nat, NEW t \in Nat, NEW u \in Nat, t <= u
    PROVE  /\ Elapsed(last, t) \in Nat /\ Elapsed(last, u) \in Nat
           /\ Elapsed(last, t) <= Elapsed(last, u)
BY DEF Elapsed

(* The clock alone never makes a source fresher. *)
LEMMA FreshnessMonotone ==
    ASSUME NEW src \in SourceStates, NEW t \in Nat, NEW u \in Nat, t <= u
    PROVE  Rank[eval_freshness(src, t)] <= Rank[eval_freshness(src, u)]
<1>1. /\ Rank["Current"] = 0 /\ Rank["Stale"] = 1 /\ Rank["Expired"] = 2
      /\ Rank["RevalidationRequired"] = 3 /\ Rank["Unknown"] = 3
  BY DEF Rank, Freshnesses
<1>2. src.last_observation \in Nat /\ src.connected \in BOOLEAN
  BY DEF SourceStates
<1> DEFINE a == Elapsed(src.last_observation, t)
           b == Elapsed(src.last_observation, u)
<1>3. a \in Nat /\ b \in Nat /\ a <= b
  BY <1>2, ElapsedGrows
<1>4. stale_after_ns \in Nat /\ expire_after_ns \in Nat
  BY ThresholdsAssumption
<1>5. CASE ~src.connected \/ src.last_observation = 0
  <2>1. eval_freshness(src, t) = eval_freshness(src, u)
    BY <1>2, <1>5 DEF eval_freshness
  <2>2. eval_freshness(src, t) \in {"RevalidationRequired", "Unknown"}
    BY <1>2, <1>5 DEF eval_freshness
  <2> QED BY <1>1, <2>1, <2>2
<1>6. CASE src.connected /\ src.last_observation # 0
  <2> DEFINE Of(age) == CASE age > expire_after_ns -> "Expired"
                          [] age <= expire_after_ns /\ age > stale_after_ns -> "Stale"
                          [] OTHER -> "Current"
  <2>1. eval_freshness(src, t) = Of(a) /\ eval_freshness(src, u) = Of(b)
    BY <1>6 DEF eval_freshness
  <2> HIDE DEF a, b
  <2>2. Rank[Of(a)] <= Rank[Of(b)]
    BY <1>1, <1>3, <1>4
  <2> QED BY <2>1, <2>2
<1> QED BY <1>2, <1>5, <1>6

(* Time alone never makes a source fresher, for every staleness and expiry *)
(* threshold, even when they are the wrong way round (eval_freshness).     *)
THEOREM FreshnessOnlyDecays == FreshnessSpec => FreshnessDecays
<1> DEFINE Decays == now' # now => \A s \in DOMAIN sources :
                        Rank[freshness(s)] <= Rank[freshness(s)']
<1>1. ASSUME TypeOK, now \in Nat, [FreshnessNext]_timedVars PROVE [Decays]_timedVars
  <2> SUFFICES ASSUME now' # now, NEW s \in DOMAIN sources
               PROVE  Rank[freshness(s)] <= Rank[freshness(s)']
    OBVIOUS
  <2>1. PICK t \in Nat : Advance(t)
    BY <1>1 DEF FreshnessNext, timedVars
  <2>2. now' \in Nat /\ now <= now' /\ sources' = sources
    BY <1>1, <2>1 DEF Advance, vars
  <2>3. sources[s] \in SourceStates
    BY <1>1 DEF TypeOK, IsMap
  <2>4. /\ freshness(s) = eval_freshness(sources[s], now)
        /\ freshness(s)' = eval_freshness(sources[s], now')
    BY <2>2 DEF freshness, source_health
  <2> QED BY <1>1, <2>2, <2>3, <2>4, FreshnessMonotone
<1> QED BY <1>1, TimedObservatory, TypeCorrect, PTL DEF FreshnessSpec, FreshnessDecays

(* A source answers anything but RevalidationRequired only if it is        *)
(* connected.                                                              *)
LEMMA ConnectedFreshness ==
    ASSUME NEW src, NEW t
    PROVE  src.connected <=> eval_freshness(src, t) # "RevalidationRequired"
<1>1. ~src.connected => eval_freshness(src, t) = "RevalidationRequired"
  BY DEF eval_freshness
<1>2. src.connected => eval_freshness(src, t) # "RevalidationRequired"
  BY DEF eval_freshness
<1> QED BY <1>1, <1>2

(* Only the end of a load lets the other operations in again, and by then  *)
(* every source has been put down.                                         *)
LEMMA LoadPutsDown ==
    ASSUME TypeOK, historical_mode, [Next]_vars, Unlocked'
    PROVE  \A s \in DOMAIN sources' : ~sources'[s].connected
<1>1. LoadReturns
  <2>1. ~Call /\ ~ReadOnly /\ ~LoadParse /\ ~LoadClear /\ ~SaveSnapshot
    BY DEF Call, ingest, register_source, mark_source_connected, mark_source_disconnected,
           advance_epoch, ReadOnly, LoadParse, LoadClear, SaveSnapshot, Unlocked, historical_mode
  <2>2. ASSUME loader' = loader PROVE FALSE
    BY <2>2 DEF Unlocked, historical_mode
  <2>3. ASSUME LoadStep PROVE FALSE
    <3>1. loader' = [loader EXCEPT !.st = loader'.st, !.next = loader'.next]
      BY <2>3 DEF LoadStep, TypeOK, LoaderStates
    <3> QED BY <3>1 DEF Unlocked, historical_mode, TypeOK, LoaderStates
  <2>4. ~SaveReplaces /\ ~SaveFails /\ ~SaveLosesFile /\ ~UNCHANGED vars
    BY <2>2 DEF SaveReplaces, SaveFails, SaveLosesFile, vars
  <2> QED BY <2>1, <2>3, <2>4 DEF Next, Save, Load
<1>2. sources' = [s \in DOMAIN sources |-> [sources[s] EXCEPT !.connected = FALSE]]
  BY <1>1 DEF LoadReturns, NeedsRevalidation
<1>3. \A s \in DOMAIN sources : sources[s] \in SourceStates
  BY DEF TypeOK, IsMap
<1> QED BY <1>2, <1>3 DEF SourceStates

(* What a load brings back is never taken for live: a source that answers  *)
(* as connected has been heard of since the load (load, eval_freshness).   *)
THEOREM LoadAlwaysNeedsRevalidation == ListenedSpec => []LoadNeedsRevalidation
<1> DEFINE Step == FreshnessNext /\ Listen
<1>1. FreshnessInit /\ live = {} => LoadNeedsRevalidation
  BY DEF FreshnessInit, Init, EmptyMap, LoadNeedsRevalidation
<1>2. ASSUME TypeOK, LoadNeedsRevalidation, [Step]_<<timedVars, live>>
      PROVE  LoadNeedsRevalidation'
  <2>1. [Next]_vars
    BY <1>2 DEF FreshnessNext, Advance, timedVars
  <2>2. SUFFICES ASSUME Unlocked', NEW s \in DOMAIN sources', sources'[s].connected
                 PROVE  s \in live'
    BY ConnectedFreshness DEF LoadNeedsRevalidation, freshness, source_health
  <2>3. ~historical_mode
    BY <1>2, <2>1, <2>2, LoadPutsDown
  <2>4. ASSUME s \in DOMAIN sources, sources'[s] = sources[s] PROVE s \in live
    <3>1. freshness(s) # "RevalidationRequired"
      BY <2>2, <2>4, ConnectedFreshness DEF freshness, source_health
    <3> QED BY <1>2, <2>3, <2>4, <3>1 DEF LoadNeedsRevalidation, Unlocked
  <2>5. CASE UNCHANGED <<timedVars, live>>
    <3>1. s \in DOMAIN sources /\ sources'[s] = sources[s] /\ live' = live
      BY <2>5 DEF timedVars, vars
    <3> QED BY <2>4, <3>1
  <2>6. CASE Step
    <3>1. live' = live \cup {r \in DOMAIN sources' : Heard(r)}
      BY <2>3, <2>6 DEF Listen
    <3> QED BY <2>4, <3>1 DEF Heard
  <2> QED BY <1>2, <2>5, <2>6
<1>3. ListenedSpec => FreshnessSpec
  <2>1. [Step]_<<timedVars, live>> => [FreshnessNext]_timedVars
    OBVIOUS
  <2> QED BY <2>1, PTL DEF ListenedSpec, FreshnessSpec
<1> QED BY <1>1, <1>2, <1>3, TimedObservatory, TypeCorrect, PTL DEF ListenedSpec
=============================================================================
