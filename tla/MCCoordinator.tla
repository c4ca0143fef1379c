--------------------------- MODULE MCCoordinator ---------------------------
(***************************************************************************)
(* Two boots of one worker, a query client and a client that replays an    *)
(* observation of the first boot.  A connection, a restart of the          *)
(* coordinator and a failed save are events: a behaviour has at most       *)
(* MaxEvents of them, in any mixture.                                      *)
(***************************************************************************)
EXTENDS Coordinator

CONSTANT MaxEvents

VARIABLES restarts, errors

(* The first boot executes once and closes, the second one samples its     *)
(* device and ends without a Close.                                        *)
TwoBoots == {[worker |-> 1, boot |-> 1, mode |-> "active", stay |-> FALSE],
             [worker |-> 1, boot |-> 2, mode |-> "idle", stay |-> TRUE]}

SampleBoots == {[worker |-> 1, boot |-> b, mode |-> "idle", stay |-> FALSE] : b \in 1..2}

OneProbe == {[query |-> 1]}

OneStray == {[id |-> 7, epoch |-> 2, source |-> 1, boot |-> 1]}

BootObs ==
    UNION {{WorkerObservation(b, e, n) : e \in 1..2, n \in 0..(Len(Script(b)) - 1)} : b \in Boots}
    \cup {make_client_obs(q) : q \in Strays}

BootInfos == {HelloInfo(b) : b \in Boots}

mcVars == <<allVars, restarts, errors>>

MCInit == CoordinatorInit /\ restarts = 0 /\ errors = 0

Connections == Cardinality({c \in Clients : conn[c].pc # "none"})

Within == Connections + restarts + errors <= MaxEvents

(* The network and the processes may always be idle. *)
Idle == UNCHANGED mcVars

MCNext ==
    \/ Startup /\ UNCHANGED <<restarts, errors>>
    \/ Restart /\ restarts' = restarts + 1 /\ UNCHANGED errors /\ Within'
    \/ \E c \in Clients :
          /\ Thread(c)
          /\ errors' = errors + (health'["persist_errors"] - health["persist_errors"])
          /\ UNCHANGED restarts /\ Within'
    \/ ClientStep /\ UNCHANGED <<restarts, errors>> /\ Within'
    \/ Idle

MCSpec == MCInit /\ [][MCNext]_mcVars /\ Fairness
=============================================================================
