----------------------------- MODULE MCRestart -----------------------------
(***************************************************************************)
(* MCCoordinator with a history variable that remembers the epochs earlier *)
(* runs of the coordinator have served and left on disk, so that traffic   *)
(* of an earlier run can be told from traffic of this one.                 *)
(***************************************************************************)
EXTENDS MCCoordinator

VARIABLE served     \* the epochs of the observations in the files that restarts have found

restartVars == <<mcVars, served>>

RestartInit == MCInit /\ served = {}

RestartNext ==
    /\ MCNext
    /\ served' = IF restarts' > restarts
                 THEN served \cup {file'.obs[i].epoch : i \in DOMAIN file'.obs}
                 ELSE served

RestartSpec == RestartInit /\ [][RestartNext]_restartVars /\ Fairness

(* Traffic of an earlier run is not accepted after a restart: a run that   *)
(* has found the observations of an earlier one on disk accepts none from  *)
(* a client that was not given its epoch by this run and carries an epoch  *)
(* the earlier run has served.                                             *)
OldEpochRejected ==
    [][\A q \in Strays :
          RecvObservation(q) /\ make_client_obs(q).epoch \in served
              => health'["accepted"] = health["accepted"]]_restartVars
=============================================================================
