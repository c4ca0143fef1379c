------------------------------ MODULE MCReload ------------------------------
(***************************************************************************)
(* MCObservatory with a history variable that remembers what the devices   *)
(* held when the history now on disk was copied, so that a load can be     *)
(* compared with the state it is meant to reconstruct.                     *)
(***************************************************************************)
EXTENDS MCObservatory

VARIABLES copied,   \* the evidence of every device when the save copied the history
          saved,    \* the same for the file on disk
          expected  \* the same for the file the load has parsed

(* What the historical timeline and the totals of a device are made of. *)
Evidence(d) == [events |-> d.events, useful_bands |-> d.useful_bands,
                samples |-> d.samples, cap |-> d.cap]

AllEvidence == [d \in DOMAIN devices |-> Evidence(devices[d])]

reloadVars == <<mcVars, copied, saved, expected>>

ReloadInit ==
    /\ MCInit
    /\ copied = EmptyMap /\ saved = EmptyMap /\ expected = EmptyMap

ReloadNext ==
    /\ MCNext
    /\ copied' = IF saver.pc = "idle" /\ saver'.pc = "writing" THEN AllEvidence ELSE copied
    /\ saved' = IF saver.pc = "writing" /\ saver'.pc = "idle" THEN copied ELSE saved
    /\ expected' = IF loader.pc = "idle" /\ loader'.pc = "parsed" THEN saved ELSE expected

ReloadSpec == ReloadInit /\ [][ReloadNext]_reloadVars

(* A load that succeeds leaves every device with the spans, samples, bands *)
(* and capacity it had when the file was saved.                            *)
ReloadRebuildsEvidence ==
    [][LoadReturns /\ loader.st = "Ok" => AllEvidence = expected]_reloadVars
=============================================================================
