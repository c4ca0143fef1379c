------------------------------ MODULE MCBytes ------------------------------
(***************************************************************************)
(* The two byte formats: streams of up to three frames over a connection   *)
(* whose largest frame has kMaxFrame cells, or a history file of up to     *)
(* MaxSaved observations.  One recv can return more than a header, as in   *)
(* the program, so that a frame of the largest size and the start of the   *)
(* next one may arrive together.                                           *)
(***************************************************************************)
EXTENDS FramedConnection, HistoryFile

VARIABLE scenario       \* which of the two this behaviour is about

(* Small frames only; a frame of the largest size before a small one and   *)
(* after one; a payload that is too large to be sent.                      *)
Streams == {<<1, 2, 1>>, <<kMaxFrame - kHeaderSize, 1>>, <<1, kMaxFrame - kHeaderSize>>,
            <<kMaxFrame - kHeaderSize + 1, 2>>}

mcVars == <<connVars, fileVars, scenario>>

MCInit == ConnInit /\ FileInit /\ scenario \in {"stream", "file"}

(* Both ends may be idle. *)
Idle == UNCHANGED mcVars

MCNext ==
    \/ scenario = "stream" /\ ConnNext /\ UNCHANGED <<fileVars, scenario>>
    \/ scenario = "file" /\ FileNext /\ UNCHANGED <<connVars, scenario>>
    \/ Idle

MCSpec == MCInit /\ [][MCNext]_mcVars /\ WF_connVars(scenario = "stream" /\ recv_frame)
=============================================================================
