----------------------------- MODULE FrameQueue -----------------------------
(***************************************************************************)
(* What a framed connection promises its two ends: frames are taken out    *)
(* whole, once each and in the order they were put in; the receiver may be *)
(* cut off at any time, but it is told of an orderly close only when it    *)
(* has everything.                                                         *)
(***************************************************************************)
EXTENDS Integers, Sequences

CONSTANT Frames

VARIABLES
    sent,       \* frames put in, in order
    received,   \* frames taken out, in order
    status      \* what the receiver knows: "open", "closed" or "failed"

queueVars == <<sent, received, status>>

Init == sent = <<>> /\ received = <<>> /\ status = "open"

Put(f) ==
    /\ sent' = Append(sent, f)
    /\ UNCHANGED <<received, status>>

Get ==
    /\ status = "open"
    /\ Len(received) < Len(sent)
    /\ received' = Append(received, sent[Len(received) + 1])
    /\ UNCHANGED <<sent, status>>

Close ==
    /\ status = "open" /\ received = sent
    /\ status' = "closed"
    /\ UNCHANGED <<sent, received>>

Fail ==
    /\ status = "open"
    /\ status' = "failed"
    /\ UNCHANGED <<sent, received>>

Next == (\E f \in Frames : Put(f)) \/ Get \/ Close \/ Fail

Spec == Init /\ [][Next]_queueVars
=============================================================================
