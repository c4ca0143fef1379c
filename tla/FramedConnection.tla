-------------------------- MODULE FramedConnection --------------------------
(***************************************************************************)
(* One direction of a FramedConnection: the sender's send_frame over a     *)
(* socket that takes any part of what it is given, a byte stream that may  *)
(* be cut or damaged, and the receiver's recv_frame, which collects        *)
(* whatever recv returns until a whole frame can be decoded.               *)
(*                                                                         *)
(* The stream is a sequence of cells: the version, the length and the      *)
(* checksum of a frame's header, then one cell per unit of its payload     *)
(* (the kind byte and the body).  The checksum is taken to tell every      *)
(* payload from every other.  Frames are numbered in the order the sender  *)
(* is asked to send them and outbox has their payload lengths.             *)
(***************************************************************************)
EXTENDS Integers, Sequences

CONSTANTS
    Outboxes,       \* the sequences of payload lengths a sender may be asked for
    kMaxFrame,      \* the largest frame
    chunk           \* the literal 4096, the most one recv returns

kFrameVersion == 1
kHeaderSize == 3

ASSUME LimitsAssumption ==
    /\ kMaxFrame \in Nat /\ kMaxFrame > kHeaderSize
    /\ chunk \in Nat \ {0}
ASSUME OutboxesAssumption == Outboxes \subseteq Seq(Nat \ {0})

VARIABLES
    outbox,     \* the payload lengths of the frames to send
    next,       \* the frame send_frame is called with next
    unsent,     \* the cells of the current frame that send has not taken yet
    sent,       \* frames written to the last cell
    link,       \* the sender's end: "up", "fin" (closed or dead) or "reset"
    wire,       \* cells on their way
    rbuf,       \* FramedConnection::rbuf_ of the receiver
    received,   \* frames recv_frame has returned
    status,     \* "open", "closed" or "failed": what recv_frame reported last
    damaged     \* whether a cell on the wire has been altered

connVars == <<outbox, next, unsent, sent, link, wire, rbuf, received, status, damaged>>
sender == <<outbox, next, unsent, sent, link>>
receiver == <<rbuf, received, status>>

ConnInit ==
    /\ outbox \in Outboxes
    /\ next = 1 /\ unsent = <<>> /\ sent = <<>> /\ link = "up"
    /\ wire = <<>> /\ rbuf = <<>> /\ received = <<>> /\ status = "open"
    /\ damaged = FALSE

Cell(k, v) == [kind |-> k, val |-> v]

Payload(f, n) == [i \in 1..n |-> Cell("data", f)]

Fits(n) == n <= kMaxFrame - kHeaderSize

encode_frame(f, n) ==
    <<Cell("version", kFrameVersion), Cell("length", n), Cell("crc", Payload(f, n))>>
        \o Payload(f, n)

-----------------------------------------------------------------------------
(***************************************************************************)
(* try_decode                                                              *)
(***************************************************************************)
LengthOf(buf) == buf[2].val
FrameSize(buf) == kHeaderSize + LengthOf(buf)

(* Plausible bug: the checksum is not compared. *)
MutChecksumOff(buf) == TRUE

(* The payload is the one the checksum was computed over. *)
ChecksumMatches(buf) == SubSeq(buf, kHeaderSize + 1, FrameSize(buf)) = buf[3].val

try_decode(buf) ==
    IF Len(buf) < kHeaderSize THEN "Incomplete"
    ELSE IF buf[1].val # kFrameVersion \/ LengthOf(buf) > kMaxFrame THEN "Corrupt"
    ELSE IF Len(buf) < FrameSize(buf) THEN "Incomplete"
    ELSE IF ChecksumMatches(buf) /\ LengthOf(buf) >= 1 THEN "Ok"
    ELSE "Corrupt"

-----------------------------------------------------------------------------
(***************************************************************************)
(* The sender: send_frame, one frame after another.                        *)
(***************************************************************************)
send_frame ==
    /\ link = "up" /\ unsent = <<>> /\ next <= Len(outbox)
    /\ Fits(outbox[next])
    /\ unsent' = encode_frame(next, outbox[next])
    /\ next' = next + 1
    /\ UNCHANGED <<outbox, sent, link, wire, damaged, receiver>>

(* A payload that is too large is not sent; the caller goes on. *)
EncodeFails ==
    /\ link = "up" /\ unsent = <<>> /\ next <= Len(outbox)
    /\ ~Fits(outbox[next])
    /\ next' = next + 1
    /\ UNCHANGED <<outbox, unsent, sent, link, wire, damaged, receiver>>

(* The socket takes n cells. *)
SendSome(n) ==
    /\ n <= Len(unsent)
    /\ wire' = wire \o SubSeq(unsent, 1, n)
    /\ unsent' = SubSeq(unsent, n + 1, Len(unsent))
    /\ sent' = IF n = Len(unsent) THEN Append(sent, next - 1) ELSE sent
    /\ UNCHANGED <<outbox, next, link, damaged, receiver>>

(* The receiver is gone: the rest of the frame is given up. *)
SendFails ==
    /\ unsent # <<>> /\ status # "open"
    /\ unsent' = <<>>
    /\ UNCHANGED <<outbox, next, sent, link, wire, damaged, receiver>>

(* The sender's end is closed, after its last frame or by its death. *)
Shutdown ==
    /\ link = "up"
    /\ link' = "fin"
    /\ unsent' = <<>> /\ next' = Len(outbox) + 1
    /\ UNCHANGED <<outbox, sent, wire, damaged, receiver>>

(* The connection breaks and what was on its way is lost. *)
Reset ==
    /\ link # "reset"
    /\ link' = "reset"
    /\ wire' = <<>> /\ unsent' = <<>> /\ next' = Len(outbox) + 1
    /\ UNCHANGED <<outbox, sent, damaged, receiver>>

(* The values a damaged cell may have instead of its own. *)
OtherValues(c) ==
    CASE c.kind = "version" -> {kFrameVersion + 1}
      [] c.kind = "length"  -> (0..(kMaxFrame + 1)) \ {c.val}
      [] c.kind = "crc"     -> {<<>>}
      [] c.kind = "data"    -> {0}

Damage ==
    /\ ~damaged
    /\ damaged' = TRUE
    /\ \E i \in 1..Len(wire) : \E v \in OtherValues(wire[i]) : wire' = [wire EXCEPT ![i].val = v]
    /\ UNCHANGED <<sender, receiver>>

-----------------------------------------------------------------------------
(***************************************************************************)
(* The receiver: one turn of the loop of recv_frame.  Its caller stops at  *)
(* the first call that fails.                                              *)
(***************************************************************************)
Decodes(result) == status = "open" /\ try_decode(rbuf) = result

Rest(buf) == SubSeq(buf, FrameSize(buf) + 1, Len(buf))

ReturnFrame ==
    /\ Decodes("Ok")
    /\ received' = Append(received, rbuf[kHeaderSize + 1].val)
    /\ rbuf' = Rest(rbuf)
    /\ UNCHANGED <<sender, wire, damaged, status>>

RefuseCorrupt ==
    /\ Decodes("Corrupt")
    /\ status' = "failed"
    /\ UNCHANGED <<sender, wire, damaged, rbuf, received>>

(* Plausible bug: the guard is as tight as the sender's own limit. *)
MutOversize(buf) == Len(buf) > kMaxFrame

Oversize(buf) == Len(buf) > kMaxFrame + kHeaderSize

(* recv returns n cells; the guard looks at the whole buffer. *)
RecvSome(n) ==
    /\ Decodes("Incomplete")
    /\ n <= Len(wire)
    /\ wire' = SubSeq(wire, n + 1, Len(wire))
    /\ rbuf' = rbuf \o SubSeq(wire, 1, n)
    /\ status' = IF Oversize(rbuf') THEN "failed" ELSE "open"
    /\ UNCHANGED <<sender, damaged, received>>

(* Plausible bug: the end of the stream is acted on before what has been   *)
(* read is decoded.                                                        *)
MutEndBeforeDecode ==
    /\ status = "open"
    /\ link = "fin" /\ wire = <<>>
    /\ status' = IF rbuf = <<>> THEN "closed" ELSE "failed"
    /\ UNCHANGED <<sender, wire, damaged, rbuf, received>>

(* An orderly shutdown inside a frame is a truncated frame. *)
RecvEnd ==
    /\ Decodes("Incomplete")
    /\ link = "fin" /\ wire = <<>>
    /\ status' = IF rbuf = <<>> THEN "closed" ELSE "failed"
    /\ UNCHANGED <<sender, wire, damaged, rbuf, received>>

RecvError ==
    /\ Decodes("Incomplete")
    /\ link = "reset"
    /\ status' = "failed"
    /\ UNCHANGED <<sender, wire, damaged, rbuf, received>>

-----------------------------------------------------------------------------
Sender ==
    \/ send_frame \/ EncodeFails \/ SendFails \/ Shutdown
    \/ \E n \in 1..(kMaxFrame + 1) : SendSome(n)

recv_frame ==
    \/ ReturnFrame \/ RefuseCorrupt \/ RecvEnd \/ RecvError
    \/ \E n \in 1..chunk : RecvSome(n)

ConnNext == Sender \/ Reset \/ Damage \/ recv_frame

(* The receiving thread keeps calling recv_frame. *)
ConnSpec == ConnInit /\ [][ConnNext]_connVars /\ WF_connVars(recv_frame)

-----------------------------------------------------------------------------
(* A connection is a queue of frames: however the socket splits, delays,   *)
(* cuts or damages the stream, recv_frame returns whole frames, in order,  *)
(* none twice and none that was not sent, and reports an orderly close     *)
(* only to a receiver that has them all.                                   *)
Q == INSTANCE FrameQueue WITH Frames <- UNION {DOMAIN o : o \in Outboxes}

FramesInOrder == Q!Spec

(* A frame of s cells can overrun the guard if the last recv brings the    *)
(* start of the next one along.                                            *)
NearLimit(s) == s - 1 + chunk > kMaxFrame + kHeaderSize

(* An intact stream is refused only over a frame so close to the limit     *)
(* that one more recv can overrun it: the guard on the receive buffer,     *)
(* which may hold the start of the next frame, turns no other frame away.  *)
RefusedOnlyNearLimit ==
    status = "failed" /\ link = "up" /\ ~damaged
        => Len(rbuf) >= kHeaderSize /\ NearLimit(FrameSize(rbuf))

Disturbed ==
    \/ damaged \/ link = "reset"
    \/ \E i \in DOMAIN outbox : Fits(outbox[i]) /\ NearLimit(kHeaderSize + outbox[i])

(* Every frame that was written is eventually received, unless the stream  *)
(* was broken or damaged or has a frame near the limit, also when the      *)
(* sender has died since.                                                  *)
Delivered ==
    \A n \in UNION {DOMAIN o : o \in Outboxes} :
        (Len(sent) >= n) ~> (Len(received) >= n \/ Disturbed)
=============================================================================
