---------------------------- MODULE Bytes_proofs ----------------------------
(***************************************************************************)
(* Theorems about the two byte formats: FramedConnection, for every list   *)
(* of frames, every way the socket splits the stream and every damage to   *)
(* it, and HistoryFile, for files of any length.                           *)
(***************************************************************************)
EXTENDS FramedConnection, HistoryFile, Loops, SequenceTheorems, TLAPS

(***************************************************************************)
(* The invariant.                                                          *)
(***************************************************************************)
FrameLen(f) == kHeaderSize + outbox[f]
Written(f) == encode_frame(f, outbox[f])

(* What damage may have put into a cell of kind k. *)
Wrong(k) ==
    CASE k = "version" -> Nat \ {kFrameVersion}
      [] k = "length"  -> Nat
      [] k = "crc"     -> {<<>>}
      [] k = "data"    -> {0}

(* Cell c may be what has become of w. *)
Readable(c, w) ==
    /\ c.kind = w.kind
    /\ c.val = w.val \/ (damaged /\ c.val \in Wrong(w.kind))

DataCell == [kind : {"data"}, val : Nat]
AnyCell == [kind : {"version", "length"}, val : Nat] \cup [kind : {"crc"}, val : Seq(DataCell)]
               \cup DataCell

ConnTypeOK ==
    /\ outbox \in Outboxes /\ outbox \in Seq(Nat \ {0})
    /\ next \in 1..(Len(outbox) + 1) /\ (unsent # <<>> => next > 1)
    /\ sent \in Seq(1..Len(outbox))
    /\ unsent \in Seq(AnyCell) /\ wire \in Seq(AnyCell) /\ rbuf \in Seq(AnyCell)
    /\ link \in {"up", "fin", "reset"}
    /\ status \in {"open", "closed", "failed"}
    /\ damaged \in BOOLEAN

(* The cells that have left the sender and are not part of a received      *)
(* frame.                                                                  *)
Stream == rbuf \o wire

(* W are the frames that were begun and at[i] is where the i-th of them    *)
(* ends, counted from the first cell ever written.                         *)
Begun(W, at) ==
    /\ W = sent \/ \E f \in 1..Len(outbox) : W = Append(sent, f)
    /\ \A i \in 1..Len(W) : Fits(outbox[W[i]])
    /\ at \in [0..Len(W) -> Nat]
    /\ \A i \in 1..Len(W) : at[i] = at[i - 1] + FrameLen(W[i])
    /\ \A i, j \in 0..Len(W) : i < j => at[i] < at[j]

(* Every cell of s is what has become of the cell written at its place. *)
Laid(W, at, n, s) ==
    \A i \in (n + 1)..Len(W) : \A k \in 1..FrameLen(W[i]) :
        LET p == at[i - 1] - at[n] + k
        IN  p <= Len(s) => Readable(s[p], Written(W[i])[k])

(* How much of the frames begun the stream s holds: all that was sent,     *)
(* unless the connection is broken, and with what the sender has yet to    *)
(* write all that was begun.                                               *)
Extent(W, at, n, s) ==
    LET whole == at[Len(W)] - at[n]
    IN  /\ Len(s) <= whole
        /\ W # sent => Len(s) < whole
        /\ link # "reset" => at[Len(sent)] - at[n] <= Len(s)
        /\ link = "up" /\ unsent = <<>> => W = sent
        /\ unsent # <<>> =>
              /\ link = "up" /\ W # sent /\ W[Len(W)] = next - 1
              /\ Len(s) + Len(unsent) = whole
              /\ \A k \in 1..Len(unsent) :
                    unsent[k] = Written(W[Len(W)])[FrameLen(W[Len(W)]) - Len(unsent) + k]

StreamInv ==
    status = "open" => \E W, at : Begun(W, at) /\ Laid(W, at, Len(received), Stream) /\ Extent(W, at, Len(received), Stream)

(* What was received is the first part of what was sent. *)
ReceivedInv ==
    /\ received \in Seq(1..Len(outbox))
    /\ Len(received) <= Len(sent)
    /\ \A i \in 1..Len(received) : received[i] = sent[i]

ConnInv == ConnTypeOK /\ ReceivedInv /\ StreamInv /\ RefusedOnlyNearLimit

(***************************************************************************)
(* Cells and frames.                                                       *)
(***************************************************************************)
(* Two sequences joined, and a piece of one. *)
IsJoin(u, s, t) ==
    /\ Len(s) \in Nat /\ Len(t) \in Nat /\ Len(u) = Len(s) + Len(t)
    /\ \A k \in 1..Len(s) : u[k] = s[k]
    /\ \A k \in 1..Len(t) : u[Len(s) + k] = t[k]

LEMMA Joined ==
    ASSUME NEW S, NEW s \in Seq(S), NEW t \in Seq(S)
    PROVE  s \o t \in Seq(S) /\ IsJoin(s \o t, s, t)
BY DEF IsJoin

IsPiece(u, s, m, n) ==
    /\ Len(u) = n - m + 1
    /\ \A k \in 1..(n - m + 1) : u[k] = s[m + k - 1]

LEMMA Piece ==
    ASSUME NEW S, NEW s \in Seq(S), NEW m \in Nat \ {0}, NEW n \in Nat, m <= n + 1, n <= Len(s)
    PROVE  SubSeq(s, m, n) \in Seq(S) /\ IsPiece(SubSeq(s, m, n), s, m, n)
<1>1. Len(s) \in Nat /\ m \in Int /\ n \in Int
  OBVIOUS
<1>2. \A i \in m..n : s[i] \in S
  BY <1>1
<1>3. /\ SubSeq(s, m, n) \in Seq(S)
      /\ Len(SubSeq(s, m, n)) = IF m <= n THEN n - m + 1 ELSE 0
      /\ \A i \in 1..(n - m + 1) : SubSeq(s, m, n)[i] = s[m + i - 1]
  BY <1>1, <1>2, SubSeqProperties
<1> QED BY <1>1, <1>3 DEF IsPiece

(* The cells encode_frame writes. *)
LEMMA FrameShape ==
    ASSUME NEW f \in Nat, NEW n \in Nat \ {0}
    PROVE  /\ Payload(f, n) \in Seq(DataCell) /\ Len(Payload(f, n)) = n
           /\ \A k \in 1..n : Payload(f, n)[k] = Cell("data", f)
           /\ encode_frame(f, n) \in Seq(AnyCell) /\ Len(encode_frame(f, n)) = kHeaderSize + n
           /\ encode_frame(f, n)[1] = Cell("version", kFrameVersion)
           /\ encode_frame(f, n)[2] = Cell("length", n)
           /\ encode_frame(f, n)[3] = Cell("crc", Payload(f, n))
           /\ \A k \in 1..n : encode_frame(f, n)[kHeaderSize + k] = Cell("data", f)
<1>1. Cell("data", f) \in DataCell
  BY DEF Cell, DataCell
<1>2. /\ Payload(f, n) \in Seq(DataCell) /\ Len(Payload(f, n)) = n
      /\ \A k \in 1..n : Payload(f, n)[k] = Cell("data", f)
  BY <1>1 DEF Payload
<1> DEFINE p == Payload(f, n)
           h == <<Cell("version", kFrameVersion), Cell("length", n), Cell("crc", p)>>
<1> HIDE DEF p
<1>3. h \in Seq(AnyCell) /\ Len(h) = 3
  <2>1. /\ Cell("version", kFrameVersion) \in AnyCell /\ Cell("length", n) \in AnyCell
        /\ Cell("crc", p) \in AnyCell
    BY <1>2 DEF Cell, AnyCell, kFrameVersion, p
  <2> QED BY <2>1
<1>4. p \in Seq(AnyCell)
  BY <1>2 DEF p, AnyCell
<1>5. encode_frame(f, n) = h \o p
  BY DEF encode_frame, p
<1>6. h[1] = Cell("version", kFrameVersion) /\ h[2] = Cell("length", n) /\ h[3] = Cell("crc", p)
  OBVIOUS
<1> HIDE DEF h
<1>7. /\ Len(h \o p) = 3 + n /\ h \o p \in Seq(AnyCell)
      /\ (h \o p)[1] = h[1] /\ (h \o p)[2] = h[2] /\ (h \o p)[3] = h[3]
      /\ \A k \in 1..n : (h \o p)[3 + k] = p[k]
  <2>1. Len(p) = n /\ 1 \in 1..Len(h) /\ 2 \in 1..Len(h) /\ 3 \in 1..Len(h)
    BY <1>2, <1>3 DEF p
  <2>2. h \o p \in Seq(AnyCell) /\ IsJoin(h \o p, h, p)
    BY <1>3, <1>4, Joined
  <2> QED BY <2>1, <2>2, <1>3 DEF IsJoin
<1> QED BY <1>2, <1>5, <1>6, <1>7 DEF p, kHeaderSize

(* A frame of outbox is written as encode_frame has it. *)
LEMMA WrittenShape ==
    ASSUME ConnTypeOK, NEW f \in 1..Len(outbox)
    PROVE  /\ outbox[f] \in Nat \ {0} /\ FrameLen(f) \in Nat /\ FrameLen(f) > kHeaderSize
           /\ Written(f) \in Seq(AnyCell) /\ Len(Written(f)) = FrameLen(f)
           /\ Written(f)[1] = Cell("version", kFrameVersion)
           /\ Written(f)[2] = Cell("length", outbox[f])
           /\ Written(f)[3] = Cell("crc", Payload(f, outbox[f]))
           /\ \A k \in 1..outbox[f] : Written(f)[kHeaderSize + k] = Cell("data", f)
<1>1. outbox[f] \in Nat \ {0} /\ f \in Nat
  BY DEF ConnTypeOK
<1>2. FrameLen(f) = kHeaderSize + outbox[f] /\ Written(f) = encode_frame(f, outbox[f])
  BY DEF FrameLen, Written
<1>3. kHeaderSize \in Nat
  BY DEF kHeaderSize
<1> DEFINE n == outbox[f]
<1> HIDE DEF n
<1>4. n \in Nat \ {0} /\ f \in Nat /\ FrameLen(f) = kHeaderSize + n
  BY <1>1, <1>2 DEF n
<1>5. FrameLen(f) \in Nat /\ FrameLen(f) > kHeaderSize
  BY <1>3, <1>4
<1>6. /\ Written(f) = encode_frame(f, n) /\ outbox[f] = n
  BY <1>2 DEF n
<1>7. /\ encode_frame(f, n) \in Seq(AnyCell) /\ Len(encode_frame(f, n)) = kHeaderSize + n
      /\ encode_frame(f, n)[1] = Cell("version", kFrameVersion)
      /\ encode_frame(f, n)[2] = Cell("length", n)
      /\ encode_frame(f, n)[3] = Cell("crc", Payload(f, n))
      /\ \A k \in 1..n : encode_frame(f, n)[kHeaderSize + k] = Cell("data", f)
  BY <1>4, FrameShape
<1> QED BY <1>4, <1>5, <1>6, <1>7

(* A buffer that begins with what has become of frame f decodes as f or    *)
(* not at all, and undamaged it decodes as soon as it is complete.         *)
LEMMA Decoding ==
    ASSUME ConnTypeOK, NEW f \in 1..Len(outbox), Fits(outbox[f]),
           \A k \in 1..FrameLen(f) : k <= Len(rbuf) => Readable(rbuf[k], Written(f)[k])
    PROVE  /\ try_decode(rbuf) = "Ok" => /\ LengthOf(rbuf) = outbox[f]
                                         /\ FrameSize(rbuf) = FrameLen(f)
                                         /\ Len(rbuf) >= FrameLen(f)
                                         /\ rbuf[kHeaderSize + 1].val = f
           /\ ~damaged => /\ try_decode(rbuf) # "Corrupt"
                          /\ Len(rbuf) >= 2 => FrameSize(rbuf) = FrameLen(f)
<1> DEFINE n == outbox[f]
           data == SubSeq(rbuf, kHeaderSize + 1, FrameSize(rbuf))
<1>1. /\ n \in Nat \ {0} /\ FrameLen(f) = 3 + n /\ f \in Nat /\ kHeaderSize = 3
      /\ rbuf \in Seq(AnyCell) /\ Len(rbuf) \in Nat /\ damaged \in BOOLEAN
  BY WrittenShape DEF FrameLen, kHeaderSize, ConnTypeOK
<1>w. /\ Written(f)[1] = Cell("version", kFrameVersion)
      /\ Written(f)[2] = Cell("length", n)
      /\ Written(f)[3] = Cell("crc", Payload(f, n))
      /\ \A k \in 1..n : Written(f)[3 + k] = Cell("data", f)
  BY <1>1, WrittenShape
<1>p. /\ 1 \in 1..FrameLen(f) /\ 2 \in 1..FrameLen(f) /\ 3 \in 1..FrameLen(f)
      /\ \A k \in 1..n : 3 + k \in 1..FrameLen(f)
  <2> HIDE DEF n
  <2> QED BY <1>1
<1> HIDE DEF n
<1>2. Len(rbuf) >= 1 => Readable(rbuf[1], Cell("version", kFrameVersion))
  BY <1>1, <1>w, <1>p
<1>3. Len(rbuf) >= 2 => Readable(rbuf[2], Cell("length", n))
  BY <1>1, <1>w, <1>p
<1>4. Len(rbuf) >= 3 => Readable(rbuf[3], Cell("crc", Payload(f, n)))
  BY <1>1, <1>w, <1>p
<1>5. \A k \in 1..n : Len(rbuf) >= 3 + k => Readable(rbuf[3 + k], Cell("data", f))
  BY <1>1, <1>w, <1>p
<1>6. Payload(f, n) \in Seq(DataCell) /\ Len(Payload(f, n)) = n
      /\ \A k \in 1..n : Payload(f, n)[k] = Cell("data", f)
  BY <1>1, FrameShape DEF n
<1>7. Len(rbuf) >= 2 => LengthOf(rbuf) \in Nat
  BY <1>1, <1>3 DEF Readable, Wrong, Cell, LengthOf
<1>8. ASSUME try_decode(rbuf) = "Ok"
      PROVE  /\ LengthOf(rbuf) = n /\ FrameSize(rbuf) = 3 + n
             /\ Len(rbuf) >= 3 + n /\ rbuf[4].val = f
  <2>1. /\ Len(rbuf) >= 3 /\ Len(rbuf) >= FrameSize(rbuf)
        /\ data = rbuf[3].val /\ LengthOf(rbuf) >= 1
    <3>1. /\ ~(Len(rbuf) < kHeaderSize) /\ ~(Len(rbuf) < FrameSize(rbuf))
          /\ ChecksumMatches(rbuf) /\ LengthOf(rbuf) >= 1
      BY <1>8, Zenon DEF try_decode
    <3>2. Len(rbuf) >= 3
      BY <3>1, <1>1
    <3>3. FrameSize(rbuf) \in Nat
      BY <3>2, <1>1, <1>7 DEF FrameSize
    <3> QED BY <1>1, <3>1, <3>2, <3>3 DEF ChecksumMatches
  <2>2. FrameSize(rbuf) = 3 + LengthOf(rbuf)
    BY <1>1 DEF FrameSize
  <2>3. /\ Len(data) = LengthOf(rbuf) /\ data[1] = rbuf[4]
    <3>1. /\ LengthOf(rbuf) \in Nat /\ FrameSize(rbuf) \in Nat /\ FrameSize(rbuf) - 4 + 1 = LengthOf(rbuf)
          /\ 4 <= FrameSize(rbuf) + 1 /\ kHeaderSize + 1 = 4 /\ 1 \in 1..(FrameSize(rbuf) - 4 + 1)
          /\ 4 + 1 - 1 = 4
      BY <1>1, <1>7, <2>1, <2>2
    <3>2. data = SubSeq(rbuf, 4, FrameSize(rbuf))
      BY <3>1
    <3> HIDE DEF data
    <3>3. IsPiece(data, rbuf, 4, FrameSize(rbuf))
      BY <1>1, <2>1, <3>1, <3>2, Piece
    <3>4. data[1] = rbuf[4 + 1 - 1]
      BY <3>1, <3>3 DEF IsPiece
    <3> QED BY <3>1, <3>3, <3>4 DEF IsPiece
  <2> HIDE DEF data
  <2>4. data = Payload(f, n)
    <3>1. rbuf[3].val = Payload(f, n) \/ rbuf[3].val = <<>>
      BY <1>4, <2>1 DEF Readable, Wrong, Cell
    <3>2. data # <<>>
      BY <2>1, <2>3, <1>7
    <3> QED BY <3>1, <3>2, <2>1
  <2>5. LengthOf(rbuf) = n
    BY <2>3, <2>4, <1>6
  <2>6. rbuf[4] = Cell("data", f)
    BY <2>3, <2>4, <1>1, <1>6
  <2> QED BY <2>1, <2>2, <2>5, <2>6 DEF Cell
<1>9. ASSUME ~damaged
      PROVE  /\ try_decode(rbuf) # "Corrupt"
             /\ Len(rbuf) >= 2 => FrameSize(rbuf) = 3 + n
  <2>1. Len(rbuf) >= 2 => LengthOf(rbuf) = n /\ FrameSize(rbuf) = 3 + n
    BY <1>1, <1>3, <1>9 DEF Readable, Cell, LengthOf, FrameSize
  <2>2. Len(rbuf) >= 1 => rbuf[1].val = kFrameVersion
    BY <1>2, <1>9 DEF Readable, Cell
  <2>3. n <= kMaxFrame
    BY <1>1, LimitsAssumption DEF Fits, n
  <2>4. ASSUME Len(rbuf) >= 3, Len(rbuf) >= FrameSize(rbuf) PROVE ChecksumMatches(rbuf)
    <3>1. Len(rbuf) >= 3 + n /\ FrameSize(rbuf) = 3 + n
      BY <2>1, <2>4
    <3>2. \A k \in 1..n : rbuf[3 + k] = Cell("data", f)
      <4> TAKE k \in 1..n
      <4>1. Readable(rbuf[3 + k], Cell("data", f))
        BY <1>5, <3>1, <1>1
      <4>2. rbuf[3 + k] \in AnyCell
        BY <1>1, <3>1
      <4> QED BY <4>1, <4>2, <1>9 DEF Readable, Cell, AnyCell, DataCell
    <3>3. /\ SubSeq(rbuf, 4, 3 + n) \in Seq(AnyCell) /\ Len(SubSeq(rbuf, 4, 3 + n)) = n
          /\ \A k \in 1..n : SubSeq(rbuf, 4, 3 + n)[k] = rbuf[3 + k]
      BY <1>1, <3>1
    <3>4. Payload(f, n) \in Seq(AnyCell)
      BY <1>6 DEF AnyCell
    <3>5. SubSeq(rbuf, 4, 3 + n) = Payload(f, n)
      BY <3>2, <3>3, <3>4, <1>6, <1>1, SeqEqual
    <3>6. rbuf[3].val = Payload(f, n)
      BY <1>4, <1>9, <2>4 DEF Readable, Cell
    <3> QED BY <3>1, <3>5, <3>6, <1>1 DEF ChecksumMatches
  <2>5. ASSUME Len(rbuf) >= 3, Len(rbuf) >= FrameSize(rbuf)
        PROVE  try_decode(rbuf) = "Ok"
    <3>1. /\ ~(Len(rbuf) < kHeaderSize) /\ rbuf[1].val = kFrameVersion
          /\ ~(LengthOf(rbuf) > kMaxFrame) /\ ~(Len(rbuf) < FrameSize(rbuf)) /\ LengthOf(rbuf) >= 1
      BY <1>1, <2>1, <2>2, <2>3, <2>5, LimitsAssumption
    <3> QED BY <3>1, <2>4, <2>5, Zenon DEF try_decode
  <2>6. ASSUME Len(rbuf) < 3 \/ (Len(rbuf) >= 3 /\ Len(rbuf) < FrameSize(rbuf))
        PROVE  try_decode(rbuf) = "Incomplete"
    <3>1. CASE Len(rbuf) < 3
      BY <1>1, <3>1, Zenon DEF try_decode
    <3>2. CASE Len(rbuf) >= 3 /\ Len(rbuf) < FrameSize(rbuf)
      <4>1. /\ ~(Len(rbuf) < kHeaderSize) /\ rbuf[1].val = kFrameVersion
            /\ ~(LengthOf(rbuf) > kMaxFrame)
        BY <1>1, <2>1, <2>2, <2>3, <3>2, LimitsAssumption
      <4> QED BY <4>1, <3>2, Zenon DEF try_decode
    <3> QED BY <2>6, <3>1, <3>2
  <2>7. Len(rbuf) >= 2 => FrameSize(rbuf) \in Nat
    BY <1>1, <2>1
  <2> QED BY <1>1, <2>1, <2>5, <2>6, <2>7
<1> QED BY <1>1, <1>8, <1>9 DEF n

(***************************************************************************)
(* The stream.                                                             *)
(***************************************************************************)
LEMMA StreamShape ==
    ASSUME ConnTypeOK
    PROVE  /\ Stream \in Seq(AnyCell) /\ IsJoin(Stream, rbuf, wire)
           /\ Len(Stream) = Len(rbuf) + Len(wire) /\ Len(rbuf) \in Nat /\ Len(wire) \in Nat
           /\ \A k \in 1..Len(rbuf) : Stream[k] = rbuf[k]
<1>1. rbuf \in Seq(AnyCell) /\ wire \in Seq(AnyCell)
  BY DEF ConnTypeOK
<1>2. Stream \in Seq(AnyCell) /\ IsJoin(Stream, rbuf, wire)
  BY <1>1, Joined DEF Stream
<1> QED BY <1>2 DEF IsJoin

(* The frames begun are those sent and at most one more. *)
LEMMA BegunShape ==
    ASSUME ConnTypeOK, ReceivedInv, NEW W, NEW at, Begun(W, at)
    PROVE  /\ W \in Seq(1..Len(outbox)) /\ Len(W) \in Nat
           /\ Len(sent) \in Nat /\ Len(received) \in Nat /\ Len(received) <= Len(sent)
           /\ W # sent => Len(W) = Len(sent) + 1
           /\ Len(sent) <= Len(W)
           /\ \A i \in 1..Len(sent) : W[i] = sent[i]
           /\ \A i \in 0..Len(W) : at[i] \in Nat
           /\ \A i \in 1..Len(W) : /\ W[i] \in 1..Len(outbox) /\ outbox[W[i]] \in Nat \ {0}
                                   /\ FrameLen(W[i]) \in Nat /\ FrameLen(W[i]) > kHeaderSize
<1>1. /\ sent \in Seq(1..Len(outbox)) /\ Len(sent) \in Nat
      /\ Len(received) \in Nat /\ Len(received) <= Len(sent)
  BY DEF ConnTypeOK, ReceivedInv
<1>2. /\ W \in Seq(1..Len(outbox))
      /\ W # sent => Len(W) = Len(sent) + 1
      /\ Len(sent) <= Len(W) /\ \A i \in 1..Len(sent) : W[i] = sent[i]
  <2>1. CASE W = sent
    BY <1>1, <2>1
  <2>2. CASE W # sent
    <3>1. PICK f \in 1..Len(outbox) : W = Append(sent, f)
      BY <2>2 DEF Begun
    <3> QED BY <1>1, <3>1, AppendProperties
  <2> QED BY <2>1, <2>2
<1>3. Len(W) \in Nat /\ \A i \in 1..Len(W) : W[i] \in 1..Len(outbox)
  <2>1. Len(W) \in Nat /\ W \in [1..Len(W) -> 1..Len(outbox)]
    BY <1>2, LenProperties
  <2> QED BY <2>1
<1>4. \A f \in 1..Len(outbox) : /\ outbox[f] \in Nat \ {0}
                                /\ FrameLen(f) \in Nat /\ FrameLen(f) > kHeaderSize
  BY WrittenShape, Zenon
<1>5. \A i \in 0..Len(W) : at[i] \in Nat
  <2>1. at \in [0..Len(W) -> Nat]
    BY DEF Begun
  <2> QED BY <2>1
<1> QED BY <1>1, <1>2, <1>3, <1>4, <1>5, Zenon

(* The stream, and any part b of it from its start, begins with the first  *)
(* frame not received.                                                     *)
LEMMA FirstFrame ==
    ASSUME ConnTypeOK, ReceivedInv, NEW W, NEW at,
           Begun(W, at), Laid(W, at, Len(received), Stream), Extent(W, at, Len(received), Stream),
           NEW b, Len(b) \in Nat, Len(b) >= 1, Len(b) <= Len(Stream),
           \A k \in 1..Len(b) : b[k] = Stream[k]
    PROVE  /\ Len(received) + 1 \in 1..Len(W)
           /\ Fits(outbox[W[Len(received) + 1]])
           /\ \A k \in 1..FrameLen(W[Len(received) + 1]) :
                 k <= Len(b) => Readable(b[k], Written(W[Len(received) + 1])[k])
<1> DEFINE n == Len(received) + 1
<1>1. /\ Len(W) \in Nat /\ Len(received) \in Nat /\ Len(received) <= Len(W)
      /\ at[Len(W)] \in Nat /\ at[Len(received)] \in Nat
  BY BegunShape
<1>2. Len(Stream) \in Nat
  BY StreamShape
<1>3. n \in 1..Len(W)
  <2>1. Len(Stream) <= at[Len(W)] - at[Len(received)]
    BY DEF Extent
  <2> QED BY <1>1, <1>2, <2>1
<1>4. ASSUME NEW k \in 1..FrameLen(W[n]), k <= Len(b)
      PROVE  Readable(b[k], Written(W[n])[k])
  <2>1. FrameLen(W[n]) \in Nat
    BY <1>3, BegunShape
  <2>2. /\ n \in (Len(received) + 1)..Len(W) /\ n - 1 = Len(received)
        /\ at[Len(received)] - at[Len(received)] + k = k /\ k <= Len(Stream)
    BY <1>1, <1>2, <1>3, <1>4, <2>1
  <2>3. Readable(Stream[k], Written(W[n])[k])
    BY <2>2 DEF Laid
  <2>4. k \in 1..Len(b)
    BY <1>2, <1>4, <2>1
  <2> QED BY <2>3, <2>4
<1> QED BY <1>3, <1>4 DEF Begun

LEMMA FirstBuffered ==
    ASSUME ConnTypeOK, ReceivedInv, NEW W, NEW at,
           Begun(W, at), Laid(W, at, Len(received), Stream), Extent(W, at, Len(received), Stream),
           Len(rbuf) >= 1
    PROVE  /\ Len(received) + 1 \in 1..Len(W)
           /\ Fits(outbox[W[Len(received) + 1]])
           /\ \A k \in 1..FrameLen(W[Len(received) + 1]) :
                 k <= Len(rbuf) => Readable(rbuf[k], Written(W[Len(received) + 1])[k])
<1>1. /\ Len(rbuf) \in Nat /\ Len(rbuf) <= Len(Stream)
      /\ \A k \in 1..Len(rbuf) : rbuf[k] = Stream[k]
  BY StreamShape
<1> QED BY <1>1, FirstFrame

(* Without its first frame, of m cells, a stream is laid out as before. *)
LEMMA Consume ==
    ASSUME ConnTypeOK, ReceivedInv, NEW W, NEW at, Begun(W, at),
           NEW n \in Nat, n + 1 \in 1..Len(W), NEW m \in Nat, at[n + 1] = at[n] + m,
           NEW s, NEW t, Len(s) \in Nat, Len(t) \in Nat, Len(t) = Len(s) - m,
           \A k \in 1..Len(t) : t[k] = s[k + m],
           Laid(W, at, n, s), Extent(W, at, n, s)
    PROVE  Laid(W, at, n + 1, t) /\ Extent(W, at, n + 1, t)
<1>1. /\ Len(W) \in Nat /\ Len(sent) \in Nat /\ Len(sent) <= Len(W)
      /\ \A i \in 0..Len(W) : at[i] \in Nat
      /\ \A i \in 1..Len(W) : FrameLen(W[i]) \in Nat
  BY BegunShape
<1>2. n \in 0..Len(W) /\ n + 1 \in 0..Len(W)
  BY <1>1
<1> DEFINE b == at[n]
           c == at[n + 1]
<1>3. b \in Nat /\ c \in Nat /\ c = b + m
  BY <1>1, <1>2
<1> HIDE DEF b, c
<1>4. ASSUME NEW i \in (n + 2)..Len(W), NEW k \in 1..FrameLen(W[i]), at[i - 1] - c + k <= Len(t)
      PROVE  Readable(t[at[i - 1] - c + k], Written(W[i])[k])
  <2>1. i \in (n + 1)..Len(W) /\ i - 1 \in 0..Len(W) /\ n + 1 <= i - 1 /\ i \in 1..Len(W)
    <3>1. Len(W) \in Nat /\ i \in (n + 2)..Len(W)
      BY <1>1
    <3> QED BY <3>1
  <2> DEFINE a == at[i - 1]
  <2>2. a \in Nat /\ FrameLen(W[i]) \in Nat
    BY <2>1, <1>1
  <2>3. c <= a
    <3>1. CASE i - 1 = n + 1
      BY <3>1, <1>3 DEF c
    <3>2. CASE n + 1 < i - 1
      <4>1. at[n + 1] < at[i - 1]
        BY <2>1, <1>2, <3>2 DEF Begun
      <4> QED BY <4>1, <1>3, <2>2 DEF c
    <3> QED BY <2>1, <3>1, <3>2, <1>2
  <2>4. a - c + k <= Len(t)
    BY <1>4
  <2> HIDE DEF a
  <2>5. /\ a - c + k \in 1..Len(t) /\ (a - c + k) + m = a - b + k /\ a - b + k <= Len(s)
    BY <1>3, <2>2, <2>3, <2>4
  <2>6. Readable(s[a - b + k], Written(W[i])[k])
    BY <2>1, <2>5 DEF Laid, a, b
  <2>7. t[a - c + k] = s[(a - c + k) + m]
    BY <2>5
  <2> QED BY <2>5, <2>6, <2>7 DEF a
<1>5. Laid(W, at, n + 1, t)
  <2>1. n + 1 + 1 = n + 2
    OBVIOUS
  <2> QED BY <1>4, <2>1 DEF Laid, c
<1>6. Extent(W, at, n + 1, t)
  <2> DEFINE a == at[Len(W)]
             d == at[Len(sent)]
             u == Len(unsent)
             p == Len(s)
             q == Len(t)
  <2>1. a \in Nat /\ d \in Nat /\ u \in Nat /\ p \in Nat /\ q \in Nat /\ q = p - m
    BY <1>1, SMTT(30) DEF ConnTypeOK
  <2> HIDE DEF a, d, u, p, q
  <2>2. /\ p <= a - b => q <= a - c
        /\ p < a - b => q < a - c
        /\ d - b <= p => d - c <= q
        /\ p + u = a - b => q + u = a - c
    BY <1>3, <2>1
  <2> QED BY <2>2 DEF Extent, a, b, c, d, u, p, q
<1> QED BY <1>5, <1>6

(* recv_frame returns the next frame sent. *)
LEMMA ReturnNext ==
    ASSUME ConnInv, ReturnFrame
    PROVE  /\ Len(received) < Len(sent)
           /\ received' = Append(received, sent[Len(received) + 1])
           /\ ReceivedInv' /\ StreamInv' /\ rbuf' \in Seq(AnyCell)
<1> DEFINE L == Len(received)
<1>1. ConnTypeOK /\ ReceivedInv /\ status = "open" /\ try_decode(rbuf) = "Ok"
  BY DEF ConnInv, ReturnFrame, Decodes
<1>2. PICK W, at : Begun(W, at) /\ Laid(W, at, Len(received), Stream) /\ Extent(W, at, Len(received), Stream)
  BY <1>1 DEF ConnInv, StreamInv
<1>3. Len(rbuf) >= 3 /\ Len(rbuf) \in Nat
  <2>1. Len(rbuf) \in Nat
    BY <1>1, StreamShape
  <2>2. ~(Len(rbuf) < kHeaderSize)
    BY <1>1, Zenon DEF try_decode
  <2> QED BY <2>1, <2>2 DEF kHeaderSize
<1>4. /\ L + 1 \in 1..Len(W) /\ Fits(outbox[W[L + 1]])
      /\ \A k \in 1..FrameLen(W[L + 1]) :
            k <= Len(rbuf) => Readable(rbuf[k], Written(W[L + 1])[k])
  BY <1>1, <1>2, <1>3, FirstBuffered
<1> DEFINE f == W[L + 1]
<1>5. /\ W \in Seq(1..Len(outbox)) /\ Len(W) \in Nat /\ Len(sent) \in Nat /\ L \in Nat
      /\ L <= Len(sent) /\ (W # sent => Len(W) = Len(sent) + 1) /\ Len(sent) <= Len(W)
      /\ \A i \in 1..Len(sent) : W[i] = sent[i]
      /\ \A i \in 0..Len(W) : at[i] \in Nat
      /\ f \in 1..Len(outbox) /\ FrameLen(f) \in Nat /\ FrameLen(f) > 3
      /\ \A i \in 1..Len(W) : FrameLen(W[i]) \in Nat
  BY <1>1, <1>2, <1>4, BegunShape DEF kHeaderSize
<1>6. FrameSize(rbuf) = FrameLen(f) /\ Len(rbuf) >= FrameLen(f) /\ rbuf[kHeaderSize + 1].val = f
  BY <1>1, <1>4, <1>5, Decoding
<1>7. at[L + 1] = at[L] + FrameLen(f)
  <2>1. L + 1 - 1 = L
    BY <1>5
  <2> QED BY <1>2, <1>4, <2>1 DEF Begun
<1>8. Len(Stream) = Len(rbuf) + Len(wire) /\ Len(wire) \in Nat
  BY <1>1, StreamShape
<1>9. L < Len(sent)
  <2> SUFFICES ASSUME L = Len(sent) PROVE FALSE
    BY <1>5
  <2>1. W # sent /\ Len(W) = L + 1
    BY <1>4, <1>5
  <2>2. Len(Stream) < at[Len(W)] - at[L]
    BY <1>2, <2>1 DEF Extent
  <2> QED BY <2>1, <2>2, <1>3, <1>5, <1>6, <1>7, <1>8
<1>10. received' = Append(received, sent[L + 1]) /\ sent[L + 1] \in 1..Len(outbox)
  BY <1>5, <1>6, <1>9, SMTT(30) DEF ReturnFrame
<1>11. UNCHANGED <<outbox, next, unsent, sent, link, wire, damaged>> /\ rbuf' = Rest(rbuf)
  BY DEF ReturnFrame, sender
<1>12. received' \in Seq(1..Len(outbox)) /\ Len(received') = L + 1 /\ ReceivedInv'
  <2>1. /\ received \in Seq(1..Len(outbox)) /\ \A i \in 1..L : received[i] = sent[i]
    BY <1>1 DEF ReceivedInv
  <2>2. /\ received' \in Seq(1..Len(outbox)) /\ Len(received') = L + 1
        /\ \A i \in 1..L : received'[i] = received[i]
        /\ received'[L + 1] = sent[L + 1]
    BY <2>1, <1>10, AppendProperties
  <2>3. ASSUME NEW i \in 1..(L + 1) PROVE received'[i] = sent[i]
    <3>1. i \in 1..L \/ i = L + 1
      BY <1>5
    <3> QED BY <2>1, <2>2, <3>1
  <2>4. L + 1 <= Len(sent)
    BY <1>5, <1>9
  <2> QED BY <2>2, <2>3, <2>4, <1>11 DEF ReceivedInv
<1>13. /\ rbuf' \in Seq(AnyCell)
       /\ Stream' \in Seq(AnyCell) /\ Len(Stream') = Len(Stream) - FrameLen(f)
       /\ \A k \in 1..Len(Stream') : Stream'[k] = Stream[k + FrameLen(f)]
  <2> DEFINE m == FrameLen(f)
  <2>1. m \in Nat /\ m <= Len(rbuf) /\ rbuf \in Seq(AnyCell) /\ wire \in Seq(AnyCell)
    BY <1>1, <1>5, <1>6 DEF ConnTypeOK
  <2>2. rbuf' = SubSeq(rbuf, m + 1, Len(rbuf))
    BY <1>6, <1>11 DEF Rest
  <2> HIDE DEF m
  <2>3. /\ rbuf' \in Seq(AnyCell) /\ Len(rbuf') = Len(rbuf) - m
        /\ \A k \in 1..(Len(rbuf) - m) : rbuf'[k] = rbuf[k + m]
    <3>1. /\ m + 1 \in Nat \ {0} /\ m + 1 <= Len(rbuf) + 1 /\ Len(rbuf) <= Len(rbuf)
          /\ Len(rbuf) - (m + 1) + 1 = Len(rbuf) - m
      BY <2>1, <1>3
    <3>2. rbuf' \in Seq(AnyCell) /\ IsPiece(rbuf', rbuf, m + 1, Len(rbuf))
      BY <2>1, <2>2, <3>1, <1>3, Piece
    <3>3. \A k \in 1..(Len(rbuf) - m) : (m + 1) + k - 1 = k + m
      BY <2>1
    <3> QED BY <3>1, <3>2, <3>3 DEF IsPiece
  <2>4. /\ Stream' \in Seq(AnyCell) /\ Len(Stream') = Len(rbuf') + Len(wire)
        /\ \A k \in 1..Len(rbuf') : Stream'[k] = rbuf'[k]
        /\ \A k \in 1..Len(wire) : Stream'[Len(rbuf') + k] = wire[k]
    <3>1. Stream' = rbuf' \o wire
      BY <1>11 DEF Stream
    <3>2. Stream' \in Seq(AnyCell) /\ IsJoin(Stream', rbuf', wire)
      BY <2>1, <2>3, <3>1, Joined
    <3> QED BY <3>2 DEF IsJoin
  <2>5. /\ \A k \in 1..Len(rbuf) : Stream[k] = rbuf[k]
        /\ \A k \in 1..Len(wire) : Stream[Len(rbuf) + k] = wire[k]
    BY <1>1, StreamShape DEF IsJoin
  <2>6. ASSUME NEW k \in 1..Len(Stream') PROVE Stream'[k] = Stream[k + m]
    <3>1. CASE k <= Len(rbuf) - m
      <4>1. k \in 1..(Len(rbuf) - m) /\ k \in 1..Len(rbuf') /\ k + m \in 1..Len(rbuf)
        BY <2>1, <2>3, <2>6, <3>1, <1>3
      <4> QED BY <4>1, <2>3, <2>4, <2>5
    <3>2. CASE k > Len(rbuf) - m
      <4> DEFINE j == k - (Len(rbuf) - m)
      <4>1. /\ j \in 1..Len(wire) /\ Len(rbuf') + j = k /\ Len(rbuf) + j = k + m
        BY <2>1, <2>3, <2>4, <2>6, <3>2, <1>3, <1>8
      <4> QED BY <4>1, <2>4, <2>5
    <3> QED BY <3>1, <3>2, <2>1, <1>3
  <2> QED BY <2>1, <2>3, <2>4, <2>6, <1>3, <1>8 DEF m
<1>14. Begun(W, at)'
  BY <1>2, <1>11 DEF Begun, Fits, FrameLen
<1>15. \A i \in 1..Len(W) : FrameLen(W[i]) \in Nat
  BY <1>5
<1>16. Laid(W, at, L + 1, Stream') /\ Extent(W, at, L + 1, Stream')
  <2> DEFINE m == FrameLen(f)
             t == Stream'
  <2>1. /\ m \in Nat /\ at[L + 1] = at[L] + m
        /\ Len(t) = Len(Stream) - m /\ Len(t) \in Nat /\ Len(Stream) \in Nat
        /\ \A k \in 1..Len(t) : t[k] = Stream[k + m]
    BY <1>3, <1>5, <1>6, <1>7, <1>8, <1>13
  <2>2. Laid(W, at, L, Stream) /\ Extent(W, at, L, Stream) /\ Begun(W, at) /\ L + 1 \in 1..Len(W)
    BY <1>2, <1>4
  <2> HIDE DEF m, t
  <2>3. Laid(W, at, L + 1, t) /\ Extent(W, at, L + 1, t)
    BY <2>1, <2>2, <1>1, <1>5, Consume
  <2> QED BY <2>3 DEF t
<1>17. Laid(W, at, Len(received), Stream)' /\ Extent(W, at, Len(received), Stream)'
  BY <1>11, <1>12, <1>16 DEF Laid, Extent, Readable, Written, FrameLen
<1> QED BY <1>9, <1>10, <1>12, <1>13, <1>14, <1>17 DEF StreamInv

(* What is on its way has not been damaged: it decodes or is incomplete.  *)
LEMMA IntactDecodes ==
    ASSUME ConnInv, status = "open", ~damaged
    PROVE  /\ try_decode(rbuf) # "Corrupt"
           /\ Len(rbuf) >= 2 => FrameSize(rbuf) \in Nat /\ FrameSize(rbuf) > kHeaderSize
<1>1. ConnTypeOK /\ ReceivedInv
  BY DEF ConnInv
<1>2. PICK W, at : Begun(W, at) /\ Laid(W, at, Len(received), Stream)
                   /\ Extent(W, at, Len(received), Stream)
  BY DEF ConnInv, StreamInv
<1>3. Len(rbuf) \in Nat
  BY <1>1, StreamShape
<1>4. CASE Len(rbuf) >= 1
  <2> DEFINE f == W[Len(received) + 1]
  <2>1. /\ Len(received) + 1 \in 1..Len(W) /\ Fits(outbox[f])
        /\ \A k \in 1..FrameLen(f) : k <= Len(rbuf) => Readable(rbuf[k], Written(f)[k])
    BY <1>1, <1>2, <1>4, FirstBuffered
  <2>2. f \in 1..Len(outbox) /\ FrameLen(f) \in Nat /\ FrameLen(f) > kHeaderSize
    BY <1>1, <1>2, <2>1, BegunShape
  <2> HIDE DEF f
  <2>3. try_decode(rbuf) # "Corrupt" /\ (Len(rbuf) >= 2 => FrameSize(rbuf) = FrameLen(f))
    BY <1>1, <2>1, <2>2, Decoding
  <2> QED BY <2>2, <2>3
<1>5. CASE Len(rbuf) = 0
  <2>1. Len(rbuf) < kHeaderSize
    BY <1>5 DEF kHeaderSize
  <2>2. try_decode(rbuf) = "Incomplete"
    BY <2>1, Zenon DEF try_decode
  <2> QED BY <1>5, <2>2
<1> QED BY <1>3, <1>4, <1>5

(* A stream that is not touched stays laid out as it is. *)
LEMMA LaidKept ==
    ASSUME NEW W, NEW at, Begun(W, at), Laid(W, at, Len(received), Stream),
           UNCHANGED <<outbox, sent, received, damaged>>, Stream' = Stream
    PROVE  Begun(W, at)' /\ Laid(W, at, Len(received), Stream)'
BY DEF Begun, Laid, Fits, FrameLen, Written, Readable

(* Reading moves cells from the wire to the buffer.                        *)
LEMMA RecvMoves ==
    ASSUME ConnTypeOK, NEW n \in 1..chunk, RecvSome(n)
    PROVE  /\ Stream' = Stream /\ rbuf' \in Seq(AnyCell) /\ wire' \in Seq(AnyCell)
           /\ n <= Len(wire) /\ IsJoin(rbuf', rbuf, SubSeq(wire, 1, n))
           /\ Len(rbuf') = Len(rbuf) + n /\ Len(rbuf') <= Len(Stream)
           /\ \A k \in 1..Len(rbuf') : rbuf'[k] = Stream[k]
<1>1. /\ rbuf \in Seq(AnyCell) /\ wire \in Seq(AnyCell) /\ n \in Nat \ {0} /\ n <= Len(wire)
      /\ Len(rbuf) \in Nat /\ Len(wire) \in Nat
  BY LimitsAssumption DEF ConnTypeOK, RecvSome
<1> DEFINE a == SubSeq(wire, 1, n)
           b == SubSeq(wire, n + 1, Len(wire))
<1>2. a \in Seq(AnyCell) /\ IsPiece(a, wire, 1, n)
  BY <1>1, Piece
<1>3. b \in Seq(AnyCell) /\ IsPiece(b, wire, n + 1, Len(wire))
  BY <1>1, Piece
<1>4. rbuf' = rbuf \o a /\ wire' = b /\ Stream' = (rbuf \o a) \o b
  BY DEF RecvSome, Stream
<1> HIDE DEF a, b
<1>5. rbuf \o a \in Seq(AnyCell) /\ IsJoin(rbuf \o a, rbuf, a)
  BY <1>1, <1>2, Joined
<1>6. (rbuf \o a) \o b \in Seq(AnyCell) /\ IsJoin((rbuf \o a) \o b, rbuf \o a, b)
  BY <1>3, <1>5, Joined
<1>7. Stream \in Seq(AnyCell) /\ IsJoin(Stream, rbuf, wire)
  BY StreamShape
<1> DEFINE u == (rbuf \o a) \o b
           v == rbuf \o a
           s == Stream
<1>8. /\ Len(a) = n /\ Len(b) = Len(wire) - n
      /\ \A k \in 1..n : a[k] = wire[k]
      /\ \A k \in 1..(Len(wire) - n) : b[k] = wire[n + k]
  <2>1. /\ n - 1 + 1 = n /\ Len(wire) - (n + 1) + 1 = Len(wire) - n
        /\ \A k \in 1..n : 1 + k - 1 = k
        /\ \A k \in 1..(Len(wire) - n) : (n + 1) + k - 1 = n + k
    BY <1>1
  <2> QED BY <2>1, <1>2, <1>3 DEF IsPiece
<1> HIDE DEF u, v, s
<1>9. IsJoin(v, rbuf, a) /\ IsJoin(u, v, b) /\ IsJoin(s, rbuf, wire)
  BY <1>5, <1>6, <1>7 DEF u, v, s
<1>10. Len(v) = Len(rbuf) + n /\ Len(u) = Len(rbuf) + Len(wire) /\ Len(s) = Len(rbuf) + Len(wire)
  BY <1>1, <1>8, <1>9 DEF IsJoin
<1>11. ASSUME NEW k \in 1..(Len(rbuf) + Len(wire)) PROVE u[k] = s[k]
  <2>1. CASE k <= Len(rbuf)
    <3>1. k \in 1..Len(rbuf) /\ k \in 1..Len(v)
      BY <1>1, <1>10, <2>1
    <3> QED BY <3>1, <1>9 DEF IsJoin
  <2>2. CASE Len(rbuf) < k /\ k <= Len(rbuf) + n
    <3> DEFINE j == k - Len(rbuf)
    <3>1. j \in 1..n /\ j \in 1..Len(a) /\ j \in 1..Len(wire) /\ Len(rbuf) + j = k /\ k \in 1..Len(v)
      BY <1>1, <1>8, <1>10, <2>2
    <3> HIDE DEF j
    <3>2. u[k] = v[k] /\ v[Len(rbuf) + j] = a[j] /\ s[Len(rbuf) + j] = wire[j]
      BY <3>1, <1>9 DEF IsJoin
    <3>3. a[j] = wire[j]
      BY <3>1, <1>8
    <3> QED BY <3>1, <3>2, <3>3
  <2>3. CASE Len(rbuf) + n < k
    <3> DEFINE j == k - Len(rbuf) - n
    <3>1. /\ j \in 1..(Len(wire) - n) /\ n + j \in 1..Len(wire)
          /\ j \in 1..Len(b) /\ Len(v) + j = k /\ Len(rbuf) + (n + j) = k
      BY <1>1, <1>8, <1>10, <2>3
    <3> HIDE DEF j
    <3>2. u[Len(v) + j] = b[j] /\ s[Len(rbuf) + (n + j)] = wire[n + j]
      BY <3>1, <1>9 DEF IsJoin
    <3>3. b[j] = wire[n + j]
      BY <3>1, <1>8
    <3> QED BY <3>1, <3>2, <3>3
  <2> QED BY <1>1, <2>1, <2>2, <2>3
<1>12. u = s
  <2>1. u \in Seq(AnyCell) /\ s \in Seq(AnyCell)
    BY <1>6, <1>7 DEF u, s, v
  <2> QED BY <2>1, <1>10, <1>11, SeqEqual
<1>13. Len(v) <= Len(s) /\ \A k \in 1..Len(v) : v[k] = s[k]
  BY <1>1, <1>9, <1>10, <1>12 DEF IsJoin
<1> QED BY <1>1, <1>2, <1>3, <1>4, <1>5, <1>10, <1>12, <1>13 DEF a, b, u, v, s

(* A read that finds the buffer too full has found a frame near the limit. *)
LEMMA RecvRefuses ==
    ASSUME ConnInv, NEW n \in 1..chunk, RecvSome(n)
    PROVE  RefusedOnlyNearLimit'
<1> SUFFICES ASSUME status' = "failed", ~damaged'
             PROVE  Len(rbuf') >= kHeaderSize /\ NearLimit(FrameSize(rbuf'))
  BY DEF RefusedOnlyNearLimit, NearLimit, FrameSize, LengthOf
<1>1. ConnTypeOK /\ ReceivedInv /\ status = "open" /\ ~damaged /\ try_decode(rbuf) = "Incomplete"
  BY DEF ConnInv, RecvSome, Decodes, sender
<1>2. IsJoin(rbuf', rbuf, SubSeq(wire, 1, n)) /\ Len(rbuf') = Len(rbuf) + n
  BY <1>1, RecvMoves
<1>3. /\ Len(rbuf) \in Nat /\ n \in Nat /\ n <= chunk /\ chunk \in Nat
      /\ kMaxFrame \in Nat /\ kMaxFrame > 3 /\ kHeaderSize = 3
  BY <1>1, StreamShape, LimitsAssumption DEF kHeaderSize
<1>4. Len(rbuf') > kMaxFrame + 3
  BY <1>3 DEF RecvSome, Oversize
<1>5. PICK W, at : Begun(W, at) /\ Laid(W, at, Len(received), Stream)
                   /\ Extent(W, at, Len(received), Stream)
  BY <1>1 DEF ConnInv, StreamInv
<1>6. FrameSize(rbuf') \in Nat /\ FrameSize(rbuf') > 3
  <2> DEFINE f == W[Len(received) + 1]
             b == rbuf'
  <2>1. Len(b) <= Len(Stream) /\ \A k \in 1..Len(b) : b[k] = Stream[k]
    BY <1>1, RecvMoves
  <2>2. Len(b) \in Nat /\ Len(b) >= 2
    BY <1>2, <1>3, <1>4
  <2> HIDE DEF b
  <2>3. /\ Len(received) + 1 \in 1..Len(W)
        /\ \A k \in 1..FrameLen(f) : k <= Len(b) => Readable(b[k], Written(f)[k])
    BY <1>1, <1>5, <2>1, <2>2, FirstFrame
  <2>4. f \in 1..Len(outbox)
    BY <1>1, <1>5, <2>3, BegunShape
  <2> HIDE DEF f
  <2>5. /\ outbox[f] \in Nat \ {0} /\ FrameLen(f) \in Nat /\ FrameLen(f) > 3
        /\ Written(f)[2] = Cell("length", outbox[f])
    BY <1>1, <1>3, <2>4, WrittenShape
  <2>6. Readable(b[2], Cell("length", outbox[f]))
    BY <2>2, <2>3, <2>5
  <2>7. b[2].val = outbox[f]
    BY <1>1, <2>6 DEF Readable, Cell
  <2> QED BY <2>5, <2>7, <1>3 DEF FrameSize, LengthOf, b
<1>7. Len(rbuf) <= FrameSize(rbuf') - 1
  <2>1. CASE Len(rbuf) < 3
    BY <1>3, <1>6, <2>1
  <2>2. CASE Len(rbuf) >= 3
    <3>1. FrameSize(rbuf') = FrameSize(rbuf)
      <4>1. 2 \in 1..Len(rbuf)
        BY <1>3, <2>2
      <4>2. rbuf'[2] = rbuf[2]
        BY <1>2, <4>1 DEF IsJoin
      <4> QED BY <4>2 DEF FrameSize, LengthOf
    <3>2. ~(Len(rbuf) < kHeaderSize)
      BY <1>3, <2>2
    <3>3. Len(rbuf) < FrameSize(rbuf)
      BY <1>1, <3>2 DEF try_decode
    <3> QED BY <1>3, <1>6, <3>1, <3>3
  <2> QED BY <1>3, <2>1, <2>2
<1> QED BY <1>2, <1>3, <1>4, <1>6, <1>7 DEF NearLimit

(***************************************************************************)
(* The sender.                                                             *)
(***************************************************************************)
(* A frame that is begun takes its place after those sent. *)
LEMMA SendBegins ==
    ASSUME ConnInv, send_frame
    PROVE  ConnTypeOK' /\ StreamInv'
<1>1. /\ ConnTypeOK /\ ReceivedInv
      /\ link = "up" /\ unsent = <<>> /\ next \in 1..Len(outbox) /\ Fits(outbox[next])
      /\ unsent' = Written(next) /\ next' = next + 1
      /\ UNCHANGED <<outbox, sent, link, wire, damaged, rbuf, received, status>>
  BY DEF ConnInv, send_frame, Written, receiver, ConnTypeOK
<1>2. /\ outbox[next] \in Nat \ {0} /\ FrameLen(next) \in Nat /\ FrameLen(next) > kHeaderSize
      /\ Written(next) \in Seq(AnyCell) /\ Len(Written(next)) = FrameLen(next)
  BY <1>1, WrittenShape
<1>3. ConnTypeOK'
  BY <1>1, <1>2 DEF ConnTypeOK
<1>4. SUFFICES ASSUME status = "open" PROVE StreamInv'
  BY <1>1, <1>3 DEF StreamInv
<1>5. PICK W, at : Begun(W, at) /\ Laid(W, at, Len(received), Stream)
                   /\ Extent(W, at, Len(received), Stream)
  BY <1>4 DEF ConnInv, StreamInv
<1>6. W = sent
  BY <1>1, <1>5 DEF Extent
<1>7. PICK n, l, g, m : n = Len(received) /\ l = Len(sent) /\ g = next /\ m = FrameLen(next)
  OBVIOUS
<1>8. PICK V, bt : /\ V = Append(sent, g)
                   /\ bt = [i \in 0..(l + 1) |-> IF i <= l THEN at[i] ELSE at[l] + m]
  OBVIOUS
<1>9. /\ l \in Nat /\ n \in Nat /\ n <= l /\ \A i \in 0..l : at[i] \in Nat
      /\ \A i \in 1..l : FrameLen(sent[i]) \in Nat
      /\ m \in Nat /\ m > 3 /\ FrameLen(g) = m /\ g \in 1..Len(outbox)
  BY <1>1, <1>2, <1>5, <1>6, <1>7, BegunShape DEF kHeaderSize
<1>10. Len(Stream) = at[l] - at[n] /\ Len(Stream) \in Nat
  <2>1. Len(Stream) \in Nat
    <3>1. Len(Stream) = Len(rbuf) + Len(wire) /\ Len(rbuf) \in Nat /\ Len(wire) \in Nat
      BY <1>1, StreamShape
    <3> QED BY <3>1
  <2>3. at[l] - at[n] \in Int
    <3>1. at[l] \in Nat /\ at[n] \in Nat
      BY <1>9
    <3> QED BY <3>1
  <2>2. Len(Stream) <= at[l] - at[n] /\ at[l] - at[n] <= Len(Stream)
    BY <1>1, <1>5, <1>6, <1>7 DEF Extent
  <2> QED BY <2>1, <2>2, <2>3
<1>11. /\ V \in Seq(1..Len(outbox)) /\ Len(V) = l + 1 /\ V[l + 1] = g /\ V # sent
       /\ \A i \in 1..l : V[i] = sent[i]
  <2>1. sent \in Seq(1..Len(outbox))
    BY <1>1 DEF ConnTypeOK
  <2>2. /\ V \in Seq(1..Len(outbox)) /\ Len(V) = l + 1 /\ V[l + 1] = g
        /\ \A i \in 1..l : V[i] = sent[i]
    BY <1>7, <1>8, <1>9, <2>1, AppendProperties
  <2> QED BY <2>2, <1>7, <1>9
<1>12. /\ \A i \in 0..l : bt[i] = at[i] /\ i \in 0..(l + 1)
       /\ bt[l + 1] = at[l] + m
       /\ bt \in [0..(l + 1) -> Nat]
  BY <1>8, <1>9
<1>13. Begun(V, bt)
  <2>1. \A i \in 1..(l + 1) : Fits(outbox[V[i]]) /\ bt[i] = bt[i - 1] + FrameLen(V[i])
    <3> TAKE i \in 1..(l + 1)
    <3>1. CASE i = l + 1
      <4>1. l \in 0..l /\ i - 1 = l
        BY <1>9, <3>1
      <4>2. Fits(outbox[g])
        BY <1>1, <1>7
      <4> QED BY <1>9, <1>11, <1>12, <3>1, <4>1, <4>2
    <3>2. CASE i \in 1..l
      <4>1. i \in 0..l /\ i - 1 \in 0..l
        BY <1>9, <3>2
      <4>2. Fits(outbox[sent[i]]) /\ at[i] = at[i - 1] + FrameLen(sent[i])
        BY <1>5, <1>6, <1>7, <3>2 DEF Begun
      <4> QED BY <1>11, <1>12, <3>2, <4>1, <4>2
    <3> QED BY <1>9, <3>1, <3>2
  <2>2. ASSUME NEW i \in 0..(l + 1), NEW j \in 0..(l + 1), i < j PROVE bt[i] < bt[j]
    <3>1. \A p, q \in 0..l : p < q => at[p] < at[q]
      BY <1>5, <1>6, <1>7 DEF Begun
    <3>2. i \in 0..l /\ l \in 0..l
      BY <1>9, <2>2
    <3>3. CASE j \in 0..l
      BY <1>12, <2>2, <3>1, <3>2, <3>3
    <3>4. CASE j = l + 1
      <4>1. at[i] <= at[l]
        <5>1. CASE i = l
          BY <1>9, <3>2, <5>1
        <5>2. CASE i < l
          BY <1>9, <3>1, <3>2, <5>2
        <5> QED BY <1>9, <3>2, <5>1, <5>2
      <4>2. at[i] \in Nat /\ at[l] \in Nat
        BY <1>9, <3>2
      <4> QED BY <1>9, <1>12, <3>2, <3>4, <4>1, <4>2
    <3> QED BY <1>9, <3>3, <3>4
  <2>3. \E f \in 1..Len(outbox) : V = Append(sent, f)
    BY <1>8, <1>9
  <2> QED BY <1>11, <1>12, <2>1, <2>2, <2>3 DEF Begun
<1>14. Laid(V, bt, n, Stream)
  <2> SUFFICES ASSUME NEW i \in (n + 1)..(l + 1), NEW k \in 1..FrameLen(V[i]),
                      bt[i - 1] - bt[n] + k <= Len(Stream)
               PROVE  Readable(Stream[bt[i - 1] - bt[n] + k], Written(V[i])[k])
    BY <1>11 DEF Laid
  <2>1. n \in 0..l /\ bt[n] = at[n] /\ at[n] \in Nat
    BY <1>9, <1>12
  <2>2. i = l + 1 \/ i \in (n + 1)..l
    BY <1>9
  <2>3. CASE i = l + 1
    <3>1. i - 1 = l /\ l \in 0..l
      BY <1>9, <2>3
    <3>2. bt[i - 1] = at[l] /\ at[l] \in Nat /\ k \in 1..m
      BY <1>9, <1>11, <1>12, <2>3, <3>1
    <3> QED BY <1>9, <1>10, <2>1, <3>2
  <2>4. CASE i \in (n + 1)..l
    <3>1. i - 1 \in 0..l /\ i \in 1..l
      BY <1>9, <2>4
    <3>2. bt[i - 1] = at[i - 1] /\ V[i] = sent[i]
      BY <1>11, <1>12, <3>1
    <3> QED BY <1>5, <1>6, <1>7, <2>1, <2>4, <3>2 DEF Laid
  <2> QED BY <2>2, <2>3, <2>4
<1>15. Extent(V, bt, n, Stream)'
  <2>1. n \in 0..l /\ bt[n] = at[n] /\ at[n] \in Nat /\ l \in 0..l /\ bt[l] = at[l] /\ at[l] \in Nat
    BY <1>9, <1>12
  <2>2. /\ Stream' = Stream /\ unsent' # <<>> /\ Len(unsent') = m /\ unsent' = Written(g)
        /\ Written(g)' = Written(g) /\ FrameLen(g)' = m /\ Len(sent)' = l
    <3>1. unsent' # <<>>
      BY <1>1, <1>2 DEF kHeaderSize
    <3> QED BY <1>1, <1>2, <1>7, <1>9, <3>1 DEF Stream, Written, FrameLen
  <2> DEFINE q == Len(Stream)
             b == bt[l + 1]
             c == bt[n]
             d == bt[l]
  <2>3. q < b - c /\ q <= b - c /\ q + m = b - c /\ d - c <= q
    <3>1. q \in Nat /\ b = at[l] + m /\ c = at[n] /\ d = at[l] /\ q = at[l] - at[n]
      BY <1>10, <1>12, <2>1
    <3> QED BY <3>1, <1>9, <2>1
  <2>4. g = next' - 1
    BY <1>1, <1>7, <1>9
  <2>5. \A k \in 1..Len(unsent') : m - Len(unsent') + k = k
    BY <1>9, <2>2
  <2>6. Len(V) = l + 1 /\ V[Len(V)] = g /\ V # sent' /\ link' = "up"
    BY <1>1, <1>11
  <2>7. Len(Stream') = q
    BY <2>2
  <2> HIDE DEF q, b, c, d
  <2>8. \A k \in 1..Len(unsent') : unsent'[k] = Written(g)'[FrameLen(g)' - Len(unsent') + k]
    BY <2>2, <2>5
  <2> QED BY <2>2, <2>3, <2>4, <2>6, <2>7, <2>8 DEF Extent, b, c, d
<1>16. Begun(V, bt)' /\ Laid(V, bt, n, Stream)'
  BY <1>1, <1>13, <1>14 DEF Stream, Begun, Laid, Fits, FrameLen, Written, Readable
<1>17. Len(received)' = n
  BY <1>1, <1>7
<1> QED BY <1>15, <1>16, <1>17 DEF StreamInv

(* Frames begun later end later. *)
LEMMA Rising ==
    ASSUME ConnTypeOK, ReceivedInv, NEW W, NEW at, Begun(W, at),
           NEW i \in 0..Len(W), NEW j \in 0..Len(W), i <= j
    PROVE  at[i] \in Nat /\ at[j] \in Nat /\ at[i] <= at[j]
<1>1. Len(W) \in Nat /\ at[i] \in Nat /\ at[j] \in Nat
  BY BegunShape
<1>2. i < j => at[i] < at[j]
  BY DEF Begun
<1>3. i = j \/ i < j
  BY <1>1
<1> QED BY <1>1, <1>2, <1>3

(* The cells of the frame being sent take their places in the stream. *)
LEMMA Extended ==
    ASSUME ConnTypeOK, ReceivedInv, NEW W, NEW at, Begun(W, at),
           Laid(W, at, Len(received), Stream), Extent(W, at, Len(received), Stream),
           NEW n \in Nat \ {0}, n <= Len(unsent), NEW t, NEW u, IsPiece(u, unsent, 1, n), IsJoin(t, Stream, u)
    PROVE  Laid(W, at, Len(received), t)
<1> DEFINE c == Len(received)
           q == Len(Stream)
           z == Len(W)
           f == W[z]
           m == FrameLen(f)
           r == Len(unsent)
<1>1. c \in Nat /\ q \in Nat /\ r \in Nat /\ z \in Nat /\ unsent # <<>> /\ Len(sent) \in Nat /\ c <= Len(sent)
  BY BegunShape, StreamShape DEF ConnTypeOK
<1>2. z = Len(sent) + 1 /\ z \in 1..Len(W) /\ Len(sent) \in 0..Len(W) /\ Len(sent) = z - 1 /\ c \in 0..Len(W)
  <2>1. W # sent
    BY <1>1 DEF Extent
  <2>2. z = Len(sent) + 1
    BY <2>1, BegunShape
  <2> QED BY <1>1, <2>2
<1>3. /\ m \in Nat /\ at[z] = at[z - 1] + m /\ \A i \in 0..Len(W) : at[i] \in Nat
      /\ \A i \in 1..Len(W) : FrameLen(W[i]) \in Nat
  BY <1>2, BegunShape DEF Begun
<1>4. /\ at[z - 1] - at[c] <= q /\ q + r = at[z] - at[c]
      /\ \A k \in 1..r : unsent[k] = Written(f)[m - r + k]
  BY <1>1, <1>2 DEF Extent
<1>5. /\ Len(t) = q + n /\ \A k \in 1..q : t[k] = Stream[k]
      /\ \A k \in 1..n : t[q + k] = unsent[k]
  <2>1. Len(u) = n /\ \A k \in 1..n : u[k] = unsent[k]
    <3>1. n - 1 + 1 = n /\ \A k \in 1..n : 1 + k - 1 = k
      OBVIOUS
    <3> QED BY <3>1 DEF IsPiece
  <2> QED BY <2>1 DEF IsJoin
<1> SUFFICES ASSUME NEW i \in (c + 1)..Len(W), NEW k \in 1..FrameLen(W[i]),
                    at[i - 1] - at[c] + k <= Len(t)
             PROVE  Readable(t[at[i - 1] - at[c] + k], Written(W[i])[k])
  BY DEF Laid
<1> DEFINE p == at[i - 1] - at[c] + k
<1>6. i \in 1..z /\ i - 1 \in 0..Len(W) /\ c <= i - 1 /\ i \in 0..Len(W)
  BY <1>1
<1>7. at[i - 1] \in Nat /\ at[c] \in Nat /\ at[c] <= at[i - 1]
  BY <1>2, <1>6, Rising
<1>8. k \in Nat \ {0} /\ k <= FrameLen(W[i]) /\ FrameLen(W[i]) \in Nat
  BY <1>3, <1>6
<1>9. CASE p <= q
  <2>1. p \in 1..q
    BY <1>1, <1>7, <1>8, <1>9, SMTT(30)
  <2> QED BY <1>5, <1>9, <2>1 DEF Laid
<1>10. CASE p > q
  <2>1. i = z
    <3> SUFFICES ASSUME i # z PROVE FALSE
      OBVIOUS
    <3>1. i <= z - 1 /\ z - 1 \in 0..Len(W)
      BY <1>1, <1>2, <1>6
    <3>2. at[i] \in Nat /\ at[z - 1] \in Nat /\ at[i] <= at[z - 1]
      BY <1>6, <3>1, Rising
    <3>3. at[i] = at[i - 1] + FrameLen(W[i])
      BY <1>6 DEF Begun
    <3> DEFINE a == at[i - 1]
               b == at[i]
               e == at[z - 1]
               h == at[c]
               v == FrameLen(W[i])
    <3>4. /\ a \in Nat /\ b \in Nat /\ e \in Nat /\ h \in Nat /\ v \in Nat /\ q \in Nat
          /\ b <= e /\ b = a + v /\ k <= v /\ k \in Nat /\ e - h <= q /\ a - h + k > q
      BY <1>1, <1>4, <1>7, <1>8, <1>10, <3>2, <3>3
    <3> HIDE DEF a, b, e, h, v, q
    <3> QED BY <3>4
  <2> DEFINE j == p - q
  <2>2. j \in 1..n /\ q + j = p /\ j \in 1..r
    <3>1. p \in Int /\ p <= q + n
      BY <1>5, <1>7, <1>8
    <3> QED BY <3>1, <1>1, <1>10, SMTT(30)
  <2>3. m - r + j = k
    <3> DEFINE a == at[z - 1]
               b == at[z]
               h == at[c]
    <3>1. /\ a \in Nat /\ b \in Nat /\ h \in Nat /\ q \in Nat /\ r \in Nat /\ m \in Nat /\ k \in Nat
          /\ p = a - h + k /\ b = a + m /\ q + r = b - h
      BY <1>1, <1>2, <1>3, <1>4, <1>7, <1>8, <2>1
    <3> HIDE DEF a, b, h, p, m, q, r
    <3> QED BY <3>1
  <2> HIDE DEF j, p, m, q, r, z, c
  <2>4. t[p] = Written(f)[k]
    BY <1>4, <1>5, <2>2, <2>3
  <2>5. t[p] = Written(W[i])[k]
    BY <2>1, <2>4
  <2> QED BY <2>5 DEF Readable, p, c
<1>11. p \in Int /\ q \in Int
  BY <1>1, <1>7, <1>8
<1> QED BY <1>9, <1>10, <1>11

(* What send takes goes on the stream, and the frame is sent with its last *)
(* cell.                                                                   *)
LEMMA SendTakes ==
    ASSUME ConnInv, NEW n \in 1..(kMaxFrame + 1), SendSome(n)
    PROVE  /\ ConnTypeOK' /\ ReceivedInv' /\ StreamInv'
           /\ sent' # sent => sent' = Append(sent, next - 1) /\ next - 1 \in DOMAIN outbox
<1>1. /\ ConnTypeOK /\ ReceivedInv /\ n \in Nat \ {0} /\ n <= Len(unsent) /\ Len(unsent) \in Nat
      /\ wire' = wire \o SubSeq(unsent, 1, n)
      /\ unsent' = SubSeq(unsent, n + 1, Len(unsent))
      /\ sent' = IF n = Len(unsent) THEN Append(sent, next - 1) ELSE sent
      /\ UNCHANGED <<outbox, next, link, damaged, rbuf, received, status>>
  BY LimitsAssumption DEF ConnInv, SendSome, receiver, ConnTypeOK
<1>2. /\ unsent \in Seq(AnyCell) /\ wire \in Seq(AnyCell) /\ rbuf \in Seq(AnyCell)
      /\ sent \in Seq(1..Len(outbox)) /\ Len(sent) \in Nat /\ Len(outbox) \in Nat
      /\ Len(wire) \in Nat /\ Len(rbuf) \in Nat
      /\ next \in 1..(Len(outbox) + 1) /\ next - 1 \in 1..Len(outbox) /\ DOMAIN outbox = 1..Len(outbox)
  <2>1. unsent # <<>>
    BY <1>1
  <2>2. next > 1 /\ next \in 1..(Len(outbox) + 1)
    BY <1>1, <2>1 DEF ConnTypeOK
  <2>3. /\ unsent \in Seq(AnyCell) /\ wire \in Seq(AnyCell) /\ rbuf \in Seq(AnyCell)
        /\ sent \in Seq(1..Len(outbox)) /\ outbox \in Seq(Nat \ {0})
    BY <1>1 DEF ConnTypeOK
  <2>4. /\ Len(sent) \in Nat /\ Len(outbox) \in Nat /\ Len(wire) \in Nat /\ Len(rbuf) \in Nat
        /\ DOMAIN outbox = 1..Len(outbox)
    BY <2>3, LenProperties
  <2> QED BY <2>2, <2>3, <2>4
<1>3. PICK c, r, u, v : /\ c = Len(received) /\ r = Len(unsent)
                        /\ u = SubSeq(unsent, 1, n) /\ v = SubSeq(unsent, n + 1, Len(unsent))
  OBVIOUS
<1>4. /\ u \in Seq(AnyCell) /\ v \in Seq(AnyCell) /\ IsPiece(u, unsent, 1, n)
      /\ Len(u) = n /\ Len(v) = r - n /\ \A k \in 1..(r - n) : v[k] = unsent[n + k]
  <2>1. u \in Seq(AnyCell) /\ IsPiece(u, unsent, 1, n)
    BY <1>1, <1>2, <1>3, Piece, SMTT(30)
  <2>2. v \in Seq(AnyCell) /\ IsPiece(v, unsent, n + 1, r)
    <3>1. n + 1 \in Nat \ {0} /\ r \in Nat /\ n + 1 <= r + 1 /\ r <= Len(unsent)
      BY <1>1, <1>3
    <3>2. v = SubSeq(unsent, n + 1, r)
      BY <1>3
    <3> QED BY <1>2, <3>1, <3>2, Piece
  <2>3. /\ n - 1 + 1 = n /\ r - (n + 1) + 1 = r - n
        /\ \A k \in 1..(r - n) : (n + 1) + k - 1 = n + k
    BY <1>1, <1>3
  <2> QED BY <2>1, <2>2, <2>3 DEF IsPiece
<1>5. wire' \in Seq(AnyCell) /\ IsJoin(wire', wire, u)
  BY <1>1, <1>2, <1>3, <1>4, Joined
<1>6. sent' \in Seq(1..Len(outbox)) /\ Len(sent) <= Len(sent') /\ \A i \in 1..Len(sent) : sent'[i] = sent[i]
  <2>1. CASE n = r
    <3>1. sent' = Append(sent, next - 1)
      BY <1>1, <1>3, <2>1
    <3>2. /\ sent' \in Seq(1..Len(outbox)) /\ Len(sent') = Len(sent) + 1
          /\ \A i \in 1..Len(sent) : sent'[i] = sent[i]
      BY <1>2, <3>1, AppendProperties
    <3> QED BY <1>2, <3>2
  <2>2. CASE n # r
    BY <1>1, <1>2, <1>3, <2>2
  <2> QED BY <2>1, <2>2
<1>7. ConnTypeOK'
  <2>1. unsent' \in Seq(AnyCell) /\ (unsent' # <<>> => next' > 1)
    BY <1>1, <1>2, <1>3, <1>4
  <2> QED BY <1>1, <1>2, <1>5, <1>6, <2>1 DEF ConnTypeOK
<1>8. ReceivedInv'
  <2>1. /\ received \in Seq(1..Len(outbox)) /\ Len(received) <= Len(sent) /\ Len(received) \in Nat
        /\ \A i \in 1..Len(received) : received[i] = sent[i]
    BY <1>1 DEF ReceivedInv
  <2>2. Len(sent') \in Nat
    BY <1>6
  <2>3. Len(received) <= Len(sent') /\ \A i \in 1..Len(received) : received[i] = sent'[i]
    BY <1>2, <1>6, <2>1, <2>2
  <2> QED BY <1>1, <2>1, <2>3 DEF ReceivedInv
<1>9. ASSUME status = "open" PROVE StreamInv'
  <2>1. PICK W, at : Begun(W, at) /\ Laid(W, at, Len(received), Stream)
                     /\ Extent(W, at, Len(received), Stream)
    BY <1>9 DEF ConnInv, StreamInv
  <2>2. IsJoin(Stream', Stream, u)
    <3>1. Stream' = rbuf \o (wire \o u) /\ Stream = rbuf \o wire
      BY <1>1, <1>3 DEF Stream
    <3>2. (rbuf \o wire) \o u = rbuf \o (wire \o u)
      <4>1. rbuf \in Seq(AnyCell) /\ wire \in Seq(AnyCell) /\ u \in Seq(AnyCell)
        BY <1>2, <1>4
      <4> HIDE DEF AnyCell
      <4> QED BY <4>1, ConcatAssociative
    <3>3. rbuf \o wire \in Seq(AnyCell)
      BY <1>2
    <3>4. IsJoin((rbuf \o wire) \o u, rbuf \o wire, u)
      BY <1>4, <3>3, Joined
    <3> QED BY <3>1, <3>2, <3>4
  <2>3. Laid(W, at, c, Stream')
    <3> DEFINE t == Stream'
    <3>1. IsJoin(t, Stream, u)
      BY <2>2
    <3> HIDE DEF t
    <3>2. Laid(W, at, Len(received), t)
      BY <1>1, <1>4, <2>1, <3>1, Extended
    <3> QED BY <1>3, <3>2 DEF t
  <2>4. /\ link = "up" /\ W # sent /\ W[Len(W)] = next - 1
        /\ Len(Stream) + r = at[Len(W)] - at[c]
        /\ \A k \in 1..r : unsent[k] = Written(W[Len(W)])[FrameLen(W[Len(W)]) - r + k]
        /\ at[Len(sent)] - at[c] <= Len(Stream)
    <3>1. unsent # <<>>
      BY <1>1
    <3>2. link # "reset"
      BY <2>1, <3>1 DEF Extent
    <3> QED BY <1>3, <2>1, <3>1, <3>2 DEF Extent
  <2>5. PICK f \in 1..Len(outbox) : W = Append(sent, f)
    BY <2>1, <2>4 DEF Begun
  <2>6. f = next - 1 /\ Len(W) \in Nat
    <3>1. Len(W) = Len(sent) + 1 /\ W[Len(sent) + 1] = f /\ Len(W) \in Nat
      BY <1>2, <2>5, AppendProperties
    <3> QED BY <2>4, <3>1
  <2>7. Begun(W, at)'
    <3>1. (W = sent \/ \E g \in 1..Len(outbox) : W = Append(sent, g))'
      BY <1>1, <2>5, <2>6
    <3> QED BY <1>1, <2>1, <3>1 DEF Begun, Fits, FrameLen
  <2>8. Laid(W, at, c, Stream)'
    BY <1>1, <2>3 DEF Laid, FrameLen, Written, Readable
  <2>9. Extent(W, at, c, Stream)'
    <3> DEFINE q == Len(Stream)
               whole == at[Len(W)] - at[c]
               m == FrameLen(W[Len(W)])
    <3>1. Len(Stream') = q + n /\ q \in Nat
      BY <1>4, <2>2 DEF IsJoin
    <3>2. /\ whole = q + r /\ r \in Nat /\ n <= r
          /\ at[Len(sent)] - at[c] \in Int /\ at[Len(sent)] - at[c] <= q
          /\ m \in Nat
      <4>1. c \in 0..Len(W) /\ Len(sent) \in 0..Len(W) /\ Len(W) \in 1..Len(W)
        <5>1. /\ Len(sent) \in Nat /\ c \in Nat /\ c <= Len(sent) /\ Len(W) = Len(sent) + 1
          BY <1>1, <1>3, <2>1, <2>4, BegunShape
        <5> QED BY <5>1
      <4>2. at[c] \in Nat /\ at[Len(sent)] \in Nat /\ m \in Nat
        BY <1>1, <2>1, <4>1, BegunShape
      <4>3. whole = q + r /\ at[Len(sent)] - at[c] <= q
        BY <2>4
      <4> QED BY <1>1, <1>3, <4>2, <4>3, SMTT(30)
    <3> HIDE DEF q, whole, m
    <3>3. CASE n = r
      <4>1. sent' = W /\ unsent' = <<>>
        <5>1. unsent' \in Seq(AnyCell) /\ Len(unsent') = 0
          BY <1>1, <1>3, <1>4, <3>2, <3>3
        <5> QED BY <1>1, <1>3, <2>5, <2>6, <3>3, <5>1
      <4>2. q + n <= whole /\ whole <= q + n
        BY <3>1, <3>2, <3>3
      <4> QED BY <3>1, <4>1, <4>2 DEF Extent, whole
    <3>4. CASE n # r
      <4>1. sent' = sent /\ unsent' = v /\ unsent' # <<>> /\ Len(unsent') = r - n
        <5>1. Len(v) # 0
          BY <1>4, <3>2, <3>4
        <5> QED BY <1>1, <1>3, <1>4, <3>4, <5>1
      <4>2. /\ q + n <= whole /\ q + n < whole /\ at[Len(sent)] - at[c] <= q + n
            /\ (q + n) + (r - n) = whole
        BY <3>1, <3>2, <3>4, <1>1
      <4>3. \A k \in 1..(r - n) : v[k] = Written(W[Len(W)])[m - (r - n) + k]
        <5> TAKE k \in 1..(r - n)
        <5>1. n + k \in 1..r /\ m - r + (n + k) = m - (r - n) + k
          BY <3>2, <1>1
        <5> QED BY <1>4, <2>4, <5>1 DEF m
      <4>4. /\ Written(W[Len(W)])' = Written(W[Len(W)]) /\ FrameLen(W[Len(W)])' = m
            /\ link' = link /\ next' = next /\ Len(sent') = Len(sent)
        BY <1>1, <4>1 DEF Written, FrameLen, m
      <4>5. \A k \in 1..Len(unsent') :
               unsent'[k] = Written(W[Len(W)])'[FrameLen(W[Len(W)])' - Len(unsent') + k]
        BY <4>1, <4>3, <4>4
      <4>6. W # sent' /\ W[Len(W)] = next' - 1 /\ link' = "up"
        BY <2>4, <4>1, <4>4
      <4>7. /\ Len(Stream') <= whole /\ Len(Stream') < whole /\ Len(Stream') + Len(unsent') = whole
            /\ at[Len(sent')] - at[c] <= Len(Stream')
        BY <3>1, <4>1, <4>2
      <4> QED BY <4>1, <4>5, <4>6, <4>7 DEF Extent, whole
    <3> QED BY <3>3, <3>4
  <2>10. Len(received)' = c
    BY <1>1, <1>3
  <2> QED BY <2>7, <2>8, <2>9, <2>10 DEF StreamInv
<1>10. StreamInv'
  BY <1>1, <1>9 DEF StreamInv
<1>11. sent' # sent => sent' = Append(sent, next - 1) /\ next - 1 \in DOMAIN outbox
  <2>1. sent' = Append(sent, next - 1) \/ sent' = sent
    BY <1>1
  <2> QED BY <1>2, <2>1
<1> QED BY <1>7, <1>8, <1>10, <1>11

(* A step of the sender that puts nothing on the stream. *)
LEMMA SenderIdles ==
    ASSUME ConnInv, EncodeFails \/ SendFails \/ Shutdown
    PROVE  ConnTypeOK' /\ StreamInv'
<1>1. /\ ConnTypeOK
      /\ unsent' = <<>> /\ next' \in 1..(Len(outbox) + 1)
      /\ link' \in {"up", "fin", "reset"}
      /\ UNCHANGED <<outbox, sent, wire, damaged, rbuf, received, status>>
  <2>1. ConnTypeOK /\ Len(outbox) \in Nat
    BY DEF ConnInv, ConnTypeOK
  <2> QED BY <2>1 DEF EncodeFails, SendFails, Shutdown, receiver, ConnTypeOK
<1>2. ConnTypeOK'
  BY <1>1 DEF ConnTypeOK
<1>3. ASSUME status = "open" PROVE StreamInv'
  <2>1. PICK W, at : Begun(W, at) /\ Laid(W, at, Len(received), Stream)
                     /\ Extent(W, at, Len(received), Stream)
    BY <1>3 DEF ConnInv, StreamInv
  <2>2. Stream' = Stream
    BY <1>1 DEF Stream
  <2>3. Begun(W, at)' /\ Laid(W, at, Len(received), Stream)'
    BY <1>1, <2>1, <2>2, LaidKept
  <2>4. /\ link = "up" /\ (link' = "up" => unsent = <<>>)
    BY <1>3 DEF EncodeFails, SendFails, Shutdown
  <2>5. Extent(W, at, Len(received), Stream)'
    BY <1>1, <2>1, <2>2, <2>4 DEF Extent
  <2> QED BY <2>3, <2>5 DEF StreamInv
<1> QED BY <1>1, <1>2, <1>3 DEF StreamInv

(* What is lost with a broken connection is the end of the stream. *)
LEMMA ResetCuts ==
    ASSUME ConnInv, Reset
    PROVE  ConnTypeOK' /\ StreamInv'
<1>1. /\ ConnTypeOK /\ ReceivedInv
      /\ unsent' = <<>> /\ next' \in 1..(Len(outbox) + 1) /\ link' = "reset" /\ wire' = <<>>
      /\ UNCHANGED <<outbox, sent, damaged, rbuf, received, status>>
  <2>1. ConnTypeOK /\ ReceivedInv /\ Len(outbox) \in Nat
    BY DEF ConnInv, ConnTypeOK
  <2> QED BY <2>1 DEF Reset, receiver
<1>2. ConnTypeOK'
  BY <1>1 DEF ConnTypeOK
<1>3. ASSUME status = "open" PROVE StreamInv'
  <2>1. PICK W, at : Begun(W, at) /\ Laid(W, at, Len(received), Stream)
                     /\ Extent(W, at, Len(received), Stream)
    BY <1>3 DEF ConnInv, StreamInv
  <2>2. Stream' = rbuf
    BY <1>1 DEF Stream, ConnTypeOK
  <2>3. /\ Len(Stream) = Len(rbuf) + Len(wire) /\ Len(rbuf) \in Nat /\ Len(wire) \in Nat
        /\ \A k \in 1..Len(rbuf) : Stream[k] = rbuf[k]
    BY <1>1, StreamShape
  <2>4. Begun(W, at)'
    BY <1>1, <2>1 DEF Begun, Fits, FrameLen
  <2>5. Laid(W, at, Len(received), rbuf)
    <3> SUFFICES ASSUME NEW i \in (Len(received) + 1)..Len(W), NEW k \in 1..FrameLen(W[i]),
                        at[i - 1] - at[Len(received)] + k <= Len(rbuf)
                 PROVE  Readable(rbuf[at[i - 1] - at[Len(received)] + k], Written(W[i])[k])
      BY DEF Laid
    <3> DEFINE p == at[i - 1] - at[Len(received)] + k
    <3>1. Len(W) \in Nat /\ Len(received) \in Nat /\ Len(received) <= Len(W)
      BY <1>1, <2>1, BegunShape
    <3>2. i - 1 \in 0..Len(W) /\ Len(received) \in 0..Len(W) /\ Len(received) <= i - 1 /\ i \in 1..Len(W)
      BY <3>1
    <3>3. /\ at[i - 1] \in Nat /\ at[Len(received)] \in Nat /\ at[Len(received)] <= at[i - 1]
      BY <1>1, <2>1, <3>2, Rising
    <3>4. FrameLen(W[i]) \in Nat
      BY <1>1, <2>1, <3>2, BegunShape
    <3>5. p \in 1..Len(rbuf) /\ p <= Len(Stream)
      BY <2>3, <3>3, <3>4, SMTT(30)
    <3>6. Readable(Stream[p], Written(W[i])[k])
      BY <2>1, <3>5 DEF Laid
    <3> QED BY <2>3, <3>5, <3>6
  <2>6. Laid(W, at, Len(received), Stream)'
    BY <1>1, <2>2, <2>5 DEF Laid, FrameLen, Written, Readable
  <2>7. /\ Len(rbuf) <= at[Len(W)] - at[Len(received)]
        /\ W # sent => Len(rbuf) < at[Len(W)] - at[Len(received)]
    <3> DEFINE a == at[Len(W)]
               b == at[Len(received)]
    <3>1. a \in Nat /\ b \in Nat
      BY <1>1, <2>1, BegunShape
    <3>2. Len(Stream) <= a - b /\ (W # sent => Len(Stream) < a - b)
      BY <2>1 DEF Extent
    <3> QED BY <2>3, <3>1, <3>2
  <2>8. Extent(W, at, Len(received), Stream)'
    BY <1>1, <2>2, <2>7 DEF Extent
  <2> QED BY <2>4, <2>6, <2>8 DEF StreamInv
<1> QED BY <1>1, <1>2, <1>3 DEF StreamInv

(* What a damaged cell may have become. *)
LEMMA WrongCell ==
    ASSUME NEW c \in AnyCell, NEW v \in OtherValues(c)
    PROVE  /\ [c EXCEPT !.val = v] \in AnyCell
           /\ [c EXCEPT !.val = v].kind = c.kind /\ [c EXCEPT !.val = v].val \in Wrong(c.kind)
<1>1. CASE c \in [kind : {"version"}, val : Nat]
  <2>1. c.kind = "version" /\ v = 2
    BY <1>1 DEF OtherValues, kFrameVersion
  <2> QED BY <1>1, <2>1 DEF AnyCell, Wrong, kFrameVersion
<1>2. CASE c \in [kind : {"length"}, val : Nat]
  <2>1. c.kind = "length" /\ v \in Nat
    BY <1>2, LimitsAssumption DEF OtherValues
  <2> QED BY <1>2, <2>1 DEF AnyCell, Wrong
<1>3. CASE c \in [kind : {"crc"}, val : Seq(DataCell)]
  <2>1. c.kind = "crc" /\ v = <<>>
    BY <1>3 DEF OtherValues
  <2>2. v \in Seq(DataCell)
    BY <2>1
  <2> HIDE DEF DataCell
  <2>3. [c EXCEPT !.val = v] \in [kind : {"crc"}, val : Seq(DataCell)]
    BY <1>3, <2>2
  <2> QED BY <1>3, <2>1, <2>3 DEF AnyCell, Wrong
<1>4. CASE c \in DataCell
  <2>1. c.kind = "data" /\ v = 0
    BY <1>4 DEF OtherValues, DataCell
  <2> QED BY <1>4, <2>1 DEF AnyCell, Wrong, DataCell
<1> QED BY <1>1, <1>2, <1>3, <1>4 DEF AnyCell

Spoiled(d, c) == d.kind = c.kind /\ d.val \in Wrong(c.kind)

(* Every cell of a damaged stream is what has become of the one written. *)
LEMMA DamageReads ==
    ASSUME ConnInv, Damage
    PROVE  ConnTypeOK' /\ StreamInv'
<1>1. /\ ConnTypeOK /\ ~damaged /\ damaged'
      /\ UNCHANGED <<outbox, next, unsent, sent, link, rbuf, received, status>>
  BY DEF ConnInv, Damage, sender, receiver
<1>0. PICK i \in 1..Len(wire) : \E v \in OtherValues(wire[i]) : wire' = [wire EXCEPT ![i].val = v]
  BY DEF Damage
<1>2. PICK v \in OtherValues(wire[i]) : wire' = [wire EXCEPT ![i].val = v]
  BY <1>0
<1>3. PICK c : c = [wire[i] EXCEPT !.val = v]
  OBVIOUS
<1>4. wire \in Seq(AnyCell) /\ Len(wire) \in Nat /\ rbuf \in Seq(AnyCell) /\ wire[i] \in AnyCell
  BY <1>1 DEF ConnTypeOK
<1>5. c \in AnyCell /\ c.kind = wire[i].kind /\ c.val \in Wrong(wire[i].kind)
  BY <1>3, <1>4, WrongCell
<1>6. wire' = [wire EXCEPT ![i] = c]
  BY <1>2, <1>3
<1>7. /\ wire' \in Seq(AnyCell) /\ Len(wire') = Len(wire)
      /\ wire'[i] = c /\ \A k \in 1..Len(wire) : k # i => wire'[k] = wire[k]
  BY <1>4, <1>5, <1>6, ExceptSeq
<1>8. ConnTypeOK'
  BY <1>1, <1>7 DEF ConnTypeOK
<1>9. /\ Len(Stream') = Len(Stream) /\ Len(Stream) \in Nat
      /\ \A p \in 1..Len(Stream) : Stream'[p] = Stream[p] \/ Spoiled(Stream'[p], Stream[p])
  <2>1. Stream' = rbuf \o wire' /\ Stream = rbuf \o wire
    BY <1>1 DEF Stream
  <2>2. IsJoin(Stream', rbuf, wire') /\ IsJoin(Stream, rbuf, wire)
    BY <1>4, <1>7, <2>1, Joined
  <2>3. /\ Len(rbuf) \in Nat /\ Len(Stream) = Len(rbuf) + Len(wire) /\ Len(Stream') = Len(rbuf) + Len(wire)
        /\ \A k \in 1..Len(rbuf) : Stream[k] = rbuf[k] /\ Stream'[k] = rbuf[k]
        /\ \A k \in 1..Len(wire) : Stream[Len(rbuf) + k] = wire[k] /\ Stream'[Len(rbuf) + k] = wire'[k]
    BY <1>7, <2>2 DEF IsJoin
  <2>4. ASSUME NEW p \in 1..Len(Stream)
        PROVE  Stream'[p] = Stream[p] \/ Spoiled(Stream'[p], Stream[p])
    <3>1. CASE p \in 1..Len(rbuf)
      BY <2>3, <3>1
    <3>2. CASE p > Len(rbuf)
      <4> DEFINE k == p - Len(rbuf)
      <4>1. k \in 1..Len(wire) /\ Len(rbuf) + k = p
        BY <1>4, <2>3, <3>2
      <4> HIDE DEF k
      <4>2. Stream[p] = wire[k] /\ Stream'[p] = wire'[k]
        BY <2>3, <4>1
      <4> QED BY <1>5, <1>7, <4>1, <4>2 DEF Spoiled
    <3> QED BY <1>4, <2>3, <3>1, <3>2
  <2> QED BY <1>4, <2>3, <2>4
<1>10. ASSUME status = "open" PROVE StreamInv'
  <2>1. PICK W, at : Begun(W, at) /\ Laid(W, at, Len(received), Stream)
                     /\ Extent(W, at, Len(received), Stream)
    BY <1>10 DEF ConnInv, StreamInv
  <2>2. Begun(W, at)'
    BY <1>1, <2>1 DEF Begun, Fits, FrameLen
  <2>3. ConnTypeOK /\ ReceivedInv
    BY DEF ConnInv
  <2>4. Laid(W, at, Len(received), Stream)'
    <3> PICK n : n = Len(received)
      OBVIOUS
    <3>1. ASSUME NEW j \in (n + 1)..Len(W), NEW k \in 1..FrameLen(W[j]),
                 at[j - 1] - at[n] + k <= Len(Stream)
          PROVE  Readable(Stream[at[j - 1] - at[n] + k], Written(W[j])[k])'
      <4> PICK p : p = at[j - 1] - at[n] + k
        OBVIOUS
      <4>1. Len(W) \in Nat /\ n \in Nat /\ n <= Len(W)
        BY <2>1, <2>3, BegunShape
      <4>2. j - 1 \in 0..Len(W) /\ n \in 0..Len(W) /\ n <= j - 1 /\ j \in 1..Len(W)
        BY <4>1
      <4>3. at[j - 1] \in Nat /\ at[n] \in Nat /\ at[n] <= at[j - 1] /\ FrameLen(W[j]) \in Nat
        BY <2>1, <2>3, <4>2, Rising, BegunShape
      <4>4. p \in 1..Len(Stream)
        BY <1>9, <3>1, <4>3, SMTT(30)
      <4>5. Readable(Stream[p], Written(W[j])[k])
        BY <2>1, <3>1 DEF Laid
      <4>6. Stream[p].kind = Written(W[j])[k].kind /\ Stream[p].val = Written(W[j])[k].val
        BY <1>1, <4>5 DEF Readable
      <4>7. Written(W[j])[k]' = Written(W[j])[k]
        BY <1>1 DEF Written
      <4>8. /\ Stream'[p].kind = Written(W[j])[k].kind
            /\ Stream'[p].val = Written(W[j])[k].val \/ Stream'[p].val \in Wrong(Written(W[j])[k].kind)
        BY <1>9, <4>4, <4>6 DEF Spoiled
      <4> QED BY <1>1, <4>7, <4>8 DEF Readable
    <3> QED BY <1>1, <1>9, <3>1 DEF Laid, FrameLen
  <2>5. Extent(W, at, Len(received), Stream)'
    BY <1>1, <1>9, <2>1 DEF Extent, Written, FrameLen
  <2> QED BY <2>2, <2>4, <2>5 DEF StreamInv
<1> QED BY <1>1, <1>8, <1>10 DEF StreamInv

(***************************************************************************)
(* The receiver.                                                           *)
(***************************************************************************)
(* A read that does not refuse leaves the stream as it was. *)
LEMMA RecvKeeps ==
    ASSUME ConnInv, NEW n \in 1..chunk, RecvSome(n)
    PROVE  ConnTypeOK' /\ StreamInv'
<1>1. ConnTypeOK /\ status = "open" /\ UNCHANGED <<outbox, next, unsent, sent, link, damaged, received>>
  BY DEF ConnInv, RecvSome, Decodes, sender
<1>2. Stream' = Stream /\ rbuf' \in Seq(AnyCell) /\ wire' \in Seq(AnyCell)
  BY <1>1, RecvMoves
<1>3. status' \in {"open", "failed"}
  BY DEF RecvSome
<1>4. ConnTypeOK'
  BY <1>1, <1>2, <1>3 DEF ConnTypeOK
<1>5. PICK W, at : Begun(W, at) /\ Laid(W, at, Len(received), Stream)
                   /\ Extent(W, at, Len(received), Stream)
  BY <1>1 DEF ConnInv, StreamInv
<1>6. Begun(W, at)' /\ Laid(W, at, Len(received), Stream)'
  BY <1>1, <1>2, <1>5, LaidKept
<1>7. Extent(W, at, Len(received), Stream)'
  BY <1>1, <1>2, <1>5 DEF Extent, Written, FrameLen
<1> QED BY <1>4, <1>6, <1>7 DEF StreamInv

(* At an orderly end with nothing left to decode the receiver has all that *)
(* was sent.                                                               *)
LEMMA EndHasAll ==
    ASSUME ConnInv, RecvEnd, status' = "closed"
    PROVE  received = sent
<1>1. /\ ConnTypeOK /\ ReceivedInv /\ status = "open" /\ rbuf = <<>> /\ wire = <<>> /\ link # "reset"
  BY DEF ConnInv, RecvEnd, Decodes
<1>2. PICK W, at : Begun(W, at) /\ Laid(W, at, Len(received), Stream)
                   /\ Extent(W, at, Len(received), Stream)
  BY <1>1 DEF ConnInv, StreamInv
<1>3. Len(Stream) = 0
  <2>1. Len(Stream) = Len(rbuf) + Len(wire)
    BY <1>1, StreamShape
  <2> QED BY <1>1, <2>1
<1>4. /\ Len(received) \in Nat /\ Len(sent) \in Nat /\ Len(received) <= Len(sent)
      /\ Len(received) \in 0..Len(W) /\ Len(sent) \in 0..Len(W)
  <2>1. /\ Len(received) \in Nat /\ Len(sent) \in Nat /\ Len(received) <= Len(sent)
        /\ Len(W) \in Nat /\ Len(sent) <= Len(W)
    BY <1>1, <1>2, BegunShape
  <2> QED BY <2>1
<1>5. at[Len(received)] \in Nat /\ at[Len(sent)] \in Nat
  BY <1>1, <1>2, <1>4, BegunShape
<1>6. at[Len(sent)] - at[Len(received)] <= 0
  BY <1>1, <1>2, <1>3 DEF Extent
<1>7. Len(received) < Len(sent) => at[Len(received)] < at[Len(sent)]
  BY <1>2, <1>4 DEF Begun
<1>8. Len(received) = Len(sent)
  BY <1>4, <1>5, <1>6, <1>7
<1>9. /\ received \in Seq(1..Len(outbox)) /\ sent \in Seq(1..Len(outbox))
      /\ \A i \in 1..Len(received) : received[i] = sent[i]
  BY <1>1 DEF ConnTypeOK, ReceivedInv
<1> QED BY <1>8, <1>9, SeqEqual

(***************************************************************************)
(* The theorems.                                                           *)
(***************************************************************************)
(* Every step of the connection keeps the invariant. *)
LEMMA ConnStep ==
    ASSUME ConnInv, [ConnNext]_connVars
    PROVE  ConnInv'
<1>1. ConnTypeOK /\ ReceivedInv /\ StreamInv /\ RefusedOnlyNearLimit
  BY DEF ConnInv
<1> USE <1>1
<1>2. ASSUME UNCHANGED <<outbox, sent, received>> PROVE ReceivedInv'
  BY <1>2 DEF ReceivedInv
<1>3. ASSUME UNCHANGED <<status, damaged, rbuf>>, link' = "up" => link = "up"
      PROVE  RefusedOnlyNearLimit'
  BY <1>3 DEF RefusedOnlyNearLimit, NearLimit, FrameSize, LengthOf
<1>4. CASE send_frame
  <2>1. ConnTypeOK' /\ StreamInv'
    BY <1>4, SendBegins
  <2> QED BY <1>2, <1>3, <1>4, <2>1 DEF ConnInv, send_frame, receiver
<1>5. CASE EncodeFails \/ SendFails \/ Shutdown
  <2>1. ConnTypeOK' /\ StreamInv'
    BY <1>5, SenderIdles
  <2>2. UNCHANGED <<outbox, sent, received, status, damaged, rbuf>> /\ (link' = "up" => link = "up")
    BY <1>5 DEF EncodeFails, SendFails, Shutdown, receiver
  <2> QED BY <1>2, <1>3, <2>1, <2>2 DEF ConnInv
<1>6. CASE \E n \in 1..(kMaxFrame + 1) : SendSome(n)
  <2>1. PICK n \in 1..(kMaxFrame + 1) : SendSome(n)
    BY <1>6
  <2>2. ConnTypeOK' /\ ReceivedInv' /\ StreamInv'
    BY <2>1, SendTakes
  <2>3. UNCHANGED <<status, damaged, rbuf, link>>
    BY <2>1 DEF SendSome, receiver
  <2> QED BY <1>3, <2>2, <2>3 DEF ConnInv
<1>7. CASE Reset
  <2>1. ConnTypeOK' /\ StreamInv'
    BY <1>7, ResetCuts
  <2>2. UNCHANGED <<outbox, sent, received, status, damaged, rbuf>> /\ link' # "up"
    BY <1>7 DEF Reset, receiver
  <2> QED BY <1>2, <1>3, <2>1, <2>2 DEF ConnInv
<1>8. CASE Damage
  <2>1. ConnTypeOK' /\ StreamInv'
    BY <1>8, DamageReads
  <2>2. UNCHANGED <<outbox, sent, received>> /\ damaged'
    BY <1>8 DEF Damage, sender, receiver
  <2>3. RefusedOnlyNearLimit'
    BY <2>2 DEF RefusedOnlyNearLimit
  <2> QED BY <1>2, <2>1, <2>2, <2>3 DEF ConnInv
<1>9. CASE ReturnFrame
  <2>1. ReceivedInv' /\ StreamInv' /\ rbuf' \in Seq(AnyCell)
    BY <1>9, ReturnNext
  <2>2. status = "open" /\ UNCHANGED <<outbox, next, unsent, sent, link, wire, damaged, status>>
    BY <1>9 DEF ReturnFrame, Decodes, sender
  <2>3. ConnTypeOK'
    BY <2>1, <2>2 DEF ConnTypeOK
  <2>4. RefusedOnlyNearLimit'
    BY <2>2 DEF RefusedOnlyNearLimit
  <2> QED BY <2>1, <2>3, <2>4 DEF ConnInv
<1>10. CASE RefuseCorrupt
  <2>1. /\ status = "open" /\ try_decode(rbuf) = "Corrupt" /\ status' = "failed"
        /\ UNCHANGED <<outbox, next, unsent, sent, link, wire, damaged, rbuf, received>>
    BY <1>10 DEF RefuseCorrupt, Decodes, sender
  <2>2. damaged
    BY <2>1, IntactDecodes
  <2>3. ConnTypeOK' /\ StreamInv' /\ RefusedOnlyNearLimit'
    BY <2>1, <2>2 DEF ConnTypeOK, StreamInv, RefusedOnlyNearLimit
  <2> QED BY <1>2, <2>1, <2>3 DEF ConnInv
<1>11. CASE RecvEnd \/ RecvError
  <2>1. /\ status' \in {"closed", "failed"} /\ link # "up"
        /\ UNCHANGED <<outbox, next, unsent, sent, link, wire, damaged, rbuf, received>>
    BY <1>11 DEF RecvEnd, RecvError, sender
  <2>2. ConnTypeOK' /\ StreamInv' /\ RefusedOnlyNearLimit'
    BY <2>1 DEF ConnTypeOK, StreamInv, RefusedOnlyNearLimit
  <2> QED BY <1>2, <2>1, <2>2 DEF ConnInv
<1>12. CASE \E n \in 1..chunk : RecvSome(n)
  <2>1. PICK n \in 1..chunk : RecvSome(n)
    BY <1>12
  <2>2. ConnTypeOK' /\ StreamInv'
    BY <2>1, RecvKeeps
  <2>3. RefusedOnlyNearLimit'
    BY <2>1, RecvRefuses
  <2>4. UNCHANGED <<outbox, sent, received>>
    BY <2>1 DEF RecvSome, sender
  <2> QED BY <1>2, <2>2, <2>3, <2>4 DEF ConnInv
<1>13. CASE UNCHANGED connVars
  <2>1. ConnTypeOK' /\ StreamInv' /\ RefusedOnlyNearLimit'
    <3>1. ASSUME status = "open" PROVE StreamInv'
      <4>1. PICK W, at : Begun(W, at) /\ Laid(W, at, Len(received), Stream)
                         /\ Extent(W, at, Len(received), Stream)
        BY <3>1 DEF StreamInv
      <4>2. Stream' = Stream
        BY <1>13 DEF connVars, Stream
      <4>3. Begun(W, at)' /\ Laid(W, at, Len(received), Stream)'
        BY <1>13, <4>1, <4>2, LaidKept DEF connVars
      <4>4. Extent(W, at, Len(received), Stream)'
        BY <1>13, <4>1, <4>2 DEF connVars, Extent, Written, FrameLen
      <4> QED BY <4>3, <4>4 DEF StreamInv
    <3>2. StreamInv'
      BY <1>13, <3>1 DEF connVars, StreamInv
    <3> QED BY <1>3, <1>13, <3>2 DEF connVars, ConnTypeOK
  <2> QED BY <1>2, <1>13, <2>1 DEF ConnInv, connVars
<1> QED BY <1>4, <1>5, <1>6, <1>7, <1>8, <1>9, <1>10, <1>11, <1>12, <1>13
        DEF ConnNext, Sender, recv_frame

LEMMA ConnStart == ConnInit => ConnInv
<1> SUFFICES ASSUME ConnInit PROVE ConnInv
  OBVIOUS
<1>1. outbox \in Seq(Nat \ {0}) /\ Len(outbox) \in Nat
  BY OutboxesAssumption DEF ConnInit
<1>2. ConnTypeOK
  <2>1. <<>> \in Seq(AnyCell) /\ <<>> \in Seq(1..Len(outbox)) /\ 1 \in 1..(Len(outbox) + 1)
    BY <1>1
  <2> QED BY <1>1, <2>1, Zenon DEF ConnInit, ConnTypeOK
<1>3. ReceivedInv
  BY DEF ConnInit, ReceivedInv
<1>4. StreamInv
  <2>1. PICK W, at : W = <<>> /\ at = [i \in 0..0 |-> 0]
    OBVIOUS
  <2>2. at[0] = 0 /\ at \in [0..0 -> Nat] /\ Len(W) = 0
    BY <2>1
  <2>3. Begun(W, at)
    BY <2>1, <2>2 DEF Begun, ConnInit
  <2>4. Stream = <<>>
    BY DEF Stream, ConnInit
  <2>5. Laid(W, at, 0, Stream) /\ Extent(W, at, 0, Stream)
    BY <2>1, <2>2, <2>4 DEF Laid, Extent, ConnInit
  <2>6. Len(received) = 0
    BY DEF ConnInit
  <2> QED BY <2>3, <2>5, <2>6 DEF StreamInv
<1>5. RefusedOnlyNearLimit
  BY DEF ConnInit, RefusedOnlyNearLimit
<1> QED BY <1>2, <1>3, <1>4, <1>5 DEF ConnInv

(* The stream is at every time what has become of the frames sent that are *)
(* not received, and of the start of one more.                             *)
THEOREM ConnInvariant == ConnSpec => []ConnInv
<1>1. ConnInit => ConnInv
  BY ConnStart
<1>2. ConnInv /\ [ConnNext]_connVars => ConnInv'
  BY ConnStep
<1> QED BY <1>1, <1>2, PTL DEF ConnSpec

(* An intact stream is refused only over a frame so close to the limit     *)
(* that one more recv can overrun the guard on the receive buffer.         *)
THEOREM RefusedAlwaysNearLimit == ConnSpec => []RefusedOnlyNearLimit
<1>1. ConnInv => RefusedOnlyNearLimit
  BY DEF ConnInv
<1> QED BY <1>1, ConnInvariant, PTL

(* A step of the connection is one of the queue, or none: send puts a      *)
(* frame in with its last cell, recv_frame takes the next one out.         *)
LEMMA ConnStepQueues ==
    ASSUME ConnInv, [ConnNext]_connVars
    PROVE  [Q!Next]_Q!queueVars
<1>1. ConnTypeOK
  BY DEF ConnInv
<1>2. ASSUME UNCHANGED <<sent, received, status>> PROVE [Q!Next]_Q!queueVars
  BY <1>2 DEF Q!queueVars
<1>3. ASSUME UNCHANGED <<sent, received>>, status = "open", status' \in {"open", "failed"}
      PROVE  [Q!Next]_Q!queueVars
  BY <1>3 DEF Q!queueVars, Q!Next, Q!Fail
<1>4. CASE send_frame \/ EncodeFails \/ SendFails \/ Shutdown \/ Reset \/ Damage
  <2>1. UNCHANGED <<sent, received, status>>
    BY <1>4 DEF send_frame, EncodeFails, SendFails, Shutdown, Reset, Damage, sender, receiver
  <2> QED BY <1>2, <2>1
<1>5. CASE \E n \in 1..(kMaxFrame + 1) : SendSome(n)
  <2>1. PICK n \in 1..(kMaxFrame + 1) : SendSome(n)
    BY <1>5
  <2>2. UNCHANGED <<received, status>>
    BY <2>1 DEF SendSome, receiver
  <2>3. sent' # sent => sent' = Append(sent, next - 1) /\ next - 1 \in DOMAIN outbox
    BY <2>1, SendTakes
  <2>4. CASE sent' = sent
    BY <1>2, <2>2, <2>4
  <2>5. CASE sent' # sent
    <3>1. next - 1 \in UNION {DOMAIN o : o \in Outboxes}
      BY <1>1, <2>3, <2>5 DEF ConnTypeOK
    <3>2. Q!Put(next - 1)
      BY <2>2, <2>3, <2>5 DEF Q!Put
    <3> QED BY <3>1, <3>2 DEF Q!Next
  <2> QED BY <2>4, <2>5
<1>6. CASE ReturnFrame
  <2>1. Len(received) < Len(sent) /\ received' = Append(received, sent[Len(received) + 1])
    BY <1>6, ReturnNext
  <2>2. status = "open" /\ UNCHANGED <<sent, status>>
    BY <1>6 DEF ReturnFrame, Decodes, sender
  <2> QED BY <2>1, <2>2 DEF Q!Next, Q!Get
<1>7. CASE RefuseCorrupt \/ RecvError \/ \E n \in 1..chunk : RecvSome(n)
  <2>1. UNCHANGED <<sent, received>> /\ status = "open" /\ status' \in {"open", "failed"}
    BY <1>7 DEF RefuseCorrupt, RecvError, RecvSome, Decodes, sender
  <2> QED BY <1>3, <2>1
<1>8. CASE RecvEnd
  <2>1. UNCHANGED <<sent, received>> /\ status = "open" /\ status' \in {"closed", "failed"}
    BY <1>8 DEF RecvEnd, Decodes, sender
  <2>2. CASE status' = "closed"
    BY <1>8, <2>1, <2>2, EndHasAll DEF Q!Next, Q!Close
  <2>3. CASE status' = "failed"
    BY <1>3, <2>1, <2>3
  <2> QED BY <2>1, <2>2, <2>3
<1>9. CASE UNCHANGED connVars
  BY <1>2, <1>9 DEF connVars
<1> QED BY <1>4, <1>5, <1>6, <1>7, <1>8, <1>9 DEF ConnNext, Sender, recv_frame

(* A connection is a queue of frames: however the socket splits, delays,   *)
(* cuts or damages the stream, recv_frame returns whole frames, in order,  *)
(* none twice and none that was not sent, and reports an orderly close     *)
(* only to a receiver that has them all.                                   *)
THEOREM FramesAlwaysInOrder == ConnSpec => FramesInOrder
<1>1. ConnInit => Q!Init
  BY DEF ConnInit, Q!Init
<1>2. ConnInv /\ [ConnNext]_connVars => [Q!Next]_Q!queueVars
  BY ConnStepQueues
<1> QED BY <1>1, <1>2, ConnInvariant, PTL DEF ConnSpec, FramesInOrder, Q!Spec

-----------------------------------------------------------------------------
(***************************************************************************)
(* HistoryFile: the reader.                                                *)
(***************************************************************************)
(* The items of a record, and how many items n records end behind.         *)
kRecord == kFields + 2
Base(n) == kHeaderItems + n * kRecord

LEMMA Bases ==
    ASSUME NEW n \in Nat
    PROVE  /\ Base(n) \in Nat /\ Base(n) >= 4 /\ Base(0) = 4
           /\ kRecord \in Nat /\ kRecord >= 3 /\ Base(n + 1) = Base(n) + kRecord
           /\ \A m \in Nat : n < m => Base(n) < Base(m)
<1>1. kRecord \in Nat /\ kRecord >= 3
  BY FileAssumption DEF kRecord
<1>2. n * kRecord \in Nat /\ 0 * kRecord = 0 /\ (n + 1) * kRecord = n * kRecord + kRecord
  BY <1>1
<1>3. ASSUME NEW m \in Nat, n < m PROVE n * kRecord < m * kRecord
  <2>1. PICK d \in Nat : m = n + d /\ d >= 1
    <3>1. m - n \in Nat /\ m = n + (m - n) /\ m - n >= 1
      BY <1>3
    <3> QED BY <3>1
  <2>2. m * kRecord = n * kRecord + d * kRecord /\ d * kRecord >= kRecord
    BY <1>1, <2>1
  <2>3. d * kRecord \in Nat
    BY <1>1
  <2> QED BY <1>1, <1>2, <2>2, <2>3
<1>4. \A m \in Nat : n < m => Base(n) < Base(m)
  <2> TAKE m \in Nat
  <2> HAVE n < m
  <2>1. m * kRecord \in Nat
    BY <1>1
  <2> QED BY <1>2, <1>3, <2>1 DEF Base, kHeaderItems
<1> QED BY <1>1, <1>2, <1>4 DEF Base, kHeaderItems

(* The items of the j-th record between its length and its checksum. *)
Data(body, j) == SubSeq(body, Base(j - 1) + 2, Base(j - 1) + 1 + kFields)

Reads(body, j) ==
    /\ Base(j) <= Len(body)
    /\ body[Base(j - 1) + 1].val = kFields
    /\ CrcMatches(body[Base(j)], Data(body, j))

(* What it reads of c records. *)
Observed(body, c) == [j \in 1..c |-> decode_observation(Data(body, j))]

(* What the reader has made of n records. *)
After(body, n, r) ==
    IF \A j \in 1..n : Reads(body, j)
    THEN r = [ok |-> TRUE, off |-> Base(n),
              obs |-> [j \in 1..n |-> decode_observation(Data(body, j))]]
    ELSE ~r.ok

Readers(X) == [ok : BOOLEAN, off : Nat, obs : Seq({decode_observation(d) : d \in Seq(X)})]

LEMMA ReadRecordType ==
    ASSUME NEW X, NEW body \in Seq(X), NEW r \in Readers(X)
    PROVE  ReadRecord(body, r) \in Readers(X)
<1> DEFINE here == r.off + 1
           len == body[here].val
           data == SubSeq(body, here + 1, here + len)
           D == {decode_observation(d) : d \in Seq(X)}
           guard == /\ r.ok /\ here <= Len(body)
                    /\ len \in 1..kMaxRecord
                    /\ here + len + 1 <= Len(body)
                    /\ CrcMatches(body[here + len + 1], data)
                    /\ len = kFields
<1>1. ReadRecord(body, r) =
        IF guard THEN [ok |-> TRUE, off |-> here + len + 1,
                       obs |-> Append(r.obs, decode_observation(data))]
        ELSE [r EXCEPT !.ok = FALSE]
  BY DEF ReadRecord
<1>2. r.ok \in BOOLEAN /\ r.off \in Nat /\ r.obs \in Seq(D) /\ Len(body) \in Nat
  BY DEF Readers
<1>3. CASE guard
  <2>1. len \in Nat /\ len >= 1 /\ here \in Nat /\ here + len + 1 <= Len(body)
    BY <1>2, <1>3, FileAssumption
  <2>2. data \in Seq(X)
    <3> HIDE DEF here, len
    <3>1. here + 1 \in Nat \ {0} /\ here + len \in Nat
      BY <2>1, SMTT(30)
    <3>2. here + 1 <= here + len + 1 /\ here + len <= Len(body)
      BY <1>2, <2>1, SMTT(30)
    <3>3. SubSeq(body, here + 1, here + len) \in Seq(X)
      BY <3>1, <3>2, Piece, SMTT(30)
    <3> QED BY <3>3
  <2>3. decode_observation(data) \in D
    BY <2>2
  <2>4. here + len + 1 \in Nat
    BY <2>1
  <2> HIDE DEF here, len, data, D
  <2>5. Append(r.obs, decode_observation(data)) \in Seq(D)
    BY <1>2, <2>3
  <2>6. ReadRecord(body, r) = [ok |-> TRUE, off |-> here + len + 1,
                               obs |-> Append(r.obs, decode_observation(data))]
    BY <1>1, <1>3
  <2>7. ReadRecord(body, r) \in [ok : BOOLEAN, off : Nat, obs : Seq(D)]
    BY <2>4, <2>5, <2>6
  <2> QED BY <2>7 DEF Readers, D
<1>4. CASE ~guard
  <2>1. ReadRecord(body, r) = [r EXCEPT !.ok = FALSE]
    BY <1>1, <1>4
  <2> QED BY <2>1 DEF Readers
<1> QED BY <1>3, <1>4

(* One more record. *)
LEMMA ReadRecordShape ==
    ASSUME NEW X, NEW body \in Seq(X), NEW n \in Nat, NEW r \in Readers(X), After(body, n, r)
    PROVE  After(body, n + 1, ReadRecord(body, r))
<1> DEFINE here == r.off + 1
           len == body[here].val
           data == SubSeq(body, here + 1, here + len)
           guard == /\ r.ok /\ here <= Len(body)
                    /\ len \in 1..kMaxRecord
                    /\ here + len + 1 <= Len(body)
                    /\ CrcMatches(body[here + len + 1], data)
                    /\ len = kFields
           all == \A j \in 1..n : Reads(body, j)
<1>1. ReadRecord(body, r) =
        IF guard THEN [ok |-> TRUE, off |-> here + len + 1,
                       obs |-> Append(r.obs, decode_observation(data))]
        ELSE [r EXCEPT !.ok = FALSE]
  BY DEF ReadRecord
<1>2. (\A j \in 1..(n + 1) : Reads(body, j)) <=> all /\ Reads(body, n + 1)
  <2>1. 1..(n + 1) = 1..n \cup {n + 1}
    OBVIOUS
  <2> QED BY <2>1
<1>3. [r EXCEPT !.ok = FALSE].ok = FALSE
  BY DEF Readers
<1>4. CASE ~all
  <2>1. ~r.ok
    BY <1>4 DEF After
  <2>2. ~guard
    BY <2>1
  <2>3. ~ReadRecord(body, r).ok
    BY <1>1, <1>3, <2>2
  <2> QED BY <1>2, <1>4, <2>3 DEF After
<1>5. CASE all
  <2>1. r = [ok |-> TRUE, off |-> Base(n),
             obs |-> [j \in 1..n |-> decode_observation(Data(body, j))]]
    BY <1>5 DEF After
  <2>2. /\ Base(n) \in Nat /\ Base(n + 1) = Base(n) + kFields + 2 /\ (n + 1) - 1 = n
        /\ kFields \in Nat \ {0} /\ kFields \in 1..kMaxRecord /\ Len(body) \in Nat
    <3>1. Base(n) \in Nat /\ Base(n + 1) = Base(n) + kRecord
      BY Bases
    <3> QED BY <3>1, FileAssumption DEF kRecord
  <2>3. r.ok /\ here = Base(n) + 1
    BY <2>1
  <2>4. Reads(body, n + 1) <=> /\ Base(n) + kFields + 2 <= Len(body)
                               /\ body[Base(n) + 1].val = kFields
                               /\ CrcMatches(body[Base(n) + kFields + 2], Data(body, n + 1))
    BY <2>2 DEF Reads
  <2>5. Data(body, n + 1) = SubSeq(body, Base(n) + 2, Base(n) + 1 + kFields)
    BY <2>2 DEF Data
  <2>6. guard => /\ len = kFields /\ here + len + 1 = Base(n) + kFields + 2
                 /\ data = Data(body, n + 1) /\ Reads(body, n + 1)
    <3> SUFFICES ASSUME guard PROVE /\ len = kFields /\ here + len + 1 = Base(n) + kFields + 2
                                    /\ data = Data(body, n + 1) /\ Reads(body, n + 1)
      OBVIOUS
    <3>1. len = kFields
      OBVIOUS
    <3>2. here + 1 = Base(n) + 2 /\ here + len = Base(n) + 1 + kFields /\ here + len + 1 = Base(n) + kFields + 2
      <4> HIDE DEF here, len
      <4> QED BY <2>2, <2>3, <3>1
    <3>3. data = Data(body, n + 1)
      BY <2>5, <3>2
    <3> QED BY <2>3, <2>4, <3>1, <3>2, <3>3
  <2>7. Reads(body, n + 1) => guard
    <3> SUFFICES ASSUME Reads(body, n + 1) PROVE guard
      OBVIOUS
    <3>1. len = kFields
      BY <2>3, <2>4
    <3>2. here + 1 = Base(n) + 2 /\ here + len = Base(n) + 1 + kFields /\ here + len + 1 = Base(n) + kFields + 2
          /\ here <= Len(body)
      <4>1. Base(n) + kFields + 2 <= Len(body)
        BY <2>4
      <4> HIDE DEF here, len
      <4> QED BY <2>2, <2>3, <3>1, <4>1
    <3>3. data = Data(body, n + 1)
      BY <2>5, <3>2
    <3> QED BY <2>2, <2>3, <2>4, <3>1, <3>2, <3>3
  <2> HIDE DEF guard, all, here, len, data
  <2>8. CASE ~Reads(body, n + 1)
    <3>1. ~ReadRecord(body, r).ok
      BY <1>1, <1>3, <2>6, <2>8
    <3> QED BY <1>2, <2>8, <3>1 DEF After
  <2>9. CASE Reads(body, n + 1)
    <3> DEFINE g == [j \in 1..n |-> decode_observation(Data(body, j))]
               h == [j \in 1..(n + 1) |-> decode_observation(Data(body, j))]
    <3>1. ReadRecord(body, r) = [ok |-> TRUE, off |-> Base(n + 1),
                                 obs |-> Append(g, decode_observation(Data(body, n + 1)))]
      BY <1>1, <2>1, <2>2, <2>6, <2>7, <2>9
    <3>2. Append(g, decode_observation(Data(body, n + 1))) = h
      OBVIOUS
    <3>3. ReadRecord(body, r) = [ok |-> TRUE, off |-> Base(n + 1), obs |-> h]
      BY <3>1, <3>2
    <3> QED BY <1>2, <1>5, <2>9, <3>3 DEF After
  <2> QED BY <2>8, <2>9
<1> QED BY <1>4, <1>5

(* The loop of load. *)
Reading(body, c) ==
    CHOOSE reader : reader = [i \in 0..c |-> IF i = 0 THEN Start ELSE ReadRecord(body, reader[i - 1])]

LEMMA ReadingLoop ==
    ASSUME NEW X, NEW body \in Seq(X), NEW c \in Nat
    PROVE  After(body, c, Reading(body, c)[c])
<1> DEFINE F == [k \in 1..c |-> [r \in Readers(X) |-> ReadRecord(body, r)]]
<1>1. F \in [1..c -> [Readers(X) -> Readers(X)]]
  BY ReadRecordType
<1>2. \A k \in 1..c, r \in Readers(X) : F[k][r] = ReadRecord(body, r)
  OBVIOUS
<1>3. Start \in Readers(X)
  BY DEF Start, Readers, kHeaderItems
<1> HIDE DEF F
<1>4. PICK f : Iterated(f, Readers(X), Start, c, F)
  BY <1>1, <1>3, Loop
<1>5. f \in [0..c -> Readers(X)] /\ f[0] = Start
  BY <1>4 DEF Iterated
<1>6. ASSUME NEW k \in 1..c PROVE f[k] = ReadRecord(body, f[k - 1])
  <2>1. k - 1 \in 0..c
    OBVIOUS
  <2> QED BY <1>2, <1>4, <1>5, <2>1 DEF Iterated
<1>7. f = [i \in 0..c |-> IF i = 0 THEN Start ELSE ReadRecord(body, f[i - 1])]
  BY <1>5, <1>6
<1> DEFINE loop == Reading(body, c)
<1>8. loop = [i \in 0..c |-> IF i = 0 THEN Start ELSE ReadRecord(body, loop[i - 1])]
  BY <1>7 DEF Reading
<1> HIDE DEF loop
<1>9. loop[0] = Start /\ \A k \in 1..c : loop[k] = ReadRecord(body, loop[k - 1])
  <2>1. 0 \in 0..c /\ \A k \in 1..c : k \in 0..c /\ k # 0
    OBVIOUS
  <2> QED BY <1>8, <2>1
<1> DEFINE G == {k \in Nat : k <= c => loop[k] \in Readers(X) /\ After(body, k, loop[k])}
<1>10. 0 \in G
  <2>1. After(body, 0, Start)
    <3>1. Base(0) = kHeaderItems
      BY Bases DEF kHeaderItems
    <3>2. \A j \in 1..0 : Reads(body, j)
      OBVIOUS
    <3>3. <<>> = [j \in 1..0 |-> decode_observation(Data(body, j))]
      OBVIOUS
    <3> QED BY <3>1, <3>2, <3>3 DEF After, Start
  <2> QED BY <1>3, <1>9, <2>1
<1>11. ASSUME NEW k \in G PROVE k + 1 \in G
  <2>1. k \in Nat /\ k + 1 \in Nat
    OBVIOUS
  <2> SUFFICES ASSUME k + 1 <= c PROVE loop[k + 1] \in Readers(X) /\ After(body, k + 1, loop[k + 1])
    BY <2>1
  <2>2. loop[k] \in Readers(X) /\ After(body, k, loop[k])
    BY <2>1
  <2>3. loop[k + 1] = ReadRecord(body, loop[k])
    <3>1. k + 1 \in 1..c /\ (k + 1) - 1 = k
      BY <2>1
    <3> QED BY <1>9, <3>1
  <2> QED BY <2>1, <2>2, <2>3, ReadRecordType, ReadRecordShape
<1>12. G = Nat
  <2>1. G \subseteq Nat
    OBVIOUS
  <2> HIDE DEF G
  <2> QED BY <1>10, <1>11, <2>1, NatInduct
<1>13. After(body, c, loop[c])
  BY <1>12
<1> QED BY <1>13 DEF loop

(* What parse makes of a file whose count is c. *)
LEMMA ParseShape ==
    ASSUME NEW X, NEW file \in Seq(X), NEW body, body = Tail(file),
           NEW c \in Nat, HeaderAccepted(file) => body[kHeaderItems].val = c
    PROVE  /\ parse(file).ok =>
                /\ HeaderAccepted(file) /\ Len(body) = Base(c)
                /\ \A j \in 1..c : Reads(body, j)
                /\ parse(file).obs = Observed(body, c)
           /\ HeaderAccepted(file) /\ Len(body) = Base(c) /\ (\A j \in 1..c : Reads(body, j))
                => parse(file).ok
<1>1. CASE ~HeaderAccepted(file)
  BY <1>1 DEF parse, Refused
<1>2. CASE HeaderAccepted(file)
  <2>1. body \in Seq(X)
    BY <1>2 DEF HeaderAccepted
  <2> DEFINE r == Reading(body, c)[c]
  <2>2. After(body, c, r)
    BY <2>1, ReadingLoop
  <2>3. parse(file) = IF Consumed(body, r) THEN r ELSE Refused
    <3> DEFINE b == Tail(file)
               d == b[kHeaderItems].val
    <3>1. parse(file) = IF Consumed(b, Reading(b, d)[d]) THEN Reading(b, d)[d] ELSE Refused
      BY <1>2, Zenon DEF parse, Reading
    <3>2. b = body /\ d = c
      BY <1>2
    <3> HIDE DEF b, d
    <3> QED BY <3>1, <3>2
  <2> HIDE DEF r
  <2>4. Refused.ok = FALSE
    BY DEF Refused
  <2>5. CASE \A j \in 1..c : Reads(body, j)
    <3>1. r.ok = TRUE /\ r.off = Base(c) /\ r.obs = Observed(body, c)
      BY <2>2, <2>5 DEF After, Observed
    <3> QED BY <1>2, <2>3, <2>4, <2>5, <3>1 DEF Consumed
  <2>6. CASE ~(\A j \in 1..c : Reads(body, j))
    <3>1. ~r.ok
      BY <2>2, <2>6 DEF After
    <3> QED BY <2>3, <2>4, <2>6, <3>1
  <2> QED BY <2>5, <2>6
<1> QED BY <1>1, <1>2

(***************************************************************************)
(* HistoryFile: the writer.                                                *)
(***************************************************************************)
FieldItem == [kind : {"field"}, val : Nat]
FileItem == [kind : {"magic", "version", "epoch", "generation", "count", "length"}, val : Nat]
               \cup [kind : {"crc"}, val : Seq(FieldItem)] \cup FieldItem

LEMMA RecordShape ==
    ASSUME NEW o \in StoredObservations
    PROVE  /\ encode_observation(o) \in Seq(FieldItem) /\ Len(encode_observation(o)) = kFields
           /\ decode_observation(encode_observation(o)) = o
           /\ Record(o) \in Seq(FileItem) /\ Len(Record(o)) = kRecord
           /\ Record(o)[1] = Item("length", kFields)
           /\ \A f \in 1..kFields : Record(o)[1 + f] = encode_observation(o)[f]
           /\ Record(o)[kRecord] = Item("crc", encode_observation(o))
<1> DEFINE enc == encode_observation(o)
<1>1. kFields \in Nat \ {0} /\ FieldValues \subseteq Nat /\ kRecord = kFields + 2
  BY FileAssumption DEF kRecord
<1>2. \A f \in 1..kFields : o[f] \in Nat /\ Item("field", o[f]) \in FieldItem
  BY <1>1 DEF StoredObservations, Item, FieldItem
<1>3. /\ enc \in Seq(FieldItem) /\ Len(enc) = kFields
      /\ \A f \in 1..kFields : enc[f] = Item("field", o[f])
  BY <1>1, <1>2 DEF encode_observation
<1>4. decode_observation(enc) = o
  <2>1. \A f \in 1..kFields : enc[f].val = o[f]
    BY <1>3 DEF Item
  <2>2. o = [f \in 1..kFields |-> o[f]]
    BY DEF StoredObservations
  <2> QED BY <2>1, <2>2 DEF decode_observation
<1>5. Record(o) = (<<Item("length", Len(enc))>> \o enc) \o <<Item("crc", enc)>>
  BY DEF Record
<1> HIDE DEF enc
<1> DEFINE a == <<Item("length", Len(enc))>>
           z == <<Item("crc", enc)>>
           ae == a \o enc
<1>6. a \in Seq(FileItem) /\ z \in Seq(FileItem) /\ enc \in Seq(FileItem)
  <2>1. Item("length", Len(enc)) \in FileItem /\ Item("crc", enc) \in FileItem
    BY <1>1, <1>3 DEF Item, FileItem
  <2>2. enc \in Seq(FileItem)
    BY <1>3 DEF FileItem
  <2> QED BY <2>1, <2>2
<1>7. Len(a) = 1 /\ a[1] = Item("length", kFields) /\ Len(z) = 1 /\ z[1] = Item("crc", enc)
  BY <1>3
<1> HIDE DEF a, z
<1>8. ae \in Seq(FileItem) /\ IsJoin(ae, a, enc)
  BY <1>6, Joined
<1> HIDE DEF ae
<1>9. ae \o z \in Seq(FileItem) /\ IsJoin(ae \o z, ae, z)
  BY <1>6, <1>8, Joined
<1>10. Len(ae) = 1 + kFields /\ ae[1] = a[1] /\ \A f \in 1..kFields : ae[1 + f] = enc[f]
  BY <1>1, <1>3, <1>7, <1>8 DEF IsJoin
<1>11. /\ Len(ae \o z) = kRecord /\ (ae \o z)[1] = a[1] /\ (ae \o z)[kRecord] = z[1]
       /\ \A f \in 1..kFields : (ae \o z)[1 + f] = enc[f]
  <2>1. /\ 1 \in 1..Len(ae) /\ Len(ae) + 1 = kRecord /\ 1 \in 1..Len(z)
        /\ \A f \in 1..kFields : 1 + f \in 1..Len(ae)
    BY <1>1, <1>7, <1>10
  <2> QED BY <1>7, <1>9, <1>10, <2>1 DEF IsJoin
<1>12. Record(o) = ae \o z
  BY <1>5 DEF ae, a, z
<1> QED BY <1>3, <1>4, <1>7, <1>9, <1>11, <1>12 DEF enc

(* What save has written after n of the records. *)
Wrote(s, obs, n) ==
    /\ s \in Seq(FileItem) /\ Len(s) = 1 + Base(n)
    /\ \A p \in 1..5 : s[p] = Header(Len(obs))[p]
    /\ \A j \in 1..n : \A p \in 1..kRecord : s[1 + Base(j - 1) + p] = Record(obs[j])[p]

LEMMA WriteRecord ==
    ASSUME NEW obs \in Seq(StoredObservations), NEW n \in Nat, n + 1 <= Len(obs),
           NEW s, Wrote(s, obs, n)
    PROVE  Wrote(s \o Record(obs[n + 1]), obs, n + 1)
<1> DEFINE r == Record(obs[n + 1])
<1>1. r \in Seq(FileItem) /\ Len(r) = kRecord
  <2>1. obs[n + 1] \in StoredObservations
    OBVIOUS
  <2> QED BY <2>1, RecordShape
<1>2. /\ Base(n) \in Nat /\ Base(n) >= 4 /\ kRecord \in Nat /\ kRecord >= 3
      /\ Base(n + 1) = Base(n) + kRecord
  BY Bases
<1> HIDE DEF r
<1>3. s \in Seq(FileItem) /\ Len(s) = 1 + Base(n)
  BY DEF Wrote
<1> DEFINE t == s \o r
<1>4. t \in Seq(FileItem) /\ IsJoin(t, s, r)
  BY <1>1, <1>3, Joined
<1> HIDE DEF t
<1>5. Len(t) = 1 + Base(n + 1)
  BY <1>1, <1>2, <1>3, <1>4 DEF IsJoin
<1>6. \A p \in 1..5 : t[p] = Header(Len(obs))[p]
  <2>1. \A p \in 1..5 : p \in 1..Len(s)
    BY <1>2, <1>3
  <2> QED BY <1>4, <2>1 DEF IsJoin, Wrote
<1>7. ASSUME NEW j \in 1..(n + 1), NEW p \in 1..kRecord
      PROVE  t[1 + Base(j - 1) + p] = Record(obs[j])[p]
  <2>1. j \in 1..n \/ j = n + 1
    OBVIOUS
  <2>2. CASE j = n + 1
    <3>1. j - 1 = n /\ 1 + Base(n) + p = Len(s) + p /\ p \in 1..Len(r)
      BY <1>1, <1>2, <1>3, <2>2
    <3>2. t[Len(s) + p] = r[p]
      BY <1>4, <3>1 DEF IsJoin
    <3> QED BY <2>2, <3>1, <3>2 DEF r
  <2>3. CASE j \in 1..n
    <3>1. /\ j - 1 \in Nat /\ j - 1 < n /\ (j - 1) + 1 = j
      BY <2>3
    <3>2. Base(j - 1) \in Nat /\ Base(j) = Base(j - 1) + kRecord /\ (j < n => Base(j) < Base(n)) /\ j \in Nat
      <4>1. PICK i \in Nat : i = j - 1 /\ j = i + 1 /\ j \in Nat
        BY <3>1
      <4>2. Base(i) \in Nat /\ Base(i + 1) = Base(i) + kRecord
        BY Bases
      <4>3. j < n => Base(j) < Base(n)
        BY <4>1, Bases
      <4> QED BY <4>1, <4>2, <4>3
    <3>3. Base(j) <= Base(n)
      BY <1>2, <2>3, <3>2
    <3>4. 1 + Base(j - 1) + p \in 1..Len(s)
      BY <1>2, <1>3, <3>2, <3>3
    <3>5. t[1 + Base(j - 1) + p] = s[1 + Base(j - 1) + p]
      BY <1>4, <3>4 DEF IsJoin
    <3> QED BY <2>3, <3>5 DEF Wrote
  <2> QED BY <2>1, <2>2, <2>3
<1> QED BY <1>4, <1>5, <1>6, <1>7 DEF Wrote, t, r

Writing(obs) ==
    CHOOSE out : out = [i \in 0..Len(obs) |->
                          IF i = 0 THEN Header(Len(obs)) ELSE out[i - 1] \o Record(obs[i])]

(* What save writes. *)
LEMMA EncodedShape ==
    ASSUME NEW obs \in Seq(StoredObservations)
    PROVE  Wrote(Encoded(obs), obs, Len(obs))
<1> DEFINE n == Len(obs)
           S == Seq(FileItem)
           F == [k \in 1..n |-> [s \in S |-> s \o Record(obs[k])]]
           h == Header(n)
<1>1. n \in Nat /\ \A k \in 1..n : obs[k] \in StoredObservations /\ Record(obs[k]) \in S
  <2>1. \A k \in 1..n : obs[k] \in StoredObservations
    OBVIOUS
  <2> QED BY <2>1, RecordShape
<1>2. h \in S /\ Len(h) = 5 /\ Wrote(h, obs, 0)
  <2>1. /\ Item("magic", 1) \in FileItem /\ Item("version", kFormatVersion) \in FileItem
        /\ Item("epoch", 1) \in FileItem /\ Item("generation", 1) \in FileItem
        /\ Item("count", n) \in FileItem
    BY <1>1 DEF Item, FileItem, kFormatVersion
  <2>2. h \in S /\ Len(h) = 5
    BY <2>1 DEF Header
  <2>3. 1 + Base(0) = 5
    BY Bases
  <2> QED BY <2>2, <2>3 DEF Wrote
<1>3. F \in [1..n -> [S -> S]]
  <2> HIDE DEF n
  <2>1. \A k \in 1..n : \A s \in S : s \o Record(obs[k]) \in S
    BY <1>1
  <2> HIDE DEF S
  <2> QED BY <2>1
<1>4. \A k \in 1..n, s \in S : F[k][s] = s \o Record(obs[k])
  OBVIOUS
<1> HIDE DEF F, h, S
<1>5. PICK f : Iterated(f, S, h, n, F)
  BY <1>1, <1>2, <1>3, Loop
<1>6. f \in [0..n -> S] /\ f[0] = h
  BY <1>5 DEF Iterated
<1>7. ASSUME NEW k \in 1..n PROVE f[k] = f[k - 1] \o Record(obs[k])
  <2>1. k - 1 \in 0..n
    BY <1>1
  <2> QED BY <1>4, <1>5, <1>6, <2>1 DEF Iterated
<1>8. f = [i \in 0..n |-> IF i = 0 THEN h ELSE f[i - 1] \o Record(obs[i])]
  BY <1>1, <1>6, <1>7
<1> DEFINE loop == Writing(obs)
<1>9. loop = [i \in 0..n |-> IF i = 0 THEN h ELSE loop[i - 1] \o Record(obs[i])]
  BY <1>8 DEF Writing, h
<1>10. Encoded(obs) = loop[n]
  BY DEF Encoded, Writing
<1> HIDE DEF loop
<1>11. loop[0] = h /\ \A k \in 1..n : loop[k] = loop[k - 1] \o Record(obs[k])
  <2>1. 0 \in 0..n /\ \A k \in 1..n : k \in 0..n /\ k # 0
    BY <1>1
  <2> QED BY <1>9, <2>1
<1> DEFINE G == {k \in Nat : k <= n => Wrote(loop[k], obs, k)}
<1>12. 0 \in G
  BY <1>2, <1>11
<1>13. ASSUME NEW k \in G PROVE k + 1 \in G
  <2>1. k \in Nat /\ k + 1 \in Nat
    OBVIOUS
  <2> SUFFICES ASSUME k + 1 <= n PROVE Wrote(loop[k + 1], obs, k + 1)
    BY <2>1
  <2>2. Wrote(loop[k], obs, k)
    BY <1>1, <2>1
  <2>3. loop[k + 1] = loop[k] \o Record(obs[k + 1])
    <3>1. k + 1 \in 1..n /\ (k + 1) - 1 = k
      BY <1>1, <2>1
    <3> QED BY <1>11, <3>1
  <2>4. Wrote(loop[k] \o Record(obs[k + 1]), obs, k + 1)
    BY <2>1, <2>2, WriteRecord
  <2> QED BY <2>3, <2>4
<1>14. G = Nat
  <2>1. G \subseteq Nat
    OBVIOUS
  <2> HIDE DEF G
  <2> QED BY <1>12, <1>13, <2>1, NatInduct
<1> QED BY <1>1, <1>10, <1>14

(***************************************************************************)
(* HistoryFile: what was written is what is read.                          *)
(***************************************************************************)
(* A record that reads is the one its checksum was written for. *)
LEMMA ReadsWritten ==
    ASSUME NEW X, NEW body \in Seq(X), NEW j \in Nat \ {0}, NEW o \in StoredObservations,
           Reads(body, j), body[Base(j)].val \in {encode_observation(o), <<>>}
    PROVE  decode_observation(Data(body, j)) = o
<1>1. PICK i \in Nat : i = j - 1 /\ j = i + 1
  <2>1. j - 1 \in Nat /\ j = (j - 1) + 1
    OBVIOUS
  <2> QED BY <2>1
<1>2. /\ Base(i) \in Nat /\ Base(j) = Base(i) + kFields + 2 /\ kFields \in Nat \ {0}
      /\ Len(body) \in Nat /\ Base(j) <= Len(body)
  <2>1. Base(i) \in Nat /\ Base(i + 1) = Base(i) + kRecord
    BY Bases
  <2> QED BY <1>1, <2>1, FileAssumption DEF kRecord, Reads
<1>3. Data(body, j) = SubSeq(body, Base(i) + 2, Base(i) + 1 + kFields)
  BY <1>1 DEF Data
<1>4. Len(Data(body, j)) = kFields
  <2>1. PICK b \in Nat : b = Base(i)
    BY <1>2
  <2>2. /\ b + 2 \in Nat \ {0} /\ b + 1 + kFields \in Nat /\ b + 2 <= (b + 1 + kFields) + 1
        /\ b + 1 + kFields <= Len(body) /\ (b + 1 + kFields) - (b + 2) + 1 = kFields
    <3>1. b + kFields + 2 <= Len(body)
      BY <1>2, <2>1
    <3> QED BY <1>2, <3>1
  <2>3. Data(body, j) = SubSeq(body, b + 2, b + 1 + kFields)
    BY <1>3, <2>1
  <2>4. IsPiece(Data(body, j), body, b + 2, b + 1 + kFields)
    BY <2>2, <2>3, Piece
  <2> QED BY <2>2, <2>4 DEF IsPiece
<1>5. body[Base(j)].val = Data(body, j)
  BY DEF Reads, CrcMatches
<1>6. Data(body, j) # <<>>
  BY <1>2, <1>4
<1>7. Data(body, j) = encode_observation(o)
  BY <1>5, <1>6
<1> QED BY <1>7, RecordShape

(* The body of a file. *)
LEMMA BodyShape ==
    ASSUME NEW X, NEW file \in Seq(X), file # <<>>
    PROVE  /\ Tail(file) \in Seq(X) /\ Len(file) \in Nat /\ Len(Tail(file)) = Len(file) - 1
           /\ \A i \in 1..(Len(file) - 1) : Tail(file)[i] = file[1 + i]
<1>1. /\ Tail(file) \in Seq(X) /\ Len(Tail(file)) = Len(file) - 1
      /\ \A i \in 1..Len(Tail(file)) : Tail(file)[i] = file[i + 1]
  BY HeadTailProperties
<1>2. Len(file) \in Nat /\ \A i \in Nat : 1 + i = i + 1
  OBVIOUS
<1> QED BY <1>1, <1>2

(* Where the items of a file of n records are. *)
LEMMA WrittenItems ==
    ASSUME NEW obs \in Seq(StoredObservations), NEW file, Wrote(file, obs, Len(obs))
    PROVE  /\ file \in Seq(FileItem) /\ file # <<>> /\ Len(file) = 1 + Base(Len(obs))
           /\ file[1] = Item("magic", 1) /\ file[2] = Item("version", kFormatVersion)
           /\ file[5] = Item("count", Len(obs))
           /\ \A j \in 1..Len(obs) :
                /\ obs[j] \in StoredObservations
                /\ Base(j - 1) \in Nat /\ Base(j) = Base(j - 1) + kFields + 2 /\ Base(j) <= Base(Len(obs))
                /\ file[1 + Base(j - 1) + 1] = Item("length", kFields)
                /\ \A f \in 1..kFields : file[1 + Base(j - 1) + (1 + f)] = encode_observation(obs[j])[f]
                /\ file[1 + Base(j)] = Item("crc", encode_observation(obs[j]))
<1>1. /\ file \in Seq(FileItem) /\ Len(file) = 1 + Base(Len(obs))
      /\ \A p \in 1..5 : file[p] = Header(Len(obs))[p]
      /\ \A j \in 1..Len(obs) : \A p \in 1..kRecord : file[1 + Base(j - 1) + p] = Record(obs[j])[p]
  BY DEF Wrote
<1>2. Len(obs) \in Nat /\ Base(Len(obs)) \in Nat /\ kFields \in Nat \ {0} /\ kRecord = kFields + 2
  <2>1. Len(obs) \in Nat
    OBVIOUS
  <2> QED BY <2>1, Bases, FileAssumption DEF kRecord
<1>3. file # <<>>
  BY <1>1, <1>2
<1>4. file[1] = Item("magic", 1) /\ file[2] = Item("version", kFormatVersion) /\ file[5] = Item("count", Len(obs))
  BY <1>1 DEF Header
<1>5. ASSUME NEW j \in 1..Len(obs)
      PROVE  /\ obs[j] \in StoredObservations
             /\ Base(j - 1) \in Nat /\ Base(j) = Base(j - 1) + kFields + 2 /\ Base(j) <= Base(Len(obs))
             /\ file[1 + Base(j - 1) + 1] = Item("length", kFields)
             /\ \A f \in 1..kFields : file[1 + Base(j - 1) + (1 + f)] = encode_observation(obs[j])[f]
             /\ file[1 + Base(j)] = Item("crc", encode_observation(obs[j]))
  <2>1. PICK i \in Nat : i = j - 1 /\ j = i + 1 /\ j \in Nat
    <3>1. j - 1 \in Nat /\ j = (j - 1) + 1 /\ j \in Nat
      BY <1>2
    <3> QED BY <3>1
  <2>2. Base(i) \in Nat /\ Base(i + 1) = Base(i) + kRecord
    BY Bases
  <2>3. Base(j) \in Nat /\ (j < Len(obs) => Base(j) < Base(Len(obs)))
    BY <1>2, <2>1, Bases
  <2>4. Base(j) <= Base(Len(obs))
    <3>1. j = Len(obs) \/ j < Len(obs)
      BY <1>2, <2>1
    <3> QED BY <1>2, <2>3, <3>1
  <2>5. obs[j] \in StoredObservations
    OBVIOUS
  <2>6. /\ 1 \in 1..kRecord /\ kRecord \in 1..kRecord /\ \A f \in 1..kFields : 1 + f \in 1..kRecord
        /\ 1 + Base(j - 1) + kRecord = 1 + Base(j)
    BY <1>2, <2>1, <2>2
  <2>7. /\ file[1 + Base(j - 1) + 1] = Record(obs[j])[1]
        /\ file[1 + Base(j - 1) + kRecord] = Record(obs[j])[kRecord]
        /\ \A f \in 1..kFields : file[1 + Base(j - 1) + (1 + f)] = Record(obs[j])[1 + f]
    BY <1>1, <2>6
  <2>8. /\ Record(obs[j])[1] = Item("length", kFields)
        /\ \A f \in 1..kFields : Record(obs[j])[1 + f] = encode_observation(obs[j])[f]
        /\ Record(obs[j])[kRecord] = Item("crc", encode_observation(obs[j]))
    BY <2>5, RecordShape
  <2>9. Base(j - 1) \in Nat /\ Base(j) = Base(j - 1) + kFields + 2
    BY <1>2, <2>1, <2>2
  <2> QED BY <2>4, <2>5, <2>6, <2>7, <2>8, <2>9
<1> QED BY <1>1, <1>3, <1>4, <1>5

(* A file that was not damaged is loaded as it was saved. *)
LEMMA LoadsWhole ==
    ASSUME NEW obs \in Seq(StoredObservations)
    PROVE  parse(Encoded(obs)).ok
<1> DEFINE n == Len(obs)
           file == Encoded(obs)
           body == Tail(file)
<1>1. Wrote(file, obs, n)
  BY EncodedShape
<1> HIDE DEF file
<1>2. /\ file \in Seq(FileItem) /\ file # <<>> /\ Len(file) = 1 + Base(n)
      /\ file[1] = Item("magic", 1) /\ file[2] = Item("version", kFormatVersion) /\ file[5] = Item("count", n)
  BY <1>1, WrittenItems
<1>3. n \in Nat /\ Base(n) \in Nat /\ Base(n) >= 4 /\ kFields \in Nat \ {0}
  <2>1. n \in Nat
    OBVIOUS
  <2> QED BY <2>1, Bases, FileAssumption
<1>4. /\ body \in Seq(FileItem) /\ Len(body) = Base(n)
      /\ \A i \in 1..Base(n) : body[i] = file[1 + i]
  <2>1. Len(file) - 1 = Base(n)
    BY <1>2, <1>3
  <2> QED BY <1>2, <2>1, BodyShape
<1> HIDE DEF n, body
<1>5. body[1] = file[2] /\ body[4] = file[5]
  <2>1. 1 \in 1..Base(n) /\ 4 \in 1..Base(n)
    BY <1>3
  <2>2. body[1] = file[1 + 1] /\ body[4] = file[1 + 4]
    BY <1>4, <2>1
  <2> QED BY <2>2
<1>6. n <= Base(n) \div 2
  <2>1. Base(n) >= 4 + 2 * n
    <3>1. kRecord \in Nat /\ kRecord - 2 \in Nat
      BY FileAssumption DEF kRecord
    <3>2. n * kRecord = n * 2 + n * (kRecord - 2) /\ n * (kRecord - 2) \in Nat
      BY <1>3, <3>1
    <3> QED BY <1>3, <3>2 DEF Base, kHeaderItems
  <2> QED BY <1>3, <2>1
<1>7. HeaderAccepted(file)
  BY <1>2, <1>3, <1>4, <1>5, <1>6 DEF HeaderAccepted, Item, kHeaderItems, kFormatVersion, body
<1>8. ASSUME NEW j \in 1..n PROVE Reads(body, j)
  <2> DEFINE b == Base(j - 1)
             enc == encode_observation(obs[j])
  <2>1. /\ obs[j] \in StoredObservations
        /\ b \in Nat /\ Base(j) = b + kFields + 2 /\ Base(j) <= Base(n)
        /\ file[1 + b + 1] = Item("length", kFields)
        /\ \A f \in 1..kFields : file[1 + b + (1 + f)] = enc[f]
        /\ file[1 + Base(j)] = Item("crc", enc)
    BY <1>1, <1>8, WrittenItems DEF n
  <2>2. enc \in Seq(FieldItem) /\ Len(enc) = kFields
    BY <2>1, RecordShape
  <2>3. Data(body, j) = SubSeq(body, b + 2, b + 1 + kFields)
    BY DEF Data
  <2> HIDE DEF b, enc
  <2>4. /\ b + 1 \in 1..Base(n) /\ 1 + (b + 1) = 1 + b + 1
        /\ Base(j) \in 1..Base(n)
        /\ \A f \in 1..kFields : b + 1 + f \in 1..Base(n) /\ 1 + (b + 1 + f) = 1 + b + (1 + f)
    BY <1>3, <2>1
  <2>5. body[b + 1].val = kFields /\ body[Base(j)] = Item("crc", enc)
    <3>1. body[b + 1] = file[1 + (b + 1)] /\ body[Base(j)] = file[1 + Base(j)]
      BY <1>4, <2>4
    <3> QED BY <2>1, <2>4, <3>1 DEF Item
  <2>6. \A f \in 1..kFields : body[b + 1 + f] = enc[f]
    BY <1>4, <2>1, <2>4
  <2>7. Data(body, j) = enc
    <3> DEFINE d == SubSeq(body, b + 2, b + 1 + kFields)
    <3>1. /\ b + 2 \in Nat \ {0} /\ b + 1 + kFields \in Nat /\ b + 2 <= (b + 1 + kFields) + 1
          /\ b + 1 + kFields <= Len(body) /\ (b + 1 + kFields) - (b + 2) + 1 = kFields
          /\ \A f \in 1..kFields : (b + 2) + f - 1 = b + 1 + f
      BY <1>3, <1>4, <2>1
    <3>2. d \in Seq(FileItem) /\ IsPiece(d, body, b + 2, b + 1 + kFields)
      BY <1>4, <3>1, Piece
    <3>3. Len(d) = kFields /\ \A f \in 1..kFields : d[f] = body[b + 1 + f]
      BY <3>1, <3>2 DEF IsPiece
    <3>4. enc \in Seq(FileItem)
      BY <2>2 DEF FileItem
    <3> HIDE DEF d
    <3>5. d = enc
      BY <2>2, <2>6, <3>2, <3>3, <3>4, SeqEqual
    <3> QED BY <2>3, <3>5 DEF d
  <2> QED BY <1>4, <2>1, <2>5, <2>7 DEF Reads, CrcMatches, Item, b
<1>9. HeaderAccepted(file) => body[kHeaderItems].val = n
  BY <1>2, <1>5 DEF Item, kHeaderItems
<1>10. parse(file).ok
  <2>1. body = Tail(file)
    BY DEF body
  <2> QED BY <1>2, <1>3, <1>4, <1>7, <1>8, <1>9, <2>1, ParseShape
<1> QED BY <1>10 DEF file

(* What is said of a file that follows what save wrote in its length. *)
LEMMA SameLength ==
    ASSUME NEW obs \in Seq(StoredObservations), NEW X, NEW file \in Seq(X),
           Len(file) = Len(Encoded(obs)), file[5].val \in Nat,
           \A j \in 1..Len(obs) : file[1 + Base(j)].val \in {encode_observation(obs[j]), <<>>}
    PROVE  parse(file).ok => parse(file).obs = obs
<1>1. PICK n \in Nat : n = Len(obs)
  OBVIOUS
<1>2. PICK c \in Nat : c = file[5].val
  OBVIOUS
<1> DEFINE body == Tail(file)
<1>3. Wrote(Encoded(obs), obs, Len(obs))
  BY EncodedShape
<1>4. Len(file) = 1 + Base(n) /\ Base(n) \in Nat /\ Base(n) >= 4
  <2>1. Len(Encoded(obs)) = 1 + Base(Len(obs))
    BY <1>3, WrittenItems
  <2> QED BY <1>1, <2>1, Bases
<1>5. file # <<>>
  BY <1>4
<1>6. body \in Seq(X) /\ Len(body) = Base(n) /\ \A i \in 1..Base(n) : body[i] = file[1 + i]
  <2>1. Len(file) - 1 = Base(n)
    BY <1>4
  <2> QED BY <1>5, <2>1, BodyShape
<1> HIDE DEF body
<1>7. body[kHeaderItems].val = c
  <2>1. 4 \in 1..Base(n) /\ 1 + 4 = 5
    BY <1>4
  <2>2. body[4] = file[5]
    BY <1>6, <2>1
  <2> QED BY <1>2, <2>2 DEF kHeaderItems
<1>8. ASSUME parse(file).ok PROVE parse(file).obs = obs
  <2>1. /\ Len(body) = Base(c) /\ \A j \in 1..c : Reads(body, j)
        /\ parse(file).obs = Observed(body, c)
    <3>1. body = Tail(file)
      BY DEF body
    <3> QED BY <1>7, <1>8, <3>1, ParseShape
  <2>2. c = n
    <3>1. (c < n => Base(c) < Base(n)) /\ (n < c => Base(n) < Base(c))
      BY Bases
    <3>2. c = n \/ c < n \/ n < c
      OBVIOUS
    <3> QED BY <1>4, <1>6, <2>1, <3>1, <3>2
  <2>3. ASSUME NEW j \in 1..n PROVE decode_observation(Data(body, j)) = obs[j]
    <3>1. j \in Nat \ {0} /\ obs[j] \in StoredObservations
      BY <1>1
    <3>2. Reads(body, j)
      BY <2>1, <2>2
    <3>3. body[Base(j)] = file[1 + Base(j)]
      <4>1. Base(j) \in Nat /\ Base(j) >= 4 /\ (j < n => Base(j) < Base(n))
        BY <3>1, Bases
      <4>2. j = n \/ j < n
        BY <2>3
      <4>3. Base(j) \in 1..Base(n)
        BY <1>4, <4>1, <4>2
      <4> QED BY <1>6, <4>3
    <3>4. body[Base(j)].val \in {encode_observation(obs[j]), <<>>}
      BY <1>1, <3>3
    <3> QED BY <1>6, <3>1, <3>2, <3>4, ReadsWritten
  <2>4. obs = [j \in 1..n |-> obs[j]]
    BY <1>1
  <2> QED BY <2>1, <2>2, <2>3, <2>4 DEF Observed
<1> QED BY <1>8

(* A file that is shorter or longer than what save wrote is refused. *)
LEMMA OtherLength ==
    ASSUME NEW obs \in Seq(StoredObservations), NEW X, NEW file \in Seq(X),
           Len(file) # Len(Encoded(obs)), Len(file) >= 5 => file[5] = Item("count", Len(obs))
    PROVE  ~parse(file).ok
<1>1. PICK n \in Nat : n = Len(obs)
  OBVIOUS
<1> DEFINE body == Tail(file)
<1>2. Len(Encoded(obs)) = 1 + Base(n) /\ Base(n) \in Nat
  <2>1. Wrote(Encoded(obs), obs, Len(obs))
    BY EncodedShape
  <2> QED BY <1>1, <2>1, WrittenItems, Bases
<1>3. HeaderAccepted(file) => /\ file # <<>> /\ Len(body) >= 4
  BY DEF HeaderAccepted, kHeaderItems
<1>4. file # <<>> => /\ Len(file) \in Nat /\ Len(body) = Len(file) - 1
                     /\ \A i \in 1..(Len(file) - 1) : body[i] = file[1 + i]
  BY BodyShape
<1> HIDE DEF body
<1>5. HeaderAccepted(file) => body[kHeaderItems].val = n
  <2> SUFFICES ASSUME HeaderAccepted(file) PROVE body[kHeaderItems].val = n
    OBVIOUS
  <2>1. 4 \in 1..(Len(file) - 1) /\ 1 + 4 = 5 /\ Len(file) >= 5
    BY <1>3, <1>4
  <2>2. body[4] = file[5] /\ file[5] = Item("count", Len(obs))
    BY <1>3, <1>4, <2>1
  <2> QED BY <1>1, <2>2 DEF kHeaderItems, Item
<1>6. SUFFICES ASSUME parse(file).ok PROVE FALSE
  OBVIOUS
<1>7. HeaderAccepted(file) /\ Len(body) = Base(n)
  <2>1. body = Tail(file)
    BY DEF body
  <2> QED BY <1>5, <1>6, <2>1, ParseShape
<1> QED BY <1>2, <1>3, <1>4, <1>7

WithValue(file, i, v) == [file EXCEPT ![i].val = v]

(* One altered item: the lengths and the count are checked against what    *)
(* follows them, every field by its checksum.                              *)
LEMMA AlteredFile ==
    ASSUME NEW obs \in Seq(StoredObservations), NEW whole, whole = Encoded(obs),
           NEW i \in DOMAIN whole, NEW v \in Altered(whole[i]),
           NEW file, file = WithValue(whole, i, v)
    PROVE  parse(file).ok => parse(file).obs = obs
<1>1. Wrote(whole, obs, Len(obs))
  BY EncodedShape
<1>2. /\ whole \in Seq(FileItem) /\ whole # <<>> /\ Len(whole) = 1 + Base(Len(obs))
      /\ whole[5] = Item("count", Len(obs))
      /\ \A j \in 1..Len(obs) : whole[1 + Base(j)] = Item("crc", encode_observation(obs[j]))
  BY <1>1, WrittenItems
<1>3. Base(Len(obs)) \in Nat /\ Base(Len(obs)) >= 4 /\ Len(obs) \in Nat
  <2>1. Len(obs) \in Nat
    OBVIOUS
  <2> QED BY <2>1, Bases
<1> DEFINE new == [whole[i] EXCEPT !.val = v]
           X == FileItem \cup {new}
<1>4. /\ file \in Seq(X) /\ Len(file) = Len(whole) /\ file[i] = new
      /\ \A k \in 1..Len(whole) : k # i => file[k] = whole[k]
  <2>1. file = [whole EXCEPT ![i] = new]
    BY DEF new, WithValue
  <2>2. new \in X /\ whole \in Seq(X) /\ i \in 1..Len(whole)
    BY <1>2
  <2> HIDE DEF new, X
  <2> QED BY <2>1, <2>2, ExceptSeq
<1>5. new.val = v
  <2>1. whole[i] \in FileItem
    BY <1>2
  <2>2. whole[i] = [kind |-> whole[i].kind, val |-> whole[i].val]
    BY <2>1 DEF FileItem, FieldItem
  <2> QED BY <2>2
<1> HIDE DEF new, X
<1>6. file[5].val \in Nat
  <2>1. 5 \in 1..Len(whole)
    BY <1>2, <1>3
  <2>2. CASE i = 5
    <3>1. whole[i].kind = "count"
      BY <1>2, <2>2 DEF Item
    <3>2. v \in 0..(MaxSaved + 1)
      BY <3>1 DEF Altered
    <3> QED BY <1>4, <1>5, <2>2, <3>2, FileAssumption
  <2>3. CASE i # 5
    BY <1>2, <1>3, <1>4, <2>1, <2>3 DEF Item
  <2> QED BY <2>2, <2>3
<1>7. ASSUME NEW j \in 1..Len(obs)
      PROVE  file[1 + Base(j)].val \in {encode_observation(obs[j]), <<>>}
  <2>1. whole[1 + Base(j)] = Item("crc", encode_observation(obs[j]))
    BY <1>2
  <2>2. 1 + Base(j) \in 1..Len(whole)
    <3>1. Base(j) \in Nat /\ Base(j) <= Base(Len(obs))
      <4>1. j \in Nat /\ (j = Len(obs) \/ j < Len(obs))
        BY <1>3
      <4>2. Base(j) \in Nat /\ (j < Len(obs) => Base(j) < Base(Len(obs)))
        BY <1>3, <4>1, Bases
      <4> QED BY <1>3, <4>1, <4>2
    <3> QED BY <1>2, <1>3, <3>1
  <2>3. CASE i = 1 + Base(j)
    <3>1. whole[i].kind = "crc"
      BY <2>1, <2>3 DEF Item
    <3>2. v = <<>>
      BY <3>1 DEF Altered
    <3> QED BY <1>4, <1>5, <2>3, <3>2
  <2>4. CASE i # 1 + Base(j)
    BY <1>4, <2>1, <2>2, <2>4 DEF Item
  <2> QED BY <2>3, <2>4
<1> QED BY <1>4, <1>6, <1>7, SameLength

(* A file that was cut, and one that was extended.                         *)
LEMMA CutFile ==
    ASSUME NEW obs \in Seq(StoredObservations), NEW whole, whole = Encoded(obs),
           NEW n \in 0..(Len(whole) - 1)
    PROVE  ~parse(SubSeq(whole, 1, n)).ok
<1> DEFINE file == SubSeq(whole, 1, n)
<1>1. Wrote(whole, obs, Len(obs))
  BY EncodedShape
<1>2. whole \in Seq(FileItem) /\ whole[5] = Item("count", Len(obs))
  BY <1>1, WrittenItems
<1>3. /\ 1 \in Nat \ {0} /\ n \in Nat /\ 1 <= n + 1 /\ n <= Len(whole) /\ n - 1 + 1 = n /\ n < Len(whole)
      /\ \A k \in 1..n : 1 + k - 1 = k
  BY <1>2
<1>4. file \in Seq(FileItem) /\ IsPiece(file, whole, 1, n)
  BY <1>2, <1>3, Piece
<1> HIDE DEF file
<1>5. Len(file) = n /\ \A k \in 1..n : file[k] = whole[k]
  BY <1>3, <1>4 DEF IsPiece
<1>6. Len(file) # Len(whole) /\ (Len(file) >= 5 => file[5] = Item("count", Len(obs)))
  BY <1>2, <1>3, <1>5
<1>7. ~parse(file).ok
  BY <1>4, <1>6, OtherLength
<1> QED BY <1>7 DEF file

LEMMA ExtendedFile ==
    ASSUME NEW obs \in Seq(StoredObservations), NEW whole, whole = Encoded(obs),
           NEW t \in {<<Item("length", kFields)>>} \cup {Record(o) : o \in StoredObservations}
    PROVE  ~parse(whole \o t).ok
<1> DEFINE file == whole \o t
<1>1. Wrote(whole, obs, Len(obs))
  BY EncodedShape
<1>2. /\ whole \in Seq(FileItem) /\ Len(whole) = 1 + Base(Len(obs))
      /\ whole[5] = Item("count", Len(obs))
  BY <1>1, WrittenItems
<1>3. Base(Len(obs)) \in Nat /\ Base(Len(obs)) >= 4
  <2>1. Len(obs) \in Nat
    OBVIOUS
  <2> QED BY <2>1, Bases
<1>4. t \in Seq(FileItem) /\ Len(t) >= 1
  <2>1. CASE t = <<Item("length", kFields)>>
    <3>1. Item("length", kFields) \in FileItem
      BY FileAssumption DEF Item, FileItem
    <3> QED BY <2>1, <3>1
  <2>2. ASSUME NEW o \in StoredObservations, t = Record(o) PROVE t \in Seq(FileItem) /\ Len(t) >= 1
    BY <2>2, RecordShape, FileAssumption DEF kRecord
  <2> QED BY <2>1, <2>2
<1>5. file \in Seq(FileItem) /\ IsJoin(file, whole, t)
  BY <1>2, <1>4, Joined
<1> HIDE DEF file
<1>6. Len(file) # Len(whole) /\ file[5] = Item("count", Len(obs))
  <2>1. 5 \in 1..Len(whole)
    BY <1>2, <1>3
  <2> QED BY <1>2, <1>4, <1>5, <2>1 DEF IsJoin
<1>7. ~parse(file).ok
  BY <1>5, <1>6, OtherLength
<1> QED BY <1>7 DEF file

(* What save wrote and nobody touched is loaded as it was saved. *)
LEMMA SavedFile ==
    ASSUME NEW obs \in Seq(StoredObservations)
    PROVE  /\ parse(Encoded(obs)).ok => parse(Encoded(obs)).obs = obs
           /\ parse(Encoded(obs)).ok
<1> DEFINE file == Encoded(obs)
<1>1. Wrote(file, obs, Len(obs))
  BY EncodedShape
<1>2. /\ file \in Seq(FileItem) /\ file[5] = Item("count", Len(obs))
      /\ \A j \in 1..Len(obs) : file[1 + Base(j)] = Item("crc", encode_observation(obs[j]))
  BY <1>1, WrittenItems
<1> HIDE DEF file
<1>3. file[5].val \in Nat
  <2>1. Len(obs) \in Nat /\ Item("count", Len(obs)).val = Len(obs)
    BY DEF Item
  <2> QED BY <1>2, <2>1
<1>4. ASSUME NEW j \in 1..Len(obs)
      PROVE  file[1 + Base(j)].val \in {encode_observation(obs[j]), <<>>}
  <2>1. Item("crc", encode_observation(obs[j])).val = encode_observation(obs[j])
    BY DEF Item
  <2> QED BY <1>2, <2>1
<1>5. parse(file).ok => parse(file).obs = obs
  <2>1. Len(file) = Len(Encoded(obs))
    BY DEF file
  <2> QED BY <1>2, <1>3, <1>4, <2>1, SameLength
<1>6. parse(Encoded(obs)).ok
  BY LoadsWhole
<1> QED BY <1>5, <1>6 DEF file

(***************************************************************************)
(* HistoryFile's invariant: an undamaged file is the one save wrote, so    *)
(* the first damage meets a file of that shape.                            *)
(***************************************************************************)
FileInv ==
    /\ saved \in Seq(StoredObservations) /\ damages \in Nat
    /\ damages = 0 => disk = Encoded(saved)
    /\ IntactOrRefused

(* Every step keeps the invariant, as long as a file is damaged only once. *)
LEMMA FileStep ==
    ASSUME MaxDamages <= 1, FileInv, [FileNext]_fileVars
    PROVE  FileInv'
<1>1. saved \in Seq(StoredObservations) /\ damages \in Nat /\ IntactOrRefused
  BY DEF FileInv
<1>2. CASE \E n \in 0..MaxSaved : \E obs \in [1..n -> StoredObservations] : SaveFile(obs)
  <2>1. PICK n \in 0..MaxSaved : \E obs \in [1..n -> StoredObservations] : SaveFile(obs)
    BY <1>2
  <2>2. PICK obs \in [1..n -> StoredObservations] : SaveFile(obs)
    BY <2>1
  <2>3. obs \in Seq(StoredObservations)
    <3>1. n \in Nat
      BY FileAssumption
    <3> QED BY <3>1
  <2>4. saved' \in Seq(StoredObservations) /\ disk' = Encoded(saved') /\ damages' \in Nat
    BY <2>2, <2>3 DEF SaveFile
  <2>5. IntactOrRefused'
    <3>1. /\ parse(Encoded(obs)).ok => parse(Encoded(obs)).obs = obs
          /\ parse(Encoded(obs)).ok
      BY <2>3, SavedFile
    <3>2. saved' = obs /\ disk' = Encoded(obs)
      BY <2>2 DEF SaveFile
    <3> QED BY <3>1, <3>2 DEF IntactOrRefused
  <2> QED BY <2>4, <2>5 DEF FileInv
<1>3. CASE DamageFile
  <2>1. saved' = saved /\ damages = 0 /\ damages' = 1
    BY <1>1, <1>3, FileAssumption DEF DamageFile
  <2>2. PICK whole : whole = Encoded(saved) /\ disk = whole
    BY <2>1 DEF FileInv
  <2>3. parse(disk').ok => parse(disk').obs = saved
    <3>1. CASE Alter
      <4>1. \E i \in DOMAIN disk : \E v \in Altered(disk[i]) : disk' = WithValue(disk, i, v)
        BY <3>1 DEF Alter, WithValue
      <4>2. PICK i \in DOMAIN whole : \E v \in Altered(whole[i]) : disk' = WithValue(whole, i, v)
        BY <2>2, <4>1
      <4>3. PICK v \in Altered(whole[i]) : disk' = WithValue(whole, i, v)
        BY <4>2
      <4> QED BY <1>1, <2>2, <4>3, AlteredFile
    <3>2. CASE Cut
      <4>1. PICK n \in 0..(Len(whole) - 1) : disk' = SubSeq(whole, 1, n)
        BY <2>2, <3>2 DEF Cut
      <4> QED BY <1>1, <2>2, <4>1, CutFile
    <3>3. CASE Extend
      <4>1. PICK t \in {<<Item("length", kFields)>>} \cup {Record(o) : o \in StoredObservations} :
                disk' = whole \o t
        BY <2>2, <3>3 DEF Extend
      <4> QED BY <1>1, <2>2, <4>1, ExtendedFile
    <3> QED BY <1>3, <3>1, <3>2, <3>3 DEF DamageFile
  <2>4. IntactOrRefused'
    BY <2>1, <2>3 DEF IntactOrRefused
  <2> QED BY <1>1, <2>1, <2>4 DEF FileInv
<1>4. CASE UNCHANGED fileVars
  BY <1>4 DEF FileInv, IntactOrRefused, fileVars
<1> QED BY <1>2, <1>3, <1>4 DEF FileNext

LEMMA FileStart ==
    ASSUME FileInit
    PROVE  FileInv
<1>1. <<>> \in Seq(StoredObservations) /\ saved = <<>> /\ disk = Encoded(<<>>) /\ damages = 0
  BY DEF FileInit
<1>2. /\ parse(Encoded(<<>>)).ok => parse(Encoded(<<>>)).obs = <<>>
      /\ parse(Encoded(<<>>)).ok
  BY <1>1, SavedFile
<1> QED BY <1>1, <1>2 DEF FileInv, IntactOrRefused

(* A history file that was altered in one item, cut or extended since the  *)
(* last save is loaded exactly as it was saved or refused as a whole, and  *)
(* an untouched one is never refused.  One damage is as far as this goes:  *)
(* an altered count together with an appended record is accepted.          *)
THEOREM FileAlwaysIntactOrRefused ==
    MaxDamages <= 1 => (FileSpec => []IntactOrRefused)
<1> SUFFICES ASSUME MaxDamages <= 1 PROVE FileSpec => []IntactOrRefused
  OBVIOUS
<1>1. FileInit => FileInv
  BY FileStart
<1>2. FileInv /\ [FileNext]_fileVars => FileInv'
  BY FileStep
<1>3. FileInv => IntactOrRefused
  BY DEF FileInv
<1> QED BY <1>1, <1>2, <1>3, PTL DEF FileSpec
=============================================================================
