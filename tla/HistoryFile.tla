---------------------------- MODULE HistoryFile ----------------------------
(***************************************************************************)
(* The bytes of the history file: what save writes, and what load makes of *)
(* a file that may have been altered, cut or extended since.               *)
(*                                                                         *)
(* The file is a sequence of items: the magic, the header (version, epoch, *)
(* generation, count) and for every observation its length, its fields and *)
(* its checksum.  Only the records are covered by checksums; a checksum is *)
(* taken to tell every record from every other.  Observatory's LoadParse   *)
(* is load on a file this module lets through, and its ReadOnly load on    *)
(* one that is refused.                                                    *)
(***************************************************************************)
EXTENDS Integers, Sequences

CONSTANTS
    FieldValues,    \* what a field of an observation may hold
    kFields,        \* how many items an encoded observation has
    kMaxRecord,     \* the literal 16 MiB, the largest record load accepts
    MaxSaved,       \* bound on the observations in a file
    MaxDamages      \* bound on the damages to a file

ASSUME FileAssumption ==
    /\ FieldValues \subseteq Nat
    /\ kFields \in Nat \ {0} /\ kMaxRecord \in Nat /\ kMaxRecord >= kFields
    /\ MaxSaved \in Nat /\ MaxDamages \in Nat

VARIABLES
    saved,      \* the observations the last save was given
    disk,       \* the items of the file
    damages     \* how often the file has been damaged since

fileVars == <<saved, disk, damages>>

StoredObservations == [1..kFields -> FieldValues]

Item(k, v) == [kind |-> k, val |-> v]

kFormatVersion == 1

-----------------------------------------------------------------------------
(***************************************************************************)
(* save                                                                    *)
(***************************************************************************)
encode_observation(o) == [f \in 1..kFields |-> Item("field", o[f])]

Record(o) ==
    LET enc == encode_observation(o)
    IN  <<Item("length", Len(enc))>> \o enc \o <<Item("crc", enc)>>

(* The epoch and the generation are written but never used. *)
Header(n) == <<Item("magic", 1), Item("version", kFormatVersion), Item("epoch", 1),
               Item("generation", 1), Item("count", n)>>

Encoded(obs) ==
    LET out[i \in 0..Len(obs)] == IF i = 0 THEN Header(Len(obs)) ELSE out[i - 1] \o Record(obs[i])
    IN  out[Len(obs)]

-----------------------------------------------------------------------------
(***************************************************************************)
(* load                                                                    *)
(***************************************************************************)
decode_observation(data) == [f \in 1..kFields |-> data[f].val]

kHeaderItems == 4

(* The magic is in place, the header is whole and of this version, and the *)
(* count is one the body could hold.                                       *)
HeaderAccepted(file) ==
    LET body == Tail(file)
    IN  /\ file # <<>> /\ file[1].val = 1
        /\ Len(body) >= kHeaderItems
        /\ body[1].val = kFormatVersion
        /\ body[kHeaderItems].val <= Len(body) \div 2

(* Where the reader stands: ok, the items consumed, the observations read. *)
Start == [ok |-> TRUE, off |-> kHeaderItems, obs |-> <<>>]

(* A field does not pass for a checksum. *)
CrcMatches(item, data) == item.kind = "crc" /\ item.val = data

(* Read one record from where r stands. *)
ReadRecord(body, r) ==
    LET here == r.off + 1
        len == body[here].val
        data == SubSeq(body, here + 1, here + len)
    IN  IF /\ r.ok /\ here <= Len(body)
           /\ len \in 1..kMaxRecord
           /\ here + len + 1 <= Len(body)
           /\ CrcMatches(body[here + len + 1], data)
           /\ len = kFields
        THEN [ok |-> TRUE, off |-> here + len + 1,
              obs |-> Append(r.obs, decode_observation(data))]
        ELSE [r EXCEPT !.ok = FALSE]

(* Plausible bug: what follows the last record is ignored. *)
MutConsumed(body, r) == TRUE

(* Nothing follows the last record. *)
Consumed(body, r) == r.off = Len(body)

Refused == [ok |-> FALSE, off |-> 0, obs |-> <<>>]

parse(file) ==
    IF ~HeaderAccepted(file) THEN Refused
    ELSE LET body == Tail(file)
             count == body[kHeaderItems].val
             reader[i \in 0..count] == IF i = 0 THEN Start ELSE ReadRecord(body, reader[i - 1])
         IN  IF Consumed(body, reader[count]) THEN reader[count] ELSE Refused

-----------------------------------------------------------------------------
FileInit == saved = <<>> /\ disk = Encoded(<<>>) /\ damages = 0

SaveFile(obs) ==
    /\ saved' = obs
    /\ disk' = Encoded(obs)
    /\ damages' = 0

(* The values an item may be altered to. *)
Altered(item) ==
    CASE item.kind \in {"magic", "version", "epoch", "generation"} -> {item.val + 1}
      [] item.kind = "count"  -> (0..(MaxSaved + 1)) \ {item.val}
      [] item.kind = "length" -> (0..(kMaxRecord + 1)) \ {item.val}
      [] item.kind = "field"  -> FieldValues \ {item.val}
      [] item.kind = "crc"    -> {<<>>}

Alter == \E i \in DOMAIN disk : \E v \in Altered(disk[i]) : disk' = [disk EXCEPT ![i].val = v]

Cut == \E n \in 0..(Len(disk) - 1) : disk' = SubSeq(disk, 1, n)

(* A stray item or a whole record follows the file. *)
Extend ==
    \E t \in {<<Item("length", kFields)>>} \cup {Record(o) : o \in StoredObservations} :
        disk' = disk \o t

DamageFile ==
    /\ damages < MaxDamages
    /\ Alter \/ Cut \/ Extend
    /\ damages' = damages + 1
    /\ UNCHANGED saved

FileNext == (\E n \in 0..MaxSaved : \E obs \in [1..n -> StoredObservations] : SaveFile(obs)) \/ DamageFile

FileSpec == FileInit /\ [][FileNext]_fileVars

-----------------------------------------------------------------------------
(* A file is loaded exactly as it was saved or refused as a whole, however *)
(* it was damaged since, although count, epoch and generation carry no     *)
(* checksum; an undamaged file is never refused.                           *)
IntactOrRefused ==
    /\ parse(disk).ok => parse(disk).obs = saved
    /\ damages = 0 => parse(disk).ok
=============================================================================
