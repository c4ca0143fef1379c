------------------------------- MODULE Ledger -------------------------------
(***************************************************************************)
(* What the observatory promises of its history: a bounded log, each entry *)
(* of which may follow everything kept before it, and a file from which a  *)
(* prefix of what was copied comes back.  How an entry is admitted, and    *)
(* how a log is rebuilt from a file, is not said here.                     *)
(***************************************************************************)
EXTENDS Integers, Sequences

CONSTANTS
    Entries,            \* what may be recorded
    bound,              \* how many entries are kept
    MayFollow(_, _)     \* whether the second entry may come after the first

VARIABLES
    log,        \* the entries kept, oldest first; empty during a load
    copy,       \* the log as a save copied it
    disk,       \* the log as the file holds it, empty if there is no file
    parsed,     \* the log as a load has read it
    loading     \* whether a load has cleared the log and not yet restored it

ledgerVars == <<log, copy, disk, parsed, loading>>

Init ==
    /\ log = <<>> /\ copy = <<>> /\ disk = <<>> /\ parsed = <<>>
    /\ loading = FALSE

Kept(h) == IF Len(h) <= bound THEN h ELSE Tail(h)

(* A new entry pushes out the oldest one when the log is full. *)
Record(e) ==
    /\ ~loading
    /\ \A i \in 1..Len(log) : MayFollow(log[i], e)
    /\ log' = Kept(Append(log, e))
    /\ UNCHANGED <<copy, disk, parsed, loading>>

Copy ==
    /\ ~loading
    /\ copy' = log
    /\ UNCHANGED <<log, disk, parsed, loading>>

(* The file is replaced by the copy as a whole ... *)
Store ==
    /\ disk' = copy
    /\ copy' = <<>>
    /\ UNCHANGED <<log, parsed, loading>>

(* ... or not at all, or it is lost. *)
Abandon ==
    /\ disk' \in {disk, <<>>}
    /\ copy' = <<>>
    /\ UNCHANGED <<log, parsed, loading>>

Parse ==
    /\ ~loading
    /\ parsed' = disk
    /\ UNCHANGED <<log, copy, disk, loading>>

Clear ==
    /\ ~loading
    /\ loading' = TRUE
    /\ log' = <<>>
    /\ UNCHANGED <<copy, disk, parsed>>

(* A load brings back a prefix of what it has read, and nothing else. *)
Restore ==
    /\ loading
    /\ loading' = FALSE
    /\ \E n \in 0..Len(parsed) : log' = SubSeq(parsed, 1, n)
    /\ parsed' = <<>>
    /\ UNCHANGED <<copy, disk>>

(* A crash loses everything but the file, and the file too if it was being *)
(* replaced.                                                               *)
Crash ==
    /\ log' = <<>> /\ copy' = <<>> /\ parsed' = <<>>
    /\ loading' = FALSE
    /\ disk' \in {disk, <<>>}

Next ==
    \/ \E e \in Entries : Record(e)
    \/ Copy \/ Store \/ Abandon \/ Parse \/ Clear \/ Restore \/ Crash

Spec == Init /\ [][Next]_ledgerVars
=============================================================================
