----------------------------- MODULE Intervals -----------------------------
(***************************************************************************)
(* The half-open interval algebra of the observatory (interval.hpp and the *)
(* merge helpers of observatory.cpp).  An interval is any record with the  *)
(* fields begin and end; it covers the ticks begin .. end - 1.             *)
(***************************************************************************)
EXTENDS Integers, Sequences, FiniteSets

(* Ticks are unsigned. *)
Interval == [begin : Nat, end : Nat]

duration(iv) == IF iv.end >= iv.begin THEN iv.end - iv.begin ELSE 0

contains(iv, t) == t >= iv.begin /\ t < iv.end

intersect(a, b) ==
    LET lo == IF a.begin < b.begin THEN b.begin ELSE a.begin
        hi == IF a.end < b.end THEN a.end ELSE b.end
    IN  [begin |-> lo, end |-> IF hi < lo THEN lo ELSE hi]

(* The order merge_intervals sorts by. *)
Precedes(a, b) == a.begin < b.begin \/ (a.begin = b.begin /\ a.end < b.end)

(* Plausible bug: a nested interval shortens the one it lies in. *)
MutMergeShrinks(out, iv) ==
    LET n == Len(out)
    IN  IF iv.end <= iv.begin THEN out
        ELSE IF n = 0 \/ iv.begin >= out[n].end THEN Append(out, iv)
        ELSE [out EXCEPT ![n].end = iv.end]

(* Plausible bug: an interval that starts before the last one ends is kept apart. *)
MutMergeAppends(out, iv) ==
    LET n == Len(out)
    IN  IF iv.end <= iv.begin THEN out
        ELSE IF n = 0 \/ iv.begin > out[n].begin THEN Append(out, iv)
        ELSE IF iv.end > out[n].end THEN [out EXCEPT ![n].end = iv.end]
        ELSE out

(* One iteration of the loop: skip an empty interval, start a new run at a *)
(* gap, or extend the last run.                                            *)
MergeOne(out, iv) ==
    LET n == Len(out)
    IN  IF iv.end <= iv.begin THEN out
        ELSE IF n = 0 \/ iv.begin >= out[n].end THEN Append(out, iv)
        ELSE IF iv.end > out[n].end THEN [out EXCEPT ![n].end = iv.end]
        ELSE out

(* std::sort: the elements of a finite set in an order in which nothing    *)
(* stands behind what it precedes; before is a set of pairs.               *)
ranked(S, before) ==
    CHOOSE f \in [1..Cardinality(S) -> S] :
        /\ \A x \in S : \E i \in 1..Cardinality(S) : f[i] = x
        /\ \A i, j \in 1..Cardinality(S) : i < j => <<f[j], f[i]>> \notin before

sort(ivs) ==
    LET places == 1..Len(ivs)
        f == ranked(places, {p \in places \X places : Precedes(ivs[p[1]], ivs[p[2]])})
    IN  [i \in places |-> ivs[f[i]]]

merge_intervals(ivs) ==
    LET s == sort(ivs)
        out[n \in 0..Len(s)] == IF n = 0 THEN <<>> ELSE MergeOne(out[n - 1], s[n])
    IN  out[Len(s)]

union_duration(ivs) ==
    LET m == merge_intervals(ivs)
        total[n \in 0..Len(m)] == IF n = 0 THEN 0 ELSE total[n - 1] + duration(m[n])
    IN  total[Len(m)]

(* Plausible bug: the sweep always advances the first list. *)
MutAdvanceFirst(x, y) == TRUE

(* Which list the sweep advances: the one whose current interval ends first. *)
AdvanceFirst(x, y) == x.end < y.end

(* One iteration of the two-pointer sweep over merged lists; at has the    *)
(* positions in the two lists and the total so far.                        *)
SweepOne(ma, mb, at) ==
    IF at.i > Len(ma) \/ at.j > Len(mb) THEN at
    ELSE LET first == AdvanceFirst(ma[at.i], mb[at.j])
         IN  [i |-> IF first THEN at.i + 1 ELSE at.i,
              j |-> IF first THEN at.j ELSE at.j + 1,
              total |-> at.total + duration(intersect(ma[at.i], mb[at.j]))]

(* Every iteration advances one list, so there are no more iterations than *)
(* intervals.                                                              *)
intersect_union_duration(a, b) ==
    LET ma == merge_intervals(a)
        mb == merge_intervals(b)
        at[n \in 0..(Len(ma) + Len(mb))] ==
            IF n = 0 THEN [i |-> 1, j |-> 1, total |-> 0] ELSE SweepOne(ma, mb, at[n - 1])
    IN  at[Len(ma) + Len(mb)].total
=============================================================================
