--------------------------- MODULE Windows_proofs ---------------------------
(***************************************************************************)
(* Theorems about Intervals and Windows, for every list of spans and every *)
(* window.                                                                 *)
(***************************************************************************)
EXTENDS Windows, Loops, FiniteSetTheorems, SequenceTheorems, TLAPS

(***************************************************************************)
(* Sorting.                                                                *)
(***************************************************************************)
Ranks(f, S, n, R) ==
    /\ f \in [1..n -> S]
    /\ \A x \in S : \E i \in 1..n : f[i] = x
    /\ \A i, j \in 1..n : i < j => <<f[j], f[i]>> \notin R

(* No element precedes itself, and what does not come after y comes before *)
(* whatever y comes before.                                                *)
WeakOrder(S, R) ==
    /\ \A x \in S : <<x, x>> \notin R
    /\ \A x, y, z \in S : <<x, y>> \in R /\ <<z, y>> \notin R => <<z, x>> \notin R

(* An order of a set leaves a place for one more element, behind all that  *)
(* do not come after it.                                                   *)
LEMMA Insert ==
    ASSUME NEW S, NEW R, WeakOrder(S, R), NEW T, T \subseteq S, NEW x \in S,
           NEW n \in Nat, NEW f, Ranks(f, T, n, R)
    PROVE  \E g : Ranks(g, T \cup {x}, n + 1, R)
<1> DEFINE K == {i \in 1..n : <<x, f[i]>> \in R} \cup {n + 1}
<1>1. \A i \in 1..n : f[i] \in T /\ f[i] \in S
  BY DEF Ranks
<1>2. PICK k \in K : \A i \in K : k <= i
  <2>1. K \subseteq Nat /\ K # {}
    OBVIOUS
  <2> HIDE DEF K
  <2> QED BY <2>1, Least
<1>3. k \in 1..(n + 1)
  OBVIOUS
<1>4. \A i \in 1..n : i < k => <<x, f[i]>> \notin R
  BY <1>2, <1>3
<1>5. ASSUME NEW i \in 1..n, k <= i PROVE <<f[i], x>> \notin R
  <2>1. k \in 1..n /\ <<x, f[k]>> \in R
    BY <1>2, <1>5
  <2>2. <<f[i], f[k]>> \notin R
    <3>1. CASE i = k
      BY <1>1, <3>1 DEF WeakOrder
    <3>2. CASE i # k
      <4>1. k < i
        BY <1>5, <2>1, <3>2
      <4> QED BY <2>1, <4>1 DEF Ranks
    <3> QED BY <3>1, <3>2
  <2> QED BY <1>1, <2>1, <2>2 DEF WeakOrder
<1> DEFINE g == [i \in 1..(n + 1) |-> IF i < k THEN f[i] ELSE IF i = k THEN x ELSE f[i - 1]]
<1>6. /\ \A i \in 1..(n + 1) : i < k => i \in 1..n /\ g[i] = f[i]
      /\ g[k] = x
      /\ \A i \in 1..(n + 1) : k < i => i - 1 \in 1..n /\ k <= i - 1 /\ g[i] = f[i - 1]
  BY <1>3
<1>7. g \in [1..(n + 1) -> T \cup {x}]
  <2>1. \A i \in 1..(n + 1) : g[i] \in T \cup {x}
    BY <1>1, <1>3
  <2> QED BY <2>1
<1> HIDE DEF K, g
<1>8. ASSUME NEW y \in T \cup {x} PROVE \E i \in 1..(n + 1) : g[i] = y
  <2>1. CASE y = x
    BY <1>3, <1>6, <2>1
  <2>2. CASE y # x
    <3>1. PICK i \in 1..n : f[i] = y
      BY <2>2 DEF Ranks
    <3>2. CASE i < k
      BY <1>6, <3>1, <3>2
    <3>3. CASE ~(i < k)
      <4>1. i + 1 \in 1..(n + 1) /\ k < i + 1 /\ (i + 1) - 1 = i
        BY <1>3, <3>3
      <4>2. g[i + 1] = f[i]
        BY <1>6, <4>1
      <4> QED BY <3>1, <4>1, <4>2
    <3> QED BY <3>2, <3>3
  <2> QED BY <2>1, <2>2
<1>9. ASSUME NEW i \in 1..(n + 1), NEW j \in 1..(n + 1), i < j
      PROVE  <<g[j], g[i]>> \notin R
  <2>1. CASE j < k
    <3>1. i < k /\ i \in 1..n /\ j \in 1..n /\ g[i] = f[i] /\ g[j] = f[j]
      BY <1>3, <1>6, <1>9, <2>1
    <3> QED BY <1>9, <3>1 DEF Ranks
  <2>2. CASE j = k
    <3>1. i \in 1..n /\ g[i] = f[i] /\ g[j] = x /\ i < k
      BY <1>6, <1>9, <2>2
    <3> QED BY <1>4, <3>1
  <2>3. CASE k < j /\ i < k
    <3>1. /\ i \in 1..n /\ g[i] = f[i]
          /\ j - 1 \in 1..n /\ g[j] = f[j - 1] /\ i < j - 1
      BY <1>3, <1>6, <2>3
    <3> QED BY <3>1 DEF Ranks
  <2>4. CASE k < j /\ i = k
    <3>1. j - 1 \in 1..n /\ k <= j - 1 /\ g[j] = f[j - 1] /\ g[i] = x
      BY <1>6, <2>4
    <3> QED BY <1>5, <3>1
  <2>5. CASE k < j /\ k < i
    <3>1. /\ i - 1 \in 1..n /\ g[i] = f[i - 1]
          /\ j - 1 \in 1..n /\ g[j] = f[j - 1] /\ i - 1 < j - 1
      BY <1>6, <1>9, <2>5
    <3> QED BY <3>1 DEF Ranks
  <2> QED BY <1>3, <2>1, <2>2, <2>3, <2>4, <2>5
<1>10. Ranks(g, T \cup {x}, n + 1, R)
  BY <1>7, <1>8, <1>9 DEF Ranks
<1> QED BY <1>10

(* Every finite set can be sorted.                                         *)
LEMMA RankedShape ==
    ASSUME NEW S, IsFiniteSet(S), NEW R, WeakOrder(S, R)
    PROVE  Cardinality(S) \in Nat /\ Ranks(ranked(S, R), S, Cardinality(S), R)
<1> DEFINE Sortable(T, n) == Cardinality(T) = n => \E f : Ranks(f, T, n, R)
           G == {n \in Nat : \A T \in SUBSET S : Sortable(T, n)}
<1>1. 0 \in G
  <2>1. ASSUME NEW T \in SUBSET S, Cardinality(T) = 0 PROVE \E f : Ranks(f, T, 0, R)
    <3>1. T = {}
      BY <2>1, FS_EmptySet, FS_Subset
    <3>2. Ranks([i \in 1..0 |-> 0], T, 0, R)
      BY <3>1 DEF Ranks
    <3> QED BY <3>2
  <2> QED BY <2>1
<1>2. ASSUME NEW n \in G PROVE n + 1 \in G
  <2>1. n \in Nat /\ n + 1 \in Nat /\ n + 1 # 0
    OBVIOUS
  <2>2. ASSUME NEW T \in SUBSET S, Cardinality(T) = n + 1 PROVE \E f : Ranks(f, T, n + 1, R)
    <3>1. IsFiniteSet(T) /\ T # {}
      BY <2>1, <2>2, FS_EmptySet, FS_Subset
    <3>2. PICK x \in T : TRUE
      BY <3>1
    <3> DEFINE U == T \ {x}
    <3>3. Cardinality(U) = n
      <4>1. Cardinality(U) = Cardinality(T) - 1
        BY <3>1, <3>2, FS_RemoveElement
      <4> QED BY <2>1, <2>2, <4>1
    <3>4. U \subseteq S /\ T = U \cup {x} /\ x \in S
      BY <3>2
    <3> HIDE DEF U
    <3>5. PICK f : Ranks(f, U, n, R)
      BY <3>3, <3>4
    <3> QED BY <2>1, <3>4, <3>5, Insert
  <2> QED BY <2>1, <2>2
<1> HIDE DEF Sortable
<1>3. G = Nat
  <2> HIDE DEF G
  <2>1. G \subseteq Nat
    BY DEF G
  <2> QED BY <1>1, <1>2, <2>1, NatInduct
<1>4. Cardinality(S) \in Nat
  BY FS_CardinalityType
<1>5. PICK f : Ranks(f, S, Cardinality(S), R)
  BY <1>3, <1>4 DEF Sortable
<1>6. Ranks(ranked(S, R), S, Cardinality(S), R)
  BY <1>5, Zenon DEF Ranks, ranked
<1> QED BY <1>4, <1>6

(* What merge_intervals sorts is the same intervals, by their begin        *)
(* (std::sort).                                                            *)
LEMMA SortShape ==
    ASSUME NEW s \in Seq(Interval)
    PROVE  /\ sort(s) \in Seq(Interval) /\ Len(sort(s)) = Len(s)
           /\ \A i, j \in 1..Len(s) : i < j => sort(s)[i].begin <= sort(s)[j].begin
           /\ \A i \in 1..Len(s) : \E k \in 1..Len(s) : sort(s)[i] = s[k]
           /\ \A k \in 1..Len(s) : \E i \in 1..Len(s) : sort(s)[i] = s[k]
<1> DEFINE n == Len(s)
           R == {p \in (1..n) \X (1..n) : Precedes(s[p[1]], s[p[2]])}
           f == ranked(1..n, R)
<1>1. n \in Nat /\ \A i \in 1..n : s[i] \in Interval
  OBVIOUS
<1>2. sort(s) = [i \in 1..n |-> s[f[i]]]
  BY DEF sort
<1> HIDE DEF f, n
<1>3. \A i, j \in 1..n : <<i, j>> \in R <=> Precedes(s[i], s[j])
  OBVIOUS
<1> HIDE DEF R
<1>4. \A i \in 1..n : s[i].begin \in Nat /\ s[i].end \in Nat
  BY <1>1 DEF Interval
<1>5. WeakOrder(1..n, R)
  <2>1. \A i \in 1..n : <<i, i>> \notin R
    BY <1>3, <1>4 DEF Precedes
  <2>2. ASSUME NEW i \in 1..n, NEW j \in 1..n, NEW k \in 1..n,
               Precedes(s[i], s[j]), ~Precedes(s[k], s[j])
        PROVE  ~Precedes(s[k], s[i])
    BY <1>4, <2>2, SMTT(30) DEF Precedes
  <2> QED BY <1>3, <2>1, <2>2 DEF WeakOrder
<1>6. Ranks(f, 1..n, n, R)
  <2>1. IsFiniteSet(1..n) /\ Cardinality(1..n) = n
    BY <1>1, FS_Interval
  <2> QED BY <1>5, <2>1, RankedShape DEF f
<1>7. \A i \in 1..n : f[i] \in 1..n /\ s[f[i]] \in Interval /\ sort(s)[i] = s[f[i]]
  <2>1. \A i \in 1..n : f[i] \in 1..n
    BY <1>6 DEF Ranks
  <2> QED BY <1>1, <1>2, <2>1
<1>8. sort(s) \in Seq(Interval) /\ Len(sort(s)) = n
  BY <1>1, <1>2, <1>7
<1>9. ASSUME NEW i \in 1..n, NEW j \in 1..n, i < j
      PROVE  sort(s)[i].begin <= sort(s)[j].begin
  <2>1. <<f[j], f[i]>> \notin R
    BY <1>6, <1>9 DEF Ranks
  <2>2. f[i] \in 1..n /\ f[j] \in 1..n
    BY <1>7
  <2>3. ~Precedes(s[f[j]], s[f[i]])
    BY <1>3, <2>1, <2>2
  <2>4. s[f[i]].begin <= s[f[j]].begin
    BY <1>4, <2>2, <2>3, SMTT(30) DEF Precedes
  <2> QED BY <1>7, <2>4
<1>10. ASSUME NEW k \in 1..n PROVE \E i \in 1..n : sort(s)[i] = s[k]
  <2>1. PICK i \in 1..n : f[i] = k
    BY <1>6 DEF Ranks
  <2>2. sort(s)[i] = s[f[i]]
    BY <1>7
  <2> QED BY <2>1, <2>2, Zenon
<1> QED BY <1>7, <1>8, <1>9, <1>10 DEF n

(***************************************************************************)
(* Merging.                                                                *)
(***************************************************************************)
Apart(m) ==
    /\ \A i \in 1..Len(m) : m[i].begin < m[i].end
    /\ \A i, j \in 1..Len(m) : i < j => m[i].end <= m[j].begin

Holds(m, t) == \E i \in 1..Len(m) : contains(m[i], t)

(* The last interval of a list begins no later than b.                     *)
LastBefore(m, b) == Len(m) > 0 => m[Len(m)].begin <= b

LEMMA IntervalType == \A x \in Interval : x.begin \in Nat /\ x.end \in Nat
BY DEF Interval

LEMMA MergeOneType ==
    ASSUME NEW out \in Seq(Interval), NEW iv \in Interval
    PROVE  MergeOne(out, iv) \in Seq(Interval)
<1> DEFINE n == Len(out)
<1>1. CASE n > 0
  <2>1. n \in 1..n /\ out[n] \in Interval
    BY <1>1
  <2>2. [out[n] EXCEPT !.end = iv.end] \in Interval
    BY <2>1 DEF Interval
  <2>3. [out EXCEPT ![n].end = iv.end] \in Seq(Interval)
    BY <2>1, <2>2
  <2> QED BY <2>3, AppendProperties DEF MergeOne
<1>2. CASE n = 0
  BY <1>2, AppendProperties DEF MergeOne
<1> QED BY <1>1, <1>2

(* One iteration of merge_intervals keeps the merged list apart and adds   *)
(* exactly the ticks of the next interval to it.                           *)
LEMMA MergeOneShape ==
    ASSUME NEW out \in Seq(Interval), Apart(out), NEW iv \in Interval, LastBefore(out, iv.begin)
    PROVE  /\ MergeOne(out, iv) \in Seq(Interval)
           /\ Apart(MergeOne(out, iv))
           /\ LastBefore(MergeOne(out, iv), iv.begin)
           /\ \A t \in Nat : Holds(MergeOne(out, iv), t) <=> Holds(out, t) \/ contains(iv, t)
<1> DEFINE n == Len(out)
           r == MergeOne(out, iv)
<1>1. /\ n \in Nat /\ iv.begin \in Nat /\ iv.end \in Nat
      /\ \A i \in 1..n : out[i] \in Interval /\ out[i].begin \in Nat /\ out[i].end \in Nat
  <2>1. n \in Nat /\ \A i \in 1..n : out[i] \in Interval
    OBVIOUS
  <2> QED BY <2>1, IntervalType
<1>2. CASE iv.end <= iv.begin
  <2>1. r = out
    BY <1>2 DEF MergeOne
  <2>2. \A t \in Nat : ~contains(iv, t)
    BY <1>1, <1>2 DEF contains
  <2> HIDE DEF r
  <2> QED BY <1>1, <2>1, <2>2 DEF r
<1>3. CASE ~(iv.end <= iv.begin) /\ (n = 0 \/ iv.begin >= out[n].end)
  <2>1. r = Append(out, iv)
    BY <1>3 DEF MergeOne
  <2>2. /\ r \in Seq(Interval) /\ Len(r) = n + 1 /\ r[n + 1] = iv
        /\ \A i \in 1..n : r[i] = out[i]
    BY <2>1, AppendProperties
  <2> HIDE DEF r
  <2>3. \A i \in 1..n : out[i].end <= iv.begin
    <3>1. ASSUME NEW i \in 1..n PROVE out[i].end <= out[n].end
      BY <1>1 DEF Apart
    <3> QED BY <1>1, <1>3, <3>1
  <2>4. Apart(r)
    <3>1. \A i \in 1..(n + 1) : r[i].begin < r[i].end
      BY <1>1, <1>3, <2>2 DEF Apart
    <3>2. \A i, j \in 1..(n + 1) : i < j => r[i].end <= r[j].begin
      BY <1>1, <2>2, <2>3 DEF Apart
    <3> QED BY <2>2, <3>1, <3>2 DEF Apart
  <2>5. ASSUME NEW t \in Nat PROVE Holds(r, t) <=> Holds(out, t) \/ contains(iv, t)
    <3>1. Holds(r, t) <=> \E i \in 1..(n + 1) : contains(r[i], t)
      BY <2>2 DEF Holds
    <3>2. 1..(n + 1) = 1..n \cup {n + 1}
      BY <1>1
    <3> QED BY <2>2, <3>1, <3>2 DEF Holds
  <2>6. LastBefore(r, iv.begin)
    BY <1>1, <2>2 DEF LastBefore
  <2> QED BY <2>2, <2>4, <2>5, <2>6 DEF r
<1>4. CASE n > 0 /\ iv.begin < out[n].end /\ iv.begin < iv.end
  <2> DEFINE e == IF iv.end > out[n].end THEN iv.end ELSE out[n].end
  <2>1. n \in 1..n /\ out[n].begin <= iv.begin
    BY <1>1, <1>4 DEF LastBefore
  <2>2. /\ e \in Nat /\ e >= out[n].end /\ e >= iv.end
        /\ e = out[n].end \/ e = iv.end
    BY <1>1, <2>1
  <2>3. /\ r \in Seq(Interval) /\ Len(r) = n
        /\ \A i \in 1..n : r[i].begin = out[i].begin
        /\ \A i \in 1..(n - 1) : r[i].end = out[i].end
        /\ r[n].end = e
    <3>1. CASE iv.end > out[n].end
      <4>1. r = [out EXCEPT ![n].end = iv.end]
        BY <1>1, <1>4, <3>1 DEF MergeOne
      <4>2. [out[n] EXCEPT !.end = iv.end] \in Interval
        BY <1>1, <2>1 DEF Interval
      <4> QED BY <1>1, <2>1, <3>1, <4>1, <4>2 DEF Interval
    <3>2. CASE ~(iv.end > out[n].end)
      <4>1. r = out
        BY <1>1, <1>4, <3>2, <2>1 DEF MergeOne
      <4> QED BY <1>1, <3>2, <4>1
    <3> QED BY <3>1, <3>2
  <2> HIDE DEF r, e
  <2>4. \A i \in 1..n : r[i].begin < r[i].end
    <3>1. r[n].begin < r[n].end
      BY <1>1, <2>1, <2>2, <2>3 DEF Apart
    <3>2. \A i \in 1..n : i = n \/ i \in 1..(n - 1)
      BY <1>1
    <3> QED BY <1>1, <2>3, <3>1, <3>2 DEF Apart
  <2>5. \A i, j \in 1..n : i < j => r[i].end <= r[j].begin
    <3>1. \A i, j \in 1..n : i < j => i \in 1..(n - 1)
      BY <1>1
    <3> QED BY <2>3, <3>1 DEF Apart
  <2>6. ASSUME NEW t \in Nat PROVE Holds(r, t) <=> Holds(out, t) \/ contains(iv, t)
    <3>1. contains(r[n], t) <=> contains(out[n], t) \/ contains(iv, t)
      BY <1>1, <1>4, <2>1, <2>2, <2>3 DEF contains
    <3>2. \A i \in 1..(n - 1) : contains(r[i], t) <=> contains(out[i], t)
      BY <1>1, <2>3 DEF contains
    <3>3. 1..n = 1..(n - 1) \cup {n}
      BY <1>1, <2>1
    <3> HIDE DEF n
    <3>4. Holds(r, t) <=> \E i \in 1..n : contains(r[i], t)
      BY <2>3 DEF Holds
    <3>5. Holds(out, t) <=> \E i \in 1..n : contains(out[i], t)
      BY DEF Holds, n
    <3> QED BY <3>1, <3>2, <3>3, <3>4, <3>5
  <2>7. LastBefore(r, iv.begin)
    BY <2>1, <2>3 DEF LastBefore
  <2>8. Apart(r)
    BY <2>3, <2>4, <2>5 DEF Apart
  <2> QED BY <2>3, <2>6, <2>7, <2>8 DEF r
<1> QED BY <1>1, <1>2, <1>3, <1>4

(* The loop of merge_intervals.                                            *)
Merging(s) ==
    CHOOSE out : out = [n \in 0..Len(s) |-> IF n = 0 THEN <<>> ELSE MergeOne(out[n - 1], s[n])]

LEMMA MergeLoop ==
    ASSUME NEW s \in Seq(Interval)
    PROVE  /\ Merging(s)[0] = <<>>
           /\ \A k \in 1..Len(s) : Merging(s)[k] = MergeOne(Merging(s)[k - 1], s[k])
<1> DEFINE F == [k \in 1..Len(s) |-> [o \in Seq(Interval) |-> MergeOne(o, s[k])]]
<1>1. F \in [1..Len(s) -> [Seq(Interval) -> Seq(Interval)]]
  <2>1. \A k \in 1..Len(s) : s[k] \in Interval
    OBVIOUS
  <2>2. \A k \in 1..Len(s) : \A o \in Seq(Interval) : MergeOne(o, s[k]) \in Seq(Interval)
    BY <2>1, MergeOneType
  <2> QED BY <2>2
<1>2. \A k \in 1..Len(s), o \in Seq(Interval) : F[k][o] = MergeOne(o, s[k])
  OBVIOUS
<1>3. <<>> \in Seq(Interval) /\ Len(s) \in Nat
  OBVIOUS
<1> HIDE DEF F
<1>4. PICK f : Iterated(f, Seq(Interval), <<>>, Len(s), F)
  BY <1>1, <1>3, Loop
<1>5. f[0] = <<>> /\ \A k \in 1..Len(s) : f[k] = MergeOne(f[k - 1], s[k])
  <2>1. \A k \in 1..Len(s) : k - 1 \in 0..Len(s)
    BY <1>3
  <2> QED BY <1>2, <1>4, <2>1 DEF Iterated
<1>6. f \in [0..Len(s) -> Seq(Interval)]
  BY <1>4 DEF Iterated
<1>7. f = [n \in 0..Len(s) |-> IF n = 0 THEN <<>> ELSE MergeOne(f[n - 1], s[n])]
  BY <1>3, <1>5, <1>6
<1> DEFINE loop == Merging(s)
<1>8. loop = [n \in 0..Len(s) |-> IF n = 0 THEN <<>> ELSE MergeOne(loop[n - 1], s[n])]
  BY <1>7 DEF Merging
<1> HIDE DEF loop
<1>9. ASSUME NEW k \in 1..Len(s) PROVE loop[k] = MergeOne(loop[k - 1], s[k])
  <2>1. k \in 0..Len(s) /\ k # 0
    BY <1>3
  <2> QED BY <1>8, <2>1
<1>10. loop[0] = <<>>
  BY <1>3, <1>8
<1> QED BY <1>9, <1>10 DEF loop

LEMMA MergeRuns ==
    ASSUME NEW s \in Seq(Interval), NEW n \in Nat, n = Len(s), NEW loop,
           \A i, j \in 1..n : i < j => s[i].begin <= s[j].begin,
           loop[0] = <<>>, \A k \in 1..n : loop[k] = MergeOne(loop[k - 1], s[k])
    PROVE  /\ loop[n] \in Seq(Interval) /\ Apart(loop[n])
           /\ \A t \in Nat : Holds(loop[n], t) <=> Holds(s, t)
<1>1. \A k \in 1..n : s[k] \in Interval /\ s[k].begin \in Nat
  <2>1. \A k \in 1..n : s[k] \in Interval
    OBVIOUS
  <2> QED BY <2>1, IntervalType
<1> DEFINE Good(k) == /\ loop[k] \in Seq(Interval) /\ Apart(loop[k])
                      /\ \A j \in 1..n : k < j => LastBefore(loop[k], s[j].begin)
                      /\ \A t \in Nat : Holds(loop[k], t) <=> \E i \in 1..k : contains(s[i], t)
           G == {k \in Nat : k <= n => Good(k)}
<1>2. 0 \in G
  <2>1. Good(0)
    BY DEF Apart, LastBefore, Holds
  <2> QED BY <2>1
<1>3. ASSUME NEW k \in G PROVE k + 1 \in G
  <2>1. k \in Nat /\ k + 1 \in Nat
    OBVIOUS
  <2> SUFFICES ASSUME k + 1 <= n PROVE Good(k + 1)
    BY <2>1
  <2>2. Good(k) /\ k + 1 \in 1..n /\ (k + 1) - 1 = k
    <3> HIDE DEF Good
    <3>1. Good(k)
      BY <2>1
    <3> QED BY <2>1, <3>1
  <2>3. loop[k + 1] = MergeOne(loop[k], s[k + 1])
    BY <2>1, <2>2
  <2>4. s[k + 1] \in Interval /\ LastBefore(loop[k], s[k + 1].begin)
    BY <1>1, <2>1, <2>2
  <2>5. /\ loop[k + 1] \in Seq(Interval)
        /\ Apart(loop[k + 1])
        /\ LastBefore(loop[k + 1], s[k + 1].begin)
        /\ \A t \in Nat : Holds(loop[k + 1], t) <=> Holds(loop[k], t) \/ contains(s[k + 1], t)
    BY <2>2, <2>3, <2>4, MergeOneShape
  <2>6. ASSUME NEW j \in 1..n, k + 1 < j PROVE LastBefore(loop[k + 1], s[j].begin)
    <3>1. s[k + 1].begin <= s[j].begin /\ s[k + 1].begin \in Nat /\ s[j].begin \in Nat
      BY <1>1, <2>2, <2>6
    <3>2. Len(loop[k + 1]) > 0 => loop[k + 1][Len(loop[k + 1])].begin \in Nat
      <4> DEFINE m == loop[k + 1]
      <4>1. m \in Seq(Interval)
        BY <2>5
      <4> HIDE DEF m
      <4>2. Len(m) > 0 => m[Len(m)] \in Interval
        BY <4>1
      <4> QED BY <4>2 DEF m, Interval
    <3> QED BY <2>5, <3>1, <3>2 DEF LastBefore
  <2>7. 1..(k + 1) = 1..k \cup {k + 1}
    BY <2>1
  <2>8. \A t \in Nat : Holds(loop[k + 1], t) <=> \E i \in 1..(k + 1) : contains(s[i], t)
    BY <2>2, <2>5, <2>7
  <2> QED BY <2>5, <2>6, <2>8
<1> HIDE DEF Good
<1>4. G = Nat
  <2> HIDE DEF G
  <2>1. G \subseteq Nat
    BY DEF G
  <2> QED BY <1>2, <1>3, <2>1, NatInduct
<1>5. Good(n)
  BY <1>2, <1>4
<1> QED BY <1>5 DEF Good, Holds

(* merge_intervals leaves no overlap and no empty interval, and covers     *)
(* exactly the ticks of the intervals it is given.                         *)
LEMMA MergeShape ==
    ASSUME NEW ivs \in Seq(Interval)
    PROVE  /\ merge_intervals(ivs) \in Seq(Interval)
           /\ Apart(merge_intervals(ivs))
           /\ \A t \in Nat : Holds(merge_intervals(ivs), t) <=> Holds(ivs, t)
<1> DEFINE s == sort(ivs)
           r == Merging(s)
<1>1. merge_intervals(ivs) = r[Len(s)]
  BY DEF merge_intervals, Merging
<1>2. s \in Seq(Interval)
  BY SortShape
<1> HIDE DEF s
<1>3. r[0] = <<>> /\ \A k \in 1..Len(s) : r[k] = MergeOne(r[k - 1], s[k])
  BY <1>2, MergeLoop
<1> HIDE DEF r
<1>4. /\ s \in Seq(Interval) /\ Len(s) = Len(ivs) /\ Len(s) \in Nat
      /\ \A i, j \in 1..Len(s) : i < j => s[i].begin <= s[j].begin
  BY SortShape DEF s
<1>5. \A t : Holds(s, t) <=> Holds(ivs, t)
  BY SortShape DEF Holds, s
<1>6. /\ r[Len(s)] \in Seq(Interval) /\ Apart(r[Len(s)])
      /\ \A t \in Nat : Holds(r[Len(s)], t) <=> Holds(s, t)
  BY <1>3, <1>4, MergeRuns
<1> QED BY <1>1, <1>5, <1>6

(***************************************************************************)
(* Measuring.                                                              *)
(***************************************************************************)
Ticking(m, n) == {t \in Nat : \E i \in 1..n : contains(m[i], t)}

(* The loop of union_duration.                                             *)
Totalling(m) ==
    CHOOSE total : total = [n \in 0..Len(m) |-> IF n = 0 THEN 0 ELSE total[n - 1] + duration(m[n])]

LEMMA DurationType == \A x \in Interval : duration(x) \in Nat
BY DEF duration, Interval

LEMMA TotalLoop ==
    ASSUME NEW m \in Seq(Interval)
    PROVE  /\ Totalling(m)[0] = 0
           /\ \A k \in 1..Len(m) : Totalling(m)[k] = Totalling(m)[k - 1] + duration(m[k])
<1> DEFINE F == [k \in 1..Len(m) |-> [o \in Nat |-> o + duration(m[k])]]
<1>1. F \in [1..Len(m) -> [Nat -> Nat]]
  <2>1. \A k \in 1..Len(m) : m[k] \in Interval
    OBVIOUS
  <2>2. \A k \in 1..Len(m) : duration(m[k]) \in Nat
    BY <2>1, DurationType
  <2>3. \A k \in 1..Len(m) : \A o \in Nat : o + duration(m[k]) \in Nat
    BY <2>2
  <2> QED BY <2>3
<1>2. \A k \in 1..Len(m), o \in Nat : F[k][o] = o + duration(m[k])
  OBVIOUS
<1>3. 0 \in Nat /\ Len(m) \in Nat
  OBVIOUS
<1> HIDE DEF F
<1>4. PICK f : Iterated(f, Nat, 0, Len(m), F)
  BY <1>1, <1>3, Loop
<1>5. f[0] = 0 /\ \A k \in 1..Len(m) : f[k] = f[k - 1] + duration(m[k])
  <2>1. \A k \in 1..Len(m) : k - 1 \in 0..Len(m)
    BY <1>3
  <2> QED BY <1>2, <1>4, <2>1 DEF Iterated
<1>6. f \in [0..Len(m) -> Nat]
  BY <1>4 DEF Iterated
<1>7. f = [n \in 0..Len(m) |-> IF n = 0 THEN 0 ELSE f[n - 1] + duration(m[n])]
  BY <1>3, <1>5, <1>6
<1> DEFINE loop == Totalling(m)
<1>8. loop = [n \in 0..Len(m) |-> IF n = 0 THEN 0 ELSE loop[n - 1] + duration(m[n])]
  BY <1>7 DEF Totalling
<1> HIDE DEF loop
<1>9. ASSUME NEW k \in 1..Len(m) PROVE loop[k] = loop[k - 1] + duration(m[k])
  <2>1. k \in 0..Len(m) /\ k # 0
    BY <1>3
  <2> QED BY <1>8, <2>1
<1>10. loop[0] = 0
  BY <1>3, <1>8
<1> QED BY <1>9, <1>10 DEF loop

(* An interval has as many ticks as its duration says.                     *)
LEMMA IntervalMeasure ==
    ASSUME NEW x \in Interval
    PROVE  /\ IsFiniteSet({t \in Nat : contains(x, t)})
           /\ Cardinality({t \in Nat : contains(x, t)}) = duration(x)
<1>1. x.begin \in Nat /\ x.end \in Nat
  BY IntervalType
<1>2. {t \in Nat : contains(x, t)} = x.begin..(x.end - 1)
  BY <1>1 DEF contains
<1>3. /\ IsFiniteSet(x.begin..(x.end - 1))
      /\ Cardinality(x.begin..(x.end - 1)) =
           IF x.begin > x.end - 1 THEN 0 ELSE (x.end - 1) - x.begin + 1
  <2> DEFINE e == x.end - 1
  <2>1. x.begin \in Int /\ e \in Int
    BY <1>1
  <2> HIDE DEF e
  <2>2. IsFiniteSet(x.begin..e) /\ Cardinality(x.begin..e) = IF x.begin > e THEN 0 ELSE e - x.begin + 1
    BY <2>1, FS_Interval
  <2> QED BY <2>2 DEF e
<1>4. (IF x.begin > x.end - 1 THEN 0 ELSE (x.end - 1) - x.begin + 1) = duration(x)
  BY <1>1 DEF duration
<1> QED BY <1>2, <1>3, <1>4, Zenon

LEMMA TotalMeasure ==
    ASSUME NEW m \in Seq(Interval), Apart(m), NEW loop, loop[0] = 0,
           \A k \in 1..Len(m) : loop[k] = loop[k - 1] + duration(m[k])
    PROVE  \A n \in 0..Len(m) : /\ IsFiniteSet(Ticking(m, n))
                                /\ Cardinality(Ticking(m, n)) = loop[n]
<1> DEFINE Good(n) == IsFiniteSet(Ticking(m, n)) /\ Cardinality(Ticking(m, n)) = loop[n]
           G == {n \in Nat : n <= Len(m) => Good(n)}
<1>1. 0 \in G
  <2>1. Ticking(m, 0) = {}
    BY DEF Ticking
  <2>2. Good(0)
    BY <2>1, FS_EmptySet
  <2> QED BY <2>2
<1>2. ASSUME NEW n \in G PROVE n + 1 \in G
  <2>1. n \in Nat /\ n + 1 \in Nat
    OBVIOUS
  <2> SUFFICES ASSUME n + 1 <= Len(m) PROVE Good(n + 1)
    BY <2>1
  <2> DEFINE A == Ticking(m, n)
             B == {t \in Nat : contains(m[n + 1], t)}
  <2>2. /\ Good(n) /\ n + 1 \in 1..Len(m) /\ (n + 1) - 1 = n
        /\ \A i \in 1..n : i \in 1..Len(m) /\ i < n + 1
    <3> HIDE DEF Good
    <3>1. n <= Len(m) /\ Len(m) \in Nat
      BY <2>1
    <3>2. Good(n)
      BY <3>1
    <3> QED BY <2>1, <3>1, <3>2
  <2>3. \A i \in 1..(n + 1) : m[i] \in Interval /\ m[i].begin \in Nat /\ m[i].end \in Nat
    <3>1. \A i \in 1..(n + 1) : m[i] \in Interval
      BY <2>1
    <3> QED BY <3>1, IntervalType
  <2>4. IsFiniteSet(B) /\ Cardinality(B) = duration(m[n + 1])
    <3>1. m[n + 1] \in Interval
      BY <2>2
    <3> QED BY <3>1, IntervalMeasure
  <2>5. Ticking(m, n + 1) = A \cup B
    <3>1. 1..(n + 1) = 1..n \cup {n + 1}
      BY <2>1
    <3> QED BY <3>1 DEF Ticking
  <2>6. A \cap B = {}
    <3> SUFFICES ASSUME NEW t \in Nat, NEW i \in 1..n, contains(m[i], t), contains(m[n + 1], t)
                 PROVE  FALSE
      BY DEF Ticking
    <3>1. m[i].end <= m[n + 1].begin
      BY <2>2 DEF Apart
    <3>2. m[i].end \in Nat /\ m[n + 1].begin \in Nat
      BY <2>1, <2>3
    <3> QED BY <3>1, <3>2 DEF contains
  <2>7. IsFiniteSet(A) /\ Cardinality(A) = loop[n]
    BY <2>2
  <2> HIDE DEF A, B
  <2>8. /\ IsFiniteSet(A \cup B)
        /\ Cardinality(A \cup B) = Cardinality(A) + Cardinality(B) - Cardinality(A \cap B)
    BY <2>4, <2>7, FS_Union
  <2>9. Cardinality(A \cap B) = 0 /\ Cardinality(A) \in Nat /\ Cardinality(B) \in Nat
    BY <2>4, <2>6, <2>7, FS_EmptySet, FS_CardinalityType
  <2>10. loop[n + 1] = loop[n] + duration(m[n + 1])
    BY <2>2
  <2>11. Cardinality(A \cup B) = Cardinality(A) + Cardinality(B)
    BY <2>8, <2>9
  <2> QED BY <2>4, <2>5, <2>7, <2>8, <2>10, <2>11, Zenon
<1> HIDE DEF Good
<1>3. G = Nat
  <2> HIDE DEF G
  <2>1. G \subseteq Nat
    BY DEF G
  <2> QED BY <1>1, <1>2, <2>1, NatInduct
<1>4. \A n \in 0..Len(m) : Good(n)
  BY <1>3
<1> QED BY <1>4 DEF Good

(* union_duration counts every tick of the intervals once.                 *)
LEMMA UnionMeasure ==
    ASSUME NEW ivs \in Seq(Interval)
    PROVE  /\ IsFiniteSet({t \in Nat : Holds(ivs, t)})
           /\ union_duration(ivs) = Cardinality({t \in Nat : Holds(ivs, t)})
<1> DEFINE m == merge_intervals(ivs)
           r == Totalling(m)
<1>1. union_duration(ivs) = r[Len(m)]
  BY DEF union_duration, Totalling
<1>2. m \in Seq(Interval) /\ Apart(m) /\ \A t \in Nat : Holds(m, t) <=> Holds(ivs, t)
  BY MergeShape
<1> HIDE DEF m
<1>3. r[0] = 0 /\ \A k \in 1..Len(m) : r[k] = r[k - 1] + duration(m[k])
  BY <1>2, TotalLoop
<1> HIDE DEF r
<1>4. Len(m) \in 0..Len(m)
  BY <1>2
<1>5. IsFiniteSet(Ticking(m, Len(m))) /\ Cardinality(Ticking(m, Len(m))) = r[Len(m)]
  BY <1>2, <1>3, <1>4, TotalMeasure
<1>6. Ticking(m, Len(m)) = {t \in Nat : Holds(ivs, t)}
  BY <1>2 DEF Ticking, Holds
<1> QED BY <1>1, <1>5, <1>6

(***************************************************************************)
(* Selecting and clamping.                                                 *)
(***************************************************************************)
In(e, s) == \E i \in 1..Len(s) : s[i] = e

LEMMA InAppend ==
    ASSUME NEW T, NEW s \in Seq(T), NEW x \in T, NEW e
    PROVE  In(e, Append(s, x)) <=> In(e, s) \/ e = x
<1>1. /\ Len(Append(s, x)) = Len(s) + 1 /\ Append(s, x)[Len(s) + 1] = x
      /\ \A i \in 1..Len(s) : Append(s, x)[i] = s[i]
  BY AppendProperties
<1>2. 1..(Len(s) + 1) = 1..Len(s) \cup {Len(s) + 1}
  OBVIOUS
<1> QED BY <1>1, <1>2 DEF In

LEMMA InConcat ==
    ASSUME NEW T, NEW s \in Seq(T), NEW r \in Seq(T), NEW e
    PROVE  In(e, s \o r) <=> In(e, s) \/ In(e, r)
<1>1. Len(s) \in Nat /\ Len(r) \in Nat /\ Len(s \o r) = Len(s) + Len(r)
  OBVIOUS
<1>2. /\ \A i \in 1..Len(s) : i \in 1..(Len(s) + Len(r)) /\ (s \o r)[i] = s[i]
      /\ \A i \in 1..Len(r) : i + Len(s) \in 1..(Len(s) + Len(r)) /\ (s \o r)[i + Len(s)] = r[i]
  OBVIOUS
<1>3. ASSUME NEW i \in 1..(Len(s) + Len(r))
      PROVE  i \in 1..Len(s) \/ (i - Len(s) \in 1..Len(r) /\ i = (i - Len(s)) + Len(s))
  BY <1>1
<1>4. In(e, s) => In(e, s \o r)
  BY <1>1, <1>2 DEF In
<1>5. In(e, r) => In(e, s \o r)
  BY <1>1, <1>2 DEF In
<1>6. ASSUME In(e, s \o r) PROVE In(e, s) \/ In(e, r)
  <2>1. PICK i \in 1..(Len(s) + Len(r)) : (s \o r)[i] = e
    BY <1>1, <1>6 DEF In
  <2>2. CASE i \in 1..Len(s)
    BY <1>2, <2>1, <2>2 DEF In
  <2>3. CASE i - Len(s) \in 1..Len(r) /\ i = (i - Len(s)) + Len(s)
    <3>1. (s \o r)[i] = r[i - Len(s)]
      BY <1>2, <2>3
    <3> QED BY <2>1, <2>3, <3>1 DEF In
  <2> QED BY <1>3, <2>2, <2>3
<1> QED BY <1>4, <1>5, <1>6

(* The loop of chosen.                                                     *)
Choosing(evs, S) ==
    CHOOSE out : out = [n \in 0..Len(evs) |->
        IF n = 0 THEN <<>>
        ELSE IF evs[n] \in S THEN Append(out[n - 1], evs[n]) ELSE out[n - 1]]

LEMMA ChooseLoop ==
    ASSUME NEW T, NEW evs \in Seq(T), NEW S
    PROVE  /\ Choosing(evs, S) \in [0..Len(evs) -> Seq(T)]
           /\ Choosing(evs, S)[0] = <<>>
           /\ \A k \in 1..Len(evs) :
                 Choosing(evs, S)[k] = IF evs[k] \in S THEN Append(Choosing(evs, S)[k - 1], evs[k])
                                                       ELSE Choosing(evs, S)[k - 1]
<1> DEFINE Step(o, k) == IF evs[k] \in S THEN Append(o, evs[k]) ELSE o
           F == [k \in 1..Len(evs) |-> [o \in Seq(T) |-> Step(o, k)]]
<1>1. F \in [1..Len(evs) -> [Seq(T) -> Seq(T)]]
  <2>1. \A k \in 1..Len(evs) : evs[k] \in T
    OBVIOUS
  <2>2. \A k \in 1..Len(evs) : \A o \in Seq(T) : Step(o, k) \in Seq(T)
    BY <2>1, AppendProperties
  <2> HIDE DEF Step
  <2> QED BY <2>2
<1>2. \A k \in 1..Len(evs), o \in Seq(T) : F[k][o] = Step(o, k)
  OBVIOUS
<1>3. <<>> \in Seq(T) /\ Len(evs) \in Nat
  OBVIOUS
<1> HIDE DEF F, Step
<1>4. PICK f : Iterated(f, Seq(T), <<>>, Len(evs), F)
  BY <1>1, <1>3, Loop
<1>5. f[0] = <<>> /\ \A k \in 1..Len(evs) : f[k] = Step(f[k - 1], k)
  <2>1. \A k \in 1..Len(evs) : k - 1 \in 0..Len(evs)
    BY <1>3
  <2> QED BY <1>2, <1>4, <2>1 DEF Iterated
<1>6. f \in [0..Len(evs) -> Seq(T)]
  BY <1>4 DEF Iterated
<1>7. f = [n \in 0..Len(evs) |-> IF n = 0 THEN <<>> ELSE Step(f[n - 1], n)]
  BY <1>3, <1>5, <1>6
<1>8. Choosing(evs, S) = CHOOSE out : out = [n \in 0..Len(evs) |-> IF n = 0 THEN <<>> ELSE Step(out[n - 1], n)]
  BY DEF Choosing, Step
<1> DEFINE loop == Choosing(evs, S)
<1>9. loop = [n \in 0..Len(evs) |-> IF n = 0 THEN <<>> ELSE Step(loop[n - 1], n)]
  BY <1>7, <1>8
<1> HIDE DEF loop
<1>10. loop[0] = <<>> /\ \A k \in 1..Len(evs) : loop[k] = Step(loop[k - 1], k)
  <2>1. \A k \in 1..Len(evs) : k \in 0..Len(evs) /\ k # 0
    BY <1>3
  <2> QED BY <1>3, <1>9, <2>1
<1>11. loop \in [0..Len(evs) -> Seq(T)]
  <2> DEFINE G == {k \in Nat : k <= Len(evs) => loop[k] \in Seq(T)}
  <2>1. 0 \in G
    BY <1>3, <1>10
  <2>2. ASSUME NEW k \in G PROVE k + 1 \in G
    <3>1. k \in Nat /\ k + 1 \in Nat /\ (k + 1) - 1 = k
      OBVIOUS
    <3>2. ASSUME k + 1 <= Len(evs) PROVE loop[k + 1] \in Seq(T)
      <4>1. k + 1 \in 1..Len(evs) /\ loop[k] \in Seq(T)
        BY <1>3, <3>1, <3>2
      <4>2. loop[k + 1] = Step(loop[k], k + 1) /\ evs[k + 1] \in T
        BY <1>10, <3>1, <4>1
      <4> QED BY <4>1, <4>2, AppendProperties DEF Step
    <3> QED BY <3>1, <3>2
  <2> HIDE DEF G
  <2>3. G = Nat
    <3>1. G \subseteq Nat
      BY DEF G
    <3> QED BY <2>1, <2>2, <3>1, NatInduct
  <2>4. \A k \in 0..Len(evs) : loop[k] \in Seq(T)
    BY <2>3, <1>3 DEF G
  <2> QED BY <1>9, <2>4
<1> QED BY <1>10, <1>11 DEF loop, Step

(* chosen keeps the events that are in S and no others.                    *)
LEMMA ChosenShape ==
    ASSUME NEW T, NEW evs \in Seq(T), NEW S
    PROVE  /\ chosen(evs, S) \in Seq(T)
           /\ \A e : In(e, chosen(evs, S)) <=> e \in S /\ In(e, evs)
<1> DEFINE loop == Choosing(evs, S)
<1>1. chosen(evs, S) = loop[Len(evs)]
  BY DEF chosen, Choosing
<1>2. /\ loop \in [0..Len(evs) -> Seq(T)] /\ loop[0] = <<>>
      /\ \A k \in 1..Len(evs) :
            loop[k] = IF evs[k] \in S THEN Append(loop[k - 1], evs[k]) ELSE loop[k - 1]
  BY ChooseLoop
<1> HIDE DEF loop
<1> DEFINE Good(k) == \A e : In(e, loop[k]) <=> e \in S /\ \E i \in 1..k : evs[i] = e
           G == {k \in Nat : k <= Len(evs) => Good(k)}
<1>3. 0 \in G
  <2>1. Good(0)
    BY <1>2 DEF In
  <2> QED BY <2>1
<1>4. ASSUME NEW k \in G PROVE k + 1 \in G
  <2>1. k \in Nat /\ k + 1 \in Nat /\ (k + 1) - 1 = k
    OBVIOUS
  <2> SUFFICES ASSUME k + 1 <= Len(evs) PROVE Good(k + 1)
    BY <2>1
  <2>2. Good(k) /\ k + 1 \in 1..Len(evs) /\ k \in 0..Len(evs)
    <3> HIDE DEF Good
    <3>1. k <= Len(evs) /\ Len(evs) \in Nat
      BY <2>1
    <3>2. Good(k)
      BY <3>1
    <3> QED BY <2>1, <3>1, <3>2
  <2>3. /\ loop[k + 1] = IF evs[k + 1] \in S THEN Append(loop[k], evs[k + 1]) ELSE loop[k]
        /\ loop[k] \in Seq(T) /\ evs[k + 1] \in T
    BY <1>2, <2>1, <2>2
  <2>4. 1..(k + 1) = 1..k \cup {k + 1}
    BY <2>1
  <2>5. CASE evs[k + 1] \in S
    <3>1. loop[k + 1] = Append(loop[k], evs[k + 1])
      BY <2>3, <2>5
    <3>2. \A e : In(e, Append(loop[k], evs[k + 1])) <=> In(e, loop[k]) \/ e = evs[k + 1]
      BY <2>3, InAppend
    <3> QED BY <2>2, <2>4, <2>5, <3>1, <3>2
  <2>6. CASE evs[k + 1] \notin S
    <3>1. loop[k + 1] = loop[k]
      BY <2>3, <2>6
    <3> QED BY <2>2, <2>4, <2>6, <3>1
  <2> QED BY <2>5, <2>6
<1> HIDE DEF Good
<1>5. G = Nat
  <2> HIDE DEF G
  <2>1. G \subseteq Nat
    BY DEF G
  <2> QED BY <1>3, <1>4, <2>1, NatInduct
<1>6. Good(Len(evs)) /\ Len(evs) \in 0..Len(evs)
  BY <1>5
<1>7. loop[Len(evs)] \in Seq(T)
  BY <1>2, <1>6
<1>8. \A e : In(e, loop[Len(evs)]) <=> e \in S /\ In(e, evs)
  BY <1>6 DEF Good, In
<1> QED BY <1>1, <1>7, <1>8

LEMMA SpanType == \A e \in Spans : e.begin \in Nat /\ e.end \in Nat
BY WindowsAssumption

(* Clamping to a window keeps the ticks that lie in it.                    *)
LEMMA ClampedShape ==
    ASSUME NEW evs \in Seq(Spans), NEW w \in Interval
    PROVE  /\ clamped(evs, w) \in Seq(Interval)
           /\ \A t \in Nat : Holds(clamped(evs, w), t) <=>
                                contains(w, t) /\ \E e : In(e, evs) /\ contains(e, t)
<1>1. DOMAIN evs = 1..Len(evs) /\ Len(evs) \in Nat
  OBVIOUS
<1>2. \A i \in 1..Len(evs) : evs[i].begin \in Nat /\ evs[i].end \in Nat
  <2>1. \A i \in 1..Len(evs) : evs[i] \in Spans
    OBVIOUS
  <2> QED BY <2>1, SpanType
<1>3. w.begin \in Nat /\ w.end \in Nat
  BY IntervalType
<1>4. \A i \in 1..Len(evs) : intersect(evs[i], w) \in Interval
  BY <1>2, <1>3 DEF intersect, Interval
<1>5. /\ clamped(evs, w) \in Seq(Interval) /\ Len(clamped(evs, w)) = Len(evs)
      /\ \A i \in 1..Len(evs) : clamped(evs, w)[i] = intersect(evs[i], w)
  BY <1>1, <1>4 DEF clamped
<1>6. ASSUME NEW t \in Nat, NEW i \in 1..Len(evs)
      PROVE  contains(intersect(evs[i], w), t) <=> contains(w, t) /\ contains(evs[i], t)
  BY <1>2, <1>3 DEF contains, intersect
<1>7. ASSUME NEW t \in Nat
      PROVE  Holds(clamped(evs, w), t) <=>
                contains(w, t) /\ \E e : In(e, evs) /\ contains(e, t)
  <2>1. Holds(clamped(evs, w), t) <=> \E i \in 1..Len(evs) : contains(intersect(evs[i], w), t)
    BY <1>5 DEF Holds
  <2>2. (\E e : In(e, evs) /\ contains(e, t)) <=> \E i \in 1..Len(evs) : contains(evs[i], t)
    BY DEF In
  <2> QED BY <1>6, <2>1, <2>2
<1> QED BY <1>5, <1>7

(* The time of some categories in a window is the number of its ticks that *)
(* a span of one of them covers.                                           *)
LEMMA TimeInMeasure ==
    ASSUME NEW evs \in Seq(Spans), NEW cats, NEW w \in Interval
    PROVE  /\ collect_cat(evs, cats, w) \in Seq(Interval)
           /\ \A t \in Nat : Holds(collect_cat(evs, cats, w), t) <=> t \in Covered(evs, cats, w)
           /\ Covered(evs, cats, w) \subseteq Nat
           /\ IsFiniteSet(Covered(evs, cats, w))
           /\ TimeIn(evs, cats, w) = Cardinality(Covered(evs, cats, w))
<1> DEFINE S == {e \in Spans : e.cat \in cats}
           c == chosen(evs, S)
           ivs == collect_cat(evs, cats, w)
           C == Covered(evs, cats, w)
<1>1. c \in Seq(Spans) /\ \A e : In(e, c) <=> e \in S /\ In(e, evs)
  BY ChosenShape
<1>2. ivs = clamped(c, w)
  BY DEF collect_cat
<1>3. w.begin \in Nat /\ w.end \in Nat
  BY IntervalType
<1>4. \A t \in Nat : contains(w, t) <=> t \in w.begin..(w.end - 1)
  BY <1>3 DEF contains
<1>5. \A e : In(e, evs) => e \in Spans
  BY DEF In
<1>6. DOMAIN evs = 1..Len(evs)
  OBVIOUS
<1>7. \A t : t \in C <=> /\ t \in w.begin..(w.end - 1)
                         /\ \E e : In(e, evs) /\ e.cat \in cats /\ contains(e, t)
  BY <1>6 DEF Covered, In
<1>8. C \subseteq Nat
  BY <1>3 DEF Covered
<1> HIDE DEF c, C, ivs
<1>9. ivs \in Seq(Interval) /\ \A t \in Nat : Holds(ivs, t) <=> t \in C
  <2>1. /\ ivs \in Seq(Interval)
        /\ \A t \in Nat : Holds(ivs, t) <=> contains(w, t) /\ \E e : In(e, c) /\ contains(e, t)
    BY <1>1, <1>2, ClampedShape
  <2>2. \A e : In(e, c) <=> In(e, evs) /\ e.cat \in cats
    BY <1>1, <1>5
  <2> QED BY <1>4, <1>7, <2>1, <2>2
<1>10. {t \in Nat : Holds(ivs, t)} = C
  BY <1>8, <1>9
<1>11. IsFiniteSet(C) /\ union_duration(ivs) = Cardinality(C)
  BY <1>9, <1>10, UnionMeasure
<1> QED BY <1>8, <1>9, <1>11 DEF TimeIn, c, C, ivs

(***************************************************************************)
(* The sweep over two merged lists.                                        *)
(***************************************************************************)
(* Of the ticks of both lists, those in an interval one of them has passed.*)
Passed(ma, mb, i, j) ==
    {t \in Nat : \E p \in 1..Len(ma), q \in 1..Len(mb) :
                    contains(ma[p], t) /\ contains(mb[q], t) /\ (p < i \/ q < j)}

SweepState(ma, mb) == [i : 1..(Len(ma) + 1), j : 1..(Len(mb) + 1), total : Nat]

(* The loop of intersect_union_duration.                                   *)
Sweeping(ma, mb) ==
    CHOOSE at : at = [n \in 0..(Len(ma) + Len(mb)) |->
        IF n = 0 THEN [i |-> 1, j |-> 1, total |-> 0] ELSE SweepOne(ma, mb, at[n - 1])]

LEMMA IntersectType ==
    ASSUME NEW x \in Interval, NEW y \in Interval
    PROVE  /\ intersect(x, y) \in Interval
           /\ \A t \in Nat : contains(intersect(x, y), t) <=> contains(x, t) /\ contains(y, t)
<1>1. x.begin \in Nat /\ x.end \in Nat /\ y.begin \in Nat /\ y.end \in Nat
  BY IntervalType
<1> QED BY <1>1 DEF intersect, contains, Interval

LEMMA SweepOneType ==
    ASSUME NEW ma \in Seq(Interval), NEW mb \in Seq(Interval), NEW at \in SweepState(ma, mb)
    PROVE  SweepOne(ma, mb, at) \in SweepState(ma, mb)
<1>1. /\ at.i \in 1..(Len(ma) + 1) /\ at.j \in 1..(Len(mb) + 1) /\ at.total \in Nat
      /\ Len(ma) \in Nat /\ Len(mb) \in Nat
  BY DEF SweepState
<1>2. CASE at.i > Len(ma) \/ at.j > Len(mb)
  BY <1>2 DEF SweepOne
<1>3. CASE ~(at.i > Len(ma) \/ at.j > Len(mb))
  <2> DEFINE x == ma[at.i]
             y == mb[at.j]
             first == AdvanceFirst(x, y)
  <2>1. at.i \in 1..Len(ma) /\ at.j \in 1..Len(mb)
    BY <1>1, <1>3
  <2>2. x \in Interval /\ y \in Interval
    BY <2>1
  <2>3. duration(intersect(x, y)) \in Nat
    BY <2>2, IntersectType, DurationType
  <2>4. SweepOne(ma, mb, at) =
          [i |-> IF first THEN at.i + 1 ELSE at.i,
           j |-> IF first THEN at.j ELSE at.j + 1,
           total |-> at.total + duration(intersect(x, y))]
    BY <1>3 DEF SweepOne
  <2> HIDE DEF x, y, first
  <2>5. /\ (IF first THEN at.i + 1 ELSE at.i) \in 1..(Len(ma) + 1)
        /\ (IF first THEN at.j ELSE at.j + 1) \in 1..(Len(mb) + 1)
        /\ at.total + duration(intersect(x, y)) \in Nat
    BY <1>1, <2>1, <2>3, SMTT(30)
  <2> QED BY <2>4, <2>5 DEF SweepState
<1> QED BY <1>2, <1>3

LEMMA SweepLoop ==
    ASSUME NEW ma \in Seq(Interval), NEW mb \in Seq(Interval), NEW N \in Nat, N = Len(ma) + Len(mb)
    PROVE  /\ Sweeping(ma, mb)[0] = [i |-> 1, j |-> 1, total |-> 0]
           /\ \A k \in 1..N : Sweeping(ma, mb)[k] = SweepOne(ma, mb, Sweeping(ma, mb)[k - 1])
<1> DEFINE S == SweepState(ma, mb)
           a == [i |-> 1, j |-> 1, total |-> 0]
           F == [k \in 1..N |-> [o \in S |-> SweepOne(ma, mb, o)]]
<1>1. F \in [1..N -> [S -> S]]
  BY SweepOneType
<1>2. \A k \in 1..N, o \in S : F[k][o] = SweepOne(ma, mb, o)
  OBVIOUS
<1>3. a \in S
  BY DEF SweepState
<1> HIDE DEF F, S, a
<1>4. PICK f : Iterated(f, S, a, N, F)
  BY <1>1, <1>3, Loop
<1>5. f[0] = a /\ \A k \in 1..N : f[k] = SweepOne(ma, mb, f[k - 1])
  <2>1. \A k \in 1..N : k - 1 \in 0..N
    OBVIOUS
  <2> QED BY <1>2, <1>4, <2>1 DEF Iterated
<1>6. f \in [0..N -> S]
  BY <1>4 DEF Iterated
<1>7. f = [n \in 0..N |-> IF n = 0 THEN a ELSE SweepOne(ma, mb, f[n - 1])]
  BY <1>5, <1>6
<1>8. Sweeping(ma, mb) = CHOOSE at : at = [n \in 0..N |-> IF n = 0 THEN a ELSE SweepOne(ma, mb, at[n - 1])]
  BY DEF Sweeping, a
<1> DEFINE loop == Sweeping(ma, mb)
<1>9. loop = [n \in 0..N |-> IF n = 0 THEN a ELSE SweepOne(ma, mb, loop[n - 1])]
  BY <1>7, <1>8
<1> HIDE DEF loop
<1>10. \A k \in 1..N : loop[k] = SweepOne(ma, mb, loop[k - 1])
  <2>1. \A k \in 1..N : k \in 0..N /\ k # 0
    OBVIOUS
  <2> QED BY <1>9, <2>1
<1>11. loop[0] = a
  BY <1>9
<1> QED BY <1>10, <1>11 DEF loop, a

(* An iteration of the sweep adds the common ticks of the two intervals it *)
(* stands at, which no interval already passed and none still to come has. *)
LEMMA SweepOneMeasure ==
    ASSUME NEW ma \in Seq(Interval), NEW mb \in Seq(Interval), Apart(ma), Apart(mb),
           NEW at \in SweepState(ma, mb), at.i <= Len(ma), at.j <= Len(mb),
           IsFiniteSet(Passed(ma, mb, at.i, at.j)),
           at.total = Cardinality(Passed(ma, mb, at.i, at.j))
    PROVE  LET to == SweepOne(ma, mb, at)
           IN  /\ to.i + to.j = at.i + at.j + 1
               /\ IsFiniteSet(Passed(ma, mb, to.i, to.j))
               /\ to.total = Cardinality(Passed(ma, mb, to.i, to.j))
<1> DEFINE i == at.i
           j == at.j
           x == ma[i]
           y == mb[j]
           to == SweepOne(ma, mb, at)
           first == AdvanceFirst(x, y)
           A == Passed(ma, mb, i, j)
           B == {t \in Nat : contains(intersect(x, y), t)}
           C == Passed(ma, mb, to.i, to.j)
<1>1. /\ i \in 1..Len(ma) /\ j \in 1..Len(mb) /\ at.total \in Nat
      /\ Len(ma) \in Nat /\ Len(mb) \in Nat
  BY DEF SweepState
<1>2. /\ \A p \in 1..Len(ma) : ma[p].begin \in Nat /\ ma[p].end \in Nat
      /\ \A q \in 1..Len(mb) : mb[q].begin \in Nat /\ mb[q].end \in Nat
  <2>1. /\ \A p \in 1..Len(ma) : ma[p] \in Interval
        /\ \A q \in 1..Len(mb) : mb[q] \in Interval
    OBVIOUS
  <2> QED BY <2>1, IntervalType
<1>3. x \in Interval /\ y \in Interval
  BY <1>1
<1>4. to = [i |-> IF first THEN i + 1 ELSE i, j |-> IF first THEN j ELSE j + 1,
            total |-> at.total + duration(intersect(x, y))]
  BY <1>1 DEF SweepOne
<1>5. /\ IsFiniteSet(B) /\ Cardinality(B) = duration(intersect(x, y))
      /\ \A t \in Nat : t \in B <=> contains(x, t) /\ contains(y, t)
  BY <1>3, IntersectType, IntervalMeasure
<1>6. \A t : t \in A <=> t \in Nat /\ \E p \in 1..Len(ma), q \in 1..Len(mb) :
                 contains(ma[p], t) /\ contains(mb[q], t) /\ (p < i \/ q < j)
  BY DEF Passed
<1>7. \A t : t \in C <=> t \in Nat /\ \E p \in 1..Len(ma), q \in 1..Len(mb) :
                 contains(ma[p], t) /\ contains(mb[q], t) /\ (p < to.i \/ q < to.j)
  BY DEF Passed
<1>8. B \subseteq Nat
  OBVIOUS
(* No two intervals of one list share a tick. *)
<1>9. /\ \A t \in Nat, p \in 1..Len(ma) : contains(x, t) /\ contains(ma[p], t) => p = i
      /\ \A t \in Nat, q \in 1..Len(mb) : contains(y, t) /\ contains(mb[q], t) => q = j
  <2>1. ASSUME NEW t \in Nat, NEW p \in 1..Len(ma), contains(x, t), contains(ma[p], t) PROVE p = i
    <3>1. ~(p < i) /\ ~(i < p)
      BY <1>1, <1>2, <2>1, SMTT(30) DEF Apart, contains
    <3> QED BY <1>1, <3>1
  <2>2. ASSUME NEW t \in Nat, NEW q \in 1..Len(mb), contains(y, t), contains(mb[q], t) PROVE q = j
    <3>1. ~(q < j) /\ ~(j < q)
      BY <1>1, <1>2, <2>2, SMTT(30) DEF Apart, contains
    <3> QED BY <1>1, <3>1
  <2> QED BY <2>1, <2>2
<1> HIDE DEF A, B, C
<1>10. A \cap B = {}
  <2> SUFFICES ASSUME NEW t \in A, t \in B PROVE FALSE
    OBVIOUS
  <2>1. t \in Nat /\ contains(x, t) /\ contains(y, t)
    BY <1>5, <1>8
  <2>2. PICK p \in 1..Len(ma), q \in 1..Len(mb) :
            contains(ma[p], t) /\ contains(mb[q], t) /\ (p < i \/ q < j)
    BY <1>6
  <2>3. p = i /\ q = j
    BY <1>9, <2>1, <2>2
  <2> QED BY <1>1, <2>2, <2>3
<1>11. C = A \cup B
  <2>1. CASE first
    <3>1. to.i = i + 1 /\ to.j = j
      BY <1>4, <2>1
    <3>2. x.end < y.end
      BY <2>1 DEF AdvanceFirst
    <3>3. ASSUME NEW t \in Nat, NEW p \in 1..Len(ma), NEW q \in 1..Len(mb),
                 contains(ma[p], t), contains(mb[q], t), p < to.i \/ q < to.j, t \notin A
          PROVE  t \in B
      <4>1. ~(p < i) /\ ~(q < j)
        BY <1>6, <3>3
      <4>2. p = i /\ ~(q < j)
        BY <1>1, <3>1, <3>3, <4>1
      <4>3. q = j
        <5>1. ~(j < q)
          BY <1>1, <1>2, <3>2, <3>3, <4>2, SMTT(30) DEF Apart, contains
        <5> QED BY <1>1, <4>2, <5>1
      <4> QED BY <1>5, <3>3, <4>2, <4>3
    <3>4. A \subseteq C
      <4>1. \A p \in 1..Len(ma) : p < i => p < to.i
        BY <1>1, <3>1
      <4> QED BY <1>6, <1>7, <3>1, <4>1
    <3>5. B \subseteq C
      <4>1. i < to.i
        BY <1>1, <3>1
      <4> QED BY <1>1, <1>5, <1>7, <1>8, <4>1
    <3>6. C \subseteq A \cup B
      BY <1>7, <3>3
    <3> QED BY <3>4, <3>5, <3>6
  <2>2. CASE ~first
    <3>1. to.i = i /\ to.j = j + 1
      BY <1>4, <2>2
    <3>2. y.end <= x.end
      BY <1>1, <1>2, <2>2 DEF AdvanceFirst
    <3>3. ASSUME NEW t \in Nat, NEW p \in 1..Len(ma), NEW q \in 1..Len(mb),
                 contains(ma[p], t), contains(mb[q], t), p < to.i \/ q < to.j, t \notin A
          PROVE  t \in B
      <4>1. ~(p < i) /\ ~(q < j)
        BY <1>6, <3>3
      <4>2. q = j /\ ~(p < i)
        BY <1>1, <3>1, <3>3, <4>1
      <4>3. p = i
        <5>1. ~(i < p)
          BY <1>1, <1>2, <3>2, <3>3, <4>2, SMTT(30) DEF Apart, contains
        <5> QED BY <1>1, <4>2, <5>1
      <4> QED BY <1>5, <3>3, <4>2, <4>3
    <3>4. A \subseteq C
      <4>1. \A q \in 1..Len(mb) : q < j => q < to.j
        BY <1>1, <3>1
      <4> QED BY <1>6, <1>7, <3>1, <4>1
    <3>5. B \subseteq C
      <4>1. j < to.j
        BY <1>1, <3>1
      <4> QED BY <1>1, <1>5, <1>7, <1>8, <4>1
    <3>6. C \subseteq A \cup B
      BY <1>7, <3>3
    <3> QED BY <3>4, <3>5, <3>6
  <2> QED BY <2>1, <2>2
<1>12. IsFiniteSet(A) /\ at.total = Cardinality(A)
  BY DEF A
<1>13. /\ IsFiniteSet(A \cup B)
       /\ Cardinality(A \cup B) = Cardinality(A) + Cardinality(B)
  <2>1. /\ IsFiniteSet(A \cup B)
        /\ Cardinality(A \cup B) = Cardinality(A) + Cardinality(B) - Cardinality(A \cap B)
    BY <1>5, <1>12, FS_Union
  <2>2. Cardinality(A \cap B) = 0 /\ Cardinality(A) \in Nat /\ Cardinality(B) \in Nat
    BY <1>5, <1>10, <1>12, FS_EmptySet, FS_CardinalityType
  <2> QED BY <2>1, <2>2
<1>14. to.i + to.j = i + j + 1
  BY <1>1, <1>4
<1>15. to.total = Cardinality(A \cup B)
  <2>1. to.total = at.total + duration(intersect(x, y))
    BY <1>4
  <2> QED BY <1>5, <1>12, <1>13, <2>1, Zenon
<1> HIDE DEF to
<1>16. IsFiniteSet(C) /\ to.total = Cardinality(C)
  BY <1>11, <1>13, <1>15, Zenon
<1> QED BY <1>14, <1>16 DEF to, C

(* The ticks both lists cover. *)
Both(a, b) == {t \in Nat : Holds(a, t) /\ Holds(b, t)}

LEMMA SweepMeasure ==
    ASSUME NEW ma \in Seq(Interval), NEW mb \in Seq(Interval), Apart(ma), Apart(mb),
           NEW N \in Nat, N = Len(ma) + Len(mb), NEW loop,
           loop[0] = [i |-> 1, j |-> 1, total |-> 0],
           \A k \in 1..N : loop[k] = SweepOne(ma, mb, loop[k - 1])
    PROVE  loop[N].total = Cardinality(Both(ma, mb))
<1> DEFINE Measured(at) == /\ IsFiniteSet(Passed(ma, mb, at.i, at.j))
                           /\ at.total = Cardinality(Passed(ma, mb, at.i, at.j))
           Over(at) == at.i > Len(ma) \/ at.j > Len(mb)
           Good(k) == /\ loop[k] \in SweepState(ma, mb) /\ Measured(loop[k])
                      /\ Over(loop[k]) \/ loop[k].i + loop[k].j = k + 2
           G == {k \in Nat : k <= N => Good(k)}
<1>1. Len(ma) \in Nat /\ Len(mb) \in Nat
  OBVIOUS
<1>2. 0 \in G
  <2>1. Passed(ma, mb, 1, 1) = {}
    BY DEF Passed
  <2>2. Measured([i |-> 1, j |-> 1, total |-> 0])
    BY <2>1, FS_EmptySet
  <2>3. [i |-> 1, j |-> 1, total |-> 0] \in SweepState(ma, mb)
    BY <1>1 DEF SweepState
  <2>4. loop[0].i + loop[0].j = 0 + 2
    OBVIOUS
  <2> HIDE DEF Measured, Over
  <2>5. Good(0)
    BY <2>2, <2>3, <2>4
  <2> QED BY <2>5
<1>3. ASSUME NEW k \in G PROVE k + 1 \in G
  <2>1. k \in Nat /\ k + 1 \in Nat /\ (k + 1) - 1 = k
    OBVIOUS
  <2> SUFFICES ASSUME k + 1 <= N PROVE Good(k + 1)
    BY <2>1
  <2>2. Good(k) /\ k + 1 \in 1..N
    <3> HIDE DEF Good
    <3>1. k <= N
      BY <2>1
    <3>2. Good(k)
      BY <3>1
    <3> QED BY <2>1, <3>2
  <2> DEFINE at == loop[k]
             to == SweepOne(ma, mb, at)
  <2>3. loop[k + 1] = to
    BY <2>1, <2>2
  <2>4. at \in SweepState(ma, mb) /\ to \in SweepState(ma, mb)
    BY <2>2, SweepOneType
  <2>5. CASE Over(at)
    <3>1. to = at
      BY <2>5 DEF SweepOne
    <3> QED BY <2>2, <2>3, <2>5, <3>1
  <2>6. CASE ~Over(at)
    <3>1. /\ at.i \in Nat /\ at.j \in Nat
          /\ at.i <= Len(ma) /\ at.j <= Len(mb) /\ at.i + at.j = k + 2
      BY <1>1, <2>2, <2>4, <2>6, SMTT(30) DEF SweepState
    <3>2. Measured(at)
      BY <2>2
    <3> HIDE DEF at
    <3>3. /\ to.i + to.j = at.i + at.j + 1
          /\ IsFiniteSet(Passed(ma, mb, to.i, to.j))
          /\ to.total = Cardinality(Passed(ma, mb, to.i, to.j))
      BY <2>4, <3>1, <3>2, SweepOneMeasure
    <3>4. to.i + to.j = (k + 1) + 2
      BY <2>1, <3>1, <3>3
    <3> HIDE DEF to
    <3> QED BY <2>3, <2>4, <3>3, <3>4
  <2> HIDE DEF Good
  <2> QED BY <2>5, <2>6
<1> HIDE DEF Good
<1>4. G = Nat
  <2> HIDE DEF G
  <2>1. G \subseteq Nat
    BY DEF G
  <2> QED BY <1>2, <1>3, <2>1, NatInduct
<1>5. Good(N)
  BY <1>4
<1> DEFINE at == loop[N]
<1>6. at \in SweepState(ma, mb) /\ Measured(at) /\ (Over(at) \/ at.i + at.j = N + 2)
  BY <1>5 DEF Good
<1> HIDE DEF at
<1>7. at.i \in 1..(Len(ma) + 1) /\ at.j \in 1..(Len(mb) + 1)
  BY <1>6 DEF SweepState
<1>8. at.i = Len(ma) + 1 \/ at.j = Len(mb) + 1
  BY <1>1, <1>6, <1>7
<1>9. (\A p \in 1..Len(ma) : p < at.i) \/ (\A q \in 1..Len(mb) : q < at.j)
  BY <1>1, <1>8
<1>10. Passed(ma, mb, at.i, at.j) = Both(ma, mb)
  BY <1>9 DEF Passed, Holds, Both
<1>11. at.total = Cardinality(Both(ma, mb))
  BY <1>6, <1>10
<1> QED BY <1>11 DEF at

(* intersect_union_duration counts the ticks both lists cover.             *)
LEMMA IntersectMeasure ==
    ASSUME NEW a \in Seq(Interval), NEW b \in Seq(Interval)
    PROVE  intersect_union_duration(a, b) = Cardinality(Both(a, b))
<1> DEFINE ma == merge_intervals(a)
           mb == merge_intervals(b)
           N == Len(ma) + Len(mb)
           loop == Sweeping(ma, mb)
<1>1. intersect_union_duration(a, b) = loop[N].total
  BY DEF intersect_union_duration, Sweeping
<1>2. /\ ma \in Seq(Interval) /\ Apart(ma) /\ \A t \in Nat : Holds(ma, t) <=> Holds(a, t)
      /\ mb \in Seq(Interval) /\ Apart(mb) /\ \A t \in Nat : Holds(mb, t) <=> Holds(b, t)
  BY MergeShape
<1> HIDE DEF ma, mb
<1>3. N \in Nat /\ N = Len(ma) + Len(mb)
  BY <1>2
<1> HIDE DEF N
<1>4. /\ loop[0] = [i |-> 1, j |-> 1, total |-> 0]
      /\ \A k \in 1..N : loop[k] = SweepOne(ma, mb, loop[k - 1])
  BY <1>2, <1>3, SweepLoop
<1> HIDE DEF loop
<1>5. loop[N].total = Cardinality(Both(ma, mb))
  BY <1>2, <1>3, <1>4, SweepMeasure
<1>6. Both(ma, mb) = Both(a, b)
  BY <1>2 DEF Both
<1> QED BY <1>1, <1>5, <1>6

(***************************************************************************)
(* The queries.                                                            *)
(***************************************************************************)
(* Every span list is a list of closed spans.                              *)
EventsInv == events \in [Devices -> Seq(Spans)]

LEMMA EventsInvariant == Spec => []EventsInv
<1>1. Init => EventsInv
  BY DEF Init, EventsInv
<1>2. EventsInv /\ [Next]_events => EventsInv'
  <2> SUFFICES ASSUME EventsInv, [Next]_events PROVE EventsInv'
    OBVIOUS
  <2>1. ASSUME NEW d \in Devices, NEW e \in Spans, PushSpan(d, e) PROVE EventsInv'
    <3>1. Append(events[d], e) \in Seq(Spans)
      BY DEF EventsInv
    <3> QED BY <2>1, <3>1 DEF EventsInv, PushSpan
  <2> QED BY <2>1 DEF Next, ReadOnly, EventsInv
<1> QED BY <1>1, <1>2, PTL DEF Spec

LEMMA WindowType == \A w \in WindowSet : w \in Interval /\ w.begin <= w.end
BY WindowsAssumption DEF WindowSet, Interval

(* Merged spans are not empty, in order and disjoint (merge_intervals).    *)
THEOREM SpansAlwaysMergeDisjoint == Spec => []MergedDisjoint
<1>1. EventsInv => MergedDisjoint
  <2> SUFFICES ASSUME EventsInv, NEW d \in Devices, NEW w \in WindowSet,
                      NEW m, m = merge_intervals(clamped(events[d], w))
               PROVE  /\ \A i \in DOMAIN m : m[i].begin < m[i].end
                      /\ \A i, j \in DOMAIN m : i < j => m[i].end <= m[j].begin
    BY DEF MergedDisjoint
  <2>1. clamped(events[d], w) \in Seq(Interval)
    BY WindowType, ClampedShape DEF EventsInv
  <2>2. m \in Seq(Interval) /\ Apart(m)
    BY <2>1, MergeShape
  <2> QED BY <2>2 DEF Apart
<1> QED BY <1>1, EventsInvariant, PTL

(* The busy time of a window counts every busy tick once                   *)
(* (compute_busy_time).                                                    *)
THEOREM BusyAlwaysMeasure == Spec => []BusyIsMeasure
<1>1. EventsInv => BusyIsMeasure
  <2> SUFFICES ASSUME EventsInv, NEW d \in Devices, NEW w \in WindowSet
               PROVE  compute_busy_time(events[d], w) =
                        Cardinality(Covered(events[d], BusyCategories, w))
    BY DEF BusyIsMeasure, BusyCategories
  <2> QED BY WindowType, TimeInMeasure DEF EventsInv, compute_busy_time
<1> QED BY <1>1, EventsInvariant, PTL

(* The overlap of compute and transfer counts the ticks of both.           *)
LEMMA OverlapMeasure ==
    ASSUME NEW evs \in Seq(Spans), NEW w \in Interval
    PROVE  compute_transfer_overlap_time(evs, w) =
              Cardinality(Covered(evs, BusyCategories, w) \cap Covered(evs, {"TransferActive"}, w))
<1> DEFINE T == {"TransferActive"}
           a == collect_cat(evs, BusyCategories, w)
           b == collect_cat(evs, T, w)
<1>1. /\ a \in Seq(Interval)
      /\ \A t \in Nat : Holds(a, t) <=> t \in Covered(evs, BusyCategories, w)
      /\ Covered(evs, BusyCategories, w) \subseteq Nat
  BY TimeInMeasure
<1> HIDE DEF T
<1>2. b \in Seq(Interval) /\ \A t \in Nat : Holds(b, t) <=> t \in Covered(evs, T, w)
  BY TimeInMeasure
<1>3. compute_transfer_overlap_time(evs, w) = intersect_union_duration(a, b)
  BY DEF compute_transfer_overlap_time, T
<1> HIDE DEF a, b
<1>4. Both(a, b) = Covered(evs, BusyCategories, w) \cap Covered(evs, T, w)
  BY <1>1, <1>2 DEF Both
<1>5. compute_transfer_overlap_time(evs, w) =
         Cardinality(Covered(evs, BusyCategories, w) \cap Covered(evs, T, w))
  BY <1>1, <1>2, <1>3, <1>4, IntersectMeasure
<1> QED BY <1>5 DEF T

(* The transfer overlap of a window counts every tick of it at which the   *)
(* device computes and transfers once (compute_transfer_overlap_time).     *)
THEOREM OverlapAlwaysMeasure == Spec => []OverlapIsMeasure
<1>1. EventsInv => OverlapIsMeasure
  BY WindowType, OverlapMeasure DEF OverlapIsMeasure, EventsInv
<1> QED BY <1>1, EventsInvariant, PTL

(* A set of ticks is split by a cut of the window it lies in.              *)
LEMMA Split ==
    ASSUME NEW A, NEW B, NEW C, IsFiniteSet(A), IsFiniteSet(B), C = A \cup B, A \cap B = {}
    PROVE  Cardinality(C) = Cardinality(A) + Cardinality(B)
<1>1. Cardinality(A \cup B) = Cardinality(A) + Cardinality(B) - Cardinality(A \cap B)
  BY FS_Union
<1>2. Cardinality(A \cap B) = 0 /\ Cardinality(A) \in Nat /\ Cardinality(B) \in Nat
  BY FS_EmptySet, FS_CardinalityType
<1> QED BY <1>1, <1>2

(* The ticks of a set that lie in a window. *)
TicksOf(A, w) == {u \in A : contains(w, u)}

(* The time of two adjacent windows is the time of the window they make.   *)
Adds(time) ==
    \A l, r \in WindowSet :
        l.end = r.begin => time[[begin |-> l.begin, end |-> r.end]] = time[l] + time[r]

(* What counts the ticks of a set adds up over adjacent windows.           *)
LEMMA CountAdds ==
    ASSUME NEW A, A \subseteq Nat, NEW f,
           \A w \in WindowSet : IsFiniteSet(TicksOf(A, w)) /\ f[w] = Cardinality(TicksOf(A, w))
    PROVE  Adds(f)
<1> SUFFICES ASSUME NEW l \in WindowSet, NEW r \in WindowSet, l.end = r.begin,
                    NEW w, w = [begin |-> l.begin, end |-> r.end]
             PROVE  f[w] = f[l] + f[r]
  BY DEF Adds
<1>1. /\ l.begin \in Nat /\ l.end \in Nat /\ l.begin <= l.end
      /\ r.begin \in Nat /\ r.end \in Nat /\ r.begin <= r.end
  BY WindowType, IntervalType
<1>2. w \in WindowSet
  BY <1>1 DEF WindowSet
<1>3. \A u \in Nat : /\ contains(w, u) <=> contains(l, u) \/ contains(r, u)
                     /\ ~(contains(l, u) /\ contains(r, u))
  BY <1>1 DEF contains
<1>4. TicksOf(A, w) = TicksOf(A, l) \cup TicksOf(A, r) /\ TicksOf(A, l) \cap TicksOf(A, r) = {}
  BY <1>3 DEF TicksOf
<1>5. Cardinality(TicksOf(A, w)) = Cardinality(TicksOf(A, l)) + Cardinality(TicksOf(A, r))
  BY <1>4, Split
<1> QED BY <1>2, <1>5

(* Cutting a window in two divides its unknown time, the time of every     *)
(* category, the busy time and the overlap of compute and transfer (gap,   *)
(* device_window).                                                         *)
THEOREM WindowsAlwaysAdd == Spec => []WindowsAdd
<1>1. EventsInv => WindowsAdd
  <2> SUFFICES ASSUME EventsInv, NEW d \in Devices, NEW evs, evs = events[d], NEW time \in Times(evs)
               PROVE  Adds(time)
    BY DEF WindowsAdd, Adds
  <2>1. evs \in Seq(Spans) /\ \A w \in WindowSet : w \in Interval
    BY WindowType DEF EventsInv
  <2>2. Adds([w \in WindowSet |-> unknown(evs, w)])
    <3> DEFINE A == {u \in Nat : \E e : In(e, evs) /\ contains(e, u)}
               B == Nat \ A
               f == [w \in WindowSet |-> unknown(evs, w)]
    <3>1. ASSUME NEW w \in WindowSet
          PROVE  IsFiniteSet(TicksOf(B, w)) /\ f[w] = Cardinality(TicksOf(B, w))
      <4>1. {u \in Nat : Holds(clamped(evs, w), u)} = TicksOf(A, w)
        BY <2>1, ClampedShape DEF TicksOf
      <4>2. {u \in Nat : contains(w, u)} = TicksOf(Nat, w)
        BY DEF TicksOf
      <4>3. TicksOf(Nat, w) = TicksOf(A, w) \cup TicksOf(B, w) /\ TicksOf(A, w) \cap TicksOf(B, w) = {}
        BY DEF TicksOf
      <4>4. clamped(evs, w) \in Seq(Interval)
        BY <2>1, ClampedShape
      <4>5. IsFiniteSet(TicksOf(A, w)) /\ union_duration(clamped(evs, w)) = Cardinality(TicksOf(A, w))
        BY <4>1, <4>4, UnionMeasure
      <4>6. IsFiniteSet(TicksOf(Nat, w)) /\ duration(w) = Cardinality(TicksOf(Nat, w))
        BY <2>1, <4>2, IntervalMeasure
      <4>7. f[w] = duration(w) - union_duration(clamped(evs, w))
        BY DEF unknown
      <4> HIDE DEF A, B, f
      <4>8. IsFiniteSet(TicksOf(B, w))
        BY <4>3, <4>6, FS_Subset
      <4>9. Cardinality(TicksOf(Nat, w)) = Cardinality(TicksOf(A, w)) + Cardinality(TicksOf(B, w))
        BY <4>3, <4>5, <4>8, Split
      <4>10. Cardinality(TicksOf(A, w)) \in Nat /\ Cardinality(TicksOf(B, w)) \in Nat
        BY <4>5, <4>8, FS_CardinalityType
      <4> QED BY <4>5, <4>6, <4>7, <4>8, <4>9, <4>10
    <3>2. B \subseteq Nat
      OBVIOUS
    <3> HIDE DEF B, f
    <3>3. Adds(f)
      BY <3>1, <3>2, CountAdds
    <3> QED BY <3>3 DEF f
  <2>3. ASSUME NEW cats
        PROVE  \A w \in WindowSet : \A u : u \in Covered(evs, cats, w) <=>
                  /\ u \in Nat /\ contains(w, u)
                  /\ \E i \in DOMAIN evs : evs[i].cat \in cats /\ contains(evs[i], u)
    <3> SUFFICES ASSUME NEW w \in WindowSet
                 PROVE  \A u : u \in w.begin..(w.end - 1) <=> u \in Nat /\ contains(w, u)
      BY DEF Covered
    <3>1. w.begin \in Nat /\ w.end \in Nat
      BY <2>1, IntervalType
    <3> QED BY <3>1 DEF contains
  <2>4. ASSUME NEW cats PROVE Adds([w \in WindowSet |-> TimeIn(evs, cats, w)])
    <3> DEFINE A == {u \in Nat : \E i \in DOMAIN evs : evs[i].cat \in cats /\ contains(evs[i], u)}
               f == [w \in WindowSet |-> TimeIn(evs, cats, w)]
    <3>1. ASSUME NEW w \in WindowSet
          PROVE  IsFiniteSet(TicksOf(A, w)) /\ f[w] = Cardinality(TicksOf(A, w))
      <4>1. Covered(evs, cats, w) = TicksOf(A, w)
        BY <2>3 DEF TicksOf
      <4>2. /\ IsFiniteSet(Covered(evs, cats, w))
            /\ TimeIn(evs, cats, w) = Cardinality(Covered(evs, cats, w))
        BY <2>1, TimeInMeasure
      <4> QED BY <4>1, <4>2
    <3>2. A \subseteq Nat
      OBVIOUS
    <3> HIDE DEF A, f
    <3>3. Adds(f)
      BY <3>1, <3>2, CountAdds
    <3> QED BY <3>3 DEF f
  <2>5. Adds([w \in WindowSet |-> compute_transfer_overlap_time(evs, w)])
    <3> DEFINE T == {"TransferActive"}
               On(cats, u) == \E i \in DOMAIN evs : evs[i].cat \in cats /\ contains(evs[i], u)
               A == {u \in Nat : On(BusyCategories, u) /\ On(T, u)}
               f == [w \in WindowSet |-> compute_transfer_overlap_time(evs, w)]
    <3>1. ASSUME NEW w \in WindowSet
          PROVE  IsFiniteSet(TicksOf(A, w)) /\ f[w] = Cardinality(TicksOf(A, w))
      <4> DEFINE D == Covered(evs, BusyCategories, w)
                 E == Covered(evs, T, w)
      <4>1. D \cap E = TicksOf(A, w)
        <5>1. \A u : u \in D <=> u \in Nat /\ contains(w, u) /\ On(BusyCategories, u)
          BY <2>3
        <5>2. \A u : u \in E <=> u \in Nat /\ contains(w, u) /\ On(T, u)
          BY <2>3
        <5> HIDE DEF D, E, On, T
        <5> QED BY <5>1, <5>2 DEF TicksOf
      <4>2. IsFiniteSet(D)
        BY <2>1, TimeInMeasure
      <4>3. compute_transfer_overlap_time(evs, w) = Cardinality(D \cap E)
        BY <2>1, OverlapMeasure
      <4>4. f[w] = compute_transfer_overlap_time(evs, w)
        OBVIOUS
      <4> HIDE DEF A, D, E, f
      <4>5. IsFiniteSet(D \cap E)
        BY <4>2, FS_Subset
      <4> QED BY <4>1, <4>3, <4>4, <4>5
    <3>2. A \subseteq Nat
      OBVIOUS
    <3> HIDE DEF A, f
    <3>3. Adds(f)
      BY <3>1, <3>2, CountAdds
    <3> QED BY <3>3 DEF f
  <2> QED BY <2>2, <2>4, <2>5 DEF Times
<1> QED BY <1>1, EventsInvariant, PTL

(* Useful time is part of the busy time and busy time of the window: the   *)
(* half of ValidateState that holds.                                       *)
THEOREM UsefulWithinBusy ==
    Spec => [](\A d \in Devices, w \in WindowSet :
                  /\ TimeIn(events[d], {"UsefulExecution"}, w) <= compute_busy_time(events[d], w)
                  /\ compute_busy_time(events[d], w) <= duration(w))
<1> DEFINE Parts == \A d \in Devices, w \in WindowSet :
                  /\ TimeIn(events[d], {"UsefulExecution"}, w) <= compute_busy_time(events[d], w)
                  /\ compute_busy_time(events[d], w) <= duration(w)
<1>1. EventsInv => Parts
  <2> SUFFICES ASSUME EventsInv, NEW d \in Devices, NEW w \in WindowSet,
                      NEW evs, evs = events[d], NEW U, U = {"UsefulExecution"}
               PROVE  /\ TimeIn(evs, U, w) <= compute_busy_time(evs, w)
                      /\ compute_busy_time(evs, w) <= duration(w)
    OBVIOUS
  <2>1. evs \in Seq(Spans) /\ w \in Interval
    BY WindowType DEF EventsInv
  <2> DEFINE A == Covered(evs, U, w)
             B == Covered(evs, BusyCategories, w)
             W == {t \in Nat : contains(w, t)}
  <2>2. IsFiniteSet(B) /\ TimeIn(evs, U, w) = Cardinality(A)
        /\ compute_busy_time(evs, w) = Cardinality(B)
    BY <2>1, TimeInMeasure DEF compute_busy_time
  <2>3. IsFiniteSet(W) /\ Cardinality(W) = duration(w)
    BY <2>1, IntervalMeasure
  <2>4. A \subseteq B
    BY DEF Covered, BusyCategories
  <2>5. B \subseteq W
    <3>1. w.begin \in Nat /\ w.end \in Nat
      BY <2>1, IntervalType
    <3> QED BY <3>1 DEF Covered, contains
  <2> HIDE DEF A, B, W
  <2> QED BY <2>2, <2>3, <2>4, <2>5, FS_Subset
<1> QED BY <1>1, EventsInvariant, PTL

(***************************************************************************)
(* The spans of a workload.                                                *)
(***************************************************************************)
(* The devices can be listed, whatever the order.                          *)
LEMMA DeviceOrder ==
    /\ Cardinality(Devices) \in Nat
    /\ device_order \in [1..Cardinality(Devices) -> Devices]
    /\ \A d \in Devices : \E i \in 1..Cardinality(Devices) : device_order[i] = d
<1>1. Cardinality(Devices) \in Nat /\ ExistsBijection(1..Cardinality(Devices), Devices)
  BY WindowsAssumption, FS_CardinalityType
<1> DEFINE N == Cardinality(Devices)
<1>2. PICK o \in [1..N -> Devices] : \A d \in Devices : \E i \in 1..N : o[i] = d
  <2> HIDE DEF N
  <2> QED BY <1>1 DEF N, ExistsBijection, Bijection, Surjection, Injection
<1> QED BY <1>1, <1>2 DEF device_order

(* The loop of SpansOfWorkload.                                            *)
Gathering(wl, N) ==
    CHOOSE all : all = [n \in 0..N |->
        IF n = 0 THEN <<>> ELSE all[n - 1] \o OfWorkload(device_order[n], wl)]

LEMMA GatherLoop ==
    ASSUME EventsInv, NEW wl, NEW N, N = Cardinality(Devices)
    PROVE  /\ Gathering(wl, N)[0] = <<>>
           /\ \A k \in 1..N :
                 Gathering(wl, N)[k] = Gathering(wl, N)[k - 1] \o OfWorkload(device_order[k], wl)
<1> DEFINE Step(o, k) == o \o OfWorkload(device_order[k], wl)
           own == [k \in 1..N |-> OfWorkload(device_order[k], wl)]
           F == [k \in 1..N |-> [o \in Seq(Spans) |-> o \o own[k]]]
<1>1. N \in Nat /\ \A k \in 1..N : own[k] \in Seq(Spans) /\ own[k] = OfWorkload(device_order[k], wl)
  <2>1. N \in Nat /\ \A k \in 1..N : device_order[k] \in Devices
    BY DeviceOrder
  <2>2. \A d \in Devices : OfWorkload(d, wl) \in Seq(Spans)
    BY ChosenShape DEF OfWorkload, EventsInv
  <2> QED BY <2>1, <2>2
<1> HIDE DEF own
<1>2. F \in [1..N -> [Seq(Spans) -> Seq(Spans)]]
  BY <1>1
<1>3. \A k \in 1..N, o \in Seq(Spans) : F[k][o] = o \o own[k]
  OBVIOUS
<1>4. <<>> \in Seq(Spans)
  OBVIOUS
<1> HIDE DEF F
<1>5. PICK f : Iterated(f, Seq(Spans), <<>>, N, F)
  BY <1>1, <1>2, <1>4, Loop
<1>6. f[0] = <<>> /\ \A k \in 1..N : f[k] = Step(f[k - 1], k)
  <2>1. \A k \in 1..N : k - 1 \in 0..N
    BY <1>1
  <2> QED BY <1>1, <1>3, <1>5, <2>1 DEF Iterated
<1> HIDE DEF Step
<1>7. f \in [0..N -> Seq(Spans)]
  BY <1>5 DEF Iterated
<1>8. f = [n \in 0..N |-> IF n = 0 THEN <<>> ELSE Step(f[n - 1], n)]
  BY <1>1, <1>6, <1>7
<1> DEFINE loop == Gathering(wl, N)
<1>9. loop = [n \in 0..N |-> IF n = 0 THEN <<>> ELSE Step(loop[n - 1], n)]
  <2>1. loop = CHOOSE all : all = [n \in 0..N |-> IF n = 0 THEN <<>> ELSE Step(all[n - 1], n)]
    BY DEF Gathering, Step
  <2> HIDE DEF loop
  <2> QED BY <1>8, <2>1
<1> HIDE DEF loop
<1>10. \A k \in 1..N : loop[k] = Step(loop[k - 1], k)
  <2>1. \A k \in 1..N : k \in 0..N /\ k # 0
    BY <1>1
  <2> QED BY <1>9, <2>1
<1>11. loop[0] = <<>>
  BY <1>1, <1>9
<1> QED BY <1>10, <1>11 DEF loop, Step

(* The spans of a workload are those of every device that name it, in      *)
(* whatever order the devices are listed.                                  *)
LEMMA GatheredShape ==
    ASSUME EventsInv, NEW wl
    PROVE  /\ SpansOfWorkload(wl) \in Seq(Spans)
           /\ \A e : In(e, SpansOfWorkload(wl)) <=> e.wl = wl /\ \E d \in Devices : In(e, events[d])
<1> DEFINE N == Cardinality(Devices)
           loop == Gathering(wl, N)
<1>1. SpansOfWorkload(wl) = loop[N]
  BY DEF SpansOfWorkload, Gathering
<1>2. /\ N \in Nat /\ \A k \in 1..N : device_order[k] \in Devices
      /\ \A d \in Devices : \E i \in 1..N : device_order[i] = d
  BY DeviceOrder
<1>3. /\ loop[0] = <<>>
      /\ \A k \in 1..N : loop[k] = loop[k - 1] \o OfWorkload(device_order[k], wl)
  BY GatherLoop
<1> HIDE DEF N, loop
<1>4. ASSUME NEW d \in Devices
      PROVE  /\ OfWorkload(d, wl) \in Seq(Spans)
             /\ \A e : In(e, OfWorkload(d, wl)) <=> e.wl = wl /\ In(e, events[d])
  <2>1. events[d] \in Seq(Spans)
    BY DEF EventsInv
  <2>2. \A e : In(e, events[d]) => e \in Spans
    BY <2>1 DEF In
  <2>3. /\ OfWorkload(d, wl) \in Seq(Spans)
        /\ \A e : In(e, OfWorkload(d, wl)) <=> e \in {x \in Spans : x.wl = wl} /\ In(e, events[d])
    BY <2>1, ChosenShape DEF OfWorkload
  <2> QED BY <2>2, <2>3
<1> DEFINE Good(k) == /\ loop[k] \in Seq(Spans)
                      /\ \A e : In(e, loop[k]) <=>
                            e.wl = wl /\ \E i \in 1..k : In(e, events[device_order[i]])
           G == {k \in Nat : k <= N => Good(k)}
<1>5. 0 \in G
  <2>1. Good(0)
    BY <1>3 DEF In
  <2> QED BY <2>1
<1>6. ASSUME NEW k \in G PROVE k + 1 \in G
  <2>1. k \in Nat /\ k + 1 \in Nat /\ (k + 1) - 1 = k
    OBVIOUS
  <2> SUFFICES ASSUME k + 1 <= N PROVE Good(k + 1)
    BY <2>1
  <2>2. Good(k) /\ k + 1 \in 1..N
    <3> HIDE DEF Good
    <3>1. k <= N
      BY <1>2, <2>1
    <3>2. Good(k)
      BY <3>1
    <3> QED BY <2>1, <3>2
  <2> DEFINE own == OfWorkload(device_order[k + 1], wl)
  <2>3. /\ own \in Seq(Spans)
        /\ \A e : In(e, own) <=> e.wl = wl /\ In(e, events[device_order[k + 1]])
    BY <1>2, <1>4, <2>2
  <2>4. loop[k + 1] = loop[k] \o own
    BY <1>3, <2>1, <2>2
  <2>5. 1..(k + 1) = 1..k \cup {k + 1}
    BY <2>1
  <2> HIDE DEF own
  <2>6. loop[k + 1] \in Seq(Spans)
    BY <2>2, <2>3, <2>4
  <2>7. \A e : In(e, loop[k + 1]) <=> In(e, loop[k]) \/ In(e, own)
    BY <2>2, <2>3, <2>4, InConcat
  <2> QED BY <2>2, <2>3, <2>5, <2>6, <2>7
<1> HIDE DEF Good
<1>7. G = Nat
  <2> HIDE DEF G
  <2>1. G \subseteq Nat
    BY DEF G
  <2> QED BY <1>5, <1>6, <2>1, NatInduct
<1>8. Good(N)
  BY <1>2, <1>7
<1> QED BY <1>1, <1>2, <1>8 DEF Good

(* The active time of a workload counts every tick once, however many      *)
(* devices run it (workload).                                              *)
THEOREM WorkloadAlwaysMergesDevices == Spec => []WorkloadMergesDevices
<1>1. EventsInv => WorkloadMergesDevices
  <2> DEFINE Active(w, wl) == {t \in w.begin..(w.end - 1) :
                \E d \in Devices : \E i \in DOMAIN events[d] :
                    LET e == events[d][i]
                    IN  /\ e.wl = wl /\ contains(e, t)
                        /\ e.cat \in {"UsefulExecution", "NonUsefulExecution", "RetryExecution"}}
  <2> SUFFICES ASSUME EventsInv, NEW w \in WindowSet, NEW wl
               PROVE  active_execution(wl, w) = Cardinality(Active(w, wl))
    BY DEF WorkloadMergesDevices
  <2> DEFINE all == SpansOfWorkload(wl)
  <2>1. /\ all \in Seq(Spans)
        /\ \A e : In(e, all) <=> e.wl = wl /\ \E d \in Devices : In(e, events[d])
    BY GatheredShape
  <2>2. active_execution(wl, w) = TimeIn(all, ActiveCategories, w)
    BY DEF active_execution
  <2> HIDE DEF all
  <2>3. active_execution(wl, w) = Cardinality(Covered(all, ActiveCategories, w))
    BY <2>1, <2>2, WindowType, TimeInMeasure
  <2>4. \A t : t \in Covered(all, ActiveCategories, w) <=>
                  /\ t \in w.begin..(w.end - 1)
                  /\ \E e : In(e, all) /\ e.cat \in ActiveCategories /\ contains(e, t)
    <3>1. DOMAIN all = 1..Len(all)
      BY <2>1
    <3> QED BY <3>1 DEF Covered, In
  <2>5. \A t : t \in Active(w, wl) <=>
                  /\ t \in w.begin..(w.end - 1)
                  /\ \E d \in Devices : \E e : /\ In(e, events[d]) /\ e.wl = wl
                                               /\ contains(e, t) /\ e.cat \in ActiveCategories
    <3>1. \A d \in Devices : DOMAIN events[d] = 1..Len(events[d])
      BY DEF EventsInv
    <3> QED BY <3>1 DEF In, ActiveCategories
  <2> HIDE DEF Active
  <2>6. Covered(all, ActiveCategories, w) = Active(w, wl)
    BY <2>1, <2>4, <2>5
  <2> QED BY <2>3, <2>6
<1> QED BY <1>1, EventsInvariant, PTL

(***************************************************************************)
(* The contributors of a gap.                                              *)
(***************************************************************************)
LongestFirst(evs, w, c, N) ==
    /\ DOMAIN c = 1..N
    /\ \A i \in 1..N : \E k \in DOMAIN ContributorOrder : c[i] = ContributorOrder[k]
    /\ \A k \in DOMAIN ContributorOrder :
          TimeIn(evs, {ContributorOrder[k]}, w) > 0 => \E i \in 1..N : c[i] = ContributorOrder[k]
    /\ \A i, j \in 1..N : i < j => TimeIn(evs, {c[i]}, w) >= TimeIn(evs, {c[j]}, w)

(* contributors lists the categories that have time, longest first.        *)
LEMMA ContributorsShape ==
    ASSUME NEW evs \in Seq(Spans), NEW w \in Interval, NEW c, c = contributors(evs, w)
    PROVE  \E N \in Nat : LongestFirst(evs, w, c, N)
<1> DEFINE time(i) == TimeIn(evs, {ContributorOrder[i]}, w)
           all == Contributing(evs, w)
           R == {p \in all \X all : \/ time(p[1]) > time(p[2])
                                    \/ time(p[1]) = time(p[2]) /\ p[1] < p[2]}
           f == ranked(all, R)
           N == Cardinality(all)
<1>1. c = [n \in 1..N |-> ContributorOrder[f[n]]]
  BY DEF contributors
<1>2. all \subseteq 1..12 /\ DOMAIN ContributorOrder = 1..12
  BY DEF Contributing, ContributorOrder
<1>3. \A k : k \in all <=> k \in DOMAIN ContributorOrder /\ time(k) > 0
  BY DEF Contributing
<1>4. \A k \in all : time(k) \in Nat
  BY TimeInMeasure, FS_CardinalityType
<1> HIDE DEF all, f, time
<1>5. IsFiniteSet(all)
  <2>1. \A n \in Nat : IsFiniteSet(1..n)
    BY FS_Interval
  <2> QED BY <1>2, <2>1, FS_Subset
<1>6. \A i, j \in all : <<i, j>> \in R <=> time(i) > time(j) \/ (time(i) = time(j) /\ i < j)
  OBVIOUS
<1> HIDE DEF R, N
<1>7. WeakOrder(all, R)
  <2>1. \A i \in all : i \in Nat
    BY <1>2
  <2>2. \A i \in all : <<i, i>> \notin R
    BY <1>4, <1>6, <2>1
  <2>3. ASSUME NEW i \in all, NEW j \in all, NEW k \in all, <<i, j>> \in R, <<k, j>> \notin R
        PROVE  <<k, i>> \notin R
    BY <1>4, <1>6, <2>1, <2>3, SMTT(30)
  <2> QED BY <2>2, <2>3 DEF WeakOrder
<1>8. N \in Nat /\ Ranks(f, all, N, R)
  BY <1>5, <1>7, RankedShape DEF f, N
<1>9. \A i \in 1..N : f[i] \in all /\ c[i] = ContributorOrder[f[i]]
  BY <1>1, <1>8 DEF Ranks
<1>10. DOMAIN c = 1..N
  BY <1>1
<1>11. \A i \in 1..N : \E k \in DOMAIN ContributorOrder : c[i] = ContributorOrder[k]
  BY <1>3, <1>9
<1>12. ASSUME NEW k \in DOMAIN ContributorOrder, TimeIn(evs, {ContributorOrder[k]}, w) > 0
       PROVE  \E i \in 1..N : c[i] = ContributorOrder[k]
  <2>1. k \in all
    BY <1>3, <1>12 DEF time
  <2>2. PICK i \in 1..N : f[i] = k
    BY <1>8, <2>1 DEF Ranks
  <2> QED BY <1>9, <2>2
<1>13. ASSUME NEW i \in 1..N, NEW j \in 1..N, i < j
       PROVE  TimeIn(evs, {c[i]}, w) >= TimeIn(evs, {c[j]}, w)
  <2>1. <<f[j], f[i]>> \notin R
    BY <1>8, <1>13 DEF Ranks
  <2>2. time(f[i]) >= time(f[j])
    BY <1>4, <1>6, <1>9, <2>1
  <2>3. time(f[i]) = TimeIn(evs, {c[i]}, w) /\ time(f[j]) = TimeIn(evs, {c[j]}, w)
    BY <1>9 DEF time
  <2> QED BY <2>2, <2>3
<1> HIDE DEF N
<1>14. LongestFirst(evs, w, c, N)
  BY <1>10, <1>11, <1>12, <1>13 DEF LongestFirst
<1> QED BY <1>8, <1>14

(* The ranked contributors of a gap leave out no time of the categories    *)
(* that can contribute, and stand in the order of their time (gap).        *)
THEOREM ContributorsAlwaysComplete == Spec => []ContributorsComplete
<1>1. EventsInv => ContributorsComplete
  <2> SUFFICES ASSUME EventsInv, NEW d \in Devices, NEW w \in WindowSet,
                      NEW evs, evs = events[d], NEW c, c = contributors(evs, w)
               PROVE  /\ Covered(evs, {c[i] : i \in DOMAIN c}, w)
                           = Covered(evs, {ContributorOrder[i] : i \in DOMAIN ContributorOrder}, w)
                      /\ \A i, j \in DOMAIN c :
                            i < j => TimeIn(evs, {c[i]}, w) >= TimeIn(evs, {c[j]}, w)
    BY DEF ContributorsComplete
  <2> DEFINE A == {c[i] : i \in DOMAIN c}
             B == {ContributorOrder[i] : i \in DOMAIN ContributorOrder}
  <2>1. evs \in Seq(Spans) /\ w \in Interval
    BY WindowType DEF EventsInv
  <2>2. PICK N \in Nat : LongestFirst(evs, w, c, N)
    BY <2>1, ContributorsShape
  <2>3. A \subseteq B
    BY <2>2 DEF LongestFirst
  <2>4. Covered(evs, A, w) \subseteq Covered(evs, B, w)
    BY <2>3 DEF Covered
  <2>5. ASSUME NEW t \in Covered(evs, B, w) PROVE t \in Covered(evs, A, w)
    <3>1. PICK n \in DOMAIN evs : evs[n].cat \in B /\ contains(evs[n], t)
      BY DEF Covered
    <3>2. PICK k \in DOMAIN ContributorOrder : evs[n].cat = ContributorOrder[k]
      BY <3>1
    <3> DEFINE C == Covered(evs, {ContributorOrder[k]}, w)
    <3>3. t \in C
      BY <3>1, <3>2 DEF Covered
    <3>4. IsFiniteSet(C) /\ TimeIn(evs, {ContributorOrder[k]}, w) = Cardinality(C)
      BY <2>1, TimeInMeasure
    <3> HIDE DEF C
    <3>5. Cardinality(C) \in Nat /\ Cardinality(C) # 0
      BY <3>3, <3>4, FS_EmptySet, FS_CardinalityType
    <3>6. ContributorOrder[k] \in A
      BY <2>2, <3>4, <3>5 DEF LongestFirst
    <3> QED BY <3>1, <3>2, <3>6 DEF Covered
  <2> QED BY <2>2, <2>4, <2>5 DEF LongestFirst
<1> QED BY <1>1, EventsInvariant, PTL

(***************************************************************************)
(* The timeline.                                                           *)
(***************************************************************************)
LEMMA ImageFinite ==
    ASSUME NEW S, IsFiniteSet(S), NEW f
    PROVE  IsFiniteSet({f[x] : x \in S})
<1> DEFINE T == {f[x] : x \in S}
           g == [x \in S |-> f[x]]
<1>1. g \in Surjection(S, T)
  BY DEF Surjection
<1> HIDE DEF g, T
<1>2. IsFiniteSet(T)
  BY <1>1, FS_Surjection
<1> QED BY <1>2 DEF T

LEMMA TimelineEventsShape ==
    ASSUME EventsInv, NEW w
    PROVE  /\ IsFiniteSet(TimelineEvents(w))
           /\ \A x \in TimelineEvents(w) : x.device \in Devices /\ x.span \in Spans
           /\ \A d \in Devices : \A e :
                 (\E x \in TimelineEvents(w) : x.device = d /\ x.span = e)
                    <=> In(e, events[d]) /\ InTimeline(e, w)
<1> DEFINE on(d) == {k \in DOMAIN events[d] : InTimeline(events[d][k], w)}
           entry(d, k) == [device |-> d, n |-> k, span |-> events[d][k]]
           E(d) == {entry(d, n) : n \in on(d)}
<1>1. TimelineEvents(w) = UNION {E(d) : d \in Devices}
  BY DEF TimelineEvents
<1>2. \A d \in Devices : /\ DOMAIN events[d] = 1..Len(events[d]) /\ Len(events[d]) \in Nat
                         /\ \A k \in 1..Len(events[d]) : events[d][k] \in Spans
  BY DEF EventsInv
<1>3. ASSUME NEW d \in Devices PROVE IsFiniteSet(E(d))
  <2>1. IsFiniteSet(on(d))
    <3>1. IsFiniteSet(1..Len(events[d]))
      BY <1>2, FS_Interval
    <3> QED BY <1>2, <3>1, FS_Subset
  <2> HIDE DEF on, entry
  <2>2. IsFiniteSet({entry(d, n) : n \in on(d)})
    <3> DEFINE S == on(d)
               f == [n \in S |-> entry(d, n)]
    <3>1. IsFiniteSet({f[n] : n \in S})
      BY <2>1, ImageFinite
    <3>2. {f[n] : n \in S} = {entry(d, n) : n \in S}
      OBVIOUS
    <3> QED BY <3>1, <3>2
  <2> QED BY <2>2
<1> HIDE DEF E
<1>4. IsFiniteSet(TimelineEvents(w))
  <2> DEFINE Es == {E(d) : d \in Devices}
  <2>1. IsFiniteSet(Es)
    <3> DEFINE f == [d \in Devices |-> E(d)]
    <3>1. IsFiniteSet({f[d] : d \in Devices})
      BY WindowsAssumption, ImageFinite
    <3>2. {f[d] : d \in Devices} = Es
      OBVIOUS
    <3> QED BY <3>1, <3>2
  <2>2. \A T \in Es : IsFiniteSet(T)
    BY <1>3
  <2> HIDE DEF Es
  <2>3. IsFiniteSet(UNION Es)
    BY <2>1, <2>2, FS_UNION
  <2> QED BY <1>1, <2>3 DEF Es
<1>5. \A x : x \in TimelineEvents(w) <=> \E d \in Devices : \E k \in on(d) : x = entry(d, k)
  BY <1>1 DEF E
<1>6. \A d, k : entry(d, k).device = d /\ entry(d, k).span = events[d][k]
  OBVIOUS
<1>7. \A d \in Devices : \A e : (\E k \in on(d) : events[d][k] = e) <=> In(e, events[d]) /\ InTimeline(e, w)
  BY <1>2 DEF In
<1>8. \A d \in Devices : \A k \in on(d) : events[d][k] \in Spans
  BY <1>2
<1> HIDE DEF on, entry
<1>9. \A x \in TimelineEvents(w) : x.device \in Devices /\ x.span \in Spans
  BY <1>5, <1>6, <1>8
<1>10. ASSUME NEW d \in Devices, NEW e
       PROVE  (\E x \in TimelineEvents(w) : x.device = d /\ x.span = e)
                 <=> In(e, events[d]) /\ InTimeline(e, w)
  <2>1. (\E x \in TimelineEvents(w) : x.device = d /\ x.span = e)
           <=> \E k \in on(d) : events[d][k] = e
    BY <1>5, <1>6
  <2> QED BY <1>7, <2>1
<1> QED BY <1>4, <1>9, <1>10

LEMMA EarlierWeak ==
    ASSUME NEW S, \A x \in S : /\ x.device \in Nat /\ x.span.begin \in Nat
                               /\ x.span.src \in Nat /\ x.span.obs \in Nat
    PROVE  WeakOrder(S, {p \in S \X S : Earlier(p[1], p[2])})
<1> DEFINE R == {p \in S \X S : Earlier(p[1], p[2])}
<1>1. \A x, y \in S : <<x, y>> \in R <=> Earlier(x, y)
  OBVIOUS
<1> HIDE DEF R
<1>2. \A x \in S : ~Earlier(x, x)
  BY DEF Earlier
<1>3. ASSUME NEW x \in S, NEW y \in S, NEW z \in S, Earlier(x, y), ~Earlier(z, y)
      PROVE  ~Earlier(z, x)
  BY <1>3, SMTT(30) DEF Earlier
<1>4. WeakOrder(S, R)
  BY <1>1, <1>2, <1>3 DEF WeakOrder
<1> QED BY <1>4 DEF R

(* The timeline of a window is a sequence of its spans, by their begin.    *)
LEMMA TimelineShape ==
    ASSUME EventsInv, NEW w
    PROVE  /\ timeline(w) \in Seq(TimelineEvents(w))
           /\ \A x : In(x, timeline(w)) <=> x \in TimelineEvents(w)
           /\ \A i, j \in DOMAIN timeline(w) :
                 i < j => timeline(w)[i].span.begin <= timeline(w)[j].span.begin
<1> DEFINE all == TimelineEvents(w)
           R == {p \in all \X all : Earlier(p[1], p[2])}
           t == timeline(w)
           N == Cardinality(all)
<1>1. t = ranked(all, R)
  BY DEF timeline
<1>2. IsFiniteSet(all) /\ \A x \in all : x.device \in Devices /\ x.span \in Spans
  BY TimelineEventsShape
<1> HIDE DEF all
<1>3. \A x \in all : /\ x.device \in Nat /\ x.span.begin \in Nat
                     /\ x.span.src \in Nat /\ x.span.obs \in Nat
  BY <1>2, WindowsAssumption
<1>4. WeakOrder(all, R)
  BY <1>3, EarlierWeak
<1>5. \A x, y \in all : <<x, y>> \in R <=> Earlier(x, y)
  OBVIOUS
<1> HIDE DEF R, t
<1>6. N \in Nat /\ Ranks(t, all, N, R)
  BY <1>1, <1>2, <1>4, RankedShape
<1> HIDE DEF N
<1>7. t \in Seq(all) /\ Len(t) = N /\ DOMAIN t = 1..N
  BY <1>6 DEF Ranks
<1>8. \A x : In(x, t) <=> x \in all
  <2>1. \A x \in all : \E i \in 1..N : t[i] = x
    BY <1>6 DEF Ranks
  <2>2. \A i \in 1..N : t[i] \in all
    BY <1>6 DEF Ranks
  <2> QED BY <1>7, <2>1, <2>2 DEF In
<1>9. ASSUME NEW i \in 1..N, NEW j \in 1..N, i < j PROVE t[i].span.begin <= t[j].span.begin
  <2>1. t[i] \in all /\ t[j] \in all /\ <<t[j], t[i]>> \notin R
    BY <1>6, <1>9 DEF Ranks
  <2>2. ~(t[j].span.begin < t[i].span.begin)
    BY <1>5, <2>1 DEF Earlier
  <2> QED BY <1>3, <2>1, <2>2
<1> QED BY <1>7, <1>8, <1>9 DEF t, all

(* The timeline stands in time order over all devices, has every span that *)
(* begins in the window, and the spans it has of a device leave as much of *)
(* the window unknown as all spans of the device do (timeline, gap).       *)
THEOREM TimelineAlwaysCoversWindow == Spec => []TimelineCoversWindow
<1>1. EventsInv => TimelineCoversWindow
  <2> SUFFICES ASSUME EventsInv, NEW w \in WindowSet, NEW t, t = timeline(w)
               PROVE  /\ \A i, j \in DOMAIN t : i < j => t[i].span.begin <= t[j].span.begin
                      /\ \A d \in Devices : \A n \in DOMAIN events[d] :
                            contains(w, events[d][n].begin)
                                => \E i \in DOMAIN t : t[i].device = d /\ t[i].n = n
                      /\ \A d \in Devices :
                            LET on == chosen(t, {x \in TimelineEvents(w) : x.device = d})
                            IN  unknown([i \in DOMAIN on |-> on[i].span], w) = unknown(events[d], w)
    BY DEF TimelineCoversWindow
  <2> DEFINE all == TimelineEvents(w)
  <2>1. /\ t \in Seq(all)
        /\ \A x : In(x, t) <=> x \in all
        /\ \A i, j \in DOMAIN t : i < j => t[i].span.begin <= t[j].span.begin
    BY TimelineShape
  <2>2. /\ \A x \in all : x.device \in Devices /\ x.span \in Spans
        /\ \A d \in Devices : \A e : (\E x \in all : x.device = d /\ x.span = e)
                                        <=> In(e, events[d]) /\ InTimeline(e, w)
    BY TimelineEventsShape
  <2>3. w \in Interval /\ w.begin \in Nat /\ w.end \in Nat
    BY WindowType, IntervalType
  <2>4. ASSUME NEW d \in Devices, NEW n \in DOMAIN events[d], contains(w, events[d][n].begin)
        PROVE  \E i \in DOMAIN t : t[i].device = d /\ t[i].n = n
    <3> DEFINE x == [device |-> d, n |-> n, span |-> events[d][n]]
    <3>1. x \in all
      BY <2>4 DEF TimelineEvents, InTimeline
    <3>2. x.device = d /\ x.n = n
      OBVIOUS
    <3> HIDE DEF x
    <3> QED BY <2>1, <3>1, <3>2 DEF In
  <2> HIDE DEF all
  <2>5. ASSUME NEW d \in Devices, NEW on, on = chosen(t, {x \in all : x.device = d}),
               NEW s, s = [i \in DOMAIN on |-> on[i].span]
        PROVE  unknown(s, w) = unknown(events[d], w)
    <3>1. on \in Seq(all) /\ \A x : In(x, on) <=> x \in all /\ x.device = d
      BY <2>1, <2>5, ChosenShape
    <3>2. DOMAIN on = 1..Len(on) /\ Len(on) \in Nat /\ \A i \in 1..Len(on) : on[i] \in all
      BY <3>1
    <3>3. s \in Seq(Spans) /\ Len(s) = Len(on) /\ \A i \in 1..Len(on) : s[i] = on[i].span
      BY <2>2, <2>5, <3>2
    <3>4. \A e : In(e, s) <=> \E x : In(x, on) /\ x.span = e
      BY <3>3 DEF In
    <3>5. \A e : In(e, s) <=> In(e, events[d]) /\ InTimeline(e, w)
      BY <2>2, <3>1, <3>4
    <3>6. events[d] \in Seq(Spans) /\ \A e : In(e, events[d]) => e \in Spans
      BY DEF EventsInv, In
    <3>7. ASSUME NEW e \in Spans, NEW u \in Nat, contains(w, u), contains(e, u)
          PROVE  InTimeline(e, w)
      <4>1. e.begin \in Nat /\ e.end \in Nat
        BY SpanType
      <4> QED BY <2>3, <3>7, <4>1 DEF InTimeline, contains, intersect, duration
    <3> DEFINE U(evs) == {u \in Nat : Holds(clamped(evs, w), u)}
    <3>8. ASSUME NEW evs \in Seq(Spans)
          PROVE  /\ unknown(evs, w) = duration(w) - Cardinality(U(evs))
                 /\ \A u : u \in U(evs) <=> /\ u \in Nat /\ contains(w, u)
                                            /\ \E e : In(e, evs) /\ contains(e, u)
      BY <2>3, ClampedShape, UnionMeasure DEF unknown
    <3> HIDE DEF U
    <3>9. U(s) = U(events[d])
      BY <3>3, <3>5, <3>6, <3>7, <3>8
    <3> QED BY <3>3, <3>6, <3>8, <3>9
  <2> QED BY <2>1, <2>4, <2>5 DEF all
<1> QED BY <1>1, EventsInvariant, PTL
=============================================================================
