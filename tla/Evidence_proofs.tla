-------------------------- MODULE Evidence_proofs --------------------------
(***************************************************************************)
(* As long as nothing has been dropped, the spans, the open intervals and  *)
(* the capacity of every device are those that the retained history calls  *)
(* for, for every universe of observations and through every load.         *)
(***************************************************************************)
EXTENDS Observatory_proofs, FiniteSetTheorems

(* A history with an observation appended to it. *)
LEMMA AppendShape ==
    ASSUME NEW h \in Seq(Observations), NEW o \in Observations
    PROVE  /\ Len(h) \in Nat /\ Len(Append(h, o)) = Len(h) + 1
           /\ \A i \in 1..Len(h) : Append(h, o)[i] = h[i]
           /\ Append(h, o)[Len(h) + 1] = o
           /\ 1..Len(Append(h, o)) = (1..Len(h)) \cup {Len(h) + 1}
<1>1. /\ Len(h) \in Nat /\ Len(Append(h, o)) = Len(h) + 1
      /\ \A i \in 1..Len(h) : Append(h, o)[i] = h[i]
      /\ Append(h, o)[Len(h) + 1] = o
  BY AppendProperties, LenProperties
<1> QED BY <1>1

-----------------------------------------------------------------------------
(***************************************************************************)
(* Stranded and published capacity.                                        *)
(***************************************************************************)
(* An observation about a device is the latest of its types, and any other *)
(* leaves the latest as they are.                                          *)
LEMMA LatestAppend ==
    ASSUME NEW h \in Seq(Observations), NEW o \in Observations, NEW d, NEW types
    PROVE  Latest(Append(h, o), d, types) =
              IF o.device = d /\ o.type \in types THEN {Len(h) + 1} ELSE Latest(h, d, types)
<1> DEFINE a == Append(h, o)
           n == Len(h)
           About(x) == x.device = d /\ x.type \in types
<1>1. /\ n \in Nat /\ Len(a) = n + 1 /\ a[n + 1] = o
      /\ \A i \in 1..n : a[i] = h[i]
  BY AppendShape
<1> HIDE DEF a
<1>2. Latest(a, d, types) = {i \in 1..Len(a) : About(a[i]) /\ \A j \in (i+1)..Len(a) : ~About(a[j])}
  BY DEF Latest
<1>3. Latest(h, d, types) = {i \in 1..n : About(h[i]) /\ \A j \in (i+1)..n : ~About(h[j])}
  BY DEF Latest
<1>4. (o.device = d /\ o.type \in types) <=> About(o)
  OBVIOUS
<1> HIDE DEF About
<1>5. CASE About(o)
  <2>1. ASSUME NEW i \in Latest(a, d, types) PROVE i = n + 1
    <3>1. i \in 1..(n + 1) /\ \A j \in (i+1)..(n+1) : ~About(a[j])
      BY <1>1, <1>2
    <3>2. CASE i \in 1..n
      <4>1. n + 1 \in (i+1)..(n+1)
        BY <1>1, <3>2
      <4> QED BY <1>1, <1>5, <3>1, <4>1
    <3> QED BY <1>1, <3>1, <3>2
  <2>2. n + 1 \in Latest(a, d, types)
    <3>1. n + 1 \in 1..Len(a) /\ (n + 1 + 1)..Len(a) = {}
      BY <1>1
    <3> QED BY <1>1, <1>2, <1>5, <3>1
  <2> QED BY <1>4, <1>5, <2>1, <2>2 DEF a
<1>6. CASE ~About(o)
  <2>1. ASSUME NEW i \in Latest(a, d, types) PROVE i \in Latest(h, d, types)
    <3>1. i \in 1..(n + 1) /\ About(a[i]) /\ \A j \in (i+1)..(n+1) : ~About(a[j])
      BY <1>1, <1>2
    <3>2. i \in 1..n
      BY <1>1, <1>6, <3>1
    <3>3. ASSUME NEW j \in (i+1)..n PROVE ~About(h[j])
      BY <1>1, <3>1, <3>2
    <3> QED BY <1>1, <1>3, <3>1, <3>2, <3>3
  <2>2. ASSUME NEW i \in Latest(h, d, types) PROVE i \in Latest(a, d, types)
    <3>1. i \in 1..n /\ About(h[i]) /\ \A j \in (i+1)..n : ~About(h[j])
      BY <1>3
    <3>2. ASSUME NEW j \in (i+1)..(n+1) PROVE ~About(a[j])
      BY <1>1, <1>6, <3>1
    <3> QED BY <1>1, <1>2, <3>1, <3>2
  <2> QED BY <1>4, <1>6, <2>1, <2>2 DEF a
<1> QED BY <1>5, <1>6

(* The capacity an observation leaves behind. *)
LEMMA CapacityOf ==
    ASSUME NEW cap \in CapacityStates, NEW o \in ObservationRecords
    PROVE  /\ SetCapacity(cap, o).stranded_bytes =
                 CASE o.type = "FragmentationObserved" -> o.bytes
                   [] o.type = "FragmentationCleared" -> 0
                   [] OTHER -> cap.stranded_bytes
           /\ SetCapacity(cap, o).published_bytes =
                 CASE o.type = "CapacityPublished" -> o.capacity_bytes
                   [] o.type = "CapacityInvalidated" -> 0
                   [] OTHER -> cap.published_bytes
BY DEF SetCapacity, Stranded, CapacityStates, ObservationRecords, Larger

(* What an observation does to a device, part by part. *)
LEMMA AccumulateParts ==
    ASSUME NEW dev \in DeviceAccums, NEW o \in ObservationRecords, NEW caps \in SUBSET Capabilities
    PROVE  LET new == Accumulate(Own(dev, o, caps), o)
           IN  /\ new.cap = SetCapacity(dev.cap, o)
               /\ o.type \in BeginTypes =>
                     /\ new.open = OpenInterval(dev, o).open
                     /\ new.events = dev.events
               /\ o.type \in EndTypes =>
                     /\ new.open = CloseInterval(dev, o).open
                     /\ new.events = CloseInterval(dev, o).events
               /\ o.type \notin BeginTypes \cup EndTypes =>
                     new.open = dev.open /\ new.events = dev.events
<1> DEFINE e == Own(dev, o, caps)
<1>1. e \in DeviceAccums
  BY OwnType
<1>2. e.open = dev.open /\ e.events = dev.events /\ e.cap = dev.cap
  BY DEF Own, DeviceAccums
<1> HIDE DEF e
<1>3. CASE o.type \in BeginTypes
  <2>1. Accumulate(e, o) = OpenInterval(e, o) /\ SetCapacity(dev.cap, o) = dev.cap
    BY <1>3 DEF Accumulate, SetCapacity, BeginTypes, EndTypes
  <2>2. /\ OpenInterval(e, o).open = OpenInterval(dev, o).open
        /\ OpenInterval(e, o).events = dev.events /\ OpenInterval(e, o).cap = dev.cap
    BY <1>1, <1>2 DEF OpenInterval, DeviceAccums
  <2>3. o.type \notin EndTypes
    BY <1>3 DEF BeginTypes, EndTypes
  <2> QED BY <1>3, <2>1, <2>2, <2>3 DEF e
<1>4. CASE o.type \in EndTypes
  <2>1. Accumulate(e, o) = CloseInterval(e, o) /\ SetCapacity(dev.cap, o) = dev.cap
    BY <1>4 DEF Accumulate, SetCapacity, BeginTypes, EndTypes
  <2> DEFINE m == {oe \in dev.open : oe.key = KeyOf(o, pair_type[o.type])}
             span == ClosedSpan(CHOOSE oe \in m : TRUE, o)
  <2>2. /\ CloseInterval(e, o) = IF m = {} THEN e
              ELSE [e EXCEPT !.events = Append(@, span), !.open = @ \ m]
        /\ CloseInterval(dev, o) = IF m = {} THEN dev
              ELSE [dev EXCEPT !.events = Append(@, span), !.open = @ \ m]
    BY <1>2 DEF CloseInterval
  <2> HIDE DEF m, span
  <2>3. /\ CloseInterval(e, o).open = CloseInterval(dev, o).open
        /\ CloseInterval(e, o).events = CloseInterval(dev, o).events
        /\ CloseInterval(e, o).cap = dev.cap
    BY <1>1, <1>2, <2>2 DEF DeviceAccums
  <2>4. o.type \notin BeginTypes
    BY <1>4 DEF BeginTypes, EndTypes
  <2> QED BY <1>4, <2>1, <2>3, <2>4 DEF e
<1>5. CASE o.type \notin BeginTypes \cup EndTypes
  <2>1. CASE o.type \in {"DeviceSample", "WorkloadSample"}
    <3>1. Accumulate(e, o) = AddSample(e, o) /\ SetCapacity(dev.cap, o) = dev.cap
      BY <2>1 DEF Accumulate, SetCapacity, BeginTypes, EndTypes
    <3>2. AddSample(e, o).open = e.open /\ AddSample(e, o).events = e.events
          /\ AddSample(e, o).cap = e.cap
      BY <1>1 DEF AddSample, DeviceAccums
    <3> QED BY <1>2, <1>5, <3>1, <3>2 DEF e
  <2>2. CASE o.type \in {"UsefulWorkSummary", "EfficiencySummary"}
    <3>1. Accumulate(e, o) = AddBand(e, o) /\ SetCapacity(dev.cap, o) = dev.cap
      BY <2>2 DEF Accumulate, SetCapacity, BeginTypes, EndTypes
    <3>2. AddBand(e, o).open = e.open /\ AddBand(e, o).events = e.events
          /\ AddBand(e, o).cap = e.cap
      BY <1>1 DEF AddBand, DeviceAccums
    <3> QED BY <1>2, <1>5, <3>1, <3>2 DEF e
  <2>3. CASE o.type \notin {"DeviceSample", "WorkloadSample", "UsefulWorkSummary", "EfficiencySummary"}
    <3>1. Accumulate(e, o) = [e EXCEPT !.cap = SetCapacity(@, o)]
      BY <1>5, <2>3 DEF Accumulate
    <3> QED BY <1>1, <1>2, <1>5, <3>1 DEF e, DeviceAccums
  <2> QED BY <2>1, <2>2, <2>3
<1> QED BY <1>3, <1>4, <1>5 DEF e

(* The capacity of a device keeps matching the history. *)
LEMMA CapacityAppend ==
    ASSUME NEW h \in Seq(Observations), NEW o \in Observations, NEW d,
           NEW cap \in CapacityStates, CapacityMatch(h, d, cap)
    PROVE  CapacityMatch(Append(h, o), d, IF o.device = d THEN SetCapacity(cap, o) ELSE cap)
<1> DEFINE a == Append(h, o)
           n == Len(h)
           Frag == {"FragmentationObserved", "FragmentationCleared"}
           Publ == {"CapacityPublished", "CapacityInvalidated"}
           new == IF o.device = d THEN SetCapacity(cap, o) ELSE cap
<1>1. /\ n \in Nat /\ a[n + 1] = o /\ \A i \in 1..n : a[i] = h[i]
      /\ \A types : Latest(h, d, types) \subseteq 1..n
      /\ \A types : Latest(a, d, types) =
            IF o.device = d /\ o.type \in types THEN {n + 1} ELSE Latest(h, d, types)
  BY AppendShape, LatestAppend DEF Latest
<1> HIDE DEF a
<1>2. /\ new.stranded_bytes =
            IF o.device = d /\ o.type \in Frag
            THEN IF o.type = "FragmentationObserved" THEN o.bytes ELSE 0
            ELSE cap.stranded_bytes
      /\ new.published_bytes =
            IF o.device = d /\ o.type \in Publ
            THEN IF o.type = "CapacityPublished" THEN o.capacity_bytes ELSE 0
            ELSE cap.published_bytes
  BY CapacityOf, ObservationType
<1>3. /\ IF Latest(h, d, Frag) = {} THEN cap.stranded_bytes = 0
         ELSE \A i \in Latest(h, d, Frag) : cap.stranded_bytes =
                  IF h[i].type = "FragmentationObserved" THEN h[i].bytes ELSE 0
      /\ IF Latest(h, d, Publ) = {} THEN cap.published_bytes = 0
         ELSE \A i \in Latest(h, d, Publ) : cap.published_bytes =
                  IF h[i].type = "CapacityPublished" THEN h[i].capacity_bytes ELSE 0
  BY DEF CapacityMatch
<1> HIDE DEF new, n
<1>4. IF Latest(a, d, Frag) = {} THEN new.stranded_bytes = 0
      ELSE \A i \in Latest(a, d, Frag) : new.stranded_bytes =
               IF a[i].type = "FragmentationObserved" THEN a[i].bytes ELSE 0
  <2>1. CASE o.device = d /\ o.type \in Frag
    <3>1. Latest(a, d, Frag) = {n + 1}
      BY <1>1, <2>1
    <3> QED BY <1>1, <1>2, <2>1, <3>1
  <2>2. CASE ~(o.device = d /\ o.type \in Frag)
    <3>1. Latest(a, d, Frag) = Latest(h, d, Frag) /\ \A i \in Latest(h, d, Frag) : a[i] = h[i]
      BY <1>1, <2>2
    <3>2. new.stranded_bytes = cap.stranded_bytes
      BY <1>2, <2>2
    <3> QED BY <1>3, <3>1, <3>2
  <2> QED BY <2>1, <2>2
<1>5. IF Latest(a, d, Publ) = {} THEN new.published_bytes = 0
      ELSE \A i \in Latest(a, d, Publ) : new.published_bytes =
               IF a[i].type = "CapacityPublished" THEN a[i].capacity_bytes ELSE 0
  <2>1. CASE o.device = d /\ o.type \in Publ
    <3>1. Latest(a, d, Publ) = {n + 1}
      BY <1>1, <2>1
    <3> QED BY <1>1, <1>2, <2>1, <3>1
  <2>2. CASE ~(o.device = d /\ o.type \in Publ)
    <3>1. Latest(a, d, Publ) = Latest(h, d, Publ) /\ \A i \in Latest(h, d, Publ) : a[i] = h[i]
      BY <1>1, <2>2
    <3>2. new.published_bytes = cap.published_bytes
      BY <1>2, <2>2
    <3> QED BY <1>3, <3>1, <3>2
  <2> QED BY <2>1, <2>2
<1> QED BY <1>4, <1>5 DEF CapacityMatch, a, new

-----------------------------------------------------------------------------
(***************************************************************************)
(* Open intervals and closed spans.                                        *)
(***************************************************************************)
(* The BEGIN observations of a device that are still open, and the entry   *)
(* that each of them has in the table of open intervals.                   *)
OpenAt(h, d) == {i \in 1..Len(h) : h[i].device = d /\ Unclosed(h, i)}

EntryOf(b) == [key |-> KeyOf(b, b.type), begin |-> b.begin, cat |-> b.state, obs |-> b.id]

LEMMA OpenEntries ==
    ASSUME NEW h, NEW d, NEW dev
    PROVE  OpenMatch(h, d, dev) <=> dev.open = {EntryOf(h[i]) : i \in OpenAt(h, d)}
BY DEF OpenMatch, OpenAt, EntryOf

(* Begins and ends are different observations, and what pairs is what has  *)
(* the same key.                                                           *)
LEMMA PairKeys ==
    ASSUME NEW b \in Observations, NEW e \in Observations
    PROVE  /\ Pairs(b, e) => /\ e.type \in EndTypes /\ b.device = e.device
                             /\ b.type \in BeginTypes
                             /\ KeyOf(b, b.type) = KeyOf(e, pair_type[e.type])
           /\ b.type \in BeginTypes /\ e.type \in EndTypes /\ e.device # 0
              /\ KeyOf(b, b.type) = KeyOf(e, pair_type[e.type]) => Pairs(b, e)
           /\ b.type \in BeginTypes /\ KeyOf(e, e.type) = KeyOf(b, b.type) =>
                 e.type = b.type /\ e.device = b.device
BY DEF Pairs, KeyOf

LEMMA BeginOrEnd == BeginTypes \cap EndTypes = {}
BY DEF BeginTypes, EndTypes

(* Of two begins of the same type, both or neither pair with an end if     *)
(* they have the same key, and only one of them does otherwise.            *)
LEMMA AgainKeys ==
    ASSUME NEW b \in Observations, NEW c \in Observations, NEW e \in Observations, Pairs(b, e)
    PROVE  (c.type = b.type /\ Pairs(c, e)) <=> KeyOf(c, c.type) = KeyOf(b, b.type)
<1>1. /\ b.type \in BeginTypes /\ e.type \in EndTypes /\ pair_type[e.type] = b.type
      /\ b.source = e.source /\ b.device = e.device /\ b.device # 0
      /\ b.workload = e.workload /\ b.scope = e.scope
  BY DEF Pairs
<1>2. ASSUME c.type = b.type, Pairs(c, e) PROVE KeyOf(c, c.type) = KeyOf(b, b.type)
  BY <1>1, <1>2 DEF Pairs, KeyOf
<1>3. ASSUME KeyOf(c, c.type) = KeyOf(b, b.type) PROVE c.type = b.type /\ Pairs(c, e)
  <2>1. c.source = b.source /\ c.device = b.device /\ c.type = b.type
        /\ c.workload = b.workload /\ c.scope = b.scope
    BY <1>3 DEF KeyOf
  <2> QED BY <1>1, <2>1 DEF Pairs
<1> QED BY <1>2, <1>3

(* Which begins are open after one more observation. *)
LEMMA UnclosedAppend ==
    ASSUME NEW h \in Seq(Observations), NEW o \in Observations
    PROVE  /\ Unclosed(Append(h, o), Len(h) + 1) <=> o.type \in BeginTypes
           /\ \A i \in 1..Len(h) :
                 Unclosed(Append(h, o), i) <=>
                    /\ Unclosed(h, i) /\ ~Pairs(h[i], o)
                    /\ KeyOf(o, o.type) # KeyOf(h[i], h[i].type)
<1> DEFINE a == Append(h, o)
           n == Len(h)
<1>1. /\ n \in Nat /\ Len(a) = n + 1 /\ a[n + 1] = o
      /\ \A i \in 1..n : a[i] = h[i]
  BY AppendShape
<1> HIDE DEF a
<1>2. Unclosed(a, n + 1) <=> o.type \in BeginTypes
  <2>1. (n + 1 + 1)..Len(a) = {}
    BY <1>1
  <2> QED BY <1>1, <2>1 DEF Unclosed
<1>3. ASSUME NEW i \in 1..n
      PROVE  Unclosed(a, i) <=>
                /\ Unclosed(h, i) /\ ~Pairs(h[i], o)
                /\ KeyOf(o, o.type) # KeyOf(h[i], h[i].type)
  <2> DEFINE Clear(k, x) == ~Pairs(h[i], x) /\ KeyOf(x, x.type) # KeyOf(h[i], h[i].type)
  <2>1. Unclosed(a, i) <=> h[i].type \in BeginTypes /\ \A k \in (i+1)..(n+1) : Clear(k, a[k])
    BY <1>1 DEF Unclosed
  <2>2. Unclosed(h, i) <=> h[i].type \in BeginTypes /\ \A k \in (i+1)..n : Clear(k, h[k])
    BY DEF Unclosed
  <2> HIDE DEF Clear
  <2>3. (i+1)..(n+1) = ((i+1)..n) \cup {n+1} /\ (i+1)..n \subseteq 1..n
    BY <1>1
  <2>4. (\A k \in (i+1)..(n+1) : Clear(k, a[k])) <=>
           (\A k \in (i+1)..n : Clear(k, h[k])) /\ Clear(n + 1, o)
    BY <1>1, <2>3
  <2> QED BY <2>1, <2>2, <2>4 DEF Clear
<1> QED BY <1>2, <1>3 DEF a

(* Which begins the new observation closes, and that it changes nothing    *)
(* about what was closed before.                                           *)
LEMMA ClosesAppend ==
    ASSUME NEW h \in Seq(Observations), NEW o \in Observations
    PROVE  /\ \A i, j \in 1..Len(h) : Closes(Append(h, o), i, j) <=> Closes(h, i, j)
           /\ \A i \in 1..Len(h) :
                 Closes(Append(h, o), i, Len(h) + 1) <=> Pairs(h[i], o) /\ Unclosed(h, i)
           /\ \A j \in 1..(Len(h) + 1) : ~Closes(Append(h, o), Len(h) + 1, j)
<1> DEFINE a == Append(h, o)
           n == Len(h)
<1>1. /\ n \in Nat /\ Len(a) = n + 1 /\ a[n + 1] = o
      /\ \A i \in 1..n : a[i] = h[i]
      /\ \A i \in 1..n : h[i] \in Observations
  BY AppendShape
<1> HIDE DEF a
<1>2. ASSUME NEW i \in 1..n, NEW j \in 1..n
      PROVE  Closes(a, i, j) <=> Closes(h, i, j)
  <2>1. \A k \in (i+1)..(j-1) : a[k] = h[k]
    BY <1>1
  <2> QED BY <1>1, <2>1 DEF Closes
<1>3. ASSUME NEW i \in 1..n
      PROVE  Closes(a, i, n + 1) <=> Pairs(h[i], o) /\ Unclosed(h, i)
  <2>1. \A k \in (i+1)..n : a[k] = h[k] /\ h[k] \in Observations
    BY <1>1
  <2>2. Closes(a, i, n + 1) <=>
           /\ Pairs(h[i], o)
           /\ \A k \in (i+1)..n : ~Pairs(h[i], h[k]) /\ ~(h[k].type = h[i].type /\ Pairs(h[k], o))
    <3>1. (n + 1) - 1 = n /\ i < n + 1
      BY <1>1
    <3> QED BY <1>1, <2>1, <3>1 DEF Closes
  <2>3. ASSUME Pairs(h[i], o), NEW k \in (i+1)..n
        PROVE  (h[k].type = h[i].type /\ Pairs(h[k], o)) <=>
                  KeyOf(h[k], h[k].type) = KeyOf(h[i], h[i].type)
    BY <1>1, <2>1, <2>3, AgainKeys
  <2>4. Pairs(h[i], o) => h[i].type \in BeginTypes
    BY DEF Pairs
  <2> QED BY <2>2, <2>3, <2>4 DEF Unclosed
<1>4. ASSUME NEW j \in 1..(n + 1) PROVE ~Closes(a, n + 1, j)
  BY <1>1 DEF Closes
<1> QED BY <1>2, <1>3, <1>4 DEF a

(* The pairs of a longer history. *)
LEMMA ClosedAppend ==
    ASSUME NEW h \in Seq(Observations), NEW o \in Observations, NEW d
    PROVE  Closed(Append(h, o), d) =
              Closed(h, d) \cup {<<i, Len(h) + 1>> : i \in {j \in OpenAt(h, d) : Pairs(h[j], o)}}
<1> DEFINE a == Append(h, o)
           n == Len(h)
           New == {<<i, n + 1>> : i \in {j \in OpenAt(h, d) : Pairs(h[j], o)}}
<1>1. /\ n \in Nat /\ 1..Len(a) = 1..n \cup {n + 1} /\ a[n + 1] = o
      /\ \A i \in 1..n : a[i] = h[i]
      /\ n + 1 \notin 1..n
  BY AppendShape
<1>2. /\ \A i, j \in 1..n : Closes(a, i, j) <=> Closes(h, i, j)
      /\ \A i \in 1..n : Closes(a, i, n + 1) <=> Pairs(h[i], o) /\ Unclosed(h, i)
      /\ \A j \in 1..n \cup {n + 1} : ~Closes(a, n + 1, j)
  <2>1. 1..n \cup {n + 1} = 1..(n + 1)
    BY <1>1
  <2> QED BY <2>1, ClosesAppend
<1> HIDE DEF a
<1>3. ASSUME NEW p \in Closed(a, d) PROVE p \in Closed(h, d) \cup New
  <2>1. PICK i \in 1..n \cup {n + 1}, j \in 1..n \cup {n + 1} :
           p = <<i, j>> /\ a[i].device = d /\ Closes(a, i, j)
    BY <1>1 DEF Closed
  <2>2. i \in 1..n
    BY <1>2, <2>1
  <2>3. CASE j \in 1..n
    <3>1. Closes(h, i, j) /\ h[i].device = d
      BY <1>1, <1>2, <2>1, <2>2, <2>3
    <3> QED BY <2>1, <2>2, <2>3, <3>1 DEF Closed
  <2>4. CASE j = n + 1
    <3>1. Pairs(h[i], o) /\ Unclosed(h, i) /\ h[i].device = d
      BY <1>1, <1>2, <2>1, <2>2, <2>4
    <3>2. i \in {k \in OpenAt(h, d) : Pairs(h[k], o)}
      BY <2>2, <3>1 DEF OpenAt
    <3> QED BY <2>1, <2>4, <3>2
  <2> QED BY <2>1, <2>3, <2>4
<1>4. ASSUME NEW p \in Closed(h, d) PROVE p \in Closed(a, d)
  <2>1. PICK i \in 1..n, j \in 1..n : p = <<i, j>> /\ h[i].device = d /\ Closes(h, i, j)
    BY DEF Closed
  <2>2. a[i].device = d /\ Closes(a, i, j)
    BY <1>1, <1>2, <2>1
  <2> QED BY <1>1, <2>1, <2>2 DEF Closed
<1>5. ASSUME NEW p \in New PROVE p \in Closed(a, d)
  <2>1. PICK i \in OpenAt(h, d) : p = <<i, n + 1>> /\ Pairs(h[i], o)
    OBVIOUS
  <2>2. i \in 1..n /\ h[i].device = d /\ Unclosed(h, i)
    BY <2>1 DEF OpenAt
  <2>3. a[i].device = d /\ Closes(a, i, n + 1)
    BY <1>1, <1>2, <2>1, <2>2
  <2> QED BY <1>1, <2>1, <2>2, <2>3 DEF Closed
<1> QED BY <1>3, <1>4, <1>5 DEF a

(* Of the open begins of a device at most one pairs with an end. *)
LEMMA OnePair ==
    ASSUME NEW h \in Seq(Observations), NEW o \in Observations, NEW d,
           NEW i \in OpenAt(h, d), NEW j \in OpenAt(h, d), Pairs(h[i], o), Pairs(h[j], o)
    PROVE  i = j
<1>1. /\ i \in 1..Len(h) /\ j \in 1..Len(h) /\ Unclosed(h, i) /\ Unclosed(h, j)
      /\ Len(h) \in Nat /\ h[i] \in Observations /\ h[j] \in Observations
  BY DEF OpenAt
<1>2. KeyOf(h[i], h[i].type) = KeyOf(h[j], h[j].type)
  BY <1>1, PairKeys
<1>3. CASE i < j
  <2>1. j \in (i+1)..Len(h)
    BY <1>1, <1>3
  <2> QED BY <1>1, <1>2, <2>1 DEF Unclosed
<1>4. CASE j < i
  <2>1. i \in (j+1)..Len(h)
    BY <1>1, <1>4
  <2> QED BY <1>1, <1>2, <2>1 DEF Unclosed
<1> QED BY <1>1, <1>3, <1>4

(* The spans of a history are finitely many. *)
LEMMA ClosedFinite ==
    ASSUME NEW h \in Seq(Observations), NEW d
    PROVE  IsFiniteSet(Closed(h, d)) /\ Cardinality(Closed(h, d)) \in Nat
<1>1. 1 \in Int /\ Len(h) \in Int
  OBVIOUS
<1>2. IsFiniteSet(1..Len(h))
  BY <1>1, FS_Interval
<1>3. IsFiniteSet((1..Len(h)) \X (1..Len(h)))
  BY <1>2, FS_Product
<1>4. Closed(h, d) \subseteq (1..Len(h)) \X (1..Len(h))
  BY DEF Closed
<1>5. IsFiniteSet(Closed(h, d))
  BY <1>3, <1>4, FS_Subset
<1> QED BY <1>5, FS_CardinalityType

(* An observation that is no END closes nothing. *)
LEMMA NoEnd ==
    ASSUME NEW h \in Seq(Observations), NEW o \in Observations, NEW d, NEW dev, NEW new,
           SpansMatch(h, d, dev), new.events = dev.events,
           o.type \notin EndTypes \/ o.device # d
    PROVE  SpansMatch(Append(h, o), d, new)
<1> DEFINE a == Append(h, o)
<1>1. \A i \in OpenAt(h, d) : i \in 1..Len(h) /\ h[i] \in Observations /\ h[i].device = d
  BY DEF OpenAt
<1>2. \A i \in OpenAt(h, d) : ~Pairs(h[i], o)
  BY <1>1, PairKeys
<1>3. Closed(a, d) = Closed(h, d)
  <2>1. {j \in OpenAt(h, d) : Pairs(h[j], o)} = {}
    BY <1>2
  <2>2. {<<i, Len(h) + 1>> : i \in {j \in OpenAt(h, d) : Pairs(h[j], o)}} = {}
    BY <2>1
  <2>3. Closed(a, d) = Closed(h, d)
           \cup {<<i, Len(h) + 1>> : i \in {j \in OpenAt(h, d) : Pairs(h[j], o)}}
    BY ClosedAppend
  <2> HIDE DEF a
  <2> QED BY <2>2, <2>3
<1>4. ASSUME NEW p \in Closed(h, d) PROVE a[p[1]] = h[p[1]] /\ a[p[2]] = h[p[2]]
  <2>1. p[1] \in 1..Len(h) /\ p[2] \in 1..Len(h)
    BY DEF Closed
  <2> QED BY <2>1, AppendShape
<1> HIDE DEF a
<1>5. SpansMatch(a, d, new)
  BY <1>3, <1>4 DEF SpansMatch
<1> QED BY <1>5 DEF a

(* The entry of a begin observation has a key of its own among the open    *)
(* ones, and an observation closes it or replaces it as its key says.      *)
LEMMA OpenAppend ==
    ASSUME NEW h \in Seq(Observations), NEW o \in Observations, NEW d
    PROVE  OpenAt(Append(h, o), d) =
              {i \in OpenAt(h, d) : ~Pairs(h[i], o) /\ KeyOf(o, o.type) # KeyOf(h[i], h[i].type)}
              \cup {i \in {Len(h) + 1} : o.device = d /\ o.type \in BeginTypes}
<1> DEFINE a == Append(h, o)
           n == Len(h)
<1>1. /\ n \in Nat /\ 1..Len(a) = 1..n \cup {n + 1} /\ a[n + 1] = o
      /\ \A i \in 1..n : a[i] = h[i]
      /\ n + 1 \notin 1..n
  BY AppendShape
<1>2. /\ Unclosed(a, n + 1) <=> o.type \in BeginTypes
      /\ \A i \in 1..n :
            Unclosed(a, i) <=>
               Unclosed(h, i) /\ ~Pairs(h[i], o) /\ KeyOf(o, o.type) # KeyOf(h[i], h[i].type)
  BY UnclosedAppend
<1> HIDE DEF a, n
<1>3. OpenAt(h, d) = {i \in 1..n : h[i].device = d /\ Unclosed(h, i)}
  BY DEF OpenAt, n
<1>4. OpenAt(a, d) =
         {i \in OpenAt(h, d) : ~Pairs(h[i], o) /\ KeyOf(o, o.type) # KeyOf(h[i], h[i].type)}
         \cup {i \in {n + 1} : o.device = d /\ o.type \in BeginTypes}
  BY <1>1, <1>2, <1>3 DEF OpenAt
<1> QED BY <1>4 DEF a, n

(* The begins of a device kept open by an observation have their entries   *)
(* in the longer history as they had before.                               *)
LEMMA EntriesKept ==
    ASSUME NEW h \in Seq(Observations), NEW o \in Observations, NEW d
    PROVE  \A i \in OpenAt(h, d) :
              i \in 1..Len(h) /\ h[i] \in Observations /\ Append(h, o)[i] = h[i]
              /\ h[i].device = d /\ h[i].type \in BeginTypes /\ EntryOf(h[i]).key = KeyOf(h[i], h[i].type)
BY AppendShape DEF OpenAt, Unclosed, EntryOf

(* An observation that neither begins nor ends an interval of the device   *)
(* leaves its open intervals.                                              *)
LEMMA OpenUnchanged ==
    ASSUME NEW h \in Seq(Observations), NEW o \in Observations, NEW d, NEW dev, NEW new,
           OpenMatch(h, d, dev), new.open = dev.open,
           o.device # d \/ o.type \notin BeginTypes \cup EndTypes
    PROVE  OpenMatch(Append(h, o), d, new)
<1> DEFINE a == Append(h, o)
<1>1. \A i \in OpenAt(h, d) : a[i] = h[i] /\ h[i].device = d /\ h[i].type \in BeginTypes
                              /\ h[i] \in Observations
  BY EntriesKept
<1>2. ASSUME NEW i \in OpenAt(h, d)
      PROVE  ~Pairs(h[i], o) /\ KeyOf(o, o.type) # KeyOf(h[i], h[i].type)
  <2>1. ~Pairs(h[i], o)
    BY <1>1, PairKeys
  <2>2. KeyOf(o, o.type) # KeyOf(h[i], h[i].type)
    BY <1>1, PairKeys
  <2> QED BY <2>1, <2>2
<1>3. OpenAt(a, d) = OpenAt(h, d)
  <2>1. {i \in {Len(h) + 1} : o.device = d /\ o.type \in BeginTypes} = {}
    OBVIOUS
  <2>2. {i \in OpenAt(h, d) : ~Pairs(h[i], o) /\ KeyOf(o, o.type) # KeyOf(h[i], h[i].type)}
           = OpenAt(h, d)
    BY <1>2
  <2>3. OpenAt(a, d) =
           {i \in OpenAt(h, d) : ~Pairs(h[i], o) /\ KeyOf(o, o.type) # KeyOf(h[i], h[i].type)}
           \cup {i \in {Len(h) + 1} : o.device = d /\ o.type \in BeginTypes}
    BY OpenAppend
  <2> HIDE DEF a
  <2> QED BY <2>1, <2>2, <2>3
<1> HIDE DEF a
<1>4. {EntryOf(a[i]) : i \in OpenAt(a, d)} = {EntryOf(h[i]) : i \in OpenAt(h, d)}
  BY <1>1, <1>3
<1>5. OpenMatch(a, d, new)
  BY <1>4, OpenEntries
<1> QED BY <1>5 DEF a

(* A BEGIN replaces the open interval of the same key, if there is one.    *)
LEMMA OpenBegins ==
    ASSUME NEW h \in Seq(Observations), NEW o \in Observations, NEW d,
           NEW dev \in DeviceAccums, NEW new,
           OpenMatch(h, d, dev), o.device = d, o.type \in BeginTypes,
           new.open = OpenInterval(dev, o).open
    PROVE  OpenMatch(Append(h, o), d, new)
<1> DEFINE a == Append(h, o)
           n == Len(h)
           Kept == {i \in OpenAt(h, d) : KeyOf(o, o.type) # KeyOf(h[i], h[i].type)}
<1>1. \A i \in OpenAt(h, d) : a[i] = h[i] /\ h[i] \in Observations
                              /\ EntryOf(h[i]).key = KeyOf(h[i], h[i].type)
  BY EntriesKept
<1>2. a[n + 1] = o
  BY AppendShape
<1>3. \A i \in OpenAt(h, d) : ~Pairs(h[i], o)
  BY <1>1, PairKeys, BeginOrEnd
<1>4. OpenAt(a, d) = Kept \cup {n + 1}
  BY <1>3, OpenAppend
<1> HIDE DEF a, n
<1>5. {EntryOf(a[i]) : i \in OpenAt(a, d)} = {EntryOf(h[i]) : i \in Kept} \cup {EntryOf(o)}
  BY <1>1, <1>2, <1>4
<1>6. new.open = {oe \in dev.open : oe.key # KeyOf(o, o.type)} \cup {EntryOf(o)}
  BY DEF OpenInterval, DeviceAccums, EntryOf
<1>7. dev.open = {EntryOf(h[i]) : i \in OpenAt(h, d)}
  BY OpenEntries
<1>8. {oe \in dev.open : oe.key # KeyOf(o, o.type)} = {EntryOf(h[i]) : i \in Kept}
  BY <1>1, <1>7
<1>9. OpenMatch(a, d, new)
  BY <1>5, <1>6, <1>8, OpenEntries
<1> QED BY <1>9 DEF a

(* An END removes the open interval it pairs with, and adds its span.      *)
LEMMA OpenEnds ==
    ASSUME NEW h \in Seq(Observations), NEW o \in Observations, NEW d,
           NEW dev \in DeviceAccums, NEW new,
           OpenMatch(h, d, dev), SpansMatch(h, d, dev),
           o.device = d, d # 0, o.type \in EndTypes, o.end >= o.begin,
           new.open = CloseInterval(dev, o).open, new.events = CloseInterval(dev, o).events
    PROVE  OpenMatch(Append(h, o), d, new) /\ SpansMatch(Append(h, o), d, new)
<1> DEFINE a == Append(h, o)
           n == Len(h)
           Ended == {i \in OpenAt(h, d) : Pairs(h[i], o)}
           m == {oe \in dev.open : oe.key = KeyOf(o, pair_type[o.type])}
<1>1. \A i \in OpenAt(h, d) :
         /\ i \in 1..n /\ a[i] = h[i] /\ h[i] \in Observations /\ h[i].type \in BeginTypes
         /\ EntryOf(h[i]).key = KeyOf(h[i], h[i].type)
  BY EntriesKept
<1>2. /\ n \in Nat /\ a[n + 1] = o /\ \A i \in 1..n : a[i] = h[i]
      /\ n + 1 \notin 1..n
  BY AppendShape
<1>3. /\ dev.open = {EntryOf(h[i]) : i \in OpenAt(h, d)}
      /\ dev.open \subseteq OpenEvents /\ dev.events \in Seq(EventSpans)
  BY OpenEntries DEF DeviceAccums
<1>4. \A i \in OpenAt(h, d) :
         /\ Pairs(h[i], o) <=> KeyOf(h[i], h[i].type) = KeyOf(o, pair_type[o.type])
         /\ KeyOf(o, o.type) # KeyOf(h[i], h[i].type)
  <2>1. ASSUME NEW i \in OpenAt(h, d)
        PROVE  Pairs(h[i], o) <=> KeyOf(h[i], h[i].type) = KeyOf(o, pair_type[o.type])
    BY <1>1, PairKeys
  <2>2. ASSUME NEW i \in OpenAt(h, d) PROVE KeyOf(o, o.type) # KeyOf(h[i], h[i].type)
    BY <1>1, PairKeys, BeginOrEnd
  <2> QED BY <2>1, <2>2
<1>5. m = {EntryOf(h[i]) : i \in Ended}
  BY <1>1, <1>3, <1>4
<1>6. OpenAt(a, d) = OpenAt(h, d) \ Ended
  <2>1. o.type \notin BeginTypes
    BY BeginOrEnd
  <2> QED BY <1>4, <2>1, OpenAppend
<1>7. Closed(a, d) = Closed(h, d) \cup {<<i, n + 1>> : i \in Ended}
  BY ClosedAppend
<1> HIDE DEF a, m, n
<1>8. {EntryOf(a[i]) : i \in OpenAt(a, d)} = dev.open \ m
  <2>1. \A i \in OpenAt(h, d) : i \in Ended <=> EntryOf(h[i]) \in m
    BY <1>1, <1>3, <1>4 DEF m
  <2> QED BY <1>1, <1>3, <1>6, <2>1
<1>9. ASSUME NEW p \in Closed(h, d) PROVE a[p[1]] = h[p[1]] /\ a[p[2]] = h[p[2]]
  <2>1. p[1] \in 1..n /\ p[2] \in 1..n
    BY DEF Closed, n
  <2> QED BY <1>2, <2>1
<1>10. CASE Ended = {}
  <2>1. m = {}
    BY <1>5, <1>10
  <2>2. new.open = dev.open /\ new.events = dev.events
    BY <2>1 DEF CloseInterval, m
  <2>3. OpenMatch(a, d, new)
    BY <1>8, <2>1, <2>2, OpenEntries
  <2>4. Closed(a, d) = Closed(h, d)
    BY <1>7, <1>10
  <2>5. SpansMatch(a, d, new)
    BY <1>9, <2>2, <2>4 DEF SpansMatch
  <2> QED BY <2>3, <2>5 DEF a
<1>11. ASSUME NEW i \in Ended PROVE OpenMatch(a, d, new) /\ SpansMatch(a, d, new)
  <2> DEFINE oe == EntryOf(h[i])
             span == ClosedSpan(oe, o)
  <2>1. i \in OpenAt(h, d) /\ Pairs(h[i], o) /\ Ended = {i}
    <3>1. \A j \in Ended : j = i
      BY OnePair
    <3> QED BY <3>1
  <2>2. m = {oe}
    BY <1>5, <2>1
  <2>3. (CHOOSE x \in m : TRUE) = oe
    BY <2>2
  <2>4. new.open = dev.open \ m /\ new.events = Append(dev.events, span)
    <3>1. CloseInterval(dev, o) = [dev EXCEPT !.events = Append(@, span), !.open = @ \ m]
      BY <2>2, <2>3 DEF CloseInterval, m
    <3> HIDE DEF m, span
    <3>2. CloseInterval(dev, o).open = dev.open \ m
          /\ CloseInterval(dev, o).events = Append(dev.events, span)
      BY <3>1 DEF DeviceAccums
    <3> QED BY <3>2
  <2>5. OpenMatch(a, d, new)
    BY <1>8, <2>4, OpenEntries
  <2>6. SpanOf(span, h[i], o)
    <3>1. o \in ObservationRecords /\ h[i] \in ObservationRecords
      BY <1>1, <2>1, ObservationType
    <3>2. Larger(Larger(o.begin, o.end), h[i].begin) = Larger(h[i].begin, o.end)
      <4>1. o.begin \in Nat /\ o.end \in Nat /\ h[i].begin \in Nat
        BY <3>1 DEF ObservationRecords
      <4>2. Larger(o.begin, o.end) = o.end
        BY <4>1 DEF Larger
      <4> QED BY <4>1, <4>2 DEF Larger
    <3>3. oe.begin = h[i].begin /\ oe.cat = h[i].state /\ oe.obs = h[i].id
      BY DEF EntryOf
    <3> HIDE DEF oe
    <3> QED BY <3>2, <3>3 DEF SpanOf, ClosedSpan
  <2>7. /\ Len(dev.events) \in Nat /\ Len(new.events) = Len(dev.events) + 1
        /\ \A k \in 1..Len(dev.events) : new.events[k] = dev.events[k]
        /\ new.events[Len(dev.events) + 1] = span
    <3>1. span \in EventSpans
      <4>1. oe \in OpenEvents
        BY <1>3, <2>1
      <4> HIDE DEF oe
      <4> QED BY <4>1, SpanType, ObservationType
    <3> HIDE DEF span
    <3> QED BY <1>3, <2>4, <3>1, AppendProperties, LenProperties
  <2> HIDE DEF span, oe
  <2>8. Closed(a, d) = Closed(h, d) \cup {<<i, n + 1>>}
    BY <1>7, <2>1
  <2>9. <<i, n + 1>> \notin Closed(h, d)
    BY <1>2 DEF Closed, n
  <2>10. Cardinality(Closed(a, d)) = Cardinality(Closed(h, d)) + 1
    <3> DEFINE C == Closed(h, d)
               x == <<i, n + 1>>
    <3>1. IsFiniteSet(C) /\ x \notin C /\ Closed(a, d) = C \cup {x}
      BY <2>8, <2>9, ClosedFinite
    <3> HIDE DEF C, x
    <3>2. Cardinality(C \cup {x}) = Cardinality(C) + 1
      BY <3>1, FS_AddElement
    <3> QED BY <3>1, <3>2 DEF C
  <2>11. Len(new.events) = Cardinality(Closed(a, d))
    BY <2>7, <2>10 DEF SpansMatch
  <2>12. ASSUME NEW p \in Closed(h, d)
         PROVE  \E k \in 1..Len(new.events) : SpanOf(new.events[k], a[p[1]], a[p[2]])
    <3>1. PICK k \in 1..Len(dev.events) : SpanOf(dev.events[k], h[p[1]], h[p[2]])
      BY DEF SpansMatch
    <3>2. k \in 1..Len(new.events) /\ new.events[k] = dev.events[k]
      BY <2>7
    <3> QED BY <1>9, <3>1, <3>2
  <2>13. \E k \in 1..Len(new.events) : SpanOf(new.events[k], a[i], a[n + 1])
    <3>1. a[i] = h[i] /\ a[n + 1] = o
      BY <1>1, <1>2, <2>1
    <3>2. Len(dev.events) + 1 \in 1..Len(new.events)
      BY <2>7
    <3> QED BY <2>6, <2>7, <3>1, <3>2
  <2>14. SpansMatch(a, d, new)
    <3>1. ASSUME NEW p \in Closed(a, d)
          PROVE  \E k \in 1..Len(new.events) : SpanOf(new.events[k], a[p[1]], a[p[2]])
      <4>1. CASE p = <<i, n + 1>>
        <5>1. p[1] = i /\ p[2] = n + 1
          BY <4>1
        <5> QED BY <2>13, <5>1
      <4> QED BY <2>8, <2>12, <4>1
    <3> QED BY <2>11, <3>1 DEF SpansMatch
  <2> QED BY <2>5, <2>14
<1> QED BY <1>10, <1>11 DEF a

-----------------------------------------------------------------------------
(***************************************************************************)
(* The evidence of every device follows the history.                       *)
(***************************************************************************)
(* An accepted observation keeps every device in step with the history.    *)
LEMMA DeviceAppend ==
    ASSUME NEW h \in Seq(Observations), NEW o \in Observations, WellFormed(o),
           NEW d, d # 0, NEW dev \in DeviceAccums, DeviceMatches(h, d, dev),
           NEW caps \in SUBSET Capabilities
    PROVE  DeviceMatches(Append(h, o), d,
               IF o.device = d THEN Accumulate(Own(dev, o, caps), o) ELSE dev)
<1> DEFINE new == Accumulate(Own(dev, o, caps), o)
           a == Append(h, o)
<1>1. /\ o \in ObservationRecords /\ dev.cap \in CapacityStates
      /\ SpansMatch(h, d, dev) /\ OpenMatch(h, d, dev) /\ CapacityMatch(h, d, dev.cap)
  BY ObservationType DEF DeviceMatches, DeviceAccums
<1>2. /\ new.cap = SetCapacity(dev.cap, o)
      /\ o.type \in BeginTypes =>
            new.open = OpenInterval(dev, o).open /\ new.events = dev.events
      /\ o.type \in EndTypes =>
            /\ new.open = CloseInterval(dev, o).open
            /\ new.events = CloseInterval(dev, o).events
      /\ o.type \notin BeginTypes \cup EndTypes =>
            new.open = dev.open /\ new.events = dev.events
  BY <1>1, AccumulateParts
<1>3. CapacityMatch(a, d, IF o.device = d THEN SetCapacity(dev.cap, o) ELSE dev.cap)
  BY <1>1, CapacityAppend
<1> HIDE DEF new
<1>4. CASE o.device # d
  <2>1. SpansMatch(a, d, dev)
    BY <1>1, <1>4, NoEnd
  <2>2. OpenMatch(a, d, dev)
    BY <1>1, <1>4, OpenUnchanged
  <2> QED BY <1>3, <1>4, <2>1, <2>2 DEF DeviceMatches
<1>5. CASE o.device = d /\ o.type \in EndTypes
  <2>1. OpenMatch(a, d, new) /\ SpansMatch(a, d, new)
    BY <1>1, <1>2, <1>5, OpenEnds DEF WellFormed
  <2> QED BY <1>2, <1>3, <1>5, <2>1 DEF DeviceMatches, new
<1>6. CASE o.device = d /\ o.type \in BeginTypes
  <2>1. o.type \notin EndTypes
    BY <1>6, BeginOrEnd
  <2>2. SpansMatch(a, d, new)
    BY <1>1, <1>2, <1>6, <2>1, NoEnd
  <2>3. OpenMatch(a, d, new)
    BY <1>1, <1>2, <1>6, OpenBegins
  <2> QED BY <1>2, <1>3, <1>6, <2>2, <2>3 DEF DeviceMatches, new
<1>7. CASE o.device = d /\ o.type \notin BeginTypes \cup EndTypes
  <2>1. SpansMatch(a, d, new)
    BY <1>1, <1>2, <1>7, NoEnd
  <2>2. OpenMatch(a, d, new)
    BY <1>1, <1>2, <1>7, OpenUnchanged
  <2> QED BY <1>2, <1>3, <1>7, <2>1, <2>2 DEF DeviceMatches, new
<1> QED BY <1>4, <1>5, <1>6, <1>7

(* A device about which nothing has been observed. *)
LEMMA NothingObserved ==
    ASSUME NEW d PROVE DeviceMatches(<<>>, d, NewDevice)
<1>1. /\ NewDevice.open = {} /\ NewDevice.events = <<>>
      /\ NewDevice.cap.stranded_bytes = 0 /\ NewDevice.cap.published_bytes = 0
  BY DEF NewDevice
<1>2. 1..Len(<<>>) = {}
  OBVIOUS
<1>3. \A types : Latest(<<>>, d, types) = {}
  BY <1>2 DEF Latest
<1>4. CapacityMatch(<<>>, d, NewDevice.cap)
  BY <1>1, <1>3 DEF CapacityMatch
<1>5. OpenMatch(<<>>, d, NewDevice)
  BY <1>1, <1>2 DEF OpenMatch
<1>6. Closed(<<>>, d) = {}
  BY <1>2 DEF Closed
<1>7. SpansMatch(<<>>, d, NewDevice)
  BY <1>1, <1>6, FS_EmptySet DEF SpansMatch
<1> QED BY <1>4, <1>5, <1>7 DEF DeviceMatches

(* Accepting an observation keeps devices and history in step, unless an   *)
(* observation is dropped.                                                 *)
LEMMA AcceptKeepsEvidence ==
    ASSUME TypeOK, LedgerBalances, EvidenceInv, NEW o \in Observations, NEW st, Accept(o, st)
    PROVE  EvidenceInv'
<1> DEFINE caps == AdmittedSource(o).capabilities
           acc == Accumulate(Own(DeviceOf(o), o, caps), o)
<1>1. /\ WellFormed(o) /\ history \in Seq(Observations) /\ caps \in SUBSET Capabilities
      /\ o.device \in Nat /\ health["dropped"] \in Nat
  <2>1. AdmittedSource(o) \in SourceStates /\ o \in ObservationRecords
    BY AdmittedType, ObservationType
  <2> QED BY <2>1 DEF Accept, TypeOK, SourceStates, ObservationRecords, HealthCounters
<1>2. /\ devices' = (IF o.device = 0 THEN devices ELSE Put(devices, o.device, acc))
      /\ history' = Retain(history, o)
      /\ health'["dropped"] = IF Len(history) < max_observations
                              THEN health["dropped"] ELSE health["dropped"] + 1
  BY DEF Accept, Count, Dropped, Reconnected, HealthCounters
<1>3. DOMAIN devices' \subseteq Devices
  <2>1. DOMAIN devices \subseteq Devices
    BY DEF EvidenceInv
  <2>2. CASE o.device = 0
    BY <1>2, <2>1, <2>2
  <2>3. CASE o.device # 0
    <3>1. DOMAIN devices' = DOMAIN devices \cup {o.device}
      BY <1>2, <2>3 DEF Put
    <3>2. o.device \in Devices
      BY <2>3 DEF Devices
    <3> QED BY <2>1, <3>1, <3>2
  <2> QED BY <2>2, <2>3
<1>4. \A d \in Devices : DeviceAt(d) \in DeviceAccums
  <2>1. NewDevice \in DeviceAccums
    BY DEF NewDevice, DeviceAccums, CapacityStates, DeviceStates
  <2> QED BY <2>1 DEF DeviceAt, TypeOK, IsMap
<1>5. ASSUME health'["dropped"] = 0, NEW d \in Devices
      PROVE  DeviceMatches(history', d, DeviceAt(d)')
  <2>1. health["dropped"] = 0 /\ history' = Append(history, o)
    BY <1>1, <1>2, <1>5 DEF Retain
  <2>2. DeviceMatches(history, d, DeviceAt(d)) /\ d # 0
    BY <2>1 DEF EvidenceInv, Devices
  <2>3. DeviceMatches(Append(history, o), d,
            IF o.device = d THEN Accumulate(Own(DeviceAt(d), o, caps), o) ELSE DeviceAt(d))
    BY <1>1, <1>4, <2>2, DeviceAppend
  <2>4. DeviceAt(d)' = IF o.device = d THEN acc ELSE DeviceAt(d)
    BY <1>2, <2>2 DEF DeviceAt, Put
  <2>5. o.device = d => DeviceOf(o) = DeviceAt(d)
    BY DEF DeviceOf, DeviceAt
  <2> QED BY <2>1, <2>3, <2>4, <2>5
<1> QED BY <1>3, <1>5 DEF EvidenceInv, Devices

(* Every outcome of ingest_locked keeps devices and history in step. *)
LEMMA IngestKeepsEvidence ==
    ASSUME TypeOK, LedgerBalances, EvidenceInv, NEW o \in Observations, NEW st,
           ingest_locked(o, st)
    PROVE  EvidenceInv'
<1>1. CASE Accept(o, st)
  BY <1>1, AcceptKeepsEvidence
<1>2. CASE ~Accept(o, st)
  <2>1. UNCHANGED <<devices, history>>
    BY <1>2 DEF ingest_locked, RejectEpoch, RejectAuthority, RejectDisconnected, RejectDevice,
                RejectWorkload, RejectEvidence, RejectDuplicate, RejectMalformed
  <2>2. health'["dropped"] = health["dropped"]
    <3>1. "dropped" \notin Reconnected(o)
      BY DEF Reconnected
    <3> QED BY <1>2, <3>1
         DEF ingest_locked, RejectEpoch, RejectAuthority, RejectDisconnected, RejectDevice,
             RejectWorkload, RejectEvidence, RejectDuplicate, RejectMalformed, Count, HealthCounters
  <2> QED BY <2>1, <2>2 DEF EvidenceInv, Devices, DeviceAt
<1> QED BY <1>1, <1>2

LEMMA EvidenceInit == ASSUME Init PROVE EvidenceInv
BY NothingObserved DEF Init, EvidenceInv, EmptyMap, DeviceAt

(* Every step of the observatory keeps devices and history in step. *)
LEMMA EvidenceStep ==
    ASSUME TypeOK, ReplayInv, EvidenceInv, [Next]_vars
    PROVE  EvidenceInv'
<1>0. LedgerBalances
  BY DEF ReplayInv
<1>1. CASE \E o \in Observations : ingest(o)
  BY <1>0, <1>1, IngestKeepsEvidence DEF ingest
<1>2. CASE LoadStep
  <2>1. loader.obs[loader.next] \in Observations
    BY <1>2 DEF LoadStep, Replaying, TypeOK, LoaderStates
  <2> QED BY <1>0, <1>2, <2>1, IngestKeepsEvidence DEF LoadStep
<1>3. CASE LoadClear
  <2>1. devices' = EmptyMap /\ history' = <<>>
    BY <1>3 DEF LoadClear, ClearMemory, ClearDevices, ClearHistory
  <2>2. DOMAIN EmptyMap = {}
    BY DEF EmptyMap
  <2> QED BY <2>1, <2>2, NothingObserved DEF EvidenceInv, Devices, DeviceAt
<1>4. CASE UNCHANGED <<devices, history>> /\ health'["dropped"] = health["dropped"]
  BY <1>4 DEF EvidenceInv, Devices, DeviceAt
<1> QED BY <1>1, <1>2, <1>3, <1>4
        DEF Next, Call, Save, Load, vars, register_source, mark_source_connected,
            mark_source_disconnected, advance_epoch, ReadOnly, SaveSnapshot, SaveReplaces,
            SaveFails, SaveLosesFile, LoadParse, LoadReturns, Count, HealthCounters

(* As long as nothing was dropped, spans, open intervals and capacity of   *)
(* every device follow the retained history (ingest_locked), through any   *)
(* rejections, reconnections, saves and loads.                             *)
THEOREM EvidenceInvariant == Spec => []EvidenceInv
<1>1. Init => EvidenceInv
  BY EvidenceInit
<1>2. TypeOK /\ ReplayInv /\ EvidenceInv /\ [Next]_vars => EvidenceInv'
  BY EvidenceStep
<1> QED BY <1>1, <1>2, TypeCorrect, ReplayInvariant, PTL DEF Spec

LEMMA EvidenceOfDevices ==
    ASSUME EvidenceInv PROVE SpansMatchHistory /\ CapacityMatchesHistory
<1> SUFFICES ASSUME health["dropped"] = 0, NEW d \in DOMAIN devices
             PROVE  SpansMatch(history, d, devices[d]) /\ CapacityMatch(history, d, devices[d].cap)
  BY DEF SpansMatchHistory, CapacityMatchesHistory
<1>1. d \in Devices /\ DeviceAt(d) = devices[d]
  BY DEF EvidenceInv, DeviceAt
<1> QED BY <1>1 DEF EvidenceInv, DeviceMatches

(* The spans of every device are those its history calls for: each END     *)
(* closes the latest unclosed BEGIN of its interval, once, with the        *)
(* category and bounds of the two (ingest_locked).                         *)
THEOREM SpansAlwaysMatchHistory == Spec => []SpansMatchHistory
<1>1. EvidenceInv => SpansMatchHistory
  BY EvidenceOfDevices
<1> QED BY <1>1, EvidenceInvariant, PTL

(* Stranded and published capacity are what the latest observation about   *)
(* each of them says (ingest_locked).                                      *)
THEOREM CapacityAlwaysMatchesHistory == Spec => []CapacityMatchesHistory
<1>1. EvidenceInv => CapacityMatchesHistory
  BY EvidenceOfDevices
<1> QED BY <1>1, EvidenceInvariant, PTL
=============================================================================
