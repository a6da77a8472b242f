---------------------------- MODULE Audit_proofs ----------------------------
(***************************************************************************)
(* Proofs about Audit, for any endpoints of the server and any calls that  *)
(* a release may lack: the loop of split_endpoint, by induction over the   *)
(* segments; the table of the SDK's calls, row by row; and what the audit  *)
(* says of an endpoint.                                                    *)
(***************************************************************************)
EXTENDS TLAPS, Audit, DataInduction, FiniteSetTheorems

-----------------------------------------------------------------------------
(* The loop of split_endpoint                                              *)

(* The segments of the paths that are compared, the paths, and what the    *)
(* loop of split_endpoint carries from segment to segment.                 *)
Segments == STRING \cup UNION {ToSet(r.path) : r \in API}
Paths == Seq(Segments)
Scans == [prefix : Paths, runs : Seq(Paths), seen_param : BOOLEAN, run : Paths]

(* A step of the loop, part by part.                                       *)
LEMMA SegmentScanned ==
    ASSUME NEW t \in Scans, NEW s \in Segments
    PROVE  LET u == ScanSegment(t, s) IN
           /\ u \in Scans
           /\ is_param(s) =>
                 /\ u.prefix = t.prefix /\ u.seen_param /\ u.run = <<>>
                 /\ u.runs = IF t.seen_param /\ t.run # <<>> THEN Append(t.runs, t.run)
                                                             ELSE t.runs
           /\ ~is_param(s) =>
                 /\ u.runs = t.runs /\ u.seen_param = t.seen_param
                 /\ u.prefix = IF t.seen_param THEN t.prefix ELSE Append(t.prefix, s)
                 /\ u.run = IF t.seen_param THEN Append(t.run, s) ELSE t.run
<1>1. t = [prefix |-> t.prefix, runs |-> t.runs, seen_param |-> t.seen_param, run |-> t.run]
      /\ t.prefix \in Paths /\ t.runs \in Seq(Paths) /\ t.seen_param \in BOOLEAN
      /\ t.run \in Paths
  BY DEF Scans
<1>2. /\ Append(t.runs, t.run) \in Seq(Paths) /\ <<>> \in Paths
      /\ Append(t.prefix, s) \in Paths /\ Append(t.run, s) \in Paths
  <2>1. \A T : \A q \in Seq(T), x \in T : Append(q, x) \in Seq(T)
    OBVIOUS
  <2> QED
    BY <1>1, <2>1 DEF Paths
<1>3. CASE is_param(s)
  <2>1. ScanSegment(t, s) =
          [prefix |-> t.prefix,
           runs |-> IF t.seen_param /\ t.run # <<>> THEN Append(t.runs, t.run) ELSE t.runs,
           seen_param |-> TRUE, run |-> <<>>]
    BY <1>1, <1>3 DEF ScanSegment
  <2> HIDE DEF Paths
  <2> QED
    BY <1>1, <1>2, <1>3, <2>1 DEF Scans
<1>4. CASE ~is_param(s) /\ t.seen_param
  <2>1. ScanSegment(t, s) =
          [prefix |-> t.prefix, runs |-> t.runs, seen_param |-> t.seen_param,
           run |-> Append(t.run, s)]
    BY <1>1, <1>4 DEF ScanSegment
  <2> HIDE DEF Paths
  <2> QED
    BY <1>1, <1>2, <1>4, <2>1 DEF Scans
<1>5. CASE ~is_param(s) /\ ~t.seen_param
  <2>1. ScanSegment(t, s) =
          [prefix |-> Append(t.prefix, s), runs |-> t.runs, seen_param |-> t.seen_param,
           run |-> t.run]
    BY <1>1, <1>5 DEF ScanSegment
  <2> HIDE DEF Paths
  <2> QED
    BY <1>1, <1>2, <1>5, <2>1 DEF Scans
<1> QED
  BY <1>1, <1>3, <1>4, <1>5

(* The loop takes one segment after the other.                             *)
ScansOn(f, p) ==
    /\ f[0] = BeforeScan
    /\ \A i \in 1..Len(p) : f[i] = ScanSegment(f[i - 1], p[i])

(* The recursive function scan is such a loop: there is one, and it is it. *)
LEMMA ScanSteps ==
    ASSUME NEW p \in Paths PROVE ScansOn(scan(p), p)
<1>0. Len(p) \in Nat /\ \A i \in 1..Len(p) : p[i] \in Segments
  BY DEF Paths
<1> DEFINE F(f) == f = [i \in 0..Len(p) |->
                          IF i = 0 THEN BeforeScan ELSE ScanSegment(f[i - 1], p[i])]
           g == [n \in Nat |-> [t \in Scans |->
                   IF n + 1 \in 1..Len(p) THEN ScanSegment(t, p[n + 1]) ELSE t]]
<1>1. BeforeScan \in Scans
  <2>1. <<>> \in Paths /\ <<>> \in Seq(Paths)
    BY DEF Paths
  <2> HIDE DEF Paths
  <2> QED
    BY <2>1 DEF BeforeScan, Scans
<1>2. g \in [Nat -> [Scans -> Scans]]
  <2>1. ASSUME NEW n \in Nat, NEW t \in Scans
        PROVE  (IF n + 1 \in 1..Len(p) THEN ScanSegment(t, p[n + 1]) ELSE t) \in Scans
    BY <1>0, SegmentScanned
  <2> QED
    BY <2>1
<1>3. \A n \in Nat, t \in Scans : n + 1 \in 1..Len(p) => g[n][t] = ScanSegment(t, p[n + 1])
  OBVIOUS
<1> HIDE DEF g
<1>4. PICK h \in [Nat -> Scans] : Recurs(BeforeScan, g, h)
  BY <1>1, <1>2, Recursion
<1>5. ASSUME NEW i \in 1..Len(p) PROVE h[i] = ScanSegment(h[i - 1], p[i])
  <2>1. i - 1 \in Nat /\ (i - 1) + 1 = i
    OBVIOUS
  <2>2. h[(i - 1) + 1] = g[i - 1][h[i - 1]] /\ h[i - 1] \in Scans
    BY <1>4, <2>1 DEF Recurs
  <2> QED
    BY <1>3, <2>1, <2>2
<1> DEFINE f == [i \in 0..Len(p) |-> h[i]]
<1>6. F(f)
  <2>1. \A i \in 1..Len(p) : i - 1 \in 0..Len(p) /\ f[i - 1] = h[i - 1]
    BY <1>0
  <2>2. \A i \in 0..Len(p) :
           h[i] = IF i = 0 THEN BeforeScan ELSE ScanSegment(f[i - 1], p[i])
    <3>1. h[0] = BeforeScan
      BY <1>4 DEF Recurs
    <3>2. ASSUME NEW i \in 1..Len(p) PROVE h[i] = ScanSegment(f[i - 1], p[i])
      BY <1>5, <2>1
    <3> HIDE DEF f
    <3>3. \A i \in 0..Len(p) : i = 0 \/ (i \in 1..Len(p) /\ i # 0)
      BY <1>0
    <3> QED
      BY <3>1, <3>2, <3>3
  <2> QED
    BY <2>2
<1> HIDE DEF f
<1>7. F(scan(p))
  BY <1>6 DEF scan
<1> QED
  BY <1>0, <1>7 DEF ScansOn

(* Up to n a start is open if only fixed segments follow it.               *)
OpenAt(p, n, a) == a \in StartsTo(p, n) /\ \A i \in a..n : ~is_param(p[i])

(* Only a fixed segment right behind a parameter is one more start.        *)
LEMMA StartsStep ==
    ASSUME NEW p, NEW n \in Nat
    PROVE  /\ StartsTo(p, n + 1) =
                IF n >= 1 /\ is_param(p[n]) /\ ~is_param(p[n + 1])
                THEN StartsTo(p, n) \cup {n + 1} ELSE StartsTo(p, n)
           /\ n + 1 \notin StartsTo(p, n)
           /\ IsFiniteSet(StartsTo(p, n)) /\ Cardinality(StartsTo(p, n)) \in Nat
           /\ Cardinality(StartsTo(p, n + 1)) =
                IF n >= 1 /\ is_param(p[n]) /\ ~is_param(p[n + 1])
                THEN Cardinality(StartsTo(p, n)) + 1 ELSE Cardinality(StartsTo(p, n))
<1>1. StartsTo(p, n + 1) =
        IF n >= 1 /\ is_param(p[n]) /\ ~is_param(p[n + 1])
        THEN StartsTo(p, n) \cup {n + 1} ELSE StartsTo(p, n)
  <2>1. \A a : a \in 2..n + 1 <=> a \in 2..n \/ (a = n + 1 /\ n >= 1)
    OBVIOUS
  <2>2. (n + 1) - 1 = n
    OBVIOUS
  <2> QED
    BY <2>1, <2>2 DEF StartsTo
<1>2. n + 1 \notin StartsTo(p, n)
  BY DEF StartsTo
<1>3. IsFiniteSet(StartsTo(p, n))
  <2>1. IsFiniteSet(2..n) /\ StartsTo(p, n) \subseteq 2..n
    BY FS_Interval DEF StartsTo
  <2> QED
    BY <2>1, FS_Subset
<1>4. Cardinality(StartsTo(p, n)) \in Nat
  BY <1>3, FS_CardinalityType
<1>5. Cardinality(StartsTo(p, n) \cup {n + 1}) = Cardinality(StartsTo(p, n)) + 1
  BY <1>2, <1>3, FS_AddElement
<1> QED
  BY <1>1, <1>2, <1>3, <1>4, <1>5

(* Behind an open start there is no other, and before it there are fewer.  *)
LEMMA OpenStarts ==
    ASSUME NEW p, NEW n \in Nat, NEW a, OpenAt(p, n, a)
    PROVE  /\ \A c \in StartsTo(p, n) : c <= a
           /\ Cardinality(StartsTo(p, a)) = Cardinality(StartsTo(p, n))
           /\ \A c \in StartsTo(p, n) : c < a =>
                Cardinality(StartsTo(p, c)) < Cardinality(StartsTo(p, n))
<1>1. a \in 2..n
  BY DEF OpenAt, StartsTo
<1>2. ASSUME NEW c \in StartsTo(p, n) PROVE c <= a
  <2>1. c \in 2..n /\ is_param(p[c - 1])
    BY DEF StartsTo
  <2>2. c > a => c - 1 \in a..n
    BY <1>1, <2>1
  <2> QED
    BY <1>1, <2>1, <2>2 DEF OpenAt
<1>3. StartsTo(p, a) = StartsTo(p, n)
  <2>1. \A c \in StartsTo(p, n) : c \in 2..a
    BY <1>1, <1>2 DEF StartsTo
  <2> QED
    BY <1>1, <2>1 DEF StartsTo
<1>4. ASSUME NEW c \in StartsTo(p, n), c < a
      PROVE  Cardinality(StartsTo(p, c)) < Cardinality(StartsTo(p, n))
  <2>1. c \in 2..n
    BY DEF StartsTo
  <2>2. StartsTo(p, c) \subseteq StartsTo(p, n) /\ a \notin StartsTo(p, c)
    BY <1>1, <1>4, <2>1 DEF StartsTo
  <2>3. a \in StartsTo(p, n)
    BY DEF OpenAt
  <2>4. IsFiniteSet(StartsTo(p, n)) /\ StartsTo(p, c) # StartsTo(p, n)
    BY <2>2, <2>3, StartsStep
  <2> QED
    BY <2>2, <2>4, FS_Subset, FS_CardinalityType
<1> QED
  BY <1>2, <1>3, <1>4

(* What is known after n segments: the prefix; the run at hand, which is   *)
(* open; and the runs that are closed.                                     *)
PrefixFound(p, n, t) ==
    \A e \in 0..n : FixedTo(p, n, 1, e) => t.prefix = SubSeq(p, 1, e)

RunFound(p, n, t) ==
    /\ t.run # <<>> <=> n >= 1 /\ t.seen_param /\ ~is_param(p[n])
    /\ t.run # <<>> => \E a : OpenAt(p, n, a) /\ t.run = SubSeq(p, a, n)

RunsFound(p, n, t) ==
    /\ Len(t.runs) = Cardinality(StartsTo(p, n)) - IF t.run = <<>> THEN 0 ELSE 1
    /\ \A a \in StartsTo(p, n) : \A b \in a..n - 1 :
          FixedTo(p, n, a, b) => t.runs[Cardinality(StartsTo(p, a))] = SubSeq(p, a, b)

ScanInv(p, n, t) ==
    /\ t \in Scans
    /\ t.seen_param <=> \E j \in 1..n : is_param(p[j])
    /\ PrefixFound(p, n, t)
    /\ RunFound(p, n, t)
    /\ RunsFound(p, n, t)

(* What split_endpoint returns for runs: the one at hand is closed.        *)
Closed(t) == IF t.run = <<>> THEN t.runs ELSE Append(t.runs, t.run)

(* With the run at hand closed, the runs are as they should be.            *)
LEMMA ClosedIsSplit ==
    ASSUME NEW p, NEW n \in Nat, NEW t, ScanInv(p, n, t)
    PROVE  SplitTo(p, n, t.prefix, Closed(t))
<1>1. /\ Cardinality(StartsTo(p, n)) \in Nat
      /\ \A a \in StartsTo(p, n) : a \in 2..n /\ Cardinality(StartsTo(p, a)) \in Nat
                                  /\ Cardinality(StartsTo(p, a)) >= 1
  <2>1. ASSUME NEW a \in StartsTo(p, n)
        PROVE  a \in 2..n /\ Cardinality(StartsTo(p, a)) \in Nat
               /\ Cardinality(StartsTo(p, a)) >= 1
    <3>1. a \in 2..n /\ a \in StartsTo(p, a) /\ a \in Nat
      BY DEF StartsTo
    <3>2. IsFiniteSet(StartsTo(p, a)) /\ Cardinality(StartsTo(p, a)) \in Nat
      BY <3>1, StartsStep
    <3>3. Cardinality(StartsTo(p, a)) # 0
      BY <3>1, <3>2, FS_EmptySet
    <3> QED
      BY <3>1, <3>2, <3>3
  <2> QED
    BY <2>1, StartsStep
<1>2. \A a \in StartsTo(p, n) : FixedTo(p, n, a, n) => OpenAt(p, n, a)
  BY DEF FixedTo, OpenAt
<1>3. \A a \in StartsTo(p, n) : OpenAt(p, n, a) => t.run # <<>>
  <2>1. ASSUME NEW a \in StartsTo(p, n), OpenAt(p, n, a) PROVE t.run # <<>>
    <3>1. a \in 2..n /\ a - 1 \in 1..n /\ is_param(p[a - 1]) /\ n \in a..n
      BY DEF StartsTo
    <3>2. ~is_param(p[n]) /\ n >= 1
      BY <2>1, <3>1 DEF OpenAt
    <3> QED
      BY <3>1, <3>2 DEF ScanInv, RunFound, RunsFound
  <2> QED
    BY <2>1
<1>4. t.runs \in Seq(Paths) /\ t.run \in Paths
  BY DEF ScanInv, Scans
<1>5. CASE t.run = <<>>
  <2>1. Closed(t) = t.runs
    BY <1>5 DEF Closed
  <2>2. ASSUME NEW a \in StartsTo(p, n), NEW b \in a..n, FixedTo(p, n, a, b)
        PROVE  b \in a..n - 1
    <3>1. b # n
      BY <1>2, <1>3, <1>5, <2>2
    <3> QED
      BY <1>1, <3>1
  <2>3. Len(t.runs) = Cardinality(StartsTo(p, n))
    BY <1>1, <1>5 DEF ScanInv, RunFound, RunsFound
  <2> QED
    BY <2>1, <2>2, <2>3 DEF ScanInv, PrefixFound, RunsFound, SplitTo
<1>6. CASE t.run # <<>>
  <2>1. PICK o : OpenAt(p, n, o) /\ t.run = SubSeq(p, o, n)
    BY <1>6 DEF ScanInv, RunFound, RunsFound
  <2>2. o \in StartsTo(p, n)
    BY <2>1 DEF OpenAt
  <2>3. Len(t.runs) \in Nat /\ Len(t.runs) + 1 = Cardinality(StartsTo(p, n))
    BY <1>1, <1>4, <1>6 DEF ScanInv, RunFound, RunsFound
  <2>4. /\ Closed(t) = Append(t.runs, t.run)
        /\ Len(Closed(t)) = Len(t.runs) + 1
        /\ Closed(t)[Len(t.runs) + 1] = t.run
        /\ \A k \in 1..Len(t.runs) : Closed(t)[k] = t.runs[k]
    BY <1>4, <1>6 DEF Closed
  <2>5. ASSUME NEW a \in StartsTo(p, n), NEW b \in a..n, FixedTo(p, n, a, b)
        PROVE  Closed(t)[Cardinality(StartsTo(p, a))] = SubSeq(p, a, b)
    <3>1. CASE b = n
      <4>1. OpenAt(p, n, a)
        BY <1>2, <2>5, <3>1
      <4>2. a = o
        BY <1>1, <2>1, <2>2, <4>1, OpenStarts
      <4>3. Cardinality(StartsTo(p, a)) = Len(t.runs) + 1
        BY <2>3, <4>1, OpenStarts
      <4> QED
        BY <2>1, <2>4, <3>1, <4>2, <4>3
    <3>2. CASE b # n
      <4>1. b \in a..n - 1 /\ b + 1 \in 1..n /\ is_param(p[b + 1])
        BY <1>1, <2>5, <3>2 DEF FixedTo
      <4>2. a < o
        <5>1. a <= o
          BY <2>1, OpenStarts
        <5>2. a # o
          <6>1. a = o => b + 1 \in o..n
            BY <1>1, <4>1
          <6> QED
            BY <2>1, <4>1, <6>1 DEF OpenAt
        <5> QED
          BY <1>1, <2>2, <5>1, <5>2
      <4>3. Cardinality(StartsTo(p, a)) < Cardinality(StartsTo(p, n))
        BY <2>1, <4>2, OpenStarts
      <4>4. Cardinality(StartsTo(p, a)) \in 1..Len(t.runs)
        BY <1>1, <2>3, <4>3
      <4>5. t.runs[Cardinality(StartsTo(p, a))] = SubSeq(p, a, b)
        BY <2>5, <4>1 DEF ScanInv, RunFound, RunsFound
      <4> QED
        BY <2>4, <4>4, <4>5
    <3> QED
      BY <3>1, <3>2
  <2> QED
    BY <2>3, <2>4, <2>5 DEF ScanInv, PrefixFound, RunsFound, SplitTo
<1> QED
  BY <1>5, <1>6

(* A part of a path, by its elements.                                      *)
LEMMA PartsOfPaths ==
    ASSUME NEW p \in Paths, NEW n \in Nat, n + 1 <= Len(p), NEW a \in 1..n + 1
    PROVE  /\ SubSeq(p, a, n) \in Paths
           /\ SubSeq(p, a, n + 1) = Append(SubSeq(p, a, n), p[n + 1])
           /\ SubSeq(p, n + 1, n + 1) = <<p[n + 1]>>
<1>1. Len(p) \in Nat
  BY DEF Paths
<1>2. SubSeq(p, a, n) \in Paths /\ SubSeq(p, a, n + 1) \in Paths /\ p[n + 1] \in Segments
  BY <1>1 DEF Paths
<1> DEFINE q == SubSeq(p, a, n)
           r == SubSeq(p, a, n + 1)
<1>3. /\ Len(q) = n + 1 - a /\ Len(r) = n + 2 - a
      /\ \A i \in 1..n + 1 - a : q[i] = p[a + i - 1]
      /\ \A i \in 1..n + 2 - a : r[i] = p[a + i - 1]
  BY <1>1 DEF Paths
<1>4. q \in Paths /\ r \in Paths
  BY <1>2
<1> HIDE DEF q, r
<1>5. r = Append(q, p[n + 1])
  <2>1. \A T : \A x \in Seq(T), y \in Seq(T) :
          Len(x) = Len(y) /\ (\A i \in 1..Len(x) : x[i] = y[i]) => x = y
    OBVIOUS
  <2> DEFINE w == Append(q, p[n + 1])
  <2>2. w \in Paths /\ Len(w) = Len(q) + 1 /\ w[Len(q) + 1] = p[n + 1]
        /\ \A i \in 1..Len(q) : w[i] = q[i]
    BY <1>2, <1>4 DEF Paths
  <2> HIDE DEF w
  <2>3. ASSUME NEW i \in 1..Len(r) PROVE r[i] = w[i]
    <3>1. CASE i = n + 2 - a
      BY <1>3, <2>2, <3>1
    <3>2. CASE i # n + 2 - a
      BY <1>3, <2>2, <3>2
    <3> QED
      BY <3>1, <3>2
  <2>4. Len(r) = Len(w)
    BY <1>3, <2>2
  <2> QED
    BY <1>4, <2>1, <2>2, <2>3, <2>4 DEF Paths, w
<1>6. SubSeq(p, n + 1, n + 1) = <<p[n + 1]>>
  <2> DEFINE w == SubSeq(p, n + 1, n + 1)
  <2>1. w \in Paths /\ Len(w) = 1
    BY <1>1 DEF Paths
  <2>2. w[1] = p[n + 1]
    BY <1>1 DEF Paths
  <2> HIDE DEF w
  <2>3. \A T : \A v \in Seq(T) : Len(v) = 1 => v = <<v[1]>>
    OBVIOUS
  <2>4. w = <<w[1]>>
    BY <2>1, <2>3 DEF Paths
  <2> QED
    BY <2>2, <2>4 DEF w
<1> QED
  BY <1>2, <1>5, <1>6 DEF q, r

(* Nothing is known before the first segment but that there is none.       *)
LEMMA ScanInvInit ==
    ASSUME NEW p \in Paths PROVE ScanInv(p, 0, BeforeScan)
<1>1. BeforeScan \in Scans
  <2>1. <<>> \in Paths /\ <<>> \in Seq(Paths)
    BY DEF Paths
  <2> HIDE DEF Paths
  <2> QED
    BY <2>1 DEF BeforeScan, Scans
<1>2. StartsTo(p, 0) = {}
  BY DEF StartsTo
<1>3. SubSeq(p, 1, 0) = <<>>
  BY DEF Paths
<1>4. Cardinality(StartsTo(p, 0)) = 0
  BY <1>2, FS_EmptySet
<1>5. Len(BeforeScan.runs) = 0
  BY DEF BeforeScan
<1> QED
  BY <1>1, <1>2, <1>3, <1>4, <1>5 DEF ScanInv, PrefixFound, RunFound, RunsFound, BeforeScan

(* One segment more.                                                       *)
LEMMA ScanInvStep ==
    ASSUME NEW p \in Paths, NEW n \in Nat, n + 1 <= Len(p), NEW t, ScanInv(p, n, t)
    PROVE  ScanInv(p, n + 1, ScanSegment(t, p[n + 1]))
<1> DEFINE s == p[n + 1]
           u == ScanSegment(t, s)
<1>1. s \in Segments /\ t \in Scans /\ Len(p) \in Nat
  BY DEF Paths, ScanInv
<1>2. /\ u \in Scans
      /\ is_param(s) =>
            /\ u.prefix = t.prefix /\ u.seen_param /\ u.run = <<>>
            /\ u.runs = IF t.seen_param /\ t.run # <<>> THEN Append(t.runs, t.run)
                                                        ELSE t.runs
      /\ ~is_param(s) =>
            /\ u.runs = t.runs /\ u.seen_param = t.seen_param
            /\ u.prefix = IF t.seen_param THEN t.prefix ELSE Append(t.prefix, s)
            /\ u.run = IF t.seen_param THEN Append(t.run, s) ELSE t.run
  BY <1>1, SegmentScanned
<1> HIDE DEF u
<1>3. u.seen_param <=> \E j \in 1..n + 1 : is_param(p[j])
  <2>1. \A j : j \in 1..n + 1 <=> j \in 1..n \/ j = n + 1
    OBVIOUS
  <2> QED
    BY <1>2, <2>1 DEF ScanInv
<1>4. ASSUME NEW e \in 0..n + 1, FixedTo(p, n + 1, 1, e) PROVE u.prefix = SubSeq(p, 1, e)
  <2>1. CASE e = n + 1
    <3>1. \A i \in 1..n + 1 : ~is_param(p[i])
      BY <1>4, <2>1 DEF FixedTo
    <3>2. ~is_param(s) /\ n \in 0..n /\ \A i \in 1..n : ~is_param(p[i])
      BY <3>1
    <3>3. ~t.seen_param /\ FixedTo(p, n, 1, n)
      BY <3>2 DEF ScanInv, FixedTo
    <3>4. u.prefix = Append(SubSeq(p, 1, n), s)
      BY <1>2, <3>2, <3>3 DEF ScanInv, PrefixFound
    <3>5. 1 \in 1..n + 1
      OBVIOUS
    <3> QED
      BY <2>1, <3>4, <3>5, PartsOfPaths
  <2>2. CASE e # n + 1
    <3>1. e \in 0..n /\ is_param(p[e + 1])
      BY <1>4, <2>2 DEF FixedTo
    <3>2. FixedTo(p, n, 1, e)
      BY <1>4, <3>1 DEF FixedTo
    <3>3. t.prefix = SubSeq(p, 1, e)
      BY <3>1, <3>2 DEF ScanInv, PrefixFound
    <3>4. is_param(s) \/ t.seen_param
      <4>1. e = n \/ e + 1 \in 1..n
        BY <3>1
      <4> QED
        BY <3>1, <4>1 DEF ScanInv
    <3> QED
      BY <1>2, <3>3, <3>4
  <2> QED
    BY <2>1, <2>2
<1>5. /\ t.runs \in Seq(Paths) /\ t.run \in Paths /\ t.seen_param \in BOOLEAN
      /\ t.run # <<>> <=> n >= 1 /\ t.seen_param /\ ~is_param(p[n])
      /\ is_param(p[n]) /\ n >= 1 => t.seen_param
  <2>1. n >= 1 => n \in 1..n
    OBVIOUS
  <2> QED
    BY <1>1, <2>1 DEF ScanInv, Scans, RunFound
<1>9. PrefixFound(p, n + 1, u)
  BY <1>4 DEF PrefixFound
<1>6. CASE is_param(s)
  <2>1. u.runs = Closed(t) /\ u.run = <<>>
    BY <1>2, <1>5, <1>6 DEF Closed
  <2>2. SplitTo(p, n, t.prefix, Closed(t))
    BY ClosedIsSplit
  <2>3. StartsTo(p, n + 1) = StartsTo(p, n)
    BY <1>6, StartsStep
  <2>4. Len(u.runs) = Cardinality(StartsTo(p, n + 1)) /\ Len(u.runs) \in Nat
    BY <1>2, <2>1, <2>2, <2>3, StartsStep DEF SplitTo
  <2>5. ASSUME NEW a \in StartsTo(p, n + 1), NEW b \in a..n, FixedTo(p, n + 1, a, b)
        PROVE  u.runs[Cardinality(StartsTo(p, a))] = SubSeq(p, a, b)
    <3>1. FixedTo(p, n, a, b)
      BY <2>5 DEF FixedTo, StartsTo
    <3> QED
      BY <2>1, <2>2, <2>3, <3>1 DEF SplitTo
  <2>6. \A a \in StartsTo(p, n + 1) : \A b \in a..(n + 1) - 1 :
           FixedTo(p, n + 1, a, b) => u.runs[Cardinality(StartsTo(p, a))] = SubSeq(p, a, b)
    <3>1. (n + 1) - 1 = n
      OBVIOUS
    <3> QED
      BY <2>5, <3>1
  <2>7. Len(u.runs) = Cardinality(StartsTo(p, n + 1)) - IF u.run = <<>> THEN 0 ELSE 1
    BY <2>1, <2>4
  <2>8. ~(u.run # <<>>) /\ ~(n + 1 >= 1 /\ u.seen_param /\ ~is_param(p[n + 1]))
    BY <1>6, <2>1
  <2>9. RunFound(p, n + 1, u)
    BY <2>8 DEF RunFound
  <2>10. RunsFound(p, n + 1, u)
    BY <2>6, <2>7 DEF RunsFound
  <2> QED
    BY <1>2, <1>3, <1>9, <2>9, <2>10 DEF ScanInv, u
<1>7. CASE ~is_param(s)
  <2>1. u.run # <<>> <=> t.seen_param
    <3>1. t.seen_param => Len(u.run) = Len(t.run) + 1 /\ Len(t.run) \in Nat
      BY <1>1, <1>2, <1>5, <1>7 DEF Paths
    <3> QED
      BY <1>2, <1>5, <1>7, <3>1
  <2>2. ASSUME t.seen_param, n >= 1, is_param(p[n])
        PROVE  OpenAt(p, n + 1, n + 1) /\ u.run = SubSeq(p, n + 1, n + 1)
    <3>1. t.run = <<>>
      BY <1>5, <2>2
    <3>2. n + 1 \in StartsTo(p, n + 1)
      BY <1>7, <2>2, StartsStep
    <3>3. OpenAt(p, n + 1, n + 1)
      BY <1>7, <3>2 DEF OpenAt
    <3>4. u.run = <<s>>
      BY <1>2, <1>7, <2>2, <3>1
    <3>5. n + 1 \in 1..n + 1
      OBVIOUS
    <3> QED
      BY <3>3, <3>4, <3>5, PartsOfPaths
  <2>3. ASSUME t.seen_param, ~(n >= 1 /\ is_param(p[n]))
        PROVE  /\ \E a : OpenAt(p, n + 1, a) /\ u.run = SubSeq(p, a, n + 1)
               /\ t.run # <<>>
    <3>1. n >= 1
      <4>1. PICK j \in 1..n : is_param(p[j])
        BY <2>3 DEF ScanInv
      <4> QED
        BY <4>1
    <3>2. t.run # <<>>
      BY <1>5, <2>3, <3>1
    <3>3. PICK a : OpenAt(p, n, a) /\ t.run = SubSeq(p, a, n)
      BY <3>2 DEF ScanInv, RunFound
    <3>4. a \in StartsTo(p, n + 1) /\ a \in 1..n + 1 /\ \A i \in a..n : ~is_param(p[i])
      BY <3>3 DEF OpenAt, StartsTo
    <3>5. \A i \in a..n + 1 : i \in a..n \/ i = n + 1
      BY <3>4
    <3>6. OpenAt(p, n + 1, a)
      BY <1>7, <3>4, <3>5 DEF OpenAt
    <3>7. u.run = Append(SubSeq(p, a, n), s)
      BY <1>2, <1>7, <2>3, <3>3
    <3> QED
      BY <3>2, <3>4, <3>6, <3>7, PartsOfPaths
  <2>4. u.run # <<>> => \E a : OpenAt(p, n + 1, a) /\ u.run = SubSeq(p, a, n + 1)
    BY <2>1, <2>2, <2>3
  <2>5. Len(u.runs) = Cardinality(StartsTo(p, n + 1)) - IF u.run = <<>> THEN 0 ELSE 1
    <3>1. /\ Cardinality(StartsTo(p, n)) \in Nat
          /\ Len(t.runs) = Cardinality(StartsTo(p, n)) - IF t.run = <<>> THEN 0 ELSE 1
          /\ u.runs = t.runs
      BY <1>2, <1>7, StartsStep DEF ScanInv, RunsFound
    <3>2. CASE n >= 1 /\ is_param(p[n])
      <4>1. /\ Cardinality(StartsTo(p, n + 1)) = Cardinality(StartsTo(p, n)) + 1
            /\ t.run = <<>> /\ u.run # <<>>
        BY <1>5, <1>7, <2>1, <3>2, StartsStep
      <4> QED
        BY <3>1, <4>1
    <3>3. CASE ~(n >= 1 /\ is_param(p[n]))
      <4>1. Cardinality(StartsTo(p, n + 1)) = Cardinality(StartsTo(p, n))
        BY <3>3, StartsStep
      <4>2. t.run = <<>> <=> u.run = <<>>
        BY <1>5, <2>1, <2>3, <3>3
      <4> QED
        BY <3>1, <4>1, <4>2
    <3> QED
      BY <3>2, <3>3
  <2>6. ASSUME NEW a \in StartsTo(p, n + 1), NEW b \in a..n, FixedTo(p, n + 1, a, b)
        PROVE  u.runs[Cardinality(StartsTo(p, a))] = SubSeq(p, a, b)
    <3>1. a \in 2..n + 1
      BY DEF StartsTo
    <3>2. is_param(p[b + 1])
      BY <2>6, <3>1 DEF FixedTo
    <3>3. b # n
      BY <1>7, <3>2
    <3>4. b \in a..n - 1 /\ a \in 2..n
      BY <3>1, <3>3
    <3>5. a \in StartsTo(p, n) /\ FixedTo(p, n, a, b)
      BY <2>6, <3>2, <3>4 DEF StartsTo, FixedTo
    <3> QED
      BY <1>2, <1>7, <3>4, <3>5 DEF ScanInv, RunsFound
  <2>7. \A a \in StartsTo(p, n + 1) : \A b \in a..(n + 1) - 1 :
           FixedTo(p, n + 1, a, b) => u.runs[Cardinality(StartsTo(p, a))] = SubSeq(p, a, b)
    <3>1. (n + 1) - 1 = n
      OBVIOUS
    <3> QED
      BY <2>6, <3>1
  <2>8. u.run # <<>> <=> n + 1 >= 1 /\ u.seen_param /\ ~is_param(p[n + 1])
    BY <1>2, <1>7, <2>1
  <2>9. RunFound(p, n + 1, u)
    BY <2>4, <2>8 DEF RunFound
  <2>10. RunsFound(p, n + 1, u)
    BY <2>5, <2>7 DEF RunsFound
  <2> QED
    BY <1>2, <1>3, <1>9, <2>9, <2>10 DEF ScanInv, u
<1> QED
  BY <1>6, <1>7 DEF u

(* split_endpoint splits every path.                                       *)
LEMMA EveryPathSplit ==
    ASSUME NEW p \in Paths
    PROVE  /\ split_endpoint(p).runs \in Seq(Paths)
           /\ SplitTo(p, Len(p), split_endpoint(p).prefix, split_endpoint(p).runs)
<1>0. Len(p) \in Nat
  BY DEF Paths
<1> DEFINE f == scan(p)
           S == {n \in Nat : n <= Len(p) => ScanInv(p, n, f[n])}
<1>1. f[0] = BeforeScan /\ \A i \in 1..Len(p) : f[i] = ScanSegment(f[i - 1], p[i])
  BY ScanSteps DEF ScansOn
<1> HIDE DEF f
<1>2. 0 \in S
  BY <1>1, ScanInvInit
<1>3. ASSUME NEW n \in Nat, n \in S PROVE n + 1 \in S
  <2> SUFFICES ASSUME n + 1 <= Len(p) PROVE ScanInv(p, n + 1, f[n + 1])
    OBVIOUS
  <2>1. ScanInv(p, n, f[n]) /\ n + 1 \in 1..Len(p) /\ (n + 1) - 1 = n
    BY <1>0, <1>3
  <2>2. f[n + 1] = ScanSegment(f[n], p[n + 1])
    BY <1>1, <2>1
  <2> QED
    BY <2>1, <2>2, ScanInvStep
<1> HIDE DEF S
<1>4. \A n \in Nat : n \in S
  BY <1>2, <1>3, Induction
<1>5. ScanInv(p, Len(p), f[Len(p)])
  BY <1>0, <1>4 DEF S
<1>6. SplitTo(p, Len(p), f[Len(p)].prefix, Closed(f[Len(p)]))
  BY <1>0, <1>5, ClosedIsSplit
<1>7. /\ split_endpoint(p).prefix = f[Len(p)].prefix
      /\ split_endpoint(p).runs = Closed(f[Len(p)])
  BY DEF split_endpoint, Closed, f
<1>8. Closed(f[Len(p)]) \in Seq(Paths)
  <2> DEFINE t == f[Len(p)]
  <2>1. t.run \in Paths /\ t.runs \in Seq(Paths)
    BY <1>5 DEF ScanInv, Scans
  <2> HIDE DEF t
  <2>2. \A T : \A q \in Seq(T), x \in T : Append(q, x) \in Seq(T)
    OBVIOUS
  <2>3. Append(t.runs, t.run) \in Seq(Paths)
    BY <2>1, <2>2
  <2>4. Closed(t) \in Seq(Paths)
    BY <2>1, <2>3 DEF Closed
  <2> QED
    BY <2>4 DEF t
<1> QED
  BY <1>6, <1>7, <1>8

-----------------------------------------------------------------------------
(* The table of the SDK's calls                                            *)

(* A path without a parameter that is no noise, or one with a single       *)
(* parameter behind two words or more and no noise behind it: the source   *)
(* spells all of what the audit looks for.                                 *)
Spellable(path) ==
    /\ path # <<>>
    /\ \/ (\A i \in 1..Len(path) : ~is_param(path[i])) /\ path \notin NOISE
       \/ \E i \in 3..Len(path) :
             /\ is_param(path[i])
             /\ \A k \in 1..Len(path) : k # i => ~is_param(path[k])
             /\ i < Len(path) => path[i + 1] \notin {"api", "v1", "v2", "responses"}

(* Words that are neither parameters nor noise, and sequences.             *)
Word(w) == w \notin Parameters \cup {"api", "v1", "v2", "responses"}
IsPath(p) == \E S : p \in Seq(S)

(* Noise is shorter than two segments.                                     *)
LEMMA NoiseIsShort == \A path \in NOISE : Len(path) < 2
  BY DEF NOISE

(* A sequence behind another one.                                          *)
LEMMA Behind ==
    ASSUME NEW T, NEW p \in Seq(T), NEW q \in Seq(T)
    PROVE  /\ Len(p \o q) = Len(p) + Len(q)
           /\ \A i \in 1..Len(p) : (p \o q)[i] = p[i]
           /\ \A i \in 1..Len(q) : (p \o q)[Len(p) + i] = q[i]
<1>1. Len(p \o q) = Len(p) + Len(q)
  OBVIOUS
<1>2. \A i \in 1..Len(p) : (p \o q)[i] = p[i]
  OBVIOUS
<1>3. \A i \in 1..Len(q) : (p \o q)[Len(p) + i] = q[i]
  OBVIOUS
<1> QED
  BY <1>1, <1>2, <1>3

(* One segment more.                                                       *)
Continues(q, p, x) ==
    /\ IsPath(q) /\ Len(q) = Len(p) + 1 /\ q[Len(p) + 1] = x
    /\ \A i \in 1..Len(p) : q[i] = p[i]

(* A path with one more segment.                                           *)
LEMMA PathEnds ==
    ASSUME NEW p, IsPath(p), NEW x
    PROVE  Continues(p \o <<x>>, p, x)
<1>1. PICK S : p \in Seq(S)
  BY DEF IsPath
<1> DEFINE T == S \cup {x}
<1>2. p \in Seq(T) /\ x \in T
  BY <1>1
<1> HIDE DEF T
<1>3. <<x>> \in Seq(T) /\ Len(<<x>>) = 1 /\ <<x>>[1] = x
  BY <1>2
<1> DEFINE w == <<x>>
<1>4. w \in Seq(T) /\ Len(w) = 1 /\ w[1] = x
  BY <1>3
<1> HIDE DEF w
<1>5. p \o w \in Seq(T)
  BY <1>2, <1>4
<1>6. /\ Len(p \o w) = Len(p) + Len(w)
      /\ \A i \in 1..Len(p) : (p \o w)[i] = p[i]
      /\ \A i \in 1..Len(w) : (p \o w)[Len(p) + i] = w[i]
  BY <1>2, <1>4, Behind
<1>7. 1 \in 1..Len(w)
  BY <1>4
<1>8. (p \o w)[Len(p) + 1] = x
  BY <1>4, <1>6, <1>7
<1> QED
  BY <1>4, <1>5, <1>6, <1>8 DEF w, IsPath, Continues

(* Two segments more are one more and another.                             *)
LEMMA PairBehind ==
    ASSUME NEW p, IsPath(p), NEW x, NEW y PROVE p \o <<x, y>> = (p \o <<x>>) \o <<y>>
<1>1. PICK S : p \in Seq(S)
  BY DEF IsPath
<1> DEFINE T == S \cup {x, y}
<1>2. p \in Seq(T) /\ x \in T /\ y \in T
  BY <1>1
<1> HIDE DEF T
<1>3. <<x>> \in Seq(T) /\ <<y>> \in Seq(T) /\ <<x, y>> \in Seq(T)
  BY <1>2
<1>4. <<x>> \o <<y>> = <<x, y>>
  <2> DEFINE w == <<x>> \o <<y>>
             v == <<x, y>>
  <2>1. Len(w) = 2 /\ w \in Seq(T)
    BY <1>3
  <2>2. w[1] = x /\ w[2] = y
    BY <1>3
  <2>3. v \in Seq(T) /\ Len(v) = 2 /\ v[1] = x /\ v[2] = y
    BY <1>3
  <2> HIDE DEF w, v
  <2>4. \A i \in 1..2 : w[i] = v[i]
    <3>1. \A i \in 1..2 : i = 1 \/ i = 2
      OBVIOUS
    <3> QED
      BY <3>1, <2>2, <2>3
  <2>5. \A q, r \in Seq(T) : Len(q) = Len(r) /\ (\A i \in 1..Len(q) : q[i] = r[i]) => q = r
    OBVIOUS
  <2>6. w = v
    BY <2>1, <2>3, <2>4, <2>5
  <2> QED
    BY <2>6 DEF w, v
<1>5. \A q, r \in Seq(T) : (p \o q) \o r = p \o (q \o r)
  BY <1>2
<1> DEFINE v == <<x>>
           w == <<y>>
           u == <<x, y>>
<1>6. v \in Seq(T) /\ w \in Seq(T) /\ v \o w = u
  BY <1>3, <1>4
<1> HIDE DEF u, v, w
<1>7. p \o u = (p \o v) \o w
  BY <1>5, <1>6
<1> QED
  BY <1>7 DEF u, v, w

(* Segment i of a path, or the word "none" where the path has ended.       *)
SegmentAt(p, i) == IF Len(p) >= i THEN p[i] ELSE "none"

(* What tells calls apart, each under a name of its own.                   *)
Verb(r) == r.method
Route(r) == r.path
Size(p) == Len(p)
Kind(p) == IF IsPath(p) THEN "sequence" ELSE "other"

(* The four segments of a path of length n.                                *)
Reads(p, n, a, b, c, d) ==
    /\ Kind(p) = "sequence" /\ Size(p) = n
    /\ SegmentAt(p, 1) = a /\ SegmentAt(p, 2) = b
    /\ SegmentAt(p, 3) = c /\ SegmentAt(p, 4) = d

(* Two segments that no value of a parameter keeps apart.                  *)
MayAgree(x, y) == x = y \/ is_param(x) \/ is_param(y)

(* Two calls that some values of their parameters would make one.          *)
Clash(r, s) ==
    /\ Verb(r) = Verb(s) /\ Size(Route(r)) = Size(Route(s))
    /\ MayAgree(SegmentAt(Route(r), 1), SegmentAt(Route(s), 1))
    /\ MayAgree(SegmentAt(Route(r), 2), SegmentAt(Route(s), 2))
    /\ MayAgree(SegmentAt(Route(r), 3), SegmentAt(Route(s), 3))
    /\ MayAgree(SegmentAt(Route(r), 4), SegmentAt(Route(s), 4))

(* Every way in which Endpoints writes a path.                             *)
Forms ==
    /\ \A a : Reads(<<a>>, 1, a, "none", "none", "none")
    /\ \A a, b : Reads(<<a, b>>, 2, a, b, "none", "none")
    /\ \A a, b, c : /\ Reads(<<a, b, c>>, 3, a, b, c, "none")
                    /\ Reads(<<a, b>> \o <<c>>, 3, a, b, c, "none")
    /\ \A a, b, c, d : /\ Reads(<<a, b, c>> \o <<d>>, 4, a, b, c, d)
                       /\ Reads((<<a, b>> \o <<c>>) \o <<d>>, 4, a, b, c, d)
                       /\ Reads(<<a, b>> \o <<c, d>>, 4, a, b, c, d)

(* They read as they are written.                                          *)
LEMMA PathsRead == Forms
<1>1. /\ \A a : Kind(<<a>>) = "sequence"
      /\ \A a, b : Kind(<<a, b>>) = "sequence"
      /\ \A a, b, c : Kind(<<a, b, c>>) = "sequence"
  <2>1. \A a : <<a>> \in Seq({a})
    OBVIOUS
  <2>2. \A a, b : <<a, b>> \in Seq({a, b})
    OBVIOUS
  <2>3. \A a, b, c : <<a, b, c>> \in Seq({a, b, c})
    OBVIOUS
  <2> QED
    BY <2>1, <2>2, <2>3 DEF Kind, IsPath
<1>2. \A a : Reads(<<a>>, 1, a, "none", "none", "none")
  <2>1. \A a : Size(<<a>>) = 1 /\ SegmentAt(<<a>>, 1) = a
    BY DEF Size, SegmentAt
  <2>2. \A a : \A i \in {2, 3, 4} : SegmentAt(<<a>>, i) = "none"
    BY DEF SegmentAt
  <2> QED
    BY <1>1, <2>1, <2>2 DEF Reads
<1>3. \A a, b : Reads(<<a, b>>, 2, a, b, "none", "none")
  <2>1. \A a, b : /\ Size(<<a, b>>) = 2
                 /\ SegmentAt(<<a, b>>, 1) = a /\ SegmentAt(<<a, b>>, 2) = b
    BY DEF Size, SegmentAt
  <2>2. \A a, b : \A i \in {3, 4} : SegmentAt(<<a, b>>, i) = "none"
    BY DEF SegmentAt
  <2> QED
    BY <1>1, <2>1, <2>2 DEF Reads
<1>4. ASSUME NEW a, NEW b, NEW c PROVE Reads(<<a, b, c>>, 3, a, b, c, "none")
  <2> DEFINE p == <<a, b, c>>
  <2>1. /\ Size(p) = 3 /\ SegmentAt(p, 1) = a /\ SegmentAt(p, 2) = b
        /\ SegmentAt(p, 3) = c /\ SegmentAt(p, 4) = "none"
    BY DEF Size, SegmentAt
  <2>2. Kind(p) = "sequence"
    BY <1>1
  <2> HIDE DEF p
  <2>3. Reads(p, 3, a, b, c, "none")
    BY <2>1, <2>2 DEF Reads
  <2> QED
    BY <2>3 DEF p
<1>5. ASSUME NEW p, NEW a, NEW b, NEW x, Reads(p, 2, a, b, "none", "none")
      PROVE  Reads(p \o <<x>>, 3, a, b, x, "none")
  <2>1. Continues(p \o <<x>>, p, x) /\ Len(p) = 2
    BY <1>5, PathEnds DEF Reads, Kind, Size
  <2>2. p[1] = a /\ p[2] = b
    BY <1>5, <2>1 DEF Reads, SegmentAt
  <2> QED
    BY <2>1, <2>2 DEF Continues, Reads, Kind, SegmentAt, Size
<1>6. ASSUME NEW p, NEW a, NEW b, NEW c, NEW x, Reads(p, 3, a, b, c, "none")
      PROVE  Reads(p \o <<x>>, 4, a, b, c, x)
  <2>1. Continues(p \o <<x>>, p, x) /\ Len(p) = 3
    BY <1>6, PathEnds DEF Reads, Kind, Size
  <2>2. p[1] = a /\ p[2] = b /\ p[3] = c
    BY <1>6, <2>1 DEF Reads, SegmentAt
  <2> QED
    BY <2>1, <2>2 DEF Continues, Reads, Kind, SegmentAt, Size
<1>7. \A a, b, c : Reads(<<a, b>> \o <<c>>, 3, a, b, c, "none")
  BY <1>3, <1>5
<1>8. \A a, b, c, d : Reads((<<a, b>> \o <<c>>) \o <<d>>, 4, a, b, c, d)
  BY <1>6, <1>7
<1>9. \A a, b, c, d : Reads(<<a, b, c>> \o <<d>>, 4, a, b, c, d)
  BY <1>4, <1>6
<1>10. ASSUME NEW a, NEW b, NEW c, NEW d PROVE Reads(<<a, b>> \o <<c, d>>, 4, a, b, c, d)
  <2> DEFINE p == <<a, b>>
  <2>1. IsPath(p) /\ Reads((p \o <<c>>) \o <<d>>, 4, a, b, c, d)
    BY <1>1, <1>8 DEF Kind
  <2> HIDE DEF p
  <2>2. p \o <<c, d>> = (p \o <<c>>) \o <<d>>
    BY <2>1, PairBehind
  <2> QED
    BY <2>1, <2>2 DEF p
<1> QED
  BY <1>2, <1>3, <1>4, <1>7, <1>8, <1>9, <1>10 DEF Forms

(* What a row is made of.                                                  *)
Call(r, method, p) == Verb(r) = method /\ Route(r) = p
Verbs == \A op, p :
    /\ Call(Get(op, p), "GET", p) /\ Call(Post(op, p), "POST", p)
    /\ Call(Put(op, p), "PUT", p) /\ Call(Patch(op, p), "PATCH", p)
    /\ Call(Delete(op, p), "DELETE", p)

(* A row has the method and the path it is written with.                   *)
LEMMA CallsAreRows == Verbs
  BY DEF Verbs, Call, Get, Post, Put, Patch, Delete, Row, Verb, Route

(* A path of up to four segments that begins with words, with a word       *)
(* behind a parameter: it has one parameter at most.                       *)
Regular(p) ==
    /\ Kind(p) = "sequence" /\ Size(p) \in {1, 2, 3, 4}
    /\ ~is_param(SegmentAt(p, 1)) /\ ~is_param(SegmentAt(p, 2))
    /\ Size(p) = 1 => Word(SegmentAt(p, 1))
    /\ is_param(SegmentAt(p, 3)) => Word(SegmentAt(p, 4))

(* The source spells such a path.                                          *)
LEMMA RegularSpellable ==
    ASSUME NEW p, Regular(p) PROVE Spellable(p)
<1>1. /\ Len(p) \in 1..4 /\ p # <<>>
      /\ \A i \in 1..Len(p) : i \in 1..4 /\ (i = 1 \/ i = 2 \/ i = 3 \/ i = 4)
      /\ \A i \in 1..Len(p) : SegmentAt(p, i) = p[i]
  <2>1. Len(p) = 1 \/ Len(p) = 2 \/ Len(p) = 3 \/ Len(p) = 4
    BY DEF Regular, Size
  <2>2. p # <<>>
    BY <2>1
  <2>3. \A i \in 1..Len(p) : SegmentAt(p, i) = p[i]
    BY <2>1 DEF SegmentAt
  <2>4. \A i \in 1..Len(p) : i \in 1..4 /\ (i = 1 \/ i = 2 \/ i = 3 \/ i = 4)
    <3>1. \A n \in 1..4 : \A i \in 1..n : i \in 1..4 /\ (i = 1 \/ i = 2 \/ i = 3 \/ i = 4)
      OBVIOUS
    <3>2. Len(p) \in 1..4
      BY <2>1
    <3> QED
      BY <3>1, <3>2
  <2> QED
    BY <2>1, <2>2, <2>3, <2>4
<1>2. CASE \A i \in 1..Len(p) : ~is_param(p[i])
  <2>1. p \notin NOISE
    <3>1. CASE Len(p) = 1
      <4>1. Word(p[1])
        BY <1>1, <3>1 DEF Regular, Size
      <4>2. p # <<"api">> /\ p # <<"v1">> /\ p # <<"v2">> /\ p # <<"responses">>
        BY <4>1 DEF Word
      <4> QED
        BY <1>1, <4>2 DEF NOISE
    <3>2. CASE Len(p) # 1
      BY <1>1, <3>2, NoiseIsShort
    <3> QED
      BY <3>1, <3>2
  <2> QED
    BY <1>1, <1>2, <2>1 DEF Spellable
<1>3. CASE 3 \in 1..Len(p) /\ is_param(p[3])
  <2>1. Word(SegmentAt(p, 4))
    BY <1>1, <1>3 DEF Regular
  <2>2. 3 < Len(p) => ~is_param(p[4]) /\ p[4] \notin {"api", "v1", "v2", "responses"}
    BY <1>1, <2>1 DEF Word, is_param, SegmentAt
  <2>3. \A k \in 1..Len(p) : k # 3 => ~is_param(p[k])
    BY <1>1, <2>2 DEF Regular
  <2>4. 3 \in 3..Len(p) /\ 3 + 1 = 4
    BY <1>1, <1>3
  <2> QED
    BY <1>1, <1>3, <2>2, <2>3, <2>4 DEF Spellable
<1>4. CASE 4 \in 1..Len(p) /\ is_param(p[4]) /\ ~is_param(p[3])
  <2>1. \A k \in 1..Len(p) : k # 4 => ~is_param(p[k])
    BY <1>1, <1>4 DEF Regular
  <2>2. 4 \in 3..Len(p) /\ ~(4 < Len(p))
    BY <1>1, <1>4
  <2> QED
    BY <1>1, <1>4, <2>1, <2>2 DEF Spellable
<1>5. \A i \in 1..Len(p) : i \in {1, 2} => ~is_param(p[i])
  BY <1>1 DEF Regular
<1> QED
  BY <1>1, <1>2, <1>3, <1>4, <1>5

(* The calls of C have regular paths and no two of them clash; their       *)
(* second segments are words of H.                                         *)
Distinct(C, H) ==
    /\ \A r \in C : Regular(Route(r))
    /\ \A r, s \in C : Clash(r, s) => r = s
    /\ \A r \in C : SegmentAt(Route(r), 2) \in H
    /\ \A w \in H : ~is_param(w)

(* Services whose calls differ in the second segment do not clash.         *)
LEMMA DistinctTogether ==
    ASSUME NEW C, NEW D, NEW H, NEW K, H \cap K = {}, Distinct(C, H), Distinct(D, K)
    PROVE  Distinct(C \cup D, H \cup K)
<1>1. \A r \in C, s \in D : ~Clash(r, s) /\ ~Clash(s, r)
  BY DEF Distinct, Clash, MayAgree
<1> QED
  BY <1>1 DEF Distinct

(* The calls on accounts and their plans.                                  *)
AccountWords == {"accounts", "auth", "restart"}
AccountGroup ==
    AccountCalls \cup AccountPoolCalls \cup BulkCalls \cup PlanCalls

(* Their paths are regular and no two of them clash.                       *)
LEMMA AccountDistinct == Distinct(AccountGroup, AccountWords)
<1>1. \A r, s \in AccountGroup : Clash(r, s) => r = s
  BY PathsRead, CallsAreRows, SMTT(60)
     DEF Forms, Reads, Verbs, Call, Clash, MayAgree, is_param, Parameters, AccountGroup,
         AccountCalls, AccountPoolCalls, BulkCalls, PlanCalls
<1>2. \A r \in AccountGroup : SegmentAt(Route(r), 2) \in AccountWords
  BY PathsRead, CallsAreRows, SMTT(60)
     DEF Forms, Reads, Verbs, Call, AccountGroup, AccountWords,
         AccountCalls, AccountPoolCalls, BulkCalls, PlanCalls
<1>3. \A w \in AccountWords : ~is_param(w)
  BY DEF AccountWords, is_param, Parameters
<1>4. \A r \in AccountGroup : Regular(Route(r))
  BY PathsRead, CallsAreRows, SMTT(60)
     DEF Forms, Reads, Verbs, Call, Regular, Word, is_param, Parameters, AccountGroup,
         AccountCalls, AccountPoolCalls, BulkCalls, PlanCalls
<1> QED
  BY <1>1, <1>2, <1>3, <1>4 DEF Distinct

(* The calls on logs of accounts, proxies and settings.                    *)
SettingsWords ==
    {"checkin-logs", "task-logs", "upstream", "proxies", "proxy-routes", "settings"}
SettingsGroup ==
    AccountLogCalls \cup ProxyCalls \cup SettingsCalls \cup PGSyncCalls

(* Their paths are regular and no two of them clash.                       *)
LEMMA SettingsDistinct == Distinct(SettingsGroup, SettingsWords)
<1>1. \A r, s \in SettingsGroup : Clash(r, s) => r = s
  BY PathsRead, CallsAreRows, SMTT(60)
     DEF Forms, Reads, Verbs, Call, Clash, MayAgree, is_param, Parameters, SettingsGroup,
         AccountLogCalls, ProxyCalls, SettingsCalls, PGSyncCalls
<1>2. \A r \in SettingsGroup : SegmentAt(Route(r), 2) \in SettingsWords
  BY PathsRead, CallsAreRows, SMTT(60)
     DEF Forms, Reads, Verbs, Call, SettingsGroup, SettingsWords,
         AccountLogCalls, ProxyCalls, SettingsCalls, PGSyncCalls
<1>3. \A w \in SettingsWords : ~is_param(w)
  BY DEF SettingsWords, is_param, Parameters
<1>4. \A r \in SettingsGroup : Regular(Route(r))
  BY PathsRead, CallsAreRows, SMTT(60)
     DEF Forms, Reads, Verbs, Call, Regular, Word, is_param, Parameters, SettingsGroup,
         AccountLogCalls, ProxyCalls, SettingsCalls, PGSyncCalls
<1> QED
  BY <1>1, <1>2, <1>3, <1>4 DEF Distinct

(* The calls on tokens, keys, red packets, users and sessions.             *)
AccessWords ==
    {"tokens", "keys", "red-packets", "claim", "users", "audit-logs", "me",
     "sessions", "logout"}
AccessGroup ==
    TokenCalls \cup KeyCalls \cup LocalKeyCalls \cup RedPacketCalls \cup
    UserCalls \cup SessionCalls

(* Their paths are regular and no two of them clash.                       *)
LEMMA AccessDistinct == Distinct(AccessGroup, AccessWords)
<1>1. \A r, s \in AccessGroup : Clash(r, s) => r = s
  BY PathsRead, CallsAreRows, SMTT(60)
     DEF Forms, Reads, Verbs, Call, Clash, MayAgree, is_param, Parameters, AccessGroup,
         TokenCalls, KeyCalls, LocalKeyCalls, RedPacketCalls, UserCalls,
         SessionCalls
<1>2. \A r \in AccessGroup : SegmentAt(Route(r), 2) \in AccessWords
  BY PathsRead, CallsAreRows, SMTT(60)
     DEF Forms, Reads, Verbs, Call, AccessGroup, AccessWords,
         TokenCalls, KeyCalls, LocalKeyCalls, RedPacketCalls, UserCalls,
         SessionCalls
<1>3. \A w \in AccessWords : ~is_param(w)
  BY DEF AccessWords, is_param, Parameters
<1>4. \A r \in AccessGroup : Regular(Route(r))
  BY PathsRead, CallsAreRows, SMTT(60)
     DEF Forms, Reads, Verbs, Call, Regular, Word, is_param, Parameters, AccessGroup,
         TokenCalls, KeyCalls, LocalKeyCalls, RedPacketCalls, UserCalls,
         SessionCalls
<1> QED
  BY <1>1, <1>2, <1>3, <1>4 DEF Distinct

(* The calls on the running server.                                        *)
OperationWords ==
    {"sysinfo", "system", "stats", "security", "upstreams", "task-run",
     "task-claim-schedule", "logs"}
OperationGroup ==
    SystemCalls \cup StatsCalls \cup SecurityCalls \cup ManagedUpstreamCalls \cup
    TaskCalls \cup LogCalls

(* Their paths are regular and no two of them clash.                       *)
LEMMA OperationDistinct == Distinct(OperationGroup, OperationWords)
<1>1. \A r, s \in OperationGroup : Clash(r, s) => r = s
  BY PathsRead, CallsAreRows, SMTT(60)
     DEF Forms, Reads, Verbs, Call, Clash, MayAgree, is_param, Parameters, OperationGroup,
         SystemCalls, StatsCalls, SecurityCalls, ManagedUpstreamCalls, TaskCalls,
         LogCalls
<1>2. \A r \in OperationGroup : SegmentAt(Route(r), 2) \in OperationWords
  BY PathsRead, CallsAreRows, SMTT(60)
     DEF Forms, Reads, Verbs, Call, OperationGroup, OperationWords,
         SystemCalls, StatsCalls, SecurityCalls, ManagedUpstreamCalls, TaskCalls,
         LogCalls
<1>3. \A w \in OperationWords : ~is_param(w)
  BY DEF OperationWords, is_param, Parameters
<1>4. \A r \in OperationGroup : Regular(Route(r))
  BY PathsRead, CallsAreRows, SMTT(60)
     DEF Forms, Reads, Verbs, Call, Regular, Word, is_param, Parameters, OperationGroup,
         SystemCalls, StatsCalls, SecurityCalls, ManagedUpstreamCalls, TaskCalls,
         LogCalls
<1> QED
  BY <1>1, <1>2, <1>3, <1>4 DEF Distinct

(* The calls of the gateway and what shares words with them.               *)
GatewayWords ==
    {"none", "healthz", "status", "models", "model-catalog", "playground", "chat",
     "responses", "messages", "usage"}
GatewayGroup ==
    HealthCalls \cup UpstreamCalls \cup CatalogCalls \cup PlaygroundCalls \cup
    GatewayCalls \cup UsageCalls

(* Their paths are regular and no two of them clash.                       *)
LEMMA GatewayDistinct == Distinct(GatewayGroup, GatewayWords)
<1>1. \A r, s \in GatewayGroup : Clash(r, s) => r = s
  BY PathsRead, CallsAreRows, SMTT(60)
     DEF Forms, Reads, Verbs, Call, Clash, MayAgree, is_param, Parameters, GatewayGroup,
         HealthCalls, UpstreamCalls, CatalogCalls, PlaygroundCalls, GatewayCalls,
         UsageCalls
<1>2. \A r \in GatewayGroup : SegmentAt(Route(r), 2) \in GatewayWords
  BY PathsRead, CallsAreRows, SMTT(60)
     DEF Forms, Reads, Verbs, Call, GatewayGroup, GatewayWords,
         HealthCalls, UpstreamCalls, CatalogCalls, PlaygroundCalls, GatewayCalls,
         UsageCalls
<1>3. \A w \in GatewayWords : ~is_param(w)
  BY DEF GatewayWords, is_param, Parameters
<1>4. \A r \in GatewayGroup : Regular(Route(r))
  BY PathsRead, CallsAreRows, SMTT(60)
     DEF Forms, Reads, Verbs, Call, Regular, Word, is_param, Parameters, GatewayGroup,
         HealthCalls, UpstreamCalls, CatalogCalls, PlaygroundCalls, GatewayCalls,
         UsageCalls
<1> QED
  BY <1>1, <1>2, <1>3, <1>4 DEF Distinct

(* The groups make up the table of the SDK.                                *)
LEMMA CallsAreDistinct ==
    /\ \A r \in API : Regular(Route(r))
    /\ \A r, s \in API : Clash(r, s) => r = s
<1> DEFINE H == SettingsWords \cup AccessWords
           K == OperationWords \cup GatewayWords
           C == SettingsGroup \cup AccessGroup
           D == OperationGroup \cup GatewayGroup
<1>1. Distinct(C, H)
  <2>1. SettingsWords \cap AccessWords = {}
    BY DEF SettingsWords, AccessWords
  <2> QED
    BY <2>1, SettingsDistinct, AccessDistinct, DistinctTogether
<1>2. Distinct(D, K)
  <2>1. OperationWords \cap GatewayWords = {}
    BY DEF OperationWords, GatewayWords
  <2> QED
    BY <2>1, OperationDistinct, GatewayDistinct, DistinctTogether
<1>3. Distinct(C \cup D, H \cup K)
  <2>1. H \cap K = {}
    BY DEF SettingsWords, AccessWords, OperationWords, GatewayWords
  <2> HIDE DEF C, D, H, K
  <2> QED
    BY <1>1, <1>2, <2>1, DistinctTogether
<1>4. Distinct(AccountGroup \cup (C \cup D), AccountWords \cup (H \cup K))
  <2>1. AccountWords \cap (H \cup K) = {}
    BY DEF AccountWords, SettingsWords, AccessWords, OperationWords, GatewayWords
  <2> HIDE DEF C, D, H, K
  <2> QED
    BY <1>3, <2>1, AccountDistinct, DistinctTogether
<1>5. API \subseteq AccountGroup \cup (C \cup D)
  BY DEF API, AccountService, AdminService, GatewayService,
         AccountGroup, SettingsGroup, AccessGroup, OperationGroup, GatewayGroup
<1> QED
  BY <1>4, <1>5 DEF Distinct

(* Every path of the SDK is one that the source spells.                    *)
LEMMA EveryCallSpellable == \A r \in API : IsPath(r.path) /\ Spellable(r.path)
<1> SUFFICES ASSUME NEW r \in API PROVE IsPath(r.path) /\ Spellable(r.path)
  OBVIOUS
<1>1. Regular(r.path)
  BY CallsAreDistinct DEF Route
<1> QED
  BY <1>1, RegularSpellable DEF Regular, Kind

-----------------------------------------------------------------------------
(* What is split and what is spelled                                       *)

(* The paths of the SDK, like those of the other endpoints, are paths.     *)
LEMMA CallPaths == \A r \in API : r.path \in Paths /\ Spellable(r.path)
<1> SUFFICES ASSUME NEW r \in API PROVE r.path \in Paths /\ Spellable(r.path)
  OBVIOUS
<1> DEFINE p == r.path
<1>1. IsPath(p) /\ Spellable(p)
  BY EveryCallSpellable
<1>2. PICK S : p \in Seq(S)
  BY <1>1 DEF IsPath
<1>3. ToSet(p) \subseteq Segments
  BY DEF Segments
<1> HIDE DEF p
<1>4. \A i \in 1..Len(p) : p[i] \in Segments
  <2>1. DOMAIN p = 1..Len(p)
    BY <1>2
  <2> QED
    BY <1>3, <2>1 DEF ToSet
<1>5. \A T : (\A i \in 1..Len(p) : p[i] \in T) => p \in Seq(T)
  BY <1>2
<1> QED
  BY <1>1, <1>4, <1>5 DEF p, Paths

(* The endpoints of the server are paths, whatever the SDK lacks.          *)
LEMMA DeclaredPaths == Declared \subseteq Paths
<1>1. Seq(STRING) \subseteq Paths
  <2> DEFINE S == STRING
  <2>1. S \subseteq Segments
    BY DEF Segments
  <2>2. \A A, B : A \subseteq B => Seq(A) \subseteq Seq(B)
    OBVIOUS
  <2> HIDE DEF S
  <2>3. Seq(S) \subseteq Seq(Segments)
    BY <2>1, <2>2
  <2> QED
    BY <2>3 DEF S, Paths
<1> QED
  BY <1>1, CallPaths, AuditAssumption DEF Declared

(* What split_endpoint makes of a path without a parameter.                *)
LEMMA FixedSplit ==
    ASSUME NEW p \in Paths, \A i \in 1..Len(p) : ~is_param(p[i])
    PROVE  split_endpoint(p).prefix = p /\ ToSet(split_endpoint(p).runs) = {}
<1> DEFINE n == Len(p)
           runs == split_endpoint(p).runs
           prefix == split_endpoint(p).prefix
<1>1. n \in Nat /\ SubSeq(p, 1, n) = p
  BY DEF Paths
<1>2. runs \in Seq(Paths) /\ SplitTo(p, n, prefix, runs)
  BY EveryPathSplit
<1> HIDE DEF n, runs, prefix
<1>3. n \in 0..n /\ FixedTo(p, n, 1, n)
  BY <1>1 DEF FixedTo, n
<1>4. prefix = p
  BY <1>1, <1>2, <1>3 DEF SplitTo
<1>5. StartsTo(p, n) = {}
  <2>1. \A a \in 2..n : a - 1 \in 1..n
    BY <1>1
  <2> QED
    BY <2>1 DEF StartsTo, n
<1>6. Len(runs) = 0
  BY <1>2, <1>5, FS_EmptySet DEF SplitTo
<1>7. DOMAIN runs = {}
  BY <1>2, <1>6
<1> QED
  BY <1>4, <1>7 DEF ToSet, prefix, runs

(* What it makes of a path with a single parameter, the i-th segment.      *)
LEMMA SingleSplit ==
    ASSUME NEW p \in Paths, NEW i \in 1..Len(p), is_param(p[i]),
           \A k \in 1..Len(p) : k # i => ~is_param(p[k])
    PROVE  /\ split_endpoint(p).prefix = SubSeq(p, 1, i - 1)
           /\ ToSet(split_endpoint(p).runs) =
                 IF i < Len(p) THEN {SubSeq(p, i + 1, Len(p))} ELSE {}
<1> DEFINE n == Len(p)
           runs == split_endpoint(p).runs
           prefix == split_endpoint(p).prefix
<1>1. n \in Nat /\ i \in 1..n
  BY DEF Paths
<1>2. runs \in Seq(Paths) /\ SplitTo(p, n, prefix, runs)
  BY EveryPathSplit
<1>0. is_param(p[i]) /\ \A k \in 1..n : k # i => ~is_param(p[k])
  OBVIOUS
<1> HIDE DEF n, runs, prefix
<1>3. i - 1 \in 0..n /\ FixedTo(p, n, 1, i - 1)
  <2>1. i - 1 \in 0..n /\ (i - 1) + 1 = i
    BY <1>1
  <2>2. \A k \in 1..i - 1 : k \in 1..n /\ k # i
    BY <1>1
  <2> QED
    BY <1>0, <2>1, <2>2 DEF FixedTo
<1>4. prefix = SubSeq(p, 1, i - 1)
  BY <1>2, <1>3 DEF SplitTo
<1>5. CASE i < n
  <2>1. i + 1 \in 2..n /\ (i + 1) - 1 = i /\ i + 1 \in 1..n /\ i + 1 # i
        /\ n \in i + 1..n
    BY <1>1, <1>5
  <2>2. \A a \in 2..n : a # i + 1 => a - 1 \in 1..n /\ a - 1 # i
    BY <1>1
  <2>3. StartsTo(p, n) = {i + 1}
    BY <1>0, <2>1, <2>2 DEF StartsTo
  <2>4. \A a \in 2..i + 1 : a \in 2..n
    BY <1>1, <1>5
  <2>5. StartsTo(p, i + 1) = {i + 1}
    <3>1. i + 1 \in 2..i + 1
      BY <1>1
    <3> QED
      BY <1>0, <2>1, <2>2, <2>4, <3>1 DEF StartsTo
  <2>6. Cardinality({i + 1}) = 1
    BY FS_Singleton
  <2>7. FixedTo(p, n, i + 1, n)
    <3>1. \A k \in i + 1..n : k \in 1..n /\ k # i
      BY <1>1
    <3> QED
      BY <1>0, <3>1 DEF FixedTo
  <2>8. Len(runs) = 1 /\ runs[1] = SubSeq(p, i + 1, n)
    BY <1>2, <2>1, <2>3, <2>5, <2>6, <2>7 DEF SplitTo
  <2>9. DOMAIN runs = {1}
    BY <1>2, <2>8
  <2>10. ToSet(runs) = {SubSeq(p, i + 1, n)}
    <3>1. ToSet(runs) = {runs[1]}
      BY <2>9 DEF ToSet
    <3> QED
      BY <2>8, <3>1
  <2> QED
    BY <1>4, <1>5, <2>10 DEF n, runs, prefix
<1>6. CASE i = n
  <2>1. \A a \in 2..n : a - 1 \in 1..n /\ a - 1 # i
    BY <1>1, <1>6
  <2>2. StartsTo(p, n) = {}
    BY <1>0, <2>1 DEF StartsTo
  <2>3. Len(runs) = 0
    BY <1>2, <2>2, FS_EmptySet DEF SplitTo
  <2>4. DOMAIN runs = {}
    BY <1>2, <2>3
  <2>5. ToSet(runs) = {}
    BY <2>4 DEF ToSet
  <2> QED
    BY <1>4, <1>6, <2>5 DEF n, runs, prefix
<1> QED
  BY <1>1, <1>5, <1>6 DEF n

(* How the source spells a path without a parameter.                       *)
LEMMA FixedSpelled ==
    ASSUME NEW p \in Paths, \A i \in 1..Len(p) : ~is_param(p[i])
    PROVE  Spelled(p) = {p}
<1>1. DOMAIN p = 1..Len(p)
  BY DEF Paths
<1>2. {i \in DOMAIN p : is_param(p[i])} = {}
  BY <1>1
<1> QED
  BY <1>2 DEF Spelled

(* How it spells one with a single parameter.                              *)
LEMMA SingleSpelled ==
    ASSUME NEW p \in Paths, NEW i \in 1..Len(p), is_param(p[i]),
           \A k \in 1..Len(p) : k # i => ~is_param(p[k])
    PROVE  Spelled(p) = {SubSeq(p, 1, i - 1), SubSeq(p, i + 1, Len(p))}
<1>1. DOMAIN p = 1..Len(p)
  BY DEF Paths
<1> DEFINE At == {k \in DOMAIN p : is_param(p[k])}
<1>2. At = {i}
  BY <1>1
<1> HIDE DEF At
<1>3. (CHOOSE k \in At : TRUE) = i
  BY <1>2
<1> QED
  BY <1>2, <1>3 DEF Spelled, At

(* What begins at a segment begins with it.                                *)
LEMMA TailStarts ==
    ASSUME NEW p \in Paths, NEW a \in 1..Len(p)
    PROVE  SubSeq(p, a, Len(p)) # <<>> /\ SubSeq(p, a, Len(p))[1] = p[a]
<1>1. Len(p) \in Nat /\ p \in Seq(Segments)
  BY DEF Paths
<1>2. \A T : \A q \in Seq(T) : \A b \in 1..Len(q) :
         Len(SubSeq(q, b, Len(q))) = Len(q) - b + 1 /\ SubSeq(q, b, Len(q))[1] = q[b]
  OBVIOUS
<1>3. Len(SubSeq(p, a, Len(p))) = Len(p) - a + 1 /\ SubSeq(p, a, Len(p))[1] = p[a]
  BY <1>1, <1>2
<1>4. Len(SubSeq(p, a, Len(p))) # 0 /\ Len(<<>>) = 0
  BY <1>1, <1>3
<1>5. SubSeq(p, a, Len(p)) # <<>>
  BY <1>4, Zenon
<1> QED
  BY <1>3, <1>5

(* The parts that the audit looks for are no noise: they are collected.    *)
LEMMA PartsCollected ==
    ASSUME NEW calls, NEW r \in API, r \in calls
    PROVE  LET p == r.path IN
           /\ (\A i \in 1..Len(p) : ~is_param(p[i])) => p \in collect_sdk_literals(calls)
           /\ \A i \in 3..Len(p) :
                 is_param(p[i]) /\ (\A k \in 1..Len(p) : k # i => ~is_param(p[k])) =>
                    /\ SubSeq(p, 1, i - 1) \in collect_sdk_literals(calls)
                    /\ i < Len(p) => SubSeq(p, i + 1, Len(p)) \in collect_sdk_literals(calls)
<1> DEFINE p == r.path
<1>1. p \in Paths /\ Spellable(p) /\ Len(p) \in Nat
  <2>1. \A q \in Paths : Len(q) \in Nat
    BY DEF Paths
  <2> QED
    BY <2>1, CallPaths
<1>2. Spelled(p) \ NOISE \subseteq collect_sdk_literals(calls)
  BY DEF collect_sdk_literals
<1> HIDE DEF p
<1>3. ASSUME \A i \in 1..Len(p) : ~is_param(p[i])
      PROVE  p \in collect_sdk_literals(calls)
  <2>1. p \notin NOISE
    <3>1. \A i \in 3..Len(p) : i \in 1..Len(p)
      BY <1>1
    <3> QED
      BY <1>1, <1>3, <3>1 DEF Spellable
  <2>2. Spelled(p) = {p}
    BY <1>1, <1>3, FixedSpelled
  <2> QED
    BY <1>2, <2>1, <2>2
<1>4. ASSUME NEW i \in 3..Len(p), is_param(p[i]),
             \A k \in 1..Len(p) : k # i => ~is_param(p[k])
      PROVE  /\ SubSeq(p, 1, i - 1) \in collect_sdk_literals(calls)
             /\ i < Len(p) => SubSeq(p, i + 1, Len(p)) \in collect_sdk_literals(calls)
  <2>1. i \in 1..Len(p)
    BY <1>1
  <2>2. Spelled(p) = {SubSeq(p, 1, i - 1), SubSeq(p, i + 1, Len(p))}
    BY <1>1, <1>4, <2>1, SingleSpelled
  <2>3. SubSeq(p, 1, i - 1) \notin NOISE
    <3>1. Len(SubSeq(p, 1, i - 1)) = i - 1 /\ ~(i - 1 < 2)
      <4>1. \A n \in 3..Len(p) : Len(SubSeq(p, 1, n - 1)) = n - 1
        BY <1>1 DEF Paths
      <4>2. ~(i - 1 < 2)
        BY <1>1
      <4> QED
        BY <4>1, <4>2
    <3> HIDE DEF p
    <3> QED
      BY <3>1, NoiseIsShort
  <2>4. ASSUME i < Len(p) PROVE SubSeq(p, i + 1, Len(p)) \notin NOISE
    <3> DEFINE tail == SubSeq(p, i + 1, Len(p))
    <3>0. i + 1 \in 1..Len(p)
      BY <1>1, <2>4
    <3>1. tail # <<>> /\ tail[1] = p[i + 1]
      BY <1>1, <3>0, TailStarts
    <3>2. p[i + 1] \notin {"api", "v1", "v2", "responses"}
      <4>1. PICK j \in 3..Len(p) :
               is_param(p[j])
               /\ (j < Len(p) => p[j + 1] \notin {"api", "v1", "v2", "responses"})
        BY <1>1, <1>4, <2>1 DEF Spellable
      <4>2. j = i
        BY <1>1, <1>4, <4>1
      <4> QED
        BY <2>4, <4>1, <4>2
    <3> HIDE DEF tail
    <3>3. \A w : <<w>>[1] = w
      OBVIOUS
    <3>4. tail \notin NOISE
      BY <3>1, <3>2, <3>3 DEF NOISE
    <3> QED
      BY <3>4 DEF tail
  <2> QED
    BY <1>2, <2>2, <2>3, <2>4
<1> QED
  BY <1>3, <1>4 DEF p

(* What the source of a set of calls spells: the whole path of a call      *)
(* without a parameter, or the two parts of one with a parameter, of which *)
(* the second is empty or begins with a word of its own.                   *)
LEMMA LiteralsSpelled ==
    ASSUME NEW calls, calls \subseteq API, NEW l \in collect_sdk_literals(calls)
    PROVE  \/ l \in OtherLiterals
           \/ \E r \in calls : l = r.path
           \/ \E r \in calls : \E i \in 1..Len(r.path) :
                 is_param(r.path[i]) /\ l = SubSeq(r.path, 1, i - 1)
           \/ l = <<>>
           \/ l # <<>> /\ l[1] # "api"
<1> SUFFICES ASSUME l \notin OtherLiterals
             PROVE  \/ \E r \in calls : l = r.path
                    \/ \E r \in calls : \E i \in 1..Len(r.path) :
                          is_param(r.path[i]) /\ l = SubSeq(r.path, 1, i - 1)
                    \/ l = <<>>
                    \/ l # <<>> /\ l[1] # "api"
  OBVIOUS
<1>1. PICK r \in calls : l \in Spelled(r.path)
  <2>1. l \in UNION {Spelled(r.path) : r \in calls}
    BY DEF collect_sdk_literals
  <2> QED
    BY <2>1
<1> DEFINE p == r.path
<1>2. p \in Paths /\ Spellable(p) /\ Len(p) \in Nat
  <2>1. \A q \in Paths : Len(q) \in Nat
    BY DEF Paths
  <2> QED
    BY <2>1, CallPaths
<1>3. l \in Spelled(p)
  BY <1>1
<1> HIDE DEF p
<1>4. CASE \A i \in 1..Len(p) : ~is_param(p[i])
  <2>1. l = p
    BY <1>2, <1>3, <1>4, FixedSpelled
  <2> QED
    BY <2>1 DEF p
<1>5. CASE \E i \in 1..Len(p) : is_param(p[i])
  <2>1. PICK i \in 3..Len(p) :
           /\ is_param(p[i])
           /\ \A k \in 1..Len(p) : k # i => ~is_param(p[k])
           /\ i < Len(p) => p[i + 1] \notin {"api", "v1", "v2", "responses"}
    BY <1>2, <1>5 DEF Spellable
  <2>2. i \in 1..Len(p)
    BY <1>2
  <2>3. Spelled(p) = {SubSeq(p, 1, i - 1), SubSeq(p, i + 1, Len(p))}
    BY <1>2, <2>1, <2>2, SingleSpelled
  <2>4. CASE l = SubSeq(p, 1, i - 1)
    BY <2>1, <2>2, <2>4 DEF p
  <2>5. CASE l = SubSeq(p, i + 1, Len(p)) /\ i < Len(p)
    <3>1. i + 1 \in 1..Len(p)
      BY <1>2, <2>2, <2>5
    <3>2. l # <<>> /\ l[1] = p[i + 1]
      BY <1>2, <2>5, <3>1, TailStarts
    <3> QED
      BY <2>1, <2>5, <3>2
  <2>6. CASE l = SubSeq(p, i + 1, Len(p)) /\ ~(i < Len(p))
    <3>1. l = <<>>
      BY <1>2, <2>2, <2>6 DEF Paths
    <3> QED
      BY <3>1
  <2> QED
    BY <1>3, <2>3, <2>4, <2>5, <2>6
<1> QED
  BY <1>4, <1>5

(* What holds in every state of the audit: the literals are those of the   *)
(* calls at hand, and what the endpoint lacks was computed from them.      *)
AuditInv ==
    /\ sdk \subseteq API
    /\ lits = collect_sdk_literals(sdk)
    /\ upstream \in Declared \cup {<<>>}
    /\ upstream # <<>> => lacks = missing_reasons(upstream, lits)
    /\ upstream = <<>> => lacks = {}

(* The invariant holds in every state of every audit.                      *)
THEOREM AuditCorrect == Spec => []AuditInv
<1>1. Init => AuditInv
  BY DEF Init, AuditInv
<1>2. AuditInv /\ [Next]_vars => AuditInv'
  <2> SUFFICES ASSUME AuditInv, [Next]_vars PROVE AuditInv'
    OBVIOUS
  <2>1. CASE Release
    <3>1. sdk' \subseteq API
      BY <2>1 DEF Release
    <3> QED
      BY <2>1, <3>1 DEF Release, AuditInv
  <2>2. CASE Compare
    <3>1. /\ sdk' = sdk /\ lits' = lits
      BY <2>2 DEF Compare
    <3>2. PICK path \in Declared : upstream' = path /\ lacks' = missing_reasons(path, lits)
      BY <2>2 DEF Compare
    <3>3. upstream' = <<>> => lacks' = {}
      <4> SUFFICES ASSUME path = <<>> PROVE lacks' = {}
        BY <3>2
      <4>1. path \in Paths /\ \A i \in 1..Len(path) : ~is_param(path[i])
        BY DeclaredPaths
      <4>2. split_endpoint(path).prefix = path /\ ToSet(split_endpoint(path).runs) = {}
        BY <4>1, FixedSplit
      <4> QED
        BY <3>2, <4>2 DEF missing_reasons
    <3> QED
      BY <3>1, <3>2, <3>3 DEF AuditInv
  <2>3. CASE Return
    BY <2>3 DEF Return, AuditInv
  <2>4. CASE UNCHANGED vars
    BY <2>4 DEF vars, AuditInv
  <2> QED
    BY <2>1, <2>2, <2>3, <2>4 DEF Next
<1> QED
  BY <1>1, <1>2, PTL DEF Spec

(* Where the audit is, there is a path.                                    *)
LEMMA UpstreamIsPath == AuditInv => upstream \in Paths /\ Len(upstream) \in Nat
<1>1. <<>> \in Paths /\ \A p \in Paths : Len(p) \in Nat
  BY DEF Paths
<1> QED
  BY <1>1, DeclaredPaths DEF AuditInv

-----------------------------------------------------------------------------
(* The properties                                                          *)

(* Every endpoint is split by its parameters, whatever the server's        *)
(* routers declare and however long it is: the loop of split_endpoint      *)
(* finds every stretch of fixed segments, and nothing else, in order.      *)
THEOREM PathsSplitByParameters == Spec => []SplitsByParameters
<1>1. AuditInv => SplitsByParameters
  BY UpstreamIsPath, EveryPathSplit DEF SplitsByParameters
<1> QED
  BY <1>1, AuditCorrect, PTL

(* No false alarm, whatever the server calls its parameters: an endpoint   *)
(* that a call of the SDK asks for lacks nothing, since its prefix and its *)
(* run are spelled in the source of that call and are no noise.            *)
THEOREM CoveredPathsPass == Spec => []CoveredNotReported
<1>1. AuditInv => CoveredNotReported
  <2> SUFFICES ASSUME AuditInv, Has(upstream) PROVE lacks = {}
    BY DEF CoveredNotReported, unexpected
  <2>1. PICK r \in sdk : SameShape(r.path, upstream)
    BY DEF Has
  <2> DEFINE p == r.path
             q == upstream
  <2>2. r \in API /\ p \in Paths /\ Spellable(p) /\ q \in Paths /\ Len(q) \in Nat
    BY CallPaths, UpstreamIsPath DEF AuditInv
  <2>3. SameShape(p, q)
    BY <2>1
  <2>4. lits = collect_sdk_literals(sdk) /\ (q # <<>> => lacks = missing_reasons(q, lits))
        /\ (q = <<>> => lacks = {})
    BY DEF AuditInv
  <2>5. /\ (\A i \in 1..Len(p) : ~is_param(p[i])) => p \in lits
        /\ \A i \in 3..Len(p) :
             is_param(p[i]) /\ (\A k \in 1..Len(p) : k # i => ~is_param(p[k])) =>
                /\ SubSeq(p, 1, i - 1) \in lits
                /\ i < Len(p) => SubSeq(p, i + 1, Len(p)) \in lits
    BY <2>1, <2>2, <2>4, PartsCollected
  <2> HIDE DEF p, q
  <2>6. /\ Len(p) = Len(q) /\ DOMAIN p = 1..Len(p)
        /\ \A i \in 1..Len(p) : p[i] = q[i] \/ (is_param(p[i]) /\ is_param(q[i]))
    <3>1. DOMAIN p = 1..Len(p)
      BY <2>2 DEF Paths
    <3> QED
      BY <2>3, <3>1 DEF SameShape
  <2> SUFFICES ASSUME q # <<>> PROVE missing_reasons(q, lits) = {}
    BY <2>4
  <2>7. CASE \A i \in 1..Len(p) : ~is_param(p[i])
    <3>1. \A i \in 1..Len(q) : p[i] = q[i] /\ ~is_param(q[i])
      BY <2>6, <2>7
    <3>2. p = q
      <4>1. \A T : \A v, w \in Seq(T) :
               Len(v) = Len(w) /\ (\A i \in 1..Len(w) : v[i] = w[i]) => v = w
        OBVIOUS
      <4> QED
        BY <2>2, <2>6, <3>1, <4>1 DEF Paths
    <3>3. split_endpoint(q).prefix = q /\ ToSet(split_endpoint(q).runs) = {}
      BY <2>2, <3>1, FixedSplit
    <3> QED
      BY <2>5, <2>7, <3>2, <3>3 DEF missing_reasons
  <2>8. CASE ~\A i \in 1..Len(p) : ~is_param(p[i])
    <3>1. PICK i \in 3..Len(p) :
             is_param(p[i]) /\ \A k \in 1..Len(p) : k # i => ~is_param(p[k])
      BY <2>2, <2>8 DEF Spellable
    <3>2. i \in 1..Len(q) /\ i - 1 \in 1..Len(q) /\ i \in Nat
      BY <2>2, <2>6
    <3>3. is_param(q[i]) /\ \A k \in 1..Len(q) : k # i => q[k] = p[k] /\ ~is_param(q[k])
      BY <2>6, <3>1, <3>2
    <3>4. /\ split_endpoint(q).prefix = SubSeq(q, 1, i - 1)
          /\ ToSet(split_endpoint(q).runs) =
                IF i < Len(q) THEN {SubSeq(q, i + 1, Len(q))} ELSE {}
      BY <2>2, <3>2, <3>3, SingleSplit
    <3>5. \A a, b \in 1..Len(q) :
             (\A k \in a..b : k # i) => SubSeq(q, a, b) = SubSeq(p, a, b)
      <4> SUFFICES ASSUME NEW a \in 1..Len(q), NEW b \in 1..Len(q), \A k \in a..b : k # i
                   PROVE  SubSeq(q, a, b) = SubSeq(p, a, b)
        OBVIOUS
      <4>1. \A k \in a..b : k \in 1..Len(q)
        BY <2>2
      <4>2. \A k \in a..b : q[k] = p[k]
        BY <3>3, <4>1
      <4>3. \A T : \A v, w \in Seq(T) : Len(v) = Len(w) =>
               \A c, d \in 1..Len(v) :
                  (\A k \in c..d : v[k] = w[k]) => SubSeq(v, c, d) = SubSeq(w, c, d)
        OBVIOUS
      <4> QED
        BY <2>2, <2>6, <4>2, <4>3 DEF Paths
    <3>6. SubSeq(q, 1, i - 1) = SubSeq(p, 1, i - 1)
      <4>1. 1 \in 1..Len(q) /\ \A k \in 1..i - 1 : k # i
        BY <2>2, <3>2
      <4> QED
        BY <3>2, <3>5, <4>1
    <3>7. i < Len(q) => SubSeq(q, i + 1, Len(q)) = SubSeq(p, i + 1, Len(q))
      <4> SUFFICES ASSUME i < Len(q)
                   PROVE  SubSeq(q, i + 1, Len(q)) = SubSeq(p, i + 1, Len(q))
        OBVIOUS
      <4>1. i + 1 \in 1..Len(q) /\ Len(q) \in 1..Len(q) /\ \A k \in i + 1..Len(q) : k # i
        BY <2>2, <3>2
      <4> QED
        BY <3>5, <4>1
    <3>8. SubSeq(q, 1, i - 1) \in lits
      BY <2>5, <3>1, <3>6
    <3>9. ToSet(split_endpoint(q).runs) \subseteq lits
      BY <2>5, <2>6, <3>1, <3>4, <3>7
    <3> QED
      BY <3>4, <3>8, <3>9 DEF missing_reasons
  <2> QED
    BY <2>7, <2>8
<1> QED
  BY <1>1, AuditCorrect, PTL

(* No gap is missed: what passes the audit without a call of its own is a  *)
(* literal of the two classified paths or the prefix before the parameter  *)
(* of a call.                                                              *)
THEOREM NestedGapsReported == Spec => []NestedReported
<1>1. AuditInv => NestedReported
  <2> SUFFICES ASSUME AuditInv, upstream # <<>>, Head(upstream) = "api",
                      \A i \in DOMAIN upstream : ~is_param(upstream[i]), ~unexpected
               PROVE  \/ Has(upstream)
                      \/ \E p \in Parameters, r \in sdk : IsPrefix(Append(upstream, p), r.path)
                      \/ upstream \in OtherLiterals
    BY DEF NestedReported
  <2> DEFINE q == upstream
  <2>1. /\ q \in Paths /\ Len(q) \in Nat /\ sdk \subseteq API
        /\ lits = collect_sdk_literals(sdk) /\ lacks = missing_reasons(q, lits) /\ q # <<>>
    BY UpstreamIsPath DEF AuditInv
  <2>2. DOMAIN q = 1..Len(q) /\ q[1] = "api"
    BY <2>1 DEF Paths
  <2>3. \A i \in 1..Len(q) : ~is_param(q[i])
    BY <2>2
  <2>4. q \notin KNOWN_ALIASES
    <3>1. \A a, b, c : <<a>>[1] = a /\ <<a, b, c>>[1] = a
      OBVIOUS
    <3> HIDE DEF q
    <3> QED
      BY <2>2, <3>1 DEF KNOWN_ALIASES
  <2>5. lacks = {}
    BY <2>4 DEF unexpected
  <2> HIDE DEF q
  <2>6. split_endpoint(q).prefix = q
    BY <2>1, <2>3, FixedSplit
  <2>7. q \in lits
    BY <2>1, <2>5, <2>6 DEF missing_reasons
  <2>8. CASE q \in OtherLiterals
    BY <2>8 DEF q
  <2>9. CASE \E r \in sdk : q = r.path
    <3>1. PICK r \in sdk : q = r.path
      BY <2>9
    <3>2. SameShape(r.path, q)
      BY <3>1 DEF SameShape
    <3> QED
      BY <3>1, <3>2 DEF Has, q
  <2>10. CASE \E r \in sdk : \E i \in 1..Len(r.path) :
                 is_param(r.path[i]) /\ q = SubSeq(r.path, 1, i - 1)
    <3>1. PICK r \in sdk : \E i \in 1..Len(r.path) :
             is_param(r.path[i]) /\ q = SubSeq(r.path, 1, i - 1)
      BY <2>10
    <3> DEFINE p == r.path
    <3>2. p \in Paths
      BY <2>1, CallPaths
    <3>3. PICK i \in 1..Len(p) : is_param(p[i]) /\ q = SubSeq(p, 1, i - 1)
      BY <3>1
    <3> HIDE DEF p
    <3>4. \A T : \A v \in Seq(T) : \A k \in 1..Len(v) :
             /\ Append(SubSeq(v, 1, k - 1), v[k]) = SubSeq(v, 1, k)
             /\ Len(SubSeq(v, 1, k)) = k /\ k <= Len(v)
      OBVIOUS
    <3>5. Append(q, p[i]) = SubSeq(p, 1, i) /\ Len(SubSeq(p, 1, i)) = i /\ i <= Len(p)
      BY <3>2, <3>3, <3>4 DEF Paths
    <3>6. SubSeq(SubSeq(p, 1, i), 1, i) = SubSeq(p, 1, i)
      <4>1. \A T : \A v \in Seq(T) : SubSeq(v, 1, Len(v)) = v
        OBVIOUS
      <4>2. \A T : \A v \in Seq(T) : \A k \in 1..Len(v) : SubSeq(v, 1, k) \in Seq(T)
        OBVIOUS
      <4>3. SubSeq(p, 1, i) \in Seq(Segments)
        BY <3>2, <3>3, <4>2 DEF Paths
      <4> QED
        BY <3>5, <4>1, <4>3
    <3>7. IsPrefix(Append(q, p[i]), p)
      BY <3>5, <3>6 DEF IsPrefix
    <3> QED
      BY <3>3, <3>7 DEF is_param, p, q
  <2>11. ~(q = <<>>) /\ ~(q # <<>> /\ q[1] # "api")
    BY <2>1, <2>2
  <2> QED
    BY <2>1, <2>7, <2>8, <2>9, <2>10, <2>11, LiteralsSpelled
<1> QED
  BY <1>1, AuditCorrect, PTL

(* Two calls of the same method and length differ in a word, whatever the  *)
(* names of files, routes, users and codes are.                            *)
THEOREM CallsKeepApart == Spec => []CallsStayApart
<1>1. AuditInv => CallsStayApart
  <2> SUFFICES ASSUME AuditInv, NEW r \in sdk, NEW s \in sdk, r # s,
                      r.method = s.method, Len(r.path) = Len(s.path)
               PROVE  \E i \in DOMAIN r.path :
                         /\ r.path[i] # s.path[i]
                         /\ {r.path[i], s.path[i]} \cap Parameters = {}
    BY DEF CallsStayApart
  <2>1. r \in API /\ s \in API
    BY DEF AuditInv
  <2>2. DOMAIN r.path = 1..Len(r.path) /\ Len(r.path) \in Nat
    BY <2>1, CallPaths DEF Paths
  <2>3. ~Clash(r, s)
    BY <2>1, CallsAreDistinct
  <2>4. PICK i \in 1..4 : ~MayAgree(SegmentAt(r.path, i), SegmentAt(s.path, i))
    BY <2>3 DEF Clash, Verb, Route, Size
  <2>5. i <= Len(r.path)
    BY <2>4 DEF MayAgree, SegmentAt
  <2>6. i \in DOMAIN r.path
    BY <2>2, <2>5
  <2> QED
    BY <2>4, <2>5, <2>6 DEF MayAgree, SegmentAt, is_param
<1> QED
  BY <1>1, AuditCorrect, PTL
=============================================================================
