---------------------------- MODULE Chat_proofs ----------------------------
(***************************************************************************)
(* Proofs about Chat and the reading of streams, for any lines, streams of *)
(* any length and any requests.                                            *)
(***************************************************************************)
EXTENDS TLAPS, Chat, DataInduction, FiniteSetTheorems

-----------------------------------------------------------------------------
(* Joining and counting                                                    *)

(* A sequence of sequences is flattened from its first to its last.        *)
Joins(f, s) ==
    /\ DOMAIN f = 1..Len(s)
    /\ f[1] = s[1]
    /\ \A i \in 1..Len(s) : i < Len(s) => f[i + 1] = f[i] \o s[i + 1]

(* The recursion by which FlattenSeq joins has a solution.                 *)
LEMMA JoinsExist ==
    ASSUME NEW X, NEW s \in Seq(Seq(X)), s # <<>>
    PROVE  \E f : f = [i \in 1..Len(s) |-> IF i = 1 THEN s[i] ELSE f[i - 1] \o s[i]]
<1>0. Len(s) \in Nat /\ Len(s) >= 1 /\ \A i \in 1..Len(s) : s[i] \in Seq(X)
  OBVIOUS
<1> DEFINE T == Seq(X)
           g == [n \in Nat |-> [t \in T |-> IF n + 2 <= Len(s) THEN t \o s[n + 2] ELSE t]]
<1>1. g \in [Nat -> [T -> T]]
  <2> SUFFICES ASSUME NEW n \in Nat, NEW t \in T
               PROVE  (IF n + 2 <= Len(s) THEN t \o s[n + 2] ELSE t) \in T
    BY Zenon
  <2>2. CASE n + 2 <= Len(s)
    <3>1. s[n + 2] \in Seq(X)
      BY <1>0, <2>2
    <3> QED
      BY <2>2, <3>1
  <2> QED
    BY <2>2
<1>g. ASSUME NEW i \in 1..Len(s), NEW n \in Nat, i = n + 2, NEW t \in T
      PROVE  g[n][t] = t \o s[i]
  BY <1>0, <1>g
<1>a. s[1] \in T
  BY <1>0
<1> HIDE DEF g, T
<1>h. PICK h \in [Nat -> T] : Recurs(s[1], g, h)
  BY <1>1, <1>a, Recursion
<1>2. h[0] = s[1] /\ \A n \in Nat : h[n + 1] = g[n][h[n]]
  BY <1>h DEF Recurs
<1> DEFINE f == [i \in 1..Len(s) |-> h[i - 1]]
<1>3. ASSUME NEW i \in 1..Len(s), i # 1 PROVE f[i] = f[i - 1] \o s[i]
  <2>1. i - 2 \in Nat /\ (i - 2) + 1 = i - 1 /\ (i - 2) + 2 = i
    BY <1>0, <1>3
  <2>2. h[i - 1] = g[i - 2][h[i - 2]] /\ h[i - 2] \in T
    BY <1>2, <2>1
  <2>3. h[i - 1] = h[i - 2] \o s[i]
    <3>1. g[i - 2][h[i - 2]] = h[i - 2] \o s[i]
      BY <1>g, <2>1, <2>2
    <3> QED
      BY <2>2, <3>1
  <2>4. f[i] = h[i - 1] /\ f[i - 1] = h[i - 2]
    BY <1>0, <1>3
  <2> QED
    BY <2>3, <2>4
<1>4. f[1] = s[1]
  BY <1>0, <1>2
<1>5. DOMAIN f = 1..Len(s) /\ f = [i \in 1..Len(s) |-> f[i]]
  OBVIOUS
<1> HIDE DEF f
<1>6. f = [i \in 1..Len(s) |-> IF i = 1 THEN s[i] ELSE f[i - 1] \o s[i]]
  BY <1>3, <1>4, <1>5
<1> QED
  BY <1>6

(* FlattenSeq is the last of the joined sequences.                         *)
LEMMA FlattenJoins ==
    ASSUME NEW X, NEW s \in Seq(Seq(X)), s # <<>>
    PROVE  \E f : Joins(f, s) /\ FlattenSeq(s) = f[Len(s)]
<1> DEFINE f == CHOOSE f : f = [i \in 1..Len(s) |-> IF i = 1 THEN s[i] ELSE f[i - 1] \o s[i]]
<1>1. f = [i \in 1..Len(s) |-> IF i = 1 THEN s[i] ELSE f[i - 1] \o s[i]]
  BY JoinsExist
<1>2. Len(s) # 0
  OBVIOUS
<1>3. FlattenSeq(s) = f[Len(s)]
  BY <1>2 DEF FlattenSeq
<1> HIDE DEF f
<1>4. Len(s) \in Nat /\ Len(s) >= 1 /\ DOMAIN f = 1..Len(s)
  BY <1>1
<1>5. f[1] = s[1]
  BY <1>1, <1>4
<1>6. ASSUME NEW i \in 1..Len(s), i < Len(s) PROVE f[i + 1] = f[i] \o s[i + 1]
  <2>1. i + 1 \in 1..Len(s) /\ i + 1 # 1 /\ (i + 1) - 1 = i
    BY <1>4, <1>6
  <2> QED
    BY <1>1, <2>1
<1> QED
  BY <1>3, <1>4, <1>5, <1>6 DEF Joins

(* Joining gives a sequence at every step.                                 *)
LEMMA JoinsTyped ==
    ASSUME NEW X, NEW s \in Seq(Seq(X)), NEW f, Joins(f, s)
    PROVE  \A i \in 1..Len(s) : f[i] \in Seq(X)
<1> DEFINE S == {n \in Nat : n \in 1..Len(s) => f[n] \in Seq(X)}
<1>0. Len(s) \in Nat /\ \A i \in 1..Len(s) : s[i] \in Seq(X)
  OBVIOUS
<1>1. 0 \in S
  OBVIOUS
<1>2. ASSUME NEW n \in Nat, n \in S PROVE n + 1 \in S
  <2> SUFFICES ASSUME n + 1 \in 1..Len(s) PROVE f[n + 1] \in Seq(X)
    OBVIOUS
  <2>1. s[n + 1] \in Seq(X)
    BY <1>0
  <2>2. CASE n = 0
    BY <2>1, <2>2 DEF Joins
  <2>3. CASE n # 0
    <3>1. n \in 1..Len(s) /\ n < Len(s)
      BY <1>0, <2>3
    <3>2. f[n] \in Seq(X) /\ f[n + 1] = f[n] \o s[n + 1]
      BY <1>2, <3>1 DEF Joins
    <3> QED
      BY <2>1, <3>2
  <2> QED
    BY <2>2, <2>3
<1> HIDE DEF S
<1>3. \A n \in Nat : n \in S
  BY <1>1, <1>2, Induction
<1> QED
  BY <1>3 DEF S

SameUpTo(s, t, n) == \A i \in 1..n : s[i] = t[i]

(* Joining a longer sequence begins like joining a shorter one.            *)
LEMMA JoinsAgree ==
    ASSUME NEW s, NEW t, NEW n \in Nat, Len(s) \in Nat, Len(t) \in Nat,
           n <= Len(s), n <= Len(t),
           SameUpTo(s, t, n), NEW f, NEW g, Joins(f, s), Joins(g, t)
    PROVE  SameUpTo(f, g, n)
<1> DEFINE S == {k \in Nat : k \in 1..n => f[k] = g[k]}
<1>1. 0 \in S
  OBVIOUS
<1>2. ASSUME NEW k \in Nat, k \in S PROVE k + 1 \in S
  <2> SUFFICES ASSUME k + 1 \in 1..n PROVE f[k + 1] = g[k + 1]
    OBVIOUS
  <2>1. s[k + 1] = t[k + 1]
    BY DEF SameUpTo
  <2>2. CASE k = 0
    BY <2>1, <2>2 DEF Joins
  <2>3. CASE k # 0
    <3>1. k \in 1..n /\ k \in 1..Len(s) /\ k < Len(s) /\ k \in 1..Len(t) /\ k < Len(t)
      BY <2>3
    <3>2. f[k] = g[k]
      BY <1>2, <3>1
    <3>3. f[k + 1] = f[k] \o s[k + 1] /\ g[k + 1] = g[k] \o t[k + 1]
      BY <3>1 DEF Joins
    <3> QED
      BY <2>1, <3>2, <3>3
  <2> QED
    BY <2>2, <2>3
<1> HIDE DEF S
<1>3. \A k \in Nat : k \in S
  BY <1>1, <1>2, Induction
<1> QED
  BY <1>3 DEF S, SameUpTo

(* What FlattenSeq does to the sequences that Append makes.                *)
LEMMA FlattenedAppend ==
    ASSUME NEW X, NEW s \in Seq(Seq(X)), NEW x \in Seq(X)
    PROVE  /\ FlattenSeq(s) \in Seq(X)
           /\ FlattenSeq(Append(s, x)) = FlattenSeq(s) \o x
<1> DEFINE t == Append(s, x)
<1>1. /\ t \in Seq(Seq(X)) /\ Len(s) \in Nat /\ Len(t) = Len(s) + 1
      /\ t[Len(s) + 1] = x /\ \A i \in 1..Len(s) : s[i] = t[i]
  OBVIOUS
<1> HIDE DEF t
<1>2. t # <<>>
  BY <1>1
<1>3. PICK g : Joins(g, t) /\ FlattenSeq(t) = g[Len(t)]
  BY <1>1, <1>2, FlattenJoins
<1>4. CASE s = <<>>
  <2>1. FlattenSeq(s) = <<>>
    BY <1>4 DEF FlattenSeq
  <2>2. Len(t) = 1 /\ t[1] = x
    BY <1>1, <1>4
  <2>3. g[1] = x
    BY <1>3, <2>2 DEF Joins
  <2> QED
    BY <1>3, <2>1, <2>2, <2>3 DEF t
<1>5. CASE s # <<>>
  <2>1. PICK f : Joins(f, s) /\ FlattenSeq(s) = f[Len(s)]
    BY <1>5, FlattenJoins
  <2>2. Len(s) \in 1..Len(s) /\ Len(s) <= Len(t) /\ Len(t) # 1
    BY <1>1, <1>5
  <2>3. f[Len(s)] = g[Len(s)]
    <3>0. /\ Len(s) \in Nat /\ Len(t) \in Nat
          /\ Len(s) <= Len(s) /\ Len(s) <= Len(t)
          /\ SameUpTo(s, t, Len(s))
          /\ Joins(f, s) /\ Joins(g, t)
      BY <1>1, <1>3, <2>1, <2>2 DEF SameUpTo
    <3>1. SameUpTo(f, g, Len(s))
      BY <3>0, JoinsAgree
    <3> QED
      BY <2>2, <3>1 DEF SameUpTo
  <2>4. g[Len(t)] = g[Len(s)] \o x
    <3>1. Len(s) \in 1..Len(t) /\ Len(s) < Len(t)
      BY <1>1, <2>2
    <3>2. g[Len(s) + 1] = g[Len(s)] \o t[Len(s) + 1]
      BY <1>3, <3>1 DEF Joins
    <3> QED
      BY <1>1, <3>2
  <2>5. f[Len(s)] \in Seq(X)
    BY <2>1, <2>2, JoinsTyped
  <2> QED
    BY <1>3, <2>1, <2>3, <2>4, <2>5 DEF t
<1> QED
  BY <1>4, <1>5

(* E is a set of places in a stream of N lines, its end included or not.   *)
Places(E, N) == E \subseteq 1..N

(* Counting the numbers of a set one by one.                               *)
LEMMA RankSteps ==
    ASSUME NEW N \in Nat, NEW E, Places(E, N)
    PROVE  /\ Rank(E, 0) = 0
           /\ \A n \in Nat : Rank(E, n) \in Nat
           /\ \A n \in Nat : Rank(E, n + 1) = IF n + 1 \in E THEN Rank(E, n) + 1 ELSE Rank(E, n)
           /\ Rank(E, N) = Cardinality(E)
           /\ \A n \in Nat : Rank(E, n) <= Cardinality(E)
<1>0. \A i \in E : i \in Nat /\ i >= 1 /\ i <= N
  BY DEF Places
<1>1. IsFiniteSet(E)
  <2>1. IsFiniteSet(1..N)
    BY FS_Interval
  <2> QED
    BY <2>1, FS_Subset DEF Places
<1>2. \A n \in Nat : IsFiniteSet({e \in E : e <= n})
  BY <1>1, FS_Subset
<1>3. {e \in E : e <= 0} = {}
  BY <1>0
<1>4. {e \in E : e <= N} = E
  BY <1>0
<1>5. ASSUME NEW n \in Nat
      PROVE  Rank(E, n + 1) = IF n + 1 \in E THEN Rank(E, n) + 1 ELSE Rank(E, n)
  <2>1. CASE n + 1 \in E
    <3>1. {e \in E : e <= n + 1} = {e \in E : e <= n} \cup {n + 1}
      BY <1>0, <2>1
    <3>2. n + 1 \notin {e \in E : e <= n}
      OBVIOUS
    <3> QED
      BY <1>2, <2>1, <3>1, <3>2, FS_AddElement DEF Rank
  <2>2. CASE n + 1 \notin E
    <3>1. {e \in E : e <= n + 1} = {e \in E : e <= n}
      BY <1>0, <2>2
    <3> QED
      BY <2>2, <3>1 DEF Rank
  <2> QED
    BY <2>1, <2>2
<1>6. Rank(E, 0) = 0
  BY <1>3, FS_EmptySet DEF Rank
<1>7. \A n \in Nat : Rank(E, n) \in Nat
  BY <1>2, FS_CardinalityType DEF Rank
<1>8. \A n \in Nat : Rank(E, n) <= Cardinality(E)
  BY <1>1, FS_Subset DEF Rank
<1> QED
  BY <1>4, <1>5, <1>6, <1>7, <1>8 DEF Rank

(* A number of the set is the one of its rank.                             *)
LEMMA NthOfRank ==
    ASSUME NEW N \in Nat, NEW E, Places(E, N), NEW e \in E
    PROVE  Nth(E, Rank(E, e)) = e
<1>0. \A i \in E : i \in Nat /\ i >= 1 /\ i <= N
  BY DEF Places
<1>1. ASSUME NEW a \in E, NEW b \in E, a < b PROVE Rank(E, a) # Rank(E, b)
  <2>1. IsFiniteSet({i \in E : i <= b})
    <3>1. IsFiniteSet(1..N)
      BY FS_Interval
    <3>2. {i \in E : i <= b} \in SUBSET (1..N)
      BY <1>0
    <3> QED
      BY <3>1, <3>2, FS_Subset
  <2>2. {i \in E : i <= a} \in SUBSET {i \in E : i <= b}
    BY <1>0, <1>1
  <2>3. b \in {i \in E : i <= b} /\ b \notin {i \in E : i <= a}
    BY <1>0, <1>1
  <2>4. {i \in E : i <= b} # {i \in E : i <= a}
    BY <2>3
  <2> QED
    BY <2>1, <2>2, <2>4, FS_Subset DEF Rank
<1>2. ASSUME NEW a \in E, Rank(E, a) = Rank(E, e) PROVE a = e
  BY <1>0, <1>1, <1>2
<1> QED
  BY <1>2 DEF Nth

-----------------------------------------------------------------------------
(* Streams                                                                 *)

(* Only the last line of a stream that broke is not whole.                 *)
Broken(s) ==
    /\ Len(s.lines) \in Nat
    /\ s.ending \in Ending
    /\ \A i \in 1..Len(s.lines) :
          ~s.lines[i].whole => i = Len(s.lines) /\ s.ending = "error"

(* A line of a stream that has not broken yet is whole.                    *)
LEMMA WholeLines == \A l \in Lines : l.whole
  BY DEF Lines, Line

(* A document has no broken line.                                          *)
LEMMA DocumentBroken == Broken(Document)
<1>1. Document.lines = <<Line("other", <<>>, TRUE)>> /\ Document.ending = "eof"
  BY DEF Document
<1>2. Len(Document.lines) = 1
  BY <1>1
<1>3. Document.lines[1].whole
  BY <1>1 DEF Line
<1>4. \A i \in 1..Len(Document.lines) : Document.lines[i].whole
  BY <1>2, <1>3
<1> QED
  BY <1>1, <1>2, <1>4 DEF Broken, Ending

(* Every stream breaks at its last line, if it breaks at all.              *)
LEMMA StreamsBroken == \A s \in Streams : Broken(s)
<1>1. ASSUME NEW n \in Nat, NEW t \in [1..n -> Lines] PROVE t \in Seq(Lines) /\ Len(t) = n
  OBVIOUS
<1>2. ASSUME NEW t \in LineSeqs
      PROVE t \in Seq(Lines) /\ Len(t) \in Nat /\ \A i \in 1..Len(t) : t[i].whole
  <2>1. PICK n \in 0..MaxLines : t \in [1..n -> Lines]
    BY DEF LineSeqs
  <2>2. n \in Nat
    BY <2>1, StreamAssumption
  <2>3. t \in Seq(Lines) /\ Len(t) = n
    BY <1>1, <2>1, <2>2
  <2> QED
    BY <2>1, <2>2, <2>3, WholeLines
<1>3. ASSUME NEW t \in LineSeqs, NEW e \in Ending, NEW s, s = [lines |-> t, ending |-> e]
      PROVE  Broken(s)
  BY <1>2, <1>3 DEF Broken
<1>4. ASSUME NEW t \in LineSeqs, NEW l, NEW s, s = [lines |-> Append(t, l), ending |-> "error"]
      PROVE  Broken(s)
  <2>1. /\ Len(Append(t, l)) = Len(t) + 1
        /\ \A i \in 1..Len(t) : Append(t, l)[i] = t[i]
    BY <1>2
  <2> QED
    BY <1>2, <1>4, <2>1 DEF Broken, Ending
<1> QED
  BY <1>3, <1>4 DEF Streams

-----------------------------------------------------------------------------
(* The parser                                                              *)

IsSeq(s) == \E S : s \in Seq(S)

(* What Append does to a sequence, whatever its elements are.              *)
LEMMA Appended ==
    ASSUME NEW s, IsSeq(s), NEW x
    PROVE  /\ IsSeq(Append(s, x))
           /\ Len(s) \in Nat
           /\ Len(Append(s, x)) = Len(s) + 1
           /\ \A k \in 1..Len(s) : Append(s, x)[k] = s[k]
           /\ Append(s, x)[Len(s) + 1] = x
<1>1. PICK S : s \in Seq(S)
  BY DEF IsSeq
<1>2. s \in Seq(S \cup {x}) /\ x \in S \cup {x}
  BY <1>1
<1>3. Append(s, x) \in Seq(S \cup {x})
  BY <1>2
<1> QED
  BY <1>2, <1>3 DEF IsSeq

(* A stream with lines that hold text.                                     *)
Worded(s) ==
    /\ Len(s.lines) \in Nat
    /\ \A i \in 1..Len(s.lines) : s.lines[i].value \in Seq(Tokens)

(* Every stream, and a document taken for one, is worded.                  *)
LEMMA StreamsWorded == \A s \in Streams \cup {Document} : Worded(s)
<1>0. <<>> \in Seq(Tokens)
  OBVIOUS
<1>1. \A l \in Lines \cup BrokenLines : l.value \in Seq(Tokens)
  <2>1. \A k, v, w : Line(k, v, w).value = v
    BY DEF Line
  <2>2. \A v \in Values : v \in Seq(Tokens)
    BY StreamAssumption
  <2>3. ASSUME NEW l \in Lines \cup BrokenLines
        PROVE  \E k, w : \E v \in Values \cup {<<>>} : l = Line(k, v, w)
    BY <2>3 DEF Lines, BrokenLines
  <2>4. \A v \in Values \cup {<<>>} : v \in Seq(Tokens)
    BY <1>0, <2>2
  <2> SUFFICES ASSUME NEW l \in Lines \cup BrokenLines PROVE l.value \in Seq(Tokens)
    OBVIOUS
  <2>5. PICK v \in Values \cup {<<>>} : \E k, w : l = Line(k, v, w)
    BY <2>3
  <2>6. l.value = v
    BY <2>1, <2>5
  <2> QED
    BY <2>4, <2>5, <2>6
<1>2. ASSUME NEW n \in Nat, NEW t \in [1..n -> Lines] PROVE t \in Seq(Lines) /\ Len(t) = n
  OBVIOUS
<1>3. ASSUME NEW t \in LineSeqs PROVE t \in Seq(Lines) /\ Len(t) \in Nat
  <2>1. PICK n \in 0..MaxLines : t \in [1..n -> Lines]
    BY DEF LineSeqs
  <2>2. n \in Nat
    BY <2>1, StreamAssumption
  <2> QED
    BY <1>2, <2>1, <2>2
<1>4. ASSUME NEW t \in LineSeqs, NEW x \in Ending, NEW s, s = [lines |-> t, ending |-> x]
      PROVE  Worded(s)
  <2>1. \A i \in 1..Len(t) : t[i] \in Lines
    BY <1>3
  <2> QED
    BY <1>1, <1>3, <1>4, <2>1 DEF Worded
<1>5. ASSUME NEW t \in LineSeqs, NEW l \in BrokenLines, NEW s,
             s = [lines |-> Append(t, l), ending |-> "error"]
      PROVE  Worded(s)
  <2>1. /\ Len(Append(t, l)) = Len(t) + 1
        /\ \A i \in 1..Len(t) : Append(t, l)[i] = t[i] /\ t[i] \in Lines
        /\ Append(t, l)[Len(t) + 1] = l
    BY <1>3
  <2>2. \A i \in 1..Len(Append(t, l)) : Append(t, l)[i] \in Lines \cup BrokenLines
    BY <1>3, <2>1
  <2> QED
    BY <1>1, <1>3, <1>5, <2>1, <2>2 DEF Worded
<1>6. Worded(Document)
  <2>1. Document.lines = <<Line("other", <<>>, TRUE)>>
    BY DEF Document
  <2>2. Len(Document.lines) = 1 /\ Document.lines[1] = Line("other", <<>>, TRUE)
    BY <2>1
  <2>3. Document.lines[1].value = <<>>
    BY <2>2 DEF Line
  <2>4. \A i \in 1..Len(Document.lines) : i = 1
    BY <2>2
  <2>5. Len(Document.lines) \in Nat
    BY <2>2
  <2>6. \A i \in 1..Len(Document.lines) : Document.lines[i].value \in Seq(Tokens)
    BY <1>0, <2>3, <2>4
  <2> QED
    BY <2>5, <2>6 DEF Worded
<1> QED
  BY <1>4, <1>5, <1>6 DEF Streams

(* An event grows by its data lines, and a blank line leaves none.         *)
LEMMA EventSteps ==
    ASSUME NEW s, NEW e \in Nat, e > 0
    PROVE  /\ EventAt(s, 1) = {}
           /\ Says(s, e, {"blank"}) => EventAt(s, e + 1) = {}
           /\ Says(s, e, {"data", "bare"}) => EventAt(s, e + 1) = EventAt(s, e) \cup {e}
           /\ ~Says(s, e, {"data", "bare", "blank"}) => EventAt(s, e + 1) = EventAt(s, e)
<1>1. EventAt(s, 1) = {}
  BY DEF EventAt
<1>2. ASSUME Says(s, e, {"blank"}) PROVE EventAt(s, e + 1) = {}
  <2>1. ~Says(s, e, {"data", "bare"})
    BY <1>2 DEF Says
  <2>2. ASSUME NEW j \in 1..e, Says(s, j, {"data", "bare"}) PROVE e \in j + 1..e
    BY <2>1, <2>2
  <2>3. \A j \in 1..e : ~(/\ Says(s, j, {"data", "bare"})
                          /\ \A i \in j + 1..e : ~Says(s, i, {"blank"}))
    BY <1>2, <2>2
  <2>4. (e + 1) - 1 = e
    OBVIOUS
  <2> QED
    BY <2>3, <2>4 DEF EventAt
<1>3. ASSUME ~Says(s, e, {"blank"}), NEW j \in 1..e - 1
      PROVE  (\A i \in j + 1..e : ~Says(s, i, {"blank"}))
               <=> \A i \in j + 1..e - 1 : ~Says(s, i, {"blank"})
  <2>1. \A i \in j + 1..e : i \in j + 1..e - 1 \/ i = e
    OBVIOUS
  <2>2. \A i \in j + 1..e - 1 : i \in j + 1..e
    OBVIOUS
  <2> QED
    BY <1>3, <2>1, <2>2
<1>4. \A j : j \in 1..e <=> j \in 1..e - 1 \/ j = e
  OBVIOUS
<1>5. (e + 1) - 1 = e /\ \A i : i \notin e + 1..e
  OBVIOUS
<1>6. ASSUME Says(s, e, {"data", "bare"}) PROVE EventAt(s, e + 1) = EventAt(s, e) \cup {e}
  <2>1. ~Says(s, e, {"blank"})
    BY <1>6 DEF Says
  <2>2. ASSUME NEW j PROVE j \in EventAt(s, e + 1) <=> j \in EventAt(s, e) \cup {e}
    <3>1. CASE j = e
      BY <1>4, <1>5, <1>6, <3>1 DEF EventAt
    <3>2. CASE j # e
      BY <1>3, <1>4, <1>5, <2>1, <3>2 DEF EventAt
    <3> QED
      BY <3>1, <3>2
  <2> QED
    BY <2>2
<1>7. ASSUME ~Says(s, e, {"data", "bare", "blank"}) PROVE EventAt(s, e + 1) = EventAt(s, e)
  <2>1. ~Says(s, e, {"blank"}) /\ ~Says(s, e, {"data", "bare"})
    BY <1>7 DEF Says
  <2>2. ASSUME NEW j PROVE j \in EventAt(s, e + 1) <=> j \in EventAt(s, e)
    BY <1>3, <1>4, <1>5, <2>1 DEF EventAt
  <2> QED
    BY <2>2
<1> QED
  BY <1>1, <1>2, <1>6, <1>7

(* The pieces of the lines up to e, one behind the other.                  *)
LEMMA PiecesTyped ==
    ASSUME NEW s, Worded(s), NEW e \in 1..Len(s.lines) + 1
    PROVE  /\ Pieces(s, e) \in Seq(Seq(Tokens))
           /\ Len(Pieces(s, e)) = e - 1
           /\ \A j \in 1..e - 1 :
                 Pieces(s, e)[j] = IF j \in EventAt(s, e) THEN <<NewLine>> \o s.lines[j].value
                                                          ELSE <<>>
<1>0. Len(s.lines) \in Nat /\ e \in Nat /\ e - 1 \in Nat /\ 1..e - 1 \subseteq 1..Len(s.lines)
  BY DEF Worded
<1>1. ASSUME NEW j \in 1..e - 1
      PROVE  (IF j \in EventAt(s, e) THEN <<NewLine>> \o s.lines[j].value ELSE <<>>) \in Seq(Tokens)
  <2>1. s.lines[j].value \in Seq(Tokens) /\ <<NewLine>> \in Seq(Tokens) /\ <<>> \in Seq(Tokens)
    BY <1>0, StreamAssumption DEF Worded
  <2>2. <<NewLine>> \o s.lines[j].value \in Seq(Tokens)
    BY <2>1
  <2> QED
    BY <2>1, <2>2
<1> DEFINE p(j) == IF j \in EventAt(s, e) THEN <<NewLine>> \o s.lines[j].value ELSE <<>>
<1>2. Pieces(s, e) = [j \in 1..e - 1 |-> p(j)]
  BY DEF Pieces
<1>3. \A j \in 1..e - 1 : p(j) \in Seq(Tokens)
  BY <1>1
<1>4. \A j \in 1..e - 1 : Pieces(s, e)[j] = p(j)
  BY <1>2
<1>5. Pieces(s, e) \in [1..e - 1 -> Seq(Tokens)]
  <2> HIDE DEF p
  <2> QED
    BY <1>2, <1>3
<1>6. ASSUME NEW T, NEW n \in Nat, NEW q \in [1..n -> T] PROVE q \in Seq(T) /\ Len(q) = n
  OBVIOUS
<1>7. Pieces(s, e) \in Seq(Seq(Tokens)) /\ Len(Pieces(s, e)) = e - 1
  BY <1>0, <1>5, <1>6
<1> QED
  BY <1>4, <1>7

(* What the lines up to e have said of the event at hand.                  *)
Gathered(s, e) == FlattenSeq(Pieces(s, e))

(* Two sequences with the same elements are the same.                      *)
LEMMA SameSequence ==
    ASSUME NEW T, NEW p \in Seq(T), NEW q \in Seq(T), Len(p) = Len(q),
           SameUpTo(p, q, Len(p))
    PROVE  p = q
  BY DEF SameUpTo

(* A data line is one more piece, a line between data lines none.          *)
LEMMA PiecesSteps ==
    ASSUME NEW s, Worded(s), NEW e \in 1..Len(s.lines)
    PROVE  /\ Says(s, e, {"data", "bare"}) =>
                 Pieces(s, e + 1) = Append(Pieces(s, e), <<NewLine>> \o s.lines[e].value)
           /\ ~Says(s, e, {"data", "bare", "blank"}) =>
                 Pieces(s, e + 1) = Append(Pieces(s, e), <<>>)
<1>0. /\ Len(s.lines) \in Nat /\ e \in Nat /\ e > 0 /\ (e + 1) - 1 = e
      /\ e \in 1..Len(s.lines) + 1 /\ e + 1 \in 1..Len(s.lines) + 1
      /\ e \notin 1..e - 1 /\ \A j \in 1..e : j \in 1..e - 1 \/ j = e
      /\ (e - 1) + 1 = e /\ e \in 1..e
  BY DEF Worded
<1> DEFINE P == Pieces(s, e)
           Q == Pieces(s, e + 1)
<1>1. /\ P \in Seq(Seq(Tokens)) /\ Len(P) = e - 1
      /\ \A j \in 1..e - 1 :
            P[j] = IF j \in EventAt(s, e) THEN <<NewLine>> \o s.lines[j].value ELSE <<>>
  BY <1>0, PiecesTyped
<1>2. /\ Q \in Seq(Seq(Tokens)) /\ Len(Q) = e
      /\ \A j \in 1..e :
            Q[j] = IF j \in EventAt(s, e + 1) THEN <<NewLine>> \o s.lines[j].value ELSE <<>>
  <2>1. /\ Q \in Seq(Seq(Tokens)) /\ Len(Q) = (e + 1) - 1
        /\ \A j \in 1..(e + 1) - 1 :
              Q[j] = IF j \in EventAt(s, e + 1) THEN <<NewLine>> \o s.lines[j].value ELSE <<>>
    BY <1>0, PiecesTyped
  <2> QED
    BY <1>0, <2>1
<1>3. e \notin EventAt(s, e)
  BY <1>0 DEF EventAt
<1> HIDE DEF P, Q
<1>4. ASSUME NEW x \in Seq(Tokens), Q[e] = x,
             \A j \in 1..e - 1 : j \in EventAt(s, e + 1) <=> j \in EventAt(s, e)
      PROVE  Q = Append(P, x)
  <2> DEFINE R == Append(P, x)
  <2>1. /\ R \in Seq(Seq(Tokens)) /\ Len(R) = (e - 1) + 1 /\ R[(e - 1) + 1] = x
        /\ \A j \in 1..e - 1 : R[j] = P[j]
    BY <1>1
  <2>2. Len(R) = e /\ R[e] = x
    BY <1>0, <2>1
  <2> HIDE DEF R
  <2>3. SameUpTo(Q, R, Len(Q))
    <3>1. ASSUME NEW j \in 1..e - 1 PROVE Q[j] = R[j]
      <4>1. j \in 1..e
        BY <1>0
      <4>2. Q[j] = P[j]
        BY <1>1, <1>2, <1>4, <4>1
      <4> QED
        BY <2>1, <4>2
    <3> QED
      BY <1>0, <1>2, <1>4, <2>2, <3>1 DEF SameUpTo
  <2>4. Q = R
    BY <1>2, <2>1, <2>2, <2>3, SameSequence
  <2> QED
    BY <2>4 DEF R
<1>5. ASSUME Says(s, e, {"data", "bare"})
      PROVE  Q = Append(P, <<NewLine>> \o s.lines[e].value)
  <2>1. EventAt(s, e + 1) = EventAt(s, e) \cup {e}
    BY <1>0, <1>5, EventSteps
  <2>2. <<NewLine>> \o s.lines[e].value \in Seq(Tokens)
    <3>1. <<NewLine>> \in Seq(Tokens) /\ s.lines[e].value \in Seq(Tokens)
      BY StreamAssumption DEF Worded
    <3> QED
      BY <3>1
  <2>3. Q[e] = <<NewLine>> \o s.lines[e].value
    BY <1>0, <1>2, <2>1
  <2> QED
    BY <1>0, <1>4, <2>1, <2>2, <2>3
<1>6. ASSUME ~Says(s, e, {"data", "bare", "blank"}) PROVE Q = Append(P, <<>>)
  <2>1. EventAt(s, e + 1) = EventAt(s, e)
    BY <1>0, <1>6, EventSteps
  <2>2. <<>> \in Seq(Tokens) /\ Q[e] = <<>>
    BY <1>0, <1>2, <1>3, <2>1
  <2> QED
    BY <1>4, <2>1, <2>2
<1> QED
  BY <1>5, <1>6 DEF P, Q

(* Nothing joined is nothing.                                              *)
LEMMA FlattenedNothing ==
    ASSUME NEW X, NEW p \in Seq(Seq(X)), \A j \in 1..Len(p) : p[j] = <<>>
    PROVE  FlattenSeq(p) = <<>>
<1>1. CASE p = <<>>
  BY <1>1 DEF FlattenSeq
<1>2. CASE p # <<>>
  <2>1. PICK f : Joins(f, p) /\ FlattenSeq(p) = f[Len(p)]
    BY <1>2, FlattenJoins
  <2> DEFINE S == {n \in Nat : n \in 1..Len(p) => f[n] = <<>>}
  <2>2. 0 \in S
    OBVIOUS
  <2>3. ASSUME NEW n \in Nat, n \in S PROVE n + 1 \in S
    <3> SUFFICES ASSUME n + 1 \in 1..Len(p) PROVE f[n + 1] = <<>>
      OBVIOUS
    <3>1. p[n + 1] = <<>>
      OBVIOUS
    <3>2. CASE n = 0
      BY <2>1, <3>1, <3>2 DEF Joins
    <3>3. CASE n # 0
      <4>1. n \in 1..Len(p) /\ n < Len(p)
        BY <3>3
      <4>2. f[n] = <<>> /\ f[n + 1] = f[n] \o p[n + 1]
        BY <2>1, <2>3, <4>1 DEF Joins
      <4> QED
        BY <3>1, <4>2
    <3> QED
      BY <3>2, <3>3
  <2> HIDE DEF S
  <2>4. \A n \in Nat : n \in S
    BY <2>2, <2>3, Induction
  <2>5. Len(p) \in Nat /\ Len(p) \in 1..Len(p)
    BY <1>2
  <2> QED
    BY <2>1, <2>4, <2>5 DEF S
<1> QED
  BY <1>1, <1>2

(* A data line adds its text behind a NewLine, other lines nothing.        *)
LEMMA GatheredSteps ==
    ASSUME NEW s, Worded(s), NEW e \in 1..Len(s.lines)
    PROVE  /\ Gathered(s, e) \in Seq(Tokens)
           /\ Says(s, e, {"data", "bare"}) =>
                 Gathered(s, e + 1) = Gathered(s, e) \o (<<NewLine>> \o s.lines[e].value)
           /\ ~Says(s, e, {"data", "bare", "blank"}) => Gathered(s, e + 1) = Gathered(s, e)
<1>0. e \in 1..Len(s.lines) + 1 /\ <<NewLine>> \in Seq(Tokens) /\ <<>> \in Seq(Tokens)
      /\ s.lines[e].value \in Seq(Tokens)
  BY StreamAssumption DEF Worded
<1> DEFINE P == Pieces(s, e)
<1>1. P \in Seq(Seq(Tokens))
  BY <1>0, PiecesTyped
<1>2. <<NewLine>> \o s.lines[e].value \in Seq(Tokens)
  BY <1>0
<1>3. FlattenSeq(P) \in Seq(Tokens)
  BY <1>0, <1>1, FlattenedAppend
<1>4. ASSUME NEW x \in Seq(Tokens) PROVE FlattenSeq(Append(P, x)) = FlattenSeq(P) \o x
  BY <1>1, FlattenedAppend
<1>5. FlattenSeq(P) \o <<>> = FlattenSeq(P)
  BY <1>3
<1> HIDE DEF P
<1>6. ASSUME Says(s, e, {"data", "bare"})
      PROVE  FlattenSeq(Pieces(s, e + 1)) = FlattenSeq(P) \o (<<NewLine>> \o s.lines[e].value)
  BY <1>2, <1>4, <1>6, PiecesSteps DEF P
<1>7. ASSUME ~Says(s, e, {"data", "bare", "blank"})
      PROVE  FlattenSeq(Pieces(s, e + 1)) = FlattenSeq(P)
  BY <1>0, <1>4, <1>5, <1>7, PiecesSteps DEF P
<1> QED
  BY <1>3, <1>6, <1>7 DEF P, Gathered

(* Before its first data line an event has no text.                        *)
LEMMA NothingGathered ==
    ASSUME NEW s, Worded(s), NEW e \in 1..Len(s.lines) + 1, EventAt(s, e) = {}
    PROVE  Gathered(s, e) = <<>>
<1>1. Pieces(s, e) \in Seq(Seq(Tokens)) /\ \A j \in 1..Len(Pieces(s, e)) : Pieces(s, e)[j] = <<>>
  BY PiecesTyped
<1> QED
  BY <1>1, FlattenedNothing DEF Gathered

(* The ends of payloads are places of the stream or the place behind it.   *)
LEMMA EndsPlaced ==
    ASSUME NEW how, NEW s, Worded(s)
    PROVE  Places(Ends(how, s), Len(s.lines) + 1)
  BY DEF Ends, Places, Worded

(* The texts of what was given.                                            *)
Texts(g) == [k \in DOMAIN g |-> g[k].text]

(* One more payload is one more text.                                      *)
LEMMA TextsAppend ==
    ASSUME NEW g, IsSeq(g), NEW p
    PROVE  /\ Len(Texts(g)) = Len(g)
           /\ Texts(Append(g, p)) = Append(Texts(g), p.text)
<1> DEFINE h == Append(g, p)
           T == {g[k].text : k \in DOMAIN g} \cup {p.text}
<1>1. /\ IsSeq(h) /\ Len(g) \in Nat /\ Len(h) = Len(g) + 1
      /\ \A k \in 1..Len(g) : h[k] = g[k]
      /\ h[Len(g) + 1] = p
  BY Appended
<1>2. \A q : IsSeq(q) => DOMAIN q = 1..Len(q)
  BY DEF IsSeq
<1> HIDE DEF h
<1>3. DOMAIN g = 1..Len(g) /\ DOMAIN h = 1..Len(g) + 1
  BY <1>1, <1>2
<1>4. ASSUME NEW U, NEW n \in Nat, NEW q \in [1..n -> U] PROVE q \in Seq(U) /\ Len(q) = n
  OBVIOUS
<1>5. Texts(g) \in [1..Len(g) -> T]
  BY <1>3 DEF Texts
<1>6. Texts(h) \in [1..Len(g) + 1 -> T]
  <2>1. \A k \in 1..Len(g) + 1 : h[k].text \in T
    <3>1. \A k \in 1..Len(g) + 1 : k \in 1..Len(g) \/ k = Len(g) + 1
      BY <1>1
    <3> QED
      BY <1>1, <1>3, <3>1
  <2> HIDE DEF T
  <2> QED
    BY <1>3, <2>1 DEF Texts
<1>7. p.text \in T
  OBVIOUS
<1> HIDE DEF T
<1>8. Texts(g) \in Seq(T) /\ Len(Texts(g)) = Len(g)
  BY <1>1, <1>4, <1>5
<1>9. Texts(h) \in Seq(T) /\ Len(Texts(h)) = Len(g) + 1
  <2>1. Len(g) + 1 \in Nat
    BY <1>1
  <2> QED
    BY <2>1, <1>4, <1>6
<1> DEFINE a == Append(Texts(g), p.text)
<1>10. /\ a \in Seq(T) /\ Len(a) = Len(g) + 1 /\ a[Len(g) + 1] = p.text
       /\ \A k \in 1..Len(g) : a[k] = Texts(g)[k]
  BY <1>1, <1>7, <1>8
<1> HIDE DEF a
<1>11. SameUpTo(Texts(h), a, Len(Texts(h)))
  <2>1. ASSUME NEW k \in 1..Len(g) PROVE Texts(h)[k] = a[k]
    BY <1>1, <1>3, <1>10 DEF Texts
  <2>2. Texts(h)[Len(g) + 1] = a[Len(g) + 1]
    BY <1>1, <1>3, <1>10 DEF Texts
  <2> QED
    BY <1>1, <1>9, <2>1, <2>2 DEF SameUpTo
<1>12. Texts(h) = a
  BY <1>9, <1>10, <1>11, SameSequence
<1> QED
  BY <1>8, <1>12 DEF a, h

(* The payloads that end up to n, and no others, have been given.          *)
Told(g, how, s, n) ==
    /\ Len(g) = Rank(Ends(how, s), n)
    /\ \A k \in 1..Len(g) : g[k].text = TextAt(how, s, Nth(Ends(how, s), k))

(* Before the first line there is nothing to tell.                         *)
LEMMA NothingTold ==
    ASSUME NEW how, NEW s, Worded(s) PROVE Told(<<>>, how, s, 0)
<1>1. Rank(Ends(how, s), 0) = 0
  <2>1. Len(s.lines) + 1 \in Nat
    BY DEF Worded
  <2> QED
    BY <2>1, EndsPlaced, RankSteps
<1> QED
  BY <1>1 DEF Told

(* A line that ends no payload leaves nothing to tell.                     *)
LEMMA NoMoreTold ==
    ASSUME NEW how, NEW s, Worded(s), NEW g, NEW n \in Nat, Told(g, how, s, n),
           n + 1 \notin Ends(how, s)
    PROVE  Told(g, how, s, n + 1)
<1>1. Rank(Ends(how, s), n + 1) = Rank(Ends(how, s), n)
  <2>1. Len(s.lines) + 1 \in Nat
    BY DEF Worded
  <2> QED
    BY <2>1, EndsPlaced, RankSteps
<1> QED
  BY <1>1 DEF Told

(* A line that ends a payload leaves that one to tell.                     *)
LEMMA OneMoreTold ==
    ASSUME NEW how, NEW s, Worded(s), NEW g, IsSeq(g), NEW n \in Nat, Told(g, how, s, n),
           n + 1 \in Ends(how, s), NEW p, p.text = TextAt(how, s, n + 1)
    PROVE  /\ Told(Append(g, p), how, s, n + 1)
           /\ Len(g) < Cardinality(Ends(how, s))
           /\ p.text = TextAt(how, s, Nth(Ends(how, s), Len(g) + 1))
<1> DEFINE E == Ends(how, s)
           N == Len(s.lines) + 1
<1>1. N \in Nat /\ Places(E, N)
  BY EndsPlaced DEF Worded
<1>2. n + 1 \in E
  OBVIOUS
<1> HIDE DEF E, N
<1>3. Rank(E, n) \in Nat /\ Rank(E, n + 1) = Rank(E, n) + 1
  BY <1>1, <1>2, RankSteps
<1>4. Nth(E, Rank(E, n + 1)) = n + 1
  BY <1>1, <1>2, NthOfRank
<1>5. Rank(E, n + 1) <= Cardinality(E) /\ Cardinality(E) \in Nat
  <2>1. Rank(E, N) = Cardinality(E) /\ Rank(E, N) \in Nat
    BY <1>1, RankSteps
  <2>2. \A m \in Nat : Rank(E, m) <= Cardinality(E)
    BY <1>1, RankSteps
  <2> QED
    BY <2>1, <2>2
<1>6. Len(g) = Rank(E, n) /\ \A k \in 1..Len(g) : g[k].text = TextAt(how, s, Nth(E, k))
  BY DEF Told, E
<1>7. p.text = TextAt(how, s, Nth(E, Len(g) + 1))
  BY <1>3, <1>4, <1>6
<1>8. Told(Append(g, p), how, s, n + 1)
  <2> DEFINE h == Append(g, p)
  <2>1. /\ Len(g) \in Nat /\ Len(h) = Len(g) + 1
        /\ \A k \in 1..Len(g) : h[k] = g[k]
        /\ h[Len(g) + 1] = p
    BY Appended
  <2> HIDE DEF h
  <2>2. \A k \in 1..Len(h) : k \in 1..Len(g) \/ k = Len(g) + 1
    BY <2>1
  <2>3. \A k \in 1..Len(h) : h[k].text = TextAt(how, s, Nth(E, k))
    BY <1>6, <1>7, <2>1, <2>2
  <2>4. Len(h) = Rank(E, n + 1)
    BY <1>3, <1>6, <2>1
  <2> QED
    BY <2>3, <2>4 DEF Told, E, h
<1> QED
  BY <1>3, <1>5, <1>6, <1>7, <1>8 DEF E

(* What has been given when all ends are behind is what was promised.      *)
LEMMA AllTold ==
    ASSUME NEW how \in {"line", "event"}, NEW s \in Streams \cup {Document}, NEW g, IsSeq(g),
           Told(g, how, s, Len(s.lines) + 1)
    PROVE  Texts(g) = PayloadsOf[how][s]
<1>1. Worded(s)
  BY StreamsWorded
<1>2. Rank(Ends(how, s), Len(s.lines) + 1) = Cardinality(Ends(how, s))
  <2>1. Len(s.lines) + 1 \in Nat
    BY <1>1 DEF Worded
  <2> QED
    BY <1>1, <2>1, EndsPlaced, RankSteps
<1>3. DOMAIN g = 1..Len(g)
  BY DEF IsSeq
<1>4. Texts(g) = [k \in 1..Cardinality(Ends(how, s)) |-> TextAt(how, s, Nth(Ends(how, s), k))]
  BY <1>2, <1>3 DEF Texts, Told
<1> QED
  BY <1>4 DEF PayloadsOf

(* The length and the elements of what is promised.                        *)
LEMMA PromisedOf ==
    ASSUME NEW how \in {"line", "event"}, NEW s \in Streams \cup {Document}
    PROVE  /\ Len(PayloadsOf[how][s]) = Cardinality(Ends(how, s))
           /\ \A k \in 1..Cardinality(Ends(how, s)) :
                 PayloadsOf[how][s][k] = TextAt(how, s, Nth(Ends(how, s), k))
<1> DEFINE E == Ends(how, s)
           t(k) == TextAt(how, s, Nth(E, k))
           T == {t(k) : k \in 1..Cardinality(E)}
           P == [k \in 1..Cardinality(E) |-> t(k)]
<1>1. Cardinality(E) \in Nat
  <2>1. Len(s.lines) + 1 \in Nat /\ Worded(s)
    BY StreamsWorded DEF Worded
  <2>2. Rank(E, Len(s.lines) + 1) = Cardinality(E) /\ Rank(E, Len(s.lines) + 1) \in Nat
    BY <2>1, EndsPlaced, RankSteps
  <2> QED
    BY <2>2
<1>2. PayloadsOf[how][s] = P
  BY DEF PayloadsOf
<1> HIDE DEF E, t
<1>3. P \in [1..Cardinality(E) -> T]
  OBVIOUS
<1> HIDE DEF T
<1>4. ASSUME NEW U, NEW n \in Nat, NEW q \in [1..n -> U] PROVE Len(q) = n
  OBVIOUS
<1>5. Len(P) = Cardinality(E)
  BY <1>1, <1>3, <1>4
<1>6. \A k \in 1..Cardinality(E) : P[k] = t(k)
  OBVIOUS
<1> HIDE DEF P
<1> QED
  BY <1>2, <1>5, <1>6 DEF E, t

(* The parser's own state: there are no more payloads than lines read, and *)
(* an event at hand has taken a line that no payload has; the allocation   *)
(* in use is not one that was given away; and a part of a line is the last *)
(* thing a stream that breaks has to say.                                  *)
Shape ==
    /\ mode \in {"line", "event"}
    /\ end \in {"none", "open", "ok", "refused", "broken"}
    /\ pos \in 0..Len(stream.lines)
    /\ haveData \in BOOLEAN
    /\ clean \in BOOLEAN
    /\ buf \in Nat \ {0}
    /\ DOMAIN memory = 0..buf
    /\ IsSeq(given)
    /\ Broken(stream)
Counts ==
    /\ Len(given) <= pos
    /\ haveData => mode = "event" /\ Len(given) < pos
Kept ==
    mode = "event" =>
        \A k \in 1..Len(given) :
            given[k].cell \in 1..(buf - 1) /\ memory[given[k].cell] = given[k].text
Parts ==
    /\ ~clean => pos = Len(stream.lines) /\ stream.ending = "error"
    /\ \A k \in 1..Len(given) : ~given[k].whole =>
          /\ mode = "line"
          /\ k = Len(given)
          /\ pos = Len(stream.lines)
          /\ stream.ending = "error"
          /\ end \in {"open", "refused", "broken"}
StreamInv == Shape /\ Counts /\ Kept /\ Parts

(* Nothing has been read.                                                  *)
LEMMA FreshStream ==
    ASSUME mode' \in {"line", "event"}, Broken(stream'), pos' = 0, haveData' = FALSE,
           clean' = TRUE, buf' = 1, memory' = [c \in {0, 1} |-> <<>>], given' = <<>>,
           end' \in {"none", "open"}
    PROVE  StreamInv'
<1>1. Len(given') = 0 /\ IsSeq(given')
  <2>1. given' \in Seq({}) /\ Len(given') = 0
    OBVIOUS
  <2> QED
    BY <2>1 DEF IsSeq
<1>2. DOMAIN memory' = 0..buf'
  OBVIOUS
<1>3. Len(stream'.lines) \in Nat
  BY DEF Broken
<1>4. Shape'
  <2>1. pos' \in 0..Len(stream'.lines) /\ buf' \in Nat \ {0}
    BY <1>3
  <2>2. Broken(stream)'
    OBVIOUS
  <2> QED
    BY <1>1, <1>2, <2>1, <2>2 DEF Shape
<1>5. Counts' /\ Kept' /\ Parts'
  BY <1>1 DEF Counts, Kept, Parts
<1> QED
  BY <1>4, <1>5 DEF StreamInv

(* Line mode gives a line to the callback; only its last may be a part.    *)
LEMMA LineDelivered ==
    ASSUME StreamInv, DeliverLine PROVE StreamInv'
<1> USE DEF StreamInv
<1>1. /\ Len(stream.lines) \in Nat
      /\ pos + 1 \in 1..Len(stream.lines)
      /\ pos' = pos + 1
      /\ UNCHANGED <<mode, stream, haveData, clean, buf>>
      /\ mode = "line"
  BY DEF DeliverLine, Scan, Shape, Broken
<1>2. given' = Append(given, Payload(0, Scanned.value, Scanned.whole)) /\ IsSeq(given)
  BY DEF DeliverLine, Shape
<1>3. /\ IsSeq(given')
      /\ Len(given) \in Nat
      /\ Len(given') = Len(given) + 1
      /\ \A k \in 1..Len(given) : given'[k] = given[k]
      /\ given'[Len(given) + 1] = Payload(0, Scanned.value, Scanned.whole)
  BY <1>2, Appended
<1>4. DOMAIN memory' = DOMAIN memory
  BY DEF DeliverLine
<1>5. end' \in {"open", "refused"}
  BY DEF DeliverLine
<1>6. Shape'
  BY <1>1, <1>3, <1>4, <1>5 DEF Shape
<1>7. Counts' /\ Kept'
  BY <1>1, <1>3 DEF Counts, Kept, Shape
<1>8. Parts'
  <2>1. clean
    BY <1>1 DEF Parts, Shape
  <2>2. \A k \in 1..Len(given) : given'[k].whole
    BY <1>1, <1>3 DEF Parts
  <2>3. given'[Len(given) + 1].whole = stream.lines[pos + 1].whole
    BY <1>3 DEF Payload, Scanned
  <2>4. ~stream.lines[pos + 1].whole => pos + 1 = Len(stream.lines) /\ stream.ending = "error"
    BY <1>1 DEF Shape, Broken
  <2> QED
    BY <1>1, <1>3, <1>5, <2>1, <2>2, <2>3, <2>4 DEF Parts
<1> QED
  BY <1>6, <1>7, <1>8

(* A line that is no data moves the scanner, and nothing else that counts. *)
LEMMA LineSkipped ==
    ASSUME StreamInv, SkipLine PROVE StreamInv'
<1> USE DEF StreamInv
<1>1. /\ Len(stream.lines) \in Nat
      /\ pos + 1 \in 1..Len(stream.lines)
      /\ pos' = pos + 1
      /\ UNCHANGED <<mode, stream, haveData, clean, buf, given, end>>
  BY DEF SkipLine, Scan, Shape, Broken
<1>2. DOMAIN memory' = DOMAIN memory /\ \A c \in DOMAIN memory \ {0} : memory'[c] = memory[c]
  BY DEF SkipLine
<1>3. Len(given) \in Nat
  BY Appended DEF Shape
<1>4. Shape'
  BY <1>1, <1>2 DEF Shape
<1>5. Counts'
  BY <1>1, <1>3 DEF Counts, Shape
<1>6. Kept'
  BY <1>1, <1>2, <1>3 DEF Kept, Shape
<1>7. Parts'
  BY <1>1 DEF Parts, Shape
<1> QED
  BY <1>4, <1>5, <1>6, <1>7

(* Event mode writes to the allocation in use, which it has given nobody.  *)
LEMMA DataGathered ==
    ASSUME StreamInv, Gather PROVE StreamInv'
<1> USE DEF StreamInv
<1>1. /\ Len(stream.lines) \in Nat
      /\ pos + 1 \in 1..Len(stream.lines)
      /\ pos' = pos + 1
      /\ UNCHANGED <<mode, stream, buf, given, end>>
      /\ mode = "event"
      /\ haveData' = TRUE
      /\ clean' = (clean /\ stream.lines[pos + 1].whole)
  BY DEF Gather, Scan, Shape, Broken, Scanned
<1>2. DOMAIN memory' = DOMAIN memory /\ \A c \in DOMAIN memory \ {buf} : memory'[c] = memory[c]
  BY DEF Gather
<1>3. Len(given) \in Nat
  BY Appended DEF Shape
<1>4. ~stream.lines[pos + 1].whole => pos + 1 = Len(stream.lines) /\ stream.ending = "error"
  BY <1>1 DEF Shape, Broken
<1>5. clean' \in BOOLEAN /\ (clean /\ stream.lines[pos + 1].whole => clean')
  BY <1>1 DEF Shape
<1>6. Shape'
  BY <1>1, <1>2, <1>5 DEF Shape
<1>7. Counts'
  BY <1>1, <1>3 DEF Counts, Shape
<1>8. Kept'
  BY <1>1, <1>2, <1>3 DEF Kept, Shape
<1>9. Parts'
  BY <1>1, <1>4, <1>5 DEF Parts, Shape
<1> QED
  BY <1>6, <1>7, <1>8, <1>9

(* An event is given away, at a blank line or at the end of the stream.    *)
LEMMA EventFlushed ==
    ASSUME StreamInv, NEW after \in {"open", "ok"}, Flush(after),
           UNCHANGED <<mode, stream>>, mode = "event", clean,
           pos' \in pos..Len(stream.lines)
    PROVE  StreamInv'
<1> USE DEF StreamInv
<1>1. /\ Len(stream.lines) \in Nat
      /\ pos \in Nat
      /\ UNCHANGED <<mode, stream>>
      /\ haveData
      /\ haveData' = FALSE
      /\ clean' = TRUE
      /\ buf' = buf + 1
      /\ buf \in Nat \ {0}
      /\ end' \in {"open", "ok", "refused"}
  BY DEF Flush, Shape, Broken
<1> DEFINE p == Payload(buf, memory[buf], clean)
<1>2. given' = Append(given, p) /\ IsSeq(given)
  BY DEF Flush, Shape
<1>p. p.cell = buf /\ p.text = memory[buf] /\ p.whole
  BY DEF Payload
<1> HIDE DEF p
<1>3. /\ IsSeq(given')
      /\ Len(given) \in Nat
      /\ Len(given') = Len(given) + 1
      /\ \A k \in 1..Len(given) : given'[k] = given[k]
      /\ given'[Len(given) + 1] = p
  BY <1>2, Appended
<1>4. memory' = [c \in 0..buf + 1 |-> IF c = buf + 1 THEN <<>> ELSE memory[c]]
  BY DEF Flush
<1>5. DOMAIN memory' = 0..buf' /\ \A c \in 0..buf : memory'[c] = memory[c]
  BY <1>1, <1>4
<1>6. Shape'
  <2>1. buf' \in Nat \ {0} /\ pos' \in 0..Len(stream'.lines) /\ Broken(stream')
    BY <1>1 DEF Shape
  <2> QED
    BY <1>1, <1>3, <1>5, <2>1 DEF Shape
<1>7. Counts'
  BY <1>1, <1>3 DEF Counts, Shape
<1>8. Kept'
  <2>1. \A k \in 1..Len(given) :
           given'[k].cell \in 1..(buf - 1) /\ memory'[given'[k].cell] = given'[k].text
    BY <1>1, <1>3, <1>5 DEF Kept
  <2>2. /\ given'[Len(given) + 1].cell = buf
        /\ memory'[buf] = given'[Len(given) + 1].text
    BY <1>1, <1>3, <1>5, <1>p
  <2>3. \A k \in 1..Len(given') : k \in 1..Len(given) \/ k = Len(given) + 1
    BY <1>3
  <2>4. buf \in 1..(buf' - 1) /\ 1..(buf - 1) \subseteq 1..(buf' - 1)
    BY <1>1
  <2> QED
    BY <2>1, <2>2, <2>3, <2>4 DEF Kept
<1>9. Parts'
  <2>1. \A k \in 1..Len(given) : given'[k].whole
    BY <1>3 DEF Parts
  <2>2. given'[Len(given) + 1].whole
    BY <1>3, <1>p
  <2>3. \A k \in 1..Len(given') : k \in 1..Len(given) \/ k = Len(given) + 1
    BY <1>3
  <2> QED
    BY <1>1, <2>1, <2>2, <2>3 DEF Parts
<1> QED
  BY <1>6, <1>7, <1>8, <1>9

(* A blank line gives the event away, or says nothing.                     *)
LEMMA EventClosed ==
    ASSUME StreamInv, Blank PROVE StreamInv'
<1>1. /\ Len(stream.lines) \in Nat
      /\ pos + 1 \in 1..Len(stream.lines)
      /\ pos' = pos + 1
      /\ UNCHANGED <<mode, stream>>
      /\ mode = "event"
  BY DEF Blank, Scan, StreamInv, Shape, Broken
<1>2. clean
  BY <1>1 DEF StreamInv, Parts, Shape
<1>3. CASE Flush("open")
  BY <1>1, <1>2, <1>3, EventFlushed DEF StreamInv, Shape
<1>4. CASE UNCHANGED <<haveData, clean, buf, memory, given, end>>
  <2>1. Shape'
    BY <1>1, <1>4 DEF StreamInv, Shape
  <2>2. Len(given) \in Nat
    BY Appended DEF StreamInv, Shape
  <2>3. Counts' /\ Kept' /\ Parts'
    BY <1>1, <1>2, <1>4, <2>2 DEF StreamInv, Counts, Kept, Parts, Shape
  <2> QED
    BY <2>1, <2>3 DEF StreamInv
<1> QED
  BY <1>3, <1>4 DEF Blank

(* sc.Scan() is false and the call is to return.                           *)
LEMMA StreamEnded ==
    ASSUME StreamInv, Return PROVE StreamInv'
<1>1. UNCHANGED <<mode, stream, pos, haveData, clean, buf, memory, given>>
  BY DEF Return
<1>2. /\ stream.ending = "eof" => end' = "ok"
      /\ stream.ending # "eof" => end' = "broken"
  BY DEF Return
<1>3. Shape'
  BY <1>1, <1>2 DEF StreamInv, Shape
<1>4. Counts' /\ Kept'
  BY <1>1 DEF StreamInv, Counts, Kept
<1>5. Parts'
  BY <1>1, <1>2 DEF StreamInv, Parts
<1> QED
  BY <1>3, <1>4, <1>5 DEF StreamInv

(* Every step of the parser.                                               *)
LEMMA StreamRead ==
    ASSUME StreamInv, Read PROVE StreamInv'
<1>1. CASE FlushLast
  <2>1. clean /\ mode = "event" /\ UNCHANGED <<mode, stream, pos>> /\ Flush("ok")
    BY <1>1 DEF FlushLast, StreamInv, Parts
  <2>2. pos' \in pos..Len(stream.lines)
    BY <2>1 DEF StreamInv, Shape, Broken
  <2> QED
    BY <2>1, <2>2, EventFlushed
<1> QED
  BY <1>1, LineDelivered, LineSkipped, DataGathered, EventClosed, StreamEnded DEF Read

(* What the steps of the client leave alone.                               *)
LEMMA StreamStays ==
    ASSUME StreamInv, UNCHANGED sseVars PROVE StreamInv'
<1>1. UNCHANGED <<mode, stream, pos, haveData, clean, buf, memory, given, end>>
  BY DEF sseVars
<1> QED
  BY <1>1 DEF StreamInv, Shape, Counts, Kept, Parts

-----------------------------------------------------------------------------
(* What the callback is given                                              *)

(* The event at hand is what its lines say, but for the first NewLine.     *)
AtHand ==
    /\ haveData <=> EventAt(stream, pos + 1) # {}
    /\ memory[buf] \in Seq(Tokens)
    /\ ~haveData => memory[buf] = <<>>
    /\ haveData => Gathered(stream, pos + 1) = <<NewLine>> \o memory[buf]

(* While a stream is read the callback has been given the payloads that    *)
(* end in the lines read, and at the end of a call that returns nil all.   *)
Faithful ==
    /\ stream \in Streams \cup {Document}
    /\ end = "open" => Told(given, mode, stream, pos)
    /\ end = "open" /\ mode = "event" => AtHand
    /\ end = "ok" => stream.ending = "eof" /\ Out = Promised

(* Out is the texts of what was given.                                     *)
LEMMA OutIsTexts == Out = Texts(given) /\ Out' = Texts(given')
  BY DEF Out, Texts

(* The payload that ends at the next place is the next one promised.       *)
LEMMA PayloadDelivered ==
    ASSUME StreamInv, Faithful, end = "open", UNCHANGED <<mode, stream>>,
           pos + 1 \in Ends(mode, stream),
           NEW p, p.text = TextAt(mode, stream, pos + 1), given' = Append(given, p),
           end' \in {"open", "refused", "ok"},
           end' = "ok" => stream.ending = "eof" /\ pos = Len(stream.lines)
    PROVE  /\ D!Deliver
           /\ Told(given', mode, stream, pos + 1)
           /\ end' = "ok" => Out' = Promised'
<1>1. /\ mode \in {"line", "event"}
      /\ stream \in Streams \cup {Document}
      /\ IsSeq(given)
      /\ pos \in Nat
      /\ Worded(stream)
      /\ Told(given, mode, stream, pos)
  BY StreamsWorded DEF StreamInv, Shape, Broken, Faithful
<1>2. /\ Told(given', mode, stream, pos + 1)
      /\ Len(given) < Cardinality(Ends(mode, stream))
      /\ p.text = TextAt(mode, stream, Nth(Ends(mode, stream), Len(given) + 1))
  BY <1>1, OneMoreTold
<1>3. Len(given) \in Nat /\ IsSeq(given')
  BY <1>1, Appended
<1>4. Promised = PayloadsOf[mode][stream] /\ Promised' = Promised
  BY DEF Promised
<1>5. /\ Len(Promised) = Cardinality(Ends(mode, stream))
      /\ Promised[Len(given) + 1] = p.text
  <2>1. Cardinality(Ends(mode, stream)) \in Nat
    <3>1. Len(stream.lines) + 1 \in Nat
      BY <1>1 DEF Worded
    <3>2. /\ Rank(Ends(mode, stream), Len(stream.lines) + 1) = Cardinality(Ends(mode, stream))
          /\ Rank(Ends(mode, stream), Len(stream.lines) + 1) \in Nat
      BY <1>1, <3>1, EndsPlaced, RankSteps
    <3> QED
      BY <3>2
  <2>2. Len(given) + 1 \in 1..Cardinality(Ends(mode, stream))
    BY <1>2, <1>3, <2>1
  <2> QED
    BY <1>1, <1>2, <1>4, <2>2, PromisedOf
<1>6. Len(Out) = Len(given) /\ Out' = Append(Out, p.text)
  BY <1>1, OutIsTexts, TextsAppend
<1>7. ASSUME end' = "ok" PROVE Out' = Promised
  <2>1. Told(given', mode, stream, Len(stream.lines) + 1)
    BY <1>2, <1>7
  <2> QED
    BY <1>1, <1>3, <1>4, <2>1, OutIsTexts, AllTold
<1>8. D!Deliver
  BY <1>2, <1>4, <1>5, <1>6, <1>7 DEF D!Deliver
<1> QED
  BY <1>2, <1>4, <1>7, <1>8

(* A data line in line mode.                                               *)
LEMMA LineFaithful ==
    ASSUME StreamInv, Faithful, DeliverLine PROVE Faithful' /\ D!Deliver
<1>1. /\ mode = "line" /\ end = "open" /\ end' \in {"open", "refused"}
      /\ pos + 1 \in 1..Len(stream.lines) /\ pos' = pos + 1
      /\ Says(stream, pos + 1, {"data"})
      /\ UNCHANGED <<mode, stream>>
      /\ given' = Append(given, Payload(0, Scanned.value, Scanned.whole))
  BY DEF DeliverLine, Scan, Scanned, Says, StreamInv, Shape, Broken
<1>2. pos + 1 \in Ends(mode, stream)
  BY <1>1 DEF Ends
<1>3. Payload(0, Scanned.value, Scanned.whole).text = TextAt(mode, stream, pos + 1)
  BY <1>1 DEF Payload, Scanned, TextAt
<1>4. D!Deliver /\ Told(given', mode, stream, pos + 1)
  BY <1>1, <1>2, <1>3, PayloadDelivered
<1> QED
  BY <1>1, <1>4 DEF Faithful

(* A line that says nothing.                                               *)
LEMMA SkipFaithful ==
    ASSUME StreamInv, Faithful, SkipLine PROVE Faithful' /\ UNCHANGED D!deliveryVars
<1>1. /\ end = "open" /\ pos \in Nat /\ pos' = pos + 1
      /\ pos + 1 \in 1..Len(stream.lines)
      /\ UNCHANGED <<mode, stream, haveData, buf, given, end>>
      /\ Says(stream, pos + 1, IF mode = "line" THEN Kinds \ {"data"} ELSE {"comment", "other"})
      /\ buf \in Nat \ {0} /\ DOMAIN memory = 0..buf
      /\ Worded(stream)
      /\ mode \in {"line", "event"}
  BY StreamsWorded DEF SkipLine, Scan, Scanned, Says, StreamInv, Shape, Broken, Faithful
<1>2. pos + 1 \notin Ends(mode, stream)
  <2>1. pos + 1 # Len(stream.lines) + 1 /\ ~Says(stream, pos + 1, {"data"})
        /\ (mode = "event" => ~Says(stream, pos + 1, {"blank"}))
    BY <1>1 DEF Says, Worded
  <2> QED
    BY <1>1, <2>1 DEF Ends
<1>3. Told(given', mode', stream', pos')
  BY <1>1, <1>2, NoMoreTold DEF Faithful
<1>4. ASSUME mode = "event" PROVE AtHand'
  <2>1. ~Says(stream, pos + 1, {"data", "bare", "blank"})
    BY <1>1, <1>4 DEF Says
  <2>2. EventAt(stream, pos + 1 + 1) = EventAt(stream, pos + 1)
    BY <1>1, <2>1, EventSteps
  <2>3. Gathered(stream, pos + 1 + 1) = Gathered(stream, pos + 1)
    BY <1>1, <2>1, GatheredSteps
  <2>4. memory'[buf] = memory[buf]
    BY <1>1 DEF SkipLine
  <2> QED
    BY <1>1, <1>4, <2>2, <2>3, <2>4 DEF AtHand, Faithful
<1>5. UNCHANGED <<Promised, Out>>
  BY <1>1 DEF Promised, Out
<1> QED
  BY <1>1, <1>3, <1>4, <1>5 DEF Faithful, D!deliveryVars

(* A data line of an event.                                                *)
LEMMA GatherFaithful ==
    ASSUME StreamInv, Faithful, Gather PROVE Faithful' /\ UNCHANGED D!deliveryVars
<1>1. /\ mode = "event" /\ end = "open" /\ pos \in Nat /\ pos' = pos + 1
      /\ pos + 1 \in 1..Len(stream.lines)
      /\ UNCHANGED <<mode, stream, buf, given, end>>
      /\ Says(stream, pos + 1, {"data", "bare"})
      /\ haveData' = TRUE /\ haveData \in BOOLEAN
      /\ buf \in DOMAIN memory
      /\ Worded(stream)
  BY StreamsWorded DEF Gather, Scan, Scanned, Says, StreamInv, Shape, Broken, Faithful
<1>2. pos + 1 \notin Ends(mode, stream)
  <2>1. pos + 1 # Len(stream.lines) + 1 /\ ~Says(stream, pos + 1, {"blank"})
    BY <1>1 DEF Says, Worded
  <2> QED
    BY <1>1, <2>1 DEF Ends
<1>3. Told(given', mode', stream', pos')
  BY <1>1, <1>2, NoMoreTold DEF Faithful
<1>4. AtHand'
  <2> DEFINE v == stream.lines[pos + 1].value
             m == memory[buf]
  <2>1. /\ haveData <=> EventAt(stream, pos + 1) # {}
        /\ m \in Seq(Tokens)
        /\ ~haveData => m = <<>>
        /\ haveData => Gathered(stream, pos + 1) = <<NewLine>> \o m
    BY <1>1 DEF Faithful, AtHand
  <2>2. v \in Seq(Tokens)
    BY <1>1 DEF Worded
  <2>3. EventAt(stream, pos + 1 + 1) # {}
    <3>1. EventAt(stream, pos + 1 + 1) = EventAt(stream, pos + 1) \cup {pos + 1}
      BY <1>1, EventSteps
    <3> QED
      BY <3>1
  <2>4. Gathered(stream, pos + 1 + 1) = Gathered(stream, pos + 1) \o (<<NewLine>> \o v)
    BY <1>1, GatheredSteps
  <2>5. memory'[buf] = (IF haveData THEN Append(m, NewLine) ELSE m) \o v
    BY <1>1 DEF Gather, Scanned
  <2>6. Gathered(stream, pos + 1) = IF haveData THEN <<NewLine>> \o m ELSE <<>>
    <3>1. pos + 1 \in 1..Len(stream.lines) + 1
      BY <1>1 DEF Worded
    <3> QED
      BY <1>1, <2>1, <3>1, NothingGathered
  <2> HIDE DEF v, m
  <2>7. NewLine \in Tokens
    BY StreamAssumption
  <2>8. CASE haveData
    <3>1. memory'[buf] \in Seq(Tokens) /\ memory'[buf] = Append(m, NewLine) \o v
      BY <2>1, <2>2, <2>5, <2>7, <2>8
    <3>2. <<NewLine>> \o (Append(m, NewLine) \o v) = (<<NewLine>> \o m) \o (<<NewLine>> \o v)
      BY <2>1, <2>2, <2>7
    <3> QED
      BY <1>1, <2>3, <2>4, <2>6, <2>8, <3>1, <3>2 DEF AtHand
  <2>9. CASE ~haveData
    <3>1. memory'[buf] = v
      BY <2>1, <2>2, <2>5, <2>9
    <3>2. <<>> \o (<<NewLine>> \o v) = <<NewLine>> \o v
      BY <2>2, <2>7
    <3> QED
      BY <1>1, <2>2, <2>3, <2>4, <2>6, <2>9, <3>1, <3>2 DEF AtHand
  <2> QED
    BY <1>1, <2>8, <2>9
<1>5. UNCHANGED <<Promised, Out>>
  BY <1>1 DEF Promised, Out
<1> QED
  BY <1>1, <1>3, <1>4, <1>5 DEF Faithful, D!deliveryVars

(* Behind the first NewLine of an event there is the event.                *)
LEMMA EventText ==
    ASSUME NEW m \in Seq(Tokens), NEW s, NEW e, Gathered(s, e) = <<NewLine>> \o m
    PROVE  TextAt("event", s, e) = m
<1>1. Tail(<<NewLine>> \o m) = m
  BY StreamAssumption
<1> QED
  BY <1>1 DEF TextAt, Gathered

(* A blank line, which ends an event or says nothing.                      *)
LEMMA BlankFaithful ==
    ASSUME StreamInv, Faithful, Blank
    PROVE  Faithful' /\ (D!Deliver \/ UNCHANGED D!deliveryVars)
<1>1. /\ mode = "event" /\ end = "open" /\ pos \in Nat /\ pos' = pos + 1
      /\ pos + 1 \in 1..Len(stream.lines)
      /\ UNCHANGED <<mode, stream>>
      /\ Says(stream, pos + 1, {"blank"})
      /\ haveData \in BOOLEAN /\ buf \in Nat \ {0} /\ DOMAIN memory = 0..buf
      /\ Worded(stream)
      /\ AtHand
      /\ pos + 1 \in 1..Len(stream.lines) + 1 /\ pos + 1 # Len(stream.lines) + 1
  BY StreamsWorded DEF Blank, Scan, Scanned, Says, StreamInv, Shape, Broken, Faithful, Worded
<1>2. EventAt(stream, pos + 1 + 1) = {}
  BY <1>1, EventSteps
<1>3. pos + 1 \in Ends(mode, stream) <=> haveData
  BY <1>1 DEF Ends, AtHand
<1>4. CASE Flush("open")
  <2>1. /\ haveData /\ haveData' = FALSE
        /\ given' = Append(given, Payload(buf, memory[buf], clean))
        /\ buf' = buf + 1
        /\ memory' = [c \in 0..buf + 1 |-> IF c = buf + 1 THEN <<>> ELSE memory[c]]
        /\ end' \in {"open", "refused"}
    BY <1>4 DEF Flush
  <2>2. memory[buf] = TextAt(mode, stream, pos + 1)
    BY <1>1, <2>1, EventText DEF AtHand
  <2>3. Payload(buf, memory[buf], clean).text = TextAt(mode, stream, pos + 1)
    BY <2>2 DEF Payload
  <2>4. D!Deliver /\ Told(given', mode, stream, pos + 1)
    BY <1>1, <1>3, <2>1, <2>3, PayloadDelivered
  <2>5. AtHand'
    <3>1. memory'[buf'] = <<>>
      BY <1>1, <2>1
    <3>2. <<>> \in Seq(Tokens)
      OBVIOUS
    <3> QED
      BY <1>1, <1>2, <2>1, <3>1, <3>2 DEF AtHand
  <2> QED
    BY <1>1, <2>1, <2>4, <2>5 DEF Faithful
<1>5. CASE ~haveData /\ UNCHANGED <<haveData, clean, buf, memory, given, end>>
  <2>1. Told(given', mode', stream', pos')
    BY <1>1, <1>3, <1>5, NoMoreTold DEF Faithful
  <2>2. AtHand'
    BY <1>1, <1>2, <1>5 DEF AtHand
  <2>3. UNCHANGED <<Promised, Out>>
    BY <1>1, <1>5 DEF Promised, Out
  <2> QED
    BY <1>1, <1>5, <2>1, <2>2, <2>3 DEF Faithful, D!deliveryVars
<1> QED
  BY <1>4, <1>5 DEF Blank

(* The end of a stream that was not cut off closes the last event.         *)
LEMMA LastFaithful ==
    ASSUME StreamInv, Faithful, FlushLast PROVE Faithful' /\ D!Deliver
<1>1. /\ mode = "event" /\ end = "open" /\ pos \in Nat /\ UNCHANGED <<mode, stream, pos>>
      /\ pos = Len(stream.lines) /\ stream.ending = "eof"
      /\ Worded(stream)
      /\ AtHand
      /\ pos + 1 \in 1..Len(stream.lines) + 1
  BY StreamsWorded DEF FlushLast, AtEnd, StreamInv, Shape, Broken, Faithful
<1>2. /\ haveData
      /\ given' = Append(given, Payload(buf, memory[buf], clean))
      /\ end' \in {"ok", "refused"}
  BY DEF FlushLast, Flush
<1>3. pos + 1 \in Ends(mode, stream)
  BY <1>1, <1>2 DEF Ends, AtHand
<1>4. memory[buf] = TextAt(mode, stream, pos + 1)
  BY <1>1, <1>2, EventText DEF AtHand
<1>5. Payload(buf, memory[buf], clean).text = TextAt(mode, stream, pos + 1)
  BY <1>4 DEF Payload
<1>6. D!Deliver /\ (end' = "ok" => Out' = Promised')
  BY <1>1, <1>2, <1>3, <1>5, PayloadDelivered
<1> QED
  BY <1>1, <1>2, <1>6 DEF Faithful

(* The call ends without another payload, which it may do if there is none *)
(* or the stream was cut off.                                              *)
LEMMA ReturnFaithful ==
    ASSUME StreamInv, Faithful, Return PROVE Faithful' /\ D!Finish
<1>1. /\ end = "open" /\ pos = Len(stream.lines) /\ pos \in Nat
      /\ UNCHANGED <<mode, stream, given>>
      /\ stream.ending = "eof" => ~haveData /\ end' = "ok"
      /\ stream.ending # "eof" => end' = "broken"
      /\ mode \in {"line", "event"} /\ stream \in Streams \cup {Document}
      /\ IsSeq(given)
      /\ Worded(stream)
  BY StreamsWorded DEF Return, AtEnd, StreamInv, Shape, Broken, Faithful
<1>2. UNCHANGED <<Promised, Out>>
  BY <1>1 DEF Promised, Out
<1>3. ASSUME stream.ending = "eof" PROVE Out = Promised
  <2>1. pos + 1 \notin Ends(mode, stream)
    <3>1. CASE mode = "line"
      BY <1>1, <3>1 DEF Ends
    <3>2. CASE mode = "event"
      <4>1. EventAt(stream, pos + 1) = {}
        BY <1>1, <1>3, <3>2 DEF Faithful, AtHand
      <4> QED
        BY <1>1, <3>2, <4>1 DEF Ends
    <3> QED
      BY <1>1, <3>1, <3>2
  <2>2. Told(given, mode, stream, Len(stream.lines) + 1)
    BY <1>1, <2>1, NoMoreTold DEF Faithful
  <2> QED
    BY <1>1, <2>2, AllTold, OutIsTexts DEF Promised
<1>4. D!Finish
  BY <1>1, <1>2, <1>3 DEF D!Finish
<1> QED
  BY <1>1, <1>2, <1>3, <1>4 DEF Faithful

(* Every step of the parser keeps the promise.                             *)
LEMMA ReadFaithful ==
    ASSUME StreamInv, Faithful, Read
    PROVE  Faithful' /\ (D!Deliver \/ D!Finish \/ UNCHANGED D!deliveryVars)
  BY LineFaithful, SkipFaithful, GatherFaithful, BlankFaithful, LastFaithful, ReturnFaithful
     DEF Read

(* A call begins, with a stream or without.                                *)
LEMMA ClearFaithful ==
    ASSUME StreamInv, NEW s \in Streams \cup {Document}, NEW state \in {"none", "open"},
           Clear(s, state)
    PROVE  Faithful' /\ D!Open
<1>1. /\ end # "open" /\ stream' = s /\ pos' = 0 /\ haveData' = FALSE /\ buf' = 1
      /\ memory' = [c \in {0, 1} |-> <<>>] /\ given' = <<>> /\ end' = state
  BY DEF Clear
<1>2. Worded(s) /\ s \in Streams \cup {Document}
  BY StreamsWorded
<1>3. Told(given', mode', stream', pos')
  BY <1>1, <1>2, NothingTold
<1>4. AtHand'
  <2>1. EventAt(s, 0 + 1) = {}
    <3>1. 1 \in Nat /\ 1 > 0
      OBVIOUS
    <3> QED
      BY <3>1, EventSteps
  <2>2. memory'[buf'] = <<>> /\ <<>> \in Seq(Tokens)
    BY <1>1
  <2> QED
    BY <1>1, <2>1, <2>2 DEF AtHand
<1>5. Out' = <<>>
  <2>1. DOMAIN given' = {}
    BY <1>1
  <2> QED
    BY <1>1, <2>1 DEF Out
<1>6. D!Open
  BY <1>1, <1>5 DEF D!Open, D!Closed
<1> QED
  BY <1>1, <1>2, <1>3, <1>4, <1>6 DEF Faithful

-----------------------------------------------------------------------------
(* Bodies                                                                  *)

(* The method decides what a chat's body says, whatever the request does.  *)
LEMMA ChatBodySays ==
    ASSUME NEW r \in Requests, NEW streaming \in BOOLEAN
    PROVE  WantsStream(ChatBody(r, streaming)) <=> streaming
<1> DEFINE q == [r EXCEPT !.stream = streaming, !.extra = dropKey(@, "stream")]
<1>1. /\ q.stream = streaming
      /\ q.fields = r.fields
      /\ q.fields \subseteq Optional
      /\ q.extra = dropKey(r.extra, "stream")
  BY DEF Requests
<1>2. "stream" \notin DOMAIN q.extra
  BY <1>1 DEF dropKey
<1>3. ChatBody(r, streaming) = MarshalJSON(q)
  BY DEF ChatBody
<1> HIDE DEF q
<1>4. "stream" \in DOMAIN Base(q) <=> streaming
  BY <1>1 DEF Base, Always, Optional
<1>5. "stream" \in DOMAIN Base(q) => Base(q)["stream"] = "true"
  BY DEF Base
<1>6. DOMAIN MarshalJSON(q) = DOMAIN Base(q) \cup DOMAIN q.extra
  BY DEF MarshalJSON
<1>7. "stream" \in DOMAIN Base(q) => MarshalJSON(q)["stream"] = Base(q)["stream"]
  BY <1>6 DEF MarshalJSON
<1> QED
  BY <1>2, <1>3, <1>4, <1>5, <1>6, <1>7 DEF WantsStream

(* The body in flight says what its method is.                             *)
BodyFits ==
    phase # "idle" \/ status # 0 =>
        /\ call \in {"ChatStream", "PlaygroundChatStream"} => WantsStream(body)
        /\ call \in {"Chat", "PlaygroundChat"} => ~WantsStream(body)

(* The body a call starts with.                                            *)
LEMMA StartFits ==
    ASSUME request \in ChatRequests, NEW m \in Methods, Start(m)
    PROVE  BodyFits'
<1>1. request \in Requests
  BY RequestsAssumption
<1>2. body' \in BodiesOf(m) /\ call' = m
  BY DEF Start
<1>3. CASE m = "ChatStream"
  <2>1. body' = ChatBody(request, TRUE)
    BY <1>2, <1>3 DEF BodiesOf
  <2> QED
    BY <1>1, <1>2, <1>3, <2>1, ChatBodySays DEF BodyFits
<1>4. CASE m = "Chat"
  <2>1. body' = ChatBody(request, FALSE)
    BY <1>2, <1>4 DEF BodiesOf
  <2> QED
    BY <1>1, <1>2, <1>4, <2>1, ChatBodySays DEF BodyFits
<1>5. CASE m = "PlaygroundChatStream"
  <2>1. body' = [k \in {"stream"} |-> "true"]
    BY <1>2, <1>5 DEF BodiesOf
  <2> QED
    BY <1>2, <1>5, <2>1 DEF BodyFits, WantsStream
<1>6. CASE m = "PlaygroundChat"
  <2>1. body' = [k \in {"stream"} |-> "false"]
    BY <1>2, <1>6 DEF BodiesOf
  <2> QED
    BY <1>2, <1>6, <2>1 DEF BodyFits, WantsStream
<1> QED
  BY <1>2, <1>3, <1>4, <1>5, <1>6 DEF BodyFits

-----------------------------------------------------------------------------
(* The client                                                              *)

CallTyped ==
    /\ request \in ChatRequests
    /\ call \in Methods
    /\ phase \in {"idle", "sent", "document", "stream"}
    /\ end = "open" => phase = "stream"
    /\ status \in {0, 200} \cup ErrorStatuses
    /\ document.kind \in Documents
    /\ document.says \in Bodies
    /\ result \in {"nothing", "value", "zero", "raw"}

(* An error that carries a status carries the answer's, and there were no  *)
(* payloads before it.                                                     *)
FromStatus == err = newAPIError(status, document.says)
Blames ==
    /\ phase = "sent" => status = 0
    /\ phase = "stream" => status = 200 /\ end # "none"
    /\ phase \in {"sent", "document"} => given = <<>>
    /\ phase = "idle" =>
          \/ err \in {Nil, Plain, Refused}
          \/ FromStatus /\ status \in ErrorStatuses /\ given = <<>>
    /\ phase = "idle" /\ status \in ErrorStatuses /\ call \notin Raw =>
          FromStatus \/ (document.kind = "lost" /\ call \in Decoding)

ChatInv == StreamInv /\ CallTyped /\ BodyFits /\ Blames

(* The bodies that are no JSON objects.                                    *)
LEMMA NotObjectIsBody ==
    \A f \in {"empty", "blank", "text", "garbled"} : NotObject(f) \in Bodies
  BY DEF Bodies

(* The document of a call that has none yet.                               *)
LEMMA NoDocumentFits == NoDocument.kind \in Documents /\ NoDocument.says \in Bodies
  BY NotObjectIsBody DEF NoDocument, Documents

(* The invariant holds before the first call.                              *)
LEMMA ChatInvInit == Init => ChatInv
<1> SUFFICES ASSUME Init PROVE ChatInv
  OBVIOUS
<1>1. StreamInv
  <2>1. Len(given) = 0 /\ IsSeq(given)
    <3>1. given \in Seq({}) /\ Len(given) = 0
      BY DEF Init, SSEInit
    <3> QED
      BY <3>1 DEF IsSeq
  <2>2. DOMAIN memory = 0..buf
    BY DEF Init, SSEInit
  <2>3. Broken(stream) /\ Len(stream.lines) \in Nat
    BY DocumentBroken DEF Init, SSEInit, Broken
  <2>4. Shape
    <3>1. pos \in 0..Len(stream.lines) /\ buf \in Nat \ {0}
      BY <2>3 DEF Init, SSEInit
    <3>2. /\ mode \in {"line", "event"}
          /\ end \in {"none", "open", "ok", "refused", "broken"}
          /\ haveData \in BOOLEAN
          /\ clean \in BOOLEAN
      BY DEF Init, SSEInit
    <3> QED
      BY <2>1, <2>2, <2>3, <3>1, <3>2 DEF Shape
  <2>5. Counts /\ Kept /\ Parts
    BY <2>1 DEF Init, SSEInit, Counts, Kept, Parts
  <2> QED
    BY <2>4, <2>5 DEF StreamInv
<1>2. CallTyped
  BY NoDocumentFits DEF Init, SSEInit, CallTyped, Methods, Decoding
<1>3. BodyFits /\ Blames
  BY DEF Init, BodyFits, Blames, ErrorStatuses
<1> QED
  BY <1>1, <1>2, <1>3 DEF ChatInv

(* A call begins: nothing is left of the last one.                         *)
LEMMA Cleared ==
    ASSUME StreamInv, NEW s, Broken(s), NEW e \in {"none", "open"}, Clear(s, e)
    PROVE  StreamInv' /\ given' = <<>> /\ end' = e
<1>1. /\ stream' = s
      /\ mode' = mode
      /\ mode \in {"line", "event"}
      /\ end' = e
  BY DEF Clear, StreamInv, Shape
<1>2. Broken(stream')
  BY <1>1
<1> QED
  BY <1>1, <1>2, FreshStream DEF Clear

(* A call is sent.                                                         *)
LEMMA CallStarted ==
    ASSUME ChatInv, NEW m \in Methods, Start(m) PROVE ChatInv'
<1>1. StreamInv' /\ given' = <<>> /\ end' = "none"
  BY Cleared, DocumentBroken DEF ChatInv, Start, Close
<1>2. CallTyped'
  BY <1>1, NoDocumentFits DEF ChatInv, CallTyped, Start
<1>3. BodyFits'
  BY StartFits DEF ChatInv, CallTyped
<1>4. Blames'
  BY <1>1 DEF Start, Blames
<1> QED
  BY <1>1, <1>2, <1>3, <1>4 DEF ChatInv

(* A call without a request is turned away.                                *)
LEMMA NilRefused ==
    ASSUME ChatInv, NEW m \in Methods, StartNil(m) PROVE ChatInv'
<1>1. StreamInv' /\ given' = <<>> /\ end' = "none"
  BY Cleared, DocumentBroken DEF ChatInv, StartNil, Close
<1>2. CallTyped'
  BY <1>1, NoDocumentFits DEF ChatInv, CallTyped, StartNil
<1>3. phase' = "idle" /\ status' = 0 /\ err' = Plain
  BY DEF StartNil
<1>4. BodyFits' /\ Blames'
  BY <1>3 DEF BodyFits, Blames, ErrorStatuses
<1> QED
  BY <1>1, <1>2, <1>4 DEF ChatInv

(* A call that gets no answer returns an error of no status.               *)
LEMMA CallFailed ==
    ASSUME ChatInv, Fail PROVE ChatInv'
<1>1. /\ phase = "sent"
      /\ phase' = "idle"
      /\ err' = Plain
      /\ UNCHANGED <<sseVars, request, call, body, status, document, result>>
  BY DEF Fail
<1>2. StreamInv'
  BY <1>1, StreamStays DEF ChatInv
<1>3. CallTyped'
  BY <1>1 DEF ChatInv, CallTyped, sseVars
<1>4. BodyFits' /\ Blames'
  BY <1>1 DEF ChatInv, BodyFits, Blames, ErrorStatuses
<1> QED
  BY <1>2, <1>3, <1>4 DEF ChatInv

(* An answer that is read as a whole.                                      *)
LEMMA DocumentCame ==
    ASSUME ChatInv, NEW s \in {200} \cup ErrorStatuses, NEW doc,
           doc.kind \in Documents, doc.says \in Bodies, Answer(s, doc)
    PROVE  ChatInv'
<1>1. /\ phase = "sent"
      /\ phase' = "document"
      /\ status' = s
      /\ document' = doc
      /\ UNCHANGED <<sseVars, request, call, body, result, err>>
  BY DEF Answer
<1>2. StreamInv'
  BY <1>1, StreamStays DEF ChatInv
<1>3. CallTyped'
  BY <1>1 DEF ChatInv, CallTyped, sseVars
<1>4. BodyFits' /\ Blames'
  BY <1>1 DEF ChatInv, BodyFits, Blames, sseVars
<1> QED
  BY <1>2, <1>3, <1>4 DEF ChatInv

(* An answer that is read as a stream.                                     *)
LEMMA StreamCame ==
    ASSUME ChatInv, AnswerStream PROVE ChatInv'
<1>1. /\ phase = "sent"
      /\ phase' = "stream"
      /\ status' = 200
      /\ UNCHANGED <<request, call, body, document, result, err>>
  BY DEF AnswerStream
<1>2. PICK s \in Streams \cup {Document} : Clear(s, "open")
  BY DEF AnswerStream, Begin
<1>3. Broken(s)
  BY StreamsBroken, DocumentBroken
<1>4. StreamInv' /\ given' = <<>> /\ end' = "open"
  BY <1>2, <1>3, Cleared DEF ChatInv
<1>5. CallTyped'
  BY <1>1 DEF ChatInv, CallTyped
<1>6. BodyFits' /\ Blames'
  BY <1>1, <1>4 DEF ChatInv, BodyFits, Blames
<1> QED
  BY <1>4, <1>5, <1>6 DEF ChatInv

(* A call returns, with an error of no status or the answer's.             *)
LEMMA CallReturned ==
    ASSUME ChatInv, NEW r \in {"nothing", "value", "zero", "raw"}, NEW e, Returns(r, e),
           phase \in {"document", "stream"}, end # "open",
           \/ e \in {Nil, Plain, Refused}
           \/ e = newAPIError(status, document.says) /\ status \in ErrorStatuses /\ given = <<>>,
           status \in ErrorStatuses /\ call \notin Raw =>
               \/ e = newAPIError(status, document.says)
               \/ document.kind = "lost" /\ call \in Decoding
    PROVE  ChatInv'
<1>1. /\ phase' = "idle"
      /\ result' = r
      /\ err' = e
      /\ UNCHANGED <<sseVars, request, call, body, status, document>>
  BY DEF Returns
<1>2. end' = end /\ given' = given
  BY <1>1 DEF sseVars
<1>3. StreamInv'
  BY <1>1, StreamStays DEF ChatInv
<1>4. CallTyped'
  BY <1>1, <1>2 DEF ChatInv, CallTyped
<1>5. BodyFits'
  BY <1>1 DEF ChatInv, BodyFits
<1>6. Blames'
  BY <1>1, <1>2 DEF Blames, FromStatus
<1> QED
  BY <1>3, <1>4, <1>5, <1>6 DEF ChatInv

(* The call returns with what is in the document.                          *)
LEMMA DocumentReturned ==
    ASSUME ChatInv, ReturnRaw \/ ReturnError \/ ReturnDecoded PROVE ChatInv'
<1>1. phase = "document" /\ end # "open" /\ given = <<>>
  BY DEF ChatInv, CallTyped, Blames, ReturnRaw, ReturnError, ReturnDecoded
<1>2. status \in {0, 200} \cup ErrorStatuses
  BY DEF ChatInv, CallTyped
<1>3. CASE ReturnRaw
  <2>1. \E r \in {"nothing", "raw"}, e \in {Plain, Nil} : Returns(r, e)
    BY <1>3 DEF ReturnRaw
  <2>2. call \in Raw
    BY <1>3 DEF ReturnRaw
  <2> QED
    BY <1>1, <2>1, <2>2, CallReturned
<1>4. CASE ReturnError
  <2>1. status \in ErrorStatuses
    BY <1>2, <1>4 DEF ReturnError
  <2>2. CASE document.kind = "lost" /\ call \in Decoding
    <3>1. Returns("nothing", Plain)
      BY <1>4, <2>2 DEF ReturnError
    <3> QED
      BY <1>1, <2>2, <3>1, CallReturned
  <2>3. CASE ~(document.kind = "lost" /\ call \in Decoding)
    <3>1. Returns("nothing", newAPIError(status, document.says))
      BY <1>4, <2>3 DEF ReturnError
    <3> QED
      BY <1>1, <2>1, <3>1, CallReturned
  <2> QED
    BY <2>2, <2>3
<1>5. CASE ReturnDecoded
  <2>1. \E r \in {"nothing", "value", "zero"}, e \in {Plain, Nil} : Returns(r, e)
    <3>1. document.kind \in Documents
      BY DEF ChatInv, CallTyped
    <3>2. CASE document.kind = "whole"
      BY <1>5, <3>2 DEF ReturnDecoded
    <3>3. CASE document.kind = "empty"
      BY <1>5, <3>3 DEF ReturnDecoded
    <3>4. CASE document.kind \in {"odd", "cut", "lost"}
      BY <1>5, <3>4 DEF ReturnDecoded
    <3> QED
      BY <3>1, <3>2, <3>3, <3>4 DEF Documents
  <2>2. status \notin ErrorStatuses
    BY <1>5 DEF ReturnDecoded, ErrorStatuses
  <2> QED
    BY <1>1, <2>1, <2>2, CallReturned
<1> QED
  BY <1>3, <1>4, <1>5

(* The call returns when its stream has ended.                             *)
LEMMA StreamReturned ==
    ASSUME ChatInv, ReturnStream PROVE ChatInv'
<1>1. phase = "stream" /\ end # "open" /\ status = 200
  BY DEF ChatInv, Blames, ReturnStream
<1>2. end \in {"ok", "refused", "broken"}
  BY <1>1 DEF ChatInv, StreamInv, Shape, Blames
<1>3. \E e \in {Nil, Refused, Plain} : Returns("nothing", e)
  <2>1. CASE end = "ok"
    BY <2>1 DEF ReturnStream
  <2>2. CASE end = "refused"
    BY <2>2 DEF ReturnStream
  <2>3. CASE end = "broken"
    BY <2>3 DEF ReturnStream
  <2> QED
    BY <1>2, <2>1, <2>2, <2>3
<1>4. status \notin ErrorStatuses
  BY <1>1 DEF ErrorStatuses
<1> QED
  BY <1>1, <1>3, <1>4, CallReturned

(* One step for each action of the client.                                 *)
LEMMA ChatInvNext == ChatInv /\ [Next]_vars => ChatInv'
<1> SUFFICES ASSUME ChatInv, [Next]_vars PROVE ChatInv'
  OBVIOUS
<1>1. ASSUME NEW m \in Methods, Start(m) \/ StartNil(m) PROVE ChatInv'
  BY <1>1, CallStarted, NilRefused
<1>2. CASE AnswerError
  <2>1. PICK s \in ErrorStatuses, k \in {"whole", "lost"}, b \in Bodies :
           Answer(s, [kind |-> k, says |-> b])
    BY <1>2 DEF AnswerError
  <2>2. k \in Documents
    BY DEF Documents
  <2> QED
    BY <2>1, <2>2, DocumentCame
<1>3. CASE AnswerDocument
  <2>1. PICK k \in Documents : Answer(200, [kind |-> k, says |-> NotObject("text")])
    BY <1>3 DEF AnswerDocument
  <2>2. NotObject("text") \in Bodies
    BY NotObjectIsBody
  <2> QED
    BY <2>1, <2>2, DocumentCame
<1>4. CASE ReadStream
  <2>1. /\ phase = "stream"
        /\ Read
        /\ UNCHANGED <<request, call, body, phase, status, document, result, err>>
    BY <1>4 DEF ReadStream, callVars
  <2>2. StreamInv'
    BY <2>1, StreamRead DEF ChatInv
  <2>3. end' # "none"
    BY <2>1 DEF Read, DeliverLine, SkipLine, Gather, Blank, FlushLast, Return, Flush,
                Scan, AtEnd
  <2>4. CallTyped' /\ BodyFits' /\ Blames'
    BY <2>1, <2>3 DEF ChatInv, CallTyped, BodyFits, Blames
  <2> QED
    BY <2>2, <2>4 DEF ChatInv
<1>5. CASE UNCHANGED vars
  <2>1. UNCHANGED <<sseVars, request, call, body, phase, status, document, result, err>>
    BY <1>5 DEF vars, callVars
  <2>2. UNCHANGED <<given, end>>
    BY <2>1 DEF sseVars
  <2>3. StreamInv'
    BY <2>1, StreamStays DEF ChatInv
  <2>4. CallTyped' /\ BodyFits'
    BY <2>1, <2>2 DEF ChatInv, CallTyped, BodyFits
  <2>5. Blames'
    BY <2>1, <2>2 DEF ChatInv, Blames, FromStatus
  <2> QED
    BY <2>3, <2>4, <2>5 DEF ChatInv
<1> QED
  BY <1>1, <1>2, <1>3, <1>4, <1>5, CallFailed, StreamCame, DocumentReturned, StreamReturned
     DEF Next

(* The invariant holds in every reachable state.                           *)
LEMMA AlwaysChatInv == Spec => []ChatInv
  BY ChatInvInit, ChatInvNext, PTL DEF Spec

-----------------------------------------------------------------------------
(* What a call returns                                                     *)

(* Decode returns a value for a whole document and nothing but an error    *)
(* for a bad one.                                                          *)
LEMMA DecodedReturns ==
    ASSUME ReturnDecoded, document.kind \in {"empty", "whole", "odd", "cut", "lost"}
    PROVE  \/ document.kind = "whole" /\ Returns("value", Nil)
           \/ document.kind = "empty" /\ Returns("zero", Nil)
           \/ Returns("nothing", Plain)
<1>1. CASE document.kind = "whole"
  BY <1>1 DEF ReturnDecoded
<1>2. CASE document.kind = "empty"
  BY <1>2 DEF ReturnDecoded
<1>3. CASE document.kind \in {"odd", "cut", "lost"}
  BY <1>3 DEF ReturnDecoded
<1> QED
  BY <1>1, <1>2, <1>3

(* A stream is read for the methods that stream, which read nothing but    *)
(* errors as a whole; and a call that returns nil has had all of it.       *)
Fulfilled ==
    /\ phase = "stream" => call \in Streaming
    /\ phase = "document" /\ call \in Streaming => status \in ErrorStatuses
    /\ phase = "idle" /\ status # 0 /\ err = Nil /\ call \notin Raw =>
          /\ status = 200
          /\ call \in Streaming => end = "ok"
          /\ call \in Decoding =>
                document.kind = (IF result = "value" THEN "whole" ELSE "empty")

(* Every step of the client keeps what nil means.                          *)
LEMMA FulfilledNext == ChatInv /\ Fulfilled /\ [Next]_vars => Fulfilled'
<1> SUFFICES ASSUME ChatInv, Fulfilled, [Next]_vars PROVE Fulfilled'
  OBVIOUS
<1>1. /\ Nil.type = "nil" /\ Nil.status = 0
      /\ Plain.type = "plain" /\ Plain.status = 0
      /\ Refused.type = "callback" /\ Refused.status = 0
  BY DEF Nil, Plain, Refused
<1>2. Plain # Nil /\ Refused # Nil
  BY <1>1
<1>3. /\ document.kind \in {"empty", "whole", "odd", "cut", "lost"}
      /\ status \in {0, 200} \cup ErrorStatuses
      /\ call \in Methods
  BY DEF ChatInv, CallTyped, Documents
<1>4. ASSUME NEW m \in Methods, Start(m) \/ StartNil(m) PROVE Fulfilled'
  BY <1>4 DEF Start, StartNil, Fulfilled
<1>5. CASE Fail
  BY <1>2, <1>5 DEF Fail, Fulfilled
<1>6. CASE AnswerError
  <2>1. PICK s \in ErrorStatuses, k \in {"whole", "lost"}, b \in Bodies :
           Answer(s, [kind |-> k, says |-> b])
    BY <1>6 DEF AnswerError
  <2> QED
    BY <2>1 DEF Answer, Fulfilled
<1>7. CASE AnswerDocument
  BY <1>7 DEF AnswerDocument, Answer, Fulfilled
<1>8. CASE AnswerStream
  BY <1>8 DEF AnswerStream, Fulfilled
<1>9. CASE ReturnRaw
  <2>1. call \in Raw /\ phase' = "idle" /\ call' = call
    BY <1>9 DEF ReturnRaw, Returns
  <2> QED
    BY <2>1 DEF Fulfilled
<1>10. CASE ReturnError
  <2>1. phase' = "idle" /\ (err' = Plain \/ err' = newAPIError(status, document.says))
    BY <1>10 DEF ReturnError, Returns
  <2>2. newAPIError(status, document.says).status = status
    BY DEF newAPIError
  <2>3. status # 0
    BY <1>10, <1>3 DEF ReturnError
  <2>4. err' # Nil
    BY <1>1, <1>2, <2>1, <2>2, <2>3
  <2> QED
    BY <2>1, <2>4 DEF Fulfilled
<1>11. CASE ReturnDecoded
  <2>1. call \in Decoding /\ call \notin Streaming /\ status = 200
    BY <1>11 DEF ReturnDecoded, Decoding, Streaming
  <2>2. \/ document.kind = "whole" /\ Returns("value", Nil)
        \/ document.kind = "empty" /\ Returns("zero", Nil)
        \/ Returns("nothing", Plain)
    BY <1>3, <1>11, DecodedReturns
  <2> QED
    BY <1>2, <2>1, <2>2 DEF Returns, Fulfilled
<1>12. CASE ReadStream
  <2>1. phase = "stream" /\ UNCHANGED callVars
    BY <1>12 DEF ReadStream
  <2> QED
    BY <2>1 DEF callVars, Fulfilled
<1>13. CASE ReturnStream
  <2>1. phase = "stream" /\ end # "open" /\ call \in Streaming /\ status = 200
    BY <1>13 DEF ReturnStream, Fulfilled, ChatInv, Blames
  <2>2. end \in {"ok", "refused", "broken"}
    BY <2>1 DEF ChatInv, StreamInv, Shape, Blames
  <2>3. \/ end = "ok" /\ Returns("nothing", Nil)
        \/ Returns("nothing", Refused) \/ Returns("nothing", Plain)
    <3>1. CASE end = "ok"
      BY <1>13, <3>1 DEF ReturnStream
    <3>2. CASE end = "refused"
      BY <1>13, <3>2 DEF ReturnStream
    <3>3. CASE end = "broken"
      BY <1>13, <3>3 DEF ReturnStream
    <3> QED
      BY <2>2, <3>1, <3>2, <3>3
  <2>4. call \notin Decoding
    BY <2>1 DEF Streaming, Decoding
  <2>5. UNCHANGED <<call, status, document>> /\ end' = end /\ phase' = "idle"
    BY <2>3 DEF Returns, sseVars
  <2>6. end = "ok" \/ err' # Nil
    BY <1>2, <2>3 DEF Returns
  <2> QED
    BY <2>1, <2>4, <2>5, <2>6 DEF Fulfilled
<1>14. CASE UNCHANGED vars
  <2>1. UNCHANGED <<call, phase, status, document, result, err, end>>
    BY <1>14 DEF vars, sseVars, callVars
  <2> QED
    BY <2>1 DEF Fulfilled
<1> QED
  BY <1>4, <1>5, <1>6, <1>7, <1>8, <1>9, <1>10, <1>11, <1>12, <1>13, <1>14 DEF Next

(* What the parser keeps holds while it keeps still.                       *)
LEMMA FaithfulStays ==
    ASSUME Faithful, UNCHANGED sseVars PROVE Faithful' /\ UNCHANGED D!deliveryVars
<1>1. UNCHANGED <<mode, stream, pos, haveData, clean, buf, memory, given, end>>
  BY DEF sseVars
<1>2. UNCHANGED <<Out, Promised>>
  BY <1>1 DEF Out, Promised
<1>3. AtHand' <=> AtHand
  BY <1>1 DEF AtHand
<1> QED
  BY <1>1, <1>2, <1>3 DEF Faithful, D!deliveryVars

(* Before the first call nothing has been given.                           *)
LEMMA FaithfulInit == Init => Faithful /\ D!DeliveryInit
<1> SUFFICES ASSUME Init PROVE Faithful /\ D!DeliveryInit
  OBVIOUS
<1>1. stream = Document /\ end = "none" /\ given = <<>>
  BY DEF Init, SSEInit
<1>2. Out = <<>>
  <2>1. DOMAIN given = {}
    BY <1>1
  <2> QED
    BY <1>1, <2>1 DEF Out
<1> QED
  BY <1>1, <1>2 DEF Faithful, D!DeliveryInit, D!Closed

(* Every step of the client is a step of the promise, or none.             *)
LEMMA FaithfulNext ==
    ChatInv /\ Faithful /\ [Next]_vars
        => Faithful' /\ [D!Open \/ D!Deliver \/ D!Finish]_D!deliveryVars
<1> SUFFICES ASSUME ChatInv, Faithful, [Next]_vars
             PROVE  /\ Faithful'
                    /\ D!Open \/ D!Deliver \/ D!Finish \/ UNCHANGED D!deliveryVars
  OBVIOUS
<1>1. StreamInv
  BY DEF ChatInv
<1>2. ASSUME NEW m \in Methods, Start(m) \/ StartNil(m) PROVE Faithful' /\ D!Open
  BY <1>1, <1>2, ClearFaithful DEF Start, StartNil, Close
<1>3. CASE AnswerStream
  <2>1. PICK s \in Streams \cup {Document} : Clear(s, "open")
    BY <1>3 DEF AnswerStream, Begin
  <2> QED
    BY <1>1, <2>1, ClearFaithful
<1>4. CASE ReadStream
  BY <1>1, <1>4, ReadFaithful DEF ReadStream
<1>5. ASSUME UNCHANGED sseVars PROVE Faithful' /\ UNCHANGED D!deliveryVars
  BY <1>5, FaithfulStays
<1>6. CASE \/ Fail \/ AnswerError \/ AnswerDocument \/ ReturnRaw \/ ReturnError
           \/ ReturnDecoded \/ ReturnStream \/ UNCHANGED vars
  <2>1. ASSUME NEW s, NEW doc, Answer(s, doc) PROVE UNCHANGED sseVars
    BY <2>1 DEF Answer
  <2>2. ASSUME NEW r, NEW e, Returns(r, e) PROVE UNCHANGED sseVars
    BY <2>2 DEF Returns
  <2>3. CASE Fail \/ UNCHANGED vars
    BY <1>5, <2>3 DEF Fail, vars
  <2>4. CASE AnswerError \/ AnswerDocument
    BY <1>5, <2>1, <2>4 DEF AnswerError, AnswerDocument
  <2>5. CASE ReturnRaw \/ ReturnError
    BY <1>5, <2>2, <2>5 DEF ReturnRaw, ReturnError
  <2>6. CASE ReturnDecoded
    <3>1. document.kind \in {"empty", "whole", "odd", "cut", "lost"}
      BY DEF ChatInv, CallTyped, Documents
    <3>2. \E r, e : Returns(r, e)
      BY <2>6, <3>1, DecodedReturns
    <3> QED
      BY <1>5, <2>2, <3>2
  <2>7. CASE ReturnStream
    BY <1>5, <2>2, <2>7 DEF ReturnStream
  <2> QED
    BY <1>6, <2>3, <2>4, <2>5, <2>6, <2>7
<1> QED
  BY <1>2, <1>3, <1>4, <1>6 DEF Next

-----------------------------------------------------------------------------
(* What follows                                                            *)

(* A payload that a callback keeps in event mode is never overwritten,     *)
(* however long the stream and whatever the calls before it were.          *)
THEOREM KeptPayloadsSurvive == Spec => []PayloadsSurvive
<1>1. ChatInv => PayloadsSurvive
  BY DEF ChatInv, StreamInv, Kept, PayloadsSurvive
<1> QED
  BY <1>1, AlwaysChatInv, PTL

(* A part of a payload is the last thing a line-mode stream gives before   *)
(* its error, and event mode never gives one.                              *)
THEOREM PartsComeBeforeErrors == Spec => []PartOnlyBeforeError
<1>1. ChatInv => PartOnlyBeforeError
  BY DEF ChatInv, StreamInv, Parts, PartOnlyBeforeError
<1> QED
  BY <1>1, AlwaysChatInv, PTL

(* Whatever Extra says, the body asks for the kind of answer its method    *)
(* reads.                                                                  *)
THEOREM AnswersFitCalls == Spec => []AnswerFitsCall
<1>1. ChatInv => AnswerFitsCall
  BY DEF ChatInv, BodyFits, AnswerFitsCall, Idle, Streams200, Conversations,
         Methods, Streaming, Decoding, Raw
<1> QED
  BY <1>1, AlwaysChatInv, PTL

(* Line by line or event by event, the parser gives the callback what the  *)
(* stream says, no more, in order, and returns as promised: every step of  *)
(* the client is one of Delivery, for any lines and any tokens in them.    *)
THEOREM ParserDeliversWhatStreamSays == Spec => ImplementsDelivery
<1>1. Spec => D!DeliveryInit
  BY FaithfulInit, PTL DEF Spec
<1>2. Spec => [](ChatInv /\ Faithful)
  BY AlwaysChatInv, FaithfulInit, FaithfulNext, PTL DEF Spec
<1>3. Spec => [][D!Open \/ D!Deliver \/ D!Finish]_D!deliveryVars
  BY <1>2, FaithfulNext, PTL DEF Spec
<1> QED
  BY <1>1, <1>3 DEF ImplementsDelivery, D!DeliverySpec

(* nil means that there is nothing more: a whole body for a decoded value, *)
(* and for a streaming call every payload of a stream that was not cut off.*)
THEOREM NilMeansThereIsNoMore == Spec => []NilMeansAll
<1>1. Init => Fulfilled
  BY DEF Init, Fulfilled
<1>2. Faithful /\ Fulfilled => NilMeansAll
  BY DEF Faithful, Fulfilled, NilMeansAll, Idle
<1> QED
  BY <1>1, <1>2, AlwaysChatInv, FaithfulInit, FaithfulNext, FulfilledNext, PTL DEF Spec

(* errors.Is says which of the four statuses the server gave, and nothing  *)
(* of the kind when the call failed otherwise.                             *)
THEOREM SentinelsMeanStatuses == Spec => []SentinelMeansStatus
<1>1. ASSUME ChatInv PROVE SentinelMeansStatus
  <2>1. /\ Nil.type = "nil" /\ Nil.status = 0
        /\ Plain.type = "plain" /\ Plain.status = 0
        /\ Refused.type = "callback" /\ Refused.status = 0
    BY DEF Nil, Plain, Refused
  <2>2. ASSUME FromStatus, status \in ErrorStatuses
        PROVE  err.type = wrapStatus(status) /\ err.message = Message(document.says)
    BY <2>2 DEF FromStatus, newAPIError
  <2>3. ASSUME phase = "idle", NEW n \in Sentinels, Is(err.type, n)
        PROVE  /\ given = <<>>
               /\ status = CASE n = "ErrUnauthorized" -> 401 [] n = "ErrForbidden" -> 403
                             [] n = "ErrNotFound" -> 404 [] n = "ErrRateLimited" -> 429
    <3>1. err \notin {Nil, Plain, Refused}
      BY <2>1, <2>3 DEF Is
    <3>2. FromStatus /\ status \in ErrorStatuses /\ given = <<>>
      BY <1>1, <2>3, <3>1 DEF ChatInv, Blames
    <3>3. Is(wrapStatus(status), n)
      BY <2>2, <2>3, <3>2
    <3>4. \/ n = "ErrUnauthorized" /\ status = 401
          \/ n = "ErrForbidden" /\ status = 403
          \/ n = "ErrNotFound" /\ status = 404
          \/ n = "ErrRateLimited" /\ status = 429
      BY <3>2, <3>3 DEF Is, wrapStatus, ErrorStatuses
    <3> QED
      BY <3>2, <3>4
  <2>4. ASSUME Idle, status \in ErrorStatuses \ {400}, call \notin Raw
        PROVE  \/ \E n \in Sentinels : Is(err.type, n)
               \/ document.kind = "lost" /\ call \in Decoding
    <3>1. FromStatus \/ (document.kind = "lost" /\ call \in Decoding)
      BY <1>1, <2>4 DEF ChatInv, Blames, Idle
    <3>2. CASE FromStatus
      <4>1. err.type = wrapStatus(status)
        BY <2>2, <2>4, <3>2
      <4> QED
        BY <2>4, <4>1 DEF wrapStatus, Is, Sentinels, ErrorStatuses
    <3> QED
      BY <3>1, <3>2
  <2>5. ASSUME Idle, err.status >= 400, document.says.form \in {"text", "object"}
        PROVE  err.message # "none"
    <3>1. err \notin {Nil, Plain, Refused}
      BY <2>1, <2>5
    <3>2. FromStatus /\ status \in ErrorStatuses
      BY <1>1, <2>5, <3>1 DEF ChatInv, Blames, Idle
    <3>3. err.message = Message(document.says)
      BY <2>2, <3>2
    <3>4. Message(document.says) # "none"
      BY <2>5 DEF Message, Truncated, GatewayShape
    <3> QED
      BY <3>3, <3>4
  <2> QED
    BY <2>3, <2>4, <2>5 DEF SentinelMeansStatus
<1> QED
  BY <1>1, AlwaysChatInv, PTL

(* Types.                                                                  *)
THEOREM ChatTypes == Spec => []TypeOK
<1>1. ChatInv => TypeOK
  BY DEF ChatInv, StreamInv, Shape, Counts, CallTyped, TypeOK
<1> QED
  BY <1>1, AlwaysChatInv, PTL
=============================================================================
