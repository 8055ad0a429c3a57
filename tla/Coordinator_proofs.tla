--------------------------- MODULE Coordinator_proofs ---------------------------
(***************************************************************************)
(* What Coordinator promises for any number of drones, lanes and losses.   *)
(***************************************************************************)
EXTENDS Coordinator, SetInduction, SequenceTheorems, FiniteSetTheorems

\* How the mission thread and LAND ALL share the flag, the start_at messages and
\* the landings: who may set or reset which of them.
LEMMA LandAllStep ==
    ASSUME LandAllIsLast, [Next]_vars
    PROVE  LandAllIsLast'
<1> USE DEF LandAllIsLast, Idle, edges
<1>1. CASE UNCHANGED vars
  BY <1>1 DEF vars
<1>2. CASE Plan
  BY <1>2 DEF Plan
<1>3. CASE Start
  BY <1>3 DEF Start
<1>4. CASE LandAll
  BY <1>4 DEF LandAll
<1>5. ASSUME NEW d \in Drones, CheckLosses(d) PROVE LandAllIsLast'
  BY <1>5 DEF CheckLosses
<1>6. ASSUME NEW d \in Drones, SendStart(d) PROVE LandAllIsLast'
  BY <1>6 DEF SendStart, Abort
<1>7. ASSUME NEW d \in Drones, LandLost(d) \/ Summarise(d) \/ Lose(d) PROVE LandAllIsLast'
  <2>1. CASE LandLost(d)
    BY <2>1 DEF LandLost
  <2>2. CASE Summarise(d) \/ Lose(d)
    <3>1. Summarise(d) => mission.op = "waiting" /\ UNCHANGED <<landedAll, landing, startLast>>
      BY DEF Summarise
    <3>2. Lose(d) => mission.op = "losing" /\ UNCHANGED <<landedAll, landing, startLast>>
      BY DEF Lose
    <3>. QED
      BY <2>2, <3>1, <3>2
  <2>. QED
    BY <1>7, <2>1, <2>2
<1>8. CASE PlanDone
  BY <1>8 DEF PlanDone
<1>9. CASE StartDone
  BY <1>9 DEF StartDone, Abort, StartOk
<1>10. CASE AbortSent
  BY <1>10 DEF AbortSent
<1>11. CASE LandAllSent
  BY <1>11 DEF LandAllSent
<1>12. ASSUME NEW t \in Threads, Sends(t) PROVE LandAllIsLast'
  <2>1. UNCHANGED <<landedAll, landing, mission, startLast>>
    BY <1>12 DEF Sends, SendAssign, OfferLost, OfferLate, OfferNotSent
  <2>. QED
    BY <2>1
<1>13. ASSUME NEW d \in Drones, OnAck(d) \/ OnNack(d) \/ Telemetry(d) PROVE LandAllIsLast'
  <2>1. UNCHANGED <<landedAll, landing, mission, startLast>>
    BY <1>13 DEF OnAck, OnNack, Telemetry
  <2>. QED
    BY <2>1
<1>14. ASSUME NEW o \in unsent["mission"], PlanNotSent(o[1], o[2]) PROVE LandAllIsLast'
  BY <1>14 DEF PlanNotSent
<1>. QED
  BY <1>1, <1>2, <1>3, <1>4, <1>5, <1>6, <1>7, <1>8, <1>9, <1>10, <1>11, <1>12, <1>13, <1>14
     DEF Next, ThreadStep, MissionStep, LinkStep, Threads

\* LAND ALL is the last command every edge receives, however it meets a start.
THEOREM LandAllComesLast == Spec => []LandAllIsLast
<1>1. Init => LandAllIsLast
  BY DEF Init, LandAllIsLast
<1>. QED
  BY <1>1, LandAllStep, PTL DEF Spec

----------------------------------------------------------------------------
(* Paths: sequences of lanes, and which lanes are in them.                 *)

\* No planned lane is twice in the path; Transit may be.
Once(path) == \A i, j \in DOMAIN path : path[i] = path[j] /\ path[i] \in PlannedLanes => i = j

\* No planned lane is in both paths.
Disjoint(p, q) == \A l \in PlannedLanes : ~(l \in Range(p) /\ l \in Range(q))

\* A lane is in a path when it is at one of its places.
LEMMA InPath ==
    ASSUME NEW S, NEW p \in Seq(S)
    PROVE  /\ DOMAIN p = 1..Len(p) /\ Len(p) \in Nat
           /\ \A l : l \in Range(p) <=> \E i \in 1..Len(p) : p[i] = l
           /\ Range(p) \subseteq S
<1>1. DOMAIN p = 1..Len(p) /\ Len(p) \in Nat /\ \A i \in 1..Len(p) : p[i] \in S
  BY LenProperties, ElementOfSeq
<1>. QED
  BY <1>1 DEF Range

\* One path after another.
LEMMA Joined ==
    ASSUME NEW p \in Seq(Lanes), NEW q \in Seq(Lanes)
    PROVE  /\ p \o q \in Seq(Lanes)
           /\ \A l : l \in Range(p \o q) <=> l \in Range(p) \/ l \in Range(q)
           /\ Once(p) /\ Once(q) /\ Disjoint(p, q) => Once(p \o q)
<1> DEFINE r == p \o q
           m == Len(p)
           n == Len(q)
<1>1. /\ r \in Seq(Lanes) /\ Len(r) = m + n /\ m \in Nat /\ n \in Nat
      /\ \A i \in 1..(m + n) : r[i] = IF i <= m THEN p[i] ELSE q[i - m]
  BY ConcatProperties, LenProperties
<1>2. Range(r) = Range(p) \cup Range(q)
  BY RangeConcatenation
<1>3. ASSUME Once(p), Once(q), Disjoint(p, q) PROVE Once(r)
  <2>1. /\ DOMAIN r = 1..(m + n) /\ DOMAIN p = 1..m /\ DOMAIN q = 1..n
        /\ \A i \in 1..m : p[i] \in Range(p)
        /\ \A i \in 1..n : q[i] \in Range(q)
    BY <1>1, InPath
  <2> SUFFICES ASSUME NEW i \in 1..(m + n), NEW j \in 1..(m + n), r[i] = r[j], r[i] \in PlannedLanes
               PROVE  i = j
    BY <2>1 DEF Once
  <2> HIDE DEF r, m, n
  <2>2. CASE i <= m /\ j <= m
    <3>1. i \in 1..m /\ j \in 1..m
      BY <1>1, <2>2
    <3>. QED
      BY <1>1, <1>3, <2>1, <2>2, <3>1 DEF Once
  <2>3. CASE ~(i <= m) /\ ~(j <= m)
    <3>1. i - m \in 1..n /\ j - m \in 1..n
      BY <1>1, <2>3
    <3>2. r[i] = q[i - m] /\ r[j] = q[j - m]
      BY <1>1, <2>3
    <3>3. i - m = j - m
      BY <1>3, <2>1, <3>1, <3>2 DEF Once
    <3>. QED
      BY <1>1, <3>3
  <2>4. ASSUME NEW k \in 1..(m + n), NEW h \in 1..(m + n), k <= m, ~(h <= m) PROVE ~(r[k] = r[h] /\ r[k] \in PlannedLanes)
    <3>1. k \in 1..m /\ h - m \in 1..n
      BY <1>1, <2>4
    <3>2. r[k] = p[k] /\ r[h] = q[h - m]
      BY <1>1, <2>4
    <3>. QED
      BY <1>3, <2>1, <3>1, <3>2 DEF Disjoint
  <2>. QED
    BY <2>2, <2>3, <2>4
<1>. QED
  BY <1>1, <1>2, <1>3

\* A part of a path.
LEMMA PartOf ==
    ASSUME NEW p \in Seq(Lanes), NEW m \in Nat \ {0}, NEW n \in Nat, n <= Len(p)
    PROVE  /\ SubSeq(p, m, n) \in Seq(Lanes)
           /\ \A l : l \in Range(SubSeq(p, m, n)) <=> \E i \in m..n : p[i] = l
           /\ Once(p) => Once(SubSeq(p, m, n))
<1> DEFINE q == SubSeq(p, m, n)
<1>1. Len(p) \in Nat /\ DOMAIN p = 1..Len(p) /\ \A i \in m..n : i \in 1..Len(p) /\ p[i] \in Lanes
  BY InPath, ElementOfSeq, LenProperties
<1>2. /\ q \in Seq(Lanes)
      /\ Len(q) = IF m <= n THEN n - m + 1 ELSE 0
      /\ \A i \in 1..(n - m + 1) : q[i] = p[m + i - 1]
  BY <1>1, SubSeqProperties
<1> HIDE DEF q
<1>3. /\ DOMAIN q = 1..(n - m + 1) /\ \A l : l \in Range(q) <=> \E i \in 1..(n - m + 1) : q[i] = l
  <2>1. 1..Len(q) = 1..(n - m + 1)
    BY <1>2
  <2>. QED
    BY <1>2, <2>1, InPath
<1>4. ASSUME NEW l PROVE l \in Range(q) <=> \E i \in m..n : p[i] = l
  <2>1. ASSUME NEW i \in m..n, p[i] = l PROVE l \in Range(q)
    <3>1. i - m + 1 \in 1..(n - m + 1) /\ m + (i - m + 1) - 1 = i
      OBVIOUS
    <3>. QED
      BY <1>2, <1>3, <2>1, <3>1
  <2>2. ASSUME NEW i \in 1..(n - m + 1), q[i] = l PROVE \E j \in m..n : p[j] = l
    <3>1. m + i - 1 \in m..n
      OBVIOUS
    <3>. QED
      BY <1>2, <2>2, <3>1
  <2>. QED
    BY <1>3, <2>1, <2>2
<1>5. ASSUME Once(p) PROVE Once(q)
  <2> SUFFICES ASSUME NEW i \in 1..(n - m + 1), NEW j \in 1..(n - m + 1), q[i] = q[j], q[i] \in PlannedLanes
               PROVE  i = j
    BY <1>3 DEF Once
  <2>1. m + i - 1 \in DOMAIN p /\ m + j - 1 \in DOMAIN p
    BY <1>1
  <2>2. m + i - 1 = m + j - 1
    BY <1>2, <1>5, <2>1 DEF Once
  <2>. QED
    BY <2>2
<1>. QED
  BY <1>2, <1>4, <1>5 DEF q

\* A path that is cut up: each of its lanes is in a piece, and in no two of them.
LEMMA CutUp ==
    ASSUME NEW path \in Seq(Lanes), NEW pieces \in Cuts(path)
    PROVE  /\ pieces \in Seq(Seq(Lanes))
           /\ \A l : l \in Range(path) <=> \E k \in 1..Len(pieces) : l \in Range(pieces[k])
           /\ Once(path) => /\ \A k \in 1..Len(pieces) : Once(pieces[k])
                            /\ \A j, k \in 1..Len(pieces) : j # k => Disjoint(pieces[j], pieces[k])
<1> DEFINE N == Len(path)
<1>1. N \in Nat /\ DOMAIN path = 1..N /\ \A l : l \in Range(path) <=> \E i \in 1..N : path[i] = l
  BY InPath
<1>2. CASE path = <<>>
  <2>1. pieces = <<>> /\ N = 0
    BY <1>2 DEF Cuts
  <2>2. pieces \in Seq(Seq(Lanes)) /\ Len(pieces) = 0
    BY <2>1
  <2>3. 1..N = {} /\ 1..Len(pieces) = {}
    BY <2>1, <2>2
  <2>. QED
    BY <1>1, <2>2, <2>3
<1>3. CASE path # <<>>
  <2> DEFINE From(e, k) == IF k = 1 THEN 1 ELSE e[k - 1] + 1
  <2>0. PICK n \in 1..N : \E e \in [1..n -> 1..N] :
           /\ e[n] = N /\ \A j, k \in 1..n : j < k => e[j] < e[k]
           /\ pieces = [k \in DOMAIN e |-> SubSeq(path, From(e, k), e[k])]
    BY <1>3 DEF Cuts
  <2>1. PICK e \in [1..n -> 1..N] :
           /\ e[n] = N /\ \A j, k \in 1..n : j < k => e[j] < e[k]
           /\ pieces = [k \in DOMAIN e |-> SubSeq(path, From(e, k), e[k])]
    BY <2>0
  <2> DEFINE a == [k \in 1..n |-> From(e, k)]
  <2>2. n \in Nat \ {0} /\ \A k \in 1..n : e[k] \in 1..N /\ e[k] \in Nat
    BY <1>1, <2>1
  <2>3. ASSUME NEW k \in 1..n PROVE a[k] \in Nat \ {0} /\ pieces[k] = SubSeq(path, a[k], e[k])
    <3>1. k = 1 \/ (k - 1 \in 1..n /\ k # 1)
      BY <2>2
    <3>2. a[k] = From(e, k) /\ From(e, k) \in Nat \ {0}
      BY <2>2, <3>1
    <3>3. DOMAIN e = 1..n
      BY <2>1
    <3> HIDE DEF From, a
    <3>. QED
      BY <2>1, <3>2, <3>3
  <2>4. a[1] = 1
    BY <2>2
  <2>5. \A k \in 2..n : k - 1 \in 1..n /\ k \in 1..n /\ a[k] = e[k - 1] + 1
    BY <2>2
  <2> HIDE DEF a
  <2>6. ASSUME NEW k \in 1..n
        PROVE  /\ pieces[k] \in Seq(Lanes)
               /\ \A l : l \in Range(pieces[k]) <=> \E i \in a[k]..e[k] : path[i] = l
               /\ Once(path) => Once(pieces[k])
    <3>1. a[k] \in Nat \ {0} /\ e[k] \in Nat /\ e[k] <= N /\ pieces[k] = SubSeq(path, a[k], e[k])
      BY <2>2, <2>3
    <3> DEFINE q == SubSeq(path, a[k], e[k])
    <3>2. /\ q \in Seq(Lanes)
          /\ \A l : l \in Range(q) <=> \E i \in a[k]..e[k] : path[i] = l
          /\ Once(path) => Once(q)
      BY <3>1, PartOf
    <3> HIDE DEF q
    <3>3. pieces[k] = q
      BY <3>1 DEF q
    <3>. QED
      BY <3>2, <3>3
  <2>7. pieces \in Seq(Seq(Lanes)) /\ Len(pieces) = n
    <3>1. pieces \in [1..n -> Seq(Lanes)]
      BY <2>1, <2>6
    <3>. QED
      BY <2>2, <3>1, SeqDef, LenProperties
  <2>8. ASSUME NEW j \in 1..N PROVE \E k \in 1..n : j \in a[k]..e[k]
    <3> DEFINE T == {k \in 1..n : j <= e[k]}
    <3>1. T \in SUBSET Nat /\ T # {}
      <4>1. n \in T
        BY <2>1, <2>2
      <4>. QED
        BY <2>2, <4>1
    <3>2. PICK k \in T : \A h \in T : k <= h
      BY <3>1, LeastNatural
    <3>3. a[k] <= j
      <4>1. CASE k = 1
        BY <2>4, <4>1
      <4>2. CASE k # 1
        <5>1. k \in 2..n /\ k - 1 \notin T
          BY <2>2, <3>2, <4>2
        <5>2. ~(j <= e[k - 1]) /\ e[k - 1] \in Nat
          BY <2>2, <2>5, <5>1
        <5>. QED
          BY <2>5, <5>1, <5>2
      <4>. QED
        BY <4>1, <4>2
    <3>. QED
      BY <2>2, <2>3, <3>2, <3>3
  <2>9. ASSUME NEW k \in 1..n PROVE a[k]..e[k] \subseteq 1..N
    BY <2>2, <2>3
  <2>10. ASSUME NEW l PROVE l \in Range(path) <=> \E k \in 1..n : l \in Range(pieces[k])
    <3>1. ASSUME NEW j \in 1..N, path[j] = l PROVE \E k \in 1..n : l \in Range(pieces[k])
      <4>1. PICK k \in 1..n : j \in a[k]..e[k]
        BY <2>8
      <4>. QED
        BY <2>6, <3>1, <4>1
    <3>2. ASSUME NEW k \in 1..n, l \in Range(pieces[k]) PROVE l \in Range(path)
      <4>1. PICK i \in a[k]..e[k] : path[i] = l
        BY <2>6, <3>2
      <4>. QED
        BY <1>1, <2>9, <4>1
    <3>. QED
      BY <1>1, <3>1, <3>2
  <2>11. ASSUME NEW j \in 1..n, NEW k \in 1..n, j < k, NEW g \in a[j]..e[j], NEW h \in a[k]..e[k] PROVE g < h
    <3>1. k \in 2..n /\ e[j] <= e[k - 1]
      <4>1. k \in 2..n
        BY <2>2, <2>11
      <4>2. j = k - 1 \/ j < k - 1
        BY <2>11
      <4>3. k - 1 \in 1..n
        BY <2>2, <4>1
      <4>4. e[j] \in Nat /\ e[k - 1] \in Nat
        BY <2>2, <4>3
      <4>5. j < k - 1 => e[j] < e[k - 1]
        BY <2>1, <4>3
      <4>. QED
        BY <4>1, <4>2, <4>4, <4>5
    <3>2. a[k] = e[k - 1] + 1 /\ k - 1 \in 1..n
      BY <2>5, <3>1
    <3>3. e[k - 1] \in Nat /\ e[j] \in Nat /\ e[k] \in Nat /\ a[j] \in Nat
      BY <2>2, <2>3, <3>2
    <3>. QED
      BY <3>1, <3>2, <3>3
  <2>12. ASSUME Once(path), NEW j \in 1..n, NEW k \in 1..n, j < k PROVE Disjoint(pieces[j], pieces[k])
    <3> SUFFICES ASSUME NEW l \in PlannedLanes, l \in Range(pieces[j]), l \in Range(pieces[k]) PROVE FALSE
      BY DEF Disjoint
    <3>1. PICK g \in a[j]..e[j] : path[g] = l
      BY <2>6
    <3>2. PICK h \in a[k]..e[k] : path[h] = l
      BY <2>6
    <3>3. g \in DOMAIN path /\ h \in DOMAIN path
      BY <1>1, <2>9
    <3>4. g = h
      BY <2>12, <3>1, <3>2, <3>3 DEF Once
    <3>5. g < h /\ g \in Int
      BY <2>11, <2>12
    <3>. QED
      BY <3>4, <3>5
  <2>13. ASSUME Once(path), NEW j \in 1..n, NEW k \in 1..n, j # k PROVE Disjoint(pieces[j], pieces[k])
    <3>1. j < k \/ k < j
      BY <2>2, <2>13
    <3>. QED
      BY <2>12, <2>13, <3>1 DEF Disjoint
  <2>. QED
    BY <2>6, <2>7, <2>10, <2>13
<1>. QED
  BY <1>2, <1>3

\* Paths put together: the lanes of all of them, none twice if none is in two.
LEMMA Flattened ==
    ASSUME NEW s \in Seq(Seq(Lanes))
    PROVE  /\ FlattenSeq(s) \in Seq(Lanes)
           /\ \A l : l \in Range(FlattenSeq(s)) <=> \E i \in 1..Len(s) : l \in Range(s[i])
           /\ (\A i \in 1..Len(s) : Once(s[i]))
              /\ (\A i, j \in 1..Len(s) : i # j => Disjoint(s[i], s[j]))
              => Once(FlattenSeq(s))
<1> DEFINE N == Len(s)
           Parts == /\ \A i \in 1..N : Once(s[i])
                    /\ \A i, j \in 1..N : i # j => Disjoint(s[i], s[j])
<1>1. CASE s = <<>>
  <2>1. N = 0 /\ FlattenSeq(s) = <<>> /\ FlattenSeq(s) \in Seq(Lanes)
    BY <1>1 DEF FlattenSeq
  <2>2. 1..N = {} /\ DOMAIN FlattenSeq(s) = {}
    BY <2>1
  <2>. QED
    BY <2>1, <2>2 DEF Range, Once
<1>2. CASE s # <<>>
  <2>1. PICK f \in [1..N -> Seq(Lanes)] : /\ \A i \in 1..N : f[i] = FlattenStep(s, f, i)
                                          /\ FlattenSeq(s) = f[N]
    BY <1>2, FlattenDef
  <2>2. N \in Nat \ {0} /\ \A i \in 1..N : s[i] \in Seq(Lanes)
    BY <1>2, LenProperties, ElementOfSeq, EmptySeq
  <2> DEFINE Good(m) == /\ \A l : l \in Range(f[m]) <=> \E i \in 1..m : l \in Range(s[i])
                        /\ Parts => Once(f[m])
             T == {m \in 0..N : m = 0 \/ Good(m)}
  <2>3. 0 \in T
    BY <2>2
  <2>4. ASSUME NEW m \in 0..N, m \in T, m < N PROVE m + 1 \in T
    <3>1. m \in Nat /\ m + 1 \in 1..N /\ m + 1 \in 0..N /\ s[m + 1] \in Seq(Lanes)
      BY <2>2, <2>4
    <3>2. CASE m = 0
      <4>1. f[1] = s[1] /\ 1..1 = {1}
        <5>1. 1 \in 1..N /\ FlattenStep(s, f, 1) = s[1]
          BY <2>2 DEF FlattenStep
        <5>. QED
          BY <2>1, <5>1
      <4>. QED
        BY <2>2, <3>1, <3>2, <4>1
    <3>3. CASE m # 0
      <4>1. f[m] \in Seq(Lanes) /\ f[m + 1] = f[m] \o s[m + 1] /\ Good(m)
        <5>1. m \in 1..N /\ m + 1 # 1 /\ (m + 1) - 1 = m
          BY <2>2, <3>1, <3>3
        <5>2. FlattenStep(s, f, m + 1) = f[m] \o s[m + 1]
          BY <5>1 DEF FlattenStep
        <5>. QED
          BY <2>1, <2>4, <3>1, <3>3, <5>1, <5>2
      <4>2. /\ \A l : l \in Range(f[m + 1]) <=> l \in Range(f[m]) \/ l \in Range(s[m + 1])
            /\ Once(f[m]) /\ Once(s[m + 1]) /\ Disjoint(f[m], s[m + 1]) => Once(f[m + 1])
        BY <3>1, <4>1, Joined
      <4>3. \A i \in 1..(m + 1) : i = m + 1 \/ i \in 1..m
        BY <3>1
      <4>4. \A i \in 1..m : i \in 1..(m + 1) /\ i \in 1..N /\ i # m + 1
        BY <3>1
      <4>5. ASSUME NEW l PROVE l \in Range(f[m + 1]) <=> \E i \in 1..(m + 1) : l \in Range(s[i])
        <5>1. m + 1 \in 1..(m + 1)
          BY <3>1
        <5>. QED
          BY <4>1, <4>2, <4>3, <4>4, <5>1
      <4>6. ASSUME Parts PROVE Once(f[m + 1])
        <5>1. Disjoint(f[m], s[m + 1])
          BY <3>1, <4>1, <4>4, <4>6 DEF Disjoint
        <5>. QED
          BY <3>1, <4>1, <4>2, <4>6, <5>1
      <4>7. Good(m + 1)
        BY <4>5, <4>6
      <4>. QED
        BY <3>1, <4>7
    <3>. QED
      BY <3>2, <3>3
  <2> HIDE DEF T
  <2>5. N \in T
    <3>1. \A n \in 0..N : n \in T
      BY <2>2, <2>3, <2>4, UpTo
    <3>. QED
      BY <2>2, <3>1
  <2>6. Good(N) /\ f[N] \in Seq(Lanes)
    <3>1. N # 0 /\ N \in 1..N /\ (N = 0 \/ Good(N))
      BY <2>2, <2>5 DEF T
    <3> HIDE DEF Good
    <3>. QED
      BY <2>1, <3>1
  <2>. QED
    BY <2>1, <2>6
<1>. QED
  BY <1>1, <1>2

----------------------------------------------------------------------------
(* The operators on the book: what each leaves of it.                      *)

Books == [lanes : [Drones -> Seq(Lanes)], acked : SUBSET Drones, nacked : SUBSET Drones,
          offer : [Drones -> Offers \cup {None}], lost : SUBSET Drones, closed : SUBSET Drones,
          chunks : Seq(Chunks)]

\* The offers, the acks, the losses and the chunks agree with each other.
Kept(b) ==
    /\ b \in Books /\ b.closed \subseteq b.lost
    /\ \A d \in Drones : b.offer[d] # None <=> \E i \in DOMAIN b.chunks : OfferedTo(b.chunks[i], d)
    /\ \A d \in Drones : b.offer[d] # None => d \notin b.acked \cup b.lost
    /\ \A i \in DOMAIN b.chunks :
          b.chunks[i].status \in {"offered", "acked"} => b.chunks[i].receiver \in Drones

\* The lanes of a drone before what it is offered.
Base(b, d) == IF b.offer[d] = None THEN b.lanes[d] ELSE b.offer[d].base

\* The same chunks, whatever became of them.
SameChunks(b, n) ==
    /\ DOMAIN n.chunks = DOMAIN b.chunks
    /\ \A i \in DOMAIN b.chunks : /\ n.chunks[i].of = b.chunks[i].of
                                  /\ n.chunks[i].lanes = b.chunks[i].lanes

SameFate(b, n, i) ==
    n.chunks[i].status = b.chunks[i].status /\ n.chunks[i].receiver = b.chunks[i].receiver

\* The parts of a book, and of its chunks.
LEMMA BookParts ==
    ASSUME NEW b \in Books
    PROVE  /\ b.lanes \in [Drones -> Seq(Lanes)] /\ b.offer \in [Drones -> Offers \cup {None}]
           /\ b.acked \subseteq Drones /\ b.nacked \subseteq Drones
           /\ b.lost \subseteq Drones /\ b.closed \subseteq Drones
           /\ b.chunks \in Seq(Chunks) /\ DOMAIN b.chunks = 1..Len(b.chunks) /\ Len(b.chunks) \in Nat
           /\ \A i \in DOMAIN b.chunks :
                 /\ b.chunks[i] \in Chunks /\ b.chunks[i].lanes \in Seq(Lanes)
                 /\ b.chunks[i].of \in Drones
                 /\ b.chunks[i].status \in {"queued", "offered", "acked", "failed"}
                 /\ b.chunks[i].receiver \in Drones \cup {None}
           /\ \A d \in Drones : b.offer[d] # None =>
                 b.offer[d] \in Offers /\ b.offer[d].base \in Seq(Lanes) /\ b.offer[d].acked \in BOOLEAN
           /\ \A d \in Drones : Base(b, d) \in Seq(Lanes)
<1>1. /\ b.lanes \in [Drones -> Seq(Lanes)] /\ b.offer \in [Drones -> Offers \cup {None}]
      /\ b.acked \subseteq Drones /\ b.nacked \subseteq Drones
      /\ b.lost \subseteq Drones /\ b.closed \subseteq Drones
      /\ b.chunks \in Seq(Chunks)
  BY DEF Books
<1>2. DOMAIN b.chunks = 1..Len(b.chunks) /\ Len(b.chunks) \in Nat
  BY <1>1, InPath
<1>3. \A i \in DOMAIN b.chunks : b.chunks[i] \in Chunks
  BY <1>1, <1>2, ElementOfSeq
<1>4. \A c \in Chunks : /\ c.lanes \in Seq(Lanes) /\ c.of \in Drones
                        /\ c.status \in {"queued", "offered", "acked", "failed"}
                        /\ c.receiver \in Drones \cup {None}
  BY DEF Chunks
<1>5. \A o \in Offers : o.base \in Seq(Lanes) /\ o.acked \in BOOLEAN
  BY DEF Offers
<1>6. \A d \in Drones : b.offer[d] # None => b.offer[d] \in Offers
  BY <1>1
<1>7. \A d \in Drones : Base(b, d) \in Seq(Lanes)
  BY <1>1, <1>5, <1>6 DEF Base
<1>. QED
  BY <1>1, <1>2, <1>3, <1>4, <1>5, <1>6, <1>7

\* A chunk with another status and another receiver.
LEMMA ChunkChanged ==
    ASSUME NEW c \in Chunks
    PROVE  /\ \A st \in {"queued", "offered", "acked", "failed"} :
                /\ [c EXCEPT !.status = st] \in Chunks
                /\ \A r \in Drones \cup {None} : [c EXCEPT !.status = st, !.receiver = r] \in Chunks
           /\ \A p \in {"acked", "failed", None} : [c EXCEPT !.reported = p] \in Chunks
           /\ \A p \in SUBSET Drones : [c EXCEPT !.deferred = p] \in Chunks
  BY DEF Chunks

\* _settle_and_collect_locked reports chunks, and changes nothing else in them.
LEMMA CollectedChunks ==
    ASSUME NEW cs \in Seq(Chunks), NEW closed
    PROVE  /\ Collected(cs, closed) \in Seq(Chunks)
           /\ Len(Collected(cs, closed)) = Len(cs) /\ DOMAIN Collected(cs, closed) = DOMAIN cs
           /\ \A i \in DOMAIN cs :
                 /\ Collected(cs, closed)[i].of = cs[i].of
                 /\ Collected(cs, closed)[i].lanes = cs[i].lanes
                 /\ Collected(cs, closed)[i].status = cs[i].status
                 /\ Collected(cs, closed)[i].receiver = cs[i].receiver
<1> DEFINE ds == Collected(cs, closed)
<1>1. DOMAIN cs = 1..Len(cs) /\ Len(cs) \in Nat /\ \A i \in 1..Len(cs) : cs[i] \in Chunks
  BY InPath, ElementOfSeq
<1>2. /\ DOMAIN ds = DOMAIN cs /\ ds = [i \in DOMAIN cs |-> ds[i]]
      /\ \A i \in DOMAIN cs : ds[i] = IF cs[i].of \in closed /\ cs[i].status \in Final
                               THEN [cs[i] EXCEPT !.reported = cs[i].status] ELSE cs[i]
  BY DEF Collected
<1> HIDE DEF ds
<1>3. ASSUME NEW i \in DOMAIN cs
      PROVE  /\ ds[i] \in Chunks
             /\ ds[i].of = cs[i].of /\ ds[i].lanes = cs[i].lanes
             /\ ds[i].status = cs[i].status /\ ds[i].receiver = cs[i].receiver
  <2>1. cs[i] \in Chunks
    BY <1>1
  <2>2. CASE cs[i].of \in closed /\ cs[i].status \in Final
    <3>1. ds[i] = [cs[i] EXCEPT !.reported = cs[i].status] /\ cs[i].status \in {"acked", "failed", None}
      BY <1>2, <2>2 DEF Final
    <3>2. ds[i] \in Chunks
      BY <2>1, <3>1, ChunkChanged
    <3>3. \A c \in Chunks : \A p : LET e == [c EXCEPT !.reported = p] IN
            e.of = c.of /\ e.lanes = c.lanes /\ e.status = c.status /\ e.receiver = c.receiver
      BY DEF Chunks
    <3>. QED
      BY <2>1, <3>1, <3>2, <3>3
  <2>3. CASE ~(cs[i].of \in closed /\ cs[i].status \in Final)
    BY <1>2, <2>1, <2>3
  <2>. QED
    BY <2>2, <2>3
<1>4. ds \in [1..Len(cs) -> Chunks]
  BY <1>1, <1>2, <1>3
<1>5. ds \in Seq(Chunks) /\ Len(ds) = Len(cs)
  BY <1>1, <1>4, SeqDef, LenProperties
<1>. QED
  BY <1>2, <1>3, <1>5 DEF ds

\* A drone that is not given a chunk in this round is given no lanes either; the
\* lanes of one that is are those of its chunks, each after a transit.
LEMMA AppendedLanes ==
    ASSUME NEW b \in Books, NEW to, DOMAIN to \subseteq DOMAIN b.chunks, NEW d \in Drones
    PROVE  /\ Appended(b, to, d) \in Seq(Lanes)
           /\ \A l \in Range(Appended(b, to, d)) : l # Transit =>
                 \E i \in DOMAIN to : to[i] = d /\ l \in Range(b.chunks[i].lanes)
           /\ \A i \in DOMAIN to : to[i] = d =>
                 Range(b.chunks[i].lanes) \subseteq Range(Appended(b, to, d))
           /\ ~Given(b, to, d) => Appended(b, to, d) = <<>>
           /\ (\A i \in DOMAIN to : Once(b.chunks[i].lanes))
              /\ (\A i, j \in DOMAIN to : i # j => Disjoint(b.chunks[i].lanes, b.chunks[j].lanes))
              => Once(Appended(b, to, d))
<1> DEFINE Mine(i) == i \in DOMAIN to /\ to[i] = d
           s == [i \in DOMAIN b.chunks |->
                   IF i \in DOMAIN to /\ to[i] = d THEN <<Transit>> \o b.chunks[i].lanes ELSE <<>>]
           N == Len(b.chunks)
           a == Appended(b, to, d)
<1>1. DOMAIN b.chunks = 1..N /\ N \in Nat /\ \A i \in 1..N : b.chunks[i].lanes \in Seq(Lanes)
  BY BookParts
<1>2. /\ <<Transit>> \in Seq(Lanes) /\ Once(<<Transit>>) /\ Range(<<Transit>>) = {Transit}
      /\ <<>> \in Seq(Lanes) /\ Once(<<>>) /\ Range(<<>>) = {}
  BY TransitAssumption DEF Lanes, Once, Range
<1>3. ASSUME NEW i \in 1..N, Mine(i)
      PROVE  /\ s[i] \in Seq(Lanes)
             /\ \A l : l \in Range(s[i]) <=> l = Transit \/ l \in Range(b.chunks[i].lanes)
             /\ Once(b.chunks[i].lanes) => Once(s[i])
  <2> DEFINE q == <<Transit>>
             r == b.chunks[i].lanes
  <2>1. s[i] = q \o r
    BY <1>1, <1>3
  <2>2. Disjoint(q, r)
    BY <1>2, TransitAssumption DEF Disjoint
  <2>3. q \in Seq(Lanes) /\ r \in Seq(Lanes) /\ Once(q) /\ \A l : l \in Range(q) <=> l = Transit
    BY <1>1, <1>2
  <2> HIDE DEF q, r, s
  <2>4. /\ q \o r \in Seq(Lanes) /\ \A l : l \in Range(q \o r) <=> l \in Range(q) \/ l \in Range(r)
        /\ Once(q) /\ Once(r) /\ Disjoint(q, r) => Once(q \o r)
    BY <2>3, Joined
  <2>. QED
    BY <2>1, <2>2, <2>3, <2>4 DEF r
<1>4. ASSUME NEW i \in 1..N, ~Mine(i) PROVE s[i] = <<>>
  BY <1>1, <1>4
<1>5. \A i \in 1..N : s[i] \in Seq(Lanes)
  BY <1>2, <1>3, <1>4
<1>6. s \in Seq(Seq(Lanes)) /\ Len(s) = N
  <2>1. s \in [1..N -> Seq(Lanes)]
    BY <1>1, <1>5
  <2>. QED
    BY <1>1, <2>1, SeqDef, LenProperties
<1>7. a = FlattenSeq(s)
  BY DEF Appended
<1> HIDE DEF s, a
<1>8. /\ a \in Seq(Lanes)
      /\ \A l : l \in Range(a) <=> \E i \in 1..N : l \in Range(s[i])
      /\ (\A i \in 1..N : Once(s[i])) /\ (\A i, j \in 1..N : i # j => Disjoint(s[i], s[j])) => Once(a)
  BY <1>6, <1>7, Flattened
<1>9. ASSUME NEW l \in Range(a), l # Transit
      PROVE  \E i \in DOMAIN to : to[i] = d /\ l \in Range(b.chunks[i].lanes)
  <2>1. PICK i \in 1..N : l \in Range(s[i])
    BY <1>8, <1>9
  <2>2. Mine(i)
    BY <1>2, <1>4, <2>1
  <2>. QED
    BY <1>3, <1>9, <2>1, <2>2
<1>10. ASSUME NEW i \in DOMAIN to, to[i] = d PROVE Range(b.chunks[i].lanes) \subseteq Range(a)
  <2>1. i \in 1..N /\ Mine(i)
    BY <1>1, <1>10
  <2>. QED
    BY <1>3, <1>8, <2>1
<1>11. ASSUME ~Given(b, to, d) PROVE a = <<>>
  <2>1. \A i \in 1..N : ~Mine(i)
    BY <1>11 DEF Given
  <2>2. \A l : l \notin Range(a)
    BY <1>2, <1>4, <1>8, <2>1
  <2>3. Len(a) \in Nat /\ \A i \in 1..Len(a) : a[i] \in Range(a)
    BY <1>8, InPath
  <2>4. Len(a) = 0
    BY <2>2, <2>3
  <2>. QED
    BY <1>8, <2>4, EmptySeq
<1>12. ASSUME \A i \in DOMAIN to : Once(b.chunks[i].lanes),
              \A i, j \in DOMAIN to : i # j => Disjoint(b.chunks[i].lanes, b.chunks[j].lanes)
       PROVE  Once(a)
  <2>1. \A i \in 1..N : Once(s[i])
    BY <1>2, <1>3, <1>4, <1>12
  <2>2. ASSUME NEW i \in 1..N, NEW j \in 1..N, i # j PROVE Disjoint(s[i], s[j])
    <3>1. CASE Mine(i) /\ Mine(j)
      BY <1>3, <1>12, <2>2, <3>1, TransitAssumption DEF Disjoint
    <3>2. CASE ~Mine(i) \/ ~Mine(j)
      BY <1>2, <1>4, <3>2 DEF Disjoint
    <3>. QED
      BY <3>1, <3>2
  <2>. QED
    BY <1>8, <2>1, <2>2
<1>. QED
  BY <1>8, <1>9, <1>10, <1>11, <1>12 DEF a

\* _dispatch_locked, field by field.
LEMMA DispatchedFields ==
    ASSUME NEW b \in Books, NEW to \in [Queued(b) -> Drones \cup {"queued", "failed"}],
           NEW n, n = Dispatched(b, to)
    PROVE  /\ n \in Books
           /\ n.lost = b.lost /\ n.closed = b.closed /\ n.nacked = b.nacked
           /\ \A d : d \in n.acked <=> d \in b.acked /\ ~Given(b, to, d)
           /\ \A d \in Drones :
                 /\ n.lanes[d] = b.lanes[d] \o Appended(b, to, d)
                 /\ n.offer[d] = IF Given(b, to, d) THEN [base |-> b.lanes[d], acked |-> d \in b.acked]
                                 ELSE b.offer[d]
           /\ SameChunks(b, n)
           /\ \A i \in DOMAIN b.chunks :
                 /\ i \in Queued(b) /\ to[i] \in Drones =>
                       n.chunks[i].status = "offered" /\ n.chunks[i].receiver = to[i]
                 /\ i \in Queued(b) /\ to[i] \notin Drones =>
                       n.chunks[i].status = to[i] /\ n.chunks[i].receiver = b.chunks[i].receiver
                 /\ i \notin Queued(b) => SameFate(b, n, i)
<1> DEFINE cs == [i \in DOMAIN b.chunks |->
                    IF i \in DOMAIN to THEN Allocated(b.chunks[i], to[i]) ELSE b.chunks[i]]
           N == Len(b.chunks)
           G == {d \in Drones : Given(b, to, d)}
           ls == [d \in Drones |-> b.lanes[d] \o Appended(b, to, d)]
           os == [d \in Drones |-> IF Given(b, to, d) THEN [base |-> b.lanes[d], acked |-> d \in b.acked]
                                   ELSE b.offer[d]]
<1>1. /\ b.lanes \in [Drones -> Seq(Lanes)] /\ b.offer \in [Drones -> Offers \cup {None}]
      /\ b.acked \subseteq Drones /\ b.nacked \subseteq Drones
      /\ b.lost \subseteq Drones /\ b.closed \subseteq Drones
      /\ DOMAIN b.chunks = 1..N /\ N \in Nat /\ \A i \in 1..N : b.chunks[i] \in Chunks
  BY BookParts
<1>2. n = [b EXCEPT !.lanes = ls, !.offer = os, !.acked = b.acked \ G,
                    !.chunks = Collected(cs, b.closed)]
  BY DEF Dispatched, AckCleared
<1>3. ls \in [Drones -> Seq(Lanes)]
  <2>1. DOMAIN to \subseteq DOMAIN b.chunks
    BY DEF Queued
  <2>2. \A d \in Drones : Appended(b, to, d) \in Seq(Lanes)
    BY <2>1, AppendedLanes
  <2>3. \A d \in Drones : b.lanes[d] \o Appended(b, to, d) \in Seq(Lanes)
    BY <1>1, <2>2, ConcatProperties
  <2>. QED
    BY <2>3
<1>4. os \in [Drones -> Offers \cup {None}]
  <2>1. \A d \in Drones : [base |-> b.lanes[d], acked |-> d \in b.acked] \in Offers
    <3>1. \A p \in Seq(Lanes), x \in BOOLEAN : [base |-> p, acked |-> x] \in Offers
      BY DEF Offers
    <3>2. \A d \in Drones : b.lanes[d] \in Seq(Lanes) /\ (d \in b.acked) \in BOOLEAN
      BY <1>1
    <3>. QED
      BY <3>1, <3>2
  <2>. QED
    BY <1>1, <2>1
<1>5. ASSUME NEW i \in 1..N
      PROVE  /\ cs[i] \in Chunks /\ cs[i].of = b.chunks[i].of /\ cs[i].lanes = b.chunks[i].lanes
             /\ i \in Queued(b) /\ to[i] \in Drones => cs[i].status = "offered" /\ cs[i].receiver = to[i]
             /\ i \in Queued(b) /\ to[i] \notin Drones =>
                   cs[i].status = to[i] /\ cs[i].receiver = b.chunks[i].receiver
             /\ i \notin Queued(b) => cs[i] = b.chunks[i]
  <2> DEFINE c == b.chunks[i]
  <2>1. c \in Chunks /\ DOMAIN to = Queued(b)
    BY <1>1
  <2>2. cs[i] = IF i \in Queued(b) THEN Allocated(c, to[i]) ELSE c
    BY <1>1
  <2> HIDE DEF c, cs
  <2>3. CASE i \in Queued(b) /\ to[i] \in Drones
    <3>1. cs[i] = [c EXCEPT !.status = "offered", !.receiver = to[i]]
      BY <2>2, <2>3 DEF Allocated
    <3>2. cs[i] \in Chunks
      BY <2>1, <2>3, <3>1 DEF Chunks
    <3>3. cs[i].of = c.of /\ cs[i].lanes = c.lanes /\ cs[i].status = "offered" /\ cs[i].receiver = to[i]
      BY <2>1, <3>1 DEF Chunks
    <3>. QED
      BY <2>3, <3>2, <3>3 DEF c
  <2>4. CASE i \in Queued(b) /\ to[i] \notin Drones
    <3>1. cs[i] = [c EXCEPT !.status = to[i]] /\ to[i] \in {"queued", "failed"}
      BY <2>2, <2>4 DEF Allocated
    <3>2. cs[i] \in Chunks
      BY <2>1, <3>1 DEF Chunks
    <3>3. cs[i].of = c.of /\ cs[i].lanes = c.lanes /\ cs[i].status = to[i] /\ cs[i].receiver = c.receiver
      BY <2>1, <3>1 DEF Chunks
    <3>. QED
      BY <2>4, <3>2, <3>3 DEF c
  <2>5. CASE i \notin Queued(b)
    BY <2>1, <2>2, <2>5 DEF c
  <2>. QED
    BY <2>3, <2>4, <2>5
<1>6. cs \in Seq(Chunks) /\ Len(cs) = N /\ DOMAIN cs = 1..N
  <2>1. cs \in [1..N -> Chunks]
    BY <1>1, <1>5
  <2>. QED
    BY <1>1, <2>1, SeqDef, LenProperties
<1> HIDE DEF cs, ls, os, G
<1> DEFINE ds == Collected(cs, b.closed)
<1>7. /\ ds \in Seq(Chunks) /\ DOMAIN ds = DOMAIN cs
      /\ \A i \in DOMAIN cs : /\ ds[i].of = cs[i].of /\ ds[i].lanes = cs[i].lanes
                              /\ ds[i].status = cs[i].status /\ ds[i].receiver = cs[i].receiver
  BY <1>6, CollectedChunks
<1> HIDE DEF ds
<1>8. /\ n.lanes = ls /\ n.offer = os /\ n.acked = b.acked \ G /\ n.chunks = ds
      /\ n.nacked = b.nacked /\ n.lost = b.lost /\ n.closed = b.closed
  BY <1>2 DEF Books, ds
<1>9. n \in Books
  <2>1. ls \in [Drones -> Seq(Lanes)] /\ os \in [Drones -> Offers \cup {None}]
        /\ b.acked \ G \in SUBSET Drones /\ ds \in Seq(Chunks)
    BY <1>1, <1>3, <1>4, <1>7
  <2>2. n = [b EXCEPT !.lanes = ls, !.offer = os, !.acked = b.acked \ G, !.chunks = ds]
    BY <1>2 DEF ds
  <2>. QED
    BY <2>1, <2>2 DEF Books
<1>10. SameChunks(b, n)
  BY <1>1, <1>5, <1>6, <1>7, <1>8 DEF SameChunks
<1>11. \A d : d \in n.acked <=> d \in b.acked /\ ~Given(b, to, d)
  BY <1>1, <1>8 DEF G
<1>12. \A d \in Drones :
          /\ n.lanes[d] = b.lanes[d] \o Appended(b, to, d)
          /\ n.offer[d] = IF Given(b, to, d) THEN [base |-> b.lanes[d], acked |-> d \in b.acked]
                          ELSE b.offer[d]
  BY <1>8 DEF ls, os
<1>13. ASSUME NEW i \in DOMAIN b.chunks
       PROVE  /\ i \in Queued(b) /\ to[i] \in Drones =>
                       n.chunks[i].status = "offered" /\ n.chunks[i].receiver = to[i]
              /\ i \in Queued(b) /\ to[i] \notin Drones =>
                       n.chunks[i].status = to[i] /\ n.chunks[i].receiver = b.chunks[i].receiver
              /\ i \notin Queued(b) => SameFate(b, n, i)
  BY <1>1, <1>5, <1>6, <1>7, <1>8 DEF SameFate
<1>. QED
  BY <1>8, <1>9, <1>10, <1>11, <1>12, <1>13

\* _withdraw_offer_locked, field by field.
LEMMA WithdrawnFields ==
    ASSUME NEW b \in Books, NEW d \in Drones, NEW how, b.offer[d] # None,
           NEW n, n = Withdrawn(b, d, how)
    PROVE  /\ n \in Books
           /\ n.lost = b.lost /\ n.closed = b.closed /\ n.nacked = b.nacked
           /\ \A e : e \in n.acked <=> IF e = d THEN b.offer[d].acked ELSE e \in b.acked
           /\ n.lanes[d] = b.offer[d].base /\ n.offer[d] = None
           /\ \A e \in Drones \ {d} : n.lanes[e] = b.lanes[e] /\ n.offer[e] = b.offer[e]
           /\ SameChunks(b, n)
           /\ \A i \in DOMAIN b.chunks :
                 /\ OfferedTo(b.chunks[i], d) => n.chunks[i].status = "queued"
                 /\ ~OfferedTo(b.chunks[i], d) => SameFate(b, n, i)
<1> DEFINE cs == [i \in DOMAIN b.chunks |->
                    IF OfferedTo(b.chunks[i], d) THEN Freed(b.chunks[i], d, how) ELSE b.chunks[i]]
           N == Len(b.chunks)
           o == b.offer[d]
           as == IF o.acked THEN b.acked \cup {d} ELSE b.acked \ {d}
<1>1. /\ b.lanes \in [Drones -> Seq(Lanes)] /\ b.offer \in [Drones -> Offers \cup {None}]
      /\ b.acked \subseteq Drones
      /\ o.base \in Seq(Lanes) /\ o.acked \in BOOLEAN
      /\ DOMAIN b.chunks = 1..N /\ N \in Nat /\ \A i \in 1..N : b.chunks[i] \in Chunks
  BY BookParts
<1>2. n = [b EXCEPT !.lanes[d] = o.base, !.acked = as, !.offer[d] = None, !.chunks = cs]
  BY DEF Withdrawn
<1>3. ASSUME NEW c \in Chunks
      PROVE  LET f == Freed(c, d, how) IN
             f \in Chunks /\ f.of = c.of /\ f.lanes = c.lanes /\ f.status = "queued"
  BY DEF Chunks, Freed
<1>4. ASSUME NEW i \in 1..N
      PROVE  /\ cs[i] \in Chunks /\ cs[i].of = b.chunks[i].of /\ cs[i].lanes = b.chunks[i].lanes
             /\ OfferedTo(b.chunks[i], d) => cs[i].status = "queued"
             /\ ~OfferedTo(b.chunks[i], d) => cs[i] = b.chunks[i]
  <2>1. cs[i] = IF OfferedTo(b.chunks[i], d) THEN Freed(b.chunks[i], d, how) ELSE b.chunks[i]
    BY <1>1
  <2> HIDE DEF cs
  <2>. QED
    BY <1>1, <1>3, <2>1
<1>5. cs \in Seq(Chunks) /\ DOMAIN cs = 1..N
  <2>1. cs \in [1..N -> Chunks]
    BY <1>1, <1>4
  <2>2. cs \in Seq(Chunks)
    <3>1. N \in Nat
      BY <1>1
    <3> HIDE DEF cs, N
    <3>. QED
      BY <2>1, <3>1, SeqDef
  <2>3. DOMAIN cs = 1..N
    BY <1>1
  <2>. QED
    BY <2>2, <2>3
<1> HIDE DEF cs, o, as
<1>6. /\ n \in Books
      /\ n.lost = b.lost /\ n.closed = b.closed /\ n.nacked = b.nacked /\ n.acked = as /\ n.chunks = cs
      /\ n.lanes = [b.lanes EXCEPT ![d] = o.base] /\ n.offer = [b.offer EXCEPT ![d] = None]
  <2>1. /\ [b.lanes EXCEPT ![d] = o.base] \in [Drones -> Seq(Lanes)]
        /\ [b.offer EXCEPT ![d] = None] \in [Drones -> Offers \cup {None}]
        /\ as \in SUBSET Drones
    BY <1>1 DEF as
  <2>. QED
    BY <1>2, <1>5, <2>1 DEF Books
<1>7. \A e : e \in n.acked <=> IF e = d THEN b.offer[d].acked ELSE e \in b.acked
  BY <1>1, <1>6 DEF as, o
<1>8. /\ n.lanes[d] = b.offer[d].base /\ n.offer[d] = None
      /\ \A e \in Drones \ {d} : n.lanes[e] = b.lanes[e] /\ n.offer[e] = b.offer[e]
  BY <1>1, <1>6 DEF o
<1>9. SameChunks(b, n)
  BY <1>1, <1>4, <1>5, <1>6 DEF SameChunks
<1>10. \A i \in DOMAIN b.chunks :
                 /\ OfferedTo(b.chunks[i], d) => n.chunks[i].status = "queued"
                 /\ ~OfferedTo(b.chunks[i], d) => SameFate(b, n, i)
  BY <1>1, <1>4, <1>6 DEF SameFate
<1>. QED
  BY <1>6, <1>7, <1>8, <1>9, <1>10

\* An accepted plan, field by field.
LEMMA AcceptedFields ==
    ASSUME NEW b \in Books, NEW d \in Drones, NEW n, n = Accepted(b, d)
    PROVE  /\ n \in Books
           /\ n.lost = b.lost /\ n.closed = b.closed /\ n.lanes = b.lanes
           /\ \A e : e \in n.acked <=> e = d \/ e \in b.acked
           /\ n.offer[d] = None /\ \A e \in Drones \ {d} : n.offer[e] = b.offer[e]
           /\ SameChunks(b, n)
           /\ \A i \in DOMAIN b.chunks :
                 /\ OfferedTo(b.chunks[i], d) => n.chunks[i].status = "acked" /\ n.chunks[i].receiver = d
                 /\ ~OfferedTo(b.chunks[i], d) => SameFate(b, n, i)
<1> DEFINE cs == [i \in DOMAIN b.chunks |->
                    IF OfferedTo(b.chunks[i], d) THEN [b.chunks[i] EXCEPT !.status = "acked"] ELSE b.chunks[i]]
           N == Len(b.chunks)
<1>1. /\ b.offer \in [Drones -> Offers \cup {None}]
      /\ b.acked \subseteq Drones
      /\ DOMAIN b.chunks = 1..N /\ N \in Nat /\ \A i \in 1..N : b.chunks[i] \in Chunks
  BY BookParts
<1>2. n = [b EXCEPT !.acked = b.acked \cup {d}, !.nacked = b.nacked \ {d}, !.offer[d] = None, !.chunks = cs]
  BY DEF Accepted
<1>3. ASSUME NEW i \in 1..N
      PROVE  /\ cs[i] \in Chunks /\ cs[i].of = b.chunks[i].of /\ cs[i].lanes = b.chunks[i].lanes
             /\ OfferedTo(b.chunks[i], d) => cs[i].status = "acked" /\ cs[i].receiver = d
             /\ ~OfferedTo(b.chunks[i], d) => cs[i] = b.chunks[i]
  <2> DEFINE c == b.chunks[i]
  <2>1. cs[i] = IF OfferedTo(c, d) THEN [c EXCEPT !.status = "acked"] ELSE c
    BY <1>1
  <2>2. c \in Chunks
    BY <1>1
  <2> HIDE DEF c, cs
  <2>3. LET e == [c EXCEPT !.status = "acked"] IN
        e \in Chunks /\ e.of = c.of /\ e.lanes = c.lanes /\ e.status = "acked" /\ e.receiver = c.receiver
    BY <2>2 DEF Chunks
  <2>. QED
    BY <2>1, <2>2, <2>3 DEF c, OfferedTo
<1>4. cs \in Seq(Chunks) /\ DOMAIN cs = 1..N
  <2>1. cs \in [1..N -> Chunks]
    BY <1>1, <1>3
  <2>. QED
    BY <1>1, <2>1, SeqDef
<1> HIDE DEF cs
<1>5. /\ n \in Books
      /\ n.lost = b.lost /\ n.closed = b.closed /\ n.lanes = b.lanes
      /\ n.acked = b.acked \cup {d} /\ n.chunks = cs /\ n.offer = [b.offer EXCEPT ![d] = None]
  <2>1. /\ [b.offer EXCEPT ![d] = None] \in [Drones -> Offers \cup {None}]
        /\ b.acked \cup {d} \in SUBSET Drones /\ b.nacked \ {d} \in SUBSET Drones
    BY <1>1 DEF Books
  <2>. QED
    BY <1>2, <1>4, <2>1 DEF Books
<1>6. SameChunks(b, n)
  BY <1>1, <1>3, <1>4, <1>5 DEF SameChunks
<1>7. n.offer[d] = None /\ \A e \in Drones \ {d} : n.offer[e] = b.offer[e]
  BY <1>1, <1>5
<1>8. \A i \in DOMAIN b.chunks :
         /\ OfferedTo(b.chunks[i], d) => n.chunks[i].status = "acked" /\ n.chunks[i].receiver = d
         /\ ~OfferedTo(b.chunks[i], d) => SameFate(b, n, i)
  BY <1>1, <1>3, <1>5 DEF SameFate
<1>. QED
  BY <1>5, <1>6, <1>7, <1>8

----------------------------------------------------------------------------
(* Where the lanes are.  A lane's home is a drone, before what the drone   *)
(* is offered, or a chunk that no edge has accepted.                       *)

Pending(b) == {i \in DOMAIN b.chunks : b.chunks[i].status # "acked"}
InBase(b, d, l)  == l \in Range(Base(b, d))
InChunk(b, i, l) == l \in Range(b.chunks[i].lanes)

\* No path has a planned lane twice.
Simple(b) ==
    /\ \A d \in Drones : Once(b.lanes[d]) /\ Once(Base(b, d))
    /\ \A i \in DOMAIN b.chunks : Once(b.chunks[i].lanes)

\* A drone with an offer has its base and the chunks offered, and nothing else.
Backed(b) ==
    \A d \in Drones : b.offer[d] # None =>
        /\ \A l \in Range(b.lanes[d]) : l # Transit =>
              InBase(b, d, l) \/ \E i \in DOMAIN b.chunks : OfferedTo(b.chunks[i], d) /\ InChunk(b, i, l)
        /\ Range(Base(b, d)) \subseteq Range(b.lanes[d])
        /\ \A i \in DOMAIN b.chunks :
              OfferedTo(b.chunks[i], d) => Range(b.chunks[i].lanes) \subseteq Range(b.lanes[d])

\* No planned lane has two homes.
Apart(b) ==
    \A l \in PlannedLanes :
        /\ \A d, e \in Drones : InBase(b, d, l) /\ InBase(b, e, l) => d = e
        /\ \A d \in Drones, i \in Pending(b) : ~(InBase(b, d, l) /\ InChunk(b, i, l))
        /\ \A i, j \in Pending(b) : InChunk(b, i, l) /\ InChunk(b, j, l) => i = j

\* Every planned lane has a home.
Whole(b) ==
    \A l \in PlannedLanes :
        (\E d \in Drones : InBase(b, d, l)) \/ (\E i \in Pending(b) : InChunk(b, i, l))

\* Where lanes are, in any book the critical sections pass through.
LaneInv(b) == Simple(b) /\ Backed(b) /\ Apart(b)

\* What changes neither a drone's base nor what is pending moves no lane.
LEMMA NothingMoved ==
    ASSUME NEW b, NEW n, SameChunks(b, n), Pending(n) = Pending(b),
           \A d \in Drones : Base(n, d) = Base(b, d)
    PROVE  /\ Apart(b) => Apart(n)
           /\ Whole(b) => Whole(n)
<1>1. \A d \in Drones : \A l : InBase(n, d, l) <=> InBase(b, d, l)
  BY DEF InBase
<1>2. \A i \in Pending(b) : \A l : InChunk(n, i, l) <=> InChunk(b, i, l)
  BY DEF InChunk, SameChunks, Pending
<1> HIDE DEF InBase, InChunk, Pending
<1>3. ASSUME Apart(b) PROVE Apart(n)
  BY <1>1, <1>2, <1>3 DEF Apart
<1>4. ASSUME Whole(b) PROVE Whole(n)
  BY <1>1, <1>2, <1>4 DEF Whole
<1>. QED
  BY <1>3, <1>4

\* What changes no lane and no offer, and leaves every chunk's fate, changes nothing here.
LEMMA NothingChanged ==
    ASSUME NEW b, NEW n \in Books, Kept(b), SameChunks(b, n), n.lanes = b.lanes, n.offer = b.offer,
           n.lost = b.lost, n.closed \subseteq n.lost,
           \A i \in DOMAIN b.chunks : SameFate(b, n, i),
           \A d \in Drones : b.offer[d] # None => d \notin n.acked
    PROVE  /\ Kept(n)
           /\ LaneInv(b) => LaneInv(n)
           /\ Whole(b) => Whole(n)
<1>1. /\ \A d : Base(n, d) = Base(b, d)
      /\ Pending(n) = Pending(b)
      /\ DOMAIN n.chunks = DOMAIN b.chunks
      /\ \A i \in DOMAIN b.chunks : n.chunks[i].lanes = b.chunks[i].lanes
      /\ \A d : \A i \in DOMAIN b.chunks : OfferedTo(n.chunks[i], d) <=> OfferedTo(b.chunks[i], d)
  BY DEF Base, Pending, SameFate, SameChunks, OfferedTo
<1>2. Kept(n)
  BY <1>1 DEF Kept, SameFate
<1>3. ASSUME Simple(b) PROVE Simple(n)
  BY <1>1, <1>3 DEF Simple
<1>4. ASSUME Backed(b) PROVE Backed(n)
  BY <1>1, <1>4 DEF Backed, InBase, InChunk
<1>. QED
  BY <1>1, <1>2, <1>3, <1>4, NothingMoved DEF LaneInv

\* A round of offers.
LEMMA DispatchKeeps ==
    ASSUME NEW b, Kept(b), LaneInv(b), NEW to \in [Queued(b) -> Drones \cup {"queued", "failed"}],
           \A i \in Queued(b) : to[i] \in Outcomes(b, i)
    PROVE  /\ Kept(Dispatched(b, to)) /\ LaneInv(Dispatched(b, to))
           /\ Whole(b) => Whole(Dispatched(b, to))
           /\ \A d \in Drones : Given(b, to, d) => b.offer[d] = None /\ d \notin b.lost
<1> DEFINE n == Dispatched(b, to)
<1>1. b \in Books /\ DOMAIN to = Queued(b) /\ Queued(b) \subseteq DOMAIN b.chunks
  BY DEF Kept, Queued
<1>2. /\ n \in Books
      /\ n.lost = b.lost /\ n.closed = b.closed /\ n.nacked = b.nacked
      /\ \A d : d \in n.acked <=> d \in b.acked /\ ~Given(b, to, d)
      /\ \A d \in Drones :
            /\ n.lanes[d] = b.lanes[d] \o Appended(b, to, d)
            /\ n.offer[d] = IF Given(b, to, d) THEN [base |-> b.lanes[d], acked |-> d \in b.acked]
                            ELSE b.offer[d]
      /\ SameChunks(b, n)
      /\ \A i \in DOMAIN b.chunks :
            /\ i \in Queued(b) /\ to[i] \in Drones =>
                  n.chunks[i].status = "offered" /\ n.chunks[i].receiver = to[i]
            /\ i \in Queued(b) /\ to[i] \notin Drones =>
                  n.chunks[i].status = to[i] /\ n.chunks[i].receiver = b.chunks[i].receiver
            /\ i \notin Queued(b) => SameFate(b, n, i)
  BY <1>1, DispatchedFields
<1> HIDE DEF n
<1>3. ASSUME NEW d \in Drones, Given(b, to, d) PROVE b.offer[d] = None /\ d \notin b.lost
  <2>1. PICK i \in Queued(b) : to[i] = d
    BY <1>1, <1>3 DEF Given
  <2>2. d \in Takers(b, i)
    BY <2>1, CoordinatorAssumption DEF Outcomes
  <2>. QED
    BY <2>2 DEF Takers, Eligible
<1>4. ASSUME NEW d \in Drones
      PROVE  /\ Given(b, to, d) => n.offer[d] # None /\ Base(n, d) = b.lanes[d] /\ Base(b, d) = b.lanes[d]
             /\ ~Given(b, to, d) => n.lanes[d] = b.lanes[d] /\ n.offer[d] = b.offer[d]
             /\ Base(n, d) = Base(b, d)
  <2>1. CASE Given(b, to, d)
    <3>1. n.offer[d] = [base |-> b.lanes[d], acked |-> d \in b.acked]
      BY <1>2, <2>1
    <3>2. b.lanes[d] \in Seq(Lanes) /\ (d \in b.acked) \in BOOLEAN
      BY <1>1, BookParts
    <3>3. n.offer[d] \in Offers
      BY <3>1, <3>2 DEF Offers
    <3>4. n.offer[d] # None /\ n.offer[d].base = b.lanes[d]
      BY <3>1, <3>3, NoneAssumption
    <3>. QED
      BY <1>3, <2>1, <3>4 DEF Base
  <2>2. CASE ~Given(b, to, d)
    <3>1. Appended(b, to, d) = <<>>
      BY <1>1, <2>2, AppendedLanes
    <3>2. n.lanes[d] = b.lanes[d]
      <4>1. b.lanes[d] \in Seq(Lanes)
        BY <1>1, BookParts
      <4>2. b.lanes[d] \o <<>> = b.lanes[d]
        BY <4>1, ConcatEmptySeq
      <4>. QED
        BY <1>2, <3>1, <4>2
    <3>. QED
      BY <1>2, <2>2, <3>2 DEF Base
  <2>. QED
    BY <2>1, <2>2
<1>5. ASSUME NEW d \in Drones, NEW i \in DOMAIN b.chunks
      PROVE  OfferedTo(n.chunks[i], d) <=> OfferedTo(b.chunks[i], d) \/ (i \in DOMAIN to /\ to[i] = d)
  <2>1. CASE i \in Queued(b) /\ to[i] \in Drones
    BY <1>1, <1>2, <2>1 DEF OfferedTo, Queued
  <2>2. CASE i \in Queued(b) /\ to[i] \notin Drones
    <3>1. n.chunks[i].status \in {"queued", "failed"}
      BY <1>2, <2>2
    <3>. QED
      BY <1>1, <2>2, <3>1 DEF OfferedTo, Queued
  <2>3. CASE i \notin Queued(b)
    BY <1>1, <1>2, <2>3 DEF OfferedTo, SameFate
  <2>. QED
    BY <2>1, <2>2, <2>3
<1>6. DOMAIN n.chunks = DOMAIN b.chunks /\ \A i \in DOMAIN b.chunks : n.chunks[i].lanes = b.chunks[i].lanes
  BY <1>2 DEF SameChunks
<1>7. Pending(n) = Pending(b) /\ Queued(b) \subseteq Pending(b)
  <2>1. ASSUME NEW i \in DOMAIN b.chunks
        PROVE  n.chunks[i].status = "acked" <=> b.chunks[i].status = "acked"
    <3>1. i \in Queued(b) => n.chunks[i].status \in {"offered", "queued", "failed"}
      BY <1>2
    <3>. QED
      BY <1>2, <3>1 DEF SameFate, Queued
  <2>. QED
    BY <1>6, <2>1 DEF Pending, Queued
<1>8. Kept(n)
  <2>1. n.closed \subseteq n.lost
    BY <1>2 DEF Kept
  <2>2. ASSUME NEW d \in Drones
        PROVE  n.offer[d] # None <=> \E i \in DOMAIN n.chunks : OfferedTo(n.chunks[i], d)
    <3>1. (\E i \in DOMAIN n.chunks : OfferedTo(n.chunks[i], d)) <=>
             Given(b, to, d) \/ \E i \in DOMAIN b.chunks : OfferedTo(b.chunks[i], d)
      BY <1>1, <1>5, <1>6 DEF Given
    <3>2. b.offer[d] # None <=> \E i \in DOMAIN b.chunks : OfferedTo(b.chunks[i], d)
      BY DEF Kept
    <3>. QED
      BY <1>4, <3>1, <3>2
  <2>3. ASSUME NEW d \in Drones, n.offer[d] # None PROVE d \notin n.acked \cup n.lost
    BY <1>2, <1>3, <1>4, <2>3 DEF Kept
  <2>4. ASSUME NEW i \in DOMAIN n.chunks, n.chunks[i].status \in {"offered", "acked"}
        PROVE  n.chunks[i].receiver \in Drones
    <3>1. CASE i \in Queued(b)
      <4>1. to[i] \in Drones
        BY <1>2, <1>6, <2>4, <3>1
      <4>. QED
        BY <1>2, <1>6, <3>1, <4>1
    <3>2. CASE i \notin Queued(b)
      BY <1>2, <1>6, <2>4, <3>2 DEF SameFate, Kept
    <3>. QED
      BY <3>1, <3>2
  <2>. QED
    BY <1>2, <2>1, <2>2, <2>3, <2>4 DEF Kept
<1>9. \A d \in Drones :
         LET a == Appended(b, to, d) IN
         /\ a \in Seq(Lanes)
         /\ \A l \in Range(a) : l # Transit => \E i \in DOMAIN to : to[i] = d /\ l \in Range(b.chunks[i].lanes)
         /\ \A i \in DOMAIN to : to[i] = d => Range(b.chunks[i].lanes) \subseteq Range(a)
         /\ Once(a)
  <2>1. \A i \in DOMAIN to : Once(b.chunks[i].lanes)
    BY <1>1 DEF LaneInv, Simple
  <2>2. \A i, j \in DOMAIN to : i # j => Disjoint(b.chunks[i].lanes, b.chunks[j].lanes)
    BY <1>1, <1>7 DEF LaneInv, Apart, Disjoint, InChunk
  <2>. QED
    BY <1>1, <2>1, <2>2, AppendedLanes
<1>10. ASSUME NEW d \in Drones, Given(b, to, d)
       PROVE  /\ Once(n.lanes[d])
              /\ \A l : l \in Range(n.lanes[d]) <=> l \in Range(b.lanes[d]) \/ l \in Range(Appended(b, to, d))
  <2> DEFINE a == Appended(b, to, d)
             p == b.lanes[d]
  <2>1. p \in Seq(Lanes) /\ Once(p) /\ n.lanes[d] = p \o a
    <3>1. p \in Seq(Lanes)
      BY <1>1, BookParts
    <3>2. Once(p)
      BY DEF LaneInv, Simple
    <3>3. n.lanes[d] = p \o a
      BY <1>2
    <3>. QED
      BY <3>1, <3>2, <3>3
  <2>2. a \in Seq(Lanes) /\ Once(a)
    BY <1>9
  <2>3. Disjoint(p, a)
    <3> SUFFICES ASSUME NEW l \in PlannedLanes, l \in Range(p), l \in Range(a) PROVE FALSE
      BY DEF Disjoint
    <3>1. PICK i \in DOMAIN to : to[i] = d /\ l \in Range(b.chunks[i].lanes)
      BY <1>9, TransitAssumption
    <3>2. InBase(b, d, l) /\ InChunk(b, i, l) /\ i \in Pending(b)
      BY <1>1, <1>4, <1>7, <1>10, <3>1 DEF InBase, InChunk
    <3>. QED
      BY <3>2 DEF LaneInv, Apart
  <2> HIDE DEF a, p
  <2>4. /\ \A l : l \in Range(p \o a) <=> l \in Range(p) \/ l \in Range(a)
        /\ Once(p) /\ Once(a) /\ Disjoint(p, a) => Once(p \o a)
    BY <2>1, <2>2, Joined
  <2>. QED
    BY <2>1, <2>2, <2>3, <2>4 DEF a, p
<1>11. Simple(n)
  <2>1. ASSUME NEW d \in Drones PROVE Once(n.lanes[d]) /\ Once(Base(n, d))
    BY <1>4, <1>10 DEF LaneInv, Simple
  <2>. QED
    BY <1>6, <2>1 DEF LaneInv, Simple
<1>12. Backed(n)
  <2>1. ASSUME NEW d \in Drones, Given(b, to, d)
        PROVE  /\ \A l \in Range(n.lanes[d]) : l # Transit =>
                    InBase(n, d, l) \/ \E i \in DOMAIN n.chunks : OfferedTo(n.chunks[i], d) /\ InChunk(n, i, l)
               /\ Range(Base(n, d)) \subseteq Range(n.lanes[d])
               /\ \A i \in DOMAIN n.chunks :
                    OfferedTo(n.chunks[i], d) => Range(n.chunks[i].lanes) \subseteq Range(n.lanes[d])
    <3>1. ASSUME NEW l \in Range(n.lanes[d]), l # Transit, ~InBase(n, d, l)
          PROVE  \E i \in DOMAIN n.chunks : OfferedTo(n.chunks[i], d) /\ InChunk(n, i, l)
      <4>1. l \in Range(Appended(b, to, d))
        BY <1>4, <1>10, <2>1, <3>1 DEF InBase
      <4>2. PICK i \in DOMAIN to : to[i] = d /\ l \in Range(b.chunks[i].lanes)
        BY <1>9, <3>1, <4>1
      <4>. QED
        BY <1>1, <1>5, <1>6, <4>2 DEF InChunk
    <3>2. Range(Base(n, d)) \subseteq Range(n.lanes[d])
      BY <1>4, <1>10, <2>1
    <3>3. ASSUME NEW i \in DOMAIN n.chunks, OfferedTo(n.chunks[i], d)
          PROVE  Range(n.chunks[i].lanes) \subseteq Range(n.lanes[d])
      <4>1. ~OfferedTo(b.chunks[i], d)
        BY <1>3, <1>6, <2>1 DEF Kept
      <4>2. i \in DOMAIN to /\ to[i] = d
        BY <1>5, <1>6, <3>3, <4>1
      <4>. QED
        BY <1>1, <1>6, <1>9, <1>10, <2>1, <4>2
    <3>. QED
      BY <3>1, <3>2, <3>3
  <2>2. ASSUME NEW d \in Drones, ~Given(b, to, d)
        PROVE  \A i \in DOMAIN b.chunks : OfferedTo(n.chunks[i], d) <=> OfferedTo(b.chunks[i], d)
    BY <1>1, <1>5, <2>2 DEF Given
  <2>3. ASSUME NEW d \in Drones, ~Given(b, to, d), n.offer[d] # None
        PROVE  /\ \A l \in Range(n.lanes[d]) : l # Transit =>
                    InBase(n, d, l) \/ \E i \in DOMAIN n.chunks : OfferedTo(n.chunks[i], d) /\ InChunk(n, i, l)
               /\ Range(Base(n, d)) \subseteq Range(n.lanes[d])
               /\ \A i \in DOMAIN n.chunks :
                    OfferedTo(n.chunks[i], d) => Range(n.chunks[i].lanes) \subseteq Range(n.lanes[d])
    BY <1>4, <1>6, <2>2, <2>3 DEF LaneInv, Backed, InBase, InChunk
  <2>. QED
    BY <2>1, <2>3 DEF Backed
<1>13. (Apart(b) => Apart(n)) /\ (Whole(b) => Whole(n))
  BY <1>2, <1>4, <1>7, NothingMoved
<1>. QED
  BY <1>3, <1>8, <1>11, <1>12, <1>13 DEF n, LaneInv

\* As Kept, with d perhaps lost before its offer is withdrawn.
KeptBut(b, d) ==
    /\ b \in Books /\ b.closed \subseteq b.lost
    /\ \A e \in Drones : b.offer[e] # None <=> \E i \in DOMAIN b.chunks : OfferedTo(b.chunks[i], e)
    /\ \A e \in Drones : b.offer[e] # None => e \notin b.acked /\ (e # d => e \notin b.lost)
    /\ \A i \in DOMAIN b.chunks :
          b.chunks[i].status \in {"offered", "acked"} => b.chunks[i].receiver \in Drones

\* An offer withdrawn: its chunks wait again, and the drone has what it had.
LEMMA WithdrawKeeps ==
    ASSUME NEW d \in Drones, NEW b, KeptBut(b, d), LaneInv(b), NEW how
    PROVE  /\ Kept(Withdrawn(b, d, how)) /\ LaneInv(Withdrawn(b, d, how))
           /\ Whole(b) => Whole(Withdrawn(b, d, how))
           /\ Withdrawn(b, d, how).offer[d] = None /\ Withdrawn(b, d, how).lost = b.lost
<1>1. CASE b.offer[d] = None
  BY <1>1 DEF Withdrawn, KeptBut, Kept
<1>2. CASE b.offer[d] # None
  <2> DEFINE n == Withdrawn(b, d, how)
  <2>1. b \in Books
    BY DEF KeptBut
  <2>2. /\ n \in Books
        /\ n.lost = b.lost /\ n.closed = b.closed /\ n.nacked = b.nacked
        /\ \A e : e \in n.acked <=> IF e = d THEN b.offer[d].acked ELSE e \in b.acked
        /\ n.lanes[d] = b.offer[d].base /\ n.offer[d] = None
        /\ \A e \in Drones \ {d} : n.lanes[e] = b.lanes[e] /\ n.offer[e] = b.offer[e]
        /\ SameChunks(b, n)
        /\ \A i \in DOMAIN b.chunks :
              /\ OfferedTo(b.chunks[i], d) => n.chunks[i].status = "queued"
              /\ ~OfferedTo(b.chunks[i], d) => SameFate(b, n, i)
    BY <1>2, <2>1, WithdrawnFields
  <2> HIDE DEF n
  <2>3. DOMAIN n.chunks = DOMAIN b.chunks /\ \A i \in DOMAIN b.chunks : n.chunks[i].lanes = b.chunks[i].lanes
    BY <2>2 DEF SameChunks
  <2>4. \A e \in Drones : Base(n, e) = Base(b, e)
    BY <1>2, <2>2 DEF Base
  <2>5. ASSUME NEW e \in Drones, NEW i \in DOMAIN b.chunks
        PROVE  OfferedTo(n.chunks[i], e) <=> OfferedTo(b.chunks[i], e) /\ e # d
    BY <2>2 DEF OfferedTo, SameFate
  <2>6. Pending(n) = Pending(b)
    BY <2>2, <2>3 DEF Pending, SameFate, OfferedTo
  <2>7. Kept(n)
    <3>1. ASSUME NEW e \in Drones
          PROVE  n.offer[e] # None <=> \E i \in DOMAIN n.chunks : OfferedTo(n.chunks[i], e)
      BY <2>2, <2>3, <2>5 DEF KeptBut
    <3>2. ASSUME NEW e \in Drones, n.offer[e] # None PROVE e \notin n.acked \cup n.lost
      BY <2>2, <3>2 DEF KeptBut
    <3>3. ASSUME NEW i \in DOMAIN n.chunks, n.chunks[i].status \in {"offered", "acked"}
          PROVE  n.chunks[i].receiver \in Drones
      BY <2>2, <2>3, <3>3 DEF KeptBut, SameFate
    <3>. QED
      BY <2>2, <3>1, <3>2, <3>3 DEF Kept, KeptBut
  <2>8. Simple(n)
    <3>1. \A e \in Drones : n.lanes[e] = b.lanes[e] \/ n.lanes[e] = Base(b, e)
      BY <1>2, <2>2 DEF Base
    <3>. QED
      BY <2>3, <2>4, <3>1 DEF LaneInv, Simple
  <2>9. Backed(n)
    <3>1. \A e \in Drones : n.offer[e] # None => e # d /\ n.lanes[e] = b.lanes[e] /\ n.offer[e] = b.offer[e]
      BY <2>2
    <3>. QED
      BY <2>3, <2>4, <2>5, <3>1 DEF LaneInv, Backed, InBase, InChunk
  <2>10. (Apart(b) => Apart(n)) /\ (Whole(b) => Whole(n))
    BY <2>2, <2>4, <2>6, NothingMoved
  <2>. QED
    BY <2>2, <2>7, <2>8, <2>9, <2>10 DEF n, LaneInv
<1>. QED
  BY <1>1, <1>2

\* A plan accepted: the chunks offered to the drone have their home with it.
LEMMA AcceptKeeps ==
    ASSUME NEW d \in Drones, NEW b, Kept(b), LaneInv(b)
    PROVE  /\ Kept(Accepted(b, d)) /\ LaneInv(Accepted(b, d))
           /\ Whole(b) => Whole(Accepted(b, d))
<1> DEFINE n == Accepted(b, d)
<1>1. b \in Books
  BY DEF Kept
<1>2. /\ n \in Books
      /\ n.lost = b.lost /\ n.closed = b.closed /\ n.lanes = b.lanes
      /\ \A e : e \in n.acked <=> e = d \/ e \in b.acked
      /\ n.offer[d] = None /\ \A e \in Drones \ {d} : n.offer[e] = b.offer[e]
      /\ SameChunks(b, n)
      /\ \A i \in DOMAIN b.chunks :
            /\ OfferedTo(b.chunks[i], d) => n.chunks[i].status = "acked" /\ n.chunks[i].receiver = d
            /\ ~OfferedTo(b.chunks[i], d) => SameFate(b, n, i)
  BY <1>1, AcceptedFields
<1> HIDE DEF n
<1>3. DOMAIN n.chunks = DOMAIN b.chunks /\ \A i \in DOMAIN b.chunks : n.chunks[i].lanes = b.chunks[i].lanes
  BY <1>2 DEF SameChunks
<1>4. CASE b.offer[d] = None
  <2>1. \A i \in DOMAIN b.chunks : SameFate(b, n, i)
    BY <1>2, <1>4 DEF Kept
  <2>2. n.offer = b.offer
    <3>1. n.offer \in [Drones -> Offers \cup {None}] /\ b.offer \in [Drones -> Offers \cup {None}]
      BY <1>1, <1>2, BookParts
    <3>. QED
      BY <1>2, <1>4, <3>1
  <2>3. n.closed \subseteq n.lost /\ \A e \in Drones : b.offer[e] # None => e \notin n.acked
    BY <1>2, <1>4 DEF Kept
  <2>4. Kept(n) /\ LaneInv(n) /\ (Whole(b) => Whole(n))
    BY <1>2, <2>1, <2>2, <2>3, NothingChanged
  <2>. QED
    BY <2>4 DEF n
<1>5. CASE b.offer[d] # None
  <2>1. /\ Base(n, d) = b.lanes[d]
        /\ \A e \in Drones : e # d => Base(n, e) = Base(b, e)
    BY <1>2 DEF Base
  <2>2. ASSUME NEW e \in Drones, NEW i \in DOMAIN b.chunks
        PROVE  OfferedTo(n.chunks[i], e) <=> OfferedTo(b.chunks[i], e) /\ e # d
    BY <1>2 DEF OfferedTo, SameFate
  <2>3. \A i \in DOMAIN b.chunks : i \in Pending(n) <=> i \in Pending(b) /\ ~OfferedTo(b.chunks[i], d)
    BY <1>2, <1>3 DEF Pending, SameFate
  <2>4. Kept(n)
    <3>1. ASSUME NEW e \in Drones
          PROVE  n.offer[e] # None <=> \E i \in DOMAIN n.chunks : OfferedTo(n.chunks[i], e)
      BY <1>2, <1>3, <2>2 DEF Kept
    <3>2. ASSUME NEW e \in Drones, n.offer[e] # None PROVE e \notin n.acked \cup n.lost
      BY <1>2, <3>2 DEF Kept
    <3>3. ASSUME NEW i \in DOMAIN n.chunks, n.chunks[i].status \in {"offered", "acked"}
          PROVE  n.chunks[i].receiver \in Drones
      BY <1>2, <1>3, <3>3 DEF Kept, SameFate
    <3>. QED
      BY <1>2, <3>1, <3>2, <3>3 DEF Kept
  <2>5. Simple(n)
    BY <1>2, <1>3, <2>1 DEF LaneInv, Simple
  <2>6. Backed(n)
    <3>1. \A e \in Drones : n.offer[e] # None => e # d /\ n.lanes[e] = b.lanes[e] /\ n.offer[e] = b.offer[e]
      BY <1>2
    <3>. QED
      BY <1>3, <2>1, <2>2, <3>1 DEF LaneInv, Backed, InBase, InChunk
  <2>7. ASSUME NEW l \in PlannedLanes
        PROVE  /\ InBase(n, d, l) <=> InBase(b, d, l) \/ \E i \in DOMAIN b.chunks : OfferedTo(b.chunks[i], d) /\ InChunk(b, i, l)
               /\ \A e \in Drones : e # d => (InBase(n, e, l) <=> InBase(b, e, l))
               /\ \A i \in DOMAIN b.chunks : InChunk(n, i, l) <=> InChunk(b, i, l)
    <3>1. l # Transit
      BY TransitAssumption
    <3>2. InBase(n, d, l) <=> l \in Range(b.lanes[d])
      BY <2>1 DEF InBase
    <3>3. InBase(b, d, l) => l \in Range(b.lanes[d])
      BY <1>5 DEF LaneInv, Backed, InBase
    <3>4. \A i \in DOMAIN b.chunks : OfferedTo(b.chunks[i], d) /\ InChunk(b, i, l) => l \in Range(b.lanes[d])
      BY <1>5 DEF LaneInv, Backed, InChunk
    <3>5. l \in Range(b.lanes[d]) =>
            InBase(b, d, l) \/ \E i \in DOMAIN b.chunks : OfferedTo(b.chunks[i], d) /\ InChunk(b, i, l)
      BY <1>5, <3>1 DEF LaneInv, Backed
    <3>6. \A e \in Drones : e # d => (InBase(n, e, l) <=> InBase(b, e, l))
      BY <2>1 DEF InBase
    <3>7. \A i \in DOMAIN b.chunks : InChunk(n, i, l) <=> InChunk(b, i, l)
      BY <1>3 DEF InChunk
    <3>. QED
      BY <3>2, <3>3, <3>4, <3>5, <3>6, <3>7
  <2>8. \A i \in DOMAIN b.chunks : OfferedTo(b.chunks[i], d) => i \in Pending(b)
    BY DEF OfferedTo, Pending
  <2>9. Pending(n) \subseteq DOMAIN b.chunks /\ Pending(b) \subseteq DOMAIN b.chunks
    BY <1>3 DEF Pending
  <2> HIDE DEF InBase, InChunk, Pending
  <2>10. Apart(n)
    <3> SUFFICES ASSUME NEW l \in PlannedLanes
                 PROVE  /\ \A e, f \in Drones : InBase(n, e, l) /\ InBase(n, f, l) => e = f
                        /\ \A e \in Drones, i \in Pending(n) : ~(InBase(n, e, l) /\ InChunk(n, i, l))
                        /\ \A i, j \in Pending(n) : InChunk(n, i, l) /\ InChunk(n, j, l) => i = j
      BY DEF Apart
    <3>1. /\ \A e, f \in Drones : InBase(b, e, l) /\ InBase(b, f, l) => e = f
          /\ \A e \in Drones, i \in Pending(b) : ~(InBase(b, e, l) /\ InChunk(b, i, l))
          /\ \A i, j \in Pending(b) : InChunk(b, i, l) /\ InChunk(b, j, l) => i = j
      BY DEF LaneInv, Apart
    <3>2. \A e, f \in Drones : InBase(n, e, l) /\ InBase(n, f, l) => e = f
      BY <2>7, <2>8, <3>1
    <3>3. \A e \in Drones, i \in Pending(n) : ~(InBase(n, e, l) /\ InChunk(n, i, l))
      BY <2>3, <2>7, <2>8, <2>9, <3>1
    <3>4. \A i, j \in Pending(n) : InChunk(n, i, l) /\ InChunk(n, j, l) => i = j
      BY <2>3, <2>7, <2>9, <3>1
    <3>. QED
      BY <3>2, <3>3, <3>4
  <2>11. ASSUME Whole(b) PROVE Whole(n)
    <3> SUFFICES ASSUME NEW l \in PlannedLanes
                 PROVE  (\E e \in Drones : InBase(n, e, l)) \/ (\E i \in Pending(n) : InChunk(n, i, l))
      BY DEF Whole
    <3>1. (\E e \in Drones : InBase(b, e, l)) \/ (\E i \in Pending(b) : InChunk(b, i, l))
      BY <2>11 DEF Whole
    <3>. QED
      BY <2>3, <2>7, <2>9, <3>1
  <2>. QED
    BY <2>4, <2>5, <2>6, <2>10, <2>11 DEF LaneInv, n
<1>. QED
  BY <1>4, <1>5

\* What a loss does to the book when the offer to the drone is withdrawn: what is
\* left of its path waits in chunks.
Parted(b, d, index, pieces) ==
    [b EXCEPT !.lanes[d] = SubSeq(@, 1, index), !.chunks = @ \o NewChunks(d, pieces)]

\* A lost drone keeps the lanes it has flown; the pieces of the rest wait.
LEMMA LoseKeeps ==
    ASSUME NEW d \in Drones, NEW b, Kept(b), LaneInv(b), b.offer[d] = None,
           NEW index \in 0..Len(b.lanes[d]),
           NEW pieces \in Cuts(SubSeq(b.lanes[d], index + 1, Len(b.lanes[d]))),
           NEW n, n = Parted(b, d, index, pieces)
    PROVE  /\ Kept(n) /\ LaneInv(n)
           /\ Whole(b) => Whole(n)
           /\ \A e \in Drones : e # d => n.lanes[e] = b.lanes[e]
           /\ n.offer = b.offer /\ n.acked = b.acked /\ n.lost = b.lost
           /\ \A i \in DOMAIN n.chunks : n.chunks[i].status = "queued" \/ (i \in DOMAIN b.chunks /\ n.chunks[i] = b.chunks[i])
<1> USE DEF Parted
<1> DEFINE p == b.lanes[d]
           rest == SubSeq(p, index + 1, Len(p))
           flown == SubSeq(p, 1, index)
           N == Len(b.chunks)
           M == Len(pieces)
           new == NewChunks(d, pieces)
<1>1. /\ b \in Books /\ p \in Seq(Lanes) /\ Once(p) /\ Base(b, d) = p
      /\ DOMAIN b.chunks = 1..N /\ N \in Nat /\ b.chunks \in Seq(Chunks)
  <2>1. b \in Books
    BY DEF Kept
  <2>2. Once(p) /\ Base(b, d) = p
    BY DEF LaneInv, Simple, Base
  <2>. QED
    BY <2>1, <2>2, BookParts
<1>2. Len(p) \in Nat /\ index \in Nat /\ index <= Len(p)
  <2>1. Len(p) \in Nat
    BY <1>1, LenProperties
  <2>. QED
    BY <2>1
<1>3. /\ flown \in Seq(Lanes) /\ Once(flown)
      /\ \A l : l \in Range(flown) <=> \E i \in 1..index : p[i] = l
  <2>1. 1 \in Nat \ {0}
    OBVIOUS
  <2> HIDE DEF p
  <2>. QED
    BY <1>1, <1>2, <2>1, PartOf
<1>4. /\ rest \in Seq(Lanes) /\ Once(rest)
      /\ \A l : l \in Range(rest) <=> \E i \in (index + 1)..Len(p) : p[i] = l
  <2>1. index + 1 \in Nat \ {0} /\ Len(p) <= Len(p)
    BY <1>2
  <2> HIDE DEF p
  <2>. QED
    BY <1>1, <1>2, <2>1, PartOf
<1>5. /\ pieces \in Seq(Seq(Lanes)) /\ \A k \in 1..M : Once(pieces[k])
      /\ \A l : l \in Range(rest) <=> \E k \in 1..M : l \in Range(pieces[k])
      /\ \A j, k \in 1..M : j # k => Disjoint(pieces[j], pieces[k])
  <2>1. pieces \in Cuts(rest)
    OBVIOUS
  <2> HIDE DEF rest
  <2>. QED
    BY <1>4, <2>1, CutUp
<1>6. M \in Nat /\ DOMAIN pieces = 1..M /\ \A k \in 1..M : pieces[k] \in Seq(Lanes)
  BY <1>5, InPath, ElementOfSeq
<1>7. /\ new \in Seq(Chunks) /\ Len(new) = M
      /\ \A k \in 1..M : new[k].lanes = pieces[k] /\ new[k].status = "queued"
  <2>1. ASSUME NEW k \in 1..M
        PROVE  new[k] \in Chunks /\ new[k].lanes = pieces[k] /\ new[k].status = "queued"
    BY <1>6 DEF NewChunks, Chunks
  <2>2. new \in [1..M -> Chunks]
    BY <1>6, <2>1 DEF NewChunks
  <2>3. new \in Seq(Chunks) /\ Len(new) = M
    BY <1>6, <2>2, SeqDef, LenProperties
  <2>. QED
    BY <2>1, <2>3
<1> HIDE DEF p, rest, flown, new
<1>8. /\ b.chunks \o new \in Seq(Chunks) /\ DOMAIN (b.chunks \o new) = 1..(N + M)
      /\ \A i \in 1..N : (b.chunks \o new)[i] = b.chunks[i]
      /\ \A k \in 1..M : (b.chunks \o new)[N + k] = new[k]
  <2> DEFINE cs == b.chunks \o new
  <2>1. /\ cs \in Seq(Chunks) /\ Len(cs) = N + M
        /\ \A i \in 1..(N + M) : cs[i] = IF i <= N THEN b.chunks[i] ELSE new[i - N]
    <3>1. b.chunks \in Seq(Chunks) /\ new \in Seq(Chunks) /\ Len(new) = M
      BY <1>1, <1>7
    <3> HIDE DEF M
    <3>2. /\ cs \in Seq(Chunks) /\ Len(cs) = Len(b.chunks) + Len(new)
          /\ \A i \in 1..Len(b.chunks) + Len(new) :
                cs[i] = IF i <= Len(b.chunks) THEN b.chunks[i] ELSE new[i - Len(b.chunks)]
      BY <3>1, ConcatProperties
    <3>. QED
      BY <3>1, <3>2
  <2>2. DOMAIN cs = 1..(N + M)
    BY <2>1, InPath
  <2> HIDE DEF cs
  <2>3. \A i \in 1..N : cs[i] = b.chunks[i]
    <3>1. \A i \in 1..N : i \in 1..(N + M) /\ i <= N
      BY <1>1, <1>6
    <3>. QED
      BY <2>1, <3>1
  <2>4. ASSUME NEW k \in 1..M PROVE cs[N + k] = new[k]
    <3>1. N + k \in 1..(N + M) /\ ~(N + k <= N) /\ (N + k) - N = k
      BY <1>1, <1>6
    <3>. QED
      BY <2>1, <3>1
  <2>. QED
    BY <2>1, <2>2, <2>3, <2>4 DEF cs
<1>9. /\ n \in Books
      /\ n.lanes = [b.lanes EXCEPT ![d] = flown] /\ n.chunks = b.chunks \o new
      /\ n.offer = b.offer /\ n.acked = b.acked /\ n.nacked = b.nacked
      /\ n.lost = b.lost /\ n.closed = b.closed
  <2>1. n = [b EXCEPT !.lanes[d] = flown, !.chunks = b.chunks \o new]
    BY DEF flown, new, p
  <2>2. [b.lanes EXCEPT ![d] = flown] \in [Drones -> Seq(Lanes)] /\ b.lanes \in [Drones -> Seq(Lanes)]
    BY <1>1, <1>3, BookParts
  <2>. QED
    BY <1>1, <1>8, <2>1, <2>2 DEF Books
<1>10. /\ n.lanes[d] = flown /\ \A e \in Drones : e # d => n.lanes[e] = b.lanes[e]
       /\ Base(n, d) = flown /\ \A e \in Drones : e # d => Base(n, e) = Base(b, e)
  <2>1. b.lanes \in [Drones -> Seq(Lanes)]
    BY <1>1, BookParts
  <2>. QED
    BY <1>9, <2>1 DEF Base
<1>11. /\ DOMAIN n.chunks = 1..(N + M)
       /\ \A i \in 1..N : n.chunks[i] = b.chunks[i]
       /\ \A k \in 1..M : n.chunks[N + k].lanes = pieces[k] /\ n.chunks[N + k].status = "queued"
  <2>1. n.chunks = b.chunks \o new
    BY <1>9
  <2>2. \A k \in 1..M : n.chunks[N + k] = new[k]
    BY <1>8, <2>1
  <2>. QED
    BY <1>7, <1>8, <2>1, <2>2
<1>12. \A i \in 1..(N + M) : i \in 1..N \/ \E k \in 1..M : i = N + k
  <2>1. ASSUME NEW i \in 1..(N + M), i \notin 1..N PROVE i - N \in 1..M /\ i = N + (i - N)
    BY <1>1, <1>6, <2>1
  <2>. QED
    BY <2>1
<1>13. \A i \in 1..N : i \in 1..(N + M)
  BY <1>1, <1>6
<1>14. \A k \in 1..M : N + k \in 1..(N + M) /\ N + k \notin 1..N
  BY <1>1, <1>6
<1> HIDE DEF N, M
<1>24. ASSUME NEW i \in DOMAIN n.chunks
       PROVE  \/ i \in 1..N /\ i \in DOMAIN b.chunks /\ n.chunks[i] = b.chunks[i]
              \/ n.chunks[i].status = "queued" /\ \E k \in 1..M : n.chunks[i].lanes = pieces[k]
  <2>1. ASSUME NEW k \in 1..M, i = N + k
        PROVE n.chunks[i].status = "queued" /\ n.chunks[i].lanes = pieces[k]
    BY <1>11, <2>1
  <2>. QED
    BY <1>1, <1>11, <1>12, <2>1
<1>15. \A e \in Drones, i \in 1..(N + M) :
          OfferedTo(n.chunks[i], e) <=> i \in 1..N /\ OfferedTo(b.chunks[i], e)
  BY <1>11, <1>12, <1>14 DEF OfferedTo
<1>16. Kept(n)
  <2>1. \A e \in Drones : n.offer[e] # None <=> \E i \in DOMAIN n.chunks : OfferedTo(n.chunks[i], e)
    BY <1>1, <1>9, <1>11, <1>13, <1>15 DEF Kept
  <2>2. \A i \in DOMAIN n.chunks : n.chunks[i].status \in {"offered", "acked"} => n.chunks[i].receiver \in Drones
    BY <1>24 DEF Kept
  <2>. QED
    BY <1>9, <2>1, <2>2 DEF Kept
<1>17. Simple(n)
  <2>1. \A e \in Drones : Once(n.lanes[e]) /\ Once(Base(n, e))
    BY <1>3, <1>10 DEF LaneInv, Simple
  <2>2. \A i \in DOMAIN n.chunks : Once(n.chunks[i].lanes)
    BY <1>5, <1>24 DEF LaneInv, Simple
  <2>. QED
    BY <2>1, <2>2 DEF Simple
<1>18. Backed(n)
  <2> SUFFICES ASSUME NEW e \in Drones, n.offer[e] # None
               PROVE  /\ \A l \in Range(n.lanes[e]) : l # Transit =>
                           InBase(n, e, l) \/ \E i \in DOMAIN n.chunks : OfferedTo(n.chunks[i], e) /\ InChunk(n, i, l)
                      /\ Range(Base(n, e)) \subseteq Range(n.lanes[e])
                      /\ \A i \in DOMAIN n.chunks :
                           OfferedTo(n.chunks[i], e) => Range(n.chunks[i].lanes) \subseteq Range(n.lanes[e])
    BY DEF Backed
  <2>1. e # d /\ b.offer[e] # None
    BY <1>9
  <2>2. /\ \A l \in Range(b.lanes[e]) : l # Transit =>
              InBase(b, e, l) \/ \E i \in DOMAIN b.chunks : OfferedTo(b.chunks[i], e) /\ InChunk(b, i, l)
        /\ Range(Base(b, e)) \subseteq Range(b.lanes[e])
        /\ \A i \in DOMAIN b.chunks :
              OfferedTo(b.chunks[i], e) => Range(b.chunks[i].lanes) \subseteq Range(b.lanes[e])
    BY <2>1 DEF LaneInv, Backed
  <2>3. n.lanes[e] = b.lanes[e] /\ Base(n, e) = Base(b, e)
    BY <1>10, <2>1
  <2>4. \A i \in DOMAIN b.chunks : /\ i \in DOMAIN n.chunks /\ n.chunks[i] = b.chunks[i]
                                   /\ OfferedTo(n.chunks[i], e) <=> OfferedTo(b.chunks[i], e)
    BY <1>1, <1>11, <1>13
  <2>5. \A i \in DOMAIN n.chunks : OfferedTo(n.chunks[i], e) => i \in DOMAIN b.chunks
    BY <1>1, <1>11, <1>15
  <2>. QED
    BY <2>2, <2>3, <2>4, <2>5 DEF InBase, InChunk
<1>19. ASSUME NEW l \in PlannedLanes
       PROVE  /\ \A e \in Drones : InBase(n, e, l) => InBase(b, e, l)
              /\ \A e \in Drones : e # d => (InBase(n, e, l) <=> InBase(b, e, l))
              /\ \A i \in 1..N : InChunk(n, i, l) <=> InChunk(b, i, l)
              /\ \A k \in 1..M : InChunk(n, N + k, l) => InBase(b, d, l) /\ ~InBase(n, d, l)
              /\ \A j, k \in 1..M : InChunk(n, N + j, l) /\ InChunk(n, N + k, l) => j = k
              /\ InBase(b, d, l) => InBase(n, d, l) \/ \E k \in 1..M : InChunk(n, N + k, l)
  <2>1. (InBase(n, d, l) <=> l \in Range(flown)) /\ (InBase(b, d, l) <=> l \in Range(p))
    BY <1>1, <1>10 DEF InBase
  <2>2. \A k \in 1..M : InChunk(n, N + k, l) <=> l \in Range(pieces[k])
    BY <1>11 DEF InChunk
  <2>3. l \in Range(p) <=> \E i \in 1..Len(p) : p[i] = l
    BY <1>1, InPath
  <2>4. DOMAIN p = 1..Len(p)
    BY <1>1, InPath
  <2>5. l \in Range(p) <=> l \in Range(flown) \/ l \in Range(rest)
    <3>1. \A i \in 1..Len(p) : i \in 1..index \/ i \in (index + 1)..Len(p)
      BY <1>2
    <3>2. \A i \in 1..index : i \in 1..Len(p)
      BY <1>2
    <3>3. \A i \in (index + 1)..Len(p) : i \in 1..Len(p)
      BY <1>2
    <3>. QED
      BY <1>3, <1>4, <2>3, <3>1, <3>2, <3>3
  <2>6. ~(l \in Range(flown) /\ l \in Range(rest))
    <3> SUFFICES ASSUME NEW i \in 1..index, NEW j \in (index + 1)..Len(p), p[i] = l, p[j] = l PROVE FALSE
      BY <1>3, <1>4
    <3>1. i \in DOMAIN p /\ j \in DOMAIN p /\ i # j
      BY <1>2, <2>4
    <3>. QED
      BY <1>1, <3>1 DEF Once
  <2>7. \A j, k \in 1..M : l \in Range(pieces[j]) /\ l \in Range(pieces[k]) => j = k
    BY <1>5 DEF Disjoint
  <2>8. \A e \in Drones : e # d => (InBase(n, e, l) <=> InBase(b, e, l))
    BY <1>10 DEF InBase
  <2>9. \A i \in 1..N : InChunk(n, i, l) <=> InChunk(b, i, l)
    BY <1>11 DEF InChunk
  <2> HIDE DEF InBase, InChunk
  <2>10. \A e \in Drones : InBase(n, e, l) => InBase(b, e, l)
    BY <2>1, <2>5, <2>8
  <2>11. \A k \in 1..M : InChunk(n, N + k, l) => InBase(b, d, l) /\ ~InBase(n, d, l)
    BY <1>5, <2>1, <2>2, <2>5, <2>6
  <2>12. \A j, k \in 1..M : InChunk(n, N + j, l) /\ InChunk(n, N + k, l) => j = k
    BY <2>2, <2>7
  <2>13. InBase(b, d, l) => InBase(n, d, l) \/ \E k \in 1..M : InChunk(n, N + k, l)
    BY <1>5, <2>1, <2>2, <2>5
  <2>. QED
    BY <2>8, <2>9, <2>10, <2>11, <2>12, <2>13
<1>20. /\ \A i \in 1..N : i \in Pending(n) <=> i \in Pending(b)
       /\ \A k \in 1..M : N + k \in Pending(n)
       /\ \A i \in Pending(n) : i \in 1..N \/ \E k \in 1..M : i = N + k
       /\ Pending(b) \subseteq 1..N
  BY <1>1, <1>11, <1>12, <1>13, <1>14 DEF Pending
<1> HIDE DEF InBase, InChunk, Pending
<1>21. Apart(n)
  <2> SUFFICES ASSUME NEW l \in PlannedLanes
               PROVE  /\ \A e, f \in Drones : InBase(n, e, l) /\ InBase(n, f, l) => e = f
                      /\ \A e \in Drones, i \in Pending(n) : ~(InBase(n, e, l) /\ InChunk(n, i, l))
                      /\ \A i, j \in Pending(n) : InChunk(n, i, l) /\ InChunk(n, j, l) => i = j
    BY DEF Apart
  <2>1. /\ \A e, f \in Drones : InBase(b, e, l) /\ InBase(b, f, l) => e = f
        /\ \A e \in Drones, i \in Pending(b) : ~(InBase(b, e, l) /\ InChunk(b, i, l))
        /\ \A i, j \in Pending(b) : InChunk(b, i, l) /\ InChunk(b, j, l) => i = j
    BY DEF LaneInv, Apart
  <2>2. \A e, f \in Drones : InBase(n, e, l) /\ InBase(n, f, l) => e = f
    BY <1>19, <2>1
  <2>3. ASSUME NEW e \in Drones, NEW i \in Pending(n), InBase(n, e, l), InChunk(n, i, l) PROVE FALSE
    <3>1. CASE i \in 1..N
      BY <1>19, <1>20, <2>1, <2>3, <3>1
    <3>2. ASSUME NEW k \in 1..M, i = N + k PROVE FALSE
      <4>1. InBase(b, d, l) /\ ~InBase(n, d, l) /\ InBase(b, e, l)
        BY <1>19, <2>3, <3>2
      <4>. QED
        BY <2>1, <2>3, <4>1
    <3>. QED
      BY <1>20, <3>1, <3>2
  <2>4. ASSUME NEW i \in Pending(n), NEW j \in Pending(n), InChunk(n, i, l), InChunk(n, j, l) PROVE i = j
    <3>1. CASE i \in 1..N /\ j \in 1..N
      BY <1>19, <1>20, <2>1, <2>4, <3>1
    <3>2. ASSUME NEW k \in 1..M, NEW h \in 1..M, i = N + k, j = N + h PROVE i = j
      BY <1>19, <2>4, <3>2
    <3>3. ASSUME NEW g \in 1..N, g \in Pending(b), InChunk(n, g, l), NEW k \in 1..M, InChunk(n, N + k, l) PROVE FALSE
      BY <1>19, <2>1, <3>3
    <3>. QED
      BY <1>20, <2>4, <3>1, <3>2, <3>3
  <2>. QED
    BY <2>2, <2>3, <2>4
<1>22. ASSUME Whole(b) PROVE Whole(n)
  <2> SUFFICES ASSUME NEW l \in PlannedLanes
               PROVE  (\E e \in Drones : InBase(n, e, l)) \/ (\E i \in Pending(n) : InChunk(n, i, l))
    BY DEF Whole
  <2>1. (\E e \in Drones : InBase(b, e, l)) \/ (\E i \in Pending(b) : InChunk(b, i, l))
    BY <1>22 DEF Whole
  <2>. QED
    BY <1>19, <1>20, <2>1
<1>23. \A i \in DOMAIN n.chunks :
          n.chunks[i].status = "queued" \/ (i \in DOMAIN b.chunks /\ n.chunks[i] = b.chunks[i])
  BY <1>24
<1>. QED
  BY <1>9, <1>10, <1>16, <1>17, <1>18, <1>21, <1>22, <1>23 DEF LaneInv

----------------------------------------------------------------------------
(* The book in every state.                                                *)

\* Whoever the mission thread tells to land, and reports the re-task of, is lost.
BookInv ==
    /\ Kept(book) /\ LaneInv(book) /\ (plan > 0 => Whole(book))
    /\ mission.op \in {"parting", "waiting"} => mission.drone \in book.lost

\* The types of everything but the book, with the senders' orders.
RestTyped ==
    /\ plan \in 0..MaxPlans
    /\ started \in BOOLEAN /\ watched \in BOOLEAN /\ landedAll \in BOOLEAN /\ landing \in BOOLEAN
    /\ mission \in [op : Missions, drone : Drones \cup {None}]
    /\ unsent \in [Threads -> SUBSET (Drones \X Orders)]
    /\ toGround \in [Drones -> Seq(Answers)]
    /\ startLast \subseteq Drones
    /\ edgePlan \in [Drones -> Orders \cup {None}]
    /\ crossed \in BOOLEAN

\* The book of a new plan, or before the first: every lane is with its own drone.
LEMMA NewBook ==
    ASSUME NEW ls \in [Drones -> Seq(Lanes)], NEW b, b = [NoBook EXCEPT !.lanes = ls],
           \A d \in Drones : ls[d] = <<>> \/ ls[d] = Zone(d)
    PROVE  /\ Kept(b) /\ LaneInv(b)
           /\ (\A d \in Drones : ls[d] = Zone(d)) => Whole(b)
           /\ b.acked = {} /\ b.lost = {} /\ b.chunks = <<>> /\ b.lanes = ls /\ \A d \in Drones : b.offer[d] = None
<1>1. /\ b.lanes = ls /\ b.acked = {} /\ b.nacked = {} /\ b.offer = [d \in Drones |-> None]
      /\ b.lost = {} /\ b.closed = {} /\ b.chunks = <<>>
      /\ b = [lanes |-> ls, acked |-> {}, nacked |-> {}, offer |-> [d \in Drones |-> None],
              lost |-> {}, closed |-> {}, chunks |-> <<>>]
  BY DEF NoBook
<1>2. <<>> \in Seq(Chunks) /\ DOMAIN (<<>>) = {}
  OBVIOUS
<1>3. b \in Books
  <2>1. [d \in Drones |-> None] \in [Drones -> Offers \cup {None}]
    OBVIOUS
  <2>. QED
    BY <1>1, <1>2, <2>1 DEF Books
<1>4. Kept(b)
  BY <1>1, <1>2, <1>3 DEF Kept
<1>5. \A d \in Drones : Base(b, d) = ls[d]
  BY <1>1 DEF Base
<1>6. ASSUME NEW d \in Drones, NEW l
      PROVE  /\ l \in Range(Zone(d)) <=> \E i \in 1..LaneCount[d] : l = <<d, i>>
             /\ Once(Zone(d))
  BY DEF Zone, Range, Once
<1>7. ASSUME NEW d \in Drones
      PROVE  /\ Once(ls[d])
             /\ \A l : l \in Range(ls[d]) => \E i \in 1..LaneCount[d] : l = <<d, i>>
  <2>1. CASE ls[d] = <<>>
    BY <1>2, <2>1 DEF Range, Once
  <2>2. CASE ls[d] = Zone(d)
    BY <1>6, <2>2
  <2>. QED
    BY <2>1, <2>2
<1>8. Pending(b) = {}
  BY <1>1, <1>2 DEF Pending
<1>9. Simple(b) /\ Backed(b)
  BY <1>1, <1>2, <1>5, <1>7 DEF Simple, Backed
<1>10. Apart(b)
  <2>1. \A d \in Drones : \A l : InBase(b, d, l) => \E i \in 1..LaneCount[d] : l = <<d, i>>
    BY <1>5, <1>7 DEF InBase
  <2> HIDE DEF InBase
  <2>2. \A d, e \in Drones : \A l : InBase(b, d, l) /\ InBase(b, e, l) => d = e
    BY <2>1
  <2>. QED
    BY <1>8, <2>2 DEF Apart
<1>11. ASSUME \A d \in Drones : ls[d] = Zone(d) PROVE Whole(b)
  <2> SUFFICES ASSUME NEW l \in PlannedLanes PROVE \E d \in Drones : InBase(b, d, l)
    BY DEF Whole
  <2>1. PICK d \in Drones : l \in {<<d, i>> : i \in 1..LaneCount[d]}
    BY DEF PlannedLanes
  <2>2. l \in Range(Base(b, d))
    BY <1>5, <1>6, <1>11, <2>1
  <2>. QED
    BY <2>2 DEF InBase
<1>. QED
  BY <1>1, <1>4, <1>9, <1>10, <1>11 DEF LaneInv

\* A round of offers, as a step.
LEMMA DispatchStep ==
    ASSUME NEW b, Kept(b), LaneInv(b), NEW t, NEW holds, Dispatch(b, t, holds)
    PROVE  Kept(book') /\ LaneInv(book') /\ (Whole(b) => Whole(book')) /\ book'.lost = b.lost
<1>1. PICK to \in [Queued(b) -> Drones \cup {"queued", "failed"}] :
         /\ \A i \in Queued(b) : to[i] \in Outcomes(b, i)
         /\ book' = Dispatched(b, to)
  BY DEF Dispatch
<1>2. b \in Books
  BY DEF Kept
<1>. QED
  BY <1>1, <1>2, DispatchKeeps, DispatchedFields

\* What a loss does to the book before its lanes are offered.
LostBook(b, d) == [b EXCEPT !.lost = @ \cup {d}]

\* Noting a drone as lost moves no lane; only its own offer is left to be withdrawn.
LEMMA LossKeeps ==
    ASSUME NEW d \in Drones, NEW b, Kept(b), LaneInv(b)
    PROVE  /\ KeptBut(LostBook(b, d), d) /\ LaneInv(LostBook(b, d))
           /\ Whole(b) => Whole(LostBook(b, d))
           /\ LostBook(b, d).lost = b.lost \cup {d}
           /\ LostBook(b, d).offer = b.offer /\ LostBook(b, d).lanes = b.lanes
           /\ LostBook(b, d).chunks = b.chunks
           /\ LostBook(b, d).acked = b.acked
<1> DEFINE n == LostBook(b, d)
<1>1. /\ n \in Books /\ n.lanes = b.lanes /\ n.offer = b.offer /\ n.chunks = b.chunks
      /\ n.acked = b.acked /\ n.closed = b.closed /\ n.lost = b.lost \cup {d}
  BY DEF LostBook, Kept, Books
<1> HIDE DEF n
<1>2. KeptBut(n, d)
  BY <1>1 DEF Kept, KeptBut
<1>3. (\A e : Base(n, e) = Base(b, e)) /\ Pending(n) = Pending(b)
  BY <1>1 DEF Base, Pending
<1>4. LaneInv(n) /\ (Whole(b) => Whole(n))
  BY <1>1, <1>3 DEF LaneInv, Simple, Backed, Apart, Whole, InBase, InChunk
<1>. QED
  BY <1>1, <1>2, <1>4 DEF n

\* What telemetry that ends a refusal for now does to the book.
Undeferred(b, d) == [b EXCEPT !.chunks = [i \in DOMAIN @ |-> Released(@[i], d)]]

\* Telemetry that ends a refusal for now, and a report, move nothing.
LEMMA ReleaseKeeps ==
    ASSUME NEW d \in Drones, NEW b, Kept(b), LaneInv(b),
           NEW n, n = Undeferred(b, d)
    PROVE  /\ Kept(n) /\ LaneInv(n) /\ (Whole(b) => Whole(n))
           /\ n.lanes = b.lanes /\ n.offer = b.offer /\ n.acked = b.acked /\ n.lost = b.lost
           /\ DOMAIN n.chunks = DOMAIN b.chunks
           /\ \A i \in DOMAIN b.chunks : n.chunks[i].lanes = b.chunks[i].lanes /\ SameFate(b, n, i)
<1> USE DEF Undeferred
<1> DEFINE cs == [i \in DOMAIN b.chunks |-> Released(b.chunks[i], d)]
           N == Len(b.chunks)
<1>1. /\ b \in Books /\ DOMAIN b.chunks = 1..N /\ N \in Nat
      /\ \A i \in 1..N : b.chunks[i] \in Chunks
  <2>1. b \in Books
    BY DEF Kept
  <2>. QED
    BY <2>1, BookParts
<1>2. ASSUME NEW i \in 1..N
      PROVE  /\ cs[i] \in Chunks /\ cs[i].of = b.chunks[i].of /\ cs[i].lanes = b.chunks[i].lanes
             /\ cs[i].status = b.chunks[i].status /\ cs[i].receiver = b.chunks[i].receiver
  <2>1. cs[i] = Released(b.chunks[i], d) /\ b.chunks[i] \in Chunks
    BY <1>1
  <2>2. \A c \in Chunks : LET f == Released(c, d) IN
           f \in Chunks /\ f.of = c.of /\ f.lanes = c.lanes /\ f.status = c.status /\ f.receiver = c.receiver
    BY DEF Chunks, Released
  <2>. QED
    BY <2>1, <2>2
<1>3. cs \in Seq(Chunks) /\ DOMAIN cs = 1..N
  <2>1. cs \in [1..N -> Chunks]
    BY <1>1, <1>2
  <2>2. DOMAIN cs = 1..N
    BY <1>1
  <2> HIDE DEF cs, N
  <2>. QED
    BY <1>1, <2>1, <2>2, SeqDef
<1>4. n = [b EXCEPT !.chunks = cs]
  OBVIOUS
<1> HIDE DEF cs
<1>5. /\ n \in Books /\ n.lanes = b.lanes /\ n.offer = b.offer /\ n.acked = b.acked
      /\ n.lost = b.lost /\ n.closed = b.closed /\ n.chunks = cs
  BY <1>1, <1>3, <1>4 DEF Books
<1>6. SameChunks(b, n) /\ \A i \in DOMAIN b.chunks : SameFate(b, n, i)
  BY <1>1, <1>2, <1>3, <1>5 DEF SameChunks, SameFate
<1>7. n.closed \subseteq n.lost /\ \A e \in Drones : b.offer[e] # None => e \notin n.acked
  BY <1>5 DEF Kept
<1>8. Kept(n) /\ LaneInv(n) /\ (Whole(b) => Whole(n))
  BY <1>5, <1>6, <1>7, NothingChanged
<1>. QED
  BY <1>5, <1>6, <1>8 DEF SameChunks

\* What a report does to the book.
Summed(b, closed) == [b EXCEPT !.closed = closed, !.chunks = Collected(@, closed)]

\* A re-task reported.
LEMMA SummaryKeeps ==
    ASSUME NEW d \in Drones, NEW b, Kept(b), LaneInv(b), d \in b.lost,
           NEW closed, closed = b.closed \/ closed = b.closed \cup {d},
           NEW n, n = Summed(b, closed)
    PROVE  /\ Kept(n) /\ LaneInv(n) /\ (Whole(b) => Whole(n))
           /\ n.lanes = b.lanes /\ n.offer = b.offer /\ n.acked = b.acked /\ n.lost = b.lost
           /\ DOMAIN n.chunks = DOMAIN b.chunks
           /\ \A i \in DOMAIN b.chunks : n.chunks[i].lanes = b.chunks[i].lanes /\ SameFate(b, n, i)
<1> USE DEF Summed
<1> DEFINE cs == Collected(b.chunks, closed)
<1>1. b \in Books /\ b.chunks \in Seq(Chunks) /\ b.closed \subseteq b.lost /\ b.lost \subseteq Drones
  BY BookParts DEF Kept
<1>2. /\ cs \in Seq(Chunks) /\ DOMAIN cs = DOMAIN b.chunks
      /\ \A i \in DOMAIN b.chunks :
            /\ cs[i].of = b.chunks[i].of /\ cs[i].lanes = b.chunks[i].lanes
            /\ cs[i].status = b.chunks[i].status /\ cs[i].receiver = b.chunks[i].receiver
  BY <1>1, CollectedChunks
<1> HIDE DEF cs
<1>3. n = [b EXCEPT !.closed = closed, !.chunks = cs]
  BY DEF cs
<1>4. /\ n \in Books /\ n.lanes = b.lanes /\ n.offer = b.offer /\ n.acked = b.acked
      /\ n.lost = b.lost /\ n.closed = closed /\ n.chunks = cs
  <2>1. closed \in SUBSET Drones
    BY <1>1
  <2>. QED
    BY <1>1, <1>2, <1>3, <2>1 DEF Books
<1>5. SameChunks(b, n) /\ \A i \in DOMAIN b.chunks : SameFate(b, n, i)
  BY <1>2, <1>4 DEF SameChunks, SameFate
<1>6. n.closed \subseteq n.lost /\ \A e \in Drones : b.offer[e] # None => e \notin n.acked
  BY <1>1, <1>4 DEF Kept
<1>7. Kept(n) /\ LaneInv(n) /\ (Whole(b) => Whole(n))
  <2>1. Kept(b) /\ LaneInv(b)
    OBVIOUS
  <2>2. Kept(n) /\ (LaneInv(b) => LaneInv(n)) /\ (Whole(b) => Whole(n))
    BY ONLY <1>4, <1>5, <1>6, <2>1, NothingChanged
  <2>. QED
    BY ONLY <2>1, <2>2
<1>. QED
  BY <1>4, <1>5, <1>7 DEF SameChunks

\* An offer that was not sent, and an answer: what becomes of the book.
LEMMA NotSentKeeps ==
    ASSUME Kept(book), LaneInv(book), NEW d \in Drones, NEW t, NEW m, OfferNotSent(t, d, m)
    PROVE  Kept(book') /\ LaneInv(book') /\ (Whole(book) => Whole(book')) /\ book'.lost = book.lost
<1> DEFINE b == Withdrawn(book, d, "refused")
<1>1. CASE book' = book
  BY <1>1
<1>2. CASE Dispatch(b, t, unsent[t] \ {<<d, m>>})
  <2>1. Kept(b) /\ LaneInv(b) /\ (Whole(book) => Whole(b)) /\ b.lost = book.lost
    <3>1. KeptBut(book, d)
      BY DEF Kept, KeptBut
    <3>. QED
      BY <3>1, WithdrawKeeps
  <2> HIDE DEF b
  <2>. QED
    BY <1>2, <2>1, DispatchStep
<1>. QED
  BY <1>1, <1>2 DEF OfferNotSent

\* An acceptance, and the mission parted after it, lose no lane.
LEMMA AckKeeps ==
    ASSUME Kept(book), LaneInv(book), NEW d \in Drones, OnAck(d)
    PROVE  Kept(book') /\ LaneInv(book') /\ (Whole(book) => Whole(book')) /\ book'.lost = book.lost
<1> DEFINE b == Accepted(book, d)
<1>1. Kept(b) /\ LaneInv(b) /\ (Whole(book) => Whole(b)) /\ b.lost = book.lost
  <2>1. book \in Books
    BY DEF Kept
  <2>. QED
    BY <2>1, AcceptKeeps, AcceptedFields
<1> HIDE DEF b
<1>2. book' = book \/ book' = b \/ Dispatch(b, d, {})
  BY DEF OnAck, b
<1>. QED
  BY <1>1, <1>2, DispatchStep

\* A refusal gives the lanes offered back before they are dispatched again.
LEMMA NackKeeps ==
    ASSUME Kept(book), LaneInv(book), NEW d \in Drones, OnNack(d)
    PROVE  Kept(book') /\ LaneInv(book') /\ (Whole(book) => Whole(book')) /\ book'.lost = book.lost
<1> DEFINE b == Withdrawn(book, d, Head(toGround[d]).says)
<1>1. Kept(b) /\ LaneInv(b) /\ (Whole(book) => Whole(b)) /\ b.lost = book.lost
  <2>1. KeptBut(book, d)
    BY DEF Kept, KeptBut
  <2>. QED
    BY <2>1, WithdrawKeeps
<1> HIDE DEF b
<1>2. \/ book' = book
      \/ Dispatch(b, d, {})
      \/ book' = [book EXCEPT !.acked = book.acked \ {d}, !.nacked = book.nacked \cup {d}]
  BY DEF OnNack, b
<1>3. CASE book' = [book EXCEPT !.acked = book.acked \ {d}, !.nacked = book.nacked \cup {d}]
  <2>1. book \in Books /\ book.closed \subseteq book.lost
    BY DEF Kept
  <2>2. book.acked \ {d} \in SUBSET Drones /\ book.nacked \cup {d} \in SUBSET Drones
    BY <2>1 DEF Books
  <2>3. /\ book' \in Books /\ book'.lanes = book.lanes /\ book'.offer = book.offer /\ book'.lost = book.lost
        /\ book'.closed = book.closed /\ book'.chunks = book.chunks /\ book'.acked = book.acked \ {d}
    BY <1>3, <2>1, <2>2 DEF Books
  <2>4. /\ SameChunks(book, book') /\ \A i \in DOMAIN book.chunks : SameFate(book, book', i)
        /\ book'.closed \subseteq book'.lost
        /\ \A e \in Drones : book.offer[e] # None => e \notin book'.acked
    BY <2>1, <2>3 DEF SameChunks, SameFate, Kept
  <2>. QED
    BY <2>3, <2>4, NothingChanged
<1>. QED
  BY <1>1, <1>2, <1>3, DispatchStep

\* Telemetry that ends a wait dispatches lanes that are waiting, and loses none.
LEMMA TelemetryKeeps ==
    ASSUME Kept(book), LaneInv(book), NEW d \in Drones, Telemetry(d)
    PROVE  Kept(book') /\ LaneInv(book') /\ (Whole(book) => Whole(book')) /\ book'.lost = book.lost
<1> DEFINE b == Undeferred(book, d)
<1>1. Kept(b) /\ LaneInv(b) /\ (Whole(book) => Whole(b)) /\ b.lost = book.lost
  BY ReleaseKeeps
<1>2. book' = b \/ Dispatch(b, d, {})
  BY DEF Telemetry, Undeferred
<1> HIDE DEF b
<1>. QED
  BY <1>1, <1>2, DispatchStep

\* A lost drone's lanes, flown ones cut off, are with the mission or another drone.
LEMMA DroneLost ==
    ASSUME Kept(book), LaneInv(book), NEW d \in Drones, Lose(d)
    PROVE  /\ Kept(book') /\ LaneInv(book') /\ (Whole(book) => Whole(book'))
           /\ book'.lost = book.lost \cup {d}
<1> DEFINE b == Withdrawn(LostBook(book, d), d, "lost")
<1>1. Kept(b) /\ LaneInv(b) /\ (Whole(book) => Whole(b)) /\ b.lost = book.lost \cup {d} /\ b.offer[d] = None
  BY LossKeeps, WithdrawKeeps
<1>2. \E index \in 0..Len(b.lanes[d]) :
        \E pieces \in Cuts(SubSeq(b.lanes[d], index + 1, Len(b.lanes[d]))) :
          Dispatch(Parted(b, d, index, pieces), "mission", {})
  BY DEF Lose, LostBook, Parted
<1> HIDE DEF b
<1>3. PICK index \in 0..Len(b.lanes[d]) :
        \E pieces \in Cuts(SubSeq(b.lanes[d], index + 1, Len(b.lanes[d]))) :
          Dispatch(Parted(b, d, index, pieces), "mission", {})
  BY <1>2
<1>4. PICK pieces \in Cuts(SubSeq(b.lanes[d], index + 1, Len(b.lanes[d]))) :
          Dispatch(Parted(b, d, index, pieces), "mission", {})
  BY <1>3
<1> DEFINE n == Parted(b, d, index, pieces)
<1>5. Kept(n) /\ LaneInv(n) /\ (Whole(b) => Whole(n)) /\ n.lost = b.lost
  BY <1>1, LoseKeeps
<1>6. Dispatch(n, "mission", {})
  BY <1>4
<1> HIDE DEF n
<1>. QED
  BY <1>1, <1>5, <1>6, DispatchStep

\* Every step keeps the book: no step loses a lane or doubles one.
LEMMA BookStep ==
    ASSUME BookInv, RestTyped, [Next]_vars
    PROVE  BookInv'
<1> DEFINE Lossless == Kept(book') /\ LaneInv(book') /\ (Whole(book) => Whole(book'))
<1>1. Kept(book) /\ LaneInv(book) /\ (plan > 0 => Whole(book))
  BY DEF BookInv
<1>2. CASE UNCHANGED <<plan, book>> /\ mission'.op \notin {"parting", "waiting"}
  BY <1>2 DEF BookInv
<1>3. CASE UNCHANGED <<plan, book, mission>>
  BY <1>3 DEF BookInv
<1>4. CASE UNCHANGED <<plan, mission>> /\ book'.lost = book.lost /\ Lossless
  BY <1>4 DEF BookInv
<1>5. CASE Plan
  <2> DEFINE ls == [d \in Drones |-> Zone(d)]
  <2>1. book' = [NoBook EXCEPT !.lanes = ls] /\ mission'.op = "planning"
    BY <1>5 DEF Plan, Idle
  <2>2. \A d \in Drones : ls[d] = Zone(d) /\ Zone(d) \in Seq(Lanes)
    <3>1. ASSUME NEW d \in Drones PROVE Zone(d) \in Seq(Lanes)
      <4>1. LaneCount[d] \in Nat /\ \A i \in 1..LaneCount[d] : <<d, i>> \in Lanes
        BY CoordinatorAssumption DEF Lanes, PlannedLanes
      <4>2. Zone(d) \in [1..LaneCount[d] -> Lanes]
        BY <4>1 DEF Zone
      <4>. QED
        BY <4>1, <4>2, SeqDef
    <3>. QED
      BY <3>1
  <2>3. ls \in [Drones -> Seq(Lanes)]
    BY <2>2
  <2> HIDE DEF ls
  <2>4. Kept(book') /\ LaneInv(book') /\ Whole(book')
    BY <2>1, <2>2, <2>3, NewBook
  <2>. QED
    BY <2>1, <2>4 DEF BookInv
<1>6. ASSUME NEW d \in Drones, Lose(d) PROVE BookInv'
  <2>1. /\ Kept(book') /\ LaneInv(book') /\ (Whole(book) => Whole(book'))
        /\ book'.lost = book.lost \cup {d}
    BY <1>1, <1>6, DroneLost
  <2>2. mission' = [op |-> "parting", drone |-> d] /\ plan' = plan
    BY <1>6 DEF Lose
  <2>. QED
    BY <1>1, <2>1, <2>2 DEF BookInv
<1>7. ASSUME NEW d \in Drones, LandLost(d) PROVE BookInv'
  <2>1. mission = [op |-> "parting", drone |-> d] /\ mission' = [op |-> "waiting", drone |-> d] /\ UNCHANGED <<plan, book>>
    BY <1>7 DEF LandLost
  <2>. QED
    BY <2>1 DEF BookInv
<1>8. ASSUME NEW d \in Drones, Summarise(d) PROVE BookInv'
  <2> DEFINE closed == IF OfChunks(book, d) = {} THEN book.closed ELSE book.closed \cup {d}
  <2>1. /\ mission = [op |-> "waiting", drone |-> d] /\ mission' = Idle /\ plan' = plan
        /\ book' = Summed(book, closed)
    BY <1>8 DEF Summarise, Summed
  <2>2. closed = book.closed \/ closed = book.closed \cup {d}
    OBVIOUS
  <2>3. d \in book.lost
    BY <2>1 DEF BookInv
  <2> HIDE DEF closed
  <2>4. Kept(book') /\ LaneInv(book') /\ (Whole(book) => Whole(book'))
    BY <1>1, <2>1, <2>2, <2>3, SummaryKeeps
  <2>. QED
    BY <1>1, <2>1, <2>4 DEF BookInv, Idle
<1>9. ASSUME NEW t \in Threads, Sends(t) PROVE BookInv'
  <2>1. PICK order \in unsent[t] :
           \/ OfferLost(t, order[1], order[2])
           \/ \E says \in Says : SendAssign(t, order[1], order[2], says) \/ OfferLate(t, order[1], order[2], says)
    BY <1>9 DEF Sends
  <2>2. order[1] \in Drones
    BY DEF RestTyped
  <2>3. CASE OfferNotSent(t, order[1], order[2])
    <3>1. UNCHANGED <<plan, mission>>
      BY <2>3 DEF OfferNotSent
    <3>. QED
      BY <1>1, <1>4, <2>2, <2>3, <3>1, NotSentKeeps
  <2>4. CASE \E says \in Says : SendAssign(t, order[1], order[2], says)
    BY <1>3, <2>4 DEF SendAssign
  <2>. QED
    BY <2>1, <2>3, <2>4 DEF OfferLost, OfferLate
<1>10. ASSUME NEW d \in Drones, OnAck(d) \/ OnNack(d) \/ Telemetry(d) PROVE BookInv'
  <2>1. UNCHANGED <<plan, mission>>
    BY <1>10 DEF OnAck, OnNack, Telemetry
  <2>2. book'.lost = book.lost /\ Lossless
    BY <1>1, <1>10, AckKeeps, NackKeeps, TelemetryKeeps
  <2>. QED
    BY <1>4, <2>1, <2>2
<1>11. CASE UNCHANGED vars
  BY <1>3, <1>11 DEF vars
<1>12. CASE Start \/ PlanDone \/ AbortSent
  BY <1>2, <1>12 DEF Start, PlanDone, AbortSent, Idle
<1>13. CASE LandAll \/ LandAllSent
  BY <1>3, <1>13 DEF LandAll, LandAllSent
<1>14. CASE StartDone
  BY <1>2, <1>14 DEF StartDone, Abort, StartOk, Idle
<1>15. ASSUME NEW d \in Drones, CheckLosses(d) PROVE BookInv'
  BY <1>2, <1>15 DEF CheckLosses
<1>16. ASSUME NEW d \in Drones, SendStart(d) PROVE BookInv'
  BY <1>2, <1>3, <1>16 DEF SendStart, Abort, Idle
<1>17. ASSUME NEW o \in unsent["mission"], PlanNotSent(o[1], o[2]) PROVE BookInv'
  BY <1>3, <1>17 DEF PlanNotSent
<1>. QED
  BY <1>5, <1>6, <1>7, <1>8, <1>9, <1>10, <1>11, <1>12, <1>13, <1>14, <1>15, <1>16, <1>17
     DEF Next, ThreadStep, MissionStep, LinkStep, Threads

\* What the orders are made of.
LEMMA OrderTypes ==
    /\ StartAt \in Orders
    /\ \A n \in 0..MaxPlans, path \in Seq(Lanes) : Assign(n, path) \in Orders
<1>1. 0 \in 0..MaxPlans /\ <<>> \in Seq(Lanes)
  BY CoordinatorAssumption
<1>. QED
  BY <1>1 DEF Orders, StartAt, Assign

\* A path of one drone's planned lanes.
LEMMA ZonePath ==
    ASSUME NEW d \in Drones
    PROVE  Zone(d) \in Seq(Lanes)
<1>1. LaneCount[d] \in Nat /\ \A i \in 1..LaneCount[d] : <<d, i>> \in Lanes
  BY CoordinatorAssumption DEF Lanes, PlannedLanes
<1>2. Zone(d) \in [1..LaneCount[d] -> Lanes]
  BY <1>1 DEF Zone
<1>. QED
  BY <1>1, <1>2, SeqDef

\* What a thread owes after a round of offers.
LEMMA DispatchOwes ==
    ASSUME plan \in 0..MaxPlans, unsent \in [Threads -> SUBSET (Drones \X Orders)], Kept(book'),
           NEW b, NEW t \in Threads, NEW holds \in SUBSET (Drones \X Orders), Dispatch(b, t, holds)
    PROVE  unsent' \in [Threads -> SUBSET (Drones \X Orders)]
<1> DEFINE Offered(n, to) == {<<d, Assign(plan, n.lanes[d])>> : d \in {r \in Drones : Given(b, to, r)}}
<1>1. PICK to \in [Queued(b) -> Drones \cup {"queued", "failed"}] :
         book' = Dispatched(b, to) /\ unsent' = [unsent EXCEPT ![t] = holds \cup Offered(Dispatched(b, to), to)]
  BY DEF Dispatch
<1>2. Dispatched(b, to) \in Books
  BY <1>1 DEF Kept
<1>3. \A n \in Books : \A d \in Drones : n.lanes[d] \in Seq(Lanes)
  BY DEF Books
<1>4. \A n \in Books : Offered(n, to) \in SUBSET (Drones \X Orders)
  BY <1>3, OrderTypes
<1> HIDE DEF Offered
<1>. QED
  BY <1>1, <1>2, <1>4

\* Every step keeps the types of what is not in the book.
LEMMA RestStep ==
    ASSUME RestTyped, Kept(book'), [Next]_vars
    PROVE  RestTyped'
<1> USE DEF RestTyped
<1>1. \A d \in Drones : d \in Threads /\ "mission" \in Threads
  BY DEF Threads
<1>2. \A op \in Missions, d \in Drones \cup {None} : [op |-> op, drone |-> d] \in [op : Missions, drone : Drones \cup {None}]
  OBVIOUS
<1>3. Idle \in [op : Missions, drone : Drones \cup {None}]
  BY DEF Idle, Missions
<1>4. \A op \in Missions : [Idle EXCEPT !.op = op] \in [op : Missions, drone : Drones \cup {None}]
  BY DEF Idle, Missions
<1>5. CASE Plan
  <2>1. plan + 1 \in 0..MaxPlans
    BY <1>5, CoordinatorAssumption DEF Plan
  <2>2. \A d \in Drones : Assign(plan + 1, Zone(d)) \in Orders
    BY <2>1, ZonePath, OrderTypes
  <2>3. {<<d, Assign(plan + 1, Zone(d))>> : d \in Drones} \in SUBSET (Drones \X Orders)
    BY <2>2
  <2>4. unsent' \in [Threads -> SUBSET (Drones \X Orders)]
    BY <1>1, <1>5, <2>3 DEF Plan
  <2>5. mission' \in [op : Missions, drone : Drones \cup {None}]
    BY <1>4, <1>5 DEF Plan, Missions
  <2>6. AnswersUnderWay \in BOOLEAN
    BY DEF AnswersUnderWay
  <2>. QED
    BY <1>5, <2>1, <2>4, <2>5, <2>6 DEF Plan
<1>6. CASE Start
  <2>1. {<<d, StartAt>> : d \in Drones \ book.lost} \in SUBSET (Drones \X Orders)
    BY OrderTypes
  <2>. QED
    BY <1>1, <1>4, <1>6, <2>1 DEF Start, edges, Missions
<1>7. ASSUME Abort PROVE landedAll' \in BOOLEAN /\ mission' \in [op : Missions, drone : Drones \cup {None}]
                         /\ unsent' \in [Threads -> SUBSET (Drones \X Orders)]
  BY <1>1, <1>4, <1>7 DEF Abort, Missions
<1>8. ASSUME NEW d \in Drones, SendStart(d) PROVE RestTyped'
  <2>1. unsent' = [unsent EXCEPT !["mission"] = @ \ {<<d, StartAt>>}] => unsent' \in [Threads -> SUBSET (Drones \X Orders)]
    BY <1>1
  <2>. QED
    BY <1>7, <1>8, <2>1 DEF SendStart, edges
<1>9. CASE StartDone
  BY <1>3, <1>7, <1>9 DEF StartDone, StartOk, edges
<1>10. CASE PlanDone \/ AbortSent \/ LandAll \/ LandAllSent
  BY <1>3, <1>10 DEF PlanDone, AbortSent, LandAll, LandAllSent, edges
<1>11. ASSUME NEW d \in Drones, CheckLosses(d) \/ LandLost(d) \/ Summarise(d) PROVE RestTyped'
  <2>1. mission' \in [op : Missions, drone : Drones \cup {None}]
    <3>1. mission' = Idle \/ \E op \in Missions : mission' = [op |-> op, drone |-> d]
      BY <1>11 DEF CheckLosses, LandLost, Summarise, Missions
    <3>. QED
      BY <1>2, <1>3, <3>1
  <2>2. UNCHANGED <<plan, started, watched, landedAll, landing, unsent, edges>> /\ (startLast' = startLast \/ startLast' = startLast \ {d})
    BY <1>11 DEF CheckLosses, LandLost, Summarise
  <2>. QED
    BY <2>1, <2>2 DEF edges
<1>12. ASSUME NEW d \in Drones, Lose(d) PROVE RestTyped'
  <2>1. mission' \in [op : Missions, drone : Drones \cup {None}]
    <3>1. mission' = [op |-> "parting", drone |-> d] /\ "parting" \in Missions
      BY <1>12 DEF Lose, Missions
    <3>. QED
      BY <1>2, <3>1
  <2>2. UNCHANGED <<plan, started, watched, landedAll, landing, startLast, edges>> /\ \E b : Dispatch(b, "mission", {})
    BY <1>12 DEF Lose
  <2>3. unsent' \in [Threads -> SUBSET (Drones \X Orders)]
    BY <1>1, <2>2, DispatchOwes
  <2>. QED
    BY <2>1, <2>2, <2>3 DEF edges
<1>13. ASSUME NEW d \in Drones, OnAck(d) \/ OnNack(d) \/ Telemetry(d) PROVE RestTyped'
  <2>1. UNCHANGED <<plan, started, watched, landedAll, landing, mission, startLast, edgePlan, crossed>>
    BY <1>13 DEF OnAck, OnNack, Telemetry, edges
  <2>2. toGround' \in [Drones -> Seq(Answers)]
    <3>1. CASE Telemetry(d)
      BY <3>1 DEF Telemetry, edges
    <3>2. CASE OnAck(d) \/ OnNack(d)
      <4>1. toGround[d] # <<>> /\ toGround' = [toGround EXCEPT ![d] = Tail(@)]
        BY <3>2 DEF OnAck, OnNack
      <4>2. Tail(toGround[d]) \in Seq(Answers)
        BY <4>1
      <4>. QED
        BY <4>1, <4>2
    <3>. QED
      BY <1>13, <3>1, <3>2
  <2>3. unsent' \in [Threads -> SUBSET (Drones \X Orders)]
    <3>1. unsent' = unsent \/ \E b : Dispatch(b, d, {})
      BY <1>13 DEF OnAck, OnNack, Telemetry
    <3>. QED
      BY <1>1, <3>1, DispatchOwes
  <2>. QED
    BY <2>1, <2>2, <2>3
<1>14. ASSUME NEW t \in Threads, NEW d \in Drones, NEW m \in Orders, NEW says \in Says, Answer(d, m, says)
       PROVE  toGround' \in [Drones -> Seq(Answers)] /\ edgePlan' \in [Drones -> Orders \cup {None}]
  <2>1. Len(m.lanes) \in Nat
    BY LenProperties DEF Orders
  <2>2. [says |-> says, total |-> Len(m.lanes)] \in Answers
    BY <2>1 DEF Answers
  <2>3. Append(toGround[d], [says |-> says, total |-> Len(m.lanes)]) \in Seq(Answers)
    BY <2>2, AppendProperties
  <2>. QED
    BY <1>14, <2>3 DEF Answer
<1>15. ASSUME NEW t \in Threads, NEW d \in Drones, NEW m \in Orders, OfferNotSent(t, d, m)
       PROVE  /\ unsent' \in [Threads -> SUBSET (Drones \X Orders)]
              /\ UNCHANGED <<plan, started, watched, landedAll, landing, mission, startLast>>
  <2>1. UNCHANGED <<plan, started, watched, landedAll, landing, mission, startLast>>
    BY <1>15 DEF OfferNotSent
  <2>2. unsent' = [unsent EXCEPT ![t] = @ \ {<<d, m>>}] \/ \E b : Dispatch(b, t, unsent[t] \ {<<d, m>>})
    BY <1>15 DEF OfferNotSent
  <2>3. unsent[t] \ {<<d, m>>} \in SUBSET (Drones \X Orders)
    OBVIOUS
  <2>. QED
    BY <2>1, <2>2, <2>3, DispatchOwes
<1>16. ASSUME NEW t \in Threads, Sends(t) PROVE RestTyped'
  <2>1. PICK order \in unsent[t] :
           \/ OfferLost(t, order[1], order[2])
           \/ \E says \in Says : SendAssign(t, order[1], order[2], says) \/ OfferLate(t, order[1], order[2], says)
    BY <1>16 DEF Sends
  <2>2. order[1] \in Drones /\ order[2] \in Orders
    OBVIOUS
  <2>3. CASE OfferLost(t, order[1], order[2])
    BY <1>15, <2>2, <2>3 DEF OfferLost, edges
  <2>4. ASSUME NEW says \in Says, OfferLate(t, order[1], order[2], says) PROVE RestTyped'
    BY <1>14, <1>15, <2>2, <2>4 DEF OfferLate
  <2>5. ASSUME NEW says \in Says, SendAssign(t, order[1], order[2], says) PROVE RestTyped'
    <3>1. unsent' \in [Threads -> SUBSET (Drones \X Orders)]
      BY <2>5 DEF SendAssign
    <3>2. UNCHANGED <<plan, started, watched, landedAll, landing, mission, startLast, crossed>>
          /\ Answer(order[1], order[2], says)
      BY <2>5 DEF SendAssign
    <3>. QED
      BY <1>14, <2>2, <3>1, <3>2
  <2>. QED
    BY <2>1, <2>3, <2>4, <2>5
<1>17. ASSUME NEW o \in unsent["mission"], PlanNotSent(o[1], o[2]) PROVE RestTyped'
  BY <1>1, <1>17 DEF PlanNotSent, edges
<1>18. CASE UNCHANGED vars
  BY <1>18 DEF vars
<1>. QED
  BY <1>5, <1>6, <1>8, <1>9, <1>10, <1>11, <1>12, <1>13, <1>16, <1>17, <1>18
     DEF Next, ThreadStep, MissionStep, LinkStep, Threads

\* The book and the rest, at the start and after every step.
LEMMA Always == Spec => [](BookInv /\ RestTyped)
<1>1. Init => BookInv /\ RestTyped
  <2> SUFFICES ASSUME Init PROVE BookInv /\ RestTyped
    OBVIOUS
  <2> DEFINE ls == [d \in Drones |-> <<>>]
  <2>1. ls \in [Drones -> Seq(Lanes)] /\ \A d \in Drones : ls[d] = <<>>
    OBVIOUS
  <2>2. book = [NoBook EXCEPT !.lanes = ls]
    <3>1. NoBook = [lanes |-> ls, acked |-> {}, nacked |-> {}, offer |-> [d \in Drones |-> None],
                    lost |-> {}, closed |-> {}, chunks |-> <<>>]
      BY DEF NoBook
    <3>2. book = NoBook
      BY DEF Init
    <3>3. ASSUME NEW q, NEW b, b = [NoBook EXCEPT !.lanes = q]
          PROVE  b = [lanes |-> q, acked |-> {}, nacked |-> {}, offer |-> [d \in Drones |-> None],
                      lost |-> {}, closed |-> {}, chunks |-> <<>>]
      BY ONLY <3>3 DEF NoBook
    <3> HIDE DEF ls
    <3>. QED
      BY ONLY <3>1, <3>2, <3>3
  <2> HIDE DEF ls
  <2>3. Kept(book) /\ LaneInv(book)
    BY <2>1, <2>2, NewBook
  <2>4. plan = 0 /\ mission = Idle
    BY DEF Init
  <2>5. BookInv
    BY <2>3, <2>4 DEF BookInv, Idle
  <2>6. RestTyped
    <3>1. Idle \in [op : Missions, drone : Drones \cup {None}]
      BY DEF Idle, Missions
    <3>2. toGround \in [Drones -> Seq(Answers)]
      BY DEF Init
    <3>3. unsent \in [Threads -> SUBSET (Drones \X Orders)] /\ edgePlan \in [Drones -> Orders \cup {None}]
      BY DEF Init
    <3>4. plan \in 0..MaxPlans /\ startLast \subseteq Drones
      BY CoordinatorAssumption DEF Init
    <3>5. started \in BOOLEAN /\ watched \in BOOLEAN /\ landedAll \in BOOLEAN /\ landing \in BOOLEAN /\ crossed \in BOOLEAN
      BY DEF Init
    <3>. QED
      BY <2>4, <3>1, <3>2, <3>3, <3>4, <3>5 DEF RestTyped
  <2>. QED
    BY <2>5, <2>6
<1>2. BookInv /\ RestTyped /\ [Next]_vars => (BookInv /\ RestTyped)'
  BY BookStep, RestStep DEF BookInv
<1>. QED
  BY <1>1, <1>2, PTL DEF Spec

\* Every variable of the coordinator keeps its type, and offers, acks, losses and
\* chunks agree, for any number of drones and lanes.
THEOREM CoordinatorTyped == Spec => []CoordTypeOK
<1>1. BookInv /\ RestTyped => CoordTypeOK
  <2> SUFFICES ASSUME BookInv, RestTyped PROVE CoordTypeOK
    OBVIOUS
  <2>1. Kept(book) /\ book \in Books
    BY DEF BookInv, Kept
  <2>2. DOMAIN book = {"lanes", "acked", "nacked", "offer", "lost", "closed", "chunks"}
    BY <2>1 DEF Books
  <2>. QED
    BY <2>1, <2>2, BookParts DEF CoordTypeOK, RestTyped, Kept, OfferedTo
<1>. QED
  BY <1>1, Always, PTL

\* Re-tasking loses no lane and doubles none, whatever losses, refusals, failed and
\* late sends there are, for any number of drones and lanes.
THEOREM NoLaneIsLost == Spec => []LanesConserved
<1>1. BookInv => LanesConserved
  <2> SUFFICES ASSUME BookInv, plan > 0, NEW l \in PlannedLanes PROVE Cardinality(Places(l)) = 1
    BY DEF LanesConserved
  <2>1. Kept(book) /\ Simple(book) /\ Backed(book) /\ Apart(book) /\ Whole(book) /\ book \in Books /\ l # Transit
    BY TransitAssumption DEF BookInv, LaneInv, Kept
  <2>2. \A i \in DOMAIN book.chunks :
           /\ book.chunks[i].status \in {"queued", "offered", "acked", "failed"}
           /\ book.chunks[i].status = "offered" => book.chunks[i].receiver \in Drones
    BY <2>1, BookParts DEF Kept
  <2> DEFINE Waits(i) == i \in Pending(book) /\ book.chunks[i].status # "offered" /\ InChunk(book, i, l)
             Has(d) == d \in Drones /\ l \in Range(book.lanes[d])
  <2>3. Places(l) = {<<"drone", d>> : d \in {r \in Drones : Has(r)}} \cup {<<"chunk", i>> : i \in {k \in DOMAIN book.chunks : Waits(k)}}
    BY <2>2 DEF Places, Pending, InChunk
  <2>4. ASSUME NEW d \in Drones, Has(d)
        PROVE  InBase(book, d, l) \/ \E i \in Pending(book) : OfferedTo(book.chunks[i], d) /\ InChunk(book, i, l)
    <3>1. CASE book.offer[d] = None
      BY <2>4, <3>1 DEF InBase, Base
    <3>2. CASE book.offer[d] # None
      <4>1. InBase(book, d, l) \/ \E i \in DOMAIN book.chunks : OfferedTo(book.chunks[i], d) /\ InChunk(book, i, l)
        BY <2>1, <2>4, <3>2 DEF Backed
      <4>. QED
        BY <4>1 DEF Pending, OfferedTo
    <3>. QED
      BY <3>1, <3>2
  <2>5. ASSUME NEW d \in Drones, InBase(book, d, l) PROVE Has(d)
    BY <2>1, <2>5 DEF InBase, Base, Backed
  <2>6. ASSUME NEW i \in Pending(book), InChunk(book, i, l), ~Waits(i) PROVE \E d \in Drones : Has(d) /\ OfferedTo(book.chunks[i], d)
    <3>1. i \in DOMAIN book.chunks /\ OfferedTo(book.chunks[i], book.chunks[i].receiver) /\ book.chunks[i].receiver \in Drones
      BY <2>2, <2>6 DEF Pending, OfferedTo
    <3>2. book.offer[book.chunks[i].receiver] # None
      BY <2>1, <3>1 DEF Kept
    <3>. QED
      BY <2>1, <2>6, <3>1, <3>2 DEF Backed, InChunk
  <2> HIDE DEF Has
  <2>7. \A d, e \in Drones : Has(d) /\ Has(e) => d = e
    BY <2>1, <2>4 DEF Apart, OfferedTo
  <2>8. \A d \in Drones : \A i : Has(d) => ~Waits(i)
    BY <2>1, <2>4 DEF Apart, OfferedTo
  <2>9. \A i, j : Waits(i) /\ Waits(j) => i = j
    BY <2>1 DEF Apart
  <2>10. (\E d \in Drones : Has(d)) \/ (\E i \in DOMAIN book.chunks : Waits(i))
    BY <2>1, <2>5, <2>6 DEF Whole, Pending
  <2> HIDE DEF Waits
  <2>11. \E p : Places(l) = {p}
    <3>1. ASSUME NEW d \in Drones, Has(d) PROVE Places(l) = {<<"drone", d>>}
      BY <2>3, <2>7, <2>8, <3>1
    <3>2. ASSUME NEW i \in DOMAIN book.chunks, Waits(i), ~\E d \in Drones : Has(d) PROVE Places(l) = {<<"chunk", i>>}
      BY <2>3, <2>9, <3>2
    <3>. QED
      BY <2>10, <3>1, <3>2
  <2>. QED
    BY <2>11, FS_Singleton
<1>. QED
  BY <1>1, Always, PTL

----------------------------------------------------------------------------
(* Plans under way.  Until an edge may answer a plan that was replaced     *)
(* (crossed), each drone that is not lost has at most one assign_lanes     *)
(* under way, its current one: owed by a thread, or answered.  The         *)
(* operators take the parts of the state as parameters, for the book a     *)
(* step offers the lanes of is not the book of a state.                    *)

Asks(u, t, d, m) == <<d, m>> \in u[t] /\ m.order = "assign_lanes"

AckUnderWay(tg, d) == tg[d] # <<>> /\ tg[d][1].says = "ack"

\* d's plan n with what threads owe (u), what answers are under way (tg), and what
\* the edge has accepted (ep).
Flight(d, n, st, b, u, tg, ep) ==
    /\ \A t \in Threads : \A m \in Orders : Asks(u, t, d, m) =>
          /\ m = Assign(n, b.lanes[d]) /\ tg[d] = <<>>
          /\ \A s \in Threads : \A k \in Orders : Asks(u, s, d, k) => s = t
    /\ tg[d] # <<>> => Len(tg[d]) = 1 /\ tg[d][1].total = Len(b.lanes[d])
    /\ AckUnderWay(tg, d) => ep[d] = Assign(n, b.lanes[d])
    /\ d \in b.acked => /\ \A t \in Threads : \A m \in Orders : ~Asks(u, t, d, m)
                        /\ tg[d] = <<>> /\ ep[d] = Assign(n, b.lanes[d])
    /\ b.offer[d] # None => /\ b.offer[d].acked
                            /\ ~AckUnderWay(tg, d) => ep[d] = Assign(n, Base(b, d))
    /\ st => d \in b.acked \/ b.offer[d] # None

\* What has been accepted of a chunk stays with the drone that accepted it.
Covered(c, n, b, u, ep) ==
    c.status = "acked" =>
        /\ ep[c.receiver].plan = n /\ Range(c.lanes) \subseteq Range(ep[c.receiver].lanes)
        /\ \A t \in Threads : \A m \in Orders : Asks(u, t, c.receiver, m) =>
              m.plan = n /\ Range(c.lanes) \subseteq Range(m.lanes)
        /\ c.receiver \notin b.lost => Range(c.lanes) \subseteq Range(Base(b, c.receiver))

Flights(n, st, b, u, tg, ep) ==
    /\ \A d \in Drones \ b.lost : Flight(d, n, st, b, u, tg, ep)
    /\ \A i \in DOMAIN b.chunks : Covered(b.chunks[i], n, b, u, ep)

\* Nothing about d changes, but that less may be owed to it.
LEMMA FlightKept ==
    ASSUME NEW d, NEW n, NEW st, NEW b, NEW u, NEW tg, NEW ep, NEW b2, NEW u2, NEW tg2, NEW ep2,
           Flight(d, n, st, b, u, tg, ep),
           b2.lanes[d] = b.lanes[d], b2.offer[d] = b.offer[d], d \in b2.acked <=> d \in b.acked,
           \A t \in Threads : \A m \in Orders : Asks(u2, t, d, m) => Asks(u, t, d, m),
           tg2[d] = tg[d], ep2[d] = ep[d]
    PROVE  Flight(d, n, st, b2, u2, tg2, ep2)
<1>1. Base(b2, d) = Base(b, d) /\ (AckUnderWay(tg2, d) <=> AckUnderWay(tg, d))
  BY DEF Base, AckUnderWay
<1>. QED
  BY <1>1 DEF Flight

\* A chunk stays accepted while its receiver has its lanes.
LEMMA CoveredKept ==
    ASSUME NEW c, NEW c2, NEW n, NEW b, NEW u, NEW ep, NEW b2, NEW u2,
           Covered(c, n, b, u, ep),
           c2.lanes = c.lanes,
           c2.status = "acked" => c.status = "acked" /\ c2.receiver = c.receiver,
           b.lost \subseteq b2.lost,
           c.receiver \notin b2.lost => Range(Base(b, c.receiver)) \subseteq Range(Base(b2, c.receiver)),
           \A t \in Threads : \A m \in Orders : Asks(u2, t, c.receiver, m) =>
              Asks(u, t, c.receiver, m) \/ (m.plan = n /\ Range(c.lanes) \subseteq Range(m.lanes))
    PROVE  Covered(c2, n, b2, u2, ep)
BY DEF Covered

\* A round of offers.  Whoever is given one has acked what it flies, for only then
\* did the mission start; so its new plan is the only one under way to it.
LEMMA FlightsDispatch ==
    ASSUME NEW n \in 0..MaxPlans, NEW st, NEW b, NEW u \in [Threads -> SUBSET (Drones \X Orders)], NEW tg, NEW ep,
           Kept(b), LaneInv(b), Flights(n, st, b, u, tg, ep), b.chunks # <<>> => st,
           NEW to \in [Queued(b) -> Drones \cup {"queued", "failed"}],
           \A i \in Queued(b) : to[i] \in Outcomes(b, i),
           NEW t \in Threads, NEW holds \in SUBSET u[t],
           NEW u2, u2 = [u EXCEPT ![t] = holds \cup
              {<<d, Assign(n, Dispatched(b, to).lanes[d])>> : d \in {r \in Drones : Given(b, to, r)}}]
    PROVE  Flights(n, st, Dispatched(b, to), u2, tg, ep)
<1> DEFINE b2 == Dispatched(b, to)
<1>1. b \in Books /\ DOMAIN to = Queued(b) /\ Queued(b) \subseteq DOMAIN b.chunks
  BY DEF Kept, Queued
<1>2. /\ b2 \in Books /\ b2.lost = b.lost
      /\ \A d : d \in b2.acked <=> d \in b.acked /\ ~Given(b, to, d)
      /\ \A d \in Drones :
            /\ b2.lanes[d] = b.lanes[d] \o Appended(b, to, d)
            /\ b2.offer[d] = IF Given(b, to, d) THEN [base |-> b.lanes[d], acked |-> d \in b.acked]
                             ELSE b.offer[d]
      /\ SameChunks(b, b2)
      /\ \A i \in DOMAIN b.chunks :
            /\ i \in Queued(b) /\ to[i] \in Drones =>
                  b2.chunks[i].status = "offered" /\ b2.chunks[i].receiver = to[i]
            /\ i \in Queued(b) /\ to[i] \notin Drones =>
                  b2.chunks[i].status = to[i] /\ b2.chunks[i].receiver = b.chunks[i].receiver
            /\ i \notin Queued(b) => SameFate(b, b2, i)
  BY <1>1, DispatchedFields
<1>3. \A d \in Drones : Given(b, to, d) => b.offer[d] = None /\ d \notin b.lost
  BY DispatchKeeps
<1>4. \A d \in Drones : b.lanes[d] \in Seq(Lanes) /\ b2.lanes[d] \in Seq(Lanes)
  BY <1>1, <1>2, BookParts
<1>5. u2 = [u EXCEPT ![t] = holds \cup {<<d, Assign(n, b2.lanes[d])>> : d \in {r \in Drones : Given(b, to, r)}}]
  OBVIOUS
<1> HIDE DEF b2
<1>6. ASSUME NEW d \in Drones, NEW s \in Threads, NEW m \in Orders, Asks(u2, s, d, m)
      PROVE  Asks(u, s, d, m) \/ (s = t /\ Given(b, to, d) /\ m = Assign(n, b2.lanes[d]))
  <2>1. <<d, m>> \in u2[s] /\ m.order = "assign_lanes"
    BY <1>6 DEF Asks
  <2>2. CASE s = t
    <3>1. <<d, m>> \in holds \/ \E e \in Drones : Given(b, to, e) /\ <<d, m>> = <<e, Assign(n, b2.lanes[e])>>
      BY <1>5, <2>1, <2>2
    <3>2. holds \subseteq u[t]
      OBVIOUS
    <3>. QED
      BY <2>1, <2>2, <3>1, <3>2 DEF Asks
  <2>3. CASE s # t
    BY <1>5, <2>1, <2>3 DEF Asks
  <2>. QED
    BY <2>2, <2>3
<1>7. ASSUME NEW d \in Drones, Given(b, to, d)
      PROVE  /\ d \in b.acked /\ b2.offer[d] # None /\ b2.offer[d].acked = TRUE
             /\ Base(b2, d) = b.lanes[d] /\ Base(b, d) = b.lanes[d]
  <2>1. b.chunks # <<>>
    <3>1. PICK i \in Queued(b) : to[i] = d
      BY <1>1, <1>7 DEF Given
    <3>. QED
      BY <1>1, <3>1
  <2>2. d \in b.acked
    <3>1. Flight(d, n, st, b, u, tg, ep) /\ b.offer[d] = None /\ st
      BY <1>3, <1>7, <2>1 DEF Flights
    <3>. QED
      BY <3>1 DEF Flight
  <2>3. b2.offer[d] = [base |-> b.lanes[d], acked |-> TRUE]
    BY <1>2, <1>7, <2>2
  <2>4. b2.offer[d] \in Offers
    BY <1>4, <2>3 DEF Offers
  <2>. QED
    <3>1. b.offer[d] = None
      BY <1>3, <1>7
    <3>2. b2.offer[d] # None /\ b2.offer[d].acked = TRUE /\ b2.offer[d].base = b.lanes[d]
      <4>1. b2.offer[d].acked = TRUE /\ b2.offer[d].base = b.lanes[d]
        BY <2>3
      <4>2. b2.offer[d] # None
        BY <2>4, NoneAssumption
      <4>. QED
        BY <4>1, <4>2
    <3>. QED
      BY <2>2, <3>1, <3>2 DEF Base
<1>8. ASSUME NEW d \in Drones, ~Given(b, to, d)
      PROVE  b2.lanes[d] = b.lanes[d] /\ b2.offer[d] = b.offer[d] /\ (d \in b2.acked <=> d \in b.acked)
  <2>1. Appended(b, to, d) = <<>>
    BY <1>1, <1>8, AppendedLanes
  <2>2. b2.lanes[d] = b.lanes[d]
    <3>1. b2.lanes[d] = b.lanes[d] \o <<>> /\ b.lanes[d] \in Seq(Lanes)
      BY <1>2, <1>4, <2>1
    <3>. QED
      BY <3>1, ConcatEmptySeq
  <2>. QED
    BY <1>2, <1>8, <2>2
<1>9. ASSUME NEW d \in Drones \ b2.lost PROVE Flight(d, n, st, b2, u2, tg, ep)
  <2>1. Flight(d, n, st, b, u, tg, ep)
    BY <1>2, <1>9 DEF Flights
  <2>2. CASE ~Given(b, to, d)
    <3>1. b2.lanes[d] = b.lanes[d] /\ b2.offer[d] = b.offer[d] /\ (d \in b2.acked <=> d \in b.acked)
      BY <1>8, <2>2
    <3>2. \A s \in Threads : \A m \in Orders : Asks(u2, s, d, m) => Asks(u, s, d, m)
      BY <1>6, <2>2
    <3>. QED
      BY ONLY <2>1, <3>1, <3>2, FlightKept
  <2>3. CASE Given(b, to, d)
    <3>1. /\ \A s \in Threads : \A m \in Orders : ~Asks(u, s, d, m)
          /\ tg[d] = <<>> /\ ep[d] = Assign(n, b.lanes[d])
      BY <1>7, <2>1, <2>3 DEF Flight
    <3>2. \A s \in Threads : \A m \in Orders : Asks(u2, s, d, m) => s = t /\ m = Assign(n, b2.lanes[d])
      BY <1>6, <3>1
    <3>3. ~AckUnderWay(tg, d) /\ d \notin b2.acked /\ b2.offer[d] # None /\ b2.offer[d].acked
          /\ Base(b2, d) = b.lanes[d]
      BY <1>2, <1>7, <2>3, <3>1 DEF AckUnderWay
    <3>. QED
      BY <3>1, <3>2, <3>3 DEF Flight
  <2>. QED
    BY <2>2, <2>3
<1>10. \A d \in Drones : Base(b2, d) = Base(b, d)
  BY <1>7, <1>8 DEF Base
<1>11. ASSUME NEW i \in DOMAIN b2.chunks PROVE Covered(b2.chunks[i], n, b2, u2, ep)
  <2>1. i \in DOMAIN b.chunks /\ b2.chunks[i].lanes = b.chunks[i].lanes /\ Covered(b.chunks[i], n, b, u, ep)
    BY <1>2 DEF SameChunks, Flights
  <2>2. b2.chunks[i].status = "acked" =>
           b.chunks[i].status = "acked" /\ b2.chunks[i].receiver = b.chunks[i].receiver
    <3>1. i \in Queued(b) => to[i] \in Drones \/ to[i] \in {"queued", "failed"}
      OBVIOUS
    <3>2. i \in Queued(b) => b2.chunks[i].status # "acked"
      BY <1>2, <2>1, <3>1
    <3>. QED
      BY <1>2, <2>1, <3>2 DEF SameFate
  <2>3. CASE b2.chunks[i].status # "acked"
    BY <2>3 DEF Covered
  <2>4. CASE b2.chunks[i].status = "acked"
    <3> DEFINE r == b.chunks[i].receiver
               c == b.chunks[i]
    <3>1. c.status = "acked" /\ r \in Drones
      BY <2>1, <2>2, <2>4 DEF Kept
    <3>2. ASSUME NEW s \in Threads, NEW m \in Orders, Asks(u2, s, r, m)
          PROVE  Asks(u, s, r, m) \/ (m.plan = n /\ Range(c.lanes) \subseteq Range(m.lanes))
      <4>1. CASE Given(b, to, r) /\ m = Assign(n, b2.lanes[r])
        <5>1. Range(c.lanes) \subseteq Range(Base(b, r))
          BY <1>3, <2>1, <3>1, <4>1 DEF Covered
        <5>2. Base(b, r) = b.lanes[r]
          BY <1>7, <3>1, <4>1
        <5>3. Range(b.lanes[r]) \subseteq Range(b2.lanes[r])
          <6>1. Appended(b, to, r) \in Seq(Lanes)
            BY <1>1, <3>1, AppendedLanes
          <6>2. b2.lanes[r] = b.lanes[r] \o Appended(b, to, r) /\ b.lanes[r] \in Seq(Lanes)
            BY <1>2, <1>4, <3>1
          <6>3. \A l : l \in Range(b.lanes[r] \o Appended(b, to, r)) <=> l \in Range(b.lanes[r]) \/ l \in Range(Appended(b, to, r))
            BY <6>1, <6>2, Joined
          <6>. QED
            BY <6>2, <6>3
        <5>4. m.plan = n /\ m.lanes = b2.lanes[r]
          BY <4>1 DEF Assign
        <5>. QED
          BY <5>1, <5>2, <5>3, <5>4
      <4>. QED
        BY <1>6, <3>1, <3>2, <4>1
    <3>3. Base(b2, r) = Base(b, r)
      BY <1>10, <3>1
    <3>. QED
      BY ONLY <1>2, <2>1, <2>2, <3>2, <3>3, CoveredKept
  <2>. QED
    BY <2>3, <2>4
<1>12. Flights(n, st, b2, u2, tg, ep)
  BY <1>9, <1>11 DEF Flights
<1>. QED
  BY <1>12 DEF b2

\* An offer taken back: from a drone that is lost, or from one that flies what it
\* had before the offer, and is told nothing else.
LEMMA FlightsWithdraw ==
    ASSUME NEW n, NEW st, NEW b \in Books, NEW u, NEW tg, NEW ep, Flights(n, st, b, u, tg, ep),
           \A i \in DOMAIN b.chunks : b.chunks[i].status \in {"offered", "acked"} => b.chunks[i].receiver \in Drones,
           NEW d \in Drones, b.offer[d] # None, NEW how, NEW u2, NEW tg2,
           \A e \in Drones : \A t \in Threads : \A m \in Orders : Asks(u2, t, e, m) => Asks(u, t, e, m),
           \A e \in Drones \ {d} : tg2[e] = tg[e],
           \/ d \in b.lost
           \/ /\ \A t \in Threads : \A m \in Orders : ~Asks(u2, t, d, m)
              /\ tg2[d] = <<>> /\ ep[d] = Assign(n, Base(b, d)) /\ b.offer[d].acked
    PROVE  Flights(n, st, Withdrawn(b, d, how), u2, tg2, ep)
<1> DEFINE w == Withdrawn(b, d, how)
<1>1. /\ w \in Books /\ w.lost = b.lost
      /\ \A e : e \in w.acked <=> IF e = d THEN b.offer[d].acked ELSE e \in b.acked
      /\ w.lanes[d] = b.offer[d].base /\ w.offer[d] = None
      /\ \A e \in Drones \ {d} : w.lanes[e] = b.lanes[e] /\ w.offer[e] = b.offer[e]
      /\ SameChunks(b, w)
      /\ \A i \in DOMAIN b.chunks :
            /\ OfferedTo(b.chunks[i], d) => w.chunks[i].status = "queued"
            /\ ~OfferedTo(b.chunks[i], d) => SameFate(b, w, i)
  BY WithdrawnFields
<1> HIDE DEF w
<1>2. \A e \in Drones : Base(w, e) = Base(b, e)
  BY <1>1 DEF Base
<1>3. ASSUME NEW e \in Drones \ w.lost PROVE Flight(e, n, st, w, u2, tg2, ep)
  <2>1. Flight(e, n, st, b, u, tg, ep)
    BY <1>1, <1>3 DEF Flights
  <2>2. CASE e # d
    <3>1. w.lanes[e] = b.lanes[e] /\ w.offer[e] = b.offer[e] /\ (e \in w.acked <=> e \in b.acked) /\ tg2[e] = tg[e]
      BY <1>1, <2>2
    <3>2. \A t \in Threads : \A m \in Orders : Asks(u2, t, e, m) => Asks(u, t, e, m)
      OBVIOUS
    <3>. QED
      BY ONLY <2>1, <3>1, <3>2, FlightKept
  <2>3. CASE e = d
    <3>1. /\ \A t \in Threads : \A m \in Orders : ~Asks(u2, t, d, m)
          /\ tg2[d] = <<>> /\ ep[d] = Assign(n, Base(b, d)) /\ b.offer[d].acked
      BY <1>1, <1>3, <2>3
    <3>2. w.lanes[d] = Base(b, d) /\ d \in w.acked /\ w.offer[d] = None /\ ~AckUnderWay(tg2, d)
      BY <1>1, <3>1 DEF Base, AckUnderWay
    <3>. QED
      BY <2>3, <3>1, <3>2 DEF Flight
  <2>. QED
    BY <2>2, <2>3
<1>4. ASSUME NEW i \in DOMAIN w.chunks PROVE Covered(w.chunks[i], n, w, u2, ep)
  <2>1. i \in DOMAIN b.chunks /\ w.chunks[i].lanes = b.chunks[i].lanes /\ Covered(b.chunks[i], n, b, u, ep)
    BY <1>1 DEF SameChunks, Flights
  <2>2. w.chunks[i].status = "acked" =>
           b.chunks[i].status = "acked" /\ w.chunks[i].receiver = b.chunks[i].receiver
    BY <1>1, <2>1 DEF SameFate
  <2>3. CASE w.chunks[i].status # "acked"
    BY <2>3 DEF Covered
  <2>4. CASE w.chunks[i].status = "acked"
    <3>1. b.chunks[i].receiver \in Drones
      BY <2>1, <2>2, <2>4
    <3>2. /\ Base(w, b.chunks[i].receiver) = Base(b, b.chunks[i].receiver) /\ w.lost = b.lost
          /\ \A t \in Threads : \A m \in Orders :
                Asks(u2, t, b.chunks[i].receiver, m) => Asks(u, t, b.chunks[i].receiver, m)
      BY <1>1, <1>2, <3>1
    <3>. QED
      BY ONLY <2>1, <2>2, <3>2, CoveredKept
  <2>. QED
    BY <2>3, <2>4
<1>5. Flights(n, st, w, u2, tg2, ep)
  BY <1>3, <1>4 DEF Flights
<1>. QED
  BY <1>5 DEF w

\* A plan accepted: by a drone that is lost, or by one that flies it now and is told
\* nothing else.
LEMMA FlightsAccept ==
    ASSUME NEW n, NEW st, NEW b, NEW u, NEW tg, NEW ep, Kept(b), LaneInv(b), Flights(n, st, b, u, tg, ep),
           NEW d \in Drones, NEW tg2, \A e \in Drones \ {d} : tg2[e] = tg[e],
           \/ d \in b.lost
           \/ /\ \A t \in Threads : \A m \in Orders : ~Asks(u, t, d, m)
              /\ tg2[d] = <<>> /\ ep[d] = Assign(n, b.lanes[d])
    PROVE  Flights(n, st, Accepted(b, d), u, tg2, ep)
<1> DEFINE w == Accepted(b, d)
<1>1. b \in Books /\ Backed(b)
  BY DEF Kept, LaneInv
<1>2. /\ w \in Books /\ w.lost = b.lost /\ w.lanes = b.lanes
      /\ \A e : e \in w.acked <=> e = d \/ e \in b.acked
      /\ w.offer[d] = None /\ \A e \in Drones \ {d} : w.offer[e] = b.offer[e]
      /\ SameChunks(b, w)
      /\ \A i \in DOMAIN b.chunks :
            /\ OfferedTo(b.chunks[i], d) => w.chunks[i].status = "acked" /\ w.chunks[i].receiver = d
            /\ ~OfferedTo(b.chunks[i], d) => SameFate(b, w, i)
  BY <1>1, AcceptedFields
<1> HIDE DEF w
<1>3. ASSUME NEW e \in Drones PROVE Range(Base(b, e)) \subseteq Range(Base(w, e))
  <2>1. CASE e # d
    BY <1>2, <2>1 DEF Base
  <2>2. CASE e = d
    <3>1. Base(w, e) = b.lanes[e]
      BY <1>2, <2>2 DEF Base
    <3>2. Range(Base(b, e)) \subseteq Range(b.lanes[e])
      BY <1>1 DEF Backed, Base
    <3>. QED
      BY <3>1, <3>2
  <2>. QED
    BY <2>1, <2>2
<1>4. ASSUME NEW e \in Drones \ w.lost PROVE Flight(e, n, st, w, u, tg2, ep)
  <2>1. Flight(e, n, st, b, u, tg, ep)
    BY <1>2, <1>4 DEF Flights
  <2>2. CASE e # d
    <3>1. w.lanes[e] = b.lanes[e] /\ w.offer[e] = b.offer[e] /\ (e \in w.acked <=> e \in b.acked) /\ tg2[e] = tg[e]
      BY <1>2, <2>2
    <3>. QED
      BY ONLY <2>1, <3>1, FlightKept
  <2>3. CASE e = d
    <3>1. /\ \A t \in Threads : \A m \in Orders : ~Asks(u, t, d, m)
          /\ tg2[d] = <<>> /\ ep[d] = Assign(n, b.lanes[d])
      BY <1>2, <1>4, <2>3
    <3>2. w.lanes[d] = b.lanes[d] /\ d \in w.acked /\ w.offer[d] = None /\ ~AckUnderWay(tg2, d)
      BY <1>2, <3>1 DEF AckUnderWay
    <3>. QED
      BY <2>3, <3>1, <3>2 DEF Flight
  <2>. QED
    BY <2>2, <2>3
<1>5. ASSUME NEW i \in DOMAIN w.chunks PROVE Covered(w.chunks[i], n, w, u, ep)
  <2>1. i \in DOMAIN b.chunks /\ w.chunks[i].lanes = b.chunks[i].lanes /\ Covered(b.chunks[i], n, b, u, ep)
    BY <1>2 DEF SameChunks, Flights
  <2>2. CASE OfferedTo(b.chunks[i], d)
    <3>1. b.offer[d] # None /\ d \notin b.lost
      BY <2>1, <2>2 DEF Kept
    <3>2. /\ \A t \in Threads : \A m \in Orders : ~Asks(u, t, d, m)
          /\ ep[d] = Assign(n, b.lanes[d])
      BY <3>1
    <3>3. Range(b.chunks[i].lanes) \subseteq Range(b.lanes[d])
      BY <1>1, <2>1, <2>2, <3>1 DEF Backed
    <3>4. ep[d].plan = n /\ ep[d].lanes = b.lanes[d] /\ Base(w, d) = b.lanes[d]
      BY <1>2, <3>2 DEF Assign, Base
    <3>5. w.chunks[i].receiver = d
      BY <1>2, <2>1, <2>2
    <3>. QED
      BY <2>1, <3>2, <3>3, <3>4, <3>5 DEF Covered
  <2>3. CASE ~OfferedTo(b.chunks[i], d)
    <3>1. SameFate(b, w, i)
      BY <1>2, <2>1, <2>3
    <3>2. w.chunks[i].status = "acked" =>
             b.chunks[i].status = "acked" /\ w.chunks[i].receiver = b.chunks[i].receiver
      BY <3>1 DEF SameFate
    <3>3. CASE w.chunks[i].status # "acked"
      BY <3>3 DEF Covered
    <3>4. CASE w.chunks[i].status = "acked"
      <4>1. b.chunks[i].receiver \in Drones
        BY <2>1, <3>2, <3>4 DEF Kept
      <4>2. Range(Base(b, b.chunks[i].receiver)) \subseteq Range(Base(w, b.chunks[i].receiver)) /\ w.lost = b.lost
        BY <1>2, <1>3, <4>1
      <4>. QED
        BY ONLY <2>1, <3>2, <4>2, CoveredKept
    <3>. QED
      BY <3>3, <3>4
  <2>. QED
    BY <2>2, <2>3
<1>6. Flights(n, st, w, u, tg2, ep)
  BY <1>4, <1>5 DEF Flights
<1>. QED
  BY <1>6 DEF w

\* What changes nothing but the path of a lost drone, adds chunks that wait, or
\* reports one, changes nothing here; nor does a thread that owes less.
LEMMA FlightsSame ==
    ASSUME NEW n, NEW st, NEW b, NEW u, NEW tg, NEW ep, Flights(n, st, b, u, tg, ep),
           \A i \in DOMAIN b.chunks : b.chunks[i].status \in {"offered", "acked"} => b.chunks[i].receiver \in Drones,
           NEW w, NEW u2, NEW tg2, b.lost \subseteq w.lost,
           \A e \in Drones : \A t \in Threads : \A m \in Orders : Asks(u2, t, e, m) => Asks(u, t, e, m),
           \A e \in Drones \ w.lost :
              w.lanes[e] = b.lanes[e] /\ w.offer[e] = b.offer[e] /\ (e \in w.acked <=> e \in b.acked)
              /\ tg2[e] = tg[e],
           \A i \in DOMAIN w.chunks : w.chunks[i].status # "acked" \/
              (i \in DOMAIN b.chunks /\ w.chunks[i].lanes = b.chunks[i].lanes /\ SameFate(b, w, i))
    PROVE  Flights(n, st, w, u2, tg2, ep)
<1>1. ASSUME NEW e \in Drones \ w.lost PROVE Flight(e, n, st, w, u2, tg2, ep)
  <2>1. Flight(e, n, st, b, u, tg, ep)
    BY <1>1 DEF Flights
  <2>2. w.lanes[e] = b.lanes[e] /\ w.offer[e] = b.offer[e] /\ (e \in w.acked <=> e \in b.acked) /\ tg2[e] = tg[e]
    OBVIOUS
  <2>3. \A t \in Threads : \A m \in Orders : Asks(u2, t, e, m) => Asks(u, t, e, m)
    OBVIOUS
  <2>. QED
    BY ONLY <2>1, <2>2, <2>3, FlightKept
<1>2. ASSUME NEW i \in DOMAIN w.chunks PROVE Covered(w.chunks[i], n, w, u2, ep)
  <2>1. CASE w.chunks[i].status # "acked"
    BY <2>1 DEF Covered
  <2>2. CASE w.chunks[i].status = "acked"
    <3> DEFINE c == b.chunks[i]
    <3>1. /\ i \in DOMAIN b.chunks /\ w.chunks[i].lanes = c.lanes
          /\ c.status = "acked" /\ w.chunks[i].receiver = c.receiver
      BY <2>2 DEF SameFate
    <3>2. Covered(c, n, b, u, ep) /\ c.receiver \in Drones
      BY <3>1 DEF Flights
    <3>3. c.receiver \notin w.lost => Base(w, c.receiver) = Base(b, c.receiver)
      BY <3>2 DEF Base
    <3>4. b.lost \subseteq w.lost /\ \A t \in Threads : \A m \in Orders : Asks(u2, t, c.receiver, m) => Asks(u, t, c.receiver, m)
      BY <3>2
    <3> HIDE DEF c
    <3>. QED
      BY ONLY <3>1, <3>2, <3>3, <3>4, CoveredKept
  <2>. QED
    BY <2>1, <2>2
<1>. QED
  BY <1>1, <1>2 DEF Flights

\* start_at messages are owed by the mission thread while it starts, and lanes are
\* re-tasked only in a mission that was started.
StartInv ==
    /\ \A t \in Threads : \A d \in Drones : \A m \in Orders :
          <<d, m>> \in unsent[t] /\ m.order = "start_at" => t = "mission" /\ mission.op = "starting"
    /\ watched \/ book.chunks # <<>> \/ mission.op \in {"starting", "losing", "parting", "waiting"} => started

\* Until an answer crosses a replaced assignment, each drone not lost has one under
\* way, and what was covered stays with its receiver.
FlightInv == ~crossed => Flights(plan, started, book, unsent, toGround, edgePlan)

\* What a round of offers adds to what is owed: no start_at, and nothing when there
\* is no chunk.
LEMMA DispatchOrders ==
    ASSUME RestTyped, NEW b, Kept(b), NEW t \in Threads, NEW holds \in SUBSET unsent[t], Dispatch(b, t, holds)
    PROVE  /\ \A s \in Threads : \A d \in Drones : \A m \in Orders :
                <<d, m>> \in unsent'[s] /\ m.order = "start_at" => <<d, m>> \in unsent[s]
           /\ DOMAIN book'.chunks = DOMAIN b.chunks
<1> DEFINE Offered(n, to) == {<<d, Assign(plan, n.lanes[d])>> : d \in {r \in Drones : Given(b, to, r)}}
<1>1. PICK to \in [Queued(b) -> Drones \cup {"queued", "failed"}] :
         book' = Dispatched(b, to) /\ unsent' = [unsent EXCEPT ![t] = holds \cup Offered(Dispatched(b, to), to)]
  BY DEF Dispatch
<1>2. b \in Books /\ unsent \in [Threads -> SUBSET (Drones \X Orders)]
  BY DEF Kept, RestTyped
<1>3. DOMAIN book'.chunks = DOMAIN b.chunks
  BY <1>1, <1>2, DispatchedFields DEF SameChunks
<1>4. \A n, d, m : <<d, m>> \in Offered(n, to) => m.order # "start_at"
  BY DEF Assign
<1> HIDE DEF Offered
<1>5. ASSUME NEW s \in Threads, NEW d \in Drones, NEW m \in Orders, <<d, m>> \in unsent'[s], m.order = "start_at"
      PROVE  <<d, m>> \in unsent[s]
  <2>1. CASE s = t
    <3>1. <<d, m>> \in holds \cup Offered(Dispatched(b, to), to)
      BY <1>1, <1>2, <1>5, <2>1
    <3>2. <<d, m>> \in holds
      BY <1>4, <1>5, <3>1
    <3>. QED
      BY <2>1, <3>2
  <2>2. CASE s # t
    BY <1>1, <1>2, <1>5, <2>2
  <2>. QED
    BY <2>1, <2>2
<1>. QED
  BY <1>3, <1>5

\* A round of offers, as a step; u is what is owed but for what t has just done with.
LEMMA DispatchFlights ==
    ASSUME RestTyped, NEW b, Kept(b), LaneInv(b), b.chunks # <<>> => started,
           NEW t \in Threads, NEW u \in [Threads -> SUBSET (Drones \X Orders)],
           \A s \in Threads \ {t} : u[s] = unsent[s],
           NEW holds \in SUBSET u[t], Dispatch(b, t, holds),
           NEW tg, NEW ep, Flights(plan, started, b, u, tg, ep)
    PROVE  Flights(plan, started, book', unsent', tg, ep)
<1> DEFINE Offered(n, to) == {<<d, Assign(plan, n.lanes[d])>> : d \in {r \in Drones : Given(b, to, r)}}
<1>1. PICK to \in [Queued(b) -> Drones \cup {"queued", "failed"}] :
         /\ \A i \in Queued(b) : to[i] \in Outcomes(b, i)
         /\ book' = Dispatched(b, to) /\ unsent' = [unsent EXCEPT ![t] = holds \cup Offered(Dispatched(b, to), to)]
  BY DEF Dispatch
<1> DEFINE v == [u EXCEPT ![t] = holds \cup Offered(Dispatched(b, to), to)]
<1>2. v = [u EXCEPT ![t] = holds \cup Offered(Dispatched(b, to), to)]
  OBVIOUS
<1>3. Flights(plan, started, Dispatched(b, to), v, tg, ep)
  <2>1. plan \in 0..MaxPlans
    BY DEF RestTyped
  <2>2. v = [u EXCEPT ![t] = holds \cup
              {<<d, Assign(plan, Dispatched(b, to).lanes[d])>> : d \in {r \in Drones : Given(b, to, r)}}]
    OBVIOUS
  <2> HIDE DEF v
  <2>. QED
    BY <1>1, <2>1, <2>2, FlightsDispatch
<1>4. v = unsent'
  <2>1. unsent \in [Threads -> SUBSET (Drones \X Orders)]
    BY DEF RestTyped
  <2> HIDE DEF Offered
  <2>. QED
    BY <1>1, <1>2, <2>1
<1> HIDE DEF v
<1>. QED
  BY <1>1, <1>3, <1>4

\* What a round of offers keeps of StartInv.
LEMMA DispatchStart ==
    ASSUME RestTyped, StartInv, UNCHANGED <<started, watched>>,
           mission' = mission \/ (started /\ mission.op # "starting"),
           NEW b, Kept(b), b.chunks # <<>> => started,
           NEW t \in Threads, NEW holds \in SUBSET unsent[t], Dispatch(b, t, holds)
    PROVE  StartInv'
<1>1. /\ \A s \in Threads : \A d \in Drones : \A m \in Orders :
            <<d, m>> \in unsent'[s] /\ m.order = "start_at" => <<d, m>> \in unsent[s]
      /\ DOMAIN book'.chunks = DOMAIN b.chunks
  BY DispatchOrders
<1>2. book'.chunks # <<>> => started
  <2>1. b \in Books
    BY DEF Kept
  <2>2. b.chunks \in Seq(Chunks)
    BY <2>1, BookParts
  <2>3. b.chunks = <<>> => DOMAIN book'.chunks = {}
    BY <1>1
  <2>4. book'.chunks # <<>> /\ DOMAIN book'.chunks = {} => started
    <3>1. PICK to \in [Queued(b) -> Drones \cup {"queued", "failed"}] : book' = Dispatched(b, to)
      BY DEF Dispatch
    <3>2. book' \in Books
      BY <2>1, <3>1, DispatchedFields
    <3>3. book'.chunks \in Seq(Chunks) /\ DOMAIN book'.chunks = 1..Len(book'.chunks) /\ Len(book'.chunks) \in Nat
      BY <3>2, BookParts
    <3>4. DOMAIN book'.chunks = {} => Len(book'.chunks) = 0
      <4>1. Len(book'.chunks) # 0 => 1 \in 1..Len(book'.chunks)
        BY <3>3
      <4>. QED
        BY <3>3, <4>1
    <3>. QED
      BY <3>3, <3>4, EmptySeq
  <2>. QED
    BY <2>3, <2>4
<1>. QED
  BY <1>1, <1>2 DEF StartInv

\* A book whose chunks are as many as the old book's.
LEMMA SameLength ==
    ASSUME NEW b, NEW w, Kept(b), Kept(w), DOMAIN w.chunks = DOMAIN b.chunks
    PROVE  b.chunks = <<>> <=> w.chunks = <<>>
<1>1. /\ b.chunks \in Seq(Chunks) /\ DOMAIN b.chunks = 1..Len(b.chunks) /\ Len(b.chunks) \in Nat
      /\ w.chunks \in Seq(Chunks) /\ DOMAIN w.chunks = 1..Len(w.chunks) /\ Len(w.chunks) \in Nat
  BY BookParts DEF Kept
<1>2. Len(b.chunks) = 0 <=> Len(w.chunks) = 0
  <2>1. 1..Len(b.chunks) = 1..Len(w.chunks)
    BY <1>1
  <2>2. Len(b.chunks) # 0 <=> 1 \in 1..Len(b.chunks)
    BY <1>1
  <2>3. Len(w.chunks) # 0 <=> 1 \in 1..Len(w.chunks)
    BY <1>1
  <2>. QED
    BY <2>1, <2>2, <2>3
<1>. QED
  BY <1>1, <1>2, EmptySeq

\* Every step keeps the start_at messages where they belong.
LEMMA StartStep ==
    ASSUME BookInv, RestTyped, StartInv, [Next]_vars
    PROVE  StartInv'
<1>1. Kept(book) /\ LaneInv(book) /\ (book.chunks # <<>> => started) /\ "mission" \in Threads /\ \A d \in Drones : d \in Threads
  BY DEF BookInv, StartInv, Threads
<1>2. unsent \in [Threads -> SUBSET (Drones \X Orders)]
  BY DEF RestTyped
<1>3. ASSUME UNCHANGED <<book, started>>, \A t \in Threads : unsent'[t] \subseteq unsent[t],
             watched' => started,
             mission' = mission \/ unsent["mission"] = {} \/ unsent'["mission"] = {},
             mission'.op \in {"starting", "losing", "parting", "waiting"} => started
      PROVE  StartInv'
  BY <1>3 DEF StartInv
<1>4. CASE Plan
  <2>1. /\ book'.chunks = <<>> /\ watched' = FALSE /\ mission'.op = "planning"
        /\ unsent' = [unsent EXCEPT !["mission"] = {<<d, Assign(plan + 1, Zone(d))>> : d \in Drones}]
    BY <1>4 DEF Plan, NoBook, Idle
  <2>2. \A d, m : <<d, m>> \in unsent'["mission"] => m.order # "start_at"
    BY <1>1, <1>2, <2>1 DEF Assign
  <2>3. \A t \in Threads \ {"mission"} : unsent'[t] = unsent[t]
    BY <1>2, <2>1
  <2>. QED
    BY <2>1, <2>2, <2>3 DEF StartInv
<1>5. CASE Start
  <2>1. /\ started' = TRUE /\ mission'.op = "starting" /\ UNCHANGED book
        /\ \A t \in Threads \ {"mission"} : unsent'[t] = unsent[t]
    BY <1>2, <1>5 DEF Start, Idle
  <2>. QED
    BY <2>1 DEF StartInv
<1>6. ASSUME NEW d \in Drones, SendStart(d) PROVE StartInv'
  <2>1. /\ UNCHANGED <<book, started, watched>> /\ mission.op = "starting"
        /\ mission' = mission \/ (mission'.op = "aborting" /\ unsent'["mission"] = {})
        /\ \A t \in Threads : unsent'[t] \subseteq unsent[t]
    BY <1>1, <1>2, <1>6 DEF SendStart, Abort, Idle
  <2>2. started
    BY <2>1 DEF StartInv
  <2>. QED
    BY <1>3, <2>1, <2>2
<1>7. CASE StartDone
  <2>1. /\ UNCHANGED <<book, started>> /\ mission.op = "starting" /\ unsent["mission"] = {}
        /\ mission'.op \in {"idle", "aborting"}
        /\ \A t \in Threads : unsent'[t] \subseteq unsent[t]
    BY <1>1, <1>2, <1>7 DEF StartDone, StartOk, Abort, Idle, Owes
  <2>2. started
    BY <2>1 DEF StartInv
  <2>. QED
    BY <1>3, <2>1, <2>2
<1>8. CASE PlanDone \/ AbortSent \/ LandAll \/ LandAllSent \/ UNCHANGED vars
  <2>1. UNCHANGED <<book, started, watched, unsent>>
        /\ (mission' = mission \/ (mission'.op = "idle" /\ mission.op # "starting"))
    BY <1>8 DEF PlanDone, AbortSent, LandAll, LandAllSent, vars, Idle
  <2>. QED
    BY <2>1 DEF StartInv
<1>9. ASSUME NEW d \in Drones, CheckLosses(d) \/ LandLost(d) PROVE StartInv'
  <2>1. UNCHANGED <<book, started, watched, unsent>> /\ mission'.op \in {"losing", "waiting"}
        /\ (watched \/ mission.op = "parting") /\ mission.op # "starting"
    BY <1>9 DEF CheckLosses, LandLost, Idle
  <2>. QED
    BY <2>1 DEF StartInv
<1>10. ASSUME NEW d \in Drones, Summarise(d) PROVE StartInv'
  <2> DEFINE closed == IF OfChunks(book, d) = {} THEN book.closed ELSE book.closed \cup {d}
  <2>1. /\ mission.op = "waiting" /\ mission' = Idle /\ UNCHANGED <<started, watched, unsent>>
    BY <1>10 DEF Summarise
  <2>2. started
    BY <2>1 DEF StartInv
  <2>. QED
    BY <2>1, <2>2 DEF StartInv, Idle
<1>11. ASSUME NEW d \in Drones, Lose(d) PROVE StartInv'
  <2>1. mission.op = "losing" /\ mission' = [op |-> "parting", drone |-> d] /\ UNCHANGED <<started, watched>>
    BY <1>11 DEF Lose
  <2>2. started
    BY <2>1 DEF StartInv
  <2> DEFINE b == Withdrawn(LostBook(book, d), d, "lost")
  <2>3. Kept(b) /\ LaneInv(b) /\ b.offer[d] = None
    BY <1>1, LossKeeps, WithdrawKeeps
  <2>4. \E index \in 0..Len(b.lanes[d]) :
        \E pieces \in Cuts(SubSeq(b.lanes[d], index + 1, Len(b.lanes[d]))) :
          Dispatch(Parted(b, d, index, pieces), "mission", {})
    BY <1>11 DEF Lose, LostBook, Parted
  <2> HIDE DEF b
  <2>5. \E n : Kept(n) /\ Dispatch(n, "mission", {})
    BY <2>3, <2>4, LoseKeeps
  <2>. QED
    BY <1>1, <2>1, <2>2, <2>5, DispatchStart
<1>12. ASSUME NEW d \in Drones, OnAck(d) \/ OnNack(d) \/ Telemetry(d) PROVE StartInv'
  <2>1. UNCHANGED <<started, watched, mission>>
    BY <1>12 DEF OnAck, OnNack, Telemetry
  <2>2. \/ UNCHANGED <<book, unsent>>
        \/ \E b : Kept(b) /\ DOMAIN b.chunks = DOMAIN book.chunks /\ (Dispatch(b, d, {}) \/ (book' = b /\ UNCHANGED unsent))
    <3>1. book \in Books
      BY <1>1 DEF Kept
    <3>2. CASE OnAck(d)
      <4> DEFINE b == Accepted(book, d)
      <4>1. Kept(b) /\ DOMAIN b.chunks = DOMAIN book.chunks
        BY <1>1, <3>1, AcceptKeeps, AcceptedFields DEF SameChunks
      <4>2. UNCHANGED <<book, unsent>> \/ Dispatch(b, d, {}) \/ (book' = b /\ UNCHANGED unsent)
        BY <3>2 DEF OnAck
      <4> HIDE DEF b
      <4>. QED
        BY <4>1, <4>2
    <3>3. CASE Telemetry(d)
      <4> DEFINE b == Undeferred(book, d)
      <4>1. Kept(b) /\ DOMAIN b.chunks = DOMAIN book.chunks
        BY <1>1, ReleaseKeeps
      <4>2. Dispatch(b, d, {}) \/ (book' = b /\ UNCHANGED unsent)
        BY <3>3 DEF Telemetry, Undeferred
      <4> HIDE DEF b
      <4>. QED
        BY <4>1, <4>2
    <3>4. CASE OnNack(d)
      <4> DEFINE b == Withdrawn(book, d, Head(toGround[d]).says)
      <4>1. Kept(b) /\ (book.offer[d] # None => DOMAIN b.chunks = DOMAIN book.chunks)
        <5>1. KeptBut(book, d)
          BY <1>1 DEF Kept, KeptBut
        <5>2. Kept(b)
          BY <1>1, <5>1, WithdrawKeeps
        <5>3. book.offer[d] # None => SameChunks(book, b)
          BY <3>1, WithdrawnFields
        <5>. QED
          BY <5>2, <5>3 DEF SameChunks
      <4>2. \/ UNCHANGED <<book, unsent>>
            \/ book.offer[d] # None /\ Dispatch(b, d, {})
            \/ book' = [book EXCEPT !.acked = book.acked \ {d}, !.nacked = book.nacked \cup {d}] /\ UNCHANGED unsent
        BY <3>4 DEF OnNack
      <4> HIDE DEF b
      <4>3. CASE book' = [book EXCEPT !.acked = book.acked \ {d}, !.nacked = book.nacked \cup {d}] /\ UNCHANGED unsent
        <5>1. Kept(book')
          BY <1>1, <3>4, NackKeeps
        <5>2. DOMAIN book'.chunks = DOMAIN book.chunks
          BY <3>1, <4>3 DEF Books
        <5>. QED
          BY <4>3, <5>1, <5>2
      <4>. QED
        BY <4>1, <4>2, <4>3
    <3>. QED
      BY <1>12, <3>2, <3>3, <3>4
  <2>3. CASE UNCHANGED <<book, unsent>>
    BY <2>1, <2>3 DEF StartInv
  <2>4. ASSUME NEW b, Kept(b), DOMAIN b.chunks = DOMAIN book.chunks,
               Dispatch(b, d, {}) \/ (book' = b /\ UNCHANGED unsent)
        PROVE  StartInv'
    <3>1. b.chunks # <<>> => started
      BY <1>1, <2>4, SameLength
    <3>2. CASE Dispatch(b, d, {})
      BY <1>1, <2>1, <2>4, <3>1, <3>2, DispatchStart
    <3>3. CASE book' = b /\ UNCHANGED unsent
      BY <2>1, <3>1, <3>3 DEF StartInv
    <3>. QED
      BY <2>4, <3>2, <3>3
  <2>. QED
    BY <2>2, <2>3, <2>4
<1>13. ASSUME NEW t \in Threads, Sends(t) PROVE StartInv'
  <2>1. PICK order \in unsent[t] :
           \/ OfferLost(t, order[1], order[2])
           \/ \E says \in Says : SendAssign(t, order[1], order[2], says) \/ OfferLate(t, order[1], order[2], says)
    BY <1>13 DEF Sends
  <2> DEFINE d == order[1]
             m == order[2]
  <2>2. d \in Drones /\ m \in Orders
    BY <1>2
  <2> HIDE DEF d, m
  <2>3. OfferNotSent(t, d, m) \/ \E says \in Says : SendAssign(t, d, m, says)
    BY <2>1 DEF OfferLost, OfferLate, d, m
  <2>4. UNCHANGED <<started, watched, mission>>
    BY <2>3 DEF OfferNotSent, SendAssign
  <2>5. CASE unsent' = [unsent EXCEPT ![t] = @ \ {<<d, m>>}] /\ UNCHANGED book
    <3>1. \A s \in Threads : unsent'[s] \subseteq unsent[s]
      BY <1>2, <2>5
    <3>. QED
      BY <2>4, <2>5, <3>1 DEF StartInv
  <2>6. CASE book.offer[d] # None /\ Dispatch(Withdrawn(book, d, "refused"), t, unsent[t] \ {<<d, m>>})
    <3> DEFINE b == Withdrawn(book, d, "refused")
    <3>1. Kept(b) /\ DOMAIN b.chunks = DOMAIN book.chunks
      <4>1. KeptBut(book, d) /\ book \in Books
        BY <1>1 DEF Kept, KeptBut
      <4>2. Kept(b)
        BY <1>1, <2>2, <4>1, WithdrawKeeps
      <4>3. SameChunks(book, b)
        BY <2>2, <2>6, <4>1, WithdrawnFields
      <4>. QED
        BY <4>2, <4>3 DEF SameChunks
    <3> HIDE DEF b
    <3>2. Dispatch(b, t, unsent[t] \ {<<d, m>>})
      BY <2>6 DEF b
    <3>3. b.chunks # <<>> => started
      BY <1>1, <3>1, SameLength
    <3>. QED
      BY <2>4, <3>1, <3>2, <3>3, DispatchStart
  <2>. QED
    BY <2>3, <2>5, <2>6 DEF OfferNotSent, SendAssign
<1>14. ASSUME NEW o \in unsent["mission"], PlanNotSent(o[1], o[2]) PROVE StartInv'
  <2>1. UNCHANGED <<book, started, watched, mission>> /\ \A t \in Threads : unsent'[t] \subseteq unsent[t]
    BY <1>2, <1>14 DEF PlanNotSent
  <2>. QED
    BY <2>1 DEF StartInv
<1>. QED
  BY <1>4, <1>5, <1>6, <1>7, <1>8, <1>9, <1>10, <1>11, <1>12, <1>13, <1>14
     DEF Next, ThreadStep, MissionStep, LinkStep, Threads

\* A new plan: nothing is under way from the one before, or an answer may cross it.
LEMMA PlanFlights ==
    ASSUME BookInv', RestTyped, RestTyped', Plan, ~crossed'
    PROVE  Flights(plan', started', book', unsent', toGround', edgePlan')
<1>1. /\ book' = [NoBook EXCEPT !.lanes = [d \in Drones |-> Zone(d)]] /\ started' = FALSE
      /\ ~AnswersUnderWay /\ UNCHANGED <<toGround, edgePlan>>
      /\ unsent' = [unsent EXCEPT !["mission"] = {<<d, Assign(plan', Zone(d))>> : d \in Drones}]
  BY DEF Plan
<1>2. /\ book'.lanes = [d \in Drones |-> Zone(d)] /\ book'.acked = {} /\ book'.chunks = <<>>
      /\ \A d \in Drones : book'.offer[d] = None
  <2> DEFINE ls == [d \in Drones |-> Zone(d)]
  <2>1. book' = [NoBook EXCEPT !.lanes = ls]
    BY <1>1
  <2>2. ls \in [Drones -> Seq(Lanes)] /\ \A d \in Drones : ls[d] = Zone(d)
    BY ZonePath
  <2> HIDE DEF ls
  <2>3. /\ Kept(book') /\ book'.acked = {} /\ book'.chunks = <<>> /\ book'.lanes = ls
        /\ \A d \in Drones : book'.offer[d] = None
    <3>1. ls \in [Drones -> Seq(Lanes)]
      BY <2>2
    <3>2. \A d \in Drones : ls[d] = <<>> \/ ls[d] = Zone(d)
      BY <2>2
    <3>3. Kept(book')
      BY ONLY <2>1, <3>1, <3>2, NewBook
    <3>4. book'.acked = {}
      BY ONLY <2>1, <3>1, <3>2, NewBook
    <3>5. book'.chunks = <<>>
      BY ONLY <2>1, <3>1, <3>2, NewBook
    <3>6. book'.lanes = ls
      BY ONLY <2>1, <3>1, <3>2, NewBook
    <3>7. \A d \in Drones : book'.offer[d] = None
      BY ONLY <2>1 DEF NoBook
    <3>. QED
      BY ONLY <3>3, <3>4, <3>5, <3>6, <3>7
  <2>. QED
    BY <2>3 DEF ls
<1>3. \A d \in Drones : toGround[d] = <<>> /\ unsent[d] = {}
  BY <1>1 DEF AnswersUnderWay, Owes
<1>4. ASSUME NEW d \in Drones, NEW t \in Threads, NEW m \in Orders, Asks(unsent', t, d, m)
      PROVE  t = "mission" /\ m = Assign(plan', Zone(d))
  <2>1. unsent \in [Threads -> SUBSET (Drones \X Orders)] /\ (t = "mission" \/ t \in Drones)
    BY DEF RestTyped, Threads
  <2>2. CASE t = "mission"
    <3>1. <<d, m>> \in {<<e, Assign(plan', Zone(e))>> : e \in Drones}
      BY <1>1, <1>4, <2>1, <2>2 DEF Asks, Threads
    <3>. QED
      BY <2>2, <3>1
  <2>3. CASE t # "mission"
    BY <1>1, <1>3, <1>4, <2>1, <2>3 DEF Asks
  <2>. QED
    BY <2>2, <2>3
<1>5. ASSUME NEW d \in Drones PROVE Flight(d, plan', started', book', unsent', toGround', edgePlan')
  <2>1. /\ book'.lanes[d] = Zone(d) /\ book'.offer[d] = None /\ d \notin book'.acked
        /\ toGround'[d] = <<>> /\ ~AckUnderWay(toGround', d) /\ ~started'
    BY <1>1, <1>2, <1>3 DEF AckUnderWay
  <2>2. \A t \in Threads : \A m \in Orders : Asks(unsent', t, d, m) => t = "mission" /\ m = Assign(plan', book'.lanes[d])
    BY <1>4, <2>1
  <2>. QED
    BY ONLY <2>1, <2>2 DEF Flight
<1>6. DOMAIN book'.chunks = {}
  BY <1>2
<1>. QED
  BY <1>5, <1>6 DEF Flights

\* An edge takes an assign_lanes and answers it.
LEMMA AnswerFlights ==
    ASSUME RestTyped, Kept(book), Flights(plan, started, book, unsent, toGround, edgePlan),
           NEW t \in Threads, NEW d \in Drones, NEW m \in Orders, NEW says \in Says,
           Asks(unsent, t, d, m), SendAssign(t, d, m, says)
    PROVE  Flights(plan, started, book, unsent', toGround', edgePlan')
<1>1. /\ unsent \in [Threads -> SUBSET (Drones \X Orders)] /\ toGround \in [Drones -> Seq(Answers)]
      /\ edgePlan \in [Drones -> Orders \cup {None}]
  BY DEF RestTyped
<1>2. /\ unsent' = [unsent EXCEPT ![t] = unsent[t] \ {<<d, m>>}]
      /\ toGround' = [toGround EXCEPT ![d] = Append(toGround[d], [says |-> says, total |-> Len(m.lanes)])]
      /\ edgePlan' = IF says = "ack" THEN [edgePlan EXCEPT ![d] = m] ELSE edgePlan
  BY DEF SendAssign, Answer
<1>3. \A e \in Drones : \A s \in Threads : \A k \in Orders :
         /\ Asks(unsent', s, e, k) => Asks(unsent, s, e, k)
         /\ Asks(unsent', t, d, k) => k # m
  BY <1>1, <1>2 DEF Asks
<1>4. ASSUME NEW e \in Drones \ book.lost PROVE Flight(e, plan, started, book, unsent', toGround', edgePlan')
  <2>1. Flight(e, plan, started, book, unsent, toGround, edgePlan)
    BY DEF Flights
  <2>2. CASE e # d
    <3>1. toGround'[e] = toGround[e] /\ edgePlan'[e] = edgePlan[e]
      BY <1>1, <1>2, <2>2
    <3>2. /\ book.lanes[e] = book.lanes[e] /\ book.offer[e] = book.offer[e] /\ (e \in book.acked <=> e \in book.acked)
          /\ \A s \in Threads : \A k \in Orders : Asks(unsent', s, e, k) => Asks(unsent, s, e, k)
      BY <1>3
    <3>. QED
      BY ONLY <2>1, <3>1, <3>2, FlightKept
  <2>3. CASE e = d
    <3>1. /\ m = Assign(plan, book.lanes[d]) /\ toGround[d] = <<>>
          /\ \A s \in Threads : \A k \in Orders : Asks(unsent, s, d, k) => s = t /\ k = m
          /\ d \notin book.acked
          /\ ~AckUnderWay(toGround, d)
      BY <2>1, <2>3 DEF Flight, AckUnderWay
    <3>2. \A s \in Threads : \A k \in Orders : ~Asks(unsent', s, d, k)
      BY <1>3, <3>1
    <3>3. toGround'[d] = <<[says |-> says, total |-> Len(m.lanes)]>>
      BY <1>1, <1>2, <3>1
    <3>4. /\ Len(toGround'[d]) = 1 /\ toGround'[d][1].total = Len(m.lanes) /\ toGround'[d][1].says = says
          /\ toGround'[d] # <<>>
      BY <3>3
    <3>5. m.lanes = book.lanes[d]
      BY <3>1 DEF Assign
    <3>6. AckUnderWay(toGround', d) => edgePlan'[d] = m
      BY <1>1, <1>2, <3>4 DEF AckUnderWay
    <3>7. ~AckUnderWay(toGround', d) => edgePlan'[d] = edgePlan[d]
      BY <1>2, <3>4 DEF AckUnderWay
    <3>8. /\ book.offer[d] # None => book.offer[d].acked /\ edgePlan[d] = Assign(plan, Base(book, d))
          /\ started => d \in book.acked \/ book.offer[d] # None
      BY <2>1, <2>3, <3>1 DEF Flight
    <3>. QED
      BY ONLY <2>3, <3>1, <3>2, <3>4, <3>5, <3>6, <3>7, <3>8 DEF Flight
  <2>. QED
    BY <2>2, <2>3
<1>5. ASSUME NEW i \in DOMAIN book.chunks PROVE Covered(book.chunks[i], plan, book, unsent', edgePlan')
  <2> DEFINE c == book.chunks[i]
             x == c.receiver
  <2>1. Covered(c, plan, book, unsent, edgePlan)
    BY DEF Flights
  <2>2. CASE c.status # "acked"
    BY <2>2 DEF Covered
  <2>3. CASE c.status = "acked"
    <3>1. x \in Drones
      BY <2>3 DEF Kept
    <3>2. edgePlan'[x] = edgePlan[x] \/ (x = d /\ edgePlan'[x] = m)
      BY <1>1, <1>2, <3>1
    <3>3. x = d => m.plan = plan /\ Range(c.lanes) \subseteq Range(m.lanes)
      BY <2>1, <2>3 DEF Covered
    <3>4. \A s \in Threads : \A k \in Orders : Asks(unsent', s, x, k) => Asks(unsent, s, x, k)
      BY <1>3, <3>1
    <3> HIDE DEF c
    <3>5. edgePlan'[x].plan = plan /\ Range(c.lanes) \subseteq Range(edgePlan'[x].lanes)
      <4>1. edgePlan[x].plan = plan /\ Range(c.lanes) \subseteq Range(edgePlan[x].lanes)
        BY ONLY <2>1, <2>3 DEF Covered
      <4>. QED
        BY ONLY <3>2, <3>3, <4>1
    <3>6. /\ x \notin book.lost => Range(c.lanes) \subseteq Range(Base(book, x))
          /\ \A s \in Threads : \A k \in Orders : Asks(unsent, s, x, k) => k.plan = plan /\ Range(c.lanes) \subseteq Range(k.lanes)
      BY ONLY <2>1, <2>3 DEF Covered
    <3>. QED
      BY ONLY <3>4, <3>5, <3>6 DEF Covered, c
  <2>. QED
    BY <2>2, <2>3
<1>. QED
  BY <1>4, <1>5 DEF Flights

\* An offer that is not sent is taken back, if it is the current one.
LEMMA NotSentFlights ==
    ASSUME RestTyped, BookInv, StartInv, Flights(plan, started, book, unsent, toGround, edgePlan),
           NEW t \in Threads, NEW d \in Drones, NEW m \in Orders, Asks(unsent, t, d, m), OfferNotSent(t, d, m)
    PROVE  Flights(plan, started, book', unsent', toGround, edgePlan)
<1> DEFINE u == [unsent EXCEPT ![t] = unsent[t] \ {<<d, m>>}]
           b == Withdrawn(book, d, "refused")
<1>1. /\ Kept(book) /\ LaneInv(book) /\ (book.chunks # <<>> => started) /\ book \in Books
      /\ \A i \in DOMAIN book.chunks : book.chunks[i].status \in {"offered", "acked"} => book.chunks[i].receiver \in Drones
  BY DEF BookInv, StartInv, Kept
<1>2. unsent \in [Threads -> SUBSET (Drones \X Orders)]
  BY DEF RestTyped
<1>3. /\ u \in [Threads -> SUBSET (Drones \X Orders)]
      /\ \A s \in Threads \ {t} : u[s] = unsent[s]
      /\ u[t] = unsent[t] \ {<<d, m>>}
  BY <1>2
<1>4. \A e \in Drones : \A s \in Threads : \A k \in Orders :
         /\ Asks(u, s, e, k) => Asks(unsent, s, e, k)
         /\ Asks(u, t, d, k) => k # m
  BY <1>2 DEF Asks
<1>5. \/ unsent' = u /\ UNCHANGED book
      \/ book.offer[d] # None /\ Dispatch(b, t, u[t])
  BY <1>3 DEF OfferNotSent
<1> HIDE DEF u, b
<1>6. CASE unsent' = u /\ UNCHANGED book
  <2> DEFINE u2 == unsent'
  <2>1. /\ \A e \in Drones : \A s \in Threads : \A k \in Orders : Asks(u2, s, e, k) => Asks(unsent, s, e, k)
        /\ \A i \in DOMAIN book.chunks : SameFate(book, book, i)
    BY <1>4, <1>6 DEF SameFate
  <2> HIDE DEF u2
  <2>2. Flights(plan, started, book, u2, toGround, edgePlan)
    BY <1>1, <2>1, FlightsSame
  <2>. QED
    BY <1>6, <2>2 DEF u2
<1>7. CASE book.offer[d] # None /\ Dispatch(b, t, u[t])
  <2>1. d \notin book.lost
    BY <1>1, <1>7 DEF Kept
  <2>2. Flight(d, plan, started, book, unsent, toGround, edgePlan)
    BY <2>1 DEF Flights
  <2>3. /\ \A s \in Threads : \A k \in Orders : Asks(unsent, s, d, k) => s = t /\ k = m
        /\ toGround[d] = <<>> /\ ~AckUnderWay(toGround, d)
        /\ edgePlan[d] = Assign(plan, Base(book, d)) /\ book.offer[d].acked
    BY <1>7, <2>2 DEF Flight, AckUnderWay
  <2>4. \A s \in Threads : \A k \in Orders : ~Asks(u, s, d, k)
    BY <1>4, <2>3
  <2>5. Flights(plan, started, b, u, toGround, edgePlan)
    BY <1>1, <1>4, <1>7, <2>3, <2>4, FlightsWithdraw DEF b
  <2>6. Kept(b) /\ LaneInv(b) /\ DOMAIN b.chunks = DOMAIN book.chunks
    <3>1. KeptBut(book, d)
      BY <1>1 DEF Kept, KeptBut
    <3>2. SameChunks(book, b)
      BY <1>1, <1>7, WithdrawnFields DEF b
    <3>. QED
      BY <1>1, <3>1, <3>2, WithdrawKeeps DEF b, SameChunks
  <2>7. b.chunks # <<>> => started
    BY <1>1, <2>6, SameLength
  <2>. QED
    BY <1>3, <1>7, <2>5, <2>6, <2>7, DispatchFlights
<1>. QED
  BY <1>5, <1>6, <1>7

\* A loss: what is under way to the others stays as it was, and those offered
\* lanes of the lost drone fly what they had.
LEMMA LoseFlights ==
    ASSUME RestTyped, BookInv, StartInv, Flights(plan, started, book, unsent, toGround, edgePlan),
           NEW d \in Drones, Lose(d)
    PROVE  Flights(plan, started, book', unsent', toGround, edgePlan)
<1> DEFINE l == LostBook(book, d)
           b == Withdrawn(l, d, "lost")
           Placed(w) == \A i \in DOMAIN w.chunks : w.chunks[i].status \in {"offered", "acked"} => w.chunks[i].receiver \in Drones
<1>1. Kept(book) /\ LaneInv(book) /\ Placed(book) /\ unsent \in [Threads -> SUBSET (Drones \X Orders)] /\ "mission" \in Threads
  BY DEF BookInv, Kept, RestTyped, Threads
<1>2. started
  BY DEF Lose, StartInv
<1>3. /\ KeptBut(l, d) /\ LaneInv(l) /\ l.lost = book.lost \cup {d} /\ l.offer = book.offer
      /\ l.lanes = book.lanes /\ l.chunks = book.chunks /\ l.acked = book.acked
  BY <1>1, LossKeeps
<1>4. Kept(b) /\ LaneInv(b) /\ b.offer[d] = None
  BY <1>3, WithdrawKeeps
<1>5. \E index \in 0..Len(b.lanes[d]) :
        \E pieces \in Cuts(SubSeq(b.lanes[d], index + 1, Len(b.lanes[d]))) :
          Dispatch(Parted(b, d, index, pieces), "mission", {})
  BY DEF Lose, LostBook, Parted
<1> HIDE DEF l
<1>6. Flights(plan, started, l, unsent, toGround, edgePlan)
  <2>1. /\ book.lost \subseteq l.lost
        /\ \A i \in DOMAIN book.chunks : SameFate(book, l, i)
    BY <1>3 DEF SameFate
  <2>. QED
    BY <1>1, <1>3, <2>1, FlightsSame
<1>7. Flights(plan, started, b, unsent, toGround, edgePlan)
  <2>1. CASE l.offer[d] = None
    BY <1>6, <2>1 DEF Withdrawn
  <2>2. CASE l.offer[d] # None
    <3>1. l \in Books /\ Placed(l) /\ d \in l.lost
      BY <1>1, <1>3 DEF KeptBut
    <3> HIDE DEF b
    <3>2. Flights(plan, started, Withdrawn(l, d, "lost"), unsent, toGround, edgePlan)
      BY <1>6, <2>2, <3>1, FlightsWithdraw
    <3>. QED
      BY <3>2 DEF b
  <2>. QED
    BY <2>1, <2>2
<1>8. d \in b.lost
  BY <1>3, WithdrawKeeps
<1> HIDE DEF b
<1>9. PICK index \in 0..Len(b.lanes[d]) :
        \E pieces \in Cuts(SubSeq(b.lanes[d], index + 1, Len(b.lanes[d]))) :
          Dispatch(Parted(b, d, index, pieces), "mission", {})
  BY <1>5
<1>10. PICK pieces \in Cuts(SubSeq(b.lanes[d], index + 1, Len(b.lanes[d]))) :
          Dispatch(Parted(b, d, index, pieces), "mission", {})
  BY <1>9
<1> DEFINE n == Parted(b, d, index, pieces)
<1>11. /\ Kept(n) /\ LaneInv(n)
       /\ \A e \in Drones : e # d => n.lanes[e] = b.lanes[e]
       /\ n.offer = b.offer /\ n.acked = b.acked /\ n.lost = b.lost
       /\ \A i \in DOMAIN n.chunks : n.chunks[i].status = "queued" \/ (i \in DOMAIN b.chunks /\ n.chunks[i] = b.chunks[i])
  BY <1>4, LoseKeeps
<1>12. Dispatch(n, "mission", {})
  BY <1>10
<1> HIDE DEF n
<1>13. Flights(plan, started, n, unsent, toGround, edgePlan)
  <2>1. \A i \in DOMAIN n.chunks : n.chunks[i].status # "acked" \/
              (i \in DOMAIN b.chunks /\ n.chunks[i].lanes = b.chunks[i].lanes /\ SameFate(b, n, i))
    BY <1>11 DEF SameFate
  <2>2. \A e \in Drones \ n.lost : n.lanes[e] = b.lanes[e] /\ n.offer[e] = b.offer[e] /\ (e \in n.acked <=> e \in b.acked)
    BY <1>8, <1>11
  <2>3. Placed(b)
    BY <1>4 DEF Kept
  <2>4. b.lost \subseteq n.lost
    BY <1>11
  <2>. QED
    BY <1>7, <2>1, <2>2, <2>3, <2>4, FlightsSame
<1>. QED
  BY <1>1, <1>2, <1>11, <1>12, <1>13, DispatchFlights

\* An ack: of the current plan, unless the drone is lost.
LEMMA AckFlights ==
    ASSUME RestTyped, BookInv, StartInv, Flights(plan, started, book, unsent, toGround, edgePlan),
           NEW d \in Drones, OnAck(d)
    PROVE  Flights(plan, started, book', unsent', toGround', edgePlan)
<1> DEFINE b == Accepted(book, d)
<1>1. /\ Kept(book) /\ LaneInv(book) /\ unsent \in [Threads -> SUBSET (Drones \X Orders)] /\ d \in Threads
      /\ toGround \in [Drones -> Seq(Answers)] /\ book \in Books
      /\ \A i \in DOMAIN book.chunks : book.chunks[i].status \in {"offered", "acked"} => book.chunks[i].receiver \in Drones
  BY DEF BookInv, Kept, RestTyped, Threads
<1>2. /\ toGround[d] # <<>> /\ Head(toGround[d]).says = "ack"
      /\ toGround' = [toGround EXCEPT ![d] = Tail(toGround[d])]
  BY DEF OnAck
<1>3. Head(toGround[d]) = toGround[d][1]
  BY <1>1, <1>2
<1>4. \A e \in Drones \ {d} : toGround'[e] = toGround[e]
  BY <1>1, <1>2
<1>5. ASSUME d \notin book.lost
      PROVE  /\ Current(d) /\ toGround'[d] = <<>> /\ edgePlan[d] = Assign(plan, book.lanes[d])
             /\ \A t \in Threads : \A m \in Orders : ~Asks(unsent, t, d, m)
  <2>1. Flight(d, plan, started, book, unsent, toGround, edgePlan)
    BY <1>5 DEF Flights
  <2>2. /\ Len(toGround[d]) = 1 /\ toGround[d][1].total = Len(book.lanes[d])
        /\ AckUnderWay(toGround, d) => edgePlan[d] = Assign(plan, book.lanes[d])
        /\ \A t \in Threads : \A m \in Orders : ~Asks(unsent, t, d, m)
    BY <1>2, <2>1 DEF Flight
  <2>3. toGround'[d] = <<>>
    <3>1. toGround'[d] = Tail(toGround[d])
      BY <1>1, <1>2
    <3>2. Tail(toGround[d]) \in Seq(Answers) /\ Len(Tail(toGround[d])) = 0
      BY <1>1, <1>2, <2>2
    <3>. QED
      BY <3>1, <3>2, EmptySeq
  <2>. QED
    BY <1>2, <1>3, <2>2, <2>3 DEF Current, AckUnderWay
<1>6. Flights(plan, started, b, unsent, toGround', edgePlan)
  <2> DEFINE tg == toGround'
  <2>1. /\ \A e \in Drones \ {d} : tg[e] = toGround[e]
        /\ \/ d \in book.lost
           \/ /\ \A t \in Threads : \A m \in Orders : ~Asks(unsent, t, d, m)
              /\ tg[d] = <<>> /\ edgePlan[d] = Assign(plan, book.lanes[d])
    BY <1>4, <1>5
  <2> HIDE DEF tg, b
  <2>2. Flights(plan, started, Accepted(book, d), unsent, tg, edgePlan)
    BY <1>1, <2>1, FlightsAccept
  <2>. QED
    BY <2>2 DEF tg, b
<1>7. /\ Kept(b) /\ LaneInv(b) /\ DOMAIN b.chunks = DOMAIN book.chunks
  BY <1>1, AcceptKeeps, AcceptedFields DEF SameChunks
<1>8. b.chunks # <<>> => started
  BY <1>1, <1>7, SameLength DEF StartInv
<1>9. CASE ~Current(d)
  <2>1. d \in book.lost /\ UNCHANGED <<book, unsent>>
    BY <1>5, <1>9 DEF OnAck
  <2> DEFINE tg == toGround'
  <2>2. \A e \in Drones \ book.lost : tg[e] = toGround[e]
    BY <1>4, <2>1
  <2>3. \A i \in DOMAIN book.chunks : SameFate(book, book, i)
    BY DEF SameFate
  <2> HIDE DEF tg
  <2>4. Flights(plan, started, book, unsent, tg, edgePlan)
    BY <1>1, <2>2, <2>3, FlightsSame
  <2>. QED
    BY <2>1, <2>4 DEF tg
<1>10. CASE Current(d)
  <2>1. Dispatch(b, d, {}) \/ (book' = b /\ UNCHANGED unsent)
    BY <1>10 DEF OnAck
  <2> DEFINE tg == toGround'
  <2> HIDE DEF b
  <2>2. CASE Dispatch(b, d, {})
    <3>1. Flights(plan, started, b, unsent, tg, edgePlan)
      BY <1>6
    <3> HIDE DEF tg
    <3>2. Flights(plan, started, book', unsent', tg, edgePlan)
      BY <1>1, <1>7, <1>8, <2>2, <3>1, DispatchFlights
    <3>. QED
      BY <3>2 DEF tg
  <2>3. CASE book' = b /\ UNCHANGED unsent
    BY <1>6, <2>3
  <2>. QED
    BY <2>1, <2>2, <2>3
<1>. QED
  BY <1>9, <1>10

\* A refusal: of the current plan, unless the drone is lost; the edge flies on with
\* the plan it has.
LEMMA NackFlights ==
    ASSUME RestTyped, BookInv, StartInv, Flights(plan, started, book, unsent, toGround, edgePlan),
           NEW d \in Drones, OnNack(d)
    PROVE  Flights(plan, started, book', unsent', toGround', edgePlan)
<1> DEFINE b == Withdrawn(book, d, Head(toGround[d]).says)
           tg == toGround'
<1>1. /\ Kept(book) /\ LaneInv(book) /\ unsent \in [Threads -> SUBSET (Drones \X Orders)] /\ d \in Threads
      /\ toGround \in [Drones -> Seq(Answers)] /\ book \in Books
      /\ \A i \in DOMAIN book.chunks : book.chunks[i].status \in {"offered", "acked"} => book.chunks[i].receiver \in Drones
  BY DEF BookInv, Kept, RestTyped, Threads
<1>2. /\ toGround[d] # <<>> /\ Head(toGround[d]).says # "ack"
      /\ toGround' = [toGround EXCEPT ![d] = Tail(toGround[d])]
  BY DEF OnNack
<1>3. Head(toGround[d]) = toGround[d][1]
  BY <1>1, <1>2
<1>4. \A e \in Drones \ {d} : tg[e] = toGround[e]
  BY <1>1, <1>2
<1>5. ASSUME d \notin book.lost
      PROVE  /\ Current(d) /\ tg[d] = <<>> /\ d \notin book.acked
             /\ \A t \in Threads : \A m \in Orders : ~Asks(unsent, t, d, m)
             /\ book.offer[d] # None => book.offer[d].acked /\ edgePlan[d] = Assign(plan, Base(book, d))
             /\ started => book.offer[d] # None
  <2>1. Flight(d, plan, started, book, unsent, toGround, edgePlan)
    BY <1>5 DEF Flights
  <2>2. ~AckUnderWay(toGround, d)
    BY <1>2, <1>3 DEF AckUnderWay
  <2>3. /\ Len(toGround[d]) = 1 /\ toGround[d][1].total = Len(book.lanes[d]) /\ d \notin book.acked
        /\ \A t \in Threads : \A m \in Orders : ~Asks(unsent, t, d, m)
        /\ book.offer[d] # None => book.offer[d].acked /\ edgePlan[d] = Assign(plan, Base(book, d))
        /\ started => book.offer[d] # None
    BY <1>2, <2>1, <2>2 DEF Flight
  <2>4. tg[d] = <<>>
    <3>1. tg[d] = Tail(toGround[d])
      BY <1>1, <1>2
    <3>2. Tail(toGround[d]) \in Seq(Answers) /\ Len(Tail(toGround[d])) = 0
      BY <1>1, <1>2, <2>3
    <3>. QED
      BY <3>1, <3>2, EmptySeq
  <2>. QED
    BY <1>3, <2>3, <2>4 DEF Current
<1>6. \A i \in DOMAIN book.chunks : SameFate(book, book, i)
  BY DEF SameFate
<1>7. CASE ~Current(d)
  <2>1. d \in book.lost /\ UNCHANGED <<book, unsent>>
    BY <1>5, <1>7 DEF OnNack
  <2>2. \A e \in Drones \ book.lost : tg[e] = toGround[e]
    BY <1>4, <2>1
  <2> HIDE DEF tg
  <2>3. Flights(plan, started, book, unsent, tg, edgePlan)
    BY <1>1, <1>6, <2>2, FlightsSame
  <2>. QED
    BY <2>1, <2>3 DEF tg
<1>8. CASE Current(d) /\ book.offer[d] # None
  <2>1. Dispatch(b, d, {})
    BY <1>8 DEF OnNack
  <2>2. d \notin book.lost
    BY <1>1, <1>8 DEF Kept
  <2>3. /\ \A t \in Threads : \A m \in Orders : ~Asks(unsent, t, d, m)
        /\ tg[d] = <<>> /\ edgePlan[d] = Assign(plan, Base(book, d)) /\ book.offer[d].acked
    BY <1>5, <1>8, <2>2
  <2> HIDE DEF tg, b
  <2>4. Flights(plan, started, Withdrawn(book, d, Head(toGround[d]).says), unsent, tg, edgePlan)
    BY <1>1, <1>4, <1>8, <2>3, FlightsWithdraw
  <2>5. Kept(b) /\ LaneInv(b) /\ DOMAIN b.chunks = DOMAIN book.chunks
    <3>1. KeptBut(book, d)
      BY <1>1 DEF Kept, KeptBut
    <3>2. SameChunks(book, b)
      BY <1>1, <1>8, WithdrawnFields DEF b
    <3>. QED
      BY <1>1, <3>1, <3>2, WithdrawKeeps DEF b, SameChunks
  <2>6. b.chunks # <<>> => started
    BY <1>1, <2>5, SameLength DEF StartInv
  <2>7. Flights(plan, started, b, unsent, tg, edgePlan)
    BY <2>4 DEF b
  <2>8. Flights(plan, started, book', unsent', tg, edgePlan)
    BY <1>1, <2>1, <2>5, <2>6, <2>7, DispatchFlights
  <2>. QED
    BY <2>8 DEF tg
<1>9. CASE Current(d) /\ book.offer[d] = None
  <2> DEFINE as == book.acked \ {d}
             w == book'
  <2>1. w = [book EXCEPT !.acked = as, !.nacked = book.nacked \cup {d}] /\ UNCHANGED unsent
    BY <1>9 DEF OnNack
  <2>2. w.lanes = book.lanes /\ w.offer = book.offer /\ w.acked = as /\ w.lost = book.lost /\ w.chunks = book.chunks
    BY <1>1, <2>1 DEF Books
  <2> HIDE DEF tg, w
  <2>3. ASSUME NEW e \in Drones \ w.lost PROVE Flight(e, plan, started, w, unsent, tg, edgePlan)
    <3>1. Flight(e, plan, started, book, unsent, toGround, edgePlan)
      BY <2>2, <2>3 DEF Flights
    <3>2. CASE e # d
      <4>1. w.lanes[e] = book.lanes[e] /\ w.offer[e] = book.offer[e] /\ (e \in w.acked <=> e \in book.acked) /\ tg[e] = toGround[e]
        BY <1>4, <2>2, <3>2
      <4>. QED
        BY ONLY <3>1, <4>1, FlightKept
    <3>3. CASE e = d
      <4>1. /\ tg[d] = <<>> /\ d \notin w.acked /\ w.offer[d] = None /\ ~started
            /\ \A t \in Threads : \A m \in Orders : ~Asks(unsent, t, d, m)
        BY <1>5, <1>9, <2>2, <2>3, <3>3
      <4>2. ~AckUnderWay(tg, d)
        BY <4>1 DEF AckUnderWay
      <4>. QED
        BY ONLY <3>3, <4>1, <4>2 DEF Flight
    <3>. QED
      BY <3>2, <3>3
  <2>4. ASSUME NEW i \in DOMAIN w.chunks PROVE Covered(w.chunks[i], plan, w, unsent, edgePlan)
    <3>1. w.chunks[i] = book.chunks[i] /\ Covered(book.chunks[i], plan, book, unsent, edgePlan)
      BY <2>2 DEF Flights
    <3>2. \A e : Base(w, e) = Base(book, e)
      BY <2>2 DEF Base
    <3>. QED
      BY <2>2, <3>1, <3>2 DEF Covered
  <2>5. Flights(plan, started, w, unsent, tg, edgePlan)
    BY <2>3, <2>4 DEF Flights
  <2>. QED
    BY <2>1, <2>5 DEF tg, w
<1>. QED
  BY <1>7, <1>8, <1>9

\* Telemetry that ends a refusal for now.
LEMMA TelemetryFlights ==
    ASSUME RestTyped, BookInv, StartInv, Flights(plan, started, book, unsent, toGround, edgePlan),
           NEW d \in Drones, Telemetry(d)
    PROVE  Flights(plan, started, book', unsent', toGround, edgePlan)
<1> DEFINE b == Undeferred(book, d)
<1>1. /\ Kept(book) /\ LaneInv(book) /\ unsent \in [Threads -> SUBSET (Drones \X Orders)] /\ d \in Threads
      /\ \A i \in DOMAIN book.chunks : book.chunks[i].status \in {"offered", "acked"} => book.chunks[i].receiver \in Drones
  BY DEF BookInv, Kept, RestTyped, Threads
<1>2. /\ Kept(b) /\ LaneInv(b)
      /\ b.lanes = book.lanes /\ b.offer = book.offer /\ b.acked = book.acked /\ b.lost = book.lost
      /\ DOMAIN b.chunks = DOMAIN book.chunks
      /\ \A i \in DOMAIN book.chunks : b.chunks[i].lanes = book.chunks[i].lanes /\ SameFate(book, b, i)
  BY <1>1, ReleaseKeeps
<1>3. Dispatch(b, d, {}) \/ (book' = b /\ UNCHANGED unsent)
  BY DEF Telemetry, Undeferred
<1> HIDE DEF b
<1>4. Flights(plan, started, b, unsent, toGround, edgePlan)
  BY <1>1, <1>2, FlightsSame
<1>5. b.chunks # <<>> => started
  BY <1>1, <1>2, SameLength DEF StartInv
<1>6. CASE Dispatch(b, d, {})
  BY <1>1, <1>2, <1>4, <1>5, <1>6, DispatchFlights
<1>7. CASE book' = b /\ UNCHANGED unsent
  BY <1>4, <1>7
<1>. QED
  BY <1>3, <1>6, <1>7

\* What changes neither the book nor an edge, and owes no plan it did not owe.
LEMMA OwesLess ==
    ASSUME RestTyped, BookInv, FlightInv, UNCHANGED <<plan, started, book, toGround, edgePlan, crossed>>,
           \A e \in Drones : \A t \in Threads : \A m \in Orders : Asks(unsent', t, e, m) => Asks(unsent, t, e, m)
    PROVE  FlightInv'
<1> SUFFICES ASSUME ~crossed, Flights(plan, started, book, unsent, toGround, edgePlan)
             PROVE  Flights(plan, started, book, unsent', toGround, edgePlan)
  BY DEF FlightInv
<1> DEFINE u == unsent'
<1>1. \A e \in Drones : \A t \in Threads : \A m \in Orders : Asks(u, t, e, m) => Asks(unsent, t, e, m)
  OBVIOUS
<1>2. /\ \A i \in DOMAIN book.chunks : book.chunks[i].status \in {"offered", "acked"} => book.chunks[i].receiver \in Drones
      /\ \A i \in DOMAIN book.chunks : SameFate(book, book, i)
  BY DEF BookInv, Kept, SameFate
<1> HIDE DEF u
<1>3. Flights(plan, started, book, u, toGround, edgePlan)
  BY <1>1, <1>2, FlightsSame
<1>. QED
  BY <1>3 DEF u

\* A start: every drone that is not lost has acked its plan.
LEMMA StartFlights ==
    ASSUME RestTyped, Flights(plan, started, book, unsent, toGround, edgePlan), Start
    PROVE  Flights(plan, started', book, unsent', toGround, edgePlan)
<1>1. unsent \in [Threads -> SUBSET (Drones \X Orders)] /\ "mission" \in Threads
  BY DEF RestTyped, Threads
<1>2. /\ started' = TRUE /\ \A d \in Drones \ book.lost : d \in book.acked
      /\ unsent' = [unsent EXCEPT !["mission"] = {<<d, StartAt>> : d \in Drones \ book.lost}]
  BY DEF Start
<1>3. ASSUME NEW e \in Drones, NEW t \in Threads, NEW m \in Orders, Asks(unsent', t, e, m) PROVE Asks(unsent, t, e, m)
  <2>1. t # "mission"
    <3>1. \A d, k : <<d, k>> \in unsent'["mission"] => k.order # "assign_lanes"
      BY <1>1, <1>2 DEF StartAt
    <3>. QED
      BY <1>3, <3>1 DEF Asks
  <2>. QED
    BY <1>1, <1>2, <1>3, <2>1 DEF Asks
<1>4. ASSUME NEW d \in Drones \ book.lost PROVE Flight(d, plan, started', book, unsent', toGround, edgePlan)
  <2>1. Flight(d, plan, started, book, unsent, toGround, edgePlan)
    BY DEF Flights
  <2>2. /\ d \in book.acked
        /\ \A t \in Threads : \A m \in Orders : Asks(unsent', t, d, m) => Asks(unsent, t, d, m)
    BY <1>2, <1>3
  <2>. QED
    BY ONLY <2>1, <2>2 DEF Flight
<1>5. ASSUME NEW i \in DOMAIN book.chunks PROVE Covered(book.chunks[i], plan, book, unsent', edgePlan)
  <2>1. Covered(book.chunks[i], plan, book, unsent, edgePlan)
    BY DEF Flights
  <2>2. book.chunks[i].status = "acked" =>
           \A t \in Threads : \A m \in Orders :
              Asks(unsent', t, book.chunks[i].receiver, m) => Asks(unsent, t, book.chunks[i].receiver, m)
    <3>1. ASSUME NEW e, NEW t \in Threads, NEW m \in Orders, Asks(unsent', t, e, m) PROVE Asks(unsent, t, e, m)
      <4>1. e \in Drones
        BY <1>1, <1>2, <3>1 DEF Asks
      <4>. QED
        BY <1>3, <3>1, <4>1
    <3>. QED
      BY <3>1
  <2>. QED
    BY ONLY <2>1, <2>2 DEF Covered
<1>. QED
  BY <1>4, <1>5 DEF Flights

\* A thread sends what it owes, or fails to.
LEMMA SendsFlights ==
    ASSUME RestTyped, BookInv, StartInv, FlightInv, NEW t \in Threads, Sends(t)
    PROVE  FlightInv'
<1>1. PICK order \in unsent[t] :
         \/ OfferLost(t, order[1], order[2])
         \/ \E says \in Says : SendAssign(t, order[1], order[2], says) \/ OfferLate(t, order[1], order[2], says)
  BY DEF Sends
<1> DEFINE d == order[1]
           m == order[2]
<1>2. d \in Drones /\ m \in Orders /\ <<d, m>> \in unsent[t] /\ m.order \in {"assign_lanes", "start_at"}
  <2>1. order \in Drones \X Orders /\ order \in unsent[t]
    BY DEF RestTyped
  <2>2. d \in Drones /\ m \in Orders /\ <<d, m>> = order
    BY <2>1
  <2>3. \A k \in Orders : k.order \in {"assign_lanes", "start_at"}
    BY DEF Orders
  <2>. QED
    BY <2>1, <2>2, <2>3
<1> HIDE DEF d, m
<1>3. \/ OfferLost(t, d, m)
      \/ \E says \in Says : SendAssign(t, d, m, says) \/ OfferLate(t, d, m, says)
  BY <1>1 DEF d, m
<1>4. UNCHANGED <<plan, started>> /\ Sendable(t, d, m)
  BY <1>3 DEF OfferLost, OfferLate, OfferNotSent, SendAssign
<1>5. Asks(unsent, t, d, m)
  <2>1. m.order # "start_at"
    BY <1>2, <1>4 DEF Sendable, StartInv
  <2>. QED
    BY <1>2, <2>1 DEF Asks
<1>6. CASE OfferLost(t, d, m)
  <2>1. UNCHANGED <<toGround, edgePlan, crossed>> /\ OfferNotSent(t, d, m)
    BY <1>6 DEF OfferLost, edges
  <2>. QED
    BY <1>2, <1>4, <1>5, <2>1, NotSentFlights DEF FlightInv
<1>7. ASSUME NEW says \in Says, SendAssign(t, d, m, says) PROVE FlightInv'
  <2>1. UNCHANGED <<book, crossed>> /\ Kept(book)
    BY <1>7 DEF SendAssign, BookInv
  <2>. QED
    BY <1>2, <1>4, <1>5, <1>7, <2>1, AnswerFlights DEF FlightInv
<1>8. ASSUME NEW says \in Says, OfferLate(t, d, m, says) PROVE FlightInv'
  BY <1>8 DEF OfferLate, FlightInv
<1>. QED
  BY <1>3, <1>6, <1>7, <1>8

\* Every step keeps the plans under way apart.
LEMMA FlightStep ==
    ASSUME RestTyped, RestTyped', BookInv, BookInv', StartInv, FlightInv, [Next]_vars
    PROVE  FlightInv'
<1>1. unsent \in [Threads -> SUBSET (Drones \X Orders)] /\ "mission" \in Threads
  BY DEF RestTyped, Threads
<1>2. ASSUME UNCHANGED <<plan, started, book, toGround, edgePlan, crossed>>,
             \A t \in Threads : unsent'[t] \subseteq unsent[t]
      PROVE  FlightInv'
  BY <1>2, OwesLess DEF Asks
<1>3. CASE Plan
  BY <1>3, PlanFlights DEF FlightInv
<1>4. CASE Start
  <2>1. UNCHANGED <<plan, book, toGround, edgePlan, crossed>>
    BY <1>4 DEF Start, edges
  <2>. QED
    BY <1>4, <2>1, StartFlights DEF FlightInv
<1>5. ASSUME NEW d \in Drones, SendStart(d) PROVE FlightInv'
  <2>1. UNCHANGED <<plan, started, book, toGround, edgePlan, crossed>> /\ \A t \in Threads : unsent'[t] \subseteq unsent[t]
    BY <1>1, <1>5 DEF SendStart, Abort, edges
  <2>. QED
    BY <1>2, <2>1
<1>6. CASE StartDone
  <2>1. UNCHANGED <<plan, started, book, toGround, edgePlan, crossed>> /\ \A t \in Threads : unsent'[t] \subseteq unsent[t]
    BY <1>1, <1>6 DEF StartDone, StartOk, Abort, Owes, edges
  <2>. QED
    BY <1>2, <2>1
<1>7. CASE PlanDone \/ AbortSent \/ LandAll \/ LandAllSent \/ UNCHANGED vars
  <2>1. UNCHANGED <<plan, started, book, toGround, edgePlan, crossed, unsent>>
    BY <1>7 DEF PlanDone, AbortSent, LandAll, LandAllSent, vars, edges
  <2>. QED
    BY <1>2, <2>1
<1>8. ASSUME NEW d \in Drones, CheckLosses(d) \/ LandLost(d) PROVE FlightInv'
  <2>1. UNCHANGED <<plan, started, book, toGround, edgePlan, crossed, unsent>>
    BY <1>8 DEF CheckLosses, LandLost, edges
  <2>. QED
    BY <1>2, <2>1
<1>9. ASSUME NEW d \in Drones, Lose(d) PROVE FlightInv'
  <2>1. UNCHANGED <<plan, started, toGround, edgePlan, crossed>>
    BY <1>9 DEF Lose, edges
  <2>. QED
    BY <1>9, <2>1, LoseFlights DEF FlightInv
<1>10. ASSUME NEW d \in Drones, Summarise(d) PROVE FlightInv'
  <2> DEFINE closed == IF OfChunks(book, d) = {} THEN book.closed ELSE book.closed \cup {d}
             n == book'
  <2>1. /\ mission = [op |-> "waiting", drone |-> d] /\ book' = Summed(book, closed)
        /\ UNCHANGED <<plan, started, toGround, edgePlan, crossed, unsent>>
    BY <1>10 DEF Summarise, Summed, edges
  <2>2. closed = book.closed \/ closed = book.closed \cup {d}
    OBVIOUS
  <2>3. /\ d \in book.lost /\ Kept(book) /\ LaneInv(book)
        /\ \A i \in DOMAIN book.chunks : book.chunks[i].status \in {"offered", "acked"} => book.chunks[i].receiver \in Drones
    BY <2>1 DEF BookInv, Kept
  <2>4. n = Summed(book, closed)
    BY <2>1
  <2> HIDE DEF closed, n
  <2>5. /\ n.lanes = book.lanes /\ n.offer = book.offer /\ n.acked = book.acked /\ n.lost = book.lost
        /\ DOMAIN n.chunks = DOMAIN book.chunks
        /\ \A i \in DOMAIN book.chunks : n.chunks[i].lanes = book.chunks[i].lanes /\ SameFate(book, n, i)
    BY <2>2, <2>3, <2>4, SummaryKeeps
  <2>6. Flights(plan, started, book, unsent, toGround, edgePlan) => Flights(plan, started, n, unsent, toGround, edgePlan)
    BY <2>3, <2>5, FlightsSame
  <2>. QED
    BY <2>1, <2>6 DEF FlightInv, n
<1>11. ASSUME NEW d \in Drones, OnAck(d) PROVE FlightInv'
  <2>1. UNCHANGED <<plan, started, edgePlan, crossed>>
    BY <1>11 DEF OnAck
  <2>. QED
    BY <1>11, <2>1, AckFlights DEF FlightInv
<1>12. ASSUME NEW d \in Drones, OnNack(d) PROVE FlightInv'
  <2>1. UNCHANGED <<plan, started, edgePlan, crossed>>
    BY <1>12 DEF OnNack
  <2>. QED
    BY <1>12, <2>1, NackFlights DEF FlightInv
<1>13. ASSUME NEW d \in Drones, Telemetry(d) PROVE FlightInv'
  <2>1. UNCHANGED <<plan, started, toGround, edgePlan, crossed>>
    BY <1>13 DEF Telemetry, edges
  <2>. QED
    BY <1>13, <2>1, TelemetryFlights DEF FlightInv
<1>14. ASSUME NEW o \in unsent["mission"], PlanNotSent(o[1], o[2]) PROVE FlightInv'
  <2>1. UNCHANGED <<plan, started, book, toGround, edgePlan, crossed>> /\ \A t \in Threads : unsent'[t] \subseteq unsent[t]
    BY <1>1, <1>14 DEF PlanNotSent, edges
  <2>. QED
    BY <1>2, <2>1
<1>15. ASSUME NEW t \in Threads, Sends(t) PROVE FlightInv'
  BY <1>15, SendsFlights
<1>. QED
  BY <1>3, <1>4, <1>5, <1>6, <1>7, <1>8, <1>9, <1>10, <1>11, <1>12, <1>13, <1>14, <1>15
     DEF Next, ThreadStep, MissionStep, LinkStep, Threads

\* The plans under way, at the start and after every step.
LEMMA AlwaysFlights == Spec => [](StartInv /\ FlightInv)
<1>1. Init => StartInv /\ FlightInv
  <2> SUFFICES ASSUME Init PROVE StartInv /\ FlightInv
    OBVIOUS
  <2>1. /\ book.chunks = <<>> /\ book.acked = {} /\ mission.op = "idle" /\ ~watched /\ ~started
        /\ \A d \in Drones : book.offer[d] = None /\ toGround[d] = <<>>
        /\ \A t \in Threads : unsent[t] = {}
    BY DEF Init, NoBook, Idle
  <2>2. StartInv
    BY <2>1 DEF StartInv
  <2>3. \A d \in Drones : Flight(d, plan, started, book, unsent, toGround, edgePlan)
    BY <2>1 DEF Flight, Asks, AckUnderWay
  <2>4. DOMAIN book.chunks = {}
    BY <2>1
  <2>. QED
    BY <2>2, <2>3, <2>4 DEF FlightInv, Flights
<1>2. RestTyped /\ RestTyped' /\ BookInv /\ BookInv' /\ StartInv /\ FlightInv /\ [Next]_vars => (StartInv /\ FlightInv)'
  BY StartStep, FlightStep
<1>. QED
  BY <1>1, <1>2, Always, PTL DEF Spec

\* The lanes shown for a drone that has acked are the lanes its edge has accepted,
\* however offers were refused, failed or withdrawn.
THEOREM AcksAreTrue == Spec => []AckedIsFlown
<1>1. FlightInv /\ BookInv => AckedIsFlown
  <2> SUFFICES ASSUME FlightInv, BookInv, ~crossed, NEW d \in book.acked \ book.lost
               PROVE  edgePlan[d] = Assign(plan, book.lanes[d])
    BY DEF AckedIsFlown
  <2>1. d \in Drones
    BY BookParts DEF BookInv, Kept
  <2>2. Flight(d, plan, started, book, unsent, toGround, edgePlan)
    BY <2>1 DEF FlightInv, Flights
  <2>. QED
    BY <2>2 DEF Flight
<1>. QED
  BY <1>1, Always, AlwaysFlights, PTL

\* No lane counts as covered before the edge that is to fly it has accepted a plan
\* with it; nor does it stop flying it for a later offer.
THEOREM CoverIsReal == Spec => []CoveredIsAccepted
<1>1. FlightInv => CoveredIsAccepted
  BY DEF FlightInv, Flights, Covered, CoveredIsAccepted
<1>. QED
  BY <1>1, AlwaysFlights, PTL

=============================================================================
