----------------------------- MODULE SetInduction -----------------------------
(***************************************************************************)
(* Induction on natural numbers with a set in place of a predicate, for    *)
(* the proofs about recursive functions of the other modules, and with it  *)
(* what the library's FlattenSeq returns.                                  *)
(***************************************************************************)
EXTENDS Integers, SequencesExt, SequenceTheorems, WellFoundedInduction, TLAPS

\* A set of natural numbers that is not empty has a least element.
LEMMA LeastNatural ==
    ASSUME NEW T \in SUBSET Nat, T # {}
    PROVE  \E m \in T : \A k \in T : m <= k
<1>1. \A k \in Nat, m \in Nat : <<k, m>> \in OpToRel(<, Nat) <=> k < m
  BY DEF OpToRel
<1>2. \E m \in T : \A k \in T : <<k, m>> \notin OpToRel(<, Nat)
  BY NatLessThanWellFounded, WFMin
<1> HIDE DEF OpToRel
<1>3. PICK m \in T : \A k \in T : <<k, m>> \notin OpToRel(<, Nat)
  BY <1>2
<1>4. ASSUME NEW k \in T PROVE m <= k
  <2>1. k \in Nat /\ m \in Nat /\ ~(k < m)
    BY <1>1, <1>3, Zenon
  <2>. QED
    BY <2>1
<1>. QED
  BY <1>4

\* A set that has 0 and, with every number below N, its successor, has all up to N.
LEMMA UpTo ==
    ASSUME NEW N \in Nat, NEW S, 0 \in S,
           \A n \in 0..N : n \in S /\ n < N => n + 1 \in S
    PROVE  \A n \in 0..N : n \in S
<1> DEFINE missing == (0..N) \ S
<1> SUFFICES ASSUME missing # {} PROVE FALSE
  OBVIOUS
<1>1. missing \in SUBSET Nat
  OBVIOUS
<1>2. PICK m \in missing : \A k \in missing : m <= k
  BY <1>1, LeastNatural
<1>3. m # 0 /\ m - 1 \in 0..N /\ m - 1 < m /\ m \in Nat
  BY <1>2
<1>4. m - 1 \in S
  BY <1>2, <1>3
<1>. QED
  BY <1>2, <1>3, <1>4

\* One step of FlattenSeq.
FlattenStep(s, f, i) == IF i = 1 THEN s[i] ELSE f[i - 1] \o s[i]

\* FlattenSeq is what it says: its recursive function exists.
LEMMA FlattenDef ==
    ASSUME NEW S, NEW s \in Seq(Seq(S)), s # <<>>
    PROVE  \E f \in [1..Len(s) -> Seq(S)] :
               /\ \A i \in 1..Len(s) : f[i] = FlattenStep(s, f, i)
               /\ FlattenSeq(s) = f[Len(s)]
<1> DEFINE N == Len(s)
           P(f) == f = [i \in 1..N |-> FlattenStep(s, f, i)]
           Upto(m) == \E f \in [1..m -> Seq(S)] : \A i \in 1..m : f[i] = FlattenStep(s, f, i)
           T == {m \in 0..N : Upto(m)}
<1>1. N \in Nat \ {0} /\ \A i \in 1..N : s[i] \in Seq(S)
  BY LenProperties, ElementOfSeq, EmptySeq
<1>2. 0 \in T
  <2> DEFINE f == [i \in 1..0 |-> <<>>]
  <2>1. f \in [1..0 -> Seq(S)] /\ \A i \in 1..0 : f[i] = FlattenStep(s, f, i)
    OBVIOUS
  <2> HIDE DEF f
  <2>2. Upto(0)
    BY <2>1
  <2> HIDE DEF Upto
  <2>. QED
    BY <1>1, <2>2
<1>3. ASSUME NEW m \in 0..N, m \in T, m < N PROVE m + 1 \in T
  <2>1. PICK f \in [1..m -> Seq(S)] : \A i \in 1..m : f[i] = FlattenStep(s, f, i)
    BY <1>3
  <2>2. m \in Nat /\ m + 1 \in 1..N /\ m + 1 \in 0..N
    BY <1>1, <1>3
  <2> DEFINE x == FlattenStep(s, f, m + 1)
             g == [i \in 1..(m + 1) |-> IF i = m + 1 THEN x ELSE f[i]]
  <2>3. x \in Seq(S)
    <3>1. CASE m = 0
      BY <1>1, <2>2, <3>1 DEF FlattenStep
    <3>2. CASE m # 0
      <4>1. f[m] \in Seq(S) /\ s[m + 1] \in Seq(S) /\ x = f[m] \o s[m + 1]
        <5>1. m \in 1..m /\ m + 1 # 1 /\ (m + 1) - 1 = m
          BY <2>2, <3>2
        <5>. QED
          BY <1>1, <2>1, <2>2, <5>1 DEF FlattenStep
      <4>. QED
        BY <4>1, ConcatProperties
    <3>. QED
      BY <3>1, <3>2
  <2>4. ASSUME NEW i \in 1..(m + 1) PROVE i = 1 \/ (i - 1 \in 1..m /\ g[i - 1] = f[i - 1])
    BY <2>2
  <2>5. ASSUME NEW i \in 1..(m + 1) PROVE FlattenStep(s, g, i) = FlattenStep(s, f, i)
    BY <2>4 DEF FlattenStep
  <2>6. ASSUME NEW i \in 1..(m + 1) PROVE g[i] = FlattenStep(s, f, i)
    <3>1. i = m + 1 \/ i \in 1..m
      BY <2>2
    <3>. QED
      BY <2>1, <3>1
  <2>7. g \in [1..(m + 1) -> Seq(S)]
    <3>1. \A i \in 1..(m + 1) : i = m + 1 \/ i \in 1..m
      BY <2>2
    <3> HIDE DEF x
    <3>. QED
      BY <2>1, <2>3, <3>1
  <2> HIDE DEF g, x
  <2>8. \A i \in 1..(m + 1) : g[i] = FlattenStep(s, g, i)
    BY <2>5, <2>6
  <2>. QED
    BY <2>2, <2>7, <2>8
<1> HIDE DEF T
<1>4. N \in T
  <2>1. \A n \in 0..N : n \in T
    BY <1>1, <1>2, <1>3, UpTo
  <2>. QED
    BY <1>1, <2>1
<1>5. PICK f \in [1..N -> Seq(S)] : \A i \in 1..N : f[i] = FlattenStep(s, f, i)
  BY <1>4 DEF T
<1>6. P(f)
  BY <1>5
<1> DEFINE flatten == CHOOSE f_ : P(f_)
<1>7. P(flatten)
  BY <1>6, Zenon
<1>8. FlattenSeq(s) = flatten[N]
  BY <1>1, Zenon DEF FlattenSeq, FlattenStep
<1>9. \A i \in 1..N : flatten[i] = FlattenStep(s, flatten, i)
  BY <1>7, Zenon
<1> HIDE DEF flatten
<1> DEFINE V == {m \in 0..N : m = 0 \/ flatten[m] = f[m]}
<1>10. \A m \in 0..N : m \in V
  <2>1. 0 \in V
    BY <1>1
  <2>2. ASSUME NEW m \in 0..N, m \in V, m < N PROVE m + 1 \in V
    <3>1. m + 1 \in 1..N /\ m + 1 \in 0..N /\ (m = 0 \/ flatten[m] = f[m])
      BY <1>1, <2>2
    <3>2. FlattenStep(s, flatten, m + 1) = FlattenStep(s, f, m + 1)
      BY <2>2, <3>1 DEF FlattenStep
    <3>. QED
      BY <1>5, <1>9, <3>1, <3>2
  <2> HIDE DEF V
  <2>. QED
    BY <1>1, <2>1, <2>2, UpTo
<1>. QED
  BY <1>1, <1>5, <1>8, <1>10
=============================================================================
