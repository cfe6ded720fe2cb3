------------------------------ MODULE DataLemmas ------------------------------
(***************************************************************************)
(* What the proofs need of sequences and numbers beyond the library: the   *)
(* erasure of an element, the least element of a set of naturals, folds    *)
(* over a sequence, and sequences flattened.                               *)
(***************************************************************************)
EXTENDS SequencesExt, SequenceTheorems, WellFoundedInduction, TLAPS

\* Erasing the i-th element of a sequence shifts the later ones down by one.
LEMMA RemoveAtProperties ==
  ASSUME NEW S, NEW s \in Seq(S), NEW i \in 1..Len(s)
  PROVE  /\ RemoveAt(s, i) \in Seq(S)
         /\ Len(RemoveAt(s, i)) = Len(s) - 1
         /\ \A j \in 1..(Len(s) - 1) :
              RemoveAt(s, i)[j] = IF j < i THEN s[j] ELSE s[j + 1]
<1> DEFINE a == SubSeq(s, 1, i - 1)
           b == SubSeq(s, i + 1, Len(s))
<1>1. Len(s) \in Nat /\ \A j \in 1..Len(s) : s[j] \in S
  BY LenProperties, ElementOfSeq
<1>2. /\ a \in Seq(S) /\ Len(a) = i - 1
      /\ \A j \in 1..(i - 1) : a[j] = s[j]
  <2>1. \A j \in 1..(i - 1) : s[j] \in S
    BY <1>1
  <2> QED BY <1>1, <2>1, SubSeqProperties
<1>3. /\ b \in Seq(S) /\ Len(b) = Len(s) - i
      /\ \A j \in 1..(Len(s) - i) : b[j] = s[i + j]
  <2>1. \A j \in (i + 1)..Len(s) : s[j] \in S
    BY <1>1
  <2>2. /\ b \in Seq(S)
        /\ Len(b) = IF i + 1 <= Len(s) THEN Len(s) - (i + 1) + 1 ELSE 0
        /\ \A j \in 1..(Len(s) - (i + 1) + 1) : b[j] = s[i + 1 + j - 1]
    BY <1>1, <2>1, SubSeqProperties
  <2> QED BY <1>1, <2>2
<1>4. RemoveAt(s, i) = a \o b
  BY DEF RemoveAt
<1>5. /\ a \o b \in Seq(S)
      /\ Len(a \o b) = Len(a) + Len(b)
      /\ \A j \in 1..(Len(a) + Len(b)) :
           (a \o b)[j] = IF j <= Len(a) THEN a[j] ELSE b[j - Len(a)]
  BY <1>2, <1>3, ConcatProperties
<1>6. ASSUME NEW j \in 1..(Len(s) - 1)
      PROVE  (a \o b)[j] = IF j < i THEN s[j] ELSE s[j + 1]
  <2> HIDE DEF a, b
  <2>1. i \in Nat /\ j \in Nat /\ j \in 1..(Len(a) + Len(b))
    BY <1>1, <1>2, <1>3
  <2>2. CASE j < i
    BY <1>1, <1>2, <1>5, <2>1, <2>2
  <2>3. CASE ~(j < i)
    <3> DEFINE k == j - (i - 1)
    <3>1. (a \o b)[j] = b[k] /\ k \in 1..(Len(s) - i)
      BY <1>1, <1>2, <1>5, <2>1, <2>3
    <3>2. b[k] = s[i + k] /\ i + k = j + 1
      BY <1>1, <1>3, <2>1, <3>1
    <3> QED BY <2>3, <3>1, <3>2
  <2> QED BY <2>2, <2>3
<1> HIDE DEF a, b
<1>7. Len(a \o b) = Len(s) - 1
  BY <1>1, <1>2, <1>3, <1>5
<1> QED BY <1>4, <1>5, <1>6, <1>7

\* Every non-empty set of naturals has a least element.
LEMMA NatMin ==
  ASSUME NEW T, T \subseteq Nat, T # {}
  PROVE  \E x \in T : \A y \in T : x <= y
<1> DEFINE R == OpToRel(<, Nat)
<1>1. IsWellFoundedOn(R, Nat)
  BY NatLessThanWellFounded
<1>2. PICK x \in T : \A y \in T : ~(<<y, x>> \in R)
  <2> HIDE DEF R
  <2> QED BY <1>1, WFMin
<1>3. \A y \in T : ~(y < x)
  BY <1>2 DEF OpToRel
<1> QED BY <1>3

\* Min is that element.
LEMMA MinProperties ==
  ASSUME NEW T, T \subseteq Nat, T # {}
  PROVE  Min(T) \in T /\ \A y \in T : Min(T) <= y
BY NatMin DEF Min

\* The elements of a sequence are what its indices name.
LEMMA ToSetElements ==
  ASSUME NEW S, NEW s \in Seq(S)
  PROVE  ToSet(s) = {s[i] : i \in 1..Len(s)}
<1>1. DOMAIN s = 1..Len(s)
  BY LenProperties
<1> QED BY <1>1, Zenon DEF ToSet

\* A sequence that gets another element.
LEMMA Appended ==
  ASSUME NEW S, NEW s \in Seq(S), NEW e \in S
  PROVE  /\ Append(s, e) \in Seq(S)
         /\ ToSet(Append(s, e)) = ToSet(s) \cup {e}
<1>1. /\ Append(s, e) \in Seq(S) /\ Len(Append(s, e)) = Len(s) + 1 /\ Len(s) \in Nat
      /\ \A i \in 1..Len(s) : Append(s, e)[i] = s[i]
      /\ Append(s, e)[Len(s) + 1] = e
  BY AppendProperties, LenProperties
<1> DEFINE a == Append(s, e)
<1>2. ToSet(s) = {s[i] : i \in 1..Len(s)} /\ ToSet(a) = {a[i] : i \in 1..Len(a)}
  BY <1>1, ToSetElements
<1>3. /\ \A i \in 1..Len(a) : i \in 1..Len(s) \/ i = Len(s) + 1
      /\ \A i \in 1..Len(s) : i \in 1..Len(a)
      /\ Len(s) + 1 \in 1..Len(a)
  BY <1>1
<1> HIDE DEF a
<1>4. {a[i] : i \in 1..Len(a)} = {s[i] : i \in 1..Len(s)} \cup {e}
  BY <1>1, <1>3 DEF a
<1> QED BY <1>1, <1>2, <1>4 DEF a

\* A sequence that loses an element.
LEMMA Removed ==
  ASSUME NEW S, NEW s \in Seq(S), NEW i \in 1..Len(s)
  PROVE  /\ RemoveAt(s, i) \in Seq(S)
         /\ ToSet(RemoveAt(s, i)) \subseteq ToSet(s)
<1> DEFINE r == RemoveAt(s, i)
<1>1. /\ r \in Seq(S) /\ Len(r) = Len(s) - 1 /\ Len(s) \in Nat
      /\ \A j \in 1..(Len(s) - 1) : r[j] = IF j < i THEN s[j] ELSE s[j + 1]
  BY RemoveAtProperties, LenProperties
<1>2. ToSet(s) = {s[j] : j \in 1..Len(s)} /\ ToSet(r) = {r[j] : j \in 1..Len(r)}
  BY <1>1, ToSetElements
<1> HIDE DEF r
<1>3. ASSUME NEW j \in 1..Len(r)
      PROVE  r[j] \in {s[k] : k \in 1..Len(s)}
  <2>1. j \in 1..Len(s) /\ j + 1 \in 1..Len(s) /\ j \in 1..(Len(s) - 1)
    BY <1>1
  <2> QED BY <1>1, <2>1
<1> QED BY <1>1, <1>2, <1>3 DEF r

\* Two sequences in one.
LEMMA Concatenated ==
  ASSUME NEW S, NEW s \in Seq(S), NEW t \in Seq(S)
  PROVE  /\ s \o t \in Seq(S)
         /\ ToSet(s \o t) = ToSet(s) \cup ToSet(t)
<1> DEFINE u == s \o t
           m == Len(s)
           n == Len(t)
<1>1. m \in Nat /\ n \in Nat
  BY LenProperties
<1>2. /\ u \in Seq(S) /\ Len(u) = m + n
      /\ \A i \in 1..(m + n) : u[i] = IF i <= m THEN s[i] ELSE t[i - m]
  BY ConcatProperties
<1>3. /\ ToSet(s) = {s[i] : i \in 1..m} /\ ToSet(t) = {t[i] : i \in 1..n}
      /\ ToSet(u) = {u[i] : i \in 1..(m + n)}
  BY <1>2, ToSetElements
<1> HIDE DEF u, m, n
<1>4. ASSUME NEW i \in 1..(m + n)
      PROVE  u[i] \in ToSet(s) \cup ToSet(t)
  <2>1. CASE i <= m
    BY <1>1, <1>2, <1>3, <2>1
  <2>2. CASE ~(i <= m)
    <3>1. i - m \in 1..n /\ u[i] = t[i - m]
      BY <1>1, <1>2, <2>2
    <3> QED BY <1>3, <3>1
  <2> QED BY <2>1, <2>2
<1>5. ASSUME NEW i \in 1..m
      PROVE  s[i] \in ToSet(u)
  <2>1. i \in 1..(m + n) /\ i <= m
    BY <1>1
  <2> QED BY <1>2, <1>3, <2>1
<1>6. ASSUME NEW i \in 1..n
      PROVE  t[i] \in ToSet(u)
  <2>1. PICK k \in 1..(m + n) : ~(k <= m) /\ k - m = i
    <3>1. m + i \in 1..(m + n) /\ ~(m + i <= m) /\ m + i - m = i
      BY <1>1
    <3> QED BY <1>1, <3>1
  <2> QED BY <1>2, <1>3, <2>1
<1>7. ToSet(u) \subseteq ToSet(s) \cup ToSet(t)
  BY <1>3, <1>4
<1>8. ToSet(s) \subseteq ToSet(u)
  BY <1>3, <1>5
<1>9. ToSet(t) \subseteq ToSet(u)
  BY <1>3, <1>6
<1>10. ToSet(u) = ToSet(s) \cup ToSet(t)
  BY <1>7, <1>8, <1>9
<1> QED BY <1>2, <1>10 DEF u

-----------------------------------------------------------------------------
(* Folds over sequences.  FoldLeft is a function on the sets of indices,   *)
(* each of which loses its greatest element; that there is such a function *)
(* is proved by the least number of indices for which there is none.       *)

\* The greatest element of a set of indices.
LEMMA MaxProperties ==
  ASSUME NEW n \in Nat, NEW s \in SUBSET (1..n), s # {}
  PROVE  Max(s) \in s /\ \A x \in s : x <= Max(s)
<1> DEFINE Above == {k \in Nat : \A x \in s : x <= k}
<1>1. n \in Above
  OBVIOUS
<1>2. PICK k \in Above : \A y \in Above : k <= y
  <2> HIDE DEF Above
  <2>1. Above \subseteq Nat
    BY DEF Above
  <2> QED BY <1>1, <2>1, NatMin
<1>3. k \in s
  <2> SUFFICES ASSUME k \notin s
               PROVE  FALSE
    OBVIOUS
  <2>1. \A x \in s : x \in 1..n /\ x <= k - 1
    BY <1>2
  <2>2. k - 1 \in Nat
    <3>1. PICK x \in s : x \in 1..n /\ x <= k - 1
      BY <2>1
    <3>2. k \in Nat
      BY <1>2
    <3> QED BY <3>1, <3>2
  <2>3. k - 1 \in Above
    BY <2>1, <2>2
  <2> QED BY <1>2, <2>3
<1>4. \A x \in s : k >= x
  BY <1>2
<1>5. \E m \in s : \A x \in s : m >= x
  BY <1>3, <1>4
<1>6. Max(s) \in s /\ \A x \in s : Max(s) >= x
  BY <1>5 DEF Max
<1> QED BY <1>6

\* The indices of a sequence, with their greatest, and without it.
LEMMA MaxOfRange ==
  ASSUME NEW n \in Nat, NEW k \in 1..n
  PROVE  /\ 1..k # {} /\ 1..k \in SUBSET (1..n)
         /\ Max(1..k) = k /\ (1..k) \ {k} = 1..(k - 1)
<1>1. 1..k # {} /\ 1..k \in SUBSET (1..n) /\ k \in 1..k
  OBVIOUS
<1>2. Max(1..k) \in 1..k /\ k <= Max(1..k)
  BY <1>1, MaxProperties
<1> QED BY <1>1, <1>2

\* F folds the indices up to n by a function of the result so far and the
\* next index.
Folds(F, n, base, g) ==
  \A s \in SUBSET (1..n) :
    F[s] = IF s = {} THEN base ELSE g[<<F[s \ {Max(s)}], Max(s)>>]

\* Whatever is folded, there is such a function.
LEMMA FoldExists ==
  ASSUME NEW T, NEW base \in T, NEW n \in Nat, NEW g \in [T \X (1..n) -> T]
  PROVE  \E F \in [SUBSET (1..n) -> T] : Folds(F, n, base, g)
<1> DEFINE Fold(F, k) ==
             \A s \in SUBSET (1..k) :
               F[s] = IF s = {} THEN base ELSE g[<<F[s \ {Max(s)}], Max(s)>>]
           P(k) == \E F \in [SUBSET (1..k) -> T] : Fold(F, k)
           Bad == {k \in 0..n : ~P(k)}
<1>1. P(0)
  <2> DEFINE F == [s \in SUBSET (1..0) |-> base]
  <2>1. F \in [SUBSET (1..0) -> T]
    OBVIOUS
  <2>2. \A s \in SUBSET (1..0) : s = {} /\ F[s] = base
    OBVIOUS
  <2> QED BY <2>1, <2>2
<1>2. ASSUME NEW k \in 1..n, P(k - 1)
      PROVE  P(k)
  <2>1. PICK F \in [SUBSET (1..(k - 1)) -> T] : Fold(F, k - 1)
    BY <1>2
  <2> DEFINE G == [s \in SUBSET (1..k) |-> IF k \in s THEN g[<<F[s \ {k}], k>>] ELSE F[s]]
  <2>2. ASSUME NEW s \in SUBSET (1..k)
        PROVE  /\ s \ {k} \in SUBSET (1..(k - 1)) /\ s \ {k} \in SUBSET (1..k)
               /\ F[s \ {k}] \in T /\ g[<<F[s \ {k}], k>>] \in T
               /\ k \notin s => s \in SUBSET (1..(k - 1)) /\ s \ {k} = s
    <3>1. s \ {k} \in SUBSET (1..(k - 1)) /\ s \ {k} \in SUBSET (1..k)
      OBVIOUS
    <3>2. F[s \ {k}] \in T
      BY <2>1, <3>1
    <3> QED BY <3>1, <3>2
  <2>3. G \in [SUBSET (1..k) -> T]
    BY <2>2
  <2>4. ASSUME NEW s \in SUBSET (1..k)
        PROVE  G[s] = IF s = {} THEN base ELSE g[<<G[s \ {Max(s)}], Max(s)>>]
    <3>1. CASE k \in s
      <4>1. Max(s) = k
        <5>1. k \in Nat /\ s # {}
          BY <3>1
        <5>2. Max(s) \in 1..k /\ k <= Max(s)
          BY <3>1, <5>1, MaxProperties
        <5> QED BY <5>2
      <4>2. G[s \ {k}] = F[s \ {k}]
        BY <2>2
      <4> QED BY <3>1, <4>1, <4>2
    <3>2. CASE k \notin s
      <4>1. G[s] = F[s] /\ s \in SUBSET (1..(k - 1))
        BY <2>2, <3>2
      <4>2. G[s \ {Max(s)}] = F[s \ {Max(s)}]
        <5>1. s \ {Max(s)} \in SUBSET (1..k) /\ k \notin s \ {Max(s)}
          BY <3>2
        <5> QED BY <5>1
      <4> QED BY <2>1, <4>1, <4>2
    <3> QED BY <3>1, <3>2
  <2> HIDE DEF G
  <2> QED BY <2>3, <2>4
<1>3. Bad = {}
  <2> SUFFICES ASSUME Bad # {}
               PROVE  FALSE
    OBVIOUS
  <2> HIDE DEF P
  <2>1. PICK k \in Bad : \A j \in Bad : k <= j
    <3>1. Bad \subseteq Nat
      OBVIOUS
    <3> HIDE DEF Bad
    <3> QED BY <3>1, NatMin
  <2>2. k # 0 /\ k \in 0..n /\ ~P(k)
    BY <1>1, <2>1
  <2>3. k \in 1..n /\ k - 1 \in 0..n /\ ~(k <= k - 1)
    BY <2>2
  <2>4. P(k - 1)
    BY <2>1, <2>3
  <2> QED BY <1>2, <2>2, <2>3, <2>4
<1>4. P(n)
  <2>1. n \in 0..n
    OBVIOUS
  <2> HIDE DEF P
  <2> QED BY <1>3, <2>1
<1> QED BY <1>4 DEF Folds

-----------------------------------------------------------------------------
(* Sequences of sequences in one                                           *)

\* f holds the sequences up to each index in one, as FlattenSeq computes it.
Flattens(f, seqs) ==
  f = [i \in 1..Len(seqs) |-> IF i = 1 THEN seqs[i] ELSE f[i - 1] \o seqs[i]]

\* There is such a function, and its last value is the whole.
LEMMA FlattenIs ==
  ASSUME NEW S, NEW seqs \in Seq(Seq(S)), seqs # <<>>
  PROVE  \E f \in [1..Len(seqs) -> Seq(S)] :
           Flattens(f, seqs) /\ FlattenSeq(seqs) = f[Len(seqs)]
<1> DEFINE n == Len(seqs)
           T == Seq(S)
           g == [x \in T \X (1..n) |-> x[1] \o seqs[x[2]]]
           f == CHOOSE h : h = [i \in 1..n |-> IF i = 1 THEN seqs[i] ELSE h[i - 1] \o seqs[i]]
<1>1. n \in Nat /\ n # 0 /\ \A i \in 1..n : seqs[i] \in T
  BY LenProperties, EmptySeq, ElementOfSeq
<1>2. <<>> \in T /\ \A t \in T : <<>> \o t = t
  BY EmptySeq, ConcatEmptySeq
<1>3. g \in [T \X (1..n) -> T]
  <2>1. \A t \in T, i \in 1..n : t \o seqs[i] \in T
    BY <1>1, ConcatProperties
  <2> QED BY <2>1
<1>4. FlattenSeq(seqs) = f[n]
  BY <1>1 DEF FlattenSeq
<1> HIDE DEF n, T
<1>5. PICK F \in [SUBSET (1..n) -> T] : Folds(F, n, <<>>, g)
  <2> HIDE DEF g
  <2> QED BY <1>1, <1>2, <1>3, FoldExists
<1> DEFINE h == [i \in 1..n |-> F[1..i]]
<1>6. ASSUME NEW i \in 1..n
      PROVE  h[i] = IF i = 1 THEN seqs[i] ELSE h[i - 1] \o seqs[i]
  <2>1. /\ 1..i # {} /\ 1..i \in SUBSET (1..n) /\ Max(1..i) = i /\ (1..i) \ {i} = 1..(i - 1)
        /\ 1..(i - 1) \in SUBSET (1..n)
    BY <1>1, MaxOfRange
  <2>2. F[1..i] = g[<<F[1..(i - 1)], i>>]
    <3> HIDE DEF g
    <3> QED BY <1>5, <2>1 DEF Folds
  <2>3. F[1..(i - 1)] \in T
    BY <1>5, <2>1
  <2>4. F[1..i] = F[1..(i - 1)] \o seqs[i]
    BY <2>2, <2>3
  <2>5. CASE i = 1
    <3>1. 1..(i - 1) = {} /\ {} \in SUBSET (1..n)
      BY <2>5
    <3>2. F[{}] = <<>>
      <4> HIDE DEF g
      <4> QED BY ONLY <1>5, <3>1 DEF Folds
    <3> QED BY <1>1, <1>2, <2>4, <2>5, <3>1, <3>2
  <2>6. CASE i # 1
    <3>1. i - 1 \in 1..n
      BY <1>1, <2>6
    <3> QED BY <2>4, <2>6, <3>1
  <2> QED BY <2>5, <2>6
<1>7. h = [i \in 1..n |-> IF i = 1 THEN seqs[i] ELSE h[i - 1] \o seqs[i]]
  BY <1>6
<1>8. f = [i \in 1..n |-> IF i = 1 THEN seqs[i] ELSE f[i - 1] \o seqs[i]]
  <2> HIDE DEF h
  <2> QED BY <1>7
<1> HIDE DEF f
<1> DEFINE Bad == {k \in 1..n : f[k] \notin T}
<1>9. Bad = {}
  <2> SUFFICES ASSUME Bad # {}
               PROVE  FALSE
    OBVIOUS
  <2>1. PICK k \in Bad : \A j \in Bad : k <= j
    <3>1. Bad \subseteq Nat
      BY <1>1
    <3> HIDE DEF Bad
    <3> QED BY <3>1, NatMin
  <2>2. k \in 1..n /\ f[k] \notin T /\ seqs[k] \in T
    BY <1>1, <2>1
  <2>3. k # 1 /\ f[k] = f[k - 1] \o seqs[k]
    BY <1>8, <2>2
  <2>4. k - 1 \in 1..n /\ ~(k <= k - 1)
    BY <1>1, <2>2, <2>3
  <2>5. f[k - 1] \in T
    BY <2>1, <2>4
  <2> QED BY <2>2, <2>3, <2>5, ConcatProperties DEF T
<1>10. f \in [1..n -> T]
  <2>1. \A k \in 1..n : f[k] \in T
    BY <1>9
  <2> QED BY <1>8, <2>1
<1>11. Flattens(f, seqs)
  BY <1>8 DEF Flattens, n
<1> QED BY <1>4, <1>10, <1>11 DEF n, T

\* One sequence more goes to the end of the whole.
LEMMA FlattenAppend ==
  ASSUME NEW S, NEW seqs \in Seq(Seq(S)), NEW s \in Seq(S)
  PROVE  FlattenSeq(Append(seqs, s)) = FlattenSeq(seqs) \o s /\ FlattenSeq(seqs) \in Seq(S)
<1> DEFINE n == Len(seqs)
           longer == Append(seqs, s)
<1>1. /\ n \in Nat /\ longer \in Seq(Seq(S)) /\ Len(longer) = n + 1 /\ longer[n + 1] = s
      /\ \A i \in 1..n : longer[i] = seqs[i]
  BY LenProperties, AppendProperties
<1> HIDE DEF longer, n
<1>2. longer # <<>>
  BY <1>1, EmptySeq
<1>3. PICK f \in [1..(n + 1) -> Seq(S)] : Flattens(f, longer) /\ FlattenSeq(longer) = f[n + 1]
  BY <1>1, <1>2, FlattenIs
<1>4. \A i \in 1..(n + 1) : f[i] = IF i = 1 THEN longer[i] ELSE f[i - 1] \o longer[i]
  BY <1>1, <1>3 DEF Flattens
<1>5. CASE n = 0
  <2>1. seqs = <<>>
    BY <1>5, EmptySeq DEF n
  <2>2. FlattenSeq(seqs) = <<>>
    BY <1>5, <2>1 DEF FlattenSeq, n
  <2>3. FlattenSeq(longer) = s
    BY <1>1, <1>3, <1>4, <1>5
  <2> QED BY <2>2, <2>3, ConcatEmptySeq, EmptySeq DEF longer
<1>6. CASE n # 0
  <2>1. seqs # <<>>
    BY <1>6, EmptySeq DEF n
  <2>2. PICK e \in [1..n -> Seq(S)] : Flattens(e, seqs) /\ FlattenSeq(seqs) = e[n]
    BY <2>1, FlattenIs DEF n
  <2>3. \A i \in 1..n : e[i] = IF i = 1 THEN seqs[i] ELSE e[i - 1] \o seqs[i]
    BY <2>2 DEF Flattens, n
  <2> DEFINE Bad == {k \in 1..n : e[k] # f[k]}
  <2>4. Bad = {}
    <3> SUFFICES ASSUME Bad # {}
                 PROVE  FALSE
      OBVIOUS
    <3>1. PICK k \in Bad : \A j \in Bad : k <= j
      <4>1. Bad \subseteq Nat
        BY <1>1
      <4> HIDE DEF Bad
      <4> QED BY <4>1, NatMin
    <3>2. k \in 1..n /\ k \in 1..(n + 1) /\ e[k] # f[k]
      BY <1>1, <3>1
    <3>3. k # 1
      BY <1>1, <1>4, <2>3, <3>2
    <3>4. k - 1 \in 1..n /\ ~(k <= k - 1)
      BY <1>1, <3>2, <3>3
    <3>5. e[k - 1] = f[k - 1]
      BY <3>1, <3>4
    <3>6. e[k] = e[k - 1] \o seqs[k]
      BY <2>3, <3>2, <3>3
    <3>7. f[k] = f[k - 1] \o longer[k]
      BY <1>4, <3>2, <3>3
    <3>8. longer[k] = seqs[k]
      BY <1>1, <3>2
    <3> QED BY <3>2, <3>5, <3>6, <3>7, <3>8
  <2>5. e[n] = f[n]
    BY <1>1, <1>6, <2>4
  <2>6. f[n + 1] = f[n] \o s
    <3>1. PICK i \in 1..(n + 1) : i = n + 1 /\ i # 1 /\ i - 1 = n
      BY <1>1, <1>6
    <3>2. f[i] = f[i - 1] \o longer[i]
      BY <1>4, <3>1
    <3>3. longer[n + 1] = s
      BY <1>1
    <3> QED BY <3>1, <3>2, <3>3
  <2>7. e[n] \in Seq(S)
    BY <1>1, <1>6, <2>2
  <2> QED BY <1>3, <2>2, <2>5, <2>6, <2>7 DEF longer
<1> QED BY <1>5, <1>6

\* The third sequence is the first two, one after the other.
Joins(s, t, u) == u = s \o t

\* The last of the sequences grows ...
Grown(seqs, s) == [seqs EXCEPT ![Len(seqs)] = @ \o s]

\* ... and the whole with it.
LEMMA FlattenGrows ==
  ASSUME NEW S, NEW seqs \in Seq(Seq(S)), NEW s \in Seq(S), NEW grown,
         seqs # <<>>, grown = Grown(seqs, s)
  PROVE  /\ grown \in Seq(Seq(S)) /\ Len(grown) = Len(seqs) /\ grown # <<>>
         /\ Last(seqs) \in Seq(S) /\ Joins(Last(seqs), s, Last(grown))
         /\ Joins(FlattenSeq(seqs), s, FlattenSeq(grown))
<1> DEFINE n == Len(seqs)
           T == Seq(S)
           first == SubSeq(seqs, 1, n - 1)
           end == seqs[n]
<1>1. /\ n \in Nat /\ n # 0 /\ seqs \in [1..n -> T] /\ n \in 1..n
      /\ \A i \in 1..n : seqs[i] \in T
  BY LenProperties, EmptySeq, SeqDef
<1>2. end \in T /\ end \o s \in T
  <2>1. end \in T
    BY <1>1
  <2> QED BY <2>1, ConcatProperties
<1>3. /\ first \in Seq(T) /\ Len(first) = n - 1
      /\ \A i \in 1..(n - 1) : first[i] = seqs[i]
  <2>1. \A i \in 1..(n - 1) : seqs[i] \in T
    BY <1>1
  <2> HIDE DEF n, T
  <2>2. /\ first \in Seq(T) /\ Len(first) = (IF 1 <= n - 1 THEN n - 1 - 1 + 1 ELSE 0)
        /\ \A i \in 1..(n - 1 - 1 + 1) : first[i] = seqs[1 + i - 1]
    BY <1>1, <2>1, SubSeqProperties
  <2> QED BY <1>1, <2>2
<1>4. grown \in [1..n -> T] /\ grown[n] = end \o s /\ \A i \in 1..(n - 1) : grown[i] = seqs[i]
  <2>1. grown = [seqs EXCEPT ![n] = end \o s]
    BY DEF Grown
  <2> DEFINE e == end \o s
  <2>2. e \in T /\ grown = [seqs EXCEPT ![n] = e]
    BY <1>2, <2>1
  <2> HIDE DEF n, T, e
  <2>3. grown \in [1..n -> T] /\ grown[n] = e /\ \A i \in 1..(n - 1) : grown[i] = seqs[i]
    BY ONLY <1>1, <2>2
  <2> QED BY <2>3 DEF e
<1>5. grown \in Seq(T) /\ Len(grown) = n
  <2> HIDE DEF n, T
  <2> QED BY <1>1, <1>4, SeqDef, LenProperties
<1>6. seqs \in Seq(T)
  OBVIOUS
<1> HIDE DEF n, T, first, end
<1>7. seqs = Append(first, end)
  <2>1. /\ Append(first, end) \in Seq(T) /\ Len(Append(first, end)) = n - 1 + 1
        /\ \A i \in 1..(n - 1) : Append(first, end)[i] = first[i]
        /\ Append(first, end)[n - 1 + 1] = end
    BY <1>2, <1>3, AppendProperties
  <2>2. Len(seqs) = n /\ n - 1 + 1 = n /\ seqs[n] = end
    BY <1>1 DEF n, end
  <2>3. \A i \in 1..n : i \in 1..(n - 1) \/ i = n
    BY <1>1
  <2>4. \A i \in 1..n : seqs[i] = Append(first, end)[i]
    BY <1>3, <2>1, <2>2, <2>3
  <2> QED BY <1>6, <2>1, <2>2, <2>4, SeqEqual
<1>8. grown = Append(first, end \o s)
  <2> DEFINE e == end \o s
  <2>1. e \in T /\ grown[n] = e
    BY <1>2, <1>4
  <2> HIDE DEF e
  <2>2. /\ Append(first, e) \in Seq(T) /\ Len(Append(first, e)) = n - 1 + 1
        /\ \A i \in 1..(n - 1) : Append(first, e)[i] = first[i]
        /\ Append(first, e)[n - 1 + 1] = e
    BY <1>3, <2>1, AppendProperties
  <2>3. n - 1 + 1 = n /\ \A i \in 1..n : i \in 1..(n - 1) \/ i = n
    BY <1>1
  <2>4. \A i \in 1..n : grown[i] = Append(first, e)[i]
    BY <1>3, <1>4, <2>1, <2>2, <2>3
  <2>5. grown = Append(first, e)
    BY <1>5, <2>2, <2>3, <2>4, SeqEqual
  <2> QED BY <2>5 DEF e
<1>9. /\ FlattenSeq(seqs) = FlattenSeq(first) \o end
      /\ FlattenSeq(grown) = FlattenSeq(first) \o (end \o s)
      /\ FlattenSeq(first) \in Seq(S)
  <2> DEFINE e == end \o s
  <2>1. first \in Seq(Seq(S)) /\ end \in Seq(S) /\ e \in Seq(S)
    BY <1>2, <1>3 DEF T
  <2>2. grown = Append(first, e)
    BY <1>8
  <2> HIDE DEF e
  <2>3. /\ FlattenSeq(Append(first, end)) = FlattenSeq(first) \o end
        /\ FlattenSeq(first) \in Seq(S)
    BY ONLY <2>1, FlattenAppend
  <2>4. FlattenSeq(Append(first, e)) = FlattenSeq(first) \o e
    BY ONLY <2>1, FlattenAppend
  <2>5. FlattenSeq(grown) = FlattenSeq(first) \o e
    BY <2>2, <2>4
  <2> QED BY <1>7, <2>3, <2>5 DEF e
<1>10. FlattenSeq(first) \o (end \o s) = (FlattenSeq(first) \o end) \o s
  <2> DEFINE f == FlattenSeq(first)
  <2>1. f \in Seq(S) /\ end \in Seq(S) /\ s \in Seq(S)
    BY <1>2, <1>9 DEF T
  <2> HIDE DEF f
  <2>2. (f \o end) \o s = f \o (end \o s)
    BY ONLY <2>1, ConcatAssociative
  <2> QED BY <2>2 DEF f
<1>11. Last(seqs) = end /\ Last(grown) = end \o s
  BY <1>4, <1>5 DEF Last, end, n
<1>12. grown # <<>>
  BY <1>1, <1>5, EmptySeq
<1>13. Joins(Last(seqs), s, Last(grown))
  BY <1>11 DEF Joins
<1>14. Joins(FlattenSeq(seqs), s, FlattenSeq(grown))
  BY <1>9, <1>10 DEF Joins
<1> QED BY <1>2, <1>5, <1>11, <1>12, <1>13, <1>14 DEF n, T

=============================================================================
