--------------------------- MODULE BalanceProofs ---------------------------
(***************************************************************************)
(* The BEGIN and END events of a thread are balanced in the trace once the *)
(* thread has left its scopes: for any number of threads, scopes, buffer   *)
(* and batch sizes, if a single thread flushes.                            *)
(*                                                                         *)
(* The guards of a thread whose BEGIN is in the trace are the open         *)
(* brackets of its events.  Events are named by their uids, so an event    *)
(* that enters the log makes a set of uids grow by the largest one, and a  *)
(* scope that was too short takes one out.                                 *)
(***************************************************************************)
EXTENDS ScopedProofs, PipelineProofs

USE TraceLogAssumption, ScopedAssumption

-----------------------------------------------------------------------------
(* Brackets                                                                *)

\* The number of uids in S up to m.
UpTo(S, m) == Cardinality({x \in S : x <= m})

\* Of the brackets B opened and E closed, d are open still: the first d of s
\* name them.  Each of these has as many unclosed before any later moment.
Nests(B, E, s, d) ==
  /\ Cardinality(B) = Cardinality(E) + d
  /\ \A m \in Nat : UpTo(E, m) <= UpTo(B, m)
  /\ \A i \in 1..d : \A m \in Nat : s[i].begin_uid <= m => UpTo(E, m) + i <= UpTo(B, m)

\* Finite sets of uids below n.
Below(S, n) == S \subseteq Nat /\ IsFiniteSet(S) /\ \A x \in S : x < n

\* What UpTo counts.
LEMMA UpToCounts ==
  ASSUME NEW n \in Nat, NEW S, NEW m \in Nat, Below(S, n)
  PROVE  /\ Cardinality(S) \in Nat /\ UpTo(S, m) \in Nat
         /\ n <= m => UpTo(S, m) = Cardinality(S)
<1> USE DEF Below
<1>1. {x \in S : x <= m} \in SUBSET S
  OBVIOUS
<1>2. Cardinality(S) \in Nat /\ UpTo(S, m) \in Nat
  BY <1>1, FS_Subset, FS_CardinalityType DEF UpTo
<1>3. ASSUME n <= m
      PROVE  {x \in S : x <= m} = S
  <2>1. \A x \in S : x \in Nat /\ x < n
    OBVIOUS
  <2>2. \A x \in S : x <= m
    BY <1>3, <2>1
  <2> QED BY <2>2
<1> QED BY <1>2, <1>3 DEF UpTo

\* A new largest uid.
LEMMA UpToGrows ==
  ASSUME NEW n \in Nat, NEW S, NEW m \in Nat, Below(S, n)
  PROVE  /\ Cardinality(S \cup {n}) = Cardinality(S) + 1
         /\ m < n => UpTo(S \cup {n}, m) = UpTo(S, m)
         /\ n <= m => UpTo(S \cup {n}, m) = Cardinality(S) + 1
<1> USE DEF Below
<1>1. \A x \in S : x \in Nat /\ x < n
  OBVIOUS
<1>2. n \notin S
  BY <1>1
<1>3. Cardinality(S \cup {n}) = Cardinality(S) + 1
  BY <1>2, FS_AddElement
<1>4. ASSUME m < n
      PROVE  {x \in S \cup {n} : x <= m} = {x \in S : x <= m}
  BY <1>1, <1>4
<1>5. ASSUME n <= m
      PROVE  {x \in S \cup {n} : x <= m} = S \cup {n}
  <2>1. \A x \in S \cup {n} : x <= m
    BY <1>1, <1>5
  <2> QED BY <2>1
<1> QED BY <1>3, <1>4, <1>5 DEF UpTo

\* A uid is taken out.
LEMMA UpToLoses ==
  ASSUME NEW n \in Nat, NEW S, NEW x \in S, NEW m \in Nat, Below(S, n)
  PROVE  /\ Cardinality(S \ {x}) = Cardinality(S) - 1
         /\ m < x => UpTo(S \ {x}, m) = UpTo(S, m)
         /\ x <= m => UpTo(S \ {x}, m) = UpTo(S, m) - 1
<1> USE DEF Below
<1> DEFINE T == {y \in S : y <= m}
           U == {y \in S \ {x} : y <= m}
<1>1. \A y \in S : y \in Nat
  OBVIOUS
<1>2. Cardinality(S \ {x}) = Cardinality(S) - 1
  BY FS_RemoveElement
<1>3. m < x => U = T
  BY <1>1
<1>4. ASSUME x <= m
      PROVE  Cardinality(U) = Cardinality(T) - 1
  <2>1. U = T \ {x} /\ x \in T
    BY <1>4
  <2>2. IsFiniteSet(T)
    <3>1. T \in SUBSET S
      OBVIOUS
    <3> QED BY <3>1, FS_Subset
  <2> HIDE DEF T, U
  <2> QED BY <2>1, <2>2, FS_RemoveElement
<1> QED BY <1>2, <1>3, <1>4 DEF UpTo

\* A bracket is opened: the next guard names it.
LEMMA NestsBegin ==
  ASSUME NEW n \in Nat, NEW d \in Nat, NEW B, NEW E, NEW s, NEW r,
         Below(B, n), Below(E, n), Nests(B, E, s, d),
         \A i \in 1..d : r[i] = s[i],
         r[d + 1].begin_uid = n
  PROVE  Nests(B \cup {n}, E, r, d + 1)
<1> DEFINE F == B \cup {n}
<1>1. /\ Cardinality(B) \in Nat /\ Cardinality(E) \in Nat
      /\ Cardinality(B) = Cardinality(E) + d
  BY UpToCounts DEF Nests
<1>2. ASSUME NEW m \in Nat
      PROVE  /\ UpTo(B, m) \in Nat /\ UpTo(E, m) \in Nat
             /\ n <= m => UpTo(E, m) = Cardinality(E)
  BY UpToCounts
<1>3. ASSUME NEW m \in Nat
      PROVE  /\ Cardinality(F) = Cardinality(B) + 1
             /\ m < n => UpTo(F, m) = UpTo(B, m)
             /\ n <= m => UpTo(F, m) = Cardinality(B) + 1
  <2>1. /\ Cardinality(B \cup {n}) = Cardinality(B) + 1
        /\ m < n => UpTo(B \cup {n}, m) = UpTo(B, m)
        /\ n <= m => UpTo(B \cup {n}, m) = Cardinality(B) + 1
    BY ONLY Below(B, n), n \in Nat, m \in Nat, UpToGrows
  <2> QED BY ONLY <2>1 DEF F
<1> HIDE DEF F
<1>4. ASSUME NEW m \in Nat
      PROVE  UpTo(E, m) <= UpTo(F, m)
  <2>1. UpTo(E, m) <= UpTo(B, m)
    BY DEF Nests
  <2> QED BY <1>1, <1>2, <1>3, <2>1
<1>5. ASSUME NEW m \in Nat, NEW i \in 1..(d + 1), r[i].begin_uid <= m
      PROVE  UpTo(E, m) + i <= UpTo(F, m)
  <2>1. CASE m < n
    <3>1. i # d + 1
      BY <1>5, <2>1
    <3>2. i \in 1..d
      BY <3>1
    <3>3. UpTo(E, m) + i <= UpTo(B, m)
      BY <1>5, <3>2 DEF Nests
    <3> QED BY <1>3, <2>1, <3>3
  <2>2. CASE n <= m
    BY <1>1, <1>2, <1>3, <2>2
  <2> QED BY <2>1, <2>2
<1>6. Cardinality(F) = Cardinality(B) + 1
  <2>1. 0 \in Nat
    OBVIOUS
  <2> QED BY <1>3, <2>1
<1>7. Cardinality(F) = Cardinality(E) + (d + 1)
  BY <1>1, <1>6
<1> QED BY <1>4, <1>5, <1>7 DEF Nests, F

\* The innermost bracket is closed.
LEMMA NestsEnd ==
  ASSUME NEW n \in Nat, NEW d \in Nat \ {0}, NEW B, NEW E, NEW s, NEW r,
         Below(B, n), Below(E, n), Nests(B, E, s, d),
         \A i \in 1..(d - 1) : r[i] = s[i]
  PROVE  Nests(B, E \cup {n}, r, d - 1)
<1> DEFINE F == E \cup {n}
<1>1. /\ Cardinality(B) \in Nat /\ Cardinality(E) \in Nat
      /\ Cardinality(B) = Cardinality(E) + d
  BY UpToCounts DEF Nests
<1>2. ASSUME NEW m \in Nat
      PROVE  /\ UpTo(B, m) \in Nat /\ UpTo(E, m) \in Nat
             /\ n <= m => UpTo(B, m) = Cardinality(B)
  BY UpToCounts
<1>3. ASSUME NEW m \in Nat
      PROVE  /\ Cardinality(F) = Cardinality(E) + 1
             /\ m < n => UpTo(F, m) = UpTo(E, m)
             /\ n <= m => UpTo(F, m) = Cardinality(E) + 1
  <2>1. /\ Cardinality(E \cup {n}) = Cardinality(E) + 1
        /\ m < n => UpTo(E \cup {n}, m) = UpTo(E, m)
        /\ n <= m => UpTo(E \cup {n}, m) = Cardinality(E) + 1
    BY ONLY Below(E, n), n \in Nat, m \in Nat, UpToGrows
  <2> QED BY ONLY <2>1 DEF F
<1> HIDE DEF F
<1>4. ASSUME NEW m \in Nat
      PROVE  UpTo(F, m) <= UpTo(B, m)
  <2>1. UpTo(E, m) <= UpTo(B, m)
    BY DEF Nests
  <2> QED BY <1>1, <1>2, <1>3, <2>1
<1>5. ASSUME NEW m \in Nat, NEW i \in 1..(d - 1), r[i].begin_uid <= m
      PROVE  UpTo(F, m) + i <= UpTo(B, m)
  <2>1. UpTo(E, m) + i <= UpTo(B, m)
    <3>1. i \in 1..d
      OBVIOUS
    <3> QED BY <1>5, <3>1 DEF Nests
  <2> QED BY <1>1, <1>2, <1>3, <2>1
<1>6. Cardinality(F) = Cardinality(E) + 1
  <2>1. 0 \in Nat
    OBVIOUS
  <2> QED BY <1>3, <2>1
<1>7. Cardinality(B) = Cardinality(F) + (d - 1)
  BY <1>1, <1>6
<1> QED BY <1>4, <1>5, <1>7 DEF Nests, F

\* The innermost bracket is taken back.
LEMMA NestsErase ==
  ASSUME NEW n \in Nat, NEW d \in Nat \ {0}, NEW B, NEW E, NEW s, NEW r, NEW x \in B,
         Below(B, n), Below(E, n), Nests(B, E, s, d),
         s[d].begin_uid = x,
         \A i \in 1..(d - 1) : r[i] = s[i]
  PROVE  Nests(B \ {x}, E, r, d - 1)
<1> DEFINE F == B \ {x}
<1>1. /\ Cardinality(B) \in Nat /\ Cardinality(E) \in Nat
      /\ Cardinality(B) = Cardinality(E) + d
  BY UpToCounts DEF Nests
<1>2. ASSUME NEW m \in Nat
      PROVE  /\ UpTo(B, m) \in Nat /\ UpTo(E, m) \in Nat
             /\ x <= m => UpTo(E, m) + d <= UpTo(B, m)
  <2>1. d \in 1..d
    OBVIOUS
  <2> QED BY <2>1, UpToCounts DEF Nests
<1>3. ASSUME NEW m \in Nat
      PROVE  /\ Cardinality(F) = Cardinality(B) - 1
             /\ m < x => UpTo(F, m) = UpTo(B, m)
             /\ x <= m => UpTo(F, m) = UpTo(B, m) - 1
  <2>1. /\ Cardinality(B \ {x}) = Cardinality(B) - 1
        /\ m < x => UpTo(B \ {x}, m) = UpTo(B, m)
        /\ x <= m => UpTo(B \ {x}, m) = UpTo(B, m) - 1
    BY UpToLoses
  <2> QED BY ONLY <2>1 DEF F
<1> HIDE DEF F
<1>4. x \in Nat
  BY DEF Below
<1>5. ASSUME NEW m \in Nat
      PROVE  UpTo(E, m) <= UpTo(F, m)
  <2>1. UpTo(E, m) <= UpTo(B, m)
    BY DEF Nests
  <2> QED BY <1>2, <1>3, <1>4, <2>1
<1>6. ASSUME NEW m \in Nat, NEW i \in 1..(d - 1), r[i].begin_uid <= m
      PROVE  UpTo(E, m) + i <= UpTo(F, m)
  <2>1. UpTo(E, m) + i <= UpTo(B, m)
    <3>1. i \in 1..d
      OBVIOUS
    <3> QED BY <1>6, <3>1 DEF Nests
  <2> QED BY <1>2, <1>3, <1>4, <2>1
<1>7. Cardinality(F) = Cardinality(B) - 1
  <2>1. 0 \in Nat
    OBVIOUS
  <2> QED BY <1>3, <2>1
<1>8. Cardinality(F) = Cardinality(E) + (d - 1)
  BY <1>1, <1>7
<1> QED BY <1>5, <1>6, <1>8 DEF Nests, F

\* Only the guards that name open brackets matter.
LEMMA NestsSame ==
  ASSUME NEW B, NEW E, NEW s, NEW r, NEW d, Nests(B, E, s, d),
         \A i \in 1..d : r[i] = s[i]
  PROVE  Nests(B, E, r, d)
BY DEF Nests

-----------------------------------------------------------------------------
(* The events of a thread                                                  *)

\* The uids of the events of a phase that a thread has in s.
OfThread(s, t, phase) ==
  {s[i].uid : i \in {j \in 1..Len(s) : s[j].thread = t /\ s[j].phase = phase}}

\* Uids grow along s and stay below n.
Numbered(s, n) ==
  /\ \A i \in 1..Len(s) : s[i].uid \in Nat /\ s[i].uid < n
  /\ \A i, j \in 1..Len(s) : i < j => s[i].uid < s[j].uid

\* It is so in a log of which nothing was lost.
LEMMA NumberedLog ==
  ASSUME TypeOK, NothingLost
  PROVE  Pipeline \in Seq(Events) /\ Numbered(Pipeline, next_uid) /\ next_uid \in Nat
<1>1. Pipeline \in Seq(Events) /\ next_uid \in Nat
  BY PipelineType DEF TypeOK
<1>2. ASSUME NEW i \in 1..Len(Pipeline)
      PROVE  Pipeline[i].uid \in Nat /\ Pipeline[i].uid < next_uid
  <2>1. Pipeline[i].uid \in 1..(next_uid - 1)
    BY DEF NothingLost
  <2> QED BY <1>1, <2>1
<1> QED BY <1>1, <1>2 DEF NothingLost, Numbered

\* So the uids of a thread are below n, too.
LEMMA OfThreadBelow ==
  ASSUME NEW s, NEW n \in Nat, NEW t, NEW phase, Numbered(s, n)
  PROVE  Below(OfThread(s, t, phase), n)
<1> DEFINE S == OfThread(s, t, phase)
<1>1. \A x \in S : x \in Nat /\ x < n
  BY DEF OfThread, Numbered
<1> HIDE DEF S
<1>2. S \in SUBSET (0..n)
  BY <1>1
<1>3. IsFiniteSet(S)
  <2>1. IsFiniteSet(0..n)
    BY FS_Interval
  <2> QED BY <1>2, <2>1, FS_Subset
<1>4. S \subseteq Nat
  BY <1>1
<1>5. Below(S, n)
  BY <1>1, <1>3, <1>4 DEF Below
<1> QED BY <1>5 DEF S

\* A uid belongs to one thread and one phase.
LEMMA OfThreadOnce ==
  ASSUME NEW s, NEW n \in Nat, NEW t, NEW u, NEW phase, NEW other, NEW x,
         Numbered(s, n), x \in OfThread(s, t, phase), x \in OfThread(s, u, other)
  PROVE  t = u /\ phase = other
<1>1. PICK i \in 1..Len(s) : s[i].thread = t /\ s[i].phase = phase /\ x = s[i].uid
  BY DEF OfThread
<1>2. PICK j \in 1..Len(s) : s[j].thread = u /\ s[j].phase = other /\ x = s[j].uid
  BY DEF OfThread
<1>3. ~(i < j) /\ ~(j < i)
  <2>1. s[i].uid \in Nat /\ s[i].uid = s[j].uid
    BY <1>1, <1>2 DEF Numbered
  <2> QED BY <2>1 DEF Numbered
<1>4. i = j
  BY <1>3
<1> QED BY <1>1, <1>2, <1>4

\* One more event.
LEMMA OfThreadGrows ==
  ASSUME NEW s \in Seq(Events), NEW es \in Seq(Events), NEW t, NEW phase, Len(es) = 1
  PROVE  OfThread(s \o es, t, phase) =
           OfThread(s, t, phase) \cup
             (IF es[1].thread = t /\ es[1].phase = phase THEN {es[1].uid} ELSE {})
<1> DEFINE u == s \o es
           m == Len(s)
<1>1. m \in Nat /\ Len(u) = m + 1
      /\ \A i \in 1..(m + 1) : u[i] = IF i <= m THEN s[i] ELSE es[i - m]
  <2>1. /\ Len(u) = m + Len(es)
        /\ \A i \in 1..(m + Len(es)) : u[i] = IF i <= m THEN s[i] ELSE es[i - m]
    BY ConcatProperties
  <2>2. m \in Nat
    BY LenProperties
  <2> QED BY <2>1, <2>2
<1> HIDE DEF u, m
<1>2. /\ \A i \in 1..m : i \in 1..(m + 1) /\ u[i] = s[i]
      /\ m + 1 \in 1..(m + 1) /\ u[m + 1] = es[1]
      /\ \A i \in 1..(m + 1) : i \in 1..m \/ i = m + 1
  <2>1. m + 1 - m = 1 /\ ~(m + 1 <= m) /\ m + 1 \in 1..(m + 1)
    BY <1>1
  <2>2. u[m + 1] = es[1]
    BY <1>1, <2>1
  <2> QED BY <1>1, <2>1, <2>2
<1>3. ASSUME NEW x
      PROVE  x \in OfThread(u, t, phase) <=>
               x \in OfThread(s, t, phase)
               \/ (es[1].thread = t /\ es[1].phase = phase /\ x = es[1].uid)
  BY <1>1, <1>2 DEF OfThread, m
<1> QED BY <1>3 DEF u

\* One event less.
LEMMA OfThreadLoses ==
  ASSUME NEW s \in Seq(Events), NEW n \in Nat, NEW k \in 1..Len(s), NEW t, NEW phase,
         Numbered(s, n)
  PROVE  OfThread(RemoveAt(s, k), t, phase) = OfThread(s, t, phase) \ {s[k].uid}
<1> DEFINE r == RemoveAt(s, k)
           m == Len(s)
<1>1. m \in Nat /\ Len(r) = m - 1
      /\ \A j \in 1..(m - 1) : r[j] = IF j < k THEN s[j] ELSE s[j + 1]
  BY RemoveAtProperties, LenProperties
<1> HIDE DEF r, m
<1>2. k \in 1..m
  BY DEF m
<1>3. ASSUME NEW j \in 1..(m - 1)
      PROVE  \E i \in 1..m : i # k /\ r[j] = s[i]
  <2>1. CASE j < k
    BY <1>1, <1>2, <2>1
  <2>2. CASE ~(j < k)
    <3>1. j + 1 \in 1..m /\ j + 1 # k /\ r[j] = s[j + 1]
      BY <1>1, <1>2, <2>2
    <3> QED BY <3>1
  <2> QED BY <2>1, <2>2
<1>4. ASSUME NEW i \in 1..m, i # k
      PROVE  \E j \in 1..(m - 1) : r[j] = s[i]
  <2>1. CASE i < k
    BY <1>1, <1>2, <2>1
  <2>2. CASE ~(i < k)
    <3>1. i - 1 \in 1..(m - 1) /\ ~(i - 1 < k) /\ i - 1 + 1 = i
      BY <1>1, <1>2, <1>4, <2>2
    <3>2. r[i - 1] = s[i - 1 + 1]
      BY <1>1, <3>1
    <3> QED BY <3>1, <3>2
  <2> QED BY <2>1, <2>2
<1>5. ASSUME NEW i \in 1..m, s[i].uid = s[k].uid
      PROVE  i = k
  <2>1. ~(i < k) /\ ~(k < i)
    BY <1>2, <1>5 DEF Numbered, m
  <2> QED BY <1>2, <2>1
<1>6. ASSUME NEW x
      PROVE  x \in OfThread(r, t, phase) <=> x \in OfThread(s, t, phase) /\ x # s[k].uid
  <2>1. ASSUME x \in OfThread(r, t, phase)
        PROVE  x \in OfThread(s, t, phase) /\ x # s[k].uid
    <3>1. PICK j \in 1..(m - 1) : r[j].thread = t /\ r[j].phase = phase /\ x = r[j].uid
      BY <1>1, <2>1 DEF OfThread
    <3>2. PICK i \in 1..m : i # k /\ r[j] = s[i]
      BY <1>3
    <3> QED BY <1>5, <3>1, <3>2 DEF OfThread, m
  <2>2. ASSUME x \in OfThread(s, t, phase), x # s[k].uid
        PROVE  x \in OfThread(r, t, phase)
    <3>1. PICK i \in 1..m : s[i].thread = t /\ s[i].phase = phase /\ x = s[i].uid
      BY <2>2 DEF OfThread, m
    <3>2. PICK j \in 1..(m - 1) : r[j] = s[i]
      BY <1>4, <2>2, <3>1
    <3> QED BY <1>1, <3>1, <3>2 DEF OfThread
  <2> QED BY <2>1, <2>2
<1> QED BY <1>6 DEF r

\* Counting the events of a thread is counting their uids.
LEMMA CountIs ==
  ASSUME NEW s, NEW n \in Nat, NEW t, NEW phase, NEW m \in Nat, m <= Len(s), Len(s) \in Nat,
         Numbered(s, n)
  PROVE  Cardinality({i \in 1..m : s[i].thread = t /\ s[i].phase = phase})
           = IF m = 0 THEN 0 ELSE UpTo(OfThread(s, t, phase), s[m].uid)
<1> DEFINE I == {i \in 1..m : s[i].thread = t /\ s[i].phase = phase}
           U == {x \in OfThread(s, t, phase) : x <= s[m].uid}
           f == [i \in I |-> s[i].uid]
<1>1. IsFiniteSet(I)
  <2>1. I \in SUBSET (1..m) /\ IsFiniteSet(1..m)
    BY FS_Interval
  <2> HIDE DEF I
  <2> QED BY <2>1, FS_Subset
<1>2. CASE m = 0
  <2>1. I = {}
    BY <1>2
  <2>2. Cardinality({}) = 0
    BY FS_EmptySet
  <2> QED BY <1>2, <2>1, <2>2
<1>3. CASE m # 0
  <2>1. \A i \in I : i \in 1..Len(s) /\ i <= m /\ s[i].thread = t /\ s[i].phase = phase
    OBVIOUS
  <2>2. m \in 1..Len(s)
    BY <1>3
  <2>3. ASSUME NEW i \in I
        PROVE  s[i].uid \in U
    <3>1. s[i].uid \in OfThread(s, t, phase)
      BY <2>1 DEF OfThread
    <3>2. s[i].uid <= s[m].uid
      BY <2>1, <2>2 DEF Numbered
    <3> QED BY <3>1, <3>2
  <2>4. ASSUME NEW x \in U
        PROVE  \E i \in I : s[i].uid = x
    <3>1. PICK i \in 1..Len(s) : s[i].thread = t /\ s[i].phase = phase /\ x = s[i].uid
      BY DEF OfThread
    <3>2. ~(m < i)
      BY <2>2, <3>1 DEF Numbered
    <3> QED BY <3>1, <3>2
  <2>5. ASSUME NEW i \in I, NEW j \in I, s[i].uid = s[j].uid
        PROVE  i = j
    <3>1. ~(i < j) /\ ~(j < i)
      BY <2>1, <2>5 DEF Numbered
    <3> QED BY <2>1, <3>1
  <2> HIDE DEF I, U
  <2>6. f \in Bijection(I, U)
    <3>1. f \in [I -> U] /\ \A i \in I : f[i] = s[i].uid
      BY <2>3
    <3> HIDE DEF f
    <3> QED BY <2>4, <2>5, <3>1 DEF Bijection, Injection, Surjection, IsInjective
  <2>7. Cardinality(U) = Cardinality(I)
    BY <1>1, <2>6, FS_Bijection DEF ExistsBijection
  <2> QED BY <1>3, <2>7 DEF I, U, UpTo
<1> QED BY <1>2, <1>3

-----------------------------------------------------------------------------
(* The guards whose BEGIN is in the trace                                  *)

Within(t) == pc[t] \in {"add_wait", "add_body"}

\* t is about to make a call with this phase, or makes it.
Making(t, phase) == due[t].phase = phase \/ (Within(t) /\ call[t].phase = phase)

Beginning(t) == Making(t, "BEGIN")
Ending(t) == Making(t, "END")

\* How many scopes of t are open: while the category is enabled all but the
\* one whose BEGIN is being recorded, and none while it is disabled.
Depth(t) ==
  IF ~category_enabled THEN 0
  ELSE IF Beginning(t) THEN Len(scopes[t]) - 1
  ELSE Len(scopes[t])

\* Unless a scope of t lost an event, these scopes have their BEGIN, and no
\* other scope has; BEGIN and END are recorded only while the category is
\* enabled.
Standing(t) ==
  ~torn[t] =>
    /\ \A i \in 1..Len(scopes[t]) : scopes[t][i].begin_uid # 0 <=> i <= Depth(t)
    /\ Beginning(t) \/ Ending(t) => category_enabled

\* What a step may do to the guards of t: no guard but one that was there
\* before has its BEGIN, and either as many scopes are open as before ...
GuardsFrom(t) ==
  \A i \in 1..Len(scopes'[t]) : scopes'[t][i].begin_uid # 0 =>
    i \in 1..Len(scopes[t]) /\ scopes'[t][i] = scopes[t][i]

Remains(t) ==
  /\ GuardsFrom(t)
  /\ ~torn'[t] => /\ ~torn[t]
                  /\ Depth(t)' = Depth(t)
                  /\ \A i \in 1..Depth(t) : scopes'[t][i] = scopes[t][i]

\* ... or the innermost scope has got its BEGIN ...
Enters(t) ==
  /\ BeginRecorded(t)
  /\ Len(scopes'[t]) = Len(scopes[t]) /\ Len(scopes[t]) # 0
  /\ \A i \in 1..(Len(scopes[t]) - 1) : scopes'[t][i] = scopes[t][i]
  /\ scopes'[t][Len(scopes[t])].begin_uid = next_uid
  /\ ~torn'[t] => ~torn[t] /\ Depth(t)' = Len(scopes[t]) /\ Depth(t) = Len(scopes[t]) - 1

\* ... or it is closed.
Leaves(t) ==
  /\ EndRecorded(t) \/ EndDiscarded(t) \/ PairErased(t)
  /\ Len(scopes'[t]) = Len(scopes[t]) - 1 /\ Len(scopes[t]) # 0
  /\ \A i \in 1..(Len(scopes[t]) - 1) : scopes'[t][i] = scopes[t][i]
  /\ ~torn'[t] => ~torn[t] /\ Depth(t)' = Len(scopes[t]) - 1 /\ Depth(t) = Len(scopes[t])

\* A guard on top of the stack of t, or the innermost one taken away.
LEMMA PushedGuard ==
  ASSUME StackType, NEW t \in Threads, NEW g \in Guards, Push(t, g)
  PROVE  /\ Len(scopes[t]) \in Nat /\ Len(scopes'[t]) = Len(scopes[t]) + 1
         /\ \A i \in 1..Len(scopes[t]) : scopes'[t][i] = scopes[t][i]
         /\ scopes'[t][Len(scopes[t]) + 1].begin_uid = 0
         /\ \A u \in Threads \ {t} : scopes'[u] = scopes[u]
<1>1. /\ scopes'[t] = Append(scopes[t], g) /\ scopes[t] \in Seq(GuardStates)
      /\ \A u \in Threads \ {t} : scopes'[u] = scopes[u]
  BY DEF StackType, Push
<1> QED BY <1>1, NewGuard, StackPush

\* See above.
LEMMA PoppedGuard ==
  ASSUME StackType, NEW t \in Threads, scopes[t] # <<>>, Pop(t)
  PROVE  /\ Len(scopes[t]) \in Nat /\ Len(scopes[t]) # 0
         /\ Len(scopes'[t]) = Len(scopes[t]) - 1
         /\ \A i \in 1..(Len(scopes[t]) - 1) : scopes'[t][i] = scopes[t][i]
         /\ \A u \in Threads \ {t} : scopes'[u] = scopes[u]
<1>1. /\ scopes'[t] = Front(scopes[t]) /\ scopes[t] \in Seq(GuardStates)
      /\ \A u \in Threads \ {t} : scopes'[u] = scopes[u]
  BY DEF StackType, Pop
<1> QED BY <1>1, StackPop

\* The innermost guard gets its BEGIN.
LEMMA BegunStack ==
  ASSUME TypeOK, StackType, Calling, NEW t \in Threads, BeginRecorded(t)
  PROVE  /\ Len(scopes[t]) \in Nat /\ Len(scopes[t]) # 0
         /\ Len(scopes'[t]) = Len(scopes[t])
         /\ \A i \in 1..(Len(scopes[t]) - 1) : scopes'[t][i] = scopes[t][i]
         /\ scopes'[t][Len(scopes[t])].begin_uid = next_uid
         /\ \A u \in Threads \ {t} : scopes'[u] = scopes[u]
<1> DEFINE n == Len(scopes[t])
           f == Front(scopes[t])
<1>1. /\ scopes[t] # <<>> /\ scopes[t] \in Seq(GuardStates) /\ Begun(t) \in GuardStates
      /\ scopes'[t] = Append(f, Begun(t))
      /\ \A u \in Threads \ {t} : scopes'[u] = scopes[u]
  BY BeginFacts DEF StackType
<1>2. /\ n \in Nat /\ n >= 1 /\ f \in Seq(GuardStates) /\ Len(f) = n - 1
      /\ \A i \in 1..(n - 1) : f[i] = scopes[t][i]
  BY <1>1, StackPop
<1> HIDE DEF f, n
<1>3. /\ Len(scopes'[t]) = Len(f) + 1
      /\ \A i \in 1..Len(f) : scopes'[t][i] = f[i]
      /\ scopes'[t][Len(f) + 1] = Begun(t)
  BY <1>1, <1>2, StackPush
<1>4. Len(f) + 1 = n
  BY <1>2
<1>5. Begun(t).begin_uid = next_uid
  <2>1. Inner(t) \in GuardStates
    BY <1>1, StackPop DEF Inner
  <2> QED BY <2>1 DEF Begun, GuardStates
<1> QED BY <1>1, <1>2, <1>3, <1>4, <1>5 DEF n

\* A scope whose BEGIN is being recorded is on the stack, but not yet open.
LEMMA DepthRange ==
  ASSUME TypeOK, StackType, Calling, NEW t \in Threads
  PROVE  /\ Len(scopes[t]) \in Nat /\ Depth(t) \in Nat /\ Depth(t) <= Len(scopes[t])
         /\ Beginning(t) => scopes[t] # <<>> /\ Len(scopes[t]) # 0
<1>1. Len(scopes[t]) \in Nat /\ (scopes[t] # <<>> => Len(scopes[t]) # 0)
  BY LenProperties, EmptySeq DEF StackType
<1>2. Beginning(t) => scopes[t] # <<>>
  <2>1. due[t].phase = "BEGIN" => due[t] # NoCall
    BY DEF NoCall
  <2> QED BY <2>1, CallFacts, DueFacts DEF Beginning, Making, Within
<1> QED BY <1>1, <1>2 DEF Depth

\* A thread the step does not concern.
LEMMA StandsElsewhere ==
  ASSUME TypeOK, StackType, Calling, NEW u \in Threads, Standing(u),
         UNCHANGED category_enabled, scopes'[u] = scopes[u], torn[u] => torn'[u],
         Beginning(u)' <=> Beginning(u), Ending(u)' => Ending(u)
  PROVE  Standing(u)' /\ Remains(u)
<1>1. Depth(u)' = Depth(u)
  BY DEF Depth
<1>2. Standing(u)'
  BY <1>1 DEF Standing
<1>3. Len(scopes[u]) \in Nat /\ Depth(u) \in Nat /\ Depth(u) <= Len(scopes[u])
  BY DepthRange
<1>4. Remains(u)
  BY <1>1, <1>3 DEF Remains, GuardsFrom
<1> QED BY <1>2, <1>4

\* No other thread's step mends a thread that is torn.
LEMMA TornStays ==
  ASSUME NEW u \in Threads, NEW broken, Tear(broken), torn[u]
  PROVE  torn'[u]
BY DEF Tear

\* A scope is left.
LEMMA ScopeLeft ==
  ASSUME TypeOK, StackType, Calling, NEW u \in Threads, Standing(u),
         EndRecorded(u) \/ EndDiscarded(u) \/ PairErased(u)
  PROVE  Standing(u)' /\ Leaves(u)
<1> DEFINE n == Len(scopes[u])
<1>1. pc \in [Threads -> Places] /\ call \in [Threads -> Calls \cup {NoCall}]
  BY DEF TypeOK
<1>2. n \in Nat /\ Depth(u) \in Nat /\ Depth(u) <= n
  BY DepthRange
<1>3. /\ Pop(u) /\ pc[u] = "add_body" /\ pc' = [pc EXCEPT ![u] = "idle"]
      /\ call[u].phase = "END" \/ HasBegin(u)
      /\ UNCHANGED <<category_enabled, due>>
  BY DEF EndRecorded, EndDiscarded, PairErased, AddRecord, AddDiscard, AddEraseBegin,
         AddReturn, Goto, categoryVars
<1>4. scopes[u] # <<>> /\ call[u].phase = "END"
  <2>1. scopes[u] # <<>> /\ call[u] = EndCall(Inner(u))
    BY <1>3, CallFacts
  <2> QED BY <2>1 DEF EndCall
<1>5. /\ n # 0 /\ Len(scopes'[u]) = n - 1
      /\ \A i \in 1..(n - 1) : scopes'[u][i] = scopes[u][i]
  BY <1>3, <1>4, PoppedGuard
<1>6. due[u] = NoCall
  BY <1>3, DueFacts
<1>7. ~torn'[u] => ~torn[u]
  BY TornStays DEF EndRecorded, EndDiscarded, PairErased
<1>8. /\ Within(u) /\ ~Beginning(u) /\ Ending(u) /\ ~Within(u)' /\ ~Beginning(u)' /\ ~Ending(u)'
  BY <1>1, <1>3, <1>4, <1>6 DEF Within, Beginning, Ending, Making, NoCall
<1> HIDE DEF n
<1>9. ~torn[u] => category_enabled /\ Depth(u) = n /\ Depth(u)' = n - 1
  BY <1>3, <1>5, <1>8, <1>2 DEF Standing, Depth, n
<1>10. Standing(u)'
  BY <1>2, <1>3, <1>5, <1>7, <1>8, <1>9 DEF Standing, n
<1>11. Leaves(u)
  BY <1>3, <1>5, <1>7, <1>9 DEF Leaves, n
<1> QED BY <1>10, <1>11

\* A scope has got its BEGIN.
LEMMA ScopeBegun ==
  ASSUME TypeOK, StackType, Calling, NEW u \in Threads, Standing(u),
         BeginRecorded(u)
  PROVE  Standing(u)' /\ Enters(u)
<1> DEFINE n == Len(scopes[u])
<1>1. pc \in [Threads -> Places] /\ call \in [Threads -> Calls \cup {NoCall}]
  BY DEF TypeOK
<1>2. n \in Nat /\ Depth(u) \in Nat /\ Depth(u) <= n
  BY DepthRange
<1>3. /\ n # 0 /\ Len(scopes'[u]) = n
      /\ \A i \in 1..(n - 1) : scopes'[u][i] = scopes[u][i]
      /\ scopes'[u][n].begin_uid = next_uid
  BY BegunStack
<1>4. /\ pc[u] = "add_body" /\ pc' = [pc EXCEPT ![u] = "idle"] /\ call[u].phase = "BEGIN"
      /\ UNCHANGED <<category_enabled, torn, due>> /\ due[u] = NoCall
  BY DueFacts DEF BeginRecorded, AddRecord, AddReturn, Goto, categoryVars
<1>5. Beginning(u) /\ ~Beginning(u)' /\ ~Ending(u)'
  BY <1>1, <1>4 DEF Within, Beginning, Ending, Making, NoCall
<1> HIDE DEF n
<1>6. ~torn[u] => category_enabled /\ Depth(u) = n - 1 /\ Depth(u)' = n
  BY <1>2, <1>3, <1>4, <1>5 DEF Standing, Depth, n
<1>7. next_uid \in Nat /\ next_uid # 0
  BY DEF TypeOK
<1>8. Standing(u)'
  BY <1>2, <1>3, <1>4, <1>5, <1>6, <1>7 DEF Standing, n
<1>9. Enters(u)
  BY <1>3, <1>4, <1>6 DEF Enters, n
<1> QED BY <1>8, <1>9

\* Every step does one of these to the guards of a thread.
LEMMA ThreadSteps ==
  ASSUME TypeOK, StackType, Calling, SwitchesTypeOK, \A t \in Threads : Standing(t),
         [ScopedNext]_allVars, NEW u \in Threads
  PROVE  Standing(u)' /\ (Remains(u) \/ Enters(u) \/ Leaves(u))
<1> DEFINE Goal == Standing(u)' /\ (Remains(u) \/ Enters(u) \/ Leaves(u))
           n == Len(scopes[u])
<1>1. /\ pc \in [Threads -> Places] /\ call \in [Threads -> Calls \cup {NoCall}]
      /\ scopes \in [Threads -> Seq(GuardStates)] /\ due \in [Threads -> Calls \cup {NoCall}]
      /\ torn \in [Threads -> BOOLEAN] /\ category_enabled \in BOOLEAN
  BY DEF TypeOK, StackType, SwitchesTypeOK
<1>2. /\ n \in Nat /\ Depth(u) \in Nat /\ Depth(u) <= n
      /\ Beginning(u) => scopes[u] # <<>> /\ n # 0
      /\ Standing(u)
  BY DepthRange
\* The step is one of another thread.
<1>3. ASSUME UNCHANGED category_enabled, scopes'[u] = scopes[u], torn[u] => torn'[u],
             pc'[u] = pc[u], call'[u] = call[u], due'[u] = due[u]
      PROVE  Goal
  BY <1>2, <1>3, StandsElsewhere DEF Beginning, Ending, Making, Within
\* The step leaves the guards alone.
<1>4. ASSUME UNCHANGED <<scopes, category_enabled>>, torn[u] => torn'[u],
             Beginning(u)' <=> Beginning(u), Ending(u)' => Ending(u)
      PROVE  Goal
  BY <1>2, <1>4, StandsElsewhere
\* A thread is torn.
<1>5. ASSUME torn'[u], GuardsFrom(u)
      PROVE  Goal
  BY <1>5 DEF Standing, Remains
\* A call is made, or returns at once.
<1>6. ASSUME Enter(u)
      PROVE  Goal
  <2>1. /\ pc[u] = "idle" /\ pc' = [pc EXCEPT ![u] = "add_wait"]
        /\ call' = [call EXCEPT ![u] = due[u]] /\ due' = [due EXCEPT ![u] = NoCall]
        /\ UNCHANGED <<scopes, category_enabled, torn>>
    BY <1>6 DEF Enter, AddTraceEvent, Goto, Owe, categoryVars
  <2>2. /\ ~Within(u) /\ Within(u)' /\ call'[u] = due[u] /\ due'[u] = NoCall
    BY <1>1, <2>1 DEF Within
  <2>3. \A phase \in {"BEGIN", "END"} : Making(u, phase)' <=> Making(u, phase)
    BY <2>2 DEF Making, NoCall
  <2> QED BY <1>4, <2>1, <2>3 DEF Beginning, Ending
<1>7. ASSUME Dropped(u)
      PROVE  Goal
  <2>1. /\ due[u] # NoCall /\ due' = [due EXCEPT ![u] = NoCall]
        /\ UNCHANGED <<pc, call, category_enabled>>
        /\ pc[u] = "idle"
    BY <1>7, DueFacts DEF Dropped, Owe, vars, frameVars, categoryVars
  <2>2. CASE due[u].phase = "INSTANT"
    <3>1. UNCHANGED scopes /\ (torn[u] => torn'[u])
      BY <1>7, <2>2, TornStays DEF Dropped
    <3>2. \A phase \in {"BEGIN", "END"} : ~Making(u, phase) /\ ~Making(u, phase)'
      BY <1>1, <2>1, <2>2 DEF Making, Within, NoCall
    <3> QED BY <1>4, <2>1, <3>1, <3>2 DEF Beginning, Ending
  <2>3. CASE due[u].phase # "INSTANT"
    <3>1. torn'[u]
      BY <1>7, <2>3 DEF Dropped, Tear
    <3>2. CASE due[u].phase = "END"
      <4>1. scopes[u] # <<>> /\ Pop(u)
        BY <1>7, <2>1, <3>2, DueFacts DEF Dropped
      <4>2. /\ n # 0 /\ Len(scopes'[u]) = n - 1
            /\ \A i \in 1..(n - 1) : scopes'[u][i] = scopes[u][i]
        BY <4>1, PoppedGuard
      <4> HIDE DEF n
      <4>3. GuardsFrom(u)
        BY <1>2, <4>2 DEF GuardsFrom, n
      <4> QED BY <1>5, <3>1, <4>3
    <3>3. CASE due[u].phase # "END"
      <4>1. UNCHANGED scopes
        BY <1>7, <3>3 DEF Dropped
      <4> QED BY <1>5, <3>1, <4>1 DEF GuardsFrom
    <3> QED BY <3>2, <3>3
  <2> QED BY <2>2, <2>3
<1>8. ASSUME NEW t \in Threads, Recording(t)
      PROVE  Goal
  <2>1. CASE t # u
    <3>1. /\ scopes'[u] = scopes[u] /\ pc'[u] = pc[u] /\ call'[u] = call[u] /\ due'[u] = due[u]
          /\ UNCHANGED category_enabled
      BY <1>1, <1>8, <2>1
         DEF Recording, Enter, AddTraceEvent, Dropped, BeginRecorded, EndRecorded, EndDiscarded,
             PairErased, InstantRecorded, AddLock, AddRecord, AddDiscard, AddEraseBegin, AddReturn,
             Goto, Pop, Owe, vars, frameVars, scopeVars, categoryVars
    <3>2. UNCHANGED torn \/ \E broken : Tear(broken)
      BY <1>8 DEF Recording, Enter, Dropped, BeginRecorded, EndRecorded, EndDiscarded, PairErased,
                  InstantRecorded, scopeVars
    <3> QED BY <1>3, <3>1, <3>2, TornStays
  <2>2. CASE t = u /\ AddLock(t) /\ UNCHANGED scopeVars
    <3>1. /\ Within(u)' /\ Within(u) /\ call'[u] = call[u]
          /\ UNCHANGED <<scopes, due, category_enabled, torn>>
      BY <1>1, <2>2 DEF AddLock, Goto, Within, scopeVars, categoryVars
    <3> QED BY <1>4, <3>1 DEF Beginning, Ending, Making
  <2>3. CASE t = u /\ InstantRecorded(t)
    <3>1. /\ pc[u] = "add_body" /\ pc' = [pc EXCEPT ![u] = "idle"] /\ call[u].phase = "INSTANT"
          /\ UNCHANGED <<scopes, due, category_enabled, torn>>
      BY <2>3 DEF InstantRecorded, AddRecord, AddReturn, Goto, scopeVars, categoryVars
    <3>2. due[u] = NoCall /\ ~Within(u)'
      BY <1>1, <3>1, DueFacts DEF Within
    <3>3. \A phase \in {"BEGIN", "END"} : ~Making(u, phase) /\ ~Making(u, phase)'
      BY <3>1, <3>2 DEF Making, NoCall
    <3> QED BY <1>4, <3>1, <3>3 DEF Beginning, Ending
  <2>4. CASE t = u /\ (EndRecorded(t) \/ EndDiscarded(t) \/ PairErased(t))
    BY <1>2, <2>4, ScopeLeft
  <2>5. CASE t = u /\ BeginRecorded(t)
    BY <1>2, <2>5, ScopeBegun
  <2> QED BY <1>6, <1>7, <1>8, <2>1, <2>2, <2>3, <2>4, <2>5 DEF Recording
\* A scope is opened.
<1>9. ASSUME NEW t \in Threads, NEW g \in Guards, OpenScope(t, g) \/ OpenScopeDisabled(t, g)
      PROVE  Goal
  <2>1. /\ Push(t, g) /\ pc[t] = "idle" /\ due[t] = NoCall
        /\ UNCHANGED <<pc, call, category_enabled, torn>>
    BY <1>9 DEF OpenScope, OpenScopeDisabled, Outside, vars, frameVars, categoryVars
  <2>2. CASE t # u
    <3>1. scopes'[u] = scopes[u] /\ due'[u] = due[u]
      BY <1>1, <1>9, <2>1, <2>2 DEF OpenScope, OpenScopeDisabled, Push, Owe
    <3> QED BY <1>3, <2>1, <3>1
  <2>3. CASE t = u
    <3>1. /\ Len(scopes'[u]) = n + 1
          /\ \A i \in 1..n : scopes'[u][i] = scopes[u][i]
          /\ \A i \in 1..Len(scopes'[u]) :
               \/ i \in 1..n /\ scopes'[u][i] = scopes[u][i]
               \/ i = n + 1 /\ scopes'[u][i].begin_uid = 0
      BY <1>2, <2>1, <2>3, PushedGuard
    <3> HIDE DEF n
    <3>2. GuardsFrom(u)
      BY <1>2, <3>1 DEF GuardsFrom, n
    <3>3. ~Within(u) /\ ~Within(u)' /\ ~Beginning(u) /\ ~Ending(u)
      BY <2>1, <2>3 DEF Within, Beginning, Ending, Making, NoCall
    <3>4. CASE OpenScope(t, g)
      <4>1. category_enabled /\ due'[u].phase = "BEGIN"
        BY <1>1, <2>3, <3>4 DEF OpenScope, Owe, PlainCall
      <4>2. Beginning(u)'
        BY <4>1 DEF Beginning, Making
      <4>3. Depth(u) = n /\ Depth(u)' = n
        BY <1>2, <2>1, <3>1, <3>3, <4>1, <4>2 DEF Depth, n
      <4>4. CASE torn[u]
        BY <1>5, <2>1, <3>2, <4>4
      <4>5. CASE ~torn[u]
        <5>1. \A i \in 1..n : scopes[u][i].begin_uid # 0
          BY <1>2, <4>3, <4>5 DEF Standing, n
        <5>2. n \in Nat
          BY <1>2 DEF n
        <5>3. \A i \in 1..Len(scopes'[u]) : scopes'[u][i].begin_uid # 0 <=> i <= n
          BY <3>1, <5>1, <5>2
        <5>4. Standing(u)'
          BY <2>1, <4>1, <4>3, <5>3 DEF Standing
        <5>5. Remains(u)
          BY <2>1, <3>1, <3>2, <4>3 DEF Remains
        <5> QED BY <5>4, <5>5
      <4> QED BY <4>4, <4>5
    <3>5. CASE OpenScopeDisabled(t, g)
      <4>1. ~category_enabled /\ due' = due
        BY <3>5 DEF OpenScopeDisabled
      <4>2. Depth(u) = 0 /\ Depth(u)' = 0
        BY <2>1, <4>1 DEF Depth
      <4>3. ~Beginning(u)' /\ ~Ending(u)'
        BY <2>1, <2>3, <3>3, <4>1 DEF Beginning, Ending, Making, NoCall
      <4>4. Standing(u)'
        BY <1>2, <2>1, <3>1, <4>2, <4>3 DEF Standing, n
      <4>5. Remains(u)
        BY <2>1, <3>1, <3>2, <4>2 DEF Remains
      <4> QED BY <4>4, <4>5
    <3> QED BY <1>9, <3>4, <3>5
  <2> QED BY <2>2, <2>3
\* A call is due that opens no scope.
<1>10. ASSUME NEW t \in Threads, CloseScope(t) \/ Instant(t)
       PROVE  Goal
  <2>1. /\ pc[t] = "idle" /\ due[t] = NoCall /\ category_enabled
        /\ UNCHANGED <<pc, call, scopes, category_enabled, torn>>
    BY <1>10 DEF CloseScope, Instant, Outside, vars, frameVars, categoryVars
  <2>2. CASE t # u
    <3>1. due'[u] = due[u]
      BY <1>1, <1>10, <2>2 DEF CloseScope, Instant, Owe
    <3> QED BY <1>3, <2>1, <3>1
  <2>3. CASE t = u
    <3>1. due'[u].phase \in {"END", "INSTANT"}
      BY <1>1, <1>10, <2>3 DEF CloseScope, Instant, Owe, EndCall, PlainCall
    <3>2. ~Beginning(u) /\ ~Beginning(u)'
      BY <2>1, <2>3, <3>1 DEF Beginning, Making, Within, NoCall
    <3>3. Depth(u)' = Depth(u)
      BY <2>1, <3>2 DEF Depth
    <3>4. Standing(u)'
      BY <1>2, <2>1, <3>3 DEF Standing
    <3>5. Remains(u)
      BY <1>2, <2>1, <3>3 DEF Remains, GuardsFrom
    <3> QED BY <3>4, <3>5
  <2> QED BY <2>2, <2>3
\* A scope is left while the category is disabled.
<1>11. ASSUME NEW t \in Threads, CloseScopeDisabled(t)
       PROVE  Goal
  <2>1. /\ Pop(t) /\ scopes[t] # <<>> /\ pc[t] = "idle" /\ due[t] = NoCall /\ ~category_enabled
        /\ UNCHANGED <<pc, call, due, category_enabled, torn>>
    BY <1>11 DEF CloseScopeDisabled, Outside, vars, frameVars, categoryVars
  <2>2. CASE t # u
    <3>1. scopes'[u] = scopes[u]
      BY <1>1, <2>1, <2>2 DEF Pop
    <3> QED BY <1>3, <2>1, <3>1
  <2>3. CASE t = u
    <3>1. /\ n # 0 /\ Len(scopes'[u]) = n - 1
          /\ \A i \in 1..(n - 1) : scopes'[u][i] = scopes[u][i]
      BY <2>1, <2>3, PoppedGuard
    <3> HIDE DEF n
    <3>2. GuardsFrom(u)
      BY <1>2, <3>1 DEF GuardsFrom, n
    <3>3. ~Beginning(u)' /\ ~Ending(u)'
      BY <2>1, <2>3 DEF Beginning, Ending, Making, Within, NoCall
    <3>4. Depth(u) = 0 /\ Depth(u)' = 0
      BY <2>1 DEF Depth
    <3>5. Standing(u)'
      BY <1>2, <2>1, <3>1, <3>3, <3>4, SMTT(30) DEF Standing, n
    <3>6. Remains(u)
      BY <2>1, <3>1, <3>2, <3>4 DEF Remains
    <3> QED BY <3>5, <3>6
  <2> QED BY <2>2, <2>3
\* The category is switched: a thread that has a scope is torn.
<1>12. CASE SwitchCategory
  <2>1. UNCHANGED <<pc, call, due, scopes>> /\ torn'[u] = (torn[u] \/ scopes[u] # <<>>)
    BY <1>12 DEF SwitchCategory, Tear, vars, frameVars
  <2>2. GuardsFrom(u)
    BY <2>1 DEF GuardsFrom
  <2>3. CASE torn'[u]
    BY <1>5, <2>2, <2>3
  <2>4. CASE ~torn'[u]
    <3>1. scopes[u] = <<>> /\ ~torn[u] /\ Len(scopes[u]) = 0 /\ Len(scopes'[u]) = 0
      BY <2>1, <2>4, EmptySeq
    <3>2. ~Beginning(u) /\ ~Ending(u)
      <4>1. due[u].phase \in {"BEGIN", "END"} => due[u] # NoCall
        BY DEF NoCall
      <4> QED BY <3>1, <4>1, CallFacts, DueFacts DEF Beginning, Ending, Making, Within
    <3>3. ~Beginning(u)' /\ ~Ending(u)'
      BY <2>1, <3>2 DEF Beginning, Ending, Making, Within
    <3>4. Depth(u) = 0 /\ Depth(u)' = 0
      BY <3>1, <3>2, <3>3 DEF Depth
    <3>5. Standing(u)'
      BY <3>1, <3>3 DEF Standing
    <3>6. Remains(u)
      BY <2>1, <2>2, <3>1, <3>4 DEF Remains
    <3> QED BY <3>5, <3>6
  <2> QED BY <2>3, <2>4
\* Flush records nothing.
<1>13. ASSUME NEW t \in Controllers, ScopedFlush(t)
       PROVE  Goal
  <2>1. /\ UNCHANGED <<scopes, due, category_enabled, torn, call>>
        /\ pc'[u] = pc[u] \/ (~Within(u) /\ ~Within(u)')
    BY <1>1, <1>13 DEF ScopedFlush, CallFlush, EnterFlush, FlushSwap, FlushClear, FlushBatch,
                       FlushDone, Goto, Within, scopeVars, categoryVars
  <2> QED BY <1>4, <2>1 DEF Beginning, Ending, Making, Within
<1>14. CASE (Tick /\ UNCHANGED scopeVars) \/ UNCHANGED allVars
  BY <1>3, <1>14 DEF Tick, allVars, vars, frameVars, scopeVars, categoryVars
<1> QED BY <1>8, <1>9, <1>10, <1>11, <1>12, <1>13, <1>14 DEF ScopedNext, Scoping

-----------------------------------------------------------------------------
(* What a step does to the events of the threads                           *)

\* Some event enters the log: it is the last one of the trace.
LEMMA RecordMoves ==
  ASSUME TypeOK, LockOwned, CallInProgress, Move, NEW t \in Threads, AddRecord(t)
  PROVE  \E es \in Seq(Events) :
           /\ Len(es) = 1 /\ Pipeline' = Pipeline \o es
           /\ es[1].uid = next_uid /\ es[1].thread = t /\ es[1].phase = call[t].phase
<1> DEFINE e == NewEvent(next_uid, t, call[t].phase, time_point[t])
<1>1. /\ pc[t] = "add_body" /\ pc' = [pc EXCEPT ![t] = "idle"]
      /\ logged_events_' = Append(logged_events_, e) /\ next_uid' = next_uid + 1
  BY DEF AddRecord, AddReturn, Goto
<1>2. /\ pc \in [Threads -> Places] /\ logged_events_ \in Seq(Events)
      /\ next_uid \in Nat /\ time_point[t] \in Nat /\ call[t] \in Calls
  BY <1>1 DEF TypeOK, CallInProgress
<1>3. ~Swapping /\ ~Swapping'
  <2>1. ASSUME NEW u \in Threads, pc[u] = "flush_clear"
        PROVE  FALSE
    <3>1. u = t
      BY <1>1, <2>1, MutualExclusion
    <3> QED BY <1>1, <2>1, <3>1
  <2> QED BY <1>1, <1>2, <2>1 DEF Swapping
<1>4. e \in Events /\ e.uid = next_uid /\ e.thread = t /\ e.phase = call[t].phase
  <2>1. call[t].phase \in PlainPhases \cup {"END", "METADATA"}
    BY <1>2, CallType
  <2> QED BY <1>2, <2>1, NewEventType DEF NewEvent
<1> HIDE DEF e
<1>5. Open = logged_events_ /\ Open' = Append(logged_events_, e)
  BY <1>1, <1>3 DEF Open
<1>6. ASSUME NEW es \in Seq(Events), NEW time \in Nat, Recorded(es, time)
      PROVE  Len(es) = 1 /\ es[1] = e
  <2>1. Len(es) \in Nat /\ Len(es) = 1
    <3> DEFINE k == Len(es)
    <3>1. k \in Nat
      BY LenProperties
    <3>2. next_uid + k = next_uid + 1 /\ next_uid \in Nat
      BY <1>1, <1>2, <1>6 DEF Recorded
    <3> HIDE DEF k
    <3>3. k = 1
      BY ONLY <3>1, <3>2
    <3> QED BY <3>1, <3>3 DEF k
  <2>2. Open' = Open \o es
    BY <1>6 DEF Recorded
  <2>3. (logged_events_ \o es)[Len(logged_events_) + 1] = es[1]
    <3>1. /\ Len(logged_events_) \in Nat
          /\ \A i \in 1..(Len(logged_events_) + Len(es)) :
               (logged_events_ \o es)[i] = IF i <= Len(logged_events_)
                                           THEN logged_events_[i]
                                           ELSE es[i - Len(logged_events_)]
      BY <1>2, ConcatProperties, LenProperties
    <3> DEFINE m == Len(logged_events_)
    <3>2. m + 1 \in 1..(m + Len(es)) /\ ~(m + 1 <= m) /\ m + 1 - m = 1
      <4> HIDE DEF m
      <4> QED BY <2>1, <3>1 DEF m
    <3> QED BY <3>1, <3>2
  <2>4. Append(logged_events_, e)[Len(logged_events_) + 1] = e
    BY <1>2, <1>4, AppendProperties
  <2> QED BY <1>5, <2>1, <2>2, <2>3, <2>4
<1>7. ~PipelineKept /\ \A k \in 1..Len(Pipeline) : ~PipelineLoses(k)
  BY <1>1, <1>2 DEF PipelineKept, PipelineLoses
<1>8. PICK es \in Seq(Events), time \in Nat : Recorded(es, time) /\ Pipeline' = Pipeline \o es
  BY <1>7, PipelineMoves
<1> QED BY <1>4, <1>6, <1>8

\* A BEGIN event is erased: it alone leaves the trace.
LEMMA EraseMoves ==
  ASSUME TypeOK, NothingLost, Move, LockOwned, NEW t \in Threads, AddEraseBegin(t)
  PROVE  \E k \in 1..Len(Pipeline) :
           Pipeline' = RemoveAt(Pipeline, k) /\ Pipeline[k] = BeginEvent(t)
<1>1. /\ pc[t] = "add_body" /\ HasBegin(t) /\ BeginLogged(t)
      /\ withdrawn' = withdrawn \cup {BeginEvent(t).uid} /\ next_uid' = next_uid
  BY DEF AddEraseBegin
<1>2. ~Swapping
  <2>1. ASSUME NEW u \in Threads, pc[u] = "flush_clear"
        PROVE  FALSE
    <3>1. u = t
      BY <1>1, <2>1, MutualExclusion
    <3> QED BY <1>1, <2>1, <3>1
  <2> QED BY <2>1 DEF Swapping
<1>3. \E k \in 1..Len(Pipeline) : Pipeline[k] = BeginEvent(t)
  <2> DEFINE s == output \o Pending
             i == call[t].begin_id + 1
  <2>1. Open = logged_events_ /\ Open \in Seq(Events) /\ s \in Seq(Events)
    BY <1>2, PartsType, ConcatProperties DEF Open, TypeOK
  <2>2. i \in 1..Len(Open) /\ BeginEvent(t) = Open[i] /\ Pipeline = s \o Open
    BY <1>1, <2>1, BeginIndex DEF BeginEvent, Pipeline
  <2> HIDE DEF s, i
  <2>3. Len(s) + i \in 1..Len(s \o Open) /\ (s \o Open)[Len(s) + i] = Open[i]
    BY <2>1, <2>2, RemoveFromConcat
  <2> QED BY <2>2, <2>3
<1>4. \A k \in 1..Len(Pipeline) : Pipeline[k].uid \notin withdrawn
  BY DEF NothingLost
<1>5. ~PipelineKept
  BY <1>1, <1>3, <1>4 DEF PipelineKept
<1>6. ASSUME NEW es \in Seq(Events), NEW time \in Nat, Recorded(es, time)
      PROVE  FALSE
  BY <1>1, <1>6, EmptySeq, LenProperties DEF Recorded, TypeOK
<1>7. PICK k \in 1..Len(Pipeline) : PipelineLoses(k)
  BY <1>5, <1>6, PipelineMoves
<1>8. Pipeline[k].uid = BeginEvent(t).uid
  BY <1>1, <1>4, <1>7 DEF PipelineLoses
<1>9. PICK j \in 1..Len(Pipeline) : Pipeline[j] = BeginEvent(t)
  BY <1>3
<1>10. j = k
  <2>1. Numbered(Pipeline, next_uid) /\ next_uid \in Nat
    BY NumberedLog
  <2>2. Pipeline[j].uid = Pipeline[k].uid /\ Pipeline[j].uid \in Nat
    BY <1>8, <1>9, <2>1 DEF Numbered
  <2>3. ~(j < k) /\ ~(k < j)
    BY <2>1, <2>2 DEF Numbered
  <2> QED BY <2>3
<1> QED BY <1>7, <1>9, <1>10 DEF PipelineLoses

\* Where no event enters or is erased, the trace stays as it is.
LEMMA OtherMoves ==
  ASSUME TypeOK, NothingLost, Move, UNCHANGED <<next_uid, withdrawn>>
  PROVE  Pipeline' = Pipeline
<1>1. \A k \in 1..Len(Pipeline) : Pipeline[k].uid \notin withdrawn
  BY DEF NothingLost
<1>2. ASSUME NEW es \in Seq(Events), NEW time \in Nat, Recorded(es, time)
      PROVE  FALSE
  BY <1>2, EmptySeq, LenProperties DEF Recorded, TypeOK
<1>3. ASSUME NEW k \in 1..Len(Pipeline), PipelineLoses(k)
      PROVE  FALSE
  BY <1>1, <1>3 DEF PipelineLoses
<1> QED BY <1>2, <1>3, PipelineMoves DEF PipelineKept

\* These are all the steps that record or erase.
LEMMA LogSteps ==
  ASSUME [ScopedNext]_allVars
  PROVE  \/ \E t \in Threads : BeginRecorded(t) \/ EndRecorded(t) \/ InstantRecorded(t)
         \/ \E t \in Threads : PairErased(t)
         \/ UNCHANGED <<next_uid, withdrawn>>
<1> DEFINE Same == UNCHANGED <<next_uid, withdrawn>>
<1>1. ASSUME NEW t \in Threads, Recording(t), ~PairErased(t),
             ~(BeginRecorded(t) \/ EndRecorded(t) \/ InstantRecorded(t))
      PROVE  Same
  BY <1>1 DEF Recording, Enter, AddTraceEvent, Dropped, EndDiscarded, AddLock, AddDiscard, vars,
              logVars
<1>2. ASSUME NEW t \in Threads, Scoping(t)
      PROVE  Same
  BY <1>2 DEF Scoping, OpenScope, OpenScopeDisabled, CloseScope, CloseScopeDisabled, Instant, vars,
              logVars
<1>3. ASSUME NEW t \in Controllers, ScopedFlush(t)
      PROVE  Same
  BY <1>3 DEF ScopedFlush, CallFlush, FlushSwap, FlushClear, FlushBatch, FlushDone, logVars
<1>4. CASE SwitchCategory \/ (Tick /\ UNCHANGED scopeVars) \/ UNCHANGED allVars
  BY <1>4 DEF SwitchCategory, Tick, allVars, vars, logVars
<1> QED BY <1>1, <1>2, <1>3, <1>4 DEF ScopedNext

-----------------------------------------------------------------------------
(* The brackets of every thread                                            *)

Begins(t) == OfThread(Pipeline, t, "BEGIN")
Ends(t) == OfThread(Pipeline, t, "END")

\* What guards stand for is in the trace, inner ones later.
Names(B, s) ==
  /\ \A i \in 1..Len(s) : s[i].begin_uid # 0 => s[i].begin_uid \in B
  /\ \A i, j \in 1..Len(s) :
       i < j /\ s[i].begin_uid # 0 /\ s[j].begin_uid # 0 => s[i].begin_uid < s[j].begin_uid

Bracketed(t) ==
  ~torn[t] => /\ Names(Begins(t), scopes[t])
              /\ Nests(Begins(t), Ends(t), scopes[t], Depth(t))

\* What the step lemmas below need.
BalanceFacts ==
  /\ HeldInv /\ NothingLost /\ SwitchesTypeOK
  /\ \A t \in Threads : Standing(t)

\* The thread's events and the guards that name them are left alone.
LEMMA BracketsRemain ==
  ASSUME NEW u \in Threads, Bracketed(u), Remains(u),
         Begins(u)' = Begins(u), Ends(u)' = Ends(u)
  PROVE  Bracketed(u)'
<1> SUFFICES ASSUME ~torn'[u]
             PROVE  Names(Begins(u), scopes'[u]) /\ Nests(Begins(u), Ends(u), scopes'[u], Depth(u)')
  BY DEF Bracketed
<1>1. Names(Begins(u), scopes'[u])
  <2>1. \A i \in 1..Len(scopes'[u]) : scopes'[u][i].begin_uid # 0 =>
          i \in 1..Len(scopes[u]) /\ scopes'[u][i] = scopes[u][i]
    BY DEF Remains, GuardsFrom
  <2>2. Names(Begins(u), scopes[u])
    BY DEF Bracketed, Remains
  <2> QED BY <2>1, <2>2 DEF Names
<1>2. Nests(Begins(u), Ends(u), scopes'[u], Depth(u)')
  <2>1. /\ ~torn[u] /\ Depth(u)' = Depth(u)
        /\ \A i \in 1..Depth(u) : scopes'[u][i] = scopes[u][i]
    BY DEF Remains
  <2>2. Nests(Begins(u), Ends(u), scopes[u], Depth(u))
    BY <2>1 DEF Bracketed
  <2>3. Nests(Begins(u), Ends(u), scopes'[u], Depth(u))
    BY <2>1, <2>2, NestsSame
  <2> QED BY <2>1, <2>3
<1> QED BY <1>1, <1>2

\* Its BEGIN is recorded.
LEMMA BracketOpens ==
  ASSUME BalanceFacts, NEW u \in Threads, Bracketed(u), Enters(u),
         Begins(u)' = Begins(u) \cup {next_uid}, Ends(u)' = Ends(u)
  PROVE  Bracketed(u)'
<1> SUFFICES ASSUME ~torn'[u]
             PROVE  /\ Names(Begins(u) \cup {next_uid}, scopes'[u])
                    /\ Nests(Begins(u) \cup {next_uid}, Ends(u), scopes'[u], Depth(u)')
  BY DEF Bracketed
<1> DEFINE n == Len(scopes[u])
<1>1. /\ n \in Nat /\ n # 0 /\ Len(scopes'[u]) = n
      /\ \A i \in 1..(n - 1) : scopes'[u][i] = scopes[u][i]
      /\ scopes'[u][n].begin_uid = next_uid
  BY DepthRange DEF BalanceFacts, HeldInv, Enters
<1>2. Numbered(Pipeline, next_uid) /\ next_uid \in Nat
  BY NumberedLog DEF BalanceFacts, HeldInv
<1>3. Below(Begins(u), next_uid) /\ Below(Ends(u), next_uid)
  BY <1>2, OfThreadBelow DEF Begins, Ends
<1>4. Names(Begins(u), scopes[u])
  BY DEF Bracketed, Enters
<1> HIDE DEF n
<1>5. Names(Begins(u) \cup {next_uid}, scopes'[u])
  <2>1. ASSUME NEW i \in 1..(n - 1), scopes'[u][i].begin_uid # 0
        PROVE  /\ scopes[u][i] = scopes'[u][i] /\ i \in 1..Len(scopes[u])
               /\ scopes'[u][i].begin_uid \in Begins(u)
               /\ scopes'[u][i].begin_uid < next_uid
    <3>1. i \in 1..Len(scopes[u]) /\ scopes'[u][i] = scopes[u][i]
      BY <1>1 DEF n
    <3>2. scopes'[u][i].begin_uid \in Begins(u)
      BY <1>4, <2>1, <3>1 DEF Names
    <3> QED BY <1>3, <3>1, <3>2 DEF Below
  <2>2. \A i \in 1..Len(scopes'[u]) : i \in 1..(n - 1) \/ i = n
    BY <1>1
  <2>3. ASSUME NEW i \in 1..Len(scopes'[u]), scopes'[u][i].begin_uid # 0
        PROVE  scopes'[u][i].begin_uid \in Begins(u) \cup {next_uid}
    BY <1>1, <2>1, <2>2, <2>3
  <2>4. ASSUME NEW i \in 1..Len(scopes'[u]), NEW j \in 1..Len(scopes'[u]), i < j,
               scopes'[u][i].begin_uid # 0, scopes'[u][j].begin_uid # 0
        PROVE  scopes'[u][i].begin_uid < scopes'[u][j].begin_uid
    <3>1. i \in 1..(n - 1)
      BY <1>1, <2>4
    <3>2. CASE j = n
      BY <1>1, <2>1, <2>4, <3>1, <3>2
    <3>3. CASE j \in 1..(n - 1)
      BY <1>4, <2>1, <2>4, <3>1, <3>3 DEF Names
    <3> QED BY <2>2, <3>2, <3>3
  <2> QED BY <2>3, <2>4 DEF Names
<1>6. Nests(Begins(u) \cup {next_uid}, Ends(u), scopes'[u], Depth(u)')
  <2>1. ~torn[u] /\ Depth(u)' = n /\ Depth(u) = n - 1
    BY DEF Enters, n
  <2>2. Nests(Begins(u), Ends(u), scopes[u], n - 1)
    BY <2>1 DEF Bracketed
  <2> DEFINE d == n - 1
  <2>3. d \in Nat /\ d + 1 = n
    BY <1>1
  <2>4. /\ Nests(Begins(u), Ends(u), scopes[u], d)
        /\ \A i \in 1..d : scopes'[u][i] = scopes[u][i]
        /\ scopes'[u][d + 1].begin_uid = next_uid
    BY <1>1, <2>2, <2>3
  <2> HIDE DEF d
  <2>5. Nests(Begins(u) \cup {next_uid}, Ends(u), scopes'[u], d + 1)
    BY <1>2, <1>3, <2>3, <2>4, NestsBegin
  <2> QED BY <2>1, <2>3, <2>5
<1> QED BY <1>5, <1>6

\* Its END is recorded.
LEMMA BracketCloses ==
  ASSUME BalanceFacts, NEW u \in Threads, Bracketed(u), Leaves(u),
         Begins(u)' = Begins(u), Ends(u)' = Ends(u) \cup {next_uid}
  PROVE  Bracketed(u)'
<1> SUFFICES ASSUME ~torn'[u]
             PROVE  /\ Names(Begins(u), scopes'[u])
                    /\ Nests(Begins(u), Ends(u) \cup {next_uid}, scopes'[u], Depth(u)')
  BY DEF Bracketed
<1> DEFINE n == Len(scopes[u])
<1>1. /\ n \in Nat \ {0} /\ Len(scopes'[u]) = n - 1
      /\ \A i \in 1..(n - 1) : scopes'[u][i] = scopes[u][i]
  BY DepthRange DEF BalanceFacts, HeldInv, Leaves
<1>2. Numbered(Pipeline, next_uid) /\ next_uid \in Nat
  BY NumberedLog DEF BalanceFacts, HeldInv
<1>3. Below(Begins(u), next_uid) /\ Below(Ends(u), next_uid)
  BY <1>2, OfThreadBelow DEF Begins, Ends
<1>4. Names(Begins(u), scopes[u])
  BY DEF Bracketed, Leaves
<1>5. Names(Begins(u), scopes'[u])
  <2>1. \A i \in 1..Len(scopes'[u]) : i \in 1..Len(scopes[u]) /\ scopes'[u][i] = scopes[u][i]
    <3> HIDE DEF n
    <3> QED BY <1>1 DEF n
  <2> QED BY <1>4, <2>1 DEF Names
<1>6. Nests(Begins(u), Ends(u) \cup {next_uid}, scopes'[u], Depth(u)')
  <2>1. ~torn[u] /\ Depth(u)' = n - 1 /\ Depth(u) = n
    BY DEF Leaves
  <2>2. Nests(Begins(u), Ends(u), scopes[u], n)
    BY <2>1 DEF Bracketed
  <2> HIDE DEF n
  <2>3. Nests(Begins(u), Ends(u) \cup {next_uid}, scopes'[u], n - 1)
    BY <1>1, <1>2, <1>3, <2>2, NestsEnd
  <2> QED BY <2>1, <2>3
<1> QED BY <1>5, <1>6

\* Its BEGIN is erased.
LEMMA BracketErased ==
  ASSUME BalanceFacts, NEW u \in Threads, Bracketed(u), Leaves(u),
         Inner(u).begin_uid # 0,
         Begins(u)' = Begins(u) \ {Inner(u).begin_uid}, Ends(u)' = Ends(u)
  PROVE  Bracketed(u)'
<1> DEFINE n == Len(scopes[u])
           x == Inner(u).begin_uid
<1> SUFFICES ASSUME ~torn'[u]
             PROVE  /\ Names(Begins(u) \ {x}, scopes'[u])
                    /\ Nests(Begins(u) \ {x}, Ends(u), scopes'[u], Depth(u)')
  BY DEF Bracketed
<1>1. /\ n \in Nat \ {0} /\ Len(scopes'[u]) = n - 1
      /\ \A i \in 1..(n - 1) : scopes'[u][i] = scopes[u][i]
  BY DepthRange DEF BalanceFacts, HeldInv, Leaves
<1>2. Numbered(Pipeline, next_uid) /\ next_uid \in Nat
  BY NumberedLog DEF BalanceFacts, HeldInv
<1>3. Below(Begins(u), next_uid) /\ Below(Ends(u), next_uid)
  BY <1>2, OfThreadBelow DEF Begins, Ends
<1>4. Names(Begins(u), scopes[u])
  BY DEF Bracketed, Leaves
<1>5. scopes[u][n].begin_uid = x /\ x # 0 /\ n \in 1..n
  <2>1. scopes[u] \in Seq(GuardStates) /\ scopes[u] # <<>>
    <3>1. scopes[u] \in Seq(GuardStates)
      BY DEF BalanceFacts, HeldInv, StackType
    <3> QED BY <1>1, <3>1, EmptySeq
  <2>2. Inner(u) = scopes[u][n]
    BY <2>1, StackPop DEF Inner
  <2> QED BY <1>1, <2>2
<1>6. x \in Begins(u) /\ x \in Nat
  BY <1>3, <1>4, <1>5 DEF Names, Below
<1> HIDE DEF n, x
<1>7. Names(Begins(u) \ {x}, scopes'[u])
  <2>1. ASSUME NEW i \in 1..Len(scopes'[u])
        PROVE  i \in 1..Len(scopes[u]) /\ scopes'[u][i] = scopes[u][i] /\ i < n /\ n \in 1..Len(scopes[u])
    BY <1>1 DEF n
  <2>2. ASSUME NEW i \in 1..Len(scopes'[u]), scopes'[u][i].begin_uid # 0
        PROVE  scopes'[u][i].begin_uid \in Begins(u) \ {x}
    <3>1. scopes[u][i].begin_uid \in Begins(u) /\ scopes[u][i].begin_uid < x
      BY <1>4, <1>5, <2>1, <2>2 DEF Names
    <3> QED BY <1>6, <2>1, <3>1
  <2>3. ASSUME NEW i \in 1..Len(scopes'[u]), NEW j \in 1..Len(scopes'[u]), i < j,
               scopes'[u][i].begin_uid # 0, scopes'[u][j].begin_uid # 0
        PROVE  scopes'[u][i].begin_uid < scopes'[u][j].begin_uid
    BY <1>4, <2>1, <2>3 DEF Names
  <2> QED BY <2>2, <2>3 DEF Names
<1>8. Nests(Begins(u) \ {x}, Ends(u), scopes'[u], Depth(u)')
  <2>1. ~torn[u] /\ Depth(u)' = n - 1 /\ Depth(u) = n
    BY DEF Leaves, n
  <2>2. Nests(Begins(u), Ends(u), scopes[u], n)
    BY <2>1 DEF Bracketed
  <2>3. Nests(Begins(u) \ {x}, Ends(u), scopes'[u], n - 1)
    BY <1>1, <1>2, <1>3, <1>5, <1>6, <2>2, NestsErase
  <2> QED BY <2>1, <2>3
<1> QED BY <1>7, <1>8 DEF x

\* A step changes the brackets of the thread whose event it records or
\* erases; an erasure that takes another event than the innermost BEGIN of
\* its own thread tears the threads it robs.
LEMMA BracketsStep ==
  ASSUME BalanceFacts, \A t \in Threads : Bracketed(t), Move, [ScopedNext]_allVars
  PROVE  \A t \in Threads : Bracketed(t)'
<1> SUFFICES ASSUME NEW u \in Threads
             PROVE  Bracketed(u)'
  OBVIOUS
<1>1. /\ TypeOK /\ LockOwned /\ CallInProgress /\ StackType /\ Calling /\ SwitchesTypeOK
      /\ NothingLost /\ \A t \in Threads : Standing(t)
  BY DEF BalanceFacts, HeldInv
<1>2. ASSUME torn'[u]
      PROVE  Bracketed(u)'
  BY <1>2 DEF Bracketed
<1>3. Bracketed(u)
  OBVIOUS
<1>4. Remains(u) \/ Enters(u) \/ Leaves(u)
  BY <1>1, ThreadSteps
<1>5. Pipeline \in Seq(Events) /\ Numbered(Pipeline, next_uid) /\ next_uid \in Nat
  BY <1>1, NumberedLog
\* Two threads do not record or erase in one step.
<1>6. ASSUME NEW t \in Threads, pc[t] = "add_body", t # u
      PROVE  Remains(u)
  <2>1. pc[u] # "add_body"
    BY <1>1, <1>6, MutualExclusion
  <2>2. ~Enters(u) /\ ~Leaves(u)
    BY <2>1 DEF Enters, Leaves, BeginRecorded, EndRecorded, EndDiscarded, PairErased,
                AddRecord, AddDiscard, AddEraseBegin
  <2> QED BY <1>4, <2>2
\* Only END has the index of a BEGIN.
<1>7. ASSUME NEW t \in Threads, pc[t] = "add_body", HasBegin(t)
      PROVE  /\ scopes[t] # <<>> /\ call[t].phase = "END"
             /\ Inner(t) = scopes[t][Len(scopes[t])] /\ Len(scopes[t]) \in 1..Len(scopes[t])
             /\ Inner(t).begin_uid # 0
  <2>1. scopes[t] # <<>> /\ call[t] = EndCall(Inner(t))
    BY <1>1, <1>7, CallFacts
  <2>2. /\ Len(scopes[t]) \in Nat /\ Len(scopes[t]) >= 1
        /\ Inner(t) = scopes[t][Len(scopes[t])] /\ Inner(t) \in GuardStates
    BY <1>1, <2>1, StackPop DEF Inner, StackType
  <2>3. /\ call[t].phase = "END" /\ Inner(t).begin_id # EVENT_ID_NONE
    BY <1>7, <2>1 DEF EndCall, HasBegin, EVENT_ID_NONE
  <2>4. Inner(t).begin_uid # 0
    BY <2>2, <2>3 DEF GuardStates
  <2> QED BY <2>1, <2>2, <2>3, <2>4
<1>8. ASSUME NEW t \in Threads, BeginRecorded(t) \/ EndRecorded(t) \/ InstantRecorded(t)
      PROVE  Bracketed(u)'
  <2>1. AddRecord(t) /\ pc[t] = "add_body"
    BY <1>8 DEF BeginRecorded, EndRecorded, InstantRecorded, AddRecord
  <2>2. PICK es \in Seq(Events) :
          /\ Len(es) = 1 /\ Pipeline' = Pipeline \o es
          /\ es[1].uid = next_uid /\ es[1].thread = t /\ es[1].phase = call[t].phase
    BY <1>1, <2>1, RecordMoves
  <2>3. ASSUME NEW phase
        PROVE  OfThread(Pipeline', u, phase) =
                 OfThread(Pipeline, u, phase) \cup
                   (IF t = u /\ call[t].phase = phase THEN {next_uid} ELSE {})
    BY <1>5, <2>2, OfThreadGrows
  <2>4. CASE t # u
    <3>1. Begins(u)' = Begins(u) /\ Ends(u)' = Ends(u)
      BY <2>3, <2>4 DEF Begins, Ends
    <3>2. Remains(u)
      BY <1>6, <2>1, <2>4
    <3> QED BY <1>3, <3>1, <3>2, BracketsRemain
  <2>5. CASE t = u /\ BeginRecorded(t)
    <3>1. Enters(u)
      BY <1>1, <2>5, ScopeBegun
    <3>2. Begins(u)' = Begins(u) \cup {next_uid} /\ Ends(u)' = Ends(u)
      BY <2>3, <2>5 DEF Begins, Ends, BeginRecorded
    <3> QED BY <1>3, <3>1, <3>2, BracketOpens
  <2>6. CASE t = u /\ EndRecorded(t)
    <3>1. Leaves(u)
      BY <1>1, <2>6, ScopeLeft
    <3>2. Begins(u)' = Begins(u) /\ Ends(u)' = Ends(u) \cup {next_uid}
      BY <2>3, <2>6 DEF Begins, Ends, EndRecorded
    <3> QED BY <1>3, <3>1, <3>2, BracketCloses
  <2>7. CASE t = u /\ InstantRecorded(t)
    <3>1. call[u].phase = "INSTANT" /\ pc[u] = "add_body"
      BY <2>1, <2>7 DEF InstantRecorded
    <3>2. ~HasBegin(u)
      BY <1>7, <3>1
    <3>3. ~Enters(u) /\ ~Leaves(u)
      BY <3>1, <3>2 DEF Enters, Leaves, BeginRecorded, EndRecorded, EndDiscarded, PairErased,
                        AddDiscard, AddEraseBegin
    <3>4. Begins(u)' = Begins(u) /\ Ends(u)' = Ends(u)
      BY <2>3, <3>1 DEF Begins, Ends
    <3> QED BY <1>3, <1>4, <3>3, <3>4, BracketsRemain
  <2> QED BY <1>8, <2>4, <2>5, <2>6, <2>7
<1>9. ASSUME NEW t \in Threads, PairErased(t), ~torn'[u]
      PROVE  Bracketed(u)'
  <2> DEFINE x == BeginEvent(t).uid
  <2>1. /\ AddEraseBegin(t) /\ pc[t] = "add_body" /\ HasBegin(t)
        /\ u \notin Bereft(t) /\ ~torn[u]
    BY <1>9 DEF PairErased, AddEraseBegin, Tear
  <2>2. PICK k \in 1..Len(Pipeline) :
          Pipeline' = RemoveAt(Pipeline, k) /\ Pipeline[k] = BeginEvent(t)
    BY <1>1, <2>1, EraseMoves
  <2>3. x \in OfThread(Pipeline, BeginEvent(t).thread, BeginEvent(t).phase)
    BY <2>2 DEF OfThread
  <2> HIDE DEF x
  <2>4. ASSUME NEW phase
        PROVE  OfThread(Pipeline', u, phase) = OfThread(Pipeline, u, phase) \ {x}
    BY <1>5, <2>2, OfThreadLoses DEF x
  <2>5. CASE t # u
    <3>1. ASSUME NEW phase \in {"BEGIN", "END"}
          PROVE  x \notin OfThread(Pipeline, u, phase)
      <4>1. ~(BeginEvent(t).thread = u /\ BeginEvent(t).phase = phase)
        BY <2>1, <2>5 DEF Bereft
      <4> QED BY <1>5, <2>3, <4>1, OfThreadOnce
    <3>2. Begins(u)' = Begins(u) /\ Ends(u)' = Ends(u)
      BY <2>4, <3>1 DEF Begins, Ends
    <3> QED BY <1>3, <1>6, <2>1, <2>5, <3>2, BracketsRemain
  <2>6. CASE t = u
    <3>1. x = Inner(u).begin_uid /\ x # 0
      BY <1>7, <2>1, <2>6 DEF Bereft, x
    <3>2. x \in Begins(u)
      BY <1>3, <1>7, <2>1, <2>6, <3>1 DEF Bracketed, Names
    <3>3. x \notin Ends(u)
      BY <1>5, <3>2, OfThreadOnce DEF Begins, Ends
    <3>4. Begins(u)' = Begins(u) \ {x} /\ Ends(u)' = Ends(u)
      BY <2>4, <3>3 DEF Begins, Ends
    <3>5. Leaves(u)
      BY <1>1, <1>9, <2>6, ScopeLeft
    <3> QED BY <1>3, <3>1, <3>4, <3>5, BracketErased
  <2> QED BY <2>5, <2>6
<1>10. ASSUME UNCHANGED <<next_uid, withdrawn>>
       PROVE  Bracketed(u)'
  <2>1. Pipeline' = Pipeline
    BY <1>1, <1>10, OtherMoves
  <2>2. Begins(u)' = Begins(u) /\ Ends(u)' = Ends(u)
    BY <2>1 DEF Begins, Ends
  <2>3. next_uid' = next_uid /\ next_uid \in Nat
    BY <1>5, <1>10
  <2>4. ~Enters(u) /\ ~EndRecorded(u)
    BY <2>3 DEF Enters, BeginRecorded, EndRecorded, AddRecord
  <2>5. EndDiscarded(u) => torn'[u]
    BY DEF EndDiscarded, Tear
  <2>6. CASE PairErased(u) \/ EndDiscarded(u)
    BY <1>2, <1>9, <2>5, <2>6
  <2>7. CASE ~PairErased(u) /\ ~EndDiscarded(u)
    <3>1. Remains(u)
      BY <1>4, <2>4, <2>7 DEF Leaves
    <3> QED BY <1>3, <2>2, <3>1, BracketsRemain
  <2> QED BY <2>6, <2>7
<1> QED BY <1>2, <1>8, <1>9, <1>10, LogSteps

-----------------------------------------------------------------------------
(* The theorem                                                             *)

\* Counting the events of a thread in a prefix of the trace.
LEMMA CountPrefix ==
  ASSUME TypeOK, NothingLost, NEW t, NEW phase, NEW n \in 1..Len(Pipeline)
  PROVE  Count(t, phase, SubSeq(Pipeline, 1, n))
           = UpTo(OfThread(Pipeline, t, phase), Pipeline[n].uid)
<1> DEFINE s == Pipeline
           p == SubSeq(s, 1, n)
<1>1. s \in Seq(Events) /\ Len(s) \in Nat /\ Numbered(s, next_uid) /\ next_uid \in Nat
  BY NumberedLog, LenProperties
<1> HIDE DEF s
<1>2. n \in Nat /\ n <= Len(s) /\ n # 0 /\ 1 \in Nat
  BY <1>1 DEF s
<1>3. Len(p) = n /\ \A i \in 1..n : p[i] = s[i]
  <2>1. \A i \in 1..n : s[i] \in Events /\ 1 + i - 1 = i
    <3> TAKE i \in 1..n
    <3>1. i \in 1..Len(s)
      BY <1>1, <1>2
    <3> QED BY <1>1, <3>1, ElementOfSeq
  <2>2. /\ Len(p) = IF 1 <= n THEN n - 1 + 1 ELSE 0
        /\ \A i \in 1..(n - 1 + 1) : p[i] = s[1 + i - 1]
    BY <1>1, <1>2, <2>1, SubSeqProperties
  <2> HIDE DEF p
  <2> QED BY <1>2, <2>1, <2>2
<1> HIDE DEF p
<1>4. {i \in 1..Len(p) : p[i].thread = t /\ p[i].phase = phase}
        = {i \in 1..n : s[i].thread = t /\ s[i].phase = phase}
  BY <1>3
<1>5. Cardinality({i \in 1..n : s[i].thread = t /\ s[i].phase = phase})
        = IF n = 0 THEN 0 ELSE UpTo(OfThread(s, t, phase), s[n].uid)
  BY <1>1, <1>2, CountIs
<1>6. Count(t, phase, p) = UpTo(OfThread(s, t, phase), s[n].uid)
  BY <1>2, <1>4, <1>5 DEF Count
<1> QED BY <1>6 DEF s, p

\* Counting them in the trace.
LEMMA CountWhole ==
  ASSUME TypeOK, NothingLost, NEW t, NEW phase
  PROVE  Count(t, phase, Pipeline) = Cardinality(OfThread(Pipeline, t, phase))
<1> DEFINE s == Pipeline
           S == OfThread(s, t, phase)
           n == Len(s)
<1>1. s \in Seq(Events) /\ n \in Nat /\ Numbered(s, next_uid) /\ next_uid \in Nat
  BY NumberedLog, LenProperties
<1> HIDE DEF s
<1>2. Cardinality({i \in 1..n : s[i].thread = t /\ s[i].phase = phase})
        = IF n = 0 THEN 0 ELSE UpTo(S, s[n].uid)
  BY <1>1, CountIs
<1>3. CASE n = 0
  <2>1. S = {}
    BY <1>3 DEF OfThread
  <2> QED BY <1>2, <1>3, <2>1, FS_EmptySet DEF Count, s
<1>4. CASE n # 0
  <2>1. ASSUME NEW x \in S
        PROVE  x <= s[n].uid
    <3>1. PICK i \in 1..n : x = s[i].uid
      BY DEF OfThread
    <3>2. n \in 1..n /\ (i = n \/ i < n) /\ s[i].uid \in Nat /\ s[n].uid \in Nat
      BY <1>1, <1>4 DEF Numbered
    <3>3. i < n => s[i].uid < s[n].uid
      BY <1>1, <3>2 DEF Numbered
    <3> QED BY <3>1, <3>2, <3>3
  <2>2. {x \in S : x <= s[n].uid} = S
    BY <2>1
  <2> QED BY <1>2, <1>4, <2>2 DEF Count, UpTo, s
<1> QED BY <1>3, <1>4

\* A thread that has left its scopes has no open brackets.
LEMMA ClosedBalanced ==
  ASSUME TypeOK, StackType, Calling, NothingLost,
         NEW t \in Threads, Bracketed(t), scopes[t] = <<>>, ~torn[t]
  PROVE  Balanced(t, Pipeline)
<1>1. Depth(t) = 0
  <2>1. Len(scopes[t]) = 0 /\ ~Beginning(t)
    BY DepthRange, EmptySeq
  <2> QED BY <2>1 DEF Depth
<1>2. Nests(Begins(t), Ends(t), scopes[t], 0)
  BY <1>1 DEF Bracketed
<1>3. Numbered(Pipeline, next_uid) /\ next_uid \in Nat
  BY NumberedLog
<1>4. Cardinality(Begins(t)) \in Nat /\ Cardinality(Ends(t)) \in Nat
  <2>1. Below(Begins(t), next_uid) /\ Below(Ends(t), next_uid)
    BY <1>3, OfThreadBelow DEF Begins, Ends
  <2> QED BY <2>1, FS_CardinalityType DEF Below
<1>5. Count(t, "BEGIN", Pipeline) = Count(t, "END", Pipeline)
  <2>1. Cardinality(Begins(t)) = Cardinality(Ends(t))
    BY <1>2, <1>4 DEF Nests
  <2> QED BY <2>1, CountWhole DEF Begins, Ends
<1>6. ASSUME NEW n \in 1..Len(Pipeline)
      PROVE  Count(t, "END", SubSeq(Pipeline, 1, n)) <= Count(t, "BEGIN", SubSeq(Pipeline, 1, n))
  <2>1. Pipeline[n].uid \in Nat
    BY <1>3 DEF Numbered
  <2>2. UpTo(Ends(t), Pipeline[n].uid) <= UpTo(Begins(t), Pipeline[n].uid)
    BY <1>2, <2>1 DEF Nests
  <2> QED BY <2>2, CountPrefix DEF Begins, Ends
<1> QED BY <1>5, <1>6 DEF Balanced

\* The inductive invariant: the guards stand as they should, and those of a
\* thread that is not torn name the open brackets of its events.
BalanceInv ==
  \A t \in Threads : Standing(t) /\ Bracketed(t)

\* It holds before any scope is opened.
LEMMA BalanceInit ==
  ASSUME ScopedInit
  PROVE  BalanceInv
<1>1. Pipeline = <<>> /\ Len(<<>>) = 0
  BY EmptyAtFirst DEF ScopedInit
<1>2. /\ category_enabled = TRUE
      /\ \A t \in Threads : /\ scopes[t] = <<>> /\ Len(scopes[t]) = 0
                           /\ pc[t] = "idle" /\ due[t] = NoCall
  BY EmptySeq DEF ScopedInit, Init
<1>3. ASSUME NEW t \in Threads
      PROVE  Depth(t) = 0 /\ Standing(t)
  <2>1. ~Beginning(t) /\ ~Ending(t)
    BY <1>2 DEF Beginning, Ending, Making, Within, NoCall
  <2> QED BY <1>2, <2>1 DEF Depth, Standing
<1>4. ASSUME NEW t, NEW phase
      PROVE  OfThread(Pipeline, t, phase) = {}
  BY <1>1 DEF OfThread
<1>5. ASSUME NEW m
      PROVE  UpTo({}, m) = 0
  <2>1. {x \in {} : x <= m} = {}
    OBVIOUS
  <2> QED BY <2>1, FS_EmptySet DEF UpTo
<1>6. ASSUME NEW t \in Threads
      PROVE  Bracketed(t)
  <2>1. Begins(t) = {} /\ Ends(t) = {} /\ Cardinality({}) = 0
    BY <1>4, FS_EmptySet DEF Begins, Ends
  <2>2. Names({}, scopes[t])
    BY <1>2 DEF Names
  <2>3. Nests({}, {}, scopes[t], 0)
    BY <1>5, <2>1 DEF Nests
  <2> QED BY <1>3, <2>1, <2>2, <2>3 DEF Bracketed
<1> QED BY <1>3, <1>6 DEF BalanceInv

\* Every step keeps it.
LEMMA BalanceStep ==
  ASSUME BalanceInv, HeldInv, NothingLost, SwitchesTypeOK, Move, [ScopedNext]_allVars
  PROVE  BalanceInv'
<1>1. BalanceFacts
  BY DEF BalanceFacts, BalanceInv
<1>2. \A t \in Threads : Standing(t)'
  BY ThreadSteps DEF BalanceInv, HeldInv
<1>3. \A t \in Threads : Bracketed(t)'
  BY <1>1, BracketsStep DEF BalanceInv
<1> QED BY <1>2, <1>3 DEF BalanceInv

\* If one thread flushes, the BEGIN and END events of a thread that has left
\* its scopes are balanced in the trace, for any number of threads, scopes
\* and thresholds and any buffer and batch sizes, unless one of its scopes
\* was broken up: by a switch of the category, by a full buffer, by an END
\* discarded after a flush, or by an erasure with an outdated index.
THEOREM BalanceCorrect ==
  ASSUME AnyBeginId, OneController
  PROVE  ScopedSpec => []TraceBalanced
<1>1. ScopedSpec => []HeldInv
  <2>1. ScopedInit => HeldInv
    BY HeldInit
  <2>2. HeldInv /\ [ScopedNext]_allVars => HeldInv'
    BY HeldStep
  <2> QED BY <2>1, <2>2, PTL DEF ScopedSpec
<1>2. ScopedSpec => Spec
  <2>1. ScopedInit => Init
    BY DEF ScopedInit
  <2>2. HeldInv /\ [ScopedNext]_allVars => [Next]_vars
    BY ScopesUseLog DEF HeldInv
  <2> QED BY <1>1, <2>1, <2>2, PTL DEF ScopedSpec, Spec
<1>3. ScopedSpec => []SwitchesTypeOK
  <2>1. ScopesTypeOK => SwitchesTypeOK
    BY DEF ScopesTypeOK, SwitchesTypeOK
  <2> QED BY <2>1, ScopesTypeCorrect, PTL
<1>4. ScopedInit => BalanceInv
  BY BalanceInit
<1>5. /\ BalanceInv /\ HeldInv /\ NothingLost /\ SwitchesTypeOK
      /\ [FlushInv /\ Move /\ Clocked]_vars /\ [ScopedNext]_allVars
      => BalanceInv'
  <2>1. UNCHANGED vars => Move
    BY Stutter DEF Move
  <2> QED BY <2>1, BalanceStep
<1>6. BalanceInv /\ HeldInv /\ NothingLost => TraceBalanced
  BY ClosedBalanced DEF BalanceInv, HeldInv, TraceBalanced
<1> QED BY <1>1, <1>2, <1>3, <1>4, <1>5, <1>6, Moving, NothingLostCorrect, PTL DEF ScopedSpec

=============================================================================
