--------------------------- MODULE PipelineProofs ---------------------------
(***************************************************************************)
(* What TraceLog promises of the events on their way from the callers to   *)
(* the output callback, if a single thread flushes: they stay in time      *)
(* order, none is lost or delivered twice, and the log implements the      *)
(* channel of EventChannel.                                                *)
(*                                                                         *)
(* All three rest on one lemma, Moves: a step leaves the pipeline alone,   *)
(* appends to its open end, takes one open event out, commits what is      *)
(* open, or delivers what was committed first.                             *)
(***************************************************************************)
EXTENDS TraceLogProofs

USE TraceLogAssumption

\* A single thread flushes: what the three theorems assume.
OneController == \A c, d \in Controllers : c = d

-----------------------------------------------------------------------------
(* Sequences                                                               *)

\* An element of the second of two sequences, taken out of both.
LEMMA RemoveFromConcat ==
  ASSUME NEW S, NEW s \in Seq(S), NEW t \in Seq(S), NEW i \in 1..Len(t)
  PROVE  /\ Len(s) + i \in 1..Len(s \o t)
         /\ (s \o t)[Len(s) + i] = t[i]
         /\ s \o RemoveAt(t, i) = RemoveAt(s \o t, Len(s) + i)
<1> DEFINE m == Len(s)
           n == Len(t)
           u == s \o t
           r == RemoveAt(t, i)
           v == s \o r
           w == RemoveAt(u, m + i)
<1>1. m \in Nat /\ n \in Nat /\ i \in Nat /\ i >= 1 /\ i <= n
  BY LenProperties
<1>2. /\ u \in Seq(S) /\ Len(u) = m + n
      /\ \A j \in 1..(m + n) : u[j] = IF j <= m THEN s[j] ELSE t[j - m]
  BY ConcatProperties
<1>3. /\ r \in Seq(S) /\ Len(r) = n - 1
      /\ \A j \in 1..(n - 1) : r[j] = IF j < i THEN t[j] ELSE t[j + 1]
  BY RemoveAtProperties
<1>4. m + i \in 1..Len(u)
  BY <1>1, <1>2
<1>5. /\ v \in Seq(S) /\ Len(v) = m + n - 1
      /\ \A j \in 1..(m + n - 1) : v[j] = IF j <= m THEN s[j] ELSE r[j - m]
  <2>1. /\ v \in Seq(S) /\ Len(v) = Len(s) + Len(r)
        /\ \A j \in 1..(Len(s) + Len(r)) : v[j] = IF j <= Len(s) THEN s[j] ELSE r[j - Len(s)]
    <3> HIDE DEF r
    <3> QED BY <1>3, ConcatProperties
  <2>2. Len(s) = m /\ Len(s) + Len(r) = m + n - 1
    <3> HIDE DEF r
    <3> QED BY <1>1, <1>3
  <2> HIDE DEF v, m, n, r
  <2> QED BY <2>1, <2>2
<1>6. /\ w \in Seq(S) /\ Len(w) = m + n - 1
      /\ \A j \in 1..(m + n - 1) : w[j] = IF j < m + i THEN u[j] ELSE u[j + 1]
  <2>1. /\ w \in Seq(S) /\ Len(w) = Len(u) - 1
        /\ \A j \in 1..(Len(u) - 1) : w[j] = IF j < m + i THEN u[j] ELSE u[j + 1]
    <3> HIDE DEF u, m, n
    <3> QED BY <1>2, <1>4, RemoveAtProperties
  <2>2. Len(u) - 1 = m + n - 1
    <3> HIDE DEF u, m, n
    <3> QED BY <1>1, <1>2
  <2> HIDE DEF u, m, n, w
  <2> QED BY <2>1, <2>2
<1> HIDE DEF m, n, u, r, v, w
<1>7. ASSUME NEW j \in 1..Len(v)
      PROVE  v[j] = w[j]
  <2>1. j \in 1..(m + n - 1) /\ j \in 1..(m + n) /\ j + 1 \in 1..(m + n)
    BY <1>1, <1>5
  <2>2. CASE j <= m
    <3>1. v[j] = s[j] /\ u[j] = s[j] /\ j < m + i
      BY <1>1, <1>2, <1>5, <2>1, <2>2
    <3> QED BY <1>6, <2>1, <3>1
  <2>3. CASE ~(j <= m) /\ j < m + i
    <3>1. j - m \in 1..(n - 1) /\ j - m < i
      BY <1>1, <2>1, <2>3
    <3>2. v[j] = r[j - m] /\ u[j] = t[j - m] /\ w[j] = u[j]
      BY <1>2, <1>5, <1>6, <2>1, <2>3
    <3>3. r[j - m] = t[j - m]
      BY <1>3, <3>1
    <3> QED BY <3>2, <3>3
  <2>4. CASE ~(j < m + i)
    <3>1. j - m \in 1..(n - 1) /\ ~(j - m < i) /\ ~(j <= m) /\ ~(j + 1 <= m)
          /\ j - m + 1 = j + 1 - m
      BY <1>1, <2>1, <2>4
    <3>2. v[j] = r[j - m] /\ w[j] = u[j + 1]
      BY <1>5, <1>6, <2>1, <2>4, <3>1
    <3>3. u[j + 1] = t[j + 1 - m]
      BY <1>1, <1>2, <2>1, <3>1, SMTT(30)
    <3>4. r[j - m] = t[j - m + 1]
      BY <1>3, <3>1
    <3> QED BY <3>1, <3>2, <3>3, <3>4
  <2> QED BY <1>1, <2>1, <2>2, <2>3, <2>4
<1>8. v = w
  BY <1>5, <1>6, <1>7, SeqEqual
<1>9. u[m + i] = t[i]
  <2>1. m + i \in 1..(m + n) /\ ~(m + i <= m) /\ m + i - m = i
    BY <1>1
  <2>2. u[m + i] = t[m + i - m]
    BY <1>1, <1>2, <2>1
  <2> QED BY <2>1, <2>2
<1> QED BY <1>4, <1>8, <1>9 DEF u, v, w, m, r

\* The first part of a sequence in two parts, and the rest.
LEMMA SplitConcat ==
  ASSUME NEW S, NEW s \in Seq(S), NEW t \in Seq(S), s # <<>>
  PROVE  /\ Len(s) \in 1..Len(s \o t)
         /\ SubSeq(s \o t, 1, Len(s)) = s
         /\ SubSeq(s \o t, Len(s) + 1, Len(s \o t)) = t
<1>1. Len(s) \in Nat /\ Len(s) >= 1 /\ Len(t) \in Nat /\ Len(s \o t) = Len(s) + Len(t)
  BY LenProperties, EmptySeq, ConcatProperties
<1>2. SubSeq(s \o t, 1, Len(s)) = s
  <2>1. SubSeq(s \o t, 1, Len(s)) = SubSeq(s, 1, Len(s))
    BY <1>1, SubSeqOfConcat1
  <2> QED BY <2>1, SubSeqFull
<1>3. SubSeq(s \o t, Len(s) + 1, Len(s \o t)) = t
  <2>1. CASE t = <<>>
    <3>1. Len(t) = 0
      BY <2>1, EmptySeq
    <3> QED BY <1>1, <2>1, <3>1, SubSeqEmpty
  <2>2. CASE t # <<>>
    <3>1. Len(t) >= 1
      BY <2>2, EmptySeq
    <3>2. Len(s) + 1 \in (Len(s) + 1)..(Len(s) + Len(t))
          /\ Len(s \o t) \in (Len(s) + 1)..(Len(s) + Len(t))
          /\ Len(s) + 1 - Len(s) = 1 /\ Len(s \o t) - Len(s) = Len(t)
      BY <1>1, <3>1
    <3>3. SubSeq(s \o t, Len(s) + 1, Len(s \o t)) = SubSeq(t, 1, Len(t))
      <4>1. SubSeq(s \o t, Len(s) + 1, Len(s \o t))
              = SubSeq(t, Len(s) + 1 - Len(s), Len(s \o t) - Len(s))
        BY <3>2, SubSeqOfConcat2
      <4> QED BY <3>2, <4>1
    <3> QED BY <3>3, SubSeqFull
  <2> QED BY <2>1, <2>2
<1> QED BY <1>1, <1>2, <1>3

\* An element that is the only one of its set is the one chosen from it.
LEMMA ChooseOnly ==
  ASSUME NEW S, NEW t \in S, \A u \in S : u = t
  PROVE  (CHOOSE u \in S : TRUE) = t
OBVIOUS

\* The names of a sequence of events.
LEMMA UidsProperties ==
  ASSUME NEW s \in Seq(Events)
  PROVE  /\ Uids(s) \in Seq(Nat)
         /\ Len(Uids(s)) = Len(s) /\ Len(s) \in Nat
         /\ \A i \in 1..Len(s) : Uids(s)[i] = s[i].uid
<1>1. Len(s) \in Nat
  BY LenProperties
<1>2. ASSUME NEW i \in 1..Len(s)
      PROVE  s[i].uid \in Nat
  <2>1. s[i] \in Events
    BY ElementOfSeq
  <2> QED BY <2>1 DEF Events
<1>3. [i \in 1..Len(s) |-> s[i].uid] \in [1..Len(s) -> Nat]
  BY <1>2
<1>4. Uids(s) \in Seq(Nat) /\ Len(Uids(s)) = Len(s)
  BY <1>1, <1>3, SeqDef, LenProperties DEF Uids
<1> QED BY <1>1, <1>4 DEF Uids

\* The names of two sequences in one.
LEMMA UidsConcat ==
  ASSUME NEW s \in Seq(Events), NEW t \in Seq(Events)
  PROVE  Uids(s \o t) = Uids(s) \o Uids(t)
<1> DEFINE u == s \o t
           a == Uids(s)
           b == Uids(t)
           c == a \o b
           d == Uids(u)
<1>1. /\ a \in Seq(Nat) /\ Len(a) = Len(s) /\ Len(s) \in Nat
      /\ \A i \in 1..Len(s) : a[i] = s[i].uid
  BY UidsProperties
<1>2. /\ b \in Seq(Nat) /\ Len(b) = Len(t) /\ Len(t) \in Nat
      /\ \A i \in 1..Len(t) : b[i] = t[i].uid
  BY UidsProperties
<1>3. /\ u \in Seq(Events) /\ Len(u) = Len(s) + Len(t)
      /\ \A i \in 1..(Len(s) + Len(t)) : u[i] = IF i <= Len(s) THEN s[i] ELSE t[i - Len(s)]
  BY ConcatProperties
<1>4. /\ d \in Seq(Nat) /\ Len(d) = Len(u)
      /\ \A i \in 1..Len(u) : d[i] = u[i].uid
  <2> HIDE DEF u
  <2> QED BY <1>3, UidsProperties
<1> HIDE DEF a, b
<1>5. /\ c \in Seq(Nat) /\ Len(c) = Len(a) + Len(b)
      /\ \A i \in 1..(Len(a) + Len(b)) : c[i] = IF i <= Len(a) THEN a[i] ELSE b[i - Len(a)]
  <2> HIDE DEF u, d, c
  <2>1. a \in Seq(Nat) /\ b \in Seq(Nat)
    BY <1>1, <1>2
  <2>2. /\ a \o b \in Seq(Nat) /\ Len(a \o b) = Len(a) + Len(b)
        /\ \A i \in 1..(Len(a) + Len(b)) :
             (a \o b)[i] = IF i <= Len(a) THEN a[i] ELSE b[i - Len(a)]
    BY <2>1, ConcatProperties
  <2>3. c = a \o b
    BY DEF c
  <2> QED BY <2>2, <2>3
<1> HIDE DEF u, c, d
<1>6. ASSUME NEW i \in 1..Len(d)
      PROVE  d[i] = c[i]
  <2>1. i \in 1..Len(u) /\ i \in 1..(Len(s) + Len(t)) /\ i \in 1..(Len(a) + Len(b))
    BY <1>1, <1>2, <1>3, <1>4
  <2>2. d[i] = u[i].uid
    BY <1>4, <2>1
  <2>3. CASE i <= Len(s)
    <3>1. u[i] = s[i] /\ c[i] = a[i] /\ i \in 1..Len(s)
      BY <1>1, <1>3, <1>5, <2>1, <2>3
    <3> QED BY <1>1, <2>2, <3>1
  <2>4. CASE ~(i <= Len(s))
    <3>1. u[i] = t[i - Len(s)] /\ c[i] = b[i - Len(s)]
      BY <1>1, <1>3, <1>5, <2>1, <2>4
    <3>2. i - Len(s) \in 1..Len(t)
      BY <1>1, <1>2, <2>1, <2>4
    <3>3. b[i - Len(s)] = t[i - Len(s)].uid
      BY <1>2, <3>2
    <3> QED BY <2>2, <3>1, <3>3
  <2> QED BY <2>3, <2>4
<1>7. Len(d) = Len(c)
  BY <1>1, <1>2, <1>3, <1>4, <1>5
<1> QED BY <1>4, <1>5, <1>6, <1>7, SeqEqual DEF u, a, b, c, d

\* The names of one that loses an event.
LEMMA UidsRemove ==
  ASSUME NEW s \in Seq(Events), NEW i \in 1..Len(s)
  PROVE  Uids(RemoveAt(s, i)) = RemoveAt(Uids(s), i)
<1> DEFINE r == RemoveAt(s, i)
           a == Uids(s)
           b == Uids(r)
           c == RemoveAt(a, i)
<1>1. /\ a \in Seq(Nat) /\ Len(a) = Len(s) /\ Len(s) \in Nat
      /\ \A j \in 1..Len(s) : a[j] = s[j].uid
  BY UidsProperties
<1>2. /\ r \in Seq(Events) /\ Len(r) = Len(s) - 1
      /\ \A j \in 1..(Len(s) - 1) : r[j] = IF j < i THEN s[j] ELSE s[j + 1]
  BY RemoveAtProperties
<1>3. /\ b \in Seq(Nat) /\ Len(b) = Len(r)
      /\ \A j \in 1..Len(r) : b[j] = r[j].uid
  <2> HIDE DEF r
  <2> QED BY <1>2, UidsProperties
<1> HIDE DEF a
<1>4. /\ c \in Seq(Nat) /\ Len(c) = Len(a) - 1
      /\ \A j \in 1..(Len(a) - 1) : c[j] = IF j < i THEN a[j] ELSE a[j + 1]
  <2>1. i \in 1..Len(a)
    BY <1>1
  <2> QED BY <1>1, <2>1, RemoveAtProperties
<1> HIDE DEF r, b, c
<1>5. ASSUME NEW j \in 1..Len(b)
      PROVE  b[j] = c[j]
  <2>1. j \in 1..Len(r) /\ j \in 1..(Len(s) - 1) /\ j \in 1..(Len(a) - 1)
        /\ j \in 1..Len(s) /\ j + 1 \in 1..Len(s)
    BY <1>1, <1>2, <1>3
  <2>2. b[j] = r[j].uid /\ a[j] = s[j].uid /\ a[j + 1] = s[j + 1].uid
    BY <1>1, <1>3, <2>1
  <2>3. CASE j < i
    <3>1. r[j] = s[j] /\ c[j] = a[j]
      BY <1>2, <1>4, <2>1, <2>3
    <3> QED BY <2>2, <3>1
  <2>4. CASE ~(j < i)
    <3>1. r[j] = s[j + 1] /\ c[j] = a[j + 1]
      BY <1>2, <1>4, <2>1, <2>4
    <3> QED BY <2>2, <3>1
  <2> QED BY <2>3, <2>4
<1>6. Len(b) = Len(c)
  BY <1>1, <1>2, <1>3, <1>4
<1> QED BY <1>3, <1>4, <1>5, <1>6, SeqEqual DEF r, a, b, c

-----------------------------------------------------------------------------
(* The pipeline                                                            *)

\* Only in the loop is the index of the next batch other than 0.
CursorReset == \A t \in Threads : pc[t] # "flush_loop" => cursor[t] = 0

\* Every step keeps it.
LEMMA CursorStep ==
  ASSUME TypeOK, CursorReset, [Next]_vars
  PROVE  CursorReset'
<1> USE DEF CursorReset
<1>1. pc \in [Threads -> Places] /\ cursor \in [Threads -> Nat]
  BY DEF TypeOK
<1>2. ASSUME NEW t \in Threads, AddLock(t) \/ FlushSwap(t) \/ FlushClear(t) \/ WriteHeader(t)
      PROVE  CursorReset'
  BY <1>1, <1>2 DEF AddLock, FlushSwap, FlushClear, WriteHeader, Goto
<1>3. ASSUME NEW t \in Threads, AddRecord(t) \/ AddDiscard(t) \/ AddEraseBegin(t)
      PROVE  CursorReset'
  BY <1>1, <1>3 DEF AddRecord, AddDiscard, AddEraseBegin, AddReturn, Goto
<1>4. ASSUME NEW t \in Threads, FlushBatch(t) \/ FlushDone(t)
      PROVE  CursorReset'
  BY <1>1, <1>4 DEF FlushBatch, FlushDone, Goto
<1>5. ASSUME NEW t \in Threads, NEW c \in Calls, AddTraceEvent(t, c)
      PROVE  CursorReset'
  BY <1>1, <1>5 DEF AddTraceEvent, Goto
<1>6. ASSUME NEW t \in Threads, ThreadReplaced(t)
      PROVE  CursorReset'
  BY <1>6 DEF ThreadReplaced, frameVars
<1>7. ASSUME NEW t \in Threads, Control(t)
      PROVE  CursorReset'
  BY <1>1, <1>7 DEF Control, CallFlush, Enable, Disable, BeginLogging, EndLogging,
                    AddThreadNameMetadataEvents, EnterFlush, Goto, frameVars
<1>8. CASE Tick \/ UNCHANGED vars
  BY <1>8 DEF Tick, vars, frameVars
<1> QED BY <1>2, <1>3, <1>4, <1>5, <1>6, <1>7, <1>8 DEF Next, Step

\* One flush at a time: what the pipeline rests on.
FlushAlone == \A t, u \in Flushing : t = u

\* It is so if one thread alone may flush.
LEMMA AloneByOne ==
  ASSUME OneController, ControllersFlush
  PROVE  FlushAlone
BY DEF FlushAlone, Flushing, ControllersFlush, FlushPlaces, OneController

\* What is pending is what remains to be written by the one thread in Flush.
LEMMA PendingIs ==
  ASSUME FlushAlone, NEW t \in Flushing
  PROVE  Flushing = {t} /\ Pending = Remaining(t)
<1>1. \A u \in Flushing : u = t
  BY DEF FlushAlone
<1>2. (CHOOSE u \in Flushing : TRUE) = t
  BY <1>1, ChooseOnly
<1> QED BY <1>1, <1>2 DEF Pending

\* The same of the next state.
LEMMA PendingWillBe ==
  ASSUME FlushAlone', NEW t \in Flushing'
  PROVE  /\ Flushing' = {t}
         /\ Pending' = SubSeq(flush_events_', cursor'[t] + 1, Len(flush_events_'))
<1>1. \A u \in Flushing' : u = t
  BY DEF FlushAlone
<1>2. (CHOOSE u \in Flushing' : TRUE) = t
  BY <1>1, ChooseOnly
<1> QED BY <1>1, <1>2 DEF Pending, Remaining

\* It depends on the flush in progress only.
LEMMA PendingKept ==
  ASSUME Flushing' = Flushing, cursor' = cursor, flush_events_' = flush_events_
  PROVE  Pending' = Pending
BY DEF Pending, Remaining

\* What is pending and what is open are events.
LEMMA PartsType ==
  ASSUME TypeOK
  PROVE  Pending \in Seq(Events) /\ Open \in Seq(Events)
<1>1. ASSUME Flushing = {}
      PROVE  Pending \in Seq(Events)
  BY <1>1, EmptySeq DEF Pending
<1>2. ASSUME Flushing # {}
      PROVE  Pending \in Seq(Events)
  <2> DEFINE t == CHOOSE u \in Flushing : TRUE
  <2>1. t \in Flushing
    BY <1>2
  <2>2. /\ flush_events_ \in Seq(Events) /\ Len(flush_events_) \in Nat
        /\ cursor[t] \in Nat
    <3> HIDE DEF t
    <3> QED BY <2>1, LenProperties DEF TypeOK, Flushing
  <2>3. \A i \in (cursor[t] + 1)..Len(flush_events_) : flush_events_[i] \in Events
    <3> HIDE DEF t
    <3> TAKE i \in (cursor[t] + 1)..Len(flush_events_)
    <3>1. i \in 1..Len(flush_events_)
      BY <2>2
    <3> QED BY <2>2, <3>1, ElementOfSeq
  <2>4. Remaining(t) \in Seq(Events)
    <3> HIDE DEF t
    <3> QED BY <2>2, <2>3, SubSeqProperties DEF Remaining
  <2> QED BY <1>2, <2>4 DEF Pending
<1>3. Open \in Seq(Events)
  BY EmptySeq DEF TypeOK, Open
<1> QED BY <1>1, <1>2, <1>3

\* What a step may do to the events on their way.
Unmoved ==
  UNCHANGED <<output, Pending, Open, next_uid, withdrawn>>

Recorded(es, time) ==
  /\ es # <<>>
  /\ \A i \in 1..Len(es) : es[i].uid = next_uid + i - 1 /\ es[i].ts = time
  /\ time = now \/ \E t \in Threads : pc[t] = "add_body" /\ time = time_point[t]
  /\ \A t \in Threads : pc'[t] # "add_body"
  /\ Open' = Open \o es
  /\ next_uid' = next_uid + Len(es)
  /\ UNCHANGED <<output, Pending, withdrawn>>

TakenOut(i) ==
  /\ Open' = RemoveAt(Open, i)
  /\ withdrawn' = withdrawn \cup {Open[i].uid}
  /\ UNCHANGED <<output, Pending, next_uid>>

Committed ==
  /\ Pending = <<>>
  /\ Pending' = Open
  /\ Open' = <<>>
  /\ UNCHANGED <<output, next_uid, withdrawn>>

Delivered(batch, rest) ==
  /\ batch # <<>>
  /\ Pending = batch \o rest
  /\ Pending' = rest
  /\ output' = output \o batch
  /\ UNCHANGED <<Open, next_uid, withdrawn>>

Move ==
  \/ Unmoved
  \/ \E es \in Seq(Events), time \in Nat : Recorded(es, time)
  \/ \E i \in 1..Len(Open) : TakenOut(i)
  \/ Committed
  \/ \E batch, rest \in Seq(Events) : Delivered(batch, rest)

\* Every step of TraceLog does one of these.
LEMMA Moves ==
  ASSUME TypeOK, TypeOK', LockOwned, FlushAlone, FlushAlone', CursorReset, CursorReset',
         [Next]_vars
  PROVE  Move
<1>1. /\ logged_events_ \in Seq(Events) /\ flush_events_ \in Seq(Events)
      /\ Len(logged_events_) \in Nat /\ Len(flush_events_) \in Nat
      /\ pc \in [Threads -> Places] /\ cursor \in [Threads -> Nat]
      /\ time_point \in [Threads -> Nat] /\ now \in Nat /\ next_uid \in Nat \ {0}
  BY LenProperties DEF TypeOK
\* A step that moves no thread in or out of the critical places of Flush.
<1>2. ASSUME UNCHANGED <<logVars, cursor>>, Flushing' = Flushing, Swapping' <=> Swapping
      PROVE  Move
  <2>1. Pending' = Pending
    BY <1>2, PendingKept DEF logVars
  <2>2. Open' = Open
    BY <1>2 DEF Open, logVars
  <2> QED BY <1>2, <2>1, <2>2 DEF Move, Unmoved, logVars
<1>3. ASSUME NEW t \in Threads, AddLock(t) \/ WriteHeader(t)
      PROVE  Move
  BY <1>1, <1>2, <1>3 DEF AddLock, WriteHeader, Goto, Flushing, Swapping
\* A thread that returns from AddTraceEventInternal had the mutex.
<1>4. ASSUME NEW t \in Threads, pc[t] = "add_body", AddReturn(t)
      PROVE  /\ Flushing' = Flushing /\ ~Swapping /\ ~Swapping'
             /\ \A u \in Threads : pc'[u] # "add_body"
             /\ Pending' = Pending /\ output' = output
  <2>1. pc' = [pc EXCEPT ![t] = "idle"]
    BY <1>4 DEF AddReturn, Goto
  <2>2. \A u \in Threads : pc[u] \in {"add_body", "flush_clear"} => u = t
    BY <1>4, MutualExclusion
  <2>3. Flushing' = Flushing /\ ~Swapping /\ ~Swapping'
    BY <1>1, <1>4, <2>1, <2>2 DEF Flushing, Swapping
  <2>4. \A u \in Threads : pc'[u] # "add_body"
    BY <1>1, <2>1, <2>2
  <2>5. Pending' = Pending /\ output' = output
    BY <1>4, <2>3, PendingKept DEF AddReturn
  <2> QED BY <2>3, <2>4, <2>5
<1>5. ASSUME NEW t \in Threads, AddRecord(t)
      PROVE  Move
  <2> DEFINE e == NewEvent(next_uid, t, call[t].phase, time_point[t])
  <2>1. /\ pc[t] = "add_body" /\ AddReturn(t)
        /\ logged_events_' = Append(logged_events_, e)
        /\ next_uid' = next_uid + 1 /\ withdrawn' = withdrawn
    BY <1>5 DEF AddRecord
  <2>2. e.uid = next_uid /\ e.ts = time_point[t]
    BY DEF NewEvent
  <2>3. e \in Events
    <3> HIDE DEF e
    <3>1. /\ logged_events_' \in Seq(Events)
          /\ Len(logged_events_') = Len(logged_events_) + 1
          /\ logged_events_'[Len(logged_events_) + 1] = e
      <4>1. logged_events_ \in Seq(Events \cup {e})
        BY <1>1, SeqMonotonic
      <4>2. logged_events_' \in Seq(Events)
        BY DEF TypeOK
      <4> QED BY <2>1, <4>1, <4>2, AppendProperties
    <3>2. Len(logged_events_) + 1 \in 1..Len(logged_events_')
      BY <1>1, <3>1
    <3> QED BY <3>1, <3>2, ElementOfSeq
  <2> HIDE DEF e
  <2>4. <<e>> \in Seq(Events) /\ Len(<<e>>) = 1 /\ <<e>>[1] = e /\ <<e>> # <<>>
    BY <2>3
  <2>5. logged_events_' = logged_events_ \o <<e>>
    BY <1>1, <2>1, <2>3, AppendIsConcat
  <2>6. Open' = Open \o <<e>>
    BY <1>4, <2>1, <2>5 DEF Open
  <2>7. \A i \in 1..Len(<<e>>) : <<e>>[i].uid = next_uid + i - 1 /\ <<e>>[i].ts = time_point[t]
    <3> TAKE i \in 1..Len(<<e>>)
    <3>1. i = 1 /\ next_uid + i - 1 = next_uid
      BY <1>1, <2>4
    <3> QED BY <2>2, <2>4, <3>1
  <2>8. Recorded(<<e>>, time_point[t])
    BY <1>4, <2>1, <2>4, <2>6, <2>7 DEF Recorded
  <2>9. time_point[t] \in Nat
    BY <1>1
  <2> QED BY <2>4, <2>8, <2>9 DEF Move
<1>6. ASSUME NEW t \in Threads, AddDiscard(t)
      PROVE  Move
  <2>1. /\ pc[t] = "add_body" /\ AddReturn(t)
        /\ UNCHANGED <<logged_events_, next_uid, withdrawn>>
    BY <1>6 DEF AddDiscard
  <2>2. Open' = Open
    BY <1>4, <2>1 DEF Open
  <2> QED BY <1>4, <2>1, <2>2 DEF Move, Unmoved
<1>7. ASSUME NEW t \in Threads, AddEraseBegin(t)
      PROVE  Move
  <2> DEFINE i == call[t].begin_id + 1
  <2>1. /\ pc[t] = "add_body" /\ AddReturn(t) /\ next_uid' = next_uid
        /\ logged_events_' = RemoveAt(logged_events_, i)
        /\ withdrawn' = withdrawn \cup {logged_events_[i].uid}
    BY <1>7 DEF AddEraseBegin, BeginEvent
  <2>2. i \in 1..Len(logged_events_)
    BY <1>7, BeginIndex DEF AddEraseBegin
  <2> HIDE DEF i
  <2>3. Open = logged_events_ /\ Open' = logged_events_'
    BY <1>4, <2>1 DEF Open
  <2>4. TakenOut(i)
    BY <1>4, <2>1, <2>3 DEF TakenOut
  <2> QED BY <2>2, <2>3, <2>4 DEF Move
<1>8. ASSUME NEW t \in Threads, FlushSwap(t)
      PROVE  Move
  <2>1. /\ pc[t] = "flush_wait" /\ pc' = [pc EXCEPT ![t] = "flush_clear"]
        /\ flush_events_' = logged_events_
        /\ UNCHANGED <<output, next_uid, withdrawn, cursor>>
    BY <1>8 DEF FlushSwap, Goto
  <2>2. t \in Flushing' /\ \A u \in Flushing : u \in Flushing' /\ u # t
    BY <1>1, <2>1 DEF Flushing
  <2>3. Flushing = {} /\ ~Swapping
    <3>1. Flushing = {}
      BY <2>2 DEF FlushAlone
    <3> QED BY <3>1 DEF Flushing, Swapping
  <2>4. t \in Flushing' /\ Swapping'
    BY <1>1, <2>1 DEF Flushing, Swapping
  <2>5. cursor'[t] = 0
    BY <2>1 DEF CursorReset
  <2>6. Pending' = logged_events_
    <3>1. Pending' = SubSeq(flush_events_', cursor'[t] + 1, Len(flush_events_'))
      BY <2>4, PendingWillBe
    <3>2. Pending' = SubSeq(logged_events_, 1, Len(logged_events_))
      BY <2>1, <2>5, <3>1
    <3> QED BY <1>1, <3>2, SubSeqFull
  <2>7. Pending = <<>> /\ Open = logged_events_ /\ Open' = <<>>
    BY <2>3, <2>4 DEF Pending, Open
  <2> QED BY <2>1, <2>6, <2>7 DEF Move, Committed
<1>9. ASSUME NEW t \in Threads, FlushClear(t)
      PROVE  Move
  <2>1. /\ pc[t] = "flush_clear" /\ pc' = [pc EXCEPT ![t] = "flush_loop"]
        /\ logged_events_' = <<>>
        /\ UNCHANGED <<output, next_uid, withdrawn, cursor, flush_events_>>
    BY <1>9 DEF FlushClear, Goto
  <2>2. \A u \in Flushing : u = t
    BY <2>1 DEF Flushing, FlushAlone
  <2>3. Flushing' = Flushing /\ Swapping /\ ~Swapping'
    BY <1>1, <2>1, <2>2 DEF Flushing, Swapping
  <2>4. Pending' = Pending
    BY <2>1, <2>3, PendingKept
  <2>5. Open = <<>> /\ Open' = <<>>
    BY <2>1, <2>3 DEF Open
  <2> QED BY <2>1, <2>4, <2>5 DEF Move, Unmoved
<1>10. ASSUME NEW t \in Threads, FlushBatch(t)
       PROVE  Move
  <2>1. /\ pc[t] = "flush_loop" /\ pc' = pc /\ cursor[t] < Len(flush_events_)
        /\ output' = output \o Batch(cursor[t])
        /\ cursor' = [cursor EXCEPT ![t] = @ + BATCH_SZ]
        /\ UNCHANGED <<logged_events_, flush_events_, next_uid, withdrawn>>
    BY <1>10 DEF FlushBatch
  <2>2. t \in Flushing /\ t \in Flushing' /\ (Swapping' <=> Swapping)
    BY <2>1 DEF Flushing, Swapping
  <2>3. Open' = Open
    BY <2>1, <2>2 DEF Open
  <2> DEFINE c == cursor[t]
             n == Len(flush_events_)
             last == IF c + BATCH_SZ < n THEN c + BATCH_SZ ELSE n
  <2>4. c \in Nat /\ n \in Nat /\ c < n /\ BATCH_SZ \in Nat \ {0} /\ cursor'[t] = c + BATCH_SZ
    BY <1>1, <2>1
  <2>5. Batch(c) = SubSeq(flush_events_, c + 1, last)
    BY DEF Batch
  <2>6. Pending = SubSeq(flush_events_, c + 1, n)
    BY <2>2, PendingIs DEF Remaining
  <2>7. Pending' = SubSeq(flush_events_, c + BATCH_SZ + 1, n)
    <3>1. Pending' = SubSeq(flush_events_', cursor'[t] + 1, Len(flush_events_'))
      BY <2>2, PendingWillBe
    <3> HIDE DEF c
    <3> QED BY <2>1, <2>4, <3>1
  <2> HIDE DEF c, n
  <2>8. Pending' = SubSeq(flush_events_, last + 1, n)
    <3>1. CASE c + BATCH_SZ < n
      BY <2>7, <3>1
    <3>2. CASE ~(c + BATCH_SZ < n)
      <4>1. last = n /\ n < n + 1 /\ n < c + BATCH_SZ + 1
        BY <2>4, <3>2
      <4>2. SubSeq(flush_events_, last + 1, n) = <<>>
        BY <2>4, <4>1, SubSeqEmpty
      <4>3. SubSeq(flush_events_, c + BATCH_SZ + 1, n) = <<>>
        BY <2>4, <4>1, SubSeqEmpty
      <4> QED BY <2>7, <4>2, <4>3
    <3> QED BY <3>1, <3>2
  <2>9. last \in Nat /\ c + 1 <= last /\ last <= n
    BY <2>4
  <2> HIDE DEF last
  <2>10. SubSeq(flush_events_, c + 1, last) \o SubSeq(flush_events_, last + 1, n)
           = SubSeq(flush_events_, c + 1, n)
    <3>1. n = Len(flush_events_)
      BY DEF n
    <3>2. /\ c + 1 \in 1..(Len(flush_events_) + 1)
          /\ last \in ((c + 1) - 1)..Len(flush_events_)
          /\ n \in last..Len(flush_events_)
      BY <2>4, <2>9, <3>1
    <3> QED BY <1>1, <3>2, ConcatAdjacentSubSeq
  <2>11. Pending = Batch(c) \o Pending'
    BY <2>5, <2>6, <2>8, <2>10
  <2>12. Batch(c) \in Seq(Events) /\ Batch(c) # <<>>
    <3>1. \A i \in (c + 1)..last : flush_events_[i] \in Events
      <4> TAKE i \in (c + 1)..last
      <4>1. i \in 1..Len(flush_events_)
        BY <2>4, <2>9 DEF n
      <4> QED BY <1>1, <4>1, ElementOfSeq
    <3>2. c + 1 \in Int /\ last \in Int
      BY <2>4, <2>9
    <3>3. Batch(c) \in Seq(Events) /\ Len(Batch(c)) = last - (c + 1) + 1
      BY <2>5, <2>9, <3>1, <3>2, SubSeqProperties
    <3>4. Len(Batch(c)) # 0
      BY <2>4, <2>9, <3>3
    <3> QED BY <3>3, <3>4, EmptySeq
  <2>13. output' = output \o Batch(c)
    BY <2>1 DEF c
  <2>14. Delivered(Batch(c), Pending')
    BY <2>1, <2>3, <2>11, <2>12, <2>13 DEF Delivered
  <2>15. Pending' \in Seq(Events)
    <3>1. \A i \in (last + 1)..n : flush_events_[i] \in Events
      <4> TAKE i \in (last + 1)..n
      <4>1. i \in 1..Len(flush_events_)
        BY <2>4, <2>9 DEF n
      <4> QED BY <1>1, <4>1, ElementOfSeq
    <3>2. last + 1 \in Int /\ n \in Int
      BY <2>4, <2>9
    <3> QED BY <2>8, <3>1, <3>2, SubSeqProperties
  <2> QED BY <2>12, <2>14, <2>15 DEF Move
<1>11. ASSUME NEW t \in Threads, FlushDone(t)
       PROVE  Move
  <2>1. /\ pc[t] = "flush_loop" /\ cursor[t] >= Len(flush_events_)
        /\ \E place \in {"header", "idle"} : pc' = [pc EXCEPT ![t] = place]
        /\ UNCHANGED logVars
    BY <1>11 DEF FlushDone, Goto
  <2>2. \A u \in Flushing : u = t
    BY <2>1 DEF Flushing, FlushAlone
  <2>3. t \in Flushing /\ Flushing' = {} /\ ~Swapping /\ ~Swapping'
    BY <1>1, <2>1, <2>2 DEF Flushing, Swapping
  <2>4. Pending = <<>>
    <3>1. Pending = SubSeq(flush_events_, cursor[t] + 1, Len(flush_events_))
      BY <2>3, PendingIs DEF Remaining
    <3>2. cursor[t] + 1 \in Int /\ Len(flush_events_) < cursor[t] + 1
      BY <1>1, <2>1
    <3> QED BY <1>1, <3>1, <3>2, SubSeqEmpty
  <2>5. Pending' = <<>> /\ Open' = Open
    BY <2>1, <2>3 DEF Pending, Open, logVars
  <2> QED BY <2>1, <2>4, <2>5 DEF Move, Unmoved, logVars
<1>12. ASSUME NEW t \in Threads, AddThreadNameMetadataEvents(t)
       PROVE  Move
  <2> DEFINE n == Len(thread_ids_seen)
             es == MetadataEvents
  <2>1. es \in Seq(Events) /\ n \in Nat /\ Len(es) = n
    BY MetadataType DEF TypeOK
  <2>2. /\ lock_ = NoThread
        /\ n > 0
        /\ logged_events_' = logged_events_ \o es
        /\ next_uid' = next_uid + n
        /\ UNCHANGED <<flush_events_, output, withdrawn, pc, cursor>>
    BY <1>12 DEF AddThreadNameMetadataEvents, frameVars
  <2>3. \A i \in 1..n : es[i].uid = next_uid + i - 1 /\ es[i].ts = now
    BY DEF MetadataEvents, NewEvent
  <2> HIDE DEF n, es
  <2>4. Flushing' = Flushing /\ ~Swapping /\ ~Swapping'
    <3>1. \A u \in Threads : pc[u] # "flush_clear"
      BY <2>2 DEF LockOwned
    <3> QED BY <2>2, <3>1 DEF Flushing, Swapping
  <2>5. \A u \in Threads : pc'[u] # "add_body"
    BY <2>2 DEF LockOwned
  <2>6. Pending' = Pending /\ Open' = Open \o es
    BY <2>2, <2>4, PendingKept DEF Open
  <2>7. es # <<>>
    BY <2>1, <2>2, EmptySeq
  <2>8. Recorded(es, now)
    BY <2>1, <2>2, <2>3, <2>5, <2>6, <2>7 DEF Recorded
  <2> QED BY <1>1, <2>1, <2>8 DEF Move
<1>13. ASSUME NEW t \in Threads, NEW c \in Calls, AddTraceEvent(t, c)
       PROVE  Move
  BY <1>1, <1>2, <1>13 DEF AddTraceEvent, Goto, Flushing, Swapping
<1>14. ASSUME NEW t \in Threads,
              CallFlush(t) \/ Enable(t) \/ Disable(t) \/ BeginLogging(t)
       PROVE  Move
  BY <1>1, <1>2, <1>14 DEF CallFlush, Enable, Disable, BeginLogging, EnterFlush, Goto,
                           Flushing, Swapping
<1>15. ASSUME NEW t \in Threads, EndLogging(t) \/ ThreadReplaced(t)
       PROVE  Move
  BY <1>2, <1>15 DEF EndLogging, ThreadReplaced, frameVars, Flushing, Swapping
<1>16. CASE Tick \/ UNCHANGED vars
  BY <1>2, <1>16 DEF Tick, vars, frameVars, Flushing, Swapping
<1> QED BY <1>3, <1>5, <1>6, <1>7, <1>8, <1>9, <1>10, <1>11, <1>12, <1>13, <1>14, <1>15, <1>16
        DEF Next, Step, Control

\* Seen as a whole, the pipeline stays as it is, grows or loses an event.
PipelineKept ==
  Pipeline' = Pipeline /\ UNCHANGED <<next_uid, withdrawn>>

PipelineLoses(k) ==
  /\ Pipeline' = RemoveAt(Pipeline, k)
  /\ withdrawn' = withdrawn \cup {Pipeline[k].uid}
  /\ next_uid' = next_uid

\* Every such move does one of these to the pipeline.
LEMMA PipelineMoves ==
  ASSUME TypeOK, Move
  PROVE  \/ PipelineKept
         \/ \E es \in Seq(Events), time \in Nat :
              Recorded(es, time) /\ Pipeline' = Pipeline \o es
         \/ \E k \in 1..Len(Pipeline) : PipelineLoses(k)
<1>1. output \in Seq(Events) /\ Pending \in Seq(Events) /\ Open \in Seq(Events)
  BY PartsType DEF TypeOK
<1>2. output \o Pending \in Seq(Events)
  BY <1>1, ConcatProperties
<1>3. ASSUME Unmoved
      PROVE  PipelineKept
  BY <1>3 DEF Unmoved, PipelineKept, Pipeline
<1>4. ASSUME NEW es \in Seq(Events), NEW time \in Nat, Recorded(es, time)
      PROVE  Pipeline' = Pipeline \o es
  <2>1. Pipeline' = (output \o Pending) \o (Open \o es)
    BY <1>4 DEF Recorded, Pipeline
  <2>2. ((output \o Pending) \o Open) \o es = (output \o Pending) \o (Open \o es)
    <3> DEFINE s == output \o Pending
    <3>1. s \in Seq(Events) /\ Open \in Seq(Events) /\ es \in Seq(Events)
      BY <1>1, <1>2
    <3> HIDE DEF s
    <3>2. (s \o Open) \o es = s \o (Open \o es)
      BY ONLY <3>1, ConcatAssociative
    <3> QED BY <3>2 DEF s
  <2> QED BY <2>1, <2>2 DEF Pipeline
<1>5. ASSUME NEW i \in 1..Len(Open), TakenOut(i)
      PROVE  \E k \in 1..Len(Pipeline) : PipelineLoses(k)
  <2> DEFINE s == output \o Pending
             k == Len(s) + i
  <2>1. Pipeline = s \o Open
    BY DEF Pipeline
  <2>2. Pipeline' = s \o RemoveAt(Open, i)
    BY <1>5 DEF TakenOut, Pipeline
  <2>3. s \in Seq(Events)
    BY <1>2
  <2> HIDE DEF s
  <2>4. /\ k \in 1..Len(s \o Open) /\ (s \o Open)[k] = Open[i]
        /\ s \o RemoveAt(Open, i) = RemoveAt(s \o Open, k)
    BY <1>1, <2>3, RemoveFromConcat
  <2> HIDE DEF k
  <2>5. PipelineLoses(k)
    BY <1>5, <2>1, <2>2, <2>4 DEF TakenOut, PipelineLoses
  <2> QED BY <2>1, <2>4, <2>5
<1>6. ASSUME Committed
      PROVE  PipelineKept
  <2>1. Pipeline = (output \o <<>>) \o Open /\ Pipeline' = (output \o Open) \o <<>>
    BY <1>6 DEF Committed, Pipeline
  <2>2. output \o <<>> = output /\ output \o Open \in Seq(Events)
    BY <1>1, ConcatEmptySeq, ConcatProperties
  <2>3. (output \o Open) \o <<>> = output \o Open
    BY <2>2, ConcatEmptySeq
  <2> QED BY <1>6, <2>1, <2>2, <2>3 DEF Committed, PipelineKept
<1>7. ASSUME NEW batch \in Seq(Events), NEW rest \in Seq(Events), Delivered(batch, rest)
      PROVE  PipelineKept
  <2>1. Pipeline = (output \o (batch \o rest)) \o Open
        /\ Pipeline' = ((output \o batch) \o rest) \o Open
    BY <1>7 DEF Delivered, Pipeline
  <2>2. (output \o batch) \o rest = output \o (batch \o rest)
    BY <1>1, ConcatAssociative, SMTT(30)
  <2> QED BY <1>7, <2>1, <2>2 DEF Delivered, PipelineKept
<1>8. CASE \E es \in Seq(Events), time \in Nat : Recorded(es, time)
  BY <1>4, <1>8
<1>9. CASE \E i \in 1..Len(Open) : TakenOut(i)
  BY <1>5, <1>9
<1> QED BY <1>3, <1>6, <1>7, <1>8, <1>9 DEF Move

\* Nothing is on its way when the program starts.
LEMMA EmptyAtFirst ==
  ASSUME Init
  PROVE  /\ output = <<>> /\ Pending = <<>> /\ Open = <<>>
         /\ Pipeline = <<>> /\ Len(<<>>) = 0
<1>1. output = <<>> /\ Pending = <<>> /\ Open = <<>>
  BY DEF Init, Pending, Open, Flushing, Swapping
<1>2. <<>> \in Seq(Events) /\ Len(<<>>) = 0
  BY EmptySeq
<1>3. <<>> \o <<>> \o <<>> = <<>>
  BY <1>2, ConcatEmptySeq
<1> QED BY <1>1, <1>2, <1>3 DEF Pipeline

\* The pipeline is a sequence of events.
LEMMA PipelineType ==
  ASSUME TypeOK
  PROVE  Pipeline \in Seq(Events) /\ Len(Pipeline) \in Nat
<1>1. output \in Seq(Events) /\ Pending \in Seq(Events) /\ Open \in Seq(Events)
  BY PartsType DEF TypeOK
<1>2. Pipeline \in Seq(Events)
  BY <1>1, ConcatProperties DEF Pipeline
<1> QED BY <1>2, LenProperties

-----------------------------------------------------------------------------
(* What one step needs to know of the threads, besides Move.               *)

\* The clock does not go back, and a time stamp is read under the lock.
Clocked ==
  /\ now' \in Nat /\ now' >= now
  /\ \A t \in Threads : pc'[t] = "add_body" =>
       \/ pc[t] = "add_body" /\ time_point'[t] = time_point[t]
       \/ time_point'[t] = now

\* Every step is so.
LEMMA ClockedStep ==
  ASSUME TypeOK, [Next]_vars
  PROVE  Clocked
<1> USE DEF Clocked
<1>1. pc \in [Threads -> Places] /\ time_point \in [Threads -> Nat] /\ now \in Nat
  BY DEF TypeOK
<1>2. ASSUME NEW t \in Threads, AddLock(t) \/ FlushSwap(t) \/ FlushClear(t) \/ WriteHeader(t)
      PROVE  Clocked
  BY <1>1, <1>2 DEF AddLock, FlushSwap, FlushClear, WriteHeader, Goto
<1>3. ASSUME NEW t \in Threads, AddRecord(t) \/ AddDiscard(t) \/ AddEraseBegin(t)
      PROVE  Clocked
  BY <1>1, <1>3 DEF AddRecord, AddDiscard, AddEraseBegin, AddReturn, Goto
<1>4. ASSUME NEW t \in Threads, FlushBatch(t) \/ FlushDone(t)
      PROVE  Clocked
  BY <1>1, <1>4 DEF FlushBatch, FlushDone, Goto
<1>5. ASSUME NEW t \in Threads, NEW c \in Calls, AddTraceEvent(t, c)
      PROVE  Clocked
  BY <1>1, <1>5 DEF AddTraceEvent, Goto
<1>6. ASSUME NEW t \in Threads, ThreadReplaced(t)
      PROVE  Clocked
  BY <1>1, <1>6 DEF ThreadReplaced, frameVars
<1>7. ASSUME NEW t \in Threads, Control(t)
      PROVE  Clocked
  BY <1>1, <1>7 DEF Control, CallFlush, Enable, Disable, BeginLogging, EndLogging,
                    AddThreadNameMetadataEvents, EnterFlush, Goto, frameVars
<1>8. CASE Tick \/ UNCHANGED vars
  BY <1>1, <1>8 DEF Tick, vars, frameVars
<1> QED BY <1>2, <1>3, <1>4, <1>5, <1>6, <1>7, <1>8 DEF Next, Step

\* A single flusher, and whatever else Moves asks for.
FlushInv ==
  /\ TypeOK
  /\ LockOwned
  /\ ControllersFlush
  /\ CursorReset

\* Nothing moves where nothing changes.
LEMMA Stutter ==
  ASSUME UNCHANGED vars
  PROVE  Unmoved
<1>1. Flushing' = Flushing /\ (Swapping' <=> Swapping)
  BY DEF vars, frameVars, Flushing, Swapping
<1>2. Pending' = Pending
  BY <1>1, PendingKept DEF vars, logVars, frameVars
<1> QED BY <1>1, <1>2 DEF Unmoved, Open, vars, logVars

\* Every reachable state satisfies it, and every step is a move.
LEMMA Moving ==
  ASSUME OneController
  PROVE  Spec => []FlushInv /\ [][FlushInv /\ Move /\ Clocked]_vars
<1>1. Init => ControllersFlush /\ CursorReset
  BY DEF Init, ControllersFlush, FlushPlaces, CursorReset
<1>2. TypeOK /\ ControllersFlush /\ CursorReset /\ [Next]_vars => ControllersFlush' /\ CursorReset'
  BY ControllersStep, CursorStep
<1>3. /\ TypeOK /\ LockOwned /\ ControllersFlush /\ CursorReset
      /\ TypeOK' /\ ControllersFlush' /\ CursorReset'
      /\ [Next]_vars
      => [(TypeOK /\ LockOwned /\ ControllersFlush /\ CursorReset) /\ Move /\ Clocked]_vars
  <2>1. ControllersFlush' => FlushAlone'
    BY DEF FlushAlone, Flushing, ControllersFlush, FlushPlaces, OneController
  <2> QED BY <2>1, AloneByOne, Moves, ClockedStep
<1> QED BY <1>1, <1>2, <1>3, TypeCorrect, LockCorrect, PTL DEF Spec, FlushInv

-----------------------------------------------------------------------------
(* Nothing is lost                                                         *)

\* Events s were recorded in that order, those of w withdrawn: n is next.
Accounted(s, n, w) ==
  /\ \A i, j \in 1..Len(s) : i < j => s[i].uid < s[j].uid
  /\ {s[i].uid : i \in 1..Len(s)} \cap w = {}
  /\ {s[i].uid : i \in 1..Len(s)} \cup w = 1..(n - 1)

\* New events, numbered from n on.
LEMMA AccountedGrows ==
  ASSUME NEW s \in Seq(Events), NEW es \in Seq(Events), NEW n \in Nat \ {0}, NEW w,
         Accounted(s, n, w),
         \A i \in 1..Len(es) : es[i].uid = n + i - 1
  PROVE  Accounted(s \o es, n + Len(es), w)
<1> DEFINE u == s \o es
           m == Len(s)
           k == Len(es)
<1>1. m \in Nat /\ k \in Nat
  BY LenProperties
<1>2. /\ Len(u) = m + k
      /\ \A i \in 1..(m + k) : u[i] = IF i <= m THEN s[i] ELSE es[i - m]
  BY ConcatProperties
<1> HIDE DEF u, m, k
<1>3. /\ \A i, j \in 1..m : i < j => s[i].uid < s[j].uid
      /\ \A i \in 1..m : s[i].uid \notin w
      /\ \A i \in 1..m : s[i].uid \in 1..(n - 1)
      /\ \A x \in 1..(n - 1) : x \in w \/ \E i \in 1..m : s[i].uid = x
      /\ w \subseteq 1..(n - 1)
  BY DEF Accounted, m
<1>4. \A i \in 1..k : es[i].uid = n + i - 1
  BY DEF k
<1>5. ASSUME NEW i \in 1..(m + k)
      PROVE  \/ i \in 1..m /\ u[i] = s[i]
             \/ i - m \in 1..k /\ ~(i <= m) /\ u[i].uid = n + (i - m) - 1
  <2>1. CASE i <= m
    BY <1>1, <1>2, <2>1
  <2>2. CASE ~(i <= m)
    <3>1. i - m \in 1..k /\ u[i] = es[i - m]
      BY <1>1, <1>2, <2>2
    <3> QED BY <1>4, <2>2, <3>1
  <2> QED BY <2>1, <2>2
<1>6. ASSUME NEW i \in 1..(m + k), NEW j \in 1..(m + k), i < j
      PROVE  u[i].uid < u[j].uid
  <2>1. CASE i \in 1..m /\ u[i] = s[i] /\ j \in 1..m /\ u[j] = s[j]
    BY <1>3, <1>6, <2>1
  <2>2. CASE i \in 1..m /\ u[i] = s[i] /\ j - m \in 1..k /\ u[j].uid = n + (j - m) - 1
    <3>1. s[i].uid \in 1..(n - 1)
      BY <1>3, <2>2
    <3> QED BY <1>1, <2>2, <3>1
  <2>3. CASE i - m \in 1..k /\ u[i].uid = n + (i - m) - 1
             /\ j - m \in 1..k /\ u[j].uid = n + (j - m) - 1
    BY <1>1, <1>6, <2>3, SMTT(30)
  <2>4. CASE ~(i <= m) /\ j \in 1..m
    BY <1>1, <1>6, <2>4
  <2> QED BY <1>5, <2>1, <2>2, <2>3, <2>4
<1>7. ASSUME NEW i \in 1..(m + k)
      PROVE  u[i].uid \notin w /\ u[i].uid \in 1..(n + k - 1)
  <2>1. CASE i \in 1..m /\ u[i] = s[i]
    <3>1. s[i].uid \notin w /\ s[i].uid \in 1..(n - 1)
      BY <1>3, <2>1
    <3> QED BY <1>1, <2>1, <3>1
  <2>2. CASE i - m \in 1..k /\ u[i].uid = n + (i - m) - 1
    <3>1. u[i].uid \in 1..(n + k - 1) /\ u[i].uid \notin 1..(n - 1)
      BY <1>1, <2>2, SMTT(30)
    <3> QED BY <1>3, <3>1
  <2> QED BY <1>5, <2>1, <2>2
<1>8. ASSUME NEW x \in 1..(n + k - 1)
      PROVE  x \in w \/ \E i \in 1..(m + k) : u[i].uid = x
  <2>1. CASE x \in 1..(n - 1) /\ x \notin w
    <3>1. PICK i \in 1..m : s[i].uid = x
      BY <1>3, <2>1
    <3>2. i \in 1..(m + k) /\ u[i] = s[i]
      BY <1>1, <1>2
    <3> QED BY <3>1, <3>2
  <2>2. CASE x \notin 1..(n - 1)
    <3> DEFINE i == m + (x - n + 1)
    <3>1. i \in 1..(m + k) /\ ~(i <= m) /\ i - m = x - n + 1
          /\ x - n + 1 \in 1..k /\ n + (x - n + 1) - 1 = x
      BY <1>1, <2>2
    <3> HIDE DEF i
    <3>2. u[i].uid = n + (i - m) - 1
      BY <1>5, <3>1
    <3> QED BY <3>1, <3>2
  <2> QED BY <2>1, <2>2
<1>9. w \subseteq 1..(n + k - 1)
  BY <1>1, <1>3
<1>10. Accounted(u, n + k, w)
  <2>1. \A i, j \in 1..Len(u) : i < j => u[i].uid < u[j].uid
    BY <1>2, <1>6
  <2>2. {u[i].uid : i \in 1..Len(u)} \cap w = {}
    BY <1>2, <1>7
  <2>3. {u[i].uid : i \in 1..Len(u)} \cup w = 1..((n + k) - 1)
    <3>1. (n + k) - 1 = n + k - 1
      BY <1>1
    <3>2. {u[i].uid : i \in 1..(m + k)} \cup w \subseteq 1..(n + k - 1)
      BY <1>7, <1>9
    <3>3. 1..(n + k - 1) \subseteq {u[i].uid : i \in 1..(m + k)} \cup w
      BY <1>8
    <3>4. {u[i].uid : i \in 1..(m + k)} \cup w = 1..(n + k - 1)
      BY <3>2, <3>3
    <3> QED BY <1>2, <3>1, <3>4
  <2> QED BY <2>1, <2>2, <2>3 DEF Accounted
<1> QED BY <1>10 DEF u, k

\* An event is withdrawn.
LEMMA AccountedLoses ==
  ASSUME NEW s \in Seq(Events), NEW k \in 1..Len(s), NEW n, NEW w, Accounted(s, n, w)
  PROVE  Accounted(RemoveAt(s, k), n, w \cup {s[k].uid})
<1> DEFINE r == RemoveAt(s, k)
           m == Len(s)
<1>1. m \in Nat /\ k \in 1..m
  BY LenProperties
<1>2. /\ Len(r) = m - 1
      /\ \A j \in 1..(m - 1) : r[j] = IF j < k THEN s[j] ELSE s[j + 1]
  BY RemoveAtProperties
<1> HIDE DEF r, m
<1>3. /\ \A i, j \in 1..m : i < j => s[i].uid < s[j].uid
      /\ \A i \in 1..m : s[i].uid \notin w
      /\ {s[i].uid : i \in 1..m} \cup w = 1..(n - 1)
  BY DEF Accounted, m
<1>4. \A i \in 1..m : s[i].uid \in Nat
  <2> TAKE i \in 1..m
  <2>1. s[i] \in Events
    BY ElementOfSeq DEF m
  <2> QED BY <2>1 DEF Events
<1>5. ASSUME NEW j \in 1..(m - 1)
      PROVE  \E i \in 1..m : i # k /\ r[j] = s[i] /\ i = IF j < k THEN j ELSE j + 1
  BY <1>1, <1>2
<1>6. ASSUME NEW i \in 1..(m - 1), NEW j \in 1..(m - 1), i < j
      PROVE  r[i].uid < r[j].uid
  <2>1. PICK a \in 1..m : r[i] = s[a] /\ a = IF i < k THEN i ELSE i + 1
    BY <1>5
  <2>2. PICK b \in 1..m : r[j] = s[b] /\ b = IF j < k THEN j ELSE j + 1
    BY <1>5
  <2>3. a < b
    BY <1>1, <1>6, <2>1, <2>2
  <2> QED BY <1>3, <2>1, <2>2, <2>3
<1>7. ASSUME NEW i \in 1..m, i # k
      PROVE  s[i].uid # s[k].uid
  <2>1. i < k \/ k < i
    BY <1>1, <1>7
  <2> QED BY <1>1, <1>3, <1>4, <2>1
<1>8. ASSUME NEW j \in 1..(m - 1)
      PROVE  /\ r[j].uid \notin w \cup {s[k].uid}
             /\ r[j].uid \in {s[i].uid : i \in 1..m}
  BY <1>3, <1>5, <1>7
<1>9. ASSUME NEW i \in 1..m, i # k
      PROVE  \E j \in 1..(m - 1) : r[j].uid = s[i].uid
  <2>1. CASE i < k
    <3>1. i \in 1..(m - 1) /\ r[i] = s[i]
      BY <1>1, <1>2, <2>1
    <3> QED BY <3>1
  <2>2. CASE ~(i < k)
    <3>1. i - 1 \in 1..(m - 1) /\ ~(i - 1 < k) /\ i - 1 + 1 = i
      BY <1>1, <1>9, <2>2
    <3>2. r[i - 1] = s[i - 1 + 1]
      BY <1>2, <3>1
    <3> QED BY <3>1, <3>2
  <2> QED BY <2>1, <2>2
<1>10. \A i, j \in 1..Len(r) : i < j => r[i].uid < r[j].uid
  BY <1>2, <1>6
<1>11. {r[j].uid : j \in 1..Len(r)} \cap (w \cup {s[k].uid}) = {}
  BY <1>2, <1>8
<1>12. {r[j].uid : j \in 1..Len(r)} \cup (w \cup {s[k].uid}) = {s[i].uid : i \in 1..m} \cup w
  <2> DEFINE A == {s[i].uid : i \in 1..m}
             B == {r[j].uid : j \in 1..(m - 1)}
  <2>1. B \subseteq A
    BY <1>8
  <2>2. A \subseteq B \cup {s[k].uid}
    BY <1>9
  <2>3. s[k].uid \in A
    BY <1>1
  <2> HIDE DEF A, B
  <2>4. B \cup (w \cup {s[k].uid}) = A \cup w
    BY <2>1, <2>2, <2>3
  <2> QED BY <1>2, <2>4 DEF A, B
<1> QED BY <1>3, <1>10, <1>11, <1>12 DEF Accounted, r

\* A step keeps the account.
LEMMA NothingLostStep ==
  ASSUME TypeOK, Move, NothingLost
  PROVE  NothingLost'
<1>1. Pipeline \in Seq(Events) /\ next_uid \in Nat \ {0}
  BY PipelineType DEF TypeOK
<1>2. Accounted(Pipeline, next_uid, withdrawn)
  BY DEF NothingLost, Accounted
<1>3. Accounted(Pipeline', next_uid', withdrawn')
  <2>1. CASE PipelineKept
    BY <1>2, <2>1 DEF PipelineKept
  <2>2. ASSUME NEW es \in Seq(Events), NEW time \in Nat,
               Recorded(es, time), Pipeline' = Pipeline \o es
        PROVE  Accounted(Pipeline', next_uid', withdrawn')
    <3>1. \A i \in 1..Len(es) : es[i].uid = next_uid + i - 1
      BY <2>2 DEF Recorded
    <3>2. next_uid' = next_uid + Len(es) /\ withdrawn' = withdrawn
      BY <2>2 DEF Recorded
    <3> QED BY <1>1, <1>2, <2>2, <3>1, <3>2, AccountedGrows
  <2>3. ASSUME NEW k \in 1..Len(Pipeline), PipelineLoses(k)
        PROVE  Accounted(Pipeline', next_uid', withdrawn')
    BY <1>1, <1>2, <2>3, AccountedLoses DEF PipelineLoses
  <2> QED BY <2>1, <2>2, <2>3, PipelineMoves
<1> QED BY <1>3 DEF NothingLost, Accounted

\* Under a single flusher every event is delivered once or waits or was
\* withdrawn, in the order it was recorded, for any number of threads and
\* any buffer and batch sizes: no event falls between the swap, the clear
\* and the unlocked loop of Flush.
THEOREM NothingLostCorrect ==
  ASSUME OneController
  PROVE  Spec => []NothingLost
<1>1. ASSUME Init
      PROVE  NothingLost
  <2>1. Pipeline = <<>> /\ Len(<<>>) = 0
    BY <1>1, EmptyAtFirst
  <2> QED BY <1>1, <2>1 DEF Init, NothingLost
<1>2. NothingLost /\ [FlushInv /\ Move /\ Clocked]_vars => NothingLost'
  <2>1. NothingLost /\ FlushInv /\ Move => NothingLost'
    BY NothingLostStep DEF FlushInv
  <2>2. NothingLost /\ UNCHANGED vars => NothingLost'
    BY Stutter DEF Unmoved, NothingLost, Pipeline
  <2> QED BY <2>1, <2>2
<1> QED BY <1>1, <1>2, Moving, PTL DEF Spec

-----------------------------------------------------------------------------
(* Time order                                                              *)

InOrder(s) == \A i, j \in 1..Len(s) : i < j => s[i].ts <= s[j].ts
By(s, time) == \A i \in 1..Len(s) : s[i].ts <= time

\* Every event precedes the clock and the time stamps taken under the lock.
TimeInv ==
  /\ InOrder(Pipeline)
  /\ By(Pipeline, now)
  /\ \A t \in Threads : pc[t] = "add_body" => time_point[t] <= now /\ By(Pipeline, time_point[t])

\* New events of one moment, not before the last one.
LEMMA OrderGrows ==
  ASSUME NEW s \in Seq(Events), NEW es \in Seq(Events), NEW time \in Nat,
         InOrder(s), By(s, time), \A i \in 1..Len(es) : es[i].ts = time
  PROVE  InOrder(s \o es) /\ By(s \o es, time)
<1> DEFINE u == s \o es
<1>1. /\ Len(s) \in Nat /\ Len(es) \in Nat /\ Len(u) = Len(s) + Len(es)
      /\ \A i \in 1..(Len(s) + Len(es)) : u[i] = IF i <= Len(s) THEN s[i] ELSE es[i - Len(s)]
  BY ConcatProperties, LenProperties
<1> HIDE DEF u
<1>2. ASSUME NEW i \in 1..Len(u)
      PROVE  \/ i \in 1..Len(s) /\ u[i] = s[i]
             \/ ~(i \in 1..Len(s)) /\ u[i].ts = time
  <2>1. CASE i <= Len(s)
    BY <1>1, <2>1
  <2>2. CASE ~(i <= Len(s))
    <3>1. i - Len(s) \in 1..Len(es) /\ u[i] = es[i - Len(s)]
      BY <1>1, <2>2
    <3> QED BY <2>2, <3>1
  <2> QED BY <2>1, <2>2
<1>3. By(u, time)
  BY <1>2 DEF By
<1>4. ASSUME NEW i \in 1..Len(u), NEW j \in 1..Len(u), i < j
      PROVE  u[i].ts <= u[j].ts
  <2>1. CASE j \in 1..Len(s)
    <3>1. i \in 1..Len(s)
      BY <1>1, <1>4, <2>1
    <3>2. u[i] = s[i] /\ u[j] = s[j]
      BY <1>2, <2>1, <3>1
    <3> QED BY <1>4, <2>1, <3>1, <3>2 DEF InOrder
  <2>2. CASE ~(j \in 1..Len(s))
    <3>1. u[j].ts = time
      BY <1>2, <2>2
    <3> QED BY <1>3, <3>1 DEF By
  <2> QED BY <2>1, <2>2
<1> QED BY <1>3, <1>4 DEF InOrder, u

\* An event is withdrawn.
LEMMA OrderLoses ==
  ASSUME NEW s \in Seq(Events), NEW k \in 1..Len(s), InOrder(s)
  PROVE  /\ InOrder(RemoveAt(s, k))
         /\ \A time : By(s, time) => By(RemoveAt(s, k), time)
<1> DEFINE r == RemoveAt(s, k)
<1>1. /\ Len(s) \in Nat /\ Len(r) = Len(s) - 1
      /\ \A j \in 1..(Len(s) - 1) : r[j] = IF j < k THEN s[j] ELSE s[j + 1]
  BY RemoveAtProperties, LenProperties
<1> HIDE DEF r
<1>2. ASSUME NEW j \in 1..Len(r)
      PROVE  \E i \in 1..Len(s) : r[j] = s[i] /\ i = IF j < k THEN j ELSE j + 1
  BY <1>1
<1>3. ASSUME NEW i \in 1..Len(r), NEW j \in 1..Len(r), i < j
      PROVE  r[i].ts <= r[j].ts
  <2>1. PICK a \in 1..Len(s) : r[i] = s[a] /\ a = IF i < k THEN i ELSE i + 1
    BY <1>2
  <2>2. PICK b \in 1..Len(s) : r[j] = s[b] /\ b = IF j < k THEN j ELSE j + 1
    BY <1>2
  <2>3. a < b
    BY <1>1, <1>3, <2>1, <2>2
  <2> QED BY <2>1, <2>2, <2>3 DEF InOrder
<1>4. \A time : By(s, time) => By(r, time)
  BY <1>2 DEF By
<1> QED BY <1>3, <1>4 DEF InOrder, r

\* What is not after one moment is not after a later one.
LEMMA ByLater ==
  ASSUME NEW s \in Seq(Events), NEW a \in Nat, NEW b \in Nat, a <= b, By(s, a)
  PROVE  By(s, b)
<1> SUFFICES ASSUME NEW i \in 1..Len(s)
             PROVE  s[i].ts <= b
  BY DEF By
<1>1. s[i] \in Events
  BY ElementOfSeq
<1>2. s[i].ts \in Nat /\ s[i].ts <= a
  BY <1>1 DEF Events, By
<1> QED BY <1>2

\* A step keeps the order.
LEMMA TimeStep ==
  ASSUME TypeOK, Move, Clocked, TimeInv
  PROVE  TimeInv'
<1>1. /\ Pipeline \in Seq(Events) /\ now \in Nat
      /\ now' \in Nat /\ now <= now'
      /\ time_point \in [Threads -> Nat]
  BY PipelineType DEF TypeOK, Clocked
\* It is enough that no event is younger than one there was.
<1>2. ASSUME Pipeline' \in Seq(Events), InOrder(Pipeline'),
             \A time : By(Pipeline, time) => By(Pipeline', time)
      PROVE  TimeInv'
  <2>1. By(Pipeline', now)
    BY <1>2 DEF TimeInv
  <2>2. By(Pipeline', now')
    BY <1>1, <1>2, <2>1, ByLater
  <2>3. ASSUME NEW t \in Threads, pc'[t] = "add_body"
        PROVE  time_point'[t] <= now' /\ By(Pipeline', time_point'[t])
    <3>1. CASE pc[t] = "add_body" /\ time_point'[t] = time_point[t]
      <4>1. time_point[t] \in Nat /\ time_point[t] <= now /\ By(Pipeline, time_point[t])
        BY <1>1, <3>1 DEF TimeInv
      <4> QED BY <1>1, <1>2, <3>1, <4>1
    <3>2. CASE time_point'[t] = now
      BY <1>1, <2>1, <3>2
    <3> QED BY <2>3, <3>1, <3>2 DEF Clocked
  <2> QED BY <1>2, <2>2, <2>3 DEF TimeInv
<1>3. CASE PipelineKept
  BY <1>1, <1>2, <1>3 DEF PipelineKept, TimeInv
<1>4. ASSUME NEW k \in 1..Len(Pipeline), PipelineLoses(k)
      PROVE  TimeInv'
  <2>1. Pipeline' \in Seq(Events)
    BY <1>1, <1>4, RemoveAtProperties DEF PipelineLoses
  <2> QED BY <1>1, <1>2, <1>4, <2>1, OrderLoses DEF PipelineLoses, TimeInv
<1>5. ASSUME NEW es \in Seq(Events), NEW time \in Nat,
             Recorded(es, time), Pipeline' = Pipeline \o es
      PROVE  TimeInv'
  <2>1. By(Pipeline, time) /\ time <= now
    BY <1>1, <1>5 DEF Recorded, TimeInv
  <2>2. /\ Pipeline' \in Seq(Events) /\ InOrder(Pipeline') /\ By(Pipeline', time)
    <3>1. \A i \in 1..Len(es) : es[i].ts = time
      BY <1>5 DEF Recorded
    <3> QED BY <1>1, <1>5, <2>1, <3>1, OrderGrows, ConcatProperties DEF TimeInv
  <2>3. By(Pipeline', now')
    <3>1. time <= now'
      BY <1>1, <2>1
    <3> QED BY <1>1, <2>2, <3>1, ByLater
  <2> QED BY <1>5, <2>2, <2>3 DEF Recorded, TimeInv
<1> QED BY <1>3, <1>4, <1>5, PipelineMoves

\* Under a single flusher the trace is in time order from the file back to
\* the buffer: the time stamp is read under the lock that orders the
\* appends, so no event with an earlier stamp can still be appended.
THEOREM TimeOrderCorrect ==
  ASSUME OneController
  PROVE  Spec => []StreamInTimeOrder
<1>1. ASSUME Init
      PROVE  TimeInv
  <2>1. Pipeline = <<>> /\ Len(<<>>) = 0
    BY <1>1, EmptyAtFirst
  <2> QED BY <1>1, <2>1 DEF Init, TimeInv, InOrder, By
<1>2. TimeInv /\ [FlushInv /\ Move /\ Clocked]_vars => TimeInv'
  <2>1. TimeInv /\ FlushInv /\ Move /\ Clocked => TimeInv'
    BY TimeStep DEF FlushInv
  <2>2. TimeInv /\ UNCHANGED vars => TimeInv'
    <3> SUFFICES ASSUME TimeInv, UNCHANGED vars
                 PROVE  TimeInv'
      OBVIOUS
    <3>1. Pipeline' = Pipeline
      BY Stutter DEF Unmoved, Pipeline
    <3> QED BY <3>1 DEF vars, frameVars, TimeInv
  <2> QED BY <2>1, <2>2
<1>3. TimeInv => StreamInTimeOrder
  BY DEF TimeInv, InOrder, StreamInTimeOrder
<1> QED BY <1>1, <1>2, <1>3, Moving, PTL DEF Spec

-----------------------------------------------------------------------------
(* The channel                                                             *)

\* What TraceLog does to its events is what the channel may do.
LEMMA ChannelStep ==
  ASSUME TypeOK, Move
  PROVE  [Channel!ChannelNext]_Channel!channelVars
<1>1. /\ output \in Seq(Events) /\ Pending \in Seq(Events) /\ Open \in Seq(Events)
      /\ next_uid \in Nat \ {0}
  BY PartsType DEF TypeOK
<1>2. ASSUME Unmoved
      PROVE  UNCHANGED Channel!channelVars
  BY <1>2 DEF Unmoved, Channel!channelVars
<1>3. ASSUME NEW es \in Seq(Events), NEW time \in Nat, Recorded(es, time)
      PROVE  Channel!ChannelNext
  <2> DEFINE n == Len(es)
             new == [i \in 1..n |-> next_uid + i - 1]
  <2>1. n \in Nat /\ n # 0
    BY <1>3, LenProperties, EmptySeq DEF Recorded
  <2>2. Uids(es) = new
    BY <1>3 DEF Uids, Recorded
  <2>3. Uids(Open') = Uids(Open) \o new
    BY <1>1, <1>3, <2>2, UidsConcat DEF Recorded
  <2> HIDE DEF n, new
  <2>4. next_uid' = next_uid + n
    BY <1>3 DEF Recorded, n
  <2>5. n \in 1..(next_uid' - next_uid)
    BY <1>1, <2>1, <2>4
  <2>6. Channel!Record(n)
    BY <1>3, <2>3, <2>4 DEF Channel!Record, Recorded, new
  <2> QED BY <2>5, <2>6 DEF Channel!ChannelNext
<1>4. ASSUME NEW i \in 1..Len(Open), TakenOut(i)
      PROVE  Channel!ChannelNext
  <2>1. Len(Uids(Open)) = Len(Open) /\ Uids(Open)[i] = Open[i].uid
    BY <1>1, UidsProperties
  <2>2. Uids(Open') = RemoveAt(Uids(Open), i)
    BY <1>1, <1>4, UidsRemove DEF TakenOut
  <2>3. Channel!RemoveAt(Uids(Open), i) = RemoveAt(Uids(Open), i)
    BY DEF Channel!RemoveAt, RemoveAt
  <2>4. Channel!Withdraw(i)
    BY <1>4, <2>1, <2>2, <2>3 DEF Channel!Withdraw, TakenOut
  <2> QED BY <2>1, <2>4 DEF Channel!ChannelNext
<1>5. ASSUME Committed
      PROVE  Channel!ChannelNext
  <2>1. Uids(<<>>) = <<>> /\ Uids(Open) \in Seq(Nat)
    <3>1. <<>> \in Seq(Events) /\ Len(<<>>) = 0
      BY EmptySeq
    <3>2. Uids(<<>>) \in Seq(Nat) /\ Len(Uids(<<>>)) = 0
      BY <3>1, UidsProperties
    <3> QED BY <1>1, <3>2, EmptySeq, UidsProperties
  <2>2. Uids(Pending') = Uids(Pending) \o Uids(Open)
    BY <1>5, <2>1, ConcatEmptySeq DEF Committed
  <2>3. Channel!Commit
    BY <1>5, <2>1, <2>2 DEF Channel!Commit, Committed
  <2> QED BY <2>3 DEF Channel!ChannelNext
<1>6. ASSUME NEW batch \in Seq(Events), NEW rest \in Seq(Events), Delivered(batch, rest)
      PROVE  Channel!ChannelNext
  <2> DEFINE b == Uids(batch)
             r == Uids(rest)
  <2>1. b \in Seq(Nat) /\ r \in Seq(Nat) /\ b # <<>>
    <3>1. Len(b) = Len(batch) /\ Len(batch) # 0
      BY <1>6, UidsProperties, EmptySeq DEF Delivered
    <3> QED BY <3>1, EmptySeq, UidsProperties
  <2>2. Uids(Pending) = b \o r /\ Uids(Pending') = r /\ Uids(output') = Uids(output) \o b
    BY <1>1, <1>6, UidsConcat DEF Delivered
  <2> HIDE DEF b, r
  <2>3. /\ Len(b) \in 1..Len(b \o r)
        /\ SubSeq(b \o r, 1, Len(b)) = b
        /\ SubSeq(b \o r, Len(b) + 1, Len(b \o r)) = r
    BY <2>1, SplitConcat
  <2>4. Channel!Deliver(Len(b))
    BY <1>6, <2>2, <2>3 DEF Channel!Deliver, Delivered
  <2> QED BY <2>2, <2>3, <2>4 DEF Channel!ChannelNext
<1> QED BY <1>2, <1>3, <1>4, <1>5, <1>6 DEF Move

\* Under a single flusher the log implements the first-in first-out channel
\* of EventChannel: locks, swap, clear and batches are not seen outside.
THEOREM ChannelImplemented ==
  ASSUME OneController
  PROVE  Spec => ImplementsChannel
<1>1. ASSUME Init
      PROVE  Channel!ChannelInit
  <2>1. output = <<>> /\ Pending = <<>> /\ Open = <<>>
    BY <1>1, EmptyAtFirst
  <2>2. Uids(<<>>) = <<>>
    <3>1. <<>> \in Seq(Events) /\ Len(<<>>) = 0
      BY EmptySeq
    <3>2. Uids(<<>>) \in Seq(Nat) /\ Len(Uids(<<>>)) = 0
      BY <3>1, UidsProperties
    <3> QED BY <3>2, EmptySeq
  <2> QED BY <1>1, <2>1, <2>2 DEF Init, Channel!ChannelInit
<1>2. [FlushInv /\ Move /\ Clocked]_vars => [Channel!ChannelNext]_Channel!channelVars
  <2>1. FlushInv /\ Move => [Channel!ChannelNext]_Channel!channelVars
    BY ChannelStep DEF FlushInv
  <2>2. UNCHANGED vars => UNCHANGED Channel!channelVars
    BY Stutter DEF Unmoved, Channel!channelVars
  <2> QED BY <2>1, <2>2
<1> QED BY <1>1, <1>2, Moving, PTL DEF Spec, ImplementsChannel, Channel!ChannelSpec

=============================================================================
