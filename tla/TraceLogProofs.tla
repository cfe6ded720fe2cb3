--------------------------- MODULE TraceLogProofs ---------------------------
(***************************************************************************)
(* What holds of TraceLog for every set of threads, buffer size, batch     *)
(* size and bound: types, ownership of the mutex, the real limit of the    *)
(* vectors, a flush buffer nobody touches, and the list of threads.        *)
(***************************************************************************)
EXTENDS TraceLog, DataLemmas, FiniteSetTheorems

USE TraceLogAssumption

-----------------------------------------------------------------------------
(* Types                                                                   *)

\* What every call record has, whatever its kind.
LEMMA CallType ==
  ASSUME NEW c \in Calls \cup {NoCall}
  PROVE  /\ c.begin_id \in Nat \cup {EVENT_ID_NONE}
         /\ c.threshold \in Nat
         /\ c \in Calls => c.phase \in PlainPhases \cup {"END"}
<1>1. CASE c = NoCall
  BY <1>1 DEF Calls, NoCall, EVENT_ID_NONE
<1>2. CASE c \in [phase : PlainPhases, begin_id : {EVENT_ID_NONE}, threshold : {0}]
  BY <1>2
<1>3. CASE c \in [phase : {"END"}, begin_id : BeginIds \cup {EVENT_ID_NONE}, threshold : Thresholds]
  BY <1>3
<1> QED BY <1>1, <1>2, <1>3 DEF Calls

\* A new event is an event: uid, thread, phase and time stamp have their types.
LEMMA NewEventType ==
  ASSUME NEW uid \in Nat, NEW t \in Threads, NEW ts \in Nat,
         NEW phase \in PlainPhases \cup {"END", "METADATA"}
  PROVE  NewEvent(uid, t, phase, ts) \in Events
BY DEF NewEvent, Events

\* A batch is a part of flush_events_.
LEMMA BatchType ==
  ASSUME flush_events_ \in Seq(Events), NEW i \in Nat
  PROVE  Batch(i) \in Seq(Events)
<1> DEFINE last == IF i + BATCH_SZ < Len(flush_events_) THEN i + BATCH_SZ
                                                       ELSE Len(flush_events_)
<1>1. Len(flush_events_) \in Nat /\ last \in Int /\ last <= Len(flush_events_)
  BY LenProperties
<1>2. \A j \in (i + 1)..last : flush_events_[j] \in Events
  <2> TAKE j \in (i + 1)..last
  <2>1. j \in 1..Len(flush_events_)
    BY <1>1
  <2> QED BY <2>1, ElementOfSeq
<1>3. SubSeq(flush_events_, i + 1, last) \in Seq(Events)
  BY <1>1, <1>2, SubSeqProperties
<1> QED BY <1>3 DEF Batch

\* One metadata event per thread seen.
LEMMA MetadataType ==
  ASSUME thread_ids_seen \in Seq(Threads), next_uid \in Nat \ {0}, now \in Nat
  PROVE  /\ MetadataEvents \in Seq(Events)
         /\ Len(thread_ids_seen) \in Nat
         /\ Len(MetadataEvents) = Len(thread_ids_seen)
<1> DEFINE n == Len(thread_ids_seen)
           e(i) == NewEvent(next_uid + i - 1, thread_ids_seen[i], "METADATA", now)
<1>1. n \in Nat
  BY LenProperties
<1>2. ASSUME NEW i \in 1..n
      PROVE  e(i) \in Events
  <2>1. thread_ids_seen[i] \in Threads /\ next_uid + i - 1 \in Nat
    BY <1>1, ElementOfSeq
  <2> QED BY <2>1, NewEventType
<1>3. [i \in 1..n |-> e(i)] \in [1..n -> Events]
  BY <1>2
<1>4. [i \in 1..n |-> e(i)] \in Seq(Events) /\ Len([i \in 1..n |-> e(i)]) = n
  BY <1>1, <1>3, SeqDef, LenProperties
<1> QED BY <1>1, <1>4 DEF MetadataEvents

\* A begin id that passes the checks is the index of a logged event.
LEMMA BeginIndex ==
  ASSUME TypeOK, NEW t \in Threads, HasBegin(t), BeginLogged(t)
  PROVE  call[t].begin_id + 1 \in 1..Len(logged_events_)
<1>1. call[t].begin_id \in Nat \cup {EVENT_ID_NONE}
  BY CallType DEF TypeOK
<1>2. Len(logged_events_) \in Nat
  BY LenProperties DEF TypeOK
<1> QED BY <1>1, <1>2 DEF HasBegin, BeginLogged, EVENT_ID_NONE

\* The initial state is well typed.
LEMMA TypeInit == Init => TypeOK
<1> SUFFICES ASSUME Init PROVE TypeOK
  OBVIOUS
<1>1. \A S : <<>> \in Seq(S)
  BY EmptySeq
<1>2. /\ logged_events_ \in Seq(Events)
      /\ flush_events_ \in Seq(Events)
      /\ output \in Seq(Events)
      /\ thread_ids_seen \in Seq(Threads)
      /\ markers \in Seq([kind : {"[", "]"}, at : Nat])
  BY <1>1 DEF Init
<1>3. /\ captured \in [Threads -> BOOLEAN]
      /\ pc \in [Threads -> Places]
      /\ call \in [Threads -> Calls \cup {NoCall}]
      /\ time_point \in [Threads -> Nat]
      /\ cursor \in [Threads -> Nat]
      /\ begin_logging \in [Threads -> BOOLEAN]
  BY DEF Init, Places
<1>4. /\ lock_ \in Threads \cup {NoThread}
      /\ now \in Nat
      /\ next_uid \in Nat \ {0}
      /\ metadata \in Nat
  BY DEF Init
<1>5. enabled_ \in BOOLEAN /\ withdrawn \in SUBSET Nat
  BY Zenon DEF Init
<1> QED BY <1>2, <1>3, <1>4, <1>5, Zenon DEF TypeOK

\* The states in which a thread is inside AddTraceEventInternal carry a call.
CallInProgress == \A t \in Threads : pc[t] \in {"add_wait", "add_body"} => call[t] \in Calls

\* Every step keeps the types, one case per action of the log.
LEMMA TypeStep ==
  ASSUME TypeOK, CallInProgress, [Next]_vars
  PROVE  TypeOK' /\ CallInProgress'
<1> USE DEF TypeOK, CallInProgress
<1>1. ASSUME NEW t \in Threads, AddLock(t)
      PROVE  TypeOK' /\ CallInProgress'
  <2>1. thread_ids_seen' \in Seq(Threads)
    BY <1>1, AppendProperties DEF AddLock, CaptureThread
  <2> QED BY <1>1, <2>1
          DEF AddLock, CaptureThread, Acquire, Goto, logVars, Places
<1>2. ASSUME NEW t \in Threads, AddRecord(t)
      PROVE  TypeOK' /\ CallInProgress'
  <2>1. call[t].phase \in PlainPhases \cup {"END", "METADATA"}
    BY <1>2, CallType DEF AddRecord
  <2>2. NewEvent(next_uid, t, call[t].phase, time_point[t]) \in Events
    BY <2>1, NewEventType
  <2>3. logged_events_' \in Seq(Events)
    BY <1>2, <2>2, AppendProperties DEF AddRecord
  <2> QED BY <1>2, <2>3 DEF AddRecord, AddReturn, Release, Goto, Places
<1>3. ASSUME NEW t \in Threads, AddDiscard(t)
      PROVE  TypeOK' /\ CallInProgress'
  BY <1>3 DEF AddDiscard, AddReturn, Release, Goto, Places
<1>4. ASSUME NEW t \in Threads, AddEraseBegin(t)
      PROVE  TypeOK' /\ CallInProgress'
  <2> DEFINE i == call[t].begin_id + 1
  <2>1. i \in 1..Len(logged_events_)
    BY <1>4, BeginIndex DEF AddEraseBegin
  <2>2. logged_events_' \in Seq(Events)
    BY <1>4, <2>1, RemoveAtProperties DEF AddEraseBegin
  <2>3. BeginEvent(t).uid \in Nat
    <3>1. BeginEvent(t) \in Events
      BY <2>1, ElementOfSeq DEF BeginEvent
    <3> QED BY <3>1 DEF Events
  <2> QED BY <1>4, <2>2, <2>3 DEF AddEraseBegin, AddReturn, Release, Goto, Places
<1>5. ASSUME NEW t \in Threads, FlushSwap(t)
      PROVE  TypeOK' /\ CallInProgress'
  BY <1>5 DEF FlushSwap, Acquire, Goto, Places
<1>6. ASSUME NEW t \in Threads, FlushClear(t)
      PROVE  TypeOK' /\ CallInProgress'
  BY <1>6, EmptySeq DEF FlushClear, Release, Goto, Places
<1>7. ASSUME NEW t \in Threads, FlushBatch(t)
      PROVE  TypeOK' /\ CallInProgress'
  <2>1. output' \in Seq(Events)
    BY <1>7, BatchType, ConcatProperties DEF FlushBatch
  <2> QED BY <1>7, <2>1, SMTT(30) DEF FlushBatch
<1>8. ASSUME NEW t \in Threads, FlushDone(t)
      PROVE  TypeOK' /\ CallInProgress'
  BY <1>8 DEF FlushDone, Goto, logVars, Places
<1>9. ASSUME NEW t \in Threads, NEW kind \in {"[", "]"}, Mark(kind)
      PROVE  markers' \in Seq([kind : {"[", "]"}, at : Nat])
  BY <1>9, LenProperties, AppendProperties DEF Mark
<1>10. ASSUME NEW t \in Threads, WriteHeader(t)
       PROVE  TypeOK' /\ CallInProgress'
  BY <1>9, <1>10 DEF WriteHeader, Goto, logVars, Places
<1>11. ASSUME NEW t \in Threads, NEW c \in Calls, AddTraceEvent(t, c)
       PROVE  TypeOK' /\ CallInProgress'
  BY <1>11 DEF AddTraceEvent, Goto, logVars, Places
<1>12. ASSUME NEW t \in Threads, ThreadReplaced(t)
       PROVE  TypeOK' /\ CallInProgress'
  BY <1>12 DEF ThreadReplaced, logVars, frameVars
<1>13. ASSUME NEW t \in Threads, CallFlush(t) \/ Enable(t) \/ Disable(t) \/ BeginLogging(t)
       PROVE  TypeOK' /\ CallInProgress'
  BY <1>13 DEF CallFlush, Enable, Disable, BeginLogging, EnterFlush, Goto, logVars, Places
<1>14. ASSUME NEW t \in Threads, EndLogging(t)
       PROVE  TypeOK' /\ CallInProgress'
  BY <1>9, <1>14 DEF EndLogging, logVars, frameVars
<1>15. ASSUME NEW t \in Threads, AddThreadNameMetadataEvents(t)
       PROVE  TypeOK' /\ CallInProgress'
  <2>1. MetadataEvents \in Seq(Events) /\ Len(thread_ids_seen) \in Nat
    BY MetadataType
  <2>2. logged_events_' \in Seq(Events)
    BY <1>15, <2>1, ConcatProperties DEF AddThreadNameMetadataEvents
  <2>3. next_uid' \in Nat \ {0} /\ metadata' \in Nat
    <3>1. /\ next_uid' = next_uid + Len(thread_ids_seen)
          /\ metadata' = metadata + Len(thread_ids_seen)
      BY <1>15 DEF AddThreadNameMetadataEvents
    <3>2. next_uid \in Nat \ {0} /\ metadata \in Nat
      OBVIOUS
    <3> HIDE DEF TypeOK
    <3> QED BY <2>1, <3>1, <3>2
  <2> QED BY <1>15, <2>2, <2>3 DEF AddThreadNameMetadataEvents, frameVars
<1>16. ASSUME Tick
       PROVE  TypeOK' /\ CallInProgress'
  BY <1>16 DEF Tick, logVars, frameVars
<1>17. ASSUME UNCHANGED vars
       PROVE  TypeOK' /\ CallInProgress'
  BY <1>17 DEF vars, logVars, frameVars
<1> QED BY <1>1, <1>2, <1>3, <1>4, <1>5, <1>6, <1>7, <1>8, <1>10, <1>11, <1>12,
           <1>13, <1>14, <1>15, <1>16, <1>17
        DEF Next, Step, Control

\* Every reachable state is well typed.
THEOREM TypeCorrect == Spec => []TypeOK
<1>1. Init => TypeOK /\ CallInProgress
  BY TypeInit DEF Init, CallInProgress
<1>2. TypeOK /\ CallInProgress /\ [Next]_vars => TypeOK' /\ CallInProgress'
  BY TypeStep
<1> QED BY <1>1, <1>2, PTL DEF Spec

-----------------------------------------------------------------------------
(* Ownership of the mutex                                                  *)

\* Locking, unlocking and moving between places go together in every step.
LEMMA LockStep ==
  ASSUME TypeOK, LockOwned, [Next]_vars
  PROVE  LockOwned'
<1> USE DEF LockOwned
<1>1. pc \in [Threads -> Places] /\ lock_ \in Threads \cup {NoThread}
  BY DEF TypeOK
<1>2. ASSUME NEW t \in Threads, AddLock(t) \/ FlushSwap(t)
      PROVE  LockOwned'
  BY <1>1, <1>2 DEF AddLock, FlushSwap, Acquire, Goto
<1>3. ASSUME NEW t \in Threads, AddRecord(t) \/ AddDiscard(t) \/ AddEraseBegin(t) \/ FlushClear(t)
      PROVE  LockOwned'
  BY <1>1, <1>3 DEF AddRecord, AddDiscard, AddEraseBegin, AddReturn, FlushClear, Release, Goto
<1>4. ASSUME NEW t \in Threads, FlushBatch(t) \/ FlushDone(t) \/ WriteHeader(t)
      PROVE  LockOwned'
  BY <1>1, <1>4 DEF FlushBatch, FlushDone, WriteHeader, Goto
<1>5. ASSUME NEW t \in Threads, NEW c \in Calls, AddTraceEvent(t, c)
      PROVE  LockOwned'
  BY <1>1, <1>5 DEF AddTraceEvent, Goto
<1>6. ASSUME NEW t \in Threads, ThreadReplaced(t)
      PROVE  LockOwned'
  BY <1>6 DEF ThreadReplaced, frameVars
<1>7. ASSUME NEW t \in Threads, Control(t)
      PROVE  LockOwned'
  BY <1>1, <1>7 DEF Control, CallFlush, Enable, Disable, BeginLogging, EndLogging,
                    AddThreadNameMetadataEvents, EnterFlush, Goto, frameVars
<1>8. CASE Tick
  BY <1>8 DEF Tick, frameVars
<1>9. CASE UNCHANGED vars
  BY <1>9 DEF vars, frameVars
<1> QED BY <1>2, <1>3, <1>4, <1>5, <1>6, <1>7, <1>8, <1>9 DEF Next, Step

\* The mutex is held exactly by the thread inside a critical section.
THEOREM LockCorrect == Spec => []LockOwned
<1>1. Init => LockOwned
  BY DEF Init, LockOwned
<1>2. TypeOK /\ LockOwned /\ [Next]_vars => LockOwned'
  BY LockStep
<1> QED BY <1>1, <1>2, TypeCorrect, PTL DEF Spec

\* So at most one thread is inside a critical section.
LEMMA MutualExclusion ==
  ASSUME LockOwned, NEW t \in Threads, NEW u \in Threads,
         pc[t] \in {"add_body", "flush_clear"}, pc[u] \in {"add_body", "flush_clear"}
  PROVE  t = u
BY DEF LockOwned

-----------------------------------------------------------------------------
(* The limit of the vectors                                                *)

Limit == BUFFER_SZ - 1 + Cardinality(Threads) + metadata

\* CapacityBound is not inductive: a thread past the size check is an event
\* already granted.  While the vectors are swapped, what counts is that
\* logged_events_ is about to be cleared.
GrantedRoom == Swapping \/ Len(logged_events_) + Cardinality(Adding) <= Limit

\* A set of threads is finite and no larger than Threads.
LEMMA AddingFinite ==
  ASSUME NEW S \in SUBSET Threads
  PROVE  /\ IsFiniteSet(S)
         /\ Cardinality(S) \in Nat
         /\ Cardinality(S) <= Cardinality(Threads)
         /\ Cardinality(Threads) \in Nat
BY FS_Subset, FS_CardinalityType

\* Every step keeps the vectors within the limit and the grants within the room.
LEMMA CapacityStep ==
  ASSUME TypeOK, LockOwned, CapacityBound, GrantedRoom, [Next]_vars
  PROVE  CapacityBound' /\ GrantedRoom'
<1>1. /\ Len(logged_events_) \in Nat
      /\ Len(flush_events_) \in Nat
      /\ metadata \in Nat
      /\ Adding \subseteq Threads /\ Adding' \subseteq Threads
      /\ Cardinality(Threads) \in Nat
      /\ Cardinality(Adding) \in Nat
      /\ Cardinality(Adding) <= Cardinality(Threads)
  BY AddingFinite, LenProperties DEF TypeOK, Adding
<1>2. pc \in [Threads -> Places]
  BY DEF TypeOK
<1>3. Len(logged_events_) <= Limit /\ Len(flush_events_) <= Limit
  BY DEF CapacityBound, Limit
<1>4. ASSUME Len(logged_events_') <= Limit', Len(flush_events_') <= Limit'
      PROVE  CapacityBound'
  BY <1>4 DEF CapacityBound, Limit
\* Every return of the locked part gives one grant back.
<1>5. ASSUME NEW t \in Threads, pc[t] = "add_body", AddReturn(t),
             Len(logged_events_') \in Nat,
             Len(logged_events_') <= Len(logged_events_) + 1
      PROVE  CapacityBound' /\ GrantedRoom'
  <2>1. ~Swapping
    BY <1>5, MutualExclusion DEF Swapping
  <2>2. t \in Adding /\ Adding' = Adding \ {t}
    BY <1>2, <1>5 DEF Adding, AddReturn, Goto
  <2>3. Cardinality(Adding') = Cardinality(Adding) - 1
    BY <1>1, <2>2, AddingFinite, FS_RemoveElement
  <2>4. /\ metadata' = metadata
        /\ flush_events_' = flush_events_
    BY <1>5 DEF AddReturn
  <2>5. Cardinality(Adding') \in Nat
    BY <1>1, AddingFinite
  <2>6. Len(logged_events_) + Cardinality(Adding) <= Limit
    BY <2>1 DEF GrantedRoom
  <2>7. Len(logged_events_') + Cardinality(Adding') <= Limit'
    BY <1>1, <1>5, <2>3, <2>4, <2>6 DEF Limit
  <2>8. Limit' = Limit /\ Limit \in Int
    BY <1>1, <2>4 DEF Limit
  <2>9. Len(logged_events_') <= Limit' /\ Len(flush_events_') <= Limit'
    BY <1>1, <1>3, <1>5, <2>4, <2>5, <2>7, <2>8
  <2> QED BY <1>4, <2>7, <2>9 DEF GrantedRoom
<1>6. ASSUME NEW t \in Threads, AddRecord(t)
      PROVE  CapacityBound' /\ GrantedRoom'
  <2>1. Len(logged_events_') = Len(logged_events_) + 1
    <3> DEFINE e == NewEvent(next_uid, t, call[t].phase, time_point[t])
    <3>1. logged_events_' = Append(logged_events_, e)
      BY <1>6 DEF AddRecord
    <3>2. logged_events_ \in Seq(Events \cup {e})
      BY SeqMonotonic DEF TypeOK
    <3> QED BY <3>1, <3>2, AppendProperties
  <2> QED BY <1>1, <1>5, <1>6, <2>1 DEF AddRecord
<1>7. ASSUME NEW t \in Threads, AddDiscard(t)
      PROVE  CapacityBound' /\ GrantedRoom'
  BY <1>1, <1>5, <1>7 DEF AddDiscard
<1>8. ASSUME NEW t \in Threads, AddEraseBegin(t)
      PROVE  CapacityBound' /\ GrantedRoom'
  <2>1. call[t].begin_id + 1 \in 1..Len(logged_events_)
    BY <1>8, BeginIndex DEF AddEraseBegin
  <2>2. Len(logged_events_') = Len(logged_events_) - 1
    BY <1>8, <2>1, RemoveAtProperties DEF TypeOK, AddEraseBegin
  <2>3. Len(logged_events_') \in Nat
    BY <1>1, <2>1, <2>2
  <2> QED BY <1>1, <1>5, <1>8, <2>2, <2>3 DEF AddEraseBegin
<1>9. ASSUME NEW t \in Threads, FlushSwap(t)
      PROVE  CapacityBound' /\ GrantedRoom'
  <2>1. Swapping'
    BY <1>2, <1>9 DEF FlushSwap, Goto, Swapping
  <2> QED BY <1>3, <1>4, <1>9, <2>1 DEF FlushSwap, GrantedRoom, Limit
<1>10. ASSUME NEW t \in Threads, FlushClear(t)
       PROVE  CapacityBound' /\ GrantedRoom'
  <2>1. Adding' = Adding
    BY <1>2, <1>10 DEF FlushClear, Goto, Adding
  <2>2. /\ Len(logged_events_') = 0
        /\ metadata' = metadata
        /\ flush_events_' = flush_events_
    BY <1>10, EmptySeq DEF FlushClear
  <2>3. Limit' = Limit /\ Cardinality(Adding) <= Limit /\ Limit \in Nat
    BY <1>1, <2>2 DEF Limit
  <2>4. Len(logged_events_') <= Limit' /\ Len(flush_events_') <= Limit'
    BY <1>3, <2>2, <2>3
  <2>5. Len(logged_events_') + Cardinality(Adding') <= Limit'
    BY <1>1, <2>1, <2>2, <2>3
  <2> QED BY <1>4, <2>4, <2>5 DEF GrantedRoom
<1>11. ASSUME NEW t \in Threads, NEW c \in Calls, AddTraceEvent(t, c)
       PROVE  CapacityBound' /\ GrantedRoom'
  <2>1. t \notin Adding /\ Adding' = Adding \cup {t} /\ (Swapping' <=> Swapping)
    BY <1>2, <1>11 DEF AddTraceEvent, Goto, Adding, Swapping
  <2>2. Cardinality(Adding') = Cardinality(Adding) + 1
    BY <1>1, <2>1, AddingFinite, FS_AddElement
  <2>3. Cardinality(Adding') <= Cardinality(Threads)
    BY <1>1, AddingFinite
  <2>4. /\ logged_events_' = logged_events_
        /\ flush_events_' = flush_events_
        /\ metadata' = metadata
        /\ Swapping \/ Len(logged_events_) < BUFFER_SZ
    BY <1>11 DEF AddTraceEvent, RoomSeen, logVars
  <2>5. Limit' = Limit
    BY <2>4 DEF Limit
  <2>6. CASE Swapping
    BY <1>3, <1>4, <2>1, <2>4, <2>5, <2>6 DEF GrantedRoom
  <2>7. CASE ~Swapping
    <3>1. Len(logged_events_) < BUFFER_SZ
      BY <2>4, <2>7
    <3>2. Len(logged_events_') + Cardinality(Adding') <= Limit'
      BY <1>1, <2>2, <2>3, <2>4, <3>1 DEF Limit
    <3> QED BY <1>3, <1>4, <2>4, <2>5, <3>2 DEF GrantedRoom
  <2> QED BY <2>6, <2>7
<1>12. ASSUME NEW t \in Threads, AddThreadNameMetadataEvents(t)
       PROVE  CapacityBound' /\ GrantedRoom'
  <2> DEFINE n == Len(thread_ids_seen)
  <2>1. /\ MetadataEvents \in Seq(Events)
        /\ n \in Nat
        /\ Len(MetadataEvents) = n
    BY MetadataType DEF TypeOK
  <2>2. Len(logged_events_') = Len(logged_events_) + n
    <3>1. logged_events_ \in Seq(Events)
      BY DEF TypeOK
    <3>2. logged_events_' = logged_events_ \o MetadataEvents
      BY <1>12 DEF AddThreadNameMetadataEvents
    <3> QED BY <2>1, <3>1, <3>2, ConcatProperties
  <2>3. /\ metadata' = metadata + n
        /\ flush_events_' = flush_events_
        /\ pc' = pc
        /\ lock_ = NoThread
    BY <1>12 DEF AddThreadNameMetadataEvents, frameVars
  <2>4. ~Swapping /\ Adding' = Adding
    <3>1. \A u \in Threads : pc[u] \notin {"add_body", "flush_clear"}
      BY <2>3 DEF LockOwned
    <3> QED BY <2>3, <3>1 DEF Swapping, Adding
  <2>5. Len(logged_events_) + Cardinality(Adding) <= Limit
    BY <2>4 DEF GrantedRoom
  <2> HIDE DEF n
  <2>6. Limit' = Limit + n
    BY <1>1, <2>1, <2>3 DEF Limit
  <2> QED BY <1>1, <1>3, <1>4, <2>1, <2>2, <2>3, <2>4, <2>5, <2>6 DEF GrantedRoom, Limit
\* No other step changes the vectors or moves a thread in or out of Adding.
<1>13. ASSUME UNCHANGED <<logged_events_, flush_events_, metadata>>,
              Adding' = Adding, Swapping' <=> Swapping
       PROVE  CapacityBound' /\ GrantedRoom'
  <2>1. Limit' = Limit
    BY <1>13 DEF Limit
  <2> QED BY <1>3, <1>4, <1>13, <2>1 DEF GrantedRoom
<1>14. ASSUME NEW t \in Threads,
              AddLock(t) \/ FlushBatch(t) \/ FlushDone(t) \/ WriteHeader(t)
       PROVE  CapacityBound' /\ GrantedRoom'
  BY <1>2, <1>13, <1>14 DEF AddLock, FlushBatch, FlushDone, WriteHeader, Goto, logVars,
                            Adding, Swapping
<1>15. ASSUME NEW t \in Threads,
              CallFlush(t) \/ Enable(t) \/ Disable(t) \/ BeginLogging(t)
       PROVE  CapacityBound' /\ GrantedRoom'
  BY <1>2, <1>13, <1>15 DEF CallFlush, Enable, Disable, BeginLogging, EnterFlush, Goto,
                            logVars, Adding, Swapping
<1>16. ASSUME NEW t \in Threads, EndLogging(t) \/ ThreadReplaced(t)
       PROVE  CapacityBound' /\ GrantedRoom'
  BY <1>13, <1>16 DEF EndLogging, ThreadReplaced, frameVars, logVars, Adding, Swapping
<1>17. CASE Tick \/ UNCHANGED vars
  BY <1>13, <1>17 DEF Tick, vars, frameVars, logVars, Adding, Swapping
<1> QED BY <1>6, <1>7, <1>8, <1>9, <1>10, <1>11, <1>12, <1>14, <1>15, <1>16, <1>17
        DEF Next, Step, Control

\* Whatever the threads, the vectors exceed BUFFER_SZ - 1 by at most one
\* event per thread and the metadata events (trace_log.cpp:112-116).
THEOREM CapacityCorrect == Spec => []CapacityBound
<1>1. Init => CapacityBound /\ GrantedRoom
  <2> SUFFICES ASSUME Init PROVE CapacityBound /\ GrantedRoom
    OBVIOUS
  <2>1. Len(logged_events_) = 0 /\ Len(flush_events_) = 0 /\ metadata = 0
    BY EmptySeq DEF Init
  <2>2. Adding \subseteq Threads
    BY DEF Adding
  <2>3. Adding = {}
    BY DEF Adding, Init
  <2>4. Cardinality(Adding) = 0 /\ Cardinality(Threads) \in Nat
    BY <2>3, AddingFinite, FS_EmptySet, FS_CardinalityType
  <2> QED BY <2>1, <2>4 DEF CapacityBound, GrantedRoom, Limit
<1>2. /\ TypeOK /\ LockOwned /\ CapacityBound /\ GrantedRoom /\ [Next]_vars
      => CapacityBound' /\ GrantedRoom'
  BY CapacityStep
<1> QED BY <1>1, <1>2, TypeCorrect, LockCorrect, PTL DEF Spec

-----------------------------------------------------------------------------
(* The unlocked loop of Flush                                              *)

FlushPlaces == {"flush_wait", "flush_clear", "flush_loop", "header"}

\* Only a controller is ever inside Flush.
ControllersFlush == \A t \in Threads : pc[t] \in FlushPlaces => t \in Controllers

\* No step takes a thread outside Controllers into Flush.
LEMMA ControllersStep ==
  ASSUME TypeOK, ControllersFlush, [Next]_vars
  PROVE  ControllersFlush'
<1> USE DEF ControllersFlush, FlushPlaces
<1>1. pc \in [Threads -> Places]
  BY DEF TypeOK
<1>2. ASSUME NEW t \in Threads, Step(t)
      PROVE  ControllersFlush'
  BY <1>1, <1>2 DEF Step, AddLock, AddRecord, AddDiscard, AddEraseBegin, AddReturn, FlushSwap,
                    FlushClear, FlushBatch, FlushDone, WriteHeader, Goto
<1>3. ASSUME NEW t \in Threads, NEW c \in Calls, AddTraceEvent(t, c)
      PROVE  ControllersFlush'
  BY <1>1, <1>3 DEF AddTraceEvent, Goto
<1>4. ASSUME NEW t \in Controllers, Control(t)
      PROVE  ControllersFlush'
  BY <1>1, <1>4 DEF Control, CallFlush, Enable, Disable, BeginLogging, EndLogging,
                    AddThreadNameMetadataEvents, EnterFlush, Goto, frameVars
<1>5. ASSUME NEW t \in Threads, ThreadReplaced(t)
      PROVE  ControllersFlush'
  BY <1>5 DEF ThreadReplaced, frameVars
<1>6. CASE Tick \/ UNCHANGED vars
  BY <1>6 DEF Tick, vars, frameVars
<1> QED BY <1>2, <1>3, <1>4, <1>5, <1>6 DEF Next

\* With one controller, a step while a flush is in progress leaves
\* flush_events_ as it is: only a second flush would swap it away.
LEMMA FlushBufferStep ==
  ASSUME TypeOK, ControllersFlush, \A c, d \in Controllers : c = d,
         [Next]_vars, Flushing # {}
  PROVE  flush_events_' = flush_events_
<1>1. PICK u \in Controllers : pc[u] \in {"flush_clear", "flush_loop"}
  BY DEF Flushing, ControllersFlush, FlushPlaces
<1>2. ASSUME NEW t \in Threads, Step(t)
      PROVE  flush_events_' = flush_events_
  <2>1. ~FlushSwap(t)
    BY <1>1 DEF FlushSwap, ControllersFlush, FlushPlaces
  <2> QED BY <1>2, <2>1 DEF Step, AddLock, AddRecord, AddDiscard, AddEraseBegin, AddReturn,
                            FlushClear, FlushBatch, FlushDone, WriteHeader, logVars
<1>3. ASSUME NEW t \in Threads, NEW c \in Calls, AddTraceEvent(t, c)
      PROVE  flush_events_' = flush_events_
  BY <1>3 DEF AddTraceEvent, logVars
<1>4. ASSUME NEW t \in Controllers, Control(t)
      PROVE  flush_events_' = flush_events_
  BY <1>4 DEF Control, CallFlush, Enable, Disable, BeginLogging, EndLogging,
              AddThreadNameMetadataEvents, EnterFlush, logVars
<1>5. CASE Tick \/ UNCHANGED vars \/ \E t \in Threads : ThreadReplaced(t)
  BY <1>5 DEF Tick, ThreadReplaced, vars, logVars
<1> QED BY <1>2, <1>3, <1>4, <1>5 DEF Next

\* If one thread alone controls the log, the loop of Flush, which holds no
\* lock, writes exactly what its swap took out (trace_log.cpp:206-240).
THEOREM FlushBufferCorrect ==
  ASSUME \A c, d \in Controllers : c = d
  PROVE  Spec => FlushBufferStable
<1>1. Init => ControllersFlush
  BY DEF Init, ControllersFlush, FlushPlaces
<1>2. TypeOK /\ ControllersFlush /\ [Next]_vars => ControllersFlush'
  BY ControllersStep
<1>3. TypeOK /\ ControllersFlush /\ [Next]_vars
      => [Flushing # {} /\ Flushing' # {} => flush_events_' = flush_events_]_vars
  BY FlushBufferStep
<1> QED BY <1>1, <1>2, <1>3, TypeCorrect, PTL DEF Spec, FlushBufferStable

-----------------------------------------------------------------------------
(* The threads seen                                                        *)

\* The flag and a call in its critical section say that a thread is listed.
Listed ==
  \A t \in Threads : captured[t] \/ pc[t] = "add_body" => t \in ToSet(thread_ids_seen)

\* A list that gets an element it did not have stays without repetition.
LEMMA InjectiveAppend ==
  ASSUME NEW S, NEW s \in Seq(S), IsInjective(s), NEW e \in S, e \notin ToSet(s)
  PROVE  IsInjective(Append(s, e))
<1> DEFINE a == Append(s, e)
<1>1. /\ a \in Seq(S) /\ Len(a) = Len(s) + 1 /\ Len(s) \in Nat
      /\ \A i \in 1..Len(s) : a[i] = s[i]
      /\ a[Len(s) + 1] = e
  BY AppendProperties, LenProperties
<1>2. DOMAIN a = 1..(Len(s) + 1) /\ DOMAIN s = 1..Len(s)
  BY <1>1, LenProperties
<1>3. \A i \in 1..Len(s) : s[i] # e
  BY ToSetElements
<1>4. \A i \in 1..(Len(s) + 1) : i \in 1..Len(s) \/ i = Len(s) + 1
  BY <1>1
<1> HIDE DEF a
<1>5. \A i, j \in 1..Len(s) : s[i] = s[j] => i = j
  BY <1>2 DEF IsInjective
<1>6. \A i, j \in 1..(Len(s) + 1) : a[i] = a[j] => i = j
  BY <1>1, <1>3, <1>4, <1>5
<1> QED BY <1>2, <1>6 DEF IsInjective, a

\* A step that neither logs an event nor lists a thread.
LEMMA SeenKept ==
  ASSUME ThreadsSeen, Listed, thread_ids_seen' = thread_ids_seen,
         \A e \in ToSet(logged_events_)' \cup ToSet(flush_events_)' :
           e.thread \in ToSet(thread_ids_seen),
         \A t \in Threads : captured'[t] \/ pc'[t] = "add_body" => captured[t] \/ pc[t] = "add_body"
  PROVE  ThreadsSeen' /\ Listed'
BY DEF ThreadsSeen, Listed

LEMMA SeenStep ==
  ASSUME TypeOK, TypeOK', ThreadsSeen, Listed, [Next]_vars
  PROVE  ThreadsSeen' /\ Listed'
<1> DEFINE Seen == ToSet(thread_ids_seen)
           Logged == ToSet(logged_events_) \cup ToSet(flush_events_)
<1>1. /\ logged_events_ \in Seq(Events) /\ flush_events_ \in Seq(Events)
      /\ thread_ids_seen \in Seq(Threads)
      /\ pc \in [Threads -> Places] /\ captured \in [Threads -> BOOLEAN]
  BY DEF TypeOK
<1>2. \A e \in Logged : e.thread \in Seen
  BY DEF ThreadsSeen
<1>3. ASSUME NEW t \in Threads, AddLock(t)
      PROVE  ThreadsSeen' /\ Listed'
  <2>1. /\ captured' = [captured EXCEPT ![t] = TRUE] /\ pc' = [pc EXCEPT ![t] = "add_body"]
        /\ UNCHANGED <<logged_events_, flush_events_>>
    BY <1>3 DEF AddLock, CaptureThread, Goto, logVars
  <2>2. /\ IsInjective(thread_ids_seen')
        /\ ToSet(thread_ids_seen') = Seen \cup {t}
    <3>1. CASE captured[t] \/ t \in Seen
      <4>1. thread_ids_seen' = thread_ids_seen /\ t \in Seen
        BY <1>3, <3>1 DEF AddLock, CaptureThread, Listed
      <4> QED BY <4>1 DEF ThreadsSeen
    <3>2. CASE ~(captured[t] \/ t \in Seen)
      <4>1. thread_ids_seen' = Append(thread_ids_seen, t)
        BY <1>3, <3>2 DEF AddLock, CaptureThread
      <4> QED BY <1>1, <3>2, <4>1, Appended, InjectiveAppend DEF ThreadsSeen
    <3> QED BY <3>1, <3>2
  <2>3. ThreadsSeen'
    BY <1>2, <2>1, <2>2 DEF ThreadsSeen
  <2>4. Listed'
    BY <1>1, <2>1, <2>2 DEF Listed
  <2> QED BY <2>3, <2>4
<1>4. ASSUME NEW t \in Threads, AddReturn(t),
             \A e \in ToSet(logged_events_') : e.thread \in Seen
      PROVE  ThreadsSeen' /\ Listed'
  <2>1. /\ UNCHANGED <<thread_ids_seen, flush_events_, captured>>
        /\ pc' = [pc EXCEPT ![t] = "idle"]
    BY <1>4 DEF AddReturn, Goto
  <2> QED BY <1>1, <1>2, <1>4, <2>1, SeenKept
<1>5. ASSUME NEW t \in Threads, AddRecord(t)
      PROVE  ThreadsSeen' /\ Listed'
  <2> DEFINE e == NewEvent(next_uid, t, call[t].phase, time_point[t])
  <2>1. e.thread = t /\ t \in Seen
    BY <1>5 DEF NewEvent, AddRecord, Listed
  <2>2. e \in Events
    <3>1. logged_events_' \in Seq(Events)
      BY DEF TypeOK
    <3>2. logged_events_' = Append(logged_events_, e)
      BY <1>5 DEF AddRecord
    <3> HIDE DEF e
    <3>3. /\ Len(logged_events_') = Len(logged_events_) + 1 /\ Len(logged_events_) \in Nat
          /\ logged_events_'[Len(logged_events_) + 1] = e
      BY <1>1, <3>2, AppendProperties, LenProperties
    <3>4. Len(logged_events_) + 1 \in 1..Len(logged_events_')
      BY <3>3
    <3> QED BY <3>1, <3>3, <3>4, ElementOfSeq
  <2>3. ToSet(logged_events_') = ToSet(logged_events_) \cup {e}
    <3> HIDE DEF e
    <3> QED BY <1>1, <1>5, <2>2, Appended DEF AddRecord, e
  <2> HIDE DEF e
  <2> QED BY <1>2, <1>4, <1>5, <2>1, <2>3 DEF AddRecord
<1>6. ASSUME NEW t \in Threads, AddDiscard(t) \/ AddEraseBegin(t)
      PROVE  ThreadsSeen' /\ Listed'
  <2>1. ToSet(logged_events_') \subseteq ToSet(logged_events_)
    <3>1. CASE AddDiscard(t)
      BY <3>1 DEF AddDiscard
    <3>2. CASE AddEraseBegin(t)
      <4>1. /\ call[t].begin_id + 1 \in 1..Len(logged_events_)
            /\ logged_events_' = RemoveAt(logged_events_, call[t].begin_id + 1)
        BY <3>2, BeginIndex DEF AddEraseBegin
      <4> QED BY <1>1, <4>1, Removed
    <3> QED BY <1>6, <3>1, <3>2
  <2> QED BY <1>2, <1>4, <1>6, <2>1 DEF AddDiscard, AddEraseBegin
<1>7. ASSUME NEW t \in Threads,
             FlushSwap(t) \/ FlushClear(t) \/ FlushBatch(t) \/ FlushDone(t) \/ WriteHeader(t)
      PROVE  ThreadsSeen' /\ Listed'
  <2>1. ToSet(logged_events_') \cup ToSet(flush_events_') \subseteq Logged
    <3>1. ToSet(<<>>) = {}
      BY EmptySeq DEF ToSet
    <3> QED BY <1>7, <3>1 DEF FlushSwap, FlushClear, FlushBatch, FlushDone, WriteHeader, logVars
  <2>2. thread_ids_seen' = thread_ids_seen /\ captured' = captured
    BY <1>7 DEF FlushSwap, FlushClear, FlushBatch, FlushDone, WriteHeader
  <2>3. \A u \in Threads : pc'[u] = "add_body" => pc[u] = "add_body"
    BY <1>1, <1>7 DEF FlushSwap, FlushClear, FlushBatch, FlushDone, WriteHeader, Goto
  <2> QED BY <1>2, <2>1, <2>2, <2>3, SeenKept
<1>8. ASSUME NEW t \in Controllers, AddThreadNameMetadataEvents(t)
      PROVE  ThreadsSeen' /\ Listed'
  <2>1. /\ MetadataEvents \in Seq(Events)
        /\ Len(MetadataEvents) = Len(thread_ids_seen) /\ Len(thread_ids_seen) \in Nat
    BY MetadataType DEF TypeOK
  <2>2. \A i \in 1..Len(thread_ids_seen) : MetadataEvents[i].thread \in Seen
    <3>1. \A i \in 1..Len(thread_ids_seen) : MetadataEvents[i].thread = thread_ids_seen[i]
      BY DEF MetadataEvents, NewEvent
    <3> QED BY <1>1, <3>1, ToSetElements
  <2>3. /\ logged_events_' = logged_events_ \o MetadataEvents
        /\ UNCHANGED <<flush_events_, thread_ids_seen, captured, pc>>
    BY <1>8 DEF AddThreadNameMetadataEvents, frameVars
  <2>4. ToSet(logged_events_') = ToSet(logged_events_) \cup ToSet(MetadataEvents)
    BY <1>1, <2>1, <2>3, Concatenated
  <2>5. \A e \in ToSet(MetadataEvents) : e.thread \in Seen
    BY <2>1, <2>2, ToSetElements
  <2> QED BY <1>2, <2>3, <2>4, <2>5, SeenKept
<1>9. ASSUME UNCHANGED <<logVars, thread_ids_seen>>,
             \A t \in Threads : /\ captured'[t] => captured[t]
                                /\ pc'[t] = "add_body" => pc[t] = "add_body"
      PROVE  ThreadsSeen' /\ Listed'
  BY <1>2, <1>9, SeenKept DEF logVars
<1>10. ASSUME NEW t \in Threads, NEW c \in Calls, AddTraceEvent(t, c)
       PROVE  ThreadsSeen' /\ Listed'
  BY <1>1, <1>9, <1>10 DEF AddTraceEvent, Goto
<1>11. ASSUME NEW t \in Threads, ThreadReplaced(t)
       PROVE  ThreadsSeen' /\ Listed'
  BY <1>1, <1>9, <1>11 DEF ThreadReplaced, frameVars
<1>12. ASSUME NEW t \in Controllers, CallFlush(t) \/ Enable(t) \/ Disable(t) \/ BeginLogging(t)
       PROVE  ThreadsSeen' /\ Listed'
  BY <1>1, <1>9, <1>12 DEF CallFlush, Enable, Disable, BeginLogging, EnterFlush, Goto
<1>13. ASSUME NEW t \in Controllers, EndLogging(t)
       PROVE  ThreadsSeen' /\ Listed'
  BY <1>9, <1>13 DEF EndLogging, frameVars
<1>14. CASE Tick \/ UNCHANGED vars
  BY <1>9, <1>14 DEF Tick, vars, frameVars
<1> QED BY <1>3, <1>5, <1>6, <1>7, <1>8, <1>10, <1>11, <1>12, <1>13, <1>14
        DEF Next, Step, Control

\* Whatever the threads and however their ids are reused, every event belongs
\* to a thread that is listed, and none is listed twice (trace_log.cpp:124-139).
THEOREM ThreadsSeenCorrect == Spec => []ThreadsSeen
<1>1. ASSUME Init
      PROVE  ThreadsSeen /\ Listed
  <2>1. ToSet(<<>>) = {} /\ IsInjective(<<>>)
    BY EmptySeq DEF ToSet, IsInjective
  <2> QED BY <1>1, <2>1 DEF Init, ThreadsSeen, Listed
<1>2. TypeOK /\ TypeOK' /\ ThreadsSeen /\ Listed /\ [Next]_vars => ThreadsSeen' /\ Listed'
  BY SeenStep
<1> QED BY <1>1, <1>2, TypeCorrect, PTL DEF Spec

=============================================================================
