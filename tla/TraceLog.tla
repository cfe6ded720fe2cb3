------------------------------ MODULE TraceLog ------------------------------
(***************************************************************************)
(* ibis::tool::event_trace::TraceLog: the process-wide event buffer.       *)
(*                                                                         *)
(* Any thread may record events (AddTraceEvent); the threads in            *)
(* Controllers also call Flush, SetEnabled, BeginLogging, EndLogging and   *)
(* AddThreadNameMetadataEvents.  `pc' is where a thread stands inside the  *)
(* TraceLog function it is executing:                                      *)
(*                                                                         *)
(*   add_wait    past the unlocked size check, before lock_                *)
(*   add_body    holds lock_, time stamp taken                             *)
(*   flush_wait  before lock_ in Flush                                     *)
(*   flush_clear holds lock_, the vectors are swapped, not yet cleared     *)
(*   flush_loop  lock_ released, writing flush_events_ batch by batch      *)
(*   header      BeginLogging after its flush, before the header           *)
(*                                                                         *)
(* An event is abstracted to the thread, phase and time stamp it carries   *)
(* and to `uid', a ghost: the order in which it entered the log.           *)
(***************************************************************************)
EXTENDS Integers, Sequences, FiniteSets, SequencesExt

CONSTANTS
  Threads,      \* threads that record events
  Controllers,  \* those that also flush, enable and frame the stream
  NoThread,     \* nobody: the owner of an unlocked mutex
  BUFFER_SZ,    \* trace_log.hpp: size at which events are thrown away
  BATCH_SZ,     \* trace_log.hpp: events per call of the output callback
  PlainPhases,  \* phases of events recorded without a threshold
  BeginIds,     \* values of threshold_begin_id a caller may hold
  Thresholds,   \* thresholds of IF_LONGER_THAN scopes
  MaxEvents,    \* bound: events recorded in a behaviour
  MaxTime,      \* bound: ticks of the steady clock
  MaxMarkers    \* bound: header and footer markers written

ASSUME TraceLogAssumption ==
  /\ IsFiniteSet(Threads)
  /\ Controllers \subseteq Threads
  /\ NoThread \notin Threads
  /\ BUFFER_SZ \in Nat \ {0}
  /\ BATCH_SZ \in Nat \ {0}
  /\ BeginIds \subseteq Nat
  /\ Thresholds \subseteq Nat
  /\ MaxEvents \in Nat
  /\ MaxTime \in Nat
  /\ MaxMarkers \in Nat

VARIABLES
  lock_,            \* owner of the mutex
  logged_events_,   \* vector new events are appended to
  flush_events_,    \* vector being written by Flush
  enabled_,
  thread_ids_seen,
  captured,         \* thread_local current_thread_id_captured
  pc,
  call,             \* arguments of the AddTraceEventInternal call in progress
  time_point,       \* its local: the time stamp taken under lock_
  cursor,           \* local of Flush: index of the next batch
  begin_logging,    \* is this thread's Flush part of a BeginLogging?
  now,              \* steady clock
  output,           \* events handed to the output callback
  markers,          \* header and footer, with their position in output
  next_uid,         \* ghost: uid of the next event
  withdrawn,        \* ghost: uids erased by a threshold scope
  metadata          \* ghost: number of metadata events ever logged

logVars   == <<logged_events_, flush_events_, output, next_uid, withdrawn, metadata>>
frameVars == <<pc, call, time_point, cursor, begin_logging>>
vars == <<lock_, logVars, frameVars, enabled_, thread_ids_seen, captured, now, markers>>

EVENT_ID_NONE == -1

NoCall == [phase |-> "NONE", begin_id |-> EVENT_ID_NONE, threshold |-> 0]

\* The calls of AddTraceEventInternal: a scope with a threshold passes the
\* id it got for its BEGIN event, every other event EVENT_ID_NONE.
Calls ==
  [phase : PlainPhases, begin_id : {EVENT_ID_NONE}, threshold : {0}]
    \cup [phase : {"END"}, begin_id : BeginIds \cup {EVENT_ID_NONE}, threshold : Thresholds]

NewEvent(uid, thread, phase, time) ==
  [uid |-> uid, thread |-> thread, phase |-> phase, ts |-> time]

Init ==
  /\ lock_ = NoThread
  /\ logged_events_ = <<>>
  /\ flush_events_ = <<>>
  /\ enabled_ = FALSE
  /\ thread_ids_seen = <<>>
  /\ captured = [t \in Threads |-> FALSE]
  /\ pc = [t \in Threads |-> "idle"]
  /\ call = [t \in Threads |-> NoCall]
  /\ time_point = [t \in Threads |-> 0]
  /\ cursor = [t \in Threads |-> 0]
  /\ begin_logging = [t \in Threads |-> FALSE]
  /\ now = 0
  /\ output = <<>>
  /\ markers = <<>>
  /\ next_uid = 1
  /\ withdrawn = {}
  /\ metadata = 0

-----------------------------------------------------------------------------
(* The mutex, and the state of a call.                                     *)

\* A mutant is a plausible bug in the definition that follows it; no
\* specification uses it.  KeepLock: a return that does not unlock.
KeepLock == UNCHANGED lock_

Acquire(t) == lock_ = NoThread /\ lock_' = t
Release    == lock_' = NoThread
Goto(t, place) == pc' = [pc EXCEPT ![t] = place]

Swapping == \E t \in Threads : pc[t] = "flush_clear"
Adding   == {t \in Threads : pc[t] \in {"add_wait", "add_body"}}
Flushing == {t \in Threads : pc[t] \in {"flush_clear", "flush_loop"}}

-----------------------------------------------------------------------------
(* AddTraceEvent                                                           *)

\* Mutant: the size is not checked at all.
RoomUnchecked == TRUE

\* logged_events_.size() is read without the lock.  While Flush swaps the
\* vectors the read is torn, and any size may be seen.
RoomSeen == Swapping \/ Len(logged_events_) < BUFFER_SZ

\* The unlocked check.  A caller that sees a full buffer returns
\* EVENT_ID_NONE and changes nothing.
AddTraceEvent(t, c) ==
  /\ pc[t] = "idle"
  /\ next_uid + Cardinality(Adding) <= MaxEvents
  /\ RoomSeen
  /\ call' = [call EXCEPT ![t] = c]
  /\ Goto(t, "add_wait")
  /\ UNCHANGED <<lock_, logVars, time_point, cursor, begin_logging,
                 enabled_, thread_ids_seen, captured, now, markers>>

\* Mutant: the thread_local flag alone decides, the list is not searched.
CaptureThreadByFlag(t) ==
  /\ captured' = [captured EXCEPT ![t] = TRUE]
  /\ thread_ids_seen' = IF captured[t] THEN thread_ids_seen ELSE Append(thread_ids_seen, t)

\* The calling thread's id is listed once, when its thread_local flag says
\* that it is new; an id the system has used before is found in the list.
CaptureThread(t) ==
  /\ captured' = [captured EXCEPT ![t] = TRUE]
  /\ thread_ids_seen' = IF captured[t] \/ t \in ToSet(thread_ids_seen)
                        THEN thread_ids_seen
                        ELSE Append(thread_ids_seen, t)

\* Mutant: the clock is read at some moment before the lock is taken.
AddLockTimeFirst(t) ==
  /\ pc[t] = "add_wait"
  /\ Acquire(t)
  /\ \E earlier \in 0..now : time_point' = [time_point EXCEPT ![t] = earlier]
  /\ CaptureThread(t)
  /\ Goto(t, "add_body")
  /\ UNCHANGED <<logVars, call, cursor, begin_logging, enabled_, now, markers>>

AddLock(t) ==
  /\ pc[t] = "add_wait"
  /\ Acquire(t)
  /\ time_point' = [time_point EXCEPT ![t] = now]
  /\ CaptureThread(t)
  /\ Goto(t, "add_body")
  /\ UNCHANGED <<logVars, call, cursor, begin_logging, enabled_, now, markers>>

\* Every return of the locked part releases the lock.
AddReturn(t) ==
  /\ Release
  /\ Goto(t, "idle")
  /\ call' = [call EXCEPT ![t] = NoCall]
  /\ time_point' = [time_point EXCEPT ![t] = 0]
  /\ UNCHANGED <<flush_events_, output, metadata, cursor, begin_logging,
                 enabled_, thread_ids_seen, captured, now, markers>>

HasBegin(t)    == call[t].begin_id > EVENT_ID_NONE
BeginLogged(t) == call[t].begin_id < Len(logged_events_)
BeginEvent(t)  == logged_events_[call[t].begin_id + 1]
\* Mutant: a scope one tick too short still counts as long enough.
LongEnoughLoose(t) == time_point[t] - BeginEvent(t).ts + 1 >= call[t].threshold

LongEnough(t)  == time_point[t] - BeginEvent(t).ts >= call[t].threshold

\* Mutant: the size after the append.
EventIdAfter == Len(logged_events_) + 1

\* The id AddTraceEventInternal returns when it appends: the vector's size.
EventId == Len(logged_events_)

AddRecord(t) ==
  /\ pc[t] = "add_body"
  /\ HasBegin(t) => BeginLogged(t) /\ LongEnough(t)
  /\ logged_events_' =
       Append(logged_events_, NewEvent(next_uid, t, call[t].phase, time_point[t]))
  /\ next_uid' = next_uid + 1
  /\ AddReturn(t)
  /\ UNCHANGED withdrawn

\* The BEGIN event is taken to be flushed already: END is not recorded.
AddDiscard(t) ==
  /\ pc[t] = "add_body"
  /\ HasBegin(t) /\ ~BeginLogged(t)
  /\ AddReturn(t)
  /\ UNCHANGED <<logged_events_, next_uid, withdrawn>>

\* Mutant: END is dropped, but BEGIN stays in the vector.
AddEraseNothing(t) ==
  /\ pc[t] = "add_body"
  /\ HasBegin(t) /\ BeginLogged(t) /\ ~LongEnough(t)
  /\ AddReturn(t)
  /\ UNCHANGED <<logged_events_, next_uid, withdrawn>>

\* The scope was shorter than its threshold: the event at the BEGIN index
\* is erased and END is not recorded.
AddEraseBegin(t) ==
  /\ pc[t] = "add_body"
  /\ HasBegin(t) /\ BeginLogged(t) /\ ~LongEnough(t)
  /\ logged_events_' = RemoveAt(logged_events_, call[t].begin_id + 1)
  /\ withdrawn' = withdrawn \cup {BeginEvent(t).uid}
  /\ AddReturn(t)
  /\ UNCHANGED next_uid

\* A thread ends and the system gives its id to a new one, whose
\* thread_local flag is clear.
ThreadReplaced(t) ==
  /\ pc[t] = "idle"
  /\ captured[t]
  /\ captured' = [captured EXCEPT ![t] = FALSE]
  /\ UNCHANGED <<lock_, logVars, frameVars, enabled_, thread_ids_seen, now, markers>>

-----------------------------------------------------------------------------
(* Flush                                                                   *)

\* t enters Flush; `framing' tells whether BeginLogging called it.
EnterFlush(t, framing) ==
  /\ pc[t] = "idle"
  /\ Goto(t, "flush_wait")
  /\ begin_logging' = [begin_logging EXCEPT ![t] = framing]
  /\ UNCHANGED <<call, time_point, cursor>>

CallFlush(t) ==
  /\ EnterFlush(t, FALSE)
  /\ UNCHANGED <<lock_, logVars, enabled_, thread_ids_seen, captured, now, markers>>

FlushSwap(t) ==
  /\ pc[t] = "flush_wait"
  /\ Acquire(t)
  /\ flush_events_' = logged_events_
  /\ logged_events_' = flush_events_
  /\ Goto(t, "flush_clear")
  /\ UNCHANGED <<output, next_uid, withdrawn, metadata, call, time_point, cursor,
                 begin_logging, enabled_, thread_ids_seen, captured, now, markers>>

\* Mutant: what was swapped into logged_events_ is not cleared.
FlushNoClear(t) ==
  /\ pc[t] = "flush_clear"
  /\ Release
  /\ Goto(t, "flush_loop")
  /\ UNCHANGED <<logVars, call, time_point, cursor, begin_logging, enabled_,
                 thread_ids_seen, captured, now, markers>>

\* Mutant: the other vector is cleared.
FlushClearOther(t) ==
  /\ pc[t] = "flush_clear"
  /\ flush_events_' = <<>>
  /\ Release
  /\ Goto(t, "flush_loop")
  /\ UNCHANGED <<logged_events_, output, next_uid, withdrawn, metadata, call, time_point,
                 cursor, begin_logging, enabled_, thread_ids_seen, captured, now, markers>>

FlushClear(t) ==
  /\ pc[t] = "flush_clear"
  /\ logged_events_' = <<>>
  /\ Release
  /\ Goto(t, "flush_loop")
  /\ UNCHANGED <<flush_events_, output, next_uid, withdrawn, metadata, call, time_point,
                 cursor, begin_logging, enabled_, thread_ids_seen, captured, now, markers>>

\* Mutant: an off-by-one at the end of flush_events_.
BatchShort(i) ==
  LET last == IF i + BATCH_SZ < Len(flush_events_) THEN i + BATCH_SZ
                                                   ELSE Len(flush_events_) - 1
  IN  SubSeq(flush_events_, i + 1, last)

\* The events of flush_events_ from position i + 1, at most BATCH_SZ.
Batch(i) ==
  LET last == IF i + BATCH_SZ < Len(flush_events_) THEN i + BATCH_SZ
                                                   ELSE Len(flush_events_)
  IN  SubSeq(flush_events_, i + 1, last)

\* One round of the loop, which holds no lock: whatever flush_events_ now is.
FlushBatch(t) ==
  /\ pc[t] = "flush_loop"
  /\ cursor[t] < Len(flush_events_)
  /\ output' = output \o Batch(cursor[t])
  /\ cursor' = [cursor EXCEPT ![t] = @ + BATCH_SZ]
  /\ UNCHANGED <<lock_, logged_events_, flush_events_, next_uid, withdrawn, metadata, pc,
                 call, time_point, begin_logging, enabled_, thread_ids_seen, captured,
                 now, markers>>

\* Mutant: the loop waits for the exact end, which a short last batch misses.
FlushDoneExact(t) ==
  /\ pc[t] = "flush_loop"
  /\ cursor[t] = Len(flush_events_)
  /\ Goto(t, IF begin_logging[t] THEN "header" ELSE "idle")
  /\ cursor' = [cursor EXCEPT ![t] = 0]
  /\ UNCHANGED <<lock_, logVars, call, time_point, begin_logging, enabled_,
                 thread_ids_seen, captured, now, markers>>

FlushDone(t) ==
  /\ pc[t] = "flush_loop"
  /\ cursor[t] >= Len(flush_events_)
  /\ Goto(t, IF begin_logging[t] THEN "header" ELSE "idle")
  /\ cursor' = [cursor EXCEPT ![t] = 0]
  /\ UNCHANGED <<lock_, logVars, call, time_point, begin_logging, enabled_,
                 thread_ids_seen, captured, now, markers>>

-----------------------------------------------------------------------------
(* SetEnabled, BeginLogging, EndLogging, AddThreadNameMetadataEvents       *)

\* SetEnabled(true) writes the flag without the lock and flushes.
Enable(t) ==
  /\ EnterFlush(t, FALSE)
  /\ enabled_' = TRUE
  /\ UNCHANGED <<lock_, logVars, thread_ids_seen, captured, now, markers>>

\* SetEnabled(false) clears the flag under the lock and flushes; when the
\* flag is clear already it returns without a flush.
Disable(t) ==
  /\ lock_ = NoThread
  /\ enabled_
  /\ enabled_' = FALSE
  /\ EnterFlush(t, FALSE)
  /\ UNCHANGED <<lock_, logVars, thread_ids_seen, captured, now, markers>>

MarkersDue == Cardinality({t \in Threads : begin_logging[t]})

\* SetEnabled(true), with its flush, comes before the header.
BeginLogging(t) ==
  /\ Len(markers) + MarkersDue < MaxMarkers
  /\ EnterFlush(t, TRUE)
  /\ enabled_' = TRUE
  /\ UNCHANGED <<lock_, logVars, thread_ids_seen, captured, now, markers>>

Mark(kind) == markers' = Append(markers, [kind |-> kind, at |-> Len(output)])

WriteHeader(t) ==
  /\ pc[t] = "header"
  /\ Mark("[")
  /\ Goto(t, "idle")
  /\ begin_logging' = [begin_logging EXCEPT ![t] = FALSE]
  /\ UNCHANGED <<lock_, logVars, call, time_point, cursor, enabled_, thread_ids_seen,
                 captured, now>>

\* The footer is written at once: EndLogging does not flush.
EndLogging(t) ==
  /\ pc[t] = "idle"
  /\ Len(markers) + MarkersDue < MaxMarkers
  /\ Mark("]")
  /\ UNCHANGED <<lock_, logVars, frameVars, enabled_, thread_ids_seen, captured, now>>

\* Mutant: the events carry a default-constructed thread id.
MetadataOfNobody ==
  [i \in 1..Len(thread_ids_seen) |-> NewEvent(next_uid + i - 1, NoThread, "METADATA", now)]

MetadataEvents ==
  [i \in 1..Len(thread_ids_seen) |->
     NewEvent(next_uid + i - 1, thread_ids_seen[i], "METADATA", now)]

\* One METADATA event per thread seen, with neither lock nor size check.  It
\* may come between the size check of other threads and their appends; the
\* guard on the lock leaves out the data race with a critical section.
AddThreadNameMetadataEvents(t) ==
  /\ pc[t] = "idle"
  /\ lock_ = NoThread
  /\ Len(thread_ids_seen) > 0
  /\ next_uid + Cardinality(Adding) + Len(thread_ids_seen) <= MaxEvents + 1
  /\ logged_events_' = logged_events_ \o MetadataEvents
  /\ next_uid' = next_uid + Len(thread_ids_seen)
  /\ metadata' = metadata + Len(thread_ids_seen)
  /\ UNCHANGED <<lock_, flush_events_, output, withdrawn, frameVars, enabled_,
                 thread_ids_seen, captured, now, markers>>

Tick ==
  /\ now < MaxTime
  /\ now' = now + 1
  /\ UNCHANGED <<lock_, logVars, frameVars, enabled_, thread_ids_seen, captured, markers>>

-----------------------------------------------------------------------------
(* What a thread goes on to do once it is inside a function of TraceLog.   *)
Step(t) ==
  \/ AddLock(t)
  \/ AddRecord(t)
  \/ AddDiscard(t)
  \/ AddEraseBegin(t)
  \/ FlushSwap(t)
  \/ FlushClear(t)
  \/ FlushBatch(t)
  \/ FlushDone(t)
  \/ WriteHeader(t)

Control(t) ==
  \/ CallFlush(t)
  \/ Enable(t)
  \/ Disable(t)
  \/ BeginLogging(t)
  \/ EndLogging(t)
  \/ AddThreadNameMetadataEvents(t)

Next ==
  \/ \E t \in Threads : Step(t)
  \/ \E t \in Threads, c \in Calls : AddTraceEvent(t, c)
  \/ \E t \in Threads : ThreadReplaced(t)
  \/ \E t \in Controllers : Control(t)
  \/ Tick

Spec == Init /\ [][Next]_vars

-----------------------------------------------------------------------------
(* Properties                                                              *)

Events == [uid : Nat, thread : Threads, phase : PlainPhases \cup {"END", "METADATA"}, ts : Nat]

Places ==
  {"idle", "add_wait", "add_body", "flush_wait", "flush_clear", "flush_loop", "header"}

\* Every variable holds a value of its type.
TypeOK ==
  /\ lock_ \in Threads \cup {NoThread}
  /\ logged_events_ \in Seq(Events)
  /\ flush_events_ \in Seq(Events)
  /\ enabled_ \in BOOLEAN
  /\ thread_ids_seen \in Seq(Threads)
  /\ captured \in [Threads -> BOOLEAN]
  /\ pc \in [Threads -> Places]
  /\ call \in [Threads -> Calls \cup {NoCall}]
  /\ time_point \in [Threads -> Nat]
  /\ cursor \in [Threads -> Nat]
  /\ begin_logging \in [Threads -> BOOLEAN]
  /\ now \in Nat
  /\ output \in Seq(Events)
  /\ markers \in Seq([kind : {"[", "]"}, at : Nat])
  /\ next_uid \in Nat \ {0}
  /\ withdrawn \in SUBSET Nat
  /\ metadata \in Nat

\* The mutex is held exactly by the thread inside a critical section.
LockOwned ==
  \A t \in Threads : lock_ = t <=> pc[t] \in {"add_body", "flush_clear"}

\* What the unlocked size check of AddTraceEvent (trace_log.cpp:112) really
\* guarantees: each thread can pass it once while there is room, so the
\* vectors exceed BUFFER_SZ - 1 by at most one event per thread, and by the
\* metadata events, which are never checked.
CapacityBound ==
  LET limit == BUFFER_SZ - 1 + Cardinality(Threads) + metadata
  IN  Len(logged_events_) <= limit /\ Len(flush_events_) <= limit

\* Every logged event belongs to a thread that AddThreadNameMetadataEvents
\* will name, and no thread is named twice, though thread ids are reused and
\* the flag that guards the search is thread_local (trace_log.cpp:124-139).
ThreadsSeen ==
  /\ IsInjective(thread_ids_seen)
  /\ \A e \in ToSet(logged_events_) \cup ToSet(flush_events_) :
       e.thread \in ToSet(thread_ids_seen)

-----------------------------------------------------------------------------
(* The pipeline: delivered, then committed to the flush in progress, then  *)
(* open.  With one flush at a time every event is in exactly one place.    *)

Remaining(t) == SubSeq(flush_events_, cursor[t] + 1, Len(flush_events_))

Pending ==
  IF Flushing = {} THEN <<>> ELSE Remaining(CHOOSE t \in Flushing : TRUE)

Open == IF Swapping THEN <<>> ELSE logged_events_

Pipeline == output \o Pending \o Open

Uids(s) == [i \in 1..Len(s) |-> s[i].uid]

\* The trace is in time order from the output file back to the buffer: the
\* time stamp is taken under the lock that orders the appends
\* (trace_log.cpp:116-121), and batches are written in order.
StreamInTimeOrder ==
  \A i, j \in 1..Len(Pipeline) : i < j => Pipeline[i].ts <= Pipeline[j].ts

\* With one thread in Flush at a time, an event is delivered once or still
\* waits or was withdrawn by a threshold scope; events keep their order
\* (swap, clear and the unlocked loop of trace_log.cpp:206-240).
NothingLost ==
  /\ \A i, j \in 1..Len(Pipeline) : i < j => Pipeline[i].uid < Pipeline[j].uid
  /\ {Pipeline[i].uid : i \in 1..Len(Pipeline)} \cap withdrawn = {}
  /\ {Pipeline[i].uid : i \in 1..Len(Pipeline)} \cup withdrawn = 1..(next_uid - 1)

\* "Flushes all logged data to the callback" (trace_log.hpp:204): when no
\* thread is inside TraceLog, every event was handed over once, is still
\* logged, or was withdrawn by a threshold scope.
FlushDeliversAll ==
  (\A t \in Threads : pc[t] = "idle") =>
    /\ IsInjective(Uids(output \o logged_events_))
    /\ ToSet(Uids(output \o logged_events_)) \cup withdrawn = 1..(next_uid - 1)

\* flush_events_ is not touched between the swap and the end of the unlocked
\* loop that reads it (trace_log.cpp:228-239).
FlushBufferStable ==
  [][Flushing # {} /\ Flushing' # {} => flush_events_' = flush_events_]_vars

\* The detailed log implements the channel.
Channel == INSTANCE EventChannel WITH
  next      <- next_uid,
  open      <- Uids(Open),
  committed <- Uids(Pending),
  delivered <- Uids(output),
  withdrawn <- withdrawn

\* Events pass from the callers to the output callback as through a
\* first-in first-out channel (AddTraceEvent and Flush as a whole).
ImplementsChannel == Channel!ChannelSpec

\* Flush, once it has the lock, returns however many events other threads
\* record meanwhile: the loop reads only what was swapped out.
FlushReturns ==
  \A t \in Controllers :
    pc[t] \in {"flush_clear", "flush_loop", "header"} ~> pc[t] = "idle"

=============================================================================
