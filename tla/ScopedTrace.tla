---------------------------- MODULE ScopedTrace ----------------------------
(***************************************************************************)
(* The scope guards and the macros of event_trace.hpp over TraceLog.       *)
(*                                                                         *)
(* TRACE_EVENT opens a scope: a guard is built, and a BEGIN event recorded *)
(* if the category is enabled.  When the scope ends the guard reads the    *)
(* category again and records END.  A guard with a threshold passes the    *)
(* index its BEGIN had when it was recorded, so that TraceLog can erase    *)
(* the pair of a scope that was too short.                                 *)
(*                                                                         *)
(* A thread's scopes nest, so they form a stack, innermost last.  `due' is *)
(* the call of AddTraceEventInternal that a thread is about to make: the   *)
(* category was found enabled, the size of the buffer is not yet read.     *)
(***************************************************************************)
EXTENDS TraceLog, FiniteSetsExt

CONSTANTS
  MaxScopes,    \* bound: scopes open at once, over all threads
  MaxSwitches   \* bound: times the category is switched

ASSUME ScopedAssumption ==
  /\ {"BEGIN", "END", "INSTANT"} \subseteq PlainPhases
  /\ MaxScopes \in Nat
  /\ MaxSwitches \in Nat

VARIABLES
  scopes,            \* the stack of guards of each thread
  due,               \* arguments of the call each thread is about to make
  category_enabled,  \* the bool in the category entry every proxy refers to
  switches,          \* ghost: times the category was switched
  torn,              \* ghost: a scope of the thread was broken up, see Tear
  disturbed          \* ghost: an event left the log while a guard held the
                     \* index of a later one, or of any one at a flush

categoryVars == <<category_enabled, switches>>
scopeVars == <<scopes, due, categoryVars, torn, disturbed>>
allVars == <<vars, scopeVars>>

ScopedInit ==
  /\ Init
  /\ scopes = [t \in Threads |-> <<>>]
  /\ due = [t \in Threads |-> NoCall]
  /\ category_enabled = TRUE
  /\ switches = 0
  /\ torn = [t \in Threads |-> FALSE]
  /\ disturbed = FALSE

\* A guard; begin_uid and begin_ts are ghosts, the BEGIN event it stands for.
Guard(timed, threshold) ==
  [timed |-> timed, threshold |-> threshold, begin_id |-> EVENT_ID_NONE,
   begin_uid |-> 0, begin_ts |-> 0]

Guards == {Guard(FALSE, 0)} \cup {Guard(TRUE, d) : d \in Thresholds}

Inner(t) == Last(scopes[t])
Push(t, g) == scopes' = [scopes EXCEPT ![t] = Append(@, g)]
Pop(t) == scopes' = [scopes EXCEPT ![t] = Front(@)]
Owe(t, c) == due' = [due EXCEPT ![t] = c]

\* BEGIN or END of a scope of these threads is gone without the other.
Tear(broken) == torn' = [t \in Threads |-> torn[t] \/ t \in broken]

PlainCall(phase) == [phase |-> phase, begin_id |-> EVENT_ID_NONE, threshold |-> 0]

\* Mutant: the threshold is left at its default.
EndCallNoThreshold(g) == [phase |-> "END", begin_id |-> g.begin_id, threshold |-> 0]

EndCall(g) == [phase |-> "END", begin_id |-> g.begin_id, threshold |-> g.threshold]

ScopesOpen == MapThenSumSet(LAMBDA t : Len(scopes[t]), Threads)

\* A thread is between two statements of the program it traces.
Outside(t) == pc[t] = "idle" /\ due[t] = NoCall

\* Bound: there is a uid for the event the thread is about to record.
UidLeft == next_uid + Cardinality(Adding) + Cardinality({t \in Threads : due[t] # NoCall})
             <= MaxEvents

-----------------------------------------------------------------------------
(* INTERNAL_TRACE_EVENT_ADD_SCOPED and ..._SCOPED_IF_LONGER_THAN           *)

\* The guard is built and the category found enabled.
OpenScope(t, g) ==
  /\ Outside(t)
  /\ ScopesOpen < MaxScopes
  /\ UidLeft
  /\ category_enabled
  /\ Push(t, g)
  /\ Owe(t, PlainCall("BEGIN"))
  /\ UNCHANGED <<vars, categoryVars, torn, disturbed>>

OpenScopeDisabled(t, g) ==
  /\ Outside(t)
  /\ ScopesOpen < MaxScopes
  /\ ~category_enabled
  /\ Push(t, g)
  /\ UNCHANGED <<vars, due, categoryVars, torn, disturbed>>

\* AddTraceEvent returns to the macro, which hands the id to a timed guard.
BeginRecorded(t) ==
  /\ call[t].phase = "BEGIN"
  /\ AddRecord(t)
  /\ LET g == [Inner(t) EXCEPT !.begin_id = IF Inner(t).timed THEN EventId ELSE EVENT_ID_NONE,
                               !.begin_uid = next_uid,
                               !.begin_ts = time_point[t]]
     IN  scopes' = [scopes EXCEPT ![t] = Append(Front(@), g)]
  /\ UNCHANGED <<due, categoryVars, torn, disturbed>>

-----------------------------------------------------------------------------
(* ~scope_guard_base                                                       *)

CloseScope(t) ==
  /\ Outside(t)
  /\ scopes[t] # <<>>
  /\ UidLeft
  /\ category_enabled
  /\ Owe(t, EndCall(Inner(t)))
  /\ UNCHANGED <<vars, scopes, categoryVars, torn, disturbed>>

CloseScopeDisabled(t) ==
  /\ Outside(t)
  /\ scopes[t] # <<>>
  /\ ~category_enabled
  /\ Pop(t)
  /\ UNCHANGED <<vars, due, categoryVars, torn, disturbed>>

EndRecorded(t) ==
  /\ call[t].phase = "END"
  /\ AddRecord(t)
  /\ Pop(t)
  /\ UNCHANGED <<due, categoryVars, torn, disturbed>>

\* BEGIN, wherever it is by now, has no END.
EndDiscarded(t) ==
  /\ AddDiscard(t)
  /\ Pop(t)
  /\ Tear({t})
  /\ UNCHANGED <<due, categoryVars, disturbed>>

\* The guards that hold the index of a recorded BEGIN event.
Holding(t) ==
  {i \in 1..Len(scopes[t]) : scopes[t][i].timed /\ scopes[t][i].begin_uid # 0}

\* The threads whose pair of events is broken up when t erases the event at
\* its index: t itself unless that event is the BEGIN of its scope, and the
\* thread whose BEGIN or END it is.
Bereft(t) ==
  {u \in Threads :
     IF u = t THEN BeginEvent(t).uid # Inner(t).begin_uid
     ELSE BeginEvent(t).thread = u /\ BeginEvent(t).phase \in {"BEGIN", "END"}}

PairErased(t) ==
  /\ AddEraseBegin(t)
  /\ Pop(t)
  /\ Tear(Bereft(t))
  /\ disturbed' = (disturbed \/ \E u \in Threads \ {t} : \E i \in Holding(u) :
                                  scopes[u][i].begin_id > call[t].begin_id)
  /\ UNCHANGED <<due, categoryVars>>

-----------------------------------------------------------------------------
(* INTERNAL_TRACE_EVENT_ADD, and the size check all macros come to         *)

Instant(t) ==
  /\ Outside(t)
  /\ UidLeft
  /\ category_enabled
  /\ Owe(t, PlainCall("INSTANT"))
  /\ UNCHANGED <<vars, scopes, categoryVars, torn, disturbed>>

InstantRecorded(t) ==
  /\ call[t].phase = "INSTANT"
  /\ AddRecord(t)
  /\ UNCHANGED scopeVars

\* The call is made, and there is room.
Enter(t) ==
  /\ due[t] # NoCall
  /\ AddTraceEvent(t, due[t])
  /\ Owe(t, NoCall)
  /\ UNCHANGED <<scopes, categoryVars, torn, disturbed>>

\* The other outcome of the unlocked size check.
FullSeen == Swapping \/ Len(logged_events_) >= BUFFER_SZ

\* EVENT_ID_NONE is returned at once: a guard without BEGIN stays, a guard
\* without END is gone.
Dropped(t) ==
  /\ due[t] # NoCall
  /\ FullSeen
  /\ Owe(t, NoCall)
  /\ IF due[t].phase = "END" THEN Pop(t) ELSE UNCHANGED scopes
  /\ Tear(IF due[t].phase = "INSTANT" THEN {} ELSE {t})
  /\ UNCHANGED <<vars, categoryVars, disturbed>>

-----------------------------------------------------------------------------
(* The category, the flush                                                 *)

\* A filter is applied and turns the category on or off, at any moment.
SwitchCategory ==
  /\ switches < MaxSwitches
  /\ switches' = switches + 1
  /\ category_enabled' = ~category_enabled
  /\ Tear({t \in Threads : scopes[t] # <<>>})
  /\ UNCHANGED <<vars, scopes, due, disturbed>>

ScopedFlush(t) ==
  \/ /\ Outside(t)
     /\ CallFlush(t)
     /\ UNCHANGED scopeVars
  \/ /\ FlushSwap(t)
     /\ disturbed' = (disturbed \/ \E u \in Threads : Holding(u) # {})
     /\ UNCHANGED <<scopes, due, categoryVars, torn>>
  \/ /\ FlushClear(t) \/ FlushBatch(t) \/ FlushDone(t)
     /\ UNCHANGED scopeVars

Recording(t) ==
  \/ Enter(t)
  \/ Dropped(t)
  \/ AddLock(t) /\ UNCHANGED scopeVars
  \/ BeginRecorded(t)
  \/ EndRecorded(t)
  \/ EndDiscarded(t)
  \/ PairErased(t)
  \/ InstantRecorded(t)

Scoping(t) ==
  \/ \E g \in Guards : OpenScope(t, g) \/ OpenScopeDisabled(t, g)
  \/ CloseScope(t)
  \/ CloseScopeDisabled(t)
  \/ Instant(t)

ScopedNext ==
  \/ \E t \in Threads : Recording(t) \/ Scoping(t)
  \/ \E t \in Controllers : ScopedFlush(t)
  \/ SwitchCategory
  \/ Tick /\ UNCHANGED scopeVars

ScopedSpec == ScopedInit /\ [][ScopedNext]_allVars

-----------------------------------------------------------------------------
(* Properties                                                              *)

ScopesTypeOK ==
  /\ TypeOK
  /\ \A t \in Threads : \A i \in 1..Len(scopes[t]) :
       LET g == scopes[t][i]
       IN  /\ Guard(g.timed, g.threshold) \in Guards
           /\ g.begin_id \in Nat \cup {EVENT_ID_NONE}
           /\ g.begin_uid \in 0..MaxEvents
           /\ g.begin_ts \in 0..MaxTime
  /\ due \in [Threads -> Calls \cup {NoCall}]
  /\ category_enabled \in BOOLEAN
  /\ switches \in 0..MaxSwitches
  /\ torn \in [Threads -> BOOLEAN]
  /\ disturbed \in BOOLEAN

\* The index a guard keeps across its scope names the BEGIN event of that
\* scope (trace_log.cpp:150-163), as long as no flush and no erasure of an
\* earlier event by another thread comes in between: scopes of one thread
\* nest, so its own erasures are always behind the indices it still holds.
HeldIdsValid ==
  ~disturbed =>
    \A t \in Threads : \A i \in Holding(t) :
      LET g == scopes[t][i]
      IN  g.begin_id < Len(logged_events_) /\ logged_events_[g.begin_id + 1].uid = g.begin_uid

\* "If the elapsed time is < threshold time, the begin/end pair is erased"
\* (event_trace.hpp:253): END of a timed scope whose BEGIN was recorded
\* enters the log only if the scope lasted its threshold, unless a flush or
\* another thread's erasure has moved the event that the index named.  A
\* scope that lasted exactly its threshold is recorded, as this line says;
\* event_trace.hpp:109 and trace_log.cpp:141 speak of a greater duration.
RecordedLongEnough ==
  [][\A t \in Threads :
       /\ ~disturbed
       /\ call[t].phase = "END" /\ Inner(t).begin_uid # 0
       /\ next_uid' # next_uid /\ pc[t] = "add_body" /\ pc'[t] = "idle"
       => time_point[t] - Inner(t).begin_ts >= Inner(t).threshold]_allVars

\* "If the elapsed time is < threshold time, the begin/end pair is erased"
\* (event_trace.hpp:253): what closing a scope erases is its own BEGIN.
ErasesOwnBegin ==
  [][\A t \in Threads :
       withdrawn' # withdrawn /\ pc[t] = "add_body" /\ pc'[t] = "idle"
       => withdrawn' = withdrawn \cup {Inner(t).begin_uid}]_allVars

\* The events of a phase that a thread has in s.
Count(t, phase, s) == Cardinality({i \in 1..Len(s) : s[i].thread = t /\ s[i].phase = phase})

\* t's events in s open no scope that they do not close, and close none they
\* have not opened.
Balanced(t, s) ==
  /\ Count(t, "BEGIN", s) = Count(t, "END", s)
  /\ \A n \in 1..Len(s) :
       Count(t, "END", SubSeq(s, 1, n)) <= Count(t, "BEGIN", SubSeq(s, 1, n))

\* Once a thread has left all its scopes, its events in the trace are
\* balanced, however flushes split them and whatever other threads record,
\* unless one of its scopes was broken up: the category was switched inside
\* it, BEGIN or END found the buffer full, END was discarded because the
\* index of its BEGIN was past the end of the vector (trace_log.cpp:157-160),
\* or an erasure by an outdated index (181) took another event than the
\* BEGIN it was meant for.  "Records a pair of begin and end events"
\* (event_trace.hpp:70, 112) makes no exception; the code has these four.
TraceBalanced ==
  \A t \in Threads :
    scopes[t] = <<>> /\ ~torn[t] => Balanced(t, Pipeline)

=============================================================================
