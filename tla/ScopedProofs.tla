---------------------------- MODULE ScopedProofs ----------------------------
(***************************************************************************)
(* The index a guard keeps of its BEGIN event, for any number of threads,  *)
(* scopes and thresholds: as long as no flush and no erasure by another    *)
(* thread comes in between, it names that event, and so only scopes that   *)
(* lasted their threshold get an END event.                                *)
(***************************************************************************)
EXTENDS ScopedTrace, TraceLogProofs

USE TraceLogAssumption, ScopedAssumption

\* What the theorems assume: calls may pass any index.
AnyBeginId == Nat \subseteq BeginIds

-----------------------------------------------------------------------------
(* Stacks                                                                  *)

\* A guard has an index exactly if it is timed and its BEGIN was recorded.
GuardStates ==
  {g \in [timed : BOOLEAN, threshold : Nat, begin_id : Nat \cup {EVENT_ID_NONE},
          begin_uid : Nat, begin_ts : Nat] :
     IF g.timed THEN /\ g.threshold \in Thresholds
                     /\ g.begin_uid = 0 <=> g.begin_id = EVENT_ID_NONE
                ELSE g.threshold = 0 /\ g.begin_id = EVENT_ID_NONE}

StackType ==
  /\ scopes \in [Threads -> Seq(GuardStates)]
  /\ due \in [Threads -> Calls \cup {NoCall}]

\* The innermost guard, and the stack without it.
LEMMA StackPop ==
  ASSUME NEW S, NEW s \in Seq(S), s # <<>>
  PROVE  /\ Len(s) \in Nat /\ Len(s) >= 1
         /\ Last(s) = s[Len(s)] /\ Last(s) \in S
         /\ Front(s) \in Seq(S) /\ Len(Front(s)) = Len(s) - 1
         /\ \A i \in 1..(Len(s) - 1) : Front(s)[i] = s[i]
<1>1. Len(s) \in Nat /\ Len(s) >= 1
  BY LenProperties, EmptySeq
<1>2. \A i \in 1..(Len(s) - 1) : s[i] \in S
  BY <1>1, ElementOfSeq
<1>3. /\ Front(s) \in Seq(S) /\ Len(Front(s)) = Len(s) - 1
      /\ \A i \in 1..(Len(s) - 1) : Front(s)[i] = s[i]
  <2> DEFINE n == Len(s) - 1
  <2>1. n \in Nat
    BY <1>1
  <2> HIDE DEF n
  <2>2. 1 \in Int /\ n \in Int /\ \A i \in 1..n : s[i] \in S
    BY <1>2, <2>1 DEF n
  <2>3. /\ SubSeq(s, 1, n) \in Seq(S)
        /\ Len(SubSeq(s, 1, n)) = IF 1 <= n THEN n - 1 + 1 ELSE 0
        /\ \A i \in 1..(n - 1 + 1) : SubSeq(s, 1, n)[i] = s[1 + i - 1]
    BY <2>2, SubSeqProperties
  <2>4. Len(SubSeq(s, 1, n)) = n /\ \A i \in 1..n : SubSeq(s, 1, n)[i] = s[i]
    BY <2>1, <2>3
  <2>5. Front(s) = SubSeq(s, 1, n)
    BY DEF Front, n
  <2> QED BY <2>3, <2>4, <2>5 DEF n
<1>4. Last(s) = s[Len(s)] /\ Last(s) \in S
  BY <1>1, ElementOfSeq DEF Last
<1> QED BY <1>1, <1>3, <1>4

\* A guard on top of a stack.
LEMMA StackPush ==
  ASSUME NEW S, NEW s \in Seq(S), NEW g \in S
  PROVE  /\ Len(s) \in Nat
         /\ Append(s, g) \in Seq(S) /\ Append(s, g) # <<>>
         /\ Len(Append(s, g)) = Len(s) + 1
         /\ \A i \in 1..Len(s) : Append(s, g)[i] = s[i]
         /\ Append(s, g)[Len(s) + 1] = g
         /\ Last(Append(s, g)) = g
<1>1. /\ Len(s) \in Nat
      /\ Append(s, g) \in Seq(S)
      /\ Len(Append(s, g)) = Len(s) + 1
      /\ \A i \in 1..Len(s) : Append(s, g)[i] = s[i]
      /\ Append(s, g)[Len(s) + 1] = g
  BY AppendProperties, LenProperties
<1>2. Append(s, g) # <<>>
  BY <1>1, EmptySeq
<1> QED BY <1>1, <1>2 DEF Last

\* A new guard holds no index.
LEMMA NewGuard ==
  ASSUME NEW g \in Guards
  PROVE  g \in GuardStates /\ g.begin_uid = 0 /\ g.begin_ts = 0 /\ g.threshold \in Nat
<1>1. \E timed \in BOOLEAN, d \in Nat :
        g = Guard(timed, d) /\ IF timed THEN d \in Thresholds ELSE d = 0
  BY DEF Guards
<1>2. PICK timed \in BOOLEAN, d \in Nat :
        g = Guard(timed, d) /\ IF timed THEN d \in Thresholds ELSE d = 0
  BY <1>1
<1> QED BY <1>2 DEF Guard, GuardStates, EVENT_ID_NONE

\* The END call of a guard is a call of AddTraceEventInternal.
LEMMA ScopeCalls ==
  ASSUME AnyBeginId
  PROVE  /\ PlainCall("BEGIN") \in Calls
         /\ PlainCall("INSTANT") \in Calls
         /\ \A g \in GuardStates : EndCall(g) \in Calls
<1>1. PlainCall("BEGIN") \in Calls /\ PlainCall("INSTANT") \in Calls
  BY DEF PlainCall, Calls
<1>2. ASSUME NEW g \in GuardStates
      PROVE  EndCall(g) \in Calls
  <2>1. CASE g.timed
    BY <2>1 DEF GuardStates, EndCall, Calls, AnyBeginId
  <2>2. CASE ~g.timed
    BY <2>2 DEF GuardStates, EndCall, Calls
  <2> QED BY <2>1, <2>2
<1> QED BY <1>1, <1>2

-----------------------------------------------------------------------------
(* A program of scopes is a program of TraceLog                            *)

\* Every step of the scopes is one of the log, or leaves it alone.
LEMMA ScopesUseLog ==
  ASSUME StackType, [ScopedNext]_allVars
  PROVE  [Next]_vars
<1>1. ASSUME NEW t \in Threads, Recording(t)
      PROVE  [Next]_vars
  <2>1. CASE Enter(t)
    BY <2>1 DEF Enter, StackType, Next
  <2>2. CASE Dropped(t)
    BY <2>2 DEF Dropped
  <2> QED BY <1>1, <2>1, <2>2
          DEF Recording, BeginRecorded, EndRecorded, EndDiscarded, PairErased, InstantRecorded,
              Next, Step
<1>2. ASSUME NEW t \in Threads, Scoping(t)
      PROVE  UNCHANGED vars
  BY <1>2 DEF Scoping, OpenScope, OpenScopeDisabled, CloseScope, CloseScopeDisabled, Instant
<1>3. ASSUME NEW t \in Controllers, ScopedFlush(t)
      PROVE  [Next]_vars
  BY <1>3 DEF ScopedFlush, Next, Step, Control
<1>4. CASE SwitchCategory \/ (Tick /\ UNCHANGED scopeVars) \/ UNCHANGED allVars
  BY <1>4 DEF SwitchCategory, Next, allVars
<1> QED BY <1>1, <1>2, <1>3, <1>4 DEF ScopedNext

-----------------------------------------------------------------------------
(* Guards and the calls made for them                                      *)

\* The BEGIN call is made for a guard without an index, the END call for the
\* innermost guard.
MadeFor(t, c) ==
  \/ c = PlainCall("BEGIN") /\ scopes[t] # <<>> /\ Inner(t).begin_uid = 0
  \/ c = PlainCall("INSTANT")
  \/ scopes[t] # <<>> /\ c = EndCall(Inner(t))

\* So is a call that is due, and its thread is not inside TraceLog yet.
CallingOf(t) ==
  /\ pc[t] \in {"add_wait", "add_body"} => MadeFor(t, call[t])
  /\ due[t] # NoCall => pc[t] = "idle" /\ MadeFor(t, due[t])

Calling == \A t \in Threads : CallingOf(t)

\* The phase of a call tells which.
LEMMA CallFacts ==
  ASSUME Calling, NEW t \in Threads, pc[t] \in {"add_wait", "add_body"}
  PROVE  /\ call[t].phase = "BEGIN" => scopes[t] # <<>> /\ Inner(t).begin_uid = 0 /\ ~HasBegin(t)
         /\ call[t].phase = "END" \/ HasBegin(t) => scopes[t] # <<>> /\ call[t] = EndCall(Inner(t))
<1>1. \A phase : /\ PlainCall(phase).phase = phase
                 /\ PlainCall(phase).begin_id = EVENT_ID_NONE
  BY DEF PlainCall
<1>2. \A g : EndCall(g).phase = "END"
  BY DEF EndCall
<1>3. "BEGIN" # "END" /\ "BEGIN" # "INSTANT" /\ "INSTANT" # "END"
  OBVIOUS
<1>4. ~(EVENT_ID_NONE > EVENT_ID_NONE)
  BY DEF EVENT_ID_NONE
<1>5. CASE call[t] = PlainCall("BEGIN") /\ scopes[t] # <<>> /\ Inner(t).begin_uid = 0
  BY <1>1, <1>3, <1>4, <1>5 DEF HasBegin
<1>6. CASE call[t] = PlainCall("INSTANT")
  BY <1>1, <1>3, <1>4, <1>6 DEF HasBegin
<1>7. CASE scopes[t] # <<>> /\ call[t] = EndCall(Inner(t))
  BY <1>2, <1>3, <1>7
<1> QED BY <1>5, <1>6, <1>7 DEF Calling, CallingOf, MadeFor

\* A call that is due is not nothing.
LEMMA DueFacts ==
  ASSUME Calling, NEW t \in Threads, due[t] # NoCall
  PROVE  /\ pc[t] = "idle"
         /\ due[t].phase = "END" => scopes[t] # <<>>
         /\ due[t].phase = "BEGIN" => scopes[t] # <<>> /\ Inner(t).begin_uid = 0
<1>1. \A phase : PlainCall(phase).phase = phase
  BY DEF PlainCall
<1>2. \A g : EndCall(g).phase = "END"
  BY DEF EndCall
<1> QED BY <1>1, <1>2 DEF Calling, CallingOf, MadeFor

\* What a step may do to the guards, besides nothing.
Opens(t, g) ==
  /\ g \in Guards
  /\ Outside(t)
  /\ Push(t, g)
  /\ due' = due \/ Owe(t, PlainCall("BEGIN"))
  /\ UNCHANGED vars

Closes(t) ==
  /\ scopes[t] # <<>>
  /\ Pop(t)
  /\ UNCHANGED vars \/ pc' = [pc EXCEPT ![t] = "idle"]

StackStep ==
  \/ UNCHANGED scopes
  \/ \E t \in Threads, g \in Guards : Opens(t, g)
  \/ \E t \in Threads : BeginRecorded(t) \/ Closes(t)

\* Every step does one of these to the guards.
LEMMA StackSteps ==
  ASSUME TypeOK, StackType, Calling, [ScopedNext]_allVars
  PROVE  StackStep
<1> USE DEF StackStep
<1>1. ASSUME NEW t \in Threads, Recording(t)
      PROVE  StackStep
  <2>1. ASSUME EndRecorded(t) \/ EndDiscarded(t) \/ PairErased(t)
        PROVE  Closes(t)
    <3>1. pc[t] = "add_body" /\ AddReturn(t) /\ Pop(t) /\ (call[t].phase = "END" \/ HasBegin(t))
      BY <2>1 DEF EndRecorded, EndDiscarded, PairErased, AddRecord, AddDiscard, AddEraseBegin
    <3>2. scopes[t] # <<>>
      BY <3>1, CallFacts
    <3> QED BY <3>1, <3>2 DEF Closes, AddReturn, Goto
  <2>2. CASE Dropped(t)
    BY <2>2, DueFacts DEF Dropped, Closes
  <2> QED BY <1>1, <2>1, <2>2 DEF Recording, Enter, InstantRecorded, scopeVars
<1>2. ASSUME NEW t \in Threads, NEW g \in Guards, OpenScope(t, g) \/ OpenScopeDisabled(t, g)
      PROVE  Opens(t, g)
  BY <1>2 DEF OpenScope, OpenScopeDisabled, Opens
<1>3. ASSUME NEW t \in Threads, CloseScopeDisabled(t)
      PROVE  Closes(t)
  BY <1>3 DEF CloseScopeDisabled, Closes
<1>4. ASSUME NEW t \in Threads, CloseScope(t) \/ Instant(t)
      PROVE  UNCHANGED scopes
  BY <1>4 DEF CloseScope, Instant
<1>5. ASSUME NEW t \in Controllers, ScopedFlush(t)
      PROVE  UNCHANGED scopes
  BY <1>5 DEF ScopedFlush, scopeVars
<1>6. CASE SwitchCategory \/ (Tick /\ UNCHANGED scopeVars) \/ UNCHANGED allVars
  BY <1>6 DEF SwitchCategory, allVars, scopeVars
<1> QED BY <1>1, <1>2, <1>3, <1>4, <1>5, <1>6 DEF ScopedNext, Scoping

\* The guard BeginRecorded leaves on top.
Begun(t) ==
  [Inner(t) EXCEPT !.begin_id = IF Inner(t).timed THEN EventId ELSE EVENT_ID_NONE,
                   !.begin_uid = next_uid,
                   !.begin_ts = time_point[t]]

\* It is a guard that has an index exactly if it is timed.
LEMMA BegunGuard ==
  ASSUME TypeOK, StackType, NEW t \in Threads, scopes[t] # <<>>
  PROVE  Begun(t) \in GuardStates
<1>1. Inner(t) \in GuardStates
  BY StackPop DEF Inner, StackType
<1>2. next_uid \in Nat /\ next_uid # 0 /\ time_point[t] \in Nat /\ EventId \in Nat
  BY LenProperties DEF TypeOK, EventId
<1>3. -1 \notin Nat
  OBVIOUS
<1> QED BY <1>1, <1>2, <1>3 DEF Begun, GuardStates, EVENT_ID_NONE

\* A recorded BEGIN belongs to the innermost guard.
LEMMA BeginFacts ==
  ASSUME TypeOK, StackType, Calling, NEW t \in Threads, BeginRecorded(t)
  PROVE  /\ scopes[t] # <<>> /\ pc[t] = "add_body"
         /\ scopes' = [scopes EXCEPT ![t] = Append(Front(@), Begun(t))]
         /\ Begun(t) \in GuardStates
         /\ pc' = [pc EXCEPT ![t] = "idle"]
<1>1. call[t].phase = "BEGIN" /\ pc[t] = "add_body" /\ AddReturn(t)
  BY DEF BeginRecorded, AddRecord
<1>2. scopes[t] # <<>>
  BY <1>1, CallFacts
<1>3. scopes' = [scopes EXCEPT ![t] = Append(Front(@), Begun(t))]
  BY DEF BeginRecorded, Begun
<1> QED BY <1>1, <1>2, <1>3, BegunGuard DEF AddReturn, Goto

\* Every step keeps the type of the calls that are due.
LEMMA DueTypeStep ==
  ASSUME AnyBeginId, StackType, [ScopedNext]_allVars
  PROVE  due' \in [Threads -> Calls \cup {NoCall}]
<1>1. due \in [Threads -> Calls \cup {NoCall}]
  BY DEF StackType
<1>2. ASSUME NEW t \in Threads, NEW c \in Calls \cup {NoCall}, Owe(t, c)
      PROVE  due' \in [Threads -> Calls \cup {NoCall}]
  BY <1>1, <1>2 DEF Owe
<1>3. ASSUME NEW t \in Threads, CloseScope(t)
      PROVE  due' \in [Threads -> Calls \cup {NoCall}]
  <2>1. Inner(t) \in GuardStates
    BY <1>3, StackPop DEF CloseScope, Inner, StackType
  <2> QED BY <1>2, <1>3, <2>1, ScopeCalls DEF CloseScope
<1>4. ASSUME NEW t \in Threads, Recording(t)
      PROVE  due' \in [Threads -> Calls \cup {NoCall}]
  BY <1>1, <1>2, <1>4 DEF Recording, Enter, Dropped, BeginRecorded, EndRecorded, EndDiscarded,
                          PairErased, InstantRecorded, scopeVars
<1>5. ASSUME NEW t \in Threads, NEW g \in Guards, OpenScope(t, g) \/ OpenScopeDisabled(t, g)
      PROVE  due' \in [Threads -> Calls \cup {NoCall}]
  BY <1>1, <1>2, <1>5, ScopeCalls DEF OpenScope, OpenScopeDisabled
<1>6. ASSUME NEW t \in Threads, Instant(t) \/ CloseScopeDisabled(t)
      PROVE  due' \in [Threads -> Calls \cup {NoCall}]
  BY <1>1, <1>2, <1>6, ScopeCalls DEF Instant, CloseScopeDisabled
<1>7. ASSUME NEW t \in Controllers, ScopedFlush(t)
      PROVE  due' \in [Threads -> Calls \cup {NoCall}]
  BY <1>1, <1>7 DEF ScopedFlush, scopeVars
<1>8. CASE SwitchCategory \/ (Tick /\ UNCHANGED scopeVars) \/ UNCHANGED allVars
  BY <1>1, <1>8 DEF SwitchCategory, scopeVars, allVars
<1> QED BY <1>3, <1>4, <1>5, <1>6, <1>7, <1>8 DEF ScopedNext, Scoping

\* Every step keeps the type of the stacks.
LEMMA StackTypeStep ==
  ASSUME AnyBeginId, TypeOK, StackType, Calling, [ScopedNext]_allVars
  PROVE  StackType'
<1> SUFFICES scopes' \in [Threads -> Seq(GuardStates)]
  BY DueTypeStep DEF StackType
<1>1. ASSUME NEW t \in Threads, NEW g \in Guards, Opens(t, g)
      PROVE  scopes' \in [Threads -> Seq(GuardStates)]
  <2>1. Append(scopes[t], g) \in Seq(GuardStates)
    BY NewGuard, AppendProperties DEF StackType
  <2> QED BY <1>1, <2>1 DEF Opens, Push, StackType
<1>2. ASSUME NEW t \in Threads, BeginRecorded(t)
      PROVE  scopes' \in [Threads -> Seq(GuardStates)]
  <2>1. Front(scopes[t]) \in Seq(GuardStates)
    BY <1>2, BeginFacts, StackPop DEF StackType
  <2>2. Append(Front(scopes[t]), Begun(t)) \in Seq(GuardStates)
    BY <1>2, <2>1, BeginFacts, AppendProperties
  <2> QED BY <1>2, <2>2, BeginFacts DEF StackType
<1>3. ASSUME NEW t \in Threads, Closes(t)
      PROVE  scopes' \in [Threads -> Seq(GuardStates)]
  <2>1. Front(scopes[t]) \in Seq(GuardStates)
    BY <1>3, StackPop DEF StackType, Closes
  <2> QED BY <1>3, <2>1 DEF Closes, Pop, StackType
<1>4. CASE UNCHANGED scopes
  BY <1>4 DEF StackType
<1> QED BY <1>1, <1>2, <1>3, <1>4, StackSteps DEF StackStep

\* Every step keeps it.
LEMMA CallingStep ==
  ASSUME TypeOK, StackType, Calling, [ScopedNext]_allVars
  PROVE  Calling'
<1>1. /\ pc \in [Threads -> Places] /\ call \in [Threads -> Calls \cup {NoCall}]
      /\ scopes \in [Threads -> Seq(GuardStates)]
      /\ due \in [Threads -> Calls \cup {NoCall}]
  BY DEF TypeOK, StackType
\* It concerns one thread at a time.
<1>2. ASSUME NEW t \in Threads, CallingOf(t)',
             \A u \in Threads \ {t} :
               pc'[u] = pc[u] /\ call'[u] = call[u] /\ scopes'[u] = scopes[u] /\ due'[u] = due[u]
      PROVE  Calling'
  BY <1>2 DEF Calling, CallingOf, MadeFor, Inner
<1>3. ASSUME NEW t \in Threads, AddLock(t), UNCHANGED <<scopes, due>>
      PROVE  Calling'
  <2>1. due[t] = NoCall
    BY <1>3 DEF AddLock, Calling, CallingOf
  <2>2. CallingOf(t)'
    BY <1>1, <1>3, <2>1 DEF AddLock, Goto, Calling, CallingOf, MadeFor, Inner
  <2> QED BY <1>1, <1>2, <1>3, <2>2 DEF AddLock, Goto
<1>4. ASSUME NEW t \in Threads, AddReturn(t), pc[t] = "add_body", UNCHANGED due,
             \A u \in Threads \ {t} : scopes'[u] = scopes[u]
      PROVE  Calling'
  <2>1. due[t] = NoCall
    BY <1>4 DEF Calling, CallingOf
  <2> QED BY <1>1, <1>2, <1>4, <2>1 DEF AddReturn, Goto, CallingOf
<1>5. ASSUME NEW t \in Threads, Enter(t)
      PROVE  Calling'
  <2>1. MadeFor(t, due[t])
    BY <1>5 DEF Enter, Calling, CallingOf
  <2>2. /\ pc' = [pc EXCEPT ![t] = "add_wait"] /\ call' = [call EXCEPT ![t] = due[t]]
        /\ due' = [due EXCEPT ![t] = NoCall] /\ scopes' = scopes
    BY <1>5 DEF Enter, AddTraceEvent, Goto, Owe
  <2>3. CallingOf(t)'
    BY <1>1, <2>1, <2>2 DEF CallingOf, MadeFor, Inner
  <2> QED BY <1>1, <1>2, <2>2, <2>3
<1>6. ASSUME NEW t \in Threads, Dropped(t)
      PROVE  Calling'
  <2>1. pc[t] = "idle"
    BY <1>6, DueFacts DEF Dropped
  <2>2. /\ due' = [due EXCEPT ![t] = NoCall] /\ UNCHANGED <<pc, call>>
        /\ \A u \in Threads \ {t} : scopes'[u] = scopes[u]
    BY <1>1, <1>6 DEF Dropped, Owe, Pop, vars, frameVars
  <2>3. CallingOf(t)'
    BY <1>1, <2>1, <2>2 DEF CallingOf
  <2> QED BY <1>1, <1>2, <2>2, <2>3
<1>7. ASSUME NEW t \in Threads, Recording(t)
      PROVE  Calling'
  <2>1. CASE Enter(t) \/ Dropped(t)
    BY <1>5, <1>6, <2>1
  <2>2. CASE AddLock(t) /\ UNCHANGED scopeVars
    BY <1>3, <2>2 DEF scopeVars
  <2>3. CASE BeginRecorded(t) \/ EndRecorded(t) \/ EndDiscarded(t) \/ PairErased(t)
             \/ InstantRecorded(t)
    <3>1. \A u \in Threads \ {t} : scopes'[u] = scopes[u]
      BY <1>1, <2>3 DEF BeginRecorded, EndRecorded, EndDiscarded, PairErased, InstantRecorded,
                        Pop, scopeVars
    <3>2. AddReturn(t) /\ pc[t] = "add_body" /\ UNCHANGED due
      BY <2>3 DEF BeginRecorded, EndRecorded, EndDiscarded, PairErased, InstantRecorded,
                  AddRecord, AddDiscard, AddEraseBegin, scopeVars
    <3> QED BY <1>4, <3>1, <3>2
  <2> QED BY <1>7, <2>1, <2>2, <2>3 DEF Recording
<1>8. ASSUME NEW t \in Threads, NEW g \in Guards, Opens(t, g)
      PROVE  Calling'
  <2>1. /\ scopes'[t] = Append(scopes[t], g)
        /\ \A u \in Threads \ {t} : scopes'[u] = scopes[u]
        /\ pc[t] = "idle" /\ due[t] = NoCall /\ UNCHANGED <<pc, call>>
    BY <1>1, <1>8 DEF Opens, Outside, Push, vars, frameVars
  <2>2. scopes'[t] # <<>> /\ Last(scopes'[t]) = g /\ g.begin_uid = 0
    BY <1>1, <2>1, NewGuard, StackPush
  <2>3. /\ due'[t] = NoCall \/ due'[t] = PlainCall("BEGIN")
        /\ \A u \in Threads \ {t} : due'[u] = due[u]
    BY <1>1, <1>8, <2>1 DEF Opens, Owe
  <2>4. CallingOf(t)'
    BY <2>1, <2>2, <2>3 DEF CallingOf, MadeFor, Inner
  <2> QED BY <1>1, <1>2, <2>1, <2>3, <2>4
<1>9. ASSUME NEW t \in Threads, CloseScope(t) \/ Instant(t)
      PROVE  Calling'
  <2>1. pc[t] = "idle" /\ UNCHANGED <<pc, call, scopes>>
    BY <1>9 DEF CloseScope, Instant, Outside, vars, frameVars
  <2>2. /\ MadeFor(t, due'[t])
        /\ \A u \in Threads \ {t} : due'[u] = due[u]
    BY <1>1, <1>9 DEF CloseScope, Instant, Owe, MadeFor
  <2>3. CallingOf(t)'
    BY <2>1, <2>2 DEF CallingOf, MadeFor, Inner
  <2> QED BY <1>2, <2>1, <2>2, <2>3
<1>10. ASSUME NEW t \in Threads, CloseScopeDisabled(t)
       PROVE  Calling'
  <2>1. pc[t] = "idle" /\ due[t] = NoCall /\ UNCHANGED <<pc, call, due>>
    BY <1>10 DEF CloseScopeDisabled, Outside, vars, frameVars
  <2>2. \A u \in Threads \ {t} : scopes'[u] = scopes[u]
    BY <1>1, <1>10 DEF CloseScopeDisabled, Pop
  <2>3. CallingOf(t)'
    BY <2>1 DEF CallingOf
  <2> QED BY <1>2, <2>1, <2>2, <2>3
<1>11. ASSUME NEW t \in Controllers, ScopedFlush(t)
       PROVE  Calling'
  <2>1. t \in Threads /\ UNCHANGED <<scopes, due, call>>
    BY <1>11 DEF ScopedFlush, scopeVars, CallFlush, EnterFlush, FlushSwap, FlushClear, FlushBatch,
                 FlushDone
  <2>2. /\ \A u \in Threads \ {t} : pc'[u] = pc[u]
        /\ pc'[t] \notin {"add_wait", "add_body"}
    BY <1>1, <1>11, <2>1 DEF ScopedFlush, CallFlush, EnterFlush, FlushSwap, FlushClear, FlushBatch,
                             FlushDone, Goto
  <2>3. due[t] = NoCall
    BY <1>11, <2>1 DEF ScopedFlush, Outside, FlushSwap, FlushClear, FlushBatch, FlushDone, Calling,
                       CallingOf
  <2>4. CallingOf(t)'
    BY <2>1, <2>2, <2>3 DEF CallingOf
  <2> QED BY <1>2, <2>1, <2>2, <2>4
<1>12. CASE SwitchCategory \/ (Tick /\ UNCHANGED scopeVars) \/ UNCHANGED allVars
  BY <1>12 DEF SwitchCategory, Tick, allVars, scopeVars, vars, frameVars, Calling, CallingOf,
               MadeFor, Inner
<1>13. ASSUME NEW t \in Threads, NEW g \in Guards, OpenScope(t, g) \/ OpenScopeDisabled(t, g)
       PROVE  Opens(t, g)
  BY <1>13 DEF OpenScope, OpenScopeDisabled, Opens
<1> QED BY <1>7, <1>8, <1>9, <1>10, <1>11, <1>12, <1>13 DEF ScopedNext, Scoping

-----------------------------------------------------------------------------
(* The indices guards hold                                                 *)

\* While nothing is disturbed, each index names the BEGIN event, no two
\* guards hold the same, and a thread's indices grow with its stack; no
\* guard holds one while Flush has the vectors swapped.
Valid ==
  /\ Swapping => \A t \in Threads : Holding(t) = {}
  /\ \A t \in Threads : \A i \in Holding(t) :
       /\ scopes[t][i].begin_id < Len(logged_events_)
       /\ logged_events_[scopes[t][i].begin_id + 1].uid = scopes[t][i].begin_uid
       /\ logged_events_[scopes[t][i].begin_id + 1].ts = scopes[t][i].begin_ts
  /\ \A t, u \in Threads : \A i \in Holding(t), j \in Holding(u) :
       scopes[t][i].begin_id = scopes[u][j].begin_id => t = u /\ i = j
  /\ \A t \in Threads : \A i, j \in Holding(t) :
       i < j => scopes[t][i].begin_id < scopes[t][j].begin_id

\* What a guard that holds an index is.
LEMMA HoldingType ==
  ASSUME StackType, NEW t \in Threads, NEW i \in Holding(t)
  PROVE  /\ i \in 1..Len(scopes[t]) /\ Len(scopes[t]) \in Nat /\ i \in Nat
         /\ scopes[t][i] \in GuardStates /\ scopes[t][i].begin_id \in Nat
<1>1. scopes[t] \in Seq(GuardStates)
  BY DEF StackType
<1>2. i \in 1..Len(scopes[t]) /\ scopes[t][i].timed /\ scopes[t][i].begin_uid # 0
  BY DEF Holding
<1>3. scopes[t][i] \in GuardStates /\ Len(scopes[t]) \in Nat
  BY <1>1, <1>2, ElementOfSeq, LenProperties
<1> QED BY <1>2, <1>3 DEF GuardStates

\* A step that gives no guard an index and at most appends to the log.
LEMMA ValidKept ==
  ASSUME TypeOK, StackType, Valid,
         \A t \in Threads : \A i \in Holding(t)' : i \in Holding(t) /\ scopes'[t][i] = scopes[t][i],
         logged_events_' = logged_events_ \/ \E e : logged_events_' = Append(logged_events_, e),
         Swapping' => Swapping
  PROVE  Valid'
<1>1. /\ Len(logged_events_') >= Len(logged_events_) /\ Len(logged_events_') \in Nat
      /\ \A k \in 1..Len(logged_events_) : logged_events_'[k] = logged_events_[k]
  <2>1. CASE logged_events_' = logged_events_
    BY <2>1, LenProperties DEF TypeOK
  <2>2. ASSUME NEW e, logged_events_' = Append(logged_events_, e)
        PROVE  <1>1!1
    <3>1. logged_events_ \in Seq(Events \cup {e})
      BY SeqMonotonic DEF TypeOK
    <3> QED BY <2>2, <3>1, AppendProperties, LenProperties
  <2> QED BY <2>1, <2>2
<1>2. Swapping' => \A t \in Threads : Holding(t)' = {}
  BY DEF Valid
<1>3. ASSUME NEW t \in Threads, NEW i \in Holding(t)'
      PROVE  /\ scopes'[t][i].begin_id < Len(logged_events_')
             /\ logged_events_'[scopes'[t][i].begin_id + 1].uid = scopes'[t][i].begin_uid
             /\ logged_events_'[scopes'[t][i].begin_id + 1].ts = scopes'[t][i].begin_ts
  <2> DEFINE k == scopes[t][i].begin_id
  <2>1. i \in Holding(t) /\ scopes'[t][i] = scopes[t][i]
    OBVIOUS
  <2>2. k \in Nat
    BY <2>1, HoldingType
  <2>3. /\ k < Len(logged_events_)
        /\ logged_events_[k + 1].uid = scopes[t][i].begin_uid
        /\ logged_events_[k + 1].ts = scopes[t][i].begin_ts
    BY <2>1 DEF Valid
  <2>4. Len(logged_events_) \in Nat
    BY LenProperties DEF TypeOK
  <2>5. k + 1 \in 1..Len(logged_events_) /\ k < Len(logged_events_')
    <3> HIDE DEF k
    <3> QED BY <1>1, <2>2, <2>3, <2>4
  <2>6. logged_events_'[k + 1] = logged_events_[k + 1]
    BY <1>1, <2>5
  <2> QED BY <2>1, <2>3, <2>5, <2>6
<1>4. ASSUME NEW t \in Threads, NEW u \in Threads, NEW i \in Holding(t)', NEW j \in Holding(u)',
             scopes'[t][i].begin_id = scopes'[u][j].begin_id
      PROVE  t = u /\ i = j
  BY <1>4 DEF Valid
<1>5. ASSUME NEW t \in Threads, NEW i \in Holding(t)', NEW j \in Holding(t)', i < j
      PROVE  scopes'[t][i].begin_id < scopes'[t][j].begin_id
  BY <1>5 DEF Valid
<1> QED BY <1>2, <1>3, <1>4, <1>5 DEF Valid

\* A new guard holds no index, so those held stay as they are.
LEMMA PushHolding ==
  ASSUME StackType, NEW t \in Threads, NEW g \in Guards, Push(t, g)
  PROVE  \A u \in Threads : \A i \in Holding(u)' : i \in Holding(u) /\ scopes'[u][i] = scopes[u][i]
<1>1. /\ scopes'[t] = Append(scopes[t], g)
      /\ \A u \in Threads \ {t} : scopes'[u] = scopes[u]
      /\ scopes[t] \in Seq(GuardStates)
  BY DEF StackType, Push
<1>2. /\ Len(scopes[t]) \in Nat /\ Len(scopes'[t]) = Len(scopes[t]) + 1
      /\ \A i \in 1..Len(scopes[t]) : scopes'[t][i] = scopes[t][i]
      /\ scopes'[t][Len(scopes[t]) + 1].begin_uid = 0
  BY <1>1, NewGuard, StackPush
<1>3. ASSUME NEW i \in Holding(t)'
      PROVE  i \in Holding(t) /\ scopes'[t][i] = scopes[t][i]
  <2>1. i \in 1..Len(scopes'[t]) /\ scopes'[t][i].timed /\ scopes'[t][i].begin_uid # 0
    BY DEF Holding
  <2>2. i \in 1..Len(scopes[t])
    BY <1>2, <2>1
  <2> QED BY <1>2, <2>1, <2>2 DEF Holding
<1>4. ASSUME NEW u \in Threads \ {t}, NEW i \in Holding(u)'
      PROVE  i \in Holding(u) /\ scopes'[u][i] = scopes[u][i]
  BY <1>1, <1>4 DEF Holding
<1> QED BY <1>3, <1>4

\* A guard that goes takes its index with it.
LEMMA PopHolding ==
  ASSUME StackType, NEW t \in Threads, scopes[t] # <<>>, Pop(t)
  PROVE  /\ \A u \in Threads : \A i \in Holding(u)' :
              i \in Holding(u) /\ scopes'[u][i] = scopes[u][i]
         /\ \A i \in Holding(t)' : i < Len(scopes[t])
<1>1. /\ scopes'[t] = Front(scopes[t])
      /\ \A u \in Threads \ {t} : scopes'[u] = scopes[u]
      /\ scopes[t] \in Seq(GuardStates)
  BY DEF StackType, Pop
<1>2. /\ Len(scopes[t]) \in Nat /\ Len(scopes'[t]) = Len(scopes[t]) - 1
      /\ \A i \in 1..(Len(scopes[t]) - 1) : scopes'[t][i] = scopes[t][i]
  BY <1>1, StackPop
<1>3. ASSUME NEW i \in Holding(t)'
      PROVE  i \in Holding(t) /\ scopes'[t][i] = scopes[t][i] /\ i < Len(scopes[t])
  <2>1. i \in 1..Len(scopes'[t]) /\ scopes'[t][i].timed /\ scopes'[t][i].begin_uid # 0
    BY DEF Holding
  <2>2. i \in 1..(Len(scopes[t]) - 1) /\ i \in 1..Len(scopes[t]) /\ i < Len(scopes[t])
    BY <1>2, <2>1
  <2> QED BY <1>2, <2>1, <2>2 DEF Holding
<1>4. ASSUME NEW u \in Threads \ {t}, NEW i \in Holding(u)'
      PROVE  i \in Holding(u) /\ scopes'[u][i] = scopes[u][i]
  BY <1>1, <1>4 DEF Holding
<1> QED BY <1>3, <1>4

\* The new index is that of the event just appended, beyond all others.
LEMMA BeginValid ==
  ASSUME TypeOK, LockOwned, StackType, Calling, Valid,
         NEW t \in Threads, BeginRecorded(t)
  PROVE  Valid'
<1> DEFINE n == Len(scopes[t])
           m == Len(logged_events_)
<1>1. /\ pc[t] = "add_body" /\ scopes[t] # <<>>
      /\ scopes' = [scopes EXCEPT ![t] = Append(Front(@), Begun(t))]
      /\ Begun(t) \in GuardStates
      /\ pc' = [pc EXCEPT ![t] = "idle"]
      /\ logged_events_' = Append(logged_events_, NewEvent(next_uid, t, call[t].phase, time_point[t]))
  BY BeginFacts DEF BeginRecorded, AddRecord
<1>2. /\ m \in Nat /\ Len(logged_events_') = m + 1
      /\ \A k \in 1..m : logged_events_'[k] = logged_events_[k]
      /\ logged_events_'[m + 1] = NewEvent(next_uid, t, call[t].phase, time_point[t])
  <2> DEFINE e == NewEvent(next_uid, t, call[t].phase, time_point[t])
  <2>1. logged_events_ \in Seq(Events \cup {e})
    BY SeqMonotonic DEF TypeOK
  <2> HIDE DEF e
  <2>2. /\ m \in Nat /\ Len(Append(logged_events_, e)) = m + 1
        /\ \A k \in 1..m : Append(logged_events_, e)[k] = logged_events_[k]
        /\ Append(logged_events_, e)[m + 1] = e
    BY <2>1, AppendProperties, LenProperties
  <2> QED BY <1>1, <2>2 DEF e
<1>3. /\ n \in Nat /\ n >= 1 /\ Len(scopes'[t]) = n
      /\ \A i \in 1..(n - 1) : scopes'[t][i] = scopes[t][i]
      /\ scopes'[t][n] = Begun(t)
      /\ \A u \in Threads \ {t} : scopes'[u] = scopes[u]
  <2>1. scopes[t] \in Seq(GuardStates) /\ scopes'[t] = Append(Front(scopes[t]), Begun(t))
    BY <1>1 DEF StackType
  <2>2. /\ n \in Nat /\ n >= 1 /\ Front(scopes[t]) \in Seq(GuardStates)
        /\ Len(Front(scopes[t])) = n - 1
        /\ \A i \in 1..(n - 1) : Front(scopes[t])[i] = scopes[t][i]
    BY <1>1, <2>1, StackPop
  <2> DEFINE f == Front(scopes[t])
  <2> HIDE DEF f, n
  <2>3. /\ Len(Append(f, Begun(t))) = Len(f) + 1
        /\ \A i \in 1..Len(f) : Append(f, Begun(t))[i] = f[i]
        /\ Append(f, Begun(t))[Len(f) + 1] = Begun(t)
    BY <1>1, <2>2, StackPush DEF f
  <2>4. Len(f) = n - 1 /\ Len(f) + 1 = n
    BY <2>2 DEF f
  <2>5. \A u \in Threads \ {t} : scopes'[u] = scopes[u]
    BY <1>1 DEF StackType
  <2> QED BY <2>1, <2>2, <2>3, <2>4, <2>5 DEF f
<1> HIDE DEF n, m
<1>4. /\ Begun(t).timed => Begun(t).begin_id = m
      /\ Begun(t).begin_uid = next_uid /\ Begun(t).begin_ts = time_point[t]
  <2>1. Inner(t) \in GuardStates
    BY <1>1, StackPop DEF Inner, StackType
  <2> QED BY <2>1 DEF Begun, EventId, GuardStates, m
\* A guard with an index either is the new one or had it before.
<1>5. ASSUME NEW u \in Threads, NEW i \in Holding(u)'
      PROVE  \/ /\ u = t /\ i = n
                /\ scopes'[u][i] = Begun(t) /\ Begun(t).timed
             \/ /\ i \in Holding(u) /\ scopes'[u][i] = scopes[u][i]
                /\ u = t => i < n
  <2>1. i \in 1..Len(scopes'[u]) /\ scopes'[u][i].timed /\ scopes'[u][i].begin_uid # 0
    BY DEF Holding
  <2>2. CASE u = t /\ i = n
    BY <1>3, <2>1, <2>2
  <2>3. CASE u = t /\ i # n
    <3>1. i \in 1..(n - 1) /\ i \in 1..Len(scopes[t]) /\ i < n
      BY <1>3, <2>1, <2>3 DEF n
    <3> QED BY <1>3, <2>1, <2>3, <3>1 DEF Holding
  <2>4. CASE u # t
    BY <1>3, <2>1, <2>4 DEF Holding
  <2> QED BY <2>2, <2>3, <2>4
<1>6. ASSUME NEW u \in Threads, NEW i \in Holding(u)
      PROVE  /\ scopes[u][i].begin_id \in Nat /\ scopes[u][i].begin_id < m
             /\ logged_events_[scopes[u][i].begin_id + 1].uid = scopes[u][i].begin_uid
             /\ logged_events_[scopes[u][i].begin_id + 1].ts = scopes[u][i].begin_ts
  BY <1>6, HoldingType DEF Valid, m
<1>7. ~Swapping'
  <2>1. pc \in [Threads -> Places]
    BY DEF TypeOK
  <2>2. \A u \in Threads : pc[u] # "flush_clear"
    BY <1>1, MutualExclusion
  <2> QED BY <1>1, <2>1, <2>2 DEF Swapping
<1>8. ASSUME NEW u \in Threads, NEW i \in Holding(u)'
      PROVE  /\ scopes'[u][i].begin_id < Len(logged_events_')
             /\ logged_events_'[scopes'[u][i].begin_id + 1].uid = scopes'[u][i].begin_uid
             /\ logged_events_'[scopes'[u][i].begin_id + 1].ts = scopes'[u][i].begin_ts
  <2>1. CASE scopes'[u][i] = Begun(t) /\ Begun(t).timed
    <3>1. m < m + 1
      BY <1>2
    <3> QED BY <1>2, <1>4, <2>1, <3>1 DEF NewEvent
  <2>2. CASE i \in Holding(u) /\ scopes'[u][i] = scopes[u][i]
    <3> DEFINE k == scopes[u][i].begin_id
    <3>1. k \in Nat /\ k < m
      BY <1>6, <2>2
    <3>2. k + 1 \in 1..m /\ k < m + 1
      <4> HIDE DEF k
      <4> QED BY <1>2, <3>1
    <3> QED BY <1>2, <1>6, <2>2, <3>2
  <2> QED BY <1>5, <2>1, <2>2
<1>9. ASSUME NEW u \in Threads, NEW v \in Threads, NEW i \in Holding(u)', NEW j \in Holding(v)',
             scopes'[u][i].begin_id = scopes'[v][j].begin_id
      PROVE  u = v /\ i = j
  <2>1. CASE i \in Holding(u) /\ scopes'[u][i] = scopes[u][i]
             /\ j \in Holding(v) /\ scopes'[v][j] = scopes[v][j]
    BY <1>9, <2>1 DEF Valid
  <2>2. CASE i \in Holding(u) /\ scopes'[u][i] = scopes[u][i]
             /\ scopes'[v][j] = Begun(t) /\ Begun(t).timed
    BY <1>2, <1>4, <1>6, <1>9, <2>2
  <2>3. CASE j \in Holding(v) /\ scopes'[v][j] = scopes[v][j]
             /\ scopes'[u][i] = Begun(t) /\ Begun(t).timed
    BY <1>2, <1>4, <1>6, <1>9, <2>3
  <2>4. CASE u = t /\ i = n /\ v = t /\ j = n
    BY <2>4
  <2> QED BY <1>5, <2>1, <2>2, <2>3, <2>4
<1>10. ASSUME NEW u \in Threads, NEW i \in Holding(u)', NEW j \in Holding(u)', i < j
       PROVE  scopes'[u][i].begin_id < scopes'[u][j].begin_id
  <2>1. CASE i \in Holding(u) /\ scopes'[u][i] = scopes[u][i]
             /\ j \in Holding(u) /\ scopes'[u][j] = scopes[u][j]
    BY <1>10, <2>1 DEF Valid
  <2>2. CASE i \in Holding(u) /\ scopes'[u][i] = scopes[u][i]
             /\ scopes'[u][j] = Begun(t) /\ Begun(t).timed
    BY <1>4, <1>6, <2>2
  <2>3. CASE u = t /\ i = n /\ j \in Holding(u) /\ (u = t => j < n)
    <3>1. j \in Nat
      BY <2>3, HoldingType
    <3> QED BY <1>3, <1>10, <2>3, <3>1
  <2>4. CASE i = n /\ j = n
    BY <1>3, <1>10, <2>4
  <2> QED BY <1>5, <2>1, <2>2, <2>3, <2>4
<1> QED BY <1>7, <1>8, <1>9, <1>10 DEF Valid

\* What is erased lies behind every index still held: the thread's own grow
\* with its stack, and those of others are in front unless disturbed.
LEMMA EraseValid ==
  ASSUME TypeOK, StackType, Calling, Valid,
         NEW t \in Threads, PairErased(t), ~disturbed'
  PROVE  Valid'
<1> DEFINE n == Len(scopes[t])
           k == call[t].begin_id
<1>1. /\ pc[t] = "add_body" /\ HasBegin(t) /\ BeginLogged(t)
      /\ logged_events_' = RemoveAt(logged_events_, k + 1)
      /\ pc' = [pc EXCEPT ![t] = "idle"]
      /\ Pop(t)
      /\ \A u \in Threads \ {t} : \A i \in Holding(u) : ~(scopes[u][i].begin_id > k)
  BY DEF PairErased, AddEraseBegin, AddReturn, Goto
<1>2. scopes[t] # <<>> /\ call[t] = EndCall(Inner(t))
  BY <1>1, CallFacts
<1>3. n \in Nat /\ n >= 1 /\ Inner(t) = scopes[t][n] /\ Inner(t) \in GuardStates
  BY <1>2, StackPop DEF Inner, StackType
<1>4. k = Inner(t).begin_id /\ k # EVENT_ID_NONE
  BY <1>1, <1>2 DEF EndCall, HasBegin, EVENT_ID_NONE
<1>5. n \in Holding(t) /\ scopes[t][n].begin_id = k
  <2>1. Inner(t).timed /\ Inner(t).begin_uid # 0
    BY <1>3, <1>4 DEF GuardStates
  <2> QED BY <1>3, <1>4, <2>1 DEF Holding
<1>6. k \in Nat /\ k + 1 \in 1..Len(logged_events_)
  BY <1>1, <1>5, HoldingType, BeginIndex
<1>7. /\ Len(logged_events_) \in Nat
      /\ Len(logged_events_') = Len(logged_events_) - 1
      /\ \A j \in 1..(Len(logged_events_) - 1) :
           j < k + 1 => logged_events_'[j] = logged_events_[j]
  BY <1>1, <1>6, RemoveAtProperties, LenProperties DEF TypeOK
<1> HIDE DEF n, k
<1>8. ASSUME NEW u \in Threads, NEW i \in Holding(u)'
      PROVE  /\ i \in Holding(u) /\ scopes'[u][i] = scopes[u][i]
             /\ scopes[u][i].begin_id \in Nat /\ scopes[u][i].begin_id < k
  <2>1. i \in Holding(u) /\ scopes'[u][i] = scopes[u][i] /\ (u = t => i < n)
    BY <1>1, <1>2, PopHolding DEF n
  <2>2. scopes[u][i].begin_id \in Nat
    BY <2>1, HoldingType
  <2>3. CASE u = t
    BY <1>5, <2>1, <2>2, <2>3 DEF Valid
  <2>4. CASE u # t
    <3>1. scopes[u][i].begin_id # k
      BY <1>5, <2>1, <2>4 DEF Valid
    <3> QED BY <1>1, <1>6, <2>1, <2>2, <2>4, <3>1
  <2> QED BY <2>1, <2>2, <2>3, <2>4
<1>9. Swapping' => \A u \in Threads : Holding(u)' = {}
  <2>1. pc \in [Threads -> Places]
    BY DEF TypeOK
  <2>2. Swapping' => Swapping
    BY <1>1, <2>1 DEF Swapping
  <2> QED BY <1>5, <2>2 DEF Valid
<1>10. ASSUME NEW u \in Threads, NEW i \in Holding(u)'
       PROVE  /\ scopes'[u][i].begin_id < Len(logged_events_')
              /\ logged_events_'[scopes'[u][i].begin_id + 1].uid = scopes'[u][i].begin_uid
              /\ logged_events_'[scopes'[u][i].begin_id + 1].ts = scopes'[u][i].begin_ts
  <2> DEFINE id == scopes[u][i].begin_id
  <2>1. id \in Nat /\ id < k /\ i \in Holding(u) /\ scopes'[u][i] = scopes[u][i]
    BY <1>8
  <2>2. id + 1 \in 1..(Len(logged_events_) - 1) /\ id + 1 < k + 1 /\ id < Len(logged_events_) - 1
    <3> HIDE DEF id
    <3> QED BY <1>6, <1>7, <2>1
  <2>3. logged_events_'[id + 1] = logged_events_[id + 1]
    BY <1>7, <2>2
  <2>4. logged_events_[id + 1].uid = scopes[u][i].begin_uid
        /\ logged_events_[id + 1].ts = scopes[u][i].begin_ts
    BY <2>1 DEF Valid
  <2> QED BY <1>7, <2>1, <2>2, <2>3, <2>4
<1>11. ASSUME NEW u \in Threads, NEW v \in Threads, NEW i \in Holding(u)', NEW j \in Holding(v)',
              scopes'[u][i].begin_id = scopes'[v][j].begin_id
       PROVE  u = v /\ i = j
  BY <1>8, <1>11, SMTT(30) DEF Valid
<1>12. ASSUME NEW u \in Threads, NEW i \in Holding(u)', NEW j \in Holding(u)', i < j
       PROVE  scopes'[u][i].begin_id < scopes'[u][j].begin_id
  BY <1>8, <1>12 DEF Valid
<1> QED BY <1>9, <1>10, <1>11, <1>12 DEF Valid

\* Every step keeps the indices valid until one disturbs them.
LEMMA ValidStep ==
  ASSUME TypeOK, LockOwned, StackType, Calling, ~disturbed => Valid, [ScopedNext]_allVars
  PROVE  ~disturbed' => Valid'
<1> SUFFICES ASSUME ~disturbed'
             PROVE  Valid'
  OBVIOUS
<1>1. pc \in [Threads -> Places]
  BY DEF TypeOK
<1>2. ~disturbed
  BY DEF ScopedNext, Recording, Enter, Dropped, BeginRecorded, EndRecorded, EndDiscarded,
         PairErased, InstantRecorded, Scoping, OpenScope, OpenScopeDisabled, CloseScope,
         CloseScopeDisabled, Instant, ScopedFlush, SwitchCategory, scopeVars, allVars
<1>3. Valid
  BY <1>2
\* A step that leaves the stacks alone.
<1>4. ASSUME UNCHANGED scopes,
             logged_events_' = logged_events_ \/ \E e : logged_events_' = Append(logged_events_, e),
             Swapping' => Swapping
      PROVE  Valid'
  BY <1>3, <1>4, ValidKept DEF Holding
<1>5. ASSUME NEW t \in Threads, Enter(t) \/ (AddLock(t) /\ UNCHANGED scopeVars)
      PROVE  Valid'
  BY <1>1, <1>4, <1>5 DEF Enter, AddTraceEvent, AddLock, Goto, Swapping, logVars, scopeVars
<1>6. ASSUME NEW t \in Threads, InstantRecorded(t)
      PROVE  Valid'
  BY <1>1, <1>4, <1>6 DEF InstantRecorded, AddRecord, AddReturn, Goto, Swapping, scopeVars
<1>7. ASSUME NEW t \in Threads, EndRecorded(t) \/ EndDiscarded(t)
      PROVE  Valid'
  <2>1. /\ Pop(t) /\ pc' = [pc EXCEPT ![t] = "idle"] /\ pc[t] = "add_body"
        /\ call[t].phase = "END" \/ HasBegin(t)
        /\ logged_events_' = logged_events_ \/ \E e : logged_events_' = Append(logged_events_, e)
    BY <1>7 DEF EndRecorded, EndDiscarded, AddRecord, AddDiscard, AddReturn, Goto
  <2>2. scopes[t] # <<>>
    BY <2>1, CallFacts
  <2>3. Swapping' => Swapping
    BY <1>1, <2>1 DEF Swapping
  <2> QED BY <1>3, <2>1, <2>2, <2>3, PopHolding, ValidKept
<1>8. ASSUME UNCHANGED vars
      PROVE  logged_events_' = logged_events_ /\ (Swapping' => Swapping)
  BY <1>8 DEF vars, logVars, frameVars, Swapping
<1>9. ASSUME NEW t \in Threads, Scoping(t) \/ Dropped(t)
      PROVE  Valid'
  <2>1. logged_events_' = logged_events_ /\ (Swapping' => Swapping)
    BY <1>8, <1>9 DEF Scoping, OpenScope, OpenScopeDisabled, CloseScope, CloseScopeDisabled,
                      Instant, Dropped
  <2>2. \/ UNCHANGED scopes
        \/ \E g \in Guards : Push(t, g)
        \/ scopes[t] # <<>> /\ Pop(t)
    BY <1>9, DueFacts DEF Scoping, OpenScope, OpenScopeDisabled, CloseScope, CloseScopeDisabled,
                          Instant, Dropped
  <2>3. CASE UNCHANGED scopes
    BY <1>4, <2>1, <2>3
  <2>4. ASSUME NEW g \in Guards, Push(t, g)
        PROVE  Valid'
    BY <1>3, <2>1, <2>4, PushHolding, ValidKept
  <2>5. CASE scopes[t] # <<>> /\ Pop(t)
    BY <1>3, <2>1, <2>5, PopHolding, ValidKept
  <2> QED BY <2>2, <2>3, <2>4, <2>5
<1>10. ASSUME NEW t \in Controllers, ScopedFlush(t)
       PROVE  Valid'
  <2>1. t \in Threads
    OBVIOUS
  <2>2. CASE CallFlush(t) /\ UNCHANGED scopeVars
    BY <1>1, <1>4, <2>2 DEF CallFlush, EnterFlush, Goto, Swapping, logVars, scopeVars
  <2>3. CASE (FlushBatch(t) \/ FlushDone(t)) /\ UNCHANGED scopeVars
    BY <1>1, <1>4, <2>3 DEF FlushBatch, FlushDone, Goto, Swapping, logVars, scopeVars
  <2>4. ASSUME UNCHANGED scopes, \A u \in Threads : Holding(u) = {}
        PROVE  Valid'
    BY <2>4 DEF Valid, Holding
  <2>5. CASE FlushClear(t) /\ UNCHANGED scopeVars
    <3>1. Swapping
      BY <2>1, <2>5 DEF FlushClear, Swapping
    <3> QED BY <1>3, <2>4, <2>5, <3>1 DEF Valid, scopeVars
  <2>6. CASE /\ FlushSwap(t)
             /\ disturbed' = (disturbed \/ \E u \in Threads : Holding(u) # {})
             /\ UNCHANGED <<scopes, due, categoryVars, torn>>
    BY <2>4, <2>6
  <2> QED BY <1>10, <2>2, <2>3, <2>5, <2>6 DEF ScopedFlush
<1>11. CASE SwitchCategory \/ (Tick /\ UNCHANGED scopeVars) \/ UNCHANGED allVars
  BY <1>4, <1>8, <1>11 DEF SwitchCategory, Tick, Swapping, allVars, vars, logVars, frameVars, scopeVars
<1>12. ASSUME NEW t \in Threads, BeginRecorded(t) \/ PairErased(t)
       PROVE  Valid'
  BY <1>3, <1>12, BeginValid, EraseValid
<1> QED BY <1>5, <1>6, <1>7, <1>9, <1>10, <1>11, <1>12 DEF ScopedNext, Recording

\* What is true of every reachable state.
HeldInv ==
  /\ TypeOK
  /\ CallInProgress
  /\ LockOwned
  /\ StackType
  /\ Calling
  /\ ~disturbed => Valid

\* It holds before any scope is opened.
LEMMA HeldInit ==
  ASSUME ScopedInit
  PROVE  HeldInv
<1>1. TypeOK /\ CallInProgress /\ LockOwned
  BY TypeInit DEF ScopedInit, Init, CallInProgress, LockOwned
<1>2. \A t \in Threads : scopes[t] = <<>> /\ Len(scopes[t]) = 0
  BY EmptySeq DEF ScopedInit
<1>3. StackType
  BY EmptySeq DEF ScopedInit, StackType
<1>4. Calling
  <2>1. \A t \in Threads : due[t] = NoCall /\ pc[t] = "idle"
    BY DEF ScopedInit, Init
  <2> QED BY <2>1 DEF Calling, CallingOf
<1>5. \A t \in Threads : Holding(t) = {}
  BY <1>2 DEF Holding
<1>6. Valid
  BY <1>5 DEF Valid
<1> QED BY <1>1, <1>3, <1>4, <1>6 DEF HeldInv

\* Every step keeps it.
LEMMA HeldStep ==
  ASSUME AnyBeginId, HeldInv, [ScopedNext]_allVars
  PROVE  HeldInv'
<1>1. TypeOK /\ CallInProgress /\ LockOwned /\ StackType /\ Calling /\ (~disturbed => Valid)
  BY DEF HeldInv
<1>2. [Next]_vars
  BY <1>1, ScopesUseLog
<1>3. TypeOK' /\ CallInProgress' /\ LockOwned'
  BY <1>1, <1>2, TypeStep, LockStep
<1>4. StackType' /\ Calling' /\ (~disturbed' => Valid')
  BY <1>1, StackTypeStep, CallingStep, ValidStep
<1> QED BY <1>3, <1>4 DEF HeldInv

\* As long as nothing is disturbed, the index a guard keeps across its scope
\* names the BEGIN event of that scope, for any number of threads and nested
\* scopes: a thread's own erasures are always behind what it still holds.
THEOREM HeldIdsCorrect ==
  ASSUME AnyBeginId
  PROVE  ScopedSpec => []HeldIdsValid
<1>1. ScopedInit => HeldInv
  BY HeldInit
<1>2. HeldInv /\ [ScopedNext]_allVars => HeldInv'
  BY HeldStep
<1>3. HeldInv => HeldIdsValid
  BY DEF HeldInv, Valid, HeldIdsValid
<1> QED BY <1>1, <1>2, <1>3, PTL DEF ScopedSpec

-----------------------------------------------------------------------------
(* Only long scopes are recorded                                           *)

\* No guard's BEGIN is later than the clock, or than the time stamp its
\* thread has taken.
TimesOf(t) ==
  /\ pc[t] = "add_body" => time_point[t] <= now
  /\ \A i \in 1..Len(scopes[t]) :
       /\ scopes[t][i].begin_ts <= now
       /\ pc[t] = "add_body" => scopes[t][i].begin_ts <= time_point[t]

Times == \A t \in Threads : TimesOf(t)

\* The clock never goes back, and a time stamp is taken as the lock is.
LEMMA ClockStep ==
  ASSUME TypeOK, [ScopedNext]_allVars
  PROVE  /\ now' >= now
         /\ \A t \in Threads :
              pc'[t] = "add_body" =>
                \/ time_point'[t] = now
                \/ pc[t] = "add_body" /\ time_point'[t] = time_point[t]
<1> DEFINE Goal == /\ now' >= now
                   /\ \A t \in Threads :
                        pc'[t] = "add_body" =>
                          \/ time_point'[t] = now
                          \/ pc[t] = "add_body" /\ time_point'[t] = time_point[t]
<1>1. /\ pc \in [Threads -> Places] /\ time_point \in [Threads -> Nat] /\ now \in Nat
  BY DEF TypeOK
<1>2. ASSUME NEW t \in Threads, AddLock(t)
      PROVE  Goal
  BY <1>1, <1>2 DEF AddLock, Goto
<1>3. ASSUME NEW t \in Threads, AddReturn(t)
      PROVE  Goal
  BY <1>1, <1>3 DEF AddReturn, Goto
<1>4. ASSUME UNCHANGED <<now, time_point>>,
             \A t \in Threads : pc'[t] = pc[t] \/ pc'[t] # "add_body"
      PROVE  Goal
  BY <1>1, <1>4
<1>5. ASSUME NEW t \in Threads, Recording(t)
      PROVE  Goal
  <2>1. AddReturn(t) \/ AddLock(t) \/ Enter(t) \/ UNCHANGED vars
    BY <1>5 DEF Recording, BeginRecorded, EndRecorded, EndDiscarded, PairErased, InstantRecorded,
                AddRecord, AddDiscard, AddEraseBegin, Dropped
  <2>2. CASE Enter(t)
    BY <1>1, <1>4, <2>2 DEF Enter, AddTraceEvent, Goto
  <2>3. CASE UNCHANGED vars
    BY <1>4, <2>3 DEF vars, frameVars
  <2> QED BY <1>2, <1>3, <2>1, <2>2, <2>3
<1>6. ASSUME NEW t \in Threads, Scoping(t)
      PROVE  Goal
  BY <1>4, <1>6 DEF Scoping, OpenScope, OpenScopeDisabled, CloseScope, CloseScopeDisabled, Instant,
                    vars, frameVars
<1>7. ASSUME NEW t \in Controllers, ScopedFlush(t)
      PROVE  Goal
  BY <1>1, <1>4, <1>7 DEF ScopedFlush, CallFlush, EnterFlush, FlushSwap, FlushClear, FlushBatch,
                          FlushDone, Goto
<1>8. CASE SwitchCategory \/ (Tick /\ UNCHANGED scopeVars) \/ UNCHANGED allVars
  BY <1>1, <1>8 DEF SwitchCategory, Tick, allVars, vars, frameVars
<1> QED BY <1>5, <1>6, <1>7, <1>8 DEF ScopedNext

\* After a step a guard was there before, is new, or has its BEGIN now.
LEMMA GuardsAfter ==
  ASSUME TypeOK, StackType, Calling, [ScopedNext]_allVars,
         NEW t \in Threads, NEW i \in 1..Len(scopes'[t])
  PROVE  \/ i \in 1..Len(scopes[t]) /\ scopes'[t][i] = scopes[t][i]
         \/ scopes'[t][i].begin_uid = 0 /\ scopes'[t][i].begin_ts = 0 /\ pc'[t] # "add_body"
         \/ BeginRecorded(t) /\ scopes'[t][i] = Begun(t)
<1> DEFINE n == Len(scopes[t])
           f == Front(scopes[t])
<1>1. scopes \in [Threads -> Seq(GuardStates)] /\ pc \in [Threads -> Places] /\ n \in Nat
  BY LenProperties DEF TypeOK, StackType
<1>2. ASSUME NEW u \in Threads, NEW g \in Guards, Opens(u, g), u = t
      PROVE  \/ i \in 1..n /\ scopes'[t][i] = scopes[t][i]
             \/ scopes'[t][i].begin_uid = 0 /\ scopes'[t][i].begin_ts = 0 /\ pc'[t] # "add_body"
  <2>1. scopes'[t] = Append(scopes[t], g) /\ pc'[t] # "add_body"
    BY <1>1, <1>2 DEF Opens, Outside, Push, vars, frameVars
  <2>2. /\ Len(scopes'[t]) = n + 1 /\ \A j \in 1..n : scopes'[t][j] = scopes[t][j]
        /\ scopes'[t][n + 1] = g /\ g.begin_uid = 0 /\ g.begin_ts = 0
    BY <1>1, <2>1, NewGuard, StackPush
  <2> QED BY <1>1, <2>1, <2>2
<1>3. ASSUME NEW u \in Threads, Closes(u), u = t
      PROVE  i \in 1..n /\ scopes'[t][i] = scopes[t][i]
  <2>1. scopes[t] # <<>> /\ scopes[t] \in Seq(GuardStates) /\ scopes'[t] = f
    BY <1>1, <1>3 DEF Closes, Pop
  <2>2. Len(scopes'[t]) = n - 1 /\ \A j \in 1..(n - 1) : scopes'[t][j] = scopes[t][j]
    BY <2>1, StackPop
  <2> QED BY <1>1, <2>2
<1>4. ASSUME BeginRecorded(t)
      PROVE  (i \in 1..n /\ scopes'[t][i] = scopes[t][i]) \/ scopes'[t][i] = Begun(t)
  <2>1. /\ scopes[t] # <<>> /\ scopes[t] \in Seq(GuardStates)
        /\ scopes'[t] = Append(f, Begun(t)) /\ Begun(t) \in GuardStates
    BY <1>1, <1>4, BeginFacts
  <2>2. f \in Seq(GuardStates) /\ Len(f) = n - 1 /\ \A j \in 1..(n - 1) : f[j] = scopes[t][j]
    BY <2>1, StackPop
  <2> HIDE DEF f
  <2>3. /\ Len(scopes'[t]) = Len(f) + 1
        /\ \A j \in 1..Len(f) : scopes'[t][j] = f[j]
        /\ scopes'[t][Len(f) + 1] = Begun(t)
    BY <2>1, <2>2, StackPush
  <2>4. i \in 1..n /\ ((i \in 1..(n - 1) /\ i \in 1..Len(f)) \/ i = Len(f) + 1)
    BY <1>1, <2>2, <2>3
  <2> QED BY <2>2, <2>3, <2>4
<1>5. ASSUME NEW u \in Threads, u # t,
             BeginRecorded(u) \/ Closes(u) \/ \E g \in Guards : Opens(u, g)
      PROVE  scopes'[t] = scopes[t]
  BY <1>1, <1>5 DEF BeginRecorded, Closes, Opens, Push, Pop
<1> HIDE DEF n
<1>6. CASE scopes'[t] = scopes[t]
  BY <1>6
<1> QED BY <1>2, <1>3, <1>4, <1>5, <1>6, StackSteps DEF StackStep, n

\* A step after which each guard was there before, or has its BEGIN now.
LEMMA TimesKept ==
  ASSUME TypeOK, TypeOK', StackType, Times, [ScopedNext]_allVars, NEW t \in Threads,
         \A i \in 1..Len(scopes'[t]) :
           \/ i \in 1..Len(scopes[t]) /\ scopes'[t][i] = scopes[t][i]
           \/ scopes'[t][i].begin_ts \in 0..now /\ pc'[t] # "add_body"
  PROVE  TimesOf(t)'
<1>1. /\ now \in Nat /\ now' \in Nat /\ now' >= now
      /\ time_point[t] \in Nat /\ time_point'[t] \in Nat
      /\ pc'[t] = "add_body" =>
           \/ time_point'[t] = now
           \/ pc[t] = "add_body" /\ time_point'[t] = time_point[t]
  BY ClockStep DEF TypeOK
<1>2. pc[t] = "add_body" => time_point[t] <= now
  BY DEF Times, TimesOf
<1>3. ASSUME NEW i \in 1..Len(scopes[t])
      PROVE  /\ scopes[t][i].begin_ts \in Nat
             /\ scopes[t][i].begin_ts <= now
             /\ pc[t] = "add_body" => scopes[t][i].begin_ts <= time_point[t]
  <2>1. scopes[t][i] \in GuardStates
    BY ElementOfSeq DEF StackType
  <2> QED BY <2>1 DEF Times, TimesOf, GuardStates
<1>4. ASSUME NEW i \in 1..Len(scopes'[t])
      PROVE  /\ scopes'[t][i].begin_ts <= now'
             /\ pc'[t] = "add_body" => scopes'[t][i].begin_ts <= time_point'[t]
  <2>1. CASE i \in 1..Len(scopes[t]) /\ scopes'[t][i] = scopes[t][i]
    <3> DEFINE ts == scopes[t][i].begin_ts
    <3>1. /\ ts \in Nat /\ ts <= now
          /\ pc[t] = "add_body" => ts <= time_point[t]
      BY <1>3, <2>1
    <3> HIDE DEF ts
    <3>2. ts <= now' /\ (pc'[t] = "add_body" => ts <= time_point'[t])
      BY <1>1, <3>1
    <3> QED BY <2>1, <3>2 DEF ts
  <2>2. CASE scopes'[t][i].begin_ts \in 0..now /\ pc'[t] # "add_body"
    BY <1>1, <2>2
  <2> QED BY <2>1, <2>2
<1>5. pc'[t] = "add_body" => time_point'[t] <= now'
  BY <1>1, <1>2
<1> QED BY <1>4, <1>5 DEF TimesOf

\* Every step keeps it.
LEMMA TimesStep ==
  ASSUME TypeOK, TypeOK', StackType, Calling, Times, [ScopedNext]_allVars
  PROVE  Times'
<1> SUFFICES ASSUME NEW t \in Threads
             PROVE  TimesOf(t)'
  BY DEF Times
<1>1. now \in Nat /\ scopes[t] \in Seq(GuardStates)
  BY DEF TypeOK, StackType
<1>2. ASSUME BeginRecorded(t)
      PROVE  Begun(t).begin_ts \in 0..now /\ pc'[t] # "add_body"
  <2>1. scopes[t] # <<>> /\ pc[t] = "add_body" /\ pc'[t] = "idle"
    <3>1. pc \in [Threads -> Places]
      BY DEF TypeOK
    <3> QED BY <1>2, <3>1, BeginFacts
  <2>2. Begun(t).begin_ts = time_point[t]
    <3>1. Inner(t) \in GuardStates
      BY <1>1, <2>1, StackPop DEF Inner
    <3> QED BY <3>1 DEF Begun, GuardStates
  <2>3. time_point[t] \in Nat /\ time_point[t] <= now
    BY <2>1 DEF TypeOK, Times, TimesOf
  <2> QED BY <1>1, <2>1, <2>2, <2>3
<1>3. \A i \in 1..Len(scopes'[t]) :
        \/ i \in 1..Len(scopes[t]) /\ scopes'[t][i] = scopes[t][i]
        \/ scopes'[t][i].begin_ts \in 0..now /\ pc'[t] # "add_body"
  BY <1>1, <1>2, GuardsAfter
<1> QED BY <1>3, TimesKept

\* END of a guard that has its BEGIN enters the log only past the threshold.
LEMMA EndLongEnough ==
  ASSUME HeldInv, Times, ~disturbed, [ScopedNext]_allVars,
         NEW t \in Threads,
         call[t].phase = "END", Inner(t).begin_uid # 0,
         next_uid' # next_uid, pc[t] = "add_body", pc'[t] = "idle"
  PROVE  time_point[t] - Inner(t).begin_ts >= Inner(t).threshold
<1> USE DEF HeldInv
<1> DEFINE n == Len(scopes[t])
<1>1. scopes[t] # <<>> /\ call[t] = EndCall(Inner(t))
  BY CallFacts
<1>2. n \in Nat /\ n >= 1 /\ Inner(t) = scopes[t][n] /\ Inner(t) \in GuardStates
  BY <1>1, StackPop DEF Inner, StackType
<1>3. call[t].begin_id = Inner(t).begin_id /\ call[t].threshold = Inner(t).threshold
  BY <1>1 DEF EndCall
<1>4. AddRecord(t)
  <2>1. pc \in [Threads -> Places]
    BY DEF TypeOK
  <2>2. ASSUME NEW u \in Threads, AddReturn(u)
        PROVE  u = t
    BY <2>1, <2>2 DEF AddReturn, Goto
  <2>3. ASSUME NEW u \in Threads, Recording(u)
        PROVE  AddRecord(u) /\ AddReturn(u)
    BY <2>3 DEF Recording, BeginRecorded, EndRecorded, EndDiscarded, PairErased, InstantRecorded,
                AddRecord, AddDiscard, AddEraseBegin, AddLock, Enter, AddTraceEvent, Dropped,
                vars, logVars
  <2>4. ASSUME NEW u \in Threads
        PROVE  ~Scoping(u)
    BY DEF Scoping, OpenScope, OpenScopeDisabled, CloseScope, CloseScopeDisabled, Instant, vars,
           logVars
  <2>5. ASSUME NEW u \in Controllers
        PROVE  ~ScopedFlush(u)
    BY DEF ScopedFlush, CallFlush, FlushSwap, FlushClear, FlushBatch, FlushDone, logVars
  <2>6. ~(SwitchCategory \/ (Tick /\ UNCHANGED scopeVars) \/ UNCHANGED allVars)
    BY DEF SwitchCategory, Tick, allVars, vars, logVars
  <2> QED BY <2>2, <2>3, <2>4, <2>5, <2>6 DEF ScopedNext
<1>5. CASE Inner(t).timed
  <2>1. Inner(t).begin_id \in Nat
    BY <1>2, <1>5 DEF GuardStates
  <2>2. HasBegin(t)
    BY <1>3, <2>1 DEF HasBegin, EVENT_ID_NONE
  <2>3. n \in Holding(t)
    BY <1>2, <1>5 DEF Holding
  <2>4. logged_events_[Inner(t).begin_id + 1].ts = Inner(t).begin_ts
    BY <1>2, <2>3 DEF Valid
  <2>5. LongEnough(t)
    BY <1>4, <2>2 DEF AddRecord
  <2> QED BY <1>3, <2>4, <2>5 DEF LongEnough, BeginEvent
<1>6. CASE ~Inner(t).timed
  <2>1. Inner(t).threshold = 0 /\ Inner(t).begin_ts \in Nat
    BY <1>2, <1>6 DEF GuardStates
  <2>2. Inner(t).begin_ts <= time_point[t] /\ time_point[t] \in Nat
    BY <1>2 DEF Times, TimesOf, TypeOK
  <2> QED BY <2>1, <2>2
<1> QED BY <1>5, <1>6

\* As long as nothing is disturbed, END of a guard whose BEGIN was recorded
\* enters the log only if the scope lasted its threshold, for any number of
\* threads and nested scopes and any thresholds.
THEOREM LongScopesRecorded ==
  ASSUME AnyBeginId
  PROVE  ScopedSpec => RecordedLongEnough
<1> DEFINE A ==
      \A t \in Threads :
        /\ ~disturbed
        /\ call[t].phase = "END" /\ Inner(t).begin_uid # 0
        /\ next_uid' # next_uid /\ pc[t] = "add_body" /\ pc'[t] = "idle"
        => time_point[t] - Inner(t).begin_ts >= Inner(t).threshold
<1>1. ScopedInit => HeldInv /\ Times
  <2> SUFFICES ASSUME ScopedInit PROVE HeldInv /\ Times
    OBVIOUS
  <2>1. \A t \in Threads : scopes[t] = <<>> /\ Len(scopes[t]) = 0 /\ pc[t] = "idle"
    BY EmptySeq DEF ScopedInit, Init
  <2> QED BY <2>1, HeldInit DEF Times, TimesOf
<1>2. HeldInv /\ Times /\ [ScopedNext]_allVars => HeldInv' /\ Times'
  BY HeldStep, TimesStep DEF HeldInv
<1>3. HeldInv /\ Times /\ [ScopedNext]_allVars => [A]_allVars
  BY EndLongEnough
<1>4. ScopedSpec => [][A]_allVars
  BY <1>1, <1>2, <1>3, PTL DEF ScopedSpec
<1> QED BY <1>4 DEF RecordedLongEnough

-----------------------------------------------------------------------------
(* Types                                                                   *)

\* The bounds on events and time, counting the events to come.
Bounded ==
  /\ IsFiniteSet(Adding)
  /\ next_uid + Cardinality(Adding) <= MaxEvents + 1
  /\ now <= MaxTime

\* Every step of TraceLog keeps to them.
LEMMA BoundedStep ==
  ASSUME TypeOK, Bounded, [Next]_vars
  PROVE  Bounded'
<1> DEFINE n == Cardinality(Adding)
<1>1. /\ pc \in [Threads -> Places] /\ next_uid \in Nat /\ now \in Nat /\ n \in Nat
      /\ IsFiniteSet(Adding) /\ next_uid + n <= MaxEvents + 1 /\ now <= MaxTime
  BY FS_CardinalityType DEF TypeOK, Bounded
<1> HIDE DEF n
<1>2. ASSUME Adding' = Adding, next_uid' = next_uid, now' <= MaxTime
      PROVE  Bounded'
  BY <1>1, <1>2 DEF Bounded, n
<1>3. ASSUME NEW t \in Threads, NEW c \in Calls, AddTraceEvent(t, c)
      PROVE  Bounded'
  <2>1. Adding' = Adding \cup {t} /\ t \notin Adding
    BY <1>1, <1>3 DEF AddTraceEvent, Adding, Goto
  <2>2. IsFiniteSet(Adding') /\ Cardinality(Adding') = n + 1
    BY <1>1, <2>1, FS_AddElement DEF n
  <2> QED BY <1>1, <1>3, <2>2 DEF AddTraceEvent, Bounded, logVars, n
<1>4. ASSUME NEW t \in Threads, AddRecord(t) \/ AddDiscard(t) \/ AddEraseBegin(t)
      PROVE  Bounded'
  <2>1. Adding' = Adding \ {t} /\ t \in Adding
    BY <1>1, <1>4 DEF AddRecord, AddDiscard, AddEraseBegin, AddReturn, Adding, Goto
  <2>2. IsFiniteSet(Adding') /\ Cardinality(Adding') = n - 1
    BY <1>1, <2>1, FS_RemoveElement DEF n
  <2>3. now' = now /\ (next_uid' = next_uid \/ next_uid' = next_uid + 1)
    BY <1>4 DEF AddRecord, AddDiscard, AddEraseBegin, AddReturn
  <2>4. next_uid' + Cardinality(Adding') <= MaxEvents + 1 /\ now' <= MaxTime
    BY <1>1, <2>2, <2>3
  <2> QED BY <2>2, <2>4 DEF Bounded
<1>5. ASSUME NEW t \in Threads, AddLock(t) \/ FlushSwap(t) \/ FlushClear(t) \/ FlushBatch(t)
                                 \/ FlushDone(t) \/ WriteHeader(t)
      PROVE  Bounded'
  <2>1. Adding' = Adding
    BY <1>1, <1>5 DEF AddLock, FlushSwap, FlushClear, FlushBatch, FlushDone, WriteHeader, Adding,
                      Goto
  <2> QED BY <1>1, <1>2, <1>5, <2>1
          DEF AddLock, FlushSwap, FlushClear, FlushBatch, FlushDone, WriteHeader, logVars
<1>6. ASSUME NEW t \in Controllers, Control(t), ~AddThreadNameMetadataEvents(t)
      PROVE  Bounded'
  <2>1. Adding' = Adding
    BY <1>1, <1>6 DEF Control, CallFlush, Enable, Disable, BeginLogging, EndLogging, EnterFlush,
                      Adding, Goto, frameVars
  <2> QED BY <1>1, <1>2, <1>6, <2>1
          DEF Control, CallFlush, Enable, Disable, BeginLogging, EndLogging, logVars
<1>7. ASSUME NEW t \in Controllers, AddThreadNameMetadataEvents(t)
      PROVE  Bounded'
  <2>1. Adding' = Adding
    BY <1>7 DEF AddThreadNameMetadataEvents, Adding, frameVars
  <2>2. next_uid' + n <= MaxEvents + 1 /\ now' = now
    <3>1. Len(thread_ids_seen) \in Nat
      BY LenProperties DEF TypeOK
    <3>2. /\ next_uid + n + Len(thread_ids_seen) <= MaxEvents + 1
          /\ next_uid' = next_uid + Len(thread_ids_seen) /\ now' = now
      BY <1>7 DEF AddThreadNameMetadataEvents, n
    <3> QED BY <1>1, <3>1, <3>2
  <2> QED BY <1>1, <2>1, <2>2 DEF Bounded, n
<1>8. CASE Tick \/ UNCHANGED vars \/ \E t \in Threads : ThreadReplaced(t)
  BY <1>1, <1>2, <1>8 DEF Tick, ThreadReplaced, vars, logVars, frameVars, Adding
<1> QED BY <1>3, <1>4, <1>5, <1>6, <1>7, <1>8 DEF Next, Step

\* So no guard holds a uid beyond the bound.
UidsBounded ==
  \A t \in Threads : \A i \in 1..Len(scopes[t]) : scopes[t][i].begin_uid <= MaxEvents

\* What ScopesTypeOK says beyond TraceLog and the guards.
SwitchesTypeOK ==
  /\ category_enabled \in BOOLEAN
  /\ switches \in 0..MaxSwitches
  /\ torn \in [Threads -> BOOLEAN]
  /\ disturbed \in BOOLEAN

\* Every step keeps both.
LEMMA GuardTypesStep ==
  ASSUME TypeOK, StackType, Calling, Bounded, UidsBounded, SwitchesTypeOK, [ScopedNext]_allVars
  PROVE  UidsBounded' /\ SwitchesTypeOK'
<1>1. ASSUME NEW t \in Threads, BeginRecorded(t)
      PROVE  Begun(t).begin_uid <= MaxEvents
  <2>1. pc[t] = "add_body" /\ scopes[t] # <<>>
    BY <1>1, BeginFacts
  <2>2. Begun(t).begin_uid = next_uid
    <3>1. Inner(t) \in GuardStates
      BY <2>1, StackPop DEF Inner, StackType
    <3> QED BY <3>1 DEF Begun, GuardStates
  <2>3. Cardinality(Adding) \in Nat /\ Cardinality(Adding) # 0
    <3>1. t \in Adding
      BY <2>1 DEF Adding
    <3> QED BY <3>1, FS_EmptySet, FS_CardinalityType DEF Bounded
  <2> QED BY <2>2, <2>3 DEF Bounded, TypeOK
<1>2. UidsBounded'
  <2> SUFFICES ASSUME NEW t \in Threads, NEW i \in 1..Len(scopes'[t])
               PROVE  scopes'[t][i].begin_uid <= MaxEvents
    BY DEF UidsBounded
  <2>1. 0 <= MaxEvents
    OBVIOUS
  <2> QED BY <1>1, <2>1, GuardsAfter DEF UidsBounded
<1>3. SwitchesTypeOK'
  <2> USE DEF SwitchesTypeOK
  <2>1. ASSUME NEW t \in Threads, Recording(t)
        PROVE  SwitchesTypeOK'
    BY <2>1 DEF Recording, BeginRecorded, EndRecorded, EndDiscarded, PairErased, InstantRecorded,
                Enter, Dropped, Tear, categoryVars, scopeVars
  <2>2. ASSUME NEW t \in Threads, Scoping(t)
        PROVE  SwitchesTypeOK'
    BY <2>2 DEF Scoping, OpenScope, OpenScopeDisabled, CloseScope, CloseScopeDisabled, Instant,
                categoryVars
  <2>3. ASSUME NEW t \in Controllers, ScopedFlush(t)
        PROVE  SwitchesTypeOK'
    BY <2>3 DEF ScopedFlush, categoryVars, scopeVars
  <2>4. CASE SwitchCategory
    <3>1. switches' \in 0..MaxSwitches
      BY <2>4 DEF SwitchCategory
    <3>2. torn' \in [Threads -> BOOLEAN]
      BY <2>4 DEF SwitchCategory, Tear
    <3> QED BY <2>4, <3>1, <3>2 DEF SwitchCategory
  <2>5. CASE (Tick /\ UNCHANGED scopeVars) \/ UNCHANGED allVars
    BY <2>5 DEF categoryVars, scopeVars, allVars
  <2> QED BY <2>1, <2>2, <2>3, <2>4, <2>5 DEF ScopedNext
<1> QED BY <1>2, <1>3

\* Every variable has its type, for any number of threads and nested scopes:
\* what a guard holds stays within the bounds on events and time.
THEOREM ScopesTypeCorrect ==
  ASSUME AnyBeginId
  PROVE  ScopedSpec => []ScopesTypeOK
<1> DEFINE Types == HeldInv /\ Times /\ Bounded /\ UidsBounded /\ SwitchesTypeOK
<1>1. ScopedInit => Types
  <2> SUFFICES ASSUME ScopedInit
               PROVE  Types
    OBVIOUS
  <2>1. \A t \in Threads : scopes[t] = <<>> /\ Len(scopes[t]) = 0 /\ pc[t] = "idle"
    BY EmptySeq DEF ScopedInit, Init
  <2>2. Adding = {} /\ IsFiniteSet({}) /\ Cardinality({}) = 0 /\ next_uid = 1 /\ now = 0
    BY <2>1, FS_EmptySet DEF Adding, ScopedInit, Init
  <2>3. Bounded
    BY <2>2 DEF Bounded
  <2>4. SwitchesTypeOK
    <3>1. 0 \in 0..MaxSwitches /\ [t \in Threads |-> FALSE] \in [Threads -> BOOLEAN]
      OBVIOUS
    <3>2. /\ category_enabled = TRUE /\ switches = 0 /\ torn = [t \in Threads |-> FALSE]
          /\ disturbed = FALSE
      BY DEF ScopedInit
    <3>3. category_enabled \in BOOLEAN /\ disturbed \in BOOLEAN
      BY <3>2
    <3> QED BY <3>1, <3>2, <3>3 DEF SwitchesTypeOK
  <2> QED BY <2>1, <2>3, <2>4, HeldInit DEF Times, TimesOf, UidsBounded
<1>2. Types /\ [ScopedNext]_allVars => Types'
  BY HeldStep, TimesStep, ScopesUseLog, BoundedStep, GuardTypesStep DEF HeldInv
<1>3. Types => ScopesTypeOK
  <2> SUFFICES ASSUME Types
               PROVE  ScopesTypeOK
    OBVIOUS
  <2>1. ASSUME NEW t \in Threads, NEW i \in 1..Len(scopes[t])
        PROVE  LET g == scopes[t][i]
               IN  /\ Guard(g.timed, g.threshold) \in Guards
                   /\ g.begin_id \in Nat \cup {EVENT_ID_NONE}
                   /\ g.begin_uid \in 0..MaxEvents
                   /\ g.begin_ts \in 0..MaxTime
    <3> DEFINE g == scopes[t][i]
    <3>1. g \in GuardStates
      BY ElementOfSeq DEF HeldInv, StackType
    <3>2. g.begin_uid <= MaxEvents /\ g.begin_ts <= now
      BY DEF UidsBounded, Times, TimesOf
    <3> HIDE DEF g
    <3>3. Guard(g.timed, g.threshold) \in Guards
      BY <3>1 DEF GuardStates, Guards
    <3>4. g.begin_uid \in Nat /\ g.begin_ts \in Nat /\ g.begin_id \in Nat \cup {EVENT_ID_NONE}
      BY <3>1 DEF GuardStates
    <3>5. now \in Nat /\ now <= MaxTime
      BY DEF HeldInv, TypeOK, Bounded
    <3> QED BY <3>2, <3>3, <3>4, <3>5 DEF g
  <2> QED BY <2>1 DEF ScopesTypeOK, SwitchesTypeOK, StackType, HeldInv
<1> QED BY <1>1, <1>2, <1>3, PTL DEF ScopedSpec

=============================================================================
