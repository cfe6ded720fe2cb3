---------------------------- MODULE ToppingProofs ----------------------------
(***************************************************************************)
(* What holds of the whole program, for any number of threads and signals: *)
(* the types, and that the files hold what was handed out; and, if SIGINT  *)
(* reaches main only and outside the loop of Flush, that the handler's     *)
(* Flush disturbs nothing and that the footer closes a complete trace.     *)
(*                                                                         *)
(* Every step of the program is one of TraceLog or leaves the log alone,   *)
(* so what is proved of TraceLog holds here.                               *)
(***************************************************************************)
EXTENDS Topping, PipelineProofs

USE ToppingAssumption

\* SIGINT is blocked in the workers, and in main's loop of Flush.
SignalsAway ==
  Interruptible \subseteq {Main} /\ "flush_loop" \notin InterruptiblePlaces

-----------------------------------------------------------------------------
(* The log underneath                                                      *)

\* The threads with names.
LEMMA Named ==
  /\ Main \in Threads /\ Handler \in Threads /\ Main # Handler
  /\ Main \in Controllers /\ Handler \in Controllers
  /\ \A c \in Controllers : c = Main \/ c = Handler
  /\ NoThread \notin Threads /\ NoThread # Main /\ NoThread # Handler
BY TraceLogAssumption, ToppingAssumption

\* A step of the program is a step of TraceLog or leaves the log alone.
LEMMA LogStep ==
  ASSUME [ToppingNext]_programVars
  PROVE  [Next]_vars
<1>1. ASSUME NEW t \in Threads, Proceed(t)
      PROVE  Next
  BY <1>1 DEF Proceed, Next
<1>2. ASSUME NEW t \in Threads, NEW c \in Calls, Trace(t, c)
      PROVE  Next
  BY <1>2 DEF Trace, Next
<1>3. CASE MainFlush \/ InitTopping \/ ReplaceSink \/ InitAgain \/ CloseTrace \/ DestroyTopping
  <2>1. Control(Main)
    BY <1>3 DEF MainFlush, InitTopping, ReplaceSink, InitAgain, CloseTrace, DestroyTopping, Control
  <2> QED BY <2>1, Named DEF Next
<1>4. ASSUME NEW t \in Interruptible, Interrupt(t)
      PROVE  Next
  BY <1>4, Named DEF Interrupt, Control, Next
<1>5. ASSUME NEW t \in Interruptible, InterruptLate(t)
      PROVE  UNCHANGED vars
  BY <1>5 DEF InterruptLate, UseDeadLog
<1>6. CASE BuildTopping \/ Exit \/ DestroyLog \/ DestroyToppingLate \/ DestroySink
           \/ EndWithoutSink \/ Finished \/ UNCHANGED programVars
  BY <1>6 DEF BuildTopping, Exit, DestroyLog, DestroyToppingLate, DestroySink, EndWithoutSink,
              UseDeadLog, Finished, programVars
<1> QED BY <1>1, <1>2, <1>3, <1>4, <1>5, <1>6 DEF ToppingNext, Shutdown

\* So the program uses TraceLog as TraceLog is specified.
LEMMA LogUsed == ToppingSpec => Spec
<1>1. ToppingInit => Init
  BY DEF ToppingInit
<1> QED BY <1>1, LogStep, PTL DEF ToppingSpec, Spec

-----------------------------------------------------------------------------
(* Types                                                                   *)

\* The singletons in either order, and what is left of them.
LEMMA BuiltProperties ==
  /\ Front(<<"topping", "log">>) = <<"topping">> /\ Last(<<"topping", "log">>) = "log"
  /\ Front(<<"log", "topping">>) = <<"log">> /\ Last(<<"log", "topping">>) = "topping"
  /\ Front(<<"topping">>) = <<>> /\ Last(<<"topping">>) = "topping"
  /\ Front(<<"log">>) = <<>> /\ Last(<<"log">>) = "log"
  /\ ToSet(<<"topping", "log">>) = {"topping", "log"}
  /\ ToSet(<<"log", "topping">>) = {"topping", "log"}
  /\ ToSet(<<"topping">>) = {"topping"} /\ ToSet(<<"log">>) = {"log"}
  /\ ToSet(<<>>) = {}
<1>1. ASSUME NEW a, NEW b
      PROVE  /\ Front(<<a, b>>) = <<a>> /\ Last(<<a, b>>) = b /\ ToSet(<<a, b>>) = {a, b}
             /\ Front(<<a>>) = <<>> /\ Last(<<a>>) = a /\ ToSet(<<a>>) = {a}
  <2>1. Len(<<a, b>>) = 2 /\ Len(<<a>>) = 1 /\ <<a, b>>[1] = a /\ <<a, b>>[2] = b /\ <<a>>[1] = a
    OBVIOUS
  <2>2. Last(<<a, b>>) = b /\ Last(<<a>>) = a
    BY <2>1 DEF Last
  <2>3. ToSet(<<a, b>>) = {a, b} /\ ToSet(<<a>>) = {a}
    BY <2>1 DEF ToSet
  <2>4. Front(<<a, b>>) = <<a>> /\ Front(<<a>>) = <<>>
    <3> DEFINE s == <<a, b>>
               r == SubSeq(s, 1, 1)
    <3>1. r \in Seq({a}) /\ Len(r) = 1 /\ r[1] = a
      <4>1. \A i \in 1..1 : s[i] \in {a}
        BY <2>1
      <4> HIDE DEF s
      <4>2. /\ r \in Seq({a}) /\ Len(r) = (IF 1 <= 1 THEN 1 - 1 + 1 ELSE 0)
            /\ \A i \in 1..(1 - 1 + 1) : r[i] = s[1 + i - 1]
        <5>1. 1 \in Int
          OBVIOUS
        <5> QED BY ONLY <4>1, <5>1, SubSeqProperties
      <4>3. r[1] = s[1]
        BY <4>2
      <4> QED BY <4>1, <4>2, <4>3
    <3>2. r = <<a>>
      <4> HIDE DEF r
      <4> QED BY <3>1
    <3>3. Front(s) = r
      BY <2>1 DEF Front
    <3>4. Front(<<a>>) = <<>>
      <4>1. Front(<<a>>) = SubSeq(<<a>>, 1, 0)
        BY <2>1 DEF Front
      <4> QED BY <4>1, SubSeqEmpty
    <3> QED BY <3>2, <3>3, <3>4
  <2> QED BY <2>2, <2>3, <2>4
<1>2. ToSet(<<>>) = {}
  BY DEF ToSet
<1> QED BY <1>1, <1>2

Kinds == {<<>>, <<"topping">>, <<"log">>, <<"topping", "log">>, <<"log", "topping">>}

\* What Flush hands to the callback in a step.
LEMMA BatchedType ==
  ASSUME TypeOK, TypeOK'
  PROVE  Batched \in Seq(Events)
<1>1. output \in Seq(Events) /\ output' \in Seq(Events) /\ Len(output) \in Nat /\ Len(output') \in Nat
  BY LenProperties DEF TypeOK
<1>2. \A i \in (Len(output) + 1)..Len(output') : output'[i] \in Events
  <2> TAKE i \in (Len(output) + 1)..Len(output')
  <2>1. i \in 1..Len(output')
    BY <1>1
  <2> QED BY <1>1, <2>1, ElementOfSeq
<1> QED BY <1>1, <1>2, SubSeqProperties DEF Batched

\* A file that gets some events more.
LEMMA WriteType ==
  ASSUME NEW fs \in Seq(Seq(Events)), NEW s \in Seq(Events)
  PROVE  [fs EXCEPT ![Len(fs)] = @ \o s] \in Seq(Seq(Events))
<1>1. fs \in [1..Len(fs) -> Seq(Events)] /\ Len(fs) \in Nat
  BY LenProperties, SeqDef
<1>2. [fs EXCEPT ![Len(fs)] = @ \o s] \in [1..Len(fs) -> Seq(Events)]
  <2>1. ASSUME NEW i \in 1..Len(fs)
        PROVE  fs[i] \o s \in Seq(Events) /\ fs[i] \in Seq(Events)
    <3>1. fs[i] \in Seq(Events)
      BY <1>1
    <3> QED BY <3>1, ConcatProperties
  <2> QED BY <1>1, <2>1
<1> QED BY <1>1, <1>2, SeqDef

\* What ToppingTypeOK says beyond TraceLog.
ProgramTypeOK ==
  /\ phase \in {"before", "running", "reopening", "exiting", "closing", "exited"}
  /\ built \in Kinds
  /\ sink \in {"none", "open", "destroyed"}
  /\ files \in Seq(Seq(Events))
  /\ host \in Threads \cup {NoThread}
  /\ signals \in 0..MaxSignals
  /\ registered \in BOOLEAN
  /\ missed \in Nat

\* Every step keeps it.
LEMMA ProgramTypeStep ==
  ASSUME TypeOK, TypeOK', ProgramTypeOK, [ToppingNext]_programVars
  PROVE  ProgramTypeOK'
<1> USE DEF ProgramTypeOK
<1>1. ASSUME NEW t \in Threads, Proceed(t)
      PROVE  ProgramTypeOK'
  <2>1. files' \in Seq(Seq(Events))
    <3>1. CASE files' = files
      BY <3>1
    <3>2. CASE files' = Write
      BY <3>2, BatchedType, WriteType DEF Write
    <3> QED BY <1>1, <3>1, <3>2 DEF Proceed, OutputCallback
  <2>2. /\ host' \in Threads \cup {NoThread}
        /\ UNCHANGED <<phase, built, sink, signals, registered, missed>>
    BY <1>1 DEF Proceed
  <2> QED BY <2>1, <2>2
<1>2. ASSUME UNCHANGED toppingVars
      PROVE  ProgramTypeOK'
  BY <1>2 DEF toppingVars
<1>3. ASSUME NEW t \in Threads, NEW c \in Calls, Trace(t, c)
      PROVE  ProgramTypeOK'
  BY <1>2, <1>3 DEF Trace
<1>4. CASE MainFlush
  BY <1>2, <1>4 DEF MainFlush
<1>5. ASSUME OpenSink
      PROVE  files' \in Seq(Seq(Events)) /\ sink' = "open"
  <2>1. <<>> \in Seq(Events)
    BY EmptySeq
  <2> QED BY <1>5, <2>1, AppendProperties DEF OpenSink
<1>6. CASE InitTopping \/ ReplaceSink
  <2>1. /\ OpenSink /\ UNCHANGED <<built, host, signals, registered>>
        /\ phase' \in {"running", "reopening"}
        /\ missed' \in {missed, Len(output)}
    BY <1>6 DEF InitTopping, ReplaceSink
  <2>2. Len(output) \in Nat
    BY LenProperties DEF TypeOK
  <2> QED BY <1>5, <2>1, <2>2
<1>7. CASE InitAgain
  BY <1>7 DEF InitAgain
<1>8. ASSUME NEW t \in Interruptible, Interrupt(t) \/ InterruptLate(t)
      PROVE  ProgramTypeOK'
  <2>1. signals' = signals + 1 /\ signals < MaxSignals /\ signals \in 0..MaxSignals
    BY <1>8 DEF Interrupt, InterruptLate
  <2>2. signals' \in 0..MaxSignals
    BY <2>1
  <2>3. UNCHANGED <<built, sink, files, registered, missed>>
        /\ host' \in Threads \cup {NoThread} /\ phase' \in {phase, "exited"}
    BY <1>8 DEF Interrupt, InterruptLate, UseDeadLog
  <2> QED BY <2>2, <2>3
<1>9. CASE Exit \/ DestroyTopping \/ DestroyToppingLate \/ DestroySink \/ EndWithoutSink
  BY <1>9 DEF Exit, DestroyTopping, DestroyToppingLate, DestroySink, EndWithoutSink, UseDeadLog
<1>10. CASE DestroyLog \/ CloseTrace
  <2>1. /\ built' = Front(built)
        /\ UNCHANGED <<sink, files, host, signals, registered, missed>>
        /\ phase' \in {phase, "exiting"}
    BY <1>10 DEF DestroyLog, CloseTrace
  <2>2. CASE built # <<>>
    <3>1. built' \in Kinds
      BY <2>1, <2>2, BuiltProperties DEF Kinds
    <3> QED BY <2>1, <3>1
  <2>3. CASE built = <<>>
    <3>1. Front(<<>>) = <<>>
      BY EmptySeq, SubSeqEmpty DEF Front
    <3> QED BY <2>1, <2>3, <3>1
  <2> QED BY <2>2, <2>3
<1>11. CASE Finished \/ UNCHANGED programVars
  BY <1>2, <1>11 DEF Finished, programVars
<1>12. CASE BuildTopping
  <2>1. <<"log", "topping">> \in Kinds
    BY DEF Kinds
  <2> HIDE DEF Kinds
  <2> QED BY <1>12, <2>1 DEF BuildTopping
<1> QED BY <1>1, <1>3, <1>4, <1>6, <1>7, <1>8, <1>9, <1>10, <1>11, <1>12 DEF ToppingNext, Shutdown

\* Every variable of the program has its type, for any number of threads,
\* signals and calls of topping::init.
THEOREM ToppingTypeCorrect == ToppingSpec => []ToppingTypeOK
<1>1. ToppingInit => ProgramTypeOK
  <2>1. <<>> \in Seq(Seq(Events))
    BY EmptySeq
  <2>2. {<<"topping", "log">>, <<"log">>} \subseteq Kinds
    BY DEF Kinds
  <2>3. 0 \in 0..MaxSignals
    OBVIOUS
  <2> HIDE DEF Kinds
  <2>4. ASSUME ToppingInit
        PROVE  built \in Kinds
    BY <2>2, <2>4 DEF ToppingInit
  <2> QED BY <2>1, <2>3, <2>4 DEF ToppingInit, ProgramTypeOK
<1>2. TypeOK /\ TypeOK' /\ ProgramTypeOK /\ [ToppingNext]_programVars => ProgramTypeOK'
  BY ProgramTypeStep
<1>3. TypeOK /\ ProgramTypeOK => ToppingTypeOK
  BY DEF ProgramTypeOK, ToppingTypeOK, Kinds
<1> QED BY <1>1, <1>2, <1>3, LogUsed, TypeCorrect, PTL DEF ToppingSpec

-----------------------------------------------------------------------------
(* The handler on the stack of the thread it interrupts                    *)

\* A flush that belongs to a BeginLogging ends in its header.
Framing ==
  \A t \in Threads :
    /\ begin_logging[t] => pc[t] \in FlushPlaces
    /\ pc[t] = "header" => begin_logging[t]

\* Every step of TraceLog keeps it.
LEMMA FramingStep ==
  ASSUME TypeOK, Framing, [Next]_vars
  PROVE  Framing'
<1> USE DEF Framing, FlushPlaces
<1>1. pc \in [Threads -> Places] /\ begin_logging \in [Threads -> BOOLEAN]
  BY DEF TypeOK
<1>2. ASSUME NEW t \in Threads, AddLock(t) \/ FlushSwap(t) \/ FlushClear(t) \/ WriteHeader(t)
      PROVE  Framing'
  BY <1>1, <1>2 DEF AddLock, FlushSwap, FlushClear, WriteHeader, Goto
<1>3. ASSUME NEW t \in Threads, AddRecord(t) \/ AddDiscard(t) \/ AddEraseBegin(t)
      PROVE  Framing'
  BY <1>1, <1>3 DEF AddRecord, AddDiscard, AddEraseBegin, AddReturn, Goto
<1>4. ASSUME NEW t \in Threads, FlushBatch(t) \/ FlushDone(t)
      PROVE  Framing'
  BY <1>1, <1>4 DEF FlushBatch, FlushDone, Goto
<1>5. ASSUME NEW t \in Threads, NEW c \in Calls, AddTraceEvent(t, c)
      PROVE  Framing'
  BY <1>1, <1>5 DEF AddTraceEvent, Goto
<1>6. ASSUME NEW t \in Threads, ThreadReplaced(t)
      PROVE  Framing'
  BY <1>1, <1>6 DEF ThreadReplaced, frameVars
<1>7. ASSUME NEW t \in Threads, Control(t)
      PROVE  Framing'
  BY <1>1, <1>7 DEF Control, CallFlush, Enable, Disable, BeginLogging, EndLogging,
                    AddThreadNameMetadataEvents, EnterFlush, Goto, frameVars
<1>8. CASE Tick \/ UNCHANGED vars
  BY <1>1, <1>8 DEF Tick, vars, frameVars
<1> HIDE DEF Framing
<1> QED BY <1>2, <1>3, <1>4, <1>5, <1>6, <1>7, <1>8, TraceLogAssumption DEF Next, Step

\* A thread inside TraceLog moves nobody else.
LEMMA StepAlone ==
  ASSUME TypeOK, NEW t \in Threads, Step(t)
  PROVE  \A u \in Threads : u # t => pc'[u] = pc[u] /\ begin_logging'[u] = begin_logging[u]
<1>1. pc \in [Threads -> Places] /\ begin_logging \in [Threads -> BOOLEAN]
  BY DEF TypeOK
<1> QED BY <1>1 DEF Step, AddLock, AddRecord, AddDiscard, AddEraseBegin, AddReturn, FlushSwap,
                    FlushClear, FlushBatch, FlushDone, WriteHeader, Goto

\* The handler flushes, and does nothing else, as long as it has a host; when
\* main has returned there is only main to interrupt.
Guest ==
  /\ pc[Handler] \in {"idle", "flush_wait", "flush_clear", "flush_loop"}
  /\ ~begin_logging[Handler]
  /\ host \in Threads \cup {NoThread}
  /\ host = NoThread <=> pc[Handler] = "idle"
  /\ phase \in {"exiting", "closing", "exited"} => host \in {Main, NoThread}

\* It is so at first, and every step keeps it.
LEMMA GuestStep ==
  ASSUME TypeOK, Guest, [ToppingNext]_programVars
  PROVE  Guest'
<1> USE Named
<1>1. pc \in [Threads -> Places] /\ begin_logging \in [Threads -> BOOLEAN]
  BY DEF TypeOK
<1>2. ASSUME NEW t \in Threads, t # Handler, Proceed(t)
      PROVE  Guest'
  <2>1. Step(t) /\ host' = host /\ phase' = phase
    BY <1>2 DEF Proceed
  <2>2. pc'[Handler] = pc[Handler] /\ begin_logging'[Handler] = begin_logging[Handler]
    BY <1>2, <2>1, StepAlone
  <2> QED BY <2>1, <2>2 DEF Guest
<1>3. ASSUME Proceed(Handler)
      PROVE  Guest'
  <2>1. /\ Step(Handler) /\ phase' = phase
        /\ host' = IF pc'[Handler] = "idle" THEN NoThread ELSE host
    BY <1>3 DEF Proceed
  <2>2. host # NoThread
    <3>1. pc[Handler] # "idle"
      BY <2>1 DEF Step, AddLock, AddRecord, AddDiscard, AddEraseBegin, FlushSwap,
                  FlushClear, FlushBatch, FlushDone, WriteHeader
    <3> QED BY <3>1 DEF Guest
  <2>3. /\ pc'[Handler] \in {"idle", "flush_clear", "flush_loop"}
        /\ begin_logging' = begin_logging
    <3>1. CASE FlushSwap(Handler)
      BY <1>1, <3>1 DEF FlushSwap, Goto
    <3>2. CASE FlushClear(Handler)
      BY <1>1, <3>2 DEF FlushClear, Goto
    <3>3. CASE FlushBatch(Handler)
      BY <1>1, <3>3 DEF FlushBatch
    <3>4. CASE FlushDone(Handler)
      BY <1>1, <3>4 DEF FlushDone, Goto, Guest
    <3> QED BY <2>1, <3>1, <3>2, <3>3, <3>4
            DEF Step, Guest, AddLock, AddRecord, AddDiscard, AddEraseBegin, WriteHeader
  <2> QED BY <2>1, <2>2, <2>3 DEF Guest
<1>4. ASSUME NEW t \in Threads, t # Handler, host' = host,
             \A u \in Threads : u # t => pc'[u] = pc[u] /\ begin_logging'[u] = begin_logging[u],
             phase' = phase \/ phase' \in {"running", "reopening"} \/ host \in {Main, NoThread}
      PROVE  Guest'
  BY <1>4 DEF Guest
<1>5. ASSUME NEW t \in Threads, NEW c \in Calls, Trace(t, c)
      PROVE  Guest'
  BY <1>1, <1>4, <1>5 DEF Trace, AddTraceEvent, Goto, toppingVars
<1>6. CASE MainFlush \/ InitTopping \/ ReplaceSink \/ InitAgain \/ DestroyTopping
  <2>1. /\ host' = host
        /\ phase' = phase \/ phase' \in {"running", "reopening"} \/ host \in {Main, NoThread}
    BY <1>6 DEF MainFlush, InitTopping, ReplaceSink, InitAgain, DestroyTopping, MainReady,
                toppingVars, Guest
  <2>2. \E framing \in BOOLEAN : EnterFlush(Main, framing)
    BY <1>6 DEF MainFlush, InitTopping, ReplaceSink, InitAgain, DestroyTopping, CallFlush,
                BeginLogging
  <2> QED BY <1>1, <1>4, <2>1, <2>2 DEF EnterFlush, Goto
<1>7. CASE CloseTrace
  BY <1>4, <1>7 DEF CloseTrace, EndLogging, frameVars, Guest
<1>8. ASSUME NEW t \in Interruptible, Interrupt(t)
      PROVE  Guest'
  <2>1. host' = t /\ t \in Threads /\ phase' = phase /\ (t = Main \/ Active)
    BY <1>8 DEF Interrupt
  <2>2. pc' = [pc EXCEPT ![Handler] = "flush_wait"]
        /\ begin_logging' = [begin_logging EXCEPT ![Handler] = FALSE]
    BY <1>8 DEF Interrupt, CallFlush, EnterFlush, Goto
  <2> QED BY <1>1, <2>1, <2>2 DEF Guest, Active
<1>9. ASSUME UNCHANGED <<pc, begin_logging, host>>, phase' = phase \/ host \in {Main, NoThread}
      PROVE  Guest'
  BY <1>9 DEF Guest
<1>10. ASSUME NEW t \in Interruptible, InterruptLate(t)
       PROVE  Guest'
  BY <1>9, <1>10 DEF InterruptLate, UseDeadLog, vars, frameVars
<1>11. CASE BuildTopping \/ Exit \/ DestroyLog \/ DestroyToppingLate \/ DestroySink
            \/ EndWithoutSink \/ Finished \/ UNCHANGED programVars
  <2>1. UNCHANGED <<vars, host>> /\ (phase' = phase \/ host \in {Main, NoThread})
    BY <1>11 DEF BuildTopping, Exit, DestroyLog, DestroyToppingLate, DestroySink, EndWithoutSink,
                 UseDeadLog, Finished, programVars, toppingVars, Guest
  <2> QED BY <1>9, <2>1 DEF vars, frameVars
<1> QED BY <1>2, <1>3, <1>5, <1>6, <1>7, <1>8, <1>10, <1>11 DEF ToppingNext, Shutdown

\* With signals away, main stands where the signal found it; if that is in
\* the critical section of Flush, the handler waits.
Hosted ==
  /\ host \in {Main, NoThread}
  /\ host = Main =>
       /\ pc[Main] # "flush_loop"
       /\ pc[Main] = "flush_clear" => pc[Handler] = "flush_wait"

\* It is so at first, and every step keeps it.
LEMMA HostedStep ==
  ASSUME SignalsAway, TypeOK, LockOwned, Guest, Hosted, [ToppingNext]_programVars
  PROVE  Hosted'
<1> USE Named
<1>1. pc \in [Threads -> Places]
  BY DEF TypeOK
<1>2. ASSUME NEW t \in Threads, t # Handler, Proceed(t)
      PROVE  Hosted'
  <2>1. t # host /\ Step(t) /\ host' = host
    BY <1>2 DEF Proceed
  <2>2. pc'[Handler] = pc[Handler] /\ (t # Main => pc'[Main] = pc[Main])
    BY <1>2, <2>1, StepAlone
  <2> QED BY <2>1, <2>2 DEF Hosted
<1>3. ASSUME Proceed(Handler)
      PROVE  Hosted'
  <2>1. /\ Step(Handler)
        /\ host' = IF pc'[Handler] = "idle" THEN NoThread ELSE host
    BY <1>3 DEF Proceed
  <2>2. pc'[Main] = pc[Main]
    BY <2>1, StepAlone
  <2>3. CASE pc[Main] # "flush_clear"
    BY <2>1, <2>2, <2>3 DEF Hosted
  <2>4. CASE pc[Main] = "flush_clear"
    <3>1. lock_ = Main
      BY <2>4 DEF LockOwned
    <3>2. host # Main
      <4>1. ~FlushSwap(Handler)
        BY <3>1 DEF FlushSwap, Acquire
      <4>2. pc[Handler] # "flush_wait"
        BY <2>1, <4>1 DEF Step, AddLock, AddRecord, AddDiscard, AddEraseBegin, FlushClear,
                          FlushBatch, FlushDone, WriteHeader
      <4> QED BY <2>4, <4>2 DEF Hosted
    <3> QED BY <2>1, <3>2 DEF Hosted
  <2> QED BY <2>3, <2>4
<1>4. ASSUME NEW t \in Threads, t # Handler, t # host, host' = host,
             \A u \in Threads : u # t => pc'[u] = pc[u]
      PROVE  Hosted'
  BY <1>4 DEF Hosted
<1>5. ASSUME NEW t \in Threads, NEW c \in Calls, Trace(t, c)
      PROVE  Hosted'
  BY <1>1, <1>4, <1>5 DEF Trace, AddTraceEvent, Goto, toppingVars
<1>6. CASE MainFlush \/ InitTopping \/ ReplaceSink \/ InitAgain \/ DestroyTopping
  <2>1. Main # host /\ host' = host
    BY <1>6 DEF MainFlush, InitTopping, ReplaceSink, InitAgain, DestroyTopping, MainReady,
                toppingVars
  <2>2. \E framing \in BOOLEAN : EnterFlush(Main, framing)
    BY <1>6 DEF MainFlush, InitTopping, ReplaceSink, InitAgain, DestroyTopping, CallFlush,
                BeginLogging
  <2> QED BY <1>1, <1>4, <2>1, <2>2 DEF EnterFlush, Goto
<1>7. ASSUME NEW t \in Interruptible, Interrupt(t)
      PROVE  Hosted'
  <2>1. t = Main /\ pc[Main] # "flush_loop" /\ host' = Main
    BY <1>7 DEF Interrupt, SignalsAway
  <2>2. pc' = [pc EXCEPT ![Handler] = "flush_wait"]
    BY <1>7 DEF Interrupt, CallFlush, EnterFlush, Goto
  <2> QED BY <1>1, <2>1, <2>2 DEF Hosted
<1>8. ASSUME UNCHANGED <<pc, host>>
      PROVE  Hosted'
  BY <1>8 DEF Hosted
<1>9. ASSUME NEW t \in Interruptible, InterruptLate(t)
       PROVE  Hosted'
  BY <1>8, <1>9 DEF InterruptLate, UseDeadLog, vars, frameVars
<1>10. CASE BuildTopping \/ Exit \/ DestroyLog \/ DestroyToppingLate \/ DestroySink
            \/ EndWithoutSink \/ Finished \/ CloseTrace \/ UNCHANGED programVars
  BY <1>8, <1>10 DEF BuildTopping, Exit, DestroyLog, DestroyToppingLate, DestroySink,
                     EndWithoutSink, UseDeadLog, Finished, CloseTrace, EndLogging, programVars,
                     toppingVars, vars, frameVars
<1> QED BY <1>2, <1>3, <1>5, <1>6, <1>7, <1>9, <1>10 DEF ToppingNext, Shutdown

\* So there is one flush at a time after all.
LEMMA HostedAlone ==
  ASSUME TypeOK, ControllersFlush, Guest, Hosted
  PROVE  FlushAlone
<1> USE Named
<1>1. ASSUME NEW t \in Flushing
      PROVE  t = Main \/ t = Handler
  BY <1>1 DEF Flushing, ControllersFlush, FlushPlaces
<1>2. ~(Main \in Flushing /\ Handler \in Flushing)
  BY DEF Flushing, Guest, Hosted
<1> QED BY <1>1, <1>2 DEF FlushAlone

\* What holds wherever the signal finds its thread.
ProgramInv ==
  TypeOK /\ LockOwned /\ ControllersFlush /\ CursorReset /\ Framing /\ Guest

\* Every reachable state satisfies it.
LEMMA ProgramInductive ==
  ToppingSpec => []ProgramInv /\ [][ProgramInv /\ ProgramInv' /\ ToppingNext]_programVars
<1>1. ToppingInit => ControllersFlush /\ CursorReset /\ Framing /\ Guest
  BY Named DEF ToppingInit, Init, ControllersFlush, FlushPlaces, CursorReset, Framing, Guest
<1>2. /\ TypeOK /\ LockOwned /\ ControllersFlush /\ CursorReset /\ Framing /\ Guest
      /\ [ToppingNext]_programVars
      => ControllersFlush' /\ CursorReset' /\ Framing' /\ Guest'
  BY LogStep, ControllersStep, CursorStep, FramingStep, GuestStep
<1>3. TypeOK /\ LockOwned /\ ControllersFlush /\ CursorReset /\ Framing /\ Guest => ProgramInv
  BY DEF ProgramInv
<1>4. ProgramInv /\ ProgramInv' /\ [ToppingNext]_programVars
      => [ProgramInv /\ ProgramInv' /\ ToppingNext]_programVars
  OBVIOUS
<1> QED BY <1>1, <1>2, <1>3, <1>4, LogUsed, TypeCorrect, LockCorrect, PTL DEF ToppingSpec

\* The thread the handler has interrupted stays outside the critical sections.
Outside ==
  host # NoThread => host # Handler /\ pc[host] \notin {"add_body", "flush_clear"}

\* The handler's Flush waits for its own host only if the signal finds that
\* host in one of the two critical sections of TraceLog: a program that blocks
\* SIGINT there, and nowhere else, has no such deadlock, whatever its other
\* threads do.
THEOREM BlockedOnlyInside ==
  ASSUME InterruptiblePlaces \cap {"add_body", "flush_clear"} = {}
  PROVE  ToppingSpec => []HandlerNotBlockedByHost
<1> USE Named
<1>1. ToppingInit => Outside
  BY DEF ToppingInit, Outside
<1>2. Outside /\ [ProgramInv /\ ProgramInv' /\ ToppingNext]_programVars => Outside'
  <2> SUFFICES ASSUME Outside, ProgramInv, [ToppingNext]_programVars
               PROVE  Outside'
    BY DEF Outside, programVars, toppingVars, vars, frameVars
  <2>1. pc \in [Threads -> Places] /\ host \in Threads \cup {NoThread} /\ TypeOK
    BY DEF ProgramInv, TypeOK, Guest
  <2>2. ASSUME NEW t \in Threads, t # host, host' \in {host, NoThread},
               \A u \in Threads : u # t => pc'[u] = pc[u]
        PROVE  Outside'
    BY <2>1, <2>2 DEF Outside
  <2>3. ASSUME NEW t \in Threads, Proceed(t)
        PROVE  Outside'
    BY <2>1, <2>2, <2>3, StepAlone DEF Proceed
  <2>4. ASSUME NEW t \in Threads, NEW c \in Calls, Trace(t, c)
        PROVE  Outside'
    BY <2>1, <2>2, <2>4 DEF Trace, AddTraceEvent, Goto, toppingVars
  <2>5. CASE MainFlush \/ InitTopping \/ ReplaceSink \/ InitAgain \/ DestroyTopping
    <3>1. Main # host /\ host' = host
      BY <2>5 DEF MainFlush, InitTopping, ReplaceSink, InitAgain, DestroyTopping, MainReady,
                  toppingVars
    <3>2. \E framing \in BOOLEAN : EnterFlush(Main, framing)
      BY <2>5 DEF MainFlush, InitTopping, ReplaceSink, InitAgain, DestroyTopping, CallFlush,
                  BeginLogging
    <3> QED BY <2>1, <2>2, <3>1, <3>2 DEF EnterFlush, Goto
  <2>6. ASSUME NEW t \in Interruptible, Interrupt(t)
        PROVE  Outside'
    <3>1. host' = t /\ t \in Threads /\ t # Handler /\ pc[t] \notin {"add_body", "flush_clear"}
      BY <2>6 DEF Interrupt
    <3>2. pc' = [pc EXCEPT ![Handler] = "flush_wait"]
      BY <2>6 DEF Interrupt, CallFlush, EnterFlush, Goto
    <3> QED BY <2>1, <3>1, <3>2 DEF Outside
  <2>7. ASSUME UNCHANGED <<pc, host>>
        PROVE  Outside'
    BY <2>7 DEF Outside
  <2>8. ASSUME NEW t \in Interruptible, InterruptLate(t)
        PROVE  Outside'
    BY <2>7, <2>8 DEF InterruptLate, UseDeadLog, vars, frameVars
  <2>9. CASE BuildTopping \/ Exit \/ DestroyLog \/ DestroyToppingLate \/ DestroySink
             \/ EndWithoutSink \/ Finished \/ CloseTrace \/ UNCHANGED programVars
    BY <2>7, <2>9 DEF BuildTopping, Exit, DestroyLog, DestroyToppingLate, DestroySink,
                      EndWithoutSink, UseDeadLog, Finished, CloseTrace, EndLogging, programVars,
                      toppingVars, vars, frameVars
  <2> QED BY <2>3, <2>4, <2>5, <2>6, <2>8, <2>9 DEF ToppingNext, Shutdown
<1>3. Outside /\ ProgramInv => HandlerNotBlockedByHost
  BY DEF Outside, ProgramInv, Guest, LockOwned, HandlerNotBlockedByHost
<1> QED BY <1>1, <1>2, <1>3, ProgramInductive, PTL DEF ToppingSpec

\* What Moves asks of a state of the program.
AwayInv == ProgramInv /\ Hosted

\* With signals away every reachable state satisfies it, and every step is a
\* move.
LEMMA ProgramMoves ==
  ASSUME SignalsAway
  PROVE  ToppingSpec => []AwayInv /\ [][AwayInv /\ AwayInv' /\ Move /\ ToppingNext]_programVars
<1>1. ToppingInit => Hosted
  BY Named DEF ToppingInit, Hosted
<1>2. ProgramInv /\ Hosted /\ [ToppingNext]_programVars => Hosted'
  BY HostedStep DEF ProgramInv
<1>3. AwayInv /\ AwayInv' /\ [ToppingNext]_programVars
      => [AwayInv /\ AwayInv' /\ Move /\ ToppingNext]_programVars
  <2> SUFFICES ASSUME AwayInv, AwayInv', ToppingNext
               PROVE  Move
    OBVIOUS
  <2>1. FlushAlone
    BY HostedAlone DEF AwayInv, ProgramInv
  <2>2. FlushAlone'
    <3>1. \A t \in Flushing' : t = Main \/ t = Handler
      BY Named DEF AwayInv, ProgramInv, Flushing, ControllersFlush, FlushPlaces
    <3>2. ~(Main \in Flushing' /\ Handler \in Flushing')
      BY Named DEF AwayInv, ProgramInv, Flushing, Guest, Hosted
    <3> QED BY <3>1, <3>2 DEF FlushAlone
  <2> QED BY <2>1, <2>2, LogStep, Moves DEF AwayInv, ProgramInv
<1>4. AwayInv <=> ProgramInv /\ Hosted
  BY DEF AwayInv
<1> QED BY <1>1, <1>2, <1>3, <1>4, ProgramInductive, PTL DEF ToppingSpec

-----------------------------------------------------------------------------
(* The end of the program                                                  *)

\* Where nothing is recorded, nothing turns up in an empty log, nor in an
\* empty flush.
LEMMA Quiet ==
  ASSUME Move, next_uid' = next_uid, next_uid \in Nat, Open = <<>>
  PROVE  Open' = <<>> /\ (Pending = <<>> => Pending' = <<>> /\ output' = output)
<1>1. ASSUME NEW es \in Seq(Events), NEW time \in Nat, Recorded(es, time)
      PROVE  FALSE
  <2>1. Len(es) \in Nat /\ Len(es) # 0 /\ next_uid' = next_uid + Len(es)
    BY <1>1, LenProperties, EmptySeq DEF Recorded
  <2> QED BY <2>1
<1>2. ASSUME NEW i \in 1..Len(Open)
      PROVE  FALSE
  <2>1. Len(<<>>) = 0
    BY EmptySeq
  <2> QED BY <1>2, <2>1
<1>3. ASSUME NEW batch \in Seq(Events), NEW rest \in Seq(Events), Delivered(batch, rest)
      PROVE  Open' = <<>> /\ Pending # <<>>
  <2>1. Len(batch \o rest) = Len(batch) + Len(rest) /\ Len(batch) \in Nat /\ Len(rest) \in Nat
    BY LenProperties, ConcatProperties
  <2>2. Len(batch) # 0
    BY <1>3, EmptySeq DEF Delivered
  <2>3. Len(Pending) # 0
    BY <1>3, <2>1, <2>2 DEF Delivered
  <2> QED BY <1>3, <2>3, EmptySeq DEF Delivered
<1>4. CASE Unmoved \/ Committed
  BY <1>4 DEF Unmoved, Committed
<1> QED BY <1>1, <1>2, <1>3, <1>4 DEF Move

\* A thread in Flush records nothing, and writes no marker but a header.
LEMMA FlushRecordsNothing ==
  ASSUME NEW t \in Threads, Step(t), pc[t] \in FlushPlaces
  PROVE  next_uid' = next_uid /\ (pc[t] # "header" => markers' = markers)
BY DEF FlushPlaces, Step, AddLock, AddRecord, AddDiscard, AddEraseBegin, FlushSwap,
       FlushClear, FlushBatch, FlushDone, WriteHeader, logVars

\* A step takes a thread from a place inside TraceLog.
LEMMA StepInside ==
  ASSUME NEW t \in Threads, Step(t)
  PROVE  pc[t] # "idle"
BY DEF Step, AddLock, AddRecord, AddDiscard, AddEraseBegin, FlushSwap,
       FlushClear, FlushBatch, FlushDone, WriteHeader

\* At exit everybody but main and the handler is done with the log, and main
\* is inside it only while ~topping flushes; a log that is gone is not used.
Leaving ==
  /\ phase \in {"exiting", "closing", "exited"} =>
       \A t \in Threads : t \notin {Main, Handler} => pc[t] = "idle"
  /\ phase \in {"exiting", "exited"} => pc[Main] = "idle"
  /\ phase = "closing" => built = <<"log", "topping">>
  /\ ~LogAlive => phase \in {"exiting", "exited"} /\ host = NoThread
  /\ phase = "exited" => ~LogAlive

\* Which singletons are alive.
LEMMA AliveProperties ==
  ASSUME built \in Kinds
  PROVE  /\ LogAlive <=> built \in {<<"log">>, <<"topping", "log">>, <<"log", "topping">>}
         /\ built # <<>> /\ Last(built) = "topping" /\ LogAlive => built = <<"log", "topping">>
BY BuiltProperties DEF LogAlive, Kinds

\* From the exit on main can only destroy what nobody is inside of.
LEMMA ReadyProperties ==
  ASSUME ProgramInv, phase \in {"exiting", "closing"}, MainReady
  PROVE  pc[Main] = "idle" /\ host = NoThread /\ pc[Handler] = "idle"
BY DEF MainReady, ProgramInv, Guest

\* Every step keeps it.
LEMMA LeavingStep ==
  ASSUME ProgramInv, built \in Kinds, Leaving, ToppingNext
  PROVE  Leaving'
<1> USE Named
<1>1. pc \in [Threads -> Places]
  BY DEF ProgramInv, TypeOK
<1>2. ASSUME NEW t \in Threads, Proceed(t)
      PROVE  Leaving'
  <2>1. /\ Step(t) /\ UNCHANGED <<phase, built>> /\ pc[t] # "idle"
        /\ host' = IF t = Handler /\ pc'[t] = "idle" THEN NoThread ELSE host
    BY <1>2, StepInside DEF Proceed
  <2>2. \A u \in Threads : u # t => pc'[u] = pc[u]
    BY <2>1, StepAlone DEF ProgramInv
  <2>3. phase \in {"exiting", "closing", "exited"} => t \in {Main, Handler}
    BY <2>1 DEF Leaving
  <2>4. phase \in {"exiting", "exited"} => t = Handler
    BY <2>1, <2>3 DEF Leaving
  <2>5. LogAlive' <=> LogAlive
    BY <2>1 DEF LogAlive
  <2> QED BY <2>1, <2>2, <2>3, <2>4, <2>5 DEF Leaving
<1>3. ASSUME NEW t \in Threads, NEW c \in Calls, Trace(t, c)
      PROVE  Leaving'
  BY <1>3 DEF Trace, Active, Leaving, toppingVars, LogAlive
<1>4. CASE MainFlush \/ InitTopping \/ ReplaceSink \/ InitAgain
  BY <1>4 DEF MainFlush, InitTopping, ReplaceSink, InitAgain, Leaving, toppingVars, LogAlive
<1>5. ASSUME NEW t \in Interruptible, Interrupt(t)
      PROVE  Leaving'
  <2>1. pc' = [pc EXCEPT ![Handler] = "flush_wait"] /\ LogAlive /\ UNCHANGED <<phase, built>>
    BY <1>5 DEF Interrupt, CallFlush, EnterFlush, Goto
  <2>2. phase # "exited"
    BY <2>1 DEF Leaving
  <2> QED BY <1>1, <2>1, <2>2 DEF Leaving, LogAlive
<1>6. ASSUME UNCHANGED vars
      PROVE  UNCHANGED pc
  BY <1>6 DEF vars, frameVars
<1>7. ASSUME NEW t \in Interruptible, InterruptLate(t)
      PROVE  Leaving'
  <2>1. ~LogAlive /\ phase' = "exited" /\ UNCHANGED <<vars, built, host>> /\ phase # "exited"
    BY <1>7 DEF InterruptLate, UseDeadLog
  <2> QED BY <1>6, <2>1 DEF Leaving, LogAlive
<1>8. CASE Exit
  <2>1. /\ \A t \in Threads : pc[t] = "idle"
        /\ host = NoThread /\ phase \in {"before", "running"} /\ phase' = "exiting"
        /\ UNCHANGED <<vars, built, host>>
    BY <1>8 DEF Exit
  <2> QED BY <1>6, <2>1 DEF Leaving, LogAlive
<1>9. CASE DestroyLog
  <2>1. phase = "exiting" /\ MainReady /\ UNCHANGED <<vars, phase, host>>
    BY <1>9 DEF DestroyLog
  <2> QED BY <1>6, <2>1, ReadyProperties DEF Leaving
<1>10. CASE DestroyTopping
  <2>1. /\ phase = "exiting" /\ phase' = "closing" /\ UNCHANGED <<built, host>>
        /\ built # <<>> /\ Last(built) = "topping" /\ LogAlive
        /\ pc' = [pc EXCEPT ![Main] = "flush_wait"]
    BY <1>10 DEF DestroyTopping, CallFlush, EnterFlush, Goto
  <2>2. built = <<"log", "topping">>
    BY <2>1, AliveProperties
  <2>3. LogAlive'
    BY <2>1 DEF LogAlive
  <2> QED BY <1>1, <2>1, <2>2, <2>3 DEF Leaving
<1>11. CASE CloseTrace
  <2>1. /\ phase = "closing" /\ phase' = "exiting" /\ MainReady /\ host' = host /\ pc' = pc
    BY <1>11 DEF CloseTrace, EndLogging, frameVars
  <2> QED BY <2>1, ReadyProperties DEF Leaving
<1>12. CASE DestroyToppingLate \/ DestroySink \/ EndWithoutSink
  <2>1. /\ phase = "exiting" /\ phase' = "exited" /\ MainReady /\ UNCHANGED <<vars, built, host>>
        /\ ~LogAlive
    BY <1>12, BuiltProperties
       DEF DestroyToppingLate, DestroySink, EndWithoutSink, UseDeadLog, LogAlive
  <2> QED BY <1>6, <2>1, ReadyProperties DEF Leaving, LogAlive
<1>13. CASE Finished
  BY <1>6, <1>13 DEF Finished, programVars, toppingVars, Leaving, LogAlive
<1>14. CASE BuildTopping
  <2>1. /\ phase \in {"before", "running"} /\ built' = <<"log", "topping">>
        /\ UNCHANGED <<vars, phase, host>>
    BY <1>14 DEF BuildTopping
  <2>2. LogAlive'
    BY <2>1, BuiltProperties DEF LogAlive
  <2> QED BY <1>6, <2>1, <2>2 DEF Leaving
<1> QED BY <1>2, <1>3, <1>4, <1>5, <1>7, <1>8, <1>9, <1>10, <1>11, <1>12, <1>13, <1>14
        DEF ToppingNext, Shutdown

\* Main's last flush leaves nothing open.
Phased ==
  phase = "closing" =>
    /\ pc[Main] \in FlushPlaces \cup {"idle"}
    /\ ~begin_logging[Main]
    /\ pc[Main] # "flush_wait" => Open = <<>>

\* Every step keeps it.
LEMMA PhasedStep ==
  ASSUME AwayInv, Move, Leaving, Phased, ToppingNext
  PROVE  Phased'
<1> USE Named
<1>1. /\ pc \in [Threads -> Places] /\ begin_logging \in [Threads -> BOOLEAN] /\ next_uid \in Nat
  BY DEF AwayInv, ProgramInv, TypeOK
<1>2. ASSUME phase' # "closing"
      PROVE  Phased'
  BY <1>2 DEF Phased
<1>3. ASSUME NEW t \in Threads, Proceed(t), phase = "closing"
      PROVE  Phased'
  <2>1. Step(t) /\ phase' = phase /\ pc[t] # "idle"
    BY <1>3, StepInside DEF Proceed
  <2>2. \A u \in Threads : u # t => pc'[u] = pc[u] /\ begin_logging'[u] = begin_logging[u]
    BY <2>1, StepAlone DEF AwayInv, ProgramInv
  <2>3. t \in {Main, Handler} /\ pc[t] \in FlushPlaces
    BY <1>3, <2>1 DEF Leaving, Phased, AwayInv, ProgramInv, Guest, FlushPlaces
  <2>4. Open = <<>> => Open' = <<>>
    BY <1>1, <2>1, <2>3, Quiet, FlushRecordsNothing
  <2>5. CASE t = Handler
    BY <1>3, <2>2, <2>4, <2>5 DEF Phased
  <2>6. CASE t = Main
    <3>1. ~begin_logging[Main] /\ pc[Main] # "header" /\ pc[Main] \in FlushPlaces
      BY <1>3, <2>3, <2>6 DEF Phased, AwayInv, ProgramInv, Framing
    <3>2. CASE FlushSwap(Main)
      <4>1. pc' = [pc EXCEPT ![Main] = "flush_clear"] /\ begin_logging' = begin_logging
        BY <3>2 DEF FlushSwap, Goto
      <4>2. Swapping'
        BY <1>1, <4>1 DEF Swapping
      <4> QED BY <1>1, <3>1, <4>1, <4>2 DEF Open, Phased, FlushPlaces
    <3>3. CASE FlushClear(Main) \/ FlushBatch(Main) \/ FlushDone(Main)
      <4>1. pc[Main] # "flush_wait" /\ begin_logging' = begin_logging
            /\ pc'[Main] \in FlushPlaces \cup {"idle"}
        BY <1>1, <3>1, <3>3 DEF FlushClear, FlushBatch, FlushDone, Goto, FlushPlaces
      <4> QED BY <1>3, <2>4, <3>1, <4>1 DEF Phased
    <3> QED BY <2>1, <2>6, <3>1, <3>2, <3>3
            DEF Step, FlushPlaces, AddLock, AddRecord, AddDiscard, AddEraseBegin, WriteHeader
  <2> QED BY <2>3, <2>5, <2>6
<1>4. ASSUME NEW t \in Threads, Proceed(t)
      PROVE  Phased'
  BY <1>2, <1>3, <1>4 DEF Proceed
<1>5. ASSUME NEW t \in Threads, NEW c \in Calls, Trace(t, c)
      PROVE  Phased'
  BY <1>2, <1>5 DEF Trace, Active, toppingVars
<1>6. CASE MainFlush \/ InitTopping \/ ReplaceSink \/ InitAgain
  BY <1>2, <1>6 DEF MainFlush, InitTopping, ReplaceSink, InitAgain, toppingVars
<1>7. ASSUME NEW t \in Interruptible, Interrupt(t)
      PROVE  Phased'
  <2>1. /\ pc' = [pc EXCEPT ![Handler] = "flush_wait"]
        /\ begin_logging' = [begin_logging EXCEPT ![Handler] = FALSE]
        /\ UNCHANGED <<phase, logVars>>
    BY <1>7 DEF Interrupt, CallFlush, EnterFlush, Goto
  <2>2. pc[Handler] = "idle" /\ (Swapping' <=> Swapping)
    BY <1>1, <1>7, <2>1 DEF Interrupt, CallFlush, EnterFlush, Swapping
  <2>3. Open' = Open
    BY <2>1, <2>2 DEF Open, logVars
  <2> QED BY <1>1, <2>1, <2>3 DEF Phased
<1>8. CASE DestroyTopping
  <2>1. /\ pc' = [pc EXCEPT ![Main] = "flush_wait"]
        /\ begin_logging' = [begin_logging EXCEPT ![Main] = FALSE]
    BY <1>8 DEF DestroyTopping, CallFlush, EnterFlush, Goto
  <2> QED BY <1>1, <2>1 DEF Phased, FlushPlaces
<1>9. ASSUME UNCHANGED <<vars, phase>>
      PROVE  Phased'
  <2>1. UNCHANGED <<pc, begin_logging, Open>>
    BY <1>9 DEF vars, frameVars, logVars, Open, Swapping
  <2> QED BY <1>9, <2>1 DEF Phased
<1>10. ASSUME NEW t \in Interruptible, InterruptLate(t)
       PROVE  Phased'
  BY <1>2, <1>10 DEF InterruptLate, UseDeadLog
<1>11. CASE Exit \/ CloseTrace \/ DestroyToppingLate \/ DestroySink \/ EndWithoutSink
  BY <1>2, <1>11 DEF Exit, CloseTrace, DestroyToppingLate, DestroySink, EndWithoutSink, UseDeadLog
<1>12. CASE BuildTopping \/ DestroyLog \/ Finished
  BY <1>9, <1>12 DEF BuildTopping, DestroyLog, Finished, programVars, toppingVars
<1> QED BY <1>4, <1>5, <1>6, <1>7, <1>8, <1>10, <1>11, <1>12 DEF ToppingNext, Shutdown

\* A marker written at the end of what was handed out so far.
LEMMA MarkProperties ==
  ASSUME TypeOK, NEW kind \in {"[", "]"}, Mark(kind)
  PROVE  LET k == Len(markers) + 1
         IN  /\ Len(markers) \in Nat /\ k \notin 1..Len(markers)
             /\ Footer' = IF kind = "]" THEN Footer \cup {k} ELSE Footer
             /\ Headers' = IF kind = "[" THEN Headers \cup {k} ELSE Headers
             /\ markers'[k].at = Len(output)
             /\ \A i \in 1..Len(markers) : markers'[i] = markers[i]
<1> DEFINE k == Len(markers) + 1
           m == [kind |-> kind, at |-> Len(output)]
           Marker == [kind : {"[", "]"}, at : Nat]
<1>1. markers \in Seq(Marker) /\ Len(markers) \in Nat
  BY LenProperties DEF TypeOK
<1>2. m \in Marker
  BY LenProperties DEF TypeOK
<1>3. m.kind = kind /\ m.at = Len(output) /\ markers' = Append(markers, m)
  BY DEF Mark
<1> HIDE DEF m, Marker
<1>4. /\ Len(markers') = k /\ markers'[k] = m
      /\ \A i \in 1..Len(markers) : markers'[i] = markers[i]
  BY <1>1, <1>2, <1>3, AppendProperties
<1>5. 1..k = (1..Len(markers)) \cup {k} /\ k \notin 1..Len(markers)
  BY <1>1
<1> HIDE DEF k
<1>6. Footer' = IF kind = "]" THEN Footer \cup {k} ELSE Footer
  BY <1>3, <1>4, <1>5 DEF Footer
<1>7. Headers' = IF kind = "[" THEN Headers \cup {k} ELSE Headers
  BY <1>3, <1>4, <1>5 DEF Headers
<1> QED BY <1>1, <1>3, <1>4, <1>5, <1>6, <1>7 DEF k

\* Once the footer is written, the log is empty and stays so.
Closed ==
  Footer # {} =>
    /\ phase \in {"exiting", "exited"}
    /\ built \in {<<"log">>, <<>>}
    /\ Open = <<>> /\ Pending = <<>>
    /\ \A i \in Footer : markers[i].at = Len(output)

\* Every step keeps it.
LEMMA ClosedStep ==
  ASSUME AwayInv, AwayInv', built \in Kinds, Move, Leaving, Phased, Closed, ToppingNext
  PROVE  Closed'
<1> USE Named
<1>1. /\ pc \in [Threads -> Places] /\ next_uid \in Nat /\ TypeOK /\ built \in Kinds
  BY DEF AwayInv, ProgramInv, TypeOK
\* A step that leaves the markers, and the log with them, alone.
<1>2. ASSUME UNCHANGED markers, Footer = {}
      PROVE  Closed'
  BY <1>2 DEF Closed, Footer
<1>3. ASSUME UNCHANGED <<markers, next_uid>>, Footer # {},
             phase' \in {"exiting", "exited"}, built' \in {<<"log">>, <<>>}
      PROVE  Closed'
  <2>1. Open' = <<>> /\ Pending' = <<>> /\ output' = output
    BY <1>1, <1>3, Quiet DEF Closed
  <2> QED BY <1>3, <2>1 DEF Closed, Footer
<1>4. ASSUME NEW t \in Threads, Proceed(t)
      PROVE  Closed'
  <2>1. Step(t) /\ UNCHANGED <<phase, built>> /\ pc[t] # "idle"
    BY <1>4, StepInside DEF Proceed
  <2>2. CASE Footer = {}
    <3>1. CASE WriteHeader(t)
      <4>1. Mark("[")
        BY <3>1 DEF WriteHeader
      <4>2. Footer' = {}
        BY <1>1, <2>2, <4>1, MarkProperties
      <4> QED BY <4>2 DEF Closed
    <3>2. CASE ~WriteHeader(t)
      <4>1. UNCHANGED markers
        BY <2>1, <3>2 DEF Step, AddLock, AddRecord, AddDiscard, AddEraseBegin, AddReturn,
                          FlushSwap, FlushClear, FlushBatch, FlushDone
      <4> QED BY <1>2, <2>2, <4>1
    <3> QED BY <3>1, <3>2
  <2>3. CASE Footer # {}
    <3>1. t = Handler /\ pc[t] \in FlushPlaces /\ pc[t] # "header"
      BY <2>1, <2>3 DEF Closed, Leaving, AwayInv, ProgramInv, Guest, FlushPlaces
    <3>2. UNCHANGED <<markers, next_uid>>
      BY <2>1, <3>1, FlushRecordsNothing
    <3> QED BY <1>3, <2>1, <2>3, <3>2 DEF Closed
  <2> QED BY <2>2, <2>3
<1>5. ASSUME NEW t \in Threads, NEW c \in Calls, Trace(t, c)
      PROVE  Closed'
  <2>1. Footer = {}
    BY <1>5 DEF Trace, Active, Closed
  <2> QED BY <1>2, <1>5, <2>1 DEF Trace, AddTraceEvent
<1>6. CASE MainFlush \/ InitTopping \/ ReplaceSink \/ InitAgain
  <2>1. Footer = {}
    BY <1>6 DEF MainFlush, InitTopping, ReplaceSink, InitAgain, Closed
  <2> QED BY <1>2, <1>6, <2>1 DEF MainFlush, InitTopping, ReplaceSink, InitAgain, CallFlush,
                                  BeginLogging
<1>7. ASSUME NEW t \in Interruptible, Interrupt(t)
      PROVE  Closed'
  <2>1. UNCHANGED <<markers, next_uid, phase, built>>
    BY <1>7 DEF Interrupt, CallFlush, logVars
  <2> QED BY <1>2, <1>3, <2>1 DEF Closed
<1>8. ASSUME UNCHANGED <<vars, built>>, phase' \in {phase, "exiting", "exited"}
      PROVE  Closed'
  BY <1>2, <1>3, <1>8 DEF Closed, vars, logVars
<1>9. ASSUME NEW t \in Interruptible, InterruptLate(t)
      PROVE  Closed'
  BY <1>8, <1>9 DEF InterruptLate, UseDeadLog
<1>10. CASE Exit \/ DestroyToppingLate \/ DestroySink \/ EndWithoutSink \/ Finished
  BY <1>8, <1>10 DEF Exit, DestroyToppingLate, DestroySink, EndWithoutSink, UseDeadLog, Finished,
                     programVars, toppingVars
<1>11. CASE DestroyLog
  <2>1. UNCHANGED <<vars, phase>> /\ built' = Front(built) /\ Last(built) = "log" /\ built # <<>>
    BY <1>11 DEF DestroyLog
  <2>2. UNCHANGED <<markers, next_uid>>
    BY <2>1 DEF vars, logVars
  <2>3. Footer # {} => built' = <<>> /\ phase' \in {"exiting", "exited"}
    BY <2>1, BuiltProperties DEF Closed
  <2> QED BY <1>2, <1>3, <2>2, <2>3
<1>12. CASE DestroyTopping
  <2>1. UNCHANGED markers /\ built # <<>> /\ Last(built) = "topping" /\ LogAlive
    BY <1>12 DEF DestroyTopping, CallFlush
  <2>2. built = <<"log", "topping">>
    BY <1>1, <2>1, AliveProperties
  <2>3. Footer = {}
    BY <2>2 DEF Closed
  <2> QED BY <1>2, <2>1, <2>3
<1>13. CASE CloseTrace
  <2>1. /\ phase = "closing" /\ phase' = "exiting" /\ MainReady /\ Mark("]")
        /\ built' = Front(built)
        /\ UNCHANGED <<pc, logVars, cursor>>
    BY <1>13 DEF CloseTrace, EndLogging, frameVars
  <2>2. Footer = {}
    BY <2>1 DEF Closed
  <2>3. /\ Footer' = {Len(markers) + 1}
        /\ markers'[Len(markers) + 1].at = Len(output)
    BY <1>1, <2>1, <2>2, MarkProperties
  <2>4. built' = <<"log">>
    BY <2>1, BuiltProperties DEF Leaving
  <2>5. \A t \in Threads : pc[t] = "idle"
    BY <2>1, ReadyProperties DEF Leaving, AwayInv
  <2>6. Open = <<>> /\ Open' = Open /\ Pending' = <<>> /\ output' = output
    <3>1. Open = <<>>
      BY <2>1 DEF Phased, MainReady
    <3>2. Flushing' = {} /\ ~Swapping /\ ~Swapping'
      BY <2>1, <2>5 DEF Flushing, Swapping
    <3> QED BY <2>1, <3>1, <3>2 DEF Open, Pending, logVars
  <2> QED BY <2>1, <2>3, <2>4, <2>6 DEF Closed
<1>14. CASE BuildTopping
  <2>1. phase \in {"before", "running"} /\ UNCHANGED <<vars, phase>>
    BY <1>14 DEF BuildTopping
  <2>2. Footer = {} /\ UNCHANGED markers
    BY <2>1 DEF Closed, vars
  <2> QED BY <1>2, <2>2
<1> QED BY <1>4, <1>5, <1>6, <1>7, <1>9, <1>10, <1>11, <1>12, <1>13, <1>14
        DEF ToppingNext, Shutdown

\* Numbers in order that leave none out are the numbers themselves.
LEMMA NoneLeftOut ==
  ASSUME NEW s \in Seq(Nat), NEW m \in Nat,
         \A i, j \in 1..Len(s) : i < j => s[i] < s[j],
         {s[i] : i \in 1..Len(s)} = 1..m
  PROVE  s = [n \in 1..m |-> n]
<1>1. Len(s) \in Nat /\ \A i \in 1..Len(s) : s[i] \in 1..m
  BY LenProperties
<1> DEFINE Off == {i \in 1..Len(s) : s[i] # i}
<1>2. Off = {}
  <2> SUFFICES ASSUME Off # {}
               PROVE  FALSE
    OBVIOUS
  <2>1. PICK k \in Off : \A j \in Off : k <= j
    <3>1. Off \subseteq Nat
      BY <1>1
    <3> HIDE DEF Off
    <3> QED BY <3>1, NatMin
  <2>2. k \in 1..Len(s) /\ s[k] # k /\ s[k] \in 1..m
    BY <1>1, <2>1
  <2>3. \A j \in 1..Len(s) : j < k => s[j] = j
    BY <1>1, <2>1, <2>2
  <2>4. k < s[k]
    <3>1. CASE k = 1
      BY <2>2, <3>1
    <3>2. CASE k # 1
      <4>1. k - 1 \in 1..Len(s) /\ k - 1 < k
        BY <1>1, <2>2, <3>2, SMTT(30)
      <4>2. s[k - 1] = k - 1 /\ s[k - 1] < s[k]
        BY <2>2, <2>3, <4>1
      <4> QED BY <2>2, <4>1, <4>2
    <3> QED BY <3>1, <3>2
  <2>5. PICK i \in 1..Len(s) : s[i] = k
    <3>1. k \in 1..m
      BY <2>2, <2>4
    <3> QED BY <3>1
  <2>6. CASE i < k
    BY <2>3, <2>5, <2>6
  <2>7. CASE i = k
    BY <2>2, <2>5, <2>7
  <2>8. CASE k < i
    <3>1. s[k] < s[i]
      BY <2>2, <2>8
    <3> QED BY <2>2, <2>4, <2>5, <3>1
  <2> QED BY <1>1, <2>2, <2>6, <2>7, <2>8
<1>3. \A i \in 1..Len(s) : s[i] = i
  BY <1>2
<1>4. 1..Len(s) = 1..m
  BY <1>3
<1>5. Len(s) = m
  BY <1>1, <1>4
<1>6. s \in [1..Len(s) -> Nat]
  BY SeqDef, LenProperties
<1> QED BY <1>3, <1>5, <1>6

\* Nothing is ever withdrawn ...
AllStay == withdrawn = {}

\* ... without scopes that have a threshold.
LEMMA NoneWithdrawn ==
  ASSUME BeginIds = {}, TypeOK, AllStay, [Next]_vars
  PROVE  AllStay'
<1> USE DEF AllStay
<1>1. ASSUME NEW t \in Threads
      PROVE  ~AddEraseBegin(t)
  <2>1. call[t] \in Calls \cup {NoCall}
    BY DEF TypeOK
  <2>2. call[t].begin_id = EVENT_ID_NONE
    BY <2>1 DEF Calls, NoCall
  <2>3. ~(EVENT_ID_NONE > EVENT_ID_NONE)
    BY DEF EVENT_ID_NONE
  <2> QED BY <2>2, <2>3 DEF AddEraseBegin, HasBegin
<1>2. ASSUME NEW t \in Threads, Step(t)
      PROVE  withdrawn' = withdrawn
  BY <1>1, <1>2 DEF Step, AddLock, AddRecord, AddDiscard, FlushSwap, FlushClear, FlushBatch,
                    FlushDone, WriteHeader, logVars
<1>3. ASSUME NEW t \in Threads, NEW c \in Calls, AddTraceEvent(t, c)
      PROVE  withdrawn' = withdrawn
  BY <1>3 DEF AddTraceEvent, logVars
<1>4. ASSUME NEW t \in Controllers, Control(t)
      PROVE  withdrawn' = withdrawn
  BY <1>4 DEF Control, CallFlush, Enable, Disable, BeginLogging, EndLogging,
              AddThreadNameMetadataEvents, logVars
<1>5. CASE Tick \/ UNCHANGED vars \/ \E t \in Threads : ThreadReplaced(t)
  BY <1>5 DEF Tick, ThreadReplaced, vars, logVars
<1> QED BY <1>2, <1>3, <1>4, <1>5 DEF Next

\* What a signal interrupts it does not disturb: with the handler's flushes
\* and main's interleaved every event is still delivered once, in order, or
\* waits, or was withdrawn, though the two flush the same vectors.
THEOREM SignalsLoseNothing ==
  ASSUME SignalsAway
  PROVE  ToppingSpec => []NothingLost
<1>1. ASSUME ToppingInit
      PROVE  NothingLost
  <2>1. Pipeline = <<>> /\ Len(<<>>) = 0 /\ Init
    BY <1>1, EmptyAtFirst DEF ToppingInit
  <2> QED BY <2>1 DEF Init, NothingLost
<1>2. NothingLost /\ [AwayInv /\ AwayInv' /\ Move /\ ToppingNext]_programVars => NothingLost'
  <2>1. NothingLost /\ AwayInv /\ Move => NothingLost'
    BY NothingLostStep DEF AwayInv, ProgramInv
  <2>2. NothingLost /\ UNCHANGED programVars => NothingLost'
    BY Stutter DEF programVars, Unmoved, NothingLost, Pipeline
  <2> QED BY <2>1, <2>2
<1> QED BY <1>1, <1>2, ProgramMoves, PTL DEF ToppingSpec

\* Nor does the program, seen from outside, do anything but what the channel
\* of EventChannel may do.
THEOREM SignalsKeepChannel ==
  ASSUME SignalsAway
  PROVE  ToppingSpec => ImplementsChannel
<1>1. ASSUME ToppingInit
      PROVE  Channel!ChannelInit
  <2>1. output = <<>> /\ Pending = <<>> /\ Open = <<>> /\ Init
    BY <1>1, EmptyAtFirst DEF ToppingInit
  <2>2. Uids(<<>>) = <<>>
    <3>1. <<>> \in Seq(Events) /\ Len(<<>>) = 0
      BY EmptySeq
    <3>2. Uids(<<>>) \in Seq(Nat) /\ Len(Uids(<<>>)) = 0
      BY <3>1, UidsProperties
    <3> QED BY <3>2, EmptySeq
  <2> QED BY <2>1, <2>2 DEF Init, Channel!ChannelInit
<1>2. [AwayInv /\ AwayInv' /\ Move /\ ToppingNext]_programVars
      => [Channel!ChannelNext]_Channel!channelVars
  <2>1. AwayInv /\ Move => [Channel!ChannelNext]_Channel!channelVars
    BY ChannelStep DEF AwayInv, ProgramInv
  <2>2. UNCHANGED programVars => UNCHANGED Channel!channelVars
    BY Stutter DEF programVars, Unmoved, Channel!channelVars
  <2> QED BY <2>1, <2>2
<1> QED BY <1>1, <1>2, ProgramMoves, PTL
        DEF ToppingSpec, ImplementsChannel, Channel!ChannelSpec

\* The end is reached as described, wherever signals arrive ...
LEMMA LeavingInductive == ToppingSpec => [](ProgramTypeOK /\ Leaving)
<1>1. ASSUME ToppingInit
      PROVE  Leaving
  <2>1. LogAlive
    BY <1>1, BuiltProperties DEF ToppingInit, LogAlive
  <2> QED BY <1>1, <2>1 DEF ToppingInit, Leaving
<1>2. /\ ProgramTypeOK /\ Leaving
      /\ [ProgramInv /\ ProgramInv' /\ ToppingNext]_programVars
      => Leaving'
  <2> SUFFICES ASSUME ProgramTypeOK, Leaving,
                      [ProgramInv /\ ProgramInv' /\ ToppingNext]_programVars
               PROVE  Leaving'
    OBVIOUS
  <2>1. CASE ProgramInv /\ ProgramInv' /\ ToppingNext
    BY <2>1, LeavingStep DEF ProgramTypeOK
  <2>2. CASE UNCHANGED programVars
    BY <2>2 DEF programVars, toppingVars, vars, frameVars, Leaving, LogAlive
  <2> QED BY <2>1, <2>2
<1>3. ToppingTypeOK => ProgramTypeOK
  BY DEF ToppingTypeOK, ProgramTypeOK, Kinds
<1> QED BY <1>1, <1>2, <1>3, ProgramInductive, ToppingTypeCorrect, PTL DEF ToppingSpec

\* ... and, with signals away, the last flush and the footer are what they
\* should be.
LEMMA ClosedInductive ==
  ASSUME SignalsAway
  PROVE  ToppingSpec => [](Phased /\ Closed)
<1>1. ASSUME ToppingInit
      PROVE  Phased /\ Closed
  <2>1. Footer = {}
    <3>1. Len(markers) = 0
      BY <1>1, EmptySeq DEF ToppingInit, Init
    <3> QED BY <3>1 DEF Footer
  <2> QED BY <1>1, <2>1 DEF ToppingInit, Phased, Closed
<1>2. /\ ProgramTypeOK /\ Leaving /\ Phased /\ Closed
      /\ [AwayInv /\ AwayInv' /\ Move /\ ToppingNext]_programVars
      => Phased' /\ Closed'
  <2> SUFFICES ASSUME ProgramTypeOK, Leaving, Phased, Closed,
                      [AwayInv /\ AwayInv' /\ Move /\ ToppingNext]_programVars
               PROVE  Phased' /\ Closed'
    OBVIOUS
  <2>1. CASE AwayInv /\ AwayInv' /\ Move /\ ToppingNext
    BY <2>1, PhasedStep, ClosedStep DEF ProgramTypeOK
  <2>2. CASE UNCHANGED programVars
    <3>1. UNCHANGED <<output, Pending, Open>>
      BY <2>2, Stutter DEF programVars, Unmoved
    <3> QED BY <2>2, <3>1 DEF programVars, toppingVars, vars, frameVars, Phased, Closed, Footer
  <2> QED BY <2>1, <2>2
<1> QED BY <1>1, <1>2, ProgramMoves, LeavingInductive, PTL DEF ToppingSpec

\* The footer closes a complete trace, for any number of threads, signals
\* and calls of topping::init: whatever the handler flushed on the way, even
\* between the last flush and the footer or after it, every event recorded
\* is before the footer, once and in order.  SIGINT reaches main only, and
\* not in its loop of Flush; no scope has a threshold, which would withdraw
\* events.
THEOREM FooterCorrect ==
  ASSUME SignalsAway, BeginIds = {}
  PROVE  ToppingSpec => []FooterClosesTrace
<1>1. Init => AllStay
  BY DEF Init, AllStay
<1>2. TypeOK /\ AllStay /\ [Next]_vars => AllStay'
  BY NoneWithdrawn
<1>3. Spec => []AllStay
  BY <1>1, <1>2, TypeCorrect, PTL DEF Spec
<1>4. AwayInv /\ Closed /\ NothingLost /\ AllStay => FooterClosesTrace
  <2> SUFFICES ASSUME AwayInv, Closed, NothingLost, AllStay, NEW i \in Footer
               PROVE  /\ markers[i].at = Len(output) /\ Open = <<>>
                      /\ Uids(output) = [n \in 1..(next_uid - 1) |-> n]
    BY DEF FooterClosesTrace
  <2>1. markers[i].at = Len(output) /\ Open = <<>> /\ Pending = <<>>
    BY DEF Closed
  <2>2. output \in Seq(Events) /\ next_uid - 1 \in Nat
    BY DEF AwayInv, ProgramInv, TypeOK
  <2>3. Pipeline = output
    <3>1. output \o <<>> = output
      BY <2>2, ConcatEmptySeq
    <3> QED BY <2>1, <3>1 DEF Pipeline
  <2>4. /\ Uids(output) \in Seq(Nat) /\ Len(Uids(output)) = Len(output)
        /\ \A j \in 1..Len(output) : Uids(output)[j] = output[j].uid
    BY <2>2, UidsProperties
  <2> DEFINE s == Uids(output)
             m == next_uid - 1
  <2> HIDE DEF s
  <2>5. \A j, k \in 1..Len(s) : j < k => s[j] < s[k]
    BY <2>3, <2>4 DEF NothingLost, s
  <2>6. {s[j] : j \in 1..Len(s)} = 1..m
    <3>1. {s[j] : j \in 1..Len(s)} = {output[j].uid : j \in 1..Len(output)}
      BY <2>4 DEF s
    <3> QED BY <2>3, <3>1 DEF NothingLost, AllStay
  <2>7. s \in Seq(Nat) /\ m \in Nat
    BY <2>2, <2>4 DEF s
  <2> HIDE DEF m
  <2>8. s = [n \in 1..m |-> n]
    BY <2>5, <2>6, <2>7, NoneLeftOut
  <2> QED BY <2>1, <2>8 DEF s, m
<1> QED BY <1>3, <1>4, LogUsed, ProgramMoves, ClosedInductive, SignalsLoseNothing, PTL

-----------------------------------------------------------------------------
(* The files                                                               *)

\* What is written to the newest file in a step is what was handed out.
LEMMA OutputGrows ==
  ASSUME TypeOK, NEW t \in Threads, Step(t)
  PROVE  Batched \in Seq(Events) /\ output' = output \o Batched
<1>1. output \in Seq(Events) /\ Len(output) \in Nat /\ flush_events_ \in Seq(Events)
      /\ cursor[t] \in Nat
  BY LenProperties DEF TypeOK
<1>2. ASSUME output' = output
      PROVE  Batched \in Seq(Events) /\ output' = output \o Batched
  <2>1. Batched = <<>>
    BY <1>1, <1>2, SubSeqEmpty DEF Batched
  <2> QED BY <1>1, <1>2, <2>1, ConcatEmptySeq, EmptySeq
<1>3. ASSUME NEW batch \in Seq(Events), output' = output \o batch
      PROVE  Batched \in Seq(Events) /\ output' = output \o Batched
  <2>1. CASE output = <<>>
    <3>1. output' = batch /\ Len(output) + 1 = 1
      BY <1>1, <1>3, <2>1, ConcatEmptySeq, EmptySeq
    <3>2. Batched = batch
      BY <3>1, SubSeqFull DEF Batched
    <3> QED BY <1>3, <3>2
  <2>2. CASE output # <<>>
    <3>1. SubSeq(output \o batch, Len(output) + 1, Len(output \o batch)) = batch
      BY <1>1, <2>2, SplitConcat
    <3>2. Batched = batch
      BY <1>3, <3>1 DEF Batched
    <3> QED BY <1>3, <3>2
  <2> QED BY <2>1, <2>2
<1>4. CASE FlushBatch(t)
  <2>1. Batch(cursor[t]) \in Seq(Events) /\ output' = output \o Batch(cursor[t])
    BY <1>1, <1>4, BatchType DEF FlushBatch
  <2> QED BY <1>3, <2>1
<1>5. CASE ~FlushBatch(t)
  <2>1. output' = output
    BY <1>5 DEF Step, AddLock, AddRecord, AddDiscard, AddEraseBegin, AddReturn, FlushSwap,
                FlushClear, FlushDone, WriteHeader, logVars
  <2> QED BY <1>2, <2>1
<1> QED BY <1>4, <1>5

\* The sink is open from the first topping::init to the end, and without
\* one there is no header.
Sunk ==
  /\ phase = "before" => files = <<>>
  /\ phase \in {"running", "reopening"} => files # <<>>
  /\ files = <<>> => sink = "none" /\ Headers = {} /\ ~begin_logging[Main]
  /\ files # <<>> /\ phase # "exited" => sink = "open"

\* The number of headers to come.
Due == (IF begin_logging[Main] THEN 1 ELSE 0) + (IF phase = "reopening" THEN 1 ELSE 0)

\* Every header, written or due, has a file of its own.
Counted == Cardinality(Headers) + Due <= Len(files)

\* The files hold all that was handed out but what there was before the
\* first of them, and the newest what follows the newest header.
Stored ==
  /\ files # <<>> =>
       \E p \in Seq(Events) : Len(p) = missed /\ output = p \o FlattenSeq(files)
  /\ \A i \in Headers :
       Cardinality(Headers) = Len(files) /\ (\A j \in Headers : j <= i)
       => Len(output) - markers[i].at <= Len(Last(files))

\* The headers are finitely many.
LEMMA HeadersFinite ==
  ASSUME TypeOK
  PROVE  IsFiniteSet(Headers) /\ Cardinality(Headers) \in Nat
<1>1. Len(markers) \in Nat
  BY LenProperties DEF TypeOK
<1>2. IsFiniteSet(1..Len(markers))
  BY <1>1, FS_Interval
<1>3. Headers \subseteq 1..Len(markers)
  BY DEF Headers
<1> QED BY <1>2, <1>3, FS_Subset, FS_CardinalityType

\* A step that neither opens a file nor writes a marker, while the sink is
\* open.
LEMMA StoredGrows ==
  ASSUME TypeOK, NEW t \in Threads, Step(t), files \in Seq(Seq(Events)), files # <<>>,
         files' = Write, Stored, UNCHANGED <<markers, missed>>
  PROVE  Stored' /\ Len(files') = Len(files) /\ files' # <<>> /\ Headers' = Headers
<1> DEFINE b == Batched
           o == output
           f == FlattenSeq(files)
           l == Last(files)
<1>1. b \in Seq(Events) /\ output' = o \o b /\ o \in Seq(Events)
  BY OutputGrows DEF TypeOK
<1>2. /\ Len(files') = Len(files) /\ files' # <<>>
      /\ l \in Seq(Events) /\ Last(files') = l \o b
      /\ FlattenSeq(files') = f \o b
  <2> HIDE DEF b
  <2>1. files' = Grown(files, b)
    BY DEF Write, Grown, b
  <2>2. files \in Seq(Seq(Events)) /\ files # <<>> /\ b \in Seq(Events)
    BY <1>1
  <2>3. /\ Len(files') = Len(files) /\ files' # <<>> /\ Last(files) \in Seq(Events)
        /\ Joins(Last(files), b, Last(files'))
        /\ Joins(FlattenSeq(files), b, FlattenSeq(files'))
    BY <2>1, <2>2, FlattenGrows
  <2>4. Last(files') = Last(files) \o b
    BY <2>3 DEF Joins
  <2>5. FlattenSeq(files') = FlattenSeq(files) \o b
    BY <2>3 DEF Joins
  <2> QED BY ONLY <2>3, <2>4, <2>5 DEF f, l
<1>3. f \in Seq(Events)
  <2>1. <<>> \in Seq(Events)
    BY EmptySeq
  <2> QED BY <2>1, FlattenAppend
<1>4. Headers' = Headers /\ \A i \in Headers : i \in 1..Len(markers)
  BY DEF Headers
<1>5. \A i \in Headers : markers[i].at \in Nat
  <2> TAKE i \in Headers
  <2>1. markers[i] \in [kind : {"[", "]"}, at : Nat]
    BY <1>4, ElementOfSeq DEF TypeOK
  <2> QED BY <2>1
<1> HIDE DEF b, f, l, o
<1>6. /\ Len(o \o b) = Len(o) + Len(b) /\ Len(l \o b) = Len(l) + Len(b)
      /\ Len(f \o b) = Len(f) + Len(b)
      /\ Len(o) \in Nat /\ Len(b) \in Nat /\ Len(f) \in Nat /\ Len(l) \in Nat
  BY <1>1, <1>2, <1>3, ConcatProperties, LenProperties
<1>7. \E p \in Seq(Events) : Len(p) = missed' /\ output' = p \o FlattenSeq(files')
  <2>1. PICK p \in Seq(Events) : Len(p) = missed /\ o = p \o f
    BY DEF Stored, o, f
  <2>2. (p \o f) \o b = p \o (f \o b)
    BY ONLY <1>1, <1>3, p \in Seq(Events), ConcatAssociative
  <2> QED BY <1>1, <1>2, <2>1, <2>2
<1>8. ASSUME NEW i \in Headers, Cardinality(Headers) = Len(files), \A j \in Headers : j <= i
      PROVE  Len(output') - markers[i].at <= Len(Last(files'))
  <2>1. Len(o) - markers[i].at <= Len(l)
    BY <1>8 DEF Stored, o, l
  <2> QED BY <1>1, <1>2, <1>5, <1>6, <2>1
<1> QED BY <1>2, <1>4, <1>7, <1>8 DEF Stored

\* A step that touches neither the files nor what is handed out, nor any
\* header there is.
LEMMA StoredStays ==
  ASSUME Stored, UNCHANGED <<files, output, missed>>, Headers' = Headers,
         \A i \in Headers : markers'[i] = markers[i]
  PROVE  Stored'
BY DEF Stored

\* No event makes no difference.
LEMMA WriteNothing ==
  ASSUME files \in Seq(Seq(Events)), files # <<>>, Batched = <<>>
  PROVE  Write = files
<1> DEFINE n == Len(files)
           T == Seq(Events)
<1>1. n \in Nat /\ n # 0 /\ files \in [1..n -> T] /\ n \in 1..n
  BY LenProperties, EmptySeq, SeqDef
<1>2. files[n] \in T
  BY <1>1
<1>3. files[n] \o <<>> = files[n]
  BY <1>2, ConcatEmptySeq
<1>4. [files EXCEPT ![n] = files[n]] = files
  <2> HIDE DEF n, T
  <2> QED BY <1>1
<1>5. Write = [files EXCEPT ![n] = files[n]]
  BY <1>3 DEF Write
<1> QED BY <1>4, <1>5

\* A header at the end of what was handed out so far.
LEMMA StoredHeaded ==
  ASSUME TypeOK, Stored, UNCHANGED <<files, output, missed>>, files \in Seq(Seq(Events)),
         files # <<>>, Mark("[")
  PROVE  Stored' /\ Cardinality(Headers') = Cardinality(Headers) + 1
<1> DEFINE k == Len(markers) + 1
<1>1. /\ Len(markers) \in Nat /\ Headers \subseteq 1..Len(markers)
      /\ Headers' = Headers \cup {k} /\ k \notin Headers
      /\ markers'[k].at = Len(output)
      /\ \A i \in Headers : markers'[i] = markers[i]
  BY MarkProperties DEF Headers
<1>2. \A i \in Headers : ~(k <= i)
  BY <1>1
<1> HIDE DEF k
<1>3. Cardinality(Headers') = Cardinality(Headers) + 1
  BY <1>1, HeadersFinite, FS_AddElement
<1>4. Len(output) \in Nat /\ Len(Last(files)) \in Nat
  <2>1. Last(files) \in Seq(Events)
    <3>1. Len(files) \in 1..Len(files)
      BY LenProperties, EmptySeq
    <3> QED BY <3>1, ElementOfSeq DEF Last
  <2> QED BY <2>1, LenProperties DEF TypeOK
<1>5. Len(output) - markers'[k].at <= Len(Last(files))
  BY <1>1, <1>4
<1>6. \A i \in Headers' : (\A j \in Headers' : j <= i) => i = k
  BY <1>1, <1>2
<1> QED BY <1>3, <1>5, <1>6 DEF Stored

\* No files hold no events.
LEMMA NoFiles == FlattenSeq(<<>>) = <<>> /\ \A s \in Seq(Events) : s = s \o <<>>
<1>1. Len(<<>>) = 0
  BY EmptySeq
<1> QED BY <1>1, ConcatEmptySeq DEF FlattenSeq

\* One file more than there are headers.
LEMMA StoredOpens ==
  ASSUME TypeOK, Stored, files \in Seq(Seq(Events)), OpenSink, UNCHANGED <<output, markers>>,
         Cardinality(Headers) <= Len(files),
         missed' = (IF files = <<>> THEN Len(output) ELSE missed)
  PROVE  /\ Stored' /\ files' # <<>> /\ Len(files') = Len(files) + 1 /\ Headers' = Headers
<1>1. <<>> \in Seq(Events)
  BY EmptySeq
<1>2. /\ files' = Append(files, <<>>) /\ Len(files') = Len(files) + 1 /\ Len(files) \in Nat
      /\ files' \in Seq(Seq(Events))
  BY <1>1, AppendProperties, LenProperties DEF OpenSink
<1>3. files' # <<>>
  BY <1>2, EmptySeq
<1>4. FlattenSeq(files') = FlattenSeq(files) /\ FlattenSeq(files) \in Seq(Events)
  <2>1. FlattenSeq(files') = FlattenSeq(files) \o <<>> /\ FlattenSeq(files) \in Seq(Events)
    BY <1>1, <1>2, FlattenAppend
  <2> QED BY <2>1, ConcatEmptySeq
<1>5. Headers' = Headers
  BY DEF Headers
<1>6. Cardinality(Headers') # Len(files')
  BY <1>2, <1>5, HeadersFinite
<1>7. \E p \in Seq(Events) : Len(p) = missed' /\ output' = p \o FlattenSeq(files')
  <2>1. CASE files = <<>>
    <3>1. output \in Seq(Events) /\ output = output \o FlattenSeq(files')
      BY <1>4, <2>1, NoFiles DEF TypeOK
    <3> QED BY <2>1, <3>1
  <2>2. CASE files # <<>>
    BY <1>4, <2>2 DEF Stored
  <2> QED BY <2>1, <2>2
<1> QED BY <1>2, <1>3, <1>5, <1>6, <1>7 DEF Stored

FilesInv == Sunk /\ Counted /\ Stored

\* A thread goes on.
LEMMA FilesProceed ==
  ASSUME ProgramInv, ProgramInv', ProgramTypeOK, Leaving, FilesInv,
         NEW t \in Threads, Proceed(t)
  PROVE  FilesInv'
<1> USE Named
<1>1. /\ TypeOK /\ files \in Seq(Seq(Events)) /\ output' \in Seq(Events)
      /\ begin_logging \in [Threads -> BOOLEAN]
      /\ Len(files) \in Nat /\ Cardinality(Headers) \in Nat
  BY HeadersFinite, LenProperties DEF ProgramInv, ProgramTypeOK, TypeOK
<1>2. /\ t # host /\ Step(t) /\ OutputCallback /\ UNCHANGED <<phase, sink, missed>>
      /\ pc[t] # "idle"
  BY StepInside DEF Proceed
<1>3. phase # "exited"
  BY <1>2 DEF Leaving, ProgramInv, Guest
<1>4. ~WriteHeader(t) => UNCHANGED <<markers, begin_logging>>
  BY <1>2 DEF Step, AddLock, AddRecord, AddDiscard, AddEraseBegin, AddReturn, FlushSwap,
              FlushClear, FlushBatch, FlushDone
<1>5. CASE files = <<>>
  <2>1. sink = "none" /\ Headers = {} /\ ~begin_logging[Main]
    BY <1>5 DEF FilesInv, Sunk
  <2>2. files' = files
    BY <1>2, <2>1 DEF OutputCallback
  <2>3. ~WriteHeader(t)
    <3>1. t = Main \/ t = Handler \/ pc[t] # "header"
      BY DEF ProgramInv, ControllersFlush, FlushPlaces
    <3>2. pc[t] = "header" => begin_logging[t]
      BY DEF ProgramInv, Framing
    <3> QED BY <2>1, <3>1, <3>2 DEF WriteHeader, ProgramInv, Guest
  <2>4. Headers' = {} /\ begin_logging' = begin_logging
    BY <1>4, <2>1, <2>3 DEF Headers
  <2>5. Stored'
    BY <1>5, <2>2, <2>4 DEF Stored
  <2> QED BY <1>2, <1>5, <2>1, <2>2, <2>4, <2>5 DEF FilesInv, Sunk, Counted, Due
<1>6. CASE files # <<>>
  <2>1. files # <<>> /\ sink = "open" /\ Stored /\ Counted
    BY <1>3, <1>6 DEF FilesInv, Sunk
  <2>2. files' = Write
    BY <1>2, <2>1 DEF OutputCallback
  <2>3. CASE ~WriteHeader(t)
    <3>1. Stored' /\ Len(files') = Len(files) /\ files' # <<>> /\ Headers' = Headers
      BY <1>1, <1>2, <1>4, <2>1, <2>2, <2>3, StoredGrows
    <3>2. Due' = Due
      BY <1>2, <1>4, <2>3 DEF Due
    <3> QED BY <1>2, <1>3, <1>6, <2>1, <3>1, <3>2 DEF FilesInv, Sunk, Counted
  <2>4. CASE WriteHeader(t)
    <3>1. pc[t] = "header" /\ Mark("[") /\ begin_logging' = [begin_logging EXCEPT ![t] = FALSE]
          /\ output' = output
      BY <2>4 DEF WriteHeader, logVars
    <3>2. t = Main /\ begin_logging[Main] /\ ~begin_logging'[Main]
      <4>1. t = Main \/ t = Handler
        BY <3>1 DEF ProgramInv, ControllersFlush, FlushPlaces
      <4> QED BY <1>1, <3>1, <4>1 DEF ProgramInv, Framing, Guest
    <3>3. Batched = <<>>
      <4>1. Len(output) \in Nat
        BY LenProperties DEF ProgramInv, TypeOK
      <4> QED BY <3>1, <4>1, SubSeqEmpty DEF Batched
    <3>4. files' = files
      BY <1>1, <2>1, <2>2, <3>3, WriteNothing
    <3>5. Stored' /\ Cardinality(Headers') = Cardinality(Headers) + 1
      BY <1>1, <1>2, <2>1, <3>1, <3>4, StoredHeaded
    <3>6. Due = Due' + 1 /\ Due' \in Nat
      BY <1>2, <3>2 DEF Due
    <3>7. Counted'
      BY <1>1, <2>1, <3>4, <3>5, <3>6 DEF Counted
    <3> QED BY <1>2, <1>3, <1>6, <2>1, <3>4, <3>5, <3>7 DEF FilesInv, Sunk
  <2> QED BY <2>3, <2>4
<1> QED BY <1>5, <1>6

\* Every step of the program keeps it.
LEMMA FilesStep ==
  ASSUME ProgramInv, ProgramInv', ProgramTypeOK, Leaving, FilesInv, ToppingNext
  PROVE  FilesInv'
<1> USE Named
<1>1. /\ TypeOK /\ files \in Seq(Seq(Events)) /\ output \in Seq(Events)
      /\ begin_logging \in [Threads -> BOOLEAN]
      /\ Len(files) \in Nat /\ Cardinality(Headers) \in Nat
      /\ pc[Main] = "idle" => ~begin_logging[Main]
  <2>1. TypeOK /\ files \in Seq(Seq(Events)) /\ Framing
    BY DEF ProgramInv, ProgramTypeOK
  <2>2. output \in Seq(Events) /\ begin_logging \in [Threads -> BOOLEAN]
    BY <2>1 DEF TypeOK
  <2>3. Len(files) \in Nat /\ Cardinality(Headers) \in Nat
    BY <2>1, HeadersFinite, LenProperties
  <2>4. pc[Main] = "idle" => ~begin_logging[Main]
    BY <2>1 DEF Framing, FlushPlaces
  <2> QED BY <2>1, <2>2, <2>3, <2>4
\* A step that leaves the files and the markers alone.
<1>2. ASSUME UNCHANGED <<files, output, markers, missed>>,
             begin_logging'[Main] = begin_logging[Main],
             \/ UNCHANGED <<phase, sink>>
             \/ /\ phase \in {"before", "running", "exiting"}
                /\ phase' \in {"exiting", "closing", "exited"} /\ sink' = sink
             \/ phase' = "exited" /\ (sink' = sink \/ sink = "open")
      PROVE  FilesInv'
  <2>1. Headers' = Headers
    BY <1>2 DEF Headers
  <2>2. Stored'
    BY <1>2, <2>1, StoredStays DEF FilesInv
  <2>3. Due \in Nat /\ Due' \in Nat /\ Due' <= Due
    BY <1>2 DEF Due
  <2>4. Counted'
    BY <1>1, <1>2, <2>1, <2>3 DEF FilesInv, Counted
  <2>5. Sunk'
    BY <1>2, <2>1 DEF FilesInv, Sunk
  <2> QED BY <2>2, <2>4, <2>5 DEF FilesInv
<1>3. ASSUME NEW t \in Threads, NEW c \in Calls, Trace(t, c)
      PROVE  FilesInv'
  BY <1>2, <1>3 DEF Trace, AddTraceEvent, toppingVars, logVars
<1>4. ASSUME CallFlush(Main)
      PROVE  /\ UNCHANGED <<output, markers>> /\ ~begin_logging'[Main] /\ ~begin_logging[Main]
             /\ begin_logging'[Main] = begin_logging[Main]
  BY <1>1, <1>4 DEF CallFlush, EnterFlush, logVars
<1>5. CASE MainFlush \/ DestroyTopping
  <2>1. /\ CallFlush(Main) /\ UNCHANGED <<files, sink, missed>>
        /\ phase' = phase \/ (phase = "exiting" /\ phase' = "closing")
    BY <1>5 DEF MainFlush, DestroyTopping, toppingVars
  <2> QED BY <1>2, <1>4, <2>1
<1>6. ASSUME BeginLogging(Main)
      PROVE  UNCHANGED <<output, markers>> /\ begin_logging'[Main] /\ ~begin_logging[Main]
  BY <1>1, <1>6 DEF BeginLogging, EnterFlush, logVars
<1>7. CASE InitTopping
  <2>1. phase = "before" /\ BeginLogging(Main) /\ OpenSink /\ phase' = "running"
    BY <1>7 DEF InitTopping
  <2>2. Headers = {} /\ Cardinality({}) = 0 /\ Stored /\ files = <<>>
    BY <2>1, FS_EmptySet DEF FilesInv, Sunk
  <2>3. /\ Stored' /\ files' # <<>> /\ Len(files') = Len(files) + 1 /\ Headers' = Headers
    BY <1>1, <1>6, <1>7, <2>1, <2>2, StoredOpens DEF InitTopping
  <2>4. Due' = 1
    BY <1>6, <2>1 DEF Due
  <2> QED BY <1>1, <2>1, <2>2, <2>3, <2>4 DEF FilesInv, Sunk, Counted, OpenSink
<1>8. CASE ReplaceSink
  <2>1. phase = "running" /\ CallFlush(Main) /\ OpenSink /\ phase' = "reopening"
    BY <1>8 DEF ReplaceSink
  <2>2. Due = 0 /\ Due' = 1 /\ Stored /\ Cardinality(Headers) <= Len(files) /\ files # <<>>
    BY <1>1, <1>4, <2>1 DEF Due, FilesInv, Counted, Sunk
  <2>3. /\ Stored' /\ files' # <<>> /\ Len(files') = Len(files) + 1 /\ Headers' = Headers
    BY <1>1, <1>4, <1>8, <2>1, <2>2, StoredOpens DEF ReplaceSink
  <2> QED BY <1>1, <2>1, <2>2, <2>3 DEF FilesInv, Sunk, Counted, OpenSink
<1>9. CASE InitAgain
  <2>1. /\ phase = "reopening" /\ BeginLogging(Main) /\ phase' = "running"
        /\ UNCHANGED <<sink, files, missed>>
    BY <1>9 DEF InitAgain
  <2>2. Headers' = Headers /\ Due' = Due /\ files # <<>>
    BY <1>6, <2>1 DEF Headers, Due, FilesInv, Sunk
  <2>3. Stored'
    BY <1>6, <2>1, <2>2, StoredStays DEF FilesInv
  <2> QED BY <2>1, <2>2, <2>3 DEF FilesInv, Sunk, Counted
<1>10. ASSUME NEW t \in Interruptible, Interrupt(t)
       PROVE  FilesInv'
  <2>1. /\ begin_logging' = [begin_logging EXCEPT ![Handler] = FALSE]
        /\ UNCHANGED <<phase, sink, files, output, markers, missed>>
    BY <1>10 DEF Interrupt, CallFlush, EnterFlush, logVars
  <2> QED BY <1>1, <1>2, <2>1
<1>11. ASSUME UNCHANGED vars
       PROVE  UNCHANGED <<output, markers, begin_logging>>
  BY <1>11 DEF vars, logVars, frameVars
<1>12. ASSUME NEW t \in Interruptible, InterruptLate(t)
       PROVE  FilesInv'
  BY <1>2, <1>11, <1>12 DEF InterruptLate, UseDeadLog, Leaving
<1>13. CASE BuildTopping \/ Exit \/ DestroyLog \/ DestroyToppingLate \/ DestroySink
            \/ EndWithoutSink
  BY <1>2, <1>11, <1>13 DEF BuildTopping, Exit, DestroyLog, DestroyToppingLate, DestroySink,
                            EndWithoutSink, UseDeadLog
<1>14. CASE CloseTrace
  <2>1. /\ phase = "closing" /\ phase' = "exiting" /\ Mark("]")
        /\ UNCHANGED <<sink, files, output, begin_logging, missed>>
    BY <1>14 DEF CloseTrace, EndLogging, logVars, frameVars
  <2>2. Headers' = Headers /\ \A i \in Headers : markers'[i] = markers[i]
    BY <1>1, <2>1, MarkProperties DEF Headers
  <2>3. Stored' /\ Due' = Due
    BY <2>1, <2>2, StoredStays DEF FilesInv, Due
  <2> QED BY <2>1, <2>2, <2>3 DEF FilesInv, Sunk, Counted
<1>15. CASE Finished
  BY <1>2, <1>11, <1>15 DEF Finished, programVars, toppingVars
<1> QED BY <1>3, <1>5, <1>7, <1>8, <1>9, <1>10, <1>12, <1>13, <1>14, <1>15, FilesProceed
        DEF ToppingNext, Shutdown

\* The files hold, without a gap, all that was handed out since topping::init
\* was first called, what that call flushes itself before its header
\* included, and what follows the newest header is in the newest file, for
\* any number of threads, signals and calls of topping::init, wherever
\* SIGINT arrives: the handler's Flush can lose or repeat events, but what is
\* handed out is written.
THEOREM FilesCorrect == ToppingSpec => []FilesHoldOutput
<1>1. ASSUME ToppingInit
      PROVE  FilesInv
  <2>1. /\ files = <<>> /\ Len(markers) = 0 /\ sink = "none" /\ phase = "before"
        /\ ~begin_logging[Main]
    BY <1>1, Named, EmptySeq DEF ToppingInit, Init
  <2>2. Headers = {}
    BY <2>1 DEF Headers
  <2>3. Len(<<>>) = 0 /\ Cardinality({}) = 0
    BY EmptySeq, FS_EmptySet
  <2> QED BY <2>1, <2>2, <2>3 DEF FilesInv, Sunk, Counted, Stored, Due
<1>2. /\ ProgramTypeOK /\ Leaving /\ FilesInv
      /\ [ProgramInv /\ ProgramInv' /\ ToppingNext]_programVars
      => FilesInv'
  <2> SUFFICES ASSUME ProgramTypeOK, Leaving, FilesInv,
                      [ProgramInv /\ ProgramInv' /\ ToppingNext]_programVars
               PROVE  FilesInv'
    OBVIOUS
  <2>1. CASE ProgramInv /\ ProgramInv' /\ ToppingNext
    BY <2>1, FilesStep
  <2>2. CASE UNCHANGED programVars
    BY <2>2 DEF programVars, toppingVars, vars, logVars, frameVars, FilesInv, Sunk, Counted, Due,
                Stored, Headers
  <2> QED BY <2>1, <2>2
<1>3. FilesInv /\ ProgramTypeOK => FilesHoldOutput
  <2> SUFFICES ASSUME FilesInv, ProgramTypeOK
               PROVE  FilesHoldOutput
    OBVIOUS
  <2> DEFINE f == FlattenSeq(files)
  <2>1. f \in Seq(Events)
    <3>1. <<>> \in Seq(Events)
      BY EmptySeq
    <3> QED BY <3>1, FlattenAppend DEF ProgramTypeOK
  <2> HIDE DEF f
  <2>2. ASSUME files # <<>>
        PROVE  f = SubSeq(output, missed + 1, Len(output))
    <3>1. PICK p \in Seq(Events) : Len(p) = missed /\ output = p \o f
      BY <2>2 DEF FilesInv, Stored, f
    <3>2. CASE p = <<>>
      <4>1. output = f /\ missed + 1 = 1
        BY <2>1, <3>1, <3>2, ConcatEmptySeq, EmptySeq
      <4> QED BY <2>1, <4>1, SubSeqFull
    <3>3. CASE p # <<>>
      <4>1. SubSeq(p \o f, Len(p) + 1, Len(p \o f)) = f
        BY <2>1, <3>3, SplitConcat
      <4> QED BY <3>1, <4>1
    <3> QED BY <3>2, <3>3
  <2> QED BY <2>2 DEF FilesInv, Sunk, Stored, FilesHoldOutput, f
<1> QED BY <1>1, <1>2, <1>3, ProgramInductive, LeavingInductive, PTL DEF ToppingSpec

=============================================================================
