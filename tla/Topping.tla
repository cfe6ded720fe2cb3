------------------------------- MODULE Topping -------------------------------
(***************************************************************************)
(* ibis::tool::event_trace::topping over TraceLog: the file the trace is   *)
(* written to, the handler of SIGINT, and the end of the program.          *)
(*                                                                         *)
(* Main makes topping::OutputCallback the output callback and may call     *)
(* topping::init, which builds the TraceLog but not topping: that is built *)
(* by topping::instance, before the TraceLog, after it, or never, and      *)
(* registers the handler.  At exit the two are destroyed in the reverse    *)
(* order of their construction, and after them the file sink, a static     *)
(* that was there before main.  Using the TraceLog after its destruction   *)
(* is undefined; it ends every behaviour, and nothing is claimed of what   *)
(* comes after.                                                            *)
(*                                                                         *)
(* The SIGINT handler runs on the stack of the thread it interrupts.  It   *)
(* is a thread of TraceLog of its own, Handler, whose host takes no step   *)
(* until the handler has returned.                                         *)
(***************************************************************************)
EXTENDS TraceLog

CONSTANTS
  Main,                 \* the thread that runs main
  Handler,              \* the SIGINT handler
  Interruptible,        \* threads that do not block SIGINT
  InterruptiblePlaces,  \* where they are when a signal arrives
  MaxSignals,           \* bound: signals
  MaxInits              \* bound: calls of topping::init

ASSUME ToppingAssumption ==
  /\ Controllers = {Main, Handler}
  /\ Main # Handler
  /\ Interruptible \subseteq Threads \ {Handler}
  /\ MaxSignals \in Nat
  /\ MaxInits \in Nat \ {0}

VARIABLES
  phase,       \* of main: before init, running, reopening, exiting, in ~topping, exited
  built,       \* singletons that are alive, in the order of construction
  registered,  \* has topping registered the handler?
  sink,        \* "none", "open" or "destroyed"
  files,       \* events written to each sink opened, the newest last
  host,        \* the thread the handler has interrupted, or NoThread
  signals,     \* ghost: signals so far
  missed       \* ghost: events handed out before the first topping::init

toppingVars == <<phase, built, registered, sink, files, host, signals, missed>>
programVars == <<vars, toppingVars>>

ToppingInit ==
  /\ Init
  /\ phase = "before"
  /\ built \in {<<"topping", "log">>, <<"log">>}
  /\ registered = ("topping" \in ToSet(built))
  /\ sink = "none"
  /\ files = <<>>
  /\ host = NoThread
  /\ signals = 0
  /\ missed = 0

MainReady == pc[Main] = "idle" /\ Main # host

LogAlive == "log" \in ToSet(built)

\* What a step hands to the output callback.
Batched == SubSeq(output', Len(output) + 1, Len(output'))

\* Mutant: a batch is written as one element.
WriteNested == [files EXCEPT ![Len(files)] = Append(@, Batched)]

Write == [files EXCEPT ![Len(files)] = @ \o Batched]

\* Mutant: the file is opened only when BeginLogging has come to its header.
OutputCallbackLate ==
  files' = IF sink = "open" /\ \E i \in 1..Len(markers) : markers[i].kind = "["
           THEN Write ELSE files

\* OutputCallback writes what it gets to the sink, if there is one.
OutputCallback == files' = IF sink = "open" THEN Write ELSE files

\* A thread that is inside TraceLog goes on, unless it is interrupted.
Proceed(t) ==
  /\ t # host
  /\ Step(t)
  /\ OutputCallback
  /\ host' = IF t = Handler /\ pc'[t] = "idle" THEN NoThread ELSE host
  /\ UNCHANGED <<phase, built, sink, registered, signals, missed>>

\* The first use of topping::instance, when the log is there already.
BuildTopping ==
  /\ phase \in {"before", "running"}
  /\ MainReady
  /\ built = <<"log">>
  /\ built' = <<"log", "topping">>
  /\ registered' = TRUE
  /\ UNCHANGED <<vars, phase, sink, files, host, signals, missed>>

Active == phase \in {"before", "running", "reopening"}

\* Main records nothing while it is inside topping::init.
Trace(t, c) ==
  /\ Active
  /\ t # host /\ t # Handler
  /\ ~(t = Main /\ phase = "reopening")
  /\ AddTraceEvent(t, c)
  /\ UNCHANGED toppingVars

MainFlush ==
  /\ phase \in {"before", "running"}
  /\ Main # host
  /\ CallFlush(Main)
  /\ UNCHANGED toppingVars

\* make_unique<file_sink>, assigned to sink.
OpenSink ==
  /\ sink' = "open"
  /\ files' = Append(files, <<>>)

\* topping::init: the sink first, then BeginLogging.
InitTopping ==
  /\ phase = "before"
  /\ Main # host
  /\ BeginLogging(Main)
  /\ OpenSink
  /\ missed' = Len(output)
  /\ phase' = "running"
  /\ UNCHANGED <<built, host, registered, signals>>

\* topping::init once more: sink refers to the new file before the old one
\* is destroyed, and ~file_sink of the old one flushes ...
ReplaceSink ==
  /\ phase = "running"
  /\ Len(files) < MaxInits
  /\ Main # host
  /\ CallFlush(Main)
  /\ OpenSink
  /\ phase' = "reopening"
  /\ UNCHANGED <<built, host, registered, signals, missed>>

\* ... and then comes BeginLogging.
InitAgain ==
  /\ phase = "reopening"
  /\ Main # host
  /\ BeginLogging(Main)
  /\ phase' = "running"
  /\ UNCHANGED <<built, sink, files, host, registered, signals, missed>>

\* SIGINT: the handler calls Flush.  Once main has returned there is no
\* other thread left to interrupt.
Interrupt(t) ==
  /\ signals < MaxSignals
  /\ registered
  /\ t = Main \/ Active
  /\ LogAlive
  /\ host = NoThread
  /\ pc[t] \in InterruptiblePlaces
  /\ CallFlush(Handler)
  /\ host' = t
  /\ signals' = signals + 1
  /\ UNCHANGED <<phase, built, sink, files, registered, missed>>

-----------------------------------------------------------------------------
(* The end of the program                                                  *)

\* Using the destroyed log ends what can be said of the program.
UseDeadLog ==
  /\ phase' = "exited"
  /\ UNCHANGED <<vars, registered, files, missed>>

\* The handler stays registered, and also finds a log that is gone.
InterruptLate(t) ==
  /\ signals < MaxSignals
  /\ registered
  /\ t = Main \/ Active
  /\ ~LogAlive
  /\ phase # "exited"
  /\ host = NoThread
  /\ pc[t] \in InterruptiblePlaces
  /\ UseDeadLog
  /\ signals' = signals + 1
  /\ UNCHANGED <<built, sink, host>>

\* main returns; the other threads have been joined.
Exit ==
  /\ phase \in {"before", "running"}
  /\ host = NoThread
  /\ \A t \in Threads : pc[t] = "idle"
  /\ phase' = "exiting"
  /\ UNCHANGED <<vars, built, sink, files, host, registered, signals, missed>>

DestroyLog ==
  /\ phase = "exiting"
  /\ MainReady
  /\ built # <<>> /\ Last(built) = "log"
  /\ built' = Front(built)
  /\ UNCHANGED <<vars, phase, sink, files, host, registered, signals, missed>>

\* Mutant: ~topping does not flush.
DestroyToppingNoFlush ==
  /\ phase = "exiting"
  /\ MainReady
  /\ built # <<>> /\ Last(built) = "topping"
  /\ LogAlive
  /\ phase' = "closing"
  /\ UNCHANGED <<vars, built, sink, files, host, registered, signals, missed>>

\* ~topping: Flush ...
DestroyTopping ==
  /\ phase = "exiting"
  /\ MainReady
  /\ built # <<>> /\ Last(built) = "topping"
  /\ LogAlive
  /\ CallFlush(Main)
  /\ phase' = "closing"
  /\ UNCHANGED <<built, sink, files, host, registered, signals, missed>>

\* ... and EndLogging.
CloseTrace ==
  /\ phase = "closing"
  /\ MainReady
  /\ EndLogging(Main)
  /\ built' = Front(built)
  /\ phase' = "exiting"
  /\ UNCHANGED <<sink, files, host, registered, signals, missed>>

\* ~topping when the log was built later, and is destroyed already.
DestroyToppingLate ==
  /\ phase = "exiting"
  /\ MainReady
  /\ built # <<>> /\ Last(built) = "topping"
  /\ ~LogAlive
  /\ UseDeadLog
  /\ UNCHANGED <<built, sink, host, signals>>

\* ~file_sink, after both singletons are gone: its Flush finds a log that is
\* destroyed.
DestroySink ==
  /\ phase = "exiting"
  /\ MainReady
  /\ built = <<>>
  /\ sink = "open"
  /\ sink' = "destroyed"
  /\ UseDeadLog
  /\ UNCHANGED <<built, host, signals>>

\* topping::init was never called: there is no file sink to destroy.
EndWithoutSink ==
  /\ phase = "exiting"
  /\ MainReady
  /\ built = <<>>
  /\ sink = "none"
  /\ phase' = "exited"
  /\ UNCHANGED <<vars, built, registered, sink, files, host, signals, missed>>

Shutdown ==
  \/ DestroyLog
  \/ DestroyTopping
  \/ CloseTrace
  \/ DestroyToppingLate
  \/ DestroySink
  \/ EndWithoutSink

Finished ==
  /\ phase = "exited"
  /\ UNCHANGED programVars

ToppingNext ==
  \/ \E t \in Threads : Proceed(t)
  \/ \E t \in Threads, c \in Calls : Trace(t, c)
  \/ MainFlush
  \/ BuildTopping
  \/ InitTopping
  \/ ReplaceSink
  \/ InitAgain
  \/ \E t \in Interruptible : Interrupt(t) \/ InterruptLate(t)
  \/ Exit
  \/ Shutdown
  \/ Finished

ToppingSpec == ToppingInit /\ [][ToppingNext]_programVars

\* Threads are scheduled, and the destruction of the statics goes on; that
\* main ever returns is not assumed.
ToppingFairness ==
  /\ \A t \in Threads : WF_programVars(Proceed(t))
  /\ WF_programVars(Shutdown)

ToppingFairSpec == ToppingSpec /\ ToppingFairness

-----------------------------------------------------------------------------
(* Properties                                                              *)

ToppingTypeOK ==
  /\ TypeOK
  /\ phase \in {"before", "running", "reopening", "exiting", "closing", "exited"}
  /\ built \in {<<>>, <<"topping">>, <<"log">>, <<"topping", "log">>, <<"log", "topping">>}
  /\ registered \in BOOLEAN
  /\ sink \in {"none", "open", "destroyed"}
  /\ files \in Seq(Seq(Events))
  /\ host \in Threads \cup {NoThread}
  /\ signals \in 0..MaxSignals
  /\ missed \in Nat

Footer == {i \in 1..Len(markers) : markers[i].kind = "]"}

\* If the log outlives topping, the footer closes a complete trace: nothing
\* is left in the log, every event recorded was handed out once and in order,
\* and nothing follows the footer (event_trace.cpp:29-33), whatever SIGINT
\* flushed on the way while main was outside TraceLog.
FooterClosesTrace ==
  \A i \in Footer :
    /\ markers[i].at = Len(output)
    /\ Open = <<>>
    /\ Uids(output) = [n \in 1..(next_uid - 1) |-> n]

Headers == {i \in 1..Len(markers) : markers[i].kind = "["}

\* The files, in the order they were opened, hold without a gap everything
\* handed out since topping::init was first called, what it flushes itself
\* before its header included, and what follows the newest header is in the
\* newest file (event_trace.cpp:23-27, 57-73): only what was handed out
\* before that call misses the sink, though a second call flushes from the
\* destructor of the file it replaces.
FilesHoldOutput ==
  /\ phase = "before" => files = <<>>
  /\ files # <<>> => FlattenSeq(files) = SubSeq(output, missed + 1, Len(output))
  /\ \A i \in Headers :
       Cardinality(Headers) = Len(files) /\ (\A j \in Headers : j <= i)
       => Len(output) - markers[i].at <= Len(Last(files))

\* The handler never interrupts a thread in a place from which its Flush
\* cannot go on: "Ctrl-C detected! Flushing trace."  (event_trace.cpp:39).
HandlerNotBlockedByHost ==
  ~(host # NoThread /\ lock_ = host /\ pc[Handler] = "flush_wait")

\* "Shutting down tracing. Flush events." (event_trace.cpp:82): when the
\* file sink is destroyed, there is still a log for it to flush.
SinkFlushesLiveLog == sink = "destroyed" => LogAlive

\* The handler returns to the thread it interrupted (event_trace.cpp:35-44).
HandlerReturns == host # NoThread ~> host = NoThread

\* Once main has returned, ~topping gets through its flush to the footer
\* (event_trace.cpp:29-33) if the log is still there, whatever SIGINT
\* flushes on the way.
TraceGetsFooter ==
  phase = "exiting" /\ LogAlive /\ Last(built) = "topping" ~> Footer # {}

=============================================================================
