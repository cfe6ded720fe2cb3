# event-trace: a TLA+ verification development

`event-trace` is an in-process tracing library in the manner of Chromium's `trace_event`.
Macros record events into one process-wide buffer; a flush hands the buffer to a callback as
JSON; a `topping` object writes what the callback gets to a file and flushes on SIGINT and
at exit. Paths below are relative to the repository.

## The system

| component | code | state | operations |
|---|---|---|---|
| TraceLog | `src/trace_log.cpp`, `trace_log.hpp` | two event vectors, mutex `lock_`, `enabled_`, `thread_ids_seen`, one `thread_local` flag per thread | `AddTraceEvent`, `Flush`, `SetEnabled`, `BeginLogging`, `EndLogging`, `AddThreadNameMetadataEvents` |
| scope guards, macros | `scoped_event.hpp`, `event_trace.hpp` | a guard per open scope, with the index of its BEGIN event if it has a threshold | open, close, single event |
| topping, file sink, SIGINT handler | `src/event_trace.cpp` | the sink, the statics and their order of destruction | `init`, `OutputCallback`, handler, destructors |
| category registry | `src/category.cpp`, `category.hpp` | vector of entries, mutex, the filter in force; proxies kept by the macros for good | `get`, `append`, `set_filter`, `SetEnabled` |
| category filter | `src/category.cpp` | list of expressions | constructor, `result_of` |
| TraceEvent and JSON | `trace_event.*`, `json_formatter.hpp`, `trace_value.hpp` | pointers to texts, an argument value, an id | construction, `AppendAsJSON` |
| copy markers, event storage | `trace_log.hpp` 34-94, 225-357, `trace_event.hpp` | one heap block per event with copied texts | `accumulate_size`, `deep_copy`, destruction with the event |
| TraceID | `trace_id.hpp` | an atomic counter | construction, `next_global` |
| clock, platform | headers | none | read the clock, the ids |

**How they interact.** A macro asks the registry for a proxy once, keeps it in a static
variable, and reads the category's flag through it each time; if it is set the macro calls
`AddTraceEvent`, which allocates the copies of marked texts before it takes the lock and
gives the storage to the event. A guard reads the flag again when its scope ends. `TraceLog`
calls the output callback without its lock. The SIGINT handler calls `Flush` on the stack of
whatever thread it interrupted. At exit the function-local statics `TraceLog` and `topping`
are destroyed in the reverse order of construction, then the sink, an older static.

**What is hard.** Unlocked reads (the size check at `trace_log.cpp:112`), the unlocked loop
of `Flush` over a vector that a second `Flush` swaps away, indices of events kept across
flushes and erasures, flags read twice, a handler that may lock what its own thread holds,
destruction order, a vector that must never move because references into it live for ever,
filters replaced without the mutex, and pointers into storage that lives until the flush
after the one that prints it. `PROJECT.json` lists each hazard at its line with the
properties that look at it.

## The modules

| module | models | lines of code |
|---|---|---|
| `EventChannel` | the abstract promise of TraceLog: a first-in first-out channel between recording and the callback | (abstract) |
| `TraceLog` | the log: every lock, swap, clear and batch a step of its own | `trace_log.cpp` 43-302 |
| `MCTraceLog` | TLC instances | |
| `TraceLogProofs` | theorems about one log: types, mutex, limit of the vectors, flush buffer, thread list | |
| `PipelineProofs` | theorems about the way of events through it: order, conservation, refinement of `EventChannel` | |
| `EventData`, `MCEventData` | what an event carries: texts, copies and their storage, value, id, and what is printed | `trace_log.hpp` 34-94, 225-357, `trace_event.*`, `trace_log.cpp` 53-57, 263-302, `event_trace.hpp` |
| `JsonFormat` | escaping and values, as pure operators, with a reader of JSON strings as the reference | `json_formatter.hpp`, `trace_value.hpp` |
| `TraceID` | flags, mangling and `next_global`, as pure operators | `trace_id.hpp`, `event_trace.hpp` |
| `EventDataProofs` | the theorems about `EventData`, `JsonFormat` and `TraceID` | |
| `ScopedTrace`, `MCScopedTrace` | guards and macros composed with `TraceLog` | `scoped_event.hpp`, `event_trace.hpp` 240-298 |
| `ScopedProofs` | theorems about the indices guards keep, and the types of the scopes | |
| `BalanceProofs` | the BEGIN and END events of a thread as brackets | |
| `Topping`, `MCTopping` | sink, handler and shutdown composed with `TraceLog` | `event_trace.cpp` |
| `ToppingProofs` | theorems about the whole program with its signals, files and exit | |
| `CategoryFilter` | the filter, as pure operators | `category.cpp` 147-224 |
| `Category`, `MCCategory` | the registry and its proxies | `category.cpp` 24-120 |
| `CategoryProofs` | the theorems about `Category` and `CategoryFilter` | |
| `DataLemmas` | what the proofs need beyond the library: sequences, least elements, folds and flattening | |

A definition whose comment calls it a *mutant* is a plausible bug in the definition after
it; no specification uses it. Each property is known to fail under at least one of them.

### TraceLog

A thread's place inside a function is `pc[t]`. The steps are what the lock separates: the
unlocked size check (`AddTraceEvent`), taking `lock_` with the time stamp and the thread
list (`AddLock`), and one of three ends - `AddRecord`, `AddDiscard`, `AddEraseBegin`.
`Flush` is `CallFlush`, `FlushSwap`, `FlushClear`, then `FlushBatch` per round of the loop,
then `FlushDone`. `FlushSwap` and `FlushClear` are separate because the size check can run
between them: a `std::vector::swap` under the reader's feet is a data race, and `RoomSeen`
lets that reader see any size. An event is its thread, phase, time and the ghost `uid`. When
the size check fails the call changes nothing, which is a stuttering step. `Threads` may
reuse an id (`ThreadReplaced`).

`Controllers` are the threads that call anything but `AddTraceEvent`. The code has no rule
that only one thread flushes at a time; the passing runs take one controller, and the run
`two_flushers` shows what happens with two. `AddThreadNameMetadataEvents` takes no lock at
all. Its events may come between another thread's size check and its append, where they are
legal, and where `CapacityBound` has to account for them; a call while another thread is in
a critical section is a data race on the vector, without a set of outcomes, and its guard on
`lock_` leaves that out. All the metadata events of one call carry one time, though the code
reads the clock for each.

### ScopedTrace

A thread's guards form a stack. A macro reads the category and then calls `AddTraceEvent`,
which reads the size of the buffer: two steps, between which other threads run. `OpenScope`,
`CloseScope` and `Instant` find the category enabled and leave in `due` the call the thread
is about to make; `Enter` makes it and finds room, `Dropped` finds the buffer full.
`OpenScopeDisabled` and `CloseScopeDisabled` are the same scopes with the category off.
`BeginRecorded` gives a timed guard the index TraceLog returned; `EndRecorded`,
`EndDiscarded` and `PairErased` are the three ways a call for END ends.

The ghosts `begin_uid` and `begin_ts` name the BEGIN event the guard really stands for.
`torn` says of a thread that one of its scopes lost one half, and `Tear` is called at
exactly the four places where the code loses one: the category is switched inside the scope;
BEGIN or END finds the buffer full; END is discarded because its index is past the end of
the vector (`trace_log.cpp:157-160`); an erasure by an outdated index takes another event
than its own BEGIN (`Bereft` names both threads that lose by it). `TraceBalanced` holds up
to exactly there. The documentation of the macros speaks of a pair of events for each scope
and makes no exception (`event_trace.hpp:70`, `112`): the property states what the code
keeps of that, and names what it does not. `disturbed` says that a flush or another thread's
erasure has moved events while a guard held an index; `HeldIdsValid` and
`RecordedLongEnough` speak of the indices themselves and hold up to there, which
`scoped_flush` shows to be needed.

### Topping

The handler is a thread of TraceLog whose `host` takes no step until it returns. `built` is
the order the statics were constructed in. `topping::init` is static and uses the log but
not `topping::instance`, so topping may be built before the log, after it (`BuildTopping`)
or never, and only once it is built is the handler registered. `DestroyLog`,
`DestroyTopping` with `CloseTrace`, and `DestroySink` are the destructors; `EndWithoutSink`
is an exit without a sink to destroy. Making `topping::OutputCallback` the output callback
is up to the program that uses the library, which is external; the model takes it as done
before anything is flushed. `main` returns after joining its threads.

A call on the destroyed log - by `~file_sink`, by a `~topping` that was built first, or by a
late SIGINT - locks a mutex and walks vectors that are gone. `UseDeadLog` ends every
behaviour there: that is where the model stops, not where the program comes to its end, and
no property claims anything of what follows. `TraceGetsFooter` and `FooterClosesTrace`
therefore speak of a log that outlives topping, and `topping_exit` of the fact that the sink
finds none.

`init` may be called again. `ReplaceSink` is the assignment `sink = make_unique<file_sink>`:
the new file is in place before the destructor of the old sink flushes, so that flush goes
to the NEW file, ahead of its header; `InitAgain` is the `BeginLogging` that follows.
`files` holds what each file got, and the ghost `missed` counts what was handed out before
the first `init`, when there was no file.

### EventData

The interleavings of the log are `TraceLog`'s subject; here every call is one step, and the
state is memory. A pointer is a block and an offset. Blocks are string literals, buffers the
callers reuse at any time (`Reuse`), and the heap blocks `make_unique` returns; a block that
is not allocated is empty, and a write past the end of a block makes it grow. `Record`
sizes, allocates and fills the storage of a call as `accumulate_size` and `deep_copy` do,
takes the id, mangles it and logs the event; `Drop` is the full buffer, where the storage
goes with the call and an id of `next_global` is used up; `AddThreadName` writes into the
fixed storage of a metadata event; `EraseBegin`, and `Flush` with the clear of what the LAST
flush printed, destroy events with their storage. `SetProcessID` changes the process id and
its hash. The ghost `passed` holds what the caller meant, `printed` what came out.

Three points where the code differs from what one might expect are in the model as they are
in the code. The copy marker of an event's *name* has no effect, since the name is turned
into a `string_view` before the marker is looked at (`trace_log.hpp:301`); `NoDanglingRead`
and `PrintedAsPassed` except such names, and `NamePrintedAsPassed` does not: the run
`event_name` shows it violated. A control character without a short escape is printed twice,
once escaped and once raw (`json_formatter.hpp:67`); `TextReadsBack` excepts texts with one.
And the pid printed is that at the time of the flush, while a pointer id was mangled with
the hash in force when its event was recorded; `PointerIdsApart` goes by the latter.

`Calls` are those the macros make. What is not marked for copying is a whole string literal
(`Allowed`), as the comment on the marker (`trace_log.hpp:40`) demands. `std::hash` of an
integer is the identity in libstdc++, so `Hash` is injective. An id is the set of its one
bits and `^` the symmetric difference. The name of the category is left out: it is never
copied, and `event_trace.hpp:74` requires that it lives as long as the program.

### Category

`get_proxy` is one critical section in the code; the model splits it between the filter's
verdict and the insertion (`GetVerdict`, `GetCreate`) because `set_filter`, which does not
take the mutex, can run in between. `set_filter` assigns the filter without it too
(`SetFilter`, `SetFilterDone`): who asks the filter during the assignment may see any
verdict (`Verdicts`). `apply_filter` walks one entry per step. A proxy is the position of
its entry and the `storage` the vector was in, so that a moved vector shows as a proxy of an
older storage. `capacity` grows as libstdc++'s does. The filter's text is a sequence of
tokens: a sign, the names the expression is found in, and whether `std::regex` accepts it.
`WellDefined` leaves out texts whose outcome the language does not define (a bad expression
when no accepted one is left to take back).

`FilterInForce` goes by the ghost `overlapped`. A call that overlaps with the setting of a
filter may leave a category with the verdict of the old one: a thread in `get_proxy` has
asked the old filter (`category.cpp:86`) and creates its entry (93) behind the end the loop
of `apply_filter` took. The model has these steps, and the property claims nothing then,
until a filter is set while no other call is under way: that resets `overlapped`, and every
category is right again. A text with an expression that `std::regex` refuses is among those
of the run: line 186 takes the accepted expression before it out of the list, so that the
first match of `category.hpp:36-37` is not found. `FilterInForce` goes by the list as the
constructor leaves it; no property says what the list should have been. Two races are
narrower in the model than in C++, both between overlapping calls only: of two filters
assigned at once the later one is in force, and a loop of `apply_filter` whose vector has
moved changes nothing, where the code writes into freed memory.

## What the runs show

| run | instance | result |
|---|---|---|
| `tracelog` | 2 threads, 1 controller, `BUFFER_SZ` 1, `BATCH_SZ` 1, 3 events, 1 tick | types, `LockOwned`, `CapacityBound`, `ThreadsSeen`, `StreamInTimeOrder`, `NothingLost`, `FlushBufferStable`, `ImplementsChannel` hold |
| `two_flushers` | 2 controllers, 2 events | `FlushDeliversAll` is violated |
| `scoped` | 1 thread, 2 nested scopes, `BUFFER_SZ` 3, 4 events, 2 ticks, 1 switch | `ScopesTypeOK`, `HeldIdsValid`, `TraceBalanced`, `RecordedLongEnough` hold |
| `scoped_threads` | 2 threads, `BUFFER_SZ` 2, 3 events | `HeldIdsValid`, `TraceBalanced` hold |
| `scoped_flush` | 2 threads, 2 nested scopes with a threshold, 4 events, 1 tick | `ErasesOwnBegin` is violated |
| `category` | 3 names, room for 2, 2 threads, 4 filters, 1 list | five invariants hold |
| `category_append` | the same | `ProxiesStayValid` is violated |
| `event_data` | 2 heap blocks, `BUFFER_SZ` 1, 3 events, 6 kinds of call, ids of 2 bits, 2 calls of `next_global` before drops stop, 2 processes, 1 switch | eight invariants hold |
| `event_name` | the same | `NamePrintedAsPassed` is violated |
| `topping` | main, worker, handler; 2 signals, 2 inits, 3 events, `BATCH_SZ` 2, fairness | `ToppingTypeOK`, `FooterClosesTrace`, `FilesHoldOutput`, `HandlerReturns`, `FlushReturns`, `TraceGetsFooter` hold |
| `topping_signal` | signals at any point of main | `HandlerNotBlockedByHost` is violated |
| `topping_exit` | 1 init, then the exit | `SinkFlushesLiveLog` is violated |

The violated properties quote the documentation, an assertion or a message of the code;
`PROJECT.json` has the finding for each. Of two exceptions a violation run shows the reason:
`scoped_flush` that of `HeldIdsValid` and `RecordedLongEnough`, `event_name` that of
`PrintedAsPassed`. The counterexample of `scoped_flush` is the shortest one, a flush and a
newer event at the old index; the erasure by one thread of an event before another's BEGIN
leads there as well. `RecordedLongEnough` goes by `event_trace.hpp:253`, where a scope is
erased if it took less than its threshold: the code keeps that. `event_trace.hpp:109` and
`trace_log.cpp:141` say that only a scope longer than its threshold is recorded: one that
took exactly the threshold is recorded all the same.

**Bounds.** `MaxEvents`, `MaxTime`, `MaxMarkers`, `MaxScopes`, `MaxSwitches`, `MaxSignals`,
`MaxInits`, `MaxIds` and `MaxAppends` cap what would grow for ever. A buffer of one or two
makes the size check fail and two threads race past it; batches of one give several rounds
of the loop, and a batch of two a short last batch; three events are enough for one to be
written, one to wait in the flush and one to be recorded meanwhile; one tick is enough for a
scope to be too short and another long enough, and with the second tick of `scoped` a scope
is longer than its threshold, too. Two scopes nest, or belong to two threads. Room for two
categories and three names exhausts the registry; one list of two moves the vector. In
`tracelog` every event is an END, with or without the index of a BEGIN (`PlainPhases`
empty): TraceLog never looks at the phase, and an END without an index takes the path of
every plain event. In `event_data` a buffer of one lets one event be kept in each vector,
which is what two heap blocks serve: the third event reuses a block freed by the flush after
the one that printed its first owner. Texts of two characters and one cut to one character
give copies of different lengths, and a mistaken offset or size shows at once. Two bits
distinguish two pointers and two hashes. The sequence of `next_global` is of period four
there: `GlobalIdsDistinct` compares the ids of up to five calls and holds within a period.

In `topping` the handler interrupts main only in `InterruptiblePlaces` where main neither
holds `lock_` nor writes events. That is a restriction on the environment which the code
does not enforce; `topping_signal` drops it and fails.

**Fairness.** `topping` uses it: weak fairness of each thread's next step inside TraceLog,
since an operating system runs every runnable thread, and of the destruction of the statics,
which the runtime carries on once `main` has returned. Nothing is assumed about calls: no
thread must ever record, flush or return from main. Weak fairness of taking `lock_` is all a
`std::mutex` offers. `FlushReturns` therefore speaks of a flush that has the lock; that
every path through TraceLog gives the lock back is `LockOwned`. `HandlerReturns` does not
rest on the bound of the events: while the handler waits, main stands still and nobody
empties the buffer, so the worker gets the lock only until the buffer is full. (A worker
that did nothing but open and erase too short scopes could compete for ever; the run has
plain events only.) `TraceGetsFooter` starts when every other thread has been joined, so
that only the handler competes with main, and a program gets finitely many signals there
(`MaxSignals`).

**Deadlock** is checked in every run; a program that has exited takes the step `Finished`.

## What is proved

For every value of the constants that satisfies the module's assumption, that is for any
number of threads, categories and calls, any buffer, batch and heap size, texts of any
length and ids of any width:

`TraceLogProofs` (from `TraceLogAssumption`)

- `TypeCorrect`: `Spec => []TypeOK`. `TypeOK` is inductive together with `CallInProgress`;
  the one step that needs more than its action is the erasure, whose index is in range by
  its guard (`BeginIndex`).
- `LockCorrect`: `Spec => []LockOwned`, inductive together with `TypeOK`.
- `CapacityCorrect`: `Spec => []CapacityBound`. The bound is not inductive: a vector at its
  limit while another thread is past the check would break it. The strengthening
  `GrantedRoom` counts the threads between the check and the append (`Adding`) as room
  already given away: outside the swap window the logged events and those threads together
  stay within the limit. While the window is open nobody can append, because the flushing
  thread holds the mutex (`MutualExclusion`), and it closes on an empty vector.
- `FlushBufferCorrect`: with at most one controller, `Spec => FlushBufferStable`. The
  strengthening says that only controllers are ever inside `Flush`.
- `ThreadsSeenCorrect`: `Spec => []ThreadsSeen`. The strengthening `Listed` says that a
  thread whose flag is set, or that is about to append, is in the list: the flag survives
  its call, and the append comes a step after the search.

`PipelineProofs` (from `OneController`, a single thread that flushes). The run
`two_flushers` shows why that is assumed. What the proofs use of it is `FlushAlone`, that no
two threads are in `Flush` at once, so that they also serve the program of `Topping`, where
main and the handler both flush. The inductive invariant `FlushInv` adds to types and mutex
that only controllers are in `Flush` and that the loop's index is 0 outside the loop. From
it `Moves` shows that every step, however it is interleaved, does one of five things to the
events on their way: nothing; it appends to the open end events numbered from `next_uid` and
stamped now or under the lock (`Recorded`); it takes one open event out; it commits what is
open behind an empty flush; or it delivers a first part of what is committed. Then

- `NothingLostCorrect`: `Spec => []NothingLost`, since appending the next numbers and taking
  one element out keep the account (`AccountedGrows`, `AccountedLoses`) and the other moves
  leave the pipeline, seen as a whole, as it is (`PipelineMoves`).
- `TimeOrderCorrect`: `Spec => []StreamInTimeOrder`. It is not inductive: `TimeInv` adds
  that no event is younger than the clock, nor than the time stamp of a thread that holds
  the lock and has yet to append.
- `ChannelImplemented`: `Spec => ImplementsChannel`: the five moves are the actions of
  `EventChannel`, or stutter, under the refinement mapping.

`ScopedProofs` (from `ScopedAssumption` and `AnyBeginId`: a guard may pass any index it
got). Every step of the scopes is a step of `TraceLog` or leaves it alone (`ScopesUseLog`),
so types and mutex come from `TraceLogProofs`. `Calling` ties the call in progress to the
innermost guard: BEGIN is called for a guard that has no index yet, END with the innermost
guard's index.

- `HeldIdsCorrect`: `ScopedSpec => []HeldIdsValid`. An erasure moves every later event, so
  the property is not inductive. `Valid` adds that a thread's indices grow with its stack,
  that no two guards hold the same one, and that none is held while the vectors are swapped.
  What a thread erases is then behind every index it still holds (`EraseValid`), and a new
  index is beyond all others (`BeginValid`).
- `LongScopesRecorded`: `ScopedSpec => RecordedLongEnough`, since the event at a held index
  has the time of the guard's own BEGIN. `Times` adds that no BEGIN is later than the clock
  or than the time stamp the thread has taken, for the guards without a threshold.
- `ScopesTypeCorrect`: `ScopedSpec => []ScopesTypeOK`. The type bounds the uid a guard keeps
  by `MaxEvents`, and `AddRecord` has no guard of its own to say so: `Bounded` counts the
  calls under way (`Adding`) as uids given away, as `GrantedRoom` does for the vector.

`BalanceProofs` (from the same and `OneController`)

- `BalanceCorrect`: `ScopedSpec => []TraceBalanced`: in the events of a thread that has left
  its scopes, on their way from the buffer to the output, BEGIN and END are equally many,
  and in no prefix is END ahead, unless one of its scopes was broken up in one of the four
  ways of `Tear`. A flush inside a scope is no exception as such. The property says nothing
  of a thread inside a scope; the invariant does. `Standing`: unless the thread's scopes are
  torn, the first `Depth` of its guards, and no others, stand for a recorded BEGIN.
  `Bracketed`: those guards are the open brackets. Brackets are sets of uids (`Nests`): up
  to every uid at least as many were opened as closed, and after the BEGIN of the i-th guard
  at least i more. A step leaves a thread's stack alone, enters a scope or leaves one
  (`ThreadSteps`), and accordingly the largest uid joins one of the sets, or the innermost
  guard's own BEGIN is taken out (`RecordMoves`, `EraseMoves`, `OtherMoves`). That an
  erasure takes the thread's own BEGIN, or else tears the scopes of all threads it concerns,
  is `Bereft`; that the uid is the largest is the numbering of `NothingLostCorrect`.

`ToppingProofs` (from `ToppingAssumption`)

- `ToppingTypeCorrect`: `ToppingSpec => []ToppingTypeOK`.
- `SignalsLoseNothing` and `SignalsKeepChannel`: under `SignalsAway` the program with its
  handler satisfies `NothingLost` and implements `EventChannel`. `SignalsAway` says that
  SIGINT reaches main only and not in the loop of `Flush`. `Hosted` then says that main and
  the handler are never both inside `Flush` beyond its first lock, which is `FlushAlone`,
  and every step is one of `PipelineProofs`' moves (`ProgramMoves`).
- `FooterCorrect`: under `SignalsAway`, and without threshold scopes, `ToppingSpec =>
  []FooterClosesTrace`. `Phased`: main's last flush leaves nothing open. `Closed`: once the
  footer is written the log is empty, whatever the handler does, and the footer stands at
  the end of the output. With `NothingLost` that is every event, once and in order.
- `FilesCorrect`: `ToppingSpec => []FilesHoldOutput`, wherever SIGINT arrives and whichever
  thread it interrupts, from `Sunk` (a sink is open from the first `init` to the end),
  `Counted` (every header, written or due, has a file) and `Stored` (the output is what was
  missed, `missed` events long, followed by the files joined, and the newest file reaches
  back to the newest header). `Guest` (the handler only flushes, exactly while it has a
  host) and `Leaving` (from the exit on only main and the handler are inside the log, and
  nobody once it is gone) are what keeps a batch from being handed out after the sink's
  destruction.
- `BlockedOnlyInside`: if signals find their thread outside the two critical sections of
  `TraceLog`, `ToppingSpec => []HandlerNotBlockedByHost`. It is the other half of what the
  run `topping_signal` shows: that deadlock has no other cause.

`SignalsAway` is needed: with SIGINT delivered to a worker, or inside the loop of `Flush`,
TLC finds `NothingLost` and `FooterClosesTrace` violated in the small instance, since the
handler's `Flush` swaps away the vector another thread is writing.

`EventDataProofs` (from `EventDataAssumption`)

- `TypeCorrect`, `StorageIsOwned`, `CopiesAlwaysFit`, `NeverDangling` and
  `PrintsWhatWasPassed`, the last two for all texts but names of events in callers' buffers,
  which the code never copies (run `event_name`). All come from one invariant, `MemoryInv`:
  types; literals never change (`Fixed`); every allocated block has exactly one owner
  (`Ownership`); copies fill their storage (`CopiesFit`); and the texts an event refers to
  are still those that were passed (`KeptIntact`). None is inductive alone: a text survives
  the erasure of another event because the two do not share a block, and the copies are
  terminated because both fit. `CString` of a copy is what was copied by the least-element
  property of `SelectInSubSeq` (`MinProperties`).
- `PointersApart`: `Spec => []PointerIdsApart`, from `IdInv`: the hash in force is that of
  the process, and the id of every pointer kept or printed is the pointer mangled with the
  hash of the process it was recorded in. This is where `Hash` must be injective.
- `TextsReadBack`: `Spec => []TextReadsBack`, for texts of any length over any characters:
  by `PrintsWhatWasPassed` what is printed is `jstring` of the text passed, and by
  `JstringReadsBack` a reader takes `jstring` of a text for the text. Escaping is a
  flattened sequence and reading a fold: `JstringAppend` and `ReadAppend` say what one
  character more does to either, `ReadEscaped` that the two undo each other.
- `GlobalIdsApart`: `Spec => []GlobalIdsDistinct`, for every width and seed. `GlobalInv`:
  the counter is the number of calls of `next_global` up to whole rounds (`Turned`), and an
  id kept or printed is that of its number (`Numbered`). Two different numbers below
  `2^Width` differ in a bit (`BitsTell`: the quotients by the powers of two agree from the
  highest to the lowest), and `^` with the seed keeps them apart.

`CategoryProofs` (from `CategoryAssumption`)

- `EntriesUnique`, `ReserveEnough` and `ProxiesCorrect`, from `RegistryInv`: types of the
  registry, and that a thread between the search and the insertion holds the mutex while the
  name is still unknown and there is room (`Creating`), and that without an `append` there
  are no more entries than the limit, and the vector is in its first storage, as reserved,
  exactly while there are no more (`Reserved`). `ReserveEnough` says that `get` alone never
  creates more than `MAX_CATEGORIES` entries, and that whatever `append` adds the vector
  keeps its place while it holds no more.
- `FilterCorrect`: `CategorySpec => []FilterInForce`. `FilterInv` says what holds unless
  calls overlapped: a thread about to insert has the verdict of the filter in force, who
  applies a filter is alone and its loop runs over the vector as it is, and the entries
  behind it have their states. A filter that is set alone establishes it anew.
- `CategoryTypeCorrect`: `CategorySpec => []CategoryTypeOK`: the constructor's fold over the
  tokens of a text, with its pops of the list, ends in a list of expressions if the text is
  `WellDefined`, as `CategoryAssumption` demands: it never pops an empty list.

The library's induction theorems cannot be used here, since they take an operator as a
parameter. Where a proof goes along a sequence or a number it takes the least counterexample
instead (`NatMin`). That a recursive definition has a solution at all is proved the same
way: the fold of a sequence exists (`FoldExists`), and so do the partial results of
`FlattenSeq` (`FlattenIs`) and the powers of two (`DoublesExist`).

Only model-checked: liveness (`HandlerReturns`, `FlushReturns`, `TraceGetsFooter`), which is
out of the prover's reach.

## What is not modelled

- The layout of the document (commas, spaces, line breaks) and the digits of numbers and
  pointers: no property is about them. That every event ends in a comma, the last one too,
  is listed as a hazard.
- That two processes start `next_global` from the same seed, being those of a
  default-constructed engine: a fact about two programs, where the models have one.
- Undefined behaviour without a set of outcomes: a blank token in a filter, and a bad
  expression when no accepted one is left, which pops an empty vector (the assumption on
  `Texts` excludes them); metadata events appended while another thread is in a critical
  section; and everything after a call on the destroyed log.
- The name of the category in an event, which the macros require to live as long as the
  program.
- Quotes in the names of events, categories and arguments, which are printed unescaped:
  names are compared as printed.
- Exceptions thrown by allocations, and the size of a `std::int32_t` event id, which 500000
  events cannot reach.
- The platform wrappers, which return the ids of the process and the thread; the tests and
  the sketches under `doc/concepts`, which are not part of the library.

The scope guards' base class reads members of the derived guard after the derived destructor
has run; they are trivially destructible and every build reads their values, so the model
does too.

## What could come next

- `EventData`'s memory under the interleavings of `TraceLog` instead of whole calls: the
  allocation precedes the lock, and the print comes after it.
- `next_global` called by several processes, with their seeds.
