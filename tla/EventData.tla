----------------------------- MODULE EventData -----------------------------
(***************************************************************************)
(* What an event carries, from the macro to the printed JSON: texts that   *)
(* are referred to by pointer or copied into storage the event owns, an    *)
(* argument value, and an id.                                              *)
(*                                                                         *)
(* Every call is one step: the interleavings of the log are TraceLog's     *)
(* subject.  Memory is a set of blocks: static strings, the buffers of the *)
(* callers, which they reuse at any time, and the heap, where a block that *)
(* is not allocated is empty.  The name of the category is left out: it    *)
(* "must have application lifetime" (event_trace.hpp:74), and no call      *)
(* copies it.                                                              *)
(***************************************************************************)
EXTENDS TraceID, JsonFormat, FiniteSets

CONSTANTS
  Static,       \* blocks of string literals
  StaticText,   \* their contents
  Buffers,      \* blocks the callers reuse
  Heap,         \* blocks make_unique returns
  NullBlock,    \* where a null pointer points
  Chars,        \* the characters of texts
  Texts,        \* what a caller writes to a buffer
  ThreadName,   \* what AddThreadNameMetadataEvents prints into its storage
  METADATA_SZ,  \* the size of that storage: 32
  MetadataName, \* the literals "thread_name" and "name"
  Processes,    \* values of process_id_
  FirstProcess, \* current_proc::id() when the log is built
  Hash,         \* std::hash of each
  Calls,        \* the calls of AddTraceEvent the macros make
  BUFFER_SZ,
  MaxEvents,    \* bound: events recorded in a behaviour
  MaxIds,       \* bound: calls of next_global after which no event is dropped
  MaxSwitches   \* bound: calls of SetProcessID

Blocks == Static \cup Buffers \cup Heap \cup {NullBlock}

\* A string argument: all of a block's string, or, with the copy marker, all
\* but its last character, which a string_view need not terminate.
Strings ==
  [block : Static \cup Buffers, whole : BOOLEAN, marked : BOOLEAN]
NoString == [block |-> NullBlock, whole |-> TRUE, marked |-> FALSE]

\* "Marker for required deep copy [...], for use of non-static or non-NULL
\* terminated strings": what is not marked is static and whole.
Allowed(s) == s.marked \/ (s.whole /\ s.block \in Static)

\* Only a text refers to characters, and only an argument has a value.
AllCalls ==
  {c \in [name : {s \in Strings : s.whole /\ Allowed(s)},
          arg_name : {s \in Strings : Allowed(s)} \cup {NoString},
          kind : Kinds,
          arg_value : {s \in Strings : Allowed(s)} \cup {NoString},
          id : IdArguments] :
     /\ c.kind = "text" <=> c.arg_value # NoString
     /\ c.arg_name = NoString => c.kind = "null"}

ASSUME EventDataAssumption ==
  /\ NullBlock \notin Static \cup Buffers \cup Heap
  /\ Static \cap Buffers = {} /\ Static \cap Heap = {} /\ Buffers \cap Heap = {}
  /\ NUL \notin Chars
  /\ Texts \subseteq Seq(Chars)
  /\ ThreadName \in Seq(Chars) /\ Len(ThreadName) < METADATA_SZ
  /\ METADATA_SZ \in Nat
  /\ StaticText \in [Static -> Seq(Chars)]
  /\ MetadataName \in Static
  /\ FirstProcess \in Processes
  /\ Hash \in [Processes -> Ids]
  /\ \A p, q \in Processes : Hash[p] = Hash[q] => p = q
  /\ Calls \subseteq AllCalls
  /\ BUFFER_SZ \in Nat /\ MaxEvents \in Nat /\ MaxIds \in Nat /\ MaxSwitches \in Nat

VARIABLES
  memory,            \* the cells of each block
  allocated,         \* ghost: the size each heap block was allocated with
  logged_events_,
  flush_events_,
  process_id_,
  process_id_hash_,
  counter,           \* the atomic counter of next_global
  ids,               \* ghost: calls of next_global
  printed,           \* what AppendAsJSON made of the events flushed, in any order
  recorded,          \* ghost: events recorded
  switches           \* ghost: calls of SetProcessID

logVars     == <<memory, allocated, logged_events_, flush_events_, printed, recorded>>
processVars == <<process_id_, process_id_hash_, switches>>
vars        == <<logVars, processVars, counter, ids>>

-----------------------------------------------------------------------------
(* Memory                                                                  *)

Pointer(block, offset) == [block |-> block, offset |-> offset]
NullPointer == Pointer(NullBlock, 0)

\* The C string a pointer refers to.
CString(mem, p) ==
  LET cells == mem[p.block]
      end   == SelectInSubSeq(cells, p.offset + 1, Len(cells), LAMBDA c : c = NUL)
  IN  SubSeq(cells, p.offset + 1, end - 1)

\* The string an argument stands for when the call is made.
Value(s) ==
  LET text == CString(memory, Pointer(s.block, 0))
  IN  IF s.whole THEN text ELSE Front(text)

Free(mem, blocks) == [b \in Blocks |-> IF b \in blocks THEN <<>> ELSE mem[b]]
Storage(events)   == {events[i].copy_storage : i \in 1..Len(events)}

-----------------------------------------------------------------------------
(* The copy marker                                                         *)

\* Mutant: the terminator is not counted.
alloc_size_short(s) == IF s.marked THEN Len(Value(s)) ELSE 0

alloc_size(s) == IF s.marked THEN Len(Value(s)) + 1 ELSE 0

\* Mutant: every copy is made at the start of the storage.
OffsetUnmoved(s) == 0

\* How far deep_copy moves the offset on.
Offset(s) == IF s.marked THEN Len(Value(s)) + 1 ELSE 0

\* Writing past the end of a block is shown by its growing.
Write(cells, offset, text) ==
  LET end == offset + Len(text) + 1
  IN  [i \in 1..(IF end > Len(cells) THEN end ELSE Len(cells)) |->
         IF i \in (offset + 1)..(end - 1) THEN text[i - offset]
         ELSE IF i = end \/ i > Len(cells) THEN NUL ELSE cells[i]]

deep_copy(cells, offset, s) == IF s.marked THEN Write(cells, offset, Value(s)) ELSE cells

Zeros(size) == [i \in 1..size |-> NUL]

\* The storage of a call, and what the copies of its arguments make of it.
Size(c)   == alloc_size(c.arg_name) + alloc_size(c.arg_value)
Copies(c) == deep_copy(deep_copy(Zeros(Size(c)), 0, c.arg_name), Offset(c.arg_name), c.arg_value)

\* Where an argument points after its copy, if any, was made.
Place(s, storage, offset) ==
  IF s.marked THEN Pointer(storage, offset) ELSE Pointer(s.block, 0)

\* The ghost of what the caller passed.
Passed(c) ==
  [name |-> Value(c.name), static |-> c.name.block \in Static,
   arg_name |-> IF c.arg_name = NoString THEN <<>> ELSE <<Value(c.arg_name)>>,
   kind |-> c.kind, text |-> IF c.kind = "text" THEN Value(c.arg_value) ELSE <<>>,
   id |-> c.id,
   serial |-> IF c.id.kind = "global" THEN ids ELSE 0, process |-> process_id_]

\* TraceEvent's constructor takes the data() of each string.  The event's
\* name was converted to a string_view, which has no marker: never copied.
Event(c, storage) ==
  [name |-> Pointer(c.name.block, 0),
   arg_name |-> Place(c.arg_name, storage, 0),
   kind |-> c.kind,
   arg_value |-> Place(c.arg_value, storage, Offset(c.arg_name)),
   flags |-> Flags(c.id),
   trace_id |-> Mangled(IdValue(c.id, counter), Flags(c.id), process_id_hash_),
   copy_storage |-> storage,
   passed |-> Passed(c)]

-----------------------------------------------------------------------------
(* The operations                                                          *)

Init ==
  /\ memory = [b \in Blocks |-> IF b \in Static THEN Append(StaticText[b], NUL)
                                ELSE IF b \in Buffers THEN <<NUL>> ELSE <<>>]
  /\ allocated = [h \in Heap |-> 0]
  /\ logged_events_ = <<>>
  /\ flush_events_ = <<>>
  /\ process_id_ = FirstProcess
  /\ process_id_hash_ = Hash[process_id_]
  /\ counter = 0
  /\ ids = 0
  /\ printed = {}
  /\ recorded = 0
  /\ switches = 0

Unallocated == {h \in Heap : memory[h] = <<>>}

\* emplace_back of an event with its storage, if it has any.
Log(event, cells, size) ==
  /\ logged_events_' = Append(logged_events_, event)
  /\ memory' = [memory EXCEPT ![event.copy_storage] = cells]
  /\ allocated' = [h \in Heap |-> IF h = event.copy_storage THEN size ELSE allocated[h]]
  /\ recorded < MaxEvents
  /\ recorded' = recorded + 1
  /\ UNCHANGED <<flush_events_, printed, processVars>>

\* The macro evaluates the id before anything else.
EvaluateId(id) ==
  IF id.kind = "global" THEN counter' = Increment(counter) /\ ids' = ids + 1
                        ELSE UNCHANGED <<counter, ids>>

\* There is a string to take a name from or to cut the last character of.
Possible(c) ==
  /\ Value(c.name) # <<>>
  /\ \A s \in {c.arg_name, c.arg_value} :
       ~s.whole => CString(memory, Pointer(s.block, 0)) # <<>>

Record(c) ==
  /\ Len(logged_events_) < BUFFER_SZ
  /\ Possible(c)
  /\ \E storage \in Unallocated \cup {NullBlock} :
       /\ storage = NullBlock <=> Size(c) = 0
       /\ Log(Event(c, storage), Copies(c), Size(c))
  /\ EvaluateId(c.id)

\* The buffer is full: the storage goes with the call, an id is used up.
Drop(c) ==
  /\ Len(logged_events_) >= BUFFER_SZ
  /\ Possible(c)
  /\ c.id.kind = "global"
  /\ ids < MaxIds
  /\ EvaluateId(c.id)
  /\ UNCHANGED <<logVars, processVars>>

\* One event of AddThreadNameMetadataEvents, with storage of a fixed size.
ThreadNameEvent(storage) ==
  [name |-> Pointer(MetadataName, 0), arg_name |-> Pointer(MetadataName, 0),
   kind |-> "text", arg_value |-> Pointer(storage, 0),
   flags |-> {}, trace_id |-> NONE, copy_storage |-> storage,
   passed |-> [name |-> StaticText[MetadataName], static |-> TRUE,
               arg_name |-> <<StaticText[MetadataName]>>, kind |-> "text", text |-> ThreadName,
               id |-> [kind |-> "none", value |-> NONE], serial |-> 0, process |-> process_id_]]

AddThreadName ==
  /\ \E storage \in Unallocated :
       Log(ThreadNameEvent(storage), Write(Zeros(METADATA_SZ), 0, ThreadName), METADATA_SZ)
  /\ UNCHANGED <<counter, ids>>

\* Mutant: the storage is a plain pointer.
DestroyLeaking(events) == UNCHANGED <<memory, allocated>>

\* Destroying events frees their storage.
Destroy(events) ==
  /\ memory' = Free(memory, Storage(events))
  /\ allocated' = [h \in Heap |-> IF h \in Storage(events) THEN 0 ELSE allocated[h]]

\* A threshold scope that was too short erases an event: the later ones move.
EraseBegin(i) ==
  /\ logged_events_' = RemoveAt(logged_events_, i)
  /\ Destroy(<<logged_events_[i]>>)
  /\ UNCHANGED <<flush_events_, printed, recorded, processVars, counter, ids>>

AppendAsJSON(mem, e) ==
  [pid |-> process_id_,
   name |-> CString(mem, e.name),
   args |-> IF e.arg_name = NullPointer THEN <<>>
            ELSE << [name |-> CString(mem, e.arg_name),
                     value |-> FormatValue(e.kind, IF e.kind = "text" THEN CString(mem, e.arg_value)
                                                   ELSE <<>>)] >>,
   id |-> IF "HAS_ID" \in e.flags THEN <<e.trace_id>> ELSE <<>>,
   of |-> e.passed]

\* Mutant: the vector just swapped out is cleared.
ClearsLogged == logged_events_

\* Swap, clear, print: what is destroyed is what the last flush printed.
ClearedByFlush == flush_events_

Flush ==
  /\ logged_events_ # <<>> \/ flush_events_ # <<>>
  /\ logged_events_' = <<>>
  /\ flush_events_' = logged_events_
  /\ Destroy(ClearedByFlush)
  /\ printed' = printed \cup {AppendAsJSON(memory', logged_events_[i]) :
                                i \in 1..Len(logged_events_)}
  /\ UNCHANGED <<recorded, processVars, counter, ids>>

\* Mutant: the hash stays that of the old process id.
HashKept(p) == process_id_hash_

NewHash(p) == Hash[p]

SetProcessID(p) ==
  /\ switches < MaxSwitches
  /\ switches' = switches + 1
  /\ process_id_' = p
  /\ process_id_hash_' = NewHash(p)
  /\ UNCHANGED <<logVars, counter, ids>>

\* A caller's buffer is gone: sooner or later something else is there.
Reuse(b, t) ==
  /\ memory' = [memory EXCEPT ![b] = Append(t, NUL)]
  /\ UNCHANGED <<allocated, logged_events_, flush_events_, printed, recorded, processVars, counter, ids>>

Next ==
  \/ \E c \in Calls : Record(c) \/ Drop(c)
  \/ AddThreadName
  \/ \E i \in 1..Len(logged_events_) : EraseBegin(i)
  \/ Flush
  \/ \E p \in Processes : SetProcessID(p)
  \/ \E b \in Buffers, t \in Texts : Reuse(b, t)

Spec == Init /\ [][Next]_vars

-----------------------------------------------------------------------------
(* Properties                                                              *)

Pointers == [block : Blocks, offset : Nat]

Events ==
  [name : Pointers, arg_name : Pointers, kind : Kinds,
   arg_value : Pointers, flags : SUBSET {"HAS_ID", "MANGLE_ID"}, trace_id : Ids,
   copy_storage : Heap \cup {NullBlock},
   passed : [name : Seq(Chars), static : BOOLEAN, arg_name : Seq(Seq(Chars)),
             kind : Kinds, text : Seq(Chars), id : IdArguments,
             serial : Nat, process : Processes]]

\* Every variable holds a value of its type; only an event with an id is
\* told to mangle it, and an event without one carries TraceID::NONE.
EventDataTypeOK ==
  /\ memory \in [Blocks -> Seq(Chars \cup {NUL})]
  /\ allocated \in [Heap -> Nat]
  /\ logged_events_ \in Seq(Events)
  /\ flush_events_ \in Seq(Events)
  /\ \A e \in ToSet(logged_events_) \cup ToSet(flush_events_) :
       "HAS_ID" \notin e.flags => e.flags = {} /\ e.trace_id = NONE
  /\ process_id_ \in Processes
  /\ process_id_hash_ \in Ids
  /\ counter \in Nat
  /\ ids \in Nat
  /\ recorded \in 0..MaxEvents
  /\ switches \in 0..MaxSwitches

Kept == logged_events_ \o flush_events_

\* However events are erased, moved, swapped and cleared, a heap block is
\* allocated exactly while one event owns it, and no two own the same
\* (the unique_ptr of trace_event.hpp:142 under trace_log.cpp:181, 210, 211).
StorageOwned ==
  /\ \A i, j \in 1..Len(Kept) :
       i # j /\ Kept[i].copy_storage = Kept[j].copy_storage => Kept[i].copy_storage = NullBlock
  /\ \A h \in Heap : memory[h] # <<>> <=> h \in Storage(Kept)

\* The copies of a call fill what accumulate_size summed up to the last byte,
\* which terminates the last of them (trace_log.hpp:69-88, 225-254), and the
\* thread's name stays inside its 32 bytes (trace_log.cpp:283-287).
CopiesFit ==
  \A h \in Heap : memory[h] # <<>> =>
    Len(memory[h]) = allocated[h] /\ Last(memory[h]) = NUL

\* To a string literal, or into the storage of the event itself.
PointsHome(e, p) ==
  \/ p = NullPointer
  \/ p.block \in Static
  \/ p.block = e.copy_storage /\ p.offset < Len(memory[p.block])

\* As long as an event is kept, its pointers refer to string literals or into
\* its own storage; the name of the event is excepted if it was marked to be
\* copied (trace_event.hpp:84-106, trace_log.hpp:349-356).
NoDanglingRead ==
  \A e \in ToSet(Kept) :
    /\ e.passed.static => PointsHome(e, e.name)
    /\ PointsHome(e, e.arg_name)
    /\ PointsHome(e, e.arg_value)

\* What is printed is what the caller passed when it recorded the event, be
\* the buffers reused, other events erased or the log flushed meanwhile.  The
\* name of an event is excepted if it was in a buffer: its copy marker has no
\* effect (trace_log.hpp:289-317, 319-357, trace_event.cpp:41-66).
PrintedAsPassed ==
  \A p \in printed :
    /\ p.of.static => p.name = p.of.name
    /\ Len(p.args) = Len(p.of.arg_name)
    /\ \A i \in 1..Len(p.args) :
         p.args[i] = [name |-> p.of.arg_name[i], value |-> FormatValue(p.of.kind, p.of.text)]

\* "Marker for required deep copy and memory to be allocated, for use of
\* non-static or non-NULL terminated strings" (trace_log.hpp:40-41): a name
\* that was marked to be copied is printed as it was when the event was
\* recorded, whatever is in the caller's buffer by then.
NamePrintedAsPassed == \A p \in printed : p.name = p.of.name

\* "Small helper class to ensure quoted JSON strings" (json_formatter.hpp:18):
\* a reader gets back the text a caller passed, unless it holds a control
\* character without an escape of its own, which arrives twice.
TextReadsBack ==
  \A p \in printed : \A i \in 1..Len(p.args) :
    p.of.kind = "text" /\ "control" \notin ToSet(p.of.text)
    => ReadsAs(p.args[i].value.text, p.of.text)

\* "If it's a pointer, the bits will be XOR-ed with a hash of the process ID
\* so that the same pointer on two different processes will not collide"
\* (event_trace.hpp:156-157): pointers agree within a process exactly if
\* their ids do, and one pointer has two ids in two processes.
PointerIdsApart ==
  \A p, q \in {r \in printed : r.of.id.kind = "pointer"} :
    /\ p.of.process = q.of.process => (p.id = q.id <=> p.of.id = q.of.id)
    /\ p.of.process # q.of.process /\ p.of.id = q.of.id => p.id # q.id

\* next_global gives no id twice before its counter has gone round
\* (trace_id.hpp:65-74), also when events are dropped in between.
GlobalIdsDistinct ==
  \A p, q \in {r \in printed : r.of.id.kind = "global"} :
    p.of.serial < q.of.serial /\ q.of.serial - p.of.serial < PowerOf2[Width] => p.id # q.id

=============================================================================
