---------------------------- MODULE EventChannel ----------------------------
(***************************************************************************)
(* What TraceLog promises to a thread that records an event, free of       *)
(* locks, buffers and batches: a first-in first-out channel between        *)
(* AddTraceEvent and the output callback.                                  *)
(*                                                                         *)
(* An event is named by the order in which it was recorded.  Recorded      *)
(* events wait in `open`, where a threshold scope may still withdraw one;  *)
(* Flush commits all of them at once, and committed events are handed to   *)
(* the output callback in order, each exactly once.                        *)
(***************************************************************************)
EXTENDS Integers, Sequences, SequencesExt

VARIABLES
  next,       \* name of the next event to be recorded
  open,       \* recorded and not committed to a flush
  committed,  \* committed to a flush, not delivered
  delivered,  \* handed to the output callback
  withdrawn   \* set of the events a threshold scope took back

channelVars == <<next, open, committed, delivered, withdrawn>>

ChannelInit ==
  /\ next = 1
  /\ open = <<>>
  /\ committed = <<>>
  /\ delivered = <<>>
  /\ withdrawn = {}

\* n events are recorded together (n > 1 only for the metadata events).
Record(n) ==
  /\ open' = open \o [i \in 1..n |-> next + i - 1]
  /\ next' = next + n
  /\ UNCHANGED <<committed, delivered, withdrawn>>

\* The i-th open event is taken back and will never be delivered.
Withdraw(i) ==
  /\ open' = RemoveAt(open, i)
  /\ withdrawn' = withdrawn \cup {open[i]}
  /\ UNCHANGED <<next, committed, delivered>>

\* All open events are committed, behind those already committed.
Commit ==
  /\ committed' = committed \o open
  /\ open' = <<>>
  /\ UNCHANGED <<next, delivered, withdrawn>>

\* The n oldest committed events reach the output callback.
Deliver(n) ==
  /\ delivered' = delivered \o SubSeq(committed, 1, n)
  /\ committed' = SubSeq(committed, n + 1, Len(committed))
  /\ UNCHANGED <<next, open, withdrawn>>

ChannelNext ==
  \/ \E n \in 1..(next' - next) : Record(n)
  \/ \E i \in 1..Len(open) : Withdraw(i)
  \/ Commit
  \/ \E n \in 1..Len(committed) : Deliver(n)

ChannelSpec == ChannelInit /\ [][ChannelNext]_channelVars
=============================================================================
