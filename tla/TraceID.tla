------------------------------- MODULE TraceID -------------------------------
(***************************************************************************)
(* TraceID: the ids that tie events together.  An id is the set of the     *)
(* bits that are one, so that ^ is the symmetric difference.  A macro      *)
(* takes no id, an integer, a pointer, or what next_global returns; only   *)
(* a pointer is mangled with the hash of the process id.                   *)
(***************************************************************************)
EXTENDS Integers, FiniteSetsExt

CONSTANTS
  Width,  \* bits of TraceID::value_type: 64
  Seed    \* first number of a default-constructed std::mt19937_64

Bits == 0..(Width - 1)
Ids  == SUBSET Bits
NONE == {}

ASSUME TraceIDAssumption ==
  /\ Width \in Nat \ {0}
  /\ Seed \in Ids

IdArguments ==
  [kind : {"none", "global"}, value : {NONE}] \cup [kind : {"integer", "pointer"}, value : Ids]

\* Mutant: the macro forgets to or HAS_ID to the flags.
FlagsNoHasId(id) == IF id.kind = "pointer" THEN {"MANGLE_ID"} ELSE {}

\* The flags the macro passes on; TraceID's constructor adds MANGLE_ID.
Flags(id) ==
  {flag \in {"HAS_ID", "MANGLE_ID"} :
     \/ flag = "HAS_ID" /\ id.kind # "none"
     \/ flag = "MANGLE_ID" /\ id.kind = "pointer"}

\* Mutant: | in place of ^.
Or(a, b) == a \cup b

Xor(a, b) == SymDiff(a, b)

PowerOf2[i \in 0..Width] == IF i = 0 THEN 1 ELSE 2 * PowerOf2[i - 1]

BitsOf(n) == {i \in Bits : (n \div PowerOf2[i]) % 2 = 1}

\* next_global returns this and counts one on, in one atomic step.
next_global(counter) == Xor(Seed, BitsOf(counter))
Increment(counter)   == IF counter = PowerOf2[Width] - 1 THEN 0 ELSE counter + 1

\* The value a macro hands to AddTraceEvent.
IdValue(id, counter) == IF id.kind = "global" THEN next_global(counter) ELSE id.value

\* AddTraceEventInternal mangles the id of a pointer.
Mangled(value, flags, hash) == IF "MANGLE_ID" \in flags THEN Xor(value, hash) ELSE value

=============================================================================
