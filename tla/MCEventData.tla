---------------------------- MODULE MCEventData ----------------------------
(* A small instance of EventData for TLC.                                  *)
EXTENDS EventData, TLC

CONSTANTS s1, b1, h1, h2, p1, p2

MCStaticText == [s \in {s1} |-> <<"x">>]
MCTexts == {<<"backslash", "quote">>, <<"control", "y">>}
MCThreadName == <<"t", "y">>
MCHash == p1 :> {0} @@ p2 :> {0, 1}

Literal   == [block |-> s1, whole |-> TRUE, marked |-> FALSE]
CopyOf    == [block |-> b1, whole |-> TRUE, marked |-> TRUE]
CopyOfCut == [block |-> b1, whole |-> FALSE, marked |-> TRUE]

Id(kind, value) == [kind |-> kind, value |-> value]
Call(name, arg_name, kind, arg_value, id) ==
  [name |-> name, arg_name |-> arg_name, kind |-> kind, arg_value |-> arg_value, id |-> id]

\* Counters and asynchronous events with ids, events with an argument whose
\* name, value or both are copied, and one whose own name is to be copied.
MCCalls ==
  { Call(Literal, NoString, "null", NoString, Id("pointer", {0})),
    Call(Literal, Literal, "number", NoString, Id("pointer", {1})),
    Call(Literal, NoString, "null", NoString, Id("global", NONE)),
    Call(Literal, CopyOf, "text", CopyOfCut, Id("none", NONE)),
    Call(Literal, CopyOfCut, "text", Literal, Id("integer", {0})),
    Call(CopyOf, Literal, "text", CopyOf, Id("none", NONE)) }

Symmetry == Permutations({h1, h2})
=============================================================================
