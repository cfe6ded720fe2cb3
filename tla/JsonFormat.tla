----------------------------- MODULE JsonFormat -----------------------------
(***************************************************************************)
(* How texts and argument values are printed, and how a reader of JSON     *)
(* takes them in.  A character is "quote", "backslash" or "newline" (each  *)
(* with an escape of its own), "control" (any other below 0x20) or plain.  *)
(* After a printed backslash stands the character it escapes, so the codes *)
(* n and u00XX are abstracted to what they denote.                         *)
(***************************************************************************)
EXTENDS Integers, Sequences, SequencesExt

NUL == "NUL"

\* What a trace_value holds, as far as it is printed differently: a text, a
\* number (also a bool or a pointer), or nothing (also a null pointer).
Kinds == {"text", "number", "null"}

ShortEscape == {"quote", "backslash", "newline"}

\* Mutant: only the quote is escaped.
EscapedQuote(c) == IF c = "quote" THEN <<"backslash", c>> ELSE <<c>>

\* A control character is printed escaped and then, since the branch goes
\* on, once more as it is.
Escaped(c) ==
  CASE c \in ShortEscape -> <<"backslash", c>>
    [] c = "control"     -> <<"backslash", c, c>>
    [] OTHER             -> <<c>>

jstring(s) == FlattenSeq([i \in 1..Len(s) |-> Escaped(s[i])])

\* A value that is no text is printed by its kind; "null" stands for an
\* empty value and for a null pointer of either type.
FormatValue(kind, text) ==
  [kind |-> kind, text |-> IF kind = "text" THEN jstring(text) ELSE <<>>]

-----------------------------------------------------------------------------
(* A reader of what stands between two quotes.                             *)

ReadChar(reader, c) ==
  IF reader.closed THEN reader
  ELSE IF reader.escaping \/ c \notin {"backslash", "quote"}
       THEN [reader EXCEPT !.text = Append(@, c), !.escaping = FALSE]
       ELSE [reader EXCEPT !.escaping = (c = "backslash"), !.closed = (c = "quote")]

ReadText(printed) ==
  FoldLeft(ReadChar, [text |-> <<>>, escaping |-> FALSE, closed |-> FALSE], printed)

\* The reader gets the text and finds the closing quote where it is.
ReadsAs(printed, text) ==
  ReadText(printed) = [text |-> text, escaping |-> FALSE, closed |-> FALSE]

=============================================================================
