----------------------------- MODULE MCCategory -----------------------------
(* Small instances of Category for TLC.                                    *)
EXTENDS Category, TLC

Re(sign, finds) == [sign |-> sign, finds |-> finds, ok |-> TRUE]
NotRe == [sign |-> "", finds |-> {}, ok |-> FALSE]

\* One expression that enables, one that disables, one list in which two
\* expressions meet on a name, and the same with an expression in the middle
\* that is none, which takes the one before it away.
MCTexts == { <<Re("", {"a"})>>, <<Re("-", {"a", "b"})>>,
             <<Re("-", {"a"}), Re("+", {"a", "b"})>>,
             <<Re("-", {"a"}), NotRe, Re("+", {"a", "b"})>> }

MCLists == { <<[name |-> "a", enabled |-> FALSE], [name |-> "c", enabled |-> TRUE]>> }
=============================================================================
