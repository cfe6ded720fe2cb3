--------------------------- MODULE CategoryFilter ---------------------------
(***************************************************************************)
(* ibis::tool::event_trace::category_filter: a comma-separated list of     *)
(* regular expressions that enable or disable categories.                  *)
(*                                                                         *)
(* The text is abstracted to its tokens, and a token to what the filter    *)
(* does with it: its leading sign, the category names its expression is    *)
(* found in, and whether std::regex accepts it at all.                     *)
(***************************************************************************)
EXTENDS Integers, Sequences, SequencesExt, FiniteSetsExt

CONSTANT Names   \* names of categories

Tokens == [sign : {"", "+", "-"}, finds : SUBSET Names, ok : BOOLEAN]

\* The constructor takes one token after the other.  A token that
\* std::regex refuses is not appended, but the last element is popped.
AddToken(regex_list, token) ==
  IF token.ok THEN Append(regex_list, token) ELSE Front(regex_list)

RegexList(text) == FoldLeft(AddToken, <<>>, text)

\* The texts for which the constructor is defined: it never pops an empty
\* vector.
WellDefined(text) ==
  \A n \in 1..Len(text) :
    ~text[n].ok => RegexList(SubSeq(text, 1, n - 1)) # <<>>

Matching(regex_list, name) == {i \in 1..Len(regex_list) : name \in regex_list[i].finds}

\* The pair <match, enable>: the first expression found in the name decides.
result_of(regex_list, name) ==
  IF Matching(regex_list, name) = {}
  THEN [match |-> FALSE, enable |-> TRUE]
  ELSE [match |-> TRUE,
        enable |-> regex_list[Min(Matching(regex_list, name))].sign # "-"]

=============================================================================
