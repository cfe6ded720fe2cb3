------------------------------ MODULE Category ------------------------------
(***************************************************************************)
(* ibis::tool::event_trace::category: the registry of categories and the   *)
(* proxies that refer into it.                                             *)
(*                                                                         *)
(* Every tracing macro gets a proxy once and keeps it in a static variable *)
(* for good; the proxy holds a reference to the bool of its entry.  Names  *)
(* are looked up and entered under the mutex; the filter is replaced and   *)
(* applied, and lists are appended, without it.  `pc' is where a thread    *)
(* stands:                                                                 *)
(*                                                                         *)
(*   create    in get_proxy, holds the mutex, has asked the filter         *)
(*   assigning in set_filter, some of the filter has been replaced         *)
(*   assigned  in set_filter, all of it is replaced and not yet applied    *)
(*   apply     in the loop of apply_filter                                 *)
(*                                                                         *)
(* Who reads the filter while it is being replaced may see any verdict.    *)
(* Two races of the code are narrower here than in C++: of two filters     *)
(* that are being assigned at once the later one is in force, and the loop *)
(* of apply_filter changes nothing once the vector has moved away from it. *)
(***************************************************************************)
EXTENDS CategoryFilter, FiniteSets

CONSTANTS
  Threads,         \* threads that reach tracing macros
  Configurers,     \* those that also set filters and append lists
  NoThread,        \* owner of an unlocked mutex
  MAX_CATEGORIES,  \* category.hpp: entries the vector is reserved for
  Texts,           \* filter texts in use
  Lists,           \* lists passed to append
  MaxAppends       \* bound: calls of append

ASSUME CategoryAssumption ==
  /\ IsFiniteSet(Threads)
  /\ Configurers \subseteq Threads
  /\ NoThread \notin Threads
  /\ MAX_CATEGORIES \in Nat \ {0}
  /\ Texts \subseteq Seq(Tokens)
  /\ \A text \in Texts : WellDefined(text)
  /\ Lists \subseteq Seq([name : Names, enabled : BOOLEAN])
  /\ \A list \in Lists : Len(list) <= MAX_CATEGORIES

VARIABLES
  mutex,
  my_categories,    \* vector of entries
  capacity,         \* of the vector
  storage,          \* ghost: the number of times the vector was moved
  category_filter_, \* regex_list of the filter in force
  filter_text,      \* its text
  proxies,          \* the proxies handed out so far
  pc,
  local,            \* local variables of the call in progress
  appends,          \* ghost: calls of append
  overlapped        \* ghost: since a filter was last set, calls of get_proxy,
                    \* set_filter or append have overlapped with its setting,
                    \* or it was set while others were at work

registry == <<my_categories, capacity, storage>>
filterVars == <<category_filter_, filter_text>>
catVars == <<mutex, registry, filterVars, proxies, pc, local, appends, overlapped>>

Places == {"idle", "create", "assigning", "assigned", "apply"}

NoLocal == [name |-> "", enable |-> FALSE, next |-> 0, end |-> 0, storage |-> 0]

\* `given': the state comes from append and no filter has spoken since.
Entry(name, enabled, given) == [name |-> name, enabled |-> enabled, given |-> given]

\* Mutant: indices counted from 0.
ProxyFromZero(name, at) == [name |-> name, at |-> at - 1, storage |-> storage']

\* A proxy: the index of its entry, 0 for the entry that stands for all
\* categories beyond the limit, and the storage the entry was in.
Proxy(name, at) == [name |-> name, at |-> at, storage |-> storage']

CategoryInit ==
  /\ mutex = NoThread
  /\ my_categories = <<>>
  /\ capacity = MAX_CATEGORIES
  /\ storage = 0
  /\ category_filter_ = <<>>
  /\ filter_text = <<>>
  /\ proxies = {}
  /\ pc = [t \in Threads |-> "idle"]
  /\ local = [t \in Threads |-> NoLocal]
  /\ appends = 0
  /\ overlapped = FALSE

Others(t) == {pc[u] : u \in Threads \ {t}}

\* Setting a filter.
Setting == {"assigning", "assigned", "apply"}

\* What result_of may return to t.
Verdicts(t, name) ==
  IF "assigning" \in Others(t) THEN [match : BOOLEAN, enable : BOOLEAN]
  ELSE {result_of(category_filter_, name)}

\* new entries at the end; beyond its capacity the vector moves.
Extend(entries) ==
  LET size == Len(my_categories) + Len(entries)
  IN  /\ my_categories' = my_categories \o entries
      /\ IF size <= capacity
         THEN UNCHANGED <<capacity, storage>>
         ELSE /\ capacity' = Len(my_categories) + Max({Len(my_categories), Len(entries)})
              /\ storage' = storage + 1

\* Mutant: the predicate of the search accepts every entry.
KnownAny(name) == 1..Len(my_categories)

\* Mutant: an off-by-one at the limit.
RoomAtLimit == Len(my_categories) <= MAX_CATEGORIES

\* Mutant: get_proxy without its scoped_lock.
LockNothing(t) == mutex = NoThread /\ UNCHANGED mutex

Lock(t)  == mutex = NoThread /\ mutex' = t
RoomLeft == Len(my_categories) < MAX_CATEGORIES
Known(name) == {i \in 1..Len(my_categories) : my_categories[i].name = name}

-----------------------------------------------------------------------------
(* get_proxy                                                               *)

\* An entry of that name exists: the first one is taken.
GetKnown(t, name) ==
  /\ pc[t] = "idle"
  /\ mutex = NoThread
  /\ Known(name) # {}
  /\ UNCHANGED <<mutex, registry, filterVars, pc, local, appends, overlapped>>
  /\ proxies' = proxies \cup {Proxy(name, Min(Known(name)))}

\* The registry is full: the macro gets the disabled entry.
GetExhausted(t, name) ==
  /\ pc[t] = "idle"
  /\ mutex = NoThread
  /\ Known(name) = {}
  /\ ~RoomLeft
  /\ UNCHANGED <<mutex, registry, filterVars, pc, local, appends, overlapped>>
  /\ proxies' = proxies \cup {Proxy(name, 0)}

\* The filter decides about a category that does not exist yet.
GetVerdict(t, name) ==
  /\ pc[t] = "idle"
  /\ Lock(t)
  /\ Known(name) = {}
  /\ RoomLeft
  /\ pc' = [pc EXCEPT ![t] = "create"]
  /\ \E verdict \in Verdicts(t, name) :
       local' = [local EXCEPT ![t] =
         [NoLocal EXCEPT !.name = name, !.enable = verdict.enable]]
  /\ overlapped' = (overlapped \/ Others(t) \cap Setting # {})
  /\ UNCHANGED <<registry, filterVars, proxies, appends>>

GetCreate(t) ==
  /\ pc[t] = "create"
  /\ Extend(<<Entry(local[t].name, local[t].enable, FALSE)>>)
  /\ proxies' = proxies \cup {Proxy(local[t].name, Len(my_categories'))}
  /\ mutex' = NoThread
  /\ pc' = [pc EXCEPT ![t] = "idle"]
  /\ local' = [local EXCEPT ![t] = NoLocal]
  /\ UNCHANGED <<filterVars, appends, overlapped>>

-----------------------------------------------------------------------------
(* set_filter and SetEnabled, append                                       *)

\* The members of the filter are assigned one after the other.
SetFilter(t, text) ==
  /\ pc[t] = "idle"
  /\ category_filter_' = RegexList(text)
  /\ filter_text' = text
  /\ pc' = [pc EXCEPT ![t] = "assigning"]
  /\ overlapped' = (Others(t) \cap ({"create"} \cup Setting) # {})
  /\ UNCHANGED <<mutex, registry, proxies, local, appends>>

SetFilterDone(t) ==
  /\ pc[t] = "assigning"
  /\ pc' = [pc EXCEPT ![t] = "assigned"]
  /\ UNCHANGED <<mutex, registry, filterVars, proxies, local, appends, overlapped>>

\* Mutant: the loop stops before the last entry.
ApplyStartShort(t) ==
  /\ pc[t] = "assigned"
  /\ pc' = [pc EXCEPT ![t] = "apply"]
  /\ local' = [local EXCEPT ![t] =
       [NoLocal EXCEPT !.next = 1, !.end = Len(my_categories) - 1, !.storage = storage]]
  /\ UNCHANGED <<mutex, registry, filterVars, proxies, appends, overlapped>>

\* The range-for takes the end of the vector once.
ApplyStart(t) ==
  /\ pc[t] = "assigned"
  /\ pc' = [pc EXCEPT ![t] = "apply"]
  /\ local' = [local EXCEPT ![t] =
       [NoLocal EXCEPT !.next = 1, !.end = Len(my_categories), !.storage = storage]]
  /\ UNCHANGED <<mutex, registry, filterVars, proxies, appends, overlapped>>

\* An entry the filter matches takes its verdict.  If the vector has moved,
\* the loop still walks over the memory it left.
ApplyEntry(t) ==
  LET i == local[t].next
  IN  /\ pc[t] = "apply"
      /\ i <= local[t].end
      /\ \E verdict \in Verdicts(t, my_categories[i].name) :
           my_categories' =
             IF verdict.match /\ local[t].storage = storage
             THEN [my_categories EXCEPT ![i] = Entry(@.name, verdict.enable, FALSE)]
             ELSE my_categories
      /\ local' = [local EXCEPT ![t].next = @ + 1]
      /\ UNCHANGED <<mutex, capacity, storage, filterVars, proxies, pc, appends, overlapped>>

ApplyDone(t) ==
  /\ pc[t] = "apply"
  /\ local[t].next > local[t].end
  /\ pc' = [pc EXCEPT ![t] = "idle"]
  /\ local' = [local EXCEPT ![t] = NoLocal]
  /\ UNCHANGED <<mutex, registry, filterVars, proxies, appends, overlapped>>

\* Entries with the states given, whether or not their names are known.
AppendList(t, list) ==
  /\ pc[t] = "idle"
  /\ appends < MaxAppends
  /\ appends' = appends + 1
  /\ Extend([i \in 1..Len(list) |-> Entry(list[i].name, list[i].enabled, TRUE)])
  /\ overlapped' = (overlapped \/ Others(t) \cap ({"create"} \cup Setting) # {})
  /\ UNCHANGED <<mutex, filterVars, proxies, pc, local>>

-----------------------------------------------------------------------------
Configure(t) ==
  \/ \E text \in Texts : SetFilter(t, text)
  \/ SetFilterDone(t)
  \/ ApplyStart(t)
  \/ ApplyEntry(t)
  \/ ApplyDone(t)
  \/ \E list \in Lists : AppendList(t, list)

Get(t) ==
  \/ \E name \in Names : GetKnown(t, name) \/ GetExhausted(t, name) \/ GetVerdict(t, name)
  \/ GetCreate(t)

CategoryNext ==
  \/ \E t \in Threads : Get(t)
  \/ \E t \in Configurers : Configure(t)

CategorySpec == CategoryInit /\ [][CategoryNext]_catVars

-----------------------------------------------------------------------------
(* Properties                                                              *)

Entries == [name : Names, enabled : BOOLEAN, given : BOOLEAN]

CategoryTypeOK ==
  /\ mutex \in Threads \cup {NoThread}
  /\ my_categories \in Seq(Entries)
  /\ capacity \in Nat /\ storage \in Nat
  /\ category_filter_ \in Seq(Tokens)
  /\ filter_text \in Seq(Tokens)
  /\ proxies \subseteq [name : Names, at : Nat, storage : Nat]
  /\ pc \in [Threads -> Places]
  /\ local \in [Threads -> [name : Names \cup {""}, enable : BOOLEAN, next : Nat,
                            end : Nat, storage : Nat]]
  /\ overlapped \in BOOLEAN

\* A proxy refers to an entry of its own name for as long as the program
\* runs (category.hpp:195-203), while the vector does not outgrow what the
\* constructor reserved (category.cpp:24); no entry is ever erased or moved
\* by the applications of a filter that go on without the mutex.
ProxiesReferToTheirEntry ==
  storage = 0 =>
    \A p \in proxies : p.at # 0 =>
      p.at <= Len(my_categories) /\ my_categories[p.at].name = p.name

\* get_proxy never creates more than MAX_CATEGORIES entries, however many
\* threads get at the limit at once (category.cpp:82), and the vector keeps
\* the place the constructor reserved for it (24) for as long as it holds no
\* more: what moves it away from the proxies is a list that append adds to
\* entries there is no room for, however few of either there are.
ReserveSuffices ==
  /\ appends = 0 => Len(my_categories) <= MAX_CATEGORIES
  /\ Len(my_categories) <= MAX_CATEGORIES => storage = 0

\* Threads that reach macros of the same category at once share one entry:
\* the search and the insertion are one critical section (category.cpp:68-95).
OneEntryPerName ==
  appends = 0 =>
    \A i, j \in 1..Len(my_categories) :
      my_categories[i].name = my_categories[j].name => i = j

\* An entry has the state the filter gives it, or append did.
Agrees(i) ==
  LET verdict == result_of(category_filter_, my_categories[i].name)
  IN  verdict.match /\ ~my_categories[i].given => my_categories[i].enabled = verdict.enable

\* Once a filter has been set, a category it matches has the state it says
\* (category.hpp:111-114), whether the category existed when the filter was
\* applied or came later, unless append gave the state.  A call that overlaps
\* with the setting may leave a category with the verdict of an old filter
\* (category.cpp:34-35, 86-93); the next filter that is set while no other
\* call is under way puts every category right again.
FilterInForce ==
  ~overlapped /\ (\A t \in Threads : pc[t] \in {"idle", "create"}) =>
    \A i \in 1..Len(my_categories) : Agrees(i)

\* "Initializing from list exceeds capacity!" (category.cpp:116-117): a list
\* that passes this assertion fits, so proxies are never left behind in
\* memory the vector has given back.
ProxiesStayValid ==
  \A p \in proxies : p.at # 0 => p.storage = storage

=============================================================================
