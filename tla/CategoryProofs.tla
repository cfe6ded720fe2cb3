--------------------------- MODULE CategoryProofs ---------------------------
(***************************************************************************)
(* The registry of categories for any number of threads, names and         *)
(* filters: names are unique, the reserve suffices, proxies refer to       *)
(* entries of their name, and entries have the state the filter gives.     *)
(***************************************************************************)
EXTENDS Category, DataLemmas

Locals ==
  [name : Names \cup {""}, enable : BOOLEAN, next : Nat, end : Nat, storage : Nat]

\* The types of what the registry is made of; what the filter is made of is
\* computed by a fold, and the registry does not depend on it.
RegistryTypeOK ==
  /\ my_categories \in Seq(Entries)
  /\ capacity \in Nat /\ storage \in Nat /\ appends \in Nat
  /\ proxies \subseteq [name : Names, at : Nat, storage : Nat]
  /\ pc \in [Threads -> Places]
  /\ local \in [Threads -> Locals]

\* Whoever creates an entry holds the mutex, and nobody else has entered one
\* in the meantime.
Creating ==
  \A t \in Threads : pc[t] = "create" =>
    /\ mutex = t
    /\ local[t].name \in Names
    /\ appends = 0 => RoomLeft /\ Known(local[t].name) = {}

\* Until the vector has moved it holds what it was reserved for, and having
\* moved it holds more.
Reserved ==
  /\ appends = 0 => Len(my_categories) <= MAX_CATEGORIES
  /\ storage = 0 => capacity = MAX_CATEGORIES /\ Len(my_categories) <= capacity
  /\ storage # 0 => Len(my_categories) > MAX_CATEGORIES

RegistryInv ==
  RegistryTypeOK /\ Creating /\ Reserved /\ OneEntryPerName /\ ProxiesReferToTheirEntry

\* The verdict of a filter is a Boolean, whatever the filter.
LEMMA VerdictType ==
  ASSUME NEW t, NEW name, NEW verdict \in Verdicts(t, name)
  PROVE  verdict.match \in BOOLEAN /\ verdict.enable \in BOOLEAN
<1>1. /\ result_of(category_filter_, name).match \in BOOLEAN
      /\ result_of(category_filter_, name).enable \in BOOLEAN
  BY DEF result_of
<1>2. CASE "assigning" \in Others(t)
  BY <1>2 DEF Verdicts
<1>3. CASE "assigning" \notin Others(t)
  BY <1>1, <1>3 DEF Verdicts
<1> QED BY <1>2, <1>3

\* Unless somebody is assigning a filter, it is that of the filter in force.
LEMMA SettledVerdict ==
  ASSUME NEW t, NEW name, NEW verdict \in Verdicts(t, name),
         \A u \in Threads : u # t => pc[u] # "assigning"
  PROVE  verdict = result_of(category_filter_, name)
BY DEF Verdicts, Others

\* New entries leave the ones there are where they are.
LEMMA ExtendProperties ==
  ASSUME RegistryTypeOK, NEW entries \in Seq(Entries), Extend(entries)
  PROVE  /\ my_categories' \in Seq(Entries) /\ capacity' \in Nat /\ storage' \in Nat
         /\ Len(my_categories') = Len(my_categories) + Len(entries)
         /\ \A i \in 1..Len(my_categories) :
              i \in 1..Len(my_categories') /\ my_categories'[i] = my_categories[i]
         /\ \A i \in 1..Len(my_categories') : i \notin 1..Len(my_categories) =>
              /\ i - Len(my_categories) \in 1..Len(entries)
              /\ my_categories'[i] = entries[i - Len(my_categories)]
         /\ storage' = 0 => storage = 0
         /\ Len(my_categories') <= capacity => UNCHANGED <<capacity, storage>>
         /\ Len(my_categories') > capacity => storage' # 0
<1>1. /\ my_categories \in Seq(Entries) /\ Len(my_categories) \in Nat /\ Len(entries) \in Nat
      /\ my_categories' = my_categories \o entries
      /\ capacity \in Nat /\ storage \in Nat
  BY LenProperties DEF RegistryTypeOK, Extend
<1>2. /\ my_categories' \in Seq(Entries)
      /\ Len(my_categories') = Len(my_categories) + Len(entries)
      /\ \A i \in 1..(Len(my_categories) + Len(entries)) :
           my_categories'[i] = IF i <= Len(my_categories) THEN my_categories[i]
                               ELSE entries[i - Len(my_categories)]
  BY <1>1, ConcatProperties
<1>3. Max({Len(my_categories), Len(entries)}) \in Nat
  <2> DEFINE m == Len(my_categories)
             n == Len(entries)
  <2>1. \E x \in {m, n} : \A y \in {m, n} : x >= y
    BY <1>1
  <2>2. Max({m, n}) \in {m, n}
    <3> HIDE DEF m, n
    <3> QED BY <2>1 DEF Max
  <2> QED BY <1>1, <2>2
<1>4. /\ capacity' \in Nat /\ storage' \in Nat
      /\ storage' = 0 => storage = 0
      /\ Len(my_categories') <= capacity => UNCHANGED <<capacity, storage>>
      /\ Len(my_categories') > capacity => storage' # 0
  BY <1>1, <1>2, <1>3 DEF Extend
<1> QED BY <1>1, <1>2, <1>4

\* The loop of apply_filter counts on.
LEMMA NextType ==
  ASSUME NEW l \in Locals
  PROVE  /\ [l EXCEPT !.next = @ + 1] \in Locals
         /\ [l EXCEPT !.next = @ + 1].name = l.name
<1>1. l.next \in Nat
  BY DEF Locals
<1>2. l.next + 1 \in Nat
  BY <1>1
<1>3. \A n \in Nat : [l EXCEPT !.next = n] \in Locals /\ [l EXCEPT !.next = n].name = l.name
  BY DEF Locals
<1> QED BY <1>2, <1>3

\* A step of apply_filter leaves every entry its name.
LEMMA ApplyProperties ==
  ASSUME RegistryTypeOK, NEW t \in Threads, ApplyEntry(t)
  PROVE  /\ my_categories' \in Seq(Entries)
         /\ Len(my_categories') = Len(my_categories)
         /\ \A i \in 1..Len(my_categories) : my_categories'[i].name = my_categories[i].name
<1> DEFINE i == local[t].next
           s == my_categories
<1>0. PICK verdict \in Verdicts(t, s[i].name) :
        s' = IF verdict.match /\ local[t].storage = storage
             THEN [s EXCEPT ![i] = Entry(@.name, verdict.enable, FALSE)]
             ELSE s
  BY DEF ApplyEntry
<1> DEFINE e == Entry(s[i].name, verdict.enable, FALSE)
<1>1. s \in Seq(Entries) /\ s \in [1..Len(s) -> Entries] /\ Len(s) \in Nat
  BY LenProperties, SeqDef DEF RegistryTypeOK
<1>2. s' = s \/ s' = [s EXCEPT ![i] = e]
  BY <1>0
<1>3. CASE s' = s
  BY <1>1, <1>3
<1>4. CASE s' = [s EXCEPT ![i] = e]
  <2>1. CASE i \in 1..Len(s)
    <3>1. s[i] \in Entries /\ verdict.enable \in BOOLEAN
      BY <1>1, <2>1, VerdictType
    <3> HIDE DEF i
    <3>2. e \in Entries /\ e.name = s[i].name
      BY <3>1 DEF Entries, Entry
    <3>3. s' \in [1..Len(s) -> Entries]
      BY <1>1, <1>4, <3>2
    <3>4. s' \in Seq(Entries) /\ Len(s') = Len(s)
      BY <1>1, <3>3, SeqDef, LenProperties
    <3>5. \A j \in 1..Len(s) : s'[j].name = s[j].name
      BY <1>1, <1>4, <3>2
    <3> QED BY <3>4, <3>5
  <2>2. CASE i \notin 1..Len(s)
    <3>1. s' = s
      <4> HIDE DEF i, e
      <4> QED BY <1>1, <1>4, <2>2
    <3> QED BY <1>1, <3>1
  <2> QED BY <2>1, <2>2
<1> QED BY <1>2, <1>3, <1>4

\* A step that leaves the registry alone and hands out no proxy.
LEMMA RegistryKept ==
  ASSUME RegistryInv, UNCHANGED <<registry, proxies, appends>>,
         pc' \in [Threads -> Places],
         local' \in [Threads -> Locals],
         \A t \in Threads : pc'[t] = "create" =>
           \/ pc[t] = "create" /\ mutex' = mutex /\ local'[t] = local[t]
           \/ /\ mutex' = t /\ local'[t].name \in Names
              /\ RoomLeft /\ Known(local'[t].name) = {}
  PROVE  RegistryInv'
<1>1. RegistryTypeOK'
  BY DEF RegistryInv, RegistryTypeOK, registry
<1>2. Creating'
  BY DEF RegistryInv, Creating, registry, RoomLeft, Known
<1>3. Reserved' /\ OneEntryPerName' /\ ProxiesReferToTheirEntry'
  BY DEF RegistryInv, Reserved, OneEntryPerName, ProxiesReferToTheirEntry, registry
<1> QED BY <1>1, <1>2, <1>3 DEF RegistryInv

\* A step in which entries keep their names and places, and no other is made.
LEMMA NamesKept ==
  ASSUME RegistryInv, my_categories' \in Seq(Entries),
         Len(my_categories') = Len(my_categories),
         \A i \in 1..Len(my_categories) : my_categories'[i].name = my_categories[i].name,
         UNCHANGED <<capacity, storage, appends, proxies, mutex, pc>>,
         local' \in [Threads -> Locals],
         \A t \in Threads : local'[t].name = local[t].name
  PROVE  RegistryInv'
<1>1. RegistryTypeOK'
  BY DEF RegistryInv, RegistryTypeOK
<1>2. RoomLeft' <=> RoomLeft
  BY DEF RoomLeft
<1>3. ASSUME NEW name
      PROVE  Known(name)' = Known(name)
  BY DEF Known
<1>4. Creating'
  BY <1>2, <1>3 DEF RegistryInv, Creating
<1>5. Reserved'
  BY DEF RegistryInv, Reserved
<1>6. OneEntryPerName'
  BY DEF RegistryInv, OneEntryPerName
<1>7. ProxiesReferToTheirEntry'
  <2> SUFFICES ASSUME storage = 0, NEW p \in proxies, p.at # 0
               PROVE  p.at <= Len(my_categories) /\ my_categories'[p.at].name = p.name
    BY DEF ProxiesReferToTheirEntry
  <2>1. p.at <= Len(my_categories) /\ my_categories[p.at].name = p.name
    BY DEF RegistryInv, ProxiesReferToTheirEntry
  <2>2. p.at \in 1..Len(my_categories)
    BY <2>1, LenProperties DEF RegistryInv, RegistryTypeOK
  <2> QED BY <2>1, <2>2
<1> QED BY <1>1, <1>4, <1>5, <1>6, <1>7 DEF RegistryInv

\* A proxy that is handed out refers to the first entry of its name, or to none.
LEMMA ProxyHandedOut ==
  ASSUME RegistryInv, NEW name \in Names, NEW at \in Nat,
         at # 0 => at \in 1..Len(my_categories) /\ my_categories[at].name = name,
         UNCHANGED <<mutex, registry, pc, local, appends>>,
         proxies' = proxies \cup {Proxy(name, at)}
  PROVE  RegistryInv'
<1>1. Proxy(name, at) = [name |-> name, at |-> at, storage |-> storage] /\ storage \in Nat
  BY DEF Proxy, registry, RegistryInv, RegistryTypeOK
<1>2. RegistryTypeOK'
  BY <1>1 DEF RegistryInv, RegistryTypeOK, registry
<1>3. Creating' /\ Reserved' /\ OneEntryPerName'
  BY DEF RegistryInv, Creating, Reserved, OneEntryPerName, registry, RoomLeft, Known
<1>4. ProxiesReferToTheirEntry'
  <2> SUFFICES ASSUME storage = 0, NEW p \in proxies', p.at # 0
               PROVE  p.at <= Len(my_categories) /\ my_categories[p.at].name = p.name
    BY DEF ProxiesReferToTheirEntry, registry
  <2>1. CASE p \in proxies
    BY <2>1 DEF RegistryInv, ProxiesReferToTheirEntry
  <2>2. CASE p = Proxy(name, at)
    <3>1. p.at = at /\ p.name = name
      BY <1>1, <2>2
    <3>2. at <= Len(my_categories)
      BY <3>1
    <3> QED BY <3>1, <3>2
  <2> QED BY <2>1, <2>2
<1> QED BY <1>2, <1>3, <1>4 DEF RegistryInv

LEMMA KnownStep ==
  ASSUME RegistryInv, NEW t \in Threads, NEW name \in Names,
         GetKnown(t, name) \/ GetExhausted(t, name)
  PROVE  RegistryInv'
<1>1. CASE GetKnown(t, name)
  <2>1. Len(my_categories) \in Nat
    BY LenProperties DEF RegistryInv, RegistryTypeOK
  <2>2. Known(name) \subseteq Nat /\ Known(name) # {}
    BY <1>1, <2>1 DEF Known, GetKnown
  <2>3. Min(Known(name)) \in Known(name)
    BY <2>2, MinProperties
  <2>4. /\ Min(Known(name)) \in 1..Len(my_categories)
        /\ my_categories[Min(Known(name))].name = name
    BY <2>3 DEF Known
  <2>5. Min(Known(name)) \in Nat
    BY <2>2, <2>3
  <2> QED BY <1>1, <2>4, <2>5, ProxyHandedOut DEF GetKnown
<1>2. CASE GetExhausted(t, name)
  BY <1>2, ProxyHandedOut DEF GetExhausted
<1> QED BY <1>1, <1>2

\* The new entry is the only one of its name.
LEMMA CreateStep ==
  ASSUME RegistryInv, NEW t \in Threads, GetCreate(t)
  PROVE  RegistryInv'
<1> DEFINE name == local[t].name
           e == Entry(name, local[t].enable, FALSE)
           n == Len(my_categories)
<1>1. name \in Names /\ mutex = t /\ (appends = 0 => RoomLeft /\ Known(name) = {})
  BY DEF RegistryInv, Creating, GetCreate
<1>2. e \in Entries /\ e.name = name
  <2>1. local[t] \in Locals
    BY DEF RegistryInv, RegistryTypeOK
  <2> QED BY <1>1, <2>1 DEF Entry, Entries, Locals
<1>3. n \in Nat /\ MAX_CATEGORIES \in Nat
  BY LenProperties, CategoryAssumption DEF RegistryInv, RegistryTypeOK
<1>0. Extend(<<e>>)
  BY DEF GetCreate
<1> HIDE DEF e
<1>4. /\ Len(<<e>>) = 1 /\ <<e>>[1] = e /\ <<e>> \in Seq(Entries)
      /\ Extend(<<e>>)
  BY <1>0, <1>2
<1>5. /\ my_categories' \in Seq(Entries) /\ capacity' \in Nat /\ storage' \in Nat
      /\ Len(my_categories') = n + 1
      /\ \A i \in 1..n : i \in 1..Len(my_categories') /\ my_categories'[i] = my_categories[i]
      /\ \A i \in 1..Len(my_categories') : i \notin 1..n =>
           i - n \in 1..1 /\ my_categories'[i] = <<e>>[i - n]
      /\ storage' = 0 => storage = 0
      /\ Len(my_categories') <= capacity => UNCHANGED <<capacity, storage>>
      /\ Len(my_categories') > capacity => storage' # 0
  BY <1>4, ExtendProperties DEF RegistryInv
<1> HIDE DEF n, name
<1>6. my_categories'[n + 1] = e
  <2>1. n + 1 \in 1..Len(my_categories') /\ n + 1 \notin 1..n /\ n + 1 - n = 1
    BY <1>3, <1>5
  <2> QED BY <1>4, <1>5, <2>1
<1>7. /\ proxies' = proxies \cup {Proxy(name, n + 1)}
      /\ pc' = [pc EXCEPT ![t] = "idle"] /\ local' = [local EXCEPT ![t] = NoLocal]
      /\ appends' = appends
  BY <1>5 DEF GetCreate, name
<1>8. Proxy(name, n + 1) = [name |-> name, at |-> n + 1, storage |-> storage']
  BY DEF Proxy
<1>9. RegistryTypeOK'
  <2>1. NoLocal \in Locals
    BY DEF NoLocal, Locals
  <2> QED BY <1>1, <1>3, <1>5, <1>7, <1>8, <2>1 DEF RegistryInv, RegistryTypeOK, Places
<1>10. Creating'
  <2>1. \A u \in Threads : pc'[u] # "create"
    BY <1>1, <1>7 DEF RegistryInv, Creating, RegistryTypeOK
  <2> QED BY <2>1 DEF Creating
<1>11. Reserved'
  BY <1>1, <1>3, <1>5, <1>7 DEF RegistryInv, Reserved, RoomLeft, n
<1>12. OneEntryPerName'
  <2> SUFFICES ASSUME appends = 0, NEW i \in 1..Len(my_categories'),
                      NEW j \in 1..Len(my_categories'),
                      my_categories'[i].name = my_categories'[j].name
               PROVE  i = j
    BY <1>7 DEF OneEntryPerName
  <2>1. \A k \in 1..n : my_categories[k].name # name
    BY <1>1 DEF Known, n, name
  <2>2. \A k \in 1..Len(my_categories') : k \in 1..n \/ k = n + 1
    BY <1>3, <1>5
  <2>3. \A k, l \in 1..n : my_categories[k].name = my_categories[l].name => k = l
    BY DEF RegistryInv, OneEntryPerName, n
  <2> QED BY <1>2, <1>5, <1>6, <2>1, <2>2, <2>3
<1>13. ProxiesReferToTheirEntry'
  <2> SUFFICES ASSUME storage' = 0, NEW p \in proxies', p.at # 0
               PROVE  p.at <= Len(my_categories') /\ my_categories'[p.at].name = p.name
    BY DEF ProxiesReferToTheirEntry
  <2>1. CASE p \in proxies
    <3>1. p.at <= n /\ my_categories[p.at].name = p.name /\ p.at \in Nat
      BY <1>5, <2>1 DEF RegistryInv, ProxiesReferToTheirEntry, RegistryTypeOK, n
    <3>2. p.at \in 1..n
      BY <1>3, <3>1
    <3> QED BY <1>3, <1>5, <3>1, <3>2
  <2>2. CASE p = Proxy(name, n + 1)
    BY <1>2, <1>3, <1>5, <1>6, <1>8, <2>2
  <2> QED BY <1>7, <2>1, <2>2
<1> QED BY <1>9, <1>10, <1>11, <1>12, <1>13 DEF RegistryInv

\* A list that is appended leaves every entry and its proxies alone.
LEMMA AppendStep ==
  ASSUME RegistryInv, NEW t \in Threads, NEW list \in Lists, AppendList(t, list)
  PROVE  RegistryInv'
<1> DEFINE entries == [i \in 1..Len(list) |-> Entry(list[i].name, list[i].enabled, TRUE)]
<1>1. entries \in Seq(Entries)
  <2>1. /\ Len(list) \in Nat
        /\ \A i \in 1..Len(list) : list[i] \in [name : Names, enabled : BOOLEAN]
    BY CategoryAssumption, LenProperties, ElementOfSeq
  <2>2. \A i \in 1..Len(list) : Entry(list[i].name, list[i].enabled, TRUE) \in Entries
    BY <2>1 DEF Entry, Entries
  <2>3. entries \in [1..Len(list) -> Entries]
    BY <2>2
  <2> HIDE DEF entries
  <2> QED BY <2>1, <2>3, SeqDef
<1>2. Extend(entries)
  BY DEF AppendList
<1> HIDE DEF entries
<1>3. /\ my_categories' \in Seq(Entries) /\ capacity' \in Nat /\ storage' \in Nat
      /\ \A i \in 1..Len(my_categories) :
           i \in 1..Len(my_categories') /\ my_categories'[i] = my_categories[i]
      /\ storage' = 0 => storage = 0
      /\ Len(my_categories') = Len(my_categories) + Len(entries) /\ Len(entries) \in Nat
      /\ Len(my_categories') <= capacity => UNCHANGED <<capacity, storage>>
      /\ Len(my_categories') > capacity => storage' # 0
      /\ Len(my_categories) \in Nat /\ capacity \in Nat /\ storage \in Nat
  BY <1>1, <1>2, ExtendProperties, LenProperties DEF RegistryInv, RegistryTypeOK
<1>4. /\ appends \in Nat /\ appends' = appends + 1
      /\ UNCHANGED <<mutex, proxies, pc, local>>
  BY DEF AppendList, RegistryInv, RegistryTypeOK
<1>5. appends' \in Nat /\ appends' # 0
  BY <1>4
<1>6. RegistryTypeOK'
  BY <1>3, <1>4, <1>5 DEF RegistryInv, RegistryTypeOK
<1>7. Creating' /\ OneEntryPerName'
  BY <1>4, <1>5 DEF RegistryInv, Creating, OneEntryPerName
<1>9. Reserved'
  <2>1. MAX_CATEGORIES \in Nat
    BY CategoryAssumption
  <2> QED BY <1>3, <1>4, <1>5, <2>1 DEF RegistryInv, Reserved
<1>8. ProxiesReferToTheirEntry'
  <2> SUFFICES ASSUME storage = 0, NEW p \in proxies, p.at # 0
               PROVE  p.at <= Len(my_categories') /\ my_categories'[p.at].name = p.name
    BY <1>3, <1>4 DEF ProxiesReferToTheirEntry
  <2>1. /\ p.at <= Len(my_categories) /\ my_categories[p.at].name = p.name
        /\ p.at \in Nat /\ Len(my_categories) \in Nat /\ Len(my_categories') \in Nat
    BY <1>3, LenProperties DEF RegistryInv, ProxiesReferToTheirEntry, RegistryTypeOK
  <2>2. p.at \in 1..Len(my_categories)
    BY <2>1
  <2>3. p.at \in 1..Len(my_categories') /\ my_categories'[p.at] = my_categories[p.at]
    BY <1>3, <2>2
  <2> QED BY <2>1, <2>3
<1> QED BY <1>6, <1>7, <1>8, <1>9 DEF RegistryInv

-----------------------------------------------------------------------------
(* The theorems                                                            *)

LEMMA RegistryInductive == CategorySpec => []RegistryInv
<1>1. ASSUME CategoryInit
      PROVE  RegistryInv
  <2>1. Len(<<>>) = 0 /\ <<>> \in Seq(Entries)
    BY EmptySeq
  <2>2. NoLocal \in Locals
    BY DEF NoLocal, Locals
  <2>3. MAX_CATEGORIES \in Nat
    BY CategoryAssumption
  <2>4. RegistryTypeOK
    BY <1>1, <2>1, <2>2, <2>3 DEF CategoryInit, RegistryTypeOK, Places
  <2> QED BY <1>1, <2>1, <2>3, <2>4
          DEF CategoryInit, RegistryInv, Creating, Reserved, OneEntryPerName, ProxiesReferToTheirEntry
<1>2. ASSUME RegistryInv, [CategoryNext]_catVars
      PROVE  RegistryInv'
  <2> USE <1>2
  <2>1. /\ pc \in [Threads -> Places]
        /\ local \in [Threads -> Locals]
        /\ my_categories \in Seq(Entries) /\ Len(my_categories) \in Nat /\ storage \in Nat
    BY LenProperties DEF RegistryInv, RegistryTypeOK
  <2>2. ASSUME NEW t \in Threads, NEW name \in Names, GetKnown(t, name) \/ GetExhausted(t, name)
        PROVE  RegistryInv'
    BY <2>2, KnownStep
  <2>3. ASSUME NEW t \in Threads, NEW name \in Names, GetVerdict(t, name)
        PROVE  RegistryInv'
    <3>0. PICK verdict \in Verdicts(t, name) :
            local' = [local EXCEPT ![t] =
                        [NoLocal EXCEPT !.name = name, !.enable = verdict.enable]]
      BY <2>3 DEF GetVerdict
    <3> DEFINE l == [NoLocal EXCEPT !.name = name, !.enable = verdict.enable]
    <3>1. l \in Locals /\ l.name = name
      BY VerdictType DEF NoLocal, Locals
    <3>2. /\ local' = [local EXCEPT ![t] = l] /\ pc' = [pc EXCEPT ![t] = "create"]
          /\ mutex = NoThread /\ mutex' = t
          /\ RoomLeft /\ Known(name) = {}
          /\ UNCHANGED <<registry, proxies, appends>>
      BY <2>3, <3>0 DEF GetVerdict, Lock
    <3> HIDE DEF l
    <3>3. \A u \in Threads : pc[u] # "create"
      BY <3>2, CategoryAssumption DEF RegistryInv, Creating
    <3>4. \A u \in Threads : pc'[u] = "create" => u = t
      BY <2>1, <3>2, <3>3
    <3>5. local'[t] = l /\ local' \in [Threads -> Locals]
      BY <2>1, <3>1, <3>2
    <3>6. pc' \in [Threads -> Places]
      BY <2>1, <3>2 DEF Places
    <3> QED BY <3>1, <3>2, <3>4, <3>5, <3>6, RegistryKept
  <2>4. ASSUME NEW t \in Threads, GetCreate(t)
        PROVE  RegistryInv'
    BY <2>4, CreateStep
  <2>5. ASSUME NEW t \in Threads,
               (\E text \in Texts : SetFilter(t, text)) \/ SetFilterDone(t)
        PROVE  RegistryInv'
    <3>1. /\ pc' = [pc EXCEPT ![t] = "assigning"] \/ pc' = [pc EXCEPT ![t] = "assigned"]
          /\ UNCHANGED <<mutex, registry, proxies, local, appends>>
      BY <2>5 DEF SetFilter, SetFilterDone
    <3>2. /\ pc' \in [Threads -> Places]
          /\ \A u \in Threads : pc'[u] = "create" => pc[u] = "create"
      BY <2>1, <3>1 DEF Places
    <3> QED BY <2>1, <3>1, <3>2, RegistryKept
  <2>6. ASSUME NEW t \in Threads, ApplyStart(t)
        PROVE  RegistryInv'
    <3> DEFINE l == [NoLocal EXCEPT !.next = 1, !.end = Len(my_categories), !.storage = storage]
    <3>1. l \in Locals
      BY <2>1 DEF NoLocal, Locals
    <3>2. /\ local' = [local EXCEPT ![t] = l] /\ pc' = [pc EXCEPT ![t] = "apply"]
          /\ UNCHANGED <<mutex, registry, proxies, appends>>
      BY <2>6 DEF ApplyStart
    <3> HIDE DEF l
    <3>3. \A u \in Threads : pc'[u] = "create" => pc[u] = "create" /\ local'[u] = local[u]
      BY <2>1, <3>2
    <3>4. /\ local' \in [Threads -> Locals]
          /\ pc' \in [Threads -> Places]
      BY <2>1, <3>1, <3>2 DEF Places
    <3> QED BY <3>2, <3>3, <3>4, RegistryKept
  <2>7. ASSUME NEW t \in Threads, ApplyEntry(t)
        PROVE  RegistryInv'
    <3>1. local' \in [Threads -> Locals] /\ \A u \in Threads : local'[u].name = local[u].name
      <4> DEFINE l == [local[t] EXCEPT !.next = @ + 1]
      <4>1. local' = [local EXCEPT ![t] = l]
        BY <2>1, <2>7 DEF ApplyEntry
      <4>2. l \in Locals /\ l.name = local[t].name
        BY <2>1, NextType
      <4> HIDE DEF l
      <4> QED BY <2>1, <4>1, <4>2
    <3>2. /\ my_categories' \in Seq(Entries)
          /\ Len(my_categories') = Len(my_categories)
          /\ \A i \in 1..Len(my_categories) : my_categories'[i].name = my_categories[i].name
      BY <2>7, ApplyProperties DEF RegistryInv
    <3>3. UNCHANGED <<capacity, storage, appends, proxies, mutex, pc>>
      BY <2>7 DEF ApplyEntry
    <3> QED BY <3>1, <3>2, <3>3, NamesKept
  <2>8. ASSUME NEW t \in Threads, ApplyDone(t)
        PROVE  RegistryInv'
    <3>1. NoLocal \in Locals
      BY DEF NoLocal, Locals
    <3>2. /\ local' = [local EXCEPT ![t] = NoLocal] /\ pc' = [pc EXCEPT ![t] = "idle"]
          /\ UNCHANGED <<mutex, registry, proxies, appends>>
      BY <2>8 DEF ApplyDone
    <3>3. \A u \in Threads : pc'[u] = "create" => pc[u] = "create" /\ local'[u] = local[u]
      BY <2>1, <3>2
    <3>4. /\ local' \in [Threads -> Locals]
          /\ pc' \in [Threads -> Places]
      BY <2>1, <3>1, <3>2 DEF Places
    <3> QED BY <3>2, <3>3, <3>4, RegistryKept
  <2>9. ASSUME NEW t \in Threads, NEW list \in Lists, AppendList(t, list)
        PROVE  RegistryInv'
    BY <2>9, AppendStep
  <2>10. CASE UNCHANGED catVars
    BY <2>1, <2>10, RegistryKept DEF catVars
  <2>11. ASSUME NEW t \in Configurers, Configure(t)
         PROVE  RegistryInv'
    <3>1. t \in Threads
      BY CategoryAssumption
    <3> QED BY <2>5, <2>6, <2>7, <2>8, <2>9, <2>11, <3>1 DEF Configure
  <2> QED BY <2>2, <2>3, <2>4, <2>10, <2>11 DEF CategoryNext, Get
<1> QED BY <1>1, <1>2, PTL DEF CategorySpec

\* Threads that reach macros of the same category at once share one entry,
\* for any number of threads, as long as no list is appended.
THEOREM EntriesUnique == CategorySpec => []OneEntryPerName
<1>1. RegistryInv => OneEntryPerName
  BY DEF RegistryInv
<1> QED BY <1>1, RegistryInductive, PTL

\* get_proxy never creates more entries than the vector is reserved for, and
\* the vector keeps its place while it holds no more, for any number of
\* threads, names and lists.
THEOREM ReserveEnough == CategorySpec => []ReserveSuffices
<1>1. RegistryInv => ReserveSuffices
  <2>1. MAX_CATEGORIES \in Nat /\ (RegistryInv => Len(my_categories) \in Nat)
    BY CategoryAssumption, LenProperties DEF RegistryInv, RegistryTypeOK
  <2> QED BY <2>1 DEF RegistryInv, Reserved, ReserveSuffices
<1> QED BY <1>1, RegistryInductive, PTL

\* A proxy refers to an entry of its own name while the vector has not moved.
THEOREM ProxiesCorrect == CategorySpec => []ProxiesReferToTheirEntry
<1>1. RegistryInv => ProxiesReferToTheirEntry
  BY DEF RegistryInv
<1> QED BY <1>1, RegistryInductive, PTL

-----------------------------------------------------------------------------
(* The filter in force                                                     *)

\* No thread has yet to apply the filter to an entry.
Visited(i) ==
  \A t \in Threads : /\ pc[t] \notin {"assigning", "assigned"}
                     /\ pc[t] = "apply" => i < local[t].next

\* Until calls overlap: a verdict that was asked for is that of the filter in
\* force; who applies a filter is alone; its loop runs over the whole vector,
\* where it is; and the entries behind it have their states.
FilterInv ==
  ~overlapped =>
    /\ \A t \in Threads : pc[t] = "create" =>
         local[t].enable = result_of(category_filter_, local[t].name).enable
    /\ \A t, u \in Threads : pc[t] \in Setting /\ pc[u] # "idle" => t = u
    /\ \A t \in Threads : pc[t] = "apply" =>
         local[t].end = Len(my_categories) /\ local[t].storage = storage
    /\ \A i \in 1..Len(my_categories) : Visited(i) => Agrees(i)

\* What the others are doing, as far as a call asks for it.
LEMMA OthersAway ==
  ASSUME NEW t \in Threads, NEW places, Others(t) \cap places = {}
  PROVE  \A u \in Threads : u # t => pc[u] \notin places
BY DEF Others

\* get_proxy asks the filter while nobody is applying one.
LEMMA VerdictFilter ==
  ASSUME RegistryInv, FilterInv, NEW t \in Threads, NEW name \in Names, GetVerdict(t, name)
  PROVE  FilterInv'
<1> SUFFICES ASSUME ~overlapped'
             PROVE  FilterInv'
  BY DEF FilterInv
<1>1. pc \in [Threads -> Places] /\ local \in [Threads -> Locals]
  BY DEF RegistryInv, RegistryTypeOK
<1>0. PICK verdict \in Verdicts(t, name) :
        local' = [local EXCEPT ![t] = [NoLocal EXCEPT !.name = name, !.enable = verdict.enable]]
  BY DEF GetVerdict
<1> DEFINE l == [NoLocal EXCEPT !.name = name, !.enable = verdict.enable]
<1>3. /\ pc[t] = "idle" /\ pc' = [pc EXCEPT ![t] = "create"]
      /\ local' = [local EXCEPT ![t] = l]
      /\ ~overlapped /\ Others(t) \cap Setting = {}
      /\ UNCHANGED <<my_categories, storage, category_filter_>>
  BY <1>0 DEF GetVerdict, registry, filterVars
<1>4. \A u \in Threads : pc[u] \notin Setting
  BY <1>3, OthersAway DEF Setting
<1>2. l.name = name /\ l.enable = result_of(category_filter_, name).enable
  <2>1. verdict = result_of(category_filter_, name)
    BY <1>4, SettledVerdict DEF Setting
  <2> QED BY <2>1 DEF NoLocal
<1> HIDE DEF l
<1>5. /\ pc'[t] = "create" /\ local'[t] = l
      /\ \A u \in Threads : u # t => pc'[u] = pc[u] /\ local'[u] = local[u]
  BY <1>1, <1>3
<1>6. \A u \in Threads : pc'[u] = "create" =>
        local'[u].enable = result_of(category_filter_, local'[u].name).enable
  BY <1>2, <1>3, <1>5 DEF FilterInv
<1>7. ASSUME NEW i \in 1..Len(my_categories)
      PROVE  Agrees(i)'
  <2>1. Agrees(i)
    BY <1>3, <1>4 DEF FilterInv, Visited, Setting
  <2> QED BY <1>3, <2>1 DEF Agrees
<1>8. \A u \in Threads : pc'[u] \notin Setting /\ pc'[u] # "apply"
  BY <1>4, <1>5 DEF Setting
<1> QED BY <1>3, <1>6, <1>7, <1>8 DEF FilterInv

\* The new entry gets the verdict asked for before.
LEMMA CreateFilter ==
  ASSUME RegistryInv, FilterInv, NEW t \in Threads, GetCreate(t)
  PROVE  FilterInv'
<1> SUFFICES ASSUME ~overlapped'
             PROVE  FilterInv'
  BY DEF FilterInv
<1> DEFINE e == Entry(local[t].name, local[t].enable, FALSE)
           n == Len(my_categories)
<1>1. /\ pc \in [Threads -> Places] /\ local \in [Threads -> Locals]
      /\ n \in Nat /\ local[t].name \in Names
  BY LenProperties DEF RegistryInv, RegistryTypeOK, Creating, GetCreate
<1>2. /\ pc[t] = "create" /\ pc' = [pc EXCEPT ![t] = "idle"]
      /\ local' = [local EXCEPT ![t] = NoLocal]
      /\ ~overlapped /\ category_filter_' = category_filter_
      /\ Extend(<<e>>)
  BY DEF GetCreate, filterVars
<1>3. e \in Entries /\ e.name = local[t].name /\ e.enabled = local[t].enable
  BY <1>1 DEF Entry, Entries, Locals
<1> HIDE DEF e, n
<1>4. /\ <<e>> \in Seq(Entries) /\ Len(<<e>>) = 1 /\ <<e>>[1] = e
  BY <1>3
<1>5. /\ Len(my_categories') = n + 1
      /\ \A i \in 1..n : my_categories'[i] = my_categories[i]
      /\ \A i \in 1..Len(my_categories') : i \notin 1..n =>
           i - n \in 1..1 /\ my_categories'[i] = <<e>>[i - n]
  BY <1>2, <1>4, ExtendProperties DEF RegistryInv, n
<1>6. \A u \in Threads : pc[u] \notin Setting
  BY <1>2 DEF FilterInv, Setting
<1>7. \A u \in Threads : pc'[u] \notin Setting /\ pc'[u] # "apply"
  BY <1>1, <1>2, <1>6 DEF Setting
<1>8. \A u \in Threads : pc'[u] = "create" => pc[u] = "create" /\ local'[u] = local[u]
  BY <1>1, <1>2
<1>9. ASSUME NEW i \in 1..Len(my_categories')
      PROVE  Agrees(i)'
  <2>1. CASE i \in 1..n
    <3>1. Agrees(i)
      BY <1>2, <1>6, <2>1 DEF FilterInv, Visited, Setting, n
    <3> QED BY <1>2, <1>5, <2>1, <3>1 DEF Agrees
  <2>2. CASE i \notin 1..n
    <3>1. i - n = 1 /\ my_categories'[i] = e
      BY <1>4, <1>5, <2>2
    <3>2. local[t].enable = result_of(category_filter_, local[t].name).enable
      BY <1>2 DEF FilterInv
    <3> QED BY <1>2, <1>3, <3>1, <3>2 DEF Agrees
  <2> QED BY <2>1, <2>2
<1> QED BY <1>2, <1>7, <1>8, <1>9 DEF FilterInv

\* The loop of apply_filter leaves the entry it passes with the state the
\* filter gives it.
LEMMA ApplyFilter ==
  ASSUME RegistryInv, FilterInv, NEW t \in Threads, ApplyEntry(t)
  PROVE  FilterInv'
<1> SUFFICES ASSUME ~overlapped'
             PROVE  FilterInv'
  BY DEF FilterInv
<1> DEFINE i == local[t].next
           n == Len(my_categories)
           l == [local[t] EXCEPT !.next = @ + 1]
<1>1. /\ pc \in [Threads -> Places] /\ local \in [Threads -> Locals]
      /\ my_categories \in Seq(Entries) /\ n \in Nat /\ i \in Nat
  BY LenProperties DEF RegistryInv, RegistryTypeOK, Locals
<1>2. /\ pc[t] = "apply" /\ pc' = pc /\ ~overlapped
      /\ UNCHANGED <<storage, category_filter_>>
      /\ local' = [local EXCEPT ![t] = l]
      /\ i <= local[t].end
  BY DEF ApplyEntry, filterVars
<1>3. local[t].storage = storage /\ local[t].end = n
  BY <1>2 DEF FilterInv
<1>7. \A u \in Threads : pc[u] # "idle" => u = t
  BY <1>2 DEF FilterInv, Setting
<1> DEFINE verdict == result_of(category_filter_, my_categories[i].name)
<1>4. my_categories' = IF verdict.match
                       THEN [my_categories EXCEPT ![i] = Entry(@.name, verdict.enable, FALSE)]
                       ELSE my_categories
  BY <1>3, <1>7, SettledVerdict DEF ApplyEntry
<1>5. /\ l.next = i + 1 /\ l.end = local[t].end /\ l.storage = local[t].storage
  <2>1. local[t] \in Locals
    BY <1>1
  <2> QED BY <2>1 DEF Locals
<1>6. /\ Len(my_categories') = n
      /\ \A j \in 1..n : my_categories'[j].name = my_categories[j].name
  BY ApplyProperties DEF RegistryInv
<1> HIDE DEF l
<1>8. local'[t] = l
  BY <1>1, <1>2
<1>9. ASSUME NEW j \in 1..n, Visited(j)'
      PROVE  Agrees(j)'
  <2>1. j < i + 1
    BY <1>2, <1>5, <1>8, <1>9 DEF Visited
  <2>2. CASE j = i
    <3>1. CASE verdict.match
      <4>1. my_categories \in [1..n -> Entries]
        BY <1>1, LenProperties
      <4>2. my_categories'[i] = Entry(my_categories[i].name, verdict.enable, FALSE)
        BY <1>4, <2>2, <3>1, <4>1
      <4> QED BY <1>2, <2>2, <4>2 DEF Agrees, Entry
    <3>2. CASE ~verdict.match
      BY <1>2, <1>4, <2>2, <3>2 DEF Agrees
    <3> QED BY <3>1, <3>2
  <2>3. CASE j # i
    <3>1. j < i
      BY <1>1, <2>1, <2>3
    <3>2. Visited(j)
      BY <1>2, <1>7, <3>1 DEF Visited
    <3>3. Agrees(j)
      BY <1>2, <3>2 DEF FilterInv, n
    <3>4. my_categories \in [1..n -> Entries]
      BY <1>1, LenProperties
    <3>5. my_categories'[j] = my_categories[j]
      <4> HIDE DEF i, n, verdict
      <4> QED BY <1>4, <2>3, <3>4
    <3> QED BY <1>2, <3>3, <3>5 DEF Agrees
  <2> QED BY <2>2, <2>3
<1>10. \A u \in Threads : pc'[u] = "apply" =>
         local'[u].end = Len(my_categories') /\ local'[u].storage = storage'
  BY <1>2, <1>3, <1>5, <1>6, <1>7, <1>8
<1>11. \A u \in Threads : pc'[u] # "create"
  BY <1>2, <1>7
<1>12. \A u, v \in Threads : pc'[u] \in Setting /\ pc'[v] # "idle" => u = v
  BY <1>2, <1>7 DEF Setting
<1> QED BY <1>6, <1>9, <1>10, <1>11, <1>12 DEF FilterInv

\* Every step keeps it.
LEMMA FilterStep ==
  ASSUME RegistryInv, FilterInv, [CategoryNext]_catVars
  PROVE  FilterInv'
<1>1. /\ pc \in [Threads -> Places] /\ local \in [Threads -> Locals]
      /\ my_categories \in Seq(Entries) /\ Len(my_categories) \in Nat
  BY LenProperties DEF RegistryInv, RegistryTypeOK
\* A step that is none of the filter's.
<1>2. ASSUME UNCHANGED <<my_categories, storage, category_filter_, pc, local, overlapped>>
      PROVE  FilterInv'
  BY <1>2 DEF FilterInv, Visited, Agrees
<1>3. ASSUME NEW t \in Threads, NEW name \in Names, GetKnown(t, name) \/ GetExhausted(t, name)
      PROVE  FilterInv'
  BY <1>2, <1>3 DEF GetKnown, GetExhausted, registry, filterVars
<1>4. ASSUME NEW t \in Threads, NEW text \in Texts, SetFilter(t, text)
      PROVE  FilterInv'
  <2> SUFFICES ASSUME ~overlapped'
               PROVE  FilterInv'
    BY DEF FilterInv
  <2>1. /\ pc[t] = "idle" /\ pc' = [pc EXCEPT ![t] = "assigning"]
        /\ Others(t) \cap ({"create"} \cup Setting) = {}
        /\ UNCHANGED my_categories
    BY <1>4 DEF SetFilter, registry
  <2>2. \A u \in Threads : u # t => pc[u] \notin {"create"} \cup Setting
    BY <2>1, OthersAway
  <2>3. pc'[t] = "assigning" /\ \A u \in Threads : u # t => pc'[u] = "idle"
    BY <1>1, <2>1, <2>2 DEF Places, Setting
  <2> QED BY <2>3 DEF FilterInv, Visited, Setting
<1>10. ASSUME NEW t \in Threads, SetFilterDone(t)
       PROVE  FilterInv'
  <2> SUFFICES ASSUME ~overlapped'
               PROVE  FilterInv'
    BY DEF FilterInv
  <2>1. /\ pc[t] = "assigning" /\ pc' = [pc EXCEPT ![t] = "assigned"] /\ ~overlapped
        /\ UNCHANGED my_categories
    BY <1>10 DEF SetFilterDone, registry
  <2>2. pc'[t] = "assigned" /\ \A u \in Threads : u # t => pc'[u] = "idle"
    BY <1>1, <2>1 DEF FilterInv, Setting
  <2> QED BY <2>2 DEF FilterInv, Visited, Setting
<1>5. ASSUME NEW t \in Threads, ApplyStart(t)
      PROVE  FilterInv'
  <2> SUFFICES ASSUME ~overlapped'
               PROVE  FilterInv'
    BY DEF FilterInv
  <2> DEFINE l == [NoLocal EXCEPT !.next = 1, !.end = Len(my_categories), !.storage = storage]
  <2>1. /\ pc[t] = "assigned" /\ pc' = [pc EXCEPT ![t] = "apply"]
        /\ local' = [local EXCEPT ![t] = l] /\ ~overlapped
        /\ UNCHANGED <<my_categories, storage>>
    BY <1>5 DEF ApplyStart, registry
  <2>2. l.next = 1 /\ l.end = Len(my_categories) /\ l.storage = storage
    BY DEF NoLocal
  <2> HIDE DEF l
  <2>3. /\ pc'[t] = "apply" /\ local'[t] = l
        /\ \A u \in Threads : u # t => pc'[u] = "idle"
    BY <1>1, <2>1 DEF FilterInv, Setting
  <2>4. \A i \in 1..Len(my_categories) : ~(i < 1)
    BY <1>1
  <2> QED BY <2>1, <2>2, <2>3, <2>4 DEF FilterInv, Visited
<1>6. ASSUME NEW t \in Threads, ApplyDone(t)
      PROVE  FilterInv'
  <2> SUFFICES ASSUME ~overlapped'
               PROVE  FilterInv'
    BY DEF FilterInv
  <2>1. /\ pc[t] = "apply" /\ pc' = [pc EXCEPT ![t] = "idle"]
        /\ local[t].next > local[t].end /\ ~overlapped
        /\ UNCHANGED <<my_categories, storage, category_filter_>>
    BY <1>6 DEF ApplyDone, registry, filterVars
  <2>2. \A u \in Threads : pc'[u] = "idle" /\ (u # t => pc[u] = "idle")
    BY <1>1, <2>1 DEF FilterInv, Setting
  <2>3. ASSUME NEW i \in 1..Len(my_categories)
        PROVE  Agrees(i)'
    <3>1. local[t].end = Len(my_categories) /\ local[t].next \in Nat
      BY <1>1, <2>1 DEF FilterInv, Locals
    <3>2. i < local[t].next
      BY <1>1, <2>1, <3>1
    <3>3. Visited(i)
      BY <2>1, <2>2, <3>2 DEF Visited
    <3>4. Agrees(i)
      BY <2>1, <3>3 DEF FilterInv
    <3> QED BY <2>1, <3>4 DEF Agrees
  <2> QED BY <2>1, <2>2, <2>3 DEF FilterInv, Setting
<1>7. ASSUME NEW t \in Threads, NEW list \in Lists, AppendList(t, list)
      PROVE  FilterInv'
  <2> SUFFICES ASSUME ~overlapped'
               PROVE  FilterInv'
    BY DEF FilterInv
  <2> DEFINE entries == [i \in 1..Len(list) |-> Entry(list[i].name, list[i].enabled, TRUE)]
  <2>1. /\ pc[t] = "idle" /\ pc' = pc /\ ~overlapped
        /\ Others(t) \cap ({"create"} \cup Setting) = {}
        /\ UNCHANGED category_filter_
        /\ Extend(entries)
    BY <1>7 DEF AppendList, filterVars
  <2>2. \A u \in Threads : pc[u] \notin {"create", "apply"} \cup Setting
    BY <2>1, OthersAway DEF Setting
  <2>3. /\ entries \in Seq(Entries) /\ Len(list) \in Nat /\ Len(entries) = Len(list)
        /\ \A i \in 1..Len(list) : entries[i].given
    <3>1. /\ Len(list) \in Nat
          /\ \A i \in 1..Len(list) : list[i] \in [name : Names, enabled : BOOLEAN]
      BY CategoryAssumption, LenProperties, ElementOfSeq
    <3>2. \A i \in 1..Len(list) : Entry(list[i].name, list[i].enabled, TRUE) \in Entries
      BY <3>1 DEF Entry, Entries
    <3>3. entries \in [1..Len(list) -> Entries]
      BY <3>2
    <3>4. \A i \in 1..Len(list) : entries[i].given
      BY DEF Entry
    <3>5. entries \in Seq(Entries) /\ DOMAIN entries = 1..Len(list)
      <4> HIDE DEF entries
      <4> QED BY <3>1, <3>3, SeqDef
    <3> HIDE DEF entries
    <3> QED BY <3>1, <3>4, <3>5, LenProperties
  <2> HIDE DEF entries
  <2>4. /\ \A i \in 1..Len(my_categories) : my_categories'[i] = my_categories[i]
        /\ \A i \in 1..Len(my_categories') : i \notin 1..Len(my_categories) =>
             /\ i - Len(my_categories) \in 1..Len(entries)
             /\ my_categories'[i] = entries[i - Len(my_categories)]
    BY <2>1, <2>3, ExtendProperties DEF RegistryInv
  <2>5. ASSUME NEW i \in 1..Len(my_categories')
        PROVE  Agrees(i)'
    <3>1. CASE i \in 1..Len(my_categories)
      <4>1. Agrees(i)
        BY <2>1, <2>2, <3>1 DEF FilterInv, Visited, Setting
      <4> QED BY <2>1, <2>4, <3>1, <4>1 DEF Agrees
    <3>2. CASE i \notin 1..Len(my_categories)
      BY <2>3, <2>4, <3>2 DEF Agrees
    <3> QED BY <3>1, <3>2
  <2> QED BY <2>1, <2>2, <2>5 DEF FilterInv, Setting
<1>8. CASE UNCHANGED catVars
  BY <1>2, <1>8 DEF catVars, registry, filterVars
<1>9. ASSUME NEW t \in Configurers, Configure(t)
      PROVE  FilterInv'
  <2>1. t \in Threads
    BY CategoryAssumption
  <2> QED BY <1>4, <1>5, <1>6, <1>7, <1>9, <1>10, <2>1, ApplyFilter DEF Configure
<1> QED BY <1>3, <1>8, <1>9, VerdictFilter, CreateFilter DEF CategoryNext, Get

\* A category the filter in force matches has the state it says, for any
\* number of threads, names and filters, whether it was there when the filter
\* was set or came later, unless append gave the state or a call overlapped
\* with the setting.  The latter lasts until a filter is set while no other
\* call is under way: every category is then right again.
THEOREM FilterCorrect == CategorySpec => []FilterInForce
<1>1. CategoryInit => FilterInv
  <2>1. Len(<<>>) = 0
    BY EmptySeq
  <2> QED BY <2>1 DEF CategoryInit, FilterInv
<1>2. RegistryInv /\ FilterInv /\ [CategoryNext]_catVars => FilterInv'
  BY FilterStep
<1>3. FilterInv => FilterInForce
  BY DEF FilterInv, FilterInForce, Visited, Agrees
<1> QED BY <1>1, <1>2, <1>3, RegistryInductive, PTL DEF CategorySpec

-----------------------------------------------------------------------------
(* The types of the filter                                                 *)

\* A token adds an expression to the list or takes one away.
LEMMA AddTokenType ==
  ASSUME NEW regex_list \in Seq(Tokens), NEW token \in Tokens
  PROVE  AddToken(regex_list, token) \in Seq(Tokens)
<1>1. Append(regex_list, token) \in Seq(Tokens)
  BY AppendProperties
<1>2. Front(regex_list) \in Seq(Tokens)
  <2>1. Len(regex_list) \in Nat /\ \A i \in 1..Len(regex_list) : regex_list[i] \in Tokens
    BY LenProperties, ElementOfSeq
  <2>2. \A i \in 1..(Len(regex_list) - 1) : regex_list[i] \in Tokens
    BY <2>1
  <2> QED BY <2>1, <2>2, SubSeqProperties DEF Front
<1> QED BY <1>1, <1>2 DEF AddToken

\* Whatever the text, the list made of it is one of expressions.
LEMMA RegexListType ==
  ASSUME NEW text \in Seq(Tokens)
  PROVE  RegexList(text) \in Seq(Tokens)
<1> DEFINE n == Len(text)
           T == Seq(Tokens)
           g == [x \in T \X (1..n) |-> AddToken(x[1], text[x[2]])]
           Body(F) == [s \in SUBSET (1..n) |->
                         IF s = {} THEN <<>> ELSE AddToken(F[s \ {Max(s)}], text[Max(s)])]
           list == CHOOSE F : F = Body(F)
<1>1. n \in Nat /\ DOMAIN text = 1..n /\ <<>> \in T
  BY LenProperties, EmptySeq
<1>2. RegexList(text) = list[1..n]
  BY <1>1 DEF RegexList, FoldLeft, MapThenFoldSet
<1>3. g \in [T \X (1..n) -> T]
  <2>1. \A l \in T, i \in 1..n : AddToken(l, text[i]) \in T
    BY AddTokenType, ElementOfSeq
  <2> QED BY <2>1
<1> HIDE DEF n, T
<1>4. PICK F \in [SUBSET (1..n) -> T] : Folds(F, n, <<>>, g)
  <2> HIDE DEF g
  <2> QED BY <1>1, <1>3, FoldExists
<1>5. ASSUME NEW s \in SUBSET (1..n)
      PROVE  F[s] = IF s = {} THEN <<>> ELSE AddToken(F[s \ {Max(s)}], text[Max(s)])
  <2>1. s # {} => Max(s) \in 1..n
    BY <1>1, MaxProperties
  <2>2. s \ {Max(s)} \in SUBSET (1..n)
    OBVIOUS
  <2> QED BY <1>4, <2>1, <2>2 DEF Folds
<1>6. F = Body(F)
  BY <1>4, <1>5
<1>7. list = Body(list)
  <2> HIDE DEF Body
  <2> QED BY <1>6
<1> HIDE DEF list
<1> DEFINE Bad == {k \in 0..n : list[1..k] \notin T}
<1>8. list[1..0] \in T
  BY <1>1, <1>7
<1>9. ASSUME NEW k \in 1..n, list[1..(k - 1)] \in T
      PROVE  list[1..k] \in T
  <2>1. /\ 1..k # {} /\ 1..k \in SUBSET (1..n)
        /\ Max(1..k) = k /\ (1..k) \ {k} = 1..(k - 1)
    BY <1>1, MaxOfRange
  <2>2. \A s \in SUBSET (1..n) :
          list[s] = IF s = {} THEN <<>> ELSE AddToken(list[s \ {Max(s)}], text[Max(s)])
    BY <1>7
  <2>3. list[1..k] = AddToken(list[1..(k - 1)], text[k])
    <3> HIDE DEF Body
    <3> QED BY <2>1, <2>2
  <2> QED BY <1>9, <2>3, AddTokenType, ElementOfSeq DEF n, T
<1>10. Bad = {}
  <2> SUFFICES ASSUME Bad # {}
               PROVE  FALSE
    OBVIOUS
  <2>1. PICK k \in Bad : \A j \in Bad : k <= j
    <3>1. Bad \subseteq Nat
      BY <1>1
    <3> HIDE DEF Bad
    <3> QED BY <3>1, NatMin
  <2>2. k \in 1..n /\ k - 1 \in 0..n /\ ~(k <= k - 1)
    BY <1>1, <1>8, <2>1
  <2>3. list[1..(k - 1)] \in T
    BY <2>1, <2>2
  <2> QED BY <1>9, <2>1, <2>2, <2>3
<1>11. n \in 0..n
  BY <1>1
<1> QED BY <1>2, <1>10, <1>11 DEF T

\* What RegistryTypeOK leaves open: the mutex, the filter, and whether calls
\* overlapped.
FilterTypeOK ==
  /\ mutex \in Threads \cup {NoThread}
  /\ category_filter_ \in Seq(Tokens)
  /\ filter_text \in Seq(Tokens)
  /\ overlapped \in BOOLEAN

\* Every variable of the registry and of its filter has its type, for any
\* number of threads, names and filters: a text makes a list of expressions
\* even if std::regex refuses some of its tokens, as long as each of these
\* has an expression before it to take away (see WellDefined).
THEOREM CategoryTypeCorrect == CategorySpec => []CategoryTypeOK
<1>1. CategoryInit => FilterTypeOK
  BY EmptySeq DEF CategoryInit, FilterTypeOK
<1>2. FilterTypeOK /\ [CategoryNext]_catVars => FilterTypeOK'
  <2> SUFFICES ASSUME FilterTypeOK, [CategoryNext]_catVars
               PROVE  FilterTypeOK'
    OBVIOUS
  <2>1. ASSUME UNCHANGED <<mutex, filterVars, overlapped>>
        PROVE  FilterTypeOK'
    BY <2>1 DEF FilterTypeOK, filterVars
  <2>2. ASSUME NEW t \in Threads, NEW name \in Names,
               GetKnown(t, name) \/ GetExhausted(t, name)
        PROVE  FilterTypeOK'
    BY <2>1, <2>2 DEF GetKnown, GetExhausted
  <2>3. ASSUME NEW t \in Threads, NEW name \in Names, GetVerdict(t, name)
        PROVE  FilterTypeOK'
    <3>1. mutex' = t /\ UNCHANGED filterVars
      BY <2>3 DEF GetVerdict, Lock
    <3>2. overlapped' \in BOOLEAN
      BY <2>3 DEF GetVerdict
    <3> QED BY <3>1, <3>2 DEF FilterTypeOK, filterVars
  <2>4. ASSUME NEW t \in Threads, GetCreate(t)
        PROVE  FilterTypeOK'
    BY <2>4 DEF GetCreate, FilterTypeOK, filterVars
  <2>5. ASSUME NEW t \in Threads, NEW text \in Texts, SetFilter(t, text)
        PROVE  FilterTypeOK'
    <3>1. text \in Seq(Tokens)
      BY CategoryAssumption
    <3>2. mutex' = mutex /\ category_filter_' = RegexList(text) /\ filter_text' = text
      BY <2>5 DEF SetFilter
    <3>3. overlapped' \in BOOLEAN
      BY <2>5 DEF SetFilter
    <3> QED BY <3>1, <3>2, <3>3, RegexListType DEF FilterTypeOK
  <2>6. ASSUME NEW t \in Threads, NEW list \in Lists, AppendList(t, list)
        PROVE  FilterTypeOK'
    <3>1. UNCHANGED <<mutex, filterVars>>
      BY <2>6 DEF AppendList
    <3>2. overlapped' \in BOOLEAN
      BY <2>6 DEF AppendList
    <3> QED BY <3>1, <3>2 DEF FilterTypeOK, filterVars
  <2>7. ASSUME NEW t \in Threads,
               SetFilterDone(t) \/ ApplyStart(t) \/ ApplyEntry(t) \/ ApplyDone(t)
        PROVE  FilterTypeOK'
    BY <2>1, <2>7 DEF SetFilterDone, ApplyStart, ApplyEntry, ApplyDone
  <2>8. CASE UNCHANGED catVars
    BY <2>1, <2>8 DEF catVars
  <2>9. ASSUME NEW t \in Configurers, Configure(t)
        PROVE  FilterTypeOK'
    <3>1. t \in Threads
      BY CategoryAssumption
    <3> QED BY <2>5, <2>6, <2>7, <2>9, <3>1 DEF Configure
  <2> QED BY <2>2, <2>3, <2>4, <2>8, <2>9 DEF CategoryNext, Get
<1>3. FilterTypeOK /\ RegistryInv => CategoryTypeOK
  BY DEF FilterTypeOK, RegistryInv, RegistryTypeOK, CategoryTypeOK, Locals
<1> QED BY <1>1, <1>2, <1>3, RegistryInductive, PTL DEF CategorySpec

=============================================================================
