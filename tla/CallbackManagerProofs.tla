------------------------ MODULE CallbackManagerProofs ------------------------
(***************************************************************************)
(* Theorems about CallbackManager for any number of threads, entries,      *)
(* names and calls, whatever callbacks do and however deep they nest,      *)
(* unless a theorem says otherwise.                                        *)
(***************************************************************************)
EXTENDS CallbackManager, SequenceLemmas

\* What every operation keeps of the table.
Tables ==
  /\ entries \in [Slots -> Entry]
  /\ priority_list \in Seq(Slots)
  /\ next_id \in Nat
  /\ active_count \in Nat
  /\ total_registrations \in Nat /\ total_unregistrations \in Nat
  /\ Distinct
  /\ Range(priority_list) = Registered
  /\ \A j, k \in DOMAIN priority_list :
       j < k => Before(priority_list[j], priority_list[k])
  /\ active_count = Cardinality(Registered)

Places == {"idle", "lock", "locked", "return", "walk", "callback", "destroy",
           "destroyed"}

\* Calls and the mutex.
Control ==
  /\ initialized \in BOOLEAN /\ alive \in BOOLEAN
  /\ owner \in Threads \cup {NoThread} /\ locks \in Nat
  /\ pc \in [Threads -> Places]
  /\ req \in [Threads -> Requests \cup {NoCall}]
  /\ entry \in [Threads -> Slots \cup {NULL}]
  /\ calls \in 0 .. MaxCalls
  /\ passes \in [Threads -> Seq(Pass)]
  /\ \A t \in Threads :
       /\ pc[t] \in {"walk", "callback"} => passes[t] # << >>
       /\ pc[t] = "idle" => passes[t] = << >>
  /\ MutexReleased

\* The end of a shutdown.
Ending == {"destroy", "destroyed"}

\* The counters agree until a shutdown has cleared one of them.
Balanced ==
  (initialized /\ \A t \in Threads : pc[t] \notin Ending) =>
    active_count = total_registrations - total_unregistrations

\* The inductive invariant, for all callbacks and shutdowns.
IInv == Tables /\ Control /\ Balanced

\* The order in which a pass calls: x and y are pairs of priority and id.
KeyBefore(x, y) == x[1] > y[1] \/ (x[1] = y[1] /\ x[2] < y[2])

(* A pass p and the table, of which e are the entries.                     *)

InUse(e) == {s \in Slots : e[s].registered}
KeyIn(e, s) == <<e[s].priority, e[s].id>>

Ordered(p) == \A j, k \in DOMAIN p.ran : j < k => KeyBefore(p.ran[j], p.ran[k])

Called(p, id) == \E k \in DOMAIN p.ran : p.ran[k][2] = id

\* The callback with this id is still to come in the list.
Ahead(e, p, id) ==
  /\ p.entry # NULL
  /\ \E s \in InUse(e) : /\ e[s].id = id /\ e[s].enabled
                         /\ KeyBefore(KeyIn(e, p.entry), KeyIn(e, s))

AtEntry(e, p, id) == p.entry # NULL /\ e[p.entry].id = id /\ e[p.entry].enabled

\* The callback of the current entry runs: it is the last that was called, and
\* what is steady was called or comes behind it.
RunningIn(e, p) ==
  /\ Ordered(p)
  /\ p.entry \in InUse(e)
  /\ p.ran # << >> /\ p.ran[Len(p.ran)] = KeyIn(e, p.entry)
  /\ \A id \in p.steady : Called(p, id) \/ Ahead(e, p, id)

\* The pass is about to look at the current entry: what it called comes before.
WalkingIn(e, p) ==
  /\ Ordered(p)
  /\ p.entry # NULL =>
       /\ p.entry \in InUse(e)
       /\ \A k \in DOMAIN p.ran : KeyBefore(p.ran[k], KeyIn(e, p.entry))
  /\ \A id \in p.steady : Called(p, id) \/ AtEntry(e, p, id) \/ Ahead(e, p, id)

\* A shutdown has emptied the table under the pass.
WipedIn(p) == Ordered(p) /\ \A id \in p.steady : Called(p, id)

Wiped(t) ==
  /\ Registered = {} /\ priority_list = << >>
  /\ pc[t] \in Ending \/ (~ initialized /\ pc[t] \in {"callback", "walk"})

\* All passes of a thread run a callback, but for the innermost between two.
PassSound(t, d) ==
  IF d = Len(passes[t]) /\ pc[t] = "walk"
    THEN WalkingIn(entries, passes[t][d])
    ELSE RunningIn(entries, passes[t][d]) \/ (Wiped(t) /\ WipedIn(passes[t][d]))

\* What is about to be unregistered does not run.
Spares(t) ==
  pc[t] \in {"lock", "locked"} /\ req[t].op = "unregister" =>
    \A d \in DOMAIN passes[t] : entries[passes[t][d].entry].id # req[t].id

\* The inductive invariant of the passes, if no running callback is unregistered
\* from a callback.
Passes == \A t \in Threads : Spares(t) /\ \A d \in DOMAIN passes[t] : PassSound(t, d)
-----------------------------------------------------------------------------
(* The table.                                                              *)

LEMMA SlotsFinite ==
  /\ Slots \in SUBSET Nat /\ NULL \notin Slots
  /\ \A S \in SUBSET Slots : IsFiniteSet(S) /\ Cardinality(S) \in Nat
<1>1. IsFiniteSet(Slots) /\ Slots \in SUBSET Nat /\ NULL \notin Slots
  BY ManagerAssumption, FS_Interval DEF Slots, NULL
<1>2. \A S \in SUBSET Slots : IsFiniteSet(S) /\ Cardinality(S) \in Nat
  BY <1>1, FS_Subset, FS_CardinalityType
<1> QED
  BY <1>1, <1>2

\* An entry has a priority and an id that can be compared.
LEMMA EntryTypes ==
  ASSUME Tables
  PROVE  \A s \in Slots : /\ entries[s] \in Entry
                          /\ entries[s].priority \in Nat
                          /\ entries[s].id \in Ids /\ entries[s].id \in Int
                          /\ entries[s].registered \in BOOLEAN
<1>1. ASSUME NEW x \in Entry
      PROVE  /\ x.priority \in Nat /\ x.id \in Ids /\ x.id \in Int
             /\ x.registered \in BOOLEAN
  <2>1. x.priority \in Nat
    <3>1. x.priority \in Priorities \cup {0}
      BY DEF Entry
    <3>2. \A p \in Priorities \cup {0} : p \in Nat
      BY ManagerAssumption
    <3> QED
      BY <3>1, <3>2
  <2>2. x.id \in Ids /\ x.id \in Int
    BY DEF Entry, Ids, INVALID_ID
  <2>3. x.registered \in BOOLEAN
    BY DEF Entry
  <2> QED
    BY <2>1, <2>2, <2>3
<1> QED
  BY <1>1 DEF Tables

LEMMA BeforeOrder ==
  ASSUME Tables
  PROVE  /\ \A a \in Slots : ~ Before(a, a)
         /\ \A a, b \in Slots : ~ (Before(a, b) /\ Before(b, a))
         /\ \A a, b, c \in Slots : Before(a, b) /\ Before(b, c) => Before(a, c)
BY EntryTypes DEF Before

\* The list has every entry in use at one position.
LEMMA ListFacts ==
  ASSUME Tables
  PROVE  /\ Len(priority_list) \in Nat
         /\ DOMAIN priority_list = 1 .. Len(priority_list)
         /\ \A k \in 1 .. Len(priority_list) :
              priority_list[k] \in Registered /\ priority_list[k] \in Slots
         /\ \A j, k \in 1 .. Len(priority_list) :
              priority_list[j] = priority_list[k] => j = k
         /\ \A s \in Registered : \E k \in 1 .. Len(priority_list) : s = priority_list[k]
<1>1. /\ Len(priority_list) \in Nat
      /\ DOMAIN priority_list = 1 .. Len(priority_list)
  BY LenProperties DEF Tables
<1>2. \A k \in 1 .. Len(priority_list) : priority_list[k] \in Registered
  BY <1>1 DEF Tables, Range
<1>3. \A s \in Registered : \E k \in 1 .. Len(priority_list) : s = priority_list[k]
  BY <1>1 DEF Tables, Range
<1>4. Registered \subseteq Slots
  BY DEF Registered
<1>5. ASSUME NEW j \in 1 .. Len(priority_list), NEW k \in 1 .. Len(priority_list),
             priority_list[j] = priority_list[k]
      PROVE  j = k
  <2>1. ~ Before(priority_list[j], priority_list[k])
        /\ ~ Before(priority_list[k], priority_list[j])
    BY <1>2, <1>4, <1>5, BeforeOrder
  <2>2. (j < k => Before(priority_list[j], priority_list[k]))
        /\ (k < j => Before(priority_list[k], priority_list[j]))
    BY <1>1 DEF Tables
  <2>3. ~ (j < k) /\ ~ (k < j)
    BY <2>1, <2>2
  <2> QED
    BY <2>3, <1>1
<1> QED
  BY <1>1, <1>2, <1>3, <1>4, <1>5

\* A new entry of priority r goes behind those of r and of higher priorities.
LEMMA InsertionPointProperties ==
  ASSUME Tables, NEW r \in Nat
  PROVE  /\ InsertionPoint(r) \in 1 .. Len(priority_list) + 1
         /\ \A k \in 1 .. Len(priority_list) :
              /\ k < InsertionPoint(r) => entries[priority_list[k]].priority >= r
              /\ k >= InsertionPoint(r) => entries[priority_list[k]].priority < r
<1> DEFINE lower == {k \in DOMAIN priority_list : entries[priority_list[k]].priority < r}
           n == Len(priority_list)
<1>1. /\ n \in Nat /\ DOMAIN priority_list = 1 .. n
      /\ \A k \in 1 .. n : priority_list[k] \in Slots
                          /\ entries[priority_list[k]].priority \in Nat
  BY ListFacts, EntryTypes
<1>2. InsertionPoint(r) = IF lower = {} THEN n + 1 ELSE Min(lower)
  BY DEF InsertionPoint
<1>3. lower \in SUBSET Nat /\ lower \subseteq 1 .. n
  BY <1>1
<1>4. \A k \in 1 .. n : k \in lower <=> entries[priority_list[k]].priority < r
  BY <1>1
<1>5. \A j, k \in 1 .. n :
        j < k => entries[priority_list[k]].priority <= entries[priority_list[j]].priority
  <2> SUFFICES ASSUME NEW j \in 1 .. n, NEW k \in 1 .. n, j < k
               PROVE  entries[priority_list[k]].priority <= entries[priority_list[j]].priority
    OBVIOUS
  <2>1. Before(priority_list[j], priority_list[k])
    BY <1>1 DEF Tables
  <2> QED
    BY <1>1, <2>1 DEF Before
<1> HIDE DEF lower, n
<1>6. CASE lower = {}
  BY <1>1, <1>2, <1>4, <1>6 DEF n
<1>7. CASE lower # {}
  <2>1. Min(lower) \in lower /\ \A k \in lower : Min(lower) <= k
    BY <1>3, <1>7, MinProperties
  <2>2. InsertionPoint(r) = Min(lower) /\ Min(lower) \in 1 .. n
    BY <1>2, <1>3, <1>7, <2>1
  <2>3. ASSUME NEW k \in 1 .. n, k < Min(lower)
        PROVE  entries[priority_list[k]].priority >= r
    BY <1>1, <1>4, <2>1, <2>2, <2>3
  <2>4. ASSUME NEW k \in 1 .. n, k >= Min(lower)
        PROVE  entries[priority_list[k]].priority < r
    <3>1. entries[priority_list[Min(lower)]].priority < r
      BY <1>4, <2>1, <2>2
    <3>2. CASE k = Min(lower)
      BY <3>1, <3>2
    <3>3. CASE k > Min(lower)
      <4>1. entries[priority_list[k]].priority
              <= entries[priority_list[Min(lower)]].priority
        BY <1>5, <2>2, <3>3
      <4> QED
        BY <1>1, <2>2, <3>1, <4>1
    <3> QED
      BY <2>2, <2>4, <3>2, <3>3
  <2> QED
    BY <1>1, <2>2, <2>3, <2>4 DEF n
<1> QED
  BY <1>6, <1>7

\* The order of the entries in a later state.
BeforeIn(e, a, b) ==
  \/ e[a].priority > e[b].priority
  \/ e[a].priority = e[b].priority /\ e[a].id < e[b].id

\* Registration keeps the table sound and every entry in use.
LEMMA RegisterTables ==
  ASSUME Tables, NEW name \in Names \cup {NoName}, NEW r \in Priorities,
         Register(name, r)
  PROVE  /\ Tables'
         /\ \A s \in Registered : s \in Registered' /\ entries'[s] = entries[s]
         /\ active_count = total_registrations - total_unregistrations =>
              active_count' = total_registrations' - total_unregistrations'
<1> USE ManagerAssumption
<1>1. CASE RegisterCode(name) # CB_SUCCESS
  <2>1. UNCHANGED table
    BY <1>1 DEF Register
  <2> QED
    BY <2>1 DEF table, Tables, Distinct, Registered, Before
<1>2. CASE RegisterCode(name) = CB_SUCCESS
  <2> DEFINE new == Min(FreeSlots)
             here == InsertionPoint(r)
             task == [id |-> next_id, name |-> name, priority |-> r,
                      enabled |-> TRUE, registered |-> TRUE]
  <2>1. ~ NameTaken(name) /\ FreeSlots # {}
    BY <1>2 DEF RegisterCode, CB_SUCCESS, CB_ERROR_ALREADY_EXISTS, CB_ERROR_NO_MEMORY
  <2>2. /\ entries' = [entries EXCEPT ![new] = task]
        /\ priority_list' = InsertAt(priority_list, here, new)
        /\ next_id' = next_id + 1
        /\ active_count' = active_count + 1
        /\ total_registrations' = total_registrations + 1
        /\ UNCHANGED total_unregistrations
    BY <1>2 DEF Register
  <2>3. new \in Slots /\ new \notin Registered
    <3>1. FreeSlots \in SUBSET Nat
      BY SlotsFinite DEF FreeSlots
    <3>2. new \in FreeSlots
      BY <2>1, <3>1, MinProperties
    <3> QED
      BY <3>2 DEF FreeSlots
  <2>4. r \in Nat /\ here \in 1 .. Len(priority_list) + 1 /\ priority_list \in Seq(Slots)
    BY InsertionPointProperties DEF Tables
  <2>5. task \in Entry
    BY DEF Entry, Ids, Tables
  <2>6. /\ task.id = next_id /\ task.name = name /\ task.priority = r
        /\ task.registered
    OBVIOUS
  <2> HIDE DEF new, here, task
  <2>7. entries' \in [Slots -> Entry] /\ entries'[new] = task
        /\ \A s \in Slots : s # new => entries'[s] = entries[s]
    BY <2>2, <2>3, <2>5 DEF Tables
  <2>8. Registered' = Registered \cup {new}
    BY <2>3, <2>6, <2>7 DEF Registered
  <2>9. /\ \A s \in Registered : s \in Slots /\ s # new /\ entries'[s] = entries[s]
        /\ \A s \in Registered : /\ entries[s].id < next_id /\ entries[s].id \in Int
                                 /\ entries[s].name # name
    BY <2>1, <2>3, <2>7, EntryTypes DEF Registered, Tables, Distinct, NameTaken
  <2>10. Distinct'
    <3>1. \A a, b \in Registered' :
            (entries'[a].id = entries'[b].id \/ entries'[a].name = entries'[b].name) => a = b
      <4> TAKE a, b \in Registered'
      <4>1. CASE a = new \/ b = new
        BY <2>6, <2>7, <2>8, <2>9, <4>1 DEF Tables
      <4>2. CASE a # new /\ b # new
        BY <2>8, <2>9, <4>2 DEF Tables, Distinct
      <4> QED
        BY <4>1, <4>2
    <3>2. \A s \in Registered' : entries'[s].id < next_id'
      BY <2>2, <2>6, <2>7, <2>8, <2>9 DEF Tables
    <3> QED
      BY <3>1, <3>2 DEF Distinct
  <2>11. /\ priority_list' \in Seq(Slots)
         /\ Range(priority_list') = Range(priority_list) \cup {new}
    BY <2>2, <2>3, <2>4, InsertAtProperties, InsertAtRange
  <2>12. \A j, k \in DOMAIN priority_list' :
           j < k => Before(priority_list[j], priority_list[k])'
    <3> DEFINE R == {x \in Slots \X Slots : BeforeIn(entries', x[1], x[2])}
    <3>0. /\ Len(priority_list) \in Nat
          /\ DOMAIN priority_list = 1 .. Len(priority_list)
          /\ \A k \in 1 .. Len(priority_list) :
               priority_list[k] \in Registered /\ priority_list[k] \in Slots
      BY ListFacts
    <3>1. \A a, b \in Slots : BeforeIn(entries', a, b) <=> <<a, b>> \in R
      OBVIOUS
    <3> HIDE DEF R
    <3>2. \A j, k \in 1 .. Len(priority_list) :
            j < k => <<priority_list[j], priority_list[k]>> \in R
      <4> SUFFICES ASSUME NEW j \in 1 .. Len(priority_list),
                          NEW k \in 1 .. Len(priority_list), j < k
                   PROVE  BeforeIn(entries', priority_list[j], priority_list[k])
        BY <3>0, <3>1
      <4>1. Before(priority_list[j], priority_list[k])
        BY <3>0 DEF Tables
      <4> QED
        BY <2>9, <3>0, <4>1 DEF Before, BeforeIn
    <3>3. ASSUME NEW k \in 1 .. Len(priority_list), k < here
          PROVE  <<priority_list[k], new>> \in R
      <4>1. entries[priority_list[k]].priority >= r
        BY <2>4, <3>3, InsertionPointProperties DEF here
      <4>2. /\ entries[priority_list[k]].priority \in Nat
            /\ entries[priority_list[k]].id < next_id
        BY <2>9, <3>0, EntryTypes
      <4>3. BeforeIn(entries', priority_list[k], new)
        BY <2>4, <2>6, <2>7, <2>9, <3>0, <4>1, <4>2 DEF BeforeIn
      <4> QED
        BY <2>3, <3>0, <3>1, <4>3
    <3>4. ASSUME NEW k \in 1 .. Len(priority_list), k >= here
          PROVE  <<new, priority_list[k]>> \in R
      <4>1. entries[priority_list[k]].priority < r
        BY <2>4, <3>4, InsertionPointProperties DEF here
      <4>2. BeforeIn(entries', new, priority_list[k])
        BY <2>4, <2>6, <2>7, <2>9, <3>0, <4>1, EntryTypes DEF BeforeIn
      <4> QED
        BY <2>3, <3>0, <3>1, <4>2
    <3>5. \A j, k \in DOMAIN priority_list' :
            j < k => <<priority_list'[j], priority_list'[k]>> \in R
      BY <2>2, <2>3, <2>4, <3>2, <3>3, <3>4, InsertAtSorted
    <3>6. \A k \in DOMAIN priority_list' : priority_list'[k] \in Slots
      BY <2>11, ElementOfSeq, LenProperties
    <3> QED
      BY <3>1, <3>5, <3>6 DEF Before, BeforeIn
  <2>13. active_count' = Cardinality(Registered')
    <3>1. IsFiniteSet(Registered) /\ Cardinality(Registered) \in Nat
      BY SlotsFinite DEF Registered
    <3>2. Cardinality(Registered') = Cardinality(Registered) + 1
      BY <2>3, <2>8, <3>1, FS_AddElement
    <3> QED
      BY <2>2, <3>2 DEF Tables
  <2>14. Tables'
    BY <2>2, <2>7, <2>8, <2>10, <2>11, <2>12, <2>13 DEF Tables
  <2> QED
    BY <2>2, <2>8, <2>9, <2>14 DEF Tables
<1> QED
  BY <1>1, <1>2

\* So does unregistration, for every entry but that of its id.
LEMMA UnregisterTables ==
  ASSUME Tables, NEW id \in Int, Unregister(id)
  PROVE  /\ Tables'
         /\ \A s \in Registered :
              entries[s].id # id => s \in Registered' /\ entries'[s] = entries[s]
         /\ active_count = total_registrations - total_unregistrations =>
              active_count' = total_registrations' - total_unregistrations'
<1> USE ManagerAssumption
<1>1. CASE Found(id) = {}
  <2>1. UNCHANGED table
    BY <1>1 DEF Unregister
  <2> QED
    BY <2>1 DEF table, Tables, Distinct, Registered, Before
<1>2. CASE Found(id) # {}
  <2> DEFINE old == CHOOSE s \in Found(id) : TRUE
  <2>1. /\ entries' = [s \in Slots |-> IF s \in Found(id) THEN Unused(INVALID_ID)
                                                         ELSE entries[s]]
        /\ priority_list' = RemoveFirst(priority_list, old)
        /\ active_count' = active_count - 1
        /\ total_unregistrations' = total_unregistrations + 1
        /\ UNCHANGED <<next_id, total_registrations>>
    BY <1>2 DEF Unregister
  <2>2. /\ old \in Registered /\ old \in Slots /\ entries[old].id = id
        /\ \A s \in Registered : entries[s].id = id <=> s = old
        /\ Found(id) = {old}
    <3>1. old \in Found(id)
      BY <1>2
    <3> HIDE DEF old
    <3> QED
      BY <3>1 DEF Found, Registered, Tables, Distinct
  <2> HIDE DEF old
  <2>3. /\ Unused(INVALID_ID) \in Entry
        /\ ~ Unused(INVALID_ID).registered
    BY DEF Unused, Entry, Ids, INVALID_ID
  <2>4. entries' \in [Slots -> Entry] /\ ~ entries'[old].registered
        /\ \A s \in Slots : s # old => entries'[s] = entries[s]
    BY <2>1, <2>2, <2>3 DEF Tables
  <2>5. Registered' = Registered \ {old}
    BY <2>2, <2>4 DEF Registered
  <2>6. \A s \in Registered' : s \in Registered /\ s # old /\ s \in Slots
                              /\ entries'[s] = entries[s]
    BY <2>4, <2>5 DEF Registered
  <2>7. Distinct'
    BY ZenonT(30), <2>1, <2>6 DEF Tables, Distinct
  <2>8. PICK k \in 1 .. Len(priority_list) : old = priority_list[k]
    BY <2>2, ListFacts
  <2>9. priority_list \in Seq(Slots) /\ priority_list' = RemoveAt(priority_list, k)
    <3>1. \A i, j \in 1 .. Len(priority_list) : priority_list[i] = priority_list[j] => i = j
      BY ListFacts
    <3>2. priority_list \in Seq(Slots)
      BY DEF Tables
    <3> QED
      BY <2>1, <2>8, <3>1, <3>2, RemoveFirstProperties
  <2>10. priority_list' \in Seq(Slots) /\ Range(priority_list') = Registered'
    <3>1. \A i, j \in 1 .. Len(priority_list) : priority_list[i] = priority_list[j] => i = j
      BY ListFacts
    <3>2. Range(priority_list') = Range(priority_list) \ {old}
      BY <2>8, <2>9, <3>1, RemoveAtRange
    <3> QED
      BY <2>5, <2>9, <3>2, RemoveAtProperties DEF Tables
  <2>11. \A i, j \in DOMAIN priority_list' :
           i < j => Before(priority_list[i], priority_list[j])'
    <3> DEFINE R == {x \in Slots \X Slots : BeforeIn(entries, x[1], x[2])}
    <3>0. /\ DOMAIN priority_list = 1 .. Len(priority_list)
          /\ \A j \in 1 .. Len(priority_list) : priority_list[j] \in Slots
      BY ListFacts
    <3>1. \A a, b \in Slots : BeforeIn(entries, a, b) <=> <<a, b>> \in R
      OBVIOUS
    <3> HIDE DEF R
    <3>2. \A i, j \in 1 .. Len(priority_list) :
            i < j => <<priority_list[i], priority_list[j]>> \in R
      BY <3>0, <3>1 DEF Tables, Before, BeforeIn
    <3>3. \A i, j \in DOMAIN priority_list' :
            i < j => <<priority_list'[i], priority_list'[j]>> \in R
      BY <2>9, <3>2, RemoveAtSorted
    <3>4. \A j \in DOMAIN priority_list' :
            /\ priority_list'[j] \in Slots
            /\ entries'[priority_list'[j]] = entries[priority_list'[j]]
      BY <2>6, <2>10 DEF Range
    <3> SUFFICES ASSUME NEW i \in DOMAIN priority_list', NEW j \in DOMAIN priority_list',
                        i < j
                 PROVE  Before(priority_list[i], priority_list[j])'
      OBVIOUS
    <3>5. BeforeIn(entries, priority_list'[i], priority_list'[j])
      BY <3>1, <3>3, <3>4
    <3> QED
      BY <3>4, <3>5 DEF Before, BeforeIn
  <2>12. active_count' = Cardinality(Registered') /\ active_count' \in Nat
    <3>1. IsFiniteSet(Registered) /\ Cardinality(Registered) \in Nat
          /\ Cardinality(Registered') \in Nat
      BY <2>6, SlotsFinite DEF Registered
    <3>2. Cardinality(Registered') = Cardinality(Registered) - 1
      BY <2>2, <2>5, <3>1, FS_RemoveElement
    <3> QED
      BY <2>1, <3>1, <3>2 DEF Tables
  <2>13. Tables'
    BY <2>1, <2>4, <2>7, <2>10, <2>11, <2>12 DEF Tables
  <2> QED
    BY <2>1, <2>2, <2>4, <2>5, <2>13 DEF Tables, Registered
<1> QED
  BY <1>1, <1>2

\* Enabling changes nothing of an entry but the flag.
LEMMA SetEnabledTables ==
  ASSUME Tables, NEW id \in Int, NEW e \in BOOLEAN, SetEnabled(id, e)
  PROVE  /\ Tables' /\ Registered' = Registered
         /\ \A s \in Slots : /\ entries'[s].id = entries[s].id
                             /\ entries'[s].priority = entries[s].priority
         /\ \A s \in Registered : (entries[s].id # id \/ e) =>
              (entries[s].enabled => entries'[s].enabled)
         /\ UNCHANGED <<priority_list, active_count, total_registrations,
                        total_unregistrations>>
<1>1. /\ entries' = [s \in Slots |-> IF s \in Found(id)
                                       THEN [entries[s] EXCEPT !.enabled = e]
                                       ELSE entries[s]]
      /\ UNCHANGED <<priority_list, next_id, active_count, total_registrations,
                     total_unregistrations>>
  BY DEF SetEnabled
<1>2. ASSUME NEW s \in Slots
      PROVE  /\ entries'[s] \in Entry
             /\ entries'[s].id = entries[s].id /\ entries'[s].name = entries[s].name
             /\ entries'[s].priority = entries[s].priority
             /\ entries'[s].registered = entries[s].registered
             /\ (entries[s].id # id \/ e) => (entries[s].enabled => entries'[s].enabled)
  <2>1. entries[s] \in Entry
    BY DEF Tables
  <2>2. CASE s \in Found(id)
    <3>1. entries'[s] = [entries[s] EXCEPT !.enabled = e]
      BY <1>1, <2>2
    <3>2. entries[s].id = id
      BY <2>2 DEF Found
    <3> QED
      BY <2>1, <3>1, <3>2 DEF Entry
  <2>3. CASE s \notin Found(id)
    BY <1>1, <2>1, <2>3
  <2> QED
    BY <2>2, <2>3
<1>3. Registered' = Registered /\ entries' \in [Slots -> Entry]
  BY <1>1, <1>2 DEF Registered
<1>4. Registered \subseteq Slots
  BY DEF Registered
<1>5. Distinct'
  BY <1>1, <1>2, <1>3, <1>4 DEF Tables, Distinct
<1>6. \A j, k \in DOMAIN priority_list' :
        j < k => Before(priority_list[j], priority_list[k])'
  <2>1. \A k \in DOMAIN priority_list : priority_list[k] \in Slots
    BY ListFacts
  <2> QED
    BY <1>1, <1>2, <2>1 DEF Tables, Before
<1>7. Tables'
  BY <1>1, <1>3, <1>5, <1>6 DEF Tables
<1> QED
  BY <1>1, <1>2, <1>3, <1>4, <1>7

\* A table without entries.
LEMMA ClearedTables ==
  ASSUME NEW x \in {INVALID_ID, 0}, entries' = [s \in Slots |-> Unused(x)],
         priority_list' = << >>, active_count' = 0,
         next_id' \in Nat, total_registrations' \in Nat, total_unregistrations' \in Nat
  PROVE  Tables'
<1>1. Unused(x) \in Entry /\ ~ Unused(x).registered
  BY DEF Unused, Entry, Ids, INVALID_ID
<1>2. Registered' = {} /\ entries' \in [Slots -> Entry]
  BY <1>1 DEF Registered
<1>3. Cardinality({}) = 0
  BY FS_EmptySet
<1>4. Range(priority_list') = {} /\ DOMAIN priority_list' = {} /\ priority_list' \in Seq(Slots)
  BY DEF Range
<1> QED
  BY <1>2, <1>3, <1>4 DEF Tables, Distinct

\* Steps that leave the table alone.
LEMMA SameTables ==
  ASSUME Tables, UNCHANGED table
  PROVE  Tables'
BY DEF table, Tables, Distinct, Registered, Before

\* The entry after s in the list: no other entry is between them.
LEMMA NextEntry ==
  ASSUME Tables, NEW s \in Slots \cup {NULL}
  PROVE  /\ Next_(s) \in Slots \cup {NULL}
         /\ s \in Registered =>
              /\ Next_(s) # NULL => Next_(s) \in Registered /\ Before(s, Next_(s))
              /\ \A u \in Registered :
                   Before(s, u) => Next_(s) # NULL /\ (u = Next_(s) \/ Before(Next_(s), u))
         /\ s \notin Registered => Next_(s) = NULL
<1>0. /\ Len(priority_list) \in Nat
      /\ DOMAIN priority_list = 1 .. Len(priority_list)
      /\ \A k \in 1 .. Len(priority_list) :
           priority_list[k] \in Registered /\ priority_list[k] \in Slots
      /\ \A u \in Registered : \E k \in 1 .. Len(priority_list) : u = priority_list[k]
      /\ Range(priority_list) = Registered
  BY ListFacts DEF Tables
<1>1. CASE s \notin Registered
  BY <1>0, <1>1 DEF Next_
<1>2. CASE s \in Registered
  <2> DEFINE k == CHOOSE k \in DOMAIN priority_list : priority_list[k] = s
  <2>1. k \in 1 .. Len(priority_list) /\ priority_list[k] = s
    BY <1>0, <1>2
  <2>2. Next_(s) = IF k < Len(priority_list) THEN priority_list[k + 1] ELSE NULL
    BY <1>0, <1>2 DEF Next_
  <2> HIDE DEF k
  <2>3. CASE k < Len(priority_list)
    <3>1. /\ k + 1 \in 1 .. Len(priority_list) /\ Next_(s) = priority_list[k + 1]
          /\ Next_(s) \in Registered /\ Next_(s) \in Slots /\ Next_(s) # NULL
      BY <1>0, <2>1, <2>2, <2>3, SlotsFinite
    <3>2. Before(s, Next_(s))
      BY <1>0, <2>1, <3>1 DEF Tables
    <3>3. ASSUME NEW u \in Registered, Before(s, u)
          PROVE  u = Next_(s) \/ Before(Next_(s), u)
      <4>1. PICK j \in 1 .. Len(priority_list) : u = priority_list[j]
        BY <1>0
      <4>2. ~ (j <= k)
        <5>1. j < k => Before(u, s)
          BY <1>0, <2>1, <4>1 DEF Tables
        <5>2. ~ Before(u, s) /\ u # s
          BY <1>0, <2>1, <3>3, <4>1, BeforeOrder
        <5> QED
          BY <2>1, <4>1, <5>1, <5>2
      <4>3. j = k + 1 \/ k + 1 < j
        BY <2>1, <4>2
      <4> QED
        BY <1>0, <3>1, <4>1, <4>3 DEF Tables
    <3> QED
      BY <1>2, <3>1, <3>2, <3>3
  <2>4. CASE ~ (k < Len(priority_list))
    <3>1. Next_(s) = NULL
      BY <2>2, <2>4
    <3>2. ASSUME NEW u \in Registered PROVE ~ Before(s, u)
      <4>1. PICK j \in 1 .. Len(priority_list) : u = priority_list[j]
        BY <1>0
      <4>2. j = k \/ j < k
        BY <1>0, <2>1, <2>4
      <4>3. u = s \/ Before(u, s)
        BY <1>0, <2>1, <4>1, <4>2 DEF Tables
      <4> QED
        BY <1>0, <2>1, <4>1, <4>3, BeforeOrder
    <3> QED
      BY <3>1, <3>2
  <2> QED
    BY <2>3, <2>4
<1> QED
  BY <1>1, <1>2

\* The first entry of the list.
LEMMA FirstEntry ==
  ASSUME Tables
  PROVE  /\ First \in Slots \cup {NULL}
         /\ First # NULL => First \in Registered
         /\ \A u \in Registered : First # NULL /\ (u = First \/ Before(First, u))
<1>0. /\ Len(priority_list) \in Nat
      /\ DOMAIN priority_list = 1 .. Len(priority_list)
      /\ \A k \in 1 .. Len(priority_list) :
           priority_list[k] \in Registered /\ priority_list[k] \in Slots
      /\ \A u \in Registered : \E k \in 1 .. Len(priority_list) : u = priority_list[k]
  BY ListFacts
<1>1. CASE priority_list = << >>
  <2>1. Registered = {}
    BY <1>0, <1>1
  <2> QED
    BY <1>1, <2>1 DEF First
<1>2. CASE priority_list # << >>
  <2>1. Len(priority_list) > 0 /\ First = priority_list[1]
    <3>1. priority_list \in Seq(Slots)
      BY DEF Tables
    <3> QED
      BY <1>2, <3>1, HeadTailProperties, EmptySeq DEF First
  <2>2. First \in Registered /\ First \in Slots /\ First # NULL
    BY <1>0, <2>1, SlotsFinite
  <2>3. ASSUME NEW u \in Registered PROVE u = First \/ Before(First, u)
    <3>1. PICK j \in 1 .. Len(priority_list) : u = priority_list[j]
      BY <1>0
    <3>2. j = 1 \/ 1 < j
      OBVIOUS
    <3> QED
      BY <1>0, <2>1, <3>1, <3>2 DEF Tables
  <2> QED
    BY <2>2, <2>3
<1> QED
  BY <1>1, <1>2
-----------------------------------------------------------------------------
(* The calls.                                                              *)

LEMMA RequestTypes ==
  ASSUME NEW r \in Requests \cup {NoCall}
  PROVE  /\ r.op = "register" => r.name \in Names \cup {NoName} /\ r.priority \in Priorities
         /\ r.op = "unregister" => r.id \in Int
         /\ r.op = "enable" => r.id \in Int /\ r.enabled \in BOOLEAN
<1>1. CASE r \in [op : {"register"}, name : Names \cup {NoName}, priority : Priorities]
  BY <1>1
<1>2. CASE r \in [op : {"unregister"}, id : 1 .. MaxId]
  BY <1>2
<1>3. CASE r \in [op : {"enable"}, id : 1 .. MaxId, enabled : BOOLEAN]
  BY <1>3
<1>4. CASE r \in [op : {"execute", "diagnostics", "shutdown"}]
  BY <1>4
<1>5. CASE r = NoCall
  BY <1>5 DEF NoCall
<1> QED
  BY <1>1, <1>2, <1>3, <1>4, <1>5 DEF Requests

\* The fields of a pass.
LEMMA PassTypes ==
  ASSUME NEW p \in Pass
  PROVE  /\ p.entry \in Slots \cup {NULL}
         /\ p.ran \in Seq(Nat \X Ids) /\ Len(p.ran) \in Nat /\ DOMAIN p.ran = 1 .. Len(p.ran)
         /\ \A k \in 1 .. Len(p.ran) : p.ran[k] \in Nat \X Int
         /\ p.steady \in SUBSET Ids
         /\ \A x \in Slots \cup {NULL} :
              /\ [p EXCEPT !.entry = x] \in Pass
              /\ [p EXCEPT !.entry = x].entry = x
              /\ [p EXCEPT !.entry = x].ran = p.ran
              /\ [p EXCEPT !.entry = x].steady = p.steady
         /\ \A x \in Seq(Nat \X Ids) :
              /\ [p EXCEPT !.ran = x] \in Pass
              /\ [p EXCEPT !.ran = x].entry = p.entry
              /\ [p EXCEPT !.ran = x].ran = x
              /\ [p EXCEPT !.ran = x].steady = p.steady
         /\ \A x \in SUBSET Ids :
              /\ [p EXCEPT !.steady = x] \in Pass
              /\ [p EXCEPT !.steady = x].entry = p.entry
              /\ [p EXCEPT !.steady = x].ran = p.ran
              /\ [p EXCEPT !.steady = x].steady = x
<1>1. p.entry \in Slots \cup {NULL} /\ p.ran \in Seq(Nat \X Ids) /\ p.steady \in SUBSET Ids
  BY DEF Pass
<1>2. /\ Len(p.ran) \in Nat /\ DOMAIN p.ran = 1 .. Len(p.ran)
      /\ \A k \in 1 .. Len(p.ran) : p.ran[k] \in Nat \X Ids
  BY <1>1, LenProperties, ElementOfSeq
<1>3. \A k \in 1 .. Len(p.ran) : p.ran[k] \in Nat \X Int
  BY <1>2 DEF Ids, INVALID_ID
<1>4. p = [entry |-> p.entry, ran |-> p.ran, steady |-> p.steady]
  BY DEF Pass
<1>5. ASSUME NEW x \in Slots \cup {NULL}
      PROVE  [p EXCEPT !.entry = x] = [entry |-> x, ran |-> p.ran, steady |-> p.steady]
  BY DEF Pass
<1>6. ASSUME NEW x \in Seq(Nat \X Ids)
      PROVE  [p EXCEPT !.ran = x] = [entry |-> p.entry, ran |-> x, steady |-> p.steady]
  BY DEF Pass
<1>7. ASSUME NEW x \in SUBSET Ids
      PROVE  [p EXCEPT !.steady = x] = [entry |-> p.entry, ran |-> p.ran, steady |-> x]
  BY DEF Pass
<1> QED
  BY <1>1, <1>2, <1>3, <1>5, <1>6, <1>7 DEF Pass

\* The stack of passes of a thread.
LEMMA Stacks ==
  ASSUME Control, NEW t \in Threads
  PROVE  /\ passes[t] \in Seq(Pass) /\ Len(passes[t]) \in Nat
         /\ DOMAIN passes[t] = 1 .. Len(passes[t])
         /\ \A d \in 1 .. Len(passes[t]) : passes[t][d] \in Pass
         /\ passes[t] # << >> <=> Len(passes[t]) > 0
         /\ passes = [passes EXCEPT ![t] = passes[t]]
<1>1. passes[t] \in Seq(Pass) /\ passes = [passes EXCEPT ![t] = passes[t]]
  BY DEF Control
<1>2. /\ Len(passes[t]) \in Nat /\ DOMAIN passes[t] = 1 .. Len(passes[t])
      /\ \A d \in 1 .. Len(passes[t]) : passes[t][d] \in Pass
  BY <1>1, LenProperties, ElementOfSeq
<1>3. passes[t] # << >> <=> Len(passes[t]) > 0
  BY <1>1, <1>2, EmptySeq
<1> QED
  BY <1>1, <1>2, <1>3

\* A stack with its last pass changed, or with one added.
LEMMA StackSteps ==
  ASSUME NEW s \in Seq(Pass), NEW p \in Pass
  PROVE  /\ [s EXCEPT ![Len(s)] = p] \in Seq(Pass)
         /\ Len([s EXCEPT ![Len(s)] = p]) = Len(s)
         /\ s # << >> => [s EXCEPT ![Len(s)] = p][Len(s)] = p
         /\ \A d \in 1 .. Len(s) : d # Len(s) => [s EXCEPT ![Len(s)] = p][d] = s[d]
         /\ Append(s, p) \in Seq(Pass) /\ Len(Append(s, p)) = Len(s) + 1
         /\ Append(s, p)[Len(s) + 1] = p
         /\ \A d \in 1 .. Len(s) : Append(s, p)[d] = s[d]
<1>1. PICK n \in Nat : n = Len(s) /\ (s # << >> => n > 0)
  BY LenProperties, EmptySeq
<1>2. DOMAIN s = 1 .. n /\ \A d \in 1 .. n : s[d] \in Pass
  BY <1>1, LenProperties, ElementOfSeq
<1> DEFINE r == [s EXCEPT ![n] = p]
<1>3. r = [d \in 1 .. n |-> IF d = n THEN p ELSE s[d]]
  BY <1>2
<1> HIDE DEF r
<1>4. /\ r \in [1 .. n -> Pass]
      /\ n > 0 => r[n] = p
      /\ \A d \in 1 .. n : d # n => r[d] = s[d]
  <2>1. \A d \in 1 .. n : r[d] = IF d = n THEN p ELSE s[d]
    BY <1>3
  <2>2. r \in [1 .. n -> Pass]
    BY <1>2, <1>3, <2>1
  <2>3. n > 0 => n \in 1 .. n
    OBVIOUS
  <2> QED
    BY <2>1, <2>2, <2>3
<1>5. r \in Seq(Pass) /\ Len(r) = n
  BY <1>4, FunctionAsSequence
<1>6. /\ Append(s, p) \in Seq(Pass) /\ Len(Append(s, p)) = Len(s) + 1
      /\ Append(s, p)[Len(s) + 1] = p
      /\ \A d \in 1 .. Len(s) : Append(s, p)[d] = s[d]
  BY AppendProperties
<1> QED
  BY <1>1, <1>4, <1>5, <1>6 DEF r

\* A stack with its last pass taken off.
LEMMA FrontTypes ==
  ASSUME NEW s \in Seq(Pass), s # << >>
  PROVE  /\ Front(s) \in Seq(Pass) /\ Len(Front(s)) = Len(s) - 1
         /\ \A d \in 1 .. Len(s) - 1 : Front(s)[d] = s[d]
<1>1. PICK n \in Nat : n = Len(s) /\ n > 0
  BY LenProperties, EmptySeq
<1>2. n - 1 \in Int /\ 1 \in Int /\ \A i \in 1 .. n - 1 : s[i] \in Pass
  BY <1>1, ElementOfSeq
<1>3. Front(s) = SubSeq(s, 1, n - 1)
  BY <1>1 DEF Front
<1>4. /\ SubSeq(s, 1, n - 1) \in Seq(Pass)
      /\ Len(SubSeq(s, 1, n - 1)) = IF 1 <= n - 1 THEN n - 1 - 1 + 1 ELSE 0
      /\ \A d \in 1 .. n - 1 - 1 + 1 : SubSeq(s, 1, n - 1)[d] = s[1 + d - 1]
  BY <1>2, SubSeqProperties
<1>5. \A d \in 1 .. n - 1 : SubSeq(s, 1, n - 1)[d] = s[d]
  BY <1>4
<1> QED
  BY <1>1, <1>3, <1>4, <1>5

\* How often a thread at a place holds the mutex.
HoldsAt(place, stack) == Len(stack) + (IF place = "locked" THEN 1 ELSE 0)

\* A step of one thread is right about the mutex if it counts what it takes and
\* what it gives up.
LEMMA Moves ==
  ASSUME Control, NEW t \in Threads, NEW to \in Places, NEW stack \in Seq(Pass),
         pc' = [pc EXCEPT ![t] = to], passes' = [passes EXCEPT ![t] = stack],
         to \in {"walk", "callback"} => stack # << >>,
         to = "idle" => stack = << >>,
         \/ /\ HoldsAt(to, stack) = HoldsAt(pc[t], passes[t]) + 1
            /\ owner \in {NoThread, t} /\ owner' = t /\ locks' = locks + 1
         \/ /\ HoldsAt(to, stack) = HoldsAt(pc[t], passes[t]) - 1
            /\ Unlock
         \/ /\ HoldsAt(to, stack) = HoldsAt(pc[t], passes[t])
            /\ UNCHANGED <<owner, locks>>,
         req' \in [Threads -> Requests \cup {NoCall}],
         entry' \in [Threads -> Slots \cup {NULL}],
         calls' \in 0 .. MaxCalls,
         initialized' \in BOOLEAN, alive' \in BOOLEAN
  PROVE  Control'
<1>1. /\ pc' \in [Threads -> Places] /\ passes' \in [Threads -> Seq(Pass)]
      /\ pc'[t] = to /\ passes'[t] = stack
      /\ \A u \in Threads : u # t => pc'[u] = pc[u] /\ passes'[u] = passes[u]
  BY DEF Control
<1>2. /\ \A u \in Threads : Holds(u) = HoldsAt(pc[u], passes[u])
      /\ Holds(t)' = HoldsAt(to, stack)
      /\ \A u \in Threads : u # t => Holds(u)' = Holds(u)
  BY <1>1 DEF Holds, HoldsAt
<1>3. /\ \A u \in Threads : Holds(u) \in Nat
      /\ HoldsAt(to, stack) \in Nat
  <2>1. \A u \in Threads : Len(passes[u]) \in Nat
    BY Stacks
  <2>2. Len(stack) \in Nat
    BY LenProperties
  <2>3. \A n \in Nat : \A b \in BOOLEAN : n + (IF b THEN 1 ELSE 0) \in Nat
    OBVIOUS
  <2>4. HoldsAt(to, stack) \in Nat
    BY <2>2, <2>3 DEF HoldsAt
  <2>5. ASSUME NEW u \in Threads PROVE Holds(u) \in Nat
    BY <2>1, <2>3 DEF Holds
  <2> QED
    BY <2>4, <2>5
<1>4. /\ owner = NoThread <=> locks = 0
      /\ \A u \in Threads : Holds(u) = IF owner = u THEN locks ELSE 0
      /\ locks \in Nat /\ NoThread \notin Threads /\ owner \in Threads \cup {NoThread}
  BY ManagerAssumption DEF Control, MutexReleased
<1>5. /\ owner' \in Threads \cup {NoThread} /\ locks' \in Nat
      /\ owner' = NoThread <=> locks' = 0
      /\ \A u \in Threads : Holds(u)' = IF owner' = u THEN locks' ELSE 0
  <2> DEFINE h == HoldsAt(to, stack)
  <2> HIDE DEF h
  <2>1. Holds(t)' = h /\ h \in Nat
    BY <1>2, <1>3 DEF h
  <2>2. CASE h = Holds(t) + 1 /\ owner \in {NoThread, t} /\ owner' = t /\ locks' = locks + 1
    BY <1>2, <1>4, <2>1, <2>2
  <2>3. CASE h = Holds(t) - 1 /\ Unlock
    <3>1. owner = t /\ locks = Holds(t) /\ locks > 0
      BY <1>3, <1>4, <2>1, <2>3
    <3>2. locks' = locks - 1 /\ owner' = IF locks = 1 THEN NoThread ELSE owner
      BY <2>3 DEF Unlock
    <3> QED
      BY <1>2, <1>4, <2>1, <2>3, <3>1, <3>2
  <2>4. CASE h = Holds(t) /\ UNCHANGED <<owner, locks>>
    BY <1>2, <1>4, <2>1, <2>4
  <2> QED
    BY <1>2, <2>2, <2>3, <2>4 DEF h
<1>6. \A u \in Threads :
        /\ pc'[u] \in {"walk", "callback"} => passes'[u] # << >>
        /\ pc'[u] = "idle" => passes'[u] = << >>
  BY <1>1 DEF Control
<1>7. MutexReleased'
  BY <1>5 DEF MutexReleased
<1> QED
  BY <1>1, <1>5, <1>6, <1>7 DEF Control

\* Where a call returns to.
BackTo(stack) == IF stack = << >> THEN "idle" ELSE "callback"

\* A call that returns, and gives up the mutex once if it holds it once more
\* than what it returns to.
LEMMA Returns ==
  ASSUME Control, NEW t \in Threads, NEW from, NEW code, NEW stack \in Seq(Pass),
         Return(t, from, code, stack),
         \/ Len(stack) = HoldsAt(from, passes[t]) - 1 /\ Unlock
         \/ Len(stack) = HoldsAt(from, passes[t]) /\ UNCHANGED <<owner, locks>>,
         calls' \in 0 .. MaxCalls,
         initialized' \in BOOLEAN, alive' \in BOOLEAN
  PROVE  /\ Control' /\ pc[t] = from /\ pc' = [pc EXCEPT ![t] = BackTo(stack)]
         /\ passes' = [passes EXCEPT ![t] = stack]
         /\ req' = [req EXCEPT ![t] = NoCall]
<1>1. /\ pc[t] = from /\ pc' = [pc EXCEPT ![t] = BackTo(stack)]
      /\ passes' = [passes EXCEPT ![t] = stack]
      /\ req' = [req EXCEPT ![t] = NoCall]
      /\ entry' = [entry EXCEPT ![t] = NULL]
  BY DEF Return, Goto, BackTo
<1>2. /\ req' \in [Threads -> Requests \cup {NoCall}]
      /\ entry' \in [Threads -> Slots \cup {NULL}]
  BY <1>1 DEF Control
<1>3. HoldsAt(BackTo(stack), stack) = Len(stack)
  <2>1. Len(stack) \in Nat
    BY LenProperties
  <2> QED
    BY <2>1 DEF HoldsAt, BackTo
<1>4. /\ BackTo(stack) \in Places
      /\ BackTo(stack) \in {"walk", "callback"} => stack # << >>
      /\ BackTo(stack) = "idle" => stack = << >>
  BY DEF BackTo, Places
<1>5. Control'
  BY <1>1, <1>2, <1>3, <1>4, Moves
<1> QED
  BY <1>1, <1>5

LEMMA InitIInv == Init => IInv
<1> SUFFICES ASSUME Init PROVE IInv
  OBVIOUS
<1> USE ManagerAssumption
<1>1. Tables
  <2>1. Unused(INVALID_ID) \in Entry /\ ~ Unused(INVALID_ID).registered
    BY DEF Unused, Entry, Ids, INVALID_ID
  <2>2. Registered = {} /\ entries \in [Slots -> Entry]
    BY <2>1 DEF Init, Registered
  <2>3. Cardinality({}) = 0
    BY FS_EmptySet
  <2>4. Range(priority_list) = {} /\ DOMAIN priority_list = {} /\ priority_list \in Seq(Slots)
    BY DEF Init, Range
  <2> QED
    BY <2>2, <2>3, <2>4 DEF Init, Tables, Distinct
<1>2. Control
  BY DEF Init, Control, MutexReleased, Holds, Places
<1>3. Balanced
  BY DEF Init, Balanced
<1> QED
  BY <1>1, <1>2, <1>3 DEF IInv

\* Steps that move the counters together and take no thread out of a shutdown.
LEMMA BalanceKept ==
  ASSUME IInv, initialized' => initialized,
         \A t \in Threads : pc[t] \in Ending => pc'[t] \in Ending,
         active_count = total_registrations - total_unregistrations =>
           active_count' = total_registrations' - total_unregistrations'
  PROVE  Balanced'
BY DEF IInv, Balanced

\* Nobody is in a call: the manager is initialized anew, or that fails.
LEMMA InitSteps ==
  ASSUME IInv, callback_manager_init \/ InitFails
  PROVE  IInv'
<1>1. Tables'
  <2>1. CASE callback_manager_init
    BY <2>1, ClearedTables DEF callback_manager_init
  <2>2. CASE InitFails
    BY <2>2, ClearedTables DEF InitFails
  <2> QED
    BY <2>1, <2>2
<1>2. Control'
  <2>1. calls' \in 0 .. MaxCalls
    BY ManagerAssumption DEF callback_manager_init, InitFails, IInv, Control
  <2>2. UNCHANGED <<owner, locks, pc, req, entry, passes>>
    BY DEF callback_manager_init, InitFails, mutex, locals
  <2>3. initialized' \in BOOLEAN /\ alive' \in BOOLEAN
    BY DEF callback_manager_init, InitFails, mutex, IInv, Control
  <2> QED
    BY <2>1, <2>2, <2>3 DEF IInv, Control, MutexReleased, Holds
<1>3. Balanced'
  <2>1. CASE callback_manager_init
    BY <2>1 DEF callback_manager_init, Balanced
  <2>2. CASE InitFails
    BY <2>2 DEF InitFails, Balanced
  <2> QED
    BY <2>1, <2>2
<1> QED
  BY <1>1, <1>2, <1>3 DEF IInv

\* Who may call: a thread outside the manager, or a callback.
LEMMA CallSteps ==
  ASSUME IInv, NEW t \in Threads, NEW r \in Requests, Call(t, r) \/ Refuse(t, r)
  PROVE  IInv'
<1>1. calls' \in 0 .. MaxCalls
  BY ManagerAssumption DEF Call, Refuse, MayCall, IInv, Control
<1>2. /\ UNCHANGED <<table, initialized, owner, locks, alive>>
      /\ pc[t] \in UserCode
      /\ initialized' \in BOOLEAN /\ alive' \in BOOLEAN
  BY DEF Call, Refuse, MayCall, mutex, IInv, Control
<1>3. /\ passes[t] \in Seq(Pass) /\ passes = [passes EXCEPT ![t] = passes[t]]
      /\ Len(passes[t]) \in Nat
  BY Stacks DEF IInv
<1>4. HoldsAt(pc[t], passes[t]) = Len(passes[t])
  <2>1. pc[t] # "locked"
    BY <1>2 DEF UserCode
  <2> QED
    BY <1>3, <2>1 DEF HoldsAt
<1>5. Control' /\ \E to \in Places : pc' = [pc EXCEPT ![t] = to]
  <2>1. CASE Call(t, r)
    <3>1. /\ pc' = [pc EXCEPT ![t] = "lock"] /\ entry' = entry
          /\ passes' = [passes EXCEPT ![t] = passes[t]]
          /\ req' \in [Threads -> Requests \cup {NoCall}]
          /\ entry' \in [Threads -> Slots \cup {NULL}]
      BY <1>3, <2>1 DEF Call, Goto, IInv, Control
    <3>2. HoldsAt("lock", passes[t]) = Len(passes[t])
      BY <1>3 DEF HoldsAt
    <3>3. "lock" \in Places
      BY DEF Places
    <3>4. Control'
      BY <1>1, <1>2, <1>3, <1>4, <3>1, <3>2, <3>3, Moves DEF IInv
    <3> QED
      BY <3>1, <3>3, <3>4
  <2>2. CASE Refuse(t, r)
    <3>1. PICK code : Return(t, pc[t], code, passes[t])
      BY <2>2 DEF Refuse
    <3>2. Control' /\ pc' = [pc EXCEPT ![t] = BackTo(passes[t])]
      BY <1>1, <1>2, <1>3, <1>4, <3>1, Returns DEF IInv
    <3>3. BackTo(passes[t]) \in Places
      BY DEF BackTo, Places
    <3> QED
      BY <3>2, <3>3
  <2> QED
    BY <2>1, <2>2
<1>6. Tables'
  BY <1>2, SameTables DEF IInv
<1>7. Balanced'
  <2>1. \A u \in Threads : pc[u] \in Ending => pc'[u] \in Ending
    BY <1>2, <1>5 DEF Ending, UserCode, IInv, Control
  <2> QED
    BY <1>2, <2>1, BalanceKept DEF table
<1> QED
  BY <1>5, <1>6, <1>7 DEF IInv

\* The passes around a call keep their shape when the table changes.
LEMMA StillTypes ==
  ASSUME NEW s \in Seq(Pass)
  PROVE  /\ Still(s) \in Seq(Pass) /\ Len(Still(s)) = Len(s)
         /\ \A d \in 1 .. Len(s) :
              /\ Still(s)[d] \in Pass
              /\ Still(s)[d].entry = s[d].entry /\ Still(s)[d].ran = s[d].ran
              /\ Still(s)[d].steady = s[d].steady \cap EnabledIds'
<1>1. Len(s) \in Nat /\ DOMAIN s = 1 .. Len(s) /\ \A d \in 1 .. Len(s) : s[d] \in Pass
  BY LenProperties, ElementOfSeq
<1>2. ASSUME NEW d \in 1 .. Len(s)
      PROVE  /\ Still(s)[d] \in Pass
             /\ Still(s)[d].entry = s[d].entry /\ Still(s)[d].ran = s[d].ran
             /\ Still(s)[d].steady = s[d].steady \cap EnabledIds'
  <2> DEFINE st == s[d].steady \cap EnabledIds'
  <2>1. Still(s)[d] = [s[d] EXCEPT !.steady = st]
    BY <1>1 DEF Still
  <2>2. s[d] \in Pass /\ st \in SUBSET Ids
    BY <1>1, PassTypes
  <2> HIDE DEF st
  <2>3. \A x \in SUBSET Ids :
              /\ [s[d] EXCEPT !.steady = x] \in Pass
              /\ [s[d] EXCEPT !.steady = x].entry = s[d].entry
              /\ [s[d] EXCEPT !.steady = x].ran = s[d].ran
              /\ [s[d] EXCEPT !.steady = x].steady = x
    BY <2>2, PassTypes
  <2>4. /\ Still(s)[d] \in Pass /\ Still(s)[d].entry = s[d].entry
        /\ Still(s)[d].ran = s[d].ran /\ Still(s)[d].steady = st
    BY Zenon, <2>1, <2>2, <2>3
  <2> QED
    BY <2>4 DEF st
<1>3. Still(s) = [d \in 1 .. Len(s) |-> Still(s)[d]]
  BY <1>1 DEF Still
<1>4. Still(s) \in [1 .. Len(s) -> Pass]
  BY <1>2, <1>3
<1> QED
  BY <1>1, <1>2, <1>4, FunctionAsSequence

\* A step of a thread that does not leave a shutdown.
LEMMA StepKeeps ==
  ASSUME IInv, NEW t \in Threads, NEW to, pc' = [pc EXCEPT ![t] = to],
         pc[t] \in Ending => to \in Ending,
         Control', Tables', initialized' = initialized,
         active_count = total_registrations - total_unregistrations =>
           active_count' = total_registrations' - total_unregistrations'
  PROVE  IInv'
<1>1. \A u \in Threads : pc[u] \in Ending => pc'[u] \in Ending
  BY DEF IInv, Control
<1>2. Balanced'
  BY <1>1, BalanceKept
<1> QED
  BY <1>2 DEF IInv

\* The operations that do their work under the mutex and release it.
LEMMA OperationSteps ==
  ASSUME IInv, NEW t \in Threads,
         \/ callback_register(t) \/ callback_unregister(t) \/ callback_set_enabled(t)
         \/ Diagnostics(t)
  PROVE  IInv'
<1>1. UNCHANGED <<initialized, alive, calls>> /\ Unlock
  BY DEF callback_register, callback_unregister, callback_set_enabled, Diagnostics, Unlock
<1>2. req[t] \in Requests \cup {NoCall}
  BY DEF IInv, Control
<1>3. calls' \in 0 .. MaxCalls /\ initialized' \in BOOLEAN /\ alive' \in BOOLEAN
  BY <1>1 DEF IInv, Control
<1>4. /\ passes[t] \in Seq(Pass) /\ passes = [passes EXCEPT ![t] = passes[t]]
      /\ Len(passes[t]) \in Nat /\ HoldsAt("locked", passes[t]) = Len(passes[t]) + 1
      /\ HoldsAt("return", passes[t]) = Len(passes[t])
      /\ Still(passes[t]) \in Seq(Pass) /\ Len(Still(passes[t])) = Len(passes[t])
  BY Stacks, StillTypes DEF IInv, HoldsAt
\* A call that returns has counted the mutex right; what is left is the table.
<1>5. ASSUME NEW code, NEW stack \in Seq(Pass), Len(stack) = Len(passes[t]),
             Return(t, "locked", code, stack), Tables',
             active_count = total_registrations - total_unregistrations =>
               active_count' = total_registrations' - total_unregistrations'
      PROVE  IInv'
  <2>1. Len(stack) = HoldsAt("locked", passes[t]) - 1
    BY <1>4, <1>5
  <2>2. Control' /\ pc[t] = "locked" /\ pc' = [pc EXCEPT ![t] = BackTo(stack)]
    BY <1>1, <1>3, <1>5, <2>1, Returns DEF IInv
  <2> QED
    BY <1>1, <1>5, <2>2, StepKeeps DEF Ending
<1>6. CASE callback_register(t)
  <2>1. /\ Tables'
        /\ active_count = total_registrations - total_unregistrations =>
              active_count' = total_registrations' - total_unregistrations'
    <3>1. /\ Register(req[t].name, req[t].priority)
          /\ req[t].name \in Names \cup {NoName} /\ req[t].priority \in Priorities
      BY <1>2, <1>6, RequestTypes DEF callback_register
    <3> QED
      BY <3>1, RegisterTables DEF IInv
  <2>2. CASE RegisterCode(req[t].name) = CB_SUCCESS
    <3>1. /\ pc[t] = "locked" /\ pc' = [pc EXCEPT ![t] = "return"]
          /\ entry' = [entry EXCEPT ![t] = Min(FreeSlots)]
          /\ req' = req /\ passes' = [passes EXCEPT ![t] = passes[t]]
      BY <1>4, <1>6, <2>2 DEF callback_register, Goto
    <3>2. Min(FreeSlots) \in Slots
      <4>1. FreeSlots \in SUBSET Nat /\ FreeSlots \subseteq Slots
        BY SlotsFinite DEF FreeSlots
      <4>2. FreeSlots # {}
        BY <2>2 DEF RegisterCode, CB_SUCCESS, CB_ERROR_ALREADY_EXISTS, CB_ERROR_NO_MEMORY
      <4> QED
        BY <4>1, <4>2, MinProperties
    <3>3. entry' \in [Threads -> Slots \cup {NULL}] /\ req' \in [Threads -> Requests \cup {NoCall}]
      BY <3>1, <3>2 DEF IInv, Control
    <3>4. HoldsAt("return", passes[t]) = HoldsAt(pc[t], passes[t]) - 1
      BY <1>4, <3>1
    <3>5. "return" \in Places /\ "return" \notin {"walk", "callback"}
      BY DEF Places
    <3>6. Control'
      BY <1>1, <1>3, <1>4, <3>1, <3>3, <3>4, <3>5, Moves DEF IInv
    <3> QED
      BY <1>1, <2>1, <3>1, <3>6, StepKeeps DEF Ending
  <2>3. CASE RegisterCode(req[t].name) # CB_SUCCESS
    <3>1. Return(t, "locked", RegisterCode(req[t].name), passes[t])
      BY <1>6, <2>3 DEF callback_register
    <3> QED
      BY <1>4, <1>5, <2>1, <3>1
  <2> QED
    BY <2>2, <2>3
<1>7. CASE callback_unregister(t)
  <2>1. Unregister(req[t].id) /\ req[t].id \in Int
    BY <1>2, <1>7, RequestTypes DEF callback_unregister
  <2>2. /\ Tables'
        /\ active_count = total_registrations - total_unregistrations =>
              active_count' = total_registrations' - total_unregistrations'
    BY <2>1, UnregisterTables DEF IInv
  <2>3. Return(t, "locked", FoundCode(req[t].id), Still(passes[t]))
    BY <1>7 DEF callback_unregister
  <2> QED
    BY <1>4, <1>5, <2>2, <2>3
<1>8. CASE callback_set_enabled(t)
  <2>1. /\ SetEnabled(req[t].id, req[t].enabled)
        /\ req[t].id \in Int /\ req[t].enabled \in BOOLEAN
    BY <1>2, <1>8, RequestTypes DEF callback_set_enabled
  <2>2. /\ Tables'
        /\ UNCHANGED <<active_count, total_registrations, total_unregistrations>>
    BY <2>1, SetEnabledTables DEF IInv
  <2>3. Return(t, "locked", FoundCode(req[t].id), Still(passes[t]))
    BY <1>8 DEF callback_set_enabled
  <2> QED
    BY <1>4, <1>5, <2>2, <2>3
<1>9. CASE Diagnostics(t)
  <2>1. UNCHANGED table /\ Return(t, "locked", CB_SUCCESS, passes[t])
    BY <1>9 DEF Diagnostics
  <2>2. Tables'
    BY <2>1, SameTables DEF IInv
  <2> QED
    BY <1>4, <1>5, <2>1, <2>2 DEF table
<1> QED
  BY <1>6, <1>7, <1>8, <1>9

\* What a pass becomes in a step is a pass.
LEMMA TopSteps ==
  ASSUME IInv, NEW t \in Threads, passes[t] # << >>
  PROVE  /\ Top(t) \in Pass /\ Top(t) = passes[t][Len(passes[t])]
         /\ Current(t) = Top(t).entry
         /\ Advance(t) =>
              /\ [Top(t) EXCEPT !.entry = Next_(Current(t))] \in Pass
              /\ passes' = [passes EXCEPT ![t] =
                   [passes[t] EXCEPT ![Len(passes[t])] =
                      [Top(t) EXCEPT !.entry = Next_(Current(t))]]]
         /\ Invoke(t) =>
              /\ Append(Top(t).ran, KeyIn(entries, Current(t))) \in Seq(Nat \X Ids)
              /\ [Top(t) EXCEPT !.ran = Append(@, KeyIn(entries, Current(t)))] \in Pass
              /\ passes' = [passes EXCEPT ![t] =
                   [passes[t] EXCEPT ![Len(passes[t])] =
                      [Top(t) EXCEPT !.ran = Append(@, KeyIn(entries, Current(t)))]]]
<1>1. /\ Top(t) \in Pass /\ Top(t) = passes[t][Len(passes[t])]
      /\ Current(t) = Top(t).entry
  BY Stacks DEF IInv, Top, Current
<1>2. ASSUME Advance(t)
      PROVE  /\ [Top(t) EXCEPT !.entry = Next_(Current(t))] \in Pass
             /\ passes' = [passes EXCEPT ![t] =
                  [passes[t] EXCEPT ![Len(passes[t])] =
                     [Top(t) EXCEPT !.entry = Next_(Current(t))]]]
  <2>1. Current(t) \in Slots \cup {NULL}
    BY <1>1, PassTypes
  <2>2. Next_(Current(t)) \in Slots \cup {NULL}
    BY <2>1, NextEntry DEF IInv
  <2>3. [Top(t) EXCEPT !.entry = Next_(Current(t))] \in Pass
    BY <1>1, <2>2, PassTypes
  <2>4. passes' = [passes EXCEPT ![t][Len(passes[t])].entry =
                     Next_(passes[t][Len(passes[t])].entry)]
    BY <1>2 DEF Advance
  <2> QED
    BY <2>3, <2>4 DEF Top, Current
<1>3. ASSUME Invoke(t)
      PROVE  /\ Append(Top(t).ran, KeyIn(entries, Current(t))) \in Seq(Nat \X Ids)
             /\ [Top(t) EXCEPT !.ran = Append(@, KeyIn(entries, Current(t)))] \in Pass
             /\ passes' = [passes EXCEPT ![t] =
                  [passes[t] EXCEPT ![Len(passes[t])] =
                     [Top(t) EXCEPT !.ran = Append(@, KeyIn(entries, Current(t)))]]]
  <2>1. Current(t) \in Slots
    BY <1>1, <1>3, PassTypes DEF Invoke
  <2>2. KeyIn(entries, Current(t)) \in Nat \X Ids
    BY <2>1, EntryTypes DEF IInv, KeyIn
  <2>3. Append(Top(t).ran, KeyIn(entries, Current(t))) \in Seq(Nat \X Ids)
    BY <1>1, <2>2, PassTypes, AppendProperties
  <2>4. [Top(t) EXCEPT !.ran = Append(@, KeyIn(entries, Current(t)))] \in Pass
    BY <1>1, <2>3, PassTypes
  <2>5. passes' = [passes EXCEPT ![t][Len(passes[t])].ran =
                     Append(@, <<entries[Current(t)].priority, entries[Current(t)].id>>)]
    BY <1>3 DEF Invoke
  <2> QED
    BY <2>3, <2>4, <2>5 DEF Top, Current, KeyIn
<1> QED
  BY <1>1, <1>2, <1>3

\* The other steps of a call but the end of a shutdown leave the table alone.
LEMMA QuietSteps ==
  ASSUME IInv, NEW t \in Threads,
         \/ Lock(t) \/ Timeout(t) \/ ReturnId(t)
         \/ PassBegins(t) \/ Invoke(t) \/ Advance(t) \/ PassEnds(t)
  PROVE  IInv'
<1>1. UNCHANGED <<table, initialized, alive, calls>>
  BY DEF Lock, Timeout, ReturnId, PassBegins, Invoke, Advance, PassEnds, Unlock, mutex
<1>2. calls' \in 0 .. MaxCalls /\ initialized' \in BOOLEAN /\ alive' \in BOOLEAN
  BY <1>1 DEF IInv, Control
<1>3. /\ Tables'
      /\ active_count = total_registrations - total_unregistrations =>
           active_count' = total_registrations' - total_unregistrations'
  BY <1>1, SameTables DEF IInv, table
<1>4. ASSUME NEW from, from \notin Ending, NEW code, NEW stack \in Seq(Pass),
             Return(t, from, code, stack),
             \/ Len(stack) = HoldsAt(from, passes[t]) - 1 /\ Unlock
             \/ Len(stack) = HoldsAt(from, passes[t]) /\ UNCHANGED <<owner, locks>>
      PROVE  IInv'
  <2>1. Control' /\ pc[t] = from /\ pc' = [pc EXCEPT ![t] = BackTo(stack)]
    BY <1>2, <1>4, Returns DEF IInv
  <2> QED
    BY <1>1, <1>3, <1>4, <2>1, StepKeeps
<1>5. ASSUME NEW from, from \notin Ending, NEW to \in Places, Goto(t, from, to),
             to # "idle",
             NEW stack \in Seq(Pass), passes' = [passes EXCEPT ![t] = stack],
             to \in {"walk", "callback"} => stack # << >>,
             \/ /\ HoldsAt(to, stack) = HoldsAt(from, passes[t]) + 1
                /\ owner \in {NoThread, t} /\ owner' = t /\ locks' = locks + 1
             \/ /\ HoldsAt(to, stack) = HoldsAt(from, passes[t])
                /\ UNCHANGED <<owner, locks>>,
             UNCHANGED locals
      PROVE  IInv'
  <2>1. pc[t] = from /\ pc' = [pc EXCEPT ![t] = to]
    BY <1>5 DEF Goto
  <2>2. /\ req' \in [Threads -> Requests \cup {NoCall}]
        /\ entry' \in [Threads -> Slots \cup {NULL}]
    BY <1>5 DEF locals, IInv, Control
  <2>3. Control'
    BY <1>2, <1>5, <2>1, <2>2, Moves DEF IInv
  <2> QED
    BY <1>1, <1>3, <1>5, <2>1, <2>3, StepKeeps
<1>6. /\ passes[t] \in Seq(Pass) /\ passes = [passes EXCEPT ![t] = passes[t]]
      /\ Len(passes[t]) \in Nat /\ passes[t] # << >> <=> Len(passes[t]) > 0
      /\ pc[t] \in {"walk", "callback"} => passes[t] # << >>
  BY Stacks DEF IInv, Control
<1>7. CASE Lock(t)
  <2>1. /\ Goto(t, "lock", "locked") /\ passes' = [passes EXCEPT ![t] = passes[t]]
        /\ owner \in {NoThread, t} /\ owner' = t /\ locks' = locks + 1 /\ UNCHANGED locals
    BY <1>6, <1>7 DEF Lock
  <2>2. /\ HoldsAt("locked", passes[t]) = HoldsAt("lock", passes[t]) + 1
        /\ "locked" \in Places /\ "lock" \notin Ending
    BY <1>6 DEF HoldsAt, Places, Ending
  <2> QED
    BY <1>5, <1>6, <2>1, <2>2
<1>8. CASE Timeout(t)
  <2>1. /\ UNCHANGED <<owner, locks>> /\ "lock" \notin Ending /\ "destroy" \in Places
        /\ HoldsAt("lock", passes[t]) = Len(passes[t])
        /\ HoldsAt("destroy", passes[t]) = Len(passes[t])
    BY <1>6, <1>8 DEF Timeout, mutex, HoldsAt, Ending, Places
  <2>2. CASE req[t].op = "shutdown"
    <3>1. /\ Goto(t, "lock", "destroy") /\ UNCHANGED locals
          /\ passes' = [passes EXCEPT ![t] = passes[t]]
      BY <1>6, <1>8, <2>2 DEF Timeout
    <3> QED
      BY <1>5, <1>6, <2>1, <3>1
  <2>3. CASE req[t].op # "shutdown"
    <3>1. Return(t, "lock", CB_ERROR_TIMEOUT, passes[t])
      BY <1>8, <2>3 DEF Timeout
    <3> QED
      BY <1>4, <1>6, <2>1, <3>1
  <2> QED
    BY <2>2, <2>3
<1>9. CASE ReturnId(t)
  <2>1. Return(t, "return", entries[entry[t]].id, passes[t]) /\ UNCHANGED <<owner, locks>>
    BY <1>9 DEF ReturnId, mutex
  <2>2. HoldsAt("return", passes[t]) = Len(passes[t]) /\ "return" \notin Ending
    BY <1>6 DEF HoldsAt, Ending
  <2> QED
    BY <1>4, <1>6, <2>1, <2>2
<1>10. CASE PassBegins(t)
  <2>1. /\ Goto(t, "locked", "walk") /\ UNCHANGED <<owner, locks>> /\ UNCHANGED locals
        /\ passes' = [passes EXCEPT ![t] = Append(passes[t], NewPass)]
    BY <1>10 DEF PassBegins, mutex
  <2>2. NewPass \in Pass
    <3>1. First \in Slots \cup {NULL} /\ << >> \in Seq(Nat \X Ids)
      BY FirstEntry DEF IInv
    <3>2. EnabledIds \in SUBSET Ids
      BY EntryTypes DEF EnabledIds, Registered, IInv
    <3> QED
      BY <3>1, <3>2 DEF NewPass, Pass
  <2> DEFINE stack == Append(passes[t], NewPass)
  <2>3. stack \in Seq(Pass) /\ Len(stack) = Len(passes[t]) + 1
    BY <1>6, <2>2, StackSteps
  <2>4. /\ HoldsAt("walk", stack) = HoldsAt("locked", passes[t])
        /\ "locked" \notin Ending /\ "walk" \in Places
    BY <1>6, <2>3 DEF HoldsAt, Ending, Places
  <2>5. stack # << >>
    BY <1>6, <2>3
  <2> HIDE DEF stack
  <2> QED
    BY <1>5, <2>1, <2>3, <2>4, <2>5 DEF stack
\* The innermost pass changes and remains.
<1>11. ASSUME NEW from \in {"walk", "callback"}, NEW to \in {"walk", "callback"},
              Goto(t, from, to), UNCHANGED <<owner, locks>>, UNCHANGED locals,
              NEW p \in Pass,
              passes' = [passes EXCEPT ![t] = [passes[t] EXCEPT ![Len(passes[t])] = p]]
       PROVE  IInv'
  <2> DEFINE stack == [passes[t] EXCEPT ![Len(passes[t])] = p]
  <2>1. stack \in Seq(Pass) /\ Len(stack) = Len(passes[t])
    BY <1>6, StackSteps
  <2>2. passes[t] # << >>
    BY <1>6, <1>11 DEF Goto
  <2>3. /\ HoldsAt(to, stack) = HoldsAt(from, passes[t])
        /\ from \notin Ending /\ to \in Places /\ to # "idle"
    BY <2>1 DEF HoldsAt, Ending, Places
  <2>4. stack # << >>
    BY <1>6, <2>1, <2>2
  <2>5. passes' = [passes EXCEPT ![t] = stack]
    BY <1>11
  <2> HIDE DEF stack
  <2> QED
    BY <1>5, <1>11, <2>1, <2>3, <2>4, <2>5
<1>12. CASE Invoke(t)
  <2>1. Goto(t, "walk", "callback") /\ UNCHANGED <<owner, locks>> /\ UNCHANGED locals
    BY <1>12 DEF Invoke, mutex
  <2>2. passes[t] # << >>
    BY <1>6, <2>1 DEF Goto
  <2> QED
    BY <1>11, <1>12, <2>1, <2>2, TopSteps
<1>13. CASE Advance(t)
  <2>1. /\ Goto(t, "callback", "walk") \/ Goto(t, "walk", "walk")
        /\ UNCHANGED <<owner, locks>> /\ UNCHANGED locals
    BY <1>13 DEF Advance, mutex
  <2>2. passes[t] # << >>
    BY <1>6, <2>1 DEF Goto
  <2> QED
    BY <1>11, <1>13, <2>1, <2>2, TopSteps
<1>14. CASE PassEnds(t)
  <2>1. /\ pc[t] = "walk" /\ Return(t, "walk", Len(Top(t).ran), Front(passes[t])) /\ Unlock
    BY <1>14 DEF PassEnds
  <2>2. Front(passes[t]) \in Seq(Pass) /\ Len(Front(passes[t])) = Len(passes[t]) - 1
    BY <1>6, <2>1, FrontTypes
  <2>3. HoldsAt("walk", passes[t]) = Len(passes[t]) /\ "walk" \notin Ending
    BY <1>6 DEF HoldsAt, Ending
  <2> QED
    BY <1>4, <2>1, <2>2, <2>3
<1> QED
  BY <1>7, <1>8, <1>9, <1>10, <1>12, <1>13, <1>14

\* The end of a shutdown.
LEMMA ShutdownSteps ==
  ASSUME IInv, NEW t \in Threads, Clear(t) \/ Destroy(t) \/ ShutdownEnds(t)
  PROVE  IInv'
<1>1. /\ passes[t] \in Seq(Pass) /\ passes = [passes EXCEPT ![t] = passes[t]]
      /\ Len(passes[t]) \in Nat
      /\ Still(passes[t]) \in Seq(Pass) /\ Len(Still(passes[t])) = Len(passes[t])
  BY Stacks, StillTypes DEF IInv
<1>2. /\ HoldsAt("locked", passes[t]) = Len(passes[t]) + 1
      /\ HoldsAt("destroy", passes[t]) = Len(passes[t])
      /\ HoldsAt("destroyed", passes[t]) = Len(passes[t])
      /\ HoldsAt("destroy", Still(passes[t])) = Len(passes[t])
      /\ "destroy" \in Places /\ "destroyed" \in Places
      /\ "destroy" \in Ending /\ "destroyed" \in Ending
  BY <1>1 DEF HoldsAt, Places, Ending
<1>3. /\ calls \in 0 .. MaxCalls /\ initialized \in BOOLEAN /\ alive \in BOOLEAN
      /\ req \in [Threads -> Requests \cup {NoCall}]
      /\ entry \in [Threads -> Slots \cup {NULL}]
      /\ pc \in [Threads -> Places]
  BY DEF IInv, Control
<1>4. CASE Clear(t)
  <2>1. /\ pc[t] = "locked" /\ pc' = [pc EXCEPT ![t] = "destroy"] /\ Unlock
        /\ passes' = [passes EXCEPT ![t] = Still(passes[t])]
        /\ UNCHANGED <<initialized, alive, req, entry, calls>>
    BY <1>4 DEF Clear, Goto, Unlock, locals
  <2>2. HoldsAt("destroy", Still(passes[t])) = HoldsAt(pc[t], passes[t]) - 1
    BY <1>1, <1>2, <2>1
  <2>3. Control'
    BY <1>1, <1>2, <1>3, <2>1, <2>2, Moves DEF IInv
  <2>4. Tables'
    BY <1>4, ClearedTables DEF Clear, IInv, Tables
  <2>5. pc'[t] \in Ending
    BY <1>2, <1>3, <2>1
  <2>6. Balanced'
    BY <2>5 DEF Balanced
  <2> QED
    BY <2>3, <2>4, <2>6 DEF IInv
<1>5. CASE Destroy(t)
  <2>1. /\ pc[t] = "destroy" /\ pc' = [pc EXCEPT ![t] = "destroyed"] /\ alive' = FALSE
        /\ passes' = [passes EXCEPT ![t] = passes[t]]
        /\ UNCHANGED <<initialized, owner, locks, req, entry, calls, table>>
    BY <1>1, <1>5 DEF Destroy, Goto, locals
  <2>2. HoldsAt("destroyed", passes[t]) = HoldsAt(pc[t], passes[t])
    BY <1>2, <2>1
  <2>3. Control'
    BY <1>1, <1>2, <1>3, <2>1, <2>2, Moves DEF IInv
  <2>4. Tables'
    BY <2>1, SameTables DEF IInv
  <2>5. pc'[t] \in Ending
    BY <1>2, <1>3, <2>1
  <2>6. Balanced'
    BY <2>5 DEF Balanced
  <2> QED
    BY <2>3, <2>4, <2>6 DEF IInv
<1>6. CASE ShutdownEnds(t)
  <2>1. /\ Return(t, "destroyed", CB_SUCCESS, passes[t]) /\ initialized' = FALSE
        /\ UNCHANGED <<owner, locks, alive, calls, table>>
    BY <1>6 DEF ShutdownEnds, mutex
  <2>2. Control'
    BY <1>1, <1>2, <1>3, <2>1, Returns DEF IInv
  <2>3. Tables'
    BY <2>1, SameTables DEF IInv
  <2>4. Balanced'
    BY <2>1 DEF Balanced
  <2> QED
    BY <2>2, <2>3, <2>4 DEF IInv
<1> QED
  BY <1>4, <1>5, <1>6

LEMMA NextIInv == IInv /\ [Next]_vars => IInv'
<1> SUFFICES ASSUME IInv, [Next]_vars PROVE IInv'
  OBVIOUS
<1>1. CASE UNCHANGED vars
  <2>1. UNCHANGED table
        /\ UNCHANGED <<initialized, owner, locks, alive, pc, req, entry, passes, calls>>
    BY <1>1 DEF vars, mutex, locals
  <2>2. Tables'
    BY <2>1, SameTables DEF IInv
  <2>3. Control'
    BY <2>1 DEF IInv, Control, MutexReleased, Holds
  <2>4. Balanced'
    BY <2>1 DEF IInv, Balanced, table
  <2> QED
    BY <2>2, <2>3, <2>4 DEF IInv
<1> QED
  BY <1>1, InitSteps, CallSteps, OperationSteps, QuietSteps, ShutdownSteps
  DEF Next, Step

THEOREM Invariance == Spec => []IInv
BY InitIInv, NextIInv, PTL DEF Spec

\* The state keeps its shape, also with a shutdown in the middle of other calls.
THEOREM TypeCorrect == Spec => []TypeOK
<1>1. IInv => TypeOK
  BY DEF IInv, Tables, Control, TypeOK, Places
<1> QED
  BY <1>1, Invariance, PTL

\* On every path through every operation, called by a thread or by a callback at
\* any depth, the mutex is unlocked as often as it was locked: it is held once for
\* each pass in progress and once for an operation at work, by one thread.
THEOREM AlwaysReleased == Spec => []MutexReleased
<1>1. IInv => MutexReleased
  BY DEF IInv, Control
<1> QED
  BY <1>1, Invariance, PTL

\* Whatever threads and callbacks register, unregister and enable: the list leads
\* through all entries in use in the right order, and the counters agree.
THEOREM ListStaysSound == Spec => []ListSound
<1>1. IInv => ListSound
  BY DEF IInv, Tables, Balanced, Ending, ListSound
<1> QED
  BY <1>1, Invariance, PTL

\* No two callbacks share an id or a name.
THEOREM StayDistinct == Spec => []Distinct
<1>1. IInv => Distinct
  BY DEF IInv, Tables
<1> QED
  BY <1>1, Invariance, PTL
-----------------------------------------------------------------------------
(* The passes.                                                             *)

LEMMA KeyFacts ==
  ASSUME Tables
  PROVE  /\ Registered = InUse(entries) /\ Registered \subseteq Slots
         /\ \A s \in Slots : KeyIn(entries, s) \in Nat \X Int
         /\ \A a, b \in Slots :
              Before(a, b) <=> KeyBefore(KeyIn(entries, a), KeyIn(entries, b))
         /\ \A x, y, z \in Nat \X Int :
              KeyBefore(x, y) /\ KeyBefore(y, z) => KeyBefore(x, z)
<1>1. \A s \in Slots : entries[s].priority \in Nat /\ entries[s].id \in Int
  BY EntryTypes
<1>2. \A x \in Nat \X Int : x[1] \in Nat /\ x[2] \in Int
  OBVIOUS
<1>3. \A x, y, z \in Nat \X Int : KeyBefore(x, y) /\ KeyBefore(y, z) => KeyBefore(x, z)
  BY <1>2 DEF KeyBefore
<1>4. \A a, b \in Slots :
        Before(a, b) <=> KeyBefore(KeyIn(entries, a), KeyIn(entries, b))
  BY DEF Before, KeyIn, KeyBefore
<1> QED
  BY <1>1, <1>3, <1>4 DEF KeyIn, Registered, InUse

\* A pass whose callback runs goes on when the table changes around its entry and
\* around what stays steady.
LEMMA KeepRunning ==
  ASSUME NEW e, NEW f, NEW p, NEW q, RunningIn(e, p),
         q.entry = p.entry, q.ran = p.ran, q.steady \subseteq p.steady,
         p.entry \in InUse(f), KeyIn(f, p.entry) = KeyIn(e, p.entry),
         \A s \in InUse(e) : e[s].id \in q.steady /\ e[s].enabled =>
           /\ s \in InUse(f) /\ f[s].enabled /\ f[s].id = e[s].id
           /\ KeyIn(f, s) = KeyIn(e, s)
  PROVE  RunningIn(f, q)
<1>1. ASSUME NEW id \in q.steady PROVE Called(q, id) \/ Ahead(f, q, id)
  <2>1. CASE Called(p, id)
    BY <2>1 DEF Called
  <2>2. CASE Ahead(e, p, id)
    <3>1. PICK s \in InUse(e) : /\ e[s].id = id /\ e[s].enabled
                                /\ KeyBefore(KeyIn(e, p.entry), KeyIn(e, s))
      BY <2>2 DEF Ahead
    <3> QED
      BY <2>2, <3>1 DEF Ahead
  <2> QED
    BY <2>1, <2>2 DEF RunningIn
<1>2. Ordered(q)
  BY DEF RunningIn, Ordered
<1> QED
  BY <1>1, <1>2 DEF RunningIn

\* The others are not in a pass when a thread changes the table.
LEMMA PassesOf ==
  ASSUME IInv, Passes, NEW t \in Threads,
         NEW to, pc' = [pc EXCEPT ![t] = to],
         NEW stack \in Seq(Pass), passes' = [passes EXCEPT ![t] = stack],
         NEW r, req' = [req EXCEPT ![t] = r],
         initialized' => initialized,
         UNCHANGED <<entries, priority_list>> \/ pc[t] = "locked",
         Spares(t)', \A d \in 1 .. Len(stack) : PassSound(t, d)'
  PROVE  Passes'
<1>0. DOMAIN pc = Threads /\ DOMAIN passes = Threads /\ DOMAIN req = Threads
  BY DEF IInv, Control
<1>1. ASSUME NEW u \in Threads, u # t
      PROVE  Spares(u)' /\ \A d \in DOMAIN passes'[u] : PassSound(u, d)'
  <2>1. pc'[u] = pc[u] /\ passes'[u] = passes[u] /\ req'[u] = req[u]
    BY <1>0, <1>1
  <2>2. Len(passes[u]) \in Nat /\ DOMAIN passes[u] = 1 .. Len(passes[u])
    BY Stacks DEF IInv
  <2>3. CASE Len(passes[u]) = 0
    <3>1. \A d : d \notin DOMAIN passes'[u]
      BY <2>1, <2>2, <2>3
    <3> QED
      BY <3>1 DEF Spares
  <2>4. CASE Len(passes[u]) # 0
    <3>1. pc[t] # "locked"
      <4>0. \A n \in Nat : \A b \in BOOLEAN : n # 0 => n + (IF b THEN 1 ELSE 0) # 0
        OBVIOUS
      <4>1. Holds(u) # 0
        <5>1. (pc[u] = "locked") \in BOOLEAN
          OBVIOUS
        <5> QED
          BY <2>2, <2>4, <4>0, <5>1 DEF Holds
      <4>2. owner = u
        BY <4>1 DEF IInv, Control, MutexReleased
      <4>3. Holds(t) = 0
        BY <1>1, <4>2 DEF IInv, Control, MutexReleased
      <4>4. Len(passes[t]) \in Nat
        BY Stacks DEF IInv
      <4>5. \A n \in Nat : n + 1 # 0
        OBVIOUS
      <4> QED
        BY <4>3, <4>4, <4>5 DEF Holds
    <3>2. UNCHANGED <<entries, priority_list>>
      BY <3>1
    <3>3. Spares(u)'
      BY <2>1, <3>2 DEF Passes, Spares
    <3>4. Wiped(u) => Wiped(u)'
      BY <2>1, <3>2 DEF Wiped, Registered
    <3>5. ASSUME NEW d \in DOMAIN passes'[u] PROVE PassSound(u, d)'
      <4>1. PassSound(u, d)
        BY <2>1, <3>5 DEF Passes
      <4> QED
        BY <2>1, <3>2, <3>4, <4>1 DEF PassSound
    <3> QED
      BY <3>3, <3>5
  <2> QED
    BY <2>3, <2>4
<1>2. DOMAIN passes'[t] = 1 .. Len(stack)
  <2>1. passes'[t] = stack
    BY <1>0
  <2> QED
    BY <2>1, LenProperties
<1> QED
  BY <1>1, <1>2 DEF Passes

\* A step of a call in progress, or into or out of one, that leaves the table and
\* the passes around it alone.
LEMMA AroundPasses ==
  ASSUME IInv, Passes, NEW t \in Threads, pc[t] # "walk",
         NEW to, to # "walk", pc' = [pc EXCEPT ![t] = to],
         passes' = [passes EXCEPT ![t] = passes[t]],
         NEW r, req' = [req EXCEPT ![t] = r],
         initialized' => initialized, UNCHANGED <<entries, priority_list>>,
         passes[t] # << >> /\ pc[t] \in Ending =>
           to \in Ending \/ (to = "callback" /\ ~ initialized'),
         pc[t] = "callback" => to = "callback" \/ initialized,
         to \in {"lock", "locked"} /\ r.op = "unregister" =>
           \A d \in DOMAIN passes[t] : entries[passes[t][d].entry].id # r.id
  PROVE  Passes'
<1>0. /\ pc'[t] = to /\ passes' = passes /\ req'[t] = r
      /\ passes[t] \in Seq(Pass) /\ DOMAIN passes[t] = 1 .. Len(passes[t])
      /\ Len(passes[t]) \in Nat /\ passes[t] # << >> <=> Len(passes[t]) > 0
  BY Stacks DEF IInv, Control
<1>1. Spares(t)'
  BY <1>0 DEF Spares
<1>2. passes[t] # << >> /\ Wiped(t) => Wiped(t)'
  BY <1>0 DEF Wiped, Registered, Ending
<1>3. ASSUME NEW d \in 1 .. Len(passes[t]) PROVE PassSound(t, d)'
  <2>1. PassSound(t, d) /\ passes[t] # << >>
    BY <1>0 DEF Passes
  <2> QED
    BY <1>0, <1>2, <2>1 DEF PassSound
<1> QED
  BY <1>0, <1>1, <1>3, PassesOf

\* An operation that changes the table: the entries whose callbacks run stay, and
\* so does what is still steady.
LEMMA TablePasses ==
  ASSUME IInv, Passes, NEW t \in Threads, pc[t] = "locked",
         NEW to, to \notin {"lock", "locked", "walk"}, pc' = [pc EXCEPT ![t] = to],
         NEW stack \in Seq(Pass), passes' = [passes EXCEPT ![t] = stack],
         Len(stack) = Len(passes[t]),
         NEW r, req' = [req EXCEPT ![t] = r],
         initialized' => initialized,
         \A d \in 1 .. Len(stack) :
           /\ stack[d].entry = passes[t][d].entry /\ stack[d].ran = passes[t][d].ran
           /\ stack[d].steady \subseteq passes[t][d].steady
           /\ passes[t][d].entry \in InUse(entries) =>
                /\ passes[t][d].entry \in InUse(entries')
                /\ KeyIn(entries', passes[t][d].entry) = KeyIn(entries, passes[t][d].entry)
           /\ \A s \in InUse(entries) :
                entries[s].id \in stack[d].steady /\ entries[s].enabled =>
                  /\ s \in InUse(entries') /\ entries'[s].enabled
                  /\ entries'[s].id = entries[s].id
                  /\ KeyIn(entries', s) = KeyIn(entries, s)
  PROVE  Passes'
<1>0. /\ pc'[t] = to /\ passes'[t] = stack
      /\ DOMAIN passes[t] = 1 .. Len(passes[t])
  BY Stacks DEF IInv, Control
<1>1. Spares(t)'
  BY <1>0 DEF Spares
<1>2. ASSUME NEW d \in 1 .. Len(stack) PROVE PassSound(t, d)'
  <2>1. RunningIn(entries, passes[t][d])
    <3>1. PassSound(t, d)
      BY <1>0 DEF Passes
    <3> QED
      BY <3>1 DEF PassSound, Wiped, Ending
  <2>2. passes[t][d].entry \in InUse(entries)
    BY <2>1 DEF RunningIn
  <2>3. RunningIn(entries', stack[d])
    BY <2>1, <2>2, KeepRunning
  <2> QED
    BY <1>0, <2>3 DEF PassSound
<1> QED
  BY <1>1, <1>2, PassesOf

\* If a step only clears entries and sets whether they are enabled, those that are
\* enabled afterwards were there before.
LEMMA StillThere ==
  ASSUME Tables,
         \A s \in InUse(entries') : /\ s \in InUse(entries)
                                    /\ entries'[s].id = entries[s].id
                                    /\ entries'[s].priority = entries[s].priority
  PROVE  \A s \in InUse(entries) : entries[s].id \in EnabledIds' =>
           /\ s \in InUse(entries') /\ entries'[s].enabled
           /\ entries'[s].id = entries[s].id
           /\ KeyIn(entries', s) = KeyIn(entries, s)
<1> SUFFICES ASSUME NEW s \in InUse(entries), entries[s].id \in EnabledIds'
             PROVE  /\ s \in InUse(entries') /\ entries'[s].enabled
                    /\ entries'[s].id = entries[s].id
                    /\ KeyIn(entries', s) = KeyIn(entries, s)
  OBVIOUS
<1>1. PICK u \in InUse(entries') : entries'[u].id = entries[s].id /\ entries'[u].enabled
  BY DEF EnabledIds, Registered, InUse
<1>2. u = s
  BY <1>1, KeyFacts DEF Tables, Distinct
<1> QED
  BY <1>1, <1>2 DEF KeyIn

\* The operations of the table.
LEMMA OperationPasses ==
  ASSUME IInv, Passes, NEW t \in Threads,
         callback_register(t) \/ callback_unregister(t) \/ callback_set_enabled(t)
  PROVE  Passes'
<1>0. /\ passes[t] \in Seq(Pass) /\ passes = [passes EXCEPT ![t] = passes[t]]
      /\ DOMAIN passes[t] = 1 .. Len(passes[t])
      /\ \A d \in 1 .. Len(passes[t]) : passes[t][d] \in Pass
      /\ req[t] \in Requests \cup {NoCall} /\ req = [req EXCEPT ![t] = req[t]]
  BY Stacks DEF IInv, Control
<1>1. BackTo(passes[t]) \notin {"lock", "locked", "walk"}
      /\ BackTo(Still(passes[t])) \notin {"lock", "locked", "walk"}
  BY DEF BackTo
<1>2. Registered = InUse(entries) /\ Registered' = InUse(entries') /\ initialized' = initialized
  BY DEF Registered, InUse, callback_register, callback_unregister, callback_set_enabled
<1>3. ASSUME NEW code, NEW stack, Return(t, "locked", code, stack)
      PROVE  /\ pc[t] = "locked" /\ pc' = [pc EXCEPT ![t] = BackTo(stack)]
             /\ passes' = [passes EXCEPT ![t] = stack]
             /\ req' = [req EXCEPT ![t] = NoCall]
  BY <1>3 DEF Return, Goto, BackTo
<1>4. CASE callback_register(t)
  <2>1. \A s \in InUse(entries) : s \in InUse(entries') /\ entries'[s] = entries[s]
    <3>1. /\ Register(req[t].name, req[t].priority)
          /\ req[t].name \in Names \cup {NoName} /\ req[t].priority \in Priorities
      BY <1>0, <1>4, RequestTypes DEF callback_register
    <3> QED
      BY <1>2, <3>1, RegisterTables DEF IInv
  <2>2. ASSUME NEW to, to \notin {"lock", "locked", "walk"}, pc[t] = "locked",
               pc' = [pc EXCEPT ![t] = to], passes' = passes,
               NEW r, req' = [req EXCEPT ![t] = r]
        PROVE  Passes'
    <3>1. \A s \in InUse(entries) : /\ s \in InUse(entries')
                                    /\ entries'[s].enabled = entries[s].enabled
                                    /\ entries'[s].id = entries[s].id
                                    /\ KeyIn(entries', s) = KeyIn(entries, s)
      BY <2>1 DEF KeyIn
    <3>2. passes' = [passes EXCEPT ![t] = passes[t]]
      BY <1>0, <2>2
    <3> QED
      BY <1>0, <1>2, <2>2, <3>1, <3>2, TablePasses
  <2>3. CASE RegisterCode(req[t].name) = CB_SUCCESS
    <3>1. /\ pc[t] = "locked" /\ pc' = [pc EXCEPT ![t] = "return"]
          /\ passes' = passes /\ req' = [req EXCEPT ![t] = req[t]]
      BY <1>0, <1>4, <2>3 DEF callback_register, Goto
    <3> QED
      BY <2>2, <3>1
  <2>4. CASE RegisterCode(req[t].name) # CB_SUCCESS
    <3>1. Return(t, "locked", RegisterCode(req[t].name), passes[t])
      BY <1>4, <2>4 DEF callback_register
    <3>2. /\ pc[t] = "locked" /\ pc' = [pc EXCEPT ![t] = BackTo(passes[t])]
          /\ passes' = passes /\ req' = [req EXCEPT ![t] = NoCall]
      BY <1>0, <1>3, <3>1
    <3> QED
      BY <1>1, <2>2, <3>2
  <2> QED
    BY <2>3, <2>4
\* The other two: what was unregistered did not run.
<1>5. ASSUME NEW code, Return(t, "locked", code, Still(passes[t])),
             \A s \in InUse(entries') : /\ s \in InUse(entries)
                                        /\ entries'[s].id = entries[s].id
                                        /\ entries'[s].priority = entries[s].priority,
             \A d \in 1 .. Len(passes[t]) :
               passes[t][d].entry \in InUse(entries) =>
                 /\ passes[t][d].entry \in InUse(entries')
                 /\ KeyIn(entries', passes[t][d].entry) = KeyIn(entries, passes[t][d].entry)
      PROVE  Passes'
  <2> DEFINE stack == Still(passes[t])
  <2>1. /\ stack \in Seq(Pass) /\ Len(stack) = Len(passes[t])
        /\ \A d \in 1 .. Len(passes[t]) :
             /\ stack[d].entry = passes[t][d].entry /\ stack[d].ran = passes[t][d].ran
             /\ stack[d].steady = passes[t][d].steady \cap EnabledIds'
    BY <1>0, StillTypes
  <2>2. /\ pc[t] = "locked" /\ pc' = [pc EXCEPT ![t] = BackTo(stack)]
        /\ passes' = [passes EXCEPT ![t] = stack]
        /\ req' = [req EXCEPT ![t] = NoCall]
    BY <1>3, <1>5
  <2>3. \A s \in InUse(entries) : entries[s].id \in EnabledIds' =>
           /\ s \in InUse(entries') /\ entries'[s].enabled
           /\ entries'[s].id = entries[s].id
           /\ KeyIn(entries', s) = KeyIn(entries, s)
    BY <1>5, StillThere DEF IInv
  <2>4. BackTo(stack) \notin {"lock", "locked", "walk"}
    BY <1>1
  <2> HIDE DEF stack
  <2>5. \A d \in 1 .. Len(stack) :
           /\ stack[d].entry = passes[t][d].entry /\ stack[d].ran = passes[t][d].ran
           /\ stack[d].steady \subseteq passes[t][d].steady
           /\ passes[t][d].entry \in InUse(entries) =>
                /\ passes[t][d].entry \in InUse(entries')
                /\ KeyIn(entries', passes[t][d].entry) = KeyIn(entries, passes[t][d].entry)
           /\ \A s \in InUse(entries) :
                entries[s].id \in stack[d].steady /\ entries[s].enabled =>
                  /\ s \in InUse(entries') /\ entries'[s].enabled
                  /\ entries'[s].id = entries[s].id
                  /\ KeyIn(entries', s) = KeyIn(entries, s)
    BY <1>5, <2>1, <2>3
  <2> QED
    BY <1>2, <2>1, <2>2, <2>4, <2>5, TablePasses
<1>6. CASE callback_unregister(t)
  <2>1. /\ Unregister(req[t].id) /\ req[t].op = "unregister"
        /\ Return(t, "locked", FoundCode(req[t].id), Still(passes[t]))
        /\ pc[t] = "locked"
    BY <1>6 DEF callback_unregister, Return, Goto
  <2>2. \A s \in Slots :
          \/ entries'[s] = entries[s]
          \/ entries[s].id = req[t].id /\ ~ entries'[s].registered
    BY <2>1 DEF Unregister, Unused, Found, table
  <2>3. \A s \in InUse(entries') : s \in InUse(entries) /\ entries'[s] = entries[s]
    BY <2>2 DEF InUse
  <2>4. ASSUME NEW d \in 1 .. Len(passes[t]), passes[t][d].entry \in InUse(entries)
        PROVE  /\ passes[t][d].entry \in InUse(entries')
               /\ KeyIn(entries', passes[t][d].entry) = KeyIn(entries, passes[t][d].entry)
    <3>1. entries[passes[t][d].entry].id # req[t].id
      BY <1>0, <2>1 DEF Passes, Spares
    <3> QED
      BY <2>2, <2>4, <3>1 DEF InUse, KeyIn
  <2> QED
    BY <1>5, <2>1, <2>3, <2>4
<1>7. CASE callback_set_enabled(t)
  <2>1. /\ SetEnabled(req[t].id, req[t].enabled)
        /\ Return(t, "locked", FoundCode(req[t].id), Still(passes[t]))
    BY <1>7 DEF callback_set_enabled
  <2>2. req[t].id \in Int /\ req[t].enabled \in BOOLEAN
    BY <1>0, <1>7, RequestTypes DEF callback_set_enabled
  <2>3. /\ InUse(entries') = InUse(entries)
        /\ \A s \in Slots : /\ entries'[s].id = entries[s].id
                            /\ entries'[s].priority = entries[s].priority
    BY <1>2, <2>1, <2>2, SetEnabledTables DEF IInv
  <2>4. \A s \in InUse(entries) : s \in Slots
    BY DEF InUse
  <2> QED
    BY <1>5, <2>1, <2>3, <2>4 DEF KeyIn
<1> QED
  BY <1>4, <1>6, <1>7

\* A call begins or is refused; what a callback unregisters does not run.
LEMMA CallPasses ==
  ASSUME IInv, Passes, ~ UnregisterRunning, NEW t \in Threads, NEW r \in Requests,
         Call(t, r) \/ Refuse(t, r)
  PROVE  Passes'
<1>0. /\ passes = [passes EXCEPT ![t] = passes[t]]
      /\ pc[t] = "idle" => passes[t] = << >>
  BY Stacks DEF IInv, Control
<1>1. /\ pc[t] \in UserCode /\ UNCHANGED <<entries, priority_list>>
      /\ initialized' = initialized
      /\ pc[t] = "callback" /\ r.op = "unregister" => r.id \notin Running(t)
  BY DEF Call, Refuse, MayCall, table
<1>2. pc[t] \in {"idle", "callback"} /\ pc[t] # "walk" /\ pc[t] \notin Ending
  BY <1>1 DEF UserCode, Ending
<1>3. CASE Call(t, r)
  <2>1. /\ pc' = [pc EXCEPT ![t] = "lock"] /\ req' = [req EXCEPT ![t] = r]
        /\ passes' = [passes EXCEPT ![t] = passes[t]] /\ initialized
    BY <1>0, <1>3 DEF Call, Goto
  <2>2. r.op = "unregister" =>
          \A d \in DOMAIN passes[t] : entries[passes[t][d].entry].id # r.id
    BY <1>0, <1>1, <1>2 DEF Running
  <2> QED
    BY <1>1, <1>2, <2>1, <2>2, AroundPasses
<1>4. CASE Refuse(t, r)
  <2>1. PICK code : Return(t, pc[t], code, passes[t])
    BY <1>4 DEF Refuse
  <2>2. /\ pc' = [pc EXCEPT ![t] = BackTo(passes[t])] /\ req' = [req EXCEPT ![t] = NoCall]
        /\ passes' = [passes EXCEPT ![t] = passes[t]]
    BY <2>1 DEF Return, Goto, BackTo
  <2>3. /\ BackTo(passes[t]) \notin {"lock", "locked", "walk"}
        /\ pc[t] = "callback" => BackTo(passes[t]) = "callback"
    BY DEF BackTo, IInv, Control
  <2> QED
    BY <1>1, <1>2, <2>2, <2>3, AroundPasses
<1> QED
  BY <1>3, <1>4

\* The steps that neither change the table nor begin, continue or end a pass.
LEMMA QuietPasses ==
  ASSUME IInv, Passes, NEW t \in Threads,
         \/ Lock(t) \/ Timeout(t) \/ ReturnId(t) \/ Diagnostics(t)
         \/ Destroy(t) \/ ShutdownEnds(t)
  PROVE  Passes'
<1>0. /\ passes = [passes EXCEPT ![t] = passes[t]]
      /\ req = [req EXCEPT ![t] = req[t]]
  BY Stacks DEF IInv, Control
<1>1. UNCHANGED <<entries, priority_list>> /\ (initialized' => initialized)
  BY DEF Lock, Timeout, ReturnId, Diagnostics, Destroy, ShutdownEnds, table
<1>2. ASSUME NEW from \in {"lock", "locked", "return", "destroyed"}, NEW code,
             Return(t, from, code, passes[t]), from = "destroyed" => ~ initialized'
      PROVE  Passes'
  <2>1. /\ pc[t] = from /\ pc' = [pc EXCEPT ![t] = BackTo(passes[t])]
        /\ req' = [req EXCEPT ![t] = NoCall] /\ passes' = [passes EXCEPT ![t] = passes[t]]
    BY <1>2 DEF Return, Goto, BackTo
  <2>2. /\ BackTo(passes[t]) \notin {"lock", "locked", "walk"}
        /\ passes[t] # << >> => BackTo(passes[t]) = "callback"
    BY DEF BackTo
  <2>3. pc[t] # "walk" /\ pc[t] # "callback"
        /\ (pc[t] \in Ending => pc[t] = "destroyed")
    BY <2>1 DEF Ending
  <2> QED
    BY <1>1, <1>2, <2>1, <2>2, <2>3, AroundPasses
<1>3. ASSUME NEW from \in {"lock", "destroy"}, NEW to \in {"locked", "destroy", "destroyed"},
             Goto(t, from, to), UNCHANGED <<req, passes>>,
             from = "destroy" => to = "destroyed"
      PROVE  Passes'
  <2>1. /\ pc[t] = from /\ pc' = [pc EXCEPT ![t] = to]
        /\ req' = [req EXCEPT ![t] = req[t]] /\ passes' = [passes EXCEPT ![t] = passes[t]]
    BY <1>0, <1>3 DEF Goto
  <2>2. to \in {"lock", "locked"} /\ req[t].op = "unregister" =>
          \A d \in DOMAIN passes[t] : entries[passes[t][d].entry].id # req[t].id
    <3>1. to \in {"lock", "locked"} => pc[t] = "lock"
      BY <1>3, <2>1
    <3> QED
      BY <3>1 DEF Passes, Spares
  <2>3. /\ pc[t] # "walk" /\ pc[t] # "callback" /\ to # "walk"
        /\ pc[t] \in Ending => to \in Ending
    BY <1>3, <2>1 DEF Ending
  <2> QED
    BY <1>1, <2>1, <2>2, <2>3, AroundPasses
<1>4. CASE Lock(t)
  BY <1>3, <1>4 DEF Lock, locals
<1>5. CASE Timeout(t)
  <2>1. CASE req[t].op = "shutdown"
    BY <1>3, <1>5, <2>1 DEF Timeout, locals
  <2>2. CASE req[t].op # "shutdown"
    BY <1>2, <1>5, <2>2 DEF Timeout
  <2> QED
    BY <2>1, <2>2
<1>6. CASE ReturnId(t)
  BY <1>2, <1>6 DEF ReturnId
<1>7. CASE Diagnostics(t)
  BY <1>2, <1>7 DEF Diagnostics
<1>8. CASE Destroy(t)
  BY <1>3, <1>8 DEF Destroy, locals
<1>9. CASE ShutdownEnds(t)
  BY <1>2, <1>9 DEF ShutdownEnds
<1> QED
  BY <1>4, <1>5, <1>6, <1>7, <1>8, <1>9

\* A shutdown in a callback: no pass has anything left to call.
LEMMA ClearPasses ==
  ASSUME IInv, Passes, NEW t \in Threads, Clear(t)
  PROVE  Passes'
<1> DEFINE stack == Still(passes[t])
<1>0. /\ passes[t] \in Seq(Pass) /\ DOMAIN passes[t] = 1 .. Len(passes[t])
      /\ req = [req EXCEPT ![t] = req[t]] /\ t \in DOMAIN pc
  BY Stacks DEF IInv, Control
<1>1. /\ pc[t] = "locked" /\ pc' = [pc EXCEPT ![t] = "destroy"]
      /\ passes' = [passes EXCEPT ![t] = stack]
      /\ req' = [req EXCEPT ![t] = req[t]]
      /\ entries' = [s \in Slots |-> Unused(0)] /\ priority_list' = << >>
      /\ initialized' = initialized
  BY <1>0 DEF Clear, Goto, locals
<1>2. Registered' = {} /\ EnabledIds' = {}
  BY <1>1 DEF Registered, EnabledIds, Unused
<1>3. /\ stack \in Seq(Pass) /\ Len(stack) = Len(passes[t])
      /\ \A d \in 1 .. Len(passes[t]) : stack[d].ran = passes[t][d].ran /\ stack[d].steady = {}
  BY <1>0, <1>2, StillTypes
<1> HIDE DEF stack
<1>4. pc'[t] = "destroy" /\ passes'[t] = stack
  BY <1>0, <1>1 DEF IInv, Control
<1>5. Spares(t)' /\ Wiped(t)'
  BY <1>1, <1>2, <1>4 DEF Spares, Wiped, Ending
<1>6. ASSUME NEW d \in 1 .. Len(stack) PROVE PassSound(t, d)'
  <2>1. RunningIn(entries, passes[t][d])
    BY <1>0, <1>1, <1>3 DEF Passes, PassSound, Wiped, Ending
  <2>2. WipedIn(stack[d])
    BY <1>3, <2>1 DEF RunningIn, WipedIn, Ordered
  <2> QED
    BY <1>4, <1>5, <2>2 DEF PassSound
<1> QED
  BY <1>1, <1>3, <1>5, <1>6, PassesOf

\* A pass begins at the first entry, with everything steady before it.
LEMMA BeginPasses ==
  ASSUME IInv, Passes, NEW t \in Threads, PassBegins(t)
  PROVE  Passes'
<1> DEFINE n == Len(passes[t])
           stack == Append(passes[t], NewPass)
<1>0. /\ passes[t] \in Seq(Pass) /\ DOMAIN passes[t] = 1 .. n /\ n \in Nat
      /\ req = [req EXCEPT ![t] = req[t]]
  BY Stacks DEF IInv, Control
<1>1. /\ pc[t] = "locked" /\ pc' = [pc EXCEPT ![t] = "walk"]
      /\ passes' = [passes EXCEPT ![t] = stack]
      /\ req' = [req EXCEPT ![t] = req[t]]
      /\ UNCHANGED <<entries, priority_list, initialized>>
  BY <1>0 DEF PassBegins, Goto, locals, table
<1>2. NewPass \in Pass
  <2>1. First \in Slots \cup {NULL} /\ << >> \in Seq(Nat \X Ids)
    BY FirstEntry DEF IInv
  <2>2. EnabledIds \in SUBSET Ids
    BY EntryTypes DEF EnabledIds, Registered, IInv
  <2> QED
    BY <2>1, <2>2 DEF NewPass, Pass
<1>3. /\ stack \in Seq(Pass) /\ Len(stack) = n + 1 /\ stack[n + 1] = NewPass
      /\ \A d \in 1 .. n : stack[d] = passes[t][d]
  BY <1>0, <1>2, StackSteps
<1>4. WalkingIn(entries, NewPass)
  <2>1. NewPass.entry = First /\ NewPass.ran = << >> /\ NewPass.steady = EnabledIds
    BY DEF NewPass
  <2>2. ASSUME NEW id \in EnabledIds
        PROVE  AtEntry(entries, NewPass, id) \/ Ahead(entries, NewPass, id)
    <3>1. PICK s \in Registered : entries[s].id = id /\ entries[s].enabled
      BY DEF EnabledIds
    <3>2. First # NULL /\ (s = First \/ Before(First, s)) /\ First \in Registered
      BY <3>1, FirstEntry DEF IInv
    <3>3. s \in InUse(entries) /\ (s = First \/ KeyBefore(KeyIn(entries, First), KeyIn(entries, s)))
      BY <3>2, KeyFacts DEF IInv
    <3> QED
      BY <2>1, <3>1, <3>2, <3>3 DEF AtEntry, Ahead
  <2>3. First # NULL => First \in InUse(entries)
    BY FirstEntry, KeyFacts DEF IInv
  <2> QED
    BY <2>1, <2>2, <2>3 DEF WalkingIn, Ordered
<1> HIDE DEF stack
<1>5. pc'[t] = "walk" /\ passes'[t] = stack
  BY <1>1 DEF IInv, Control
<1>6. Spares(t)'
  BY <1>5 DEF Spares
<1>7. ASSUME NEW d \in 1 .. Len(stack) PROVE PassSound(t, d)'
  <2>1. CASE d = n + 1
    BY <1>1, <1>3, <1>4, <1>5, <2>1 DEF PassSound
  <2>2. CASE d # n + 1
    <3>1. d \in 1 .. n
      BY <1>0, <1>3, <2>2
    <3>2. RunningIn(entries, passes[t][d])
      BY <1>0, <1>1, <3>1 DEF Passes, PassSound, Wiped, Ending
    <3> QED
      BY <1>1, <1>3, <1>5, <2>2, <3>1, <3>2 DEF PassSound
  <2> QED
    BY <2>1, <2>2
<1> QED
  BY <1>1, <1>3, <1>6, <1>7, PassesOf

\* The callback of the current entry is called.
LEMMA InvokedPass ==
  ASSUME Tables, NEW p \in Pass, WalkingIn(entries, p), p.entry # NULL,
         NEW q, q.entry = p.entry, q.steady = p.steady,
         q.ran = Append(p.ran, KeyIn(entries, p.entry))
  PROVE  RunningIn(entries, q)
<1> DEFINE n == Len(p.ran)
           key == KeyIn(entries, p.entry)
<1>1. /\ n \in Nat /\ DOMAIN p.ran = 1 .. n /\ p.ran \in Seq(Nat \X Ids)
      /\ p.entry \in InUse(entries) /\ p.entry \in Slots
      /\ \A k \in 1 .. n : KeyBefore(p.ran[k], key)
      /\ \A j, k \in 1 .. n : j < k => KeyBefore(p.ran[j], p.ran[k])
  BY PassTypes DEF WalkingIn, Ordered, InUse
<1>2. key \in Nat \X Ids
  BY <1>1, EntryTypes DEF KeyIn
<1>3. /\ Len(q.ran) = n + 1 /\ DOMAIN q.ran = 1 .. n + 1
      /\ q.ran[n + 1] = key /\ \A k \in 1 .. n : q.ran[k] = p.ran[k]
      /\ q.ran # << >>
  <2>1. /\ Append(p.ran, key) \in Seq(Nat \X Ids) /\ Len(Append(p.ran, key)) = n + 1
        /\ Append(p.ran, key)[n + 1] = key
        /\ \A k \in 1 .. n : Append(p.ran, key)[k] = p.ran[k]
    BY <1>1, <1>2, AppendProperties
  <2>2. DOMAIN Append(p.ran, key) = 1 .. n + 1 /\ Append(p.ran, key) # << >>
    BY <1>1, <2>1, LenProperties, EmptySeq
  <2> QED
    BY <2>1, <2>2
<1>4. key = <<entries[p.entry].priority, entries[p.entry].id>>
  BY DEF KeyIn
<1> HIDE DEF n, key
<1>5. Ordered(q)
  <2> SUFFICES ASSUME NEW j \in 1 .. n + 1, NEW k \in 1 .. n + 1, j < k
               PROVE  KeyBefore(q.ran[j], q.ran[k])
    BY <1>3 DEF Ordered
  <2>1. j \in 1 .. n /\ (k = n + 1 \/ k \in 1 .. n)
    BY <1>1
  <2> QED
    BY <1>1, <1>3, <2>1
<1>6. ASSUME NEW id \in p.steady PROVE Called(q, id) \/ Ahead(entries, q, id)
  <2>1. CASE Called(p, id)
    <3>1. PICK k \in 1 .. n : p.ran[k][2] = id
      BY <1>1, <2>1 DEF Called
    <3>2. k \in DOMAIN q.ran /\ q.ran[k][2] = id
      BY <1>1, <1>3, <3>1
    <3> QED
      BY <3>2 DEF Called
  <2>2. CASE AtEntry(entries, p, id)
    <3>1. n + 1 \in DOMAIN q.ran /\ q.ran[n + 1][2] = id
      BY <1>1, <1>3, <1>4, <2>2 DEF AtEntry
    <3> QED
      BY <3>1 DEF Called
  <2>3. CASE Ahead(entries, p, id)
    BY <2>3 DEF Ahead
  <2> QED
    BY <2>1, <2>2, <2>3 DEF WalkingIn
<1> QED
  BY <1>1, <1>3, <1>5, <1>6 DEF RunningIn, key

\* The pass goes on to the next entry of the list.
LEMMA AdvancedPass ==
  ASSUME Tables, NEW p \in Pass,
         \/ RunningIn(entries, p)
         \/ WalkingIn(entries, p) /\ p.entry # NULL /\ ~ entries[p.entry].enabled,
         NEW q, q.entry = Next_(p.entry), q.steady = p.steady, q.ran = p.ran
  PROVE  WalkingIn(entries, q)
<1> DEFINE n == Len(p.ran)
           next == Next_(p.entry)
<1>1. /\ n \in Nat /\ DOMAIN p.ran = 1 .. n
      /\ \A k \in 1 .. n : p.ran[k] \in Nat \X Int
      /\ p.entry \in InUse(entries) /\ p.entry \in Slots /\ p.entry \in Registered
      /\ \A j, k \in 1 .. n : j < k => KeyBefore(p.ran[j], p.ran[k])
  <2>1. /\ n \in Nat /\ DOMAIN p.ran = 1 .. n
        /\ \A k \in 1 .. n : p.ran[k] \in Nat \X Int
    BY PassTypes
  <2>2. p.entry \in InUse(entries) /\ Ordered(p)
    BY DEF RunningIn, WalkingIn
  <2> QED
    BY <2>1, <2>2, KeyFacts DEF Ordered, InUse
<1>2. \A k \in 1 .. n : p.ran[k] = KeyIn(entries, p.entry)
                       \/ KeyBefore(p.ran[k], KeyIn(entries, p.entry))
  <2>1. CASE RunningIn(entries, p)
    <3>1. p.ran[n] = KeyIn(entries, p.entry)
      BY <2>1 DEF RunningIn
    <3>2. ASSUME NEW k \in 1 .. n PROVE k = n \/ KeyBefore(p.ran[k], p.ran[n])
      <4>1. k = n \/ (k < n /\ n \in 1 .. n)
        BY <1>1
      <4> QED
        BY <1>1, <4>1
    <3> QED
      BY <3>1, <3>2
  <2>2. CASE WalkingIn(entries, p) /\ p.entry # NULL
    BY <1>1, <2>2 DEF WalkingIn
  <2> QED
    BY <2>1, <2>2
<1>3. /\ next \in Slots \cup {NULL}
      /\ next # NULL => next \in Registered /\ Before(p.entry, next)
      /\ \A u \in Registered :
           Before(p.entry, u) => next # NULL /\ (u = next \/ Before(next, u))
  BY <1>1, NextEntry
<1> HIDE DEF next, n
<1>4. next # NULL => \A k \in 1 .. n : KeyBefore(p.ran[k], KeyIn(entries, next))
  <2> SUFFICES ASSUME next # NULL, NEW k \in 1 .. n
               PROVE  KeyBefore(p.ran[k], KeyIn(entries, next))
    OBVIOUS
  <2>1. /\ next \in Slots /\ KeyIn(entries, next) \in Nat \X Int
        /\ KeyIn(entries, p.entry) \in Nat \X Int
        /\ KeyBefore(KeyIn(entries, p.entry), KeyIn(entries, next))
    BY <1>1, <1>3, KeyFacts
  <2> QED
    BY <1>1, <1>2, <2>1, KeyFacts
<1>5. ASSUME NEW id \in p.steady
      PROVE  Called(q, id) \/ AtEntry(entries, q, id) \/ Ahead(entries, q, id)
  <2>1. CASE Called(p, id)
    BY <2>1 DEF Called
  <2>2. CASE Ahead(entries, p, id)
    <3>1. PICK s \in InUse(entries) : /\ entries[s].id = id /\ entries[s].enabled
                                      /\ KeyBefore(KeyIn(entries, p.entry), KeyIn(entries, s))
      BY <2>2 DEF Ahead
    <3>2. s \in Registered /\ s \in Slots /\ Before(p.entry, s)
      BY <1>1, <3>1, KeyFacts
    <3>3. next # NULL /\ (s = next \/ KeyBefore(KeyIn(entries, next), KeyIn(entries, s)))
      BY <1>3, <3>2, KeyFacts
    <3>4. q.entry = next
      BY DEF next
    <3> QED
      BY <3>1, <3>3, <3>4 DEF AtEntry, Ahead
  <2>3. ~ AtEntry(entries, p, id) \/ RunningIn(entries, p)
    BY DEF AtEntry
  <2> QED
    BY <2>1, <2>2, <2>3 DEF RunningIn, WalkingIn
<1>6. Ordered(q)
  BY <1>1 DEF Ordered
<1>7. next # NULL => next \in InUse(entries)
  BY <1>3, KeyFacts
<1> QED
  BY <1>1, <1>4, <1>5, <1>6, <1>7 DEF WalkingIn, next

\* A step of the innermost pass: the others stay as they are.
LEMMA TopPasses ==
  ASSUME IInv, Passes, NEW t \in Threads, passes[t] # << >>,
         NEW to \in {"walk", "callback"}, pc[t] \in {"walk", "callback"},
         pc' = [pc EXCEPT ![t] = to],
         NEW p \in Pass,
         passes' = [passes EXCEPT ![t] = [passes[t] EXCEPT ![Len(passes[t])] = p]],
         UNCHANGED <<entries, priority_list, initialized, req>>,
         to = "walk" => WalkingIn(entries, p),
         to = "callback" => RunningIn(entries, p)
  PROVE  Passes'
<1> DEFINE n == Len(passes[t])
           stack == [passes[t] EXCEPT ![Len(passes[t])] = p]
<1>0. /\ passes[t] \in Seq(Pass) /\ DOMAIN passes[t] = 1 .. n /\ n \in Nat
      /\ req' = [req EXCEPT ![t] = req[t]]
  BY Stacks DEF IInv, Control
<1>1. /\ stack \in Seq(Pass) /\ Len(stack) = n /\ stack[n] = p
      /\ \A d \in 1 .. n : d # n => stack[d] = passes[t][d]
  BY <1>0, StackSteps
<1> HIDE DEF stack
<1>2. pc'[t] = to /\ passes'[t] = stack
  BY DEF IInv, Control, stack
<1>3. Wiped(t) => Wiped(t)'
  BY <1>2 DEF Wiped, Registered, Ending
<1>4. Spares(t)'
  BY <1>2 DEF Spares
<1>5. ASSUME NEW d \in 1 .. Len(stack) PROVE PassSound(t, d)'
  <2>1. CASE d = n
    BY <1>1, <1>2, <2>1 DEF PassSound
  <2>2. CASE d # n
    <3>1. RunningIn(entries, passes[t][d]) \/ (Wiped(t) /\ WipedIn(passes[t][d]))
      BY <1>0, <1>1, <2>2 DEF Passes, PassSound
    <3> QED
      BY <1>1, <1>2, <1>3, <2>2, <3>1 DEF PassSound
  <2> QED
    BY <2>1, <2>2
<1> QED
  BY <1>0, <1>1, <1>4, <1>5, PassesOf DEF stack

\* The steps of a pass.
LEMMA WalkPasses ==
  ASSUME IInv, Passes, NEW t \in Threads, Invoke(t) \/ Advance(t)
  PROVE  Passes'
<1> DEFINE n == Len(passes[t])
           p == Top(t)
<1>1. /\ pc[t] \in {"walk", "callback"} /\ passes[t] # << >>
      /\ UNCHANGED <<entries, priority_list, initialized, req>>
  BY DEF Invoke, Advance, Goto, table, locals, IInv, Control
<1>2. /\ p \in Pass /\ p = passes[t][n] /\ Current(t) = p.entry
      /\ n \in DOMAIN passes[t] /\ PassSound(t, n)
  <2>1. p \in Pass /\ p = passes[t][n] /\ Current(t) = p.entry
    BY <1>1, TopSteps
  <2>2. n \in Nat /\ n > 0 /\ DOMAIN passes[t] = 1 .. n
    BY <1>1, Stacks DEF IInv
  <2>3. n \in DOMAIN passes[t]
    BY <2>2
  <2> QED
    BY <2>1, <2>3 DEF Passes
<1>3. CASE Invoke(t)
  <2> DEFINE q == [Top(t) EXCEPT !.ran = Append(@, KeyIn(entries, Current(t)))]
  <2>1. /\ pc[t] = "walk" /\ pc' = [pc EXCEPT ![t] = "callback"] /\ p.entry # NULL
    BY <1>2, <1>3 DEF Invoke, Goto
  <2>2. /\ Append(p.ran, KeyIn(entries, p.entry)) \in Seq(Nat \X Ids)
        /\ q \in Pass
        /\ passes' = [passes EXCEPT ![t] = [passes[t] EXCEPT ![Len(passes[t])] = q]]
    BY <1>1, <1>2, <1>3, TopSteps
  <2>3. q.entry = p.entry /\ q.steady = p.steady /\ q.ran = Append(p.ran, KeyIn(entries, p.entry))
    BY <1>2, <2>2, PassTypes
  <2> HIDE DEF q
  <2>4. WalkingIn(entries, p)
    BY <1>2, <2>1 DEF PassSound
  <2>5. RunningIn(entries, q)
    BY <1>2, <2>1, <2>3, <2>4, InvokedPass DEF IInv
  <2> QED
    BY <1>1, <2>1, <2>2, <2>5, TopPasses
<1>4. CASE Advance(t)
  <2> DEFINE q == [Top(t) EXCEPT !.entry = Next_(Current(t))]
  <2>1. /\ pc' = [pc EXCEPT ![t] = "walk"]
        /\ \/ pc[t] = "callback"
           \/ pc[t] = "walk" /\ p.entry # NULL /\ ~ entries[p.entry].enabled
    BY <1>2, <1>4 DEF Advance, Goto
  <2>2. /\ q \in Pass
        /\ passes' = [passes EXCEPT ![t] = [passes[t] EXCEPT ![Len(passes[t])] = q]]
    BY <1>1, <1>4, TopSteps
  <2>3. Next_(p.entry) \in Slots \cup {NULL} /\ p.entry \in Slots \cup {NULL}
    BY <1>2, PassTypes, NextEntry DEF IInv
  <2>4. q.entry = Next_(p.entry) /\ q.steady = p.steady /\ q.ran = p.ran
    BY <1>2, <2>3, PassTypes
  <2> HIDE DEF q
  <2>5. WalkingIn(entries, q)
    <3>1. CASE RunningIn(entries, p) \/ pc[t] = "walk"
      BY <1>2, <2>1, <2>4, <3>1, AdvancedPass DEF IInv, PassSound
    <3>2. CASE Wiped(t) /\ WipedIn(p)
      <4>1. Next_(p.entry) = NULL
        BY <2>3, <3>2, NextEntry DEF Wiped, IInv
      <4> QED
        BY <2>4, <3>2, <4>1 DEF WipedIn, WalkingIn, Ordered, Called
    <3> QED
      BY <1>2, <3>1, <3>2 DEF PassSound
  <2> QED
    BY <1>1, <2>1, <2>2, <2>5, TopPasses
<1> QED
  BY <1>3, <1>4

\* Back in the callback that began the pass.
LEMMA EndPasses ==
  ASSUME IInv, Passes, NEW t \in Threads, PassEnds(t)
  PROVE  Passes'
<1> DEFINE n == Len(passes[t])
           stack == Front(passes[t])
<1>1. /\ pc[t] = "walk" /\ pc' = [pc EXCEPT ![t] = BackTo(stack)]
      /\ passes' = [passes EXCEPT ![t] = stack] /\ req' = [req EXCEPT ![t] = NoCall]
      /\ UNCHANGED <<entries, priority_list, initialized>>
  BY DEF PassEnds, Return, Goto, BackTo, table
<1>2. passes[t] \in Seq(Pass) /\ DOMAIN passes[t] = 1 .. n /\ n \in Nat /\ passes[t] # << >>
  BY <1>1, Stacks DEF IInv, Control
<1>3. /\ stack \in Seq(Pass) /\ Len(stack) = n - 1
      /\ \A d \in 1 .. n - 1 : stack[d] = passes[t][d]
  BY <1>2, FrontTypes
<1>4. n > 0
  BY <1>2, Stacks DEF IInv
<1> HIDE DEF stack
<1>5. pc'[t] = BackTo(stack) /\ passes'[t] = stack
  BY <1>1 DEF IInv, Control
<1>6. BackTo(stack) \notin {"lock", "locked", "walk"}
      /\ (stack # << >> => BackTo(stack) = "callback")
  BY DEF BackTo
<1>7. Spares(t)'
  BY <1>5, <1>6 DEF Spares
<1>8. ASSUME NEW d \in 1 .. Len(stack) PROVE PassSound(t, d)'
  <2>1. d \in 1 .. n /\ d # n /\ d \in 1 .. n - 1 /\ stack # << >>
    BY <1>2, <1>3, <1>4, <1>8, EmptySeq
  <2>2. RunningIn(entries, passes[t][d]) \/ (Wiped(t) /\ WipedIn(passes[t][d]))
    BY <1>2, <2>1 DEF Passes, PassSound
  <2>3. Wiped(t) => Wiped(t)'
    BY <1>1, <1>5, <1>6, <2>1 DEF Wiped, Registered, Ending
  <2> QED
    BY <1>1, <1>3, <1>5, <1>6, <2>1, <2>2, <2>3 DEF PassSound
<1> QED
  BY <1>1, <1>3, <1>7, <1>8, PassesOf

LEMMA NextPasses == IInv /\ Passes /\ ~ UnregisterRunning /\ [Next]_vars => Passes'
<1> SUFFICES ASSUME IInv, Passes, ~ UnregisterRunning, [Next]_vars PROVE Passes'
  OBVIOUS
<1>1. CASE UNCHANGED vars
  BY <1>1 DEF vars, table, locals, Passes, Spares, PassSound, Wiped, Registered
<1>2. CASE callback_manager_init \/ InitFails
  <2>1. AllIdle /\ UNCHANGED <<pc, passes, req>>
    BY <1>2 DEF callback_manager_init, InitFails, locals
  <2>2. \A t \in Threads : pc[t] = "idle" /\ passes[t] = << >>
    BY <2>1 DEF AllIdle, IInv, Control
  <2> QED
    BY <2>1, <2>2 DEF Passes, Spares
<1> QED
  BY <1>1, <1>2, CallPasses, QuietPasses, OperationPasses, ClearPasses, BeginPasses,
     WalkPasses, EndPasses
  DEF Next, Step

LEMMA PassesInvariance == ~ UnregisterRunning /\ Spec => []Passes
<1>1. Init => Passes
  BY DEF Init, Passes, Spares
<1>2. CASE ~ UnregisterRunning
  BY <1>1, <1>2, Invariance, NextPasses, PTL DEF Spec
<1> QED
  BY <1>2

\* Every pass, those that callbacks begin included, calls in the order of priority
\* and registration and nothing twice, provided that no callback is unregistered
\* from a callback while it runs. Without that it fails: the run callbacks_self.
THEOREM PassesInOrder == ~ UnregisterRunning /\ Spec => []PassInOrder
<1>1. ASSUME IInv, Passes, NEW t \in Threads, NEW d \in DOMAIN passes[t]
      PROVE  Ordered(passes[t][d])
  BY <1>1 DEF Passes, PassSound, RunningIn, WalkingIn, WipedIn
<1>2. IInv /\ Passes => PassInOrder
  BY <1>1 DEF Ordered, KeyBefore, PassInOrder
<1> QED
  BY <1>2, Invariance, PassesInvariance, PTL

\* Under the same condition a pass that ends has called every callback that was
\* registered and enabled all along, whatever its callbacks did meanwhile.
THEOREM PassesComplete == ~ UnregisterRunning /\ Spec => []PassComplete
<1>1. ASSUME IInv, Passes, NEW t \in Threads, pc[t] = "walk", Current(t) = NULL,
             NEW id \in Top(t).steady
      PROVE  \E k \in DOMAIN Top(t).ran : Top(t).ran[k][2] = id
  <2>1. passes[t] # << >> /\ Len(passes[t]) \in DOMAIN passes[t]
    BY <1>1, Stacks DEF IInv, Control
  <2>2. WalkingIn(entries, Top(t))
    BY <1>1, <2>1 DEF Passes, PassSound, Top
  <2>3. Called(Top(t), id)
    BY <1>1, <2>2 DEF WalkingIn, AtEntry, Ahead, Current
  <2> QED
    BY <2>3 DEF Called
<1>2. IInv /\ Passes => PassComplete
  BY <1>1 DEF PassComplete
<1> QED
  BY <1>2, Invariance, PassesInvariance, PTL
=============================================================================
