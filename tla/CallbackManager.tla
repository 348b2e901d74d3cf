--------------------------- MODULE CallbackManager ---------------------------
(***************************************************************************)
(* The callback manager of src/Src/DynamicCallbacks.c: a table of entries, *)
(* a list through it sorted by priority, and a recursive mutex that every  *)
(* operation takes with a timeout.                                         *)
(*                                                                         *)
(* An operation checks `initialized` and its arguments, takes the mutex or *)
(* gives up, does its work and releases the mutex. While a thread holds it *)
(* nobody else reads or writes the table, so the work and the unlock are   *)
(* one step; what is read after the unlock is a step of its own.           *)
(* callback_execute_all holds the mutex while it calls the callbacks, and  *)
(* a callback may make any call of the manager again, callback_execute_all *)
(* among them: the mutex is recursive. A thread therefore has a stack of   *)
(* passes, each with its local pointer `current`; its pc and its request   *)
(* are those of the innermost call.                                        *)
(*                                                                         *)
(* The pointers priority_list and entry.next are modelled by the sequence  *)
(* of the slots they lead to. Statistics, times, log and error texts are   *)
(* left out.                                                               *)
(***************************************************************************)
EXTENDS Integers, Sequences, FiniteSets, SequencesExt

CONSTANTS
  Threads,         \* the threads that use the manager
  Main,            \* the one that initializes it and shuts it down
  NoThread,        \* the owner of a mutex that is free
  MAX_CALLBACKS,   \* the number of entries
  Names,           \* the names callbacks are registered under
  NoName,          \* a name that is NULL or too long, and that of a cleared entry
  Priorities,      \* the priorities in use
  MaxId,           \* bound on the ids that callers name
  MaxCalls,        \* bound on the number of calls, by threads and by callbacks
  NestedOps,       \* the operations that callbacks call
  UnregisterRunning \* whether a callback may be unregistered from a callback
                    \* while it runs: by itself, or in a pass that it began

ASSUME ManagerAssumption ==
  /\ Main \in Threads
  /\ NoThread \notin Threads
  /\ MAX_CALLBACKS \in Nat
  /\ NoName \notin Names
  /\ Priorities \subseteq Nat
  /\ MaxId \in Nat /\ MaxCalls \in Nat
  /\ NestedOps \subseteq {"register", "unregister", "enable", "execute",
                        "diagnostics", "shutdown"}
  /\ UnregisterRunning \in BOOLEAN

Slots == 0 .. MAX_CALLBACKS - 1
NULL == -1          \* no entry

CB_SUCCESS == 0
CB_ERROR_INVALID_PARAM == -1
CB_ERROR_NO_MEMORY == -2
CB_ERROR_TIMEOUT == -3
CB_ERROR_NOT_FOUND == -4
CB_ERROR_ALREADY_EXISTS == -5
CB_ERROR_NOT_INITIALIZED == -8

\* The id of an entry not in use: UINT32_MAX, which is -1 as an int32_t.
INVALID_ID == -1

Unused(id) == [id |-> id, name |-> NoName, priority |-> 0,
               enabled |-> FALSE, registered |-> FALSE]

VARIABLES
  entries,                \* the table
  priority_list,          \* the slots in the order of the linked list
  initialized,
  next_id,
  active_count,
  total_registrations,
  total_unregistrations,
  owner,                  \* the thread that holds the mutex
  locks,                  \* how often it has locked it
  alive,                  \* whether the mutex exists
  pc,                     \* what each thread does next
  req,                    \* the call each thread makes
  ret,                    \* what the last call of each thread returned
  entry,                  \* the local pointer entry of callback_register
  passes,                 \* the passes each thread is in, the innermost last
  calls,                  \* the number of calls so far (bound)
  assigned                \* the id the last registration received (history)

table == <<entries, priority_list, next_id, active_count,
           total_registrations, total_unregistrations>>
mutex == <<owner, locks, alive>>
locals == <<req, ret, entry, assigned>>
vars == <<table, initialized, mutex, pc, locals, passes, calls>>

Requests ==
  [op : {"register"}, name : Names \cup {NoName}, priority : Priorities]
    \cup [op : {"unregister"}, id : 1 .. MaxId]
    \cup [op : {"enable"}, id : 1 .. MaxId, enabled : BOOLEAN]
    \cup [op : {"execute", "diagnostics", "shutdown"}]

\* A thread outside the manager.
NoCall == [op |-> "none"]

Registered == {s \in Slots : entries[s].registered}

\* The linked list after slot s; a cleared entry has a null next pointer.
Next_(s) ==
  LET k == CHOOSE k \in DOMAIN priority_list : priority_list[k] = s
  IN  IF s \in Range(priority_list) /\ k < Len(priority_list)
        THEN priority_list[k + 1]
        ELSE NULL

First == IF priority_list = << >> THEN NULL ELSE Head(priority_list)

EnabledIds == {entries[s].id : s \in {s \in Registered : entries[s].enabled}}

\* A pass: `current`; the <<priority, id>> of what it has called and the ids
\* enabled ever since it began (history).
NewPass == [entry |-> First, ran |-> << >>, steady |-> EnabledIds]
Top(t) == passes[t][Len(passes[t])]
Current(t) == Top(t).entry
-----------------------------------------------------------------------------
(* The work of the operations under the mutex.                             *)

NameTaken(name) == \E s \in Registered : entries[s].name = name

FreeSlots == Slots \ Registered

\* The slots in use under an id, at most one.
Found(id) == {s \in Registered : entries[s].id = id}

\* Mutant: a new callback goes before those of its own priority.
InsertionPointBefore(priority) ==
  LET lower == {k \in DOMAIN priority_list :
                  entries[priority_list[k]].priority <= priority}
  IN  IF lower = {} THEN Len(priority_list) + 1 ELSE Min(lower)

\* insert_into_priority_list: before the first entry of lower priority, which
\* may be the head, or at the end.
InsertionPoint(priority) ==
  LET lower == {k \in DOMAIN priority_list :
                  entries[priority_list[k]].priority < priority}
  IN  IF lower = {} THEN Len(priority_list) + 1 ELSE Min(lower)

RegisterCode(name) ==
  IF NameTaken(name) THEN CB_ERROR_ALREADY_EXISTS
  ELSE IF FreeSlots = {} THEN CB_ERROR_NO_MEMORY ELSE CB_SUCCESS

\* Mutant: the name is not compared with those in use.
RegisterUnchecked(name, priority) ==
  IF FreeSlots # {}
    THEN /\ entries' = [entries EXCEPT ![Min(FreeSlots)] =
                          [id |-> next_id, name |-> name, priority |-> priority,
                           enabled |-> TRUE, registered |-> TRUE]]
         /\ priority_list' = InsertAt(priority_list, InsertionPoint(priority),
                                      Min(FreeSlots))
         /\ next_id' = next_id + 1
         /\ active_count' = active_count + 1
         /\ total_registrations' = total_registrations + 1
         /\ UNCHANGED total_unregistrations
    ELSE UNCHANGED table

Register(name, priority) ==
  IF RegisterCode(name) = CB_SUCCESS
    THEN /\ entries' = [entries EXCEPT ![Min(FreeSlots)] =
                          [id |-> next_id, name |-> name, priority |-> priority,
                           enabled |-> TRUE, registered |-> TRUE]]
         /\ priority_list' = InsertAt(priority_list, InsertionPoint(priority),
                                      Min(FreeSlots))
         /\ next_id' = next_id + 1
         /\ active_count' = active_count + 1
         /\ total_registrations' = total_registrations + 1
         /\ UNCHANGED total_unregistrations
    ELSE UNCHANGED table

\* Mutant: the entry is cleared and left in the list.
UnregisterKeepsLink(id) ==
  IF Found(id) # {}
    THEN /\ entries' = [s \in Slots |-> IF s \in Found(id) THEN Unused(INVALID_ID)
                                                           ELSE entries[s]]
         /\ active_count' = active_count - 1
         /\ total_unregistrations' = total_unregistrations + 1
         /\ UNCHANGED <<priority_list, next_id, total_registrations>>
    ELSE UNCHANGED table

\* Mutant: the counters change although the id was not found.
UnregisterMiscounts(id) ==
  /\ entries' = [s \in Slots |-> IF s \in Found(id) THEN Unused(INVALID_ID)
                                                   ELSE entries[s]]
  /\ priority_list' = SelectSeq(priority_list, LAMBDA s : s \notin Found(id))
  /\ active_count' = active_count - 1
  /\ total_unregistrations' = total_unregistrations + 1
  /\ UNCHANGED <<next_id, total_registrations>>

Unregister(id) ==
  IF Found(id) # {}
    THEN /\ entries' = [s \in Slots |-> IF s \in Found(id) THEN Unused(INVALID_ID)
                                                           ELSE entries[s]]
         /\ priority_list' = RemoveFirst(priority_list, CHOOSE s \in Found(id) : TRUE)
         /\ active_count' = active_count - 1
         /\ total_unregistrations' = total_unregistrations + 1
         /\ UNCHANGED <<next_id, total_registrations>>
    ELSE UNCHANGED table

SetEnabled(id, enabled) ==
  /\ entries' = [s \in Slots |-> IF s \in Found(id)
                                   THEN [entries[s] EXCEPT !.enabled = enabled]
                                   ELSE entries[s]]
  /\ UNCHANGED <<priority_list, next_id, active_count, total_registrations,
                 total_unregistrations>>

FoundCode(id) == IF Found(id) = {} THEN CB_ERROR_NOT_FOUND ELSE CB_SUCCESS
-----------------------------------------------------------------------------
(* callback_manager_init, called by one thread while no other call runs.   *)
(* When the mutex cannot be made, the memory it has cleared stays cleared. *)

Init ==
  /\ entries = [s \in Slots |-> Unused(INVALID_ID)]
  /\ priority_list = << >>
  /\ initialized = TRUE
  /\ next_id = 1
  /\ active_count = 0
  /\ total_registrations = 0
  /\ total_unregistrations = 0
  /\ owner = NoThread
  /\ locks = 0
  /\ alive = TRUE
  /\ pc = [t \in Threads |-> "idle"]
  /\ req = [t \in Threads |-> NoCall]
  /\ ret = [t \in Threads |-> CB_SUCCESS]
  /\ entry = [t \in Threads |-> NULL]
  /\ passes = [t \in Threads |-> << >>]
  /\ calls = 0
  /\ assigned = [t \in Threads |-> INVALID_ID]

AllIdle == \A t \in Threads : pc[t] = "idle"

callback_manager_init ==
  /\ AllIdle
  /\ ~initialized
  /\ calls < MaxCalls
  /\ calls' = calls + 1
  /\ entries' = [s \in Slots |-> Unused(INVALID_ID)]
  /\ priority_list' = << >>
  /\ initialized' = TRUE
  /\ next_id' = 1
  /\ active_count' = 0
  /\ total_registrations' = 0
  /\ total_unregistrations' = 0
  /\ alive' = TRUE
  /\ UNCHANGED <<owner, locks, pc, locals, passes>>

InitFails ==
  /\ AllIdle
  /\ ~initialized
  /\ calls < MaxCalls
  /\ calls' = calls + 1
  /\ entries' = [s \in Slots |-> Unused(0)]
  /\ priority_list' = << >>
  /\ next_id' = 0
  /\ active_count' = 0
  /\ total_registrations' = 0
  /\ total_unregistrations' = 0
  /\ UNCHANGED <<initialized, mutex, pc, locals, passes>>
-----------------------------------------------------------------------------
(* Entering and leaving an operation.                                      *)

Goto(t, from, to) == pc[t] = from /\ pc' = [pc EXCEPT ![t] = to]

\* The threads' own code: outside the manager, or in a callback.
UserCode == {"idle", "callback"}

\* The callbacks that t is running: those at which its passes stand.
Running(t) == {entries[passes[t][d].entry].id : d \in DOMAIN passes[t]}

\* Who may call what: only Main shuts down; a callback calls NestedOps and, if
\* so chosen, unregisters only what does not run.
MayCall(t, r) ==
  /\ pc[t] \in UserCode
  /\ calls < MaxCalls
  /\ r.op = "shutdown" => t = Main
  /\ pc[t] = "callback" =>
       /\ r.op \in NestedOps
       /\ (r.op = "unregister" /\ ~UnregisterRunning) => r.id \notin Running(t)

\* The call returns to the thread's own code, the passes in `stack` still in
\* progress around it; its local variables and what is recorded of it go.
Return(t, from, code, stack) ==
  /\ Goto(t, from, IF stack = << >> THEN "idle" ELSE "callback")
  /\ passes' = [passes EXCEPT ![t] = stack]
  /\ req' = [req EXCEPT ![t] = NoCall]
  /\ ret' = [ret EXCEPT ![t] = code]
  /\ entry' = [entry EXCEPT ![t] = NULL]
  /\ assigned' = [assigned EXCEPT ![t] = INVALID_ID]

InvalidParam(r) == r.op = "register" /\ r.name = NoName

\* The early returns; `initialized` is read without the mutex.
Refuse(t, r) ==
  /\ MayCall(t, r)
  /\ calls' = calls + 1
  /\ \/ ~initialized /\ Return(t, pc[t], CB_ERROR_NOT_INITIALIZED, passes[t])
     \/ /\ initialized /\ InvalidParam(r)
        /\ Return(t, pc[t], CB_ERROR_INVALID_PARAM, passes[t])
  /\ UNCHANGED <<table, initialized, mutex>>

Call(t, r) ==
  /\ MayCall(t, r)
  /\ calls' = calls + 1
  /\ initialized /\ ~InvalidParam(r)
  /\ Goto(t, pc[t], "lock")
  /\ req' = [req EXCEPT ![t] = r]
  /\ UNCHANGED <<table, initialized, mutex, ret, entry, assigned, passes>>

\* The owner is let in again. What a lock of a destroyed mutex does is undefined:
\* it fails (Timeout), or a thread that waits for it gets it.
Lock(t) ==
  /\ Goto(t, "lock", "locked")
  /\ owner \in {NoThread, t}
  /\ owner' = t
  /\ locks' = locks + 1
  /\ UNCHANGED <<table, initialized, alive, locals, passes, calls>>

\* Five seconds have passed and another thread still holds the mutex (or it has
\* been destroyed meanwhile); shutdown goes on without it.
Timeout(t) ==
  /\ owner \notin {NoThread, t} \/ ~alive
  /\ IF req[t].op = "shutdown"
       THEN Goto(t, "lock", "destroy") /\ UNCHANGED <<locals, passes>>
       ELSE Return(t, "lock", CB_ERROR_TIMEOUT, passes[t])
  /\ UNCHANGED <<table, initialized, mutex, calls>>

Unlock ==
  /\ locks' = locks - 1
  /\ owner' = IF locks = 1 THEN NoThread ELSE owner
  /\ UNCHANGED alive

\* The passes around a call that changes the table (history): what is not
\* enabled any more has not been so all along.
Still(stack) ==
  [d \in DOMAIN stack |-> [stack[d] EXCEPT !.steady = @ \cap EnabledIds']]
-----------------------------------------------------------------------------
(* The operations, mutex held.                                             *)

callback_register(t) ==
  /\ req[t].op = "register"
  /\ Register(req[t].name, req[t].priority)
  /\ Unlock
  /\ IF RegisterCode(req[t].name) = CB_SUCCESS
       THEN /\ Goto(t, "locked", "return")
            /\ entry' = [entry EXCEPT ![t] = Min(FreeSlots)]
            /\ assigned' = [assigned EXCEPT ![t] = next_id]
            /\ UNCHANGED <<req, ret, passes>>
       ELSE Return(t, "locked", RegisterCode(req[t].name), passes[t])
  /\ UNCHANGED <<initialized, calls>>

\* The id is read from the entry again after the unlock.
ReturnId(t) ==
  /\ Return(t, "return", entries[entry[t]].id, passes[t])
  /\ UNCHANGED <<table, initialized, mutex, calls>>

callback_unregister(t) ==
  /\ req[t].op = "unregister"
  /\ Unregister(req[t].id)
  /\ Unlock
  /\ Return(t, "locked", FoundCode(req[t].id), Still(passes[t]))
  /\ UNCHANGED <<initialized, calls>>

\* Mutant: the mutex is not released when the id is not found.
callback_set_enabled_leaks(t) ==
  /\ req[t].op = "enable"
  /\ SetEnabled(req[t].id, req[t].enabled)
  /\ IF Found(req[t].id) = {} THEN UNCHANGED mutex ELSE Unlock
  /\ Return(t, "locked", FoundCode(req[t].id), Still(passes[t]))
  /\ UNCHANGED <<initialized, calls>>

callback_set_enabled(t) ==
  /\ req[t].op = "enable"
  /\ SetEnabled(req[t].id, req[t].enabled)
  /\ Unlock
  /\ Return(t, "locked", FoundCode(req[t].id), Still(passes[t]))
  /\ UNCHANGED <<initialized, calls>>

\* callback_print_diagnostics walks the list and prints.
Diagnostics(t) ==
  /\ req[t].op = "diagnostics"
  /\ Return(t, "locked", CB_SUCCESS, passes[t])
  /\ Unlock
  /\ UNCHANGED <<table, initialized, calls>>
-----------------------------------------------------------------------------
(* callback_execute_all: a walk along the list, mutex held throughout.     *)

PassBegins(t) ==
  /\ req[t].op = "execute"
  /\ Goto(t, "locked", "walk")
  /\ passes' = [passes EXCEPT ![t] = Append(@, NewPass)]
  /\ UNCHANGED <<table, initialized, mutex, locals, calls>>

\* The callback of the current entry is called.
Invoke(t) ==
  /\ Goto(t, "walk", "callback")
  /\ Current(t) # NULL
  /\ entries[Current(t)].enabled
  /\ passes' = [passes EXCEPT ![t][Len(passes[t])].ran =
                  Append(@, <<entries[Current(t)].priority, entries[Current(t)].id>>)]
  /\ UNCHANGED <<table, initialized, mutex, locals, calls>>

\* Mutant: after a disabled callback the next one is passed over, too.
AdvanceTwice(t) ==
  /\ \/ /\ Goto(t, "callback", "walk")
        /\ passes' = [passes EXCEPT ![t][Len(passes[t])].entry = Next_(@)]
     \/ /\ Goto(t, "walk", "walk")
        /\ Current(t) # NULL
        /\ ~entries[Current(t)].enabled
        /\ passes' = [passes EXCEPT ![t][Len(passes[t])].entry = Next_(Next_(@))]
  /\ UNCHANGED <<table, initialized, mutex, locals, calls>>

\* The callback has returned, or a disabled one is passed over. The next entry
\* is read only now.
Advance(t) ==
  /\ \/ Goto(t, "callback", "walk")
     \/ /\ Goto(t, "walk", "walk")
        /\ Current(t) # NULL
        /\ ~entries[Current(t)].enabled
  /\ passes' = [passes EXCEPT ![t][Len(passes[t])].entry = Next_(@)]
  /\ UNCHANGED <<table, initialized, mutex, locals, calls>>

\* Back to the caller, which may be a callback of the pass around it.
PassEnds(t) ==
  /\ pc[t] = "walk" /\ Current(t) = NULL
  /\ Return(t, "walk", Len(Top(t).ran), Front(passes[t]))
  /\ Unlock
  /\ UNCHANGED <<table, initialized, calls>>
-----------------------------------------------------------------------------
(* callback_manager_shutdown. memset leaves the ids 0 and not UINT32_MAX.  *)

Clear(t) ==
  /\ req[t].op = "shutdown"
  /\ entries' = [s \in Slots |-> Unused(0)]
  /\ priority_list' = << >>
  /\ active_count' = 0
  /\ passes' = [passes EXCEPT ![t] = Still(@)]
  /\ Goto(t, "locked", "destroy")
  /\ Unlock
  /\ UNCHANGED <<next_id, total_registrations, total_unregistrations,
                 initialized, locals, calls>>

Destroy(t) ==
  /\ Goto(t, "destroy", "destroyed")
  /\ alive' = FALSE
  /\ UNCHANGED <<table, initialized, owner, locks, locals, passes, calls>>

ShutdownEnds(t) ==
  /\ Return(t, "destroyed", CB_SUCCESS, passes[t])
  /\ initialized' = FALSE
  /\ UNCHANGED <<table, mutex, calls>>
-----------------------------------------------------------------------------
\* The steps of a call once it is in progress.
Step(t) ==
  \/ Lock(t) \/ Timeout(t)
  \/ callback_register(t) \/ ReturnId(t)
  \/ callback_unregister(t)
  \/ callback_set_enabled(t)
  \/ Diagnostics(t)
  \/ PassBegins(t) \/ Invoke(t) \/ Advance(t) \/ PassEnds(t)
  \/ Clear(t) \/ Destroy(t) \/ ShutdownEnds(t)

Next ==
  \/ callback_manager_init \/ InitFails
  \/ \E t \in Threads : \E r \in Requests : Call(t, r)
  \/ \E t \in Threads : \E r \in Requests : Refuse(t, r)
  \/ \E t \in Threads : Step(t)

Spec == Init /\ [][Next]_vars
-----------------------------------------------------------------------------
Ids == Nat \cup {INVALID_ID}

Entry == [id : Ids, name : Names \cup {NoName},
          priority : Priorities \cup {0}, enabled : BOOLEAN, registered : BOOLEAN]

Pass == [entry : Slots \cup {NULL}, ran : Seq(Nat \X Ids), steady : SUBSET Ids]

\* The shape of the state.
TypeOK ==
  /\ entries \in [Slots -> Entry]
  /\ priority_list \in Seq(Slots)
  /\ initialized \in BOOLEAN /\ alive \in BOOLEAN
  /\ next_id \in Nat
  /\ active_count \in Nat
  /\ total_registrations \in Nat /\ total_unregistrations \in Nat
  /\ owner \in Threads \cup {NoThread} /\ locks \in Nat
  /\ pc \in [Threads -> {"idle", "lock", "locked", "return", "walk", "callback",
                         "destroy", "destroyed"}]
  /\ req \in [Threads -> Requests \cup {NoCall}]
  /\ entry \in [Threads -> Slots \cup {NULL}]
  /\ calls \in 0 .. MaxCalls
  /\ passes \in [Threads -> Seq(Pass)]
  /\ \A t \in Threads :
       /\ pc[t] \in {"walk", "callback"} => passes[t] # << >>
       /\ pc[t] = "idle" => passes[t] = << >>

\* Entry a comes before entry b: higher priority, or the same and older.
Before(a, b) ==
  \/ entries[a].priority > entries[b].priority
  \/ entries[a].priority = entries[b].priority /\ entries[a].id < entries[b].id

\* The list leads through every entry in use exactly once, by priority and then
\* in the order of registration, whatever the callbacks have done to it.
ListSound ==
  /\ Range(priority_list) = Registered
  /\ \A j, k \in DOMAIN priority_list :
       j < k => Before(priority_list[j], priority_list[k])
  /\ (initialized /\ \A t \in Threads : pc[t] \notin {"destroy", "destroyed"}) =>
       /\ active_count = Cardinality(Registered)
       /\ active_count = total_registrations - total_unregistrations

\* Two callbacks in use differ in id and in name, and ids are used only once.
Distinct ==
  /\ \A a, b \in Registered :
       (entries[a].id = entries[b].id \/ entries[a].name = entries[b].name) => a = b
  /\ \A s \in Registered : entries[s].id < next_id

\* How often thread t holds the mutex: once in each of its passes, and once in
\* the operation it is in.
Holds(t) == Len(passes[t]) + (IF pc[t] = "locked" THEN 1 ELSE 0)

\* A call that has returned, to a thread or to a callback, has unlocked the mutex
\* as often as it has locked it, on every path: the mutex is free when no call
\* holds it, and only one thread's calls ever do.
MutexReleased ==
  /\ owner = NoThread <=> locks = 0
  /\ \A t \in Threads : Holds(t) = IF owner = t THEN locks ELSE 0

\* The callbacks of a pass are called in the order of the list, each at most
\* once, even if callbacks register and unregister others meanwhile or begin
\* passes of their own. It is so when no callback is unregistered from a
\* callback while it runs (UnregisterRunning is FALSE).
PassInOrder ==
  \A t \in Threads : \A d \in DOMAIN passes[t] :
    LET ran == passes[t][d].ran
    IN  \A j, k \in DOMAIN ran :
          j < k => \/ ran[j][1] > ran[k][1]
                   \/ ran[j][1] = ran[k][1] /\ ran[j][2] < ran[k][2]

\* A pass that ends has called every callback that was registered and enabled
\* all along, under the same condition.
PassComplete ==
  \A t \in Threads :
    (pc[t] = "walk" /\ Current(t) = NULL) =>
      \A id \in Top(t).steady : \E k \in DOMAIN Top(t).ran : Top(t).ran[k][2] = id

\* A registration that succeeds returns the id it has assigned.
ReturnsOwnId ==
  [][\A t \in Threads : pc[t] = "return" /\ pc'[t] # "return"
                           => ret'[t] = assigned[t]]_vars

\* The mutex is not destroyed while a thread holds it or waits for it.
DestroyedUnused ==
  ~alive => owner = NoThread /\ \A t \in Threads : pc[t] # "lock"
=============================================================================
