---------------------------- MODULE TimerEvents ----------------------------
(***************************************************************************)
(* TimerEventSystem of src/Src/TimerDynamicArray.cpp: events registered    *)
(* for a time, looked up by time when the interrupt comes and by handle    *)
(* when they are removed.  One thread; the hard part is that the user's    *)
(* callback runs in the middle of the interrupt handler and may call       *)
(* timerAddEvent and timerRemoveEvent.                                     *)
(*                                                                         *)
(* pc is where the thread is: "idle" outside every call, "advance" at the  *)
(* head of the loop of advanceTime (line 143), "interrupt" at the head of  *)
(* the loop over the slot (111), "callback" inside the callback of line    *)
(* 116, "undefined" after the slot under the loop has been freed.          *)
(* What a callback does beyond calling back is not modelled, so an event   *)
(* is its handle.  A callback does not call advanceTime.                   *)
(***************************************************************************)
EXTENDS Naturals, SequencesExt

CONSTANTS
  MaxTime,    \* bound: the last time an event is registered for
  MaxHandle,  \* bound: the number of successful registrations
  SameSlot    \* whether callbacks remove events of the slot being executed,
              \* their own among them

VARIABLES
  timeToCallbacks,  \* std::map: the handles registered for a time, in order
  handleToTime,     \* std::unordered_map: the time of a handle
  nextHandle,
  currentTime,
  hwRegister,       \* the hardware register; 0 until it is first written
  pc,
  newTime,          \* the argument of advanceTime
  batch,            \* the memory the loop of line 111 reads
  at,               \* its position in batch
  handle,           \* its local variable handle, read before the callback; or 0
  due,              \* the time each handle was registered for (history)
  fired,            \* <<handle, time>> of each callback executed (history)
  removed           \* the handles timerRemoveEvent returned true for (history)

tables == <<timeToCallbacks, handleToTime, nextHandle>>
loops == <<currentTime, pc, newTime, batch, at, handle>>
history == <<due, fired, removed>>
vars == <<tables, hwRegister, loops, history>>

Times == 1 .. MaxTime
Handles == 1 .. MaxHandle

\* m[k] = v and m.erase(k) of a std::map.
Assign(m, k, v) == [x \in DOMAIN m \cup {k} |-> IF x = k THEN v ELSE m[x]]
Erase(m, k) == [x \in DOMAIN m \ {k} |-> m[x]]

Slot(t) == IF t \in DOMAIN timeToCallbacks THEN timeToCallbacks[t] ELSE << >>

Init ==
  /\ timeToCallbacks = << >>
  /\ handleToTime = << >>
  /\ nextHandle = 1
  /\ currentTime = 0
  /\ hwRegister = 0
  /\ pc = "idle"
  /\ newTime = 0
  /\ batch = << >>
  /\ at = 0
  /\ handle = 0
  /\ due = << >>
  /\ fired = << >>
  /\ removed = {}
-----------------------------------------------------------------------------
\* The register is written with the earliest time that has a slot, if any.
SetEarliest(slots) ==
  hwRegister' = IF slots = << >> THEN hwRegister ELSE Min(DOMAIN slots)

\* The user's code runs, at top level or in a callback.
UserRuns == pc \in {"idle", "callback"}

AddInTime(time) == time > currentTime

\* Mutant: the event is put before those registered for the same time.
PushFront(slot, h) == <<h>> \o slot

PushBack(slot, h) == Append(slot, h)

timerAddEvent(time) ==
  /\ UserRuns
  /\ nextHandle <= MaxHandle
  /\ AddInTime(time)
  /\ nextHandle' = nextHandle + 1
  /\ timeToCallbacks' = Assign(timeToCallbacks, time, PushBack(Slot(time), nextHandle))
  /\ handleToTime' = Assign(handleToTime, nextHandle, time)
  /\ SetEarliest(timeToCallbacks')
  /\ due' = Append(due, time)
  /\ UNCHANGED <<loops, fired, removed>>

\* No callback, or a time that is not in the future: -1 is returned.
AddRefused ==
  /\ UserRuns
  /\ UNCHANGED vars
-----------------------------------------------------------------------------
\* remove_if and erase; a slot has no handle twice.
WithoutHandle(slot, h) == RemoveFirst(slot, h)

RemoveFromSlot(t, h) ==
  timeToCallbacks' = IF WithoutHandle(Slot(t), h) = << >>
                     THEN Erase(timeToCallbacks, t)
                     ELSE Assign(timeToCallbacks, t, WithoutHandle(Slot(t), h))

Executing(t) == pc = "callback" /\ t = currentTime

\* vector::erase moves the later elements down; the last cell, which the loop
\* still counts as an element, keeps its value.  When the slot is freed as well
\* the loop and line 123 use freed memory.
RemoveUnderLoop(t, h) ==
  LET left == WithoutHandle(Slot(t), h) IN
  /\ SameSlot
  /\ batch' = [i \in DOMAIN batch |-> IF i <= Len(left) THEN left[i] ELSE batch[i]]
  /\ pc' = IF left = << >> THEN "undefined" ELSE pc

timerRemoveEvent(h) ==
  /\ UserRuns
  /\ h \in DOMAIN handleToTime
  /\ LET t == handleToTime[h] IN
       /\ RemoveFromSlot(t, h)
       /\ IF Executing(t) THEN RemoveUnderLoop(t, h) ELSE UNCHANGED <<batch, pc>>
  /\ handleToTime' = Erase(handleToTime, h)
  /\ removed' = removed \cup {h}
  /\ UNCHANGED <<nextHandle, hwRegister, currentTime, newTime, at, handle, due, fired>>

\* An unknown handle: false is returned.
RemoveRefused(h) ==
  /\ UserRuns
  /\ h \notin DOMAIN handleToTime
  /\ UNCHANGED vars
-----------------------------------------------------------------------------
advanceTime(t) ==
  /\ pc = "idle"
  /\ pc' = "advance"
  /\ newTime' = t
  /\ UNCHANGED <<tables, hwRegister, currentTime, batch, at, handle, history>>

\* One turn of the loop of advanceTime, into the interrupt handler if a slot
\* is due.
Tick ==
  /\ pc = "advance"
  /\ currentTime < newTime
  /\ currentTime' = currentTime + 1
  /\ IF currentTime + 1 \in DOMAIN timeToCallbacks
     THEN pc' = "interrupt" /\ batch' = timeToCallbacks[currentTime + 1] /\ at' = 1
     ELSE UNCHANGED <<pc, batch, at>>
  /\ UNCHANGED <<tables, hwRegister, newTime, handle, history>>

\* Mutant: advanceTime returns only when it has gone past its argument.
AdvanceEndsPast ==
  /\ pc = "advance"
  /\ currentTime > newTime
  /\ pc' = "idle"
  /\ UNCHANGED <<tables, hwRegister, currentTime, newTime, batch, at, handle, history>>

AdvanceEnds ==
  /\ pc = "advance"
  /\ currentTime >= newTime
  /\ pc' = "idle"
  /\ UNCHANGED <<tables, hwRegister, currentTime, newTime, batch, at, handle, history>>

Execute ==
  /\ pc = "interrupt"
  /\ at <= Len(batch)
  /\ pc' = "callback"
  /\ handle' = batch[at]
  /\ fired' = Append(fired, <<handle', currentTime>>)
  /\ UNCHANGED <<tables, hwRegister, currentTime, newTime, batch, at, due, removed>>

\* Mutant: the handle of an executed event stays valid.
CallbackReturnsKeepsHandle ==
  /\ pc = "callback"
  /\ pc' = "interrupt"
  /\ at' = at + 1
  /\ handle' = 0
  /\ UNCHANGED <<tables, hwRegister, currentTime, newTime, batch, history>>

\* What is erased is the handle read before the callback, which may have moved
\* the elements of the slot meanwhile.
CallbackReturns ==
  /\ pc = "callback"
  /\ pc' = "interrupt"
  /\ handleToTime' = Erase(handleToTime, handle)
  /\ at' = at + 1
  /\ handle' = 0
  /\ UNCHANGED <<timeToCallbacks, nextHandle, hwRegister, currentTime, newTime,
                 batch, history>>

\* Past the loop: the slot is erased and the register written.
InterruptEnds ==
  /\ pc = "interrupt"
  /\ at > Len(batch)
  /\ timeToCallbacks' = Erase(timeToCallbacks, currentTime)
  /\ SetEarliest(timeToCallbacks')
  /\ pc' = "advance"
  /\ batch' = << >>
  /\ at' = 0
  /\ UNCHANGED <<handleToTime, nextHandle, currentTime, newTime, handle, history>>

timerModuleInterruptHandler == Execute \/ CallbackReturns \/ InterruptEnds
-----------------------------------------------------------------------------
User ==
  \/ \E t \in Times : timerAddEvent(t) \/ advanceTime(t)
  \/ AddRefused
  \/ \E h \in Handles : timerRemoveEvent(h) \/ RemoveRefused(h)

System == Tick \/ AdvanceEnds \/ timerModuleInterruptHandler

Next == User \/ System

Spec == Init /\ [][Next]_vars

\* A call goes on until it returns, and so does a callback.
FairSpec == Spec /\ WF_vars(System)
-----------------------------------------------------------------------------
InInterrupt == pc \in {"interrupt", "callback"}

\* The events of a slot whose handles are still valid: in the slot under the
\* interrupt, those the loop has not finished with.
Live(t) ==
  LET first == IF InInterrupt /\ t = currentTime THEN at ELSE 1
  IN {timeToCallbacks[t][i] : i \in first .. Len(timeToCallbacks[t])}

\* If no callback removes an event of the slot being executed (SameSlot is FALSE):
\* the two tables describe the same events at every step, in the middle of an
\* interrupt too. A handle is valid exactly while its event is in a slot and
\* has not been executed, and it leads to the slot that holds the event. No slot
\* is empty, and none is left behind in the past.
HandlesAgree ==
  /\ DOMAIN handleToTime = UNION {Live(t) : t \in DOMAIN timeToCallbacks}
  /\ \A t \in DOMAIN timeToCallbacks : \A h \in Live(t) : handleToTime[h] = t
  /\ \A t \in DOMAIN timeToCallbacks : timeToCallbacks[t] # << >> /\ t >= currentTime

Executed == {fired[i][1] : i \in 1 .. Len(fired)}

\* If no callback removes an event of the slot being executed, neither itself nor
\* a neighbour (SameSlot is FALSE; if one does, ExecutesAllDue fails): callbacks
\* are executed at the time they were registered for, in the order of time and,
\* for the same time, of registration; hence none twice. advanceTime passes over
\* no event, whatever callbacks add, and remove from other slots, while it runs:
\* each one was executed or removed unless its time is still to come (or has
\* come, and the interrupt is working on it). And the hardware is never set to
\* wake after the first event pending. (It may be set for an earlier time, and
\* even for one in the past: removal does not write the register.)
FiredOnTime ==
  /\ \A i \in 1 .. Len(fired) : fired[i][2] = due[fired[i][1]]
  /\ \A i, j \in 1 .. Len(fired) : i < j =>
       \/ fired[i][2] < fired[j][2]
       \/ fired[i][2] = fired[j][2] /\ fired[i][1] < fired[j][1]
  /\ \A h \in 1 .. nextHandle - 1 :
       \/ h \in Executed \cup removed
       \/ due[h] > currentTime
       \/ due[h] = currentTime /\ InInterrupt
  /\ ~InInterrupt => \A t \in DOMAIN timeToCallbacks : hwRegister <= t

\* An event that timerRemoveEvent has removed is not executed any more
\* ("Function to remove a scheduled timer event", line 69).
RemovedNeverExecuted ==
  [][\A h \in removed : h \in {fired'[i][1] : i \in 1 .. Len(fired')} => h \in Executed]_vars

\* The interrupt executes all callbacks of its time ("Execute all callbacks for
\* this time", line 110): once it is over, what was due has been executed, or the
\* user has removed it. A callback that removes itself breaks this: the loop
\* steps over the event that takes its place, and line 123 erases the slot.
ExecutesAllDue ==
  pc = "advance" =>
    \A h \in 1 .. nextHandle - 1 : h \in Executed \cup removed \/ due[h] > currentTime

\* advanceTime returns, although its callbacks register events.
AdvanceReturns == pc # "idle" ~> pc = "idle"
=============================================================================
