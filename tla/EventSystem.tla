---------------------------- MODULE EventSystem ----------------------------
(***************************************************************************)
(* event_system_t of src/Src/DynamicEventHandler.c: a linked list of       *)
(* listeners for each event type, newest first, and trigger_event, which   *)
(* calls them.  One thread; a callback may add and remove listeners and    *)
(* trigger further events, so that several triggers are in progress, one   *)
(* inside the other.                                                       *)
(*                                                                         *)
(* A list is the sequence of its nodes' ids.  A trigger in progress is a   *)
(* frame: the node it stands at, and whether that node's callback is       *)
(* running.  The node is read again after the callback (line 97): a        *)
(* callback does not remove a listener some trigger stands at, its own     *)
(* among them, and does not call cleanup_event_system; both would free the *)
(* node.  Event types are not negative (a negative one is not refused).    *)
(***************************************************************************)
EXTENDS Naturals, Sequences, SequencesExt

CONSTANTS
  EventTypes,
  MaxId,       \* bound: the number of listeners ever added
  MaxDepth,    \* bound: the depth of triggers inside callbacks
  NULL

VARIABLES
  callbacks,  \* the list of each event type
  next_id,
  frames      \* the calls of trigger_event in progress, outermost first

vars == <<callbacks, next_id, frames>>

Init ==
  /\ callbacks = [e \in EventTypes |-> << >>]
  /\ next_id = 0
  /\ frames = << >>

Top == frames[Len(frames)]

\* The program runs, at top level or in a callback.
UserRuns == frames # << >> => Top.running

SetTop(frame) == frames' = [frames EXCEPT ![Len(frames)] = frame]

FirstOf(list) == IF list = << >> THEN NULL ELSE Head(list)

\* The node behind the node with this id.
NextOf(list, id) ==
  LET k == CHOOSE k \in DOMAIN list : list[k] = id
  IN IF k = Len(list) THEN NULL ELSE list[k + 1]
-----------------------------------------------------------------------------
\* Mutant: the new node is linked behind the head.
LinkedBehindHead(list, id) ==
  IF list = << >> THEN <<id>> ELSE <<Head(list), id>> \o Tail(list)

Linked(list, id) == <<id>> \o list

add_listener(e) ==
  /\ UserRuns
  /\ next_id < MaxId
  /\ next_id' = next_id + 1
  /\ callbacks' = [callbacks EXCEPT ![e] = Linked(@, next_id + 1)]
  /\ UNCHANGED frames

\* malloc fails or an argument is refused: -1 is returned.
AddFails == UserRuns /\ UNCHANGED vars

remove_listener(e, id) ==
  /\ UserRuns
  /\ id \in Range(callbacks[e])
  /\ \A d \in DOMAIN frames : frames[d].current # id
  /\ callbacks' = [callbacks EXCEPT ![e] = RemoveFirst(@, id)]
  /\ UNCHANGED <<next_id, frames>>

\* Not found: the list is walked and nothing changes.
RemoveFails(e, id) ==
  /\ UserRuns
  /\ id \notin Range(callbacks[e])
  /\ UNCHANGED vars

cleanup_event_system ==
  /\ frames = << >>
  /\ callbacks' = [e \in EventTypes |-> << >>]
  /\ UNCHANGED <<next_id, frames>>
-----------------------------------------------------------------------------
\* steady, ran and newest are history: the listeners there all along, those
\* called so far, and next_id when the trigger began.
trigger_event(e) ==
  /\ UserRuns
  /\ Len(frames) < MaxDepth
  /\ frames' = Append(frames,
       [type |-> e, current |-> FirstOf(callbacks[e]), running |-> FALSE,
        steady |-> Range(callbacks[e]), ran |-> << >>, newest |-> next_id])
  /\ UNCHANGED <<callbacks, next_id>>

CallListener ==
  /\ frames # << >> /\ ~Top.running /\ Top.current # NULL
  /\ SetTop([Top EXCEPT !.running = TRUE, !.ran = Append(@, Top.current)])
  /\ UNCHANGED <<callbacks, next_id>>

\* The callback returns; only now the next node is read.
ListenerReturns ==
  /\ frames # << >> /\ Top.running
  /\ SetTop([Top EXCEPT !.running = FALSE,
                        !.current = NextOf(callbacks[Top.type], @)])
  /\ UNCHANGED <<callbacks, next_id>>

TriggerEnds ==
  /\ frames # << >> /\ ~Top.running /\ Top.current = NULL
  /\ frames' = Front(frames)
  /\ UNCHANGED <<callbacks, next_id>>

Next ==
  \/ \E e \in EventTypes :
       \/ add_listener(e)
       \/ trigger_event(e)
       \/ \E id \in 1 .. MaxId : remove_listener(e, id) \/ RemoveFails(e, id)
  \/ AddFails \/ cleanup_event_system
  \/ CallListener \/ ListenerReturns \/ TriggerEnds

Spec == Init /\ [][Next]_vars
-----------------------------------------------------------------------------
\* The listeners of a trigger that are still there.
Steady(frame) == frame.steady \cap Range(callbacks[frame.type])

\* A trigger calls the listeners of its type from the newest to the oldest, each
\* at most once and none that was added after it began, and passes over none
\* that was there all along, whatever listeners its callbacks and the triggers
\* inside them add, and whatever listeners they remove at which no trigger in
\* progress stands. (A callback that removes its own listener, or one in the
\* middle of an outer trigger, frees the node that line 97 reads: undefined
\* behaviour, of which nothing is said here.)
TriggerComplete ==
  \A d \in DOMAIN frames :
    LET frame == frames[d] IN
    /\ \A j, k \in DOMAIN frame.ran : j < k => frame.ran[j] > frame.ran[k]
    /\ \A k \in DOMAIN frame.ran : frame.ran[k] <= frame.newest
    /\ frame.current = NULL => Steady(frame) \subseteq Range(frame.ran)
=============================================================================
