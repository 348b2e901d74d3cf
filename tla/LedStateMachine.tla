--------------------------- MODULE LedStateMachine ---------------------------
(***************************************************************************)
(* src/Src/StateMachine.cpp: processEvent moves between OFF, ON and BLINK, *)
(* and handleState, which main calls after every event, drives the LED.    *)
(***************************************************************************)
EXTENDS Naturals

VARIABLES
  currentState,
  ledState,
  presses,   \* button presses so far, modulo 3 (history)
  ticks      \* timer events since the last press, modulo 2 (history)

vars == <<currentState, ledState, presses, ticks>>

Init ==
  /\ currentState = "OFF"
  /\ ledState = FALSE
  /\ presses = 0
  /\ ticks = 0

processEvent(state, event) ==
  IF event = "TIMER_EXPIRE" THEN state
  ELSE [OFF |-> "ON", ON |-> "BLINK", BLINK |-> "OFF"][state]

\* Mutant: blinking starts with the LED lit.
handleStateLit(state) ==
  [OFF |-> FALSE, ON |-> TRUE, BLINK |-> ~ledState \/ currentState = "ON"][state]

\* The LED after handleState: off, on, or toggled.
handleState(state) == [OFF |-> FALSE, ON |-> TRUE, BLINK |-> ~ledState][state]

Event(event) ==
  LET state == processEvent(currentState, event) IN
  /\ currentState' = state
  /\ ledState' = handleState(state)

Press == Event("BUTTON_PRESS") /\ presses' = (presses + 1) % 3 /\ ticks' = 0

Expire == Event("TIMER_EXPIRE") /\ ticks' = (ticks + 1) % 2 /\ UNCHANGED presses

Next == Press \/ Expire

Spec == Init /\ [][Next]_vars
-----------------------------------------------------------------------------
\* The state and the LED are a function of the events: three presses lead
\* around; the timer shows only while blinking, which begins dark (the LED is
\* toggled on entry too) and alternates with every expiry from there.
LedFollows ==
  /\ currentState = <<"OFF", "ON", "BLINK">>[presses + 1]
  /\ ledState <=> \/ currentState = "ON"
                  \/ currentState = "BLINK" /\ ticks = 1
=============================================================================
