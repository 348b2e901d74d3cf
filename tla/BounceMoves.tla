----------------------------- MODULE BounceMoves -----------------------------
(***************************************************************************)
(* What the bouncing threads of src/Src/bufferthread.cpp draw, and how     *)
(* they move.  A turn of BounceProc up to the release of the screen mutex  *)
(* is one step, since one thread at a time is there (OneWriter of module   *)
(* BounceThreads), and the move after it another.                          *)
(*                                                                         *)
(* Characters move along one axis, X or Y, with a step of 0 on the other.  *)
(* The console has the cells 0 .. Size of that axis, where Size is         *)
(* consoleSize; it rejects accesses to others.  Every thread has a         *)
(* character of its own: its ID stands for it.                             *)
(***************************************************************************)
EXTENDS Integers

CONSTANTS
  IDs,        \* the threads
  Size,
  MaxDelta    \* the longest step, 3 in the code

VARIABLES
  axis,
  screen,    \* the thread whose character a cell shows, or 0 for a blank
  bTrails,
  coord,     \* Coords of each thread
  old,       \* Old
  delta,     \* Delta
  drawn,     \* whether a thread has drawn and is to move
  trailed,   \* whether trails have been switched on so far (history)
  covered    \* whether another thread has drawn over a thread's character since
             \* it was drawn last, or it has not been drawn yet (history)

vars == <<axis, screen, bTrails, coord, old, delta, drawn, trailed, covered>>

Cells == 0 .. Size

Init ==
  /\ axis \in {"X", "Y"}
  /\ screen = [c \in Cells |-> 0]
  /\ bTrails = FALSE
  /\ coord \in [IDs -> 0 .. Size - 1]
  /\ old = [t \in IDs |-> 0]
  /\ delta \in [IDs -> -MaxDelta .. MaxDelta]
  /\ drawn = [t \in IDs |-> FALSE]
  /\ trailed = FALSE
  /\ covered = [t \in IDs |-> TRUE]

\* The key 't'.
ToggleTrails ==
  /\ bTrails' = ~bTrails
  /\ trailed' = TRUE
  /\ UNCHANGED <<axis, screen, coord, old, delta, drawn, covered>>

\* The cell a thread has drawn last.
LastDrawn(t) == IF drawn[t] THEN coord[t] ELSE old[t]

\* Mutant: the old cell, whatever is in it.
BlankedBlindly(t) == {c \in Cells : ~bTrails /\ c = old[t]}

\* The old cell, if the thread's character is still in it.
Blanked(t) == {c \in Cells : ~bTrails /\ c = old[t] /\ screen[c] = t}

Draw(t) ==
  /\ ~drawn[t]
  /\ screen' = [c \in Cells |-> IF c = coord[t] THEN t
                                ELSE IF c \in Blanked(t) THEN 0 ELSE screen[c]]
  /\ drawn' = [drawn EXCEPT ![t] = TRUE]
  /\ covered' = [u \in IDs |-> u # t /\ (covered[u] \/ LastDrawn(u) = coord[t])]
  /\ UNCHANGED <<axis, bTrails, coord, old, delta, trailed>>

\* The two tests are not alike: a character may be at consoleSize.Y.
OffScreen(c) == c < 0 \/ (IF axis = "X" THEN c >= Size ELSE c > Size)

Move(t) ==
  LET to == coord[t] + delta[t] IN
  /\ drawn[t]
  /\ old' = [old EXCEPT ![t] = coord[t]]
  /\ coord' = [coord EXCEPT ![t] = to]
  /\ delta' = [delta EXCEPT ![t] = IF OffScreen(to) THEN -@ ELSE @]
  /\ drawn' = [drawn EXCEPT ![t] = FALSE]
  /\ UNCHANGED <<axis, screen, bTrails, trailed, covered>>

Next == ToggleTrails \/ \E t \in IDs : Draw(t) \/ Move(t)

Spec == Init /\ [][Next]_vars
-----------------------------------------------------------------------------
\* As long as trails are off a character is seen only where its thread has drawn
\* it last, whoever has drawn over it in between. Trails or not, it stays there
\* until its own thread draws again or another one draws over it: no thread blanks
\* the character of another. And a character that leaves the screen comes back
\* with its next step.
NoGhosts ==
  /\ ~trailed => \A c \in Cells : screen[c] # 0 => LastDrawn(screen[c]) = c
  /\ \A t \in IDs :
       ~covered[t] /\ LastDrawn(t) \in Cells => screen[LastDrawn(t)] = t
  /\ \A t \in IDs : OffScreen(coord[t]) => ~OffScreen(coord[t] + delta[t])
=============================================================================
