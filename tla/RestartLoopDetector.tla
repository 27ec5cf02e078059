------------------------- MODULE RestartLoopDetector -------------------------
(***************************************************************************)
(* TaskRunnerProcessRestartLoopDetector: counts the exits of the runner    *)
(* process within a time window that starts anew when it has passed.       *)
(* A definition named Slip... is a plausible mistake in the definition     *)
(* after it; no specification uses it.                                     *)
(***************************************************************************)
EXTENDS Integers, Sequences, FiniteSets

CONSTANTS
  maxCount,        \* MAX_RESTARTS
  restartsWindow,  \* RESTARTS_WINDOW
  MaxTime,         \* bound: the time up to which the clock runs
  MaxExits         \* bound: exits of the process

ASSUME ConstantsAssumption ==
  /\ maxCount \in Nat \ {0} /\ restartsWindow \in Nat
  /\ MaxTime \in Nat /\ MaxExits \in Nat

VARIABLES
  now,
  numRestarts,
  firstRestartedAt,
  detected,  \* "restart-loop-detected" was emitted; n8n exits on it
  exits      \* times of the exits (history)

vars == <<now, numRestarts, firstRestartedAt, detected, exits>>

Init ==
  /\ now = 0 /\ numRestarts = 0 /\ firstRestartedAt = 0
  /\ detected = FALSE /\ exits = <<>>

(* `increment` *)
SlipPassed == now >= firstRestartedAt + restartsWindow /\ numRestarts > maxCount
Passed == now > firstRestartedAt + restartsWindow

SlipCounted == IF Passed THEN 0 ELSE numRestarts + 1
Counted == IF Passed THEN 1 ELSE numRestarts + 1

(* The process exits: `increment` and `isMaxCountExceeded`. *)
ProcessExits ==
  /\ ~detected /\ Len(exits) < MaxExits
  /\ exits' = Append(exits, now)
  /\ numRestarts' = Counted
  /\ firstRestartedAt' = IF Passed THEN now ELSE firstRestartedAt
  /\ detected' = (Counted >= maxCount)
  /\ UNCHANGED now

Tick ==
  /\ now < MaxTime
  /\ now' = now + 1
  /\ UNCHANGED <<numRestarts, firstRestartedAt, detected, exits>>

Next == ProcessExits \/ Tick
Spec == Init /\ [][Next]_vars

-----------------------------------------------------------------------------
(* n of the exits, in a row, lie within one window. *)
Within(n, i) == i + n - 1 <= Len(exits) /\ exits[i + n - 1] - exits[i] <= restartsWindow

(* n8n is not stopped for a loop that was none: the last maxCount exits lie *)
(* within the window.                                                       *)
NoFalseAlarm == detected => Len(exits) >= maxCount /\ Within(maxCount, Len(exits) - maxCount + 1)

(* A loop is found at the latest when a window holds almost twice as many   *)
(* exits: it meets at most one restart of the count.                        *)
DenseLoopIsFound == (\E i \in 1 .. Len(exits) : Within(2 * maxCount - 1, i)) => detected
=============================================================================
