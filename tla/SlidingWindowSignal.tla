------------------------- MODULE SlidingWindowSignal -------------------------
(***************************************************************************)
(* SlidingWindowSignal: how a disconnect of the runner learns why its      *)
(* process exited.  The event and the question come in either order.  The  *)
(* clock and the emitter belong to the module that instantiates this one.  *)
(* A definition named Slip... is a plausible mistake in the definition     *)
(* after it; no specification uses it.                                     *)
(***************************************************************************)
EXTENDS Integers

CONSTANT Window  \* windowSizeInMs

Never == -1

VARIABLES
  now,            \* Date.now()
  lastSignalTime,
  asked,          \* when getSignal was called
  answered,       \* when it returned
  answer,         \* "idle", "pending", "signal", "null"
  emitted         \* times at which the event was emitted (history)

Init ==
  /\ lastSignalTime = Never /\ emitted = {}
  /\ asked = Never /\ answered = Never /\ answer = "idle"

Recent == lastSignalTime # Never /\ now - lastSignalTime <= Window

(* `getSignal`, once the last question has been answered *)
GetSignal ==
  /\ answer # "pending"
  /\ asked' = now
  /\ answer' = IF Recent THEN "signal" ELSE "pending"
  /\ answered' = IF Recent THEN now ELSE Never
  /\ UNCHANGED <<now, lastSignalTime, emitted>>

(* The listeners of the event: the one of the constructor and `onExit`. *)
SlipEmit ==
  /\ lastSignalTime' = now
  /\ emitted' = emitted \cup {now}
  /\ UNCHANGED <<now, asked, answer, answered>>
Emit ==
  /\ lastSignalTime' = now
  /\ emitted' = emitted \cup {now}
  /\ IF answer = "pending"
       THEN answer' = "signal" /\ answered' = now
       ELSE UNCHANGED <<answer, answered>>
  /\ UNCHANGED <<now, asked>>

(* The timer of getSignal.  It is set without a delay, which is one         *)
(* millisecond; a timer may fire late.                                      *)
TimerDelay == 1
TimeOut ==
  /\ answer = "pending" /\ now >= asked + TimerDelay
  /\ answer' = "null" /\ answered' = now
  /\ UNCHANGED <<now, lastSignalTime, asked, emitted>>

-----------------------------------------------------------------------------
(* What getSignal answers is true of the time from one window before the    *)
(* call to the answer: a signal was emitted in it, or none was.             *)
AnswerIsTrue ==
  LET heard == \E t \in emitted : asked - Window <= t /\ t <= answered IN
  /\ answer = "signal" => heard
  /\ answer = "null" => ~\E t \in emitted : asked - Window <= t /\ t < answered
=============================================================================
