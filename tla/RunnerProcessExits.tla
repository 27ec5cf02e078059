------------------------- MODULE RunnerProcessExits -------------------------
(***************************************************************************)
(* The two listeners of the `exit` event of TaskRunnerProcess: the restart *)
(* loop detector, and the signal by which a disconnect learns the reason.  *)
(***************************************************************************)
EXTENDS RestartLoopDetector

CONSTANT Window  \* windowSizeInMs of the signal

ASSUME WindowAssumption == Window \in Nat

VARIABLES lastSignalTime, asked, answered, answer

Signal == INSTANCE SlidingWindowSignal WITH emitted <- {exits[i] : i \in 1 .. Len(exits)}

signalVars == <<lastSignalTime, asked, answered, answer>>

ExitsInit == Init /\ Signal!Init

Exit == ProcessExits /\ Signal!Emit
Ask == UNCHANGED vars /\ Signal!GetSignal
GiveUp == UNCHANGED vars /\ Signal!TimeOut
TimePasses == Tick /\ UNCHANGED signalVars

ExitsNext == Exit \/ Ask \/ GiveUp \/ TimePasses
ExitsSpec == ExitsInit /\ [][ExitsNext]_<<vars, signalVars>>

-----------------------------------------------------------------------------
(* What a disconnect is told is true, whichever comes first.                *)
AnswerIsTrue == Signal!AnswerIsTrue
=============================================================================
