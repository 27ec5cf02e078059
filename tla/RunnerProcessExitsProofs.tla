---------------------- MODULE RunnerProcessExitsProofs ----------------------
(***************************************************************************)
(* For every maxCount and every length of the window.  First the restart   *)
(* loop detector: an alarm is never false, and a loop almost twice as      *)
(* dense as maxCount is never missed.  Then its composition with the       *)
(* signal: what a disconnect is told about the exit of the runner process  *)
(* is true; and the detector, watching the same exits, keeps what was      *)
(* proved of it alone.                                                     *)
(***************************************************************************)
EXTENDS RunnerProcessExits, TLAPS

(* Every variable has its type. *)
TypeOK ==
  /\ now \in Nat /\ numRestarts \in Nat /\ firstRestartedAt \in Nat
  /\ detected \in BOOLEAN
  /\ exits \in Seq(Nat)

(* The history is in the order of time. *)
Chronological ==
  /\ \A i \in 1 .. Len(exits) : exits[i] <= now
  /\ \A i, j \in 1 .. Len(exits) : i <= j => exits[i] <= exits[j]
  /\ firstRestartedAt <= now

(* The last numRestarts exits are those of the interval that began at       *)
(* firstRestartedAt, the others came before it.                             *)
CountsInterval ==
  /\ numRestarts <= Len(exits)
  /\ \A i \in 1 .. Len(exits) :
       IF i <= Len(exits) - numRestarts
         THEN exits[i] <= firstRestartedAt
         ELSE firstRestartedAt <= exits[i] /\ exits[i] <= firstRestartedAt + restartsWindow

(* An undetected interval holds fewer than maxCount exits, so the one before *)
(* the last maxCount - 1 exits ahead of the interval is a window older.      *)
EarlierIsOld ==
  /\ detected <=> numRestarts >= maxCount
  /\ \A i \in 1 .. Len(exits) :
       i <= Len(exits) - numRestarts - (maxCount - 1) => exits[i] + restartsWindow < firstRestartedAt

IInv == TypeOK /\ Chronological /\ CountsInterval /\ EarlierIsOld /\ DenseLoopIsFound

USE ConstantsAssumption

(* The step of an exit: what the history and the counter become. *)
LEMMA ExitStep ==
  ASSUME IInv, ProcessExits
  PROVE  /\ exits' \in Seq(Nat) /\ Len(exits') = Len(exits) + 1
         /\ \A i \in 1 .. Len(exits) : exits'[i] = exits[i]
         /\ exits'[Len(exits) + 1] = now
         /\ now' = now /\ ~detected /\ numRestarts < maxCount
         /\ detected' <=> numRestarts' >= maxCount
         /\ \/ /\ now > firstRestartedAt + restartsWindow
               /\ numRestarts' = 1 /\ firstRestartedAt' = now
            \/ /\ now <= firstRestartedAt + restartsWindow
               /\ numRestarts' = numRestarts + 1 /\ firstRestartedAt' = firstRestartedAt
<1>1. exits' = Append(exits, now) /\ exits \in Seq(Nat) /\ now \in Nat
  BY DEF ProcessExits, IInv, TypeOK
<1>2. /\ exits' \in Seq(Nat) /\ Len(exits') = Len(exits) + 1
      /\ \A i \in 1 .. Len(exits) : exits'[i] = exits[i]
      /\ exits'[Len(exits) + 1] = now
  BY <1>1
<1>3. now' = now /\ ~detected /\ numRestarts < maxCount
  BY DEF ProcessExits, IInv, TypeOK, EarlierIsOld
<1>4. detected' <=> numRestarts' >= maxCount
  BY DEF ProcessExits
<1>5. CASE Passed
  BY <1>2, <1>3, <1>4, <1>5 DEF ProcessExits, Passed, Counted
<1>6. CASE ~Passed
  BY <1>2, <1>3, <1>4, <1>6 DEF ProcessExits, Passed, Counted, IInv, TypeOK
<1>7. QED  BY <1>5, <1>6

LEMMA InitIInv == Init => IInv
<1>1. SUFFICES ASSUME Init PROVE IInv
  OBVIOUS
<1>2. exits = <<>> /\ Len(exits) = 0 /\ 1 .. Len(exits) = {}
  BY <1>1 DEF Init
<1>3. TypeOK
  <2>1. exits \in Seq(Nat)
    BY <1>2
  <2>2. QED  BY <1>1, <2>1 DEF Init, TypeOK
<1>c. Chronological
  BY <1>1, <1>2 DEF Init, Chronological
<1>a. CountsInterval
  BY <1>1, <1>2 DEF Init, CountsInterval
<1>b. EarlierIsOld
  <2>1. ~(detected \/ numRestarts >= maxCount)
    BY <1>1 DEF Init
  <2>2. QED  BY <1>2, <2>1 DEF EarlierIsOld
<1>4. DenseLoopIsFound
  BY <1>2 DEF DenseLoopIsFound
<1>5. QED  BY <1>3, <1>c, <1>a, <1>b, <1>4 DEF IInv

(* Where a loop that ends with the last exit begins. *)
LEMMA LoopStart ==
  ASSUME NEW i \in Nat, NEW l \in Nat, NEW c \in Nat, NEW m \in Nat,
         i + 2 * m - 2 = l, c < m
  PROVE  i <= l - c - (m - 1)
<1>1. i = l + 2 - 2 * m
  OBVIOUS
<1>2. i <= l + 2 - c - (m + 1)
  BY <1>1
<1>3. QED  BY <1>2

LEMMA ExitPreserves ==
  ASSUME IInv, ProcessExits
  PROVE  IInv'
<1> DEFINE L == Len(exits)
<1>1. /\ exits' \in Seq(Nat) /\ Len(exits') = L + 1
      /\ \A i \in 1 .. L : exits'[i] = exits[i]
      /\ exits'[L + 1] = now
      /\ now' = now /\ ~detected /\ numRestarts < maxCount
      /\ detected' <=> numRestarts' >= maxCount
      /\ \/ /\ now > firstRestartedAt + restartsWindow
            /\ numRestarts' = 1 /\ firstRestartedAt' = now
         \/ /\ now <= firstRestartedAt + restartsWindow
            /\ numRestarts' = numRestarts + 1 /\ firstRestartedAt' = firstRestartedAt
  BY ExitStep
<1>d. Len(exits') = L + 1 /\ (detected' <=> numRestarts' >= maxCount)
  BY <1>1
<1>2. /\ L \in Nat /\ \A i \in 1 .. L : exits[i] \in Nat
      /\ now \in Nat /\ numRestarts \in Nat /\ firstRestartedAt \in Nat
  BY DEF IInv, TypeOK
<1>3. \A i \in 1 .. L + 1 : i \in 1 .. L \/ i = L + 1
  BY <1>2
<1>a. /\ \A i \in 1 .. L : exits[i] <= now
      /\ \A i, j \in 1 .. L : i <= j => exits[i] <= exits[j]
      /\ firstRestartedAt <= now
  BY DEF IInv, Chronological
<1>b. /\ numRestarts <= L
      /\ \A i \in 1 .. L : i <= L - numRestarts => exits[i] <= firstRestartedAt
      /\ \A i \in 1 .. L : i > L - numRestarts =>
           firstRestartedAt <= exits[i] /\ exits[i] <= firstRestartedAt + restartsWindow
  BY <1>2 DEF IInv, CountsInterval
<1>c. \A i \in 1 .. L : i <= L - numRestarts - (maxCount - 1) =>
        exits[i] + restartsWindow < firstRestartedAt
  BY DEF IInv, EarlierIsOld
<1> HIDE DEF L
<1>4. TypeOK'
  BY <1>1, <1>2 DEF TypeOK, ProcessExits
<1>5. Chronological'
  <2>1. \A i \in 1 .. L + 1 : exits'[i] <= now'
    BY <1>1, <1>2, <1>3, <1>a
  <2>2. ASSUME NEW i \in 1 .. L + 1, NEW j \in 1 .. L + 1, i <= j
        PROVE  exits'[i] <= exits'[j]
    <3>1. CASE j = L + 1
      BY <1>1, <2>1, <3>1
    <3>2. CASE j \in 1 .. L
      BY <1>1, <1>2, <1>a, <2>2, <3>2
    <3>3. QED  BY <1>3, <3>1, <3>2
  <2>3. firstRestartedAt' <= now'
    BY <1>1, <1>2, <1>a
  <2>4. QED  BY <1>1, <2>1, <2>2, <2>3 DEF Chronological
<1>6. CountsInterval'
  <2>1. numRestarts' <= L + 1
    BY <1>1, <1>2, <1>b
  <2>2. ASSUME NEW i \in 1 .. Len(exits')
        PROVE  IF i <= Len(exits') - numRestarts'
                 THEN exits'[i] <= firstRestartedAt'
                 ELSE /\ firstRestartedAt' <= exits'[i]
                      /\ exits'[i] <= firstRestartedAt' + restartsWindow
    <3>1. CASE i = L + 1
      BY <1>1, <1>2, <1>a, <3>1
    <3>2. CASE i \in 1 .. L
      BY <1>1, <1>2, <1>a, <1>b, <3>2
    <3>3. QED  BY <1>d, <1>3, <3>1, <3>2
  <2>3. QED  BY <1>d, <2>1, <2>2 DEF CountsInterval
<1>7. EarlierIsOld'
  <2>1. ASSUME NEW i \in 1 .. Len(exits'), i <= Len(exits') - numRestarts' - (maxCount - 1)
        PROVE  exits'[i] + restartsWindow < firstRestartedAt'
    <3>1. i \in 1 .. L
      BY <1>1, <1>2, <2>1
    <3>2. exits'[i] = exits[i] /\ exits[i] \in Nat
      BY <1>1, <1>2, <3>1
    <3>3. CASE now > firstRestartedAt + restartsWindow /\ numRestarts' = 1 /\ firstRestartedAt' = now
      <4>1. i <= L - numRestarts
        BY <1>1, <1>2, <1>d, <2>1, <3>1, <3>3
      <4>2. exits[i] <= firstRestartedAt
        BY <1>b, <3>1, <4>1
      <4>3. QED  BY <1>2, <3>2, <3>3, <4>2
    <3>4. CASE numRestarts' = numRestarts + 1 /\ firstRestartedAt' = firstRestartedAt
      <4>1. i <= L - numRestarts - (maxCount - 1)
        BY <1>d, <1>2, <2>1, <3>1, <3>4
      <4>2. QED  BY <1>c, <3>1, <3>2, <3>4, <4>1
    <3>5. QED  BY <1>1, <3>3, <3>4
  <2>2. QED  BY <1>d, <2>1 DEF EarlierIsOld
<1>8. DenseLoopIsFound'
  <2>1. SUFFICES ASSUME NEW i \in 1 .. L + 1, Within(2 * maxCount - 1, i)', ~detected'
                 PROVE  FALSE
    BY <1>1 DEF DenseLoopIsFound
  <2>2. PICK k \in Int : k = i + 2 * maxCount - 2
    BY <1>2
  <2>3. k >= i /\ k <= L + 1 /\ exits'[k] - exits'[i] <= restartsWindow
    BY <1>1, <1>2, <2>1, <2>2 DEF Within
  <2>4. CASE k <= L
    <3>1. k \in 1 .. L /\ i \in 1 .. L
      BY <1>2, <2>3, <2>4
    <3>2. Within(2 * maxCount - 1, i)
      <4>1. i + (2 * maxCount - 1) - 1 = k
        BY <1>2, <2>2
      <4>2. exits[k] - exits[i] <= restartsWindow
        BY <1>1, <2>3, <3>1
      <4>3. QED  BY <4>1, <4>2, <2>4 DEF Within, L
    <3>3. QED  BY <1>1, <3>1, <3>2 DEF IInv, DenseLoopIsFound, L
  <2>5. CASE k = L + 1
    <3>1. exits'[k] = now /\ firstRestartedAt' <= now
      BY <1>1, <1>a, <2>5, <1>2
    <3>2. numRestarts' < maxCount /\ numRestarts' \in Nat
      BY <1>1, <1>2, <2>1
    <3>3. i <= Len(exits') - numRestarts' - (maxCount - 1)
      <4>1. PICK l \in Nat : l = Len(exits') /\ l = L + 1
        BY <1>d, <1>2
      <4>2. i \in Nat /\ maxCount \in Nat
        BY <1>2
      <4>3. i + 2 * maxCount - 2 = l
        BY <2>2, <2>5, <4>1
      <4>4. i <= l - numRestarts' - (maxCount - 1)
        BY <3>2, <4>2, <4>3, LoopStart
      <4>5. QED  BY <4>1, <4>4
    <3>4. exits'[i] + restartsWindow < firstRestartedAt'
      <4>1. i \in 1 .. Len(exits')
        BY <1>d
      <4>2. QED  BY <1>7, <3>3, <4>1 DEF EarlierIsOld
    <3>5. exits'[i] \in Nat /\ firstRestartedAt' \in Nat
      BY <1>1, <1>2, <1>3
    <3>6. QED  BY <1>2, <2>3, <3>1, <3>4, <3>5
  <2>6. QED  BY <1>2, <2>2, <2>3, <2>4, <2>5
<1>9. QED  BY <1>4, <1>5, <1>6, <1>7, <1>8 DEF IInv

LEMMA TickPreserves ==
  ASSUME IInv, Tick
  PROVE  IInv'
<1>1. TypeOK' /\ CountsInterval' /\ EarlierIsOld'
  BY DEF IInv, TypeOK, CountsInterval, EarlierIsOld, Tick
<1>2. Chronological'
  <2>1. now' = now + 1 /\ exits' = exits /\ firstRestartedAt' = firstRestartedAt /\ now \in Nat
    BY DEF Tick, IInv, TypeOK
  <2>2. \A i \in 1 .. Len(exits) : exits[i] \in Nat /\ exits[i] <= now
    BY DEF IInv, TypeOK, Chronological
  <2>3. QED  BY <2>1, <2>2 DEF IInv, TypeOK, Chronological
<1>3. DenseLoopIsFound'
  BY DEF IInv, DenseLoopIsFound, Within, Tick
<1>4. QED  BY <1>1, <1>2, <1>3 DEF IInv

LEMMA StepPreserves == IInv /\ [Next]_vars => IInv'
<1>1. IInv /\ UNCHANGED vars => IInv'
  BY DEF vars, IInv, TypeOK, Chronological, CountsInterval, EarlierIsOld, DenseLoopIsFound, Within
<1>2. QED  BY <1>1, ExitPreserves, TickPreserves DEF Next

LEMMA Invariance == Spec => []IInv
  BY InitIInv, StepPreserves, PTL DEF Spec

(* n8n is stopped only for maxCount exits within one window: those that     *)
(* increment counted lie in the interval that began at firstRestartedAt.    *)
THEOREM AlarmsAreTrue == Spec => []NoFalseAlarm
<1>1. IInv => NoFalseAlarm
  <2>1. SUFFICES ASSUME IInv, detected
                 PROVE  Len(exits) >= maxCount /\ Within(maxCount, Len(exits) - maxCount + 1)
    BY DEF NoFalseAlarm
  <2>2. PICK L \in Nat : L = Len(exits)
    BY <2>1 DEF IInv, TypeOK
  <2>3. numRestarts \in Nat /\ numRestarts >= maxCount /\ numRestarts <= L /\ firstRestartedAt \in Nat
    BY <2>1, <2>2 DEF IInv, TypeOK, CountsInterval, EarlierIsOld
  <2>4. PICK k \in Nat : k = L - maxCount + 1 /\ k \in 1 .. L /\ k > L - numRestarts
    BY <2>3
  <2>5. L \in 1 .. L /\ L > L - numRestarts
    BY <2>3
  <2>6. \A i \in 1 .. L : i > L - numRestarts =>
          /\ firstRestartedAt <= exits[i] /\ exits[i] <= firstRestartedAt + restartsWindow
          /\ exits[i] \in Nat
    BY <2>1, <2>2, <2>3 DEF IInv, TypeOK, CountsInterval
  <2>7. exits[L] - exits[k] <= restartsWindow
    BY <2>3, <2>4, <2>5, <2>6
  <2>8. k + maxCount - 1 = L
    BY <2>4
  <2>9. QED  BY <2>2, <2>3, <2>4, <2>7, <2>8 DEF Within
<1>2. QED  BY <1>1, Invariance, PTL

(* A loop is found once a window holds 2 * maxCount - 1 exits: at most one  *)
(* restart of the interval falls among them, and one of its sides has       *)
(* maxCount.                                                                *)
THEOREM DenseLoopsAreFound == Spec => []DenseLoopIsFound
<1>1. IInv => DenseLoopIsFound
  BY DEF IInv
<1>2. QED  BY <1>1, Invariance, PTL

-----------------------------------------------------------------------------
(* The signal and its composition with the detector. *)

Emitted == {exits[i] : i \in 1 .. Len(exits)}

(* The signal remembers the last exit. *)
LastInv ==
  /\ lastSignalTime \in Int
  /\ lastSignalTime = Signal!Never => Emitted = {}
  /\ \A x \in Emitted : x <= lastSignalTime
  /\ lastSignalTime # Signal!Never => lastSignalTime \in Emitted

(* A question is pending only while no exit has come since one window       *)
(* before it was asked, and an answer lies in the past.                     *)
QuestionInv ==
  /\ asked \in Int /\ answered \in Int
  /\ answer \in {"idle", "pending", "signal", "null"}
  /\ answer # "idle" => asked <= now
  /\ answer = "pending" => \A x \in Emitted : x < asked - Window
  /\ answer \in {"signal", "null"} => answered <= now

(* AnswerIsTrue in these terms. *)
ToldInv ==
  /\ answer = "signal" => \E x \in Emitted : asked - Window <= x /\ x <= answered
  /\ answer = "null" => ~\E x \in Emitted : asked - Window <= x /\ x < answered

SignalInv == IInv /\ LastInv /\ QuestionInv /\ ToldInv

USE WindowAssumption

LEMMA SignalInit == ExitsInit => SignalInv
<1> SUFFICES ASSUME ExitsInit PROVE SignalInv
  OBVIOUS
<1>1. IInv
  BY InitIInv DEF ExitsInit
<1>2. Emitted = {}
  BY DEF ExitsInit, Init, Emitted
<1> QED
  BY <1>1, <1>2 DEF ExitsInit, Signal!Init, Signal!Never, SignalInv, LastInv, QuestionInv, ToldInv

(* Both listeners see the same exit. *)
LEMMA EmittedStep ==
  ASSUME IInv
  PROVE  /\ Emitted \subseteq Nat /\ now \in Nat /\ \A x \in Emitted : x <= now
         /\ ProcessExits => Emitted' = Emitted \cup {now}
         /\ UNCHANGED exits => Emitted' = Emitted
<1>1. /\ Emitted \subseteq Nat /\ now \in Nat /\ \A x \in Emitted : x <= now
  BY DEF IInv, TypeOK, Chronological, Emitted
<1>2. ASSUME ProcessExits PROVE Emitted' = Emitted \cup {now}
  <2>1. exits' = Append(exits, now) /\ exits \in Seq(Nat) /\ now \in Nat
    BY <1>2 DEF ProcessExits, IInv, TypeOK
  <2>2. /\ Len(exits') = Len(exits) + 1 /\ exits'[Len(exits) + 1] = now
        /\ \A i \in 1 .. Len(exits) : exits'[i] = exits[i]
        /\ Len(exits) \in Nat
    BY <2>1
  <2>3. 1 .. Len(exits') = 1 .. Len(exits) \cup {Len(exits) + 1}
    BY <2>2
  <2> QED
    BY <2>2, <2>3 DEF Emitted
<1>3. UNCHANGED exits => Emitted' = Emitted
  BY DEF Emitted
<1> QED
  BY <1>1, <1>2, <1>3

LEMMA DetectorStep == [ExitsNext]_<<vars, signalVars>> => [Next]_vars
  BY DEF ExitsNext, Exit, Ask, GiveUp, TimePasses, Next, vars

LEMMA SignalStep == SignalInv /\ [ExitsNext]_<<vars, signalVars>> => SignalInv'
<1> SUFFICES ASSUME SignalInv, [ExitsNext]_<<vars, signalVars>> PROVE SignalInv'
  OBVIOUS
<1>0. IInv /\ IInv' /\ LastInv /\ QuestionInv /\ ToldInv
  BY DetectorStep, StepPreserves DEF SignalInv
<1>1. /\ Emitted \subseteq Nat /\ now \in Nat /\ \A x \in Emitted : x <= now
      /\ ProcessExits => Emitted' = Emitted \cup {now}
      /\ UNCHANGED exits => Emitted' = Emitted
  BY <1>0, EmittedStep
<1>2. CASE Exit
  <2>1. /\ now' = now /\ Emitted' = Emitted \cup {now} /\ lastSignalTime' = now /\ asked' = asked
        /\ IF answer = "pending" THEN answer' = "signal" /\ answered' = now
                                 ELSE UNCHANGED <<answer, answered>>
    BY <1>1, <1>2 DEF Exit, ProcessExits, Signal!Emit
  <2>2. LastInv'
    BY <1>0, <1>1, <2>1 DEF LastInv, Signal!Never
  <2>3. QuestionInv'
    BY <1>0, <1>1, <2>1 DEF QuestionInv
  <2>4. ToldInv'
    BY <1>0, <1>1, <2>1 DEF QuestionInv, ToldInv
  <2> QED
    BY <1>0, <2>2, <2>3, <2>4 DEF SignalInv
<1>3. CASE Ask
  <2>1. /\ now' = now /\ Emitted' = Emitted /\ lastSignalTime' = lastSignalTime /\ asked' = now
        /\ answer' = IF Signal!Recent THEN "signal" ELSE "pending"
        /\ answered' = IF Signal!Recent THEN now ELSE Signal!Never
    BY <1>1, <1>3 DEF Ask, vars, Signal!GetSignal
  <2>2. LastInv'
    BY <1>0, <2>1 DEF LastInv
  <2>3. QuestionInv'
    BY <1>0, <1>1, <2>1 DEF QuestionInv, LastInv, Signal!Recent, Signal!Never
  <2>4. ToldInv'
    BY <1>0, <1>1, <2>1 DEF LastInv, ToldInv, Signal!Recent
  <2> QED
    BY <1>0, <2>2, <2>3, <2>4 DEF SignalInv
<1>4. CASE GiveUp
  <2>1. /\ now' = now /\ Emitted' = Emitted /\ lastSignalTime' = lastSignalTime /\ asked' = asked
        /\ answer = "pending" /\ answer' = "null" /\ answered' = now
    BY <1>1, <1>4 DEF GiveUp, vars, Signal!TimeOut
  <2>2. LastInv' /\ QuestionInv'
    BY <1>0, <1>1, <2>1 DEF LastInv, QuestionInv
  <2>3. ToldInv'
    BY <1>0, <1>1, <2>1 DEF QuestionInv, ToldInv
  <2> QED
    BY <1>0, <2>2, <2>3 DEF SignalInv
<1>5. CASE TimePasses \/ UNCHANGED <<vars, signalVars>>
  <2>1. /\ now' \in {now, now + 1} /\ Emitted' = Emitted /\ UNCHANGED <<exits, signalVars>>
    BY <1>1, <1>5 DEF TimePasses, Tick, vars
  <2>2. LastInv' /\ QuestionInv'
    BY <1>0, <1>1, <2>1 DEF LastInv, QuestionInv, signalVars
  <2>3. ToldInv'
    BY <1>0, <2>1 DEF ToldInv, signalVars
  <2> QED
    BY <1>0, <2>2, <2>3 DEF SignalInv
<1> QED
  BY <1>2, <1>3, <1>4, <1>5 DEF ExitsNext

(* Whether the exit comes before the disconnect asks for its reason or      *)
(* after, the answer tells truly if there was one within the window.        *)
THEOREM AnswersAreTrue == ExitsSpec => []AnswerIsTrue
<1>1. SignalInv => AnswerIsTrue
  BY DEF SignalInv, ToldInv, AnswerIsTrue, Signal!AnswerIsTrue, Emitted
<1> QED
  BY SignalInit, SignalStep, <1>1, PTL DEF ExitsSpec

(* To the detector the signal is not there: the composition implements it,  *)
(* so that no alarm is false and no dense loop is missed beside the signal. *)
THEOREM ExitsAreDetected == ExitsSpec => Spec /\ [](NoFalseAlarm /\ DenseLoopIsFound)
<1>1. ExitsInit => Init
  BY DEF ExitsInit
<1>2. ExitsSpec => Spec
  BY <1>1, DetectorStep, PTL DEF ExitsSpec, Spec
<1> QED
  BY <1>2, AlarmsAreTrue, DenseLoopsAreFound, PTL
=============================================================================
