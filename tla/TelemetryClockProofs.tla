------------------------ MODULE TelemetryClockProofs ------------------------
(***************************************************************************)
(* Proofs about TelemetryClock, for every width of the timestamp and every *)
(* range of the game's timer below it.                                     *)
(***************************************************************************)
EXTENDS TelemetryClock, TLAPS

(* A number below the modulus is its own remainder. *)
LEMMA SmallRemainder ==
    ASSUME NEW n \in 0 .. Modulus - 1
    PROVE  n % Modulus = n
BY ModulusAssumption

(* A remainder is a number of the type. *)
LEMMA RemainderFits ==
    ASSUME NEW n \in Int
    PROVE  n % Modulus \in 0 .. Modulus - 1
BY ModulusAssumption

(* The sentinel is no time of the timer, and times fit the type. *)
LEMMA NoTimeIsNoTime == /\ NoTime \notin Time
                        /\ NoTime \in Int
                        /\ Time \subseteq 0 .. Modulus - 1
BY ModulusAssumption, MaxTimeAssumption DEF NoTime, Time

(* Between two times of the timer lies a time. *)
LEMMA DifferenceOfTimes ==
    \A a, b \in Time : a >= b => a - b \in Time
BY MaxTimeAssumption DEF Time

(* In a state of the invariant the difference a frame takes is exact.       *)
LEMMA DifferenceIsExact ==
    ASSUME ClockInv
    PROVE  /\ Baseline \in Time
           /\ timer - Baseline \in Time
           /\ Minus(timer, Baseline) = timer - Baseline
<1>1. Baseline \in Time
  BY MaxTimeAssumption, NoTimeIsNoTime DEF ClockInv, Baseline, Time
<1>2. timer - Baseline \in Time
  BY <1>1, DifferenceOfTimes DEF ClockInv
<1>3. Minus(timer, Baseline) = timer - Baseline
  BY <1>2, NoTimeIsNoTime, SmallRemainder DEF Minus
<1> QED
  BY <1>1, <1>2, <1>3

LEMMA ClockInitInv == Init => ClockInv
<1> SUFFICES ASSUME Init PROVE ClockInv
  OBVIOUS
<1>1. timer >= Baseline
  BY MaxTimeAssumption DEF Init, Baseline, Time
<1> QED
  BY <1>1, ModulusAssumption DEF Init, ClockInv

LEMMA ClockStepInv == ClockInv /\ [Next]_vars => ClockInv'
<1> SUFFICES ASSUME ClockInv, [Next]_vars PROVE ClockInv'
  OBVIOUS
<1>1. CASE TimePasses
  BY <1>1, NoTimeIsNoTime DEF ClockInv, TimePasses, Baseline, Time
<1>2. CASE TimerRestarts
  BY <1>2, MaxTimeAssumption DEF ClockInv, TimerRestarts, Baseline, Time
<1>3. CASE NewSession
  <2>1. timer' >= Baseline'
    BY <1>3, MaxTimeAssumption DEF NewSession, Baseline, Time
  <2> QED
    BY <1>3, <2>1, ModulusAssumption DEF NewSession, ClockInv
<1>4. CASE FrameStart
  <2>1. timer' \in Time /\ g_last_timestamp' = timer' /\ restarted' = FALSE
    BY <1>4 DEF FrameStart, ClockInv
  <2>2. Baseline' = timer'
    BY <2>1 DEF Baseline
  <2>3. timestamp + Minus(timer, Baseline) \in Int
    BY DifferenceIsExact DEF ClockInv, Time
  <2>4. timestamp' \in 0 .. Modulus - 1
    BY <1>4, <2>3, RemainderFits DEF FrameStart, Plus
  <2>5. timer' >= Baseline'
    BY <2>1, <2>2, MaxTimeAssumption DEF Time
  <2>6. g_last_timestamp' \in (Time \cup {NoTime})'
    BY <2>1 DEF Time
  <2> QED
    BY <2>1, <2>4, <2>5, <2>6 DEF ClockInv, Time
<1>5. CASE UNCHANGED vars
  BY <1>5 DEF vars, ClockInv, Baseline
<1> QED
  BY <1>1, <1>2, <1>3, <1>4, <1>5 DEF Next

(* The clock's invariant: no difference of two times ever wraps around      *)
(* (fffb.cxx:138-147).                                                      *)
THEOREM ClockInvariant == Spec => []ClockInv
<1> QED
  BY ClockInitInv, ClockStepInv, PTL DEF Spec

-----------------------------------------------------------------------------
(* What is pending is a time, and is what the next frame adds. *)
LEMMA PendingIsExact ==
    ASSUME ClockInv
    PROVE  /\ Pending \in Nat
           /\ Pending = timer - Baseline
           /\ ~(restarted \/ g_last_timestamp # NoTime) => Pending = 0
<1>1. Pending = timer - Baseline
  BY DEF ClockInv, Pending, Baseline, Time
<1> QED
  BY <1>1, DifferenceIsExact DEF Pending, Time

LEMMA StepIsStopwatchStep ==
    ClockInv /\ ClockInv' /\ [Next]_vars => [SW!StopwatchNext]_SW!stopwatchVars
<1> DEFINE Running == restarted \/ g_last_timestamp # NoTime
<1> SUFFICES ASSUME ClockInv, ClockInv', [Next]_vars
             PROVE  [SW!StopwatchNext]_SW!stopwatchVars
  OBVIOUS
<1>a. Pending' \in Nat /\ (~Running' => Pending' = 0)
  <2>1. CASE restarted'
    BY <2>1, MaxTimeAssumption DEF ClockInv, Pending, Time
  <2>2. CASE ~restarted' /\ g_last_timestamp' = NoTime
    BY <2>2 DEF Pending
  <2>3. CASE ~restarted' /\ g_last_timestamp' # NoTime
    <3>1. Baseline' = g_last_timestamp' /\ Pending' = timer' - g_last_timestamp'
      BY <2>3 DEF Baseline, Pending, NoTime
    <3>2. g_last_timestamp' \in Time /\ timer' \in Time /\ timer' >= g_last_timestamp'
      BY <2>3, <3>1 DEF ClockInv, Time, NoTime
    <3>3. timer' - g_last_timestamp' \in Time
      BY <3>2, DifferenceOfTimes
    <3>4. Running'
      BY <2>3 DEF NoTime
    <3> QED
      BY <3>1, <3>3, <3>4 DEF Time
  <2> QED
    BY <2>1, <2>2, <2>3
<1>1. CASE TimePasses
  <2>1. Running' <=> Running
    BY <1>1 DEF TimePasses
  <2>2. CASE Running
    <3>1. Pending' > Pending
      BY <1>1, <2>2 DEF TimePasses, Pending, ClockInv, Baseline, Time
    <3> QED
      BY <1>1, <1>a, <2>1, <2>2, <3>1 DEF TimePasses, SW!StopwatchNext, SW!Pass
  <2>3. CASE ~Running
    <3>1. Pending = 0 /\ Pending' = 0
      BY <1>1, <2>3 DEF TimePasses, Pending
    <3> QED
      BY <1>1, <2>1, <3>1 DEF TimePasses, SW!stopwatchVars
  <2> QED
    BY <2>2, <2>3
<1>2. CASE TimerRestarts
  <2>1. Running' /\ Pending' = 0 /\ timestamp' = timestamp
    BY <1>2 DEF TimerRestarts, Pending
  <2> QED
    BY <2>1 DEF SW!StopwatchNext, SW!Restart
<1>3. CASE NewSession
  <2>1. timestamp' = 0
    BY <1>3 DEF NewSession
  <2> QED
    BY <1>a, <2>1 DEF SW!StopwatchNext, SW!Reset
<1>4. CASE FrameStart
  <2>1. timestamp' = (timestamp + Pending) % Modulus
    BY <1>4, DifferenceIsExact, PendingIsExact DEF FrameStart, Plus
  <2>2. g_last_timestamp' = timer /\ timer' = timer /\ restarted' = FALSE
    BY <1>4 DEF FrameStart
  <2>3. g_last_timestamp' # NoTime
    BY <2>2, NoTimeIsNoTime DEF ClockInv
  <2>4. Pending' = 0
    BY <2>2, <2>3 DEF Pending, ClockInv, Time
  <2> QED
    BY <2>1, <2>3, <2>4 DEF SW!StopwatchNext, SW!Read
<1>5. CASE UNCHANGED vars
  BY <1>5 DEF vars, SW!stopwatchVars, Pending
<1> QED
  BY <1>1, <1>2, <1>3, <1>4, <1>5 DEF Next

LEMMA InitIsStopwatchInit == Init => SW!StopwatchInit
<1> SUFFICES ASSUME Init PROVE SW!StopwatchInit
  OBVIOUS
<1>1. Pending \in Nat /\ (~(restarted \/ g_last_timestamp # NoTime) => Pending = 0)
  BY ClockInitInv, PendingIsExact
<1> QED
  BY <1>1 DEF Init, SW!StopwatchInit

(* For every width of the timestamp, the plugin's clock is a stopwatch:     *)
(* telemetry_frame_start counts the time between frames exactly, across     *)
(* first frames, new sessions and restarts of the timer.                    *)
THEOREM ClockIsStopwatch == Spec => ImplementsStopwatch
<1> QED
  BY ClockInvariant, InitIsStopwatchInit, StepIsStopwatchStep, PTL
     DEF Spec, ImplementsStopwatch
=============================================================================
