--------------------------- MODULE TelemetryClock ---------------------------
(***************************************************************************)
(* The clock of the telemetry state (source/fffb/fffb.cxx:36, 134-152,     *)
(* 339-340).  The game has a timer and tells the plugin what it shows at   *)
(* the start of each frame, and whether it was restarted since the frame   *)
(* before.  The plugin sums the differences in unsigned arithmetic; the    *)
(* largest number of the type stands for "no frame yet".                   *)
(***************************************************************************)
EXTENDS Integers

CONSTANTS Modulus,   \* the width of timestamp_t: 2^64 in the code
          MaxTime    \* bound: the highest time the game's timer shows

ASSUME ModulusAssumption == Modulus \in Nat \ {0}
ASSUME MaxTimeAssumption == MaxTime \in Nat /\ MaxTime < Modulus - 1

VARIABLES timestamp,          \* g_telemetry_state.timestamp
          g_last_timestamp,
          timer,              \* the game's paused_simulation_time
          restarted           \* the flag of the next frame: timer_restart

vars == <<timestamp, g_last_timestamp, timer, restarted>>

Time == 0 .. MaxTime

(* static_cast< timestamp_t >( -1 ) *)
NoTime == Modulus - 1

Plus(a, b)  == (a + b) % Modulus
Minus(a, b) == (a - b) % Modulus

-----------------------------------------------------------------------------
(* What scs_telemetry_init leaves: no frame comes before it has cleared the *)
(* state, whose timestamp is all ones until then (simulator.hxx:21).        *)
Init == /\ timestamp = 0
        /\ g_last_timestamp = NoTime
        /\ timer \in Time
        /\ restarted \in BOOLEAN

(* The game (external): its timer runs while the simulation does, restarts  *)
(* when a drive is loaded, and is what it happens to be in a new session.   *)
TimePasses == /\ \E t \in Time : t > timer /\ timer' = t
              /\ UNCHANGED <<timestamp, g_last_timestamp, restarted>>

TimerRestarts == /\ timer' = 0
                 /\ restarted' = TRUE
                 /\ UNCHANGED <<timestamp, g_last_timestamp>>

(* scs_telemetry_init: the state is cleared, the sentinel set. *)
NewSession == /\ timestamp' = 0
              /\ g_last_timestamp' = NoTime
              /\ timer' \in Time
              /\ restarted' \in BOOLEAN

(* A wrong Baseline: a restart of the timer is not looked at. *)
BaselineNoRestart == IF g_last_timestamp = NoTime THEN timer ELSE g_last_timestamp

(* A wrong Baseline: the first frame is taken for one like the others. *)
BaselineNoSentinel == IF restarted THEN 0 ELSE g_last_timestamp

(* What the two tests of telemetry_frame_start leave in g_last_timestamp.   *)
Baseline ==
    IF restarted THEN 0
    ELSE IF g_last_timestamp = NoTime THEN timer
    ELSE g_last_timestamp

FrameStart == /\ timestamp' = Plus(timestamp, Minus(timer, Baseline))
              /\ g_last_timestamp' = timer
              /\ restarted' = FALSE
              /\ UNCHANGED timer

Next == TimePasses \/ TimerRestarts \/ NewSession \/ FrameStart

Spec == Init /\ [][Next]_vars

-----------------------------------------------------------------------------
(* The clock's variables stay in the type timestamp_t, and the last frame's *)
(* time is one the timer has passed since, unless the timer was restarted   *)
(* in between and the next frame will say so.  Every difference             *)
(* telemetry_frame_start takes is therefore exact: no restart, first frame  *)
(* or new session makes the unsigned subtraction wrap around.               *)
ClockInv == /\ timestamp \in 0 .. Modulus - 1
            /\ g_last_timestamp \in Time \cup {NoTime}
            /\ timer \in Time
            /\ restarted \in BOOLEAN
            /\ timer >= Baseline

(* The plugin's clock is a stopwatch: it counts all the time the timer      *)
(* showed since the first frame of the session, or since its restart,       *)
(* every part of it once, and nothing of what passed before.                *)
Pending == IF restarted THEN timer
           ELSE IF g_last_timestamp = NoTime THEN 0
           ELSE timer - g_last_timestamp

SW == INSTANCE Stopwatch WITH running <- restarted \/ g_last_timestamp # NoTime,
                              pending <- Pending, reading <- timestamp

ImplementsStopwatch == SW!StopwatchInit /\ [][SW!StopwatchNext]_SW!stopwatchVars
=============================================================================
