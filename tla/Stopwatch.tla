----------------------------- MODULE Stopwatch -----------------------------
(***************************************************************************)
(* What the plugin's clock promises, whatever the game's timer does: a     *)
(* stopwatch.  Time that passes is pending until it is read; a reading     *)
(* adds it, once.  Before the first reading of a session the stopwatch     *)
(* does not run and nothing is pending, and a restart of the timer loses   *)
(* what was pending.                                                       *)
(***************************************************************************)
EXTENDS Integers

CONSTANT Modulus   \* readings are taken modulo this

VARIABLES running,   \* time that passes counts
          pending,   \* time passed since the last reading
          reading    \* the sum of all that was read

stopwatchVars == <<running, pending, reading>>

StopwatchInit == /\ running \in BOOLEAN
                 /\ pending \in IF running THEN Nat ELSE {0}
                 /\ reading = 0

(* A session begins, with the timer just restarted or with it unread.       *)
Reset == /\ running' \in BOOLEAN
         /\ pending' \in IF running' THEN Nat ELSE {0}
         /\ reading' = 0

Pass == /\ running
        /\ pending' \in Nat
        /\ pending' > pending
        /\ UNCHANGED <<running, reading>>

(* The timer starts again at 0 and counts from there.                       *)
Restart == /\ running' = TRUE
           /\ pending' = 0
           /\ UNCHANGED reading

Read == /\ running' = TRUE
        /\ pending' = 0
        /\ reading' = (reading + pending) % Modulus

StopwatchNext == Reset \/ Pass \/ Restart \/ Read

StopwatchSpec == StopwatchInit /\ [][StopwatchNext]_stopwatchVars
=============================================================================
