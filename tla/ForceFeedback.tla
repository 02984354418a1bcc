---------------------------- MODULE ForceFeedback ----------------------------
(***************************************************************************)
(* What the plugin promises the person who holds the wheel: which effects  *)
(* may play when, and when they have to have ended.  It knows nothing of   *)
(* frames, commands, queues or device handles; module Plugin implements    *)
(* it.                                                                     *)
(*                                                                         *)
(* Two things excuse an effect that plays at rest.  A stop command the     *)
(* device did not get: lost is TRUE from its failure until effects have    *)
(* ended all the same.  And a process that was killed while it played or   *)
(* commanded: mode is "dead" until the next process finds the wheel, which *)
(* then ends what still plays before it does anything else.                *)
(***************************************************************************)
CONSTANT Effects        \* what the wheel can play

VARIABLES
    mode,       \* what the plugin is doing for the driver
    playing,    \* the effects the wheel plays
    lost        \* a stop command has been lost

ffVars == <<mode, playing, lost>>

Modes == {"off", "loading", "calibrating", "pausing", "paused", "driving", "leaving", "dead"}

FFInit == mode = "off" /\ playing = {} /\ lost = FALSE

Silent == playing = {} \/ lost

Moves(from, to) == mode \in from /\ mode' = to /\ UNCHANGED playing

-----------------------------------------------------------------------------
(* The plugin finds the wheel, as the process before left it. *)
Load == Moves({"off", "dead"}, "loading") /\ UNCHANGED lost

(* The wheel is tried out before the game starts, and is silent then. *)
TryOut == Moves({"off"}, "calibrating") /\ UNCHANGED lost

Ready == Moves({"calibrating"}, "paused") /\ playing = {} /\ UNCHANGED lost

Drive == Moves({"paused"}, "driving") /\ UNCHANGED lost

Pause == Moves({"driving"}, "pausing") /\ UNCHANGED lost

Silenced == Moves({"pausing"}, "paused") /\ Silent /\ UNCHANGED lost

(* The game shuts the plugin down, or unloads one that has given up; effects *)
(* last until it is unloaded.                                               *)
Leave == Moves({"off", "paused", "driving"}, "leaving") /\ UNCHANGED lost

(* The plugin has loaded, gives up, is unloaded, or ends with the game.     *)
End == Moves(Modes \ {"off", "dead"}, "off") /\ Silent /\ UNCHANGED lost

(* It is killed. *)
Die == Moves(Modes \ {"off", "paused", "dead"}, "dead") /\ UNCHANGED lost

(* Effects start in two modes only. *)
Play ==
    /\ mode \in {"calibrating", "driving"}
    /\ playing' \in SUBSET Effects
    /\ lost' \in {lost, TRUE}
    /\ UNCHANGED mode

(* They may end at any time; that all have ended makes good a lost stop. *)
Quiet ==
    /\ playing' \in SUBSET playing
    /\ lost' = lost \/ (playing' = {} /\ lost' = FALSE)
    /\ UNCHANGED mode

LoseStop ==
    /\ mode # "paused"
    /\ playing' \in SUBSET playing
    /\ lost' = TRUE
    /\ UNCHANGED mode

FFNext == Load \/ TryOut \/ Ready \/ Drive \/ Pause \/ Silenced \/ Leave \/ End
            \/ Die \/ Play \/ Quiet \/ LoseStop

FFSafety == FFInit /\ [][FFNext]_ffVars

-----------------------------------------------------------------------------
(* A wheel nobody drives with is silent, unless a stop command was lost or a *)
(* process died in use: before and after the plugin's life and in every     *)
(* pause (fffb.cxx:101-110, 154-182; wheel.hxx:32, 127-134).                *)
RestIsSilent == mode \in {"off", "paused"} => Silent
=============================================================================
