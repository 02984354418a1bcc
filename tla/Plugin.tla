------------------------------- MODULE Plugin -------------------------------
(***************************************************************************)
(* The plugin as the game sees it (source/fffb/fffb.cxx): the functions    *)
(* the telemetry SDK calls, on top of the wheel they drive.                *)
(*                                                                         *)
(* The game calls one function at a time and waits for it, so a handler is *)
(* one action that computes the wheel calls it makes (Submit), the steps   *)
(* of module Wheel that make them, and one action that returns.  What the  *)
(* game may call, and when, is taken from the SDK headers in deps/scs.     *)
(***************************************************************************)
EXTENDS Wheel

CONSTANT ChannelValues     \* the values the game delivers on each channel

ASSUME ChannelValuesAssumption == ChannelValues \in [Channels -> SUBSET Int]

(* The telemetry of a session, which scs_telemetry_init has cleared, and    *)
(* what the simulator stores of it.                                         *)
Reported(c) == ChannelValues[c] \cup {0}

SessionTelemetry == {t \in [Channels -> UNION {Reported(c) : c \in Channels}] :
                       \A c \in Channels : t[c] \in Reported(c)}

StoredDeflection == [l : Reported("suspension_deflection_l"),
                     r : Reported("suspension_deflection_r")]

(* The wheel's owner may use what the simulator makes of that telemetry.    *)
ASSUME SettingsAllowed ==
    \A t \in SessionTelemetry, d \in StoredDeflection :
        UpdatedForces(t, d) \in Settings /\ LedPattern(t["rpm"]) \in Patterns

VARIABLES
    phase,                 \* the life of the plugin in the game's process
    handler,               \* the function that is running, "none" between calls
    g_telemetry_paused,
    in_frame,              \* the game is between FRAME_START and FRAME_END
    ffb_rate_count,        \* update_ffb's static counter
    telemetry,             \* g_telemetry_state
    prev_deflection,       \* simulator::prev_deflection_{l,r}_
    refreshed              \* history: clean ticks since the forces last stopped, up to 2

gameVars   == <<phase, handler, g_telemetry_paused, in_frame>>
stateVars  == <<ffb_rate_count, telemetry, prev_deflection, refreshed>>
pluginVars == <<gameVars, stateVars>>
vars       == <<wheelVars, pluginVars>>

Phases   == {"unloaded", "loaded", "active", "failed", "shut", "crashed", "aborted"}
Handlers == {"none", "load", "init", "tick", "pause", "unload"}

ffb_rate == 4

(* The member initializers of telemetry_state. *)
InitialTelemetry ==
    [ZeroTelemetry EXCEPT !["speed"] = -10, !["rpm"] = -1, !["brake"] = -10,
                          !["substance_l"] = -1, !["substance_r"] = -1]

(* The process has not loaded the plugin, or is dead. *)
NoProcess(p) ==
    /\ phase' = p
    /\ handler' = "none"
    /\ g_telemetry_paused' = TRUE
    /\ in_frame' = FALSE
    /\ ffb_rate_count' = ffb_rate
    /\ telemetry' = InitialTelemetry
    /\ prev_deflection' = [l |-> 0, r |-> 0]
    /\ refreshed' = 0

Init ==
    /\ WheelInit
    /\ phase = "unloaded"
    /\ handler = "none"
    /\ g_telemetry_paused = TRUE
    /\ in_frame = FALSE
    /\ ffb_rate_count = ffb_rate
    /\ telemetry = InitialTelemetry
    /\ prev_deflection = [l |-> 0, r |-> 0]
    /\ refreshed = 0

Between(p) == phase = p /\ handler = "none"

(* Handler h starts and makes the calls of script. *)
Run(h, script, settings) ==
    /\ handler' = h
    /\ Submit(script, settings)
    /\ UNCHANGED <<device, plugged, abandoned>>

(* The running handler has made its calls. *)
Done(h) == handler = h /\ Idle

-----------------------------------------------------------------------------
(***************************************************************************)
(* Loading: the constructors of the globals look for a wheel (external:    *)
(* which one is connected) and reset the one they find.                    *)
(***************************************************************************)
LoadPlugin ==
    /\ phase \in {"unloaded", "crashed", "aborted"}
    /\ phase' = "loaded"
    /\ \/ device' = "none" /\ UNCHANGED <<handler, wheelVars>>
       \/ Attach /\ handler' = "load"
    /\ UNCHANGED <<g_telemetry_paused, in_frame, stateVars>>

LoadReturns ==
    /\ Done("load")
    /\ handler' = "none"
    /\ UNCHANGED <<wheelVars, phase, g_telemetry_paused, in_frame, stateVars>>

-----------------------------------------------------------------------------
(***************************************************************************)
(* scs_telemetry_init.  An unsupported version changes nothing.            *)
(***************************************************************************)
(* An event cannot be registered, or calibrate finds no wheel. *)
InitFails ==
    /\ Between("loaded")
    /\ phase' = "failed"
    /\ UNCHANGED <<wheelVars, handler, g_telemetry_paused, in_frame, stateVars>>

InitCalibrates ==
    /\ Between("loaded") /\ device # "none"
    /\ Run("init", Calibrate, forces)
    /\ UNCHANGED <<phase, g_telemetry_paused, in_frame, stateVars>>

InitReturns ==
    /\ Done("init")
    /\ handler' = "none"
    /\ IF result
       THEN /\ phase' = "active"
            /\ telemetry' = ZeroTelemetry
            /\ g_telemetry_paused' = TRUE
       ELSE /\ phase' = "failed"
            /\ UNCHANGED <<telemetry, g_telemetry_paused>>
    /\ UNCHANGED <<wheelVars, in_frame, ffb_rate_count, prev_deflection, refreshed>>

-----------------------------------------------------------------------------
(***************************************************************************)
(* telemetry_pause, for both events.  The game sends one when its state    *)
(* changes, between frames; it starts paused.                              *)
(***************************************************************************)
Started ==
    /\ Between("active") /\ ~in_frame /\ g_telemetry_paused
    /\ g_telemetry_paused' = FALSE
    /\ UNCHANGED <<wheelVars, phase, handler, in_frame, stateVars>>

(* A wrong Paused: the commands are queued and never written. *)
PausedUnflushed ==
    /\ Between("active") /\ ~in_frame /\ ~g_telemetry_paused
    /\ g_telemetry_paused' = TRUE
    /\ Run("pause", SubSeq(Reset, 1, 3), forces)
    /\ refreshed' = 0
    /\ UNCHANGED <<phase, in_frame, ffb_rate_count, telemetry, prev_deflection>>

Paused ==
    /\ Between("active") /\ ~in_frame /\ ~g_telemetry_paused
    /\ g_telemetry_paused' = TRUE
    /\ Run("pause", Reset, forces)
    /\ refreshed' = 0
    /\ UNCHANGED <<phase, in_frame, ffb_rate_count, telemetry, prev_deflection>>

(* reset_wheel's result is ignored. *)
PauseReturns ==
    /\ Done("pause")
    /\ handler' = "none"
    /\ UNCHANGED <<wheelVars, phase, g_telemetry_paused, in_frame, stateVars>>

-----------------------------------------------------------------------------
(***************************************************************************)
(* A frame.                                                                *)
(***************************************************************************)
FrameStart ==
    /\ Between("active") /\ ~in_frame
    /\ in_frame' = TRUE
    /\ UNCHANGED <<wheelVars, phase, handler, g_telemetry_paused, stateVars>>

(* telemetry_store_float, _s32, _u32 and _fvector with a value. *)
ChannelChanges ==
    /\ Between("active") /\ in_frame
    /\ \E c \in Channels : \E v \in ChannelValues[c] :
           /\ v # telemetry[c]
           /\ telemetry' = [telemetry EXCEPT ![c] = v]
    /\ UNCHANGED <<wheelVars, gameVars, ffb_rate_count, prev_deflection, refreshed>>

(* The two substance channels are registered with the no_value flag: when a *)
(* wheel's substance is unavailable telemetry_store_u32 gets a null pointer,*)
(* which its assertion, or without assertions its dereference, turns into   *)
(* the end of the process.                                                  *)
SubstanceUnavailable ==
    /\ Between("active") /\ in_frame
    /\ Gone(TRUE)
    /\ NoProcess("aborted")

(* Wrong variants of telemetry_frame_end: forces are updated in a pause as  *)
(* well, the counter is not set back.                                       *)
FrameEndsUpdatingPaused ==
    /\ Between("active") /\ in_frame
    /\ device # "none" /\ ffb_rate_count = 1
    /\ in_frame' = FALSE
    /\ ffb_rate_count' = ffb_rate
    /\ prev_deflection' = UpdatedDeflection(telemetry)
    /\ Run("tick", Tick(LedPattern(telemetry.rpm)), UpdatedForces(telemetry, prev_deflection))
    /\ UNCHANGED <<phase, g_telemetry_paused, telemetry, refreshed>>

FrameEndsUpdatingOnce ==
    /\ Between("active") /\ in_frame
    /\ ~g_telemetry_paused /\ device # "none" /\ ffb_rate_count = 1
    /\ in_frame' = FALSE
    /\ ffb_rate_count' = 0
    /\ prev_deflection' = UpdatedDeflection(telemetry)
    /\ Run("tick", Tick(LedPattern(telemetry.rpm)), UpdatedForces(telemetry, prev_deflection))
    /\ UNCHANGED <<phase, g_telemetry_paused, telemetry, refreshed>>

(* telemetry_frame_end. *)
FrameEndsIdle ==
    /\ Between("active") /\ in_frame
    /\ g_telemetry_paused \/ device = "none" \/ ffb_rate_count > 1
    /\ in_frame' = FALSE
    /\ ffb_rate_count' = IF g_telemetry_paused \/ device = "none" THEN ffb_rate_count
                         ELSE ffb_rate_count - 1
    /\ UNCHANGED <<wheelVars, phase, handler, g_telemetry_paused,
                   telemetry, prev_deflection, refreshed>>

FrameEndsUpdating ==
    /\ Between("active") /\ in_frame
    /\ ~g_telemetry_paused /\ device # "none" /\ ffb_rate_count = 1
    /\ in_frame' = FALSE
    /\ ffb_rate_count' = ffb_rate
    /\ prev_deflection' = UpdatedDeflection(telemetry)
    /\ Run("tick", Tick(LedPattern(telemetry.rpm)), UpdatedForces(telemetry, prev_deflection))
    /\ UNCHANGED <<phase, g_telemetry_paused, telemetry, refreshed>>

TickReturns ==
    /\ Done("tick")
    /\ handler' = "none"
    /\ refreshed' = IF clean /\ refreshed < 2 THEN refreshed + 1 ELSE refreshed
    /\ UNCHANGED <<wheelVars, phase, g_telemetry_paused, in_frame,
                   ffb_rate_count, telemetry, prev_deflection>>

-----------------------------------------------------------------------------
(***************************************************************************)
(* The end.  scs_telemetry_shutdown leaves the wheel alone; the destructor *)
(* of g_simulator stops it when the library is unloaded.                   *)
(***************************************************************************)
Shutdown ==
    /\ Between("active") /\ ~in_frame
    /\ phase' = "shut"
    /\ UNCHANGED <<wheelVars, handler, g_telemetry_paused, in_frame, stateVars>>

Unload ==
    /\ phase \in {"failed", "shut"} /\ handler = "none" /\ device # "none"
    /\ Run("unload", Destructor, forces)
    /\ UNCHANGED <<phase, g_telemetry_paused, in_frame, stateVars>>

UnloadReturns ==
    /\ \/ Done("unload")
       \/ phase = "failed" /\ handler = "none" /\ device = "none"
    /\ Gone(FALSE)
    /\ NoProcess("unloaded")

(* The game dies, in any step of any handler. *)
Kill ==
    /\ phase \in {"loaded", "active", "failed", "shut"}
    /\ Gone(TRUE)
    /\ NoProcess("crashed")

CallProceeds == HandlerStep /\ UNCHANGED pluginVars

(* The player unplugs the wheel. *)
Unplugged == Unplug /\ UNCHANGED pluginVars

Returns == LoadReturns \/ InitReturns \/ PauseReturns \/ TickReturns \/ UnloadReturns

Next == \/ LoadPlugin \/ InitFails \/ InitCalibrates
        \/ Started \/ Paused
        \/ FrameStart \/ ChannelChanges \/ SubstanceUnavailable
        \/ FrameEndsIdle \/ FrameEndsUpdating
        \/ Shutdown \/ Unload \/ Kill
        \/ CallProceeds \/ Returns \/ Unplugged

Safety == Init /\ [][Next]_vars

(* The plugin's own steps go on, and the game ends the frames it starts and *)
(* keeps starting them.  Nothing is assumed of the player or of IOKit's     *)
(* results.                                                                 *)
Spec == /\ Safety
        /\ WF_vars(CallProceeds) /\ WF_vars(Returns)
        /\ WF_vars(FrameStart) /\ WF_vars(FrameEndsIdle \/ FrameEndsUpdating)

-----------------------------------------------------------------------------
(***************************************************************************)
(* Properties.                                                             *)
(***************************************************************************)
(* Type invariant, with the handlers each phase may be running. *)
PluginTypeOK ==
    /\ phase \in Phases
    /\ handler \in Handlers
    /\ g_telemetry_paused \in BOOLEAN
    /\ in_frame \in BOOLEAN
    /\ ffb_rate_count \in 1 .. ffb_rate
    /\ telemetry \in [Channels -> Int]
    /\ phase = "active" => telemetry \in SessionTelemetry
    /\ prev_deflection \in StoredDeflection
    /\ refreshed \in 0 .. 2

(***************************************************************************)
(* The inductive invariant behind EffectsOnlyWhenDriving, InitOkIsSilent,  *)
(* ImplementsWheel and ImplementsForceFeedback, proved so in PluginProofs. *)
(***************************************************************************)
(* The wheel while no process uses it. *)
Unused ==
    /\ forces = DefaultForces /\ ~playing_
    /\ reports_ = <<>> /\ calls = <<>> /\ ~busy /\ tx = <<>>
    /\ result /\ ~handle /\ clean

(* A handler runs only in the phase it belongs to, and on a wheel. *)
HandlerFits ==
    /\ phase \in {"active", "shut"} => device # "none"
    /\ phase \in {"unloaded", "crashed", "aborted"} => device = "none"
    /\ handler # "none" => device # "none"
    /\ handler \in {"load", "init"} => phase = "loaded"
    /\ handler = "tick"   => phase = "active" /\ ~g_telemetry_paused
    /\ handler = "pause"  => phase = "active" /\ g_telemetry_paused
    /\ handler = "unload" => phase \in {"failed", "shut"}
    /\ handler = "none"   => Idle

(* The calls still to be made leave the wheel with playing_ cleared. *)
LastCallStops(script) ==
    \E i \in DOMAIN script : /\ script[i].method \in Stopping
                             /\ \A j \in DOMAIN script : j > i => script[j].method \notin Starting

EndsSilent == \/ LastCallStops(calls)
              \/ ~playing_ /\ ~Makes(calls, Starting)

QuietInPause ==
    /\ handler \in {"init", "pause", "unload"} /\ result => EndsSilent
    /\ handler \in {"pause", "unload"} => result /\ \A i \in DOMAIN calls : ~calls[i].must
    /\ Between("active") /\ g_telemetry_paused => ~playing_
    /\ busy /\ Head(calls).method \in Stopping => ~playing_

(* Only calibration and a tick make calls or have commands that start effects. *)
NothingStarts == ~Makes(calls, Starting) /\ ~HasStart(tx) /\ ~HasStart(reports_)

(* Initialization ends in a stop whose result counts, and a stop that has    *)
(* been written has stopped all effects.                                     *)
InitEndsInStop ==
    /\ handler = "init" /\ result =>
         IF Idle THEN hw.playing = {} ELSE calls[Len(calls)] = Must("stop_forces")
    /\ busy /\ Head(calls).method = "stop_forces" =>
         \/ tx = <<StopAll>>
         \/ tx = <<>> /\ hw.playing = {}

(* A calibration starts on a stopped wheel, and one that gives up does so   *)
(* before it starts an effect or at one of its stops.                       *)
GivesUpStopped ==
    /\ phase \in {"loaded", "failed"} /\ handler # "init" => ~playing_
    /\ handler = "init" =>
         /\ ~result => Idle /\ ~playing_
         /\ \A i \in DOMAIN calls : calls[i].must =>
              \/ calls[i].method \in Stopping
              \/ i = 1 /\ ~playing_ /\ calls[i].method \notin Starting

PluginInv == /\ PluginTypeOK
             /\ HandlerFits
             /\ GivesUpStopped
             /\ QuietInPause
             /\ InitEndsInStop
             /\ handler \notin {"init", "tick"} => NothingStarts
             /\ device = "none" => Unused

(* An effect starts only while the wheel is being calibrated or while the   *)
(* player drives: never in a pause, while loading or unloading, nor after   *)
(* shutdown.                                                                *)
EffectsOnlyWhenDriving ==
    [][ \/ hw.playing' \subseteq hw.playing
        \/ handler = "init"
        \/ handler = "tick" /\ phase = "active" /\ ~g_telemetry_paused ]_vars

(* When scs_telemetry_init reports success the calibration's effects have   *)
(* ended, although the results of all but three of calibrate's calls are    *)
(* ignored (wheel.hxx:139-205).                                             *)
InitOkIsSilent == [][ phase # "active" /\ phase' = "active" => hw.playing = {} ]_vars

(* Loading resets the wheel a crashed session left behind: without a failed *)
(* call it is silent, its autocenter is off and a known wheel has its 900   *)
(* degrees (wheel.hxx:127-134, 480-487; simulator.hxx:86-101).              *)
LoadedIsReset ==
    Between("loaded") /\ plugged /\ clean =>
        /\ hw.playing = {}
        /\ ~hw.autocenter
        /\ device = "known" => hw.native /\ hw.range = 900

(* A pause handler without a failed call leaves LEDs, autocenter and        *)
(* effects off (fffb.cxx:101-110).                                          *)
CleanPauseResets ==
    [][ Done("pause") /\ clean /\ plugged /\ handler' = "none" =>
          hw.playing = {} /\ ~hw.autocenter /\ hw.leds = 0 ]_vars

(* From the second tick after a stop on, a tick without a failed call       *)
(* leaves every enabled force on the device: its current parameters in the  *)
(* slots that are its own, slot 0, which the constant force shares with the *)
(* spring, being the spring's while the spring is enabled, and, if the      *)
(* firmware starts what it refreshes, its slots playing; and the LEDs show  *)
(* the current engine speed (fffb.cxx:112-129, wheel.hxx:342-375).          *)
OwnSlots(t) ==
    IF t = "constant" /\ Enabled("spring") THEN {} ELSE SlotsOf(SlotMask[t])

Holds(t) == \A s \in OwnSlots(t) : hw.content[s] = [type |-> t, params |-> forces[t].params]

Plays(t) == SlotsOf(SlotMask[t]) \subseteq hw.playing

Delivered(t) == Enabled(t) => Holds(t) /\ (RefreshStarts => Plays(t))

TickDelivers ==
    [][ Done("tick") /\ clean /\ plugged /\ handler' = "none" =>
          /\ hw.leds = LedPattern(telemetry.rpm)
          /\ refreshed > 0 => \A t \in ForceType : Delivered(t) ]_vars

(* Unloading without a failed call returns the wheel to its own centering   *)
(* spring with no effect playing, from a successful or a failed             *)
(* initialization, paused or not (wheel.hxx:32).                            *)
UnloadRestores ==
    [][ Done("unload") /\ clean /\ handler' = "none" =>
          hw.playing = {} /\ hw.autocenter ]_vars

(***************************************************************************)
(* The inductive invariant behind LoadedIsReset, CleanPauseResets and      *)
(* UnloadRestores, proved so in PluginProofs.                              *)
(***************************************************************************)
(* What the handlers that put the wheel back send it, and the calls they    *)
(* make to do so: none of it undoes what another of them did.               *)
Resetting == {"load", "pause", "unload"}

Sends == [load   |-> {AutoOff, StopAll, NativeMode, SetRange(900)},
          pause  |-> {AutoOff, StopAll, SetLeds(0)},
          unload |-> {AutoOn, StopAll}]

ResetCalls == [load   |-> {"init_protocol", "disable_autocenter", "stop_forces"},
               pause  |-> {"q_disable_autocenter", "q_stop_forces", "q_set_led_pattern",
                           "flush_reports"},
               unload |-> {"stop_forces", "enable_autocenter"}]

Only(commands, allowed) == \A i \in DOMAIN commands : commands[i] \in allowed

OnlyResets ==
    handler \in Resetting =>
        /\ Only(tx, Sends[handler]) /\ Only(reports_, Sends[handler])
        /\ \A i \in DOMAIN calls : /\ calls[i].method \in ResetCalls[handler]
                                   /\ calls[i].pattern = 0 /\ ~calls[i].must

(* A command the running handler has still to send: it is in the batch, in  *)
(* the queue, or that of a call not yet begun.                              *)
Has(commands, name) == \E i \in DOMAIN commands : commands[i].cmd = name

Unsent(name, methods) ==
    \/ Has(tx, name)
    \/ Has(reports_, name) /\ ~(busy /\ Head(calls).method = "flush_reports")
    \/ Makes(Unmade, methods)

(* As long as no call failed, what is not yet as it should be on the device *)
(* is still to be sent.                                                     *)
ResetOrUnsent ==
    handler \in Resetting /\ clean /\ plugged =>
        /\ hw.playing = {} \/ Unsent("STOP_FORCE", Stopping)
        /\ handler = "load" /\ device = "known" =>
             /\ hw.native \/ Unsent("NATIVE_MODE", {"init_protocol"})
             /\ hw.range = 900 \/ Unsent("RANGE_SET", {"init_protocol"})
        /\ handler = "pause" => hw.leds = 0 \/ Unsent("LED_SET", {"q_set_led_pattern"})
        /\ IF handler = "unload"
           THEN hw.autocenter \/ Unsent("AUTO_ON", {"enable_autocenter"})
           ELSE ~hw.autocenter \/ Unsent("AUTO_OFF", {"disable_autocenter", "q_disable_autocenter"})

ResetInv == /\ OnlyResets
            /\ ResetOrUnsent
            /\ device # "none" /\ ~plugged => hw = PowerOn
            /\ LoadedIsReset

(***************************************************************************)
(* The inductive invariant behind TickDelivers, proved so in PluginProofs. *)
(***************************************************************************)
TickCalls == Tick(LedPattern(telemetry.rpm))

Refreshing(t) == ForceCommand("REFRESH_FORCE", t, forces[t].params)

EnabledRefreshes == {Refreshing(t) : t \in {u \in ForceType : Enabled(u)}}

(* The constant force is refreshed first, and the spring, if there is one,  *)
(* next: it takes slot 0 over.                                              *)
SpringFollows(commands) ==
    \A i \in DOMAIN commands : commands[i].type = "constant" =>
        /\ i = 1
        /\ Enabled("spring") => Len(commands) > 1 /\ commands[2] = Refreshing("spring")

(* While a tick after the first makes its calls without a failure, a force  *)
(* that is not yet on the device is still to be refreshed.                  *)
TickOrUnsent ==
    handler = "tick" /\ clean /\ plugged =>
        /\ refreshed > 0 =>
             IF calls = TickCalls
             THEN busy => /\ Only(tx, EnabledRefreshes)
                          /\ SpringFollows(tx)
                          /\ \A t \in ForceType :
                               Delivered(t) \/ \E i \in DOMAIN tx : tx[i] = Refreshing(t)
             ELSE \A t \in ForceType : Delivered(t)
        /\ Len(calls) = 1 /\ busy =>
             \/ tx = <<SetLeds(LedPattern(telemetry.rpm))>>
             \/ tx = <<>> /\ hw.leds = LedPattern(telemetry.rpm)
        /\ Idle => hw.leds = LedPattern(telemetry.rpm)

TickInv == /\ handler = "tick" =>
                /\ calls \in {TickCalls, Tail(TickCalls), <<>>}
                /\ reports_ = <<>>
                /\ calls # TickCalls \/ busy => playing_
           /\ refreshed > 0 => /\ phase \in {"active", "shut"} /\ handler # "pause"
                               /\ phase = "active" => playing_
           /\ TickOrUnsent

(* The plugin is an owner that uses the wheel only through Scripts: what    *)
(* holds of WheelSafety holds of the plugin's wheel.                        *)
ImplementsWheel == WheelSafety

(* While the player drives the forces are recomputed again and again; the   *)
(* counter cannot get stuck, nor a failing device hold up the game.         *)
Driving == phase = "active" /\ ~g_telemetry_paused
DrivingUpdates == <>[]Driving => []<>(handler = "tick")

(* While the player drives with a connected wheel, the device comes to have *)
(* the enabled forces, as computed last, and the LEDs of the engine speed   *)
(* again and again, however often calls to it failed before: a tick repeats *)
(* what an earlier one could not deliver.  That the forces also play again  *)
(* is said of a firmware that starts what it refreshes (RefreshStarts): on  *)
(* another, playing_ keeps the plugin from repeating a play command that    *)
(* was lost (wheel.hxx:298, 344).  Nothing is said of slots whose force is  *)
(* disabled (fffb.cxx:112-152, wheel.hxx:342-375).                          *)
Felt == /\ \A t \in ForceType : Delivered(t)
        /\ hw.leds = LedPattern(telemetry.rpm)

FeedbackRecovers == <>[](Driving /\ plugged) => []<>Felt

(* A call that fails leaves the device open, and so kept from every other   *)
(* program (open() seizes it).  It is not kept for good: while the player   *)
(* drives with a connected wheel, and once calls no longer fail (the bound  *)
(* MaxFailures sees to that), there comes a tick after which no rest        *)
(* between two handlers finds the device open (wheel.hxx:433-476).          *)
SeizureEnds == <>[](Driving /\ plugged) => <>[](Idle => ~handle)

-----------------------------------------------------------------------------
(***************************************************************************)
(* The promise to the driver, module ForceFeedback, and what of the        *)
(* plugin's state it stands for.                                           *)
(***************************************************************************)
(* Between the handlers that put the wheel into a mode of its own. *)
Resting == CASE phase = "active" -> IF g_telemetry_paused THEN "paused" ELSE "driving"
             [] phase = "shut"   -> "leaving"
             [] OTHER            -> "off"

Mode == IF abandoned THEN "dead"
        ELSE CASE handler = "load"   -> "loading"
               [] handler = "init"   -> "calibrating"
               [] handler = "pause"  -> "pausing"
               [] handler = "unload" -> "leaving"
               [] OTHER              -> Resting

FF == INSTANCE ForceFeedback WITH Effects <- Slots, mode <- Mode, playing <- hw.playing,
                                  lost <- lostStop

(* The plugin implements the promise, whatever fails, however the game's    *)
(* calls, kills and loads follow on each other: effects start only while    *)
(* the wheel is tried out or driven with, and no pause, load, failed        *)
(* calibration or unloading is over with an effect left playing and no stop *)
(* command lost; only a kill in use leaves effects, to the next load        *)
(* (fffb.cxx:70-182, wheel.hxx:127-134, 296-476).                           *)
ImplementsForceFeedback == FF!FFSafety

(* What the promise means for the plugin's wheel: it is silent in every     *)
(* pause, whatever frames and channel values the game still sends, and      *)
(* whenever the plugin is loaded, has given up, has ended or was killed     *)
(* between handlers with no effect playing: "it should probably stop them   *)
(* until SCS_TELEMETRY_EVENT_started" (scssdk_telemetry_event.h).  It may   *)
(* play there only after a failed stop command that no other has made good, *)
(* or after a kill in a handler or while the player drove, until a load     *)
(* finds the wheel (fffb.cxx:101-110, 154-182; wheel.hxx:32, 127-134).      *)
RestIsSilent == FF!RestIsSilent

-----------------------------------------------------------------------------
(***************************************************************************)
(* What comments, messages and documents say, and the code does not do.    *)
(***************************************************************************)
(* "fffb::info : telemetry paused, force feedback stopped" (fffb.cxx:174): *)
(* so says the message the pause handler ends with.                         *)
PauseMessageIsTrue == Done("pause") => hw.playing = {}

(* A tick without a failed call, on a wheel still connected, is about to     *)
(* return.                                                                  *)
TickDone == Done("tick") /\ clean /\ plugged

(* "0 (constant) | self-aligning torque" (README.md:36): with the constant   *)
(* force enabled, what slot 0 holds is a constant force.                    *)
ConstantHasSlot0 == TickDone /\ forces.constant.enabled => hw.content[0].type = "constant"

(* "3 (trapezoid) | activates on off-road surfaces" (README.md:39). *)
VibratesOffroadOnly == TickDone /\ 3 \in hw.playing => Offroad(telemetry)

(* "2 (damper) | speed and brake influenced damping" (README.md:38): when    *)
(* slot 2 plays it plays the damper.                                        *)
DamperIsPlayed == TickDone /\ 2 \in hw.playing => hw.content[2].type = "damper"

(* "assert( value )" (fffb.cxx:221): no channel callback without a value.    *)
ValueIsPresent == phase # "aborted"
=============================================================================
