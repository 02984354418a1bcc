------------------------------- MODULE Wheel -------------------------------
(***************************************************************************)
(* fffb::wheel and the steering wheel it drives (include/fffb/joy/         *)
(* wheel.hxx, include/fffb/hid/device.hxx).                                *)
(*                                                                         *)
(* The plugin's handlers are synchronous: one runs at a time, and it is a  *)
(* sequence of method calls on the wheel.  `calls` holds the calls the     *)
(* running handler has still to make.  A call that talks to the device     *)
(* opens it, writes reports one by one and closes it (_write_reports);     *)
(* each of these steps is an action of its own, because each can fail and  *)
(* the process can be killed between any two of them.                      *)
(*                                                                         *)
(* The wheel's owner hands over the next handler's calls with Submit.  As  *)
(* a specification of its own (WheelSpec) the owner may submit any of      *)
(* Scripts in any order; module Plugin is the owner fffb really has.       *)
(***************************************************************************)
EXTENDS Forces, FiniteSets

CONSTANTS Settings,       \* the force settings an owner may assign
          Patterns,       \* the LED patterns an owner may set
          Connected,      \* the wheels that may be connected
          MaxFailures,    \* bound: how many calls to the device fail
          RefreshStarts   \* TRUE if the firmware starts a stopped slot on a
                          \* refresh command, FALSE if it only updates it

ASSUME SettingsAssumption == Settings \subseteq ForceSettings
ASSUME PatternsAssumption == Patterns \subseteq LedPatterns
ASSUME ConnectedAssumption == Connected \subseteq {"known", "unknown"}
ASSUME MaxFailuresAssumption == MaxFailures \in Nat
ASSUME RefreshStartsAssumption == RefreshStarts \in BOOLEAN

VARIABLES
    device,     \* "none", or the kind of wheel device_ refers to
    plugged,    \* that wheel is still connected
    forces,     \* constant_, spring_, damper_, trapezoid_
    playing_,   \* what the plugin believes the device is doing
    reports_,   \* commands queued by the q_ methods
    calls,      \* calls the running handler has still to make
    busy,       \* the first of them is between open() and close()
    tx,         \* commands that call has still to write
    result,     \* FALSE once the handler has decided to return false
    handle,     \* the HID device is open in this process
    hw,         \* the device itself
    lostStop,   \* history: no stop_forces was delivered since the last one failed
    abandoned,  \* history: the process was killed in use, no other has found the wheel since
    clean,      \* history: every HID call of the last handler succeeded
    failures    \* history: how many HID calls have failed, up to MaxFailures

wheelVars == <<device, plugged, forces, playing_, reports_, calls, busy, tx, result,
               handle, hw, lostStop, abandoned, clean, failures>>

Devices == {"none", "known", "unknown"}

-----------------------------------------------------------------------------
(***************************************************************************)
(* The device (external).  An effect slot keeps the last effect loaded     *)
(* into it, playing or not.  autocenter, leds and range start as the       *)
(* firmware sets them at power on.                                         *)
(***************************************************************************)
NoEffect == [type |-> "none"]

PowerOn == [content |-> [s \in Slots |-> NoEffect], playing |-> {},
            autocenter |-> TRUE, leds |-> 0, range |-> 0, native |-> FALSE]

Load(h, c) ==
    [h EXCEPT !.content = [s \in Slots |->
        IF s \in c.slots THEN [type |-> c.type, params |-> c.params] ELSE h.content[s]]]

(* The device after it has executed command c. *)
Execute(h, c) ==
    CASE c.cmd = "DL_FORCE"      -> Load(h, c)
      [] c.cmd = "REFRESH_FORCE" ->
           IF RefreshStarts THEN [Load(h, c) EXCEPT !.playing = @ \cup c.slots] ELSE Load(h, c)
      [] c.cmd = "PLAY_FORCE"    -> [h EXCEPT !.playing = @ \cup c.slots]
      [] c.cmd = "STOP_FORCE"    -> [h EXCEPT !.playing = @ \ c.slots]
      [] c.cmd = "AUTO_ON"       -> [h EXCEPT !.autocenter = TRUE]
      [] c.cmd = "AUTO_OFF"      -> [h EXCEPT !.autocenter = FALSE]
      [] c.cmd = "LED_SET"       -> [h EXCEPT !.leds = c.pattern]
      [] c.cmd = "RANGE_SET"     -> [h EXCEPT !.range = c.range]
      [] c.cmd = "NATIVE_MODE"   -> [h EXCEPT !.native = TRUE]

-----------------------------------------------------------------------------
(***************************************************************************)
(* The commands a call writes.                                             *)
(***************************************************************************)
Enabled(t) == forces[t].enabled

(* A wrong PerForce: the spring before the constant force. *)
PerForceSpringFirst(name) ==
    LET one(t) == IF Enabled(t) THEN <<ForceCommand(name, t, forces[t].params)>> ELSE <<>>
    IN  one("spring") \o one("constant") \o one("damper") \o one("trapezoid")

(* One command per enabled force, in the order the methods test them. *)
PerForce(name) ==
    LET one(t) == IF Enabled(t) THEN <<ForceCommand(name, t, forces[t].params)>> ELSE <<>>
    IN  one("constant") \o one("spring") \o one("damper") \o one("trapezoid")

(* A wrong StopAll: the mask 0x07 leaves the trapezoid's slot out.          *)
StopAllButTrapezoid == SlotCommand("STOP_FORCE", SlotsOf(7))

StopAll    == SlotCommand("STOP_FORCE", Slots)
AutoOff    == SlotCommand("AUTO_OFF", Slots)
AutoOn     == SlotCommand("AUTO_ON", Slots)

(* slots |= slot, for each enabled force *)
PlayEnabled ==
    SlotCommand("PLAY_FORCE", UNION {SlotsOf(SlotMask[t]) : t \in {u \in ForceType : Enabled(u)}})

(* A wrong Refresh: the test of playing_ is inverted. *)
RefreshInverted == IF playing_ THEN <<PlayEnabled>> ELSE PerForce("REFRESH_FORCE")

(* refresh_forces of a wheel that is not playing only plays. *)
Refresh == IF playing_ THEN PerForce("REFRESH_FORCE") ELSE <<PlayEnabled>>

InitSequence == IF device = "known" THEN <<NativeMode, SetRange(900)>> ELSE <<>>

(* A call: the method, the LED pattern it is given (0 for the others), and  *)
(* whether the handler returns false when it fails.                        *)
Call(method, pattern, must) == [method |-> method, pattern |-> pattern, must |-> must]
Do(method)   == Call(method, 0, FALSE)
Must(method) == Call(method, 0, TRUE)

Batch(call) ==
    CASE call.method = "init_protocol"      -> InitSequence
      [] call.method = "disable_autocenter" -> <<AutoOff>>
      [] call.method = "enable_autocenter"  -> <<AutoOn>>
      [] call.method = "stop_forces"        -> <<StopAll>>
      [] call.method = "download_forces"    -> PerForce("DL_FORCE")
      [] call.method = "play_forces"        -> <<PlayEnabled>>
      [] call.method = "refresh_forces"     -> Refresh
      [] call.method = "set_led_pattern"    -> <<SetLeds(call.pattern)>>
      [] call.method = "flush_reports"      -> reports_

(* The commands a q_ method appends.  q_refresh_forces, unlike              *)
(* refresh_forces, goes on after the play command.                          *)
Queued(call) ==
    CASE call.method = "q_disable_autocenter" -> <<AutoOff>>
      [] call.method = "q_enable_autocenter"  -> <<AutoOn>>
      [] call.method = "q_stop_forces"        -> <<StopAll>>
      [] call.method = "q_download_forces"    -> PerForce("DL_FORCE")
      [] call.method = "q_play_forces"        -> <<PlayEnabled>>
      [] call.method = "q_refresh_forces"     ->
           (IF playing_ THEN <<>> ELSE <<PlayEnabled>>) \o PerForce("REFRESH_FORCE")
      [] call.method = "q_set_led_pattern"    -> <<SetLeds(call.pattern)>>

(* play_forces and stop_forces set the flag before they open the device,    *)
(* refresh_forces ends in play_forces unless the flag is already set.       *)
Stopping == {"stop_forces", "q_stop_forces"}
Starting == {"play_forces", "refresh_forces", "q_play_forces", "q_refresh_forces"}

(* A wrong FlagAfter: the q_ methods leave playing_ to the flush. *)
FlagAfterDirectOnly(method) ==
    IF method = "stop_forces" THEN FALSE
    ELSE IF method \in {"play_forces", "refresh_forces"} THEN TRUE ELSE playing_

FlagAfter(method) ==
    IF method \in Stopping THEN FALSE ELSE IF method \in Starting THEN TRUE ELSE playing_

IOMethods == {"init_protocol", "disable_autocenter", "enable_autocenter", "stop_forces",
              "download_forces", "play_forces", "refresh_forces", "set_led_pattern",
              "flush_reports"}

QueueMethods == {"q_disable_autocenter", "q_enable_autocenter", "q_stop_forces",
                 "q_download_forces", "q_play_forces", "q_refresh_forces",
                 "q_set_led_pattern"}

(* The stretches of calibrate that assign force parameters. *)
Assignments == {"turn right", "turn left", "shake", "shaken"}

Methods == IOMethods \cup QueueMethods \cup Assignments

RightParams == [amplitude |-> 96]
LeftParams  == [amplitude |-> 160]
(* A wrong ShakeParams: slope_step_x does not fit its nibble. *)
ShakeParamsTooSteep == [amplitude_max |-> 96, amplitude_min |-> 160, t_at_max |-> 32,
                        t_at_min |-> 32, slope_step_x |-> 16, slope_step_y |-> 6]

ShakeParams == [amplitude_max |-> 96, amplitude_min |-> 160, t_at_max |-> 32,
                t_at_min |-> 32, slope_step_x |-> 6, slope_step_y |-> 6]

On(params) == [enabled |-> TRUE, params |-> params]

(* The forces after one of calibrate's assignments. *)
Assigned(method) ==
    CASE method = "turn right" -> [forces EXCEPT !.constant = On(RightParams)]
      [] method = "turn left"  -> [forces EXCEPT !.constant.params = LeftParams]
      [] method = "shake"      -> [forces EXCEPT !.constant.enabled = FALSE,
                                                 !.trapezoid = On(ShakeParams)]
      [] method = "shaken"     -> [forces EXCEPT !.trapezoid.enabled = FALSE]

-----------------------------------------------------------------------------
(***************************************************************************)
(* What an owner makes the wheel do.                                       *)
(***************************************************************************)
(* A wrong Constructor: it leaves the device's autocenter alone. *)
ConstructorStopsOnly(dev) ==
    IF dev = "known" THEN <<Do("init_protocol"), Do("stop_forces")>> ELSE <<Do("stop_forces")>>

(* A wrong Constructor: it trusts the playing_ of a new process. *)
ConstructorWithoutStop(dev) ==
    IF dev = "known" THEN <<Do("init_protocol"), Do("disable_autocenter")>>
    ELSE <<Do("disable_autocenter")>>

(* wheel::wheel once device_ is chosen, then simulator::initialize_wheel. *)
Constructor(dev) ==
    IF dev = "known"
    THEN <<Do("init_protocol"), Do("disable_autocenter"), Do("stop_forces")>>
    ELSE <<Do("disable_autocenter"), Do("stop_forces")>>

(* A wrong Calibrate: the last stop, the one it checks, is left out. *)
CalibrateUnchecked ==
    << Must("disable_autocenter"), Must("stop_forces"),
       Do("turn right"), Do("download_forces"), Do("play_forces"),
       Do("turn left"), Do("refresh_forces"),
       Do("stop_forces"), Do("shake"), Do("download_forces"), Do("play_forces"),
       Do("stop_forces"), Do("shaken"),
       Do("stop_forces"), Do("enable_autocenter"), Do("disable_autocenter") >>

Calibrate ==
    << Must("disable_autocenter"), Must("stop_forces"),
       Do("turn right"), Do("download_forces"), Do("play_forces"),
       Do("turn left"), Do("refresh_forces"),
       Do("stop_forces"), Do("shake"), Do("download_forces"), Do("play_forces"),
       Do("stop_forces"), Do("shaken"),
       Do("stop_forces"), Do("enable_autocenter"), Do("disable_autocenter"),
       Must("stop_forces") >>

(* Wrong variants of Reset: the queue is flushed too early, the LEDs stay.  *)
ResetFlushesFirst == << Do("q_disable_autocenter"), Do("flush_reports"),
                        Do("q_stop_forces"), Do("q_set_led_pattern") >>
ResetKeepsLeds    == << Do("q_disable_autocenter"), Do("q_stop_forces"), Do("flush_reports") >>

(* reset_wheel *)
Reset == << Do("q_disable_autocenter"), Do("q_stop_forces"), Do("q_set_led_pattern"),
            Do("flush_reports") >>

(* The calls of simulator::update_forces and update_leds. *)
Tick(pattern) == << Do("refresh_forces"), Call("set_led_pattern", pattern, FALSE) >>

(* Wrong variants of Destructor: the wheel is left without its centering     *)
(* spring, or with what the last tick played.                               *)
DestructorStopsOnly   == << Do("stop_forces") >>
DestructorWithoutStop == << Do("enable_autocenter") >>

Destructor == << Do("stop_forces"), Do("enable_autocenter") >>

(* The q_ methods that fffb itself does not use. *)
QueuedPlay    == << Do("q_enable_autocenter"), Do("q_download_forces"), Do("q_play_forces"),
                    Do("flush_reports") >>
QueuedRefresh == << Do("q_refresh_forces"), Do("flush_reports") >>

Scripts == {Calibrate, Reset, Destructor, QueuedPlay, QueuedRefresh}
             \cup {Tick(p) : p \in Patterns}

-----------------------------------------------------------------------------
(***************************************************************************)
(* The steps of a call.                                                    *)
(***************************************************************************)
HasStop(commands) == \E i \in DOMAIN commands : commands[i].cmd = "STOP_FORCE"

(* A wrong Return: a call whose result counts is made until it succeeds.    *)
ReturnRetries(ok, undelivered) ==
    LET call == Head(calls) IN
    /\ busy' = FALSE /\ tx' = <<>>
    /\ reports_' = IF call.method = "flush_reports" THEN <<>> ELSE reports_
    /\ calls' = IF ~ok /\ call.must THEN calls ELSE Tail(calls)
    /\ UNCHANGED result
    /\ lostStop' = (lostStop \/ HasStop(undelivered)) /\ clean' = (clean /\ ok)
    /\ failures' = IF ok \/ ~plugged THEN failures ELSE failures + 1

(* A wrong Return: the queue survives a failed flush.                       *)
ReturnKeepsQueue(ok, undelivered) ==
    LET call == Head(calls) IN
    /\ busy' = FALSE /\ tx' = <<>>
    /\ reports_' = IF ok /\ call.method = "flush_reports" THEN <<>> ELSE reports_
    /\ calls' = IF ~ok /\ call.must THEN <<>> ELSE Tail(calls)
    /\ result' = (result /\ (ok \/ ~call.must))
    /\ lostStop' = (lostStop \/ HasStop(undelivered)) /\ clean' = (clean /\ ok)
    /\ failures' = IF ok \/ ~plugged THEN failures ELSE failures + 1

(* A call to a wheel that has been unplugged always fails, one to a         *)
(* connected wheel MaxFailures times.                                       *)
MayFail == failures < MaxFailures \/ ~plugged

(* The current call returns ok; undelivered are the commands it has not     *)
(* written.  flush_reports clears its queue whether it succeeded or not.    *)
Return(ok, undelivered) ==
    LET call == Head(calls) IN
    /\ busy' = FALSE
    /\ tx' = <<>>
    /\ reports_' = IF call.method = "flush_reports" THEN <<>> ELSE reports_
    /\ calls' = IF ~ok /\ call.must THEN <<>> ELSE Tail(calls)
    /\ result' = (result /\ (ok \/ ~call.must))
    /\ lostStop' = (lostStop \/ HasStop(undelivered))
    /\ clean' = (clean /\ ok)
    /\ failures' = IF ok \/ ~plugged THEN failures ELSE failures + 1

Assign ==
    /\ calls # <<>> /\ Head(calls).method \in Assignments
    /\ forces' = Assigned(Head(calls).method)
    /\ calls' = Tail(calls)
    /\ UNCHANGED <<device, plugged, playing_, reports_, busy, tx, result, handle, hw,
                   lostStop, abandoned, clean, failures>>

Queue ==
    /\ calls # <<>> /\ Head(calls).method \in QueueMethods
    /\ reports_' = reports_ \o Queued(Head(calls))
    /\ playing_' = FlagAfter(Head(calls).method)
    /\ calls' = Tail(calls)
    /\ UNCHANGED <<device, plugged, forces, busy, tx, result, handle, hw, lostStop, abandoned,
                   clean, failures>>

Begin ==
    /\ calls # <<>> /\ Head(calls).method \in IOMethods /\ ~busy
    /\ playing_' = FlagAfter(Head(calls).method)
    /\ UNCHANGED <<device, plugged, forces, hw, abandoned>>

Open ==
    /\ plugged /\ Begin
    /\ busy' = TRUE
    /\ handle' = TRUE
    /\ tx' = Batch(Head(calls))
    /\ UNCHANGED <<reports_, calls, result, lostStop, clean, failures>>

OpenFails ==
    /\ MayFail /\ Begin
    /\ Return(FALSE, Batch(Head(calls)))
    /\ UNCHANGED handle

(* A wrong Write: the loop does not advance. *)
WriteRepeats ==
    /\ plugged /\ busy /\ tx # <<>>
    /\ hw' = Execute(hw, Head(tx))
    /\ lostStop' = (lostStop /\ Head(tx).cmd # "STOP_FORCE")
    /\ UNCHANGED <<device, plugged, forces, playing_, reports_, calls, busy, tx, result, handle,
                   abandoned, clean, failures>>

Write ==
    /\ plugged /\ busy /\ tx # <<>>
    /\ hw' = Execute(hw, Head(tx))
    /\ tx' = Tail(tx)
    /\ lostStop' = (lostStop /\ Head(tx).cmd # "STOP_FORCE")
    /\ UNCHANGED <<device, plugged, forces, playing_, reports_, calls, busy, result, handle,
                   abandoned, clean, failures>>

(* The report may have reached a connected device all the same.  The device *)
(* is not closed.                                                           *)
WriteFails ==
    /\ MayFail /\ busy /\ tx # <<>>
    /\ hw' = hw \/ (plugged /\ hw' = Execute(hw, Head(tx)))
    /\ Return(FALSE, tx)
    /\ UNCHANGED <<device, plugged, forces, playing_, handle, abandoned>>

(* A wrong Close: success without closing the device. *)
CloseForgotten ==
    /\ busy /\ tx = <<>>
    /\ Return(TRUE, <<>>)
    /\ UNCHANGED <<device, plugged, forces, playing_, hw, handle, abandoned>>

Close ==
    /\ busy /\ tx = <<>>
    /\ handle' = FALSE
    /\ Return(TRUE, <<>>)
    /\ UNCHANGED <<device, plugged, forces, playing_, hw, abandoned>>

CloseFails ==
    /\ MayFail /\ busy /\ tx = <<>>
    /\ Return(FALSE, <<>>)
    /\ UNCHANGED <<device, plugged, forces, playing_, handle, hw, abandoned>>

HandlerStep == Assign \/ Queue \/ Open \/ OpenFails \/ Write \/ WriteFails
                 \/ Close \/ CloseFails

-----------------------------------------------------------------------------
(***************************************************************************)
(* The owner's side.                                                       *)
(***************************************************************************)
Idle == calls = <<>>

(* A handler begins: it makes the calls of script, with forces as settings. *)
Submit(script, settings) ==
    /\ Idle
    /\ calls' = script
    /\ forces' = settings
    /\ result' = TRUE
    /\ clean' = TRUE
    /\ UNCHANGED <<playing_, reports_, busy, tx, handle, hw, lostStop, failures>>

(* The process ends, in whatever step it is, killed or not; the device      *)
(* keeps its state and the system closes it.                                *)
Gone(killed) ==
    /\ device' = "none"
    /\ plugged' = FALSE
    /\ forces' = DefaultForces
    /\ playing_' = FALSE
    /\ reports_' = <<>>
    /\ calls' = <<>>
    /\ busy' = FALSE
    /\ tx' = <<>>
    /\ result' = TRUE
    /\ handle' = FALSE
    /\ abandoned' = (abandoned \/ (killed /\ (playing_ \/ ~Idle)))
    /\ clean' = TRUE
    /\ UNCHANGED <<hw, lostStop, failures>>

WheelInit ==
    /\ device = "none"
    /\ plugged = FALSE
    /\ forces = DefaultForces
    /\ playing_ = FALSE
    /\ reports_ = <<>>
    /\ calls = <<>>
    /\ busy = FALSE
    /\ tx = <<>>
    /\ result = TRUE
    /\ handle = FALSE
    /\ hw = PowerOn
    /\ lostStop = FALSE
    /\ abandoned = FALSE
    /\ clean = TRUE
    /\ failures = 0

Attach == /\ device = "none"
          /\ device' \in Connected
          /\ plugged' = TRUE
          /\ abandoned' = FALSE
          /\ Submit(Constructor(device'), forces)

Use == /\ device # "none"
       /\ \E script \in Scripts, settings \in Settings \cup {forces} : Submit(script, settings)
       /\ UNCHANGED <<device, plugged, abandoned>>

(* An owner that ends by itself, between two calls and with the effects      *)
(* stopped, does what one that is killed there does.                        *)
Detach == device # "none" /\ Gone(TRUE)

(* The wheel is unplugged, in whatever step; nothing tells the process.     *)
(* device_ never refers to a connected device again, also when the wheel    *)
(* comes back: it is looked for in the constructor only.                    *)
Unplug ==
    /\ plugged
    /\ plugged' = FALSE
    /\ hw' = PowerOn
    /\ UNCHANGED <<device, forces, playing_, reports_, calls, busy, tx, result, handle,
                   lostStop, abandoned, clean, failures>>

WheelNext == HandlerStep \/ Attach \/ Use \/ Detach \/ Unplug

WheelSafety == WheelInit /\ [][WheelNext]_wheelVars

(* IOKit calls return, with one result or the other. *)
WheelSpec == WheelSafety /\ WF_wheelVars(HandlerStep)

-----------------------------------------------------------------------------
(***************************************************************************)
(* Properties.                                                             *)
(***************************************************************************)
SlotCommands == [cmd : {"AUTO_OFF", "AUTO_ON", "PLAY_FORCE", "STOP_FORCE"},
                 slots : SUBSET Slots]
Loads(t)      == [cmd : {"DL_FORCE", "REFRESH_FORCE"}, slots : {SlotsOf(SlotMask[t])},
                  type : {t}, params : AllParams[t]]
ForceCommands == Loads("constant") \cup Loads("spring") \cup Loads("damper")
                   \cup Loads("trapezoid")
LedCommands   == [cmd : {"LED_SET"}, pattern : LedPatterns]
RangeCommands == [cmd : {"RANGE_SET"}, range : Word]
ModeCommands  == [cmd : {"NATIVE_MODE"}]

Commands == SlotCommands \cup ForceCommands \cup LedCommands
              \cup RangeCommands \cup ModeCommands

Loaded(t) == [type : {t}, params : AllParams[t]]
Effects   == {NoEffect} \cup Loaded("constant") \cup Loaded("spring") \cup Loaded("damper")
               \cup Loaded("trapezoid")

Hardware == [content : [Slots -> Effects], playing : SUBSET Slots, autocenter : BOOLEAN,
             leds : LedPatterns, range : Word, native : BOOLEAN]

CallType == [method : Methods, pattern : LedPatterns, must : BOOLEAN]

(* Type invariant. *)
WheelTypeOK ==
    /\ device \in Devices
    /\ plugged \in BOOLEAN /\ (plugged => device # "none")
    /\ forces \in ForceSettings
    /\ playing_ \in BOOLEAN
    /\ reports_ \in Seq(Commands)
    /\ calls \in Seq(CallType)
    /\ busy \in BOOLEAN
    /\ tx \in Seq(Commands)
    /\ result \in BOOLEAN
    /\ handle \in BOOLEAN
    /\ hw \in Hardware
    /\ lostStop \in BOOLEAN
    /\ abandoned \in BOOLEAN /\ (abandoned => device = "none")
    /\ clean \in BOOLEAN
    /\ failures \in 0 .. MaxFailures

(***************************************************************************)
(* The inductive invariant behind the safety properties below, and proved  *)
(* so in WheelProofs.                                                      *)
(***************************************************************************)
HasStart(commands) ==
    \E i \in DOMAIN commands : commands[i].cmd \in {"PLAY_FORCE", "REFRESH_FORCE"}

StopsAll(commands) ==
    \A i \in DOMAIN commands : commands[i].cmd = "STOP_FORCE" => commands[i].slots = Slots

Makes(script, methods) == \E i \in DOMAIN script : script[i].method \in methods

EndsInFlush(script) ==
    /\ script # <<>>
    /\ script[Len(script)].method = "flush_reports"
    /\ \A i \in DOMAIN script : ~script[i].must

QueuedStarting == {"q_play_forces", "q_refresh_forces"}

(* What every script, and every rest of one, has: it ends in a call that     *)
(* opens the device, a script that queues commands flushes them, and none   *)
(* stops the forces behind a queued command that starts them.               *)
Disciplined(script) ==
    /\ script # <<>> => script[Len(script)].method \in IOMethods
    /\ Makes(script, QueueMethods) => EndsInFlush(script)
    /\ Makes(script, QueuedStarting) => ~Makes(script, Stopping)

(* Only a call in progress has commands to write, and it is an IO call. *)
OneCallAtATime == /\ ~busy => tx = <<>>
                  /\ busy => ~Idle /\ Head(calls).method \in IOMethods

(* A command that can start an effect is under way only with the flag set,  *)
(* and the handler that queued it does not clear the flag.                  *)
StartsHaveFlag ==
    /\ HasStart(tx) \/ HasStart(reports_) => playing_
    /\ HasStart(reports_) => ~Makes(calls, Stopping)

(* A stop command that is still to be written, or to be made by a handler    *)
(* that no failure ends.                                                    *)
Unmade == IF busy THEN Tail(calls) ELSE calls

StopUnderWay == \/ HasStop(tx)
                \/ HasStop(reports_) /\ ~(busy /\ Head(calls).method = "flush_reports")

StopToCome == Makes(Unmade, Stopping) /\ \A i \in DOMAIN calls : ~calls[i].must

SilentOrStopping ==
    ~playing_ /\ ~lostStop /\ ~abandoned => hw.playing = {} \/ StopUnderWay \/ StopToCome

WheelInv == /\ OneCallAtATime
            /\ Disciplined(calls)
            /\ reports_ # <<>> => EndsInFlush(calls)
            /\ StartsHaveFlag
            /\ StopsAll(tx) /\ StopsAll(reports_)
            /\ SilentOrStopping
            /\ Idle /\ clean => ~handle

-----------------------------------------------------------------------------
(* Between handlers, a wheel that believes it is not playing is right: neither *)
(* a queued stop, a partly written batch nor an ignored failure makes playing_ *)
(* claim silence that was not ordered and delivered, and what a killed process *)
(* left playing ends when the next one finds the wheel.  Excused are a stop    *)
(* command the device did not get, as long as no other follows, and the time   *)
(* between a kill and that next load (wheel.hxx:127-134, 296-338, 423-476).    *)
StoppedIsSilent == Idle /\ ~playing_ /\ ~lostStop /\ ~abandoned => hw.playing = {}

(* No effect starts on the device while the plugin believes it is stopped.  *)
NoStartWhenStopped == [][hw.playing' \subseteq hw.playing \/ playing_]_wheelVars

(* No command outlives the handler that queued it, whatever failed: the next *)
(* flush_reports cannot replay an old batch (wheel.hxx:423-429).             *)
QueueIsFlushed == Idle => reports_ = <<>>

(* No command is changed on its way: whatever calibrate, the simulator, the  *)
(* LEDs or the initialization ask for fits the bytes of its report, and the *)
(* device makes of them the command that was meant, with its slots and      *)
(* parameters (protocol.hxx:172-465, wheel.hxx:139-205, 296-476).           *)
ReportsArrive ==
    \A i \in DOMAIN tx : LET report == Encode(tx[i]) IN
        report \in [1 .. 8 -> Byte] /\ Decode(report) = tx[i]

(* A handler without a failed call gives the device back to other programs  *)
(* (open() seizes it), also when an earlier failure had left it open        *)
(* (wheel.hxx:433-476).                                                     *)
CleanHandlerReleases == Idle /\ clean => ~handle

(* The steps left: at most six for each call not begun (q_refresh_forces    *)
(* appends five commands), what the call in progress has still to write,    *)
(* and what is queued and not being flushed.                                *)
Unwritten == IF busy THEN Len(tx) + 1 ELSE 0
Unflushed == IF busy /\ Head(calls).method = "flush_reports" THEN 0 ELSE Len(reports_)

Work == 6 * Len(Unmade) + Unwritten + Unflushed

(* The work of a calibration, the longest script: 13 calls on the device and *)
(* four assignments, each counted as a call of six steps.                   *)
MaxWork == 6 * 17

(* No handler keeps the game waiting: whatever fails, nothing is tried       *)
(* again, and the handler has returned after MaxWork steps at the latest,   *)
(* opening, writing and closing included (wheel.hxx:139-205, 423-476).      *)
HandlersAreBounded ==
    [][ /\ Idle  => Work' <= MaxWork
        /\ ~Idle => IF HandlerStep THEN Work' < Work ELSE Work' <= Work ]_wheelVars

(* Every handler ends: each call returns to the game, failed or not.         *)
HandlersEnd == ~Idle ~> Idle
=============================================================================
