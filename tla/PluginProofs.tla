---------------------------- MODULE PluginProofs ----------------------------
(***************************************************************************)
(* Proofs about module Plugin: the plugin uses its wheel as the wheel's    *)
(* specification allows, and a paused plugin is silent.                    *)
(***************************************************************************)
EXTENDS Plugin, WheelProofs

-----------------------------------------------------------------------------
LEMMA InitialTelemetryType == InitialTelemetry \in [Channels -> Int]
BY DEF InitialTelemetry, ZeroTelemetry, Channels

LEMMA StillType == [l |-> 0, r |-> 0] \in StoredDeflection
BY DEF StoredDeflection, Reported

LEMMA UpdatedDeflectionType ==
    ASSUME NEW t \in SessionTelemetry PROVE UpdatedDeflection(t) \in StoredDeflection
BY DEF UpdatedDeflection, StoredDeflection, SessionTelemetry, Channels

(* A session begins with no telemetry and hears of it by the channels. *)
LEMMA ZeroIsSessionTelemetry == ZeroTelemetry \in SessionTelemetry
BY DEF ZeroTelemetry, SessionTelemetry, Reported, Channels

LEMMA ChannelKeepsSession ==
    ASSUME NEW t \in SessionTelemetry, NEW c \in Channels, NEW v \in ChannelValues[c]
    PROVE  [t EXCEPT ![c] = v] \in SessionTelemetry
<1>1. /\ t \in [Channels -> UNION {Reported(d) : d \in Channels}]
      /\ \A d \in Channels : t[d] \in Reported(d)
  BY DEF SessionTelemetry
<1>2. v \in Reported(c) /\ v \in UNION {Reported(d) : d \in Channels}
  BY DEF Reported
<1>3. [t EXCEPT ![c] = v] \in [Channels -> UNION {Reported(d) : d \in Channels}]
  BY <1>1, <1>2
<1>4. \A d \in Channels : [t EXCEPT ![c] = v][d] \in Reported(d)
  BY <1>1, <1>2
<1> QED BY <1>3, <1>4 DEF SessionTelemetry

(* The bounds of the two counters. *)
LEMMA Counters == ffb_rate \in 1 .. ffb_rate /\ 0 \in 0 .. 2
BY DEF ffb_rate

(* Without a wheel the end of the process changes nothing, and no call is made. *)
LEMMA GoneUnused ==
    ASSUME device = "none", Unused, WheelTypeOK, NEW killed \in BOOLEAN, Gone(killed)
    PROVE  UNCHANGED wheelVars
BY DEF WheelTypeOK, Unused, Gone, wheelVars, Idle

LEMMA UnusedIsStill == Unused => ~HandlerStep
BY DEF Unused, HandlerStep, Assign, Queue, Open, OpenFails, Begin, Write, WriteFails,
       Close, CloseFails

LEMMA GoneIsUnused ==
    ASSUME NEW killed \in BOOLEAN, Gone(killed), WheelTypeOK
    PROVE  Unused' /\ device' = "none" /\ Idle'
BY DEF Gone, Unused, Idle, WheelTypeOK

-----------------------------------------------------------------------------
(* Each step of the plugin is one its wheel's specification allows. *)
LEMMA SubmitIsUse ==
    ASSUME NEW h, NEW script \in Scripts, NEW settings, settings \in Settings \cup {forces},
           device # "none", Run(h, script, settings)
    PROVE  Use
BY DEF Use, Run

(* A handler without calls left that ends silent has ended silent. *)
LEMMA EndedSilent == Idle /\ EndsSilent => ~playing_
BY DEF Idle, EndsSilent, LastCallStops

(* The plugin is unloaded from a wheel it has stopped. *)
LEMMA UnloadedSilent ==
    ASSUME HandlerFits, QuietInPause, UnloadReturns, device # "none"
    PROVE  handler = "unload" /\ Idle /\ ~playing_
<1>1. handler = "unload" /\ Idle
  BY DEF UnloadReturns, Done
<1>2. EndsSilent
  BY <1>1 DEF QuietInPause
<1> QED BY <1>1, <1>2, EndedSilent

LEMMA StepIsWheelStep ==
    ASSUME WheelTypeOK, PluginInv, [Next]_vars
    PROVE  [WheelNext]_wheelVars
<1>1. CASE LoadPlugin
  BY <1>1 DEF LoadPlugin, WheelNext
<1>2. CASE InitCalibrates
  <2>1. device # "none" /\ Run("init", Calibrate, forces) /\ Calibrate \in Scripts
    BY <1>2 DEF InitCalibrates, Scripts
  <2> QED BY <2>1, SubmitIsUse DEF WheelNext
<1>3. CASE Paused
  <2>1. device # "none" /\ Run("pause", Reset, forces) /\ Reset \in Scripts
    BY <1>3 DEF Paused, Between, PluginInv, HandlerFits, Scripts
  <2> QED BY <2>1, SubmitIsUse DEF WheelNext
<1>4. CASE SubstanceUnavailable
  BY <1>4 DEF SubstanceUnavailable, Between, PluginInv, HandlerFits, WheelNext, Detach
<1>5. CASE FrameEndsUpdating
  <2> DEFINE p == LedPattern(telemetry.rpm)
             f == UpdatedForces(telemetry, prev_deflection)
  <2>1. f \in Settings /\ p \in Patterns
    BY <1>5, SettingsAllowed DEF FrameEndsUpdating, Between, PluginInv, PluginTypeOK
  <2>2. device # "none" /\ Run("tick", Tick(p), f)
    BY <1>5 DEF FrameEndsUpdating
  <2> HIDE DEF f, p
  <2>3. Tick(p) \in Scripts
    BY <2>1 DEF Scripts
  <2> QED BY <2>1, <2>2, <2>3, SubmitIsUse DEF WheelNext
<1>6. CASE Unload
  <2>1. device # "none" /\ Run("unload", Destructor, forces) /\ Destructor \in Scripts
    BY <1>6 DEF Unload, Scripts
  <2> QED BY <2>1, SubmitIsUse DEF WheelNext
<1>7. CASE UnloadReturns \/ Kill
  <2>1. PICK killed \in BOOLEAN : Gone(killed) /\ (killed \/ UnloadReturns)
    BY <1>7 DEF UnloadReturns, Kill
  <2>2. CASE device = "none"
    BY <2>1, <2>2, GoneUnused DEF PluginInv
  <2>3. CASE device # "none"
    <3>1. killed \/ (Idle /\ ~playing_)
      BY <2>1, <2>3, UnloadedSilent DEF PluginInv
    <3>2. Gone(TRUE)
      BY <2>1, <3>1 DEF Gone
    <3> QED BY <2>3, <3>2 DEF WheelNext, Detach
  <2> QED BY <2>2, <2>3
<1>8. CASE CallProceeds
  BY <1>8 DEF CallProceeds, WheelNext
<1>9. CASE \/ InitFails \/ Started \/ FrameStart \/ ChannelChanges \/ FrameEndsIdle \/ Shutdown
           \/ LoadReturns \/ InitReturns \/ PauseReturns \/ TickReturns \/ UNCHANGED vars
  BY <1>9 DEF InitFails, Started, FrameStart, ChannelChanges, FrameEndsIdle, Shutdown,
              LoadReturns, InitReturns, PauseReturns, TickReturns, vars
<1>10. CASE Unplugged
  BY <1>10 DEF Unplugged, WheelNext
<1> QED BY <1>1, <1>2, <1>3, <1>4, <1>5, <1>6, <1>7, <1>8, <1>9, <1>10 DEF Next, Returns

-----------------------------------------------------------------------------
(* Between two handlers nothing is under way that could start an effect. *)
LEMMA StillStartsNothing == ASSUME WheelTypeOK, WheelInv, Idle PROVE NothingStarts
BY BetweenHandlers, Nothing, NoCalls DEF NothingStarts, Idle

LEMMA PluginInitInv == Init => WheelTypeOK /\ WheelInv /\ PluginInv
<1> SUFFICES ASSUME Init PROVE WheelTypeOK /\ WheelInv /\ PluginInv
  OBVIOUS
<1>1. WheelInit
  BY DEF Init
<1>2. PluginTypeOK
  BY InitialTelemetryType, StillType, Counters DEF Init, PluginTypeOK, Phases, Handlers
<1>3. device = "none" /\ Unused /\ Idle
  BY <1>1 DEF WheelInit, Unused, Idle
<1>4. HandlerFits /\ QuietInPause
  BY <1>3 DEF Init, HandlerFits, QuietInPause, Unused, Between
<1>5. WheelTypeOK /\ WheelInv
  BY <1>1, InitType, InitInv
<1>6. NothingStarts /\ InitEndsInStop /\ GivesUpStopped
  BY <1>3, <1>5, StillStartsNothing DEF Init, InitEndsInStop, GivesUpStopped, Unused
<1> QED BY <1>2, <1>3, <1>4, <1>5, <1>6 DEF PluginInv

(* The plugin's own variables keep their types. *)
LEMMA PluginTypeStep ==
    ASSUME PluginTypeOK, [Next]_vars
    PROVE  PluginTypeOK'
<1>1. CASE LoadPlugin
  BY <1>1 DEF LoadPlugin, PluginTypeOK, stateVars, Phases, Handlers
<1>2. CASE InitCalibrates \/ Paused \/ Unload
  BY <1>2, Counters DEF InitCalibrates, Paused, Unload, Run, PluginTypeOK, stateVars, Handlers
<1>3. CASE FrameEndsUpdating
  <2>1. UpdatedDeflection(telemetry) \in StoredDeflection
    BY <1>3, UpdatedDeflectionType DEF FrameEndsUpdating, Between, PluginTypeOK
  <2> QED BY <1>3, <2>1, Counters DEF FrameEndsUpdating, Run, PluginTypeOK, Handlers
<1>4. CASE SubstanceUnavailable \/ UnloadReturns \/ Kill
  <2>1. \E p \in {"aborted", "unloaded", "crashed"} : NoProcess(p)
    BY <1>4 DEF SubstanceUnavailable, UnloadReturns, Kill
  <2> QED BY <2>1, InitialTelemetryType, StillType, Counters
          DEF NoProcess, PluginTypeOK, Phases, Handlers
<1>5. CASE FrameEndsIdle
  <2>1. ffb_rate_count' \in 1 .. ffb_rate
    BY <1>5 DEF FrameEndsIdle, PluginTypeOK, ffb_rate
  <2> QED BY <1>5, <2>1 DEF FrameEndsIdle, PluginTypeOK
<1>6. CASE ChannelChanges
  <2>1. telemetry' \in [Channels -> Int]
    BY <1>6, ChannelValuesAssumption DEF ChannelChanges, PluginTypeOK
  <2>2. telemetry' \in SessionTelemetry
    <3>1. telemetry \in SessionTelemetry
      BY <1>6 DEF ChannelChanges, Between, PluginTypeOK
    <3>2. PICK c \in Channels : \E v \in ChannelValues[c] : telemetry' = [telemetry EXCEPT ![c] = v]
      BY <1>6 DEF ChannelChanges
    <3> QED BY <3>1, <3>2, ChannelKeepsSession
  <2> QED BY <1>6, <2>1, <2>2 DEF ChannelChanges, PluginTypeOK, gameVars
<1>7. CASE InitReturns
  <2>1. telemetry' \in [Channels -> Int]
    BY <1>7 DEF InitReturns, PluginTypeOK, ZeroTelemetry
  <2> QED BY <1>7, <2>1, ZeroIsSessionTelemetry DEF InitReturns, PluginTypeOK, Phases, Handlers
<1>8. CASE TickReturns
  BY <1>8 DEF TickReturns, PluginTypeOK, Handlers
<1>9. CASE \/ InitFails \/ Started \/ FrameStart \/ Shutdown \/ CallProceeds
           \/ LoadReturns \/ PauseReturns \/ UNCHANGED vars
  BY <1>9 DEF InitFails, Started, FrameStart, Shutdown, LoadReturns, PauseReturns, CallProceeds,
              PluginTypeOK, stateVars, pluginVars, gameVars, vars, Phases, Handlers
<1>10. CASE Unplugged
  BY <1>10 DEF Unplugged, pluginVars, gameVars, stateVars, PluginTypeOK
<1> QED BY <1>1, <1>2, <1>3, <1>4, <1>5, <1>6, <1>7, <1>8, <1>9, <1>10 DEF Next, Returns

(* A step of a call is a step of a handler, on a wheel. *)
LEMMA CallsAreMade ==
    ASSUME WheelInv, PluginInv, CallProceeds
    PROVE  ~Idle /\ device # "none" /\ handler # "none" /\ device' = device
<1>1. ~Idle
  BY DEF CallProceeds, HandlerStep, Assign, Queue, Open, OpenFails, Begin, Write, WriteFails,
         Close, CloseFails, WheelInv, OneCallAtATime, Idle
<1>2. device' = device
  BY DEF CallProceeds, HandlerStep, Assign, Queue, Open, OpenFails, Begin, Write, WriteFails,
         Close, CloseFails
<1> QED BY <1>1, <1>2, UnusedIsStill DEF CallProceeds, PluginInv, HandlerFits

LEMMA HandlerFitsStep ==
    ASSUME WheelTypeOK, WheelInv, PluginInv, [Next]_vars
    PROVE  HandlerFits' /\ (device = "none" => Unused)'
<1> USE DEF PluginInv, HandlerFits
<1>1. CASE LoadPlugin
  <2>1. CASE device' = "none" /\ UNCHANGED <<handler, wheelVars>>
    BY <1>1, <2>1 DEF LoadPlugin, wheelVars, Unused, Idle
  <2>2. CASE Attach /\ handler' = "load"
    <3>1. device' # "none"
      BY <2>2, ConnectedAssumption DEF Attach
    <3> QED BY <1>1, <2>2, <3>1 DEF LoadPlugin
  <2> QED BY <1>1, <2>1, <2>2 DEF LoadPlugin
<1>2. CASE InitCalibrates \/ Paused \/ Unload \/ FrameEndsUpdating
  BY <1>2 DEF InitCalibrates, Paused, Unload, FrameEndsUpdating, Run, Between
<1>4. CASE SubstanceUnavailable \/ UnloadReturns \/ Kill
  <2>1. /\ \E killed \in BOOLEAN : Gone(killed)
        /\ \E p \in {"aborted", "unloaded", "crashed"} : NoProcess(p)
    BY <1>4 DEF SubstanceUnavailable, UnloadReturns, Kill
  <2>2. phase' \in {"aborted", "unloaded", "crashed"} /\ handler' = "none"
    BY <2>1 DEF NoProcess
  <2> QED BY <2>1, <2>2, GoneIsUnused
<1>5. CASE CallProceeds
  BY <1>5, CallsAreMade DEF CallProceeds, pluginVars, gameVars
<1>8. CASE \/ InitFails \/ Started \/ FrameStart \/ FrameEndsIdle \/ Shutdown \/ ChannelChanges
           \/ LoadReturns \/ InitReturns \/ PauseReturns \/ TickReturns \/ UNCHANGED vars
  BY <1>8 DEF InitFails, Started, FrameStart, FrameEndsIdle, Shutdown, ChannelChanges, LoadReturns,
              InitReturns, PauseReturns, TickReturns, Between, Done, wheelVars, pluginVars, gameVars,
              vars, Unused, Idle
<1>9. CASE Unplugged
  BY <1>9 DEF Unplugged, Unplug, pluginVars, gameVars, WheelTypeOK, Unused, Idle
<1> QED BY <1>1, <1>2, <1>4, <1>5, <1>8, <1>9 DEF Next, Returns

-----------------------------------------------------------------------------
(* What is left of a handler that ends silent ends silent. *)
LEMMA RestEndsSilent ==
    ASSUME WheelTypeOK, calls # <<>>, EndsSilent, calls' = Tail(calls),
           Head(calls).method \in Stopping => ~playing_',
           Head(calls).method \notin Starting \cup Stopping => playing_' = playing_
    PROVE  EndsSilent'
<1> DEFINE t == Tail(calls)
<1>1. /\ Head(calls) = calls[1] /\ 1 \in DOMAIN calls /\ DOMAIN calls \subseteq Nat \ {0}
      /\ \A i \in DOMAIN t : i \in Nat \ {0} /\ i + 1 \in DOMAIN calls /\ t[i] = calls[i + 1]
      /\ \A i \in DOMAIN calls : i = 1 \/ (i - 1 \in DOMAIN t /\ calls[i] = t[i - 1])
  <2>1. t \in Seq(CallType) /\ calls \in Seq(CallType)
    BY HeadTail DEF WheelTypeOK
  <2> QED BY <2>1, HeadTail
<1> HIDE DEF t
<1>2. CASE LastCallStops(calls)
  <2>1. PICK i \in DOMAIN calls :
               /\ calls[i].method \in Stopping
               /\ \A j \in DOMAIN calls : j > i => calls[j].method \notin Starting
    BY <1>2 DEF LastCallStops
  <2>2. CASE i = 1
    <3>1. ~Makes(t, Starting)
      BY <1>1, <2>1, <2>2 DEF Makes
    <3> QED BY <1>1, <2>1, <2>2, <3>1 DEF EndsSilent, t
  <2>3. CASE i # 1
    <3>1. i - 1 \in DOMAIN t /\ t[i - 1].method \in Stopping
      BY <1>1, <2>1, <2>3
    <3>2. ASSUME NEW j \in DOMAIN t, j > i - 1 PROVE t[j].method \notin Starting
      BY <1>1, <2>1, <3>2
    <3>3. calls' = t
      BY DEF t
    <3>4. LastCallStops(t)
      BY <3>1, <3>2 DEF LastCallStops
    <3>5. LastCallStops(calls)'
      BY <3>3, <3>4 DEF LastCallStops
    <3> QED BY <3>5 DEF EndsSilent
  <2> QED BY <2>2, <2>3
<1>3. CASE ~playing_ /\ ~Makes(calls, Starting)
  <2>1. ~Makes(t, Starting) /\ Head(calls).method \notin Starting
    BY <1>1, <1>3 DEF Makes
  <2> QED BY <1>3, <2>1 DEF EndsSilent, t
<1> QED BY <1>2, <1>3 DEF EndsSilent

LEMMA CallsEndSilent ==
    ASSUME WheelTypeOK, WheelInv, EndsSilent, HandlerStep, result',
           busy /\ Head(calls).method \in Stopping => ~playing_
    PROVE  EndsSilent'
<1>0. /\ \A m \in Stopping : FlagAfter(m) = FALSE
      /\ \A m : m \notin Starting \cup Stopping => FlagAfter(m) = playing_
  BY DEF FlagAfter
<1>1. CASE Assign
  <2>1. Assignments \cap Stopping = {}
    BY DEF Assignments, Stopping
  <2> QED BY <1>1, <2>1, RestEndsSilent DEF Assign
<1>2. CASE Queue
  BY <1>0, <1>2, RestEndsSilent DEF Queue
<1>3. CASE Open
  <2>1. calls' = calls /\ playing_' = FlagAfter(Head(calls).method) /\ calls # <<>>
    BY <1>3 DEF Open, Begin
  <2>2. CASE LastCallStops(calls)
    BY <2>1, <2>2 DEF EndsSilent
  <2>3. CASE ~playing_ /\ ~Makes(calls, Starting)
    <3>1. Head(calls).method \notin Starting
      BY <2>1, <2>3, RestOfCalls DEF WheelTypeOK
    <3> QED BY <2>1, <2>3, <3>1 DEF EndsSilent, FlagAfter
  <2> QED BY <2>2, <2>3 DEF EndsSilent
<1>4. CASE OpenFails
  <2>1. calls # <<>> /\ calls' = Tail(calls) /\ playing_' = FlagAfter(Head(calls).method)
    BY <1>4 DEF OpenFails, Begin, Return
  <2> QED BY <1>0, <2>1, RestEndsSilent
<1>5. CASE Write
  BY <1>5 DEF Write, EndsSilent
<1>6. CASE WriteFails \/ Close \/ CloseFails
  <2>1. calls # <<>> /\ calls' = Tail(calls) /\ playing_' = playing_ /\ busy
    BY <1>6 DEF WriteFails, Close, CloseFails, Return, WheelInv, OneCallAtATime, Idle
  <2> QED BY <2>1, RestEndsSilent
<1> QED BY <1>1, <1>2, <1>3, <1>4, <1>5, <1>6 DEF HandlerStep

(* A call in progress that stops has cleared the flag. *)
LEMMA StopClearsFlag ==
    ASSUME WheelTypeOK, WheelInv, HandlerStep,
           busy /\ Head(calls).method \in Stopping => ~playing_
    PROVE  (busy /\ Head(calls).method \in Stopping => ~playing_)'
<1>1. CASE Open
  BY <1>1 DEF Open, Begin, FlagAfter
<1>2. CASE OpenFails \/ WriteFails \/ Close \/ CloseFails
  BY <1>2 DEF OpenFails, WriteFails, Close, CloseFails, Return
<1>3. CASE Write
  BY <1>3 DEF Write
<1>4. CASE Assign \/ Queue
  BY <1>4, MethodKinds DEF Assign, Queue, WheelInv, OneCallAtATime
<1> QED BY <1>1, <1>2, <1>3, <1>4 DEF HandlerStep

(* Calibration and the pause handler end with the flag cleared. *)
LEMMA CalibrateEndsSilent == LastCallStops(Calibrate)
<1>1. DOMAIN Calibrate = 1 .. 17 /\ Calibrate[17].method = "stop_forces"
  BY DEF Calibrate, Must, Call
<1> HIDE DEF Calibrate
<1>2. 17 \in DOMAIN Calibrate /\ \A j \in DOMAIN Calibrate : ~(j > 17)
  BY <1>1
<1> QED BY <1>1, <1>2 DEF LastCallStops, Stopping

(* The three calls of calibrate whose failure ends it. *)
LEMMA CalibrateMusts ==
    \A i \in DOMAIN Calibrate : Calibrate[i].must =>
       \/ Calibrate[i].method \in Stopping
       \/ i = 1 /\ Calibrate[i].method \notin Starting
<1>1. \A m : Do(m).must = FALSE /\ Must(m).method = m
  BY DEF Do, Must, Call
<1>2. DOMAIN Calibrate = 1 .. 17
  BY DEF Calibrate
<1>3. /\ Calibrate[1] = Must("disable_autocenter") /\ Calibrate[2] = Must("stop_forces")
      /\ Calibrate[17] = Must("stop_forces")
      /\ \A i \in 3 .. 16 : ~Calibrate[i].must
  <2> HIDE DEF Do, Must
  <2>1. /\ Calibrate[1] = Must("disable_autocenter") /\ Calibrate[2] = Must("stop_forces")
        /\ Calibrate[17] = Must("stop_forces")
    BY DEF Calibrate
  <2>2. /\ Calibrate[3] = Do("turn right") /\ Calibrate[4] = Do("download_forces")
        /\ Calibrate[5] = Do("play_forces") /\ Calibrate[6] = Do("turn left")
        /\ Calibrate[7] = Do("refresh_forces") /\ Calibrate[8] = Do("stop_forces")
        /\ Calibrate[9] = Do("shake") /\ Calibrate[10] = Do("download_forces")
        /\ Calibrate[11] = Do("play_forces") /\ Calibrate[12] = Do("stop_forces")
        /\ Calibrate[13] = Do("shaken") /\ Calibrate[14] = Do("stop_forces")
        /\ Calibrate[15] = Do("enable_autocenter") /\ Calibrate[16] = Do("disable_autocenter")
    BY DEF Calibrate
  <2> HIDE DEF Calibrate
  <2>3. ASSUME NEW i \in 3 .. 16 PROVE ~Calibrate[i].must
    <3>1. \/ i = 3 \/ i = 4 \/ i = 5 \/ i = 6 \/ i = 7 \/ i = 8 \/ i = 9 \/ i = 10
          \/ i = 11 \/ i = 12 \/ i = 13 \/ i = 14 \/ i = 15 \/ i = 16
      OBVIOUS
    <3>2. \E m : Calibrate[i] = Do(m)
      BY <2>2, <3>1
    <3> QED BY <1>1, <3>2, Zenon
  <2> QED BY <2>1, <2>3
<1> HIDE DEF Calibrate, Do, Must
<1>4. ASSUME NEW i \in DOMAIN Calibrate, Calibrate[i].must PROVE i \in {1, 2, 17}
  <2>1. i \in 1 .. 17 /\ ~(i \in 3 .. 16)
    BY <1>1, <1>2, <1>3, <1>4
  <2> QED BY <2>1
<1> QED BY <1>1, <1>3, <1>4 DEF Starting, Stopping

LEMMA ResetEndsSilent == LastCallStops(Reset) /\ \A i \in DOMAIN Reset : ~Reset[i].must
<1>1. /\ DOMAIN Reset = 1 .. 4
      /\ Reset[1] = Do("q_disable_autocenter") /\ Reset[2] = Do("q_stop_forces")
      /\ Reset[3] = Do("q_set_led_pattern") /\ Reset[4] = Do("flush_reports")
  BY DEF Reset
<1>2. \A m : Do(m).method = m /\ Do(m).must = FALSE
  BY DEF Do, Call
<1> HIDE DEF Reset
<1>3. \A i \in DOMAIN Reset : i = 1 \/ i = 2 \/ i = 3 \/ i = 4
  BY <1>1
<1>4. 2 \in DOMAIN Reset /\ Reset[2].method \in Stopping
  BY <1>1, <1>2 DEF Stopping
<1>5. ASSUME NEW j \in DOMAIN Reset, j > 2 PROVE Reset[j].method \notin Starting
  <2>1. j = 3 \/ j = 4
    BY <1>3, <1>5
  <2> QED BY <1>1, <1>2, <2>1 DEF Starting
<1> QED BY <1>1, <1>2, <1>3, <1>4, <1>5 DEF LastCallStops

(* So does the destructor. *)
LEMMA DestructorEndsSilent ==
    LastCallStops(Destructor) /\ \A i \in DOMAIN Destructor : ~Destructor[i].must
<1>1. /\ DOMAIN Destructor = 1 .. 2
      /\ Destructor[1] = Do("stop_forces") /\ Destructor[2] = Do("enable_autocenter")
  BY DEF Destructor
<1>2. \A m : Do(m).method = m /\ Do(m).must = FALSE
  BY DEF Do, Call
<1> HIDE DEF Destructor
<1>3. \A i \in DOMAIN Destructor : i = 1 \/ i = 2
  BY <1>1
<1>4. 1 \in DOMAIN Destructor /\ Destructor[1].method \in Stopping
  BY <1>1, <1>2 DEF Stopping
<1>5. ASSUME NEW j \in DOMAIN Destructor, j > 1 PROVE Destructor[j].method \notin Starting
  <2>1. j = 2
    BY <1>3, <1>5
  <2> QED BY <1>1, <1>2, <2>1 DEF Starting
<1> QED BY <1>1, <1>2, <1>3, <1>4, <1>5 DEF LastCallStops

LEMMA QuietStep ==
    ASSUME WheelTypeOK, WheelInv, PluginInv, [Next]_vars
    PROVE  QuietInPause'
<1>1. ASSUME NEW h, NEW script, NEW settings, Run(h, script, settings)
      PROVE  busy' = FALSE /\ calls' = script /\ result' = TRUE /\ handler' = h
  BY <1>1, BetweenHandlers DEF Run, Submit, WheelTypeOK
<1>2. CASE LoadPlugin
  <2>1. handler = "none" /\ phase' = "loaded"
    BY <1>2 DEF LoadPlugin, PluginInv, HandlerFits
  <2>2. CASE UNCHANGED <<handler, wheelVars>>
    BY <2>1, <2>2 DEF wheelVars, PluginInv, QuietInPause, Between
  <2>3. CASE Attach /\ handler' = "load"
    <3>1. busy' = FALSE
      BY <2>3, BetweenHandlers DEF Attach, Submit, WheelTypeOK
    <3> QED BY <2>1, <2>3, <3>1 DEF QuietInPause, Between
  <2> QED BY <1>2, <2>2, <2>3 DEF LoadPlugin
<1>3. CASE InitCalibrates
  <2>1. Run("init", Calibrate, forces)
    BY <1>3 DEF InitCalibrates
  <2>2. busy' = FALSE /\ calls' = Calibrate /\ handler' = "init"
    BY <1>1, <2>1
  <2>3. LastCallStops(calls)'
    BY <2>2, CalibrateEndsSilent DEF LastCallStops
  <2>4. EndsSilent'
    BY <2>3 DEF EndsSilent
  <2> QED BY <2>2, <2>4 DEF QuietInPause, Between
<1>4. CASE Paused
  <2>1. Run("pause", Reset, forces)
    BY <1>4 DEF Paused
  <2>2. busy' = FALSE /\ calls' = Reset /\ handler' = "pause" /\ result' = TRUE
    BY <1>1, <2>1
  <2>3. LastCallStops(calls)' /\ (\A i \in DOMAIN calls : ~calls[i].must)'
    BY <2>2, ResetEndsSilent DEF LastCallStops
  <2>4. EndsSilent'
    BY <2>3 DEF EndsSilent
  <2> QED BY <2>2, <2>3, <2>4 DEF QuietInPause, Between
<1>5. CASE FrameEndsUpdating
  <2>1. busy' = FALSE /\ handler' = "tick"
    BY <1>1, <1>5 DEF FrameEndsUpdating
  <2> QED BY <2>1 DEF QuietInPause, Between
<1>6. CASE Unload
  <2>1. Run("unload", Destructor, forces)
    BY <1>6 DEF Unload
  <2>2. busy' = FALSE /\ calls' = Destructor /\ handler' = "unload" /\ result' = TRUE
    BY <1>1, <2>1
  <2>3. LastCallStops(calls)' /\ (\A i \in DOMAIN calls : ~calls[i].must)'
    BY <2>2, DestructorEndsSilent DEF LastCallStops
  <2>4. EndsSilent'
    BY <2>3 DEF EndsSilent
  <2> QED BY <2>2, <2>3, <2>4 DEF QuietInPause, Between
<1>7. CASE SubstanceUnavailable \/ UnloadReturns \/ Kill
  <2>1. /\ \E killed \in BOOLEAN : Gone(killed)
        /\ \E p \in {"aborted", "unloaded", "crashed"} : NoProcess(p)
    BY <1>7 DEF SubstanceUnavailable, UnloadReturns, Kill
  <2> QED BY <2>1 DEF Gone, NoProcess, QuietInPause, Between
<1>8. CASE CallProceeds
  <2>1. UNCHANGED <<handler, phase, g_telemetry_paused>> /\ handler # "none"
    BY <1>8, CallsAreMade DEF CallProceeds, pluginVars, gameVars
  <2>2. (busy /\ Head(calls).method \in Stopping => ~playing_)'
    BY <1>8, StopClearsFlag DEF CallProceeds, PluginInv, QuietInPause
  <2>3. result' => result
    BY <1>8 DEF CallProceeds, HandlerStep, Assign, Queue, Open, OpenFails, Write, WriteFails,
         Close, CloseFails, Return
  <2>4. handler \in {"init", "pause", "unload"} /\ result' => EndsSilent'
    BY <1>8, <2>3, CallsEndSilent DEF CallProceeds, PluginInv, QuietInPause
  <2>5. ASSUME handler \in {"pause", "unload"} PROVE result' /\ (\A i \in DOMAIN calls : ~calls[i].must)'
    <3>1. result /\ \A i \in DOMAIN calls : ~calls[i].must
      BY <2>5 DEF PluginInv, QuietInPause
    <3>2. calls # <<>> /\ calls \in Seq(CallType)
      BY <1>8, CallsAreMade DEF Idle, WheelTypeOK
    <3>3. ~Head(calls).must /\ \A i \in DOMAIN Tail(calls) : ~Tail(calls)[i].must
      BY <3>1, <3>2, HeadTail
    <3>4. result' /\ calls' \in {calls, Tail(calls)}
      BY <1>8, <3>1, <3>3 DEF CallProceeds, HandlerStep, Assign, Queue, Open, OpenFails, Begin,
           Write, WriteFails, Close, CloseFails, Return
    <3> QED BY <3>1, <3>3, <3>4
  <2> QED BY <2>1, <2>2, <2>4, <2>5 DEF QuietInPause, Between
<1>9. CASE LoadReturns \/ InitReturns \/ PauseReturns \/ TickReturns
  <2>1. handler' = "none" /\ Idle /\ UNCHANGED wheelVars
    BY <1>9 DEF LoadReturns, InitReturns, PauseReturns, TickReturns, Done
  <2>2. phase' = "active" /\ g_telemetry_paused' => ~playing_
    BY <1>9, EndedSilent DEF LoadReturns, InitReturns, PauseReturns, TickReturns, Done,
         PluginInv, HandlerFits, QuietInPause
  <2> QED BY <2>1, <2>2 DEF QuietInPause, Between, wheelVars, PluginInv
<1>10. CASE \/ InitFails \/ Started \/ FrameStart \/ FrameEndsIdle \/ Shutdown \/ ChannelChanges
            \/ UNCHANGED vars
  BY <1>10 DEF InitFails, Started, FrameStart, FrameEndsIdle, Shutdown, ChannelChanges, Between,
               wheelVars, pluginVars, gameVars, vars, PluginInv, QuietInPause, EndsSilent
<1>11. CASE Unplugged
  <2>1. UNCHANGED <<handler, phase, g_telemetry_paused, result, calls, playing_, busy>>
    BY <1>11 DEF Unplugged, Unplug, pluginVars, gameVars
  <2> QED BY <2>1 DEF PluginInv, QuietInPause, EndsSilent, Between
<1> QED BY <1>2, <1>3, <1>4, <1>5, <1>6, <1>7, <1>8, <1>9, <1>10, <1>11 DEF Next, Returns

-----------------------------------------------------------------------------
(* A handler without starting calls starts nothing in any of its steps. *)
LEMMA CallsStartNothing ==
    ASSUME WheelTypeOK, WheelInv, NothingStarts, HandlerStep
    PROVE  NothingStarts'
<1>0. calls # <<>> /\ calls \in Seq(CallType)
  BY DEF HandlerStep, Assign, Queue, Open, OpenFails, Begin, Write, WriteFails, Close, CloseFails,
         WheelTypeOK, WheelInv, OneCallAtATime, Idle
<1>1. Head(calls) \in CallType /\ Head(calls).method \notin Starting
  BY <1>0, HeadTail, RestOfCalls DEF NothingStarts
<1>2. ~Makes(Tail(calls), Starting) /\ ~Makes(<<>>, Starting)
  BY <1>0, RestOfCalls, NoCalls DEF NothingStarts
<1>3. CASE Assign
  BY <1>2, <1>3 DEF Assign, NothingStarts
<1>4. CASE Queue
  <2>1. Head(calls).method \in QueueMethods /\ QueuedStarting \subseteq Starting
    BY <1>4 DEF Queue, QueuedStarting, Starting
  <2>2. ~HasStart(Queued(Head(calls))) /\ Queued(Head(calls)) \in Seq(Commands)
    BY <1>1, <2>1, QueuedKind, QueuedType
  <2>3. ~HasStart(reports_ \o Queued(Head(calls)))
    BY <2>2, Parts DEF NothingStarts, WheelTypeOK
  <2> QED BY <1>2, <1>4, <2>3 DEF Queue, NothingStarts
<1>5. CASE Open
  <2>1. ~HasStart(Batch(Head(calls)))
    BY <1>1, <1>5, BatchKind DEF Open, Begin, NothingStarts, WheelInv
  <2> QED BY <1>5, <2>1 DEF Open, NothingStarts
<1>6. CASE Write
  <2>1. ~HasStart(Tail(tx))
    BY <1>6, Rest DEF Write, NothingStarts, WheelTypeOK
  <2> QED BY <1>6, <2>1 DEF Write, NothingStarts
<1>7. CASE OpenFails \/ WriteFails \/ Close \/ CloseFails
  <2>1. PICK ok \in BOOLEAN : \E undelivered : Return(ok, undelivered)
    BY <1>7 DEF OpenFails, WriteFails, Close, CloseFails
  <2>2. calls' \in {<<>>, Tail(calls)} /\ tx' = <<>> /\ reports_' \in {<<>>, reports_}
    BY <2>1 DEF Return
  <2> QED BY <1>2, <2>2, Nothing DEF NothingStarts
<1> QED BY <1>3, <1>4, <1>5, <1>6, <1>7 DEF HandlerStep

(* Only calibrate and refresh_forces start effects. *)
LEMMA ScriptsStartNothing ==
    /\ \A dev : ~Makes(Constructor(dev), Starting)
    /\ ~Makes(Reset, Starting) /\ ~Makes(Destructor, Starting)
<1>1. \A m : Do(m).method = m
  BY DEF Do, Call
<1>2. ASSUME NEW m1, NEW m2, NEW m3, NEW m4,
             m1 \notin Starting, m2 \notin Starting, m3 \notin Starting, m4 \notin Starting
      PROVE  /\ ~Makes(<<Do(m1), Do(m2)>>, Starting)
             /\ ~Makes(<<Do(m1), Do(m2), Do(m3)>>, Starting)
             /\ ~Makes(<<Do(m1), Do(m2), Do(m3), Do(m4)>>, Starting)
  <2> HIDE DEF Do
  <2> QED BY <1>1, <1>2 DEF Makes
<1>3. {"init_protocol", "disable_autocenter", "enable_autocenter", "stop_forces",
       "q_disable_autocenter", "q_stop_forces", "q_set_led_pattern", "flush_reports"}
         \cap Starting = {}
  BY DEF Starting
<1> QED BY <1>2, <1>3 DEF Constructor, Reset, Destructor

LEMMA StartsStep ==
    ASSUME WheelTypeOK, WheelInv, PluginInv, [Next]_vars
    PROVE  handler' \notin {"init", "tick"} => NothingStarts'
<1>1. ASSUME NEW script, NEW settings, Submit(script, settings), ~Makes(script, Starting)
      PROVE  NothingStarts'
  BY <1>1, BetweenHandlers, Nothing DEF Submit, NothingStarts
<1>2. CASE LoadPlugin
  <2>1. CASE UNCHANGED <<handler, wheelVars>>
    BY <2>1 DEF PluginInv, NothingStarts, wheelVars
  <2>2. CASE Attach
    BY <1>1, <2>2, ScriptsStartNothing DEF Attach
  <2> QED BY <1>2, <2>1, <2>2 DEF LoadPlugin
<1>3. CASE InitCalibrates \/ FrameEndsUpdating
  BY <1>3 DEF InitCalibrates, FrameEndsUpdating, Run
<1>4. CASE Paused
  BY <1>1, <1>4, ScriptsStartNothing DEF Paused, Run
<1>5. CASE Unload
  BY <1>1, <1>5, ScriptsStartNothing DEF Unload, Run
<1>6. CASE SubstanceUnavailable \/ UnloadReturns \/ Kill
  <2>1. calls' = <<>> /\ tx' = <<>> /\ reports_' = <<>>
    BY <1>6 DEF SubstanceUnavailable, UnloadReturns, Kill, Gone
  <2> QED BY <2>1, Nothing, NoCalls DEF NothingStarts
<1>7. CASE CallProceeds
  BY <1>7, CallsStartNothing DEF CallProceeds, PluginInv, pluginVars, gameVars
<1>8. CASE Returns /\ ~UnloadReturns
  <2>1. Idle /\ UNCHANGED wheelVars
    BY <1>8 DEF Returns, LoadReturns, InitReturns, PauseReturns, TickReturns, Done
  <2> QED BY <2>1, StillStartsNothing DEF NothingStarts, wheelVars
<1>9. CASE \/ InitFails \/ Started \/ FrameStart \/ FrameEndsIdle \/ Shutdown \/ ChannelChanges
           \/ UNCHANGED vars
  BY <1>9 DEF InitFails, Started, FrameStart, FrameEndsIdle, Shutdown, ChannelChanges,
              wheelVars, gameVars, pluginVars, vars, PluginInv, NothingStarts
<1>10. CASE Unplugged
  BY <1>10 DEF Unplugged, Unplug, pluginVars, gameVars, PluginInv, NothingStarts
<1> QED BY <1>2, <1>3, <1>4, <1>5, <1>6, <1>7, <1>8, <1>9, <1>10 DEF Next, Returns

(* A stop that has been written has stopped every effect. *)
LEMMA StopIsWritten ==
    ASSUME WheelTypeOK, WheelInv, InitEndsInStop, HandlerStep
    PROVE  (busy /\ Head(calls).method = "stop_forces" =>
              \/ tx = <<StopAll>>
              \/ tx = <<>> /\ hw.playing = {})'
<1>1. CASE Open
  BY <1>1 DEF Open, Begin, Batch
<1>2. CASE Write
  <2>1. SUFFICES ASSUME busy, Head(calls).method = "stop_forces"
                 PROVE  tx' = <<>> /\ hw'.playing = {}
    BY <1>2 DEF Write
  <2>2. tx = <<StopAll>>
    BY <1>2, <2>1 DEF Write, InitEndsInStop
  <2>3. Head(tx) = StopAll /\ Tail(tx) = <<>>
    BY <2>2
  <2>4. hw'.playing = {}
    BY <1>2, <2>3, WritePlaying, CommandKinds DEF Write
  <2> QED BY <1>2, <2>3, <2>4 DEF Write
<1>3. CASE OpenFails \/ WriteFails \/ Close \/ CloseFails
  BY <1>3 DEF OpenFails, WriteFails, Close, CloseFails, Return
<1>4. CASE Assign \/ Queue
  BY <1>4, MethodKinds DEF Assign, Queue, WheelInv, OneCallAtATime
<1> QED BY <1>1, <1>2, <1>3, <1>4 DEF HandlerStep

(* A call that returns to initialization leaves a stop to be made, or has    *)
(* been that stop.                                                          *)
LEMMA InitCallsEndInStop ==
    ASSUME WheelTypeOK, WheelInv, InitEndsInStop, HandlerStep, handler = "init", result'
    PROVE  IF Idle' THEN hw'.playing = {} ELSE calls'[Len(calls')] = Must("stop_forces")
<1>1. calls # <<>> /\ calls \in Seq(CallType) /\ result
  BY DEF HandlerStep, Assign, Queue, Open, OpenFails, Begin, Write, WriteFails, Close, CloseFails,
         Return, WheelTypeOK, WheelInv, OneCallAtATime, Idle
<1>2. calls[Len(calls)] = Must("stop_forces")
  BY <1>1 DEF InitEndsInStop, Idle
<1>3. /\ Tail(calls) # <<>> => Tail(calls)[Len(Tail(calls))] = Must("stop_forces")
      /\ Tail(calls) = <<>> => Head(calls) = Must("stop_forces")
  BY <1>1, <1>2, HeadTail
<1>4. /\ Must("stop_forces").method = "stop_forces" /\ Must("stop_forces").must = TRUE
      /\ "stop_forces" \notin Assignments \cup QueueMethods
  BY DEF Must, Call, Assignments, QueueMethods
<1>5. CASE Assign \/ Queue
  <2>1. calls' = Tail(calls) /\ Tail(calls) # <<>>
    BY <1>3, <1>4, <1>5 DEF Assign, Queue
  <2> QED BY <1>3, <2>1 DEF Idle
<1>6. CASE Open \/ Write
  <2>1. calls' = calls
    BY <1>6 DEF Open, Write
  <2> QED BY <1>1, <1>2, <2>1 DEF Idle
<1>7. CASE OpenFails \/ WriteFails \/ CloseFails
  <2>1. ~Head(calls).must /\ calls' = Tail(calls)
    BY <1>7 DEF OpenFails, WriteFails, CloseFails, Return
  <2> QED BY <1>3, <1>4, <2>1 DEF Idle
<1>8. CASE Close
  <2>1. busy /\ tx = <<>> /\ calls' = Tail(calls) /\ hw' = hw
    BY <1>8 DEF Close, Return
  <2>2. CASE Tail(calls) = <<>>
    <3>1. tx # <<StopAll>>
      BY <2>1
    <3> QED BY <1>3, <1>4, <2>1, <2>2, <3>1 DEF InitEndsInStop, Idle
  <2>3. CASE Tail(calls) # <<>>
    BY <1>3, <2>1, <2>3 DEF Idle
  <2> QED BY <2>2, <2>3
<1> QED BY <1>5, <1>6, <1>7, <1>8 DEF HandlerStep

LEMMA InitStopStep ==
    ASSUME WheelTypeOK, WheelInv, PluginInv, [Next]_vars
    PROVE  InitEndsInStop'
<1>1. Idle => ~busy
  BY DEF WheelInv, OneCallAtATime
<1>2. ASSUME NEW script, NEW settings, Submit(script, settings)
      PROVE  busy' = FALSE /\ calls' = script
  BY <1>1, <1>2 DEF Submit, WheelTypeOK
<1>3. CASE LoadPlugin
  <2>1. CASE UNCHANGED <<handler, wheelVars>>
    BY <2>1 DEF PluginInv, InitEndsInStop, Idle, wheelVars
  <2>2. CASE Attach /\ handler' = "load"
    <3>1. busy' = FALSE
      BY <1>2, <2>2 DEF Attach
    <3> QED BY <2>2, <3>1 DEF InitEndsInStop
  <2> QED BY <1>3, <2>1, <2>2 DEF LoadPlugin
<1>4. CASE InitCalibrates
  <2>1. busy' = FALSE /\ calls' = Calibrate
    BY <1>2, <1>4 DEF InitCalibrates, Run
  <2>2. Calibrate # <<>> /\ Calibrate[Len(Calibrate)] = Must("stop_forces")
    BY DEF Calibrate
  <2> QED BY <2>1, <2>2 DEF InitEndsInStop, Idle
<1>5. CASE Paused \/ Unload \/ FrameEndsUpdating
  <2>1. busy' = FALSE /\ handler' # "init"
    BY <1>2, <1>5 DEF Paused, Unload, FrameEndsUpdating, Run
  <2> QED BY <2>1 DEF InitEndsInStop
<1>6. CASE SubstanceUnavailable \/ UnloadReturns \/ Kill
  <2>1. busy' = FALSE /\ handler' = "none"
    BY <1>6 DEF SubstanceUnavailable, UnloadReturns, Kill, Gone, NoProcess
  <2> QED BY <2>1 DEF InitEndsInStop
<1>7. CASE CallProceeds
  <2>1. HandlerStep /\ InitEndsInStop /\ handler' = handler
    BY <1>7 DEF CallProceeds, PluginInv, pluginVars, gameVars
  <2> QED BY <2>1, StopIsWritten, InitCallsEndInStop DEF InitEndsInStop, Idle
<1>8. CASE Returns /\ ~UnloadReturns
  <2>1. handler' = "none" /\ UNCHANGED wheelVars
    BY <1>8 DEF Returns, LoadReturns, InitReturns, PauseReturns, TickReturns
  <2> QED BY <2>1 DEF PluginInv, InitEndsInStop, wheelVars
<1>9. CASE \/ InitFails \/ Started \/ FrameStart \/ FrameEndsIdle \/ Shutdown \/ ChannelChanges
           \/ UNCHANGED vars
  BY <1>9 DEF InitFails, Started, FrameStart, FrameEndsIdle, Shutdown, ChannelChanges,
              wheelVars, gameVars, pluginVars, vars, PluginInv, InitEndsInStop, Idle
<1>10. CASE Unplugged
  <2>1. hw'.playing = {} /\ UNCHANGED <<handler, result, calls, busy, tx>>
    BY <1>10 DEF Unplugged, Unplug, PowerOn, pluginVars, gameVars
  <2> QED BY <2>1 DEF PluginInv, InitEndsInStop, Idle
<1> QED BY <1>3, <1>4, <1>5, <1>6, <1>7, <1>8, <1>9, <1>10 DEF Next, Returns

(* A step of calibration that gives up leaves the wheel stopped, and one    *)
(* that does not leaves calls that do.                                      *)
LEMMA InitCallsGiveUpStopped ==
    ASSUME WheelTypeOK, WheelInv, QuietInPause, GivesUpStopped, HandlerStep, handler = "init"
    PROVE  /\ ~result' => Idle' /\ ~playing_'
           /\ \A i \in DOMAIN calls' : calls'[i].must =>
                \/ calls'[i].method \in Stopping
                \/ i = 1 /\ ~playing_' /\ calls'[i].method \notin Starting
<1>1. calls # <<>> /\ calls \in Seq(CallType) /\ result
  BY DEF HandlerStep, Assign, Queue, Open, OpenFails, Begin, Write, WriteFails, Close, CloseFails,
         WheelTypeOK, WheelInv, OneCallAtATime, GivesUpStopped, Idle
<1>2. /\ Head(calls).must =>
           Head(calls).method \in Stopping \/ (~playing_ /\ Head(calls).method \notin Starting)
      /\ \A i \in DOMAIN Tail(calls) :
           Tail(calls)[i].must => Tail(calls)[i].method \in Stopping
  <2>1. /\ 1 \in DOMAIN calls /\ Head(calls) = calls[1]
        /\ \A i \in DOMAIN Tail(calls) : /\ i \in Nat \ {0} /\ i + 1 \in DOMAIN calls
                                        /\ Tail(calls)[i] = calls[i + 1]
    BY <1>1, HeadTail
  <2>2. \A i \in DOMAIN calls : calls[i].must =>
           \/ calls[i].method \in Stopping
           \/ i = 1 /\ ~playing_ /\ calls[i].method \notin Starting
    BY DEF GivesUpStopped
  <2>3. \A i \in Nat \ {0} : i + 1 # 1
    OBVIOUS
  <2> QED BY <2>1, <2>2, <2>3
<1>3. CASE Assign \/ Queue
  <2>1. calls' = Tail(calls) /\ result' = result
    BY <1>3 DEF Assign, Queue
  <2> QED BY <1>1, <1>2, <2>1
<1>4. CASE Open
  <2>1. calls' = calls /\ result' = result /\ playing_' = FlagAfter(Head(calls).method)
    BY <1>4 DEF Open, Begin
  <2>2. calls[1] = Head(calls)
    BY <1>1
  <2> QED BY <1>1, <1>2, <2>1, <2>2 DEF GivesUpStopped, FlagAfter
<1>5. CASE Write
  BY <1>1, <1>5 DEF Write, GivesUpStopped
<1>6. CASE OpenFails \/ WriteFails \/ Close \/ CloseFails
  <2>1. PICK ok \in BOOLEAN : \E undelivered : Return(ok, undelivered)
    BY <1>6 DEF OpenFails, WriteFails, Close, CloseFails
  <2>2. playing_' = FlagAfter(Head(calls).method) \/ (busy /\ playing_' = playing_)
    BY <1>6 DEF OpenFails, Begin, WriteFails, Close, CloseFails, WheelInv, OneCallAtATime
  <2>3. CASE ok \/ ~Head(calls).must
    <3>1. calls' = Tail(calls) /\ result'
      BY <1>1, <2>1, <2>3 DEF Return
    <3> QED BY <1>2, <3>1
  <2>4. CASE ~ok /\ Head(calls).must
    <3>1. calls' = <<>>
      BY <2>1, <2>4 DEF Return
    <3>2. ~playing_'
      BY <1>2, <2>2, <2>4 DEF FlagAfter, QuietInPause
    <3> QED BY <3>1, <3>2 DEF Idle
  <2> QED BY <2>3, <2>4
<1> QED BY <1>3, <1>4, <1>5, <1>6 DEF HandlerStep

LEMMA GivesUpStep ==
    ASSUME WheelTypeOK, WheelInv, PluginInv, [Next]_vars
    PROVE  GivesUpStopped'
<1>1. CASE LoadPlugin
  <2>1. ~playing_ /\ handler = "none"
    BY <1>1 DEF LoadPlugin, PluginInv, HandlerFits, Unused
  <2>2. playing_' = playing_ /\ handler' # "init"
    BY <1>1, <2>1 DEF LoadPlugin, Attach, Submit, wheelVars
  <2> QED BY <2>1, <2>2 DEF GivesUpStopped
<1>2. CASE InitCalibrates
  <2>1. ~playing_
    BY <1>2 DEF InitCalibrates, Between, PluginInv, GivesUpStopped
  <2>2. calls' = Calibrate /\ result' = TRUE /\ playing_' = playing_ /\ handler' = "init"
    BY <1>2 DEF InitCalibrates, Run, Submit
  <2>3. \A i \in DOMAIN Calibrate : Calibrate[i].must =>
          \/ Calibrate[i].method \in Stopping
          \/ i = 1 /\ Calibrate[i].method \notin Starting
    BY CalibrateMusts
  <2> QED BY <2>1, <2>2, <2>3 DEF GivesUpStopped
<1>3. CASE Paused \/ Unload \/ FrameEndsUpdating
  <2>1. handler' # "init" /\ phase' # "loaded" /\ playing_' = playing_
    BY <1>3 DEF Paused, Unload, FrameEndsUpdating, Run, Submit, Between
  <2>2. phase' = "failed" => phase = "failed" /\ handler = "none"
    BY <1>3 DEF Paused, Unload, FrameEndsUpdating, Between
  <2> QED BY <2>1, <2>2 DEF GivesUpStopped, PluginInv
<1>4. CASE SubstanceUnavailable \/ UnloadReturns \/ Kill
  <2>1. ~playing_' /\ handler' = "none"
    BY <1>4 DEF SubstanceUnavailable, UnloadReturns, Kill, Gone, NoProcess
  <2> QED BY <2>1 DEF GivesUpStopped
<1>5. CASE CallProceeds
  <2>1. HandlerStep /\ GivesUpStopped /\ QuietInPause /\ UNCHANGED <<handler, phase>>
    BY <1>5 DEF CallProceeds, PluginInv, pluginVars, gameVars
  <2>2. CASE handler = "init"
    BY <2>1, <2>2, InitCallsGiveUpStopped DEF GivesUpStopped, Idle
  <2>3. CASE phase \in {"loaded", "failed"} /\ handler # "init"
    <3>1. ~playing_ /\ NothingStarts
      BY <2>1, <2>3 DEF PluginInv, HandlerFits, GivesUpStopped
    <3>2. calls # <<>> => Head(calls).method \notin Starting
      BY <3>1, RestOfCalls DEF NothingStarts, WheelTypeOK
    <3>3. ~playing_'
      BY <2>1, <3>1, <3>2 DEF HandlerStep, Assign, Queue, Open, OpenFails, Begin, Write,
         WriteFails, Close, CloseFails, FlagAfter
    <3> QED BY <2>1, <2>3, <3>3 DEF GivesUpStopped
  <2> QED BY <2>1, <2>2, <2>3 DEF GivesUpStopped
<1>6. CASE LoadReturns \/ InitReturns \/ PauseReturns \/ TickReturns
  <2>1. phase' \in {"loaded", "failed"} =>
          \/ phase' = phase /\ handler = "load"
          \/ handler = "init" /\ ~result
    BY <1>6 DEF LoadReturns, InitReturns, PauseReturns, TickReturns, Done, PluginInv, HandlerFits
  <2>2. handler' = "none" /\ UNCHANGED wheelVars
    BY <1>6 DEF LoadReturns, InitReturns, PauseReturns, TickReturns
  <2> QED BY <2>1, <2>2 DEF PluginInv, GivesUpStopped, wheelVars
<1>7. CASE \/ InitFails \/ Started \/ FrameStart \/ FrameEndsIdle \/ Shutdown \/ ChannelChanges
           \/ UNCHANGED vars
  BY <1>7 DEF InitFails, Started, FrameStart, FrameEndsIdle, Shutdown, ChannelChanges, Between,
              wheelVars, gameVars, pluginVars, vars, PluginInv, GivesUpStopped, Idle
<1>8. CASE Unplugged
  <2>1. UNCHANGED <<handler, phase, result, calls, playing_>>
    BY <1>8 DEF Unplugged, Unplug, pluginVars, gameVars
  <2> QED BY <2>1 DEF PluginInv, GivesUpStopped, Idle
<1> QED BY <1>1, <1>2, <1>3, <1>4, <1>5, <1>6, <1>7, <1>8 DEF Next, Returns

(* The invariants of the plugin and of its wheel hold together. *)
LEMMA PluginNextInv ==
    WheelTypeOK /\ WheelInv /\ PluginInv /\ [Next]_vars
      => (WheelTypeOK /\ WheelInv /\ PluginInv)' /\ [WheelNext]_wheelVars
<1> SUFFICES ASSUME WheelTypeOK, WheelInv, PluginInv, [Next]_vars
             PROVE  /\ WheelTypeOK' /\ WheelInv' /\ PluginInv'
                    /\ [WheelNext]_wheelVars
  OBVIOUS
<1>1. [WheelNext]_wheelVars
  BY StepIsWheelStep
<1>2. WheelTypeOK' /\ WheelInv'
  BY <1>1, NextInv
<1>3. PluginTypeOK'
  BY PluginTypeStep DEF PluginInv
<1>4. HandlerFits' /\ (device = "none" => Unused)'
  BY HandlerFitsStep
<1>5. QuietInPause'
  BY QuietStep
<1>6. handler' \notin {"init", "tick"} => NothingStarts'
  BY StartsStep
<1>7. InitEndsInStop'
  BY InitStopStep
<1>8. GivesUpStopped'
  BY GivesUpStep
<1> QED BY <1>1, <1>2, <1>3, <1>4, <1>5, <1>6, <1>7, <1>8 DEF PluginInv

THEOREM PluginInvariant == Safety => [](WheelTypeOK /\ WheelInv /\ PluginInv)
<1>1. Init => WheelTypeOK /\ WheelInv /\ PluginInv
  BY PluginInitInv
<1>2. WheelTypeOK /\ WheelInv /\ PluginInv /\ [Next]_vars
        => (WheelTypeOK /\ WheelInv /\ PluginInv)'
  BY PluginNextInv
<1> QED BY <1>1, <1>2, PTL DEF Safety

(* Type correctness of the plugin (fffb.cxx:34-40). *)
THEOREM PluginTypeCorrect == Safety => []PluginTypeOK
<1>1. PluginInv => PluginTypeOK
  BY DEF PluginInv
<1>2. Safety => [](WheelTypeOK /\ WheelInv /\ PluginInv)
  BY PluginInvariant
<1> QED BY <1>1, <1>2, PTL

(* An effect starts only in calibration or in a tick of a driving player    *)
(* (fffb.cxx:70-81, 112-165).                                               *)
THEOREM PluginStarts == Safety => EffectsOnlyWhenDriving
<1>1. Safety => [](WheelTypeOK /\ WheelInv /\ PluginInv)
  BY PluginInvariant
<1>2. WheelTypeOK /\ WheelInv /\ PluginInv /\ [Next]_vars
        => [ \/ hw.playing' \subseteq hw.playing
             \/ handler = "init"
             \/ handler = "tick" /\ phase = "active" /\ ~g_telemetry_paused ]_vars
  <2> SUFFICES ASSUME WheelTypeOK, WheelInv, PluginInv, Next, handler \notin {"init", "tick"}
               PROVE  hw'.playing \subseteq hw.playing
    BY DEF PluginInv, HandlerFits
  <2>1. ~HasStart(tx)
    BY DEF PluginInv, NothingStarts
  <2>2. tx # <<>> => Execute(hw, Head(tx)).playing \subseteq hw.playing
    BY <2>1, WritePlaying, Rest, ExecutePlaying
  <2>3. CASE CallProceeds
    BY <2>2, <2>3 DEF CallProceeds, HandlerStep, Assign, Queue, Open, OpenFails, Begin, Write,
         WriteFails, Close, CloseFails
  <2>4. CASE Unplugged
    BY <2>4 DEF Unplugged, Unplug, PowerOn
  <2>5. CASE ~CallProceeds /\ ~Unplugged
    BY <2>5 DEF Next, Returns, LoadPlugin, Attach, InitFails, InitCalibrates, Started, Paused,
         FrameStart, ChannelChanges, SubstanceUnavailable, FrameEndsIdle, FrameEndsUpdating,
         Shutdown, Unload, Kill, LoadReturns, InitReturns, PauseReturns, TickReturns,
         UnloadReturns, Run, Submit, Gone, wheelVars
  <2> QED BY <2>3, <2>4, <2>5
<1> QED BY <1>1, <1>2, PTL DEF Safety, EffectsOnlyWhenDriving

(* A successful initialization leaves no effect playing, however many of     *)
(* calibrate's calls failed (wheel.hxx:139-205).                             *)
THEOREM PluginInitIsSilent == Safety => InitOkIsSilent
<1>1. Safety => [](WheelTypeOK /\ WheelInv /\ PluginInv)
  BY PluginInvariant
<1>2. PluginInv /\ [Next]_vars => [phase # "active" /\ phase' = "active" => hw.playing = {}]_vars
  <2> SUFFICES ASSUME PluginInv, Next, phase # "active", phase' = "active"
               PROVE  hw.playing = {}
    OBVIOUS
  <2>1. InitReturns
    BY DEF Next, Returns, LoadPlugin, InitFails, InitCalibrates, Started, Paused, FrameStart,
         ChannelChanges, SubstanceUnavailable, FrameEndsIdle, FrameEndsUpdating, Shutdown, Unload,
         Kill, LoadReturns, PauseReturns, TickReturns, UnloadReturns, CallProceeds, NoProcess,
         Unplugged, gameVars, pluginVars
  <2> QED BY <2>1 DEF InitReturns, Done, PluginInv, InitEndsInStop
<1> QED BY <1>1, <1>2, PTL DEF Safety, InitOkIsSilent

(* The plugin implements the wheel's specification, whatever channel values *)
(* the game delivers and however many HID calls fail (fffb.cxx:101-182).     *)
THEOREM PluginImplementsWheel == Safety => ImplementsWheel
<1>1. Safety => [](WheelTypeOK /\ WheelInv /\ PluginInv)
  BY PluginInvariant
<1>2. WheelTypeOK /\ WheelInv /\ PluginInv /\ [Next]_vars => [WheelNext]_wheelVars
  BY PluginNextInv
<1>3. Init => WheelInit
  BY DEF Init
<1> QED BY <1>1, <1>2, <1>3, PTL DEF Safety, ImplementsWheel, WheelSafety

(* No command of the plugin is changed on its way to the device: what the   *)
(* simulator computes from any telemetry, and what loading, calibration,    *)
(* pauses and unloading send, fits the reports and is read as it was meant  *)
(* (simulator.hxx:108-300, protocol.hxx:172-465).                           *)
THEOREM PluginReportsArrive == Safety => []ReportsArrive
BY PluginImplementsWheel, WheelReportsArrive, PTL DEF ImplementsWheel

(* No handler of the plugin keeps the game waiting: whatever fails, it has  *)
(* returned after a bounded number of steps (fffb.cxx:70-182, 230-317).     *)
THEOREM PluginHandlersAreBounded == Safety => HandlersAreBounded
BY PluginImplementsWheel, WheelIsBounded, PTL DEF ImplementsWheel

-----------------------------------------------------------------------------
(* What a step of a call may do to the effects and the lost stop. *)
LEMMA CallFeels ==
    ASSUME WheelTypeOK, WheelInv, HandlerStep
    PROVE  /\ hw'.playing \subseteq Slots
           /\ lostStop' \in {lostStop, TRUE} \/ (hw'.playing = {} /\ lostStop' = FALSE)
           /\ ~HasStart(tx) => hw'.playing \subseteq hw.playing
<1>1. hw'.playing \subseteq Slots
  <2>1. WheelTypeOK'
    BY HandlerType DEF WheelInv
  <2> QED BY <2>1 DEF WheelTypeOK, Hardware
<1>2. tx # <<>> => /\ ~HasStart(tx) => Execute(hw, Head(tx)).playing \subseteq hw.playing
                   /\ Head(tx).cmd = "STOP_FORCE" => Execute(hw, Head(tx)).playing = {}
  BY WritePlaying, Rest, ExecutePlaying DEF WheelInv, WheelTypeOK
<1>3. hw' = hw \/ (tx # <<>> /\ hw' = Execute(hw, Head(tx)))
  BY DEF HandlerStep, Assign, Queue, Open, OpenFails, Begin, Write, WriteFails, Close, CloseFails
<1>4. ~HasStart(tx) => hw'.playing \subseteq hw.playing
  BY <1>2, <1>3
<1>5. lostStop' \in {lostStop, TRUE} \/ (hw'.playing = {} /\ lostStop' = FALSE)
  <2>1. CASE Write
    <3>1. CASE Head(tx).cmd = "STOP_FORCE"
      <4>1. lostStop' = FALSE
        BY <2>1, <3>1 DEF Write
      <4>2. tx # <<>> /\ hw' = Execute(hw, Head(tx))
        BY <2>1 DEF Write
      <4>3. hw'.playing = {}
        BY <1>2, <3>1, <4>2
      <4> QED BY <4>1, <4>3
    <3>2. CASE Head(tx).cmd # "STOP_FORCE"
      <4>1. lostStop' = lostStop
        BY <2>1, <3>2 DEF Write, WheelTypeOK
      <4> QED BY <4>1
    <3> QED BY <3>1, <3>2
  <2>2. CASE ~Write
    <3>1. lostStop' = lostStop \/ \E u : lostStop' = (lostStop \/ HasStop(u))
      BY <2>2 DEF HandlerStep, Assign, Queue, Open, OpenFails, Begin, WriteFails, Close,
         CloseFails, Return
    <3>2. lostStop' \in {lostStop, TRUE}
      BY <3>1 DEF WheelTypeOK
    <3> QED BY <3>2
  <2> QED BY <2>1, <2>2
<1> QED BY <1>1, <1>4, <1>5

(* The end of the process keeps the device and, unless it was a kill in      *)
(* use, leaves it silent or with a lost stop.                               *)
LEMMA GoneFeels ==
    ASSUME WheelTypeOK, WheelInv, NEW killed \in BOOLEAN, Gone(killed),
           killed \/ (Idle /\ ~playing_)
    PROVE  /\ UNCHANGED <<hw, lostStop>>
           /\ abandoned' = (abandoned \/ playing_ \/ ~Idle)
           /\ ~abandoned' => hw.playing = {} \/ lostStop
<1>1. UNCHANGED <<hw, lostStop>> /\ abandoned' = (abandoned \/ playing_ \/ ~Idle)
  BY DEF Gone, WheelTypeOK
<1>2. Idle /\ ~playing_ /\ ~lostStop /\ ~abandoned => hw.playing = {}
  BY BetweenHandlers
<1> QED BY <1>1, <1>2

LEMMA ModeIs ==
    /\ abandoned => Mode = "dead"
    /\ ~abandoned /\ handler = "load" => Mode = "loading"
    /\ ~abandoned /\ handler = "init" => Mode = "calibrating"
    /\ ~abandoned /\ handler = "pause" => Mode = "pausing"
    /\ ~abandoned /\ handler = "unload" => Mode = "leaving"
    /\ ~abandoned /\ handler \in {"none", "tick"} =>
         /\ phase = "active" => Mode = IF g_telemetry_paused THEN "paused" ELSE "driving"
         /\ phase = "shut" => Mode = "leaving"
         /\ phase \notin {"active", "shut"} => Mode = "off"
BY DEF Mode, Resting

LEMMA ModeNext ==
    /\ abandoned' => Mode' = "dead"
    /\ ~abandoned' /\ handler' = "load" => Mode' = "loading"
    /\ ~abandoned' /\ handler' = "init" => Mode' = "calibrating"
    /\ ~abandoned' /\ handler' = "pause" => Mode' = "pausing"
    /\ ~abandoned' /\ handler' = "unload" => Mode' = "leaving"
    /\ ~abandoned' /\ handler' \in {"none", "tick"} =>
         /\ phase' = "active" => Mode' = IF g_telemetry_paused' THEN "paused" ELSE "driving"
         /\ phase' = "shut" => Mode' = "leaving"
         /\ phase' \notin {"active", "shut"} => Mode' = "off"
BY DEF Mode, Resting

(* A process that has found a wheel is the one that uses it.                 *)
LEMMA UsedIsNotAbandoned ==
    ASSUME WheelTypeOK, PluginInv
    PROVE  /\ device # "none" => ~abandoned
           /\ handler # "none" \/ phase \in {"active", "shut"} => device # "none" /\ ~abandoned
BY DEF WheelTypeOK, PluginInv, HandlerFits

(* Only a process that plays or commands leaves the wheel abandoned.        *)
LEMMA KilledInUse ==
    ASSUME WheelTypeOK, PluginInv, device # "none", playing_ \/ ~Idle
    PROVE  Mode \in {"loading", "calibrating", "pausing", "driving", "leaving"}
<1>1. ~abandoned
  BY UsedIsNotAbandoned
<1>2. handler \in Handlers /\ HandlerFits /\ QuietInPause /\ GivesUpStopped /\ phase \in Phases
  BY DEF PluginInv, PluginTypeOK
<1>3. CASE handler \in {"load", "init", "pause", "unload"}
  BY <1>1, <1>3, ModeIs
<1>4. CASE handler = "tick"
  BY <1>1, <1>2, <1>4, ModeIs DEF HandlerFits
<1>5. CASE handler = "none"
  <2>1. playing_
    BY <1>2, <1>5 DEF HandlerFits
  <2>2. phase \notin {"loaded", "failed", "unloaded", "crashed", "aborted"}
    BY <1>2, <1>5, <2>1 DEF GivesUpStopped, HandlerFits
  <2>3. phase = "active" => ~g_telemetry_paused
    BY <1>2, <1>5, <2>1 DEF QuietInPause, Between
  <2> QED BY <1>1, <1>2, <1>5, <2>2, <2>3, ModeIs DEF Phases
<1> QED BY <1>2, <1>3, <1>4, <1>5 DEF Handlers

(* Each step of the plugin is one the promise to the driver allows. *)
LEMMA StepIsFeedbackStep ==
    ASSUME WheelTypeOK, WheelInv, PluginInv, [Next]_vars
    PROVE  [FF!FFNext]_(FF!ffVars)
<1> USE DEF FF!Moves, FF!Silent, FF!ffVars
<1>0. /\ lostStop \in BOOLEAN /\ hw.playing \subseteq Slots /\ HandlerFits
      /\ handler \in Handlers /\ phase \in Phases
      /\ Idle /\ ~playing_ /\ ~lostStop /\ ~abandoned => hw.playing = {}
  BY BetweenHandlers DEF WheelTypeOK, Hardware, PluginInv, PluginTypeOK
<1>u. /\ device # "none" => ~abandoned
      /\ handler # "none" \/ phase \in {"active", "shut"} => device # "none" /\ ~abandoned
  BY UsedIsNotAbandoned
<1>1. CASE CallProceeds
  <2>1. HandlerStep /\ Mode' = Mode /\ handler # "none" /\ ~abandoned
    <3>1. HandlerStep /\ handler # "none" /\ UNCHANGED <<handler, phase, g_telemetry_paused>>
      BY <1>1, CallsAreMade DEF CallProceeds, pluginVars, gameVars
    <3>2. abandoned' = abandoned
      BY <3>1 DEF HandlerStep, Assign, Queue, Open, OpenFails, Begin, Write, WriteFails, Close,
                  CloseFails
    <3> QED BY <1>u, <3>1, <3>2 DEF Mode, Resting
  <2>2. CASE handler \in {"init", "tick"}
    <3>1. Mode \in {"calibrating", "driving"}
      BY <1>0, <2>1, <2>2, ModeIs DEF HandlerFits
    <3>2. FF!Play \/ FF!Quiet
      BY <2>1, <3>1, CallFeels DEF FF!Play, FF!Quiet
    <3> QED BY <3>2 DEF FF!FFNext
  <2>3. CASE handler \notin {"init", "tick"}
    <3>1. Mode # "paused"
      BY <1>0, <2>1, <2>3, ModeIs DEF Handlers
    <3>2. ~HasStart(tx)
      BY <2>3 DEF PluginInv, NothingStarts
    <3>3. FF!Quiet \/ FF!LoseStop
      BY <2>1, <3>1, <3>2, CallFeels DEF FF!Quiet, FF!LoseStop
    <3> QED BY <3>3 DEF FF!FFNext
  <2> QED BY <2>2, <2>3
<1>2. CASE InitReturns
  <2>1. /\ Mode = "calibrating" /\ UNCHANGED <<hw, lostStop, abandoned>>
        /\ ~abandoned /\ handler' = "none"
    BY <1>2, <1>u, ModeIs DEF InitReturns, Done, wheelVars
  <2>2. CASE result
    <3>1. Mode' = "paused" /\ hw.playing = {}
      BY <1>2, <2>1, <2>2, ModeNext DEF InitReturns, Done, PluginInv, InitEndsInStop
    <3>2. FF!Ready
      BY <2>1, <3>1 DEF FF!Ready
    <3> QED BY <3>2 DEF FF!FFNext
  <2>3. CASE ~result
    <3>1. Mode' = "off" /\ Idle /\ ~playing_
      BY <1>2, <2>1, <2>3, ModeNext DEF InitReturns, Done, PluginInv, GivesUpStopped
    <3>2. FF!End
      BY <1>0, <2>1, <3>1 DEF FF!End, FF!Modes
    <3> QED BY <3>2 DEF FF!FFNext
  <2> QED BY <2>2, <2>3
<1>3. CASE PauseReturns
  <2>1. /\ handler = "pause" /\ handler' = "none" /\ UNCHANGED <<hw, lostStop, abandoned>>
        /\ phase' = phase /\ g_telemetry_paused' = g_telemetry_paused
    BY <1>3 DEF PauseReturns, Done, wheelVars
  <2>2. phase = "active" /\ g_telemetry_paused /\ ~abandoned
    BY <1>0, <1>u, <2>1 DEF HandlerFits
  <2>3. Mode = "pausing" /\ Mode' = "paused"
    BY <2>1, <2>2, ModeIs, ModeNext
  <2>4. hw.playing = {} \/ lostStop
    BY <1>0, <1>3, <2>2, EndedSilent DEF PauseReturns, Done, PluginInv, QuietInPause
  <2>5. FF!Silenced
    BY <2>1, <2>3, <2>4 DEF FF!Silenced
  <2> QED BY <2>5 DEF FF!FFNext
<1>4. CASE SubstanceUnavailable \/ Kill
  <2>1. Gone(TRUE) /\ \E p \in {"aborted", "crashed"} : NoProcess(p)
    BY <1>4 DEF SubstanceUnavailable, Kill
  <2>2. /\ UNCHANGED <<hw, lostStop>> /\ abandoned' = (abandoned \/ playing_ \/ ~Idle)
        /\ ~abandoned' => hw.playing = {} \/ lostStop
    BY <2>1, GoneFeels
  <2>3. handler' = "none" /\ phase' \in {"aborted", "crashed"}
    BY <2>1 DEF NoProcess
  <2>4. Mode' = IF abandoned' THEN "dead" ELSE "off"
    BY <2>3, ModeNext
  <2>5. CASE device = "none"
    <3>1. ~playing_ /\ Idle
      BY <2>5 DEF PluginInv, Unused, Idle
    <3>2. Mode = IF abandoned THEN "dead" ELSE "off"
      BY <1>u, <2>5, ModeIs
    <3> QED BY <2>2, <2>4, <3>1, <3>2
  <2>6. CASE device # "none" /\ (playing_ \/ ~Idle)
    <3>1. Mode \in {"loading", "calibrating", "pausing", "driving", "leaving"}
      BY <2>6, KilledInUse
    <3>2. FF!Die
      BY <2>2, <2>4, <2>6, <3>1 DEF FF!Die, FF!Modes
    <3> QED BY <3>2 DEF FF!FFNext
  <2>7. CASE device # "none" /\ ~playing_ /\ Idle
    <3>1. ~abandoned /\ Mode' = "off" /\ (hw.playing = {} \/ lostStop)
      BY <1>u, <2>2, <2>4, <2>7
    <3>2. Mode \in FF!Modes \ {"dead"}
      BY <1>0, <3>1, ModeIs DEF FF!Modes, Handlers
    <3>3. Mode = "off" \/ FF!End
      BY <2>2, <3>1, <3>2 DEF FF!End
    <3> QED BY <2>2, <3>1, <3>3 DEF FF!FFNext
  <2> QED BY <2>5, <2>6, <2>7
<1>13. CASE UnloadReturns
  <2>1. Gone(FALSE) /\ NoProcess("unloaded")
    BY <1>13 DEF UnloadReturns
  <2>2. handler' = "none" /\ phase' = "unloaded"
    BY <2>1 DEF NoProcess
  <2>3. CASE device = "none"
    <3>1. UNCHANGED wheelVars
      BY <2>1, <2>3, GoneUnused DEF PluginInv
    <3>2. Mode' = Mode
      <4>1. handler = "none" /\ phase \notin {"active", "shut"}
        BY <1>u, <2>3
      <4> QED BY <2>2, <3>1, <4>1, ModeIs, ModeNext DEF wheelVars
    <3> QED BY <3>1, <3>2 DEF wheelVars
  <2>4. CASE device # "none"
    <3>1. handler = "unload" /\ Idle /\ ~playing_ /\ ~abandoned
      BY <1>13, <1>u, <2>4, UnloadedSilent DEF PluginInv
    <3>2. UNCHANGED <<hw, lostStop>> /\ ~abandoned' /\ (hw.playing = {} \/ lostStop)
      BY <2>1, <3>1, GoneFeels
    <3>3. Mode = "leaving" /\ Mode' = "off"
      BY <2>2, <3>1, <3>2, ModeIs, ModeNext
    <3>4. FF!End
      BY <3>2, <3>3 DEF FF!End, FF!Modes
    <3> QED BY <3>4 DEF FF!FFNext
  <2> QED BY <2>3, <2>4
<1>5. CASE InitCalibrates
  <2>1. /\ handler = "none" /\ phase = "loaded" /\ device # "none" /\ handler' = "init"
        /\ UNCHANGED <<hw, lostStop, abandoned>>
    BY <1>5 DEF InitCalibrates, Run, Submit, Between
  <2>2. FF!TryOut
    BY <1>u, <2>1, ModeIs, ModeNext DEF FF!TryOut
  <2> QED BY <2>2 DEF FF!FFNext
<1>6. CASE Started
  <2>1. FF!Drive
    BY <1>6, <1>u, ModeIs, ModeNext DEF Started, Between, wheelVars, FF!Drive
  <2> QED BY <2>1 DEF FF!FFNext
<1>7. CASE Paused
  <2>1. FF!Pause
    BY <1>7, <1>u, ModeIs, ModeNext DEF Paused, Run, Submit, Between, FF!Pause
  <2> QED BY <2>1 DEF FF!FFNext
<1>8. CASE Shutdown
  <2>1. FF!Leave
    BY <1>8, <1>u, ModeIs, ModeNext DEF Shutdown, Between, wheelVars, FF!Leave
  <2> QED BY <2>1 DEF FF!FFNext
<1>9. CASE Unplugged
  <2>1. FF!Quiet
    BY <1>0, <1>9 DEF Unplugged, Unplug, PowerOn, pluginVars, gameVars, Mode, Resting, FF!Quiet
  <2> QED BY <2>1 DEF FF!FFNext
<1>10. CASE LoadPlugin
  <2>1. /\ UNCHANGED <<hw, lostStop>> /\ device = "none" /\ handler = "none"
        /\ phase \in {"unloaded", "crashed", "aborted"} /\ phase' = "loaded"
    BY <1>0, <1>10 DEF LoadPlugin, HandlerFits, Attach, Submit, wheelVars
  <2>2. Mode = IF abandoned THEN "dead" ELSE "off"
    BY <2>1, ModeIs
  <2>3. CASE UNCHANGED <<handler, wheelVars>>
    <3>1. Mode' = Mode
      BY <2>1, <2>2, <2>3, ModeNext DEF wheelVars
    <3> QED BY <2>1, <3>1
  <2>4. CASE Attach /\ handler' = "load"
    <3>1. Mode' = "loading"
      BY <2>4, ModeNext DEF Attach
    <3>2. FF!Load
      BY <2>1, <2>2, <3>1 DEF FF!Load
    <3> QED BY <3>2 DEF FF!FFNext
  <2> QED BY <1>10, <2>3, <2>4 DEF LoadPlugin
<1>14. CASE LoadReturns
  <2>1. /\ handler = "load" /\ handler' = "none" /\ Idle /\ phase' = phase
        /\ UNCHANGED <<hw, lostStop, abandoned>>
    BY <1>14 DEF LoadReturns, Done, wheelVars
  <2>2. phase = "loaded" /\ ~abandoned /\ ~playing_
    BY <1>0, <1>u, <2>1 DEF HandlerFits, PluginInv, GivesUpStopped
  <2>3. Mode = "loading" /\ Mode' = "off"
    BY <2>1, <2>2, ModeIs, ModeNext
  <2>4. FF!End
    BY <1>0, <2>1, <2>2, <2>3 DEF FF!End, FF!Modes
  <2> QED BY <2>4 DEF FF!FFNext
<1>15. CASE Unload
  <2>1. /\ phase \in {"failed", "shut"} /\ handler = "none" /\ device # "none"
        /\ handler' = "unload" /\ UNCHANGED <<hw, lostStop, abandoned>>
    BY <1>15 DEF Unload, Run, Submit
  <2>2. Mode \in {"off", "leaving"} /\ Mode' = "leaving"
    BY <1>u, <2>1, ModeIs, ModeNext
  <2>3. Mode = "leaving" \/ FF!Leave
    BY <2>1, <2>2 DEF FF!Leave
  <2> QED BY <2>1, <2>2, <2>3 DEF FF!FFNext
<1>11. CASE FrameEndsUpdating
  <2>1. /\ UNCHANGED <<hw, lostStop, abandoned, phase, g_telemetry_paused>>
        /\ handler = "none" /\ handler' = "tick"
    BY <1>11 DEF FrameEndsUpdating, Run, Submit, Between
  <2> QED BY <2>1 DEF Mode, Resting
<1>12. CASE \/ InitFails \/ FrameStart \/ FrameEndsIdle \/ ChannelChanges
            \/ TickReturns \/ UNCHANGED vars
  <2>1. UNCHANGED <<hw, lostStop, abandoned>>
    BY <1>12 DEF InitFails, FrameStart, FrameEndsIdle, ChannelChanges, TickReturns,
       wheelVars, vars
  <2>2. Mode' = Mode
    BY <1>12, <2>1 DEF InitFails, FrameStart, FrameEndsIdle, ChannelChanges, TickReturns, Done,
       Between, Mode, Resting, gameVars, pluginVars, vars
  <2> QED BY <2>1, <2>2
<1> QED BY <1>1, <1>2, <1>3, <1>4, <1>5, <1>6, <1>7, <1>8, <1>9, <1>10, <1>11, <1>12, <1>13,
           <1>14, <1>15 DEF Next, Returns

(* The plugin keeps the promise to the driver, for every set of wheels and  *)
(* channel values and any number of failed calls (fffb.cxx:70-182).         *)
THEOREM PluginKeepsPromise == Safety => ImplementsForceFeedback
<1>1. Safety => [](WheelTypeOK /\ WheelInv /\ PluginInv)
  BY PluginInvariant
<1>2. WheelTypeOK /\ WheelInv /\ PluginInv /\ [Next]_vars => [FF!FFNext]_(FF!ffVars)
  BY StepIsFeedbackStep
<1>3. Init => FF!FFInit
  BY DEF Init, WheelInit, PowerOn, Mode, Resting, FF!FFInit
<1> QED BY <1>1, <1>2, <1>3, PTL DEF Safety, ImplementsForceFeedback, FF!FFSafety

(* What the promise means at rest, whoever keeps it: in the modes "off" and *)
(* "paused" the wheel is silent unless a stop command was lost.            *)
(* RestIsSilent is inductive: those modes are entered in silence, also by a *)
(* load that follows a kill, and nothing starts there (fffb.cxx:101-110,    *)
(* 154-182; wheel.hxx:127-134).                                             *)
THEOREM RestSilent == FF!FFSafety => []FF!RestIsSilent
<1>1. FF!FFInit => FF!RestIsSilent
  BY DEF FF!FFInit, FF!RestIsSilent, FF!Silent
<1>2. FF!RestIsSilent /\ [FF!FFNext]_(FF!ffVars) => FF!RestIsSilent'
  <2> SUFFICES ASSUME FF!RestIsSilent, [FF!FFNext]_(FF!ffVars), Mode' \in {"off", "paused"}
               PROVE  FF!Silent'
    BY DEF FF!RestIsSilent
  <2>1. CASE FF!Ready \/ FF!Silenced
    BY <2>1 DEF FF!Ready, FF!Silenced, FF!Moves, FF!Silent
  <2>2. CASE FF!End
    BY <2>2 DEF FF!End, FF!Moves, FF!Silent
  <2>3. CASE FF!Quiet \/ FF!LoseStop
    BY <2>3 DEF FF!Quiet, FF!LoseStop, FF!RestIsSilent, FF!Silent
  <2>4. CASE FF!Load \/ FF!TryOut \/ FF!Drive \/ FF!Pause \/ FF!Leave \/ FF!Die \/ FF!Play
    BY <2>4 DEF FF!Load, FF!TryOut, FF!Drive, FF!Pause, FF!Leave, FF!Die, FF!Play, FF!Moves
  <2>5. CASE UNCHANGED FF!ffVars
    BY <2>5 DEF FF!ffVars, FF!RestIsSilent, FF!Silent
  <2> QED BY <2>1, <2>2, <2>3, <2>4, <2>5 DEF FF!FFNext
<1> QED BY <1>1, <1>2, PTL DEF FF!FFSafety

(* Unless a stop command was lost and none was delivered since, the         *)
(* plugin's wheel is silent in every pause, after every load, failed        *)
(* calibration and unloading, and after a kill between handlers while       *)
(* nothing played.  After any other kill, and until a load has found the    *)
(* wheel and stopped it, the theorem says nothing.  It holds for every set  *)
(* of wheels and channel values and any number of failures                  *)
(* (fffb.cxx:101-110, 154-182; wheel.hxx:32, 127-134): the promise says so. *)
THEOREM PluginRests == Safety => []RestIsSilent
BY PluginKeepsPromise, RestSilent, PTL DEF ImplementsForceFeedback, RestIsSilent

-----------------------------------------------------------------------------
(* What the handlers that put the wheel back send, and what is left unsent. *)
LEMMA CallKinds ==
    /\ \A m : Do(m).method = m /\ Do(m).pattern = 0 /\ ~Do(m).must
    /\ \A h \in Resetting : ResetCalls[h] \cap (Assignments \cup Starting) = {}
    /\ Resetting = {"load", "pause", "unload"}
BY DEF Do, Call, ResetCalls, Resetting, Assignments, Starting

LEMMA Sent ==
    /\ AutoOff.cmd = "AUTO_OFF" /\ AutoOn.cmd = "AUTO_ON"
    /\ StopAll.cmd = "STOP_FORCE" /\ StopAll.slots = Slots
    /\ NativeMode.cmd = "NATIVE_MODE"
    /\ SetRange(900).cmd = "RANGE_SET" /\ SetRange(900).range = 900
    /\ SetLeds(0).cmd = "LED_SET" /\ SetLeds(0).pattern = 0
BY DEF AutoOff, AutoOn, StopAll, NativeMode, SetRange, SetLeds, SlotCommand

LEMMA HasRest ==
    ASSUME NEW s \in Seq(Commands), s # <<>>
    PROVE  /\ \A name : Has(s, name) => Head(s).cmd = name \/ Has(Tail(s), name)
           /\ \A allowed : Only(s, allowed) => Head(s) \in allowed /\ Only(Tail(s), allowed)
<1> DEFINE t == Tail(s)
<1>1. /\ Head(s) = s[1] /\ 1 \in DOMAIN s
      /\ \A i \in DOMAIN t : i + 1 \in DOMAIN s /\ t[i] = s[i + 1]
      /\ \A i \in DOMAIN s : i = 1 \/ (i - 1 \in DOMAIN t /\ s[i] = t[i - 1])
  BY HeadTail
<1> HIDE DEF t
<1>2. /\ \A name : Has(s, name) => Head(s).cmd = name \/ Has(t, name)
      /\ \A allowed : Only(s, allowed) => Head(s) \in allowed /\ Only(t, allowed)
  BY <1>1 DEF Has, Only
<1> QED BY <1>2 DEF t

LEMMA HasParts ==
    ASSUME NEW s \in Seq(Commands), NEW t \in Seq(Commands)
    PROVE  /\ \A name : Has(s, name) \/ Has(t, name) => Has(s \o t, name)
           /\ \A allowed : Only(s, allowed) /\ Only(t, allowed) => Only(s \o t, allowed)
<1> DEFINE u == s \o t
<1>1. /\ \A i \in DOMAIN s : i \in DOMAIN u /\ u[i] = s[i]
      /\ \A i \in DOMAIN t : i + Len(s) \in DOMAIN u /\ u[i + Len(s)] = t[i]
      /\ \A i \in DOMAIN u : \/ i \in DOMAIN s /\ u[i] = s[i]
                             \/ i - Len(s) \in DOMAIN t /\ u[i] = t[i - Len(s)]
  OBVIOUS
<1> HIDE DEF u
<1>2. /\ \A name : Has(s, name) \/ Has(t, name) => Has(u, name)
      /\ \A allowed : Only(s, allowed) /\ Only(t, allowed) => Only(u, allowed)
  BY <1>1 DEF Has, Only
<1> QED BY <1>2 DEF u

LEMMA HasNothing == (\A name : ~Has(<<>>, name)) /\ (\A allowed : Only(<<>>, allowed))
BY DEF Has, Only

(* The batches and the queued commands of the calls of a reset.             *)
LEMMA ResetBatch ==
    ASSUME NEW h \in Resetting, NEW call, call.method \in ResetCalls[h],
           call.method \in IOMethods, Only(reports_, Sends[h])
    PROVE  /\ Only(Batch(call), Sends[h])
           /\ call.method \in Stopping => Has(Batch(call), "STOP_FORCE")
           /\ call.method = "disable_autocenter" => Has(Batch(call), "AUTO_OFF")
           /\ call.method = "enable_autocenter" => Has(Batch(call), "AUTO_ON")
           /\ call.method = "init_protocol" /\ device = "known" =>
                Has(Batch(call), "NATIVE_MODE") /\ Has(Batch(call), "RANGE_SET")
<1> USE Sent, CallKinds DEF Sends, ResetCalls, Only, Has
<1>1. CASE call.method = "init_protocol"
  <2>1. h = "load" /\ call.method \notin Stopping
    BY <1>1 DEF Stopping
  <2> QED BY <1>1, <2>1 DEF Batch, InitSequence
<1>2. CASE call.method = "disable_autocenter"
  <2>1. h = "load" /\ call.method \notin Stopping
    BY <1>2 DEF Stopping
  <2> QED BY <1>2, <2>1 DEF Batch
<1>3. CASE call.method = "enable_autocenter"
  <2>1. h = "unload" /\ call.method \notin Stopping
    BY <1>3 DEF Stopping
  <2> QED BY <1>3, <2>1 DEF Batch
<1>4. CASE call.method = "stop_forces"
  <2>1. h \in {"load", "unload"}
    BY <1>4
  <2> QED BY <1>4, <2>1 DEF Batch
<1>5. CASE call.method = "flush_reports"
  BY <1>5 DEF Batch, Stopping
<1>6. ResetCalls[h] \cap IOMethods \subseteq
         {"init_protocol", "disable_autocenter", "enable_autocenter", "stop_forces", "flush_reports"}
  BY DEF IOMethods
<1> QED BY <1>1, <1>2, <1>3, <1>4, <1>5, <1>6

LEMMA ResetQueued ==
    ASSUME NEW h \in Resetting, NEW call, call.method \in ResetCalls[h],
           call.method \in QueueMethods, call.pattern = 0
    PROVE  /\ Only(Queued(call), Sends[h])
           /\ call.method \in Stopping => Has(Queued(call), "STOP_FORCE")
           /\ call.method = "q_disable_autocenter" => Has(Queued(call), "AUTO_OFF")
           /\ call.method = "q_set_led_pattern" => Has(Queued(call), "LED_SET")
<1> USE Sent, CallKinds DEF Sends, ResetCalls, Only, Has
<1>0. h = "pause" /\ call.method \in {"q_disable_autocenter", "q_stop_forces", "q_set_led_pattern"}
  BY DEF QueueMethods
<1>1. CASE call.method = "q_disable_autocenter"
  BY <1>0, <1>1 DEF Queued, Stopping
<1>2. CASE call.method = "q_stop_forces"
  BY <1>0, <1>2 DEF Queued, Stopping
<1>3. CASE call.method = "q_set_led_pattern"
  BY <1>0, <1>3 DEF Queued, Stopping
<1> QED BY <1>0, <1>1, <1>2, <1>3

(* The calls of a reset send and queue nothing else, in any step.           *)
LEMMA CallsOnlyReset ==
    ASSUME WheelTypeOK, WheelInv, OnlyResets, HandlerStep, handler' = handler
    PROVE  OnlyResets'
<1> SUFFICES ASSUME handler \in Resetting
             PROVE  /\ Only(tx', Sends[handler]) /\ Only(reports_', Sends[handler])
                    /\ \A i \in DOMAIN calls' : /\ calls'[i].method \in ResetCalls[handler]
                                                /\ calls'[i].pattern = 0 /\ ~calls'[i].must
  BY DEF OnlyResets
<1>1. calls # <<>> /\ calls \in Seq(CallType)
  BY DEF HandlerStep, Assign, Queue, Open, OpenFails, Begin, Write, WriteFails, Close, CloseFails,
         WheelTypeOK, WheelInv, OneCallAtATime, Idle
<1>2. /\ Only(tx, Sends[handler]) /\ Only(reports_, Sends[handler])
      /\ \A i \in DOMAIN calls : /\ calls[i].method \in ResetCalls[handler]
                                 /\ calls[i].pattern = 0 /\ ~calls[i].must
  BY DEF OnlyResets
<1>3. /\ Head(calls).method \in ResetCalls[handler] /\ Head(calls).pattern = 0
      /\ \A i \in DOMAIN Tail(calls) : /\ Tail(calls)[i].method \in ResetCalls[handler]
                                       /\ Tail(calls)[i].pattern = 0 /\ ~Tail(calls)[i].must
  BY <1>1, <1>2, HeadTail
<1>4. calls' \in {calls, Tail(calls), <<>>}
  BY DEF HandlerStep, Assign, Queue, Open, OpenFails, Begin, Write, WriteFails, Close, CloseFails, Return
<1>5. \A i \in DOMAIN calls' : /\ calls'[i].method \in ResetCalls[handler]
                               /\ calls'[i].pattern = 0 /\ ~calls'[i].must
  <2>1. CASE calls' = calls
    BY <1>2, <2>1
  <2>2. CASE calls' = Tail(calls)
    BY <1>3, <2>2
  <2>3. CASE calls' = <<>>
    BY <2>3
  <2> QED BY <1>4, <2>1, <2>2, <2>3
<1>6. Only(tx', Sends[handler]) /\ Only(reports_', Sends[handler])
  <2>1. CASE Assign
    BY <1>2, <2>1 DEF Assign
  <2>2. CASE Queue
    <3>1. Only(Queued(Head(calls)), Sends[handler]) /\ Queued(Head(calls)) \in Seq(Commands)
      BY <1>1, <1>3, <2>2, ResetQueued, QueuedType, HeadTail DEF Queue
    <3>2. Only(reports_ \o Queued(Head(calls)), Sends[handler])
      BY <1>2, <3>1, HasParts DEF WheelTypeOK
    <3> QED BY <1>2, <2>2, <3>2 DEF Queue
  <2>3. CASE Open
    <3>1. Only(Batch(Head(calls)), Sends[handler])
      BY <1>2, <1>3, <2>3, ResetBatch DEF Open, Begin
    <3> QED BY <1>2, <2>3, <3>1 DEF Open
  <2>4. CASE Write
    <3>1. Only(Tail(tx), Sends[handler])
      BY <1>2, <2>4, HasRest DEF Write, WheelTypeOK
    <3> QED BY <1>2, <2>4, <3>1 DEF Write
  <2>5. CASE OpenFails \/ WriteFails \/ Close \/ CloseFails
    <3>1. tx' = <<>> /\ reports_' \in {<<>>, reports_}
      BY <2>5 DEF OpenFails, WriteFails, Close, CloseFails, Return
    <3> QED BY <1>2, <3>1, HasNothing
  <2> QED BY <2>1, <2>2, <2>3, <2>4, <2>5 DEF HandlerStep
<1> QED BY <1>5, <1>6

(* A step of a call without a failure leaves a command unsent or writes it. *)
LEMMA UnsentStep ==
    ASSUME WheelTypeOK, WheelInv, OnlyResets, handler \in Resetting, HandlerStep, clean',
           NEW CONSTANT name, NEW CONSTANT methods, Unsent(name, methods),
           "flush_reports" \notin methods,
           Head(calls).method \in methods \cap IOMethods => Has(Batch(Head(calls)), name),
           Head(calls).method \in methods \cap QueueMethods => Has(Queued(Head(calls)), name)
    PROVE  Unsent(name, methods)' \/ (Write /\ Head(tx).cmd = name)
<1>1. calls # <<>> /\ calls \in Seq(CallType)
  BY DEF HandlerStep, Assign, Queue, Open, OpenFails, Begin, Write, WriteFails, Close, CloseFails,
         WheelTypeOK, WheelInv, OneCallAtATime, Idle
<1>2. Head(calls).method \in ResetCalls[handler] /\ Head(calls) \in CallType
  BY <1>1, HeadTail DEF OnlyResets
<1>3. Makes(calls, methods) => Head(calls).method \in methods \/ Makes(Tail(calls), methods)
  <2> DEFINE t == Tail(calls)
  <2>1. /\ Head(calls) = calls[1]
        /\ \A i \in DOMAIN calls : i = 1 \/ (i - 1 \in DOMAIN t /\ calls[i] = t[i - 1])
    BY <1>1, HeadTail
  <2> HIDE DEF t
  <2>2. Makes(calls, methods) => Head(calls).method \in methods \/ Makes(t, methods)
    BY <2>1 DEF Makes
  <2> QED BY <2>2 DEF t
<1>4. CASE Assign
  BY <1>2, <1>4, CallKinds DEF Assign
<1>5. CASE Queue
  <2>1. ~busy /\ ~busy' /\ tx = <<>>
    BY <1>5, MethodKinds DEF Queue, WheelInv, OneCallAtATime
  <2>2. Makes(calls, methods) => Has(Queued(Head(calls)), name) \/ Makes(Tail(calls), methods)
    BY <1>3, <1>5 DEF Queue
  <2>3. Has(reports_, name) \/ Has(Queued(Head(calls)), name) => Has(reports_ \o Queued(Head(calls)), name)
    BY <1>2, <1>5, QueuedType, HasParts DEF Queue, WheelTypeOK
  <2>4. ~Has(tx, name)
    BY <2>1, HasNothing
  <2>5. Has(reports_, name) \/ Makes(calls, methods)
    BY <2>1, <2>4 DEF Unsent, Unmade
  <2>6. Has(reports_', name) \/ Makes(calls', methods)
    BY <1>5, <2>2, <2>3, <2>5 DEF Queue
  <2> QED BY <2>1, <2>6 DEF Unsent, Unmade
<1>6. CASE Open
  <2>1. ~busy /\ busy' /\ tx = <<>> /\ calls' = calls /\ reports_' = reports_ /\ tx' = Batch(Head(calls))
    BY <1>6 DEF Open, Begin, WheelInv, OneCallAtATime
  <2>2. Has(reports_, name) \/ Makes(calls, methods)
    BY <2>1, HasNothing DEF Unsent, Unmade
  <2>3. Head(calls).method = "flush_reports" => Batch(Head(calls)) = reports_
    BY DEF Batch
  <2>4. Makes(calls, methods) => Has(Batch(Head(calls)), name) \/ Makes(Tail(calls), methods)
    BY <1>3, <1>6 DEF Open, Begin
  <2>5. \/ Has(tx', name)
        \/ Has(reports_', name) /\ Head(calls').method # "flush_reports"
        \/ Makes(Tail(calls'), methods)
    BY <2>1, <2>2, <2>3, <2>4
  <2> QED BY <2>1, <2>5 DEF Unsent, Unmade
<1>7. CASE Write
  <2>1. Has(tx, name) => Head(tx).cmd = name \/ Has(Tail(tx), name)
    BY <1>7, HasRest DEF Write, WheelTypeOK
  <2>2. UNCHANGED <<busy, calls, reports_>> /\ tx' = Tail(tx)
    BY <1>7 DEF Write
  <2> QED BY <1>7, <2>1, <2>2 DEF Unsent, Unmade
<1>8. CASE Close
  <2>1. /\ busy /\ tx = <<>> /\ busy' = FALSE /\ tx' = <<>> /\ calls' = Tail(calls)
        /\ reports_' = IF Head(calls).method = "flush_reports" THEN <<>> ELSE reports_
    BY <1>8 DEF Close, Return
  <2>2. \/ Has(reports_, name) /\ Head(calls).method # "flush_reports"
        \/ Makes(Tail(calls), methods)
    BY <2>1, HasNothing DEF Unsent, Unmade
  <2> QED BY <2>1, <2>2 DEF Unsent, Unmade
<1>9. CASE OpenFails \/ WriteFails \/ CloseFails
  BY <1>9 DEF OpenFails, WriteFails, CloseFails, Return
<1> QED BY <1>4, <1>5, <1>6, <1>7, <1>8, <1>9 DEF HandlerStep

(* What the commands of a reset do to the device: each its own, and no other's. *)
LEMMA ResetExecutes ==
    ASSUME NEW d \in Hardware, NEW h \in Resetting, NEW c \in Sends[h]
    PROVE  LET e == Execute(d, c) IN
           /\ e.playing = IF c.cmd = "STOP_FORCE" THEN {} ELSE d.playing
           /\ e.native = (c.cmd = "NATIVE_MODE" \/ d.native)
           /\ e.range = IF c.cmd = "RANGE_SET" THEN 900 ELSE d.range
           /\ e.leds = IF c.cmd = "LED_SET" THEN 0 ELSE d.leds
           /\ e.autocenter = CASE c.cmd = "AUTO_ON" -> TRUE
                               [] c.cmd = "AUTO_OFF" -> FALSE
                               [] OTHER -> d.autocenter
           /\ c.cmd = "AUTO_ON" => h = "unload"
           /\ c.cmd = "AUTO_OFF" => h # "unload"
<1>0. /\ d.playing \subseteq Slots /\ d.native \in BOOLEAN /\ d.autocenter \in BOOLEAN
      /\ d = [content |-> d.content, playing |-> d.playing, autocenter |-> d.autocenter,
              leds |-> d.leds, range |-> d.range, native |-> d.native]
  BY DEF Hardware
<1>1. c \in {AutoOff, AutoOn, StopAll, NativeMode, SetRange(900), SetLeds(0)}
  BY DEF Resetting, Sends
<1>2. CASE c = AutoOff
  <2>1. Execute(d, c) = [d EXCEPT !.autocenter = FALSE] /\ c.cmd = "AUTO_OFF"
    BY <1>2, Sent DEF Execute
  <2>2. h # "unload"
    BY <2>1, Sent DEF Sends
  <2> QED BY <1>0, <2>1, <2>2
<1>3. CASE c = AutoOn
  <2>1. Execute(d, c) = [d EXCEPT !.autocenter = TRUE] /\ c.cmd = "AUTO_ON"
    BY <1>3, Sent DEF Execute
  <2>2. h = "unload"
    BY <2>1, Sent DEF Sends, Resetting
  <2> QED BY <1>0, <2>1, <2>2
<1>4. CASE c = StopAll
  <2>1. Execute(d, c) = [d EXCEPT !.playing = @ \ Slots] /\ c.cmd = "STOP_FORCE"
    BY <1>4, Sent DEF Execute
  <2>2. d.playing \ Slots = {}
    BY <1>0
  <2> QED BY <1>0, <2>1, <2>2
<1>5. CASE c = NativeMode
  <2>1. Execute(d, c) = [d EXCEPT !.native = TRUE] /\ c.cmd = "NATIVE_MODE"
    BY <1>5, Sent DEF Execute
  <2> QED BY <1>0, <2>1
<1>6. CASE c = SetRange(900)
  <2>1. Execute(d, c) = [d EXCEPT !.range = 900] /\ c.cmd = "RANGE_SET"
    BY <1>6, Sent DEF Execute
  <2> QED BY <1>0, <2>1
<1>7. CASE c = SetLeds(0)
  <2>1. Execute(d, c) = [d EXCEPT !.leds = 0] /\ c.cmd = "LED_SET"
    BY <1>7, Sent DEF Execute
  <2> QED BY <1>0, <2>1
<1> QED BY <1>1, <1>2, <1>3, <1>4, <1>5, <1>6, <1>7

(* While a resetting handler makes its calls without a failure, what is not *)
(* as it should be on the device is still to be sent.                       *)
LEMMA CallsResetOrUnsent ==
    ASSUME WheelTypeOK, WheelInv, OnlyResets, ResetOrUnsent, HandlerStep, handler' = handler
    PROVE  ResetOrUnsent'
<1> SUFFICES ASSUME handler \in Resetting, clean', plugged'
             PROVE  ResetOrUnsent'
  BY DEF ResetOrUnsent
<1>1. clean /\ plugged /\ device' = device
  BY DEF HandlerStep, Assign, Queue, Open, OpenFails, Begin, Write, WriteFails, Close, CloseFails,
         Return
<1>2. calls # <<>> /\ calls \in Seq(CallType)
  BY DEF HandlerStep, Assign, Queue, Open, OpenFails, Begin, Write, WriteFails, Close, CloseFails,
         WheelTypeOK, WheelInv, OneCallAtATime, Idle
<1>3. /\ Head(calls).method \in ResetCalls[handler] /\ Head(calls).pattern = 0
      /\ Only(tx, Sends[handler]) /\ Only(reports_, Sends[handler])
  BY <1>2, HeadTail DEF OnlyResets
<1> DEFINE Follows(name, methods) == Unsent(name, methods)' \/ (Write /\ Head(tx).cmd = name)
           Sending(name, methods) ==
             /\ Head(calls).method \in methods \cap IOMethods => Has(Batch(Head(calls)), name)
             /\ Head(calls).method \in methods \cap QueueMethods => Has(Queued(Head(calls)), name)
             /\ "flush_reports" \notin methods
<1>4. Unsent("STOP_FORCE", Stopping) => Follows("STOP_FORCE", Stopping)
  <2>1. Sending("STOP_FORCE", Stopping)
    BY <1>3, ResetBatch, ResetQueued DEF Stopping
  <2> QED BY <2>1, UnsentStep
<1>5. device = "known" /\ Unsent("NATIVE_MODE", {"init_protocol"}) =>
        Follows("NATIVE_MODE", {"init_protocol"})
  <2>1. device = "known" => Sending("NATIVE_MODE", {"init_protocol"})
    BY <1>3, ResetBatch DEF QueueMethods
  <2> QED BY <2>1, UnsentStep
<1>6. device = "known" /\ Unsent("RANGE_SET", {"init_protocol"}) =>
        Follows("RANGE_SET", {"init_protocol"})
  <2>1. device = "known" => Sending("RANGE_SET", {"init_protocol"})
    BY <1>3, ResetBatch DEF QueueMethods
  <2> QED BY <2>1, UnsentStep
<1>7. Unsent("LED_SET", {"q_set_led_pattern"}) => Follows("LED_SET", {"q_set_led_pattern"})
  <2>1. Sending("LED_SET", {"q_set_led_pattern"})
    BY <1>3, ResetQueued DEF IOMethods
  <2> QED BY <2>1, UnsentStep
<1>8. Unsent("AUTO_ON", {"enable_autocenter"}) => Follows("AUTO_ON", {"enable_autocenter"})
  <2>1. Sending("AUTO_ON", {"enable_autocenter"})
    BY <1>3, ResetBatch DEF QueueMethods
  <2> QED BY <2>1, UnsentStep
<1>9. Unsent("AUTO_OFF", {"disable_autocenter", "q_disable_autocenter"}) =>
        Follows("AUTO_OFF", {"disable_autocenter", "q_disable_autocenter"})
  <2>1. Sending("AUTO_OFF", {"disable_autocenter", "q_disable_autocenter"})
    BY <1>3, ResetBatch, ResetQueued, MethodKinds DEF IOMethods, QueueMethods
  <2> QED BY <2>1, UnsentStep
<1> HIDE DEF Sending
<1>10. CASE Write
  <2>1. hw' = Execute(hw, Head(tx)) /\ Head(tx) \in Sends[handler] /\ hw \in Hardware
    BY <1>3, <1>10, HasRest DEF Write, WheelTypeOK
  <2> DEFINE c == Head(tx).cmd
  <2>2. /\ hw'.playing = IF c = "STOP_FORCE" THEN {} ELSE hw.playing
        /\ hw'.native = (c = "NATIVE_MODE" \/ hw.native)
        /\ hw'.range = IF c = "RANGE_SET" THEN 900 ELSE hw.range
        /\ hw'.leds = IF c = "LED_SET" THEN 0 ELSE hw.leds
        /\ hw'.autocenter = CASE c = "AUTO_ON" -> TRUE
                              [] c = "AUTO_OFF" -> FALSE
                              [] OTHER -> hw.autocenter
        /\ c = "AUTO_ON" => handler = "unload"
        /\ c = "AUTO_OFF" => handler # "unload"
    BY <2>1, ResetExecutes
  <2> HIDE DEF c
  <2>3. hw.playing = {} \/ Unsent("STOP_FORCE", Stopping)
          => hw'.playing = {} \/ Unsent("STOP_FORCE", Stopping)'
    BY <1>4, <2>2 DEF c
  <2>4. device = "known" /\ (hw.native \/ Unsent("NATIVE_MODE", {"init_protocol"}))
          => hw'.native \/ Unsent("NATIVE_MODE", {"init_protocol"})'
    BY <1>5, <2>2 DEF c
  <2>5. device = "known" /\ (hw.range = 900 \/ Unsent("RANGE_SET", {"init_protocol"}))
          => hw'.range = 900 \/ Unsent("RANGE_SET", {"init_protocol"})'
    BY <1>6, <2>2 DEF c
  <2>6. hw.leds = 0 \/ Unsent("LED_SET", {"q_set_led_pattern"})
          => hw'.leds = 0 \/ Unsent("LED_SET", {"q_set_led_pattern"})'
    BY <1>7, <2>2 DEF c
  <2>7. handler = "unload" /\ (hw.autocenter \/ Unsent("AUTO_ON", {"enable_autocenter"}))
          => hw'.autocenter \/ Unsent("AUTO_ON", {"enable_autocenter"})'
    BY <1>8, <2>2 DEF c
  <2>8. handler # "unload"
          /\ (~hw.autocenter \/ Unsent("AUTO_OFF", {"disable_autocenter", "q_disable_autocenter"}))
          => ~hw'.autocenter \/ Unsent("AUTO_OFF", {"disable_autocenter", "q_disable_autocenter"})'
    BY <1>9, <2>2 DEF c
  <2> HIDE DEF Follows
  <2> QED BY <1>1, <2>3, <2>4, <2>5, <2>6, <2>7, <2>8 DEF ResetOrUnsent
<1>11. CASE ~Write
  <2>1. hw' = hw
    BY <1>11 DEF HandlerStep, Assign, Queue, Open, OpenFails, Begin, WriteFails, Close, CloseFails,
                 Return
  <2> QED BY <1>1, <1>4, <1>5, <1>6, <1>7, <1>8, <1>9, <1>11, <2>1 DEF ResetOrUnsent
<1> QED BY <1>10, <1>11

(* The scripts of the handlers that put the wheel back. *)
LEMMA ResetScripts ==
    /\ \A dev \in {"known", "unknown"} :
         /\ \A i \in DOMAIN Constructor(dev) : /\ Constructor(dev)[i].method \in ResetCalls["load"]
                                               /\ Constructor(dev)[i].pattern = 0
                                               /\ ~Constructor(dev)[i].must
         /\ Makes(Constructor(dev), Stopping)
         /\ Makes(Constructor(dev), {"disable_autocenter", "q_disable_autocenter"})
         /\ dev = "known" => Makes(Constructor(dev), {"init_protocol"})
    /\ \A i \in DOMAIN Reset : /\ Reset[i].method \in ResetCalls["pause"]
                               /\ Reset[i].pattern = 0 /\ ~Reset[i].must
    /\ Makes(Reset, Stopping) /\ Makes(Reset, {"q_set_led_pattern"})
    /\ Makes(Reset, {"disable_autocenter", "q_disable_autocenter"})
    /\ \A i \in DOMAIN Destructor : /\ Destructor[i].method \in ResetCalls["unload"]
                                    /\ Destructor[i].pattern = 0 /\ ~Destructor[i].must
    /\ Makes(Destructor, Stopping) /\ Makes(Destructor, {"enable_autocenter"})
<1>0. \A m : Do(m).method = m /\ Do(m).pattern = 0 /\ ~Do(m).must
  BY CallKinds
<1> DEFINE Kept(s, allowed) == \A i \in DOMAIN s : /\ s[i].method \in allowed
                                                   /\ s[i].pattern = 0 /\ ~s[i].must
<1>1. ASSUME NEW a, NEW b
      PROVE  LET s == <<Do(a), Do(b)>> IN
             /\ \A allowed : a \in allowed /\ b \in allowed => Kept(s, allowed)
             /\ \A methods : a \in methods \/ b \in methods => Makes(s, methods)
  <2> DEFINE s == <<Do(a), Do(b)>>
  <2>1. DOMAIN s = 1 .. 2 /\ s[1] = Do(a) /\ s[2] = Do(b)
    OBVIOUS
  <2> HIDE DEF s
  <2>2. /\ \A allowed : a \in allowed /\ b \in allowed => Kept(s, allowed)
        /\ \A methods : a \in methods \/ b \in methods => Makes(s, methods)
    BY <1>0, <2>1 DEF Makes
  <2> QED BY <2>2 DEF s
<1>2. ASSUME NEW a, NEW b, NEW c
      PROVE  LET s == <<Do(a), Do(b), Do(c)>> IN
             /\ \A allowed : a \in allowed /\ b \in allowed /\ c \in allowed => Kept(s, allowed)
             /\ \A methods : a \in methods \/ b \in methods \/ c \in methods => Makes(s, methods)
  <2> DEFINE s == <<Do(a), Do(b), Do(c)>>
  <2>1. DOMAIN s = 1 .. 3 /\ s[1] = Do(a) /\ s[2] = Do(b) /\ s[3] = Do(c)
    OBVIOUS
  <2> HIDE DEF s
  <2>2. /\ \A allowed : a \in allowed /\ b \in allowed /\ c \in allowed => Kept(s, allowed)
        /\ \A methods : a \in methods \/ b \in methods \/ c \in methods => Makes(s, methods)
    BY <1>0, <2>1 DEF Makes
  <2> QED BY <2>2 DEF s
<1>3. ASSUME NEW a, NEW b, NEW c, NEW d
      PROVE  LET s == <<Do(a), Do(b), Do(c), Do(d)>> IN
             /\ \A allowed : a \in allowed /\ b \in allowed /\ c \in allowed /\ d \in allowed
                               => Kept(s, allowed)
             /\ \A methods : a \in methods \/ b \in methods \/ c \in methods \/ d \in methods
                               => Makes(s, methods)
  <2> DEFINE s == <<Do(a), Do(b), Do(c), Do(d)>>
  <2>1. DOMAIN s = 1 .. 4 /\ s[1] = Do(a) /\ s[2] = Do(b) /\ s[3] = Do(c) /\ s[4] = Do(d)
    OBVIOUS
  <2> HIDE DEF s
  <2>2. /\ \A allowed : a \in allowed /\ b \in allowed /\ c \in allowed /\ d \in allowed
                          => Kept(s, allowed)
        /\ \A methods : a \in methods \/ b \in methods \/ c \in methods \/ d \in methods
                          => Makes(s, methods)
    BY <1>0, <2>1 DEF Makes
  <2> QED BY <2>2 DEF s
<1>4. ASSUME NEW dev \in {"known", "unknown"}
      PROVE  /\ Kept(Constructor(dev), ResetCalls["load"])
             /\ Makes(Constructor(dev), Stopping)
             /\ Makes(Constructor(dev), {"disable_autocenter", "q_disable_autocenter"})
             /\ dev = "known" => Makes(Constructor(dev), {"init_protocol"})
  <2> HIDE DEF Kept
  <2>1. /\ "init_protocol" \in ResetCalls["load"] /\ "disable_autocenter" \in ResetCalls["load"]
        /\ "stop_forces" \in ResetCalls["load"] /\ "stop_forces" \in Stopping
    BY DEF ResetCalls, Stopping
  <2>2. CASE dev = "known"
    <3>1. Constructor(dev) = <<Do("init_protocol"), Do("disable_autocenter"), Do("stop_forces")>>
      BY <2>2 DEF Constructor
    <3> QED BY <1>2, <2>1, <3>1
  <2>3. CASE dev = "unknown"
    <3>1. Constructor(dev) = <<Do("disable_autocenter"), Do("stop_forces")>>
      BY <2>3 DEF Constructor
    <3> QED BY <1>1, <2>1, <2>3, <3>1
  <2> QED BY <2>2, <2>3
<1>5. /\ Kept(Reset, ResetCalls["pause"])
      /\ Makes(Reset, Stopping) /\ Makes(Reset, {"q_set_led_pattern"})
      /\ Makes(Reset, {"disable_autocenter", "q_disable_autocenter"})
  <2> HIDE DEF Kept
  <2>1. /\ "q_disable_autocenter" \in ResetCalls["pause"] /\ "q_stop_forces" \in ResetCalls["pause"]
        /\ "q_set_led_pattern" \in ResetCalls["pause"] /\ "flush_reports" \in ResetCalls["pause"]
        /\ "q_stop_forces" \in Stopping
    BY DEF ResetCalls, Stopping
  <2> QED BY <1>3, <2>1 DEF Reset
<1>6. /\ Kept(Destructor, ResetCalls["unload"])
      /\ Makes(Destructor, Stopping) /\ Makes(Destructor, {"enable_autocenter"})
  <2> HIDE DEF Kept
  <2>1. /\ "stop_forces" \in ResetCalls["unload"] /\ "enable_autocenter" \in ResetCalls["unload"]
        /\ "stop_forces" \in Stopping
    BY DEF ResetCalls, Stopping
  <2> QED BY <1>1, <2>1 DEF Destructor
<1> QED BY <1>4, <1>5, <1>6

(* A reset starts with everything still to be sent. *)
LEMMA ResetBegins ==
    ASSUME WheelTypeOK, WheelInv, NEW script, NEW settings, Submit(script, settings),
           device' \in {"known", "unknown"},
           \/ handler' = "load" /\ script = Constructor(device')
           \/ handler' = "pause" /\ script = Reset
           \/ handler' = "unload" /\ script = Destructor
    PROVE  OnlyResets' /\ ResetOrUnsent'
<1>1. ~busy' /\ tx' = <<>> /\ reports_' = <<>> /\ calls' = script
  BY BetweenHandlers DEF Submit
<1>2. OnlyResets'
  BY <1>1, ResetScripts, HasNothing DEF OnlyResets
<1>3. \A methods : Makes(calls', methods) => \A name : Unsent(name, methods)'
  BY <1>1 DEF Unsent, Unmade
<1>4. /\ Makes(calls', Stopping)
      /\ handler' = "load" /\ device' = "known" => Makes(calls', {"init_protocol"})
      /\ handler' = "pause" => Makes(calls', {"q_set_led_pattern"})
      /\ handler' = "unload" => Makes(calls', {"enable_autocenter"})
      /\ handler' # "unload" => Makes(calls', {"disable_autocenter", "q_disable_autocenter"})
  BY <1>1, ResetScripts
<1>5. ResetOrUnsent'
  BY <1>3, <1>4 DEF ResetOrUnsent
<1> QED BY <1>2, <1>5

(* A reset that has made its calls has sent everything. *)
LEMMA ResetEnds ==
    ASSUME WheelTypeOK, WheelInv, ResetOrUnsent, handler \in Resetting, Idle, clean, plugged
    PROVE  /\ hw.playing = {}
           /\ handler = "load" /\ device = "known" => hw.native /\ hw.range = 900
           /\ handler = "pause" => hw.leds = 0
           /\ hw.autocenter <=> handler = "unload"
<1>1. \A name, methods : ~Unsent(name, methods)
  BY BetweenHandlers, HasNothing, NoCalls DEF Unsent, Unmade, Idle
<1> QED BY <1>1 DEF ResetOrUnsent, WheelTypeOK, Hardware

(* The invariant, initially and in every step. *)
LEMMA ResetInitInv == Init => ResetInv
BY DEF Init, WheelInit, ResetInv, OnlyResets, ResetOrUnsent, LoadedIsReset, Between, Resetting

LEMMA ResetStep ==
    ASSUME WheelTypeOK, WheelInv, PluginInv, ResetInv, [Next]_vars
    PROVE  ResetInv'
<1>0. HandlerFits /\ OnlyResets /\ ResetOrUnsent /\ LoadedIsReset
      /\ (device # "none" /\ ~plugged => hw = PowerOn)
      /\ device \in Devices /\ (plugged => device # "none")
  BY DEF PluginInv, ResetInv, WheelTypeOK
<1>1. CASE handler' = "none" /\ UNCHANGED <<device, plugged, hw, clean>> /\ phase' # "loaded"
  BY <1>0, <1>1 DEF ResetInv, OnlyResets, ResetOrUnsent, LoadedIsReset, Between, Resetting
<1>2. CASE LoadPlugin
  <2>0. handler = "none" /\ device = "none"
    BY <1>0, <1>2 DEF LoadPlugin, HandlerFits
  <2>1. CASE device' = "none" /\ UNCHANGED <<handler, wheelVars>>
    <3>1. handler' = "none" /\ ~plugged' /\ device' = "none"
      BY <1>0, <2>0, <2>1 DEF wheelVars
    <3> QED BY <3>1 DEF ResetInv, OnlyResets, ResetOrUnsent, LoadedIsReset, Resetting
  <2>2. CASE Attach /\ handler' = "load"
    <3>1. device' \in {"known", "unknown"} /\ plugged'
      BY <2>2, ConnectedAssumption DEF Attach
    <3>2. OnlyResets' /\ ResetOrUnsent'
      BY <2>2, <3>1, ResetBegins DEF Attach
    <3> QED BY <2>2, <3>1, <3>2 DEF ResetInv, LoadedIsReset, Between
  <2> QED BY <1>2, <2>1, <2>2 DEF LoadPlugin
<1>3. CASE InitCalibrates \/ FrameEndsUpdating
  <2>1. handler' \in {"init", "tick"} /\ UNCHANGED <<device, plugged, hw>>
    BY <1>3 DEF InitCalibrates, FrameEndsUpdating, Run, Submit
  <2> QED BY <1>0, <2>1 DEF ResetInv, OnlyResets, ResetOrUnsent, LoadedIsReset, Between, Resetting
<1>4. CASE Paused \/ Unload
  <2>1. /\ device' = device /\ device \in {"known", "unknown"} /\ UNCHANGED <<plugged, hw>>
        /\ \/ handler' = "pause" /\ Submit(Reset, forces)
           \/ handler' = "unload" /\ Submit(Destructor, forces)
    BY <1>0, <1>4 DEF Paused, Unload, Run, Submit, HandlerFits, Between, Devices
  <2>2. OnlyResets' /\ ResetOrUnsent'
    BY <2>1, ResetBegins
  <2> QED BY <1>0, <2>1, <2>2 DEF ResetInv, LoadedIsReset, Between
<1>5. CASE LoadReturns
  <2>1. /\ handler = "load" /\ Idle /\ handler' = "none"
        /\ UNCHANGED <<device, plugged, hw, clean>>
    BY <1>5 DEF LoadReturns, Done, wheelVars
  <2>2. clean /\ plugged => /\ hw.playing = {} /\ ~hw.autocenter
                            /\ device = "known" => hw.native /\ hw.range = 900
    BY <1>0, <2>1, ResetEnds, CallKinds
  <2> QED BY <1>0, <2>1, <2>2 DEF ResetInv, OnlyResets, ResetOrUnsent, LoadedIsReset, Resetting
<1>6. CASE InitReturns \/ PauseReturns \/ TickReturns
  <2>1. handler' = "none" /\ UNCHANGED wheelVars
    BY <1>6 DEF InitReturns, PauseReturns, TickReturns
  <2>2. phase' # "loaded"
    BY <1>0, <1>6 DEF InitReturns, PauseReturns, TickReturns, Done, HandlerFits
  <2> QED BY <1>1, <2>1, <2>2 DEF wheelVars
<1>7. CASE SubstanceUnavailable \/ UnloadReturns \/ Kill
  <2>1. (\E killed \in BOOLEAN : Gone(killed)) /\ handler' = "none"
    BY <1>7 DEF SubstanceUnavailable, UnloadReturns, Kill, NoProcess
  <2>2. device' = "none" /\ ~plugged'
    BY <2>1 DEF Gone
  <2> QED BY <2>1, <2>2 DEF ResetInv, OnlyResets, ResetOrUnsent, LoadedIsReset, Resetting
<1>8. CASE InitFails \/ Started \/ FrameStart \/ ChannelChanges \/ FrameEndsIdle \/ Shutdown
  <2>1. handler = "none" /\ handler' = handler /\ UNCHANGED wheelVars /\ phase' # "loaded"
    BY <1>8 DEF InitFails, Started, FrameStart, ChannelChanges, FrameEndsIdle, Shutdown, Between,
                gameVars
  <2> QED BY <1>1, <2>1 DEF wheelVars
<1>9. CASE CallProceeds
  <2>1. HandlerStep /\ handler' = handler /\ handler # "none" /\ device' = device
    BY <1>9, CallsAreMade DEF CallProceeds, pluginVars, gameVars
  <2>2. OnlyResets' /\ ResetOrUnsent'
    BY <1>0, <2>1, CallsOnlyReset, CallsResetOrUnsent
  <2>3. plugged' = plugged /\ (plugged \/ hw' = hw)
    BY <2>1 DEF HandlerStep, Assign, Queue, Open, OpenFails, Begin, Write, WriteFails, Close,
                CloseFails
  <2> QED BY <1>0, <2>1, <2>2, <2>3 DEF ResetInv, LoadedIsReset, Between
<1>10. CASE Unplugged
  <2>1. /\ ~plugged' /\ hw' = PowerOn
        /\ UNCHANGED <<device, handler, calls, tx, reports_>>
    BY <1>10 DEF Unplugged, Unplug, pluginVars, gameVars
  <2> QED BY <1>0, <2>1 DEF ResetInv, OnlyResets, ResetOrUnsent, LoadedIsReset
<1>11. CASE UNCHANGED vars
  BY <1>0, <1>11 DEF ResetInv, OnlyResets, ResetOrUnsent, Unsent, Unmade, LoadedIsReset, Between,
                     vars, wheelVars, pluginVars, gameVars
<1> QED BY <1>2, <1>3, <1>4, <1>5, <1>6, <1>7, <1>8, <1>9, <1>10, <1>11 DEF Next, Returns

(* What the handlers that put the wheel back owe it, in every step of every *)
(* session (wheel.hxx:30-37, 127-134, 423-429; fffb.cxx:101-110).           *)
THEOREM ResetInvariant == Safety => []ResetInv
<1>1. WheelTypeOK /\ WheelInv /\ PluginInv /\ ResetInv /\ [Next]_vars => ResetInv'
  BY ResetStep
<1> QED BY <1>1, ResetInitInv, PluginInvariant, PTL DEF Safety

(* Loading without a failed call leaves a silent wheel without its           *)
(* autocenter, a known one with its 900 degrees, whatever state a crashed   *)
(* session left it in (wheel.hxx:127-134, 480-487; simulator.hxx:86-101).   *)
THEOREM LoadingResets == Safety => []LoadedIsReset
<1>1. ResetInv => LoadedIsReset
  BY DEF ResetInv
<1> QED BY <1>1, ResetInvariant, PTL

(* A pause handler without a failed call turns effects, autocenter and LEDs *)
(* off (fffb.cxx:101-110, wheel.hxx:423-429).                                *)
THEOREM PausingResets == Safety => CleanPauseResets
<1>1. Safety => [](WheelTypeOK /\ WheelInv /\ PluginInv) /\ []ResetInv
  BY PluginInvariant, ResetInvariant, PTL
<1>2. WheelTypeOK /\ WheelInv /\ ResetInv /\ [Next]_vars
        => [Done("pause") /\ clean /\ plugged /\ handler' = "none" =>
              hw.playing = {} /\ ~hw.autocenter /\ hw.leds = 0]_vars
  BY ResetEnds, CallKinds DEF ResetInv, Done
<1> QED BY <1>1, <1>2, PTL DEF Safety, CleanPauseResets

(* Unloading without a failed call returns the wheel silent and with its    *)
(* centering spring, after whatever session (wheel.hxx:32).                 *)
THEOREM UnloadingRestores == Safety => UnloadRestores
<1>1. Safety => [](WheelTypeOK /\ WheelInv /\ PluginInv) /\ []ResetInv
  BY PluginInvariant, ResetInvariant, PTL
<1>2. WheelTypeOK /\ WheelInv /\ PluginInv /\ ResetInv /\ [Next]_vars
        => [Done("unload") /\ clean /\ handler' = "none" => hw.playing = {} /\ hw.autocenter]_vars
  <2> SUFFICES ASSUME WheelTypeOK, WheelInv, PluginInv, ResetInv, Done("unload"), clean
               PROVE  hw.playing = {} /\ hw.autocenter
    OBVIOUS
  <2>1. CASE plugged
    BY <2>1, ResetEnds, CallKinds DEF ResetInv, Done
  <2>2. CASE ~plugged
    <3>1. hw = PowerOn
      BY <2>2 DEF ResetInv, PluginInv, HandlerFits, Done
    <3> QED BY <3>1 DEF PowerOn
  <2> QED BY <2>1, <2>2
<1> QED BY <1>1, <1>2, PTL DEF Safety, UnloadRestores

-----------------------------------------------------------------------------
(* The calls of a tick, and what is left of them. *)
LEMMA TickParts ==
    /\ TickCalls \in Seq(CallType) /\ TickCalls # <<>> /\ Tail(TickCalls) # <<>>
    /\ Head(TickCalls) = Do("refresh_forces")
    /\ Head(Tail(TickCalls)) = Call("set_led_pattern", LedPattern(telemetry.rpm), FALSE)
    /\ Tail(Tail(TickCalls)) = <<>>
    /\ Len(TickCalls) = 2 /\ Len(Tail(TickCalls)) = 1
    /\ Do("refresh_forces").method = "refresh_forces" /\ ~Do("refresh_forces").must
    /\ \A p : LET led == Call("set_led_pattern", p, FALSE) IN
              led.method = "set_led_pattern" /\ led.pattern = p /\ ~led.must
<1>1. LedPattern(telemetry.rpm) \in LedPatterns
  BY DEF LedPattern, LedPatterns
<1> DEFINE a == Do("refresh_forces")
           b == Call("set_led_pattern", LedPattern(telemetry.rpm), FALSE)
<1>2. a \in CallType /\ b \in CallType
  BY <1>1, Ranges DEF Do, Call, CallType, Methods, IOMethods
<1>3. /\ a.method = "refresh_forces" /\ ~a.must
      /\ \A p : LET led == Call("set_led_pattern", p, FALSE) IN
                led.method = "set_led_pattern" /\ led.pattern = p /\ ~led.must
  BY DEF Do, Call
<1>4. TickCalls = <<a, b>>
  BY DEF TickCalls, Tick
<1> HIDE DEF a, b
<1>5. /\ <<a, b>> \in Seq(CallType) /\ <<a, b>> # <<>> /\ Tail(<<a, b>>) = <<b>>
      /\ Head(<<a, b>>) = a /\ Head(<<b>>) = b /\ Tail(<<b>>) = <<>> /\ <<b>> # <<>>
      /\ Len(<<a, b>>) = 2 /\ Len(<<b>>) = 1
  BY <1>2
<1> QED BY <1>3, <1>4, <1>5 DEF a, b

(* Two forces that address the same slot are the spring and the constant. *)
LEMMA SharedSlots ==
    ASSUME NEW t \in ForceType, NEW u \in ForceType, t # u, Enabled(u),
           NEW s \in OwnSlots(t), s \in SlotsOf(SlotMask[u])
    PROVE  t = "spring" /\ u = "constant"
<1>1. /\ SlotMask["constant"] = 1 /\ SlotMask["spring"] = 3
      /\ SlotMask["damper"] = 4 /\ SlotMask["trapezoid"] = 8
  BY DEF SlotMask
<1>2. /\ SlotsOf(1) = {0} /\ SlotsOf(3) = {0, 1} /\ SlotsOf(4) = {2} /\ SlotsOf(8) = {3}
  BY DEF SlotsOf, Slots
<1>3. s \in SlotsOf(SlotMask[t]) /\ ~(t = "constant" /\ Enabled("spring"))
  BY DEF OwnSlots
<1> QED BY <1>1, <1>2, <1>3 DEF ForceType

LEMMA Concatenated ==
    ASSUME NEW s \in Seq(Commands), NEW t \in Seq(Commands), NEW c,
           (\E i \in DOMAIN s : s[i] = c) \/ (\E i \in DOMAIN t : t[i] = c)
    PROVE  \E i \in DOMAIN (s \o t) : (s \o t)[i] = c
<1> DEFINE u == s \o t
<1>1. /\ \A i \in DOMAIN s : i \in DOMAIN u /\ u[i] = s[i]
      /\ \A i \in DOMAIN t : i + Len(s) \in DOMAIN u /\ u[i + Len(s)] = t[i]
  OBVIOUS
<1> HIDE DEF u
<1>2. \E i \in DOMAIN u : u[i] = c
  BY <1>1
<1> QED BY <1>2 DEF u

(* A refresh of a playing wheel sends each enabled force, and nothing else. *)
LEMMA RefreshSends ==
    ASSUME forces \in ForceSettings, playing_
    PROVE  /\ Refresh \in Seq(Commands)
           /\ Only(Refresh, EnabledRefreshes)
           /\ \A t \in ForceType : Enabled(t) => \E i \in DOMAIN Refresh : Refresh[i] = Refreshing(t)
<1> DEFINE one(t) == IF Enabled(t) THEN <<Refreshing(t)>> ELSE <<>>
<1>1. Refresh = one("constant") \o one("spring") \o one("damper") \o one("trapezoid")
  BY DEF Refresh, PerForce, Refreshing
<1>2. ASSUME NEW t \in ForceType
      PROVE  /\ one(t) \in Seq(Commands) /\ Only(one(t), EnabledRefreshes)
             /\ Enabled(t) => \E i \in DOMAIN one(t) : one(t)[i] = Refreshing(t)
  <2>1. forces[t].params \in AllParams[t]
    BY ParamsType
  <2>2. Refreshing(t) \in Commands
    BY <2>1, ForceCommandType DEF Refreshing
  <2>3. CASE Enabled(t)
    <3>1. Refreshing(t) \in EnabledRefreshes
      BY <2>3 DEF EnabledRefreshes
    <3> DEFINE c == Refreshing(t)
    <3>2. one(t) = <<c>>
      BY <2>3
    <3>3. c \in Commands /\ c \in EnabledRefreshes
      BY <2>2, <3>1
    <3> HIDE DEF c
    <3>4. <<c>> \in Seq(Commands) /\ DOMAIN <<c>> = {1} /\ <<c>>[1] = c
      BY <3>3
    <3>5. Only(<<c>>, EnabledRefreshes) /\ \E i \in DOMAIN <<c>> : <<c>>[i] = c
      BY <3>3, <3>4 DEF Only
    <3> HIDE DEF one
    <3> QED BY <3>2, <3>4, <3>5 DEF c
  <2>4. CASE ~Enabled(t)
    BY <2>4, HasNothing
  <2> QED BY <2>3, <2>4
<1> DEFINE a == one("constant")  b == one("spring")  c == one("damper")  d == one("trapezoid")
<1>3. /\ a \in Seq(Commands) /\ b \in Seq(Commands) /\ c \in Seq(Commands) /\ d \in Seq(Commands)
      /\ Only(a, EnabledRefreshes) /\ Only(b, EnabledRefreshes)
      /\ Only(c, EnabledRefreshes) /\ Only(d, EnabledRefreshes)
      /\ Enabled("constant") => \E i \in DOMAIN a : a[i] = Refreshing("constant")
      /\ Enabled("spring") => \E i \in DOMAIN b : b[i] = Refreshing("spring")
      /\ Enabled("damper") => \E i \in DOMAIN c : c[i] = Refreshing("damper")
      /\ Enabled("trapezoid") => \E i \in DOMAIN d : d[i] = Refreshing("trapezoid")
  BY <1>2 DEF ForceType
<1>4. Refresh = ((a \o b) \o c) \o d
  BY <1>1
<1> HIDE DEF a, b, c, d, one
<1>5. a \o b \in Seq(Commands) /\ (a \o b) \o c \in Seq(Commands)
      /\ ((a \o b) \o c) \o d \in Seq(Commands)
  BY <1>3
<1>6. Only(Refresh, EnabledRefreshes)
  BY <1>3, <1>4, <1>5, HasParts
<1> DEFINE In(s, x) == \E i \in DOMAIN s : s[i] = x
<1>7. \A x : In(a, x) \/ In(b, x) \/ In(c, x) \/ In(d, x) => In(Refresh, x)
  <2>1. \A x : In(a, x) \/ In(b, x) => In(a \o b, x)
    BY <1>3, Concatenated
  <2>2. \A x : In(a \o b, x) \/ In(c, x) => In((a \o b) \o c, x)
    BY <1>3, <1>5, Concatenated
  <2>3. \A x : In((a \o b) \o c, x) \/ In(d, x) => In(((a \o b) \o c) \o d, x)
    BY <1>3, <1>5, Concatenated
  <2> HIDE DEF In
  <2> QED BY <1>4, <2>1, <2>2, <2>3
<1>8. ASSUME NEW t \in ForceType, Enabled(t) PROVE In(Refresh, Refreshing(t))
  BY <1>3, <1>7, <1>8 DEF ForceType
<1> QED BY <1>4, <1>5, <1>6, <1>8

(* The order of a refresh: the constant force first, then the spring.       *)
LEMMA RefreshOrder ==
    ASSUME forces \in ForceSettings, playing_
    PROVE  SpringFollows(Refresh)
<1> DEFINE one(t) == IF Enabled(t) THEN <<Refreshing(t)>> ELSE <<>>
           a == one("constant")  b == one("spring")  c == one("damper")  d == one("trapezoid")
           Others == {Refreshing(t) : t \in {"spring", "damper", "trapezoid"}}
           K(u) == /\ u \in Seq(Commands) /\ u # <<>>
                   /\ \A i \in DOMAIN u : i # 1 => u[i] \in Others
                   /\ Enabled("spring") => Len(u) > 1 /\ u[2] = Refreshing("spring")
<1>1. Refresh = ((a \o b) \o c) \o d
  BY DEF Refresh, PerForce, Refreshing
<1>2. \A t \in ForceType : Refreshing(t) \in Commands /\ Refreshing(t).type = t
  <2> SUFFICES ASSUME NEW t \in ForceType
               PROVE  Refreshing(t) \in Commands /\ Refreshing(t).type = t
    OBVIOUS
  <2>1. forces[t].params \in AllParams[t]
    BY ParamsType
  <2> QED BY <2>1, ForceCommandType DEF Refreshing, ForceCommand
<1>3. \A x \in Others : x.type # "constant"
  BY <1>2 DEF ForceType
<1>4. /\ \A t \in ForceType : one(t) \in {<<>>, <<Refreshing(t)>>}
      /\ Enabled("spring") => b = <<Refreshing("spring")>>
      /\ Enabled("constant") => a = <<Refreshing("constant")>>
      /\ ~Enabled("constant") => a = <<>>
  OBVIOUS
<1>5. /\ \A t \in {"spring", "damper", "trapezoid"} :
           one(t) \in Seq(Commands) /\ Only(one(t), Others)
      /\ a \in Seq(Commands)
  <2>1. ASSUME NEW t \in {"spring", "damper", "trapezoid"}
        PROVE  one(t) \in Seq(Commands) /\ Only(one(t), Others)
    <3>1. Refreshing(t) \in Commands /\ Refreshing(t) \in Others /\ t \in ForceType
      BY <1>2 DEF ForceType
    <3> DEFINE x == Refreshing(t)
    <3> HIDE DEF x
    <3>2. <<x>> \in Seq(Commands) /\ DOMAIN <<x>> = {1} /\ <<x>>[1] = x
      BY <3>1 DEF x
    <3>3. Only(<<x>>, Others)
      BY <3>1, <3>2 DEF Only, x
    <3> QED BY <1>4, <3>1, <3>2, <3>3, HasNothing DEF x
  <2>2. a \in Seq(Commands)
    BY <1>2, <1>4 DEF ForceType
  <2> QED BY <2>1, <2>2
<1> HIDE DEF a, b, c, d, one, Others
<1>6. /\ b \in Seq(Commands) /\ Only(b, Others) /\ c \in Seq(Commands) /\ Only(c, Others)
      /\ d \in Seq(Commands) /\ Only(d, Others)
  BY <1>5 DEF b, c, d
<1>7. CASE Enabled("constant")
  <2>1. K(a \o b)
    <3> DEFINE x == Refreshing("constant")
    <3>1. a = <<x>> /\ x \in Commands
      BY <1>2, <1>4, <1>7 DEF ForceType
    <3> HIDE DEF x
    <3>2. /\ a \o b \in Seq(Commands) /\ a \o b # <<>>
          /\ \A i \in DOMAIN (a \o b) : i # 1 => i - 1 \in DOMAIN b /\ (a \o b)[i] = b[i - 1]
      BY <1>6, <3>1
    <3>3. \A i \in DOMAIN (a \o b) : i # 1 => (a \o b)[i] \in Others
      BY <1>6, <3>2 DEF Only
    <3>4. Enabled("spring") => Len(a \o b) > 1 /\ (a \o b)[2] = Refreshing("spring")
      <4> DEFINE y == Refreshing("spring")
      <4> HIDE DEF y
      <4>1. Enabled("spring") => b = <<y>>
        BY <1>4 DEF y
      <4>2. Enabled("spring") => Len(a \o b) > 1 /\ (a \o b)[2] = y
        BY <3>1, <4>1
      <4> QED BY <4>2 DEF y
    <3> QED BY <3>2, <3>3, <3>4
  <2>2. ASSUME NEW u, K(u), NEW v \in Seq(Commands), Only(v, Others) PROVE K(u \o v)
    <3>1. u \in Seq(Commands) /\ u # <<>>
      BY <2>2
    <3>2. /\ u \o v \in Seq(Commands) /\ u \o v # <<>>
          /\ \A i \in DOMAIN (u \o v) :
               \/ i \in DOMAIN u /\ (u \o v)[i] = u[i]
               \/ i - Len(u) \in DOMAIN v /\ (u \o v)[i] = v[i - Len(u)]
          /\ Len(u) > 1 => Len(u \o v) > 1 /\ (u \o v)[2] = u[2]
      BY <3>1
    <3>3. \A i \in DOMAIN (u \o v) : i # 1 => (u \o v)[i] \in Others
      BY <2>2, <3>2 DEF Only
    <3>4. Enabled("spring") => Len(u \o v) > 1 /\ (u \o v)[2] = Refreshing("spring")
      BY <2>2, <3>2
    <3> QED BY <3>2, <3>3, <3>4
  <2> HIDE DEF K
  <2>3. K(Refresh)
    BY <1>1, <1>6, <2>1, <2>2
  <2> QED BY <1>3, <2>3 DEF SpringFollows, K
<1>8. CASE ~Enabled("constant")
  <2>1. a = <<>> /\ Only(a, Others)
    BY <1>4, <1>8, HasNothing
  <2>2. Only(Refresh, Others)
    <3>1. a \o b \in Seq(Commands) /\ (a \o b) \o c \in Seq(Commands)
      BY <1>5, <1>6
    <3> QED BY <1>1, <1>5, <1>6, <2>1, <3>1, HasParts
  <2> QED BY <1>3, <2>2 DEF SpringFollows, Only
<1> QED BY <1>7, <1>8

(* What a refresh command does to the device. *)
LEMMA RefreshLoads ==
    ASSUME NEW d \in Hardware, NEW u \in ForceType
    PROVE  /\ \A s \in Slots : Execute(d, Refreshing(u)).content[s] =
                IF s \in SlotsOf(SlotMask[u]) THEN [type |-> u, params |-> forces[u].params]
                ELSE d.content[s]
           /\ Execute(d, Refreshing(u)).playing =
                IF RefreshStarts THEN d.playing \cup SlotsOf(SlotMask[u]) ELSE d.playing
<1> DEFINE c == Refreshing(u)
<1>1. /\ c.cmd = "REFRESH_FORCE" /\ c.slots = SlotsOf(SlotMask[u])
      /\ c.type = u /\ c.params = forces[u].params
  BY DEF Refreshing, ForceCommand
<1> HIDE DEF c
<1> DEFINE full == [s \in Slots |-> IF s \in c.slots THEN [type |-> c.type, params |-> c.params]
                                                     ELSE d.content[s]]
<1>3. d = [content |-> d.content, playing |-> d.playing, autocenter |-> d.autocenter,
           leds |-> d.leds, range |-> d.range, native |-> d.native]
  BY DEF Hardware
<1>4. Load(d, c) = [content |-> full, playing |-> d.playing, autocenter |-> d.autocenter,
                    leds |-> d.leds, range |-> d.range, native |-> d.native]
  <2>1. Load(d, c) = [d EXCEPT !.content = full]
    BY DEF Load
  <2> HIDE DEF full
  <2> QED BY <1>3, <2>1
<1>5. Execute(d, c) =
        IF RefreshStarts THEN [Load(d, c) EXCEPT !.playing = @ \cup c.slots] ELSE Load(d, c)
  BY <1>1 DEF Execute
<1>6. /\ Execute(d, c).content = full
      /\ Execute(d, c).playing = IF RefreshStarts THEN d.playing \cup c.slots ELSE d.playing
  <2> HIDE DEF full
  <2> QED BY <1>4, <1>5
<1> QED BY <1>1, <1>6 DEF c

(* A force once delivered stays so as long as the device and forces do.     *)
LEMMA DeliveredKept ==
    ASSUME forces' = forces, hw'.content = hw.content, hw'.playing = hw.playing
    PROVE  \A t : Delivered(t)' <=> Delivered(t)
BY DEF Delivered, Holds, Plays, OwnSlots, Enabled

(* A step of a tick's calls. *)
LEMMA TickCallsStep ==
    ASSUME WheelTypeOK, WheelInv, TickInv, HandlerStep, handler = "tick", phase = "active",
           UNCHANGED pluginVars
    PROVE  TickInv'
<1>0. /\ handler' = handler /\ refreshed' = refreshed /\ phase' = phase /\ telemetry' = telemetry
      /\ TickCalls' = TickCalls
  BY DEF pluginVars, gameVars, stateVars, TickCalls
<1> DEFINE p == LedPattern(telemetry.rpm)
           first == Do("refresh_forces")
           last == Call("set_led_pattern", p, FALSE)
<1>1. calls # <<>> /\ calls \in {TickCalls, Tail(TickCalls)} /\ reports_ = <<>>
      /\ (calls # TickCalls \/ busy => playing_) /\ (refreshed > 0 => playing_)
  BY DEF TickInv, HandlerStep, Assign, Queue, Open, OpenFails, Begin, Write, WriteFails, Close,
         CloseFails, WheelInv, OneCallAtATime, Idle
<1>2. /\ Tail(TickCalls) # TickCalls /\ TickCalls # <<>> /\ Tail(TickCalls) # <<>>
      /\ Len(Tail(TickCalls)) = 1 /\ Len(TickCalls) = 2
      /\ Tail(Tail(TickCalls)) = <<>> /\ Head(TickCalls) = first /\ Head(Tail(TickCalls)) = last
      /\ first.method = "refresh_forces" /\ ~first.must
      /\ last.method = "set_led_pattern" /\ last.pattern = p /\ ~last.must
  BY TickParts
<1> HIDE DEF first, last, p
<1>3. /\ Head(calls).method \in {"refresh_forces", "set_led_pattern"} /\ ~Head(calls).must
      /\ Head(calls).method = "refresh_forces" <=> calls = TickCalls
  BY <1>1, <1>2
<1>4. /\ FlagAfter("refresh_forces") = TRUE
      /\ FlagAfter("set_led_pattern") = playing_
      /\ {"refresh_forces", "set_led_pattern"} \cap (Assignments \cup QueueMethods) = {}
  BY DEF FlagAfter, Stopping, Starting, Assignments, QueueMethods
<1>5. forces' = forces /\ ~Assign /\ ~Queue
  BY <1>3, <1>4 DEF HandlerStep, Assign, Queue, Open, OpenFails, Begin, Write, WriteFails, Close,
                    CloseFails
<1>6. /\ EnabledRefreshes' = EnabledRefreshes /\ (\A t : Refreshing(t)' = Refreshing(t))
      /\ \A t : Enabled(t)' = Enabled(t)
      /\ LedPattern(telemetry.rpm)' = p
  BY <1>0, <1>5 DEF EnabledRefreshes, Refreshing, Enabled, p
<1>7. SUFFICES /\ calls' \in {TickCalls, Tail(TickCalls), <<>>} /\ reports_' = <<>>
               /\ calls' # TickCalls \/ busy' => playing_'
               /\ refreshed > 0 => playing_'
               /\ TickOrUnsent'
  BY <1>0 DEF TickInv
<1>8. CASE Open
  <2>1. /\ calls' = calls /\ reports_' = reports_ /\ busy' /\ hw' = hw /\ clean' = clean
        /\ plugged' = plugged /\ tx' = Batch(Head(calls))
        /\ playing_' = FlagAfter(Head(calls).method)
    BY <1>8 DEF Open, Begin
  <2>2. playing_' /\ calls' \in {TickCalls, Tail(TickCalls), <<>>} /\ reports_' = <<>>
    BY <1>1, <1>2, <1>3, <1>4, <2>1
  <2>3. CASE calls = TickCalls
    <3>1. refreshed > 0 =>
            /\ Only(tx', EnabledRefreshes)
            /\ SpringFollows(tx')
            /\ \A t \in ForceType : Enabled(t) => \E i \in DOMAIN tx' : tx'[i] = Refreshing(t)
      <4>1. tx' = Refresh
        BY <1>2, <2>1, <2>3 DEF Batch
      <4> QED BY <1>1, <4>1, RefreshSends, RefreshOrder DEF WheelTypeOK
    <3>2. refreshed > 0 =>
            /\ SpringFollows(tx)'
            /\ \A t \in ForceType : Delivered(t)' \/ \E i \in DOMAIN tx' : tx'[i] = Refreshing(t)
      BY <1>6, <3>1 DEF Delivered, SpringFollows
    <3>3. ~(Len(calls') = 1) /\ ~Idle'
      <4>1. calls' = TickCalls
        BY <2>1, <2>3
      <4>2. Len(calls') = 2 /\ calls' # <<>>
        BY <1>2, <4>1
      <4> QED BY <4>2 DEF Idle
    <3> QED BY <1>0, <1>6, <2>1, <2>2, <2>3, <3>1, <3>2, <3>3 DEF TickOrUnsent
  <2>4. CASE calls = Tail(TickCalls)
    <3>1. tx' = <<SetLeds(p)>>
      BY <1>2, <2>1, <2>4 DEF Batch
    <3>2. clean /\ plugged /\ refreshed > 0 => \A t \in ForceType : Delivered(t)'
      BY DeliveredKept, <1>2, <1>5, <2>1, <2>4 DEF TickInv, TickOrUnsent
    <3>3. calls' # TickCalls /\ ~Idle'
      BY <1>2, <2>1, <2>4 DEF Idle
    <3> QED BY <1>0, <1>6, <2>1, <2>2, <3>1, <3>2, <3>3 DEF TickOrUnsent
  <2> QED BY <1>1, <2>3, <2>4
<1>9. CASE Write
  <2>1. /\ calls' = calls /\ reports_' = reports_ /\ busy' = busy /\ busy /\ clean' = clean
        /\ plugged' = plugged /\ playing_' = playing_ /\ tx # <<>> /\ tx' = Tail(tx)
        /\ hw' = Execute(hw, Head(tx)) /\ hw \in Hardware /\ tx \in Seq(Commands)
    BY <1>9 DEF Write, WheelTypeOK
  <2>2. CASE calls = TickCalls /\ clean /\ plugged /\ refreshed > 0
    <3>1. /\ Only(tx, EnabledRefreshes) /\ SpringFollows(tx)
          /\ \A t \in ForceType : Delivered(t) \/ \E i \in DOMAIN tx : tx[i] = Refreshing(t)
      BY <2>1, <2>2 DEF TickInv, TickOrUnsent
    <3> DEFINE rest == Tail(tx)
    <3>2. Head(tx) \in EnabledRefreshes /\ Only(rest, EnabledRefreshes)
      BY <2>1, <3>1, HasRest
    <3>3. PICK u \in ForceType : Enabled(u) /\ Head(tx) = Refreshing(u)
      BY <3>2 DEF EnabledRefreshes
    <3>4. /\ \A s \in Slots : hw'.content[s] =
               IF s \in SlotsOf(SlotMask[u]) THEN [type |-> u, params |-> forces[u].params]
               ELSE hw.content[s]
          /\ hw'.playing = IF RefreshStarts THEN hw.playing \cup SlotsOf(SlotMask[u])
                           ELSE hw.playing
      <4>1. hw' = Execute(hw, Refreshing(u)) /\ hw \in Hardware
        BY <2>1, <3>3
      <4> HIDE DEF Refreshing
      <4> QED BY <3>3, <4>1, RefreshLoads
    <3>5. /\ Head(tx) = tx[1] /\ rest \in Seq(Commands)
          /\ \A i \in DOMAIN tx : i = 1 \/ (i - 1 \in DOMAIN rest /\ tx[i] = rest[i - 1])
          /\ \A i \in DOMAIN rest : i + 1 \in DOMAIN tx /\ rest[i] = tx[i + 1] /\ i + 1 # 1
          /\ Len(tx) > 1 => 1 \in DOMAIN rest /\ rest[1] = tx[2]
          /\ 1 \in DOMAIN tx
      BY <2>1, HeadTail
    <3> HIDE DEF rest
    <3>6. \A t : Refreshing(t).type = t
      BY DEF Refreshing, ForceCommand
    <3>7. SpringFollows(tx)'
      <4>1. \A i \in DOMAIN rest : rest[i].type # "constant"
        BY <3>1, <3>5 DEF SpringFollows
      <4> QED BY <2>1, <4>1 DEF SpringFollows, rest
    <3>8. ASSUME NEW t \in ForceType
          PROVE  Delivered(t)' \/ \E i \in DOMAIN tx' : tx'[i] = Refreshing(t)
      <4>0. OwnSlots(t) \subseteq Slots /\ OwnSlots(t) \subseteq SlotsOf(SlotMask[t])
        BY DEF OwnSlots, SlotsOf
      <4>1. CASE u = t
        <5>1. Holds(t)' /\ (RefreshStarts => Plays(t)')
          BY <1>5, <1>6, <3>4, <4>0, <4>1 DEF Holds, Plays, OwnSlots
        <5> QED BY <5>1 DEF Delivered
      <4>2. CASE u # t /\ \E i \in DOMAIN tx : tx[i] = Refreshing(t)
        <5>1. Refreshing(u) # Refreshing(t)
          BY <3>6, <4>2
        <5>2. \E i \in DOMAIN rest : rest[i] = Refreshing(t)
          BY <3>3, <3>5, <4>2, <5>1
        <5> QED BY <2>1, <5>2 DEF rest
      <4>3. CASE u # t /\ Delivered(t) /\ ~Enabled(t)
        BY <1>6, <4>3 DEF Delivered
      <4>4. CASE u # t /\ Delivered(t) /\ Enabled(t) /\ ~(u = "constant" /\ t = "spring")
        <5>1. \A s \in OwnSlots(t) : hw'.content[s] = hw.content[s]
          BY <3>3, <3>4, <4>0, <4>4, SharedSlots
        <5>2. OwnSlots(t)' = OwnSlots(t)
          BY <1>6 DEF OwnSlots
        <5>3. Holds(t)'
          BY <1>5, <4>4, <5>1, <5>2 DEF Delivered, Holds
        <5>4. RefreshStarts => Plays(t)'
          BY <3>4, <4>4 DEF Delivered, Plays
        <5> QED BY <5>3, <5>4 DEF Delivered
      <4>5. CASE u = "constant" /\ t = "spring" /\ Enabled(t)
        <5>1. tx[1].type = "constant"
          BY <3>3, <3>5, <3>6, <4>5
        <5>2. Len(tx) > 1 /\ tx[2] = Refreshing("spring")
          BY <3>1, <3>5, <4>5, <5>1 DEF SpringFollows
        <5>3. \E i \in DOMAIN rest : rest[i] = Refreshing(t)
          BY <3>5, <4>5, <5>2
        <5> QED BY <2>1, <5>3 DEF rest
      <4> QED BY <3>1, <4>1, <4>2, <4>3, <4>4, <4>5
    <3>9. ~(Len(calls') = 1) /\ ~Idle'
      BY <1>2, <2>1, <2>2 DEF Idle
    <3>10. TickOrUnsent'
      BY <1>0, <1>6, <2>1, <2>2, <3>2, <3>7, <3>8, <3>9 DEF TickOrUnsent, rest
    <3> QED BY <1>1, <2>1, <3>10
  <2>3. CASE calls = TickCalls /\ ~(clean /\ plugged /\ refreshed > 0)
    <3>1. ~(Len(calls') = 1) /\ ~Idle'
      BY <1>2, <2>1, <2>3 DEF Idle
    <3>2. TickOrUnsent'
      BY <1>0, <2>1, <2>3, <3>1 DEF TickOrUnsent
    <3> QED BY <1>1, <2>1, <3>2
  <2>4. CASE calls = Tail(TickCalls) /\ clean /\ plugged
    <3>1. tx = <<SetLeds(p)>>
      BY <1>2, <2>1, <2>4 DEF TickInv, TickOrUnsent, p
    <3>2. Head(tx) = SetLeds(p) /\ tx' = <<>>
      BY <2>1, <3>1
    <3>3. hw' = [hw EXCEPT !.leds = p]
      BY <2>1, <3>2 DEF Execute, SetLeds
    <3>4. hw'.leds = p /\ hw'.content = hw.content /\ hw'.playing = hw.playing
      BY <2>1, <3>3 DEF Hardware
    <3>5. refreshed > 0 => \A t \in ForceType : Delivered(t)'
      BY DeliveredKept, <1>2, <1>5, <2>4, <3>4 DEF TickInv, TickOrUnsent
    <3>6. calls' # TickCalls /\ ~Idle'
      BY <1>2, <2>1, <2>4 DEF Idle
    <3>7. TickOrUnsent'
      BY <1>0, <1>6, <3>2, <3>4, <3>5, <3>6 DEF TickOrUnsent
    <3> QED BY <1>1, <2>1, <3>7
  <2>5. CASE ~(clean /\ plugged)
    <3>1. TickOrUnsent'
      BY <2>1, <2>5 DEF TickOrUnsent
    <3> QED BY <1>1, <2>1, <3>1
  <2> QED BY <1>1, <2>2, <2>3, <2>4, <2>5
<1>10. CASE Close
  <2>1. /\ busy /\ tx = <<>> /\ ~busy' /\ calls' = Tail(calls) /\ reports_' = <<>> /\ hw' = hw
        /\ clean' = clean /\ plugged' = plugged /\ playing_' = playing_
    BY <1>1, <1>10 DEF Close, Return, WheelTypeOK
  <2>2. playing_ /\ calls' \in {Tail(TickCalls), <<>>}
    BY <1>1, <1>2, <2>1
  <2>3. CASE calls = TickCalls
    <3>1. clean /\ plugged /\ refreshed > 0 => \A t \in ForceType : Delivered(t)'
      BY DeliveredKept, <1>5, <2>1, <2>3 DEF TickInv, TickOrUnsent
    <3>2. calls' # TickCalls /\ ~Idle'
      BY <1>2, <2>1, <2>3 DEF Idle
    <3>3. TickOrUnsent'
      BY <1>0, <2>1, <3>1, <3>2 DEF TickOrUnsent
    <3> QED BY <2>1, <2>2, <3>3
  <2>4. CASE calls = Tail(TickCalls)
    <3>1. clean /\ plugged => hw'.leds = p
      BY <1>2, <2>1, <2>4 DEF TickInv, TickOrUnsent, p
    <3>2. clean /\ plugged /\ refreshed > 0 => \A t \in ForceType : Delivered(t)'
      BY DeliveredKept, <1>2, <1>5, <2>1, <2>4 DEF TickInv, TickOrUnsent
    <3>3. calls' # TickCalls
      BY <1>2, <2>1, <2>4
    <3>4. TickOrUnsent'
      BY <1>0, <1>6, <2>1, <3>1, <3>2, <3>3 DEF TickOrUnsent
    <3> QED BY <2>1, <2>2, <3>4
  <2> QED BY <1>1, <2>3, <2>4
<1>11. CASE OpenFails \/ WriteFails \/ CloseFails
  <2>1. /\ ~busy' /\ calls' = Tail(calls) /\ reports_' = <<>> /\ ~clean'
        /\ playing_' \in {playing_, FlagAfter(Head(calls).method)}
        /\ ~busy => playing_' = FlagAfter(Head(calls).method)
    BY <1>1, <1>3, <1>11 DEF OpenFails, WriteFails, CloseFails, Begin, Return
  <2>2. playing_' /\ calls' \in {Tail(TickCalls), <<>>}
    BY <1>1, <1>2, <1>3, <1>4, <2>1
  <2>3. TickOrUnsent'
    BY <2>1 DEF TickOrUnsent
  <2> QED BY <2>1, <2>2, <2>3
<1> QED BY <1>5, <1>8, <1>9, <1>10, <1>11 DEF HandlerStep

(* The invariant, initially and in every step. *)
LEMMA TickInitInv == Init => TickInv
BY DEF Init, TickInv, TickOrUnsent

LEMMA TickStep ==
    ASSUME WheelTypeOK, WheelInv, PluginInv, TickInv, [Next]_vars
    PROVE  TickInv'
<1>0. /\ HandlerFits /\ PluginTypeOK
      /\ refreshed > 0 => /\ phase \in {"active", "shut"} /\ handler # "pause"
                          /\ phase = "active" => playing_
  BY DEF PluginInv, TickInv
<1>1. ASSUME handler' # "tick",
             refreshed' > 0 => /\ phase' \in {"active", "shut"} /\ handler' # "pause"
                               /\ phase' = "active" => playing_'
      PROVE  TickInv'
  BY <1>1 DEF TickInv, TickOrUnsent
<1>2. CASE LoadPlugin \/ InitFails \/ InitCalibrates \/ LoadReturns \/ InitReturns
  <2>1. refreshed' = refreshed
    BY <1>2 DEF LoadPlugin, InitFails, InitCalibrates, LoadReturns, InitReturns, stateVars
  <2>2. phase \notin {"active", "shut"}
    BY <1>0, <1>2 DEF LoadPlugin, InitFails, InitCalibrates, LoadReturns, InitReturns, Between, Done,
                      HandlerFits
  <2>3. handler' # "tick"
    BY <1>0, <1>2 DEF LoadPlugin, InitFails, InitCalibrates, LoadReturns, InitReturns, Between, Run,
                      HandlerFits
  <2> QED BY <1>0, <1>1, <2>1, <2>2, <2>3
<1>3. CASE SubstanceUnavailable \/ UnloadReturns \/ Kill \/ Paused
  <2>1. refreshed' = 0 /\ handler' # "tick"
    BY <1>3 DEF SubstanceUnavailable, UnloadReturns, Kill, NoProcess, Paused, Run
  <2> QED BY <1>1, <2>1
<1>4. CASE Started \/ FrameStart \/ ChannelChanges \/ FrameEndsIdle \/ Shutdown
  <2>1. /\ refreshed' = refreshed /\ handler = "none" /\ handler' = handler
        /\ playing_' = playing_ /\ phase' \in {phase, "shut"}
    BY <1>4 DEF Started, FrameStart, ChannelChanges, FrameEndsIdle, Shutdown, Between, stateVars,
                gameVars, wheelVars
  <2> QED BY <1>0, <1>1, <2>1
<1>5. CASE PauseReturns \/ Unload
  <2>1. /\ refreshed' = refreshed /\ phase' = phase /\ handler' \in {"none", "unload"}
        /\ handler = "pause" \/ phase # "active"
    BY <1>5 DEF PauseReturns, Unload, Done, Run, stateVars
  <2> QED BY <1>0, <1>1, <2>1
<1>6. CASE TickReturns
  <2>1. handler = "tick" /\ handler' = "none" /\ calls = <<>> /\ phase' = phase /\ playing_' = playing_
    BY <1>6 DEF TickReturns, Done, Idle, wheelVars
  <2>2. phase = "active" /\ playing_
    BY <1>0, <2>1, TickParts DEF TickInv, HandlerFits
  <2> QED BY <1>1, <2>1, <2>2
<1>7. CASE FrameEndsUpdating
  <2>1. /\ handler' = "tick" /\ calls' = TickCalls /\ reports_' = <<>> /\ ~busy'
        /\ UNCHANGED <<playing_, telemetry, phase, refreshed>>
    BY <1>7, BetweenHandlers DEF FrameEndsUpdating, Run, Submit, TickCalls
  <2>2. TickCalls' = TickCalls /\ TickCalls # <<>> /\ Len(TickCalls) = 2
    BY <2>1, TickParts DEF TickCalls
  <2> QED BY <1>0, <2>1, <2>2 DEF TickInv, TickOrUnsent, Idle
<1>8. CASE CallProceeds
  <2>1. HandlerStep /\ UNCHANGED pluginVars /\ handler # "none"
    BY <1>8, CallsAreMade DEF CallProceeds
  <2>2. CASE handler = "tick"
    BY <1>0, <2>1, <2>2, TickCallsStep DEF HandlerFits
  <2>3. CASE handler # "tick"
    <3>1. handler' = handler /\ refreshed' = refreshed /\ phase' = phase
      BY <2>1 DEF pluginVars, gameVars, stateVars
    <3>2. phase = "active" => handler = "pause"
      BY <1>0, <2>1, <2>3 DEF HandlerFits, PluginTypeOK, Handlers
    <3> QED BY <1>0, <1>1, <2>3, <3>1, <3>2
  <2> QED BY <2>2, <2>3
<1>9. CASE Unplugged
  <2>1. /\ ~plugged' /\ TickCalls' = TickCalls
        /\ UNCHANGED <<handler, calls, reports_, busy, playing_, refreshed, phase>>
    BY <1>9 DEF Unplugged, Unplug, pluginVars, gameVars, stateVars, TickCalls
  <2> QED BY <2>1 DEF TickInv, TickOrUnsent
<1>10. CASE UNCHANGED vars
  <2>1. /\ UNCHANGED <<wheelVars, handler, refreshed, phase, telemetry>>
        /\ TickCalls' = TickCalls /\ EnabledRefreshes' = EnabledRefreshes
        /\ SpringFollows(tx)' = SpringFollows(tx)
        /\ \A t : Refreshing(t)' = Refreshing(t) /\ Delivered(t)' = Delivered(t)
    BY <1>10 DEF vars, wheelVars, pluginVars, gameVars, stateVars, TickCalls, EnabledRefreshes,
                 Refreshing, Enabled, Holds, Plays, OwnSlots, Delivered, SpringFollows
  <2> QED BY <2>1 DEF TickInv, TickOrUnsent, wheelVars, Idle
<1> QED BY <1>2, <1>3, <1>4, <1>5, <1>6, <1>7, <1>8, <1>9, <1>10 DEF Next, Returns

(* What a tick owes the device, in every step of every session              *)
(* (fffb.cxx:112-129, wheel.hxx:342-375).                                   *)
THEOREM TickInvariant == Safety => []TickInv
<1>1. WheelTypeOK /\ WheelInv /\ PluginInv /\ TickInv /\ [Next]_vars => TickInv'
  BY TickStep
<1> QED BY <1>1, TickInitInv, PluginInvariant, PTL DEF Safety

(* A tick without a failed call leaves the LEDs of the current engine speed *)
(* on the device and, from the second one after a stop on, every enabled    *)
(* force in its slots, playing if the firmware starts what it refreshes     *)
(* (fffb.cxx:112-129, wheel.hxx:342-375).                                   *)
THEOREM TicksDeliver == Safety => TickDelivers
<1>1. Safety => [](WheelTypeOK /\ WheelInv /\ PluginInv) /\ []TickInv
  BY PluginInvariant, TickInvariant, PTL
<1>2. TickInv /\ [Next]_vars
        => [ Done("tick") /\ clean /\ plugged /\ handler' = "none" =>
               /\ hw.leds = LedPattern(telemetry.rpm)
               /\ refreshed > 0 => \A t \in ForceType : Delivered(t) ]_vars
  <2> SUFFICES ASSUME TickInv, Done("tick"), clean, plugged
               PROVE  /\ hw.leds = LedPattern(telemetry.rpm)
                      /\ refreshed > 0 => \A t \in ForceType : Delivered(t)
    OBVIOUS
  <2> QED BY TickParts DEF TickInv, TickOrUnsent, Done, Idle
<1> QED BY <1>1, <1>2, PTL DEF Safety, TickDelivers
=============================================================================
