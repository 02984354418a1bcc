# TLA+ models and proofs of fffb

fffb is a telemetry plugin for Euro Truck Simulator 2 and American Truck
Simulator on macOS. The game loads it as a shared library, calls it with
telemetry, and the plugin drives a Logitech force feedback wheel over USB HID.
This directory holds the TLA+ modules that model the plugin, the TLC
configurations that check them, and TLAPS proofs. Paths below are relative to
the repository (`include/fffb/...`, `source/fffb/...`).

To run a check: `tlc -config MCWheel.cfg MCWheel`. To check the proofs of a
module: `tlapm WheelProofs.tla`; the others are `ForcesProofs`,
`SimulatorProofs`, `ProtocolProofs`, `ProtocolLinkProofs`, `PluginProofs`,
`TelemetryClockProofs` and `DiscoveryProofs`.

## 1. The system

| Component | Source | State | Operations |
|---|---|---|---|
| Protocol: report builders | `joy/protocol.hxx`, `hid/report.hxx` | none | `download_force`, `refresh_force`, `play_force`, `stop_force`, `enable_`/`disable_`/`set_autocenter`, `set_led_pattern`, `set_range`, `init_sequence`, two `build_report` |
| Wheel | `joy/wheel.hxx` | `device_`, four `*_force_params`, `playing_`, the queue `reports_` | constructor, destructor, `calibrate`, direct methods and `q_` methods, `flush_reports` |
| HID transport | `hid/device.hxx` | the open handle; the device itself | `open`, `close`, `write_report` |
| Discovery | `hid/device.hxx`, the constructor in `joy/wheel.hxx` | the HID manager's set of devices, the list read from it | `list_hid_devices`, the choice of the wheel |
| Simulator | `force/simulator.hxx` | `prev_deflection_{l,r}_` and, through it, the wheel | `update_forces`, `initialize_wheel` |
| Plugin callbacks | `source/fffb/fffb.cxx` | `g_telemetry_paused`, `g_telemetry_state`, the static `ffb_rate_count`, `g_simulator` | init, frame start and end, paused/started, channel callbacks, shutdown, unload |
| Telemetry clock | `fffb.cxx`, `telemetry_frame_start` | `g_last_timestamp`, `g_telemetry_state.timestamp` | first frame, frame, restart of the game's timer, new session |
| RPM LEDs | `fffb.cxx`, `update_leds` | the wheel's LEDs | |
| Logging, versions, error strings, vendored `uti` and SDK headers | `util/*`, `deps/*` | none that matters | |

How they interact. The game calls one plugin function at a time on its own
thread. Frame after frame it calls `frame_start`, the channel callbacks (they
store a value in `g_telemetry_state`) and `frame_end`. Every fourth `frame_end`
of a driving player recomputes the forces (`simulator::update_forces`), sends
them with `wheel::refresh_forces` and sets the LEDs. A pause queues three
commands and flushes them. Loading the library runs the constructors of the
globals, which list the computer's HID devices, choose a wheel and reset it;
unloading it runs the wheel's destructor. A wheel call builds its reports, opens
the HID device with the seize option, writes the reports one by one and closes
it, and returns on the first step that fails.

What is hard here:

* Partial failure. A batch can fail between any two reports. The rest is
  dropped, the device stays open, and the flag `playing_`, set *before* the
  write, may no longer describe the device. Most callers ignore the result. A
  wheel that is unplugged fails every call from then on.
* Protocol sequence. `refresh_forces` means "play" or "update" depending on
  `playing_`, so what the device holds depends on the whole history.
* The device's state outlives the process. A crash leaves effects playing; the
  next load has to undo them.
* Stale state: disabled forces are skipped, not stopped; static and global
  variables survive pauses and a second initialization; device objects are
  pointed to and not retained.
* Interleaving with the player's hands: devices come and go while they are
  listed.
* Numeric edges: piecewise force curves cast to bytes and masked to three bits,
  unsigned time differences with a sentinel.

What makes each component correct:

* Protocol: a report is eight bytes and says what was meant; a request it cannot
  meet yields a report that touches no effect.
* Simulator: parameters fit their fields; the curves are monotone and
  symmetric; bumps are measured against the last update.
* Wheel: between two handlers `playing_ = FALSE` implies a silent device unless
  a stop command was lost, and a new process silences what a killed one left
  playing; nothing starts behind a cleared flag; no queued command is replayed
  later; a handler without failure releases the device;
  every command fits its report; every handler ends after a bounded number of
  steps, whatever fails.
* Plugin: the wheel is silent whenever nobody drives (but for a lost stop
  command, or a kill in use until the next load), reset after loading, restored
  by unloading, up to date while driving and again after failures; no handler
  gets stuck, and the device is not seized for good.
* Discovery: a wheel that is there is found, in any order of the list; no
  pointer dangles; no device stays seized.
* Clock: every stretch of time is counted once.

`PROJECT.json` lists the components, the hazards with their lines, and the code
each definition stands for.

## 2. Modules

```
Protocol   (bytes of a report)   <- extended by - ProtocolLink   (sender, wire, device)

ForceFeedback  (promise to the driver)      Wheel as WheelSafety  (promise to an owner)
      ^ implemented by                           ^ implemented by
      |                                          |
    Plugin ---- extends ---- Wheel ---- extends ---- Forces ---- used by ---- Simulator

Discovery  (before Wheel's Constructor)     Stopwatch <- implemented by - TelemetryClock
```

**Protocol** has the report builders byte by byte and `Decode`, the device's
reading of a report. The other modules deal in abstract commands (records such
as `[cmd |-> "STOP_FORCE", slots |-> Slots]`); what allows that is `RoundTrip`
for any request, and `ReportsArrive` for the commands the wheel really writes.
`Encode` is the classic protocol's, the only one implemented; `ForProtocol`
says what the others get.
`set_autocenter` joins its slope with `|` to a constant that has all three bits
set already, so the slope it writes is always the full one.

**ProtocolLink** puts the protocol class at one end of the line and the device at
the other: a request becomes the report on the `wire`, which the device reads
into `received`. It makes one request from the initial state. `Params` and
`Ranges` are the parameters and ranges requests may have; `Refused` covers the
protocols, commands and force types that have no report (`COUNT`, the last of
each enumeration, included), and `RefusalIsHarmless` is about what is written in
their place.

**Forces** has the settings of the four forces and the functions from telemetry
to settings and LEDs. Speed, lateral acceleration and brake are integers in
tenths, suspension deflection in millimetres; the code's floating point
arithmetic is exact rational arithmetic here and its casts are `\div`.

**Simulator** is `update_forces` as a state machine of its own over arbitrary
telemetry, the cheapest place to state properties of two successive updates.

**Wheel** is the wheel object with the device behind it. `calls` holds the
method calls the running handler has still to make, `tx` the reports the
current call has still to write.

| Action | Code |
|---|---|
| `Assign` | calibrate's assignments to force parameters |
| `Queue` | a `q_` method appends to `reports_` |
| `Open`, `OpenFails` | the call sets `playing_`, builds its batch and opens the device |
| `Write`, `WriteFails` | one report; a failed one may or may not have arrived |
| `Close`, `CloseFails` | the call returns |
| `Attach`, `Use`, `Detach` | construction with a device found; any operation of an owner; the end of the process |
| `Unplug` | the wheel loses its power; every later call fails, in whatever step it is |

The sequences of calls are definitions named for their code: `Constructor`,
`Calibrate`, `Reset` (`reset_wheel`), `Tick` (`update_ffb`), `Destructor`, and
two that use the `q_` methods fffb itself does not call. `hw` is the device:
contents of the four slots, which of them play, autocenter, LEDs, range, mode.
`lostStop`, `abandoned`, `clean` and `failures` are history variables; no action
of the code reads them, except that `MaxFailures` bounds `failures`. `lostStop`
is set by a stop command that fails, and by nothing else, and cleared by the
next one that arrives. `abandoned` is set when the process is killed in a handler
or with `playing_` set, and cleared when the next process finds the wheel
(`Attach`): from then on its constructor is answerable for the silence. Failures
of an unplugged wheel are not counted. What is not documented of the firmware is left
open: `RefreshStarts` says whether a refresh starts a stopped slot.

`WheelSafety` is at the same time the abstract specification of the wheel's
users: an owner that submits operations in any order.

**ForceFeedback** is the abstract specification of the whole plugin, in the
words of the person at the wheel: eight modes (off, loading, calibrating,
pausing, paused, driving, leaving, dead), the effects that play, and whether a
stop command was lost. It knows no frames, commands, queues, flags or handles.
Effects start in two modes only; a mode of rest is entered in silence, or with a
stop lost. `Die` leads from a mode of use to `dead`, the only way to leave effects
playing without a lost stop, and `Load` from there to `loading`, which ends like
the others in silence.

**Plugin** is the owner fffb has. A callback is one action that submits the
wheel calls it makes, the steps of `Wheel` that make them, and one action that
returns. The life of the process is `phase`: unloaded, loaded, active, failed
(initialization refused), shut (after `scs_telemetry_shutdown`), crashed (killed
at any step), aborted (an assertion failed). What the game may call when is
taken from the comments of the SDK headers: pause events and shutdown come
between frames, channel values within one, and the game starts paused. Loading
without a wheel, with a known and with an unknown one are alternatives of
`LoadPlugin`. `Mode` maps phase and handler to the modes of `ForceFeedback`: a
wheel is paused when the pause handler has returned, not when it is called, and
`dead` stands for `abandoned`. A kill between two handlers with `playing_` clear
is no death of that kind: the wheel is off, and has to be silent.

**Discovery** is what happens before `Constructor`: `CreateManager` opens all HID
devices with the seize option and does not look at the result, `CopyDevices`
copies the manager's set, `ReadDevice` makes a `hid_device` of one of them,
`ListReturns` and `DestroyManager` end the listing, `Consider` is one round of
the constructor's loop. `Plug` and `Unplug` may come between any two of these.
A property read of a device that has left may be 0. The set has no order, so
`ReadDevice` takes any device not yet read. `listed` stands for the manager's
set and then for its copy, which nobody releases: that leak keeps the objects
alive to which `hid_device` points without retaining them.

**TelemetryClock** is the arithmetic of `telemetry_frame_start` modulo the width
of `timestamp_t`, with a game whose timer runs, restarts, and is anywhere when a
session begins. **Stopwatch** is what it implements: time passes, is read once,
and is never counted before the first frame.

Definitions introduced as *wrong* (`ResetFlushesFirst`, `CalibrateUnchecked`, ...)
are the definitions after them with one plausible bug. `PROJECT.json`, under
`mutants`, pairs each with the property that fails when it is put in the place
of the right one; nothing else uses them.

## 3. Runs

| Run (cfg) | Question | Size |
|---|---|---|
| `MCProtocol` | Does every command fit eight bytes and arrive as meant, and every refusal do no harm? | 3 466 states |
| `MCSimulator` | Are forces and LEDs in range, symmetric, monotone; are bumps seen? | 380 states, 130 341 transitions |
| `MCWheel` | What do flag, queue and handle promise under any order of operations, failures, kills and an unplugged wheel; do their commands arrive as meant, and does each operation end? | 1 017 382 states |
| `MCPlugin` | Silence whenever nobody drives, reset at load and pause, restore at unload, current forces and LEDs after a tick | 1 683 760 states |
| `MCPluginLive` | Does every handler end, do updates keep coming, does the device recover after failures and does its seizure end; the two refinements | 129 185 states |
| `MCClock` (of `TelemetryClock`) | Is the sum of unsigned differences a stopwatch? | 3 014 states |
| `MCDiscovery` | Is a wheel found, does no pointer dangle, is every device given back? | 293 449 states |

Bounds, and why they are enough.

* `MCProtocol`: all 256 constant amplitudes, all damper parameters, all pairs of
  slope steps and slot sets; corners for the independent bytes of the spring. One
  request per behaviour, as reports do not depend on one another; this model
  stops by design (`CHECK_DEADLOCK FALSE`). The proofs cover all parameters.
* `MCSimulator`: speeds, brakes, accelerations, deflections and engine speeds at
  both sides of every threshold in the code, in any order.
* `MaxFailures` caps how many HID calls fail: 2 in `MCWheel` and `MCPlugin`, so
  that an error meets the state an earlier error left behind (an open handle, a
  lost stop); 1 in the liveness run. A third failure adds no new kind of state,
  as a failed call leaves only the flag, the handle and the device behind.
  Unplugging the wheel, after which every call fails, is not counted: it may
  come at any step of every run.
* `MCWheel`: one setting with all four forces enabled, one LED pattern, both
  kinds of wheel, and every order of the operations.
* `MCPlugin`: one driving speed, on and off the road, two engine speeds and a
  supported wheel. `MCPluginLive` drives on the road with one engine speed,
  which still changes from the initial zero.
* `refreshed` counts to 2: `TickDelivers` speaks from the second tick after a
  stop on.
* `MCClock`: a counter of 16 instead of 2^64 values and times up to 10, so that
  sums wrap around and differences do not; `MaxTimeAssumption` states that the
  game's timer never shows the sentinel.
* `MCDiscovery`: a supported wheel, a Logitech joystick that is not supported
  and a Logitech keyboard, in any order, each plugged in or out at any moment
  (a device that left does not return as the same object). The constructor ends
  and so does this model (`CHECK_DEADLOCK FALSE`).

What the properties say (each is commented where it is defined):

* `StoppedIsSilent`, `NoStartWhenStopped`, `QueueIsFlushed`,
  `CleanHandlerReleases`: the wheel's promises above. `StoppedIsSilent` excuses
  two things: a stop command the device did not get (`lostStop`), and the time
  between a kill in use and the next process that finds the wheel (`abandoned`).
  That this process then stops what it finds playing, though its own `playing_`
  starts out clear, is part of what it says. `CleanHandlerReleases` speaks of
  handlers without a failed call; a failed one leaves the device open, and
  `SeizureEnds` says how long. `WheelInv` is the inductive invariant behind them.
* `ReportsArrive`: every command under way fits the bytes of its report, and the
  device reads it as it was meant. The builders mask and shift what they are
  given, so this depends on what calibrate and the simulator ask for.
* `HandlersAreBounded`: each step of a handler leaves less `Work`, nothing but
  the end of the handler lets its owner add to it, and no handler begins with
  more than a calibration's 102. It is the safety half of `HandlersEnd`: no call
  is tried again, however it fails.
* `EffectsOnlyWhenDriving`, `InitOkIsSilent`, `RestIsSilent`, `LoadedIsReset`,
  `CleanPauseResets`, `UnloadRestores`, `TickDelivers`: what the player may rely
  on. `TickDelivers` asks for every slot of every enabled force: its current
  parameters (slot 0 being the spring's while the spring is enabled) and, with
  `RefreshStarts`, that it plays. Each says what it assumes of failures.
  `RestIsSilent` excuses what `StoppedIsSilent` does: a lost stop command, and a
  kill in use until the next load. A pause, a load, a failed calibration and an
  unloading are silent without either. `InitOkIsSilent`
  assumes nothing: all but three of calibrate's results are ignored, and yet a
  successful result is proof of silence. `PluginInv`, `ResetInv` and `TickInv`
  are the inductive invariants behind them.
* `ImplementsWheel`: every behaviour of the plugin is one of `WheelSafety`. The
  refinement mapping is the identity on the wheel's variables.
* `ImplementsForceFeedback`: every behaviour of the plugin is one of
  `ForceFeedback`, with `Mode` for its mode and the device's playing slots for
  its effects.
* `HandlersEnd`, `DrivingUpdates` (the forces are recomputed again and again),
  `FeedbackRecovers` (and the device comes to have them, whatever failed before)
  and `SeizureEnds` (and is then no longer left open between handlers) are the
  liveness properties of the plugin, `GivesAllBack` that of discovery.
  `FeedbackRecovers` speaks of the enabled forces. That they play is part of it
  only for a firmware that starts a stopped slot on a refresh, the
  `RefreshStarts = TRUE` of all the runs. With one that does not, a lost
  `PLAY_FORCE` is never repeated while driving: `refresh_forces` plays only when
  `playing_` is clear, and the failed call has set it (`wheel.hxx:298-375`); the
  property then promises the parameters alone. A slot whose force is disabled
  goes on playing and is no concern of it (see `MCOffroad`).
* `ClockInv` and `ImplementsStopwatch`: no difference wraps around, every
  stretch of time is counted once. `ImplementsStopwatch` maps to `pending` what
  the timer has shown since the last frame.
* `DiscoveryInv` contains the invariant of the constructor's loop: of the wheels
  seen so far it has the last; and that no device is seized once the choice has
  begun. A supported wheel does lose to an unknown
  Logitech joystick listed after it, and is logged as "unknown logitech wheel"
  even when it is chosen, because both its tests apply (`wheel.hxx:109-125`).
  `README.md:60` leaves room for that, so it is not a finding; `FindsAWheel` says
  what is left of the choice: some wheel, with the implemented protocol.

Fairness. `Spec` of `Plugin` assumes that a running handler goes on
(`WF(CallProceeds)`, `WF(Returns)`: IOKit's calls are synchronous and return,
with one result or the other) and that the game starts frames and ends those it
started (`WF(FrameStart)`, `WF(FrameEndsIdle \/ FrameEndsUpdating)`: its main
loop). Nothing is assumed of the player, of success, of the wheel staying
connected, or of which channels change. `DrivingUpdates` therefore speaks of
behaviours in which the player goes on driving, `FeedbackRecovers` of those in
which the wheel stays connected as well, and so does `SeizureEnds`; that failures end is the bound's doing,
and means that failures which never end are not expected to be repaired. `Spec`
of `Discovery` assumes that the constructor goes on (`WF(ConstructorStep)`), and
nothing of the devices.

### Where the code departs from what is said of it

Each of these configurations checks one property that a comment, message,
assertion or document states, and TLC finds it violated.

| Run (cfg) | Statement | What happens |
|---|---|---|
| `MCPauseMessage` | "telemetry paused, force feedback stopped" (`fffb.cxx:174`) | the message follows a failed flush as well; the effects play on |
| `MCSlot0` | slot 0 is the constant force's (`README.md:36`) | after a tick without a failure, on a connected wheel, it is not: the spring's mask `0b0011` covers slot 0 and is written later |
| `MCOffroad` | the trapezoid "activates on off-road surfaces" (`README.md:39`) | back on the road it is disabled and never stopped |
| `MCDamper` | slot 2 damps the steering (`README.md:38`) | the first tick after power on plays slots nothing was loaded into |
| `MCNullValue` | `assert( value )` (`fffb.cxx:221`) | substances are registered with the `no_value` flag, which allows a null value |

The cause of the third, that a disabled force is skipped and not stopped
(`wheel.hxx:348-373`), also keeps slot 0 playing when the truck stands still,
where `simulator.hxx:129` says "no force when stopped".

## 4. Proofs

TLAPS proves these for every value of the constants, with the assumptions each
module states by name about its own (`SettingsAssumption`,
`ChannelValuesAssumption`, `AttachableAssumption`, ...); no theorem has another
hypothesis. Every safety property of the passing runs, each refinement included,
is proved. TLC evaluates the assumptions in every run of their module.

**ForcesProofs**: every force computed from any telemetry fits its fields.

**SimulatorProofs**: `SimulatorTypeCorrect`, `SpringOnlyStiffens`,
`DamperKeepsResisting`, `BumpsAreDetected`, `AlignmentIsFair`,
`LedsOnlyProgress`. The inductive invariant behind them is `SimInv`: the stored deflections
are those of the last telemetry and the forces those computed from it. It is
needed because the properties compare two successive settings while a step
determines only the second one from telemetry. The rest is arithmetic over the
segments of each curve. The runs sample the thresholds; the theorems cover all
integers. `LedsOnlyProgress` assumes engine speeds that are not negative.

**ProtocolProofs** has a lemma per report builder: for all parameters its bytes
fit and decode to the command. Below them are two facts about masks and nibbles
(a set of slots is recovered from its mask, a byte from its halves).
**ProtocolLinkProofs** carries them through the link: `ReportsFit`,
`CommandsArrive`, `RefusalsAreHarmless`, by the invariant `LinkInv`.

**WheelProofs**: `WheelTypeCorrect`, `WheelInvariant`, `WheelSilent`,
`WheelFlushes`, `WheelReleases`, `WheelStarts`, `WheelReportsArrive`,
`WheelIsBounded`. `StoppedIsSilent` speaks of the
moments between two handlers and is not inductive. `WheelInv` strengthens it
with what holds in the middle of one:

* `SilentOrStopping`: while the flag is clear, no stop was lost and no killed
  process is to blame, the device is silent or a stop command is under way (in
  the batch or in a queue that will be flushed) or one is still to be made by a
  handler that no failure ends (`StopToCome`). The last is what a load needs,
  which begins with a clear flag and a device that plays; `ConstructorStops`
  says that each constructor has such a call;
* `StartsHaveFlag`: a command that can start an effect is under way only with
  the flag set, and the handler that queued it does not clear it again;
* `Disciplined` and its counterpart for the queue: every sequence of calls ends
  in one that opens the device, and one that queues ends in the flush. This is
  what makes the queue empty and the handle closed at the end;
* `OneCallAtATime` and `StopsAll` (a stop command addresses all four slots).

The proof has a lemma per action, over lemmas on heads, tails and concatenation
of command sequences.

`WheelReportsArrive` joins the wheel to the bytes: its type invariant bounds
the parameters of every command under way, each force with the parameters of
its own type and its own slots, and for such commands the lemmas of
ProtocolProofs give the report. `WheelIsBounded` is a variant argument: a call
not begun counts six, as `q_refresh_forces` appends up to five commands, a call
in progress what it has still to write, and the queue its length unless it is
being flushed. Every step lowers the sum, which starts at no more than 6 times
the 17 calls and assignments of a calibration.

**PluginProofs** has five groups of theorems. `SettingsAllowed` is what `Plugin`
assumes of the constants it shares with `Wheel`: the forces and LED patterns
that `update_forces` and `update_leds` compute from the values a session can
report (`SessionTelemetry`, `StoredDeflection`) are among the settings and
patterns the wheel's owner may use. It holds of any `ChannelValues` with
`Settings = ForceSettings` and `Patterns = LedPatterns`, and of the small sets
of the runs.

1. `PluginInvariant`, `PluginTypeCorrect`, `PluginStarts`,
   `PluginInitIsSilent`, `PluginImplementsWheel`. `PluginInv` consists of
   * `HandlerFits`: which handler runs in which phase, and that there is a
     wheel whenever one runs, so that each step is one `WheelSafety` allows;
   * `QuietInPause`: initialization, the pause handler and the destructor, in
     whatever step they are, end with the flag cleared. Silence in a pause then follows from
     the wheel's invariant: the flag is clear, and a clear flag means silence;
   * `NothingStarts`, for all handlers but calibration and tick: no call and no
     command on its way can start an effect (`EffectsOnlyWhenDriving`);
   * `InitEndsInStop`: initialization ends in a stop whose result counts, and a
     stop that has been written has silenced the device (`InitOkIsSilent`);
   * `GivesUpStopped`: a calibration that gives up does so before it starts an
     effect or at one of its stops, so that the failed phase, too, is silent
     and the flag is clear in it.
2. `PluginKeepsPromise` (`ImplementsForceFeedback`) and `PluginRests`
   (`RestIsSilent`): each action maps to a step of `ForceFeedback` or to a
   stutter; the invariants above say that rest is reached in silence, a load's
   and an unloading's included. What they excuse is a lost stop command and the
   mode `dead`; neither theorem says anything of the time between a kill in use
   and the next load.
   `RestSilent` shows that the abstract specification has the property by
   itself, and `PluginRests` is that theorem carried through the refinement.
3. `ResetInvariant`, `LoadingResets`, `PausingResets`, `UnloadingRestores`. What
   a handler leaves behind says nothing about its middle, so `ResetInv` follows
   the device through it: the resetting handlers send only commands that do
   not undo one another (`OnlyResets`), what is not yet as it should be is
   still to be sent as long as no call failed (`ResetOrUnsent`), and an
   unplugged wheel is one just powered on.
4. `TickInvariant`, `TicksDeliver`, in the same way: `TickOrUnsent` says that an
   enabled force whose slots do not all hold its current parameters, or do not
   all play, is still to be refreshed by the running tick, and `TickInv` that
   the flag is set from the first tick after a stop on, so that later ticks
   refresh and do not play. The constant force and the spring share slot 0, so
   the order of a refresh matters: `SpringFollows` says that while the constant
   force is still to be written, the enabled spring is written right after it.
5. `PluginReportsArrive` and `PluginHandlersAreBounded`: what the wheel's owner
   may rely on, through `PluginImplementsWheel`.

**TelemetryClockProofs**: `ClockInvariant`, `ClockIsStopwatch`. `ClockInv` bounds
the stored time by the timer, or says that the next frame will report a restart;
with it every modular difference is the exact one, and the refinement is an
identity of sums modulo `Modulus`, for every width.

**DiscoveryProofs**: `DiscoveryInvariant`, `WheelIsFound`, `NothingDangles`,
`NothingStaysSeized`, `ConstructorIsBounded`, `OnlyVendorDecides`, for any set of
devices. `ReadInFull` says that whatever
stayed connected has been read correctly, and `LastWheelWins` what the loop has
so far; a wheel is found because both hold when the loop has seen all.
`OnlyVendorDecides`: the second test takes every device the first one takes.
`NothingStaysSeized` and `ConstructorIsBounded` are the safety halves of `GivesAllBack`: nothing is seized
when the choice begins, and every step of the constructor enters its next stage
or shrinks a set (`Unread`, `Unconsidered`) to which plugging devices in or out
adds nothing.

Only model-checked: the liveness properties (`HandlersEnd`, `DrivingUpdates`,
`FeedbackRecovers`, `SeizureEnds`, `GivesAllBack`), as temporal proofs with
fairness and ENABLED are out of the prover's reach. What they rest on is proved:
the bounds above, `TicksDeliver` for `FeedbackRecovers`, and `WheelReleases` for
`SeizureEnds`.

## 5. Not modelled

* `read_report` of the device (it is not implemented), its string properties and
  the two frequency maps of the simulator: nothing calls or reads them.
* Orientation, gear, steering, throttle, clutch: stored, never read.
* Version checks and logging: they change no state; the refused SDK version
  returns before anything is touched.
* The sleeps of `calibrate`: time passes between any two steps anyway.
* Floating point rounding: thresholds and slopes are exact here.
* Two processes at once: a plugin and another program that seizes the wheel
  appear as a call that fails.
* A release build. `build_and_install.sh` sets no build type, so assertions stay
  enabled; the commands of `README.md:82` configure with
  `-DCMAKE_BUILD_TYPE=Release`, which drops them, and the null value of
  `MCNullValue` is then dereferenced (`fffb.cxx:221-225`).
* The header files of the vendored `uti` library and of the telemetry SDK; what
  the latter say of the order of the game's calls is the environment of
  `Plugin`.

## 6. Plan

The order of the work was Protocol and Forces, Simulator, Wheel with its proofs,
Plugin with its runs and its refinement of the wheel; then the fault of an
unplugged wheel, `ForceFeedback` and its refinement, the liveness of driving,
`TelemetryClock`, `Discovery`, the link of `Protocol`, and the proofs of what
was only model-checked, the bytes of the wheel's commands and the bound on its
handlers among them. What is left is composing `Discovery` with `Plugin`,
so that the device `LoadPlugin` takes comes from the list instead of being any.
The two have no step in common, as the constructor calls the device only after
the choice; the composition would show the hand-over of `device_` and nothing
else.
