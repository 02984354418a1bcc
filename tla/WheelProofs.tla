----------------------------- MODULE WheelProofs -----------------------------
(***************************************************************************)
(* Proofs about module Wheel: type correctness, the inductive invariant    *)
(* WheelInv, the safety properties that follow from it, the bytes of the   *)
(* commands, and the bound on the steps of a handler.                      *)
(***************************************************************************)
EXTENDS Wheel, ForcesProofs, ProtocolProofs

-----------------------------------------------------------------------------
(* The commands the wheel builds are commands, of the kind their name says.  *)
LEMMA CommandTypes ==
    /\ StopAll \in Commands /\ AutoOff \in Commands /\ AutoOn \in Commands
    /\ PlayEnabled \in Commands /\ NativeMode \in Commands /\ SetRange(900) \in Commands
    /\ \A p \in LedPatterns : SetLeds(p) \in Commands
<1>1. StopAll \in SlotCommands /\ AutoOff \in SlotCommands /\ AutoOn \in SlotCommands
  BY DEF StopAll, AutoOff, AutoOn, SlotCommand, SlotCommands
<1>2. PlayEnabled \in SlotCommands
  <2>1. UNION {SlotsOf(SlotMask[t]) : t \in {u \in ForceType : Enabled(u)}} \in SUBSET Slots
    BY DEF SlotsOf
  <2> QED BY <2>1 DEF PlayEnabled, SlotCommand, SlotCommands
<1>3. NativeMode \in ModeCommands /\ SetRange(900) \in RangeCommands
  BY DEF NativeMode, SetRange, ModeCommands, RangeCommands, Word
<1>4. \A p \in LedPatterns : SetLeds(p) \in LedCommands
  BY DEF SetLeds, LedCommands
<1> QED BY <1>1, <1>2, <1>3, <1>4 DEF Commands

LEMMA ForceCommandType ==
    ASSUME NEW name \in {"DL_FORCE", "REFRESH_FORCE"}, NEW t \in ForceType,
           NEW p \in AllParams[t]
    PROVE  ForceCommand(name, t, p) \in {c \in Commands : c.cmd = name}
<1>0. ForceCommand(name, t, p) \in Loads(t)
  BY DEF ForceCommand, Loads
<1>1. ForceCommand(name, t, p) \in ForceCommands /\ ForceCommand(name, t, p).cmd = name
  BY <1>0 DEF ForceCommand, ForceCommands, ForceType
<1> QED BY <1>1 DEF Commands

(* A force's parameters are of its type.                                    *)
LEMMA ParamsType ==
    ASSUME forces \in ForceSettings, NEW t \in ForceType PROVE forces[t].params \in AllParams[t]
<1>1. /\ forces["constant"].params \in ConstantParams
      /\ forces["spring"].params \in SpringParams
      /\ forces["damper"].params \in DamperParams
      /\ forces["trapezoid"].params \in TrapezoidParams
  BY DEF ForceSettings
<1> QED BY <1>1 DEF ForceType, AllParams

(* download_forces and refresh_forces write commands of their own kind only. *)
LEMMA PerForceType ==
    ASSUME forces \in ForceSettings, NEW name \in {"DL_FORCE", "REFRESH_FORCE"}
    PROVE  PerForce(name) \in Seq({c \in Commands : c.cmd = name})
<1> DEFINE Named == {c \in Commands : c.cmd = name}
           one(t) == IF Enabled(t) THEN <<ForceCommand(name, t, forces[t].params)>> ELSE <<>>
<1>2. ASSUME NEW t \in ForceType PROVE one(t) \in Seq(Named)
  <2>1. ForceCommand(name, t, forces[t].params) \in Named
    BY ParamsType, ForceCommandType
  <2> HIDE DEF Named
  <2> QED BY <2>1
<1>3. /\ one("constant") \in Seq(Named) /\ one("spring") \in Seq(Named)
      /\ one("damper") \in Seq(Named) /\ one("trapezoid") \in Seq(Named)
  BY <1>2 DEF ForceType
<1>4. PerForce(name) = one("constant") \o one("spring") \o one("damper") \o one("trapezoid")
  BY DEF PerForce
<1> HIDE DEF one, Named
<1>5. one("constant") \o one("spring") \o one("damper") \o one("trapezoid") \in Seq(Named)
  BY <1>3
<1> QED BY <1>4, <1>5 DEF Named

-----------------------------------------------------------------------------
LEMMA SeqWiden ==
    ASSUME NEW S, NEW T, S \subseteq T, NEW s \in Seq(S)
    PROVE  s \in Seq(T)
<1>1. s \in [1 .. Len(s) -> T] /\ Len(s) \in Nat
  OBVIOUS
<1> QED BY <1>1

(* What a call writes, and what a q_ method appends, are sequences of        *)
(* commands.                                                                *)
LEMMA PerForceCommands ==
    ASSUME forces \in ForceSettings, NEW name \in {"DL_FORCE", "REFRESH_FORCE"}
    PROVE  PerForce(name) \in Seq(Commands)
<1> DEFINE Named == {c \in Commands : c.cmd = name}
<1>1. PerForce(name) \in Seq(Named)
  BY PerForceType
<1>2. Named \subseteq Commands
  OBVIOUS
<1> HIDE DEF Named
<1> QED BY <1>1, <1>2, SeqWiden

LEMMA BatchType ==
    ASSUME WheelTypeOK, NEW call \in CallType, call.method \in IOMethods
    PROVE  Batch(call) \in Seq(Commands)
<1>1. /\ <<AutoOff>> \in Seq(Commands) /\ <<AutoOn>> \in Seq(Commands)
      /\ <<StopAll>> \in Seq(Commands) /\ <<PlayEnabled>> \in Seq(Commands)
      /\ <<NativeMode, SetRange(900)>> \in Seq(Commands) /\ <<>> \in Seq(Commands)
  <2> HIDE DEF Commands
  <2> QED BY CommandTypes
<1>2. <<SetLeds(call.pattern)>> \in Seq(Commands)
  <2>1. SetLeds(call.pattern) \in Commands
    BY CommandTypes DEF CallType
  <2> QED BY <2>1
<1>3. PerForce("DL_FORCE") \in Seq(Commands) /\ PerForce("REFRESH_FORCE") \in Seq(Commands)
  BY PerForceCommands DEF WheelTypeOK
<1>4. InitSequence \in Seq(Commands) /\ Refresh \in Seq(Commands)
  BY <1>1, <1>3 DEF InitSequence, Refresh
<1>5. reports_ \in Seq(Commands)
  BY DEF WheelTypeOK
<1> QED BY <1>1, <1>2, <1>3, <1>4, <1>5 DEF Batch, IOMethods

LEMMA QueuedType ==
    ASSUME WheelTypeOK, NEW call \in CallType, call.method \in QueueMethods
    PROVE  Queued(call) \in Seq(Commands)
<1>1. /\ <<AutoOff>> \in Seq(Commands) /\ <<AutoOn>> \in Seq(Commands)
      /\ <<StopAll>> \in Seq(Commands) /\ <<PlayEnabled>> \in Seq(Commands)
      /\ <<>> \in Seq(Commands)
  BY CommandTypes
<1>2. <<SetLeds(call.pattern)>> \in Seq(Commands)
  <2>1. SetLeds(call.pattern) \in Commands
    BY CommandTypes DEF CallType
  <2> QED BY <2>1
<1>3. PerForce("DL_FORCE") \in Seq(Commands) /\ PerForce("REFRESH_FORCE") \in Seq(Commands)
  BY PerForceCommands DEF WheelTypeOK
<1>4. (IF playing_ THEN <<>> ELSE <<PlayEnabled>>) \o PerForce("REFRESH_FORCE") \in Seq(Commands)
  BY <1>1, <1>3
<1> QED BY <1>1, <1>2, <1>3, <1>4 DEF Queued, QueueMethods

-----------------------------------------------------------------------------
(* The device stays a device. *)
LEMMA ExecuteType ==
    ASSUME NEW h \in Hardware, NEW c \in Commands
    PROVE  Execute(h, c) \in Hardware
<1>1. CASE c \in SlotCommands
  <2>1. c.slots \in SUBSET Slots /\ c.cmd \in {"AUTO_OFF", "AUTO_ON", "PLAY_FORCE", "STOP_FORCE"}
    BY <1>1 DEF SlotCommands
  <2>2. \A S \in SUBSET Slots : [h EXCEPT !.playing = S] \in Hardware
    BY DEF Hardware
  <2>3. \A b \in BOOLEAN : [h EXCEPT !.autocenter = b] \in Hardware
    BY DEF Hardware
  <2>4. h.playing \cup c.slots \in SUBSET Slots /\ h.playing \ c.slots \in SUBSET Slots
    BY <2>1 DEF Hardware
  <2>5. /\ [h EXCEPT !.playing = @ \cup c.slots] \in Hardware
        /\ [h EXCEPT !.playing = @ \ c.slots] \in Hardware
        /\ [h EXCEPT !.autocenter = TRUE] \in Hardware
        /\ [h EXCEPT !.autocenter = FALSE] \in Hardware
    BY <2>2, <2>3, <2>4
  <2> QED BY <2>1, <2>5 DEF Execute
<1>2. CASE c \in ForceCommands
  <2>1. Load(h, c) \in Hardware
    <3>1. [type |-> c.type, params |-> c.params] \in Effects
      <4>1. c.type \in ForceType /\ c.params \in AllParams[c.type]
        BY <1>2 DEF ForceCommands, Loads, ForceType
      <4>2. [type |-> c.type, params |-> c.params] \in Loaded(c.type)
        BY <4>1 DEF Loaded
      <4> QED BY <4>1, <4>2 DEF Effects, ForceType
    <3>2. \A f \in [Slots -> Effects] : [h EXCEPT !.content = f] \in Hardware
      BY DEF Hardware
    <3>3. [s \in Slots |-> IF s \in c.slots THEN [type |-> c.type, params |-> c.params]
                           ELSE h.content[s]] \in [Slots -> Effects]
      BY <3>1 DEF Hardware
    <3> QED BY <3>2, <3>3 DEF Load
  <2>2. c.slots \in SUBSET Slots /\ c.cmd \in {"DL_FORCE", "REFRESH_FORCE"}
    BY <1>2 DEF ForceCommands, Loads, SlotsOf
  <2>3. [Load(h, c) EXCEPT !.playing = @ \cup c.slots] \in Hardware
    BY <2>1, <2>2 DEF Hardware
  <2> QED BY <2>1, <2>2, <2>3 DEF Execute
<1>3. CASE c \in LedCommands
  <2>1. c.cmd = "LED_SET" /\ c.pattern \in LedPatterns
    BY <1>3 DEF LedCommands
  <2>2. [h EXCEPT !.leds = c.pattern] \in Hardware
    BY <2>1 DEF Hardware
  <2> QED BY <2>1, <2>2 DEF Execute
<1>4. CASE c \in RangeCommands
  <2>1. c.cmd = "RANGE_SET" /\ c.range \in Word
    BY <1>4 DEF RangeCommands
  <2>2. [h EXCEPT !.range = c.range] \in Hardware
    BY <2>1 DEF Hardware
  <2> QED BY <2>1, <2>2 DEF Execute
<1>5. CASE c \in ModeCommands
  <2>1. c.cmd = "NATIVE_MODE"
    BY <1>5 DEF ModeCommands
  <2>2. [h EXCEPT !.native = TRUE] \in Hardware
    BY DEF Hardware
  <2> QED BY <2>1, <2>2 DEF Execute
<1> QED BY <1>1, <1>2, <1>3, <1>4, <1>5 DEF Commands

LEMMA PowerOnType == PowerOn \in Hardware
BY DEF PowerOn, Hardware, Effects, LedPatterns, Word

(* calibrate's assignments keep every parameter in its range. *)
LEMMA Ranges ==
    /\ \A b \in {0, 8, 32, 48, 96, 126, 127, 128, 130, 160} : b \in Byte
    /\ 0 \in Slope /\ 3 \in Slope /\ 0 \in Bit /\ 0 \in Nibble /\ 6 \in Nibble
    /\ 0 \in LedPatterns
BY DEF Byte, Slope, Bit, Nibble, LedPatterns

LEMMA AssignedType ==
    ASSUME forces \in ForceSettings, NEW method \in Assignments
    PROVE  Assigned(method) \in ForceSettings
<1>1. /\ RightParams \in ConstantParams /\ LeftParams \in ConstantParams
      /\ ShakeParams \in TrapezoidParams
  BY Ranges DEF RightParams, LeftParams, ShakeParams, ConstantParams, TrapezoidParams
<1>2. /\ On(RightParams) \in [enabled : BOOLEAN, params : ConstantParams]
      /\ On(ShakeParams) \in [enabled : BOOLEAN, params : TrapezoidParams]
  BY <1>1 DEF On
<1>3. [forces EXCEPT !.constant = On(RightParams)] \in ForceSettings
  BY <1>2 DEF ForceSettings
<1>4. [forces EXCEPT !.constant.params = LeftParams] \in ForceSettings
  BY <1>1 DEF ForceSettings
<1>5. [forces EXCEPT !.constant.enabled = FALSE, !.trapezoid = On(ShakeParams)]
        \in ForceSettings
  BY <1>2 DEF ForceSettings
<1>6. [forces EXCEPT !.trapezoid.enabled = FALSE] \in ForceSettings
  BY DEF ForceSettings
<1> QED BY <1>3, <1>4, <1>5, <1>6 DEF Assigned, Assignments

-----------------------------------------------------------------------------
(* The scripts are sequences of calls, and disciplined. *)
Direct == {c \in CallType : c.method \in IOMethods \cup Assignments}

LEMMA CallTypes ==
    /\ \A m \in Methods : /\ Do(m) \in CallType /\ Do(m).method = m /\ Do(m).must = FALSE
                          /\ Must(m) \in CallType
    /\ \A m \in IOMethods \cup Assignments : Do(m) \in Direct /\ Must(m) \in Direct
    /\ \A m \in IOMethods, p \in LedPatterns : Call(m, p, FALSE) \in Direct
BY Ranges DEF Do, Must, Call, CallType, Direct, Methods

LEMMA MethodKinds ==
    /\ IOMethods \cap QueueMethods = {} /\ Assignments \cap QueueMethods = {}
    /\ IOMethods \cap Assignments = {} /\ QueuedStarting \subseteq QueueMethods
BY DEF IOMethods, QueueMethods, Assignments, QueuedStarting

(* A script of direct calls that ends in an IO call. *)
LEMMA DirectScript ==
    ASSUME NEW s \in Seq(Direct), s # <<>>, s[Len(s)].method \in IOMethods
    PROVE  s \in Seq(CallType) /\ Disciplined(s)
<1>1. s \in Seq(CallType)
  <2>1. Direct \subseteq CallType
    BY DEF Direct
  <2> QED BY <2>1, SeqWiden
<1>2. \A i \in DOMAIN s : s[i].method \notin QueueMethods
  <2>1. \A i \in DOMAIN s : s[i] \in Direct
    OBVIOUS
  <2> QED BY <2>1, MethodKinds DEF Direct
<1> QED BY <1>1, <1>2, MethodKinds DEF Disciplined, Makes

LEMMA CalibrateScript == Calibrate \in Seq(CallType) /\ Disciplined(Calibrate)
<1>1. \A m \in IOMethods \cup Assignments : Do(m) \in Direct /\ Must(m) \in Direct
  BY CallTypes
<1>2. Calibrate \in Seq(Direct)
  <2> DEFINE dis == Do("disable_autocenter")   en   == Do("enable_autocenter")
             stop == Do("stop_forces")         down == Do("download_forces")
             play == Do("play_forces")         ref  == Do("refresh_forces")
             md   == Must("disable_autocenter") ms  == Must("stop_forces")
             right == Do("turn right")         left == Do("turn left")
             shake == Do("shake")              end  == Do("shaken")
  <2>1. Calibrate = <<md, ms, right, down, play, left, ref, stop, shake, down, play,
                      stop, end, stop, en, dis, ms>>
    BY DEF Calibrate
  <2>2. /\ dis \in Direct /\ en \in Direct /\ stop \in Direct /\ down \in Direct
        /\ play \in Direct /\ ref \in Direct /\ md \in Direct /\ ms \in Direct
        /\ right \in Direct /\ left \in Direct /\ shake \in Direct /\ end \in Direct
    BY <1>1 DEF IOMethods, Assignments
  <2> HIDE DEF dis, en, stop, down, play, ref, md, ms, right, left, shake, end
  <2>3. <<md, ms, right, down, play, left, ref, stop, shake, down, play,
          stop, end, stop, en, dis, ms>> \in Seq(Direct)
    BY <2>2
  <2> QED BY <2>1, <2>3
<1>3. Calibrate # <<>> /\ Calibrate[Len(Calibrate)] = Must("stop_forces")
  BY DEF Calibrate
<1>4. Must("stop_forces").method \in IOMethods
  BY DEF Must, Call, IOMethods
<1> QED BY <1>2, <1>3, <1>4, DirectScript

LEMMA DirectScripts ==
    /\ \A dev \in Connected : Constructor(dev) \in Seq(CallType) /\ Disciplined(Constructor(dev))
    /\ Destructor \in Seq(CallType) /\ Disciplined(Destructor)
    /\ \A p \in Patterns : Tick(p) \in Seq(CallType) /\ Disciplined(Tick(p))
<1>1. /\ Do("init_protocol") \in Direct
      /\ Do("disable_autocenter") \in Direct /\ Do("enable_autocenter") \in Direct
      /\ Do("stop_forces") \in Direct /\ Do("refresh_forces") \in Direct
  BY CallTypes DEF IOMethods
<1>2. /\ Do("stop_forces").method \in IOMethods /\ Do("enable_autocenter").method \in IOMethods
      /\ \A p : Call("set_led_pattern", p, FALSE).method \in IOMethods
  BY DEF Do, Call, IOMethods
<1>3. ASSUME NEW dev \in Connected
      PROVE  Constructor(dev) \in Seq(CallType) /\ Disciplined(Constructor(dev))
  <2>1. CASE dev = "known"
    <3>1. Constructor(dev) =
            <<Do("init_protocol"), Do("disable_autocenter"), Do("stop_forces")>>
      BY <2>1 DEF Constructor
    <3>2. Constructor(dev) \in Seq(Direct)
      BY <1>1, <3>1
    <3>3. Constructor(dev) # <<>> /\ Constructor(dev)[Len(Constructor(dev))] = Do("stop_forces")
      BY <3>1
    <3> QED BY <1>1, <1>2, <3>1, <3>2, <3>3, DirectScript
  <2>2. CASE dev # "known"
    <3>1. Constructor(dev) = <<Do("disable_autocenter"), Do("stop_forces")>>
      BY <2>2 DEF Constructor
    <3>2. /\ Constructor(dev) \in Seq(Direct) /\ Constructor(dev) # <<>>
          /\ Constructor(dev)[Len(Constructor(dev))] = Do("stop_forces")
      BY <1>1, <3>1
    <3> QED BY <1>2, <3>2, DirectScript
  <2> QED BY <2>1, <2>2
<1>4. Destructor \in Seq(CallType) /\ Disciplined(Destructor)
  <2>1. /\ Destructor \in Seq(Direct) /\ Destructor # <<>>
        /\ Destructor[Len(Destructor)] = Do("enable_autocenter")
    BY <1>1 DEF Destructor
  <2> QED BY <1>2, <2>1, DirectScript
<1>5. ASSUME NEW p \in Patterns
      PROVE  Tick(p) \in Seq(CallType) /\ Disciplined(Tick(p))
  <2>1. Call("set_led_pattern", p, FALSE) \in Direct
    BY PatternsAssumption, CallTypes DEF IOMethods
  <2>2. ASSUME NEW a \in Direct, NEW b \in Direct PROVE <<a, b>> \in Seq(Direct)
    OBVIOUS
  <2>3. Tick(p) \in Seq(Direct)
    BY <1>1, <2>1, <2>2 DEF Tick
  <2>4. Tick(p) # <<>> /\ Tick(p)[Len(Tick(p))] = Call("set_led_pattern", p, FALSE)
    BY DEF Tick
  <2> QED BY <1>2, <2>3, <2>4, DirectScript
<1> QED BY <1>3, <1>4, <1>5

(* A script that queues commands and flushes them. *)
LEMMA QueueScripts ==
    /\ Reset \in Seq(CallType) /\ Disciplined(Reset)
    /\ QueuedPlay \in Seq(CallType) /\ Disciplined(QueuedPlay)
    /\ QueuedRefresh \in Seq(CallType) /\ Disciplined(QueuedRefresh)
<1>1. /\ Do("q_disable_autocenter") \in CallType /\ Do("q_enable_autocenter") \in CallType
      /\ Do("q_stop_forces") \in CallType /\ Do("q_set_led_pattern") \in CallType
      /\ Do("q_download_forces") \in CallType /\ Do("q_play_forces") \in CallType
      /\ Do("q_refresh_forces") \in CallType /\ Do("flush_reports") \in CallType
  BY CallTypes DEF Methods, QueueMethods, IOMethods
<1>2. /\ Do("q_disable_autocenter").method = "q_disable_autocenter"
      /\ Do("q_enable_autocenter").method = "q_enable_autocenter"
      /\ Do("q_stop_forces").method = "q_stop_forces"
      /\ Do("q_set_led_pattern").method = "q_set_led_pattern"
      /\ Do("q_download_forces").method = "q_download_forces"
      /\ Do("q_play_forces").method = "q_play_forces"
      /\ Do("q_refresh_forces").method = "q_refresh_forces"
      /\ Do("flush_reports").method = "flush_reports"
  BY DEF Do, Call
<1>3. \A m : ~Do(m).must
  BY DEF Do, Call
<1>4. Reset \in Seq(CallType) /\ QueuedPlay \in Seq(CallType) /\ QueuedRefresh \in Seq(CallType)
  BY <1>1 DEF Reset, QueuedPlay, QueuedRefresh
<1>5. EndsInFlush(Reset) /\ EndsInFlush(QueuedPlay) /\ EndsInFlush(QueuedRefresh)
  BY <1>2, <1>3 DEF Reset, QueuedPlay, QueuedRefresh, EndsInFlush
<1>6. \A i \in DOMAIN Reset : Reset[i].method \notin QueuedStarting
  BY <1>2 DEF Reset, QueuedStarting
<1>7. \A i \in DOMAIN QueuedPlay : QueuedPlay[i].method \notin Stopping
  BY <1>2 DEF QueuedPlay, Stopping
<1>8. \A i \in DOMAIN QueuedRefresh : QueuedRefresh[i].method \notin Stopping
  BY <1>2 DEF QueuedRefresh, Stopping
<1>9. "flush_reports" \in IOMethods
  BY DEF IOMethods
<1> QED BY <1>4, <1>5, <1>6, <1>7, <1>8, <1>9 DEF Disciplined, Makes, EndsInFlush

LEMMA ScriptTypes ==
    /\ \A script \in Scripts : script \in Seq(CallType) /\ Disciplined(script)
    /\ \A dev \in Connected : Constructor(dev) \in Seq(CallType) /\ Disciplined(Constructor(dev))
BY CalibrateScript, DirectScripts, QueueScripts DEF Scripts

LEMMA NonemptyScripts == \A script \in Scripts : script # <<>>
<1>1. Calibrate # <<>> /\ Reset # <<>> /\ Destructor # <<>>
  BY DEF Calibrate, Reset, Destructor
<1>2. QueuedPlay # <<>> /\ QueuedRefresh # <<>> /\ \A p \in Patterns : Tick(p) # <<>>
  BY DEF QueuedPlay, QueuedRefresh, Tick
<1> QED BY <1>1, <1>2 DEF Scripts

-----------------------------------------------------------------------------
(* Head and Tail, as the steps of a call use them. *)
LEMMA HeadTail ==
    ASSUME NEW S, NEW s \in Seq(S), s # <<>>
    PROVE  /\ Head(s) \in S /\ Head(s) = s[1] /\ 1 \in DOMAIN s
           /\ Tail(s) \in Seq(S) /\ Len(Tail(s)) = Len(s) - 1
           /\ \A i \in DOMAIN Tail(s) : i + 1 \in DOMAIN s /\ Tail(s)[i] = s[i + 1]
           /\ \A i \in DOMAIN s : i = 1 \/ (i - 1 \in DOMAIN Tail(s) /\ s[i] = Tail(s)[i - 1])
           /\ Tail(s) # <<>> => Tail(s)[Len(Tail(s))] = s[Len(s)]
           /\ Tail(s) = <<>> => Len(s) = 1
<1>1. Len(s) \in Nat /\ Len(s) >= 1 /\ DOMAIN s = 1 .. Len(s)
  OBVIOUS
<1>2. Head(s) \in S /\ Head(s) = s[1] /\ 1 \in DOMAIN s
  BY <1>1
<1>3. /\ Tail(s) \in Seq(S) /\ Len(Tail(s)) = Len(s) - 1
      /\ DOMAIN Tail(s) = 1 .. Len(s) - 1
  BY <1>1
<1>4. \A i \in DOMAIN Tail(s) : i + 1 \in DOMAIN s /\ Tail(s)[i] = s[i + 1]
  BY <1>1, <1>3
<1>5. ASSUME NEW i \in DOMAIN s, i # 1
      PROVE  i - 1 \in DOMAIN Tail(s) /\ s[i] = Tail(s)[i - 1]
  <2>1. i \in Nat /\ i - 1 \in 1 .. Len(s) - 1 /\ (i - 1) + 1 = i
    BY <1>1, <1>5
  <2> QED BY <1>3, <1>4, <2>1
<1>6. ASSUME Tail(s) # <<>> PROVE Tail(s)[Len(Tail(s))] = s[Len(s)]
  <2>1. Len(Tail(s)) # 0
    BY <1>3, <1>6
  <2>2. Len(s) - 1 \in DOMAIN Tail(s) /\ (Len(s) - 1) + 1 = Len(s)
    BY <1>1, <1>3, <2>1
  <2> QED BY <1>3, <1>4, <2>2
<1>7. ASSUME Tail(s) = <<>> PROVE Len(s) = 1
  <2>0. Len(<<>>) = 0
    OBVIOUS
  <2>1. Len(Tail(s)) = 0
    BY <1>7, <2>0, Zenon
  <2>2. Len(s) \in Nat /\ Len(Tail(s)) = Len(s) - 1
    BY <1>1, <1>3
  <2> QED BY <2>1, <2>2
<1> QED BY <1>2, <1>3, <1>4, <1>5, <1>6, <1>7

-----------------------------------------------------------------------------
(* Type correctness, step by step. *)
LEMMA ReturnType ==
    ASSUME WheelTypeOK, calls # <<>>, NEW ok \in BOOLEAN, NEW undelivered,
           Return(ok, undelivered), ok \/ MayFail
    PROVE  /\ busy' \in BOOLEAN /\ tx' \in Seq(Commands) /\ reports_' \in Seq(Commands)
           /\ calls' \in Seq(CallType) /\ result' \in BOOLEAN /\ lostStop' \in BOOLEAN
           /\ clean' \in BOOLEAN /\ failures' \in 0 .. MaxFailures
<1>1. Tail(calls) \in Seq(CallType) /\ <<>> \in Seq(CallType) /\ <<>> \in Seq(Commands)
  BY HeadTail DEF WheelTypeOK
<1>2. calls' \in Seq(CallType) /\ reports_' \in Seq(Commands) /\ tx' \in Seq(Commands)
  BY <1>1 DEF Return, WheelTypeOK
<1>3. failures' \in 0 .. MaxFailures
  BY MaxFailuresAssumption DEF Return, MayFail, WheelTypeOK
<1>4. busy' \in BOOLEAN /\ result' \in BOOLEAN /\ lostStop' \in BOOLEAN /\ clean' \in BOOLEAN
  BY DEF Return, WheelTypeOK
<1> QED BY <1>2, <1>3, <1>4

LEMMA FlagType == ASSUME playing_ \in BOOLEAN, NEW m PROVE FlagAfter(m) \in BOOLEAN
BY DEF FlagAfter

LEMMA InitType == WheelInit => WheelTypeOK
<1> SUFFICES ASSUME WheelInit PROVE WheelTypeOK
  OBVIOUS
<1>1. forces \in ForceSettings /\ hw \in Hardware
  BY DefaultForcesType, PowerOnType DEF WheelInit
<1>2. failures \in 0 .. MaxFailures
  BY MaxFailuresAssumption DEF WheelInit
<1>3. <<>> \in Seq(CallType) /\ <<>> \in Seq(Commands)
  OBVIOUS
<1>4. device \in Devices
  BY DEF WheelInit, Devices
<1> QED BY <1>1, <1>2, <1>3, <1>4 DEF WheelInit, WheelTypeOK

LEMMA HandlerType == WheelTypeOK /\ OneCallAtATime /\ HandlerStep => WheelTypeOK'
<1> SUFFICES ASSUME WheelTypeOK, OneCallAtATime, HandlerStep PROVE WheelTypeOK'
  OBVIOUS
<1> USE DEF WheelTypeOK
<1>0. busy => calls # <<>>
  BY DEF OneCallAtATime, Idle
<1>1. calls # <<>> => Head(calls) \in CallType /\ Tail(calls) \in Seq(CallType)
  BY HeadTail
<1>2. tx # <<>> => Head(tx) \in Commands /\ Tail(tx) \in Seq(Commands)
  BY HeadTail
<1>3. \A m : FlagAfter(m) \in BOOLEAN
  BY FlagType
<1>4. CASE Assign
  <2>1. forces' \in ForceSettings
    BY <1>4, AssignedType DEF Assign
  <2> QED BY <1>1, <1>4, <2>1 DEF Assign
<1>5. CASE Queue
  <2>1. Queued(Head(calls)) \in Seq(Commands)
    BY <1>1, <1>5, QueuedType DEF Queue
  <2>2. reports_' \in Seq(Commands)
    BY <1>5, <2>1 DEF Queue
  <2> QED BY <1>1, <1>3, <1>5, <2>2 DEF Queue
<1>6. CASE Open
  <2>1. Batch(Head(calls)) \in Seq(Commands)
    BY <1>1, <1>6, BatchType DEF Open, Begin
  <2> QED BY <1>3, <1>6, <2>1 DEF Open, Begin
<1>7. CASE OpenFails
  BY <1>3, <1>7, ReturnType DEF OpenFails, Begin
<1>8. CASE Write
  <2>1. hw' \in Hardware
    BY <1>2, <1>8, ExecuteType DEF Write
  <2>2. lostStop' \in BOOLEAN
    BY <1>8 DEF Write
  <2> QED BY <1>2, <1>8, <2>1, <2>2 DEF Write
<1>9. CASE WriteFails
  <2>1. hw' \in Hardware
    BY <1>2, <1>9, ExecuteType DEF WriteFails
  <2> QED BY <1>0, <1>9, <2>1, ReturnType DEF WriteFails
<1>10. CASE Close
  BY <1>0, <1>10, ReturnType DEF Close
<1>11. CASE CloseFails
  BY <1>0, <1>11, ReturnType DEF CloseFails
<1> QED BY <1>4, <1>5, <1>6, <1>7, <1>8, <1>9, <1>10, <1>11 DEF HandlerStep

LEMMA SubmitType ==
    ASSUME WheelTypeOK, NEW script, script \in Seq(CallType), NEW settings,
           settings \in ForceSettings, Submit(script, settings), device' \in Devices,
           plugged' \in BOOLEAN, plugged' => device' # "none",
           abandoned' \in BOOLEAN, abandoned' => device' = "none"
    PROVE  WheelTypeOK'
BY DEF WheelTypeOK, Submit

LEMMA GoneType == ASSUME WheelTypeOK, NEW killed \in BOOLEAN, Gone(killed) PROVE WheelTypeOK'
<1>1. forces' \in ForceSettings /\ device' \in Devices
  BY DefaultForcesType DEF Gone, Devices
<1>2. <<>> \in Seq(CallType) /\ <<>> \in Seq(Commands)
  OBVIOUS
<1>3. lostStop' \in BOOLEAN /\ abandoned' \in BOOLEAN
  BY DEF Gone, WheelTypeOK
<1>4. abandoned' => device' = "none"
  BY DEF Gone
<1> QED BY <1>1, <1>2, <1>3, <1>4 DEF Gone, WheelTypeOK

LEMMA UnplugType == ASSUME WheelTypeOK, Unplug PROVE WheelTypeOK'
<1>1. hw' \in Hardware /\ plugged' = FALSE
  BY PowerOnType DEF Unplug
<1>2. UNCHANGED <<device, forces, playing_, reports_, calls, busy, tx, result, handle,
                  lostStop, abandoned, clean, failures>>
  BY DEF Unplug
<1> HIDE DEF Hardware, CallType
<1> QED BY <1>1, <1>2 DEF WheelTypeOK

-----------------------------------------------------------------------------
(* What a command does to the effects that play. *)
LEMMA ExecutePlaying ==
    ASSUME NEW h \in Hardware, NEW c \in Commands
    PROVE  /\ c.cmd \notin {"PLAY_FORCE", "REFRESH_FORCE"} =>
                Execute(h, c).playing \subseteq h.playing
           /\ c.cmd = "STOP_FORCE" /\ c.slots = Slots => Execute(h, c).playing = {}
<1>1. h.playing \subseteq Slots
  BY DEF Hardware
<1>2. CASE c \in SlotCommands
  <2>1. c.cmd \in {"AUTO_OFF", "AUTO_ON", "PLAY_FORCE", "STOP_FORCE"}
    BY <1>2 DEF SlotCommands
  <2>2. /\ [h EXCEPT !.playing = @ \ c.slots].playing = h.playing \ c.slots
        /\ [h EXCEPT !.autocenter = TRUE].playing = h.playing
        /\ [h EXCEPT !.autocenter = FALSE].playing = h.playing
    BY DEF Hardware
  <2>3. CASE c.cmd = "STOP_FORCE"
    BY <1>1, <2>2, <2>3 DEF Execute
  <2>4. CASE c.cmd = "AUTO_OFF" \/ c.cmd = "AUTO_ON"
    BY <2>2, <2>4 DEF Execute
  <2> QED BY <2>1, <2>3, <2>4
<1>3. CASE c \in ForceCommands
  <2>1. c.cmd \in {"DL_FORCE", "REFRESH_FORCE"}
    BY <1>3 DEF ForceCommands, Loads
  <2>2. Load(h, c).playing = h.playing
    BY DEF Load, Hardware
  <2> QED BY <2>1, <2>2 DEF Execute
<1>4. CASE c \in LedCommands \cup RangeCommands \cup ModeCommands
  <2>1. c.cmd \in {"LED_SET", "RANGE_SET", "NATIVE_MODE"}
    BY <1>4 DEF LedCommands, RangeCommands, ModeCommands
  <2>2. /\ [h EXCEPT !.leds = c.pattern].playing = h.playing
        /\ [h EXCEPT !.range = c.range].playing = h.playing
        /\ [h EXCEPT !.native = TRUE].playing = h.playing
    BY DEF Hardware
  <2> QED BY <2>1, <2>2 DEF Execute
<1> QED BY <1>2, <1>3, <1>4 DEF Commands

(* Which of the commands of a call start or stop effects. *)
LEMMA CommandKinds ==
    /\ StopAll.cmd = "STOP_FORCE" /\ StopAll.slots = Slots
    /\ AutoOff.cmd = "AUTO_OFF" /\ AutoOn.cmd = "AUTO_ON" /\ PlayEnabled.cmd = "PLAY_FORCE"
    /\ NativeMode.cmd = "NATIVE_MODE" /\ SetRange(900).cmd = "RANGE_SET"
    /\ \A p : SetLeds(p).cmd = "LED_SET"
BY DEF StopAll, AutoOff, AutoOn, PlayEnabled, SlotCommand, NativeMode, SetRange, SetLeds

LEMMA PerForceKind ==
    ASSUME forces \in ForceSettings, NEW name \in {"DL_FORCE", "REFRESH_FORCE"}
    PROVE  \A i \in DOMAIN PerForce(name) : PerForce(name)[i].cmd = name
<1> DEFINE Named == {c \in Commands : c.cmd = name}
<1>1. \A i \in DOMAIN PerForce(name) : PerForce(name)[i] \in Named
  <2>1. PerForce(name) \in Seq(Named)
    BY PerForceType
  <2> HIDE DEF Named
  <2> QED BY <2>1
<1> QED BY <1>1

LEMMA BatchKind ==
    ASSUME WheelTypeOK, StopsAll(reports_), NEW call \in CallType, call.method \in IOMethods
    PROVE  /\ HasStart(Batch(call)) =>
                \/ call.method \in Starting
                \/ call.method = "flush_reports" /\ HasStart(reports_)
           /\ call.method \in Stopping => HasStop(Batch(call))
           /\ call.method = "flush_reports" => Batch(call) = reports_
           /\ StopsAll(Batch(call))
<1>1. \A i \in DOMAIN PerForce("DL_FORCE") : PerForce("DL_FORCE")[i].cmd = "DL_FORCE"
  BY PerForceKind DEF WheelTypeOK
<1>2. \A i \in DOMAIN PerForce("REFRESH_FORCE") :
         PerForce("REFRESH_FORCE")[i].cmd = "REFRESH_FORCE"
  BY PerForceKind DEF WheelTypeOK
<1> USE DEF Starting, Stopping, HasStart, HasStop, StopsAll
<1>3. CASE call.method = "init_protocol"
  BY <1>3, CommandKinds DEF Batch, InitSequence
<1>4. CASE call.method = "disable_autocenter"
  BY <1>4, CommandKinds DEF Batch
<1>5. CASE call.method = "enable_autocenter"
  BY <1>5, CommandKinds DEF Batch
<1>6. CASE call.method = "stop_forces"
  BY <1>6, CommandKinds DEF Batch
<1>7. CASE call.method = "download_forces"
  BY <1>7, <1>1 DEF Batch
<1>8. CASE call.method = "play_forces"
  BY <1>8, CommandKinds DEF Batch
<1>9. CASE call.method = "refresh_forces"
  BY <1>9, <1>2, CommandKinds DEF Batch, Refresh
<1>10. CASE call.method = "set_led_pattern"
  BY <1>10, CommandKinds DEF Batch
<1>11. CASE call.method = "flush_reports"
  BY <1>11 DEF Batch
<1> QED BY <1>3, <1>4, <1>5, <1>6, <1>7, <1>8, <1>9, <1>10, <1>11 DEF IOMethods

LEMMA QueuedKind ==
    ASSUME WheelTypeOK, NEW call \in CallType, call.method \in QueueMethods
    PROVE  /\ HasStart(Queued(call)) => call.method \in QueuedStarting
           /\ call.method \in Stopping => HasStop(Queued(call))
           /\ StopsAll(Queued(call))
<1>1. \A i \in DOMAIN PerForce("DL_FORCE") : PerForce("DL_FORCE")[i].cmd = "DL_FORCE"
  BY PerForceKind DEF WheelTypeOK
<1>2. \A i \in DOMAIN PerForce("REFRESH_FORCE") :
         PerForce("REFRESH_FORCE")[i].cmd = "REFRESH_FORCE"
  BY PerForceKind DEF WheelTypeOK
<1>3. PerForce("REFRESH_FORCE") \in Seq(Commands)
  BY PerForceCommands DEF WheelTypeOK
<1> USE DEF QueuedStarting, Stopping, HasStart, HasStop, StopsAll
<1>4. CASE call.method \in {"q_disable_autocenter", "q_enable_autocenter", "q_set_led_pattern"}
  <2>1. CASE call.method = "q_disable_autocenter"
    BY <2>1, CommandKinds DEF Queued
  <2>2. CASE call.method = "q_enable_autocenter"
    BY <2>2, CommandKinds DEF Queued
  <2>3. CASE call.method = "q_set_led_pattern"
    BY <2>3, CommandKinds DEF Queued
  <2> QED BY <1>4, <2>1, <2>2, <2>3
<1>5. CASE call.method = "q_stop_forces"
  BY <1>5, CommandKinds DEF Queued
<1>6. CASE call.method = "q_download_forces"
  BY <1>6, <1>1 DEF Queued
<1>7. CASE call.method = "q_play_forces"
  BY <1>7, CommandKinds DEF Queued
<1>8. CASE call.method = "q_refresh_forces"
  <2>1. \A i \in DOMAIN Queued(call) :
           Queued(call)[i].cmd \in {"PLAY_FORCE", "REFRESH_FORCE"}
    BY <1>2, <1>3, <1>8, CommandKinds DEF Queued
  <2> QED BY <1>8, <2>1
<1> QED BY <1>4, <1>5, <1>6, <1>7, <1>8 DEF QueueMethods

-----------------------------------------------------------------------------
(* The predicates on sequences, of a rest and of two parts. *)
LEMMA Rest ==
    ASSUME NEW s \in Seq(Commands), s # <<>>
    PROVE  /\ HasStart(Tail(s)) => HasStart(s)
           /\ HasStop(s) => Head(s).cmd = "STOP_FORCE" \/ HasStop(Tail(s))
           /\ StopsAll(s) => StopsAll(Tail(s))
           /\ Head(s).cmd \in {"PLAY_FORCE", "REFRESH_FORCE"} => HasStart(s)
           /\ StopsAll(s) /\ Head(s).cmd = "STOP_FORCE" => Head(s).slots = Slots
<1> DEFINE t == Tail(s)
<1>1. /\ Head(s) = s[1] /\ 1 \in DOMAIN s
      /\ \A i \in DOMAIN t : i + 1 \in DOMAIN s /\ t[i] = s[i + 1]
      /\ \A i \in DOMAIN s : i = 1 \/ (i - 1 \in DOMAIN t /\ s[i] = t[i - 1])
  BY HeadTail
<1> HIDE DEF t
<1>2. /\ HasStart(t) => HasStart(s)
      /\ HasStop(s) => s[1].cmd = "STOP_FORCE" \/ HasStop(t)
      /\ StopsAll(s) => StopsAll(t)
      /\ s[1].cmd \in {"PLAY_FORCE", "REFRESH_FORCE"} => HasStart(s)
      /\ StopsAll(s) /\ s[1].cmd = "STOP_FORCE" => s[1].slots = Slots
  BY <1>1 DEF HasStart, HasStop, StopsAll
<1> QED BY <1>1, <1>2 DEF t

LEMMA Parts ==
    ASSUME NEW s \in Seq(Commands), NEW t \in Seq(Commands)
    PROVE  /\ HasStart(s \o t) => HasStart(s) \/ HasStart(t)
           /\ HasStop(s) \/ HasStop(t) => HasStop(s \o t)
           /\ StopsAll(s) /\ StopsAll(t) => StopsAll(s \o t)
<1> DEFINE u == s \o t
<1>1. /\ \A i \in DOMAIN s : i \in DOMAIN u /\ u[i] = s[i]
      /\ \A i \in DOMAIN t : i + Len(s) \in DOMAIN u /\ u[i + Len(s)] = t[i]
      /\ \A i \in DOMAIN u : \/ i \in DOMAIN s /\ u[i] = s[i]
                             \/ i - Len(s) \in DOMAIN t /\ u[i] = t[i - Len(s)]
  OBVIOUS
<1> HIDE DEF u
<1>2. /\ HasStart(u) => HasStart(s) \/ HasStart(t)
      /\ HasStop(s) \/ HasStop(t) => HasStop(u)
      /\ StopsAll(s) /\ StopsAll(t) => StopsAll(u)
  BY <1>1 DEF HasStart, HasStop, StopsAll
<1> QED BY <1>2 DEF u

LEMMA Nothing == ~HasStart(<<>>) /\ ~HasStop(<<>>) /\ StopsAll(<<>>)
BY DEF HasStart, HasStop, StopsAll

(* The rest of a disciplined handler is disciplined. *)
LEMMA RestOfCalls ==
    ASSUME NEW s \in Seq(CallType), s # <<>>
    PROVE  /\ \A methods : Makes(Tail(s), methods) => Makes(s, methods)
           /\ \A methods : Makes(s, methods) => Head(s).method \in methods \/ Makes(Tail(s), methods)
           /\ (\A i \in DOMAIN s : ~s[i].must) =>
                ~Head(s).must /\ \A i \in DOMAIN Tail(s) : ~Tail(s)[i].must
           /\ \A methods : Head(s).method \in methods => Makes(s, methods)
           /\ Disciplined(s) => Disciplined(Tail(s))
           /\ EndsInFlush(s) /\ Head(s).method # "flush_reports" => EndsInFlush(Tail(s))
           /\ EndsInFlush(s) => ~Head(s).must
           /\ Disciplined(s) /\ Tail(s) = <<>> => Head(s).method \in IOMethods
<1> DEFINE t == Tail(s)
<1>1. /\ Head(s) = s[1] /\ 1 \in DOMAIN s
      /\ \A i \in DOMAIN t : i + 1 \in DOMAIN s /\ t[i] = s[i + 1]
      /\ t # <<>> => t[Len(t)] = s[Len(s)]
      /\ t = <<>> => Len(s) = 1
  BY HeadTail
<1>2. t \in Seq(CallType)
  BY HeadTail
<1> HIDE DEF t
<1>3. \A methods : Makes(t, methods) => Makes(s, methods)
  BY <1>1 DEF Makes
<1>4. \A methods : Head(s).method \in methods => Makes(s, methods)
  BY <1>1 DEF Makes
<1>5. EndsInFlush(s) /\ t # <<>> => EndsInFlush(t)
  BY <1>1 DEF EndsInFlush
<1>6. t = <<>> => s[Len(s)] = Head(s)
  BY <1>1
<1>7. EndsInFlush(s) /\ Head(s).method # "flush_reports" => EndsInFlush(t)
  BY <1>5, <1>6 DEF EndsInFlush
<1>8. \A methods : Makes(t, methods) => t # <<>>
  BY DEF Makes
<1>9. Disciplined(s) => Disciplined(t)
  BY <1>1, <1>3, <1>5, <1>8 DEF Disciplined
<1>10. EndsInFlush(s) => ~Head(s).must
  BY <1>1 DEF EndsInFlush
<1>11. Disciplined(s) /\ t = <<>> => Head(s).method \in IOMethods
  BY <1>6 DEF Disciplined
<1>12. ASSUME NEW methods, Makes(s, methods), Head(s).method \notin methods
       PROVE  Makes(t, methods)
  <2>1. PICK i \in DOMAIN s : s[i].method \in methods
    BY <1>12 DEF Makes
  <2>2. i - 1 \in DOMAIN t /\ t[i - 1] = s[i]
    <3>1. i # 1 /\ i \in 1 .. Len(s)
      BY <1>1, <1>12, <2>1
    <3>2. Len(t) = Len(s) - 1 /\ DOMAIN t = 1 .. Len(t) /\ Len(s) \in Nat
      BY HeadTail, <1>2 DEF t
    <3>3. i - 1 \in DOMAIN t /\ (i - 1) + 1 = i
      BY <3>1, <3>2
    <3> QED BY <1>1, <3>3
  <2> QED BY <2>1, <2>2 DEF Makes
<1>13. (\A i \in DOMAIN s : ~s[i].must) => ~Head(s).must /\ \A i \in DOMAIN t : ~t[i].must
  BY <1>1
<1> QED BY <1>3, <1>4, <1>7, <1>9, <1>10, <1>11, <1>12, <1>13 DEF t

(* A stop still to be made is so after any other call has returned.         *)
LEMMA StopRemains ==
    ASSUME calls \in Seq(CallType), calls # <<>>, StopToCome, ~busy', calls' = Tail(calls),
           busy \/ Head(calls).method \notin Stopping
    PROVE  StopToCome'
<1>1. \A i \in DOMAIN calls' : ~calls'[i].must
  BY RestOfCalls DEF StopToCome
<1>2. Makes(calls', Stopping)
  BY RestOfCalls DEF StopToCome, Unmade
<1> QED BY <1>1, <1>2 DEF StopToCome, Unmade

LEMMA StopReturns ==
    ASSUME calls \in Seq(CallType), calls # <<>>, StopToCome,
           NEW ok, NEW undelivered, Return(ok, undelivered),
           busy \/ Head(calls).method \notin Stopping
    PROVE  StopToCome'
<1>1. ~busy' /\ calls' = Tail(calls)
  BY RestOfCalls DEF Return, StopToCome
<1> QED BY <1>1, StopRemains

LEMMA NoCalls == /\ Disciplined(<<>>)
                 /\ \A methods : ~Makes(<<>>, methods)
BY DEF Disciplined, Makes

-----------------------------------------------------------------------------
(* The invariant, step by step.  When a call returns, what is left of the   *)
(* handler flushes what is left in the queue.                               *)
LEMMA ReturnInv ==
    ASSUME WheelTypeOK, WheelInv, calls # <<>>, Head(calls).method \in IOMethods,
           NEW ok \in BOOLEAN, NEW undelivered, Return(ok, undelivered)
    PROVE  /\ OneCallAtATime'
           /\ Disciplined(calls')
           /\ reports_' # <<>> => EndsInFlush(calls')
           /\ reports_' # <<>> => reports_' = reports_ /\ Head(calls).method # "flush_reports"
           /\ HasStart(reports_') => HasStart(reports_) /\ ~Makes(calls', Stopping)
           /\ StopsAll(tx') /\ StopsAll(reports_')
           /\ ~HasStart(tx')
           /\ ~busy'
<1>1. busy' = FALSE /\ tx' = <<>>
  BY DEF Return
<1>2. calls \in Seq(CallType)
  BY DEF WheelTypeOK
<1>3. calls' = Tail(calls) \/ (Head(calls).must /\ calls' = <<>>)
  BY DEF Return
<1>4. Disciplined(calls')
  <2>1. Disciplined(Tail(calls)) /\ Disciplined(<<>>)
    BY <1>2, RestOfCalls, NoCalls DEF WheelInv
  <2> QED BY <1>3, <2>1
<1>5. reports_' # <<>> => reports_' = reports_ /\ Head(calls).method # "flush_reports"
  BY DEF Return
<1>6. ASSUME reports_' # <<>> PROVE EndsInFlush(calls')
  <2>1. EndsInFlush(calls) /\ Head(calls).method # "flush_reports"
    BY <1>5, <1>6 DEF WheelInv
  <2>2. ~Head(calls).must /\ EndsInFlush(Tail(calls))
    BY <1>2, <2>1, RestOfCalls
  <2> QED BY <1>3, <2>2
<1>7. ASSUME HasStart(reports_') PROVE HasStart(reports_) /\ ~Makes(calls', Stopping)
  <2>1. reports_' # <<>>
    BY <1>7, Nothing
  <2>2. reports_' = reports_
    BY <1>5, <2>1
  <2>3. ~Makes(calls, Stopping)
    BY <1>7, <2>2 DEF WheelInv, StartsHaveFlag
  <2>4. ~Makes(Tail(calls), Stopping)
    BY <1>2, <2>3, RestOfCalls
  <2> QED BY <1>3, <1>7, <2>2, <2>4, NoCalls
<1>8. StopsAll(reports_')
  BY <1>5, Nothing DEF WheelInv
<1> QED BY <1>1, <1>4, <1>5, <1>6, <1>7, <1>8, Nothing DEF OneCallAtATime

LEMMA AssignInv == WheelTypeOK /\ WheelInv /\ Assign => WheelInv'
<1> SUFFICES ASSUME WheelTypeOK, WheelInv, Assign PROVE WheelInv'
  OBVIOUS
<1>1. /\ calls # <<>> /\ Head(calls).method \in Assignments /\ calls' = Tail(calls)
      /\ UNCHANGED <<playing_, reports_, busy, tx, handle, hw, lostStop, abandoned, clean>>
  BY DEF Assign
<1>2. calls \in Seq(CallType)
  BY DEF WheelTypeOK
<1>3. ~busy /\ tx = <<>>
  BY <1>1, MethodKinds DEF WheelInv, OneCallAtATime
<1>4. Disciplined(calls') /\ calls' # <<>>
  BY <1>1, <1>2, RestOfCalls, MethodKinds DEF WheelInv
<1>5. reports_ # <<>> => EndsInFlush(calls')
  <2>1. Head(calls).method # "flush_reports"
    BY <1>1 DEF Assignments
  <2> QED BY <1>1, <1>2, <2>1, RestOfCalls DEF WheelInv
<1>6. StartsHaveFlag'
  BY <1>1, <1>2, RestOfCalls DEF WheelInv, StartsHaveFlag
<1>7. SilentOrStopping'
  <2>1. StopUnderWay => StopUnderWay'
    BY <1>1, <1>3 DEF StopUnderWay
  <2>2. StopToCome => StopToCome'
    <3>1. Head(calls).method \notin Stopping
      BY <1>1 DEF Assignments, Stopping
    <3> QED BY <1>1, <1>2, <1>3, <3>1, StopRemains
  <2> QED BY <1>1, <2>1, <2>2 DEF WheelInv, SilentOrStopping
<1> QED BY <1>1, <1>3, <1>4, <1>5, <1>6, <1>7 DEF WheelInv, OneCallAtATime, Idle

LEMMA QueueInv == WheelTypeOK /\ WheelInv /\ Queue => WheelInv'
<1> SUFFICES ASSUME WheelTypeOK, WheelInv, Queue PROVE WheelInv'
  OBVIOUS
<1> DEFINE call  == Head(calls)
           added == Queued(call)
<1>1. /\ calls # <<>> /\ call.method \in QueueMethods /\ calls' = Tail(calls)
      /\ reports_' = reports_ \o added /\ playing_' = FlagAfter(call.method)
      /\ UNCHANGED <<busy, tx, handle, hw, lostStop, abandoned, clean>>
  BY DEF Queue
<1>2. calls \in Seq(CallType) /\ call \in CallType
  BY <1>1, HeadTail DEF WheelTypeOK
<1>3. ~busy /\ tx = <<>>
  BY <1>1, MethodKinds DEF WheelInv, OneCallAtATime
<1>4. /\ added \in Seq(Commands) /\ reports_ \in Seq(Commands)
      /\ HasStart(added) => call.method \in QueuedStarting
      /\ call.method \in Stopping => HasStop(added)
      /\ StopsAll(added)
  BY <1>1, <1>2, QueuedType, QueuedKind DEF WheelTypeOK
<1> HIDE DEF added
<1>5. Disciplined(calls') /\ calls' # <<>> /\ EndsInFlush(calls')
  <2>1. Disciplined(calls) /\ Makes(calls, QueueMethods)
    BY <1>1, <1>2, RestOfCalls DEF WheelInv
  <2>2. EndsInFlush(calls) /\ call.method # "flush_reports"
    BY <1>1, <2>1 DEF Disciplined, QueueMethods
  <2> QED BY <1>1, <1>2, <2>1, <2>2, RestOfCalls, MethodKinds
<1>6. StopsAll(reports_')
  BY <1>1, <1>4, Parts DEF WheelInv
<1>7. ASSUME HasStart(reports_') PROVE playing_' /\ ~Makes(calls', Stopping)
  <2>1. HasStart(reports_) \/ HasStart(added)
    BY <1>1, <1>4, <1>7, Parts
  <2>2. CASE HasStart(added)
    <3>1. call.method \in QueuedStarting
      BY <1>4, <2>2
    <3>2. playing_'
      BY <1>1, <3>1 DEF FlagAfter, QueuedStarting, Stopping, Starting
    <3>3. ~Makes(calls, Stopping)
      BY <1>1, <1>2, <3>1, RestOfCalls DEF WheelInv, Disciplined
    <3> QED BY <1>1, <1>2, <3>2, <3>3, RestOfCalls
  <2>3. CASE HasStart(reports_)
    <3>1. playing_ /\ ~Makes(calls, Stopping)
      BY <2>3 DEF WheelInv, StartsHaveFlag
    <3>2. call.method \notin Stopping /\ ~Makes(calls', Stopping)
      BY <1>1, <1>2, <3>1, RestOfCalls
    <3> QED BY <1>1, <3>1, <3>2 DEF FlagAfter
  <2> QED BY <2>1, <2>2, <2>3
<1>8. StartsHaveFlag'
  BY <1>1, <1>3, <1>7, Nothing DEF StartsHaveFlag
<1>9. SilentOrStopping'
  <2>1. SUFFICES ASSUME ~playing_', ~lostStop', ~abandoned'
                 PROVE  hw'.playing = {} \/ HasStop(reports_') \/ StopToCome'
    BY <1>1, <1>3 DEF SilentOrStopping, StopUnderWay
  <2>2. CASE call.method \in Stopping
    BY <1>1, <1>4, <2>2, Parts
  <2>3. CASE call.method \notin Stopping
    <3>1. ~playing_ /\ ~lostStop /\ ~abandoned
      BY <1>1, <2>1, <2>3 DEF FlagAfter
    <3>2. hw.playing = {} \/ HasStop(reports_) \/ StopToCome
      BY <1>3, <3>1, Nothing DEF WheelInv, SilentOrStopping, StopUnderWay
    <3>3. StopToCome => StopToCome'
      BY <1>1, <1>2, <1>3, <2>3, StopRemains
    <3> QED BY <1>1, <1>4, <3>2, <3>3, Parts
  <2> QED BY <2>2, <2>3
<1> QED BY <1>1, <1>3, <1>5, <1>6, <1>8, <1>9, Nothing DEF WheelInv, OneCallAtATime, Idle

LEMMA OpenInv == WheelTypeOK /\ WheelInv /\ Open => WheelInv'
<1> SUFFICES ASSUME WheelTypeOK, WheelInv, Open PROVE WheelInv'
  OBVIOUS
<1> DEFINE call == Head(calls)
<1>1. /\ calls # <<>> /\ call.method \in IOMethods /\ ~busy /\ busy'
      /\ playing_' = FlagAfter(call.method) /\ tx' = Batch(call)
      /\ UNCHANGED <<reports_, calls, hw, lostStop, abandoned, clean>>
  BY DEF Open, Begin
<1>2. call \in CallType /\ calls \in Seq(CallType)
  BY <1>1, HeadTail DEF WheelTypeOK
<1>3. tx = <<>>
  BY <1>1 DEF WheelInv, OneCallAtATime
<1>4. /\ HasStart(tx') =>
           (call.method \in Starting \/ (call.method = "flush_reports" /\ HasStart(reports_)))
      /\ call.method \in Stopping => HasStop(tx')
      /\ call.method = "flush_reports" => tx' = reports_
      /\ StopsAll(tx')
  BY <1>1, <1>2, BatchKind DEF WheelInv
<1>5. ASSUME HasStart(reports_) PROVE playing_'
  <2>1. playing_ /\ ~Makes(calls, Stopping)
    BY <1>5 DEF WheelInv, StartsHaveFlag
  <2>2. call.method \in Stopping => Makes(calls, Stopping)
    BY <1>1, <1>2, RestOfCalls
  <2> QED BY <1>1, <2>1, <2>2 DEF FlagAfter
<1>6. StartsHaveFlag'
  <2>1. call.method \in Starting => playing_'
    BY <1>1 DEF FlagAfter, Starting, Stopping
  <2> QED BY <1>1, <1>4, <1>5, <2>1 DEF WheelInv, StartsHaveFlag
<1>7. SilentOrStopping'
  <2>1. SUFFICES ASSUME ~playing_', ~lostStop', ~abandoned'
                 PROVE  hw'.playing = {} \/ StopUnderWay' \/ StopToCome'
    BY DEF SilentOrStopping
  <2>2. CASE call.method \in Stopping
    BY <1>4, <2>2 DEF StopUnderWay
  <2>3. CASE call.method \notin Stopping
    <3>1. ~playing_ /\ ~lostStop /\ ~abandoned
      BY <1>1, <2>1, <2>3 DEF FlagAfter
    <3>2. hw.playing = {} \/ HasStop(reports_) \/ StopToCome
      BY <1>3, <3>1, Nothing DEF WheelInv, SilentOrStopping, StopUnderWay
    <3>3. ASSUME StopToCome PROVE StopToCome'
      <4>1. Makes(Tail(calls), Stopping)
        BY <1>1, <1>2, <2>3, <3>3, RestOfCalls DEF StopToCome, Unmade
      <4> QED BY <1>1, <3>3, <4>1 DEF StopToCome, Unmade
    <3> QED BY <1>1, <1>4, <3>2, <3>3 DEF StopUnderWay
  <2> QED BY <2>2, <2>3
<1> QED BY <1>1, <1>4, <1>6, <1>7 DEF WheelInv, OneCallAtATime, Idle

LEMMA OpenFailsInv == WheelTypeOK /\ WheelInv /\ OpenFails => WheelInv'
<1> SUFFICES ASSUME WheelTypeOK, WheelInv, OpenFails PROVE WheelInv'
  OBVIOUS
<1> DEFINE call == Head(calls)
<1>1. /\ calls # <<>> /\ call.method \in IOMethods /\ ~busy
      /\ playing_' = FlagAfter(call.method) /\ hw' = hw /\ abandoned' = abandoned
      /\ Return(FALSE, Batch(call))
  BY DEF OpenFails, Begin
<1>2. call \in CallType /\ calls \in Seq(CallType)
  BY <1>1, HeadTail DEF WheelTypeOK
<1>3. /\ OneCallAtATime' /\ Disciplined(calls')
      /\ reports_' # <<>> => EndsInFlush(calls')
      /\ reports_' # <<>> => reports_' = reports_ /\ call.method # "flush_reports"
      /\ HasStart(reports_') => HasStart(reports_) /\ ~Makes(calls', Stopping)
      /\ StopsAll(tx') /\ StopsAll(reports_') /\ ~HasStart(tx') /\ ~busy'
  BY <1>1, ReturnInv
<1>4. /\ clean' = FALSE /\ lostStop' = (lostStop \/ HasStop(Batch(call)))
      /\ call.method # "flush_reports" => reports_' = reports_
  BY <1>1 DEF Return
<1>5. StartsHaveFlag'
  <2>1. ASSUME HasStart(reports_') PROVE playing_'
    <3>1. playing_ /\ ~Makes(calls, Stopping)
      BY <1>3, <2>1 DEF WheelInv, StartsHaveFlag
    <3>2. call.method \in Stopping => Makes(calls, Stopping)
      BY <1>1, <1>2, RestOfCalls
    <3> QED BY <1>1, <3>1, <3>2 DEF FlagAfter
  <2> QED BY <1>3, <2>1 DEF StartsHaveFlag
<1>6. SilentOrStopping'
  <2>1. SUFFICES ASSUME ~playing_', ~lostStop', ~abandoned'
                 PROVE  hw'.playing = {} \/ HasStop(reports_') \/ StopToCome'
    BY <1>3 DEF SilentOrStopping, StopUnderWay
  <2>2. /\ call.method \in Stopping => HasStop(Batch(call))
        /\ call.method = "flush_reports" => Batch(call) = reports_
    BY <1>1, <1>2, BatchKind DEF WheelInv
  <2>3. call.method \notin Stopping /\ ~lostStop
    BY <1>4, <2>1, <2>2
  <2>4. ~playing_ /\ ~abandoned
    BY <1>1, <2>1, <2>3 DEF FlagAfter
  <2>5. hw.playing = {} \/ HasStop(reports_) \/ StopToCome
    BY <1>1, <2>3, <2>4, Nothing DEF WheelInv, SilentOrStopping, StopUnderWay, OneCallAtATime
  <2>6. StopToCome => StopToCome'
    BY <1>1, <1>2, <2>3, StopReturns
  <2> QED BY <1>1, <1>4, <2>1, <2>2, <2>5, <2>6
<1> QED BY <1>3, <1>4, <1>5, <1>6 DEF WheelInv

(* The effects a command of a batch can start are ones the flag announces. *)
LEMMA WritePlaying ==
    ASSUME WheelTypeOK, WheelInv, tx # <<>>
    PROVE  /\ hw \in Hardware /\ tx \in Seq(Commands) /\ Head(tx) \in Commands
           /\ ~playing_ => Execute(hw, Head(tx)).playing \subseteq hw.playing
           /\ Head(tx).cmd = "STOP_FORCE" => Execute(hw, Head(tx)).playing = {}
<1>1. hw \in Hardware /\ tx \in Seq(Commands) /\ Head(tx) \in Commands
  BY HeadTail DEF WheelTypeOK
<1>2. ~playing_ => Head(tx).cmd \notin {"PLAY_FORCE", "REFRESH_FORCE"}
  BY <1>1, Rest DEF WheelInv, StartsHaveFlag
<1>3. Head(tx).cmd = "STOP_FORCE" => Head(tx).slots = Slots
  BY <1>1, Rest DEF WheelInv
<1> QED BY <1>1, <1>2, <1>3, ExecutePlaying

LEMMA WriteInv == WheelTypeOK /\ WheelInv /\ Write => WheelInv'
<1> SUFFICES ASSUME WheelTypeOK, WheelInv, Write PROVE WheelInv'
  OBVIOUS
<1>1. /\ busy /\ tx # <<>> /\ hw' = Execute(hw, Head(tx)) /\ tx' = Tail(tx)
      /\ lostStop' = (lostStop /\ Head(tx).cmd # "STOP_FORCE")
      /\ UNCHANGED <<playing_, reports_, calls, busy, handle, abandoned, clean>>
  BY DEF Write
<1>2. /\ HasStart(tx') => HasStart(tx)
      /\ HasStop(tx) => Head(tx).cmd = "STOP_FORCE" \/ HasStop(tx')
      /\ StopsAll(tx')
  BY <1>1, Rest DEF WheelInv, WheelTypeOK
<1>3. StartsHaveFlag'
  BY <1>1, <1>2 DEF WheelInv, StartsHaveFlag
<1>4. SilentOrStopping'
  <2>1. SUFFICES ASSUME ~playing_', ~lostStop', ~abandoned'
                 PROVE  hw'.playing = {} \/ StopUnderWay' \/ StopToCome'
    BY DEF SilentOrStopping
  <2>2. CASE Head(tx).cmd = "STOP_FORCE"
    BY <1>1, <2>2, WritePlaying
  <2>3. CASE Head(tx).cmd # "STOP_FORCE"
    <3>1. ~playing_ /\ ~lostStop /\ ~abandoned
      BY <1>1, <2>1, <2>3
    <3>2. hw.playing = {} \/ StopUnderWay \/ StopToCome
      BY <3>1 DEF WheelInv, SilentOrStopping
    <3>3. hw'.playing \subseteq hw.playing
      BY <1>1, <3>1, WritePlaying
    <3>4. StopUnderWay => StopUnderWay'
      BY <1>1, <1>2, <2>3 DEF StopUnderWay
    <3>5. StopToCome => StopToCome'
      BY <1>1 DEF StopToCome, Unmade
    <3> QED BY <3>2, <3>3, <3>4, <3>5
  <2> QED BY <2>2, <2>3
<1> QED BY <1>1, <1>2, <1>3, <1>4 DEF WheelInv, OneCallAtATime, Idle

(* WriteFails, Close and CloseFails: the call returns. *)
LEMMA EndInv ==
    ASSUME WheelTypeOK, WheelInv, busy, NEW ok \in BOOLEAN, Return(ok, tx),
           ~playing_ => hw'.playing \subseteq hw.playing, playing_' = playing_,
           abandoned' = abandoned, ok => ~handle'
    PROVE  WheelInv'
<1>1. calls # <<>> /\ Head(calls).method \in IOMethods
  BY DEF WheelInv, OneCallAtATime, Idle
<1>2. /\ OneCallAtATime' /\ Disciplined(calls')
      /\ reports_' # <<>> => EndsInFlush(calls')
      /\ reports_' # <<>> => reports_' = reports_ /\ Head(calls).method # "flush_reports"
      /\ HasStart(reports_') => HasStart(reports_) /\ ~Makes(calls', Stopping)
      /\ StopsAll(tx') /\ StopsAll(reports_') /\ ~HasStart(tx') /\ ~busy'
  BY <1>1, ReturnInv
<1>3. /\ clean' = (clean /\ ok) /\ lostStop' = (lostStop \/ HasStop(tx))
      /\ Head(calls).method # "flush_reports" => reports_' = reports_
  BY DEF Return
<1>4. StartsHaveFlag'
  BY <1>2 DEF WheelInv, StartsHaveFlag
<1>5. SilentOrStopping'
  <2>1. SUFFICES ASSUME ~playing_', ~lostStop', ~abandoned'
                 PROVE  hw'.playing = {} \/ HasStop(reports_') \/ StopToCome'
    BY <1>2 DEF SilentOrStopping, StopUnderWay
  <2>2. ~playing_ /\ ~lostStop /\ ~abandoned /\ ~HasStop(tx)
    BY <1>3, <2>1
  <2>3. \/ hw.playing = {} \/ StopToCome
        \/ HasStop(reports_) /\ Head(calls).method # "flush_reports"
    BY <2>2 DEF WheelInv, SilentOrStopping, StopUnderWay
  <2>4. StopToCome => StopToCome'
    BY <1>1, StopReturns DEF WheelTypeOK
  <2> QED BY <1>3, <2>2, <2>3, <2>4
<1> QED BY <1>2, <1>3, <1>4, <1>5 DEF WheelInv

LEMMA WriteFailsInv == WheelTypeOK /\ WheelInv /\ WriteFails => WheelInv'
<1> SUFFICES ASSUME WheelTypeOK, WheelInv, WriteFails PROVE WheelInv'
  OBVIOUS
<1>1. /\ busy /\ tx # <<>> /\ hw' \in {hw, Execute(hw, Head(tx))}
      /\ Return(FALSE, tx) /\ playing_' = playing_ /\ abandoned' = abandoned
  BY DEF WriteFails
<1>2. ~playing_ => hw'.playing \subseteq hw.playing
  BY <1>1, WritePlaying
<1> QED BY <1>1, <1>2, EndInv

LEMMA CloseInv == WheelTypeOK /\ WheelInv /\ (Close \/ CloseFails) => WheelInv'
<1> SUFFICES ASSUME WheelTypeOK, WheelInv, Close \/ CloseFails PROVE WheelInv'
  OBVIOUS
<1>1. CASE Close
  <2>1. /\ busy /\ Return(TRUE, tx) /\ hw' = hw /\ playing_' = playing_
        /\ abandoned' = abandoned /\ ~handle'
    BY <1>1 DEF Close
  <2> QED BY <2>1, EndInv
<1>2. CASE CloseFails
  <2>1. /\ busy /\ Return(FALSE, tx) /\ hw' = hw /\ playing_' = playing_
        /\ abandoned' = abandoned
    BY <1>2 DEF CloseFails
  <2> QED BY <2>1, EndInv
<1> QED BY <1>1, <1>2

LEMMA HandlerInv == WheelTypeOK /\ WheelInv /\ HandlerStep => WheelInv'
BY AssignInv, QueueInv, OpenInv, OpenFailsInv, WriteInv, WriteFailsInv, CloseInv
   DEF HandlerStep

(* Nothing is under way between two handlers. *)
LEMMA BetweenHandlers ==
    ASSUME WheelTypeOK, WheelInv, Idle
    PROVE  /\ ~busy /\ tx = <<>> /\ reports_ = <<>>
           /\ ~playing_ /\ ~lostStop /\ ~abandoned => hw.playing = {}
<1>1. ~busy /\ tx = <<>>
  BY DEF WheelInv, OneCallAtATime
<1>2. reports_ = <<>>
  BY DEF WheelInv, EndsInFlush, Idle
<1>3. ~StopToCome
  BY <1>1, NoCalls DEF StopToCome, Unmade, Idle
<1>4. ~playing_ /\ ~lostStop /\ ~abandoned => hw.playing = {}
  BY <1>1, <1>2, <1>3, Nothing DEF WheelInv, SilentOrStopping, StopUnderWay
<1> QED BY <1>1, <1>2, <1>4

LEMMA SubmitInv ==
    ASSUME WheelTypeOK, WheelInv, NEW script, Disciplined(script), script # <<>>,
           NEW settings, Submit(script, settings), UNCHANGED hw,
           UNCHANGED abandoned \/ StopToCome'
    PROVE  WheelInv'
<1>1. /\ ~busy /\ tx = <<>> /\ reports_ = <<>>
      /\ ~playing_ /\ ~lostStop /\ ~abandoned => hw.playing = {}
  BY BetweenHandlers DEF Submit
<1>2. /\ calls' = script
      /\ UNCHANGED <<playing_, reports_, busy, tx, handle, lostStop, hw>>
  BY DEF Submit
<1>3. SilentOrStopping'
  BY <1>1, <1>2 DEF SilentOrStopping
<1> QED BY <1>1, <1>2, <1>3, Nothing DEF WheelInv, OneCallAtATime, StartsHaveFlag, Idle

(* A process that is not killed ends between handlers and stopped. *)
LEMMA GoneInv ==
    ASSUME WheelTypeOK, WheelInv, NEW killed \in BOOLEAN, Gone(killed),
           killed \/ (Idle /\ ~playing_)
    PROVE  WheelInv'
<1>1. /\ reports_' = <<>> /\ calls' = <<>> /\ busy' = FALSE /\ tx' = <<>> /\ handle' = FALSE
      /\ abandoned' = (abandoned \/ (killed /\ (playing_ \/ ~Idle)))
      /\ lostStop' = lostStop /\ hw' = hw
  BY DEF Gone
<1>2. ~lostStop' /\ ~abandoned' => hw.playing = {}
  BY <1>1, BetweenHandlers
<1> QED BY <1>1, <1>2, Nothing, NoCalls
        DEF WheelInv, OneCallAtATime, StartsHaveFlag, SilentOrStopping, Idle

LEMMA UnplugInv == WheelInv /\ Unplug => WheelInv'
<1> SUFFICES ASSUME WheelInv, Unplug PROVE WheelInv'
  OBVIOUS
<1>1. hw'.playing = {}
  BY DEF Unplug, PowerOn
<1>2. UNCHANGED <<playing_, reports_, calls, busy, tx, handle, lostStop, clean>>
  BY DEF Unplug
<1> QED BY <1>1, <1>2 DEF WheelInv, OneCallAtATime, StartsHaveFlag, SilentOrStopping, Idle

LEMMA InitInv == WheelInit => WheelInv
<1> SUFFICES ASSUME WheelInit PROVE WheelInv
  OBVIOUS
<1>1. hw.playing = {}
  BY DEF WheelInit, PowerOn
<1> QED BY <1>1, Nothing, NoCalls
        DEF WheelInit, WheelInv, OneCallAtATime, StartsHaveFlag, SilentOrStopping, Idle

(* Whatever it finds, a load stops the forces and goes on to that stop.     *)
LEMMA ConstructorStops ==
    ASSUME NEW dev
    PROVE  /\ Makes(Constructor(dev), Stopping)
           /\ \A i \in DOMAIN Constructor(dev) : ~Constructor(dev)[i].must
<1>1. Do("stop_forces").method \in Stopping
  BY DEF Do, Call, Stopping
<1>2. \A method : ~Do(method).must
  BY DEF Do, Call
<1>3. CASE dev = "known"
  <2> DEFINE a == Do("init_protocol")
             b == Do("disable_autocenter")
             c == Do("stop_forces")
  <2>1. Constructor(dev) = <<a, b, c>>
    BY <1>3 DEF Constructor
  <2>2. ~a.must /\ ~b.must /\ ~c.must /\ c.method \in Stopping
    BY <1>1, <1>2
  <2> HIDE DEF a, b, c
  <2>3. 3 \in DOMAIN <<a, b, c>> /\ <<a, b, c>>[3] = c
    OBVIOUS
  <2>4. \A i \in DOMAIN <<a, b, c>> : <<a, b, c>>[i] \in {a, b, c}
    OBVIOUS
  <2> QED BY <2>1, <2>2, <2>3, <2>4 DEF Makes
<1>4. CASE dev # "known"
  <2> DEFINE b == Do("disable_autocenter")
             c == Do("stop_forces")
  <2>1. Constructor(dev) = <<b, c>>
    BY <1>4 DEF Constructor
  <2>2. ~b.must /\ ~c.must /\ c.method \in Stopping
    BY <1>1, <1>2
  <2> HIDE DEF b, c
  <2>3. 2 \in DOMAIN <<b, c>> /\ <<b, c>>[2] = c
    OBVIOUS
  <2>4. \A i \in DOMAIN <<b, c>> : <<b, c>>[i] \in {b, c}
    OBVIOUS
  <2> QED BY <2>1, <2>2, <2>3, <2>4 DEF Makes
<1> QED BY <1>3, <1>4

LEMMA NextInv == WheelTypeOK /\ WheelInv /\ [WheelNext]_wheelVars => (WheelTypeOK /\ WheelInv)'
<1> SUFFICES ASSUME WheelTypeOK, WheelInv, [WheelNext]_wheelVars
             PROVE  WheelTypeOK' /\ WheelInv'
  OBVIOUS
<1>1. CASE HandlerStep
  BY <1>1, HandlerType, HandlerInv DEF WheelInv
<1>2. CASE Attach
  <2>1. /\ device' \in Connected /\ Submit(Constructor(device'), forces) /\ device' \in Devices
        /\ plugged' = TRUE /\ device' # "none" /\ abandoned' = FALSE
    BY <1>2, ConnectedAssumption DEF Attach, Devices
  <2>2. /\ Constructor(device') \in Seq(CallType) /\ Disciplined(Constructor(device'))
        /\ Constructor(device') # <<>>
    BY <2>1, ScriptTypes DEF Constructor
  <2>3. WheelTypeOK'
    BY <2>1, <2>2, SubmitType DEF WheelTypeOK
  <2>4. StopToCome'
    <3>1. ~busy' /\ calls' = Constructor(device')
      BY <2>1, BetweenHandlers DEF Submit
    <3>2. /\ Makes(Constructor(device'), Stopping)
          /\ \A i \in DOMAIN Constructor(device') : ~Constructor(device')[i].must
      BY ConstructorStops
    <3> QED BY <3>1, <3>2 DEF StopToCome, Unmade
  <2> QED BY <2>1, <2>2, <2>3, <2>4, SubmitInv DEF Attach, Submit
<1>3. CASE Use
  <2>1. PICK script \in Scripts, settings \in Settings \cup {forces} : Submit(script, settings)
    BY <1>3 DEF Use
  <2>2. /\ script \in Seq(CallType) /\ Disciplined(script) /\ script # <<>>
        /\ settings \in ForceSettings
    BY <2>1, ScriptTypes, NonemptyScripts, SettingsAssumption DEF WheelTypeOK
  <2>3. device' \in Devices /\ plugged' \in BOOLEAN /\ (plugged' => device' # "none")
    BY <1>3 DEF Use, WheelTypeOK
  <2>4. /\ abandoned' \in BOOLEAN /\ (abandoned' => device' = "none")
        /\ UNCHANGED <<abandoned, hw>>
    BY <1>3, <2>1 DEF Use, WheelTypeOK, Submit
  <2> QED BY <2>1, <2>2, <2>3, <2>4, SubmitType, SubmitInv
<1>4. CASE Detach
  BY <1>4, GoneType, GoneInv DEF Detach
<1>5. CASE Unplug
  BY <1>5, UnplugType, UnplugInv
<1>6. CASE UNCHANGED wheelVars
  BY <1>6 DEF wheelVars, WheelTypeOK, WheelInv, OneCallAtATime, StartsHaveFlag,
              SilentOrStopping, StopUnderWay, StopToCome, Unmade, Idle
<1> QED BY <1>1, <1>2, <1>3, <1>4, <1>5, <1>6 DEF WheelNext

-----------------------------------------------------------------------------
(* The invariant holds in every behaviour of the wheel, for every set of    *)
(* force settings, LED patterns and wheels and any number of failures.      *)
THEOREM WheelInvariant == WheelSafety => [](WheelTypeOK /\ WheelInv)
<1>1. WheelInit => WheelTypeOK /\ WheelInv
  BY InitType, InitInv
<1>2. WheelTypeOK /\ WheelInv /\ [WheelNext]_wheelVars => (WheelTypeOK /\ WheelInv)'
  BY NextInv
<1> QED BY <1>1, <1>2, PTL DEF WheelSafety

(* Type correctness of the wheel (Wheel, wheel.hxx). *)
THEOREM WheelTypeCorrect == WheelSafety => []WheelTypeOK
BY WheelInvariant, PTL

(* Between handlers playing_ = FALSE is the truth about the device, except  *)
(* after a stop command that was lost and until the next is not, and        *)
(* between a kill in use and the load that finds the wheel again            *)
(* (wheel.hxx:127-134, 296-338).                                            *)
THEOREM WheelSilent == WheelSafety => []StoppedIsSilent
<1>1. WheelTypeOK /\ WheelInv => StoppedIsSilent
  BY BetweenHandlers DEF StoppedIsSilent
<1> QED BY <1>1, WheelInvariant, PTL

(* No queued command outlives its handler (wheel.hxx:423-429). *)
THEOREM WheelFlushes == WheelSafety => []QueueIsFlushed
<1>1. WheelTypeOK /\ WheelInv => QueueIsFlushed
  BY BetweenHandlers DEF QueueIsFlushed
<1> QED BY <1>1, WheelInvariant, PTL

(* Every command a wheel can be asked for arrives as it was meant. *)
LEMMA CommandArrives == \A c \in Commands : Arrives(c)
<1>1. ASSUME NEW c \in SlotCommands PROVE Arrives(c)
  <2>1. /\ c.cmd \in {"AUTO_OFF", "AUTO_ON", "PLAY_FORCE", "STOP_FORCE"}
        /\ c.slots \in SUBSET Slots /\ c = SlotCommand(c.cmd, c.slots)
    BY <1>1 DEF SlotCommands, SlotCommand
  <2> QED BY <2>1, SlotCommandArrives
<1>2. ASSUME NEW t \in ForceType, NEW c \in Loads(t) PROVE Arrives(c)
  <2>1. /\ c.cmd \in {"DL_FORCE", "REFRESH_FORCE"} /\ c.params \in AllParams[t]
        /\ c = ForceCommand(c.cmd, t, c.params)
    BY <1>2 DEF Loads, ForceCommand
  <2> QED BY <2>1, ForceCommandArrives
<1>3. ASSUME NEW c \in LedCommands \cup RangeCommands \cup ModeCommands PROVE Arrives(c)
  <2>1. CASE c \in LedCommands
    <3>1. c.pattern \in LedPatterns /\ c = SetLeds(c.pattern)
      BY <2>1 DEF LedCommands, SetLeds
    <3> QED BY <3>1, OtherCommandsArrive
  <2>2. CASE c \in RangeCommands
    <3>1. c.range \in Word /\ c = SetRange(c.range)
      BY <2>2 DEF RangeCommands, SetRange
    <3> QED BY <3>1, OtherCommandsArrive
  <2>3. CASE c \in ModeCommands
    <3>1. c = NativeMode
      BY <2>3 DEF ModeCommands, NativeMode
    <3> QED BY <3>1, OtherCommandsArrive
  <2> QED BY <1>3, <2>1, <2>2, <2>3
<1>4. ASSUME NEW c \in ForceCommands PROVE Arrives(c)
  <2>1. PICK t \in ForceType : c \in Loads(t)
    BY <1>4 DEF ForceCommands, ForceType
  <2> QED BY <1>2, <2>1
<1> QED BY <1>1, <1>3, <1>4 DEF Commands

(* Whatever the wheel writes, in any order of scripts and with any          *)
(* settings, fits its eight bytes and means on the device what it meant     *)
(* here (protocol.hxx:172-465, wheel.hxx:296-476).                          *)
THEOREM WheelReportsArrive == WheelSafety => []ReportsArrive
<1>1. WheelTypeOK => ReportsArrive
  <2> SUFFICES ASSUME WheelTypeOK, NEW i \in DOMAIN tx PROVE Arrives(tx[i])
    BY DEF ReportsArrive, Arrives, Reports
  <2>1. tx[i] \in Commands
    <3>1. tx \in Seq(Commands)
      BY DEF WheelTypeOK
    <3> HIDE DEF Commands
    <3> QED BY <3>1
  <2> QED BY <2>1, CommandArrives
<1> QED BY <1>1, WheelTypeCorrect, PTL

(* A handler without a failure closes the device, whatever failed before    *)
(* (wheel.hxx:433-476).                                                     *)
THEOREM WheelReleases == WheelSafety => []CleanHandlerReleases
<1>1. WheelInv => CleanHandlerReleases
  BY DEF WheelInv, CleanHandlerReleases
<1> QED BY <1>1, WheelInvariant, PTL

(* No effect starts while playing_ is FALSE (wheel.hxx:296-375). *)
THEOREM WheelStarts == WheelSafety => NoStartWhenStopped
<1>1. WheelTypeOK /\ WheelInv /\ [WheelNext]_wheelVars
        => [hw.playing' \subseteq hw.playing \/ playing_]_wheelVars
  <2> SUFFICES ASSUME WheelTypeOK, WheelInv, WheelNext, ~playing_
               PROVE  hw'.playing \subseteq hw.playing
    BY DEF wheelVars
  <2>1. CASE Write
    BY <2>1, WritePlaying DEF Write
  <2>2. CASE WriteFails
    BY <2>2, WritePlaying DEF WriteFails
  <2>3. CASE Unplug
    BY <2>3 DEF Unplug, PowerOn
  <2>4. CASE ~Write /\ ~WriteFails /\ ~Unplug
    BY <2>4 DEF WheelNext, HandlerStep, Assign, Queue, Open, OpenFails, Begin, Close,
                CloseFails, Attach, Use, Submit, Detach, Gone
  <2> QED BY <2>1, <2>2, <2>3, <2>4
<1> QED BY <1>1, WheelInvariant, PTL DEF WheelSafety, NoStartWhenStopped

-----------------------------------------------------------------------------
(* How many commands a call writes or appends. *)
LEMMA PerForceLength ==
    ASSUME forces \in ForceSettings, NEW name \in {"DL_FORCE", "REFRESH_FORCE"}
    PROVE  Len(PerForce(name)) <= 4
<1> DEFINE one(t) == IF Enabled(t) THEN <<ForceCommand(name, t, forces[t].params)>> ELSE <<>>
           a == one("constant")  b == one("spring")  c == one("damper")  d == one("trapezoid")
<1>1. \A t \in ForceType : one(t) \in Seq(Commands) /\ Len(one(t)) <= 1
  <2> SUFFICES ASSUME NEW t \in ForceType
               PROVE  one(t) \in Seq(Commands) /\ Len(one(t)) <= 1
    OBVIOUS
  <2>1. ForceCommand(name, t, forces[t].params) \in Commands
    BY ParamsType, ForceCommandType
  <2> HIDE DEF Commands
  <2> QED BY <2>1
<1>2. /\ a \in Seq(Commands) /\ b \in Seq(Commands) /\ c \in Seq(Commands) /\ d \in Seq(Commands)
      /\ Len(a) <= 1 /\ Len(b) <= 1 /\ Len(c) <= 1 /\ Len(d) <= 1
  BY <1>1 DEF ForceType
<1>3. PerForce(name) = a \o b \o c \o d
  BY DEF PerForce
<1> HIDE DEF a, b, c, d, one
<1>4. Len(a \o b \o c \o d) <= 4
  BY <1>2
<1> QED BY <1>3, <1>4

LEMMA BatchLength ==
    ASSUME WheelTypeOK, NEW call \in CallType, call.method \in IOMethods
    PROVE  IF call.method = "flush_reports" THEN Batch(call) = reports_
           ELSE Len(Batch(call)) <= 4
<1>1. Len(PerForce("DL_FORCE")) <= 4 /\ Len(PerForce("REFRESH_FORCE")) <= 4
  BY PerForceLength DEF WheelTypeOK
<1>2. Len(InitSequence) <= 4 /\ Len(Refresh) <= 4
  BY <1>1 DEF InitSequence, Refresh
<1>3. \A c : Len(<<c>>) <= 4
  OBVIOUS
<1> QED BY <1>1, <1>2, <1>3 DEF Batch, IOMethods

LEMMA QueuedLength ==
    ASSUME WheelTypeOK, NEW call \in CallType, call.method \in QueueMethods
    PROVE  Len(Queued(call)) <= 5
<1>1. Len(PerForce("DL_FORCE")) <= 4 /\ Len(PerForce("REFRESH_FORCE")) <= 4
  BY PerForceLength DEF WheelTypeOK
<1>2. Len((IF playing_ THEN <<>> ELSE <<PlayEnabled>>) \o PerForce("REFRESH_FORCE")) <= 5
  <2>1. PerForce("REFRESH_FORCE") \in Seq(Commands) /\ PlayEnabled \in Commands
    BY PerForceCommands, CommandTypes DEF WheelTypeOK
  <2> QED BY <1>1, <2>1
<1>3. \A c : Len(<<c>>) <= 5
  OBVIOUS
<1> QED BY <1>1, <1>2, <1>3 DEF Queued, QueueMethods

(* Every step of a handler leaves less to do. *)
LEMMA WorkType ==
    ASSUME WheelTypeOK, WheelInv
    PROVE  Len(Unmade) \in Nat /\ Unwritten \in Nat /\ Unflushed \in Nat /\ Work \in Nat
<1>1. Len(Unmade) \in Nat
  <2>1. calls # <<>> => Tail(calls) \in Seq(CallType)
    BY HeadTail DEF WheelTypeOK
  <2> QED BY <2>1 DEF Unmade, WheelTypeOK, WheelInv, OneCallAtATime, Idle
<1>2. Unwritten \in Nat /\ Unflushed \in Nat
  <2>1. Len(tx) \in Nat /\ Len(reports_) \in Nat
    BY DEF WheelTypeOK
  <2> QED BY <2>1 DEF Unwritten, Unflushed
<1> QED BY <1>1, <1>2 DEF Work

LEMMA StepsWork ==
    ASSUME WheelTypeOK, WheelInv, HandlerStep
    PROVE  Work' < Work
<1>0. /\ calls # <<>> /\ calls \in Seq(CallType) /\ tx \in Seq(Commands) /\ reports_ \in Seq(Commands)
      /\ busy => Head(calls).method \in IOMethods
  BY DEF WheelTypeOK, WheelInv, OneCallAtATime, Idle, HandlerStep, Assign, Queue, Open, OpenFails,
         Begin, Write, WriteFails, Close, CloseFails
<1>1. /\ Head(calls) \in CallType /\ Tail(calls) \in Seq(CallType)
      /\ Len(Tail(calls)) = Len(calls) - 1 /\ Len(calls) \in Nat /\ Len(Tail(calls)) \in Nat
      /\ Len(tx) \in Nat /\ Len(reports_) \in Nat
  BY <1>0, HeadTail
<1>2. Len(Unmade) \in Nat /\ Unwritten \in Nat /\ Unflushed \in Nat
  BY WorkType
<1>3. SUFFICES 6 * Len(Unmade') + Unwritten' + Unflushed' < 6 * Len(Unmade) + Unwritten + Unflushed
  BY DEF Work
<1> DEFINE flush == Head(calls).method = "flush_reports"
<1>4. CASE Assign \/ Queue
  <2>1. ~busy /\ calls' = Tail(calls) /\ busy' = busy
    BY <1>0, <1>4, MethodKinds DEF Assign, Queue
  <2>2. Len(reports_') \in Nat /\ Len(reports_') <= Len(reports_) + 5
    <3>1. CASE Assign
      BY <1>1, <3>1 DEF Assign
    <3>2. CASE Queue
      <4> DEFINE q == Queued(Head(calls))
      <4>1. Len(q) <= 5 /\ q \in Seq(Commands) /\ reports_' = reports_ \o q
        BY <1>1, <3>2, QueuedLength, QueuedType DEF Queue
      <4> HIDE DEF q
      <4>2. Len(reports_ \o q) = Len(reports_) + Len(q) /\ Len(q) \in Nat
        BY <1>0, <4>1
      <4> QED BY <1>1, <4>1, <4>2
    <3> QED BY <1>4, <3>1, <3>2
  <2>3. /\ Len(Unmade) = Len(calls) /\ Unwritten = 0 /\ Unflushed = Len(reports_)
        /\ Len(Unmade') = Len(calls) - 1 /\ Unwritten' = 0 /\ Unflushed' = Len(reports_')
    BY <1>1, <2>1 DEF Unmade, Unwritten, Unflushed
  <2> QED BY <1>1, <2>2, <2>3
<1>5. CASE Open
  <2>1. /\ ~busy /\ busy' /\ calls' = calls /\ reports_' = reports_ /\ tx' = Batch(Head(calls))
        /\ Head(calls).method \in IOMethods
    BY <1>5 DEF Open, Begin
  <2>2. tx' \in Seq(Commands) /\ IF flush THEN tx' = reports_ ELSE Len(tx') <= 4
    BY <1>1, <2>1, BatchType, BatchLength
  <2>3. /\ Len(Unmade) = Len(calls) /\ Unwritten = 0 /\ Unflushed = Len(reports_)
        /\ Len(Unmade') = Len(calls) - 1 /\ Unwritten' = Len(tx') + 1
        /\ Unflushed' = IF flush THEN 0 ELSE Len(reports_)
    BY <1>1, <2>1 DEF Unmade, Unwritten, Unflushed
  <2>4. Len(tx') \in Nat
    BY <2>2
  <2>5. CASE flush
    <3>1. /\ Len(Unmade) = Len(calls) /\ Unwritten = 0 /\ Unflushed = Len(reports_)
          /\ Len(Unmade') = Len(calls) - 1 /\ Unwritten' = Len(reports_) + 1 /\ Unflushed' = 0
      BY <2>2, <2>3, <2>5
    <3> QED BY <1>1, <3>1
  <2>6. CASE ~flush
    <3>1. /\ Len(Unmade) = Len(calls) /\ Unwritten = 0 /\ Unflushed = Len(reports_)
          /\ Len(Unmade') = Len(calls) - 1 /\ Unflushed' = Len(reports_)
      BY <2>3, <2>6
    <3>2. Unwritten' \in Nat /\ Unwritten' <= 5
      BY <2>2, <2>3, <2>4, <2>6
    <3> QED BY <1>1, <3>1, <3>2
  <2> QED BY <2>5, <2>6
<1>6. CASE Write
  <2>1. /\ busy /\ busy' /\ calls' = calls /\ reports_' = reports_ /\ tx' = Tail(tx)
        /\ Len(Tail(tx)) = Len(tx) - 1
    BY <1>0, <1>6, HeadTail DEF Write
  <2>2. /\ Unwritten = Len(tx) + 1 /\ Unwritten' = Len(tx) - 1 + 1
        /\ Unmade' = Unmade /\ Unflushed' = Unflushed
    BY <1>1, <2>1 DEF Unmade, Unwritten, Unflushed
  <2> QED BY <1>1, <1>2, <2>2
<1>7. CASE OpenFails \/ WriteFails \/ Close \/ CloseFails
  <2>1. PICK ok, undelivered : Return(ok, undelivered)
    BY <1>7 DEF OpenFails, WriteFails, Close, CloseFails
  <2>2. /\ ~busy' /\ calls' \in {<<>>, Tail(calls)}
        /\ reports_' = IF flush THEN <<>> ELSE reports_
    BY <2>1 DEF Return
  <2>3. /\ Len(Unmade') <= Len(calls) - 1 /\ Len(Unmade') \in Nat
        /\ Unwritten' = 0 /\ Unflushed' = Len(reports_')
    <3>1. Unmade' = calls' /\ Unwritten' = 0 /\ Unflushed' = Len(reports_')
      BY <2>2 DEF Unmade, Unwritten, Unflushed
    <3>2. Len(calls') \in Nat /\ Len(calls') <= Len(calls) - 1
      <4>1. calls # <<>> => Len(calls) >= 1
        BY <1>0, <1>1
      <4>2. Len(<<>>) = 0
        OBVIOUS
      <4> QED BY <1>0, <1>1, <2>2, <4>1, <4>2
    <3> QED BY <3>1, <3>2
  <2>4. CASE busy
    <3>1. /\ Len(Unmade) = Len(calls) - 1 /\ Unwritten = Len(tx) + 1
          /\ Unflushed = IF flush THEN 0 ELSE Len(reports_)
      BY <1>1, <2>4 DEF Unmade, Unwritten, Unflushed
    <3>2. Unflushed' <= Unflushed /\ Unflushed' \in Nat
      BY <1>1, <2>2, <2>3, <3>1
    <3>3. /\ Len(Unmade) = Len(calls) - 1 /\ Unwritten = Len(tx) + 1
          /\ Len(Unmade') <= Len(calls) - 1 /\ Unwritten' = 0
      BY <2>3, <3>1
    <3> QED BY <1>1, <1>2, <2>3, <3>2, <3>3
  <2>5. CASE ~busy
    <3>1. Len(Unmade) = Len(calls) /\ Unwritten = 0 /\ Unflushed = Len(reports_)
      BY <1>1, <2>5 DEF Unmade, Unwritten, Unflushed
    <3>2. Unflushed' <= Unflushed /\ Unflushed' \in Nat
      BY <1>1, <2>2, <2>3, <3>1
    <3> QED BY <1>1, <1>2, <2>3, <3>1, <3>2
  <2> QED BY <2>4, <2>5 DEF WheelTypeOK
<1> QED BY <1>4, <1>5, <1>6, <1>7 DEF HandlerStep

(* A calibration is the longest script. *)
LEMMA ScriptLengths ==
    /\ \A script \in Scripts : Len(script) \in 0 .. 17
    /\ \A dev : Len(Constructor(dev)) \in 0 .. 17
<1>1. Len(Calibrate) = 17
  BY DEF Calibrate
<1>2. Len(Reset) = 4 /\ Len(Destructor) = 2 /\ Len(QueuedPlay) = 4 /\ Len(QueuedRefresh) = 2
  BY DEF Reset, Destructor, QueuedPlay, QueuedRefresh
<1>3. \A p : Len(Tick(p)) = 2
  BY DEF Tick
<1>4. \A dev : Len(Constructor(dev)) \in {2, 3}
  BY DEF Constructor
<1>5. \A script \in Scripts : Len(script) \in {2, 4, 17}
  BY <1>1, <1>2, <1>3 DEF Scripts
<1> QED BY <1>4, <1>5

LEMMA SubmitWorks ==
    ASSUME WheelTypeOK, WheelInv, NEW script, NEW settings, Submit(script, settings),
           Len(script) \in 0 .. 17
    PROVE  Idle /\ Work' <= MaxWork
<1>1. Idle /\ ~busy' /\ reports_' = <<>> /\ calls' = script
  BY BetweenHandlers DEF Submit
<1>2. Unmade' = script /\ Unwritten' = 0 /\ Unflushed' = 0
  BY <1>1 DEF Unmade, Unwritten, Unflushed
<1>3. Work' = 6 * Len(script) + 0 + 0
  BY <1>2 DEF Work
<1>4. \A n \in 0 .. 17 : 6 * n + 0 + 0 <= 6 * 17
  OBVIOUS
<1>5. 6 * Len(script) + 0 + 0 <= 6 * 17
  <2> DEFINE n == Len(script)
  <2>1. n \in 0 .. 17
    OBVIOUS
  <2> HIDE DEF n
  <2>2. 6 * n + 0 + 0 <= 6 * 17
    BY <2>1, <1>4
  <2> QED BY <2>2 DEF n
<1> QED BY <1>1, <1>3, <1>5 DEF MaxWork

(* No handler makes more than MaxWork steps, whatever fails and whatever    *)
(* queue the owner fills: each step leaves less to do, and nobody else adds *)
(* to it before the handler has returned (wheel.hxx:139-205, 423-476).      *)
THEOREM WheelIsBounded == WheelSafety => HandlersAreBounded
<1>1. WheelTypeOK /\ WheelInv /\ [WheelNext]_wheelVars
        => [ /\ Idle  => Work' <= MaxWork
             /\ ~Idle => IF HandlerStep THEN Work' < Work ELSE Work' <= Work ]_wheelVars
  <2> SUFFICES ASSUME WheelTypeOK, WheelInv, WheelNext
               PROVE  /\ Idle  => Work' <= MaxWork
                      /\ ~Idle => IF HandlerStep THEN Work' < Work ELSE Work' <= Work
    OBVIOUS
  <2>1. Work \in Nat
    BY WorkType
  <2>2. CASE HandlerStep
    <3>1. ~Idle
      BY <2>2 DEF HandlerStep, Assign, Queue, Open, OpenFails, Begin, Write, WriteFails, Close,
                  CloseFails, WheelInv, OneCallAtATime, Idle
    <3> QED BY <2>1, <2>2, <3>1, StepsWork
  <2>3. CASE Attach
    <3>1. Submit(Constructor(device'), forces) /\ Len(Constructor(device')) \in 0 .. 17
      BY <2>3, ScriptLengths DEF Attach
    <3>2. Idle /\ Work' <= MaxWork
      BY <3>1, SubmitWorks
    <3> QED BY <3>2
  <2>4. CASE Use
    <3>1. PICK script \in Scripts, settings \in Settings \cup {forces} : Submit(script, settings)
      BY <2>4 DEF Use
    <3>2. Idle /\ Work' <= MaxWork
      BY <3>1, ScriptLengths, SubmitWorks
    <3> QED BY <3>2
  <2>5. CASE Detach
    <3>1. ~busy' /\ calls' = <<>> /\ reports_' = <<>>
      BY <2>5 DEF Detach, Gone
    <3>2. Len(Unmade') = 0 /\ Unwritten' = 0 /\ Unflushed' = 0
      BY <3>1 DEF Unmade, Unwritten, Unflushed
    <3>3. Work' = 0
      BY <3>2 DEF Work
    <3>4. Work' <= MaxWork /\ Work' <= Work
      BY <2>1, <3>3 DEF MaxWork
    <3> QED BY <3>4, StepsWork
  <2>6. CASE Unplug
    <3>1. UNCHANGED <<calls, busy, tx, reports_>>
      BY <2>6 DEF Unplug
    <3>2. Work' = Work
      BY <3>1 DEF Work, Unmade, Unwritten, Unflushed
    <3>3. Idle => Work = 0
      <4>1. Idle => ~busy /\ reports_ = <<>> /\ calls = <<>>
        BY BetweenHandlers DEF Idle
      <4>2. Idle => Len(Unmade) = 0 /\ Unwritten = 0 /\ Unflushed = 0
        BY <4>1 DEF Unmade, Unwritten, Unflushed
      <4> QED BY <4>2 DEF Work
    <3> QED BY <2>1, <3>2, <3>3, StepsWork DEF MaxWork
  <2> QED BY <2>2, <2>3, <2>4, <2>5, <2>6 DEF WheelNext
<1> QED BY <1>1, WheelInvariant, PTL DEF WheelSafety, HandlersAreBounded
=============================================================================
