--------------------------- MODULE ProtocolProofs ---------------------------
(***************************************************************************)
(* Every command's report fits its bytes, and the device reads from it the *)
(* command that was meant, for all parameters a force can have and all     *)
(* ranges.                                                                 *)
(***************************************************************************)
EXTENDS Protocol, TLAPS

-----------------------------------------------------------------------------
(* Masks.                                                                  *)
LEMMA SlotIn ==
    \A x \in Nat : /\ 0 \in SlotsOf(x) <=> x % 2 = 1
                   /\ 1 \in SlotsOf(x) <=> (x \div 2) % 2 = 1
                   /\ 2 \in SlotsOf(x) <=> (x \div 4) % 2 = 1
                   /\ 3 \in SlotsOf(x) <=> (x \div 8) % 2 = 1
BY DEF SlotsOf, Slots

LEMMA MaskOfSlots ==
    \A S \in SUBSET Slots : MaskOf(S) \in Nibble /\ SlotsOf(MaskOf(S)) = S
<1> SUFFICES ASSUME NEW S \in SUBSET Slots
             PROVE  MaskOf(S) \in Nibble /\ SlotsOf(MaskOf(S)) = S
  OBVIOUS
<1> DEFINE a == If(0 \in S)  b == If(1 \in S)  c == If(2 \in S)  d == If(3 \in S)
           m == MaskOf(S)
<1>1. /\ a \in Bit /\ b \in Bit /\ c \in Bit /\ d \in Bit
      /\ (a = 1 <=> 0 \in S) /\ (b = 1 <=> 1 \in S) /\ (c = 1 <=> 2 \in S) /\ (d = 1 <=> 3 \in S)
  BY DEF If, Bit
<1>2. m = a + 2 * b + 4 * c + 8 * d
  BY DEF MaskOf
<1>3. /\ m \in Nibble
      /\ m % 2 = a /\ (m \div 2) % 2 = b /\ (m \div 4) % 2 = c /\ (m \div 8) % 2 = d
  <2> HIDE DEF a, b, c, d, m
  <2> QED BY <1>1, <1>2 DEF Bit, Nibble
<1>4. SlotsOf(m) = S
  <2>1. /\ 0 \in SlotsOf(m) <=> 0 \in S
        /\ 1 \in SlotsOf(m) <=> 1 \in S
        /\ 2 \in SlotsOf(m) <=> 2 \in S
        /\ 3 \in SlotsOf(m) <=> 3 \in S
    <3> HIDE DEF a, b, c, d, m
    <3> QED BY <1>1, <1>3, SlotIn DEF Nibble
  <2>2. SlotsOf(m) \subseteq Slots /\ S \subseteq Slots
    BY DEF SlotsOf
  <2>3. \A s \in Slots : s = 0 \/ s = 1 \/ s = 2 \/ s = 3
    BY DEF Slots
  <2> QED BY <2>1, <2>2, <2>3
<1> QED BY <1>3, <1>4

LEMMA SlotsOfMask ==
    \A x \in Nibble : MaskOf(SlotsOf(x)) = x
<1> SUFFICES ASSUME NEW x \in Nibble PROVE MaskOf(SlotsOf(x)) = x
  OBVIOUS
<1> QED BY SlotIn DEF MaskOf, If, Nibble

(* Two nibbles share a byte and can be taken apart again. *)
LEMMA NibblesInByte ==
    \A x, y \in Nibble : /\ 16 * x + y \in Byte
                         /\ (16 * x + y) % 16 = y
                         /\ (16 * x + y) \div 16 = x
BY DEF Nibble, Byte

LEMMA CommandByte ==
    \A mask, code \in Nibble : Command(mask, code) = 16 * mask + code
BY DEF Command, Nibble

LEMMA NibblesAreNibbles == \A x, y \in Nibble : Nibbles(x, y) = 16 * x + y
<1> SUFFICES ASSUME NEW x \in Nibble, NEW y \in Nibble PROVE Nibbles(x, y) = 16 * x + y
  OBVIOUS
<1>1. x % 16 = x /\ y % 16 = y /\ (y \div 16) % 16 = 0
  BY DEF Nibble
<1>2. SlotsOf(0) = {}
  BY DEF SlotsOf
<1>3. SlotsOf(x % 16) \cup SlotsOf((y \div 16) % 16) = SlotsOf(x)
  BY <1>1, <1>2
<1> QED BY <1>1, <1>3, SlotsOfMask DEF Nibbles

-----------------------------------------------------------------------------
(* Reports.                                                                *)
Reports == [1 .. 8 -> Byte]

LEMMA ShortReports ==
    \A v, w \in Byte :
        /\ Report(<<v>>) \in Reports     /\ Report(<<v>>)[1] = v    /\ Report(<<v>>)[2] = 0
        /\ Report(<<v, w>>) \in Reports  /\ Report(<<v, w>>)[1] = v /\ Report(<<v, w>>)[2] = w
BY DEF Report, Reports, Byte

LEMMA LongReport ==
    \A b1, b2, b3, b4, b5, b6, b7 \in Byte :
        LET r == Report(<<b1, b2, b3, b4, b5, b6, b7>>) IN
        /\ r \in Reports
        /\ r[1] = b1 /\ r[2] = b2 /\ r[3] = b3 /\ r[4] = b4 /\ r[5] = b5 /\ r[6] = b6 /\ r[7] = b7
BY DEF Report, Reports, Byte

LEMMA NoReportIsZero == /\ NoReport \in Reports
                        /\ \A i \in 1 .. 8 : NoReport[i] = 0
BY DEF NoReport, Report, Reports, Byte

(* What a command byte tells the device.                                   *)
LEMMA SlotsAndCode ==
    ASSUME NEW S \in SUBSET Slots, NEW code \in Nibble
    PROVE  /\ Command(MaskOf(S), code) \in Byte
           /\ Command(MaskOf(S), code) % 16 = code
           /\ SlotsOf(Command(MaskOf(S), code) \div 16) = S
<1>1. MaskOf(S) \in Nibble /\ SlotsOf(MaskOf(S)) = S
  BY MaskOfSlots
<1>2. Command(MaskOf(S), code) = 16 * MaskOf(S) + code
  BY <1>1, CommandByte
<1> QED BY <1>1, <1>2, NibblesInByte

(* Report r has command code for the slots in S, and no parameters.        *)
Says(r, S, code) == r \in Reports /\ r[1] % 16 = code /\ AddressedSlots(r) = S /\ r[2] = 0

LEMMA SlotReports ==
    ASSUME NEW S \in SUBSET Slots, NEW code \in Nibble
    PROVE  /\ Says(Report(<<Command(MaskOf(S), code)>>), S, code)
           /\ Says(Report(<<Command(MaskOf(S), code), 0>>), S, code)
<1> DEFINE v == Command(MaskOf(S), code)
<1>1. v \in Byte /\ v % 16 = code /\ SlotsOf(v \div 16) = S
  BY SlotsAndCode
<1>2. 0 \in Byte
  BY DEF Byte
<1> HIDE DEF v
<1>3. Says(Report(<<v>>), S, code) /\ Says(Report(<<v, 0>>), S, code)
  BY <1>1, <1>2, ShortReports DEF Says, AddressedSlots
<1> QED BY <1>3 DEF v

-----------------------------------------------------------------------------
(* Commands with slots. *)
Arrives(c) == Encode(c) \in Reports /\ Decode(Encode(c)) = c

LEMMA SlotCommandArrives ==
    ASSUME NEW n \in {"AUTO_OFF", "AUTO_ON", "PLAY_FORCE", "STOP_FORCE"}, NEW S \in SUBSET Slots
    PROVE  Arrives(SlotCommand(n, S))
<1> DEFINE c == SlotCommand(n, S)  m == MaskOf(S)  r == Encode(c)
<1>1. r = build_report_slots("logitech_classic", n, m)
  BY DEF Encode, SlotCommand
<1>2. 0 \in Byte /\ 2 \in Nibble /\ 3 \in Nibble /\ 4 \in Nibble /\ 5 \in Nibble
  BY DEF Byte, Nibble
<1>3. CASE n = "AUTO_OFF"
  <2>1. r = Report(<<Command(m, 5)>>)
    BY <1>1, <1>3 DEF build_report_slots, ForProtocol, disable_autocenter
  <2>2. Says(r, S, 5)
    BY <2>1, <1>2, SlotReports
  <2> QED BY <2>2, <1>3 DEF Says, Arrives, Decode, SlotCommand
<1>4. CASE n = "AUTO_ON"
  <2>1. r = Report(<<Command(m, 4)>>)
    BY <1>1, <1>4 DEF build_report_slots, ForProtocol, enable_autocenter
  <2>2. Says(r, S, 4)
    BY <2>1, <1>2, SlotReports
  <2> QED BY <2>2, <1>4 DEF Says, Arrives, Decode, SlotCommand
<1>5. CASE n = "PLAY_FORCE"
  <2>1. r = Report(<<Command(m, 2), 0>>)
    BY <1>1, <1>5 DEF build_report_slots, ForProtocol, play_force
  <2>2. Says(r, S, 2)
    BY <2>1, <1>2, SlotReports
  <2> QED BY <2>2, <1>5 DEF Says, Arrives, Decode, SlotCommand
<1>6. CASE n = "STOP_FORCE"
  <2>1. r = Report(<<Command(m, 3), 0>>)
    BY <1>1, <1>6 DEF build_report_slots, ForProtocol, stop_force
  <2>2. Says(r, S, 3)
    BY <2>1, <1>2, SlotReports
  <2> QED BY <2>2, <1>6 DEF Says, Arrives, Decode, SlotCommand
<1> QED BY <1>3, <1>4, <1>5, <1>6

(* LEDs, range and mode. *)
LEMMA OtherCommandsArrive ==
    /\ \A p \in LedPatterns : Arrives(SetLeds(p))
    /\ \A x \in Word : Arrives(SetRange(x))
    /\ Arrives(NativeMode)
<1>1. ASSUME NEW p \in LedPatterns PROVE Arrives(SetLeds(p))
  <2>1. Encode(SetLeds(p)) = Report(<<248, 18, p, 0>>)
    BY DEF Encode, SetLeds, set_led_pattern, LedPatterns
  <2>2. Report(<<248, 18, p, 0>>) \in Reports
    BY DEF Report, Reports, Byte, LedPatterns
  <2>3. LET r == Report(<<248, 18, p, 0>>) IN r[1] = 248 /\ r[2] = 18 /\ r[3] = p
    BY DEF Report
  <2> QED BY <2>1, <2>2, <2>3 DEF Arrives, Decode
<1>2. ASSUME NEW x \in Word PROVE Arrives(SetRange(x))
  <2>1. x \in Word /\ x % 256 \in Byte /\ (x \div 256) % 256 = x \div 256 /\ x \div 256 \in Byte
        /\ (x % 256) + 256 * (x \div 256) = x
    <3>2. x \in Nat /\ x < 65536 /\ x >= 0
      BY DEF Word
    <3>3. x = 256 * (x \div 256) + (x % 256) /\ x % 256 \in 0 .. 255 /\ x \div 256 \in Nat
      BY <3>2
    <3>4. x \div 256 \in 0 .. 255
      BY <3>2
    <3>5. \A y \in 0 .. 255 : y % 256 = y
      OBVIOUS
    <3> QED BY <3>3, <3>4, <3>5 DEF Byte
  <2>2. Encode(SetRange(x)) = Report(<<248, 129, x % 256, x \div 256, 0, 0, 0>>)
    BY <2>1 DEF Encode, SetRange, set_range
  <2>3. 248 \in Byte /\ 129 \in Byte /\ 0 \in Byte
    BY DEF Byte
  <2>4. LET r == Encode(SetRange(x)) IN
          r \in Reports /\ r[1] = 248 /\ r[2] = 129 /\ r[3] = x % 256 /\ r[4] = x \div 256
    BY <2>1, <2>2, <2>3, LongReport
  <2> QED BY <2>1, <2>4 DEF Arrives, Decode
<1>3. Arrives(NativeMode)
  <2>1. Encode(NativeMode) = Report(<<48, 248, 9, 5, 1>>)
    BY DEF Encode, NativeMode, native_mode
  <2>2. LET r == Report(<<48, 248, 9, 5, 1>>) IN r \in Reports /\ r[1] = 48 /\ r[2] = 248
    BY DEF Report, Reports, Byte
  <2> QED BY <2>1, <2>2 DEF Arrives, Decode
<1> QED BY <1>1, <1>2, <1>3

-----------------------------------------------------------------------------
(* Commands with a force. *)
LEMMA FieldsFit ==
    /\ \A x \in Slope : x % 8 = x /\ x \in Nibble /\ x \in Byte
    /\ \A x \in Bit : x % 2 = x /\ x \in Nibble /\ x \in Byte
BY DEF Slope, Bit, Nibble, Byte

LEMMA Masks ==
    ASSUME NEW t \in ForceType
    PROVE  /\ SlotMask[t] \in Nibble
           /\ Command(SlotMask[t], 0) = 16 * SlotMask[t]
           /\ Command(SlotMask[t], 0) \in {16, 48, 64, 128}
BY DEF ForceType, SlotMask, Nibble, Command

(* Every download carries its force's slots, type and parameters.          *)
Carries(r, t, p) ==
    /\ r \in Reports
    /\ r[1] = 16 * SlotMask[t]
    /\ r[2] \in {0, 1, 2, 6}
    /\ DecodeEffect(r) = [type |-> t, params |-> p]

LEMMA TypeBytes == 0 \in Byte /\ 1 \in Byte /\ 2 \in Byte /\ 6 \in Byte
                     /\ {16, 48, 64, 128} \subseteq Byte
BY DEF Byte

LEMMA ConstantCarries == \A p \in ConstantParams : Carries(download_force("constant", p), "constant", p)
<1> SUFFICES ASSUME NEW p \in ConstantParams
             PROVE  Carries(download_force("constant", p), "constant", p)
  OBVIOUS
<1> DEFINE v == Command(SlotMask["constant"], 0)  a == p.amplitude
           r == Report(<<v, 0, a, a, a, a, 0>>)
<1>1. download_force("constant", p) = r
  BY DEF download_force, constant_force
<1>2. v = 16 * SlotMask["constant"] /\ v \in Byte /\ a \in Byte
  BY Masks, TypeBytes DEF ConstantParams, ForceType
<1>3. r \in Reports /\ r[1] = v /\ r[2] = 0 /\ r[3] = a
  <2> HIDE DEF v, a
  <2> QED BY <1>2, TypeBytes DEF Report, Reports
<1>4. DecodeEffect(r) = [type |-> "constant", params |-> p]
  <2>1. p = [amplitude |-> a]
    BY DEF ConstantParams
  <2> HIDE DEF r, a
  <2> QED BY <2>1, <1>3 DEF DecodeEffect
<1> QED BY <1>1, <1>2, <1>3, <1>4 DEF Carries

LEMMA SpringCarries == \A p \in SpringParams : Carries(download_force("spring", p), "spring", p)
<1> SUFFICES ASSUME NEW p \in SpringParams
             PROVE  Carries(download_force("spring", p), "spring", p)
  OBVIOUS
<1> DEFINE v == Command(SlotMask["spring"], 0)
           slopes == 16 * p.slope_right + p.slope_left
           inverts == 16 * p.invert_right + p.invert_left
           r == Report(<<v, 1, p.dead_start, p.dead_end, slopes, inverts, p.amplitude>>)
<1>1. /\ p.slope_left \in Slope /\ p.slope_right \in Slope
      /\ p.invert_left \in Bit /\ p.invert_right \in Bit
      /\ p.dead_start \in Byte /\ p.dead_end \in Byte /\ p.amplitude \in Byte
  BY DEF SpringParams
<1>2. /\ slopes \in Byte /\ slopes % 16 = p.slope_left /\ slopes \div 16 = p.slope_right
      /\ inverts \in Byte /\ inverts % 16 = p.invert_left /\ inverts \div 16 = p.invert_right
  BY <1>1, FieldsFit, NibblesInByte
<1>3. download_force("spring", p) = r
  <2>1. /\ (p.slope_right % 8) * 16 + (p.slope_left % 8) = slopes
        /\ (p.invert_right % 2) * 16 + (p.invert_left % 2) = inverts
    BY <1>1, FieldsFit DEF Slope, Bit
  <2>2. download_force("spring", p) = spring_force(SlotMask["spring"], p)
    BY DEF download_force
  <2> HIDE DEF slopes, inverts
  <2> QED BY <2>1, <2>2 DEF spring_force
<1>4. v = 16 * SlotMask["spring"] /\ v \in Byte
  BY Masks, TypeBytes DEF ForceType
<1>5. /\ r \in Reports /\ r[1] = v /\ r[2] = 1 /\ r[3] = p.dead_start /\ r[4] = p.dead_end
      /\ r[5] = slopes /\ r[6] = inverts /\ r[7] = p.amplitude
  <2> HIDE DEF v, slopes, inverts
  <2> QED BY <1>1, <1>2, <1>4, TypeBytes DEF Report, Reports
<1>6. DecodeEffect(r) = [type |-> "spring", params |-> p]
  <2>1. p = [dead_start |-> p.dead_start, dead_end |-> p.dead_end,
             slope_left |-> p.slope_left, slope_right |-> p.slope_right,
             invert_left |-> p.invert_left, invert_right |-> p.invert_right,
             amplitude |-> p.amplitude]
    BY DEF SpringParams
  <2> HIDE DEF r, slopes, inverts
  <2> QED BY <2>1, <1>2, <1>5 DEF DecodeEffect
<1> QED BY <1>3, <1>4, <1>5, <1>6 DEF Carries

LEMMA DamperCarries == \A p \in DamperParams : Carries(download_force("damper", p), "damper", p)
<1> SUFFICES ASSUME NEW p \in DamperParams
             PROVE  Carries(download_force("damper", p), "damper", p)
  OBVIOUS
<1> DEFINE v == Command(SlotMask["damper"], 0)
           r == Report(<<v, 2, p.slope_left, p.invert_left, p.slope_right, p.invert_right, 0>>)
<1>1. /\ p.slope_left \in Slope /\ p.slope_right \in Slope
      /\ p.invert_left \in Bit /\ p.invert_right \in Bit
  BY DEF DamperParams
<1>2. download_force("damper", p) = r
  <2>1. download_force("damper", p) = damper_force(SlotMask["damper"], p)
    BY DEF download_force
  <2> QED BY <2>1, <1>1, FieldsFit DEF damper_force
<1>3. v = 16 * SlotMask["damper"] /\ v \in Byte
  BY Masks, TypeBytes DEF ForceType
<1>4. /\ r \in Reports /\ r[1] = v /\ r[2] = 2 /\ r[3] = p.slope_left /\ r[4] = p.invert_left
      /\ r[5] = p.slope_right /\ r[6] = p.invert_right
  <2> HIDE DEF v
  <2> QED BY <1>1, <1>3, FieldsFit, TypeBytes DEF Report, Reports
<1>5. DecodeEffect(r) = [type |-> "damper", params |-> p]
  <2>1. p = [slope_left |-> p.slope_left, slope_right |-> p.slope_right,
             invert_left |-> p.invert_left, invert_right |-> p.invert_right]
    BY DEF DamperParams
  <2> HIDE DEF r
  <2> QED BY <2>1, <1>4 DEF DecodeEffect
<1> QED BY <1>2, <1>3, <1>4, <1>5 DEF Carries

LEMMA TrapezoidCarries ==
    \A p \in TrapezoidParams : Carries(download_force("trapezoid", p), "trapezoid", p)
<1> SUFFICES ASSUME NEW p \in TrapezoidParams
             PROVE  Carries(download_force("trapezoid", p), "trapezoid", p)
  OBVIOUS
<1> DEFINE v == Command(SlotMask["trapezoid"], 0)
           steps == 16 * p.slope_step_x + p.slope_step_y
           r == Report(<<v, 6, p.amplitude_max, p.amplitude_min, p.t_at_max, p.t_at_min, steps>>)
<1>1. /\ p.amplitude_max \in Byte /\ p.amplitude_min \in Byte
      /\ p.t_at_max \in Byte /\ p.t_at_min \in Byte
      /\ p.slope_step_x \in Nibble /\ p.slope_step_y \in Nibble
  BY DEF TrapezoidParams
<1>2. steps \in Byte /\ steps % 16 = p.slope_step_y /\ steps \div 16 = p.slope_step_x
  BY <1>1, NibblesInByte
<1>3. download_force("trapezoid", p) = r
  <2>1. download_force("trapezoid", p) = trapezoid_force(SlotMask["trapezoid"], p)
    BY DEF download_force
  <2>2. Nibbles(p.slope_step_x, p.slope_step_y) = steps
    BY <1>1, NibblesAreNibbles
  <2> HIDE DEF steps
  <2> QED BY <2>1, <2>2 DEF trapezoid_force
<1>4. v = 16 * SlotMask["trapezoid"] /\ v \in Byte
  BY Masks, TypeBytes DEF ForceType
<1>5. /\ r \in Reports /\ r[1] = v /\ r[2] = 6 /\ r[3] = p.amplitude_max /\ r[4] = p.amplitude_min
      /\ r[5] = p.t_at_max /\ r[6] = p.t_at_min /\ r[7] = steps
  <2> HIDE DEF v, steps
  <2> QED BY <1>1, <1>2, <1>4, TypeBytes DEF Report, Reports
<1>6. DecodeEffect(r) = [type |-> "trapezoid", params |-> p]
  <2>1. p = [amplitude_max |-> p.amplitude_max, amplitude_min |-> p.amplitude_min,
             t_at_max |-> p.t_at_max, t_at_min |-> p.t_at_min,
             slope_step_x |-> p.slope_step_x, slope_step_y |-> p.slope_step_y]
    BY DEF TrapezoidParams
  <2> HIDE DEF r, steps
  <2> QED BY <2>1, <1>2, <1>5 DEF DecodeEffect
<1> QED BY <1>3, <1>4, <1>5, <1>6 DEF Carries

LEMMA DownloadCarries ==
    ASSUME NEW t \in ForceType, NEW p \in AllParams[t]
    PROVE  Carries(download_force(t, p), t, p)
<1>2. CASE t = "constant"
  BY <1>2, ConstantCarries DEF AllParams
<1>3. CASE t = "spring"
  BY <1>3, SpringCarries DEF AllParams
<1>4. CASE t = "damper"
  BY <1>4, DamperCarries DEF AllParams
<1>5. CASE t = "trapezoid"
  BY <1>5, TrapezoidCarries DEF AllParams
<1> QED BY <1>2, <1>3, <1>4, <1>5 DEF ForceType

LEMMA ForceCommandArrives ==
    ASSUME NEW n \in {"DL_FORCE", "REFRESH_FORCE"}, NEW t \in ForceType, NEW p \in AllParams[t]
    PROVE  Arrives(ForceCommand(n, t, p))
<1> DEFINE c == ForceCommand(n, t, p)  d == download_force(t, p)
           e == [d EXCEPT ![1] = 16 * (d[1] \div 16) + 12]  m == SlotMask[t]
<1>1. /\ d \in Reports /\ d[1] = 16 * m /\ d[2] \in {0, 1, 2, 6}
      /\ DecodeEffect(d) = [type |-> t, params |-> p]
  BY DownloadCarries DEF Carries
<1>2. m \in Nibble /\ 0 \in Nibble /\ 12 \in Nibble
  BY Masks DEF Nibble
<1>3. c.cmd = n /\ c.type = t /\ c.params = p /\ c.slots = SlotsOf(m)
  BY DEF ForceCommand
<1>4. /\ (16 * m) % 16 = 0 /\ (16 * m) \div 16 = m /\ 16 * m # 248
      /\ 16 * m + 12 \in Byte /\ (16 * m + 12) % 16 = 12 /\ (16 * m + 12) \div 16 = m
      /\ 16 * m + 12 # 48 /\ 16 * m + 12 # 248
  <2> HIDE DEF m
  <2> QED BY <1>2 DEF Nibble, Byte
<1>5. CASE n = "DL_FORCE"
  <2>1. Encode(c) = d
    BY <1>5 DEF Encode, ForceCommand, build_report_force, ForProtocol
  <2>2. Decode(d) = c
    <3> HIDE DEF d, m
    <3> QED BY <1>1, <1>4, <1>5 DEF Decode, AddressedSlots, ForceCommand, m
  <2> QED BY <1>1, <2>1, <2>2 DEF Arrives
<1>6. CASE n = "REFRESH_FORCE"
  <2>1. Encode(c) = e
    BY <1>6 DEF Encode, ForceCommand, build_report_force, refresh_force, ForProtocol
  <2>2. e \in Reports /\ e[1] = 16 * m + 12 /\ \A i \in 2 .. 8 : e[i] = d[i]
    <3> HIDE DEF d, m
    <3> QED BY <1>1, <1>4 DEF Reports
  <2>3. DecodeEffect(e) = DecodeEffect(d)
    <3> HIDE DEF d, e
    <3>1. /\ e[2] = d[2] /\ e[3] = d[3] /\ e[4] = d[4]
          /\ e[5] = d[5] /\ e[6] = d[6] /\ e[7] = d[7]
      BY <2>2
    <3>2. d[2] \in {0, 1, 2, 6}
      BY <1>1
    <3>3. CASE d[2] = 0
      BY <3>1, <3>3 DEF DecodeEffect
    <3>4. CASE d[2] = 1
      BY <3>1, <3>4 DEF DecodeEffect
    <3>5. CASE d[2] = 2
      BY <3>1, <3>5 DEF DecodeEffect
    <3>6. CASE d[2] = 6
      BY <3>1, <3>6 DEF DecodeEffect
    <3> QED BY <3>2, <3>3, <3>4, <3>5, <3>6
  <2>4. Decode(e) = c
    <3> HIDE DEF d, e, m
    <3> QED BY <1>1, <1>4, <1>6, <2>2, <2>3 DEF Decode, AddressedSlots, ForceCommand, m
  <2> QED BY <2>1, <2>2, <2>4 DEF Arrives
<1> QED BY <1>5, <1>6
=============================================================================
