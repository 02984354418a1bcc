------------------------------ MODULE Protocol ------------------------------
(***************************************************************************)
(* Logitech's classic force feedback protocol as fffb speaks it            *)
(* (include/fffb/joy/protocol.hxx, include/fffb/hid/report.hxx).           *)
(*                                                                         *)
(* The rest of the project talks about commands, records such as           *)
(*   [cmd |-> "PLAY_FORCE", slots |-> {0, 1}].                             *)
(* Encode turns a command into the eight bytes the plugin writes, Decode   *)
(* is the device's reading of those bytes.  That the two are inverse on    *)
(* every command fffb can produce (RoundTrip in ProtocolLink, and           *)
(* ReportsArrive in Wheel for the commands it writes) allows the other     *)
(* modules to leave bytes out.                                             *)
(*                                                                         *)
(* Here and in the other modules, a definition introduced as wrong is the  *)
(* one after it with a plausible bug, kept to see the properties fail.     *)
(***************************************************************************)
EXTENDS Integers, Sequences

Byte   == 0 .. 255
Word   == 0 .. 65535
Nibble == 0 .. 15
Slope  == 0 .. 7
Bit    == 0 .. 1

(* The four hardware effect slots; a command addresses a set of them. *)
Slots == 0 .. 3

(* The types a force may have; the last of the enumeration, COUNT, is none. *)
ForceType == {"constant", "spring", "damper", "trapezoid"}

(* The FFFB_FORCE_SLOT_* masks. The spring's, 0b0011, covers slots 0 and 1. *)
SlotMask == [constant |-> 1, spring |-> 3, damper |-> 4, trapezoid |-> 8]

(* The slots a four bit mask selects, and the mask of a set of slots.  The  *)
(* bitwise OR of two masks is MaskOf(SlotsOf(a) \cup SlotsOf(b)).           *)
SlotsOf(mask) ==
    {s \in Slots : \/ s = 0 /\ mask % 2 = 1
                   \/ s = 1 /\ (mask \div 2) % 2 = 1
                   \/ s = 2 /\ (mask \div 4) % 2 = 1
                   \/ s = 3 /\ (mask \div 8) % 2 = 1}

If(p) == IF p THEN 1 ELSE 0

MaskOf(S) == If(0 \in S) + 2 * If(1 \in S) + 4 * If(2 \in S) + 8 * If(3 \in S)

-----------------------------------------------------------------------------
(***************************************************************************)
(* Effect parameters.  A field holds the width the device reads of it:     *)
(* three bits of slope, one of inversion, a nibble per slope step.         *)
(***************************************************************************)
ConstantParams == [amplitude : Byte]

SpringParams == [dead_start : Byte, dead_end : Byte,
                 slope_left : Slope, slope_right : Slope,
                 invert_left : Bit, invert_right : Bit,
                 amplitude : Byte]

DamperParams == [slope_left : Slope, slope_right : Slope,
                 invert_left : Bit, invert_right : Bit]

TrapezoidParams == [amplitude_max : Byte, amplitude_min : Byte,
                    t_at_max : Byte, t_at_min : Byte,
                    slope_step_x : Nibble, slope_step_y : Nibble]

AllParams == [constant |-> ConstantParams, spring |-> SpringParams,
              damper |-> DamperParams, trapezoid |-> TrapezoidParams]

-----------------------------------------------------------------------------
(***************************************************************************)
(* The report builders.  A report is FFFB_REPORT_MAX_LEN bytes, the ones   *)
(* an initializer leaves out are 0.                                        *)
(***************************************************************************)
Report(bytes) == [i \in 1 .. 8 |-> IF i <= Len(bytes) THEN bytes[i] ELSE 0]

(* return {} *)
NoReport == Report(<<>>)

(* uint8_t( slots << 4 ) | code *)
Command(mask, code) == ((mask * 16) % 256) + code

disable_autocenter(mask) == Report(<<Command(mask, 5)>>)
enable_autocenter(mask)  == Report(<<Command(mask, 4)>>)
play_force(mask)         == Report(<<Command(mask, 2), 0>>)
stop_force(mask)         == Report(<<Command(mask, 3), 0>>)

set_led_pattern(pattern) == Report(<<248, 18, pattern % 32, 0>>)

(* A wrong set_range: the low byte is not masked. *)
set_rangeUnmasked(range) == Report(<<248, 129, range, (range \div 256) % 256, 0, 0, 0>>)

set_range(range) == Report(<<248, 129, range % 256, (range \div 256) % 256, 0, 0, 0>>)

native_mode == Report(<<48, 248, 9, 5, 1>>)

constant_force(mask, f) ==
    LET a == f.amplitude IN Report(<<Command(mask, 0), 0, a, a, a, a, 0>>)

(* A wrong spring_force: the two slopes are packed the other way round. *)
spring_forceSwapped(mask, f) ==
    Report(<<Command(mask, 0), 1, f.dead_start, f.dead_end,
             (f.slope_left % 8) * 16 + (f.slope_right % 8),
             (f.invert_right % 2) * 16 + (f.invert_left % 2),
             f.amplitude>>)

spring_force(mask, f) ==
    Report(<<Command(mask, 0), 1, f.dead_start, f.dead_end,
             (f.slope_right % 8) * 16 + (f.slope_left % 8),
             (f.invert_right % 2) * 16 + (f.invert_left % 2),
             f.amplitude>>)

damper_force(mask, f) ==
    Report(<<Command(mask, 0), 2, f.slope_left % 8, f.invert_left % 2,
             f.slope_right % 8, f.invert_right % 2, 0>>)

(* uint8_t( ( x << 4 ) | y ): a y above 15 spills into the nibble of x. *)
Nibbles(x, y) ==
    16 * MaskOf(SlotsOf(x % 16) \cup SlotsOf((y \div 16) % 16)) + (y % 16)

trapezoid_force(mask, f) ==
    Report(<<Command(mask, 0), 6, f.amplitude_max, f.amplitude_min,
             f.t_at_max, f.t_at_min, Nibbles(f.slope_step_x, f.slope_step_y)>>)

download_force(type, f) ==
    CASE type = "constant"  -> constant_force(SlotMask[type], f)
      [] type = "spring"    -> spring_force(SlotMask[type], f)
      [] type = "damper"    -> damper_force(SlotMask[type], f)
      [] type = "trapezoid" -> trapezoid_force(SlotMask[type], f)
      [] OTHER              -> NoReport

(* ( slope | 0b0111 ): the autocenter spring always has its full slope. *)
FullSlope(slope) == slope - (slope % 8) + 7

set_autocenter(mask, f) ==
    Report(<<Command(mask, 14), 0, FullSlope(f.slope_left), FullSlope(f.slope_right),
             f.amplitude, 0>>)

(* Native mode and the 900 degree range; empty for wheels it does not know. *)
init_sequence(known) == IF known THEN <<native_mode, set_range(900)>> ELSE <<>>

-----------------------------------------------------------------------------
(***************************************************************************)
(* The report of a request, whatever the protocol.                         *)
(***************************************************************************)
(* A wrong ForProtocol: the branch for the newer protocol falls through to  *)
(* the classic report.                                                      *)
ForProtocolFallsThrough(protocol, report) == IF protocol = "count" THEN NoReport ELSE report

(* Every builder ends in a switch: one protocol has a report.               *)
ForProtocol(protocol, report) ==
    IF protocol = "logitech_classic" THEN report ELSE NoReport

(* A download whose command nibble is rewritten to 0xC, that of no report too. *)
refresh_force(protocol, type, f) ==
    LET rep == ForProtocol(protocol, download_force(type, f))
    IN  [rep EXCEPT ![1] = 16 * (rep[1] \div 16) + 12]

(* The two overloads of build_report: a command with slots, one with a      *)
(* force; no report for a command that wants the other.                     *)
build_report_slots(protocol, cmd, mask) ==
    ForProtocol(protocol,
        CASE cmd = "AUTO_OFF"   -> disable_autocenter(mask)
          [] cmd = "AUTO_ON"    -> enable_autocenter(mask)
          [] cmd = "PLAY_FORCE" -> play_force(mask)
          [] cmd = "STOP_FORCE" -> stop_force(mask)
          [] OTHER              -> NoReport)

build_report_force(protocol, cmd, type, f) ==
    CASE cmd = "AUTO_SET"      -> ForProtocol(protocol, set_autocenter(SlotMask[type], f))
      [] cmd = "DL_FORCE"      -> ForProtocol(protocol, download_force(type, f))
      [] cmd = "REFRESH_FORCE" -> refresh_force(protocol, type, f)
      [] OTHER                 -> NoReport

command_type == {"AUTO_ON", "AUTO_OFF", "AUTO_SET", "LED_SET", "DL_FORCE", "PLAY_FORCE",
                 "REFRESH_FORCE", "STOP_FORCE", "COUNT"}

ffb_protocol == {"logitech_classic", "logitech_hidpp", "count"}

-----------------------------------------------------------------------------
(***************************************************************************)
(* Commands, and the classic report of each.                               *)
(***************************************************************************)
SlotCommand(name, slots) == [cmd |-> name, slots |-> slots]

ForceCommand(name, type, params) ==
    [cmd |-> name, slots |-> SlotsOf(SlotMask[type]), type |-> type, params |-> params]

LedPatterns == 0 .. 31

SetLeds(pattern) == [cmd |-> "LED_SET", pattern |-> pattern]

NativeMode      == [cmd |-> "NATIVE_MODE"]
SetRange(range) == [cmd |-> "RANGE_SET", range |-> range]

Encode(c) ==
    CASE c.cmd = "LED_SET"     -> set_led_pattern(c.pattern)
      [] c.cmd = "RANGE_SET"   -> set_range(c.range)
      [] c.cmd = "NATIVE_MODE" -> native_mode
      [] c.cmd \in {"DL_FORCE", "REFRESH_FORCE"} ->
           build_report_force("logitech_classic", c.cmd, c.type, c.params)
      [] OTHER -> build_report_slots("logitech_classic", c.cmd, MaskOf(c.slots))

-----------------------------------------------------------------------------
(***************************************************************************)
(* The device's side (external: the firmware's reading of a report).       *)
(***************************************************************************)
DecodeEffect(b) ==
    CASE b[2] = 0 -> [type |-> "constant", params |-> [amplitude |-> b[3]]]
      [] b[2] = 1 -> [type |-> "spring", params |->
                        [dead_start |-> b[3], dead_end |-> b[4],
                         slope_left |-> b[5] % 16, slope_right |-> b[5] \div 16,
                         invert_left |-> b[6] % 16, invert_right |-> b[6] \div 16,
                         amplitude |-> b[7]]]
      [] b[2] = 2 -> [type |-> "damper", params |->
                        [slope_left |-> b[3], invert_left |-> b[4],
                         slope_right |-> b[5], invert_right |-> b[6]]]
      [] b[2] = 6 -> [type |-> "trapezoid", params |->
                        [amplitude_max |-> b[3], amplitude_min |-> b[4],
                         t_at_max |-> b[5], t_at_min |-> b[6],
                         slope_step_x |-> b[7] \div 16, slope_step_y |-> b[7] % 16]]

(* The slots a report is about; the 0xF of an 0xF8 is no slot mask. *)
AddressedSlots(b) == SlotsOf(b[1] \div 16)

Decode(b) ==
    LET code  == b[1] % 16
        slots == AddressedSlots(b)
        load(name) == [cmd |-> name, slots |-> slots, type |-> DecodeEffect(b).type,
                       params |-> DecodeEffect(b).params]
    IN  CASE b[1] = 48 /\ b[2] = 248  -> NativeMode
          [] b[1] = 248 /\ b[2] = 18  -> SetLeds(b[3])
          [] b[1] = 248 /\ b[2] = 129 -> SetRange(b[3] + 256 * b[4])
          [] code = 0 /\ b[2] # 248   -> load("DL_FORCE")
          [] code = 12 -> load("REFRESH_FORCE")
          [] code = 2  -> SlotCommand("PLAY_FORCE", slots)
          [] code = 3  -> SlotCommand("STOP_FORCE", slots)
          [] code = 4  -> SlotCommand("AUTO_ON", slots)
          [] code = 5  -> SlotCommand("AUTO_OFF", slots)
=============================================================================
