------------------------- MODULE ProtocolLinkProofs -------------------------
(***************************************************************************)
(* Whatever is requested of the protocol class, the bytes on the line and  *)
(* what the device makes of them.                                          *)
(***************************************************************************)
EXTENDS ProtocolLink, ProtocolProofs

(* Every command of the line arrives. *)
LEMMA CommandArrives == \A c \in SlotCommands \cup ForceCommands \cup OtherCommands : Arrives(c)
<1>1. \A c \in SlotCommands : Arrives(c)
  BY SlotCommandArrives DEF SlotCommands
<1>2. \A c \in ForceCommands : Arrives(c)
  <2>1. \A t \in ForceType : \A p \in Params[t] : p \in AllParams[t]
    BY ParamsAssumption
  <2> QED BY <2>1, ForceCommandArrives DEF ForceCommands
<1>3. \A c \in OtherCommands : Arrives(c)
  BY OtherCommandsArrive, RangesAssumption DEF OtherCommands
<1> QED BY <1>1, <1>2, <1>3

-----------------------------------------------------------------------------
(* What is sent instead of a report. *)
LEMMA RefusalReport ==
    ASSUME NEW protocol \in ffb_protocol, NEW cmd \in command_type, Refused(protocol, cmd)
    PROVE  wire' \in Reports /\ RefusalIsHarmless'
<1> DEFINE e == [NoReport EXCEPT ![1] = 12]
<1>1. wire' = NoReport \/ wire' = e
  <2>1. CASE /\ \/ protocol # "logitech_classic"
                \/ cmd \in {"AUTO_SET", "LED_SET", "DL_FORCE", "REFRESH_FORCE", "COUNT"}
             /\ \E slots \in SUBSET Slots : wire' = build_report_slots(protocol, cmd, MaskOf(slots))
    BY <2>1 DEF build_report_slots, ForProtocol
  <2>2. CASE /\ protocol # "logitech_classic" \/ cmd \notin {"AUTO_SET", "DL_FORCE", "REFRESH_FORCE"}
             /\ \E type \in ForceType : \E p \in Params[type] :
                    wire' = build_report_force(protocol, cmd, type, p)
    <3>0. PICK type \in ForceType : \E p \in Params[type] :
                 wire' = build_report_force(protocol, cmd, type, p)
      BY <2>2
    <3>1. PICK p \in Params[type] : wire' = build_report_force(protocol, cmd, type, p)
      BY <3>0
    <3>2. CASE cmd = "REFRESH_FORCE"
      <4>1. protocol # "logitech_classic"
        BY <2>2, <3>2
      <4>2. wire' = [NoReport EXCEPT ![1] = 16 * (NoReport[1] \div 16) + 12]
        BY <3>1, <3>2, <4>1 DEF build_report_force, refresh_force, ForProtocol
      <4>3. 16 * (NoReport[1] \div 16) + 12 = 12
        BY NoReportIsZero
      <4> QED BY <4>2, <4>3
    <3>3. CASE cmd # "REFRESH_FORCE"
      BY <2>2, <3>1, <3>3 DEF build_report_force, ForProtocol
    <3> QED BY <3>2, <3>3
  <2>3. CASE /\ cmd \in {"DL_FORCE", "REFRESH_FORCE"}
             /\ \E p \in Params["constant"] : wire' = build_report_force(protocol, cmd, "COUNT", p)
    <3>1. PICK p \in Params["constant"] : wire' = build_report_force(protocol, cmd, "COUNT", p)
      BY <2>3
    <3>2. ForProtocol(protocol, download_force("COUNT", p)) = NoReport
      BY DEF ForProtocol, download_force
    <3>3. CASE cmd = "DL_FORCE"
      BY <3>1, <3>2, <3>3 DEF build_report_force
    <3>4. CASE cmd = "REFRESH_FORCE"
      <4>1. wire' = [NoReport EXCEPT ![1] = 16 * (NoReport[1] \div 16) + 12]
        BY <3>1, <3>2, <3>4 DEF build_report_force, refresh_force
      <4>2. 16 * (NoReport[1] \div 16) + 12 = 12
        BY NoReportIsZero
      <4> QED BY <4>1, <4>2
    <3> QED BY <2>3, <3>3, <3>4
  <2> QED BY <2>1, <2>2, <2>3 DEF Refused
<1>2. /\ NoReport \in Reports /\ NoReport[1] = 0 /\ NoReport[2] = 0
      /\ e \in Reports /\ e[1] = 12 /\ e[2] = 0
  BY NoReportIsZero DEF Reports, Byte
<1>3. SlotsOf(0) = {}
  BY DEF SlotsOf
<1>4. AddressedSlots(NoReport) = {} /\ AddressedSlots(e) = {}
  <2> HIDE DEF e
  <2> QED BY <1>2, <1>3 DEF AddressedSlots
<1>5. Decode(NoReport).cmd = "DL_FORCE" /\ Decode(e).cmd = "REFRESH_FORCE"
  <2> HIDE DEF e
  <2> QED BY <1>2 DEF Decode
<1>6. received' = Decode(wire')
  BY DEF Refused
<1> QED BY <1>1, <1>2, <1>4, <1>5, <1>6 DEF RefusalIsHarmless

LEMMA AutocenterReport ==
    ASSUME NEW p \in Params["spring"], SetAutocenter(p)
    PROVE  wire' \in Reports
<1>1. p.slope_left \in Slope /\ p.slope_right \in Slope /\ p.amplitude \in Byte
  BY ParamsAssumption DEF AllParams, ForceType, SpringParams
<1>2. FullSlope(p.slope_left) = 7 /\ FullSlope(p.slope_right) = 7
  BY <1>1 DEF FullSlope, Slope
<1>3. wire' = Report(<<62, 0, 7, 7, p.amplitude, 0>>)
  BY <1>2 DEF SetAutocenter, build_report_force, ForProtocol, set_autocenter, Command, SlotMask
<1> QED BY <1>1, <1>3 DEF Report, Reports, Byte

-----------------------------------------------------------------------------
LinkInv == ReportsAreBytes /\ RoundTrip /\ RefusalIsHarmless

LEMMA Names == \A c \in SlotCommands \cup ForceCommands \cup OtherCommands :
                   c # Refusal /\ c # Autocenter
<1>1. \A c \in SlotCommands \cup ForceCommands \cup OtherCommands :
          c.cmd # "refused" /\ c.cmd # "AUTO_SET"
  BY DEF SlotCommands, ForceCommands, OtherCommands, SlotCommand, ForceCommand,
         SetLeds, SetRange, NativeMode
<1> QED BY <1>1 DEF Refusal, Autocenter

LEMMA SentArrives ==
    ASSUME NEW c, c # Refusal, Arrives(c), Transmit(c)
    PROVE  LinkInv'
BY DEF Arrives, Transmit, LinkInv, ReportsAreBytes, RoundTrip, RefusalIsHarmless, Reports

LEMMA LinkInvariant == Spec => []LinkInv
<1>1. Init => LinkInv
  <2> SUFFICES ASSUME Init PROVE LinkInv
    OBVIOUS
  <2>1. NativeMode \in OtherCommands
    BY DEF OtherCommands
  <2>2. Arrives(NativeMode) /\ NativeMode # Refusal
    BY <2>1, CommandArrives, Names
  <2> QED BY <2>2 DEF Init, Arrives, LinkInv, ReportsAreBytes, RoundTrip, RefusalIsHarmless, Reports
<1>2. LinkInv /\ [Next]_vars => LinkInv'
  <2> SUFFICES ASSUME LinkInv, [Next]_vars PROVE LinkInv'
    OBVIOUS
  <2>1. ASSUME NEW c \in SlotCommands, Transmit(c) PROVE LinkInv'
    BY <2>1, CommandArrives, Names, SentArrives
  <2>2. ASSUME NEW c \in ForceCommands, Transmit(c) PROVE LinkInv'
    BY <2>2, CommandArrives, Names, SentArrives
  <2>3. ASSUME NEW c \in OtherCommands, Transmit(c) PROVE LinkInv'
    BY <2>3, CommandArrives, Names, SentArrives
  <2>4. ASSUME NEW p \in Params["spring"], SetAutocenter(p) PROVE LinkInv'
    <3>1. sent' = Autocenter /\ Autocenter # Refusal
      BY <2>4 DEF SetAutocenter, Autocenter, Refusal
    <3>2. wire' \in Reports
      BY <2>4, AutocenterReport
    <3> QED BY <3>1, <3>2 DEF LinkInv, ReportsAreBytes, RoundTrip, RefusalIsHarmless, Reports
  <2>5. ASSUME NEW protocol \in ffb_protocol, NEW cmd \in command_type, Refused(protocol, cmd)
        PROVE  LinkInv'
    <3>1. sent' = Refusal
      BY <2>5 DEF Refused
    <3>2. wire' \in Reports /\ RefusalIsHarmless'
      BY <2>5, RefusalReport
    <3> QED BY <3>1, <3>2 DEF LinkInv, ReportsAreBytes, RoundTrip, Reports
  <2>6. CASE UNCHANGED vars
    BY <2>6 DEF vars, LinkInv, ReportsAreBytes, RoundTrip, RefusalIsHarmless
  <2> QED BY <2>1, <2>2, <2>3, <2>4, <2>5, <2>6 DEF Next
<1> QED BY <1>1, <1>2, PTL DEF Spec

(* Every report fits its eight bytes, for all parameters and ranges.        *)
THEOREM ReportsFit == Spec => []ReportsAreBytes
BY LinkInvariant, PTL DEF LinkInv

(* Every command arrives as it was meant, for all parameters and ranges:    *)
(* what allows the other modules to leave the bytes out                     *)
(* (protocol.hxx:172-465).                                                  *)
THEOREM CommandsArrive == Spec => []RoundTrip
BY LinkInvariant, PTL DEF LinkInv

(* No request without a report touches an effect, whatever the protocol,    *)
(* the command and the force (protocol.hxx:172-208, 326-334).               *)
THEOREM RefusalsAreHarmless == Spec => []RefusalIsHarmless
BY LinkInvariant, PTL DEF LinkInv
=============================================================================
