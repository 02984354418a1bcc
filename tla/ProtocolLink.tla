---------------------------- MODULE ProtocolLink ----------------------------
(***************************************************************************)
(* The protocol class at one end of the line and the device at the other:  *)
(* a request is turned into a report, and the report is read.  Reports do  *)
(* not depend on one another, so a behaviour makes one request.            *)
(***************************************************************************)
EXTENDS Protocol

CONSTANTS Params,   \* for each type of force, the parameters it may have
          Ranges    \* the ranges a wheel may be set to

ASSUME ParamsAssumption == \A t \in ForceType : Params[t] \subseteq AllParams[t]
ASSUME RangesAssumption == Ranges \subseteq Word

VARIABLES sent,     \* the command handed to the protocol class, or Refusal
          wire,     \* the report, as bytes
          received, \* the command the device makes of it
          pending   \* one request is made from each initial state

vars == <<sent, wire, received, pending>>

SlotCommands == {SlotCommand(n, s) : n \in {"AUTO_OFF", "AUTO_ON", "PLAY_FORCE", "STOP_FORCE"},
                                     s \in SUBSET Slots}
ForceCommands == UNION {{ForceCommand(n, t, p) : p \in Params[t]} :
                          n \in {"DL_FORCE", "REFRESH_FORCE"}, t \in ForceType}
OtherCommands == {SetLeds(p) : p \in LedPatterns} \cup {SetRange(r) : r \in Ranges}
                   \cup {NativeMode}

(* Requests that no report answers, and the one the device is not known to  *)
(* read back.                                                               *)
Refusal    == [cmd |-> "refused"]
Autocenter == [cmd |-> "AUTO_SET"]

Transmit(c) == /\ pending
               /\ pending' = FALSE
               /\ sent' = c
               /\ wire' = Encode(c)
               /\ received' = Decode(wire')

(* A request the protocol class has no report for: the protocol is not      *)
(* implemented, the command goes with the other overload or is none, or the *)
(* force has no type.                                                       *)
Refused(protocol, cmd) ==
    /\ pending
    /\ pending' = FALSE
    /\ sent' = Refusal
    /\ \/ /\ \/ protocol # "logitech_classic"
             \/ cmd \in {"AUTO_SET", "LED_SET", "DL_FORCE", "REFRESH_FORCE", "COUNT"}
          /\ \E slots \in SUBSET Slots : wire' = build_report_slots(protocol, cmd, MaskOf(slots))
       \/ /\ \/ protocol # "logitech_classic"
             \/ cmd \notin {"AUTO_SET", "DL_FORCE", "REFRESH_FORCE"}
          /\ \E type \in ForceType : \E p \in Params[type] :
                 wire' = build_report_force(protocol, cmd, type, p)
       \/ /\ cmd \in {"DL_FORCE", "REFRESH_FORCE"}
          /\ \E p \in Params["constant"] : wire' = build_report_force(protocol, cmd, "COUNT", p)
    /\ received' = Decode(wire')

SetAutocenter(p) == /\ pending
                    /\ pending' = FALSE
                    /\ sent' = Autocenter
                    /\ wire' = build_report_force("logitech_classic", "AUTO_SET", "spring", p)
                    /\ UNCHANGED received

Init == /\ sent = NativeMode
        /\ wire = Encode(sent)
        /\ received = Decode(wire)
        /\ pending = TRUE

Next == \/ \E c \in SlotCommands : Transmit(c)
        \/ \E c \in ForceCommands : Transmit(c)
        \/ \E c \in OtherCommands : Transmit(c)
        \/ \E p \in Params["spring"] : SetAutocenter(p)
        \/ \E protocol \in ffb_protocol, cmd \in command_type : Refused(protocol, cmd)

Spec == Init /\ [][Next]_vars

(* Every report is eight bytes: no builder overflows its uint8_t. *)
ReportsAreBytes == wire \in [1 .. 8 -> Byte]

(* The device receives exactly the command and the parameters the plugin    *)
(* meant: masking with 0b0111, packing two slopes in a byte or rewriting    *)
(* the command nibble for a refresh loses nothing (protocol.hxx:172-465).   *)
RoundTrip == sent \notin {Refusal, Autocenter} => received = sent

(* What the class returns instead of a report is eight bytes like any other *)
(* and nothing keeps its caller from writing them: whatever the protocol    *)
(* and the command, they address no effect slot, start nothing and stop     *)
(* nothing (protocol.hxx:172-208, 326-334).                                 *)
RefusalIsHarmless ==
    sent = Refusal => /\ AddressedSlots(wire) = {}
                      /\ received.cmd \in {"DL_FORCE", "REFRESH_FORCE"}
=============================================================================
