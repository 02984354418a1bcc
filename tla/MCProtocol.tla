----------------------------- MODULE MCProtocol -----------------------------
(***************************************************************************)
(* Every kind of report the plugin writes, for boundary values of the      *)
(* fields that share no byte and all values of those that do.              *)
(***************************************************************************)
EXTENDS ProtocolLink

B == {0, 255}                          \* boundary bytes
S == {0, 2, 7}                          \* boundary slopes, three bits

MCParams ==
    [constant  |-> [amplitude : 0 .. 255],
     spring    |-> [dead_start : B, dead_end : B, slope_left : S, slope_right : S,
                    invert_left : {0}, invert_right : {0, 1}, amplitude : B],
     damper    |-> DamperParams,
     trapezoid |-> [amplitude_max : B, amplitude_min : {140}, t_at_max : {48},
                    t_at_min : {8, 48}, slope_step_x : 0 .. 15, slope_step_y : 0 .. 15]]

MCRanges == {0, 40, 900, 65535}
=============================================================================
