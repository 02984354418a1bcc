------------------------------ MODULE MCPlugin ------------------------------
(***************************************************************************)
(* The plugin with a game that varies a few channels.                      *)
(***************************************************************************)
EXTENDS Plugin

CONSTANTS Speeds, Rpms, Substances    \* values of the channels that vary

MCChannelValues ==
    [c \in Channels |-> CASE c = "speed"       -> Speeds
                          [] c = "rpm"         -> Rpms
                          [] c = "substance_l" -> Substances
                          [] OTHER             -> {0}]

MCTelemetry == {[ZeroTelemetry EXCEPT !["speed"] = s, !["substance_l"] = u] :
                  s \in Speeds \cup {0}, u \in Substances \cup {0}}

MCSettings == {UpdatedForces(t, [l |-> 0, r |-> 0]) : t \in MCTelemetry}

MCPatterns == {LedPattern(r) : r \in Rpms \cup {0}}
=============================================================================
