---------------------------- MODULE MCSimulator ----------------------------
(***************************************************************************)
(* Telemetry at both sides of every threshold of simulator.hxx and of      *)
(* update_leds.  Each sample may follow each other one.                    *)
(***************************************************************************)
EXTENDS Simulator

Sample(s, rpm, a, b, sub_l, sub_r, l) ==
    [speed |-> s, rpm |-> rpm, lateral_accel |-> a, brake |-> b,
     substance_l |-> sub_l, substance_r |-> sub_r,
     suspension_deflection_l |-> l, suspension_deflection_r |-> 0]

MCSamples ==
    {Sample(s, 0, a, b, 0, 0, 0) :
       s \in {-400, -30, 0, 1, 4, 5, 30, 31, 50, 51, 150, 151, 200, 201, 220, 300, 400},
       a \in {-60, -7, 0, 7, 60}, b \in {0, 4, 8}}
    \cup {Sample(s, 0, 0, 0, sub_l, sub_r, l) :
            s \in {0, 4, 5, 150, 301}, sub_l \in {0, 1}, sub_r \in {0, 2}, l \in {0, 5, 6, 12}}
    \cup {Sample(10, rpm, 0, 0, 0, 0, 0) :
            rpm \in {0, 1, 999, 1000, 1299, 1300, 1599, 1600, 1799, 1800, 1900, 2500}}
=============================================================================
