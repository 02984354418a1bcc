------------------------------ MODULE MCWheel ------------------------------
(***************************************************************************)
(* A wheel under every order of its owner's scripts.                       *)
(***************************************************************************)
EXTENDS Wheel

Sample(s, sub) == [ZeroTelemetry EXCEPT !["speed"] = s, !["substance_l"] = sub]
Still          == [l |-> 0, r |-> 0]

(* Off the road: all four forces. *)
MCSettings == {UpdatedForces(Sample(100, 1), Still)}
=============================================================================
