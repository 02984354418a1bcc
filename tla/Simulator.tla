------------------------------ MODULE Simulator ------------------------------
(***************************************************************************)
(* fffb::simulator on its own: the force settings it has computed last and *)
(* the suspension deflection it remembers between updates.  Telemetry is   *)
(* any value the channels may hold.                                        *)
(***************************************************************************)
EXTENDS Forces

CONSTANT Samples                     \* the telemetry states considered

ASSUME SamplesAssumption == Samples \subseteq Telemetry

VARIABLES telemetry,                 \* the argument of the last update_forces
          forces,                    \* constant_, spring_, damper_, trapezoid_
          prev_deflection            \* prev_deflection_l_, prev_deflection_r_

simVars == <<telemetry, forces, prev_deflection>>

SimInit == /\ telemetry = ZeroTelemetry
           /\ forces = DefaultForces
           /\ prev_deflection = [l |-> 0, r |-> 0]

(* A wrong UpdateForces, to see BumpDetected fail: the early return for a    *)
(* truck on the road forgets to store the deflection.                       *)
UpdateForcesForgetful(t) ==
    /\ telemetry' = t
    /\ forces' = UpdatedForces(t, prev_deflection)
    /\ prev_deflection' = IF Offroad(t) THEN UpdatedDeflection(t) ELSE prev_deflection

UpdateForces(t) == /\ telemetry' = t
                   /\ forces' = UpdatedForces(t, prev_deflection)
                   /\ prev_deflection' = UpdatedDeflection(t)

SimNext == \E t \in Samples : UpdateForces(t)

SimSpec == SimInit /\ [][SimNext]_simVars

-----------------------------------------------------------------------------
(* Type invariant.  Its second conjunct is the one with content: whatever   *)
(* the telemetry, every parameter fits the bits the report gives it, so no   *)
(* slope wraps around to a light one (simulator.hxx:118-308 against the      *)
(* masks of protocol.hxx:376-465).                                          *)
SimTypeOK == /\ telemetry \in Telemetry
             /\ forces \in ForceSettings
             /\ prev_deflection \in Deflection

(* Inductive invariant: the deflections of the last update are stored, and  *)
(* the forces are those of the last telemetry (the damper's from the first  *)
(* update on: before it the truck stands and only the damper would be on).  *)
SimInv == /\ prev_deflection = UpdatedDeflection(telemetry)
          /\ forces.constant = UpdateConstant(telemetry)
          /\ forces.spring = UpdateSpring(telemetry)
          /\ forces.damper \in {default_damper_f, UpdateDamper(telemetry)}

Pull(f) == f.constant.params.amplitude - 128

(* Two telemetry states that differ in channel c only. *)
DifferOnlyIn(c, t, u) == \A d \in Channels \ {c} : t[d] = u[d]

(* The self-aligning torque treats left and right alike (one step of        *)
(* truncation apart) and heavy braking never makes it stronger (README:     *)
(* "reduced on heavy braking"; simulator.hxx:123-158).                      *)
AlignmentPull ==
    [][ LET l == telemetry.lateral_accel
            here  == Pull(forces)
            there == Pull(forces')
            weaker == IF l >= 0 THEN 0 <= there /\ there <= here
                                ELSE here <= there /\ there <= 0
        IN  /\ DifferOnlyIn("lateral_accel", telemetry, telemetry')
                 /\ telemetry'.lateral_accel = -l
               => here + there \in -1 .. 0
            /\ DifferOnlyIn("brake", telemetry, telemetry')
                 /\ telemetry'.brake >= telemetry.brake
               => weaker ]_simVars

(* Centering gets no lighter as the truck gets faster: the three segments   *)
(* of the slope and of the amplitude meet without a step down               *)
(* (simulator.hxx:180-219).                                                 *)
SpringStiffens ==
    [][ Abs(telemetry.speed) <= Abs(telemetry'.speed) /\ forces.spring.enabled =>
          /\ forces'.spring.enabled
          /\ forces.spring.params.amplitude <= forces'.spring.params.amplitude
          /\ forces.spring.params.slope_left <= forces'.spring.params.slope_left
      ]_simVars

(* Steering resistance grows with speed and with braking, and never drops   *)
(* out once the simulator has run (simulator.hxx:225-246).                  *)
DamperResists ==
    [][ /\ forces'.damper.enabled
        /\ Abs(telemetry.speed) <= Abs(telemetry'.speed) /\ telemetry.brake <= telemetry'.brake
             => forces.damper.params.slope_left <= forces'.damper.params.slope_left
      ]_simVars

(* The vibration is widened exactly when a suspension moved more than 5 mm  *)
(* since the previous update, also when that previous update took the early *)
(* return for a truck on the road or standing (simulator.hxx:258-287).      *)
BumpDetected ==
    [][ LET last == [l |-> telemetry.suspension_deflection_l,
                     r |-> telemetry.suspension_deflection_r]
            p    == forces'.trapezoid.params
        IN  forces'.trapezoid.enabled =>
              (DeflectionDelta(telemetry', last) > 5 <=> p.amplitude_min - p.amplitude_max > 24)
      ]_simVars

(* "RPM LEDs ... progressively lighting up as RPM increases" (README):      *)
(* a higher engine speed lights a superset of the LEDs (fffb.cxx:83-99).    *)
LedsProgress ==
    [][ telemetry.rpm <= telemetry'.rpm =>
          LedPattern(telemetry.rpm) <= LedPattern(telemetry'.rpm) ]_simVars
=============================================================================
