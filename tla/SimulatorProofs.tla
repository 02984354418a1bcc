-------------------------- MODULE SimulatorProofs --------------------------
(***************************************************************************)
(* Proofs about module Simulator: its type invariant, and the properties   *)
(* of one update relative to the previous one, for any telemetry.          *)
(***************************************************************************)
EXTENDS Simulator, ForcesProofs

-----------------------------------------------------------------------------
LEMMA StepType ==
    ASSUME SimTypeOK, NEW t \in Telemetry, UpdateForces(t)
    PROVE  SimTypeOK' /\ SimInv'
<1>1. /\ telemetry' = t /\ forces' = UpdatedForces(t, prev_deflection)
      /\ prev_deflection' = UpdatedDeflection(t)
  BY DEF UpdateForces
<1>2. forces' \in ForceSettings
  BY <1>1, UpdatedForcesType DEF SimTypeOK
<1>3. UpdatedDeflection(t) \in Deflection
  BY DEF UpdatedDeflection, Deflection, Telemetry
<1> QED BY <1>1, <1>2, <1>3 DEF SimTypeOK, SimInv, UpdatedForces

(* The inductive invariant behind the theorems: what is stored belongs to   *)
(* the last telemetry.                                                      *)
LEMMA SimInvariant == SimSpec => [](SimTypeOK /\ SimInv)
<1>1. SimInit => SimTypeOK /\ SimInv
  <2>1. [l |-> 0, r |-> 0] \in Deflection /\ UpdatedDeflection(ZeroTelemetry) = [l |-> 0, r |-> 0]
    BY DEF Deflection, UpdatedDeflection, ZeroTelemetry, Channels
  <2>2. Abs(ZeroTelemetry.speed) = 0
    BY DEF Abs, ZeroTelemetry, Channels
  <2>3. /\ DefaultForces.constant = UpdateConstant(ZeroTelemetry)
        /\ DefaultForces.spring = UpdateSpring(ZeroTelemetry)
    BY <2>2 DEF DefaultForces, UpdateConstant, UpdateSpring
  <2> QED BY <2>1, <2>3, ZeroTelemetryType, DefaultForcesType
          DEF SimInit, SimTypeOK, SimInv, DefaultForces
<1>2. SimTypeOK /\ SimInv /\ [SimNext]_simVars => (SimTypeOK /\ SimInv)'
  <2> SUFFICES ASSUME SimTypeOK, SimInv, [SimNext]_simVars PROVE (SimTypeOK /\ SimInv)'
    OBVIOUS
  <2>1. CASE SimNext
    BY <2>1, StepType, SamplesAssumption DEF SimNext
  <2>2. CASE UNCHANGED simVars
    BY <2>2 DEF simVars, SimTypeOK, SimInv
  <2> QED BY <2>1, <2>2
<1> QED BY <1>1, <1>2, PTL DEF SimSpec

(* For any set of telemetry states, every parameter of every force fits the *)
(* bits the report has for it: no slope or step wraps around.               *)
THEOREM SimulatorTypeCorrect == SimSpec => []SimTypeOK
BY SimInvariant, PTL

-----------------------------------------------------------------------------
LEMMA SpringMonotone ==
    ASSUME NEW a \in Nat, NEW b \in Nat, a <= b
    PROVE  SpringSlope(a) <= SpringSlope(b) /\ SpringAmplitude(a) <= SpringAmplitude(b)
<1>1. SpringSlope(a) <= SpringSlope(b)
  BY DEF SpringSlope, Least
<1>2. SpringAmplitude(a) <= SpringAmplitude(b)
  BY DEF SpringAmplitude, Least
<1> QED BY <1>1, <1>2

(* Centering never gets lighter as the truck gets faster, between any two   *)
(* speeds (simulator.hxx:180-219).                                          *)
THEOREM SpringOnlyStiffens == SimSpec => SpringStiffens
<1>1. SimTypeOK /\ SimInv /\ [SimNext]_simVars =>
        [ Abs(telemetry.speed) <= Abs(telemetry'.speed) /\ forces.spring.enabled =>
            /\ forces'.spring.enabled
            /\ forces.spring.params.amplitude <= forces'.spring.params.amplitude
            /\ forces.spring.params.slope_left <= forces'.spring.params.slope_left ]_simVars
  <2> SUFFICES ASSUME SimTypeOK, SimInv, SimNext,
                      Abs(telemetry.speed) <= Abs(telemetry'.speed), forces.spring.enabled
               PROVE  /\ forces'.spring.enabled
                      /\ forces.spring.params.amplitude <= forces'.spring.params.amplitude
                      /\ forces.spring.params.slope_left <= forces'.spring.params.slope_left
    BY DEF simVars
  <2> DEFINE a == Abs(telemetry.speed)
             b == Abs(telemetry'.speed)
  <2>1. PICK t \in Telemetry : UpdateForces(t)
    BY SamplesAssumption DEF SimNext
  <2>2. telemetry' = t /\ forces'.spring = UpdateSpring(t)
    BY <2>1 DEF UpdateForces, UpdatedForces
  <2>3. forces.spring = UpdateSpring(telemetry)
    BY DEF SimInv
  <2>4. a \in Nat /\ b \in Nat
    BY <2>2, AbsType DEF SimTypeOK, Telemetry
  <2>5. a >= 1
    BY <2>3, <2>4 DEF UpdateSpring, default_spring_f
  <2>6. /\ forces.spring.params.slope_left = SpringSlope(a)
        /\ forces.spring.params.amplitude = SpringAmplitude(a)
    BY <2>3, <2>4, <2>5 DEF UpdateSpring, default_spring_f
  <2>7. /\ forces'.spring.enabled
        /\ forces'.spring.params.slope_left = SpringSlope(b)
        /\ forces'.spring.params.amplitude = SpringAmplitude(b)
    BY <2>2, <2>4, <2>5 DEF UpdateSpring, default_spring_f
  <2> QED BY <2>4, <2>6, <2>7, SpringMonotone
<1> QED BY <1>1, SimInvariant, PTL DEF SimSpec, SpringStiffens

(* A bump is seen whatever the previous update was (simulator.hxx:258-287).  *)
THEOREM BumpsAreDetected == SimSpec => BumpDetected
<1>1. SimTypeOK /\ SimInv /\ SimNext =>
        ( forces'.trapezoid.enabled =>
            ( DeflectionDelta(telemetry', [l |-> telemetry.suspension_deflection_l,
                                           r |-> telemetry.suspension_deflection_r]) > 5
              <=> forces'.trapezoid.params.amplitude_min
                    - forces'.trapezoid.params.amplitude_max > 24 ) )
  <2> SUFFICES ASSUME SimTypeOK, SimInv, SimNext, forces'.trapezoid.enabled
               PROVE  DeflectionDelta(telemetry', prev_deflection) > 5
                        <=> forces'.trapezoid.params.amplitude_min
                              - forces'.trapezoid.params.amplitude_max > 24
    BY DEF SimInv, UpdatedDeflection
  <2>1. PICK t \in Telemetry : UpdateForces(t)
    BY SamplesAssumption DEF SimNext
  <2>2. telemetry' = t /\ forces'.trapezoid = UpdateTrapezoid(t, prev_deflection)
    BY <2>1 DEF UpdateForces, UpdatedForces
  <2>3. forces'.trapezoid.params = TrapezoidParamsOf(t, prev_deflection)
    BY <2>2 DEF UpdateTrapezoid, default_trap_f
  <2> DEFINE bump_extra == IF DeflectionDelta(t, prev_deflection) > 5 THEN 4 ELSE 0
  <2>4. /\ forces'.trapezoid.params.amplitude_max = Greatest(96, 116 - bump_extra)
        /\ forces'.trapezoid.params.amplitude_min = Least(160, 140 + bump_extra)
    BY <2>3 DEF TrapezoidParamsOf
  <2>5. DeflectionDelta(t, prev_deflection) \in Nat
    BY DeflectionDeltaType DEF SimTypeOK
  <2> QED BY <2>2, <2>4, <2>5 DEF Greatest, Least
<1> QED BY <1>1, SimInvariant, PTL DEF SimSpec, BumpDetected

(* The damper never gets weaker with more speed and more braking, and stays  *)
(* on once it is (simulator.hxx:225-246).                                    *)
THEOREM DamperKeepsResisting == SimSpec => DamperResists
<1>1. SimTypeOK /\ SimInv /\ SimNext =>
        /\ forces'.damper.enabled
        /\ Abs(telemetry.speed) <= Abs(telemetry'.speed) /\ telemetry.brake <= telemetry'.brake
             => forces.damper.params.slope_left <= forces'.damper.params.slope_left
  <2> SUFFICES ASSUME SimTypeOK, SimInv, SimNext
               PROVE  /\ forces'.damper.enabled
                      /\ /\ Abs(telemetry.speed) <= Abs(telemetry'.speed)
                         /\ telemetry.brake <= telemetry'.brake
                         => forces.damper.params.slope_left <= forces'.damper.params.slope_left
    OBVIOUS
  <2>1. PICK t \in Telemetry : UpdateForces(t)
    BY SamplesAssumption DEF SimNext
  <2>2. telemetry' = t /\ forces'.damper = UpdateDamper(t)
    BY <2>1 DEF UpdateForces, UpdatedForces
  <2>3. \A u \in Telemetry : UpdateDamper(u).enabled
                             /\ UpdateDamper(u).params.slope_left = DamperSlope(u)
    BY DEF UpdateDamper, default_damper_f
  <2>4. \A u \in Telemetry : /\ DamperSlope(u) \in Slope /\ u.brake \in Int
                             /\ Abs(u.speed) \in Nat
    BY DamperSlopeType, AbsType DEF Telemetry
  <2>5. ASSUME Abs(telemetry.speed) <= Abs(t.speed), telemetry.brake <= t.brake
        PROVE  DamperSlope(telemetry) <= DamperSlope(t)
    BY <2>4, <2>5 DEF SimTypeOK, DamperSlope, Least, Greatest
  <2>6. \/ forces.damper.params.slope_left = 0
        \/ forces.damper.params.slope_left = DamperSlope(telemetry)
    BY <2>3 DEF SimInv, SimTypeOK, default_damper_f
  <2>7. DamperSlope(t) \in Int /\ 0 <= DamperSlope(t)
    BY <2>4 DEF Slope
  <2> QED BY <2>2, <2>3, <2>5, <2>6, <2>7
<1> QED BY <1>1, SimInvariant, PTL DEF SimSpec, DamperResists

-----------------------------------------------------------------------------
(* The pull of a lateral acceleration whose product with the speed and the  *)
(* gain is x, in 1 / 5000.                                                  *)
PullOf(x) == (Least(Greatest(640000 + x, 40000), 1240000) \div 5000) - 128

LEMMA PullSymmetric == \A x \in Int : PullOf(x) + PullOf(-x) \in -1 .. 0
<1> SUFFICES ASSUME NEW x \in Int
             PROVE  PullOf(x) + PullOf(-x) >= -1 /\ PullOf(x) + PullOf(-x) <= 0
  BY DEF PullOf, Least, Greatest
<1> QED BY DEF PullOf, Least, Greatest

LEMMA PullWeaker ==
    ASSUME NEW y \in Int
    PROVE  /\ y >= 0 => 0 <= PullOf(6 * y) /\ PullOf(6 * y) <= PullOf(10 * y)
           /\ y <= 0 => PullOf(10 * y) <= PullOf(6 * y) /\ PullOf(6 * y) <= 0
BY DEF PullOf, Least, Greatest

(* The lateral acceleration scaled by the gain and the speed.               *)
Product(t) == t.lateral_accel * 32 * Least(Abs(t.speed), 50)

BrakeFactor(t) == IF t.brake > 7 THEN 6 ELSE 10

LEMMA PullOfConstant ==
    ASSUME NEW t \in Telemetry
    PROVE  /\ Product(t) \in Int
           /\ UpdateConstant(t).params.amplitude - 128 =
                IF Abs(t.speed) < 1 THEN 0 ELSE PullOf(Product(t) * BrakeFactor(t))
<1>1. t.lateral_accel \in Int /\ Least(Abs(t.speed), 50) \in Int /\ Abs(t.speed) \in Nat
  BY AbsType DEF Telemetry, Least
<1>2. Product(t) \in Int
  BY <1>1 DEF Product
<1>3. ConstantAmplitude(t) - 128 = PullOf(Product(t) * BrakeFactor(t))
  BY DEF ConstantAmplitude, PullOf, Product, BrakeFactor
<1> QED BY <1>2, <1>3 DEF UpdateConstant, default_const_f

(* The self-aligning torque is the same to the left and to the right, and    *)
(* braking never strengthens it (simulator.hxx:123-158).                     *)
THEOREM AlignmentIsFair == SimSpec => AlignmentPull
<1> DEFINE l == telemetry.lateral_accel
           weaker == IF l >= 0 THEN 0 <= Pull(forces') /\ Pull(forces') <= Pull(forces)
                               ELSE Pull(forces) <= Pull(forces') /\ Pull(forces') <= 0
           turned == /\ DifferOnlyIn("lateral_accel", telemetry, telemetry')
                     /\ telemetry'.lateral_accel = -l
           braked == /\ DifferOnlyIn("brake", telemetry, telemetry')
                     /\ telemetry'.brake >= telemetry.brake
<1>1. SimTypeOK /\ SimInv /\ SimNext =>
        /\ turned => Pull(forces) + Pull(forces') \in -1 .. 0
        /\ braked => weaker
  <2> SUFFICES ASSUME SimTypeOK, SimInv, SimNext
               PROVE  /\ turned => Pull(forces) + Pull(forces') \in -1 .. 0
                      /\ braked => weaker
    OBVIOUS
  <2>1. PICK t \in Telemetry : UpdateForces(t)
    BY SamplesAssumption DEF SimNext
  <2>2. telemetry' = t /\ telemetry \in Telemetry
    BY <2>1 DEF UpdateForces, SimTypeOK
  <2>3. /\ Pull(forces) = UpdateConstant(telemetry).params.amplitude - 128
        /\ Pull(forces') = UpdateConstant(t).params.amplitude - 128
    BY <2>1 DEF Pull, SimInv, UpdateForces, UpdatedForces
  <2> DEFINE y == Product(telemetry)
             z == Product(t)
             slow == Abs(telemetry.speed) < 1
  <2>4. /\ y \in Int /\ Pull(forces) = IF slow THEN 0 ELSE PullOf(y * BrakeFactor(telemetry))
        /\ z \in Int /\ Pull(forces') = IF Abs(t.speed) < 1 THEN 0
                                         ELSE PullOf(z * BrakeFactor(t))
    BY <2>2, <2>3, PullOfConstant
  <2>5. ASSUME turned PROVE Pull(forces) + Pull(forces') \in -1 .. 0
    <3>1. t.speed = telemetry.speed /\ t.brake = telemetry.brake /\ t.lateral_accel = -l
      BY <2>2, <2>5 DEF DifferOnlyIn, Channels
    <3>2. z = -y
      <4>1. l \in Int /\ Least(Abs(telemetry.speed), 50) \in Int
        BY <2>2, AbsType DEF Telemetry, Least
      <4>2. z = (-l) * 32 * Least(Abs(telemetry.speed), 50)
        BY <3>1 DEF Product
      <4>3. y = l * 32 * Least(Abs(telemetry.speed), 50)
        BY DEF Product
      <4> HIDE DEF y, z, l
      <4> QED BY <4>1, <4>2, <4>3
    <3>3. BrakeFactor(t) = BrakeFactor(telemetry) /\ BrakeFactor(t) \in {6, 10}
      BY <3>1 DEF BrakeFactor
    <3>4. CASE slow
      BY <2>4, <3>1, <3>4
    <3>5. CASE ~slow
      <4> DEFINE x == y * BrakeFactor(t)
      <4>1. x \in Int /\ z * BrakeFactor(t) = -x
        BY <2>4, <3>2, <3>3
      <4>2. Pull(forces) = PullOf(x) /\ Pull(forces') = PullOf(-x)
        BY <2>4, <3>1, <3>3, <3>5, <4>1
      <4> HIDE DEF x
      <4> QED BY <4>1, <4>2, PullSymmetric
    <3> QED BY <3>4, <3>5
  <2>6. ASSUME braked PROVE weaker
    <3>1. /\ t.speed = telemetry.speed /\ t.lateral_accel = l
          /\ t.brake >= telemetry.brake
      BY <2>2, <2>6 DEF DifferOnlyIn, Channels
    <3>2. z = y
      BY <3>1 DEF Product
    <3>3. /\ l \in Int /\ Least(Abs(telemetry.speed), 50) \in Nat
          /\ t.brake \in Int /\ telemetry.brake \in Int
      BY <2>2, AbsType DEF Telemetry, Least
    <3>4. (l >= 0 => y >= 0) /\ (l <= 0 => y <= 0)
      <4> DEFINE s == Least(Abs(telemetry.speed), 50)
      <4>1. s \in Nat /\ y = l * 32 * s
        BY <3>3 DEF Product
      <4> HIDE DEF s, y, l
      <4> QED BY <3>3, <4>1
    <3>5. \/ BrakeFactor(t) = BrakeFactor(telemetry) /\ BrakeFactor(t) \in {6, 10}
          \/ BrakeFactor(t) = 6 /\ BrakeFactor(telemetry) = 10
      BY <3>1, <3>3 DEF BrakeFactor
    <3>6. /\ y >= 0 => 0 <= PullOf(6 * y) /\ PullOf(6 * y) <= PullOf(10 * y)
          /\ y <= 0 => PullOf(10 * y) <= PullOf(6 * y) /\ PullOf(6 * y) <= 0
      BY <2>4, PullWeaker
    <3>7. y * 6 = 6 * y /\ y * 10 = 10 * y /\ PullOf(6 * y) \in Int /\ PullOf(10 * y) \in Int
      BY <2>4 DEF PullOf, Least, Greatest
    <3> HIDE DEF y, z, slow, l
    <3>8. CASE slow
      BY <2>4, <3>1, <3>8 DEF slow
    <3>9. CASE ~slow
      <4>1. /\ Pull(forces) = PullOf(y * BrakeFactor(telemetry))
            /\ Pull(forces') = PullOf(y * BrakeFactor(t))
        BY <2>4, <3>1, <3>2, <3>9 DEF slow
      <4> QED BY <3>3, <3>4, <3>5, <3>6, <3>7, <4>1
    <3> QED BY <3>8, <3>9
  <2> QED BY <2>5, <2>6
<1> QED BY <1>1, SimInvariant, PTL DEF SimSpec, AlignmentPull
-----------------------------------------------------------------------------
(* A higher engine speed lights at least the LEDs of a lower one, for all    *)
(* engine speeds an engine has (fffb.cxx:83-99).                             *)
THEOREM LedsOnlyProgress ==
    (\A t \in Samples : t.rpm >= 0) => (SimSpec => LedsProgress)
<1> SUFFICES ASSUME \A t \in Samples : t.rpm >= 0 PROVE SimSpec => LedsProgress
  OBVIOUS
<1> DEFINE Turning == telemetry.rpm \in Nat
<1>1. SimInit => Turning
  BY DEF SimInit, ZeroTelemetry, Channels
<1>2. Turning /\ [SimNext]_simVars => Turning'
  <2>1. \A t \in Samples : t.rpm \in Nat
    BY SamplesAssumption DEF Telemetry
  <2> QED BY <2>1 DEF SimNext, UpdateForces, simVars
<1>3. Turning /\ Turning'
        => [telemetry.rpm <= telemetry'.rpm =>
              LedPattern(telemetry.rpm) <= LedPattern(telemetry'.rpm)]_simVars
  BY DEF LedPattern
<1> QED BY <1>1, <1>2, <1>3, PTL DEF SimSpec, LedsProgress
=============================================================================
