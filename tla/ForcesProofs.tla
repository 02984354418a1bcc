---------------------------- MODULE ForcesProofs ----------------------------
(***************************************************************************)
(* Proofs about module Forces: whatever the telemetry, the forces computed *)
(* from it fit the bits the reports have for them.                         *)
(***************************************************************************)
EXTENDS Forces, TLAPS

-----------------------------------------------------------------------------
LEMMA AbsType == \A x \in Int : Abs(x) \in Nat
BY DEF Abs

LEMMA ConstantAmplitudeType == \A t \in Telemetry : ConstantAmplitude(t) \in Byte
<1> SUFFICES ASSUME NEW t \in Telemetry PROVE ConstantAmplitude(t) \in Byte
  OBVIOUS
<1> DEFINE brake_factor == IF t.brake > 7 THEN 6 ELSE 10
           speed_factor == Least(Abs(t.speed), 50)
           amplitude    == 640000 + t.lateral_accel * 32 * speed_factor * brake_factor
<1>1. t.lateral_accel \in Int /\ brake_factor \in Int /\ t.speed \in Int
  BY DEF Telemetry
<1>2. speed_factor \in Int
  BY <1>1, AbsType DEF Least
<1> HIDE DEF brake_factor, speed_factor
<1>3. amplitude \in Int
  BY <1>1, <1>2
<1> HIDE DEF amplitude
<1>4. PICK y \in Int : /\ y = Least(Greatest(amplitude, 40000), 1240000)
                       /\ 40000 <= y /\ y <= 1240000
  BY <1>3 DEF Least, Greatest
<1>5. ConstantAmplitude(t) = y \div 5000
  BY <1>4 DEF ConstantAmplitude, amplitude, speed_factor, brake_factor
<1>6. y \div 5000 \in Int /\ 0 <= y \div 5000 /\ y \div 5000 <= 255
  BY <1>4
<1> QED BY <1>5, <1>6 DEF Byte

LEMMA SpringSlopeType == \A s \in Nat : SpringSlope(s) \in Slope
BY DEF SpringSlope, Slope, Least

LEMMA SpringAmplitudeType == \A s \in Nat : SpringAmplitude(s) \in Byte
BY DEF SpringAmplitude, Byte, Least

LEMMA DamperSlopeType == \A t \in Telemetry : DamperSlope(t) \in Slope
<1> SUFFICES ASSUME NEW t \in Telemetry PROVE DamperSlope(t) \in Slope
  OBVIOUS
<1>1. Abs(t.speed) \in Nat
  BY AbsType DEF Telemetry
<1> QED BY <1>1 DEF DamperSlope, Slope, Least, Greatest

LEMMA LedPatternType == \A rpm \in Int : LedPattern(rpm) \in LedPatterns
BY DEF LedPattern, LedPatterns

LEMMA DeflectionDeltaType ==
    \A t \in Telemetry, prev \in Deflection : DeflectionDelta(t, prev) \in Nat
BY AbsType DEF DeflectionDelta, Greatest, Telemetry, Deflection

(* Whatever the telemetry and the stored deflections, each parameter has the *)
(* width the report gives it.                                                *)
LEMMA UpdateTrapezoidType ==
    ASSUME NEW t \in Telemetry, NEW prev \in Deflection
    PROVE  UpdateTrapezoid(t, prev) \in [enabled : BOOLEAN, params : TrapezoidParams]
<1> DEFINE bump_extra  == IF DeflectionDelta(t, prev) > 5 THEN 4 ELSE 0
           speed_scale == Least(Abs(t.speed), 300)
           slope       == Least(15, (600 + 6 * speed_scale) \div 300)
           t_val       == Greatest(8, (14400 - 32 * speed_scale) \div 300)
<1>1. bump_extra \in {0, 4}
  OBVIOUS
<1>2. speed_scale \in Int /\ 0 <= speed_scale /\ speed_scale <= 300
  BY AbsType DEF Least, Telemetry
<1> HIDE DEF bump_extra, speed_scale
<1>3. slope \in Nibble
  BY <1>2 DEF Least, Nibble
<1>4. t_val \in Byte
  BY <1>2 DEF Greatest, Byte
<1>5. Greatest(96, 116 - bump_extra) \in Byte /\ Least(160, 140 + bump_extra) \in Byte
  BY <1>1 DEF Greatest, Least, Byte
<1> HIDE DEF slope, t_val
<1>6. TrapezoidParamsOf(t, prev) =
        [amplitude_max |-> Greatest(96, 116 - bump_extra),
         amplitude_min |-> Least(160, 140 + bump_extra),
         t_at_max |-> t_val, t_at_min |-> t_val, slope_step_x |-> slope, slope_step_y |-> slope]
  BY DEF TrapezoidParamsOf, bump_extra, speed_scale, slope, t_val
<1>7. TrapezoidParamsOf(t, prev) \in TrapezoidParams
  BY <1>3, <1>4, <1>5, <1>6 DEF TrapezoidParams
<1>8. default_trap_f \in [enabled : BOOLEAN, params : TrapezoidParams]
  BY DEF default_trap_f, TrapezoidParams, Byte, Nibble
<1> QED BY <1>7, <1>8 DEF UpdateTrapezoid

LEMMA UpdatedForcesType ==
    ASSUME NEW t \in Telemetry, NEW prev \in Deflection
    PROVE  UpdatedForces(t, prev) \in ForceSettings
<1>1. Abs(t.speed) \in Nat
  BY AbsType DEF Telemetry
<1>2. UpdateConstant(t) \in [enabled : BOOLEAN, params : ConstantParams]
  <2>1. default_const_f \in [enabled : BOOLEAN, params : ConstantParams]
    BY DEF default_const_f, ConstantParams, Byte
  <2> QED BY <2>1, ConstantAmplitudeType DEF UpdateConstant, ConstantParams
<1>3. UpdateSpring(t) \in [enabled : BOOLEAN, params : SpringParams]
  <2>1. default_spring_f \in [enabled : BOOLEAN, params : SpringParams]
    BY DEF default_spring_f, SpringParams, Byte, Slope, Bit
  <2>2. 126 \in Byte /\ 130 \in Byte
    BY DEF Byte
  <2>3. SpringSlope(Abs(t.speed)) \in Slope /\ SpringAmplitude(Abs(t.speed)) \in Byte
    BY <1>1, SpringSlopeType, SpringAmplitudeType
  <2> DEFINE slope  == SpringSlope(Abs(t.speed))
             amp    == SpringAmplitude(Abs(t.speed))
             base   == default_spring_f.params
             raised == [base EXCEPT !.dead_start = 126, !.dead_end = 130,
                                    !.slope_left = slope, !.slope_right = slope,
                                    !.amplitude = amp]
  <2>4. slope \in Slope /\ amp \in Byte /\ base \in SpringParams
    BY <2>1, <2>3
  <2>5. UpdateSpring(t) = IF Abs(t.speed) < 1 THEN default_spring_f
                          ELSE [enabled |-> TRUE, params |-> raised]
    BY Zenon DEF UpdateSpring
  <2> HIDE DEF slope, amp, base
  <2>6. raised \in SpringParams
    BY <2>2, <2>4 DEF SpringParams
  <2> HIDE DEF raised
  <2> QED BY <2>1, <2>5, <2>6
<1>4. UpdateDamper(t) \in [enabled : BOOLEAN, params : DamperParams]
  <2>1. default_damper_f.params \in DamperParams
    BY DEF default_damper_f, DamperParams, Slope, Bit
  <2> QED BY <2>1, DamperSlopeType DEF UpdateDamper, DamperParams
<1> QED BY <1>2, <1>3, <1>4, UpdateTrapezoidType DEF UpdatedForces, ForceSettings

LEMMA DefaultForcesType == DefaultForces \in ForceSettings
BY DEF DefaultForces, ForceSettings, default_const_f, default_spring_f, default_damper_f,
       default_trap_f, ConstantParams, SpringParams, DamperParams, TrapezoidParams,
       Byte, Slope, Bit, Nibble

LEMMA ZeroTelemetryType == ZeroTelemetry \in Telemetry
BY DEF ZeroTelemetry, Telemetry, Channels
=============================================================================
