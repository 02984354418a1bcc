------------------------------- MODULE Forces -------------------------------
(***************************************************************************)
(* The force settings of a wheel object and how fffb::simulator computes   *)
(* them from telemetry (include/fffb/force/simulator.hxx, update_leds of   *)
(* fffb.cxx).  No state: modules Simulator and Plugin keep it.             *)
(*                                                                         *)
(* Units.  speed, lateral acceleration and brake are integers in tenths    *)
(* (m/s, m/s^2 and of the pedal's travel), suspension deflection is in     *)
(* millimetres.  The code's double arithmetic is exact rational arithmetic *)
(* here, and its casts to uint8_t and int of a non-negative value are \div *)
(***************************************************************************)
EXTENDS Protocol

Telemetry == [speed : Int, rpm : Int, lateral_accel : Int, brake : Int,
              substance_l : Int, substance_r : Int,
              suspension_deflection_l : Int, suspension_deflection_r : Int]

Channels == {"speed", "rpm", "lateral_accel", "brake", "substance_l", "substance_r",
             "suspension_deflection_l", "suspension_deflection_r"}

(* What the simulator remembers of the front suspensions. *)
Deflection == [l : Int, r : Int]

(* What scs_telemetry_init's memset leaves. *)
ZeroTelemetry == [c \in Channels |-> 0]

-----------------------------------------------------------------------------
(* The four *_force_params members of a wheel. *)
ForceSettings ==
    [constant  : [enabled : BOOLEAN, params : ConstantParams],
     spring    : [enabled : BOOLEAN, params : SpringParams],
     damper    : [enabled : BOOLEAN, params : DamperParams],
     trapezoid : [enabled : BOOLEAN, params : TrapezoidParams]]

default_const_f == [enabled |-> FALSE, params |-> [amplitude |-> 128]]

default_spring_f ==
    [enabled |-> FALSE,
     params  |-> [dead_start |-> 127, dead_end |-> 128, slope_left |-> 3, slope_right |-> 3,
                  invert_left |-> 0, invert_right |-> 0, amplitude |-> 0]]

default_damper_f ==
    [enabled |-> FALSE,
     params  |-> [slope_left |-> 0, slope_right |-> 0, invert_left |-> 0, invert_right |-> 0]]

default_trap_f ==
    [enabled |-> FALSE,
     params  |-> [amplitude_max |-> 127, amplitude_min |-> 128, t_at_max |-> 0, t_at_min |-> 0,
                  slope_step_x |-> 0, slope_step_y |-> 0]]

DefaultForces == [constant  |-> default_const_f,  spring    |-> default_spring_f,
                  damper    |-> default_damper_f, trapezoid |-> default_trap_f]

-----------------------------------------------------------------------------
Least(a, b)    == IF a < b THEN a ELSE b
Greatest(a, b) == IF a > b THEN a ELSE b
Abs(a)         == IF a < 0 THEN -a ELSE a

(* Wrong variants, one bug each, for the checks that the properties of the   *)
(* simulator can fail: braking strengthens the torque, the slope is not      *)
(* capped, the city segment of the amplitude starts too low, braking eases   *)
(* the damper, two LED thresholds are swapped.                               *)
ConstantAmplitudeBraking(t) ==
    LET brake_factor == IF t.brake > 7 THEN 10 ELSE 6
        amplitude == 640000 + t.lateral_accel * 32 * Least(Abs(t.speed), 50) * brake_factor
    IN  Least(Greatest(amplitude, 40000), 1240000) \div 5000

SpringSlopeUncapped(speed) ==
    IF speed <= 30       THEN 2
    ELSE IF speed <= 150 THEN 2 + (speed - 30) \div 40
    ELSE (750 + 2 * (speed - 150)) \div 150

SpringAmplitudeGap(speed) ==
    IF speed <= 50       THEN (640 + 12 * speed) \div 10
    ELSE IF speed <= 200 THEN (1140 + 5 * (speed - 50)) \div 10
    ELSE Least(240, (1990 + 2 * (speed - 200)) \div 10)

DamperSlopeEased(t) ==
    LET brake_bonus == IF t.brake > 3 THEN 0 ELSE 1
    IN  Least(7, Least(6, Greatest(2, Abs(t.speed) \div 20)) + brake_bonus)

LedPatternSwapped(rpm) ==
    IF rpm = 0           THEN 0
    ELSE IF rpm < 1300 THEN 3
    ELSE IF rpm < 1600 THEN 1
    ELSE IF rpm < 1800 THEN 15
    ELSE 31

(* 128 + lateral * 32 * min(1, speed / 5) * (0.6 on heavy braking), clamped.  *)
(* The numerator is in 1 / 5000.                                             *)
ConstantAmplitude(t) ==
    LET brake_factor == IF t.brake > 7 THEN 6 ELSE 10
        speed_factor == Least(Abs(t.speed), 50)
        amplitude    == 640000 + t.lateral_accel * 32 * speed_factor * brake_factor
    IN  Least(Greatest(amplitude, 40000), 1240000) \div 5000

UpdateConstant(t) ==
    IF Abs(t.speed) < 1 THEN default_const_f
    ELSE [enabled |-> TRUE, params |-> [amplitude |-> ConstantAmplitude(t)]]

SpringSlope(speed) ==
    IF speed <= 30       THEN 2
    ELSE IF speed <= 150 THEN 2 + (speed - 30) \div 40
    ELSE Least(7, (750 + 2 * (speed - 150)) \div 150)

SpringAmplitude(speed) ==
    IF speed <= 50       THEN (640 + 12 * speed) \div 10
    ELSE IF speed <= 200 THEN (1240 + 5 * (speed - 50)) \div 10
    ELSE Least(240, (1990 + 2 * (speed - 200)) \div 10)

UpdateSpring(t) ==
    LET slope == SpringSlope(Abs(t.speed)) IN
    IF Abs(t.speed) < 1 THEN default_spring_f
    ELSE [enabled |-> TRUE,
          params  |-> [default_spring_f.params EXCEPT
                         !.dead_start = 126, !.dead_end = 130,
                         !.slope_left = slope, !.slope_right = slope,
                         !.amplitude = SpringAmplitude(Abs(t.speed))]]

DamperSlope(t) ==
    LET base_slope  == Least(6, Greatest(2, Abs(t.speed) \div 20))
        brake_bonus == IF t.brake > 3 THEN 1 ELSE 0
    IN  Least(7, base_slope + brake_bonus)

UpdateDamper(t) ==
    [enabled |-> TRUE,
     params  |-> [default_damper_f.params EXCEPT !.slope_left  = DamperSlope(t),
                                                 !.slope_right = DamperSlope(t)]]

Offroad(t) == t.substance_l # 0 \/ t.substance_r # 0

(* The larger change of the two front suspensions since the last update. *)
DeflectionDelta(t, prev) ==
    Greatest(Abs(t.suspension_deflection_l - prev.l), Abs(t.suspension_deflection_r - prev.r))

TrapezoidParamsOf(t, prev) ==
    LET bump_extra  == IF DeflectionDelta(t, prev) > 5 THEN 4 ELSE 0
        speed_scale == Least(Abs(t.speed), 300)              \* in 1 / 300
        slope       == Least(15, (600 + 6 * speed_scale) \div 300)
        t_val       == Greatest(8, (14400 - 32 * speed_scale) \div 300)
    IN  [amplitude_max |-> Greatest(96, 116 - bump_extra),
         amplitude_min |-> Least(160, 140 + bump_extra),
         t_at_max      |-> t_val, t_at_min     |-> t_val,
         slope_step_x  |-> slope, slope_step_y |-> slope]

UpdateTrapezoid(t, prev) ==
    IF ~Offroad(t) \/ Abs(t.speed) < 5 THEN default_trap_f
    ELSE [enabled |-> TRUE, params |-> TrapezoidParamsOf(t, prev)]

(* simulator::update_forces up to its call of refresh_forces. *)
UpdatedForces(t, prev) ==
    [constant |-> UpdateConstant(t), spring    |-> UpdateSpring(t),
     damper   |-> UpdateDamper(t),   trapezoid |-> UpdateTrapezoid(t, prev)]

(* prev_deflection_{l,r}_: both paths of _update_trapezoid store them. *)
UpdatedDeflection(t) == [l |-> t.suspension_deflection_l, r |-> t.suspension_deflection_r]

-----------------------------------------------------------------------------
(* update_leds: how many of the five LEDs an engine speed lights. *)
LedPattern(rpm) ==
    IF rpm = 0           THEN 0
    ELSE IF rpm < 1000 THEN 1
    ELSE IF rpm < 1300 THEN 3
    ELSE IF rpm < 1600 THEN 7
    ELSE IF rpm < 1800 THEN 15
    ELSE 31
=============================================================================
