--------------------------- MODULE FanController ---------------------------
(* fan-controller.ino: a fan whose curve, sensor offset and stall switch the    *)
(* UI writes between two passes of the main loop.  millis() is a counter that   *)
(* wraps; the loop may run many times in a tick, and is late by some ticks at   *)
(* worst.                                                                       *)
EXTENDS Integers, Sequences

CONSTANTS
    FAN_STARTUP_TIME_MS, FAN_STALL_WAIT_TIME_MS,    \* in ticks
    ClockSize,      \* values of millis(), a uint32_t
    MaxLate,        \* bound: ticks between two passes of the loop
    Curves,         \* fan_curve: rows of degrees and percentages
    Temperatures,   \* readings of sensors[0] in tenths of a degree
    RpmNoise        \* random(-5, 5)

ASSUME FanAssumption ==
    /\ FAN_STARTUP_TIME_MS \in Nat /\ FAN_STALL_WAIT_TIME_MS \in Nat
    /\ ClockSize \in Nat /\ MaxLate \in Nat
    /\ FAN_STARTUP_TIME_MS + MaxLate < ClockSize
    /\ FAN_STALL_WAIT_TIME_MS + MaxLate < ClockSize

FAN_STALL_MAX_RPM   == 2200
FAN_STALL_FAULT_RPM == 400

VARIABLES
    fan_state,
    output_percentage, rpm, timer,      \* the other fields of computer_fan
    fan_pwm_setting,
    user_stall_test, fan_curve,
    fan_temperature,    \* sensors[0]: the base, user_thermal_bias and the noise
    fan_now,            \* millis()
    fan_late,           \* ticks since the last pass of the loop
    fan_waited          \* history: ticks since the timer was set

fan_vars == <<fan_state, output_percentage, rpm, timer, fan_pwm_setting,
              user_stall_test, fan_curve, fan_temperature, fan_now, fan_late, fan_waited>>

\* fan_waited stops counting past every limit
WaitedCap ==
    1 + (IF FAN_STARTUP_TIME_MS > FAN_STALL_WAIT_TIME_MS THEN FAN_STARTUP_TIME_MS
                                                         ELSE FAN_STALL_WAIT_TIME_MS)

FanInit ==
    /\ fan_state = "OFF" /\ output_percentage = 0 /\ rpm = 0 /\ timer = 0
    /\ fan_pwm_setting = 0
    /\ user_stall_test = FALSE /\ fan_curve \in Curves /\ fan_temperature \in Temperatures
    /\ fan_now = 0 /\ fan_late = 0 /\ fan_waited = 0

-----------------------------------------------------------------------------
(* The curve and the simulated fan *)

\* fan_speed_at_temp: the row range the reading is in, interpolated.  A reading equal to
\* the first row is in none of them.
FanSpeedAtTemp(curve, reading) ==
    LET last == Len(curve)
        rows == {i \in 1 .. last - 1 : /\ reading > 10 * curve[i].temperature
                                       /\ reading <= 10 * curve[i + 1].temperature}
    IN  CASE reading < 10 * curve[1].temperature    -> curve[1].percentage
          [] reading > 10 * curve[last].temperature -> 100
          [] OTHER ->
                IF rows = {} THEN 95
                ELSE LET i    == CHOOSE n \in rows : \A k \in rows : n <= k
                         span == 10 * (curve[i + 1].temperature - curve[i].temperature)
                     IN  (curve[i].percentage * span
                          + (reading - 10 * curve[i].temperature)
                            * (curve[i + 1].percentage - curve[i].percentage)) \div span

\* a slip in the next definition: percent are taken for the duty cycle
PwmUnscaled(percentage) == IF percentage > 100 THEN 100 ELSE percentage

\* simulate_set_fan_speed
Pwm(percentage) == ((IF percentage > 100 THEN 100 ELSE percentage) * 255) \div 100

\* simulate_read_fan_speed, a uint16_t
MeasuredRpm(noise) ==
    IF user_stall_test THEN 0
    ELSE ((fan_pwm_setting * (FAN_STALL_MAX_RPM + 20)) \div 255 + noise) % 65536

\* what the curve asks for
FanDemand == FanSpeedAtTemp(fan_curve, fan_temperature)

-----------------------------------------------------------------------------
(* fan_control, one disjunct for each state; rpm is already read *)

FanOutput(percentage) ==
    output_percentage' = percentage /\ fan_pwm_setting' = Pwm(percentage)

\* a slip in the next definition: the limit is added instead of subtracting the times
ElapsedCompared(limit) == fan_now > (timer + limit) % ClockSize

\* (millis() - timer) > limit in uint32_t arithmetic
Elapsed(limit) == (fan_now - timer) % ClockSize > limit

StartTimer == timer' = fan_now /\ fan_waited' = 0
KeepTimer  == UNCHANGED <<timer, fan_waited>>

FanOff ==
    /\ fan_state = "OFF"
    /\ FanOutput(0)
    /\ IF FanDemand > 0 THEN fan_state' = "START" /\ StartTimer
                        ELSE UNCHANGED fan_state /\ KeepTimer

FanStallDetect ==
    /\ fan_state = "STALL_DETECT"
    /\ FanOutput(0)
    /\ IF Elapsed(FAN_STALL_WAIT_TIME_MS)
       THEN fan_state' = "START" /\ StartTimer
       ELSE UNCHANGED fan_state /\ KeepTimer

FanStart ==
    /\ fan_state = "START"
    /\ FanOutput(100)
    /\ fan_state' = IF Elapsed(FAN_STARTUP_TIME_MS) THEN "ON" ELSE "START"
    /\ KeepTimer

\* a slip in the next definition: a fan asked to stop stays on
FanOnForgetsOff ==
    /\ fan_state = "ON"
    /\ FanOutput(FanDemand)
    /\ IF rpm' < FAN_STALL_FAULT_RPM
       THEN fan_state' = "STALL_DETECT" /\ StartTimer
       ELSE UNCHANGED fan_state /\ KeepTimer

\* a stopped rotor wins over a curve that asks for nothing
FanOn ==
    /\ fan_state = "ON"
    /\ FanOutput(FanDemand)
    /\ IF rpm' < FAN_STALL_FAULT_RPM
       THEN fan_state' = "STALL_DETECT" /\ StartTimer
       ELSE fan_state' = (IF FanDemand = 0 THEN "OFF" ELSE "ON") /\ KeepTimer

\* one pass of loop after the bytes were polled
FanLoop ==
    /\ \E noise \in RpmNoise : rpm' = MeasuredRpm(noise)
    /\ FanOff \/ FanStallDetect \/ FanStart \/ FanOn
    /\ fan_late' = 0
    /\ UNCHANGED <<user_stall_test, fan_curve, fan_temperature, fan_now>>

FanTick ==
    /\ fan_late < MaxLate
    /\ fan_late' = fan_late + 1
    /\ fan_now' = (fan_now + 1) % ClockSize
    /\ fan_waited' = IF fan_waited < WaitedCap THEN fan_waited + 1 ELSE fan_waited
    /\ UNCHANGED <<fan_state, output_percentage, rpm, timer, fan_pwm_setting,
                   user_stall_test, fan_curve, fan_temperature>>

\* the UI writes another value to "stall", "curve" or "heat", or the sensor reads one
FanInput ==
    /\ \/ user_stall_test' = ~user_stall_test /\ UNCHANGED <<fan_curve, fan_temperature>>
       \/ fan_curve' \in Curves \ {fan_curve} /\ UNCHANGED <<user_stall_test, fan_temperature>>
       \/ fan_temperature' \in Temperatures \ {fan_temperature} /\ UNCHANGED <<user_stall_test, fan_curve>>
    /\ UNCHANGED <<fan_state, output_percentage, rpm, timer, fan_pwm_setting,
                   fan_now, fan_late, fan_waited>>

FanNext == FanLoop \/ FanTick \/ FanInput

\* the main loop keeps running and time passes
FanFairness == WF_fan_vars(FanLoop) /\ WF_fan_vars(FanTick)

FanSpec == FanInit /\ [][FanNext]_fan_vars /\ FanFairness

-----------------------------------------------------------------------------
(* Properties *)

\* Neither the pause after a stall nor the startup blip is ever cut short, also when
\* millis() wraps during it.
FanTimersHold ==
    [][ /\ fan_state = "STALL_DETECT" /\ fan_state' # fan_state =>
              fan_waited > FAN_STALL_WAIT_TIME_MS
        /\ fan_state = "START" /\ fan_state' # fan_state =>
              fan_waited > FAN_STARTUP_TIME_MS
      ]_fan_vars

\* A fan that is not held ends up with what its curve asks for: off when that settles on
\* nothing, and running at it when it settles on at least 19 percent, the least that is
\* not taken for a stall, also when it was stalled before.
FanFollowsCurve ==
    /\ <>[](FanDemand = 0 /\ ~user_stall_test) => <>[](fan_state = "OFF" /\ fan_pwm_setting = 0)
    /\ /\ <>[](FanDemand >= 19 /\ ~user_stall_test)
       /\ <>[][FanDemand' = FanDemand]_fan_vars
       => <>[](fan_state = "ON" /\ fan_pwm_setting = Pwm(FanDemand))
=============================================================================
