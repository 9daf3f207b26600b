---------------------------- MODULE BatteryStatus ----------------------------
(* battery-status.ino: a simulated battery with a charger that the UI plugs in  *)
(* and a load that it sets with an untracked message, handled by the sketch's   *)
(* interface callback.  Voltages are in millivolts; the rounding of a float is  *)
(* left out.                                                                    *)
EXTENDS Integers, Sequences

CONSTANTS
    Loads           \* payloads of "load_adj", a uint16_t

ASSUME LoadsAssumption == Loads \subseteq Nat

SIMULATED_LOAD_mV        == 2
SIMULATED_CHARGE_RATE_mV == 8
CHARGE_START_PERCENT     == 35
CHARGE_FINISH_PERCENT    == 95

\* lead_acid_table
SocRow(voltage, percentage) == [voltage |-> voltage, percentage |-> percentage]
lead_acid_table ==
    << SocRow(12850, 100), SocRow(12650, 75), SocRow(12350, 50), SocRow(12000, 25),
       SocRow(11800, 0) >>

VARIABLES
    system_v_draw_mV,
    battery_voltage,
    battery_percentage,
    battery_charge_status,  \* CHARGING
    power_available

battery_vars == <<system_v_draw_mV, battery_voltage, battery_percentage,
                  battery_charge_status, power_available>>

BatteryInit ==
    /\ system_v_draw_mV = SIMULATED_LOAD_mV
    /\ battery_voltage = 12400
    /\ battery_percentage = 0
    /\ battery_charge_status = FALSE
    /\ power_available = FALSE

\* the rows a voltage lies between: from the row below on, short of the row above
RowsAt(voltage) ==
    {i \in 1..4 : /\ voltage < lead_acid_table[i].voltage
                  /\ voltage >= lead_acid_table[i + 1].voltage}

\* the percentage interpolated between a row and the one below it
Between(i, voltage) ==
    LET low  == lead_acid_table[i + 1]
        high == lead_acid_table[i]
        span == high.voltage - low.voltage
    IN  (low.percentage * span
         + (voltage - low.voltage) * (high.percentage - low.percentage)) \div span

\* a slip in the next definition: the row below, without what is above it
SocOfRow(voltage) ==
    IF voltage > lead_acid_table[1].voltage THEN 100
    ELSE IF RowsAt(voltage) = {} THEN 0
    ELSE lead_acid_table[1 + CHOOSE i \in RowsAt(voltage) : TRUE].percentage

\* calculate_battery_soc, stored in a uint8_t: 0 also for a voltage that equals the first row
CalculateBatterySoc(voltage) ==
    IF voltage > lead_acid_table[1].voltage THEN 100
    ELSE IF RowsAt(voltage) = {} THEN 0
    ELSE Between(CHOOSE i \in RowsAt(voltage) : TRUE, voltage)

\* what simulate_device_load leaves: more is drawn above the low power mode
Drained ==
    IF battery_voltage > 11500
    THEN {battery_voltage - (system_v_draw_mV + more) : more \in 1..5}
    ELSE {IF battery_voltage > 10000 THEN battery_voltage - system_v_draw_mV ELSE battery_voltage}

\* a slip in the next definition: one threshold turns the charger on and off
ChargingBelowStart == power_available /\ battery_percentage < CHARGE_START_PERCENT

\* simulate_battery_charger: between the thresholds it goes on with what it did
Charging ==
    /\ power_available
    /\ \/ battery_percentage < CHARGE_START_PERCENT
       \/ battery_percentage <= CHARGE_FINISH_PERCENT /\ battery_charge_status

\* one pass of loop in which SIMULATION_RATE_MS has passed
SimulationPass ==
    /\ battery_charge_status' = Charging
    /\ \E voltage \in Drained :
          battery_voltage' = voltage + (IF Charging THEN SIMULATED_CHARGE_RATE_mV ELSE 0)
    /\ battery_percentage' = CalculateBatterySoc(battery_voltage')
    /\ UNCHANGED <<system_v_draw_mV, power_available>>

\* one in which it has not
IdlePass ==
    /\ battery_percentage' = CalculateBatterySoc(battery_voltage)
    /\ UNCHANGED <<system_v_draw_mV, battery_voltage, battery_charge_status, power_available>>

\* the UI writes "plugged_in"
PlugIn ==
    /\ power_available' = ~power_available
    /\ UNCHANGED <<system_v_draw_mV, battery_voltage, battery_percentage, battery_charge_status>>

\* eui_callback( EUI_CB_UNTRACKED ) on a "load_adj" of two bytes
LoadAdj(load) ==
    /\ system_v_draw_mV' = load
    /\ UNCHANGED <<battery_voltage, battery_percentage, battery_charge_status, power_available>>

BatteryNext == SimulationPass \/ IdlePass \/ PlugIn \/ \E load \in Loads \ {system_v_draw_mV} : LoadAdj(load)

\* the main loop keeps running and time passes, so that the simulation is due again
BatteryFairness == WF_battery_vars(SimulationPass)

BatterySpec == BatteryInit /\ [][BatteryNext]_battery_vars /\ BatteryFairness

-----------------------------------------------------------------------------
(* Properties *)

\* Whatever load the UI sets and however it pulls the plug, the charger never takes the
\* battery to the first row of the table, where calculate_battery_soc would tell it
\* that the battery is empty.
NeverOvercharged == battery_voltage < lead_acid_table[1].voltage

\* A battery that stays plugged in with the load of the sketch is never flat again, and
\* is charged up again and again: the charger runs from one threshold to the other.
ChargesInCycles ==
    <>[](power_available /\ system_v_draw_mV = SIMULATED_LOAD_mV)
    => /\ []<>(battery_percentage > CHARGE_FINISH_PERCENT)
       /\ <>[](battery_percentage >= CHARGE_START_PERCENT - 1)
=============================================================================
