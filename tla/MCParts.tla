------------------------------ MODULE MCParts ------------------------------
(* What runs by itself, one part at a time: a board with one of the example    *)
(* sketches, or one of the loops that the library's other models take in one   *)
(* step.  Times are in coarse ticks, so that the limits of a sketch and the     *)
(* wrap of millis() are a few ticks apart.                                      *)
EXTENDS GarageDoor, PersistentSettings, FanController, HeartbeatMonitor, BatteryStatus,
        MCSendRange, MCFindObject, MCCobsFraming

VARIABLE running        \* the part that runs

sketch_vars == <<door_vars, settings_vars, fan_vars, beat_vars, battery_vars>>
loop_vars   == <<vars, search_vars, framing_vars>>

\* persistence-eeprom.ino in small: two variables with a function and a read-only
\* variable between them
Variable(read_only, initial) == [read_only |-> read_only, initial |-> initial]

SmallTracked ==
    << Variable(FALSE, <<1>>), Variable(TRUE, <<9>>), Variable(TRUE, << >>),
       Variable(FALSE, <<2, 0>>) >>

SmallValues == {<<0>>, <<1>>, <<2, 0>>, <<66, 7>>}

\* the curve of the sketch, one that turns the fan off, one below what a stall reads
Row(temperature, percentage) == [temperature |-> temperature, percentage |-> percentage]

SketchCurve == << Row(0, 20), Row(20, 20), Row(35, 45), Row(45, 90), Row(60, 100) >>
FlatCurve(percentage) == << Row(0, percentage), Row(60, percentage) >>

FanCurves == {SketchCurve, FlatCurve(0), FlatCurve(10)}
Noise == {-5, 4}

\* the parts that do not run are in one of their initial states
PartsInit ==
    /\ running \in {"garage-door", "persistence-eeprom", "fan-controller",
                   "status-error-callbacks", "battery-status",
                   "eui_send_range", "find_message_object", "encode_framing"}
    /\ DoorInit /\ SettingsInit /\ BatteryInit
    /\ FanInit /\ (running # "fan-controller" => fan_curve = FlatCurve(0) /\ fan_temperature = 305)
    /\ BeatInit /\ (running # "status-error-callbacks" => min_adds = 1)
    /\ running = "eui_send_range" \/ request = CHOOSE r \in Requests : TRUE
    /\ Init
    /\ running = "find_message_object" \/ named = {}
    /\ SearchInit
    /\ running = "encode_framing" \/ body = <<7>>
    /\ FramingInit

Runs(part) == running = part /\ UNCHANGED running

SketchNext ==
    \/ /\ Runs("garage-door") /\ DoorNext
       /\ UNCHANGED <<settings_vars, fan_vars, beat_vars, battery_vars>>
    \/ /\ Runs("persistence-eeprom") /\ SettingsNext
       /\ UNCHANGED <<door_vars, fan_vars, beat_vars, battery_vars>>
    \/ /\ Runs("fan-controller") /\ FanNext
       /\ UNCHANGED <<door_vars, settings_vars, beat_vars, battery_vars>>
    \/ /\ Runs("status-error-callbacks") /\ BeatNext
       /\ UNCHANGED <<door_vars, settings_vars, fan_vars, battery_vars>>
    \/ /\ Runs("battery-status") /\ BatteryNext
       /\ UNCHANGED <<door_vars, settings_vars, fan_vars, beat_vars>>

\* a loop that came to its end goes back to its caller
Ended ==
    \/ running = "eui_send_range" /\ Returned
    \/ running = "find_message_object" /\ returned
    \/ running = "encode_framing" /\ pc = "done"

LoopNext ==
    \/ Runs("eui_send_range") /\ Next /\ UNCHANGED <<search_vars, framing_vars>>
    \/ Runs("find_message_object") /\ SearchNext /\ UNCHANGED <<vars, framing_vars>>
    \/ Runs("encode_framing") /\ FramingNext /\ UNCHANGED <<vars, search_vars>>
    \/ Ended /\ UNCHANGED <<running, loop_vars>>

PartsNext ==
    \/ SketchNext /\ UNCHANGED loop_vars
    \/ LoopNext /\ UNCHANGED sketch_vars

\* the fairness of each part, where it runs
PartsFairness ==
    /\ WF_door_vars(running = "garage-door" /\ DoorLoop)
    /\ WF_fan_vars(running = "fan-controller" /\ FanLoop)
    /\ WF_fan_vars(running = "fan-controller" /\ FanTick)
    /\ WF_beat_vars(running = "status-error-callbacks" /\ EuiCallback)
    /\ WF_beat_vars(running = "status-error-callbacks" /\ IsConnectionOk)
    /\ WF_beat_vars(running = "status-error-callbacks" /\ BeatTick)
    /\ WF_battery_vars(running = "battery-status" /\ SimulationPass)
    /\ WF_vars(running = "eui_send_range" /\ Next)
    /\ WF_search_vars(running = "find_message_object" /\ SearchNext)
    /\ WF_framing_vars(running = "encode_framing" /\ FramingNext)

PartsSpec == PartsInit /\ [][PartsNext]_<<running, sketch_vars, loop_vars>> /\ PartsFairness
=============================================================================
