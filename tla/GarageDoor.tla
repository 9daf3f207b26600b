----------------------------- MODULE GarageDoor -----------------------------
(* garage-door.ino: a door controller whose request is a tracked variable that *)
(* the UI writes between two passes of the main loop, with the simulated       *)
(* mechanism the sketch drives.                                                *)
EXTENDS Integers

CONSTANTS
    MECHANISM_POS_OPEN, MECHANISM_POS_CLOSED,   \* where the limit switches act
    MECHANISM_POS_START,                        \* initial mechanism_position_sim
    PositionSize                                \* values of its uint16_t

\* the travel is inside the integer type, with room for the mechanism to run on
ASSUME TravelAssumption ==
    /\ MECHANISM_POS_CLOSED \in Nat /\ MECHANISM_POS_OPEN \in Nat
    /\ MECHANISM_POS_START \in Nat /\ PositionSize \in Nat
    /\ 2 <= MECHANISM_POS_CLOSED
    /\ MECHANISM_POS_CLOSED <= MECHANISM_POS_START
    /\ MECHANISM_POS_START <= MECHANISM_POS_OPEN
    /\ MECHANISM_POS_OPEN + 2 < PositionSize

\* DoorState_t
DOOR_UNKNOWN == 0
DOOR_OPENING == 1
DOOR_OPEN    == 2
DOOR_CLOSING == 3
DOOR_CLOSED  == 4
DoorState == 0..4

MOTOR_STEP_SPEED == 1

VARIABLES
    control_state,
    request_state,
    motor_speed,
    limit_sw_open, limit_sw_closed,
    mechanism_position_sim

door_vars == <<control_state, request_state, motor_speed,
               limit_sw_open, limit_sw_closed, mechanism_position_sim>>

DoorInit ==
    /\ control_state = DOOR_UNKNOWN
    /\ request_state = DOOR_UNKNOWN
    /\ motor_speed = 0
    /\ limit_sw_open = FALSE /\ limit_sw_closed = FALSE
    /\ mechanism_position_sim = MECHANISM_POS_START

\* the UI writes "request", any value of the type
DoorRequest(state) ==
    /\ request_state' = state
    /\ UNCHANGED <<control_state, motor_speed,
                   limit_sw_open, limit_sw_closed, mechanism_position_sim>>

\* simulate_door_mechanism
SimulateDoorMechanism ==
    /\ mechanism_position_sim' = (mechanism_position_sim + motor_speed) % PositionSize
    /\ limit_sw_open' = (mechanism_position_sim' > MECHANISM_POS_OPEN)
    /\ limit_sw_closed' = (mechanism_position_sim' < MECHANISM_POS_CLOSED)

\* a slip in the next definition: the motor keeps its speed once the door is open
MotorRunsOn(state) ==
    CASE state = DOOR_OPENING -> MOTOR_STEP_SPEED
      [] state = DOOR_CLOSING -> -MOTOR_STEP_SPEED
      [] state = DOOR_OPEN    -> motor_speed
      [] OTHER                -> 0

\* drive_motor, with the direction each state of the controller asks for
MotorIn(state) ==
    CASE state = DOOR_OPENING -> MOTOR_STEP_SPEED
      [] state = DOOR_CLOSING -> -MOTOR_STEP_SPEED
      [] OTHER                -> 0

\* slips in the next definition: the switch at the end wins over the request; a door
\* that is asked for while it is closing counts as closed
StateAfterSwitchFirst(state, open, closed) ==
    CASE state = DOOR_UNKNOWN -> DOOR_CLOSING
      [] state \in {DOOR_CLOSING, DOOR_CLOSED} ->
            IF state = DOOR_CLOSING /\ closed THEN DOOR_CLOSED
            ELSE IF request_state = DOOR_OPEN THEN DOOR_OPENING ELSE state
      [] OTHER -> IF open THEN DOOR_OPEN ELSE state
StateAfterEager(state, open, closed) ==
    CASE state = DOOR_UNKNOWN -> DOOR_CLOSING
      [] state \in {DOOR_CLOSING, DOOR_CLOSED} ->
            IF request_state = DOOR_OPEN THEN DOOR_OPENING
            ELSE IF request_state = DOOR_CLOSED THEN DOOR_CLOSED ELSE state
      [] OTHER ->
            IF request_state = DOOR_CLOSED THEN DOOR_CLOSING
            ELSE IF state = DOOR_OPENING /\ open THEN DOOR_OPEN ELSE state

\* the transitions of door_controller: of its two ifs the later one, the request, wins
StateAfter(state, open, closed) ==
    CASE state = DOOR_UNKNOWN -> DOOR_CLOSING
      [] state \in {DOOR_CLOSING, DOOR_CLOSED} ->
            IF request_state = DOOR_OPEN THEN DOOR_OPENING
            ELSE IF state = DOOR_CLOSING /\ closed THEN DOOR_CLOSED ELSE state
      [] OTHER ->
            IF request_state = DOOR_CLOSED THEN DOOR_CLOSING
            ELSE IF state = DOOR_OPENING /\ open THEN DOOR_OPEN ELSE state

\* one pass of loop after the bytes were polled: the mechanism, then the controller
DoorLoop ==
    /\ SimulateDoorMechanism
    /\ motor_speed' = MotorIn(control_state)
    /\ control_state' = StateAfter(control_state, limit_sw_open', limit_sw_closed')
    /\ UNCHANGED request_state

DoorNext == DoorLoop \/ \E state \in DoorState : DoorRequest(state)

\* the main loop keeps running
DoorFairness == WF_door_vars(DoorLoop)

DoorSpec == DoorInit /\ [][DoorNext]_door_vars /\ DoorFairness

-----------------------------------------------------------------------------
(* Properties *)

DoorTypeOK ==
    /\ control_state \in DoorState /\ request_state \in DoorState
    /\ motor_speed \in {-1, 0, 1}
    /\ limit_sw_open \in BOOLEAN /\ limit_sw_closed \in BOOLEAN
    /\ mechanism_position_sim \in 0 .. PositionSize - 1

\* However the UI flips its request, the mechanism never runs more than two steps
\* past a limit switch: the pass that sees the switch still drives the motor, and the
\* position of an unsigned type never wraps.
DoorStaysInTravel ==
    /\ MECHANISM_POS_CLOSED - 2 <= mechanism_position_sim
    /\ mechanism_position_sim <= MECHANISM_POS_OPEN + 2

\* The state the UI is shown is true of the mechanism: a door that is reported closed
\* or open is at that end.
DoorReportIsTrue ==
    /\ control_state = DOOR_CLOSED => mechanism_position_sim < MECHANISM_POS_CLOSED
    /\ control_state = DOOR_OPEN   => mechanism_position_sim > MECHANISM_POS_OPEN

\* A request that the UI leaves alone is carried out: the door ends up there with its
\* motor stopped, whatever it was doing before.
DoorObeys ==
    /\ <>[](request_state \in {DOOR_OPEN, DOOR_CLOSED})
    /\ <>[][request_state' = request_state]_door_vars
    => <>[](control_state = request_state /\ motor_speed = 0)
=============================================================================
