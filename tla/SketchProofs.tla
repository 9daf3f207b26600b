---------------------------- MODULE SketchProofs ----------------------------
(* The example sketches, each for every value of its constants: the mechanism   *)
(* of garage-door.ino, the timers of fan-controller.ino and of                  *)
(* status-error-callbacks.ino over a clock that wraps, the charger of            *)
(* battery-status.ino, and what persistence-eeprom.ino promises of its settings. *)
(* Of TransportProofs it uses the lemmas on sequences.                           *)
EXTENDS GarageDoor, PersistentSettings, FanController, HeartbeatMonitor, BatteryStatus, TransportProofs

-----------------------------------------------------------------------------
(* Two readings of a clock that wraps *)

LEMMA ClockSmall ==
    ASSUME NEW size \in Nat \ {0}, NEW n \in Int, 0 <= n, n < size PROVE n % size = n
    BY SMT

LEMMA ClockOver == ASSUME NEW size \in Nat \ {0} PROVE size % size = 0
    BY SMT

LEMMA ClockUnder ==
    ASSUME NEW size \in Nat \ {0}, NEW n \in Int, -size <= n, n < 0 PROVE n % size = n + size
    BY SMT

-----------------------------------------------------------------------------
(* garage-door.ino *)

\* Which way the motor turns in each state, where it is late by one pass, and how far
\* past a limit switch the mechanism can be: a motor that still closes is at most one
\* step below the switch, and not yet below it while the controller wants it to close.
DoorInv ==
    /\ control_state \in DoorState
    /\ motor_speed \in {-1, 0, 1}
    /\ mechanism_position_sim \in Int
    /\ DoorReportIsTrue
    /\ control_state = DOOR_UNKNOWN =>
           motor_speed = 0 /\ mechanism_position_sim = MECHANISM_POS_START
    /\ control_state = DOOR_CLOSED => motor_speed # 1
    /\ control_state = DOOR_OPEN => motor_speed # -1
    /\ DoorStaysInTravel
    /\ motor_speed = -1 => mechanism_position_sim >= MECHANISM_POS_CLOSED - 1
    /\ motor_speed = -1 /\ control_state = DOOR_CLOSING =>
           mechanism_position_sim >= MECHANISM_POS_CLOSED
    /\ motor_speed = 0 /\ control_state = DOOR_CLOSING =>
           mechanism_position_sim >= MECHANISM_POS_CLOSED - 1
    /\ motor_speed = 1 => mechanism_position_sim <= MECHANISM_POS_OPEN + 1
    /\ motor_speed = 1 /\ control_state = DOOR_OPENING =>
           mechanism_position_sim <= MECHANISM_POS_OPEN
    /\ motor_speed = 0 /\ control_state = DOOR_OPENING =>
           mechanism_position_sim <= MECHANISM_POS_OPEN + 1

-----------------------------------------------------------------------------

\* The position does not wrap below its width.
LEMMA DoorNoWrap ==
    ASSUME NEW n \in Int, 0 <= n, n < PositionSize PROVE n % PositionSize = n
    BY TravelAssumption, SMT

LEMMA DoorInitHolds == DoorInit => DoorInv
    BY TravelAssumption, SMT
    DEF DoorInit, DoorInv, DoorReportIsTrue, DoorStaysInTravel, DoorState,
        DOOR_UNKNOWN, DOOR_OPENING, DOOR_OPEN, DOOR_CLOSING, DOOR_CLOSED

\* one pass of the loop: the mechanism moves by the speed of the pass before
LEMMA DoorMoves ==
    ASSUME DoorInv, DoorLoop
    PROVE  /\ mechanism_position_sim' = mechanism_position_sim + motor_speed
           /\ limit_sw_open' = (mechanism_position_sim' > MECHANISM_POS_OPEN)
           /\ limit_sw_closed' = (mechanism_position_sim' < MECHANISM_POS_CLOSED)
<1>1. 0 <= mechanism_position_sim + motor_speed
      /\ mechanism_position_sim + motor_speed < PositionSize
      BY TravelAssumption, SMT DEF DoorInv, DoorStaysInTravel
<1>2. mechanism_position_sim + motor_speed \in Int
      BY SMT DEF DoorInv
<1>3. (mechanism_position_sim + motor_speed) % PositionSize
          = mechanism_position_sim + motor_speed
      BY <1>1, <1>2, DoorNoWrap
<1> QED BY <1>3 DEF DoorLoop, SimulateDoorMechanism

LEMMA DoorLoopKeeps == ASSUME DoorInv, DoorLoop PROVE DoorInv'
<1> USE DEF DoorState, DOOR_UNKNOWN, DOOR_OPENING, DOOR_OPEN, DOOR_CLOSING, DOOR_CLOSED,
            MOTOR_STEP_SPEED
<1>1. /\ mechanism_position_sim' = mechanism_position_sim + motor_speed
      /\ limit_sw_open' = (mechanism_position_sim' > MECHANISM_POS_OPEN)
      /\ limit_sw_closed' = (mechanism_position_sim' < MECHANISM_POS_CLOSED)
      BY DoorMoves
<1>2. motor_speed' = MotorIn(control_state)
      BY DEF DoorLoop
<1>3. control_state' = StateAfter(control_state, mechanism_position_sim' > MECHANISM_POS_OPEN,
                                  mechanism_position_sim' < MECHANISM_POS_CLOSED)
      BY <1>1, Zenon DEF DoorLoop
<1>4. CASE control_state = DOOR_UNKNOWN
      <2>1. motor_speed' = 0 /\ control_state' = DOOR_CLOSING
            BY <1>2, <1>3, <1>4, SMT DEF MotorIn, StateAfter
      <2> QED BY <1>1, <1>4, <2>1, TravelAssumption, SMT
              DEF DoorInv, DoorReportIsTrue, DoorStaysInTravel
<1>5. CASE control_state = DOOR_CLOSING
      <2>1. /\ motor_speed' = -1
            /\ control_state' =
                  IF request_state = DOOR_OPEN THEN DOOR_OPENING
                  ELSE IF mechanism_position_sim' < MECHANISM_POS_CLOSED THEN DOOR_CLOSED
                  ELSE DOOR_CLOSING
            BY <1>2, <1>3, <1>5, SMT DEF MotorIn, StateAfter
      <2> QED BY <1>1, <1>5, <2>1, TravelAssumption, SMT
              DEF DoorInv, DoorReportIsTrue, DoorStaysInTravel
<1>6. CASE control_state = DOOR_CLOSED
      <2>1. /\ motor_speed' = 0
            /\ control_state' = IF request_state = DOOR_OPEN THEN DOOR_OPENING ELSE DOOR_CLOSED
            BY <1>2, <1>3, <1>6, SMT DEF MotorIn, StateAfter
      <2> QED BY <1>1, <1>6, <2>1, TravelAssumption, SMT
              DEF DoorInv, DoorReportIsTrue, DoorStaysInTravel
<1>7. CASE control_state = DOOR_OPENING
      <2>1. /\ motor_speed' = 1
            /\ control_state' =
                  IF request_state = DOOR_CLOSED THEN DOOR_CLOSING
                  ELSE IF mechanism_position_sim' > MECHANISM_POS_OPEN THEN DOOR_OPEN
                  ELSE DOOR_OPENING
            BY <1>2, <1>3, <1>7, SMT DEF MotorIn, StateAfter
      <2> QED BY <1>1, <1>7, <2>1, TravelAssumption, SMT
              DEF DoorInv, DoorReportIsTrue, DoorStaysInTravel
<1>8. CASE control_state = DOOR_OPEN
      <2>1. /\ motor_speed' = 0
            /\ control_state' = IF request_state = DOOR_CLOSED THEN DOOR_CLOSING ELSE DOOR_OPEN
            BY <1>2, <1>3, <1>8, SMT DEF MotorIn, StateAfter
      <2> QED BY <1>1, <1>8, <2>1, TravelAssumption, SMT
              DEF DoorInv, DoorReportIsTrue, DoorStaysInTravel
<1>9. control_state \in {DOOR_UNKNOWN, DOOR_OPENING, DOOR_OPEN, DOOR_CLOSING, DOOR_CLOSED}
      BY SMT DEF DoorInv
<1> QED BY <1>4, <1>5, <1>6, <1>7, <1>8, <1>9

LEMMA DoorStepKeeps == DoorInv /\ [DoorNext]_door_vars => DoorInv'
<1> SUFFICES ASSUME DoorInv, [DoorNext]_door_vars PROVE DoorInv'
      OBVIOUS
<1>1. CASE DoorLoop
      BY <1>1, DoorLoopKeeps
<1>2. CASE \E state \in DoorState : DoorRequest(state)
      BY <1>2 DEF DoorRequest, DoorInv, DoorReportIsTrue, DoorStaysInTravel
<1>3. CASE UNCHANGED door_vars
      BY <1>3 DEF door_vars, DoorInv, DoorReportIsTrue, DoorStaysInTravel
<1> QED BY <1>1, <1>2, <1>3 DEF DoorNext

LEMMA DoorInvariant == DoorSpec => []DoorInv
<1> QED BY DoorInitHolds, DoorStepKeeps, PTL DEF DoorSpec

-----------------------------------------------------------------------------

\* However the UI flips its request, the mechanism stays within two steps of its limit
\* switches, and the unsigned position does not wrap: simulate_door_mechanism and
\* door_controller.
THEOREM StaysInTravel == DoorSpec => []DoorStaysInTravel
<1>1. DoorInv => DoorStaysInTravel
      BY DEF DoorInv
<1> QED BY <1>1, DoorInvariant, PTL

\* A door that is reported open or closed is at that end: door_controller.
THEOREM ReportIsTrue == DoorSpec => []DoorReportIsTrue
<1>1. DoorInv => DoorReportIsTrue
      BY DEF DoorInv
<1> QED BY <1>1, DoorInvariant, PTL

-----------------------------------------------------------------------------
(* How long a request takes *)

DoorAtRest == control_state = request_state /\ motor_speed = 0

\* steps between the switches
Travel == MECHANISM_POS_OPEN - MECHANISM_POS_CLOSED

\* where the mechanism is after the next pass
Ahead == mechanism_position_sim + motor_speed

\* The passes that a request for an open or a closed door may still need: to turn around,
\* for the way from where the motor already takes the mechanism, and to stop.
DoorLeft ==
    CASE control_state = request_state -> (IF motor_speed = 0 THEN 0 ELSE 1)
      [] control_state = DOOR_OPENING /\ request_state = DOOR_OPEN ->
            MECHANISM_POS_OPEN + 5 - Ahead
      [] control_state = DOOR_CLOSING /\ request_state = DOOR_CLOSED ->
            Ahead + 5 - MECHANISM_POS_CLOSED
      [] control_state = DOOR_UNKNOWN -> Travel + 11
      [] OTHER -> Travel + 10

\* the UI wants the door at one of its ends
Requested == request_state \in {DOOR_OPEN, DOOR_CLOSED}

LEMMA DoorLeftIs ==
    ASSUME DoorInv, Requested
    PROVE  /\ DoorLeft \in 0 .. Travel + 11
           /\ DoorLeft = 0 <=> DoorAtRest
<1> USE DEF DOOR_UNKNOWN, DOOR_OPENING, DOOR_OPEN, DOOR_CLOSING, DOOR_CLOSED
<1>1. control_state \in 0 .. 4 /\ request_state \in {2, 4}
      BY DEF DoorInv, Requested, DoorState
<1>2. /\ motor_speed \in {-1, 0, 1} /\ mechanism_position_sim \in Int
      /\ MECHANISM_POS_CLOSED - 2 <= mechanism_position_sim
      /\ mechanism_position_sim <= MECHANISM_POS_OPEN + 2
      BY DEF DoorInv, DoorStaysInTravel
<1> QED BY <1>1, <1>2, TravelAssumption, SMT DEF DoorLeft, Travel, Ahead, DoorAtRest

\* one pass of the loop
LEMMA DoorComesCloser ==
    ASSUME DoorInv, Requested, DoorLoop
    PROVE  IF DoorAtRest THEN DoorAtRest' ELSE DoorLeft' < DoorLeft
<1> USE DEF DOOR_UNKNOWN, DOOR_OPENING, DOOR_OPEN, DOOR_CLOSING, DOOR_CLOSED, MOTOR_STEP_SPEED
<1>1. /\ mechanism_position_sim' = Ahead
      /\ motor_speed' = MotorIn(control_state)
      /\ control_state' = StateAfter(control_state, Ahead > MECHANISM_POS_OPEN,
                                     Ahead < MECHANISM_POS_CLOSED)
      /\ request_state' = request_state
      <2>1. /\ mechanism_position_sim' = Ahead
            /\ limit_sw_open' = (mechanism_position_sim' > MECHANISM_POS_OPEN)
            /\ limit_sw_closed' = (mechanism_position_sim' < MECHANISM_POS_CLOSED)
            BY DoorMoves DEF Ahead
      <2> QED BY <2>1, Zenon DEF DoorLoop
<1>2. control_state \in 0 .. 4 /\ request_state \in {2, 4}
      BY DEF DoorInv, Requested, DoorState
<1>3. /\ motor_speed \in {-1, 0, 1} /\ mechanism_position_sim \in Int
      /\ MECHANISM_POS_CLOSED - 2 <= mechanism_position_sim
      /\ mechanism_position_sim <= MECHANISM_POS_OPEN + 2
      BY DEF DoorInv, DoorStaysInTravel
<1>4. CASE request_state = DOOR_OPEN
      <2>1. CASE control_state \in {DOOR_UNKNOWN, DOOR_CLOSING, DOOR_CLOSED}
            BY <1>1, <1>2, <1>3, <1>4, <2>1, TravelAssumption, SMT
            DEF DoorLeft, Travel, Ahead, DoorAtRest, MotorIn, StateAfter
      <2>2. CASE control_state = DOOR_OPENING
            BY <1>1, <1>2, <1>3, <1>4, <2>2, TravelAssumption, SMT
            DEF DoorLeft, Travel, Ahead, DoorAtRest, MotorIn, StateAfter
      <2>3. CASE control_state = DOOR_OPEN
            BY <1>1, <1>2, <1>3, <1>4, <2>3, TravelAssumption, SMT
            DEF DoorLeft, Travel, Ahead, DoorAtRest, MotorIn, StateAfter
      <2> QED BY <1>2, <2>1, <2>2, <2>3
<1>5. CASE request_state = DOOR_CLOSED
      <2>1. CASE control_state \in {DOOR_UNKNOWN, DOOR_OPENING, DOOR_OPEN}
            BY <1>1, <1>2, <1>3, <1>5, <2>1, TravelAssumption, SMT
            DEF DoorLeft, Travel, Ahead, DoorAtRest, MotorIn, StateAfter
      <2>2. CASE control_state = DOOR_CLOSING
            BY <1>1, <1>2, <1>3, <1>5, <2>2, TravelAssumption, SMT
            DEF DoorLeft, Travel, Ahead, DoorAtRest, MotorIn, StateAfter
      <2>3. CASE control_state = DOOR_CLOSED
            BY <1>1, <1>2, <1>3, <1>5, <2>3, TravelAssumption, SMT
            DEF DoorLeft, Travel, Ahead, DoorAtRest, MotorIn, StateAfter
      <2> QED BY <1>2, <2>1, <2>2, <2>3
<1> QED BY <1>2, <1>4, <1>5

\* A request that the UI leaves alone is carried out within as many passes of loop as the
\* travel has steps, and 11, from whatever the door was doing: each pass leaves fewer, and
\* a door at rest stays so.  (DoorObeys, that the passes come, is checked.)
THEOREM DoorArrives ==
    DoorSpec => [][ Requested /\ request_state' = request_state =>
                       /\ DoorLeft \in 0 .. Travel + 11
                       /\ DoorLeft = 0 <=> DoorAtRest
                       /\ IF DoorAtRest THEN DoorAtRest' ELSE DoorLeft' < DoorLeft ]_door_vars
<1>1. ASSUME DoorInv, [DoorNext]_door_vars
      PROVE  [ Requested /\ request_state' = request_state =>
                  /\ DoorLeft \in 0 .. Travel + 11
                  /\ DoorLeft = 0 <=> DoorAtRest
                  /\ IF DoorAtRest THEN DoorAtRest' ELSE DoorLeft' < DoorLeft ]_door_vars
      <2> SUFFICES ASSUME DoorNext, door_vars' # door_vars, Requested, request_state' = request_state
                   PROVE  /\ DoorLeft \in 0 .. Travel + 11
                          /\ DoorLeft = 0 <=> DoorAtRest
                          /\ IF DoorAtRest THEN DoorAtRest' ELSE DoorLeft' < DoorLeft
            BY <1>1
      <2>1. DoorLoop
            BY DEF DoorNext, DoorRequest, door_vars
      <2> QED BY <1>1, <2>1, DoorLeftIs, DoorComesCloser
<1> QED BY <1>1, DoorInvariant, PTL DEF DoorSpec

-----------------------------------------------------------------------------
(* fan-controller.ino *)

FanClock == 0 .. ClockSize - 1

\* While less than the cap has passed since the timer was set, the two readings differ by
\* just that, but for one wrap.
FanInv ==
    /\ fan_now \in FanClock /\ timer \in FanClock
    /\ fan_waited \in 0 .. WaitedCap
    /\ fan_waited < WaitedCap =>
           fan_now = timer + fan_waited \/ fan_now = timer + fan_waited - ClockSize

-----------------------------------------------------------------------------
(* Arithmetic of the clock *)

LEMMA FanCapBounds ==
    /\ WaitedCap \in Nat /\ WaitedCap <= ClockSize
    /\ FAN_STARTUP_TIME_MS < WaitedCap /\ FAN_STALL_WAIT_TIME_MS < WaitedCap
    BY FanAssumption, SMT DEF WaitedCap

\* A limit is seen to be passed only when it has been.
LEMMA ElapsedIsReal ==
    ASSUME FanInv, NEW limit \in Nat, limit < WaitedCap, Elapsed(limit)
    PROVE  fan_waited > limit
<1>1. CASE fan_waited = WaitedCap
      BY <1>1, FanCapBounds, SMT
<1>2. CASE fan_waited < WaitedCap
      <2>1. fan_waited \in Int /\ 0 <= fan_waited /\ fan_waited < ClockSize
            BY <1>2, FanCapBounds, FanAssumption, SMT DEF FanInv
      <2>2. timer \in Int
            BY FanAssumption, SMT DEF FanInv, FanClock
      <2>3. (fan_now - timer) % ClockSize = fan_waited
            <3>1. CASE fan_now = timer + fan_waited
                  <4>1. fan_now - timer = fan_waited
                        BY <2>1, <2>2, <3>1, SMT
                  <4> QED BY <2>1, <4>1, ClockSmall, FanAssumption
            <3>2. CASE fan_now = timer + fan_waited - ClockSize
                  <4>1. fan_now - timer = fan_waited - ClockSize
                        BY <2>1, <2>2, <3>2, FanAssumption, SMT
                  <4>2. (fan_waited - ClockSize) % ClockSize = fan_waited - ClockSize + ClockSize
                        BY <2>1, FanAssumption, ClockUnder, SMT
                  <4> QED BY <2>1, <4>1, <4>2, FanAssumption, SMT
            <3> QED BY <1>2, <3>1, <3>2 DEF FanInv
      <2> QED BY <2>3 DEF Elapsed
<1> QED BY <1>1, <1>2, FanCapBounds, SMT DEF FanInv

-----------------------------------------------------------------------------
(* The invariant *)

LEMMA FanInitHolds == FanInit => FanInv
    BY FanCapBounds, FanAssumption, SMT DEF FanInit, FanInv, FanClock

\* every state of fan_control sets the timer to the time or leaves it
LEMMA FanTimerSteps ==
    ASSUME FanLoop PROVE fan_now' = fan_now /\ (StartTimer \/ KeepTimer)
    BY DEF FanLoop, FanOff, FanStallDetect, FanStart, FanOn

LEMMA FanStartKeeps ==
    ASSUME FanInv, StartTimer, fan_now' = fan_now PROVE FanInv'
    BY FanCapBounds, FanAssumption, SMT DEF FanInv, StartTimer, FanClock, WaitedCap

LEMMA FanTickKeeps == ASSUME FanInv, FanTick PROVE FanInv'
<1>1. /\ fan_now' = (fan_now + 1) % ClockSize
      /\ fan_waited' = IF fan_waited < WaitedCap THEN fan_waited + 1 ELSE fan_waited
      /\ timer' = timer
      BY DEF FanTick
<1>2. fan_now' = IF fan_now + 1 = ClockSize THEN 0 ELSE fan_now + 1
      <2>1. CASE fan_now + 1 = ClockSize
            BY <1>1, <2>1, ClockOver, FanAssumption, SMT DEF FanInv, FanClock
      <2>2. CASE fan_now + 1 # ClockSize
            <3>1. fan_now + 1 \in Int /\ 0 <= fan_now + 1 /\ fan_now + 1 < ClockSize
                  BY <2>2, FanAssumption, SMT DEF FanInv, FanClock
            <3> QED BY <1>1, <2>2, <3>1, ClockSmall, FanAssumption
      <2> QED BY <2>1, <2>2
<1>3. WaitedCap' = WaitedCap
      BY DEF WaitedCap
<1> QED BY <1>1, <1>2, <1>3, FanCapBounds, FanAssumption, SMT DEF FanInv, FanClock

LEMMA FanStepKeeps == FanInv /\ [FanNext]_fan_vars => FanInv'
<1> SUFFICES ASSUME FanInv, [FanNext]_fan_vars PROVE FanInv'
      OBVIOUS
<1>1. CASE FanLoop
      <2>1. CASE StartTimer
            BY <1>1, <2>1, FanStartKeeps, FanTimerSteps
      <2>2. CASE KeepTimer
            BY <1>1, <2>2, FanTimerSteps DEF KeepTimer, FanInv, WaitedCap
      <2> QED BY <1>1, <2>1, <2>2, FanTimerSteps
<1>2. CASE FanTick
      BY <1>2, FanTickKeeps
<1>3. CASE FanInput
      BY <1>3 DEF FanInput, FanInv, WaitedCap
<1>4. CASE UNCHANGED fan_vars
      BY <1>4 DEF fan_vars, FanInv, WaitedCap
<1> QED BY <1>1, <1>2, <1>3, <1>4 DEF FanNext

LEMMA FanInvariant == FanSpec => []FanInv
<1> QED BY FanInitHolds, FanStepKeeps, PTL DEF FanSpec

-----------------------------------------------------------------------------

\* what FanTimersHold says of a step
FanTimersHoldOnce ==
    /\ fan_state = "STALL_DETECT" /\ fan_state' # fan_state =>
          fan_waited > FAN_STALL_WAIT_TIME_MS
    /\ fan_state = "START" /\ fan_state' # fan_state =>
          fan_waited > FAN_STARTUP_TIME_MS

LEMMA FanLoopHolds == ASSUME FanInv, FanLoop PROVE FanTimersHoldOnce
<1>1. ASSUME fan_state = "STALL_DETECT", fan_state' # fan_state
      PROVE  fan_waited > FAN_STALL_WAIT_TIME_MS
      <2>1. FanStallDetect
            BY <1>1 DEF FanLoop, FanOff, FanStart, FanOn
      <2>2. Elapsed(FAN_STALL_WAIT_TIME_MS)
            BY <1>1, <2>1 DEF FanStallDetect
      <2> QED BY <2>2, ElapsedIsReal, FanCapBounds, FanAssumption
<1>2. ASSUME fan_state = "START", fan_state' # fan_state
      PROVE  fan_waited > FAN_STARTUP_TIME_MS
      <2>1. FanStart
            BY <1>2 DEF FanLoop, FanOff, FanStallDetect, FanOn
      <2>2. Elapsed(FAN_STARTUP_TIME_MS)
            BY <1>2, <2>1 DEF FanStart
      <2> QED BY <2>2, ElapsedIsReal, FanCapBounds, FanAssumption
<1> QED BY <1>1, <1>2 DEF FanTimersHoldOnce

\* Neither the pause after a stall nor the startup blip is cut short, also when millis()
\* wraps during it: the timers of fan_control.
THEOREM TimersHold == FanSpec => FanTimersHold
<1>1. FanInv /\ [FanNext]_fan_vars => [FanTimersHoldOnce]_fan_vars
      <2> SUFFICES ASSUME FanInv, FanNext PROVE FanTimersHoldOnce \/ UNCHANGED fan_vars
            OBVIOUS
      <2>1. CASE FanLoop
            BY <2>1, FanLoopHolds
      <2>2. CASE FanTick \/ FanInput
            BY <2>2 DEF FanTick, FanInput, FanTimersHoldOnce
      <2> QED BY <2>1, <2>2 DEF FanNext
<1>2. FanSpec => [][FanTimersHoldOnce]_fan_vars
      BY <1>1, FanInvariant, PTL DEF FanSpec
<1> QED BY <1>2 DEF FanTimersHold, FanTimersHoldOnce

-----------------------------------------------------------------------------

\* the duty cycle belongs to the percentage that the sketch shows
FanDriven == fan_pwm_setting = Pwm(output_percentage)

\* percentages of a fan that turns
Turning == {percentage \in Nat : percentage >= 19}

LEMMA FanDrivenHolds == FanSpec => []FanDriven
<1>1. FanInit => FanDriven
      BY SMT DEF FanInit, FanDriven, Pwm
<1>2. FanDriven /\ [FanNext]_fan_vars => FanDriven'
      <2> SUFFICES ASSUME FanDriven, [FanNext]_fan_vars PROVE FanDriven'
            OBVIOUS
      <2>1. CASE FanLoop
            BY <2>1 DEF FanLoop, FanOff, FanStallDetect, FanStart, FanOn, FanOutput, FanDriven, Pwm
      <2>2. CASE FanTick \/ FanInput \/ UNCHANGED fan_vars
            BY <2>2 DEF FanTick, FanInput, fan_vars, FanDriven, Pwm
      <2> QED BY <2>1, <2>2 DEF FanNext
<1> QED BY <1>1, <1>2, PTL DEF FanSpec

\* what is read of a fan that is driven and turns is above the limit of a stall
LEMMA TurningIsRead ==
    ASSUME FanDriven, ~user_stall_test, output_percentage \in Turning, NEW noise \in -5 .. 5
    PROVE  MeasuredRpm(noise) \in Int /\ MeasuredRpm(noise) >= FAN_STALL_FAULT_RPM
<1>1. output_percentage \in Nat /\ output_percentage >= 19
      BY DEF Turning
<1>2. PICK p : p = IF output_percentage > 100 THEN 100 ELSE output_percentage
      OBVIOUS
<1>3. p \in 19 .. 100
      BY <1>1, <1>2
<1>4. (p * 255) \div 100 \in 48 .. 255
      BY <1>3, SMT
<1>5. fan_pwm_setting \in 48 .. 255
      BY <1>2, <1>4 DEF FanDriven, Pwm
<1>6. PICK driven : driven = (fan_pwm_setting * 2220) \div 255
      OBVIOUS
<1>7. driven \in 417 .. 2220
      BY <1>5, <1>6, SMT
<1>8. driven + noise \in 412 .. 2225
      BY <1>7
<1>9. MeasuredRpm(noise) = (driven + noise) % 65536
      <2>1. FAN_STALL_MAX_RPM + 20 = 2220
            BY DEF FAN_STALL_MAX_RPM
      <2> QED BY <1>6, <2>1 DEF MeasuredRpm
<1>10. (driven + noise) % 65536 = driven + noise
      <2>1. PICK n : n = driven + noise
            OBVIOUS
      <2>2. n \in 412 .. 2225
            BY <1>8, <2>1
      <2>3. n % 65536 = n
            BY <2>2, SMT
      <2> QED BY <2>1, <2>3
<1> QED BY <1>8, <1>9, <1>10 DEF FAN_STALL_FAULT_RPM

\* With the noise of the sketch no fan that turns is taken for a stalled one, whatever the
\* curve and the temperature become meanwhile: a stall is retried for a rotor that the
\* user stopped, or for a percentage below 19 (which section 3 of the README lists).
THEOREM StallsAreReal ==
    ASSUME RpmNoise \subseteq -5 .. 5
    PROVE  FanSpec => [][ fan_state = "ON" /\ fan_state' = "STALL_DETECT" =>
                              user_stall_test \/ output_percentage \notin Turning ]_fan_vars
<1>1. ASSUME FanDriven, [FanNext]_fan_vars
      PROVE  [ fan_state = "ON" /\ fan_state' = "STALL_DETECT" =>
                   user_stall_test \/ output_percentage \notin Turning ]_fan_vars
      <2> SUFFICES ASSUME FanNext, fan_state = "ON", fan_state' = "STALL_DETECT",
                          ~user_stall_test, output_percentage \in Turning
                   PROVE  FALSE
            BY <1>1
      <2>1. FanLoop /\ FanOn
            BY DEF FanNext, FanTick, FanInput, FanLoop, FanOff, FanStallDetect, FanStart
      <2>2. PICK noise \in RpmNoise : rpm' = MeasuredRpm(noise)
            BY <2>1 DEF FanLoop
      <2>3. MeasuredRpm(noise) \in Int /\ MeasuredRpm(noise) >= FAN_STALL_FAULT_RPM
            BY <1>1, <2>2, TurningIsRead
      <2>4. rpm' < FAN_STALL_FAULT_RPM
            BY <2>1 DEF FanOn
      <2> QED BY <2>2, <2>3, <2>4 DEF FAN_STALL_FAULT_RPM
<1> QED BY <1>1, FanDrivenHolds, PTL DEF FanSpec

-----------------------------------------------------------------------------
(* status-error-callbacks.ino *)

BeatClock == 0 .. BeatClockSize - 1

\* the readings of the clock, as long as the age is not capped
AgeIsElapsed ==
    beat_age < AgeCap =>
        beat_now = last_heartbeat + beat_age \/ beat_now = last_heartbeat + beat_age - BeatClockSize

\* Two reasons why the count does not outlive the peer: a pass that found the heartbeat
\* too old cleared it, so whoever finds it uncleared is less than one pass late; and each
\* heartbeat that counts is one more of the run, where min adds one at most.
BeatInv ==
    /\ beat_now \in BeatClock /\ last_heartbeat \in BeatClock
    /\ heartbeat_ok_count \in Nat /\ min_adds \in Nat
    /\ beat_late \in 0 .. BeatMaxLate
    /\ beat_age \in 0 .. AgeCap /\ beat_streak \in 0 .. StreakCap
    /\ AgeIsElapsed
    /\ beat_age > HEARTBEAT_EXPECTED_MS + beat_late => heartbeat_ok_count = 0
    /\ min_adds <= 1 => beat_streak = StreakCap \/ heartbeat_ok_count <= beat_streak

-----------------------------------------------------------------------------
(* Arithmetic *)

LEMMA BeatCapBounds ==
    /\ HEARTBEAT_EXPECTED_MS \in Nat /\ BeatMaxLate \in Nat /\ BeatClockSize \in Nat
    /\ AgeCap = HEARTBEAT_EXPECTED_MS + BeatMaxLate + 1 /\ AgeCap \in Nat
    /\ AgeCap <= BeatClockSize
    BY BeatAssumption, SMT DEF AgeCap

\* what the sketch computes is the age, until it is capped
LEMMA SinceIsAge ==
    ASSUME BeatInv, beat_age < AgeCap PROVE SinceHeartbeat = beat_age
<1>1. /\ beat_age \in Int /\ 0 <= beat_age /\ beat_age < BeatClockSize
      /\ last_heartbeat \in Int
      BY BeatCapBounds, SMT DEF BeatInv, BeatClock
<1>2. CASE beat_now = last_heartbeat + beat_age
      <2>1. beat_now - last_heartbeat = beat_age
            BY <1>1, <1>2, SMT
      <2> QED BY <1>1, <2>1, ClockSmall, BeatAssumption DEF SinceHeartbeat
<1>3. CASE beat_now = last_heartbeat + beat_age - BeatClockSize
      <2>1. beat_now - last_heartbeat = beat_age - BeatClockSize
            BY <1>1, <1>3, BeatCapBounds, SMT
      <2>2. (beat_age - BeatClockSize) % BeatClockSize = beat_age - BeatClockSize + BeatClockSize
            BY <1>1, BeatCapBounds, ClockUnder, BeatAssumption, SMT
      <2> QED BY <1>1, <2>1, <2>2, BeatCapBounds, SMT DEF SinceHeartbeat
<1> QED BY <1>2, <1>3 DEF BeatInv, AgeIsElapsed

\* one more heartbeat adds at most once
LEMMA CountGrows ==
    ASSUME BeatInv
    PROVE  CountedBeat \in Nat /\ CountedBeat <= heartbeat_ok_count + min_adds
    BY SMT DEF BeatInv, CountedBeat, CountLimit

-----------------------------------------------------------------------------
(* The invariant *)

LEMMA BeatInitHolds == BeatInit => BeatInv
<1> SUFFICES ASSUME BeatInit PROVE BeatInv
      OBVIOUS
<1>1. min_adds \in Nat
      BY BeatAssumption DEF BeatInit
<1>2. heartbeat_ok_count <= beat_streak
      BY SMT DEF BeatInit
<1> QED BY <1>1, <1>2, BeatCapBounds, BeatAssumption, SMT
        DEF BeatInit, BeatInv, AgeIsElapsed, BeatClock, StreakCap

LEMMA BeatTickKeeps == ASSUME BeatInv, BeatTick PROVE BeatInv'
<1>1. /\ beat_late < BeatMaxLate /\ beat_late' = beat_late + 1
      /\ beat_now' = (beat_now + 1) % BeatClockSize
      /\ beat_age' = IF beat_age + 1 < AgeCap THEN beat_age + 1 ELSE AgeCap
      /\ UNCHANGED <<heartbeat_ok_count, last_heartbeat, min_adds, beat_streak>>
      BY DEF BeatTick, Capped
<1>2. beat_now' = IF beat_now + 1 = BeatClockSize THEN 0 ELSE beat_now + 1
      <2>1. CASE beat_now + 1 = BeatClockSize
            BY <1>1, <2>1, ClockOver, BeatAssumption, SMT DEF BeatInv, BeatClock
      <2>2. CASE beat_now + 1 # BeatClockSize
            <3>1. beat_now + 1 \in Int /\ 0 <= beat_now + 1 /\ beat_now + 1 < BeatClockSize
                  BY <2>2, BeatCapBounds, SMT DEF BeatInv, BeatClock
            <3> QED BY <1>1, <2>2, <3>1, ClockSmall, BeatAssumption
      <2> QED BY <2>1, <2>2
<1>3. /\ beat_now' \in BeatClock /\ beat_age' \in 0 .. AgeCap /\ beat_late' \in 0 .. BeatMaxLate
      BY <1>1, <1>2, BeatCapBounds, SMT DEF BeatInv, BeatClock
<1>4. AgeIsElapsed'
      BY <1>1, <1>2, BeatCapBounds, SMT DEF BeatInv, BeatClock, AgeIsElapsed, AgeCap
<1>5. beat_age' > HEARTBEAT_EXPECTED_MS + beat_late' => heartbeat_ok_count' = 0
      BY <1>1, BeatCapBounds, SMT DEF BeatInv
<1> QED BY <1>1, <1>3, <1>4, <1>5 DEF BeatInv, BeatClock, AgeCap, StreakCap

\* a heartbeat after a silence finds the count cleared, one in time lengthens the run, and
\* one that is late without a silence does not count
LEMMA RunGrows ==
    ASSUME BeatInv, EuiCallback, min_adds <= 1
    PROVE  beat_streak' = StreakCap \/ heartbeat_ok_count' <= beat_streak'
<1>1. /\ heartbeat_ok_count' \in Int /\ heartbeat_ok_count \in Int
      /\ heartbeat_ok_count' <= heartbeat_ok_count + 1
      BY CountGrows, SMT DEF EuiCallback, BeatInv
<1>2. beat_streak' =
          IF beat_age < HEARTBEAT_EXPECTED_MS
          THEN (IF beat_streak + 1 < StreakCap THEN beat_streak + 1 ELSE StreakCap)
          ELSE IF beat_age < AgeCap THEN beat_streak ELSE 1
      BY DEF EuiCallback, Capped
<1>3. beat_streak = StreakCap \/ heartbeat_ok_count <= beat_streak
      BY DEF BeatInv
<1>4. beat_streak \in 0 .. 4 /\ StreakCap = 4
      BY DEF BeatInv, StreakCap
<1>5. CASE beat_age < HEARTBEAT_EXPECTED_MS
      BY <1>1, <1>2, <1>3, <1>4, <1>5, SMT
<1>6. CASE ~(beat_age < HEARTBEAT_EXPECTED_MS) /\ beat_age < AgeCap
      <2>1. SinceHeartbeat = beat_age
            BY <1>6, SinceIsAge
      <2>2. heartbeat_ok_count' = heartbeat_ok_count
            BY <1>6, <2>1 DEF EuiCallback
      <2> QED BY <1>2, <1>3, <1>6, <2>2
<1>7. CASE ~(beat_age < AgeCap)
      <2>1. heartbeat_ok_count = 0 /\ ~(beat_age < HEARTBEAT_EXPECTED_MS)
            BY <1>7, BeatCapBounds, SMT DEF BeatInv
      <2>2. beat_streak' = 1
            BY <1>2, <1>7, <2>1
      <2> QED BY <1>1, <2>1, <2>2, SMT
<1> QED BY <1>5, <1>6, <1>7

LEMMA BeatCallbackKeeps == ASSUME BeatInv, EuiCallback PROVE BeatInv'
<1>1. /\ heartbeat_ok_count' \in {CountedBeat, heartbeat_ok_count}
      /\ last_heartbeat' = beat_now /\ beat_age' = 0
      /\ UNCHANGED <<min_adds, beat_now, beat_late>>
      BY DEF EuiCallback
<1>2. heartbeat_ok_count' \in Nat
      BY <1>1, CountGrows DEF BeatInv
<1>3. beat_streak' \in 0 .. StreakCap
      BY SMT DEF EuiCallback, Capped, BeatInv, StreakCap
<1>4. AgeIsElapsed'
      BY <1>1, BeatCapBounds, SMT DEF AgeIsElapsed, BeatInv, BeatClock
<1>5. ~(beat_age' > HEARTBEAT_EXPECTED_MS + beat_late') /\ beat_age' \in 0 .. AgeCap
      BY <1>1, BeatCapBounds, SMT DEF BeatInv
<1>6. min_adds' <= 1 => beat_streak' = StreakCap' \/ heartbeat_ok_count' <= beat_streak'
      BY <1>1, RunGrows DEF StreakCap
<1> QED BY <1>1, <1>2, <1>3, <1>4, <1>5, <1>6 DEF BeatInv, BeatClock, AgeCap, StreakCap

LEMMA BeatCheckKeeps == ASSUME BeatInv, IsConnectionOk PROVE BeatInv'
<1>1. /\ heartbeat_ok_count' =
            IF SinceHeartbeat > HEARTBEAT_EXPECTED_MS THEN 0 ELSE heartbeat_ok_count
      /\ beat_late' = 0
      /\ UNCHANGED <<last_heartbeat, min_adds, beat_now, beat_age, beat_streak>>
      BY DEF IsConnectionOk
<1>2. heartbeat_ok_count' = 0 \/ heartbeat_ok_count' = heartbeat_ok_count
      BY <1>1
<1>3. beat_age' > HEARTBEAT_EXPECTED_MS + beat_late' => heartbeat_ok_count' = 0
      <2>1. CASE beat_age < AgeCap
            <3>1. SinceHeartbeat = beat_age
                  BY <2>1, SinceIsAge
            <3> QED BY <1>1, <3>1, BeatCapBounds, SMT DEF BeatInv
      <2>2. CASE ~(beat_age < AgeCap)
            BY <1>2, <2>2, BeatCapBounds, SMT DEF BeatInv
      <2> QED BY <2>1, <2>2
<1>4. min_adds' <= 1 => beat_streak' = StreakCap' \/ heartbeat_ok_count' <= beat_streak'
      BY <1>1, <1>2, SMT DEF BeatInv, StreakCap
<1>5. beat_late' \in 0 .. BeatMaxLate
      BY <1>1, BeatCapBounds, SMT
<1>6. AgeIsElapsed'
      BY <1>1 DEF AgeIsElapsed, BeatInv, AgeCap
<1> QED BY <1>1, <1>2, <1>3, <1>4, <1>5, <1>6 DEF BeatInv, BeatClock, AgeCap, StreakCap

LEMMA BeatStepKeeps == BeatInv /\ [BeatNext]_beat_vars => BeatInv'
<1> SUFFICES ASSUME BeatInv, [BeatNext]_beat_vars PROVE BeatInv'
      OBVIOUS
<1>1. CASE BeatArrives
      BY <1>1 DEF BeatArrives, BeatInv, AgeIsElapsed, BeatClock, AgeCap, StreakCap
<1>2. CASE UNCHANGED beat_vars
      BY <1>2 DEF beat_vars, BeatInv, AgeIsElapsed, BeatClock, AgeCap, StreakCap
<1> QED BY <1>1, <1>2, BeatTickKeeps, BeatCallbackKeeps, BeatCheckKeeps DEF BeatNext

LEMMA BeatInvariant == BeatSpec => []BeatInv
<1> QED BY BeatInitHolds, BeatStepKeeps, PTL DEF BeatSpec

-----------------------------------------------------------------------------

\* what BeatOkIsAlive says of a step
BeatOkIsAliveOnce ==
    IsConnectionOk /\ connection_ok' =>
        /\ beat_age <= HEARTBEAT_EXPECTED_MS
        /\ min_adds <= 1 => beat_streak > 3

LEMMA BeatCheckIsAlive ==
    ASSUME BeatInv, IsConnectionOk, connection_ok' PROVE
        /\ beat_age <= HEARTBEAT_EXPECTED_MS
        /\ min_adds <= 1 => beat_streak > 3
<1>1. heartbeat_ok_count' > 3 /\ heartbeat_ok_count' \in {0, heartbeat_ok_count}
      BY DEF IsConnectionOk
<1>2. heartbeat_ok_count > 3 /\ heartbeat_ok_count' # 0
      BY <1>1, SMT
<1>3. beat_age <= HEARTBEAT_EXPECTED_MS
      <2>1. BeatInv' /\ beat_late' = 0 /\ beat_age' = beat_age
            BY BeatCheckKeeps DEF IsConnectionOk
      <2> QED BY <1>2, <2>1, BeatCapBounds, SMT DEF BeatInv
<1>4. ASSUME min_adds <= 1 PROVE beat_streak > 3
      <2>1. beat_streak = 4 \/ heartbeat_ok_count <= beat_streak
            BY <1>4 DEF BeatInv, StreakCap
      <2>2. beat_streak \in Int /\ heartbeat_ok_count \in Int
            BY DEF BeatInv
      <2> QED BY <1>2, <2>1, <2>2, SMT
<1> QED BY <1>3, <1>4

\* A connection is found good only while the last heartbeat is in time and, where min adds
\* one at most, after more than three of them, also when millis() wraps or a pass is late:
\* eui_callback and is_connection_ok.
THEOREM OkIsAlive == BeatSpec => BeatOkIsAlive
<1>1. BeatInv /\ [BeatNext]_beat_vars => [BeatOkIsAliveOnce]_beat_vars
      BY BeatCheckIsAlive DEF BeatOkIsAliveOnce
<1>2. BeatSpec => [][BeatOkIsAliveOnce]_beat_vars
      BY <1>1, BeatInvariant, PTL DEF BeatSpec
<1> QED BY <1>2 DEF BeatOkIsAlive, BeatOkIsAliveOnce

-----------------------------------------------------------------------------
(* battery-status.ino *)

\* the percentage is that of the voltage, but before the first pass
Known ==
    \/ battery_percentage = CalculateBatterySoc(battery_voltage)
    \/ battery_voltage = 12400

BatteryInv ==
    /\ battery_voltage \in Int /\ system_v_draw_mV \in Nat
    /\ battery_voltage <= 12826
    /\ Known

-----------------------------------------------------------------------------
\* In the topmost row the upper threshold is passed 32 mV below its end.
LEMMA FullIsSeen ==
    ASSUME NEW voltage \in Int, 12818 <= voltage, voltage < 12850
    PROVE  /\ CalculateBatterySoc(voltage) \in Int
           /\ CalculateBatterySoc(voltage) > CHARGE_FINISH_PERCENT
<1>1. /\ lead_acid_table[1].voltage = 12850 /\ lead_acid_table[2].voltage = 12650
      /\ lead_acid_table[3].voltage = 12350 /\ lead_acid_table[4].voltage = 12000
      /\ lead_acid_table[1].percentage = 100 /\ lead_acid_table[2].percentage = 75
  BY DEF lead_acid_table, SocRow
<1>2. RowsAt(voltage) = {1}
  <2>1. 1 \in RowsAt(voltage)
    BY <1>1 DEF RowsAt
  <2>2. ASSUME NEW i \in {2, 3, 4} PROVE i \notin RowsAt(voltage)
    <3>1. lead_acid_table[i].voltage \in Int /\ voltage >= lead_acid_table[i].voltage
      BY <1>1
    <3> QED
      BY <3>1 DEF RowsAt
  <2>3. RowsAt(voltage) \subseteq {1} \cup {2, 3, 4}
    BY DEF RowsAt
  <2> QED
    BY <2>1, <2>2, <2>3
<1>3. (CHOOSE i \in RowsAt(voltage) : TRUE) = 1
  BY <1>2
<1>4. CalculateBatterySoc(voltage) = Between(1, voltage)
  BY <1>1, <1>2, <1>3 DEF CalculateBatterySoc
<1>5. Between(1, voltage) = (75 * 200 + (voltage - 12650) * 25) \div 200
  BY <1>1 DEF Between
<1>6. (75 * 200 + (voltage - 12650) * 25) \div 200 \in Int
  OBVIOUS
<1>7. (75 * 200 + (voltage - 12650) * 25) \div 200 >= 96
  OBVIOUS
<1> QED
  BY <1>4, <1>5, <1>6, <1>7 DEF CHARGE_FINISH_PERCENT

\* The charger is off above 12818 mV: a battery it charges is below.
LEMMA ChargesBelow ==
    ASSUME BatteryInv, Charging PROVE battery_voltage < 12818
<1>1. CASE battery_voltage = 12400
  BY <1>1
<1>2. CASE battery_percentage = CalculateBatterySoc(battery_voltage)
  <2>1. SUFFICES ASSUME 12818 <= battery_voltage PROVE FALSE
    BY DEF BatteryInv
  <2>2. battery_percentage \in Int /\ battery_percentage > CHARGE_FINISH_PERCENT
    BY <1>2, <2>1, FullIsSeen DEF BatteryInv
  <2> QED
    BY <2>2 DEF Charging, CHARGE_START_PERCENT, CHARGE_FINISH_PERCENT
<1> QED
  BY <1>1, <1>2 DEF BatteryInv, Known

LEMMA BatteryPassKeeps == ASSUME BatteryInv, SimulationPass PROVE BatteryInv'
<1>1. PICK voltage \in Drained :
          battery_voltage' = voltage + (IF Charging THEN SIMULATED_CHARGE_RATE_mV ELSE 0)
  BY DEF SimulationPass
<1>2. voltage \in Int /\ voltage <= battery_voltage
  BY <1>1 DEF Drained, BatteryInv
<1>3. battery_voltage' \in Int /\ battery_voltage' <= 12826
  <2>1. CASE Charging
    BY <1>1, <1>2, <2>1, ChargesBelow DEF SIMULATED_CHARGE_RATE_mV, BatteryInv
  <2>2. CASE ~Charging
    BY <1>1, <1>2, <2>2 DEF BatteryInv
  <2> QED
    BY <2>1, <2>2
<1> QED
  BY <1>3 DEF BatteryInv, Known, SimulationPass

LEMMA BatteryStepKeeps == BatteryInv /\ [BatteryNext]_battery_vars => BatteryInv'
<1> SUFFICES ASSUME BatteryInv, [BatteryNext]_battery_vars PROVE BatteryInv'
  OBVIOUS
<1>1. CASE SimulationPass
  BY <1>1, BatteryPassKeeps
<1>2. CASE IdlePass
  BY <1>2 DEF IdlePass, BatteryInv, Known
<1>3. CASE PlugIn
  BY <1>3 DEF PlugIn, BatteryInv, Known
<1>4. ASSUME NEW load \in Loads, LoadAdj(load) PROVE BatteryInv'
  BY <1>4, LoadsAssumption DEF LoadAdj, BatteryInv, Known
<1>5. CASE UNCHANGED battery_vars
  BY <1>5 DEF battery_vars, BatteryInv, Known
<1> QED
  BY <1>1, <1>2, <1>3, <1>4, <1>5 DEF BatteryNext

-----------------------------------------------------------------------------
\* Whatever loads the UI sets and whenever it plugs the charger in or out, the battery
\* stays below the voltage that calculate_battery_soc takes for an empty one.
THEOREM StaysBelowFull == BatterySpec => []NeverOvercharged
<1>1. BatteryInit => BatteryInv
  BY DEF BatteryInit, BatteryInv, Known, SIMULATED_LOAD_mV
<1>2. BatteryInv => NeverOvercharged
  BY DEF BatteryInv, NeverOvercharged, lead_acid_table, SocRow
<1> QED
  BY <1>1, <1>2, BatteryStepKeeps, PTL DEF BatterySpec

-----------------------------------------------------------------------------
(* persistence-eeprom.ino *)

\* what is saved of each variable
Kept(vars) == [k \in DOMAIN Tracked |-> IF Persistent(k) THEN vars[k] ELSE << >>]

\* every variable keeps its size
Sized(vars) ==
    vars \in [DOMAIN Tracked -> Seq(Cell)] /\ \A k \in DOMAIN Tracked : Len(vars[k]) = Len(Initial[k])

LEMMA TrackedIs == \A k \in DOMAIN Tracked : Tracked[k].initial \in Seq(Cell) /\ Tracked[k].read_only \in BOOLEAN
<1>1. \A k \in DOMAIN Tracked : Tracked[k] \in [read_only : BOOLEAN, initial : Seq(Cell)]
      BY TrackedAssumption, ElementOfSeq, LenProperties
<1> QED BY <1>1

LEMMA InitialSized == Sized(Initial)
BY TrackedIs DEF Sized, Initial

LEMMA KeptIs ==
    ASSUME NEW vars, Sized(vars)
    PROVE  /\ Kept(vars) \in Seq(Seq(Cell)) /\ Len(Kept(vars)) = Len(Tracked)
           /\ Kept(Initial) \in Seq(Seq(Cell)) /\ Matching(Kept(Initial), Kept(vars))
<1>1. ASSUME NEW v, Sized(v) PROVE Kept(v) \in Seq(Seq(Cell)) /\ Len(Kept(v)) = Len(Tracked)
      <2>1. Kept(v) = [k \in DOMAIN Tracked |-> Kept(v)[k]]
            BY DEF Kept
      <2>2. \A k \in DOMAIN Tracked : Kept(v)[k] \in Seq(Cell)
            BY <1>1 DEF Kept, Sized
      <2> QED BY <2>1, <2>2, TrackedAssumption, Mapped, SMTT(30)
<1>2. DOMAIN Tracked = 1 .. Len(Tracked)
      BY TrackedAssumption
<1>3. \A k \in DOMAIN Tracked : Len(Kept(Initial)[k]) = Len(Kept(vars)[k])
      BY DEF Kept, Sized
<1> QED BY <1>1, <1>2, <1>3, InitialSized DEF Matching

\* The settings have a fixed length.
LEMMA FlatIs ==
    ASSUME NEW vars, Sized(vars)
    PROVE  /\ Flat(vars) \in Seq(Cell) /\ Len(Flat(vars)) = SettingsLength
           /\ Flat(vars) \in [1 .. SettingsLength -> Cell] /\ SettingsLength \in Nat
<1>1. Flat(vars) = FlattenSeq(Kept(vars)) /\ Flat(Initial) = FlattenSeq(Kept(Initial))
      BY DEF Flat, Kept
<1>2. Flat(vars) \in Seq(Cell)
      BY <1>1, KeptIs, FlattenSent
<1>3. Len(Flat(vars)) = SettingsLength
      BY <1>1, KeptIs, MatchingLength DEF SettingsLength
<1> QED BY <1>2, <1>3

LEMMA InRoom ==
    ASSUME NEW p \in Nat, NEW q \in Nat, NEW room \in Nat, p + q <= room, NEW top \in Nat, room < top,
           NEW j \in 1 .. q
    PROVE  j + p \in 0 .. top - 1
OBVIOUS

\* Restoring reads every byte from where it was saved.
LEMMA RetrievedIs ==
    ASSUME NEW cells \in [Addresses -> Cell]
    PROVE  /\ Sized(RetrieveSettings(cells))
           /\ cells[0] = EEPROM_MAGIC_WORD => Flat(RetrieveSettings(cells)) = [n \in 1 .. SettingsLength |-> cells[n]]
           /\ cells[0] # EEPROM_MAGIC_WORD => RetrieveSettings(cells) = Initial
<1> DEFINE back == RetrieveSettings(cells)
           kept == Kept(Initial)
<1>1. /\ back = [k \in DOMAIN Tracked |-> back[k]]
      /\ \A k \in DOMAIN Tracked :
            /\ back[k] = [j \in DOMAIN Initial[k] |-> back[k][j]]
            /\ \A j \in DOMAIN Initial[k] :
                  back[k][j] = IF cells[0] = EEPROM_MAGIC_WORD /\ Persistent(k)
                               THEN cells[AddressOf(k, j)] ELSE Initial[k][j]
      BY DEF RetrieveSettings
<1> HIDE DEF back
<1>2. \A k \in DOMAIN Tracked : Initial[k] \in Seq(Cell)
      BY InitialSized DEF Sized
<1>3. /\ kept \in Seq(Seq(Cell)) /\ DOMAIN Tracked = 1 .. Len(kept)
      /\ FlattenSeq(kept) = Flat(Initial) /\ Len(FlattenSeq(kept)) = SettingsLength
      /\ \A k \in DOMAIN Tracked : kept[k] = IF Persistent(k) THEN Initial[k] ELSE << >>
      <2>1. kept \in Seq(Seq(Cell)) /\ Len(kept) = Len(Tracked)
            BY InitialSized, KeptIs
      <2> QED BY <2>1, TrackedAssumption DEF Flat, Kept, SettingsLength
<1>4. ASSUME NEW k \in DOMAIN Tracked, NEW j
      PROVE  AddressOf(k, j) = j + Len(FlattenSeq(First(kept, k - 1)))
      <2>1. \A i \in 1 .. k - 1 : i \in DOMAIN Tracked
            BY <1>3
      <2>2. First(kept, k - 1) = [i \in 1 .. k - 1 |-> IF Persistent(i) THEN Initial[i] ELSE << >>]
            BY <1>3, <2>1 DEF First
      <2> QED BY <2>2 DEF AddressOf
<1>5. ASSUME NEW k \in DOMAIN Tracked, Persistent(k), NEW j \in DOMAIN Initial[k]
      PROVE  AddressOf(k, j) \in Addresses
      <2>1. kept[k] = Initial[k] /\ k \in 1 .. Len(kept)
            BY <1>3, <1>5
      <2>2. /\ Len(FlattenSeq(First(kept, k - 1))) \in Nat /\ Len(kept[k]) \in Nat
            /\ Len(FlattenSeq(First(kept, k - 1))) + Len(kept[k]) <= Len(FlattenSeq(kept))
            BY <1>3, <2>1, FlattenRoom
      <2>3. j \in 1 .. Len(kept[k])
            BY <1>2, <2>1
      <2>4. AddressOf(k, j) = j + Len(FlattenSeq(First(kept, k - 1)))
            BY <1>4
      <2>5. SettingsLength < EepromLength /\ EepromLength \in Nat /\ SettingsLength \in Nat
            BY LayoutAssumption, InitialSized, FlatIs
      <2> HIDE DEF kept
      <2>6. Len(FlattenSeq(First(kept, k - 1))) + Len(kept[k]) <= SettingsLength
            BY <1>3, <2>2
      <2>7. j + Len(FlattenSeq(First(kept, k - 1))) \in 0 .. EepromLength - 1
            BY <2>2, <2>3, <2>5, <2>6, InRoom, Zenon
      <2> QED BY <2>4, <2>7 DEF Addresses
<1>6. Sized(back)
      <2>1. ASSUME NEW k \in DOMAIN Tracked PROVE back[k] \in Seq(Cell) /\ Len(back[k]) = Len(Initial[k])
            <3>1. \A j \in DOMAIN Initial[k] : back[k][j] \in Cell
                  BY <1>1, <1>2, <1>5
            <3>2. DOMAIN Initial[k] = 1 .. Len(Initial[k]) /\ Len(Initial[k]) \in Nat
                  BY <1>2
            <3>3. back[k] \in [1 .. Len(Initial[k]) -> Cell]
                  BY <1>1, <3>1, <3>2
            <3> QED BY <3>2, <3>3
      <2> QED BY <1>1, <2>1 DEF Sized
<1>7. ASSUME cells[0] = EEPROM_MAGIC_WORD PROVE Flat(back) = [n \in 1 .. SettingsLength |-> cells[n]]
      <2> DEFINE v == Kept(back)
      <2>1. v \in Seq(Seq(Cell)) /\ Matching(kept, v)
            BY <1>6, KeptIs
      <2>2. ReadFrom(kept, v, cells)
            <3> SUFFICES ASSUME NEW k \in 1 .. Len(kept), NEW j \in 1 .. Len(v[k])
                         PROVE  v[k][j] = cells[j + Len(FlattenSeq(First(kept, k - 1)))]
                  BY DEF ReadFrom
            <3>1. k \in DOMAIN Tracked
                  BY <1>3
            <3>2. v[k] = IF Persistent(k) THEN back[k] ELSE << >>
                  BY <3>1 DEF Kept
            <3>3. Persistent(k) /\ v[k] = back[k]
                  BY <3>2
            <3>4. j \in DOMAIN Initial[k]
                  BY <1>2, <1>6, <3>1, <3>3 DEF Sized
            <3> QED BY <1>1, <1>4, <1>7, <3>1, <3>3, <3>4
      <2>3. Flat(back) = FlattenSeq(v)
            BY DEF Flat, Kept
      <2>4. Flat(back) \in [1 .. SettingsLength -> Cell] /\ Len(Flat(back)) = SettingsLength
            BY <1>6, FlatIs
      <2> HIDE DEF v, kept
      <2>5. \A n \in 1 .. Len(FlattenSeq(v)) : FlattenSeq(v)[n] = cells[n]
            BY <1>3, <2>1, <2>2, FlattenReads
      <2> QED BY <2>3, <2>4, <2>5
<1>8. ASSUME cells[0] # EEPROM_MAGIC_WORD PROVE back = Initial
      <2>1. \A k \in DOMAIN Tracked : back[k] = Initial[k]
            BY <1>1, <1>2, <1>8
      <2>2. Initial = [k \in DOMAIN Tracked |-> Initial[k]]
            BY DEF Initial
      <2> QED BY <1>1, <2>1, <2>2
<1> QED BY <1>6, <1>7, <1>8 DEF back
\* the byte that a save puts into a cell
Saved(vars, i) == IF i = 0 THEN EEPROM_MAGIC_WORD ELSE Flat(vars)[i]

\* While a callback runs, the cells below its address hold what it writes and the others
\* what they held when it began; what is settled is what they held when none was running.
SettingsInv ==
    /\ Sized(variables)
    /\ eeprom \in [Addresses -> Cell] /\ settled \in [Addresses -> Cell]
    /\ operation.name \in {"none", "save", "clear"} /\ operation.address \in Addresses
    /\ operation = [name |-> operation.name, address |-> operation.address]
    /\ operation.name = "none" => operation = NoOperation /\ settled = eeprom
    /\ operation.name = "save" =>
          /\ operation.address <= SettingsLength
          /\ \A i \in Addresses :
                eeprom[i] = IF i < operation.address THEN Saved(variables, i) ELSE settled[i]
    /\ operation.name = "clear" =>
          \A i \in Addresses : eeprom[i] = IF i < operation.address THEN 0 ELSE settled[i]

LEMMA SettingsSizes ==
    /\ EepromLength \in Nat /\ SettingsLength \in Nat /\ SettingsLength < EepromLength
    /\ Addresses \subseteq Nat /\ 0 \in Addresses /\ EepromLength - 1 \in Addresses
    /\ \A n \in 1 .. SettingsLength : n \in Addresses
<1>1. EepromLength \in Nat /\ SettingsLength \in Nat /\ SettingsLength < EepromLength
      BY LayoutAssumption, InitialSized, FlatIs
<1> QED BY <1>1 DEF Addresses

LEMMA SavedIs ==
    ASSUME NEW vars, Sized(vars), NEW i \in 0 .. SettingsLength
    PROVE  Saved(vars, i) \in Cell
<1>1. Flat(vars) \in [1 .. SettingsLength -> Cell] /\ SettingsLength \in Nat
      BY FlatIs
<1> QED BY <1>1 DEF Saved, Cell, EEPROM_MAGIC_WORD

-----------------------------------------------------------------------------
(* Every step keeps the invariant *)

LEMMA SettingsInitHolds == SettingsInit => SettingsInv
BY InitialSized, SettingsSizes DEF SettingsInit, SettingsInv, NoOperation, Cell, Blank

LEMMA UiStoresKeeps ==
    ASSUME SettingsInv, NEW k \in DOMAIN Tracked, NEW bytes \in StoredValues, UiStores(k, bytes)
    PROVE  SettingsInv'
<1>1. /\ operation' = operation /\ eeprom' = eeprom /\ settled' = settled
      /\ operation = NoOperation /\ variables' = [variables EXCEPT ![k] = bytes]
      /\ Len(bytes) = Len(variables[k])
      BY DEF UiStores
<1>2. bytes \in Seq(Cell)
      BY TrackedAssumption
<1>3. Sized(variables')
      BY <1>1, <1>2 DEF SettingsInv, Sized
<1>4. operation'.name = "none"
      BY <1>1 DEF NoOperation
<1> QED BY <1>1, <1>3, <1>4 DEF SettingsInv

LEMMA UiCallsKeeps ==
    ASSUME SettingsInv, NEW name \in {"save", "clear"}, UiCalls(name) PROVE SettingsInv'
<1>1. /\ operation' = [name |-> name, address |-> 0]
      /\ variables' = variables /\ eeprom' = eeprom /\ settled' = settled
      /\ operation = NoOperation
      BY DEF UiCalls
<1>2. operation'.name = name /\ operation'.address = 0
      BY <1>1
<1>3. settled = eeprom
      BY <1>1 DEF SettingsInv, NoOperation
<1>4. \A i \in Addresses : ~(i < 0)
      BY SettingsSizes
<1> QED BY <1>1, <1>2, <1>3, <1>4, SettingsSizes DEF SettingsInv

LEMMA SaveKeeps == ASSUME SettingsInv, SaveSettings PROVE SettingsInv'
<1> DEFINE a == operation.address
<1>1. /\ operation.name = "save" /\ a \in Addresses /\ a \in 0 .. SettingsLength /\ a \in Nat
      /\ eeprom' = [eeprom EXCEPT ![a] = Saved(variables, a)]
      /\ variables' = variables /\ Advance(SettingsLength)
      BY SettingsSizes DEF SettingsInv, SaveSettings, Saved
<1>2. Saved(variables, a) \in Cell
      BY <1>1, SavedIs DEF SettingsInv
<1>3. eeprom' \in [Addresses -> Cell]
      BY <1>1, <1>2 DEF SettingsInv
<1>4. CASE a = SettingsLength
      <2>1. operation' = NoOperation /\ settled' = eeprom'
            BY <1>1, <1>4 DEF Advance
      <2>2. operation'.name = "none" /\ operation'.address = 0
            BY <2>1 DEF NoOperation
      <2> QED BY <1>1, <1>3, <2>1, <2>2, SettingsSizes DEF SettingsInv, NoOperation
<1>5. CASE a # SettingsLength
      <2>1. operation' = [operation EXCEPT !.address = a + 1] /\ settled' = settled
            BY <1>1, <1>5 DEF Advance
      <2>2. operation = [name |-> operation.name, address |-> operation.address]
            BY DEF SettingsInv
      <2>3. operation' = [name |-> "save", address |-> a + 1]
            BY <1>1, <2>1, <2>2
      <2>4. operation'.name = "save" /\ operation'.address = a + 1
            BY <2>3
      <2>5. a + 1 \in Addresses /\ a + 1 <= SettingsLength
            BY <1>1, <1>5, SettingsSizes DEF Addresses
      <2>6. ASSUME NEW i \in Addresses
            PROVE  eeprom'[i] = IF i < a + 1 THEN Saved(variables, i) ELSE settled[i]
            <3>1. eeprom[i] = IF i < a THEN Saved(variables, i) ELSE settled[i]
                  BY <1>1 DEF SettingsInv
            <3>2. eeprom'[i] = IF i = a THEN Saved(variables, i) ELSE eeprom[i]
                  BY <1>1 DEF SettingsInv
            <3>3. i < a + 1 <=> i < a \/ i = a
                  BY <1>1, SettingsSizes
            <3> QED BY <3>1, <3>2, <3>3, SettingsSizes, <1>1
      <2> QED BY <1>1, <1>3, <2>1, <2>3, <2>4, <2>5, <2>6 DEF SettingsInv
<1> QED BY <1>4, <1>5

LEMMA EraseKeeps == ASSUME SettingsInv, EraseSettings PROVE SettingsInv'
<1> DEFINE a == operation.address
<1>1. /\ operation.name = "clear" /\ a \in Addresses /\ a \in Nat
      /\ eeprom' = [eeprom EXCEPT ![a] = 0]
      /\ variables' = variables /\ Advance(EepromLength - 1)
      BY SettingsSizes DEF SettingsInv, EraseSettings
<1>2. eeprom' \in [Addresses -> Cell]
      BY <1>1 DEF SettingsInv, Cell
<1>3. CASE a = EepromLength - 1
      <2>1. operation' = NoOperation /\ settled' = eeprom'
            BY <1>1, <1>3 DEF Advance
      <2>2. operation'.name = "none" /\ operation'.address = 0
            BY <2>1 DEF NoOperation
      <2> QED BY <1>1, <1>2, <2>1, <2>2, SettingsSizes DEF SettingsInv, NoOperation
<1>4. CASE a # EepromLength - 1
      <2>1. operation' = [operation EXCEPT !.address = a + 1] /\ settled' = settled
            BY <1>1, <1>4 DEF Advance
      <2>2. operation = [name |-> operation.name, address |-> operation.address]
            BY DEF SettingsInv
      <2>3. operation' = [name |-> "clear", address |-> a + 1]
            BY <1>1, <2>1, <2>2
      <2>4. operation'.name = "clear" /\ operation'.address = a + 1
            BY <2>3
      <2>5. a + 1 \in Addresses
            BY <1>1, <1>4, SettingsSizes DEF Addresses
      <2>6. ASSUME NEW i \in Addresses
            PROVE  eeprom'[i] = IF i < a + 1 THEN 0 ELSE settled[i]
            <3>1. eeprom[i] = IF i < a THEN 0 ELSE settled[i]
                  BY <1>1 DEF SettingsInv
            <3>2. eeprom'[i] = IF i = a THEN 0 ELSE eeprom[i]
                  BY <1>1 DEF SettingsInv
            <3>3. i < a + 1 <=> i < a \/ i = a
                  BY <1>1, SettingsSizes
            <3> QED BY <3>1, <3>2, <3>3, SettingsSizes, <1>1
      <2> QED BY <1>1, <1>2, <2>1, <2>3, <2>4, <2>5, <2>6 DEF SettingsInv
<1> QED BY <1>3, <1>4

LEMMA PowerCutKeeps == ASSUME SettingsInv, PowerCut PROVE SettingsInv'
<1>1. /\ Sized(variables') /\ operation' = NoOperation /\ settled' = eeprom' /\ eeprom' = eeprom
      BY RetrievedIs DEF SettingsInv, PowerCut
<1>2. operation'.name = "none" /\ operation'.address = 0
      BY <1>1 DEF NoOperation
<1> QED BY <1>1, <1>2, SettingsSizes DEF SettingsInv, NoOperation

LEMMA SettingsStepKeeps == SettingsInv /\ [SettingsNext]_settings_vars => SettingsInv'
<1> SUFFICES ASSUME SettingsInv, [SettingsNext]_settings_vars PROVE SettingsInv'
      OBVIOUS
<1>1. CASE UNCHANGED settings_vars
      BY <1>1 DEF settings_vars, SettingsInv
<1> QED BY <1>1, UiStoresKeeps, UiCallsKeeps, SaveKeeps, EraseKeeps, PowerCutKeeps DEF SettingsNext
-----------------------------------------------------------------------------
(* Every step is a step of the store, or none *)

LEMMA NotValid ==
    ASSUME NEW cells, cells[0] # EEPROM_MAGIC_WORD
    PROVE  StoredIn(cells) = [valid |-> FALSE, bytes |-> [n \in 1 .. SettingsLength |-> cells[n]]]
<1>1. (cells[0] = EEPROM_MAGIC_WORD) = FALSE
      OBVIOUS
<1> QED BY <1>1, Zenon DEF StoredIn

LEMMA StoreStarts == SettingsInit => Store!StoreInit
<1> SUFFICES ASSUME SettingsInit PROVE Store!StoreInit
      OBVIOUS
<1>1. SettingsInv
      BY SettingsInitHolds
<1>2. settled[0] = Blank /\ variables = Initial
      BY SettingsSizes DEF SettingsInit
<1>3. \A n \in 1 .. SettingsLength : settled[n] \in Cell
      BY <1>1, SettingsSizes DEF SettingsInv
<1>4. StoredIn(settled) = [valid |-> FALSE, bytes |-> [n \in 1 .. SettingsLength |-> settled[n]]]
      BY <1>2, NotValid DEF Blank, EEPROM_MAGIC_WORD
<1> QED BY <1>2, <1>3, <1>4 DEF Store!StoreInit, Store!Settings

LEMMA StoreChanges ==
    ASSUME SettingsInv, NEW k \in DOMAIN Tracked, NEW bytes \in StoredValues, UiStores(k, bytes)
    PROVE  Store!Change
<1>1. Sized(variables') /\ settled' = settled
      BY UiStoresKeeps DEF SettingsInv, UiStores
<1>2. Flat(variables)' = Flat(variables')
      BY DEF Flat
<1>3. Flat(variables') \in Store!Settings
      BY <1>1, FlatIs DEF Store!Settings
<1> QED BY <1>1, <1>2, <1>3 DEF Store!Change, StoredIn

\* Only the last byte of a save is a step of the store.
LEMMA StoreSaves ==
    ASSUME SettingsInv, SaveSettings
    PROVE  Store!Save \/ UNCHANGED <<variables, settled>>
<1> DEFINE a == operation.address
<1>1. /\ operation.name = "save" /\ a \in Addresses /\ a \in Nat
      /\ eeprom' = [eeprom EXCEPT ![a] = Saved(variables, a)]
      /\ variables' = variables /\ Advance(SettingsLength)
      BY SettingsSizes DEF SettingsInv, SaveSettings, Saved
<1>2. CASE a # SettingsLength
      BY <1>1, <1>2 DEF Advance
<1>3. CASE a = SettingsLength
      <2>1. settled' = eeprom'
            BY <1>1, <1>3 DEF Advance
      <2>2. ASSUME NEW i \in 0 .. SettingsLength PROVE eeprom'[i] = Saved(variables, i)
            <3>1. i \in Addresses
                  BY SettingsSizes DEF Addresses
            <3>2. eeprom[i] = IF i < a THEN Saved(variables, i) ELSE settled[i]
                  BY <1>1, <3>1 DEF SettingsInv
            <3>3. eeprom'[i] = IF i = a THEN Saved(variables, i) ELSE eeprom[i]
                  BY <1>1, <3>1 DEF SettingsInv
            <3>4. i < a \/ i = a
                  BY <1>1, <1>3, SettingsSizes
            <3> QED BY <3>2, <3>3, <3>4
      <2>3. settled'[0] = EEPROM_MAGIC_WORD
            BY <2>1, <2>2, SettingsSizes DEF Saved
      <2>4. \A n \in 1 .. SettingsLength : settled'[n] = Flat(variables)[n]
            BY <2>1, <2>2, SettingsSizes DEF Saved
      <2>5. Flat(variables) \in [1 .. SettingsLength -> Cell]
            BY FlatIs DEF SettingsInv
      <2>6. StoredIn(settled)' = [valid |-> TRUE, bytes |-> Flat(variables)]
            BY <2>3, <2>4, <2>5 DEF StoredIn
      <2>7. Flat(variables)' = Flat(variables)
            BY <1>1 DEF Flat
      <2> QED BY <2>6, <2>7 DEF Store!Save
<1> QED BY <1>2, <1>3

\* Only the last byte of an erase is a step of the store.
LEMMA StoreErases ==
    ASSUME SettingsInv, EraseSettings
    PROVE  Store!Erase \/ UNCHANGED <<variables, settled>>
<1> DEFINE a == operation.address
<1>1. /\ operation.name = "clear" /\ a \in Addresses /\ a \in Nat
      /\ eeprom' = [eeprom EXCEPT ![a] = 0]
      /\ variables' = variables /\ Advance(EepromLength - 1)
      BY SettingsSizes DEF SettingsInv, EraseSettings
<1>2. CASE a # EepromLength - 1
      BY <1>1, <1>2 DEF Advance
<1>3. CASE a = EepromLength - 1
      <2>1. settled' = eeprom'
            BY <1>1, <1>3 DEF Advance
      <2>2. ASSUME NEW i \in Addresses PROVE eeprom'[i] = 0
            <3>1. eeprom[i] = IF i < a THEN 0 ELSE settled[i]
                  BY <1>1 DEF SettingsInv
            <3>2. eeprom'[i] = IF i = a THEN 0 ELSE eeprom[i]
                  BY <1>1 DEF SettingsInv
            <3>3. i < a \/ i = a
                  BY <1>1, <1>3, SettingsSizes DEF Addresses
            <3> QED BY <3>1, <3>2, <3>3
      <2>3. settled'[0] = 0 /\ \A n \in 1 .. SettingsLength : settled'[n] = 0
            BY <2>1, <2>2, SettingsSizes
      <2>4. StoredIn(settled)' = [valid |-> FALSE, bytes |-> Store!Zeros]
            <3>1. StoredIn(settled') = [valid |-> FALSE, bytes |-> [n \in 1 .. SettingsLength |-> settled'[n]]]
                  BY <2>3, NotValid DEF EEPROM_MAGIC_WORD
            <3>2. StoredIn(settled)' = StoredIn(settled')
                  BY DEF StoredIn
            <3> QED BY <2>3, <3>1, <3>2 DEF Store!Zeros
      <2>5. Flat(variables)' = Flat(variables)
            BY <1>1 DEF Flat
      <2> QED BY <2>4, <2>5 DEF Store!Erase
<1> QED BY <1>2, <1>3

\* Setup finds what is stored in the cells.
LEMMA StoreFinds ==
    ASSUME SettingsInv, PowerCut
    PROVE  Flat(variables)' = Store!Found(StoredIn(eeprom)) /\ settled' = eeprom
<1>1. variables' = RetrieveSettings(eeprom) /\ settled' = eeprom /\ eeprom \in [Addresses -> Cell]
      BY DEF PowerCut, SettingsInv
<1>2. Flat(variables)' = Flat(RetrieveSettings(eeprom))
      BY <1>1 DEF Flat
<1>3. CASE eeprom[0] = EEPROM_MAGIC_WORD
      BY <1>1, <1>2, <1>3, RetrievedIs DEF Store!Found, StoredIn
<1>4. CASE eeprom[0] # EEPROM_MAGIC_WORD
      BY <1>1, <1>2, <1>4, RetrievedIs DEF Store!Found, StoredIn
<1> QED BY <1>1, <1>3, <1>4

\* A power cut tears the save or the erase it interrupts, and restarts the others.
LEMMA StoreRestarts ==
    ASSUME SettingsInv, PowerCut
    PROVE  \/ Store!Restart
           \/ \E n \in 0 .. SettingsLength :
                 Store!TornSave(n) \/ Store!TornErase(n) \/ Store!TornFirstSave(n)
<1> DEFINE a == operation.address
<1>1. /\ a \in Addresses /\ a \in Nat /\ a < EepromLength /\ EepromLength \in Nat
      /\ SettingsLength \in Nat /\ 0 \in Addresses
      /\ \A n \in 1 .. SettingsLength : n \in Addresses
      BY SettingsSizes DEF SettingsInv, Addresses
<1>2. Flat(variables)' = Store!Found(StoredIn(eeprom)) /\ StoredIn(settled)' = StoredIn(eeprom)
      <2>1. Flat(variables)' = Store!Found(StoredIn(eeprom)) /\ settled' = eeprom
            BY StoreFinds
      <2> QED BY <2>1 DEF StoredIn
<1>3. ASSUME eeprom = settled PROVE Store!Restart
      BY <1>2, <1>3 DEF Store!Restart
<1>4. ASSUME operation.name # "none", a = 0 PROVE eeprom = settled
      <2>1. operation.name \in {"save", "clear"}
            BY <1>4 DEF SettingsInv
      <2>2. \A i \in Addresses : eeprom[i] = settled[i]
            BY <1>4, <2>1, SettingsSizes DEF SettingsInv
      <2> QED BY <2>2 DEF SettingsInv
<1>5. ASSUME operation.name = "save", a # 0
      PROVE  /\ a - 1 \in 0 .. SettingsLength
             /\ Store!TornSave(a - 1) \/ Store!TornFirstSave(a - 1)
      <2>1. a - 1 \in 0 .. SettingsLength
            BY <1>1, <1>5 DEF SettingsInv
      <2>2. eeprom[0] = EEPROM_MAGIC_WORD
            BY <1>1, <1>5 DEF SettingsInv, Saved
      <2>3. ASSUME NEW n \in 1 .. SettingsLength
            PROVE  eeprom[n] = IF n <= a - 1 THEN Flat(variables)[n] ELSE settled[n]
            BY <1>1, <1>5 DEF SettingsInv, Saved
      <2>4. StoredIn(eeprom) = [valid |-> TRUE, bytes |-> Store!Spliced(a - 1, Flat(variables), StoredIn(settled).bytes)]
            BY <2>2, <2>3 DEF StoredIn, Store!Spliced
      <2>5. CASE StoredIn(settled).valid
            BY <1>2, <2>1, <2>4, <2>5 DEF Store!TornSave
      <2>6. CASE ~StoredIn(settled).valid
            BY <1>2, <2>1, <2>4, <2>6 DEF Store!TornFirstSave
      <2> QED BY <2>1, <2>5, <2>6
<1>6. ASSUME operation.name = "clear", a # 0
      PROVE  \E n \in 0 .. SettingsLength : Store!TornErase(n)
      <2> DEFINE m == IF a - 1 <= SettingsLength THEN a - 1 ELSE SettingsLength
      <2>1. m \in 0 .. SettingsLength
            BY <1>1, <1>6
      <2>2. eeprom[0] = 0
            BY <1>1, <1>6 DEF SettingsInv
      <2>3. ASSUME NEW n \in 1 .. SettingsLength
            PROVE  eeprom[n] = IF n <= m THEN 0 ELSE settled[n]
            BY <1>1, <1>6 DEF SettingsInv
      <2> HIDE DEF m
      <2>4. StoredIn(eeprom) = [valid |-> FALSE, bytes |-> Store!Spliced(m, Store!Zeros, StoredIn(settled).bytes)]
            <3>1. StoredIn(eeprom) = [valid |-> FALSE, bytes |-> [n \in 1 .. SettingsLength |-> eeprom[n]]]
                  BY <2>2, NotValid DEF EEPROM_MAGIC_WORD
            <3>2. \A n \in 1 .. SettingsLength : StoredIn(settled).bytes[n] = settled[n]
                  BY DEF StoredIn
            <3> QED BY <2>3, <3>1, <3>2 DEF Store!Spliced, Store!Zeros
      <2> QED BY <1>2, <2>1, <2>4 DEF Store!TornErase
<1> QED BY <1>3, <1>4, <1>5, <1>6 DEF SettingsInv

LEMMA StoreSteps ==
    ASSUME SettingsInv, [SettingsNext]_settings_vars
    PROVE  [Store!StoreNext \/ \E n \in 0 .. SettingsLength : Store!TornFirstSave(n)]_(Store!store_vars)
<1>1. UNCHANGED <<variables, settled>> => UNCHANGED Store!store_vars
      BY DEF Store!store_vars, Flat, StoredIn
<1>2. CASE UNCHANGED settings_vars
      BY <1>1, <1>2 DEF settings_vars
<1>3. ASSUME NEW name \in {"save", "clear"}, UiCalls(name) PROVE UNCHANGED <<variables, settled>>
      BY <1>3 DEF UiCalls
<1> QED BY <1>1, <1>2, <1>3, StoreChanges, StoreSaves, StoreErases, StoreRestarts
        DEF SettingsNext, Store!StoreNext

\* A restart finds the settings of the last completed save, or the defaults after an erase;
\* where the power cuts short a save over other settings, a prefix of the new ones in front
\* of the old ones, every byte in its own variable; a first save that is cut short is the
\* exception: save_settings, erase_settings, retrieve_settings.
THEOREM SettingsAreKept == SettingsSpec => KeepsSettings
<1>1. SettingsSpec => []SettingsInv
      BY SettingsInitHolds, SettingsStepKeeps, PTL DEF SettingsSpec
<1>2. SettingsInv /\ [SettingsNext]_settings_vars =>
          [Store!StoreNext \/ \E n \in 0 .. SettingsLength : Store!TornFirstSave(n)]_(Store!store_vars)
      BY StoreSteps
<1> QED BY <1>1, <1>2, StoreStarts, PTL DEF SettingsSpec, KeepsSettings, Store!StoreSpecButFirst
=============================================================================
