-------------------------- MODULE HeartbeatMonitor --------------------------
(* status-error-callbacks.ino: the application counts the UI's heartbeats in   *)
(* its interface callback and holds their age against a limit in the main      *)
(* loop.  millis() wraps; one pass of the loop may handle several heartbeats   *)
(* that waited in the receive buffer.                                          *)
EXTENDS Integers

CONSTANTS
    HEARTBEAT_EXPECTED_MS,  \* in ticks
    BeatClockSize,          \* values of millis(), a uint32_t
    BeatMaxLate,            \* bound: ticks between two passes of the loop
    MinResults              \* what min(count++, 20) leaves in count, as an amount added

ASSUME BeatAssumption ==
    /\ HEARTBEAT_EXPECTED_MS \in Nat \ {0} /\ BeatMaxLate \in Nat
    /\ BeatClockSize \in Nat /\ HEARTBEAT_EXPECTED_MS + BeatMaxLate < BeatClockSize
    /\ MinResults \subseteq Nat

VARIABLES
    heartbeat_ok_count,
    last_heartbeat,
    connection_ok,      \* what is_connection_ok returned last
    min_adds,           \* the amount min(count++, 20) adds in this build
    beats_waiting,      \* heartbeats received and not yet handled
    beat_arrived,       \* one was received in this tick: a frame takes time on the line
    beat_now,           \* millis()
    beat_late,          \* ticks since the last pass of the loop
    beat_age,           \* history: ticks since a heartbeat was handled
    beat_streak         \* history: the first heartbeat after a silence and those in time

beat_vars == <<heartbeat_ok_count, last_heartbeat, connection_ok, min_adds,
               beats_waiting, beat_arrived, beat_now, beat_late, beat_age, beat_streak>>

CountLimit == 20

\* history stops counting past what the properties tell apart
AgeCap    == HEARTBEAT_EXPECTED_MS + BeatMaxLate + 1
StreakCap == 4

Capped(n, cap) == IF n < cap THEN n ELSE cap

BeatInit ==
    /\ heartbeat_ok_count = 0 /\ last_heartbeat = 0 /\ connection_ok = FALSE
    /\ min_adds \in MinResults
    /\ beats_waiting = 0 /\ beat_arrived = FALSE /\ beat_now = 0 /\ beat_late = 0
    /\ beat_age = AgeCap /\ beat_streak = 0

\* a slip in the next definition: the operands are swapped
SinceSwapped == (last_heartbeat - beat_now) % BeatClockSize

\* millis() - last_heartbeat
SinceHeartbeat == (beat_now - last_heartbeat) % BeatClockSize

\* a heartbeat reaches the receive buffer
BeatArrives ==
    /\ ~beat_arrived /\ beat_arrived' = TRUE
    /\ beats_waiting' = beats_waiting + 1
    /\ UNCHANGED <<heartbeat_ok_count, last_heartbeat, connection_ok, min_adds,
                   beat_now, beat_late, beat_age, beat_streak>>

BeatTick ==
    /\ beat_late < BeatMaxLate
    /\ beat_late' = beat_late + 1
    /\ beat_arrived' = FALSE
    /\ beat_now' = (beat_now + 1) % BeatClockSize
    /\ beat_age' = Capped(beat_age + 1, AgeCap)
    /\ UNCHANGED <<heartbeat_ok_count, last_heartbeat, connection_ok, min_adds,
                   beats_waiting, beat_streak>>

\* heartbeat_ok_count = min(heartbeat_ok_count++, 20)
CountedBeat == IF heartbeat_ok_count < CountLimit THEN heartbeat_ok_count + min_adds
                                                 ELSE CountLimit

\* eui_callback( EUI_CB_TRACKED ) on a heartbeat, from serial_rx_handler
EuiCallback ==
    /\ beats_waiting > 0
    /\ beats_waiting' = beats_waiting - 1
    /\ heartbeat_ok_count' = IF SinceHeartbeat < HEARTBEAT_EXPECTED_MS
                             THEN CountedBeat ELSE heartbeat_ok_count
    /\ last_heartbeat' = beat_now
    /\ beat_streak' = IF beat_age < HEARTBEAT_EXPECTED_MS THEN Capped(beat_streak + 1, StreakCap)
                      ELSE IF beat_age < AgeCap THEN beat_streak ELSE 1
    /\ beat_age' = 0
    /\ UNCHANGED <<connection_ok, min_adds, beat_arrived, beat_now, beat_late>>

\* a slip in the next definition: the count is left alone
IsConnectionOkNoReset ==
    /\ beats_waiting = 0
    /\ connection_ok' = (heartbeat_ok_count > 3)
    /\ beat_late' = 0
    /\ UNCHANGED <<heartbeat_ok_count, last_heartbeat, min_adds, beats_waiting,
                   beat_arrived, beat_now, beat_age, beat_streak>>

\* is_connection_ok, once the receive buffer is empty
IsConnectionOk ==
    /\ beats_waiting = 0
    /\ heartbeat_ok_count' = IF SinceHeartbeat > HEARTBEAT_EXPECTED_MS
                             THEN 0 ELSE heartbeat_ok_count
    /\ connection_ok' = (heartbeat_ok_count' > 3)
    /\ beat_late' = 0
    /\ UNCHANGED <<last_heartbeat, min_adds, beats_waiting,
                   beat_arrived, beat_now, beat_age, beat_streak>>

BeatNext == BeatArrives \/ BeatTick \/ EuiCallback \/ IsConnectionOk

\* the main loop keeps running and time passes; a peer need not send
BeatFairness ==
    WF_beat_vars(EuiCallback) /\ WF_beat_vars(IsConnectionOk) /\ WF_beat_vars(BeatTick)

BeatSpec == BeatInit /\ [][BeatNext]_beat_vars /\ BeatFairness

-----------------------------------------------------------------------------
(* Properties *)

\* A connection is found to be good only while the last heartbeat is in time, and where
\* min counts one at most only after more than three of them: the first one after a
\* silence that outlasts the limit and a pass of the loop, and others that each came less
\* than the limit after the one before it.  So the count never outlives the peer, also
\* when millis() wraps, when the board has just started, or when beats were held up.
BeatOkIsAlive ==
    [][ IsConnectionOk /\ connection_ok' =>
            /\ beat_age <= HEARTBEAT_EXPECTED_MS
            /\ min_adds <= 1 => beat_streak > 3 ]_beat_vars

\* The check settles with the peer: one that falls silent for good is noticed for good,
\* and one whose heartbeats come in time from some moment on is found to be there, however
\* late the first one was, where min leaves the count incremented.
BeatSettles ==
    /\ <>[](beat_age = AgeCap) => <>[](~connection_ok)
    /\ <>[](beat_age < HEARTBEAT_EXPECTED_MS /\ min_adds > 0) => <>[]connection_ok
=============================================================================
