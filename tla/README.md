# Verification of electricui-embedded

TLA+ models of the Electric UI device library (`src/src`): a C library without
an operating system, threads or allocation that exposes a device's variables to a
remote UI over byte streams. TLC checks the models on small instances, TLAPS proves
the theorems listed below for every value of their constants.

## 1. The system

### Components, state and operations

| Component | Source | State | Operations |
|---|---|---|---|
| Decoder | `transports/eui_binary_transport.c`, `eui_transport_types.h` | one `eui_packet_t` per interface: parser state, counters in bitfields, header, identifier, offset, running checksum, payload | `decode_packet` (COBS countdown, checksum, reset on 0x00), `parse_decoded_packet` (one case per state) |
| Encoder | `transports/eui_binary_transport.c` | none between calls | `encode_packet`, `encode_packet_simple`, `encode_header`, `encode_framing` (COBS in place) |
| Utilities | `eui_utilities.c` | none | `crc16`, `validate_offset_range` |
| Packet handlers | `electricui.c` | the variables of library and application | `eui_parse`, `handle_packet_action`, `_ack`, `_query`, `find_message_object` |
| Senders | `electricui.c` | none | `eui_send`, `eui_send_range`, `eui_send_[un]tracked[_on]`, the handshake `announce_dev_msg`, `send_tracked_message_id_list`, `send_tracked_variables` |
| Setup | `electricui.c` | registered interfaces, `p_interface_last`, tracked array and its count, `board_identifier` | `eui_setup_interfaces`, `eui_setup_tracked`, `eui_setup_identifier` |
| Garage door | `examples/demonstrations/garage-door` | controller state, the UI's request, motor, switches, position | a pass of `loop`: mechanism, then controller |
| Persistence | `examples/basics/persistence-eeprom` | tracked variables, EEPROM | `save_settings`, `erase_settings`, `retrieve_settings` |
| Fan | `examples/demonstrations/fan-controller` | state of the fan, timer, curve, sensor | a pass of `loop`: sensor, speed, `fan_control` |
| Heartbeats | `examples/basics/status-error-callbacks` | last heartbeat and their count | `eui_callback`, `is_connection_ok` |
| Battery | `examples/demonstrations/battery-status` | voltage, percentage, charger, plug, load | a pass of `loop`, `eui_callback` on an untracked message |
| Types, macros, configuration | `eui_types.h`, `eui_macro.h`, `eui_config.h` | - | enumerations, bitfield widths, declaration macros |

### How they interact

The application's main loop polls bytes of each link and calls `eui_parse(byte, link)`
("do not invoke this function from an interrupt", `electricui.h:74`). A byte that
completes a packet makes its link the default interface (`p_interface_last`), looks the
identifier up in the internal or the tracked array, runs a callback or stores the
payload, sends an acknowledgement, answers a query, notifies the application through
`interface_cb`, and clears the parser. Answers go straight to the `output_cb` of the
link, except those of the two handshake callbacks, which go through `auto_output` and so
through `p_interface_last`. Between two bytes the application may send variables, set
up interfaces or tracked objects again, and store values itself. The peer at the other
end of a link is the UI; the encoder and decoder here are also what the tests use for
both ends.

### What is hard

* The parser is a byte machine with five counters in bitfields; a 0x00 resets only some
  of them. What a broken frame leaves behind meets the next frame.
* Lines lose bytes.
* Bytes of several links interleave with each other and with the application's calls.
* Boundaries: 4 bit identifier lengths, 10 bit payload lengths, 8 bit indices, 255 byte
  COBS blocks, 16 bit addresses that are aligned and counted down, three buffers.
* One packet may write, ask for an acknowledgement and query at once, in this order.

* The application's callbacks run inside `eui_parse`: they store and send before the
  acknowledgement of their packet goes out and before its query is answered.
* The sketches react in their main loop to variables the UI writes between any two passes,
  with a `millis()` that wraps, passes that come late and a power supply that may fail
  between two bytes of a save.

There is no persistence, no timer and no retry in the library itself: a restart is its
initial state. The sketches have them. `PROJECT.json` lists every hazard at
its line with the properties that cover it.

### What makes each component correct

| Component | Properties |
|---|---|
| Decoder on its own | the identifier is terminated inside its buffer (`IdTerminated`), a frame that begins with a cleared count stores inside `data_in` (`StoresInside`) and hands over its own payload (`PayloadArrived`), it finds back to the frames (`Resynchronises`) |
| Encoder and decoder | framing is inverted (`RoundTrip`, `ZeroOnlyDelimits`), packets arrive unchanged (`IsReliableChannel`), none is made up (`PacketsAreGenuine`), a loss costs no later frame that meets a parser in step, and no frame takes it out of step (`WholeFramesAreHeard`), the next frame meets a clean parser (`CleanBetweenFrames`) |
| Ranges | `SlicesAbut`, `LoopSendsSlices`, `SendsWhatItAnnounces`, `AnnouncedInBounds`, `Returns` |
| Handlers and callbacks | `AnswersOnRequestLink`, `AckedMeansDone`, `FailureChangesNothing`, `StatusIsTrue`, `QueryIsCurrent`, `OnlyAddressedBytes` |
| Handshake | `HandshakeListsAll`, `FitsBuffers`, `HandshakeSendsValues` |
| Whole device | `ServedOnceInOrder`, `ImplementsElectricUI`, `DefaultFollowsPackets` |
| Garage door | `DoorStaysInTravel`, `DoorReportIsTrue`, `DoorObeys` |
| Persistence | `KeepsSettings`: the sketch implements `SettingsStore`, but for a first save that is cut short |
| Fan | `FanTimersHold`, `FanFollowsCurve` |
| Heartbeats | `BeatOkIsAlive`, `BeatSettles` |
| Battery | `NeverOvercharged`, `ChargesInCycles` |

## 2. The modules

```
EuiTypes            enumerations and bitfield widths
  EuiUtilities      crc16, validate_offset_range
    BinaryTransport encoder and decoder as operators
      LinkMessages  packets before encoding and after decoding, one call of eui_parse on the parser
        Receiver      one parser, any bytes               (ReceiverProofs)
        SerialLink    sender, lossless line, receiver; implements PacketChannel   (LinkProofs)
        LinkRecovery  a peer that repeats itself, a line that fails finitely often   (RecoveryProofs)
        ElectricUI    handlers, callbacks and application calls, a packet a step
                      (with OffsetSlices)                 (ElectricUIProofs)
          Device      two parsers fed byte by byte, ElectricUI behind them   (DeviceProofs)
      CobsFraming   encode_framing one iteration a step, then the countdown  (LinkProofs)
      OffsetSlices  what eui_send_range sends, in closed form
        SendRange   the loop itself, a packet a step        (LoopProofs)
FindObject          the loop of find_message_object         (LoopProofs)

GarageDoor          garage-door.ino                         (SketchProofs)
PersistentSettings  persistence-eeprom.ino; implements SettingsStore   (SketchProofs)
FanController       fan-controller.ino                      (SketchProofs)
HeartbeatMonitor    status-error-callbacks.ino              (SketchProofs)
BatteryStatus       battery-status.ino                      (SketchProofs)
  MCParts           one of them on a board, or one of the loops above, at a time

TransportProofs     lemmas: recursion, sequences put together from sequences, widths,
                    framing, the bytes of a frame, the parser on each of them
  ReceiverProofs, LinkProofs, RecoveryProofs, LoopProofs, SketchProofs,
  ElectricUIProofs (and on it DeviceProofs)
```

Three refinements are checked, and proved but for the liveness of the first, each with the abstract specification as a property of the
detailed one: `SerialLink` implements `PacketChannel` (a queue that loses nothing, with
its liveness), `Device` implements `ElectricUI` (every packet handled in one step),
`PersistentSettings` implements `SettingsStore` (saving and erasing in one step, or torn by
a power cut: `StoreSpec` is what is promised, `StoreSpecButFirst` what is kept). The `MC*` modules give the constants small values for TLC.

### Correspondence with the code

* **BinaryTransport.** `Packet` is `eui_packet_t`, every field a set of the width of its
  bitfield; a store is reduced modulo that width (`id_bytes_in` modulo 16,
  `data_bytes_in` modulo 1024). `DecodePacket` is `decode_packet` and `Exp...` are the
  cases of `parse_decoded_packet`, one each. A payload byte past `data_in` leaves the
  packet's own fields as they were, and what it overwrites behind the packet is not
  modelled: `Receiver` says when such a store happens (`StoreIsInside`). `FramingStep` is an
  iteration of `encode_framing`. Buffers are sequences; the checksum is computed, not
  abstracted, because what a corrupted packet looks like to the receiver depends on it.
* **LinkMessages.** `ParseByte` is what `eui_parse` does to the packet of its interface:
  decode, hand over when complete, clear unless idle. `Sendable` says which packets a
  peer of the same configuration sends.
* **SerialLink, LinkRecovery.** The line is external: `Arrive` starts the next frame of a
  line that loses nothing; in `LinkRecovery` the frames come one after the other and
  `LoseBytes` takes a run of bytes of the one arriving. A transport that drops, repeats or
  reorders whole frames needs no action of its own: `Send` takes any sequence of messages,
  and `CleanBetweenFrames` says that a frame does not depend on the ones before it.
* **Receiver.** Two history variables, which no action reads, tell a frame from the ones
  before it: `leftover` is `data_bytes_in` where the frame began, `arrived` the payload bytes
  it has brought.
* **ElectricUI.** One call of the library is one step, which is what the main loop makes
  of it. `call` records the last call with the packets it wrote (as messages with the
  link they went to), the callbacks it ran, the code given to `interface_cb` and its
  status. A callback of the application is what it does (`Functions`): it stores values and
  sends tracked variables by name on `auto_output`, all in the step of the packet that
  called it and before its acknowledgement. `Reports` is what an `interface_cb` sends, as
  `report_error` of `status-error-callbacks.ino` does. A handler's case analysis is a
  `CASE` or conjuncts in the order of the C code; reads of the uninitialised status are a
  choice from `Garbage`. A variable is a name with a few bytes. `Sum` adds two `uint16_t` as
  an `int` of `IntBits` bits does: with 16 (the AVR boards of `test/arduino-example-test.sh`)
  the sum wraps. What `memcpy` then stores outside the variable is told by `behind`, the
  positions it wrote, and not followed further. `handle_packet_action` tests
  `parser.data_bytes_in`, which a broken frame may have left above 0 although the packet has
  no payload: `Counts` takes both outcomes, and `Device` the parser's own count.
* **Device.** `Poll` is one call of `eui_parse` on the next byte of a link: it takes the
  step of ElectricUI when the byte completes or fails a packet and none otherwise. The
  theorem checked is `DeviceSpec => Spec` of ElectricUI with the shared variables.
* **SendRange, FindObject, CobsFraming** open up loops that the other modules take as
  one value: `LoopSendsSlices` ties `SendRange` to the closed form ElectricUI uses,
  `FirstMatch` ties `FindObject` to `FindMessageObject`, `FramingStep` is shared.
* **The sketches.** One pass of `loop` after the bytes were polled is one step; what the UI
  writes is a step between two passes, as the bytes are polled at the start of a pass. What
  the UI may write is what the tracked array declares writable. `millis()` is a counter
  that wraps and advances by ticks between passes, at most `MaxLate` of them. A save or an
  erase is one step for each byte, because the power may fail between two; no byte is
  polled meanwhile. History variables (`settled`, `fan_waited`, `beat_age`, `beat_streak`)
  are read by properties only, and so are `arriving` and `intact` of `LinkRecovery`.
  `min(heartbeat_ok_count++, 20)` leaves the count incremented by an amount that depends on how the build expands `min`: `MinResults`.

Definitions named as a slip (`ParseByteKeepsHandled`, `SendSliceShorter`, ...) are used by no
specification. Each is a plausible mistake in the definition below it and violates the
property it is listed with in `PROJECT.json`; they show that the properties can fail.

## 3. The runs

| Run | Module | Bounds | Shows |
|---|---|---|---|
| `link_lossless` | MCSerialLink | 2 of 13 messages in a row | the link implements `PacketChannel`, liveness included, for every header field at its ends, 15 character identifiers, offsets up to 259 and zeros anywhere; nothing of a frame is left after it |
| `link_lossy` | MCLinkRecovery | endless heartbeats, 2 writes in between, 2 losses of any length | no packet is made up, a frame that meets a parser in step is heard and leaves it in step, and the parser recovers |
| `receiver` | Receiver | 48 bytes of {0, 255} and right checksums, payload 2 | the identifier of an accepted packet for any byte stream; its payload, and the stores into `data_in`, for every frame that begins with `data_bytes_in` at 0 |
| `device_calls` | MCElectricUI | 2 links, one without output; 3 arrays of tracked objects, 28 packets, one of them at offset 65535, `int` of 32 bits, a callback that stores and sends, payload 44 | handlers, callbacks and handshake |
| `device_links` | MCDevice | 2 links, two packets on one and one on the other, any number of frames with a wrong checksum before each | interleaving, and the order of the packets of a link |
| `parts` | MCParts | eight parts, one at a time. Stuffing: all zero patterns up to 6 bytes, runs up to 254. Ranges: payload 304, bases and ends around one and two payloads and at the end of the width, 5 types, variables from one element to two payloads. Search: 254 objects, 8 bit index. Sketches: the door's own travel, 2 saved variables, 3 bytes together, clocks of 5 ticks, 3 curves, 3 loads | the loops compute what the other modules take in one step, and end; the door tells the truth and obeys, settings survive power cuts but for that of a first save, the fan keeps its times and follows its curve, silence is noticed, the charger runs between its thresholds |

Why these bounds are enough. The parser's memory across frames is its counters and
buffers: three frames and two faults reach a fault in the first, its leftovers in the
second and their effect in the third, and in `link_lossy` there is no end of frames;
without losses two frames show whether the second depends on the first. Payload sizes of 2 to 8 bytes keep every relation to the length of
variables and frames (below, equal, above, several slices). In `receiver` 255 as a header
byte announces the longest identifier and payload and 0 the shortest, and 48 bytes hold two
such packets. `bug_payload_overrun` adds the byte 2, a short payload. A range over almost the
whole width takes 216 slices of 304 bytes; of these longest ones `parts` has a few for each
type, and `LoopProofs` all. In `device_calls` PAYLOAD_SIZE_MAX = 44 is the smallest value for which the
longest list of the handshake fits, the array is two bytes larger than that, and
`ListedArray` makes a list of exactly 64 bytes and one that a terminator would not fit
into. In `parts` a limit, the lateness of a pass and the wrap of the clock are a few
ticks apart, so that every order of them occurs; the door and the battery have the numbers
of their sketches. The parts of this run share no state: `running` says which of them runs,
and the variables of the others keep their initial values; a loop that has ended stutters,
so that every part is checked for deadlock. A write of the value that is there changes
nothing and is no step. In the runs that stop (`CHECK_DEADLOCK FALSE`) the bound on messages
or bytes ends a behaviour; `device_*`, `link_lossy` and `parts` never stop and check deadlock.

### Where the code and its documentation differ

A run named `bug_*` checks one property that the documentation states, and TLC finds a
behaviour of the code against it.

| Run | What happens | Where |
|---|---|---|
| `bug_deaf` | a frame that lost its end leaves `id_bytes_in` behind; the next identifier ends early, the frame fails, and a peer that repeats the same query of a four byte identifier is never understood again | `eui_binary_transport.c:179` |
| `bug_long_frame` | a run of 255 bytes without a zero is garbled by the in-place insertion | `eui_binary_transport.c:83` |
| `bug_find_full` | with 255 objects the search that finds one starts over forever | `electricui.c:112` |
| `bug_payload_overrun` | after a frame that brought a full payload and lost its checksum the next one stores a byte behind `data_in` | `eui_binary_transport.c:292` |
| `bug_offset_wrap` | where `int` has 16 bits a packet at offset 65535 passes the bounds check and is stored outside the variable | `electricui.c:240` |
| `bug_torn_save` | the magic word "which indicates data is written" is the first byte written: a first save cut short is taken for settings | `persistence-eeprom.ino:120` |

The models follow the code in these points too, and the passing runs leave them out of
their inputs or their properties:

| What happens | Where | Left out by |
|---|---|---|
| the identifier after a broken frame is stored behind the leftovers, and the packet is accepted under another name | `eui_binary_transport.c:247` | `PacketsAreGenuine` compares headers, neither identifiers nor payloads |
| the payload after a broken frame is stored behind the leftovers in `data_in` and ends early: a packet whose checksum is right is handled with bytes of both | `eui_binary_transport.c:292` | `PayloadArrived` speaks of frames that begin with `data_bytes_in` at 0 (`leftover`) |
| offset flag and no payload: the decoder waits for payload, so the acknowledgement of a slice is not understood by this decoder | `eui_binary_transport.c:286` | no such message in `AllMessages` |
| `eui_send_range` announces the aligned range and sends the raw one | `electricui.c:399` | `SendsWhatItAnnounces` speaks of ranges `OfElements` |
| a handshake list of 64 bytes needs PAYLOAD_SIZE_MAX of 44 at least | `electricui.c:592` | payload of `device_calls` |
| an identifier of 16 characters is sent with length 0 | `electricui.c:387` | identifiers up to 15 characters |
| status bits are returned that were never assigned | `electricui.c:150` | `StatusIsTrue` speaks of the bits of handled packets; `Garbage` is what the stack held |
| a peer that mixes heartbeats and acknowledged writes after a loss can keep the parser out of step | `eui_binary_transport.c:179` | `Resynchronises` speaks of a peer of which only the regular message comes in the end (`MaxOccasional`) |
| the sketch reads the action and query bits of idle bytes, which are never assigned | `status-error-callbacks.ino:105` | the error texts are not modelled |
| the error handler looks the packet up after `eui_parse` cleared it | `status-error-callbacks.ino:116` | as above |
| a save over other settings that is cut short is taken for settings, new bytes in front of old ones | `persistence-eeprom.ino:120` | `SettingsStore` has `TornSave` |
| the identifier is set from a variable cast to a pointer | `persistence-eeprom.ino:66` | not modelled |
| a reading equal to the first row of the curve gives 95 % | `fan-controller.ino:248` | modelled by `FanSpeedAtTemp`, the fan runs |
| a curve below 19 % is taken for a stall, and the fan is stopped and started for ever | `fan-controller.ino:215` | `FanFollowsCurve` speaks of 19 % and more |
| a stall wins over a curve that turns the fan off | `fan-controller.ino:215` | `FanFollowsCurve` speaks of a rotor that turns |
| a voltage equal to the first row counts as empty | `battery-status.ino:169` | `NeverOvercharged`: it is not reached |
| the connection "is considered OK if more than 3 heartbeats have arrived within the threshold" (`:75`): where the macro `min` increments its argument twice, fewer are enough | `status-error-callbacks.ino:185` | `BeatOkIsAlive` asks for more than three where `min` adds one at most |
| a heartbeat that is late by no more than a pass does not count, but leaves the ones before it counted when the loop finds the new one in time | `status-error-callbacks.ino:182` | `BeatOkIsAlive` counts the heartbeats that were each in time, late ones between them left out |
| where `min` leaves the count as it was, a connection is never found good | `status-error-callbacks.ino:185` | `BeatSettles` speaks of builds that count |
| the loop waits for `Serial1` and reads from `Serial` | `esp32-ble.ino:160`, `bluefruit-bleuart.ino:168` | not modelled |
| a second identifier is hashed on top of the first | `electricui.c:535` | `MaxIdentified` = 1 |

### Fairness

`SerialLink`: weak fairness of `Arrive` and of polling: bytes on the line come in and the
main loop keeps polling; nobody has to send. `LinkRecovery`: polling, and the peer's
`SendRegular`: the UI repeats its heartbeat on a timer; no write and no loss has to happen.
The fairness of polling is stated of `Poll`, which removes a byte and says nothing of the
parser; the only step that does so is `EuiParse`, so it is the same fairness without
decoding the byte once more to see whether it is enabled. The sketches: every pass of
`loop` is followed by another, and time passes; no input of the UI, heartbeat or power cut
has to happen. In `MCParts` the fairness of a part holds where it runs.
`SendRange`, `FindObject`, `CobsFraming`: weak fairness of `Next`: a loop that can take an
iteration takes it. ElectricUI, Device and Receiver state safety only: the library never
has to act by itself.

## 4. The proofs

### Theorems

| Theorem | For every | Statement |
|---|---|---|
| `ReceiverProofs!TypeCorrect`, `IdentifierTerminated`, `PayloadComplete`, `PayloadInsideBuffer` | byte stream, PAYLOAD_SIZE_MAX in 1..1023 | `Spec => []TypeOK`, `[]IdTerminated`, `[]PayloadArrived`, `[]StoresInside` |
| `LinkProofs!FramingRestores`, `ZerosDelimit` | frames of any length, if none has 255 bytes in a row without a zero | `FramingSpec => []RoundTrip`, `[]ZeroOnlyDelimits` |
| `LinkProofs!DecoderIsClean` | set, number and order of `Deliverable` messages | `Spec => []CleanBetweenFrames` |
| `LinkProofs!LinkIsChannel` | as above | `Spec => Channel!Init /\ [][Channel!Next]_...`: the safety part of `IsReliableChannel` |
| `LinkProofs!SmallPayloadsArrive` | message a peer may send, PAYLOAD_SIZE_MAX up to 232 | it is `Deliverable`, unless it is a slice without bytes |
| `RecoveryProofs!LossesStayLocal`, `OnlyLossesDisturb` | set and order of `Deliverable` messages, losses of any length anywhere | `Spec => []WholeFramesAreHeard`, `RecoveryLasts` |
| `LoopProofs!TypeCorrect`, `SlicesFollow`, `LoopIsClosedForm`, `RangeArrives`, `RangeInBounds` | request, PAYLOAD_SIZE_MAX | `[]TypeOK`, `[]SlicesAbut`, `[]LoopSendsSlices`, `[]SendsWhatItAnnounces`, `[]AnnouncedInBounds` |
| `LoopProofs!SearchTypeCorrect`, `ReturnsFirstMatch` | index width, number of objects, positions | `SearchSpec => []SearchTypeOK`, `[]FirstMatch` |
| `LoopProofs!RangeProgresses` | request, PAYLOAD_SIZE_MAX | every step of `Spec` lowers the natural number `RangeLeft` |
| `LoopProofs!SearchProgresses` | index width, fewer objects than its limit | every step of `SearchSpec` lowers the natural number `SearchLeft` |
| `ElectricUIProofs!TypesHold`, `AnswersGoBack`, `StatusesAreTrue`, `QueriesAreCurrent`, `HandshakeTellsValues`, `HandshakeTellsNames` | variables, objects, callbacks, packets, links | `Spec => []TypeOK`, `[]AnswersOnRequestLink`, `[]StatusIsTrue`, `[]QueryIsCurrent`, `[]HandshakeSendsValues`, `[]HandshakeListsAll` |
| `ElectricUIProofs!BuffersSuffice` | as above, PAYLOAD_SIZE_MAX of 44 at least | `Spec => []FitsBuffers` |
| `ElectricUIProofs!FailuresAreWhole` | as above | `Spec => FailureChangesNothing` |
| `ElectricUIProofs!AcksAreTrue`, `OnlyAddressed` | as above, if `SumsHold`: `int` has 32 bits (`WideSums`), or no packet has an offset and a length whose sum wraps | `Spec => []AckedMeansDone`, `OnlyAddressedBytes` |
| `DeviceProofs!DeviceImplements` | as above, and interleaving of bytes and damaged frames | `DeviceSpec => ImplementsElectricUI` |
| `DeviceProofs!ServesInOrder`, `DefaultIsGenuine` | as above | `[]ServedOnceInOrder`, `DefaultFollowsPackets` |
| `DeviceProofs!DeviceKeepsPromises` | as above | the properties of `ElectricUI` other than `TypeOK`, of `DeviceSpec` (`FitsBuffers` with payloads of 44 bytes or more, `AckedMeansDone` and `OnlyAddressedBytes` if `SumsHold`) |
| `SketchProofs!StaysInTravel`, `ReportIsTrue` | travel inside the integer type | `[]DoorStaysInTravel`, `[]DoorReportIsTrue` |
| `SketchProofs!DoorArrives` | travel inside the integer type | a request left alone is carried out in at most travel + 11 passes of `DoorLoop`: `DoorLeft` counts them down |
| `SketchProofs!StallsAreReal` | curve, temperature, the noise of the sketch | a step from `ON` to `STALL_DETECT` has a stopped rotor or less than 19 percent before it |
| `SketchProofs!TimersHold` | limits, lateness, width of the clock | `FanSpec => FanTimersHold` |
| `SketchProofs!OkIsAlive` | limit, lateness, width of the clock, `MinResults` | `BeatSpec => BeatOkIsAlive` |
| `SketchProofs!StaysBelowFull` | loads | `[]NeverOvercharged` |
| `SketchProofs!SettingsAreKept` | tracked array, EEPROM, moment of a power cut | `SettingsSpec => KeepsSettings`, which excepts a first save that is cut short |

### The arguments

**Recursion.** The models define what a loop computes by a recursive function over `0 .. n`
(or use `FlattenSeq`, which is one). What such a function is at every `n` is shown without an
induction rule: `Recursion` puts a function together that satisfies the equations, so that
the `CHOOSE` behind the definition has a value, and the rest looks at the least number for
which a claim fails (`Least`, `Climbs`). `FlattenIs`, `CrcIs`, `EncodeFrames`, `PackedIs`
and `RebuiltIs` are such descriptions, and the proofs use them instead of the definitions.

**Framing.** `RoundTrip` speaks of the end only. `Framing` says where the loop is: behind
`previous_null` every byte is final, a zero replaced by the distance to the next one
(`Scanned`, one iteration is `ScanStep`); in front of it the buffer is untouched. The
countdown then holds the distance to the next zero (`ToNextZero`) and has produced the
prefix of the packet. A run of 255 bytes would need the insertion, which `bug_long_frame`
shows to be wrong: `NoLongRun` is a hypothesis of the two theorems, and `Deliverable` has it.

**The parser on a frame.** `Midway(m, t, packet)` is the state of the parser after `t` bytes
of the frame of `m`, field by field; `FrameByte` is its step: every byte but the last of the
checksum is idle, that one hands over `m` as it was sent, and the zero after it clears the
rest. The lemmas go state by state (`HeaderByte`, `IdByte`, `AddressByte`, `DataByte`,
`CheckByte`). `LinkInv` puts it between the queues: what was sent is what was delivered, the
message being parsed and the line, in this order.

**Losses.** In `LinkRecovery` the history variables `arriving` and `intact` tell the message
of the frame that comes in, and whether it met a parser between packets (`Between`: as
`memset` leaves it, or with the checksum reset by a 0x00) and lost no byte so far.
`RecoveryInv` says of such a frame that `t` bytes of it were polled, the rest is still to
come and `Midway` holds of the parser, or that it is over and was heard; of any other frame
it says nothing, whatever the parser holds. `FrameEnds` shows that a frame is over only
with its last byte, and leaves the parser between packets, so that the next frame is intact
too unless it loses a byte (`RecoveryLasts`, an action property that follows). Both hold of every
loss; that a parser out of step
gets between packets at all (`Resynchronises`) depends on what the peer sends, as
`bug_deaf` shows.

**Receiver.** `IdTerminated`, `PayloadArrived` and `StoresInside` speak of accepted packets and
of the next store, and say too little of the packet being parsed to be inductive. `IInv` adds
`Sound(packet)`: past the identifier `id_in[id_bytes_in]` is the terminator, in front of the
checksum enough bytes were counted, and every field is in its set. `FrameHistory` adds what
`data_in` holds: within a frame that began at 0 the count is the number of bytes that arrived,
they are the front of `data_in`, and there is room for the next one. Each parser state has a lemma that its case
preserves `Sound`; `DecodeSound` adds the 0x00 reset and the COBS countdown,
`ParseByteSound` the clearing of the packet.

**SendRange.** What is left to send ends where the last slice starts, and no slice starts
before the base. `Computed` adds how far the loop is: the `k`-th slice is the one of the
closed form, the bytes sent are those from `end_addr` on, and addresses stay multiples of
the element. `RangeLeft`, the announcement and the bytes above the base, falls with every
packet.

**FindObject.** While the index is a position, no object before it has the name, also after
it wrapped: a search that returns has returned the first match even in the case in which
it may fail to return. While the index has room for the exit (`SearchProgresses`) the number
of objects ahead falls in every iteration.

**ElectricUI.** Two invariants. `TypeInv`: every variable has as many bytes as it was
declared with, the tracked array is one the application has, what goes out are messages on
links that can send. `Truthful` and `Current` are about the last call, and are true after a
step whatever they were before: they rest on what the handlers compute. `HandledIs` splits
the packets of a call into those of the action, the acknowledgement, the answer and the
reports (`Parts`), with lemmas for each part: what is stored (`MemoryAfter`), on which link
it goes out, what it is about. `SlicesRebuild` and `RangeRebuilds` show that slices, sent
from the end to the base, overwrite a copy with the whole value; `ListRebuilds` that the
packets of other variables do not disturb it. A third invariant, `Told`, follows the
handshake's lists: `ListsPacked` goes down the tracked array with what is in the closed
lists and in the open one (`Packing`, `Filled`: no list could have taken the first
identifier of the next), `AnnounceIs` lays the packets of a call out as these lists and
their count, and `Ordinary` says that no other call sends packets that look like them, so
that a peer can tell them apart by their identifier alone.

**Device.** `DeviceInv` says of each link by itself (`At`) that it is between two frames or
within one: `t` bytes of a frame were polled, `Midway` holds of its parser, and the packets
served are the ones posted but for that one. A byte of one link leaves the others alone;
a step is therefore `EuiParseOk` or `EuiParseError` of ElectricUI, or none of its variables
changes (`Handles`). What was proved of ElectricUI holds of the device by this implementation.

**GarageDoor.** The motor carries out the state of the pass before, so neither property is
inductive. `DoorInv` bounds the position by the speed of the motor and the state of the
controller: a motor that still runs after its switch acted runs one pass longer. `DoorLeft`
counts the passes a request may still need; what falls in every pass is the way from where
the motor already takes the mechanism (`Ahead`), not from where it is.

**FanController, HeartbeatMonitor.** The code subtracts two readings of a clock that wraps;
the invariants (`FanInv`, `BeatInv`) say that the readings differ by the ticks that have
passed but for one wrap, while these are fewer than the clock has values, and that a timer
is looked at before it wraps or has long passed its limit. `FanDriven` ties the duty cycle,
and so the reading of the next pass, to the percentage of this one (`StallsAreReal`). `BeatInv` also bounds the count by
the run of heartbeats it was counted from.

**BatteryStatus.** The charger acts on the percentage of the pass before: `BatteryInv` ties
it to the voltage. `FullIsSeen` computes the topmost row of the table.

**PersistentSettings.** `SettingsInv`: while a save or an erase runs, the cells below its
address hold what it writes and the others what they held when it began. `RetrievedIs`
shows that restoring reads every variable back from the place where saving put it, so each
step of the sketch is a step of `SettingsStore` or none of it.

### Assumptions

They are those of the constants, which TLC evaluates in the runs. Most are C types and sizes
(`PayloadAssumption`, `RequestsAssumption`, `MemoryAssumption`, `ObjectsAssumption`,
`TrackedAssumption`, `FanAssumption`, ...). Four say more, and one is a hypothesis of single theorems:

* `DeliverableAssumption`, `MessagesAssumption`: the peers send messages that are
  `Deliverable` (`RecoveryProofs` has it as a hypothesis of its theorems). A slice without
  bytes is refused by the decoder, and a frame with 255 bytes in a row without a zero is garbled, as section 3 lists; `SmallPayloadsArrive` shows
  that with the default PAYLOAD_SIZE_MAX of 120 no frame can have such a run.
* `SumsHold`, a hypothesis of `AcksAreTrue` and `OnlyAddressed` and of their part of
  `DeviceKeepsPromises`: no sum of the bounds check wraps. `WideSums` proves it where `int`
  has 32 bits; `bug_offset_wrap` shows what happens without it.
* `InboundAssumption`: peers of the same configuration, whose range requests lie in a
  variable.
* `ObjectsAssumption`: identifiers are C strings, so no character of one is its terminator,
  and arrays have no more objects than the 8 bit `eui_variable_count_t` counts: the count of
  the handshake would be cut otherwise.
* `FunctionsAssumption`: a callback stores values of the size of its variables.

Writing the proofs made some statements more exact. `StatusIsTrue`, `QueryIsCurrent` and
`HandshakeSendsValues` speak of objects whose name no other object has that is sent during
the packet (`Unshared`): with two tracked objects of one name a peer cannot tell their
values apart. The last byte of a frame may be a code byte instead of a byte of the checksum
(when the checksum ends with a zero); nothing checks it, and a damaged one goes unnoticed,
so that `PostDamaged` damages checksums only. Frames that lose bytes are not damaged in
this sense: what they leave in the parser may cost or change the next packet, which
`LinkRecovery`, `Receiver`, `bug_deaf` and `bug_payload_overrun` are about, and `Device` is not.

The types of `Receiver` and `SendRange` are proved (`TypeCorrect`) and not checked by a run:
C keeps a bitfield in its width by itself, and `SlicesAbut` says what matters of the
addresses. `RangeInBounds` states three things of the announced range: that it is not empty,
ends inside the variable and is made of whole elements.

### Model-checked only

* Liveness: `IsReliableChannel`'s fairness, `Resynchronises`, `Returns`, `Terminates`,
  `DoorObeys`, `FanFollowsCurve`, `BeatSettles`, `ChargesInCycles`. The prover has no rule for
  `ENABLED`, and so none for weak fairness. Of `Returns` and `Terminates` all but the fairness
  is proved: no behaviour can take steps for ever (`RangeProgresses`, `SearchProgresses`). Of `DoorObeys` too all but the passes of the loop is
  proved, with a bound on their number (`DoorArrives`).
* `PacketsAreGenuine`: a packet made of what a loss left is kept out by a checksum of 16
  bits, which is true of the messages of the run and not of every set of messages. It is the
  only safety property of the runs that no theorem states.

`FitsBuffers` is proved where it is true: PAYLOAD_SIZE_MAX below 44 is a divergence listed in
section 3, and `device_calls` runs with 44.

## 5. Not modelled

* `EUI_CONF_OFFSETS_DISABLED`, `EUI_CONF_MANY_VARIABLES` (apart from the index width of
  `FindObject`) and `EUI_OVERRIDE_DEFAULT_PROTOCOL`: build variants.
* Calls of `eui_parse`, of the handshake or of the setup functions from inside an
  application's callback, and `eui_parse` from two tasks at once (`esp32-ble.ino`): the
  callbacks modelled store and send.
* Packets of a peer with a larger PAYLOAD_SIZE_MAX, and range requests beyond the end of
  a variable: `InboundAssumption` excludes them in ElectricUI; `SendRange` covers the
  addresses of the latter.
* Null pointers given to the API, formatting of values, the test and fuzzing harnesses, and
  the sketches that only carry bytes over a transport of their board (`esp32-websockets`,
  `esp32-ble`, `bluefruit-bleuart`, `multiple-interfaces`) or blink an LED.

## 6. Plan

Written in this order: types and codec, `Receiver` with its proofs, `SerialLink` and the
recovery of the parser, `CobsFraming`, the loops, `ElectricUI` with its callbacks, `Device`,
the sketches. Still to come:

1. A UI as the peer of the device: the handshake as a conversation over a lossy line, its
   requests repeated, and what the UI knows at the end.
2. Peers of another configuration (larger payloads) and the 16 bit count.
3. Proofs: from which leftovers of a broken frame the parser gets between packets again, and
   after how many frames of a peer that repeats itself.
