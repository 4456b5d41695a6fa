# TLA+ models of the LoRaWAN Class-A end-device MAC

This directory holds TLA+ models of the ns-3 `lorawan` module vendored under
`src/src/lorawan-0.3.5/model/`: the Class-A end-device MAC, its duty-cycle
admission control and its ADR back-off. Each model is checked with TLC.
`PROJECT.json` lists the components, the runs, the mutants, the map from every
definition to the source lines it models, the findings and the hazards.

## The system

An end device (`EndDeviceLorawanMac`, specialised by `ClassAEndDeviceLorawanMac`)
runs inside the ns-3 discrete-event simulator. It is single-threaded. Every
handler runs to completion, scheduled by `Simulator::Schedule` or called back by
the PHY. Events fire in timestamp order, and events with the same timestamp fire
in the order they were scheduled.

| Part | Source | State | Operations |
|---|---|---|---|
| Class-A state machine | `class-a-end-device-lorawan-mac.cc`, `end-device-lorawan-mac.cc` | `m_retxParams` (packet, waitingAck, retxLeft); the EventIds `m_nextTx`, `m_closeFirstWindow`, `m_closeSecondWindow`, `m_secondReceiveWindow`; the PHY state | `Send`, `PostponeTransmission`, `DoSend`, `SendToPhy`, `TxFinished`, `Open/CloseFirstReceiveWindow`, `Open/CloseSecondReceiveWindow`, `Receive`, `FailedReception`, `ParseCommands` |
| Admission control and channel plan | `logical-lora-channel-helper.cc`, `sub-band.cc`, `logical-lora-channel.cc` | channel array (16 slots, holes allowed); per-sub-band next transmission time | `GetWaitTime`, `AddEvent`, `GetTxPowerForChannel`, `GetSubBandFromFrequency`, `SetChannel`, `Enable/DisableForUplink`, `GetCompatibleTxChannels`, `GetRandomChannelForTx` |
| ADR back-off | `end-device-lorawan-mac.cc` | `m_adrAckCnt`, `m_adrAckReq`, data rate, power, `m_nbTrans` | the check in `Send`, `ExecuteADRBackoff`, the increment in `DoSend`, the reset in `Receive` |
| MAC command handlers | `end-device-lorawan-mac.cc`, `class-a-end-device-lorawan-mac.cc` | radio parameters, channel mask, `m_macCommandList` (answers) | `OnLinkAdrReq`, `OnDutyCycleReq`, `OnRxParamSetupReq`, `OnDevStatusReq`, `OnNewChannelReq`, `OnLinkCheckAns` |
| Frame codec | `lora-frame-header.cc`, `mac-command.cc` | FHDR fields, command list | `Serialize`, `Deserialize`, `AddCommand`, per-command (de)serialisers |
| Network-server components | `network-controller-components.cc` | per-device reply under construction | `ConfirmedMessagesComponent`, `LinkCheckComponent` |

These parts interact as follows:

1. **Send.** The application calls `Send`.
   - `Send` reports a still-unacknowledged previous packet as failed, sets `ADRACKReq`, and may run one back-off step.
   - It checks the payload size and whether any channel is compatible.
   - It then either postpones the transmission or calls `DoSend` at once.
2. **DoSend.** For a new packet, `DoSend` clears the answer list and resets the retransmission state. It calls `SendToPhy` and decrements `retxLeft`. For a new packet it also bumps `fCnt` and `adrAckCnt`.
3. **SendToPhy.** `SendToPhy` draws a channel with zero duty-cycle wait and registers the airtime with `AddEvent`.
4. **Receive windows.** The PHY's transmission-complete callback is `TxFinished`. It schedules RX1 after 1 s and RX2 after 2 s. A window close either sleeps the radio or, if the radio is receiving, leaves the outcome to `Receive` or `FailedReception`.
5. **Outcome.** `CloseSecondReceiveWindow`, `Receive` (a frame not for us) and `FailedReception` retransmit or give up. Which one acts depends on whether RX2 has already fired.
   - A downlink for us cancels RX2, resets `adrAckCnt` and parses the ACK and the MAC commands.
   - A success or failure is reported through the `RequiredTransmissions` trace: `txs = nbTrans - retxLeft`, as a `uint8_t`.

### Hard behaviours

- **Ordering of events.** Same-timestamp events can run in either order, and a postponed DoSend can tie with a window close.
- **Stale state.** The delay is computed in `Send` and used later by `DoSend`. It is a stale read of duty-cycle and window state.
- **Cancellation.** `ResetRetransmissionParameters` cancels `m_nextTx` whatever that event is for.
- **Narrow counters.** `uint8_t` counters and the 4-bit `FOptsLen` field can wrap or overflow.
- **Random values.** The ack timeout and the channel are random draws.

## Modules

| Module | Models | Notes |
|---|---|---|
| `LoRaRegion` | EU868 region tables (max MAC payload per DR, power index to dBm, default power) | Installed by `LorawanMacHelper`, which is not in `src/`; modelled from the spec. |
| `ChannelPlan` | `SubBand::Contains`, `GetSubBandFromFrequency`, `GetWaitTime`, `AddEvent`, `GetTxPowerForChannel`, channel records | Operators over the sub-band list and the next-transmission-time function. Frequencies are in 25 kHz steps above 868.0 MHz, time in 0.5 s units. |
| `MacCommands` | `OnLinkCheckAns`, `OnLinkAdrReq`, `OnDutyCycleReq`, `OnDevStatusReq`, `OnNewChannelReq`, `OnRxParamSetupReq` and the dispatch loop of `ParseCommands` | Each handler is an operator over the device's world record. A channel mask is the set of channel indices whose bit is set. An answer is kept as its type, its serialized size and its acknowledgement bits. The battery level and SNR margin of `DevStatusAns` are left out. |
| `FrameFormat` | the operators of the codec: byte order, CIDs, sizes, each command class's `Serialize`/`Deserialize` (one operator per class, dispatched by `CommandBody` and `DeserializeCommand`), the header's `Serialize`/`Deserialize` | Used by `FrameCodec` and `ServerComponents`. |
| `FrameCodec` | `LoraFrameHeader` (constructor, setters, `AddCommand` and the `Add*` helpers, `Serialize`, `Deserialize`, `GetSerializedSize`) and every `MacCommand` subclass's constructor, `Serialize` and `Deserialize`, with `GetCIDFromMacCommand` | State: the header under construction (`hdr`) and its direction (`direction`, `m_isUplink`: "unset" after the constructor, which leaves it uninitialized, then set once by `SetAsUplink`/`SetAsDownlink`, which every caller calls first). One action per setter and `AddCommand`, which grows the `uint8_t` `m_fOptsLen`. A buffer is a sequence of bytes, written and read least significant byte first as ns-3's `Buffer::Iterator` does. `Deserialize` is an operator: the command loop is RECURSIVE, keeps `byteNumber` as a `uint8_t`, and ends with `ok = FALSE` on an unknown CID (the code's null command) or a read past the buffer's end. `StripFrameHeader` is `Send`'s removal of the stored header on a retransmission, into a header whose `m_isUplink` is never set: `Deserialize` in either direction. |
| `MCFrameCodec` | the answers the device queues, the requests the server components and tests build | |
| `ServerComponents` | `ConfirmedMessagesComponent` and `LinkCheckComponent` (`network-controller-components.cc`) | State: `status->m_reply` (`reply`), the last uplink and its reception info (SF, gateway → received power). Each component hook is an operator over the reply. The uplink is the device's frame header serialized with `FrameFormat` and read back with `Deserialize`, as the components' `RemoveHeader` does. The network server that calls the hooks is not in this repository; the model drives them in the simplest order: reset the reply, every `OnReceivedPacket`, every `BeforeSendingReply`, then send the reply or call every `OnFailedReply`. The LinkCheckAns margin is computed in hundredths of a dB. |
| `UplinkPath` | a header built by the setters (`ApplyNecessaryOptions` on the device) and added to the packet in `DoSend`, handled by the server's components | Composes `FrameCodec` (extended) with `ServerComponents` (instantiated as `Server`, its variables redeclared). `Build` is a codec step before the uplink is sent. `Deliver` hands the uplink header, with either data MAC header type, to `Server!ReceivePacket`. `Serve` is the server's `HandleReply`. One uplink per behaviour. |
| `MCUplinkPath` | the header bounds of `MCFrameCodec`, two gateways, powers −130 and −90 dBm, SF7 and SF12 | |
| `AbstractUplink` | what `Send` promises the application per packet (spec 4.5, 4.5a) | Variables `submitted`, `sent`, `reports`; actions `Submit`, `Transmit`, `Report`. Only the last packet handed over is transmitted; it is reported at most once, after a transmission, with the transmissions it used, and never transmitted afterwards. `ClassAMac` instantiates it as `Uplink` with `submitted <- nextPkt - 1`, `sent <- txCount` and `reports` as is. |
| `ClassAMac` | the Class-A MAC with the ns-3 event queue and the PHY as environment | See below. |
| `MCClassAMac` | model values: the two EU868 sub-bands, the three default channels, optionally a fourth at 869.525 MHz or a free slot 3, the starting radio settings, and the MAC command lists downlinks carry | |

### How `ClassAMac` corresponds to the code

- **Variables.** The variables are the MAC's fields: `mac`, `retx`, `channels`, `nextTxTime`, the four EventIds in `handles` and `phy`. `events`, `now` and `nextId` are the simulator's queue, clock and event uid. History variables feed the properties:
  - `reports` is the `RequiredTransmissions` trace;
  - `txCount` counts the frames handed to the PHY per packet;
  - `lastTx` is the last frame;
  - `fault` records an `NS_ASSERT`, an `NS_ABORT` or a null dereference reached.
- **Handlers.** Each C++ handler is an operator from a world record (one field per variable) to the world after it. A handler that calls another is their composition, executed in one step as the simulator does: `CloseSecondReceiveWindow` → `Send` → `DoSend` → `SendToPhy`. Early returns are `IF`s that return the world unchanged. `Apply(w)` turns the final world into the primed variables.
- **Random draws.** `m_uniformRV` is modelled as an argument `rng ∈ [ack: AckTimeouts, ch: Slots]` that the action chooses. A channel draw outside the zero-wait candidates marks the world invalid, so the step is not taken.
- **Actions.**
  - Each kind of event has its own action (`RunDoSend`, `RunTxFinished`, …, `RunReceive`, `RunFailedReception`), enabled when that event is the simulator's next one: smallest time, then smallest uid.
  - `AppSend` is the application calling `Send` with a fresh packet.
  - `AppAddMacCommand` is the application calling `AddMacCommand` with a command of the constant `AppCommands` (a `LinkCheckReq` in `commands`, none elsewhere). The command joins the list the next new packet's header carries. The application queues a command only when it would also send (idle, where the run says so) and not one already in the list.
  - `StartReception` is the PHY locking on a preamble while in STANDBY. It schedules the end of the reception.
  - `Tick` lets idle time pass, up to `MaxTime`.
- **Received frames.** `Frames` enumerates the frames a reception may deliver: a downlink for us with or without ACK, a downlink for another device, and an uplink. A downlink for us carries a command list from the constant `DownlinkCommands`. `ParseCommands` handles the ACK and then folds `HandleCommand` over the list (`FoldLeft`).
- **Frame header.** `DoSend` takes `FrameHeader(w)` (`ApplyNecessaryOptions`: the answer list's size, `fCnt`, `ADRACKReq`) before it clears the answer list for a new packet, as the code does. `lastTx` records that header with the channel, its frequency, the data rate and the power.
- **Construction.** `Init` is the constructor (`Constructed`: the field defaults of `EndDeviceLorawanMac` and `ClassAEndDeviceLorawanMac`) followed by the setters a helper calls (`SetDataRate`, `SetTransmissionPowerDbm`, `SetMaxNumberOfTransmissions`, `SetUplinkAdrBit`, `SetMType`), with the values of `InitRadios`.
- **Channel choice.** `GetRandomChannelForTx` is the set of compatible channels with zero wait time; the draw `rng.ch` must fall in it. `OnNewChannelReq` replaces a slot with `ChannelPlan`'s `SetChannel`.
- **Retransmissions.** A retry goes through `Send` and `DoSend` like a new packet, except for the branches on `m_retxParams.waitingAck`. The code strips the stored frame's headers and `DoSend` rebuilds the header from the current `fCnt` and answer list, and the model does the same. The `retxfcnt` run shows what that means for the retry's frame counter.
- **Assertions.** `GetCompatibleTxChannels` asserts, through `GetTxPowerForChannel`, that every enabled channel is in a sub-band. `Send` and `SendToPhy` record the fault `OutOfBand` when this fails.

## Runs

| Run | cfg | Expect | Shows |
|---|---|---|---|
| `core` | `ClassAMac_core.cfg` | pass | With up to three packets, each sent when the MAC is idle, on the default 1% channels, over confirmed and unconfirmed traffic with ADR on and off: no handler faults (`NoFault`); every packet is reported at most once (`AtMostOneReport`), with `txs` equal to the frames actually sent (`ReportedTxsAreSent`); consecutive transmissions in a sub-band are airtime/duty-cycle apart (`DutyCycleRespected`); every opened window eventually closes (`WindowsEventuallyClose`); the MAC implements `AbstractUplink` (`ImplementsAbstractUplink`). |
| `newpkt` | `ClassAMac_newpkt.cfg` | violation of `AtMostOneReport` | Sending a new packet while a confirmed one awaits its ACK: the old one is reported failed, then successful when its ACK arrives, and the new packet's postponed DoSend is cancelled. |
| `noack` | `ClassAMac_noack.cfg` | violation of `EveryTxReported` | A downlink for us without ACK leaves a confirmed packet without an outcome, with nothing scheduled. With unconfirmed radios the same run fails too: a downlink for us in RX1 cancels RX2, whose close is the only place an unconfirmed packet is reported. |
| `adrretx` | `ClassAMac_adrretx.cfg` | violation of `ReportedTxsAreSent` | The back-off the code calls unreachable by retransmissions runs on one and changes `nbTrans` mid-packet. |
| `rxretx` | `ClassAMac_rxretx.cfg` | violation of `TxOnlyFromSleep` | A long RX2 reception of a foreign frame: `Receive` retransmits while still in RX and then puts the PHY to sleep during the transmission. `TxOnlyFromSleep` is checked only here. In `core`, the 1% sub-band delays every retry far past the windows and the application sends only when idle, so no transmission there can overlap a window. |
| `retxfcnt` | `ClassAMac_retxfcnt.cfg` | violation of `FCntIdentifiesPacket` | A confirmed packet without an ACK is retransmitted with its frame header rebuilt: the retry carries FCnt n+1 (the counter the next new packet also gets) and none of the first frame's MAC answers, against spec 4.5a. |
| `commands` | `ClassAMac_commands.cfg` | pass | Downlinks carry every handled command, accepted and refused: a LinkAdrReq under ADR on and off, with a bad mask, and with ChMaskCntl 6; a NewChannelReq installing slot 3, and one refused for an out-of-band frequency; an RxParamSetupReq accepted and one refused; DutyCycleReq, DevStatusReq and LinkCheckAns; the application may also queue a LinkCheckReq with `AddMacCommand`. With the application sending only when idle: no fault; every frame fits the maximum payload of its data rate (`FrameFitsDataRate`); the duty cycle holds across channel-plan changes. |
| `fopts` | `ClassAMac_fopts.cfg` | violation of `FOptsFitInFCtrl` | One downlink with six 1-byte DevStatusReq queues 18 bytes of answers. The next uplink carries them all, and the 4-bit FOptsLen of FCtrl wraps. |
| `outofband` | `ClassAMac_outofband.cfg` | violation of `EnabledChannelsInBand` | A NewChannelReq with frequency 0 installs a disabled channel in slot 3. A LinkAdrReq with ChMaskCntl 6 then enables it, and the next `Send` reaches the out-of-band `NS_ASSERT`. |
| `stalepayload` | `ClassAMac_stalepayload.cfg` | violation of `FrameFitsDataRate` | A 50-byte payload passes `Send`'s check at DR3 and is postponed. The previous packet's RX1 delivers a LinkAdrReq that lowers the rate to DR0 (and queues a 2-byte answer). The postponed `DoSend` then sends a 60-byte MACPayload, where DR0 allows 59. |

| `uplinkpath` | `UplinkPath_path.cfg` | pass | Every header built from two addresses, FCnt 1 and 65535, every flag, FPort 1 and up to two commands of the direction (six uplink answers, seven downlink requests, each with 16-bit and 24-bit fields whose bytes differ): `Deserialize` of `Serialize` followed by a two-byte payload gives back the same header, consumes `GetSerializedSize` = 8 + FOptsLen bytes, and that is exactly what `Serialize` wrote (`RoundTrip`). Every such uplink header, sent as confirmed or unconfirmed data and heard by one or two gateways: after both components have run, the reply is needed exactly when the uplink was confirmed, set ADRACKReq or carried a LinkCheckReq; its ACK bit is set exactly for a confirmed uplink; it carries a LinkCheckAns exactly for a LinkCheckReq, with the number of gateways that heard it (`ReplyFollowsUplink`). |
| `strip` | `FrameCodec_strip.cfg` | violation of `RetryStripIntact` | An uplink header carrying a DevStatusAns, removed on a retransmission into a header whose direction is unset, can be read with the downlink CID table: the answer becomes a 1-byte DevStatusReq and its battery byte 255 an unknown CID, the code's null dereference. A LinkAdrAns read as LinkAdrReq consumes 5 bytes instead of 2. |

Every property of a passing run is broken by a mutant of the code it is
about; the mutants are listed in `PROJECT.json`.

### Bounds and why they are enough

- **Time.** One time unit is 0.5 s, so RX1 opens 2 units after the end of a transmission and RX2 4 units after it. Each window lasts 1 unit, and an uplink's airtime is 1 unit.
  - The ack timeout of 1–3 s is drawn from {2, 6}, its two extremes.
  - A reception lasts 1 or 3 units. A 3-unit reception starting in RX1 spans the RX2 opening, and one starting in RX2 outlasts the short ack timeout. Those are the two cases the code treats specially.
- **Duty cycle.** Duty-cycle inverses keep their real values: 100 for the 1% sub-band and 10 for the 10% one.
- **Packets.** Three packets in `core` are enough for the back-off: `AdrAckLimit = 1` and `AdrAckDelay = 1` scale the code's 64/32 so that the back-off runs on the third Send.
- **Radio settings.** The starting radio settings cover each back-off step: power 12 → 14 dBm, DR1 → DR0, and nbTrans → 1 with channels 0–2 re-enabled.
- **Commands.** Each downlink list stays within the 15 bytes of FOpts. The `commands` run sends two packets: the second carries the answers to the first one's downlink. Its payload sizes 10 and 50 put the payload check at its edge: 7 + 2 + 1 + 50 = 60 is refused at DR0, while 7 + 1 + 1 + 50 = 59 is accepted. Slot 3 starts empty so that NewChannelReq has somewhere to install a channel.
- **Codec.** Two commands per header keep FOpts within 12 bytes. FOpts of 16 bytes or more are the `fopts` run's subject. The FCnt 65535 and the address 0x01020304 have differing bytes, as do the chMask 7 and the frequencies, so any byte-order or offset slip changes the decoded value.
- **Server.** The server handles every uplink header the codec bounds produce (9600 of them), with both data MAC header types. Powers of −130 and −90 dBm at SF7 and SF12 give a margin clamped to 0, a margin of 7 dB and one of 47 dB. One or two gateways make the gateway count vary. The uplinks stay within 15 bytes of FOpts; beyond that the device's own `fopts` run applies.
- **Idle time.** `MaxTime = 2` lets idle time pass between packets. Time also advances past it through events.
- **Deadlock.** The `ClassAMac` runs and `uplinkpath` set `CHECK_DEADLOCK FALSE`. In `uplinkpath` the server, having handled the one uplink, waits for the next, which the device never has to send. In `ClassAMac` a model with nothing scheduled and no packet left is a finished simulation: `Simulator::Run` returns when its queue is empty.

### Fairness

The simulator always runs the next scheduled event, so `Spec` has weak fairness
of `Fire`, written out as `[]<>~FireEnabled \/ []<><<Fire>>_vars`, with
`FireEnabled` the enabling condition of `Fire`. This is `WF_vars(Fire)` spelled out; TLC evaluates the spelled-out form, while computing `ENABLED Fire` through the nested handler compositions is prohibitively slow. Nothing is assumed of the
application or of the PHY: a reception may or may not start, and the
application may stop sending.

## Plan and what is not modelled yet

Modules in order of importance, each composed into the one before:

1. `ClassAMac` (done): the state machine and the ACK/retransmission logic.
2. `MacCommands` (done): the command handlers, called from `ParseCommands` inside `Receive`. The runs `commands`, `fopts`, `outofband` and `stalepayload` use it.
3. `FrameCodec` (done): FHDR and command (de)serialisation, checked by `uplinkpath`; `strip` shows the retransmission strip reading an uplink header with the downlink table; the four mislabelled command classes (see the hazards) break `RoundTrip` as soon as one is added, but no sender in the code builds one. The unknown-CID path is modelled (`ok = FALSE`) but no sender in the code produces one.
4. `AbstractUplink` (done): checked as `ImplementsAbstractUplink` in `core`. `AbstractUplink` lets a new `Submit` leave the previous packet without an outcome, so the stranded packets of `noack` stay within it; it has no liveness. `newpkt` (two outcomes) and `adrretx` (wrong transmission count) break it, and `core` excludes them: there the application sends only when the MAC is idle and ADR back-off does not fire during retransmissions.
5. `ServerComponents` (done): the network-server components that decide the ACK bit and the `LinkCheckAns` of a reply; run `uplinkpath`, which composes them with the codec (`UplinkPath`) so that the server handles every header the device's setters can build. The LinkCheckAns-only reply is never given an address by the components (a hazard in `PROJECT.json`); the network server that might set it is not in this repository.

Not modelled:

- **`forest-penetration-loss`:** a stateless formula over doubles. TLC has no real numbers, and nothing in it has state or ordering to explore.
- **`sender-id-tag`:** packet tag plumbing: a `uint32_t` and a `double` written to and read from a `TagBuffer`, with no protocol logic.
- **The scenarios in `src/scratch/`:** configuration and CSV output.
- **The PHY, the application and the region helper:** they are outside `src/`. The PHY and the application appear only as the environment actions above.

### Hazards and divergences without a run

These are listed in `PROJECT.json`. Every run slot is used by a finding above, so these have no run of their own:

- **A device that can no longer send (`end-device-lorawan-mac.cc:770`).**
  - With ADR on, a LinkAdrReq with DataRate 0xF applies its channel mask without checking the current data rate against it. The ADR-off branch does check.
  - After a NewChannelReq with a narrow DR range, a mask enabling only that channel leaves no compatible channel. Every later `Send` then aborts, so the ADR back-off never runs and no downlink can repair the device.
  - Spec §7 counts NoCompatibleChannel as an expected outcome, so this is a gap in the spec.
- **DevStatusAns margin (`:878`).** `std::bitset<6>` of a negative double is undefined behaviour. The margin is abstracted away in `MacCommands`.
- **Server components.** Three hazards depend on what the network server does with the reply, and the network server is not in this repository:
  - the `uint8_t` gateway count wraps at 256 gateways;
  - `OnFailedReply` clears only the ACK bit;
  - a LinkCheckAns-only reply is never given an address.
- **Device address byte order.** Spec §4.1 says the address is big-endian, but `LoraFrameHeader::Serialize` writes it with `WriteU32`, least significant byte first. `FrameFormat` models what the code does.
- **Unknown CID.** Spec §4.1 and §7 ask for a reported error and a best-effort parse. The code dereferences a null command. `DeserializeHeader` models this as `ok = FALSE`, and `strip` reaches it.
