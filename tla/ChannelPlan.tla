----------------------------- MODULE ChannelPlan ----------------------------
(***************************************************************************)
(* Logical channels, sub-bands and the duty-cycle bookkeeping of           *)
(* LogicalLoraChannelHelper (model/logical-lora-channel.cc, sub-band.cc,   *)
(* logical-lora-channel-helper.cc).  The helper owns the channel array     *)
(* and the sub-band list; the MAC keeps that state and calls these         *)
(* operators synchronously, so they are written over the state passed in. *)
(*                                                                         *)
(* Frequencies are integers in units of 25 kHz above 868.0 MHz, so 868.1,  *)
(* 868.3 and 868.5 MHz are 4, 12 and 20, and the 869.4-869.65 MHz sub-band *)
(* is (56, 66).  Time is in units of half a second.                        *)
(***************************************************************************)
EXTENDS Integers, Sequences, FiniteSetsExt

CONSTANTS
    SubBandList,  \* <<[first, last, dutyCycleInv, maxTxPowerDbm], ...>> in AddSubBand order
    NoChannel,    \* an empty slot of the channel array (a null Ptr<LogicalLoraChannel>)
    Slots         \* indices of the channel array (m_channelVec)

SubBandIds == 1..Len(SubBandList)

\* LogicalLoraChannel constructor: a new channel is enabled for uplink.
LogicalLoraChannel(f, minDr, maxDr) ==
    [freq |-> f, minDr |-> minDr, maxDr |-> maxDr, enabled |-> TRUE]

EnableForUplink(c) == [c EXCEPT !.enabled = TRUE]

DisableForUplink(c) == [c EXCEPT !.enabled = FALSE]

\* SubBand::Contains: both bounds are exclusive.
SubBandContains(sb, f) == SubBandList[sb].first < f /\ f < SubBandList[sb].last

\* GetSubBandFromFrequency: the first listed sub-band containing f, 0 (nullptr) if none.
GetSubBandFromFrequency(f) ==
    LET hits == {sb \in SubBandIds : SubBandContains(sb, f)}
    IN  IF hits = {} THEN 0 ELSE Min(hits)

IsFrequencyValid(f) == GetSubBandFromFrequency(f) # 0

\* LogicalLoraChannelHelper::GetWaitTime: until the sub-band's next allowed
\* transmission, 0 once it has passed.
GetWaitTime(nextTxTime, now, f) ==
    Max({nextTxTime[GetSubBandFromFrequency(f)] - now, 0})

\* Mutant: the airtime is registered without dividing by the duty cycle.
AddEventNoDutyCycle(nextTxTime, now, duration, f) ==
    LET sb == GetSubBandFromFrequency(f) IN [nextTxTime EXCEPT ![sb] = now + duration]

\* AddEvent: the sub-band of f is closed until now + duration / dutyCycle.
AddEvent(nextTxTime, now, duration, f) ==
    LET sb == GetSubBandFromFrequency(f)
    IN  [nextTxTime EXCEPT ![sb] = now + duration * SubBandList[sb].dutyCycleInv]

\* SetChannel: the slot's channel is replaced; its NS_ASSERT on the index
\* holds for every caller, which checks chIndex against the array first.
SetChannel(channelVec, chIndex, channel) == [channelVec EXCEPT ![chIndex] = channel]

GetTxPowerForChannel(f) == SubBandList[GetSubBandFromFrequency(f)].maxTxPowerDbm
=============================================================================
