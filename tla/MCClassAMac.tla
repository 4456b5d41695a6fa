----------------------------- MODULE MCClassAMac ----------------------------
(***************************************************************************)
(* Model values for ClassAMac.  One time unit is 0.5 s; a frequency is in  *)
(* 25 kHz steps above 868.0 MHz.                                           *)
(***************************************************************************)
EXTENDS ClassAMac

\* The EU868 sub-bands the LoraHelper installs: 868.0-868.6 MHz at 1% and
\* 14 dBm, 869.4-869.65 MHz at 10% and 27 dBm.
MCSubBands == << [first |-> 0, last |-> 24, dutyCycleInv |-> 100, maxTxPowerDbm |-> 14],
                 [first |-> 56, last |-> 66, dutyCycleInv |-> 10, maxTxPowerDbm |-> 27] >>

\* The three default EU868 channels 868.1, 868.3 and 868.5 MHz, DR0-DR5.
DefaultChannels == [i \in 0..2 |-> LogicalLoraChannel(4 + 8 * i, 0, 5)]

\* The default channels plus one at 869.525 MHz in the 10% sub-band, as a
\* NewChannelReq installs it in slot 3.
ChannelsWithHighBand ==
    [i \in 0..3 |-> IF i = 3 THEN LogicalLoraChannel(61, 0, 5) ELSE DefaultChannels[i]]

Radio(dr, pw, nb, adr, mt) ==
    [dataRate |-> dr, txPowerDbm |-> pw, nbTrans |-> nb, adr |-> adr, mType |-> mt]

\* Confirmed and unconfirmed traffic with two transmissions and ADR off, and
\* ADR on with a single transmission from two starting points of the back-off.
CoreRadios == { Radio(0, 12, 2, FALSE, "CONFIRMED"), Radio(0, 14, 2, FALSE, "UNCONFIRMED"),
                Radio(0, 14, 1, TRUE, "CONFIRMED"), Radio(1, 12, 1, TRUE, "UNCONFIRMED") }

ConfirmedRadios == { Radio(0, 12, 2, FALSE, "CONFIRMED"), Radio(0, 14, 2, FALSE, "CONFIRMED") }

UnconfirmedRadios == { Radio(0, 14, 2, FALSE, "UNCONFIRMED") }

\* ADR on, at DR0 and full power, with two transmissions per packet: the
\* back-off's last step is the next one.
AdrRetxRadios == { Radio(0, 14, 2, TRUE, "CONFIRMED") }

\* The three default channels and an empty slot 3 for NewChannelReq.
DefaultChannelsAndFreeSlot ==
    [i \in 0..3 |-> IF i = 3 THEN NoChannel ELSE DefaultChannels[i]]

\* The application queues no MAC command, or a LinkCheckReq (1 byte).
NoAppCommands == {}
LinkCheckRequest == { Answer("LinkCheckReq", 1, [none |-> TRUE]) }

\* Downlinks without MAC commands.
NoCommands == {<<>>}

\* One list per branch of the handlers: LinkAdrReq accepted (ADR on) or mask
\* only (ADR off), refused outright, and with ChMaskCntl 6; NewChannelReq
\* installing the 869.525 MHz channel in slot 3 and refused for an
\* out-of-band frequency; RxParamSetupReq accepted and refused;
\* DutyCycleReq, DevStatusReq and LinkCheckAns.
HandlerCommands ==
    { << LinkAdrReq(2, 1, {0, 1}, 0, 0) >>,
      << LinkAdrReq(7, 8, {3}, 0, 1) >>,
      << LinkAdrReq(15, 15, {}, 6, 3) >>,
      << NewChannelReq(3, 61, 0, 5), DevStatusReq >>,
      << NewChannelReq(3, 30, 0, 5) >>,
      << RxParamSetupReq(1, 3, 61), RxParamSetupReq(7, 3, 61) >>,
      << DutyCycleReq(2), LinkCheckAns(10, 2) >> }

\* Six DevStatusReq (6 bytes of FOpts) in one downlink: six 3-byte answers.
ManyStatusRequests == { [i \in 1..6 |-> DevStatusReq] }

\* NewChannelReq with frequency 0 (disable slot 3), then LinkAdrReq with
\* ChMaskCntl 6 (every existing channel on).
DisableThenAllOn ==
    { << NewChannelReq(3, 0, 0, 5) >>, << LinkAdrReq(15, 15, {}, 6, 1) >> }

\* The network lowers the data rate to DR0 on the default channels.
LowerToDr0 == { << LinkAdrReq(0, 15, {0, 1, 2}, 0, 1) >> }

\* ADR on at DR3 (123-byte MAC payload), unconfirmed.
Dr3Radios == { Radio(3, 14, 1, TRUE, "UNCONFIRMED") }

CommandRadios == { Radio(0, 14, 1, TRUE, "UNCONFIRMED"), Radio(0, 14, 2, FALSE, "CONFIRMED") }
=============================================================================
