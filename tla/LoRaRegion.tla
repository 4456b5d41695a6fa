----------------------------- MODULE LoRaRegion -----------------------------
(***************************************************************************)
(* The EU868 region tables the MAC consults.  They are filled in by        *)
(* LorawanMacHelper and LorawanMac, which are not part of this repository, *)
(* so they are written from the interface the spec gives them (spec.md     *)
(* sections 6 and 8).                                                      *)
(***************************************************************************)
EXTENDS Integers

\* Data rates that have a spreading factor and a bandwidth (DR0..DR6 in EU868);
\* GetSfFromDataRate / GetBandwidthFromDataRate return 0 for any other index.
ValidDataRates == 0..6

IsDataRateValid(dr) == dr \in ValidDataRates

\* m_maxMacPayloadForDataRate: maximum MACPayload size in bytes per data rate.
MaxMacPayload(dr) ==
    CASE dr \in 0..2 -> 59
      [] dr = 3      -> 123
      [] OTHER       -> 230

\* GetDbmForTxPower: TXPower index i maps to 14 - 2i dBm (spec section 8,
\* "txPowerDbm becomes 14 - 2x2 = 10"); an index outside the table is -1.
GetDbmForTxPower(i) == IF i \in 0..7 THEN 14 - 2 * i ELSE -1

\* The offsets of a row of m_replyDataRateMatrix (EU868: six per data rate);
\* OnRxParamSetupReq refuses an rx1DrOffset beyond the row.
ReplyDataRateOffsets == 0..5

\* The EU868 RX2 defaults: DR0 at 869.525 MHz (25 kHz steps above 868.0 MHz).
Rx2DefaultDataRate == 0
Rx2DefaultFreq == 61

\* The default (maximum) ERP a device starts with and the back-off restores.
DefaultTxPowerDbm == 14
=============================================================================
