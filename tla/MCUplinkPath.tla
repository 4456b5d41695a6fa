---------------------------- MODULE MCUplinkPath ----------------------------
(* Constants for checking UplinkPath with TLC: the header bounds of        *)
(* MCFrameCodec and the receptions the server may report.                  *)
EXTENDS UplinkPath, MCFrameCodec

CONSTANTS g1, g2

MCMTypes == {"CONFIRMED_DATA_UP", "UNCONFIRMED_DATA_UP"}
MCGateways == {g1, g2}
MCRxPowers == {-130, -90}
MCSpreadingFactors == {7, 12}
=============================================================================
