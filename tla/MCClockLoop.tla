------------------------------ MODULE MCClockLoop ------------------------------
(* The six transmitters, with four grains of PSD to a PDU.                        *)
EXTENDS Transmitter

MCStations == {StationOf(t, PsdBytesOf(t) \div 4) : t \in Transmitters}
================================================================================
