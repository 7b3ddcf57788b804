--------------------------- MODULE MCAudioDevices ---------------------------
(* AudioDevices for TLC: in units of 16 kHz, a device of 112 kHz, whose     *)
(* steps may pass the end of a packet, one of 32 kHz, and one of 48 kHz     *)
(* with an exotic format.                                                   *)
EXTENDS AudioDevices, TLC

CONSTANTS hifi, headset, exotic

Rates == hifi :> 7 @@ headset :> 2 @@ exotic :> 3
=============================================================================
