--------------------------- MODULE MCTransmitGate ---------------------------
(* Instances of TransmitGate for TLC.                                       *)
EXTENDS TransmitGate, TLC

(* Frequencies are only compared.                                           *)
FrequencySymmetry == Permutations(Frequencies)

============================================================================
