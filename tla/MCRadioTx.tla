----------------------------- MODULE MCRadioTx -----------------------------
(* Instances of RadioTx for TLC.                                            *)
EXTENDS RadioTx, TLC

(* Frequencies are only compared.                                           *)
ChannelSymmetry == Permutations(Channels)

============================================================================
