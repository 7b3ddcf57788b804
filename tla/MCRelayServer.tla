--------------------------- MODULE MCRelayServer ---------------------------
(* Instances of the voice relay for TLC.                                   *)
EXTENDS RelayServer, TLC

(* UIDs and endpoints are only compared.                                   *)
Symmetry == Permutations(Uids) \cup Permutations(EndPoints)

============================================================================
