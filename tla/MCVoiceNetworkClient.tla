------------------------ MODULE MCVoiceNetworkClient ------------------------
(* Instances of VoiceNetworkClient for TLC.                                 *)
EXTENDS VoiceNetworkClient

(* Each kind of server, and the settings of a good one with each identity.  *)
SomeSettings ==
  {s \in Settings :
     \/ s.server = "good"
     \/ s.server = "unset" /\ s.uid = NoUid
     \/ s.server \in {"bad", "dead"} /\ s.uid = "steam"}

============================================================================
