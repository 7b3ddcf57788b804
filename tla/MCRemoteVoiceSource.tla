------------------------ MODULE MCRemoteVoiceSource -------------------------
(* Instances of RemoteVoiceSource for TLC.                                  *)
EXTENDS RemoteVoiceSource

============================================================================
