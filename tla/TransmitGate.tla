---------------------------- MODULE TransmitGate ----------------------------
(***************************************************************************)
(* Whether the microphone is sent: the tangent and the life of the player  *)
(* as State.cpp learns them from the game, the transmit override that the  *)
(* sender thread carries over to TransmitController.cpp, and the capture   *)
(* thread that decides about every frame.                                  *)
(*                                                                         *)
(* The game calls in on its own thread.  The override is one slot in State *)
(* (the last value wins) and two separate atomics in TransmitController,   *)
(* which the capture thread reads one after the other.                     *)
(*                                                                         *)
(* The names of the specification begin with Gate: OutgoingProofs speaks   *)
(* of this module and of VoiceNetworkClient.                               *)
(***************************************************************************)
EXTENDS Integers

CONSTANTS
  Frequencies,  \* what a tangent may transmit on
  Hangover,     \* kVadHangover, in frames
  MaxCalls      \* bound: calls of the game

ASSUME GateAssumption == {Hangover, MaxCalls} \subseteq Nat

Modes == {"PushToTalk", "VoiceActivation", "AlwaysOn"}
Overrides == {"none", "force", "block"}
Nothing == "nothing"

VARIABLES
  living,      \* the game's player is alive
  alive,       \* m_alive
  named,       \* m_myNickname is known
  tangent,     \* m_tangentPressed
  txFreq,      \* m_txFrequency; Nothing when cleared
  pending,     \* m_pendingTransmitOverride; Nothing when there is no change
  wanted,      \* history: the override queued last
  taken,       \* the override the sender thread is storing, or Nothing
  tickStep,    \* where the sender thread stands in setAddonOverride
  has, value,  \* m_hasAddonOverride, m_addonOverrideValue
  mode, ptt, muted,  \* m_mode, m_pttHeld, m_micMuted
  frameStep,   \* where the capture thread stands in determineShouldTransmit
  hang,        \* frames until m_vadHangoverUntil
  was,         \* m_wasTransmitting
  open,        \* history: a frame was sent, and no LastFrame after it
  unended,     \* history: the encoder failed for the LastFrame of what is open
  outcome,     \* history: what decided about the last frame
  calls

game == <<living, alive, named, tangent, txFreq, pending, wanted>>
tick == <<taken, tickStep, has, value>>
switches == <<mode, ptt, muted>>
capture == <<frameStep, hang, was, open, unended, outcome>>
gateVars == <<living, alive, named, tangent, txFreq, pending, wanted, taken, tickStep, has,
              value, mode, ptt, muted, frameStep, hang, was, open, unended, outcome, calls>>

(* queueLocalMessageLocked.                                                 *)
Queue(v) ==
  /\ pending' = v
  /\ wanted' = v

Call ==
  /\ calls > 0
  /\ calls' = calls - 1
  /\ UNCHANGED tick /\ UNCHANGED capture

----------------------------------------------------------------------------
(* The game's calls.                                                        *)

Unchanged(pressed, f) == pressed = tangent /\ txFreq = f

(* TANGENT PRESSED: the game's key handlers ask whether the player lives.   *)
TangentPressed(f) ==
  /\ Call /\ living
  /\ ~Unchanged(TRUE, f)
  /\ tangent' = TRUE /\ txFreq' = f
  /\ Queue("force")
  /\ UNCHANGED <<living, alive, named>> /\ UNCHANGED switches

(* Mutant: a release is taken for the end only on the current frequency.    *)
TangentReleasedSameOnly(f) ==
  /\ Call
  /\ ~Unchanged(FALSE, f)
  /\ tangent' = FALSE /\ txFreq' = f
  /\ IF txFreq = f THEN Queue("none") ELSE UNCHANGED <<pending, wanted>>
  /\ UNCHANGED <<living, alive, named>> /\ UNCHANGED switches

TangentReleased(f) ==
  /\ Call
  /\ ~Unchanged(FALSE, f)
  /\ tangent' = FALSE /\ txFreq' = f
  /\ Queue("none")
  /\ UNCHANGED <<living, alive, named>> /\ UNCHANGED switches

(* RELEASE_ALL_TANGENTS: on death, and whenever the controlled unit changes *)
(* or the player becomes a spectator.                                       *)
ReleaseAllTangents ==
  /\ Call
  /\ tangent' = FALSE /\ txFreq' = Nothing
  /\ Queue("none")
  /\ UNCHANGED <<living, alive, named>> /\ UNCHANGED switches

(* KILLED, for the own nickname: ignored until a FREQ has told it.          *)
Killed ==
  /\ Call /\ living
  /\ living' = FALSE
  /\ IF named
       THEN /\ alive' = FALSE
            /\ tangent' = FALSE /\ txFreq' = Nothing
            /\ Queue("block")
       ELSE UNCHANGED <<alive, tangent, txFreq, pending, wanted>>
  /\ UNCHANGED named /\ UNCHANGED switches

(* The player respawns; the extension learns of it with the next FREQ.      *)
Respawn ==
  /\ Call /\ ~living
  /\ living' = TRUE
  /\ UNCHANGED <<alive, named, tangent, txFreq, pending, wanted>>
  /\ UNCHANGED switches

HandleFreq ==
  /\ Call
  /\ alive' = living
  /\ named' = TRUE
  /\ IF ~alive /\ living THEN Queue("none") ELSE UNCHANGED <<pending, wanted>>
  /\ UNCHANGED <<living, tangent, txFreq>> /\ UNCHANGED switches

MissionEnd ==
  /\ Call
  /\ alive' = FALSE
  /\ tangent' = FALSE /\ txFreq' = Nothing
  /\ Queue("none")
  /\ UNCHANGED <<living, named>> /\ UNCHANGED switches

(* MICPTT, MICMUTE, and the transmit mode of the settings.                  *)
MicPtt(held) ==
  /\ Call /\ ptt # held
  /\ ptt' = held
  /\ UNCHANGED <<mode, muted>> /\ UNCHANGED game

MicMute ==
  /\ Call
  /\ muted' = ~muted
  /\ UNCHANGED <<mode, ptt>> /\ UNCHANGED game

SetMode(m) ==
  /\ Call /\ m # mode
  /\ mode' = m
  /\ UNCHANGED <<ptt, muted>> /\ UNCHANGED game

----------------------------------------------------------------------------
(* The sender thread.                                                       *)

TakeTransmitOverride ==
  /\ tickStep = "idle"
  /\ pending # Nothing
  /\ taken' = pending
  /\ pending' = Nothing
  /\ tickStep' = "has"
  /\ UNCHANGED <<living, alive, named, tangent, txFreq, wanted, has, value, calls>>
  /\ UNCHANGED switches /\ UNCHANGED capture

(* Mutant: a block is not an override.                                      *)
StoreHasForce ==
  /\ tickStep = "has"
  /\ has' = (taken = "force")
  /\ tickStep' = "value"
  /\ UNCHANGED <<taken, value, calls>>
  /\ UNCHANGED game /\ UNCHANGED switches /\ UNCHANGED capture

StoreHas ==
  /\ tickStep = "has"
  /\ has' = (taken # "none")
  /\ tickStep' = "value"
  /\ UNCHANGED <<taken, value, calls>>
  /\ UNCHANGED game /\ UNCHANGED switches /\ UNCHANGED capture

StoreValue ==
  /\ tickStep = "value"
  /\ value' = (taken = "force")
  /\ taken' = Nothing
  /\ tickStep' = "idle"
  /\ UNCHANGED <<has, calls>>
  /\ UNCHANGED game /\ UNCHANGED switches /\ UNCHANGED capture

----------------------------------------------------------------------------
(* The capture thread: onFrameCaptured.                                     *)

ReadHas ==
  /\ frameStep = "idle"
  /\ frameStep' = IF has THEN "override" ELSE "gate"
  /\ UNCHANGED <<hang, was, open, unended, outcome, calls>>
  /\ UNCHANGED game /\ UNCHANGED tick /\ UNCHANGED switches

(* Mutant: the hangover is counted down below zero.                         *)
EarlierUnchecked(n) == n - 1

Earlier(n) == IF n > 0 THEN n - 1 ELSE 0

(* Mutant: what ends the talkspurt is forgotten before it is sent.          *)
EmitNoLast(should, why, encoded) ==
  /\ frameStep' = "idle"
  /\ was' = should
  /\ open' = (open \/ (should /\ encoded))
  /\ unended' = (unended /\ ~(should /\ encoded))
  /\ outcome' = why
  /\ UNCHANGED calls
  /\ UNCHANGED game /\ UNCHANGED tick /\ UNCHANGED switches

(* A frame is sent, or, where frames were to be sent before, one LastFrame, *)
(* or nothing.  Neither is sent when the encoder fails, and a LastFrame is  *)
(* not tried a second time.                                                 *)
Emit(should, why, encoded) ==
  /\ frameStep' = "idle"
  /\ was' = should
  /\ IF (should \/ was) /\ encoded
       THEN open' = should /\ unended' = FALSE
       ELSE /\ unended' = (unended \/ (open /\ was /\ ~should))
            /\ UNCHANGED open
  /\ outcome' = why
  /\ UNCHANGED calls
  /\ UNCHANGED game /\ UNCHANGED tick /\ UNCHANGED switches

DecideOverride(encoded) ==
  /\ frameStep = "override"
  /\ Emit(value, IF value THEN "force" ELSE "block", encoded)
  /\ hang' = Earlier(hang)

(* determineShouldTransmit without an override; voice: the level of the     *)
(* frame reaches the threshold.                                             *)
Gate(voice) ==
  /\ ~muted
  /\ \/ mode = "AlwaysOn"
     \/ mode = "PushToTalk" /\ ptt
     \/ mode = "VoiceActivation" /\ (voice \/ hang > 0)

DecideGate(voice, encoded) ==
  /\ frameStep = "gate"
  /\ Emit(Gate(voice), "gate", encoded)
  /\ hang' = IF voice /\ ~muted /\ mode = "VoiceActivation" THEN Hangover ELSE Earlier(hang)

----------------------------------------------------------------------------
GateInit ==
  /\ living = TRUE /\ alive = FALSE /\ named = FALSE
  /\ tangent = FALSE /\ txFreq = Nothing
  /\ pending = Nothing /\ wanted = "none"
  /\ taken = Nothing /\ tickStep = "idle"
  /\ has = FALSE /\ value = FALSE
  /\ mode = "VoiceActivation" /\ ptt = FALSE /\ muted = FALSE
  /\ frameStep = "idle" /\ hang = 0
  /\ was = FALSE /\ open = FALSE /\ unended = FALSE /\ outcome = Nothing
  /\ calls = MaxCalls

Game ==
  \/ \E f \in Frequencies : TangentPressed(f) \/ TangentReleased(f)
  \/ ReleaseAllTangents \/ Killed \/ Respawn \/ HandleFreq \/ MissionEnd
  \/ \E held \in BOOLEAN : MicPtt(held)
  \/ MicMute
  \/ \E m \in Modes : SetMode(m)

Sender == TakeTransmitOverride \/ StoreHas \/ StoreValue

Capture ==
  \/ ReadHas
  \/ \E encoded \in BOOLEAN :
       \/ DecideOverride(encoded)
       \/ \E voice \in BOOLEAN : DecideGate(voice, encoded)

GateNext == Game \/ Sender \/ Capture

GateSpec == GateInit /\ [][GateNext]_gateVars

(* The sender thread ticks every 66 ms, and the microphone delivers a frame *)
(* every 20 ms.                                                             *)
GateFairSpec == GateSpec /\ WF_gateVars(Sender) /\ WF_gateVars(Capture)

----------------------------------------------------------------------------
(* Properties.                                                              *)

(* Type invariant of State, TransmitController and the two threads.         *)
GateTypeOK ==
  /\ living \in BOOLEAN /\ alive \in BOOLEAN /\ named \in BOOLEAN /\ tangent \in BOOLEAN
  /\ has \in BOOLEAN /\ value \in BOOLEAN /\ ptt \in BOOLEAN /\ muted \in BOOLEAN
  /\ was \in BOOLEAN /\ open \in BOOLEAN /\ unended \in BOOLEAN
  /\ txFreq \in Frequencies \cup {Nothing}
  /\ wanted \in Overrides
  /\ pending \in Overrides \cup {Nothing} /\ taken \in Overrides \cup {Nothing}
  /\ tickStep \in {"idle", "has", "value"}
  /\ mode \in Modes
  /\ frameStep \in {"idle", "override", "gate"}
  /\ hang \in 0..Hangover
  /\ outcome \in {"force", "block", "gate", Nothing}
  /\ calls \in 0..MaxCalls

(* The override that the capture thread goes by, once it is stored.         *)
Stored == IF ~has THEN "none" ELSE IF value THEN "force" ELSE "block"

Settled == pending = Nothing /\ tickStep = "idle"

(* No hot microphone: an override that forces the transmission is in effect *)
(* only while the tangent is pressed, however presses, releases on other    *)
(* frequencies, deaths and the sender's ticks interleave.                   *)
NoHotMic == Settled /\ Stored = "force" => tangent

(* What State queued last is what the capture thread goes by, as soon as    *)
(* the sender thread has caught up: no change is lost in the single slot.   *)
LastQueuedWins == Settled => Stored = wanted

(* Once a block is in effect for good, nothing is sent any more, and the    *)
(* last that was sent is the LastFrame that the receivers need, whether the *)
(* encoder failed for frames before it or not: only where it failed for the *)
(* LastFrame itself is the talkspurt left open.                             *)
BlockEndsTalkspurt == <>[](Stored = "block") => <>[](~was /\ (open => unended))

============================================================================
