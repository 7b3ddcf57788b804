-------------------------- MODULE RemoteVoiceSource --------------------------
(***************************************************************************)
(* The playback of one remote player, Voice/RemoteVoiceSource.cpp: the     *)
(* jitter buffer between the network thread, which appends the frames it   *)
(* receives, and the playback thread, which takes one frame per chunk of   *)
(* 20 ms, and the radio cues mixed over it.                                *)
(*                                                                         *)
(* The mixer calls every operation under its m_sourcesMutex, so each one   *)
(* is a single step.  The two threads are not in step with each other: the *)
(* frames come in bursts and with gaps, and a device may stall.  The       *)
(* network delivers in order, except for the frames that it loses and      *)
(* those that overtake their predecessor.                                  *)
(***************************************************************************)
EXTENDS Integers, Sequences

CONSTANTS
  Cushion,       \* kJitterTargetFrames
  MaxConceal,    \* kMaxConcealmentFrames
  MaxQueued,     \* kMaxQueuedFrames
  CueChunks,     \* chunks that a cue takes
  MaxFrames,     \* bound: frames the other player sends
  MaxFlight,     \* bound: frames on their way at the same time
  MaxCues,       \* bound: cues triggered
  MaxLosses,     \* bound: frames the network loses
  MaxOvertakes   \* bound: frames that overtake their predecessor

ASSUME BufferAssumption ==
  /\ Cushion \in Nat \ {0} /\ MaxConceal \in Nat
  /\ MaxQueued \in Nat /\ MaxQueued >= Cushion
  /\ CueChunks \in Nat \ {0}

ASSUME BoundAssumption ==
  /\ MaxFrames \in Nat /\ MaxFlight \in Nat /\ MaxCues \in Nat
  /\ MaxLosses \in Nat /\ MaxOvertakes \in Nat

VARIABLES
  talking,   \* the other player is in a talkspurt (its m_wasTransmitting)
  sent,      \* frames it has sent
  net,       \* frames on their way, oldest first
  losses, overtakes,  \* faults left
  paths,     \* m_states: how the other player can be heard
  pending,   \* m_pending
  playing,   \* m_isPlaying
  conceal,   \* m_concealmentCount
  outcome,   \* what the last chunk was made of
  heard,     \* history: the last frame decoded
  slot,      \* m_pendingBeepSamples: the cue to start with the next chunk
  cue, left, \* m_beepSamples, and the chunks of it still to be played
  triggered, \* history: the last cue triggered
  finished   \* history: the last cue played to its end

sender == <<talking, sent>>
network == <<net, losses, overtakes>>
buffer == <<pending, playing, conceal, outcome, heard>>
beep == <<slot, cue, left, triggered, finished>>
vars == <<talking, sent, net, losses, overtakes, paths, pending, playing, conceal,
          outcome, heard, slot, cue, left, triggered, finished>>

Frames == [n : 1..MaxFrames, last : BOOLEAN]
NoFrame == [n |-> 0, last |-> TRUE]
NoCue == 0

----------------------------------------------------------------------------
(* The other player and the network.                                        *)

(* A talkspurt is a number of frames and one LastFrame.  A talkspurt is     *)
(* begun only if its LastFrame fits in the bound.                           *)
SendFrame(last) ==
  /\ Len(net) < MaxFlight
  /\ sent < (IF last THEN MaxFrames ELSE MaxFrames - 1)
  /\ last => talking
  /\ sent' = sent + 1
  /\ talking' = ~last
  /\ net' = Append(net, [n |-> sent + 1, last |-> last])
  /\ UNCHANGED <<losses, overtakes, paths>> /\ UNCHANGED buffer /\ UNCHANGED beep

Lose ==
  /\ losses > 0
  /\ net # <<>>
  /\ losses' = losses - 1
  /\ net' = Tail(net)
  /\ UNCHANGED <<overtakes, paths>> /\ UNCHANGED sender /\ UNCHANGED buffer /\ UNCHANGED beep

Overtake ==
  /\ overtakes > 0
  /\ Len(net) > 1
  /\ overtakes' = overtakes - 1
  /\ net' = <<net[2], net[1]>> \o SubSeq(net, 3, Len(net))
  /\ UNCHANGED <<losses, paths>> /\ UNCHANGED sender /\ UNCHANGED buffer /\ UNCHANGED beep

----------------------------------------------------------------------------
(* The network thread and the sender thread of this player.                 *)

(* Mutant: no limit.                                                        *)
EnqueuedUnbounded(f) == Append(pending, f)

(* Mutant: the frame joins the queue at the wrong end.                      *)
EnqueuedInFront(f) ==
  IF Len(pending) < MaxQueued THEN <<f>> \o pending ELSE pending

Enqueued(f) ==
  IF Len(pending) < MaxQueued THEN Append(pending, f) ELSE Append(Tail(pending), f)

EnqueueOpusFrame ==
  /\ net # <<>>
  /\ pending' = Enqueued(Head(net))
  /\ net' = Tail(net)
  /\ UNCHANGED <<losses, overtakes, paths, playing, conceal, outcome, heard>>
  /\ UNCHANGED sender /\ UNCHANGED beep

(* Paths without a gain are dropped when rendering, so "none" stands for    *)
(* them too; "radio" for any list with a radio path.                        *)
SetStates(p) ==
  /\ paths # p
  /\ paths' = p
  /\ UNCHANGED sender /\ UNCHANGED network /\ UNCHANGED buffer /\ UNCHANGED beep

TriggerBeep ==
  /\ triggered < MaxCues
  /\ triggered' = triggered + 1
  /\ slot' = triggered + 1
  /\ UNCHANGED <<paths, cue, left, finished>>
  /\ UNCHANGED sender /\ UNCHANGED network /\ UNCHANGED buffer

----------------------------------------------------------------------------
(* The playback thread: render, for one chunk.                              *)

(* Mutant: a cue without a radio path is dropped when it is picked up.      *)
MixCueOnce ==
  LET fresh == slot # NoCue
      c == IF fresh THEN slot ELSE cue
      rest == IF fresh THEN (IF paths = "radio" THEN CueChunks ELSE 0) ELSE left
      plays == rest > 0 /\ paths = "radio"
  IN /\ slot' = NoCue
     /\ cue' = c
     /\ left' = IF plays THEN rest - 1 ELSE rest
     /\ finished' = IF plays /\ rest = 1 THEN c ELSE finished
     /\ UNCHANGED triggered

(* A triggered cue replaces the one that is playing; it advances only while *)
(* there is a radio path.                                                   *)
MixCue ==
  LET fresh == slot # NoCue
      c == IF fresh THEN slot ELSE cue
      rest == IF fresh THEN CueChunks ELSE left
      plays == rest > 0 /\ paths = "radio"
  IN /\ slot' = NoCue
     /\ cue' = c
     /\ left' = IF plays THEN rest - 1 ELSE rest
     /\ finished' = IF plays /\ rest = 1 THEN c ELSE finished
     /\ UNCHANGED triggered

Chunk ==
  /\ MixCue
  /\ UNCHANGED paths /\ UNCHANGED sender /\ UNCHANGED network

(* Mutant: the queue of a player who cannot be heard is kept, and reported  *)
(* as a frame.                                                              *)
RenderInaudibleReplay ==
  /\ Chunk
  /\ paths = "none"
  /\ playing' = FALSE /\ conceal' = 0
  /\ outcome' = IF pending = <<>> THEN "silence" ELSE "frame"
  /\ UNCHANGED <<pending, heard>>

RenderInaudible ==
  /\ Chunk
  /\ paths = "none"
  /\ playing' = FALSE /\ conceal' = 0
  /\ pending' = <<>>
  /\ outcome' = "silence"
  /\ UNCHANGED heard

(* Mutant: only the cushion counts.                                         *)
CushionFull == playing \/ Len(pending) >= Cushion

(* A talkspurt begins once the cushion is there, or all of the talkspurt.   *)
MayPlay ==
  \/ playing
  \/ Len(pending) >= Cushion
  \/ \E i \in DOMAIN pending : pending[i].last

RenderWait ==
  /\ Chunk
  /\ paths # "none"
  /\ pending # <<>> /\ ~MayPlay
  /\ outcome' = "silence"
  /\ UNCHANGED <<pending, playing, conceal, heard>>

(* Mutant: a LastFrame is a frame like any other.                           *)
KeepsPlaying(f) == TRUE

PlaysOn(f) == ~f.last

RenderFrame ==
  /\ Chunk
  /\ paths # "none"
  /\ pending # <<>> /\ MayPlay
  /\ playing' = PlaysOn(Head(pending))
  /\ conceal' = 0
  /\ pending' = Tail(pending)
  /\ outcome' = "frame"
  /\ heard' = Head(pending)

(* Nothing was playing, or concealment has gone on for long enough.         *)
RenderSilence ==
  /\ Chunk
  /\ paths # "none"
  /\ pending = <<>>
  /\ playing => conceal >= MaxConceal
  /\ playing' = FALSE
  /\ conceal' = IF playing THEN 0 ELSE conceal
  /\ outcome' = "silence"
  /\ UNCHANGED <<pending, heard>>

RenderConcealment ==
  /\ Chunk
  /\ paths # "none"
  /\ pending = <<>>
  /\ playing /\ conceal < MaxConceal
  /\ conceal' = conceal + 1
  /\ outcome' = "concealment"
  /\ UNCHANGED <<pending, playing, heard>>

Render == RenderInaudible \/ RenderWait \/ RenderFrame \/ RenderSilence \/ RenderConcealment

----------------------------------------------------------------------------
Init ==
  /\ talking = FALSE /\ sent = 0
  /\ net = <<>> /\ losses = MaxLosses /\ overtakes = MaxOvertakes
  /\ paths = "none"
  /\ pending = <<>> /\ playing = FALSE /\ conceal = 0
  /\ outcome = "silence" /\ heard = NoFrame
  /\ slot = NoCue /\ cue = NoCue /\ left = 0
  /\ triggered = NoCue /\ finished = NoCue

Next ==
  \/ \E last \in BOOLEAN : SendFrame(last)
  \/ Lose \/ Overtake
  \/ EnqueueOpusFrame
  \/ \E p \in {"none", "direct", "radio"} : SetStates(p)
  \/ TriggerBeep
  \/ Render

Spec == Init /\ [][Next]_vars

(* The playback thread renders a chunk whenever the device has room for it, *)
(* the network thread receives what arrives, and a player who talks stops   *)
(* talking at some time.                                                    *)
FairSpec ==
  /\ Spec
  /\ WF_vars(Render)
  /\ WF_vars(EnqueueOpusFrame)
  /\ WF_vars(SendFrame(TRUE))

----------------------------------------------------------------------------
(* Properties.                                                              *)

(* Type invariant; the queue never holds more than kMaxQueuedFrames.        *)
TypeOK ==
  /\ talking \in BOOLEAN /\ sent \in 0..MaxFrames
  /\ net \in Seq(Frames)
  /\ losses \in 0..MaxLosses /\ overtakes \in 0..MaxOvertakes
  /\ paths \in {"none", "direct", "radio"}
  /\ pending \in Seq(Frames) /\ Len(pending) <= MaxQueued
  /\ playing \in BOOLEAN /\ conceal \in 0..MaxConceal
  /\ outcome \in {"silence", "frame", "concealment"}
  /\ heard \in Frames \cup {NoFrame}
  /\ slot \in 0..MaxCues /\ cue \in 0..MaxCues /\ left \in 0..CueChunks
  /\ triggered \in 0..MaxCues /\ finished \in 0..MaxCues

(* Concealment fills gaps inside a talkspurt only: none is smeared onto the *)
(* end of a transmission, after its LastFrame was decoded, or after the     *)
(* player could not be heard.                                               *)
NoSmear == playing \/ outcome = "concealment" => ~heard.last

(* As long as no frame overtook another, every frame is heard at most once  *)
(* and in the order in which it was sent, through waiting, overflow,        *)
(* losses, and times in which the player cannot be heard.                   *)
InOrder == [][overtakes = MaxOvertakes /\ heard' # heard => heard'.n > heard.n]_vars

(* Once nobody sends any more, the source falls silent, whatever was lost   *)
(* and whenever it became inaudible: no frame is repeated forever.          *)
FallsSilent == <>[](outcome = "silence")

(* A talkspurt that has arrived complete and in order leaves the queue,     *)
(* even one shorter than the cushion: nothing is left for the next          *)
(* transmission to push out.                                                *)
NothingStuck ==
  [](losses = MaxLosses /\ overtakes = MaxOvertakes) /\ <>[](~talking /\ net = <<>>)
    => <>[](pending = <<>>)

(* The last cue triggered is played to its end as soon as the player is     *)
(* received by radio, also if that is only after the cue was triggered.     *)
CuePlayed == <>[](paths = "radio") => <>[](finished = triggered)

============================================================================
