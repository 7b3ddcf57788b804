---------------------------- MODULE AudioDevices ----------------------------
(***************************************************************************)
(* The two device loops: WasapiCaptureEngine (the microphone) and          *)
(* PlaybackMixer (the speakers).  Both run one session after the other on  *)
(* the default device, poll once a second whether another device is the    *)
(* default now, and resample between the device's rate and 48 kHz with a   *)
(* cursor into a buffer that they cut as they go.                          *)
(*                                                                         *)
(* A behaviour follows one of the loops.  Samples are numbered by their    *)
(* place in the session's input, and the cursor counts fractions of a      *)
(* sample exactly, where the code adds doubles.                            *)
(***************************************************************************)
EXTENDS Integers, Sequences

CONSTANTS
  Devices,
  Rate,         \* sample rate of each device, in a unit that divides all rates
  Base,         \* kTargetSampleRate, kInternalSampleRate: 48 kHz in that unit
  Exotic,       \* devices whose format is neither float nor 16 bit
  FrameSamples, \* kTargetFrameSamples
  ChunkFrames,  \* kChunkFrames
  MaxBlock,     \* bound: samples in a packet, frames in a render request
  MaxSamples,   \* bound: samples that enter a session's buffer
  MaxChanges,   \* bound: devices plugged, unplugged and chosen, failures
  NoDevice

ASSUME RatesAssumption == Rate \in [Devices -> Nat \ {0}] /\ Base \in Nat \ {0}
ASSUME DevicesAssumption == NoDevice \notin Devices /\ Exotic \subseteq Devices
ASSUME SizesAssumption ==
  /\ {FrameSamples, ChunkFrames, MaxBlock} \subseteq Nat \ {0}
  /\ {MaxSamples, MaxChanges} \subseteq Nat

VARIABLES
  flow,    \* which loop: AudioFlow
  plugged, \* the devices that are there
  default, \* the default endpoint
  stage,   \* where the loop is
  device,  \* what the session was opened for
  id,      \* deviceId; NoDevice when it could not be read
  lost,    \* the session's audio client is invalid
  jammed,  \* GetBuffer fails with what the mixer takes for transient
  session, \* how many sessions there were
  head,    \* the number of the first sample in the buffer
  size,    \* samples in m_nativeMono, frames in m_mixed48k
  cursor,  \* m_resampleCursor, in units of 1 / Unit of a sample
  frame,   \* m_frameBuffer
  out,     \* what the session gave to the callback or to the device
  changes

endpoints == <<plugged, default, changes>>
stream    == <<head, size, cursor, frame, out>>
loop      == <<stage, device, id, lost, jammed, session>>
vars      == <<flow, endpoints, loop, stream>>

Init ==
  /\ flow \in {"Capture", "Render"}
  /\ plugged \in SUBSET Devices
  /\ default \in IF plugged = {} THEN {NoDevice} ELSE plugged
  /\ stage = "waiting" /\ device = NoDevice /\ id = NoDevice
  /\ lost = FALSE /\ jammed = FALSE /\ session = 0
  /\ head = 0 /\ size = 0 /\ cursor = 0 /\ frame = <<>> /\ out = <<>>
  /\ changes = 0

----------------------------------------------------------------------------
(* The resampler.                                                           *)

(* A step of the cursor is Step / Unit of a sample.                         *)
Step == IF flow = "Capture" THEN Rate[device] ELSE Base
Unit == IF flow = "Capture" THEN Base ELSE Rate[device]

Samples(n) ==
  [i \in 1..n |-> [session |-> session, at |-> head * Unit + cursor + (i - 1) * Step]]

(* Mutant: the buffer is cut at its end when the cursor is beyond it.       *)
DropToEnd(n, c) ==
  LET consumed == c \div Unit
      dropped  == IF consumed <= n THEN consumed ELSE n
  IN /\ head' = head + dropped
     /\ size' = n - dropped
     /\ cursor' = c - consumed * Unit

(* Mutant: the buffer is never cut.                                         *)
DropNothing(n, c) == head' = head /\ size' = n /\ cursor' = c

(* n samples are in the buffer and the cursor has come to c: what is        *)
(* consumed leaves, unless the cursor is beyond the end.                    *)
DropConsumed(n, c) ==
  LET consumed == c \div Unit
      dropped  == IF consumed <= n THEN consumed ELSE 0
  IN /\ head' = head + dropped
     /\ size' = n - dropped
     /\ cursor' = c - dropped * Unit

(* How many samples can be interpolated from the first n.                   *)
Ready(n) ==
  IF cursor < (n - 1) * Unit THEN ((n - 1) * Unit - cursor - 1) \div Step + 1 ELSE 0

(* appendNativeSamples and resampleAndEmit for packets of n samples in all. *)
(* Of a device with an exotic format only silent packets are appended.      *)
Packet(n) ==
  LET held  == size + n
      ready == Ready(held)
      all   == frame \o Samples(ready)
      full  == Len(all) - (Len(all) % FrameSamples)
  IN /\ flow = "Capture" /\ stage = "running" /\ ~lost
     /\ head + held <= MaxSamples
     /\ out' = out \o SubSeq(all, 1, full)
     /\ frame' = SubSeq(all, full + 1, Len(all))
     /\ DropConsumed(held, cursor + ready * Step)
     /\ UNCHANGED <<flow, endpoints, loop>>

(* Chunks mixed until the last of n frames can be interpolated.             *)
Chunks(n) ==
  LET last == (cursor + (n - 1) * Step) \div Unit
  IN IF last + 1 < size THEN 0 ELSE (last + 1 - size) \div ChunkFrames + 1

(* The device asks for n frames.                                            *)
Request(n) ==
  LET held == size + Chunks(n) * ChunkFrames
  IN /\ flow = "Render" /\ stage = "running" /\ ~lost /\ ~jammed
     /\ head + held <= MaxSamples
     /\ out' = out \o Samples(n)
     /\ frame' = frame
     /\ DropConsumed(held, cursor + n * Step)
     /\ UNCHANGED <<flow, endpoints, loop>>

----------------------------------------------------------------------------
(* The supervision loop.                                                    *)

Change == changes < MaxChanges /\ changes' = changes + 1

(* getDefaultDevice and getDeviceId.                                        *)
Resolve ==
  /\ stage = "waiting" /\ default # NoDevice
  /\ stage' = "resolved" /\ device' = default
  /\ \/ id' = default /\ changes' = changes
     \/ id' = NoDevice /\ Change
  /\ UNCHANGED <<flow, plugged, default, lost, jammed, session, stream>>

Back ==
  /\ stage' = "waiting" /\ device' = NoDevice /\ id' = NoDevice
  /\ lost' = FALSE /\ jammed' = FALSE

Refused == device \notin plugged \/ (flow = "Render" /\ device \in Exotic)

(* Activate, GetMixFormat, Initialize, GetService and Start: one of them    *)
(* fails for a device that is gone, or with a format that the mixer does    *)
(* not write, and any may fail for a device that is there.                  *)
Activate ==
  /\ stage = "resolved"
  /\ \/ Back /\ session' = session /\ IF Refused THEN changes' = changes ELSE Change
     \/ /\ ~Refused
        /\ stage' = "running" /\ session' = session + 1
        /\ UNCHANGED <<device, id, lost, jammed, changes>>
  /\ UNCHANGED <<flow, plugged, default, stream>>

(* Mutant: a frame that a session began is finished by the next.            *)
ForgetAllButFrame ==
  /\ head' = 0 /\ size' = 0 /\ cursor' = 0 /\ out' = <<>>
  /\ UNCHANGED frame

Forget ==
  /\ head' = 0 /\ size' = 0 /\ cursor' = 0 /\ out' = <<>>
  /\ frame' = <<>>

End == Back /\ Forget /\ UNCHANGED <<flow, session>>

(* A call on the audio client fails where the loop looks at the result: in  *)
(* the middle of packets, or before a request.  A microphone that is        *)
(* already gone when GetNextPacketSize is called goes unnoticed, and so do  *)
(* speakers that do not signal the event any more.                          *)
CallFails ==
  /\ stage = "running"
  /\ IF lost THEN changes' = changes ELSE Change
  /\ End
  /\ UNCHANGED <<plugged, default>>

(* The mixer takes any other failure of GetBuffer for transient: it goes    *)
(* back to the event at once, past the poll of the default device, for as   *)
(* long as GetBuffer fails.                                                 *)
Jam ==
  /\ flow = "Render" /\ stage = "running" /\ ~jammed
  /\ Change
  /\ jammed' = TRUE
  /\ UNCHANGED <<flow, plugged, default, stage, device, id, lost, session, stream>>

Unjam ==
  /\ jammed
  /\ jammed' = FALSE
  /\ UNCHANGED <<flow, endpoints, stage, device, id, lost, session, stream>>

(* Mutant: the loop runs until a call fails.                                *)
DefaultChangedNever == FALSE

(* A device whose id could not be read is never left for another.           *)
DefaultChanged == default # NoDevice /\ id # NoDevice /\ default # id

(* The poll of the default device, when it can be read.                     *)
DefaultCheck ==
  /\ stage = "running" /\ ~jammed
  /\ DefaultChanged
  /\ End
  /\ UNCHANGED endpoints

----------------------------------------------------------------------------
(* The devices.                                                             *)

Unplug(d) ==
  /\ Change
  /\ d \in plugged /\ plugged' = plugged \ {d}
  /\ default' \in IF d # default THEN {default}
                  ELSE IF plugged' = {} THEN {NoDevice} ELSE plugged'
  /\ lost' = (lost \/ (stage = "running" /\ device = d))
  /\ UNCHANGED <<flow, stage, device, id, jammed, session, stream>>

Plug(d) ==
  /\ Change
  /\ d \notin plugged /\ plugged' = plugged \cup {d}
  /\ default' \in {default, d} \ {NoDevice}
  /\ UNCHANGED <<flow, loop, stream>>

Choose(d) ==
  /\ Change
  /\ d \in plugged \ {default} /\ default' = d
  /\ UNCHANGED <<flow, plugged, loop, stream>>

Next ==
  \/ \E n \in 1..MaxBlock : Packet(n) \/ Request(n)
  \/ Resolve \/ Activate \/ CallFails \/ DefaultCheck \/ Jam \/ Unjam
  \/ \E d \in Devices : Unplug(d) \/ Plug(d) \/ Choose(d)

Spec == Init /\ [][Next]_vars

(* The loop keeps running, and a poll that can be made is made.  Nothing    *)
(* says that GetBuffer works again.                                         *)
FairSpec == Spec /\ WF_vars(Resolve) /\ WF_vars(Activate) /\ WF_vars(DefaultCheck)

----------------------------------------------------------------------------
SampleType == [session : Nat, at : Nat]

(* The types, and the bound on the buffer that cutting it is for            *)
(* (WasapiCaptureEngine.cpp:100-106, PlaybackMixer.cpp:374-382): one sample *)
(* is left of the packets, and at most a chunk more of what was mixed.  It  *)
(* holds for steps of at most two samples, as with a microphone of at most  *)
(* 96 kHz; beyond, the cursor may stay past the end.                        *)
TypeOK ==
  /\ flow \in {"Capture", "Render"}
  /\ plugged \subseteq Devices /\ default \in plugged \cup {NoDevice}
  /\ stage \in {"waiting", "resolved", "running"}
  /\ device \in Devices \cup {NoDevice} /\ (stage = "waiting" <=> device = NoDevice)
  /\ id \in {device, NoDevice} /\ lost \in BOOLEAN /\ jammed \in BOOLEAN
  /\ session \in Nat /\ changes \in Nat
  /\ head \in Nat /\ size \in Nat /\ cursor \in Nat
  /\ frame \in Seq(SampleType) /\ Len(frame) < FrameSamples
  /\ out \in Seq(SampleType)
  /\ (stage = "running" /\ Step <= 2 * Unit) =>
       size <= 1 + IF flow = "Capture" THEN 0 ELSE ChunkFrames

(* Every sample that a session gives to the callback or to the device is    *)
(* interpolated exactly one step after the one before, from the session's   *)
(* own input: no gap and no repeat where one buffer ends and the next       *)
(* begins, also when the cursor ran past the end, and no frame made of two  *)
(* devices (WasapiCaptureEngine.cpp:74-107, :133-137, PlaybackMixer.cpp:    *)
(* 329-382, :193-199).                                                      *)
Contiguous ==
  \A i \in DOMAIN out : out[i] = [session |-> session, at |-> (i - 1) * Step]

(* The loop can see that another device is the default now: the session     *)
(* knows what it was opened for, and comes to the poll.                     *)
Watching == (stage = "running" => id # NoDevice) /\ ~jammed

(* When the default device stays, the loop ends up with a session on it,    *)
(* whatever was unplugged or failed before (the switch of                   *)
(* WasapiCaptureEngine.cpp:266-275), provided that in the end it can see    *)
(* the default: a session without an id, or one whose GetBuffer goes on     *)
(* failing, never switches.  Speakers with a format that cannot be written  *)
(* are given up.                                                            *)
SwitchFollowed ==
  <>[]Watching =>
    \A d \in Devices :
      <>[](default = d /\ ~(flow = "Render" /\ d \in Exotic)) =>
        <>[](stage = "running" /\ device = d)

(* "the endpoint being unplugged or invalidated later [...] Now each of     *)
(* those cases just ends a session and a fresh one is opened a second       *)
(* later" (WasapiCaptureEngine.cpp:112-118): a microphone that stays the    *)
(* default ends up with a session that hears it.                            *)
Reopens ==
  flow = "Capture" /\ <>[]Watching =>
    \A d \in Devices :
      <>[](default = d) => <>[](stage = "running" /\ device = d /\ ~lost)

=============================================================================
