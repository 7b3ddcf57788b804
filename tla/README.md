# Verification of Task Force Radio Standalone

Task Force Radio Standalone (TFRS) carries the voice of an Arma 3 mission over its own UDP relay. This
directory holds TLA+ models of the code that decides who is connected, who can be heard, what is played
and when a microphone is open; TLC configurations that check them on small instances; and TLAPS proofs of
the properties that matter most. Paths below are relative to `src/`; `EXT` stands for
`addon/extensions/task_force_radio_pipe/src`.

## Inventory

Two programs talk to each other over UDP. The **relay** is a C# service. The **extension** is a C++ DLL in
every player's game; it runs five threads: the game's own thread (commands from SQF), the sender thread
(a tick every 66 ms), the network worker, the capture thread and the playback thread.

| Part | State | Operations | What is hard | What makes it correct |
|---|---|---|---|---|
| Voice relay, `voice-server/src/Tfrs.VoiceServer/RelayServer.cs` | `_sessionsByEndPoint`, `_sessionsById`, `_sessionsByUid`, `_nextSessionId`, `LastSeenUtc` | one handler per packet type on the receive loop; a timeout sweep every five seconds | two threads work on three dictionaries without a lock; a reconnect races the sweep; endpoints are shared behind NAT | the indexes agree, capacity, every peer is announced, a session that left is gone for good, slots are freed |
| Network client, `EXT/Voice/VoiceNetworkClient.cpp` | desired and handshaken settings, the socket, `m_connected`, ping and receive times | `setServer`, `setIdentity`, the worker loop (handshake with retries, pump, ping, watchdog), sending | settings change during a handshake; late replies; a relay that forgets the client; a socket that never empties | ends up connected with what the game wants; keeps pinging |
| Voice session, `EXT/Voice/VoiceSession.cpp` with the source map of `PlaybackMixer.cpp` | roster by UID and by name, transmission cache, last active sessions, sources | network callbacks (joined, left, radio, connection), `applyAudibility` | callbacks on one thread, snapshots on another, locks released in between; lost and overtaken announcements; identity changes | nobody is audible whom the snapshot does not name; every registered player is found |
| Radio transmissions, `senderMain` in `EXT/Extension.cpp`, `onRadioTx`, `setRemoteTx` | what was announced last, repetitions left, two caches with an expiry each | announce, refresh, repeat the end; receive; expire | lost and late datagrams against three timers | receivers agree with the transmitter, no dropouts, no stuck transmission |
| Transmit gate, `EXT/State.cpp`, `EXT/Voice/TransmitController.cpp` | tangent, life, pending override; two atomics; mode, PTT, mute; voice activation hangover | TANGENT, KILLED, FREQ, RELEASE_ALL_TANGENTS, MISSIONEND, MICPTT, MICMUTE; the tick; a decision per frame | three threads; a single slot; two atomics read one after the other | no hot microphone, no lost change, a talkspurt is ended |
| Remote voice source, `EXT/Voice/RemoteVoiceSource.cpp` | queue, playing flag, concealment count, cues | `enqueueOpusFrame`, `setStates`, `triggerBeep`, `render` | bursts, gaps, loss, overflow, audibility changing in the middle of a talkspurt | order, no smear, silence in the end, cues played |
| Audibility solver, `EXT/State.cpp` 528-855 | players, speakers, towers, frequencies, remote transmissions | `computeAudibleUnits`, `speakingPair` | many paths and settings; ducking uses the tick before | which paths exist, and that the indicators agree with them |
| Settings and hint, `EXT/CommandProcessor.cpp`, `EXT/State.cpp` 345-396, the scripts that relay settings | configuration, whether one arrived, when it was asked for, when the connection was first seen down | SETCFG, DFRAME, POS, MISSIONEND; the sender thread's reading of settings | 3 s re-ask, 10 s grace, a tick that reads setting by setting while they change | the game is asked until it answers; the session ends up with the game's settings; no false hint |
| Device loops, `PlaybackMixer.cpp`, `WasapiCaptureEngine.cpp` | resampler cursor, buffered samples, the frame begun, the device of the session | supervision loop, poll of the default device, packets and requests with resampling | device loss in the middle of anything, sample rates whose steps pass the end of a buffer | no sample lost, repeated or mixed between sessions; ends up on the default device |
| Wire format, `Protocol.cs`, `Protocol.cpp` | none | write and read of each field | truncation, limits | the codecs agree |
| The rest (options, helpers, codec wrapper, DSP, log, generated cues, SQF scripts, vendored opus and rnnoise) | | | | see `PROJECT.json` |

How they interact: SQF calls `RVExtension`, `CommandProcessor` changes `State` under its mutex; the sender
thread reads `State` each tick, announces the own transmission, hands settings and identity to the network
client, the override to the transmit controller and the audibility rows to the voice session. The network
worker calls back into the voice session, which changes the mixer and the roster under different locks. The
capture thread decides about each frame and sends it; the playback thread renders every source. `PROJECT.json`
lists the hazards, each at its line, with the properties that would catch it.

## Modules

| Module | Models | Atomicity and abstraction |
|---|---|---|
| `RelayServer` | the relay | one action per dictionary operation of the connect and disconnect handlers and of the sweep; handlers that make one lookup are one action, and a greeting or a roster is copied in one and sent in another. The sweep walks a copy and reads only `LastSeenUtc`, so it also removes by key, and announces a second time, a session that a handler has removed meanwhile. A datagram is its type, receiver and session. `age` is the time since `LastSeenUtc` in ticks |
| `SessionRegistry` | what the relay promises about sessions | abstract: an id is reserved, joins once, and is gone for good when it has left. `RelayServer` instantiates it, mapping the registered set to `_sessionsById` and the reserved id to the handler's local |
| `VoiceNetworkClient` | the worker, composed with the relay as one client sees it and a network that loses and delays | the worker's steps between two blocking calls; settings as one value out of unset, good, refused, dead; a payload is irrelevant. Of the relay it has the three dictionaries as far as this player's sessions go, the sweep in its steps, and the places that other players leave: a session whose endpoint entry was overwritten stays in the other two dictionaries, and its eviction or timeout removes the entry by key. `RelayServer` has the operations inside a handler, which are one step here |
| `VoiceSession` | roster, sources, snapshots | one action per lock held; the relay copies its sessions in one step and announces them one by one, while its sweep removes and announces in two steps of its own; the announcements are a queue with losses and overtaking; a snapshot is an arbitrary set of rows, each naming a player by UID or nickname. *History*: `crossed`, the sessions announced as left while a copy still held them, and `shared`, the UIDs that had two sessions at once |
| `RadioTx` | one transmitter and one receiver | time in ticks of 66 ms; a channel stands for frequency, range and subtype |
| `TransmitGate` | the override from the tangent to the frame | the two stores and the two loads of the atomics are separate actions; the level of a frame and whether it can be encoded are arbitrary choices. `open` says whether the receivers have had a frame since the last `LastFrame`, `unended` that a `LastFrame` could not be encoded (*history*) |
| `RemoteVoiceSource` | one playback source and its sender | every operation is one step, as the mixer holds its mutex around each; audio is the number of the frame |
| `Audibility` | `computeAudibleUnits` and the commands that feed it | a snapshot is one action under the mutex of `State`. A report holds the tests the solver makes on a player (near, in range, long range usable, in the same vehicle, the towers in between), not positions; a row is its player, path, radio and whether it is ducked |
| `GameLink` | the settings and the hint, from the scripts to the voice session | one action per SETCFG, DFRAME, POS and per setting the tick reads. The settings are the two keys of the server's address; the others are relayed and read the same way. Time in units of which three seconds and the grace period are a few |
| `AudioDevices` | both device loops, one per behaviour (`flow`) | one action per packet, request or call that fails. The mixer's retry of a failing `GetBuffer` past its poll is a state of its own (`jammed`), as is a session that could not read the id of its device. Samples are numbered, the cursor counts exact fractions where the code adds doubles |
| `MC*` | instances for TLC | symmetry for the safety run of the relay only |
| `RelayServerProofs`, `VoiceSessionProofs`, `RadioTxProofs`, `OutgoingProofs`, `RemoteVoiceSourceProofs`, `AudibilityProofs`, `GameLinkProofs`, `AudioDevicesProofs` | proofs | `OutgoingProofs` extends both `TransmitGate`, whose general names begin with `Gate` or `gate` for that reason, and `VoiceNetworkClient`; the two share no variable |

Variables keep the names of the members or say in their comment which member they stand for; variables
marked *history* do not exist in the code and no guard reads them; counters such as `calls`, `events` and
`budget` only bound the environment. Definitions marked *Mutant* are plausible bugs that no specification uses; each is there to
show that a property notices it.

## What the runs show

| Run | Checks | Instance and why it is enough |
|---|---|---|
| `relay` | `TypeOK`, `CapacityBound`, `IndexesSound`, `PeersAnnounced`, `RegistryContract`, `SweepLeavesNoStale` | three UIDs and two endpoints, so that endpoints are shared and a third client meets a full relay; three ids |
| `client` | `TypeOK`, `ConnectedMeansAccepted`, `KeepsPinging`, `LeftoversGo`, `Converges` | two disturbances at any point: any pair of settings changes, lost or held-back datagrams, places taken or left by others, a relay restart, a failed socket. The first settings count as one of them. Two ports and two identities make a handshake overwrite what an earlier one left; two places make the relay full; four session objects are more than it can have hold of at a time. Two attempts per handshake and two datagrams per pump make both limits bite. The ping interval is below both timeouts |
| `session` | `TypeOK`, `OnlySnapshotAudible`, `RosterHasSources`, `SourcesFollowRelay`, `PeersFound` | one player with both its names, three ids (reused after a restart of the relay), four events out of connecting, snapshots, lost or overtaken datagrams and disconnects; departures and the sweep are not counted. A second player adds interleavings only: players share neither UIDs nor nicknames, and every mutant is found with one |
| `radiotx` | `TypeOK`, `TalkingBounded`, `NoDropout`, `CueAtStart`, `Agreement` | the real ratios: refresh after 8 ticks (500 ms), expiry after 23 (1.5 s), two repetitions; three presses, releases or changes of the frequency, so that a transmission can begin while what is left of the one before runs out; two faults, since three refreshes exceed one expiry |
| `gate` | `GateTypeOK`, `NoHotMic`, `LastQueuedWins`, `BlockEndsTalkspurt` | five calls of the game on two frequencies: press, release, death, respawn and one more |
| `jitter` | `TypeOK`, `NoSmear`, `InOrder`, `FallsSilent`, `NothingStuck`, `CuePlayed` | cushion 3 and limit 4 with six frames: the queue overflows, waits and runs dry; one loss, one overtaking frame, one cue |
| `audibility` | `TypeOK`, `DuckingFollows`, `FallsQuiet` | two other players with reports that reach every path (near, by radio through a tower, spectating), two tunings, a loud and a quiet radio, speakers that stand and speakers that move with their owner, both duplex settings; five calls, enough for two players, a tuning, a transmission and one disturbance |
| `gamelink` | `TypeOK`, `SettingsConverge`, `HintMeansDown` | two keys and two values, so that a tick can read a mixture; three events out of changes, missions and lost connections; question and grace period of different lengths, so that either may end first |
| `devices` | `TypeOK`, `Contiguous`, `SwitchFollowed` | in units of 16 kHz a base of 3 with devices of 2, 3 and 7: steps below one sample, of exactly one, and beyond the end of a packet; packets and requests of up to three, frames and chunks of two; four changes, be they devices plugged, unplugged or chosen, or calls that fail |
| `relay_one_session_per_uid` | `OneSessionPerUid` violated | see below |
| `radiotx_release` | `ReleaseIsCrisp` violated | see below |
| `devices_replug` | `Reopens` violated | see below |

One step beyond its bound there is no violation either in `audibility` with six calls, `gate` with seven,
`gamelink` with four events, `devices` with five changes, and `jitter` with two losses, two cues or eight frames.
`relay` with four ids and `session` with five events are too large to finish; the first 7.7 and 5.8 million states
violate no invariant. `client` with three disturbances was not finished either.

### Where code and comments disagree

* `RelayServer.cs:145` drops "any stale session for the same UID". The sweep removes `_sessionsByUid` by key
  (line 320) after it chose a session; if that client reconnects in between, the new session's entry is
  removed, and the next reconnect leaves two sessions of one UID.
* `Extension.cpp:118` repeats the end of a transmission so that a release stays crisp. The end erases the
  first cache and is never passed on to the second, so that a release counts as transmitting for 1.5 s more.
* `WasapiCaptureEngine.cpp:112-118` says that a device that is unplugged or invalidated "just ends a session
  and a fresh one is opened a second later". Only a failing `GetBuffer` does. When `GetNextPacketSize` is the
  call that fails (line 227) the loop over packets ends without a mark, and the session waits on a dead client
  until another device is the default. A headset that is unplugged and plugged in again between two polls, or
  that is the only microphone, stays silent.

Further observations made while modelling, each visible in the modules and without a run of its own:

* `docs/protocol-network.md:148` forwards voice "to every other connected client". A client that reconnects
  under another UID from the same endpoint gets its own voice back, through the old session, until the sweep
  (`RelayServer.cs:166`, 243).
* A newcomer may be greeted with a session that the sweep has just removed, and a roster may name one
  (`RelayServer.cs:175`, 190). If the sweep's `ClientLeft` goes out between the copy and the `ClientJoined`, the
  source and the roster entries of nobody stay until the next disconnect, with no datagram lost. `crossed` in
  `SourcesFollowRelay` are these sessions, and the property says that there are no others.
* A session that a handler evicts or disconnects while the sweep holds it in its copy is announced as left
  twice (`RelayServer.cs:314-322`). `Left` is idempotent for the receivers, as ids are not reused.
* A session whose UID entry the sweep has removed (the race above) is found by nothing but its endpoint. If its
  client reconnects from the same port, the new session overwrites that entry; when the old one times out, the
  sweep removes the new one's entries by key (`RelayServer.cs:318-320`), the client hears no answer to its pings
  any more and reconnects, and if it gets the same port once more, leaves behind another session of that kind: TLC
  finds that this can go on for ever. It takes a NAT that hands the port out again, which the comment at
  `VoiceNetworkClient.cpp:214-224` expects of NATs. `Converges` and `LeftoversGo` have the premise that in the end
  a port is not handed out before the relay has done with its sessions, and each shows the recovery from the
  leftovers of before.
* The intercom is silent for somebody who transmits, received or not, because it asks for no transmission at all
  (`State.cpp:753`), although `State.cpp:571` says that every way a player is heard is emitted.
* The mixer takes a `GetBuffer` that fails with anything but an invalid device for transient, and goes back to its
  event past the poll of the default device (`PlaybackMixer.cpp:317`), without a limit; and a session that could
  not read the id of its device never switches (`PlaybackMixer.cpp:394`, `WasapiCaptureEngine.cpp:271`).
  `SwitchFollowed` is stated for a loop that does neither in the end (`Watching`).
* When a `LastFrame` cannot be encoded the talkspurt counts as ended all the same
  (`TransmitController.cpp:173-183`), and the receivers run into concealment: `unended` in `BlockEndsTalkspurt`.
* The roster that `docs/protocol-network.md:176` calls a safety net for lost announcements restores lost
  `ClientJoined` only: after a lost `ClientLeft` the session stays in roster and mixer until a disconnect.
* The two expiries of a transmission run in series, so that a transmitter that vanishes counts as
  transmitting for up to 3 s, not the 1.5 s of `Extension.cpp:115`; `TalkingBounded` states what holds.
* After a lost end an expired cache entry still counts as active, and the next start has no cue
  (`VoiceSession.cpp:82`). `CueAtStart` is therefore stated for the time before the first fault.
* The FREQ that reports the respawn drops the override of a tangent pressed since (`State.cpp:159`), and a
  release that arrives after KILLED lifts the death mute (`State.cpp:190`).
* A talkspurt shorter than the cushion whose `LastFrame` is lost stays queued until the next transmission
  (`RemoteVoiceSource.cpp:118`). `NothingStuck` is therefore stated for talkspurts that arrive complete.
* `State.h:148` says the own UID does not fall back to the nickname; `myUid` does (`State.cpp:405`).
* `VoiceNetworkClient.h:54` promises a disconnect when the server changes while connected. With an emptied
  address `threadMain` (line 456) skips the reconnect and everything else and stays connected, without pinging.
* `TransmitController.h:46` defines the override, but its two atomics are stored one after the other
  (`TransmitController.cpp:45-48`): a frame between the two stores of a forced transmission is blocked.
* A change of a setting that is relayed before the first DFRAME counts as the answer to a question nobody
  asked (`State.cpp:235`), and the other settings of the game are not sent: the exception `cut` of
  `SettingsConverge`.
* The time since the connection was first seen down survives the end of a mission
  (`CommandProcessor.cpp:55`, 74), so that the hint may come with the first POS of the next one, and two
  outages between which no POS saw the connection up count as one: `HintMeansDown` states what holds.
* `State.cpp:571` emits every way a player is heard; of the two radios a frequency may be tuned on, only the
  long-range one is taken where it can be used.
* The mixer notices a lost device only when its event is signalled once more (`PlaybackMixer.cpp:306`); a
  microphone above 96 kHz may leave the cursor beyond the end of its buffer packet after packet, and nothing
  is cut then (`WasapiCaptureEngine.cpp:103`). Neither affects `Contiguous`; the bound on the buffer in `TypeOK`
  is stated for slower devices.
* A mission slot that another player takes over keeps its nickname's entry in the table of UIDs while
  `fnc_sendPlayerInfo.sqf:71` sends a UID once per unit; names longer than 32 bytes are truncated by the wire
  format, so that the fallback to the nickname does not find them.

## Fairness

* Relay: none. That timed-out sessions go away is stated of each sweep (`SweepLeavesNoStale`), not of time.
* Client: the worker and the relay run; datagrams that are neither lost nor held back arrive. A datagram
  that has arrived is read although more keep arriving (the socket is a queue), and time passes under load:
  strong fairness. Disturbances are bounded, the rest of the behaviour is quiet.
* Session: the worker handles what arrives, reconnects and asks for the roster with every ping;
  the relay finishes the answers it has begun; `applyAudibility` contains no wait but for locks held shortly.
* Transmissions, gate, source: the sender thread ticks every 66 ms, the microphone delivers a frame every
  20 ms, the device asks for a chunk every 20 ms, and received datagrams are handled. In `RemoteVoiceSource` a
  player who talks stops at some time; in `RadioTx` the receiver learns of session and name at some time.

* Audibility: the sender thread takes a snapshot every tick, and time passes.
* Settings: the per-frame handler of the game runs in every frame of a mission, a script that relays settings
  runs to its end, the sender thread ticks, and time passes. Nothing is assumed of POS or the connection.
* Devices: the supervision loop keeps running, so that a device that stays the default is resolved, activated
  and, while the loop comes to its poll, polled for. Nothing is assumed of packets, requests or failures.

Deadlock checking is on in every run but those of `AudioDevices`, whose bounds on samples and device changes may
leave nothing to do.

## What is proved

All theorems hold for every value of the constants that satisfies the named assumptions (timeouts, limits and
bounds are natural numbers, the cushion and the cue are not empty and the queue's limit is not below the
cushion, the refresh interval is shorter than the expiry, "no socket" is not a socket). Three theorems
have a hypothesis on the constants beyond that, `DropoutCorrect`, `SyncKept` and `ConvergesCorrect`, and the
liveness theorems have premises; both are explained below.

### Safety

* `RelayServerProofs`. `TypeCorrect` rests on the types together with what the locals of both threads hold at
  each step (`TypeInv`). `CapacityCorrect` needs that only the receive loop inserts, so that the check of the
  limit is still good when the id is put: the invariant `Capacity` counts the session being admitted.
  `IndexesCorrect` needs `Indexes`: an entry may lead to a session that is gone only while the thread that
  removed it has not yet come to that index, or while the handler has not yet put it. The sweep may hold a session
  that is gone long since; what it then removes by key is some other session's entry, which leaves that session
  without one, but no entry without a session. `AnnouncedCorrect` adds
  `Announced`: every pair of registered sessions is known to each other, except what the greeting under way
  still owes. `RegistryCorrect` shows that every step of the relay is a step of `SessionRegistry` or changes
  nothing of it, the sweep's second removal included.
  `SweepCorrect` follows the snapshot that a sweep took: what it has not come to yet is still in its hands, and
  a session that is refreshed, replaced or joins meanwhile is not stale.
* `OutgoingProofs`, the client. `ClientTypeCorrect` and `AcceptedCorrect` are inductive together with
  `WorkerInv` (where the worker stands decides whether it is connected) and `AcceptInv`: while the worker waits,
  every datagram of its socket belongs to this handshake, so that an `Accept` can only answer the settings that
  `hs` holds. That needs `Fresh`, the assumption on the reuse of ports. `ConnectionKept` follows: a connection
  keeps its socket and settings.
  `SyncKept`: in sync, with no request on its way and nothing left over at its socket (`Synced`), the client stays
  so until the next disturbance. A session left over would take the registration along when it goes, which
  `NoLeftovers` excludes; that the relay's dictionaries lead where they should is `RelayInv`.
  It rests on `SettleInv` (one handshake datagram at a time, and a connected client is registered as what it
  asked for or not at all) and has the hypothesis `Timers`: the ping interval exceeds neither the server timeout
  nor the relay's. The code has 5 seconds against 15 and, by default, 20 (an operator can configure a relay that
  times its clients out between two pings: `ServerOptions.cs:46`). No more can be allowed: with `PingInterval` 2
  and either timeout 1, TLC finds `Converges` violated on the constants of `client`.
* `OutgoingProofs`, the gate. `QueuedCorrect` and `HotMicCorrect` rest on `OverrideInv`: what was queued last is
  in State's slot, or in the hands of the sender thread, or stored, and a force goes with a pressed tangent.
* `VoiceSessionProofs`. `SnapshotCorrect` rests on `SnapInv`: in the middle of a snapshot only what it names,
  what the one before named, or what it has still to silence can be heard; the force of a debugging relay ends
  with the connection, and that callback empties the mixer before anything else. `RosterCorrect` rests on
  `RosterInv`: the only entry without a source is the one of the session whose callback is under way.
  `FollowCorrect` rests on `RelayInv` (ids tell apart the sessions that the dictionary, the copy and the sweep
  hold, and two of one UID are in `shared`), `FollowInv` and `LeadsInv`. In a connection in which nothing was lost or
  overtaken, what is on its way and what the copy still holds make up the difference between the relay's sessions
  and the mixer's sources, but for `crossed`. Of a session whose last word on the way is that it left, there will be
  no source; and the last datagram that concerns the UID of a registered session announces that session, or the
  copy still holds it.
* `RadioTxProofs`. `TalkingCorrect` rests on `HeardInv`: neither of the two places is older than its age says,
  the second adds at most one expiry to the first, and whoever counts as transmitting was there at the last
  tick. `CueCorrect` rests on `AnnouncedInv`: while nothing is lost or late, what the cache knows of is what was
  announced last and no older, and an announcement is due before the cache expires.
  `DropoutCorrect` has the hypothesis `MaxFaults * Refresh + 2 < Expiry`: the faults together must cost less
  than one expiry. With the code's ratios (8 and 23 ticks) that is two faults. No weaker bound holds for every
  value of the constants: where the two sides are equal (`Refresh` 2, `Expiry` 4, `InactiveRepeats` 0,
  `MaxChanges` 4, `MaxFaults` 1) TLC finds an interruption. Its invariant `KeptInv` bounds the age of what
  the receiver has by the refreshes that were lost (`GapInv`); two ticks go to the order in which the clients'
  ticks, a change and the end of the transmission before can fall.
* `RemoteVoiceSourceProofs`. `TypeCorrect` and `SmearCorrect`: types and `NoSmear` are inductive together.
  `OrderCorrect` rests on `OrderInv`: as long as nothing overtook, the last frame heard, the queue and the
  frames on their way are ascending in this order.
* `AudibilityProofs`. `DuckingCorrect` needs that the flag is what the last snapshot found (`Remembered`).
* `GameLinkProofs`. `HintCorrect` needs that a point in time at which the connection was down is not older than
  the last POS that found it up. `ConfigCorrect` states the handshake itself: while no key is left to relay and
  no change cut the question short, a configuration that arrived is the game's.
* `AudioDevicesProofs`. `StreamCorrect` rests on `StreamInv`: the place of the cursor is the number of samples
  handed out and begun times the step. Cutting the buffer moves its beginning by as much as the cursor
  (`DropKeepsPlace`), also when the cursor is beyond the end, and a session starts with nothing. `TypeCorrect`
  needs in addition that the cursor is at most one sample behind the buffer's end (`BufferInv`), which
  steps of at most two samples keep.

### Liveness

The prover knows neither `ENABLED` nor, with it, `WF` and `SF`; and an induction over the natural numbers on a
temporal formula is beyond it. So each liveness theorem states what it needs of the scheduler and of the clocks
as a premise without `ENABLED`, and the theorem is what follows from the premises for every value of the
constants. The premises have three forms.

* *A thread goes on*: `<>[]P => []<><<A>>_vars`, where `P` is a state predicate in which `A` is enabled (or only
  `[]<><<A>>_vars` where `A` always is). This is weak fairness of `A` with the guard written out.
* *The disturbances end*: `<>[][x' = x]_vars` for what the environment may change, and timers run out unless they
  are set back again and again.
* *A natural number does not fall for ever*: `NoEndlessFall(n)`, if `n` falls again and again it rises again and
  again. This holds in every behaviour of any specification in which `n` is a natural number, which each module
  proves of its `n`; it stands for the induction.

TLC confirms that the fairness of each run's specification implies the premises on the run's own instance, and,
for `client` and `jitter`, that the worker and the playback thread are enabled wherever the premise says so.

| Theorem | Property | Argument |
|---|---|---|
| `BlockCorrect` | `BlockEndsTalkspurt` | a blocked frame ends the talkspurt with a `LastFrame`, if that can be encoded, and no frame follows while the block lasts; that the receivers have an open talkspurt only while one runs or its end was given up is `EndInv` |
| `PingCorrect` | `KeepsPinging` | a pump reads at most its limit (`PumpInv`), and from the top of the loop the worker comes to the housekeeping (`DueSteps`); `PumpLeft` falls |
| `FoundCorrect` | `PeersFound` | the client reconnects, the copy and what is on its way run out (`OnWay` falls, as a session of the copy counts for two datagrams), from then on only the relay's sessions are announced (`NetPeers`), and the next roster names each of them (`Aimed`, `Taken`) |
| `AgreementCorrect` | `Agreement` | what is old is off the wire; a silent transmitter runs through both expiries, one that transmits announces within a refresh, and the receiver knows it from then on |
| `ConvergesCorrect` | `Converges` | stale requests run out (`StaleSteps`). A client that stays connected is known to the relay, or its inbox runs dry and the watchdog ends the connection (`UnknownSteps`); one that does not begins an attempt with the settings wanted, which is answered before a tick can pass (`AnsweringSteps`), and then `SyncedSteps` holds it. Hypothesis `Timers`, premise `RelaySettles` |
| `SilenceCorrect` | `FallsSilent` | `Remaining`, the chunks that the queue and the concealment can still fill, falls with every chunk that is not silent (`SilenceNears`) |
| `StuckCorrect` | `NothingStuck` | without loss a queue that the network has left ends with a `LastFrame` (`EndInv`), so that it may always be played (`CompletePlays`) |
| `CueCorrect` | `CuePlayed` | `CueLeft` falls with every chunk that has a radio path, and only a new cue raises it (`CueNears`) |
| `QuietCorrect` | `FallsQuiet` | what is stale stays so, and the snapshot after that finds nobody |
| `ConvergenceCorrect` | `SettingsConverge` | the game is asked until it answers, the answer is complete or was cut (`ConfigCorrect`), and the next tick that nothing disturbs hands it on |
| `SwitchCorrect` | `SwitchFollowed` | a session on another device is noticed by the poll, which is reached again and again by the premise of the property (`Watching`), and the loop comes back to the default device |

`ConvergesCorrect` has three more premises of the first form: an attempt ends and the next finds a port
(`AttemptsEnd`), a request still on its way when nothing else concerns it arrives (`RequestsArrive`), and the
watchdog's clock runs while the client is connected and hears nothing (`WatchdogRuns`). `RelaySettles` says that the
sweep finishes what it began, and that in the end nothing is left over at the socket and the relay has room for the
client: the second half is what `LeftoversGo` shows on the instance of `client`, and it is not proved.

Only model-checked: that the fairness implies these premises, and `LeftoversGo`.

## Not modelled

Most lines of the repository carry no control: the generated cue sounds (`RadioBeepAssets.cpp`, 15119 lines of
sample data), the vendored CBA macros and codecs, the dialogs and inventory scripts of the addon. The models
cover nearly all of what is left to interleave, fail or time out. Also left out:

* the values of samples: codec, DSP, panning, gains, the limiter;
* the wire format's two codecs and the splitting of command texts: straight-line code without state;
* logging, reading of options, COM and the device identifiers of Windows;
* the SQF scripts apart from those in `GameLink`: the models take their calls in any order instead;
* `stop()` of the components: the extension never stops its threads;
* the race on the socket handle between the worker's close and other threads' sends
  (`VoiceNetworkClient.cpp:120`), listed as a hazard; the model takes both as atomic;
* the identity of a player across missions (`State.cpp:325`), listed as a hazard: which slots the next mission
  reuses is up to the game.

## Plan

1. Arrival times for the jitter buffer: no concealment while the jitter stays below the cushion.
2. The table of UIDs across missions, with the slots of a mission as environment.
