--------------------------- MODULE OutgoingProofs ---------------------------
(***************************************************************************)
(* Proofs about what a client sends: whether the microphone is open        *)
(* (TransmitGate), for any set of frequencies, any hangover and any number *)
(* of calls, and to whom its frames go (VoiceNetworkClient), for any       *)
(* sockets and identities, any timers and any number of disturbances.  The *)
(* two have no variable in common; each theorem is about one of them.      *)
(***************************************************************************)
EXTENDS TransmitGate, VoiceNetworkClient, FiniteSetTheorems, TLAPS

----------------------------------------------------------------------------
(* TransmitGate.                                                            *)

(* The override on its way: what was queued last is in State's slot, or     *)
(* being stored by the sender thread, or stored; a force that was queued    *)
(* last goes with a pressed tangent.                                        *)
OverrideInv ==
  /\ wanted = "force" => tangent
  /\ pending # Nothing => pending = wanted
  /\ pending = Nothing /\ tickStep # "idle" => taken = wanted
  /\ tickStep = "value" => has = (taken # "none")
  /\ tickStep # "idle" => taken \in Overrides
  /\ Settled => Stored = wanted

(* A talkspurt that is over was closed by its LastFrame, or the encoder      *)
(* failed for that.                                                         *)
EndInv == ~was => (open => unended)

GateInv == GateTypeOK /\ OverrideInv /\ EndInv

(* Every action of the game, the sender thread and the capture thread       *)
(* preserves the types.                                                     *)
LEMMA GateTypePreserved == GateTypeOK /\ [GateNext]_gateVars => GateTypeOK'
<1> SUFFICES ASSUME GateTypeOK, [GateNext]_gateVars PROVE GateTypeOK'
  OBVIOUS
<1> USE GateAssumption DEF GateTypeOK, Overrides, Modes, Nothing, Queue, Call, Unchanged, game, tick,
        switches, capture
<1>1. CASE UNCHANGED gateVars
  BY <1>1 DEF gateVars
<1>2. ASSUME NEW f \in Frequencies, TangentPressed(f) PROVE GateTypeOK'
  BY <1>2 DEF TangentPressed
<1>3. ASSUME NEW f \in Frequencies, TangentReleased(f) PROVE GateTypeOK'
  <2>1. tangent' \in BOOLEAN
    BY Zenon, <1>3 DEF TangentReleased
  <2> QED
    BY <2>1, <1>3 DEF TangentReleased
<1>4. CASE ReleaseAllTangents
  <2>1. tangent' \in BOOLEAN
    BY Zenon, <1>4 DEF ReleaseAllTangents
  <2> QED
    BY <2>1, <1>4 DEF ReleaseAllTangents
<1>5. CASE Killed
  <2>1. living' \in BOOLEAN
    BY Zenon, <1>5 DEF Killed
  <2>2. CASE named
    <3>1. alive' \in BOOLEAN /\ tangent' \in BOOLEAN
      BY Zenon, <1>5, <2>2 DEF Killed
    <3> QED
      BY <2>1, <3>1, <1>5, <2>2 DEF Killed
  <2>3. CASE ~named
    BY <2>1, <1>5, <2>3 DEF Killed
  <2> QED
    BY <2>2, <2>3
<1>6. CASE Respawn
  BY <1>6 DEF Respawn
<1>7. CASE HandleFreq
  BY <1>7 DEF HandleFreq
<1>8. CASE MissionEnd
  <2>1. alive' \in BOOLEAN /\ tangent' \in BOOLEAN
    BY Zenon, <1>8 DEF MissionEnd
  <2> QED
    BY <2>1, <1>8 DEF MissionEnd
<1>9. ASSUME NEW held \in BOOLEAN, MicPtt(held) PROVE GateTypeOK'
  BY <1>9 DEF MicPtt
<1>10. CASE MicMute
  BY <1>10 DEF MicMute
<1>11. ASSUME NEW m \in Modes, SetMode(m) PROVE GateTypeOK'
  BY <1>11 DEF SetMode
<1>12. CASE TakeTransmitOverride
  BY <1>12 DEF TakeTransmitOverride
<1>13. CASE StoreHas
  BY <1>13 DEF StoreHas
<1>14. CASE StoreValue
  BY <1>14 DEF StoreValue
<1>15. CASE ReadHas
  BY <1>15 DEF ReadHas
<1>16. ASSUME NEW encoded \in BOOLEAN, DecideOverride(encoded) PROVE GateTypeOK'
  <2>1. was' \in BOOLEAN /\ open' \in BOOLEAN /\ unended' \in BOOLEAN
    BY Zenon, <1>16 DEF DecideOverride, Emit
  <2> QED
    BY <2>1, <1>16 DEF DecideOverride, Emit, Earlier
<1>17. ASSUME NEW encoded \in BOOLEAN, NEW voice \in BOOLEAN, DecideGate(voice, encoded)
       PROVE  GateTypeOK'
  <2>1. was' \in BOOLEAN /\ open' \in BOOLEAN /\ unended' \in BOOLEAN
    BY Zenon, <1>17 DEF DecideGate, Emit, Gate
  <2> QED
    BY <2>1, <1>17 DEF DecideGate, Emit, Earlier, Gate
<1> QED
  BY <1>1, <1>2, <1>3, <1>4, <1>5, <1>6, <1>7, <1>8, <1>9, <1>10, <1>11, <1>12, <1>13,
     <1>14, <1>15, <1>16, <1>17 DEF GateNext, Game, Sender, Capture

(* The control of the override: the steps that queue, take and store it.    *)
LEMMA OverridePreserved == GateInv /\ [GateNext]_gateVars => OverrideInv'
<1> SUFFICES ASSUME GateTypeOK, OverrideInv, [GateNext]_gateVars PROVE OverrideInv'
  BY DEF GateInv
<1> USE DEF OverrideInv, Settled, Stored, Nothing, Queue, Call, game, tick, capture
<1>1. CASE UNCHANGED gateVars
  BY <1>1 DEF gateVars
<1>2. ASSUME NEW f \in Frequencies, TangentPressed(f) PROVE OverrideInv'
  BY <1>2 DEF TangentPressed
<1>3. ASSUME NEW f \in Frequencies, TangentReleased(f) PROVE OverrideInv'
  BY <1>3 DEF TangentReleased
<1>4. CASE ReleaseAllTangents
  BY <1>4 DEF ReleaseAllTangents
<1>5. CASE Killed
  BY <1>5 DEF Killed
<1>6. CASE Respawn
  BY <1>6 DEF Respawn
<1>7. CASE HandleFreq
  BY <1>7 DEF HandleFreq
<1>8. CASE MissionEnd
  BY <1>8 DEF MissionEnd
<1>9. ASSUME NEW held \in BOOLEAN, MicPtt(held) PROVE OverrideInv'
  BY <1>9 DEF MicPtt
<1>10. CASE MicMute
  BY <1>10 DEF MicMute
<1>11. ASSUME NEW m \in Modes, SetMode(m) PROVE OverrideInv'
  BY <1>11 DEF SetMode
<1>12. CASE TakeTransmitOverride
  BY <1>12 DEF TakeTransmitOverride, GateTypeOK, Overrides
<1>13. CASE StoreHas
  BY <1>13 DEF StoreHas
<1>14. CASE StoreValue
  <2>1. taken \in {"none", "force", "block"} /\ has = (taken # "none")
    BY <1>14 DEF StoreValue, Overrides
  <2>2. value' = (taken = "force") /\ has' = has /\ wanted' = wanted /\ pending' = pending
    BY <1>14 DEF StoreValue
  <2>3. tickStep' = "idle" /\ tickStep = "value" /\ tangent' = tangent
    BY <1>14 DEF StoreValue
  <2>4. pending = Nothing => Stored' = wanted'
    BY <2>1, <2>2, <2>3
  <2> QED
    BY <2>2, <2>3, <2>4
<1>15. CASE ReadHas
  BY <1>15 DEF ReadHas
<1>16. ASSUME NEW encoded \in BOOLEAN, DecideOverride(encoded) PROVE OverrideInv'
  BY <1>16 DEF DecideOverride, Emit
<1>17. ASSUME NEW encoded \in BOOLEAN, NEW voice \in BOOLEAN, DecideGate(voice, encoded)
       PROVE  OverrideInv'
  BY <1>17 DEF DecideGate, Emit
<1> QED
  BY <1>1, <1>2, <1>3, <1>4, <1>5, <1>6, <1>7, <1>8, <1>9, <1>10, <1>11, <1>12, <1>13,
     <1>14, <1>15, <1>16, <1>17 DEF GateNext, Game, Sender, Capture

(* Only the capture thread sends, and what it leaves open it keeps an       *)
(* account of.                                                              *)
LEMMA EndPreserved == GateInv /\ [GateNext]_gateVars => EndInv'
<1> SUFFICES ASSUME GateTypeOK, EndInv, [GateNext]_gateVars PROVE EndInv'
  BY DEF GateInv
<1> USE DEF EndInv
<1>1. CASE UNCHANGED gateVars
  BY <1>1 DEF gateVars
<1>2. CASE Game
  <2>1. Call
    BY <1>2, Zenon DEF Game, TangentPressed, TangentReleased, ReleaseAllTangents, Killed, Respawn,
         HandleFreq, MissionEnd, MicPtt, MicMute, SetMode
  <2> QED
    BY <2>1 DEF Call, capture
<1>3. CASE Sender
  BY Zenon, <1>3 DEF Sender, TakeTransmitOverride, StoreHas, StoreValue, capture
<1>4. CASE ReadHas
  BY <1>4 DEF ReadHas
<1>5. ASSUME NEW should, NEW why, NEW encoded, Emit(should, why, encoded) PROVE EndInv'
  BY Zenon, <1>5 DEF Emit
<1> QED
  BY <1>1, <1>2, <1>3, <1>4, <1>5 DEF GateNext, Capture, DecideOverride, DecideGate

(* The inductive invariant holds in every behaviour.                        *)
THEOREM GateInvariant == GateSpec => []GateInv
<1>1. GateInit => GateInv
  <2> SUFFICES ASSUME GateInit PROVE GateInv
    OBVIOUS
  <2>1. /\ living \in BOOLEAN /\ alive \in BOOLEAN /\ named \in BOOLEAN /\ tangent \in BOOLEAN
        /\ has \in BOOLEAN /\ value \in BOOLEAN /\ ptt \in BOOLEAN /\ muted \in BOOLEAN
        /\ was \in BOOLEAN /\ open \in BOOLEAN /\ unended \in BOOLEAN
    BY Zenon DEF GateInit
  <2>2. GateTypeOK
    BY <2>1, GateAssumption DEF GateInit, GateTypeOK, Overrides, Modes, Nothing
  <2>3. OverrideInv
    BY DEF GateInit, OverrideInv, Settled, Stored, Nothing
  <2>4. EndInv
    BY Zenon DEF GateInit, EndInv
  <2> QED
    BY <2>2, <2>3, <2>4 DEF GateInv
<1>2. GateInv /\ [GateNext]_gateVars => GateInv'
  BY GateTypePreserved, OverridePreserved, EndPreserved DEF GateInv
<1> QED
  BY <1>1, <1>2, PTL DEF GateSpec

(* The variables of State, TransmitController and the threads keep their    *)
(* types.                                                                   *)
THEOREM GateTypeCorrect == GateSpec => []GateTypeOK
<1>1. GateInv => GateTypeOK
  BY DEF GateInv
<1> QED
  BY <1>1, GateInvariant, PTL

(* What State queued last is what the capture thread goes by once the       *)
(* sender thread has caught up.                                             *)
THEOREM QueuedCorrect == GateSpec => []LastQueuedWins
<1>1. GateInv => LastQueuedWins
  BY DEF GateInv, OverrideInv, LastQueuedWins
<1> QED
  BY <1>1, GateInvariant, PTL

(* A transmission is forced only while the tangent is pressed.              *)
THEOREM HotMicCorrect == GateSpec => []NoHotMic
<1>1. GateInv => NoHotMic
  BY DEF GateInv, OverrideInv, NoHotMic
<1> QED
  BY <1>1, GateInvariant, PTL

(* A block is in effect; the capture thread has decided by it and sends     *)
(* nothing.                                                                 *)
Blocked == Stored = "block"
Silenced == frameStep # "gate" /\ ~was

(* While a block is in effect, a frame that was begun without it ends, the  *)
(* next sees it, and whoever decided by it decides so again.                *)
LEMMA BlockSteps ==
  ASSUME GateTypeOK, Blocked, [GateNext]_gateVars
  PROVE  /\ frameStep = "gate" => frameStep' \in {"gate", "idle"}
         /\ frameStep = "idle" => frameStep' \in {"idle", "override"}
         /\ frameStep = "override" => frameStep' = "override" \/ Silenced'
         /\ Silenced => Silenced'
<1> USE DEF Blocked, Stored, Silenced, capture, GateTypeOK
<1>1. CASE Game
  <2>1. Call
    BY <1>1, Zenon DEF Game, TangentPressed, TangentReleased, ReleaseAllTangents, Killed, Respawn,
         HandleFreq, MissionEnd, MicPtt, MicMute, SetMode
  <2> QED
    BY <2>1 DEF Call, GateTypeOK
<1>2. CASE Sender
  BY <1>2 DEF Sender, TakeTransmitOverride, StoreHas, StoreValue
<1>3. CASE ReadHas
  BY <1>3 DEF ReadHas
<1>4. CASE \E encoded \in BOOLEAN : DecideOverride(encoded)
  BY <1>4 DEF DecideOverride, Emit
<1>5. CASE \E encoded, voice \in BOOLEAN : DecideGate(voice, encoded)
  BY <1>5 DEF DecideGate, Emit
<1>6. CASE UNCHANGED gateVars
  BY <1>6 DEF gateVars
<1> QED
  BY <1>1, <1>2, <1>3, <1>4, <1>5, <1>6 DEF GateNext, Capture

(* Every step of the capture thread brings it nearer to that.               *)
LEMMA CaptureMoves ==
  ASSUME GateTypeOK, Blocked, Capture
  PROVE  /\ frameStep = "gate" => frameStep' = "idle"
         /\ frameStep = "idle" => frameStep' = "override"
         /\ frameStep = "override" => Silenced'
<1> USE DEF Blocked, Stored, Silenced
<1>3. CASE ReadHas
  BY <1>3 DEF ReadHas
<1>4. CASE \E encoded \in BOOLEAN : DecideOverride(encoded)
  BY <1>4 DEF DecideOverride, Emit
<1>5. CASE \E encoded, voice \in BOOLEAN : DecideGate(voice, encoded)
  BY <1>5 DEF DecideGate, Emit
<1> QED
  BY <1>3, <1>4, <1>5 DEF Capture

(* A block that stays ends the talkspurt, for any number of calls, every    *)
(* hangover and whatever frames the encoder fails for                       *)
(* (TransmitController.cpp:50-74, 76-184): the gate's own conditions cannot *)
(* reopen it, and the LastFrame has gone out unless its encoding failed.    *)
(* The capture thread may take a step in every state, so that the premise   *)
(* is what the fairness of GateFairSpec says of it.                         *)
THEOREM BlockCorrect == GateSpec /\ []<><<Capture>>_gateVars => BlockEndsTalkspurt
<1> DEFINE G == frameStep = "gate"  I == frameStep = "idle"  O == frameStep = "override"
<1>1. GateTypeOK => G \/ I \/ O
  BY DEF GateTypeOK
<1>2. GateTypeOK /\ Blocked /\ [GateNext]_gateVars
        => /\ G => G' \/ I'
           /\ I => I' \/ O'
           /\ O => O' \/ Silenced'
           /\ Silenced => Silenced'
  BY BlockSteps
<1>3. GateTypeOK /\ Blocked /\ <<Capture>>_gateVars => (G => I') /\ (I => O') /\ (O => Silenced')
  BY CaptureMoves
<1>4. GateInv /\ Silenced => ~was /\ (open => unended)
  BY DEF Silenced, GateInv, EndInv
<1>5. Blocked <=> Stored = "block"
  BY DEF Blocked
<1> HIDE DEF G, I, O
<1> QED
  BY <1>1, <1>2, <1>3, <1>4, <1>5, GateTypeCorrect, GateInvariant, PTL
     DEF GateSpec, BlockEndsTalkspurt

----------------------------------------------------------------------------
(* VoiceNetworkClient.                                                      *)

Datagrams == [kind : ToRelay \cup ToClient, sock : Sockets, uid : Uids \cup {NoUid},
              slow : BOOLEAN]

(* Where the worker stands, what it has: a handshake under way has a socket *)
(* and an attempt left, and is not connected; the pump runs connected.      *)
WorkerInv ==
  /\ pc = "await" => sock # None /\ attempt < HandshakeRetries
  /\ pc \in {"open", "await"} => ~connected
  /\ pc \in {"pump", "housekeeping"} => connected

(* What may come of the ConnectRequest the worker waits for: the datagrams  *)
(* of its socket are of this handshake, and the relay accepts exactly the   *)
(* good settings with an identity.                                          *)
OfHandshake(m) ==
  /\ m.kind = "ConnectGood" => hs.server = "good" /\ m.uid = hs.uid
  /\ m.kind = "ConnectBad" => hs.server = "bad"
  /\ m.kind = "Accept" => hs.server = "good" /\ hs.uid # NoUid

AcceptInv == pc = "await" => \A m \in net : m.sock = sock => OfHandshake(m)

(* An entry of _sessionsByEndPoint or _sessionsByUid leads to a registered  *)
(* session of that socket or that UID, and the session being swept has lost *)
(* its endpoint's entry already and its place in the sweep's copy.          *)
RelayInv ==
  /\ swept \notin due
  /\ \A s \in InUse : sessions[s].sock \in Sockets /\ sessions[s].uid \in Uids \ {NoUid}
  /\ \A k \in Sockets : registered[k] # None =>
       registered[k] \in byId /\ registered[k] # swept /\ sessions[registered[k]].sock = k
  /\ \A u \in Uids : byUid[u] # None => byUid[u] \in byId /\ sessions[byUid[u]].uid = u

ClientInv == TypeOK /\ WorkerInv /\ ConnectedMeansAccepted /\ AcceptInv /\ RelayInv

LEMMA CappedBounded ==
  ASSUME NEW cap \in Nat, NEW n \in 0..cap
  PROVE  Capped(n, cap) \in 0..cap
  BY DEF Capped

LEMMA PacketType ==
  ASSUME NEW kind \in ToRelay \cup ToClient, NEW k \in Sockets, NEW uid \in Uids \cup {NoUid}
  PROVE  Packet(kind, k, uid) \in Datagrams
  BY DEF Packet, Datagrams

(* The worker's variables keep their types.                                 *)
LEMMA WorkerTypes == ClientInv /\ Worker => TypeOK'
<1> SUFFICES ASSUME TypeOK, WorkerInv, ConnectedMeansAccepted, Worker PROVE TypeOK'
  BY DEF ClientInv
<1>0. /\ HandshakeRetries \in Nat \ {0} /\ HandshakeTimeout \in Nat \ {0}
      /\ PingInterval \in Nat \ {0} /\ ServerTimeout \in Nat \ {0}
      /\ MaxPacketsPerPump \in Nat \ {0} /\ RelayTimeout \in Nat /\ MaxDisturbances \in Nat
  BY TimersAssumption
<1> USE DEF TypeOK
<1>00. RelayTypeOK' = RelayTypeOK
  <2>1. UNCHANGED relay
    BY DEF Worker, WaitForSettings, BeginHandshake, BeginPump, OpenSocket, GiveUp,
       AttemptTimesOut, Read, ReadAccept, ReadReject, ReadStray, PumpRead, PumpEmpty, Housekeeping
  <2> QED
    BY <2>1 DEF RelayTypeOK, relay
<1> USE <1>00
<1>1. CASE WaitForSettings
  BY <1>1 DEF WaitForSettings
<1>2. CASE BeginHandshake
  <2>1. connected' \in BOOLEAN /\ sock' \in Sockets \cup {None}
    BY <1>2 DEF BeginHandshake, Disconnect
  <2> QED
    BY <1>0, <1>2, <2>1 DEF BeginHandshake
<1>3. CASE BeginPump
  BY <1>0, <1>3 DEF BeginPump
<1>4. ASSUME NEW k \in Sockets, OpenSocket(k) PROVE TypeOK'
  <2>1. ConnectRequest(k) \subseteq Datagrams
    <3>1. hs.uid \in Uids \cup {NoUid}
      BY DEF Settings
    <3>2. CASE hs.server = "good"
      <4>1. Packet("ConnectGood", k, hs.uid) \in Datagrams
        BY <3>1, PacketType DEF ToRelay
      <4> QED
        BY <3>2, <4>1 DEF ConnectRequest
    <3>3. CASE hs.server = "bad"
      <4>1. Packet("ConnectBad", k, hs.uid) \in Datagrams
        BY <3>1, PacketType DEF ToRelay
      <4> QED
        BY <3>3, <4>1 DEF ConnectRequest
    <3>4. CASE hs.server \notin {"good", "bad"}
      BY <3>4 DEF ConnectRequest
    <3> QED
      BY <3>2, <3>3, <3>4
  <2>2. net' \subseteq Datagrams
    BY <1>4, <2>1 DEF OpenSocket, Datagrams
  <2> QED
    BY <1>0, <1>4, <2>2 DEF OpenSocket, Datagrams
<1>5. CASE GiveUp
  BY <1>5 DEF GiveUp
<1>6. CASE AttemptTimesOut
  <2>1. attempt' \in 0..HandshakeRetries
    BY <1>0, <1>6 DEF AttemptTimesOut, WorkerInv
  <2> QED
    BY <1>6, <2>1 DEF AttemptTimesOut
<1>7. ASSUME NEW m \in Inbox, Read(m) PROVE TypeOK'
  <2>1. CASE ReadAccept(m)
    BY <1>0, <2>1 DEF ReadAccept
  <2>2. CASE ReadReject(m)
    BY <2>2 DEF ReadReject
  <2>3. CASE ReadStray(m)
    BY <2>3 DEF ReadStray, client
  <2>4. CASE PumpRead(m)
    <3>1. drained' \in 0..MaxPacketsPerPump /\ sinceRecv' \in 0..(ServerTimeout + 1)
      BY <1>0, <2>4, CappedBounded DEF PumpRead
    <3> QED
      BY <2>4, <3>1 DEF PumpRead
  <2> QED
    BY <1>7, <2>1, <2>2, <2>3, <2>4 DEF Read
<1>8. CASE PumpEmpty
  BY <1>8 DEF PumpEmpty
<1>9. CASE Housekeeping
  <2>1. connected' \in BOOLEAN /\ sock' \in Sockets \cup {None}
    BY <1>9 DEF Housekeeping, Disconnect
  <2>2. sincePing' \in 0..PingInterval
    BY <1>0, <1>9 DEF Housekeeping
  <2>3. net' \subseteq Datagrams
    <3>1. sock \in Sockets
      BY <1>9 DEF Housekeeping, WorkerInv, ConnectedMeansAccepted
    <3>2. Packet("Ping", sock, NoUid) \in Datagrams
          /\ Packet("RosterRequest", sock, NoUid) \in Datagrams
      BY <3>1, PacketType DEF ToRelay
    <3> QED
      BY <1>9, <3>2 DEF Housekeeping, Datagrams
  <2> QED
    BY <1>9, <2>1, <2>2, <2>3 DEF Housekeeping, Datagrams
<1> QED
  BY <1>1, <1>2, <1>3, <1>4, <1>5, <1>6, <1>7, <1>8, <1>9 DEF Worker

(* What the relay or the network does with a datagram leaves the client as  *)
(* it is and answers with a datagram at most, to the socket it came from.   *)
LEMMA DeliverEffects ==
  ASSUME NEW m \in net, Deliver(m)
  PROVE  /\ UNCHANGED client /\ UNCHANGED <<cfg, budget>>
         /\ \/ net' = net \ {m}
            \/ \E kind \in ToClient : /\ net' = (net \ {m}) \cup {Packet(kind, m.sock, NoUid)}
                                      /\ kind = "Accept" => RelayAdmits(m)
<1> USE DEF ToClient
<1>1. CASE RelayRefuses(m) \/ RelayFull(m) \/ RelayAdmits(m)
  BY <1>1 DEF RelayRefuses, RelayFull, RelayAdmits
<1>2. CASE RelayPing(m) \/ RelayRoster(m)
  BY <1>2 DEF RelayPing, RelayRoster
<1>3. CASE Undeliverable(m)
  BY <1>3 DEF Undeliverable
<1> QED
  BY <1>1, <1>2, <1>3 DEF Deliver, RelayConnect

(* What happens to the relay: nothing, or one of its own steps.             *)
RelayMoves ==
  \/ \E m \in net : RelayFull(m) \/ RelayAdmits(m) \/ RelayPing(m)
  \/ SendFrame \/ RelaySweeps \/ (\E s \in due : RelayExpires(s)) \/ RelayForgets
  \/ RelayRestarts \/ (\E n \in 0..MaxPlaces : OthersChange(n)) \/ Tick

LEMMA RelaySteps == [Next]_vars => UNCHANGED relay \/ RelayMoves
<1> SUFFICES ASSUME [Next]_vars, ~RelayMoves PROVE UNCHANGED relay
  OBVIOUS
<1>1. CASE Worker
  BY <1>1 DEF Worker, WaitForSettings, BeginHandshake, BeginPump, OpenSocket, GiveUp,
     AttemptTimesOut, Read, ReadAccept, ReadReject, ReadStray, PumpRead, PumpEmpty, Housekeeping
<1>2. ASSUME NEW m \in net, Deliver(m) PROVE UNCHANGED relay
  BY <1>2 DEF RelayMoves, Deliver, RelayConnect, RelayRefuses, RelayRoster, Undeliverable
<1>3. CASE Environment
  BY <1>3 DEF RelayMoves, Environment, SetSettings, RelayBroadcast, OpenFails, Lose, HoldBack
<1>4. CASE UNCHANGED vars
  BY <1>4 DEF vars, relay
<1> QED
  BY <1>1, <1>2, <1>3, <1>4 DEF Next, Relay, RelayMoves

(* The relay's dictionaries keep their types and lead where they should.    *)
RelayGood == RelayTypeOK /\ RelayInv

LEMMA TouchGood ==
  ASSUME RelayGood, NEW k \in Sockets, RelayFrame(k),
         UNCHANGED <<byId, byUid, registered, due, swept, places>>
  PROVE  RelayGood'
<1>0. 0 \in 0..(RelayTimeout + 1)
  BY TimersAssumption
<1>1. /\ sessions' \in [Slots -> [sock : Sockets \cup {None}, uid : Uids \cup {NoUid},
                                age : 0..(RelayTimeout + 1)]]
      /\ \A s \in Slots : sessions'[s].sock = sessions[s].sock /\ sessions'[s].uid = sessions[s].uid
  <2>0. /\ sessions \in [Slots -> [sock : Sockets \cup {None}, uid : Uids \cup {NoUid},
                                   age : 0..(RelayTimeout + 1)]]
        /\ registered[k] \in Slots \cup {None}
    BY DEF RelayGood, RelayTypeOK
  <2>1. CASE ~Registered(k)
    BY <2>0, <2>1 DEF RelayFrame
  <2>2. CASE Registered(k)
    <3> DEFINE mine == registered[k]
    <3>1. mine \in Slots /\ sessions' = [sessions EXCEPT ![mine].age = 0]
      BY <2>0, <2>2 DEF Registered, RelayFrame, Touch
    <3> HIDE DEF mine
    <3> QED
      BY <1>0, <2>0, <3>1
  <2> QED
    BY <2>1, <2>2
<1>2. InUse' = InUse /\ InUse \subseteq Slots
  BY DEF InUse, RelayGood, RelayTypeOK
<1> QED
  BY <1>1, <1>2 DEF RelayGood, RelayTypeOK, RelayInv

LEMMA EvictionGood ==
  ASSUME RelayGood, NEW u \in Uids
  PROVE  /\ Evicted(u) \subseteq byId
         /\ AfterEviction(u) \in [Sockets -> Slots \cup {None}]
         /\ \A k \in Sockets : AfterEviction(u)[k] # None =>
              AfterEviction(u)[k] = registered[k] /\ registered[k] \in Evicted(u)
         /\ byUid[u] \notin Evicted(u)
         /\ \A v \in Uids : v # u /\ byUid[v] # None => byUid[v] \in Evicted(u)
<1>0. /\ None \notin Slots /\ registered \in [Sockets -> Slots \cup {None}]
      /\ byUid \in [Uids -> Slots \cup {None}] /\ byId \subseteq Slots
  BY SlotsAssumption DEF RelayGood, RelayTypeOK
<1>1. CASE byUid[u] = None
  BY <1>0, <1>1 DEF Evicted, AfterEviction, RelayGood, RelayInv
<1>2. CASE byUid[u] # None
  <2> DEFINE old == byUid[u]
  <2>1. /\ Evicted(u) = byId \ {old}
        /\ AfterEviction(u) = [registered EXCEPT ![sessions[old].sock] = None]
    BY <1>2 DEF Evicted, AfterEviction, Without
  <2>2. old \in byId /\ sessions[old].uid = u /\ sessions[old].sock \in Sockets
    BY <1>2 DEF RelayGood, RelayInv, InUse
  <2>3. \A v \in Uids : v # u /\ byUid[v] # None => byUid[v] \in byId /\ byUid[v] # old
    BY <2>2 DEF RelayGood, RelayInv
  <2>4. \A k \in Sockets : registered[k] = old => k = sessions[old].sock
    BY <1>0, <2>2 DEF RelayGood, RelayInv
  <2>5. \A k \in Sockets : registered[k] # None => registered[k] \in byId
    BY DEF RelayGood, RelayInv
  <2> HIDE DEF old
  <2>6. \A k \in Sockets : AfterEviction(u)[k] # None =>
          AfterEviction(u)[k] = registered[k] /\ k # sessions[old].sock
    BY <1>0, <2>1, <2>2
  <2>7. /\ AfterEviction(u) \in [Sockets -> Slots \cup {None}]
        /\ \A k \in Sockets : AfterEviction(u)[k] # None =>
             AfterEviction(u)[k] = registered[k] /\ registered[k] \in Evicted(u)
    BY <1>0, <2>1, <2>2, <2>4, <2>5, <2>6
  <2>8. byUid[u] = old
    BY DEF old
  <2> QED
    BY <2>1, <2>3, <2>7, <2>8
<1> QED
  BY <1>1, <1>2

LEMMA RelayKept == ASSUME ClientInv, [Next]_vars PROVE RelayGood'
<1>0. /\ RelayGood /\ net \subseteq Datagrams /\ None \notin Slots
      /\ InUse \subseteq Slots /\ None \notin Sockets
  BY SlotsAssumption, SocketsAssumption
  DEF ClientInv, TypeOK, RelayGood, Datagrams, InUse, RelayTypeOK, None
<1>1. CASE UNCHANGED relay
  BY <1>0, <1>1 DEF relay, RelayGood, RelayTypeOK, RelayInv, InUse
<1>2. ASSUME NEW m \in net, RelayFull(m) PROVE RelayGood'
  <2>1. m.uid \in Uids
    BY <1>0, <1>2 DEF RelayFull, Datagrams
  <2>2. /\ byId' = Evicted(m.uid) /\ registered' = AfterEviction(m.uid)
        /\ byUid' = [byUid EXCEPT ![m.uid] = None]
        /\ UNCHANGED <<sessions, due, swept, places>>
    BY <1>2 DEF RelayFull, sweep, Without
  <2>3. InUse' \subseteq InUse
    BY <1>0, <2>1, <2>2, EvictionGood DEF InUse
  <2> QED
    BY <1>0, <2>1, <2>2, <2>3, EvictionGood DEF RelayGood, RelayTypeOK, RelayInv
<1>3. ASSUME NEW m \in net, RelayAdmits(m) PROVE RelayGood'
  <2>1. m.uid \in Uids \ {NoUid} /\ m.uid \in Uids /\ m.sock \in Sockets
    BY <1>0, <1>3 DEF RelayAdmits, Datagrams
  <2>2. PICK s \in Slots \ InUse :
          /\ sessions' = [sessions EXCEPT ![s] = [sock |-> m.sock, uid |-> m.uid, age |-> 0]]
          /\ byId' = Evicted(m.uid) \cup {s}
          /\ registered' = [AfterEviction(m.uid) EXCEPT ![m.sock] = s]
          /\ byUid' = [byUid EXCEPT ![m.uid] = s]
          /\ UNCHANGED <<due, swept, places>>
    BY <1>3 DEF RelayAdmits, sweep
  <2>3. 0 \in 0..(RelayTimeout + 1)
    BY TimersAssumption
  <2>4. InUse' \subseteq InUse \cup {s} /\ s # swept /\ s # None
    BY <1>0, <2>1, <2>2, EvictionGood DEF InUse
  <2>5. \A t \in InUse : sessions'[t] = sessions[t]
    BY <1>0, <2>2 DEF RelayGood, RelayTypeOK
  <2>6. sessions'[s].sock = m.sock /\ sessions'[s].uid = m.uid
    <3>1. s \in DOMAIN sessions
      BY <1>0 DEF RelayGood, RelayTypeOK
    <3>2. sessions'[s] = [sock |-> m.sock, uid |-> m.uid, age |-> 0]
      BY <2>2, <3>1
    <3> QED
      BY <3>2
  <2>7. RelayTypeOK'
    BY <1>0, <2>1, <2>2, <2>3, EvictionGood DEF RelayGood, RelayTypeOK
  <2>8. \A t \in InUse' : sessions'[t].sock \in Sockets /\ sessions'[t].uid \in Uids \ {NoUid}
    BY <1>0, <2>1, <2>4, <2>5, <2>6 DEF RelayGood, RelayInv
  <2>9. ASSUME NEW k \in Sockets, registered'[k] # None
        PROVE  registered'[k] \in byId' /\ registered'[k] # swept' /\ sessions'[registered'[k]].sock = k
    <3>1. CASE k = m.sock
      BY <1>0, <2>1, <2>2, <2>4, <2>6, <3>1, EvictionGood
    <3>2. CASE k # m.sock
      <4>1. registered'[k] = registered[k] /\ registered[k] \in Evicted(m.uid)
        BY <1>0, <2>1, <2>2, <2>9, <3>2, EvictionGood
      <4>2. registered[k] \in InUse /\ registered[k] # swept /\ sessions[registered[k]].sock = k
        BY <1>0, <2>9, <4>1 DEF RelayGood, RelayInv, InUse
      <4> QED
        BY <2>2, <2>5, <4>1, <4>2
    <3> QED
      BY <3>1, <3>2
  <2>10. ASSUME NEW u \in Uids, byUid'[u] # None
         PROVE  byUid'[u] \in byId' /\ sessions'[byUid'[u]].uid = u
    <3>0. byUid \in [Uids -> Slots \cup {None}]
      BY <1>0 DEF RelayGood, RelayTypeOK
    <3>1. CASE u = m.uid
      BY <3>0, <2>1, <2>2, <2>6, <3>1
    <3>2. CASE u # m.uid
      <4>1. byUid'[u] = byUid[u]
        BY <3>0, <2>1, <2>2, <3>2
      <4>2. byUid[u] \in Evicted(m.uid) /\ byUid[u] \in InUse /\ sessions[byUid[u]].uid = u
        BY <1>0, <2>1, <2>10, <3>2, <4>1, EvictionGood DEF RelayGood, RelayInv, InUse
      <4> QED
        BY <2>2, <2>5, <4>1, <4>2
    <3> QED
      BY <3>1, <3>2
  <2>11. swept' \notin due'
    BY <1>0, <2>2 DEF RelayGood, RelayInv
  <2> QED
    BY <2>7, <2>8, <2>9, <2>10, <2>11 DEF RelayGood, RelayInv
<1>4. ASSUME NEW m \in net, RelayPing(m) PROVE RelayGood'
  <2>1. m.sock \in Sockets /\ RelayFrame(m.sock)
    BY <1>0, <1>4 DEF RelayPing, RelayFrame, Datagrams
  <2> QED
    BY <1>0, <1>4, <2>1, TouchGood DEF RelayPing, sweep
<1>5. CASE SendFrame
  <2>1. sock \in Sockets
    BY <1>5 DEF SendFrame, ClientInv, TypeOK
  <2> QED
    BY <1>0, <1>5, <2>1, TouchGood DEF SendFrame, sweep
<1>6. CASE RelaySweeps
  <2>1. due' \subseteq byId /\ UNCHANGED <<sessions, byId, byUid, registered, swept, places>>
    BY <1>6 DEF RelaySweeps
  <2>2. InUse' \subseteq InUse
    BY <2>1 DEF InUse
  <2>3. swept' = None /\ swept' \notin due'
    BY <1>0, <1>6, <2>1 DEF RelaySweeps, RelayGood, RelayTypeOK
  <2> QED
    BY <1>0, <2>1, <2>2, <2>3 DEF RelayGood, RelayTypeOK, RelayInv
<1>7. ASSUME NEW s \in due, RelayExpires(s) PROVE RelayGood'
  <2>1. /\ due' = due \ {s} /\ UNCHANGED <<sessions, byId, byUid, places>>
        /\ swept' \in {swept, s} /\ swept = None /\ s \in Slots
    BY <1>0, <1>7 DEF RelayExpires, RelayGood, RelayTypeOK
  <2>2. InUse' \subseteq InUse
    BY <2>1 DEF InUse
  <2>3. CASE TimedOut(s)
    <3>1. registered' = [registered EXCEPT ![sessions[s].sock] = None] /\ swept' = s
      BY <1>7, <2>3 DEF RelayExpires, Without
    <3>2. sessions[s].sock \in Sockets
      BY <1>0 DEF RelayGood, RelayInv, InUse
    <3>3. \A k \in Sockets : registered'[k] # None => registered'[k] = registered[k] /\ registered[k] # s
      BY <1>0, <3>1, <3>2 DEF RelayGood, RelayTypeOK, RelayInv
    <3>4. registered' \in [Sockets -> Slots \cup {None}]
      BY <1>0, <3>1 DEF RelayGood, RelayTypeOK
    <3> QED
      BY <1>0, <2>1, <2>2, <3>1, <3>3, <3>4 DEF RelayGood, RelayTypeOK, RelayInv
  <2>4. CASE ~TimedOut(s)
    <3>1. registered' = registered /\ swept' = swept
      BY <1>7, <2>4 DEF RelayExpires
    <3> QED
      BY <1>0, <2>1, <2>2, <3>1 DEF RelayGood, RelayTypeOK, RelayInv
  <2> QED
    BY <2>3, <2>4
<1>8. CASE RelayForgets
  <2>1. /\ byId' = byId \ {swept} /\ byUid' = [byUid EXCEPT ![sessions[swept].uid] = None]
        /\ swept' = None /\ swept # None
        /\ UNCHANGED <<sessions, registered, due, places>>
    BY <1>8 DEF RelayForgets, Without
  <2>2. InUse' \subseteq InUse
    BY <2>1 DEF InUse
  <2>3. sessions[swept].uid \in Uids
    BY <1>0, <2>1 DEF RelayGood, RelayInv, InUse
  <2>4. \A u \in Uids : byUid'[u] # None => byUid'[u] = byUid[u] /\ byUid[u] # swept
    BY <1>0, <2>1, <2>3 DEF RelayGood, RelayTypeOK, RelayInv
  <2>5. byUid' \in [Uids -> Slots \cup {None}]
    BY <1>0, <2>1 DEF RelayGood, RelayTypeOK
  <2>6. \A k \in Sockets : registered[k] # None => registered[k] # swept' 
    BY <2>1
  <2> QED
    BY <1>0, <2>1, <2>2, <2>4, <2>5, <2>6 DEF RelayGood, RelayTypeOK, RelayInv
<1>9. CASE RelayRestarts
  <2>1. /\ byId' = {} /\ due' = {} /\ swept' = None
        /\ registered' = [k \in Sockets |-> None] /\ byUid' = [u \in Uids |-> None]
        /\ UNCHANGED <<sessions, places>>
    BY <1>9 DEF RelayRestarts
  <2> QED
    BY <1>0, <2>1 DEF RelayGood, RelayTypeOK, RelayInv, InUse
<1>10. ASSUME NEW n \in 0..MaxPlaces, OthersChange(n) PROVE RelayGood'
  <2>1. places' = n /\ UNCHANGED <<sessions, byId, byUid, registered, due, swept>>
    BY <1>10 DEF OthersChange, sweep
  <2> QED
    BY <1>0, <2>1 DEF RelayGood, RelayTypeOK, RelayInv, InUse
<1>11. CASE Tick
  <2>1. /\ due = {} /\ swept = None
        /\ sessions' = [s \in Slots |->
             IF s \in byId THEN [sessions[s] EXCEPT !.age = Capped(@, RelayTimeout + 1)]
             ELSE NoSession]
        /\ UNCHANGED <<byId, byUid, registered, due, swept, places>>
    BY <1>11 DEF Tick, Quiet
  <2>2. RelayTimeout + 1 \in Nat /\ 0 \in 0..(RelayTimeout + 1)
    BY TimersAssumption
  <2>3. \A s \in Slots : Capped(sessions[s].age, RelayTimeout + 1) \in 0..(RelayTimeout + 1)
    BY <1>0, <2>2, CappedBounded DEF RelayGood, RelayTypeOK
  <2> DEFINE Entry == [sock : Sockets \cup {None}, uid : Uids \cup {NoUid}, age : 0..(RelayTimeout + 1)]
  <2>4. \A s \in Slots : sessions'[s] \in Entry
    <3>1. NoSession \in Entry
      BY <2>2 DEF NoSession
    <3>2. \A s \in Slots : [sessions[s] EXCEPT !.age = Capped(@, RelayTimeout + 1)] \in Entry
      BY <1>0, <2>3 DEF RelayGood, RelayTypeOK
    <3> HIDE DEF Entry
    <3> QED
      BY <2>1, <3>1, <3>2
  <2>5. sessions' \in [Slots -> Entry]
    <3> HIDE DEF Entry
    <3> QED
      BY <2>1, <2>4
  <2>6. \A s \in byId : sessions'[s].sock = sessions[s].sock /\ sessions'[s].uid = sessions[s].uid
    BY <1>0, <2>1 DEF RelayGood, RelayTypeOK
  <2>7. InUse' = byId /\ InUse = byId
    BY <2>1 DEF InUse
  <2> QED
    BY <1>0, <2>1, <2>5, <2>6, <2>7 DEF RelayGood, RelayTypeOK, RelayInv
<1> QED
  BY <1>1, <1>2, <1>3, <1>4, <1>5, <1>6, <1>7, <1>8, <1>9, <1>10, <1>11, RelaySteps DEF RelayMoves

(* The network, the other threads and time keep the types too.              *)
LEMMA DeliverTypes == ASSUME ClientInv, NEW m \in net, Deliver(m) PROVE TypeOK'
<1>1. RelayTypeOK'
  BY RelayKept DEF RelayGood, Next
<1>2. m \in Datagrams /\ m.sock \in Sockets
  BY DEF ClientInv, TypeOK, Datagrams
<1>3. \A kind \in ToClient : Packet(kind, m.sock, NoUid) \in Datagrams
  BY <1>2, PacketType
<1>4. net' \subseteq Datagrams /\ UNCHANGED client /\ UNCHANGED <<cfg, budget>>
  <2>1. net \subseteq Datagrams
    BY DEF ClientInv, TypeOK, Datagrams
  <2>2. CASE net' = net \ {m}
    BY <2>1, <2>2, DeliverEffects
  <2>3. ASSUME NEW kind \in ToClient, net' = (net \ {m}) \cup {Packet(kind, m.sock, NoUid)}
        PROVE  net' \subseteq Datagrams
    BY <1>3, <2>1, <2>3
  <2>4. /\ UNCHANGED client /\ UNCHANGED <<cfg, budget>>
        /\ \/ net' = net \ {m}
           \/ \E kind \in ToClient : net' = (net \ {m}) \cup {Packet(kind, m.sock, NoUid)}
    BY DeliverEffects
  <2> QED
    BY <2>2, <2>3, <2>4
<1> QED
  BY <1>1, <1>4 DEF ClientInv, TypeOK, client, Datagrams

LEMMA OtherTypes == ClientInv /\ (Relay \/ Environment \/ Tick) => TypeOK'
<1> SUFFICES ASSUME ClientInv, Relay \/ Environment \/ Tick PROVE TypeOK'
  OBVIOUS
<1>0. /\ HandshakeTimeout \in Nat \ {0} /\ PingInterval \in Nat \ {0}
      /\ ServerTimeout \in Nat \ {0} /\ HandshakeRetries \in Nat \ {0}
      /\ RelayTimeout \in Nat /\ MaxDisturbances \in Nat
  BY TimersAssumption
<1>00. RelayTypeOK'
  BY RelayKept DEF RelayGood, Next
<1> USE <1>00 DEF TypeOK, ClientInv, client
<1>1. CASE Relay
  BY <1>1 DEF Relay, RelaySweeps, RelayExpires, RelayForgets
<1>2. ASSUME NEW s \in Wishes, SetSettings(s) PROVE TypeOK'
  BY <1>0, <1>2, WishesAssumption DEF SetSettings
<1>3. CASE SendFrame
  BY <1>3 DEF SendFrame
<1>4. ASSUME NEW s \in byId, RelayBroadcast(s) PROVE TypeOK'
  <2>1. sessions[s].sock \in Sockets
    BY DEF RelayInv, InUse
  <2>2. Packet("Broadcast", sessions[s].sock, NoUid) \in Datagrams
    BY <2>1, PacketType DEF ToClient
  <2> QED
    BY <1>4, <2>2 DEF RelayBroadcast, Datagrams
<1>5. CASE OpenFails
  <2>1. attempt' \in 0..HandshakeRetries /\ budget' \in 0..MaxDisturbances
    BY <1>0, <1>5 DEF OpenFails
  <2> QED
    BY <1>5, <2>1 DEF OpenFails
<1>6. CASE RelayRestarts
  BY <1>0, <1>6 DEF RelayRestarts
<1>7. ASSUME NEW m \in net, Lose(m) PROVE TypeOK'
  BY <1>0, <1>7 DEF Lose
<1>8. ASSUME NEW m \in net, HoldBack(m) PROVE TypeOK'
  <2>1. [m EXCEPT !.slow = TRUE] \in Datagrams
    BY DEF Datagrams
  <2>2. net' \subseteq Datagrams
    BY <1>8, <2>1 DEF HoldBack, Datagrams
  <2> QED
    BY <1>0, <1>8, <2>2 DEF HoldBack, Datagrams
<1>9. CASE Tick
  <2>1. waited' \in 0..HandshakeTimeout
    BY <1>0, <1>9 DEF Tick, Quiet
  <2>2. sincePing' \in 0..PingInterval
    BY <1>0, <1>9, CappedBounded DEF Tick
  <2>3. sinceRecv' \in 0..(ServerTimeout + 1)
    <3>1. ServerTimeout + 1 \in Nat
      BY <1>0
    <3> QED
      BY <1>0, <1>9, <3>1, CappedBounded DEF Tick
  <2> QED
    BY <1>9, <2>1, <2>2, <2>3 DEF Tick
<1>10. ASSUME NEW n \in 0..MaxPlaces, OthersChange(n) PROVE TypeOK'
  BY <1>0, <1>10 DEF OthersChange
<1> QED
  BY <1>1, <1>2, <1>3, <1>4, <1>5, <1>6, <1>7, <1>8, <1>9, <1>10 DEF Environment

(* A step outside the worker leaves the worker where it is, and its socket: *)
(* only the failing socket and the tick concern it.                         *)
LEMMA WorkerKept ==
  ASSUME ClientInv, [Next]_vars, ~Worker
  PROVE  /\ hs' = hs /\ active' = active /\ connected' = connected /\ drained' = drained
         /\ \/ pc' = pc /\ sock' = sock /\ attempt' = attempt
            \/ pc = "open" /\ pc' = "open" /\ sock' = None
            \/ pc = "sleep" /\ pc' = "top" /\ sock' = sock
<1> DEFINE Kept == hs' = hs /\ active' = active /\ connected' = connected /\ pc' = pc
                   /\ sock' = sock /\ attempt' = attempt /\ drained' = drained
<1> USE DEF client
<1>1. ASSUME NEW m \in net, Deliver(m) PROVE Kept
  BY <1>1, DeliverEffects
<1>2. CASE Relay
  BY <1>2 DEF Relay, RelaySweeps, RelayExpires, RelayForgets
<1>3. ASSUME NEW s \in Wishes, SetSettings(s) PROVE Kept
  BY <1>3 DEF SetSettings
<1>4. CASE SendFrame
  BY <1>4 DEF SendFrame
<1>5. ASSUME NEW s, RelayBroadcast(s) \/ OthersChange(s) PROVE Kept
  BY <1>5 DEF RelayBroadcast, OthersChange
<1>6. CASE OpenFails
  BY <1>6 DEF OpenFails
<1>7. CASE RelayRestarts
  BY <1>7 DEF RelayRestarts
<1>8. ASSUME NEW m \in net, Lose(m) \/ HoldBack(m) PROVE Kept
  BY <1>8 DEF Lose, HoldBack
<1>9. CASE Tick
  BY <1>9 DEF Tick
<1>10. CASE UNCHANGED vars
  BY <1>10 DEF vars
<1> QED
  BY <1>1, <1>2, <1>3, <1>4, <1>5, <1>6, <1>7, <1>8, <1>9, <1>10 DEF Next, Environment

(* Where the worker stands decides whether it is connected, and what it is  *)
(* connected with was accepted.                                             *)
LEMMA WorkerPreserved ==
  ClientInv /\ [Next]_vars => WorkerInv' /\ ConnectedMeansAccepted'
<1> DEFINE Kept == WorkerInv' /\ ConnectedMeansAccepted'
<1> SUFFICES ASSUME ClientInv, [Next]_vars PROVE Kept
  OBVIOUS
<1> USE DEF WorkerInv, ConnectedMeansAccepted, Disconnect
<1>0. /\ WorkerInv /\ ConnectedMeansAccepted
      /\ HandshakeRetries \in Nat /\ attempt \in 0..HandshakeRetries /\ None \notin Sockets
  BY TimersAssumption, SocketsAssumption DEF ClientInv, TypeOK
<1>1. CASE ~Worker
  BY <1>0, <1>1, WorkerKept
<1>2. CASE Worker
  <2>1. CASE WaitForSettings
    BY <1>0, <2>1 DEF WaitForSettings
  <2>2. CASE BeginHandshake
    <3>1. ~connected' /\ pc' = "open"
      BY <2>2 DEF BeginHandshake
    <3> QED
      BY <3>1
  <2>3. CASE BeginPump
    BY <1>0, <2>3 DEF BeginPump
  <2>4. ASSUME NEW k \in Sockets, OpenSocket(k) PROVE Kept
    BY <1>0, <2>4 DEF OpenSocket
  <2>5. CASE GiveUp
    BY <1>0, <2>5 DEF GiveUp
  <2>6. CASE AttemptTimesOut
    BY <1>0, <2>6 DEF AttemptTimesOut
  <2>7. ASSUME NEW m \in Inbox, Read(m) PROVE Kept
    <3>1. CASE ReadAccept(m)
      <4>1. hs.server = "good" /\ hs.uid # NoUid /\ sock # None
        BY <1>0, <3>1 DEF ReadAccept, Inbox, AcceptInv, OfHandshake, ClientInv
      <4> QED
        BY <3>1, <4>1 DEF ReadAccept
    <3>2. CASE ReadReject(m)
      BY <1>0, <3>2 DEF ReadReject
    <3>3. CASE ReadStray(m)
      BY <1>0, <3>3 DEF ReadStray, client
    <3>4. CASE PumpRead(m)
      BY <1>0, <3>4 DEF PumpRead
    <3> QED
      BY <2>7, <3>1, <3>2, <3>3, <3>4 DEF Read
  <2>8. CASE PumpEmpty
    BY <1>0, <2>8 DEF PumpEmpty
  <2>9. CASE Housekeeping
    BY <1>0, <2>9 DEF Housekeeping
  <2> QED
    BY <1>2, <2>1, <2>2, <2>3, <2>4, <2>5, <2>6, <2>7, <2>8, <2>9 DEF Worker
<1> QED
  BY <1>1, <1>2

(* The relay's answer to a datagram of the handshake is of the handshake.   *)
LEMMA RepliesPreserved ==
  ASSUME ClientInv, pc = "await", hs' = hs, NEW m \in net, Deliver(m)
  PROVE  \A n \in net' : n.sock = sock => OfHandshake(n)'
<1> SUFFICES ASSUME NEW n \in net', n.sock = sock, n \notin net PROVE OfHandshake(n)'
  BY DEF ClientInv, AcceptInv, OfHandshake
<1>1. m.sock = sock => OfHandshake(m)
  BY DEF ClientInv, AcceptInv
<1>2. PICK kind \in ToClient :
        n = Packet(kind, m.sock, NoUid) /\ (kind = "Accept" => RelayAdmits(m))
  <2>1. net' # net \ {m}
    OBVIOUS
  <2>2. \/ net' = net \ {m}
        \/ \E kind \in ToClient : /\ net' = (net \ {m}) \cup {Packet(kind, m.sock, NoUid)}
                                  /\ kind = "Accept" => RelayAdmits(m)
    BY DeliverEffects
  <2>3. PICK kind \in ToClient : /\ net' = (net \ {m}) \cup {Packet(kind, m.sock, NoUid)}
                                 /\ kind = "Accept" => RelayAdmits(m)
    BY <2>1, <2>2
  <2> QED
    BY <2>3
<1>3. CASE kind = "Accept"
  <2>1. m.kind = "ConnectGood" /\ m.uid # NoUid
    BY <1>2, <1>3 DEF RelayAdmits
  <2> QED
    BY <1>1, <1>2, <1>3, <2>1 DEF Packet, OfHandshake
<1>4. CASE kind # "Accept"
  BY <1>2, <1>4 DEF Packet, OfHandshake, ToClient
<1> QED
  BY <1>3, <1>4

(* A fresh socket has no datagram of an earlier handshake, and nothing that *)
(* comes later to a socket under a handshake is of another.                 *)
LEMMA AcceptPreserved == ClientInv /\ [Next]_vars => AcceptInv'
<1> SUFFICES ASSUME ClientInv, [Next]_vars, pc' = "await" PROVE AcceptInv'
  BY DEF AcceptInv
<1> USE DEF AcceptInv
<1>1. ASSUME NEW k \in Sockets, OpenSocket(k) PROVE AcceptInv'
  <2> SUFFICES ASSUME NEW m \in net', m.sock = k PROVE OfHandshake(m)'
    BY <1>1 DEF OpenSocket
  <2>1. hs' = hs
    BY <1>1 DEF OpenSocket
  <2>2. CASE m \in net
    <3>1. m.kind \notin {"ConnectGood", "ConnectBad", "Accept", "Reject"}
      BY <1>1, <2>2 DEF OpenSocket, Fresh
    <3> QED
      BY <3>1 DEF OfHandshake
  <2>3. CASE m \notin net
    <3>1. m \in ConnectRequest(k)
      BY <1>1, <2>3 DEF OpenSocket
    <3> QED
      BY <2>1, <3>1 DEF ConnectRequest, Packet, OfHandshake
  <2> QED
    BY <2>2, <2>3
<1>2. CASE Worker /\ ~ \E k \in Sockets : OpenSocket(k)
  <2>1. PICK m \in Inbox : ReadStray(m)
    BY <1>2 DEF Worker, WaitForSettings, BeginHandshake, BeginPump, GiveUp, AttemptTimesOut,
                Read, ReadAccept, ReadReject, PumpRead, PumpEmpty, Housekeeping
  <2>2. hs' = hs /\ pc = "await" /\ sock' = sock /\ net' \subseteq net
    BY <2>1 DEF ReadStray, client
  <2> QED
    BY <2>2 DEF ClientInv, OfHandshake
<1>3. CASE ~Worker
  <2>1. hs' = hs /\ pc = "await" /\ sock' = sock
    BY <1>3, WorkerKept
  <2>2. \A n \in net : n.sock = sock => OfHandshake(n)
    BY <2>1 DEF ClientInv
  <2>3. CASE net' \subseteq net
    BY <2>1, <2>2, <2>3 DEF OfHandshake
  <2>4. ASSUME NEW m \in net, Deliver(m) PROVE AcceptInv'
    BY <2>1, <2>4, RepliesPreserved
  <2>5. CASE \E s \in byId : RelayBroadcast(s)
    <3>1. \A n \in net' : n \in net \/ n.kind = "Broadcast"
      BY <2>5 DEF RelayBroadcast, Packet
    <3> QED
      BY <2>1, <2>2, <3>1 DEF OfHandshake
  <2>6. ASSUME NEW m \in net, HoldBack(m) PROVE AcceptInv'
    <3> DEFINE slow == [m EXCEPT !.slow = TRUE]
    <3>1. slow.kind = m.kind /\ slow.sock = m.sock /\ slow.uid = m.uid
      BY DEF ClientInv, TypeOK
    <3>2. \A n \in net' : n \in net \/ n = slow
      BY <2>6 DEF HoldBack
    <3> HIDE DEF slow
    <3> QED
      BY <2>1, <2>2, <3>1, <3>2 DEF OfHandshake
  <2>7. CASE UNCHANGED vars \/ Relay \/ (\E s \in Wishes : SetSettings(s)) \/ OpenFails
             \/ RelayRestarts \/ (\E m \in net : Lose(m)) \/ Tick \/ SendFrame
             \/ (\E n \in 0..MaxPlaces : OthersChange(n))
    <3>1. net' \subseteq net
      BY <2>7 DEF vars, Relay, RelaySweeps, RelayExpires, RelayForgets, SetSettings, OpenFails,
         RelayRestarts, Lose, Tick, SendFrame, OthersChange
    <3> QED
      BY <2>3, <3>1
  <2> QED
    BY <1>3, <2>4, <2>5, <2>6, <2>7 DEF Next, Environment
<1> QED
  BY <1>1, <1>2, <1>3

(* The inductive invariant holds in every behaviour.                        *)
THEOREM ClientInvariant == Spec => []ClientInv
<1>1. Init => ClientInv
  <2> SUFFICES ASSUME Init PROVE ClientInv
    OBVIOUS
  <2>1. TypeOK
    <3>1. Unset \in Settings
      BY DEF Unset, Settings, Servers
    <3>2. /\ 0 \in 0..HandshakeRetries /\ 0 \in 0..HandshakeTimeout
          /\ 0 \in 0..MaxPacketsPerPump /\ 0 \in 0..PingInterval
          /\ 0 \in 0..(ServerTimeout + 1) /\ 0 \in 0..(RelayTimeout + 1)
          /\ MaxDisturbances \in 0..MaxDisturbances /\ MaxPlaces \in 0..MaxPlaces
      BY TimersAssumption
    <3>3. connected \in BOOLEAN /\ looped \in BOOLEAN
      BY Zenon DEF Init
    <3> QED
      BY <3>1, <3>2, <3>3 DEF Init, TypeOK, RelayTypeOK, NoSession
  <2>2. WorkerInv /\ ConnectedMeansAccepted /\ AcceptInv /\ RelayInv
    BY DEF Init, WorkerInv, ConnectedMeansAccepted, AcceptInv, RelayInv, InUse
  <2> QED
    BY <2>1, <2>2 DEF ClientInv
<1>2. ClientInv /\ [Next]_vars => ClientInv'
  <2> SUFFICES ASSUME ClientInv, [Next]_vars PROVE ClientInv'
    OBVIOUS
  <2>1. TypeOK'
    <3>1. CASE UNCHANGED vars
      BY <3>1 DEF vars, ClientInv, TypeOK, RelayTypeOK
    <3> QED
      BY <3>1, WorkerTypes, DeliverTypes, OtherTypes DEF Next
  <2> QED
    BY <2>1, WorkerPreserved, AcceptPreserved, RelayKept DEF ClientInv, RelayGood
<1> QED
  BY <1>1, <1>2, PTL DEF Spec

(* The worker, the relay and the network keep their types.                  *)
THEOREM ClientTypeCorrect == Spec => []TypeOK
<1>1. ClientInv => TypeOK
  BY DEF ClientInv
<1> QED
  BY <1>1, ClientInvariant, PTL

(* Being connected and waiting for a reply exclude each other, and what the *)
(* worker is connected with is what the relay accepted on the open socket.  *)
THEOREM AcceptedCorrect == Spec => []ConnectedMeansAccepted
<1>1. ClientInv => ConnectedMeansAccepted
  BY DEF ClientInv
<1> QED
  BY <1>1, ClientInvariant, PTL

(* A connection keeps its socket and its settings for as long as it lasts:  *)
(* neither a change of the settings nor a late reply moves it to another.   *)
THEOREM ConnectionKept ==
  Spec => [][connected /\ connected' => sock' = sock /\ active' = active]_vars
<1>1. ASSUME ClientInv, [Next]_vars, connected, connected'
      PROVE  sock' = sock /\ active' = active
  <2>1. pc \notin {"open", "await"}
    BY <1>1 DEF ClientInv, WorkerInv
  <2>2. CASE ~Worker
    BY <1>1, <2>1, <2>2, WorkerKept
  <2>3. CASE Worker
    BY <1>1, <2>1, <2>3
    DEF Worker, WaitForSettings, BeginHandshake, BeginPump, OpenSocket, GiveUp,
        AttemptTimesOut, Read, ReadAccept, ReadReject, ReadStray, PumpRead, PumpEmpty,
        Housekeeping, Disconnect
  <2> QED
    BY <2>2, <2>3
<1>2. ClientInv /\ [Next]_vars
        => [connected /\ connected' => sock' = sock /\ active' = active]_vars
  BY <1>1
<1> QED
  BY <1>2, ClientInvariant, PTL DEF Spec

----------------------------------------------------------------------------
(* The keepalive.  The premises say that the worker goes on whenever it     *)
(* does not sleep or open a socket, that it wakes up, and that a natural    *)
(* number does not fall for ever unless it rises again and again: true of   *)
(* every natural-valued expression, but only by an induction that is beyond *)
(* the provers here.                                                        *)
CanWork == pc \in {"top", "pump", "housekeeping"}
Asleep == pc = "sleep"

WorkerRuns == (<>[]CanWork => []<><<Worker>>_vars) /\ (<>[]Asleep => []<><<Tick>>_vars)

NoEndlessFall(n) == []<><<n' < n>>_vars => []<><<n' > n>>_vars

(* The datagrams that this pump may still read.                             *)
PumpLeft == MaxPacketsPerPump - drained

PumpInv == (pc = "pump" => drained < MaxPacketsPerPump) /\ PumpLeft \in Nat

(* No pump reads more than it may (VoiceNetworkClient.cpp:429).             *)
LEMMA PumpPreserved == ClientInv /\ ClientInv' /\ PumpInv /\ [Next]_vars => PumpInv'
<1> SUFFICES ASSUME ClientInv, ClientInv', PumpInv, [Next]_vars PROVE PumpInv'
  OBVIOUS
<1>0. /\ MaxPacketsPerPump \in Nat \ {0} /\ drained \in 0..MaxPacketsPerPump
      /\ drained' \in 0..MaxPacketsPerPump
  BY TimersAssumption DEF ClientInv, TypeOK
<1>1. CASE ~Worker
  BY <1>0, <1>1, WorkerKept DEF PumpInv, PumpLeft
<1>2. CASE WaitForSettings \/ BeginHandshake \/ GiveUp \/ AttemptTimesOut \/ PumpEmpty
           \/ Housekeeping \/ (\E k \in Sockets : OpenSocket(k))
  <2>1. pc' # "pump"
    BY <1>2 DEF WaitForSettings, BeginHandshake, GiveUp, AttemptTimesOut, PumpEmpty,
                Housekeeping, OpenSocket
  <2>2. \A n \in 0..MaxPacketsPerPump : MaxPacketsPerPump - n \in Nat
    BY <1>0
  <2>3. PumpLeft' \in Nat
    BY <1>0, <2>2 DEF PumpLeft
  <2> QED
    BY <2>1, <2>3 DEF PumpInv
<1>3. CASE BeginPump
  BY <1>0, <1>3 DEF BeginPump, PumpInv, PumpLeft
<1>4. ASSUME NEW m \in Inbox, Read(m) PROVE PumpInv'
  <2>1. CASE ReadAccept(m)
    BY <1>0, <2>1 DEF ReadAccept, PumpInv, PumpLeft
  <2>2. CASE ReadReject(m)
    BY <1>0, <2>2 DEF ReadReject, PumpInv, PumpLeft
  <2>3. CASE ReadStray(m)
    BY <1>0, <2>3 DEF ReadStray, client, PumpInv, PumpLeft
  <2>4. CASE PumpRead(m)
    BY <1>0, <2>4 DEF PumpRead, PumpDone, Capped, PumpInv, PumpLeft
  <2> QED
    BY <1>4, <2>1, <2>2, <2>3, <2>4 DEF Read
<1> QED
  BY <1>1, <1>2, <1>3, <1>4 DEF Worker

(* What a ping that is due waits for.                                       *)
Due == connected /\ PingDue /\ cfg.server # "unset"

(* The worker comes from the loop's top by the pump to the housekeeping,    *)
(* and that pings.                                                          *)
LEMMA DueSteps ==
  ASSUME ClientInv, PumpInv, [Next]_vars, Due, Due'
  PROVE  /\ pc \in {"sleep", "top", "pump", "housekeeping"}
         /\ pc = "sleep" => pc' = "sleep" \/ (pc' = "top" /\ ~Worker)
         /\ pc = "top" => pc' = IF Worker THEN "pump" ELSE "top"
         /\ pc = "pump" => /\ pc' \in {"pump", "housekeeping"}
                           /\ ~(PumpLeft' > PumpLeft)
                           /\ Worker => pc' = "housekeeping" \/ PumpLeft' < PumpLeft
         /\ pc = "housekeeping" => pc' = "housekeeping" /\ ~Worker
         /\ Tick => pc # "sleep" \/ pc' = "top"
<1>0. /\ pc \in {"sleep", "top", "pump", "housekeeping"} /\ connected /\ connected'
      /\ MaxPacketsPerPump \in Nat \ {0} /\ drained \in 0..MaxPacketsPerPump
      /\ cfg.server # "unset" /\ PingInterval \in Nat \ {0}
  BY TimersAssumption DEF ClientInv, TypeOK, WorkerInv, Due
<1>1. Tick => pc # "sleep" \/ pc' = "top"
  BY DEF Tick
<1>2. CASE ~Worker
  <2>1. drained' = drained /\ (pc' = pc \/ (pc = "sleep" /\ pc' = "top"))
    BY <1>0, <1>2, WorkerKept
  <2>2. ~(PumpLeft' > PumpLeft)
    BY <1>0, <2>1 DEF PumpLeft
  <2> QED
    BY <1>0, <1>1, <1>2, <2>1, <2>2
<1>3. CASE Worker
  <2>0. ~Tick \/ pc # "sleep"
    BY <1>0, <1>3 DEF Worker, WaitForSettings, BeginHandshake, BeginPump, OpenSocket, GiveUp,
       AttemptTimesOut, Read, ReadAccept, ReadReject, ReadStray, PumpRead, PumpEmpty, Housekeeping
  <2>1. CASE BeginPump
    BY <1>0, <1>3, <2>1 DEF BeginPump
  <2>2. CASE PumpEmpty
    BY <1>0, <1>3, <2>2 DEF PumpEmpty, PumpLeft
  <2>3. ASSUME NEW m \in Inbox, PumpRead(m)
        PROVE  pc = "pump" /\ pc' \in {"pump", "housekeeping"} /\ PumpLeft' < PumpLeft
    BY <1>0, <2>3 DEF PumpRead, PumpInv, PumpLeft, Capped
  <2>4. CASE Housekeeping
    <3>1. sincePing' = 0
      BY <2>4 DEF Housekeeping, Due
    <3> QED
      BY <1>0, <3>1 DEF Due, PingDue
  <2>5. BeginPump \/ PumpEmpty \/ Housekeeping \/ \E m \in Inbox : PumpRead(m)
    BY <1>0, <1>3 DEF Worker, WaitForSettings, BeginHandshake, Disconnect, OpenSocket, GiveUp,
       AttemptTimesOut, Read, ReadAccept, ReadReject, ReadStray
  <2>6. CASE \E m \in Inbox : PumpRead(m)
    <3>1. pc = "pump" /\ pc' \in {"pump", "housekeeping"} /\ PumpLeft' < PumpLeft
      BY <2>3, <2>6
    <3>2. ~(PumpLeft' > PumpLeft)
      <4>1. drained' \in Int
        BY <1>0, <2>6 DEF PumpRead, Capped
      <4>2. PumpLeft \in Int /\ PumpLeft' \in Int
        BY <1>0, <4>1 DEF PumpLeft
      <4> QED
        BY <3>1, <4>2
    <3> QED
      BY <1>3, <3>1, <3>2
  <2> QED
    BY <2>1, <2>2, <2>4, <2>5, <2>6
<1> QED
  BY <1>2, <1>3

(* While connected the worker keeps pinging, however many datagrams the     *)
(* relay sends (VoiceNetworkClient.cpp:415-444, 498-523).                   *)
THEOREM PingCorrect == Spec /\ WorkerRuns /\ NoEndlessFall(PumpLeft) => KeepsPinging
<1> DEFINE Top == pc = "top"
           Pump == pc = "pump"
           House == pc = "housekeeping"
           Falls == PumpLeft' < PumpLeft
           Rises == PumpLeft' > PumpLeft
<1>1. Init => PumpInv
  BY TimersAssumption DEF Init, PumpInv, PumpLeft
<1>2. ClientInv /\ ClientInv' /\ PumpInv /\ [Next]_vars => PumpInv'
  BY PumpPreserved
<1>3. ClientInv /\ PumpInv /\ [Next]_vars /\ Due /\ Due' =>
        /\ Asleep \/ Top \/ Pump \/ House
        /\ Asleep => Asleep' \/ Top'
        /\ Top => Top' \/ Pump'
        /\ Pump => (Pump' \/ House') /\ ~<<Rises>>_vars
        /\ House => House'
  BY DueSteps DEF Asleep
<1>4. ClientInv /\ PumpInv /\ [Next]_vars /\ Due /\ Due' /\ <<Worker>>_vars =>
        ~House /\ (Top => Pump') /\ (Pump => House' \/ <<Falls>>_vars)
  BY DueSteps
<1>5. ClientInv /\ PumpInv /\ [Next]_vars /\ Due /\ Due' /\ <<Tick>>_vars /\ Asleep => Top'
  BY DueSteps DEF Asleep
<1>6. (Top => ~Pump /\ ~House /\ ~Asleep /\ CanWork) /\ (Pump => ~House /\ ~Asleep /\ CanWork)
      /\ (House => ~Asleep /\ CanWork)
  BY DEF Asleep, CanWork
<1>7. ~Due => ~PingDue \/ ~connected \/ cfg.server = "unset"
  BY DEF Due
<1>8. Spec /\ WorkerRuns /\ NoEndlessFall(PumpLeft) => []<>~Due
  <2> HIDE DEF Top, Pump, House
  <2> QED
    BY <1>1, <1>2, <1>3, <1>4, <1>5, <1>6, ClientInvariant, PTL
       DEF Spec, WorkerRuns, NoEndlessFall
<1> QED
  BY <1>7, <1>8, PTL DEF KeepsPinging

----------------------------------------------------------------------------
(* Self-stabilisation.  First what always holds of the datagrams of a       *)
(* handshake and of what the relay has registered for the open socket.      *)
IsConnect(m) == m.kind \in {"ConnectGood", "ConnectBad"}
IsHandshake(m) == m.kind \in {"ConnectGood", "ConnectBad", "Accept", "Reject"}

Connects == {m \in net : IsConnect(m)}

(* One datagram at a time carries a handshake: the request or its answer.   *)
OnceInv ==
  pc = "await" => \A m, n \in net :
    m.sock = sock /\ n.sock = sock /\ IsHandshake(m) /\ IsHandshake(n) => m = n

(* Time passes for an attempt only when no request is under way, unless     *)
(* the network holds it back.                                               *)
WaitInv == pc = "await" /\ waited > 0 => \A m \in Connects : m.slow

(* What the relay takes the sender on a socket for.                         *)
HeldFor(k) == IF registered[k] = None THEN NoUid ELSE sessions[registered[k]].uid

(* On its socket the client is registered as what it asked for, or not at   *)
(* all, and no request can change that while it is connected.               *)
RegisteredInv ==
  /\ connected => /\ HeldFor(sock) \in {active.uid, NoUid}
                  /\ \A m \in Connects : m.sock # sock
  /\ pc = "await" => \A m \in net :
       m.sock = sock /\ m.kind = "Accept" => HeldFor(sock) \in {hs.uid, NoUid}

SettleInv == OnceInv /\ WaitInv /\ RegisteredInv /\ IsFiniteSet(net)

(* A step opens a socket, or is the relay's answer to a request, or holds a *)
(* datagram back; any other step brings no datagram of a handshake, starts  *)
(* no attempt and registers nobody.                                         *)
OtherStep ==
  /\ \A n \in net' : n \in net \/ ~IsHandshake(n)
  /\ \A k \in Sockets : HeldFor(k)' \in {HeldFor(k), NoUid}
  /\ pc' = "await" => pc = "await" /\ sock' = sock /\ hs' = hs

(* But for the answer to a request, the relay's sessions become fewer and   *)
(* stay what they are, and the dictionaries lose entries only.              *)
LEMMA RelayLeft ==
  ASSUME ClientInv, [Next]_vars, ~ \E m \in net : RelayConnect(m)
  PROVE  /\ InUse' \subseteq InUse
         /\ \A s \in InUse' : sessions'[s].sock = sessions[s].sock /\ sessions'[s].uid = sessions[s].uid
         /\ \A k \in Sockets : registered'[k] \in {registered[k], None}
<1> DEFINE Left == /\ InUse' \subseteq InUse
                   /\ \A s \in InUse' : /\ sessions'[s].sock = sessions[s].sock
                                        /\ sessions'[s].uid = sessions[s].uid
                   /\ \A k \in Sockets : registered'[k] \in {registered[k], None}
<1>0. /\ RelayTypeOK /\ RelayInv /\ InUse \subseteq Slots /\ None \notin Slots
      /\ registered \in [Sockets -> Slots \cup {None}]
  BY SlotsAssumption DEF ClientInv, TypeOK, RelayTypeOK, InUse, None
<1>1. ASSUME UNCHANGED <<byId, due, swept, registered>>,
             \A s \in Slots : sessions'[s].sock = sessions[s].sock /\ sessions'[s].uid = sessions[s].uid
      PROVE  Left
  BY <1>0, <1>1 DEF InUse
<1>2. CASE UNCHANGED relay
  BY <1>1, <1>2 DEF relay
<1>3. ASSUME NEW k \in Sockets, RelayFrame(k), UNCHANGED <<byId, due, swept, registered>>
      PROVE  Left
  <2>1. \A s \in Slots : sessions'[s].sock = sessions[s].sock /\ sessions'[s].uid = sessions[s].uid
    BY <1>0, <1>3 DEF RelayFrame, Touch, RelayTypeOK
  <2> QED
    BY <1>1, <1>3, <2>1
<1>4. ASSUME NEW m \in net, RelayPing(m) PROVE Left
  <2>1. m.sock \in Sockets /\ RelayFrame(m.sock) /\ UNCHANGED <<byId, due, swept, registered>>
    BY <1>4 DEF RelayPing, RelayFrame, ClientInv, TypeOK, sweep
  <2> QED
    BY <1>3, <2>1
<1>5. CASE SendFrame
  <2>1. sock \in Sockets /\ RelayFrame(sock) /\ UNCHANGED <<byId, due, swept, registered>>
    BY <1>5 DEF SendFrame, ClientInv, TypeOK, sweep
  <2> QED
    BY <1>3, <2>1
<1>6. ASSUME InUse' \subseteq InUse, sessions' = sessions, registered' = registered PROVE Left
  BY <1>0, <1>6
<1>7. CASE RelaySweeps
  BY <1>6, <1>7 DEF RelaySweeps, InUse
<1>8. ASSUME NEW s \in due, RelayExpires(s) PROVE Left
  <2>1. InUse' \subseteq InUse /\ sessions' = sessions
    BY <1>8 DEF RelayExpires, InUse
  <2>2. \A k \in Sockets : registered'[k] \in {registered[k], None}
    BY <1>0, <1>8 DEF RelayExpires, Without
  <2> QED
    BY <1>0, <2>1, <2>2
<1>9. CASE RelayForgets
  BY <1>6, <1>9 DEF RelayForgets, InUse
<1>10. CASE RelayRestarts
  BY <1>0, <1>10 DEF RelayRestarts, InUse
<1>11. ASSUME NEW n \in 0..MaxPlaces, OthersChange(n) PROVE Left
  BY <1>6, <1>11 DEF OthersChange, InUse, sweep
<1>12. CASE Tick
  <2>1. /\ due = {} /\ swept = None /\ UNCHANGED <<byId, due, swept, registered>>
        /\ sessions' = [s \in Slots |->
             IF s \in byId THEN [sessions[s] EXCEPT !.age = Capped(@, RelayTimeout + 1)]
             ELSE NoSession]
    BY <1>12 DEF Tick, Quiet
  <2>2. InUse' = byId /\ InUse = byId
    BY <2>1 DEF InUse
  <2>3. \A s \in byId : sessions'[s].sock = sessions[s].sock /\ sessions'[s].uid = sessions[s].uid
    BY <1>0, <2>1 DEF RelayTypeOK
  <2> QED
    BY <1>0, <2>1, <2>2, <2>3
<1> QED
  BY <1>2, <1>4, <1>5, <1>7, <1>8, <1>9, <1>10, <1>11, <1>12, RelaySteps DEF RelayMoves, RelayConnect

LEMMA HeldLeft ==
  ASSUME ClientInv, ClientInv', [Next]_vars, ~ \E m \in net : RelayConnect(m), NEW k \in Sockets
  PROVE  HeldFor(k)' \in {HeldFor(k), NoUid}
<1>1. CASE registered'[k] = None
  BY <1>1 DEF HeldFor
<1>2. CASE registered'[k] # None
  <2>1. registered'[k] \in InUse' /\ registered'[k] = registered[k]
    BY <1>2, RelayLeft DEF ClientInv, RelayInv, InUse
  <2> QED
    BY <1>2, <2>1, RelayLeft DEF HeldFor
<1> QED
  BY <1>1, <1>2

LEMMA HandshakeSteps ==
  ASSUME ClientInv, ClientInv', [Next]_vars
  PROVE  \/ \E k \in Sockets : OpenSocket(k)
         \/ \E m \in net : RelayConnect(m) \/ HoldBack(m)
         \/ OtherStep
<1> SUFFICES ASSUME ~ \E m \in net : RelayConnect(m) \/ HoldBack(m),
                    ~ \E k \in Sockets : OpenSocket(k)
             PROVE  OtherStep
  OBVIOUS
<1>1. \A k \in Sockets : HeldFor(k)' \in {HeldFor(k), NoUid}
  BY HeldLeft
<1>2. CASE ~Worker
  <2>1. pc' = "await" => pc = "await" /\ sock' = sock /\ hs' = hs
    BY <1>2, WorkerKept
  <2>2. \A n \in net' : n \in net \/ n.kind \in {"Pong", "Broadcast"}
    <3>1. ASSUME NEW m \in net, Deliver(m)
          PROVE  \A n \in net' : n \in net \/ n.kind \in {"Pong", "Broadcast"}
      BY <3>1 DEF Deliver, RelayPing, RelayRoster, Undeliverable, Packet
    <3>2. ASSUME NEW s \in byId, RelayBroadcast(s)
          PROVE  \A n \in net' : n \in net \/ n.kind \in {"Pong", "Broadcast"}
      BY <3>2 DEF RelayBroadcast, Packet
    <3>3. CASE Relay \/ SendFrame \/ Tick \/ UNCHANGED vars \/ (\E s \in Wishes : SetSettings(s))
               \/ OpenFails \/ RelayRestarts \/ (\E m \in net : Lose(m))
               \/ (\E n \in 0..MaxPlaces : OthersChange(n))
      BY <3>3 DEF Relay, RelaySweeps, RelayExpires, RelayForgets, SendFrame, Tick, vars, SetSettings,
         OpenFails, RelayRestarts, Lose, OthersChange
    <3> QED
      BY <1>2, <3>1, <3>2, <3>3 DEF Next, Environment
  <2> QED
    BY <1>1, <2>1, <2>2 DEF OtherStep, IsHandshake
<1>3. CASE Worker
  <2>1. \A n \in net' : n \in net \/ n.kind \in {"Ping", "RosterRequest"}
    BY <1>3 DEF Worker, WaitForSettings, BeginHandshake, BeginPump, GiveUp, AttemptTimesOut, Read,
                ReadAccept, ReadReject, ReadStray, PumpRead, PumpEmpty, Housekeeping, Packet
  <2>2. pc' = "await" => pc = "await" /\ sock' = sock /\ hs' = hs
    BY <1>3 DEF Worker, WaitForSettings, BeginHandshake, BeginPump, GiveUp, AttemptTimesOut, Read,
                ReadAccept, ReadReject, ReadStray, PumpRead, PumpEmpty, Housekeeping, client
  <2> QED
    BY <1>1, <2>1, <2>2 DEF OtherStep, IsHandshake
<1> QED
  BY <1>2, <1>3

(* The answer to a request, and what it may register.                       *)
LEMMA ConnectEffects ==
  ASSUME NEW m \in net, RelayConnect(m)
  PROVE  /\ UNCHANGED client /\ UNCHANGED <<cfg, budget>> /\ IsConnect(m) /\ IsHandshake(m)
         /\ \E kind \in {"Accept", "Reject"} :
              /\ net' = (net \ {m}) \cup {Packet(kind, m.sock, NoUid)}
              /\ (kind = "Accept" => RelayAdmits(m))
<1>1. CASE RelayRefuses(m)
  BY <1>1 DEF RelayRefuses, IsConnect, IsHandshake
<1>2. CASE RelayFull(m)
  BY <1>2 DEF RelayFull, IsConnect, IsHandshake
<1>3. CASE RelayAdmits(m)
  BY <1>3 DEF RelayAdmits, IsConnect, IsHandshake
<1> QED
  BY <1>1, <1>2, <1>3 DEF RelayConnect

LEMMA AdmitHeld ==
  ASSUME ClientInv, NEW m \in net, RelayAdmits(m)
  PROVE  /\ HeldFor(m.sock)' = m.uid /\ sessions'[registered'[m.sock]].age = 0
         /\ registered'[m.sock] # None
         /\ \A k \in Sockets : k # m.sock => HeldFor(k)' \in {HeldFor(k), NoUid}
<1>0. /\ RelayTypeOK /\ RelayInv /\ RelayGood /\ None \notin Slots
      /\ m.uid \in Uids /\ m.sock \in Sockets
  BY SlotsAssumption DEF ClientInv, TypeOK, RelayGood, None, RelayAdmits
<1>1. PICK s \in Slots \ InUse :
        /\ sessions' = [sessions EXCEPT ![s] = [sock |-> m.sock, uid |-> m.uid, age |-> 0]]
        /\ registered' = [AfterEviction(m.uid) EXCEPT ![m.sock] = s]
  BY DEF RelayAdmits
<1>2. s \in DOMAIN sessions /\ AfterEviction(m.uid) \in [Sockets -> Slots \cup {None}]
  BY <1>0, EvictionGood DEF RelayTypeOK
<1>3. registered'[m.sock] = s /\ sessions'[s] = [sock |-> m.sock, uid |-> m.uid, age |-> 0]
  BY <1>0, <1>1, <1>2
<1>4. ASSUME NEW k \in Sockets, k # m.sock PROVE HeldFor(k)' \in {HeldFor(k), NoUid}
  <2>1. registered'[k] = AfterEviction(m.uid)[k]
    BY <1>1, <1>2, <1>4
  <2>2. CASE registered'[k] = None
    BY <2>2 DEF HeldFor
  <2>3. CASE registered'[k] # None
    <3>1. registered'[k] = registered[k] /\ registered[k] \in byId
      BY <1>0, <2>1, <2>3, EvictionGood
    <3>2. sessions'[registered[k]] = sessions[registered[k]]
      BY <1>0, <1>1, <3>1 DEF RelayTypeOK, InUse
    <3> QED
      BY <2>3, <3>1, <3>2 DEF HeldFor
  <2> QED
    BY <2>2, <2>3
<1> QED
  BY <1>0, <1>3, <1>4 DEF HeldFor

LEMMA FullHeld ==
  ASSUME ClientInv, NEW m \in net, RelayRefuses(m) \/ RelayFull(m), NEW k \in Sockets
  PROVE  HeldFor(k)' \in {HeldFor(k), NoUid}
<1>1. CASE RelayRefuses(m)
  BY <1>1 DEF RelayRefuses, relay, HeldFor
<1>2. CASE RelayFull(m)
  <2>1. /\ RelayGood /\ m.uid \in Uids /\ sessions' = sessions
        /\ registered' = AfterEviction(m.uid)
    BY <1>2 DEF RelayFull, ClientInv, TypeOK, RelayGood
  <2>2. registered'[k] \in {registered[k], None}
    BY <2>1, EvictionGood
  <2> QED
    BY <2>1, <2>2 DEF HeldFor
<1> QED
  BY <1>1, <1>2

(* A fresh socket starts with one datagram; the relay and the network put   *)
(* one in the place of another.                                             *)
LEMMA StepOnce == ClientInv /\ ClientInv' /\ OnceInv /\ [Next]_vars => OnceInv'
<1> SUFFICES ASSUME ClientInv, ClientInv', OnceInv, [Next]_vars, pc' = "await",
                    NEW m \in net', NEW n \in net', m.sock = sock', n.sock = sock',
                    IsHandshake(m), IsHandshake(n)
             PROVE  m = n
  BY DEF OnceInv, IsHandshake
<1>1. ASSUME NEW k \in Sockets, OpenSocket(k) PROVE m = n
  <2>1. \A x \in net : x.sock = k => ~IsHandshake(x)
    BY <1>1 DEF OpenSocket, Fresh, IsHandshake
  <2>2. sock' = k /\ m \in ConnectRequest(k) /\ n \in ConnectRequest(k)
    BY <1>1, <2>1 DEF OpenSocket
  <2> QED
    BY <2>2 DEF ConnectRequest
<1>2. ASSUME NEW old \in net, NEW new, net' = (net \ {old}) \cup {new}, new.sock = old.sock,
             IsHandshake(old) \/ ~IsHandshake(new), pc = "await", sock' = sock
      PROVE  m = n
  <2>1. \A x, y \in net : x.sock = sock /\ y.sock = sock /\ IsHandshake(x) /\ IsHandshake(y) => x = y
    BY <1>2 DEF OnceInv
  <2> QED
    BY <1>2, <2>1
<1>3. ASSUME NEW old \in net, RelayConnect(old) PROVE m = n
  <2>1. PICK kind \in {"Accept", "Reject"} : net' = (net \ {old}) \cup {Packet(kind, old.sock, NoUid)}
    BY <1>3, ConnectEffects
  <2>2. IsHandshake(old) /\ Packet(kind, old.sock, NoUid).sock = old.sock
    BY <1>3, ConnectEffects DEF Packet
  <2>3. pc = "await" /\ sock' = sock
    BY <1>3, ConnectEffects DEF client
  <2> QED
    BY <1>2, <2>1, <2>2, <2>3
<1>4. ASSUME NEW old \in net, HoldBack(old) PROVE m = n
  <2> DEFINE new == [old EXCEPT !.slow = TRUE]
  <2>1. net' = (net \ {old}) \cup {new} /\ pc = "await" /\ sock' = sock
    BY <1>4 DEF HoldBack, client
  <2>2. new.sock = old.sock /\ new.kind = old.kind
    BY DEF ClientInv, TypeOK
  <2> HIDE DEF new
  <2> QED
    BY <1>2, <2>1, <2>2 DEF IsHandshake
<1>5. CASE OtherStep
  BY <1>5 DEF OtherStep, OnceInv
<1> QED
  BY <1>1, <1>3, <1>4, <1>5, HandshakeSteps

LEMMA StepWait == ClientInv /\ ClientInv' /\ WaitInv /\ [Next]_vars => WaitInv'
<1> SUFFICES ASSUME ClientInv, ClientInv', WaitInv, [Next]_vars, pc' = "await", waited' > 0,
                    NEW m \in net', IsConnect(m)
             PROVE  m.slow
  BY DEF WaitInv, Connects, IsConnect
<1>1. ASSUME NEW k \in Sockets, OpenSocket(k) PROVE FALSE
  BY <1>1 DEF OpenSocket
<1>2. CASE Tick
  <2>1. \A n \in net : IsConnect(n) => n.slow
    BY <1>2 DEF Tick, Quiet, IsConnect, Inbox, ToClient
  <2> QED
    BY <1>2, <2>1 DEF Tick
<1>3. CASE ~Tick /\ ~ \E k \in Sockets : OpenSocket(k)
  <2>1. CASE Worker
    <3>1. PICK x \in Inbox : ReadStray(x)
      BY <1>3, <2>1 DEF Worker, WaitForSettings, BeginHandshake, BeginPump, GiveUp,
         AttemptTimesOut, Read, ReadAccept, ReadReject, PumpRead, PumpEmpty, Housekeeping
    <3> QED
      BY <3>1 DEF ReadStray, client, WaitInv, Connects
  <2>2. CASE ~Worker
    <3>1. pc = "await"
      BY <2>2, WorkerKept
    <3>2. waited' = waited
      <4>1. ASSUME NEW x \in net, Deliver(x) PROVE waited' = waited
        BY <4>1, DeliverEffects DEF client
      <4>2. CASE Relay \/ Environment \/ UNCHANGED vars
        BY <4>2 DEF Relay, RelaySweeps, RelayExpires, RelayForgets, Environment, SetSettings,
           SendFrame, RelayBroadcast, OpenFails, RelayRestarts, OthersChange, Lose, HoldBack, client,
           vars
      <4> QED
        BY <1>3, <2>2, <4>1, <4>2 DEF Next
    <3>3. \A n \in net : IsConnect(n) => n.slow
      BY <3>1, <3>2 DEF WaitInv, Connects
    <3>4. ASSUME NEW old \in net, RelayConnect(old) PROVE m \in net
      <4>1. \A n \in net' : n \in net \/ n.kind \in {"Accept", "Reject"}
        BY <3>4, ConnectEffects DEF Packet
      <4> QED
        BY <4>1 DEF IsConnect
    <3>5. ASSUME NEW old \in net, HoldBack(old) PROVE m \in net \/ m.slow
      <4>1. [old EXCEPT !.slow = TRUE].slow
        BY DEF ClientInv, TypeOK
      <4> QED
        BY <3>5, <4>1 DEF HoldBack
    <3>6. CASE OtherStep
      BY <3>3, <3>6 DEF OtherStep, IsConnect, IsHandshake
    <3> QED
      BY <1>3, <3>3, <3>4, <3>5, <3>6, HandshakeSteps
  <2> QED
    BY <2>1, <2>2
<1> QED
  BY <1>1, <1>2, <1>3

(* The relay answers the request on a socket with the registration that the *)
(* request asks for; nothing else on that socket changes it.                *)
LEMMA StepRegistered ==
  ASSUME ClientInv, ClientInv', OnceInv, RegisteredInv, [Next]_vars
  PROVE  RegisteredInv'
<1>0. /\ sock \in Sockets \cup {None}
      /\ None \notin Sockets /\ \A m \in net : m.sock \in Sockets
      /\ pc = "await" => sock # None /\ ~connected
      /\ pc = "open" => ~connected
      /\ connected => sock # None
  BY SocketsAssumption DEF ClientInv, TypeOK, WorkerInv, ConnectedMeansAccepted
<1>1. ASSUME NEW k \in Sockets, OpenSocket(k) PROVE RegisteredInv'
  <2>1. ~connected' /\ sock' = k /\ hs' = hs
    BY <1>0, <1>1 DEF OpenSocket
  <2>2. \A m \in net' : m.sock = k => m.kind # "Accept"
    BY <1>1 DEF OpenSocket, Fresh, ConnectRequest, Packet
  <2> QED
    BY <2>1, <2>2 DEF RegisteredInv
<1>2. ASSUME NEW old \in net, RelayConnect(old) PROVE RegisteredInv'
  <2>1. /\ connected' = connected /\ pc' = pc /\ sock' = sock /\ hs' = hs /\ active' = active
        /\ \A n \in net' : n \in net \/ ~IsConnect(n)
        /\ \A n \in net' : n \in net \/ n.sock = old.sock
    BY <1>2, ConnectEffects DEF client, Packet, IsConnect
  <2>a. ASSUME pc = "await", HeldFor(sock) \in {hs.uid, NoUid} \/ old.sock = sock
        PROVE  \/ HeldFor(sock)' \in {hs.uid, NoUid}
               \/ ~RelayAdmits(old) /\ old.sock = sock
    <3>1. CASE RelayAdmits(old) /\ old.sock = sock
      <4>1. old.uid = hs.uid
        BY <2>a, <3>1 DEF RelayAdmits, ClientInv, AcceptInv, OfHandshake
      <4>2. HeldFor(old.sock)' = old.uid
        BY <3>1, AdmitHeld
      <4> QED
        BY <2>1, <3>1, <4>1, <4>2
    <3>2. CASE old.sock # sock
      <4>1. sock \in Sockets /\ HeldFor(sock) \in {hs.uid, NoUid}
        BY <1>0, <2>a, <3>2
      <4>2. \A k \in Sockets : k # old.sock => HeldFor(k)' \in {HeldFor(k), NoUid}
        BY <1>2, AdmitHeld, FullHeld DEF RelayConnect
      <4>3. HeldFor(sock)' \in {HeldFor(sock), NoUid}
        BY <2>1, <3>2, <4>1, <4>2 DEF HeldFor
      <4> QED
        BY <4>1, <4>3
    <3> QED
      BY <3>1, <3>2
  <2>2. ASSUME pc = "await", NEW n \in net', n.sock = sock, n.kind = "Accept"
        PROVE  HeldFor(sock)' \in {hs.uid, NoUid}
    <3>1. CASE old.sock # sock
      <4>1. HeldFor(sock) \in {hs.uid, NoUid}
        BY <2>1, <2>2, <3>1 DEF RegisteredInv
      <4> QED
        BY <2>2, <2>a, <3>1, <4>1
    <3>2. CASE old.sock = sock
      <4>1. n = old \/ n \notin net
        BY <1>2, <2>2, <3>2, ConnectEffects DEF OnceInv, IsHandshake
      <4>2. RelayAdmits(old)
        BY <1>2, <2>2, <4>1, ConnectEffects DEF Packet, IsConnect
      <4> QED
        BY <2>2, <2>a, <3>2, <4>2
    <3> QED
      BY <3>1, <3>2
  <2>3. ASSUME connected
        PROVE  HeldFor(sock)' \in {active.uid, NoUid} /\ \A n \in net' : IsConnect(n) => n.sock # sock
    <3>1. HeldFor(sock) \in {active.uid, NoUid} /\ \A n \in net : IsConnect(n) => n.sock # sock
      BY <2>3 DEF RegisteredInv, Connects
    <3>2. old.sock # sock
      BY <1>2, <3>1, ConnectEffects
    <3>3. HeldFor(sock)' \in {HeldFor(sock), NoUid}
      BY <1>0, <1>2, <2>1, <2>3, <3>2, AdmitHeld, FullHeld DEF RelayConnect
    <3> QED
      BY <2>1, <3>1, <3>3
  <2> QED
    BY <2>1, <2>2, <2>3 DEF RegisteredInv, Connects, IsConnect, HeldFor
<1>3. ASSUME NEW old \in net, HoldBack(old) PROVE RegisteredInv'
  <2> DEFINE new == [old EXCEPT !.slow = TRUE]
  <2>1. /\ net' = (net \ {old}) \cup {new} /\ connected' = connected /\ pc' = pc /\ sock' = sock
        /\ hs' = hs /\ active' = active /\ HeldFor(sock)' = HeldFor(sock)
    BY <1>3 DEF HoldBack, client, relay, HeldFor
  <2>2. new.sock = old.sock /\ new.kind = old.kind
    BY DEF ClientInv, TypeOK
  <2> HIDE DEF new
  <2> QED
    BY <2>1, <2>2 DEF RegisteredInv, Connects, IsConnect
<1>4. CASE OtherStep /\ ~ \E m \in Inbox : ReadAccept(m)
  <2>1. connected' => connected /\ sock' = sock /\ active' = active
    <3>1. CASE Worker
      BY <1>0, <1>4, <3>1 DEF Worker, WaitForSettings, BeginHandshake, BeginPump, OpenSocket, GiveUp,
         AttemptTimesOut, Read, ReadReject, ReadStray, PumpRead, PumpEmpty, Housekeeping, Disconnect,
         client
    <3>2. CASE ~Worker
      BY <1>0, <3>2, WorkerKept
    <3> QED
      BY <3>1, <3>2
  <2>2. ASSUME pc' = "await", NEW n \in net', n.sock = sock', n.kind = "Accept"
        PROVE  HeldFor(sock)' \in {hs'.uid, NoUid}
    <3>1. pc = "await" /\ sock' = sock /\ hs' = hs /\ n \in net /\ sock \in Sockets
      BY <1>0, <1>4, <2>2 DEF OtherStep, IsHandshake
    <3>2. HeldFor(sock) \in {hs.uid, NoUid}
      BY <2>2, <3>1 DEF RegisteredInv
    <3> QED
      BY <1>4, <3>1, <3>2 DEF OtherStep
  <2>3. ASSUME connected' PROVE HeldFor(sock)' \in {active'.uid, NoUid}
    <3>1. HeldFor(sock) \in {active.uid, NoUid} /\ sock \in Sockets
      BY <1>0, <2>1, <2>3 DEF RegisteredInv
    <3> QED
      BY <1>4, <2>1, <2>3, <3>1 DEF OtherStep
  <2>4. ASSUME connected', NEW n \in net', IsConnect(n) PROVE n.sock # sock'
    <3>1. n \in net
      BY <1>4, <2>4 DEF OtherStep, IsConnect, IsHandshake
    <3> QED
      BY <2>1, <2>4, <3>1 DEF RegisteredInv, Connects
  <2> QED
    BY <2>2, <2>3, <2>4 DEF RegisteredInv, Connects, IsConnect
<1>5. ASSUME NEW m \in Inbox, ReadAccept(m) PROVE RegisteredInv'
  <2>1. /\ pc = "await" /\ m \in net /\ m.sock = sock /\ m.kind = "Accept" /\ active' = hs
        /\ sock' = sock /\ net' = net \ {m} /\ HeldFor(sock)' = HeldFor(sock) /\ pc' = "pump"
    BY <1>5 DEF ReadAccept, Inbox, relay, HeldFor
  <2>2. HeldFor(sock) \in {hs.uid, NoUid}
    BY <2>1 DEF RegisteredInv
  <2>3. \A n \in net : IsConnect(n) => n.sock # sock
    BY <2>1 DEF OnceInv, IsConnect, IsHandshake
  <2> QED
    BY <2>1, <2>2, <2>3 DEF RegisteredInv, Connects, IsConnect
<1> QED
  BY <1>1, <1>2, <1>3, <1>4, <1>5, HandshakeSteps

LEMMA StepFinite == ClientInv /\ IsFiniteSet(net) /\ [Next]_vars => IsFiniteSet(net')
<1> SUFFICES ASSUME ClientInv, IsFiniteSet(net), [Next]_vars PROVE IsFiniteSet(net')
  OBVIOUS
<1>1. ASSUME NEW S, IsFiniteSet(S), net' \subseteq net \cup S PROVE IsFiniteSet(net')
  BY <1>1, FS_Union, FS_Subset
<1>2. IsFiniteSet({}) /\ \A x, y : IsFiniteSet({x}) /\ IsFiniteSet({x, y})
  <2>1. ASSUME NEW x, NEW y PROVE IsFiniteSet({x}) /\ IsFiniteSet({x, y})
    <3>1. IsFiniteSet({x}) /\ IsFiniteSet({y})
      BY FS_Singleton
    <3>2. IsFiniteSet({x} \cup {y}) /\ {x} \cup {y} = {x, y}
      BY <3>1, FS_Union
    <3> QED
      BY <3>1, <3>2
  <2> QED
    BY <2>1, FS_EmptySet
<1>3. CASE net' \subseteq net
  BY <1>1, <1>2, <1>3
<1>4. ASSUME NEW x, NEW y, net' \subseteq net \cup {x, y} PROVE IsFiniteSet(net')
  BY <1>1, <1>2, <1>4
<1>5. CASE Worker
  <2>1. ASSUME NEW k \in Sockets, OpenSocket(k) PROVE IsFiniteSet(net')
    BY <1>1, <1>2, <2>1 DEF OpenSocket, ConnectRequest
  <2>2. CASE Housekeeping
    <3>1. net' \subseteq net \cup {Packet("Ping", sock, NoUid), Packet("RosterRequest", sock, NoUid)}
      BY <2>2 DEF Housekeeping
    <3> QED
      BY <1>4, <3>1
  <2>3. CASE ~Housekeeping /\ ~ \E k \in Sockets : OpenSocket(k)
    BY <1>3, <1>5, <2>3 DEF Worker, WaitForSettings, BeginHandshake, BeginPump, GiveUp,
       AttemptTimesOut, Read, ReadAccept, ReadReject, ReadStray, PumpRead, PumpEmpty
  <2> QED
    BY <2>1, <2>2, <2>3
<1>6. ASSUME NEW m \in net, Deliver(m) PROVE IsFiniteSet(net')
  <2>1. \E x : net' \subseteq net \cup {x, x}
    BY <1>6, DeliverEffects
  <2> QED
    BY <1>4, <2>1
<1>7. CASE Environment
  <2>1. \E x : net' \subseteq net \cup {x, x}
    BY <1>7 DEF Environment, SetSettings, SendFrame, RelayBroadcast, OpenFails, RelayRestarts,
       OthersChange, Lose, HoldBack
  <2> QED
    BY <1>4, <2>1
<1>8. CASE Relay \/ Tick \/ UNCHANGED vars
  BY <1>3, <1>8 DEF Relay, RelaySweeps, RelayExpires, RelayForgets, Tick, vars
<1> QED
  BY <1>5, <1>6, <1>7, <1>8 DEF Next

LEMMA SettleCorrect == Spec => []SettleInv
<1>1. Init => SettleInv
  BY FS_EmptySet DEF Init, SettleInv, OnceInv, WaitInv, RegisteredInv
<1>2. ClientInv /\ ClientInv' /\ SettleInv /\ [Next]_vars => SettleInv'
  BY StepOnce, StepWait, StepRegistered, StepFinite DEF SettleInv
<1> QED
  BY <1>1, <1>2, ClientInvariant, PTL DEF Spec

----------------------------------------------------------------------------
(* The steps that are left when nothing is disturbed any more.              *)
CalmStep ==
  /\ cfg' = cfg
  /\ \/ Worker \/ (\E m \in net : Deliver(m)) \/ Relay \/ SendFrame
     \/ (\E s \in byId : RelayBroadcast(s)) \/ Tick \/ UNCHANGED vars

LEMMA Undisturbed ==
  ASSUME ClientInv, [Next]_vars
  PROVE  /\ budget' = budget => CalmStep
         /\ budget' # budget => budget' < budget
<1>0. budget \in Nat
  BY TimersAssumption DEF ClientInv, TypeOK
<1>1. CASE Worker \/ (\E m \in net : Deliver(m)) \/ Relay \/ SendFrame
           \/ (\E s \in byId : RelayBroadcast(s)) \/ Tick \/ UNCHANGED vars
  <2>1. cfg' = cfg /\ budget' = budget
    <3>1. CASE Worker
      BY <3>1 DEF Worker, WaitForSettings, BeginHandshake, BeginPump, OpenSocket, GiveUp,
         AttemptTimesOut, Read, ReadAccept, ReadReject, ReadStray, PumpRead, PumpEmpty, Housekeeping
    <3>2. CASE \E m \in net : Deliver(m)
      BY <3>2, DeliverEffects
    <3>3. CASE Relay \/ SendFrame \/ (\E s \in byId : RelayBroadcast(s)) \/ Tick \/ UNCHANGED vars
      BY <3>3 DEF Relay, RelaySweeps, RelayExpires, RelayForgets, SendFrame, RelayBroadcast, Tick, vars
    <3> QED
      BY <1>1, <3>1, <3>2, <3>3
  <2> QED
    BY <1>1, <2>1 DEF CalmStep
<1>2. CASE (\E s \in Wishes : SetSettings(s)) \/ OpenFails \/ RelayRestarts
           \/ (\E n \in 0..MaxPlaces : OthersChange(n)) \/ \E m \in net : Lose(m) \/ HoldBack(m)
  <2>1. budget' = budget - 1
    BY <1>2 DEF SetSettings, OpenFails, RelayRestarts, OthersChange, Lose, HoldBack
  <2> QED
    BY <1>0, <2>1
<1> QED
  BY <1>1, <1>2 DEF Next, Environment

(* The settings that the antecedent of Converges is about.                  *)
Wanted == cfg.server = "good" /\ cfg.uid # NoUid

LEMMA WantedChanges ==
  ASSUME ClientInv, Wanted
  PROVE  (ConfigChanged <=> active # cfg) /\ cfg.server # "unset"
<1>1. cfg = active <=> cfg.server = active.server /\ cfg.uid = active.uid
  BY DEF ClientInv, TypeOK, Settings
<1> QED
  BY <1>1 DEF Wanted, ConfigChanged

Silence == sessions[registered[sock]].age

(* In sync, with no request on its way and no leftover that could end the   *)
(* registration, and so that neither the relay nor the watchdog is about to *)
(* give up: as long ago as the last ping at most they heard of each other,  *)
(* or the datagram is on its way.                                           *)
Coming(kinds) == \E m \in net : m.sock = sock /\ ~m.slow /\ m.kind \in kinds

Synced ==
  /\ Wanted /\ InSync /\ Connects = {} /\ NoLeftovers
  /\ pc \in {"top", "pump", "housekeeping"}
  /\ looped => sincePing < PingInterval
  /\ Silence <= PingInterval /\ sinceRecv <= PingInterval
  /\ Silence <= sincePing \/ Coming({"Ping"})
  /\ sinceRecv <= sincePing \/ Coming({"Ping", "Pong"})

(* The relay and the watchdog wait for a ping at least.                     *)
Timers == PingInterval <= ServerTimeout /\ PingInterval <= RelayTimeout

LEMMA SyncedNumbers ==
  ASSUME ClientInv, Synced
  PROVE  /\ PingInterval \in Nat \ {0} /\ sincePing \in 0..PingInterval
         /\ ServerTimeout \in Nat /\ RelayTimeout \in Nat
         /\ sinceRecv \in 0..(ServerTimeout + 1) /\ sock \in Sockets
         /\ Silence \in 0..(RelayTimeout + 1)
         /\ connected /\ active = cfg /\ Registered(sock)
         /\ registered[sock] \in byId /\ registered[sock] # swept /\ registered[sock] # None
         /\ cfg.uid # NoUid /\ ~ConfigChanged /\ cfg.server # "unset"
<1>1. /\ connected /\ active = cfg /\ Registered(sock) /\ sock \in Sockets
      /\ cfg.uid # NoUid /\ ~ConfigChanged /\ cfg.server # "unset"
  BY SocketsAssumption, WantedChanges
  DEF ClientInv, TypeOK, ConnectedMeansAccepted, Synced, InSync, Registered, Wanted
<1>2. registered[sock] \in byId /\ registered[sock] # swept /\ registered[sock] # None
  BY <1>1 DEF ClientInv, RelayInv, Registered
<1>3. Silence \in 0..(RelayTimeout + 1)
  BY <1>2 DEF Silence, ClientInv, TypeOK, RelayTypeOK
<1> QED
  BY <1>1, <1>2, <1>3, TimersAssumption DEF ClientInv, TypeOK

(* A step that leaves what Synced speaks of.                                *)
LEMMA SyncedLeft ==
  ASSUME Synced, net \subseteq net', Connects' = {}, cfg' = cfg, NoLeftovers', InSync',
         pc' \in {"top", "pump", "housekeeping"}, Silence' \in {0, Silence}, Silence \in Nat,
         PingInterval \in Nat, sincePing \in Nat,
         UNCHANGED <<sock, looped, sinceRecv, sincePing>>
  PROVE  Synced'
<1>1. \A kinds : Coming(kinds) => Coming(kinds)'
  BY DEF Coming
<1>2. Silence' <= PingInterval /\ (Silence' <= sincePing' \/ Coming({"Ping"})')
  BY <1>1 DEF Synced
<1> QED
  BY <1>1, <1>2 DEF Synced, Wanted

(* Calm steps without a request touch the client's registration by a sweep  *)
(* of it only, and bring its session's age back at most.                    *)
LEMMA RegistrationKept ==
  ASSUME ClientInv, ClientInv', CalmStep, ~Tick, NoLeftovers, Connects = {},
         sock \in Sockets, sock' = sock, Registered(sock), Silence <= RelayTimeout
  PROVE  /\ registered'[sock] = registered[sock] /\ NoLeftovers'
         /\ sessions'[registered[sock]].uid = sessions[registered[sock]].uid
         /\ Silence' \in {0, Silence}
<1> DEFINE r == registered[sock]
           Age == sessions[r].age
<1>0. /\ r \in byId /\ r # swept /\ r # None /\ sock \in Sockets
      /\ NoLeftovers /\ ~TimedOut(r) /\ \A m \in net : m.sock \in Sockets /\ ~IsConnect(m)
      /\ sessions[r].sock = sock
  <2>1. /\ r \in byId /\ r # swept /\ r # None /\ sessions[r].sock = sock
    BY DEF ClientInv, RelayInv, Registered
  <2>2. Silence \in Nat /\ RelayTimeout \in Nat
    BY <2>1, TimersAssumption DEF Silence, ClientInv, TypeOK, RelayTypeOK
  <2> QED
    BY <2>1, <2>2 DEF TimedOut, Silence, Connects, ClientInv, TypeOK
<1>1. [Next]_vars /\ ~ \E m \in net : RelayConnect(m)
  BY <1>0, ConnectEffects DEF CalmStep, Next, Environment, IsConnect
<1>2. registered'[sock] = r
  <2>1. ASSUME NEW s \in due, RelayExpires(s) PROVE registered'[sock] = r
    <3>1. s \in InUse /\ swept = None /\ s # None
      BY <2>1, SlotsAssumption DEF RelayExpires, InUse, ClientInv, TypeOK, RelayTypeOK
    <3>2. sessions[s].sock = sock => ~TimedOut(s)
      BY <1>0, <3>1 DEF NoLeftovers
    <3> QED
      BY <1>0, <2>1, <3>2 DEF RelayExpires, Without, ClientInv, TypeOK, RelayTypeOK
  <2>2. CASE UNCHANGED registered
    BY <2>2
  <2>3. UNCHANGED registered \/ \E s \in due : RelayExpires(s)
    <3>1. CASE Worker \/ SendFrame \/ (\E s \in byId : RelayBroadcast(s)) \/ UNCHANGED vars
      BY <3>1 DEF Worker, WaitForSettings, BeginHandshake, BeginPump, OpenSocket, GiveUp,
         AttemptTimesOut, Read, ReadAccept, ReadReject, ReadStray, PumpRead, PumpEmpty, Housekeeping,
         SendFrame, RelayBroadcast, vars, relay
    <3>2. ASSUME NEW m \in net, Deliver(m) PROVE UNCHANGED registered
      BY <1>1, <3>2 DEF Deliver, RelayPing, RelayRoster, Undeliverable, relay
    <3>3. CASE Relay
      BY <3>3 DEF Relay, RelaySweeps, RelayForgets
    <3> QED
      BY <3>1, <3>2, <3>3 DEF CalmStep
  <2> QED
    BY <2>1, <2>2, <2>3
<1>3. InUse' \subseteq InUse /\ \A s \in InUse' : sessions'[s].sock = sessions[s].sock
                                               /\ sessions'[s].uid = sessions[s].uid
  BY <1>1, RelayLeft
<1>4. r \in InUse'
  BY <1>0, <1>2 DEF ClientInv, RelayInv, InUse
<1>5. NoLeftovers'
  <2> SUFFICES ASSUME NEW s \in InUse', sessions'[s].sock = sock PROVE s \in {registered'[sock], swept'}
    BY DEF NoLeftovers
  <2>1. s \in {r, swept} /\ s # None
    BY <1>0, <1>3, SlotsAssumption DEF NoLeftovers, InUse, ClientInv, TypeOK, RelayTypeOK
  <2>2. ASSUME s = swept PROVE swept' = swept
    <3>1. ASSUME RelayForgets PROVE FALSE
      BY <2>1, <2>2, <3>1 DEF RelayForgets, InUse, ClientInv, RelayInv
    <3>2. CASE Worker \/ SendFrame \/ (\E x \in byId : RelayBroadcast(x)) \/ UNCHANGED vars
      BY <3>2 DEF Worker, WaitForSettings, BeginHandshake, BeginPump, OpenSocket, GiveUp,
         AttemptTimesOut, Read, ReadAccept, ReadReject, ReadStray, PumpRead, PumpEmpty, Housekeeping,
         SendFrame, RelayBroadcast, vars, relay, sweep
    <3>3. ASSUME NEW m \in net, Deliver(m) PROVE swept' = swept
      BY <1>1, <3>3 DEF Deliver, RelayPing, RelayRoster, Undeliverable, relay, sweep
    <3>4. CASE Relay
      BY <2>1, <2>2, <3>1, <3>4 DEF Relay, RelaySweeps, RelayExpires
    <3> QED
      BY <3>2, <3>3, <3>4 DEF CalmStep
  <2> QED
    BY <1>2, <2>1, <2>2
<1>6. sessions'[r].age \in {0, Age}
  <2>1. ASSUME NEW k \in Sockets, RelayFrame(k) PROVE sessions'[r].age \in {0, Age}
    BY <1>0, <2>1 DEF RelayFrame, Touch, ClientInv, TypeOK, RelayTypeOK
  <2>2. CASE sessions' = sessions
    BY <2>2
  <2>3. sessions' = sessions \/ \E k \in Sockets : RelayFrame(k)
    <3>1. CASE Worker \/ (\E s \in byId : RelayBroadcast(s)) \/ UNCHANGED vars
      BY <3>1 DEF Worker, WaitForSettings, BeginHandshake, BeginPump, OpenSocket, GiveUp,
         AttemptTimesOut, Read, ReadAccept, ReadReject, ReadStray, PumpRead, PumpEmpty, Housekeeping,
         RelayBroadcast, vars, relay
    <3>2. CASE SendFrame
      BY <1>0, <3>2 DEF SendFrame
    <3>3. ASSUME NEW m \in net, Deliver(m) PROVE sessions' = sessions \/ RelayFrame(m.sock)
      BY <1>1, <3>3 DEF Deliver, RelayPing, RelayFrame, RelayRoster, Undeliverable, relay
    <3>4. CASE Relay
      BY <3>4 DEF Relay, RelaySweeps, RelayExpires, RelayForgets
    <3> QED
      BY <1>0, <3>1, <3>2, <3>3, <3>4 DEF CalmStep
  <2> QED
    BY <2>1, <2>2, <2>3
<1> QED
  BY <1>2, <1>3, <1>4, <1>5, <1>6 DEF Silence

(* In sync the client stays so until the next disturbance.                  *)
LEMMA SyncedSteps ==
  ASSUME Timers, ClientInv, ClientInv', Synced, CalmStep
  PROVE  Synced'
<1>0. /\ PingInterval \in Nat \ {0} /\ sincePing \in 0..PingInterval
      /\ ServerTimeout \in Nat /\ RelayTimeout \in Nat
      /\ sinceRecv \in 0..(ServerTimeout + 1) /\ sock \in Sockets
      /\ Silence \in 0..(RelayTimeout + 1)
      /\ connected /\ active = cfg /\ Registered(sock)
      /\ registered[sock] \in byId /\ registered[sock] # swept /\ registered[sock] # None
      /\ cfg.uid # NoUid /\ ~ConfigChanged /\ cfg.server # "unset"
  BY SyncedNumbers
<1>1. /\ pc \in {"top", "pump", "housekeeping"} /\ cfg' = cfg /\ Wanted /\ Wanted'
      /\ \A n \in net : ~IsConnect(n) /\ n.sock \in Sockets
      /\ looped => sincePing < PingInterval
      /\ Silence <= PingInterval /\ sinceRecv <= PingInterval
      /\ Silence <= sincePing \/ Coming({"Ping"})
      /\ sinceRecv <= sincePing \/ Coming({"Ping", "Pong"})
      /\ sessions[registered[sock]].uid = cfg.uid
  BY DEF Synced, InSync, CalmStep, Connects, Wanted, ClientInv, TypeOK
<1>a. ASSUME ~Tick, UNCHANGED <<connected, active, sock>>
      PROVE  InSync' /\ NoLeftovers' /\ Silence' \in {0, Silence}
  <2>1. /\ registered'[sock] = registered[sock] /\ NoLeftovers' /\ Silence' \in {0, Silence}
        /\ sessions'[registered[sock]].uid = sessions[registered[sock]].uid
    <3>1. Silence <= RelayTimeout /\ NoLeftovers /\ Connects = {}
      BY <1>0, <1>1 DEF Timers, Synced
    <3> QED
      BY <1>0, <1>a, <3>1, RegistrationKept
  <2> QED
    BY <1>0, <1>1, <1>a, <2>1 DEF InSync, Registered
<1>b. /\ \A x : Silence' = 0 \/ Silence' = Silence => Silence' <= PingInterval
      /\ Silence' \in {0, Silence} /\ sincePing' = sincePing /\ (Coming({"Ping"}) => Coming({"Ping"})')
           => Silence' <= sincePing' \/ Coming({"Ping"})'
  BY <1>0, <1>1
<1>2. CASE BeginPump \/ PumpEmpty \/ SendFrame \/ (\E s \in byId : RelayBroadcast(s)) \/ UNCHANGED vars
  <2>1. \A n \in net' : n \in net \/ n.kind = "Broadcast"
    BY <1>2 DEF BeginPump, PumpEmpty, SendFrame, RelayBroadcast, vars, Packet
  <2>2. Connects' = {}
    BY <1>1, <2>1 DEF Connects, IsConnect
  <2>3. /\ net \subseteq net' /\ pc' \in {"top", "pump", "housekeeping"}
        /\ UNCHANGED <<connected, active, sock, looped, sinceRecv, sincePing>>
    BY <1>1, <1>2 DEF BeginPump, PumpEmpty, SendFrame, RelayBroadcast, vars, client
  <2>4. ~Tick
    BY <1>1, <2>3 DEF Tick, Quiet
  <2> QED
    BY <1>0, <1>1, <1>a, <2>2, <2>3, <2>4, SyncedLeft
<1>3. ASSUME NEW m \in Inbox, PumpRead(m) PROVE Synced'
  <2>1. /\ net' = net \ {m} /\ sinceRecv' = 0 /\ pc' \in {"pump", "housekeeping"}
        /\ UNCHANGED <<connected, active, sock, looped, sincePing>> /\ m \in net
    BY <1>3 DEF PumpRead, Inbox
  <2>2. Coming({"Ping"}) => Coming({"Ping"})'
    BY <1>3, <2>1 DEF Coming, Inbox, ToClient
  <2>3. ~Tick
    BY <2>1 DEF Tick
  <2>4. InSync' /\ NoLeftovers' /\ Silence' <= PingInterval
        /\ (Silence' <= sincePing' \/ Coming({"Ping"})')
    BY <1>a, <1>b, <2>1, <2>2, <2>3
  <2> QED
    BY <1>0, <1>1, <2>1, <2>4 DEF Synced, Connects
<1>4. CASE Housekeeping
  <2>1. ~ServerLost
    BY <1>0, <1>1 DEF ServerLost, Timers
  <2>2. /\ UNCHANGED <<connected, active, sock, sinceRecv>> /\ looped' /\ pc' = "top" /\ ~Tick
    BY <1>4, <2>1 DEF Housekeeping, Tick
  <2>3. InSync' /\ NoLeftovers' /\ Silence' \in {0, Silence} /\ Silence' <= PingInterval
    BY <1>a, <1>b, <2>2
  <2>4. CASE PingDue
    <3>1. /\ sincePing' = 0
          /\ net' = net \cup {Packet("Ping", sock, NoUid), Packet("RosterRequest", sock, NoUid)}
      BY <1>4, <2>4 DEF Housekeeping
    <3>2. Packet("Ping", sock, NoUid) \in net'
      BY <3>1
    <3>3. Coming({"Ping"})' /\ Coming({"Ping", "Pong"})'
      BY <2>2, <3>2 DEF Coming, Packet
    <3>4. Connects' = {}
      BY <1>1, <3>1 DEF Connects, IsConnect, Packet
    <3> QED
      BY <1>0, <1>1, <2>2, <2>3, <3>1, <3>3, <3>4 DEF Synced
  <2>5. CASE ~PingDue
    <3>1. net' = net /\ sincePing' = sincePing /\ sincePing < PingInterval
      BY <1>0, <1>4, <2>5 DEF Housekeeping, PingDue
    <3>2. Coming({"Ping"})' = Coming({"Ping"}) /\ Coming({"Ping", "Pong"})' = Coming({"Ping", "Pong"})
      BY <2>2, <3>1 DEF Coming
    <3>3. Silence' <= sincePing' \/ Coming({"Ping"})'
      BY <1>b, <2>3, <3>1, <3>2
    <3> QED
      BY <1>0, <1>1, <2>2, <2>3, <3>1, <3>2, <3>3 DEF Synced, Connects
  <2> QED
    BY <2>4, <2>5
<1>5. CASE Worker /\ ~BeginPump /\ ~PumpEmpty /\ ~Housekeeping /\ ~ \E m \in Inbox : PumpRead(m)
  BY <1>0, <1>1, <1>5 DEF Worker, WaitForSettings, BeginHandshake, OpenSocket, GiveUp,
     AttemptTimesOut, Read, ReadAccept, ReadReject, ReadStray
<1>6. ASSUME NEW m \in net, Deliver(m) PROVE Synced'
  <2>0. ~IsConnect(m) /\ ~RelayConnect(m)
    BY <1>1, ConnectEffects
  <2>1. /\ UNCHANGED <<connected, active, sock, looped, pc, sinceRecv, sincePing>> /\ ~Tick
    <3>1. UNCHANGED client /\ m \notin net'
      BY <1>6, <2>0 DEF Deliver, RelayPing, RelayRoster, Undeliverable, Packet, ToClient
    <3> QED
      BY <3>1 DEF client, Tick
  <2>2. Connects' = {}
    BY <1>1, <1>6, <2>0 DEF Deliver, RelayPing, RelayRoster, Undeliverable,
       Connects, IsConnect, Packet
  <2>3. InSync' /\ NoLeftovers' /\ Silence' \in {0, Silence} /\ Silence' <= PingInterval
    BY <1>a, <1>b, <2>1
  <2>4. CASE RelayPing(m) /\ m.sock = sock
    <3>1. /\ sessions' = [sessions EXCEPT ![registered[sock]].age = 0] /\ registered' = registered
          /\ net' = (net \ {m}) \cup {Packet("Pong", sock, NoUid)}
      BY <1>0, <1>1, <2>4 DEF RelayPing, Touch
    <3>2. Silence' = 0
      BY <1>0, <2>1, <3>1 DEF Silence, ClientInv, TypeOK, RelayTypeOK
    <3>3. Packet("Pong", sock, NoUid) \in net'
      BY <3>1
    <3>4. Coming({"Ping", "Pong"})'
      BY <2>1, <3>3 DEF Coming, Packet
    <3> QED
      BY <1>0, <1>1, <2>1, <2>2, <2>3, <3>2, <3>4 DEF Synced
  <2>5. CASE ~(RelayPing(m) /\ m.sock = sock)
    <3>1. net \ {m} \subseteq net' /\ ~(m.sock = sock /\ m.kind \in {"Ping", "Pong"})
      BY <1>6, <2>0, <2>5 DEF Deliver, RelayPing, RelayRoster, Undeliverable, IsConnect
    <3>2. (Coming({"Ping"}) => Coming({"Ping"})') /\ (Coming({"Ping", "Pong"}) => Coming({"Ping", "Pong"})')
      BY <2>1, <3>1 DEF Coming
    <3>3. Silence' <= sincePing' \/ Coming({"Ping"})'
      BY <1>b, <2>1, <2>3, <3>2
    <3> QED
      BY <1>0, <1>1, <2>1, <2>2, <2>3, <3>2, <3>3 DEF Synced
  <2> QED
    BY <2>4, <2>5
<1>7. CASE Relay
  <2>1. UNCHANGED <<connected, active, sock, looped, pc, sinceRecv, sincePing, net>>
    BY <1>7 DEF Relay, RelaySweeps, RelayExpires, RelayForgets, client
  <2>2. ~Tick
    BY <1>7 DEF Relay, RelaySweeps, RelayExpires, RelayForgets, Tick, Quiet
  <2>3. Connects' = {} /\ InSync' /\ NoLeftovers' /\ Silence' \in {0, Silence}
    BY <1>1, <1>a, <2>1, <2>2 DEF Connects
  <2> QED
    BY <1>0, <1>1, <2>1, <2>3, SyncedLeft
<1>8. CASE Tick
  <2>1. looped /\ pc = "pump" /\ \A n \in net : n.slow \/ n.kind = "Broadcast"
    BY <1>1, <1>8 DEF Tick, Quiet
  <2>2. ~Coming({"Ping"}) /\ ~Coming({"Ping", "Pong"})
    BY <2>1 DEF Coming
  <2>3. /\ UNCHANGED <<connected, active, sock, byId, due, swept, registered, net>>
        /\ ~looped' /\ pc' = "pump" /\ due = {} /\ swept = None
        /\ sessions' = [s \in Slots |->
             IF s \in byId THEN [sessions[s] EXCEPT !.age = Capped(@, RelayTimeout + 1)]
             ELSE NoSession]
    BY <1>8, <2>1 DEF Tick, Quiet
  <2>4. /\ byId \subseteq Slots
        /\ \A s \in byId : /\ sessions'[s].sock = sessions[s].sock
                           /\ sessions'[s].uid = sessions[s].uid
                           /\ sessions'[s].age = Capped(sessions[s].age, RelayTimeout + 1)
    BY <2>3 DEF ClientInv, TypeOK, RelayTypeOK
  <2>5. InSync' /\ NoLeftovers'
    BY <1>0, <1>1, <2>3, <2>4 DEF InSync, Registered, NoLeftovers, InUse, Synced
  <2>6. Silence' = Capped(Silence, RelayTimeout + 1)
    BY <1>0, <2>3, <2>4 DEF Silence
  <2>7. /\ sincePing' = sincePing + 1 /\ sincePing + 1 <= PingInterval
        /\ sinceRecv' <= sinceRecv + 1 /\ sinceRecv' \in Nat
        /\ Silence' <= Silence + 1 /\ Silence' \in Nat
    BY <1>0, <1>1, <1>8, <2>1, <2>6 DEF Tick, Capped
  <2>8. /\ Silence' <= PingInterval /\ sinceRecv' <= PingInterval
        /\ Silence' <= sincePing' /\ sinceRecv' <= sincePing'
    BY <1>0, <1>1, <2>2, <2>7
  <2> QED
    BY <1>0, <1>1, <2>3, <2>5, <2>8 DEF Synced, Connects
<1> QED
  BY <1>2, <1>3, <1>4, <1>5, <1>6, <1>7, <1>8 DEF CalmStep

----------------------------------------------------------------------------
(* An attempt on its way to be answered: its request is the only one and no *)
(* tick can overtake it, or its answer, and then the relay has registered   *)
(* what the request asks for.                                               *)
Answering ==
  /\ Wanted /\ pc = "await" /\ hs = cfg /\ waited = 0
  /\ \/ /\ Connects = {Packet("ConnectGood", sock, cfg.uid)}
        /\ \A m \in net : m.sock = sock => m.kind # "Accept"
     \/ /\ Connects = {} /\ Coming({"Accept"})
        /\ Registered(sock) /\ HeldFor(sock) = cfg.uid /\ Silence = 0

(* A step beside the handshake.                                             *)
LEMMA AnsweringLeft ==
  ASSUME Answering, cfg' = cfg, UNCHANGED <<pc, hs, waited, sock>>,
         \A n \in net' : n \in net \/ ~IsHandshake(n),
         \A n \in net : n \in net' \/ ~IsHandshake(n),
         Connects = {} /\ Registered(sock) /\ HeldFor(sock) = cfg.uid /\ Silence = 0
           => Registered(sock)' /\ HeldFor(sock)' = cfg.uid /\ Silence' = 0
  PROVE  Answering'
<1>1. Connects' = Connects
  BY DEF Connects, IsConnect, IsHandshake
<1>2. Coming({"Accept"}) => Coming({"Accept"})'
  BY DEF Coming, IsHandshake
<1>3. (\A m \in net : m.sock = sock => m.kind # "Accept")
        => \A m \in net' : m.sock = sock' => m.kind # "Accept"
  BY DEF IsHandshake
<1> QED
  BY <1>1, <1>2, <1>3 DEF Answering, Wanted

LEMMA AnsweringSteps ==
  ASSUME ClientInv, ClientInv', OnceInv, Answering, CalmStep, NoLeftovers, NoLeftovers', Room
  PROVE  Answering' \/ Synced'
<1>0. /\ pc = "await" /\ sock \in Sockets /\ ~connected /\ waited = 0 /\ hs = cfg /\ cfg' = cfg
      /\ Wanted /\ Wanted' /\ RelayTimeout \in Nat
      /\ HandshakeTimeout \in Nat \ {0} /\ PingInterval \in Nat \ {0}
      /\ \A n \in net : n.sock \in Sockets
  BY TimersAssumption DEF Answering, CalmStep, ClientInv, TypeOK, WorkerInv, Wanted
<1>a. ASSUME ~Tick, sock' = sock, Connects = {}, Registered(sock), HeldFor(sock) = cfg.uid, Silence = 0
      PROVE  Registered(sock)' /\ HeldFor(sock)' = cfg.uid /\ Silence' = 0
  <2>1. Silence <= RelayTimeout
    BY <1>0, <1>a
  <2>2. /\ registered'[sock] = registered[sock] /\ Silence' \in {0, Silence}
        /\ sessions'[registered[sock]].uid = sessions[registered[sock]].uid
    BY <1>0, <1>a, <2>1, RegistrationKept
  <2> QED
    BY <1>a, <2>2 DEF Registered, HeldFor
<1>1. CASE Worker
  <2>1. PICK m \in Inbox : ReadAccept(m) \/ ReadReject(m) \/ ReadStray(m)
    BY <1>0, <1>1 DEF Worker, WaitForSettings, BeginHandshake, BeginPump, OpenSocket, GiveUp,
       AttemptTimesOut, Read, PumpRead, PumpEmpty, Housekeeping
  <2>2. m \in net /\ m.sock = sock /\ m.kind \in ToClient
    BY DEF Inbox
  <2>3. CASE ReadReject(m)
    <3>1. \A n \in net : n.sock = sock /\ IsHandshake(n) => n = m
      BY <1>0, <2>2, <2>3 DEF ReadReject, OnceInv, IsHandshake
    <3>2. CASE Connects = {Packet("ConnectGood", sock, cfg.uid)}
      <4> DEFINE request == Packet("ConnectGood", sock, cfg.uid)
      <4>1. request \in net
        BY <3>2 DEF Connects
      <4>2. request.sock = sock /\ request.kind = "ConnectGood"
        BY DEF Packet
      <4> QED
        BY <2>3, <3>1, <4>1, <4>2 DEF IsHandshake, ReadReject
    <3>3. CASE Coming({"Accept"})
      BY <2>3, <3>1, <3>3 DEF Coming, IsHandshake, ReadReject
    <3> QED
      BY <3>2, <3>3 DEF Answering
  <2>4. CASE ReadAccept(m)
    <3>1. Connects = {} /\ Registered(sock) /\ HeldFor(sock) = cfg.uid /\ Silence = 0
      BY <2>2, <2>4 DEF ReadAccept, Answering
    <3>2. /\ net' = net \ {m} /\ active' = cfg /\ sincePing' = 0 /\ sinceRecv' = 0 /\ connected'
          /\ pc' = "pump" /\ UNCHANGED <<sock, registered, sessions>>
      BY <1>0, <2>4 DEF ReadAccept, relay
    <3>3. InSync' /\ Silence' = 0
      BY <1>0, <3>1, <3>2 DEF InSync, Registered, HeldFor, Silence
    <3> QED
      BY <1>0, <3>1, <3>2, <3>3 DEF Synced, Connects
  <2>5. CASE ReadStray(m)
    <3>1. /\ net' = net \ {m} /\ UNCHANGED <<pc, hs, waited, sock, registered, sessions>>
          /\ ~IsHandshake(m)
      BY <2>2, <2>5 DEF ReadStray, client, relay, IsHandshake, ToClient
    <3>2. /\ Registered(sock)' = Registered(sock) /\ HeldFor(sock)' = HeldFor(sock)
          /\ Silence' = Silence
      BY <3>1 DEF Registered, HeldFor, Silence
    <3> QED
      BY <1>0, <3>1, <3>2, AnsweringLeft
  <2> QED
    BY <2>1, <2>3, <2>4, <2>5
<1>2. ASSUME NEW m \in net, RelayConnect(m) PROVE Answering'
  <2>1. m = Packet("ConnectGood", sock, cfg.uid) /\ Connects = {m}
    BY <1>2, ConnectEffects DEF Answering, Connects
  <2>2. m.kind = "ConnectGood" /\ m.sock = sock /\ m.uid = cfg.uid /\ m.uid # NoUid
    BY <1>0, <2>1 DEF Packet, Wanted
  <2>3. RelayAdmits(m)
    <3>1. Evicted(m.uid) = Evicted(cfg.uid)
      BY <2>2
    <3>2. Cardinality(Evicted(m.uid)) < places
      BY <3>1 DEF Room
    <3>3. ~RelayRefuses(m)
      BY <2>2 DEF RelayRefuses
    <3>4. CASE RelayFull(m)
      <4>1. Evicted(m.uid) \subseteq Slots /\ places \in Nat
        BY <1>2 DEF Evicted, ClientInv, TypeOK, RelayTypeOK
      <4>2. Cardinality(Evicted(m.uid)) \in Nat
        BY <4>1, SlotsAssumption, FS_Subset, FS_CardinalityType
      <4>3. Cardinality(Evicted(m.uid)) >= places
        BY <3>4 DEF RelayFull
      <4> QED
        BY <3>2, <4>1, <4>2, <4>3
    <3> QED
      BY <1>2, <3>3, <3>4 DEF RelayConnect
  <2>4. /\ net' = (net \ {m}) \cup {Packet("Accept", sock, NoUid)}
        /\ UNCHANGED <<pc, hs, waited, sock>>
    BY <2>2, <2>3 DEF RelayAdmits, client
  <2>5. Registered(sock)' /\ HeldFor(sock)' = cfg.uid /\ Silence' = 0
    <3>1. /\ HeldFor(m.sock)' = m.uid /\ sessions'[registered'[m.sock]].age = 0
          /\ registered'[m.sock] # None
      BY <2>3, AdmitHeld
    <3>2. sock # None
      BY <1>0, SocketsAssumption
    <3> QED
      BY <2>2, <2>4, <3>1, <3>2 DEF Registered, Silence
  <2>6. Connects' = {}
    BY <2>1, <2>4 DEF Connects, IsConnect, Packet
  <2>7. Packet("Accept", sock, NoUid) \in net'
    BY <2>4
  <2>8. Coming({"Accept"})'
    BY <2>4, <2>7 DEF Coming, Packet
  <2> QED
    BY <1>0, <2>4, <2>5, <2>6, <2>8 DEF Answering
<1>6. ~SendFrame
  BY <1>0 DEF SendFrame
<1>7. ~Tick
  <2>1. \E m \in net : ~m.slow /\ m.kind \in {"ConnectGood", "Accept"}
    <3>1. CASE Connects = {Packet("ConnectGood", sock, cfg.uid)}
      <4> DEFINE request == Packet("ConnectGood", sock, cfg.uid)
      <4>1. request \in net
        BY <3>1 DEF Connects
      <4>2. ~request.slow /\ request.kind = "ConnectGood"
        BY DEF Packet
      <4> QED
        BY <4>1, <4>2
    <3>2. CASE Coming({"Accept"})
      BY <3>2 DEF Coming
    <3> QED
      BY <3>1, <3>2 DEF Answering
  <2> QED
    BY <1>0, <2>1 DEF Tick, Quiet
<1>3. ASSUME NEW m \in net, Deliver(m), ~RelayConnect(m) PROVE Answering'
  <2>1. UNCHANGED <<pc, hs, waited, sock>>
    BY <1>3, DeliverEffects DEF client
  <2>2. \A n \in net' : n \in net \/ ~IsHandshake(n)
    BY <1>3 DEF Deliver, RelayPing, RelayRoster, Undeliverable, Packet, IsHandshake
  <2>3. CASE Undeliverable(m)
    <3>1. \A kinds : Coming(kinds) => Coming(kinds)'
      BY <2>1, <2>3 DEF Coming, Undeliverable
    <3>2. net' \subseteq net /\ Connects' = Connects
      BY <2>3 DEF Undeliverable, Connects, IsConnect, ToClient
    <3>3. Connects = {} /\ Registered(sock) /\ HeldFor(sock) = cfg.uid /\ Silence = 0
            => Registered(sock)' /\ HeldFor(sock)' = cfg.uid /\ Silence' = 0
      BY <1>a, <1>7, <2>1
    <3> QED
      BY <1>0, <2>1, <3>1, <3>2, <3>3 DEF Answering
  <2>4. CASE ~Undeliverable(m)
    <3>1. \A n \in net : n \in net' \/ ~IsHandshake(n)
      BY <1>3, <2>4 DEF Deliver, RelayPing, RelayRoster, IsHandshake
    <3> QED
      BY <1>0, <1>a, <1>7, <2>1, <2>2, <3>1, AnsweringLeft
  <2> QED
    BY <2>3, <2>4
<1>4. CASE Relay
  <2>1. UNCHANGED <<pc, hs, waited, sock, net>>
    BY <1>4 DEF Relay, RelaySweeps, RelayExpires, RelayForgets, client
  <2> QED
    BY <1>0, <1>a, <1>7, <2>1, AnsweringLeft
<1>5. CASE (\E s \in byId : RelayBroadcast(s)) \/ UNCHANGED vars
  <2>1. /\ UNCHANGED <<pc, hs, waited, sock>> /\ net \subseteq net'
        /\ \A n \in net' : n \in net \/ n.kind = "Broadcast"
    BY <1>5 DEF RelayBroadcast, client, vars, Packet
  <2> QED
    BY <1>0, <1>a, <1>7, <2>1, AnsweringLeft DEF IsHandshake
<1> QED
  BY <1>1, <1>2, <1>3, <1>4, <1>5, <1>6, <1>7 DEF CalmStep

(* Requests that are not the one the worker waits for, and those that the   *)
(* network holds back.                                                      *)
Stale == {m \in Connects : ~(pc = "await" /\ m.sock = sock /\ ~m.slow)}

(* When nothing is disturbed their number only falls.                       *)
LEMMA StaleSteps ==
  ASSUME ClientInv, SettleInv, CalmStep
  PROVE  /\ Stale' \subseteq Stale
         /\ \A m \in Stale : Deliver(m) => m \notin Stale'
<1>0. HandshakeTimeout \in Nat \ {0} /\ waited \in 0..HandshakeTimeout
  BY TimersAssumption DEF ClientInv, TypeOK
<1>1. ASSUME NEW n \in Stale' PROVE n \in Stale
  <2>0. n \in net' /\ IsConnect(n)
    BY DEF Stale, Connects
  <2>1. ASSUME NEW k \in Sockets, OpenSocket(k) PROVE n \in Stale
    <3>1. pc = "open" /\ pc' = "await" /\ sock' = k /\ net' = net \cup ConnectRequest(k)
      BY <2>1 DEF OpenSocket
    <3>2. \A x \in ConnectRequest(k) : x.sock = k /\ ~x.slow
      BY DEF ConnectRequest, Packet
    <3>3. n \in net
      BY <2>0, <3>1, <3>2 DEF Stale
    <3> QED
      BY <2>0, <3>1, <3>3 DEF Stale, Connects
  <2>2. CASE Worker /\ pc # "await" /\ ~ \E k \in Sockets : OpenSocket(k)
    <3>1. n \in net
      BY <2>0, <2>2 DEF Worker, WaitForSettings, BeginHandshake, BeginPump, GiveUp, AttemptTimesOut,
         Read, ReadAccept, ReadReject, ReadStray, PumpRead, PumpEmpty, Housekeeping, Packet, IsConnect
    <3> QED
      BY <2>0, <2>2, <3>1 DEF Stale, Connects
  <2>3. CASE AttemptTimesOut
    <3>1. pc = "await" /\ waited > 0 /\ net' = net
      BY <1>0, <2>3 DEF AttemptTimesOut
    <3>2. n \in Connects /\ n.slow
      BY <2>0, <3>1 DEF SettleInv, WaitInv, Connects
    <3> QED
      BY <3>2 DEF Stale
  <2>4. ASSUME NEW m \in Inbox, ReadAccept(m) \/ ReadReject(m) PROVE n \in Stale
    <3>1. /\ pc = "await" /\ net' = net \ {m} /\ m \in net /\ m.sock = sock
          /\ m.kind \in {"Accept", "Reject"}
      BY <2>4 DEF ReadAccept, ReadReject, Inbox
    <3>2. n \in net /\ n.sock # sock
      BY <2>0, <3>1 DEF SettleInv, OnceInv, IsConnect, IsHandshake
    <3> QED
      BY <2>0, <3>2 DEF Stale, Connects
  <2>5. ASSUME pc' = pc, sock' = sock, n \in net PROVE n \in Stale
    BY <2>0, <2>5 DEF Stale, Connects
  <2>6. ASSUME NEW m \in Inbox, ReadStray(m) PROVE n \in Stale
    BY <2>0, <2>5, <2>6 DEF ReadStray, client
  <2>7. CASE Worker
    <3>1. pc = "await" => AttemptTimesOut \/ \E m \in Inbox : ReadAccept(m) \/ ReadReject(m) \/ ReadStray(m)
      BY <2>7 DEF Worker, WaitForSettings, BeginHandshake, BeginPump, OpenSocket, GiveUp, Read, PumpRead,
         PumpEmpty, Housekeeping
    <3> QED
      BY <2>1, <2>2, <2>3, <2>4, <2>6, <2>7, <3>1
  <2>8. ASSUME NEW m \in net, Deliver(m) PROVE n \in Stale
    <3>1. n \in net /\ pc' = pc /\ sock' = sock
      BY <2>0, <2>8, DeliverEffects DEF client, Packet, IsConnect, ToClient
    <3> QED
      BY <2>5, <3>1
  <2>9. CASE Relay \/ SendFrame \/ (\E s \in byId : RelayBroadcast(s)) \/ UNCHANGED vars
    <3>1. n \in net /\ pc' = pc /\ sock' = sock
      BY <2>0, <2>9 DEF Relay, RelaySweeps, RelayExpires, RelayForgets, SendFrame, RelayBroadcast, vars,
         client, Packet, IsConnect
    <3> QED
      BY <2>5, <3>1
  <2>10. CASE Tick
    BY <2>0, <2>10 DEF Tick, Stale, Connects
  <2> QED
    BY <2>7, <2>8, <2>9, <2>10 DEF CalmStep
<1>2. ASSUME NEW m \in Stale, Deliver(m) PROVE m \notin Stale'
  <2>1. RelayConnect(m)
    BY <1>2 DEF Stale, Connects, IsConnect, Deliver, RelayPing, RelayRoster, Undeliverable, ToClient
  <2>2. m \notin net'
    BY <2>1, <1>2, ConnectEffects DEF Packet, Stale, Connects, IsConnect
  <2> QED
    BY <2>2 DEF Stale, Connects
<1> QED
  BY <1>1, <1>2

(* A socket opened when no request is stale: the attempt is answered.       *)
LEMMA AttemptBegins ==
  ASSUME ClientInv, CalmStep, Wanted, hs = cfg, Stale = {}, pc = "open", pc' = "await"
  PROVE  Answering'
<1>1. PICK k \in Sockets : OpenSocket(k)
  <2>1. Worker
    BY DeliverEffects DEF CalmStep, Relay, RelaySweeps, RelayExpires, RelayForgets, SendFrame,
       RelayBroadcast, Tick, vars, client
  <2> QED
    BY <2>1 DEF Worker, WaitForSettings, BeginHandshake, BeginPump, GiveUp, AttemptTimesOut, Read,
       ReadAccept, ReadReject, ReadStray, PumpRead, PumpEmpty, Housekeeping
<1>2. /\ sock' = k /\ hs' = hs /\ waited' = 0 /\ cfg' = cfg
      /\ net' = net \cup {Packet("ConnectGood", k, cfg.uid)}
  BY <1>1 DEF OpenSocket, ConnectRequest, CalmStep, Wanted
<1>3. Connects = {}
  BY DEF Stale
<1>4. Connects' = {Packet("ConnectGood", sock', cfg'.uid)}
  BY <1>2, <1>3 DEF Connects, IsConnect, Packet
<1>5. \A m \in net' : m.sock = sock' => m.kind # "Accept"
  BY <1>1, <1>2 DEF OpenSocket, Fresh, Packet
<1> QED
  BY <1>2, <1>4, <1>5 DEF Answering, Wanted

(* How the worker goes round when the settings are good and stay.           *)
AttemptsLeft == HandshakeRetries - attempt

(* Being in an attempt, or in the loop of a connection.                     *)
Opening == pc = "open"
Awaiting == pc = "await"
AtTop == pc = "top"
First == pc = "open" /\ attempt < HandshakeRetries
Matched == hs = cfg
Accepted == connected /\ active = cfg

LEMMA WorkerMoves ==
  ASSUME ClientInv, CalmStep, Wanted
  PROVE  /\ Asleep => Asleep' \/ (AtTop' /\ ~Worker)
         /\ Asleep /\ Tick => AtTop'
         /\ AtTop => IF Worker THEN /\ Matched'
                                    /\ IF Accepted THEN pc' = "pump" ELSE First' /\ ~connected'
                               ELSE AtTop' /\ (connected' <=> connected)
         /\ First => First' \/ Awaiting'
         /\ Opening /\ ~First => (Opening' /\ ~First') \/ Asleep'
         /\ Awaiting => Awaiting' \/ (Opening' /\ AttemptsLeft' < AttemptsLeft) \/ Asleep' \/ pc' = "pump"
         /\ AttemptsLeft' > AttemptsLeft => AtTop /\ Opening'
         /\ pc = "pump" => pc' \in {"pump", "housekeeping"}
         /\ pc = "housekeeping" => IF Worker THEN AtTop' ELSE pc' = "housekeeping"
         /\ Matched => Matched'
         /\ connected /\ ~AtTop /\ pc # "housekeeping" => connected'
         /\ ~connected /\ connected' => Awaiting
         /\ connected /\ connected' => (active' = active) /\ sock' = sock
<1>0. /\ HandshakeRetries \in Nat \ {0} /\ attempt \in 0..HandshakeRetries
      /\ cfg' = cfg /\ cfg.server # "unset" /\ (ConfigChanged <=> active # cfg)
      /\ pc \in {"top", "sleep", "open", "await", "pump", "housekeeping"}
      /\ pc = "await" => attempt < HandshakeRetries /\ ~connected
      /\ pc = "open" => ~connected
      /\ pc \in {"pump", "housekeeping"} => connected
  BY TimersAssumption, WantedChanges DEF ClientInv, TypeOK, WorkerInv, CalmStep
<1> USE DEF Asleep, Opening, Awaiting, AtTop, First, Matched, Accepted
<1>1. CASE ~Worker
  <2>1. /\ UNCHANGED <<hs, active, connected, attempt, sock>>
        /\ pc' = pc \/ (pc = "sleep" /\ pc' = "top")
        /\ Tick /\ pc = "sleep" => pc' = "top"
    BY <1>1, DeliverEffects DEF CalmStep, Relay, RelaySweeps, RelayExpires, RelayForgets, SendFrame,
       RelayBroadcast, Tick, vars, client
  <2>2. AttemptsLeft' = AttemptsLeft /\ AttemptsLeft \in Int
    BY <1>0, <2>1 DEF AttemptsLeft
  <2>3. ~(AttemptsLeft' > AttemptsLeft)
    BY <2>2
  <2> QED
    BY <1>0, <1>1, <2>1, <2>3
<1>2. CASE Worker
  <2>0. ~(Tick /\ pc = "sleep")
    BY <1>2 DEF Tick, Worker, WaitForSettings, BeginHandshake, BeginPump, OpenSocket, GiveUp,
       AttemptTimesOut, Read, ReadAccept, ReadReject, ReadStray, PumpRead, PumpEmpty, Housekeeping
  <2>a. attempt' = attempt => ~(AttemptsLeft' > AttemptsLeft)
    BY <1>0 DEF AttemptsLeft
  <2>1. ~WaitForSettings
    BY <1>0 DEF WaitForSettings
  <2>2. CASE BeginHandshake
    <3>1. /\ pc = "top" /\ ~Accepted /\ pc' = "open" /\ hs' = cfg /\ attempt' = 0 /\ ~connected'
      BY <1>0, <2>2 DEF BeginHandshake, Disconnect
    <3> QED
      BY <1>0, <1>2, <3>1
  <2>3. CASE BeginPump
    BY <1>0, <1>2, <2>3, <2>a DEF BeginPump
  <2>4. ASSUME NEW k \in Sockets, OpenSocket(k)
        PROVE  /\ First /\ pc' = "await" /\ hs' = hs /\ connected' = connected /\ attempt' = attempt
               /\ active' = active
    BY <2>4 DEF OpenSocket
  <2>5. CASE \E k \in Sockets : OpenSocket(k)
    BY <1>0, <2>4, <2>5, <2>a
  <2>6. CASE GiveUp
    BY <1>0, <2>6, <2>a DEF GiveUp
  <2>7. CASE AttemptTimesOut
    <3>1. AttemptsLeft' < AttemptsLeft /\ ~(AttemptsLeft' > AttemptsLeft)
      BY <1>0, <2>7 DEF AttemptTimesOut, AttemptsLeft
    <3> QED
      BY <1>0, <2>7, <3>1 DEF AttemptTimesOut
  <2>8. ASSUME NEW m \in Inbox, Read(m)
        PROVE  \/ pc = "await" /\ pc' \in {"await", "sleep", "pump"}
               \/ /\ pc = "pump" /\ pc' \in {"pump", "housekeeping"}
                  /\ UNCHANGED <<connected, active, sock>>
    BY <1>0, <2>8 DEF Read, ReadAccept, ReadReject, ReadStray, PumpRead, client
  <2>9. CASE \E m \in Inbox : Read(m)
    <3>1. hs' = hs /\ attempt' = attempt
      BY <2>9 DEF Read, ReadAccept, ReadReject, ReadStray, PumpRead, client
    <3> QED
      BY <1>0, <2>8, <2>9, <2>a, <3>1
  <2>10. CASE PumpEmpty
    BY <1>0, <2>10, <2>a DEF PumpEmpty
  <2>11. CASE Housekeeping
    BY <1>0, <1>2, <2>11, <2>a DEF Housekeeping, Disconnect
  <2> QED
    BY <1>2, <2>1, <2>2, <2>3, <2>5, <2>6, <2>7, <2>9, <2>10, <2>11 DEF Worker
<1> QED
  BY <1>1, <1>2

(* A pump ends: it reads at most its limit.                                 *)
LEMMA PumpMoves ==
  ASSUME ClientInv, PumpInv, CalmStep, pc = "pump"
  PROVE  /\ ~(PumpLeft' > PumpLeft)
         /\ Worker => pc' = "housekeeping" \/ PumpLeft' < PumpLeft
<1>0. /\ MaxPacketsPerPump \in Nat \ {0} /\ drained \in 0..MaxPacketsPerPump
      /\ drained < MaxPacketsPerPump
  BY TimersAssumption DEF ClientInv, TypeOK, PumpInv
<1>1. CASE ~Worker
  <2>1. drained' = drained
    BY <1>1, DeliverEffects DEF CalmStep, Relay, RelaySweeps, RelayExpires, RelayForgets, SendFrame,
       RelayBroadcast, Tick, vars, client
  <2> QED
    BY <1>0, <1>1, <2>1 DEF PumpLeft
<1>2. ASSUME NEW m \in Inbox, PumpRead(m)
      PROVE  PumpLeft' < PumpLeft /\ ~(PumpLeft' > PumpLeft)
  BY <1>0, <1>2 DEF PumpRead, PumpLeft, Capped
<1>3. CASE PumpEmpty
  BY <1>0, <1>3 DEF PumpEmpty, PumpLeft
<1>4. Worker => PumpEmpty \/ \E m \in Inbox : PumpRead(m)
  BY DEF Worker, WaitForSettings, BeginHandshake, BeginPump, OpenSocket, GiveUp, AttemptTimesOut,
     Read, ReadAccept, ReadReject, ReadStray, Housekeeping
<1> QED
  BY <1>1, <1>2, <1>3, <1>4 DEF PumpEmpty

(* Connected to a relay that does not know the socket and whose sweep is    *)
(* through with it, the client hears nothing but what is in the socket      *)
(* already, and the watchdog ends it.                                       *)
PumpReads == \E m \in Inbox : PumpRead(m)
KnownToRelay == Registered(sock) /\ HeldFor(sock) = cfg.uid
Forgotten == \A s \in InUse : sessions[s].sock # sock

LEMMA SweptIsForgotten ==
  ASSUME ClientInv, RegisteredInv, Accepted, ~KnownToRelay
  PROVE  registered[sock] = None /\ (NoLeftovers /\ swept = None => Forgotten)
<1>1. connected /\ active = cfg /\ sock \in Sockets
  BY DEF Accepted, ClientInv, TypeOK, ConnectedMeansAccepted
<1>2. registered[sock] = None
  <2>1. registered[sock] # None => HeldFor(sock) # NoUid
    BY <1>1 DEF HeldFor, ClientInv, RelayInv, InUse
  <2> QED
    BY <1>1, <2>1, SocketsAssumption DEF RegisteredInv, KnownToRelay, Registered
<1>3. \A s \in InUse : s # None
  BY SlotsAssumption DEF InUse, ClientInv, TypeOK, RelayTypeOK
<1> QED
  BY <1>2, <1>3 DEF NoLeftovers, Forgotten

LEMMA UnknownSteps ==
  ASSUME ClientInv, ClientInv', SettleInv, CalmStep, Wanted, Accepted, connected', Stale = {},
         ~KnownToRelay
  PROVE  /\ ~KnownToRelay'
         /\ Forgotten => Forgotten' /\ Inbox' \subseteq Inbox
         /\ PumpReads => \E m \in Inbox : m \notin Inbox'
         /\ sinceRecv' < sinceRecv => PumpReads
         /\ ServerLost /\ ~PumpReads => ServerLost'
         /\ pc = "pump" /\ Worker /\ ~PumpReads => pc' = "housekeeping"
         /\ pc = "housekeeping" /\ ServerLost => ~Worker
<1>0. /\ cfg' = cfg /\ connected /\ active = cfg /\ cfg.uid # NoUid /\ sock \in Sockets
      /\ pc \in {"top", "sleep", "pump", "housekeeping"}
      /\ ServerTimeout \in Nat /\ sinceRecv \in 0..(ServerTimeout + 1)
      /\ \A n \in net : n.sock \in Sockets
  BY TimersAssumption DEF ClientInv, TypeOK, WorkerInv, ConnectedMeansAccepted, CalmStep, Wanted, Accepted
<1>1. registered[sock] = None /\ ~Registered(sock)
  BY SweptIsForgotten DEF SettleInv, Registered
<1>2. \A n \in net : ~IsConnect(n)
  BY <1>0 DEF Stale, Connects
<1>a. [Next]_vars /\ ~ \E m \in net : RelayConnect(m)
  BY <1>2, ConnectEffects DEF CalmStep, Next, Environment
<1>b. /\ registered'[sock] = None /\ InUse' \subseteq InUse
      /\ \A s \in InUse' : sessions'[s].sock = sessions[s].sock
  BY <1>0, <1>1, <1>a, RelayLeft
<1> DEFINE Kept == /\ sock' = sock
                   /\ Forgotten => \A n \in net' : n.sock = sock /\ n.kind \in ToClient => n \in net
                   /\ sinceRecv' >= sinceRecv
<1>3. ASSUME NEW m \in net, Deliver(m) PROVE Kept
  <2>1. sock' = sock /\ sinceRecv' = sinceRecv
    BY <1>3, DeliverEffects DEF client
  <2>2. \A n \in net' : n.sock = sock /\ n.kind \in ToClient => n \in net
    BY <1>1, <1>3, <1>a DEF Deliver, RelayPing, RelayRoster, Undeliverable, Packet, ToClient
  <2> QED
    BY <1>0, <2>1, <2>2
<1>4. ASSUME Relay PROVE Kept
  BY <1>0, <1>4 DEF Relay, RelaySweeps, RelayExpires, RelayForgets, client
<1>5. ASSUME SendFrame \/ (\E s \in byId : RelayBroadcast(s)) \/ UNCHANGED vars PROVE Kept
  <2>1. sock' = sock /\ sinceRecv' = sinceRecv
    BY <1>5 DEF SendFrame, RelayBroadcast, client, vars
  <2>2. ASSUME Forgotten PROVE \A n \in net' : n.sock = sock /\ n.kind \in ToClient => n \in net
    <3>1. CASE \E s \in byId : RelayBroadcast(s)
      <4>1. PICK s \in byId : RelayBroadcast(s)
        BY <3>1
      <4>2. sessions[s].sock # sock /\ net' = net \cup {Packet("Broadcast", sessions[s].sock, NoUid)}
        BY <2>2, <4>1 DEF RelayBroadcast, Forgotten, InUse
      <4> QED
        BY <4>2 DEF Packet
    <3> QED
      BY <1>5, <3>1 DEF SendFrame, vars
  <2> QED
    BY <1>0, <2>1, <2>2
<1>6. ASSUME Tick PROVE Kept
  <2>1. sinceRecv' = Capped(sinceRecv, ServerTimeout + 1) /\ sock' = sock /\ net' = net
    BY <1>0, <1>6 DEF Tick
  <2> QED
    BY <1>0, <2>1 DEF Capped
<1>7. ASSUME BeginPump \/ PumpEmpty \/ Housekeeping PROVE Kept
  <2>1. sinceRecv' = sinceRecv /\ sock' = sock
    BY <1>7 DEF BeginPump, PumpEmpty, Housekeeping, Disconnect
  <2>2. \A n \in net' : n.sock = sock /\ n.kind \in ToClient => n \in net
    <3>1. net' \subseteq net \cup {Packet("Ping", sock, NoUid), Packet("RosterRequest", sock, NoUid)}
      BY <1>7 DEF BeginPump, PumpEmpty, Housekeeping
    <3> QED
      BY <3>1 DEF Packet, ToClient
  <2> QED
    BY <1>0, <2>1, <2>2
<1>8. ASSUME NEW m \in Inbox, PumpRead(m)
      PROVE  sock' = sock /\ net' = net \ {m} /\ m \in net
  BY <1>8 DEF PumpRead, Inbox
<1>9. Worker => BeginPump \/ PumpEmpty \/ Housekeeping \/ PumpReads
  BY <1>0, WantedChanges DEF PumpReads, Worker, WaitForSettings, BeginHandshake, Disconnect, OpenSocket,
     GiveUp, AttemptTimesOut, Read, ReadAccept, ReadReject, ReadStray
<1>10. ~PumpReads => Kept
  BY <1>3, <1>4, <1>5, <1>6, <1>7, <1>9 DEF CalmStep
<1>11. sock' = sock /\ (Forgotten => Inbox' \subseteq Inbox)
  BY <1>8, <1>10 DEF PumpReads, Inbox
<1>12. ~KnownToRelay' /\ (Forgotten => Forgotten')
  BY <1>b, <1>11 DEF KnownToRelay, Registered, Forgotten
<1>13. PumpReads => \E m \in Inbox : m \notin Inbox'
  BY <1>8 DEF PumpReads, Inbox
<1>14. (sinceRecv' < sinceRecv => PumpReads) /\ (ServerLost /\ ~PumpReads => ServerLost')
  <2>1. sinceRecv' \in Nat
    BY DEF ClientInv, TypeOK
  <2> QED
    BY <1>0, <1>10, <2>1 DEF ServerLost
<1>15. pc = "pump" /\ Worker /\ ~PumpReads => pc' = "housekeeping"
  BY <1>9 DEF BeginPump, PumpEmpty, Housekeeping
<1>16. pc = "housekeeping" /\ ServerLost => ~Worker
  BY <1>9 DEF BeginPump, PumpEmpty, Housekeeping, PumpReads, PumpRead, Disconnect
<1> QED
  BY <1>11, <1>12, <1>13, <1>14, <1>15, <1>16

(* A finite set that loses elements only.                                   *)
LEMMA SetFalls ==
  ASSUME NEW S, NEW T, IsFiniteSet(S), T \subseteq S
  PROVE  /\ Cardinality(T) \in Nat /\ ~(Cardinality(T) > Cardinality(S))
         /\ \A m \in S : m \notin T => Cardinality(T) < Cardinality(S)
<1>1. Cardinality(T) \in Nat /\ Cardinality(S) \in Nat /\ Cardinality(T) <= Cardinality(S)
      /\ (Cardinality(T) = Cardinality(S) => T = S)
  BY FS_Subset, FS_CardinalityType
<1> QED
  BY <1>1

----------------------------------------------------------------------------
(* In sync with nothing left on the way, the client stays so until the next *)
(* disturbance, provided that neither the relay nor the watchdog waits      *)
(* shorter than a ping takes to come round (VoiceNetworkClient.cpp:498-523).*)
THEOREM SyncKept ==
  ASSUME Timers
  PROVE  Spec => [][Synced /\ budget' = budget => Synced']_vars
<1>1. ClientInv /\ ClientInv' /\ [Next]_vars => [Synced /\ budget' = budget => Synced']_vars
  BY SyncedSteps, Undisturbed
<1> QED
  BY <1>1, ClientInvariant, PTL DEF Spec

(* The premises of Converges.  An attempt ends, by a reply or by its        *)
(* deadline, and the next one has a socket; a request that is on its way    *)
(* when nothing else happens arrives; and the watchdog's clock runs.  The   *)
(* relay ends every removal that its sweep has begun; in the end it has a   *)
(* place for this client, and what earlier handshakes from the client's     *)
(* present port have left at the relay has timed out.                       *)
AttemptsEnd == []<>~Opening /\ []<>~Awaiting

RequestsArrive == <>[](Stale # {}) => []<><<\E m \in Stale : Deliver(m)>>_vars

WatchdogRuns == <>[]connected => []<>ServerLost \/ []<><<sinceRecv' < sinceRecv>>_vars

RelaySettles == []<>(swept = None) /\ <>[](NoLeftovers /\ Room)

StaleCount == Cardinality(Stale)
InboxCount == Cardinality(Inbox)

(* Numbers that do not fall for ever: disturbances, attempts and datagrams. *)
NumbersEnd ==
  /\ NoEndlessFall(budget) /\ NoEndlessFall(AttemptsLeft) /\ NoEndlessFall(PumpLeft)
  /\ NoEndlessFall(StaleCount) /\ NoEndlessFall(InboxCount)

LEMMA PumpBounded == Spec => []PumpInv
<1>1. Init => PumpInv
  BY TimersAssumption DEF Init, PumpInv, PumpLeft
<1>2. ClientInv /\ ClientInv' /\ PumpInv /\ [Next]_vars => PumpInv'
  BY PumpPreserved
<1> QED
  BY <1>1, <1>2, ClientInvariant, PTL DEF Spec

LEMMA CountsFall ==
  ASSUME ClientInv, SettleInv, SettleInv', CalmStep
  PROVE  /\ ~(StaleCount' > StaleCount)
         /\ (\E m \in Stale : Deliver(m)) => StaleCount' < StaleCount
         /\ Stale = {} => Stale' = {}
         /\ Inbox' \subseteq Inbox => ~(InboxCount' > InboxCount)
         /\ Inbox' \subseteq Inbox /\ (\E m \in Inbox : m \notin Inbox')
              => InboxCount' < InboxCount
<1>1. Stale \subseteq net /\ Inbox \subseteq net /\ IsFiniteSet(net)
  BY DEF Stale, Connects, Inbox, SettleInv
<1>2. IsFiniteSet(Stale) /\ IsFiniteSet(Inbox)
  BY <1>1, FS_Subset
<1>3. Stale' \subseteq Stale /\ \A m \in Stale : Deliver(m) => m \notin Stale'
  BY StaleSteps
<1> QED
  BY <1>2, <1>3, SetFalls DEF StaleCount, InboxCount

(* Self-stabilisation: with good settings and no more disturbances the      *)
(* client gets in sync with the relay and stays so, once the relay has a    *)
(* place for it and is rid of leftover sessions.  Either it stays           *)
(* connected, and then the relay knows it, or the watchdog would have ended *)
(* the connection; or it begins an attempt after the last stale request has *)
(* arrived, and that attempt is answered before time can overtake it        *)
(* (VoiceNetworkClient.cpp:317-444, 446-530).                               *)
THEOREM ConvergesCorrect ==
  ASSUME Timers
  PROVE  Spec /\ WorkerRuns /\ AttemptsEnd /\ RequestsArrive /\ WatchdogRuns
              /\ RelaySettles /\ NumbersEnd
           => Converges
<1> DEFINE Inv == ClientInv /\ PumpInv /\ SettleInv
           Calm == [budget' = budget]_vars
           Pump == pc = "pump"
           House == pc = "housekeeping"
           On == connected
           Clear == Stale = {}
           Lost == ServerLost
           Idle == swept = None
           Tidy == NoLeftovers /\ Room
           Premises == /\ Spec /\ WorkerRuns /\ AttemptsEnd /\ RequestsArrive /\ WatchdogRuns
                       /\ RelaySettles /\ NumbersEnd /\ <>[]Wanted
<1>1. Spec => []Inv
  BY ClientInvariant, PumpBounded, SettleCorrect, PTL
<1>2. Inv /\ Inv' /\ [Next]_vars => (Calm => CalmStep) /\ (Calm \/ <<budget' < budget>>_vars)
                            /\ ~<<budget' > budget>>_vars
  <2>1. (ClientInv => budget \in Nat) /\ (ClientInv' => budget' \in Nat)
    BY TimersAssumption DEF ClientInv, TypeOK
  <2>2. ClientInv /\ [Next]_vars => /\ (budget' = budget => CalmStep)
                                    /\ (budget' # budget => budget' < budget)
                                    /\ (UNCHANGED vars => budget' = budget)
    BY Undisturbed DEF vars
  <2>3. ASSUME ClientInv, ClientInv', [Next]_vars PROVE ~(budget' > budget)
    <3>1. budget \in Nat /\ budget' \in Nat /\ (budget' = budget \/ budget' < budget)
      BY <2>1, <2>2, <2>3
    <3> QED
      BY <3>1
  <2> QED
    BY <2>2, <2>3
<1>3. Inv /\ Inv' /\ CalmStep
        => /\ ~<<StaleCount' > StaleCount>>_vars
           /\ <<\E m \in Stale : Deliver(m)>>_vars => <<StaleCount' < StaleCount>>_vars
           /\ Clear => Clear'
  BY CountsFall
<1>4. Inv /\ Wanted /\ CalmStep
        => /\ Asleep => Asleep' \/ AtTop'
           /\ <<Tick>>_vars /\ Asleep => AtTop'
           /\ AtTop => AtTop' \/ (Matched' /\ (Pump' \/ (First' /\ ~On')))
           /\ AtTop /\ ~Accepted => AtTop' \/ (First' /\ ~On')
           /\ AtTop /\ Accepted => AtTop' \/ Pump'
           /\ <<Worker>>_vars /\ AtTop => ~AtTop'
           /\ First => First' \/ Awaiting'
           /\ Opening /\ ~First => (Opening' /\ ~First') \/ Asleep'
           /\ Awaiting => Awaiting' \/ (Opening' /\ <<AttemptsLeft' < AttemptsLeft>>_vars)
                          \/ Asleep' \/ Pump'
           /\ <<AttemptsLeft' > AttemptsLeft>>_vars => AtTop /\ Opening'
           /\ Pump => Pump' \/ House'
           /\ House => House' \/ (AtTop' /\ <<Worker>>_vars)
           /\ <<Worker>>_vars /\ House => AtTop'
           /\ Matched => Matched'
           /\ ~On /\ On' => Awaiting
           /\ On /\ On' => (Accepted' <=> Accepted)
  <2>1. Opening' /\ Awaiting => <<TRUE>>_vars
    BY DEF Opening, Awaiting, vars
  <2>2. CalmStep => cfg' = cfg
    BY DEF CalmStep
  <2>3. First' => Opening' /\ ~AtTop'
    BY DEF First, Opening, AtTop
  <2>4. ~(AtTop' /\ Pump') /\ ~(AtTop' /\ First')
    BY DEF First, AtTop
  <2>5. House /\ AtTop' => <<TRUE>>_vars
    BY DEF AtTop, vars
  <2> QED
    BY <2>1, <2>2, <2>3, <2>4, <2>5, WorkerMoves DEF Accepted
<1>5. Inv /\ CalmStep /\ Pump
        => /\ ~<<PumpLeft' > PumpLeft>>_vars
           /\ <<Worker>>_vars => House' \/ <<PumpLeft' < PumpLeft>>_vars
  BY PumpMoves
<1>6. Inv => /\ Asleep \/ AtTop \/ Opening \/ Awaiting \/ Pump \/ House
             /\ Asleep => ~AtTop /\ ~Opening /\ ~Awaiting /\ ~Pump /\ ~House
             /\ AtTop => ~Opening /\ ~Awaiting /\ ~Pump /\ ~House
             /\ Opening => ~Awaiting /\ ~Pump /\ ~House /\ ~On
             /\ Awaiting => ~Pump /\ ~House /\ ~On
             /\ Pump => ~House /\ On
             /\ House => On
             /\ First => Opening
             /\ CanWork <=> AtTop \/ Pump \/ House
  BY DEF ClientInv, TypeOK, WorkerInv, Asleep, AtTop, Opening, Awaiting, First, CanWork
<1>7. Inv /\ Inv' /\ Wanted /\ CalmStep
        => /\ Synced => Synced'
           /\ Tidy /\ Tidy' /\ Answering => Answering' \/ Synced'
           /\ Matched /\ Clear /\ Opening /\ Awaiting' => Answering'
  BY SyncedSteps, AnsweringSteps, AttemptBegins DEF SettleInv, Matched, Opening, Awaiting
<1>8. (Answering => Awaiting) /\ (Synced => InSync) /\ (On /\ Accepted /\ KnownToRelay => InSync)
  BY DEF Answering, Awaiting, Synced, Accepted, KnownToRelay, HeldFor, Registered, InSync
<1>9. Inv /\ Inv' /\ Wanted /\ CalmStep /\ Clear /\ On' /\ On /\ Accepted /\ ~KnownToRelay
        => /\ ~KnownToRelay'
           /\ Tidy /\ Idle => Forgotten
           /\ Forgotten => Forgotten' /\ ~<<InboxCount' > InboxCount>>_vars
           /\ <<PumpReads>>_vars /\ Forgotten => <<InboxCount' < InboxCount>>_vars
           /\ <<sinceRecv' < sinceRecv>>_vars => <<PumpReads>>_vars
           /\ Lost => Lost' \/ <<PumpReads>>_vars
           /\ <<Worker>>_vars /\ Pump => House' \/ <<PumpReads>>_vars
           /\ House /\ Lost => ~<<Worker>>_vars
  <2>1. UNCHANGED vars => (Lost => Lost')
    BY DEF vars, ServerLost
  <2> QED
    BY <2>1, SweptIsForgotten, UnknownSteps, CountsFall DEF Accepted, SettleInv
<1>10. (Wanted <=> cfg.server = "good" /\ cfg.uid # NoUid)
       /\ (Clear <=> ~(Stale # {})) /\ (On <=> connected) /\ (Lost <=> ServerLost)
       /\ (Idle <=> swept = None) /\ (Tidy <=> NoLeftovers /\ Room)
  BY DEF Wanted
<1> HIDE DEF Inv, Pump, House, On, Clear, Lost, Idle, Tidy
<1>11. Premises => <>[][budget' = budget]_vars
  BY <1>1, <1>2, PTL DEF Spec, NumbersEnd, NoEndlessFall
<1>12. Premises => <>[]Clear
  BY <1>1, <1>2, <1>3, <1>10, <1>11, PTL DEF Spec, NumbersEnd, NoEndlessFall, RequestsArrive
<1>13. Premises => []<>~Asleep /\ []<>~Opening /\ []<>~Awaiting /\ []<>~House /\ []<>~Pump
  <2>1. Premises => []<>~Opening /\ []<>~Awaiting
    BY PTL DEF AttemptsEnd
  <2>2. Premises => []<>~Asleep
    BY <1>1, <1>2, <1>4, <1>6, <1>11, PTL DEF Spec, WorkerRuns
  <2>3. Premises => []<>~House
    BY <1>1, <1>2, <1>4, <1>6, <1>11, PTL DEF Spec, WorkerRuns
  <2>4. Premises => []<>~Pump
    BY <1>1, <1>2, <1>5, <1>6, <1>11, PTL DEF Spec, WorkerRuns, NumbersEnd, NoEndlessFall
  <2> QED
    BY <2>1, <2>2, <2>3, <2>4
<1>14. Premises => []<>AtTop /\ []<>~AtTop
  <2>1. Premises => []<>AtTop
    BY <1>1, <1>2, <1>4, <1>6, <1>11, <1>13, PTL DEF Spec, NumbersEnd, NoEndlessFall
  <2>2. Premises => []<>~AtTop
    BY <1>1, <1>2, <1>4, <1>6, <1>11, PTL DEF Spec, WorkerRuns
  <2> QED
    BY <2>1, <2>2
<1>15. Premises => <>[](Matched /\ Clear)
  <2>1. Premises => <>[]Matched
    BY <1>1, <1>2, <1>4, <1>11, <1>14, PTL DEF Spec
  <2> QED
    BY <1>12, <2>1, PTL
<1>a. Premises => []<>Idle /\ <>[]Tidy
  BY <1>10, PTL DEF RelaySettles
<1>16. Premises /\ []<>~On => <>[]Synced
  <2>1. Premises => <>[]Synced \/ []<>~Answering
    BY <1>1, <1>2, <1>7, <1>8, <1>11, <1>13, <1>a, PTL DEF Spec
  <2>2. Premises /\ []<>~On => []<>(Opening \/ Awaiting)
    BY <1>1, <1>2, <1>4, <1>6, <1>11, <1>14, PTL DEF Spec
  <2> QED
    BY <1>1, <1>2, <1>4, <1>6, <1>7, <1>8, <1>11, <1>13, <1>14, <1>15, <1>a, <2>1, <2>2, PTL DEF Spec
<1>17. Premises /\ <>[]On => <>[]Accepted
  BY <1>1, <1>2, <1>4, <1>6, <1>11, <1>14, PTL DEF Spec
<1>18. Premises => ~<>[](On /\ Accepted /\ ~KnownToRelay)
  <2>0. Premises /\ <>[](On /\ Accepted /\ ~KnownToRelay) => <>[]Forgotten
    BY <1>1, <1>2, <1>9, <1>11, <1>15, <1>a, PTL DEF Spec
  <2>1. Premises /\ <>[](On /\ Accepted /\ ~KnownToRelay) => <>[][~PumpReads]_vars
    BY <1>1, <1>2, <1>9, <1>11, <1>15, <2>0, PTL DEF Spec, NumbersEnd, NoEndlessFall
  <2>2. Premises /\ <>[](On /\ Accepted /\ ~KnownToRelay) => <>[]Lost
    BY <1>1, <1>2, <1>9, <1>10, <1>11, <1>15, <2>1, PTL DEF Spec, WatchdogRuns
  <2>3. Premises /\ <>[](On /\ Accepted /\ ~KnownToRelay) => []<>House
    BY <1>1, <1>2, <1>4, <1>6, <1>9, <1>11, <1>14, <1>15, <2>1, PTL DEF Spec, WorkerRuns
  <2> QED
    BY <1>1, <1>2, <1>4, <1>9, <1>11, <1>13, <1>15, <2>2, <2>3, PTL DEF Spec
<1>19. Premises /\ <>[]On => <>[]InSync
  BY <1>1, <1>2, <1>8, <1>9, <1>11, <1>15, <1>17, <1>18, PTL DEF Spec
<1>20. Premises => <>[]InSync
  BY <1>8, <1>16, <1>19, PTL
<1> QED
  BY <1>10, <1>20, PTL DEF Converges, CalmInTheEnd

====
