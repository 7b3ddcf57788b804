------------------------- MODULE VoiceNetworkClient -------------------------
(***************************************************************************)
(* The extension's connection to the voice relay: the worker thread of     *)
(* Voice/VoiceNetworkClient.cpp, the threads that hand it settings and     *)
(* frames, the datagrams in flight, and the part of the relay that this    *)
(* one client sees.                                                        *)
(*                                                                         *)
(* Time is counted in ticks.  Datagrams normally arrive within a tick; the *)
(* faults of the environment (a datagram lost or held back, a relay        *)
(* restart, a failed socket) and the changes of the settings are bounded   *)
(* together by MaxDisturbances, so that a behaviour has a quiet suffix.    *)
(***************************************************************************)
EXTENDS Integers, FiniteSets

CONSTANTS
  Sockets,           \* local ports, as the relay sees them (NAT reuses them)
  Uids,              \* identities the game may report
  HandshakeRetries,  \* kHandshakeRetries
  HandshakeTimeout,  \* kHandshakeTimeout, in ticks
  PingInterval,      \* kPingInterval, in ticks
  ServerTimeout,     \* kServerTimeout, in ticks
  RelayTimeout,      \* the relay's TimeoutSeconds, in ticks
  MaxPacketsPerPump, \* kMaxPacketsPerPump
  MaxPlaces,         \* the relay's MaxClients
  Slots,             \* bound: session objects of this player at a time
  Wishes,            \* bound: settings the game may report
  MaxDisturbances    \* bound: faults (network, relay, socket) and changes of settings

ASSUME TimersAssumption ==
  /\ {HandshakeRetries, HandshakeTimeout, PingInterval, ServerTimeout,
      MaxPacketsPerPump} \subseteq Nat \ {0}
  /\ {RelayTimeout, MaxDisturbances, MaxPlaces} \subseteq Nat

None == 0

ASSUME SocketsAssumption == None \notin Sockets
ASSUME SlotsAssumption == Slots \subseteq Nat \ {None} /\ IsFiniteSet(Slots)

(* The server settings (host, port, password): not set, good, refused by    *)
(* the relay, or of a host that runs no relay.                              *)
Servers == {"unset", "good", "bad", "dead"}
NoUid == ""
Settings == [server : Servers, uid : Uids \cup {NoUid}]

ASSUME WishesAssumption == Wishes \subseteq Settings

VARIABLES
  cfg,        \* m_config and m_identity.uid: what the game wants
  active,     \* m_activeConfig and m_activeUid: what was handshaken
  connected,  \* m_connected
  sock,       \* m_socket: the open socket, or None
  pc,         \* where the worker stands in threadMain
  hs,         \* the worker's copy of the settings, taken at the loop's top
  attempt,    \* attempt number of tryHandshake
  waited,     \* ticks since the attempt's ConnectRequest, or asleep
  drained,    \* datagrams read by this pumpReceive
  sincePing,  \* ticks since m_lastPingTime
  sinceRecv,  \* ticks since m_lastRecvTime
  looped,     \* the worker has been through its housekeeping since the tick
  net,        \* datagrams in flight
  sessions,   \* the relay's ClientSession objects: socket, UID and age in ticks
  byId,       \* its _sessionsById: the sessions it holds of this player,
  byUid,      \*   _sessionsByUid and
  registered, \*   _sessionsByEndPoint: per socket
  due,        \* the timed-out sessions its sweep has still to remove, and
  swept,      \*   the one it is removing
  places,     \* MaxClients less the sessions of other players
  budget      \* disturbances left

client == <<active, connected, sock, pc, hs, attempt, waited, drained,
            sincePing, sinceRecv, looped>>
sweep == <<due, swept>>
relay == <<sessions, byId, byUid, registered, due, swept, places>>
vars == <<cfg, active, connected, sock, pc, hs, attempt, waited, drained,
          sincePing, sinceRecv, looped, net, sessions, byId, byUid, registered,
          due, swept, places, budget>>

(* slow: held back by the network, possibly for many ticks.                 *)
Packet(kind, k, uid) == [kind |-> kind, sock |-> k, uid |-> uid, slow |-> FALSE]
ToRelay == {"ConnectGood", "ConnectBad", "Ping", "RosterRequest"}
ToClient == {"Accept", "Reject", "Pong", "Broadcast"}

Registered(k) == k # None /\ registered[k] # None

Capped(n, cap) == IF n < cap THEN n + 1 ELSE cap

----------------------------------------------------------------------------
(* Other threads of the extension.                                          *)

(* setServer and setIdentity: called on every tick of the sender thread;    *)
(* picked up by the worker's next iteration.                                *)
SetSettings(s) ==
  /\ budget > 0
  /\ s # cfg
  /\ cfg' = s
  /\ budget' = budget - 1
  /\ UNCHANGED client /\ UNCHANGED relay /\ UNCHANGED net

----------------------------------------------------------------------------
(* The worker: threadMain.                                                  *)

(* Mutant: a new identity is not a reason to reconnect.                     *)
ServerChanged == cfg.server # active.server

ConfigChanged ==
  \/ cfg.server # active.server
  \/ cfg.uid # NoUid /\ cfg.uid # active.uid

Disconnect == connected' = FALSE /\ sock' = None

(* The loop's top with no server set: sleep, and look again.  Nothing else  *)
(* of the loop runs, connected or not.                                      *)
WaitForSettings ==
  /\ pc = "top"
  /\ cfg.server = "unset"
  /\ pc' = "sleep"
  /\ hs' = cfg
  /\ UNCHANGED <<active, connected, sock, attempt, waited, drained, sincePing,
                 sinceRecv, looped>>
  /\ UNCHANGED relay /\ UNCHANGED <<cfg, net, budget>>

(* Mutant: the old connection is not marked as lost.                        *)
BeginHandshakeConnected ==
  /\ pc = "top"
  /\ cfg.server # "unset"
  /\ ~connected \/ ConfigChanged
  /\ UNCHANGED <<connected, sock>>
  /\ hs' = cfg
  /\ attempt' = 0
  /\ pc' = "open"
  /\ UNCHANGED <<active, waited, drained, sincePing, sinceRecv, looped>>
  /\ UNCHANGED relay /\ UNCHANGED <<cfg, net, budget>>

(* The settings changed while connected, or there is no connection.         *)
BeginHandshake ==
  /\ pc = "top"
  /\ cfg.server # "unset"
  /\ ~connected \/ ConfigChanged
  /\ IF connected THEN Disconnect ELSE UNCHANGED <<connected, sock>>
  /\ hs' = cfg
  /\ attempt' = 0
  /\ pc' = "open"
  /\ UNCHANGED <<active, waited, drained, sincePing, sinceRecv, looped>>
  /\ UNCHANGED relay /\ UNCHANGED <<cfg, net, budget>>

BeginPump ==
  /\ pc = "top"
  /\ cfg.server # "unset"
  /\ connected
  /\ ~ConfigChanged
  /\ hs' = cfg
  /\ drained' = 0
  /\ pc' = "pump"
  /\ UNCHANGED <<active, connected, sock, attempt, waited, sincePing, sinceRecv, looped>>
  /\ UNCHANGED relay /\ UNCHANGED <<cfg, net, budget>>

(* tryHandshake: every attempt opens a fresh socket.  A port is used again  *)
(* only when no handshake of its earlier use is under way: nothing in the   *)
(* protocol tells the replies to two attempts from one port apart.          *)
Fresh(k) ==
  /\ k # sock
  /\ \A m \in net :
       m.sock = k => m.kind \notin {"ConnectGood", "ConnectBad", "Accept", "Reject"}

ConnectRequest(k) ==
  CASE hs.server = "good" -> {Packet("ConnectGood", k, hs.uid)}
    [] hs.server = "bad"  -> {Packet("ConnectBad", k, hs.uid)}
    [] OTHER              -> {}

(* Mutant: an attempt too many.                                             *)
OpenSocketUnbounded(k) ==
  /\ pc = "open"
  /\ Fresh(k)
  /\ sock' = k
  /\ net' = net \cup ConnectRequest(k)
  /\ waited' = 0
  /\ pc' = "await"
  /\ UNCHANGED <<active, connected, hs, attempt, drained, sincePing, sinceRecv, looped>>
  /\ UNCHANGED relay /\ UNCHANGED <<cfg, budget>>

OpenSocket(k) ==
  /\ pc = "open"
  /\ attempt < HandshakeRetries
  /\ Fresh(k)
  /\ sock' = k
  /\ net' = net \cup ConnectRequest(k)
  /\ waited' = 0
  /\ pc' = "await"
  /\ UNCHANGED <<active, connected, hs, attempt, drained, sincePing, sinceRecv, looped>>
  /\ UNCHANGED relay /\ UNCHANGED <<cfg, budget>>

(* The name does not resolve, or the socket cannot be opened or written.    *)
OpenFails ==
  /\ pc = "open"
  /\ attempt < HandshakeRetries
  /\ budget > 0
  /\ budget' = budget - 1
  /\ sock' = None
  /\ attempt' = attempt + 1
  /\ UNCHANGED <<active, connected, pc, hs, waited, drained, sincePing, sinceRecv, looped>>
  /\ UNCHANGED relay /\ UNCHANGED <<cfg, net>>

GiveUp ==
  /\ pc = "open"
  /\ attempt = HandshakeRetries
  /\ sock' = None
  /\ pc' = "sleep"
  /\ UNCHANGED <<active, connected, hs, attempt, waited, drained, sincePing,
                 sinceRecv, looped>>
  /\ UNCHANGED relay /\ UNCHANGED <<cfg, net, budget>>

AttemptTimesOut ==
  /\ pc = "await"
  /\ waited >= HandshakeTimeout
  /\ attempt' = attempt + 1
  /\ pc' = "open"
  /\ UNCHANGED <<active, connected, sock, hs, waited, drained, sincePing, sinceRecv, looped>>
  /\ UNCHANGED relay /\ UNCHANGED <<cfg, net, budget>>

Inbox == {m \in net : m.sock = sock /\ m.kind \in ToClient}

(* A reply within the attempt: Accept connects, Reject ends the handshake,  *)
(* anything else is ignored.  The deadline is tested before each recv, so a *)
(* reply can still be read by the recv that the deadline overtakes.         *)
ReadAccept(m) ==
  /\ pc = "await"
  /\ m.kind = "Accept"
  /\ net' = net \ {m}
  /\ active' = hs
  /\ sincePing' = 0 /\ sinceRecv' = 0 /\ looped' = TRUE
  /\ connected' = TRUE
  /\ drained' = 0
  /\ pc' = "pump"
  /\ UNCHANGED <<sock, hs, attempt, waited>>
  /\ UNCHANGED relay /\ UNCHANGED <<cfg, budget>>

ReadReject(m) ==
  /\ pc = "await"
  /\ m.kind = "Reject"
  /\ net' = net \ {m}
  /\ sock' = None
  /\ pc' = "sleep"
  /\ UNCHANGED <<active, connected, hs, attempt, waited, drained, sincePing,
                 sinceRecv, looped>>
  /\ UNCHANGED relay /\ UNCHANGED <<cfg, budget>>

ReadStray(m) ==
  /\ pc = "await"
  /\ waited < HandshakeTimeout
  /\ m.kind \notin {"Accept", "Reject"}
  /\ net' = net \ {m}
  /\ UNCHANGED client /\ UNCHANGED relay /\ UNCHANGED <<cfg, budget>>

(* pumpReceive: at most MaxPacketsPerPump datagrams, whatever they are;     *)
(* each of them feeds the watchdog.  An empty socket ends the pump after    *)
(* the receive timeout.                                                     *)
(* Mutant: the pump goes on until the socket is empty.                      *)
PumpUntilEmpty(n) == FALSE

PumpDone(n) == n = MaxPacketsPerPump

PumpRead(m) ==
  /\ pc = "pump"
  /\ net' = net \ {m}
  /\ drained' = Capped(drained, MaxPacketsPerPump)
  /\ sinceRecv' = 0
  /\ pc' = IF PumpDone(drained + 1) THEN "housekeeping" ELSE "pump"
  /\ UNCHANGED <<active, connected, sock, hs, attempt, waited, sincePing, looped>>
  /\ UNCHANGED relay /\ UNCHANGED <<cfg, budget>>

PumpEmpty ==
  /\ pc = "pump"
  /\ Inbox = {}
  /\ pc' = "housekeeping"
  /\ UNCHANGED <<active, connected, sock, hs, attempt, waited, drained, sincePing,
                 sinceRecv, looped>>
  /\ UNCHANGED relay /\ UNCHANGED <<cfg, net, budget>>

PingDue == sincePing >= PingInterval

(* Mutant: the watchdog never gives the connection up.                      *)
NeverLost == FALSE

(* The watchdog: no datagram of any kind for longer than ServerTimeout.     *)
ServerLost == sinceRecv > ServerTimeout

Housekeeping ==
  /\ pc = "housekeeping"
  /\ IF PingDue
       THEN /\ net' = net \cup {Packet("Ping", sock, NoUid),
                                Packet("RosterRequest", sock, NoUid)}
            /\ sincePing' = 0
       ELSE UNCHANGED <<net, sincePing>>
  /\ IF ServerLost THEN Disconnect ELSE UNCHANGED <<connected, sock>>
  /\ looped' = TRUE
  /\ pc' = "top"
  /\ UNCHANGED <<active, hs, attempt, waited, drained, sinceRecv>>
  /\ UNCHANGED relay /\ UNCHANGED <<cfg, budget>>

----------------------------------------------------------------------------
(* The relay, as far as this client is concerned.  A handler is one step.   *)

NoSession == [sock |-> None, uid |-> NoUid, age |-> 0]

(* The sessions that a dictionary or the sweep still has hold of.           *)
InUse == byId \cup due \cup ({swept} \ {None})

TimedOut(s) == sessions[s].age > RelayTimeout

Without(index, key) == [index EXCEPT ![key] = None]
Touch(k) == sessions' = [sessions EXCEPT ![registered[k]].age = 0]

(* Reconnecting drops the session that _sessionsByUid has for the UID,      *)
(* endpoint entry and all.  Then the relay may be full.  A new session      *)
(* overwrites the endpoint's entry, but one that was there stays in the     *)
(* other two dictionaries.  Wrong settings and an empty UID are refused.    *)
RelayRefuses(m) ==
  /\ m.kind \in {"ConnectGood", "ConnectBad"}
  /\ m.kind = "ConnectBad" \/ m.uid = NoUid
  /\ net' = (net \ {m}) \cup {Packet("Reject", m.sock, NoUid)}
  /\ UNCHANGED client /\ UNCHANGED relay /\ UNCHANGED <<cfg, budget>>

Evicted(u) == IF byUid[u] = None THEN byId ELSE byId \ {byUid[u]}

AfterEviction(u) ==
  IF byUid[u] = None THEN registered ELSE Without(registered, sessions[byUid[u]].sock)

RelayFull(m) ==
  /\ m.kind = "ConnectGood" /\ m.uid # NoUid
  /\ Cardinality(Evicted(m.uid)) >= places
  /\ byId' = Evicted(m.uid)
  /\ registered' = AfterEviction(m.uid)
  /\ byUid' = Without(byUid, m.uid)
  /\ net' = (net \ {m}) \cup {Packet("Reject", m.sock, NoUid)}
  /\ UNCHANGED client /\ UNCHANGED sweep /\ UNCHANGED <<sessions, places, cfg, budget>>

RelayAdmits(m) ==
  /\ m.kind = "ConnectGood" /\ m.uid # NoUid
  /\ Cardinality(Evicted(m.uid)) < places
  /\ \E s \in Slots \ InUse :
       /\ \A t \in Slots \ InUse : s <= t
       /\ sessions' = [sessions EXCEPT ![s] = [sock |-> m.sock, uid |-> m.uid, age |-> 0]]
       /\ byId' = Evicted(m.uid) \cup {s}
       /\ registered' = [AfterEviction(m.uid) EXCEPT ![m.sock] = s]
       /\ byUid' = [byUid EXCEPT ![m.uid] = s]
  /\ net' = (net \ {m}) \cup {Packet("Accept", m.sock, NoUid)}
  /\ UNCHANGED client /\ UNCHANGED sweep /\ UNCHANGED <<places, cfg, budget>>

RelayConnect(m) == RelayRefuses(m) \/ RelayFull(m) \/ RelayAdmits(m)

(* Mutant: a Ping is answered whether or not the sender is registered.      *)
RelayPingAlways(m) ==
  /\ m.kind = "Ping"
  /\ net' = (net \ {m}) \cup {Packet("Pong", m.sock, NoUid)}
  /\ IF Registered(m.sock) THEN Touch(m.sock) ELSE UNCHANGED sessions
  /\ UNCHANGED client /\ UNCHANGED sweep
  /\ UNCHANGED <<byId, byUid, registered, places, cfg, budget>>

(* Ping: silence for a socket without a session.                            *)
RelayPing(m) ==
  /\ m.kind = "Ping"
  /\ IF Registered(m.sock)
       THEN /\ Touch(m.sock)
            /\ net' = (net \ {m}) \cup {Packet("Pong", m.sock, NoUid)}
       ELSE /\ net' = net \ {m}
            /\ UNCHANGED sessions
  /\ UNCHANGED client /\ UNCHANGED sweep
  /\ UNCHANGED <<byId, byUid, registered, places, cfg, budget>>

(* RosterRequest is answered with ClientJoined datagrams and does not       *)
(* refresh the session.                                                     *)
RelayRoster(m) ==
  /\ m.kind = "RosterRequest"
  /\ net' = (net \ {m}) \cup
       (IF Registered(m.sock) THEN {Packet("Broadcast", m.sock, NoUid)} ELSE {})
  /\ UNCHANGED client /\ UNCHANGED relay /\ UNCHANGED <<cfg, budget>>

(* Another client joins, leaves, speaks or transmits: every session in      *)
(* _sessionsById hears of it, whatever its endpoint's entry says.           *)
RelayBroadcast(s) ==
  /\ s \in byId
  /\ net' = net \cup {Packet("Broadcast", sessions[s].sock, NoUid)}
  /\ UNCHANGED client /\ UNCHANGED relay /\ UNCHANGED <<cfg, budget>>

(* TimeoutSweepLoopAsync: a copy of the sessions, then each one that is     *)
(* timed out is removed by its keys, in steps between which the receive     *)
(* loop works.  So the entries of its endpoint and its UID go even if they  *)
(* are another session's by now.                                            *)
RelaySweeps ==
  /\ due = {} /\ swept = None
  /\ \E s \in byId : TimedOut(s)
  /\ due' = {s \in byId : TimedOut(s)}
  /\ UNCHANGED client /\ UNCHANGED <<sessions, byId, byUid, registered, swept, places>>
  /\ UNCHANGED <<cfg, net, budget>>

RelayExpires(s) ==
  /\ s \in due /\ swept = None
  /\ due' = due \ {s}
  /\ IF TimedOut(s)
       THEN registered' = Without(registered, sessions[s].sock) /\ swept' = s
       ELSE UNCHANGED <<registered, swept>>
  /\ UNCHANGED client /\ UNCHANGED <<sessions, byId, byUid, places, cfg, net, budget>>

(* Mutant: the session stays among those that the capacity counts.          *)
RelayForgetsUid ==
  /\ swept # None
  /\ byUid' = Without(byUid, sessions[swept].uid)
  /\ swept' = None
  /\ UNCHANGED client
  /\ UNCHANGED <<sessions, byId, registered, due, places, cfg, net, budget>>

RelayForgets ==
  /\ swept # None
  /\ byId' = byId \ {swept}
  /\ byUid' = Without(byUid, sessions[swept].uid)
  /\ swept' = None
  /\ UNCHANGED client /\ UNCHANGED <<sessions, registered, due, places, cfg, net, budget>>

(* All that a frame does to the sender's own session is to refresh it.      *)
RelayFrame(k) == IF Registered(k) THEN Touch(k) ELSE UNCHANGED sessions

(* sendVoiceFrame and sendRadioTx, from the capture and sender threads: a   *)
(* frame that arrives is taken as heard at once.                            *)
SendFrame ==
  /\ connected /\ sock # None
  /\ RelayFrame(sock)
  /\ UNCHANGED client /\ UNCHANGED sweep
  /\ UNCHANGED <<byId, byUid, registered, places, cfg, net, budget>>

----------------------------------------------------------------------------
(* Faults and time.                                                         *)

RelayRestarts ==
  /\ budget > 0
  /\ budget' = budget - 1
  /\ byId' = {} /\ due' = {} /\ swept' = None
  /\ registered' = [k \in Sockets |-> None]
  /\ byUid' = [u \in Uids |-> None]
  /\ UNCHANGED client /\ UNCHANGED <<sessions, places, cfg, net>>

(* Another player takes a place at the relay, if there is one, or leaves.   *)
OthersChange(n) ==
  /\ budget > 0
  /\ n # places /\ n >= Cardinality(byId)
  /\ budget' = budget - 1
  /\ places' = n
  /\ UNCHANGED client /\ UNCHANGED sweep
  /\ UNCHANGED <<sessions, byId, byUid, registered, cfg, net>>

Lose(m) ==
  /\ budget > 0
  /\ budget' = budget - 1
  /\ net' = net \ {m}
  /\ UNCHANGED client /\ UNCHANGED relay /\ UNCHANGED cfg

HoldBack(m) ==
  /\ budget > 0
  /\ ~m.slow
  /\ budget' = budget - 1
  /\ net' = (net \ {m}) \cup {[m EXCEPT !.slow = TRUE]}
  /\ UNCHANGED client /\ UNCHANGED relay /\ UNCHANGED cfg

(* What reaches a port nobody has open is gone.                             *)
Undeliverable(m) ==
  /\ m.kind \in ToClient
  /\ m.sock # sock
  /\ net' = net \ {m}
  /\ UNCHANGED client /\ UNCHANGED relay /\ UNCHANGED <<cfg, budget>>

(* A tick finds the worker waiting (asleep, or in recv with its             *)
(* housekeeping of the last tick done), nothing due at the relay, and no    *)
(* datagram under way but broadcasts, those held back, and those in the     *)
(* socket that a sleeping worker does not read.                             *)
Quiet ==
  /\ \/ pc = "sleep"
     \/ pc = "await" /\ waited < HandshakeTimeout
     \/ pc = "pump" /\ looped
  /\ \A m \in net : \/ m.slow \/ m.kind = "Broadcast"
                    \/ pc = "sleep" /\ m \in Inbox
  /\ due = {} /\ swept = None
  /\ \A s \in byId : ~TimedOut(s)

Tick ==
  /\ Quiet
  /\ pc' = IF pc = "sleep" THEN "top" ELSE pc
  /\ waited' = IF pc = "await" THEN waited + 1 ELSE 0
  /\ sincePing' = IF connected THEN Capped(sincePing, PingInterval) ELSE 0
  /\ sinceRecv' = IF connected THEN Capped(sinceRecv, ServerTimeout + 1) ELSE 0
  /\ looped' = FALSE
  /\ sessions' = [s \in Slots |->
       IF s \in byId THEN [sessions[s] EXCEPT !.age = Capped(@, RelayTimeout + 1)]
       ELSE NoSession]
  /\ UNCHANGED <<active, connected, sock, hs, attempt, drained>>
  /\ UNCHANGED <<byId, byUid, registered, due, swept, places, cfg, net, budget>>

----------------------------------------------------------------------------
Unset == [server |-> "unset", uid |-> NoUid]

Init ==
  /\ cfg = Unset /\ active = Unset /\ hs = Unset
  /\ connected = FALSE /\ sock = None
  /\ pc = "top"
  /\ attempt = 0 /\ waited = 0 /\ drained = 0
  /\ sincePing = 0 /\ sinceRecv = 0 /\ looped = FALSE
  /\ net = {}
  /\ sessions = [s \in Slots |-> NoSession]
  /\ byId = {} /\ due = {} /\ swept = None
  /\ byUid = [u \in Uids |-> None]
  /\ registered = [k \in Sockets |-> None]
  /\ places = MaxPlaces
  /\ budget = MaxDisturbances

Read(m) == ReadAccept(m) \/ ReadReject(m) \/ ReadStray(m) \/ PumpRead(m)

Worker ==
  \/ WaitForSettings \/ BeginHandshake \/ BeginPump
  \/ \E k \in Sockets : OpenSocket(k)
  \/ GiveUp \/ AttemptTimesOut
  \/ \E m \in Inbox : Read(m)
  \/ PumpEmpty \/ Housekeeping

Deliver(m) ==
  RelayConnect(m) \/ RelayPing(m) \/ RelayRoster(m) \/ Undeliverable(m)

Relay == RelaySweeps \/ (\E s \in due : RelayExpires(s)) \/ RelayForgets

Environment ==
  \/ \E s \in Wishes : SetSettings(s)
  \/ SendFrame
  \/ \E s \in byId : RelayBroadcast(s)
  \/ OpenFails \/ RelayRestarts
  \/ \E n \in 0..MaxPlaces : OthersChange(n)
  \/ \E m \in net : Lose(m) \/ HoldBack(m)

Next == Worker \/ (\E m \in net : Deliver(m)) \/ Relay \/ Environment \/ Tick

Spec == Init /\ [][Next]_vars

(* The worker and the relay run, and datagrams that are neither lost nor    *)
(* held back arrive.  A socket is a queue, so a datagram that has arrived   *)
(* is read although others keep arriving behind it, and time passes         *)
(* although a stream of broadcasts keeps interrupting the moments at which  *)
(* a tick is possible: both need strong fairness.                           *)
FairSpec ==
  /\ Spec
  /\ WF_vars(Worker)
  /\ WF_vars(Relay)
  /\ \A k \in Sockets, kind \in ToRelay \cup ToClient :
       WF_vars(\E m \in net : m.kind = kind /\ m.sock = k /\ Deliver(m))
  /\ \A kind \in ToClient : SF_vars(\E m \in Inbox : m.kind = kind /\ Read(m))
  /\ SF_vars(Tick)

----------------------------------------------------------------------------
(* Properties.                                                              *)

(* Type invariant of the worker, the relay and the network.                 *)
RelayTypeOK ==
  /\ sessions \in [Slots -> [sock : Sockets \cup {None}, uid : Uids \cup {NoUid},
                            age : 0..(RelayTimeout + 1)]]
  /\ byId \subseteq Slots /\ due \subseteq Slots
  /\ swept \in Slots \cup {None}
  /\ byUid \in [Uids -> Slots \cup {None}]
  /\ registered \in [Sockets -> Slots \cup {None}]
  /\ places \in 0..MaxPlaces

TypeOK ==
  /\ cfg \in Settings /\ active \in Settings /\ hs \in Settings
  /\ connected \in BOOLEAN
  /\ sock \in Sockets \cup {None}
  /\ pc \in {"top", "sleep", "open", "await", "pump", "housekeeping"}
  /\ attempt \in 0..HandshakeRetries
  /\ waited \in 0..HandshakeTimeout
  /\ drained \in 0..MaxPacketsPerPump
  /\ sincePing \in 0..PingInterval
  /\ sinceRecv \in 0..(ServerTimeout + 1)
  /\ looped \in BOOLEAN
  /\ net \subseteq [kind : ToRelay \cup ToClient, sock : Sockets,
                    uid : Uids \cup {NoUid}, slow : BOOLEAN]
  /\ RelayTypeOK
  /\ budget \in 0..MaxDisturbances

(* Being connected and waiting for the relay's reply exclude each other,    *)
(* and both need an open socket: no frame is ever sent to a relay that has  *)
(* not accepted the settings the worker connected with.                     *)
ConnectedMeansAccepted ==
  /\ connected => sock # None /\ active.server = "good" /\ active.uid # NoUid
  /\ connected => pc \notin {"open", "await"}

(* While connected the worker keeps pinging, however many datagrams the     *)
(* relay sends: a silent listener on a busy relay is not timed out.         *)
KeepsPinging ==
  [](connected /\ PingDue /\ cfg.server # "unset" =>
       <>(~PingDue \/ ~connected \/ cfg.server = "unset"))

(* What the worker works towards: connected with the settings the game      *)
(* wants, to a relay that has exactly this identity on this socket.         *)
InSync ==
  /\ connected /\ active = cfg
  /\ Registered(sock) /\ sessions[registered[sock]].uid = cfg.uid

(* A socket gets a port (of the NAT) that the relay still has a session of. *)
ReusesPort(k) == OpenSocket(k) /\ \E s \in InUse : sessions[s].sock = k

(* The settings stay good, the relay has room, and ports are no longer      *)
(* reused before the relay has done with their sessions.                    *)
CalmInTheEnd ==
  /\ <>[](cfg.server = "good" /\ cfg.uid # NoUid /\ places > 0)
  /\ <>[][~ \E k \in Sockets : ReusesPort(k)]_vars

(* Of the sessions at the open socket the relay holds the registered one    *)
(* only, but for one that its sweep is done with already: nothing that an   *)
(* earlier handshake from this port has left behind.                        *)
NoLeftovers ==
  \A s \in InUse : sessions[s].sock = sock => s \in {registered[sock], swept}

(* The relay would have a place for this client.                            *)
Room == Cardinality(Evicted(cfg.uid)) < places

(* In the end the relay holds no session that could end this client's       *)
(* registration or keep it out: what timed-out attempts and connections,    *)
(* overwritten endpoints and entries swept away by key leave behind is      *)
(* removed at last, although nothing but a player's UID leads to it.        *)
LeftoversGo == CalmInTheEnd => <>[](cfg.uid # NoUid => NoLeftovers /\ Room)

(* Self-stabilisation: once all is calm, the client gets in sync with the   *)
(* relay and stays so, whatever settings, attempts, overwritten and swept   *)
(* sessions and late datagrams the past has left behind.                    *)
Converges == CalmInTheEnd => <>[]InSync

============================================================================
