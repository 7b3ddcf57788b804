---------------------------- MODULE RelayServer ----------------------------
(***************************************************************************)
(* The voice relay, voice-server/src/Tfrs.VoiceServer/RelayServer.cs.      *)
(*                                                                         *)
(* Two threads share three concurrent dictionaries.  The receive loop      *)
(* handles one datagram at a time (the rx variables are its program        *)
(* counter and locals); the timeout sweep (the sweep variables) runs       *)
(* beside it.  No lock                                                     *)
(* covers a whole handler: every dictionary operation is atomic on its     *)
(* own, so every one of them is a step of this module, and the two threads *)
(* interleave between them.                                                *)
(*                                                                         *)
(* A session is named by its SessionId.  The immutable fields of the       *)
(* ClientSession object are in endPointOf and uidOf, which stay defined    *)
(* after the session left every dictionary, as the object does while a     *)
(* thread still holds it.  0 (None) stands for "no session": ids start at  *)
(* 1.  Datagrams are records; the set "sent" is what the last step handed  *)
(* to the socket.                                                          *)
(***************************************************************************)
EXTENDS Integers, FiniteSets

CONSTANTS
  Uids,          \* player UIDs
  EndPoints,     \* remote IP endpoints, as the server sees them (behind NAT)
  MaxClients,    \* ServerOptions.MaxClients
  Timeout,       \* ServerOptions.TimeoutSeconds, in ticks
  MaxSessionId   \* bound: ids the model issues

ASSUME MaxClientsAssumption == MaxClients \in Nat
ASSUME TimeoutAssumption == Timeout \in Nat
ASSUME MaxSessionIdAssumption == MaxSessionId \in Nat

VARIABLES
  byEndPoint,    \* _sessionsByEndPoint: [EndPoints -> session or None]
  byId,          \* the keys of _sessionsById
  byUid,         \* _sessionsByUid: [Uids -> session or None]
  nextSessionId, \* _nextSessionId
  endPointOf,    \* ClientSession.EndPoint of every session ever created
  uidOf,         \* ClientSession.Uid of every session ever created
  age,           \* ticks since ClientSession.LastSeenUtc
  rxPc,          \* the receive loop: where it stands in a handler,
  rxEp,          \*   the endpoint and
  rxUid,         \*   the UID of the request it handles,
  rxId,          \*   the session it removes or creates,
  rxPeers,       \*   the sessions it will announce to a newcomer
  sweepPc,       \* the timeout sweep: where it stands,
  sweepTodo,     \*   the sessions it has not come to,
  sweepCur,      \*   the session it removes
  sent,          \* datagrams sent by the last step
  told           \* sessions the datagrams sent to an endpoint announced to it

registry == <<byEndPoint, byId, byUid>>
objects == <<nextSessionId, endPointOf, uidOf>>
rx == <<rxPc, rxEp, rxUid, rxId, rxPeers>>
sweep == <<sweepPc, sweepTodo, sweepCur>>
vars == <<byEndPoint, byId, byUid, nextSessionId, endPointOf, uidOf, age,
          rxPc, rxEp, rxUid, rxId, rxPeers, sweepPc, sweepTodo, sweepCur,
          sent, told>>

None == 0
Issued == 1..(nextSessionId - 1)  \* the sessions created so far
OldestAge == Timeout + 1  \* ages saturate: older than the timeout is due

RefuseReasons == {"VersionMismatch", "BadRequest", "BadPassword"}

RxSteps == {"idle", "evictEndPoint", "evictId", "evictLeft", "admit", "putId",
            "putUid", "snapshot", "greet", "dropId", "dropUid", "dropLeft", "answer"}
SweepSteps == {"sleep", "next", "endPoint", "id", "uid", "left"}

Datagram(type, to, id) == [type |-> type, to |-> to, id |-> id]

----------------------------------------------------------------------------
(* Sending.                                                                 *)

Broadcast(type, id, targets) ==
  {Datagram(type, endPointOf[t], id) : t \in targets}

(* What the client behind endpoint e has been told of, in sending order.    *)
Hear(e, ms) ==
  LET joined == {m.id : m \in {n \in ms : n.to = e /\ n.type = "ClientJoined"}}
      left   == {m.id : m \in {n \in ms : n.to = e /\ n.type = "ClientLeft"}}
  IN  (told[e] \cup joined) \ left

Send(ms) ==
  /\ sent' = ms
  /\ told' = [e \in EndPoints |-> Hear(e, ms)]

SendNothing == sent' = {} /\ UNCHANGED told

RemoveId(s) == byId' = byId \ {s}

Touch(s) == age' = [age EXCEPT ![s] = 0]

RxGoto(pc) == rxPc' = pc /\ UNCHANGED <<rxEp, rxUid, rxId, rxPeers>>

RxReturn ==
  /\ rxPc' = "idle"
  /\ rxEp' = None /\ rxUid' = None /\ rxId' = None /\ rxPeers' = {}

SweepGoto(pc) == sweepPc' = pc /\ UNCHANGED <<sweepTodo, sweepCur>>

----------------------------------------------------------------------------
(* The receive loop: ConnectRequest.                                        *)

(* A request refused by its version, its fields or its password.            *)
RefuseConnect(e, reason) ==
  /\ rxPc = "idle"
  /\ Send({Datagram(reason, e, None)})
  /\ UNCHANGED registry /\ UNCHANGED objects /\ UNCHANGED rx /\ UNCHANGED sweep /\ UNCHANGED age

(* A valid request.  The bound on ids is checked here, not at Admit, so     *)
(* that the bound never blocks the receive loop half-way.                   *)
BeginConnect(e, u) ==
  /\ rxPc = "idle"
  /\ nextSessionId <= MaxSessionId
  /\ byUid' = [byUid EXCEPT ![u] = None]
  /\ rxPc' = IF byUid[u] = None THEN "admit" ELSE "evictEndPoint"
  /\ rxEp' = e /\ rxUid' = u /\ rxId' = byUid[u]
  /\ UNCHANGED rxPeers
  /\ SendNothing
  /\ UNCHANGED objects /\ UNCHANGED sweep /\ UNCHANGED <<byEndPoint, byId, age>>

EvictEndPoint ==
  /\ rxPc = "evictEndPoint"
  /\ byEndPoint' = [byEndPoint EXCEPT ![endPointOf[rxId]] = None]
  /\ RxGoto("evictId")
  /\ SendNothing
  /\ UNCHANGED objects /\ UNCHANGED sweep /\ UNCHANGED <<byId, byUid, age>>

EvictId ==
  /\ rxPc = "evictId"
  /\ RemoveId(rxId)
  /\ RxGoto("evictLeft")
  /\ SendNothing
  /\ UNCHANGED objects /\ UNCHANGED sweep /\ UNCHANGED <<byEndPoint, byUid, age>>

EvictLeft ==
  /\ rxPc = "evictLeft"
  /\ Send(Broadcast("ClientLeft", rxId, byId))
  /\ RxGoto("admit")
  /\ UNCHANGED registry /\ UNCHANGED objects /\ UNCHANGED sweep /\ UNCHANGED age

(* Mutant: the capacity check is off by one.                                *)
ServerFullOffByOne == Cardinality(byId) > MaxClients

ServerFull == Cardinality(byId) >= MaxClients

RefuseFull ==
  /\ rxPc = "admit"
  /\ ServerFull
  /\ RxReturn
  /\ Send({Datagram("ServerFull", rxEp, None)})
  /\ UNCHANGED registry /\ UNCHANGED objects /\ UNCHANGED sweep /\ UNCHANGED age

(* A field of the session objects once the next session has value v in it.  *)
With(field, v) ==
  [s \in Issued \cup {nextSessionId} |-> IF s = nextSessionId THEN v ELSE field[s]]

(* Mutant: _nextSessionId is not advanced.                                  *)
AdmitSameId ==
  /\ rxPc = "admit"
  /\ ~ServerFull
  /\ endPointOf' = With(endPointOf, rxEp)
  /\ uidOf' = With(uidOf, rxUid)
  /\ age' = With(age, 0)
  /\ byEndPoint' = [byEndPoint EXCEPT ![rxEp] = nextSessionId]
  /\ rxPc' = "putId" /\ rxId' = nextSessionId
  /\ UNCHANGED <<rxEp, rxUid, rxPeers>>
  /\ sent' = {}
  /\ told' = [told EXCEPT ![rxEp] = {}]
  /\ UNCHANGED sweep /\ UNCHANGED <<nextSessionId, byId, byUid>>

(* The client behind this endpoint starts with an empty roster.             *)
Admit ==
  /\ rxPc = "admit"
  /\ ~ServerFull
  /\ nextSessionId' = nextSessionId + 1
  /\ endPointOf' = With(endPointOf, rxEp)
  /\ uidOf' = With(uidOf, rxUid)
  /\ age' = With(age, 0)
  /\ byEndPoint' = [byEndPoint EXCEPT ![rxEp] = nextSessionId]
  /\ rxPc' = "putId" /\ rxId' = nextSessionId
  /\ UNCHANGED <<rxEp, rxUid, rxPeers>>
  /\ sent' = {}
  /\ told' = [told EXCEPT ![rxEp] = {}]
  /\ UNCHANGED sweep /\ UNCHANGED <<byId, byUid>>

(* Mutant: a reconnecting client is put back under the id it had.           *)
PutOldId ==
  /\ rxPc = "putId"
  /\ byId' = byId \cup {CHOOSE s \in Issued : uidOf[s] = rxUid}
  /\ RxGoto("putUid")
  /\ SendNothing
  /\ UNCHANGED objects /\ UNCHANGED sweep /\ UNCHANGED <<byEndPoint, byUid, age>>

PutId ==
  /\ rxPc = "putId"
  /\ byId' = byId \cup {rxId}
  /\ RxGoto("putUid")
  /\ SendNothing
  /\ UNCHANGED objects /\ UNCHANGED sweep /\ UNCHANGED <<byEndPoint, byUid, age>>

PutUid ==
  /\ rxPc = "putUid"
  /\ byUid' = [byUid EXCEPT ![rxUid] = rxId]
  /\ RxGoto("snapshot")
  /\ SendNothing
  /\ UNCHANGED objects /\ UNCHANGED sweep /\ UNCHANGED <<byEndPoint, byId, age>>

(* SendAccept, then the enumeration of _sessionsById.Values, which is a     *)
(* copy: the sweep may remove one of the peers before Greet sends it.       *)
SnapshotPeers ==
  /\ rxPc = "snapshot"
  /\ Send({Datagram("ConnectAccept", rxEp, rxId)})
  /\ rxPc' = "greet" /\ rxPeers' = byId \ {rxId}
  /\ UNCHANGED <<rxEp, rxUid, rxId>>
  /\ UNCHANGED registry /\ UNCHANGED objects /\ UNCHANGED sweep /\ UNCHANGED age

(* Mutant: only the newcomer is told, nobody is told of the newcomer.       *)
GreetNewcomerOnly ==
  /\ rxPc = "greet"
  /\ Send({Datagram("ClientJoined", rxEp, p) : p \in rxPeers})
  /\ RxReturn
  /\ UNCHANGED registry /\ UNCHANGED objects /\ UNCHANGED sweep /\ UNCHANGED age

Greet ==
  /\ rxPc = "greet"
  /\ Send({Datagram("ClientJoined", rxEp, p) : p \in rxPeers}
            \cup Broadcast("ClientJoined", rxId, byId \ {rxId}))
  /\ RxReturn
  /\ UNCHANGED registry /\ UNCHANGED objects /\ UNCHANGED sweep /\ UNCHANGED age

----------------------------------------------------------------------------
(* The receive loop: the other packets.                                     *)

BeginDisconnect(e) ==
  /\ rxPc = "idle"
  /\ byEndPoint[e] # None
  /\ byEndPoint' = [byEndPoint EXCEPT ![e] = None]
  /\ rxPc' = "dropId" /\ rxId' = byEndPoint[e]
  /\ UNCHANGED <<rxEp, rxUid, rxPeers>>
  /\ SendNothing
  /\ UNCHANGED objects /\ UNCHANGED sweep /\ UNCHANGED <<byId, byUid, age>>

DropId ==
  /\ rxPc = "dropId"
  /\ RemoveId(rxId)
  /\ RxGoto("dropUid")
  /\ SendNothing
  /\ UNCHANGED objects /\ UNCHANGED sweep /\ UNCHANGED <<byEndPoint, byUid, age>>

DropUid ==
  /\ rxPc = "dropUid"
  /\ byUid' = [byUid EXCEPT ![uidOf[rxId]] = None]
  /\ RxGoto("dropLeft")
  /\ SendNothing
  /\ UNCHANGED objects /\ UNCHANGED sweep /\ UNCHANGED <<byEndPoint, byId, age>>

DropLeft ==
  /\ rxPc = "dropLeft"
  /\ Send(Broadcast("ClientLeft", rxId, byId))
  /\ RxReturn
  /\ UNCHANGED registry /\ UNCHANGED objects /\ UNCHANGED sweep /\ UNCHANGED age

(* Ping: silence, and no refresh, for an endpoint without a session.        *)
HandlePing(e) ==
  /\ rxPc = "idle"
  /\ byEndPoint[e] # None
  /\ Touch(byEndPoint[e])
  /\ Send({Datagram("Pong", e, None)})
  /\ UNCHANGED registry /\ UNCHANGED objects /\ UNCHANGED rx /\ UNCHANGED sweep

(* As in the greeting, the list is a copy by the time it is sent.           *)
HandleRosterRequest(e) ==
  /\ rxPc = "idle"
  /\ byEndPoint[e] # None
  /\ rxPc' = "answer" /\ rxEp' = e /\ rxPeers' = byId \ {byEndPoint[e]}
  /\ UNCHANGED <<rxUid, rxId>>
  /\ SendNothing
  /\ UNCHANGED registry /\ UNCHANGED objects /\ UNCHANGED sweep /\ UNCHANGED age

AnswerRoster ==
  /\ rxPc = "answer"
  /\ Send({Datagram("ClientJoined", rxEp, p) : p \in rxPeers})
  /\ RxReturn
  /\ UNCHANGED registry /\ UNCHANGED objects /\ UNCHANGED sweep /\ UNCHANGED age

(* VoiceUp and RadioTxUpdate: the session is refreshed even when the        *)
(* payload is then found malformed or too long.                             *)
HandleRelay(e, type, wellFormed) ==
  /\ rxPc = "idle"
  /\ byEndPoint[e] # None
  /\ Touch(byEndPoint[e])
  /\ Send(IF wellFormed
            THEN Broadcast(type, byEndPoint[e], byId \ {byEndPoint[e]})
            ELSE {})
  /\ UNCHANGED registry /\ UNCHANGED objects /\ UNCHANGED rx /\ UNCHANGED sweep

(* Every handler but ConnectRequest returns at once for an endpoint that    *)
(* _sessionsByEndPoint does not know.                                       *)
IgnoreStranger(e) ==
  /\ rxPc = "idle"
  /\ byEndPoint[e] = None
  /\ SendNothing
  /\ UNCHANGED registry /\ UNCHANGED objects /\ UNCHANGED rx /\ UNCHANGED sweep /\ UNCHANGED age

----------------------------------------------------------------------------
(* TimeoutSweepLoopAsync.                                                   *)

(* The sweep walks a copy of _sessionsById.Values, and of a session it      *)
(* reads LastSeenUtc only: one that a handler has evicted or disconnected   *)
(* meanwhile is removed once more, by its keys, and announced once more as  *)
(* left.                                                                    *)
Due(s) == age[s] > Timeout

(* Mutant: the sweep walks _sessionsByEndPoint.                             *)
BeginSweepByEndPoint ==
  /\ sweepPc = "sleep"
  /\ sweepPc' = "next" /\ UNCHANGED sweepCur
  /\ sweepTodo' = {byEndPoint[e] : e \in EndPoints} \ {None}
  /\ SendNothing
  /\ UNCHANGED registry /\ UNCHANGED objects /\ UNCHANGED rx /\ UNCHANGED age

BeginSweep ==
  /\ sweepPc = "sleep"
  /\ sweepPc' = "next" /\ sweepTodo' = byId /\ UNCHANGED sweepCur
  /\ SendNothing
  /\ UNCHANGED registry /\ UNCHANGED objects /\ UNCHANGED rx /\ UNCHANGED age

SweepSkip(s) ==
  /\ sweepPc = "next"
  /\ ~Due(s)
  /\ sweepTodo' = sweepTodo \ {s} /\ UNCHANGED <<sweepPc, sweepCur>>
  /\ SendNothing
  /\ UNCHANGED registry /\ UNCHANGED objects /\ UNCHANGED rx /\ UNCHANGED age

SweepTake(s) ==
  /\ sweepPc = "next"
  /\ Due(s)
  /\ sweepPc' = "endPoint" /\ sweepTodo' = sweepTodo \ {s} /\ sweepCur' = s
  /\ SendNothing
  /\ UNCHANGED registry /\ UNCHANGED objects /\ UNCHANGED rx /\ UNCHANGED age

SweepEndPoint ==
  /\ sweepPc = "endPoint"
  /\ byEndPoint' = [byEndPoint EXCEPT ![endPointOf[sweepCur]] = None]
  /\ SweepGoto("id")
  /\ SendNothing
  /\ UNCHANGED objects /\ UNCHANGED rx /\ UNCHANGED <<byId, byUid, age>>

SweepId ==
  /\ sweepPc = "id"
  /\ RemoveId(sweepCur)
  /\ SweepGoto("uid")
  /\ SendNothing
  /\ UNCHANGED objects /\ UNCHANGED rx /\ UNCHANGED <<byEndPoint, byUid, age>>

(* Mutant: the sweep forgets _sessionsByUid.                                *)
SweepUidForgotten ==
  /\ sweepPc = "uid"
  /\ SweepGoto("left")
  /\ SendNothing
  /\ UNCHANGED registry /\ UNCHANGED objects /\ UNCHANGED rx /\ UNCHANGED age

SweepUid ==
  /\ sweepPc = "uid"
  /\ byUid' = [byUid EXCEPT ![uidOf[sweepCur]] = None]
  /\ SweepGoto("left")
  /\ SendNothing
  /\ UNCHANGED objects /\ UNCHANGED rx /\ UNCHANGED <<byEndPoint, byId, age>>

SweepLeft ==
  /\ sweepPc = "left"
  /\ Send(Broadcast("ClientLeft", sweepCur, byId))
  /\ sweepPc' = "next" /\ sweepCur' = None /\ UNCHANGED sweepTodo
  /\ UNCHANGED registry /\ UNCHANGED objects /\ UNCHANGED rx /\ UNCHANGED age

EndSweep ==
  /\ sweepPc = "next"
  /\ sweepTodo = {}
  /\ sweepPc' = "sleep" /\ UNCHANGED <<sweepTodo, sweepCur>>
  /\ SendNothing
  /\ UNCHANGED registry /\ UNCHANGED objects /\ UNCHANGED rx /\ UNCHANGED age

(* Time.  A tick is of the order of a second, a handler or a sweep takes    *)
(* well under a millisecond: neither straddles a tick.                      *)
Tick ==
  /\ rxPc = "idle"
  /\ sweepPc = "sleep"
  /\ age' = [s \in Issued |-> IF age[s] < OldestAge THEN age[s] + 1 ELSE OldestAge]
  /\ SendNothing
  /\ UNCHANGED registry /\ UNCHANGED objects /\ UNCHANGED rx /\ UNCHANGED sweep

----------------------------------------------------------------------------
Init ==
  /\ byEndPoint = [e \in EndPoints |-> None]
  /\ byId = {}
  /\ byUid = [u \in Uids |-> None]
  /\ nextSessionId = 1
  /\ endPointOf = <<>>
  /\ uidOf = <<>>
  /\ age = <<>>
  /\ rxPc = "idle"
  /\ rxEp = None /\ rxUid = None /\ rxId = None /\ rxPeers = {}
  /\ sweepPc = "sleep" /\ sweepTodo = {} /\ sweepCur = None
  /\ sent = {}
  /\ told = [e \in EndPoints |-> {}]

Datagrams ==
  \E e \in EndPoints :
    \/ \E reason \in RefuseReasons : RefuseConnect(e, reason)
    \/ \E u \in Uids : BeginConnect(e, u)
    \/ BeginDisconnect(e)
    \/ HandlePing(e)
    \/ HandleRosterRequest(e)
    \/ \E type \in {"VoiceDown", "RadioTxBroadcast"}, ok \in BOOLEAN :
         HandleRelay(e, type, ok)
    \/ IgnoreStranger(e)

HandlerStep ==
  \/ EvictEndPoint \/ EvictId \/ EvictLeft
  \/ RefuseFull \/ Admit \/ PutId \/ PutUid \/ SnapshotPeers \/ Greet
  \/ DropId \/ DropUid \/ DropLeft
  \/ AnswerRoster

SweepStep ==
  \/ BeginSweep
  \/ \E s \in sweepTodo : SweepSkip(s) \/ SweepTake(s)
  \/ SweepEndPoint \/ SweepId \/ SweepUid \/ SweepLeft
  \/ EndSweep

Next == Datagrams \/ HandlerStep \/ SweepStep \/ Tick

Spec == Init /\ [][Next]_vars

----------------------------------------------------------------------------
(* Properties.                                                              *)

(* Type invariant of the dictionaries, the session objects and the threads. *)
TypeOK ==
  /\ nextSessionId \in Nat \ {0}
  /\ endPointOf \in [Issued -> EndPoints]
  /\ uidOf \in [Issued -> Uids]
  /\ age \in [Issued -> 0..OldestAge]
  /\ byEndPoint \in [EndPoints -> Issued \cup {None}]
  /\ byId \subseteq Issued
  /\ byUid \in [Uids -> Issued \cup {None}]
  /\ rxPc \in RxSteps
  /\ rxEp \in EndPoints \cup {None}
  /\ rxUid \in Uids \cup {None}
  /\ rxId \in Issued \cup {None}
  /\ rxPeers \subseteq Issued
  /\ sweepPc \in SweepSteps
  /\ sweepTodo \subseteq Issued
  /\ sweepCur \in Issued \cup {None}
  /\ told \in [EndPoints -> SUBSET Issued]

(* The server never holds more sessions than MaxClients, although the       *)
(* capacity check and the insertion into _sessionsById are separate steps   *)
(* and the sweep works in between.                                          *)
CapacityBound == Cardinality(byId) <= MaxClients

(* Between handlers and sweeps, an entry of _sessionsByEndPoint or          *)
(* _sessionsByUid leads to a session that is still in _sessionsById and     *)
(* that has that endpoint or that UID: no packet is ever credited to, and   *)
(* no reconnect ever evicts, a session that already left.                   *)
IndexesSound ==
  (rxPc = "idle" /\ sweepPc \in {"sleep", "next"}) =>
    /\ \A e \in EndPoints : byEndPoint[e] # None =>
         byEndPoint[e] \in byId /\ endPointOf[byEndPoint[e]] = e
    /\ \A u \in Uids : byUid[u] # None =>
         byUid[u] \in byId /\ uidOf[byUid[u]] = u

(* Every registered session has been announced, and not retracted, to       *)
(* every other registered session's endpoint whenever the receive loop is   *)
(* between datagrams: nobody joins deaf to somebody, whatever the sweep     *)
(* removes while the newcomer is being greeted.                             *)
PeersAnnounced ==
  rxPc = "idle" =>
    \A s, t \in byId : s # t => s \in told[endPointOf[t]]

Registry == INSTANCE SessionRegistry
  WITH live <- byId, issued <- nextSessionId - 1,
       pending <- IF rxPc = "putId" THEN rxId ELSE None

(* The dictionaries and threads implement SessionRegistry: a session enters *)
(* _sessionsById once and is gone for good when it has left it, however the *)
(* sweep and a reconnect race for it, and ids are never reused.  (Both may  *)
(* broadcast its ClientLeft.)                                               *)
RegistryContract == Registry!Spec

(* When a sweep ends nobody is left who is timed out, although handlers ran *)
(* in between: neither a session that its own endpoint no longer leads to   *)
(* (its entry was overwritten by a session of another UID behind the same   *)
(* endpoint, or removed with somebody else's) and that nothing can refresh  *)
(* any more, nor one the sweep missed because the dictionary changed under  *)
(* it.  An orphan holds a place for the timeout and one sweep at most.      *)
SweepLeavesNoStale == [][EndSweep => \A s \in byId : ~Due(s)]_vars

(* RelayServer.cs:145 "Reconnect: drop any stale session for the same UID": *)
(* with no handler and no sweep under way there is one session per UID.     *)
OneSessionPerUid ==
  (rxPc = "idle" /\ sweepPc = "sleep") =>
    \A s, t \in byId : uidOf[s] = uidOf[t] => s = t

============================================================================
