---------------------------- MODULE VoiceSession ----------------------------
(***************************************************************************)
(* Who can be heard: the roster and the playback sources that              *)
(* Voice/VoiceSession.cpp keeps, while the network thread applies what the *)
(* relay announces and the sender thread applies the audibility snapshots. *)
(*                                                                         *)
(* Another player registers at the relay under its real UID, or under its  *)
(* nickname until the game has told it its UID; a change of identity opens *)
(* a second session, and the relay drops the first one only when it times  *)
(* out.  The relay's sweep runs beside its receive loop: it removes and    *)
(* announces in two steps, between those of a connect, a greeting or the   *)
(* answer to a roster request.  The relay's datagrams form a queue, from   *)
(* which some are lost or overtaken.                                       *)
(***************************************************************************)
EXTENDS Integers, Sequences, SequencesExt

CONSTANTS
  People,      \* the other players, named by their nicknames
  MaxSession,  \* bound: session ids that the relay hands out
  MaxQueue,    \* bound: datagrams on their way when another is sent
  MaxEvents    \* bound: players connecting, snapshots, lost and overtaken
               \* datagrams and disconnects together

ASSUME BoundsAssumption == {MaxSession, MaxEvents} \subseteq Nat /\ MaxQueue \in Nat \ {0}

Sids == 1..MaxSession

(* The UIDs under which a player may register, and be looked up.            *)
RealUid(p) == <<"uid", p>>
NickUid(p) == <<"nick", p>>
UidsOf(p) == {RealUid(p), NickUid(p)}
AllUids == UNION {UidsOf(p) : p \in People}
NoOne == 0

VARIABLES
  peers,      \* _sessionsById without this client's: [sid, uid, name]
  byUid,      \* _sessionsByUid, by session id
  nextSid,    \* _nextSessionId
  list,       \* sessions a greeting or answer has still to announce: a copy
  sweeping,   \* the session that the sweep has removed, but not yet announced
  crossed,    \* history: sessions that left while in a list, this connection
  shared,     \* history: UIDs that had two sessions at once
  net,        \* datagrams from the relay, oldest first
  connected,  \* m_connected, as the network thread last announced it
  debug,      \* the mixer's m_debugForceAudible
  sources,    \* sessions with a RemoteVoiceSource in the mixer
  audible,    \* those of them that have an audible path
  uidToSession, nameToSession,   \* the roster; NoOne: no entry
  netStep,    \* what is left of the network thread's callback
  snapStep,   \* where the sender thread stands in applyAudibility
  resolved,   \* the sessions of the snapshot being applied
  unset,      \* sessions that this applyAudibility has still to set
  lastActive, \* m_lastActiveSessionIds
  harmed,     \* history: a datagram was lost or overtaken in this connection
  events      \* events left

registry == <<peers, byUid, nextSid, list, sweeping, crossed, shared>>
relay == <<registry, net>>
roster == <<uidToSession, nameToSession>>
mixer == <<debug, sources, audible>>
snapshot == <<snapStep, resolved, unset, lastActive>>
vars == <<peers, byUid, nextSid, list, sweeping, crossed, shared, net,
          connected, debug, sources, audible, uidToSession, nameToSession,
          netStep, snapStep, resolved, unset, lastActive, harmed, events>>

Joined(s) == [kind |-> "Joined", sid |-> s.sid, uid |-> s.uid, name |-> s.name]
Left(s) == [kind |-> "Left", sid |-> s.sid, uid |-> s.uid, name |-> s.name]
Idle == [kind |-> "idle"]

----------------------------------------------------------------------------
(* The relay.                                                               *)

Announce(q) == IF connected THEN net \o q ELSE net
Room == Len(net) < MaxQueue
Spend == events > 0 /\ events' = events - 1

client == <<connected, netStep, mixer, roster, snapshot, harmed>>

(* The sweep may just have found overdue, in its copy, a session that the   *)
(* receive loop removes: it goes on as if it had removed it itself.         *)
SweepHolds(S) == sweeping' = sweeping \/ (sweeping = {} /\ sweeping' = S)

(* A player connects.  The relay drops the session it finds under the UID,  *)
(* and only that: not the one the player had under another UID.             *)
PeerJoins(p, uid) ==
  LET new == [sid |-> nextSid, uid |-> uid, name |-> p]
      old == [new EXCEPT !.sid = byUid[uid]]
      others == {s \in peers : s.sid # byUid[uid]}
  IN /\ list = {} /\ Room /\ Spend
     /\ nextSid \in Sids
     /\ nextSid' = nextSid + 1
     /\ peers' = others \cup {new}
     /\ byUid' = [byUid EXCEPT ![uid] = nextSid]
     /\ SweepHolds(peers \ others)
     /\ shared' = shared \cup {s.uid : s \in {o \in others : o.uid = uid}}
     /\ net' = Announce((IF byUid[uid] = NoOne THEN <<>> ELSE <<Left(old)>>) \o <<Joined(new)>>)
     /\ UNCHANGED <<list, crossed, client>>

(* A player disconnects.                                                    *)
PeerLeaves(s) ==
  /\ list = {} /\ Room
  /\ peers' = peers \ {s}
  /\ byUid' = [byUid EXCEPT ![s.uid] = NoOne]
  /\ SweepHolds({s})
  /\ net' = Announce(<<Left(s)>>)
  /\ UNCHANGED <<nextSid, list, crossed, shared, client, events>>

(* The sweep comes to a session that has been silent for too long.          *)
SweepRemoves(s) ==
  /\ sweeping = {}
  /\ sweeping' = {s}
  /\ peers' = peers \ {s}
  /\ UNCHANGED <<byUid, nextSid, list, crossed, shared, net, client, events>>

(* It removes whatever session the UID leads to by then, and announces.     *)
SweepAnnounces(s) ==
  /\ Room
  /\ sweeping' = {}
  /\ byUid' = [byUid EXCEPT ![s.uid] = NoOne]
  /\ crossed' = crossed \cup {t.sid : t \in list \cap {s}}
  /\ net' = Announce(<<Left(s)>>)
  /\ UNCHANGED <<peers, nextSid, list, shared, client, events>>

(* RosterRequest, sent with every ping: the sessions are copied and then    *)
(* announced in any order.  The last answer has long arrived.               *)
RosterAnswer ==
  /\ connected
  /\ net = <<>> /\ list = {}
  /\ list' = peers
  /\ UNCHANGED <<peers, byUid, nextSid, sweeping, crossed, shared, net, client, events>>

AnnounceListed(s) ==
  /\ Room
  /\ list' = list \ {s}
  /\ net' = Append(net, Joined(s))
  /\ UNCHANGED <<peers, byUid, nextSid, sweeping, crossed, shared, client, events>>

----------------------------------------------------------------------------
(* The network thread: the callbacks that VoiceSession::start installs.     *)

(* onRemoteJoined: the source first, then the roster under its lock.        *)
JoinedSource ==
  /\ netStep = Idle
  /\ net # <<>> /\ Head(net).kind = "Joined"
  /\ sources' = sources \cup {Head(net).sid}
  /\ audible' = audible \cup
       (IF debug /\ Head(net).sid \notin sources THEN {Head(net).sid} ELSE {})
  /\ netStep' = Head(net)
  /\ net' = Tail(net)
  /\ UNCHANGED <<registry, connected, debug, harmed, events>>
  /\ UNCHANGED roster /\ UNCHANGED snapshot

(* Mutant: the nickname is not recorded.                                    *)
JoinedRosterUidOnly ==
  /\ netStep.kind = "Joined"
  /\ uidToSession' = [uidToSession EXCEPT ![netStep.uid] = netStep.sid]
  /\ netStep' = Idle
  /\ UNCHANGED <<connected, nameToSession, harmed, events>>
  /\ UNCHANGED relay /\ UNCHANGED mixer /\ UNCHANGED snapshot

JoinedRoster ==
  /\ netStep.kind = "Joined"
  /\ uidToSession' = [uidToSession EXCEPT ![netStep.uid] = netStep.sid]
  /\ nameToSession' = [nameToSession EXCEPT ![netStep.name] = netStep.sid]
  /\ netStep' = Idle
  /\ UNCHANGED <<connected, harmed, events>>
  /\ UNCHANGED relay /\ UNCHANGED mixer /\ UNCHANGED snapshot

(* Mutant: the source of a session that left is silenced but kept.          *)
LeftSourceKept ==
  /\ netStep = Idle
  /\ net # <<>> /\ Head(net).kind = "Left"
  /\ audible' = audible \ {Head(net).sid}
  /\ netStep' = Head(net)
  /\ net' = Tail(net)
  /\ UNCHANGED <<registry, connected, debug, sources, harmed, events>>
  /\ UNCHANGED roster /\ UNCHANGED snapshot

(* onRemoteLeft: the source, then the entries that lead to that session.    *)
LeftSource ==
  /\ netStep = Idle
  /\ net # <<>> /\ Head(net).kind = "Left"
  /\ sources' = sources \ {Head(net).sid}
  /\ audible' = audible \ {Head(net).sid}
  /\ netStep' = Head(net)
  /\ net' = Tail(net)
  /\ UNCHANGED <<registry, connected, debug, harmed, events>>
  /\ UNCHANGED roster /\ UNCHANGED snapshot

Without(f, sid) == [x \in DOMAIN f |-> IF f[x] = sid THEN NoOne ELSE f[x]]

(* Mutant: the nickname's entry stays.                                      *)
LeftRosterUidOnly ==
  /\ netStep.kind = "Left"
  /\ uidToSession' = Without(uidToSession, netStep.sid)
  /\ netStep' = Idle
  /\ UNCHANGED <<connected, nameToSession, harmed, events>>
  /\ UNCHANGED relay /\ UNCHANGED mixer /\ UNCHANGED snapshot

LeftRoster ==
  /\ netStep.kind = "Left"
  /\ uidToSession' = Without(uidToSession, netStep.sid)
  /\ nameToSession' = Without(nameToSession, netStep.sid)
  /\ netStep' = Idle
  /\ UNCHANGED <<connected, harmed, events>>
  /\ UNCHANGED relay /\ UNCHANGED mixer /\ UNCHANGED snapshot

(* onConnectionStateChanged(true): the relay tells whether it forces every  *)
(* source audible, and starts to greet with a ClientJoined per session.     *)
Connect(d) ==
  /\ ~connected /\ netStep = Idle
  /\ connected' = TRUE
  /\ debug' = d
  /\ list' = peers
  /\ harmed' = FALSE
  /\ UNCHANGED <<peers, byUid, nextSid, sweeping, crossed, shared, net>>
  /\ UNCHANGED <<sources, audible, netStep, events>>
  /\ UNCHANGED roster /\ UNCHANGED snapshot

(* onConnectionStateChanged(false), in its three steps.  The reason may be  *)
(* a restart of the relay, which then hands out the same ids again.         *)
Disconnect(restart) ==
  /\ connected /\ netStep = Idle
  /\ Spend
  /\ connected' = FALSE
  /\ debug' = FALSE
  /\ net' = <<>> /\ list' = {} /\ crossed' = {}
  /\ IF restart
     THEN /\ peers' = {} /\ nextSid' = 1 /\ shared' = {}
          /\ byUid' = [u \in AllUids |-> NoOne]
          /\ sweeping' = {}
     ELSE UNCHANGED <<peers, nextSid, shared, byUid, sweeping>>
  /\ netStep' = [kind |-> "lostSources"]
  /\ UNCHANGED <<sources, audible, harmed>>
  /\ UNCHANGED roster /\ UNCHANGED snapshot

RemoveAllSources ==
  /\ netStep.kind = "lostSources"
  /\ sources' = {} /\ audible' = {}
  /\ netStep' = [kind |-> "lostRoster"]
  /\ UNCHANGED <<connected, debug, harmed, events>>
  /\ UNCHANGED relay /\ UNCHANGED roster /\ UNCHANGED snapshot

ClearRoster ==
  /\ netStep.kind = "lostRoster"
  /\ uidToSession' = [u \in AllUids |-> NoOne]
  /\ nameToSession' = [p \in People |-> NoOne]
  /\ netStep' = Idle
  /\ UNCHANGED <<connected, harmed, events>>
  /\ UNCHANGED relay /\ UNCHANGED mixer /\ UNCHANGED snapshot

----------------------------------------------------------------------------
(* The sender thread: applyAudibility.                                      *)

(* A row names a player by UID, or by nickname where the UID is not known;  *)
(* the nickname is also what a row falls back to.                           *)
Resolve(uid, p) ==
  IF uidToSession[uid] # NoOne THEN uidToSession[uid] ELSE nameToSession[p]

RowsOf(heard, known) ==
  {Resolve(IF p \in known THEN RealUid(p) ELSE NickUid(p), p) : p \in heard} \ {NoOne}

(* Nothing happens while every source is forced audible.                    *)
SkipSnapshot == snapStep = "idle" /\ debug /\ UNCHANGED vars

(* The rows are resolved under the roster's lock.                           *)
BeginSnapshot(heard, known) ==
  /\ snapStep = "idle"
  /\ ~debug
  /\ Spend
  /\ resolved' = RowsOf(heard, known)
  /\ unset' = RowsOf(heard, known)
  /\ snapStep' = "set"
  /\ UNCHANGED <<connected, netStep, lastActive, harmed>>
  /\ UNCHANGED relay /\ UNCHANGED mixer /\ UNCHANGED roster

(* Mutant: a state is set without looking for the source.                   *)
SetSourceUnchecked(sid) ==
  /\ snapStep = "set"
  /\ sid \in unset
  /\ unset' = unset \ {sid}
  /\ audible' = audible \cup {sid}
  /\ UNCHANGED <<connected, debug, sources, netStep, snapStep, resolved, lastActive, harmed, events>>
  /\ UNCHANGED relay /\ UNCHANGED roster

(* One setSourceStates; a session without a source is skipped by the mixer. *)
SetSource(sid) ==
  /\ snapStep = "set"
  /\ sid \in unset
  /\ unset' = unset \ {sid}
  /\ audible' = IF sid \in sources THEN audible \cup {sid} ELSE audible
  /\ UNCHANGED <<connected, debug, sources, netStep, snapStep, resolved, lastActive, harmed, events>>
  /\ UNCHANGED relay /\ UNCHANGED roster

(* Mutant: what is not in the snapshot keeps its state.                     *)
NothingToSilence == {}

(* What was active and is not in this snapshot has to be silenced.          *)
ToSilence == lastActive \ resolved

BeginSilence ==
  /\ snapStep = "set"
  /\ unset = {}
  /\ unset' = ToSilence
  /\ snapStep' = "silence"
  /\ UNCHANGED <<connected, netStep, resolved, lastActive, harmed, events>>
  /\ UNCHANGED relay /\ UNCHANGED mixer /\ UNCHANGED roster

SilenceSource(sid) ==
  /\ snapStep = "silence"
  /\ sid \in unset
  /\ unset' = unset \ {sid}
  /\ audible' = audible \ {sid}
  /\ UNCHANGED <<connected, debug, sources, netStep, snapStep, resolved, lastActive, harmed, events>>
  /\ UNCHANGED relay /\ UNCHANGED roster

EndSnapshot ==
  /\ snapStep = "silence"
  /\ unset = {}
  /\ lastActive' = resolved
  /\ snapStep' = "idle"
  /\ resolved' = {}
  /\ UNCHANGED <<connected, netStep, unset, harmed, events>>
  /\ UNCHANGED relay /\ UNCHANGED mixer /\ UNCHANGED roster

----------------------------------------------------------------------------
(* The network loses a datagram, or lets one overtake its predecessor.      *)

Lose(i) ==
  /\ Spend
  /\ harmed' = TRUE
  /\ net' = RemoveAt(net, i)
  /\ UNCHANGED <<registry, connected, netStep>>
  /\ UNCHANGED mixer /\ UNCHANGED roster /\ UNCHANGED snapshot

Overtake(i) ==
  /\ Spend
  /\ i < Len(net)
  /\ harmed' = TRUE
  /\ net' = [net EXCEPT ![i] = net[i + 1], ![i + 1] = net[i]]
  /\ UNCHANGED <<registry, connected, netStep>>
  /\ UNCHANGED mixer /\ UNCHANGED roster /\ UNCHANGED snapshot

----------------------------------------------------------------------------
Init ==
  /\ peers = {} /\ nextSid = 1 /\ net = <<>> /\ list = {}
  /\ byUid = [u \in AllUids |-> NoOne]
  /\ sweeping = {} /\ crossed = {} /\ shared = {}
  /\ connected = FALSE /\ debug = FALSE
  /\ sources = {} /\ audible = {}
  /\ uidToSession = [u \in AllUids |-> NoOne]
  /\ nameToSession = [p \in People |-> NoOne]
  /\ netStep = Idle
  /\ snapStep = "idle" /\ resolved = {} /\ unset = {} /\ lastActive = {}
  /\ harmed = FALSE /\ events = MaxEvents

NetworkThread ==
  \/ JoinedSource \/ JoinedRoster \/ LeftSource \/ LeftRoster
  \/ RemoveAllSources \/ ClearRoster
  \/ \E d \in BOOLEAN : Connect(d)

SenderThread ==
  \/ \E sid \in Sids : SetSource(sid) \/ SilenceSource(sid)
  \/ BeginSilence \/ EndSnapshot \/ SkipSnapshot

(* The receive loop, once it has copied the sessions.                       *)
AnnounceNext == \E s \in list : AnnounceListed(s)

Environment ==
  \/ \E p \in People : \E uid \in UidsOf(p) : PeerJoins(p, uid)
  \/ \E s \in peers : PeerLeaves(s)
  \/ \E s \in peers : SweepRemoves(s)
  \/ \E s \in sweeping : SweepAnnounces(s)
  \/ \E heard \in SUBSET People : \E known \in SUBSET heard : BeginSnapshot(heard, known)

Faults ==
  \/ \E i \in DOMAIN net : Lose(i) \/ Overtake(i)
  \/ \E restart \in BOOLEAN : Disconnect(restart)

Next ==
  \/ NetworkThread \/ SenderThread
  \/ RosterAnswer \/ AnnounceNext
  \/ Environment \/ Faults

Spec == Init /\ [][Next]_vars

(* The worker thread handles what arrives, reconnects and asks for the      *)
(* roster with every ping; the relay finishes its answers, and              *)
(* applyAudibility finishes.                                                *)
FairSpec ==
  /\ Spec /\ WF_vars(NetworkThread) /\ WF_vars(SenderThread)
  /\ WF_vars(RosterAnswer) /\ WF_vars(AnnounceNext)

----------------------------------------------------------------------------
(* Properties.                                                              *)

Sessions == [sid : Sids, uid : AllUids, name : People]
Datagrams == [kind : {"Joined", "Left"}, sid : Sids, uid : AllUids, name : People]

(* Type invariant of the roster, the mixer, the relay and the network.      *)
TypeOK ==
  /\ peers \subseteq Sessions /\ list \subseteq Sessions
  /\ sweeping \subseteq Sessions
  /\ byUid \in [AllUids -> Sids \cup {NoOne}]
  /\ crossed \subseteq Sids /\ shared \subseteq AllUids
  /\ nextSid \in 1..(MaxSession + 1)
  /\ net \in Seq(Datagrams)
  /\ netStep \in Datagrams \cup {Idle, [kind |-> "lostSources"], [kind |-> "lostRoster"]}
  /\ connected \in BOOLEAN /\ debug \in BOOLEAN
  /\ audible \subseteq sources /\ sources \subseteq Sids
  /\ uidToSession \in [AllUids -> Sids \cup {NoOne}]
  /\ nameToSession \in [People -> Sids \cup {NoOne}]
  /\ snapStep \in {"idle", "set", "silence"}
  /\ resolved \subseteq Sids /\ unset \subseteq Sids /\ lastActive \subseteq Sids
  /\ harmed \in BOOLEAN /\ events \in 0..MaxEvents

(* Full-replace semantics: between two snapshots, and unless everything is  *)
(* forced audible, nobody is audible whom the last snapshot did not name,   *)
(* although sources come and go while a snapshot is applied.                *)
OnlySnapshotAudible ==
  snapStep = "idle" /\ ~debug /\ netStep.kind # "lostSources" => audible \subseteq lastActive

(* Once a callback is through, every session that the roster leads to has a *)
(* source in the mixer: a row that resolves is never applied to nobody.     *)
RosterHasSources ==
  netStep = Idle =>
    /\ \A u \in AllUids : uidToSession[u] \in sources \cup {NoOne}
    /\ \A p \in People : nameToSession[p] \in sources \cup {NoOne}

(* Whoever ends up registered under the real UID, with the old sessions     *)
(* gone from the relay, is found in the end by UID and by nickname, has a   *)
(* source, and stays found: whatever announcements were lost or overtaken,  *)
(* and however often the client was disconnected.                           *)
OnlySession(p, s) ==
  /\ s.name = p /\ s.uid = RealUid(p)
  /\ \A t \in peers : t.name = p => t = s

Found(p) ==
  \A s \in peers : OnlySession(p, s) =>
    s.sid \in sources /\ uidToSession[RealUid(p)] = s.sid /\ nameToSession[p] = s.sid

PeersFound == \A p \in People : <>[]Found(p)

(* While no datagram was lost or overtaken since the connection began, and  *)
(* with nothing on its way or left to announce, every session that the      *)
(* relay has has a source, and the roster leads from its UID to it, unless  *)
(* the UID had two sessions at once.  Who left stays behind only if the     *)
(* sweep announced it while a greeting or an answer was under way that      *)
(* still named it, although sessions come, go and replace each other.       *)
NothingUnderWay == net = <<>> /\ netStep = Idle /\ list = {} /\ sweeping = {}

SourcesFollowRelay ==
  connected /\ ~harmed /\ NothingUnderWay =>
    /\ {s.sid : s \in peers} \subseteq sources
    /\ sources \subseteq {s.sid : s \in peers} \cup crossed
    /\ \A s \in peers : s.uid \notin shared => uidToSession[s.uid] = s.sid

============================================================================
