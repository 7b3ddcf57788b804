------------------------- MODULE VoiceSessionProofs -------------------------
(***************************************************************************)
(* Proofs about VoiceSession, for any number of players, session ids,      *)
(* datagrams on their way and events.                                      *)
(***************************************************************************)
EXTENDS VoiceSession, FiniteSetTheorems, SequenceTheorems, TLAPS

(* The relay enumerates finitely many sessions.                             *)
Typed == TypeOK /\ IsFiniteSet(peers) /\ IsFiniteSet(list)

LEMMA KindOfDatagram ==
  ASSUME NEW d \in Datagrams
  PROVE  /\ d.kind \in {"Joined", "Left"} /\ d.sid \in Sids
         /\ d.uid \in AllUids /\ d.name \in People
  BY DEF Datagrams

LEMMA AnnouncementTypes ==
  ASSUME NEW s \in Sessions
  PROVE  /\ Joined(s) \in Datagrams /\ Left(s) \in Datagrams
         /\ <<Joined(s)>> \in Seq(Datagrams) /\ <<Left(s)>> \in Seq(Datagrams)
<1>1. Joined(s) \in Datagrams /\ Left(s) \in Datagrams
  BY DEF Sessions, Datagrams, Joined, Left
<1> QED
  BY <1>1

LEMMA AppendType ==
  ASSUME net \in Seq(Datagrams), NEW d \in Datagrams
  PROVE  /\ Append(net, d) \in Seq(Datagrams)
         /\ Append(net, d) = net \o <<d>>
  OBVIOUS

LEMMA SpendType ==
  ASSUME TypeOK, Spend
  PROVE  events' \in 0..MaxEvents
  BY BoundsAssumption DEF TypeOK, Spend

(* The session a newcomer's UID leads to, where it leads to one.            *)
Evicted(p, uid) == [sid |-> byUid[uid], uid |-> uid, name |-> p]
New(p, uid) == [sid |-> nextSid, uid |-> uid, name |-> p]
Newcomer(p, uid) ==
  (IF byUid[uid] = NoOne THEN <<>> ELSE <<Left(Evicted(p, uid))>>) \o <<Joined(New(p, uid))>>
Others(uid) == {s \in peers : s.sid # byUid[uid]}

LEMMA RealUidType == \A p \in People : UidsOf(p) \subseteq AllUids
  BY DEF UidsOf, AllUids

LEMMA NewcomerTypes ==
  ASSUME TypeOK, nextSid \in Sids, NEW p \in People, NEW uid \in UidsOf(p)
  PROVE  /\ New(p, uid) \in Sessions
         /\ byUid[uid] # NoOne => Evicted(p, uid) \in Sessions
         /\ Newcomer(p, uid) \in Seq(Datagrams)
<1>1. uid \in AllUids /\ byUid[uid] \in Sids \cup {NoOne}
  BY RealUidType DEF TypeOK
<1>2. New(p, uid) \in Sessions /\ (byUid[uid] # NoOne => Evicted(p, uid) \in Sessions)
  BY <1>1 DEF New, Evicted, Sessions
<1>3. /\ <<Joined(New(p, uid))>> \in Seq(Datagrams)
      /\ byUid[uid] # NoOne => <<Left(Evicted(p, uid))>> \in Seq(Datagrams)
  BY <1>2, AnnouncementTypes
<1>4. Newcomer(p, uid) \in Seq(Datagrams)
  <2>1. CASE byUid[uid] = NoOne
    BY <1>3, <2>1, ConcatProperties DEF Newcomer
  <2>2. CASE byUid[uid] # NoOne
    BY <1>3, <2>2, ConcatProperties DEF Newcomer
  <2> QED
    BY <2>1, <2>2
<1> QED
  BY <1>2, <1>4

LEMMA JoinsStep ==
  ASSUME NEW p \in People, NEW uid \in UidsOf(p), PeerJoins(p, uid)
  PROVE  /\ list = {} /\ list' = {} /\ Spend
         /\ nextSid \in Sids /\ nextSid' = nextSid + 1
         /\ peers' = Others(uid) \cup {New(p, uid)}
         /\ byUid' = [byUid EXCEPT ![uid] = nextSid]
         /\ SweepHolds(peers \ Others(uid))
         /\ shared' = shared \cup {s.uid : s \in {o \in Others(uid) : o.uid = uid}}
         /\ net' = Announce(Newcomer(p, uid))
         /\ UNCHANGED <<crossed, connected, netStep, harmed>>
         /\ UNCHANGED mixer /\ UNCHANGED roster /\ UNCHANGED snapshot
  BY DEF PeerJoins, Others, New, Evicted, Newcomer, client

LEMMA AnnounceType ==
  ASSUME net \in Seq(Datagrams), NEW q \in Seq(Datagrams)
  PROVE  Announce(q) \in Seq(Datagrams)
  BY DEF Announce

LEMMA HeadTail ==
  ASSUME net \in Seq(Datagrams), net # <<>>
  PROVE  Head(net) \in Datagrams /\ Tail(net) \in Seq(Datagrams)
  OBVIOUS

LEMMA RowsType ==
  ASSUME TypeOK, NEW heard \in SUBSET People, NEW known \in SUBSET heard
  PROVE  RowsOf(heard, known) \subseteq Sids
<1>1. ASSUME NEW p \in heard
      PROVE  Resolve(IF p \in known THEN RealUid(p) ELSE NickUid(p), p) \in Sids \cup {NoOne}
  <2> DEFINE uid == IF p \in known THEN RealUid(p) ELSE NickUid(p)
  <2>1. p \in People /\ uid \in AllUids
    BY DEF UidsOf, AllUids
  <2> HIDE DEF uid
  <2>2. uidToSession[uid] \in Sids \cup {NoOne} /\ nameToSession[p] \in Sids \cup {NoOne}
    BY <2>1 DEF TypeOK
  <2>3. Resolve(uid, p) \in Sids \cup {NoOne}
    BY <2>2 DEF Resolve
  <2> QED
    BY <2>3 DEF uid
<1> QED
  BY <1>1 DEF RowsOf

(* What of the state the actions of the two threads may change.             *)
LEMMA NetworkTypes == Typed /\ (NetworkThread \/ RosterAnswer \/ AnnounceNext) => Typed'
<1> SUFFICES ASSUME Typed, NetworkThread \/ RosterAnswer \/ AnnounceNext PROVE Typed'
  OBVIOUS
<1> USE DEF Typed
<1>1. CASE JoinedSource
  <2>1. Head(net) \in Datagrams /\ Tail(net) \in Seq(Datagrams)
    BY <1>1, HeadTail DEF JoinedSource, TypeOK
  <2>2. Head(net).sid \in Sids
    BY <2>1, KindOfDatagram
  <2>3. audible' \subseteq sources' /\ sources' \subseteq Sids
    BY <1>1, <2>2 DEF JoinedSource, TypeOK
  <2> QED
    BY <1>1, <2>1, <2>3 DEF JoinedSource, TypeOK, registry, roster, snapshot
<1>2. CASE LeftSource
  <2>1. Head(net) \in Datagrams /\ Tail(net) \in Seq(Datagrams)
    BY <1>2, HeadTail DEF LeftSource, TypeOK
  <2>2. audible' \subseteq sources' /\ sources' \subseteq Sids
    BY <1>2 DEF LeftSource, TypeOK
  <2> QED
    BY <1>2, <2>1, <2>2 DEF LeftSource, TypeOK, registry, roster, snapshot
<1>3. CASE JoinedRoster
  <2>1. netStep \in Datagrams
    BY <1>3 DEF JoinedRoster, TypeOK, Idle
  <2>2. /\ uidToSession' \in [AllUids -> Sids \cup {NoOne}]
        /\ nameToSession' \in [People -> Sids \cup {NoOne}]
    BY <1>3, <2>1, KindOfDatagram DEF JoinedRoster, TypeOK
  <2> QED
    BY <1>3, <2>2 DEF JoinedRoster, TypeOK, relay, registry, mixer, snapshot
<1>4. CASE LeftRoster
  <2>1. /\ uidToSession' \in [AllUids -> Sids \cup {NoOne}]
        /\ nameToSession' \in [People -> Sids \cup {NoOne}]
    BY <1>4 DEF LeftRoster, TypeOK, Without
  <2> QED
    BY <1>4, <2>1 DEF LeftRoster, TypeOK, relay, registry, mixer, snapshot
<1>5. CASE RemoveAllSources
  BY <1>5 DEF RemoveAllSources, TypeOK, relay, registry, roster, snapshot
<1>6. CASE ClearRoster
  BY <1>6 DEF ClearRoster, TypeOK, relay, registry, mixer, snapshot
<1>7. ASSUME NEW d \in BOOLEAN, Connect(d) PROVE Typed'
  BY <1>7 DEF Connect, TypeOK, roster, snapshot
<1>8. CASE RosterAnswer
  BY <1>8 DEF RosterAnswer, TypeOK, client, mixer, roster, snapshot
<1>9. ASSUME NEW s \in list, AnnounceListed(s) PROVE Typed'
  <2>1. net' \in Seq(Datagrams)
    BY <1>9, AnnouncementTypes, AppendType DEF AnnounceListed, TypeOK
  <2>2. IsFiniteSet(list') /\ list' \subseteq Sessions
    BY <1>9, FS_RemoveElement DEF AnnounceListed, TypeOK
  <2> QED
    BY <1>9, <2>1, <2>2 DEF AnnounceListed, TypeOK, client, mixer, roster, snapshot
<1> QED
  BY <1>1, <1>2, <1>3, <1>4, <1>5, <1>6, <1>7, <1>8, <1>9 DEF NetworkThread, AnnounceNext

LEMMA SenderTypes == Typed /\ SenderThread => Typed'
<1> SUFFICES ASSUME Typed, SenderThread PROVE Typed'
  OBVIOUS
<1> USE DEF Typed
<1>1. ASSUME NEW sid \in Sids, SetSource(sid) \/ SilenceSource(sid) PROVE Typed'
  <2>1. audible' \subseteq sources' /\ unset' \subseteq Sids
    BY <1>1 DEF SetSource, SilenceSource, TypeOK
  <2> QED
    BY <1>1, <2>1 DEF SetSource, SilenceSource, TypeOK, relay, registry, roster
<1>2. CASE BeginSilence
  BY <1>2 DEF BeginSilence, TypeOK, ToSilence, relay, registry, mixer, roster
<1>3. CASE EndSnapshot
  BY <1>3 DEF EndSnapshot, TypeOK, relay, registry, mixer, roster
<1>4. CASE SkipSnapshot
  BY <1>4 DEF SkipSnapshot, TypeOK, vars
<1> QED
  BY <1>1, <1>2, <1>3, <1>4 DEF SenderThread

(* The sweep has at most the session in hand that it held or has come to.   *)
LEMMA SweepTypes ==
  ASSUME TypeOK, NEW S \in SUBSET peers, SweepHolds(S)
  PROVE  sweeping' \subseteq Sessions
  BY DEF SweepHolds, TypeOK

LEMMA EnvironmentTypes == Typed /\ Environment => Typed'
<1> SUFFICES ASSUME Typed, Environment PROVE Typed'
  OBVIOUS
<1> USE DEF Typed
<1>1. ASSUME NEW p \in People, NEW uid \in UidsOf(p), PeerJoins(p, uid) PROVE Typed'
  <2>1. /\ list' = {} /\ Spend /\ nextSid \in Sids /\ nextSid' = nextSid + 1
        /\ peers' = Others(uid) \cup {New(p, uid)} /\ byUid' = [byUid EXCEPT ![uid] = nextSid]
        /\ SweepHolds(peers \ Others(uid))
        /\ shared' = shared \cup {s.uid : s \in {o \in Others(uid) : o.uid = uid}}
        /\ net' = Announce(Newcomer(p, uid))
        /\ UNCHANGED <<crossed, connected, netStep, harmed>>
        /\ UNCHANGED mixer /\ UNCHANGED roster /\ UNCHANGED snapshot
    BY <1>1, JoinsStep
  <2>2. New(p, uid) \in Sessions /\ Newcomer(p, uid) \in Seq(Datagrams) /\ uid \in AllUids
    BY <2>1, NewcomerTypes, RealUidType
  <2>3. peers' \subseteq Sessions /\ IsFiniteSet(peers')
    <3>1. Others(uid) \subseteq peers
      BY DEF Others
    <3>2. IsFiniteSet(Others(uid))
      BY <3>1, FS_Subset
    <3>3. IsFiniteSet(Others(uid) \cup {New(p, uid)})
      BY <3>2, FS_AddElement
    <3> QED
      BY <2>1, <2>2, <3>1, <3>3 DEF TypeOK
  <2>4. net' \in Seq(Datagrams)
    BY <2>1, <2>2, AnnounceType DEF TypeOK
  <2>5. nextSid' \in 1..(MaxSession + 1) /\ byUid' \in [AllUids -> Sids \cup {NoOne}]
    BY <2>1, <2>2, BoundsAssumption DEF TypeOK, Sids
  <2>6. sweeping' \subseteq Sessions /\ shared' \subseteq AllUids /\ events' \in 0..MaxEvents
    BY <2>1, <2>2, SweepTypes, SpendType DEF TypeOK
  <2>7. IsFiniteSet(list') /\ list' \subseteq Sessions
    BY <2>1, FS_EmptySet
  <2> QED
    BY <2>1, <2>3, <2>4, <2>5, <2>6, <2>7 DEF TypeOK, mixer, roster, snapshot
<1>2. ASSUME NEW s \in peers, PeerLeaves(s) PROVE Typed'
  <2>1. net' \in Seq(Datagrams)
    BY <1>2, AnnouncementTypes, AnnounceType DEF PeerLeaves, TypeOK
  <2>2. IsFiniteSet(peers') /\ peers' \subseteq Sessions
    BY <1>2, FS_RemoveElement DEF PeerLeaves, TypeOK
  <2>3. sweeping' \subseteq Sessions /\ byUid' \in [AllUids -> Sids \cup {NoOne}]
    BY <1>2, SweepTypes DEF PeerLeaves, TypeOK
  <2> QED
    BY <1>2, <2>1, <2>2, <2>3 DEF PeerLeaves, TypeOK, client, mixer, roster, snapshot
<1>3. ASSUME NEW s \in peers, SweepRemoves(s) PROVE Typed'
  <2>1. IsFiniteSet(peers') /\ peers' \subseteq Sessions /\ sweeping' \subseteq Sessions
    BY <1>3, FS_RemoveElement DEF SweepRemoves, TypeOK
  <2> QED
    BY <1>3, <2>1 DEF SweepRemoves, TypeOK, client, mixer, roster, snapshot
<1>4. ASSUME NEW s \in sweeping, SweepAnnounces(s) PROVE Typed'
  <2>1. net' \in Seq(Datagrams)
    BY <1>4, AnnouncementTypes, AnnounceType DEF SweepAnnounces, TypeOK
  <2>2. /\ sweeping' \subseteq Sessions /\ byUid' \in [AllUids -> Sids \cup {NoOne}]
        /\ crossed' \subseteq Sids
    BY <1>4 DEF SweepAnnounces, TypeOK, Sessions
  <2> QED
    BY <1>4, <2>1, <2>2 DEF SweepAnnounces, TypeOK, client, mixer, roster, snapshot
<1>5. ASSUME NEW heard \in SUBSET People, NEW known \in SUBSET heard,
             BeginSnapshot(heard, known)
      PROVE  Typed'
  <2>1. RowsOf(heard, known) \subseteq Sids
    BY RowsType
  <2>2. events' \in 0..MaxEvents
    BY <1>5, SpendType DEF BeginSnapshot
  <2> QED
    BY <1>5, <2>1, <2>2 DEF BeginSnapshot, TypeOK, relay, registry, mixer, roster
<1> QED
  BY <1>1, <1>2, <1>3, <1>4, <1>5 DEF Environment

LEMMA FaultTypes == Typed /\ Faults => Typed'
<1> SUFFICES ASSUME Typed, Faults PROVE Typed'
  OBVIOUS
<1> USE DEF Typed
<1>1. ASSUME NEW i \in DOMAIN net, Lose(i) PROVE Typed'
  <2>1. net \in Seq(Datagrams) /\ i \in 1..Len(net) /\ Len(net) \in Nat
    BY DEF TypeOK
  <2>2. SubSeq(net, 1, i - 1) \in Seq(Datagrams) /\ SubSeq(net, i + 1, Len(net)) \in Seq(Datagrams)
    <3>1. /\ 1 \in Int /\ i - 1 \in Int /\ i + 1 \in Int /\ Len(net) \in Int
          /\ \A j \in 1..(i - 1) : net[j] \in Datagrams
          /\ \A j \in (i + 1)..Len(net) : net[j] \in Datagrams
      BY <2>1
    <3> QED
      BY <3>1, SubSeqProperties
  <2>3. net' \in Seq(Datagrams)
    BY <1>1, <2>2, ConcatProperties DEF Lose, RemoveAt
  <2>4. events' \in 0..MaxEvents
    BY <1>1, SpendType DEF Lose
  <2> QED
    BY <1>1, <2>3, <2>4 DEF Lose, TypeOK, registry, mixer, roster, snapshot
<1>2. ASSUME NEW i \in DOMAIN net, Overtake(i) PROVE Typed'
  <2>1. net' \in Seq(Datagrams)
    BY <1>2 DEF Overtake, TypeOK
  <2>2. events' \in 0..MaxEvents
    BY <1>2, SpendType DEF Overtake
  <2> QED
    BY <1>2, <2>1, <2>2 DEF Overtake, TypeOK, registry, mixer, roster, snapshot
<1>3. ASSUME NEW restart \in BOOLEAN, Disconnect(restart) PROVE Typed'
  <2>1. /\ nextSid' \in 1..(MaxSession + 1) /\ byUid' \in [AllUids -> Sids \cup {NoOne}]
        /\ shared' \subseteq AllUids /\ sweeping' \subseteq Sessions /\ crossed' = {}
    BY <1>3, BoundsAssumption DEF Disconnect, TypeOK
  <2>2. peers' \subseteq Sessions /\ IsFiniteSet(peers') /\ list' = {} /\ IsFiniteSet(list')
    BY <1>3, FS_EmptySet DEF Disconnect, TypeOK
  <2>3. connected' = FALSE /\ debug' = FALSE /\ net' \in Seq(Datagrams)
    BY <1>3 DEF Disconnect
  <2>4. netStep' = [kind |-> "lostSources"] /\ events' \in 0..MaxEvents
    BY <1>3, SpendType DEF Disconnect
  <2> QED
    BY <1>3, <2>1, <2>2, <2>3, <2>4 DEF Disconnect, TypeOK, roster, snapshot
<1> QED
  BY <1>1, <1>2, <1>3 DEF Faults

LEMMA StepType == Typed /\ [Next]_vars => Typed'
<1>1. Typed /\ UNCHANGED vars => Typed'
  BY DEF Typed, TypeOK, vars
<1> QED
  BY <1>1, NetworkTypes, SenderTypes, EnvironmentTypes, FaultTypes DEF Next

LEMMA InitType == Init => Typed
<1> SUFFICES ASSUME Init PROVE Typed
  OBVIOUS
<1>1. nextSid \in 1..(MaxSession + 1) /\ events \in 0..MaxEvents
  BY BoundsAssumption DEF Init
<1>2. net \in Seq(Datagrams) /\ IsFiniteSet(peers) /\ IsFiniteSet(list)
  BY FS_EmptySet DEF Init
<1> QED
  BY <1>1, <1>2 DEF Init, Typed, TypeOK

(* The types of roster, mixer, snapshot and datagrams                       *)
(* (VoiceSession.cpp:21-168, PlaybackMixer.cpp:30-140).                     *)
THEOREM TypeCorrect == Spec => []TypeOK
<1>1. Spec => []Typed
  BY InitType, StepType, PTL DEF Spec
<1>2. Typed => TypeOK
  BY DEF Typed
<1> QED
  BY <1>1, <1>2, PTL

(* While a snapshot is applied, only what it names, what the one before     *)
(* named, or what it has still to silence can be heard.                     *)
MayBeHeard ==
  CASE snapStep = "idle" -> lastActive
    [] snapStep = "set" -> lastActive \cup resolved
    [] snapStep = "silence" -> resolved \cup unset

(* The force of a debugging relay ends with the connection, and the         *)
(* callback that ends it empties the mixer before anything else.            *)
SnapInv ==
  /\ debug => connected
  /\ snapStep = "set" => unset \subseteq resolved
  /\ ~debug /\ netStep.kind # "lostSources" => audible \subseteq MayBeHeard

LEMMA StepSnap == Typed /\ SnapInv /\ [Next]_vars => SnapInv'
<1> SUFFICES ASSUME Typed, SnapInv, [Next]_vars PROVE SnapInv'
  OBVIOUS
<1> USE DEF SnapInv, MayBeHeard
<1>0. TypeOK /\ (snapStep = "idle" \/ snapStep = "set" \/ snapStep = "silence")
  BY DEF Typed, TypeOK
<1>1. CASE JoinedSource
  <2>1. netStep.kind # "lostSources" /\ netStep'.kind # "lostSources"
    BY <1>1 DEF JoinedSource, Idle
  <2>2. ~debug => audible' = audible
    BY <1>1 DEF JoinedSource
  <2> QED
    BY <1>1, <2>1, <2>2 DEF JoinedSource, snapshot
<1>2. CASE LeftSource
  <2>1. netStep.kind # "lostSources" /\ audible' \subseteq audible
    BY <1>2 DEF LeftSource, Idle
  <2> QED
    BY <1>2, <2>1 DEF LeftSource, snapshot
<1>3. CASE JoinedRoster \/ LeftRoster \/ ClearRoster
  <2>1. netStep.kind # "lostSources" /\ netStep'.kind # "lostSources"
    BY <1>3 DEF JoinedRoster, LeftRoster, ClearRoster, Idle
  <2>2. /\ connected' = connected /\ debug' = debug /\ audible' = audible
        /\ snapStep' = snapStep /\ resolved' = resolved /\ unset' = unset
        /\ lastActive' = lastActive
    BY <1>3 DEF JoinedRoster, LeftRoster, ClearRoster, mixer, snapshot
  <2> QED
    BY <2>1, <2>2
<1>4. CASE RemoveAllSources
  BY <1>4 DEF RemoveAllSources, snapshot
<1>5. ASSUME NEW d \in BOOLEAN, Connect(d) PROVE SnapInv'
  <2>1. ~connected /\ connected' /\ netStep.kind # "lostSources"
    BY <1>5 DEF Connect, Idle
  <2> QED
    BY <1>5, <2>1 DEF Connect, snapshot
<1>6. ASSUME NEW restart \in BOOLEAN, Disconnect(restart) PROVE SnapInv'
  <2>1. ~debug' /\ netStep'.kind = "lostSources"
    BY <1>6 DEF Disconnect
  <2> QED
    BY <1>6, <2>1 DEF Disconnect, snapshot
<1>7. ASSUME NEW sid \in Sids, SetSource(sid) PROVE SnapInv'
  BY <1>7 DEF SetSource
<1>8. ASSUME NEW sid \in Sids, SilenceSource(sid) PROVE SnapInv'
  BY <1>8 DEF SilenceSource
<1>9. CASE BeginSilence
  BY <1>9 DEF BeginSilence, ToSilence, mixer
<1>10. CASE EndSnapshot
  BY <1>10 DEF EndSnapshot, mixer
<1>11. ASSUME NEW heard \in SUBSET People, NEW known \in SUBSET heard,
              BeginSnapshot(heard, known)
       PROVE  SnapInv'
  BY <1>11 DEF BeginSnapshot, mixer
<1>12. CASE UNCHANGED <<connected, debug, audible, netStep, snapStep, resolved, unset, lastActive>>
  BY <1>12
<1>13. CASE RosterAnswer \/ AnnounceNext
  BY <1>12, <1>13 DEF RosterAnswer, AnnounceNext, AnnounceListed, client, mixer, snapshot
<1>14. ASSUME NEW p \in People, NEW uid \in UidsOf(p), PeerJoins(p, uid) PROVE SnapInv'
  BY <1>12, <1>14 DEF PeerJoins, client, mixer, snapshot
<1>15. ASSUME NEW s, PeerLeaves(s) \/ SweepRemoves(s) \/ SweepAnnounces(s) PROVE SnapInv'
  BY <1>12, <1>15 DEF PeerLeaves, SweepRemoves, SweepAnnounces, client, mixer, snapshot
<1>16. ASSUME NEW i \in DOMAIN net, Lose(i) \/ Overtake(i) PROVE SnapInv'
  BY <1>12, <1>16 DEF Lose, Overtake, mixer, snapshot
<1>17. CASE SkipSnapshot \/ UNCHANGED vars
  BY <1>12, <1>17 DEF SkipSnapshot, vars
<1> QED
  BY <1>1, <1>2, <1>3, <1>4, <1>5, <1>6, <1>7, <1>8, <1>9, <1>10, <1>11, <1>13, <1>14,
     <1>15, <1>16, <1>17 DEF Next, NetworkThread, SenderThread, Environment, Faults

(* Between two snapshots nobody is audible whom the last one did not name,  *)
(* however the network thread's callbacks fall into a snapshot              *)
(* (VoiceSession.cpp:111-168).                                              *)
THEOREM SnapshotCorrect == Spec => []OnlySnapshotAudible
<1>1. Init => SnapInv
  BY DEF Init, SnapInv, MayBeHeard
<1>2. SnapInv => OnlySnapshotAudible
  BY DEF SnapInv, MayBeHeard, OnlySnapshotAudible
<1> QED
  BY <1>1, <1>2, InitType, StepType, StepSnap, PTL DEF Spec

(* Where the roster may lead in the middle of a callback: to a session that *)
(* has just lost its source, and anywhere once all sources are gone.        *)
RosterInv ==
  /\ netStep.kind = "Joined" => netStep.sid \in sources
  /\ netStep.kind # "lostRoster" =>
       /\ \A u \in AllUids :
            \/ uidToSession[u] \in sources \cup {NoOne}
            \/ netStep.kind = "Left" /\ uidToSession[u] = netStep.sid
       /\ \A p \in People :
            \/ nameToSession[p] \in sources \cup {NoOne}
            \/ netStep.kind = "Left" /\ nameToSession[p] = netStep.sid

LEMMA StepRoster == Typed /\ RosterInv /\ [Next]_vars => RosterInv'
<1> SUFFICES ASSUME Typed, RosterInv, [Next]_vars PROVE RosterInv'
  OBVIOUS
<1>0. TypeOK
  BY DEF Typed
<1>1. CASE JoinedSource
  <2>1. netStep.kind = "idle" /\ netStep'.kind = "Joined" /\ netStep'.sid \in sources'
        /\ sources \subseteq sources'
    BY <1>1 DEF JoinedSource, Idle
  <2>2. uidToSession' = uidToSession /\ nameToSession' = nameToSession
    BY <1>1 DEF JoinedSource, roster
  <2> QED
    BY <2>1, <2>2 DEF RosterInv
<1>2. CASE LeftSource
  <2>1. netStep.kind = "idle" /\ netStep'.kind = "Left" /\ sources' = sources \ {netStep'.sid}
    BY <1>2 DEF LeftSource, Idle
  <2>2. uidToSession' = uidToSession /\ nameToSession' = nameToSession
    BY <1>2 DEF LeftSource, roster
  <2> QED
    BY <2>1, <2>2 DEF RosterInv
<1>3. CASE JoinedRoster
  <2>1. netStep.kind = "Joined" /\ netStep'.kind = "idle" /\ sources' = sources
    BY <1>3 DEF JoinedRoster, Idle, mixer
  <2>2. /\ uidToSession' = [uidToSession EXCEPT ![netStep.uid] = netStep.sid]
        /\ nameToSession' = [nameToSession EXCEPT ![netStep.name] = netStep.sid]
    BY <1>3 DEF JoinedRoster
  <2> QED
    BY <1>0, <2>1, <2>2 DEF RosterInv, TypeOK
<1>4. CASE LeftRoster
  <2>1. netStep.kind = "Left" /\ netStep'.kind = "idle" /\ sources' = sources
    BY <1>4 DEF LeftRoster, Idle, mixer
  <2>2. /\ uidToSession' = Without(uidToSession, netStep.sid)
        /\ nameToSession' = Without(nameToSession, netStep.sid)
    BY <1>4 DEF LeftRoster
  <2> QED
    BY <1>0, <2>1, <2>2 DEF RosterInv, TypeOK, Without
<1>5. CASE RemoveAllSources
  BY <1>5 DEF RemoveAllSources, RosterInv
<1>6. CASE ClearRoster
  <2>1. netStep'.kind = "idle"
    BY <1>6 DEF ClearRoster, Idle
  <2> QED
    BY <1>6, <2>1 DEF ClearRoster, RosterInv
<1>7. CASE UNCHANGED <<netStep, sources, uidToSession, nameToSession>>
  BY <1>7 DEF RosterInv
<1>8. ASSUME NEW d \in BOOLEAN, Connect(d) PROVE RosterInv'
  BY <1>7, <1>8 DEF Connect, roster
<1>9. ASSUME NEW restart \in BOOLEAN, Disconnect(restart) PROVE RosterInv'
  <2>1. netStep.kind = "idle" /\ netStep'.kind = "lostSources" /\ sources' = sources
        /\ uidToSession' = uidToSession /\ nameToSession' = nameToSession
    BY <1>9 DEF Disconnect, Idle, roster
  <2> QED
    BY <2>1 DEF RosterInv
<1>10. ASSUME NEW sid \in Sids, SetSource(sid) \/ SilenceSource(sid) PROVE RosterInv'
  BY <1>7, <1>10 DEF SetSource, SilenceSource, roster
<1>11. CASE BeginSilence \/ EndSnapshot
  BY <1>7, <1>11 DEF BeginSilence, EndSnapshot, mixer, roster
<1>12. ASSUME NEW heard \in SUBSET People, NEW known \in SUBSET heard,
              BeginSnapshot(heard, known)
       PROVE  RosterInv'
  BY <1>7, <1>12 DEF BeginSnapshot, mixer, roster
<1>13. CASE RosterAnswer \/ AnnounceNext
  BY <1>7, <1>13 DEF RosterAnswer, AnnounceNext, AnnounceListed, client, mixer, roster
<1>14. ASSUME NEW p \in People, NEW uid \in UidsOf(p), PeerJoins(p, uid) PROVE RosterInv'
  BY <1>7, <1>14 DEF PeerJoins, client, mixer, roster
<1>15. ASSUME NEW s, PeerLeaves(s) \/ SweepRemoves(s) \/ SweepAnnounces(s) PROVE RosterInv'
  BY <1>7, <1>15 DEF PeerLeaves, SweepRemoves, SweepAnnounces, client, mixer, roster
<1>16. ASSUME NEW i \in DOMAIN net, Lose(i) \/ Overtake(i) PROVE RosterInv'
  BY <1>7, <1>16 DEF Lose, Overtake, mixer, roster
<1>17. CASE SkipSnapshot \/ UNCHANGED vars
  BY <1>7, <1>17 DEF SkipSnapshot, vars
<1> QED
  BY <1>1, <1>2, <1>3, <1>4, <1>5, <1>6, <1>8, <1>9, <1>10, <1>11, <1>12, <1>13, <1>14,
     <1>15, <1>16, <1>17 DEF Next, NetworkThread, SenderThread, Environment, Faults

(* Whenever no callback is under way, every entry of the roster leads to a  *)
(* session with a source in the mixer (VoiceSession.cpp:21-69), whatever    *)
(* was lost, overtaken or reset in between.                                 *)
THEOREM RosterCorrect == Spec => []RosterHasSources
<1>1. Init => RosterInv
  BY DEF Init, RosterInv, Idle
<1>2. RosterInv => RosterHasSources
  BY DEF RosterInv, RosterHasSources, Idle
<1> QED
  BY <1>1, <1>2, InitType, StepType, StepRoster, PTL DEF Spec

(* What the datagrams on their way say of a session: whether they mention   *)
(* it, and whether the last of those that do says that it left.             *)
Mentions(q, sid) == \E i \in 1..Len(q) : q[i].sid = sid

LastLeft(q, sid) ==
  \E i \in 1..Len(q) :
    q[i].sid = sid /\ q[i].kind = "Left" /\ \A j \in (i + 1)..Len(q) : q[j].sid # sid

LEMMA JoinedWords ==
  ASSUME NEW a \in Seq(Datagrams), NEW b \in Seq(Datagrams), NEW sid
  PROVE  /\ Mentions(a \o b, sid) <=> Mentions(a, sid) \/ Mentions(b, sid)
         /\ LastLeft(a \o b, sid) <=>
              LastLeft(b, sid) \/ (~Mentions(b, sid) /\ LastLeft(a, sid))
<1> DEFINE c == a \o b
           m == Len(a)
           n == Len(b)
<1>1. /\ m \in Nat /\ n \in Nat /\ Len(c) = m + n
      /\ \A i \in 1..m : c[i] = a[i]
      /\ \A i \in 1..n : c[m + i] = b[i]
  <2>1. /\ Len(c) = m + n
        /\ \A i \in 1..(m + n) : c[i] = IF i <= m THEN a[i] ELSE b[i - m]
    BY ConcatProperties
  <2>2. m \in Nat /\ n \in Nat
    OBVIOUS
  <2>3. \A i \in 1..m : c[i] = a[i]
    BY <2>1, <2>2
  <2>4. ASSUME NEW i \in 1..n PROVE c[m + i] = b[i]
    <3>1. m + i \in 1..(m + n) /\ ~(m + i <= m) /\ (m + i) - m = i
      BY <2>2
    <3> QED
      BY <2>1, <3>1
  <2> QED
    BY <2>1, <2>2, <2>3, <2>4
<1> HIDE DEF c, m, n
<1>2. ASSUME NEW i \in 1..Len(c), i > m PROVE i - m \in 1..n /\ c[i] = b[i - m]
  <2>1. i - m \in 1..n /\ m + (i - m) = i
    BY <1>1, <1>2
  <2> QED
    BY <1>1, <2>1
<1>3. m = Len(a) /\ n = Len(b)
  BY DEF m, n
<1>4. Mentions(c, sid) <=> Mentions(a, sid) \/ Mentions(b, sid)
  <2>1. ASSUME Mentions(c, sid) PROVE Mentions(a, sid) \/ Mentions(b, sid)
    <3>1. PICK i \in 1..Len(c) : c[i].sid = sid
      BY <2>1 DEF Mentions
    <3>2. CASE i <= m
      <4>1. i \in 1..Len(a) /\ a[i].sid = sid
        BY <1>1, <1>3, <3>1, <3>2
      <4> QED
        BY <4>1 DEF Mentions
    <3>3. CASE i > m
      <4>1. i - m \in 1..Len(b) /\ b[i - m].sid = sid
        BY <1>2, <1>3, <3>1, <3>3
      <4> QED
        BY <4>1 DEF Mentions
    <3> QED
      BY <1>1, <3>2, <3>3
  <2>2. ASSUME Mentions(a, sid) PROVE Mentions(c, sid)
    <3>1. PICK i \in 1..m : a[i].sid = sid
      BY <1>3, <2>2 DEF Mentions
    <3>2. i \in 1..Len(c) /\ c[i].sid = sid
      BY <1>1, <3>1
    <3> QED
      BY <3>2 DEF Mentions
  <2>3. ASSUME Mentions(b, sid) PROVE Mentions(c, sid)
    <3>1. PICK i \in 1..n : b[i].sid = sid
      BY <1>3, <2>3 DEF Mentions
    <3>2. m + i \in 1..Len(c) /\ c[m + i].sid = sid
      BY <1>1, <3>1
    <3> QED
      BY <3>2 DEF Mentions
  <2> QED
    BY <2>1, <2>2, <2>3
<1>5. ASSUME LastLeft(c, sid)
      PROVE  LastLeft(b, sid) \/ (~Mentions(b, sid) /\ LastLeft(a, sid))
  <2>1. PICK i \in 1..Len(c) :
          c[i].sid = sid /\ c[i].kind = "Left" /\ \A j \in (i + 1)..Len(c) : c[j].sid # sid
    BY <1>5 DEF LastLeft
  <2>2. CASE i <= m
    <3>1. i \in 1..m /\ a[i].sid = sid /\ a[i].kind = "Left"
      BY <1>1, <2>1, <2>2
    <3>2. ASSUME NEW j \in (i + 1)..m PROVE a[j].sid # sid
      <4>1. j \in 1..m /\ j \in (i + 1)..Len(c)
        BY <1>1, <2>2
      <4> QED
        BY <1>1, <2>1, <4>1
    <3>3. ASSUME NEW j \in 1..n PROVE b[j].sid # sid
      <4>1. m + j \in (i + 1)..Len(c)
        BY <1>1, <2>2
      <4> QED
        BY <1>1, <2>1, <4>1
    <3> QED
      BY <1>3, <3>1, <3>2, <3>3 DEF LastLeft, Mentions
  <2>3. CASE i > m
    <3>1. i - m \in 1..n /\ b[i - m].sid = sid /\ b[i - m].kind = "Left"
      BY <1>2, <2>1, <2>3
    <3>2. ASSUME NEW j \in ((i - m) + 1)..n PROVE b[j].sid # sid
      <4>1. m + j \in (i + 1)..Len(c) /\ j \in 1..n
        BY <1>1, <2>3
      <4> QED
        BY <1>1, <2>1, <4>1
    <3> QED
      BY <1>3, <3>1, <3>2 DEF LastLeft
  <2> QED
    BY <1>1, <2>2, <2>3
<1>6. ASSUME LastLeft(b, sid) PROVE LastLeft(c, sid)
  <2>1. PICK i \in 1..n :
          b[i].sid = sid /\ b[i].kind = "Left" /\ \A j \in (i + 1)..n : b[j].sid # sid
    BY <1>3, <1>6 DEF LastLeft
  <2>2. m + i \in 1..Len(c) /\ c[m + i].sid = sid /\ c[m + i].kind = "Left"
    BY <1>1, <2>1
  <2>3. ASSUME NEW j \in ((m + i) + 1)..Len(c) PROVE c[j].sid # sid
    <3>1. j \in 1..Len(c) /\ j > m /\ j - m \in (i + 1)..n
      BY <1>1
    <3> QED
      BY <1>2, <2>1, <3>1
  <2> QED
    BY <2>2, <2>3 DEF LastLeft
<1>7. ASSUME ~Mentions(b, sid), LastLeft(a, sid) PROVE LastLeft(c, sid)
  <2>1. PICK i \in 1..m :
          a[i].sid = sid /\ a[i].kind = "Left" /\ \A j \in (i + 1)..m : a[j].sid # sid
    BY <1>3, <1>7 DEF LastLeft
  <2>2. i \in 1..Len(c) /\ c[i].sid = sid /\ c[i].kind = "Left"
    BY <1>1, <2>1
  <2>3. ASSUME NEW j \in (i + 1)..Len(c) PROVE c[j].sid # sid
    <3>1. CASE j <= m
      <4>1. j \in (i + 1)..m /\ j \in 1..m
        BY <1>1, <3>1
      <4> QED
        BY <1>1, <2>1, <4>1
    <3>2. CASE j > m
      <4>1. j \in 1..Len(c)
        BY <1>1
      <4>2. j - m \in 1..Len(b) /\ c[j] = b[j - m]
        BY <1>2, <1>3, <3>2, <4>1
      <4> QED
        BY <1>7, <4>2 DEF Mentions
    <3> QED
      BY <1>1, <3>1, <3>2
  <2> QED
    BY <2>2, <2>3 DEF LastLeft
<1>8. /\ Mentions(c, sid) <=> Mentions(a, sid) \/ Mentions(b, sid)
      /\ LastLeft(c, sid) <=> LastLeft(b, sid) \/ (~Mentions(b, sid) /\ LastLeft(a, sid))
  BY <1>4, <1>5, <1>6, <1>7
<1> QED
  BY <1>8 DEF c

(* A single word speaks for itself.                                         *)
LEMMA SingleWord ==
  ASSUME NEW d \in Datagrams, NEW sid
  PROVE  /\ Mentions(<<d>>, sid) <=> d.sid = sid
         /\ LastLeft(<<d>>, sid) <=> d.sid = sid /\ d.kind = "Left"
<1>1. Len(<<d>>) = 1 /\ <<d>>[1] = d
  OBVIOUS
<1>2. Mentions(<<d>>, sid) <=> d.sid = sid
  BY <1>1 DEF Mentions
<1>3. LastLeft(<<d>>, sid) <=> d.sid = sid /\ d.kind = "Left"
  BY <1>1 DEF LastLeft
<1> QED
  BY <1>2, <1>3

(* Nothing on its way mentions nobody.                                      *)
LEMMA NoWord ==
  ASSUME NEW sid
  PROVE  ~Mentions(<<>>, sid) /\ ~LastLeft(<<>>, sid)
  BY DEF Mentions, LastLeft

(* What is handled next is the first word, and the others are the rest.     *)
LEMMA FirstWord ==
  ASSUME NEW q \in Seq(Datagrams), q # <<>>, NEW sid
  PROVE  /\ Mentions(q, sid) <=> Head(q).sid = sid \/ Mentions(Tail(q), sid)
         /\ LastLeft(q, sid) <=>
              \/ LastLeft(Tail(q), sid)
              \/ Head(q).sid = sid /\ Head(q).kind = "Left" /\ ~Mentions(Tail(q), sid)
<1>1. Head(q) \in Datagrams /\ Tail(q) \in Seq(Datagrams) /\ <<Head(q)>> \in Seq(Datagrams)
  OBVIOUS
<1>2. q = <<Head(q)>> \o Tail(q)
  BY <1>1
<1>3. /\ Mentions(<<Head(q)>> \o Tail(q), sid) <=>
           Mentions(<<Head(q)>>, sid) \/ Mentions(Tail(q), sid)
      /\ LastLeft(<<Head(q)>> \o Tail(q), sid) <=>
           LastLeft(Tail(q), sid) \/ (~Mentions(Tail(q), sid) /\ LastLeft(<<Head(q)>>, sid))
  BY <1>1, JoinedWords
<1>4. /\ Mentions(<<Head(q)>>, sid) <=> Head(q).sid = sid
      /\ LastLeft(<<Head(q)>>, sid) <=> Head(q).sid = sid /\ Head(q).kind = "Left"
  BY <1>1, SingleWord
<1> QED
  BY <1>2, <1>3, <1>4

(* What a newcomer's connect announces: that the session its UID led to     *)
(* left, and then that the new one is there.                                *)
LEMMA NewcomerWords ==
  ASSUME TypeOK, nextSid \in Sids, NEW p \in People, NEW uid \in UidsOf(p),
         byUid[uid] # nextSid, NEW sid \in Sids
  PROVE  /\ Mentions(Newcomer(p, uid), sid) <=> sid = nextSid \/ sid = byUid[uid]
         /\ LastLeft(Newcomer(p, uid), sid) <=> sid = byUid[uid]
<1> DEFINE o == Evicted(p, uid)
           new == New(p, uid)
<1>1. /\ new \in Sessions /\ Joined(new) \in Datagrams /\ <<Joined(new)>> \in Seq(Datagrams)
      /\ byUid[uid] # NoOne =>
           o \in Sessions /\ Left(o) \in Datagrams /\ <<Left(o)>> \in Seq(Datagrams)
  BY NewcomerTypes, AnnouncementTypes
<1>2. /\ Joined(new).sid = nextSid /\ Joined(new).kind = "Joined"
      /\ Left(o).sid = byUid[uid] /\ Left(o).kind = "Left"
  BY DEF Joined, Left, New, Evicted
<1>3. sid # NoOne
  BY DEF Sids, NoOne
<1> HIDE DEF o, new
<1>4. (Mentions(<<Joined(new)>>, sid) <=> sid = nextSid) /\ ~LastLeft(<<Joined(new)>>, sid)
  BY <1>1, <1>2, SingleWord
<1>5. CASE byUid[uid] = NoOne
  <2>1. Newcomer(p, uid) = <<>> \o <<Joined(new)>> /\ <<>> \in Seq(Datagrams)
    BY <1>5 DEF Newcomer, new
  <2>2. Newcomer(p, uid) = <<Joined(new)>>
    BY <1>1, <2>1
  <2> QED
    BY <1>3, <1>4, <1>5, <2>2
<1>6. CASE byUid[uid] # NoOne
  <2>1. Newcomer(p, uid) = <<Left(o)>> \o <<Joined(new)>>
    BY <1>6 DEF Newcomer, new, o
  <2>2. /\ Mentions(<<Left(o)>>, sid) <=> sid = byUid[uid]
        /\ LastLeft(<<Left(o)>>, sid) <=> sid = byUid[uid]
    BY <1>1, <1>2, <1>6, SingleWord
  <2>3. /\ Mentions(<<Left(o)>> \o <<Joined(new)>>, sid) <=>
             Mentions(<<Left(o)>>, sid) \/ Mentions(<<Joined(new)>>, sid)
        /\ LastLeft(<<Left(o)>> \o <<Joined(new)>>, sid) <=>
             \/ LastLeft(<<Joined(new)>>, sid)
             \/ ~Mentions(<<Joined(new)>>, sid) /\ LastLeft(<<Left(o)>>, sid)
    BY <1>1, <1>6, JoinedWords
  <2> QED
    BY <1>4, <2>1, <2>2, <2>3
<1> QED
  BY <1>5, <1>6

----------------------------------------------------------------------------
(* The relay's own order: ids are handed out once and tell the sessions     *)
(* apart, the sweep has at most one session in hand, which is registered no *)
(* more, and UIDs do as long as none had two sessions at once.              *)
Known == peers \cup list \cup sweeping

RelayInv ==
  /\ \A s, t \in Known : s.sid = t.sid => s = t
  /\ \A s \in Known : s.sid < nextSid
  /\ \A u \in AllUids : byUid[u] < nextSid
  /\ \A s, t \in sweeping : s = t
  /\ \A s \in sweeping : s \notin peers
  /\ \A s, t \in peers \cup list : s.uid = t.uid /\ s # t => s.uid \in shared

LEMMA StepRelay == Typed /\ RelayInv /\ [Next]_vars => RelayInv'
<1> SUFFICES ASSUME Typed, RelayInv, [Next]_vars PROVE RelayInv'
  OBVIOUS
<1>0. /\ TypeOK /\ peers \subseteq Sessions /\ list \subseteq Sessions /\ sweeping \subseteq Sessions
      /\ nextSid \in Nat /\ byUid \in [AllUids -> Sids \cup {NoOne}]
  BY DEF Typed, TypeOK
<1>1. CASE UNCHANGED <<peers, byUid, nextSid, list, sweeping, shared>>
  BY <1>1 DEF RelayInv, Known
<1>2. ASSUME NEW p \in People, NEW uid \in UidsOf(p), PeerJoins(p, uid) PROVE RelayInv'
  <2>1. /\ list = {} /\ list' = {} /\ nextSid \in Sids /\ nextSid' = nextSid + 1
        /\ peers' = Others(uid) \cup {New(p, uid)}
        /\ byUid' = [byUid EXCEPT ![uid] = nextSid]
        /\ SweepHolds(peers \ Others(uid))
        /\ shared' = shared \cup {s.uid : s \in {o \in Others(uid) : o.uid = uid}}
    BY <1>2, JoinsStep
  <2>2. /\ New(p, uid) \in Sessions /\ New(p, uid).sid = nextSid /\ New(p, uid).uid = uid
        /\ uid \in AllUids
    BY <1>0, <2>1, NewcomerTypes, RealUidType DEF New
  <2>3. Others(uid) \subseteq peers /\ \A s, t \in peers \ Others(uid) : s = t
    <3>1. \A s, t \in peers : s.sid = t.sid => s = t
      BY DEF RelayInv, Known
    <3> QED
      BY <3>1 DEF Others
  <2>4. /\ sweeping' \subseteq sweeping \cup peers /\ \A s, t \in sweeping' : s = t
        /\ \A s \in sweeping' : s \notin Others(uid)
    BY <2>1, <2>3 DEF SweepHolds, RelayInv
  <2>5. \A s \in peers \cup sweeping : s.sid < nextSid /\ s.sid \in Int
    BY <1>0 DEF RelayInv, Known, Sessions, Sids
  <2> DEFINE new == New(p, uid)
  <2> HIDE DEF new
  <2>6. new.sid = nextSid /\ new.uid = uid /\ peers' = Others(uid) \cup {new}
    BY <2>1, <2>2 DEF new
  <2>7. Known' \subseteq peers \cup sweeping \cup {new}
    BY <2>1, <2>3, <2>4, <2>6 DEF Known
  <2>8. \A s, t \in peers \cup sweeping : s.sid = t.sid => s = t
    BY DEF RelayInv, Known
  <2>9. \A s, t \in Known' : s.sid = t.sid => s = t
    BY <1>0, <2>5, <2>6, <2>7, <2>8
  <2>10. \A s \in Known' : s.sid < nextSid'
    BY <1>0, <2>1, <2>5, <2>6, <2>7
  <2>11. \A u \in AllUids : byUid'[u] < nextSid'
    <3>1. \A u \in AllUids : byUid[u] < nextSid /\ byUid[u] \in Int
      BY <1>0 DEF RelayInv, Sids, NoOne
    <3> QED
      BY <1>0, <2>1, <3>1
  <2>12. \A s \in sweeping' : s \notin peers'
    BY <1>0, <2>4, <2>5, <2>6
  <2>13. ASSUME NEW s \in peers', NEW x \in peers', s.uid = x.uid, s # x PROVE s.uid \in shared'
    <3>1. CASE s \in Others(uid) /\ x \in Others(uid)
      BY <2>1, <2>3, <2>13, <3>1 DEF RelayInv
    <3>2. CASE s = new \/ x = new
      <4>1. \E o \in Others(uid) : o.uid = uid /\ s.uid = uid
        BY <2>6, <2>13, <3>2
      <4> QED
        BY <2>1, <4>1
    <3> QED
      BY <2>6, <3>1, <3>2
  <2> QED
    BY <2>1, <2>4, <2>9, <2>10, <2>11, <2>12, <2>13 DEF RelayInv
<1>3. ASSUME NEW s \in peers, PeerLeaves(s) PROVE RelayInv'
  <2>1. /\ peers' = peers \ {s} /\ nextSid' = nextSid /\ list' = list /\ shared' = shared
        /\ byUid' = [byUid EXCEPT ![s.uid] = NoOne] /\ SweepHolds({s})
    BY <1>3 DEF PeerLeaves
  <2>2. Known' \subseteq Known /\ (\A x, y \in sweeping' : x = y) /\ \A x \in sweeping' : x \notin peers'
    BY <2>1 DEF Known, SweepHolds, RelayInv
  <2>3. \A u \in AllUids : byUid'[u] < nextSid'
    BY <1>0, <2>1 DEF RelayInv, NoOne, Typed, TypeOK
  <2> QED
    BY <2>1, <2>2, <2>3 DEF RelayInv
<1>4. ASSUME NEW s \in peers, SweepRemoves(s) PROVE RelayInv'
  <2>1. /\ peers' = peers \ {s} /\ sweeping' = {s}
        /\ UNCHANGED <<byUid, nextSid, list, shared>>
    BY <1>4 DEF SweepRemoves
  <2>2. Known' \subseteq Known
    BY <2>1 DEF Known
  <2> QED
    BY <2>1, <2>2 DEF RelayInv
<1>5. ASSUME NEW s \in sweeping, SweepAnnounces(s) PROVE RelayInv'
  <2>1. /\ sweeping' = {} /\ byUid' = [byUid EXCEPT ![s.uid] = NoOne]
        /\ UNCHANGED <<peers, nextSid, list, shared>>
    BY <1>5 DEF SweepAnnounces
  <2>2. Known' \subseteq Known
    BY <2>1 DEF Known
  <2>3. \A u \in AllUids : byUid'[u] < nextSid'
    BY <1>0, <2>1 DEF RelayInv, NoOne, Typed, TypeOK
  <2> QED
    BY <2>1, <2>2, <2>3 DEF RelayInv
<1>6. CASE RosterAnswer \/ \E d \in BOOLEAN : Connect(d)
  <2>1. list' = peers /\ UNCHANGED <<peers, byUid, nextSid, sweeping, shared>>
    BY <1>6 DEF RosterAnswer, Connect
  <2>2. Known' \subseteq Known /\ peers' \cup list' = peers
    BY <2>1 DEF Known
  <2> QED
    BY <2>1, <2>2 DEF RelayInv
<1>7. ASSUME NEW s \in list, AnnounceListed(s) PROVE RelayInv'
  <2>1. list' \subseteq list /\ UNCHANGED <<peers, byUid, nextSid, sweeping, shared>>
    BY <1>7 DEF AnnounceListed
  <2>2. Known' \subseteq Known
    BY <2>1 DEF Known
  <2> QED
    BY <2>1, <2>2 DEF RelayInv
<1>8. ASSUME NEW restart \in BOOLEAN, Disconnect(restart) PROVE RelayInv'
  <2>1. CASE restart
    <3>1. /\ list' = {} /\ peers' = {} /\ nextSid' = 1 /\ shared' = {} /\ sweeping' = {}
          /\ byUid' = [u \in AllUids |-> NoOne]
      BY <1>8, <2>1 DEF Disconnect
    <3> QED
      BY <3>1 DEF RelayInv, Known, NoOne
  <2>2. CASE ~restart
    <3>1. list' = {} /\ UNCHANGED <<peers, byUid, nextSid, sweeping, shared>>
      BY <1>8, <2>2 DEF Disconnect
    <3>2. Known' \subseteq Known
      BY <3>1 DEF Known
    <3> QED
      BY <3>1, <3>2 DEF RelayInv
  <2> QED
    BY <2>1, <2>2
<1>9. CASE JoinedSource \/ LeftSource \/ JoinedRoster \/ LeftRoster \/ RemoveAllSources \/ ClearRoster
  BY <1>1, <1>9 DEF JoinedSource, LeftSource, JoinedRoster, LeftRoster, RemoveAllSources,
     ClearRoster, relay, registry
<1>10. CASE SenderThread \/ UNCHANGED vars
  BY <1>1, <1>10 DEF SenderThread, SetSource, SilenceSource, BeginSilence, EndSnapshot,
     SkipSnapshot, relay, registry, vars
<1>11. ASSUME NEW i \in DOMAIN net, Lose(i) \/ Overtake(i) PROVE RelayInv'
  BY <1>1, <1>11 DEF Lose, Overtake, registry
<1>12. ASSUME NEW heard \in SUBSET People, NEW known \in SUBSET heard,
              BeginSnapshot(heard, known)
       PROVE  RelayInv'
  BY <1>1, <1>12 DEF BeginSnapshot, relay, registry
<1> QED
  BY <1>2, <1>3, <1>4, <1>5, <1>6, <1>7, <1>8, <1>9, <1>10, <1>11, <1>12
     DEF Next, NetworkThread, AnnounceNext, Environment, Faults

(* Nothing is under way while there is no connection, the two last steps of *)
(* a lost connection come before the next, and a player registers under one *)
(* of its own UIDs.                                                         *)
OnlineInv ==
  /\ ~connected => net = <<>> /\ list = {}
  /\ connected => netStep.kind \notin {"lostSources", "lostRoster"}
  /\ \A s \in peers : s.uid \in UidsOf(s.name)

LEMMA StepOnline == Typed /\ OnlineInv /\ [Next]_vars => OnlineInv'
<1> SUFFICES ASSUME Typed, OnlineInv, [Next]_vars PROVE OnlineInv'
  OBVIOUS
<1>0. net \in Seq(Datagrams)
  BY DEF Typed, TypeOK
<1>1. CASE JoinedSource \/ LeftSource
  <2>1. /\ net # <<>> /\ netStep' = Head(net) /\ peers' = peers /\ connected' = connected
    BY <1>1 DEF JoinedSource, LeftSource, registry
  <2>2. netStep'.kind \in {"Joined", "Left"}
    BY <1>0, <2>1, HeadTail, KindOfDatagram
  <2> QED
    BY <2>1, <2>2 DEF OnlineInv
<1>2. CASE JoinedRoster \/ LeftRoster \/ ClearRoster
  BY <1>2 DEF JoinedRoster, LeftRoster, ClearRoster, Idle, relay, registry, OnlineInv
<1>3. CASE RemoveAllSources
  BY <1>3 DEF RemoveAllSources, relay, registry, OnlineInv
<1>4. ASSUME NEW d \in BOOLEAN, Connect(d) PROVE OnlineInv'
  BY <1>4 DEF Connect, Idle, OnlineInv
<1>5. CASE RosterAnswer \/ AnnounceNext
  <2>1. connected /\ UNCHANGED <<peers, connected, netStep>>
    BY <1>5 DEF RosterAnswer, AnnounceNext, AnnounceListed, client, OnlineInv
  <2> QED
    BY <2>1 DEF OnlineInv
<1>6. CASE SenderThread \/ UNCHANGED vars
  <2>1. UNCHANGED <<peers, net, list, connected, netStep>>
    BY <1>6 DEF SenderThread, SetSource, SilenceSource, BeginSilence, EndSnapshot, SkipSnapshot,
                relay, registry, vars
  <2> QED
    BY <2>1 DEF OnlineInv
<1>7. ASSUME NEW q \in People, NEW uid \in UidsOf(q), PeerJoins(q, uid) PROVE OnlineInv'
  <2>1. /\ peers' = Others(uid) \cup {New(q, uid)} /\ list' = {}
        /\ connected' = connected /\ netStep' = netStep /\ (~connected => net' = net)
    BY <1>7, JoinsStep DEF Announce
  <2>2. New(q, uid).uid \in UidsOf(New(q, uid).name) /\ Others(uid) \subseteq peers
    BY DEF New, Others
  <2> HIDE DEF New, Others
  <2> QED
    BY <2>1, <2>2 DEF OnlineInv
<1>8. ASSUME NEW s, PeerLeaves(s) \/ SweepRemoves(s) \/ SweepAnnounces(s) PROVE OnlineInv'
  <2>1. /\ peers' \subseteq peers /\ list' = list /\ (~connected => net' = net)
        /\ UNCHANGED <<connected, netStep>>
    BY <1>8 DEF PeerLeaves, SweepRemoves, SweepAnnounces, Announce, client
  <2> QED
    BY <2>1 DEF OnlineInv
<1>9. ASSUME NEW i \in DOMAIN net, Lose(i) \/ Overtake(i) PROVE OnlineInv'
  <2>1. net # <<>>
    BY <1>0
  <2>2. UNCHANGED <<peers, connected, netStep>>
    BY <1>9 DEF Lose, Overtake, registry
  <2> QED
    BY <2>1, <2>2 DEF OnlineInv
<1>10. ASSUME NEW heard \in SUBSET People, NEW known \in SUBSET heard, BeginSnapshot(heard, known)
       PROVE  OnlineInv'
  BY <1>10 DEF BeginSnapshot, relay, registry, OnlineInv
<1>11. ASSUME NEW restart \in BOOLEAN, Disconnect(restart) PROVE OnlineInv'
  <2>1. ~connected' /\ net' = <<>> /\ list' = {} /\ peers' \subseteq peers
    BY <1>11 DEF Disconnect
  <2> QED
    BY <2>1 DEF OnlineInv
<1> QED
  BY <1>1, <1>2, <1>3, <1>4, <1>5, <1>6, <1>7, <1>8, <1>9, <1>10, <1>11
     DEF Next, NetworkThread, Environment, Faults

(* The session will have a source once everything on its way, and before    *)
(* that everything still to announce, is handled.                           *)
WillHaveSource(sid) ==
  ~LastLeft(net, sid) /\ (Mentions(net, sid) \/ sid \in sources)

Present(sid) == \E s \in peers : s.sid = sid
Listed(sid) == \E s \in list : s.sid = sid
InHand(sid) == \E s \in sweeping : s.sid = sid

(* As long as nothing was lost or overtaken, what is on its way and what is *)
(* still to announce make up the difference between relay and mixer.        *)
Follows(sid) ==
  /\ Present(sid) => Listed(sid) \/ WillHaveSource(sid)
  /\ Listed(sid) \/ WillHaveSource(sid) => Present(sid) \/ InHand(sid) \/ sid \in crossed

FollowInv ==
  /\ ~connected /\ netStep.kind # "lostSources" => sources = {}
  /\ connected /\ ~harmed => \A sid \in Sids : Follows(sid)

(* What a datagram more on its way does to what will be.                    *)
LEMMA SentWords ==
  ASSUME Typed, NEW b \in Seq(Datagrams), net' = net \o b, sources' = sources, NEW sid
  PROVE  WillHaveSource(sid)' <=>
           /\ ~LastLeft(b, sid)
           /\ Mentions(b, sid) \/ WillHaveSource(sid)
<1>1. /\ Mentions(net \o b, sid) <=> Mentions(net, sid) \/ Mentions(b, sid)
      /\ LastLeft(net \o b, sid) <=>
           LastLeft(b, sid) \/ (~Mentions(b, sid) /\ LastLeft(net, sid))
  BY JoinedWords DEF Typed, TypeOK
<1>2. /\ Mentions(net, sid)' <=> Mentions(net \o b, sid)
      /\ LastLeft(net, sid)' <=> LastLeft(net \o b, sid)
  BY DEF Mentions, LastLeft
<1>3. LastLeft(b, sid) => Mentions(b, sid)
  BY DEF LastLeft, Mentions
<1> QED
  BY <1>1, <1>2, <1>3 DEF WillHaveSource

(* Every step keeps what is under way to the difference.                    *)
LEMMA StepFollow == Typed /\ RelayInv /\ OnlineInv /\ FollowInv /\ [Next]_vars => FollowInv'
<1> SUFFICES ASSUME Typed, RelayInv, OnlineInv, FollowInv, [Next]_vars PROVE FollowInv'
  OBVIOUS
<1>0. TypeOK /\ net \in Seq(Datagrams) /\ list \subseteq Sessions /\ peers \subseteq Sessions
      /\ sweeping \subseteq Sessions
  BY DEF Typed, TypeOK
<1>1. CASE JoinedSource \/ LeftSource
  <2>1. /\ net # <<>> /\ net' = Tail(net)
        /\ UNCHANGED <<peers, list, sweeping, crossed, connected, harmed>>
        /\ \/ Head(net).kind = "Joined" /\ sources' = sources \cup {Head(net).sid}
           \/ Head(net).kind = "Left" /\ sources' = sources \ {Head(net).sid}
    BY <1>1 DEF JoinedSource, LeftSource, registry
  <2>2. connected
    BY <2>1 DEF OnlineInv
  <2>3. ASSUME NEW sid \in Sids PROVE WillHaveSource(sid)' <=> WillHaveSource(sid)
    <3>1. /\ Mentions(net, sid) <=> Head(net).sid = sid \/ Mentions(Tail(net), sid)
          /\ LastLeft(net, sid) <=>
               \/ LastLeft(Tail(net), sid)
               \/ Head(net).sid = sid /\ Head(net).kind = "Left" /\ ~Mentions(Tail(net), sid)
      BY <1>0, <2>1, FirstWord
    <3>2. /\ Mentions(net, sid)' <=> Mentions(Tail(net), sid)
          /\ LastLeft(net, sid)' <=> LastLeft(Tail(net), sid)
      BY <2>1 DEF Mentions, LastLeft
    <3>3. LastLeft(Tail(net), sid) => Mentions(Tail(net), sid)
      BY DEF LastLeft, Mentions
    <3> QED
      BY <2>1, <3>1, <3>2, <3>3 DEF WillHaveSource
  <2> QED
    BY <2>1, <2>2, <2>3 DEF FollowInv, Follows, Present, Listed, InHand
<1>2. ASSUME UNCHANGED <<peers, list, sweeping, crossed, net, sources, connected, harmed>>,
             netStep'.kind = "lostSources" \/ netStep'.kind = netStep.kind \/ connected
      PROVE  FollowInv'
  <2>1. ASSUME NEW sid PROVE Follows(sid)' <=> Follows(sid)
    BY <1>2 DEF Follows, WillHaveSource, Mentions, LastLeft, Present, Listed, InHand
  <2> QED
    BY <1>2, <2>1 DEF FollowInv
<1>3. CASE JoinedRoster \/ LeftRoster \/ ClearRoster
  <2>1. netStep.kind # "lostSources"
    BY <1>3 DEF JoinedRoster, LeftRoster, ClearRoster
  <2>2. UNCHANGED <<peers, list, sweeping, crossed, net, sources, connected, harmed>>
    BY <1>3 DEF JoinedRoster, LeftRoster, ClearRoster, relay, registry, mixer
  <2>3. ASSUME NEW sid PROVE Follows(sid)' <=> Follows(sid)
    BY <2>2 DEF Follows, WillHaveSource, Mentions, LastLeft, Present, Listed, InHand
  <2> QED
    BY <2>1, <2>2, <2>3 DEF FollowInv
<1>4. CASE RemoveAllSources
  <2>1. sources' = {} /\ ~connected' /\ netStep'.kind = "lostRoster"
    BY <1>4 DEF RemoveAllSources, OnlineInv
  <2> QED
    BY <2>1 DEF FollowInv
<1>5. ASSUME NEW d \in BOOLEAN, Connect(d) PROVE FollowInv'
  <2>1. /\ connected' /\ list' = peers /\ peers' = peers /\ net' = <<>> /\ sources' = {}
    BY <1>5 DEF Connect, OnlineInv, FollowInv, Idle
  <2>2. ASSUME NEW sid PROVE Follows(sid)'
    <3>1. ~WillHaveSource(sid)'
      BY <2>1, NoWord DEF WillHaveSource, Mentions, LastLeft
    <3> QED
      BY <2>1, <3>1 DEF Follows, Present, Listed
  <2> QED
    BY <2>1, <2>2 DEF FollowInv
<1>6. CASE RosterAnswer
  <2>1. /\ connected /\ list = {} /\ list' = peers
        /\ UNCHANGED <<peers, sweeping, crossed, net, sources, connected, harmed>>
    BY <1>6 DEF RosterAnswer, client, mixer
  <2>2. ASSUME NEW sid, Follows(sid) PROVE Follows(sid)'
    BY <2>1, <2>2 DEF Follows, WillHaveSource, Mentions, LastLeft, Present, Listed, InHand
  <2> QED
    BY <2>1, <2>2 DEF FollowInv
<1>7. ASSUME NEW s \in list, AnnounceListed(s) PROVE FollowInv'
  <2>1. /\ connected /\ list' = list \ {s} /\ net' = net \o <<Joined(s)>>
        /\ UNCHANGED <<peers, sweeping, crossed, sources, connected, harmed>>
    BY <1>0, <1>7, AnnouncementTypes, AppendType
       DEF AnnounceListed, client, mixer, OnlineInv
  <2>2. /\ Joined(s) \in Datagrams /\ <<Joined(s)>> \in Seq(Datagrams)
        /\ Joined(s).sid = s.sid /\ Joined(s).kind = "Joined"
    BY <1>0, AnnouncementTypes DEF Joined
  <2>3. ASSUME NEW sid, Follows(sid) PROVE Follows(sid)'
    <3>1. WillHaveSource(sid)' <=> s.sid = sid \/ WillHaveSource(sid)
      BY <2>1, <2>2, SentWords, SingleWord
    <3>2. Listed(sid) <=> s.sid = sid \/ Listed(sid)'
      BY <2>1 DEF Listed
    <3>3. /\ Present(sid)' <=> Present(sid)
          /\ InHand(sid)' <=> InHand(sid)
      BY <2>1 DEF Present, InHand
    <3> QED
      BY <2>1, <2>3, <3>1, <3>2, <3>3 DEF Follows
  <2> QED
    BY <2>1, <2>3 DEF FollowInv
<1>8. ASSUME NEW p \in People, NEW uid \in UidsOf(p), PeerJoins(p, uid) PROVE FollowInv'
  <2>1. /\ list = {} /\ list' = {} /\ nextSid \in Sids
        /\ peers' = Others(uid) \cup {New(p, uid)}
        /\ SweepHolds(peers \ Others(uid))
        /\ net' = Announce(Newcomer(p, uid))
        /\ UNCHANGED <<crossed, connected, netStep, harmed, sources>>
    BY <1>8, JoinsStep DEF mixer
  <2>2. /\ New(p, uid).sid = nextSid /\ Newcomer(p, uid) \in Seq(Datagrams)
        /\ byUid[uid] \in Int /\ byUid[uid] < nextSid /\ nextSid \in Int
    <3>1. uid \in AllUids
      BY RealUidType
    <3>2. byUid[uid] \in Int /\ byUid[uid] < nextSid
      BY <1>0, <3>1 DEF RelayInv, TypeOK, Sids, NoOne
    <3>3. Newcomer(p, uid) \in Seq(Datagrams)
      BY <1>0, <2>1, NewcomerTypes
    <3>4. New(p, uid).sid = nextSid /\ nextSid \in Int
      BY <2>1 DEF New, Sids
    <3> QED
      BY <3>2, <3>3, <3>4
  <2>3. CASE ~connected
    BY <2>1, <2>3 DEF FollowInv
  <2>4. CASE connected
    <3>1. net' = net \o Newcomer(p, uid)
      BY <2>1, <2>4 DEF Announce
    <3>2. ASSUME NEW sid \in Sids, Follows(sid) PROVE Follows(sid)'
      <4>1. WillHaveSource(sid)' <=>
              /\ sid # byUid[uid]
              /\ sid = nextSid \/ WillHaveSource(sid)
        <5>1. /\ Mentions(Newcomer(p, uid), sid) <=> sid = nextSid \/ sid = byUid[uid]
              /\ LastLeft(Newcomer(p, uid), sid) <=> sid = byUid[uid]
          BY <1>0, <2>1, <2>2, NewcomerWords
        <5>2. WillHaveSource(sid)' <=>
                /\ ~LastLeft(Newcomer(p, uid), sid)
                /\ Mentions(Newcomer(p, uid), sid) \/ WillHaveSource(sid)
          BY <2>1, <2>2, <3>1, SentWords
        <5> QED
          BY <5>1, <5>2
      <4>2. Present(sid)' <=> sid = nextSid \/ (Present(sid) /\ sid # byUid[uid])
        <5> DEFINE new == New(p, uid)
        <5> HIDE DEF new
        <5>1. new.sid = nextSid /\ peers' = {s \in peers : s.sid # byUid[uid]} \cup {new}
          BY <2>1, <2>2 DEF new, Others
        <5> QED
          BY <2>2, <5>1 DEF Present
      <4>3. ~Listed(sid) /\ ~Listed(sid)' /\ (InHand(sid) => InHand(sid)')
        BY <2>1 DEF Listed, InHand, SweepHolds
      <4> QED
        BY <2>1, <2>2, <3>2, <4>1, <4>2, <4>3 DEF Follows
    <3> QED
      BY <2>1, <2>4, <3>2 DEF FollowInv
  <2> QED
    BY <2>3, <2>4
<1>9. ASSUME NEW s \in peers \cup sweeping, connected, net' = Announce(<<Left(s)>>), sources' = sources
      PROVE  \A sid : WillHaveSource(sid)' <=> s.sid # sid /\ WillHaveSource(sid)
  <2>1. net' = net \o <<Left(s)>>
    BY <1>9 DEF Announce
  <2>2. /\ Left(s) \in Datagrams /\ <<Left(s)>> \in Seq(Datagrams)
        /\ Left(s).sid = s.sid /\ Left(s).kind = "Left"
    BY <1>0, AnnouncementTypes DEF Left
  <2> QED
    BY <1>9, <2>1, <2>2, SentWords, SingleWord
<1>10. ASSUME NEW s \in peers, PeerLeaves(s) PROVE FollowInv'
  <2>1. /\ peers' = peers \ {s} /\ list = {} /\ list' = list /\ SweepHolds({s})
        /\ net' = Announce(<<Left(s)>>)
        /\ UNCHANGED <<sources, crossed, connected, netStep, harmed>>
    BY <1>10 DEF PeerLeaves, client, mixer
  <2>2. ASSUME NEW sid, connected, Follows(sid) PROVE Follows(sid)'
    <3>1. WillHaveSource(sid)' <=> s.sid # sid /\ WillHaveSource(sid)
      BY <1>9, <2>1, <2>2
    <3>2. Present(sid)' <=> Present(sid) /\ s.sid # sid
      BY <2>1 DEF Present, RelayInv, Known
    <3>3. ~Listed(sid) /\ ~Listed(sid)' /\ (InHand(sid) => InHand(sid)')
      BY <2>1 DEF Listed, InHand, SweepHolds
    <3> QED
      BY <2>1, <2>2, <3>1, <3>2, <3>3 DEF Follows
  <2> QED
    BY <2>1, <2>2 DEF FollowInv
<1>11. ASSUME NEW s \in peers, SweepRemoves(s) PROVE FollowInv'
  <2>1. /\ sweeping = {} /\ sweeping' = {s} /\ peers' = peers \ {s}
        /\ UNCHANGED <<list, net, sources, crossed, connected, netStep, harmed>>
    BY <1>11 DEF SweepRemoves, client, mixer
  <2>2. ASSUME NEW sid, Follows(sid) PROVE Follows(sid)'
    <3>1. /\ WillHaveSource(sid)' <=> WillHaveSource(sid)
          /\ Listed(sid)' <=> Listed(sid)
      BY <2>1 DEF WillHaveSource, Mentions, LastLeft, Listed
    <3>2. (Present(sid)' => Present(sid)) /\ (Present(sid) => Present(sid)' \/ InHand(sid)')
          /\ ~InHand(sid)
      BY <2>1 DEF Present, InHand
    <3> QED
      BY <2>1, <2>2, <3>1, <3>2 DEF Follows
  <2> QED
    BY <2>1, <2>2 DEF FollowInv
<1>12. ASSUME NEW s \in sweeping, SweepAnnounces(s) PROVE FollowInv'
  <2>1. /\ sweeping' = {} /\ crossed' = crossed \cup {x.sid : x \in list \cap {s}}
        /\ net' = Announce(<<Left(s)>>)
        /\ UNCHANGED <<peers, list, sources, connected, netStep, harmed>>
    BY <1>12 DEF SweepAnnounces, client, mixer
  <2>2. /\ \A x \in sweeping : x = s
        /\ \A x \in peers : x.sid # s.sid
        /\ \A x \in list : x.sid = s.sid => x = s
    BY DEF RelayInv, Known
  <2>3. ASSUME NEW sid, connected, Follows(sid) PROVE Follows(sid)'
    <3>1. WillHaveSource(sid)' <=> s.sid # sid /\ WillHaveSource(sid)
      BY <1>9, <2>1, <2>3
    <3>2. /\ Present(sid)' <=> Present(sid)
          /\ Listed(sid)' <=> Listed(sid)
          /\ InHand(sid) <=> s.sid = sid
          /\ Present(sid) => s.sid # sid
      BY <2>1, <2>2 DEF Present, Listed, InHand
    <3>3. sid \in crossed => sid \in crossed'
      BY <2>1
    <3>4. Listed(sid) /\ s.sid = sid => sid \in crossed'
      BY <2>1, <2>2 DEF Listed
    <3> QED
      BY <2>3, <3>1, <3>2, <3>3, <3>4 DEF Follows
  <2> QED
    BY <2>1, <2>3 DEF FollowInv
<1>13. ASSUME NEW i \in DOMAIN net, Lose(i) \/ Overtake(i) PROVE FollowInv'
  <2>1. harmed' /\ connected' = connected /\ netStep' = netStep /\ sources' = sources
    BY <1>13 DEF Lose, Overtake, mixer
  <2> QED
    BY <2>1 DEF FollowInv
<1>14. ASSUME NEW restart \in BOOLEAN, Disconnect(restart) PROVE FollowInv'
  <2>1. ~connected' /\ netStep'.kind = "lostSources"
    BY <1>14 DEF Disconnect
  <2> QED
    BY <2>1 DEF FollowInv
<1>15. CASE SenderThread
  <2>1. UNCHANGED <<peers, list, sweeping, crossed, net, sources, connected, harmed, netStep>>
    BY <1>15 DEF SenderThread, SetSource, SilenceSource, BeginSilence, EndSnapshot, SkipSnapshot,
                 relay, registry, mixer, vars
  <2> QED
    BY <1>2, <2>1
<1>16. ASSUME NEW heard \in SUBSET People, NEW known \in SUBSET heard,
              BeginSnapshot(heard, known)
       PROVE  FollowInv'
  BY <1>2, <1>16 DEF BeginSnapshot, relay, registry, mixer
<1>17. CASE UNCHANGED vars
  BY <1>2, <1>17 DEF vars
<1> QED
  BY <1>1, <1>3, <1>4, <1>5, <1>6, <1>7, <1>8, <1>10, <1>11, <1>12, <1>13, <1>14, <1>15,
     <1>16, <1>17 DEF Next, NetworkThread, AnnounceNext, Environment, Faults

(* The roster.  A word on its way settles where the UID of a session leads  *)
(* to, or upsets it.                                                        *)
Settles(d, s) == d.kind = "Joined" /\ d.uid = s.uid /\ d.sid = s.sid

Upsets(d, s) ==
  \/ d.kind = "Joined" /\ d.uid = s.uid /\ d.sid # s.sid
  \/ d.kind = "Left" /\ d.sid = s.sid

(* The last word about a session settles it, where now says whether it is   *)
(* settled before the first one.                                            *)
LastSettles(q, s, now) ==
  \/ \E i \in 1..Len(q) : Settles(q[i], s) /\ \A j \in (i + 1)..Len(q) : ~Upsets(q[j], s)
  \/ now /\ \A j \in 1..Len(q) : ~Upsets(q[j], s)

Settled(s) ==
  (uidToSession[s.uid] = s.sid \/ Settles(netStep, s)) /\ ~Upsets(netStep, s)

(* As long as nothing was lost or overtaken every session of the relay is   *)
(* found under its UID once everything under way is handled, unless the UID *)
(* had two at once.                                                         *)
LeadsInv ==
  connected /\ ~harmed =>
    \A s \in peers : s.uid \notin shared => s \in list \/ LastSettles(net, s, Settled(s))

(* What does not upset a session may follow.                                *)
LEMMA HarmlessWords ==
  ASSUME NEW a \in Seq(Datagrams), NEW b \in Seq(Datagrams), NEW s, NEW now \in BOOLEAN,
         LastSettles(a, s, now), \A j \in 1..Len(b) : ~Upsets(b[j], s)
  PROVE  LastSettles(a \o b, s, now)
<1> DEFINE c == a \o b
           m == Len(a)
           n == Len(b)
<1>1. /\ m \in Nat /\ n \in Nat /\ Len(c) = m + n
      /\ \A i \in 1..(m + n) : c[i] = IF i <= m THEN a[i] ELSE b[i - m]
  BY ConcatProperties
<1>2. m = Len(a) /\ n = Len(b)
  OBVIOUS
<1> HIDE DEF c, m, n
<1>3. ASSUME NEW j \in 1..Len(c), j > m PROVE ~Upsets(c[j], s)
  <2>1. j - m \in 1..n /\ ~(j <= m) /\ j \in 1..(m + n)
    BY <1>1, <1>3
  <2>2. c[j] = b[j - m]
    BY <1>1, <2>1
  <2> QED
    BY <1>2, <2>1, <2>2
<1>4. \A j \in 1..m : j \in 1..Len(c) /\ c[j] = a[j]
  BY <1>1
<1>5. ASSUME NEW i \in 1..m, Settles(a[i], s), \A j \in (i + 1)..m : ~Upsets(a[j], s)
      PROVE  LastSettles(c, s, now)
  <2>1. i \in 1..Len(c) /\ Settles(c[i], s)
    BY <1>4, <1>5
  <2>2. ASSUME NEW j \in (i + 1)..Len(c) PROVE ~Upsets(c[j], s)
    <3>1. j \in Int /\ j \in 1..Len(c)
      BY <1>1
    <3>2. CASE j <= m
      <4>1. j \in (i + 1)..m /\ j \in 1..m
        BY <1>1, <3>1, <3>2
      <4> QED
        BY <1>4, <1>5, <4>1
    <3>3. CASE j > m
      BY <1>3, <3>1, <3>3
    <3> QED
      BY <1>1, <3>1, <3>2, <3>3
  <2> QED
    BY <2>1, <2>2 DEF LastSettles
<1>6. ASSUME now, \A j \in 1..m : ~Upsets(a[j], s) PROVE LastSettles(c, s, now)
  <2>1. ASSUME NEW j \in 1..Len(c) PROVE ~Upsets(c[j], s)
    <3>1. CASE j <= m
      <4>1. j \in 1..m
        BY <1>1, <3>1
      <4> QED
        BY <1>4, <1>6, <4>1
    <3>2. CASE j > m
      BY <1>3, <3>2
    <3> QED
      BY <1>1, <3>1, <3>2
  <2> QED
    BY <1>6, <2>1 DEF LastSettles
<1>7. LastSettles(c, s, now)
  BY <1>2, <1>5, <1>6 DEF LastSettles
<1> QED
  BY <1>7 DEF c

(* Handling the first word settles a session or leaves it as it is.         *)
LEMMA HandledWord ==
  ASSUME NEW q \in Seq(Datagrams), q # <<>>, NEW s, NEW now \in BOOLEAN,
         LastSettles(q, s, now), NEW then \in BOOLEAN,
         Settles(Head(q), s) => then, now /\ ~Upsets(Head(q), s) => then
  PROVE  LastSettles(Tail(q), s, then)
<1> DEFINE r == Tail(q)
           n == Len(q)
<1>1. /\ n \in Nat \ {0} /\ Len(r) = n - 1 /\ Head(q) = q[1]
      /\ \A i \in 1..Len(r) : r[i] = q[i + 1]
  OBVIOUS
<1>2. n = Len(q)
  OBVIOUS
<1> HIDE DEF r, n
<1>3. \A i \in 1..Len(r) : i + 1 \in 2..n
  BY <1>1
<1>4. ASSUME NEW i \in 1..n, Settles(q[i], s), \A j \in (i + 1)..n : ~Upsets(q[j], s)
      PROVE  LastSettles(r, s, then)
  <2>1. CASE i = 1
    <3>1. then
      BY <1>1, <1>4, <2>1
    <3>2. \A j \in 1..Len(r) : ~Upsets(r[j], s)
      BY <1>1, <1>3, <1>4, <2>1
    <3> QED
      BY <3>1, <3>2 DEF LastSettles
  <2>2. CASE i # 1
    <3>1. i - 1 \in 1..Len(r) /\ (i - 1) + 1 = i
      BY <1>1, <2>2
    <3>2. r[i - 1] = q[i]
      BY <1>1, <3>1
    <3>3. Settles(r[i - 1], s)
      BY <1>4, <3>2
    <3>4. ASSUME NEW j \in ((i - 1) + 1)..Len(r) PROVE ~Upsets(r[j], s)
      <4>1. j \in 1..Len(r) /\ j + 1 \in (i + 1)..n
        BY <1>1, <2>2
      <4> QED
        BY <1>1, <1>4, <4>1
    <3> QED
      BY <3>1, <3>3, <3>4 DEF LastSettles
  <2> QED
    BY <2>1, <2>2
<1>5. ASSUME now, \A j \in 1..n : ~Upsets(q[j], s) PROVE LastSettles(r, s, then)
  <2>1. 1 \in 1..n
    BY <1>1
  <2>2. then
    BY <1>1, <1>5, <2>1
  <2>3. \A j \in 1..Len(r) : ~Upsets(r[j], s)
    <3>1. \A j \in 1..Len(r) : j + 1 \in 1..n
      BY <1>1
    <3> QED
      BY <1>1, <1>5, <3>1
  <2> QED
    BY <2>2, <2>3 DEF LastSettles
<1>6. LastSettles(r, s, then)
  BY <1>2, <1>4, <1>5 DEF LastSettles
<1> QED
  BY <1>6 DEF r

(* A last word that settles a session settles it.                           *)
LEMMA LastWord ==
  ASSUME NEW a \in Seq(Datagrams), NEW d \in Datagrams, NEW s, Settles(d, s), NEW now
  PROVE  LastSettles(a \o <<d>>, s, now)
<1> DEFINE c == a \o <<d>>
<1>1. Len(c) = Len(a) + 1 /\ c[Len(c)] = d /\ Len(c) \in Nat \ {0}
  OBVIOUS
<1> HIDE DEF c
<1>2. Len(c) \in 1..Len(c) /\ \A j \in (Len(c) + 1)..Len(c) : FALSE
  BY <1>1
<1>3. LastSettles(c, s, now)
  BY <1>1, <1>2 DEF LastSettles
<1> QED
  BY <1>3 DEF c

LEMMA HarmlessWord ==
  ASSUME NEW a \in Seq(Datagrams), NEW d \in Datagrams, NEW s, NEW now \in BOOLEAN,
         LastSettles(a, s, now), ~Upsets(d, s)
  PROVE  LastSettles(a \o <<d>>, s, now)
<1>1. <<d>> \in Seq(Datagrams) /\ Len(<<d>>) = 1 /\ <<d>>[1] = d
  OBVIOUS
<1>2. \A j \in 1..Len(<<d>>) : ~Upsets(<<d>>[j], s)
  BY <1>1
<1> QED
  BY <1>1, <1>2, HarmlessWords

(* A newcomer's connect settles the newcomer, and upsets nobody else whose  *)
(* UID was never shared.                                                    *)
LEMMA NewcomerSettles ==
  ASSUME TypeOK, NEW q \in Seq(Datagrams), nextSid \in Sids, NEW p \in People,
         NEW uid \in UidsOf(p), NEW now \in BOOLEAN
  PROVE  /\ LastSettles(q \o Newcomer(p, uid), New(p, uid), now)
         /\ \A s \in Others(uid) : s.uid # uid /\ LastSettles(q, s, now)
              => LastSettles(q \o Newcomer(p, uid), s, now)
<1> DEFINE o == Evicted(p, uid)
           new == New(p, uid)
           dropped == IF byUid[uid] = NoOne THEN <<>> ELSE <<Left(o)>>
           r == q \o dropped
<1>1. /\ new \in Sessions /\ Joined(new) \in Datagrams /\ <<Joined(new)>> \in Seq(Datagrams)
      /\ byUid[uid] # NoOne => Left(o) \in Datagrams /\ <<Left(o)>> \in Seq(Datagrams)
  BY NewcomerTypes, AnnouncementTypes
<1>2. /\ Joined(new).sid = new.sid /\ Joined(new).uid = new.uid /\ new.uid = uid
      /\ Joined(new).kind = "Joined" /\ Left(o).sid = byUid[uid] /\ Left(o).kind = "Left"
  BY DEF Joined, Left, New, Evicted
<1>3. Newcomer(p, uid) = dropped \o <<Joined(new)>>
  BY DEF Newcomer
<1> HIDE DEF o, new
<1>4. dropped \in Seq(Datagrams)
  BY <1>1
<1>5. \A s \in Others(uid) : LastSettles(q, s, now) => LastSettles(r, s, now)
  <2>1. CASE byUid[uid] = NoOne
    <3>1. r = q
      BY <2>1
    <3> QED
      BY <3>1
  <2>2. CASE byUid[uid] # NoOne
    <3>1. r = q \o <<Left(o)>>
      BY <2>2
    <3>2. \A s \in Others(uid) : ~Upsets(Left(o), s)
      BY <1>2 DEF Upsets, Others
    <3> HIDE DEF r
    <3> QED
      BY <1>1, <2>2, <3>1, <3>2, HarmlessWord
  <2> QED
    BY <2>1, <2>2
<1> HIDE DEF dropped
<1>6. r \in Seq(Datagrams)
  BY <1>4, ConcatProperties
<1>7. q \o Newcomer(p, uid) = r \o <<Joined(new)>>
  <2>1. q \o (dropped \o <<Joined(new)>>) = (q \o dropped) \o <<Joined(new)>>
    BY <1>1, <1>4, ConcatAssociative
  <2> QED
    BY <1>3, <2>1
<1> HIDE DEF r
<1>8. LastSettles(r \o <<Joined(new)>>, new, now)
  BY <1>1, <1>2, <1>6, LastWord DEF Settles
<1>9. ASSUME NEW s \in Others(uid), s.uid # uid, LastSettles(q, s, now)
      PROVE  LastSettles(r \o <<Joined(new)>>, s, now)
  <2>1. ~Upsets(Joined(new), s) /\ LastSettles(r, s, now)
    BY <1>2, <1>5, <1>9 DEF Upsets
  <2> QED
    BY <1>1, <1>6, <2>1, HarmlessWord
<1> QED
  BY <1>7, <1>8, <1>9 DEF new

(* Every step keeps the roster's promise.                                   *)
LEMMA StepLeads ==
  Typed /\ RelayInv /\ OnlineInv /\ LeadsInv /\ [Next]_vars => LeadsInv'
<1> SUFFICES ASSUME Typed, RelayInv, OnlineInv, LeadsInv, [Next]_vars, connected', ~harmed'
             PROVE  LeadsInv'
  BY DEF LeadsInv
<1>0. /\ TypeOK /\ net \in Seq(Datagrams) /\ peers \subseteq Sessions /\ list \subseteq Sessions
      /\ sweeping \subseteq Sessions /\ \A s : Settled(s) \in BOOLEAN /\ Settled(s)' \in BOOLEAN
  BY DEF Typed, TypeOK, Settled
<1>1. CASE JoinedSource \/ LeftSource
  <2>1. /\ netStep = Idle /\ net # <<>> /\ net' = Tail(net) /\ netStep' = Head(net)
        /\ Head(net).kind \in {"Joined", "Left"}
        /\ UNCHANGED <<peers, list, shared, connected, harmed, uidToSession>>
    BY <1>1 DEF JoinedSource, LeftSource, registry, roster
  <2>2. ASSUME NEW s \in peers, LastSettles(net, s, Settled(s))
        PROVE  LastSettles(Tail(net), s, Settled(s)')
    <3>1. Settles(Head(net), s) => Settled(s)'
      BY <2>1 DEF Settles, Upsets, Settled
    <3>2. Settled(s) /\ ~Upsets(Head(net), s) => Settled(s)'
      BY <2>1 DEF Settles, Upsets, Settled, Idle
    <3>3. Settled(s)' \in BOOLEAN
      BY DEF Settled
    <3> HIDE DEF Settled
    <3> QED
      BY <1>0, <2>1, <2>2, <3>1, <3>2, <3>3, HandledWord
  <2> QED
    BY <2>1, <2>2 DEF LeadsInv, LastSettles
<1>2. CASE JoinedRoster
  <2>1. /\ netStep.kind = "Joined" /\ netStep'.kind = "idle"
        /\ uidToSession' = [uidToSession EXCEPT ![netStep.uid] = netStep.sid]
        /\ UNCHANGED <<peers, list, shared, connected, harmed, net>>
    BY <1>2 DEF JoinedRoster, Idle, relay, registry
  <2>2. ASSUME NEW s \in peers, Settled(s) PROVE Settled(s)'
    BY <1>0, <2>1, <2>2 DEF Settled, Settles, Upsets, TypeOK, Sessions
  <2> QED
    BY <2>1, <2>2 DEF LeadsInv, LastSettles
<1>3. CASE LeftRoster
  <2>1. /\ netStep.kind = "Left" /\ netStep'.kind = "idle"
        /\ uidToSession' = Without(uidToSession, netStep.sid)
        /\ UNCHANGED <<peers, list, shared, connected, harmed, net>>
    BY <1>3 DEF LeftRoster, Idle, relay, registry
  <2>2. ASSUME NEW s \in peers, Settled(s) PROVE Settled(s)'
    BY <1>0, <2>1, <2>2 DEF Settled, Settles, Upsets, Without, TypeOK, Sessions
  <2> QED
    BY <2>1, <2>2 DEF LeadsInv, LastSettles
<1>4. ~RemoveAllSources /\ ~ClearRoster
  BY DEF RemoveAllSources, ClearRoster, OnlineInv
<1>5. CASE RosterAnswer \/ \E d \in BOOLEAN : Connect(d)
  <2>1. list' = peers /\ peers' = peers
    BY <1>5 DEF RosterAnswer, Connect
  <2> QED
    BY <2>1 DEF LeadsInv
<1>6. ASSUME NEW t \in list, AnnounceListed(t) PROVE LeadsInv'
  <2>1. /\ list' = list \ {t} /\ net' = net \o <<Joined(t)>> /\ Joined(t) \in Datagrams
        /\ UNCHANGED <<peers, shared, connected, netStep, harmed, uidToSession>>
    BY <1>0, <1>6, AnnouncementTypes, AppendType
       DEF AnnounceListed, client, roster
  <2>2. ASSUME NEW s \in peers, s.uid \notin shared,
               s \in list \/ LastSettles(net, s, Settled(s))
        PROVE  s \in list' \/ LastSettles(net', s, Settled(s)')
    <3>1. CASE s = t
      <4>1. Settles(Joined(t), s)
        BY <3>1 DEF Settles, Joined
      <4> QED
        BY <1>0, <2>1, <4>1, LastWord
    <3>2. CASE s # t
      <4>1. s.uid # t.uid
        BY <2>2, <3>2 DEF RelayInv
      <4>2. ~Upsets(Joined(t), s)
        BY <4>1 DEF Upsets, Joined
      <4>3. CASE s \in list
        BY <2>1, <3>2, <4>3
      <4>4. CASE LastSettles(net, s, Settled(s))
        <5>1. LastSettles(net \o <<Joined(t)>>, s, Settled(s))
          <6> HIDE DEF Settled
          <6> QED
            BY <1>0, <2>1, <4>2, <4>4, HarmlessWord
        <5>2. Settled(s)' <=> Settled(s)
          BY <2>1 DEF Settled
        <5> QED
          BY <2>1, <5>1, <5>2 DEF LastSettles
      <4> QED
        BY <2>2, <4>3, <4>4
    <3> QED
      BY <3>1, <3>2
  <2>3. connected /\ ~harmed
    BY <2>1
  <2>4. \A s \in peers' : s.uid \notin shared' => s \in peers /\ s.uid \notin shared
    BY <2>1
  <2>5. \A s \in peers : s.uid \notin shared => s \in list \/ LastSettles(net, s, Settled(s))
    BY <2>3 DEF LeadsInv
  <2>6. \A s \in peers' : s.uid \notin shared' => s \in list' \/ LastSettles(net', s, Settled(s)')
    BY <2>2, <2>4, <2>5
  <2> QED
    BY <2>6 DEF LeadsInv, LastSettles
<1>7. ASSUME NEW p \in People, NEW uid \in UidsOf(p), PeerJoins(p, uid) PROVE LeadsInv'
  <2>1. /\ list = {} /\ list' = {} /\ nextSid \in Sids
        /\ peers' = Others(uid) \cup {New(p, uid)}
        /\ shared' = shared \cup {s.uid : s \in {o \in Others(uid) : o.uid = uid}}
        /\ net' = Announce(Newcomer(p, uid))
        /\ UNCHANGED <<connected, netStep, harmed, uidToSession>>
    BY <1>7, JoinsStep DEF roster
  <2>2. net' = net \o Newcomer(p, uid)
    BY <2>1 DEF Announce
  <2>3. ASSUME NEW s \in Others(uid), s.uid \notin shared'
        PROVE  LastSettles(net', s, Settled(s))
    <3>1. s \in peers /\ s.uid # uid /\ s.uid \notin shared
      BY <2>1, <2>3 DEF Others
    <3>2. LastSettles(net, s, Settled(s))
      BY <2>1, <3>1 DEF LeadsInv
    <3> HIDE DEF Settled
    <3> QED
      BY <1>0, <2>1, <2>2, <2>3, <3>1, <3>2, NewcomerSettles
  <2>4. LastSettles(net', New(p, uid), Settled(New(p, uid)))
    <3> HIDE DEF Settled
    <3> QED
      BY <1>0, <2>1, <2>2, NewcomerSettles
  <2>5. \A s : Settled(s)' <=> Settled(s)
    BY <2>1 DEF Settled
  <2>6. ASSUME NEW s \in peers', s.uid \notin shared' PROVE LastSettles(net', s, Settled(s)')
    <3>1. LastSettles(net', s, Settled(s))
      BY <2>1, <2>3, <2>4, <2>6
    <3> QED
      BY <2>5, <3>1 DEF LastSettles
  <2> QED
    BY <2>6 DEF LeadsInv, LastSettles
<1>8. ASSUME NEW t \in peers \cup sweeping, net' = Announce(<<Left(t)>>), peers' = peers \ {t},
             UNCHANGED <<list, shared, connected, netStep, harmed, uidToSession>>
      PROVE  LeadsInv'
  <2>1. net' = net \o <<Left(t)>> /\ Left(t) \in Datagrams
    BY <1>0, <1>8, AnnouncementTypes DEF Announce
  <2>2. ASSUME NEW s \in peers', s.uid \notin shared'
        PROVE  s \in list' \/ LastSettles(net', s, Settled(s)')
    <3>1. s \in peers /\ s # t /\ s.uid \notin shared
      BY <1>8, <2>2
    <3>2. s.sid # t.sid
      BY <3>1 DEF RelayInv, Known
    <3>3. ~Upsets(Left(t), s)
      BY <3>2 DEF Upsets, Left
    <3>4. CASE s \in list
      BY <1>8, <3>4
    <3>5. CASE LastSettles(net, s, Settled(s))
      <4>1. LastSettles(net \o <<Left(t)>>, s, Settled(s))
        <5> HIDE DEF Settled
        <5> QED
          BY <1>0, <2>1, <3>3, <3>5, HarmlessWord
      <4>2. Settled(s)' <=> Settled(s)
        BY <1>8 DEF Settled
      <4> QED
        BY <2>1, <4>1, <4>2 DEF LastSettles
    <3> QED
      BY <1>8, <3>1, <3>4, <3>5 DEF LeadsInv
  <2> QED
    BY <2>2 DEF LeadsInv, LastSettles
<1>9. ASSUME NEW t \in peers, PeerLeaves(t) PROVE LeadsInv'
  BY <1>8, <1>9 DEF PeerLeaves, client, roster
<1>10. ASSUME NEW t \in sweeping, SweepAnnounces(t) PROVE LeadsInv'
  <2>1. peers = peers \ {t}
    BY DEF RelayInv
  <2> QED
    BY <1>8, <1>10, <2>1 DEF SweepAnnounces, client, roster
<1>11. ASSUME NEW t \in peers, SweepRemoves(t) PROVE LeadsInv'
  <2>1. /\ peers' \subseteq peers
        /\ UNCHANGED <<list, shared, net, connected, netStep, harmed, uidToSession>>
    BY <1>11 DEF SweepRemoves, client, roster
  <2> QED
    BY <2>1 DEF LeadsInv, LastSettles, Settled
<1>12. ASSUME UNCHANGED <<peers, list, shared, net, connected, netStep, harmed, uidToSession>>
       PROVE  LeadsInv'
  BY <1>12 DEF LeadsInv, LastSettles, Settled
<1>13. ASSUME NEW i \in DOMAIN net, Lose(i) \/ Overtake(i) PROVE FALSE
  BY <1>13 DEF Lose, Overtake
<1>14. ASSUME NEW restart \in BOOLEAN, Disconnect(restart) PROVE FALSE
  BY <1>14 DEF Disconnect
<1>15. CASE SenderThread
  <2>1. UNCHANGED <<peers, list, shared, net, connected, netStep, harmed, uidToSession>>
    BY <1>15 DEF SenderThread, SetSource, SilenceSource, BeginSilence, EndSnapshot, SkipSnapshot,
                 relay, registry, mixer, roster, vars
  <2> QED
    BY <2>1 DEF LeadsInv, LastSettles, Settled
<1>16. ASSUME NEW heard \in SUBSET People, NEW known \in SUBSET heard,
              BeginSnapshot(heard, known)
       PROVE  LeadsInv'
  BY <1>12, <1>16 DEF BeginSnapshot, relay, registry, mixer, roster
<1>17. CASE UNCHANGED vars
  <2>1. UNCHANGED <<peers, list, shared, net, connected, netStep, harmed, uidToSession>>
    BY <1>17 DEF vars
  <2> QED
    BY <2>1 DEF LeadsInv, LastSettles, Settled
<1> QED
  BY <1>1, <1>2, <1>3, <1>4, <1>5, <1>6, <1>7, <1>9, <1>10, <1>11, <1>13, <1>14, <1>15,
     <1>16, <1>17 DEF Next, NetworkThread, AnnounceNext, Environment, Faults

(* As long as nothing was lost or overtaken in this connection, and with    *)
(* nothing under way, every session of the relay has a source, and its UID  *)
(* leads to it unless two sessions shared it; whoever left stays behind     *)
(* only if the sweep announced that between the copy and the announcement   *)
(* of a greeting or an answer                                               *)
(* (VoiceSession.cpp:21-69, RelayServer.cs:145-195, 288-322).               *)
THEOREM FollowCorrect == Spec => []SourcesFollowRelay
<1>1. Init => RelayInv /\ OnlineInv /\ FollowInv /\ LeadsInv
  BY DEF Init, RelayInv, Known, OnlineInv, FollowInv, LeadsInv, Idle, NoOne
<1>2. Typed /\ FollowInv => (connected /\ ~harmed /\ NothingUnderWay
                               => /\ {s.sid : s \in peers} \subseteq sources
                                  /\ sources \subseteq {s.sid : s \in peers} \cup crossed)
  <2> SUFFICES ASSUME Typed, FollowInv, connected, ~harmed, NothingUnderWay
               PROVE  /\ {s.sid : s \in peers} \subseteq sources
                      /\ sources \subseteq {s.sid : s \in peers} \cup crossed
    OBVIOUS
  <2>1. sources \subseteq Sids /\ \A s \in peers : s.sid \in Sids
    BY DEF Typed, TypeOK, Sessions
  <2>2. ASSUME NEW sid \in Sids
        PROVE  /\ Present(sid) => sid \in sources
               /\ sid \in sources => Present(sid) \/ sid \in crossed
    <3>1. ~Listed(sid) /\ ~InHand(sid) /\ Follows(sid)
      BY DEF FollowInv, NothingUnderWay, Listed, InHand
    <3>2. WillHaveSource(sid) <=> sid \in sources
      BY NoWord DEF NothingUnderWay, WillHaveSource
    <3> QED
      BY <3>1, <3>2 DEF Follows
  <2> QED
    BY <2>1, <2>2 DEF Present
<1>3. LeadsInv => (connected /\ ~harmed /\ NothingUnderWay
                    => \A s \in peers : s.uid \notin shared => uidToSession[s.uid] = s.sid)
  <2> SUFFICES ASSUME LeadsInv, connected, ~harmed, NothingUnderWay,
                      NEW s \in peers, s.uid \notin shared
               PROVE  uidToSession[s.uid] = s.sid
    OBVIOUS
  <2>1. LastSettles(<<>>, s, Settled(s)) /\ Len(<<>>) = 0 /\ netStep = Idle
    BY DEF LeadsInv, NothingUnderWay
  <2> QED
    BY <2>1 DEF LastSettles, Settled, Settles, Idle
<1>4. Typed /\ FollowInv /\ LeadsInv => SourcesFollowRelay
  BY <1>2, <1>3 DEF SourcesFollowRelay
<1> QED
  BY <1>1, <1>4, InitType, StepType, StepRelay, StepOnline, StepFollow, StepLeads, PTL DEF Spec

----------------------------------------------------------------------------
(* Every player is found in the end.                                        *)

(* The premises: the network thread goes on while there is something to     *)
(* handle, the relay finishes its answers, the roster is asked for again    *)
(* and again, players stop coming and going, the network loses nothing      *)
(* more, and a natural number does not fall for ever unless it rises again  *)
(* and again: true of every natural-valued expression, but only by an       *)
(* induction that is beyond the provers here.                               *)
Handling == ~connected \/ netStep # Idle \/ net # <<>>
MayAnnounce == list # {} /\ Room
MayAsk == connected /\ net = <<>> /\ list = {} /\ peers # {}

NetworkRuns == <>[]Handling => []<><<NetworkThread>>_vars
AnnounceRuns == <>[]MayAnnounce => []<><<AnnounceNext>>_vars
RosterRuns == <>[]MayAsk => []<><<RosterAnswer>>_vars
DisturbancesEnd == <>[][peers' = peers /\ sweeping' = sweeping /\ ~Faults]_vars
NoEndlessFall(n) == []<><<n' < n>>_vars => []<><<n' > n>>_vars

(* What is left to handle: a session that is still to be announced takes a  *)
(* datagram.                                                                *)
OnWay == 2 * Cardinality(list) + Len(net)

(* The steps that are left once players and network are quiet.              *)
QuietStep ==
  /\ peers' = peers
  /\ \/ NetworkThread \/ RosterAnswer \/ AnnounceNext
     \/ UNCHANGED <<net, list, connected, sources, uidToSession, nameToSession, netStep>>

LEMMA NothingChanges ==
  ASSUME Typed, RelayInv, [Next]_vars,
         [peers' = peers /\ sweeping' = sweeping /\ ~Faults]_vars
  PROVE  QuietStep
<1>1. CASE UNCHANGED vars
  BY <1>1, Zenon DEF vars, QuietStep
<1>2. CASE ~UNCHANGED vars
  <2>1. peers' = peers /\ sweeping' = sweeping /\ ~Faults
    BY <1>2
  <2>2. CASE SenderThread
    BY <2>1, <2>2 DEF SenderThread, SetSource, SilenceSource, BeginSilence, EndSnapshot,
       SkipSnapshot, relay, registry, roster, mixer, vars, QuietStep
  <2>3. CASE Environment
    <3>1. ASSUME NEW q \in People, NEW uid \in UidsOf(q), PeerJoins(q, uid) PROVE FALSE
      <4>1. New(q, uid) \in peers
        BY <2>1, <3>1, JoinsStep
      <4>2. New(q, uid).sid < nextSid /\ nextSid \in Nat
        BY <4>1 DEF RelayInv, Known, Typed, TypeOK
      <4> QED
        BY <4>2 DEF New
    <3>2. ASSUME NEW s \in peers, PeerLeaves(s) PROVE FALSE
      BY <2>1, <3>2 DEF PeerLeaves
    <3>3. ASSUME NEW s \in peers, SweepRemoves(s) PROVE FALSE
      BY <2>1, <3>3 DEF SweepRemoves
    <3>4. ASSUME NEW s \in sweeping, SweepAnnounces(s) PROVE FALSE
      BY <2>1, <3>4 DEF SweepAnnounces
    <3>5. ASSUME NEW heard \in SUBSET People, NEW known \in SUBSET heard,
                 BeginSnapshot(heard, known)
          PROVE  QuietStep
      BY <2>1, <3>5 DEF BeginSnapshot, relay, registry, roster, mixer, QuietStep
    <3> QED
      BY <2>3, <3>1, <3>2, <3>3, <3>4, <3>5 DEF Environment
  <2> QED
    BY <1>2, <2>1, <2>2, <2>3 DEF Next, QuietStep
<1> QED
  BY <1>1, <1>2

(* Without a connection the network thread comes to the next one.           *)
Losing == netStep.kind = "lostSources"

LEMMA Reconnects ==
  ASSUME Typed, OnlineInv, QuietStep
  PROVE  /\ connected => connected'
         /\ NetworkThread /\ ~connected /\ ~connected' =>
              /\ netStep # Idle
              /\ IF Losing THEN ~Losing' ELSE netStep' = Idle /\ ~Losing'
         /\ ~NetworkThread => netStep' = netStep
<1>1. CASE NetworkThread
  <2>1. CASE JoinedSource \/ LeftSource
    <3>1. connected /\ connected'
      BY <2>1 DEF JoinedSource, LeftSource, OnlineInv
    <3> QED
      BY <1>1, <3>1
  <2>2. CASE JoinedRoster \/ LeftRoster \/ ClearRoster
    BY <1>1, <2>2 DEF JoinedRoster, LeftRoster, ClearRoster, Idle, Losing
  <2>3. CASE RemoveAllSources
    BY <1>1, <2>3 DEF RemoveAllSources, Idle, Losing
  <2>4. ASSUME NEW d \in BOOLEAN, Connect(d) PROVE ~connected /\ connected'
    BY <2>4 DEF Connect
  <2> QED
    BY <1>1, <2>1, <2>2, <2>3, <2>4 DEF NetworkThread
<1>2. CASE ~NetworkThread
  BY <1>2 DEF QuietStep, RosterAnswer, AnnounceNext, AnnounceListed, client
<1> QED
  BY <1>1, <1>2

(* With one it handles what has arrived.                                    *)
LEMMA Drains ==
  ASSUME Typed, OnlineInv, QuietStep, connected
  PROVE  /\ ~(net = <<>> /\ list = {}) => ~(OnWay' > OnWay)
         /\ NetworkThread => IF netStep = Idle THEN OnWay' < OnWay ELSE netStep' = Idle
         /\ AnnounceNext => OnWay' < OnWay
         /\ ~NetworkThread => netStep' = netStep
         /\ net = <<>> /\ ~AnnounceNext => net' = <<>>
         /\ list = {} /\ ~RosterAnswer => list' = {}
<1>0. /\ net \in Seq(Datagrams) /\ Len(net) \in Nat
      /\ IsFiniteSet(list) /\ Cardinality(list) \in Nat
  BY FS_CardinalityType DEF Typed, TypeOK
<1>1. CASE JoinedSource \/ LeftSource
  <2>1. netStep = Idle /\ net # <<>> /\ net' = Tail(net) /\ list' = list
    BY <1>1 DEF JoinedSource, LeftSource, registry
  <2>2. Len(net') = Len(net) - 1
    BY <1>0, <2>1
  <2>3. OnWay' < OnWay /\ ~(OnWay' > OnWay)
    BY <1>0, <2>1, <2>2 DEF OnWay
  <2>4. NetworkThread
    BY <1>1 DEF NetworkThread
  <2> QED
    BY <2>1, <2>3, <2>4
<1>2. CASE JoinedRoster \/ LeftRoster \/ ClearRoster
  <2>1. netStep' = Idle
    BY <1>2 DEF JoinedRoster, LeftRoster, ClearRoster
  <2>2. netStep # Idle
    <3>1. netStep.kind # "idle"
      BY <1>2 DEF JoinedRoster, LeftRoster, ClearRoster
    <3> QED
      BY <3>1 DEF Idle
  <2>3. net' = net /\ list' = list
    BY <1>2 DEF JoinedRoster, LeftRoster, ClearRoster, relay, registry
  <2>4. ~(OnWay' > OnWay)
    BY <1>0, <2>3 DEF OnWay
  <2>5. NetworkThread
    BY <1>2 DEF NetworkThread
  <2>6. ASSUME AnnounceNext PROVE FALSE
    BY <2>1, <2>2, <2>6 DEF AnnounceNext, AnnounceListed, client
  <2> QED
    BY <2>1, <2>2, <2>3, <2>4, <2>5, <2>6
<1>3. ~RemoveAllSources /\ ~(\E d \in BOOLEAN : Connect(d))
  BY DEF RemoveAllSources, Connect, OnlineInv
<1>4. ASSUME ~NetworkThread, NEW s \in list, AnnounceListed(s)
      PROVE  OnWay' < OnWay /\ ~(OnWay' > OnWay) /\ netStep' = netStep /\ list # {}
  <2>1. /\ Cardinality(list \ {s}) = Cardinality(list) - 1
    BY <1>0, FS_RemoveElement
  <2>2. /\ list' = list \ {s} /\ Len(net') = Len(net) + 1 /\ netStep' = netStep
    BY <1>0, <1>4 DEF AnnounceListed, client
  <2>3. Cardinality(list') = Cardinality(list) - 1
    BY <2>1, <2>2
  <2> QED
    BY <1>0, <2>2, <2>3 DEF OnWay
<1>5. CASE ~NetworkThread /\ ~AnnounceNext /\ RosterAnswer
  BY <1>5 DEF RosterAnswer, client
<1>6. CASE ~NetworkThread /\ ~AnnounceNext /\ ~RosterAnswer
  <2>1. net' = net /\ netStep' = netStep /\ list' = list
    BY <1>6, Zenon DEF QuietStep
  <2>2. ~(OnWay' > OnWay)
    BY <1>0, <2>1 DEF OnWay
  <2> QED
    BY <1>6, <2>1, <2>2
<1> QED
  BY <1>1, <1>2, <1>3, <1>4, <1>5, <1>6 DEF NetworkThread, AnnounceNext

(* In the end only the relay's sessions are announced.                      *)
OnlyPeers(q) == \A i \in 1..Len(q) : \E t \in peers : q[i] = Joined(t)
NetPeers == OnlyPeers(net) /\ list \subseteq peers
StepPeers == netStep = Idle \/ \E t \in peers : netStep = Joined(t)

LEMMA PeersAnnounced ==
  ASSUME Typed, OnlineInv, QuietStep, connected, NetPeers
  PROVE  /\ NetPeers'
         /\ StepPeers => StepPeers'
         /\ NetworkThread => list' = list
         /\ StepPeers /\ NetworkThread =>
              \/ /\ netStep = Idle /\ net # <<>> /\ netStep' = net[1] /\ net' = Tail(net)
                 /\ sources' = sources \cup {net[1].sid}
                 /\ UNCHANGED <<uidToSession, nameToSession>>
              \/ JoinedRoster /\ net' = net /\ sources' = sources
<1>0. net \in Seq(Datagrams) /\ IsFiniteSet(peers) /\ peers' = peers
  BY DEF Typed, TypeOK, QuietStep
<1>1. CASE JoinedSource
  <2>1. /\ netStep = Idle /\ net # <<>> /\ netStep' = net[1] /\ net' = Tail(net)
        /\ sources' = sources \cup {net[1].sid}
        /\ UNCHANGED <<uidToSession, nameToSession, list>>
    BY <1>0, <1>1 DEF JoinedSource, roster, registry
  <2>2. 1 \in 1..Len(net) /\ \A i \in 1..Len(net') : i + 1 \in 1..Len(net) /\ net'[i] = net[i + 1]
    BY <1>0, <2>1
  <2>3. NetPeers' /\ StepPeers'
    BY <1>0, <2>1, <2>2 DEF NetPeers, OnlyPeers, StepPeers
  <2> QED
    BY <2>1, <2>3
<1>2. ~LeftSource
  <2>1. ASSUME LeftSource PROVE FALSE
    <3>1. net # <<>> /\ Head(net).kind = "Left" /\ 1 \in 1..Len(net) /\ Head(net) = net[1]
      BY <1>0, <2>1 DEF LeftSource
    <3>2. PICK t \in peers : net[1] = Joined(t)
      BY <3>1 DEF NetPeers, OnlyPeers
    <3>3. net[1].kind = "Joined"
      BY <3>2 DEF Joined
    <3> QED
      BY <3>1, <3>3
  <2> QED
    BY <2>1
<1>3. CASE JoinedRoster
  <2>1. netStep' = Idle /\ net' = net /\ list' = list /\ sources' = sources
    BY <1>3 DEF JoinedRoster, relay, registry, mixer
  <2>2. NetPeers' /\ StepPeers'
    BY <1>0, <2>1 DEF NetPeers, OnlyPeers, StepPeers
  <2> QED
    BY <1>3, <2>1, <2>2
<1>4. CASE LeftRoster
  <2>1. netStep' = Idle /\ net' = net /\ list' = list /\ netStep.kind = "Left"
    BY <1>4 DEF LeftRoster, relay, registry
  <2>2. ~StepPeers
    BY <2>1 DEF StepPeers, Idle, Joined
  <2>3. NetPeers' /\ StepPeers'
    BY <1>0, <2>1 DEF NetPeers, OnlyPeers, StepPeers
  <2> QED
    BY <2>1, <2>2, <2>3
<1>5. ~RemoveAllSources /\ ~ClearRoster /\ ~(\E d \in BOOLEAN : Connect(d))
  BY DEF RemoveAllSources, ClearRoster, Connect, OnlineInv
<1>6. CASE ~NetworkThread
  <2>1. CASE RosterAnswer
    <3>1. netStep' = netStep /\ net' = net /\ list' = peers
      BY <2>1 DEF RosterAnswer, client
    <3> QED
      BY <1>0, <1>6, <3>1 DEF NetPeers, OnlyPeers, StepPeers
  <2>2. ASSUME NEW s \in list, AnnounceListed(s)
        PROVE  NetPeers' /\ (StepPeers => StepPeers')
    <3>1. netStep' = netStep /\ net' = Append(net, Joined(s)) /\ list' = list \ {s}
      BY <2>2 DEF AnnounceListed, client
    <3>2. /\ Len(net') = Len(net) + 1
          /\ \A i \in 1..Len(net') : i \in 1..Len(net) \/ i = Len(net) + 1
          /\ \A i \in 1..Len(net) : net'[i] = net[i]
          /\ net'[Len(net) + 1] = Joined(s)
      BY <1>0, <3>1
    <3>3. s \in peers
      BY DEF NetPeers
    <3>4. \A i \in 1..Len(net') : \E t \in peers : net'[i] = Joined(t)
      BY <3>2, <3>3 DEF NetPeers, OnlyPeers
    <3> QED
      BY <1>0, <3>1, <3>4 DEF NetPeers, OnlyPeers, StepPeers
  <2>3. CASE ~RosterAnswer /\ ~AnnounceNext
    <3>1. net' = net /\ list' = list /\ netStep' = netStep
      BY <1>6, <2>3, Zenon DEF QuietStep
    <3> QED
      BY <1>0, <1>6, <3>1 DEF NetPeers, OnlyPeers, StepPeers
  <2> QED
    BY <1>6, <2>1, <2>2, <2>3 DEF AnnounceNext
<1> QED
  BY <1>1, <1>2, <1>3, <1>4, <1>5, <1>6 DEF NetworkThread

(* A player's only session is found, or its announcement is on its way.     *)
Reached(p, s) ==
  s.sid \in sources /\ uidToSession[RealUid(p)] = s.sid /\ nameToSession[p] = s.sid

Taken(p) == \A s \in peers : OnlySession(p, s) => Reached(p, s) \/ netStep = Joined(s)

Coming(s) == s \in list \/ \E i \in 1..Len(net) : net[i] = Joined(s)

Aimed(p) ==
  \A s \in peers : OnlySession(p, s) =>
    Reached(p, s) \/ netStep = Joined(s) \/ Coming(s)

LEMMA FoundWhenTaken ==
  ASSUME NEW p \in People
  PROVE  /\ Aimed(p) /\ net = <<>> /\ list = {} => Taken(p)
         /\ Taken(p) /\ netStep = Idle => Found(p)
         /\ peers = {} => Found(p)
<1>1. \A s : Joined(s) # Idle
  BY DEF Joined, Idle
<1>2. net = <<>> => Len(net) = 0
  OBVIOUS
<1>3. Aimed(p) /\ net = <<>> /\ list = {} => Taken(p)
  BY <1>2 DEF Aimed, Taken, Coming
<1> QED
  BY <1>1, <1>3 DEF Taken, Found, Reached

(* Once the relay's sessions alone are announced, what was found stays so,  *)
(* and what is announced is found.                                          *)
LEMMA SessionFound ==
  ASSUME NEW p \in People, Typed, RosterInv, OnlineInv, QuietStep, connected, NetPeers, StepPeers,
         NEW s \in peers, OnlySession(p, s)
  PROVE  /\ Reached(p, s) => Reached(p, s)'
         /\ netStep = Joined(s) => netStep' = Joined(s) \/ Reached(p, s)'
         /\ netStep = Joined(s) /\ NetworkThread => Reached(p, s)'
         /\ Coming(s) => netStep' = Joined(s) \/ Coming(s)'
<1>0. /\ net \in Seq(Datagrams) /\ uidToSession \in [AllUids -> Sids \cup {NoOne}]
      /\ nameToSession \in [People -> Sids \cup {NoOne}]
      /\ RealUid(p) \in AllUids /\ s.uid = RealUid(p) /\ s.name = p
  BY RealUidType DEF Typed, TypeOK, OnlySession, UidsOf
<1>1. CASE NetworkThread /\ JoinedRoster
  <2>1. PICK t \in peers : netStep = Joined(t)
    BY <1>1 DEF StepPeers, JoinedRoster, Idle
  <2>2. /\ netStep.kind = "Joined" /\ netStep.sid = t.sid /\ netStep.uid = t.uid
        /\ netStep.name = t.name
    BY <2>1 DEF Joined
  <2>3. /\ uidToSession' = [uidToSession EXCEPT ![t.uid] = t.sid]
        /\ nameToSession' = [nameToSession EXCEPT ![t.name] = t.sid]
        /\ sources' = sources /\ net' = net /\ list' = list
    BY <1>1, <2>2 DEF JoinedRoster, mixer, relay, registry
  <2>4. t.sid \in sources
    BY <2>2 DEF RosterInv
  <2>5. t.uid = RealUid(p) \/ t.name = p => t = s
    <3>1. t.uid \in UidsOf(t.name)
      BY DEF OnlineInv
    <3>2. t.uid = RealUid(p) => t.name = p
      BY <3>1 DEF UidsOf, RealUid, NickUid
    <3> QED
      BY <3>2 DEF OnlySession
  <2>6. netStep = Joined(s) => t = s
    <3>1. Joined(s).name = s.name
      BY DEF Joined
    <3> QED
      BY <1>0, <2>2, <2>5, <3>1
  <2>7. t = s => Reached(p, s)'
    BY <1>0, <2>3, <2>4 DEF Reached
  <2>8. t # s /\ Reached(p, s) => Reached(p, s)'
    BY <1>0, <2>3, <2>5 DEF Reached
  <2>9. Coming(s)' <=> Coming(s)
    BY <2>3 DEF Coming, Joined
  <2> QED
    BY <2>3, <2>6, <2>7, <2>8, <2>9
<1>2. CASE NetworkThread /\ ~JoinedRoster
  <2>1. /\ netStep = Idle /\ net # <<>> /\ netStep' = net[1] /\ net' = Tail(net)
        /\ sources' = sources \cup {net[1].sid}
        /\ UNCHANGED <<uidToSession, nameToSession, list>>
    BY <1>2, PeersAnnounced
  <2>2. netStep # Joined(s)
    BY <2>1 DEF Idle, Joined
  <2>3. Reached(p, s) => Reached(p, s)'
    BY <2>1 DEF Reached
  <2>4. \A i \in 1..Len(net) : i = 1 \/ (i - 1 \in 1..Len(net') /\ net'[i - 1] = net[i])
    BY <1>0, <2>1
  <2>5. ASSUME Coming(s) PROVE netStep' = Joined(s) \/ Coming(s)'
    BY <2>1, <2>4, <2>5 DEF Coming, Joined
  <2> QED
    BY <1>2, <2>2, <2>3, <2>5
<1>3. CASE ~NetworkThread
  <2>1. UNCHANGED <<sources, uidToSession, nameToSession, netStep>>
    BY <1>3 DEF QuietStep, RosterAnswer, AnnounceNext, AnnounceListed, client, mixer, roster
  <2>2. Reached(p, s) => Reached(p, s)'
    BY <2>1 DEF Reached
  <2>3. ASSUME Coming(s) PROVE Coming(s)'
    <3>1. CASE RosterAnswer
      BY <1>0, <2>3, <3>1 DEF RosterAnswer, Coming, Joined
    <3>2. ASSUME NEW t \in list, AnnounceListed(t) PROVE Coming(s)'
      <4>1. net' = Append(net, Joined(t)) /\ list' = list \ {t}
        BY <3>2 DEF AnnounceListed
      <4>2. /\ Len(net') = Len(net) + 1 /\ Len(net) \in Nat
            /\ \A i \in 1..Len(net) : net'[i] = net[i]
            /\ net'[Len(net) + 1] = Joined(t)
        BY <1>0, <4>1
      <4>3. \A i \in 1..Len(net) : i \in 1..Len(net')
        BY <4>2
      <4>4. Len(net) + 1 \in 1..Len(net')
        BY <4>2
      <4> QED
        BY <2>3, <4>1, <4>2, <4>3, <4>4 DEF Coming, Joined
    <3>3. CASE ~RosterAnswer /\ ~AnnounceNext
      <4>1. net' = net /\ list' = list
        BY <1>3, <3>3, Zenon DEF QuietStep
      <4> QED
        BY <2>3, <4>1 DEF Coming, Joined
    <3> QED
      BY <3>1, <3>2, <3>3 DEF AnnounceNext
  <2> QED
    BY <1>3, <2>1, <2>2, <2>3
<1> QED
  BY <1>1, <1>2, <1>3

LEMMA PlayerFound ==
  ASSUME NEW p \in People, Typed, RosterInv, OnlineInv, QuietStep, connected, NetPeers, StepPeers
  PROVE  /\ Found(p) => Found(p)'
         /\ Taken(p) => Taken(p)'
         /\ Taken(p) /\ NetworkThread => netStep = Idle \/ Found(p)'
         /\ Aimed(p) => Aimed(p)'
         /\ RosterAnswer => Aimed(p)'
<1>0. /\ peers' = peers /\ IsFiniteSet(peers)
      /\ \A s \in peers : OnlySession(p, s)' <=> OnlySession(p, s)
  BY DEF QuietStep, Typed, OnlySession
<1>1. Found(p) <=> \A s \in peers : OnlySession(p, s) => Reached(p, s)
  BY DEF Found, Reached
<1>2. Found(p)' <=> \A s \in peers : OnlySession(p, s) => Reached(p, s)'
  BY <1>0 DEF Found, Reached
<1>3. Taken(p)' <=> \A s \in peers : OnlySession(p, s) => Reached(p, s)' \/ netStep' = Joined(s)
  BY <1>0 DEF Taken, Joined
<1>4. Aimed(p)' <=> \A s \in peers : OnlySession(p, s) =>
                     Reached(p, s)' \/ netStep' = Joined(s) \/ Coming(s)'
  BY <1>0 DEF Aimed, Joined
<1>5. Found(p) => Found(p)'
  BY <1>1, <1>2, SessionFound
<1>6. Taken(p) => Taken(p)'
  BY <1>3, SessionFound DEF Taken
<1>7. Aimed(p) => Aimed(p)'
  BY <1>4, SessionFound DEF Aimed
<1>8. ASSUME Taken(p), NetworkThread, netStep # Idle PROVE Found(p)'
  BY <1>2, <1>8, SessionFound DEF Taken
<1>9. ASSUME RosterAnswer PROVE Aimed(p)'
  BY <1>4, <1>9 DEF RosterAnswer, Coming
<1> QED
  BY <1>5, <1>6, <1>7, <1>8, <1>9

(* Whoever ends up registered under the real UID is found in the end by UID *)
(* and by nickname, has a source, and stays found, whatever was lost or     *)
(* overtaken, and however often the client was disconnected                 *)
(* (VoiceSession.cpp:21-69, VoiceNetworkClient.cpp:503-514).                *)
THEOREM FoundCorrect ==
  /\ Spec /\ NetworkRuns /\ AnnounceRuns /\ RosterRuns
  /\ DisturbancesEnd /\ NoEndlessFall(OnWay)
  => PeersFound
<1> DEFINE Inv == Typed /\ RelayInv /\ RosterInv /\ OnlineInv
           On == connected
           Free == netStep = Idle
           NoneSent == net = <<>>
           NoneListed == list = {}
           MaySend == Room
           Alone == peers = {}
           Falls == OnWay' < OnWay
           Rises == OnWay' > OnWay
           Calm == [peers' = peers /\ sweeping' = sweeping /\ ~Faults]_vars
           Premises ==
             /\ Spec /\ NetworkRuns /\ AnnounceRuns /\ RosterRuns
             /\ DisturbancesEnd /\ NoEndlessFall(OnWay)
<1>1. Spec => []Inv
  <2>1. Init => Inv
    BY InitType DEF Init, RelayInv, Known, RosterInv, OnlineInv, Idle, NoOne, AllUids, UidsOf
  <2>2. Inv /\ [Next]_vars => Inv'
    BY StepType, StepRelay, StepRoster, StepOnline
  <2> QED
    BY <2>1, <2>2, PTL DEF Spec
<1>2. Inv /\ [Next]_vars /\ Calm => QuietStep /\ (Alone => Alone') /\ (~Alone => ~Alone')
  <2>1. Inv /\ [Next]_vars /\ Calm => QuietStep
    BY NothingChanges
  <2>2. QuietStep => peers' = peers
    BY DEF QuietStep
  <2> QED
    BY <2>1, <2>2
<1>3. Inv /\ QuietStep
        => /\ On => On'
           /\ <<NetworkThread>>_vars /\ ~On /\ ~On' =>
                ~Free /\ ~Losing' /\ (~Losing => Free')
           /\ ~<<NetworkThread>>_vars => (Free => Free') /\ (~Free => ~Free') /\ (~Losing => ~Losing')
  <2>1. Inv /\ QuietStep /\ UNCHANGED vars
          => (Free => Free') /\ (~Free => ~Free') /\ (~Losing => ~Losing')
    BY DEF vars, Losing
  <2>2. netStep' = netStep => (Free => Free') /\ (~Free => ~Free') /\ (~Losing => ~Losing')
    BY DEF Losing
  <2> QED
    BY <2>1, <2>2, Reconnects
<1>4. Inv /\ QuietStep /\ On
        => /\ ~(NoneSent /\ NoneListed) => ~<<Rises>>_vars
           /\ <<NetworkThread>>_vars => (Free => <<Falls>>_vars) /\ (~Free => Free')
           /\ <<AnnounceNext>>_vars => <<Falls>>_vars
           /\ NoneSent /\ ~<<AnnounceNext>>_vars => NoneSent'
           /\ NoneListed /\ ~<<RosterAnswer>>_vars => NoneListed'
           /\ NoneListed => ~<<AnnounceNext>>_vars
           /\ ~(NoneSent /\ NoneListed) => ~<<RosterAnswer>>_vars
  <2>1. UNCHANGED vars => net' = net /\ list' = list
    BY DEF vars
  <2>2. /\ NoneListed => ~<<AnnounceNext>>_vars
        /\ ~(NoneSent /\ NoneListed) => ~<<RosterAnswer>>_vars
    BY DEF AnnounceNext, RosterAnswer
  <2>3. Inv /\ QuietStep /\ On
          => /\ ~(NoneSent /\ NoneListed) => ~<<Rises>>_vars
             /\ <<NetworkThread>>_vars => (Free => <<Falls>>_vars) /\ (~Free => Free')
             /\ <<AnnounceNext>>_vars => <<Falls>>_vars
    BY Drains
  <2>4. Inv /\ QuietStep /\ On
          => /\ NoneSent /\ ~<<AnnounceNext>>_vars => NoneSent'
             /\ NoneListed /\ ~<<RosterAnswer>>_vars => NoneListed'
    BY <2>1, Drains
  <2> QED
    BY <2>2, <2>3, <2>4
<1>5. Inv /\ QuietStep /\ On /\ NetPeers => NetPeers' /\ (StepPeers => StepPeers')
  BY PeersAnnounced
<1>6. (NoneSent /\ NoneListed => NetPeers) /\ (Free => StepPeers) /\ (~MaySend => ~NoneSent)
  <2>1. NoneSent => Len(net) = 0
    OBVIOUS
  <2>2. ~MaySend => ~NoneSent
    BY <2>1, BoundsAssumption DEF Room
  <2> QED
    BY <2>1, <2>2 DEF NetPeers, OnlyPeers, StepPeers
<1>7. /\ ~On \/ ~Free \/ ~NoneSent <=> Handling
      /\ On /\ NoneSent /\ NoneListed /\ ~Alone <=> MayAsk
      /\ ~NoneListed /\ MaySend <=> MayAnnounce
  BY DEF Handling, MayAsk, MayAnnounce
<1> HIDE DEF Inv, On, Free, NoneSent, NoneListed, MaySend, Alone
<1>8. Premises => <>[]On
  BY <1>1, <1>2, <1>3, <1>7, PTL DEF Spec, NetworkRuns, DisturbancesEnd
<1>9. Premises => []<>(NoneSent /\ NoneListed)
  <2>1. Premises /\ <>[]~(NoneSent /\ NoneListed) => <>[][~Falls]_vars
    BY <1>1, <1>2, <1>4, <1>8, PTL DEF Spec, DisturbancesEnd, NoEndlessFall
  <2>2. Premises /\ <>[]~(NoneSent /\ NoneListed) => <>[]~NoneSent
    BY <1>1, <1>2, <1>4, <1>6, <1>7, <1>8, <2>1, PTL DEF Spec, DisturbancesEnd, AnnounceRuns
  <2>3. Premises /\ <>[]~(NoneSent /\ NoneListed) => FALSE
    BY <1>1, <1>2, <1>3, <1>4, <1>7, <1>8, <2>1, <2>2, PTL DEF Spec, DisturbancesEnd, NetworkRuns
  <2> QED
    BY <2>3, PTL
<1>10. Premises => <>[](NetPeers /\ StepPeers)
  <2>1. Premises => <>[]NetPeers
    BY <1>1, <1>2, <1>5, <1>6, <1>8, <1>9, PTL DEF Spec, DisturbancesEnd
  <2>2. Premises => []<>Free
    BY <1>1, <1>2, <1>3, <1>4, <1>7, <1>8, PTL DEF Spec, NetworkRuns, DisturbancesEnd
  <2> QED
    BY <1>1, <1>2, <1>5, <1>6, <1>8, <2>1, <2>2, PTL DEF Spec, DisturbancesEnd
<1>11. Premises => <>[]Alone \/ []<><<RosterAnswer>>_vars
  BY <1>1, <1>2, <1>4, <1>7, <1>8, <1>9, PTL DEF Spec, RosterRuns, DisturbancesEnd
<1>12. ASSUME NEW p \in People PROVE Premises => <>[]Found(p)
  <2> DEFINE F == Found(p)
             T == Taken(p)
             A == Aimed(p)
  <2>1. (A /\ NoneSent /\ NoneListed => T) /\ (T /\ Free => F) /\ (Alone => F)
    BY FoundWhenTaken DEF NoneSent, NoneListed, Free, Alone
  <2>2. Inv /\ QuietStep /\ On /\ NetPeers /\ StepPeers
          => /\ (F => F') /\ (T => T') /\ (A => A')
             /\ <<NetworkThread>>_vars /\ T => Free \/ F'
             /\ <<RosterAnswer>>_vars => A'
    BY PlayerFound DEF Inv, On, Free
  <2>3. UNCHANGED vars => (F => F') /\ (A => A') /\ (T => T')
    BY DEF vars, Found, Aimed, Taken, Reached, Coming, OnlySession, Joined
  <2> HIDE DEF F, T, A
  <2>4. Premises => <>[]F
    <3>1. Premises => <>[][(F => F') /\ (T => T') /\ (A => A')]_vars
      BY <1>1, <1>2, <1>8, <1>10, <2>2, PTL DEF Spec, DisturbancesEnd
    <3>2. Premises => <>[][<<RosterAnswer>>_vars => A']_vars
      BY <1>1, <1>2, <1>8, <1>10, <2>2, PTL DEF Spec, DisturbancesEnd
    <3>3. Premises /\ []<><<RosterAnswer>>_vars => <>[]A
      BY <2>3, <3>1, <3>2, PTL
    <3>4. Premises /\ <>[]A => <>[]T
      BY <1>9, <2>1, <2>3, <3>1, PTL
    <3>5. Premises => <>[]Alone \/ <>[]T
      BY <1>11, <3>3, <3>4, PTL
    <3>6. Premises => <>[][<<NetworkThread>>_vars /\ T => Free \/ F']_vars
      BY <1>1, <1>2, <1>8, <1>10, <2>2, PTL DEF Spec, DisturbancesEnd
    <3>7. Premises /\ <>[]~F /\ <>[]T => []<><<NetworkThread>>_vars
      BY <1>7, <2>1, PTL DEF NetworkRuns
    <3>8. Premises /\ <>[]T => []<>F
      BY <2>1, <3>6, <3>7, PTL
    <3> QED
      BY <2>1, <2>3, <3>1, <3>5, <3>8, PTL
  <2> QED
    BY <2>4 DEF F
<1> HIDE DEF Premises
<1>13. Premises => PeersFound
  BY <1>12 DEF PeersFound
<1> QED
  BY <1>13 DEF Premises

=============================================================================
