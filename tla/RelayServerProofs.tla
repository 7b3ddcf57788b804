------------------------- MODULE RelayServerProofs -------------------------
(***************************************************************************)
(* Theorems about the voice relay, for every set of UIDs and endpoints and *)
(* every value of the numeric constants.                                   *)
(***************************************************************************)
EXTENDS RelayServer, FiniteSetTheorems, TLAPS

(* What the two threads hold at each of their steps.                       *)
RxLocals ==
  /\ rxPc \notin {"idle", "admit", "answer"} => rxId \in Issued
  /\ rxPc = "answer" => rxEp \in EndPoints
  /\ rxPc \in {"evictEndPoint", "evictId", "evictLeft", "admit", "putId",
               "putUid", "snapshot", "greet"} => rxEp \in EndPoints /\ rxUid \in Uids

SweepLocals == sweepPc \notin {"sleep", "next"} => sweepCur \in Issued

TypeInv == TypeOK /\ RxLocals /\ SweepLocals

LEMMA TypeInit == Init => TypeInv
  <1> SUFFICES ASSUME Init PROVE TypeInv
    OBVIOUS
  <1>1. Issued = {}
    BY DEF Init, Issued
  <1> QED
    BY <1>1, TimeoutAssumption
    DEF Init, TypeInv, TypeOK, RxLocals, SweepLocals, None, RxSteps, SweepSteps, OldestAge

(* Issuing an id.                                                          *)
LEMMA NewSession ==
  ASSUME TypeOK, nextSessionId' = nextSessionId + 1
  PROVE  /\ Issued' = Issued \cup {nextSessionId}
         /\ nextSessionId \notin Issued
         /\ nextSessionId # None
         /\ nextSessionId' \in Nat \ {0}
  BY DEF TypeOK, Issued, None

(* What is announced to an endpoint stays a set of created sessions.       *)
LEMMA SendType ==
  ASSUME TypeOK, NEW ms, Send(ms),
         \A m \in ms : m.type = "ClientJoined" => m.id \in Issued
  PROVE  told' \in [EndPoints -> SUBSET Issued]
  <1>1. \A e \in EndPoints : Hear(e, ms) \subseteq Issued
    BY DEF Hear, TypeOK
  <1> QED BY <1>1 DEF Send

LEMMA TypeStep == TypeInv /\ [Next]_vars => TypeInv'
  <1> SUFFICES ASSUME TypeInv, [Next]_vars PROVE TypeInv'
    OBVIOUS
  <1>0. nextSessionId' = nextSessionId => Issued' = Issued
    BY DEF Issued
  <1>00. Issued \cap {None} = {}
    BY DEF Issued, None
  <1> USE <1>0, <1>00, TimeoutAssumption
      DEF TypeInv, TypeOK, RxLocals, SweepLocals, RxSteps, SweepSteps, OldestAge,
          registry, objects, rx, sweep, SendNothing
  <1>1. ASSUME NEW e \in EndPoints, NEW reason \in RefuseReasons, RefuseConnect(e, reason)
        PROVE  TypeInv'
    BY <1>1, SendType DEF RefuseConnect, Datagram, RefuseReasons
  <1>2. ASSUME NEW e \in EndPoints, NEW u \in Uids, BeginConnect(e, u)
        PROVE  TypeInv'
    BY <1>2 DEF BeginConnect
  <1>3. CASE EvictEndPoint
    BY <1>3 DEF EvictEndPoint, RxGoto
  <1>4. CASE EvictId
    BY <1>4 DEF EvictId, RxGoto, RemoveId
  <1>5. CASE EvictLeft
    BY <1>5, SendType DEF EvictLeft, RxGoto, Broadcast, Datagram
  <1>6. CASE RefuseFull
    BY <1>6, SendType DEF RefuseFull, RxReturn, Datagram
  <1>7. CASE Admit
    <2>1. Issued' = Issued \cup {nextSessionId} /\ nextSessionId' \in Nat \ {0}
      BY <1>7, NewSession DEF Admit
    <2>2. /\ endPointOf' \in [Issued' -> EndPoints]
          /\ uidOf' \in [Issued' -> Uids]
          /\ age' \in [Issued' -> 0..OldestAge]
      BY <1>7, <2>1 DEF Admit, With
    <2>3. /\ byEndPoint' \in [EndPoints -> Issued' \cup {None}]
          /\ byId' \subseteq Issued'
          /\ byUid' \in [Uids -> Issued' \cup {None}]
      BY <1>7, <2>1 DEF Admit
    <2>4. told' \in [EndPoints -> SUBSET (Issued')]
      BY <1>7, <2>1 DEF Admit
    <2>5. /\ rxPc' = "putId" /\ rxId' \in Issued'
          /\ rxPeers' \subseteq Issued' /\ rxEp' \in EndPoints /\ rxUid' \in Uids
          /\ sweepTodo' \subseteq Issued' /\ sweepCur' \in Issued' \cup {None}
          /\ sweepPc' = sweepPc /\ sweepCur' = sweepCur
      BY <1>7, <2>1 DEF Admit
    <2> QED BY <2>1, <2>2, <2>3, <2>4, <2>5
  <1>8. CASE PutId
    BY <1>8 DEF PutId, RxGoto
  <1>9. CASE PutUid
    BY <1>9 DEF PutUid, RxGoto
  <1>10. CASE SnapshotPeers
    BY <1>10, SendType DEF SnapshotPeers, Datagram
  <1>11. CASE Greet
    BY <1>11, SendType DEF Greet, RxReturn, Broadcast, Datagram
  <1>12. ASSUME NEW e \in EndPoints, BeginDisconnect(e)
         PROVE  TypeInv'
    BY <1>12 DEF BeginDisconnect
  <1>13. CASE DropId
    BY <1>13 DEF DropId, RxGoto, RemoveId
  <1>14. CASE DropUid
    BY <1>14 DEF DropUid, RxGoto
  <1>15. CASE DropLeft
    BY <1>15, SendType DEF DropLeft, RxReturn, Broadcast, Datagram
  <1>16. ASSUME NEW e \in EndPoints, HandlePing(e)
         PROVE  TypeInv'
    BY <1>16, SendType DEF HandlePing, Touch, Datagram
  <1>17. ASSUME NEW e \in EndPoints, HandleRosterRequest(e)
         PROVE  TypeInv'
    BY <1>17 DEF HandleRosterRequest
  <1>18. ASSUME NEW e \in EndPoints, NEW type \in {"VoiceDown", "RadioTxBroadcast"},
                NEW ok \in BOOLEAN, HandleRelay(e, type, ok)
         PROVE  TypeInv'
    BY <1>18, SendType DEF HandleRelay, Touch, Broadcast, Datagram
  <1>19. ASSUME NEW e \in EndPoints, IgnoreStranger(e)
         PROVE  TypeInv'
    BY <1>19 DEF IgnoreStranger
  <1>20. CASE BeginSweep
    BY <1>20 DEF BeginSweep
  <1>21. ASSUME NEW s \in sweepTodo, SweepSkip(s)
         PROVE  TypeInv'
    BY <1>21 DEF SweepSkip
  <1>22. ASSUME NEW s \in sweepTodo, SweepTake(s)
         PROVE  TypeInv'
    BY <1>22 DEF SweepTake
  <1>23. CASE SweepEndPoint
    BY <1>23 DEF SweepEndPoint, SweepGoto
  <1>24. CASE SweepId
    BY <1>24 DEF SweepId, SweepGoto, RemoveId
  <1>25. CASE SweepUid
    BY <1>25 DEF SweepUid, SweepGoto
  <1>26. CASE SweepLeft
    BY <1>26, SendType DEF SweepLeft, Broadcast, Datagram
  <1>27. CASE EndSweep
    BY <1>27 DEF EndSweep
  <1>28. CASE Tick
    BY <1>28 DEF Tick
  <1>29. CASE UNCHANGED vars
    BY <1>29 DEF vars
  <1>30. CASE AnswerRoster
    BY <1>30, SendType DEF AnswerRoster, RxReturn, Datagram
  <1> QED
    BY <1>1, <1>2, <1>3, <1>4, <1>5, <1>6, <1>7, <1>8, <1>9, <1>10, <1>11, <1>12,
       <1>13, <1>14, <1>15, <1>16, <1>17, <1>18, <1>19, <1>20, <1>21, <1>22, <1>23,
       <1>24, <1>25, <1>26, <1>27, <1>28, <1>29, <1>30
    DEF Next, Datagrams, HandlerStep, SweepStep

(* The types of the dictionaries, the session objects and both threads'    *)
(* locals (RelayServer.cs:19-22 and the locals of the handlers) are kept   *)
(* by every step of either thread.                                         *)
THEOREM TypeCorrect == Spec => []TypeOK
  <1>1. TypeInv => TypeOK
    BY DEF TypeInv
  <1> QED BY TypeInit, TypeStep, <1>1, PTL DEF Spec

----------------------------------------------------------------------------
(* Capacity.                                                                *)

Capacity ==
  /\ Cardinality(byId) <= MaxClients
  /\ rxPc = "putId" => Cardinality(byId) < MaxClients

(* _sessionsById is finite, so removing sessions cannot raise its size.     *)
LEMMA Finite ==
  ASSUME TypeOK
  PROVE  /\ IsFiniteSet(byId)
         /\ Cardinality(byId) \in Nat
         /\ \A S : S \subseteq byId => Cardinality(S) \in Nat /\ Cardinality(S) <= Cardinality(byId)
  <1>1. IsFiniteSet(Issued)
    BY FS_Interval DEF TypeOK, Issued
  <1>2. IsFiniteSet(byId)
    BY <1>1, FS_Subset DEF TypeOK
  <1> QED BY <1>2, FS_Subset, FS_CardinalityType

LEMMA CapacityStep ==
  TypeInv /\ Capacity /\ [Next]_vars => Capacity'
  <1> SUFFICES ASSUME TypeInv, Capacity, [Next]_vars PROVE Capacity'
    OBVIOUS
  <1>1. TypeOK /\ Cardinality(byId) \in Nat
    BY Finite DEF TypeInv
  <1>2. ASSUME byId' \subseteq byId, rxPc' = "putId" => rxPc = "putId"
        PROVE  Capacity'
    BY <1>1, <1>2, Finite, MaxClientsAssumption DEF Capacity
  <1>3. CASE Admit
    BY <1>1, <1>3, MaxClientsAssumption DEF Admit, ServerFull, Capacity
  <1>4. CASE PutId
    <2>1. Cardinality(byId') <= Cardinality(byId) + 1
      BY <1>1, <1>4, Finite, FS_AddElement DEF PutId
    <2>2. rxPc' # "putId"
      BY <1>4 DEF PutId, RxGoto
    <2>3. Cardinality(byId') \in Nat
      BY <1>1, <1>4, Finite, FS_AddElement DEF PutId
    <2> QED BY <1>1, <1>4, <2>1, <2>2, <2>3, MaxClientsAssumption DEF PutId, Capacity
  <1>5. ASSUME Next, ~Admit, ~PutId
        PROVE  byId' \subseteq byId /\ (rxPc' = "putId" => rxPc = "putId")
    <2> USE DEF registry, rx, RxGoto, RxReturn
    <2>1. CASE Datagrams
      BY <2>1 DEF Datagrams, RefuseConnect, BeginConnect, BeginDisconnect, HandlePing,
                  HandleRosterRequest, HandleRelay, IgnoreStranger
    <2>2. CASE HandlerStep
      <3>1. CASE EvictEndPoint \/ EvictId \/ EvictLeft \/ RefuseFull
        BY <3>1 DEF EvictEndPoint, EvictId, EvictLeft, RefuseFull, RemoveId
      <3>2. CASE PutUid \/ SnapshotPeers \/ Greet
        BY <3>2 DEF PutUid, SnapshotPeers, Greet
      <3>3. CASE DropId \/ DropUid \/ DropLeft \/ AnswerRoster
        BY <3>3 DEF DropId, DropUid, DropLeft, RemoveId, AnswerRoster
      <3> QED BY <1>5, <2>2, <3>1, <3>2, <3>3 DEF HandlerStep
    <2>3. CASE SweepStep
      BY <2>3 DEF SweepStep, BeginSweep, SweepSkip, SweepTake, SweepEndPoint, SweepId,
                  SweepUid, SweepLeft, EndSweep, RemoveId
    <2>4. CASE Tick
      BY <2>4 DEF Tick
    <2> QED BY <1>5, <2>1, <2>2, <2>3, <2>4 DEF Next
  <1>6. CASE UNCHANGED vars
    BY <1>2, <1>6 DEF vars
  <1> QED BY <1>2, <1>3, <1>4, <1>5, <1>6

(* The relay never holds more than MaxClients sessions, whatever the sweep  *)
(* does between the capacity check (RelayServer.cs:153) and the insertion   *)
(* (RelayServer.cs:167).                                                    *)
THEOREM CapacityCorrect == Spec => []CapacityBound
  <1>1. Init => Capacity
    BY FS_EmptySet, MaxClientsAssumption DEF Init, Capacity
  <1>2. Capacity => CapacityBound
    BY DEF Capacity, CapacityBound
  <1> QED BY TypeInit, TypeStep, CapacityStep, <1>1, <1>2, PTL DEF Spec

----------------------------------------------------------------------------
(* The indexes.                                                             *)

(* An entry leads to a session with that key which is registered, or is     *)
(* being registered, or which a thread has just unregistered and is about   *)
(* to remove from the index.                                                *)
EndPointIndex ==
  \A e \in EndPoints : byEndPoint[e] # None =>
    /\ endPointOf[byEndPoint[e]] = e
    /\ byEndPoint[e] \in byId \/ (rxPc = "putId" /\ byEndPoint[e] = rxId)

UidIndex ==
  \A u \in Uids : byUid[u] # None =>
    /\ uidOf[byUid[u]] = u
    /\ \/ byUid[u] \in byId
       \/ rxPc = "dropUid" /\ byUid[u] = rxId
       \/ sweepPc = "uid" /\ byUid[u] = sweepCur

(* What has been removed from an index before the session is removed from   *)
(* _sessionsById, and why a session being registered is not being swept: it *)
(* is too young.                                                            *)
Cleared ==
  /\ rxPc \in {"evictId", "dropId"} => \A e \in EndPoints : byEndPoint[e] # rxId
  /\ sweepPc = "id" => \A e \in EndPoints : byEndPoint[e] # sweepCur
  /\ rxPc \in {"evictEndPoint", "evictId"} => \A u \in Uids : byUid[u] # rxId
  /\ rxPc \in {"putId", "putUid"} =>
       /\ uidOf[rxId] = rxUid
       /\ age[rxId] = 0
       /\ sweepCur # rxId
  /\ rxPc = "putUid" => rxId \in byId

Indexes == EndPointIndex /\ UidIndex /\ Cleared

LEMMA IndexesStep ==
  TypeInv /\ TypeInv' /\ Indexes /\ [Next]_vars => Indexes'
  <1> SUFFICES ASSUME TypeInv, TypeInv', Indexes, [Next]_vars PROVE Indexes'
    OBVIOUS
  <1>0. None \notin Issued /\ (nextSessionId' = nextSessionId => Issued' = Issued)
    BY DEF Issued, None
  <1> USE <1>0
      DEF TypeInv, TypeOK, RxLocals, SweepLocals, Indexes, EndPointIndex, UidIndex,
          Cleared, registry, objects, rx, sweep
  <1>1. ASSUME NEW e \in EndPoints, NEW reason \in RefuseReasons, RefuseConnect(e, reason)
        PROVE  Indexes'
    BY <1>1 DEF RefuseConnect
  <1>2. ASSUME NEW e \in EndPoints, NEW u \in Uids, BeginConnect(e, u)
        PROVE  Indexes'
    BY <1>2 DEF BeginConnect
  <1>3. CASE EvictEndPoint
    BY <1>3 DEF EvictEndPoint, RxGoto
  <1>4. CASE EvictId
    BY <1>4 DEF EvictId, RxGoto, RemoveId
  <1>5. CASE EvictLeft
    BY <1>5 DEF EvictLeft, RxGoto
  <1>6. CASE RefuseFull
    BY <1>6 DEF RefuseFull, RxReturn
  <1>7. CASE Admit
    <2>1. Issued' = Issued \cup {nextSessionId} /\ nextSessionId \notin Issued
      BY <1>7, NewSession DEF Admit
    <2>2. \A s \in Issued : endPointOf'[s] = endPointOf[s] /\ uidOf'[s] = uidOf[s]
      BY <1>7, <2>1 DEF Admit, With
    <2>3. /\ endPointOf'[nextSessionId] = rxEp /\ uidOf'[nextSessionId] = rxUid
          /\ age'[nextSessionId] = 0
      BY <1>7, <2>1 DEF Admit, With
    <2>4. /\ byEndPoint' = [byEndPoint EXCEPT ![rxEp] = nextSessionId]
          /\ rxPc = "admit" /\ rxPc' = "putId" /\ rxId' = nextSessionId
          /\ rxUid' = rxUid
          /\ UNCHANGED <<byId, byUid, sweepPc, sweepCur>>
      BY <1>7 DEF Admit
    <2>5. EndPointIndex'
      <3> SUFFICES ASSUME NEW e \in EndPoints, byEndPoint'[e] # None
                   PROVE  /\ endPointOf'[byEndPoint'[e]] = e
                          /\ byEndPoint'[e] \in byId' \/ byEndPoint'[e] = rxId'
        BY <2>4
      <3>1. CASE e = rxEp
        BY <2>3, <2>4, <3>1
      <3>2. CASE e # rxEp
        <4>1. byEndPoint'[e] = byEndPoint[e] /\ byEndPoint[e] \in Issued
          BY <2>4, <3>2
        <4>2. endPointOf[byEndPoint[e]] = e /\ byEndPoint[e] \in byId
          BY <2>4, <4>1
        <4>3. endPointOf'[byEndPoint[e]] = endPointOf[byEndPoint[e]]
          BY <2>2, <4>1
        <4>4. byId' = byId
          BY <2>4
        <4> QED BY <4>1, <4>2, <4>3, <4>4
      <3> QED BY <3>1, <3>2
    <2>6. UidIndex'
      BY <2>1, <2>2, <2>4
    <2>7. uidOf'[rxId'] = rxUid' /\ age'[rxId'] = 0 /\ sweepCur' # rxId'
      BY <2>1, <2>3, <2>4, NewSession, <1>7 DEF Admit
    <2>8. sweepPc' = "id" => \A e \in EndPoints : byEndPoint'[e] # sweepCur'
      BY <2>1, <2>4
    <2>9. Cleared'
      BY <2>4, <2>7, <2>8
    <2> QED BY <2>5, <2>6, <2>9
  <1>8. CASE PutId
    BY <1>8 DEF PutId, RxGoto
  <1>9. CASE PutUid
    BY <1>9 DEF PutUid, RxGoto
  <1>10. CASE SnapshotPeers
    BY <1>10 DEF SnapshotPeers
  <1>11. CASE Greet
    BY <1>11 DEF Greet, RxReturn
  <1>12. ASSUME NEW e \in EndPoints, BeginDisconnect(e)
         PROVE  Indexes'
    BY <1>12 DEF BeginDisconnect
  <1>13. CASE DropId
    BY <1>13 DEF DropId, RxGoto, RemoveId
  <1>14. CASE DropUid
    BY <1>14 DEF DropUid, RxGoto
  <1>15. CASE DropLeft
    BY <1>15 DEF DropLeft, RxReturn
  <1>16. ASSUME NEW e \in EndPoints, HandlePing(e)
         PROVE  Indexes'
    BY <1>16 DEF HandlePing, Touch
  <1>17. ASSUME NEW e \in EndPoints, HandleRosterRequest(e)
         PROVE  Indexes'
    BY <1>17 DEF HandleRosterRequest
  <1>18. ASSUME NEW e \in EndPoints, NEW type \in {"VoiceDown", "RadioTxBroadcast"},
                NEW ok \in BOOLEAN, HandleRelay(e, type, ok)
         PROVE  Indexes'
    BY <1>18 DEF HandleRelay, Touch
  <1>19. ASSUME NEW e \in EndPoints, IgnoreStranger(e)
         PROVE  Indexes'
    BY <1>19 DEF IgnoreStranger
  <1>20. CASE BeginSweep
    BY <1>20 DEF BeginSweep
  <1>21. ASSUME NEW s \in sweepTodo, SweepSkip(s)
         PROVE  Indexes'
    BY <1>21 DEF SweepSkip
  <1>22. ASSUME NEW s \in sweepTodo, SweepTake(s)
         PROVE  Indexes'
    BY <1>22, TimeoutAssumption DEF SweepTake, Due
  <1>23. CASE SweepEndPoint
    BY <1>23 DEF SweepEndPoint, SweepGoto
  <1>24. CASE SweepId
    BY <1>24 DEF SweepId, SweepGoto, RemoveId
  <1>25. CASE SweepUid
    BY <1>25 DEF SweepUid, SweepGoto
  <1>26. CASE SweepLeft
    BY <1>26 DEF SweepLeft
  <1>27. CASE EndSweep
    BY <1>27 DEF EndSweep
  <1>28. CASE Tick
    BY <1>28 DEF Tick
  <1>29. CASE UNCHANGED vars
    BY <1>29 DEF vars
  <1>30. CASE AnswerRoster
    BY <1>30 DEF AnswerRoster, RxReturn
  <1> QED
    BY <1>1, <1>2, <1>3, <1>4, <1>5, <1>6, <1>7, <1>8, <1>9, <1>10, <1>11, <1>12,
       <1>13, <1>14, <1>15, <1>16, <1>17, <1>18, <1>19, <1>20, <1>21, <1>22, <1>23,
       <1>24, <1>25, <1>26, <1>27, <1>28, <1>29, <1>30
    DEF Next, Datagrams, HandlerStep, SweepStep

(* Between handlers and sweeps an index never leads to a session that has   *)
(* left _sessionsById, although both threads remove entries by key, in      *)
(* separate steps and without a common lock (RelayServer.cs:146-168,        *)
(* 290-296, 318-320).                                                       *)
THEOREM IndexesCorrect == Spec => []IndexesSound
  <1>1. Init => Indexes
    BY DEF Init, Indexes, EndPointIndex, UidIndex, Cleared
  <1>2. TypeInv /\ Indexes => IndexesSound
    BY DEF TypeInv, TypeOK, Indexes, EndPointIndex, UidIndex, IndexesSound
  <1> QED BY TypeInit, TypeStep, IndexesStep, <1>1, <1>2, PTL DEF Spec

----------------------------------------------------------------------------
(* The announcements.                                                       *)

Joining == {"putId", "putUid", "snapshot", "greet"}

(* Two registered sessions that do not know each other yet are the          *)
(* receive loop's business: one of them is the newcomer, or sits behind the *)
(* newcomer's endpoint, whose roster was emptied when it was admitted.      *)
Known ==
  \A s, t \in byId : s # t =>
    s \in told[endPointOf[t]] \/ (rxPc \in Joining /\ (s = rxId \/ endPointOf[t] = rxEp))

(* Only a session that has left is retracted, and the newcomer's greeting   *)
(* will name everybody who is still there.                                  *)
Owed ==
  /\ rxPc \in Joining => endPointOf[rxId] = rxEp
  /\ rxPc = "greet" => byId \ {rxId} \subseteq rxPeers
  /\ rxPc \in {"evictLeft", "dropUid", "dropLeft"} => rxId \notin byId
  /\ sweepPc \in {"uid", "left"} => sweepCur \notin byId

Announced == Known /\ Owed

LEMMA SendLeft ==
  ASSUME TypeOK, NEW s, Send(Broadcast("ClientLeft", s, byId))
  PROVE  \A e \in EndPoints : told[e] \ {s} \subseteq told'[e]
  BY DEF Send, Hear, Broadcast, Datagram

LEMMA SendOther ==
  ASSUME TypeOK, NEW ms, Send(ms), \A m \in ms : m.type # "ClientLeft"
  PROVE  /\ \A e \in EndPoints : told[e] \subseteq told'[e]
         /\ \A m \in ms : m.type = "ClientJoined" /\ m.to \in EndPoints => m.id \in told'[m.to]
  BY DEF Send, Hear

LEMMA AnnouncedStep ==
  TypeInv /\ TypeInv' /\ Indexes /\ Announced /\ [Next]_vars => Announced'
  <1> SUFFICES ASSUME TypeInv, TypeInv', Indexes, Announced, [Next]_vars PROVE Announced'
    OBVIOUS
  <1>0. None \notin Issued /\ (nextSessionId' = nextSessionId => Issued' = Issued)
    BY DEF Issued, None
  <1> USE <1>0
      DEF TypeInv, TypeOK, RxLocals, SweepLocals, Announced, Known, Owed, Joining,
          registry, objects, rx, sweep, SendNothing
  <1>1. ASSUME NEW e \in EndPoints, NEW reason \in RefuseReasons, RefuseConnect(e, reason)
        PROVE  Announced'
    BY <1>1, SendOther DEF RefuseConnect, Datagram, RefuseReasons
  <1>2. ASSUME NEW e \in EndPoints, NEW u \in Uids, BeginConnect(e, u)
        PROVE  Announced'
    BY <1>2 DEF BeginConnect
  <1>3. CASE EvictEndPoint
    BY <1>3 DEF EvictEndPoint, RxGoto
  <1>4. CASE EvictId
    BY <1>4 DEF EvictId, RxGoto, RemoveId
  <1>5. CASE EvictLeft
    BY <1>5, SendLeft DEF EvictLeft, RxGoto
  <1>6. CASE RefuseFull
    BY <1>6, SendOther DEF RefuseFull, RxReturn, Datagram
  <1>7. CASE Admit
    <2>1. Issued' = Issued \cup {nextSessionId} /\ nextSessionId \notin Issued
      BY <1>7, NewSession DEF Admit
    <2>2. \A s \in Issued : endPointOf'[s] = endPointOf[s]
      BY <1>7, <2>1 DEF Admit, With
    <2>3. endPointOf'[nextSessionId] = rxEp
      BY <1>7, <2>1 DEF Admit, With
    <2>4. /\ told' = [told EXCEPT ![rxEp] = {}]
          /\ rxPc = "admit" /\ rxPc' = "putId" /\ rxId' = nextSessionId /\ rxEp' = rxEp
          /\ UNCHANGED <<byId, sweepPc, sweepCur>>
      BY <1>7 DEF Admit
    <2>5. Known'
      <3> SUFFICES ASSUME NEW s \in byId, NEW t \in byId, s # t, endPointOf'[t] # rxEp
                   PROVE  s \in told'[endPointOf'[t]]
        BY <2>4
      <3>1. endPointOf'[t] = endPointOf[t] /\ endPointOf[t] \in EndPoints
        BY <2>2
      <3>2. s \in told[endPointOf[t]]
        BY <2>4
      <3> QED BY <2>4, <3>1, <3>2
    <2>6. Owed'
      BY <2>3, <2>4
    <2> QED BY <2>5, <2>6
  <1>8. CASE PutId
    BY <1>8 DEF PutId, RxGoto, Indexes, Cleared
  <1>9. CASE PutUid
    BY <1>9 DEF PutUid, RxGoto
  <1>10. CASE SnapshotPeers
    BY <1>10, SendOther DEF SnapshotPeers, Datagram
  <1>11. CASE Greet
    <2> DEFINE ms == {Datagram("ClientJoined", rxEp, p) : p \in rxPeers}
                       \cup Broadcast("ClientJoined", rxId, byId \ {rxId})
    <2>1. /\ rxPc = "greet" /\ rxPc' = "idle" /\ Send(ms)
          /\ UNCHANGED <<byId, endPointOf, sweepPc, sweepCur>>
      BY <1>11 DEF Greet, RxReturn
    <2>2. \A m \in ms : m.type # "ClientLeft"
      BY DEF Broadcast, Datagram
    <2>3. /\ \A e \in EndPoints : told[e] \subseteq told'[e]
          /\ \A m \in ms : m.type = "ClientJoined" /\ m.to \in EndPoints => m.id \in told'[m.to]
      BY <2>1, <2>2, SendOther
    <2>4. \A p \in rxPeers : p \in told'[rxEp]
      <3> SUFFICES ASSUME NEW p \in rxPeers PROVE p \in told'[rxEp]
        OBVIOUS
      <3>1. Datagram("ClientJoined", rxEp, p) \in ms
        OBVIOUS
      <3> QED BY <2>1, <2>3, <3>1 DEF Datagram
    <2>5. \A t \in byId \ {rxId} : rxId \in told'[endPointOf[t]]
      <3> SUFFICES ASSUME NEW t \in byId \ {rxId} PROVE rxId \in told'[endPointOf[t]]
        OBVIOUS
      <3>1. Datagram("ClientJoined", endPointOf[t], rxId) \in ms
        BY DEF Broadcast
      <3>2. endPointOf[t] \in EndPoints
        OBVIOUS
      <3> QED BY <2>3, <3>1, <3>2 DEF Datagram
    <2>6. \A s, t \in byId : s # t => s \in told'[endPointOf[t]]
      <3> SUFFICES ASSUME NEW s \in byId, NEW t \in byId, s # t
                   PROVE  s \in told'[endPointOf[t]]
        OBVIOUS
      <3>1. CASE s = rxId
        BY <2>5, <3>1
      <3>2. CASE s # rxId /\ endPointOf[t] = rxEp
        BY <2>1, <2>4, <3>2
      <3>3. CASE s # rxId /\ endPointOf[t] # rxEp
        BY <2>3, <3>3
      <3> QED BY <3>1, <3>2, <3>3
    <2> QED BY <2>1, <2>6
  <1>12. ASSUME NEW e \in EndPoints, BeginDisconnect(e)
         PROVE  Announced'
    BY <1>12 DEF BeginDisconnect
  <1>13. CASE DropId
    BY <1>13 DEF DropId, RxGoto, RemoveId
  <1>14. CASE DropUid
    BY <1>14 DEF DropUid, RxGoto
  <1>15. CASE DropLeft
    BY <1>15, SendLeft DEF DropLeft, RxReturn
  <1>16. ASSUME NEW e \in EndPoints, HandlePing(e)
         PROVE  Announced'
    BY <1>16, SendOther DEF HandlePing, Datagram
  <1>17. ASSUME NEW e \in EndPoints, HandleRosterRequest(e)
         PROVE  Announced'
    BY <1>17 DEF HandleRosterRequest
  <1>18. ASSUME NEW e \in EndPoints, NEW type \in {"VoiceDown", "RadioTxBroadcast"},
                NEW ok \in BOOLEAN, HandleRelay(e, type, ok)
         PROVE  Announced'
    BY <1>18, SendOther DEF HandleRelay, Broadcast, Datagram
  <1>19. ASSUME NEW e \in EndPoints, IgnoreStranger(e)
         PROVE  Announced'
    BY <1>19 DEF IgnoreStranger
  <1>20. CASE BeginSweep
    BY <1>20 DEF BeginSweep
  <1>21. ASSUME NEW s \in sweepTodo, SweepSkip(s)
         PROVE  Announced'
    BY <1>21 DEF SweepSkip
  <1>22. ASSUME NEW s \in sweepTodo, SweepTake(s)
         PROVE  Announced'
    BY <1>22 DEF SweepTake
  <1>23. CASE SweepEndPoint
    BY <1>23 DEF SweepEndPoint, SweepGoto
  <1>24. CASE SweepId
    BY <1>24 DEF SweepId, SweepGoto, RemoveId
  <1>25. CASE SweepUid
    BY <1>25 DEF SweepUid, SweepGoto
  <1>26. CASE SweepLeft
    BY <1>26, SendLeft DEF SweepLeft
  <1>27. CASE EndSweep
    BY <1>27 DEF EndSweep
  <1>28. CASE Tick
    BY <1>28 DEF Tick
  <1>29. CASE UNCHANGED vars
    BY <1>29 DEF vars
  <1>30. CASE AnswerRoster
    BY <1>30, SendOther DEF AnswerRoster, RxReturn, Datagram
  <1> QED
    BY <1>1, <1>2, <1>3, <1>4, <1>5, <1>6, <1>7, <1>8, <1>9, <1>10, <1>11, <1>12,
       <1>13, <1>14, <1>15, <1>16, <1>17, <1>18, <1>19, <1>20, <1>21, <1>22, <1>23,
       <1>24, <1>25, <1>26, <1>27, <1>28, <1>29, <1>30
    DEF Next, Datagrams, HandlerStep, SweepStep

(* Whenever the receive loop is between datagrams every registered session  *)
(* has been announced, and not retracted, to every other one: the greeting  *)
(* (RelayServer.cs:175-182) misses nobody, and a ClientLeft of the sweep or *)
(* of a handler never retracts a session that is still registered.          *)
THEOREM AnnouncedCorrect == Spec => []PeersAnnounced
  <1>1. Init => Indexes /\ Announced
    BY DEF Init, Indexes, EndPointIndex, UidIndex, Cleared, Announced, Known, Owed, Joining
  <1>2. Announced => PeersAnnounced
    BY DEF Announced, Known, PeersAnnounced, Joining
  <1> QED BY TypeInit, TypeStep, IndexesStep, AnnouncedStep, <1>1, <1>2, PTL DEF Spec

----------------------------------------------------------------------------
(* The relay implements SessionRegistry.                                    *)

Pending == IF rxPc = "putId" THEN rxId ELSE None

LEMMA RegistryStep ==
  TypeInv /\ Capacity /\ [Next]_vars =>
    [Registry!Next]_<<byId, nextSessionId - 1, Pending>>
  <1> SUFFICES ASSUME TypeInv, Capacity, [Next]_vars
               PROVE  [Registry!Next]_<<byId, nextSessionId - 1, Pending>>
    OBVIOUS
  <1>0. nextSessionId \in Nat \ {0} /\ None = 0 /\ None \notin Issued
    BY DEF TypeInv, TypeOK, None, Issued
  <1> USE <1>0 DEF Pending, registry, objects, rx, sweep, RxGoto, RxReturn
  (* A thread removes one session from _sessionsById: it leaves, or had      *)
  (* left already.                                                           *)
  <1>1. ASSUME NEW s, byId' = byId \ {s}, rxPc # "putId" \/ UNCHANGED <<rxPc, rxId>>,
               rxPc' = "putId" => rxPc = "putId", UNCHANGED nextSessionId
        PROVE  [Registry!Next]_<<byId, nextSessionId - 1, Pending>>
    <2>1. UNCHANGED <<nextSessionId - 1, Pending>>
      BY <1>1
    <2>2. CASE s \in byId
      BY <1>1, <2>1, <2>2 DEF Registry!Next, Registry!Leave
    <2>3. CASE s \notin byId
      BY <1>1, <2>1, <2>3
    <2> QED BY <2>2, <2>3
  <1>2. CASE Admit
    <2>1. Registry!Issue
      BY <1>2 DEF Admit, Registry!Issue
    <2> QED BY <2>1 DEF Registry!Next
  <1>3. CASE PutId
    <2>1. rxPc = "putId" /\ rxId # 0 /\ rxPc' = "putUid" /\ byId' = byId \cup {rxId}
          /\ UNCHANGED nextSessionId
      BY <1>3 DEF PutId, TypeInv, RxLocals
    <2>2. Cardinality(byId) < MaxClients
      BY <2>1 DEF Capacity
    <2>3. Registry!Cardinality(byId) = Cardinality(byId)
      BY Zenon DEF Registry!Cardinality, Cardinality
    <2>4. Registry!Join
      BY <2>1, <2>2, <2>3 DEF Registry!Join
    <2> QED BY <2>4 DEF Registry!Next
  <1>4. CASE EvictId
    BY <1>1, <1>4 DEF EvictId, RemoveId
  <1>5. CASE DropId
    BY <1>1, <1>5 DEF DropId, RemoveId
  <1>6. CASE SweepId
    BY <1>1, <1>6 DEF SweepId, RemoveId
  (* Every other step leaves _sessionsById alone and issues no id.           *)
  <1>7. ASSUME Next, ~Admit, ~PutId, ~EvictId, ~DropId, ~SweepId
        PROVE  UNCHANGED <<byId, nextSessionId - 1, Pending>>
    <2>1. CASE Datagrams
      BY <2>1 DEF Datagrams, RefuseConnect, BeginConnect, BeginDisconnect, HandlePing,
                  HandleRosterRequest, HandleRelay, IgnoreStranger
    <2>2. CASE EvictEndPoint \/ EvictLeft \/ RefuseFull
      BY <2>2 DEF EvictEndPoint, EvictLeft, RefuseFull
    <2>3. CASE PutUid \/ SnapshotPeers \/ Greet
      BY <2>3 DEF PutUid, SnapshotPeers, Greet
    <2>4. CASE DropUid \/ DropLeft \/ AnswerRoster
      BY <2>4 DEF DropUid, DropLeft, AnswerRoster
    <2>5. CASE SweepStep
      BY <1>7, <2>5 DEF SweepStep, BeginSweep, SweepSkip, SweepTake, SweepEndPoint,
                  SweepUid, SweepLeft, EndSweep
    <2>6. CASE Tick
      BY <2>6 DEF Tick
    <2> QED BY <1>7, <2>1, <2>2, <2>3, <2>4, <2>5, <2>6 DEF Next, HandlerStep
  <1>8. CASE UNCHANGED vars
    BY <1>8 DEF vars
  <1> QED BY <1>2, <1>3, <1>4, <1>5, <1>6, <1>7, <1>8

(* The dictionaries and the two threads implement the registry of           *)
(* sessions: an id is issued once, joins once while there is room, and      *)
(* is gone for good once it has left, whoever removes it and however often  *)
(* (RelayServer.cs:146-168, 290-296, 318-320).                              *)
THEOREM RegistryCorrect == Spec => RegistryContract
  <1>1. Init => Registry!Init /\ Capacity
    BY FS_EmptySet, MaxClientsAssumption DEF Init, Registry!Init, Capacity, None
  <1>2. RegistryContract <=>
          Registry!Init /\ [][Registry!Next]_<<byId, nextSessionId - 1, Pending>>
    BY DEF RegistryContract, Registry!Spec, Pending
  <1> QED BY TypeInit, TypeStep, CapacityStep, RegistryStep, <1>1, <1>2, PTL DEF Spec

----------------------------------------------------------------------------
(* Who is timed out while a sweep runs is still before it or just being     *)
(* removed: a session inserted meanwhile is new, and no time passes.        *)
StaleAhead ==
  sweepPc # "sleep" =>
    \A s \in byId : Due(s) =>
      s \in sweepTodo \/ (s = sweepCur /\ sweepPc \in {"endPoint", "id"})

PendingIsNew == rxPc = "putId" => age[rxId] = 0

Swept == StaleAhead /\ PendingIsNew

LEMMA SweptStep == TypeInv /\ Swept /\ [Next]_vars => Swept'
  <1> SUFFICES ASSUME TypeInv, Swept, [Next]_vars PROVE Swept'
    OBVIOUS
  <1> USE TimeoutAssumption
      DEF TypeInv, TypeOK, RxLocals, SweepLocals, Swept, StaleAhead, PendingIsNew, Due,
          registry, objects, rx, sweep, SendNothing
  <1>1. CASE /\ UNCHANGED <<age, byId, sweepPc, sweepTodo, sweepCur>>
             /\ rxPc' # "putId" \/ UNCHANGED <<rxPc, rxId>>
    BY <1>1
  <1>2. ASSUME NEW e \in EndPoints, HandlePing(e) \/ (\E type, ok : HandleRelay(e, type, ok))
        PROVE  Swept'
    <2>1. byEndPoint[e] \in Issued /\ age' = [age EXCEPT ![byEndPoint[e]] = 0]
      BY <1>2 DEF HandlePing, HandleRelay, Touch
    <2>2. \A s \in Issued : age'[s] = age[s] \/ age'[s] = 0
      BY <2>1
    <2>3. UNCHANGED <<byId, sweepPc, sweepTodo, sweepCur, rxPc, rxId>> /\ rxPc = "idle"
      BY <1>2 DEF HandlePing, HandleRelay
    <2>4. \A s \in byId : Due(s)' => Due(s)
      BY <2>2, <2>3
    <2> QED BY <2>3, <2>4
  <1>3. ASSUME EvictId \/ DropId PROVE Swept'
    <2>1. /\ byId' \subseteq byId /\ rxPc' # "putId"
          /\ UNCHANGED <<age, sweepPc, sweepTodo, sweepCur>>
      BY <1>3 DEF EvictId, DropId, RemoveId, RxGoto
    <2> QED BY <2>1
  <1>4. CASE Admit
    <2>1. nextSessionId \notin Issued
      BY NewSession, <1>4 DEF Admit
    <2>2. /\ \A s \in Issued : age'[s] = age[s]
          /\ age'[nextSessionId] = 0
      BY <1>4, <2>1 DEF Admit, With
    <2>3. \A s \in byId : age'[s] = age[s]
      BY <2>2
    <2>4. UNCHANGED <<byId, sweepPc, sweepTodo, sweepCur>> /\ rxId' = nextSessionId
      BY <1>4 DEF Admit
    <2> QED BY <2>2, <2>3, <2>4
  <1>5. CASE PutId
    <2>1. ~Due(rxId)
      BY <1>5 DEF PutId
    <2> QED BY <1>5, <2>1 DEF PutId, RxGoto
  <1>6. CASE BeginSweep
    BY <1>6 DEF BeginSweep
  <1>7. ASSUME NEW s \in sweepTodo, SweepSkip(s) \/ SweepTake(s) PROVE Swept'
    BY <1>7 DEF SweepSkip, SweepTake
  <1>8. CASE SweepEndPoint
    BY <1>8 DEF SweepEndPoint, SweepGoto
  <1>9. CASE SweepId
    <2>1. /\ byId' = byId \ {sweepCur} /\ sweepPc = "id" /\ sweepPc' = "uid"
          /\ UNCHANGED <<age, sweepTodo, sweepCur, rxPc, rxId>>
      BY <1>9 DEF SweepId, RemoveId, SweepGoto
    <2> QED BY <2>1
  <1>10. CASE SweepUid \/ SweepLeft \/ EndSweep
    BY <1>10 DEF SweepUid, SweepLeft, EndSweep, SweepGoto
  <1>11. CASE Tick
    BY <1>11 DEF Tick
  <1>12. CASE UNCHANGED vars
    BY <1>12 DEF vars
  <1>13. ASSUME NEW e \in EndPoints,
                \/ \E reason \in RefuseReasons : RefuseConnect(e, reason)
                \/ \E u \in Uids : BeginConnect(e, u)
                \/ BeginDisconnect(e) \/ HandleRosterRequest(e) \/ IgnoreStranger(e)
         PROVE  Swept'
    BY <1>1, <1>13
    DEF RefuseConnect, BeginConnect, BeginDisconnect, HandleRosterRequest, IgnoreStranger,
        RxGoto, RxReturn
  <1>14. CASE EvictEndPoint \/ EvictLeft \/ RefuseFull \/ PutUid \/ SnapshotPeers \/ Greet
              \/ DropUid \/ DropLeft \/ AnswerRoster
    BY <1>1, <1>14
    DEF EvictEndPoint, EvictLeft, RefuseFull, PutUid, SnapshotPeers, Greet, DropUid, DropLeft,
        AnswerRoster, RxGoto, RxReturn
  <1> QED BY <1>2, <1>3, <1>4, <1>5, <1>6, <1>7, <1>8, <1>9, <1>10, <1>11, <1>12, <1>13, <1>14
          DEF Next, Datagrams, HandlerStep, SweepStep

(* Nobody timed out survives a sweep, for any number of clients and any     *)
(* timeout, however many handlers run during the sweep.                     *)
THEOREM SweepCorrect == Spec => SweepLeavesNoStale
  <1>1. Init => TypeInv /\ Swept
    BY TypeInit DEF Init, Swept, StaleAhead, PendingIsNew
  <1>2. TypeInv /\ Swept /\ [Next]_vars => [EndSweep => \A s \in byId : ~Due(s)]_vars
    BY DEF Swept, StaleAhead, EndSweep
  <1> QED BY <1>1, <1>2, TypeStep, SweptStep, PTL DEF Spec, SweepLeavesNoStale

============================================================================
