-------------------------- MODULE AudibilityProofs --------------------------
(***************************************************************************)
(* Proofs about the audibility solver, for every set of players, reports,  *)
(* tunings, speakers, towers and settings.                                 *)
(***************************************************************************)
EXTENDS Audibility, TLAPS

(* A row of a player names that player, and an intercom row is ducked as    *)
(* the snapshot before says.                                                *)
LEMMA RowsOfHeard ==
  ASSUME NEW w, NEW n, NEW r \in Heard(w, n)
  PROVE  r.who = n /\ (r.path = "intercom" => r.ducked = w.ducking)
<1>1. CASE r \in Earpiece(w, n)
  <2>1. PICK q \in Receivers(w, w.tx[n].freq) :
          r = [who |-> n, path |-> q.path, radio |-> q.radio, ducked |-> FALSE]
    BY <1>1 DEF Earpiece
  <2>2. q.path \in {"lr", "sw"}
    BY DEF Receivers
  <2> QED BY <2>1, <2>2
<1>2. CASE r \in FromSpeakers(w, n)
  BY <1>2 DEF FromSpeakers, Row
<1>3. CASE r \in Intercom(w, n)
  BY <1>3 DEF Intercom, Row
<1>4. CASE r \in Direct(w, n) \/ r = Row(n, "direct", FALSE)
  BY <1>4 DEF Direct, Row
<1> QED BY <1>1, <1>2, <1>3, <1>4 DEF Heard

(* TypeOK is inductive.                                                     *)
LEMMA InitTypes == Init => TypeOK
<1> SUFFICES ASSUME Init PROVE TypeOK
  OBVIOUS
<1>1. clientAge \in [Players -> 0 .. ClientExpiry] /\ txAge \in [Others -> 0 .. TxExpiry]
  BY AgesAssumption DEF Init
<1>2. calls \in 0 .. MaxCalls
  BY AgesAssumption DEF Init
<1>3. lrIncoming \in BOOLEAN
  BY DEF Init
<1> QED BY <1>1, <1>2, <1>3 DEF Init, TypeOK

LEMMA OlderBounds ==
  ASSUME NEW limit \in Nat, NEW age \in 0 .. limit
  PROVE  Older(age, limit) \in 0 .. limit
  BY DEF Older

LEMMA StepTypes == TypeOK /\ [Next]_vars => TypeOK'
<1> SUFFICES ASSUME TypeOK, [Next]_vars PROVE TypeOK'
  OBVIOUS
<1>1. ASSUME NEW p \in Players, NEW r \in Reports[p], Pos(p, r) PROVE TypeOK'
  <2>1. r \in ReportType
    BY ReportsAssumption
  <2> QED BY <1>1, <2>1, AgesAssumption DEF TypeOK, Pos, Call, results
<1>2. ASSUME NEW t, Freq(t) PROVE TypeOK'
  BY <1>2, AgesAssumption DEF TypeOK, Freq, Call, results
<1>3. ASSUME NEW c \in Classes \cup {Off}, Tangent(c) PROVE TypeOK'
  BY <1>3, AgesAssumption DEF TypeOK, Tangent, Call, results
<1>4. ASSUME NEW list, Speakers(list) PROVE TypeOK'
  BY <1>4, AgesAssumption DEF TypeOK, Speakers, Call, results
<1>5. ASSUME NEW t \in Towers, Tower(t) PROVE TypeOK'
  BY <1>5, AgesAssumption DEF TypeOK, Tower, Call, results
<1>6. ASSUME NEW n \in Others, NEW t \in Transmissions \cup {Off}, SetRemoteTx(n, t)
      PROVE  TypeOK'
  BY <1>6, AgesAssumption DEF TypeOK, SetRemoteTx, Call, results
<1>7. ASSUME MissionEnd PROVE TypeOK'
  BY <1>7, AgesAssumption DEF TypeOK, MissionEnd, Call
<1>8. ASSUME Snapshot PROVE TypeOK'
  <2>1. \A r \in rows' : r.who \in Others
    <3> SUFFICES ASSUME NEW r \in rows' PROVE r.who \in Others
      OBVIOUS
    <3>1. PICK n \in Others : r \in Heard(World, n)
      BY <1>8 DEF Snapshot
    <3> QED BY <3>1, RowsOfHeard
  <2>2. receiving' \subseteq Others /\ receiving' \subseteq {r.who : r \in rows'}
    BY <1>8, <2>1 DEF Snapshot
  <2>3. lrIncoming' \in BOOLEAN
    BY <1>8 DEF Snapshot
  <2>4. talking' \subseteq Others
    BY <1>8 DEF Snapshot
  <2> QED BY <1>8, <2>2, <2>3, <2>4 DEF TypeOK, Snapshot
<1>9. ASSUME Elapse PROVE TypeOK'
  <2>1. clientAge' \in [Players -> 0 .. ClientExpiry]
    BY <1>9, OlderBounds, AgesAssumption DEF TypeOK, Elapse
  <2>2. txAge' \in [Others -> 0 .. TxExpiry]
    BY <1>9, OlderBounds, AgesAssumption DEF TypeOK, Elapse
  <2> QED BY <1>9, <2>1, <2>2 DEF TypeOK, Elapse, results
<1>10. CASE UNCHANGED vars
  BY <1>10 DEF TypeOK, vars
<1> QED BY <1>1, <1>2, <1>3, <1>4, <1>5, <1>6, <1>7, <1>8, <1>9, <1>10 DEF Next

(* The types of the solver's state, for every value of the constants.       *)
THEOREM TypeCorrect == Spec => []TypeOK
  BY InitTypes, StepTypes, PTL DEF Spec

----------------------------------------------------------------------------
(* The flag a snapshot leaves says what its own rows say; nothing but a     *)
(* snapshot touches either.                                                 *)
Remembered == lrIncoming <=> \E r \in rows : Loud(r)

LEMMA StepRemembered == Remembered /\ [Next]_vars => Remembered'
<1> SUFFICES ASSUME Remembered, [Next]_vars PROVE Remembered'
  OBVIOUS
<1>1. CASE Snapshot
  BY <1>1 DEF Snapshot, Remembered
<1>2. CASE MissionEnd
  BY <1>2 DEF MissionEnd, Remembered
<1>3. CASE UNCHANGED <<rows, lrIncoming>>
  BY <1>3 DEF Remembered
<1>4. Snapshot \/ MissionEnd \/ UNCHANGED <<rows, lrIncoming>>
  BY DEF Next, Pos, Freq, Tangent, Speakers, Tower, SetRemoteTx, Elapse, vars, results
<1> QED BY <1>1, <1>2, <1>3, <1>4

LEMMA StepDucking ==
  Remembered => [Snapshot => \A r \in rows' :
    r.path = "intercom" => (r.ducked <=> \E q \in rows : Loud(q))]_vars
<1> SUFFICES ASSUME Remembered, Snapshot, NEW r \in rows', r.path = "intercom"
             PROVE  r.ducked <=> \E q \in rows : Loud(q)
  OBVIOUS
<1>1. PICK n \in Others : r \in Heard(World, n)
  BY DEF Snapshot
<1>2. r.ducked = World.ducking
  BY <1>1, RowsOfHeard
<1>3. World.ducking = lrIncoming
  BY DEF World
<1> QED BY <1>2, <1>3 DEF Remembered

(* The intercom follows a long-range reception by exactly one snapshot.     *)
THEOREM DuckingCorrect == Spec => DuckingFollows
<1>1. Init => Remembered
  BY DEF Init, Remembered
<1> QED BY <1>1, StepRemembered, StepDucking, PTL DEF Spec, DuckingFollows

----------------------------------------------------------------------------
(* Nobody has reported, and nobody was announced, for as long as both       *)
(* expiries say.                                                            *)
Stale == (\A p \in Players : ~Fresh(p)) /\ (\A n \in Others : FreshTx(n) = Off)

(* Nobody is audible, and no indicator says so.                             *)
Quiet == rows = {} /\ talking = {} /\ receiving = {} /\ ~lrIncoming

(* Snapshots are taken for as long as there is something to clear away.     *)
SnapshotsGoOn == <>[](Stale /\ ~Quiet) => []<><<Snapshot>>_vars

(* A snapshot of a stale world finds nobody.                                *)
LEMMA StaleQuiet == Stale /\ Snapshot => Quiet'
<1> SUFFICES ASSUME Stale, Snapshot PROVE Quiet'
  OBVIOUS
<1>1. ~Fresh(Me)
  BY DEF Stale, Players
<1>2. rows' = {}
  BY <1>1 DEF Snapshot
<1>3. receiving' = {} /\ lrIncoming' = FALSE
  BY <1>2 DEF Snapshot
<1>4. talking' = {}
  BY DEF Snapshot, Stale
<1> QED
  BY <1>2, <1>3, <1>4 DEF Quiet

(* Nothing but a snapshot finds anybody.                                    *)
LEMMA QuietStays == Quiet /\ [Next]_vars => Quiet' \/ Snapshot
  BY DEF Quiet, Next, Pos, Freq, Tangent, Speakers, Tower, SetRemoteTx, MissionEnd, Elapse,
         results, vars

(* The game and the relay report nothing more, and what they reported gets  *)
(* older than its expiry.                                                   *)
NothingMore == <>[][calls' = calls]_vars

ReportsExpire == []<>Stale

(* Nobody comes back without a report.                                      *)
LEMMA StaleStays == TypeOK /\ Stale /\ [Next]_vars /\ [calls' = calls]_vars => Stale'
<1> SUFFICES ASSUME TypeOK, Stale, [Next]_vars, [calls' = calls]_vars PROVE Stale'
  OBVIOUS
<1>1. Call => UNCHANGED vars
  BY AgesAssumption DEF Call, TypeOK
<1>2. CASE UNCHANGED <<clients, clientAge, remoteTx, txAge>>
  BY <1>2 DEF Stale, Fresh, FreshTx
<1>3. CASE Elapse
  <2>1. ASSUME NEW p \in Players PROVE ~Fresh(p)'
    <3>1. clients' = clients /\ clientAge'[p] = Older(clientAge[p], ClientExpiry)
      BY <1>3 DEF Elapse
    <3>2. clientAge[p] \in 0..ClientExpiry /\ ClientExpiry \in Nat
      BY AgesAssumption DEF TypeOK
    <3>3. clients[p] = Off \/ ~(clientAge[p] < ClientExpiry)
      BY DEF Stale, Fresh
    <3>4. clients[p] = Off \/ ~(clientAge'[p] < ClientExpiry)
      BY <3>1, <3>2, <3>3 DEF Older
    <3> QED
      BY <3>1, <3>4 DEF Fresh
  <2>2. ASSUME NEW n \in Others PROVE FreshTx(n)' = Off
    <3>1. remoteTx' = remoteTx /\ txAge'[n] = Older(txAge[n], TxExpiry)
      BY <1>3 DEF Elapse
    <3>2. txAge[n] \in 0..TxExpiry /\ TxExpiry \in Nat
      BY AgesAssumption DEF TypeOK
    <3>3. remoteTx[n] = Off \/ ~(txAge[n] < TxExpiry)
      BY DEF Stale, FreshTx
    <3>4. remoteTx[n] = Off \/ ~(txAge'[n] < TxExpiry)
      BY <3>1, <3>2, <3>3 DEF Older
    <3> QED
      BY <3>1, <3>4 DEF FreshTx
  <2> QED
    BY <2>1, <2>2 DEF Stale
<1>4. Call \/ Elapse \/ UNCHANGED <<clients, clientAge, remoteTx, txAge>>
  BY DEF Next, Pos, Freq, Tangent, Speakers, Tower, SetRemoteTx, MissionEnd, Snapshot, vars
<1> QED
  BY <1>1, <1>2, <1>3, <1>4 DEF vars

(* Nobody is left speaking, received or audible, for any set of players and *)
(* every expiry: a snapshot of a world without fresh reports clears rows and*)
(* indicators, the ducking flag too, and they stay clear                    *)
(* (State.cpp:820-826). The premises follow from the fairness of FairSpec.  *)
THEOREM QuietCorrect == Spec /\ SnapshotsGoOn /\ NothingMore /\ ReportsExpire => FallsQuiet
<1>1. Quiet <=> rows = {} /\ talking = {} /\ receiving = {} /\ ~lrIncoming
  BY DEF Quiet
<1>2. Stale /\ Quiet /\ [Next]_vars => Quiet'
  BY StaleQuiet, QuietStays
<1>3. Stale /\ <<Snapshot>>_vars => Quiet'
  BY StaleQuiet
<1> QED
  BY <1>1, <1>2, <1>3, TypeCorrect, StaleStays, PTL
  DEF Spec, SnapshotsGoOn, NothingMore, ReportsExpire, FallsQuiet

=============================================================================
