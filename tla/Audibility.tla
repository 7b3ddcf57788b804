----------------------------- MODULE Audibility -----------------------------
(***************************************************************************)
(* The audibility solver of State.cpp: who is heard over which path, from  *)
(* what the game reports (POS, FREQ, TANGENT, SPEAKERS, radio towers) and  *)
(* what the relay says others transmit.  The sender thread takes a         *)
(* snapshot every 66 ms; the game's commands and the passing of time come  *)
(* in between.                                                             *)
(*                                                                         *)
(* Distances, terrain and volumes are abstracted to the tests the solver   *)
(* makes on them: within speaking range, within radio range, reached       *)
(* through a tower; a gain is zero or not.                                 *)
(***************************************************************************)
EXTENDS Integers, FiniteSets

CONSTANTS
  Me,            \* the listener
  Others,        \* the other players
  Reports,       \* what POS may say of each player, sets of ReportType
  Transmissions, \* what others may transmit: [freq, effect]
  Tunings,       \* what FREQ may say: [sw, lr], functions from frequency to radio
  SpeakerLists,  \* what SPEAKERS may say: sets of [freq, owner, at]
  Towers,        \* radio towers
  Configs,       \* settings of the mission
  Classes,       \* class names of radios
  Off,           \* none
  ClientExpiry,  \* kClientExpiry, in units of time
  TxExpiry,      \* kTxExpiry, in units of time
  MaxCalls       \* bound: commands and announcements

Players == Others \cup {Me}

(* spectating and enemy as in POS; sw, lr: canUseSW, canUseLR; crew: in the *)
(* listener's vehicle, on the same intercom; near: within speaking range    *)
(* and of a speaker's sound; ranged: within the range of the transmission;  *)
(* towers: those that connect the player with the listener.                 *)
ReportType ==
  [spectating: BOOLEAN, enemy: BOOLEAN, sw: BOOLEAN, lr: BOOLEAN, crew: BOOLEAN,
   near: BOOLEAN, ranged: BOOLEAN, towers: SUBSET Towers]

ASSUME ReportsAssumption == Reports \in [Players -> SUBSET ReportType]
ASSUME PlayersAssumption == Me \notin Others
ASSUME OffAssumption == Off \notin ReportType \cup Transmissions \cup Classes
ASSUME AgesAssumption == {ClientExpiry, TxExpiry} \subseteq Nat \ {0} /\ MaxCalls \in Nat

VARIABLES
  clients,    \* m_clients: the last report of each player, or Off
  clientAge,  \* time since lastUpdate
  named,      \* m_myNickname is known
  tuning,     \* m_swFrequencies and m_lrFrequencies
  keyed,      \* class of the radio whose tangent is pressed, or Off
  speakers, towers,
  remoteTx,   \* m_remoteTx: transmission of each player, or Off
  txAge,      \* time since received
  cfg,
  rows,       \* the last snapshot
  lrIncoming, talking, receiving,
  calls

vars == <<clients, clientAge, named, tuning, keyed, speakers, towers, remoteTx, txAge,
          cfg, rows, lrIncoming, talking, receiving, calls>>

results == <<rows, lrIncoming, talking, receiving>>

----------------------------------------------------------------------------
(* The paths, as functions of what a snapshot sees.                         *)

Fresh(p) == clients[p] # Off /\ clientAge[p] < ClientExpiry

(* Mutant: a transmission is remembered until it is taken back (the stuck   *)
(* speaking indicator of State.cpp:820-822).                                *)
FreshTxForever(n) == remoteTx[n]

FreshTx(n) == IF txAge[n] < TxExpiry THEN remoteTx[n] ELSE Off

World ==
  [clients |-> clients, tx |-> [n \in Others |-> FreshTx(n)], tuning |-> tuning,
   keyed |-> keyed, speakers |-> speakers, towers |-> towers, ducking |-> lrIncoming]

InRange(w, n) == w.clients[n].ranged \/ w.clients[n].towers \cap w.towers # {}

(* The radio a transmission comes in on: long range where it is tuned and   *)
(* usable, else short range.                                                *)
Receivers(w, f) ==
  LET lr == {[path |-> "lr", radio |-> w.tuning.lr[g]] :
               g \in {f} \cap DOMAIN w.tuning.lr}
      sw == {[path |-> "sw", radio |-> w.tuning.sw[g]] :
               g \in {f} \cap DOMAIN w.tuning.sw}
  IN  IF w.clients[Me].lr /\ lr # {} THEN lr
      ELSE IF w.clients[Me].sw THEN sw ELSE {}

(* Half duplex: not over the radio we transmit with.                        *)
Blocked(w, radio) == ~cfg.fullDuplex /\ w.keyed # Off /\ radio.class = w.keyed

Transmits(w, n) == w.tx[n] # Off /\ ~w.clients[n].spectating

Earpiece(w, n) ==
  IF Transmits(w, n) /\ InRange(w, n) /\ w.tx[n].effect
    THEN {[who |-> n, path |-> r.path, radio |-> r.radio, ducked |-> FALSE] :
            r \in {q \in Receivers(w, w.tx[n].freq) : ~Blocked(w, q.radio)}}
    ELSE {}

Row(n, path, ducked) == [who |-> n, path |-> path, radio |-> Off, ducked |-> ducked]

(* A speaker stands somewhere, or moves with its owner, who must be known.  *)
Sounds(w, s) ==
  \/ s.at = "near"
  \/ /\ s.at = "owner"
     /\ w.clients[s.owner] # Off
     /\ s.owner = Me \/ w.clients[s.owner].near

FromSpeakers(w, n) ==
  IF /\ Transmits(w, n) /\ InRange(w, n)
     /\ \E s \in w.speakers : s.owner # n /\ s.freq = w.tx[n].freq /\ Sounds(w, s)
    THEN {Row(n, "speaker", FALSE)} ELSE {}

(* Whoever transmits on any radio is not heard over the intercom, even by   *)
(* those who are not tuned to that radio or cannot receive it.              *)
Intercom(w, n) ==
  IF cfg.intercom /\ w.tx[n] = Off /\ w.clients[n].crew /\ w.clients[Me].crew
    THEN {Row(n, "intercom", w.ducking)} ELSE {}

HiddenFromSpectator(w, n) ==
  /\ w.clients[Me].spectating
  /\ IF w.clients[n].enemy THEN cfg.notHearEnemies ELSE ~cfg.hearFriendlies

Direct(w, n) ==
  IF w.clients[n].near /\ ~w.clients[n].spectating /\ ~HiddenFromSpectator(w, n)
    THEN {Row(n, "direct", FALSE)} ELSE {}

(* Spectators hear each other directly, and nobody else over any path but   *)
(* the ones below.                                                          *)
Heard(w, n) ==
  IF w.clients[Me].spectating /\ w.clients[n].spectating
    THEN IF cfg.muteSpectators THEN {} ELSE {Row(n, "direct", FALSE)}
    ELSE Earpiece(w, n) \cup FromSpeakers(w, n) \cup Intercom(w, n) \cup Direct(w, n)

(* Reception of a long-range radio that is not turned down.                 *)
Loud(row) == row.path = "lr" /\ row.radio.loud

(* Mutant: the flag of the tick before is never taken back.                 *)
SnapshotStickyDucking ==
  /\ rows' = IF named /\ Fresh(Me)
               THEN UNION {Heard(World, n) : n \in {o \in Others : Fresh(o)}}
               ELSE {}
  /\ lrIncoming' = (lrIncoming \/ \E r \in rows' : Loud(r))
  /\ receiving' = {r.who : r \in {q \in rows' : q.path # "direct"}}
  /\ talking' = {n \in Others : FreshTx(n) # Off}
  /\ UNCHANGED <<clients, clientAge, named, tuning, keyed, speakers, towers, remoteTx,
                 txAge, cfg, calls>>

(* Mutant: who was received is not forgotten.                               *)
SnapshotStickyReceiving ==
  /\ rows' = IF named /\ Fresh(Me)
               THEN UNION {Heard(World, n) : n \in {o \in Others : Fresh(o)}}
               ELSE {}
  /\ lrIncoming' = (\E r \in rows' : Loud(r))
  /\ receiving' = receiving \cup {r.who : r \in {q \in rows' : q.path # "direct"}}
  /\ talking' = {n \in Others : FreshTx(n) # Off}
  /\ UNCHANGED <<clients, clientAge, named, tuning, keyed, speakers, towers, remoteTx,
                 txAge, cfg, calls>>

(* computeAudibleUnits.                                                     *)
Snapshot ==
  /\ rows' = IF named /\ Fresh(Me)
               THEN UNION {Heard(World, n) : n \in {o \in Others : Fresh(o)}}
               ELSE {}
  /\ lrIncoming' = (\E r \in rows' : Loud(r))
  /\ receiving' = {r.who : r \in {q \in rows' : q.path # "direct"}}
  /\ talking' = {n \in Others : FreshTx(n) # Off}
  /\ UNCHANGED <<clients, clientAge, named, tuning, keyed, speakers, towers, remoteTx,
                 txAge, cfg, calls>>

----------------------------------------------------------------------------
(* The game's commands and the relay's announcements.                       *)

Call == calls > 0 /\ calls' = calls - 1

Pos(p, report) ==
  /\ Call
  /\ clients' = [clients EXCEPT ![p] = report]
  /\ clientAge' = [clientAge EXCEPT ![p] = 0]
  /\ UNCHANGED <<named, tuning, keyed, speakers, towers, remoteTx, txAge, cfg, results>>

Freq(t) ==
  /\ Call
  /\ named' = TRUE
  /\ tuning' = t
  /\ UNCHANGED <<clients, clientAge, keyed, speakers, towers, remoteTx, txAge, cfg, results>>

(* TANGENT with the class of the radio, RELEASED, RELEASE_ALL_TANGENTS, or  *)
(* the own KILLED.                                                          *)
Tangent(c) ==
  /\ Call
  /\ c # keyed
  /\ keyed' = c
  /\ UNCHANGED <<clients, clientAge, named, tuning, speakers, towers, remoteTx, txAge, cfg,
                 results>>

Speakers(list) ==
  /\ Call
  /\ speakers' = list
  /\ UNCHANGED <<clients, clientAge, named, tuning, keyed, towers, remoteTx, txAge, cfg,
                 results>>

(* RadioTwrAdd and RadioTwrDel.                                             *)
Tower(t) ==
  /\ Call
  /\ towers' \in {towers \cup {t}, towers \ {t}}
  /\ UNCHANGED <<clients, clientAge, named, tuning, keyed, speakers, remoteTx, txAge, cfg,
                 results>>

SetRemoteTx(n, t) ==
  /\ Call
  /\ remoteTx' = [remoteTx EXCEPT ![n] = t]
  /\ txAge' = [txAge EXCEPT ![n] = 0]
  /\ UNCHANGED <<clients, clientAge, named, tuning, keyed, speakers, towers, cfg, results>>

(* handleMissionEnd: the own name, the settings, the talking names and the  *)
(* ducking flag stay; the rows are replaced by the next snapshot.           *)
MissionEnd ==
  /\ Call
  /\ clients' = [p \in Players |-> Off]
  /\ remoteTx' = [n \in Others |-> Off]
  /\ tuning' = [sw |-> <<>>, lr |-> <<>>]
  /\ keyed' = Off /\ speakers' = {} /\ towers' = {} /\ receiving' = {}
  /\ UNCHANGED <<clientAge, txAge, named, cfg, rows, lrIncoming, talking>>

Older(age, limit) == IF age < limit THEN age + 1 ELSE age

Elapse ==
  /\ clientAge' = [p \in Players |-> Older(clientAge[p], ClientExpiry)]
  /\ txAge' = [n \in Others |-> Older(txAge[n], TxExpiry)]
  /\ UNCHANGED <<clients, named, tuning, keyed, speakers, towers, remoteTx, cfg, results,
                 calls>>

----------------------------------------------------------------------------
Init ==
  /\ clients = [p \in Players |-> Off] /\ clientAge = [p \in Players |-> ClientExpiry]
  /\ named = FALSE /\ tuning = [sw |-> <<>>, lr |-> <<>>] /\ keyed = Off
  /\ speakers = {} /\ towers = {}
  /\ remoteTx = [n \in Others |-> Off] /\ txAge = [n \in Others |-> TxExpiry]
  /\ cfg \in Configs
  /\ rows = {} /\ lrIncoming = FALSE /\ talking = {} /\ receiving = {}
  /\ calls = MaxCalls

Next ==
  \/ \E p \in Players : \E r \in Reports[p] : Pos(p, r)
  \/ \E t \in Tunings : Freq(t)
  \/ \E c \in Classes \cup {Off} : Tangent(c)
  \/ \E list \in SpeakerLists : Speakers(list)
  \/ \E t \in Towers : Tower(t)
  \/ \E n \in Others, t \in Transmissions \cup {Off} : SetRemoteTx(n, t)
  \/ MissionEnd
  \/ Snapshot \/ Elapse

Spec == Init /\ [][Next]_vars

(* The sender thread takes snapshots and time passes.                       *)
FairSpec == Spec /\ WF_vars(Snapshot) /\ WF_vars(Elapse)

----------------------------------------------------------------------------
(* Types of what the solver keeps; ages stop at the expiry, and whoever     *)
(* counts as received has a row.                                            *)
TypeOK ==
  /\ clients \in [Players -> ReportType \cup {Off}]
  /\ clientAge \in [Players -> 0 .. ClientExpiry]
  /\ txAge \in [Others -> 0 .. TxExpiry]
  /\ remoteTx \in [Others -> Transmissions \cup {Off}]
  /\ keyed \in Classes \cup {Off}
  /\ towers \subseteq Towers
  /\ lrIncoming \in BOOLEAN
  /\ talking \subseteq Others /\ receiving \subseteq Others
  /\ receiving \subseteq {r.who : r \in rows}
  /\ calls \in 0 .. MaxCalls

(* State.cpp:758: rows come out in the order of a hash table, so whether    *)
(* the intercom is ducked is what the snapshot before found, for every      *)
(* player alike, and follows a long-range reception by exactly one          *)
(* snapshot, across the end of a mission too.                               *)
DuckingFollows ==
  [][Snapshot => \A r \in rows' :
       r.path = "intercom" => (r.ducked <=> \E q \in rows : Loud(q))]_vars

(* State.cpp:820-826: nobody is left speaking, received or audible once the *)
(* game and the relay report nothing more (the stuck speaking indicator).   *)
FallsQuiet == <>[](rows = {} /\ talking = {} /\ receiving = {} /\ ~lrIncoming)

=============================================================================
