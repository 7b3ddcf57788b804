------------------------------ MODULE RadioTx ------------------------------
(***************************************************************************)
(* A radio transmission as two clients see it: the transmitting client     *)
(* announces it from the tick of its sender thread (Extension.cpp), the    *)
(* relay forwards the datagrams, and the receiving client keeps it in two  *)
(* places that expire one after the other: the cache of VoiceSession.cpp,  *)
(* filled by its network thread, and m_remoteTx of State.cpp, filled from  *)
(* the cache by its own sender thread.                                     *)
(*                                                                         *)
(* Time is counted in ticks of the sender threads.  A datagram arrives     *)
(* within its tick unless the network loses it or holds it back.           *)
(***************************************************************************)
EXTENDS Integers

CONSTANTS
  Channels,        \* frequencies
  Refresh,         \* ticks between announcements while transmitting
  Expiry,          \* kTxExpiry, in ticks
  InactiveRepeats, \* s_inactiveRepeatsLeft after a release
  MaxChanges,      \* bound: presses, releases and changes of the frequency
  MaxFaults        \* bound: lost and held-back datagrams

ASSUME TicksAssumption ==
  /\ {Refresh, Expiry} \subseteq Nat \ {0}
  /\ {InactiveRepeats, MaxChanges, MaxFaults} \subseteq Nat
  /\ Refresh < Expiry

Off == "off"
Nothing == "nothing"

ASSUME ChannelsAssumption == Off \notin Channels /\ Nothing \notin Channels

VARIABLES
  local,      \* localTxState(): the frequency transmitted on, or Off
  sent,       \* s_sentActive and s_sentFreq: what was announced last
  sinceSend,  \* ticks since s_lastSend
  repeats,    \* s_inactiveRepeatsLeft
  wire,       \* the datagram of this tick, or Nothing
  late,       \* datagrams held back
  inRoster,   \* the receiver's roster has the sender's session
  resolved,   \* the receiver's State can map the sender's UID to a name
  cache,      \* m_txCache entry: frequency, or Off if there is none
  cacheAge,   \* ticks since its receivedAt
  view,       \* m_remoteTx entry: frequency, or Off
  viewAge,    \* ticks since its received
  talking,    \* the sender is in m_talkingNames
  cue,        \* the cue that the last datagram triggered
  sinceHeard, \* history: ticks since an active announcement was received
  heard,      \* history: the transmission going on has come to the receiver's State
  sentTick, recvTick,  \* the sender threads have run in this tick
  changes, faults

sender == <<sent, sinceSend, repeats, sentTick>>
receiver == <<inRoster, resolved, cache, cacheAge, view, viewAge, talking, cue,
              sinceHeard, recvTick>>
vars == <<local, sent, sinceSend, repeats, wire, late, inRoster, resolved, cache,
          cacheAge, view, viewAge, talking, cue, sinceHeard, heard, sentTick,
          recvTick, changes, faults>>

UpTo(n, cap) == IF n < cap THEN n + 1 ELSE cap

----------------------------------------------------------------------------
(* The transmitting client.                                                 *)

(* The tangent is pressed, released, or pressed on another frequency.       *)
Change(c) ==
  /\ changes > 0
  /\ c # local
  /\ local' = c
  /\ changes' = changes - 1
  /\ heard' = (heard /\ c # Off)
  /\ UNCHANGED sender /\ UNCHANGED receiver /\ UNCHANGED <<wire, late, faults>>

Changed == local # sent

(* Mutant: an unchanged transmission is not announced again.                *)
NeverDue == FALSE

RefreshDue == local # Off /\ sinceSend >= Refresh

(* Mutant: the repetitions are counted down below zero.                     *)
RepeatsLeftUnchecked ==
  CASE Changed /\ local = Off -> InactiveRepeats
    [] ~Changed /\ local = Off -> repeats - 1
    [] OTHER -> repeats

RepeatsLeft ==
  CASE Changed /\ local = Off -> InactiveRepeats
    [] ~Changed /\ local = Off /\ repeats > 0 -> repeats - 1
    [] OTHER -> repeats

(* A tick of the sender thread: announce a change, the end of a             *)
(* transmission InactiveRepeats times more, and a transmission that goes on *)
(* every Refresh ticks.                                                     *)
SenderTick ==
  /\ ~sentTick
  /\ sentTick' = TRUE
  /\ repeats' = RepeatsLeft
  /\ IF Changed \/ (local = Off /\ repeats > 0) \/ RefreshDue
       THEN /\ wire' = local
            /\ sent' = local
            /\ sinceSend' = 0
       ELSE UNCHANGED <<wire, sent, sinceSend>>
  /\ UNCHANGED receiver /\ UNCHANGED <<local, late, heard, changes, faults>>

----------------------------------------------------------------------------
(* The receiving client.                                                    *)

Fresh == cache # Off /\ cacheAge < Expiry

(* Mutant: every announcement of a transmission triggers the cue.           *)
OnRadioTxEachRefresh(m) ==
  IF ~inRoster
    THEN cue' = Nothing /\ UNCHANGED <<cache, cacheAge, sinceHeard>>
    ELSE /\ cache' = m
         /\ cacheAge' = IF m = Off THEN Expiry ELSE 0
         /\ cue' = CASE m # Off -> "start"
                     [] m = Off /\ cache # Off -> "stop"
                     [] OTHER -> Nothing
         /\ sinceHeard' = IF m # Off THEN 0 ELSE sinceHeard

(* onRadioTx: ignored from a session that is not in the roster.  The cue    *)
(* depends on whether there was an entry, expired or not.                   *)
OnRadioTx(m) ==
  IF ~inRoster
    THEN cue' = Nothing /\ UNCHANGED <<cache, cacheAge, sinceHeard>>
    ELSE /\ cache' = m
         /\ cacheAge' = IF m = Off THEN Expiry ELSE 0
         /\ cue' = CASE m # Off /\ cache = Off -> "start"
                     [] m = Off /\ cache # Off -> "stop"
                     [] OTHER -> Nothing
         /\ sinceHeard' = IF m # Off THEN 0 ELSE sinceHeard

Receive ==
  /\ wire # Nothing
  /\ OnRadioTx(wire)
  /\ wire' = Nothing
  /\ UNCHANGED sender
  /\ UNCHANGED <<local, late, inRoster, resolved, view, viewAge, talking, heard,
                 recvTick, changes, faults>>

ReceiveLate(m) ==
  /\ OnRadioTx(m)
  /\ late' = late \ {m}
  /\ UNCHANGED sender
  /\ UNCHANGED <<local, wire, inRoster, resolved, view, viewAge, talking, heard,
                 recvTick, changes, faults>>

(* Mutant: entries of m_remoteTx do not expire.                             *)
AlwaysValid(age) == TRUE

Valid(age) == age < Expiry

(* A tick of the receiver's sender thread: what currentRadioTx returns goes *)
(* to setRemoteTx, and computeAudibleUnits rebuilds m_talkingNames from     *)
(* what has not expired there.                                              *)
ReceiverTick ==
  /\ ~recvTick
  /\ wire = Nothing
  /\ recvTick' = TRUE
  /\ IF Fresh /\ resolved
       THEN view' = cache /\ viewAge' = 0
       ELSE UNCHANGED <<view, viewAge>>
  /\ talking' = (view' # Off /\ Valid(viewAge'))
  /\ heard' = (heard \/ (local # Off /\ Fresh /\ resolved))
  /\ UNCHANGED sender
  /\ UNCHANGED <<local, wire, late, inRoster, resolved, cache, cacheAge, cue, sinceHeard,
                 changes, faults>>

(* A ClientJoined or a UID command arrives.                                 *)
LearnSession ==
  /\ ~inRoster
  /\ inRoster' = TRUE
  /\ UNCHANGED sender
  /\ UNCHANGED <<local, wire, late, resolved, cache, cacheAge, view, viewAge, talking, cue,
                 sinceHeard, heard, recvTick, changes, faults>>

LearnName ==
  /\ ~resolved
  /\ resolved' = TRUE
  /\ UNCHANGED sender
  /\ UNCHANGED <<local, wire, late, inRoster, cache, cacheAge, view, viewAge, talking, cue,
                 sinceHeard, heard, recvTick, changes, faults>>

----------------------------------------------------------------------------
(* The network and time.                                                    *)

Lose ==
  /\ wire # Nothing /\ faults > 0
  /\ faults' = faults - 1
  /\ wire' = Nothing
  /\ UNCHANGED sender /\ UNCHANGED receiver /\ UNCHANGED <<local, late, heard, changes>>

HoldBack ==
  /\ wire # Nothing /\ faults > 0
  /\ faults' = faults - 1
  /\ wire' = Nothing
  /\ late' = late \cup {wire}
  /\ UNCHANGED sender /\ UNCHANGED receiver /\ UNCHANGED <<local, heard, changes>>

Tick ==
  /\ sentTick /\ recvTick /\ wire = Nothing
  /\ sentTick' = FALSE /\ recvTick' = FALSE
  /\ sinceSend' = UpTo(sinceSend, Refresh)
  /\ cacheAge' = UpTo(cacheAge, Expiry)
  /\ viewAge' = UpTo(viewAge, Expiry)
  /\ sinceHeard' = UpTo(sinceHeard, 2 * Expiry)
  /\ UNCHANGED <<local, sent, repeats, wire, late, inRoster, resolved, cache, view, talking,
                 cue, heard, changes, faults>>

----------------------------------------------------------------------------
Init ==
  /\ local = Off /\ sent = Off /\ sinceSend = Refresh /\ repeats = 0
  /\ wire = Nothing /\ late = {}
  /\ inRoster = FALSE /\ resolved = FALSE
  /\ cache = Off /\ cacheAge = Expiry
  /\ view = Off /\ viewAge = Expiry
  /\ talking = FALSE /\ cue = Nothing /\ sinceHeard = 2 * Expiry
  /\ heard = FALSE
  /\ sentTick = FALSE /\ recvTick = FALSE
  /\ changes = MaxChanges /\ faults = MaxFaults

Next ==
  \/ \E c \in Channels \cup {Off} : Change(c)
  \/ SenderTick \/ Receive \/ ReceiverTick
  \/ \E m \in late : ReceiveLate(m)
  \/ LearnSession \/ LearnName
  \/ Lose \/ HoldBack \/ Tick

Spec == Init /\ [][Next]_vars

(* The threads run, datagrams that are not lost arrive, the receiver learns *)
(* of the sender, and time passes.                                          *)
FairSpec ==
  /\ Spec
  /\ WF_vars(SenderTick) /\ WF_vars(Receive) /\ WF_vars(ReceiverTick) /\ WF_vars(Tick)
  /\ WF_vars(\E m \in late : ReceiveLate(m))
  /\ WF_vars(LearnSession) /\ WF_vars(LearnName)

----------------------------------------------------------------------------
(* Properties.                                                              *)

States == Channels \cup {Off}

(* Type invariant of the two clients and the wire.                          *)
TypeOK ==
  /\ {local, sent, cache, view} \subseteq States
  /\ wire \in States \cup {Nothing} /\ late \subseteq States
  /\ sinceSend \in 0..Refresh /\ repeats \in 0..InactiveRepeats
  /\ cacheAge \in 0..Expiry /\ viewAge \in 0..Expiry /\ sinceHeard \in 0..(2 * Expiry)
  /\ {inRoster, resolved, talking, heard, sentTick, recvTick} \subseteq BOOLEAN
  /\ cue \in {Nothing, "start", "stop"}
  /\ changes \in 0..MaxChanges /\ faults \in 0..MaxFaults

(* However many datagrams are lost, nobody counts as transmitting for       *)
(* longer than the two expiries together after the last announcement: a     *)
(* crashed transmitter does not block a channel for good.                   *)
TalkingBounded == talking => sinceHeard < 2 * Expiry

(* A transmission that has come to the receiver's State is heard for as     *)
(* long as it lasts: two lost or late announcements, also the end of the    *)
(* transmission before, do not interrupt it.                                *)
NoDropout == [][talking /\ ~talking' => ~heard]_vars

(* In the end the receiver agrees with the transmitter on whether and on    *)
(* which frequency it transmits, whatever was lost on the way.              *)
Agree == talking = (local # Off) /\ (talking => view = local)

Agreement == <>[]Agree

(* While nothing is lost or late, the start cue is triggered exactly when a *)
(* transmission begins that the receiver does not have yet: every one has   *)
(* its cue, and no refresh or change of frequency repeats it.               *)
CueAtStart ==
  [][faults = MaxFaults /\ Receive => (cue' = "start") = (~Fresh /\ Fresh')]_vars

(* Extension.cpp:118: the announcement of the end is repeated "so releasing *)
(* the tangent stays crisp": once it has been received, the receiver's next *)
(* tick does not count the sender as transmitting.                          *)
ReleaseIsCrisp == [][~recvTick /\ recvTick' /\ cache = Off => ~talking']_vars

============================================================================
