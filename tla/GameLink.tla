------------------------------ MODULE GameLink ------------------------------
(***************************************************************************)
(* How the settings of the game reach the voice session, and how the game  *)
(* learns that the voice server is not connected.                          *)
(*                                                                         *)
(* The game relays its settings key by key (SETCFG), all of them when the  *)
(* extension answers a DFRAME with NEEDCFG, one of them when it changes,   *)
(* and none while no mission runs.  The sender thread reads them key by    *)
(* key, each under a lock of its own, and applies them every tick.  POS    *)
(* answers with a hint once the connection has been down for a while.      *)
(***************************************************************************)
EXTENDS Integers, Sequences

CONSTANTS
  Keys,      \* the settings in the order in which they are relayed
  Values,
  NoValue,   \* what the sender thread reads for a key that never arrived
  AskAgain,  \* three seconds, in units of time
  Grace,     \* kNotConnectedGrace, in units of time
  MaxEvents  \* bound: changes of settings, missions, drops of the connection

KeySet == {Keys[i] : i \in DOMAIN Keys}

ASSUME KeysAssumption ==
  Keys \in Seq(KeySet) /\ Len(Keys) > 0 /\ NoValue \notin Values
ASSUME TimesAssumption == {AskAgain, Grace} \subseteq Nat \ {0} /\ MaxEvents \in Nat

Never == -1  \* a time point that is not set

VARIABLES
  mission,    \* getClientStateNumber = 10
  opened,     \* display 46 is open and the per-frame handlers run
  relayed,    \* ClientInit relayed the settings after SettingsInitialized
  settings,   \* the values in the game
  push,       \* how many keys of sendPluginConfig are still to be relayed
  config,     \* m_config
  haveConfig, \* m_haveConfig
  requested,  \* time since m_configRequestedAt, or Never
  cut,        \* history: a change answered for the whole configuration
  reading,    \* what the tick has read so far
  applied,    \* what VoiceSession was given last
  connected,  \* VoiceSession::isConnected
  downSince,  \* time since m_disconnectedSince, or Never
  seenUp,     \* history: time since a POS found the connection up
  hint,       \* the game shows the hint
  events

game      == <<mission, opened, relayed, settings, push>>
extension == <<config, haveConfig, requested, cut>>
tick      == <<reading, applied>>
link      == <<connected, downSince, seenUp, hint>>
vars      == <<game, extension, tick, link, events>>

Spend == events < MaxEvents /\ events' = events + 1

Init ==
  /\ mission = FALSE /\ opened = FALSE /\ relayed = FALSE
  /\ settings \in [KeySet -> Values]
  /\ push = 0
  /\ config = [k \in KeySet |-> NoValue]
  /\ haveConfig = FALSE /\ requested = Never /\ cut = FALSE
  /\ reading = <<>> /\ applied = [k \in KeySet |-> NoValue]
  /\ connected = FALSE /\ downSince = Never /\ seenUp = 0 /\ hint = FALSE
  /\ events = 0

----------------------------------------------------------------------------
(* The game.  Its scripts run one after the other; only the sender thread   *)
(* and the passing of time come between two calls of one script.            *)

Idle == push = 0

EnterMission ==
  /\ Idle /\ ~mission /\ mission' = TRUE
  /\ Spend
  /\ UNCHANGED <<opened, relayed, settings, push, extension, tick, link>>

ForgetConfig == haveConfig' = FALSE /\ requested' = Never /\ cut' = FALSE

(* The display of the mission is unloaded: MISSIONEND.                      *)
LeaveMission ==
  /\ Idle /\ (mission \/ opened)
  /\ mission' = FALSE /\ opened' = FALSE /\ relayed' = FALSE
  /\ ForgetConfig
  /\ UNCHANGED <<settings, push, config, tick, link, events>>

SetCfg(k) == config' = [config EXCEPT ![k] = settings'[k]] /\ haveConfig' = TRUE

(* A setting changes; its handler relays it if a mission runs.              *)
Change(k, v) ==
  /\ Idle /\ v # settings[k]
  /\ Spend
  /\ settings' = [settings EXCEPT ![k] = v]
  /\ IF mission THEN SetCfg(k) /\ cut' = (cut \/ ~haveConfig)
                ELSE UNCHANGED <<config, haveConfig, cut>>
  /\ UNCHANGED <<mission, opened, relayed, push, requested, tick, link>>

(* Mutant: one setting more than there are.                                 *)
RelayedOneMore == IF mission THEN Len(Keys) + 1 ELSE 0

(* sendPluginConfig relays all settings, or none.                           *)
Relayed == IF mission THEN Len(Keys) ELSE 0

(* ClientInit, once the settings are initialised.                           *)
RelayInitialSettings ==
  /\ Idle /\ ~relayed
  /\ relayed' = TRUE
  /\ push' = Relayed
  /\ UNCHANGED <<mission, opened, settings, extension, tick, link, events>>

(* Mutant: an unanswered question is never repeated.                        *)
WaitingForever == requested # Never

Waiting == requested # Never /\ requested < AskAgain

(* DFRAME: first when the display opens, then by processPlayerPositions,    *)
(* which waits until the mission runs; so may the answer to NEEDCFG.        *)
DataFrame ==
  /\ Idle /\ (mission \/ ~opened)
  /\ opened' = TRUE
  /\ IF haveConfig \/ Waiting
     THEN UNCHANGED <<push, requested>>
     ELSE push' = Relayed /\ requested' = 0  \* NEEDCFG
  /\ UNCHANGED <<mission, relayed, settings, config, haveConfig, cut, tick, link, events>>

(* The next SETCFG of sendPluginConfig.                                     *)
RelaySetting ==
  /\ push > 0
  /\ push' = push - 1
  /\ settings' = settings
  /\ SetCfg(Keys[Len(Keys) - push'])
  /\ cut' = (cut /\ push' > 0)
  /\ UNCHANGED <<mission, opened, relayed, requested, tick, link, events>>

(* Mutant: an outage is not forgotten when the connection is back.          *)
DownAtPosSticky == IF downSince = Never /\ ~connected THEN 0 ELSE downSince

DownAtPos == IF connected THEN Never
             ELSE IF downSince = Never THEN 0 ELSE downSince

Pos ==
  /\ Idle /\ mission /\ opened
  /\ downSince' = DownAtPos
  /\ seenUp' = IF connected THEN 0 ELSE seenUp
  /\ hint' = (downSince' # Never /\ downSince' >= Grace)
  /\ UNCHANGED <<game, extension, tick, connected, events>>

----------------------------------------------------------------------------
(* The sender thread, one read of a setting at a time.                      *)

ReadSetting ==
  /\ Len(reading) < Len(Keys)
  /\ reading' = Append(reading, config[Keys[Len(reading) + 1]])
  /\ UNCHANGED <<game, extension, applied, link, events>>

ApplySettings ==
  /\ Len(reading) = Len(Keys)
  /\ applied' = [k \in KeySet |-> reading[CHOOSE i \in DOMAIN Keys : Keys[i] = k]]
  /\ reading' = <<>>
  /\ UNCHANGED <<game, extension, link, events>>

(* The worker of VoiceNetworkClient (a module of its own), which does not   *)
(* try before it has an address.                                            *)
Connect ==
  /\ ~connected /\ applied[Keys[1]] # NoValue
  /\ connected' = TRUE
  /\ UNCHANGED <<game, extension, tick, downSince, seenUp, hint, events>>

Disconnect ==
  /\ connected /\ connected' = FALSE
  /\ Spend
  /\ UNCHANGED <<game, extension, tick, downSince, seenUp, hint>>

Older(t, limit) == IF t = Never \/ t = limit THEN t ELSE t + 1

Time ==
  /\ requested' = Older(requested, AskAgain)
  /\ downSince' = Older(downSince, Grace)
  /\ seenUp' = Older(seenUp, Grace)
  /\ UNCHANGED <<game, config, haveConfig, cut, tick, connected, hint, events>>

GameNext ==
  \/ EnterMission \/ LeaveMission \/ RelayInitialSettings
  \/ \E k \in KeySet, v \in Values : Change(k, v)
  \/ DataFrame \/ RelaySetting \/ Pos

SenderNext == ReadSetting \/ ApplySettings

Next == GameNext \/ SenderNext \/ Connect \/ Disconnect \/ Time

Spec == Init /\ [][Next]_vars

(* The handlers run every frame, a script runs to its end, the sender       *)
(* thread ticks, and time passes.                                           *)
FairSpec ==
  /\ Spec
  /\ WF_vars(RelaySetting) /\ WF_vars(DataFrame)
  /\ WF_vars(SenderNext) /\ WF_vars(Time)

----------------------------------------------------------------------------
(* The configuration, the questions asked for it and the clocks keep their  *)
(* types, and a tick has read at most the settings there are.               *)
TypeOK ==
  /\ mission \in BOOLEAN /\ opened \in BOOLEAN /\ relayed \in BOOLEAN
  /\ haveConfig \in BOOLEAN /\ cut \in BOOLEAN
  /\ connected \in BOOLEAN /\ hint \in BOOLEAN
  /\ settings \in [KeySet -> Values]
  /\ config \in [KeySet -> Values \cup {NoValue}]
  /\ applied \in [KeySet -> Values \cup {NoValue}]
  /\ push \in 0..Len(Keys)
  /\ requested \in Never..AskAgain
  /\ downSince \in Never..Grace /\ seenUp \in 0..Grace
  /\ reading \in Seq(Values \cup {NoValue}) /\ Len(reading) <= Len(Keys)
  /\ events \in 0..MaxEvents

(* In a mission that stays, the voice session ends up with the settings of  *)
(* the game, whatever changed before, between or during missions and        *)
(* whatever mixture a tick read: NEEDCFG is repeated until it is answered,  *)
(* and a mission end makes the extension ask again (State.cpp:384-396).     *)
(* Excepted is a mission in which a change was relayed before the first     *)
(* DFRAME: it counts as the answer.                                         *)
SettingsConverge == <>[]mission => <>[](cut \/ applied = settings)

(* POS answers with the hint only while the connection is down, and only    *)
(* when no POS found it up during the last kNotConnectedGrace               *)
(* (CommandProcessor.cpp:66-78).                                            *)
HintMeansDown == [][Pos => (hint' => ~connected /\ seenUp = Grace)]_vars

=============================================================================
