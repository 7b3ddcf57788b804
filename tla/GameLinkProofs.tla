--------------------------- MODULE GameLinkProofs ---------------------------
(***************************************************************************)
(* Proofs about GameLink, for every list of settings, every set of values, *)
(* every waiting time and any number of changes and missions.              *)
(***************************************************************************)
EXTENDS GameLink, TLAPS

LEMMA KeysOfSet == Keys \in Seq(KeySet) /\ Len(Keys) \in Nat \ {0}
  BY KeysAssumption

LEMMA OlderBounds ==
  ASSUME NEW limit \in Nat, NEW t \in Never..limit
  PROVE  Older(t, limit) \in Never..limit /\ (t \in 0..limit => Older(t, limit) \in 0..limit)
  BY DEF Older, Never

(* TypeOK is inductive.                                                     *)
LEMMA InitTypes == Init => TypeOK
<1> SUFFICES ASSUME Init PROVE TypeOK
  OBVIOUS
<1>1. /\ mission \in BOOLEAN /\ opened \in BOOLEAN /\ relayed \in BOOLEAN
      /\ haveConfig \in BOOLEAN /\ cut \in BOOLEAN
      /\ connected \in BOOLEAN /\ hint \in BOOLEAN
  BY DEF Init
<1>2. reading \in Seq(Values \cup {NoValue}) /\ Len(reading) <= Len(Keys)
  BY KeysOfSet DEF Init
<1>3. push \in 0..Len(Keys) /\ events \in 0..MaxEvents
  BY KeysOfSet, TimesAssumption DEF Init
<1> QED
  BY <1>1, <1>2, <1>3, TimesAssumption DEF Init, TypeOK, Never

LEMMA StepTypes == TypeOK /\ [Next]_vars => TypeOK'
<1> SUFFICES ASSUME TypeOK, [Next]_vars PROVE TypeOK'
  OBVIOUS
<1> USE KeysOfSet, TimesAssumption DEF TypeOK, game, extension, tick, link, Spend, Idle
<1>1. CASE EnterMission
  BY <1>1 DEF EnterMission
<1>2. CASE LeaveMission
  <2>1. /\ mission' \in BOOLEAN /\ opened' \in BOOLEAN /\ relayed' \in BOOLEAN
        /\ haveConfig' \in BOOLEAN /\ cut' \in BOOLEAN
    BY <1>2 DEF LeaveMission, ForgetConfig
  <2>2. requested' \in Never..AskAgain
    BY <1>2 DEF LeaveMission, ForgetConfig, Never
  <2> QED
    BY <1>2, <2>1, <2>2 DEF LeaveMission
<1>3. CASE RelayInitialSettings
  BY <1>3 DEF RelayInitialSettings, Relayed
<1>4. ASSUME NEW k \in KeySet, NEW v \in Values, Change(k, v) PROVE TypeOK'
  <2>1. settings' \in [KeySet -> Values] /\ config' \in [KeySet -> Values \cup {NoValue}]
    BY <1>4 DEF Change, SetCfg
  <2>2. haveConfig' \in BOOLEAN /\ cut' \in BOOLEAN
    BY <1>4 DEF Change, SetCfg
  <2> QED
    BY <1>4, <2>1, <2>2 DEF Change
<1>5. CASE DataFrame
  <2>1. push' \in 0..Len(Keys) /\ requested' \in Never..AskAgain
    BY <1>5 DEF DataFrame, Relayed, Never
  <2> QED
    BY <1>5, <2>1 DEF DataFrame
<1>6. CASE RelaySetting
  <2>1. push' \in 0..Len(Keys) /\ Len(Keys) - push' \in 1..Len(Keys)
    BY <1>6 DEF RelaySetting
  <2>2. Keys[Len(Keys) - push'] \in KeySet
    BY <2>1 DEF KeySet
  <2>3. config' \in [KeySet -> Values \cup {NoValue}]
    BY <1>6, <2>2 DEF RelaySetting, SetCfg
  <2>4. haveConfig' \in BOOLEAN /\ cut' \in BOOLEAN
    BY <1>6 DEF RelaySetting, SetCfg
  <2> QED
    BY <1>6, <2>1, <2>3, <2>4 DEF RelaySetting
<1>7. CASE Pos
  <2>1. downSince' \in Never..Grace /\ seenUp' \in 0..Grace
    BY <1>7 DEF Pos, DownAtPos, Never
  <2>2. hint' \in BOOLEAN
    BY <1>7 DEF Pos
  <2> QED
    BY <1>7, <2>1, <2>2 DEF Pos
<1>8. CASE ReadSetting
  <2>1. Keys[Len(reading) + 1] \in KeySet
    BY <1>8 DEF ReadSetting, KeySet
  <2>2. config[Keys[Len(reading) + 1]] \in Values \cup {NoValue}
    BY <2>1
  <2> QED
    BY <1>8, <2>2 DEF ReadSetting
<1>9. CASE ApplySettings
  <2>1. ASSUME NEW k \in KeySet
        PROVE  reading[CHOOSE i \in DOMAIN Keys : Keys[i] = k] \in Values \cup {NoValue}
    <3>1. \E i \in DOMAIN Keys : Keys[i] = k
      BY DEF KeySet
    <3>2. (CHOOSE i \in DOMAIN Keys : Keys[i] = k) \in DOMAIN Keys
      BY <3>1
    <3> QED
      BY <1>9, <3>2 DEF ApplySettings
  <2>2. applied' \in [KeySet -> Values \cup {NoValue}]
    BY <1>9, <2>1 DEF ApplySettings
  <2>3. reading' \in Seq(Values \cup {NoValue}) /\ Len(reading') <= Len(Keys)
    BY <1>9 DEF ApplySettings
  <2>4. UNCHANGED <<game, extension, link, events>>
    BY <1>9 DEF ApplySettings
  <2> QED
    BY <2>2, <2>3, <2>4
<1>10. CASE Connect
  BY <1>10 DEF Connect
<1>11. CASE Disconnect
  <2>1. ~connected'
    BY Zenon, <1>11 DEF Disconnect
  <2>2. events' \in 0..MaxEvents
    BY <1>11 DEF Disconnect
  <2> QED
    BY <1>11, <2>1, <2>2 DEF Disconnect
<1>12. CASE Time
  <2>1. requested' \in Never..AskAgain
    BY <1>12, OlderBounds DEF Time
  <2>2. downSince' \in Never..Grace
    BY <1>12, OlderBounds DEF Time
  <2>3. seenUp' \in 0..Grace
    <3>1. seenUp \in 0..Grace /\ seenUp \in Never..Grace
      BY DEF Never
    <3>2. seenUp' = Older(seenUp, Grace)
      BY <1>12 DEF Time
    <3> QED
      BY <3>1, <3>2, OlderBounds
  <2> QED
    BY <1>12, <2>1, <2>2, <2>3 DEF Time
<1>13. CASE UNCHANGED vars
  BY <1>13 DEF vars
<1> QED
  BY <1>1, <1>2, <1>3, <1>4, <1>5, <1>6, <1>7, <1>8, <1>9, <1>10, <1>11, <1>12, <1>13
  DEF Next, GameNext, SenderNext

(* The types of the handshake, the tick and the clocks, for every list of   *)
(* settings.                                                                *)
THEOREM TypeCorrect == Spec => []TypeOK
  BY InitTypes, StepTypes, PTL DEF Spec

----------------------------------------------------------------------------
(* The extension counts an outage from a POS that saw the connection down,  *)
(* later than the last that saw it up.                                      *)
OutageInv == downSince # Never => downSince <= seenUp

LEMMA OlderMonotone ==
  ASSUME NEW limit \in Nat, NEW s \in 0..limit, NEW t \in 0..limit, s <= t
  PROVE  Older(s, limit) # Never /\ Older(s, limit) <= Older(t, limit)
  BY DEF Older, Never

LEMMA StepOutage == TypeOK /\ OutageInv /\ [Next]_vars => OutageInv'
<1> SUFFICES ASSUME TypeOK, OutageInv, [Next]_vars PROVE OutageInv'
  OBVIOUS
<1>1. CASE Pos
  BY <1>1 DEF Pos, DownAtPos, OutageInv, TypeOK, Never
<1>2. CASE Time
  <2>1. CASE downSince = Never
    BY <1>2, <2>1 DEF Time, Older, OutageInv
  <2>2. CASE downSince # Never
    <3>1. downSince \in 0..Grace /\ seenUp \in 0..Grace /\ downSince <= seenUp
      BY <2>2, TimesAssumption DEF TypeOK, OutageInv, Never
    <3> QED
      BY <1>2, <3>1, OlderMonotone, TimesAssumption DEF Time, OutageInv
  <2> QED
    BY <2>1, <2>2
<1>3. CASE UNCHANGED <<downSince, seenUp>>
  BY <1>3 DEF OutageInv
<1>4. Pos \/ Time \/ UNCHANGED <<downSince, seenUp>>
  BY DEF Next, GameNext, SenderNext, EnterMission, LeaveMission, RelayInitialSettings, Change,
         DataFrame, RelaySetting, ReadSetting, ApplySettings, Connect, Disconnect, vars, link
<1> QED
  BY <1>1, <1>2, <1>3, <1>4

(* The hint is given only while the connection is down, after a grace       *)
(* period in which no POS found it up.                                      *)
THEOREM HintCorrect == Spec => HintMeansDown
<1>1. Init => OutageInv
  BY DEF Init, OutageInv
<1>2. TypeOK /\ OutageInv => [Pos => (hint' => ~connected /\ seenUp = Grace)]_vars
  <2> SUFFICES ASSUME TypeOK, OutageInv, Pos, hint'
               PROVE  ~connected /\ seenUp = Grace
    OBVIOUS
  <2>1. downSince' # Never /\ downSince' >= Grace
    BY DEF Pos
  <2>2. downSince' = DownAtPos
    BY DEF Pos
  <2>3. ~connected /\ downSince # Never /\ downSince >= Grace
    BY <2>1, <2>2, TimesAssumption DEF DownAtPos, Never
  <2> QED
    BY <2>3, TimesAssumption DEF TypeOK, OutageInv, Never
<1> QED
  BY <1>1, <1>2, TypeCorrect, StepOutage, PTL DEF Spec, HintMeansDown

----------------------------------------------------------------------------
(* The settings that sendPluginConfig has relayed so far are current, and   *)
(* a configuration that counts as answered is, unless a change cut the      *)
(* question short.                                                          *)
ConfigInv ==
  /\ haveConfig \/ push > 0 => mission
  /\ \A i \in 1..Len(Keys) : push > 0 /\ i <= Len(Keys) - push =>
       config[Keys[i]] = settings[Keys[i]]
  /\ haveConfig /\ push = 0 /\ ~cut => config = settings

LEMMA StepConfig == TypeOK /\ ConfigInv /\ [Next]_vars => ConfigInv'
<1> SUFFICES ASSUME TypeOK, ConfigInv, [Next]_vars PROVE ConfigInv'
  OBVIOUS
<1>1. CASE EnterMission
  BY <1>1 DEF EnterMission, ConfigInv, extension
<1>2. CASE LeaveMission
  BY <1>2 DEF LeaveMission, ForgetConfig, Idle, ConfigInv
<1>3. CASE RelayInitialSettings
  BY <1>3, KeysOfSet DEF RelayInitialSettings, Relayed, Idle, ConfigInv, extension, TypeOK
<1>4. ASSUME NEW k \in KeySet, NEW v \in Values, Change(k, v) PROVE ConfigInv'
  <2>1. CASE mission
    <3>1. settings' = [settings EXCEPT ![k] = v] /\ config' = [config EXCEPT ![k] = v]
      BY <1>4, <2>1 DEF Change, SetCfg, TypeOK
    <3>2. cut' = (cut \/ ~haveConfig) /\ push' = 0 /\ mission'
      BY <1>4, <2>1 DEF Change, Idle
    <3>3. haveConfig /\ ~cut => config' = settings'
      BY <3>1, <1>4 DEF ConfigInv, Change, Idle
    <3>4. ~cut' => haveConfig /\ ~cut
      BY Zenon, <3>2
    <3> QED
      BY <3>2, <3>3, <3>4 DEF ConfigInv
  <2>2. CASE ~mission
    BY <1>4, <2>2 DEF Change, Idle, ConfigInv
  <2> QED
    BY <2>1, <2>2
<1>5. CASE DataFrame
  BY <1>5, KeysOfSet DEF DataFrame, Relayed, Idle, ConfigInv, TypeOK
<1>6. CASE RelaySetting
  <2> DEFINE sent == Len(Keys) - push'
  <2>1. push' = push - 1 /\ push \in 1..Len(Keys) /\ sent \in 1..Len(Keys)
    BY <1>6, KeysOfSet DEF RelaySetting, TypeOK
  <2>2. mission' /\ settings' = settings /\ cut' = (cut /\ push' > 0)
    BY <1>6 DEF RelaySetting, ConfigInv
  <2>3. config' = [config EXCEPT ![Keys[sent]] = settings[Keys[sent]]]
    BY <1>6, <2>2 DEF RelaySetting, SetCfg
  <2>4. ASSUME NEW i \in 1..Len(Keys), i <= sent
        PROVE  config'[Keys[i]] = settings[Keys[i]]
    <3>1. Keys[i] \in KeySet /\ Keys[sent] \in KeySet
      BY <2>1 DEF KeySet
    <3>2. i = sent \/ i <= Len(Keys) - push
      BY <2>1, <2>4, KeysOfSet
    <3> QED
      BY <2>1, <2>3, <3>1, <3>2 DEF ConfigInv, TypeOK
  <2>5. push' = 0 => config' = settings
    <3> SUFFICES ASSUME push' = 0, NEW k \in KeySet PROVE config'[k] = settings[k]
      BY <2>3 DEF TypeOK
    <3>1. PICK i \in 1..Len(Keys) : Keys[i] = k
      BY KeysOfSet DEF KeySet
    <3> QED
      BY <2>1, <2>4, <3>1, KeysOfSet
  <2> QED
    BY <2>1, <2>2, <2>4, <2>5 DEF ConfigInv
<1>7. CASE UNCHANGED <<mission, push, settings, config, haveConfig, cut>>
  BY <1>7 DEF ConfigInv
<1>8. \/ EnterMission \/ LeaveMission \/ RelayInitialSettings \/ DataFrame \/ RelaySetting
      \/ \E k \in KeySet, v \in Values : Change(k, v)
      \/ UNCHANGED <<mission, push, settings, config, haveConfig, cut>>
  BY DEF Next, GameNext, SenderNext, Pos, ReadSetting, ApplySettings, Connect, Disconnect,
         Time, vars, game, extension
<1> QED
  BY <1>1, <1>2, <1>3, <1>4, <1>5, <1>6, <1>7, <1>8

(* What the extension takes for the answer to NEEDCFG is the configuration  *)
(* of the game, in every mission, once the last SETCFG of the answer is     *)
(* there: a change is never lost, unless one was relayed before the first   *)
(* question.                                                                *)
THEOREM ConfigCorrect ==
  Spec => [](haveConfig /\ push = 0 /\ ~cut => config = settings)
<1>1. Init => ConfigInv
  BY DEF Init, ConfigInv
<1>2. ConfigInv => (haveConfig /\ push = 0 /\ ~cut => config = settings)
  BY DEF ConfigInv
<1> QED
  BY <1>1, <1>2, TypeCorrect, StepConfig, PTL DEF Spec

----------------------------------------------------------------------------
(* The session ends up with the settings of the game.  The premises follow  *)
(* from the fairness of FairSpec: a script that relays settings ends, the   *)
(* waiting time for an answer passes, a question that is due is asked, and  *)
(* ticks are completed.                                                     *)
(* The extension has a question to ask.                                     *)
CanAsk == Idle /\ mission /\ ~haveConfig /\ ~Waiting

(* The game and the sender thread go on.                                    *)
GameRuns ==
  /\ []<>Idle
  /\ []<>~Waiting
  /\ <>[]CanAsk => []<><<DataFrame>>_vars
  /\ []<><<ApplySettings>>_vars

(* No setting and no mission changes any more, and no connection is lost.   *)
EventsEnd == <>[][events' = events]_vars

(* What the tick has read so far is what the game wants.                    *)
Current == \A i \in 1..Len(reading) : reading[i] = settings[Keys[i]]

(* The steps that are left when the game stays as it is.                    *)
Undisturbed ==
  \/ RelayInitialSettings \/ DataFrame \/ RelaySetting \/ Pos
  \/ ReadSetting \/ ApplySettings \/ Connect \/ Time \/ UNCHANGED vars

(* In a mission that stays, these are the steps.                            *)
LEMMA NoEvent ==
  ASSUME TypeOK, [Next]_vars, [events' = events]_vars, mission, mission'
  PROVE  Undisturbed
<1>0. events \in Nat /\ (events' = events \/ UNCHANGED vars)
  BY TimesAssumption DEF TypeOK
<1>1. EnterMission \/ Disconnect => UNCHANGED vars
  BY <1>0 DEF EnterMission, Disconnect, Spend
<1>2. ~LeaveMission
  BY DEF LeaveMission
<1>3. ASSUME NEW k \in KeySet, NEW v \in Values, Change(k, v) PROVE UNCHANGED vars
  BY <1>0, <1>3 DEF Change, Spend
<1> QED
  BY <1>1, <1>2, <1>3 DEF Next, GameNext, SenderNext, Undisturbed

(* A configuration that arrived stays, and stays the game's; a script goes  *)
(* on until something has arrived, and no question is asked without one.    *)
LEMMA ConfigStays ==
  ASSUME TypeOK, Undisturbed, mission'
  PROVE  /\ settings' = settings
         /\ haveConfig => haveConfig'
         /\ ~cut => ~cut'
         /\ config = settings => (config = settings)'
         /\ ~haveConfig' => (~Idle => ~Idle')
         /\ ~Waiting /\ mission => (Idle' => ~Waiting')
<1> DEFINE Goal ==
         /\ settings' = settings
         /\ haveConfig => haveConfig'
         /\ ~cut => ~cut'
         /\ config = settings => (config = settings)'
         /\ ~haveConfig' => (~Idle => ~Idle')
         /\ ~Waiting /\ mission => (Idle' => ~Waiting')
<1> USE DEF game, extension, tick, link
<1>1. CASE RelayInitialSettings
  BY <1>1 DEF RelayInitialSettings, Idle, Waiting
<1>2. CASE DataFrame
  <2>1. settings' = settings /\ haveConfig' = haveConfig /\ cut' = cut /\ config' = config /\ Idle
    BY <1>2 DEF DataFrame
  <2>2. ~Waiting /\ mission => (Idle' => ~Waiting')
    <3>1. CASE haveConfig
      BY <1>2, <3>1 DEF DataFrame, Waiting
    <3>2. CASE ~haveConfig /\ ~Waiting /\ mission
      BY <1>2, <3>2, KeysOfSet DEF DataFrame, Relayed, Idle
    <3> QED
      BY <3>1, <3>2
  <2> QED
    BY <2>1, <2>2
<1>3. CASE RelaySetting
  <2>1. /\ settings' = settings /\ haveConfig' /\ requested' = requested
        /\ cut' = (cut /\ push' > 0)
    BY <1>3 DEF RelaySetting, SetCfg
  <2>2. config = settings => config' = settings'
    BY <1>3, <2>1 DEF RelaySetting, SetCfg, TypeOK
  <2>3. ~cut => ~cut'
    BY <2>1, Zenon
  <2> QED
    BY <2>1, <2>2, <2>3 DEF Waiting
<1>4. CASE Pos \/ ReadSetting \/ ApplySettings \/ Connect
  <2>1. UNCHANGED <<settings, push, config, haveConfig, cut, requested>>
    BY <1>4 DEF Pos, ReadSetting, ApplySettings, Connect
  <2> QED
    BY <2>1 DEF Idle, Waiting
<1>5. CASE Time
  <2>1. ~Waiting => ~Waiting'
    BY <1>5, TimesAssumption DEF Time, Older, Waiting, TypeOK, Never
  <2> QED
    BY <1>5, <2>1 DEF Time, Idle
<1>6. CASE UNCHANGED vars
  BY <1>6 DEF vars, Idle, Waiting
<1> QED
  BY <1>1, <1>2, <1>3, <1>4, <1>5, <1>6 DEF Undisturbed

(* With the game's configuration, a tick that begins reads the game's       *)
(* settings, and what it applies when it ends is the game's for good.       *)
LEMMA CurrentStays ==
  ASSUME TypeOK, Undisturbed, config = settings, mission'
  PROVE  /\ Current => Current'
         /\ ApplySettings => Current'
         /\ Current /\ ApplySettings => (applied = settings)'
         /\ Current /\ applied = settings => (applied = settings)'
<1>0. settings' = settings
  BY ConfigStays
<1>1. ASSUME ApplySettings PROVE Current'
  BY <1>1 DEF ApplySettings, Current
<1>2. ASSUME Current, ApplySettings PROVE applied' = settings'
  <2> DEFINE place(k) == CHOOSE i \in DOMAIN Keys : Keys[i] = k
  <2>1. ASSUME NEW k \in KeySet PROVE reading[place(k)] = settings[k]
    <3>1. \E i \in DOMAIN Keys : Keys[i] = k
      BY DEF KeySet
    <3>2. place(k) \in DOMAIN Keys /\ Keys[place(k)] = k
      BY <3>1
    <3>3. place(k) \in 1..Len(reading)
      BY <1>2, <3>2, KeysOfSet DEF ApplySettings
    <3> HIDE DEF place
    <3> QED
      BY <1>2, <3>2, <3>3 DEF Current
  <2>2. applied' = [k \in KeySet |-> reading[place(k)]]
    BY <1>2 DEF ApplySettings
  <2> HIDE DEF place
  <2>3. settings = [k \in KeySet |-> settings[k]]
    BY DEF TypeOK
  <2>4. [k \in KeySet |-> reading[place(k)]] = [k \in KeySet |-> settings[k]]
    BY <2>1
  <2> QED
    BY <1>0, <2>2, <2>3, <2>4
<1>3. CASE ReadSetting
  <2>1. /\ reading \in Seq(Values \cup {NoValue}) /\ Len(reading) \in Nat
        /\ config[Keys[Len(reading) + 1]] \in Values \cup {NoValue}
    <3>1. Keys[Len(reading) + 1] \in KeySet
      BY <1>3, KeysOfSet DEF ReadSetting, KeySet, TypeOK
    <3> QED
      BY <3>1 DEF TypeOK
  <2>2. /\ Len(reading') = Len(reading) + 1
        /\ \A i \in 1..Len(reading) : reading'[i] = reading[i]
        /\ reading'[Len(reading) + 1] = settings[Keys[Len(reading) + 1]]
    BY <1>3, <2>1 DEF ReadSetting
  <2>3. Current => Current'
    BY <1>0, <2>1, <2>2 DEF Current
  <2> QED
    BY <1>0, <1>3, <1>1, <1>2, <2>3 DEF ReadSetting, Current
<1>4. CASE UNCHANGED <<reading, applied>>
  BY <1>0, <1>1, <1>2, <1>4 DEF Current
<1>5. CASE ApplySettings
  BY <1>1, <1>2, <1>5
<1> QED
  BY <1>3, <1>4, <1>5 DEF Undisturbed, RelayInitialSettings, DataFrame, RelaySetting, Pos, Connect,
       Time, vars, tick

(* A question goes to the game, whose script then has settings to relay.    *)
LEMMA Asked == CanAsk /\ DataFrame => ~Idle'
  BY KeysOfSet DEF CanAsk, DataFrame, Relayed, Idle

(* ConfigInv is an invariant.                                               *)
LEMMA ConfigAlways == Spec => []ConfigInv
<1>1. Init => ConfigInv
  BY DEF Init, ConfigInv
<1> QED
  BY <1>1, TypeCorrect, StepConfig, PTL DEF Spec

(* In a mission that stays, the voice session ends up with the game's       *)
(* settings, for every list of settings and every waiting time, whatever    *)
(* happened before; excepted is a change that answered for the whole        *)
(* configuration (State.cpp:223-236, 340-341, 392-396).                     *)
THEOREM ConvergenceCorrect == Spec /\ GameRuns /\ EventsEnd => SettingsConverge
<1> DEFINE H == haveConfig
           X == cut
           C == config = settings
           R == Current
           S == applied = settings
           W == Waiting
           I == Idle
<1>1. TypeOK /\ ConfigInv /\ [Next]_vars /\ [events' = events]_vars /\ mission /\ mission'
        => /\ H => H'
           /\ ~X => ~X'
           /\ C => C'
           /\ ~H' => (~I => ~I')
           /\ ~W => (I' => ~W')
  BY NoEvent, ConfigStays
<1>2. ConfigInv => (H /\ I /\ ~X => C)
  BY DEF ConfigInv, Idle
<1>3. TypeOK /\ C /\ [Next]_vars /\ [events' = events]_vars /\ mission /\ mission'
        => /\ R => R'
           /\ R /\ S => S'
  BY NoEvent, CurrentStays
<1>4. TypeOK /\ C /\ [Next]_vars /\ [events' = events]_vars /\ mission /\ mission'
         /\ <<ApplySettings>>_vars
        => R' /\ (R => S')
  BY NoEvent, CurrentStays
<1>5. CanAsk /\ <<DataFrame>>_vars => ~I'
  BY Asked
<1>6. mission /\ ~H /\ I /\ ~W => CanAsk
  BY DEF CanAsk
<1>7. (I <=> Idle) /\ (W <=> Waiting) /\ (X <=> cut)
  OBVIOUS
<1>8. S <=> applied = settings
  OBVIOUS
<1>9. Spec /\ GameRuns /\ EventsEnd => (<>[]mission => <>[](X \/ S))
  <2> HIDE DEF H, X, C, R, S, W, I
  <2> QED
    BY <1>1, <1>2, <1>3, <1>4, <1>5, <1>6, <1>7, TypeCorrect, ConfigAlways, PTL
    DEF Spec, GameRuns, EventsEnd
<1> QED
  BY <1>9 DEF SettingsConverge

=============================================================================
