---------------------------- MODULE MCAudibility ----------------------------
EXTENDS Audibility

CONSTANTS a, b

Player(kind) ==
  [spectating |-> "spectating" \in kind, enemy |-> "enemy" \in kind,
   sw |-> "sw" \in kind, lr |-> "lr" \in kind, crew |-> "crew" \in kind,
   near |-> "near" \in kind, ranged |-> "ranged" \in kind,
   towers |-> kind \cap {"mast"}]

OthersReports ==
  {Player({"sw", "crew", "near", "ranged"}), Player({"sw", "mast"}),
   Player({"spectating", "enemy", "near", "ranged"})}

MCReports ==
  [p \in {Me, a, b} |->
     IF p = Me THEN {Player({"sw", "lr", "crew"}), Player({"spectating"})} ELSE OthersReports]

Radio(class, loud) == [class |-> class, loud |-> loud]

MCTunings ==
  {[sw |-> [f \in {"f"} |-> Radio("handheld", TRUE)],
    lr |-> [f \in {"f"} |-> Radio("backpack", TRUE)]],
   [sw |-> [f \in {"f"} |-> Radio("handheld", FALSE)], lr |-> <<>>]}

MCTransmissions == {[freq |-> "f", effect |-> TRUE]}

MCSpeakerLists ==
  {{[freq |-> "f", owner |-> a, at |-> "owner"]}, {[freq |-> "f", owner |-> Me, at |-> "near"]}}

Settings(duplex, spectators) ==
  [fullDuplex |-> duplex, intercom |-> TRUE, notHearEnemies |-> spectators,
   hearFriendlies |-> spectators, muteSpectators |-> ~spectators]

MCConfigs == {Settings(FALSE, TRUE), Settings(TRUE, FALSE)}

=============================================================================
