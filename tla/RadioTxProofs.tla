--------------------------- MODULE RadioTxProofs ---------------------------
(***************************************************************************)
(* Proofs about RadioTx, for every set of channels, every interval between *)
(* refreshes and every expiry, and for any number of faults, which only    *)
(* DropoutCorrect bounds.                                                  *)
(***************************************************************************)
EXTENDS RadioTx, TLAPS

(* UpTo counts without passing its cap.                                     *)
LEMMA UpToBounded ==
  ASSUME NEW cap \in Nat, NEW n \in 0..cap
  PROVE  UpTo(n, cap) \in 0..cap /\ UpTo(n, cap) <= n + 1 /\ n <= UpTo(n, cap)
         /\ (n < cap => UpTo(n, cap) = n + 1)
  BY DEF UpTo

LEMMA OnRadioTxTypes ==
  ASSUME TypeOK, NEW m \in States, OnRadioTx(m)
  PROVE  /\ cache' \in States /\ cacheAge' \in 0..Expiry
         /\ cue' \in {Nothing, "start", "stop"}
         /\ sinceHeard' \in 0..(2 * Expiry)
<1>1. Expiry \in Nat \ {0}
  BY TicksAssumption
<1>2. CASE ~inRoster
  BY <1>2 DEF OnRadioTx, TypeOK
<1>3. CASE inRoster
  <2>1. /\ cache' = m /\ cacheAge' = (IF m = Off THEN Expiry ELSE 0)
        /\ sinceHeard' = IF m # Off THEN 0 ELSE sinceHeard
    BY <1>3 DEF OnRadioTx
  <2>2. cue' \in {Nothing, "start", "stop"}
    BY <1>3 DEF OnRadioTx
  <2> QED
    BY <1>1, <2>1, <2>2 DEF TypeOK
<1> QED
  BY <1>2, <1>3

LEMMA StepType == TypeOK /\ [Next]_vars => TypeOK'
<1> SUFFICES ASSUME TypeOK, [Next]_vars PROVE TypeOK'
  OBVIOUS
<1> USE DEF States
<1>0. Expiry \in Nat \ {0} /\ Refresh \in Nat \ {0} /\ InactiveRepeats \in Nat
      /\ MaxChanges \in Nat /\ MaxFaults \in Nat
  BY TicksAssumption
<1>1. ASSUME NEW c \in Channels \cup {Off}, Change(c) PROVE TypeOK'
  BY <1>0, <1>1 DEF Change, TypeOK, sender, receiver
<1>2. CASE SenderTick
  <2>1. RepeatsLeft \in 0..InactiveRepeats
    BY <1>0 DEF RepeatsLeft, TypeOK
  <2>2. /\ wire' \in States \cup {Nothing} /\ sent' \in States
        /\ sinceSend' \in 0..Refresh
    BY <1>0, <1>2 DEF SenderTick, TypeOK
  <2> QED
    BY <1>2, <2>1, <2>2 DEF SenderTick, TypeOK, receiver
<1>3. CASE Receive
  <2>1. wire \in States
    BY <1>3 DEF Receive, TypeOK
  <2> QED
    BY <1>3, <2>1, OnRadioTxTypes DEF Receive, TypeOK, sender
<1>4. CASE ReceiverTick
  <2>1. view' \in States /\ viewAge' \in 0..Expiry
    BY <1>0, <1>4 DEF ReceiverTick, TypeOK
  <2>2. talking' \in BOOLEAN
    BY <1>4 DEF ReceiverTick
  <2> QED
    BY <1>4, <2>1, <2>2 DEF ReceiverTick, TypeOK, sender
<1>5. ASSUME NEW m \in late, ReceiveLate(m) PROVE TypeOK'
  <2>1. m \in States
    BY DEF TypeOK
  <2> QED
    BY <1>5, <2>1, OnRadioTxTypes DEF ReceiveLate, TypeOK, sender
<1>6. CASE LearnSession \/ LearnName
  BY <1>6 DEF LearnSession, LearnName, TypeOK, sender
<1>7. CASE Lose \/ HoldBack
  <2>1. faults' \in 0..MaxFaults
    BY <1>0, <1>7 DEF Lose, HoldBack, TypeOK
  <2>2. late' \subseteq States
    BY <1>7 DEF Lose, HoldBack, TypeOK
  <2> QED
    BY <1>7, <2>1, <2>2 DEF Lose, HoldBack, TypeOK, sender, receiver
<1>8. CASE Tick
  <2>1. sinceSend' \in 0..Refresh /\ cacheAge' \in 0..Expiry /\ viewAge' \in 0..Expiry
    BY <1>0, <1>8, UpToBounded DEF Tick, TypeOK
  <2>2. sinceHeard' \in 0..(2 * Expiry)
    <3>1. 2 * Expiry \in Nat
      BY <1>0
    <3> QED
      BY <1>8, <3>1, UpToBounded DEF Tick, TypeOK
  <2> QED
    BY <1>8, <2>1, <2>2 DEF Tick, TypeOK
<1>9. CASE UNCHANGED vars
  BY <1>9 DEF vars, TypeOK
<1> QED
  BY <1>1, <1>2, <1>3, <1>4, <1>5, <1>6, <1>7, <1>8, <1>9 DEF Next

LEMMA InitType == Init => TypeOK
<1> SUFFICES ASSUME Init PROVE TypeOK
  OBVIOUS
<1>1. /\ sinceSend \in 0..Refresh /\ repeats \in 0..InactiveRepeats
      /\ cacheAge \in 0..Expiry /\ viewAge \in 0..Expiry /\ sinceHeard \in 0..(2 * Expiry)
      /\ changes \in 0..MaxChanges /\ faults \in 0..MaxFaults
  BY TicksAssumption DEF Init
<1>2. /\ {inRoster, resolved, talking, heard, sentTick, recvTick} \subseteq BOOLEAN
      /\ {local, sent, cache, view} \subseteq States
  BY DEF Init, States
<1>3. wire \in States \cup {Nothing} /\ late \subseteq States /\ cue \in {Nothing, "start", "stop"}
  BY DEF Init
<1> QED
  BY <1>1, <1>2, <1>3 DEF TypeOK

(* The types of both clients and the wire (Extension.cpp:93-139,            *)
(* VoiceSession.cpp:70-109, State.cpp:475-500).                             *)
THEOREM TypeCorrect == Spec => []TypeOK
<1> QED
  BY InitType, StepType, PTL DEF Spec

(* Each of the two places knows of an announcement that is no older than    *)
(* its age, and what the second adds to the first is at most its expiry;    *)
(* whoever counts as transmitting was in the second at the last tick.       *)
HeardInv ==
  /\ Fresh => sinceHeard <= cacheAge
  /\ view # Off /\ viewAge < Expiry => sinceHeard <= viewAge + (Expiry - 1)
  /\ talking => sinceHeard <= 2 * Expiry - 1
  /\ talking /\ recvTick => sinceHeard <= 2 * Expiry - 2

LEMMA OnRadioTxHeard ==
  ASSUME TypeOK, HeardInv, NEW m \in States, OnRadioTx(m)
  PROVE  /\ Fresh' => sinceHeard' <= cacheAge'
         /\ sinceHeard' <= sinceHeard
<1>1. Expiry \in Nat \ {0} /\ cacheAge \in Nat /\ sinceHeard \in Nat
  BY TicksAssumption DEF TypeOK
<1>2. CASE ~inRoster
  BY <1>1, <1>2 DEF OnRadioTx, Fresh, HeardInv
<1>3. CASE inRoster
  BY <1>1, <1>3 DEF OnRadioTx, Fresh, HeardInv
<1> QED
  BY <1>2, <1>3

LEMMA InSeries ==
  ASSUME NEW e \in Nat, NEW a \in Nat, NEW s \in Nat, a < e, s <= a + (e - 1)
  PROVE  s <= 2 * e - 2
  OBVIOUS

LEMMA StepHeard == TypeOK /\ HeardInv /\ [Next]_vars => HeardInv'
<1> SUFFICES ASSUME TypeOK, HeardInv, [Next]_vars PROVE HeardInv'
  OBVIOUS
<1>0. /\ Expiry \in Nat \ {0} /\ cacheAge \in 0..Expiry /\ viewAge \in 0..Expiry
      /\ sinceHeard \in 0..(2 * Expiry)
  BY TicksAssumption DEF TypeOK
<1>1. CASE Receive
  <2>1. wire \in States
    BY <1>1 DEF Receive, TypeOK
  <2>2. (Fresh' => sinceHeard' <= cacheAge') /\ sinceHeard' <= sinceHeard
        /\ sinceHeard' \in 0..(2 * Expiry)
    BY <1>1, <2>1, OnRadioTxHeard, OnRadioTxTypes DEF Receive
  <2> QED
    BY <1>0, <1>1, <2>2 DEF Receive, HeardInv
<1>2. ASSUME NEW m \in late, ReceiveLate(m) PROVE HeardInv'
  <2>1. m \in States
    BY DEF TypeOK
  <2>2. (Fresh' => sinceHeard' <= cacheAge') /\ sinceHeard' <= sinceHeard
        /\ sinceHeard' \in 0..(2 * Expiry)
    BY <1>2, <2>1, OnRadioTxHeard, OnRadioTxTypes DEF ReceiveLate
  <2> QED
    BY <1>0, <1>2, <2>2 DEF ReceiveLate, HeardInv
<1>3. CASE ReceiverTick
  <2>1. view' # Off /\ viewAge' < Expiry => sinceHeard <= viewAge' + (Expiry - 1)
    BY <1>0, <1>3 DEF ReceiverTick, HeardInv, Fresh
  <2>2. viewAge' \in 0..Expiry
    BY <1>0, <1>3 DEF ReceiverTick
  <2>3. talking' => sinceHeard <= 2 * Expiry - 2
    <3>1. talking' => view' # Off /\ viewAge' < Expiry
      BY <1>3 DEF ReceiverTick, Valid
    <3>2. ASSUME view' # Off, viewAge' < Expiry PROVE sinceHeard <= 2 * Expiry - 2
      <4>1. Expiry \in Nat /\ sinceHeard \in Nat /\ viewAge' \in Nat
        BY <1>0, <2>2
      <4>2. sinceHeard <= viewAge' + (Expiry - 1)
        BY <3>2, <2>1
      <4> QED
        BY <3>2, <4>1, <4>2, InSeries
    <3> QED
      BY <3>1, <3>2
  <2> QED
    BY <1>0, <1>3, <2>1, <2>3 DEF ReceiverTick, HeardInv, Fresh
<1>4. CASE Tick
  <2>1. /\ cacheAge' \in 0..Expiry /\ (cacheAge < Expiry => cacheAge' = cacheAge + 1)
        /\ cacheAge <= cacheAge'
        /\ viewAge' \in 0..Expiry /\ (viewAge < Expiry => viewAge' = viewAge + 1)
        /\ viewAge <= viewAge'
    BY <1>0, <1>4, UpToBounded DEF Tick
  <2>2. sinceHeard' \in 0..(2 * Expiry) /\ sinceHeard' <= sinceHeard + 1
    <3>1. 2 * Expiry \in Nat
      BY <1>0
    <3> QED
      BY <1>0, <1>4, <3>1, UpToBounded DEF Tick
  <2>3. /\ recvTick /\ ~recvTick'
        /\ cache' = cache /\ view' = view /\ talking' = talking
    BY <1>4 DEF Tick
  <2>4. Fresh' => sinceHeard' <= cacheAge'
    BY <1>0, <2>1, <2>2, <2>3 DEF HeardInv, Fresh
  <2>5. view' # Off /\ viewAge' < Expiry => sinceHeard' <= viewAge' + (Expiry - 1)
    <3>1. viewAge' < Expiry => viewAge < Expiry /\ viewAge' = viewAge + 1
      BY <1>0, <2>1
    <3>2. view' # Off /\ viewAge < Expiry => sinceHeard <= viewAge + (Expiry - 1)
      BY <2>3 DEF HeardInv
    <3> QED
      BY <1>0, <2>2, <3>1, <3>2
  <2>6. talking' => sinceHeard' <= 2 * Expiry - 1
    BY <1>0, <2>2, <2>3 DEF HeardInv
  <2> QED
    BY <2>3, <2>4, <2>5, <2>6 DEF HeardInv
<1>5. CASE UNCHANGED <<cache, cacheAge, view, viewAge, talking, sinceHeard, recvTick>>
  BY <1>5 DEF HeardInv, Fresh
<1>6. ASSUME NEW c \in Channels \cup {Off}, Change(c) PROVE HeardInv'
  BY <1>5, <1>6 DEF Change, receiver
<1>7. CASE SenderTick \/ LearnSession \/ LearnName \/ Lose \/ HoldBack
  BY <1>5, <1>7 DEF SenderTick, LearnSession, LearnName, Lose, HoldBack, receiver
<1>8. CASE UNCHANGED vars
  BY <1>5, <1>8 DEF vars
<1> QED
  BY <1>1, <1>2, <1>3, <1>4, <1>6, <1>7, <1>8 DEF Next

(* Nobody counts as transmitting longer than the two expiries in series     *)
(* after the last announcement, whatever is lost, late or never sent        *)
(* (VoiceSession.cpp:101-109, State.cpp:491-500).                           *)
THEOREM TalkingCorrect == Spec => []TalkingBounded
<1>1. Init => TypeOK /\ HeardInv
  <2>1. Init => HeardInv
    BY DEF Init, HeardInv, Fresh
  <2> QED
    BY <2>1, InitType
<1>2. TypeOK /\ HeardInv /\ [Next]_vars => TypeOK' /\ HeardInv'
  BY StepType, StepHeard
<1>3. TypeOK /\ HeardInv => TalkingBounded
  BY TicksAssumption DEF TypeOK, HeardInv, TalkingBounded
<1> QED
  BY <1>1, <1>2, <1>3, PTL DEF Spec

(* While every announcement arrives, what the cache knows of is what was    *)
(* announced last, and is no older than that announcement.                  *)
AnnouncedInv ==
  /\ wire # Nothing => wire = sent /\ sinceSend = 0 /\ sentTick
  /\ ~inRoster => cache = Off
  /\ faults = MaxFaults =>
       /\ late = {}
       /\ cache # Off =>
            /\ cacheAge <= Refresh
            /\ wire = Nothing =>
                 /\ sent # Off /\ cacheAge <= sinceSend
                 /\ sentTick => sinceSend < Refresh

LEMMA StepAnnounced == TypeOK /\ AnnouncedInv /\ [Next]_vars => AnnouncedInv'
<1> SUFFICES ASSUME TypeOK, AnnouncedInv, [Next]_vars PROVE AnnouncedInv'
  OBVIOUS
<1>0. /\ Expiry \in Nat \ {0} /\ Refresh \in Nat \ {0} /\ Refresh < Expiry
      /\ cacheAge \in 0..Expiry /\ sinceSend \in 0..Refresh
      /\ faults \in 0..MaxFaults /\ MaxFaults \in Nat
  BY TicksAssumption DEF TypeOK
<1>1. CASE SenderTick
  <2>1. /\ ~sentTick /\ sentTick' /\ wire = Nothing
        /\ inRoster' = inRoster /\ cache' = cache /\ cacheAge' = cacheAge
        /\ late' = late /\ faults' = faults
    BY <1>1 DEF SenderTick, receiver, AnnouncedInv
  <2>2. CASE wire' = local /\ sent' = local /\ sinceSend' = 0
    <3>1. local # Nothing
      BY ChannelsAssumption DEF TypeOK, States, Off, Nothing
    <3> QED
      BY <2>1, <2>2, <3>1 DEF AnnouncedInv
  <2>3. CASE UNCHANGED <<wire, sent, sinceSend>> /\ ~Changed /\ ~RefreshDue
    <3>1. sent # Off => sinceSend < Refresh
      BY <1>0, <2>3 DEF Changed, RefreshDue
    <3> QED
      BY <2>1, <2>3, <3>1 DEF AnnouncedInv
  <2> QED
    BY <1>1, <2>2, <2>3 DEF SenderTick
<1>2. CASE Receive
  <2>1. /\ wire # Nothing /\ wire' = Nothing /\ OnRadioTx(wire)
        /\ inRoster' = inRoster /\ late' = late /\ faults' = faults
        /\ sent' = sent /\ sinceSend' = sinceSend /\ sentTick' = sentTick
        /\ wire = sent /\ sinceSend = 0
    BY <1>2 DEF Receive, sender, AnnouncedInv
  <2>2. CASE ~inRoster
    <3>1. cache' = Off
      BY <2>1, <2>2 DEF OnRadioTx, AnnouncedInv
    <3> QED
      BY <2>1, <3>1 DEF AnnouncedInv
  <2>3. CASE inRoster
    <3>1. cache' = wire /\ (wire # Off => cacheAge' = 0)
      BY <2>1, <2>3 DEF OnRadioTx
    <3> QED
      BY <1>0, <2>1, <2>3, <3>1 DEF AnnouncedInv
  <2> QED
    BY <2>2, <2>3
<1>3. ASSUME NEW m \in late, ReceiveLate(m) PROVE AnnouncedInv'
  <2>1. /\ faults # MaxFaults /\ faults' = faults /\ OnRadioTx(m) /\ inRoster' = inRoster
        /\ wire' = wire /\ sent' = sent /\ sinceSend' = sinceSend /\ sentTick' = sentTick
    BY <1>3 DEF ReceiveLate, sender, AnnouncedInv
  <2>2. ~inRoster => cache' = cache
    BY <2>1 DEF OnRadioTx
  <2> QED
    BY <2>1, <2>2 DEF AnnouncedInv
<1>4. CASE Lose \/ HoldBack
  <2>1. /\ faults' # MaxFaults /\ wire' = Nothing /\ inRoster' = inRoster /\ cache' = cache
    BY <1>0, <1>4 DEF Lose, HoldBack, receiver
  <2> QED
    BY <2>1 DEF AnnouncedInv
<1>5. CASE Tick
  <2>1. /\ sentTick /\ ~sentTick' /\ wire = Nothing /\ wire' = Nothing
        /\ sent' = sent /\ inRoster' = inRoster /\ cache' = cache
        /\ late' = late /\ faults' = faults
        /\ sinceSend' = UpTo(sinceSend, Refresh) /\ cacheAge' = UpTo(cacheAge, Expiry)
    BY <1>5 DEF Tick
  <2>2. cacheAge <= sinceSend /\ sinceSend < Refresh
        => cacheAge' <= sinceSend' /\ cacheAge' <= Refresh
    BY <1>0, <2>1 DEF UpTo
  <2> QED
    BY <2>1, <2>2 DEF AnnouncedInv
<1>6. CASE UNCHANGED <<wire, sent, sinceSend, sentTick, cache, cacheAge, late, faults>>
           /\ (inRoster => inRoster')
  BY <1>6 DEF AnnouncedInv
<1>7. ASSUME NEW c \in Channels \cup {Off}, Change(c) PROVE AnnouncedInv'
  BY <1>6, <1>7 DEF Change, sender, receiver
<1>8. CASE ReceiverTick \/ LearnSession \/ LearnName
  BY <1>6, <1>8 DEF ReceiverTick, LearnSession, LearnName, sender
<1>9. CASE UNCHANGED vars
  BY <1>6, <1>9 DEF vars
<1> QED
  BY <1>1, <1>2, <1>3, <1>4, <1>5, <1>7, <1>8, <1>9 DEF Next

(* The cue of one announcement, when the cache is not older than a refresh. *)
LEMMA CueOfOne ==
  ASSUME TypeOK, AnnouncedInv, faults = MaxFaults, Receive
  PROVE  (cue' = "start") = (~Fresh /\ Fresh')
<1>1. Expiry \in Nat \ {0} /\ Refresh \in Nat /\ Refresh < Expiry /\ cacheAge \in 0..Expiry
  BY TicksAssumption DEF TypeOK
<1>2. OnRadioTx(wire)
  BY DEF Receive
<1>3. Fresh <=> cache # Off
  BY <1>1 DEF Fresh, AnnouncedInv
<1>4. CASE ~inRoster
  <2>1. cue' # "start" /\ cache' = cache /\ cacheAge' = cacheAge
    BY <1>2, <1>4 DEF OnRadioTx, Nothing
  <2> QED
    BY <2>1 DEF Fresh
<1>5. CASE inRoster
  <2>1. /\ cache' = wire /\ (wire # Off => cacheAge' = 0)
        /\ cue' = "start" <=> wire # Off /\ cache = Off
    BY <1>2, <1>5 DEF OnRadioTx, Nothing
  <2>2. Fresh' <=> wire # Off
    BY <1>1, <2>1 DEF Fresh
  <2> QED
    BY <1>3, <2>1, <2>2
<1> QED
  BY <1>4, <1>5

(* While no announcement is lost or late, the start cue is triggered by     *)
(* exactly the announcements that begin a transmission for the receiver     *)
(* (VoiceSession.cpp:92-104): the refreshes come before the entry expires.  *)
THEOREM CueCorrect == Spec => CueAtStart
<1>1. Init => TypeOK /\ AnnouncedInv
  <2>1. Init => AnnouncedInv
    BY DEF Init, AnnouncedInv
  <2> QED
    BY <2>1, InitType
<1>2. TypeOK /\ AnnouncedInv /\ [Next]_vars => TypeOK' /\ AnnouncedInv'
  BY StepType, StepAnnounced
<1>3. TypeOK /\ AnnouncedInv /\ [Next]_vars =>
        [faults = MaxFaults /\ Receive => (cue' = "start") = (~Fresh /\ Fresh')]_vars
  BY CueOfOne
<1> QED
  BY <1>1, <1>2, <1>3, PTL DEF Spec, CueAtStart

----------------------------------------------------------------------------
(* How often the faults that are left, and the end of the transmission      *)
(* before if it is held back, can still keep the receiver from an           *)
(* announcement; how many ticks away the next announcement is; and how long *)
(* the upsets can then make it.                                             *)
HeldEnd == IF Off \in late THEN 1 ELSE 0
Upsets == faults + HeldEnd

Wait == CASE wire # Nothing                -> 0
          [] wire = Nothing /\ sent = Off  -> IF sentTick THEN 1 ELSE 0
          [] wire = Nothing /\ sent # Off  -> Refresh - sinceSend

Reserve == Upsets * Refresh
Tolerance == MaxFaults * Refresh

(* What the sender has announced and the receiver knows while a             *)
(* transmission is heard.                                                   *)
KnownInv ==
  /\ sentTick /\ sent # Off => sinceSend < Refresh
  /\ heard => local # Off /\ inRoster /\ resolved /\ view # Off /\ wire # Off

(* An upset is a fault that is left or an end that is held back.  Unless a  *)
(* fault is spent for good, the cache is not older than the announcement.   *)
UpsetInv ==
  /\ Upsets <= MaxFaults
  /\ Upsets = MaxFaults =>
       /\ late \subseteq {Off}
       /\ sent # Off /\ cache # Off /\ wire = Nothing => cacheAge <= sinceSend

(* Three ways for a transmission that is heard to stand.  Lagging: nothing  *)
(* was received since the receiver's last look, or what was does not count, *)
(* but the time since then and all that may still go wrong stay within the  *)
(* tolerance.  Seen: the receiver's last tick found the announcement in     *)
(* the cache.  Unseen: it is there for the next tick to find, unless the    *)
(* held-back end comes first.                                               *)
Lagging == viewAge + Wait + Reserve <= Tolerance + (IF Off \in late THEN 1 ELSE 2)

Covered == /\ cache # Off /\ cacheAge < Expiry
           /\ cacheAge + Wait + Reserve <= Tolerance + Refresh

Seen == Covered /\ viewAge <= (IF recvTick THEN 0 ELSE 1)

Unseen ==
  /\ Covered /\ cacheAge <= (IF recvTick THEN 0 ELSE 1)
  /\ Off \in late => viewAge + Reserve <= Tolerance + (IF recvTick THEN 1 ELSE 2)

GapInv == heard => Lagging \/ Seen \/ Unseen

LEMMA Multiples ==
  ASSUME NEW r \in Nat, NEW j \in Nat, NEW k \in Nat
  PROVE  /\ k * r \in Nat
         /\ j < k => j * r + r <= k * r
         /\ j <= k => j * r <= k * r
<1>1. k * r \in Nat /\ j * r \in Nat
  BY SMT
<1>2. ASSUME j < k PROVE j * r + r <= k * r
  <2>1. k = (j + 1) + (k - j - 1) /\ k - j - 1 \in Nat
    BY <1>2
  <2>2. k * r = j * r + r + (k - j - 1) * r /\ (k - j - 1) * r \in Nat
    BY <2>1, SMT
  <2> QED
    BY <1>1, <2>2
<1> QED
  BY <1>1, <1>2

(* The numbers of the gap, and what a step may make of the reserve.         *)
LEMMA GapNumbers ==
  ASSUME TypeOK, UpsetInv
  PROVE  /\ Upsets \in 0..MaxFaults /\ Wait \in 0..Refresh
         /\ Reserve \in Nat /\ Tolerance \in Nat /\ Reserve <= Tolerance
         /\ Upsets < MaxFaults => Reserve + Refresh <= Tolerance
         /\ Refresh \in Nat \ {0} /\ Expiry \in Nat \ {0} /\ Refresh < Expiry
         /\ cacheAge \in 0..Expiry /\ viewAge \in 0..Expiry /\ sinceSend \in 0..Refresh
<1>1. /\ Refresh \in Nat \ {0} /\ Expiry \in Nat \ {0} /\ Refresh < Expiry
      /\ cacheAge \in 0..Expiry /\ viewAge \in 0..Expiry /\ sinceSend \in 0..Refresh
      /\ faults \in 0..MaxFaults /\ MaxFaults \in Nat
  BY TicksAssumption DEF TypeOK
<1>2. Upsets \in 0..MaxFaults
  BY <1>1 DEF UpsetInv, Upsets, HeldEnd
<1>3. Wait \in 0..Refresh
  BY <1>1 DEF Wait
<1> QED
  BY <1>1, <1>2, <1>3, Multiples DEF Reserve, Tolerance

LEMMA UpsetType == TypeOK => Upsets \in Nat
<1> SUFFICES ASSUME TypeOK PROVE Upsets \in Nat
  OBVIOUS
<1>1. faults \in Nat
  BY TicksAssumption DEF TypeOK
<1>2. HeldEnd \in 0..1
  BY DEF HeldEnd
<1> QED
  BY <1>1, <1>2 DEF Upsets

LEMMA UpsetTypes == TypeOK /\ TypeOK' => Upsets \in Nat /\ Upsets' \in Nat
<1> SUFFICES ASSUME TypeOK, TypeOK' PROVE Upsets \in Nat /\ Upsets' \in Nat
  OBVIOUS
<1>1. faults' \in Nat
  BY TicksAssumption DEF TypeOK
<1>2. HeldEnd' \in 0..1
  BY DEF HeldEnd
<1>3. Upsets' = faults' + HeldEnd'
  BY DEF Upsets
<1>4. ASSUME NEW a \in Nat, NEW b \in 0..1 PROVE a + b \in Nat
  OBVIOUS
<1>5. faults' + HeldEnd' \in Nat
  BY <1>1, <1>2, <1>4
<1>6. Upsets \in Nat
  BY UpsetType
<1>7. Upsets' \in Nat
  BY <1>3, <1>5
<1> QED
  BY <1>6, <1>7

LEMMA ReserveStep ==
  ASSUME TypeOK, TypeOK', Upsets' <= Upsets
  PROVE  /\ Reserve \in Nat /\ Reserve' \in Nat /\ Reserve' <= Reserve
         /\ Upsets' < Upsets => Reserve' + Refresh <= Reserve
<1>1. Refresh \in Nat /\ Upsets \in Nat /\ Upsets' \in Nat
  BY TicksAssumption, UpsetTypes
<1> QED
  BY <1>1, Multiples DEF Reserve

(* No step adds to the upsets; a fault on an announcement, and the end that *)
(* arrives late, take one away.                                             *)
LEMMA UpsetStep ==
  ASSUME TypeOK, TypeOK', [Next]_vars
  PROVE  /\ Upsets' <= Upsets
         /\ Lose \/ (HoldBack /\ wire # Off) \/ (Off \in late /\ Off \notin late')
              => Upsets' < Upsets
         /\ wire # Off /\ Off \in late' => Off \in late
<1>0. faults \in Nat /\ faults' \in Nat
  BY TicksAssumption DEF TypeOK
<1>1. CASE Lose
  <2>1. late' = late /\ faults' = faults - 1
    BY <1>1 DEF Lose
  <2> QED
    BY <1>0, <2>1 DEF Upsets, HeldEnd
<1>2. CASE HoldBack
  <2>1. late' = late \cup {wire} /\ faults' = faults - 1
    BY <1>2 DEF HoldBack
  <2> QED
    BY <1>0, <2>1 DEF Upsets, HeldEnd, Lose
<1>3. ASSUME NEW m \in late, ReceiveLate(m)
      PROVE  faults' = faults /\ late' = late \ {m}
  BY <1>3 DEF ReceiveLate
<1>4. ASSUME faults' = faults, late' \subseteq late
      PROVE  /\ Upsets' <= Upsets
             /\ Off \in late /\ Off \notin late' => Upsets' < Upsets
  BY <1>0, <1>4 DEF Upsets, HeldEnd
<1>5. \/ Lose \/ HoldBack
      \/ faults' = faults /\ late' \subseteq late /\ ~Lose /\ ~HoldBack
  <2>1. ASSUME faults' = faults PROVE ~Lose /\ ~HoldBack
    BY <1>0, <2>1 DEF Lose, HoldBack
  <2>2. Lose \/ HoldBack \/ (faults' = faults /\ late' \subseteq late)
    BY <1>3 DEF Next, vars, Change, SenderTick, Receive, ReceiverTick, LearnSession, LearnName, Tick
  <2> QED
    BY <2>1, <2>2
<1> QED
  BY <1>1, <1>2, <1>4, <1>5

LEMMA StepKnown == TypeOK /\ AnnouncedInv /\ KnownInv /\ [Next]_vars => KnownInv'
<1> SUFFICES ASSUME TypeOK, AnnouncedInv, KnownInv, [Next]_vars PROVE KnownInv'
  OBVIOUS
<1>0. Refresh \in Nat \ {0} /\ sinceSend \in 0..Refresh
  BY TicksAssumption DEF TypeOK
<1>1. ASSUME NEW c \in Channels \cup {Off}, Change(c) PROVE KnownInv'
  BY <1>1 DEF Change, KnownInv, sender, receiver
<1>2. CASE SenderTick
  <2>1. CASE wire' = local /\ sent' = local /\ sinceSend' = 0
    BY <1>0, <1>2, <2>1 DEF SenderTick, KnownInv, receiver
  <2>2. CASE UNCHANGED <<wire, sent, sinceSend>> /\ ~Changed /\ ~RefreshDue
    BY <1>0, <1>2, <2>2 DEF SenderTick, KnownInv, Changed, RefreshDue, receiver
  <2> QED
    BY <1>2, <2>1, <2>2 DEF SenderTick
<1>3. CASE Receive
  BY <1>3 DEF Receive, KnownInv, sender, Nothing, Off
<1>4. ASSUME NEW m \in late, ReceiveLate(m) PROVE KnownInv'
  BY <1>4 DEF ReceiveLate, KnownInv, sender
<1>5. CASE ReceiverTick
  <2>1. heard' => local # Off /\ inRoster /\ resolved /\ view' # Off /\ wire' # Off
    <3>1. CASE heard
      BY <1>5, <3>1 DEF ReceiverTick, KnownInv, Fresh
    <3>2. CASE ~heard /\ local # Off /\ Fresh /\ resolved
      BY <1>5, <3>2 DEF ReceiverTick, AnnouncedInv, Fresh, Nothing, Off
    <3> QED
      BY <1>5, <3>1, <3>2 DEF ReceiverTick
  <2> QED
    BY <1>5, <2>1 DEF ReceiverTick, KnownInv, sender
<1>6. CASE LearnSession \/ LearnName
  BY <1>6 DEF LearnSession, LearnName, KnownInv, sender
<1>7. CASE Lose \/ HoldBack
  BY <1>7 DEF Lose, HoldBack, KnownInv, sender, receiver, Nothing, Off
<1>8. CASE Tick
  BY <1>8 DEF Tick, KnownInv
<1>9. CASE UNCHANGED vars
  BY <1>9 DEF vars, KnownInv
<1> QED
  BY <1>1, <1>2, <1>3, <1>4, <1>5, <1>6, <1>7, <1>8, <1>9 DEF Next

LEMMA StepUpset ==
  TypeOK /\ TypeOK' /\ AnnouncedInv /\ KnownInv /\ UpsetInv /\ [Next]_vars => UpsetInv'
<1> SUFFICES ASSUME TypeOK, TypeOK', AnnouncedInv, KnownInv, UpsetInv, [Next]_vars
             PROVE  UpsetInv'
  OBVIOUS
<1>0. /\ Refresh \in Nat \ {0} /\ Expiry \in Nat \ {0} /\ MaxFaults \in Nat
      /\ sinceSend \in 0..Refresh /\ cacheAge \in 0..Expiry
      /\ Upsets \in Nat /\ Upsets' \in Nat /\ Upsets' <= Upsets /\ Upsets <= MaxFaults
  BY UpsetTypes, UpsetStep, TicksAssumption DEF TypeOK, UpsetInv
<1> SUFFICES ASSUME Upsets' = MaxFaults
             PROVE  /\ late' \subseteq {Off}
                    /\ (sent # Off /\ cache # Off /\ wire = Nothing => cacheAge <= sinceSend)'
  BY <1>0 DEF UpsetInv
<1>1. /\ Upsets = MaxFaults /\ late \subseteq {Off}
      /\ sent # Off /\ cache # Off /\ wire = Nothing => cacheAge <= sinceSend
  BY <1>0 DEF UpsetInv
<1>2. CASE SenderTick
  <2>1. late' = late /\ cache' = cache /\ cacheAge' = cacheAge
    BY <1>2 DEF SenderTick, receiver
  <2>2. CASE wire' = local
    <3>1. wire' # Nothing
      BY <2>2, ChannelsAssumption DEF TypeOK, States, Off, Nothing
    <3> QED
      BY <1>1, <2>1, <3>1
  <2>3. CASE UNCHANGED <<wire, sent, sinceSend>>
    BY <1>1, <2>1, <2>3
  <2> QED
    BY <1>2, <2>2, <2>3 DEF SenderTick
<1>3. CASE Receive
  <2>1. /\ late' = late /\ sent' = sent /\ sinceSend' = sinceSend /\ wire = sent
        /\ OnRadioTx(wire) /\ inRoster' = inRoster
    BY <1>3 DEF Receive, sender, AnnouncedInv
  <2>2. ~inRoster => cache' = Off
    BY <2>1 DEF OnRadioTx, AnnouncedInv
  <2>3. inRoster /\ sent # Off => cacheAge' = 0
    BY <2>1 DEF OnRadioTx
  <2> QED
    BY <1>0, <1>1, <2>1, <2>2, <2>3
<1>4. ASSUME NEW m \in late, ReceiveLate(m) PROVE FALSE
  <2>1. m = Off
    BY <1>1
  <2>2. Off \in late /\ Off \notin late'
    BY <1>4, <2>1 DEF ReceiveLate
  <2> QED
    BY <1>0, <1>1, <2>2, UpsetStep
<1>5. CASE Lose
  BY <1>0, <1>1, <1>5, UpsetStep
<1>6. CASE HoldBack
  <2>1. wire = Off
    BY <1>0, <1>1, <1>6, UpsetStep
  <2>2. late' = late \cup {Off} /\ sent' = Off
    BY <1>6, <2>1 DEF HoldBack, AnnouncedInv, sender, Nothing, Off
  <2> QED
    BY <1>1, <2>2
<1>7. CASE Tick
  <2>1. /\ sentTick /\ wire = Nothing /\ late' = late /\ sent' = sent /\ cache' = cache
        /\ sinceSend' = UpTo(sinceSend, Refresh) /\ cacheAge' = UpTo(cacheAge, Expiry)
    BY <1>7 DEF Tick
  <2>2. sent # Off => sinceSend' = sinceSend + 1 /\ cacheAge' <= cacheAge + 1
    BY <1>0, <2>1, UpToBounded DEF KnownInv
  <2>3. sinceSend' \in Nat /\ cacheAge' \in Nat
    BY <1>0, <2>1, UpToBounded
  <2> QED
    BY <1>0, <1>1, <2>1, <2>2, <2>3
<1>8. CASE UNCHANGED <<late, wire, sent, sinceSend, cache, cacheAge>>
  BY <1>1, <1>8
<1>9. \/ SenderTick \/ Receive \/ Lose \/ HoldBack \/ Tick
      \/ \E m \in late : ReceiveLate(m)
      \/ UNCHANGED <<late, wire, sent, sinceSend, cache, cacheAge>>
  BY DEF Next, vars, Change, ReceiverTick, LearnSession, LearnName, sender, receiver
<1> QED
  BY <1>2, <1>3, <1>4, <1>5, <1>6, <1>7, <1>8, <1>9

(* Numbers of a step: the gap's definitions are only opened where a case    *)
(* needs them.                                                              *)
LEMMA GapStepNumbers ==
  ASSUME TypeOK, TypeOK', UpsetInv, UpsetInv', [Next]_vars
  PROVE  /\ Wait' \in 0..Refresh /\ Reserve' \in Nat /\ Reserve' <= Reserve
         /\ Upsets' < Upsets => Reserve' + Refresh <= Reserve
         /\ Upsets' = Upsets => Reserve' = Reserve
         /\ cacheAge' \in 0..Expiry /\ viewAge' \in 0..Expiry
         /\ Tolerance' = Tolerance
<1>1. cacheAge' \in 0..Expiry /\ viewAge' \in 0..Expiry /\ sinceSend' \in 0..Refresh
  BY DEF TypeOK
<1>2. Wait' \in 0..Refresh
  BY <1>1, TicksAssumption DEF Wait
<1>3. Upsets' = Upsets => Reserve' = Reserve
  BY DEF Reserve
<1> QED
  BY <1>1, <1>2, <1>3, ReserveStep, UpsetStep DEF Tolerance

(* Arithmetic of the gap, for any numbers.                                  *)
LEMMA SumKept ==
  ASSUME NEW v \in Nat, NEW w \in Nat, NEW r \in Nat, NEW x \in Nat, NEW q \in Nat,
         NEW b \in Nat, x + q <= w + r, v + w + r <= b
  PROVE  v + x + q <= b
  OBVIOUS

LEMMA SumYounger ==
  ASSUME NEW v \in Nat, NEW w \in Nat, NEW r \in Nat, NEW y \in Nat, NEW b \in Nat,
         y <= v, v + w + r <= b
  PROVE  y + w + r <= b
  OBVIOUS

LEMMA SumShort ==
  ASSUME NEW y \in Nat, NEW w \in Nat, NEW r \in Nat, NEW b \in Nat, NEW e \in 1..2,
         y <= 1, w + r <= b
  PROVE  y + w + r <= b + e
  OBVIOUS

LEMMA SumNearer ==
  ASSUME NEW w \in Nat, NEW r \in Nat, NEW x \in Nat, NEW q \in Nat, x <= w, q = r
  PROVE  x + q <= w + r
  OBVIOUS

LEMMA SumSpent ==
  ASSUME NEW n \in Nat, NEW r \in Nat, NEW x \in 0..n, NEW q \in Nat, q + n <= r
  PROVE  x + q <= 0 + r
  OBVIOUS

LEMMA SumFalls ==
  ASSUME NEW v \in Nat, NEW r \in Nat, NEW q \in Nat, NEW b \in Nat, q <= r, v + r <= b
  PROVE  v + q <= b
  OBVIOUS

LEMMA UpsetSpent ==
  ASSUME NEW v \in Nat, NEW n \in Nat, NEW w \in 0..n, NEW r \in Nat, NEW q \in Nat,
         NEW b \in Nat, q + n <= r, v + r <= b + 2
  PROVE  v + w + q <= b + 2
  OBVIOUS

LEMMA UpsetSpentWaiting ==
  ASSUME NEW v \in Nat, NEW n \in Nat, NEW w \in 0..n, NEW r \in Nat, NEW q \in Nat,
         NEW b \in Nat, q + n <= r, v <= 1 \/ v + w + r <= b + 1, r <= b
  PROVE  v + w + q <= b + 2
  OBVIOUS

(* A step that brings the announcement nearer, or spends an upset on it,    *)
(* and changes nothing at the receiver.                                     *)
LEMMA GapKept ==
  ASSUME TypeOK, TypeOK', UpsetInv, UpsetInv', [Next]_vars, Lagging \/ Seen \/ Unseen,
         cache' = cache, cacheAge' = cacheAge, viewAge' = viewAge, recvTick' = recvTick,
         (Off \in late') <=> (Off \in late),
         Wait' + Reserve' <= Wait + Reserve
  PROVE  Lagging' \/ Seen' \/ Unseen'
<1>0. /\ Wait \in Nat /\ Wait' \in Nat /\ Reserve \in Nat /\ Reserve' \in Nat
      /\ Reserve' <= Reserve /\ Tolerance \in Nat /\ Tolerance' = Tolerance
      /\ Refresh \in Nat /\ Expiry \in Nat /\ cacheAge \in Nat /\ viewAge \in Nat
  BY GapNumbers, GapStepNumbers
<1>1. ASSUME Lagging PROVE Lagging'
  <2> DEFINE b == Tolerance + (IF Off \in late THEN 1 ELSE 2)
  <2>1. b \in Nat /\ viewAge + Wait + Reserve <= b
    BY <1>0, <1>1 DEF Lagging
  <2>b. b = Tolerance' + (IF Off \in late' THEN 1 ELSE 2)
    BY <1>0
  <2> HIDE DEF b
  <2>2. viewAge + Wait' + Reserve' <= b
    BY <1>0, <2>1, SumKept
  <2>3. viewAge' + Wait' + Reserve' <= Tolerance' + (IF Off \in late' THEN 1 ELSE 2)
    BY <2>b, <2>2
  <2> QED
    BY <2>3 DEF Lagging
<1>2. ASSUME Covered PROVE Covered'
  <2>1. Tolerance + Refresh \in Nat /\ cacheAge + Wait + Reserve <= Tolerance + Refresh
    BY <1>0, <1>2 DEF Covered
  <2>2. cacheAge + Wait' + Reserve' <= Tolerance + Refresh
    BY <1>0, <2>1, SumKept
  <2>3. cacheAge' + Wait' + Reserve' <= Tolerance' + Refresh
    BY <1>0, <2>2
  <2> QED
    BY <1>2, <2>3 DEF Covered
<1>3. ASSUME Seen PROVE Seen'
  BY <1>2, <1>3 DEF Seen
<1>4. ASSUME Unseen PROVE Unseen'
  <2>1. Covered' /\ cacheAge' <= (IF recvTick' THEN 0 ELSE 1)
    BY <1>2, <1>4 DEF Unseen
  <2> DEFINE b == Tolerance + (IF recvTick THEN 1 ELSE 2)
  <2>2. b \in Nat /\ (Off \in late => viewAge + Reserve <= b)
    BY <1>0, <1>4 DEF Unseen
  <2>3. Off \in late => viewAge + Reserve' <= b
    BY <1>0, <2>2, SumFalls
  <2>4. Off \in late' => viewAge' + Reserve' <= Tolerance' + (IF recvTick' THEN 1 ELSE 2)
    BY <1>0, <2>3
  <2> QED
    BY <2>1, <2>4 DEF Unseen
<1> QED
  BY <1>1, <1>3, <1>4

(* An announcement arrives in time.                                         *)
LEMMA GapReceive ==
  ASSUME TypeOK, TypeOK', UpsetInv, UpsetInv', AnnouncedInv, KnownInv, [Next]_vars,
         heard, Lagging \/ Seen \/ Unseen, Receive
  PROVE  Lagging' \/ Seen' \/ Unseen'
<1>0. /\ Wait \in Nat /\ Reserve \in Nat /\ Reserve <= Tolerance
      /\ Tolerance \in Nat /\ Tolerance' = Tolerance
      /\ Refresh \in Nat \ {0} /\ Expiry \in Nat /\ Refresh < Expiry
      /\ cacheAge \in Nat /\ viewAge \in Nat
  BY GapNumbers, GapStepNumbers
<1>1. /\ wire = sent /\ sent # Off /\ sinceSend = 0 /\ inRoster /\ OnRadioTx(wire)
      /\ wire # Nothing /\ wire' = Nothing /\ sent' = sent /\ sinceSend' = 0
      /\ late' = late /\ faults' = faults /\ viewAge' = viewAge /\ recvTick' = recvTick
  BY DEF Receive, sender, AnnouncedInv, KnownInv
<1>2. cache' # Off /\ cacheAge' = 0
  BY <1>1 DEF OnRadioTx
<1>3. Wait = 0 /\ Wait' = Refresh
  BY <1>0, <1>1 DEF Wait
<1>4. Reserve' = Reserve
  BY <1>1 DEF Reserve, Upsets, HeldEnd
<1>5. Covered'
  BY <1>0, <1>2, <1>3, <1>4 DEF Covered
<1>6. ASSUME Seen PROVE Seen'
  BY <1>1, <1>5, <1>6 DEF Seen
<1>7. ASSUME Lagging \/ Unseen PROVE Unseen'
  <2>1. Off \in late => viewAge + Reserve <= Tolerance + (IF recvTick THEN 1 ELSE 2)
    BY <1>0, <1>3, <1>7 DEF Lagging, Unseen
  <2>2. Off \in late' => viewAge' + Reserve' <= Tolerance' + (IF recvTick' THEN 1 ELSE 2)
    BY <1>0, <1>1, <1>4, <2>1
  <2>3. cacheAge' <= (IF recvTick' THEN 0 ELSE 1)
    BY <1>2
  <2> QED
    BY <1>5, <2>2, <2>3 DEF Unseen
<1> QED
  BY <1>6, <1>7

(* A datagram arrives late: the end of the transmission before costs an     *)
(* upset, an announcement does no harm.                                     *)
LEMMA GapReceiveLate ==
  ASSUME TypeOK, TypeOK', UpsetInv, UpsetInv', KnownInv, [Next]_vars,
         heard, Lagging \/ Seen \/ Unseen, NEW m \in late, ReceiveLate(m)
  PROVE  Lagging' \/ Seen' \/ Unseen'
<1>0. /\ Wait \in 0..Refresh /\ Reserve \in Nat /\ Reserve' \in Nat /\ Reserve <= Tolerance
      /\ Tolerance \in Nat /\ Tolerance' = Tolerance
      /\ Refresh \in Nat \ {0} /\ Expiry \in Nat /\ Refresh < Expiry
      /\ cacheAge \in Nat /\ viewAge \in Nat
  BY GapNumbers, GapStepNumbers
<1>1. /\ inRoster /\ OnRadioTx(m) /\ late' = late \ {m} /\ faults' = faults
      /\ wire' = wire /\ sent' = sent /\ sentTick' = sentTick /\ sinceSend' = sinceSend
      /\ viewAge' = viewAge /\ recvTick' = recvTick
  BY DEF ReceiveLate, sender, KnownInv
<1>2. Wait' = Wait
  BY <1>1 DEF Wait
<1>3. CASE m = Off
  <2>1. Off \in late /\ Off \notin late'
    BY <1>1, <1>3
  <2>2. Reserve' + Refresh <= Reserve
    BY <2>1, UpsetStep, GapStepNumbers
  <2>3. viewAge + Wait + Reserve' <= Tolerance + 2
    <3>1. CASE Lagging
      <4>1. viewAge + Wait + Reserve <= Tolerance + 1
        BY <2>1, <3>1 DEF Lagging
      <4> QED
        BY <1>0, <2>2, <4>1, UpsetSpentWaiting
    <3>2. CASE Seen
      <4>1. viewAge <= 1
        BY <1>0, <3>2 DEF Seen
      <4> QED
        BY <1>0, <2>2, <4>1, UpsetSpentWaiting
    <3>3. CASE Unseen
      <4> DEFINE b == IF recvTick THEN 1 ELSE 2
      <4>1. b \in 1..2 /\ viewAge + Reserve <= Tolerance + b
        BY <2>1, <3>3 DEF Unseen
      <4> HIDE DEF b
      <4>2. viewAge + Reserve <= Tolerance + 2
        BY <1>0, <4>1
      <4> QED
        BY <1>0, <2>2, <4>2, UpsetSpent
    <3> QED
      BY <3>1, <3>2, <3>3
  <2>4. viewAge' + Wait' + Reserve' <= Tolerance' + (IF Off \in late' THEN 1 ELSE 2)
    BY <1>0, <1>1, <1>2, <2>1, <2>3
  <2> QED
    BY <2>4 DEF Lagging
<1>4. CASE m # Off
  <2>1. cache' # Off /\ cacheAge' = 0 /\ ((Off \in late') <=> (Off \in late))
    BY <1>1, <1>4 DEF OnRadioTx
  <2>2. Reserve' = Reserve
    BY <1>1, <2>1 DEF Reserve, Upsets, HeldEnd
  <2>3. ASSUME Lagging PROVE Lagging'
    <3>1. viewAge + Wait + Reserve <= Tolerance + (IF Off \in late THEN 1 ELSE 2)
      BY <2>3 DEF Lagging
    <3>2. viewAge' + Wait' + Reserve' <= Tolerance' + (IF Off \in late' THEN 1 ELSE 2)
      BY <1>0, <1>1, <1>2, <2>1, <2>2, <3>1
    <3> QED
      BY <3>2 DEF Lagging
  <2>4. ASSUME Covered PROVE Covered'
    BY <1>0, <1>2, <2>1, <2>2, <2>4 DEF Covered
  <2>5. ASSUME Seen PROVE Seen'
    BY <1>1, <2>4, <2>5 DEF Seen
  <2>6. ASSUME Unseen PROVE Unseen'
    <3>1. Off \in late' => viewAge' + Reserve' <= Tolerance' + (IF recvTick' THEN 1 ELSE 2)
      BY <1>0, <1>1, <2>1, <2>2, <2>6 DEF Unseen
    <3>2. Covered' /\ cacheAge' <= (IF recvTick' THEN 0 ELSE 1)
      BY <1>0, <1>1, <2>1, <2>4, <2>6 DEF Unseen
    <3> QED
      BY <3>1, <3>2 DEF Unseen
  <2> QED
    BY <2>3, <2>5, <2>6
<1> QED
  BY <1>3, <1>4

(* The receiver looks: a transmission that begins to be heard is covered,   *)
(* or one of the upsets has already been spent on its announcements.        *)
LEMMA GapLook ==
  ASSUME TypeOK, TypeOK', UpsetInv, UpsetInv', KnownInv, [Next]_vars,
         heard => Lagging \/ Seen \/ Unseen, heard', ReceiverTick
  PROVE  Lagging' \/ Seen' \/ Unseen'
<1>0. /\ Wait \in 0..Refresh /\ Reserve \in Nat /\ Reserve <= Tolerance
      /\ Upsets < MaxFaults => Reserve + Refresh <= Tolerance
      /\ Upsets \in 0..MaxFaults /\ MaxFaults \in Nat
      /\ Tolerance \in Nat /\ Tolerance' = Tolerance
      /\ Refresh \in Nat \ {0} /\ Expiry \in Nat /\ Refresh < Expiry
      /\ cacheAge \in Nat /\ viewAge \in Nat /\ viewAge' \in Nat /\ sinceSend \in 0..Refresh
  BY GapNumbers, GapStepNumbers, TicksAssumption
<1>1. /\ wire = Nothing /\ wire' = wire /\ sent' = sent /\ sentTick' = sentTick
      /\ sinceSend' = sinceSend /\ late' = late /\ faults' = faults
      /\ cache' = cache /\ cacheAge' = cacheAge /\ recvTick'
      /\ viewAge' = (IF Fresh /\ resolved THEN 0 ELSE viewAge)
      /\ heard \/ (Fresh /\ resolved)
  BY DEF ReceiverTick, sender
<1>2. Wait' = Wait /\ Reserve' = Reserve
  BY <1>1 DEF Wait, Reserve, Upsets, HeldEnd
<1>3. viewAge' <= viewAge
  BY <1>0, <1>1
<1>8. Wait \in Nat
  BY <1>0
<1>4. ASSUME Lagging PROVE Lagging'
  <2> DEFINE b == Tolerance + (IF Off \in late THEN 1 ELSE 2)
  <2>1. b \in Nat /\ viewAge + Wait + Reserve <= b
    BY <1>0, <1>4 DEF Lagging
  <2>2. b = Tolerance' + (IF Off \in late' THEN 1 ELSE 2)
    BY <1>0, <1>1
  <2> HIDE DEF b
  <2>3. viewAge' + Wait + Reserve <= b
    BY <1>0, <1>3, <1>8, <2>1, SumYounger
  <2>4. viewAge' + Wait' + Reserve' <= Tolerance' + (IF Off \in late' THEN 1 ELSE 2)
    BY <1>2, <2>2, <2>3
  <2> QED
    BY <2>4 DEF Lagging
<1>5. ASSUME Covered, resolved PROVE Seen'
  <2>1. viewAge' = 0
    BY <1>1, <1>5 DEF Covered, Fresh
  <2>2. Covered'
    BY <1>0, <1>1, <1>2, <1>5 DEF Covered
  <2> QED
    BY <1>1, <2>1, <2>2 DEF Seen
<1>6. CASE heard
  BY <1>4, <1>5, <1>6 DEF Seen, Unseen, KnownInv
<1>7. CASE ~heard
  <2>1. Fresh /\ resolved /\ viewAge' = 0
    BY <1>1, <1>7
  <2>2. ASSUME Wait + Reserve <= Tolerance + 1 PROVE Lagging'
    <3>1. viewAge' + Wait' + Reserve' <= Tolerance' + (IF Off \in late' THEN 1 ELSE 2)
      BY <1>0, <1>2, <2>1, <2>2
    <3> QED
      BY <3>1 DEF Lagging
  <2>3. CASE sent = Off
    <3>1. Wait <= 1
      BY <1>1, <2>3 DEF Wait
    <3> QED
      BY <1>0, <2>2, <3>1
  <2>4. CASE Upsets < MaxFaults
    BY <1>0, <2>2, <2>4
  <2>5. CASE sent # Off /\ Upsets = MaxFaults
    <3>1. cache # Off /\ cacheAge < Expiry
      BY <2>1 DEF Fresh
    <3>2. cacheAge <= sinceSend /\ Wait = Refresh - sinceSend
      BY <1>1, <2>5, <3>1 DEF UpsetInv, Wait
    <3>3. Covered
      BY <1>0, <3>1, <3>2 DEF Covered
    <3> QED
      BY <1>5, <2>1, <3>3
  <2> QED
    BY <1>0, <2>3, <2>4, <2>5
<1> QED
  BY <1>6, <1>7

LEMMA SumMoves ==
  ASSUME NEW v \in Nat, NEW w \in Nat, NEW r \in Nat, NEW x \in Nat, NEW y \in Nat,
         NEW b \in Nat, y <= v + 1, x <= w - 1, v + w + r <= b
  PROVE  y + x + r <= b
  OBVIOUS

(* A tick brings the announcement as much nearer as it ages what is known.  *)
LEMMA GapTick ==
  ASSUME TypeOK, TypeOK', UpsetInv, UpsetInv', KnownInv, [Next]_vars,
         heard, Lagging \/ Seen \/ Unseen, Tick
  PROVE  Lagging' \/ Seen' \/ Unseen'
<1>0. /\ Wait \in 0..Refresh /\ Reserve \in Nat /\ Reserve <= Tolerance
      /\ Tolerance \in Nat /\ Tolerance' = Tolerance
      /\ Refresh \in Nat \ {0} /\ Expiry \in Nat /\ Refresh < Expiry
      /\ cacheAge \in 0..Expiry /\ viewAge \in 0..Expiry /\ sinceSend \in 0..Refresh
      /\ Wait' \in 0..Refresh /\ cacheAge' \in 0..Expiry /\ viewAge' \in 0..Expiry
  BY GapNumbers, GapStepNumbers
<1>1. /\ sentTick /\ recvTick /\ wire = Nothing /\ ~sentTick' /\ ~recvTick'
      /\ wire' = wire /\ sent' = sent /\ late' = late /\ faults' = faults /\ cache' = cache
      /\ sinceSend' = UpTo(sinceSend, Refresh) /\ cacheAge' = UpTo(cacheAge, Expiry)
      /\ viewAge' = UpTo(viewAge, Expiry)
  BY DEF Tick
<1>2. cacheAge' <= cacheAge + 1 /\ viewAge' <= viewAge + 1
  BY <1>0, <1>1, UpToBounded
<1>3. Wait' = Wait - 1
  <2>1. CASE sent = Off
    BY <1>1, <2>1 DEF Wait
  <2>2. CASE sent # Off
    <3>1. sinceSend' = sinceSend + 1
      BY <1>0, <1>1, <2>2, UpToBounded DEF KnownInv
    <3> QED
      BY <1>0, <1>1, <2>2, <3>1 DEF Wait
  <2> QED
    BY <2>1, <2>2
<1>4. Reserve' = Reserve
  BY <1>1 DEF Reserve, Upsets, HeldEnd
<1>9. /\ Wait \in Nat /\ Wait' \in Nat /\ Wait' <= Wait - 1
      /\ cacheAge \in Nat /\ cacheAge' \in Nat /\ viewAge \in Nat /\ viewAge' \in Nat
  BY <1>0, <1>3
<1>5. CASE Lagging
  <2> DEFINE b == Tolerance + (IF Off \in late THEN 1 ELSE 2)
  <2>1. b \in Nat /\ viewAge + Wait + Reserve <= b
    BY <1>0, <1>5 DEF Lagging
  <2>2. b = Tolerance' + (IF Off \in late' THEN 1 ELSE 2)
    BY <1>0, <1>1
  <2> HIDE DEF b
  <2>3. viewAge' + Wait' + Reserve <= b
    BY <1>0, <1>9, <1>2, <2>1, SumMoves
  <2>4. viewAge' + Wait' + Reserve' <= Tolerance' + (IF Off \in late' THEN 1 ELSE 2)
    BY <1>4, <2>2, <2>3
  <2> QED
    BY <2>4 DEF Lagging
<1>6. ASSUME Covered, cacheAge + 1 < Expiry PROVE Covered'
  <2>1. Tolerance + Refresh \in Nat /\ cacheAge + Wait + Reserve <= Tolerance + Refresh
    BY <1>0, <1>6 DEF Covered
  <2>2. cacheAge' + Wait' + Reserve <= Tolerance + Refresh
    BY <1>0, <1>9, <1>2, <2>1, SumMoves
  <2>3. cacheAge' + Wait' + Reserve' <= Tolerance' + Refresh
    BY <1>0, <1>4, <2>2
  <2>4. cache' # Off /\ cacheAge' < Expiry
    BY <1>0, <1>1, <1>2, <1>6 DEF Covered
  <2> QED
    BY <2>3, <2>4 DEF Covered
<1>7. CASE Seen
  <2>1. viewAge = 0 /\ viewAge' <= 1 /\ Covered
    BY <1>0, <1>1, <1>2, <1>7 DEF Seen
  <2>2. CASE cacheAge + 1 < Expiry
    BY <1>1, <1>6, <2>1, <2>2 DEF Seen
  <2>3. CASE ~(cacheAge + 1 < Expiry)
    <3>1. cacheAge + Wait + Reserve <= Tolerance + Refresh /\ cacheAge < Expiry
      BY <2>1 DEF Covered
    <3>2. Wait' + Reserve <= Tolerance
      BY <1>0, <1>3, <2>3, <3>1
    <3> DEFINE e == IF Off \in late' THEN 1 ELSE 2
    <3>5. e \in 1..2
      OBVIOUS
    <3> HIDE DEF e
    <3>3. viewAge' + Wait' + Reserve <= Tolerance + e
      BY <1>0, <1>9, <2>1, <3>2, <3>5, SumShort
    <3>4. viewAge' + Wait' + Reserve' <= Tolerance' + (IF Off \in late' THEN 1 ELSE 2)
      BY <1>0, <1>4, <3>3 DEF e
    <3> QED
      BY <3>4 DEF Lagging
  <2> QED
    BY <2>2, <2>3
<1>8. CASE Unseen
  <2>1. cacheAge = 0 /\ Covered /\ cacheAge' <= 1
    BY <1>0, <1>1, <1>2, <1>8 DEF Unseen
  <2>2. Covered'
    BY <1>0, <1>6, <2>1
  <2>3. Off \in late => viewAge + Reserve <= Tolerance + 1
    BY <1>1, <1>8 DEF Unseen
  <2>4. Off \in late' => viewAge' + Reserve' <= Tolerance' + (IF recvTick' THEN 1 ELSE 2)
    BY <1>0, <1>1, <1>2, <1>4, <2>3
  <2> QED
    BY <1>1, <2>1, <2>2, <2>4 DEF Unseen
<1> QED
  BY <1>5, <1>7, <1>8

LEMMA StepGap ==
  ASSUME TypeOK, TypeOK', UpsetInv, UpsetInv', AnnouncedInv, KnownInv, KnownInv', GapInv,
         [Next]_vars
  PROVE  GapInv'
<1> SUFFICES ASSUME heard' PROVE Lagging' \/ Seen' \/ Unseen'
  BY DEF GapInv
<1>0. /\ Wait \in 0..Refresh /\ Wait' \in 0..Refresh /\ Refresh \in Nat
      /\ Reserve \in Nat /\ Reserve' \in Nat /\ Reserve' <= Reserve
  BY GapNumbers, GapStepNumbers
<1>1. ~ReceiverTick => heard
  BY DEF Next, vars, Change, SenderTick, Receive, ReceiveLate, LearnSession, LearnName, Lose,
         HoldBack, Tick
<1>2. CASE ReceiverTick
  BY <1>2, GapLook DEF GapInv
<1> SUFFICES ASSUME ~ReceiverTick PROVE Lagging' \/ Seen' \/ Unseen'
  BY <1>2
<1>3. heard /\ (Lagging \/ Seen \/ Unseen)
  BY <1>1 DEF GapInv
<1>4. CASE Receive
  BY <1>3, <1>4, GapReceive
<1>5. ASSUME NEW m \in late, ReceiveLate(m) PROVE Lagging' \/ Seen' \/ Unseen'
  BY <1>3, <1>5, GapReceiveLate
<1>6. CASE Tick
  BY <1>3, <1>6, GapTick
<1>7. CASE SenderTick
  <2>1. /\ late' = late /\ faults' = faults /\ cache' = cache /\ cacheAge' = cacheAge
        /\ viewAge' = viewAge /\ recvTick' = recvTick /\ local # Off /\ wire = Nothing
        /\ ~sentTick
    BY <1>3, <1>7 DEF SenderTick, receiver, KnownInv, AnnouncedInv
  <2>2. Reserve' = Reserve
    BY <2>1 DEF Reserve, Upsets, HeldEnd
  <2>3. Wait' <= Wait
    <3>1. CASE wire' = local
      <4>1. wire' # Nothing
        BY <3>1, ChannelsAssumption DEF TypeOK, States, Off, Nothing
      <4>2. Wait' = 0
        BY <4>1 DEF Wait
      <4> QED
        BY <1>0, <4>2
    <3>2. CASE UNCHANGED <<wire, sent, sinceSend>> /\ ~Changed
      <4>1. sent # Off /\ sent' # Off /\ wire' = Nothing /\ sinceSend' = sinceSend
        BY <2>1, <3>2 DEF Changed
      <4>2. Wait' = Wait
        BY <2>1, <4>1 DEF Wait
      <4> QED
        BY <1>0, <4>2
    <3> QED
      BY <1>7, <3>1, <3>2 DEF SenderTick
  <2>4. Wait' + Reserve' <= Wait + Reserve
    <3>1. Wait \in Nat /\ Wait' \in Nat
      BY <1>0
    <3> QED
      BY <1>0, <3>1, <2>2, <2>3, SumNearer
  <2> QED
    BY <1>3, <2>1, <2>4, GapKept
<1>8. CASE Lose \/ HoldBack
  <2>1. /\ wire # Nothing /\ wire # Off /\ (late' = late \/ late' = late \cup {wire})
        /\ cache' = cache /\ cacheAge' = cacheAge /\ viewAge' = viewAge
        /\ recvTick' = recvTick
    BY <1>3, <1>8 DEF Lose, HoldBack, receiver, KnownInv
  <2>2. (Off \in late') <=> (Off \in late)
    BY <2>1
  <2>3. Reserve' + Refresh <= Reserve
    BY <1>8, <2>1, UpsetStep, GapStepNumbers
  <2>4. Wait = 0
    BY <2>1 DEF Wait
  <2>5. Wait' + Reserve' <= Wait + Reserve
    BY <1>0, <2>3, <2>4, SumSpent
  <2> QED
    BY <1>3, <2>1, <2>2, <2>5, GapKept
<1>9. ASSUME /\ late' = late /\ faults' = faults /\ cache' = cache /\ cacheAge' = cacheAge
             /\ viewAge' = viewAge /\ recvTick' = recvTick
             /\ wire' = wire /\ sent' = sent /\ sentTick' = sentTick /\ sinceSend' = sinceSend
      PROVE  Lagging' \/ Seen' \/ Unseen'
  <2>1. Wait' = Wait /\ Reserve' = Reserve
    BY <1>9 DEF Wait, Reserve, Upsets, HeldEnd
  <2>2. Wait' + Reserve' <= Wait + Reserve
    BY <1>0, <2>1
  <2> QED
    BY <1>3, <1>9, <2>2, GapKept
<1>10. ASSUME NEW c \in Channels \cup {Off}, Change(c) PROVE Lagging' \/ Seen' \/ Unseen'
  <2>1. /\ late' = late /\ faults' = faults /\ cache' = cache /\ cacheAge' = cacheAge
        /\ viewAge' = viewAge /\ recvTick' = recvTick
        /\ wire' = wire /\ sent' = sent /\ sentTick' = sentTick /\ sinceSend' = sinceSend
    BY <1>10 DEF Change, sender, receiver
  <2> QED
    BY <1>9, <2>1
<1>11. CASE LearnSession \/ LearnName
  <2>1. /\ late' = late /\ faults' = faults /\ cache' = cache /\ cacheAge' = cacheAge
        /\ viewAge' = viewAge /\ recvTick' = recvTick
        /\ wire' = wire /\ sent' = sent /\ sentTick' = sentTick /\ sinceSend' = sinceSend
    <3>1. CASE LearnSession
      BY <3>1 DEF LearnSession, sender
    <3>2. CASE LearnName
      BY <3>2 DEF LearnName, sender
    <3> QED
      BY <1>11, <3>1, <3>2
  <2> QED
    BY <1>9, <2>1
<1>12. CASE UNCHANGED vars
  BY <1>9, <1>12 DEF vars
<1> QED
  BY <1>4, <1>5, <1>6, <1>7, <1>8, <1>10, <1>11, <1>12 DEF Next

(* At the receiver's tick the time since the last look that found the       *)
(* transmission is within the tolerance, unless the cache has it now.       *)
LEMMA StillTalking ==
  ASSUME TypeOK, TypeOK', KnownInv, UpsetInv, GapInv, MaxFaults * Refresh + 2 < Expiry,
         heard, ReceiverTick
  PROVE  talking'
<1>0. /\ Wait \in Nat /\ Reserve \in Nat /\ Tolerance \in Nat /\ Expiry \in Nat \ {0}
      /\ viewAge \in Nat /\ Tolerance + 2 < Expiry
  <2>1. Tolerance + 2 < Expiry
    BY DEF Tolerance
  <2>2. /\ Wait \in 0..Refresh /\ Reserve \in Nat /\ Tolerance \in Nat
        /\ Expiry \in Nat \ {0} /\ viewAge \in 0..Expiry
    BY GapNumbers
  <2> QED
    BY <2>1, <2>2
<1>1. view # Off /\ resolved
  BY DEF KnownInv
<1>2. CASE Fresh
  <2>1. view' = cache /\ cache # Off /\ viewAge' = 0
    BY <1>1, <1>2 DEF ReceiverTick, Fresh
  <2>2. talking' = (view' # Off /\ viewAge' < Expiry)
    BY DEF ReceiverTick, Valid
  <2>3. 0 < Expiry
    BY <1>0
  <2> QED
    BY <2>1, <2>2, <2>3
<1>3. CASE ~Fresh
  <2>1. Lagging
    BY <1>3 DEF GapInv, Seen, Unseen, Covered, Fresh
  <2> DEFINE e == IF Off \in late THEN 1 ELSE 2
  <2>2. e \in 1..2 /\ viewAge + Wait + Reserve <= Tolerance + e
    BY <2>1 DEF Lagging
  <2> HIDE DEF e
  <2>3. viewAge < Expiry
    BY <1>0, <2>2
  <2> QED
    BY <1>1, <1>3, <2>3 DEF ReceiverTick, Valid
<1> QED
  BY <1>2, <1>3

(* The invariant of the gap holds in every behaviour.                       *)
KeptInv == TypeOK /\ AnnouncedInv /\ KnownInv /\ UpsetInv /\ GapInv

LEMMA InitKept == Init => KeptInv
<1> SUFFICES ASSUME Init PROVE KeptInv
  OBVIOUS
<1>1. AnnouncedInv /\ KnownInv /\ GapInv
  BY DEF Init, AnnouncedInv, KnownInv, GapInv
<1>2. HeldEnd = 0 /\ Upsets = MaxFaults
  BY TicksAssumption DEF Init, HeldEnd, Upsets
<1>3. UpsetInv
  BY <1>2, TicksAssumption DEF Init, UpsetInv
<1> QED
  BY <1>1, <1>3, InitType DEF KeptInv

LEMMA StepKept == KeptInv /\ [Next]_vars => KeptInv'
<1> SUFFICES ASSUME KeptInv, [Next]_vars PROVE KeptInv'
  OBVIOUS
<1>1. TypeOK' /\ AnnouncedInv' /\ KnownInv'
  BY StepType, StepAnnounced, StepKnown DEF KeptInv
<1>2. UpsetInv'
  BY <1>1, StepUpset DEF KeptInv
<1>3. GapInv'
  BY <1>1, <1>2, StepGap DEF KeptInv
<1> QED
  BY <1>1, <1>2, <1>3 DEF KeptInv

(* A transmission that is heard is never interrupted, if what the faults    *)
(* can do together stays below the expiry: every fault costs one refresh,   *)
(* and two ticks go to the order in which the two clients' ticks, the end   *)
(* of the transmission before and a change of the frequency can fall        *)
(* (Extension.cpp:105-139, VoiceSession.cpp:92-109, State.cpp:475-500).     *)
THEOREM DropoutCorrect ==
  ASSUME MaxFaults * Refresh + 2 < Expiry
  PROVE  Spec => NoDropout
<1>1. KeptInv /\ [Next]_vars => [talking /\ ~talking' => ~heard]_vars
  <2> SUFFICES ASSUME KeptInv, Next, talking, ~talking', heard PROVE FALSE
    BY DEF KeptInv
  <2>1. ReceiverTick
    BY DEF Next, Change, SenderTick, Receive, ReceiveLate, LearnSession, LearnName, Lose,
           HoldBack, Tick, receiver
  <2>2. TypeOK'
    BY StepType DEF KeptInv
  <2> QED
    BY <2>1, <2>2, StillTalking DEF KeptInv
<1> QED
  BY <1>1, InitKept, StepKept, PTL DEF Spec, NoDropout

----------------------------------------------------------------------------
(* The receiver agrees in the end.  The premises say of every timer that it *)
(* runs out unless it is set back again and again, and of every thread that *)
(* it goes on; the fairness of FairSpec implies them.                       *)
CacheReset == cacheAge' < cacheAge
ViewReset  == viewAge' < viewAge
SendReset  == sinceSend' < sinceSend

(* Ticks go on, and in each both sender threads have run; what was held back*)
(* arrives, and the receiver learns of the sender.                          *)
ClientsRun ==
  /\ []<><<Tick>>_vars
  /\ []<>(late = {}) /\ []<>inRoster /\ []<>resolved

(* The two expiries and the interval between refreshes pass.                *)
ClocksRun ==
  /\ []<>(cacheAge = Expiry) \/ []<><<CacheReset>>_vars
  /\ []<>(viewAge = Expiry) \/ []<><<ViewReset>>_vars
  /\ []<>(sinceSend = Refresh) \/ []<><<SendReset>>_vars

(* The tangent stays as it is, and the network loses nothing more.          *)
DisturbancesEnd == <>[][changes' = changes /\ faults' = faults]_vars

(* The receiver knows the sender, and nothing old is on its way.            *)
Calm == late = {} /\ inRoster /\ resolved

(* The steps that are left then.                                            *)
CalmStep == SenderTick \/ Receive \/ ReceiverTick \/ Tick \/ UNCHANGED vars

(* Without changes and faults the calm stays.                               *)
LEMMA NothingChanges ==
  ASSUME TypeOK, [Next]_vars, [changes' = changes /\ faults' = faults]_vars
  PROVE  /\ late = {} => (late = {})'
         /\ inRoster => inRoster'
         /\ resolved => resolved'
         /\ Calm => CalmStep
         /\ local' = local
<1>0. changes \in Nat /\ faults \in Nat
  BY TicksAssumption DEF TypeOK
<1>1. ASSUME NEW c \in Channels \cup {Off}, Change(c) PROVE UNCHANGED vars
  BY <1>0, <1>1 DEF Change
<1>2. Lose \/ HoldBack => UNCHANGED vars
  BY <1>0 DEF Lose, HoldBack
<1>3. \/ SenderTick \/ Receive \/ ReceiverTick \/ (\E m \in late : ReceiveLate(m))
      \/ LearnSession \/ LearnName \/ Tick \/ UNCHANGED vars
  BY <1>1, <1>2 DEF Next
<1>4. late = {} => (late = {})'
  BY <1>3 DEF SenderTick, Receive, ReceiverTick, LearnSession, LearnName, Tick, vars
<1>5. (inRoster => inRoster') /\ (resolved => resolved') /\ local' = local
  BY <1>3 DEF SenderTick, Receive, ReceiveLate, ReceiverTick, LearnSession, LearnName, Tick,
              vars, receiver
<1>6. Calm => CalmStep
  BY <1>3 DEF Calm, CalmStep, LearnSession, LearnName
<1> QED
  BY <1>4, <1>5, <1>6

(* What is on the wire is what the transmitter does now.                    *)
OnWire == wire \in {Nothing, local}

LEMMA WireSettles ==
  ASSUME CalmStep, local' = local
  PROVE  (OnWire => OnWire') /\ (Tick => OnWire')
  BY DEF OnWire, CalmStep, SenderTick, Receive, ReceiverTick, Tick, sender, vars

(* Without a transmission nothing sets the two expiries back, and what is   *)
(* left of the last one runs out: first in the cache, then in the State.    *)
LEMMA RunsOut ==
  ASSUME TypeOK, Calm, CalmStep, local' = local, local = Off, OnWire
  PROVE  /\ ~CacheReset
         /\ cacheAge = Expiry => /\ (cacheAge = Expiry)'
                                 /\ ~ViewReset
                                 /\ viewAge = Expiry => (viewAge = Expiry)'
         /\ cacheAge = Expiry /\ viewAge = Expiry =>
              /\ (recvTick => ~talking) => (recvTick => ~talking)'
              /\ Tick => (recvTick => ~talking)' /\ recvTick
              /\ ~talking => ~talking'
<1>0. /\ cacheAge \in 0..Expiry /\ viewAge \in 0..Expiry /\ Expiry \in Nat \ {0}
      /\ wire \in {Nothing, Off}
  BY TicksAssumption DEF TypeOK, OnWire
<1> USE DEF CacheReset, ViewReset
<1>1. CASE SenderTick
  BY <1>0, <1>1 DEF SenderTick, receiver, Tick
<1>2. CASE Receive
  <2>1. cacheAge' = Expiry
    BY <1>0, <1>2 DEF Receive, OnRadioTx, Calm
  <2>2. UNCHANGED <<viewAge, talking, recvTick>>
    BY <1>2 DEF Receive
  <2>3. ~Tick
    BY <1>2 DEF Receive, Tick
  <2> QED
    BY <1>0, <2>1, <2>2, <2>3
<1>3. CASE ReceiverTick
  <2>1. cacheAge' = cacheAge
    BY <1>3 DEF ReceiverTick
  <2>2. ASSUME cacheAge = Expiry PROVE viewAge' = viewAge
    <3>1. ~Fresh
      BY <1>0, <2>2 DEF Fresh
    <3> QED
      BY <1>3, <3>1 DEF ReceiverTick
  <2>3. ASSUME cacheAge = Expiry, viewAge = Expiry PROVE ~talking'
    <3>1. talking' = (view' # Off /\ Valid(viewAge'))
      BY <1>3 DEF ReceiverTick
    <3>2. ~(viewAge' < Expiry)
      BY <1>0, <2>2, <2>3
    <3>3. ~(view' # Off /\ Valid(viewAge'))
      BY <3>2 DEF Valid
    <3> QED
      BY <3>1, <3>3, Zenon
  <2>4. ~Tick
    BY <1>3 DEF ReceiverTick, Tick
  <2> QED
    BY <1>0, <2>1, <2>2, <2>3, <2>4
<1>4. CASE Tick
  BY <1>0, <1>4 DEF Tick, UpTo
<1>5. CASE UNCHANGED vars
  BY <1>0, <1>5 DEF vars, Tick
<1> QED
  BY <1>1, <1>2, <1>3, <1>4, <1>5 DEF CalmStep

(* The transmitter has announced itself in this tick, if it had to; the     *)
(* announcement is on the wire; the receiver's cache has one, no older than *)
(* the interval between refreshes, and no older than the last that was sent.*)
InTime == sentTick => sinceSend < Refresh
Underway == wire = local
Known ==
  /\ cache = local
  /\ cacheAge <= Refresh
  /\ wire = Nothing => cacheAge <= sinceSend

(* The receiver's State has the transmission.                               *)
HeardNow == talking /\ view = local

(* A transmission is announced again before the interval is over, and what  *)
(* is announced comes to the cache, where it does not expire.               *)
LEMMA GoesOn ==
  ASSUME TypeOK, Calm, CalmStep, local' = local, local # Off, OnWire
  PROVE  /\ InTime => InTime'
         /\ Tick => InTime' /\ sentTick /\ ~Underway
         /\ Underway => Underway' \/ (InTime => Known')
         /\ SendReset => Underway'
         /\ sinceSend = Refresh => (sinceSend = Refresh)' \/ Underway'
         /\ Known /\ InTime => Known'
<1>0. /\ cacheAge \in 0..Expiry /\ sinceSend \in 0..Refresh /\ Refresh \in Nat \ {0}
      /\ Expiry \in Nat /\ Refresh < Expiry /\ local # Nothing
      /\ wire = Nothing \/ wire = local
  BY TicksAssumption, ChannelsAssumption DEF TypeOK, OnWire, States
<1> USE DEF InTime, Underway, SendReset, Known
<1>1. CASE SenderTick
  <2>1. UNCHANGED <<cache, cacheAge>> /\ sentTick' /\ ~Tick
    BY <1>1 DEF SenderTick, receiver, Tick
  <2>2. CASE Changed \/ RefreshDue
    BY <1>0, <1>1, <2>1, <2>2 DEF SenderTick
  <2>3. CASE ~(Changed \/ RefreshDue)
    <3>1. UNCHANGED <<wire, sinceSend>> /\ sinceSend < Refresh
      BY <1>0, <1>1, <2>3 DEF SenderTick, RefreshDue
    <3> QED
      BY <1>0, <2>1, <3>1
  <2> QED
    BY <2>2, <2>3
<1>2. CASE Receive
  <2>1. cache' = local /\ cacheAge' = 0 /\ wire' = Nothing
    BY <1>0, <1>2 DEF Receive, OnRadioTx, Calm
  <2>2. UNCHANGED <<sinceSend, sentTick>> /\ ~Tick
    BY <1>2 DEF Receive, sender, Tick
  <2> QED
    BY <1>0, <2>1, <2>2
<1>3. CASE ReceiverTick
  BY <1>0, <1>3 DEF ReceiverTick, sender, Tick
<1>4. CASE Tick
  BY <1>0, <1>4 DEF Tick, UpTo
<1>5. CASE UNCHANGED vars
  BY <1>0, <1>5 DEF vars, Tick
<1> QED
  BY <1>1, <1>2, <1>3, <1>4, <1>5 DEF CalmStep

(* From the cache it comes to the receiver's State, with the next tick.     *)
LEMMA ComesThrough ==
  ASSUME TypeOK, Calm, CalmStep, local' = local, local # Off, Known
  PROVE  /\ (recvTick => HeardNow) => (recvTick => HeardNow)'
         /\ Tick => (recvTick => HeardNow)' /\ recvTick
         /\ HeardNow => HeardNow'
<1> USE DEF HeardNow
<1>1. CASE SenderTick \/ Receive
  BY <1>1 DEF SenderTick, receiver, Receive, Tick
<1>2. CASE ReceiverTick
  <2>1. Fresh /\ resolved
    BY TicksAssumption DEF Fresh, Known, Calm, TypeOK
  <2>2. view' = local /\ viewAge' = 0 /\ talking' = (view' # Off /\ Valid(viewAge')) /\ recvTick'
    BY <1>2, <2>1 DEF ReceiverTick, Known
  <2>3. 0 < Expiry
    BY TicksAssumption
  <2>4. talking'
    BY <2>2, <2>3 DEF Valid
  <2>5. ~Tick
    BY <1>2 DEF ReceiverTick, Tick
  <2> QED
    BY <2>2, <2>4, <2>5
<1>3. CASE Tick
  BY <1>3 DEF Tick
<1>4. CASE UNCHANGED vars
  BY <1>4 DEF vars, Tick
<1> QED
  BY <1>1, <1>2, <1>3, <1>4 DEF CalmStep

(* In the end the receiver agrees with the transmitter, whatever was lost,  *)
(* late or ignored, for every refresh shorter than the expiry and any number*)
(* of repeated ends (Extension.cpp:106-166, VoiceSession.cpp:65-105).       *)
THEOREM AgreementCorrect ==
  Spec /\ ClientsRun /\ ClocksRun /\ DisturbancesEnd => Agreement
<1> DEFINE LE == late = {}
           N == inRoster
           RS == resolved
           Off0 == local = Off
           ST == sentTick
           RT0 == recvTick
           CE == cacheAge = Expiry
           VE == viewAge = Expiry
           SR == sinceSend = Refresh
           Q == ~talking
           P3 == recvTick => ~talking
           P4 == recvTick => HeardNow
           Quiet == [changes' = changes /\ faults' = faults]_vars
<1>1. TypeOK /\ [Next]_vars /\ Quiet => (LE => LE') /\ (N => N') /\ (RS => RS')
  BY NothingChanges
<1>2. Calm <=> LE /\ N /\ RS
  BY DEF Calm
<1>3. TypeOK /\ [Next]_vars /\ Quiet /\ Calm
        => (Off0 => Off0') /\ (~Off0 => ~Off0') /\ (OnWire => OnWire')
  BY NothingChanges, WireSettles
<1>4. TypeOK /\ [Next]_vars /\ Quiet /\ Calm /\ <<Tick>>_vars
        => OnWire'
  BY NothingChanges, WireSettles
<1>5. TypeOK /\ [Next]_vars /\ Quiet /\ Calm /\ Off0 /\ OnWire
        => /\ ~CacheReset
           /\ CE => CE' /\ ~ViewReset /\ (VE => VE')
           /\ CE /\ VE => (P3 => P3') /\ (Q => Q')
  BY NothingChanges, RunsOut
<1>6. TypeOK /\ [Next]_vars /\ Quiet /\ Calm /\ Off0 /\ OnWire /\ <<Tick>>_vars
        => (CE /\ VE => P3' /\ RT0)
  BY NothingChanges, RunsOut
<1>7. P3 /\ RT0 => Q
  OBVIOUS
<1>8. TypeOK /\ [Next]_vars /\ Quiet /\ Calm /\ ~Off0 /\ OnWire
        => /\ InTime => InTime'
           /\ Underway => Underway' \/ (InTime => Known')
           /\ SendReset => Underway'
           /\ SR => SR' \/ Underway'
           /\ Known /\ InTime => Known'
           /\ Known => (P4 => P4') /\ (HeardNow => HeardNow')
  BY NothingChanges, GoesOn, ComesThrough
<1>9. TypeOK /\ [Next]_vars /\ Quiet /\ Calm /\ ~Off0 /\ OnWire /\ <<Tick>>_vars
        => InTime' /\ ST /\ ~Underway /\ (Known => P4' /\ RT0)
  BY NothingChanges, GoesOn, ComesThrough
<1>10. TypeOK /\ InTime /\ ST => ~SR
  BY TicksAssumption DEF InTime, TypeOK
<1>11. P4 /\ RT0 => HeardNow
  OBVIOUS
<1>12. TypeOK /\ ((Off0 /\ Q) \/ (~Off0 /\ HeardNow)) => Agree
  <2> SUFFICES ASSUME TypeOK, (Off0 /\ Q) \/ (~Off0 /\ HeardNow) PROVE Agree
    OBVIOUS
  <2>1. talking \in BOOLEAN
    BY DEF TypeOK
  <2>2. CASE Off0 /\ Q
    BY <2>1, <2>2 DEF Agree
  <2>3. CASE ~Off0 /\ HeardNow
    <3>1. talking = (local # Off)
      BY <2>1, <2>3, Zenon DEF HeardNow
    <3>2. view = local
      BY <2>3 DEF HeardNow
    <3> QED
      BY <3>1, <3>2, Zenon DEF Agree
  <2> QED
    BY <2>2, <2>3
<1>13. Spec /\ ClientsRun /\ ClocksRun /\ DisturbancesEnd => <>[]Agree
  <2>1. (LE <=> late = {}) /\ (N <=> inRoster) /\ (RS <=> resolved)
        /\ (CE <=> cacheAge = Expiry) /\ (VE <=> viewAge = Expiry) /\ (SR <=> sinceSend = Refresh)
    OBVIOUS
  <2> DEFINE F == Spec /\ ClientsRun /\ ClocksRun /\ DisturbancesEnd
  <2> HIDE DEF LE, N, RS, Off0, ST, RT0, CE, VE, SR, Q, P3, P4
  <2>2. F => <>[]Calm
    BY <1>1, <1>2, <2>1, TypeCorrect, PTL DEF Spec, ClientsRun, DisturbancesEnd
  <2>3. F => <>[]OnWire /\ (<>[]Off0 \/ <>[]~Off0)
    BY <1>3, <1>4, <2>2, TypeCorrect, PTL DEF Spec, ClientsRun, DisturbancesEnd
  <2>4. F /\ <>[]Off0 => <>[](CE /\ VE)
    BY <1>5, <2>1, <2>2, <2>3, TypeCorrect, PTL DEF Spec, ClocksRun, DisturbancesEnd
  <2>5. F /\ <>[]Off0 => <>[]Q
    BY <1>5, <1>6, <1>7, <2>2, <2>3, <2>4, TypeCorrect, PTL DEF Spec, ClientsRun, DisturbancesEnd
  <2>6. F /\ <>[]~Off0 => <>[]Known
    <3>1. F /\ <>[]~Off0 => <>[]InTime
      BY <1>8, <1>9, <2>2, <2>3, TypeCorrect, PTL DEF Spec, ClientsRun, DisturbancesEnd
    <3>2. F /\ <>[]~Off0 => []<>~SR /\ []<>~Underway
      BY <1>9, <1>10, <2>2, <2>3, <3>1, TypeCorrect, PTL DEF Spec, ClientsRun, DisturbancesEnd
    <3>3. F /\ <>[]~Off0 => []<>Underway
      BY <1>8, <2>1, <2>2, <2>3, <3>2, TypeCorrect, PTL DEF Spec, ClocksRun, DisturbancesEnd
    <3>4. F /\ <>[]~Off0 => <>Known
      BY <1>8, <2>2, <2>3, <3>1, <3>2, <3>3, TypeCorrect, PTL DEF Spec, DisturbancesEnd
    <3> QED
      BY <1>8, <2>2, <2>3, <3>1, <3>2, <3>3, TypeCorrect, PTL DEF Spec, DisturbancesEnd
  <2>7. F /\ <>[]~Off0 => <>[]HeardNow
    BY <1>8, <1>9, <1>11, <2>2, <2>3, <2>6, TypeCorrect, PTL DEF Spec, ClientsRun, DisturbancesEnd
  <2> QED
    BY <1>12, <2>3, <2>5, <2>7, TypeCorrect, PTL DEF Spec
<1> QED
  BY <1>13 DEF Agreement

=============================================================================
